----------------------------- MODULE FlashSale -----------------------------
(***************************************************************************)
(* What the flash sale promises, without saying how: a voucher published   *)
(* with a quota is granted to at most that many users, once each, and a    *)
(* granted user is booked at most once, each booking taking one unit.      *)
(***************************************************************************)
EXTENDS Integers, FiniteSets

CONSTANTS Users, Vouchers, Quota

VARIABLES holders,  \* holders[v]: the users v was granted to
          buyers,   \* buyers[v]: the holders whose order is on the books
          left      \* left[v]: units of v not yet on the books

saleState == <<holders, buyers, left>>

Init ==
    /\ holders = [v \in Vouchers |-> {}]
    /\ buyers = [v \in Vouchers |-> {}]
    /\ left = Quota

Grant(u, v) ==
    /\ u \notin holders[v]
    /\ Cardinality(holders[v]) < Quota[v]
    /\ holders' = [holders EXCEPT ![v] = @ \cup {u}]
    /\ UNCHANGED <<buyers, left>>

Book(u, v) ==
    /\ u \in holders[v] \ buyers[v]
    /\ left[v] > 0
    /\ buyers' = [buyers EXCEPT ![v] = @ \cup {u}]
    /\ left' = [left EXCEPT ![v] = @ - 1]
    /\ UNCHANGED holders

Next == \E u \in Users, v \in Vouchers : Grant(u, v) \/ Book(u, v)

Spec == Init /\ [][Next]_saleState
=============================================================================
