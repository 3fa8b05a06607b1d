-------------------------- MODULE SeckillInvariant --------------------------
(***************************************************************************)
(* The inductive invariant of Seckill, as a conjunction of named parts.    *)
(* Each part says what one store knows of another when neither is updated  *)
(* together with it.                                                       *)
(***************************************************************************)
EXTENDS Seckill

Busy(w) == pc[w] # "idle"

(* Every record in a log is an order the broker acknowledged. *)
LogInv == \A p \in Partitions : \A i \in DOMAIN topic[p] :
              req[topic[p][i]].pc = "published"

(* A busy thread works on a record it took from a log; an idle one has no   *)
(* outcome left over.                                                       *)
WorkerInv ==
    \A w \in Workers :
        /\ Busy(w) => job[w] \in Job /\ req[OrderOf(w)].pc = "published"
        /\ pc[w] = "idle" => result[w] = "none"

(* Redis: a granted order's user is in the set of a published voucher, no   *)
(* two of them are the same purchase, and the units add up, counted as      *)
(* users and counted as orders.                                             *)
GrantInv ==
    /\ \A o \in Orders : req[o].pc \in Granted =>
          /\ HasStockKey(req[o].voucher)
          /\ req[o].user \in redisOrders[req[o].voucher]
    /\ OneGrantPerPurchase

RedisInv ==
    \A v \in Vouchers :
        /\ IsFiniteSet(redisOrders[v])
        /\ ~HasStockKey(v) => redisOrders[v] = {}
        /\ HasStockKey(v) =>
              /\ redisStock[v] + Cardinality(redisOrders[v]) = Quota[v]
              /\ redisStock[v] + Cardinality(GrantedOrders(v)) = Quota[v]

(* MySQL: only orders of committed vouchers that reached the broker, and a  *)
(* thread past its UPDATE holds the row alone, with a unit to take.         *)
BookInv ==
    /\ \A o \in dbOrders : req[o].pc = "published" /\ pub[req[o].voucher] = "committed"
    /\ \A v \in Vouchers : pub[v] # "committed" => dbStock[v] = 0
    /\ StockMatchesOrders

RowInv ==
    /\ \A w \in Workers : pc[w] \in HoldsRow =>
          pub[VoucherOf(w)] = "committed" /\ dbStock[VoucherOf(w)] > 0
    /\ \A w \in Workers : pc[w] = "inserted" => ~AlreadyBooked(OrderOf(w))
    /\ \A w1, w2 \in Workers :
          pc[w1] \in HoldsRow /\ pc[w2] \in HoldsRow /\ VoucherOf(w1) = VoucherOf(w2)
              => w1 = w2

(* Kafka: what lies before the position is settled, the owner of a          *)
(* partition works on the record at its position, and an outcome other than *)
(* an error means that this very order is in the table.                     *)
OffsetInv ==
    \A p \in Partitions :
        /\ committed[p] <= position[p]
        /\ position[p] <= Len(topic[p])
        /\ \A i \in 1..position[p] : topic[p][i] \in dbOrders \cup dropped

JobInv ==
    \A w \in Workers : Busy(w) /\ owner[PartOf(w)] = w =>
        /\ position[PartOf(w)] < Len(topic[PartOf(w)])
        /\ topic[PartOf(w)][position[PartOf(w)] + 1] = OrderOf(w)

ResultInv ==
    \A w \in Workers : result[w] \in {"ok", "dup"} => OrderOf(w) \in dbOrders

(* Redisson: while leases are renewed, a thread in its critical section     *)
(* holds the lock of its user.                                              *)
LockInv ==
    ~LeaseLoss => \A w \in Workers : pc[w] \in Critical => lock[UserOf(w)] = w

IInv ==
    /\ TypeOK
    /\ LogInv /\ WorkerInv /\ GrantInv /\ RedisInv
    /\ BookInv /\ RowInv
    /\ OffsetInv /\ JobInv /\ ResultInv
    /\ LockInv
-----------------------------------------------------------------------------
(* What is known besides while the environment has not failed once: every   *)
(* record stands in the logs once, partitions stay where they are, locks    *)
(* are held by the threads inside handlerOrder, and the only error a thread *)
(* can end with is a lock:order:<user> held for another order of its user.  *)
Contended(o) == \E o2 \in Orders : /\ o2 # o
                                   /\ req[o2].user = req[o].user
                                   /\ req[o2].pc \in Granted

OnceInv == \A p, q \in Partitions : \A i \in DOMAIN topic[p], j \in DOMAIN topic[q] :
               topic[p][i] = topic[q][j] => p = q /\ i = j

HolderInv ==
    /\ \A u \in Users : lock[u] # Free =>
          lock[u] \in Workers /\ pc[lock[u]] \in Critical /\ UserOf(lock[u]) = u
    /\ \A w \in Workers : pc[w] \in Critical => lock[UserOf(w)] = w

OwnerInv == \A w \in Workers : Busy(w) => owner[PartOf(w)] = w

FreshInv == \A w \in Workers : pc[w] \in {"checked", "deducted", "inserted"} =>
                OrderOf(w) \notin dbOrders

ErrorInv ==
    /\ \A w \in Workers : result[w] = "err" => Contended(OrderOf(w))
    /\ \A o \in dropped : Contended(o)

CalmInv ==
    faults = 0 =>
        /\ OnceInv /\ HolderInv /\ OwnerInv /\ FreshInv /\ ErrorInv
        /\ \A v \in Vouchers : pub[v] # "rolledback"
=============================================================================
