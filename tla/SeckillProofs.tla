--------------------------- MODULE SeckillProofs ---------------------------
(***************************************************************************)
(* Theorems about Seckill, for any users, vouchers, orders, partitions and *)
(* threads.  Each part of the inductive invariant has a lemma saying that  *)
(* a step preserves it; IInvariant puts them together.                     *)
(***************************************************************************)
EXTENDS SeckillInvariant, SeckillRefinement, FiniteSetTheorems, TLAPS

LEMMA NextCases ==
    ASSUME Next
    PROVE  \/ \E v \in Vouchers : \/ PublishStock(v) \/ PublishCommit(v)
                                  \/ PublishRollback(v)
           \/ \E o \in Orders : \/ LuaError(o) \/ LuaSoldOut(o) \/ LuaRepeat(o)
                                \/ LuaAdmit(o) \/ SendAsync(o) \/ SendLost(o)
           \/ \E o \in Orders, p \in Partitions : BrokerAppend(o, p) \/ SendTwice(o, p)
           \/ \E w \in Workers, p \in Partitions :
                 Deliver(w, p) \/ CommitOffset(w, p) \/ Rebalance(p, w)
           \/ \E w \in Workers : \/ TryLock(w) \/ TryLockFails(w)
                                 \/ CheckDuplicate(w) \/ CheckFresh(w)
                                 \/ DeductStock(w) \/ DeductNothing(w)
                                 \/ InsertOrder(w) \/ InsertConflict(w)
                                 \/ CommitOrder(w) \/ Unlock(w)
           \/ \E w \in Workers : \/ Consumed(w) \/ Redeliver(w) \/ Skip(w) \/ Fenced(w)
           \/ \E w \in Workers : TxFails(w) \/ CommitUnknown(w) \/ Crash(w)
           \/ \E u \in Users : LeaseExpires(u) \/ LeaseLost(u)
           \/ UNCHANGED vars
BY DEF Next, Publish, Script, Send, Handle, Poll, Faults

USE DEF saleVars, kafkaVars, workerVars, dbVars
(* A request keeps its user and voucher for good; SetReq moves one request. *)
LEMMA SetReqLemma ==
    ASSUME TypeOK, NEW o \in Orders, NEW s \in ReqStates, SetReq(o, s)
    PROVE  /\ req' \in [Orders -> [pc : ReqStates, user : Users, voucher : Vouchers]]
           /\ req'[o].pc = s
           /\ \A x \in Orders : /\ x # o => req'[x] = req[x]
                                /\ req'[x].user = req[x].user
                                /\ req'[x].voucher = req[x].voucher
<1>. DEFINE Request == [pc : ReqStates, user : Users, voucher : Vouchers]
<1>1. req \in [Orders -> Request] /\ req[o] \in Request
  BY DEF TypeOK
<1>2. req' = [req EXCEPT ![o] = [req[o] EXCEPT !.pc = s]]
  BY DEF SetReq
<1>3. /\ [req[o] EXCEPT !.pc = s] \in Request
      /\ [req[o] EXCEPT !.pc = s].pc = s
      /\ [req[o] EXCEPT !.pc = s].user = req[o].user
      /\ [req[o] EXCEPT !.pc = s].voucher = req[o].voucher
  BY <1>1
<1>. HIDE DEF Request
<1>4. /\ req' \in [Orders -> Request]
      /\ req'[o] = [req[o] EXCEPT !.pc = s]
      /\ \A x \in Orders : x # o => req'[x] = req[x]
  BY <1>1, <1>2, <1>3
<1>. QED
  BY <1>3, <1>4 DEF Request

LEMMA TypeStep ==
    ASSUME IInv, [Next]_vars
    PROVE  TypeOK'
<1>. USE QuotaAssumption DEF IInv, TypeOK
<1>1. ASSUME NEW v \in Vouchers, PublishStock(v)
      PROVE  TypeOK'
  BY <1>1 DEF PublishStock, PubStates
<1>2. ASSUME NEW v \in Vouchers, PublishCommit(v)
      PROVE  TypeOK'
  BY <1>2 DEF PublishCommit, PubStates
<1>3. ASSUME NEW v \in Vouchers, PublishRollback(v)
      PROVE  TypeOK'
  BY <1>3 DEF PublishRollback, PubStates
<1>4. ASSUME NEW o \in Orders,
             LuaError(o) \/ LuaSoldOut(o) \/ LuaRepeat(o) \/ SendAsync(o)
      PROVE  TypeOK'
  <2>1. \E s \in ReqStates : SetReq(o, s)
    BY <1>4 DEF LuaError, LuaSoldOut, LuaRepeat, SendAsync, ReqStates
  <2>. QED
    BY <1>4, <2>1, SetReqLemma DEF LuaError, LuaSoldOut, LuaRepeat, SendAsync
<1>5. ASSUME NEW o \in Orders, LuaAdmit(o)
      PROVE  TypeOK'
  <2>1. SetReq(o, "admitted") /\ "admitted" \in ReqStates
    BY <1>5 DEF LuaAdmit, ReqStates
  <2>. QED
    BY <1>5, <2>1, SetReqLemma DEF LuaAdmit
<1>6. ASSUME NEW o \in Orders, SendLost(o)
      PROVE  TypeOK'
  <2>1. SetReq(o, "lost") /\ "lost" \in ReqStates
    BY <1>6 DEF SendLost, ReqStates
  <2>. QED
    BY <1>6, <2>1, SetReqLemma, SMTT(40) DEF SendLost
<1>7. ASSUME NEW o \in Orders, NEW p \in Partitions, BrokerAppend(o, p)
      PROVE  TypeOK'
  <2>1. SetReq(o, "published") /\ "published" \in ReqStates
    BY <1>7 DEF BrokerAppend, ReqStates
  <2>2. topic' \in [Partitions -> Seq(Orders)]
    BY <1>7 DEF BrokerAppend
  <2>. QED
    BY <1>7, <2>1, <2>2, SetReqLemma, SMTT(40) DEF BrokerAppend
<1>8. ASSUME NEW o \in Orders, NEW p \in Partitions, SendTwice(o, p)
      PROVE  TypeOK'
  <2>1. topic' \in [Partitions -> Seq(Orders)]
    BY <1>8 DEF SendTwice
  <2>. QED
    BY <1>8, <2>1, SMTT(60) DEF SendTwice
<1>9. ASSUME NEW w \in Workers, NEW p \in Partitions, Deliver(w, p)
      PROVE  TypeOK'
  <2>1. topic[p][position[p] + 1] \in Orders
    BY <1>9 DEF Deliver
  <2>2. [part |-> p, order |-> topic[p][position[p] + 1]] \in Job
    BY <2>1 DEF Job
  <2>. QED
    BY <1>9, <2>2 DEF Deliver, Goto, WorkerStates
<1>10. ASSUME NEW w \in Workers, NEW p \in Partitions, CommitOffset(w, p)
       PROVE  TypeOK'
  BY <1>10 DEF CommitOffset
<1>11. ASSUME NEW w \in Workers, NEW p \in Partitions, Rebalance(p, w)
       PROVE  TypeOK'
  BY <1>11 DEF Rebalance, Fault
<1>12. ASSUME NEW w \in Workers, TryLock(w) \/ TryLockFails(w)
       PROVE  TypeOK'
  <2>1. lock' \in [Users -> Workers \cup {Free, Orphan}]
    BY <1>12 DEF TryLock, TryLockFails
  <2>. QED
    BY <1>12, <2>1 DEF TryLock, TryLockFails, Goto, WorkerStates
<1>13. ASSUME NEW w \in Workers,
              \/ CheckDuplicate(w) \/ CheckFresh(w) \/ DeductStock(w)
              \/ DeductNothing(w) \/ InsertOrder(w) \/ InsertConflict(w)
       PROVE  TypeOK'
  BY <1>13 DEF CheckDuplicate, CheckFresh, DeductStock, DeductNothing,
               InsertOrder, InsertConflict, Goto, Finish, WorkerStates
<1>14. ASSUME NEW w \in Workers, CommitOrder(w) \/ CommitUnknown(w)
       PROVE  TypeOK'
  <2>1. /\ OrderOf(w) \in Orders /\ VoucherOf(w) \in Vouchers
        /\ dbStock[VoucherOf(w)] > 0
    BY <1>14 DEF CommitOrder, CommitUnknown, WorkerInv, RowInv, Busy, HoldsRow,
                 Job, OrderOf, VoucherOf
  <2>2. dbStock' \in [Vouchers -> Nat] /\ dbOrders' \in SUBSET Orders
    <3>1. Book(w)
      BY <1>14 DEF CommitOrder, CommitUnknown
    <3>. QED
      BY <2>1, <3>1 DEF Book
  <2>3. /\ pc' \in [Workers -> WorkerStates]
        /\ result' \in [Workers -> {"none", "ok", "dup", "err"}]
    BY <1>14 DEF CommitOrder, CommitUnknown, Goto, Finish, WorkerStates
  <2>. QED
    BY <1>14, <2>2, <2>3, SMTT(40) DEF CommitOrder, CommitUnknown, Fault
<1>15. ASSUME NEW w \in Workers, Unlock(w)
       PROVE  TypeOK'
  BY <1>15 DEF Unlock, Goto, WorkerStates
<1>16. ASSUME NEW w \in Workers,
              Consumed(w) \/ Redeliver(w) \/ Skip(w) \/ Fenced(w)
       PROVE  TypeOK'
  <2>1. PartOf(w) \in Partitions /\ OrderOf(w) \in Orders
    BY <1>16 DEF Consumed, Redeliver, Skip, Fenced, WorkerInv, Busy, Job,
                 PartOf, OrderOf
  <2>2. /\ position' \in [Partitions -> Nat]
        /\ attempts' \in [Partitions -> Nat]
        /\ dropped' \in SUBSET Orders
    <3>1. CASE Consumed(w) \/ Skip(w)
      <4>1. Advance(PartOf(w)) /\ (dropped' = dropped \/ dropped' = dropped \cup {OrderOf(w)})
        BY <3>1 DEF Consumed, Skip
      <4>. QED
        BY <4>1, <2>1 DEF Advance
    <3>2. CASE Redeliver(w)
      BY <3>2, <2>1 DEF Redeliver
    <3>3. CASE Fenced(w)
      BY <3>3 DEF Fenced
    <3>. QED
      BY <1>16, <3>1, <3>2, <3>3
  <2>3. /\ pc' \in [Workers -> WorkerStates]
        /\ job' \in [Workers -> Job \cup {NoJob}]
        /\ result' \in [Workers -> {"none", "ok", "dup", "err"}]
    BY <1>16 DEF Consumed, Redeliver, Skip, Fenced, Rest, Goto, WorkerStates
  <2>. QED
    BY <1>16, <2>2, <2>3, SMTT(40) DEF Consumed, Redeliver, Skip, Fenced
<1>17. ASSUME NEW w \in Workers, TxFails(w)
       PROVE  TypeOK'
  BY <1>17 DEF TxFails, Fault, Finish, Goto, WorkerStates
<1>18. ASSUME NEW w \in Workers, Crash(w)
       PROVE  TypeOK'
  BY <1>18 DEF Crash, Fault, Rest, Goto, WorkerStates
<1>19. ASSUME NEW u \in Users, LeaseExpires(u) \/ LeaseLost(u)
       PROVE  TypeOK'
  <2>1. lock' \in [Users -> Workers \cup {Free, Orphan}]
    BY <1>19 DEF LeaseExpires, LeaseLost
  <2>. QED
    BY <1>19, <2>1 DEF LeaseExpires, LeaseLost, Fault
<1>20. ASSUME UNCHANGED vars
       PROVE  TypeOK'
  BY <1>20 DEF vars
<1>. QED
  BY <1>1, <1>2, <1>3, <1>4, <1>5, <1>6, <1>7, <1>8, <1>9, <1>10, <1>11, <1>12,
     <1>13, <1>14, <1>15, <1>16, <1>17, <1>18, <1>19, <1>20, NextCases

(***************************************************************************)
(* What a step can do to each store, whichever action takes it.            *)
(***************************************************************************)

(* A request never loses its grant, and only the script grants. *)
LEMMA ReqStep ==
    ASSUME IInv, [Next]_vars, NEW o \in Orders
    PROVE  /\ req'[o].user = req[o].user
           /\ req'[o].voucher = req[o].voucher
           /\ req[o].pc \in Granted => req'[o].pc \in Granted
           /\ req[o].pc = "published" => req'[o].pc = "published"
           /\ req'[o].pc \in Granted => req[o].pc \in Granted \/ LuaAdmit(o)
<1>1. CASE req' = req
  BY <1>1
<1>2. ASSUME NEW x \in Orders,
             \/ LuaError(x) \/ LuaSoldOut(x) \/ LuaRepeat(x) \/ LuaAdmit(x)
             \/ SendAsync(x) \/ SendLost(x)
             \/ \E p \in Partitions : BrokerAppend(x, p)
      PROVE  \E x1 \in Orders, s \in ReqStates :
                /\ SetReq(x1, s)
                /\ req[x1].pc \in Granted => s \in Granted
                /\ req[x1].pc # "published"
                /\ s \in Granted => req[x1].pc \in Granted \/ LuaAdmit(x1)
  <2>1. CASE LuaError(x) \/ LuaSoldOut(x) \/ LuaRepeat(x)
    BY <2>1 DEF LuaError, LuaSoldOut, LuaRepeat, ReqStates, Granted
  <2>2. CASE LuaAdmit(x)
    <3>1. SetReq(x, "admitted") /\ req[x].pc = "new"
      BY <2>2 DEF LuaAdmit
    <3>. QED
      BY <2>2, <3>1 DEF ReqStates, Granted
  <2>3. CASE SendAsync(x) \/ SendLost(x) \/ \E p \in Partitions : BrokerAppend(x, p)
    BY <2>3 DEF SendAsync, SendLost, BrokerAppend, ReqStates, Granted
  <2>. QED
    BY <1>2, <2>1, <2>2, <2>3
<1>3. ASSUME NEW x \in Orders, NEW s \in ReqStates,
             SetReq(x, s),
             req[x].pc \in Granted => s \in Granted,
             req[x].pc # "published",
             s \in Granted => req[x].pc \in Granted \/ LuaAdmit(x)
      PROVE  /\ req'[o].user = req[o].user
             /\ req'[o].voucher = req[o].voucher
             /\ req[o].pc \in Granted => req'[o].pc \in Granted
             /\ req[o].pc = "published" => req'[o].pc = "published"
             /\ req'[o].pc \in Granted => req[o].pc \in Granted \/ LuaAdmit(o)
  BY <1>3, SetReqLemma DEF IInv
<1>4. \/ req' = req
      \/ \E x \in Orders : 
            \/ LuaError(x) \/ LuaSoldOut(x) \/ LuaRepeat(x) \/ LuaAdmit(x)
            \/ SendAsync(x) \/ SendLost(x)
            \/ \E p \in Partitions : BrokerAppend(x, p)
  BY NextCases DEF vars, PublishStock, PublishCommit, PublishRollback, SendTwice,
     Deliver, CommitOffset, Rebalance, TryLock, TryLockFails, CheckDuplicate,
     CheckFresh, DeductStock, DeductNothing, InsertOrder, InsertConflict,
     CommitOrder, Unlock, Consumed, Redeliver, Skip, Fenced, TxFails,
     CommitUnknown, Crash, LeaseExpires, LeaseLost
<1>. QED
  BY <1>1, <1>2, <1>3, <1>4

(* Redis and MySQL move only when a voucher is published, an order granted, *)
(* or an order booked.                                                      *)
LEMMA StoreStep ==
    ASSUME IInv, [Next]_vars
    PROVE  \/ UNCHANGED <<pub, redisStock, redisOrders, dbStock, dbOrders>>
           \/ \E v \in Vouchers : PublishStock(v) \/ PublishCommit(v) \/ PublishRollback(v)
           \/ \E o \in Orders : LuaAdmit(o)
           \/ \E w \in Workers : CommitOrder(w) \/ CommitUnknown(w)
BY NextCases DEF vars, LuaError, LuaSoldOut, LuaRepeat, SendAsync, SendLost,
   BrokerAppend, SendTwice, Deliver, CommitOffset, Rebalance, TryLock,
   TryLockFails, CheckDuplicate, CheckFresh, DeductStock, DeductNothing,
   InsertOrder, InsertConflict, Unlock, Consumed, Redeliver, Skip, Fenced,
   TxFails, Crash, LeaseExpires, LeaseLost

(* The logs only grow, and by acknowledged orders. *)
LEMMA TopicStep ==
    ASSUME IInv, [Next]_vars
    PROVE  \/ topic' = topic
           \/ \E p \in Partitions, o \in Orders :
                 /\ topic' = [topic EXCEPT ![p] = Append(@, o)]
                 /\ req'[o].pc = "published"
                 /\ UNCHANGED <<committed, position, owner, pc, job, dbOrders, dropped>>
<1>1. ASSUME NEW o \in Orders, NEW p \in Partitions, BrokerAppend(o, p)
      PROVE  req'[o].pc = "published"
  <2>1. SetReq(o, "published") /\ "published" \in ReqStates
    BY <1>1 DEF BrokerAppend, ReqStates
  <2>. QED
    BY <2>1, SetReqLemma DEF IInv
<1>2. ASSUME NEW o \in Orders, NEW p \in Partitions, SendTwice(o, p)
      PROVE  req'[o].pc = "published"
  BY <1>2 DEF SendTwice, IInv, LogInv
<1>3. \/ topic' = topic
      \/ \E o \in Orders, p \in Partitions : BrokerAppend(o, p) \/ SendTwice(o, p)
  BY NextCases DEF vars, PublishStock, PublishCommit, PublishRollback, LuaError,
     LuaSoldOut, LuaRepeat, LuaAdmit, SendAsync, SendLost, Deliver,
     CommitOffset, Rebalance, TryLock, TryLockFails, CheckDuplicate,
     CheckFresh, DeductStock, DeductNothing, InsertOrder, InsertConflict,
     CommitOrder, Unlock, Consumed, Redeliver, Skip, Fenced, TxFails,
     CommitUnknown, Crash, LeaseExpires, LeaseLost
<1>4. ASSUME NEW o \in Orders, NEW p \in Partitions,
             BrokerAppend(o, p) \/ SendTwice(o, p)
      PROVE  /\ topic' = [topic EXCEPT ![p] = Append(@, o)]
             /\ UNCHANGED <<committed, position, owner, pc, job, dbOrders, dropped>>
  BY <1>4 DEF BrokerAppend, SendTwice
<1>. QED
  BY <1>1, <1>2, <1>3, <1>4

LEMMA TopicGrows ==
    ASSUME IInv, [Next]_vars, NEW p \in Partitions
    PROVE  /\ Len(topic[p]) <= Len(topic'[p])
           /\ \A i \in 1..Len(topic[p]) : topic'[p][i] = topic[p][i]
<1>. topic \in [Partitions -> Seq(Orders)]
  BY DEF IInv, TypeOK
<1>1. CASE topic' = topic
  BY <1>1
<1>2. ASSUME NEW q \in Partitions, NEW o \in Orders,
             topic' = [topic EXCEPT ![q] = Append(@, o)]
      PROVE  /\ Len(topic[p]) <= Len(topic'[p])
             /\ \A i \in 1..Len(topic[p]) : topic'[p][i] = topic[p][i]
  <2>1. CASE p = q
    <3>1. topic'[p] = Append(topic[p], o)
      BY <1>2, <2>1
    <3>. QED
      BY <3>1
  <2>2. CASE p # q
    BY <1>2, <2>2
  <2>. QED
    BY <2>1, <2>2
<1>. QED
  BY <1>1, <1>2, TopicStep

LEMMA LogStep ==
    ASSUME IInv, [Next]_vars
    PROVE  LogInv'
<1>. topic \in [Partitions -> Seq(Orders)] /\ LogInv
  BY DEF IInv, TypeOK
<1>1. CASE topic' = topic
  BY <1>1, ReqStep DEF LogInv
<1>2. ASSUME NEW q \in Partitions, NEW o \in Orders,
             topic' = [topic EXCEPT ![q] = Append(@, o)],
             req'[o].pc = "published"
      PROVE  LogInv'
  <2>. SUFFICES ASSUME NEW p \in Partitions, NEW i \in DOMAIN topic'[p]
                PROVE  req'[topic'[p][i]].pc = "published"
    BY DEF LogInv
  <2>1. CASE p = q
    <3>1. topic'[p] = Append(topic[p], o)
      BY <1>2, <2>1
    <3>2. \/ i \in DOMAIN topic[p] /\ topic'[p][i] = topic[p][i]
          \/ topic'[p][i] = o
      BY <3>1
    <3>3. CASE i \in DOMAIN topic[p] /\ topic'[p][i] = topic[p][i]
      <4>1. topic[p][i] \in Orders /\ req[topic[p][i]].pc = "published"
        BY <3>3 DEF LogInv
      <4>. QED
        BY <3>3, <4>1, ReqStep
    <3>. QED
      BY <1>2, <3>2, <3>3
  <2>2. CASE p # q
    BY <1>2, <2>2, ReqStep DEF LogInv
  <2>. QED
    BY <2>1, <2>2
<1>. QED
  BY <1>1, <1>2, TopicStep

(***************************************************************************)
(* The parts of the invariant about Redis.                                 *)
(***************************************************************************)

LEMMA GrantStep ==
    ASSUME IInv, [Next]_vars
    PROVE  GrantInv'
<1>. USE DEF IInv
<1>1. ASSUME NEW v \in Vouchers
      PROVE  /\ HasStockKey(v) => HasStockKey(v)'
             /\ redisOrders[v] \subseteq redisOrders'[v]
  <2>1. CASE UNCHANGED <<pub, redisStock, redisOrders, dbStock, dbOrders>>
    BY <2>1 DEF HasStockKey
  <2>2. ASSUME NEW x \in Vouchers,
               PublishStock(x) \/ PublishCommit(x) \/ PublishRollback(x)
        PROVE  /\ HasStockKey(v) => HasStockKey(v)'
               /\ redisOrders[v] \subseteq redisOrders'[v]
    BY <2>2 DEF PublishStock, PublishCommit, PublishRollback, HasStockKey, TypeOK
  <2>3. ASSUME NEW o \in Orders, LuaAdmit(o)
        PROVE  /\ HasStockKey(v) => HasStockKey(v)'
               /\ redisOrders[v] \subseteq redisOrders'[v]
    BY <2>3 DEF LuaAdmit, HasStockKey, TypeOK
  <2>4. ASSUME NEW w \in Workers, CommitOrder(w) \/ CommitUnknown(w)
        PROVE  /\ HasStockKey(v) => HasStockKey(v)'
               /\ redisOrders[v] \subseteq redisOrders'[v]
    BY <2>4 DEF CommitOrder, CommitUnknown, HasStockKey
  <2>. QED
    BY <2>1, <2>2, <2>3, <2>4, StoreStep
<1>2. ASSUME NEW o \in Orders, req'[o].pc \in Granted
      PROVE  /\ pub'[req'[o].voucher] # "draft"
             /\ req'[o].user \in redisOrders'[req'[o].voucher]
  <2>1. req[o].voucher \in Vouchers /\ req'[o].user = req[o].user
        /\ req'[o].voucher = req[o].voucher
    BY ReqStep DEF TypeOK
  <2>2. CASE req[o].pc \in Granted
    BY <2>1, <2>2, <1>1 DEF GrantInv, HasStockKey
  <2>3. CASE LuaAdmit(o)
    <3>1. /\ pub[req[o].voucher] # "draft" /\ pub' = pub
          /\ redisOrders' = [redisOrders EXCEPT ![req[o].voucher]
                                = @ \cup {req[o].user}]
      BY <2>3 DEF LuaAdmit, HasStockKey
    <3>2. redisOrders'[req[o].voucher] = redisOrders[req[o].voucher] \cup {req[o].user}
      BY <2>1, <3>1 DEF TypeOK
    <3>. QED
      BY <2>1, <3>1, <3>2
  <2>. QED
    BY <1>2, <2>2, <2>3, ReqStep
<1>3. ASSUME NEW o1 \in Orders, NEW o2 \in Orders, o1 # o2,
             LuaAdmit(o1), req'[o2].pc \in Granted
      PROVE  ~SamePurchase(o1, o2)'
  <2>1. SetReq(o1, "admitted") /\ "admitted" \in ReqStates
    BY <1>3 DEF LuaAdmit, ReqStates
  <2>2. req[o2].pc \in Granted
    BY <1>3, <2>1, SetReqLemma
  <2>3. req[o2].user \in redisOrders[req[o2].voucher]
    BY <2>2 DEF GrantInv
  <2>4. req[o1].user \notin redisOrders[req[o1].voucher]
    BY <1>3 DEF LuaAdmit
  <2>. QED
    BY <2>3, <2>4, ReqStep DEF SamePurchase
<1>4. ASSUME NEW o1 \in Orders, NEW o2 \in Orders,
             req'[o1].pc \in Granted, req'[o2].pc \in Granted,
             SamePurchase(o1, o2)'
      PROVE  o1 = o2
  <2>1. CASE LuaAdmit(o1)
    BY <1>3, <1>4, <2>1
  <2>2. CASE LuaAdmit(o2)
    <3>1. SamePurchase(o2, o1)'
      BY <1>4 DEF SamePurchase
    <3>. QED
      BY <1>3, <1>4, <2>2, <3>1
  <2>3. CASE req[o1].pc \in Granted /\ req[o2].pc \in Granted
    <3>1. SamePurchase(o1, o2)
      BY <1>4, ReqStep DEF SamePurchase
    <3>. QED
      BY <2>3, <3>1 DEF GrantInv, OneGrantPerPurchase
  <2>. QED
    BY <1>4, <2>1, <2>2, <2>3, ReqStep
<1>5. ASSUME NEW o \in dbOrders'
      PROVE  req'[o].pc \in Granted
  <2>1. CASE o \in dbOrders
    BY <2>1, ReqStep DEF GrantInv, OneGrantPerPurchase, TypeOK
  <2>2. CASE o \notin dbOrders
    <3>1. \E w \in Workers : CommitOrder(w) \/ CommitUnknown(w)
      BY <1>5, <2>2, StoreStep DEF PublishStock, PublishCommit, PublishRollback, LuaAdmit
    <3>2. PICK w \in Workers : CommitOrder(w) \/ CommitUnknown(w)
      BY <3>1
    <3>3. o = OrderOf(w) /\ pc[w] = "inserted" /\ req' = req
      BY <1>5, <2>2, <3>2 DEF CommitOrder, CommitUnknown, Book
    <3>. QED
      BY <3>3 DEF WorkerInv, Busy, Granted
  <2>. QED
    BY <2>1, <2>2
<1>. QED
  BY <1>2, <1>4, <1>5 DEF GrantInv, OneGrantPerPurchase, HasStockKey

LEMMA RedisStep ==
    ASSUME IInv, [Next]_vars
    PROVE  RedisInv'
<1>. USE QuotaAssumption DEF IInv
<1>. SUFFICES ASSUME NEW v \in Vouchers
              PROVE  /\ IsFiniteSet(redisOrders'[v])
                     /\ ~HasStockKey(v)' => redisOrders'[v] = {}
                     /\ HasStockKey(v)' =>
                          /\ redisStock'[v] + Cardinality(redisOrders'[v]) = Quota[v]
                          /\ redisStock'[v] + Cardinality(GrantedOrders(v)') = Quota[v]
  BY DEF RedisInv
<1>0. /\ IsFiniteSet(redisOrders[v])
      /\ ~HasStockKey(v) => redisOrders[v] = {}
      /\ HasStockKey(v) =>
            /\ redisStock[v] + Cardinality(redisOrders[v]) = Quota[v]
            /\ redisStock[v] + Cardinality(GrantedOrders(v)) = Quota[v]
  BY DEF RedisInv
<1>1. (\A o \in Orders : ~LuaAdmit(o)) => GrantedOrders(v)' = GrantedOrders(v)
  BY ReqStep DEF GrantedOrders
<1>2. CASE UNCHANGED <<pub, redisStock, redisOrders, dbStock, dbOrders>>
  <2>1. \A o \in Orders : ~LuaAdmit(o)
    BY <1>2 DEF LuaAdmit, TypeOK
  <2>. QED
    BY <1>0, <1>1, <1>2, <2>1 DEF HasStockKey
<1>3. ASSUME NEW x \in Vouchers, PublishStock(x)
      PROVE  /\ IsFiniteSet(redisOrders'[v])
             /\ ~HasStockKey(v)' => redisOrders'[v] = {}
             /\ HasStockKey(v)' =>
                  /\ redisStock'[v] + Cardinality(redisOrders'[v]) = Quota[v]
                  /\ redisStock'[v] + Cardinality(GrantedOrders(v)') = Quota[v]
  <2>1. GrantedOrders(v)' = GrantedOrders(v)
    BY <1>3 DEF PublishStock, GrantedOrders
  <2>2. CASE v = x
    <3>1. pub[v] = "draft" /\ redisStock'[v] = Quota[v] /\ redisOrders' = redisOrders
      BY <1>3, <2>2 DEF PublishStock, TypeOK
    <3>2. redisOrders[v] = {} /\ GrantedOrders(v) = {}
      BY <3>1, <1>0 DEF GrantInv, GrantedOrders, HasStockKey
    <3>. QED
      BY <2>1, <3>1, <3>2, FS_EmptySet, <1>0
  <2>3. CASE v # x
    <3>1. pub'[v] = pub[v] /\ redisStock'[v] = redisStock[v] /\ redisOrders' = redisOrders
      BY <1>3, <2>3 DEF PublishStock, TypeOK
    <3>. QED
      BY <1>0, <2>1, <3>1 DEF HasStockKey
  <2>. QED
    BY <2>2, <2>3
<1>4. ASSUME NEW x \in Vouchers, PublishCommit(x) \/ PublishRollback(x)
      PROVE  /\ IsFiniteSet(redisOrders'[v])
             /\ ~HasStockKey(v)' => redisOrders'[v] = {}
             /\ HasStockKey(v)' =>
                  /\ redisStock'[v] + Cardinality(redisOrders'[v]) = Quota[v]
                  /\ redisStock'[v] + Cardinality(GrantedOrders(v)') = Quota[v]
  <2>1. GrantedOrders(v)' = GrantedOrders(v) /\ redisStock' = redisStock
        /\ redisOrders' = redisOrders
    BY <1>4 DEF PublishCommit, PublishRollback, GrantedOrders
  <2>2. HasStockKey(v)' <=> HasStockKey(v)
    BY <1>4 DEF PublishCommit, PublishRollback, HasStockKey, TypeOK
  <2>. QED
    BY <1>0, <2>1, <2>2
<1>5. ASSUME NEW o \in Orders, LuaAdmit(o)
      PROVE  /\ IsFiniteSet(redisOrders'[v])
             /\ ~HasStockKey(v)' => redisOrders'[v] = {}
             /\ HasStockKey(v)' =>
                  /\ redisStock'[v] + Cardinality(redisOrders'[v]) = Quota[v]
                  /\ redisStock'[v] + Cardinality(GrantedOrders(v)') = Quota[v]
  <2>. DEFINE x == req[o].voucher
              u == req[o].user
  <2>0. x \in Vouchers /\ u \in Users
    BY DEF TypeOK
  <2>1. /\ pub' = pub /\ HasStockKey(x) /\ redisStock[x] > 0 /\ u \notin redisOrders[x]
        /\ redisStock' = [redisStock EXCEPT ![x] = @ - 1]
        /\ redisOrders' = [redisOrders EXCEPT ![x] = @ \cup {u}]
        /\ req[o].pc = "new" /\ SetReq(o, "admitted") /\ "admitted" \in ReqStates
    BY <1>5 DEF LuaAdmit, ReqStates
  <2>2. /\ req'[o].pc = "admitted"
        /\ \A y \in Orders : /\ y # o => req'[y] = req[y]
                             /\ req'[y].voucher = req[y].voucher
    BY <2>1, SetReqLemma
  <2>3. CASE v = x
    <3>1. redisStock'[v] = redisStock[v] - 1 /\ redisOrders'[v] = redisOrders[v] \cup {u}
      BY <2>0, <2>1, <2>3 DEF TypeOK
    <3>2. GrantedOrders(v)' = GrantedOrders(v) \cup {o} /\ o \notin GrantedOrders(v)
      BY <2>1, <2>2, <2>3 DEF GrantedOrders, Granted
    <3>3. IsFiniteSet(GrantedOrders(v))
      BY OrdersAssumption, FS_Subset DEF GrantedOrders
    <3>4. Cardinality(GrantedOrders(v) \cup {o}) = Cardinality(GrantedOrders(v)) + 1
      BY <3>2, <3>3, FS_AddElement
    <3>5. /\ IsFiniteSet(redisOrders[v] \cup {u})
          /\ Cardinality(redisOrders[v] \cup {u}) = Cardinality(redisOrders[v]) + 1
      BY <1>0, <2>1, <2>3, FS_AddElement
    <3>6. /\ Cardinality(GrantedOrders(v)) \in Nat
          /\ Cardinality(redisOrders[v]) \in Nat
          /\ redisStock[v] \in Nat
      BY <1>0, <3>3, FS_CardinalityType DEF TypeOK
    <3>. HIDE DEF x, u
    <3>7. HasStockKey(v)
      BY <2>1, <2>3
    <3>8. HasStockKey(v)'
      BY <2>1, <3>7 DEF HasStockKey
    <3>. QED
      BY <1>0, <3>1, <3>2, <3>4, <3>5, <3>6, <3>7, <3>8
  <2>4. CASE v # x
    <3>1. redisStock'[v] = redisStock[v] /\ redisOrders'[v] = redisOrders[v]
      BY <2>0, <2>1, <2>4 DEF TypeOK
    <3>2. GrantedOrders(v)' = GrantedOrders(v)
      BY <2>2, <2>4 DEF GrantedOrders
    <3>. QED
      BY <1>0, <2>1, <3>1, <3>2 DEF HasStockKey
  <2>. QED
    BY <2>3, <2>4
<1>6. ASSUME NEW w \in Workers, CommitOrder(w) \/ CommitUnknown(w)
      PROVE  UNCHANGED <<pub, redisStock, redisOrders, req>>
  BY <1>6 DEF CommitOrder, CommitUnknown
<1>7. ASSUME UNCHANGED <<pub, redisStock, redisOrders, req>>
      PROVE  /\ IsFiniteSet(redisOrders'[v])
             /\ ~HasStockKey(v)' => redisOrders'[v] = {}
             /\ HasStockKey(v)' =>
                  /\ redisStock'[v] + Cardinality(redisOrders'[v]) = Quota[v]
                  /\ redisStock'[v] + Cardinality(GrantedOrders(v)') = Quota[v]
  BY <1>0, <1>7 DEF HasStockKey, GrantedOrders
<1>. QED
  BY <1>2, <1>3, <1>4, <1>5, <1>6, <1>7, StoreStep

(***************************************************************************)
(* The parts of the invariant about MySQL.                                 *)
(***************************************************************************)

(* A thread past its UPDATE stands for an order that is not booked yet.     *)
LEMMA BookingThread ==
    ASSUME IInv, NEW w \in Workers, CommitOrder(w) \/ CommitUnknown(w)
    PROVE  /\ OrderOf(w) \in Orders /\ VoucherOf(w) \in Vouchers
           /\ req[OrderOf(w)].pc = "published"
           /\ pub[VoucherOf(w)] = "committed" /\ dbStock[VoucherOf(w)] > 0
           /\ ~AlreadyBooked(OrderOf(w))
           /\ dbStock' = [dbStock EXCEPT ![VoucherOf(w)] = @ - 1]
           /\ dbOrders' = dbOrders \cup {OrderOf(w)}
           /\ pc[w] = "inserted" /\ pc' = [pc EXCEPT ![w] = "finally"]
           /\ UNCHANGED <<pub, redisStock, redisOrders, req, job>>
<1>1. /\ pc[w] = "inserted" /\ pc' = [pc EXCEPT ![w] = "finally"] /\ Book(w)
      /\ UNCHANGED <<pub, redisStock, redisOrders, req, job>>
  BY DEF CommitOrder, CommitUnknown, Finish, Goto
<1>2. OrderOf(w) \in Orders /\ VoucherOf(w) \in Vouchers
      /\ req[OrderOf(w)].pc = "published"
  BY <1>1 DEF IInv, TypeOK, WorkerInv, Busy, Job, OrderOf, VoucherOf
<1>. QED
  BY <1>1, <1>2 DEF IInv, RowInv, HoldsRow, Book

LEMMA BookStep ==
    ASSUME IInv, [Next]_vars
    PROVE  BookInv'
<1>. USE QuotaAssumption DEF IInv
<1>1. /\ BookInv /\ dbOrders \subseteq Orders /\ dbStock \in [Vouchers -> Nat]
      /\ pub \in [Vouchers -> PubStates]
  BY DEF TypeOK
<1>2. ASSUME NEW v \in Vouchers
      PROVE  pub[v] = "committed" => pub'[v] = "committed"
  BY <1>1, StoreStep DEF PublishStock, PublishCommit, PublishRollback, LuaAdmit,
                         CommitOrder, CommitUnknown
<1>3. ASSUME NEW o \in dbOrders'
      PROVE  req'[o].pc = "published" /\ pub'[req'[o].voucher] = "committed"
  <2>1. CASE o \in dbOrders
    BY <1>1, <1>2, <2>1, ReqStep DEF BookInv, TypeOK
  <2>2. CASE o \notin dbOrders
    <3>1. \E w \in Workers : CommitOrder(w) \/ CommitUnknown(w)
      BY <1>3, <2>2, StoreStep DEF PublishStock, PublishCommit, PublishRollback, LuaAdmit
    <3>2. PICK w \in Workers : CommitOrder(w) \/ CommitUnknown(w)
      BY <3>1
    <3>3. o = OrderOf(w)
      BY <1>3, <2>2, <3>2, BookingThread
    <3>. QED
      BY <3>2, <3>3, BookingThread DEF VoucherOf
  <2>. QED
    BY <2>1, <2>2
<1>4. ASSUME NEW v \in Vouchers, pub'[v] = "committed"
      PROVE  dbStock'[v] + Cardinality(BookedOrders(v)') = Quota[v]
  <2>1. CASE UNCHANGED <<pub, redisStock, redisOrders, dbStock, dbOrders>>
    <3>1. BookedOrders(v)' = BookedOrders(v)
      BY <1>1, <2>1, ReqStep DEF BookedOrders
    <3>. QED
      BY <1>1, <1>4, <2>1, <3>1 DEF BookInv, StockMatchesOrders
  <2>2. ASSUME NEW x \in Vouchers,
               PublishStock(x) \/ PublishCommit(x) \/ PublishRollback(x)
        PROVE  dbStock'[v] + Cardinality(BookedOrders(v)') = Quota[v]
    <3>1. BookedOrders(v)' = BookedOrders(v)
      BY <2>2 DEF PublishStock, PublishCommit, PublishRollback, BookedOrders
    <3>2. CASE pub[v] = "committed"
      <4>1. dbStock'[v] = dbStock[v]
        BY <1>1, <2>2, <3>2 DEF PublishStock, PublishCommit, PublishRollback
      <4>. QED
        BY <1>1, <3>1, <3>2, <4>1 DEF BookInv, StockMatchesOrders
    <3>3. CASE pub[v] # "committed"
      <4>1. dbStock'[v] = Quota[v]
        BY <1>1, <1>4, <2>2, <3>3 DEF PublishStock, PublishCommit, PublishRollback
      <4>2. BookedOrders(v) = {}
        BY <1>1, <3>3 DEF BookInv, BookedOrders
      <4>. QED
        BY <3>1, <4>1, <4>2, FS_EmptySet
    <3>. QED
      BY <3>2, <3>3
  <2>3. ASSUME NEW o \in Orders, LuaAdmit(o)
        PROVE  dbStock'[v] + Cardinality(BookedOrders(v)') = Quota[v]
    <3>1. UNCHANGED <<pub, dbStock, dbOrders>>
      BY <2>3 DEF LuaAdmit
    <3>2. BookedOrders(v)' = BookedOrders(v)
      BY <1>1, <3>1, ReqStep DEF BookedOrders
    <3>. QED
      BY <1>1, <1>4, <3>1, <3>2 DEF BookInv, StockMatchesOrders
  <2>4. ASSUME NEW w \in Workers, CommitOrder(w) \/ CommitUnknown(w)
        PROVE  dbStock'[v] + Cardinality(BookedOrders(v)') = Quota[v]
    <3>. DEFINE o == OrderOf(w)
    <3>1. /\ o \in Orders /\ o \notin dbOrders
          /\ UNCHANGED <<pub, req>>
          /\ dbOrders' = dbOrders \cup {o}
          /\ VoucherOf(w) \in Vouchers
          /\ dbStock' = [dbStock EXCEPT ![VoucherOf(w)] = @ - 1]
      BY <2>4, BookingThread DEF AlreadyBooked, SamePurchase
    <3>2. CASE v = VoucherOf(w)
      <4>1. BookedOrders(v)' = BookedOrders(v) \cup {o} /\ o \notin BookedOrders(v)
        BY <3>1, <3>2 DEF BookedOrders, VoucherOf
      <4>2. IsFiniteSet(BookedOrders(v))
        BY <1>1, OrdersAssumption, FS_Subset DEF BookedOrders
      <4>3. /\ Cardinality(BookedOrders(v) \cup {o}) = Cardinality(BookedOrders(v)) + 1
            /\ Cardinality(BookedOrders(v)) \in Nat
        BY <4>1, <4>2, FS_AddElement, FS_CardinalityType
      <4>4. dbStock'[v] = dbStock[v] - 1
        BY <1>1, <3>1, <3>2
      <4>5. dbStock[v] + Cardinality(BookedOrders(v)) = Quota[v]
        BY <1>1, <1>4, <3>1 DEF BookInv, StockMatchesOrders
      <4>. QED
        BY <1>1, <4>1, <4>3, <4>4, <4>5
    <3>3. CASE v # VoucherOf(w)
      <4>1. BookedOrders(v)' = BookedOrders(v)
        BY <3>1, <3>3 DEF BookedOrders, VoucherOf
      <4>2. dbStock'[v] = dbStock[v]
        BY <1>1, <3>1, <3>3
      <4>. QED
        BY <1>1, <1>4, <3>1, <4>1, <4>2 DEF BookInv, StockMatchesOrders
    <3>. QED
      BY <3>2, <3>3
  <2>. QED
    BY <2>1, <2>2, <2>3, <2>4, StoreStep
<1>5. ASSUME NEW v \in Vouchers, pub'[v] # "committed"
      PROVE  dbStock'[v] = 0
  <2>1. pub[v] # "committed" /\ dbStock[v] = 0
    BY <1>1, <1>2, <1>5 DEF BookInv
  <2>2. CASE UNCHANGED <<pub, redisStock, redisOrders, dbStock, dbOrders>>
    BY <2>1, <2>2
  <2>3. ASSUME NEW x \in Vouchers,
               PublishStock(x) \/ PublishCommit(x) \/ PublishRollback(x)
        PROVE  dbStock'[v] = 0
    BY <1>1, <1>5, <2>1, <2>3 DEF PublishStock, PublishCommit, PublishRollback
  <2>4. ASSUME NEW o \in Orders, LuaAdmit(o)
        PROVE  dbStock'[v] = 0
    BY <2>1, <2>4 DEF LuaAdmit
  <2>5. ASSUME NEW w \in Workers, CommitOrder(w) \/ CommitUnknown(w)
        PROVE  dbStock'[v] = 0
    BY <1>1, <2>1, <2>5, BookingThread
  <2>. QED
    BY <2>2, <2>3, <2>4, <2>5, StoreStep
<1>. QED
  BY <1>3, <1>4, <1>5 DEF BookInv, StockMatchesOrders

(***************************************************************************)
(* The parts of the invariant about listener threads.                      *)
(***************************************************************************)

(* The steps of thread x inside onMessage. *)
HandlerStep(x) ==
    \/ TryLock(x) \/ TryLockFails(x) \/ CheckDuplicate(x) \/ CheckFresh(x)
    \/ DeductStock(x) \/ DeductNothing(x) \/ InsertOrder(x) \/ InsertConflict(x)
    \/ CommitOrder(x) \/ CommitUnknown(x) \/ TxFails(x) \/ Unlock(x)

(* A thread is left alone, comes to rest, takes a record, or moves on with  *)
(* the record it has.                                                       *)
LEMMA ThreadStep ==
    ASSUME IInv, [Next]_vars, NEW x \in Workers
    PROVE  \/ pc'[x] = pc[x] /\ job'[x] = job[x] /\ result'[x] = result[x]
           \/ pc'[x] = "idle" /\ job'[x] = NoJob /\ result'[x] = "none"
           \/ \E p \in Partitions : Deliver(x, p)
           \/ HandlerStep(x)
<1>. USE DEF IInv, TypeOK
<1>1. CASE UNCHANGED <<pc, job, result>>
  BY <1>1
<1>2. ASSUME NEW w \in Workers, NEW p \in Partitions, Deliver(w, p)
      PROVE  \/ pc'[x] = pc[x] /\ job'[x] = job[x] /\ result'[x] = result[x]
             \/ Deliver(x, p)
  BY <1>2 DEF Deliver, Goto
<1>3. ASSUME NEW w \in Workers, HandlerStep(w)
      PROVE  \/ pc'[x] = pc[x] /\ job'[x] = job[x] /\ result'[x] = result[x]
             \/ HandlerStep(x)
  <2>1. CASE w = x
    BY <1>3, <2>1
  <2>2. CASE w # x
    BY <1>3, <2>2 DEF HandlerStep, TryLock, TryLockFails, CheckDuplicate, CheckFresh,
       DeductStock, DeductNothing, InsertOrder, InsertConflict, CommitOrder,
       CommitUnknown, TxFails, Unlock, Finish, Goto
  <2>. QED
    BY <2>1, <2>2
<1>4. ASSUME NEW w \in Workers,
             Consumed(w) \/ Redeliver(w) \/ Skip(w) \/ Fenced(w) \/ Crash(w)
      PROVE  \/ pc'[x] = pc[x] /\ job'[x] = job[x] /\ result'[x] = result[x]
             \/ pc'[x] = "idle" /\ job'[x] = NoJob /\ result'[x] = "none"
  <2>1. Rest(w)
    BY <1>4 DEF Consumed, Redeliver, Skip, Fenced, Crash
  <2>. QED
    BY <2>1 DEF Rest, Goto
<1>5. \/ UNCHANGED <<pc, job, result>>
      \/ \E w \in Workers, p \in Partitions : Deliver(w, p)
      \/ \E w \in Workers : HandlerStep(w)
      \/ \E w \in Workers :
            Consumed(w) \/ Redeliver(w) \/ Skip(w) \/ Fenced(w) \/ Crash(w)
  BY NextCases DEF vars, HandlerStep, PublishStock, PublishCommit, PublishRollback,
     LuaError, LuaSoldOut, LuaRepeat, LuaAdmit, SendAsync, SendLost,
     BrokerAppend, SendTwice, CommitOffset, Rebalance, LeaseExpires, LeaseLost
<1>. QED
  BY <1>1, <1>2, <1>3, <1>4, <1>5

(* Inside onMessage the record stays the same and the thread stays busy.    *)
LEMMA HandlerKeepsJob ==
    ASSUME IInv, NEW x \in Workers, HandlerStep(x)
    PROVE  /\ Busy(x) /\ pc'[x] # "idle" /\ pc' = [pc EXCEPT ![x] = pc'[x]]
           /\ UNCHANGED <<job, topic, position, committed, owner, dropped, req, pub>>
  BY DEF IInv, TypeOK, Busy, HandlerStep, TryLock, TryLockFails, CheckDuplicate,
     CheckFresh, DeductStock, DeductNothing, InsertOrder, InsertConflict,
     CommitOrder, CommitUnknown, TxFails, Unlock, Finish, Goto

LEMMA WorkerStep ==
    ASSUME IInv, [Next]_vars
    PROVE  WorkerInv'
<1>. SUFFICES ASSUME NEW x \in Workers
              PROVE  /\ pc'[x] # "idle" =>
                          job'[x] \in Job /\ req'[job'[x].order].pc = "published"
                     /\ pc'[x] = "idle" => result'[x] = "none"
  BY DEF WorkerInv, Busy, OrderOf
<1>1. /\ pc[x] # "idle" => /\ job[x] \in Job /\ job[x].order \in Orders
                           /\ req[job[x].order].pc = "published"
      /\ pc[x] = "idle" => result[x] = "none"
  BY DEF IInv, WorkerInv, Busy, OrderOf, Job
<1>2. CASE pc'[x] = pc[x] /\ job'[x] = job[x] /\ result'[x] = result[x]
  BY <1>1, <1>2, ReqStep
<1>3. CASE pc'[x] = "idle" /\ job'[x] = NoJob /\ result'[x] = "none"
  BY <1>3
<1>4. ASSUME NEW p \in Partitions, Deliver(x, p)
      PROVE  /\ pc'[x] # "idle"
             /\ job'[x] \in Job /\ req'[job'[x].order].pc = "published"
  <2>1. position[p] + 1 \in DOMAIN topic[p] /\ topic[p][position[p] + 1] \in Orders
    BY <1>4 DEF Deliver, IInv, TypeOK
  <2>2. /\ pc'[x] = "received"
        /\ job'[x] = [part |-> p, order |-> topic[p][position[p] + 1]]
        /\ req' = req
    BY <1>4 DEF Deliver, Goto, IInv, TypeOK
  <2>. QED
    BY <2>1, <2>2 DEF Job, IInv, LogInv
<1>5. CASE HandlerStep(x)
  BY <1>1, <1>5, HandlerKeepsJob DEF Busy
<1>. QED
  BY <1>2, <1>3, <1>4, <1>5, ThreadStep

(* The stock row of a thread past its UPDATE is nobody else's to change.    *)
LEMMA RowFrame ==
    ASSUME IInv, [Next]_vars, NEW x \in Workers,
           pc[x] \in HoldsRow, pc'[x] \in HoldsRow
    PROVE  /\ pub'[VoucherOf(x)] = "committed"
           /\ dbStock'[VoucherOf(x)] = dbStock[VoucherOf(x)]
           /\ \A b \in dbOrders' \ dbOrders : req[b].voucher # VoucherOf(x)
<1>. USE DEF IInv
<1>1. /\ VoucherOf(x) \in Vouchers /\ pub[VoucherOf(x)] = "committed"
      /\ pub \in [Vouchers -> PubStates] /\ dbStock \in [Vouchers -> Nat]
  <2>1. OrderOf(x) \in Orders
    BY DEF WorkerInv, Busy, HoldsRow, Job, OrderOf
  <2>. QED
    BY <2>1 DEF TypeOK, RowInv, VoucherOf
<1>2. CASE UNCHANGED <<pub, redisStock, redisOrders, dbStock, dbOrders>>
  BY <1>1, <1>2
<1>3. ASSUME NEW v \in Vouchers,
             PublishStock(v) \/ PublishCommit(v) \/ PublishRollback(v)
      PROVE  /\ pub'[VoucherOf(x)] = "committed" /\ dbOrders' = dbOrders
             /\ dbStock'[VoucherOf(x)] = dbStock[VoucherOf(x)]
  BY <1>1, <1>3 DEF PublishStock, PublishCommit, PublishRollback
<1>4. ASSUME NEW o \in Orders, LuaAdmit(o)
      PROVE  UNCHANGED <<pub, dbStock, dbOrders>>
  BY <1>4 DEF LuaAdmit
<1>5. ASSUME NEW w \in Workers, CommitOrder(w) \/ CommitUnknown(w)
      PROVE  /\ pub'[VoucherOf(x)] = "committed"
             /\ dbStock'[VoucherOf(x)] = dbStock[VoucherOf(x)]
             /\ \A b \in dbOrders' \ dbOrders : req[b].voucher # VoucherOf(x)
  <2>1. /\ pc[w] = "inserted" /\ pc' = [pc EXCEPT ![w] = "finally"] /\ pub' = pub
        /\ VoucherOf(w) \in Vouchers
        /\ dbStock' = [dbStock EXCEPT ![VoucherOf(w)] = @ - 1]
        /\ dbOrders' = dbOrders \cup {OrderOf(w)}
    BY <1>5, BookingThread
  <2>2. w # x
    BY <2>1 DEF TypeOK, HoldsRow
  <2>3. VoucherOf(w) # VoucherOf(x)
    BY <2>1, <2>2 DEF RowInv, HoldsRow
  <2>. QED
    BY <1>1, <2>1, <2>3 DEF VoucherOf
<1>. QED
  BY <1>1, <1>2, <1>3, <1>4, <1>5, StoreStep

LEMMA RowStep ==
    ASSUME IInv, [Next]_vars
    PROVE  RowInv'
<1>. USE DEF IInv
(* A thread that has just taken the row, or already had it. *)
<1>1. ASSUME NEW x \in Workers, pc'[x] \in HoldsRow
      PROVE  /\ job'[x] = job[x] /\ job[x] \in Job
             /\ \/ pc[x] \in HoldsRow
                \/ DeductStock(x)
             /\ pc'[x] = "inserted" => \/ pc[x] = "inserted"
                                       \/ ~AlreadyBooked(OrderOf(x))
  <2>1. CASE pc'[x] = pc[x] /\ job'[x] = job[x] /\ result'[x] = result[x]
    BY <1>1, <2>1 DEF WorkerInv, Busy, HoldsRow
  <2>2. CASE pc'[x] = "idle" /\ job'[x] = NoJob /\ result'[x] = "none"
    BY <1>1, <2>2 DEF HoldsRow
  <2>3. ASSUME NEW p \in Partitions, Deliver(x, p)
        PROVE  FALSE
    BY <1>1, <2>3 DEF Deliver, Goto, HoldsRow, TypeOK
  <2>4. CASE HandlerStep(x)
    <3>1. DeductStock(x) \/ InsertOrder(x)
      BY <1>1, <2>4 DEF HandlerStep, TryLock, TryLockFails, CheckDuplicate,
         CheckFresh, DeductNothing, InsertConflict, CommitOrder, CommitUnknown,
         TxFails, Unlock, Finish, Goto, HoldsRow, TypeOK
    <3>2. job[x] \in Job /\ job' = job
      BY <2>4, HandlerKeepsJob DEF WorkerInv
    <3>. QED
      BY <3>1, <3>2 DEF DeductStock, InsertOrder, HoldsRow, Goto, TypeOK
  <2>. QED
    BY <2>1, <2>2, <2>3, <2>4, ThreadStep
<1>2. ASSUME NEW x \in Workers, pc'[x] \in HoldsRow
      PROVE  /\ OrderOf(x)' = OrderOf(x) /\ OrderOf(x) \in Orders
             /\ VoucherOf(x)' = VoucherOf(x) /\ VoucherOf(x) \in Vouchers
  <2>1. OrderOf(x)' = OrderOf(x) /\ OrderOf(x) \in Orders
    BY <1>1, <1>2 DEF OrderOf, Job
  <2>. QED
    BY <2>1, ReqStep DEF VoucherOf, TypeOK
<1>3. ASSUME NEW x \in Workers, DeductStock(x)
      PROVE  /\ pub[VoucherOf(x)] = "committed" /\ dbStock[VoucherOf(x)] > 0
             /\ ~RowLocked(VoucherOf(x))
             /\ UNCHANGED <<pub, dbStock>> /\ pc' = [pc EXCEPT ![x] = "deducted"]
  <2>1. VoucherOf(x) \in Vouchers
    BY <1>3 DEF DeductStock, WorkerInv, Busy, Job, OrderOf, VoucherOf, TypeOK
  <2>. QED
    BY <1>3, <2>1 DEF DeductStock, Goto, BookInv
<1>4. ASSUME NEW x \in Workers, pc'[x] \in HoldsRow
      PROVE  pub'[VoucherOf(x)'] = "committed" /\ dbStock'[VoucherOf(x)'] > 0
  <2>1. CASE pc[x] \in HoldsRow
    BY <1>2, <1>4, <2>1, RowFrame DEF RowInv
  <2>2. CASE DeductStock(x)
    BY <1>2, <1>3, <1>4, <2>2
  <2>. QED
    BY <1>1, <1>4, <2>1, <2>2
<1>5. ASSUME NEW x \in Workers, pc'[x] = "inserted"
      PROVE  ~AlreadyBooked(OrderOf(x))'
  <2>1. pc'[x] \in HoldsRow /\ pc[x] \in HoldsRow /\ ~AlreadyBooked(OrderOf(x))
    BY <1>1, <1>3, <1>5 DEF RowInv, HoldsRow, TypeOK
  <2>2. ASSUME NEW b \in dbOrders', SamePurchase(b, OrderOf(x))'
        PROVE  FALSE
    <3>1. b \in Orders
      BY <2>2, TypeStep DEF TypeOK
    <3>2. SamePurchase(b, OrderOf(x))
      BY <1>2, <2>1, <2>2, <3>1, ReqStep DEF SamePurchase
    <3>3. b \notin dbOrders
      BY <2>1, <3>2 DEF AlreadyBooked
    <3>. QED
      BY <2>1, <2>2, <3>2, <3>3, RowFrame DEF SamePurchase, VoucherOf
  <2>. QED
    BY <2>2 DEF AlreadyBooked
<1>6. ASSUME NEW x \in Workers, NEW y \in Workers, pc'[x] \in HoldsRow,
             pc'[y] \in HoldsRow, VoucherOf(x)' = VoucherOf(y)', x # y
      PROVE  FALSE
  <2>1. VoucherOf(x) = VoucherOf(y)
    BY <1>2, <1>6
  <2>2. CASE pc[x] \in HoldsRow /\ pc[y] \in HoldsRow
    BY <1>6, <2>1, <2>2 DEF RowInv
  <2>3. CASE DeductStock(x)
    BY <1>1, <1>3, <1>6, <2>1, <2>3 DEF RowLocked, DeductStock, Goto, TypeOK
  <2>4. CASE DeductStock(y)
    BY <1>1, <1>3, <1>6, <2>1, <2>4 DEF RowLocked, DeductStock, Goto, TypeOK
  <2>. QED
    BY <1>1, <1>6, <2>2, <2>3, <2>4
<1>. QED
  BY <1>4, <1>5, <1>6 DEF RowInv

LEMMA LockStep ==
    ASSUME IInv, [Next]_vars
    PROVE  LockInv'
<1>. USE DEF IInv
<1>. SUFFICES ASSUME ~LeaseLoss, NEW x \in Workers, pc'[x] \in Critical
              PROVE  lock'[UserOf(x)'] = x
  BY LeaseAssumption DEF LockInv
<1>1. CASE pc'[x] = pc[x] /\ job'[x] = job[x] /\ result'[x] = result[x]
  <2>1. OrderOf(x) \in Orders /\ lock[UserOf(x)] = x
    BY <1>1 DEF LockInv, WorkerInv, Busy, Critical, Job, OrderOf
  <2>2. UserOf(x)' = UserOf(x) /\ UserOf(x) \in Users
    BY <1>1, <2>1, ReqStep DEF UserOf, OrderOf, TypeOK
  <2>3. ASSUME NEW w \in Workers, TryLock(w)
        PROVE  lock'[UserOf(x)] = x
    BY <2>1, <2>2, <2>3, NullAssumption DEF TryLock, TypeOK
  <2>4. ASSUME NEW w \in Workers, Unlock(w)
        PROVE  lock'[UserOf(x)] = x
    BY <1>1, <2>1, <2>2, <2>4 DEF Unlock, Goto, Critical, TypeOK
  <2>5. ASSUME NEW w \in Workers, Crash(w)
        PROVE  lock'[UserOf(x)] = x
    BY <1>1, <2>1, <2>2, <2>5 DEF Crash, Rest, Goto, Critical, TypeOK
  <2>6. ASSUME NEW u \in Users, LeaseExpires(u) \/ LeaseLost(u)
        PROVE  lock'[UserOf(x)] = x
    BY <2>1, <2>2, <2>6, NullAssumption DEF LeaseExpires, LeaseLost, TypeOK
  <2>7. \/ lock' = lock
        \/ \E w \in Workers : TryLock(w) \/ Unlock(w) \/ Crash(w)
        \/ \E u \in Users : LeaseExpires(u) \/ LeaseLost(u)
    BY NextCases DEF vars, PublishStock, PublishCommit, PublishRollback, LuaError,
       LuaSoldOut, LuaRepeat, LuaAdmit, SendAsync, SendLost, BrokerAppend,
       SendTwice, Deliver, CommitOffset, Rebalance, TryLockFails,
       CheckDuplicate, CheckFresh, DeductStock, DeductNothing, InsertOrder,
       InsertConflict, CommitOrder, CommitUnknown, Consumed, Redeliver, Skip,
       Fenced, TxFails
  <2>. QED
    BY <2>1, <2>2, <2>3, <2>4, <2>5, <2>6, <2>7
<1>2. CASE pc'[x] = "idle" /\ job'[x] = NoJob /\ result'[x] = "none"
  BY <1>2 DEF Critical
<1>3. ASSUME NEW p \in Partitions, Deliver(x, p)
      PROVE  FALSE
  BY <1>3 DEF Deliver, Goto, Critical, TypeOK
<1>4. CASE HandlerStep(x)
  <2>1. OrderOf(x) \in Orders /\ UserOf(x) \in Users
    BY <1>4, HandlerKeepsJob DEF WorkerInv, Busy, Job, OrderOf, UserOf, TypeOK
  <2>2. UserOf(x)' = UserOf(x)
    BY <1>4, HandlerKeepsJob DEF UserOf, OrderOf
  <2>3. CASE TryLock(x)
    BY <2>1, <2>2, <2>3 DEF TryLock, TypeOK
  <2>4. CASE ~TryLock(x)
    <3>1. lock' = lock /\ pc[x] \in Critical
      BY <1>4, <2>4 DEF HandlerStep, TryLockFails, CheckDuplicate, CheckFresh,
         DeductStock, DeductNothing, InsertOrder, InsertConflict, CommitOrder,
         CommitUnknown, TxFails, Unlock, Goto, Critical, TypeOK
    <3>. QED
      BY <2>2, <3>1 DEF LockInv
  <2>. QED
    BY <2>3, <2>4
<1>. QED
  BY <1>1, <1>2, <1>3, <1>4, ThreadStep

(***************************************************************************)
(* The parts of the invariant about Kafka offsets.                         *)
(***************************************************************************)

LEMMA ResultStep ==
    ASSUME IInv, [Next]_vars
    PROVE  ResultInv'
<1>. USE DEF IInv
<1>. SUFFICES ASSUME NEW x \in Workers, result'[x] \in {"ok", "dup"}
              PROVE  OrderOf(x)' \in dbOrders'
  BY DEF ResultInv
<1>1. dbOrders \subseteq dbOrders'
  BY StoreStep, BookingThread DEF PublishStock, PublishCommit, PublishRollback, LuaAdmit
<1>2. CASE pc'[x] = pc[x] /\ job'[x] = job[x] /\ result'[x] = result[x]
  BY <1>1, <1>2 DEF ResultInv, OrderOf
<1>3. CASE pc'[x] = "idle" /\ job'[x] = NoJob /\ result'[x] = "none"
  BY <1>3
<1>4. ASSUME NEW p \in Partitions, Deliver(x, p)
      PROVE  FALSE
  BY <1>4 DEF Deliver, WorkerInv
<1>5. CASE HandlerStep(x)
  <2>1. OrderOf(x)' = OrderOf(x) /\ OrderOf(x) \in Orders /\ req[OrderOf(x)].pc = "published"
    BY <1>5, HandlerKeepsJob DEF OrderOf, WorkerInv, Job
  <2>2. CASE AlreadyBooked(OrderOf(x))
    <3>1. PICK b \in dbOrders : SamePurchase(b, OrderOf(x))
      BY <2>2 DEF AlreadyBooked
    <3>2. b \in Orders /\ req[b].pc \in Granted /\ req[OrderOf(x)].pc \in Granted
      BY <2>1 DEF GrantInv, OneGrantPerPurchase, TypeOK, Granted
    <3>3. b = OrderOf(x)
      BY <2>1, <3>1, <3>2 DEF GrantInv, OneGrantPerPurchase
    <3>. QED
      BY <1>1, <2>1, <3>3
  <2>3. CASE CommitOrder(x) \/ CommitUnknown(x)
    BY <2>1, <2>3, BookingThread
  <2>4. CASE ~AlreadyBooked(OrderOf(x)) /\ ~CommitOrder(x) /\ ~CommitUnknown(x)
    <3>1. result'[x] = result[x]
      BY <1>5, <2>4 DEF HandlerStep, TryLock, TryLockFails, CheckDuplicate, CheckFresh,
         DeductStock, DeductNothing, InsertOrder, InsertConflict, TxFails,
         Unlock, Finish, TypeOK
    <3>. QED
      BY <1>1, <2>1, <3>1 DEF ResultInv
  <2>. QED
    BY <2>2, <2>3, <2>4
<1>. QED
  BY <1>2, <1>3, <1>4, <1>5, ThreadStep

(* How position and committed offset of a partition can move. *)
LEMMA OffsetMoves ==
    ASSUME IInv, [Next]_vars, NEW p \in Partitions
    PROVE  \/ position'[p] = position[p] /\ committed'[p] = committed[p]
           \/ /\ position'[p] = committed[p] /\ committed'[p] = committed[p]
              /\ \E w \in Workers : \/ Crash(w) /\ owner[p] = w
                                    \/ Rebalance(p, w)
           \/ position'[p] = position[p] /\ committed'[p] = position[p]
           \/ /\ position'[p] = position[p] + 1 /\ committed'[p] = committed[p]
              /\ \E w \in Workers : (Consumed(w) \/ Skip(w)) /\ PartOf(w) = p
<1>. USE DEF IInv, TypeOK
<1>1. \/ UNCHANGED <<position, committed>>
      \/ \E w \in Workers, q \in Partitions : CommitOffset(w, q) \/ Rebalance(q, w)
      \/ \E w \in Workers : Consumed(w) \/ Skip(w) \/ Crash(w)
  BY NextCases DEF vars, PublishStock, PublishCommit, PublishRollback, LuaError,
     LuaSoldOut, LuaRepeat, LuaAdmit, SendAsync, SendLost, BrokerAppend,
     SendTwice, Deliver, TryLock, TryLockFails, CheckDuplicate, CheckFresh,
     DeductStock, DeductNothing, InsertOrder, InsertConflict, CommitOrder,
     CommitUnknown, Unlock, Redeliver, Fenced, TxFails, LeaseExpires, LeaseLost
<1>2. ASSUME NEW w \in Workers, NEW q \in Partitions, CommitOffset(w, q)
      PROVE  position'[p] = position[p] /\ committed'[p] \in {committed[p], position[p]}
  BY <1>2 DEF CommitOffset
<1>3. ASSUME NEW w \in Workers, NEW q \in Partitions, Rebalance(q, w)
      PROVE  /\ committed'[p] = committed[p]
             /\ position'[p] = position[p] \/ (position'[p] = committed[p] /\ Rebalance(p, w))
  BY <1>3 DEF Rebalance
<1>4. ASSUME NEW w \in Workers, Crash(w)
      PROVE  /\ committed'[p] = committed[p]
             /\ position'[p] = position[p] \/ (position'[p] = committed[p] /\ owner[p] = w)
  BY <1>4 DEF Crash
<1>5. ASSUME NEW w \in Workers, Consumed(w) \/ Skip(w)
      PROVE  /\ committed'[p] = committed[p]
             /\ position'[p] = position[p] \/ (position'[p] = position[p] + 1 /\ PartOf(w) = p)
  <2>1. committed' = committed /\ position' = [position EXCEPT ![PartOf(w)] = @ + 1]
    BY <1>5 DEF Consumed, Skip, Advance
  <2>. QED
    BY <2>1
<1>. QED
  BY <1>1, <1>2, <1>3, <1>4, <1>5

LEMMA OffsetStep ==
    ASSUME IInv, [Next]_vars
    PROVE  OffsetInv'
<1>. USE DEF IInv
<1>. SUFFICES ASSUME NEW p \in Partitions
              PROVE  /\ committed'[p] <= position'[p]
                     /\ position'[p] <= Len(topic'[p])
                     /\ \A i \in 1..position'[p] :
                           topic'[p][i] \in dbOrders' \cup dropped'
  BY DEF OffsetInv
<1>1. /\ committed[p] <= position[p] /\ position[p] <= Len(topic[p])
      /\ \A i \in 1..position[p] : topic[p][i] \in dbOrders \cup dropped
      /\ committed[p] \in Nat /\ position[p] \in Nat
      /\ Len(topic[p]) \in Nat /\ Len(topic'[p]) \in Nat
  BY TypeStep DEF OffsetInv, TypeOK
<1>2. dbOrders \subseteq dbOrders'
  BY StoreStep, BookingThread DEF PublishStock, PublishCommit, PublishRollback, LuaAdmit
<1>3. dropped \subseteq dropped'
  BY NextCases DEF vars, PublishStock, PublishCommit, PublishRollback, LuaError,
     LuaSoldOut, LuaRepeat, LuaAdmit, SendAsync, SendLost, BrokerAppend,
     SendTwice, Deliver, CommitOffset, Rebalance, TryLock, TryLockFails,
     CheckDuplicate, CheckFresh, DeductStock, DeductNothing, InsertOrder,
     InsertConflict, CommitOrder, CommitUnknown, Unlock, Consumed, Redeliver,
     Skip, Fenced, TxFails, Crash, LeaseExpires, LeaseLost
<1>4. ASSUME NEW i \in 1..position[p]
      PROVE  topic'[p][i] \in dbOrders' \cup dropped'
  <2>1. i \in 1..Len(topic[p])
    BY <1>1
  <2>. QED
    BY <1>1, <1>2, <1>3, <2>1, TopicGrows
<1>5. ASSUME NEW w \in Workers, Consumed(w) \/ Skip(w), PartOf(w) = p
      PROVE  /\ position[p] + 1 \in 1..Len(topic[p])
             /\ topic'[p][position[p] + 1] \in dbOrders' \cup dropped'
  <2>1. Busy(w) /\ owner[p] = w
    BY <1>5 DEF Consumed, Skip, Busy
  <2>2. position[p] < Len(topic[p]) /\ topic[p][position[p] + 1] = OrderOf(w)
    BY <1>5, <2>1 DEF JobInv
  <2>3. OrderOf(w) \in dbOrders' \cup dropped'
    BY <1>2, <1>5 DEF Consumed, Skip, ResultInv
  <2>. QED
    BY <1>1, <2>2, <2>3, TopicGrows
<1>6. CASE position'[p] = position[p] /\ committed'[p] \in {committed[p], position[p]}
  BY <1>1, <1>4, <1>6, TopicGrows
<1>7. CASE position'[p] = committed[p] /\ committed'[p] = committed[p]
  BY <1>1, <1>4, <1>7, TopicGrows
<1>8. ASSUME position'[p] = position[p] + 1, committed'[p] = committed[p],
             NEW w \in Workers, Consumed(w) \/ Skip(w), PartOf(w) = p
      PROVE  /\ committed'[p] <= position'[p]
             /\ position'[p] <= Len(topic'[p])
             /\ \A i \in 1..position'[p] : topic'[p][i] \in dbOrders' \cup dropped'
  <2>1. position[p] + 1 <= Len(topic'[p])
    BY <1>1, <1>5, <1>8, TopicGrows
  <2>2. \A i \in 1..(position[p] + 1) : i \in 1..position[p] \/ i = position[p] + 1
    BY <1>1
  <2>. QED
    BY <1>1, <1>4, <1>5, <1>8, <2>1, <2>2
<1>. QED
  BY <1>6, <1>7, <1>8, OffsetMoves

LEMMA JobStep ==
    ASSUME IInv, [Next]_vars
    PROVE  JobInv'
<1>. USE DEF IInv
<1>. SUFFICES ASSUME NEW x \in Workers, pc'[x] # "idle", owner'[job'[x].part] = x
              PROVE  /\ position'[job'[x].part] < Len(topic'[job'[x].part])
                     /\ topic'[job'[x].part][position'[job'[x].part] + 1] = job'[x].order
  BY DEF JobInv, Busy, PartOf, OrderOf
<1>1. ASSUME NEW p \in Partitions, pc[x] # "idle", job'[x] = job[x], job[x].part = p,
             job[x] \in Job
      PROVE  /\ position'[p] < Len(topic'[p])
             /\ topic'[p][position'[p] + 1] = job[x].order
  <2>1. owner[p] = x
    <3>1. ASSUME NEW w \in Workers, NEW q \in Partitions, Rebalance(q, w)
          PROVE  owner[p] = x
      BY <1>1, <3>1 DEF Rebalance, PartOf, TypeOK
    <3>2. \/ owner' = owner
          \/ \E w \in Workers, q \in Partitions : Rebalance(q, w)
      BY NextCases DEF vars, PublishStock, PublishCommit, PublishRollback, LuaError,
         LuaSoldOut, LuaRepeat, LuaAdmit, SendAsync, SendLost, BrokerAppend,
         SendTwice, Deliver, CommitOffset, TryLock, TryLockFails,
         CheckDuplicate, CheckFresh, DeductStock, DeductNothing, InsertOrder,
         InsertConflict, CommitOrder, CommitUnknown, Unlock, Consumed,
         Redeliver, Skip, Fenced, TxFails, Crash, LeaseExpires, LeaseLost
    <3>. QED
      BY <1>1, <3>1, <3>2
  <2>2. position[p] < Len(topic[p]) /\ topic[p][position[p] + 1] = job[x].order
    BY <1>1, <2>1 DEF JobInv, Busy, PartOf, OrderOf
  <2>3. position'[p] = position[p]
    <3>1. ASSUME NEW w \in Workers, Crash(w), owner[p] = w
          PROVE  FALSE
      BY <2>1, <3>1 DEF Crash, Rest, Goto, TypeOK
    <3>2. ASSUME NEW w \in Workers, Rebalance(p, w)
          PROVE  FALSE
      BY <1>1, <2>1, <3>2 DEF Rebalance, TypeOK
    <3>3. ASSUME NEW w \in Workers, Consumed(w) \/ Skip(w), PartOf(w) = p
          PROVE  FALSE
      BY <2>1, <3>3 DEF Consumed, Skip, Rest, Goto, TypeOK
    <3>. QED
      BY <3>1, <3>2, <3>3, OffsetMoves
  <2>4. p \in Partitions /\ position[p] \in Nat
        /\ Len(topic[p]) \in Nat /\ Len(topic'[p]) \in Nat
    BY TypeStep DEF TypeOK
  <2>5. position[p] + 1 \in 1..Len(topic[p])
    BY <2>2, <2>4
  <2>6. /\ Len(topic[p]) <= Len(topic'[p])
        /\ topic'[p][position[p] + 1] = topic[p][position[p] + 1]
    BY <2>5, TopicGrows
  <2>. QED
    BY <2>2, <2>3, <2>4, <2>6
<1>2. CASE pc'[x] = pc[x] /\ job'[x] = job[x] /\ result'[x] = result[x]
  BY <1>1, <1>2 DEF WorkerInv, Busy, Job
<1>3. CASE pc'[x] = "idle" /\ job'[x] = NoJob /\ result'[x] = "none"
  BY <1>3
<1>4. ASSUME NEW p \in Partitions, Deliver(x, p)
      PROVE  /\ position'[job'[x].part] < Len(topic'[job'[x].part])
             /\ topic'[job'[x].part][position'[job'[x].part] + 1] = job'[x].order
  <2>1. /\ job'[x] = [part |-> p, order |-> topic[p][position[p] + 1]]
        /\ UNCHANGED <<topic, position>> /\ position[p] < Len(topic[p])
    BY <1>4 DEF Deliver, TypeOK
  <2>. QED
    BY <2>1
<1>5. CASE HandlerStep(x)
  BY <1>1, <1>5, HandlerKeepsJob DEF WorkerInv, Busy, Job
<1>. QED
  BY <1>2, <1>3, <1>4, <1>5, ThreadStep

(* What MySQL has left over Redis is counted from both sides: grants minus  *)
(* bookings.                                                                *)
LEMMA StocksReconcile ==
    ASSUME IInv
    PROVE  GapIsPending
<1>. SUFFICES ASSUME NEW v \in Vouchers, pub[v] = "committed"
              PROVE  dbStock[v] - redisStock[v]
                        = Cardinality(GrantedOrders(v) \ dbOrders)
  BY DEF GapIsPending
<1>1. BookedOrders(v) \subseteq GrantedOrders(v)
  BY DEF IInv, TypeOK, GrantInv, OneGrantPerPurchase, BookedOrders, GrantedOrders
<1>2. GrantedOrders(v) \ dbOrders = GrantedOrders(v) \ BookedOrders(v)
  BY DEF BookedOrders, GrantedOrders
<1>3. IsFiniteSet(GrantedOrders(v)) /\ IsFiniteSet(BookedOrders(v))
  BY <1>1, OrdersAssumption, FS_Subset DEF GrantedOrders
<1>4. GrantedOrders(v) \cap BookedOrders(v) = BookedOrders(v)
  BY <1>1
<1>5. Cardinality(GrantedOrders(v) \ BookedOrders(v))
        = Cardinality(GrantedOrders(v)) - Cardinality(BookedOrders(v))
  BY <1>3, <1>4, FS_Difference
<1>6. /\ redisStock[v] + Cardinality(GrantedOrders(v)) = Quota[v]
      /\ dbStock[v] + Cardinality(BookedOrders(v)) = Quota[v]
  BY DEF IInv, RedisInv, HasStockKey, BookInv, StockMatchesOrders
<1>7. /\ redisStock[v] \in Nat /\ dbStock[v] \in Nat /\ Quota[v] \in Nat
      /\ Cardinality(GrantedOrders(v)) \in Nat
      /\ Cardinality(BookedOrders(v)) \in Nat
  BY <1>3, QuotaAssumption, FS_CardinalityType DEF IInv, TypeOK
<1>8. Cardinality(GrantedOrders(v) \ dbOrders)
        = Cardinality(GrantedOrders(v)) - Cardinality(BookedOrders(v))
  BY <1>2, <1>5
<1>9. dbStock[v] - redisStock[v]
        = Cardinality(GrantedOrders(v)) - Cardinality(BookedOrders(v))
  BY <1>6, <1>7
<1>. QED
  BY <1>8, <1>9

(***************************************************************************)
(* What is known while the environment has not failed.                     *)
(***************************************************************************)

(* Faults are counted: none so far, and none in this step. *)
LEMMA CalmCases ==
    ASSUME IInv, [Next]_vars, faults' = 0
    PROVE  /\ faults = 0
           /\ \/ \E v \in Vouchers : PublishStock(v) \/ PublishCommit(v)
              \/ \E o \in Orders : \/ LuaError(o) \/ LuaSoldOut(o) \/ LuaRepeat(o)
                                   \/ LuaAdmit(o) \/ SendAsync(o)
              \/ \E o \in Orders, p \in Partitions : BrokerAppend(o, p)
              \/ \E w \in Workers, p \in Partitions : Deliver(w, p) \/ CommitOffset(w, p)
              \/ \E w \in Workers : \/ TryLock(w) \/ TryLockFails(w)
                                    \/ CheckDuplicate(w) \/ CheckFresh(w)
                                    \/ DeductStock(w) \/ DeductNothing(w)
                                    \/ InsertOrder(w) \/ InsertConflict(w)
                                    \/ CommitOrder(w) \/ Unlock(w)
              \/ \E w \in Workers : \/ Consumed(w) \/ Redeliver(w) \/ Skip(w) \/ Fenced(w)
              \/ \E u \in Users : LeaseExpires(u)
              \/ UNCHANGED vars
<1>. USE DEF IInv, TypeOK
<1>1. \A v \in Vouchers : ~PublishRollback(v)
  BY DEF PublishRollback
<1>2. \A o \in Orders : ~SendLost(o) /\ \A p \in Partitions : ~SendTwice(o, p)
  BY DEF SendLost, SendTwice
<1>3. \A w \in Workers : /\ ~TxFails(w) /\ ~CommitUnknown(w) /\ ~Crash(w)
                         /\ \A p \in Partitions : ~Rebalance(p, w)
  BY DEF TxFails, CommitUnknown, Crash, Rebalance, Fault
<1>4. \A u \in Users : ~LeaseLost(u)
  BY DEF LeaseLost, Fault
<1>5. faults = 0
  BY <1>1, <1>2, <1>3, <1>4, NextCases DEF vars, PublishStock, PublishCommit, LuaError,
     LuaSoldOut, LuaRepeat, LuaAdmit, SendAsync, BrokerAppend, Deliver,
     CommitOffset, TryLock, TryLockFails, CheckDuplicate, CheckFresh,
     DeductStock, DeductNothing, InsertOrder, InsertConflict, CommitOrder,
     Unlock, Consumed, Redeliver, Skip, Fenced, LeaseExpires
<1>. QED
  BY <1>1, <1>2, <1>3, <1>4, <1>5, NextCases

(* An order another granted order of its user contends with stays one. *)
LEMMA ContendedStays ==
    ASSUME IInv, [Next]_vars, NEW o \in Orders, Contended(o)
    PROVE  Contended(o)'
<1>1. PICK x \in Orders : x # o /\ req[x].user = req[o].user /\ req[x].pc \in Granted
  BY DEF Contended
<1>2. req'[x].user = req'[o].user /\ req'[x].pc \in Granted
  BY <1>1, ReqStep
<1>. QED
  BY <1>1, <1>2 DEF Contended

(* What OnceInv says of two places of the logs.                             *)
LEMMA SamePlace ==
    ASSUME OnceInv, NEW p \in Partitions, NEW q \in Partitions,
           NEW i \in DOMAIN topic[p], NEW j \in DOMAIN topic[q], topic[p][i] = topic[q][j]
    PROVE  p = q /\ i = j
  BY Zenon DEF OnceInv

(* The broker appends an order once: it was not in any log before. *)
LEMMA OnceStep ==
    ASSUME IInv, [Next]_vars, faults' = 0, OnceInv
    PROVE  OnceInv'
<1>. topic \in [Partitions -> Seq(Orders)]
  BY DEF IInv, TypeOK
<1>1. CASE topic' = topic
  BY <1>1 DEF OnceInv
<1>2. ASSUME NEW o \in Orders, NEW r \in Partitions, BrokerAppend(o, r)
      PROVE  OnceInv'
  <2>1. topic' = [topic EXCEPT ![r] = Append(@, o)] /\ req[o].pc = "inflight"
    BY <1>2 DEF BrokerAppend
  <2>2. \A p \in Partitions : \A i \in DOMAIN topic[p] : topic[p][i] # o
    BY <2>1 DEF IInv, LogInv
  <2>3. ASSUME NEW p \in Partitions, NEW i \in DOMAIN topic'[p]
        PROVE  \/ i \in DOMAIN topic[p] /\ topic'[p][i] = topic[p][i]
               \/ p = r /\ i = Len(topic[r]) + 1 /\ topic'[p][i] = o
    <3>1. CASE p = r
      <4>1. topic'[p] = Append(topic[r], o)
        BY <2>1, <3>1
      <4>. QED
        BY <2>3, <3>1, <4>1
    <3>2. CASE p # r
      BY <2>1, <2>3, <3>2
    <3>. QED
      BY <3>1, <3>2
  <2>4. ASSUME NEW p \in Partitions, NEW q \in Partitions, NEW i \in DOMAIN topic'[p],
               NEW j \in DOMAIN topic'[q], topic'[p][i] = topic'[q][j]
        PROVE  p = q /\ i = j
    <3>1. CASE i \in DOMAIN topic[p] /\ topic'[p][i] = topic[p][i]
      <4>1. CASE j \in DOMAIN topic[q] /\ topic'[q][j] = topic[q][j]
        <5>1. i \in DOMAIN topic[p]
          BY <3>1
        <5>2. j \in DOMAIN topic[q]
          BY <4>1
        <5>3. topic[p][i] = topic[q][j]
          BY <2>4, <3>1, <4>1
        <5>. QED
          BY <5>1, <5>2, <5>3, SamePlace
      <4>2. CASE topic'[q][j] = o
        BY <2>2, <2>4, <3>1, <4>2
      <4>. QED
        BY <2>3, <4>1, <4>2
    <3>2. CASE p = r /\ i = Len(topic[r]) + 1 /\ topic'[p][i] = o
      BY <2>2, <2>3, <2>4, <3>2
    <3>. QED
      BY <2>3, <3>1, <3>2
  <2>. QED
    BY <2>4 DEF OnceInv
<1>3. \/ topic' = topic
      \/ \E o \in Orders, r \in Partitions : BrokerAppend(o, r)
  BY CalmCases DEF vars, PublishStock, PublishCommit, LuaError, LuaSoldOut, LuaRepeat,
     LuaAdmit, SendAsync, Deliver, CommitOffset, TryLock, TryLockFails,
     CheckDuplicate, CheckFresh, DeductStock, DeductNothing, InsertOrder,
     InsertConflict, CommitOrder, Unlock, Consumed, Redeliver, Skip, Fenced,
     LeaseExpires
<1>. QED
  BY <1>1, <1>2, <1>3

(* Two threads never have the same order in hand. *)
LEMMA OneThreadPerOrder ==
    ASSUME IInv, OnceInv, OwnerInv, NEW x \in Workers, NEW y \in Workers,
           Busy(x), Busy(y), OrderOf(x) = OrderOf(y)
    PROVE  x = y
<1>. DEFINE Here(w) == position[PartOf(w)] + 1
<1>1. ASSUME NEW w \in {x, y}
      PROVE  /\ PartOf(w) \in Partitions /\ owner[PartOf(w)] = w
             /\ Here(w) \in DOMAIN topic[PartOf(w)]
             /\ topic[PartOf(w)][Here(w)] = OrderOf(w)
  <2>1. /\ w \in Workers /\ Busy(w) /\ owner[PartOf(w)] = w /\ PartOf(w) \in Partitions
        /\ position[PartOf(w)] \in Nat /\ Len(topic[PartOf(w)]) \in Nat
        /\ topic[PartOf(w)] \in Seq(Orders)
    BY DEF IInv, TypeOK, WorkerInv, OwnerInv, Job, PartOf
  <2>2. /\ position[PartOf(w)] < Len(topic[PartOf(w)])
        /\ topic[PartOf(w)][Here(w)] = OrderOf(w)
    BY <2>1 DEF IInv, JobInv
  <2>. QED
    BY <2>1, <2>2
<1>. HIDE DEF Here
<1>2. PartOf(x) = PartOf(y)
  BY <1>1 DEF OnceInv
<1>. QED
  BY <1>1, <1>2

(* Only a rebalance takes a partition from a thread at work.                *)
LEMMA OwnerStep ==
    ASSUME IInv, [Next]_vars, faults' = 0, OwnerInv
    PROVE  OwnerInv'
<1>. SUFFICES ASSUME NEW x \in Workers, pc'[x] # "idle"
              PROVE  owner'[job'[x].part] = x
  BY DEF OwnerInv, Busy, PartOf
<1>1. owner' = owner
  BY CalmCases DEF vars, PublishStock, PublishCommit, LuaError, LuaSoldOut, LuaRepeat,
     LuaAdmit, SendAsync, BrokerAppend, Deliver, CommitOffset, TryLock, TryLockFails,
     CheckDuplicate, CheckFresh, DeductStock, DeductNothing, InsertOrder,
     InsertConflict, CommitOrder, Unlock, Consumed, Redeliver, Skip, Fenced,
     LeaseExpires
<1>2. CASE pc'[x] = pc[x] /\ job'[x] = job[x] /\ result'[x] = result[x]
  BY <1>1, <1>2 DEF OwnerInv, Busy, PartOf
<1>3. CASE pc'[x] = "idle"
  BY <1>3
<1>4. ASSUME NEW p \in Partitions, Deliver(x, p)
      PROVE  owner[job'[x].part] = x
  BY <1>4 DEF Deliver, IInv, TypeOK
<1>5. CASE HandlerStep(x)
  BY <1>1, <1>5, HandlerKeepsJob DEF OwnerInv, PartOf
<1>. QED
  BY <1>1, <1>2, <1>3, <1>4, <1>5, ThreadStep

(* A thread enters its critical section by TryLock and leaves it by Unlock. *)
LEMMA CriticalStep ==
    ASSUME IInv, [Next]_vars, faults' = 0, NEW x \in Workers, ~TryLock(x), ~Unlock(x)
    PROVE  /\ pc'[x] \in Critical <=> pc[x] \in Critical
           /\ pc[x] \in Critical => job'[x] = job[x]
<1>. USE DEF IInv, TypeOK
<1>1. CASE pc'[x] = pc[x] /\ job'[x] = job[x] /\ result'[x] = result[x]
  BY <1>1
<1>2. ASSUME NEW p \in Partitions, Deliver(x, p)
      PROVE  pc[x] \notin Critical /\ pc'[x] \notin Critical
  BY <1>2 DEF Deliver, Goto, Critical
<1>3. CASE HandlerStep(x)
  <2>1. job' = job
    BY <1>3, HandlerKeepsJob
  <2>2. pc'[x] \in Critical <=> pc[x] \in Critical
    BY <1>3 DEF HandlerStep, TryLockFails, CheckDuplicate, CheckFresh, DeductStock,
       DeductNothing, InsertOrder, InsertConflict, CommitOrder, CommitUnknown,
       TxFails, Finish, Goto, Critical
  <2>. QED
    BY <2>1, <2>2
<1>4. CASE Consumed(x) \/ Redeliver(x) \/ Skip(x) \/ Fenced(x)
  BY <1>4 DEF Consumed, Redeliver, Skip, Fenced, Rest, Goto, Critical
<1>5. CASE \E w \in Workers : w # x /\ (Consumed(w) \/ Redeliver(w) \/ Skip(w) \/ Fenced(w))
  BY <1>5 DEF Consumed, Redeliver, Skip, Fenced, Rest, Goto
<1>6. CASE UNCHANGED <<pc, job>>
  BY <1>6
<1>7. ASSUME NEW w \in Workers, w # x,
             \/ HandlerStep(w) \/ \E p \in Partitions : Deliver(w, p)
      PROVE  pc'[x] = pc[x] /\ job'[x] = job[x]
  BY <1>7 DEF HandlerStep, TryLock, TryLockFails, CheckDuplicate, CheckFresh, DeductStock,
     DeductNothing, InsertOrder, InsertConflict, CommitOrder, CommitUnknown,
     TxFails, Unlock, Finish, Goto, Deliver
<1>8. \/ UNCHANGED <<pc, job>>
      \/ \E w \in Workers : \/ HandlerStep(w) \/ \E p \in Partitions : Deliver(w, p)
                            \/ Consumed(w) \/ Redeliver(w) \/ Skip(w) \/ Fenced(w)
  BY CalmCases DEF vars, HandlerStep, PublishStock, PublishCommit, LuaError, LuaSoldOut,
     LuaRepeat, LuaAdmit, SendAsync, BrokerAppend, CommitOffset, LeaseExpires
<1>. QED
  BY <1>2, <1>3, <1>4, <1>5, <1>6, <1>7, <1>8

(* The user of a busy thread stays the same while its record does.          *)
LEMMA UserStays ==
    ASSUME IInv, [Next]_vars, NEW x \in Workers, Busy(x)
    PROVE  /\ OrderOf(x) \in Orders /\ UserOf(x) \in Users
           /\ job'[x] = job[x] => UserOf(x)' = UserOf(x)
<1>1. OrderOf(x) \in Orders
  BY DEF IInv, WorkerInv, Job, OrderOf
<1>. QED
  BY <1>1, ReqStep DEF IInv, TypeOK, UserOf, OrderOf

(* A lock is held by the thread that is inside handlerOrder for its user.   *)
LEMMA HolderStep ==
    ASSUME IInv, [Next]_vars, faults' = 0, HolderInv
    PROVE  HolderInv'
<1>. DEFINE Held(u) == lock[u] # Free =>
                          lock[u] \in Workers /\ pc[lock[u]] \in Critical /\ UserOf(lock[u]) = u
            Holds(x) == pc[x] \in Critical => lock[UserOf(x)] = x
<1>1. /\ lock \in [Users -> Workers \cup {Free, Orphan}]
      /\ \A u \in Users : Held(u)
      /\ \A x \in Workers : Holds(x)
  BY DEF IInv, TypeOK, HolderInv
<1>2. ASSUME NEW x \in Workers, pc[x] \in Critical
      PROVE  Busy(x)
  BY <1>2 DEF Busy, Critical
<1>3. ASSUME lock' = lock, \A x \in Workers : ~TryLock(x) /\ ~Unlock(x)
      PROVE  HolderInv'
  <2>1. \A x \in Workers : /\ pc'[x] \in Critical <=> pc[x] \in Critical
                           /\ pc[x] \in Critical => UserOf(x)' = UserOf(x)
    BY <1>2, <1>3, CriticalStep, UserStays
  <2>. QED
    BY <1>1, <1>3, <2>1 DEF HolderInv
<1>4. ASSUME NEW w \in Workers, TryLock(w)
      PROVE  HolderInv'
  <2>1. /\ pc[w] = "received" /\ lock[UserOf(w)] = Free
        /\ lock' = [lock EXCEPT ![UserOf(w)] = w] /\ job' = job
        /\ pc' = [pc EXCEPT ![w] = "locked"]
    BY <1>4 DEF TryLock, Goto
  <2>2. /\ UserOf(w) \in Users /\ UserOf(w)' = UserOf(w) /\ pc'[w] \in Critical
        /\ pc[w] \notin Critical
    BY <2>1, UserStays DEF Busy, Critical, IInv, TypeOK
  <2>3. \A x \in Workers : x # w => /\ pc'[x] \in Critical <=> pc[x] \in Critical
                                    /\ pc[x] \in Critical => UserOf(x)' = UserOf(x)
    BY <1>2, <2>1, UserStays DEF IInv, TypeOK
  <2>4. ASSUME NEW u \in Users
        PROVE  Held(u)'
    <3>1. CASE u = UserOf(w)
      BY <1>1, <2>1, <2>2, <3>1
    <3>2. CASE u # UserOf(w)
      <4>1. lock'[u] = lock[u]
        BY <1>1, <2>1, <3>2
      <4>2. lock[u] # Free => lock[u] \in Workers /\ lock[u] # w
                              /\ pc[lock[u]] \in Critical /\ UserOf(lock[u]) = u
        BY <1>1, <2>2
      <4>. QED
        BY <2>3, <4>1, <4>2
    <3>. QED
      BY <3>1, <3>2
  <2>5. ASSUME NEW x \in Workers
        PROVE  Holds(x)'
    <3>1. CASE x = w
      BY <1>1, <2>1, <2>2, <3>1
    <3>2. CASE x # w /\ pc[x] \in Critical
      <4>1. /\ lock[UserOf(x)] = x /\ UserOf(x) \in Users /\ UserOf(x)' = UserOf(x)
        BY <1>1, <1>2, <2>3, <3>2, UserStays
      <4>2. UserOf(x) # UserOf(w)
        BY <2>1, <4>1, NullAssumption
      <4>. QED
        BY <1>1, <2>1, <4>1, <4>2
    <3>. QED
      BY <2>3, <3>1, <3>2
  <2>. HIDE DEF Held, Holds
  <2>6. (\A u \in Users : Held(u)') /\ (\A x \in Workers : Holds(x)')
    BY <2>4, <2>5
  <2>. QED
    BY <2>6 DEF HolderInv, Held, Holds
<1>5. ASSUME NEW w \in Workers, Unlock(w)
      PROVE  HolderInv'
  <2>1. /\ pc[w] = "finally" /\ job' = job /\ pc' = [pc EXCEPT ![w] = "returned"]
    BY <1>5 DEF Unlock, Goto
  <2>2. /\ pc[w] \in Critical /\ pc'[w] \notin Critical
        /\ UserOf(w) \in Users /\ lock[UserOf(w)] = w
    BY <1>1, <1>2, <2>1, UserStays DEF Critical, IInv, TypeOK
  <2>3. lock' = [lock EXCEPT ![UserOf(w)] = Free]
    BY <1>5, <2>2 DEF Unlock
  <2>4. \A x \in Workers : x # w => /\ pc'[x] \in Critical <=> pc[x] \in Critical
                                    /\ pc[x] \in Critical => UserOf(x)' = UserOf(x)
    BY <1>2, <2>1, UserStays DEF IInv, TypeOK
  <2>5. ASSUME NEW u \in Users
        PROVE  Held(u)'
    <3>1. CASE u = UserOf(w)
      BY <1>1, <2>3, <3>1
    <3>2. CASE u # UserOf(w)
      <4>1. lock'[u] = lock[u]
        BY <1>1, <2>3, <3>2
      <4>2. lock[u] # Free => lock[u] \in Workers /\ lock[u] # w
                              /\ pc[lock[u]] \in Critical /\ UserOf(lock[u]) = u
        BY <1>1, <3>2
      <4>. QED
        BY <2>4, <4>1, <4>2
    <3>. QED
      BY <3>1, <3>2
  <2>6. ASSUME NEW x \in Workers
        PROVE  Holds(x)'
    <3>1. CASE x # w /\ pc[x] \in Critical
      <4>1. /\ lock[UserOf(x)] = x /\ UserOf(x) \in Users /\ UserOf(x)' = UserOf(x)
        BY <1>1, <1>2, <2>4, <3>1, UserStays
      <4>. QED
        BY <1>1, <2>2, <2>3, <3>1, <4>1
    <3>. QED
      BY <2>2, <2>4, <3>1
  <2>. HIDE DEF Held, Holds
  <2>7. (\A u \in Users : Held(u)') /\ (\A x \in Workers : Holds(x)')
    BY <2>5, <2>6
  <2>. QED
    BY <2>7 DEF HolderInv, Held, Holds
<1>6. \A u \in Users : ~LeaseExpires(u)
  BY <1>1, NullAssumption DEF LeaseExpires
<1>7. lock' = lock \/ \E w \in Workers : TryLock(w) \/ Unlock(w)
  BY <1>6, CalmCases DEF vars, PublishStock, PublishCommit, LuaError, LuaSoldOut, LuaRepeat,
     LuaAdmit, SendAsync, BrokerAppend, Deliver, CommitOffset, TryLockFails,
     CheckDuplicate, CheckFresh, DeductStock, DeductNothing, InsertOrder,
     InsertConflict, CommitOrder, Consumed, Redeliver, Skip, Fenced
<1>. QED
  BY <1>3, <1>4, <1>5, <1>7

(* The check of createVoucherOrder still holds when the order is inserted.  *)
LEMMA FreshStep ==
    ASSUME IInv, [Next]_vars, faults' = 0, OnceInv, OwnerInv, FreshInv
    PROVE  FreshInv'
<1>. DEFINE Booking == {"checked", "deducted", "inserted"}
<1>. SUFFICES ASSUME NEW x \in Workers, pc'[x] \in Booking
              PROVE  OrderOf(x)' \notin dbOrders'
  BY DEF FreshInv
<1>1. CASE pc'[x] = pc[x] /\ job'[x] = job[x] /\ result'[x] = result[x]
  <2>1. OrderOf(x) \notin dbOrders /\ OrderOf(x)' = OrderOf(x) /\ Busy(x)
    BY <1>1 DEF FreshInv, OrderOf, Busy
  <2>2. ASSUME NEW w \in Workers, CommitOrder(w) \/ CommitUnknown(w)
        PROVE  OrderOf(x) \notin dbOrders'
    <3>1. /\ dbOrders' = dbOrders \cup {OrderOf(w)} /\ pc[w] = "inserted"
          /\ pc'[w] = "finally"
      BY <2>2, BookingThread DEF IInv, TypeOK
    <3>2. w # x /\ Busy(w)
      BY <3>1 DEF Busy
    <3>. QED
      BY <2>1, <3>1, <3>2, OneThreadPerOrder
  <2>. QED
    BY <2>1, <2>2, StoreStep DEF PublishStock, PublishCommit, PublishRollback, LuaAdmit
<1>2. CASE pc'[x] = "idle"
  BY <1>2
<1>3. ASSUME NEW p \in Partitions, Deliver(x, p)
      PROVE  FALSE
  BY <1>3 DEF Deliver, Goto, IInv, TypeOK
<1>4. CASE HandlerStep(x)
  <2>1. OrderOf(x)' = OrderOf(x) /\ Busy(x)
    BY <1>4, HandlerKeepsJob DEF OrderOf
  <2>2. CheckFresh(x) \/ DeductStock(x) \/ InsertOrder(x)
    BY <1>4 DEF HandlerStep, TryLock, TryLockFails, CheckDuplicate, DeductNothing,
       InsertConflict, CommitOrder, CommitUnknown, TxFails, Unlock, Finish, Goto,
       IInv, TypeOK
  <2>3. ~AlreadyBooked(OrderOf(x)) => OrderOf(x) \notin dbOrders
    BY DEF AlreadyBooked, SamePurchase
  <2>. QED
    BY <2>1, <2>2, <2>3 DEF CheckFresh, DeductStock, InsertOrder, FreshInv
<1>. QED
  BY <1>1, <1>2, <1>3, <1>4, ThreadStep

(* A granted order that is not booked has a unit in MySQL waiting for it.   *)
LEMMA UnitIsLeft ==
    ASSUME IInv, NEW o \in Orders, req[o].pc \in Granted, o \notin dbOrders,
           pub[req[o].voucher] = "committed"
    PROVE  dbStock[req[o].voucher] > 0
<1>. DEFINE v == req[o].voucher
            Waiting == GrantedOrders(v) \ dbOrders
<1>1. v \in Vouchers /\ o \in Waiting
  BY DEF IInv, TypeOK, GrantedOrders
<1>2. IsFiniteSet(Waiting)
  BY OrdersAssumption, FS_Subset DEF GrantedOrders
<1>3. Cardinality(Waiting) \in Nat /\ Cardinality(Waiting) # 0
  BY <1>1, <1>2, FS_CardinalityType, FS_EmptySet
<1>4. dbStock[v] - redisStock[v] = Cardinality(Waiting)
  BY <1>1, StocksReconcile DEF GapIsPending
<1>5. dbStock[v] \in Nat /\ redisStock[v] \in Nat
  BY <1>1 DEF IInv, TypeOK
<1>. HIDE DEF Waiting
<1>6. dbStock[v] > 0
  BY <1>3, <1>4, <1>5
<1>. QED
  BY <1>6

(* UPDATE finds a unit, unlock() finds its own lock: neither fails.         *)
LEMMA OnlyContentionFails ==
    ASSUME IInv, CalmInv, [Next]_vars, faults' = 0, NEW x \in Workers,
           HandlerStep(x), result'[x] = "err"
    PROVE  result[x] = "err" \/ Contended(OrderOf(x))
<1>. OnceInv /\ HolderInv /\ OwnerInv /\ FreshInv /\ \A v \in Vouchers : pub[v] # "rolledback"
  BY CalmCases DEF CalmInv
<1>1. Busy(x) /\ OrderOf(x) \in Orders /\ UserOf(x) \in Users
      /\ req[OrderOf(x)].pc = "published"
  BY HandlerKeepsJob, UserStays DEF IInv, WorkerInv
<1>2. CASE TryLockFails(x)
  <2>. DEFINE y == lock[UserOf(x)]
  <2>1. y \in Workers /\ pc[y] \in Critical /\ UserOf(y) = UserOf(x) /\ pc[x] = "received"
    BY <1>1, <1>2 DEF TryLockFails, HolderInv
  <2>2. y # x /\ Busy(y)
    BY <2>1 DEF Critical, Busy
  <2>3. OrderOf(y) # OrderOf(x)
    BY <1>1, <2>1, <2>2, OneThreadPerOrder
  <2>4. OrderOf(y) \in Orders /\ req[OrderOf(y)].pc = "published"
    BY <2>1, <2>2, UserStays DEF IInv, WorkerInv
  <2>. QED
    BY <2>1, <2>3, <2>4 DEF Contended, UserOf, Granted
<1>3. CASE DeductNothing(x)
  <2>1. /\ pc[x] = "checked" /\ ~RowLocked(VoucherOf(x)) /\ dbStock[VoucherOf(x)] <= 0
    BY <1>3 DEF DeductNothing
  <2>2. OrderOf(x) \notin dbOrders /\ req[OrderOf(x)].pc \in Granted
    BY <1>1, <2>1 DEF FreshInv, Granted
  <2>3. VoucherOf(x) \in Vouchers /\ pub[VoucherOf(x)] \in PubStates
    BY <1>1 DEF VoucherOf, IInv, TypeOK
  <2>4. pub[VoucherOf(x)] # "draft" /\ pub[VoucherOf(x)] # "stocked"
    BY <1>1, <2>1, <2>2 DEF IInv, GrantInv, HasStockKey, VoucherOf, RowLocked
  <2>5. pub[VoucherOf(x)] = "committed"
    BY <2>3, <2>4 DEF PubStates
  <2>6. dbStock[VoucherOf(x)] > 0
    BY <1>1, <2>2, <2>5, UnitIsLeft DEF VoucherOf
  <2>7. dbStock[VoucherOf(x)] \in Nat
    BY <2>3 DEF IInv, TypeOK
  <2>. QED
    BY <2>1, <2>6, <2>7
<1>4. CASE Unlock(x)
  <2>1. pc[x] \in Critical
    BY <1>4 DEF Unlock, Critical
  <2>2. result' = result
    BY <1>4, <2>1 DEF Unlock, HolderInv
  <2>. QED
    BY <2>2
<1>5. ~TxFails(x) /\ ~CommitUnknown(x)
  BY DEF TxFails, CommitUnknown, Fault, IInv, TypeOK
<1>. QED
  BY <1>2, <1>3, <1>4, <1>5 DEF HandlerStep, TryLock, CheckDuplicate, CheckFresh,
     DeductStock, InsertOrder, InsertConflict, CommitOrder, Finish, IInv, TypeOK

(* An error, and so a record given up, comes from contention alone.         *)
LEMMA ErrorStep ==
    ASSUME IInv, CalmInv, [Next]_vars, faults' = 0
    PROVE  ErrorInv'
<1>. ErrorInv
  BY CalmCases DEF CalmInv
<1>1. ASSUME NEW x \in Workers, result'[x] = "err"
      PROVE  Contended(OrderOf(x))'
  <2>1. CASE pc'[x] = pc[x] /\ job'[x] = job[x] /\ result'[x] = result[x]
    <3>1. Contended(OrderOf(x)) /\ Busy(x)
      BY <1>1, <2>1 DEF ErrorInv, IInv, WorkerInv, Busy
    <3>2. OrderOf(x) \in Orders /\ OrderOf(x)' = OrderOf(x)
      BY <2>1, <3>1, UserStays DEF OrderOf
    <3>. QED
      BY <3>1, <3>2, ContendedStays DEF Contended
  <2>2. CASE result'[x] = "none"
    BY <1>1, <2>2
  <2>3. ASSUME NEW p \in Partitions, Deliver(x, p)
        PROVE  FALSE
    BY <1>1, <2>3 DEF Deliver, IInv, WorkerInv
  <2>4. CASE HandlerStep(x)
    <3>1. Contended(OrderOf(x))
      BY <1>1, <2>4, OnlyContentionFails DEF ErrorInv
    <3>2. OrderOf(x) \in Orders /\ OrderOf(x)' = OrderOf(x)
      BY <2>4, HandlerKeepsJob, UserStays DEF OrderOf
    <3>. QED
      BY <3>1, <3>2, ContendedStays DEF Contended
  <2>. QED
    BY <2>1, <2>2, <2>3, <2>4, ThreadStep
<1>2. ASSUME NEW o \in dropped'
      PROVE  Contended(o)'
  <2>1. \/ dropped' = dropped
        \/ \E w \in Workers : Skip(w)
    BY CalmCases DEF vars, PublishStock, PublishCommit, LuaError, LuaSoldOut, LuaRepeat,
       LuaAdmit, SendAsync, BrokerAppend, Deliver, CommitOffset, TryLock, TryLockFails,
       CheckDuplicate, CheckFresh, DeductStock, DeductNothing, InsertOrder,
       InsertConflict, CommitOrder, Unlock, Consumed, Redeliver, Fenced,
       LeaseExpires
  <2>2. CASE o \in dropped
    BY <2>2, ContendedStays DEF ErrorInv, IInv, TypeOK
  <2>3. ASSUME NEW w \in Workers, Skip(w), o = OrderOf(w)
        PROVE  Contended(o)'
    <3>1. Contended(o) /\ Busy(w)
      BY <2>3 DEF Skip, ErrorInv, Busy
    <3>2. o \in Orders
      BY <2>3, <3>1, UserStays
    <3>. QED
      BY <3>1, <3>2, ContendedStays
  <2>. QED
    BY <1>2, <2>1, <2>2, <2>3 DEF Skip
<1>. QED
  BY <1>1, <1>2 DEF ErrorInv

(* Faults aside, what is known while there was none is kept by every step.  *)
LEMMA CalmStep ==
    ASSUME IInv, CalmInv, [Next]_vars
    PROVE  CalmInv'
<1>. SUFFICES ASSUME faults' = 0
              PROVE  /\ OnceInv' /\ HolderInv' /\ OwnerInv' /\ FreshInv' /\ ErrorInv'
                     /\ \A v \in Vouchers : pub'[v] # "rolledback"
  BY DEF CalmInv
<1>1. /\ OnceInv /\ HolderInv /\ OwnerInv /\ FreshInv
      /\ \A v \in Vouchers : pub[v] # "rolledback"
  BY CalmCases DEF CalmInv
<1>2. \A v \in Vouchers : pub'[v] # "rolledback"
  <2>1. CASE UNCHANGED pub
    BY <1>1, <2>1
  <2>2. ASSUME NEW v \in Vouchers, PublishStock(v) \/ PublishCommit(v)
        PROVE  \A x \in Vouchers : pub'[x] # "rolledback"
    BY <1>1, <2>2 DEF PublishStock, PublishCommit, IInv, TypeOK
  <2>. QED
    BY <2>1, <2>2, CalmCases DEF vars, LuaError, LuaSoldOut, LuaRepeat, LuaAdmit, SendAsync,
       BrokerAppend, Deliver, CommitOffset, TryLock, TryLockFails, CheckDuplicate,
       CheckFresh, DeductStock, DeductNothing, InsertOrder, InsertConflict,
       CommitOrder, Unlock, Consumed, Redeliver, Skip, Fenced, LeaseExpires
<1>. QED
  BY <1>1, <1>2, OnceStep, HolderStep, OwnerStep, FreshStep, ErrorStep

(***************************************************************************)
(* The theorems.                                                           *)
(***************************************************************************)

(* The named parts together are an inductive invariant of the sale.         *)
THEOREM IInvariant == Spec => []IInv
<1>1. Init => IInv
  <2>. SUFFICES ASSUME Init
                PROVE  IInv
    OBVIOUS
  <2>1. TypeOK
    BY QuotaAssumption DEF Init, TypeOK, PubStates, ReqStates, WorkerStates
  <2>2. LogInv /\ WorkerInv /\ OffsetInv /\ JobInv /\ ResultInv /\ LockInv /\ RowInv
    BY <2>1 DEF Init, LogInv, WorkerInv, Busy, OffsetInv, JobInv, ResultInv, LockInv,
                RowInv, HoldsRow, Critical
  <2>3. \A o \in Orders : req[o].pc \notin Granted
    BY DEF Init, Granted
  <2>4. GrantInv /\ RedisInv
    BY <2>3, FS_EmptySet DEF Init, GrantInv, OneGrantPerPurchase, RedisInv, HasStockKey
  <2>5. BookInv
    BY DEF Init, BookInv, StockMatchesOrders
  <2>. QED
    BY <2>1, <2>2, <2>4, <2>5 DEF IInv
<1>2. IInv /\ [Next]_vars => IInv'
  BY TypeStep, LogStep, WorkerStep, GrantStep, RedisStep, BookStep, RowStep,
     OffsetStep, JobStep, ResultStep, LockStep DEF IInv
<1>. QED
  BY <1>1, <1>2, PTL DEF Spec

(* Types, and no stock below zero in Redis or MySQL, whatever crashes.      *)
THEOREM TypeCorrect == Spec => []TypeOK
<1>1. IInv => TypeOK
  BY DEF IInv
<1>. QED
  BY <1>1, IInvariant, PTL

(* No overselling in MySQL: units taken and order rows always agree.        *)
THEOREM NoOverselling == Spec => []StockMatchesOrders
<1>1. IInv => StockMatchesOrders
  BY DEF IInv, BookInv
<1>. QED
  BY <1>1, IInvariant, PTL

(* One grant per user and voucher, and nothing booked without a grant.      *)
THEOREM OneGrant == Spec => []OneGrantPerPurchase
<1>1. IInv => OneGrantPerPurchase
  BY DEF IInv, GrantInv
<1>. QED
  BY <1>1, IInvariant, PTL

(* The gap between the two stocks is exactly the granted, unbooked orders.  *)
THEOREM Reconciliation == Spec => []GapIsPending
<1>1. IInv => GapIsPending
  BY StocksReconcile
<1>. QED
  BY <1>1, IInvariant, PTL

(* No committed offset passes an order that is neither booked nor given up. *)
THEOREM OffsetsAreSettled == Spec => []NothingPassedOver
<1>1. IInv => NothingPassedOver
  <2>. SUFFICES ASSUME IInv, NEW p \in Partitions, NEW i \in 1..committed[p]
                PROVE  topic[p][i] \in dbOrders \cup dropped
    BY DEF NothingPassedOver
  <2>1. i \in 1..position[p]
    BY DEF IInv, TypeOK, OffsetInv
  <2>. QED
    BY <2>1 DEF IInv, OffsetInv
<1>. QED
  BY <1>1, IInvariant, PTL

(* While leases are renewed, one listener thread at a time serves a user.   *)
THEOREM Serialised == Spec => []UserIsSerialised
<1>1. IInv => UserIsSerialised
  BY LeaseAssumption DEF IInv, LockInv, UserIsSerialised
<1>. QED
  BY <1>1, IInvariant, PTL

(* As long as the environment has not failed, no record is given up unless  *)
(* another granted order of its user contended with it for the lock.        *)
THEOREM DropsAreExplained == Spec => []DropNeedsCause
<1>1. Init => CalmInv
  BY DEF Init, CalmInv, OnceInv, HolderInv, OwnerInv, FreshInv, ErrorInv, Busy, Critical
<1>2. IInv /\ CalmInv /\ [Next]_vars => CalmInv'
  BY CalmStep
<1>3. IInv /\ CalmInv => DropNeedsCause
  BY DEF IInv, TypeOK, CalmInv, ErrorInv, Contended, DropNeedsCause
<1>. QED
  BY <1>1, <1>2, <1>3, IInvariant, PTL DEF Spec

-----------------------------------------------------------------------------
(* Seckill implements FlashSale, for every value of the constants.          *)

USE DEF saleVars, kafkaVars, workerVars, dbVars

LEMMA InitRefines == Init => Sale!Init
<1>. SUFFICES ASSUME Init
              PROVE  Sale!Init
  OBVIOUS
<1>1. \A v \in Vouchers : BuyersOf(v) = {} /\ LeftOf(v) = Quota[v]
  BY DEF Init, BuyersOf, BookedOrders, LeftOf
<1>. QED
  BY <1>1, QuotaAssumption DEF Init, Sale!Init

(* A grant of the script is a Grant. *)
LEMMA AdmitRefines ==
    ASSUME IInv, NEW o \in Orders, LuaAdmit(o)
    PROVE  Sale!Grant(req[o].user, req[o].voucher)
<1>1. PICK v \in Vouchers, u \in Users : v = req[o].voucher /\ u = req[o].user
  BY DEF IInv, TypeOK
<1>2. /\ u \notin redisOrders[v] /\ redisStock[v] > 0 /\ HasStockKey(v)
      /\ redisOrders' = [redisOrders EXCEPT ![v] = @ \cup {u}]
      /\ UNCHANGED <<pub, dbStock, dbOrders>>
      /\ SetReq(o, "admitted") /\ "admitted" \in ReqStates
  BY <1>1 DEF LuaAdmit, ReqStates
<1>3. Cardinality(redisOrders[v]) < Quota[v]
  <2>1. /\ redisStock[v] \in Nat /\ Quota[v] \in Nat
        /\ Cardinality(redisOrders[v]) \in Nat
        /\ redisStock[v] + Cardinality(redisOrders[v]) = Quota[v]
    BY <1>1, <1>2, QuotaAssumption, FS_CardinalityType DEF IInv, TypeOK, RedisInv
  <2>. QED
    BY <1>2, <2>1
<1>4. ASSUME NEW x \in Vouchers
      PROVE  BuyersOf(x)' = BuyersOf(x) /\ LeftOf(x)' = LeftOf(x)
  <2>1. dbOrders \subseteq Orders
    BY DEF IInv, TypeOK
  <2>2. \A b \in dbOrders : req'[b].user = req[b].user /\ req'[b].voucher = req[b].voucher
    BY <1>2, <2>1, SetReqLemma DEF IInv
  <2>. QED
    BY <1>2, <2>2 DEF BuyersOf, BookedOrders, LeftOf
<1>5. /\ [x \in Vouchers |-> BuyersOf(x)]' = [x \in Vouchers |-> BuyersOf(x)]
      /\ [x \in Vouchers |-> LeftOf(x)]' = [x \in Vouchers |-> LeftOf(x)]
  BY <1>4, Zenon
<1>6. /\ redisOrders' = [redisOrders EXCEPT ![v] = redisOrders[v] \cup {u}]
      /\ u \notin redisOrders[v]
  BY <1>1, <1>2
<1>7. Sale!Grant(u, v)
  <2>1. Sale!Cardinality(redisOrders[v]) = Cardinality(redisOrders[v])
    BY Zenon DEF Cardinality, Sale!Cardinality
  <2>. QED
    BY <1>3, <1>5, <1>6, <2>1, Zenon DEF Sale!Grant
<1>. QED
  BY <1>1, <1>7

(* A commit of createVoucherOrder is a Book. *)
LEMMA CommitRefines ==
    ASSUME IInv, NEW w \in Workers, CommitOrder(w) \/ CommitUnknown(w)
    PROVE  Sale!Book(UserOf(w), VoucherOf(w))
<1>. PICK v \in Vouchers, u \in Users, o \in Orders :
            v = VoucherOf(w) /\ u = UserOf(w) /\ o = OrderOf(w)
  BY BookingThread DEF IInv, TypeOK, UserOf, VoucherOf
<1>1. /\ req[o].pc = "published" /\ pub[v] = "committed" /\ dbStock[v] > 0
      /\ ~AlreadyBooked(o)
      /\ dbStock' = [dbStock EXCEPT ![v] = @ - 1]
      /\ dbOrders' = dbOrders \cup {o}
      /\ UNCHANGED <<pub, redisOrders, req>>
      /\ v = req[o].voucher /\ u = req[o].user
  BY BookingThread DEF UserOf, VoucherOf
<1>2. u \in redisOrders[v]
  BY <1>1 DEF IInv, GrantInv, Granted
<1>3. u \notin BuyersOf(v)
  BY <1>1 DEF BuyersOf, BookedOrders, AlreadyBooked, SamePurchase
<1>4. LeftOf(v) > 0 /\ LeftOf(v)' = LeftOf(v) - 1
  BY <1>1 DEF LeftOf, IInv, TypeOK
<1>5. BuyersOf(v)' = BuyersOf(v) \cup {u}
  <2>1. BookedOrders(v)' = BookedOrders(v) \cup {o}
    BY <1>1 DEF BookedOrders
  <2>. QED
    BY <1>1, <2>1 DEF BuyersOf
<1>6. ASSUME NEW x \in Vouchers, x # v
      PROVE  BuyersOf(x)' = BuyersOf(x) /\ LeftOf(x)' = LeftOf(x)
  <2>1. BookedOrders(x)' = BookedOrders(x)
    BY <1>1, <1>6 DEF BookedOrders
  <2>. QED
    BY <1>1, <1>6, <2>1 DEF BuyersOf, LeftOf, IInv, TypeOK
<1>7. [x \in Vouchers |-> BuyersOf(x)]'
        = [[x \in Vouchers |-> BuyersOf(x)] EXCEPT ![v] = @ \cup {u}]
  BY <1>5, <1>6, Zenon
<1>8. [x \in Vouchers |-> LeftOf(x)]'
        = [[x \in Vouchers |-> LeftOf(x)] EXCEPT ![v] = @ - 1]
  BY <1>4, <1>6, Zenon
<1>. QED
  BY <1>1, <1>2, <1>3, <1>4, <1>7, <1>8 DEF Sale!Book

(* Every other step leaves the promise where it is; publishing included,    *)
(* since a voucher not yet committed counts its whole quota as left.        *)
LEMMA StutterRefines ==
    ASSUME IInv, [Next]_vars,
           \/ UNCHANGED <<pub, redisStock, redisOrders, dbStock, dbOrders>>
           \/ \E v \in Vouchers : PublishStock(v) \/ PublishCommit(v) \/ PublishRollback(v)
    PROVE  UNCHANGED Sale!saleState
<1>1. redisOrders' = redisOrders /\ dbOrders' = dbOrders
  BY DEF PublishStock, PublishCommit, PublishRollback
<1>2. dbOrders \subseteq Orders /\ pub \in [Vouchers -> PubStates]
      /\ dbStock \in [Vouchers -> Nat]
  BY DEF IInv, TypeOK
<1>3. ASSUME NEW x \in Vouchers
      PROVE  LeftOf(x)' = LeftOf(x)
  <2>1. CASE UNCHANGED <<pub, redisStock, redisOrders, dbStock, dbOrders>>
    BY <2>1 DEF LeftOf
  <2>2. ASSUME NEW v \in Vouchers,
               PublishStock(v) \/ PublishCommit(v) \/ PublishRollback(v)
        PROVE  LeftOf(x)' = LeftOf(x)
    BY <1>2, <2>2 DEF PublishStock, PublishCommit, PublishRollback, LeftOf
  <2>. QED
    BY <2>1, <2>2
<1>4. ASSUME NEW x \in Vouchers
      PROVE  BuyersOf(x)' = BuyersOf(x)
  <2>1. \A b \in dbOrders : req'[b].user = req[b].user /\ req'[b].voucher = req[b].voucher
    BY <1>2, ReqStep
  <2>. QED
    BY <1>1, <2>1 DEF BuyersOf, BookedOrders
<1>. QED
  BY <1>1, <1>3, <1>4 DEF Sale!saleState

LEMMA StepRefines ==
    ASSUME IInv, [Next]_vars
    PROVE  [Sale!Next]_Sale!saleState
<1>1. ASSUME NEW o \in Orders, LuaAdmit(o)
      PROVE  Sale!Next
  BY <1>1, AdmitRefines DEF Sale!Next, IInv, TypeOK
<1>2. ASSUME NEW w \in Workers, CommitOrder(w) \/ CommitUnknown(w)
      PROVE  Sale!Next
  <2>1. UserOf(w) \in Users /\ VoucherOf(w) \in Vouchers
    BY <1>2, BookingThread DEF IInv, TypeOK, UserOf
  <2>. QED
    BY <1>2, <2>1, CommitRefines DEF Sale!Next
<1>. QED
  BY <1>1, <1>2, StutterRefines, StoreStep

(* The Redis script, the topic and the transaction together are one flash   *)
(* sale: quota and one per user hold at every step of every behaviour.      *)
THEOREM Refinement == Spec => ImplementsSale
<1>1. Init => Sale!Init
  BY InitRefines
<1>2. IInv /\ [Next]_vars => [Sale!Next]_Sale!saleState
  BY StepRefines
<1>. QED
  BY <1>1, <1>2, IInvariant, PTL DEF Spec, ImplementsSale, Sale!Spec
=============================================================================
