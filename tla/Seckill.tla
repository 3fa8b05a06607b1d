------------------------------ MODULE Seckill ------------------------------
(***************************************************************************)
(* The flash sale of hm_dianping: a Lua script admits an order in Redis, a *)
(* Kafka topic carries it, and a listener thread books it in MySQL under a *)
(* per-user Redisson lock.  The three stores are never updated atomically, *)
(* so the sale rests on what each step checks and on who retries it.       *)
(*                                                                         *)
(* An order id stands for the HTTP request that drew it: RedisIdWorker     *)
(* hands an id out once (module RedisIdWorker), and the user and voucher   *)
(* of the request are fixed, arbitrarily, in Init.                         *)
(***************************************************************************)
EXTENDS Integers, Sequences, FiniteSets

CONSTANTS
    Users, Vouchers, Orders,
    Partitions,     \* partitions of topic seckill-order (3 in KafkaConfig)
    Workers,        \* listener threads (concurrency = 3)
    Quota,          \* Quota[v]: the stock the merchant publishes v with
    MaxAttempts,    \* deliveries of one record before it is skipped (10)
    MaxFaults,      \* bound on crashes, rebalances, lost and doubled sends
    LeaseLoss,      \* TRUE: a lock may expire under a live holder (long pause)
    Free, Orphan,   \* lock:order:<user> is absent / left by a dead thread
    NoJob

ASSUME OrdersAssumption == IsFiniteSet(Orders)
ASSUME QuotaAssumption == Quota \in [Vouchers -> Nat]
ASSUME AttemptsAssumption == MaxAttempts \in Nat \ {0}
ASSUME FaultsAssumption == MaxFaults \in Nat
ASSUME LeaseAssumption == LeaseLoss \in BOOLEAN
ASSUME NullAssumption == /\ Free \notin Workers /\ Orphan \notin Workers
                         /\ Free # Orphan
                         /\ NoJob \notin [part : Partitions, order : Orders]

VARIABLES
    pub,         \* pub[v]: where addSeckillVoucher(v) stands
    redisStock,  \* seckill:stock:<v>
    redisOrders, \* seckill:order:<v>, the users admitted for v
    req,         \* req[o]: the request that drew id o
    topic,       \* topic[p]: the log of partition p
    committed,   \* committed[p]: consumer offset of group hmdp-seckill
    position,    \* position[p]: offset the owner of p reads next
    attempts,    \* attempts[p]: failed deliveries of the record at position[p]
    owner,       \* owner[p]: the listener thread p is assigned to
    pc, job, result, \* pc[w], job[w], result[w]: listener thread w
    lock,        \* lock[u]: holder of lock:order:<u>
    dbStock,     \* tb_seckill_voucher.stock (0 while there is no row)
    dbOrders,    \* primary keys in tb_voucher_order
    dropped,     \* orders whose record was skipped after MaxAttempts
    faults       \* environment faults so far

saleVars   == <<pub, redisStock, redisOrders>>
kafkaVars  == <<topic, committed, position, attempts, owner>>
workerVars == <<pc, job, result, lock>>
dbVars     == <<dbStock, dbOrders>>
vars == <<saleVars, req, kafkaVars, workerVars, dbVars, dropped, faults>>

Job == [part : Partitions, order : Orders]
PubStates == {"draft", "stocked", "committed", "rolledback"}
ReqStates == {"new", "admitted", "inflight", "published", "lost",
              "soldOut", "repeat", "error"}
WorkerStates == {"idle", "received", "locked", "checked", "deducted",
                 "inserted", "finally", "returned"}

(* The script has charged Redis for these requests. *)
Granted == {"admitted", "inflight", "published", "lost"}
(* Inside the transaction after its UPDATE: InnoDB holds the stock row. *)
HoldsRow == {"deducted", "inserted"}
(* Between a successful tryLock() and unlock(). *)
Critical == {"locked", "checked", "deducted", "inserted", "finally"}

HasStockKey(v) == pub[v] # "draft"
GrantedOrders(v) == {o \in Orders : req[o].voucher = v /\ req[o].pc \in Granted}
BookedOrders(v) == {o \in dbOrders : req[o].voucher = v}
SamePurchase(o1, o2) == req[o1].user = req[o2].user
                        /\ req[o1].voucher = req[o2].voucher
OrderOf(w) == job[w].order
PartOf(w) == job[w].part
UserOf(w) == req[OrderOf(w)].user
VoucherOf(w) == req[OrderOf(w)].voucher
(* Held by a booking, or by the publisher that inserted the row and has not *)
(* committed yet.                                                           *)
RowLocked(v) == \/ pub[v] = "stocked"
                \/ \E w \in Workers : pc[w] \in HoldsRow /\ VoucherOf(w) = v

Init ==
    /\ pub = [v \in Vouchers |-> "draft"]
    /\ redisStock = [v \in Vouchers |-> 0]
    /\ redisOrders = [v \in Vouchers |-> {}]
    /\ req \in [Orders -> [pc : {"new"}, user : Users, voucher : Vouchers]]
    /\ topic = [p \in Partitions |-> <<>>]
    /\ committed = [p \in Partitions |-> 0]
    /\ position = [p \in Partitions |-> 0]
    /\ attempts = [p \in Partitions |-> 0]
    /\ owner \in [Partitions -> Workers]
    /\ pc = [w \in Workers |-> "idle"]
    /\ job = [w \in Workers |-> NoJob]
    /\ result = [w \in Workers |-> "none"]
    /\ lock = [u \in Users |-> Free]
    /\ dbStock = [v \in Vouchers |-> 0]
    /\ dbOrders = {}
    /\ dropped = {}
    /\ faults = 0

-----------------------------------------------------------------------------
(* VoucherServiceImpl.addSeckillVoucher: one transaction that saves both    *)
(* rows and, still open, sets the Redis stock.  The commit comes after.     *)

PublishStock(v) ==
    /\ pub[v] = "draft"
    /\ pub' = [pub EXCEPT ![v] = "stocked"]
    /\ redisStock' = [redisStock EXCEPT ![v] = Quota[v]]
    /\ UNCHANGED <<redisOrders, req, kafkaVars, workerVars, dbVars, dropped, faults>>

PublishCommit(v) ==
    /\ pub[v] = "stocked"
    /\ pub' = [pub EXCEPT ![v] = "committed"]
    /\ dbStock' = [dbStock EXCEPT ![v] = Quota[v]]
    /\ UNCHANGED <<redisStock, redisOrders, req, kafkaVars, workerVars,
                   dbOrders, dropped, faults>>

(* The rows vanish, the Redis key stays. *)
PublishRollback(v) ==
    /\ pub[v] = "stocked"
    /\ faults < MaxFaults
    /\ faults' = faults + 1
    /\ pub' = [pub EXCEPT ![v] = "rolledback"]
    /\ UNCHANGED <<redisStock, redisOrders, req, kafkaVars, workerVars, dbVars, dropped>>

-----------------------------------------------------------------------------
(* VoucherOrderServiceImpl.seckillVoucher and seckill.lua.                  *)

SetReq(o, state) == req' = [req EXCEPT ![o].pc = state]

(* tonumber(nil) <= 0 is a Lua error when the stock key is missing. *)
LuaError(o) ==
    /\ req[o].pc = "new"
    /\ ~HasStockKey(req[o].voucher)
    /\ SetReq(o, "error")
    /\ UNCHANGED <<saleVars, kafkaVars, workerVars, dbVars, dropped, faults>>

LuaSoldOut(o) ==
    /\ req[o].pc = "new"
    /\ HasStockKey(req[o].voucher)
    /\ redisStock[req[o].voucher] <= 0
    /\ SetReq(o, "soldOut")
    /\ UNCHANGED <<saleVars, kafkaVars, workerVars, dbVars, dropped, faults>>

LuaRepeat(o) ==
    /\ req[o].pc = "new"
    /\ HasStockKey(req[o].voucher)
    /\ redisStock[req[o].voucher] > 0
    /\ req[o].user \in redisOrders[req[o].voucher]
    /\ SetReq(o, "repeat")
    /\ UNCHANGED <<saleVars, kafkaVars, workerVars, dbVars, dropped, faults>>

(* Mutants of LuaAdmit: no stock check; no membership check. *)
LuaAdmitUnchecked(o) ==
    LET v == req[o].voucher IN
    /\ req[o].pc = "new"
    /\ HasStockKey(v)
    /\ req[o].user \notin redisOrders[v]
    /\ redisStock' = [redisStock EXCEPT ![v] = @ - 1]
    /\ redisOrders' = [redisOrders EXCEPT ![v] = @ \cup {req[o].user}]
    /\ SetReq(o, "admitted")
    /\ UNCHANGED <<pub, kafkaVars, workerVars, dbVars, dropped, faults>>

LuaAdmitRepeated(o) ==
    LET v == req[o].voucher IN
    /\ req[o].pc = "new"
    /\ HasStockKey(v)
    /\ redisStock[v] > 0
    /\ redisStock' = [redisStock EXCEPT ![v] = @ - 1]
    /\ redisOrders' = [redisOrders EXCEPT ![v] = @ \cup {req[o].user}]
    /\ SetReq(o, "admitted")
    /\ UNCHANGED <<pub, kafkaVars, workerVars, dbVars, dropped, faults>>

LuaAdmit(o) ==
    LET v == req[o].voucher IN
    /\ req[o].pc = "new"
    /\ HasStockKey(v)
    /\ redisStock[v] > 0
    /\ req[o].user \notin redisOrders[v]
    /\ redisStock' = [redisStock EXCEPT ![v] = @ - 1]
    /\ redisOrders' = [redisOrders EXCEPT ![v] = @ \cup {req[o].user}]
    /\ SetReq(o, "admitted")
    /\ UNCHANGED <<pub, kafkaVars, workerVars, dbVars, dropped, faults>>

(* kafkaTemplate.send returns at once and the client is told ok(orderId). *)
SendAsync(o) ==
    /\ req[o].pc = "admitted"
    /\ SetReq(o, "inflight")
    /\ UNCHANGED <<saleVars, kafkaVars, workerVars, dbVars, dropped, faults>>

(* The broker appends the record to the partition its key hashes to. *)
BrokerAppend(o, p) ==
    /\ req[o].pc = "inflight"
    /\ topic' = [topic EXCEPT ![p] = Append(@, o)]
    /\ SetReq(o, "published")
    /\ UNCHANGED <<saleVars, committed, position, attempts, owner, workerVars,
                   dbVars, dropped, faults>>

(* The process dies before the send, or the send fails: the callback logs. *)
SendLost(o) ==
    /\ req[o].pc \in {"admitted", "inflight"}
    /\ faults < MaxFaults
    /\ faults' = faults + 1
    /\ SetReq(o, "lost")
    /\ UNCHANGED <<saleVars, kafkaVars, workerVars, dbVars, dropped>>

(* A producer retry whose first attempt did arrive appends the record again. *)
SendTwice(o, p) ==
    /\ \E i \in DOMAIN topic[p] : topic[p][i] = o
    /\ faults < MaxFaults
    /\ faults' = faults + 1
    /\ topic' = [topic EXCEPT ![p] = Append(@, o)]
    /\ UNCHANGED <<saleVars, req, committed, position, attempts, owner,
                   workerVars, dbVars, dropped>>

-----------------------------------------------------------------------------
(* SeckillOrderConsumer.onMessage, handlerOrder and createVoucherOrder, run *)
(* by listener thread w for the record job[w].                              *)

Goto(w, label) == pc' = [pc EXCEPT ![w] = label]
Finish(w, outcome) == /\ Goto(w, "finally")
                      /\ result' = [result EXCEPT ![w] = outcome]

Deliver(w, p) ==
    /\ pc[w] = "idle"
    /\ owner[p] = w
    /\ position[p] < Len(topic[p])
    /\ job' = [job EXCEPT ![w] = [part |-> p, order |-> topic[p][position[p] + 1]]]
    /\ Goto(w, "received")
    /\ UNCHANGED <<saleVars, req, kafkaVars, result, lock, dbVars, dropped, faults>>

TryLock(w) ==
    /\ pc[w] = "received"
    /\ lock[UserOf(w)] = Free
    /\ lock' = [lock EXCEPT ![UserOf(w)] = w]
    /\ Goto(w, "locked")
    /\ UNCHANGED <<saleVars, req, kafkaVars, job, result, dbVars, dropped, faults>>

(* Mutant of TryLockFails: tryLock() inside the try block, so that finally  *)
(* releases a lock this thread never took.                                  *)
TryLockFailsUnlocks(w) ==
    /\ pc[w] = "received"
    /\ lock[UserOf(w)] # Free
    /\ Goto(w, "returned")
    /\ result' = [result EXCEPT ![w] = "err"]
    /\ lock' = [lock EXCEPT ![UserOf(w)] = Free]
    /\ UNCHANGED <<saleVars, req, kafkaVars, job, dbVars, dropped, faults>>

(* tryLock() does not wait: the listener throws, no unlock is due. *)
TryLockFails(w) ==
    /\ pc[w] = "received"
    /\ lock[UserOf(w)] # Free
    /\ Goto(w, "returned")
    /\ result' = [result EXCEPT ![w] = "err"]
    /\ UNCHANGED <<saleVars, req, kafkaVars, job, lock, dbVars, dropped, faults>>

(* Mutant of AlreadyBooked: neither count nor unique keys. *)
NeverBooked(o) == FALSE

AlreadyBooked(o) == \E b \in dbOrders : SamePurchase(b, o)

(* count > 0: DuplicateKeyException, rolled back. *)
CheckDuplicate(w) ==
    /\ pc[w] = "locked"
    /\ AlreadyBooked(OrderOf(w))
    /\ Finish(w, "dup")
    /\ UNCHANGED <<saleVars, req, kafkaVars, job, lock, dbVars, dropped, faults>>

CheckFresh(w) ==
    /\ pc[w] = "locked"
    /\ ~AlreadyBooked(OrderOf(w))
    /\ Goto(w, "checked")
    /\ UNCHANGED <<saleVars, req, kafkaVars, job, result, lock, dbVars, dropped, faults>>

(* UPDATE ... SET stock = stock - 1 WHERE stock > 0 waits for the row. *)
DeductStock(w) ==
    /\ pc[w] = "checked"
    /\ ~RowLocked(VoucherOf(w))
    /\ dbStock[VoucherOf(w)] > 0
    /\ Goto(w, "deducted")
    /\ UNCHANGED <<saleVars, req, kafkaVars, job, result, lock, dbVars, dropped, faults>>

(* Mutant of DeductNothing: a locked row fails the update instead of        *)
(* delaying it.                                                             *)
DeductNoWait(w) ==
    /\ pc[w] = "checked"
    /\ RowLocked(VoucherOf(w)) \/ dbStock[VoucherOf(w)] <= 0
    /\ Finish(w, "err")
    /\ UNCHANGED <<saleVars, req, kafkaVars, job, lock, dbVars, dropped, faults>>

DeductNothing(w) ==
    /\ pc[w] = "checked"
    /\ ~RowLocked(VoucherOf(w))
    /\ dbStock[VoucherOf(w)] <= 0
    /\ Finish(w, "err")
    /\ UNCHANGED <<saleVars, req, kafkaVars, job, lock, dbVars, dropped, faults>>

(* save(): the primary key and uk_user_voucher decide. *)
InsertOrder(w) ==
    /\ pc[w] = "deducted"
    /\ ~AlreadyBooked(OrderOf(w))
    /\ Goto(w, "inserted")
    /\ UNCHANGED <<saleVars, req, kafkaVars, job, result, lock, dbVars, dropped, faults>>

(* Mutant of InsertConflict: no transaction, the deducted unit stays gone. *)
InsertConflictKeepsStock(w) ==
    /\ pc[w] = "deducted"
    /\ AlreadyBooked(OrderOf(w))
    /\ Finish(w, "dup")
    /\ dbStock' = [dbStock EXCEPT ![VoucherOf(w)] = @ - 1]
    /\ UNCHANGED <<saleVars, req, kafkaVars, job, lock, dbOrders, dropped, faults>>

InsertConflict(w) ==
    /\ pc[w] = "deducted"
    /\ AlreadyBooked(OrderOf(w))
    /\ Finish(w, "dup")
    /\ UNCHANGED <<saleVars, req, kafkaVars, job, lock, dbVars, dropped, faults>>

(* What the commit makes visible. *)
Book(w) == /\ dbStock' = [dbStock EXCEPT ![VoucherOf(w)] = @ - 1]
           /\ dbOrders' = dbOrders \cup {OrderOf(w)}

CommitOrder(w) ==
    /\ pc[w] = "inserted"
    /\ Book(w)
    /\ Finish(w, "ok")
    /\ UNCHANGED <<saleVars, req, kafkaVars, job, lock, dropped, faults>>

(* finally { lock.unlock() }: Redisson refuses a lock that is not held by   *)
(* this thread, and that exception replaces whatever was being thrown.      *)
Unlock(w) ==
    /\ pc[w] = "finally"
    /\ IF lock[UserOf(w)] = w
       THEN /\ lock' = [lock EXCEPT ![UserOf(w)] = Free]
            /\ UNCHANGED result
       ELSE /\ result' = [result EXCEPT ![w] = "err"]
            /\ UNCHANGED lock
    /\ Goto(w, "returned")
    /\ UNCHANGED <<saleVars, req, kafkaVars, job, dbVars, dropped, faults>>

-----------------------------------------------------------------------------
(* What the listener container does with the outcome: a normal return, or a *)
(* duplicate swallowed by onMessage, moves on; an exception is redelivered  *)
(* at once until MaxAttempts, then the record is logged and skipped.        *)

Advance(p) == /\ position' = [position EXCEPT ![p] = @ + 1]
              /\ attempts' = [attempts EXCEPT ![p] = 0]
Rest(w) == /\ Goto(w, "idle")
           /\ job' = [job EXCEPT ![w] = NoJob]
           /\ result' = [result EXCEPT ![w] = "none"]

(* Mutant of Consumed: onMessage swallows every exception. *)
ConsumedAnyway(w) ==
    /\ pc[w] = "returned"
    /\ owner[PartOf(w)] = w
    /\ Advance(PartOf(w))
    /\ Rest(w)
    /\ UNCHANGED <<saleVars, req, topic, committed, owner, lock, dbVars, dropped, faults>>

Consumed(w) ==
    /\ pc[w] = "returned"
    /\ owner[PartOf(w)] = w
    /\ result[w] \in {"ok", "dup"}
    /\ Advance(PartOf(w))
    /\ Rest(w)
    /\ UNCHANGED <<saleVars, req, topic, committed, owner, lock, dbVars, dropped, faults>>

(* Mutant of Redeliver: the attempts are not counted. *)
RedeliverForever(w) ==
    /\ pc[w] = "returned"
    /\ owner[PartOf(w)] = w
    /\ result[w] = "err"
    /\ Rest(w)
    /\ UNCHANGED <<saleVars, req, kafkaVars, lock, dbVars, dropped, faults>>

Redeliver(w) ==
    /\ pc[w] = "returned"
    /\ owner[PartOf(w)] = w
    /\ result[w] = "err"
    /\ attempts[PartOf(w)] + 1 < MaxAttempts
    /\ attempts' = [attempts EXCEPT ![PartOf(w)] = @ + 1]
    /\ Rest(w)
    /\ UNCHANGED <<saleVars, req, topic, committed, position, owner, lock,
                   dbVars, dropped, faults>>

Skip(w) ==
    /\ pc[w] = "returned"
    /\ owner[PartOf(w)] = w
    /\ result[w] = "err"
    /\ attempts[PartOf(w)] + 1 >= MaxAttempts
    /\ Advance(PartOf(w))
    /\ dropped' = dropped \cup {OrderOf(w)}
    /\ Rest(w)
    /\ UNCHANGED <<saleVars, req, topic, committed, owner, lock, dbVars, faults>>

(* The partition was taken away meanwhile: the result is fenced off. *)
Fenced(w) ==
    /\ pc[w] = "returned"
    /\ owner[PartOf(w)] # w
    /\ Rest(w)
    /\ UNCHANGED <<saleVars, req, kafkaVars, lock, dbVars, dropped, faults>>

(* enable-auto-commit: false, batch acknowledgement: between two records    *)
(* the owner commits what it has gone past (a batch may end anywhere).      *)
CommitOffset(w, p) ==
    /\ pc[w] = "idle"
    /\ owner[p] = w
    /\ committed[p] < position[p]
    /\ committed' = [committed EXCEPT ![p] = position[p]]
    /\ UNCHANGED <<saleVars, req, topic, position, attempts, owner, workerVars,
                   dbVars, dropped, faults>>

-----------------------------------------------------------------------------
(* Faults.                                                                  *)

Fault == faults < MaxFaults /\ faults' = faults + 1

(* Redis or MySQL refuses inside the try block: rolled back, rethrown. *)
TxFails(w) ==
    /\ Fault
    /\ pc[w] \in {"locked", "checked", "deducted", "inserted"}
    /\ Finish(w, "err")
    /\ UNCHANGED <<saleVars, req, kafkaVars, job, lock, dbVars, dropped>>

(* The commit succeeds but its acknowledgement is lost. *)
CommitUnknown(w) ==
    /\ Fault
    /\ pc[w] = "inserted"
    /\ Book(w)
    /\ Finish(w, "err")
    /\ UNCHANGED <<saleVars, req, kafkaVars, job, lock, dropped>>

(* w dies and restarts: its transaction rolls back, its locks stay behind,  *)
(* its partitions are read again from the committed offset.                 *)
Crash(w) ==
    /\ Fault
    /\ Rest(w)
    /\ lock' = [u \in Users |-> IF lock[u] = w THEN Orphan ELSE lock[u]]
    /\ position' = [p \in Partitions |->
                       IF owner[p] = w THEN committed[p] ELSE position[p]]
    /\ attempts' = [p \in Partitions |-> IF owner[p] = w THEN 0 ELSE attempts[p]]
    /\ UNCHANGED <<saleVars, req, topic, committed, owner, dbVars, dropped>>

(* p moves to another thread; the old owner may still be at work on p.      *)
Rebalance(p, w) ==
    /\ Fault
    /\ owner[p] # w
    /\ pc[w] # "idle" => PartOf(w) # p
    /\ owner' = [owner EXCEPT ![p] = w]
    /\ position' = [position EXCEPT ![p] = committed[p]]
    /\ attempts' = [attempts EXCEPT ![p] = 0]
    /\ UNCHANGED <<saleVars, req, topic, committed, workerVars, dbVars, dropped>>

(* The lease of a lock nobody renews runs out. *)
LeaseExpires(u) ==
    /\ lock[u] = Orphan
    /\ lock' = [lock EXCEPT ![u] = Free]
    /\ UNCHANGED <<saleVars, req, kafkaVars, pc, job, result, dbVars, dropped, faults>>

(* The watchdog of a live holder is late, or Redis loses the key. *)
LeaseLost(u) ==
    /\ LeaseLoss
    /\ Fault
    /\ lock[u] \in Workers
    /\ lock' = [lock EXCEPT ![u] = Free]
    /\ UNCHANGED <<saleVars, req, kafkaVars, pc, job, result, dbVars, dropped>>

-----------------------------------------------------------------------------
Publish(v) == PublishStock(v) \/ PublishCommit(v)
Script(o) == LuaError(o) \/ LuaSoldOut(o) \/ LuaRepeat(o) \/ LuaAdmit(o)
Send(o) == SendAsync(o) \/ \E p \in Partitions : BrokerAppend(o, p)
Handle(w) ==
    \/ TryLock(w) \/ TryLockFails(w)
    \/ CheckDuplicate(w) \/ CheckFresh(w)
    \/ DeductStock(w) \/ DeductNothing(w)
    \/ InsertOrder(w) \/ InsertConflict(w) \/ CommitOrder(w)
    \/ Unlock(w)
    \/ Consumed(w) \/ Redeliver(w) \/ Skip(w) \/ Fenced(w)
Poll(w) == \E p \in Partitions : Deliver(w, p) \/ CommitOffset(w, p)

Faults ==
    \/ \E v \in Vouchers : PublishRollback(v)
    \/ \E o \in Orders : SendLost(o) \/ \E p \in Partitions : SendTwice(o, p)
    \/ \E w \in Workers : \/ TxFails(w) \/ CommitUnknown(w) \/ Crash(w)
                          \/ \E p \in Partitions : Rebalance(p, w)
    \/ \E u \in Users : LeaseLost(u)

(* Every request answered, every record read, nothing held: the bounded set *)
(* of orders has run out.                                                   *)
Drained ==
    /\ \A v \in Vouchers : pub[v] \in {"committed", "rolledback"}
    /\ \A o \in Orders : req[o].pc \notin {"new", "admitted", "inflight"}
    /\ \A p \in Partitions : committed[p] = Len(topic[p])
    /\ \A w \in Workers : pc[w] = "idle"
    /\ \A u \in Users : lock[u] = Free

Next ==
    \/ \E v \in Vouchers : Publish(v)
    \/ \E o \in Orders : Script(o) \/ Send(o)
    \/ \E w \in Workers : Handle(w) \/ Poll(w)
    \/ \E u \in Users : LeaseExpires(u)
    \/ Faults
    \/ Drained /\ UNCHANGED vars

Spec == Init /\ [][Next]_vars

(* Threads, the producer and Redis keep going; no fault is ever owed. *)
Fairness ==
    /\ \A v \in Vouchers : WF_vars(Publish(v))
    /\ \A o \in Orders : WF_vars(Script(o)) /\ WF_vars(Send(o))
    /\ \A w \in Workers : /\ WF_vars(Handle(w))
                          /\ \A p \in Partitions : /\ WF_vars(Deliver(w, p))
                                                   /\ WF_vars(CommitOffset(w, p))
    /\ \A u \in Users : WF_vars(LeaseExpires(u))

FairSpec == Spec /\ Fairness

-----------------------------------------------------------------------------
(* Properties.                                                              *)

TypeOK ==
    /\ pub \in [Vouchers -> PubStates]
    /\ redisStock \in [Vouchers -> Nat]
    /\ redisOrders \in [Vouchers -> SUBSET Users]
    /\ req \in [Orders -> [pc : ReqStates, user : Users, voucher : Vouchers]]
    /\ topic \in [Partitions -> Seq(Orders)]
    /\ committed \in [Partitions -> Nat]
    /\ position \in [Partitions -> Nat]
    /\ attempts \in [Partitions -> Nat]
    /\ owner \in [Partitions -> Workers]
    /\ pc \in [Workers -> WorkerStates]
    /\ job \in [Workers -> Job \cup {NoJob}]
    /\ result \in [Workers -> {"none", "ok", "dup", "err"}]
    /\ lock \in [Users -> Workers \cup {Free, Orphan}]
    /\ dbStock \in [Vouchers -> Nat]
    /\ dbOrders \in SUBSET Orders
    /\ dropped \in SUBSET Orders
    /\ faults \in Nat

(* Every unit that left the MySQL stock of a published voucher is one order *)
(* row, and the other way round: createVoucherOrder never oversells, and no *)
(* crash, lost commit or doubled record makes stock and orders disagree.    *)
StockMatchesOrders ==
    \A v \in Vouchers : pub[v] = "committed" =>
        dbStock[v] + Cardinality(BookedOrders(v)) = Quota[v]

(* One grant per user and voucher among all requests, and only granted      *)
(* orders are booked: with it, swallowing a duplicate key in onMessage can  *)
(* only ever hide a second delivery of the very same order.                 *)
OneGrantPerPurchase ==
    /\ \A o \in dbOrders : req[o].pc \in Granted
    /\ \A o1, o2 \in Orders :
          req[o1].pc \in Granted /\ req[o2].pc \in Granted /\ SamePurchase(o1, o2)
              => o1 = o2

(* The reconciliation the docs describe, with its gap spelled out: what     *)
(* MySQL has left over Redis is exactly the granted orders not yet, or      *)
(* never, booked.  The sale can undersell and never oversell.               *)
GapIsPending ==
    \A v \in Vouchers : pub[v] = "committed" =>
        dbStock[v] - redisStock[v] = Cardinality(GrantedOrders(v) \ dbOrders)

(* The offset of a record is only committed once the record is booked or    *)
(* was given up after MaxAttempts: swallowing a duplicate key in onMessage  *)
(* never passes over an order that is not in the table.                     *)
NothingPassedOver ==
    \A p \in Partitions : \A i \in 1..committed[p] :
        topic[p][i] \in dbOrders \cup dropped

(* As long as leases are renewed, two listener threads are never inside     *)
(* handlerOrder for one user, zombies of a rebalance included.              *)
UserIsSerialised ==
    ~LeaseLoss => \A w1, w2 \in Workers :
        pc[w1] \in Critical /\ pc[w2] \in Critical /\ UserOf(w1) = UserOf(w2)
            => w1 = w2

(* A record is only given up for a reason outside its own order: a fault of *)
(* the environment, or another granted order of the same user contending    *)
(* for lock:order:<user>.                                                   *)
DropNeedsCause ==
    \A o \in dropped :
        \/ faults > 0
        \/ \E o2 \in Orders : /\ o2 # o
                              /\ req[o2].user = req[o].user
                              /\ req[o2].pc \in Granted

(* What application-docker.yml says of the offset: committed only after the *)
(* record was processed successfully, so no message is lost.                *)
OffsetOnlyAfterSuccess ==
    \A p \in Partitions : \A i \in 1..committed[p] : topic[p][i] \in dbOrders

(* Every order the script granted is booked, given up by Skip, or lost      *)
(* before the broker had it; nothing is retried for ever or waits for ever. *)
GrantedIsSettled ==
    \A o \in Orders : req[o].pc = "admitted" ~>
        o \in dbOrders \cup dropped \/ req[o].pc = "lost"
=============================================================================
