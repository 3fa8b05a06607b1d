----------------------------- MODULE ShopCache -----------------------------
(***************************************************************************)
(* One shop in three places: MySQL, the Redis key cache:shop:<id> and one  *)
(* Caffeine cache per application server.  queryByID fills the caches under *)
(* lock:shop:<id>, update deletes them inside its transaction, and a       *)
(* cache-invalidate topic repeats a deletion that failed.                  *)
(*                                                                         *)
(* The row is a version number: 0 is no row (and, in Redis, the empty      *)
(* string cached for it), every committed update adds one.                 *)
(***************************************************************************)
EXTENDS Integers

CONSTANTS
    Requests, Updates, Servers,
    MaxDepth,      \* bound on the recursion of queryWithMutex
    MaxFaults,     \* bound on failed commands, crashes and lost tasks
    NoKey,         \* nothing cached, nothing read
    Free, Orphan   \* lock:shop:<id> is absent / left behind

ASSUME BoundsAssumption == MaxDepth \in Nat /\ MaxFaults \in Nat
ASSUME NullAssumption == /\ NoKey \notin Nat
                         /\ Free \notin Requests /\ Orphan \notin Requests
                         /\ Free # Orphan

VARIABLES
    db,     \* the committed row of tb_shop
    l1,     \* l1[s]: shopCache of server s
    l2,     \* cache:shop:<id>
    lock,   \* lock:shop:<id>; the value in Redis is "1", the holder a ghost
    req,    \* req[r]: a call of queryByID
    upd,    \* upd[u]: a call of update
    tasks,  \* records of topic cache-invalidate still to be consumed
    faults,
    excused \* ghost: a rebuild overlapped the end of an update, a task was lost

vars == <<db, l1, l2, lock, req, upd, tasks, faults, excused>>

RequestStates == {"new", "read", "missed", "locked", "checked", "loaded",
                  "unlock", "returning", "done", "failed"}
UpdateStates == {"new", "updated", "invalidated", "deleted", "done", "failed"}
Request == [pc : RequestStates, at : Servers, val : Nat \cup {NoKey}, depth : Nat]
Update == [pc : UpdateStates, at : Servers]

(* From UPDATE to commit InnoDB keeps the row (or the gap) locked. *)
Open == {"updated", "invalidated", "deleted"}
RowLocked == \E u \in Updates : upd[u].pc \in Open

Init ==
    /\ db \in {0, 1}
    /\ l1 = [s \in Servers |-> NoKey]
    /\ l2 = NoKey
    /\ lock = Free
    /\ req \in [Requests -> [pc : {"new"}, at : Servers, val : {NoKey}, depth : {0}]]
    /\ upd \in [Updates -> [pc : {"new"}, at : Servers]]
    /\ tasks = 0
    /\ faults = 0
    /\ excused = FALSE

Fault == faults < MaxFaults /\ faults' = faults + 1
Goto(r, label) == req' = [req EXCEPT ![r].pc = label]
GotoWith(r, label, v) == req' = [req EXCEPT ![r].pc = label, ![r].val = v]

-----------------------------------------------------------------------------
(* queryByID and queryWithMutex.                                            *)

HitL1(r) ==
    /\ req[r].pc = "new"
    /\ l1[req[r].at] # NoKey
    /\ GotoWith(r, "done", l1[req[r].at])
    /\ UNCHANGED <<db, l1, l2, lock, upd, tasks, faults, excused>>

MissL1(r) ==
    /\ req[r].pc = "new"
    /\ l1[req[r].at] = NoKey
    /\ Goto(r, "read")
    /\ UNCHANGED <<db, l1, l2, lock, upd, tasks, faults, excused>>

(* A shop, or the empty string cached for a shop that does not exist. *)
HitL2(r) ==
    /\ req[r].pc = "read"
    /\ l2 # NoKey
    /\ GotoWith(r, "returning", l2)
    /\ UNCHANGED <<db, l1, l2, lock, upd, tasks, faults, excused>>

MissL2(r) ==
    /\ req[r].pc = "read"
    /\ l2 = NoKey
    /\ Goto(r, "missed")
    /\ UNCHANGED <<db, l1, l2, lock, upd, tasks, faults, excused>>

TryLock(r) ==
    /\ req[r].pc = "missed"
    /\ lock = Free
    /\ lock' = r
    /\ Goto(r, "locked")
    /\ UNCHANGED <<db, l1, l2, upd, tasks, faults, excused>>

(* Sleep, then recurse: the finally block of this frame is still to come. *)
TryLockFails(r) ==
    /\ req[r].pc = "missed"
    /\ lock # Free
    /\ req[r].depth < MaxDepth
    /\ req' = [req EXCEPT ![r].pc = "read", ![r].depth = @ + 1]
    /\ UNCHANGED <<db, l1, l2, lock, upd, tasks, faults, excused>>

(* The second look counts a shop only, not the empty string. *)
CheckHit(r) ==
    /\ req[r].pc = "locked"
    /\ l2 \notin {NoKey, 0}
    /\ GotoWith(r, "unlock", l2)
    /\ UNCHANGED <<db, l1, l2, lock, upd, tasks, faults, excused>>

CheckMiss(r) ==
    /\ req[r].pc = "locked"
    /\ l2 \in {NoKey, 0}
    /\ Goto(r, "checked")
    /\ UNCHANGED <<db, l1, l2, lock, upd, tasks, faults, excused>>

(* Mutant of Load: a dirty read. *)
LoadUncommitted(r) ==
    /\ req[r].pc = "checked"
    /\ GotoWith(r, "loaded", IF db > 0 /\ RowLocked THEN db + 1 ELSE db)
    /\ excused' = (excused \/ \E u \in Updates : upd[u].pc = "deleted")
    /\ UNCHANGED <<db, l1, l2, lock, upd, tasks, faults>>

(* getById: a consistent read of what is committed. *)
Load(r) ==
    /\ req[r].pc = "checked"
    /\ GotoWith(r, "loaded", db)
    /\ excused' = (excused \/ \E u \in Updates : upd[u].pc = "deleted")
    /\ UNCHANGED <<db, l1, l2, lock, upd, tasks, faults>>

Fill(r) ==
    /\ req[r].pc = "loaded"
    /\ l2' = req[r].val
    /\ Goto(r, "unlock")
    /\ UNCHANGED <<db, l1, lock, upd, tasks, faults, excused>>

(* finally { unLock(lockKey) } of the frame that took the lock: DEL, whoever *)
(* holds it.                                                                 *)
Unlock(r) ==
    /\ req[r].pc = "unlock"
    /\ lock' = Free
    /\ Goto(r, "returning")
    /\ UNCHANGED <<db, l1, l2, upd, tasks, faults, excused>>

(* The same finally in each outer frame, which never had the lock. *)
UnwindFrame(r) ==
    /\ req[r].pc = "returning"
    /\ req[r].depth > 0
    /\ lock' = Free
    /\ req' = [req EXCEPT ![r].depth = @ - 1]
    /\ UNCHANGED <<db, l1, l2, upd, tasks, faults, excused>>

(* queryByID: only a shop goes to L1; NoKey is an exception on its way out. *)
Answer(r) ==
    /\ req[r].pc = "returning"
    /\ req[r].depth = 0
    /\ Goto(r, IF req[r].val = NoKey THEN "failed" ELSE "done")
    /\ l1' = IF req[r].val \in {NoKey, 0} THEN l1
             ELSE [l1 EXCEPT ![req[r].at] = req[r].val]
    /\ UNCHANGED <<db, l2, lock, upd, tasks, faults, excused>>

(* Redis or MySQL fails, before or after the command took effect.  The read *)
(* lies outside the try block, the rest under its finally.                  *)
ReadBreaks(r) ==
    /\ req[r].pc = "read"
    /\ Fault
    /\ GotoWith(r, "returning", NoKey)
    /\ UNCHANGED <<db, l1, l2, lock, upd, tasks, excused>>

TryLockBreaks(r) ==
    /\ req[r].pc = "missed"
    /\ Fault
    /\ lock' \in {lock, IF lock = Free THEN Orphan ELSE lock}
    /\ GotoWith(r, "unlock", NoKey)
    /\ UNCHANGED <<db, l1, l2, upd, tasks, excused>>

RebuildBreaks(r) ==
    /\ req[r].pc \in {"locked", "checked", "loaded"}
    /\ Fault
    /\ l2' \in {l2, IF req[r].pc = "loaded" THEN req[r].val ELSE l2}
    /\ GotoWith(r, "unlock", NoKey)
    /\ UNCHANGED <<db, l1, lock, upd, tasks, excused>>

(* The DEL fails: this frame ends with an exception as well. *)
Abandon(r) == lock' \in {Free, IF lock = r THEN Orphan ELSE lock}

UnlockBreaks(r) ==
    /\ req[r].pc = "unlock"
    /\ Fault
    /\ Abandon(r)
    /\ GotoWith(r, "returning", NoKey)
    /\ UNCHANGED <<db, l1, l2, upd, tasks, excused>>

UnwindBreaks(r) ==
    /\ req[r].pc = "returning"
    /\ req[r].depth > 0
    /\ Fault
    /\ Abandon(r)
    /\ req' = [req EXCEPT ![r].depth = @ - 1, ![r].val = NoKey]
    /\ UNCHANGED <<db, l1, l2, upd, tasks, excused>>

-----------------------------------------------------------------------------
(* ShopServiceImpl.update, one transaction, and ShopController.saveShop.    *)

GotoUpd(u, label) == upd' = [upd EXCEPT ![u].pc = label]

UpdateRow(u) ==
    /\ upd[u].pc = "new"
    /\ ~RowLocked
    /\ GotoUpd(u, "updated")
    /\ UNCHANGED <<db, l1, l2, lock, req, tasks, faults, excused>>

InvalidateL1(u) ==
    /\ upd[u].pc = "updated"
    /\ l1' = [l1 EXCEPT ![upd[u].at] = NoKey]
    /\ GotoUpd(u, "invalidated")
    /\ UNCHANGED <<db, l2, lock, req, tasks, faults, excused>>

(* From here to the commit a rebuild may put the old row back. *)
Deleted(u) ==
    /\ upd[u].pc = "invalidated"
    /\ GotoUpd(u, "deleted")
    /\ excused' = (excused \/ \E r \in Requests : req[r].pc = "loaded")

(* Mutant of DeleteL2: another key is deleted. *)
DeleteOtherKey(u) ==
    /\ Deleted(u)
    /\ UNCHANGED <<db, l1, l2, lock, req, tasks, faults>>

DeleteL2(u) ==
    /\ Deleted(u)
    /\ l2' = NoKey
    /\ UNCHANGED <<db, l1, lock, req, tasks, faults>>

DeleteL2Breaks(u) ==
    /\ Deleted(u)
    /\ Fault
    /\ l2' \in {l2, NoKey}
    /\ tasks' = tasks + 1
    /\ UNCHANGED <<db, l1, lock, req>>

(* A row that is not there is not updated; nobody is told. *)
CommitUpdate(u) ==
    /\ upd[u].pc = "deleted"
    /\ db' = IF db = 0 THEN 0 ELSE db + 1
    /\ GotoUpd(u, "done")
    /\ UNCHANGED <<l1, l2, lock, req, tasks, faults, excused>>

(* A statement, the send of the task or the commit fails. *)
Rollback(u) ==
    /\ upd[u].pc \in Open
    /\ Fault
    /\ GotoUpd(u, "failed")
    /\ UNCHANGED <<db, l1, l2, lock, req, tasks, excused>>

(* saveShop inserts the row and leaves the caches alone. *)
SaveShop ==
    /\ db = 0
    /\ ~RowLocked
    /\ db' = 1
    /\ UNCHANGED <<l1, l2, lock, req, upd, tasks, faults, excused>>

-----------------------------------------------------------------------------
(* CacheInvalidateService.onInvalidate: at least once, given up in the end. *)

RunTask ==
    /\ tasks > 0
    /\ tasks' = tasks - 1
    /\ l2' = NoKey
    /\ UNCHANGED <<db, l1, lock, req, upd, faults, excused>>

(* The record is delivered again, or the delete took effect and failed. *)
RunTaskAgain ==
    /\ tasks > 0
    /\ Fault
    /\ l2' = NoKey
    /\ UNCHANGED <<db, l1, lock, req, upd, tasks, excused>>

(* The send fails after update has returned, or every attempt does. *)
TaskLost ==
    /\ tasks > 0
    /\ Fault
    /\ tasks' = tasks - 1
    /\ excused' = TRUE
    /\ UNCHANGED <<db, l1, l2, lock, req, upd>>

-----------------------------------------------------------------------------
(* Time to live, and servers that die.                                      *)

L1Expires(s) ==
    /\ l1[s] # NoKey
    /\ l1' = [l1 EXCEPT ![s] = NoKey]
    /\ UNCHANGED <<db, l2, lock, req, upd, tasks, faults, excused>>

(* Mutant of L2Expires: SET without a time to live. *)
L2Stays == FALSE /\ UNCHANGED vars

L2Expires ==
    /\ l2 # NoKey
    /\ l2' = NoKey
    /\ UNCHANGED <<db, l1, lock, req, upd, tasks, faults, excused>>

(* Mutant of OrphanExpires: SETNX without EX. *)
OrphanStays == FALSE /\ UNCHANGED vars

OrphanExpires ==
    /\ lock = Orphan
    /\ lock' = Free
    /\ UNCHANGED <<db, l1, l2, req, upd, tasks, faults, excused>>

(* The rebuild takes longer than the 10 seconds of the lock. *)
LockExpires ==
    /\ lock \in Requests
    /\ Fault
    /\ lock' = Free
    /\ UNCHANGED <<db, l1, l2, req, upd, tasks, excused>>

Crash(s) ==
    /\ Fault
    /\ l1' = [l1 EXCEPT ![s] = NoKey]
    /\ req' = [r \in Requests |->
                 IF req[r].at = s /\ req[r].pc \notin {"new", "done", "failed"}
                 THEN [req[r] EXCEPT !.pc = "failed", !.val = NoKey] ELSE req[r]]
    /\ upd' = [u \in Updates |->
                 IF upd[u].at = s /\ upd[u].pc \in Open
                 THEN [upd[u] EXCEPT !.pc = "failed"] ELSE upd[u]]
    /\ lock' = IF lock \in Requests /\ req[lock].at = s THEN Orphan ELSE lock
    /\ UNCHANGED <<db, l2, tasks, excused>>

-----------------------------------------------------------------------------
Query(r) ==
    \/ HitL2(r) \/ MissL2(r) \/ TryLock(r) \/ TryLockFails(r)
    \/ CheckHit(r) \/ CheckMiss(r) \/ Load(r) \/ Fill(r)
    \/ Unlock(r) \/ UnwindFrame(r) \/ Answer(r)
Write(u) == InvalidateL1(u) \/ DeleteL2(u) \/ CommitUpdate(u)

Faults ==
    \/ \E r \in Requests : \/ ReadBreaks(r) \/ TryLockBreaks(r) \/ RebuildBreaks(r)
                           \/ UnlockBreaks(r) \/ UnwindBreaks(r)
    \/ \E u \in Updates : DeleteL2Breaks(u) \/ Rollback(u)
    \/ RunTaskAgain \/ TaskLost \/ LockExpires
    \/ \E s \in Servers : Crash(s)

(* Everything answered, nothing cached: the bounded set of calls is used up. *)
Exhausted ==
    /\ \A r \in Requests : req[r].pc \in {"done", "failed"}
    /\ \A u \in Updates : upd[u].pc \in {"done", "failed"}
    /\ UNCHANGED vars

Next ==
    \/ \E r \in Requests : HitL1(r) \/ MissL1(r) \/ Query(r)
    \/ \E u \in Updates : UpdateRow(u) \/ Write(u)
    \/ SaveShop \/ RunTask \/ L2Expires \/ OrphanExpires
    \/ \E s \in Servers : L1Expires(s)
    \/ Faults
    \/ Exhausted

Spec == Init /\ [][Next]_vars

(* Threads, the listener and the clocks go on; nobody owes a request.       *)
Fairness ==
    /\ \A r \in Requests : WF_vars(Query(r))
    /\ \A u \in Updates : WF_vars(Write(u))
    /\ \A s \in Servers : WF_vars(L1Expires(s))
    /\ WF_vars(RunTask) /\ WF_vars(L2Expires) /\ WF_vars(OrphanExpires)

FairSpec == Spec /\ Fairness

-----------------------------------------------------------------------------
(* Properties.                                                              *)

TypeOK ==
    /\ db \in Nat
    /\ l1 \in [Servers -> Nat \cup {NoKey}]
    /\ l2 \in Nat \cup {NoKey}
    /\ lock \in Requests \cup {Free, Orphan}
    /\ req \in [Requests -> Request]
    /\ upd \in [Updates -> Update]
    /\ tasks \in Nat
    /\ faults \in Nat
    /\ excused \in BOOLEAN

Stale(v) == v # NoKey /\ v > 0 /\ v < db

(* No cache and no answer ever shows an update that has not committed, or   *)
(* that was rolled back after the caches were deleted.                      *)
NeverAhead ==
    /\ \A s \in Servers : l1[s] # NoKey => l1[s] <= db
    /\ l2 # NoKey => l2 <= db
    /\ \A r \in Requests : req[r].val # NoKey => req[r].val <= db

(* Redis keeps an outdated shop only for a reason: a rebuild overlapped the *)
(* time from the deletion to the commit of an update, or a compensation     *)
(* task is still to run or was lost.  Deleting early, rollbacks, crashes,   *)
(* lost locks and doubled rebuilds are no further reasons.                  *)
StaleHasCause == Stale(l2) => excused \/ tasks > 0

(* Every request that got past L1 is answered or fails: locks left behind,  *)
(* deletions of other people's locks and retries never hold it for good.    *)
AllAnswered == \A r \in Requests : req[r].pc = "read" ~> req[r].pc \in {"done", "failed"}

(* Once the updates are over, the caches become fresh and stay so: what is  *)
(* outdated in MySQL reads, in Redis and in every server drains away.       *)
Converges ==
    <>[](/\ l2 \in {NoKey, db}
         /\ \A s \in Servers : l1[s] \in {NoKey, db})

(* What the docs say of lock:shop:<id>: one thread rebuilds, the others     *)
(* queue.                                                                   *)
OneRebuilder ==
    \A r1, r2 \in Requests :
        req[r1].pc \in {"checked", "loaded"} /\ req[r2].pc \in {"checked", "loaded"}
            => r1 = r2
=============================================================================
