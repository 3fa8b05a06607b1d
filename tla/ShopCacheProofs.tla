--------------------------- MODULE ShopCacheProofs --------------------------
(***************************************************************************)
(* What the shop caches may hold, for every number of requests, updates,   *)
(* servers, retries and faults.                                            *)
(***************************************************************************)
EXTENDS ShopCacheRefinement, LogicalExpire, TLAPS

(* What a rebuild carries is the row as it is, or nothing, unless the       *)
(* rebuild overlapped the end of an update.                                 *)
LoadedInv ==
    \A r \in Requests : req[r].pc = "loaded" =>
        /\ req[r].val \in Nat
        /\ excused \/ req[r].val \in {0, db}

(* Between deletion and commit nothing but the null entry comes back into   *)
(* Redis, unless a rebuild is about or the deletion still has to be made up. *)
ClosingInv ==
    \A u \in Updates : upd[u].pc = "deleted" /\ ~excused =>
        /\ \A r \in Requests : req[r].pc # "loaded"
        /\ tasks > 0 \/ l2 \in {NoKey, 0}

IInv == TypeOK /\ NeverAhead /\ StaleHasCause /\ LoadedInv /\ ClosingInv

USE NullAssumption DEF Stale, Fault, Goto, GotoWith, GotoUpd, Request, Update,
    RequestStates, UpdateStates, Open, RowLocked

-----------------------------------------------------------------------------
LEMMA InitInv == Init => IInv
  <1> SUFFICES ASSUME Init PROVE IInv
    OBVIOUS
  <1> USE DEF Init
  <1>1. /\ req \in [Requests -> Request] /\ upd \in [Updates -> Update]
        /\ \A r \in Requests : req[r].pc = "new" /\ req[r].val = NoKey
        /\ \A u \in Updates : upd[u].pc = "new"
    OBVIOUS
  <1>2. TypeOK
    <2>1. l1 \in [Servers -> Nat \cup {NoKey}]
      OBVIOUS
    <2>2. db \in Nat /\ l2 = NoKey /\ lock = Free /\ tasks = 0 /\ faults = 0 /\ excused = FALSE
      OBVIOUS
    <2> HIDE DEF Init
    <2> QED BY <1>1, <2>1, <2>2 DEF TypeOK
  <1>3. NeverAhead /\ StaleHasCause
    BY <1>1 DEF NeverAhead, StaleHasCause
  <1>4. LoadedInv /\ ClosingInv
    BY <1>1 DEF LoadedInv, ClosingInv
  <1> QED BY <1>2, <1>3, <1>4 DEF IInv

(* Most steps move one request, keep the row and the tasks, and leave in L1 *)
(* and in the request only what some place held before.                     *)
Quiet(r) ==
    /\ req' \in [Requests -> Request]
    /\ \A q \in Requests : q # r => req'[q] = req[q]
    /\ req'[r].pc # "loaded"
    /\ req'[r].val \in {NoKey, req[r].val, l2, l1[req[r].at]}
    /\ lock' \in Requests \cup {Free, Orphan}
    /\ faults' \in Nat
    /\ \/ l1' = l1
       \/ req[r].val \in Nat /\ l1' = [l1 EXCEPT ![req[r].at] = req[r].val]
    /\ UNCHANGED <<db, l2, upd, tasks, excused>>

LEMMA QuietInv == ASSUME IInv, NEW r \in Requests, Quiet(r) PROVE IInv'
  <1> USE DEF IInv, Quiet
  <1>1. req[r].at \in Servers /\ req[r].val \in Nat \cup {NoKey}
    BY DEF TypeOK
  <1>3. TypeOK'
    BY <1>1 DEF TypeOK
  <1>4. NeverAhead'
    BY <1>1 DEF TypeOK, NeverAhead
  <1>5. StaleHasCause'
    BY DEF StaleHasCause
  <1>6. LoadedInv'
    BY DEF LoadedInv
  <1>7. ClosingInv'
    BY DEF ClosingInv
  <1> QED BY <1>3, <1>4, <1>5, <1>6, <1>7

(* One field of a call changes, the others do not. *)
LEMMA SetPc ==
    ASSUME NEW q \in Request, NEW label \in RequestStates
    PROVE  LET n == [q EXCEPT !.pc = label] IN
           n \in Request /\ n.pc = label /\ n.val = q.val /\ n.depth = q.depth
  OBVIOUS

LEMMA SetVal ==
    ASSUME NEW q \in Request, NEW v \in Nat \cup {NoKey}
    PROVE  LET n == [q EXCEPT !.val = v] IN
           n \in Request /\ n.val = v /\ n.pc = q.pc /\ n.depth = q.depth
  OBVIOUS

LEMMA SetDepth ==
    ASSUME NEW q \in Request, NEW d \in Nat
    PROVE  LET n == [q EXCEPT !.depth = d] IN
           n \in Request /\ n.depth = d /\ n.pc = q.pc /\ n.val = q.val
  OBVIOUS

(* What the two ways of moving a request do to it. *)
LEMMA MovedWith ==
    ASSUME TypeOK, NEW r \in Requests, NEW label \in RequestStates,
           NEW v \in Nat \cup {NoKey}, GotoWith(r, label, v)
    PROVE  /\ req' \in [Requests -> Request]
           /\ \A q \in Requests : q # r => req'[q] = req[q]
           /\ req'[r].pc = label /\ req'[r].val = v
  <1>1. req'[r] = [req[r] EXCEPT !.pc = label, !.val = v]
    BY DEF TypeOK
  <1>2. req[r] \in Request
    BY DEF TypeOK
  <1>3. req'[r] \in Request /\ req'[r].pc = label /\ req'[r].val = v
    <2> DEFINE n == [req[r] EXCEPT !.pc = label]
    <2>1. n \in Request /\ n.pc = label
      BY <1>2, SetPc
    <2>2. req'[r] = [n EXCEPT !.val = v]
      BY <1>1
    <2> HIDE DEF n, Request
    <2>3. [n EXCEPT !.val = v] \in Request /\ [n EXCEPT !.val = v].pc = n.pc
          /\ [n EXCEPT !.val = v].val = v
      BY <2>1, SetVal, Zenon
    <2> QED BY <2>1, <2>2, <2>3
  <1> QED BY <1>3 DEF TypeOK

LEMMA Moved ==
    ASSUME TypeOK, NEW r \in Requests, NEW label \in RequestStates, Goto(r, label)
    PROVE  /\ req' \in [Requests -> Request]
           /\ \A q \in Requests : q # r => req'[q] = req[q]
           /\ req'[r].pc = label /\ req'[r].val = req[r].val
  <1>1. req'[r] = [req[r] EXCEPT !.pc = label]
    BY DEF TypeOK
  <1>2. req[r] \in Request
    BY DEF TypeOK
  <1>3. req'[r] \in Request /\ req'[r].pc = label /\ req'[r].val = req[r].val
    BY <1>1, <1>2
  <1> QED BY <1>3 DEF TypeOK

LEMMA Faulty == ASSUME TypeOK, faults' = faults + 1 PROVE faults' \in Nat
  BY DEF TypeOK

LEMMA QuietSteps ==
    ASSUME IInv, NEW r \in Requests,
           \/ HitL1(r) \/ MissL1(r) \/ HitL2(r) \/ MissL2(r) \/ TryLock(r)
           \/ TryLockFails(r) \/ CheckHit(r) \/ CheckMiss(r) \/ Unlock(r)
           \/ UnwindFrame(r) \/ Answer(r) \/ ReadBreaks(r) \/ TryLockBreaks(r)
           \/ UnlockBreaks(r) \/ UnwindBreaks(r)
    PROVE  IInv'
  <1> HIDE DEF Goto, GotoWith
  <1>0. /\ TypeOK
        /\ req[r] \in Request
        /\ l1 \in [Servers -> Nat \cup {NoKey}]
        /\ l2 \in Nat \cup {NoKey}
        /\ lock \in Requests \cup {Free, Orphan}
        /\ faults \in Nat
    BY DEF IInv, TypeOK
  <1>1. CASE HitL1(r)
    <2>1. Quiet(r)
      BY <1>1, <1>0, MovedWith DEF Quiet, HitL1
    <2> QED BY <2>1, QuietInv
  <1>2. CASE MissL1(r)
    <2>1. Quiet(r)
      BY <1>2, <1>0, Moved DEF Quiet, MissL1
    <2> QED BY <2>1, QuietInv
  <1>3. CASE HitL2(r)
    <2>1. Quiet(r)
      BY <1>3, <1>0, MovedWith DEF Quiet, HitL2
    <2> QED BY <2>1, QuietInv
  <1>4. CASE MissL2(r)
    <2>1. Quiet(r)
      BY <1>4, <1>0, Moved DEF Quiet, MissL2
    <2> QED BY <2>1, QuietInv
  <1>5. CASE TryLock(r)
    <2>1. Quiet(r)
      BY <1>5, <1>0, Moved DEF Quiet, TryLock
    <2> QED BY <2>1, QuietInv
  <1>6. CASE CheckHit(r)
    <2>1. Quiet(r)
      BY <1>6, <1>0, MovedWith DEF Quiet, CheckHit
    <2> QED BY <2>1, QuietInv
  <1>7. CASE CheckMiss(r)
    <2>1. Quiet(r)
      BY <1>7, <1>0, Moved DEF Quiet, CheckMiss
    <2> QED BY <2>1, QuietInv
  <1>8. CASE Unlock(r)
    <2>1. Quiet(r)
      BY <1>8, <1>0, Moved DEF Quiet, Unlock
    <2> QED BY <2>1, QuietInv
  <1>9. CASE Answer(r)
    <2>1. Quiet(r)
      BY <1>9, <1>0, Moved DEF Quiet, Answer
    <2> QED BY <2>1, QuietInv
  <1>10. CASE ReadBreaks(r)
    <2>1. Quiet(r)
      BY <1>10, <1>0, MovedWith, Faulty DEF Quiet, ReadBreaks
    <2> QED BY <2>1, QuietInv
  <1>11. CASE TryLockBreaks(r)
    <2>1. Quiet(r)
      BY <1>11, <1>0, MovedWith, Faulty DEF Quiet, TryLockBreaks
    <2> QED BY <2>1, QuietInv
  <1>12. CASE UnlockBreaks(r)
    <2>1. Quiet(r)
      BY <1>12, <1>0, MovedWith, Faulty DEF Quiet, UnlockBreaks, Abandon
    <2> QED BY <2>1, QuietInv
  <1>13. CASE TryLockFails(r)
    <2>1. req'[r] = [req[r] EXCEPT !.pc = "read", !.depth = @ + 1]
      BY <1>13 DEF TryLockFails, IInv, TypeOK
    <2>2. /\ req'[r] \in Request
          /\ req'[r].pc = "read" /\ req'[r].val = req[r].val
      <3> DEFINE n == [req[r] EXCEPT !.pc = "read"]
      <3>1. n \in Request /\ n.pc = "read" /\ n.val = req[r].val /\ n.depth \in Nat
        BY <1>0, SetPc
      <3>2. req'[r] = [n EXCEPT !.depth = n.depth + 1]
        BY <1>0, <2>1
      <3> HIDE DEF n, Request
      <3> QED BY <3>1, <3>2, SetDepth
    <2>3. req' \in [Requests -> Request] /\ \A q \in Requests : q # r => req'[q] = req[q]
      BY <1>13, <2>2 DEF TryLockFails, IInv, TypeOK
    <2>4. Quiet(r)
      BY <1>13, <1>0, <2>2, <2>3 DEF Quiet, TryLockFails
    <2> QED BY <2>4, QuietInv
  <1>14. CASE UnwindFrame(r)
    <2>1. req'[r] = [req[r] EXCEPT !.depth = @ - 1] /\ req[r].pc = "returning"
      BY <1>14 DEF UnwindFrame, IInv, TypeOK
    <2>2. req'[r] \in Request /\ req'[r].pc = "returning" /\ req'[r].val = req[r].val
      BY <1>14, <1>0, <2>1 DEF UnwindFrame
    <2>3. req' \in [Requests -> Request] /\ \A q \in Requests : q # r => req'[q] = req[q]
      BY <1>14, <2>2 DEF UnwindFrame, IInv, TypeOK
    <2>4. Quiet(r)
      BY <1>14, <1>0, <2>2, <2>3 DEF Quiet, UnwindFrame
    <2> QED BY <2>4, QuietInv
  <1>15. CASE UnwindBreaks(r)
    <2>1. req'[r] = [req[r] EXCEPT !.depth = @ - 1, !.val = NoKey] /\ req[r].pc = "returning"
      BY <1>15 DEF UnwindBreaks, IInv, TypeOK
    <2>2. req'[r] \in Request /\ req'[r].pc = "returning" /\ req'[r].val = NoKey
      <3> DEFINE n == [req[r] EXCEPT !.depth = req[r].depth - 1]
      <3>1. req[r].depth - 1 \in Nat
        BY <1>15, <1>0 DEF UnwindBreaks
      <3>2. n \in Request /\ n.pc = "returning"
        BY <1>0, <2>1, <3>1, SetDepth
      <3>3. req'[r] = [n EXCEPT !.val = NoKey]
        BY <2>1
      <3> HIDE DEF n, Request
      <3> QED BY <3>2, <3>3, SetVal
    <2>3. req' \in [Requests -> Request] /\ \A q \in Requests : q # r => req'[q] = req[q]
      BY <1>15, <2>2 DEF UnwindBreaks, IInv, TypeOK
    <2>4. Quiet(r)
      BY <1>15, <1>0, <2>2, <2>3, Faulty DEF Quiet, UnwindBreaks, Abandon
    <2> QED BY <2>4, QuietInv
  <1> QED BY <1>1, <1>2, <1>3, <1>4, <1>5, <1>6, <1>7, <1>8, <1>9, <1>10, <1>11,
             <1>12, <1>13, <1>14, <1>15

LEMMA LoadInv == ASSUME IInv, NEW r \in Requests, Load(r) PROVE IInv'
  <1> USE DEF IInv, Load
  <1>1. /\ req' \in [Requests -> Request]
        /\ req'[r].pc = "loaded" /\ req'[r].val = db
        /\ \A q \in Requests : q # r => req'[q] = req[q]
    <2>1. TypeOK /\ db \in Nat /\ GotoWith(r, "loaded", db)
      BY DEF TypeOK
    <2> HIDE DEF GotoWith
    <2> QED BY <2>1, MovedWith
  <1>2. TypeOK'
    BY <1>1 DEF TypeOK
  <1>3. NeverAhead' /\ StaleHasCause'
    BY <1>1 DEF TypeOK, NeverAhead, StaleHasCause
  <1>4. LoadedInv'
    BY <1>1 DEF TypeOK, LoadedInv
  <1>5. ClosingInv'
    BY <1>1 DEF ClosingInv
  <1> QED BY <1>2, <1>3, <1>4, <1>5

(* A fill, or a rebuild that breaks off, writes what was loaded. *)
LEMMA FillInv ==
    ASSUME IInv, NEW r \in Requests, Fill(r) \/ RebuildBreaks(r) PROVE IInv'
  <1> USE DEF IInv, Fill, RebuildBreaks
  <1>1. /\ req' \in [Requests -> Request]
        /\ req'[r].pc = "unlock" /\ req'[r].val \in {req[r].val, NoKey}
        /\ \A q \in Requests : q # r => req'[q] = req[q]
        /\ faults' \in Nat
        /\ UNCHANGED <<db, l1, lock, upd, tasks, excused>>
    <2> HIDE DEF Goto, GotoWith
    <2>1. TypeOK /\ faults \in Nat
      BY DEF TypeOK
    <2>2. CASE Fill(r)
      BY <2>1, <2>2, Moved
    <2>3. CASE RebuildBreaks(r)
      BY <2>1, <2>3, MovedWith, Faulty
    <2> QED BY <2>2, <2>3
  <1>2. l2' = l2 \/ (req[r].pc = "loaded" /\ l2' = req[r].val /\ req[r].val \in Nat)
    BY DEF LoadedInv
  <1>3. TypeOK'
    BY <1>1, <1>2 DEF TypeOK
  <1>4. NeverAhead'
    BY <1>1, <1>2 DEF TypeOK, NeverAhead
  <1>5. StaleHasCause'
    BY <1>1, <1>2 DEF TypeOK, StaleHasCause, LoadedInv
  <1>6. LoadedInv'
    BY <1>1 DEF LoadedInv
  <1>7. ClosingInv'
    BY <1>1, <1>2 DEF ClosingInv
  <1> QED BY <1>3, <1>4, <1>5, <1>6, <1>7

(* Steps of an update before its deletion, and its failure. *)
LEMMA UpdateInv ==
    ASSUME IInv, NEW u \in Updates, UpdateRow(u) \/ InvalidateL1(u) \/ Rollback(u)
    PROVE  IInv'
  <1> USE DEF IInv, UpdateRow, InvalidateL1, Rollback
  <1>1. /\ upd' \in [Updates -> Update]
        /\ upd'[u].pc # "deleted"
        /\ \A w \in Updates : w # u => upd'[w] = upd[w]
        /\ l1' \in {l1, [l1 EXCEPT ![upd[u].at] = NoKey]}
        /\ faults' \in Nat
        /\ UNCHANGED <<db, l2, lock, req, tasks, excused>>
    BY DEF TypeOK
  <1>2. TypeOK'
    BY <1>1 DEF TypeOK
  <1>3. NeverAhead' /\ StaleHasCause' /\ LoadedInv'
    BY <1>1 DEF TypeOK, NeverAhead, StaleHasCause, LoadedInv
  <1>4. ClosingInv'
    BY <1>1 DEF ClosingInv
  <1> QED BY <1>2, <1>3, <1>4

LEMMA DeleteInv ==
    ASSUME IInv, NEW u \in Updates, DeleteL2(u) \/ DeleteL2Breaks(u) PROVE IInv'
  <1> USE DEF IInv, Deleted, DeleteL2, DeleteL2Breaks
  <1>1. /\ upd' \in [Updates -> Update]
        /\ \A w \in Updates : w # u => upd'[w] = upd[w]
        /\ l2' \in {l2, NoKey}
        /\ tasks' \in Nat /\ tasks' >= tasks
        /\ l2' = NoKey \/ tasks' > 0
        /\ excused' = (excused \/ \E r \in Requests : req[r].pc = "loaded")
        /\ faults' \in Nat
        /\ UNCHANGED <<db, l1, lock, req>>
    BY DEF TypeOK
  <1>2. TypeOK'
    BY <1>1 DEF TypeOK
  <1>3. NeverAhead' /\ StaleHasCause' /\ LoadedInv'
    BY <1>1 DEF TypeOK, NeverAhead, StaleHasCause, LoadedInv
  <1>4. ClosingInv'
    BY <1>1 DEF TypeOK, ClosingInv
  <1> QED BY <1>2, <1>3, <1>4

(* The commit is where an old row becomes an outdated one. *)
LEMMA CommitInv == ASSUME IInv, NEW u \in Updates, CommitUpdate(u) PROVE IInv'
  <1> USE DEF IInv, CommitUpdate
  <1>1. /\ upd' \in [Updates -> Update]
        /\ \A w \in Updates : upd'[w].pc = "deleted" => upd[w].pc = "deleted"
        /\ db' \in Nat /\ db' >= db
        /\ UNCHANGED <<l1, l2, lock, req, tasks, faults, excused>>
    BY DEF TypeOK
  <1>2. ~excused => /\ \A r \in Requests : req[r].pc # "loaded"
                    /\ tasks > 0 \/ l2 \in {NoKey, 0}
    BY DEF ClosingInv
  <1>3. TypeOK'
    BY <1>1 DEF TypeOK
  <1>4. NeverAhead'
    BY <1>1 DEF TypeOK, NeverAhead
  <1>5. StaleHasCause' /\ LoadedInv'
    BY <1>1, <1>2 DEF TypeOK, StaleHasCause, LoadedInv
  <1>6. ClosingInv'
    BY <1>1 DEF ClosingInv
  <1> QED BY <1>3, <1>4, <1>5, <1>6

LEMMA SaveInv == ASSUME IInv, SaveShop PROVE IInv'
  <1> USE DEF IInv, SaveShop
  <1>1. TypeOK'
    BY DEF TypeOK
  <1>2. NeverAhead'
    BY DEF TypeOK, NeverAhead
  <1>3. StaleHasCause'
    BY DEF TypeOK, NeverAhead, StaleHasCause
  <1>4. LoadedInv' /\ ClosingInv'
    BY DEF LoadedInv, ClosingInv
  <1> QED BY <1>1, <1>2, <1>3, <1>4

(* The topic, the times to live and the lock only ever take things away. *)
LEMMA RemovalInv ==
    ASSUME IInv,
           \/ RunTask \/ RunTaskAgain \/ TaskLost \/ L2Expires \/ OrphanExpires
           \/ LockExpires \/ \E s \in Servers : L1Expires(s)
    PROVE  IInv'
  <1> USE DEF IInv
  <1>1. /\ l2' \in {l2, NoKey}
        /\ lock' \in {lock, Free}
        /\ l1' \in [Servers -> Nat \cup {NoKey}]
        /\ \A s \in Servers : l1'[s] \in {l1[s], NoKey}
        /\ tasks' \in Nat /\ faults' \in Nat
        /\ \/ excused' = excused /\ (tasks' = tasks \/ l2' = NoKey)
           \/ excused' = TRUE
        /\ UNCHANGED <<db, req, upd>>
    <2>1. CASE RunTask \/ RunTaskAgain
      BY <2>1 DEF TypeOK, RunTask, RunTaskAgain
    <2>2. CASE TaskLost
      BY <2>2 DEF TypeOK, TaskLost
    <2>3. CASE L2Expires \/ OrphanExpires
      BY <2>3 DEF TypeOK, L2Expires, OrphanExpires
    <2>4. CASE LockExpires
      BY <2>4 DEF TypeOK, LockExpires
    <2>5. CASE \E s \in Servers : L1Expires(s)
      BY <2>5 DEF TypeOK, L1Expires
    <2> QED BY <2>1, <2>2, <2>3, <2>4, <2>5
  <1>2. TypeOK'
    BY <1>1 DEF TypeOK
  <1>3. NeverAhead' /\ StaleHasCause'
    BY <1>1 DEF TypeOK, NeverAhead, StaleHasCause
  <1>4. LoadedInv' /\ ClosingInv'
    BY <1>1 DEF TypeOK, LoadedInv, ClosingInv
  <1> QED BY <1>2, <1>3, <1>4

LEMMA CrashInv == ASSUME IInv, NEW s \in Servers, Crash(s) PROVE IInv'
  <1>1. \A r \in Requests :
           \/ req'[r] = req[r]
           \/ req'[r] = [req[r] EXCEPT !.pc = "failed", !.val = NoKey]
    BY DEF Crash
  <1>2. \A u \in Updates : upd'[u] = upd[u] \/ upd'[u] = [upd[u] EXCEPT !.pc = "failed"]
    BY DEF Crash
  <1>3. /\ DOMAIN req' = Requests /\ req' = [r \in Requests |-> req'[r]]
        /\ DOMAIN upd' = Updates /\ upd' = [u \in Updates |-> upd'[u]]
    BY DEF Crash
  <1>4. /\ \A r \in Requests : req[r] \in Request
        /\ \A u \in Updates : upd[u] \in Update
    BY DEF IInv, TypeOK
  <1>5. \A r \in Requests : /\ req'[r] \in Request
                            /\ req'[r].pc = "loaded" => req'[r] = req[r]
                            /\ req'[r].val \in {req[r].val, NoKey}
    <2> TAKE r \in Requests
    <2>1. CASE req'[r] = req[r]
      BY <2>1, <1>4
    <2>2. CASE req'[r] = [req[r] EXCEPT !.pc = "failed", !.val = NoKey]
      <3>1. req[r] \in Request
        BY <1>4
      <3> DEFINE n == [req[r] EXCEPT !.pc = "failed"]
      <3>2. n \in Request /\ n.pc = "failed"
        BY <3>1, SetPc
      <3>3. req'[r] = [n EXCEPT !.val = NoKey]
        BY <2>2
      <3>4. req'[r] \in Request /\ req'[r].pc = "failed" /\ req'[r].val = NoKey
        <4> HIDE DEF n, Request
        <4> QED BY <3>2, <3>3, SetVal
      <3> QED BY <3>4
    <2> QED BY <2>1, <2>2, <1>1
  <1>6. \A u \in Updates : /\ upd'[u] \in Update
                           /\ upd'[u].pc = "deleted" => upd[u].pc = "deleted"
    <2> TAKE u \in Updates
    <2>1. upd[u] \in Update
      BY <1>4
    <2>2. CASE upd'[u] = upd[u]
      BY <2>1, <2>2
    <2>3. CASE upd'[u] = [upd[u] EXCEPT !.pc = "failed"]
      BY <2>1, <2>3
    <2> QED BY <2>2, <2>3, <1>2
  <1>7. /\ req' \in [Requests -> Request]
        /\ upd' \in [Updates -> Update]
    BY <1>3, <1>5, <1>6
  <1>8. /\ l1' = [l1 EXCEPT ![s] = NoKey]
        /\ lock' \in {lock, Orphan}
        /\ faults' = faults + 1
        /\ UNCHANGED <<db, l2, tasks, excused>>
    BY DEF Crash
  <1>9. TypeOK'
    BY <1>7, <1>8 DEF IInv, TypeOK
  <1>10. NeverAhead'
    BY <1>5, <1>8 DEF IInv, TypeOK, NeverAhead
  <1>11. StaleHasCause'
    BY <1>8 DEF IInv, StaleHasCause
  <1>12. LoadedInv'
    BY <1>5, <1>8 DEF IInv, LoadedInv
  <1>13. ClosingInv'
    BY <1>5, <1>6, <1>8 DEF IInv, ClosingInv
  <1> QED BY <1>9, <1>10, <1>11, <1>12, <1>13 DEF IInv

LEMMA NextInv == ASSUME IInv, [Next]_vars PROVE IInv'
  <1>1. CASE \E r \in Requests : \/ HitL1(r) \/ MissL1(r) \/ Query(r) \/ ReadBreaks(r)
                                 \/ TryLockBreaks(r) \/ RebuildBreaks(r)
                                 \/ UnlockBreaks(r) \/ UnwindBreaks(r)
    BY <1>1, QuietSteps, LoadInv, FillInv DEF Query
  <1>2. CASE \E u \in Updates : \/ UpdateRow(u) \/ Write(u)
                                \/ DeleteL2Breaks(u) \/ Rollback(u)
    BY <1>2, UpdateInv, DeleteInv, CommitInv DEF Write
  <1>3. CASE \/ SaveShop \/ RunTask \/ L2Expires \/ OrphanExpires
             \/ \E s \in Servers : L1Expires(s)
    BY <1>3, SaveInv, RemovalInv
  <1>4. CASE RunTaskAgain \/ TaskLost \/ LockExpires \/ \E s \in Servers : Crash(s)
    BY <1>4, RemovalInv, CrashInv
  <1>5. CASE UNCHANGED vars
    BY <1>5 DEF IInv, vars, TypeOK, NeverAhead, StaleHasCause, LoadedInv, ClosingInv
  <1> QED BY <1>1, <1>2, <1>3, <1>4, <1>5 DEF Next, Faults, Exhausted

-----------------------------------------------------------------------------
(* The inductive invariant: what rebuilds carry and what an update that     *)
(* has deleted the key but not committed may find in Redis.                 *)
THEOREM IInvariant == Spec => []IInv
  <1>1. Init => IInv
    BY InitInv
  <1>2. IInv /\ [Next]_vars => IInv'
    BY NextInv
  <1> QED BY <1>1, <1>2, PTL DEF Spec

(* Every variable keeps its type. *)
THEOREM TypeCorrect == Spec => []TypeOK
  <1>1. IInv => TypeOK
    BY DEF IInv
  <1> QED BY <1>1, IInvariant, PTL

(* No cache and no answer shows what an update has not committed. *)
THEOREM NothingUncommitted == Spec => []NeverAhead
  <1>1. IInv => NeverAhead
    BY DEF IInv
  <1> QED BY <1>1, IInvariant, PTL

(* Redis is only outdated after a rebuild that overlapped an update's end,  *)
(* or while, or because, a compensation task is missing.                    *)
THEOREM Explained == Spec => []StaleHasCause
  <1>1. IInv => StaleHasCause
    BY DEF IInv
  <1> QED BY <1>1, IInvariant, PTL

-----------------------------------------------------------------------------
(* ShopCache implements CachedRow. *)

(* A call that has not reached a cache or the row carries nothing. *)
Early == {"new", "read", "missed", "locked", "checked"}
BlankInv == \A r \in Requests : req[r].pc \in Early => req[r].val = NoKey

(* One call moves: its label and what it carries become these. *)
Turns(r, label, v) ==
    /\ req' \in [Requests -> Request]
    /\ \A q \in Requests : q # r => req'[q] = req[q]
    /\ req'[r].pc = label /\ req'[r].val = v

LEMMA TurnMaps ==
    ASSUME TypeOK, NEW r \in Requests, NEW label, NEW v, Turns(r, label, v)
    PROVE  /\ Seen' = [Seen EXCEPT ![r] = v]
           /\ v = req[r].val => Seen' = Seen
           /\ label = "done" => Final' = Final \cup {r}
           /\ label # "done" /\ req[r].pc # "done" => Final' = Final
           /\ Seen[r] = req[r].val
           /\ r \in Final <=> req[r].pc = "done"
  <1> USE DEF Turns
  <1>1. \A q \in Requests : Seen'[q] = req'[q].val /\ Seen[q] = req[q].val
    BY DEF Seen
  <1>2. Seen' = [Seen EXCEPT ![r] = v]
    BY <1>1 DEF Seen
  <1>3. v = req[r].val => Seen' = Seen
    <2> SUFFICES ASSUME v = req[r].val PROVE \A q \in Requests : req'[q].val = req[q].val
      BY DEF Seen
    <2> QED OBVIOUS
  <1>4. \A q \in Requests : /\ q \in Final' <=> req'[q].pc = "done"
                            /\ q \in Final <=> req[q].pc = "done"
    BY DEF Final
  <1>5. Final \subseteq Requests /\ Final' \subseteq Requests
    BY DEF Final
  <1>6. label = "done" => Final' = Final \cup {r}
    BY <1>4, <1>5
  <1>7. label # "done" /\ req[r].pc # "done" => Final' = Final
    BY <1>4, <1>5
  <1> QED BY <1>1, <1>2, <1>3, <1>4, <1>6, <1>7

LEMMA TurnBlank ==
    ASSUME BlankInv, NEW r \in Requests, NEW label, NEW v, Turns(r, label, v),
           label \in Early => v = NoKey
    PROVE  BlankInv'
  BY DEF Turns, BlankInv

Step == BlankInv' /\ [Row!Next]_Row!cacheState

(* The four things a turn can be to the reader. *)
LEMMA Idles ==
    ASSUME TypeOK, BlankInv, NEW r \in Requests, NEW label,
           Turns(r, label, req[r].val), label # "done", req[r].pc # "done",
           label \in Early => req[r].pc \in Early,
           UNCHANGED <<db, l1, l2>>
    PROVE  Step
  <1>1. Seen' = Seen /\ Final' = Final
    BY TurnMaps
  <1>2. BlankInv'
    BY TurnBlank DEF BlankInv
  <1> QED BY <1>1, <1>2 DEF Step, Row!cacheState

LEMMA Learns ==
    ASSUME TypeOK, BlankInv, NEW r \in Requests, NEW label, NEW v \in Nat,
           Turns(r, label, v), label \notin Early, req[r].pc \in Early,
           v \in {db, l2} \cup {l1[s] : s \in Servers},
           UNCHANGED <<db, l1, l2>>
    PROVE  Step
  <1>1. BlankInv'
    BY TurnBlank
  <1>2. /\ Seen' = [Seen EXCEPT ![r] = v]
        /\ Final' \in {Final, Final \cup {r}}
        /\ Seen[r] = NoKey
    BY TurnMaps DEF Early, BlankInv
  <1>3. Row!Learn(r, v)
    BY <1>2 DEF Row!Learn
  <1> QED BY <1>1, <1>3 DEF Step, Row!Next

LEMMA Drops ==
    ASSUME TypeOK, BlankInv, NEW r \in Requests, NEW label,
           Turns(r, label, NoKey), label # "done", req[r].pc # "done",
           UNCHANGED <<db, l1, l2>>
    PROVE  Step
  <1>1. BlankInv'
    BY TurnBlank
  <1>2. Seen' = [Seen EXCEPT ![r] = NoKey] /\ Final' = Final /\ r \notin Final
    BY TurnMaps
  <1>3. DOMAIN Seen = Requests /\ DOMAIN l1 = Servers
    BY DEF Seen, TypeOK
  <1>4. Row!Forget
    BY <1>2, <1>3 DEF Row!Forget
  <1> QED BY <1>1, <1>4 DEF Step, Row!Next

LEMMA Shares ==
    ASSUME TypeOK, BlankInv, NEW r \in Requests, NEW label, NEW v \in {req[r].val, NoKey},
           Turns(r, label, v), label = "unlock", req[r].pc = "loaded",
           req[r].val \in Nat, l2' = req[r].val, UNCHANGED <<db, l1>>
    PROVE  Step
  <1>1. BlankInv'
    BY TurnBlank DEF Early
  <1>2. /\ Seen' \in {Seen, [Seen EXCEPT ![r] = NoKey]} /\ Final' = Final
        /\ r \notin Final /\ Seen[r] = req[r].val
    BY TurnMaps
  <1>3. Row!Share(r)
    BY <1>2 DEF Row!Share
  <1> QED BY <1>1, <1>3 DEF Step, Row!Next

(* What a caller is told stays, and a shop goes to L1. *)
LEMMA Answers ==
    ASSUME TypeOK, BlankInv, NEW r \in Requests, Answer(r) PROVE Step
  <1>1. req[r] \in Request /\ req[r].pc = "returning"
    BY DEF TypeOK, Answer
  <1>2. CASE req[r].val = NoKey
    <2>1. Turns(r, "failed", NoKey) /\ UNCHANGED <<db, l1, l2>>
      <3>1. Goto(r, "failed") /\ UNCHANGED <<db, l1, l2>>
        BY <1>2 DEF Answer
      <3> QED BY <3>1, <1>2, Moved DEF Turns
    <2> QED BY <2>1, <1>1, Drops
  <1>3. CASE req[r].val # NoKey
    <2>1. Turns(r, "done", req[r].val) /\ UNCHANGED <<db, l2>>
      <3>1. Goto(r, "done") /\ UNCHANGED <<db, l2>>
        BY <1>3 DEF Answer
      <3> QED BY <3>1, Moved DEF Turns
    <2>2. /\ Seen' = Seen /\ Final' = Final \cup {r}
          /\ r \notin Final /\ Seen[r] = req[r].val
      BY <2>1, <1>1, TurnMaps
    <2>3. \/ req[r].val = 0 /\ l1' = l1
          \/ req[r].val # 0 /\ l1' = [l1 EXCEPT ![req[r].at] = req[r].val]
      BY <1>3 DEF Answer
    <2>4. req[r].at \in Servers
      BY <1>1
    <2>5. Row!Answer(r)
      BY <1>3, <2>1, <2>2, <2>3, <2>4 DEF Row!Answer
    <2>6. BlankInv'
      BY <2>1, TurnBlank DEF Early
    <2> QED BY <2>5, <2>6 DEF Step, Row!Next
  <1> QED BY <1>2, <1>3

LEMMA RequestMaps ==
    ASSUME IInv, BlankInv, NEW r \in Requests,
           \/ HitL1(r) \/ MissL1(r) \/ Query(r) \/ ReadBreaks(r) \/ TryLockBreaks(r)
           \/ RebuildBreaks(r) \/ UnlockBreaks(r) \/ UnwindBreaks(r)
    PROVE  Step
  <1> USE DEF Early
  <1> HIDE DEF Goto, GotoWith
  <1>0. /\ TypeOK
        /\ req[r] \in Request
        /\ db \in Nat /\ l2 \in Nat \cup {NoKey}
        /\ l1 \in [Servers -> Nat \cup {NoKey}]
    BY DEF IInv, TypeOK
  <1>1. CASE HitL1(r)
    <2>1. /\ Turns(r, "done", l1[req[r].at]) /\ req[r].pc = "new"
          /\ req[r].at \in Servers /\ l1[req[r].at] \in Nat
          /\ UNCHANGED <<db, l1, l2>>
      BY <1>0, <1>1, MovedWith DEF Turns, HitL1
    <2> QED BY <1>0, <2>1, Learns
  <1>2. CASE HitL2(r) \/ CheckHit(r)
    <2>1. PICK label \in {"returning", "unlock"} :
             Turns(r, label, l2) /\ l2 \in Nat /\ UNCHANGED <<db, l1, l2>>
             /\ req[r].pc \in Early
      BY <1>0, <1>2, MovedWith DEF Turns, HitL2, CheckHit
    <2> QED BY <1>0, <2>1, Learns
  <1>3. CASE Load(r)
    <2>1. Turns(r, "loaded", db) /\ UNCHANGED <<db, l1, l2>> /\ req[r].pc \in Early
      BY <1>0, <1>3, MovedWith DEF Turns, Load
    <2> QED BY <1>0, <2>1, Learns
  <1>4. CASE MissL1(r) \/ MissL2(r) \/ TryLock(r) \/ CheckMiss(r) \/ Unlock(r)
    <2>1. PICK label \in RequestStates :
             /\ Turns(r, label, req[r].val) /\ label # "done" /\ req[r].pc # "done"
             /\ label \in Early => req[r].pc \in Early
             /\ UNCHANGED <<db, l1, l2>>
      BY <1>0, <1>4, Moved DEF Turns, MissL1, MissL2, TryLock, CheckMiss, Unlock
    <2> QED BY <1>0, <2>1, Idles
  <1>5. CASE TryLockFails(r) \/ UnwindFrame(r)
    <2>1. PICK label \in {"read", "returning"} :
             /\ \/ req' = [req EXCEPT ![r].pc = "read", ![r].depth = @ + 1] /\ label = "read"
                   /\ req[r].pc = "missed"
                \/ req' = [req EXCEPT ![r].depth = @ - 1] /\ label = "returning"
                   /\ req[r].pc = "returning" /\ req[r].depth > 0
             /\ UNCHANGED <<db, l1, l2>>
      BY <1>5 DEF TryLockFails, UnwindFrame
    <2>2. /\ req'[r] \in Request /\ req'[r].pc = label /\ req'[r].val = req[r].val
      BY <1>0, <2>1 DEF TypeOK
    <2>3. Turns(r, label, req[r].val)
      BY <1>0, <2>1, <2>2 DEF Turns, TypeOK
    <2> QED BY <1>0, <2>1, <2>3, Idles
  <1>6. CASE Answer(r)
    BY <1>0, <1>6, Answers
  <1>7. CASE Fill(r)
    <2>1. /\ Turns(r, "unlock", req[r].val) /\ req[r].pc = "loaded"
          /\ req[r].val \in Nat /\ l2' = req[r].val /\ UNCHANGED <<db, l1>>
      BY <1>0, <1>7, Moved DEF Turns, Fill, IInv, LoadedInv
    <2> QED BY <1>0, <2>1, Shares
  <1>8. CASE RebuildBreaks(r)
    <2>1. /\ Turns(r, "unlock", NoKey) /\ req[r].pc # "done" /\ UNCHANGED <<db, l1>>
          /\ \/ l2' = l2
             \/ req[r].pc = "loaded" /\ l2' = req[r].val /\ req[r].val \in Nat
      BY <1>0, <1>8, MovedWith DEF Turns, RebuildBreaks, IInv, LoadedInv
    <2> QED BY <1>0, <2>1, Shares, Drops
  <1>9. CASE ReadBreaks(r) \/ TryLockBreaks(r) \/ UnlockBreaks(r)
    <2>1. PICK label \in {"returning", "unlock"} :
             /\ Turns(r, label, NoKey) /\ req[r].pc # "done"
             /\ UNCHANGED <<db, l1, l2>>
      BY <1>0, <1>9, MovedWith DEF Turns, ReadBreaks, TryLockBreaks, UnlockBreaks
    <2> QED BY <1>0, <2>1, Drops
  <1>10. CASE UnwindBreaks(r)
    <2>1. /\ req' = [req EXCEPT ![r].depth = @ - 1, ![r].val = NoKey]
          /\ req[r].pc = "returning" /\ req[r].depth > 0 /\ UNCHANGED <<db, l1, l2>>
      BY <1>10 DEF UnwindBreaks
    <2>2. req'[r] \in Request /\ req'[r].pc = "returning" /\ req'[r].val = NoKey
      <3> DEFINE n == [req[r] EXCEPT !.depth = req[r].depth - 1]
      <3>1. n \in Request /\ n.pc = "returning"
        BY <1>0, <2>1, SetDepth
      <3>2. req'[r] = [n EXCEPT !.val = NoKey]
        BY <2>1 DEF IInv, TypeOK
      <3> HIDE DEF n, Request
      <3> QED BY <3>1, <3>2, SetVal
    <2>3. Turns(r, "returning", NoKey)
      BY <1>0, <2>1, <2>2 DEF Turns, TypeOK
    <2> QED BY <1>0, <2>1, <2>3, Drops
  <1> QED BY <1>1, <1>2, <1>3, <1>4, <1>5, <1>6, <1>7, <1>8, <1>9, <1>10 DEF Query

(* The row moves on; nobody learns of it. *)
LEMMA CallsStay == ASSUME req' = req PROVE Seen' = Seen /\ Final' = Final
  BY DEF Seen, Final

LEMMA ChangeMaps ==
    ASSUME BlankInv, (\E u \in Updates : CommitUpdate(u)) \/ SaveShop PROVE Step
  <1>1. db' \in {db, db + 1} /\ UNCHANGED <<l1, l2, req>>
    BY DEF CommitUpdate, SaveShop
  <1>2. BlankInv' /\ Seen' = Seen /\ Final' = Final
    BY <1>1, CallsStay DEF BlankInv
  <1> QED BY <1>1, <1>2 DEF Step, Row!Next, Row!Change, Row!cacheState

(* Caches lose what they held, and dead servers what their calls carried.   *)
LEMMA LossMaps ==
    ASSUME TypeOK, BlankInv,
           \/ \E u \in Updates : \/ UpdateRow(u) \/ InvalidateL1(u) \/ DeleteL2(u)
                                 \/ DeleteL2Breaks(u) \/ Rollback(u)
           \/ RunTask \/ RunTaskAgain \/ TaskLost \/ L2Expires \/ OrphanExpires
           \/ LockExpires \/ \E s \in Servers : L1Expires(s)
           \/ UNCHANGED vars
    PROVE  Step
  <1>1. /\ l2' \in {l2, NoKey}
        /\ DOMAIN l1' = Servers /\ \A s \in Servers : l1'[s] \in {l1[s], NoKey}
        /\ UNCHANGED <<db, req>>
    <2>1. CASE \E u \in Updates : \/ UpdateRow(u) \/ InvalidateL1(u) \/ DeleteL2(u)
                                  \/ DeleteL2Breaks(u) \/ Rollback(u)
      BY <2>1 DEF TypeOK, UpdateRow, InvalidateL1, DeleteL2, DeleteL2Breaks, Rollback
    <2>2. CASE RunTask \/ RunTaskAgain \/ TaskLost \/ L2Expires
      BY <2>2 DEF TypeOK, RunTask, RunTaskAgain, TaskLost, L2Expires
    <2>3. CASE OrphanExpires \/ LockExpires \/ \E s \in Servers : L1Expires(s)
      BY <2>3 DEF TypeOK, OrphanExpires, LockExpires, L1Expires
    <2>4. CASE UNCHANGED vars
      BY <2>4 DEF TypeOK, vars
    <2> QED BY <2>1, <2>2, <2>3, <2>4
  <1>2. BlankInv' /\ Seen' = Seen /\ Final' = Final /\ DOMAIN Seen = Requests
    BY <1>1, CallsStay DEF BlankInv, Seen
  <1>3. Row!Forget
    BY <1>1, <1>2 DEF Row!Forget
  <1> QED BY <1>2, <1>3 DEF Step, Row!Next

LEMMA CrashMaps == ASSUME TypeOK, BlankInv, NEW s \in Servers, Crash(s) PROVE Step
  <1>1. \A r \in Requests :
           \/ req'[r] = req[r]
           \/ /\ req[r].pc \notin {"new", "done", "failed"}
              /\ req'[r] = [req[r] EXCEPT !.pc = "failed", !.val = NoKey]
    BY DEF Crash
  <1>2. \A r \in Requests : req[r] \in Request
    BY DEF TypeOK
  <1>3. \A r \in Requests :
           \/ req'[r] = req[r]
           \/ req[r].pc # "done" /\ req'[r].pc = "failed" /\ req'[r].val = NoKey
    BY <1>1, <1>2
  <1>4. /\ l2' = l2 /\ db' = db
        /\ DOMAIN l1' = Servers /\ \A n \in Servers : l1'[n] \in {l1[n], NoKey}
    BY DEF Crash, TypeOK
  <1>5. \A r \in Requests : /\ Seen'[r] = req'[r].val /\ Seen[r] = req[r].val
                            /\ r \in Final <=> req[r].pc = "done"
                            /\ r \in Final' <=> req'[r].pc = "done"
    BY DEF Seen, Final
  <1>6. Final' = Final
    BY <1>3, <1>5 DEF Final
  <1>7. DOMAIN Seen' = Requests
    BY DEF Seen
  <1>8. \A r \in Requests : Seen'[r] \in {Seen[r], IF r \in Final THEN Seen[r] ELSE NoKey}
    BY <1>3, <1>5
  <1>9. Row!Forget
    BY <1>4, <1>6, <1>7, <1>8 DEF Row!Forget
  <1>10. BlankInv'
    BY <1>3 DEF BlankInv, Early
  <1> QED BY <1>9, <1>10 DEF Step, Row!Next

LEMMA StepMaps == ASSUME IInv, BlankInv, [Next]_vars PROVE Step
  <1>0. TypeOK
    BY DEF IInv
  <1>1. CASE \E r \in Requests : \/ HitL1(r) \/ MissL1(r) \/ Query(r) \/ ReadBreaks(r)
                                 \/ TryLockBreaks(r) \/ RebuildBreaks(r)
                                 \/ UnlockBreaks(r) \/ UnwindBreaks(r)
    BY <1>1, RequestMaps
  <1>2. CASE (\E u \in Updates : CommitUpdate(u)) \/ SaveShop
    BY <1>2, ChangeMaps
  <1>3. CASE \E s \in Servers : Crash(s)
    BY <1>0, <1>3, CrashMaps
  <1>4. CASE \/ \E u \in Updates : \/ UpdateRow(u) \/ InvalidateL1(u) \/ DeleteL2(u)
                                   \/ DeleteL2Breaks(u) \/ Rollback(u)
             \/ RunTask \/ RunTaskAgain \/ TaskLost \/ L2Expires \/ OrphanExpires
             \/ LockExpires \/ \E s \in Servers : L1Expires(s)
             \/ UNCHANGED vars
    BY <1>0, <1>4, LossMaps
  <1> QED BY <1>1, <1>2, <1>3, <1>4 DEF Next, Faults, Exhausted, Write

(* Whatever breaks, the two caches only remember what readers took from the *)
(* committed row, and an answer stays: ShopCache implements CachedRow.      *)
THEOREM CachesPassOn == Spec => ImplementsCachedRow
  <1>1. Init => Row!Init /\ BlankInv
    BY DEF Init, Row!Init, BlankInv, Seen, Final
  <1>2. IInv /\ BlankInv /\ [Next]_vars => BlankInv' /\ [Row!Next]_Row!cacheState
    BY StepMaps DEF Step
  <1> QED BY <1>1, <1>2, IInvariant, PTL DEF Spec, ImplementsCachedRow, Row!Spec

-----------------------------------------------------------------------------
(* LogicalExpire. *)

USE NamesAssumption DEF Slip, Excuse, Without, Excuses

(* An entry without a date comes from queryWithMutex. *)
PlainInv == IsPlain => "mixed" \in excuses

(* A call that has not handed over its rebuild has none in the pool. *)
Before == {"new", "due", "locked", "refreshed"}
StageInv == \A c \in Calls : call[c].pc \in Before => save[c].pc = "none"

(* Who rebuilds, or is about to, has the lock. *)
HolderInv ==
    Without({"overrun", "mixed"}) => \A c \in Calls : InSection(c) => rebuildLock = c

(* Nothing is ahead of the database. *)
AheadInv ==
    /\ entry # Absent => entry.version <= shopRow
    /\ \A c \in Calls : call[c].val # Absent => call[c].val <= shopRow
    /\ \A x \in Savers : save[x].pc = "loaded" => save[x].val \in Nat /\ save[x].val <= shopRow

(* One run of saveShop2Json carries a shop, and none that anybody has seen  *)
(* is newer.                                                                *)
CarryInv ==
    Without({"overrun", "mixed", "preheat"}) =>
        /\ \A x, y \in Savers : save[x].pc = "loaded" /\ save[y].pc = "loaded" => x = y
        /\ \A x \in Savers : save[x].pc = "loaded" =>
              /\ entry # Absent => entry.version <= save[x].val
              /\ \A c \in Calls : call[c].val # Absent => call[c].val <= save[x].val

(* What is carried is the row as it is, and between the deletion and the    *)
(* commit of an update nothing is carried or cached.                        *)
WindowInv ==
    Without({"overlap", "mixed", "lost"}) =>
        /\ \A x \in Savers : save[x].pc = "loaded" => save[x].val = shopRow
        /\ EditOpen => ~SomeLoaded /\ (entry = Absent \/ owed > 0)

ExpiryInv ==
    /\ ExpiryTypeOK /\ PlainInv /\ StageInv /\ HolderInv /\ LockInHand
    /\ AheadInv /\ CarryInv /\ NeverOlder /\ WindowInv /\ OutdatedHasCause

LEMMA DatedEntry ==
    ASSUME NEW v \in Nat
    PROVE  /\ Dated(v) \in Entry /\ Dated(v) # Absent
           /\ Dated(v).version = v /\ Dated(v).form = "dated"
  <1>1. Absent \notin Entry
    BY DEF Entry
  <1>2. Dated(v) \in Entry /\ Dated(v).version = v /\ Dated(v).form = "dated"
    BY DEF Dated, Entry
  <1> QED BY <1>1, <1>2

LEMMA ExpiryInitInv == ExpiryInit => ExpiryInv
  <1> SUFFICES ASSUME ExpiryInit PROVE ExpiryInv
    OBVIOUS
  <1>1. /\ call \in [Calls -> Call]
        /\ \A c \in Calls : call[c].pc = "new" /\ call[c].val = Absent
    BY DEF ExpiryInit, Call
  <1>2. /\ save \in [Savers -> Save]
        /\ \A x \in Savers : save[x].pc \in {"none", "queued"}
        /\ \A c \in Calls : save[c].pc = "none"
    <2>1. \A x \in Savers : /\ save[x] \in Save /\ save[x].pc \in {"none", "queued"}
                            /\ x \in Calls => save[x].pc = "none"
      BY DEF ExpiryInit, Save
    <2>2. \A c \in Calls : c \in Savers
      BY DEF Savers
    <2>3. save = [x \in Savers |-> save[x]]
      BY DEF ExpiryInit
    <2> QED BY <2>1, <2>2, <2>3
  <1>3. entry = Absent \/ (entry \in Entry /\ entry.version = 1 /\ entry.form = "dated")
    BY DatedEntry DEF ExpiryInit
  <1>4. /\ shopRow = 1 /\ rebuildLock = Unlocked /\ owed = 0 /\ slips = 0 /\ excuses = {}
        /\ edit \in [Edits -> {"new", "deleted", "done"}] /\ \A e \in Edits : edit[e] = "new"
    BY DEF ExpiryInit
  <1>5. ExpiryTypeOK
    BY <1>1, <1>2, <1>3, <1>4 DEF ExpiryTypeOK
  <1>6. PlainInv /\ StageInv /\ AheadInv /\ CarryInv /\ NeverOlder
    BY <1>1, <1>2, <1>3, <1>4
       DEF PlainInv, IsPlain, StageInv, Before, AheadInv, CarryInv, NeverOlder
  <1>7. HolderInv /\ LockInHand
    BY <1>1, <1>2, <1>4 DEF HolderInv, LockInHand, InSection
  <1>8. WindowInv /\ OutdatedHasCause
    BY <1>2, <1>3, <1>4 DEF WindowInv, OutdatedHasCause, EditOpen
  <1> QED BY <1>5, <1>6, <1>7, <1>8 DEF ExpiryInv

-----------------------------------------------------------------------------
LEMMA CallMoved ==
    ASSUME ExpiryTypeOK, NEW c \in Calls,
           NEW label \in {"new", "due", "locked", "refreshed", "runs", "done", "failed"},
           CallTo(c, label)
    PROVE  /\ call' \in [Calls -> Call]
           /\ \A d \in Calls : d # c => call'[d] = call[d]
           /\ call'[c].pc = label /\ call'[c].val = call[c].val
  <1>1. call'[c] = [call[c] EXCEPT !.pc = label] /\ call[c] \in Call
    BY DEF CallTo, ExpiryTypeOK
  <1>2. call'[c] \in Call /\ call'[c].pc = label /\ call'[c].val = call[c].val
    BY <1>1 DEF Call
  <1> QED BY <1>2 DEF CallTo, ExpiryTypeOK

LEMMA CallMovedWith ==
    ASSUME ExpiryTypeOK, NEW c \in Calls,
           NEW label \in {"new", "due", "locked", "refreshed", "runs", "done", "failed"},
           NEW v \in Nat, CallWith(c, label, v)
    PROVE  /\ call' \in [Calls -> Call]
           /\ \A d \in Calls : d # c => call'[d] = call[d]
           /\ call'[c].pc = label /\ call'[c].val = v
  BY DEF CallWith, ExpiryTypeOK, Call

LEMMA SaveMoved ==
    ASSUME ExpiryTypeOK, NEW x \in Savers,
           NEW label \in {"none", "queued", "loaded", "saved", "done"},
           NEW v \in Nat \cup {Absent}, SaveTo(x, label, v)
    PROVE  /\ save' \in [Savers -> Save]
           /\ \A y \in Savers : y # x => save'[y] = save[y]
           /\ save'[x].pc = label /\ save'[x].val = v
  BY DEF SaveTo, ExpiryTypeOK, Save

LEMMA Slipped == ASSUME ExpiryTypeOK, Slip PROVE slips' \in Nat
  BY DEF ExpiryTypeOK

Section == {"locked", "refreshed"}

(* A call moves by itself: it sees what the entry holds or nothing new, and *)
(* it enters the section with the lock, leaves it with the lock given back  *)
(* or left behind for a cause, or does neither.                             *)
CallTurn(c) ==
    /\ call' \in [Calls -> Call]
    /\ \A d \in Calls : d # c => call'[d] = call[d]
    /\ call'[c].val = call[c].val \/ (entry # Absent /\ call'[c].val = entry.version)
    /\ call'[c].pc \in Before => call[c].pc \in Before
    /\ \/ /\ call'[c].pc \in Section <=> call[c].pc \in Section
          /\ rebuildLock' = rebuildLock
       \/ /\ rebuildLock = Unlocked /\ rebuildLock' = c
          /\ call'[c].pc \in Section
       \/ /\ call[c].pc \in Section /\ call'[c].pc \notin Section
          /\ rebuildLock' \in {Unlocked, Abandoned(c)}
       \/ /\ rebuildLock = Unlocked /\ rebuildLock' = Left
          /\ call'[c].pc \notin Section /\ call[c].pc \notin Section
    /\ rebuildLock' = Left => rebuildLock = Left \/ "failed" \in excuses' \/ "mixed" \in excuses
    /\ slips' \in Nat
    /\ excuses' \in {excuses, excuses \cup {"failed"}}
    /\ UNCHANGED <<shopRow, entry, save, edit, owed>>

LEMMA CallTurnInv == ASSUME ExpiryInv, NEW c \in Calls, CallTurn(c) PROVE ExpiryInv'
  <1> USE DEF ExpiryInv, CallTurn
  <1>1. ExpiryTypeOK'
    BY DEF ExpiryTypeOK, Abandoned
  <1>2. PlainInv'
    BY DEF PlainInv, IsPlain
  <1>3. StageInv'
    BY DEF StageInv
  <1>4. \A d \in Calls : d # c => (InSection(d)' <=> InSection(d))
    BY DEF InSection
  <1>5. call[c].pc \in Section => save[c].pc = "none"
    BY DEF StageInv, Section, Before
  <1>6. InSection(c) <=> call[c].pc \in Section \/ save[c].pc \in {"queued", "loaded", "saved"}
    BY DEF InSection, Section
  <1>7. InSection(c)' <=> call'[c].pc \in Section \/ save[c].pc \in {"queued", "loaded", "saved"}
    BY DEF InSection, Section
  <1>8. HolderInv'
    BY <1>4, <1>5, <1>6, <1>7 DEF HolderInv, Abandoned
  <1>9. LockInHand'
    BY <1>4, <1>5, <1>6, <1>7 DEF LockInHand, Abandoned
  <1>10. AheadInv'
    BY DEF AheadInv
  <1>11. CarryInv'
    BY DEF CarryInv
  <1>12. NeverOlder'
    BY DEF NeverOlder, ExpiryTypeOK, Entry
  <1>13. WindowInv'
    BY DEF WindowInv, EditOpen, SomeLoaded
  <1>14. OutdatedHasCause'
    BY DEF OutdatedHasCause
  <1> QED BY <1>1, <1>2, <1>3, <1>8, <1>9, <1>10, <1>11, <1>12, <1>13, <1>14

LEMMA CallTurns ==
    ASSUME ExpiryInv, NEW c \in Calls,
           \/ FindNothing(c) \/ FindFresh(c) \/ FindDue(c) \/ FindPlain(c) \/ FindLocked(c)
           \/ TakeLock(c) \/ RecheckFresh(c) \/ UnlockRefreshed(c) \/ CallerRan(c)
           \/ RecheckPlain(c) \/ Discard(c) \/ CallBreaks(c)
    PROVE  ExpiryInv'
  <1> USE DEF Before, Section
  <1>0. /\ ExpiryTypeOK
        /\ rebuildLock \in Calls \cup {Unlocked, Left} /\ slips \in Nat
        /\ entry # Absent => entry.version \in Nat
    BY DEF ExpiryInv, ExpiryTypeOK, Entry
  <1>1. CASE FindFresh(c) \/ FindDue(c) \/ RecheckFresh(c)
    <2>1. CallTurn(c)
      BY <1>0, <1>1, CallMovedWith DEF CallTurn, FindFresh, FindDue, RecheckFresh, Fresh, Due
    <2> QED BY <2>1, CallTurnInv
  <1>2. CASE FindNothing(c) \/ FindPlain(c) \/ FindLocked(c) \/ CallerRan(c)
    <2>1. CallTurn(c)
      BY <1>0, <1>2, CallMoved DEF CallTurn, FindNothing, FindPlain, FindLocked, CallerRan
    <2> QED BY <2>1, CallTurnInv
  <1>3. CASE TakeLock(c) \/ UnlockRefreshed(c)
    <2>1. CallTurn(c)
      BY <1>0, <1>3, CallMoved DEF CallTurn, TakeLock, UnlockRefreshed
    <2> QED BY <2>1, CallTurnInv
  <1>4. CASE RecheckPlain(c)
    <2>1. "mixed" \in excuses
      BY <1>4 DEF RecheckPlain, ExpiryInv, PlainInv
    <2>2. CallTurn(c)
      BY <1>0, <1>4, <2>1, CallMoved DEF CallTurn, RecheckPlain
    <2> QED BY <2>2, CallTurnInv
  <1>5. CASE Discard(c) \/ CallBreaks(c)
    <2>1. CallTurn(c)
      BY <1>0, <1>5, CallMoved, Slipped DEF CallTurn, Discard, CallBreaks
    <2> QED BY <2>1, CallTurnInv
  <1> QED BY <1>1, <1>2, <1>3, <1>4, <1>5

(* The section passes from the call to its task. *)
LEMMA SubmitInv == ASSUME ExpiryInv, NEW c \in Calls, Submit(c) PROVE ExpiryInv'
  <1> USE DEF ExpiryInv
  <1>1. /\ call' \in [Calls -> Call]
        /\ \A d \in Calls : d # c => call'[d] = call[d]
        /\ call'[c].pc \in {"done", "runs"} /\ call'[c].val = call[c].val
        /\ call[c].pc = "locked"
    BY CallMoved DEF Submit
  <1>2. /\ save' \in [Savers -> Save]
        /\ \A y \in Savers : y # c => save'[y] = save[y]
        /\ save'[c].pc = "queued" /\ c \in Savers
    <2>1. c \in Savers /\ SaveTo(c, "queued", Absent)
      BY DEF Submit, Savers
    <2> QED BY <2>1, SaveMoved
  <1>3. UNCHANGED <<shopRow, entry, rebuildLock, edit, owed, slips, excuses>>
    BY DEF Submit
  <1>4. \A d \in Calls : InSection(d)' <=> InSection(d)
    BY <1>1, <1>2 DEF InSection, Savers
  <1>5. \A x \in Savers : save'[x].pc = "loaded" => save'[x] = save[x] /\ save[x].pc = "loaded"
    BY <1>2
  <1>6. ExpiryTypeOK'
    BY <1>1, <1>2, <1>3 DEF ExpiryTypeOK
  <1>7. PlainInv' /\ StageInv'
    BY <1>1, <1>2, <1>3 DEF PlainInv, IsPlain, StageInv, Before, Savers
  <1>8. HolderInv' /\ LockInHand'
    BY <1>3, <1>4 DEF HolderInv, LockInHand
  <1>9. AheadInv'
    BY <1>1, <1>3, <1>5 DEF AheadInv
  <1>10. CarryInv'
    BY <1>1, <1>3, <1>5 DEF CarryInv
  <1>11. NeverOlder'
    BY <1>1, <1>3 DEF NeverOlder
  <1>12. WindowInv'
    BY <1>3, <1>5 DEF WindowInv, EditOpen, SomeLoaded
  <1>13. OutdatedHasCause'
    BY <1>3 DEF OutdatedHasCause
  <1> QED BY <1>6, <1>7, <1>8, <1>9, <1>10, <1>11, <1>12, <1>13

(* What is loaded is the newest there is, and, unless excused, nobody else  *)
(* carries anything: two tasks would both have the lock.                    *)
LEMMA LoadShopInv == ASSUME ExpiryInv, NEW x \in Savers, LoadShop(x) PROVE ExpiryInv'
  <1> USE DEF ExpiryInv
  <1>1. /\ save' \in [Savers -> Save]
        /\ \A y \in Savers : y # x => save'[y] = save[y]
        /\ save'[x].pc = "loaded" /\ save'[x].val = shopRow
        /\ save[x].pc = "queued" /\ shopRow \in Nat
    <2>1. shopRow \in Nat /\ SaveTo(x, "loaded", shopRow)
      BY DEF LoadShop, ExpiryTypeOK
    <2> QED BY <2>1, SaveMoved DEF LoadShop
  <1>2. /\ UNCHANGED <<shopRow, entry, rebuildLock, call, edit, owed, slips>>
        /\ excuses \subseteq excuses' /\ excuses' \subseteq excuses \cup {"preheat", "overlap"}
        /\ Preheated(x) => "preheat" \in excuses'
        /\ EditOpen => "overlap" \in excuses'
    BY DEF LoadShop
  <1>3. \A d \in Calls : InSection(d)' <=> InSection(d)
    BY <1>1, <1>2 DEF InSection, Savers
  <1>4. ExpiryTypeOK'
    BY <1>1, <1>2 DEF ExpiryTypeOK
  <1>5. PlainInv' /\ StageInv'
    BY <1>1, <1>2 DEF PlainInv, IsPlain, StageInv, Before, Savers
  <1>6. HolderInv' /\ LockInHand'
    BY <1>2, <1>3 DEF HolderInv, LockInHand
  <1>7. AheadInv'
    BY <1>1, <1>2 DEF AheadInv
  <1>8. CarryInv'
    <2> SUFFICES ASSUME Without({"overrun", "mixed", "preheat"})'
                 PROVE  \A y \in Savers : save'[y].pc = "loaded" => y = x
      BY <1>1, <1>2 DEF CarryInv, AheadInv
    <2> TAKE y \in Savers
    <2> SUFFICES ASSUME save[y].pc = "loaded", y # x PROVE FALSE
      BY <1>1
    <2>1. x \in Calls /\ y \in Calls
      BY <1>2 DEF Preheated, Savers
    <2>2. InSection(x) /\ InSection(y)
      BY <1>1, <2>1 DEF InSection
    <2> QED BY <1>2, <2>1, <2>2 DEF HolderInv
  <1>9. NeverOlder'
    BY <1>2 DEF NeverOlder
  <1>10. WindowInv'
    BY <1>1, <1>2 DEF WindowInv, EditOpen
  <1>11. OutdatedHasCause'
    BY <1>2 DEF OutdatedHasCause
  <1> QED BY <1>4, <1>5, <1>6, <1>7, <1>8, <1>9, <1>10, <1>11

(* A run of saveShop2Json ends, having written what it carried or not. *)
LEMMA SavedInv ==
    ASSUME ExpiryInv, NEW x \in Savers, WriteEntry(x) \/ SaveBreaks(x) PROVE ExpiryInv'
  <1> USE DEF ExpiryInv
  <1>1. /\ save' \in [Savers -> Save]
        /\ \A y \in Savers : y # x => save'[y] = save[y]
        /\ save'[x].pc = Saved(x) /\ save'[x].pc \in {"saved", "done"}
        /\ save[x].pc \in {"queued", "loaded"}
    <2>1. /\ SaveTo(x, Saved(x), Absent) /\ Saved(x) \in {"saved", "done"}
          /\ save[x].pc \in {"queued", "loaded"}
      BY DEF WriteEntry, SaveBreaks, Saved
    <2> QED BY <2>1, SaveMoved
  <1>2. /\ UNCHANGED <<shopRow, rebuildLock, call, edit, owed>>
        /\ excuses' \in {excuses, excuses \cup {"failed"}}
        /\ slips' \in Nat
    BY Slipped DEF WriteEntry, SaveBreaks, ExpiryTypeOK
  <1>3. \/ entry' = entry
        \/ /\ save[x].pc = "loaded" /\ save[x].val \in Nat /\ save[x].val <= shopRow
           /\ entry' \in Entry /\ entry'.version = save[x].val /\ entry'.form = "dated"
    <2>1. save[x].pc = "loaded" => save[x].val \in Nat /\ save[x].val <= shopRow
      BY DEF AheadInv
    <2>2. \/ entry' = entry
          \/ save[x].pc = "loaded" /\ entry' = Dated(save[x].val)
      BY DEF WriteEntry, SaveBreaks
    <2> QED BY <2>1, <2>2, DatedEntry
  <1>4. \A d \in Calls : InSection(d)' <=> InSection(d)
    BY <1>1, <1>2 DEF InSection, Saved, Savers
  <1>5. \A y \in Savers : save'[y].pc = "loaded" => y # x /\ save'[y] = save[y]
    BY <1>1
  <1>6. ExpiryTypeOK'
    BY <1>1, <1>2, <1>3 DEF ExpiryTypeOK
  <1>7. PlainInv' /\ StageInv'
    BY <1>1, <1>2, <1>3 DEF PlainInv, IsPlain, StageInv, Before, Savers
  <1>8. HolderInv' /\ LockInHand'
    BY <1>2, <1>4 DEF HolderInv, LockInHand
  <1>9. AheadInv'
    BY <1>2, <1>3, <1>5 DEF AheadInv
  <1>10. CarryInv'
    BY <1>2, <1>3, <1>5 DEF CarryInv
  <1>11. NeverOlder'
    BY <1>2, <1>3 DEF NeverOlder, CarryInv
  <1>12. WindowInv'
    BY <1>2, <1>3, <1>5 DEF WindowInv, EditOpen, SomeLoaded
  <1>13. OutdatedHasCause'
    BY <1>2, <1>3 DEF OutdatedHasCause, WindowInv
  <1> QED BY <1>6, <1>7, <1>8, <1>9, <1>10, <1>11, <1>12, <1>13

LEMMA TaskUnlockInv ==
    ASSUME ExpiryInv, NEW c \in Calls, TaskUnlocks(c) \/ TaskUnlockBreaks(c)
    PROVE  ExpiryInv'
  <1> USE DEF ExpiryInv
  <1>1. /\ save' \in [Savers -> Save]
        /\ \A y \in Savers : y # c => save'[y] = save[y]
        /\ save'[c].pc = "done" /\ save[c].pc = "saved" /\ c \in Savers
    <2>1. c \in Savers /\ SaveTo(c, "done", Absent) /\ save[c].pc = "saved"
      BY DEF TaskUnlocks, TaskUnlockBreaks, Savers
    <2> QED BY <2>1, SaveMoved
  <1>2. /\ UNCHANGED <<shopRow, entry, call, edit, owed>>
        /\ excuses' \in {excuses, excuses \cup {"failed"}}
        /\ slips' \in Nat
        /\ rebuildLock' \in {Unlocked, Abandoned(c)}
        /\ rebuildLock' = Left => rebuildLock = Left \/ "failed" \in excuses'
    BY Slipped DEF TaskUnlocks, TaskUnlockBreaks, ExpiryTypeOK, Abandoned
  <1>3. \A d \in Calls : d # c => (InSection(d)' <=> InSection(d))
    BY <1>1, <1>2 DEF InSection, Savers
  <1>4. InSection(c) /\ ~InSection(c)'
    <2>1. call[c].pc \notin Before
      BY <1>1 DEF StageInv
    <2> QED BY <1>1, <1>2, <2>1 DEF InSection, Before
  <1>5. \A y \in Savers : save'[y].pc = "loaded" => save'[y] = save[y]
    BY <1>1
  <1>6. ExpiryTypeOK'
    BY <1>1, <1>2 DEF ExpiryTypeOK, Abandoned
  <1>7. PlainInv' /\ StageInv'
    BY <1>1, <1>2 DEF PlainInv, IsPlain, StageInv, Before, Savers
  <1>8. HolderInv' /\ LockInHand'
    BY <1>2, <1>3, <1>4 DEF HolderInv, LockInHand, Abandoned
  <1>9. AheadInv' /\ CarryInv'
    BY <1>2, <1>5 DEF AheadInv, CarryInv
  <1>10. NeverOlder' /\ OutdatedHasCause'
    BY <1>2 DEF NeverOlder, OutdatedHasCause
  <1>11. WindowInv'
    BY <1>2, <1>5 DEF WindowInv, EditOpen, SomeLoaded
  <1> QED BY <1>6, <1>7, <1>8, <1>9, <1>10, <1>11

-----------------------------------------------------------------------------
(* Updates and the environment leave calls and tasks alone. *)
Apart ==
    /\ UNCHANGED <<call, save>>
    /\ excuses \subseteq excuses' /\ excuses' \subseteq Excuses
    /\ slips' \in Nat /\ owed' \in Nat
    /\ edit' \in [Edits -> {"new", "deleted", "done"}]

(* The entry goes, its date passes, or queryWithMutex writes it; the lock   *)
(* goes when nobody has it or an excuse says so.                            *)
EntryApart ==
    \/ entry' \in {entry, Absent}
    \/ /\ entry' \in Entry /\ entry # Absent /\ entry'.version = entry.version
       /\ entry'.form = entry.form
    \/ entry' \in Entry /\ entry'.version <= shopRow /\ "mixed" \in excuses'
LockApart ==
    \/ rebuildLock' = rebuildLock
    \/ rebuildLock' = Unlocked /\ rebuildLock \notin Calls
    \/ rebuildLock' = Unlocked /\ ("overrun" \in excuses' \/ "mixed" \in excuses')
    \/ rebuildLock' = Left /\ "mixed" \in excuses'

LEMMA ApartInv ==
    ASSUME ExpiryInv, Apart, shopRow' \in {shopRow, shopRow + 1}, EntryApart, LockApart
    PROVE  /\ ExpiryTypeOK' /\ PlainInv' /\ StageInv' /\ HolderInv' /\ LockInHand'
           /\ AheadInv' /\ CarryInv' /\ NeverOlder'
  <1> USE DEF ExpiryInv, Apart, EntryApart, LockApart
  <1>1. \A d \in Calls : InSection(d)' <=> InSection(d)
    BY DEF InSection
  <1>2. shopRow \in Nat /\ shopRow' >= shopRow /\ rebuildLock \in Calls \cup {Unlocked, Left}
        /\ \A c \in Calls : call[c].val \in Nat \cup {Absent}
    BY DEF ExpiryTypeOK, Call
  <1>3. ExpiryTypeOK'
    BY <1>2 DEF ExpiryTypeOK
  <1>4. PlainInv' /\ StageInv'
    BY DEF PlainInv, IsPlain, StageInv
  <1>5. HolderInv' /\ LockInHand'
    BY <1>1, <1>2 DEF HolderInv, LockInHand
  <1>6. AheadInv'
    BY <1>2 DEF AheadInv, ExpiryTypeOK, Entry
  <1>7. CarryInv'
    BY DEF CarryInv
  <1>8. NeverOlder'
    BY DEF NeverOlder
  <1> QED BY <1>3, <1>4, <1>5, <1>6, <1>7, <1>8

LEMMA EditInv ==
    ASSUME ExpiryInv, NEW e \in Edits,
           DeleteEntry(e) \/ DeleteEntryBreaks(e) \/ Commit(e) \/ RollBack(e)
    PROVE  ExpiryInv'
  <1>0. ExpiryTypeOK
    BY DEF ExpiryInv
  <1>1. CASE DeleteEntry(e) \/ DeleteEntryBreaks(e)
    <2>1. /\ Apart /\ UNCHANGED <<shopRow, rebuildLock>>
          /\ entry' \in {entry, Absent} /\ owed' >= owed
          /\ entry' = Absent \/ owed' > 0
          /\ SomeLoaded => "overlap" \in excuses'
      <3>1. /\ edit' \in [Edits -> {"new", "deleted", "done"}] /\ owed \in Nat /\ slips \in Nat
            /\ excuses \subseteq excuses' /\ excuses' \subseteq Excuses
            /\ SomeLoaded => "overlap" \in excuses'
        BY <1>0, <1>1 DEF DeleteEntry, DeleteEntryBreaks, Delete, ExpiryTypeOK
      <3>2. CASE DeleteEntry(e)
        BY <3>1, <3>2 DEF Apart, DeleteEntry
      <3>3. CASE DeleteEntryBreaks(e)
        BY <3>1, <3>3 DEF Apart, DeleteEntryBreaks
      <3> QED BY <1>1, <3>2, <3>3
    <2>2. /\ ExpiryTypeOK' /\ PlainInv' /\ StageInv' /\ HolderInv' /\ LockInHand'
          /\ AheadInv' /\ CarryInv' /\ NeverOlder'
      BY <2>1, ApartInv, <1>0 DEF EntryApart, LockApart
    <2>3. WindowInv'
      BY <2>1 DEF ExpiryInv, WindowInv, SomeLoaded, Apart
    <2>4. OutdatedHasCause'
      BY <1>0, <2>1 DEF ExpiryInv, OutdatedHasCause, Apart, ExpiryTypeOK
    <2> QED BY <2>2, <2>3, <2>4 DEF ExpiryInv
  <1>2. CASE Commit(e) \/ RollBack(e)
    <2>1. /\ Apart /\ UNCHANGED <<entry, rebuildLock, owed, excuses>>
          /\ shopRow' \in {shopRow, shopRow + 1}
          /\ EditOpen /\ \A d \in Edits : edit'[d] = "deleted" => edit[d] = "deleted"
      BY <1>0, <1>2, Slipped DEF Apart, Commit, RollBack, EditOpen, ExpiryTypeOK
    <2>2. /\ ExpiryTypeOK' /\ PlainInv' /\ StageInv' /\ HolderInv' /\ LockInHand'
          /\ AheadInv' /\ CarryInv' /\ NeverOlder'
      BY <2>1, ApartInv, <1>0 DEF EntryApart, LockApart
    <2>3. WindowInv'
      BY <2>1 DEF ExpiryInv, WindowInv, SomeLoaded, EditOpen, Apart
    <2>4. OutdatedHasCause'
      BY <2>1 DEF ExpiryInv, WindowInv, OutdatedHasCause
    <2> QED BY <2>2, <2>3, <2>4 DEF ExpiryInv
  <1> QED BY <1>1, <1>2

LEMMA ElsewhereInv ==
    ASSUME ExpiryInv, \/ Compensate \/ GiveUp \/ BecomesDue \/ LeftExpires \/ Overrun
                      \/ MutexPath \/ UNCHANGED expiryVars
    PROVE  ExpiryInv'
  <1>0. /\ ExpiryTypeOK /\ owed \in Nat /\ slips \in Nat /\ excuses \subseteq Excuses
        /\ shopRow \in Nat /\ entry \in Entry \cup {Absent}
        /\ rebuildLock \in Calls \cup {Unlocked, Left}
    BY DEF ExpiryInv, ExpiryTypeOK
  <1>1. /\ Apart /\ shopRow' = shopRow /\ edit' = edit
        /\ EntryApart /\ LockApart
        /\ entry' = Absent \/ owed' = owed \/ "lost" \in excuses'
    <2>1. CASE Compensate \/ GiveUp
      <3>1. owed' \in Nat
        BY <1>0, <2>1 DEF Compensate, GiveUp
      <3>2. CASE Compensate
        BY <1>0, <3>1, <3>2 DEF Compensate, Apart, EntryApart, LockApart, ExpiryTypeOK
      <3>3. CASE GiveUp
        BY <1>0, <3>1, <3>3 DEF GiveUp, Apart, EntryApart, LockApart, ExpiryTypeOK
      <3> QED BY <2>1, <3>2, <3>3
    <2>2. CASE BecomesDue
      BY <1>0, <2>2
         DEF BecomesDue, Fresh, Overdue, Entry, Apart, EntryApart, LockApart, ExpiryTypeOK
    <2>3. CASE LeftExpires \/ Overrun
      BY <1>0, <2>3, Slipped
         DEF LeftExpires, Overrun, Apart, EntryApart, LockApart, ExpiryTypeOK
    <2>4. CASE MutexPath
      <3>1. \A v \in 1..shopRow : Plain(v) \in Entry /\ Plain(v).version <= shopRow
        BY <1>0 DEF Plain, Entry
      <3>2. /\ entry' \in {entry, Absent} \/ (entry' \in Entry /\ entry'.version <= shopRow)
            /\ excuses' = excuses \cup {"mixed"}
            /\ UNCHANGED <<shopRow, call, save, edit, owed, slips>>
            /\ rebuildLock' \in {rebuildLock, Unlocked, Left}
        BY <2>4, <3>1 DEF MutexPath
      <3> QED BY <1>0, <3>2 DEF Apart, EntryApart, LockApart, ExpiryTypeOK
    <2>5. CASE UNCHANGED expiryVars
      BY <1>0, <2>5 DEF expiryVars, Apart, EntryApart, LockApart, ExpiryTypeOK
    <2> QED BY <2>1, <2>2, <2>3, <2>4, <2>5
  <1>2. /\ ExpiryTypeOK' /\ PlainInv' /\ StageInv' /\ HolderInv' /\ LockInHand'
        /\ AheadInv' /\ CarryInv' /\ NeverOlder'
    BY <1>0, <1>1, ApartInv
  <1>3. WindowInv'
    BY <1>0, <1>1 DEF ExpiryInv, WindowInv, SomeLoaded, EditOpen, Apart, EntryApart
  <1>4. OutdatedHasCause'
    BY <1>0, <1>1 DEF ExpiryInv, OutdatedHasCause, Apart, EntryApart
  <1> QED BY <1>2, <1>3, <1>4 DEF ExpiryInv

LEMMA ServerDiesInv == ASSUME ExpiryInv, ServerDies PROVE ExpiryInv'
  <1> USE DEF ExpiryInv
  <1>1. PICK dead \in SUBSET Calls :
           /\ call' = [c \in Calls |->
                         IF c \in dead /\ call[c].pc # "done"
                         THEN [pc |-> "failed", val |-> Absent] ELSE call[c]]
           /\ save' = [x \in Savers |->
                         IF x \in dead THEN [pc |-> "done", val |-> Absent] ELSE save[x]]
           /\ rebuildLock' = IF rebuildLock \in dead THEN Left ELSE rebuildLock
    BY DEF ServerDies
  <1>2. /\ slips' \in Nat /\ excuses' = excuses \cup {"failed"}
        /\ UNCHANGED <<shopRow, entry, edit, owed>>
    BY Slipped DEF ServerDies
  <1>3. /\ call' \in [Calls -> Call]
        /\ \A c \in Calls : /\ c \in dead => call'[c].pc \in {"done", "failed"}
                            /\ c \notin dead => call'[c] = call[c]
                            /\ call'[c].val \in {call[c].val, Absent}
    BY <1>1 DEF ExpiryTypeOK, Call
  <1>4. /\ save' \in [Savers -> Save]
        /\ \A x \in Savers : /\ x \in dead => save'[x].pc = "done"
                             /\ x \notin dead => save'[x] = save[x]
    BY <1>1 DEF ExpiryTypeOK, Save
  <1>5. \A c \in Calls : InSection(c)' <=> (InSection(c) /\ c \notin dead)
    BY <1>3, <1>4 DEF InSection, Savers
  <1>6. \A x \in Savers : save'[x].pc = "loaded" => save'[x] = save[x]
    BY <1>4
  <1>7. ExpiryTypeOK'
    BY <1>1, <1>2, <1>3, <1>4 DEF ExpiryTypeOK
  <1>8. PlainInv' /\ StageInv'
    BY <1>2, <1>3, <1>4 DEF PlainInv, IsPlain, StageInv, Before, Savers
  <1>9. HolderInv' /\ LockInHand'
    BY <1>1, <1>2, <1>5 DEF HolderInv, LockInHand
  <1>10. AheadInv' /\ CarryInv'
    BY <1>2, <1>3, <1>6 DEF AheadInv, CarryInv
  <1>11. NeverOlder' /\ OutdatedHasCause'
    BY <1>2, <1>3 DEF NeverOlder, OutdatedHasCause
  <1>12. WindowInv'
    BY <1>2, <1>6 DEF WindowInv, EditOpen, SomeLoaded
  <1> QED BY <1>7, <1>8, <1>9, <1>10, <1>11, <1>12

LEMMA ExpiryNextInv == ASSUME ExpiryInv, [ExpiryNext]_expiryVars PROVE ExpiryInv'
  <1>1. CASE \E c \in Calls :
                \/ FindNothing(c) \/ FindFresh(c) \/ FindDue(c) \/ FindPlain(c) \/ FindLocked(c)
                \/ TakeLock(c) \/ RecheckFresh(c) \/ UnlockRefreshed(c) \/ Submit(c)
                \/ CallerRan(c) \/ RecheckPlain(c) \/ Discard(c) \/ CallBreaks(c)
                \/ TaskUnlocks(c) \/ TaskUnlockBreaks(c)
    BY <1>1, CallTurns, SubmitInv, TaskUnlockInv
  <1>2. CASE \E x \in Savers : LoadShop(x) \/ WriteEntry(x) \/ SaveBreaks(x)
    BY <1>2, LoadShopInv, SavedInv
  <1>3. CASE \E e \in Edits :
                DeleteEntry(e) \/ DeleteEntryBreaks(e) \/ Commit(e) \/ RollBack(e)
    BY <1>3, EditInv
  <1>4. CASE \/ Compensate \/ GiveUp \/ BecomesDue \/ LeftExpires \/ Overrun
             \/ MutexPath \/ UNCHANGED expiryVars
    BY <1>4, ElsewhereInv
  <1>5. CASE ServerDies
    BY <1>5, ServerDiesInv
  <1> QED BY <1>1, <1>2, <1>3, <1>4, <1>5 DEF ExpiryNext, Settled

(* The inductive invariant of the logical expiry: who rebuilds has the lock, *)
(* what it carries is the newest shop anybody has seen.                      *)
THEOREM ExpiryInvariant == ExpirySpec => []ExpiryInv
  <1>1. ExpiryInit => ExpiryInv
    BY ExpiryInitInv
  <1>2. ExpiryInv /\ [ExpiryNext]_expiryVars => ExpiryInv'
    BY ExpiryNextInv
  <1> QED BY <1>1, <1>2, PTL DEF ExpirySpec

(* Every variable keeps its type. *)
THEOREM ExpiryTypeCorrect == ExpirySpec => []ExpiryTypeOK
  <1>1. ExpiryInv => ExpiryTypeOK
    BY DEF ExpiryInv
  <1> QED BY <1>1, ExpiryInvariant, PTL

(* Rebuilds take turns, though caller and pool share one lock. *)
THEOREM RebuildsTakeTurns == ExpirySpec => []OneAtATime
  <1>1. ExpiryInv => OneAtATime
    BY DEF ExpiryInv, HolderInv, OneAtATime
  <1> QED BY <1>1, ExpiryInvariant, PTL

(* Every lock that is held will be given back, or was left for a cause. *)
THEOREM LocksAreGivenBack == ExpirySpec => []LockInHand
  <1>1. ExpiryInv => LockInHand
    BY DEF ExpiryInv
  <1> QED BY <1>1, ExpiryInvariant, PTL

(* While rebuilds take turns, the shops shown only get newer. *)
THEOREM ShopsGetNewer == ExpirySpec => []NeverOlder
  <1>1. ExpiryInv => NeverOlder
    BY DEF ExpiryInv
  <1> QED BY <1>1, ExpiryInvariant, PTL

(* An outdated entry has its cause. *)
THEOREM OutdatedExplained == ExpirySpec => []OutdatedHasCause
  <1>1. ExpiryInv => OutdatedHasCause
    BY DEF ExpiryInv
  <1> QED BY <1>1, ExpiryInvariant, PTL
=============================================================================
