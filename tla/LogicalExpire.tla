--------------------------- MODULE LogicalExpire ---------------------------
(***************************************************************************)
(* The second way to cache a shop: cache:shop:<id> holds the shop together *)
(* with a date.  After it, queryWithLogicalExpire still answers with the   *)
(* old shop, and one caller, who got lock:shop:<id>, has the pool rebuild  *)
(* the entry; the task gives the lock back.  saveShop2Json also preheats   *)
(* without the lock; update deletes the key, queryWithMutex writes it too. *)
(***************************************************************************)
EXTENDS Integers

CONSTANTS
    Calls,     \* calls of queryWithLogicalExpire
    Preheats,  \* calls of saveShop2Json from outside
    Edits,     \* calls of update
    MaxSlips,  \* bound on failed commands, overrun locks, crashes, rollbacks
    Absent,    \* no key (or the empty string), no shop
    Unlocked, Left  \* lock:shop:<id> is absent / nobody will delete it

ASSUME SlipsAssumption == MaxSlips \in Nat
ASSUME NamesAssumption == /\ Absent \notin Nat
                          /\ Absent \notin [form : {"dated", "plain"}, version : Nat, due : BOOLEAN]
                          /\ Calls \cap Preheats = {}
                          /\ Unlocked \notin Calls /\ Left \notin Calls /\ Unlocked # Left

VARIABLES
    shopRow,     \* the committed version of the shop
    entry,       \* cache:shop:<id>
    rebuildLock, \* lock:shop:<id>; who took it is a ghost
    call,        \* call[c]: where c stands, and the version it will answer with
    save,        \* save[x]: a run of saveShop2Json, in the pool or from outside
    edit,        \* edit[e]: a call of update
    owed,        \* deletions left to topic cache-invalidate
    slips,
    excuses      \* ghost: what happened that breaks a rebuild's order

expiryVars == <<shopRow, entry, rebuildLock, call, save, edit, owed, slips, excuses>>

Savers == Calls \cup Preheats
Call == [pc : {"new", "due", "locked", "refreshed", "runs", "done", "failed"},
         val : Nat \cup {Absent}]
Save == [pc : {"none", "queued", "loaded", "saved", "done"}, val : Nat \cup {Absent}]
Entry == [form : {"dated", "plain"}, version : Nat, due : BOOLEAN]
Dated(v) == [form |-> "dated", version |-> v, due |-> FALSE]
Overdue(v) == [form |-> "dated", version |-> v, due |-> TRUE]
Plain(v) == [form |-> "plain", version |-> v, due |-> FALSE]
Fresh == entry # Absent /\ entry.form = "dated" /\ ~entry.due
Due == entry # Absent /\ entry.form = "dated" /\ entry.due
IsPlain == entry # Absent /\ entry.form = "plain"

Excuses == {"overrun", "mixed", "preheat", "overlap", "failed", "lost"}
Slip == slips < MaxSlips /\ slips' = slips + 1
Excuse(why) == excuses' = excuses \cup {why}
EditOpen == \E e \in Edits : edit[e] = "deleted"

ExpiryInit ==
    /\ shopRow = 1
    /\ entry \in {Absent, Dated(1)}
    /\ rebuildLock = Unlocked
    /\ call = [c \in Calls |-> [pc |-> "new", val |-> Absent]]
    /\ save = [x \in Savers |-> [pc |-> IF x \in Calls THEN "none" ELSE "queued", val |-> Absent]]
    /\ edit = [e \in Edits |-> "new"]
    /\ owed = 0
    /\ slips = 0
    /\ excuses = {}

CallTo(c, label) == call' = [call EXCEPT ![c].pc = label]
CallWith(c, label, v) == call' = [call EXCEPT ![c] = [pc |-> label, val |-> v]]
SaveTo(x, label, v) == save' = [save EXCEPT ![x] = [pc |-> label, val |-> v]]

-----------------------------------------------------------------------------
(* queryWithLogicalExpire. *)

FindNothing(c) ==
    /\ call[c].pc = "new"
    /\ entry = Absent
    /\ CallTo(c, "done")
    /\ UNCHANGED <<shopRow, entry, rebuildLock, save, edit, owed, slips, excuses>>

FindFresh(c) ==
    /\ call[c].pc = "new"
    /\ Fresh
    /\ CallWith(c, "done", entry.version)
    /\ UNCHANGED <<shopRow, entry, rebuildLock, save, edit, owed, slips, excuses>>

FindDue(c) ==
    /\ call[c].pc = "new"
    /\ Due
    /\ CallWith(c, "due", entry.version)
    /\ UNCHANGED <<shopRow, entry, rebuildLock, save, edit, owed, slips, excuses>>

(* A shop as queryWithMutex writes it has no date: NullPointerException. *)
FindPlain(c) ==
    /\ call[c].pc = "new"
    /\ IsPlain
    /\ CallTo(c, "failed")
    /\ UNCHANGED <<shopRow, entry, rebuildLock, save, edit, owed, slips, excuses>>

(* Mutant of FindLocked: the finally of queryWithMutex. *)
FindLockedAndDelete(c) ==
    /\ call[c].pc = "due"
    /\ rebuildLock # Unlocked
    /\ rebuildLock' = Unlocked
    /\ CallTo(c, "done")
    /\ UNCHANGED <<shopRow, entry, save, edit, owed, slips, excuses>>

FindLocked(c) ==
    /\ call[c].pc = "due"
    /\ rebuildLock # Unlocked
    /\ CallTo(c, "done")
    /\ UNCHANGED <<shopRow, entry, rebuildLock, save, edit, owed, slips, excuses>>

(* Mutant of TakeLock: SET instead of SETNX. *)
SetLock(c) ==
    /\ call[c].pc = "due"
    /\ rebuildLock' = c
    /\ CallTo(c, "locked")
    /\ UNCHANGED <<shopRow, entry, save, edit, owed, slips, excuses>>

TakeLock(c) ==
    /\ call[c].pc = "due"
    /\ rebuildLock = Unlocked
    /\ rebuildLock' = c
    /\ CallTo(c, "locked")
    /\ UNCHANGED <<shopRow, entry, save, edit, owed, slips, excuses>>

(* The double check: another rebuild has finished in between. *)
RecheckFresh(c) ==
    /\ call[c].pc = "locked"
    /\ Fresh
    /\ CallWith(c, "refreshed", entry.version)
    /\ UNCHANGED <<shopRow, entry, rebuildLock, save, edit, owed, slips, excuses>>

(* Mutant of UnlockRefreshed: the early return forgets the lock. *)
ReturnRefreshed(c) ==
    /\ call[c].pc = "refreshed"
    /\ CallTo(c, "done")
    /\ UNCHANGED <<shopRow, entry, rebuildLock, save, edit, owed, slips, excuses>>

UnlockRefreshed(c) ==
    /\ call[c].pc = "refreshed"
    /\ rebuildLock' = Unlocked
    /\ CallTo(c, "done")
    /\ UNCHANGED <<shopRow, entry, save, edit, owed, slips, excuses>>

(* The pool takes the task, or (full) lets the caller run it. *)
Submit(c) ==
    /\ call[c].pc = "locked"
    /\ entry = Absent \/ Due
    /\ SaveTo(c, "queued", Absent)
    /\ CallTo(c, "done") \/ CallTo(c, "runs")
    /\ UNCHANGED <<shopRow, entry, rebuildLock, edit, owed, slips, excuses>>

CallerRan(c) ==
    /\ call[c].pc = "runs"
    /\ save[c].pc = "done"
    /\ CallTo(c, "done")
    /\ UNCHANGED <<shopRow, entry, rebuildLock, save, edit, owed, slips, excuses>>

Abandoned(c) == IF rebuildLock = c THEN Left ELSE rebuildLock

(* The same exception under the lock, outside every try. *)
RecheckPlain(c) ==
    /\ call[c].pc = "locked"
    /\ IsPlain
    /\ rebuildLock' = Abandoned(c)
    /\ CallTo(c, "failed")
    /\ UNCHANGED <<shopRow, entry, save, edit, owed, slips, excuses>>

(* A pool that has shut down discards the task without a word. *)
Discard(c) ==
    /\ call[c].pc = "locked"
    /\ entry = Absent \/ Due
    /\ Slip
    /\ Excuse("failed")
    /\ rebuildLock' = Abandoned(c)
    /\ CallTo(c, "done")
    /\ UNCHANGED <<shopRow, entry, save, edit, owed>>

(* A command fails, before or after it took effect. *)
CallBreaks(c) ==
    /\ Slip
    /\ Excuse("failed")
    /\ \/ call[c].pc = "new" /\ rebuildLock' = rebuildLock
       \/ call[c].pc = "due" /\ rebuildLock' \in {rebuildLock,
                                   IF rebuildLock = Unlocked THEN Left ELSE rebuildLock}
       \/ call[c].pc = "locked" /\ rebuildLock' = Abandoned(c)
       \/ call[c].pc = "refreshed" /\ rebuildLock' \in {Unlocked, Abandoned(c)}
    /\ CallTo(c, "failed")
    /\ UNCHANGED <<shopRow, entry, save, edit, owed>>

-----------------------------------------------------------------------------
(* saveShop2Json, and the task around it. *)

(* A preheating and another run carry a shop at the same time. *)
Preheated(x) == \E y \in Savers : save[y].pc = "loaded" /\ {x, y} \cap Preheats # {}

LoadShop(x) ==
    /\ save[x].pc = "queued"
    /\ SaveTo(x, "loaded", shopRow)
    /\ excuses' = excuses \cup (IF Preheated(x) THEN {"preheat"} ELSE {})
                          \cup (IF EditOpen THEN {"overlap"} ELSE {})
    /\ UNCHANGED <<shopRow, entry, rebuildLock, call, edit, owed, slips>>

(* A task has its finally to come. *)
Saved(x) == IF x \in Calls THEN "saved" ELSE "done"

WriteEntry(x) ==
    /\ save[x].pc = "loaded"
    /\ entry' = Dated(save[x].val)
    /\ SaveTo(x, Saved(x), Absent)
    /\ UNCHANGED <<shopRow, rebuildLock, call, edit, owed, slips, excuses>>

SaveBreaks(x) ==
    /\ save[x].pc \in {"queued", "loaded"}
    /\ Slip
    /\ entry' \in {entry, IF save[x].pc = "loaded" THEN Dated(save[x].val) ELSE entry}
    /\ SaveTo(x, Saved(x), Absent)
    /\ Excuse("failed")
    /\ UNCHANGED <<shopRow, rebuildLock, call, edit, owed>>

TaskUnlocks(c) ==
    /\ save[c].pc = "saved"
    /\ rebuildLock' = Unlocked
    /\ SaveTo(c, "done", Absent)
    /\ UNCHANGED <<shopRow, entry, call, edit, owed, slips, excuses>>

TaskUnlockBreaks(c) ==
    /\ save[c].pc = "saved"
    /\ Slip
    /\ Excuse("failed")
    /\ rebuildLock' \in {Unlocked, Abandoned(c)}
    /\ SaveTo(c, "done", Absent)
    /\ UNCHANGED <<shopRow, entry, call, edit, owed>>

-----------------------------------------------------------------------------
(* update and its compensation. *)

SomeLoaded == \E x \in Savers : save[x].pc = "loaded"

(* UPDATE has the row to itself until the commit; the key goes before. *)
Delete(e) ==
    /\ edit[e] = "new" /\ ~EditOpen
    /\ edit' = [edit EXCEPT ![e] = "deleted"]
    /\ excuses' = excuses \cup (IF SomeLoaded THEN {"overlap"} ELSE {})

(* Mutant of DeleteEntry: another key. *)
DeleteNothing(e) ==
    /\ Delete(e)
    /\ UNCHANGED <<shopRow, entry, rebuildLock, call, save, owed, slips>>

DeleteEntry(e) ==
    /\ Delete(e)
    /\ entry' = Absent
    /\ UNCHANGED <<shopRow, rebuildLock, call, save, owed, slips>>

DeleteEntryBreaks(e) ==
    /\ Delete(e)
    /\ Slip
    /\ entry' \in {entry, Absent}
    /\ owed' = owed + 1
    /\ UNCHANGED <<shopRow, rebuildLock, call, save>>

Commit(e) ==
    /\ edit[e] = "deleted"
    /\ shopRow' = shopRow + 1
    /\ edit' = [edit EXCEPT ![e] = "done"]
    /\ UNCHANGED <<entry, rebuildLock, call, save, owed, slips, excuses>>

RollBack(e) ==
    /\ edit[e] = "deleted"
    /\ Slip
    /\ edit' = [edit EXCEPT ![e] = "done"]
    /\ UNCHANGED <<shopRow, entry, rebuildLock, call, save, owed, excuses>>

(* At least once: the same record may be delivered again. *)
Compensate ==
    /\ owed > 0
    /\ owed' \in {owed - 1, owed}
    /\ entry' = Absent
    /\ UNCHANGED <<shopRow, rebuildLock, call, save, edit, slips, excuses>>

(* The last attempt has failed, or the record was never sent. *)
GiveUp ==
    /\ owed > 0
    /\ owed' = owed - 1
    /\ Excuse("lost")
    /\ UNCHANGED <<shopRow, entry, rebuildLock, call, save, edit, slips>>

-----------------------------------------------------------------------------
(* The date passes, the lock's 10 seconds pass, a server dies.             *)

BecomesDue ==
    /\ Fresh
    /\ entry' = Overdue(entry.version)
    /\ UNCHANGED <<shopRow, rebuildLock, call, save, edit, owed, slips, excuses>>

LeftExpires ==
    /\ rebuildLock = Left
    /\ rebuildLock' = Unlocked
    /\ UNCHANGED <<shopRow, entry, call, save, edit, owed, slips, excuses>>

(* The task waits in the queue, or takes, longer than that. *)
Overrun ==
    /\ rebuildLock \in Calls
    /\ Slip
    /\ Excuse("overrun")
    /\ rebuildLock' = Unlocked
    /\ UNCHANGED <<shopRow, entry, call, save, edit, owed>>

(* The calls of one server and their tasks in its pool. *)
ServerDies ==
    /\ Slip
    /\ Excuse("failed")
    /\ \E dead \in SUBSET Calls :
         /\ call' = [c \in Calls |->
                       IF c \in dead /\ call[c].pc # "done"
                       THEN [pc |-> "failed", val |-> Absent] ELSE call[c]]
         /\ save' = [x \in Savers |->
                       IF x \in dead THEN [pc |-> "done", val |-> Absent] ELSE save[x]]
         /\ rebuildLock' = IF rebuildLock \in dead THEN Left ELSE rebuildLock
    /\ UNCHANGED <<shopRow, entry, edit, owed>>

(* queryWithMutex under the same two keys: it writes a committed version    *)
(* without a date, its entry expires, and its finally deletes any lock.     *)
MutexPath ==
    /\ Excuse("mixed")
    /\ entry' \in {entry, Absent} \cup {Plain(v) : v \in 1..shopRow}
    /\ rebuildLock' \in {rebuildLock, Unlocked,
                         IF rebuildLock = Unlocked THEN Left ELSE rebuildLock}
    /\ UNCHANGED <<shopRow, call, save, edit, owed, slips>>

-----------------------------------------------------------------------------
(* The bounded sets of calls are used up and nothing is left to expire. *)
Settled ==
    /\ \A c \in Calls : call[c].pc \in {"done", "failed"}
    /\ UNCHANGED expiryVars

ExpiryNext ==
    \/ \E c \in Calls :
          \/ FindNothing(c) \/ FindFresh(c) \/ FindDue(c) \/ FindPlain(c) \/ FindLocked(c)
          \/ TakeLock(c) \/ RecheckFresh(c) \/ UnlockRefreshed(c) \/ Submit(c) \/ CallerRan(c)
          \/ RecheckPlain(c) \/ Discard(c) \/ CallBreaks(c)
          \/ TaskUnlocks(c) \/ TaskUnlockBreaks(c)
    \/ \E x \in Savers : LoadShop(x) \/ WriteEntry(x) \/ SaveBreaks(x)
    \/ \E e \in Edits : DeleteEntry(e) \/ DeleteEntryBreaks(e) \/ Commit(e) \/ RollBack(e)
    \/ Compensate \/ GiveUp \/ BecomesDue \/ LeftExpires \/ Overrun \/ ServerDies
    \/ MutexPath \/ Settled

ExpirySpec == ExpiryInit /\ [][ExpiryNext]_expiryVars

-----------------------------------------------------------------------------
(* Properties. *)

ExpiryTypeOK ==
    /\ shopRow \in Nat
    /\ entry \in Entry \cup {Absent}
    /\ rebuildLock \in Calls \cup {Unlocked, Left}
    /\ call \in [Calls -> Call]
    /\ save \in [Savers -> Save]
    /\ edit \in [Edits -> {"new", "deleted", "done"}]
    /\ owed \in Nat
    /\ slips \in Nat
    /\ excuses \subseteq Excuses

(* From tryLock to the unLock of the caller or of its task. *)
InSection(c) == \/ call[c].pc \in {"locked", "refreshed"}
                \/ save[c].pc \in {"queued", "loaded", "saved"}

Without(whys) == excuses \cap whys = {}

(* One caller or task rebuilds at a time, though one takes the lock and     *)
(* another thread gives it back: unless the lock runs out under a rebuild   *)
(* or queryWithMutex deletes it.                                            *)
OneAtATime ==
    Without({"overrun", "mixed"}) =>
        \A c, d \in Calls : InSection(c) /\ InSection(d) => c = d

(* A lock that is held has a thread that will give it back: no early        *)
(* return, refused task or failed rebuild leaves it to its 10 seconds.      *)
(* Only a failed command, a dead server or a pool shut down does, and the   *)
(* exception that an entry of queryWithMutex causes under the lock.         *)
LockInHand ==
    /\ rebuildLock \in Calls => InSection(rebuildLock)
    /\ rebuildLock = Left => ~Without({"failed", "mixed"})

(* Nobody is shown an older shop than an earlier caller was: rebuilds that  *)
(* break off, deletions in between and dates that pass do not bring an old  *)
(* version back, only two rebuilds at once do.                              *)
NeverOlder ==
    Without({"overrun", "mixed", "preheat"}) /\ entry # Absent =>
        \A c \in Calls : call[c].val # Absent => call[c].val <= entry.version

(* A shop behind the database is in Redis only because a rebuild overlapped *)
(* the end of an update, or a deletion failed and is owed or was given up,  *)
(* or by queryWithMutex: the date does not make it so.                      *)
OutdatedHasCause ==
    entry # Absent /\ entry.version < shopRow =>
        owed > 0 \/ ~Without({"overlap", "mixed", "lost"})
=============================================================================
