---------------------------- MODULE VueScheduler ----------------------------
(***************************************************************************)
(* The asynchronous update queue of js/vue.js, the runtime every page of   *)
(* the front end runs in: queueWatcher and flushSchedulerQueue on top of   *)
(* nextTick and flushCallbacks.  JavaScript has one thread: `phase` says   *)
(* what is on its stack, and a step is a stretch of code between two       *)
(* points at which code of the page may run.  What a watcher does when it  *)
(* is run is left to the modules that extend this one; here any watcher    *)
(* may be notified while code of the page is running.                      *)
(***************************************************************************)
EXTENDS Integers, Sequences, SequencesExt

CONSTANTS Watchers,         \* ids given by the counter uid$1 (positive)
          MaxUpdateCount,   \* MAX_UPDATE_COUNT: re-runs before a flush is stopped
          MaxQueue,         \* bound: entries of one flush
          MaxTicks          \* bound: callbacks waiting for the next tick

ASSUME WatchersAssumption == Watchers \subseteq Nat \ {0}
ASSUME BoundsAssumption == MaxUpdateCount \in Nat /\ MaxQueue \in Nat /\ MaxTicks \in Nat

VARIABLES queue,          \* the watchers of this flush, those already run included
          has,            \* ids whose entry in the map `has` is true
          circular,       \* how often a watcher re-queued itself in this flush
          waiting,        \* a flush has been asked for
          flushing,       \* flushSchedulerQueue is in its loop
          index,          \* the entry the loop is at
          callbacks,      \* nextTick callbacks for the next tick
          pending,        \* a timer for flushCallbacks is set
          timer,          \* the kind of that timer
          useMacroTask,   \* an event handler is (or was) being wrapped
          copies,         \* callbacks flushCallbacks has still to call
          updatedQueue,   \* watchers whose updated hook is still to be called
          phase           \* what is running

schedulerVars == <<queue, has, circular, waiting, flushing, index>>
tickVars == <<callbacks, pending, timer, useMacroTask, copies>>
vars == <<schedulerVars, tickVars, updatedQueue, phase>>

Flush == "flushSchedulerQueue"
PageTick == "page"                    \* a callback given to $nextTick by a page
Phases == {"idle",      \* the stack is empty
           "handler",   \* a DOM event handler, wrapped by withMacroTask
           "then",      \* a promise callback or timer of the page
           "ticks",     \* flushCallbacks, between two callbacks
           "callback",  \* a callback of the page called by flushCallbacks
           "loop",      \* flushSchedulerQueue, between two watchers
           "run",       \* Watcher.run of queue[index]
           "hooks"}     \* callUpdatedHooks
PageCode == {"handler", "then", "callback", "run", "hooks"}

Entries(q) == { q[i] : i \in 1..Len(q) }
Ascending(q) == \A i, j \in DOMAIN q : i < j => q[i] < q[j]
InsertAfter(q, i, w) ==
    [j \in 1..(Len(q) + 1) |-> IF j <= i THEN q[j] ELSE IF j = i + 1 THEN w ELSE q[j - 1]]

Init ==
    /\ queue = <<>> /\ has = {} /\ circular = [w \in Watchers |-> 0]
    /\ waiting = FALSE /\ flushing = FALSE /\ index = 0
    /\ callbacks = <<>> /\ pending = FALSE /\ timer = "none"
    /\ useMacroTask = FALSE /\ copies = <<>>
    /\ updatedQueue = <<>> /\ phase = "idle"

-----------------------------------------------------------------------------
(* Mutant of NextTick: the latest callback is called first. *)
NextTickFirst(cb) ==
    /\ callbacks' = <<cb>> \o callbacks
    /\ pending' = TRUE
    /\ timer' = IF pending THEN timer ELSE IF useMacroTask THEN "macro" ELSE "micro"
    /\ UNCHANGED <<useMacroTask, copies>>

(* nextTick: the callback is kept, the timer set unless one is.            *)
NextTick(cb) ==
    /\ callbacks' = Append(callbacks, cb)
    /\ pending' = TRUE
    /\ timer' = IF pending THEN timer ELSE IF useMacroTask THEN "macro" ELSE "micro"
    /\ UNCHANGED <<useMacroTask, copies>>

\* A page calls $nextTick.
CallNextTick ==
    /\ phase \in PageCode
    /\ Len(callbacks) < MaxTicks
    /\ NextTick(PageTick)
    /\ UNCHANGED <<schedulerVars, updatedQueue, phase>>

(* The stack is empty and the browser calls the page: a DOM event through   *)
(* withMacroTask (not before the microtasks are done), or a promise.        *)
BeginHandler ==
    /\ phase = "idle" /\ timer # "micro"
    /\ phase' = "handler"
    /\ useMacroTask' = TRUE
    /\ UNCHANGED <<schedulerVars, callbacks, pending, timer, copies, updatedQueue>>

BeginThen ==
    /\ phase = "idle"
    /\ phase' = "then"
    /\ UNCHANGED <<schedulerVars, tickVars, updatedQueue>>

\* withMacroTask resets the flag after the handler; an exception skips that.
EndTurn(throws) ==
    /\ phase \in {"handler", "then"}
    /\ phase' = "idle"
    /\ useMacroTask' = IF phase = "handler" /\ ~throws THEN FALSE ELSE useMacroTask
    /\ UNCHANGED <<schedulerVars, callbacks, pending, timer, copies, updatedQueue>>

-----------------------------------------------------------------------------
(* queueWatcher: a watcher that waits already is skipped.  During a flush    *)
(* the loop over i goes back from the end of the queue to the first id that  *)
(* is not larger, but not beyond the entry that is being run.                *)
StopsAt(i, w) == /\ i = index \/ queue[i] <= w
                 /\ \A j \in (i + 1)..Len(queue) : queue[j] > w

QueueWatcher(w) ==
    IF w \in has
    THEN UNCHANGED <<schedulerVars, tickVars>>
    ELSE /\ has' = has \cup {w}
         /\ IF flushing
            THEN \E i \in index..Len(queue) : StopsAt(i, w) /\ queue' = InsertAfter(queue, i, w)
            ELSE queue' = Append(queue, w)
         /\ waiting' = TRUE
         /\ IF waiting THEN UNCHANGED tickVars ELSE NextTick(Flush)
         /\ UNCHANGED <<circular, flushing, index>>

\* Code of the page changes data a watcher depends on: Dep.notify, update().
Notify(w) ==
    /\ phase \in PageCode
    /\ Len(queue) < MaxQueue
    /\ QueueWatcher(w)
    /\ UNCHANGED <<updatedQueue, phase>>

-----------------------------------------------------------------------------
(* flushCallbacks: the timer fires on an empty stack, the list is copied   *)
(* and emptied, and the copies are called in order.                        *)
FlushCallbacks ==
    /\ phase = "idle" /\ pending
    /\ phase' = "ticks"
    /\ copies' = callbacks
    /\ callbacks' = <<>> /\ pending' = FALSE /\ timer' = "none"
    /\ UNCHANGED <<schedulerVars, useMacroTask, updatedQueue>>

CallPageTick ==
    /\ phase = "ticks" /\ copies # <<>> /\ Head(copies) = PageTick
    /\ phase' = "callback"
    /\ copies' = Tail(copies)
    /\ UNCHANGED <<schedulerVars, callbacks, pending, timer, useMacroTask, updatedQueue>>

ReturnFromTick ==
    /\ phase = "callback"
    /\ phase' = "ticks"
    /\ UNCHANGED <<schedulerVars, tickVars, updatedQueue>>

EndTicks ==
    /\ phase = "ticks" /\ copies = <<>>
    /\ phase' = "idle"
    /\ UNCHANGED <<schedulerVars, tickVars, updatedQueue>>

-----------------------------------------------------------------------------
(* Mutant of BeginFlush: the queue is taken as it was filled. *)
BeginUnsorted ==
    /\ phase = "ticks" /\ copies # <<>> /\ Head(copies) = Flush
    /\ copies' = Tail(copies)
    /\ flushing' = TRUE
    /\ index' = 0
    /\ phase' = "loop"
    /\ UNCHANGED <<queue, has, circular, waiting, callbacks, pending, timer, useMacroTask,
                   updatedQueue>>

(* flushSchedulerQueue: sort, then loop over a queue that may grow.        *)
BeginFlush ==
    /\ phase = "ticks" /\ copies # <<>> /\ Head(copies) = Flush
    /\ copies' = Tail(copies)
    /\ flushing' = TRUE
    /\ index' = 0
    /\ queue' \in { q \in [1..Len(queue) -> Entries(queue)] :
                      Ascending(q) /\ Entries(q) = Entries(queue) }
    /\ phase' = "loop"
    /\ UNCHANGED <<has, circular, waiting, callbacks, pending, timer, useMacroTask, updatedQueue>>

RunWatcher(w) ==
    /\ phase = "loop" /\ index < Len(queue)
    /\ w = queue[index + 1]
    /\ index' = index + 1
    /\ has' = has \ {w}
    /\ phase' = "run"
    /\ UNCHANGED <<queue, circular, waiting, flushing, tickVars, updatedQueue>>

(* Mutant of ResetSchedulerState: `waiting` stays set. *)
ResetButWaiting ==
    /\ queue' = <<>> /\ has' = {} /\ circular' = [w \in Watchers |-> 0]
    /\ flushing' = FALSE /\ index' = 0
    /\ UNCHANGED waiting

ResetSchedulerState ==
    /\ queue' = <<>> /\ has' = {} /\ circular' = [w \in Watchers |-> 0]
    /\ waiting' = FALSE /\ flushing' = FALSE /\ index' = 0

\* The loop ends: the queue is copied, reset, and the hooks are called.
EndFlush ==
    /\ updatedQueue' = queue
    /\ ResetSchedulerState
    /\ phase' = "hooks"
    /\ UNCHANGED tickVars

LoopDone == phase = "loop" /\ index = Len(queue) /\ EndFlush

\* The watcher returns; the development build counts it if it queued itself.
ReturnFromRun ==
    /\ phase = "run"
    /\ LET w == queue[index]  n == circular[w] + 1 IN
         IF w \in has
         THEN IF n > MaxUpdateCount
              THEN EndFlush
              ELSE /\ circular' = [circular EXCEPT ![w] = n]
                   /\ phase' = "loop"
                   /\ UNCHANGED <<queue, has, waiting, flushing, index, tickVars, updatedQueue>>
         ELSE /\ phase' = "loop"
              /\ UNCHANGED <<schedulerVars, tickVars, updatedQueue>>

\* An exception of the patch leaves flushSchedulerQueue without the reset
\* and is caught by the try of nextTick.
ThrowFromRun ==
    /\ phase = "run"
    /\ phase' = "ticks"
    /\ UNCHANGED <<schedulerVars, tickVars, updatedQueue>>

\* callUpdatedHooks goes through the copy from its end.
CallUpdatedHook ==
    /\ phase = "hooks" /\ updatedQueue # <<>>
    /\ updatedQueue' = Front(updatedQueue)
    /\ UNCHANGED <<schedulerVars, tickVars, phase>>

EndHooks ==
    /\ phase = "hooks" /\ updatedQueue = <<>>
    /\ phase' = "ticks"
    /\ UNCHANGED <<schedulerVars, tickVars, updatedQueue>>

-----------------------------------------------------------------------------
Next ==
    \/ BeginHandler \/ BeginThen
    \/ \E throws \in BOOLEAN : EndTurn(throws)
    \/ CallNextTick
    \/ \E w \in Watchers : Notify(w) \/ RunWatcher(w)
    \/ FlushCallbacks \/ CallPageTick \/ ReturnFromTick \/ EndTicks
    \/ BeginFlush \/ LoopDone \/ ReturnFromRun \/ ThrowFromRun
    \/ CallUpdatedHook \/ EndHooks

Spec == Init /\ [][Next]_vars

-----------------------------------------------------------------------------
SchedulerTypeOK ==
    /\ queue \in Seq(Watchers) /\ has \subseteq Watchers
    /\ circular \in [Watchers -> Nat] /\ index \in 0..Len(queue)
    /\ waiting \in BOOLEAN /\ flushing \in BOOLEAN
    /\ callbacks \in Seq({Flush, PageTick}) /\ copies \in Seq({Flush, PageTick})
    /\ pending \in BOOLEAN /\ timer \in {"none", "micro", "macro"}
    /\ useMacroTask \in BOOLEAN
    /\ updatedQueue \in Seq(Watchers) /\ phase \in Phases

Asked(cbs) == \E i \in DOMAIN cbs : cbs[i] = Flush
Once(cbs) == \A i, j \in DOMAIN cbs : cbs[i] = Flush /\ cbs[j] = Flush => i = j

\* The loop of flushSchedulerQueue is on the stack, whatever `flushing` says.
InLoop == phase \in {"loop", "run"}

\* What a watcher's entry in `has` means: it stands in the queue, once, behind
\* what was already run; and nothing else does.
HasIsTheRest ==
    /\ has = { queue[i] : i \in (index + 1)..Len(queue) }
    /\ \A i, j \in (index + 1)..Len(queue) : queue[i] = queue[j] => i = j

\* While it is flushed, what is left of the queue ascends: parents before their
\* children, watch callbacks before the render of their instance.
RestAscends ==
    flushing => \A i, j \in (index + 1)..Len(queue) : i < j => queue[i] < queue[j]

\* The scheduler implements the flush by priority.
Promise == INSTANCE PriorityFlush
               WITH todo <- has, Nobody <- 0,
                    running <- IF phase = "run" THEN queue[index] ELSE 0
ImplementsPriorityFlush == Promise!Spec
=============================================================================
