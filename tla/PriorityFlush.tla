--------------------------- MODULE PriorityFlush ---------------------------
(***************************************************************************)
(* What the update scheduler of vue.js promises to the watchers of a page: *)
(* a watcher waits at most once, the one created first runs first (so a    *)
(* parent, whose watchers are created before its children's, comes before  *)
(* them), and a watcher notified while it waits needs no second run.       *)
(***************************************************************************)
EXTENDS Integers

CONSTANTS Watchers,    \* watcher ids, in creation order (uid$1)
          Nobody       \* no watcher is running

VARIABLES todo,        \* watchers that were notified and have not run since
          running      \* the watcher that is being run

Init == todo = {} /\ running = Nobody

Notify(w) == todo' = todo \cup {w} /\ UNCHANGED running

Run(w) == /\ running = Nobody
          /\ w \in todo
          /\ \A v \in todo : w <= v
          /\ todo' = todo \ {w}
          /\ running' = w

Finish == running # Nobody /\ running' = Nobody /\ UNCHANGED todo

\* The development build stops a flush it takes for an endless one.
GiveUp == running # Nobody /\ running' = Nobody /\ todo' = {}

Next == \/ \E w \in Watchers : Notify(w) \/ Run(w)
        \/ Finish
        \/ GiveUp

Spec == Init /\ [][Next]_<<todo, running>>
=============================================================================
