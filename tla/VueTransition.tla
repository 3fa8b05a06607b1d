--------------------------- MODULE VueTransition ---------------------------
(***************************************************************************)
(* <transition> of js/vue.js around one child, as blog-edit.html has it     *)
(* around its shop dialog (there with v-show; v-if and the modes of the     *)
(* component are the same code).  The data may change again before an       *)
(* animation has begun or ended, while frames and end events of earlier     *)
(* ones are still to come.  CSS transitions without hooks of the page.      *)
(***************************************************************************)
EXTENDS Integers, Sequences, SequencesExt, FiniteSets

CONSTANTS Modes,        \* "show": v-show; "default", "out-in", "in-out": v-if
          Kinds,        \* the children the v-if chain has, by key and tag
          MaxToggles    \* bound: changes of the data

VARIABLES mode,
          wanted,       \* what the data asks for: a kind or Nobody
          current,      \* element of the vnode the last render returned, or NoElement
          leaving,      \* _leaving of the component
          dirty,        \* a render is queued
          elements,     \* every element made for the child
          onceCbs,      \* the once-callbacks made by enter and leave
          frames,       \* callbacks given to nextFrame
          ends,         \* callbacks given to whenTransitionEnds
          pendingNodes, \* parent._pending: the leaving element of each kind
          toggles

transitionVars == <<mode, wanted, current, leaving, dirty, elements, onceCbs, frames, ends,
                    pendingNodes, toggles>>

Nobody == "nobody"
NoElement == 0
NoCallback == 0

ASSUME KindsAssumption == Kinds # {} /\ Nobody \notin Kinds

\* v-show has one element; the data asks for it or for nothing.
ShowKind == CHOOSE k \in Kinds : TRUE
Wishes == (IF mode = "show" THEN {ShowKind} ELSE Kinds) \cup {Nobody}

\* enterCb and leaveCb are the callbacks waiting on the element; delayLeave,
\* afterLeave and releases are the hooks that out-in and in-out merged into its
\* transition: put its own leave off, render again when it has left, and start
\* the leave of another element when it has entered.
FreshElement(kind) == [kind |-> kind, inDom |-> TRUE, display |-> TRUE, classes |-> {},
                      enterCb |-> NoCallback, leaveCb |-> NoCallback,
                      delayLeave |-> FALSE, afterLeave |-> FALSE, releases |-> NoElement]

-----------------------------------------------------------------------------
(* enter, leave and their callbacks, on the record D of all they change.   *)
Stage == [leaving |-> leaving, dirty |-> dirty, els |-> elements, cbs |-> onceCbs,
          frames |-> frames, ends |-> ends, pending |-> pendingNodes]
SetStage(D) ==
    /\ leaving' = D.leaving /\ dirty' = D.dirty /\ elements' = D.els /\ onceCbs' = D.cbs
    /\ frames' = D.frames /\ ends' = D.ends /\ pendingNodes' = D.pending

\* performLeave: the leave begins, unless it was cancelled while it waited.
PerformLeave(D, e, show) ==
    LET c == D.els[e].leaveCb IN
    IF c = NoCallback \/ D.cbs[c].cancelled THEN D
    ELSE [D EXCEPT !.pending = IF show THEN @ ELSE [@ EXCEPT ![D.els[e].kind] = e],
                   !.els[e].classes = @ \cup {"leave", "leave-active"},
                   !.frames = @ \cup {c}]

\* The callback of a leave: forget it, clear the classes, remove or hide the
\* element and, in out-in, ask for the render that shows the next one.
LeaveOver(D, c, show) ==
    LET e == D.cbs[c].el
        cancelled == D.cbs[c].cancelled
        forget == [D EXCEPT !.pending = IF D.els[e].inDom THEN [@ EXCEPT ![D.els[e].kind] = NoElement]
                                        ELSE @,
                            !.els[e].classes = @ \ {"leave-to", "leave-active"},
                            !.cbs[c].called = TRUE]
        over == IF cancelled
                THEN [forget EXCEPT !.els[e].classes = @ \ {"leave"}]
                ELSE [forget EXCEPT !.els[e].display = IF show THEN FALSE ELSE @,
                                    !.els[e].inDom = IF show THEN @ ELSE FALSE,
                                    !.leaving = IF D.els[e].afterLeave THEN FALSE ELSE @,
                                    !.dirty = @ \/ D.els[e].afterLeave]
    IN [over EXCEPT !.els[e].leaveCb = NoCallback]

\* The callback of an enter; afterEnter and enterCancelled both start the leave
\* that in-out put off.
EnterOver(D, c, show) ==
    LET e == D.cbs[c].el
        clear == [D EXCEPT !.els[e].classes = @ \ ({"enter-to", "enter-active"}
                               \cup (IF D.cbs[c].cancelled THEN {"enter"} ELSE {})),
                           !.cbs[c].called = TRUE]
        hooks == IF D.els[e].releases = NoElement THEN clear
                 ELSE PerformLeave([clear EXCEPT !.els[e].releases = NoElement],
                                   D.els[e].releases, show)
    IN [hooks EXCEPT !.els[e].enterCb = NoCallback]

\* once(): a callback does its work the first time it is called.
Call(D, c, show) ==
    IF D.cbs[c].called THEN D
    ELSE IF D.cbs[c].kind = "enter" THEN EnterOver(D, c, show) ELSE LeaveOver(D, c, show)

Cancel(D, c, show) ==
    IF c = NoCallback THEN D ELSE Call([D EXCEPT !.cbs[c].cancelled = TRUE], c, show)

NewCallback(e, kind) == [el |-> e, kind |-> kind, called |-> FALSE, cancelled |-> FALSE]

Enter(D, e, show) ==
    LET C == Cancel(D, D.els[e].leaveCb, show)
        c == Len(C.cbs) + 1
    IN IF C.els[e].enterCb # NoCallback THEN C
       ELSE [C EXCEPT !.cbs = Append(@, NewCallback(e, "enter")),
                      !.els[e].enterCb = c,
                      !.els[e].classes = @ \cup {"enter", "enter-active"},
                      !.els[e].display = TRUE,
                      !.frames = @ \cup {c}]

Leave(D, e, show) ==
    LET C == Cancel(D, D.els[e].enterCb, show)
        c == Len(C.cbs) + 1
        L == [C EXCEPT !.cbs = Append(@, NewCallback(e, "leave")), !.els[e].leaveCb = c]
    IN IF C.els[e].leaveCb # NoCallback THEN C
       ELSE IF C.els[e].delayLeave THEN [L EXCEPT !.els[e].delayLeave = FALSE]
       ELSE PerformLeave(L, e, show)

\* The insert hook enter() merged: a leaving element of the same kind goes now.
InsertHook(D, e) ==
    LET p == D.pending[D.els[e].kind] IN
    IF p # NoElement /\ D.els[p].leaveCb # NoCallback THEN Call(D, D.els[p].leaveCb, FALSE) ELSE D

-----------------------------------------------------------------------------
TransitionInit ==
    /\ mode \in Modes
    /\ wanted \in Wishes
    /\ IF wanted = Nobody /\ mode # "show"
       THEN elements = <<>> /\ current = NoElement
       ELSE /\ elements = <<[FreshElement(IF wanted = Nobody THEN ShowKind ELSE wanted)
                               EXCEPT !.display = (wanted # Nobody)]>>
            /\ current = IF wanted = Nobody THEN NoElement ELSE 1
    /\ leaving = FALSE /\ dirty = FALSE
    /\ onceCbs = <<>> /\ frames = {} /\ ends = {}
    /\ pendingNodes = [k \in Kinds |-> NoElement]
    /\ toggles = 0

\* The page changes the data; the render comes with the next flush.
Toggle(k) ==
    /\ toggles < MaxToggles
    /\ k \in Wishes \ {wanted}
    /\ wanted' = k
    /\ dirty' = TRUE
    /\ toggles' = toggles + 1
    /\ UNCHANGED <<mode, current, leaving, elements, onceCbs, frames, ends, pendingNodes>>

\* v-show: the update hook of the directive compares the value with the old one.
UpdateShow ==
    /\ dirty /\ mode = "show"
    /\ LET D == [Stage EXCEPT !.dirty = FALSE] IN
         SetStage(IF (wanted # Nobody) = (current # NoElement) THEN D
                  ELSE IF wanted # Nobody THEN Enter(D, 1, TRUE) ELSE Leave(D, 1, TRUE))
    /\ current' = IF wanted = Nobody THEN NoElement ELSE 1
    /\ UNCHANGED <<mode, wanted, toggles>>

Appears(D, kind) == [D EXCEPT !.els = Append(@, FreshElement(kind))]
Old == elements[current]

\* render of the component with v-if, and the patch that follows: the new
\* element is made and enters, the old one leaves, then the insert hooks run.
RenderSame ==
    /\ dirty /\ mode # "show"
    /\ current # NoElement /\ ~leaving /\ wanted = Old.kind
    /\ SetStage([Stage EXCEPT !.dirty = FALSE])
    /\ UNCHANGED <<mode, wanted, current, toggles>>

RenderNothing ==
    /\ dirty /\ mode # "show"
    /\ wanted = Nobody \/ leaving
    /\ LET D == [Stage EXCEPT !.dirty = FALSE] IN
         SetStage(IF current = NoElement THEN D ELSE Leave(D, current, FALSE))
    /\ current' = NoElement
    /\ UNCHANGED <<mode, wanted, toggles>>

\* out-in: a placeholder is rendered until the old child has left.
RenderOutIn ==
    /\ dirty /\ mode = "out-in"
    /\ wanted # Nobody /\ ~leaving /\ current # NoElement /\ wanted # Old.kind
    /\ SetStage(Leave([Stage EXCEPT !.dirty = FALSE, !.leaving = TRUE,
                                    !.els[current].afterLeave = TRUE], current, FALSE))
    /\ current' = NoElement
    /\ UNCHANGED <<mode, wanted, toggles>>

\* in-out: the old child waits for the new one.
RenderNext ==
    /\ dirty /\ mode # "show"
    /\ wanted # Nobody /\ ~leaving
    /\ current # NoElement => wanted # Old.kind /\ mode # "out-in"
    /\ LET e == Len(elements) + 1
           inOut == mode = "in-out" /\ current # NoElement
           made == Appears([Stage EXCEPT !.dirty = FALSE], wanted)
           hooked == IF inOut THEN [made EXCEPT !.els[e].releases = current,
                                                !.els[current].delayLeave = TRUE] ELSE made
           entered == Enter(hooked, e, FALSE)
           left == IF current = NoElement THEN entered ELSE Leave(entered, current, FALSE)
       IN SetStage(InsertHook(left, e)) /\ current' = e
    /\ UNCHANGED <<mode, wanted, toggles>>

\* toClass of an enter and of a leave.
EndClass(kind) == IF kind = "enter" THEN "enter-to" ELSE "leave-to"

(* Mutant of Frame: it does not look at cb.cancelled. *)
FrameAnyway(c) ==
    /\ c \in frames
    /\ LET e == onceCbs[c].el
           kind == onceCbs[c].kind
       IN elements' = [elements EXCEPT ![e].classes = (@ \ {kind}) \cup {EndClass(kind)}]
    /\ ends' = ends \cup {c}
    /\ frames' = frames \ {c}
    /\ UNCHANGED <<mode, wanted, current, leaving, dirty, onceCbs, pendingNodes, toggles>>

\* The second animation frame: from the start class to the end class.
Frame(c) ==
    /\ c \in frames
    /\ LET e == onceCbs[c].el
           kind == onceCbs[c].kind
       IN /\ elements' = [elements EXCEPT ![e].classes =
                             (@ \ {kind}) \cup (IF onceCbs[c].cancelled THEN {} ELSE {EndClass(kind)})]
          /\ ends' = IF onceCbs[c].cancelled THEN ends ELSE ends \cup {c}
    /\ frames' = frames \ {c}
    /\ UNCHANGED <<mode, wanted, current, leaving, dirty, onceCbs, pendingNodes, toggles>>

\* The end event, or the timeout that stands in for it.
TransitionEnds(c) ==
    /\ c \in ends
    /\ SetStage(Call([Stage EXCEPT !.ends = @ \ {c}], c, mode = "show"))
    /\ UNCHANGED <<mode, wanted, current, toggles>>

TransitionNext ==
    \/ \E k \in Kinds \cup {Nobody} : Toggle(k)
    \/ UpdateShow \/ RenderSame \/ RenderNothing \/ RenderOutIn \/ RenderNext
    \/ \E c \in frames : Frame(c)
    \/ \E c \in ends : TransitionEnds(c)

TransitionSpec == TransitionInit /\ [][TransitionNext]_transitionVars

-----------------------------------------------------------------------------
Settled == ~dirty /\ frames = {} /\ ends = {}
OnScreen == { e \in DOMAIN elements : elements[e].inDom /\ elements[e].display }

\* However often the data changed meanwhile: when no render, frame or end event
\* is outstanding, the screen shows what the data asks for and nothing else,
\* bare of transition classes, and neither callback nor placeholder is stuck.
SettlesOnData ==
    Settled =>
        /\ { elements[e].kind : e \in OnScreen } = {wanted} \ {Nobody}
        /\ Cardinality(OnScreen) <= 1
        /\ ~leaving
        /\ \A e \in OnScreen : elements[e].classes = {}
        /\ \A e \in DOMAIN elements : elements[e].enterCb = NoCallback /\ elements[e].leaveCb = NoCallback
=============================================================================
