----------------------------- MODULE VueElement -----------------------------
(***************************************************************************)
(* One element of a page over its life in js/vue.js: the modules that bring *)
(* the data of each new vnode to it (attributes, class, listeners, value,   *)
(* style, directives) by comparing with the vnode before, and v-model on a  *)
(* text field, as the title of blog-edit.html has it, with the composition  *)
(* of Chinese characters in an input method.  Values of attributes, styles  *)
(* and handlers are model values, events are numbers.  `.once` listeners,   *)
(* xlink and enumerated attributes and the IE branches are left out: no     *)
(* page uses them.                                                          *)
(***************************************************************************)
EXTENDS Integers, Sequences, FiniteSets

CONSTANTS Texts,       \* what a text field may hold
          Falsy,       \* a value for which an attribute is taken away
          VNodeData,   \* bound: the data a render may give the element
          Empty,       \* the data of emptyNode, in VNodeData
          TransitionClasses,
          MaxChanges   \* bound: changes by the page and the user

\* emptyNode has no data; a vnode has finitely many listeners; and no page uses
\* a class that belongs to a transition as a class of its own.
ASSUME DataAssumption ==
    /\ Empty \in VNodeData
    /\ \A f \in {Empty.attrs, Empty.staticStyle, Empty.style, Empty.on} : DOMAIN f = {}
    /\ Empty.class = {} /\ Empty.directives = {}
    /\ \A d \in VNodeData : /\ IsFiniteSet(DOMAIN d.on) /\ DOMAIN d.on \subseteq Int
                            /\ d.class \cap TransitionClasses = {}

VARIABLES model,       \* the data property v-model is bound to
          text,        \* value of the text field
          composing,   \* el.composing
          wantedData,  \* what the next render returns
          stale,       \* a render is queued
          stage,       \* "none", "created" (not in the document), "live", "removed"
          vnodeData,   \* data of the vnode rendered last
          invokers,    \* the handler each invoker made so far would call
          on,          \* event -> invoker of the last vnode
          el,          \* the element: see NewEl
          changes

elementVars == <<model, text, composing, wantedData, stale, stage, vnodeData, invokers, on, el,
                 changes>>

\* prevClass is the cached _prevClass; transition is _transitionClasses.
NewEl == [attrs |-> [k \in {} |-> Falsy], class |-> {}, prevClass |-> {}, transition |-> {},
          style |-> [k \in {} |-> Falsy], listeners |-> {}, bound |-> {}, inserted |-> {}]

Unset(f, K) == [x \in DOMAIN f \ K |-> f[x]]
Overlay(f, g) == [x \in DOMAIN f \cup DOMAIN g |-> IF x \in DOMAIN g THEN g[x] ELSE f[x]]

-----------------------------------------------------------------------------
(* The update hooks of the modules.  E is the element, old and new are the  *)
(* data of the two vnodes.                                                  *)

\* updateAttrs: set what differs, remove what is gone.
UpdateAttrs(E, old, new) ==
    LET differs == { k \in DOMAIN new.attrs : k \notin DOMAIN old.attrs \/ old.attrs[k] # new.attrs[k] }
        gone == DOMAIN old.attrs \ DOMAIN new.attrs
        set == { k \in differs : new.attrs[k] # Falsy }
        removed == gone \cup { k \in differs : new.attrs[k] = Falsy }
    IN [E EXCEPT !.attrs = Overlay(Unset(@, removed), [k \in set |-> new.attrs[k]])]

\* updateClass: the classes of the vnode and those of a running transition,
\* unless they are what was set last.
UpdateClass(E, old, new) ==
    LET cls == new.class \cup E.transition IN
    IF (new.class = {} /\ old.class = {}) \/ cls = E.prevClass THEN E
    ELSE [E EXCEPT !.class = cls, !.prevClass = cls]

\* getStyle: the static style with the binding merged into it.
GetStyle(d) == Overlay(d.staticStyle, d.style)
OldStyle(d) == IF DOMAIN d.staticStyle # {} THEN GetStyle(d) ELSE d.style

UpdateStyle(E, old, new) ==
    LET before == OldStyle(old)
        after == GetStyle(new)
        blank == { k \in DOMAIN before \cup DOMAIN after :
                     k \notin DOMAIN after \/ after[k] = Falsy }
        differs == { k \in DOMAIN after \ blank : k \notin DOMAIN before \/ before[k] # after[k] }
    IN [E EXCEPT !.style = Overlay(Unset(@, blank), [k \in differs |-> after[k]])]

\* _update of the directives: bind and update, then unbind; a new directive is
\* inserted at once, or with the element when that is just being created.
UpdateDirectives(E, old, new, isCreate) ==
    LET fresh == new.directives \ old.directives IN
    [E EXCEPT !.bound = (@ \cup fresh) \ (old.directives \ new.directives),
              !.inserted = IF isCreate THEN @
                           ELSE (@ \cup fresh) \ (old.directives \ new.directives)]

\* updateListeners: an event that was listened to keeps its invoker, which gets
\* the new handler; a new one gets an invoker, which is added to the element.
FreshEvents(old, new) == DOMAIN new.on \ DOMAIN old
NewInvoker(old, new, event) ==
    Len(invokers) + Cardinality({ e \in FreshEvents(old, new) : e <= event })
UpdatedOn(old, new) ==
    [e \in DOMAIN new.on |-> IF e \in DOMAIN old THEN old[e] ELSE NewInvoker(old, new, e)]
UpdatedInvokers(old, new) ==
    LET after == UpdatedOn(old, new) IN
    [i \in 1..(Len(invokers) + Cardinality(FreshEvents(old, new))) |->
        IF \E e \in DOMAIN after : after[e] = i
        THEN new.on[CHOOSE e \in DOMAIN after : after[e] = i]
        ELSE invokers[i]]
UpdateListeners(E, old, new) ==
    [E EXCEPT !.listeners =
        (@ \cup { <<e, UpdatedOn(old, new)[e]>> : e \in FreshEvents(old, new) })
            \ { <<e, old[e]>> : e \in DOMAIN old \ DOMAIN new.on }]

\* updateDOMProps for `value`: not while the user composes.
ShouldUpdateValue == ~composing /\ text # model

\* invokeUpdateHooks: the modules in their order, the directives last.
UpdateModules(old, oldOn, new, isCreate) ==
    /\ el' = UpdateDirectives(
                 UpdateStyle(
                     UpdateListeners(
                         UpdateClass(UpdateAttrs(el, old, new), old, new), oldOn, new),
                     old, new),
                 old, new, isCreate)
    /\ invokers' = UpdatedInvokers(oldOn, new)
    /\ on' = UpdatedOn(oldOn, new)
    /\ text' = IF ShouldUpdateValue THEN model ELSE text
    /\ vnodeData' = new

-----------------------------------------------------------------------------
ElementInit ==
    /\ model \in Texts
    /\ text = "" /\ composing = FALSE
    /\ wantedData \in VNodeData
    /\ stale = FALSE /\ stage = "none"
    /\ vnodeData = Empty /\ invokers = <<>> /\ on = [e \in {} |-> 0]
    /\ el = NewEl
    /\ changes = 0

\* invokeCreateHooks.
MountElement ==
    /\ stage = "none"
    /\ stage' = "created"
    /\ UpdateModules(Empty, on, wantedData, TRUE)
    /\ UNCHANGED <<model, composing, wantedData, stale, changes>>

\* The insert hook: `inserted` of every directive bound at creation; v-model
\* begins to listen to the composition.
InsertElement ==
    /\ stage = "created"
    /\ stage' = "live"
    /\ el' = [el EXCEPT !.inserted = vnodeData.directives]
    /\ UNCHANGED <<model, text, composing, wantedData, stale, vnodeData, invokers, on, changes>>

\* patchVnode of a later render.
PatchElement ==
    /\ stage = "live" /\ stale
    /\ stale' = FALSE
    /\ UpdateModules(vnodeData, on, wantedData, FALSE)
    /\ UNCHANGED <<model, composing, wantedData, stage, changes>>

\* The destroy hook of the directives.
DestroyElement ==
    /\ stage = "live"
    /\ stage' = "removed"
    /\ el' = UpdateDirectives(el, vnodeData, Empty, FALSE)
    /\ UNCHANGED <<model, text, composing, wantedData, stale, vnodeData, invokers, on, changes>>

-----------------------------------------------------------------------------
(* The page and the user.                                                  *)
Counted == changes < MaxChanges /\ changes' = changes + 1

ChangeData(d) ==
    /\ stage = "live" /\ Counted
    /\ d # wantedData
    /\ wantedData' = d
    /\ stale' = TRUE
    /\ UNCHANGED <<model, text, composing, stage, vnodeData, invokers, on, el>>

AssignModel(t) ==
    /\ stage = "live" /\ Counted
    /\ t # model
    /\ model' = t
    /\ stale' = TRUE
    /\ UNCHANGED <<text, composing, wantedData, stage, vnodeData, invokers, on, el>>

\* The handler of v-model: `if ($event.target.composing) return`.
OnInput(t, isComposing) ==
    IF isComposing THEN UNCHANGED <<model, stale>>
    ELSE model' = t /\ stale' = (stale \/ t # model)

TypeText(t) ==
    /\ stage = "live" /\ Counted
    /\ t # text
    /\ text' = t
    /\ OnInput(t, composing)
    /\ UNCHANGED <<composing, wantedData, stage, vnodeData, invokers, on, el>>

OnCompositionStart ==
    /\ stage = "live" /\ Counted
    /\ ~composing
    /\ composing' = TRUE
    /\ UNCHANGED <<model, text, wantedData, stale, stage, vnodeData, invokers, on, el>>

(* Mutant of OnCompositionEnd: no input event is triggered. *)
CompositionEndsSilently ==
    /\ stage = "live"
    /\ composing
    /\ composing' = FALSE
    /\ UNCHANGED <<model, text, wantedData, stale, stage, vnodeData, invokers, on, el, changes>>

\* compositionend, or the change event that stands in for it, triggers input.
OnCompositionEnd ==
    /\ stage = "live"
    /\ composing
    /\ composing' = FALSE
    /\ OnInput(text, FALSE)
    /\ UNCHANGED <<text, wantedData, stage, vnodeData, invokers, on, el, changes>>

AddTransitionClass(c) ==
    /\ stage = "live" /\ Counted
    /\ c \notin el.transition
    /\ el' = [el EXCEPT !.transition = @ \cup {c}, !.class = @ \cup {c}]
    /\ UNCHANGED <<model, text, composing, wantedData, stale, stage, vnodeData, invokers, on>>

RemoveTransitionClass(c) ==
    /\ stage = "live"
    /\ c \in el.transition
    /\ el' = [el EXCEPT !.transition = @ \ {c}, !.class = @ \ {c}]
    /\ UNCHANGED <<model, text, composing, wantedData, stale, stage, vnodeData, invokers, on,
                   changes>>

ElementNext ==
    \/ MountElement \/ InsertElement \/ PatchElement \/ DestroyElement
    \/ \E d \in VNodeData : ChangeData(d)
    \/ \E t \in Texts : AssignModel(t) \/ TypeText(t)
    \/ OnCompositionStart \/ OnCompositionEnd
    \/ \E c \in TransitionClasses : AddTransitionClass(c) \/ RemoveTransitionClass(c)

ElementSpec == ElementInit /\ [][ElementNext]_elementVars

-----------------------------------------------------------------------------
Present(f) == Unset(f, { k \in DOMAIN f : f[k] = Falsy })

\* A live element with no render outstanding carries exactly what the page asks
\* for, though every hook compared with the vnode before only: its attributes,
\* style and classes (with those of a running transition), one listener per event
\* that calls the newest handler, and its directives, each bound and inserted.
\* Its text is the model, except while the user composes: what is typed then is
\* neither lost nor overwritten.
ElementShowsData ==
    stage = "live" /\ ~stale =>
        /\ el.attrs = Present(wantedData.attrs)
        /\ el.style = Present(GetStyle(wantedData))
        /\ el.class = wantedData.class \cup el.transition
        /\ \A e \in DOMAIN wantedData.on :
              LET mine == { l \in el.listeners : l[1] = e }
              IN Cardinality(mine) = 1 /\ \A l \in mine : invokers[l[2]] = wantedData.on[e]
        /\ \A l \in el.listeners : l[1] \in DOMAIN wantedData.on
        /\ el.bound = wantedData.directives /\ el.inserted = wantedData.directives
        /\ composing \/ text = model
=============================================================================
