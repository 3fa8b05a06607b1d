------------------------- MODULE VueTransitionProofs -------------------------
(***************************************************************************)
(* Proofs about <transition>: however often the data changed while children *)
(* entered and left, the screen settles on what the data asks for, in every *)
(* mode and for any number of toggles and kinds of child.                   *)
(***************************************************************************)
EXTENDS VueTransition, SequenceTheorems, FiniteSetTheorems, TLAPS

EnterClasses == {"enter", "enter-active", "enter-to"}
LeaveClasses == {"leave", "leave-active", "leave-to"}
Element == [kind : Kinds, inDom : BOOLEAN, display : BOOLEAN,
            classes : SUBSET (EnterClasses \cup LeaveClasses),
            enterCb : Nat, leaveCb : Nat, delayLeave : BOOLEAN, afterLeave : BOOLEAN,
            releases : Nat]
Callback == [el : Nat, kind : {"enter", "leave"}, called : BOOLEAN, cancelled : BOOLEAN]
Stages == [leaving : BOOLEAN, dirty : BOOLEAN, els : Seq(Element), cbs : Seq(Callback),
           frames : SUBSET Nat, ends : SUBSET Nat, pending : [Kinds -> Nat]]

\* Callback c belongs to its element, which waits for it until it is called.  Of x
\* it is not known that it is under way or not cancelled.
CallbackOk(D, c, x) ==
    /\ D.cbs[c].el \in DOMAIN D.els
    /\ ~D.cbs[c].called =>
          c = IF D.cbs[c].kind = "enter" THEN D.els[D.cbs[c].el].enterCb
                                         ELSE D.els[D.cbs[c].el].leaveCb
    /\ c # x /\ D.cbs[c].cancelled => D.cbs[c].called
    /\ c \in D.frames /\ D.cbs[c].called /\ ~D.cbs[c].cancelled => ~D.els[D.cbs[c].el].inDom

WaitsFor(D, e, c, kind) ==
    c # NoCallback => /\ c \in DOMAIN D.cbs /\ D.cbs[c].el = e /\ D.cbs[c].kind = kind
                      /\ ~D.cbs[c].called

\* The enter of an element is under way; so is its leave, or another element's enter
\* will release it.
UnderWay(D, e, x) ==
    /\ D.els[e].enterCb \notin {NoCallback, x} => D.els[e].enterCb \in D.frames \cup D.ends
    /\ D.els[e].leaveCb \notin {NoCallback, x} =>
          \/ D.els[e].leaveCb \in D.frames \cup D.ends
          \/ \E y \in DOMAIN D.els : D.els[y].releases = e

ReleaseOk(D, e) ==
    D.els[e].releases # NoElement =>
        /\ D.els[e].releases \in DOMAIN D.els /\ D.els[e].releases # e
        /\ D.els[D.els[e].releases].leaveCb \notin D.frames \cup D.ends
        /\ \A y \in DOMAIN D.els : D.els[y].releases = D.els[e].releases => y = e

ClassesOk(D, e) ==
    D.els[e].inDom =>
        /\ \A k \in D.els[e].classes : \/ k \in EnterClasses /\ D.els[e].enterCb # NoCallback
                                       \/ k \in LeaveClasses /\ D.els[e].leaveCb # NoCallback
        /\ "enter" \in D.els[e].classes => D.els[e].enterCb \in D.frames
        /\ "leave" \in D.els[e].classes => D.els[e].leaveCb \in D.frames

ElementOk(D, e, x) ==
    /\ WaitsFor(D, e, D.els[e].enterCb, "enter") /\ WaitsFor(D, e, D.els[e].leaveCb, "leave")
    /\ UnderWay(D, e, x) /\ ReleaseOk(D, e) /\ ClassesOk(D, e)

\* A placeholder waits for an element that will ask for the next render.
LeavingOk(D) ==
    D.leaving => \E e \in DOMAIN D.els : D.els[e].afterLeave /\ D.els[e].leaveCb # NoCallback

StageInv(D, x) ==
    /\ D \in Stages
    /\ D.frames \subseteq DOMAIN D.cbs /\ D.ends \subseteq DOMAIN D.cbs
    /\ D.frames \cap D.ends = {}
    /\ \A k \in Kinds : D.pending[k] # NoElement => D.pending[k] \in DOMAIN D.els
    /\ \A c \in DOMAIN D.cbs : CallbackOk(D, c, x)
    /\ \A e \in DOMAIN D.els : ElementOk(D, e, x)

\* All that is on the screen without being about to leave is the current element.
ScreenOk(D, cur, e) ==
    /\ e = cur => D.els[e].inDom /\ D.els[e].display /\ D.els[e].leaveCb = NoCallback
    /\ e # cur => /\ D.els[e].enterCb = NoCallback
                  /\ D.els[e].leaveCb # NoCallback \/ ~D.els[e].inDom \/ ~D.els[e].display
    /\ ~D.els[e].delayLeave
    /\ D.els[e].releases # NoElement => e = cur /\ D.els[e].enterCb # NoCallback
ScreenInv(D, cur) ==
    /\ cur # NoElement => cur \in DOMAIN D.els
    /\ \A e \in DOMAIN D.els : ScreenOk(D, cur, e)
    /\ LeavingOk(D)

\* The last render returned what the data asks for, unless a placeholder was due.
WishOk(D, cur, want, m) ==
    /\ ~D.dirty => IF cur # NoElement THEN D.els[cur].kind = want
                   ELSE want = Nobody \/ D.leaving
    /\ m = "show" => /\ DOMAIN D.els = {1} /\ D.els[1].kind = ShowKind /\ D.els[1].inDom
                     /\ D.els[1].releases = NoElement /\ ~D.leaving

ScreenWishInv(D, cur, want, m) == ScreenInv(D, cur) /\ WishOk(D, cur, want, m)

TransitionInv ==
    /\ wanted \in Wishes
    /\ StageInv(Stage, NoCallback) /\ ScreenWishInv(Stage, current, wanted, mode)

-----------------------------------------------------------------------------
LEMMA ElementSet ==
    ASSUME NEW S, NEW f \in Seq(S), NEW e \in DOMAIN f, NEW v \in S
    PROVE  /\ [f EXCEPT ![e] = v] \in Seq(S)
           /\ Len([f EXCEPT ![e] = v]) = Len(f)
           /\ DOMAIN [f EXCEPT ![e] = v] = DOMAIN f
           /\ \A i \in DOMAIN f : [f EXCEPT ![e] = v][i] = IF i = e THEN v ELSE f[i]
<1>1. e \in 1..Len(f)
  BY LenProperties
<1>. QED
  BY <1>1, ExceptSeq, LenProperties

LEMMA StageFields ==
    ASSUME NEW D \in Stages
    PROVE  /\ D.leaving \in BOOLEAN /\ D.dirty \in BOOLEAN
           /\ D.els \in Seq(Element) /\ D.cbs \in Seq(Callback)
           /\ D.frames \subseteq Nat /\ D.ends \subseteq Nat /\ D.pending \in [Kinds -> Nat]
           /\ \A e \in DOMAIN D.els : D.els[e] \in Element
           /\ \A c \in DOMAIN D.cbs : D.cbs[c] \in Callback
           /\ DOMAIN D.els = 1..Len(D.els) /\ DOMAIN D.cbs = 1..Len(D.cbs)
           /\ Len(D.els) \in Nat /\ Len(D.cbs) \in Nat
<1>1. /\ D.leaving \in BOOLEAN /\ D.dirty \in BOOLEAN
      /\ D.els \in Seq(Element) /\ D.cbs \in Seq(Callback)
      /\ D.frames \subseteq Nat /\ D.ends \subseteq Nat /\ D.pending \in [Kinds -> Nat]
  BY DEF Stages
<1>2. /\ DOMAIN D.els = 1..Len(D.els) /\ DOMAIN D.cbs = 1..Len(D.cbs)
      /\ Len(D.els) \in Nat /\ Len(D.cbs) \in Nat
  BY <1>1, LenProperties
<1>3. /\ \A e \in DOMAIN D.els : D.els[e] \in Element
      /\ \A c \in DOMAIN D.cbs : D.cbs[c] \in Callback
  BY <1>1, <1>2, ElementOfSeq
<1>. QED
  BY <1>1, <1>2, <1>3

\* v is u but for the classes.
Reclassed(u, v) ==
    /\ v.kind = u.kind /\ v.inDom = u.inDom /\ v.display = u.display
    /\ v.enterCb = u.enterCb /\ v.leaveCb = u.leaveCb /\ v.delayLeave = u.delayLeave
    /\ v.afterLeave = u.afterLeave /\ v.releases = u.releases

LEMMA ClassesSet ==
    ASSUME NEW u \in Element, NEW S \in SUBSET (EnterClasses \cup LeaveClasses)
    PROVE  /\ [u EXCEPT !.classes = S] \in Element /\ [u EXCEPT !.classes = S].classes = S
           /\ Reclassed(u, [u EXCEPT !.classes = S])
BY DEF Element, Reclassed

\* P has the elements of D but for their classes.
OnlyClasses(D, P) ==
    /\ DOMAIN P.els = DOMAIN D.els /\ Len(P.els) = Len(D.els)
    /\ P.leaving = D.leaving /\ P.dirty = D.dirty
    /\ \A i \in DOMAIN D.els : Reclassed(D.els[i], P.els[i])

\* A leave that had not begun begins.
LEMMA LeaveBegins ==
    ASSUME NEW D, NEW x, StageInv(D, x), NEW e \in DOMAIN D.els, NEW show \in BOOLEAN,
           NEW c, c = D.els[e].leaveCb, c # NoCallback, x \in {NoCallback, c},
           ~D.cbs[c].cancelled, c \notin D.frames, c \notin D.ends,
           \A y \in DOMAIN D.els : D.els[y].releases # e
    PROVE  /\ StageInv(PerformLeave(D, e, show), NoCallback)
           /\ OnlyClasses(D, PerformLeave(D, e, show))
<1>. DEFINE P == PerformLeave(D, e, show)
            v == [D.els[e] EXCEPT !.classes = @ \cup {"leave", "leave-active"}]
            E == [D.els EXCEPT ![e] = v]
            Q == IF show THEN D.pending ELSE [D.pending EXCEPT ![D.els[e].kind] = e]
<1>1. /\ D \in Stages /\ D.frames \subseteq DOMAIN D.cbs /\ D.ends \subseteq DOMAIN D.cbs
      /\ D.frames \cap D.ends = {}
      /\ \A k \in Kinds : D.pending[k] # NoElement => D.pending[k] \in DOMAIN D.els
      /\ \A b \in DOMAIN D.cbs : CallbackOk(D, b, x)
      /\ \A i \in DOMAIN D.els : ElementOk(D, i, x)
  BY DEF StageInv
<1>2. /\ D.els \in Seq(Element) /\ D.els[e] \in Element /\ D.pending \in [Kinds -> Nat]
      /\ DOMAIN D.els = 1..Len(D.els) /\ Len(D.els) \in Nat /\ D.frames \subseteq Nat
  BY <1>1, StageFields
<1>3. c \in DOMAIN D.cbs /\ D.cbs[c].el = e /\ D.cbs[c].kind = "leave" /\ ~D.cbs[c].called
  BY <1>1 DEF ElementOk, WaitsFor
<1>4. /\ v \in Element /\ v.classes = D.els[e].classes \cup {"leave", "leave-active"}
      /\ Reclassed(D.els[e], v)
  <2>. DEFINE S == D.els[e].classes \cup {"leave", "leave-active"}
  <2>1. S \in SUBSET (EnterClasses \cup LeaveClasses)
    BY <1>2 DEF Element, LeaveClasses
  <2>2. v = [D.els[e] EXCEPT !.classes = S]
    OBVIOUS
  <2>. HIDE DEF S, v
  <2>4. /\ [D.els[e] EXCEPT !.classes = S] \in Element /\ [D.els[e] EXCEPT !.classes = S].classes = S
        /\ Reclassed(D.els[e], [D.els[e] EXCEPT !.classes = S])
    BY <1>2, <2>1, ClassesSet
  <2>3. v \in Element /\ v.classes = S /\ Reclassed(D.els[e], v)
    BY <2>2, <2>4
  <2>. QED
    BY <2>3 DEF S
<1>. HIDE DEF v
<1>5. /\ E \in Seq(Element) /\ Len(E) = Len(D.els) /\ DOMAIN E = DOMAIN D.els
      /\ \A i \in DOMAIN D.els : E[i] = IF i = e THEN v ELSE D.els[i]
  BY <1>2, <1>4, ElementSet
<1>6. Q \in [Kinds -> Nat] /\ \A k \in Kinds : Q[k] # NoElement => Q[k] \in DOMAIN D.els
  <2>0. e \in Nat
    BY <1>2
  <2>1. D.els[e].kind \in Kinds
    BY <1>2 DEF Element
  <2>2. CASE show
    BY <1>1, <1>2, <2>2
  <2>3. CASE ~show
    BY <1>1, <1>2, <2>0, <2>1, <2>3
  <2>. QED
    BY <2>2, <2>3
<1>7. P = [D EXCEPT !.pending = Q, !.els = E, !.frames = D.frames \cup {c}]
  BY <1>1 DEF PerformLeave, v, Stages
<1>. HIDE DEF P, E, Q
<1>8. /\ P \in Stages /\ P.els = E /\ P.pending = Q /\ P.frames = D.frames \cup {c}
      /\ P.cbs = D.cbs /\ P.ends = D.ends /\ P.leaving = D.leaving /\ P.dirty = D.dirty
  <2>1. c \in Nat
    BY <1>2, <1>4 DEF Element
  <2>. QED
    BY <1>1, <1>2, <1>5, <1>6, <1>7, <2>1 DEF Stages
<1>9. OnlyClasses(D, P)
  BY <1>4, <1>5, <1>8 DEF OnlyClasses, Reclassed
<1>10. ASSUME NEW b \in DOMAIN D.cbs
       PROVE  CallbackOk(P, b, NoCallback)
  BY <1>1, <1>3, <1>8, <1>9 DEF CallbackOk, OnlyClasses, Reclassed
<1>11. ASSUME NEW i \in DOMAIN D.els
       PROVE  ElementOk(P, i, NoCallback)
  <2>0. ElementOk(D, i, x)
    BY <1>1
  <2>1. WaitsFor(P, i, P.els[i].enterCb, "enter") /\ WaitsFor(P, i, P.els[i].leaveCb, "leave")
    BY <1>8, <1>9, <2>0 DEF ElementOk, WaitsFor, OnlyClasses, Reclassed
  <2>2. UnderWay(P, i, NoCallback)
    <3>1. D.els[i].enterCb # c \/ c = NoCallback
      BY <1>3, <2>0 DEF ElementOk, WaitsFor
    <3>2. D.els[i].leaveCb = c => i = e
      BY <1>3, <2>0 DEF ElementOk, WaitsFor
    <3>. QED
      BY <1>8, <1>9, <2>0, <3>1, <3>2 DEF ElementOk, UnderWay, OnlyClasses, Reclassed
  <2>3. ReleaseOk(P, i)
    <3>1. ASSUME D.els[i].releases # NoElement
          PROVE  D.els[D.els[i].releases].leaveCb # c
      <4>1. D.els[i].releases \in DOMAIN D.els /\ D.els[i].releases # e
        BY <2>0, <3>1 DEF ElementOk, ReleaseOk
      <4>2. WaitsFor(D, D.els[i].releases, D.els[D.els[i].releases].leaveCb, "leave")
        BY <1>1, <4>1 DEF ElementOk
      <4>. QED
        BY <1>3, <4>1, <4>2 DEF WaitsFor
    <3>. QED
      BY <1>8, <1>9, <2>0, <3>1 DEF ElementOk, ReleaseOk, OnlyClasses, Reclassed
  <2>4. ClassesOk(P, i)
    <3>1. CASE i = e
      BY <1>4, <1>5, <1>8, <2>0, <3>1 DEF ElementOk, ClassesOk, EnterClasses, LeaveClasses, Reclassed
    <3>2. CASE i # e
      BY <1>5, <1>8, <2>0, <3>2 DEF ElementOk, ClassesOk
    <3>. QED
      BY <3>1, <3>2
  <2>. QED
    BY <2>1, <2>2, <2>3, <2>4 DEF ElementOk
<1>13. StageInv(P, NoCallback)
  <2>1. /\ P.frames \subseteq DOMAIN P.cbs /\ P.ends \subseteq DOMAIN P.cbs
        /\ P.frames \cap P.ends = {}
        /\ \A k \in Kinds : P.pending[k] # NoElement => P.pending[k] \in DOMAIN P.els
    BY <1>1, <1>3, <1>5, <1>6, <1>8
  <2>. QED
    BY <1>5, <1>8, <1>10, <1>11, <2>1 DEF StageInv
<1>. QED
  BY <1>9, <1>13 DEF P

LEMMA Overwritten ==
    ASSUME NEW f, NEW a, NEW b, a # b, NEW t, NEW u, NEW v
    PROVE  [[[f EXCEPT ![a] = t] EXCEPT ![b] = u] EXCEPT ![a] = v]
               = [[f EXCEPT ![a] = v] EXCEPT ![b] = u]
OBVIOUS

LEMMA CallbackCalled ==
    ASSUME NEW D \in Stages, NEW c \in DOMAIN D.cbs
    PROVE  LET C == [D.cbs EXCEPT ![c].called = TRUE] IN
           /\ C \in Seq(Callback) /\ Len(C) = Len(D.cbs) /\ DOMAIN C = DOMAIN D.cbs
           /\ \A b \in DOMAIN D.cbs : b # c => C[b] = D.cbs[b]
           /\ C[c].called /\ C[c].el = D.cbs[c].el /\ C[c].kind = D.cbs[c].kind
           /\ C[c].cancelled = D.cbs[c].cancelled
<1>. DEFINE v == [D.cbs[c] EXCEPT !.called = TRUE]
<1>1. v \in Callback /\ v.called /\ v.el = D.cbs[c].el /\ v.kind = D.cbs[c].kind
      /\ v.cancelled = D.cbs[c].cancelled
  BY StageFields DEF Callback
<1>. HIDE DEF v
<1>2. D.cbs \in Seq(Callback)
  BY StageFields
<1>3. [D.cbs EXCEPT ![c].called = TRUE] = [D.cbs EXCEPT ![c] = v]
  BY DEF v
<1>. DEFINE W == [D.cbs EXCEPT ![c] = v]
<1>4. /\ W \in Seq(Callback) /\ Len(W) = Len(D.cbs) /\ DOMAIN W = DOMAIN D.cbs
      /\ \A b \in DOMAIN D.cbs : W[b] = IF b = c THEN v ELSE D.cbs[b]
  BY <1>1, <1>2, ElementSet
<1>. HIDE DEF W
<1>. QED
  BY <1>1, <1>3, <1>4 DEF W

\* The enter of element e is over: its callback c is called and forgotten, and
\* nothing waits for it any more.
EnterClosed(D, c) ==
    LET e == D.cbs[c].el IN
    [D EXCEPT !.els = [D.els EXCEPT ![e] =
                          [D.els[e] EXCEPT !.classes = D.els[e].classes \
                                                ({"enter-to", "enter-active"}
                                                 \cup (IF D.cbs[c].cancelled THEN {"enter"} ELSE {})),
                                           !.enterCb = NoCallback, !.releases = NoElement]],
              !.cbs = [D.cbs EXCEPT ![c].called = TRUE]]

EnterEnded(D, P, e) ==
    LET u == D.els[e]
        v == P.els[e]
    IN /\ DOMAIN P.els = DOMAIN D.els /\ P.leaving = D.leaving /\ P.dirty = D.dirty
       /\ \A i \in DOMAIN D.els : i # e => Reclassed(D.els[i], P.els[i])
       /\ v.kind = u.kind /\ v.inDom = u.inDom /\ v.display = u.display
       /\ v.leaveCb = u.leaveCb /\ v.delayLeave = u.delayLeave /\ v.afterLeave = u.afterLeave
       /\ v.enterCb = NoCallback /\ v.releases = NoElement

LEMMA EnterClosedFields ==
    ASSUME NEW D \in Stages, NEW c \in DOMAIN D.cbs, D.cbs[c].el \in DOMAIN D.els
    PROVE  LET e == D.cbs[c].el
               P == EnterClosed(D, c)
               C == D.cbs[c].cancelled
           IN /\ P \in Stages /\ Len(P.els) = Len(D.els) /\ DOMAIN P.cbs = DOMAIN D.cbs
              /\ P.frames = D.frames /\ P.ends = D.ends /\ P.pending = D.pending
              /\ EnterEnded(D, P, e)
              /\ \A i \in DOMAIN D.els : i # e => P.els[i] = D.els[i]
              /\ P.els[e].classes = D.els[e].classes \ ({"enter-to", "enter-active"}
                                        \cup (IF C THEN {"enter"} ELSE {}))
              /\ \A b \in DOMAIN D.cbs : b # c => P.cbs[b] = D.cbs[b]
              /\ P.cbs[c].called /\ P.cbs[c].el = e /\ P.cbs[c].kind = D.cbs[c].kind
              /\ P.cbs[c].cancelled = C
<1>. DEFINE e == D.cbs[c].el
            S == D.els[e].classes \ ({"enter-to", "enter-active"}
                                     \cup (IF D.cbs[c].cancelled THEN {"enter"} ELSE {}))
            v == [D.els[e] EXCEPT !.classes = S, !.enterCb = NoCallback, !.releases = NoElement]
            E == [D.els EXCEPT ![e] = v]
            C == [D.cbs EXCEPT ![c].called = TRUE]
            P == EnterClosed(D, c)
<1>1. D.els \in Seq(Element) /\ D.els[e] \in Element
  BY StageFields
<1>2. S \in SUBSET (EnterClasses \cup LeaveClasses)
  BY <1>1 DEF Element
<1>. HIDE DEF S
<1>3. /\ v \in Element /\ v.classes = S /\ v.enterCb = NoCallback /\ v.releases = NoElement
      /\ v.kind = D.els[e].kind /\ v.inDom = D.els[e].inDom /\ v.display = D.els[e].display
      /\ v.leaveCb = D.els[e].leaveCb /\ v.delayLeave = D.els[e].delayLeave
      /\ v.afterLeave = D.els[e].afterLeave
  BY <1>1, <1>2 DEF Element, NoCallback, NoElement
<1>4. P = [D EXCEPT !.els = E, !.cbs = C]
  BY DEF EnterClosed, S
<1>. HIDE DEF v
<1>5. /\ E \in Seq(Element) /\ Len(E) = Len(D.els) /\ DOMAIN E = DOMAIN D.els
      /\ \A i \in DOMAIN D.els : E[i] = IF i = e THEN v ELSE D.els[i]
  BY <1>1, <1>3, ElementSet
<1>6. /\ C \in Seq(Callback) /\ Len(C) = Len(D.cbs) /\ DOMAIN C = DOMAIN D.cbs
      /\ \A b \in DOMAIN D.cbs : b # c => C[b] = D.cbs[b]
      /\ C[c].called /\ C[c].el = D.cbs[c].el /\ C[c].kind = D.cbs[c].kind
      /\ C[c].cancelled = D.cbs[c].cancelled
  BY CallbackCalled
<1>. HIDE DEF E, C, P
<1>7. /\ P \in Stages /\ P.els = E /\ P.cbs = C /\ P.leaving = D.leaving /\ P.dirty = D.dirty
      /\ P.frames = D.frames /\ P.ends = D.ends /\ P.pending = D.pending
  BY <1>4, <1>5, <1>6 DEF Stages
<1>8. \A i \in DOMAIN D.els : i # e => P.els[i] = D.els[i]
  BY <1>5, <1>7
<1>9. P.els[e] = v
  BY <1>5, <1>7
<1>10. EnterEnded(D, P, e)
  <2>. HIDE DEF e
  <2>. QED
    BY <1>3, <1>5, <1>7, <1>8, <1>9 DEF EnterEnded, Reclassed
<1>. QED
  BY <1>3, <1>5, <1>6, <1>7, <1>8, <1>9, <1>10 DEF P, S

\* What the element released is no longer waiting for it.
Released(D, e) ==
    IF D.els[e].releases = NoElement THEN NoCallback ELSE D.els[D.els[e].releases].leaveCb

\* An enter callback is over once it was cancelled or its frame has come.
LEMMA EnterClosedKeeps ==
    ASSUME NEW D, NEW c \in DOMAIN D.cbs, StageInv(D, c), D.cbs[c].kind = "enter",
           ~D.cbs[c].called, D.cbs[c].cancelled \/ c \notin D.frames
    PROVE  StageInv(EnterClosed(D, c), Released(D, D.cbs[c].el))
<1>. DEFINE e == D.cbs[c].el
            P == EnterClosed(D, c)
            x == Released(D, e)
<1>1. /\ D \in Stages /\ D.frames \subseteq DOMAIN D.cbs /\ D.ends \subseteq DOMAIN D.cbs
      /\ D.frames \cap D.ends = {}
      /\ \A k \in Kinds : D.pending[k] # NoElement => D.pending[k] \in DOMAIN D.els
      /\ \A b \in DOMAIN D.cbs : CallbackOk(D, b, c)
      /\ \A i \in DOMAIN D.els : ElementOk(D, i, c)
  BY DEF StageInv
<1>2. e \in DOMAIN D.els /\ D.els[e].enterCb = c
  BY <1>1 DEF CallbackOk
<1>3. /\ P \in Stages /\ DOMAIN P.els = DOMAIN D.els /\ DOMAIN P.cbs = DOMAIN D.cbs
      /\ P.frames = D.frames /\ P.ends = D.ends /\ P.pending = D.pending
      /\ \A i \in DOMAIN D.els : i # e => P.els[i] = D.els[i]
      /\ \A b \in DOMAIN D.cbs : b # c => P.cbs[b] = D.cbs[b]
      /\ P.cbs[c].called /\ P.cbs[c].el = e /\ P.cbs[c].kind = "enter"
      /\ P.cbs[c].cancelled = D.cbs[c].cancelled
  BY <1>1, <1>2, EnterClosedFields DEF EnterEnded
<1>4. /\ P.els[e].enterCb = NoCallback /\ P.els[e].releases = NoElement
      /\ P.els[e].leaveCb = D.els[e].leaveCb /\ P.els[e].inDom = D.els[e].inDom
      /\ P.els[e].classes = D.els[e].classes \ ({"enter-to", "enter-active"}
                                \cup (IF D.cbs[c].cancelled THEN {"enter"} ELSE {}))
  BY <1>1, <1>2, EnterClosedFields DEF EnterEnded
<1>. HIDE DEF P, e
<1>5. \A i \in DOMAIN D.els : /\ D.els[i].leaveCb # c \/ c = NoCallback
                              /\ i # e => D.els[i].enterCb # c \/ c = NoCallback
  BY <1>1, <1>2 DEF ElementOk, WaitsFor, e
<1>6. c # NoCallback
  BY <1>1, StageFields DEF NoCallback
<1>7. ASSUME NEW b \in DOMAIN D.cbs
      PROVE  CallbackOk(P, b, x)
  <2>1. CallbackOk(D, b, c)
    BY <1>1
  <2>2. CASE b = c
    BY <1>2, <1>3, <2>2 DEF CallbackOk
  <2>3. CASE b # c
    BY <1>2, <1>3, <1>4, <2>1, <2>3 DEF CallbackOk
  <2>. QED
    BY <2>2, <2>3
<1>8. ASSUME NEW i \in DOMAIN D.els
      PROVE  ElementOk(P, i, x)
  <2>0. ElementOk(D, i, c) /\ P.els[i].leaveCb = D.els[i].leaveCb
    BY <1>1, <1>3, <1>4
  <2>1. WaitsFor(P, i, P.els[i].enterCb, "enter") /\ WaitsFor(P, i, P.els[i].leaveCb, "leave")
    BY <1>3, <1>4, <1>5, <2>0 DEF ElementOk, WaitsFor
  <2>2. UnderWay(P, i, x)
    <3>1. P.els[i].enterCb \notin {NoCallback, x} => P.els[i].enterCb \in P.frames \cup P.ends
      BY <1>3, <1>4, <1>5, <2>0 DEF ElementOk, UnderWay
    <3>2. ASSUME P.els[i].leaveCb \notin {NoCallback, x}, P.els[i].leaveCb \notin P.frames \cup P.ends
          PROVE  \E y \in DOMAIN P.els : P.els[y].releases = i
      <4>1. PICK y \in DOMAIN D.els : D.els[y].releases = i
        BY <1>3, <1>5, <2>0, <3>2 DEF ElementOk, UnderWay
      <4>2. i # NoElement
        BY <1>1, StageFields DEF NoElement
      <4>3. y # e
        BY <2>0, <3>2, <4>1, <4>2 DEF x, Released
      <4>. QED
        BY <1>3, <4>1, <4>3
    <3>. QED
      BY <3>1, <3>2 DEF UnderWay
  <2>3. ReleaseOk(P, i)
    <3>1. CASE i = e
      BY <1>4, <3>1 DEF ReleaseOk
    <3>2. CASE i # e
      <4>1. \A y \in DOMAIN D.els : /\ P.els[y].leaveCb = D.els[y].leaveCb
                                    /\ P.els[y].releases \in {D.els[y].releases, NoElement}
        BY <1>3, <1>4
      <4>. QED
        BY <1>3, <2>0, <3>2, <4>1 DEF ElementOk, ReleaseOk
    <3>. QED
      BY <3>1, <3>2
  <2>4. ClassesOk(P, i)
    <3>1. CASE i = e
      <4>1. "enter" \notin P.els[e].classes \/ ~P.els[e].inDom
        BY <1>2, <1>4, <2>0, <3>1 DEF ElementOk, ClassesOk
      <4>2. \A k \in P.els[e].classes : k \in D.els[e].classes /\ k \notin {"enter-to", "enter-active"}
        BY <1>4
      <4>. QED
        BY <1>3, <1>4, <2>0, <3>1, <4>1, <4>2 DEF ElementOk, ClassesOk, EnterClasses, LeaveClasses
    <3>2. CASE i # e
      BY <1>3, <2>0, <3>2 DEF ElementOk, ClassesOk
    <3>. QED
      BY <3>1, <3>2
  <2>. QED
    BY <2>1, <2>2, <2>3, <2>4 DEF ElementOk
<1>. HIDE DEF x
<1>9. StageInv(P, x)
  BY <1>1, <1>3, <1>7, <1>8 DEF StageInv
<1>. QED
  BY <1>9 DEF P, x, e

ForgetEnter(D, e) == [D EXCEPT !.els[e].enterCb = NoCallback]

\* The hooks of an enter run before the element forgets its callback, which shows
\* nowhere.
LEMMA EnterOverIs ==
    ASSUME NEW D \in Stages, NEW c \in DOMAIN D.cbs, NEW show \in BOOLEAN,
           NEW e, e = D.cbs[c].el, e \in DOMAIN D.els,
           NEW r, r = D.els[e].releases, r # e, r # NoElement => r \in DOMAIN D.els,
           r # NoElement => D.els[r].leaveCb # c
    PROVE  EnterOver(D, c, show) = IF r = NoElement THEN EnterClosed(D, c)
                                   ELSE PerformLeave(EnterClosed(D, c), r, show)
<1>. DEFINE S == D.els[e].classes \ ({"enter-to", "enter-active"}
                                     \cup (IF D.cbs[c].cancelled THEN {"enter"} ELSE {}))
            v0 == [D.els[e] EXCEPT !.classes = S]
            v1 == [v0 EXCEPT !.releases = NoElement]
            v == [D.els[e] EXCEPT !.classes = S, !.enterCb = NoCallback, !.releases = NoElement]
            C == [D.cbs EXCEPT ![c].called = TRUE]
            \* D when the callback was called and its element became u
            At(u) == [D EXCEPT !.els = [D.els EXCEPT ![e] = u], !.cbs = C]
<1>1. D.els[e] \in Element /\ D.els \in Seq(Element)
  BY StageFields
<1>2. EnterClosed(D, c) = At(v)
  BY DEF EnterClosed
<1>3. [D EXCEPT !.els[e].classes = @ \ ({"enter-to", "enter-active"}
                               \cup (IF D.cbs[c].cancelled THEN {"enter"} ELSE {})),
                           !.cbs[c].called = TRUE] = At(v0)
  OBVIOUS
<1>4. v = [v1 EXCEPT !.enterCb = NoCallback]
  BY <1>1 DEF Element
<1>5. r = NoElement => v = [v0 EXCEPT !.enterCb = NoCallback]
  BY <1>1 DEF Element
<1>. HIDE DEF v, v0, v1, C, S
<1>6. \A u : /\ At(u).els = [D.els EXCEPT ![e] = u] /\ At(u).els[e] = u /\ At(u).cbs = C
             /\ At(u).pending = D.pending /\ At(u).frames = D.frames
             /\ \A i \in DOMAIN D.els : i # e => At(u).els[i] = D.els[i]
  BY <1>1 DEF Stages
<1>7. \A u : /\ ForgetEnter(At(u), e) = At([u EXCEPT !.enterCb = NoCallback])
             /\ [At(u) EXCEPT !.els[e].releases = NoElement] = At([u EXCEPT !.releases = NoElement])
  BY <1>1 DEF Stages, ForgetEnter
<1>8. CASE r = NoElement
  <2>1. EnterOver(D, c, show) = ForgetEnter(At(v0), e)
    BY <1>3, <1>8 DEF EnterOver, ForgetEnter
  <2>. HIDE DEF At
  <2>2. ForgetEnter(At(v0), e) = At(v)
    BY <1>5, <1>7, <1>8
  <2>. QED
    BY <1>2, <1>8, <2>1, <2>2
<1>9. CASE r # NoElement
  <2>. DEFINE X == At(v1)
              Z == At(v)
              l == D.els[r].leaveCb
              w == [D.els[r] EXCEPT !.classes = @ \cup {"leave", "leave-active"}]
              Q == IF show THEN D.pending ELSE [D.pending EXCEPT ![D.els[r].kind] = r]
  <2>1. EnterOver(D, c, show) = ForgetEnter(PerformLeave(X, r, show), e)
    <3>1. EnterOver(D, c, show)
            = ForgetEnter(PerformLeave([At(v0) EXCEPT !.els[e].releases = NoElement], r, show), e)
      BY <1>3, <1>9 DEF EnterOver, ForgetEnter
    <3>2. [At(v0) EXCEPT !.els[e].releases = NoElement] = At(v1)
      <4>. HIDE DEF At
      <4>. QED
        BY <1>7 DEF v1
    <3>. HIDE DEF At
    <3>. QED
      BY <3>1, <3>2, Zenon
  <2>2. /\ X.els[r] = D.els[r] /\ Z.els[r] = D.els[r]
        /\ X.els = [D.els EXCEPT ![e] = v1] /\ Z.els = [D.els EXCEPT ![e] = v]
        /\ X.pending = D.pending /\ Z.pending = D.pending
        /\ X.frames = D.frames /\ Z.frames = D.frames /\ X.cbs = C /\ Z.cbs = C
    <3>. HIDE DEF At
    <3>0. r \in DOMAIN D.els /\ r # e
      BY <1>9
    <3>1. /\ X.els[r] = D.els[r] /\ X.els = [D.els EXCEPT ![e] = v1]
          /\ X.pending = D.pending /\ X.frames = D.frames /\ X.cbs = C
      BY <1>6, <3>0
    <3>2. /\ Z.els[r] = D.els[r] /\ Z.els = [D.els EXCEPT ![e] = v]
          /\ Z.pending = D.pending /\ Z.frames = D.frames /\ Z.cbs = C
      BY <1>6, <3>0
    <3>. QED
      BY <3>1, <3>2
  <2>3. ForgetEnter(X, e) = Z
    <3>. HIDE DEF At
    <3>. QED
      BY <1>4, <1>7
  <2>4. CASE l = NoCallback \/ C[l].cancelled
    <3>. HIDE DEF At, X, Z
    <3>1. PerformLeave(X, r, show) = X /\ PerformLeave(Z, r, show) = Z
      BY <2>2, <2>4 DEF PerformLeave
    <3>2. EnterOver(D, c, show) = Z
      BY <2>1, <2>3, <3>1, Zenon
    <3>3. EnterClosed(D, c) = Z
      BY <1>2 DEF Z
    <3>. QED
      BY <1>9, <3>1, <3>2, <3>3
  <2>5. CASE ~(l = NoCallback \/ C[l].cancelled)
    <3>. DEFINE E1 == [X.els EXCEPT ![r] = w]
                E2 == [Z.els EXCEPT ![r] = w]
                F == D.frames \cup {l}
                R(E) == [D EXCEPT !.els = E, !.cbs = C, !.pending = Q, !.frames = F]
    <3>1. PerformLeave(X, r, show) = R(E1) /\ PerformLeave(Z, r, show) = R(E2)
      <4>. HIDE DEF w, Q
      <4>1. /\ PerformLeave(X, r, show) = [X EXCEPT !.pending = Q, !.els = E1, !.frames = F]
            /\ PerformLeave(Z, r, show) = [Z EXCEPT !.pending = Q, !.els = E2, !.frames = F]
        <5>. HIDE DEF X, Z
        <5>1. PerformLeave(X, r, show) = [X EXCEPT !.pending = Q, !.els = E1, !.frames = F]
          BY <2>2, <2>5 DEF PerformLeave, w, Q
        <5>2. PerformLeave(Z, r, show) = [Z EXCEPT !.pending = Q, !.els = E2, !.frames = F]
          BY <2>2, <2>5 DEF PerformLeave, w, Q
        <5>. HIDE DEF E1, E2, F
        <5>. QED
          BY <5>1, <5>2
      <4>. HIDE DEF E1, E2, F
      <4>2. /\ [X EXCEPT !.pending = Q, !.els = E1, !.frames = F] = R(E1)
            /\ [Z EXCEPT !.pending = Q, !.els = E2, !.frames = F] = R(E2)
        <5>1. [X EXCEPT !.pending = Q, !.els = E1, !.frames = F] = R(E1)
          BY DEF Stages
        <5>2. [Z EXCEPT !.pending = Q, !.els = E2, !.frames = F] = R(E2)
          BY DEF Stages
        <5>. HIDE DEF X, Z, R
        <5>. QED
          BY <5>1, <5>2
      <4>. QED
        BY <4>1, <4>2
    <3>2. [E1 EXCEPT ![e] = v] = E2
      <4>. HIDE DEF At, X, Z, w
      <4>1. /\ E1 = [[D.els EXCEPT ![e] = v1] EXCEPT ![r] = w]
            /\ E2 = [[D.els EXCEPT ![e] = v] EXCEPT ![r] = w]
        BY <2>2
      <4>2. e # r
        BY <1>9
      <4>. HIDE DEF E1, E2
      <4>3. [[[D.els EXCEPT ![e] = v1] EXCEPT ![r] = w] EXCEPT ![e] = v]
                = [[D.els EXCEPT ![e] = v] EXCEPT ![r] = w]
        BY <4>2, Overwritten, Zenon
      <4>. QED
        BY <4>1, <4>3, Zenon
    <3>3. e \in DOMAIN E1 /\ E1[e] = v1
      <4>. HIDE DEF At, X, Z, w
      <4>. QED
        BY <1>1, <1>6, <1>9, <2>2
    <3>4. ForgetEnter(R(E1), e) = R(E2)
      <4>. HIDE DEF E1, E2, Q, F
      <4>. QED
        BY <1>4, <3>2, <3>3 DEF ForgetEnter, Stages
    <3>. HIDE DEF R, At, E1, E2
    <3>5. EnterOver(D, c, show) = R(E2)
      BY <2>1, <3>1, <3>4
    <3>6. EnterClosed(D, c) = Z
      BY <1>2
    <3>. QED
      BY <1>9, <3>1, <3>5, <3>6
  <2>. QED
    BY <2>4, <2>5
<1>. QED
  BY <1>8, <1>9

LEMMA EnterOverKeeps ==
    ASSUME NEW D, NEW c \in DOMAIN D.cbs, NEW show \in BOOLEAN, StageInv(D, c),
           D.cbs[c].kind = "enter", ~D.cbs[c].called, D.cbs[c].cancelled \/ c \notin D.frames
    PROVE  /\ StageInv(EnterOver(D, c, show), NoCallback)
           /\ EnterEnded(D, EnterOver(D, c, show), D.cbs[c].el)
<1>. DEFINE e == D.cbs[c].el
            r == D.els[e].releases
            Z == EnterClosed(D, c)
            P == EnterOver(D, c, show)
            l == D.els[r].leaveCb
<1>1. /\ D \in Stages /\ \A b \in DOMAIN D.cbs : CallbackOk(D, b, c)
      /\ \A i \in DOMAIN D.els : ElementOk(D, i, c)
  BY DEF StageInv
<1>2. e \in DOMAIN D.els /\ D.els[e].enterCb = c /\ ElementOk(D, e, c)
  BY <1>1 DEF CallbackOk
<1>3. r # e /\ (r # NoElement => r \in DOMAIN D.els)
  <2>1. ReleaseOk(D, e)
    BY <1>2 DEF ElementOk
  <2>2. e # NoElement
    BY <1>1, <1>2, StageFields DEF NoElement
  <2>. HIDE DEF e
  <2>. QED
    BY <2>1, <2>2 DEF ReleaseOk
<1>4. r # NoElement => l # c
  <2>1. c # NoCallback
    BY <1>1, StageFields DEF NoCallback
  <2>2. r # NoElement => WaitsFor(D, r, l, "leave")
    BY <1>1, <1>3 DEF ElementOk
  <2>. HIDE DEF r, l
  <2>. QED
    BY <2>1, <2>2 DEF WaitsFor
<1>5. StageInv(Z, Released(D, e))
  BY EnterClosedKeeps
<1>6. /\ EnterEnded(D, Z, e) /\ DOMAIN Z.cbs = DOMAIN D.cbs
      /\ Z.frames = D.frames /\ Z.ends = D.ends
      /\ \A i \in DOMAIN D.els : i # e => Z.els[i] = D.els[i]
      /\ \A b \in DOMAIN D.cbs : b # c => Z.cbs[b] = D.cbs[b]
  BY <1>1, <1>2, EnterClosedFields
<1>7. P = IF r = NoElement THEN Z ELSE PerformLeave(Z, r, show)
  <2>1. \A i, j : i = D.cbs[c].el /\ i \in DOMAIN D.els /\ j = D.els[i].releases /\ j # i
                  /\ (j # NoElement => j \in DOMAIN D.els /\ D.els[j].leaveCb # c) =>
                EnterOver(D, c, show) = IF j = NoElement THEN EnterClosed(D, c)
                                        ELSE PerformLeave(EnterClosed(D, c), j, show)
    BY <1>1, EnterOverIs
  <2>2. e = D.cbs[c].el /\ r = D.els[e].releases
    OBVIOUS
  <2>. HIDE DEF e, r
  <2>. QED
    BY <1>2, <1>3, <1>4, <2>1, <2>2
<1>8. CASE r = NoElement
  BY <1>5, <1>6, <1>7, <1>8 DEF Released
<1>9. CASE r # NoElement
  <2>. HIDE DEF e, Z, P
  <2>1. Z.els[r] = D.els[r] /\ r \in DOMAIN Z.els /\ Released(D, e) = l
    BY <1>3, <1>6, <1>9 DEF EnterEnded, Released
  <2>2. CASE l = NoCallback
    <3>1. PerformLeave(Z, r, show) = Z
      BY <2>1, <2>2 DEF PerformLeave
    <3>. QED
      BY <1>5, <1>6, <1>7, <1>9, <2>1, <2>2, <3>1 DEF P, e
  <2>3. CASE l # NoCallback
    <3>1. l \in DOMAIN D.cbs /\ l # c /\ ~D.cbs[l].called /\ ~D.cbs[l].cancelled
      <4>1. WaitsFor(D, r, l, "leave") /\ l # c
        BY <1>1, <1>3, <1>4, <1>9 DEF ElementOk
      <4>. HIDE DEF l
      <4>2. l \in DOMAIN D.cbs /\ ~D.cbs[l].called
        BY <2>3, <4>1 DEF WaitsFor
      <4>3. CallbackOk(D, l, c)
        BY <1>1, <4>2
      <4>. QED
        BY <4>1, <4>2, <4>3 DEF CallbackOk
    <3>2. l \notin D.frames /\ l \notin D.ends
      BY <1>2, <1>9 DEF ElementOk, ReleaseOk
    <3>3. \A y \in DOMAIN Z.els : Z.els[y].releases # r
      <4>1. \A y \in DOMAIN D.els : D.els[y].releases = r => y = e
        BY <1>2, <1>9 DEF ElementOk, ReleaseOk
      <4>. QED
        BY <1>6, <1>9, <4>1 DEF EnterEnded
    <3>4. ~Z.cbs[l].cancelled
      BY <1>6, <3>1
    <3>5. /\ StageInv(PerformLeave(Z, r, show), NoCallback)
          /\ OnlyClasses(Z, PerformLeave(Z, r, show))
      <4>. HIDE DEF l, r
      <4>1. StageInv(Z, l) /\ l = Z.els[r].leaveCb
        BY <1>5, <2>1 DEF l
      <4>. QED
        BY <1>6, <2>1, <2>3, <3>2, <3>3, <3>4, <4>1, LeaveBegins
    <3>6. EnterEnded(D, P, e)
      <4>1. P = PerformLeave(Z, r, show)
        BY <1>7, <1>9
      <4>. HIDE DEF r
      <4>. QED
        BY <1>2, <1>6, <3>5, <4>1 DEF EnterEnded, OnlyClasses, Reclassed
    <3>7. StageInv(P, NoCallback)
      BY <1>7, <1>9, <3>5
    <3>. QED
      BY <3>6, <3>7 DEF P, e
  <2>. QED
    BY <2>2, <2>3
<1>. QED
  BY <1>8, <1>9

\* The leave of element e is over: its callback is forgotten; unless it was cancelled
\* the element is out of sight, and the render that waited for it may come.
LeaveEnded(D, P, e, show, cancelled) ==
    LET u == D.els[e]
        v == P.els[e]
    IN /\ DOMAIN P.els = DOMAIN D.els
       /\ \A i \in DOMAIN D.els : i # e => P.els[i] = D.els[i]
       /\ v.kind = u.kind /\ v.enterCb = u.enterCb /\ v.delayLeave = u.delayLeave
       /\ v.afterLeave = u.afterLeave /\ v.releases = u.releases
       /\ v.leaveCb = NoCallback
       /\ v.inDom = (u.inDom /\ (cancelled \/ show))
       /\ v.display = (u.display /\ (cancelled \/ ~show))
       /\ P.leaving = (D.leaving /\ (cancelled \/ ~u.afterLeave))
       /\ P.dirty = (D.dirty \/ (~cancelled /\ u.afterLeave))

ForgetLeave(D, e) == [D EXCEPT !.els[e].leaveCb = NoCallback]
Unleave(D, e) == [D EXCEPT !.els[e].classes = @ \ {"leave"}]
PutAway(D, e, show, after) ==
    [D EXCEPT !.els[e].display = IF show THEN FALSE ELSE @,
              !.els[e].inDom = IF show THEN @ ELSE FALSE,
              !.leaving = IF after THEN FALSE ELSE @,
              !.dirty = @ \/ after]

LeaveForgot(D, c, e) ==
    [D EXCEPT !.pending = IF D.els[e].inDom THEN [@ EXCEPT ![D.els[e].kind] = NoElement] ELSE @,
              !.els[e].classes = @ \ {"leave-to", "leave-active"},
              !.cbs[c].called = TRUE]

LEMMA LeaveOverIs ==
    ASSUME NEW D, NEW c, NEW show
    PROVE  LeaveOver(D, c, show)
             = ForgetLeave(IF D.cbs[c].cancelled
                           THEN Unleave(LeaveForgot(D, c, D.cbs[c].el), D.cbs[c].el)
                           ELSE PutAway(LeaveForgot(D, c, D.cbs[c].el), D.cbs[c].el, show,
                                        D.els[D.cbs[c].el].afterLeave),
                           D.cbs[c].el)
BY Zenon DEF LeaveOver, ForgetLeave, Unleave, PutAway, LeaveForgot

CallbackEnded(D, P, c, e, show, cancelled) ==
    /\ P \in Stages /\ DOMAIN P.cbs = DOMAIN D.cbs
    /\ P.frames = D.frames /\ P.ends = D.ends
    /\ \A k \in Kinds : P.pending[k] \in {D.pending[k], NoElement}
    /\ LeaveEnded(D, P, e, show, cancelled)
    /\ P.els[e].classes = D.els[e].classes \ ({"leave-to", "leave-active"}
                              \cup (IF cancelled THEN {"leave"} ELSE {}))
    /\ \A b \in DOMAIN D.cbs : b # c => P.cbs[b] = D.cbs[b]
    /\ P.cbs[c].called /\ P.cbs[c].el = e /\ P.cbs[c].kind = D.cbs[c].kind
    /\ P.cbs[c].cancelled = cancelled

LEMMA LeaveOverFields ==
    ASSUME NEW D \in Stages, NEW c \in DOMAIN D.cbs, NEW show \in BOOLEAN,
           NEW e, e = D.cbs[c].el, e \in DOMAIN D.els
    PROVE  CallbackEnded(D, LeaveOver(D, c, show), c, e, show, D.cbs[c].cancelled)
<1>. DEFINE P == LeaveOver(D, c, show)
            N == D.cbs[c].cancelled
            a == D.els[e].afterLeave
            S0 == D.els[e].classes \ {"leave-to", "leave-active"}
            S == D.els[e].classes \ ({"leave-to", "leave-active"}
                                     \cup (IF N THEN {"leave"} ELSE {}))
            Forgot(u) == [u EXCEPT !.leaveCb = NoCallback]
            Bare(u) == [u EXCEPT !.classes = @ \ {"leave"}]
            Gone(u) == [u EXCEPT !.display = IF show THEN FALSE ELSE @,
                                 !.inDom = IF show THEN @ ELSE FALSE]
            v0 == [D.els[e] EXCEPT !.classes = S0]
            v == [D.els[e] EXCEPT !.classes = S, !.leaveCb = NoCallback,
                                  !.inDom = @ /\ (N \/ show), !.display = @ /\ (N \/ ~show)]
            C == [D.cbs EXCEPT ![c].called = TRUE]
            Q == IF D.els[e].inDom THEN [D.pending EXCEPT ![D.els[e].kind] = NoElement]
                 ELSE D.pending
            F == LeaveForgot(D, c, e)
            lv == D.leaving /\ (N \/ ~a)
            dy == D.dirty \/ (~N /\ a)
            At(u, l, d) == [D EXCEPT !.els = [D.els EXCEPT ![e] = u], !.cbs = C, !.pending = Q,
                                     !.leaving = l, !.dirty = d]
<1>1. D.els[e] \in Element /\ D.els \in Seq(Element) /\ D.cbs[c] \in Callback
  BY StageFields
<1>2. N \in BOOLEAN /\ a \in BOOLEAN /\ D.leaving \in BOOLEAN /\ D.dirty \in BOOLEAN
  BY <1>1, StageFields DEF Element, Callback
<1>3. F = At(v0, D.leaving, D.dirty)
  BY DEF Stages, LeaveForgot
<1>0. /\ N => P = ForgetLeave(Unleave(F, e), e)
      /\ ~N => P = ForgetLeave(PutAway(F, e, show, a), e)
  <2>1. P = ForgetLeave(IF N THEN Unleave(F, e) ELSE PutAway(F, e, show, a), e)
    BY LeaveOverIs
  <2>. HIDE DEF P, F, N
  <2>. QED
    BY <2>1
<1>. HIDE DEF F, P
<1>4. /\ S \in SUBSET (EnterClasses \cup LeaveClasses)
      /\ S = IF N THEN S0 \ {"leave"} ELSE S0
  BY <1>1 DEF Element
<1>. HIDE DEF S, S0
<1>5. /\ v \in Element /\ v.classes = S /\ v.leaveCb = NoCallback
      /\ v.kind = D.els[e].kind /\ v.enterCb = D.els[e].enterCb
      /\ v.delayLeave = D.els[e].delayLeave /\ v.afterLeave = a /\ v.releases = D.els[e].releases
      /\ v.inDom = (D.els[e].inDom /\ (N \/ show))
      /\ v.display = (D.els[e].display /\ (N \/ ~show))
  <2>. DEFINE in == D.els[e].inDom /\ (N \/ show)
              seen == D.els[e].display /\ (N \/ ~show)
              u == [D.els[e] EXCEPT !.classes = S, !.leaveCb = NoCallback, !.inDom = in,
                                    !.display = seen]
  <2>1. in \in BOOLEAN /\ seen \in BOOLEAN
    OBVIOUS
  <2>2. v = u
    OBVIOUS
  <2>. HIDE DEF in, seen, v
  <2>3. /\ u \in Element /\ u.classes = S /\ u.leaveCb = NoCallback
        /\ u.kind = D.els[e].kind /\ u.enterCb = D.els[e].enterCb
        /\ u.delayLeave = D.els[e].delayLeave /\ u.afterLeave = a
        /\ u.releases = D.els[e].releases /\ u.inDom = in /\ u.display = seen
    BY <1>1, <1>4, <2>1 DEF Element, NoCallback
  <2>. HIDE DEF u
  <2>. QED
    BY <2>2, <2>3 DEF in, seen
<1>6. /\ N => v = Forgot(Bare(v0))
      /\ ~N => v = Forgot(Gone(v0))
  BY <1>1, <1>2, <1>4 DEF Element
<1>7. Q \in [Kinds -> Nat] /\ \A k \in Kinds : Q[k] \in {D.pending[k], NoElement}
  BY <1>1, StageFields DEF Element, NoElement
<1>. HIDE DEF v0, v, C, Q
<1>. HIDE DEF N, a
\* At, element by element
<1>8. \A u, l, d : /\ At(u, l, d).els = [D.els EXCEPT ![e] = u]
                   /\ At(u, l, d).leaving = l /\ At(u, l, d).dirty = d
                   /\ At(u, l, d).els[e] = u
  BY <1>1 DEF Stages
<1>. DEFINE Put(A, w) == [A EXCEPT !.els[e] = w]
<1>9. \A u, l, d, w : Put(At(u, l, d), w) = At(w, l, d)
  <2>. TAKE u, l, d, w
  <2>. DEFINE B == [D.els EXCEPT ![e] = u]
              E == [B EXCEPT ![e] = w]
  <2>1. E = [D.els EXCEPT ![e] = w]
    OBVIOUS
  <2>2. Put(At(u, l, d), w) = [At(u, l, d) EXCEPT !.els = E]
    <3>1. At(u, l, d).els = B
      BY <1>8
    <3>. HIDE DEF At, B
    <3>. QED
      BY <3>1
  <2>. HIDE DEF E
  <2>3. [At(u, l, d) EXCEPT !.els = E] = [D EXCEPT !.els = E, !.cbs = C, !.pending = Q,
                                                   !.leaving = l, !.dirty = d]
    BY DEF Stages
  <2>. QED
    BY <2>1, <2>2, <2>3
<1>10. \A u, l, d : ForgetLeave(At(u, l, d), e) = At(Forgot(u), l, d)
  <2>. TAKE u, l, d
  <2>. HIDE DEF At
  <2>1. ForgetLeave(At(u, l, d), e) = Put(At(u, l, d), Forgot(u))
    BY <1>8 DEF ForgetLeave
  <2>. HIDE DEF Put, Forgot
  <2>. QED
    BY <1>9, <2>1
<1>11. \A u, l, d : Unleave(At(u, l, d), e) = At(Bare(u), l, d)
  <2>. TAKE u, l, d
  <2>. HIDE DEF At
  <2>1. Unleave(At(u, l, d), e) = Put(At(u, l, d), Bare(u))
    <3>1. At(u, l, d).els[e] = u
      BY <1>8
    <3>. QED
      BY <3>1 DEF Unleave
  <2>. HIDE DEF Put, Bare
  <2>. QED
    BY <1>9, <2>1
<1>12. \A u, l, d : PutAway(At(u, l, d), e, show, a) = At(Gone(u), IF a THEN FALSE ELSE l, d \/ a)
  <2>. TAKE u, l, d
  <2>. DEFINE p == IF show THEN FALSE ELSE u.display
              q == IF show THEN u.inDom ELSE FALSE
              A1 == At([u EXCEPT !.display = p], l, d)
              A2 == At([[u EXCEPT !.display = p] EXCEPT !.inDom = q], l, d)
              Shown(A) == [A EXCEPT !.els[e].display = p]
              Placed(A) == [A EXCEPT !.els[e].inDom = q]
              Ended(A) == [A EXCEPT !.leaving = IF a THEN FALSE ELSE l, !.dirty = d \/ a]
  <2>1. At(u, l, d).els[e] = u /\ At(u, l, d).leaving = l /\ At(u, l, d).dirty = d
    BY <1>8
  <2>. HIDE DEF p, q
  <2>2. Shown(At(u, l, d)) = A1
    <3>. DEFINE w == [u EXCEPT !.display = p]
    <3>1. Shown(At(u, l, d)) = Put(At(u, l, d), w)
      <4>. HIDE DEF At
      <4>. QED
        BY <1>8
    <3>2. A1 = At(w, l, d)
      OBVIOUS
    <3>. HIDE DEF At, Put, Shown, w, A1
    <3>. QED
      BY <1>9, <3>1, <3>2
  <2>3. Placed(A1) = A2
    <3>. DEFINE w == [u EXCEPT !.display = p]
                z == [w EXCEPT !.inDom = q]
    <3>1. Placed(At(w, l, d)) = Put(At(w, l, d), z)
      <4>. HIDE DEF At, w
      <4>1. At(w, l, d).els[e] = w
        BY <1>8
      <4>. QED
        BY <4>1
    <3>2. A1 = At(w, l, d) /\ A2 = At(z, l, d)
      OBVIOUS
    <3>. HIDE DEF At, Put, Placed, w, z, A1, A2
    <3>. QED
      BY <1>9, <3>1, <3>2
  <2>4. PutAway(At(u, l, d), e, show, a)
           = Ended(Placed(Shown(At(u, l, d))))
    <3>. HIDE DEF At
    <3>. QED
      BY <2>1 DEF PutAway, p, q
  <2>5. Ended(A2) = At([[u EXCEPT !.display = p] EXCEPT !.inDom = q],
                       IF a THEN FALSE ELSE l, d \/ a)
    BY DEF Stages
  <2>6. Gone(u) = [[u EXCEPT !.display = p] EXCEPT !.inDom = q]
    BY DEF p, q
  <2>7. PutAway(At(u, l, d), e, show, a) = Ended(A2)
    <3>. HIDE DEF Ended, Placed, Shown, A1, A2, At
    <3>. QED
      BY <2>2, <2>3, <2>4
  <2>8. At([[u EXCEPT !.display = p] EXCEPT !.inDom = q], IF a THEN FALSE ELSE l, d \/ a)
          = At(Gone(u), IF a THEN FALSE ELSE l, d \/ a)
    <3>. HIDE DEF At, Gone
    <3>. QED
      BY <2>6
  <2>. HIDE DEF Ended, A2, At, Gone
  <2>. QED
    BY <2>5, <2>7, <2>8
<1>13. P = At(v, lv, dy)
  <2>1. CASE N
    <3>1. lv = D.leaving /\ dy = D.dirty
      BY <1>2, <2>1
    <3>. HIDE DEF At, lv, dy, Forgot, Bare, Gone
    <3>. QED
      <4>1. Unleave(F, e) = At(Bare(v0), D.leaving, D.dirty)
        BY <1>3, <1>11
      <4>2. ForgetLeave(Unleave(F, e), e) = At(Forgot(Bare(v0)), D.leaving, D.dirty)
        BY <4>1, <1>10
      <4>. QED
        BY <1>0, <1>6, <2>1, <3>1, <4>2
  <2>2. CASE ~N
    <3>1. lv = (IF a THEN FALSE ELSE D.leaving) /\ dy = (D.dirty \/ a)
      BY <1>2, <2>2
    <3>. HIDE DEF At, lv, dy, Forgot, Bare, Gone
    <3>. QED
      <4>1. PutAway(F, e, show, a) = At(Gone(v0), lv, dy)
        BY <1>3, <1>12, <3>1
      <4>2. ForgetLeave(PutAway(F, e, show, a), e) = At(Forgot(Gone(v0)), lv, dy)
        BY <4>1, <1>10
      <4>. QED
        BY <1>0, <1>6, <2>2, <4>2
  <2>. QED
    BY <2>1, <2>2
<1>. DEFINE E == [D.els EXCEPT ![e] = v]
<1>14. /\ E \in Seq(Element) /\ DOMAIN E = DOMAIN D.els
       /\ \A i \in DOMAIN D.els : E[i] = IF i = e THEN v ELSE D.els[i]
  BY <1>1, <1>5, ElementSet
<1>15. /\ C \in Seq(Callback) /\ DOMAIN C = DOMAIN D.cbs
       /\ \A b \in DOMAIN D.cbs : b # c => C[b] = D.cbs[b]
       /\ C[c].called /\ C[c].el = e /\ C[c].kind = D.cbs[c].kind /\ C[c].cancelled = N
  BY CallbackCalled DEF C, N
<1>16. lv \in BOOLEAN /\ dy \in BOOLEAN
  BY <1>2
<1>. HIDE DEF E, P, lv, dy
<1>17. P = [D EXCEPT !.els = E, !.cbs = C, !.pending = Q, !.leaving = lv, !.dirty = dy]
  BY <1>13 DEF E
<1>18. /\ P \in Stages /\ P.els = E /\ P.cbs = C /\ P.leaving = lv /\ P.dirty = dy
       /\ P.frames = D.frames /\ P.ends = D.ends /\ P.pending = Q
  BY <1>7, <1>14, <1>15, <1>16, <1>17 DEF Stages
<1>19. P.els[e] = v /\ \A i \in DOMAIN D.els : i # e => P.els[i] = D.els[i]
  BY <1>14, <1>18
<1>20. LeaveEnded(D, P, e, show, N)
  <2>. QED
    BY <1>5, <1>14, <1>18, <1>19 DEF LeaveEnded, lv, dy, a
<1>. QED
  BY <1>5, <1>7, <1>15, <1>18, <1>19, <1>20 DEF P, S, N, CallbackEnded

\* A leave callback is over once it was cancelled or its frame has come, or with the
\* element itself.
LEMMA LeaveOverKeeps ==
    ASSUME NEW D, NEW c \in DOMAIN D.cbs, NEW show \in BOOLEAN, StageInv(D, c),
           D.cbs[c].kind = "leave", ~D.cbs[c].called,
           D.cbs[c].cancelled \/ c \notin D.frames \/ ~show
    PROVE  /\ StageInv(LeaveOver(D, c, show), NoCallback)
           /\ LeaveEnded(D, LeaveOver(D, c, show), D.cbs[c].el, show, D.cbs[c].cancelled)
<1>. DEFINE e == D.cbs[c].el
            P == LeaveOver(D, c, show)
            N == D.cbs[c].cancelled
<1>1. /\ D \in Stages /\ D.frames \subseteq DOMAIN D.cbs /\ D.ends \subseteq DOMAIN D.cbs
      /\ D.frames \cap D.ends = {}
      /\ \A k \in Kinds : D.pending[k] # NoElement => D.pending[k] \in DOMAIN D.els
      /\ \A b \in DOMAIN D.cbs : CallbackOk(D, b, c)
      /\ \A i \in DOMAIN D.els : ElementOk(D, i, c)
  BY DEF StageInv
<1>2. e \in DOMAIN D.els /\ D.els[e].leaveCb = c /\ D.els[e] \in Element /\ N \in BOOLEAN
  BY <1>1, StageFields DEF CallbackOk, Callback
<1>3. /\ P \in Stages /\ DOMAIN P.cbs = DOMAIN D.cbs
      /\ P.frames = D.frames /\ P.ends = D.ends
      /\ \A k \in Kinds : P.pending[k] \in {D.pending[k], NoElement}
      /\ LeaveEnded(D, P, e, show, N)
      /\ P.els[e].classes = D.els[e].classes \ ({"leave-to", "leave-active"}
                                \cup (IF N THEN {"leave"} ELSE {}))
      /\ \A b \in DOMAIN D.cbs : b # c => P.cbs[b] = D.cbs[b]
      /\ P.cbs[c].called /\ P.cbs[c].el = e /\ P.cbs[c].kind = "leave"
      /\ P.cbs[c].cancelled = N
  <2>1. \A i : i = D.cbs[c].el /\ i \in DOMAIN D.els => CallbackEnded(D, P, c, i, show, N)
    BY <1>1, LeaveOverFields
  <2>. HIDE DEF P, N
  <2>2. CallbackEnded(D, P, c, e, show, N)
    BY <1>2, <2>1
  <2>. HIDE DEF e
  <2>. QED
    BY <2>2 DEF CallbackEnded
<1>. HIDE DEF P, e, N
<1>4. /\ DOMAIN P.els = DOMAIN D.els
      /\ \A i \in DOMAIN D.els : i # e => P.els[i] = D.els[i]
      /\ P.els[e].enterCb = D.els[e].enterCb /\ P.els[e].releases = D.els[e].releases
      /\ P.els[e].leaveCb = NoCallback /\ P.els[e].inDom = (D.els[e].inDom /\ (N \/ show))
  BY <1>3 DEF LeaveEnded
<1>5. \A i \in DOMAIN D.els : /\ D.els[i].enterCb # c
                              /\ i # e => D.els[i].leaveCb # c
                              /\ P.els[i].enterCb = D.els[i].enterCb
                              /\ P.els[i].releases = D.els[i].releases
                              /\ P.els[i].leaveCb = IF i = e THEN NoCallback ELSE D.els[i].leaveCb
  <2>. TAKE i \in DOMAIN D.els
  <2>1. c # NoCallback
    BY <1>1, StageFields DEF NoCallback
  <2>2. WaitsFor(D, i, D.els[i].enterCb, "enter") /\ WaitsFor(D, i, D.els[i].leaveCb, "leave")
    BY <1>1 DEF ElementOk
  <2>3. D.els[i].enterCb # c /\ (i # e => D.els[i].leaveCb # c)
    BY <2>1, <2>2 DEF WaitsFor, e
  <2>. QED
    BY <1>4, <2>3
<1>6. NoCallback \notin D.frames \cup D.ends /\ c # NoCallback
  BY <1>1, StageFields DEF NoCallback
<1>7. ASSUME NEW b \in DOMAIN D.cbs
      PROVE  CallbackOk(P, b, NoCallback)
  <2>1. CallbackOk(D, b, c)
    BY <1>1
  <2>2. CASE b = c
    BY <1>2, <1>3, <1>4, <2>2 DEF CallbackOk, N
  <2>3. CASE b # c
    <3>1. P.els[D.cbs[b].el].inDom => D.els[D.cbs[b].el].inDom
      BY <1>4, <2>1 DEF CallbackOk
    <3>. QED
      BY <1>2, <1>3, <1>4, <1>5, <2>1, <2>3, <3>1 DEF CallbackOk
  <2>. QED
    BY <2>2, <2>3
<1>8. ASSUME NEW i \in DOMAIN D.els
      PROVE  ElementOk(P, i, NoCallback)
  <2>0. ElementOk(D, i, c)
    BY <1>1
  <2>1. WaitsFor(P, i, P.els[i].enterCb, "enter") /\ WaitsFor(P, i, P.els[i].leaveCb, "leave")
    BY <1>3, <1>5, <2>0 DEF ElementOk, WaitsFor
  <2>2. UnderWay(P, i, NoCallback)
    BY <1>3, <1>4, <1>5, <2>0 DEF ElementOk, UnderWay
  <2>3. ReleaseOk(P, i)
    BY <1>3, <1>4, <1>5, <1>6, <2>0 DEF ElementOk, ReleaseOk
  <2>4. ClassesOk(P, i)
    <3>1. CASE i = e
      <4>1. ASSUME P.els[e].inDom
            PROVE  D.els[e].inDom /\ "leave" \notin P.els[e].classes
        BY <1>2, <1>3, <1>4, <2>0, <3>1, <4>1 DEF ElementOk, ClassesOk, N
      <4>2. \A k \in P.els[e].classes : k \in D.els[e].classes /\ k \notin {"leave-to", "leave-active"}
        BY <1>3
      <4>. QED
        BY <1>3, <1>5, <2>0, <3>1, <4>1, <4>2 DEF ElementOk, ClassesOk, EnterClasses, LeaveClasses
    <3>2. CASE i # e
      BY <1>3, <1>4, <2>0, <3>2 DEF ElementOk, ClassesOk
    <3>. QED
      BY <3>1, <3>2
  <2>. QED
    BY <2>1, <2>2, <2>3, <2>4 DEF ElementOk
<1>9. StageInv(P, NoCallback)
  BY <1>1, <1>3, <1>4, <1>7, <1>8 DEF StageInv
<1>. QED
  BY <1>3, <1>9 DEF P, e, N

Marked(D, c) == [D EXCEPT !.cbs[c].cancelled = TRUE]

LEMMA MarkedKeeps ==
    ASSUME NEW D, StageInv(D, NoCallback), NEW c \in DOMAIN D.cbs
    PROVE  /\ StageInv(Marked(D, c), c)
           /\ Marked(D, c).els = D.els /\ DOMAIN Marked(D, c).cbs = DOMAIN D.cbs
           /\ Marked(D, c).leaving = D.leaving /\ Marked(D, c).dirty = D.dirty
           /\ Marked(D, c).cbs[c].cancelled /\ Marked(D, c).cbs[c].el = D.cbs[c].el
           /\ Marked(D, c).cbs[c].kind = D.cbs[c].kind
           /\ Marked(D, c).cbs[c].called = D.cbs[c].called
<1>. DEFINE v == [D.cbs[c] EXCEPT !.cancelled = TRUE]
            C == [D.cbs EXCEPT ![c] = v]
            P == Marked(D, c)
<1>1. /\ D \in Stages /\ D.frames \subseteq DOMAIN D.cbs /\ D.ends \subseteq DOMAIN D.cbs
      /\ D.frames \cap D.ends = {}
      /\ \A k \in Kinds : D.pending[k] # NoElement => D.pending[k] \in DOMAIN D.els
      /\ \A b \in DOMAIN D.cbs : CallbackOk(D, b, NoCallback)
      /\ \A i \in DOMAIN D.els : ElementOk(D, i, NoCallback)
  BY DEF StageInv
<1>2. D.cbs \in Seq(Callback) /\ D.cbs[c] \in Callback /\ c # NoCallback
  BY <1>1, StageFields DEF NoCallback
<1>3. /\ v \in Callback /\ v.cancelled /\ v.called = D.cbs[c].called
      /\ v.el = D.cbs[c].el /\ v.kind = D.cbs[c].kind
  BY <1>2 DEF Callback
<1>. HIDE DEF v
<1>4. /\ C \in Seq(Callback) /\ DOMAIN C = DOMAIN D.cbs
      /\ \A b \in DOMAIN D.cbs : C[b] = IF b = c THEN v ELSE D.cbs[b]
  BY <1>2, <1>3, ElementSet
<1>5. P = [D EXCEPT !.cbs = C]
  BY DEF Marked, v
<1>. HIDE DEF C, P
<1>6. /\ P \in Stages /\ P.els = D.els /\ P.cbs = C /\ P.leaving = D.leaving /\ P.dirty = D.dirty
      /\ P.frames = D.frames /\ P.ends = D.ends /\ P.pending = D.pending
  BY <1>1, <1>4, <1>5 DEF Stages
<1>7. \A b \in DOMAIN D.cbs : /\ P.cbs[b].el = D.cbs[b].el /\ P.cbs[b].kind = D.cbs[b].kind
                              /\ P.cbs[b].called = D.cbs[b].called
                              /\ P.cbs[b].cancelled = IF b = c THEN TRUE ELSE D.cbs[b].cancelled
  BY <1>3, <1>4, <1>6
<1>8. ASSUME NEW b \in DOMAIN D.cbs
      PROVE  CallbackOk(P, b, c)
  <2>1. CallbackOk(D, b, NoCallback) /\ b # NoCallback
    BY <1>1, StageFields DEF NoCallback
  <2>. QED
    BY <1>6, <1>7, <2>1 DEF CallbackOk
<1>9. ASSUME NEW i \in DOMAIN D.els
      PROVE  ElementOk(P, i, c)
  <2>0. ElementOk(D, i, NoCallback)
    BY <1>1
  <2>1. WaitsFor(P, i, P.els[i].enterCb, "enter") /\ WaitsFor(P, i, P.els[i].leaveCb, "leave")
    <3>1. P.els = D.els /\ DOMAIN P.cbs = DOMAIN D.cbs
      BY <1>4, <1>6
    <3>2. \A b, k : WaitsFor(D, i, b, k) => WaitsFor(P, i, b, k)
      BY <1>7, <3>1 DEF WaitsFor
    <3>. QED
      BY <2>0, <3>1, <3>2 DEF ElementOk
  <2>2. UnderWay(P, i, c) /\ ReleaseOk(P, i) /\ ClassesOk(P, i)
    BY <1>6, <2>0 DEF ElementOk, UnderWay, ReleaseOk, ClassesOk
  <2>. QED
    BY <2>1, <2>2 DEF ElementOk
<1>10. StageInv(P, c)
  BY <1>1, <1>4, <1>6, <1>8, <1>9 DEF StageInv
<1>. QED
  BY <1>4, <1>6, <1>7, <1>10 DEF P

\* Cancelling ends an enter or a leave at once, wherever it was.
LEMMA CancelEnter ==
    ASSUME NEW D, StageInv(D, NoCallback), NEW e \in DOMAIN D.els, NEW show \in BOOLEAN,
           NEW c, c = D.els[e].enterCb, c # NoCallback
    PROVE  /\ StageInv(Cancel(D, c, show), NoCallback)
           /\ EnterEnded(D, Cancel(D, c, show), e)
<1>. DEFINE M == Marked(D, c)
<1>1. c \in DOMAIN D.cbs /\ D.cbs[c].el = e /\ D.cbs[c].kind = "enter" /\ ~D.cbs[c].called
  BY DEF StageInv, ElementOk, WaitsFor
<1>2. /\ StageInv(M, c) /\ M.els = D.els /\ DOMAIN M.cbs = DOMAIN D.cbs
      /\ M.leaving = D.leaving /\ M.dirty = D.dirty
      /\ M.cbs[c].cancelled /\ M.cbs[c].el = e /\ M.cbs[c].kind = "enter" /\ ~M.cbs[c].called
  BY <1>1, MarkedKeeps
<1>3. Cancel(D, c, show) = Call(M, c, show)
  BY DEF Cancel, Marked
<1>. HIDE DEF M
<1>4. Cancel(D, c, show) = EnterOver(M, c, show)
  BY <1>2, <1>3 DEF Call
<1>5. StageInv(EnterOver(M, c, show), NoCallback) /\ EnterEnded(M, EnterOver(M, c, show), e)
  BY <1>1, <1>2, EnterOverKeeps
<1>. QED
  BY <1>2, <1>4, <1>5 DEF EnterEnded

LEMMA CancelLeave ==
    ASSUME NEW D, StageInv(D, NoCallback), NEW e \in DOMAIN D.els, NEW show \in BOOLEAN,
           NEW c, c = D.els[e].leaveCb, c # NoCallback
    PROVE  /\ StageInv(Cancel(D, c, show), NoCallback)
           /\ LeaveEnded(D, Cancel(D, c, show), e, show, TRUE)
<1>. DEFINE M == Marked(D, c)
<1>1. c \in DOMAIN D.cbs /\ D.cbs[c].el = e /\ D.cbs[c].kind = "leave" /\ ~D.cbs[c].called
  BY DEF StageInv, ElementOk, WaitsFor
<1>2. /\ StageInv(M, c) /\ M.els = D.els /\ DOMAIN M.cbs = DOMAIN D.cbs
      /\ M.leaving = D.leaving /\ M.dirty = D.dirty
      /\ M.cbs[c].cancelled /\ M.cbs[c].el = e /\ M.cbs[c].kind = "leave" /\ ~M.cbs[c].called
  BY <1>1, MarkedKeeps
<1>3. Cancel(D, c, show) = Call(M, c, show)
  BY DEF Cancel, Marked
<1>. HIDE DEF M
<1>4. Cancel(D, c, show) = LeaveOver(M, c, show)
  BY <1>2, <1>3 DEF Call
<1>5. /\ StageInv(LeaveOver(M, c, show), NoCallback)
      /\ LeaveEnded(M, LeaveOver(M, c, show), e, show, M.cbs[c].cancelled)
  <2>1. /\ StageInv(LeaveOver(M, c, show), NoCallback)
        /\ LeaveEnded(M, LeaveOver(M, c, show), M.cbs[c].el, show, M.cbs[c].cancelled)
    BY <1>1, <1>2, LeaveOverKeeps
  <2>. QED
    BY <1>2, <2>1
<1>. QED
  BY <1>2, <1>4, <1>5 DEF LeaveEnded

\* An end event comes for c.
Unqueued(D, c) == [D EXCEPT !.ends = @ \ {c}]

LEMMA UnqueuedKeeps ==
    ASSUME NEW D, StageInv(D, NoCallback), NEW c \in D.ends,
           NEW P, P = Unqueued(D, c)
    PROVE  /\ StageInv(P, c) /\ P.els = D.els /\ P.cbs = D.cbs /\ P.frames = D.frames
           /\ P.leaving = D.leaving /\ P.dirty = D.dirty
           /\ c \in DOMAIN D.cbs /\ c \notin P.frames
<1>1. /\ D \in Stages /\ D.frames \subseteq DOMAIN D.cbs /\ D.ends \subseteq DOMAIN D.cbs
      /\ D.frames \cap D.ends = {}
      /\ \A k \in Kinds : D.pending[k] # NoElement => D.pending[k] \in DOMAIN D.els
      /\ \A b \in DOMAIN D.cbs : CallbackOk(D, b, NoCallback)
      /\ \A i \in DOMAIN D.els : ElementOk(D, i, NoCallback)
  BY DEF StageInv
<1>2. /\ P \in Stages /\ P.els = D.els /\ P.cbs = D.cbs /\ P.leaving = D.leaving
      /\ P.dirty = D.dirty /\ P.frames = D.frames /\ P.ends = D.ends \ {c}
      /\ P.pending = D.pending
  BY <1>1 DEF Stages, Unqueued
<1>3. \A b \in DOMAIN D.cbs : CallbackOk(P, b, c)
  <2>1. \A b \in DOMAIN D.cbs : b # NoCallback
    BY <1>1, StageFields DEF NoCallback
  <2>. QED
    BY <1>1, <1>2, <2>1 DEF CallbackOk
<1>4. ASSUME NEW i \in DOMAIN D.els
      PROVE  ElementOk(P, i, c)
  <2>0. ElementOk(D, i, NoCallback)
    BY <1>1
  <2>1. WaitsFor(P, i, P.els[i].enterCb, "enter") /\ WaitsFor(P, i, P.els[i].leaveCb, "leave")
    BY <1>2, <2>0 DEF ElementOk, WaitsFor
  <2>2. UnderWay(P, i, c)
    BY <1>2, <2>0 DEF ElementOk, UnderWay
  <2>3. ReleaseOk(P, i) /\ ClassesOk(P, i)
    BY <1>2, <2>0 DEF ElementOk, ReleaseOk, ClassesOk
  <2>. QED
    BY <2>1, <2>2, <2>3 DEF ElementOk
<1>. QED
  BY <1>1, <1>2, <1>3, <1>4 DEF StageInv

\* C is the callbacks of D and c, a new one of element e.
IsAppended(D, C, c, e, kind) ==
    /\ C \in Seq(Callback) /\ DOMAIN C = DOMAIN D.cbs \cup {c}
    /\ c \in Nat /\ c # NoCallback /\ c \notin DOMAIN D.cbs
    /\ \A b \in DOMAIN D.cbs : C[b] = D.cbs[b]
    /\ C[c].el = e /\ C[c].kind = kind /\ ~C[c].called /\ ~C[c].cancelled

LEMMA CallbackAppended ==
    ASSUME NEW D \in Stages, NEW e \in DOMAIN D.els, NEW kind, kind \in {"enter", "leave"}
    PROVE  IsAppended(D, Append(D.cbs, NewCallback(e, kind)), Len(D.cbs) + 1, e, kind)
<1>. DEFINE C == Append(D.cbs, NewCallback(e, kind))
            c == Len(D.cbs) + 1
<1>1. D.cbs \in Seq(Callback) /\ Len(D.cbs) \in Nat /\ DOMAIN D.cbs = 1..Len(D.cbs) /\ e \in Nat
  BY StageFields
<1>2. /\ NewCallback(e, kind) \in Callback /\ NewCallback(e, kind).el = e
      /\ NewCallback(e, kind).kind = kind /\ ~NewCallback(e, kind).called
      /\ ~NewCallback(e, kind).cancelled
  BY <1>1 DEF NewCallback, Callback
<1>3. /\ C \in Seq(Callback) /\ Len(C) = c /\ C[c] = NewCallback(e, kind)
      /\ \A b \in 1..Len(D.cbs) : C[b] = D.cbs[b]
  BY <1>1, <1>2, AppendProperties
<1>4. DOMAIN C = 1..c
  BY <1>3, LenProperties
<1>. QED
  BY <1>1, <1>2, <1>3, <1>4 DEF NoCallback, IsAppended

\* Element e has begun to enter.
Entered(D, P, e) ==
    LET u == D.els[e]
        v == P.els[e]
    IN /\ DOMAIN P.els = DOMAIN D.els /\ P.leaving = D.leaving /\ P.dirty = D.dirty
       /\ \A i \in DOMAIN D.els : i # e => Reclassed(D.els[i], P.els[i])
       /\ v.kind = u.kind /\ v.inDom = u.inDom /\ v.display
       /\ v.leaveCb = NoCallback /\ v.delayLeave = u.delayLeave /\ v.afterLeave = u.afterLeave
       /\ v.enterCb # NoCallback /\ v.releases = u.releases

EnterBegun(D, e) ==
    [D EXCEPT !.cbs = Append(@, NewCallback(e, "enter")),
              !.els[e].enterCb = Len(D.cbs) + 1,
              !.els[e].classes = @ \cup {"enter", "enter-active"},
              !.els[e].display = TRUE,
              !.frames = @ \cup {Len(D.cbs) + 1}]

LEMMA EnterBegins ==
    ASSUME NEW D, StageInv(D, NoCallback), NEW e \in DOMAIN D.els,
           D.els[e].enterCb = NoCallback, D.els[e].leaveCb = NoCallback
    PROVE  StageInv(EnterBegun(D, e), NoCallback) /\ Entered(D, EnterBegun(D, e), e)
<1>. DEFINE c == Len(D.cbs) + 1
            C == Append(D.cbs, NewCallback(e, "enter"))
            S == D.els[e].classes \cup {"enter", "enter-active"}
            v == [D.els[e] EXCEPT !.enterCb = c, !.classes = S, !.display = TRUE]
            E == [D.els EXCEPT ![e] = v]
            P == EnterBegun(D, e)
<1>1. /\ D \in Stages /\ D.frames \subseteq DOMAIN D.cbs /\ D.ends \subseteq DOMAIN D.cbs
      /\ D.frames \cap D.ends = {}
      /\ \A k \in Kinds : D.pending[k] # NoElement => D.pending[k] \in DOMAIN D.els
      /\ \A b \in DOMAIN D.cbs : CallbackOk(D, b, NoCallback)
      /\ \A i \in DOMAIN D.els : ElementOk(D, i, NoCallback)
  BY DEF StageInv
<1>2. D.els \in Seq(Element) /\ D.els[e] \in Element
  BY <1>1, StageFields
<1>3. /\ C \in Seq(Callback) /\ DOMAIN C = DOMAIN D.cbs \cup {c}
      /\ c \in Nat /\ c # NoCallback /\ c \notin DOMAIN D.cbs
      /\ \A b \in DOMAIN D.cbs : C[b] = D.cbs[b]
      /\ C[c].el = e /\ C[c].kind = "enter" /\ ~C[c].called /\ ~C[c].cancelled
  <2>1. IsAppended(D, C, c, e, "enter")
    BY <1>1, CallbackAppended
  <2>. HIDE DEF c, C
  <2>. QED
    BY <2>1 DEF IsAppended
<1>4. P = [D EXCEPT !.els = E, !.cbs = C, !.frames = D.frames \cup {c}]
  <2>. DEFINE u1 == [D.els[e] EXCEPT !.enterCb = c]
              u2 == [u1 EXCEPT !.classes = S]
              At(u) == [D EXCEPT !.els = [D.els EXCEPT ![e] = u], !.cbs = C]
              Calling(A) == [A EXCEPT !.els[e].enterCb = c]
              Classed(A) == [A EXCEPT !.els[e].classes = S]
              Shown(A) == [A EXCEPT !.els[e].display = TRUE]
              Framed(A) == [A EXCEPT !.frames = D.frames \cup {c}]
  <2>1. P = Framed(Shown(Classed(Calling([D EXCEPT !.cbs = C]))))
    BY DEF EnterBegun
  <2>2. v = [u2 EXCEPT !.display = TRUE]
    OBVIOUS
  <2>. HIDE DEF c, C, S, P
  <2>3. Calling([D EXCEPT !.cbs = C]) = At(u1)
    BY <1>1, <1>2 DEF Stages
  <2>. HIDE DEF u1
  <2>4. Classed(At(u1)) = At(u2)
    BY <1>1, <1>2 DEF Stages
  <2>. HIDE DEF u2
  <2>5. Shown(At(u2)) = At([u2 EXCEPT !.display = TRUE])
    BY <1>1, <1>2 DEF Stages
  <2>. HIDE DEF v
  <2>6. Framed(At(v)) = [D EXCEPT !.els = E, !.cbs = C, !.frames = D.frames \cup {c}]
    OBVIOUS
  <2>7. At([u2 EXCEPT !.display = TRUE]) = At(v)
    <3>. HIDE DEF At
    <3>. QED
      BY <2>2
  <2>. HIDE DEF At, Framed, Shown, Classed, Calling, E
  <2>. QED
    BY <2>1, <2>3, <2>4, <2>5, <2>6, <2>7
<1>5. S \in SUBSET (EnterClasses \cup LeaveClasses)
  BY <1>2 DEF Element, EnterClasses
<1>. HIDE DEF c, C, S
<1>6. /\ v \in Element /\ v.enterCb = c /\ v.classes = S /\ v.display
      /\ v.kind = D.els[e].kind /\ v.inDom = D.els[e].inDom /\ v.leaveCb = NoCallback
      /\ v.delayLeave = D.els[e].delayLeave /\ v.afterLeave = D.els[e].afterLeave
      /\ v.releases = D.els[e].releases
  BY <1>2, <1>3, <1>5 DEF Element
<1>. HIDE DEF v
<1>7. /\ E \in Seq(Element) /\ DOMAIN E = DOMAIN D.els
      /\ \A i \in DOMAIN D.els : E[i] = IF i = e THEN v ELSE D.els[i]
  BY <1>2, <1>6, ElementSet
<1>. HIDE DEF E, P
<1>8. /\ P \in Stages /\ P.els = E /\ P.cbs = C /\ P.leaving = D.leaving /\ P.dirty = D.dirty
      /\ P.frames = D.frames \cup {c} /\ P.ends = D.ends /\ P.pending = D.pending
  BY <1>1, <1>3, <1>4, <1>7 DEF Stages
<1>9. /\ \A i \in DOMAIN D.els : i # e => P.els[i] = D.els[i]
      /\ P.els[e] = v
      /\ \A i \in DOMAIN D.els : /\ P.els[i].leaveCb = D.els[i].leaveCb
                                 /\ P.els[i].releases = D.els[i].releases
                                 /\ P.els[i].inDom = D.els[i].inDom
                                 /\ P.els[i].enterCb = IF i = e THEN c ELSE D.els[i].enterCb
                                 /\ D.els[i].leaveCb # c
  <2>1. \A i \in DOMAIN D.els : D.els[i].leaveCb # c
    BY <1>1, <1>3 DEF ElementOk, WaitsFor
  <2>. QED
    BY <1>6, <1>7, <1>8, <2>1
<1>10. Entered(D, P, e)
  BY <1>3, <1>6, <1>7, <1>8, <1>9 DEF Entered, Reclassed
<1>11. ASSUME NEW b \in DOMAIN P.cbs
       PROVE  CallbackOk(P, b, NoCallback)
  <2>1. CASE b = c
    BY <1>3, <1>7, <1>8, <1>9, <2>1 DEF CallbackOk
  <2>2. CASE b # c
    <3>1. b \in DOMAIN D.cbs /\ P.cbs[b] = D.cbs[b] /\ CallbackOk(D, b, NoCallback) /\ b # NoCallback
      BY <1>1, <1>3, <1>8, <2>2, StageFields DEF NoCallback
    <3>. QED
      BY <1>7, <1>8, <1>9, <2>2, <3>1 DEF CallbackOk
  <2>. QED
    BY <2>1, <2>2
<1>12. ASSUME NEW i \in DOMAIN D.els
       PROVE  ElementOk(P, i, NoCallback)
  <2>0. ElementOk(D, i, NoCallback)
    BY <1>1
  <2>1. WaitsFor(P, i, P.els[i].enterCb, "enter") /\ WaitsFor(P, i, P.els[i].leaveCb, "leave")
    BY <1>3, <1>8, <1>9, <2>0 DEF ElementOk, WaitsFor
  <2>2. UnderWay(P, i, NoCallback)
    BY <1>7, <1>8, <1>9, <2>0 DEF ElementOk, UnderWay
  <2>3. ReleaseOk(P, i)
    BY <1>7, <1>8, <1>9, <2>0 DEF ElementOk, ReleaseOk
  <2>4. ClassesOk(P, i)
    <3>1. CASE i = e
      <4>1. \A k \in P.els[e].classes : k \in D.els[e].classes \/ k \in {"enter", "enter-active"}
        BY <1>6, <1>9 DEF S
      <4>. QED
        BY <1>3, <1>8, <1>9, <2>0, <3>1, <4>1 DEF ElementOk, ClassesOk, EnterClasses, LeaveClasses
    <3>2. CASE i # e
      BY <1>8, <1>9, <2>0, <3>2 DEF ElementOk, ClassesOk
    <3>. QED
      BY <3>1, <3>2
  <2>. QED
    BY <2>1, <2>2, <2>3, <2>4 DEF ElementOk
<1>13. StageInv(P, NoCallback)
  <2>1. P.frames \subseteq DOMAIN P.cbs /\ P.ends \subseteq DOMAIN P.cbs /\ P.frames \cap P.ends = {}
    BY <1>1, <1>3, <1>8
  <2>. QED
    BY <1>1, <1>7, <1>8, <1>11, <1>12, <2>1 DEF StageInv
<1>. QED
  BY <1>10, <1>13 DEF P

\* enter: a leave under way is cancelled first.
LEMMA EnterKeeps ==
    ASSUME NEW D, StageInv(D, NoCallback), NEW e \in DOMAIN D.els, NEW show \in BOOLEAN,
           D.els[e].enterCb = NoCallback
    PROVE  StageInv(Enter(D, e, show), NoCallback) /\ Entered(D, Enter(D, e, show), e)
<1>. DEFINE C == Cancel(D, D.els[e].leaveCb, show)
<1>1. /\ StageInv(C, NoCallback) /\ DOMAIN C.els = DOMAIN D.els
      /\ C.leaving = D.leaving /\ C.dirty = D.dirty
      /\ \A i \in DOMAIN D.els : i # e => Reclassed(D.els[i], C.els[i])
      /\ C.els[e].kind = D.els[e].kind /\ C.els[e].inDom = D.els[e].inDom
      /\ C.els[e].leaveCb = NoCallback /\ C.els[e].enterCb = NoCallback
      /\ C.els[e].delayLeave = D.els[e].delayLeave /\ C.els[e].afterLeave = D.els[e].afterLeave
      /\ C.els[e].releases = D.els[e].releases
  <2>1. CASE D.els[e].leaveCb = NoCallback
    <3>1. C = D
      BY <2>1 DEF Cancel
    <3>. QED
      BY <2>1, <3>1 DEF Reclassed
  <2>2. CASE D.els[e].leaveCb # NoCallback
    <3>1. StageInv(C, NoCallback) /\ LeaveEnded(D, C, e, show, TRUE)
      BY <2>2, CancelLeave
    <3>2. D.els[e].inDom \in BOOLEAN /\ D.leaving \in BOOLEAN /\ D.dirty \in BOOLEAN
      BY StageFields DEF StageInv, Element
    <3>. HIDE DEF C
    <3>. QED
      BY <3>1, <3>2 DEF LeaveEnded, Reclassed
  <2>. QED
    BY <2>1, <2>2
<1>2. Enter(D, e, show) = EnterBegun(C, e)
  BY <1>1 DEF Enter, EnterBegun
<1>. HIDE DEF C
<1>3. StageInv(EnterBegun(C, e), NoCallback) /\ Entered(C, EnterBegun(C, e), e)
  BY <1>1, EnterBegins
<1>. DEFINE P == EnterBegun(C, e)
<1>4. Entered(D, P, e)
  <2>. HIDE DEF P
  <2>1. Entered(C, P, e)
    BY <1>3 DEF P
  <2>. QED
    BY <1>1, <2>1 DEF Entered, Reclassed
<1>. QED
  BY <1>2, <1>3, <1>4

\* Element e is leaving, or will leave when it is released.
HasLeft(D, P, e) ==
    LET u == D.els[e]
        v == P.els[e]
    IN /\ DOMAIN P.els = DOMAIN D.els /\ P.leaving = D.leaving /\ P.dirty = D.dirty
       /\ \A i \in DOMAIN D.els : i # e => Reclassed(D.els[i], P.els[i])
       /\ v.kind = u.kind /\ v.inDom = u.inDom /\ v.display = u.display
       /\ v.leaveCb # NoCallback /\ ~v.delayLeave /\ v.afterLeave = u.afterLeave
       /\ v.enterCb = NoCallback /\ v.releases = NoElement

LeaveCalled(D, e) ==
    [D EXCEPT !.cbs = Append(D.cbs, NewCallback(e, "leave")),
              !.els = [D.els EXCEPT ![e] = [D.els[e] EXCEPT !.leaveCb = Len(D.cbs) + 1,
                                                            !.delayLeave = FALSE]]]

LEMMA LeaveCalledKeeps ==
    ASSUME NEW D, StageInv(D, NoCallback), NEW e \in DOMAIN D.els,
           D.els[e].enterCb = NoCallback, D.els[e].leaveCb = NoCallback,
           D.els[e].releases = NoElement
    PROVE  LET c == Len(D.cbs) + 1
               P == LeaveCalled(D, e)
           IN /\ StageInv(P, c) /\ HasLeft(D, P, e) /\ P.els[e].leaveCb = c
              /\ \A i \in DOMAIN D.els : P.els[i].releases = D.els[i].releases
              /\ c # NoCallback /\ c \notin P.frames /\ c \notin P.ends /\ ~P.cbs[c].cancelled
<1>. DEFINE c == Len(D.cbs) + 1
            C == Append(D.cbs, NewCallback(e, "leave"))
            v == [D.els[e] EXCEPT !.leaveCb = c, !.delayLeave = FALSE]
            E == [D.els EXCEPT ![e] = v]
            P == LeaveCalled(D, e)
<1>1. /\ D \in Stages /\ D.frames \subseteq DOMAIN D.cbs /\ D.ends \subseteq DOMAIN D.cbs
      /\ D.frames \cap D.ends = {}
      /\ \A k \in Kinds : D.pending[k] # NoElement => D.pending[k] \in DOMAIN D.els
      /\ \A b \in DOMAIN D.cbs : CallbackOk(D, b, NoCallback)
      /\ \A i \in DOMAIN D.els : ElementOk(D, i, NoCallback)
  BY DEF StageInv
<1>2. D.els \in Seq(Element) /\ D.els[e] \in Element
  BY <1>1, StageFields
<1>3. /\ C \in Seq(Callback) /\ DOMAIN C = DOMAIN D.cbs \cup {c}
      /\ c \in Nat /\ c # NoCallback /\ c \notin DOMAIN D.cbs
      /\ \A b \in DOMAIN D.cbs : C[b] = D.cbs[b]
      /\ C[c].el = e /\ C[c].kind = "leave" /\ ~C[c].called /\ ~C[c].cancelled
  <2>1. IsAppended(D, C, c, e, "leave")
    BY <1>1, CallbackAppended
  <2>. HIDE DEF c, C
  <2>. QED
    BY <2>1 DEF IsAppended
<1>4. P = [D EXCEPT !.cbs = C, !.els = E]
  BY DEF LeaveCalled
<1>. HIDE DEF c, C
<1>5. /\ v \in Element /\ v.leaveCb = c /\ v.classes = D.els[e].classes /\ ~v.delayLeave
      /\ v.kind = D.els[e].kind /\ v.inDom = D.els[e].inDom /\ v.display = D.els[e].display
      /\ v.enterCb = NoCallback /\ v.afterLeave = D.els[e].afterLeave /\ v.releases = NoElement
  BY <1>2, <1>3 DEF Element
<1>. HIDE DEF v
<1>6. /\ E \in Seq(Element) /\ DOMAIN E = DOMAIN D.els
      /\ \A i \in DOMAIN D.els : E[i] = IF i = e THEN v ELSE D.els[i]
  BY <1>2, <1>5, ElementSet
<1>. HIDE DEF E, P
<1>7. /\ P \in Stages /\ P.els = E /\ P.cbs = C /\ P.leaving = D.leaving /\ P.dirty = D.dirty
      /\ P.frames = D.frames /\ P.ends = D.ends /\ P.pending = D.pending
  BY <1>1, <1>3, <1>4, <1>6 DEF Stages
<1>8. /\ \A i \in DOMAIN D.els : i # e => P.els[i] = D.els[i]
      /\ P.els[e] = v
      /\ \A i \in DOMAIN D.els : /\ P.els[i].enterCb = D.els[i].enterCb
                                 /\ P.els[i].releases = D.els[i].releases
                                 /\ P.els[i].inDom = D.els[i].inDom
                                 /\ P.els[i].classes = D.els[i].classes
                                 /\ P.els[i].leaveCb = IF i = e THEN c ELSE D.els[i].leaveCb
                                 /\ D.els[i].enterCb # c
  <2>1. \A i \in DOMAIN D.els : D.els[i].enterCb # c
    BY <1>1, <1>3 DEF ElementOk, WaitsFor
  <2>. QED
    BY <1>5, <1>6, <1>7, <2>1
<1>9. HasLeft(D, P, e)
  BY <1>3, <1>5, <1>6, <1>7, <1>8 DEF HasLeft, Reclassed
<1>10. c \notin D.frames \cup D.ends
  BY <1>1, <1>3
<1>11. ASSUME NEW b \in DOMAIN P.cbs
       PROVE  CallbackOk(P, b, c)
  <2>1. CASE b = c
    BY <1>3, <1>6, <1>7, <1>8, <2>1 DEF CallbackOk
  <2>2. CASE b # c
    <3>1. b \in DOMAIN D.cbs /\ P.cbs[b] = D.cbs[b] /\ CallbackOk(D, b, NoCallback) /\ b # NoCallback
      BY <1>1, <1>3, <1>7, <2>2, StageFields DEF NoCallback
    <3>. QED
      BY <1>6, <1>7, <1>8, <2>2, <3>1 DEF CallbackOk
  <2>. QED
    BY <2>1, <2>2
<1>12. ASSUME NEW i \in DOMAIN D.els
       PROVE  ElementOk(P, i, c)
  <2>0. ElementOk(D, i, NoCallback)
    BY <1>1
  <2>1. WaitsFor(P, i, P.els[i].enterCb, "enter") /\ WaitsFor(P, i, P.els[i].leaveCb, "leave")
    BY <1>3, <1>7, <1>8, <2>0 DEF ElementOk, WaitsFor
  <2>2. UnderWay(P, i, c)
    BY <1>6, <1>7, <1>8, <2>0 DEF ElementOk, UnderWay
  <2>3. ReleaseOk(P, i)
    BY <1>6, <1>7, <1>8, <1>10, <2>0 DEF ElementOk, ReleaseOk
  <2>4. ClassesOk(P, i)
    BY <1>3, <1>7, <1>8, <2>0 DEF ElementOk, ClassesOk
  <2>. QED
    BY <2>1, <2>2, <2>3, <2>4 DEF ElementOk
<1>13. StageInv(P, c)
  <2>1. P.frames \subseteq DOMAIN P.cbs /\ P.ends \subseteq DOMAIN P.cbs /\ P.frames \cap P.ends = {}
    BY <1>1, <1>3, <1>7
  <2>. QED
    BY <1>1, <1>6, <1>7, <1>11, <1>12, <2>1 DEF StageInv
<1>. QED
  BY <1>3, <1>7, <1>8, <1>9, <1>10, <1>13 DEF P, c

\* A leave that waits to be released is as good as under way.
LEMMA WaitingIsFine ==
    ASSUME NEW D, NEW c, StageInv(D, c), NEW e \in DOMAIN D.els, D.els[e].leaveCb = c,
           ~D.cbs[c].cancelled, c # NoCallback, \E y \in DOMAIN D.els : D.els[y].releases = e
    PROVE  StageInv(D, NoCallback)
<1>1. /\ D \in Stages /\ D.frames \subseteq DOMAIN D.cbs /\ D.ends \subseteq DOMAIN D.cbs
      /\ D.frames \cap D.ends = {}
      /\ \A k \in Kinds : D.pending[k] # NoElement => D.pending[k] \in DOMAIN D.els
      /\ \A b \in DOMAIN D.cbs : CallbackOk(D, b, c)
      /\ \A i \in DOMAIN D.els : ElementOk(D, i, c)
  BY DEF StageInv
<1>2. c \in DOMAIN D.cbs /\ D.cbs[c].el = e /\ D.cbs[c].kind = "leave"
  BY <1>1 DEF ElementOk, WaitsFor
<1>3. \A b \in DOMAIN D.cbs : CallbackOk(D, b, NoCallback)
  BY <1>1 DEF CallbackOk
<1>4. ASSUME NEW i \in DOMAIN D.els
      PROVE  ElementOk(D, i, NoCallback)
  <2>0. ElementOk(D, i, c)
    BY <1>1
  <2>1. D.els[i].enterCb # c /\ (D.els[i].leaveCb = c => i = e)
    BY <1>2, <2>0 DEF ElementOk, WaitsFor
  <2>. QED
    BY <2>0, <2>1 DEF ElementOk, UnderWay
<1>. QED
  BY <1>1, <1>3, <1>4 DEF StageInv

\* leave: an enter under way is cancelled first.
LEMMA LeaveKeeps ==
    ASSUME NEW D, StageInv(D, NoCallback), NEW e \in DOMAIN D.els, NEW show \in BOOLEAN,
           D.els[e].leaveCb = NoCallback,
           D.els[e].enterCb = NoCallback => D.els[e].releases = NoElement,
           D.els[e].delayLeave <=> \E y \in DOMAIN D.els : D.els[y].releases = e
    PROVE  StageInv(Leave(D, e, show), NoCallback) /\ HasLeft(D, Leave(D, e, show), e)
<1>. DEFINE C == Cancel(D, D.els[e].enterCb, show)
            L == LeaveCalled(C, e)
            c == Len(C.cbs) + 1
            P == Leave(D, e, show)
<1>1. /\ StageInv(C, NoCallback) /\ DOMAIN C.els = DOMAIN D.els
      /\ C.leaving = D.leaving /\ C.dirty = D.dirty
      /\ \A i \in DOMAIN D.els : i # e => Reclassed(D.els[i], C.els[i])
      /\ C.els[e].kind = D.els[e].kind /\ C.els[e].inDom = D.els[e].inDom
      /\ C.els[e].display = D.els[e].display
      /\ C.els[e].leaveCb = NoCallback /\ C.els[e].enterCb = NoCallback
      /\ C.els[e].delayLeave = D.els[e].delayLeave /\ C.els[e].afterLeave = D.els[e].afterLeave
      /\ C.els[e].releases = NoElement
  <2>1. CASE D.els[e].enterCb = NoCallback
    <3>1. C = D
      BY <2>1 DEF Cancel
    <3>. QED
      BY <2>1, <3>1 DEF Reclassed
  <2>2. CASE D.els[e].enterCb # NoCallback
    <3>1. StageInv(C, NoCallback) /\ EnterEnded(D, C, e)
      BY <2>2, CancelEnter
    <3>. HIDE DEF C
    <3>. QED
      BY <3>1 DEF EnterEnded
  <2>. QED
    BY <2>1, <2>2
<1>2. P = IF C.els[e].delayLeave
          THEN [[C EXCEPT !.cbs = Append(@, NewCallback(e, "leave")), !.els[e].leaveCb = c]
                   EXCEPT !.els[e].delayLeave = FALSE]
          ELSE PerformLeave([C EXCEPT !.cbs = Append(@, NewCallback(e, "leave")),
                                      !.els[e].leaveCb = c], e, show)
  BY <1>1 DEF Leave
<1>. HIDE DEF C
<1>3. C.els[e] \in Element /\ C.els \in Seq(Element) /\ C \in Stages
  BY <1>1, StageFields DEF StageInv
<1>4. P = IF C.els[e].delayLeave THEN L ELSE PerformLeave(L, e, show)
  <2>. DEFINE A == [C EXCEPT !.cbs = Append(@, NewCallback(e, "leave")), !.els[e].leaveCb = c]
  <2>1. [A EXCEPT !.els[e].delayLeave = FALSE] = L
    BY <1>1, <1>3 DEF LeaveCalled, Stages
  <2>2. ~C.els[e].delayLeave => A = L
    <3>1. ~C.els[e].delayLeave => [C.els[e] EXCEPT !.leaveCb = c]
                                    = [C.els[e] EXCEPT !.leaveCb = c, !.delayLeave = FALSE]
      BY <1>3 DEF Element
    <3>. QED
      BY <1>1, <1>3, <3>1 DEF LeaveCalled, Stages
  <2>. HIDE DEF A, L, P
  <2>. QED
    BY <1>2, <2>1, <2>2 DEF A
<1>5. /\ StageInv(L, c) /\ HasLeft(C, L, e) /\ L.els[e].leaveCb = c
      /\ \A i \in DOMAIN C.els : L.els[i].releases = C.els[i].releases
      /\ c # NoCallback /\ c \notin L.frames /\ c \notin L.ends /\ ~L.cbs[c].cancelled
  BY <1>1, LeaveCalledKeeps
<1>. HIDE DEF L, c, P
<1>6. HasLeft(D, L, e)
  BY <1>1, <1>5 DEF HasLeft, Reclassed
<1>7. D.els[e].releases # e
  BY StageFields DEF StageInv, ElementOk, ReleaseOk, NoElement
<1>8. \A y \in DOMAIN D.els : L.els[y].releases = e <=> D.els[y].releases = e
  <2>1. L.els[e].releases # e /\ e # NoElement
    BY <1>3, <1>6, LenProperties, <1>1 DEF HasLeft, NoElement
  <2>. QED
    BY <1>6, <1>7, <2>1 DEF HasLeft, Reclassed
<1>9. CASE C.els[e].delayLeave
  <2>1. \E y \in DOMAIN L.els : L.els[y].releases = e
    BY <1>1, <1>6, <1>8, <1>9 DEF HasLeft
  <2>2. StageInv(L, NoCallback)
    BY <1>1, <1>5, <1>6, <2>1, WaitingIsFine DEF HasLeft
  <2>. QED
    BY <1>4, <1>6, <1>9, <2>2 DEF P
<1>10. CASE ~C.els[e].delayLeave
  <2>1. \A y \in DOMAIN L.els : L.els[y].releases # e
    BY <1>1, <1>6, <1>8, <1>10 DEF HasLeft
  <2>2. StageInv(PerformLeave(L, e, show), NoCallback) /\ OnlyClasses(L, PerformLeave(L, e, show))
    BY <1>1, <1>5, <1>6, <2>1, LeaveBegins DEF HasLeft
  <2>. DEFINE Q == PerformLeave(L, e, show)
  <2>3. HasLeft(D, Q, e)
    <3>1. OnlyClasses(L, Q)
      BY <2>2
    <3>. HIDE DEF Q
    <3>. QED
      BY <1>6, <3>1 DEF HasLeft, OnlyClasses, Reclassed
  <2>. QED
    BY <1>4, <1>10, <2>2, <2>3 DEF P
<1>. QED
  BY <1>9, <1>10

\* leaving, dirty, display and the flags of the hooks do not matter to the callbacks.
LEMMA SettingsKeep ==
    ASSUME NEW D, NEW x, StageInv(D, x), NEW P \in Stages,
           P.cbs = D.cbs, P.frames = D.frames, P.ends = D.ends, P.pending = D.pending,
           DOMAIN P.els = DOMAIN D.els,
           \A i \in DOMAIN D.els :
              /\ P.els[i].inDom = D.els[i].inDom /\ P.els[i].classes = D.els[i].classes
              /\ P.els[i].enterCb = D.els[i].enterCb /\ P.els[i].leaveCb = D.els[i].leaveCb
              /\ P.els[i].releases = D.els[i].releases
    PROVE  StageInv(P, x)
<1>1. \A b \in DOMAIN D.cbs : CallbackOk(P, b, x)
  BY DEF StageInv, CallbackOk
<1>2. ASSUME NEW i \in DOMAIN D.els
      PROVE  ElementOk(P, i, x)
  <2>0. ElementOk(D, i, x)
    BY DEF StageInv
  <2>1. WaitsFor(P, i, P.els[i].enterCb, "enter") /\ WaitsFor(P, i, P.els[i].leaveCb, "leave")
    BY <2>0 DEF ElementOk, WaitsFor
  <2>2. UnderWay(P, i, x)
    BY <2>0 DEF ElementOk, UnderWay
  <2>3. ReleaseOk(P, i)
    BY <2>0 DEF ElementOk, ReleaseOk
  <2>4. ClassesOk(P, i)
    BY <2>0 DEF ElementOk, ClassesOk
  <2>. QED
    BY <2>1, <2>2, <2>3, <2>4 DEF ElementOk
<1>. QED
  BY <1>1, <1>2 DEF StageInv

LEMMA ExemptOne ==
    ASSUME NEW D, StageInv(D, NoCallback), NEW c
    PROVE  StageInv(D, c)
<1>1. \A b \in DOMAIN D.cbs : b # NoCallback
  BY StageFields DEF StageInv, NoCallback
<1>2. \A b \in DOMAIN D.cbs : CallbackOk(D, b, c)
  BY <1>1 DEF StageInv, CallbackOk
<1>3. \A i \in DOMAIN D.els : ElementOk(D, i, c)
  BY DEF StageInv, ElementOk, UnderWay
<1>. QED
  BY <1>2, <1>3 DEF StageInv

\* No element waits for a callback that was called.
LEMMA CalledIsFine ==
    ASSUME NEW D, NEW c \in DOMAIN D.cbs, StageInv(D, c), D.cbs[c].called
    PROVE  StageInv(D, NoCallback)
<1>1. \A b \in DOMAIN D.cbs : CallbackOk(D, b, NoCallback)
  BY DEF StageInv, CallbackOk
<1>2. ASSUME NEW i \in DOMAIN D.els
      PROVE  ElementOk(D, i, NoCallback)
  <2>1. ElementOk(D, i, c)
    BY DEF StageInv
  <2>2. c # NoCallback => D.els[i].enterCb # c /\ D.els[i].leaveCb # c
    BY <2>1 DEF ElementOk, WaitsFor
  <2>. QED
    BY <2>1, <2>2 DEF ElementOk, UnderWay
<1>. QED
  BY <1>1, <1>2 DEF StageInv

\* A new element knows of no callback and no element.
LEMMA AppearsKeeps ==
    ASSUME NEW D, StageInv(D, NoCallback), NEW kind \in Kinds,
           NEW e, e = Len(D.els) + 1, NEW P, P = Appears(D, kind)
    PROVE  /\ StageInv(P, NoCallback) /\ e \in Nat /\ e # NoElement /\ e \notin DOMAIN D.els
           /\ DOMAIN P.els = DOMAIN D.els \cup {e} /\ Len(P.els) = e
           /\ P.leaving = D.leaving /\ P.dirty = D.dirty
           /\ P.els[e] = FreshElement(kind) /\ \A i \in DOMAIN D.els : P.els[i] = D.els[i]
<1>. DEFINE E == Append(D.els, FreshElement(kind))
<1>1. /\ D \in Stages /\ D.frames \subseteq DOMAIN D.cbs /\ D.ends \subseteq DOMAIN D.cbs
      /\ D.frames \cap D.ends = {}
      /\ \A k \in Kinds : D.pending[k] # NoElement => D.pending[k] \in DOMAIN D.els
      /\ \A b \in DOMAIN D.cbs : CallbackOk(D, b, NoCallback)
      /\ \A i \in DOMAIN D.els : ElementOk(D, i, NoCallback)
  BY DEF StageInv
<1>2. D.els \in Seq(Element) /\ Len(D.els) \in Nat /\ DOMAIN D.els = 1..Len(D.els)
  BY <1>1, StageFields
<1>3. FreshElement(kind) \in Element
  BY DEF FreshElement, Element, NoCallback, NoElement
<1>4. /\ E \in Seq(Element) /\ Len(E) = e /\ E[e] = FreshElement(kind)
      /\ \A i \in 1..Len(D.els) : E[i] = D.els[i]
  BY <1>2, <1>3, AppendProperties
<1>5. /\ e \in Nat /\ e # NoElement /\ e \notin DOMAIN D.els
      /\ DOMAIN E = DOMAIN D.els \cup {e}
  BY <1>2, <1>4, LenProperties DEF NoElement
<1>6. P = [D EXCEPT !.els = E]
  BY DEF Appears
<1>. HIDE DEF E
<1>7. /\ P \in Stages /\ P.els = E /\ P.cbs = D.cbs /\ P.leaving = D.leaving /\ P.dirty = D.dirty
      /\ P.frames = D.frames /\ P.ends = D.ends /\ P.pending = D.pending
  BY <1>1, <1>4, <1>6 DEF Stages
<1>8. /\ P.els[e] = FreshElement(kind) /\ \A i \in DOMAIN D.els : P.els[i] = D.els[i]
      /\ DOMAIN P.els = DOMAIN D.els \cup {e}
  BY <1>2, <1>4, <1>5, <1>7
<1>9. /\ P.els[e].enterCb = NoCallback /\ P.els[e].leaveCb = NoCallback
      /\ P.els[e].releases = NoElement /\ P.els[e].classes = {}
  BY <1>8 DEF FreshElement
<1>10. ASSUME NEW b \in DOMAIN D.cbs
       PROVE  CallbackOk(P, b, NoCallback)
  BY <1>1, <1>7, <1>8 DEF CallbackOk
<1>11. ASSUME NEW i \in DOMAIN P.els
       PROVE  ElementOk(P, i, NoCallback)
  <2>1. CASE i = e
    BY <1>9, <2>1 DEF ElementOk, WaitsFor, UnderWay, ReleaseOk, ClassesOk, NoCallback, NoElement
  <2>2. CASE i # e
    <3>0. i \in DOMAIN D.els /\ P.els[i] = D.els[i] /\ ElementOk(D, i, NoCallback)
      BY <1>1, <1>8, <2>2
    <3>1. WaitsFor(P, i, P.els[i].enterCb, "enter") /\ WaitsFor(P, i, P.els[i].leaveCb, "leave")
      BY <1>7, <3>0 DEF ElementOk, WaitsFor
    <3>2. UnderWay(P, i, NoCallback)
      BY <1>7, <1>8, <3>0 DEF ElementOk, UnderWay
    <3>3. ReleaseOk(P, i)
      BY <1>7, <1>8, <1>9, <3>0 DEF ElementOk, ReleaseOk
    <3>4. ClassesOk(P, i)
      BY <1>7, <3>0 DEF ElementOk, ClassesOk
    <3>. QED
      BY <3>1, <3>2, <3>3, <3>4 DEF ElementOk
  <2>. QED
    BY <2>1, <2>2
<1>. QED
  BY <1>1, <1>4, <1>5, <1>7, <1>8, <1>10, <1>11 DEF StageInv

\* In in-out the new element e is to release the old one, cur.
Hooked(D, cur, e) == [D EXCEPT !.els[e].releases = cur, !.els[cur].delayLeave = TRUE]

LEMMA HookedKeeps ==
    ASSUME NEW D, StageInv(D, NoCallback), NEW e \in DOMAIN D.els, NEW cur \in DOMAIN D.els,
           e # cur, D.els[cur].leaveCb = NoCallback, D.els[e].releases = NoElement,
           \A y \in DOMAIN D.els : D.els[y].releases # cur,
           NEW P, P = Hooked(D, cur, e)
    PROVE  /\ StageInv(P, NoCallback) /\ DOMAIN P.els = DOMAIN D.els
           /\ P.leaving = D.leaving /\ P.dirty = D.dirty
           /\ \A i \in DOMAIN D.els : i \notin {e, cur} => P.els[i] = D.els[i]
           /\ P.els[e] = [D.els[e] EXCEPT !.releases = cur]
           /\ P.els[cur] = [D.els[cur] EXCEPT !.delayLeave = TRUE]
<1>. DEFINE u == [D.els[e] EXCEPT !.releases = cur]
            v == [D.els[cur] EXCEPT !.delayLeave = TRUE]
            F == [D.els EXCEPT ![e] = u]
            E == [F EXCEPT ![cur] = v]
<1>1. /\ D \in Stages /\ D.frames \subseteq DOMAIN D.cbs /\ D.ends \subseteq DOMAIN D.cbs
      /\ D.frames \cap D.ends = {}
      /\ \A k \in Kinds : D.pending[k] # NoElement => D.pending[k] \in DOMAIN D.els
      /\ \A b \in DOMAIN D.cbs : CallbackOk(D, b, NoCallback)
      /\ \A i \in DOMAIN D.els : ElementOk(D, i, NoCallback)
  BY DEF StageInv
<1>2. D.els \in Seq(Element) /\ D.els[e] \in Element /\ D.els[cur] \in Element /\ cur \in Nat
  BY <1>1, StageFields
<1>3. P = [D EXCEPT !.els = E]
  BY <1>1, <1>2 DEF Stages, Hooked
<1>4. /\ u \in Element /\ u.releases = cur /\ u.inDom = D.els[e].inDom
      /\ u.classes = D.els[e].classes /\ u.enterCb = D.els[e].enterCb
      /\ u.leaveCb = D.els[e].leaveCb
  BY <1>2 DEF Element
<1>5. /\ v \in Element /\ v.releases = D.els[cur].releases /\ v.inDom = D.els[cur].inDom
      /\ v.classes = D.els[cur].classes /\ v.enterCb = D.els[cur].enterCb
      /\ v.leaveCb = D.els[cur].leaveCb
  BY <1>2 DEF Element
<1>. HIDE DEF u, v
<1>6. /\ F \in Seq(Element) /\ DOMAIN F = DOMAIN D.els
      /\ \A i \in DOMAIN D.els : F[i] = IF i = e THEN u ELSE D.els[i]
  BY <1>2, <1>4, ElementSet
<1>. HIDE DEF F
<1>7. /\ E \in Seq(Element) /\ DOMAIN E = DOMAIN D.els
      /\ \A i \in DOMAIN D.els : E[i] = IF i = cur THEN v ELSE F[i]
  BY <1>5, <1>6, ElementSet
<1>. HIDE DEF E
<1>8. /\ P \in Stages /\ P.els = E /\ P.cbs = D.cbs /\ P.leaving = D.leaving /\ P.dirty = D.dirty
      /\ P.frames = D.frames /\ P.ends = D.ends /\ P.pending = D.pending
  BY <1>1, <1>3, <1>7 DEF Stages
<1>9. /\ \A i \in DOMAIN D.els : i \notin {e, cur} => P.els[i] = D.els[i]
      /\ P.els[e] = u /\ P.els[cur] = v
  BY <1>6, <1>7, <1>8
<1>10. \A i \in DOMAIN D.els :
          /\ P.els[i].inDom = D.els[i].inDom /\ P.els[i].classes = D.els[i].classes
          /\ P.els[i].enterCb = D.els[i].enterCb /\ P.els[i].leaveCb = D.els[i].leaveCb
          /\ P.els[i].releases = IF i = e THEN cur ELSE D.els[i].releases
  BY <1>4, <1>5, <1>9
<1>11. NoCallback \notin D.frames \cup D.ends
  BY <1>1, StageFields DEF NoCallback
<1>12. ASSUME NEW b \in DOMAIN D.cbs
       PROVE  CallbackOk(P, b, NoCallback)
  <2>1. CallbackOk(D, b, NoCallback)
    BY <1>1
  <2>2. \A i \in DOMAIN D.els : P.els[i].inDom = D.els[i].inDom
                              /\ P.els[i].enterCb = D.els[i].enterCb
                              /\ P.els[i].leaveCb = D.els[i].leaveCb
    BY <1>10
  <2>. QED
    BY <1>7, <1>8, <2>1, <2>2 DEF CallbackOk
<1>13. ASSUME NEW i \in DOMAIN D.els
       PROVE  ElementOk(P, i, NoCallback)
  <2>0. ElementOk(D, i, NoCallback) /\ i # NoElement
    BY <1>1, StageFields DEF NoElement
  <2>1. WaitsFor(P, i, P.els[i].enterCb, "enter") /\ WaitsFor(P, i, P.els[i].leaveCb, "leave")
    BY <1>8, <1>10, <2>0 DEF ElementOk, WaitsFor
  <2>5. \A y \in DOMAIN D.els : D.els[y].releases = i => P.els[y].releases = i
    <3>. SUFFICES ASSUME NEW y \in DOMAIN D.els, D.els[y].releases = i
                  PROVE  P.els[y].releases = i
      OBVIOUS
    <3>1. y # e
      BY <2>0
    <3>. QED
      BY <1>10, <3>1
  <2>2. UnderWay(P, i, NoCallback)
    <3>1. /\ DOMAIN P.els = DOMAIN D.els /\ P.frames = D.frames /\ P.ends = D.ends
          /\ P.els[i].enterCb = D.els[i].enterCb /\ P.els[i].leaveCb = D.els[i].leaveCb
          /\ UnderWay(D, i, NoCallback)
      BY <1>7, <1>8, <1>10, <2>0 DEF ElementOk
    <3>. QED
      BY <2>5, <3>1 DEF UnderWay
  <2>3. ReleaseOk(P, i)
    <3>0. /\ DOMAIN P.els = DOMAIN D.els /\ P.frames = D.frames /\ P.ends = D.ends
          /\ \A y \in DOMAIN D.els : P.els[y].leaveCb = D.els[y].leaveCb
          /\ \A y \in DOMAIN D.els : y # e => P.els[y].releases = D.els[y].releases
          /\ P.els[e].releases = cur
      BY <1>7, <1>8, <1>10
    <3>1. CASE i = e
      <4>1. P.els[i].releases = cur /\ P.els[cur].leaveCb = NoCallback
        BY <3>0, <3>1
      <4>2. \A y \in DOMAIN D.els : P.els[y].releases = cur => y = e
        BY <3>0
      <4>. QED
        BY <1>11, <3>0, <3>1, <4>1, <4>2 DEF ReleaseOk
    <3>2. CASE i # e
      <4>1. ReleaseOk(D, i) /\ P.els[i].releases = D.els[i].releases
        BY <2>0, <3>0, <3>2 DEF ElementOk
      <4>2. D.els[i].releases # cur
        OBVIOUS
      <4>. QED
        BY <3>0, <4>1, <4>2 DEF ReleaseOk
    <3>. QED
      BY <3>1, <3>2
  <2>4. ClassesOk(P, i)
    BY <1>8, <1>10, <2>0 DEF ElementOk, ClassesOk
  <2>. QED
    BY <2>1, <2>2, <2>3, <2>4 DEF ElementOk
<1>14. StageInv(P, NoCallback)
  BY <1>1, <1>7, <1>8, <1>12, <1>13 DEF StageInv
<1>. QED
  BY <1>7, <1>8, <1>9, <1>14 DEF u, v

\* The second frame of callback c.
FrameOf(D, c) ==
    LET e == D.cbs[c].el
        kind == D.cbs[c].kind
        N == D.cbs[c].cancelled
    IN [D EXCEPT !.els = [D.els EXCEPT ![e].classes =
                             (@ \ {kind}) \cup (IF N THEN {} ELSE {EndClass(kind)})],
                 !.ends = IF N THEN D.ends ELSE D.ends \cup {c},
                 !.frames = D.frames \ {c}]

LEMMA FrameKeeps ==
    ASSUME NEW D, StageInv(D, NoCallback), NEW c \in D.frames
    PROVE  StageInv(FrameOf(D, c), NoCallback) /\ OnlyClasses(D, FrameOf(D, c))
<1>. DEFINE e == D.cbs[c].el
            kind == D.cbs[c].kind
            N == D.cbs[c].cancelled
            S == (D.els[e].classes \ {kind}) \cup (IF N THEN {} ELSE {EndClass(kind)})
            v == [D.els[e] EXCEPT !.classes = S]
            E == [D.els EXCEPT ![e] = v]
            P == FrameOf(D, c)
<1>1. /\ D \in Stages /\ D.frames \subseteq DOMAIN D.cbs /\ D.ends \subseteq DOMAIN D.cbs
      /\ D.frames \cap D.ends = {}
      /\ \A k \in Kinds : D.pending[k] # NoElement => D.pending[k] \in DOMAIN D.els
      /\ \A b \in DOMAIN D.cbs : CallbackOk(D, b, NoCallback)
      /\ \A i \in DOMAIN D.els : ElementOk(D, i, NoCallback)
  BY DEF StageInv
<1>2. /\ c \in DOMAIN D.cbs /\ c \in Nat /\ c # NoCallback /\ CallbackOk(D, c, NoCallback)
      /\ D.frames \subseteq Nat /\ D.ends \subseteq Nat
  BY <1>1, StageFields DEF NoCallback
<1>3. /\ e \in DOMAIN D.els /\ D.els \in Seq(Element) /\ D.els[e] \in Element
      /\ D.cbs[c] \in Callback /\ kind \in {"enter", "leave"} /\ N \in BOOLEAN
  BY <1>1, <1>2, StageFields DEF CallbackOk, Callback
<1>4. S \in SUBSET (EnterClasses \cup LeaveClasses)
  BY <1>3 DEF Element, EndClass, EnterClasses, LeaveClasses
<1>5. v \in Element /\ v.classes = S /\ Reclassed(D.els[e], v)
  BY <1>3, <1>4, ClassesSet
<1>6. P = [D EXCEPT !.els = E, !.ends = IF N THEN D.ends ELSE D.ends \cup {c},
                    !.frames = D.frames \ {c}]
  BY DEF FrameOf
<1>. HIDE DEF v
<1>7. /\ E \in Seq(Element) /\ Len(E) = Len(D.els) /\ DOMAIN E = DOMAIN D.els
      /\ \A i \in DOMAIN D.els : E[i] = IF i = e THEN v ELSE D.els[i]
  BY <1>3, <1>5, ElementSet
<1>. HIDE DEF E, P
<1>8. /\ P \in Stages /\ P.els = E /\ P.cbs = D.cbs /\ P.pending = D.pending
      /\ P.leaving = D.leaving /\ P.dirty = D.dirty
      /\ P.frames = D.frames \ {c} /\ P.ends = IF N THEN D.ends ELSE D.ends \cup {c}
  BY <1>1, <1>2, <1>3, <1>6, <1>7 DEF Stages
<1>9. OnlyClasses(D, P)
  BY <1>5, <1>7, <1>8 DEF OnlyClasses, Reclassed
\* Nothing waits for a cancelled callback.
<1>10. ASSUME NEW i \in DOMAIN D.els
       PROVE  /\ D.els[i].enterCb = c => i = e /\ kind = "enter" /\ ~N
              /\ D.els[i].leaveCb = c => i = e /\ kind = "leave" /\ ~N
  BY <1>1, <1>2 DEF ElementOk, WaitsFor, CallbackOk
<1>11. \A b : b # c => (b \in P.frames <=> b \in D.frames) /\ (b \in P.ends <=> b \in D.ends)
  BY <1>8
<1>12. ~N => (c \in P.ends /\ P.frames \cup P.ends = D.frames \cup D.ends)
  BY <1>8
<1>13. P.frames \cup P.ends \subseteq D.frames \cup D.ends
  BY <1>8
<1>14. ASSUME NEW b \in DOMAIN D.cbs
       PROVE  CallbackOk(P, b, NoCallback)
  BY <1>1, <1>7, <1>8, <1>9 DEF CallbackOk, OnlyClasses, Reclassed
<1>15. ASSUME NEW i \in DOMAIN D.els
       PROVE  ElementOk(P, i, NoCallback)
  <2>0. ElementOk(D, i, NoCallback)
    BY <1>1
  <2>1. WaitsFor(P, i, P.els[i].enterCb, "enter") /\ WaitsFor(P, i, P.els[i].leaveCb, "leave")
    BY <1>8, <1>9, <2>0 DEF ElementOk, WaitsFor, OnlyClasses, Reclassed
  <2>2. UnderWay(P, i, NoCallback)
    <3>1. /\ P.els[i].enterCb = D.els[i].enterCb /\ P.els[i].leaveCb = D.els[i].leaveCb
          /\ DOMAIN P.els = DOMAIN D.els
          /\ \A y \in DOMAIN D.els : P.els[y].releases = D.els[y].releases
      BY <1>9 DEF OnlyClasses, Reclassed
    <3>2. /\ D.els[i].enterCb \in D.frames \cup D.ends => D.els[i].enterCb \in P.frames \cup P.ends
          /\ D.els[i].leaveCb \in D.frames \cup D.ends => D.els[i].leaveCb \in P.frames \cup P.ends
      BY <1>10, <1>11, <1>12
    <3>. QED
      BY <2>0, <3>1, <3>2 DEF ElementOk, UnderWay
  <2>3. ReleaseOk(P, i)
    BY <1>9, <1>13, <2>0 DEF ElementOk, ReleaseOk, OnlyClasses, Reclassed
  <2>4. ClassesOk(P, i)
    <3>1. CASE i # e
      <4>1. P.els[i] = D.els[i] /\ D.els[i].enterCb # c /\ D.els[i].leaveCb # c
        BY <1>7, <1>8, <1>10, <3>1
      <4>. QED
        BY <1>11, <2>0, <4>1 DEF ElementOk, ClassesOk
    <3>2. CASE i = e
      <4>. SUFFICES ASSUME D.els[e].inDom
                    PROVE  ClassesOk(P, e)
        BY <1>5, <1>7, <1>8, <3>2 DEF ClassesOk, Reclassed
      <4>1. /\ P.els[e].classes = S /\ P.els[e].enterCb = D.els[e].enterCb
            /\ P.els[e].leaveCb = D.els[e].leaveCb
        BY <1>5, <1>7, <1>8, <1>3 DEF Reclassed
      <4>2. ~N => c = IF kind = "enter" THEN D.els[e].enterCb ELSE D.els[e].leaveCb
        BY <1>2 DEF CallbackOk
      <4>3. /\ \A k \in D.els[e].classes : \/ k \in EnterClasses /\ D.els[e].enterCb # NoCallback
                                           \/ k \in LeaveClasses /\ D.els[e].leaveCb # NoCallback
            /\ "enter" \in D.els[e].classes => D.els[e].enterCb \in D.frames
            /\ "leave" \in D.els[e].classes => D.els[e].leaveCb \in D.frames
        BY <2>0, <3>2 DEF ElementOk, ClassesOk
      <4>4. "enter" \in S => D.els[e].enterCb \in P.frames
        BY <1>3, <1>10, <1>11, <4>3 DEF EndClass
      <4>5. "leave" \in S => D.els[e].leaveCb \in P.frames
        BY <1>3, <1>10, <1>11, <4>3 DEF EndClass
      <4>6. ASSUME NEW k \in S
            PROVE  \/ k \in EnterClasses /\ D.els[e].enterCb # NoCallback
                   \/ k \in LeaveClasses /\ D.els[e].leaveCb # NoCallback
        BY <1>2, <1>3, <4>2, <4>3 DEF EndClass, EnterClasses, LeaveClasses
      <4>. QED
        BY <4>1, <4>4, <4>5, <4>6 DEF ClassesOk
    <3>. QED
      BY <3>1, <3>2
  <2>. QED
    BY <2>1, <2>2, <2>3, <2>4 DEF ElementOk
<1>16. StageInv(P, NoCallback)
  <2>1. /\ P.frames \subseteq DOMAIN P.cbs /\ P.ends \subseteq DOMAIN P.cbs
        /\ P.frames \cap P.ends = {}
    BY <1>1, <1>2, <1>8
  <2>. QED
    BY <1>1, <1>7, <1>8, <1>14, <1>15, <2>1 DEF StageInv
<1>. QED
  BY <1>9, <1>16 DEF P

LEMMA InsertHookKeeps ==
    ASSUME NEW D, StageInv(D, NoCallback), NEW e \in DOMAIN D.els
    PROVE  /\ StageInv(InsertHook(D, e), NoCallback)
           /\ \/ InsertHook(D, e) = D
              \/ \E p \in DOMAIN D.els : /\ D.els[p].leaveCb # NoCallback
                                        /\ LeaveEnded(D, InsertHook(D, e), p, FALSE, FALSE)
<1>. DEFINE p == D.pending[D.els[e].kind]
            c == D.els[p].leaveCb
<1>1. CASE ~(p # NoElement /\ c # NoCallback)
  BY <1>1 DEF InsertHook
<1>2. CASE p # NoElement /\ c # NoCallback
  <2>1. D.els[e].kind \in Kinds
    BY StageFields DEF StageInv, Element
  <2>2. p \in DOMAIN D.els
    BY <1>2, <2>1 DEF StageInv
  <2>3. c \in DOMAIN D.cbs /\ D.cbs[c].el = p /\ D.cbs[c].kind = "leave" /\ ~D.cbs[c].called
    BY <1>2, <2>2 DEF StageInv, ElementOk, WaitsFor
  <2>4. ~D.cbs[c].cancelled
    BY <1>2, <2>3 DEF StageInv, CallbackOk
  <2>5. D.cbs[c].cancelled = FALSE
    BY <2>3, <2>4, StageFields DEF StageInv, Callback
  <2>6. InsertHook(D, e) = LeaveOver(D, c, FALSE)
    BY <1>2, <2>3 DEF InsertHook, Call
  <2>. HIDE DEF c, p
  <2>7. StageInv(D, c)
    BY ExemptOne
  <2>8. /\ StageInv(LeaveOver(D, c, FALSE), NoCallback)
        /\ LeaveEnded(D, LeaveOver(D, c, FALSE), D.cbs[c].el, FALSE, D.cbs[c].cancelled)
    BY <2>3, <2>7, LeaveOverKeeps
  <2>. QED
    BY <1>2, <2>2, <2>3, <2>5, <2>6, <2>8 DEF c, p
<1>. QED
  BY <1>1, <1>2

-----------------------------------------------------------------------------
\* What the ends of enters and leaves do to the screen.
LEMMA EnterEndedShows ==
    ASSUME NEW D, NEW P, NEW e \in DOMAIN D.els, NEW cur, NEW want, NEW m,
           EnterEnded(D, P, e), ScreenWishInv(D, cur, want, m)
    PROVE  ScreenWishInv(P, cur, want, m)
<1>1. /\ DOMAIN P.els = DOMAIN D.els /\ P.leaving = D.leaving /\ P.dirty = D.dirty
      /\ \A i \in DOMAIN D.els :
            /\ P.els[i].kind = D.els[i].kind /\ P.els[i].inDom = D.els[i].inDom
            /\ P.els[i].display = D.els[i].display /\ P.els[i].leaveCb = D.els[i].leaveCb
            /\ P.els[i].delayLeave = D.els[i].delayLeave
            /\ P.els[i].afterLeave = D.els[i].afterLeave
            /\ i # e => /\ P.els[i].enterCb = D.els[i].enterCb
                        /\ P.els[i].releases = D.els[i].releases
            /\ i = e => P.els[i].enterCb = NoCallback /\ P.els[i].releases = NoElement
  BY DEF EnterEnded, Reclassed
<1>2. ScreenInv(P, cur)
  <2>1. ASSUME NEW i \in DOMAIN D.els
        PROVE  ScreenOk(P, cur, i)
    BY <1>1 DEF ScreenWishInv, ScreenInv, ScreenOk
  <2>2. LeavingOk(P)
    BY <1>1 DEF ScreenWishInv, ScreenInv, LeavingOk
  <2>. QED
    BY <1>1, <2>1, <2>2 DEF ScreenWishInv, ScreenInv
<1>3. WishOk(P, cur, want, m)
  <2>1. cur # NoElement => cur \in DOMAIN D.els
    BY DEF ScreenWishInv, ScreenInv
  <2>2. m = "show" => P.els[1].releases = NoElement
    BY <1>1 DEF ScreenWishInv, WishOk
  <2>. QED
    BY <1>1, <2>1, <2>2 DEF ScreenWishInv, WishOk
<1>. QED
  BY <1>2, <1>3 DEF ScreenWishInv

LEMMA LeaveEndedShows ==
    ASSUME NEW D, NEW P, NEW e \in DOMAIN D.els, NEW cur, NEW want, NEW m,
           NEW show \in BOOLEAN, show <=> m = "show", D.els[e].leaveCb # NoCallback,
           D \in Stages, LeaveEnded(D, P, e, show, FALSE), ScreenWishInv(D, cur, want, m)
    PROVE  ScreenWishInv(P, cur, want, m)
<1>1. /\ DOMAIN P.els = DOMAIN D.els
      /\ P.els[e].kind = D.els[e].kind /\ P.els[e].enterCb = D.els[e].enterCb
      /\ P.els[e].delayLeave = D.els[e].delayLeave /\ P.els[e].leaveCb = NoCallback
      /\ P.els[e].releases = D.els[e].releases
      /\ P.els[e].inDom <=> D.els[e].inDom /\ show
      /\ P.els[e].display <=> D.els[e].display /\ ~show
      /\ P.leaving <=> D.leaving /\ ~D.els[e].afterLeave
      /\ P.dirty <=> D.dirty \/ D.els[e].afterLeave
      /\ \A i \in DOMAIN D.els : i # e => P.els[i] = D.els[i]
  BY DEF LeaveEnded
<1>2. e # cur
  BY DEF ScreenWishInv, ScreenInv, ScreenOk
<1>3. ScreenInv(P, cur)
  <2>1. ASSUME NEW i \in DOMAIN D.els
        PROVE  ScreenOk(P, cur, i)
    <3>1. CASE i = e
      BY <1>1, <1>2, <3>1 DEF ScreenWishInv, ScreenInv, ScreenOk
    <3>2. CASE i # e
      BY <1>1, <3>2 DEF ScreenWishInv, ScreenInv, ScreenOk
    <3>. QED
      BY <3>1, <3>2
  <2>2. LeavingOk(P)
    <3>. SUFFICES ASSUME P.leaving
                  PROVE  \E i \in DOMAIN P.els : P.els[i].afterLeave /\ P.els[i].leaveCb # NoCallback
      BY DEF LeavingOk
    <3>1. PICK i \in DOMAIN D.els : D.els[i].afterLeave /\ D.els[i].leaveCb # NoCallback
      BY <1>1 DEF ScreenWishInv, ScreenInv, LeavingOk
    <3>2. i # e
      BY <1>1, <3>1
    <3>. QED
      BY <1>1, <3>1, <3>2
  <2>. QED
    BY <1>1, <2>1, <2>2 DEF ScreenWishInv, ScreenInv
<1>4. WishOk(P, cur, want, m)
  <2>1. cur # NoElement => cur \in DOMAIN D.els /\ P.els[cur] = D.els[cur]
    BY <1>1, <1>2 DEF ScreenWishInv, ScreenInv
  <2>2. CASE m = "show"
    <3>1. e = 1
      BY <2>2 DEF ScreenWishInv, WishOk
    <3>. QED
      BY <1>1, <2>1, <2>2, <3>1 DEF ScreenWishInv, WishOk
  <2>3. CASE m # "show"
    BY <1>1, <2>1, <2>3 DEF ScreenWishInv, WishOk
  <2>. QED
    BY <2>2, <2>3
<1>. QED
  BY <1>3, <1>4 DEF ScreenWishInv

\* The current element may leave: it is not leaving, and only a hook may hold it.
LEMMA CurrentMayLeave ==
    ASSUME NEW D, NEW cur, StageInv(D, NoCallback), ScreenInv(D, cur), cur # NoElement
    PROVE  /\ cur \in DOMAIN D.els /\ D.els[cur].leaveCb = NoCallback
           /\ D.els[cur].enterCb = NoCallback => D.els[cur].releases = NoElement
           /\ ~D.els[cur].delayLeave /\ \A y \in DOMAIN D.els : D.els[y].releases # cur
<1>1. cur \in DOMAIN D.els /\ ScreenOk(D, cur, cur) /\ ReleaseOk(D, cur)
  BY DEF ScreenInv, StageInv, ElementOk
<1>2. ASSUME NEW y \in DOMAIN D.els, D.els[y].releases = cur
      PROVE  FALSE
  <2>1. y = cur
    BY <1>2 DEF ScreenInv, ScreenOk
  <2>. QED
    BY <1>1, <1>2, <2>1 DEF ReleaseOk
<1>. QED
  BY <1>1, <1>2 DEF ScreenOk

\* Element old has left and new is the current one.
LEMMA LeftShows ==
    ASSUME NEW D, NEW P, NEW old \in DOMAIN D.els, NEW new, new # old, HasLeft(D, P, old),
           new # NoElement => new \in DOMAIN D.els,
           \A i \in DOMAIN D.els : i # old => ScreenOk(D, new, i),
           D.leaving => \E i \in DOMAIN D.els : /\ D.els[i].afterLeave
                                                /\ D.els[i].leaveCb # NoCallback \/ i = old
    PROVE  ScreenInv(P, new)
<1>1. /\ DOMAIN P.els = DOMAIN D.els /\ P.leaving = D.leaving
      /\ \A i \in DOMAIN D.els : i # old => Reclassed(D.els[i], P.els[i])
      /\ P.els[old].leaveCb # NoCallback /\ ~P.els[old].delayLeave
      /\ P.els[old].afterLeave = D.els[old].afterLeave
      /\ P.els[old].enterCb = NoCallback /\ P.els[old].releases = NoElement
  BY DEF HasLeft
<1>2. ASSUME NEW i \in DOMAIN D.els
      PROVE  ScreenOk(P, new, i)
  <2>1. CASE i = old
    BY <1>1, <2>1 DEF ScreenOk
  <2>2. CASE i # old
    <3>1. Reclassed(D.els[i], P.els[i]) /\ ScreenOk(D, new, i)
      BY <1>1, <2>2
    <3>. QED
      BY <3>1 DEF ScreenOk, Reclassed
  <2>. QED
    BY <2>1, <2>2
<1>3. LeavingOk(P)
  <2>. SUFFICES ASSUME P.leaving
                PROVE  \E i \in DOMAIN P.els : P.els[i].afterLeave /\ P.els[i].leaveCb # NoCallback
    BY DEF LeavingOk
  <2>1. PICK i \in DOMAIN D.els : D.els[i].afterLeave /\ (D.els[i].leaveCb # NoCallback \/ i = old)
    BY <1>1
  <2>2. P.els[i].afterLeave /\ P.els[i].leaveCb # NoCallback
    BY <1>1, <2>1 DEF Reclassed
  <2>. QED
    BY <1>1, <2>2
<1>. QED
  BY <1>1, <1>2, <1>3 DEF ScreenInv

-----------------------------------------------------------------------------
\* The flush takes the render out of the queue.
Flushed(D) == [D EXCEPT !.dirty = FALSE]

LEMMA FlushedKeeps ==
    ASSUME NEW D, StageInv(D, NoCallback), NEW cur, ScreenInv(D, cur)
    PROVE  /\ Flushed(D).els = D.els /\ Flushed(D).leaving = D.leaving /\ ~Flushed(D).dirty
           /\ StageInv(Flushed(D), NoCallback) /\ ScreenInv(Flushed(D), cur)
<1>1. D \in Stages
  BY DEF StageInv
<1>2. /\ Flushed(D) \in Stages /\ Flushed(D).els = D.els /\ Flushed(D).cbs = D.cbs
      /\ Flushed(D).frames = D.frames /\ Flushed(D).ends = D.ends
      /\ Flushed(D).pending = D.pending /\ Flushed(D).leaving = D.leaving
      /\ Flushed(D).dirty = FALSE
  BY <1>1 DEF Flushed, Stages
<1>. DEFINE Q == Flushed(D)
<1>. HIDE DEF Q
<1>3. StageInv(Q, NoCallback)
  BY <1>2, SettingsKeep DEF Q
<1>4. ScreenInv(Q, cur)
  BY <1>2 DEF Q, ScreenInv, ScreenOk, LeavingOk
<1>. QED
  BY <1>2, <1>3, <1>4 DEF Q

\* v-show: the element enters or leaves.
LEMMA ShowKeeps ==
    ASSUME NEW D, StageInv(D, NoCallback), ScreenInv(D, NoElement),
           DOMAIN D.els = {1}, D.els[1].kind = ShowKind, D.els[1].inDom,
           D.els[1].releases = NoElement, ~D.leaving
    PROVE  /\ StageInv(Enter(D, 1, TRUE), NoCallback)
           /\ ScreenWishInv(Enter(D, 1, TRUE), 1, ShowKind, "show")
<1>1. 1 \in DOMAIN D.els /\ ScreenOk(D, NoElement, 1)
  BY DEF ScreenInv
<1>. DEFINE P == Enter(D, 1, TRUE)
<1>2. StageInv(P, NoCallback) /\ Entered(D, P, 1)
  <2>1. D.els[1].enterCb = NoCallback
    BY <1>1 DEF ScreenOk, NoElement
  <2>. QED
    BY <1>1, <2>1, EnterKeeps
<1>. HIDE DEF P
<1>3. /\ DOMAIN P.els = {1} /\ ~P.leaving /\ P.els[1].kind = ShowKind
      /\ P.els[1].inDom /\ P.els[1].display /\ P.els[1].leaveCb = NoCallback
      /\ ~P.els[1].delayLeave /\ P.els[1].enterCb # NoCallback /\ P.els[1].releases = NoElement
  BY <1>1, <1>2 DEF Entered, ScreenOk
<1>4. ScreenInv(P, 1)
  BY <1>3 DEF ScreenInv, ScreenOk, LeavingOk
<1>5. WishOk(P, 1, ShowKind, "show")
  BY <1>3 DEF WishOk, NoElement
<1>. QED
  BY <1>2, <1>4, <1>5 DEF ScreenWishInv, P

LEMMA HideKeeps ==
    ASSUME NEW D, StageInv(D, NoCallback), ScreenInv(D, 1),
           DOMAIN D.els = {1}, D.els[1].kind = ShowKind, D.els[1].inDom,
           D.els[1].releases = NoElement, ~D.leaving
    PROVE  /\ StageInv(Leave(D, 1, TRUE), NoCallback)
           /\ ScreenWishInv(Leave(D, 1, TRUE), NoElement, Nobody, "show")
<1>. DEFINE P == Leave(D, 1, TRUE)
<1>0. 1 # NoElement
  BY DEF NoElement
<1>1. /\ 1 \in DOMAIN D.els /\ D.els[1].leaveCb = NoCallback /\ ~D.els[1].delayLeave
      /\ D.els[1].enterCb = NoCallback => D.els[1].releases = NoElement
      /\ \A y \in DOMAIN D.els : D.els[y].releases # 1
  BY <1>0, CurrentMayLeave
<1>2. D.els[1].delayLeave <=> \E y \in DOMAIN D.els : D.els[y].releases = 1
  BY <1>1
<1>3. StageInv(P, NoCallback) /\ HasLeft(D, P, 1)
  BY <1>1, <1>2, LeaveKeeps
<1>. HIDE DEF P
<1>4. ScreenInv(P, NoElement)
  BY <1>0, <1>1, <1>3, LeftShows
<1>5. WishOk(P, NoElement, Nobody, "show")
  BY <1>3 DEF HasLeft, WishOk
<1>. QED
  BY <1>3, <1>4, <1>5 DEF ScreenWishInv, P

\* The current element leaves and nothing is rendered for it, or a placeholder is.
LEMMA LastLeaves ==
    ASSUME NEW D, StageInv(D, NoCallback), NEW cur, NEW want, NEW m, m # "show",
           cur # NoElement, ScreenInv(D, cur), want = Nobody \/ D.leaving
    PROVE  /\ StageInv(Leave(D, cur, FALSE), NoCallback)
           /\ ScreenWishInv(Leave(D, cur, FALSE), NoElement, want, m)
<1>. DEFINE P == Leave(D, cur, FALSE)
<1>1. /\ cur \in DOMAIN D.els /\ D.els[cur].leaveCb = NoCallback /\ ~D.els[cur].delayLeave
      /\ D.els[cur].enterCb = NoCallback => D.els[cur].releases = NoElement
      /\ \A y \in DOMAIN D.els : D.els[y].releases # cur
  BY CurrentMayLeave
<1>2. D.els[cur].delayLeave <=> \E y \in DOMAIN D.els : D.els[y].releases = cur
  BY <1>1
<1>3. StageInv(P, NoCallback) /\ HasLeft(D, P, cur)
  BY <1>1, <1>2, LeaveKeeps
<1>. HIDE DEF P
<1>4. ScreenInv(P, NoElement)
  <2>1. \A i \in DOMAIN D.els : i # cur => ScreenOk(D, NoElement, i)
    <3>. SUFFICES ASSUME NEW i \in DOMAIN D.els, i # cur
                  PROVE  ScreenOk(D, NoElement, i)
      OBVIOUS
    <3>1. ScreenOk(D, cur, i) /\ i # NoElement
      BY StageFields DEF ScreenInv, StageInv, NoElement
    <3>. QED
      BY <3>1 DEF ScreenOk
  <2>2. D.leaving => \E i \in DOMAIN D.els : D.els[i].afterLeave /\ D.els[i].leaveCb # NoCallback
    BY DEF ScreenInv, LeavingOk
  <2>. QED
    BY <1>1, <1>3, <2>1, <2>2, LeftShows
<1>5. WishOk(P, NoElement, want, m)
  BY <1>3 DEF HasLeft, WishOk
<1>. QED
  BY <1>3, <1>4, <1>5 DEF ScreenWishInv, P

\* out-in: the placeholder waits for the current element to leave.
Placeheld(D, cur) == [D EXCEPT !.leaving = TRUE, !.els[cur].afterLeave = TRUE]

LEMMA PlaceholderKeeps ==
    ASSUME NEW D, StageInv(D, NoCallback), NEW cur, NEW want, NEW m, m # "show",
           cur # NoElement, ScreenInv(D, cur)
    PROVE  /\ StageInv(Leave(Placeheld(D, cur), cur, FALSE), NoCallback)
           /\ ScreenWishInv(Leave(Placeheld(D, cur), cur, FALSE), NoElement, want, m)
<1>. DEFINE v == [D.els[cur] EXCEPT !.afterLeave = TRUE]
            Q == Placeheld(D, cur)
            P == Leave(Q, cur, FALSE)
<1>1. /\ cur \in DOMAIN D.els /\ D.els[cur].leaveCb = NoCallback /\ ~D.els[cur].delayLeave
      /\ D.els[cur].enterCb = NoCallback => D.els[cur].releases = NoElement
      /\ \A y \in DOMAIN D.els : D.els[y].releases # cur
  BY CurrentMayLeave
<1>2. D \in Stages /\ D.els \in Seq(Element) /\ D.els[cur] \in Element
  BY <1>1, StageFields DEF StageInv
<1>3. /\ v \in Element /\ v.afterLeave /\ v.kind = D.els[cur].kind /\ v.inDom = D.els[cur].inDom
      /\ v.display = D.els[cur].display /\ v.classes = D.els[cur].classes
      /\ v.enterCb = D.els[cur].enterCb /\ v.leaveCb = D.els[cur].leaveCb
      /\ v.delayLeave = D.els[cur].delayLeave /\ v.releases = D.els[cur].releases
  BY <1>2 DEF Element
<1>. DEFINE E == [D.els EXCEPT ![cur] = v]
<1>4. Q = [D EXCEPT !.leaving = TRUE, !.els = E]
  BY DEF Placeheld
<1>. HIDE DEF v
<1>5. /\ E \in Seq(Element) /\ DOMAIN E = DOMAIN D.els
      /\ \A i \in DOMAIN D.els : E[i] = IF i = cur THEN v ELSE D.els[i]
  BY <1>1, <1>2, <1>3, ElementSet
<1>. HIDE DEF E
<1>6. /\ Q \in Stages /\ Q.cbs = D.cbs /\ Q.frames = D.frames /\ Q.ends = D.ends
      /\ Q.pending = D.pending /\ Q.els = E /\ Q.leaving
  BY <1>2, <1>4, <1>5 DEF Stages
<1>7. /\ DOMAIN Q.els = DOMAIN D.els /\ Q.els[cur] = v
      /\ \A i \in DOMAIN D.els : i # cur => Q.els[i] = D.els[i]
      /\ \A i \in DOMAIN D.els :
            /\ Q.els[i].inDom = D.els[i].inDom /\ Q.els[i].classes = D.els[i].classes
            /\ Q.els[i].enterCb = D.els[i].enterCb /\ Q.els[i].leaveCb = D.els[i].leaveCb
            /\ Q.els[i].releases = D.els[i].releases
  BY <1>1, <1>3, <1>5, <1>6
<1>. HIDE DEF Q
<1>8. StageInv(Q, NoCallback)
  BY <1>6, <1>7, SettingsKeep
<1>9. /\ cur \in DOMAIN Q.els /\ Q.els[cur].leaveCb = NoCallback
      /\ Q.els[cur].enterCb = NoCallback => Q.els[cur].releases = NoElement
      /\ Q.els[cur].delayLeave <=> \E y \in DOMAIN Q.els : Q.els[y].releases = cur
  BY <1>1, <1>3, <1>7
<1>10. StageInv(P, NoCallback) /\ HasLeft(Q, P, cur)
  BY <1>8, <1>9, LeaveKeeps
<1>. HIDE DEF P
<1>11. ScreenInv(P, NoElement)
  <2>1. \A i \in DOMAIN Q.els : i # cur => ScreenOk(Q, NoElement, i)
    <3>. SUFFICES ASSUME NEW i \in DOMAIN Q.els, i # cur
                  PROVE  ScreenOk(Q, NoElement, i)
      OBVIOUS
    <3>1. ScreenOk(D, cur, i) /\ i # NoElement /\ Q.els[i] = D.els[i]
      BY <1>2, <1>7, StageFields DEF ScreenInv, NoElement
    <3>. QED
      BY <3>1 DEF ScreenOk
  <2>2. Q.els[cur].afterLeave
    BY <1>3, <1>7
  <2>. QED
    BY <1>9, <1>10, <2>1, <2>2, LeftShows
<1>12. WishOk(P, NoElement, want, m)
  BY <1>6, <1>10 DEF HasLeft, WishOk
<1>. QED
  BY <1>10, <1>11, <1>12 DEF ScreenWishInv, P, Q

\* The new element enters, the old one leaves or waits for it, and the insert hooks run.
NextMade(D, cur, kind, inOut) ==
    IF inOut THEN Hooked(Appears(D, kind), cur, Len(D.els) + 1) ELSE Appears(D, kind)
NextEntered(D, cur, kind, inOut) == Enter(NextMade(D, cur, kind, inOut), Len(D.els) + 1, FALSE)
NextLeft(D, cur, kind, inOut) ==
    IF cur = NoElement THEN NextEntered(D, cur, kind, inOut)
    ELSE Leave(NextEntered(D, cur, kind, inOut), cur, FALSE)

\* e is a new element, as it was made or with the element it is to release.
IsNew(D, P, cur, e, kind, inOut) ==
    /\ DOMAIN P.els = DOMAIN D.els \cup {e} /\ P.leaving = D.leaving /\ P.dirty = D.dirty
    /\ \A i \in DOMAIN D.els : i # cur => P.els[i] = D.els[i]
    /\ P.els[e].kind = kind /\ P.els[e].inDom /\ ~P.els[e].delayLeave
    /\ P.els[e].enterCb = NoCallback /\ P.els[e].leaveCb = NoCallback
    /\ P.els[e].releases = IF inOut THEN cur ELSE NoElement
    /\ cur # NoElement => /\ P.els[cur].leaveCb = NoCallback
                          /\ P.els[cur].enterCb = D.els[cur].enterCb
                          /\ P.els[cur].releases = D.els[cur].releases
                          /\ P.els[cur].delayLeave <=> inOut

LEMMA NextMadeKeeps ==
    ASSUME NEW D, StageInv(D, NoCallback), NEW cur, ScreenInv(D, cur),
           NEW kind \in Kinds, NEW inOut \in BOOLEAN, inOut => cur # NoElement
    PROVE  LET e == Len(D.els) + 1 IN
           /\ StageInv(NextMade(D, cur, kind, inOut), NoCallback)
           /\ IsNew(D, NextMade(D, cur, kind, inOut), cur, e, kind, inOut)
           /\ e \in Nat /\ e # NoElement /\ e \notin DOMAIN D.els
<1>. DEFINE e == Len(D.els) + 1
            A == Appears(D, kind)
            P == Hooked(A, cur, e)
<1>1. /\ StageInv(A, NoCallback) /\ e \in Nat /\ e # NoElement /\ e \notin DOMAIN D.els
      /\ DOMAIN A.els = DOMAIN D.els \cup {e}
      /\ A.leaving = D.leaving /\ A.dirty = D.dirty
      /\ A.els[e] = FreshElement(kind) /\ \A i \in DOMAIN D.els : A.els[i] = D.els[i]
  BY AppearsKeeps
<1>2. cur # NoElement =>
         /\ cur \in DOMAIN D.els /\ D.els[cur].leaveCb = NoCallback /\ ~D.els[cur].delayLeave
         /\ \A y \in DOMAIN D.els : D.els[y].releases # cur
  BY CurrentMayLeave
<1>3. /\ A.els[e].kind = kind /\ A.els[e].inDom /\ ~A.els[e].delayLeave
      /\ A.els[e].enterCb = NoCallback /\ A.els[e].leaveCb = NoCallback
      /\ A.els[e].releases = NoElement
  BY <1>1 DEF FreshElement
<1>. HIDE DEF A, e
<1>4. CASE ~inOut
  BY <1>1, <1>2, <1>3, <1>4 DEF IsNew, NextMade, A, e
<1>5. CASE inOut
  <2>1. /\ cur \in DOMAIN A.els /\ e \in DOMAIN A.els /\ e # cur
        /\ A.els[cur] = D.els[cur] /\ A.els[cur].leaveCb = NoCallback
        /\ \A y \in DOMAIN A.els : A.els[y].releases # cur
    BY <1>1, <1>2, <1>3, <1>5
  <2>2. /\ StageInv(P, NoCallback) /\ DOMAIN P.els = DOMAIN A.els
        /\ P.leaving = A.leaving /\ P.dirty = A.dirty
        /\ \A i \in DOMAIN A.els : i \notin {e, cur} => P.els[i] = A.els[i]
        /\ P.els[e] = [A.els[e] EXCEPT !.releases = cur]
        /\ P.els[cur] = [A.els[cur] EXCEPT !.delayLeave = TRUE]
    BY <1>1, <1>3, <2>1, HookedKeeps
  <2>. HIDE DEF P
  <2>3. A.els[e] \in Element /\ A.els[cur] \in Element
    BY <1>1, <2>1, StageFields DEF StageInv
  <2>4. /\ P.els[e].kind = kind /\ P.els[e].inDom /\ ~P.els[e].delayLeave
        /\ P.els[e].enterCb = NoCallback /\ P.els[e].leaveCb = NoCallback
        /\ P.els[e].releases = cur
        /\ P.els[cur].leaveCb = NoCallback
        /\ P.els[cur].enterCb = D.els[cur].enterCb
        /\ P.els[cur].releases = D.els[cur].releases
        /\ P.els[cur].delayLeave
    BY <1>3, <2>1, <2>2, <2>3 DEF Element
  <2>5. \A i \in DOMAIN D.els : i # cur => P.els[i] = D.els[i]
    BY <1>1, <2>2
  <2>6. IsNew(D, P, cur, e, kind, inOut)
    BY <1>1, <1>5, <2>2, <2>4, <2>5 DEF IsNew
  <2>. QED
    BY <1>1, <1>5, <2>2, <2>6 DEF NextMade, P, A, e
<1>. QED
  BY <1>4, <1>5

LEMMA NextLeftKeeps ==
    ASSUME NEW D, StageInv(D, NoCallback), NEW cur, ScreenInv(D, cur), ~D.leaving,
           NEW kind \in Kinds, NEW inOut \in BOOLEAN, inOut => cur # NoElement
    PROVE  LET e == Len(D.els) + 1
               P == NextLeft(D, cur, kind, inOut)
           IN /\ StageInv(P, NoCallback) /\ ScreenInv(P, e)
              /\ e \in DOMAIN P.els /\ P.els[e].kind = kind /\ ~P.leaving /\ e # NoElement
<1>. DEFINE e == Len(D.els) + 1
            M == NextMade(D, cur, kind, inOut)
            N == NextEntered(D, cur, kind, inOut)
            P == Leave(N, cur, FALSE)
<1>1. /\ StageInv(M, NoCallback) /\ IsNew(D, M, cur, e, kind, inOut)
      /\ e \in Nat /\ e # NoElement /\ e \notin DOMAIN D.els
  BY NextMadeKeeps
<1>2. e \in DOMAIN M.els /\ M.els[e].enterCb = NoCallback
  BY <1>1 DEF IsNew
<1>3. StageInv(N, NoCallback) /\ Entered(M, N, e)
  <2>1. N = Enter(M, e, FALSE)
    BY DEF NextEntered
  <2>. HIDE DEF N, M, e
  <2>. QED
    BY <1>1, <1>2, <2>1, EnterKeeps
<1>. HIDE DEF N, M, e
<1>4. /\ DOMAIN N.els = DOMAIN D.els \cup {e} /\ N.leaving = D.leaving
      /\ \A i \in DOMAIN D.els : i # cur => Reclassed(D.els[i], N.els[i])
      /\ N.els[e].kind = kind /\ N.els[e].inDom /\ N.els[e].display /\ ~N.els[e].delayLeave
      /\ N.els[e].enterCb # NoCallback /\ N.els[e].leaveCb = NoCallback
      /\ N.els[e].releases = IF inOut THEN cur ELSE NoElement
  BY <1>1, <1>3 DEF Entered, IsNew, Reclassed
<1>5. ASSUME NEW i \in DOMAIN N.els, i # cur
      PROVE  ScreenOk(N, e, i)
  <2>1. CASE i = e
    BY <1>4, <2>1 DEF ScreenOk
  <2>2. CASE i # e
    <3>1. i \in DOMAIN D.els /\ Reclassed(D.els[i], N.els[i]) /\ ScreenOk(D, cur, i)
      BY <1>4, <1>5, <2>2 DEF ScreenInv
    <3>. QED
      BY <1>5, <2>2, <3>1 DEF ScreenOk, Reclassed
  <2>. QED
    BY <2>1, <2>2
<1>6. CASE cur = NoElement
  <2>1. \A i \in DOMAIN N.els : i # cur
    BY <1>1, <1>4, <1>6, StageFields DEF StageInv, NoElement
  <2>2. ScreenInv(N, e)
    BY <1>4, <1>5, <2>1 DEF ScreenInv, LeavingOk
  <2>. QED
    BY <1>1, <1>3, <1>4, <1>6, <2>2 DEF NextLeft, N, e
<1>7. CASE cur # NoElement
  <2>1. /\ cur \in DOMAIN D.els /\ \A y \in DOMAIN D.els : D.els[y].releases # cur
        /\ D.els[cur].enterCb = NoCallback => D.els[cur].releases = NoElement
    BY <1>7, CurrentMayLeave
  <2>2. cur \in DOMAIN N.els /\ cur # e /\ e # cur /\ Reclassed(M.els[cur], N.els[cur])
    BY <1>1, <1>3, <1>4, <2>1 DEF Entered, IsNew
  <2>3. /\ N.els[cur].leaveCb = NoCallback /\ N.els[cur].enterCb = D.els[cur].enterCb
        /\ N.els[cur].releases = D.els[cur].releases
        /\ N.els[cur].delayLeave <=> inOut
    BY <1>1, <1>7, <2>2 DEF IsNew, Reclassed
  <2>4. \A y \in DOMAIN D.els : N.els[y].releases # cur
    BY <1>4, <2>1, <2>3 DEF Reclassed
  <2>5. N.els[cur].delayLeave <=> \E y \in DOMAIN N.els : N.els[y].releases = cur
    BY <1>4, <1>7, <2>3, <2>4
  <2>6. StageInv(P, NoCallback) /\ HasLeft(N, P, cur)
    BY <1>3, <2>1, <2>2, <2>3, <2>5, LeaveKeeps
  <2>. HIDE DEF P
  <2>7. ScreenInv(P, e)
    BY <1>4, <1>5, <2>2, <2>6, LeftShows
  <2>8. e \in DOMAIN P.els /\ P.els[e].kind = kind /\ ~P.leaving
    BY <1>4, <2>2, <2>6 DEF HasLeft, Reclassed
  <2>. QED
    BY <1>1, <1>7, <2>6, <2>7, <2>8 DEF NextLeft, P, N, e
<1>. QED
  BY <1>6, <1>7

NextDone(D, cur, kind, inOut) ==
    InsertHook(NextLeft(D, cur, kind, inOut), Len(D.els) + 1)

LEMMA NextKeeps ==
    ASSUME NEW D, StageInv(D, NoCallback), NEW cur, ScreenInv(D, cur), ~D.leaving,
           NEW kind \in Kinds, NEW inOut \in BOOLEAN, inOut => cur # NoElement,
           NEW m, m # "show"
    PROVE  /\ StageInv(NextDone(D, cur, kind, inOut), NoCallback)
           /\ ScreenWishInv(NextDone(D, cur, kind, inOut), Len(D.els) + 1, kind, m)
<1>. DEFINE e == Len(D.els) + 1
            L == NextLeft(D, cur, kind, inOut)
            P == InsertHook(L, e)
<1>1. /\ StageInv(L, NoCallback) /\ ScreenInv(L, e)
      /\ e \in DOMAIN L.els /\ L.els[e].kind = kind /\ ~L.leaving /\ e # NoElement
  BY NextLeftKeeps
<1>. HIDE DEF e, L
<1>2. ScreenWishInv(L, e, kind, m)
  BY <1>1 DEF ScreenWishInv, WishOk
<1>3. /\ StageInv(P, NoCallback)
      /\ \/ P = L
         \/ \E p \in DOMAIN L.els : /\ L.els[p].leaveCb # NoCallback
                                    /\ LeaveEnded(L, P, p, FALSE, FALSE)
  BY <1>1, InsertHookKeeps
<1>. HIDE DEF P
<1>4. ScreenWishInv(P, e, kind, m)
  <2>1. CASE P = L
    BY <1>2, <2>1
  <2>2. ASSUME NEW p \in DOMAIN L.els, L.els[p].leaveCb # NoCallback,
               LeaveEnded(L, P, p, FALSE, FALSE)
        PROVE  ScreenWishInv(P, e, kind, m)
    BY <1>1, <1>2, <2>2, LeaveEndedShows DEF StageInv
  <2>. QED
    BY <1>3, <2>1, <2>2
<1>. QED
  BY <1>3, <1>4 DEF P, L, e, NextDone

\* The end of a transition, or a late end of one that was cancelled.
LEMMA EndKeeps ==
    ASSUME NEW D, StageInv(D, NoCallback), NEW cur, NEW want, NEW m,
           ScreenWishInv(D, cur, want, m), NEW c \in D.ends
    PROVE  /\ StageInv(Call(Unqueued(D, c), c, m = "show"), NoCallback)
           /\ ScreenWishInv(Call(Unqueued(D, c), c, m = "show"), cur, want, m)
<1>. DEFINE Q == Unqueued(D, c)
            show == m = "show"
            e == Q.cbs[c].el
            P == Call(Q, c, show)
<1>1. /\ StageInv(Q, c) /\ Q.els = D.els /\ Q.cbs = D.cbs /\ Q.leaving = D.leaving
      /\ Q.dirty = D.dirty /\ c \in DOMAIN D.cbs /\ c \notin Q.frames
  BY UnqueuedKeeps
<1>. HIDE DEF Q
<1>2. ScreenWishInv(Q, cur, want, m)
  BY <1>1 DEF ScreenWishInv, ScreenInv, ScreenOk, LeavingOk, WishOk
<1>3. /\ c \in DOMAIN Q.cbs /\ e \in DOMAIN Q.els /\ Q.cbs[c].kind \in {"enter", "leave"}
      /\ c # NoCallback /\ Q \in Stages
  BY <1>1, StageFields DEF StageInv, CallbackOk, Callback, NoCallback
<1>4. ~Q.cbs[c].called => Q.cbs[c].cancelled = FALSE
  <2>1. CallbackOk(D, c, NoCallback) /\ Q.cbs[c].cancelled \in BOOLEAN
    BY <1>1, <1>3, StageFields DEF StageInv, Callback
  <2>. QED
    BY <1>1, <1>3, <2>1 DEF CallbackOk
<1>5. show \in BOOLEAN /\ (show <=> m = "show")
  OBVIOUS
<1>. HIDE DEF show
<1>6. CASE Q.cbs[c].called
  <2>1. P = Q
    BY <1>6 DEF Call
  <2>. QED
    BY <1>2, <1>3, <1>1, <1>6, <2>1, CalledIsFine DEF Q, show
<1>7. CASE ~Q.cbs[c].called /\ Q.cbs[c].kind = "enter"
  <2>1. P = EnterOver(Q, c, show)
    BY <1>7 DEF Call
  <2>2. StageInv(P, NoCallback) /\ EnterEnded(Q, P, e)
    BY <1>1, <1>3, <1>5, <1>7, <2>1, EnterOverKeeps
  <2>. HIDE DEF P, e
  <2>3. ScreenWishInv(P, cur, want, m)
    BY <1>2, <1>3, <2>2, EnterEndedShows
  <2>. QED
    BY <2>2, <2>3 DEF P, Q, show
<1>8. CASE ~Q.cbs[c].called /\ Q.cbs[c].kind = "leave"
  <2>1. P = LeaveOver(Q, c, show)
    BY <1>8 DEF Call
  <2>2. StageInv(P, NoCallback) /\ LeaveEnded(Q, P, e, show, FALSE)
    <3>1. StageInv(P, NoCallback) /\ LeaveEnded(Q, P, e, show, Q.cbs[c].cancelled)
      BY <1>1, <1>3, <1>5, <1>8, <2>1, LeaveOverKeeps
    <3>. QED
      BY <1>4, <1>8, <3>1
  <2>3. Q.els[e].leaveCb # NoCallback
    BY <1>1, <1>3, <1>8 DEF StageInv, CallbackOk
  <2>. HIDE DEF P, e
  <2>4. ScreenWishInv(P, cur, want, m)
    BY <1>2, <1>3, <1>5, <2>2, <2>3, LeaveEndedShows
  <2>. QED
    BY <2>2, <2>4 DEF P, Q, show
<1>. QED
  BY <1>3, <1>6, <1>7, <1>8

LEMMA FrameShows ==
    ASSUME NEW D, NEW P, NEW cur, NEW want, NEW m, OnlyClasses(D, P),
           ScreenWishInv(D, cur, want, m)
    PROVE  ScreenWishInv(P, cur, want, m)
<1>1. ScreenInv(P, cur)
  <2>1. ASSUME NEW i \in DOMAIN D.els
        PROVE  ScreenOk(P, cur, i)
    BY DEF ScreenWishInv, ScreenInv, ScreenOk, OnlyClasses, Reclassed
  <2>2. LeavingOk(P)
    BY DEF ScreenWishInv, ScreenInv, LeavingOk, OnlyClasses, Reclassed
  <2>. QED
    BY <2>1, <2>2 DEF ScreenWishInv, ScreenInv, OnlyClasses
<1>2. WishOk(P, cur, want, m)
  <2>1. cur # NoElement => cur \in DOMAIN D.els
    BY DEF ScreenWishInv, ScreenInv
  <2>. QED
    BY <2>1 DEF ScreenWishInv, WishOk, OnlyClasses, Reclassed
<1>. QED
  BY <1>1, <1>2 DEF ScreenWishInv

-----------------------------------------------------------------------------
LEMMA StageIs ==
    /\ Stage.leaving = leaving /\ Stage.dirty = dirty /\ Stage.els = elements
    /\ Stage.cbs = onceCbs /\ Stage.frames = frames /\ Stage.ends = ends
    /\ Stage.pending = pendingNodes
BY DEF Stage

LEMMA StageSet ==
    ASSUME NEW P, StageInv(P, NoCallback), SetStage(P)
    PROVE  Stage' = P
BY DEF StageInv, Stages, SetStage, Stage

LEMMA TransitionInitInv == TransitionInit => TransitionInv
<1>. SUFFICES ASSUME TransitionInit
              PROVE  TransitionInv
  OBVIOUS
<1>. DEFINE none == wanted = Nobody /\ mode # "show"
            u == FreshElement(IF wanted = Nobody THEN ShowKind ELSE wanted)
            v == [u EXCEPT !.display = (wanted # Nobody)]
<1>1. /\ wanted \in Wishes /\ leaving = FALSE /\ dirty = FALSE /\ onceCbs = <<>>
      /\ frames = {} /\ ends = {} /\ pendingNodes = [k \in Kinds |-> NoElement]
      /\ none => elements = <<>> /\ current = NoElement
      /\ ~none => /\ elements = <<v>>
                  /\ current = IF wanted = Nobody THEN NoElement ELSE 1
  BY DEF TransitionInit
<1>2. ShowKind \in Kinds
  BY KindsAssumption DEF ShowKind
<1>3. /\ wanted # Nobody => wanted \in Kinds
      /\ mode = "show" /\ wanted # Nobody => wanted = ShowKind
  BY <1>1, <1>2 DEF Wishes
<1>. DEFINE k == IF wanted = Nobody THEN ShowKind ELSE wanted
<1>4. /\ v \in Element /\ v.kind = k /\ v.inDom
      /\ v.display <=> wanted # Nobody
      /\ v.classes = {} /\ v.enterCb = NoCallback /\ v.leaveCb = NoCallback
      /\ ~v.delayLeave /\ ~v.afterLeave /\ v.releases = NoElement
  BY <1>2, <1>3 DEF FreshElement, Element, NoCallback, NoElement
<1>. HIDE DEF u, v, none
<1>5. /\ elements \in Seq(Element)
      /\ \A i \in DOMAIN elements : i = 1 /\ elements[i] = v
      /\ current # NoElement => current = 1 /\ 1 \in DOMAIN elements /\ wanted # Nobody
      /\ current = NoElement => wanted = Nobody
  <2>1. CASE none
    BY <1>1, <2>1 DEF none
  <2>2. CASE ~none
    <3>1. elements = <<v>> /\ DOMAIN elements = {1} /\ elements[1] = v
      BY <1>1, <1>4, <2>2
    <3>2. elements \in Seq(Element)
      BY <1>4, <3>1
    <3>3. current = IF wanted = Nobody THEN NoElement ELSE 1
      BY <1>1, <2>2
    <3>. QED
      BY <3>1, <3>2, <3>3 DEF NoElement
  <2>. QED
    BY <2>1, <2>2
<1>6. /\ Stage \in Stages /\ DOMAIN Stage.cbs = {} /\ Stage.frames = {} /\ Stage.ends = {}
      /\ Stage.els = elements /\ ~Stage.leaving
      /\ \A j \in Kinds : Stage.pending[j] = NoElement
  <2>1. onceCbs \in Seq(Callback) /\ DOMAIN onceCbs = {}
    BY <1>1
  <2>2. pendingNodes \in [Kinds -> Nat] /\ \A j \in Kinds : pendingNodes[j] = NoElement
    BY <1>1 DEF NoElement
  <2>3. frames \in SUBSET Nat /\ ends \in SUBSET Nat /\ leaving \in BOOLEAN /\ dirty \in BOOLEAN
    BY <1>1
  <2>4. Stage \in Stages
    BY <1>5, <2>1, <2>2, <2>3 DEF Stage, Stages
  <2>. QED
    BY <1>1, <2>1, <2>2, <2>4, StageIs
<1>7. \A i \in DOMAIN elements : ElementOk(Stage, i, NoCallback)
  BY <1>4, <1>5, <1>6 DEF ElementOk, WaitsFor, UnderWay, ReleaseOk, ClassesOk
<1>8. StageInv(Stage, NoCallback)
  BY <1>6, <1>7 DEF StageInv
<1>9. ScreenInv(Stage, current)
  <2>1. ASSUME NEW i \in DOMAIN elements
        PROVE  ScreenOk(Stage, current, i)
    <3>1. i = 1 /\ Stage.els[i] = v
      BY <1>5, <1>6, <2>1
    <3>2. i = current \/ (i # current /\ wanted = Nobody)
      BY <1>5, <3>1
    <3>. QED
      BY <1>4, <1>5, <3>1, <3>2 DEF ScreenOk, NoElement
  <2>. QED
    BY <1>5, <1>6, <2>1 DEF ScreenInv, LeavingOk
<1>10. WishOk(Stage, current, wanted, mode)
  <2>1. current # NoElement => elements[current].kind = wanted
    BY <1>4, <1>5
  <2>2. mode = "show" => DOMAIN elements = {1} /\ elements[1] = v /\ k = ShowKind
    BY <1>1, <1>3, <1>5 DEF none
  <2>. QED
    BY <1>4, <1>5, <1>6, <2>1, <2>2 DEF WishOk
<1>. QED
  BY <1>1, <1>8, <1>9, <1>10 DEF TransitionInv, ScreenWishInv

\* Whatever a step has made of the record is the next state's.
LEMMA StageTaken ==
    ASSUME NEW P, SetStage(P), StageInv(P, NoCallback),
           ScreenWishInv(P, current', wanted', mode'), wanted' \in Wishes'
    PROVE  TransitionInv'
<1>1. Stage' = P
  BY StageSet
<1>. QED
  BY <1>1 DEF TransitionInv

LEMMA TransitionStepInv ==
    ASSUME TransitionInv, TransitionNext
    PROVE  TransitionInv'
<1>. DEFINE D == Flushed(Stage)
<1>0. /\ wanted \in Wishes /\ StageInv(Stage, NoCallback) /\ ScreenInv(Stage, current)
      /\ WishOk(Stage, current, wanted, mode) /\ ScreenWishInv(Stage, current, wanted, mode)
  BY DEF TransitionInv, ScreenWishInv
<1>1. /\ D.els = elements /\ D.leaving = leaving /\ ~D.dirty
      /\ StageInv(D, NoCallback) /\ ScreenInv(D, current)
  BY <1>0, FlushedKeeps, StageIs
<1>2. D = [Stage EXCEPT !.dirty = FALSE]
  BY DEF Flushed
<1>3. current # NoElement => current \in DOMAIN elements
  BY <1>1 DEF ScreenInv
<1>4. wanted # Nobody => wanted \in Kinds /\ (mode = "show" => wanted = ShowKind)
  BY <1>0, KindsAssumption DEF Wishes, ShowKind
<1>. HIDE DEF D
<1>5. ASSUME NEW k \in Kinds \cup {Nobody}, Toggle(k)
      PROVE  TransitionInv'
  <2>. DEFINE P == [Stage EXCEPT !.dirty = TRUE]
  <2>1. /\ P.els = Stage.els /\ P.cbs = Stage.cbs /\ P.frames = Stage.frames
        /\ P.ends = Stage.ends /\ P.pending = Stage.pending /\ P.leaving = Stage.leaving
        /\ P.dirty /\ P \in Stages
    BY <1>0 DEF StageInv, Stages
  <2>2. SetStage(P)
    BY <1>5, <2>1, StageIs DEF Toggle, SetStage, Stage
  <2>. HIDE DEF P
  <2>3. StageInv(P, NoCallback)
    BY <1>0, <2>1, SettingsKeep
  <2>4. ScreenInv(P, current)
    BY <1>0, <2>1 DEF ScreenInv, ScreenOk, LeavingOk
  <2>5. WishOk(P, current, k, mode)
    BY <1>0, <2>1 DEF WishOk
  <2>6. current' = current /\ mode' = mode /\ wanted' = k /\ k \in Wishes /\ Wishes' = Wishes
    BY <1>5 DEF Toggle, Wishes
  <2>. QED
    BY <2>2, <2>3, <2>4, <2>5, <2>6, StageTaken DEF ScreenWishInv
<1>6. ASSUME UpdateShow
      PROVE  TransitionInv'
  <2>1. /\ mode = "show" /\ mode' = mode /\ wanted' = wanted /\ Wishes' = Wishes
        /\ current' = IF wanted = Nobody THEN NoElement ELSE 1
    BY <1>6 DEF UpdateShow, Wishes
  <2>2. SetStage(IF (wanted # Nobody) = (current # NoElement) THEN D
                 ELSE IF wanted # Nobody THEN Enter(D, 1, TRUE) ELSE Leave(D, 1, TRUE))
    BY <1>2, <1>6 DEF UpdateShow
  <2>3. /\ DOMAIN D.els = {1} /\ D.els[1].kind = ShowKind /\ D.els[1].inDom
        /\ D.els[1].releases = NoElement /\ ~D.leaving
    BY <1>0, <1>1, <2>1, StageIs DEF WishOk
  <2>4. current # NoElement => current = 1
    BY <1>1, <1>3, <2>3
  <2>5. CASE wanted # Nobody /\ current = NoElement
    <3>1. SetStage(Enter(D, 1, TRUE)) /\ current' = 1 /\ wanted' = ShowKind
      BY <1>4, <2>1, <2>2, <2>5
    <3>2. /\ StageInv(Enter(D, 1, TRUE), NoCallback)
          /\ ScreenWishInv(Enter(D, 1, TRUE), 1, ShowKind, "show")
      BY <1>1, <2>3, <2>5, ShowKeeps
    <3>. QED
      BY <1>0, <2>1, <3>1, <3>2, StageTaken
  <2>6. CASE wanted = Nobody /\ current # NoElement
    <3>1. SetStage(Leave(D, 1, TRUE)) /\ current' = NoElement /\ wanted' = Nobody
      BY <2>1, <2>2, <2>6
    <3>2. /\ StageInv(Leave(D, 1, TRUE), NoCallback)
          /\ ScreenWishInv(Leave(D, 1, TRUE), NoElement, Nobody, "show")
      BY <1>1, <2>3, <2>4, <2>6, HideKeeps
    <3>. QED
      BY <1>0, <2>1, <3>1, <3>2, StageTaken
  <2>7. CASE wanted # Nobody <=> current # NoElement
    <3>1. SetStage(D) /\ current' = current
      BY <2>1, <2>2, <2>4, <2>7
    <3>2. current # NoElement => D.els[current].kind = wanted
      BY <1>4, <2>1, <2>3, <2>4, <2>7
    <3>3. WishOk(D, current, wanted, mode)
      BY <2>3, <2>7, <3>2 DEF WishOk
    <3>. QED
      BY <1>0, <1>1, <2>1, <3>1, <3>3, StageTaken DEF ScreenWishInv
  <2>. QED
    BY <2>5, <2>6, <2>7
<1>7. ASSUME RenderSame
      PROVE  TransitionInv'
  <2>1. /\ mode # "show" /\ current # NoElement /\ wanted = elements[current].kind
        /\ mode' = mode /\ wanted' = wanted /\ Wishes' = Wishes /\ current' = current
    BY <1>7 DEF RenderSame, Wishes, Old
  <2>2. SetStage(D)
    BY <1>2, <1>7 DEF RenderSame
  <2>3. WishOk(D, current, wanted, mode)
    BY <1>1, <2>1 DEF WishOk
  <2>. QED
    BY <1>0, <1>1, <2>1, <2>2, <2>3, StageTaken DEF ScreenWishInv
<1>8. ASSUME RenderNothing
      PROVE  TransitionInv'
  <2>1. /\ mode # "show"
        /\ wanted = Nobody \/ leaving
        /\ mode' = mode /\ wanted' = wanted /\ Wishes' = Wishes /\ current' = NoElement
    BY <1>8 DEF RenderNothing, Wishes
  <2>2. SetStage(IF current = NoElement THEN D ELSE Leave(D, current, FALSE))
    BY <1>2, <1>8 DEF RenderNothing
  <2>3. CASE current = NoElement
    <3>1. WishOk(D, current, wanted, mode)
      BY <1>1, <2>1, <2>3 DEF WishOk
    <3>. QED
      BY <1>0, <1>1, <2>1, <2>2, <2>3, <3>1, StageTaken DEF ScreenWishInv
  <2>4. CASE current # NoElement
    <3>1. /\ StageInv(Leave(D, current, FALSE), NoCallback)
          /\ ScreenWishInv(Leave(D, current, FALSE), NoElement, wanted, mode)
      BY <1>1, <2>1, <2>4, LastLeaves
    <3>. QED
      BY <1>0, <2>1, <2>2, <2>4, <3>1, StageTaken
  <2>. QED
    BY <2>3, <2>4
<1>9. ASSUME RenderOutIn
      PROVE  TransitionInv'
  <2>. DEFINE P == Leave(Placeheld(D, current), current, FALSE)
  <2>1. /\ mode # "show" /\ current # NoElement
        /\ mode' = mode /\ wanted' = wanted /\ Wishes' = Wishes /\ current' = NoElement
    BY <1>9 DEF RenderOutIn, Wishes
  <2>2. SetStage(P)
    <3>1. Placeheld(D, current) = [Stage EXCEPT !.dirty = FALSE, !.leaving = TRUE,
                                                !.els[current].afterLeave = TRUE]
      BY <1>0 DEF Placeheld, Stages, StageInv, Flushed, D
    <3>. QED
      BY <1>9, <3>1 DEF RenderOutIn
  <2>3. StageInv(P, NoCallback) /\ ScreenWishInv(P, NoElement, wanted, mode)
    BY <1>1, <2>1, PlaceholderKeeps
  <2>. HIDE DEF P
  <2>. QED
    BY <1>0, <2>1, <2>2, <2>3, StageTaken
<1>10. ASSUME RenderNext
       PROVE  TransitionInv'
  <2>. DEFINE e == Len(D.els) + 1
              inOut == mode = "in-out" /\ current # NoElement
              P == NextDone(D, current, wanted, inOut)
  <2>1. /\ mode # "show" /\ wanted \in Kinds /\ ~leaving
        /\ mode' = mode /\ wanted' = wanted /\ Wishes' = Wishes /\ current' = e
    BY <1>1, <1>4, <1>10 DEF RenderNext, Wishes
  <2>2. SetStage(P)
    BY <1>1, <1>2, <1>10 DEF RenderNext, NextDone, NextLeft, NextEntered, NextMade, Hooked
  <2>3. inOut \in BOOLEAN /\ (inOut => current # NoElement)
    OBVIOUS
  <2>. HIDE DEF inOut
  <2>4. StageInv(P, NoCallback) /\ ScreenWishInv(P, e, wanted, mode)
    <3>1. ~D.leaving
      BY <1>1, <2>1
    <3>2. ASSUME NEW b \in BOOLEAN, b => current # NoElement
          PROVE  /\ StageInv(NextDone(D, current, wanted, b), NoCallback)
                 /\ ScreenWishInv(NextDone(D, current, wanted, b), Len(D.els) + 1, wanted, mode)
      <4>1. StageInv(D, NoCallback) /\ ScreenInv(D, current) /\ ~D.leaving /\ wanted \in Kinds
        BY <1>1, <2>1, <3>1
      <4>2. mode # "show" /\ b \in BOOLEAN /\ (b => current # NoElement)
        BY <2>1, <3>2
      <4>. HIDE DEF e, P, inOut
      <4>3. \A want, m : want \in Kinds /\ m # "show" =>
                /\ StageInv(NextDone(D, current, want, b), NoCallback)
                /\ ScreenWishInv(NextDone(D, current, want, b), Len(D.els) + 1, want, m)
        BY <4>1, <4>2, NextKeeps
      <4>. QED
        BY <4>1, <4>2, <4>3
    <3>. QED
      BY <2>3, <3>2
  <2>. HIDE DEF P
  <2>. QED
    BY <1>0, <2>1, <2>2, <2>4, StageTaken
<1>11. ASSUME NEW c \in frames, Frame(c)
       PROVE  TransitionInv'
  <2>. DEFINE P == FrameOf(Stage, c)
  <2>1. current' = current /\ mode' = mode /\ wanted' = wanted /\ Wishes' = Wishes
    BY <1>11 DEF Frame, Wishes
  <2>2. StageInv(P, NoCallback) /\ OnlyClasses(Stage, P)
    BY <1>0, <1>11, FrameKeeps, StageIs
  <2>3. SetStage(P)
    BY <1>11 DEF Frame, FrameOf, SetStage, Stage
  <2>. HIDE DEF P
  <2>4. ScreenWishInv(P, current, wanted, mode)
    BY <1>0, <2>2, FrameShows
  <2>. QED
    BY <1>0, <2>1, <2>2, <2>3, <2>4, StageTaken
<1>12. ASSUME NEW c \in ends, TransitionEnds(c)
       PROVE  TransitionInv'
  <2>. DEFINE P == Call(Unqueued(Stage, c), c, mode = "show")
  <2>1. current' = current /\ mode' = mode /\ wanted' = wanted /\ Wishes' = Wishes
    BY <1>12 DEF TransitionEnds, Wishes
  <2>2. SetStage(P)
    BY <1>12 DEF TransitionEnds, Unqueued
  <2>3. StageInv(P, NoCallback) /\ ScreenWishInv(P, current, wanted, mode)
    BY <1>0, <1>12, EndKeeps, StageIs
  <2>. HIDE DEF P
  <2>. QED
    BY <1>0, <2>1, <2>2, <2>3, StageTaken
<1>. QED
  BY <1>5, <1>6, <1>7, <1>8, <1>9, <1>10, <1>11, <1>12 DEF TransitionNext

\* When nothing is outstanding, every callback of TransitionInv would still have to be
\* in frames or ends, so there is none, and nothing is left that would release another.
LEMMA InvSettles == TransitionInv => SettlesOnData
<1>. SUFFICES ASSUME TransitionInv, Settled
              PROVE  /\ { elements[e].kind : e \in OnScreen } = {wanted} \ {Nobody}
                     /\ Cardinality(OnScreen) <= 1
                     /\ ~leaving
                     /\ \A e \in OnScreen : elements[e].classes = {}
                     /\ \A e \in DOMAIN elements :
                           elements[e].enterCb = NoCallback /\ elements[e].leaveCb = NoCallback
  BY DEF SettlesOnData
<1>1. /\ ~dirty /\ frames = {} /\ ends = {}
      /\ \A e \in DOMAIN elements : ElementOk(Stage, e, NoCallback) /\ ScreenOk(Stage, current, e)
      /\ current # NoElement => current \in DOMAIN elements
      /\ LeavingOk(Stage) /\ WishOk(Stage, current, wanted, mode) /\ Stage \in Stages
  BY StageIs DEF Settled, TransitionInv, StageInv, ScreenWishInv, ScreenInv
<1>2. \A e \in DOMAIN elements : elements[e].enterCb = NoCallback
  BY <1>1, StageIs DEF ElementOk, UnderWay
<1>3. \A e \in DOMAIN elements : elements[e].releases = NoElement /\ e # NoElement
  BY <1>1, <1>2, StageIs, StageFields DEF ScreenOk, NoElement
<1>4. \A e \in DOMAIN elements : elements[e].leaveCb = NoCallback
  BY <1>1, <1>3, StageIs DEF ElementOk, UnderWay
<1>5. ~leaving
  BY <1>1, <1>4, StageIs DEF LeavingOk
<1>6. \A e \in OnScreen : elements[e].classes = {}
  BY <1>1, <1>2, <1>4, StageIs DEF OnScreen, ElementOk, ClassesOk
<1>7. OnScreen = IF current = NoElement THEN {} ELSE {current}
  BY <1>1, <1>3, <1>4, StageIs DEF OnScreen, ScreenOk
<1>8. Cardinality(OnScreen) <= 1
  BY <1>7, FS_EmptySet, FS_Singleton
<1>9. { elements[e].kind : e \in OnScreen } = {wanted} \ {Nobody}
  <2>1. CASE current = NoElement
    BY <1>1, <1>5, <1>7, <2>1, StageIs DEF WishOk
  <2>2. CASE current # NoElement
    <3>1. elements[current].kind = wanted /\ elements[current].kind \in Kinds
      BY <1>1, <2>2, StageIs, StageFields DEF WishOk, Element
    <3>. QED
      BY <1>7, <2>2, <3>1, KindsAssumption
  <2>. QED
    BY <2>1, <2>2
<1>. QED
  BY <1>2, <1>4, <1>5, <1>6, <1>8, <1>9

\* However often the data changed while children of <transition> entered and left, in
\* every mode: once no render, frame or end event is outstanding, the screen shows what
\* the data asks for (js/vue.js: enter, leave, resolveTransitionData, <transition>).
THEOREM TransitionsSettle == TransitionSpec => []SettlesOnData
<1>1. TransitionInv /\ [TransitionNext]_transitionVars => TransitionInv'
  <2>1. ASSUME TransitionInv, UNCHANGED transitionVars
        PROVE  TransitionInv'
    <3>1. Stage' = Stage /\ wanted' = wanted /\ current' = current /\ mode' = mode
          /\ Wishes' = Wishes
      BY <2>1 DEF transitionVars, Stage, Wishes
    <3>. QED
      BY <2>1, <3>1 DEF TransitionInv
  <2>. QED
    BY <2>1, TransitionStepInv
<1>. QED
  BY <1>1, TransitionInitInv, InvSettles, PTL DEF TransitionSpec
==============================================================================
