--------------------------- MODULE VueReactivity ---------------------------
(***************************************************************************)
(* Dependency tracking, watchers and component instances of js/vue.js on    *)
(* top of its scheduler.  The page is a root instance whose template shows  *)
(* a list and, under a v-if on `show`, one child component (as a dialog or  *)
(* the foot bar of the pages); each instance has one computed property, one *)
(* watch option and its render watcher, created in that order:              *)
(*   root:   total reads x;  watch total;  render reads show, list, total   *)
(*   child:  total reads the prop p and, if p is 1, its data y;  watch y;   *)
(*           render reads total                                             *)
(* A reactive property and the observer of an array each have one Dep.      *)
(* subs and deps are sets: the order of a Dep's subscribers decides only in *)
(* which order ids enter a queue that is sorted before it is used.          *)
(***************************************************************************)
EXTENDS VueScheduler, FiniteSets

CONSTANTS MaxChildren,   \* bound: children created over the life of the page
          MaxWrites,     \* bound: assignments by code of the page
          Arrays         \* arrays the page holds

\* Ids are given in turn, three to an instance, and the bounds are such that
\* the assignments run out before the instances do.
ASSUME PageAssumption ==
    /\ MaxChildren \in Nat /\ MaxWrites \in 0..(2 * MaxChildren)
    /\ Watchers = 1..(3 * MaxChildren + 3)
    /\ Arrays # {}

VARIABLES value,         \* the value of each reactive property
          len,           \* the length of each array
          subs,          \* Dep.subs: the watchers of each Dep
          watcher,       \* active, dirty, value and deps of each watcher
          inst,          \* instance -> "none", "mounted" or "destroyed"
          dom,           \* what the last patch of an instance shows
          notified,      \* update() was called on them, queueWatcher is next
          called,        \* code of the page is called by the watcher that runs
          wants,         \* per page callback: instances stale when it was given
          writes, gaveUp, thrown

reactiveVars == <<value, len, subs, watcher, inst, dom>>
auxVars == <<wants, writes, gaveUp, thrown>>
allVars == <<vars, reactiveVars, notified, called, auxVars>>

Root == 0
Instances == 0..MaxChildren
Computed(n) == 3 * n + 1
User(n) == 3 * n + 2
Render(n) == 3 * n + 3
InstanceOf(w) == (w - 1) \div 3
IsLazy(w) == w % 3 = 1

Prop(n, k) == <<n, k>>
Props == { Prop(Root, k) : k \in {"show", "x", "list"} }
            \cup { Prop(n, k) : n \in Instances \ {Root}, k \in {"p", "y"} }
Observer(a) == <<a, "ob">>
Deps == Props \cup { Observer(a) : a \in Arrays }
Nothing == -1                 \* an instance that shows nothing

NewWatcher == [active |-> TRUE, dirty |-> TRUE, value |-> 0, deps |-> {}]
NoWatcher == [NewWatcher EXCEPT !.active = FALSE]

-----------------------------------------------------------------------------
(* The operators below work on the record R of the reactive variables and   *)
(* of the watchers notified so far, threaded through one stretch of code.   *)
Current == [value |-> value, len |-> len, subs |-> subs, watcher |-> watcher,
            inst |-> inst, dom |-> dom, notified |-> notified, hooks |-> FALSE]

(* Mutant of Collect: a watcher subscribes in its first evaluation only. *)
CollectOnce(R, w, D) ==
    IF R.watcher[w].deps # {} THEN R
    ELSE [R EXCEPT !.subs = [d \in Deps |-> IF d \in D THEN @[d] \cup {w} ELSE @[d]],
                   !.watcher[w].deps = D]

\* addDep and cleanupDeps: one evaluation of w read exactly the Deps in D.
\* A Dep w already had gets no new subscription, one it lost is left.
Collect(R, w, D) ==
    [R EXCEPT !.subs = [d \in Deps |->
                  IF d \in D \ R.watcher[w].deps THEN @[d] \cup {w}
                  ELSE IF d \in R.watcher[w].deps \ D THEN @[d] \ {w} ELSE @[d]],
              !.watcher[w].deps = D]

\* The getter of a computed property: the Deps it reads and its result.
ReadsOf(R, n) ==
    IF n = Root THEN {Prop(Root, "x")}
    ELSE {Prop(n, "p")} \cup (IF R.value[Prop(n, "p")] = 1 THEN {Prop(n, "y")} ELSE {})
TotalOf(R, n) ==
    IF n = Root THEN R.value[Prop(Root, "x")]
    ELSE IF R.value[Prop(n, "p")] = 1 THEN R.value[Prop(n, "y")] ELSE 0

\* computedGetter: evaluate() if dirty; the reader then depends on its deps.
ReadComputed(R, n) ==
    LET c == Computed(n) IN
    IF R.watcher[c].dirty
    THEN [Collect(R, c, ReadsOf(R, n)) EXCEPT !.watcher[c].value = TotalOf(R, n),
                                              !.watcher[c].dirty = FALSE]
    ELSE R

(* Mutant of NotifyDep: update() does not mark a lazy watcher. *)
NotifyQueuedOnly(R, d) == [R EXCEPT !.notified = @ \cup { w \in R.subs[d] : ~IsLazy(w) }]

\* reactiveSetter and Dep.notify: lazy watchers become dirty, others are
\* handed to queueWatcher.
NotifyDep(R, d) ==
    [R EXCEPT !.watcher = [w \in Watchers |->
                  IF w \in R.subs[d] /\ IsLazy(w) THEN [@[w] EXCEPT !.dirty = TRUE] ELSE @[w]],
              !.notified = @ \cup { w \in R.subs[d] : ~IsLazy(w) }]
Assign(R, d, v) ==
    IF R.value[d] = v THEN R ELSE NotifyDep([R EXCEPT !.value[d] = v], d)

RenderChild(R, n) ==
    LET E == ReadComputed(R, n) IN
    [Collect(E, Render(n), E.watcher[Computed(n)].deps)
        EXCEPT !.dom[n] = E.watcher[Computed(n)].value]

\* init of a component vnode: initState (a lazy computed watcher, a user
\* watcher that reads y), then mountComponent with its first render.
CreateChild(R, n, p) ==
    LET S == [R EXCEPT !.value = [@ EXCEPT ![Prop(n, "p")] = p, ![Prop(n, "y")] = 0],
                       !.watcher = [w \in Watchers |->
                                       IF InstanceOf(w) = n THEN NewWatcher ELSE @[w]],
                       !.inst[n] = "mounted", !.hooks = TRUE]
        U == Collect(S, User(n), {Prop(n, "y")})
    IN RenderChild(U, n)

\* $destroy: teardown of every watcher; their deps lists stay as they are.
DestroyChild(R, n) ==
    LET mine == { w \in Watchers : InstanceOf(w) = n } IN
    [R EXCEPT !.subs = [d \in Deps |-> @[d] \ { w \in mine : d \in R.watcher[w].deps }],
              !.watcher = [w \in Watchers |->
                              IF w \in mine THEN [@[w] EXCEPT !.active = FALSE] ELSE @[w]],
              !.inst[n] = "destroyed", !.dom[n] = Nothing, !.hooks = TRUE]

Child(R) == { n \in Instances \ {Root} : R.inst[n] = "mounted" }
Unborn(R) == { n \in Instances : R.inst[n] = "none" }

\* updateChildComponent assigns the prop; a child that appears is created,
\* one that disappears is destroyed.
PatchChild(R, show, p) ==
    IF show = 1
    THEN IF Child(R) = {}
         THEN CreateChild(R, CHOOSE n \in Unborn(R) : \A k \in Unborn(R) : n <= k, p)
         ELSE Assign(R, Prop(CHOOSE n \in Child(R) : TRUE, "p"), p)
    ELSE IF Child(R) = {} THEN R ELSE DestroyChild(R, CHOOSE n \in Child(R) : TRUE)

\* The root's updateComponent: _render collects the Deps, _update patches.
RenderRoot(R) ==
    LET show == R.value[Prop(Root, "show")]
        list == R.value[Prop(Root, "list")]
        E == IF show = 1 THEN ReadComputed(R, Root) ELSE R
        read == {Prop(Root, "show"), Prop(Root, "list"), Observer(list)}
                  \cup (IF show = 1 THEN E.watcher[Computed(Root)].deps ELSE {})
        P == PatchChild(E, show, E.watcher[Computed(Root)].value)
    IN [Collect(P, Render(Root), read) EXCEPT !.dom[Root] = R.len[list]]

\* The getter of the user watcher: the root's goes through its computed.
EvaluateUser(R, n) ==
    IF n = Root
    THEN LET E == ReadComputed(R, Root)
         IN [Collect(E, User(Root), E.watcher[Computed(Root)].deps)
               EXCEPT !.watcher[User(Root)].value = E.watcher[Computed(Root)].value]
    ELSE [Collect(R, User(n), {Prop(n, "y")})
               EXCEPT !.watcher[User(n)].value = R.value[Prop(n, "y")]]

RunOf(R, w) ==
    IF ~R.watcher[w].active THEN R
    ELSE IF w = User(InstanceOf(w)) THEN EvaluateUser(R, InstanceOf(w))
    ELSE IF w = Render(Root) THEN RenderRoot(R)
    ELSE RenderChild(R, InstanceOf(w))

-----------------------------------------------------------------------------
\* What an up-to-date page shows of instance n.
Shown(R, n) == IF n = Root THEN R.len[R.value[Prop(Root, "list")]] ELSE TotalOf(R, n)
PropOf(R) == R.value[Prop(Root, "x")]
Stale(R, n) ==
    \/ /\ R.inst[n] = "mounted"
       /\ \/ R.dom[n] # Shown(R, n)
          \/ n # Root /\ R.value[Prop(n, "p")] # PropOf(R) /\ R.value[Prop(Root, "show")] = 1
    \/ n = Root /\ (R.value[Prop(Root, "show")] = 1) # (Child(R) # {})
Rendered(R, w) == IF R.watcher[w].active /\ w = Render(InstanceOf(w)) THEN {InstanceOf(w)} ELSE {}

Become(R) ==
    /\ value' = R.value /\ len' = R.len /\ subs' = R.subs /\ watcher' = R.watcher
    /\ inst' = R.inst /\ dom' = R.dom /\ notified' = R.notified

\* Instances that were rendered, or caught up otherwise, are wanted no more.
Refresh(ws, R, done) ==
    [i \in DOMAIN ws |-> { n \in ws[i] : n \notin done /\ Stale(R, n) }]

\* new Vue(): initState of the root, and its first render.
FirstPage ==
    LET blank == [value |-> [d \in Props |-> IF d = Prop(Root, "list")
                                             THEN CHOOSE a \in Arrays : TRUE ELSE 0],
                  len |-> [a \in Arrays |-> 0],
                  subs |-> [d \in Deps |-> {}],
                  watcher |-> [w \in Watchers |->
                                  IF InstanceOf(w) = Root THEN NewWatcher ELSE NoWatcher],
                  inst |-> [n \in Instances |-> IF n = Root THEN "mounted" ELSE "none"],
                  dom |-> [n \in Instances |-> Nothing],
                  notified |-> {}, hooks |-> FALSE]
    IN RenderRoot(EvaluateUser(blank, Root))

PageInit ==
    /\ Init
    /\ value = FirstPage.value /\ len = FirstPage.len /\ subs = FirstPage.subs
    /\ watcher = FirstPage.watcher /\ inst = FirstPage.inst /\ dom = FirstPage.dom
    /\ notified = {} /\ called = FALSE
    /\ wants = <<>> /\ writes = 0 /\ gaveUp = FALSE /\ thrown = FALSE

-----------------------------------------------------------------------------
(* Code of the page: event handlers, promise callbacks, $nextTick and watch *)
(* callbacks and hooks.  update() calls go through queueWatcher before the  *)
(* next statement.                                                          *)
Quiet == notified = {}
MayWrite == Quiet /\ IF phase \in {"run", "hooks"} THEN called ELSE phase \in PageCode

PageStep(R) ==
    /\ MayWrite
    /\ Become(R)
    /\ wants' = Refresh(wants, R, {})
    /\ UNCHANGED <<vars, called, gaveUp, thrown>>

\* An assignment to data; props are left to the parent.
WriteData(d, v) ==
    /\ writes < MaxWrites
    /\ inst[d[1]] # "none"
    /\ v # value[d]
    /\ PageStep(Assign(Current, d, v))
    /\ writes' = writes + 1

\* One of the patched array methods, on an array shown or not shown.
Push(a) ==
    /\ writes < MaxWrites /\ len[a] = 0
    /\ PageStep(NotifyDep([Current EXCEPT !.len[a] = 1], Observer(a)))
    /\ writes' = writes + 1

\* Late code reads a computed property, also of a destroyed instance.
ReadTotal(n) ==
    /\ inst[n] # "none" /\ watcher[Computed(n)].dirty
    /\ PageStep(ReadComputed(Current, n))
    /\ UNCHANGED writes

\* unwatchFn: teardown of the root's user watcher.
Unwatch ==
    /\ watcher[User(Root)].active
    /\ PageStep([Current EXCEPT
                    !.subs = [d \in Deps |-> @[d] \ {User(Root)}],
                    !.watcher[User(Root)].active = FALSE])
    /\ UNCHANGED writes

GiveTick ==
    /\ MayWrite
    /\ CallNextTick
    /\ wants' = Append(wants, { n \in Instances : Stale(Current, n) })
    /\ UNCHANGED <<reactiveVars, notified, called, writes, gaveUp, thrown>>

QueueNotified(w) ==
    /\ w \in notified /\ \A v \in notified : w <= v
    /\ Notify(w)
    /\ notified' = notified \ {w}
    /\ UNCHANGED <<reactiveVars, called, auxVars>>

-----------------------------------------------------------------------------
\* Watcher.run: get(), and the callback if the value changed.
Run(w) ==
    /\ Quiet
    /\ RunWatcher(w)
    /\ LET R == RunOf(Current, w) IN
         /\ Become(R)
         /\ called' = (R.hooks \/ (w = User(InstanceOf(w))
                                    /\ R.watcher[w].value # watcher[w].value))
         /\ wants' = Refresh(wants, R, Rendered(R, w))
    /\ UNCHANGED <<writes, gaveUp, thrown>>

Return ==
    /\ Quiet
    /\ ReturnFromRun
    /\ gaveUp' = (gaveUp \/ phase' = "hooks")
    /\ called' = FALSE
    /\ UNCHANGED <<reactiveVars, notified, wants, writes, thrown>>

\* The patch of a render watcher throws.
Throw ==
    /\ Quiet
    /\ ThrowFromRun
    /\ queue[index] = Render(InstanceOf(queue[index])) /\ watcher[queue[index]].active
    /\ thrown' = TRUE
    /\ called' = FALSE
    /\ UNCHANGED <<reactiveVars, notified, wants, writes, gaveUp>>

\* vm._watcher === watcher: the updated hook of the instance, destroyed or not.
UpdatedHook ==
    /\ Quiet
    /\ CallUpdatedHook
    /\ called' = (Last(updatedQueue) = Render(InstanceOf(Last(updatedQueue))))
    /\ UNCHANGED <<reactiveVars, notified, auxVars>>

CallWantedTick ==
    /\ Quiet
    /\ CallPageTick
    /\ wants' = Tail(wants)
    /\ UNCHANGED <<reactiveVars, notified, called, writes, gaveUp, thrown>>

\* The remaining steps of the scheduler leave the data alone.
OtherStep ==
    /\ Quiet
    /\ \/ BeginHandler \/ BeginThen \/ (\E throws \in BOOLEAN : EndTurn(throws))
       \/ FlushCallbacks \/ ReturnFromTick \/ EndTicks
       \/ BeginFlush \/ LoopDone \/ EndHooks
    /\ called' = FALSE
    /\ UNCHANGED <<reactiveVars, notified, auxVars>>

PageNext ==
    \/ \E d \in Props, v \in {0, 1} :
           d[2] \in {"show", "x", "y"} /\ WriteData(d, v)
    \/ \E a \in Arrays : WriteData(Prop(Root, "list"), a) \/ Push(a)
    \/ \E n \in Instances : ReadTotal(n)
    \/ Unwatch \/ GiveTick
    \/ \E w \in Watchers : QueueNotified(w) \/ Run(w)
    \/ Return \/ Throw \/ UpdatedHook \/ CallWantedTick \/ OtherStep

PageSpec == PageInit /\ [][PageNext]_allVars

-----------------------------------------------------------------------------
\* A live computed property that is not dirty holds what its getter would return
\* now, in whatever order properties were assigned, patched and read.
CachedIsFresh ==
    \A n \in Instances : LET c == Computed(n) IN
        watcher[c].active /\ ~watcher[c].dirty => watcher[c].value = TotalOf(Current, n)

\* An instance whose screen differs from its data waits for its own or its
\* parent's render, unless a flush was stopped or a patch threw.
StaleIsQueued ==
    Quiet /\ ~gaveUp /\ ~thrown =>
        \A n \in Instances : Stale(Current, n) => {Render(n), Render(Root)} \cap has # {}

\* A flush that was asked for is on its way exactly once: as one callback that
\* is still to be called, or as the loop that is running.  Only an exception of
\* a patch ends that: flushSchedulerQueue is left with both flags set, so the
\* page still counts as waiting, although no flush is on its way, nor ever will
\* be: what is notified from then on stays in the queue and the page is frozen.
FlushOnItsWay ==
    /\ ~thrown => (waiting <=> Asked(callbacks) \/ Asked(copies) \/ InLoop)
    /\ thrown => waiting /\ ~Asked(callbacks) /\ ~Asked(copies) /\ ~InLoop
    /\ InLoop => ~Asked(callbacks) /\ ~Asked(copies)
    /\ Once(callbacks) /\ Once(copies) /\ ~(Asked(callbacks) /\ Asked(copies))

\* A callback given to $nextTick (blog-detail.html gives its init) finds every
\* instance that was stale at that moment patched, or gone.
TickSeesUpdate ==
    phase = "ticks" /\ copies # <<>> /\ Head(copies) = PageTick /\ ~gaveUp /\ ~thrown
        => Head(wants) = {}
=============================================================================
