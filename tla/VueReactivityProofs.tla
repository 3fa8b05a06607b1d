------------------------ MODULE VueReactivityProofs ------------------------
(***************************************************************************)
(* Proofs about the pages' run time.  First its update queue: for any       *)
(* number of watchers no flush is lost and each watcher runs by priority,   *)
(* and the page of VueReactivity uses the queue as it is meant to be used.  *)
(* Then the page: computed properties are fresh, an instance that is out    *)
(* of date is queued, and $nextTick waits for it, for any number of         *)
(* instances, assignments, arrays and callbacks.                            *)
(***************************************************************************)
EXTENDS VueReactivity, TLAPS

\* The rest of the queue, what it means to stand in it, and when it ascends.
Rest == (index + 1)..Len(queue)

\* Where the flush is that the flags speak of; an exception leaves `flushing` set.
FlushState ==
    /\ waiting => flushing \/ Asked(callbacks) \/ Asked(copies)
    /\ flushing \/ ~waiting => ~Asked(callbacks) /\ ~Asked(copies)
    /\ Once(callbacks) /\ Once(copies) /\ ~(Asked(callbacks) /\ Asked(copies))

\* The loop runs exactly while phase says so, or was left by an exception.
LoopShape ==
    /\ phase \in {"loop", "run"} => flushing
    /\ phase = "run" => index \in 1..Len(queue)
    /\ ~flushing => index = 0
    /\ queue # <<>> => waiting
    /\ flushing => waiting
    /\ phase = "run" => queue[index] \in Watchers
    /\ phase \in {"idle", "handler", "then"} => copies = <<>>

Inv == SchedulerTypeOK /\ HasIsTheRest /\ RestAscends /\ FlushState /\ LoopShape

-----------------------------------------------------------------------------
LEMMA IdsAreNumbers == Watchers \subseteq Int /\ 0 \notin Watchers
  BY WatchersAssumption

LEMMA FlushIsNoPageTick == Flush # PageTick
  BY DEF Flush, PageTick

\* Adding a callback that is not a flush asks for nothing.
LEMMA AppendPageTick ==
  ASSUME NEW cbs \in Seq({Flush, PageTick}), NEW cb \in {Flush, PageTick}
  PROVE  /\ Append(cbs, cb) \in Seq({Flush, PageTick})
         /\ cb = PageTick => (Asked(Append(cbs, cb)) <=> Asked(cbs))
         /\ cb = PageTick /\ Once(cbs) => Once(Append(cbs, cb))
         /\ cb = Flush => Asked(Append(cbs, cb))
         /\ cb = Flush /\ ~Asked(cbs) => Once(Append(cbs, cb))
  BY FlushIsNoPageTick DEF Asked, Once

LEMMA TailOfCallbacks ==
  ASSUME NEW cbs \in Seq({Flush, PageTick}), cbs # <<>>
  PROVE  /\ Tail(cbs) \in Seq({Flush, PageTick})
         /\ Head(cbs) = PageTick => (Asked(Tail(cbs)) <=> Asked(cbs))
         /\ Once(cbs) => Once(Tail(cbs))
         /\ Head(cbs) = Flush => Asked(cbs)
         /\ Head(cbs) = Flush /\ Once(cbs) => ~Asked(Tail(cbs))
  <1>1. Len(cbs) \in Nat /\ Len(cbs) > 0 /\ Tail(cbs) \in Seq({Flush, PageTick})
    OBVIOUS
  <1>2. Len(Tail(cbs)) = Len(cbs) - 1
    OBVIOUS
  <1>3. \A i \in 1..(Len(cbs) - 1) : Tail(cbs)[i] = cbs[i + 1]
    OBVIOUS
  <1>4. DOMAIN cbs = 1..Len(cbs) /\ DOMAIN Tail(cbs) = 1..(Len(cbs) - 1) /\ Head(cbs) = cbs[1]
    BY <1>1, <1>2
  <1>5. Head(cbs) = PageTick => (Asked(Tail(cbs)) <=> Asked(cbs))
    <2>1. ASSUME Asked(Tail(cbs)) PROVE Asked(cbs)
      <3>1. PICK i \in 1..(Len(cbs) - 1) : Tail(cbs)[i] = Flush
        BY <2>1, <1>4 DEF Asked
      <3>2. i + 1 \in 1..Len(cbs) /\ cbs[i + 1] = Flush
        BY <3>1, <1>1, <1>3
      <3> QED BY <3>2, <1>4 DEF Asked
    <2>2. ASSUME Asked(cbs), Head(cbs) = PageTick PROVE Asked(Tail(cbs))
      <3>1. PICK i \in 1..Len(cbs) : cbs[i] = Flush
        BY <2>2, <1>4 DEF Asked
      <3>2. i # 1
        BY <3>1, <2>2, <1>4, FlushIsNoPageTick
      <3>3. i - 1 \in 1..(Len(cbs) - 1) /\ Tail(cbs)[i - 1] = cbs[(i - 1) + 1] /\ (i - 1) + 1 = i
        BY <3>1, <3>2, <1>1, <1>3
      <3> QED BY <3>1, <3>3, <1>4 DEF Asked
    <2> QED BY <2>1, <2>2
  <1>6. Once(cbs) => Once(Tail(cbs))
    <2> SUFFICES ASSUME Once(cbs), NEW i \in 1..(Len(cbs) - 1), NEW j \in 1..(Len(cbs) - 1),
                        Tail(cbs)[i] = Flush, Tail(cbs)[j] = Flush
                 PROVE  i = j
      BY <1>4 DEF Once
    <2>1. i + 1 \in 1..Len(cbs) /\ j + 1 \in 1..Len(cbs) /\ cbs[i + 1] = Flush /\ cbs[j + 1] = Flush
      BY <1>1, <1>3
    <2>2. i + 1 = j + 1
      BY <2>1, <1>4 DEF Once
    <2> QED BY <2>2, <1>1
  <1>7. Head(cbs) = Flush => Asked(cbs)
    BY <1>1, <1>4 DEF Asked
  <1>8. Head(cbs) = Flush /\ Once(cbs) => ~Asked(Tail(cbs))
    <2> SUFFICES ASSUME Head(cbs) = Flush, Once(cbs), NEW i \in 1..(Len(cbs) - 1),
                        Tail(cbs)[i] = Flush
                 PROVE  FALSE
      BY <1>4 DEF Asked
    <2>1. i + 1 \in 1..Len(cbs) /\ cbs[i + 1] = Flush /\ 1 \in 1..Len(cbs) /\ cbs[1] = Flush
      BY <1>1, <1>3, <1>4
    <2>2. i + 1 = 1
      BY <2>1, <1>4 DEF Once
    <2> QED BY <2>2, <1>1
  <1> QED BY <1>1, <1>5, <1>6, <1>7, <1>8

-----------------------------------------------------------------------------
(* Inserting into the rest of the queue.                                   *)
LEMMA Inserted ==
  ASSUME NEW q \in Seq(Watchers), NEW i \in 0..Len(q), NEW w \in Watchers
  PROVE  /\ InsertAfter(q, i, w) \in Seq(Watchers)
         /\ Len(InsertAfter(q, i, w)) = Len(q) + 1
         /\ \A j \in 1..Len(q) : j <= i => InsertAfter(q, i, w)[j] = q[j]
         /\ InsertAfter(q, i, w)[i + 1] = w
         /\ \A j \in 1..Len(q) : j > i => InsertAfter(q, i, w)[j + 1] = q[j]
  <1> DEFINE r == InsertAfter(q, i, w)
  <1>1. Len(q) \in Nat /\ i \in Nat /\ i <= Len(q)
    OBVIOUS
  <1>2. \A j \in 1..(Len(q) + 1) :
           (IF j <= i THEN q[j] ELSE IF j = i + 1 THEN w ELSE q[j - 1]) \in Watchers
    <2> TAKE j \in 1..(Len(q) + 1)
    <2>1. CASE j <= i
      <3>1. j \in 1..Len(q)
        BY <2>1, <1>1
      <3> QED BY <2>1, <3>1
    <2>2. CASE j = i + 1
      BY <2>2, <1>1
    <2>3. CASE ~(j <= i) /\ j # i + 1
      <3>1. j - 1 \in 1..Len(q)
        BY <2>3, <1>1
      <3> QED BY <2>3, <3>1
    <2> QED BY <2>1, <2>2, <2>3
  <1>3. r \in [1..(Len(q) + 1) -> Watchers]
    BY <1>2 DEF InsertAfter
  <1>4. Len(q) + 1 \in Nat
    BY <1>1
  <1>5. r \in Seq(Watchers) /\ Len(r) = Len(q) + 1
    BY <1>3, <1>4
  <1>6. \A j \in 1..Len(q) : j <= i => r[j] = q[j]
    BY <1>1 DEF InsertAfter
  <1>7. r[i + 1] = w
    BY <1>1 DEF InsertAfter
  <1>8. \A j \in 1..Len(q) : j > i => r[j + 1] = q[j]
    <2> TAKE j \in 1..Len(q)
    <2> HAVE j > i
    <2>1. j + 1 \in 1..(Len(q) + 1) /\ ~(j + 1 <= i) /\ j + 1 # i + 1 /\ (j + 1) - 1 = j
      BY <1>1
    <2> QED BY <2>1 DEF InsertAfter
  <1> QED BY <1>5, <1>6, <1>7, <1>8

\* Every entry of the longer queue is w or an old entry, at its old place or the next.
LEMMA InsertedOrigin ==
  ASSUME NEW q \in Seq(Watchers), NEW i \in 0..Len(q), NEW w \in Watchers,
         NEW j \in 1..(Len(q) + 1)
  PROVE  \/ j <= i /\ j \in 1..Len(q) /\ InsertAfter(q, i, w)[j] = q[j]
         \/ j = i + 1 /\ InsertAfter(q, i, w)[j] = w
         \/ j > i + 1 /\ j - 1 \in 1..Len(q) /\ InsertAfter(q, i, w)[j] = q[j - 1]
  <1>1. Len(q) \in Nat /\ i \in Nat /\ i <= Len(q)
    OBVIOUS
  <1>2. CASE j <= i
    BY <1>1, <1>2 DEF InsertAfter
  <1>3. CASE j = i + 1
    BY <1>1, <1>3 DEF InsertAfter
  <1>4. CASE j > i + 1
    <2>1. j - 1 \in 1..Len(q) /\ ~(j <= i) /\ j # i + 1
      BY <1>1, <1>4
    <2> QED BY <1>4, <2>1 DEF InsertAfter
  <1> QED BY <1>1, <1>2, <1>3, <1>4

\* What is behind x ascends, and is what was there and w.
RestGrows(q, r, x, w) ==
    /\ \A j, k \in (x + 1)..Len(r) : j < k => r[j] < r[k]
    /\ \A j \in (x + 1)..Len(r) : r[j] = w \/ \E k \in (x + 1)..Len(q) : r[j] = q[k]
    /\ \A k \in (x + 1)..Len(q) : \E j \in (x + 1)..Len(r) : r[j] = q[k]
    /\ \E j \in (x + 1)..Len(r) : r[j] = w

LEMMA InsertionKeepsRest ==
  ASSUME NEW q \in Seq(Watchers), NEW x \in 0..Len(q), NEW i \in x..Len(q), NEW w \in Watchers,
         i = x \/ q[i] <= w,
         \A j \in (i + 1)..Len(q) : q[j] > w,
         \A j \in (x + 1)..Len(q) : q[j] # w,
         \A j, k \in (x + 1)..Len(q) : j < k => q[j] < q[k],
         NEW r, r = InsertAfter(q, i, w)
  PROVE  RestGrows(q, r, x, w)
  <1>0. Len(q) \in Nat /\ x \in Nat /\ i \in Nat /\ x <= i /\ i <= Len(q) /\ i \in 0..Len(q)
    OBVIOUS
  <1>1. Len(r) = Len(q) + 1
    BY <1>0, Inserted
  <1>2. w \in Int /\ \A j \in 1..Len(q) : q[j] \in Int
    <2>1. \A j \in 1..Len(q) : q[j] \in Watchers
      OBVIOUS
    <2> QED BY <2>1, IdsAreNumbers
  <1>3. \A j \in (x + 1)..i : q[j] < w
    <2> TAKE j \in (x + 1)..i
    <2>1. j \in (x + 1)..Len(q) /\ i \in (x + 1)..Len(q) /\ i # x
      BY <1>0
    <2>2. q[i] <= w /\ q[i] # w /\ q[j] \in Int /\ q[i] \in Int
      BY <2>1, <1>0, <1>2
    <2>3. CASE j = i
      BY <2>2, <2>3, <1>2
    <2>4. CASE j < i
      <3>1. q[j] < q[i]
        BY <2>1, <2>4
      <3> QED BY <3>1, <2>2, <1>2
    <2> QED BY <2>3, <2>4, <1>0
  <1>4. ASSUME NEW j \in (x + 1)..Len(r), NEW k \in (x + 1)..Len(r), j < k
        PROVE  r[j] < r[k]
    <2>1. j \in 1..(Len(q) + 1) /\ k \in 1..(Len(q) + 1)
      BY <1>0, <1>1
    <2>2. \/ j <= i /\ j \in 1..Len(q) /\ r[j] = q[j]
          \/ j = i + 1 /\ r[j] = w
          \/ j > i + 1 /\ j - 1 \in 1..Len(q) /\ r[j] = q[j - 1]
      BY <2>1, <1>0, InsertedOrigin
    <2>3. \/ k <= i /\ k \in 1..Len(q) /\ r[k] = q[k]
          \/ k = i + 1 /\ r[k] = w
          \/ k > i + 1 /\ k - 1 \in 1..Len(q) /\ r[k] = q[k - 1]
      BY <2>1, <1>0, InsertedOrigin
    <2>4. CASE k <= i
      <3>1. r[k] = q[k] /\ r[j] = q[j] /\ j \in (x + 1)..Len(q) /\ k \in (x + 1)..Len(q)
        BY <2>2, <2>3, <2>4, <1>0, <1>4
      <3> QED BY <3>1, <1>4
    <2>5. CASE k = i + 1
      <3>1. r[k] = w /\ r[j] = q[j] /\ j \in (x + 1)..i
        BY <2>2, <2>3, <2>5, <1>0, <1>4
      <3> QED BY <3>1, <1>3
    <2>6. CASE k > i + 1
      <3>1. r[k] = q[k - 1] /\ k - 1 \in (i + 1)..Len(q)
        BY <2>3, <2>6, <1>0, <2>1
      <3>2. CASE j = i + 1
        <4>1. r[j] = w
          BY <2>2, <3>2, <1>0
        <4> QED BY <4>1, <3>1, <1>2, <1>0
      <3>3. CASE j <= i
        <4>1. r[j] = q[j] /\ j \in (x + 1)..i
          BY <2>2, <3>3, <1>0, <1>4
        <4>2. q[j] < w /\ q[k - 1] > w /\ q[j] \in Int /\ q[k - 1] \in Int
          BY <4>1, <3>1, <1>3, <1>2, <1>0
        <4> QED BY <4>1, <4>2, <3>1, <1>2
      <3>4. CASE j > i + 1
        <4>1. r[j] = q[j - 1] /\ j - 1 \in (x + 1)..Len(q) /\ k - 1 \in (x + 1)..Len(q) /\ j - 1 < k - 1
          BY <2>2, <3>4, <3>1, <1>0, <1>4, <2>1
        <4> QED BY <4>1, <3>1
      <3> QED BY <3>2, <3>3, <3>4, <2>1, <1>0
    <2> QED BY <2>4, <2>5, <2>6, <2>1, <1>0
  <1>5. ASSUME NEW j \in (x + 1)..Len(r)
        PROVE  r[j] = w \/ \E k \in (x + 1)..Len(q) : r[j] = q[k]
    <2>1. j \in 1..(Len(q) + 1)
      BY <1>0, <1>1
    <2>2. \/ j <= i /\ j \in 1..Len(q) /\ r[j] = q[j]
          \/ j = i + 1 /\ r[j] = w
          \/ j > i + 1 /\ j - 1 \in 1..Len(q) /\ r[j] = q[j - 1]
      BY <2>1, <1>0, InsertedOrigin
    <2>3. CASE j <= i
      <3>1. j \in (x + 1)..Len(q) /\ r[j] = q[j]
        BY <2>2, <2>3, <1>0
      <3> QED BY <3>1
    <2>4. CASE j = i + 1
      BY <2>2, <2>4, <1>0
    <2>5. CASE j > i + 1
      <3>1. j - 1 \in (x + 1)..Len(q) /\ r[j] = q[j - 1]
        BY <2>2, <2>5, <1>0
      <3> QED BY <3>1
    <2> QED BY <2>3, <2>4, <2>5, <2>1, <1>0
  <1>6. ASSUME NEW k \in (x + 1)..Len(q)
        PROVE  \E j \in (x + 1)..Len(r) : r[j] = q[k]
    <2>1. k \in 1..Len(q)
      BY <1>0
    <2>2. CASE k <= i
      <3>1. r[k] = q[k]
        BY <2>1, <2>2, <1>0, Inserted
      <3>2. k \in (x + 1)..Len(r)
        BY <1>0, <1>1
      <3> QED BY <3>1, <3>2
    <2>3. CASE k > i
      <3>1. r[k + 1] = q[k] /\ k + 1 \in (x + 1)..Len(r)
        BY <2>1, <2>3, <1>0, <1>1, Inserted
      <3> QED BY <3>1
    <2> QED BY <2>2, <2>3, <1>0
  <1>7. \E j \in (x + 1)..Len(r) : r[j] = w
    <2>1. r[i + 1] = w /\ i + 1 \in (x + 1)..Len(r)
      BY <1>0, <1>1, Inserted
    <2> QED BY <2>1
  <1> QED BY <1>4, <1>5, <1>6, <1>7 DEF RestGrows

-----------------------------------------------------------------------------
LEMMA StartsInvariant == Init => Inv
  <1> SUFFICES ASSUME Init PROVE Inv
    OBVIOUS
  <1>1. Len(queue) = 0 /\ Len(callbacks) = 0 /\ DOMAIN callbacks = {} /\ DOMAIN copies = {}
        /\ index = 0 /\ (index + 1)..Len(queue) = {}
    BY DEF Init
  <1>2. SchedulerTypeOK
    <2>1. queue \in Seq(Watchers) /\ callbacks \in Seq({Flush, PageTick})
          /\ copies \in Seq({Flush, PageTick}) /\ updatedQueue \in Seq(Watchers)
      BY DEF Init
    <2>2. circular \in [Watchers -> Nat] /\ index \in 0..Len(queue) /\ has \subseteq Watchers
      BY <1>1 DEF Init
    <2> QED BY <2>1, <2>2 DEF Init, SchedulerTypeOK, Phases
  <1>3. HasIsTheRest
    BY <1>1 DEF Init, HasIsTheRest
  <1>4. RestAscends /\ LoopShape
    BY <1>1 DEF Init, RestAscends, LoopShape
  <1>5. FlushState
    BY <1>1 DEF Init, FlushState, Asked, Once
  <1> QED BY <1>2, <1>3, <1>4, <1>5 DEF Inv

\* nextTick called by a page, and by queueWatcher for the flush.
LEMMA TickTypes ==
  ASSUME SchedulerTypeOK, NEW cb \in {Flush, PageTick}, NextTick(cb)
  PROVE  /\ callbacks' = Append(callbacks, cb) /\ callbacks' \in Seq({Flush, PageTick})
         /\ pending' \in BOOLEAN /\ timer' \in {"none", "micro", "macro"}
         /\ useMacroTask' \in BOOLEAN /\ copies' = copies
  BY AppendPageTick DEF SchedulerTypeOK, NextTick

LEMMA CallNextTickKeeps ==
  ASSUME Inv, CallNextTick
  PROVE  Inv'
  <1> USE DEF Inv
  <1>1. NextTick(PageTick) /\ UNCHANGED <<queue, has, circular, waiting, flushing, index>>
        /\ UNCHANGED <<updatedQueue, phase>>
    BY DEF CallNextTick, schedulerVars
  <1>2. /\ callbacks' = Append(callbacks, PageTick) /\ callbacks' \in Seq({Flush, PageTick})
        /\ pending' \in BOOLEAN /\ timer' \in {"none", "micro", "macro"}
        /\ useMacroTask' \in BOOLEAN /\ copies' = copies
    BY <1>1, TickTypes
  <1>3. SchedulerTypeOK'
    BY <1>1, <1>2 DEF SchedulerTypeOK
  <1>4. (Asked(callbacks') <=> Asked(callbacks)) /\ (Once(callbacks) => Once(callbacks'))
    BY <1>2, AppendPageTick DEF SchedulerTypeOK
  <1>5. Asked(callbacks)' = Asked(callbacks') /\ Once(callbacks)' = Once(callbacks')
        /\ Asked(copies)' = Asked(copies) /\ Once(copies)' = Once(copies)
    BY <1>2 DEF Asked, Once
  <1>6. FlushState'
    BY <1>1, <1>4, <1>5 DEF FlushState
  <1>7. HasIsTheRest' /\ RestAscends' /\ LoopShape'
    BY <1>1, <1>2 DEF HasIsTheRest, RestAscends, LoopShape, PageCode
  <1> QED BY <1>3, <1>6, <1>7

\* Steps that touch neither the queue nor the callbacks.
LEMMA PhaseStepKeeps ==
  ASSUME Inv, UNCHANGED <<queue, has, circular, waiting, flushing, index>>,
         UNCHANGED <<callbacks, copies>>,
         pending' \in BOOLEAN, timer' \in {"none", "micro", "macro"}, useMacroTask' \in BOOLEAN,
         updatedQueue' \in Seq(Watchers), phase' \in Phases,
         phase' \in {"loop", "run"} => phase \in {"loop", "run"} /\ phase' = "loop",
         phase' \in {"idle", "handler", "then"} => copies = <<>>
  PROVE  Inv'
  <1> USE DEF Inv
  <1>1. SchedulerTypeOK'
    BY DEF SchedulerTypeOK
  <1>2. FlushState'
    BY DEF FlushState, Asked, Once
  <1>3. HasIsTheRest' /\ RestAscends' /\ LoopShape'
    BY DEF HasIsTheRest, RestAscends, LoopShape
  <1> QED BY <1>1, <1>2, <1>3

\* queueWatcher, before and during a flush.
LEMMA NotifyKeeps ==
  ASSUME Inv, NEW w \in Watchers, Notify(w)
  PROVE  Inv'
  <1> USE DEF Inv
  <1>0. UNCHANGED <<updatedQueue, phase>> /\ QueueWatcher(w) /\ phase \in PageCode
    BY DEF Notify
  <1>1. CASE w \in has
    <2>1. UNCHANGED <<queue, has, circular, waiting, flushing, index>>
          /\ UNCHANGED <<callbacks, pending, timer, useMacroTask, copies>>
      BY <1>0, <1>1 DEF QueueWatcher, schedulerVars, tickVars
    <2>2. SchedulerTypeOK'
      BY <1>0, <2>1 DEF SchedulerTypeOK
    <2>3. FlushState'
      BY <2>1 DEF FlushState, Asked, Once
    <2>4. HasIsTheRest' /\ RestAscends' /\ LoopShape'
      BY <1>0, <2>1 DEF HasIsTheRest, RestAscends, LoopShape
    <2> QED BY <2>2, <2>3, <2>4
  <1>2. CASE w \notin has
    <2>1. /\ has' = has \cup {w} /\ waiting' = TRUE
          /\ UNCHANGED <<circular, flushing, index>>
      BY <1>0, <1>2 DEF QueueWatcher
    <2>2. IF waiting THEN UNCHANGED <<callbacks, pending, timer, useMacroTask, copies>>
                     ELSE NextTick(Flush)
      BY <1>0, <1>2 DEF QueueWatcher, tickVars
    <2>3. IF flushing
          THEN \E i \in index..Len(queue) : StopsAt(i, w) /\ queue' = InsertAfter(queue, i, w)
          ELSE queue' = Append(queue, w)
      BY <1>0, <1>2 DEF QueueWatcher
    <2>4. /\ queue \in Seq(Watchers) /\ Len(queue) \in Nat /\ index \in 0..Len(queue)
          /\ has = { queue[i] : i \in (index + 1)..Len(queue) }
          /\ \A j \in (index + 1)..Len(queue) : queue[j] # w
      BY <1>2 DEF SchedulerTypeOK, HasIsTheRest
    <2>5. /\ queue' \in Seq(Watchers) /\ index \in 0..Len(queue')
          /\ has' = { queue'[i] : i \in (index + 1)..Len(queue') }
          /\ \A i, j \in (index + 1)..Len(queue') : queue'[i] = queue'[j] => i = j
          /\ flushing => \A i, j \in (index + 1)..Len(queue') : i < j => queue'[i] < queue'[j]
          /\ \A j \in 1..index : queue'[j] = queue[j]
      <3>1. CASE flushing
        <4>1. PICK i \in index..Len(queue) : StopsAt(i, w) /\ queue' = InsertAfter(queue, i, w)
          BY <2>3, <3>1
        <4>2. /\ i = index \/ queue[i] <= w
              /\ \A j \in (i + 1)..Len(queue) : queue[j] > w
              /\ \A j, k \in (index + 1)..Len(queue) : j < k => queue[j] < queue[k]
          BY <4>1, <3>1 DEF StopsAt, RestAscends
        <4>3. RestGrows(queue, queue', index, w)
          <5>1. queue \in Seq(Watchers) /\ index \in 0..Len(queue) /\ i \in index..Len(queue)
            BY <2>4
          <5>2. \A j \in (index + 1)..Len(queue) : queue[j] # w
            BY <2>4
          <5>3. i = index \/ queue[i] <= w
            BY <4>2
          <5>4. \A j \in (i + 1)..Len(queue) : queue[j] > w
            BY <4>2
          <5>5. \A j, k \in (index + 1)..Len(queue) : j < k => queue[j] < queue[k]
            BY <4>2
          <5>6. queue' = InsertAfter(queue, i, w)
            BY <4>1
          <5> QED BY <5>1, <5>2, <5>3, <5>4, <5>5, <5>6, InsertionKeepsRest
        <4>4. i \in 0..Len(queue)
          BY <4>1, <2>4
        <4>5. /\ queue' \in Seq(Watchers) /\ Len(queue') = Len(queue) + 1
              /\ \A j \in 1..Len(queue) : j <= i => queue'[j] = queue[j]
          BY <4>1, <4>4, <2>4, Inserted
        <4>6. \A j \in 1..index : j \in 1..Len(queue) /\ j <= i
          BY <4>1, <2>4
        <4>7. \A j \in (index + 1)..Len(queue') : queue'[j] \in Int
          <5>1. \A j \in 1..Len(queue') : queue'[j] \in Watchers
            BY <4>5
          <5>2. \A j \in (index + 1)..Len(queue') : j \in 1..Len(queue')
            BY <2>4, <4>5
          <5> QED BY <5>1, <5>2, IdsAreNumbers
        <4>8. \A j, k \in (index + 1)..Len(queue') : queue'[j] = queue'[k] => j = k
          <5>1. \A j, k \in (index + 1)..Len(queue') : j < k => queue'[j] # queue'[k]
            BY <4>3, <4>7 DEF RestGrows
          <5>2. \A j, k \in (index + 1)..Len(queue') : j < k \/ k < j \/ j = k
            BY <2>4, <4>5
          <5> QED BY <5>1, <5>2
        <4>9. index \in 0..Len(queue')
          BY <2>4, <4>5
        <4>10. has' = { queue'[j] : j \in (index + 1)..Len(queue') }
          <5>1. \A j \in (index + 1)..Len(queue') : queue'[j] \in has'
            BY <4>3, <2>1, <2>4 DEF RestGrows
          <5>2. ASSUME NEW v \in has' PROVE \E j \in (index + 1)..Len(queue') : queue'[j] = v
            <6>1. CASE v = w
              BY <6>1, <4>3 DEF RestGrows
            <6>2. CASE v \in has
              <7>1. PICK k \in (index + 1)..Len(queue) : queue[k] = v
                BY <6>2, <2>4
              <7> QED BY <7>1, <4>3 DEF RestGrows
            <6> QED BY <6>1, <6>2, <2>1
          <5> QED BY <5>1, <5>2
        <4> QED BY <4>3, <4>5, <4>6, <4>8, <4>9, <4>10 DEF RestGrows
      <3>2. CASE ~flushing
        <4>1. queue' = Append(queue, w) /\ index = 0
          BY <2>3, <3>2 DEF LoopShape
        <4>2. /\ queue' \in Seq(Watchers) /\ Len(queue') = Len(queue) + 1
              /\ \A j \in 1..Len(queue) : queue'[j] = queue[j]
              /\ queue'[Len(queue) + 1] = w
          BY <4>1, <2>4
        <4>3. has' = { queue'[i] : i \in (index + 1)..Len(queue') }
          <5>1. \A i \in 1..Len(queue') : queue'[i] \in has'
            BY <4>1, <4>2, <2>1, <2>4
          <5>2. ASSUME NEW v \in has' PROVE \E i \in 1..Len(queue') : queue'[i] = v
            <6>1. CASE v = w
              BY <6>1, <4>2, <2>4
            <6>2. CASE v \in has
              <7>1. PICK i \in 1..Len(queue) : queue[i] = v
                BY <6>2, <2>4, <4>1
              <7> QED BY <7>1, <4>2, <2>4
            <6> QED BY <6>1, <6>2, <2>1
          <5> QED BY <5>1, <5>2, <4>1
        <4>4. \A i, j \in (index + 1)..Len(queue') : queue'[i] = queue'[j] => i = j
          <5>1. \A i, j \in 1..Len(queue) : queue[i] = queue[j] => i = j
            BY <4>1 DEF HasIsTheRest
          <5>2. \A i \in 1..Len(queue') : i \in 1..Len(queue) \/ i = Len(queue) + 1
            BY <4>2, <2>4
          <5>3. \A i \in 1..Len(queue) : queue'[i] # w
            BY <4>2, <2>4, <4>1
          <5> QED BY <5>1, <5>2, <5>3, <4>1, <4>2
        <4> QED BY <4>1, <4>2, <4>3, <4>4, <3>2, <2>4
      <3> QED BY <3>1, <3>2
    <2>6. /\ callbacks' \in Seq({Flush, PageTick}) /\ copies' = copies
          /\ pending' \in BOOLEAN /\ timer' \in {"none", "micro", "macro"}
          /\ useMacroTask' \in BOOLEAN
          /\ waiting => callbacks' = callbacks
          /\ ~waiting => callbacks' = Append(callbacks, Flush)
      BY <2>2, TickTypes DEF SchedulerTypeOK
    <2>7. SchedulerTypeOK'
      BY <1>0, <2>1, <2>4, <2>5, <2>6 DEF SchedulerTypeOK
    <2>8. FlushState'
      <3>1. CASE waiting
        BY <3>1, <2>1, <2>6 DEF FlushState, Asked, Once
      <3>2. CASE ~waiting
        <4>1. ~flushing /\ ~Asked(callbacks) /\ ~Asked(copies) /\ Once(copies)
          BY <3>2 DEF FlushState, LoopShape
        <4>2. Asked(callbacks') /\ Once(callbacks')
          <5>1. callbacks \in Seq({Flush, PageTick}) /\ Flush \in {Flush, PageTick}
            BY DEF SchedulerTypeOK
          <5>2. Asked(Append(callbacks, Flush)) /\ Once(Append(callbacks, Flush))
            BY <5>1, <4>1, AppendPageTick
          <5> QED BY <5>2, <3>2, <2>6
        <4>3. /\ Asked(callbacks)' = Asked(callbacks') /\ Once(callbacks)' = Once(callbacks')
              /\ Asked(copies)' = Asked(copies) /\ Once(copies)' = Once(copies)
          BY <2>6 DEF Asked, Once
        <4> QED BY <4>1, <4>2, <4>3, <2>1 DEF FlushState
      <3> QED BY <3>1, <3>2
    <2>9. HasIsTheRest' /\ RestAscends'
      BY <2>1, <2>5 DEF HasIsTheRest, RestAscends
    <2>10. LoopShape'
      <3>1. phase = "run" => index \in 1..index /\ index \in 1..Len(queue') /\ queue'[index] = queue[index]
        BY <2>4, <2>5 DEF LoopShape
      <3> QED BY <1>0, <2>1, <2>6, <3>1 DEF LoopShape
    <2> QED BY <2>7, <2>8, <2>9, <2>10
  <1> QED BY <1>1, <1>2

\* flushCallbacks takes the callbacks.
LEMMA FlushCallbacksKeeps ==
  ASSUME Inv, FlushCallbacks
  PROVE  Inv'
  <1> USE DEF Inv
  <1>1. /\ phase' = "ticks" /\ copies' = callbacks /\ callbacks' = <<>> /\ pending' = FALSE
        /\ timer' = "none" /\ UNCHANGED <<queue, has, circular, waiting, flushing, index>>
        /\ UNCHANGED <<useMacroTask, updatedQueue>> /\ phase = "idle"
    BY DEF FlushCallbacks, schedulerVars
  <1>2. SchedulerTypeOK'
    <2>1. callbacks' \in Seq({Flush, PageTick}) /\ copies' \in Seq({Flush, PageTick})
      BY <1>1 DEF SchedulerTypeOK
    <2> QED BY <1>1, <2>1 DEF SchedulerTypeOK, Phases
  <1>3. CASE copies = <<>>
    <2>1. ~Asked(copies) /\ ~Asked(callbacks') /\ Once(callbacks')
      BY <1>1, <1>3 DEF Asked, Once
    <2>2. /\ Asked(callbacks)' = Asked(callbacks') /\ Once(callbacks)' = Once(callbacks')
          /\ Asked(copies)' = Asked(callbacks) /\ Once(copies)' = Once(callbacks)
      BY <1>1 DEF Asked, Once
    <2>3. FlushState'
      BY <1>1, <2>1, <2>2 DEF FlushState
    <2>4. HasIsTheRest' /\ RestAscends' /\ LoopShape'
      BY <1>1 DEF HasIsTheRest, RestAscends, LoopShape
    <2> QED BY <1>2, <2>3, <2>4
  <1>4. copies = <<>>
    BY <1>1 DEF LoopShape
  <1> QED BY <1>3, <1>4

\* The flush is taken from the copies, and the queue is sorted.
LEMMA BeginFlushKeeps ==
  ASSUME Inv, BeginFlush
  PROVE  Inv'
  <1> USE DEF Inv
  <1>1. /\ phase = "ticks" /\ copies # <<>> /\ Head(copies) = Flush /\ copies' = Tail(copies)
        /\ flushing' = TRUE /\ index' = 0 /\ phase' = "loop"
        /\ UNCHANGED <<has, circular, waiting, callbacks, pending, timer, useMacroTask, updatedQueue>>
        /\ queue' \in [1..Len(queue) -> Entries(queue)]
        /\ Ascending(queue') /\ Entries(queue') = Entries(queue)
    BY DEF BeginFlush
  <1>2. /\ copies' \in Seq({Flush, PageTick}) /\ Asked(copies) /\ ~Asked(copies') /\ Once(copies')
    BY <1>1, TailOfCallbacks DEF SchedulerTypeOK, FlushState
  <1>3. ~flushing /\ waiting /\ index = 0 /\ ~Asked(callbacks) /\ Once(callbacks)
    BY <1>2 DEF FlushState, LoopShape
  <1>4. queue \in Seq(Watchers) /\ Len(queue) \in Nat /\ Entries(queue) \subseteq Watchers
    BY DEF SchedulerTypeOK, Entries
  <1>5. queue' \in Seq(Watchers) /\ Len(queue') = Len(queue) /\ DOMAIN queue' = 1..Len(queue)
    BY <1>1, <1>4
  <1>6. SchedulerTypeOK'
    BY <1>1, <1>2, <1>5 DEF SchedulerTypeOK, Phases
  <1>7. has' = { queue'[i] : i \in (index' + 1)..Len(queue') }
    <2>1. (index' + 1)..Len(queue') = 1..Len(queue') /\ (index + 1)..Len(queue) = 1..Len(queue)
      BY <1>1, <1>3
    <2>2. has = Entries(queue)
      BY <2>1 DEF HasIsTheRest, Entries
    <2>3. Entries(queue') = { queue'[i] : i \in (index' + 1)..Len(queue') }
      BY <2>1 DEF Entries
    <2> QED BY <1>1, <2>2, <2>3
  <1>8. \A i, j \in 1..Len(queue') : i < j => queue'[i] < queue'[j]
    BY <1>1, <1>5 DEF Ascending
  <1>9. \A i \in 1..Len(queue') : queue'[i] \in Int
    <2>1. \A i \in 1..Len(queue') : queue'[i] \in Watchers
      BY <1>5
    <2> QED BY <2>1, IdsAreNumbers
  <1>10. \A i, j \in 1..Len(queue') : queue'[i] = queue'[j] => i = j
    <2>1. \A i, j \in 1..Len(queue') : i < j \/ j < i \/ i = j
      BY <1>4, <1>5
    <2> QED BY <2>1, <1>8, <1>9
  <1>11. HasIsTheRest' /\ RestAscends'
    <2>1. (index' + 1)..Len(queue') = 1..Len(queue')
      BY <1>1
    <2> QED BY <2>1, <1>7, <1>8, <1>10 DEF HasIsTheRest, RestAscends
  <1>12. FlushState'
    <2>1. /\ Asked(callbacks)' = Asked(callbacks) /\ Once(callbacks)' = Once(callbacks)
          /\ Asked(copies)' = Asked(copies') /\ Once(copies)' = Once(copies')
      BY <1>1 DEF Asked, Once
    <2> QED BY <1>1, <1>2, <1>3, <2>1 DEF FlushState
  <1>13. LoopShape'
    BY <1>1, <1>3 DEF LoopShape
  <1> QED BY <1>6, <1>11, <1>12, <1>13

\* The loop takes the first of the rest, which is its smallest.
LEMMA RunWatcherTakes ==
  ASSUME Inv, NEW w \in Watchers, RunWatcher(w)
  PROVE  /\ index + 1 \in 1..Len(queue) /\ queue[index + 1] = w /\ w \in has
         /\ \A v \in has : w <= v
         /\ has' = { queue[i] : i \in (index + 2)..Len(queue) }
  <1> USE DEF Inv
  <1>1. /\ phase = "loop" /\ index < Len(queue) /\ w = queue[index + 1] /\ has' = has \ {w}
    BY DEF RunWatcher
  <1>2. queue \in Seq(Watchers) /\ Len(queue) \in Nat /\ index \in 0..Len(queue) /\ flushing
    BY <1>1 DEF SchedulerTypeOK, LoopShape
  <1>3. index + 1 \in (index + 1)..Len(queue) /\ index + 1 \in 1..Len(queue)
    BY <1>1, <1>2
  <1>4. /\ has = { queue[i] : i \in (index + 1)..Len(queue) }
        /\ \A i, j \in (index + 1)..Len(queue) : i < j => queue[i] < queue[j]
        /\ \A i, j \in (index + 1)..Len(queue) : queue[i] = queue[j] => i = j
    BY <1>2 DEF HasIsTheRest, RestAscends
  <1>5. \A i \in (index + 1)..Len(queue) : queue[i] \in Int
    <2>1. \A i \in (index + 1)..Len(queue) : i \in 1..Len(queue)
      BY <1>2
    <2>2. \A i \in 1..Len(queue) : queue[i] \in Watchers
      BY <1>2
    <2> QED BY <2>1, <2>2, IdsAreNumbers
  <1>6. ASSUME NEW i \in (index + 1)..Len(queue) PROVE w <= queue[i]
    <2>1. i = index + 1 \/ index + 1 < i
      BY <1>2
    <2> QED BY <2>1, <1>1, <1>3, <1>4, <1>5
  <1>7. \A v \in has : w <= v
    BY <1>4, <1>6
  <1>8. ASSUME NEW i \in (index + 2)..Len(queue) PROVE queue[i] \in has \ {w}
    <2>1. i \in (index + 1)..Len(queue) /\ i # index + 1
      BY <1>2
    <2> QED BY <2>1, <1>1, <1>3, <1>4
  <1>9. ASSUME NEW v \in has \ {w} PROVE \E i \in (index + 2)..Len(queue) : queue[i] = v
    <2>1. PICK i \in (index + 1)..Len(queue) : queue[i] = v
      BY <1>4
    <2>2. i # index + 1
      BY <2>1, <1>1
    <2>3. i \in (index + 2)..Len(queue)
      BY <2>2, <1>2
    <2> QED BY <2>1, <2>3
  <1>10. has' = { queue[i] : i \in (index + 2)..Len(queue) }
    BY <1>1, <1>8, <1>9
  <1> QED BY <1>1, <1>3, <1>4, <1>7, <1>10

LEMMA RunWatcherKeeps ==
  ASSUME Inv, NEW w \in Watchers, RunWatcher(w)
  PROVE  Inv'
  <1> USE DEF Inv
  <1>1. /\ index' = index + 1 /\ phase' = "run" /\ phase = "loop"
        /\ UNCHANGED <<queue, circular, waiting, flushing, updatedQueue>>
        /\ UNCHANGED <<callbacks, pending, timer, useMacroTask, copies>> /\ has' = has \ {w}
    BY DEF RunWatcher, tickVars
  <1>2. /\ index + 1 \in 1..Len(queue) /\ queue[index + 1] = w
        /\ has' = { queue[i] : i \in (index + 2)..Len(queue) }
    BY RunWatcherTakes
  <1>3. queue \in Seq(Watchers) /\ Len(queue) \in Nat /\ index \in 0..Len(queue)
    BY DEF SchedulerTypeOK
  <1>4. SchedulerTypeOK'
    BY <1>1, <1>2, <1>3 DEF SchedulerTypeOK, Phases
  <1>5. \A i \in (index' + 1)..Len(queue) : i \in (index + 1)..Len(queue)
    BY <1>1, <1>3
  <1>6. (index' + 1)..Len(queue) = (index + 2)..Len(queue)
    BY <1>1, <1>3
  <1>7. HasIsTheRest' /\ RestAscends'
    BY <1>1, <1>2, <1>5, <1>6 DEF HasIsTheRest, RestAscends
  <1>8. FlushState'
    BY <1>1 DEF FlushState, Asked, Once
  <1>9. LoopShape'
    BY <1>1, <1>2 DEF LoopShape
  <1> QED BY <1>4, <1>7, <1>8, <1>9

\* The end of a flush, also of one that is stopped.
LEMMA EndFlushKeeps ==
  ASSUME Inv, EndFlush, phase \in {"loop", "run"}, phase' = "hooks"
  PROVE  Inv'
  <1> USE DEF Inv
  <1>1. /\ queue' = <<>> /\ has' = {} /\ circular' = [v \in Watchers |-> 0] /\ waiting' = FALSE
        /\ flushing' = FALSE /\ index' = 0 /\ updatedQueue' = queue
        /\ UNCHANGED <<callbacks, pending, timer, useMacroTask, copies>>
    BY DEF EndFlush, ResetSchedulerState, tickVars
  <1>2. flushing /\ ~Asked(callbacks) /\ ~Asked(copies)
    BY DEF LoopShape, FlushState
  <1>3. Len(queue') = 0 /\ queue' \in Seq(Watchers) /\ (index' + 1)..Len(queue') = {}
    BY <1>1
  <1>4. SchedulerTypeOK'
    <2>1. circular' \in [Watchers -> Nat] /\ index' \in 0..Len(queue')
      BY <1>1, <1>3
    <2> QED BY <1>1, <1>3, <2>1 DEF SchedulerTypeOK, Phases
  <1>5. HasIsTheRest' /\ RestAscends'
    BY <1>1, <1>3 DEF HasIsTheRest, RestAscends
  <1>6. FlushState'
    BY <1>1, <1>2 DEF FlushState, Asked, Once
  <1>7. LoopShape'
    BY <1>1 DEF LoopShape
  <1> QED BY <1>4, <1>5, <1>6, <1>7

\* The watcher returns, and is counted if it stands in the queue again.
LEMMA ReturnFromRunKeeps ==
  ASSUME Inv, ReturnFromRun
  PROVE  Inv'
  <1> USE DEF Inv
  <1>1. phase = "run"
    BY DEF ReturnFromRun
  <1>2. CASE EndFlush
    <2>1. phase' = "hooks"
      BY <1>2 DEF EndFlush
    <2> QED BY <1>1, <1>2, <2>1, EndFlushKeeps
  <1>3. CASE ~EndFlush
    <2>1. /\ phase' = "loop"
          /\ UNCHANGED <<queue, has, waiting, flushing, index, updatedQueue>>
          /\ UNCHANGED <<callbacks, pending, timer, useMacroTask, copies>>
          /\ \/ circular' = circular
             \/ circular' = [circular EXCEPT ![queue[index]] = circular[queue[index]] + 1]
      BY <1>3 DEF ReturnFromRun, schedulerVars, tickVars
    <2>2. circular' \in [Watchers -> Nat]
      <3>1. queue[index] \in Watchers /\ circular \in [Watchers -> Nat]
        BY <1>1 DEF LoopShape, SchedulerTypeOK
      <3> QED BY <2>1, <3>1
    <2>3. SchedulerTypeOK'
      BY <2>1, <2>2 DEF SchedulerTypeOK, Phases
    <2>4. HasIsTheRest' /\ RestAscends' /\ LoopShape'
      BY <1>1, <2>1 DEF HasIsTheRest, RestAscends, LoopShape
    <2>5. FlushState'
      BY <2>1 DEF FlushState, Asked, Once
    <2> QED BY <2>3, <2>4, <2>5
  <1> QED BY <1>2, <1>3

LEMMA CallPageTickKeeps ==
  ASSUME Inv, CallPageTick
  PROVE  Inv'
  <1> USE DEF Inv
  <1>1. /\ copies # <<>> /\ Head(copies) = PageTick /\ copies' = Tail(copies)
        /\ phase' = "callback" /\ UNCHANGED <<queue, has, circular, waiting, flushing, index>>
        /\ UNCHANGED <<callbacks, pending, timer, useMacroTask, updatedQueue>>
    BY DEF CallPageTick, schedulerVars
  <1>2. /\ copies' \in Seq({Flush, PageTick}) /\ (Asked(copies') <=> Asked(copies))
        /\ Once(copies) => Once(copies')
    BY <1>1, TailOfCallbacks DEF SchedulerTypeOK
  <1>3. SchedulerTypeOK'
    BY <1>1, <1>2 DEF SchedulerTypeOK, Phases
  <1>4. HasIsTheRest' /\ RestAscends' /\ LoopShape'
    BY <1>1 DEF HasIsTheRest, RestAscends, LoopShape
  <1>5. /\ Asked(callbacks)' = Asked(callbacks) /\ Once(callbacks)' = Once(callbacks)
        /\ Asked(copies)' = Asked(copies') /\ Once(copies)' = Once(copies')
    BY <1>1 DEF Asked, Once
  <1>6. FlushState'
    BY <1>1, <1>2, <1>5 DEF FlushState
  <1> QED BY <1>3, <1>4, <1>6

LEMMA NextKeeps == Inv /\ [Next]_vars => Inv'
  <1> SUFFICES ASSUME Inv, [Next]_vars PROVE Inv'
    OBVIOUS
  <1>1. ASSUME UNCHANGED vars PROVE Inv'
    <2>1. /\ UNCHANGED <<queue, has, circular, waiting, flushing, index, updatedQueue, phase>>
          /\ UNCHANGED <<callbacks, pending, timer, useMacroTask, copies>>
      BY <1>1 DEF vars, schedulerVars, tickVars
    <2>2. SchedulerTypeOK' /\ HasIsTheRest' /\ RestAscends' /\ LoopShape'
      BY <2>1 DEF Inv, SchedulerTypeOK, HasIsTheRest, RestAscends, LoopShape
    <2>3. FlushState'
      BY <2>1 DEF Inv, FlushState, Asked, Once
    <2> QED BY <2>2, <2>3 DEF Inv
  <1>2. ASSUME \/ BeginHandler \/ BeginThen \/ (\E throws \in BOOLEAN : EndTurn(throws))
               \/ ReturnFromTick \/ EndTicks \/ ThrowFromRun \/ CallUpdatedHook \/ EndHooks
        PROVE  Inv'
    <2>1. /\ UNCHANGED <<queue, has, circular, waiting, flushing, index, callbacks, copies>>
          /\ pending' = pending /\ timer' = timer
      BY <1>2 DEF BeginHandler, BeginThen, EndTurn, ReturnFromTick, EndTicks, ThrowFromRun,
                  CallUpdatedHook, EndHooks, schedulerVars, tickVars
    <2>2. useMacroTask' \in BOOLEAN
      BY <1>2 DEF BeginHandler, BeginThen, EndTurn, ReturnFromTick, EndTicks, ThrowFromRun,
                  CallUpdatedHook, EndHooks, tickVars, Inv, SchedulerTypeOK
    <2>3. updatedQueue' \in Seq(Watchers)
      <3>1. updatedQueue' = updatedQueue \/ (updatedQueue # <<>> /\ updatedQueue' = Front(updatedQueue))
        BY <1>2 DEF BeginHandler, BeginThen, EndTurn, ReturnFromTick, EndTicks, ThrowFromRun,
                    CallUpdatedHook, EndHooks
      <3>2. updatedQueue \in Seq(Watchers)
        BY DEF Inv, SchedulerTypeOK
      <3>3. updatedQueue # <<>> => Front(updatedQueue) \in Seq(Watchers)
        BY <3>2 DEF Front
      <3> QED BY <3>1, <3>2, <3>3
    <2>4. /\ phase' \in Phases /\ phase' \notin {"loop", "run"}
          /\ phase' \in {"idle", "handler", "then"} => copies = <<>>
      BY <1>2 DEF BeginHandler, BeginThen, EndTurn, ReturnFromTick, EndTicks, ThrowFromRun,
                  CallUpdatedHook, EndHooks, Phases, Inv, LoopShape
    <2>5. pending' \in BOOLEAN /\ timer' \in {"none", "micro", "macro"}
      BY <2>1 DEF Inv, SchedulerTypeOK
    <2> QED BY <2>1, <2>2, <2>3, <2>4, <2>5, PhaseStepKeeps
  <1>3. ASSUME CallNextTick PROVE Inv'
    BY <1>3, CallNextTickKeeps
  <1>4. ASSUME NEW w \in Watchers, Notify(w) PROVE Inv'
    BY <1>4, NotifyKeeps
  <1>5. ASSUME NEW w \in Watchers, RunWatcher(w) PROVE Inv'
    BY <1>5, RunWatcherKeeps
  <1>6. ASSUME FlushCallbacks PROVE Inv'
    BY <1>6, FlushCallbacksKeeps
  <1>7. ASSUME CallPageTick PROVE Inv'
    BY <1>7, CallPageTickKeeps
  <1>8. ASSUME BeginFlush PROVE Inv'
    BY <1>8, BeginFlushKeeps
  <1>9. ASSUME LoopDone PROVE Inv'
    <2>1. EndFlush /\ phase = "loop" /\ phase' = "hooks"
      BY <1>9 DEF LoopDone, EndFlush
    <2> QED BY <2>1, EndFlushKeeps
  <1>10. ASSUME ReturnFromRun PROVE Inv'
    BY <1>10, ReturnFromRunKeeps
  <1> QED BY <1>1, <1>2, <1>3, <1>4, <1>5, <1>6, <1>7, <1>8, <1>9, <1>10 DEF Next

LEMMA AlwaysInv == Spec => []Inv
  BY StartsInvariant, NextKeeps, PTL DEF Spec

\* Types, for any number of watchers of the page.
THEOREM TypeCorrect == Spec => []SchedulerTypeOK
  <1>1. Inv => SchedulerTypeOK
    BY DEF Inv
  <1> QED BY <1>1, AlwaysInv, PTL

\* A watcher marked in `has` stands in the queue behind the loop, exactly once.
THEOREM MarkedMeansQueued == Spec => []HasIsTheRest
  <1>1. Inv => HasIsTheRest
    BY DEF Inv
  <1> QED BY <1>1, AlwaysInv, PTL

\* During a flush the rest of the queue ascends, whatever watchers are notified.
THEOREM RestStaysSorted == Spec => []RestAscends
  <1>1. Inv => RestAscends
    BY DEF Inv
  <1> QED BY <1>1, AlwaysInv, PTL

-----------------------------------------------------------------------------
LEMMA InitImplementsInit == Init => Promise!Init
  BY DEF Init, Promise!Init

\* Every step is a step of the flush by priority, or leaves it alone.
LEMMA StepImplementsStep ==
  ASSUME Inv, [Next]_vars
  PROVE  [Promise!Next]_<<has, IF phase = "run" THEN queue[index] ELSE 0>>
  <1> DEFINE running == IF phase = "run" THEN queue[index] ELSE 0
  <1>1. ASSUME UNCHANGED vars PROVE UNCHANGED <<has, running>>
    BY <1>1 DEF vars, schedulerVars
  <1>2. ASSUME \/ BeginHandler \/ BeginThen \/ (\E throws \in BOOLEAN : EndTurn(throws))
               \/ ReturnFromTick \/ EndTicks \/ CallUpdatedHook \/ EndHooks
               \/ FlushCallbacks \/ CallPageTick
        PROVE  UNCHANGED <<has, running>>
    BY <1>2 DEF BeginHandler, BeginThen, EndTurn, ReturnFromTick, EndTicks, CallUpdatedHook,
                EndHooks, FlushCallbacks, CallPageTick, schedulerVars
  <1>3. ASSUME CallNextTick PROVE UNCHANGED <<has, running>>
    BY <1>3 DEF CallNextTick, schedulerVars
  <1>4. ASSUME BeginFlush PROVE UNCHANGED <<has, running>>
    BY <1>4 DEF BeginFlush
  <1>5. ASSUME NEW w \in Watchers, Notify(w)
        PROVE  Promise!Notify(w)
    <2>1. UNCHANGED phase
      BY <1>5 DEF Notify
    <2>2. has' = has \cup {w}
      BY <1>5 DEF Notify, QueueWatcher, schedulerVars
    <2>3. running' = running
      <3>1. CASE phase = "run"
        <4>1. flushing /\ index \in 1..Len(queue) /\ queue \in Seq(Watchers) /\ Len(queue) \in Nat
          BY <3>1 DEF Inv, LoopShape, SchedulerTypeOK
        <4>2. \/ queue' = queue /\ index' = index
              \/ index' = index /\ \E i \in index..Len(queue) : queue' = InsertAfter(queue, i, w)
          BY <1>5, <4>1 DEF Notify, QueueWatcher, schedulerVars
        <4>3. index' = index /\ queue'[index] = queue[index]
          <5>1. CASE queue' = queue
            BY <5>1, <4>2
          <5>2. ASSUME NEW i \in index..Len(queue), queue' = InsertAfter(queue, i, w)
                PROVE  queue'[index] = queue[index]
            <6>1. i \in 0..Len(queue) /\ index <= i /\ index \in 1..Len(queue)
              BY <4>1
            <6> QED BY <6>1, <5>2, <4>1, Inserted
          <5> QED BY <5>1, <5>2, <4>2
        <4> QED BY <4>3, <2>1, <3>1
      <3>2. CASE phase # "run"
        BY <3>2, <2>1
      <3> QED BY <3>1, <3>2
    <2> QED BY <2>2, <2>3 DEF Promise!Notify
  <1>6. ASSUME NEW w \in Watchers, RunWatcher(w)
        PROVE  Promise!Run(w)
    <2>1. /\ queue[index + 1] = w /\ w \in has /\ \A v \in has : w <= v
      BY <1>6, RunWatcherTakes
    <2>2. /\ phase = "loop" /\ phase' = "run" /\ has' = has \ {w}
          /\ queue' = queue /\ index' = index + 1
      BY <1>6 DEF RunWatcher
    <2> QED BY <2>1, <2>2 DEF Promise!Run
  <1>7. ASSUME phase = "run" PROVE running # 0
    BY <1>7, IdsAreNumbers DEF Inv, LoopShape
  <1>8. ASSUME ThrowFromRun PROVE Promise!Finish
    BY <1>7, <1>8 DEF ThrowFromRun, Promise!Finish, schedulerVars
  <1>9. ASSUME LoopDone PROVE UNCHANGED <<has, running>>
    <2>1. phase = "loop" /\ index = Len(queue) /\ has' = {} /\ phase' = "hooks"
      BY <1>9 DEF LoopDone, EndFlush, ResetSchedulerState
    <2>2. (index + 1)..Len(queue) = {}
      BY <2>1 DEF Inv, SchedulerTypeOK
    <2>3. has = {}
      BY <2>2 DEF Inv, HasIsTheRest
    <2> QED BY <2>1, <2>3
  <1>10. ASSUME ReturnFromRun PROVE Promise!Finish \/ Promise!GiveUp
    <2>1. phase = "run" /\ phase' # "run" /\ (has' = has \/ has' = {})
      BY <1>10 DEF ReturnFromRun, EndFlush, ResetSchedulerState, schedulerVars
    <2> QED BY <2>1, <1>7 DEF Promise!Finish, Promise!GiveUp
  <1> QED BY <1>1, <1>2, <1>3, <1>4, <1>5, <1>6, <1>8, <1>9, <1>10 DEF Next, Promise!Next

\* The queue implements the flush by priority: a notified watcher waits once, the
\* smallest id goes first, for any number of watchers and any page.
THEOREM ImplementsPromise == Spec => ImplementsPriorityFlush
  <1>1. Inv /\ [Next]_vars
          => [Promise!Next]_<<has, IF phase = "run" THEN queue[index] ELSE 0>>
    BY StepImplementsStep
  <1> QED BY <1>1, InitImplementsInit, AlwaysInv, PTL
          DEF Spec, ImplementsPriorityFlush, Promise!Spec

-----------------------------------------------------------------------------
(* The page of VueReactivity takes only steps of the scheduler.            *)
LEMMA PageStepIsStep == [PageNext]_allVars => [Next]_vars
  <1> SUFFICES ASSUME [PageNext]_allVars PROVE [Next]_vars
    OBVIOUS
  <1>1. CASE UNCHANGED allVars
    BY <1>1 DEF allVars
  <1>2. ASSUME NEW R, PageStep(R) PROVE UNCHANGED vars
    BY <1>2 DEF PageStep
  <1>3. ASSUME NEW d, NEW v, WriteData(d, v) PROVE UNCHANGED vars
    BY <1>2, <1>3 DEF WriteData
  <1>4. ASSUME NEW a, Push(a) PROVE UNCHANGED vars
    BY <1>2, <1>4 DEF Push
  <1>5. ASSUME NEW n, ReadTotal(n) PROVE UNCHANGED vars
    BY <1>2, <1>5 DEF ReadTotal
  <1>6. ASSUME Unwatch PROVE UNCHANGED vars
    BY <1>2, <1>6 DEF Unwatch
  <1>7. ASSUME GiveTick PROVE Next
    BY <1>7 DEF GiveTick, Next
  <1>8. ASSUME NEW w \in Watchers, QueueNotified(w) PROVE Next
    BY <1>8 DEF QueueNotified, Next
  <1>9. ASSUME NEW w \in Watchers, Run(w) PROVE Next
    BY <1>9 DEF Run, Next
  <1>10. ASSUME Return \/ Throw \/ UpdatedHook \/ CallWantedTick PROVE Next
    BY <1>10 DEF Return, Throw, UpdatedHook, CallWantedTick, Next
  <1>11. ASSUME OtherStep PROVE Next
    BY <1>11 DEF OtherStep, Next
  <1> QED BY <1>1, <1>3, <1>4, <1>5, <1>6, <1>7, <1>8, <1>9, <1>10, <1>11 DEF PageNext

LEMMA PageIsScheduled == PageSpec => Spec
  <1>1. PageInit => Init
    BY DEF PageInit
  <1> QED BY <1>1, PageStepIsStep, PTL DEF PageSpec, Spec

\* The flag `flushing` without the loop is what an exception leaves, and only that.
ThrownInv == thrown <=> flushing /\ ~InLoop

LEMMA PageStepKeepsThrown ==
  ASSUME Inv, ThrownInv, [PageNext]_allVars
  PROVE  ThrownInv'
  <1>1. /\ flushing \in BOOLEAN
        /\ InLoop => flushing /\ ~thrown
        /\ flushing => ~Asked(copies)
    BY DEF Inv, LoopShape, SchedulerTypeOK, FlushState, InLoop, ThrownInv
  <1>2. CASE UNCHANGED <<phase, flushing, thrown>>
    BY <1>2 DEF ThrownInv, InLoop
  <1>3. ASSUME \/ UNCHANGED allVars
               \/ \E d \in Props, v \in {0, 1} : d[2] \in {"show", "x", "y"} /\ WriteData(d, v)
               \/ \E a \in Arrays : WriteData(Prop(Root, "list"), a) \/ Push(a)
               \/ \E n \in Instances : ReadTotal(n)
               \/ Unwatch
        PROVE  UNCHANGED <<phase, flushing, thrown>>
    <2>1. ASSUME NEW R, PageStep(R) PROVE UNCHANGED <<phase, flushing, thrown>>
      BY <2>1 DEF PageStep, vars, schedulerVars
    <2> QED BY <1>3, <2>1 DEF WriteData, Push, ReadTotal, Unwatch, allVars, auxVars, vars, schedulerVars
  <1>4. ASSUME GiveTick PROVE UNCHANGED <<phase, flushing, thrown>>
    BY <1>4 DEF GiveTick, CallNextTick, schedulerVars
  <1>5. ASSUME NEW w \in Watchers, QueueNotified(w) PROVE UNCHANGED <<phase, flushing, thrown>>
    BY <1>5 DEF QueueNotified, Notify, QueueWatcher, schedulerVars, auxVars
  <1>6. ASSUME NEW w \in Watchers, Run(w) PROVE ThrownInv'
    BY <1>1, <1>6 DEF Run, RunWatcher, ThrownInv, InLoop
  <1>7. ASSUME Return PROVE ThrownInv'
    <2>1. phase = "run" /\ thrown' = thrown
      BY <1>7 DEF Return, ReturnFromRun
    <2>2. \/ phase' = "hooks" /\ flushing' = FALSE
          \/ phase' = "loop" /\ flushing' = flushing
      BY <1>7 DEF Return, ReturnFromRun, EndFlush, ResetSchedulerState, schedulerVars
    <2> QED BY <1>1, <2>1, <2>2 DEF ThrownInv, InLoop
  <1>8. ASSUME Throw PROVE ThrownInv'
    BY <1>1, <1>8 DEF Throw, ThrowFromRun, ThrownInv, InLoop, schedulerVars
  <1>9. ASSUME UpdatedHook \/ CallWantedTick PROVE ThrownInv'
    BY <1>9 DEF UpdatedHook, CallUpdatedHook, CallWantedTick, CallPageTick, ThrownInv, InLoop,
                schedulerVars, auxVars
  <1>10. ASSUME OtherStep PROVE ThrownInv'
    <2>1. thrown' = thrown
      BY <1>10 DEF OtherStep, auxVars
    <2>2. CASE \/ BeginHandler \/ BeginThen \/ (\E throws \in BOOLEAN : EndTurn(throws))
               \/ FlushCallbacks \/ ReturnFromTick \/ EndTicks \/ EndHooks
      <3>1. flushing' = flushing /\ ~InLoop /\ ~InLoop'
        BY <2>2 DEF BeginHandler, BeginThen, EndTurn, FlushCallbacks, ReturnFromTick,
                    EndTicks, EndHooks, InLoop, schedulerVars
      <3> QED BY <2>1, <3>1 DEF ThrownInv
    <2>3. CASE BeginFlush
      <3>1. copies # <<>> /\ Head(copies) = Flush /\ phase' = "loop" /\ flushing' = TRUE
        BY <2>3 DEF BeginFlush
      <3>2. Asked(copies)
        BY <3>1, TailOfCallbacks DEF Inv, SchedulerTypeOK, FlushState
      <3> QED BY <1>1, <2>1, <3>1, <3>2 DEF ThrownInv, InLoop
    <2>4. CASE LoopDone
      BY <1>1, <2>1, <2>4 DEF LoopDone, EndFlush, ResetSchedulerState, ThrownInv, InLoop
    <2> QED BY <1>10, <2>2, <2>3, <2>4 DEF OtherStep
  <1> QED BY <1>2, <1>3, <1>4, <1>5, <1>6, <1>7, <1>8, <1>9, <1>10 DEF PageNext

\* On the page a flush that was asked for is on its way exactly once, unless a
\* patch threw: then the page counts as waiting, and no flush will ever come.
THEOREM PageFlushIsNotLost == PageSpec => []FlushOnItsWay
  <1>1. PageInit => ThrownInv
    BY DEF PageInit, Init, ThrownInv
  <1>2. Inv /\ ThrownInv /\ [PageNext]_allVars => ThrownInv'
    BY PageStepKeepsThrown
  <1>3. Inv /\ ThrownInv => FlushOnItsWay
    <2> SUFFICES ASSUME Inv, ThrownInv PROVE FlushOnItsWay
      OBVIOUS
    <2>1. waiting \in BOOLEAN /\ flushing \in BOOLEAN
      BY DEF Inv, SchedulerTypeOK
    <2>2. (InLoop => flushing) /\ (flushing => waiting)
      BY DEF Inv, LoopShape, InLoop
    <2> QED BY <2>1, <2>2 DEF Inv, FlushState, ThrownInv, FlushOnItsWay
  <1> QED BY <1>1, <1>2, <1>3, PageIsScheduled, AlwaysInv, PTL DEF PageSpec

\* On the page, too, watchers run by priority, each once per notification.
THEOREM PageFlushesByPriority == PageSpec => ImplementsPriorityFlush
  BY PageIsScheduled, ImplementsPromise, PTL

-----------------------------------------------------------------------------
VueData == {0, 1} \cup Arrays
WatcherRecord == [active : BOOLEAN, dirty : BOOLEAN, value : VueData, deps : SUBSET Deps]
PageRecord == [value : [Props -> VueData], len : [Arrays -> {0, 1}],
               subs : [Deps -> SUBSET Watchers], watcher : [Watchers -> WatcherRecord],
               inst : [Instances -> {"none", "mounted", "destroyed"}],
               dom : [Instances -> VueData \cup {Nothing}],
               notified : SUBSET Watchers, hooks : BOOLEAN]
Shape(R) == R \in PageRecord /\ R.value[Prop(Root, "list")] \in Arrays

\* Every Dep a live watcher counts among its own has it as a subscriber.
Subscribed(R) ==
    \A w \in Watchers : R.watcher[w].active =>
        \A d \in R.watcher[w].deps : w \in R.subs[d]

\* A clean computed property holds its result and the Deps it came from.
Cached(R) ==
    \A n \in Instances : LET c == R.watcher[Computed(n)] IN
        c.active /\ ~c.dirty => c.value = TotalOf(R, n) /\ c.deps = ReadsOf(R, n)

\* The root lives for ever; a mounted instance has live watchers; one child.
Living(R) ==
    /\ R.inst[Root] = "mounted"
    /\ \A n \in Instances : R.inst[n] = "mounted" =>
           R.watcher[Computed(n)].active /\ R.watcher[Render(n)].active
    /\ \A m, n \in Child(R) : m = n

Core(R) == Shape(R) /\ Subscribed(R) /\ Cached(R) /\ Living(R)

\* Children are created in order, each for two changes of `show`.
Spent(R, k) == IF R.value[Prop(Root, "show")] # 1 THEN 2 * k
               ELSE IF Child(R) = {} THEN 2 * k + 1 ELSE 2 * k - 1
Budget(R, spent) ==
    \E k \in 0..MaxChildren :
        /\ \A n \in Instances \ {Root} : R.inst[n] = "none" <=> n > k
        /\ Spent(R, k) <= spent

\* What an instance shows and depends on when no render of it is due.
RootFresh(R) ==
    LET show == R.value[Prop(Root, "show")]
        list == R.value[Prop(Root, "list")] IN
    /\ R.dom[Root] = R.len[list]
    /\ R.watcher[Render(Root)].deps =
           {Prop(Root, "show"), Prop(Root, "list"), Observer(list)}
               \cup (IF show = 1 THEN {Prop(Root, "x")} ELSE {})
    /\ (show = 1) <=> Child(R) # {}
    /\ \A n \in Child(R) : R.value[Prop(n, "p")] = PropOf(R)
ChildFresh(R, n) == R.dom[n] = TotalOf(R, n) /\ R.watcher[Render(n)].deps = ReadsOf(R, n)
RootDue(R, H) == Render(Root) \in H \cup R.notified \/ RootFresh(R)
ChildrenDue(R, H) ==
    \A n \in Child(R) : Render(n) \in H \cup R.notified \/ ChildFresh(R, n)
Fresh(R, H) == RootDue(R, H) /\ ChildrenDue(R, H)

\* No computed watcher is ever queued.
EagerOnly(S) == \A w \in S : ~IsLazy(w)

-----------------------------------------------------------------------------
LEMMA Ids ==
  /\ Root \in Instances /\ MaxChildren \in Nat /\ Instances \subseteq Nat
  /\ \A n \in Instances :
        /\ Computed(n) \in Watchers /\ User(n) \in Watchers /\ Render(n) \in Watchers
        /\ IsLazy(Computed(n)) /\ ~IsLazy(User(n)) /\ ~IsLazy(Render(n))
        /\ InstanceOf(Computed(n)) = n /\ InstanceOf(User(n)) = n /\ InstanceOf(Render(n)) = n
        /\ User(n) # Render(n) /\ Computed(n) # Render(n) /\ Computed(n) # User(n)
  <1>1. Root \in Instances /\ MaxChildren \in Nat /\ Instances \subseteq Nat
    BY PageAssumption DEF Root, Instances
  <1>2. ASSUME NEW n \in Instances
        PROVE  /\ Computed(n) \in Watchers /\ User(n) \in Watchers /\ Render(n) \in Watchers
               /\ User(n) # Render(n) /\ Computed(n) # Render(n) /\ Computed(n) # User(n)
    BY PageAssumption DEF Instances, Computed, User, Render
  <1>3. ASSUME NEW n \in Instances
        PROVE  IsLazy(Computed(n)) /\ ~IsLazy(User(n)) /\ ~IsLazy(Render(n))
    BY <1>1 DEF Computed, User, Render, IsLazy
  <1>4. ASSUME NEW n \in Instances
        PROVE  InstanceOf(Computed(n)) = n /\ InstanceOf(User(n)) = n /\ InstanceOf(Render(n)) = n
    BY <1>1 DEF Computed, User, Render, InstanceOf
  <1> QED BY <1>1, <1>2, <1>3, <1>4

\* Every watcher is one of the three of its instance.
LEMMA WatcherKinds ==
  ASSUME NEW w \in Watchers
  PROVE  /\ InstanceOf(w) \in Instances
         /\ w \in {Computed(InstanceOf(w)), User(InstanceOf(w)), Render(InstanceOf(w))}
         /\ IsLazy(w) <=> w = Computed(InstanceOf(w))
  <1>1. w \in 1..(3 * MaxChildren + 3) /\ MaxChildren \in Nat
    BY PageAssumption
  <1> QED BY <1>1 DEF Instances, InstanceOf, Computed, User, Render, IsLazy

\* Names of reactive properties.
LEMMA Names ==
  /\ \A k \in {"show", "x", "list"} : Prop(Root, k) \in Props
  /\ \A n \in Instances \ {Root} : Prop(n, "p") \in Props /\ Prop(n, "y") \in Props
  /\ Props \subseteq Deps
  /\ \A a \in Arrays : Observer(a) \in Deps /\ Observer(a) \notin Props
  /\ \A m, n, j, k : Prop(m, j) = Prop(n, k) <=> m = n /\ j = k
  /\ \A d \in Props : d = Prop(d[1], d[2]) /\ d[1] \in Instances
  <1>1. Root \in Instances
    BY Ids
  <1>2. \A m, n, j, k : Prop(m, j) = Prop(n, k) <=> m = n /\ j = k
    BY DEF Prop
  <1>3. /\ \A k \in {"show", "x", "list"} : Prop(Root, k) \in Props
        /\ \A n \in Instances \ {Root} : Prop(n, "p") \in Props /\ Prop(n, "y") \in Props
        /\ Props \subseteq Deps /\ \A a \in Arrays : Observer(a) \in Deps
    BY DEF Props, Deps
  <1>4. \A a \in Arrays : Observer(a) \notin Props
    BY DEF Props, Observer, Prop
  <1>5. \A d \in Props : d = Prop(d[1], d[2]) /\ d[1] \in Instances
    BY <1>1 DEF Props, Prop
  <1> QED BY <1>1, <1>2, <1>3, <1>4, <1>5

\* What the operators on R mean in terms of its fields.
LEMMA Getters ==
  ASSUME NEW R \in PageRecord, NEW n \in Instances
  PROVE  /\ ReadsOf(R, n) \subseteq Props
         /\ TotalOf(R, n) \in VueData
  <1>1. R.value \in [Props -> VueData]
    BY DEF PageRecord
  <1>2. CASE n = Root
    BY <1>1, <1>2, Names DEF ReadsOf, TotalOf
  <1>3. CASE n # Root
    BY <1>1, <1>3, Names DEF ReadsOf, TotalOf, VueData
  <1> QED BY <1>2, <1>3

\* Getters read data only.
LEMMA SameData ==
  ASSUME NEW R, NEW S, S.value = R.value
  PROVE  /\ \A n : ReadsOf(S, n) = ReadsOf(R, n) /\ TotalOf(S, n) = TotalOf(R, n)
         /\ PropOf(S) = PropOf(R)
         /\ S.inst = R.inst => Child(S) = Child(R) /\ Unborn(S) = Unborn(R)
  BY DEF ReadsOf, TotalOf, PropOf, Child, Unborn

LEMMA CollectFields ==
  ASSUME NEW R \in PageRecord, NEW w \in Watchers, NEW D \in SUBSET Deps
  PROVE  LET C == Collect(R, w, D) IN
         /\ C \in PageRecord
         /\ C.value = R.value /\ C.len = R.len /\ C.inst = R.inst /\ C.dom = R.dom
         /\ C.notified = R.notified /\ C.hooks = R.hooks
         /\ \A v \in Watchers \ {w} : C.watcher[v] = R.watcher[v]
         /\ C.watcher[w] = [R.watcher[w] EXCEPT !.deps = D]
         /\ \A d \in Deps : /\ C.subs[d] \ {w} = R.subs[d] \ {w}
                            /\ d \in D /\ w \in R.subs[d] => w \in C.subs[d]
                            /\ d \in D \ R.watcher[w].deps => w \in C.subs[d]
  <1> DEFINE subscribers == [d \in Deps |->
                  IF d \in D \ R.watcher[w].deps THEN R.subs[d] \cup {w}
                  ELSE IF d \in R.watcher[w].deps \ D THEN R.subs[d] \ {w} ELSE R.subs[d]]
             new == [R.watcher EXCEPT ![w].deps = D]
             C == Collect(R, w, D)
  <1>1. /\ R.watcher \in [Watchers -> WatcherRecord] /\ R.subs \in [Deps -> SUBSET Watchers]
        /\ R.watcher[w] \in WatcherRecord
    BY DEF PageRecord
  <1>2. C = [R EXCEPT !.subs = subscribers, !.watcher = new]
    BY DEF Collect, PageRecord
  <1>3. subscribers \in [Deps -> SUBSET Watchers]
    BY <1>1
  <1>4. [R.watcher[w] EXCEPT !.deps = D] \in WatcherRecord
    BY <1>1 DEF WatcherRecord
  <1>5. /\ new \in [Watchers -> WatcherRecord] /\ new[w] = [R.watcher[w] EXCEPT !.deps = D]
        /\ \A v \in Watchers \ {w} : new[v] = R.watcher[v]
    BY <1>1, <1>4
  <1>6. C \in PageRecord /\ C.subs = subscribers /\ C.watcher = new
    BY <1>2, <1>3, <1>5 DEF PageRecord
  <1>7. /\ C.value = R.value /\ C.len = R.len /\ C.inst = R.inst /\ C.dom = R.dom
        /\ C.notified = R.notified /\ C.hooks = R.hooks
    BY <1>2 DEF PageRecord
  <1>8. ASSUME NEW d \in Deps
        PROVE  /\ subscribers[d] \ {w} = R.subs[d] \ {w}
               /\ d \in D /\ w \in R.subs[d] => w \in subscribers[d]
               /\ d \in D \ R.watcher[w].deps => w \in subscribers[d]
    OBVIOUS
  <1> HIDE DEF C, subscribers, new
  <1> QED BY <1>5, <1>6, <1>7, <1>8 DEF C

LEMMA CollectKeeps ==
  ASSUME NEW R \in PageRecord, NEW w \in Watchers, NEW D \in SUBSET Deps
  PROVE  /\ Collect(R, w, D).value = R.value /\ Collect(R, w, D).len = R.len
         /\ Collect(R, w, D).inst = R.inst /\ Collect(R, w, D).dom = R.dom
         /\ Collect(R, w, D).notified = R.notified
         /\ \A v \in Watchers \ {w} : Collect(R, w, D).watcher[v] = R.watcher[v]
  <1> DEFINE C == Collect(R, w, D)
             new == [R.watcher EXCEPT ![w].deps = D]
  <1>1. R.watcher \in [Watchers -> WatcherRecord]
    BY DEF PageRecord
  <1>2. \A v \in Watchers \ {w} : new[v] = R.watcher[v]
    BY <1>1
  <1> HIDE DEF new
  <1>3. /\ C.value = R.value /\ C.len = R.len /\ C.inst = R.inst /\ C.dom = R.dom
        /\ C.notified = R.notified /\ C.watcher = new
    BY DEF Collect, PageRecord, new
  <1> HIDE DEF C
  <1> QED BY <1>2, <1>3 DEF C

LEMMA CollectSubscribed ==
  ASSUME NEW R \in PageRecord, NEW w \in Watchers, NEW D \in SUBSET Deps, Subscribed(R)
  PROVE  Subscribed(Collect(R, w, D))
  <1> DEFINE C == Collect(R, w, D)
  <1> HIDE DEF C
  <1>1. /\ \A v \in Watchers \ {w} : C.watcher[v] = R.watcher[v]
        /\ C.watcher[w] = [R.watcher[w] EXCEPT !.deps = D]
        /\ \A d \in Deps : /\ C.subs[d] \ {w} = R.subs[d] \ {w}
                           /\ d \in D /\ w \in R.subs[d] => w \in C.subs[d]
                           /\ d \in D \ R.watcher[w].deps => w \in C.subs[d]
    BY CollectFields DEF C
  <1>2. R.watcher \in [Watchers -> WatcherRecord]
    BY DEF PageRecord
  <1>3. C.watcher[w].active = R.watcher[w].active /\ C.watcher[w].deps = D
    BY <1>1, <1>2 DEF WatcherRecord
  <1>4. ASSUME NEW v \in Watchers, C.watcher[v].active, NEW d \in C.watcher[v].deps
        PROVE  v \in C.subs[d]
    <2>1. CASE v = w
      <3>1. d \in D /\ d \in Deps /\ R.watcher[w].active
        BY <2>1, <1>3, <1>4
      <3>2. CASE d \in R.watcher[w].deps
        BY <3>1, <3>2, <2>1, <1>1 DEF Subscribed
      <3>3. CASE d \notin R.watcher[w].deps
        BY <3>1, <3>3, <2>1, <1>1
      <3> QED BY <3>2, <3>3
    <2>2. CASE v # w
      <3>1. C.watcher[v] = R.watcher[v] /\ R.watcher[v] \in WatcherRecord
        BY <2>2, <1>1, <1>2
      <3>2. d \in Deps /\ v \in R.subs[d]
        BY <3>1, <1>4 DEF Subscribed, WatcherRecord
      <3> QED BY <3>2, <2>2, <1>1
    <2> QED BY <2>1, <2>2
  <1> QED BY <1>4 DEF Subscribed, C

\* A record with the same instances whose watchers are as alive as before.
LEMMA LivingCarries ==
  ASSUME NEW R, NEW S, Living(R), S.inst = R.inst,
         \A n \in Instances : /\ S.watcher[Computed(n)].active = R.watcher[Computed(n)].active
                              /\ S.watcher[Render(n)].active = R.watcher[Render(n)].active
  PROVE  Living(S)
  BY DEF Living, Child

\* A watch or render watcher is evaluated.
LEMMA CollectCore ==
  ASSUME NEW R, Core(R), NEW w \in Watchers, ~IsLazy(w), NEW D \in SUBSET Deps
  PROVE  Core(Collect(R, w, D))
  <1> DEFINE C == Collect(R, w, D)
  <1> HIDE DEF C
  <1>1. R \in PageRecord /\ Subscribed(R) /\ Cached(R) /\ Living(R)
        /\ R.value[Prop(Root, "list")] \in Arrays
    BY DEF Core, Shape
  <1>2. /\ C \in PageRecord
        /\ C.value = R.value /\ C.inst = R.inst
        /\ \A v \in Watchers \ {w} : C.watcher[v] = R.watcher[v]
        /\ C.watcher[w] = [R.watcher[w] EXCEPT !.deps = D]
    BY <1>1, CollectFields DEF C
  <1>3. Subscribed(C)
    BY <1>1, CollectSubscribed DEF C
  <1>4. R.watcher[w] \in WatcherRecord
    BY <1>1 DEF PageRecord
  <1>5. ASSUME NEW v \in Watchers PROVE C.watcher[v].active = R.watcher[v].active
    BY <1>2, <1>4 DEF WatcherRecord
  <1>6. Living(C)
    BY <1>1, <1>2, <1>5, Ids, LivingCarries
  <1>7. ASSUME NEW n \in Instances PROVE C.watcher[Computed(n)] = R.watcher[Computed(n)]
    BY <1>2, Ids
  <1>8. Cached(C)
    BY <1>1, <1>2, <1>7, SameData DEF Cached
  <1> QED BY <1>1, <1>2, <1>3, <1>6, <1>8 DEF Core, Shape, C

\* The getter of a computed property leaves it clean.
LEMMA ReadComputedCore ==
  ASSUME NEW R, Core(R), NEW n \in Instances
  PROVE  LET E == ReadComputed(R, n)  c == Computed(n) IN
         /\ Core(E)
         /\ E.value = R.value /\ E.len = R.len /\ E.inst = R.inst /\ E.dom = R.dom
         /\ E.notified = R.notified /\ E.hooks = R.hooks
         /\ \A v \in Watchers \ {c} : E.watcher[v] = R.watcher[v]
         /\ E.watcher[c].active = R.watcher[c].active
         /\ E.watcher[c].deps \in SUBSET Deps
         /\ R.watcher[c].active =>
                E.watcher[c].value = TotalOf(R, n) /\ E.watcher[c].deps = ReadsOf(R, n)
  <1> DEFINE E == ReadComputed(R, n)
             c == Computed(n)
             D == ReadsOf(R, n)
             C == Collect(R, c, D)
  <1>1. R \in PageRecord /\ Subscribed(R) /\ Cached(R) /\ Living(R)
        /\ R.value[Prop(Root, "list")] \in Arrays
    BY DEF Core, Shape
  <1>2. c \in Watchers /\ D \in SUBSET Deps /\ TotalOf(R, n) \in VueData
    BY <1>1, Ids, Names, Getters
  <1>3. R.watcher[c] \in WatcherRecord
    BY <1>1, <1>2 DEF PageRecord
  <1>4. CASE ~R.watcher[c].dirty
    <2>1. E = R
      BY <1>4 DEF ReadComputed
    <2>2. R.watcher[c].active => R.watcher[c].value = TotalOf(R, n) /\ R.watcher[c].deps = D
      BY <1>1, <1>4 DEF Cached
    <2>3. R.watcher[c].deps \in SUBSET Deps
      BY <1>3 DEF WatcherRecord
    <2> HIDE DEF E
    <2> QED BY <2>1, <2>2, <2>3 DEF E
  <1>5. CASE R.watcher[c].dirty
    <2> HIDE DEF C, D, c
    <2>1. /\ C \in PageRecord
          /\ C.value = R.value /\ C.len = R.len /\ C.inst = R.inst /\ C.dom = R.dom
          /\ C.notified = R.notified /\ C.hooks = R.hooks
          /\ \A v \in Watchers \ {c} : C.watcher[v] = R.watcher[v]
          /\ C.watcher[c] = [R.watcher[c] EXCEPT !.deps = D]
      BY <1>1, <1>2, CollectFields DEF C
    <2>2. Subscribed(C)
      BY <1>1, <1>2, CollectSubscribed DEF C
    <2>3. E = [C EXCEPT !.watcher[c].value = TotalOf(R, n), !.watcher[c].dirty = FALSE]
      BY <1>5 DEF ReadComputed, C, D, c
    <2> HIDE DEF E
    <2> DEFINE new == [C.watcher EXCEPT ![c].value = TotalOf(R, n), ![c].dirty = FALSE]
    <2>4. E = [C EXCEPT !.watcher = new]
      <3> DEFINE first == [C.watcher EXCEPT ![c].value = TotalOf(R, n)]
                 M == [C EXCEPT !.watcher = first]
      <3>1. C.watcher \in [Watchers -> WatcherRecord] /\ C \in PageRecord
        BY <2>1 DEF PageRecord
      <3>2. M.watcher = first
        BY <3>1 DEF PageRecord
      <3>3. M = [C EXCEPT !.watcher[c].value = TotalOf(R, n)]
        OBVIOUS
      <3>4. E = [M EXCEPT !.watcher[c].dirty = FALSE]
        BY <2>3, <3>3
      <3>5. new = [first EXCEPT ![c].dirty = FALSE]
        OBVIOUS
      <3> HIDE DEF first, new
      <3>6. E = [M EXCEPT !.watcher = new]
        BY <3>2, <3>4, <3>5
      <3> QED BY <3>1, <3>6 DEF PageRecord
    <2>5. C.watcher \in [Watchers -> WatcherRecord] /\ C.watcher[c] \in WatcherRecord
      BY <2>1, <1>2 DEF PageRecord
    <2>6. /\ new[c] = [C.watcher[c] EXCEPT !.value = TotalOf(R, n), !.dirty = FALSE]
          /\ \A v \in Watchers \ {c} : new[v] = C.watcher[v]
      BY <2>5, <1>2
    <2>7. /\ new[c] \in WatcherRecord /\ new[c].value = TotalOf(R, n) /\ new[c].dirty = FALSE
          /\ new[c].deps = D /\ new[c].active = R.watcher[c].active
      BY <2>6, <2>5, <2>1, <1>2, <1>3 DEF WatcherRecord
    <2>8. new \in [Watchers -> WatcherRecord]
      BY <2>5, <2>7
    <2> HIDE DEF new
    <2>9. /\ E \in PageRecord /\ E.watcher = new /\ E.value = R.value /\ E.len = R.len
          /\ E.inst = R.inst /\ E.dom = R.dom /\ E.notified = R.notified /\ E.hooks = R.hooks
          /\ E.subs = C.subs
      BY <2>1, <2>4, <2>8 DEF PageRecord
    <2>10. ASSUME NEW v \in Watchers
           PROVE  new[v].active = R.watcher[v].active /\ new[v].deps = C.watcher[v].deps
                  /\ (v # c => new[v] = R.watcher[v]) /\ new[v].active = C.watcher[v].active
      BY <2>6, <2>7, <2>1, <1>3 DEF WatcherRecord
    <2>11. Subscribed(E)
      BY <2>2, <2>9, <2>10 DEF Subscribed
    <2>12. Living(E)
      BY <1>1, <2>9, <2>10, Ids, LivingCarries
    <2>13. ASSUME NEW m \in Instances, m # n PROVE E.watcher[Computed(m)] = R.watcher[Computed(m)]
      BY <2>9, <2>10, <2>13, Ids DEF c
    <2>14. Cached(E)
      BY <1>1, <2>7, <2>9, <2>13, SameData DEF Cached, c, D
    <2>15. Core(E)
      BY <2>9, <2>11, <2>12, <2>14, <1>1 DEF Core, Shape
    <2> QED BY <2>15, <2>9, <2>10, <2>7, <1>2 DEF c, D, E
  <1> QED BY <1>4, <1>5

-----------------------------------------------------------------------------
LEMMA NotifyFields ==
  ASSUME NEW R \in PageRecord, NEW d \in Deps
  PROVE  LET S == NotifyDep(R, d) IN
         /\ S \in PageRecord
         /\ S.value = R.value /\ S.len = R.len /\ S.subs = R.subs /\ S.inst = R.inst
         /\ S.dom = R.dom /\ S.hooks = R.hooks
         /\ S.notified = R.notified \cup { w \in R.subs[d] : ~IsLazy(w) }
         /\ \A w \in Watchers :
               /\ S.watcher[w].active = R.watcher[w].active
               /\ S.watcher[w].value = R.watcher[w].value
               /\ S.watcher[w].deps = R.watcher[w].deps
               /\ w \in R.subs[d] /\ IsLazy(w) => S.watcher[w].dirty
               /\ ~(w \in R.subs[d] /\ IsLazy(w)) => S.watcher[w] = R.watcher[w]
  <1> DEFINE new == [w \in Watchers |->
                  IF w \in R.subs[d] /\ IsLazy(w) THEN [R.watcher[w] EXCEPT !.dirty = TRUE]
                  ELSE R.watcher[w]]
             more == R.notified \cup { w \in R.subs[d] : ~IsLazy(w) }
             S == NotifyDep(R, d)
  <1>1. /\ R.watcher \in [Watchers -> WatcherRecord] /\ R.subs[d] \in SUBSET Watchers
        /\ R.notified \in SUBSET Watchers
    BY DEF PageRecord
  <1>2. S = [R EXCEPT !.watcher = new, !.notified = more]
    BY DEF NotifyDep, PageRecord
  <1>3. ASSUME NEW w \in Watchers
        PROVE  /\ new[w] \in WatcherRecord
               /\ new[w].active = R.watcher[w].active
               /\ new[w].value = R.watcher[w].value
               /\ new[w].deps = R.watcher[w].deps
               /\ w \in R.subs[d] /\ IsLazy(w) => new[w].dirty
               /\ ~(w \in R.subs[d] /\ IsLazy(w)) => new[w] = R.watcher[w]
    <2>1. R.watcher[w] \in WatcherRecord
      BY <1>1
    <2> QED BY <2>1 DEF WatcherRecord
  <1>4. new \in [Watchers -> WatcherRecord] /\ more \in SUBSET Watchers
    BY <1>1, <1>3
  <1> HIDE DEF new, S
  <1>5. S \in PageRecord /\ S.watcher = new /\ S.notified = more
    BY <1>2, <1>4 DEF PageRecord
  <1>6. /\ S.value = R.value /\ S.len = R.len /\ S.subs = R.subs /\ S.inst = R.inst
        /\ S.dom = R.dom /\ S.hooks = R.hooks
    BY <1>2 DEF PageRecord
  <1> QED BY <1>3, <1>5, <1>6 DEF S

\* A getter that did not read d returns what it returned before d changed.
LEMMA ReadsAgree ==
  ASSUME NEW R, NEW T, NEW d, NEW n \in Instances,
         \A e \in Props \ {d} : T.value[e] = R.value[e],
         d \notin ReadsOf(R, n)
  PROVE  ReadsOf(T, n) = ReadsOf(R, n) /\ TotalOf(T, n) = TotalOf(R, n)
  <1>1. CASE n = Root
    BY <1>1, Names DEF ReadsOf, TotalOf
  <1>2. CASE n # Root
    <2>1. Prop(n, "p") \in Props /\ Prop(n, "y") \in Props
      BY <1>2, Names
    <2>2. d # Prop(n, "p")
      BY <1>2 DEF ReadsOf
    <2>3. T.value[Prop(n, "p")] = R.value[Prop(n, "p")]
      BY <2>1, <2>2
    <2>4. R.value[Prop(n, "p")] = 1 => T.value[Prop(n, "y")] = R.value[Prop(n, "y")]
      BY <1>2, <2>1 DEF ReadsOf
    <2> QED BY <1>2, <2>3, <2>4 DEF ReadsOf, TotalOf
  <1> QED BY <1>1, <1>2

\* One thing changes and its Dep notifies: what was clean and depended on it
\* is dirty, what was up to date and depended on it is due.
LEMMA ChangeKeeps ==
  ASSUME NEW R, Core(R), NEW T, Shape(T), NEW d \in Deps, NEW H,
         T.subs = R.subs, T.watcher = R.watcher, T.inst = R.inst, T.dom = R.dom,
         T.notified = R.notified,
         \A e \in Props \ {d} : T.value[e] = R.value[e]
  PROVE  /\ Core(NotifyDep(T, d))
         /\ ChildrenDue(R, H) => ChildrenDue(NotifyDep(T, d), H)
         /\ /\ RootDue(R, H)
            /\ \A n : d # Prop(n, "p")
            /\ \A a \in Arrays : d # Observer(a) => T.len[a] = R.len[a]
            => RootDue(NotifyDep(T, d), H)
  <1> DEFINE S == NotifyDep(T, d)
  <1> HIDE DEF S
  <1>1. R \in PageRecord /\ Subscribed(R) /\ Cached(R) /\ Living(R)
        /\ R.value[Prop(Root, "list")] \in Arrays
    BY DEF Core, Shape
  <1>2. /\ S \in PageRecord
        /\ S.value = T.value /\ S.len = T.len /\ S.subs = R.subs /\ S.inst = R.inst
        /\ S.dom = R.dom
        /\ S.notified = R.notified \cup { w \in R.subs[d] : ~IsLazy(w) }
        /\ \A w \in Watchers :
               /\ S.watcher[w].active = R.watcher[w].active
               /\ S.watcher[w].value = R.watcher[w].value
               /\ S.watcher[w].deps = R.watcher[w].deps
               /\ w \in R.subs[d] /\ IsLazy(w) => S.watcher[w].dirty
               /\ ~(w \in R.subs[d] /\ IsLazy(w)) => S.watcher[w] = R.watcher[w]
    BY NotifyFields DEF S, Shape
  <1>3. Subscribed(S)
    BY <1>1, <1>2 DEF Subscribed
  <1>4. Living(S)
    BY <1>1, <1>2, Ids, LivingCarries
  <1>5. ASSUME NEW n \in Instances, d \notin ReadsOf(R, n)
        PROVE  ReadsOf(S, n) = ReadsOf(R, n) /\ TotalOf(S, n) = TotalOf(R, n)
    BY <1>2, <1>5, ReadsAgree, SameData
  <1>6. ASSUME NEW n \in Instances, S.watcher[Computed(n)].active, ~S.watcher[Computed(n)].dirty
        PROVE  /\ S.watcher[Computed(n)].value = TotalOf(S, n)
               /\ S.watcher[Computed(n)].deps = ReadsOf(S, n)
    <2> DEFINE c == Computed(n)
    <2>1. c \in Watchers /\ IsLazy(c)
      BY Ids
    <2>2. c \notin R.subs[d] /\ S.watcher[c] = R.watcher[c]
      BY <1>2, <1>6, <2>1
    <2>3. R.watcher[c].value = TotalOf(R, n) /\ R.watcher[c].deps = ReadsOf(R, n)
      BY <2>2, <1>1, <1>6 DEF Cached
    <2>4. d \notin ReadsOf(R, n)
      BY <2>1, <2>2, <2>3, <1>1, <1>6 DEF Subscribed
    <2> QED BY <2>2, <2>3, <2>4, <1>5
  <1>7. Core(S)
    BY <1>2, <1>3, <1>4, <1>6 DEF Core, Shape, Cached
  <1>8. Child(S) = Child(R) /\ Child(R) \subseteq Instances \ {Root}
    BY <1>2 DEF Child
  \* A live render watcher that counts d among its Deps is notified.
  <1>9. ASSUME NEW n \in Instances, R.inst[n] = "mounted", d \in R.watcher[Render(n)].deps
        PROVE  Render(n) \in S.notified
    <2>1. Render(n) \in Watchers /\ ~IsLazy(Render(n)) /\ R.watcher[Render(n)].active
      BY <1>1, <1>9, Ids DEF Living
    <2>2. Render(n) \in R.subs[d]
      BY <2>1, <1>1, <1>9 DEF Subscribed
    <2> QED BY <2>1, <2>2, <1>2
  <1>10. ASSUME ChildrenDue(R, H), NEW n \in Child(S), Render(n) \notin H \cup S.notified
         PROVE  ChildFresh(S, n)
    <2>1. n \in Instances /\ n \in Child(R) /\ R.inst[n] = "mounted"
      BY <1>8 DEF Child
    <2>2. Render(n) \notin H \cup R.notified
      BY <1>2, <1>10
    <2>3. R.dom[n] = TotalOf(R, n) /\ R.watcher[Render(n)].deps = ReadsOf(R, n)
      BY <2>1, <2>2, <1>10 DEF ChildrenDue, ChildFresh
    <2>4. d \notin ReadsOf(R, n)
      BY <2>1, <2>3, <1>9, <1>10
    <2>5. S.watcher[Render(n)].deps = R.watcher[Render(n)].deps
      BY <2>1, <1>2, Ids
    <2> QED BY <2>1, <2>3, <2>4, <2>5, <1>2, <1>5 DEF ChildFresh
  <1>11. ASSUME RootDue(R, H), \A n : d # Prop(n, "p"),
                \A a \in Arrays : d # Observer(a) => T.len[a] = R.len[a],
                Render(Root) \notin H \cup S.notified
         PROVE  RootFresh(S)
    <2> DEFINE show == R.value[Prop(Root, "show")]
               list == R.value[Prop(Root, "list")]
               deps == R.watcher[Render(Root)].deps
    <2>1. Root \in Instances /\ R.inst[Root] = "mounted"
      BY <1>1, Ids DEF Living
    <2>2. RootFresh(R)
      BY <1>2, <1>11 DEF RootDue
    <2>3. d \notin deps
      BY <2>1, <1>9, <1>11
    <2>4. /\ R.dom[Root] = R.len[list]
          /\ deps = {Prop(Root, "show"), Prop(Root, "list"), Observer(list)}
                       \cup (IF show = 1 THEN {Prop(Root, "x")} ELSE {})
          /\ (show = 1) <=> Child(R) # {}
          /\ \A n \in Child(R) : R.value[Prop(n, "p")] = PropOf(R)
      BY <2>2 DEF RootFresh
    <2>5. S.value[Prop(Root, "show")] = show /\ S.value[Prop(Root, "list")] = list
      BY <2>3, <2>4, <1>2, Names
    <2>6. S.len[list] = R.len[list]
      BY <2>3, <2>4, <1>1, <1>2, <1>11
    <2>7. show = 1 => PropOf(S) = PropOf(R)
      BY <2>3, <2>4, <1>2, Names DEF PropOf
    <2>8. ASSUME NEW n \in Child(S) PROVE S.value[Prop(n, "p")] = PropOf(S)
      <3>1. n \in Child(R) /\ Prop(n, "p") \in Props
        BY <1>8, Names
      <3>2. S.value[Prop(n, "p")] = R.value[Prop(n, "p")]
        BY <3>1, <1>2, <1>11
      <3> QED BY <3>1, <3>2, <2>4, <2>7
    <2>9. S.watcher[Render(Root)].deps = deps
      BY <2>1, <1>2, Ids
    <2> QED BY <2>4, <2>5, <2>6, <2>8, <2>9, <1>2, <1>8 DEF RootFresh
  <1> QED BY <1>7, <1>10, <1>11 DEF ChildrenDue, RootDue, S

LEMMA AssignKeeps ==
  ASSUME NEW R, Core(R), NEW d \in Props, NEW v \in VueData, NEW H,
         d = Prop(Root, "list") => v \in Arrays
  PROVE  LET S == Assign(R, d, v) IN
         /\ Core(S)
         /\ S.value[d] = v /\ (\A e \in Props \ {d} : S.value[e] = R.value[e])
         /\ S.len = R.len /\ S.inst = R.inst /\ S.dom = R.dom /\ S.hooks = R.hooks
         /\ EagerOnly(R.notified) => EagerOnly(S.notified)
         /\ ChildrenDue(R, H) => ChildrenDue(S, H)
         /\ RootDue(R, H) /\ (\A n : d # Prop(n, "p")) => RootDue(S, H)
  <1> DEFINE T == [R EXCEPT !.value[d] = v]
             new == [R.value EXCEPT ![d] = v]
             S == Assign(R, d, v)
  <1>1. R \in PageRecord /\ R.value[Prop(Root, "list")] \in Arrays
    BY DEF Core, Shape
  <1>2. R.value \in [Props -> VueData]
    BY <1>1 DEF PageRecord
  <1>3. new \in [Props -> VueData] /\ new[d] = v /\ \A e \in Props \ {d} : new[e] = R.value[e]
    BY <1>2
  <1>4. T = [R EXCEPT !.value = new]
    OBVIOUS
  <1> HIDE DEF T, new, S
  <1>5. /\ T \in PageRecord /\ T.value = new
        /\ T.len = R.len /\ T.subs = R.subs /\ T.watcher = R.watcher /\ T.inst = R.inst
        /\ T.dom = R.dom /\ T.notified = R.notified /\ T.hooks = R.hooks
    BY <1>1, <1>3, <1>4 DEF PageRecord
  <1>6. Shape(T)
    <2>1. Prop(Root, "list") \in Props
      BY Names
    <2> QED BY <2>1, <1>1, <1>3, <1>5 DEF Shape
  <1>7. d \in Deps
    BY Names
  <1>8. CASE R.value[d] = v
    <2>1. S = R
      BY <1>8 DEF Assign, S
    <2> QED BY <2>1, <1>8 DEF S
  <1>9. CASE R.value[d] # v
    <2>1. S = NotifyDep(T, d)
      BY <1>9 DEF Assign, S, T
    <2>2. /\ S.value = new /\ S.len = R.len /\ S.inst = R.inst /\ S.dom = R.dom
          /\ S.hooks = R.hooks /\ S.notified = R.notified \cup { w \in R.subs[d] : ~IsLazy(w) }
      BY <2>1, <1>5, <1>7, NotifyFields
    <2>3. Core(S) /\ (ChildrenDue(R, H) => ChildrenDue(S, H))
      BY <2>1, <1>3, <1>5, <1>6, <1>7, ChangeKeeps
    <2>4. RootDue(R, H) /\ (\A n : d # Prop(n, "p")) => RootDue(S, H)
      BY <2>1, <1>3, <1>5, <1>6, <1>7, ChangeKeeps
    <2> QED BY <2>2, <2>3, <2>4, <1>3 DEF EagerOnly, S
  <1> QED BY <1>8, <1>9

LEMMA PushKeeps ==
  ASSUME NEW R, Core(R), NEW a \in Arrays, NEW H
  PROVE  LET S == NotifyDep([R EXCEPT !.len[a] = 1], Observer(a)) IN
         /\ Core(S) /\ S.value = R.value /\ S.inst = R.inst
         /\ EagerOnly(R.notified) => EagerOnly(S.notified)
         /\ ChildrenDue(R, H) => ChildrenDue(S, H)
         /\ RootDue(R, H) => RootDue(S, H)
  <1> DEFINE T == [R EXCEPT !.len[a] = 1]
             new == [R.len EXCEPT ![a] = 1]
             S == NotifyDep(T, Observer(a))
  <1>1. R \in PageRecord /\ R.value[Prop(Root, "list")] \in Arrays
    BY DEF Core, Shape
  <1>2. new \in [Arrays -> {0, 1}] /\ \A b \in Arrays \ {a} : new[b] = R.len[b]
    BY <1>1 DEF PageRecord
  <1>3. T = [R EXCEPT !.len = new]
    OBVIOUS
  <1> HIDE DEF T, new
  <1>4. /\ T \in PageRecord /\ T.value = R.value /\ T.len = new
        /\ T.subs = R.subs /\ T.watcher = R.watcher /\ T.inst = R.inst
        /\ T.dom = R.dom /\ T.notified = R.notified
    BY <1>1, <1>2, <1>3 DEF PageRecord
  <1>5. Observer(a) \in Deps /\ Shape(T)
    BY <1>1, <1>4, Names DEF Shape
  <1>6. /\ S.value = R.value /\ S.inst = R.inst
        /\ S.notified = R.notified \cup { w \in R.subs[Observer(a)] : ~IsLazy(w) }
    BY <1>4, <1>5, NotifyFields
  <1>7. \A n : Observer(a) # Prop(n, "p")
    BY DEF Observer, Prop
  <1>8. \A b \in Arrays : Observer(a) # Observer(b) => T.len[b] = R.len[b]
    BY <1>2, <1>4
  <1>9. Core(S) /\ (ChildrenDue(R, H) => ChildrenDue(S, H))
    BY <1>4, <1>5, ChangeKeeps
  <1>10. RootDue(R, H) => RootDue(S, H)
    BY <1>4, <1>5, <1>7, <1>8, ChangeKeeps
  <1> HIDE DEF S
  <1> QED BY <1>6, <1>9, <1>10 DEF EagerOnly, S, T

-----------------------------------------------------------------------------
\* A patch changes what one instance shows.
LEMMA ShowFields ==
  ASSUME NEW R, Core(R), NEW n \in Instances, NEW v \in VueData
  PROVE  LET S == [R EXCEPT !.dom[n] = v] IN
         /\ Core(S)
         /\ S.value = R.value /\ S.len = R.len /\ S.subs = R.subs /\ S.watcher = R.watcher
         /\ S.inst = R.inst /\ S.notified = R.notified /\ S.hooks = R.hooks
         /\ S.dom[n] = v /\ \A m \in Instances \ {n} : S.dom[m] = R.dom[m]
  <1> DEFINE S == [R EXCEPT !.dom[n] = v]
             new == [R.dom EXCEPT ![n] = v]
  <1>1. R \in PageRecord
    BY DEF Core, Shape
  <1>2. /\ new \in [Instances -> VueData \cup {Nothing}] /\ new[n] = v
        /\ \A m \in Instances \ {n} : new[m] = R.dom[m]
    BY <1>1 DEF PageRecord
  <1>3. S = [R EXCEPT !.dom = new]
    OBVIOUS
  <1> HIDE DEF S, new
  <1>4. /\ S \in PageRecord /\ S.dom = new
        /\ S.value = R.value /\ S.len = R.len /\ S.subs = R.subs /\ S.watcher = R.watcher
        /\ S.inst = R.inst /\ S.notified = R.notified /\ S.hooks = R.hooks
    BY <1>1, <1>2, <1>3 DEF PageRecord
  <1>5. Core(S)
    BY <1>4, SameData DEF Core, Shape, Subscribed, Cached, Living
  <1> QED BY <1>2, <1>4, <1>5 DEF S

\* What was up to date or due stays so when only other things change.
LEMMA RootDueCarries ==
  ASSUME NEW R, NEW S, NEW H, RootDue(R, H),
         S.value = R.value, S.len = R.len, S.inst = R.inst, R.notified \subseteq S.notified,
         S.dom[Root] = R.dom[Root],
         S.watcher[Render(Root)].deps = R.watcher[Render(Root)].deps
  PROVE  RootDue(S, H)
  BY SameData DEF RootDue, RootFresh

LEMMA ChildFreshCarries ==
  ASSUME NEW R, NEW S, NEW n, ChildFresh(R, n), S.value = R.value, S.dom[n] = R.dom[n],
         S.watcher[Render(n)].deps = R.watcher[Render(n)].deps
  PROVE  ChildFresh(S, n)
  BY SameData DEF ChildFresh

LEMMA ChildrenDueCarries ==
  ASSUME NEW R, NEW S, NEW H, ChildrenDue(R, H),
         S.value = R.value, S.inst = R.inst, R.notified \subseteq S.notified,
         \A n \in Child(R) : /\ S.dom[n] = R.dom[n]
                             /\ S.watcher[Render(n)].deps = R.watcher[Render(n)].deps
  PROVE  ChildrenDue(S, H)
  BY SameData, ChildFreshCarries DEF ChildrenDue

\* A child renders: it shows its total and depends on what total read.
LEMMA RenderChildKeeps ==
  ASSUME NEW R, Core(R), NEW n \in Instances, n # Root, NEW H
  PROVE  LET S == RenderChild(R, n) IN
         /\ Core(S)
         /\ S.value = R.value /\ S.len = R.len /\ S.inst = R.inst
         /\ S.notified = R.notified /\ S.hooks = R.hooks
         /\ \A m \in Instances \ {n} : /\ S.dom[m] = R.dom[m]
                                       /\ S.watcher[Render(m)] = R.watcher[Render(m)]
         /\ n \in Child(R) => ChildFresh(S, n)
         /\ ChildrenDue(R, H \cup {Render(n)}) => ChildrenDue(S, H)
         /\ RootDue(R, H) => RootDue(S, H)
  <1> DEFINE S == RenderChild(R, n)
             c == Computed(n)
             E == ReadComputed(R, n)
             C == Collect(E, Render(n), E.watcher[c].deps)
  <1>1. /\ Render(n) \in Watchers /\ c \in Watchers /\ c # Render(n) /\ ~IsLazy(Render(n))
        /\ Root \in Instances /\ \A m \in Instances : Render(m) \in Watchers
        /\ \A m \in Instances \ {n} : Render(m) # Render(n) /\ Render(m) # c
        /\ \A m \in Instances : Render(m) = Render(n) => m = n
    BY Ids
  <1> HIDE DEF S, c, E, C
  <1>2. /\ Core(E)
        /\ E.value = R.value /\ E.len = R.len /\ E.inst = R.inst /\ E.dom = R.dom
        /\ E.notified = R.notified /\ E.hooks = R.hooks
        /\ \A v \in Watchers \ {c} : E.watcher[v] = R.watcher[v]
        /\ E.watcher[c].deps \in SUBSET Deps
        /\ R.watcher[c].active =>
               E.watcher[c].value = TotalOf(R, n) /\ E.watcher[c].deps = ReadsOf(R, n)
    BY ReadComputedCore DEF E, c
  <1>3. E \in PageRecord /\ R \in PageRecord /\ Living(R)
    BY <1>2 DEF Core, Shape
  <1>4. /\ C.value = E.value /\ C.len = E.len /\ C.inst = E.inst /\ C.dom = E.dom
        /\ C.notified = E.notified /\ C.hooks = E.hooks
        /\ \A v \in Watchers \ {Render(n)} : C.watcher[v] = E.watcher[v]
        /\ C.watcher[Render(n)] = [E.watcher[Render(n)] EXCEPT !.deps = E.watcher[c].deps]
    BY <1>1, <1>2, <1>3, CollectFields DEF C
  <1>5. Core(C)
    BY <1>1, <1>2, CollectCore DEF C
  <1>6. E.watcher[c] \in WatcherRecord /\ E.watcher[Render(n)] \in WatcherRecord
    BY <1>1, <1>3 DEF PageRecord
  <1>7. E.watcher[c].value \in VueData /\ C.watcher[Render(n)].deps = E.watcher[c].deps
    BY <1>4, <1>6 DEF WatcherRecord
  <1>8. S = [C EXCEPT !.dom[n] = E.watcher[c].value]
    BY DEF S, RenderChild, C, E, c
  <1>9. /\ Core(S)
        /\ S.value = R.value /\ S.len = R.len /\ S.inst = R.inst /\ S.watcher = C.watcher
        /\ S.notified = R.notified /\ S.hooks = R.hooks
        /\ S.dom[n] = E.watcher[c].value /\ \A m \in Instances \ {n} : S.dom[m] = R.dom[m]
    BY <1>2, <1>4, <1>5, <1>7, <1>8, ShowFields
  <1>10. ASSUME NEW m \in Instances \ {n} PROVE S.watcher[Render(m)] = R.watcher[Render(m)]
    BY <1>1, <1>2, <1>4, <1>9
  <1>11. ASSUME n \in Child(R) PROVE ChildFresh(S, n)
    <2>1. R.watcher[c].active
      BY <1>3, <1>11 DEF Living, Child, c
    <2> QED BY <2>1, <1>2, <1>7, <1>9, SameData DEF ChildFresh
  <1>12. Child(S) = Child(R) /\ Child(R) \subseteq Instances
    BY <1>9, SameData DEF Child
  <1>13. ASSUME ChildrenDue(R, H \cup {Render(n)}) PROVE ChildrenDue(S, H)
    <2>1. ASSUME NEW m \in Child(S) PROVE Render(m) \in H \cup S.notified \/ ChildFresh(S, m)
      <3>1. CASE m = n
        BY <3>1, <2>1, <1>11, <1>12
      <3>2. CASE m # n
        <4>1. m \in Instances \ {n} /\ m \in Child(R) /\ Render(m) # Render(n)
          BY <3>2, <2>1, <1>1, <1>12
        <4>2. Render(m) \in H \cup R.notified \/ ChildFresh(R, m)
          BY <4>1, <1>13 DEF ChildrenDue
        <4> QED BY <4>1, <4>2, <1>9, <1>10, ChildFreshCarries
      <3> QED BY <3>1, <3>2
    <2> QED BY <2>1 DEF ChildrenDue
  <1>14. RootDue(R, H) => RootDue(S, H)
    BY <1>1, <1>9, <1>10, RootDueCarries
  <1> QED BY <1>9, <1>10, <1>11, <1>13, <1>14 DEF S

\* The record with an instance whose watchers were just created.
Newborn(R, n, p) ==
    [R EXCEPT !.value = [@ EXCEPT ![Prop(n, "p")] = p, ![Prop(n, "y")] = 0],
              !.watcher = [w \in Watchers |-> IF InstanceOf(w) = n THEN NewWatcher ELSE @[w]],
              !.inst[n] = "mounted", !.hooks = TRUE]

LEMMA NewInstance ==
  ASSUME NEW R, Core(R), Child(R) = {}, NEW n \in Instances, R.inst[n] = "none",
         NEW p \in VueData
  PROVE  LET S == Newborn(R, n, p) IN
            /\ n # Root
            /\ Core(S) /\ Child(S) = {n}
            /\ S.value[Prop(n, "p")] = p
            /\ \A e \in Props \ {Prop(n, "p"), Prop(n, "y")} : S.value[e] = R.value[e]
            /\ S.len = R.len /\ S.dom = R.dom /\ S.notified = R.notified /\ S.hooks = TRUE
            /\ \A m \in Instances \ {n} : S.inst[m] = R.inst[m]
            /\ S.inst[n] = "mounted"
            /\ S.watcher[Computed(n)].active
  <1> DEFINE data == [R.value EXCEPT ![Prop(n, "p")] = p, ![Prop(n, "y")] = 0]
             new == [w \in Watchers |-> IF InstanceOf(w) = n THEN NewWatcher ELSE R.watcher[w]]
             life == [R.inst EXCEPT ![n] = "mounted"]
             S == Newborn(R, n, p)
  <1>1. /\ R \in PageRecord /\ R.value[Prop(Root, "list")] \in Arrays
        /\ Subscribed(R) /\ Cached(R) /\ Living(R)
    BY DEF Core, Shape
  <1>2. n # Root
    BY <1>1 DEF Living
  <1>3. /\ Prop(n, "p") \in Props /\ Prop(n, "y") \in Props
        /\ Prop(n, "p") # Prop(n, "y")
    BY <1>2, Names
  <1>4. /\ data \in [Props -> VueData] /\ data[Prop(n, "p")] = p
        /\ \A e \in Props \ {Prop(n, "p"), Prop(n, "y")} : data[e] = R.value[e]
    BY <1>1, <1>3 DEF PageRecord, VueData
  <1>5. NewWatcher \in WatcherRecord
    BY DEF NewWatcher, WatcherRecord, VueData
  <1>6. new \in [Watchers -> WatcherRecord]
    BY <1>1, <1>5 DEF PageRecord
  <1>7. /\ life \in [Instances -> {"none", "mounted", "destroyed"}] /\ life[n] = "mounted"
        /\ \A m \in Instances \ {n} : life[m] = R.inst[m]
    BY <1>1 DEF PageRecord
  <1>8. S = [R EXCEPT !.value = data, !.watcher = new, !.inst = life, !.hooks = TRUE]
    BY <1>1 DEF PageRecord, Newborn
  <1> HIDE DEF S, data, life
  <1>9. /\ S \in PageRecord /\ S.value = data /\ S.watcher = new /\ S.inst = life
        /\ S.len = R.len /\ S.dom = R.dom /\ S.notified = R.notified /\ S.hooks = TRUE
        /\ S.subs = R.subs
    BY <1>1, <1>4, <1>6, <1>7, <1>8 DEF PageRecord
  <1>10. Shape(S)
    <2>1. S.value[Prop(Root, "list")] = R.value[Prop(Root, "list")]
      BY <1>2, <1>4, <1>9, Names
    <2> QED BY <2>1, <1>1, <1>9 DEF Shape
  <1>11. /\ \A w \in Watchers : InstanceOf(w) = n => new[w] = NewWatcher
         /\ \A w \in Watchers : InstanceOf(w) # n => new[w] = R.watcher[w]
    OBVIOUS
  <1> HIDE DEF new
  <1>12. NewWatcher.active /\ NewWatcher.dirty /\ NewWatcher.deps = {}
    BY DEF NewWatcher
  <1>13. Subscribed(S)
    BY <1>1, <1>9, <1>11, <1>12 DEF Subscribed
  <1>14. ASSUME NEW m \in Instances, m # n
         PROVE  /\ ReadsOf(S, m) = ReadsOf(R, m) /\ TotalOf(S, m) = TotalOf(R, m)
                /\ S.watcher[Computed(m)] = R.watcher[Computed(m)]
                /\ S.watcher[Render(m)] = R.watcher[Render(m)]
    <2>1. \A k \in {"p", "y", "x"} : Prop(m, k) # Prop(n, "p") /\ Prop(m, k) # Prop(n, "y")
      BY <1>14, Names
    <2>4. /\ S.watcher[Computed(m)] = R.watcher[Computed(m)]
          /\ S.watcher[Render(m)] = R.watcher[Render(m)]
      BY <1>9, <1>11, <1>14, Ids
    <2>2. CASE m = Root
      <3>1. Prop(m, "x") \in Props
        BY <2>2, Names
      <3>2. S.value[Prop(m, "x")] = R.value[Prop(m, "x")]
        BY <3>1, <2>1, <1>4, <1>9
      <3> QED BY <2>2, <2>4, <3>2 DEF ReadsOf, TotalOf
    <2>3. CASE m # Root
      <3>0. Prop(m, "p") \in Props /\ Prop(m, "y") \in Props
        BY <2>3, Names
      <3>1. /\ S.value[Prop(m, "p")] = R.value[Prop(m, "p")]
            /\ S.value[Prop(m, "y")] = R.value[Prop(m, "y")]
        BY <2>1, <3>0, <1>4, <1>9
      <3> QED BY <2>3, <2>4, <3>1 DEF ReadsOf, TotalOf
    <2> QED BY <2>2, <2>3
  <1>15. /\ S.watcher[Computed(n)].active /\ S.watcher[Computed(n)].dirty
         /\ S.watcher[Render(n)].active
    BY <1>9, <1>11, <1>12, Ids
  <1>16. Cached(S)
    BY <1>1, <1>14, <1>15 DEF Cached
  <1>17. Child(S) = {n}
    BY <1>2, <1>7, <1>9 DEF Child
  <1>18. Living(S)
    BY <1>1, <1>2, <1>7, <1>9, <1>14, <1>15, <1>17, Ids DEF Living
  <1> QED BY <1>2, <1>4, <1>7, <1>9, <1>10, <1>13, <1>15, <1>16, <1>17, <1>18 DEF Core, S

LEMMA CreateChildKeeps ==
  ASSUME NEW R, Core(R), Child(R) = {}, NEW n \in Instances, R.inst[n] = "none",
         NEW p \in VueData
  PROVE  LET S == CreateChild(R, n, p) IN
         /\ n # Root
         /\ Core(S) /\ Child(S) = {n} /\ ChildFresh(S, n)
         /\ S.value[Prop(n, "p")] = p
         /\ \A e \in Props \ {Prop(n, "p"), Prop(n, "y")} : S.value[e] = R.value[e]
         /\ S.len = R.len /\ S.notified = R.notified
         /\ \A m \in Instances \ {n} : S.inst[m] = R.inst[m]
         /\ S.inst[n] = "mounted"
  <1> DEFINE S == Newborn(R, n, p)
             D == {Prop(n, "y")}
             U == Collect(S, User(n), D)
  <1> HIDE DEF U, D
  <1>1. /\ n # Root
        /\ Core(S) /\ Child(S) = {n}
        /\ S.value[Prop(n, "p")] = p
        /\ \A e \in Props \ {Prop(n, "p"), Prop(n, "y")} : S.value[e] = R.value[e]
        /\ S.len = R.len /\ S.dom = R.dom /\ S.notified = R.notified /\ S.hooks = TRUE
        /\ \A m \in Instances \ {n} : S.inst[m] = R.inst[m]
        /\ S.inst[n] = "mounted"
        /\ S.watcher[Computed(n)].active
    BY NewInstance
  <1> HIDE DEF S
  <1>2. D \in SUBSET Deps /\ User(n) \in Watchers /\ ~IsLazy(User(n))
    BY <1>1, Names, Ids DEF D
  <1>3. S \in PageRecord
    BY <1>1 DEF Core, Shape
  <1>4. /\ Core(U) /\ U.value = S.value /\ U.len = S.len /\ U.inst = S.inst
        /\ U.notified = S.notified
    <2>1. Core(U)
      BY <1>1, <1>2, CollectCore DEF U
    <2>2. /\ U.value = S.value /\ U.len = S.len /\ U.inst = S.inst
          /\ U.notified = S.notified
      BY <1>2, <1>3, CollectKeeps DEF U
    <2> QED BY <2>1, <2>2
  <1>5. Child(U) = {n} /\ CreateChild(R, n, p) = RenderChild(U, n)
    <2>1. Child(U) = {n}
      BY <1>1, <1>4, SameData
    <2>2. CreateChild(R, n, p) = RenderChild(U, n)
      BY DEF CreateChild, Newborn, U, S, D
    <2> QED BY <2>1, <2>2
  <1> DEFINE C == RenderChild(U, n)
  <1>6. /\ Core(C) /\ C.value = U.value /\ C.len = U.len /\ C.inst = U.inst
        /\ C.notified = U.notified /\ ChildFresh(C, n)
    BY <1>1, <1>4, <1>5, RenderChildKeeps
  <1>7. Child(C) = {n}
    BY <1>5, <1>6, SameData
  <1> HIDE DEF C
  <1> QED BY <1>1, <1>4, <1>5, <1>6, <1>7 DEF C

LEMMA DestroyChildKeeps ==
  ASSUME NEW R, Core(R), NEW n \in Child(R)
  PROVE  LET S == DestroyChild(R, n) IN
         /\ Core(S) /\ Child(S) = {}
         /\ S.value = R.value /\ S.len = R.len /\ S.notified = R.notified
         /\ \A m \in Instances \ {n} : S.inst[m] = R.inst[m]
         /\ S.inst[n] = "destroyed"
  <1> DEFINE mine == { w \in Watchers : InstanceOf(w) = n }
             sub == [d \in Deps |-> R.subs[d] \ { w \in mine : d \in R.watcher[w].deps }]
             new == [w \in Watchers |->
                        IF w \in mine THEN [R.watcher[w] EXCEPT !.active = FALSE]
                        ELSE R.watcher[w]]
             life == [R.inst EXCEPT ![n] = "destroyed"]
             show == [R.dom EXCEPT ![n] = Nothing]
             S == DestroyChild(R, n)
  <1>1. /\ R \in PageRecord /\ R.value[Prop(Root, "list")] \in Arrays
        /\ Subscribed(R) /\ Cached(R) /\ Living(R)
    BY DEF Core, Shape
  <1>2. n \in Instances \ {Root} /\ R.inst[n] = "mounted"
    BY DEF Child
  <1>3. sub \in [Deps -> SUBSET Watchers]
    BY <1>1 DEF PageRecord
  <1>4. ASSUME NEW w \in Watchers
        PROVE  /\ new[w] \in WatcherRecord
               /\ new[w].deps = R.watcher[w].deps
               /\ w \in mine => ~new[w].active
               /\ w \notin mine => new[w] = R.watcher[w]
    <2>1. R.watcher[w] \in WatcherRecord
      BY <1>1 DEF PageRecord
    <2> QED BY <2>1 DEF WatcherRecord
  <1>5. new \in [Watchers -> WatcherRecord]
    BY <1>4
  <1>6. /\ life \in [Instances -> {"none", "mounted", "destroyed"}] /\ life[n] = "destroyed"
        /\ \A m \in Instances \ {n} : life[m] = R.inst[m]
    BY <1>1, <1>2 DEF PageRecord
  <1>7. show \in [Instances -> VueData \cup {Nothing}]
    BY <1>1, <1>2 DEF PageRecord
  <1>8. S = [R EXCEPT !.subs = sub, !.watcher = new, !.inst = life, !.dom = show, !.hooks = TRUE]
    BY <1>1 DEF PageRecord, DestroyChild
  <1>9. \A d \in Deps : \A w \in R.subs[d] : w \notin mine => w \in sub[d]
    OBVIOUS
  <1> HIDE DEF S, sub, new, life, show
  <1>10. /\ S \in PageRecord /\ S.subs = sub /\ S.watcher = new /\ S.inst = life
         /\ S.value = R.value /\ S.len = R.len /\ S.notified = R.notified
    BY <1>1, <1>3, <1>5, <1>6, <1>7, <1>8 DEF PageRecord
  <1>11. Subscribed(S)
    <2>1. ASSUME NEW w \in Watchers, S.watcher[w].active, NEW d \in S.watcher[w].deps
          PROVE  w \in S.subs[d]
      <3>1. w \notin mine /\ S.watcher[w] = R.watcher[w] /\ S.watcher[w] \in WatcherRecord
        BY <2>1, <1>4, <1>10
      <3>2. d \in Deps /\ w \in R.subs[d]
        BY <3>1, <2>1, <1>1 DEF Subscribed, WatcherRecord
      <3> QED BY <3>1, <3>2, <1>9, <1>10
    <2> QED BY <2>1 DEF Subscribed
  <1>12. \A m \in Instances : /\ InstanceOf(Computed(m)) = m /\ InstanceOf(Render(m)) = m
                              /\ Computed(m) \in Watchers /\ Render(m) \in Watchers
    BY Ids
  <1>13. ASSUME NEW m \in Instances, m # n
         PROVE  /\ S.watcher[Computed(m)] = R.watcher[Computed(m)]
                /\ S.watcher[Render(m)] = R.watcher[Render(m)]
    BY <1>4, <1>10, <1>12, <1>13
  <1>14. ~S.watcher[Computed(n)].active
    BY <1>2, <1>4, <1>10, <1>12
  <1>15. Cached(S)
    BY <1>1, <1>10, <1>13, <1>14, SameData DEF Cached
  <1>16. Child(S) = {}
    <2>1. \A m \in Child(R) : m = n
      BY <1>1 DEF Living
    <2> QED BY <2>1, <1>6, <1>10 DEF Child
  <1>17. Living(S)
    <2>1. S.inst[Root] = "mounted"
      BY <1>1, <1>2, <1>6, <1>10, Ids DEF Living
    <2>2. ASSUME NEW m \in Instances, S.inst[m] = "mounted"
          PROVE  S.watcher[Computed(m)].active /\ S.watcher[Render(m)].active
      <3>1. m # n /\ R.inst[m] = "mounted"
        BY <2>2, <1>6, <1>10
      <3> QED BY <3>1, <1>1, <1>13 DEF Living
    <2> QED BY <2>1, <2>2, <1>16 DEF Living
  <1> QED BY <1>1, <1>6, <1>10, <1>11, <1>15, <1>16, <1>17 DEF Core, Shape, S

-----------------------------------------------------------------------------
\* The bound on assignments leaves an instance for every child to come.
LEMMA NextUnborn ==
  ASSUME NEW R, Core(R), Budget(R, writes), writes \in 0..MaxWrites, Child(R) = {},
         R.value[Prop(Root, "show")] = 1
  PROVE  LET n == CHOOSE n \in Unborn(R) : \A k \in Unborn(R) : n <= k IN
         /\ n \in Instances /\ R.inst[n] = "none"
         /\ 2 * (n - 1) + 1 <= writes
         /\ \A m \in Instances \ {Root} : R.inst[m] = "none" <=> m > n - 1
  <1>1. PICK k \in 0..MaxChildren :
            /\ \A m \in Instances \ {Root} : R.inst[m] = "none" <=> m > k
            /\ Spent(R, k) <= writes
    BY DEF Budget
  <1>2. 2 * k + 1 <= writes
    BY <1>1 DEF Spent
  <1>3. k + 1 \in Instances \ {Root}
    BY <1>2, PageAssumption DEF Instances, Root
  <1>4. R.inst[Root] # "none"
    BY DEF Core, Living
  <1>5. \A m \in Instances : m \in Unborn(R) <=> m > k
    BY <1>1, <1>3, <1>4, PageAssumption DEF Unborn, Root, Instances
  <1>6. k + 1 \in Unborn(R) /\ Unborn(R) \subseteq Instances /\ \A m \in Unborn(R) : k + 1 <= m
    BY <1>3, <1>5 DEF Unborn, Instances
  <1> DEFINE n == CHOOSE n \in Unborn(R) : \A j \in Unborn(R) : n <= j
  <1>7. n \in Unborn(R) /\ \A j \in Unborn(R) : n <= j
    BY <1>6
  <1>8. n = k + 1
    BY <1>6, <1>7 DEF Instances
  <1> HIDE DEF n
  <1>9. n - 1 = k
    BY <1>8
  <1> QED BY <1>1, <1>2, <1>6, <1>7, <1>9 DEF Unborn, n

\* The patch of the root brings its child in line with the root's data.
LEMMA PatchChildKeeps ==
  ASSUME NEW R, Core(R), Budget(R, writes), writes \in 0..MaxWrites,
         NEW p \in VueData, NEW H, ChildrenDue(R, H)
  PROVE  LET show == R.value[Prop(Root, "show")]
             P == PatchChild(R, show, p) IN
         /\ Core(P) /\ Budget(P, writes)
         /\ (show = 1) <=> Child(P) # {}
         /\ \A n \in Child(P) : P.value[Prop(n, "p")] = p
         /\ \A k \in {"show", "x", "list"} : P.value[Prop(Root, k)] = R.value[Prop(Root, k)]
         /\ P.len = R.len
         /\ EagerOnly(R.notified) => EagerOnly(P.notified)
         /\ ChildrenDue(P, H)
  <1> DEFINE show == R.value[Prop(Root, "show")]
             P == PatchChild(R, show, p)
  <1>0. Living(R) /\ Child(R) \subseteq Instances \ {Root} /\ Root \in Instances
    BY Ids DEF Core, Child
  <1>1. CASE show = 1 /\ Child(R) = {}
    <2> DEFINE n == CHOOSE n \in Unborn(R) : \A k \in Unborn(R) : n <= k
               C == CreateChild(R, n, p)
    <2>1. /\ n \in Instances /\ R.inst[n] = "none"
          /\ 2 * (n - 1) + 1 <= writes
          /\ \A m \in Instances \ {Root} : R.inst[m] = "none" <=> m > n - 1
      BY <1>1, NextUnborn
    <2>2. P = C
      BY <1>1 DEF PatchChild
    <2> HIDE DEF n, P
    <2>3. /\ n # Root
          /\ Core(C) /\ Child(C) = {n} /\ ChildFresh(C, n)
          /\ C.value[Prop(n, "p")] = p
          /\ \A e \in Props \ {Prop(n, "p"), Prop(n, "y")} : C.value[e] = R.value[e]
          /\ C.len = R.len /\ C.notified = R.notified
          /\ \A m \in Instances \ {n} : C.inst[m] = R.inst[m]
          /\ C.inst[n] = "mounted"
      BY <1>1, <2>1, CreateChildKeeps
    <2> HIDE DEF C
    <2>4. \A k \in {"show", "x", "list"} :
              Prop(Root, k) \in Props \ {Prop(n, "p"), Prop(n, "y")}
      BY Names
    <2>5. \A k \in {"show", "x", "list"} : C.value[Prop(Root, k)] = R.value[Prop(Root, k)]
      BY <2>3, <2>4
    <2>6. Budget(C, writes)
      <3>1. n \in 0..MaxChildren /\ n \in Int
        BY <2>1, Ids DEF Instances
      <3>2. Spent(C, n) = 2 * n - 1
        BY <1>1, <2>3, <2>5 DEF Spent
      <3>3. ASSUME NEW m \in Instances \ {Root} PROVE C.inst[m] = "none" <=> m > n
        <4>1. CASE m = n
          BY <4>1, <2>3, <3>1
        <4>2. CASE m # n
          BY <4>2, <2>1, <2>3, <3>1 DEF Instances
        <4> QED BY <4>1, <4>2
      <3>4. writes \in Int
        OBVIOUS
      <3> QED BY <2>1, <3>1, <3>2, <3>3, <3>4 DEF Budget
    <2>7. ChildrenDue(C, H)
      BY <2>3 DEF ChildrenDue
    <2> QED BY <1>1, <2>2, <2>3, <2>5, <2>6, <2>7 DEF P
  <1>2. CASE show = 1 /\ Child(R) # {}
    <2> DEFINE n == CHOOSE n \in Child(R) : TRUE
               d == Prop(n, "p")
               A == Assign(R, d, p)
    <2>1. n \in Child(R)
      BY <1>2
    <2>2. P = A
      BY <1>2 DEF PatchChild
    <2> HIDE DEF n, P
    <2>3. d \in Props /\ \A k : d # Prop(Root, k)
      BY <2>1, <1>0, Names
    <2> HIDE DEF d
    <2>4. /\ Core(A)
          /\ A.value[d] = p /\ (\A e \in Props \ {d} : A.value[e] = R.value[e])
          /\ A.len = R.len /\ A.inst = R.inst
          /\ EagerOnly(R.notified) => EagerOnly(A.notified)
          /\ ChildrenDue(A, H)
      BY <2>3, AssignKeeps
    <2> HIDE DEF A
    <2>5. \A k \in {"show", "x", "list"} : A.value[Prop(Root, k)] = R.value[Prop(Root, k)]
      BY <2>3, <2>4, Names
    <2>6. Child(A) = Child(R) /\ \A m \in Child(R) : m = n
      BY <1>0, <2>1, <2>4 DEF Child, Living
    <2>7. Budget(A, writes)
      BY <2>4, <2>5, <2>6 DEF Budget, Spent
    <2> QED BY <1>2, <2>2, <2>4, <2>5, <2>6, <2>7 DEF d, P
  <1>3. CASE show # 1 /\ Child(R) = {}
    <2>1. P = R
      BY <1>3 DEF PatchChild
    <2> HIDE DEF P
    <2> QED BY <1>3, <2>1 DEF P
  <1>4. CASE show # 1 /\ Child(R) # {}
    <2> DEFINE n == CHOOSE n \in Child(R) : TRUE
               D == DestroyChild(R, n)
    <2>1. n \in Child(R)
      BY <1>4
    <2>2. P = D
      BY <1>4 DEF PatchChild
    <2> HIDE DEF n, P
    <2>3. /\ Core(D) /\ Child(D) = {}
          /\ D.value = R.value /\ D.len = R.len /\ D.notified = R.notified
          /\ \A m \in Instances \ {n} : D.inst[m] = R.inst[m]
          /\ D.inst[n] = "destroyed"
      BY <2>1, DestroyChildKeeps
    <2> HIDE DEF D
    <2>4. R.inst[n] = "mounted"
      BY <2>1 DEF Child
    <2>5. \A m \in Instances : D.inst[m] = "none" <=> R.inst[m] = "none"
      BY <2>3, <2>4
    <2>6. \A k : Spent(D, k) = Spent(R, k)
      BY <1>4, <2>3 DEF Spent
    <2>7. Budget(D, writes)
      BY <2>5, <2>6 DEF Budget
    <2>8. ChildrenDue(D, H)
      BY <2>3 DEF ChildrenDue
    <2> QED BY <1>4, <2>2, <2>3, <2>7, <2>8 DEF P
  <1> HIDE DEF P
  <1> QED BY <1>1, <1>2, <1>3, <1>4 DEF P

\* The root renders: it and its child are in line with the data.
LEMMA RenderRootKeeps ==
  ASSUME NEW R, Core(R), Budget(R, writes), writes \in 0..MaxWrites, NEW H,
         ChildrenDue(R, H), EagerOnly(R.notified)
  PROVE  LET S == RenderRoot(R) IN
         Core(S) /\ Budget(S, writes) /\ RootFresh(S) /\ ChildrenDue(S, H) /\ EagerOnly(S.notified)
  <1> DEFINE show == R.value[Prop(Root, "show")]
             list == R.value[Prop(Root, "list")]
             c == Computed(Root)
             E == IF show = 1 THEN ReadComputed(R, Root) ELSE R
             read == {Prop(Root, "show"), Prop(Root, "list"), Observer(list)}
                        \cup (IF show = 1 THEN E.watcher[c].deps ELSE {})
             P == PatchChild(E, show, E.watcher[c].value)
             C == Collect(P, Render(Root), read)
             S == RenderRoot(R)
  <1>1. /\ Root \in Instances /\ c \in Watchers /\ c # Render(Root)
        /\ Render(Root) \in Watchers /\ ~IsLazy(Render(Root))
        /\ \A n \in Instances : Render(n) \in Watchers /\ Render(n) # c
        /\ \A n \in Instances \ {Root} : Render(n) # Render(Root)
    BY Ids
  <1>2. S = [C EXCEPT !.dom[Root] = R.len[list]]
    BY DEF RenderRoot
  <1> HIDE DEF c, S
  <1>3. R \in PageRecord /\ Living(R) /\ list \in Arrays
    BY DEF Core, Shape
  <1>4. /\ Core(E) /\ Budget(E, writes) /\ ChildrenDue(E, H) /\ EagerOnly(E.notified)
        /\ E.value = R.value /\ E.len = R.len
        /\ show = 1 => /\ E.watcher[c].value = R.value[Prop(Root, "x")]
                       /\ E.watcher[c].deps = {Prop(Root, "x")}
    <2>1. CASE show # 1
      BY <2>1
    <2>2. CASE show = 1
      <3> DEFINE F == ReadComputed(R, Root)
      <3>1. E = F
        BY <2>2
      <3> HIDE DEF E, F
      <3>2. /\ Core(F)
            /\ F.value = R.value /\ F.len = R.len /\ F.inst = R.inst /\ F.dom = R.dom
            /\ F.notified = R.notified
            /\ \A v \in Watchers \ {c} : F.watcher[v] = R.watcher[v]
            /\ R.watcher[c].active =>
                   F.watcher[c].value = TotalOf(R, Root) /\ F.watcher[c].deps = ReadsOf(R, Root)
        BY <1>1, ReadComputedCore DEF c, F
      <3>3. R.watcher[c].active
        BY <1>1, <1>3 DEF Living, c
      <3>4. ChildrenDue(F, H)
        <4>1. \A n \in Child(R) : n \in Instances
          BY DEF Child
        <4>2. \A n \in Child(R) : F.watcher[Render(n)].deps = R.watcher[Render(n)].deps
          BY <4>1, <1>1, <3>2
        <4> QED BY <4>2, <3>2, ChildrenDueCarries
      <3>5. Budget(F, writes)
        <4>1. Child(F) = Child(R)
          BY <3>2, SameData
        <4> QED BY <4>1, <3>2 DEF Budget, Spent
      <3> QED BY <3>1, <3>2, <3>3, <3>4, <3>5 DEF TotalOf, ReadsOf
    <2> QED BY <2>1, <2>2
  <1> HIDE DEF E
  <1>5. E \in PageRecord /\ E.watcher[c] \in WatcherRecord /\ E.watcher[c].value \in VueData
    BY <1>1, <1>4 DEF Core, Shape, PageRecord, WatcherRecord
  <1>6. /\ Core(P) /\ Budget(P, writes)
        /\ (show = 1) <=> Child(P) # {}
        /\ \A n \in Child(P) : P.value[Prop(n, "p")] = E.watcher[c].value
        /\ \A k \in {"show", "x", "list"} : P.value[Prop(Root, k)] = R.value[Prop(Root, k)]
        /\ P.len = R.len
        /\ EagerOnly(P.notified)
        /\ ChildrenDue(P, H)
    <2>1. E.value[Prop(Root, "show")] = show
      BY <1>4
    <2> DEFINE p == E.watcher[c].value
               Q == PatchChild(E, E.value[Prop(Root, "show")], p)
    <2>2. /\ Core(Q) /\ Budget(Q, writes)
          /\ (E.value[Prop(Root, "show")] = 1) <=> Child(Q) # {}
          /\ \A n \in Child(Q) : Q.value[Prop(n, "p")] = p
          /\ \A k \in {"show", "x", "list"} : Q.value[Prop(Root, k)] = E.value[Prop(Root, k)]
          /\ Q.len = E.len
          /\ EagerOnly(E.notified) => EagerOnly(Q.notified)
          /\ ChildrenDue(Q, H)
      BY <1>4, <1>5, PatchChildKeeps, Zenon
    <2>3. P = Q
      BY <2>1
    <2> HIDE DEF Q, P
    <2> QED BY <1>4, <2>1, <2>2, <2>3
  <1> HIDE DEF P
  <1>7. read \in SUBSET Deps
    BY <1>3, <1>4, Names
  <1>8. read = {Prop(Root, "show"), Prop(Root, "list"), Observer(list)}
                  \cup (IF show = 1 THEN {Prop(Root, "x")} ELSE {})
    BY <1>4
  <1> HIDE DEF read
  <1>9. Core(C)
    BY <1>1, <1>6, <1>7, CollectCore
  <1>10. P \in PageRecord /\ P.watcher[Render(Root)] \in WatcherRecord
    BY <1>1, <1>6 DEF Core, Shape, PageRecord
  <1>11. /\ C.value = P.value /\ C.len = P.len /\ C.inst = P.inst /\ C.dom = P.dom
         /\ C.notified = P.notified
         /\ \A v \in Watchers \ {Render(Root)} : C.watcher[v] = P.watcher[v]
         /\ C.watcher[Render(Root)] = [P.watcher[Render(Root)] EXCEPT !.deps = read]
    BY <1>1, <1>7, <1>10, CollectFields
  <1> HIDE DEF C
  <1>12. C.watcher[Render(Root)].deps = read
    BY <1>10, <1>11 DEF WatcherRecord
  <1>13. R.len[list] \in VueData
    BY <1>3 DEF PageRecord, VueData
  <1>14. /\ Core(S)
         /\ S.value = P.value /\ S.len = R.len /\ S.watcher = C.watcher
         /\ S.inst = P.inst /\ S.notified = P.notified
         /\ S.dom[Root] = R.len[list] /\ \A m \in Instances \ {Root} : S.dom[m] = P.dom[m]
    BY <1>1, <1>2, <1>6, <1>9, <1>11, <1>13, ShowFields
  <1>15. Child(S) = Child(P) /\ Child(P) \subseteq Instances \ {Root}
    BY <1>14, SameData DEF Child
  <1>16. RootFresh(S)
    <2>1. S.value[Prop(Root, "show")] = show /\ S.value[Prop(Root, "list")] = list
      BY <1>6, <1>14
    <2>2. ASSUME NEW n \in Child(S) PROVE S.value[Prop(n, "p")] = PropOf(S)
      <3>1. show = 1 /\ S.value[Prop(n, "p")] = E.watcher[c].value
        BY <2>2, <1>6, <1>14, <1>15
      <3>2. PropOf(S) = R.value[Prop(Root, "x")]
        BY <1>6, <1>14 DEF PropOf
      <3> QED BY <3>1, <3>2, <1>4
    <2> QED BY <2>1, <2>2, <1>6, <1>8, <1>12, <1>14, <1>15 DEF RootFresh
  <1>17. ChildrenDue(S, H)
    <2>1. ASSUME NEW n \in Child(P)
          PROVE  S.dom[n] = P.dom[n] /\ S.watcher[Render(n)].deps = P.watcher[Render(n)].deps
      BY <2>1, <1>1, <1>11, <1>14, <1>15
    <2> QED BY <2>1, <1>6, <1>14, ChildrenDueCarries
  <1>18. Budget(S, writes)
    BY <1>6, <1>14, <1>15 DEF Budget, Spent
  <1>19. EagerOnly(S.notified)
    BY <1>6, <1>14
  <1> QED BY <1>14, <1>16, <1>17, <1>18, <1>19 DEF S

\* What only the watchers of watch options can tell apart.
LEMMA DueCarries ==
  ASSUME NEW R, NEW S, NEW H, S.value = R.value, S.len = R.len, S.inst = R.inst, S.dom = R.dom,
         S.notified = R.notified,
         \A n \in Instances : S.watcher[Render(n)].deps = R.watcher[Render(n)].deps
  PROVE  /\ Budget(R, writes) => Budget(S, writes)
         /\ RootDue(R, H) => RootDue(S, H)
         /\ ChildrenDue(R, H) => ChildrenDue(S, H)
  <1>1. Child(S) = Child(R) /\ Child(R) \subseteq Instances
    BY SameData DEF Child
  <1>2. Budget(R, writes) => Budget(S, writes)
    BY <1>1 DEF Budget, Spent
  <1>3. RootDue(R, H) => RootDue(S, H)
    BY Ids, RootDueCarries
  <1>4. ChildrenDue(R, H) => ChildrenDue(S, H)
    BY <1>1, ChildrenDueCarries
  <1> QED BY <1>2, <1>3, <1>4

LEMMA UserValueKeeps ==
  ASSUME NEW R, Core(R), NEW n \in Instances, NEW v \in VueData
  PROVE  LET S == [R EXCEPT !.watcher[User(n)].value = v] IN
         /\ Core(S)
         /\ S.value = R.value /\ S.len = R.len /\ S.inst = R.inst /\ S.dom = R.dom
         /\ S.notified = R.notified
         /\ \A m \in Instances : S.watcher[Render(m)] = R.watcher[Render(m)]
  <1> DEFINE u == User(n)
             new == [R.watcher EXCEPT ![u].value = v]
             S == [R EXCEPT !.watcher[u].value = v]
  <1>1. R \in PageRecord
    BY DEF Core, Shape
  <1>2. /\ u \in Watchers
        /\ \A m \in Instances : /\ Computed(m) \in Watchers \ {u}
                                /\ Render(m) \in Watchers \ {u}
    BY Ids
  <1> HIDE DEF u
  <1>3. R.watcher \in [Watchers -> WatcherRecord] /\ R.watcher[u] \in WatcherRecord
    BY <1>1, <1>2 DEF PageRecord
  <1>4. new[u] \in WatcherRecord /\ new[u].active = R.watcher[u].active
        /\ new[u].deps = R.watcher[u].deps
    BY <1>2, <1>3 DEF WatcherRecord
  <1>5. new \in [Watchers -> WatcherRecord] /\ \A w \in Watchers \ {u} : new[w] = R.watcher[w]
    BY <1>3, <1>4
  <1>6. S = [R EXCEPT !.watcher = new]
    OBVIOUS
  <1> HIDE DEF new, S
  <1>7. /\ S \in PageRecord /\ S.watcher = new
        /\ S.value = R.value /\ S.len = R.len /\ S.inst = R.inst /\ S.dom = R.dom
        /\ S.notified = R.notified /\ S.subs = R.subs
    BY <1>1, <1>5, <1>6 DEF PageRecord
  <1>8. \A w \in Watchers : new[w].active = R.watcher[w].active /\ new[w].deps = R.watcher[w].deps
    BY <1>4, <1>5
  <1>9. Subscribed(S)
    BY <1>7, <1>8 DEF Core, Subscribed
  <1>10. Cached(S)
    BY <1>2, <1>5, <1>7, SameData DEF Core, Cached
  <1>11. Living(S)
    BY <1>2, <1>7, <1>8, LivingCarries DEF Core
  <1> QED BY <1>2, <1>5, <1>7, <1>9, <1>10, <1>11 DEF Core, Shape, S, u

LEMMA EvaluateUserKeeps ==
  ASSUME NEW R, Core(R), NEW n \in Instances
  PROVE  LET S == EvaluateUser(R, n) IN
         /\ Core(S)
         /\ S.value = R.value /\ S.len = R.len /\ S.inst = R.inst /\ S.dom = R.dom
         /\ S.notified = R.notified
         /\ \A m \in Instances : S.watcher[Render(m)] = R.watcher[Render(m)]
  <1> DEFINE u == User(n)
             S == EvaluateUser(R, n)
  <1>1. /\ u \in Watchers /\ ~IsLazy(u) /\ Root \in Instances /\ Computed(Root) \in Watchers
        /\ \A m \in Instances : /\ Render(m) \in Watchers \ {u}
                                /\ Render(m) # Computed(Root)
    BY Ids
  <1>0. S = EvaluateUser(R, n)
    OBVIOUS
  <1> SUFFICES /\ Core(S)
               /\ S.value = R.value /\ S.len = R.len /\ S.inst = R.inst /\ S.dom = R.dom
               /\ S.notified = R.notified
               /\ \A m \in Instances : S.watcher[Render(m)] = R.watcher[Render(m)]
    OBVIOUS
  <1> HIDE DEF S
  \* One evaluation that read D and returned v, after E.
  <1>2. ASSUME NEW E, Core(E), E.value = R.value, E.len = R.len, E.inst = R.inst, E.dom = R.dom,
               E.notified = R.notified,
               \A m \in Instances : E.watcher[Render(m)] = R.watcher[Render(m)],
               NEW D \in SUBSET Deps, NEW v \in VueData,
               S = [Collect(E, u, D) EXCEPT !.watcher[u].value = v]
        PROVE  /\ Core(S)
               /\ S.value = R.value /\ S.len = R.len /\ S.inst = R.inst /\ S.dom = R.dom
               /\ S.notified = R.notified
               /\ \A m \in Instances : S.watcher[Render(m)] = R.watcher[Render(m)]
    <2> DEFINE C == Collect(E, u, D)
    <2> HIDE DEF C
    <2>1. E \in PageRecord /\ D \in SUBSET Deps
      BY <1>2 DEF Core, Shape
    <2>2. Core(C)
      BY <1>1, <1>2, CollectCore DEF C
    <2>3. /\ C.value = E.value /\ C.len = E.len /\ C.inst = E.inst /\ C.dom = E.dom
          /\ C.notified = E.notified
          /\ \A w \in Watchers \ {u} : C.watcher[w] = E.watcher[w]
      <3> HIDE DEF u
      <3>1. u \in Watchers
        BY <1>1
      <3> QED BY <2>1, <3>1, CollectKeeps DEF C
    <2>4. S = [C EXCEPT !.watcher[u].value = v]
      BY <1>2 DEF C
    <2>5. /\ Core(S)
          /\ S.value = C.value /\ S.len = C.len /\ S.inst = C.inst /\ S.dom = C.dom
          /\ S.notified = C.notified
          /\ \A m \in Instances : S.watcher[Render(m)] = C.watcher[Render(m)]
      BY <2>2, <2>4, UserValueKeeps
    <2>6. \A m \in Instances : S.watcher[Render(m)] = R.watcher[Render(m)]
      BY <1>1, <1>2, <2>3, <2>5
    <2> QED BY <1>2, <2>3, <2>5, <2>6
  <1>3. CASE n = Root
    <2> DEFINE E == ReadComputed(R, Root)
               c == Computed(Root)
    <2>1. S = [Collect(E, u, E.watcher[c].deps) EXCEPT !.watcher[u].value = E.watcher[c].value]
      BY <1>0, <1>3 DEF EvaluateUser
    <2> HIDE DEF E, u
    <2>2. /\ Core(E)
          /\ E.value = R.value /\ E.len = R.len /\ E.inst = R.inst /\ E.dom = R.dom
          /\ E.notified = R.notified
          /\ \A w \in Watchers \ {c} : E.watcher[w] = R.watcher[w]
          /\ E.watcher[c].deps \in SUBSET Deps
      BY <1>1, ReadComputedCore DEF E
    <2>3. E.watcher[c].value \in VueData
      BY <1>1, <2>2 DEF Core, Shape, PageRecord, WatcherRecord
    <2>4. \A m \in Instances : E.watcher[Render(m)] = R.watcher[Render(m)]
      BY <1>1, <2>2
    <2>5. E.watcher[c].deps \in SUBSET Deps
      BY <2>2
    <2> QED BY <1>2, <2>1, <2>2, <2>3, <2>4, <2>5, Zenon
  <1>4. CASE n # Root
    <2> DEFINE D == {Prop(n, "y")}
               v == R.value[Prop(n, "y")]
    <2>1. S = [Collect(R, u, D) EXCEPT !.watcher[u].value = v]
      BY <1>0, <1>4 DEF EvaluateUser
    <2>2. D \in SUBSET Deps /\ v \in VueData
      BY <1>4, Names DEF Core, Shape, PageRecord
    <2> HIDE DEF D, v, u
    <2> QED BY <1>2, <2>1, <2>2
  <1> QED BY <1>3, <1>4

LEMMA UnwatchKeeps ==
  ASSUME NEW R, Core(R)
  PROVE  LET u == User(Root)
             S == [R EXCEPT !.subs = [d \in Deps |-> @[d] \ {u}], !.watcher[u].active = FALSE] IN
         /\ Core(S)
         /\ S.value = R.value /\ S.len = R.len /\ S.inst = R.inst /\ S.dom = R.dom
         /\ S.notified = R.notified
         /\ \A m \in Instances : S.watcher[Render(m)] = R.watcher[Render(m)]
  <1> DEFINE u == User(Root)
             new == [R.watcher EXCEPT ![u].active = FALSE]
             sub == [d \in Deps |-> R.subs[d] \ {u}]
             S == [R EXCEPT !.subs = [d \in Deps |-> @[d] \ {u}], !.watcher[u].active = FALSE]
  <1>1. R \in PageRecord
    BY DEF Core, Shape
  <1>2. /\ u \in Watchers
        /\ \A m \in Instances : /\ Computed(m) \in Watchers \ {u}
                                /\ Render(m) \in Watchers \ {u}
    BY Ids
  <1> HIDE DEF u
  <1>3. R.watcher \in [Watchers -> WatcherRecord] /\ R.watcher[u] \in WatcherRecord
    BY <1>1, <1>2 DEF PageRecord
  <1>4. new[u] \in WatcherRecord /\ ~new[u].active
    BY <1>2, <1>3 DEF WatcherRecord
  <1>5. new \in [Watchers -> WatcherRecord] /\ \A w \in Watchers \ {u} : new[w] = R.watcher[w]
    BY <1>3, <1>4
  <1>6. sub \in [Deps -> SUBSET Watchers] /\ \A d \in Deps : R.subs[d] \ {u} \subseteq sub[d]
    BY <1>1 DEF PageRecord
  <1>7. S = [R EXCEPT !.subs = sub, !.watcher = new]
    BY <1>1 DEF PageRecord
  <1> HIDE DEF new, S, sub
  <1>8. /\ S \in PageRecord /\ S.watcher = new /\ S.subs = sub
        /\ S.value = R.value /\ S.len = R.len /\ S.inst = R.inst /\ S.dom = R.dom
        /\ S.notified = R.notified
    BY <1>1, <1>5, <1>6, <1>7 DEF PageRecord
  <1>9. Subscribed(S)
    <2>1. ASSUME NEW w \in Watchers, S.watcher[w].active, NEW d \in S.watcher[w].deps
          PROVE  w \in S.subs[d]
      <3>1. w # u /\ S.watcher[w] = R.watcher[w] /\ R.watcher[w] \in WatcherRecord
        BY <2>1, <1>3, <1>4, <1>5, <1>8
      <3>2. d \in Deps /\ w \in R.subs[d]
        BY <3>1, <2>1 DEF Core, Subscribed, WatcherRecord
      <3> QED BY <3>1, <3>2, <1>6, <1>8
    <2> QED BY <2>1 DEF Subscribed
  <1>10. Cached(S)
    BY <1>2, <1>5, <1>8, SameData DEF Core, Cached
  <1>11. Living(S)
    BY <1>2, <1>5, <1>8, LivingCarries DEF Core
  <1> QED BY <1>2, <1>5, <1>8, <1>9, <1>10, <1>11 DEF Core, Shape, S, u

\* Watcher.run, whichever watcher it is.
LEMMA RunKeeps ==
  ASSUME NEW R, Core(R), Budget(R, writes), writes \in 0..MaxWrites, EagerOnly(R.notified),
         NEW w \in Watchers, ~IsLazy(w), NEW H
  PROVE  LET S == RunOf(R, w) IN
         /\ Core(S) /\ Budget(S, writes) /\ EagerOnly(S.notified)
         /\ Fresh(R, H) => Fresh(S, H \ {w})
  <1> DEFINE n == InstanceOf(w)
             S == RunOf(R, w)
  <1>1. /\ n \in Instances /\ w \in {User(n), Render(n)} /\ User(n) # Render(n)
        /\ Root \in Instances /\ User(n) \in Watchers
        /\ \A m \in Instances : Render(m) \in Watchers /\ (Render(m) = w => m = n)
        /\ \A m \in Instances : Render(m) # User(n)
    BY WatcherKinds, Ids
  <1> HIDE DEF n
  <1>2. CASE ~R.watcher[w].active
    <2>1. S = R
      BY <1>2 DEF RunOf
    <2> HIDE DEF S
    <2>2. \A m \in Instances : R.inst[m] = "mounted" => Render(m) # w
      BY <1>2 DEF Core, Living
    <2>3. R.inst[Root] = "mounted" /\ \A m \in Child(R) : m \in Instances /\ R.inst[m] = "mounted"
      BY DEF Core, Living, Child
    <2>4. Fresh(R, H) => Fresh(R, H \ {w})
      BY <1>1, <2>2, <2>3 DEF Fresh, RootDue, ChildrenDue
    <2> QED BY <2>1, <2>4 DEF S
  <1>3. CASE R.watcher[w].active /\ w = User(n)
    <2>1. S = EvaluateUser(R, n)
      BY <1>3 DEF RunOf, n
    <2> HIDE DEF S
    <2>2. /\ Core(S)
          /\ S.value = R.value /\ S.len = R.len /\ S.inst = R.inst /\ S.dom = R.dom
          /\ S.notified = R.notified
          /\ \A m \in Instances : S.watcher[Render(m)] = R.watcher[Render(m)]
      BY <1>1, <2>1, EvaluateUserKeeps
    <2>3. /\ Budget(S, writes)
          /\ RootDue(R, H) => RootDue(S, H)
          /\ ChildrenDue(R, H) => ChildrenDue(S, H)
      BY <2>2, DueCarries
    <2>4. \A m \in Child(S) : m \in Instances
      BY DEF Child
    <2>5. Fresh(S, H) => Fresh(S, H \ {w})
      BY <1>1, <1>3, <2>4 DEF Fresh, RootDue, ChildrenDue
    <2> QED BY <2>2, <2>3, <2>5 DEF Fresh, S
  <1>4. CASE R.watcher[w].active /\ w = Render(n) /\ n = Root
    <2>1. S = RenderRoot(R)
      BY <1>1, <1>4 DEF RunOf, n
    <2> HIDE DEF S
    <2>2. ChildrenDue(R, Watchers)
      BY <1>1 DEF ChildrenDue, Child
    <2>3. Core(S) /\ Budget(S, writes) /\ RootFresh(S) /\ EagerOnly(S.notified)
      BY <2>1, <2>2, RenderRootKeeps
    <2>4. ChildrenDue(R, H) => ChildrenDue(S, H)
      BY <2>1, RenderRootKeeps
    <2>5. \A m \in Child(S) : m \in Instances /\ m # Root
      BY DEF Child
    <2>6. ChildrenDue(S, H) => ChildrenDue(S, H \ {w})
      BY <1>1, <1>4, <2>5 DEF ChildrenDue
    <2> QED BY <2>3, <2>4, <2>6 DEF Fresh, RootDue, S
  <1>5. CASE R.watcher[w].active /\ w = Render(n) /\ n # Root
    <2>1. S = RenderChild(R, n)
      BY <1>1, <1>5 DEF RunOf, n
    <2> HIDE DEF S
    <2>2. /\ Core(S)
          /\ S.value = R.value /\ S.len = R.len /\ S.inst = R.inst
          /\ S.notified = R.notified /\ S.hooks = R.hooks
          /\ \A m \in Instances \ {n} : /\ S.dom[m] = R.dom[m]
                                        /\ S.watcher[Render(m)] = R.watcher[Render(m)]
          /\ n \in Child(R) => ChildFresh(S, n)
          /\ ChildrenDue(R, (H \ {w}) \cup {Render(n)}) => ChildrenDue(S, H \ {w})
          /\ RootDue(R, H \ {w}) => RootDue(S, H \ {w})
      <3> HIDE DEF n
      <3> DEFINE C == RenderChild(R, n)
      <3>1. /\ Core(C)
            /\ C.value = R.value /\ C.len = R.len /\ C.inst = R.inst
            /\ C.notified = R.notified /\ C.hooks = R.hooks
            /\ \A m \in Instances \ {n} : /\ C.dom[m] = R.dom[m]
                                          /\ C.watcher[Render(m)] = R.watcher[Render(m)]
            /\ n \in Child(R) => ChildFresh(C, n)
            /\ ChildrenDue(R, (H \ {w}) \cup {Render(n)}) => ChildrenDue(C, H \ {w})
            /\ RootDue(R, H \ {w}) => RootDue(C, H \ {w})
        BY <1>1, <1>5, RenderChildKeeps, Zenon
      <3> QED BY <2>1, <3>1, Zenon
    <2>3. Budget(S, writes)
      BY <2>2, SameData DEF Budget, Spent
    <2>4. ASSUME Fresh(R, H)
          PROVE  ChildrenDue(R, (H \ {w}) \cup {Render(n)}) /\ RootDue(R, H \ {w})
      <3>1. Render(Root) # w
        BY <1>1, <1>5
      <3> QED BY <3>1, <2>4, <1>5 DEF Fresh, RootDue, ChildrenDue
    <2> QED BY <2>2, <2>3, <2>4 DEF Fresh, S
  <1> HIDE DEF S
  <1> QED BY <1>1, <1>2, <1>3, <1>4, <1>5 DEF S

-----------------------------------------------------------------------------
\* The page as a whole, between two steps.
PageInv ==
    /\ Core(Current) /\ Budget(Current, writes) /\ writes \in 0..MaxWrites
    /\ EagerOnly(has \cup notified)
    /\ ~gaveUp /\ ~thrown => Fresh(Current, has)

\* Callbacks in the order in which they will be called.
Line == copies \o callbacks

\* ws holds what each callback of the page in the line L waits for; as long as
\* all is calm, those that are called before the flush wait for nothing.
Placed(ws, L, flush, calm) ==
    /\ ~Asked(L) => /\ Len(ws) = Len(L)
                    /\ calm /\ ~flush => \A i \in DOMAIN ws : ws[i] = {}
    /\ \A f \in DOMAIN L : L[f] = Flush =>
           /\ Len(ws) = Len(L) - 1
           /\ calm => \A i \in DOMAIN ws : i < f => ws[i] = {}

WantsInv ==
    /\ wants \in Seq(SUBSET Instances)
    /\ \A i \in DOMAIN wants : \A n \in wants[i] : Stale(Current, n)
    /\ Placed(wants, Line, flushing, ~gaveUp /\ ~thrown)
    /\ ~gaveUp /\ ~thrown /\ flushing => phase \in {"loop", "run"}

LEMMA Shrunk ==
  ASSUME NEW ws \in Seq(SUBSET Instances), NEW L, NEW fl, NEW calm, Placed(ws, L, fl, calm),
         NEW vs \in Seq(SUBSET Instances), Len(vs) = Len(ws),
         \A i \in 1..Len(ws) : vs[i] \subseteq ws[i]
  PROVE  Placed(vs, L, fl, calm)
  <1>1. DOMAIN ws = 1..Len(ws) /\ DOMAIN vs = 1..Len(ws)
    OBVIOUS
  <1>2. \A i \in 1..Len(ws) : ws[i] = {} => vs[i] = {}
    OBVIOUS
  <1> QED BY <1>1, <1>2 DEF Placed

LEMMA PageTickAdded ==
  ASSUME NEW ws \in Seq(SUBSET Instances), NEW L \in Seq({Flush, PageTick}), NEW fl,
         NEW calm, Placed(ws, L, fl, calm), NEW s \in SUBSET Instances,
         calm /\ ~Asked(L) /\ ~fl => s = {}
  PROVE  Placed(Append(ws, s), Append(L, PageTick), fl, calm)
  <1> DEFINE vs == Append(ws, s)
             M == Append(L, PageTick)
  <1>1. /\ Len(ws) \in Nat /\ Len(L) \in Nat
        /\ DOMAIN ws = 1..Len(ws) /\ DOMAIN L = 1..Len(L)
        /\ Len(vs) = Len(ws) + 1 /\ Len(M) = Len(L) + 1
        /\ DOMAIN vs = 1..(Len(ws) + 1) /\ DOMAIN M = 1..(Len(L) + 1)
        /\ \A i \in 1..Len(ws) : vs[i] = ws[i]
        /\ vs[Len(ws) + 1] = s
        /\ \A i \in 1..Len(L) : M[i] = L[i]
        /\ M[Len(L) + 1] = PageTick
    OBVIOUS
  <1> HIDE DEF vs, M
  <1>2. \A i \in 1..(Len(L) + 1) : i \in 1..Len(L) \/ i = Len(L) + 1
    BY <1>1
  <1>3. \A i \in 1..(Len(ws) + 1) : i \in 1..Len(ws) \/ i = Len(ws) + 1
    BY <1>1
  <1>4. ASSUME ~Asked(M)
        PROVE  Len(vs) = Len(M) /\ (calm /\ ~fl => \A i \in DOMAIN vs : vs[i] = {})
    <2>1. ~Asked(L)
      BY <1>1, <1>4 DEF Asked
    <2> QED BY <2>1, <1>1, <1>3 DEF Placed
  <1>5. ASSUME NEW f \in DOMAIN M, M[f] = Flush
        PROVE  Len(vs) = Len(M) - 1 /\ (calm => \A i \in DOMAIN vs : i < f => vs[i] = {})
    <2>1. f \in DOMAIN L /\ L[f] = Flush
      BY <1>1, <1>2, <1>5, FlushIsNoPageTick
    <2>2. Len(ws) = Len(L) - 1 /\ (calm => \A i \in DOMAIN ws : i < f => ws[i] = {})
      BY <2>1 DEF Placed
    <2>3. ASSUME calm, NEW i \in DOMAIN vs, i < f PROVE vs[i] = {}
      <3>1. i \in 1..Len(ws)
        BY <2>1, <2>2, <2>3, <1>1
      <3> QED BY <3>1, <2>2, <2>3, <1>1
    <2> QED BY <2>2, <2>3, <1>1
  <1> QED BY <1>4, <1>5 DEF Placed, vs, M

LEMMA FlushAdded ==
  ASSUME NEW ws \in Seq(SUBSET Instances), NEW L \in Seq({Flush, PageTick}),
         NEW calm, Placed(ws, L, FALSE, calm), ~Asked(L), NEW fl
  PROVE  Placed(ws, Append(L, Flush), fl, calm)
  <1> DEFINE M == Append(L, Flush)
  <1>1. /\ Len(L) \in Nat /\ Len(M) = Len(L) + 1 /\ DOMAIN M = 1..(Len(L) + 1)
        /\ M[Len(L) + 1] = Flush
    OBVIOUS
  <1> HIDE DEF M
  <1>2. Len(ws) = Len(L) /\ (calm => \A i \in DOMAIN ws : ws[i] = {})
    BY DEF Placed
  <1>3. Asked(M)
    BY <1>1 DEF Asked
  <1> QED BY <1>1, <1>2, <1>3 DEF Placed, M

LEMMA PageTickCalled ==
  ASSUME NEW ws \in Seq(SUBSET Instances), NEW L \in Seq({Flush, PageTick}),
         L # <<>>, Head(L) = PageTick, NEW fl, NEW calm, Placed(ws, L, fl, calm)
  PROVE  /\ ws # <<>> /\ (calm /\ ~fl => Head(ws) = {}) /\ Tail(ws) \in Seq(SUBSET Instances)
         /\ \A i \in 1..Len(Tail(ws)) : i + 1 \in 1..Len(ws) /\ Tail(ws)[i] = ws[i + 1]
         /\ Placed(Tail(ws), Tail(L), fl, calm)
  <1> DEFINE vs == Tail(ws)
             M == Tail(L)
  <1>1. /\ Len(L) \in Nat /\ Len(L) > 0 /\ DOMAIN L = 1..Len(L) /\ L[1] = PageTick
        /\ Len(M) = Len(L) - 1 /\ DOMAIN M = 1..(Len(L) - 1)
        /\ \A i \in 1..(Len(L) - 1) : M[i] = L[i + 1]
    OBVIOUS
  <1>2. Len(ws) > 0 /\ (calm /\ ~fl => ws[1] = {})
    <2>1. CASE ~Asked(L)
      BY <2>1, <1>1 DEF Placed
    <2>2. CASE Asked(L)
      <3>1. PICK f \in DOMAIN L : L[f] = Flush
        BY <2>2 DEF Asked
      <3>2. f > 1 /\ f <= Len(L)
        BY <3>1, <1>1, FlushIsNoPageTick
      <3>3. Len(ws) = Len(L) - 1 /\ (calm => \A i \in DOMAIN ws : i < f => ws[i] = {})
        BY <3>1 DEF Placed
      <3>4. Len(ws) > 0 /\ 1 \in DOMAIN ws
        BY <3>2, <3>3, <1>1
      <3> QED BY <3>2, <3>3, <3>4
    <2> QED BY <2>1, <2>2
  <1>3. /\ Len(ws) \in Nat /\ DOMAIN ws = 1..Len(ws) /\ ws # <<>> /\ Head(ws) = ws[1]
        /\ vs \in Seq(SUBSET Instances)
        /\ Len(vs) = Len(ws) - 1 /\ DOMAIN vs = 1..(Len(ws) - 1)
        /\ \A i \in 1..(Len(ws) - 1) : vs[i] = ws[i + 1]
    BY <1>2
  <1> HIDE DEF vs, M
  <1>4. \A i \in 1..(Len(ws) - 1) : i + 1 \in 1..Len(ws)
    BY <1>3
  <1>5. \A i \in 1..(Len(L) - 1) : i + 1 \in 1..Len(L)
    BY <1>1
  <1>6. ASSUME ~Asked(M)
        PROVE  Len(vs) = Len(M) /\ (calm /\ ~fl => \A i \in DOMAIN vs : vs[i] = {})
    <2>1. ~Asked(L)
      <3>1. ASSUME NEW f \in DOMAIN L, L[f] = Flush PROVE FALSE
        <4>1. f - 1 \in 1..(Len(L) - 1) /\ M[f - 1] = L[f]
          BY <3>1, <1>1, FlushIsNoPageTick
        <4> QED BY <4>1, <3>1, <1>1, <1>6 DEF Asked
      <3> QED BY <3>1 DEF Asked
    <2>2. Len(ws) = Len(L) /\ (calm /\ ~fl => \A i \in DOMAIN ws : ws[i] = {})
      BY <2>1 DEF Placed
    <2> QED BY <2>2, <1>1, <1>3, <1>4
  <1>7. ASSUME NEW f \in DOMAIN M, M[f] = Flush
        PROVE  Len(vs) = Len(M) - 1 /\ (calm => \A i \in DOMAIN vs : i < f => vs[i] = {})
    <2>1. f + 1 \in DOMAIN L /\ L[f + 1] = Flush /\ f \in Int
      BY <1>1, <1>5, <1>7
    <2>2. Len(ws) = Len(L) - 1 /\ (calm => \A i \in DOMAIN ws : i < f + 1 => ws[i] = {})
      BY <2>1 DEF Placed
    <2>3. ASSUME calm, NEW i \in DOMAIN vs, i < f PROVE vs[i] = {}
      <3>1. i + 1 \in DOMAIN ws /\ i + 1 < f + 1 /\ vs[i] = ws[i + 1]
        BY <2>1, <2>3, <1>3, <1>4
      <3> QED BY <3>1, <2>2, <2>3
    <2> QED BY <2>2, <2>3, <1>1, <1>3
  <1>8. Placed(vs, M, fl, calm)
    BY <1>6, <1>7 DEF Placed
  <1> QED BY <1>2, <1>3, <1>4, <1>8 DEF vs, M

LEMMA FlushCalled ==
  ASSUME NEW ws \in Seq(SUBSET Instances), NEW L \in Seq({Flush, PageTick}),
         L # <<>>, Head(L) = Flush, ~Asked(Tail(L)), NEW fl, NEW calm, Placed(ws, L, fl, calm)
  PROVE  Placed(ws, Tail(L), TRUE, calm)
  <1>1. Len(Tail(L)) = Len(L) - 1 /\ 1 \in DOMAIN L /\ L[1] = Flush
    OBVIOUS
  <1>2. Len(ws) = Len(Tail(L))
    BY <1>1 DEF Placed
  <1> QED BY <1>2 DEF Placed, Asked

LEMMA FlushDone ==
  ASSUME NEW ws, NEW L, NEW calm, Placed(ws, L, TRUE, calm), ~Asked(L),
         calm => \A i \in DOMAIN ws : ws[i] = {}
  PROVE  Placed(ws, L, FALSE, calm)
  BY DEF Placed, Asked

\* Two queues of callbacks, read as one line.
LEMMA Joined ==
  ASSUME NEW a \in Seq({Flush, PageTick}), NEW b \in Seq({Flush, PageTick})
  PROVE  /\ a \o b \in Seq({Flush, PageTick})
         /\ Asked(a \o b) <=> Asked(a) \/ Asked(b)
         /\ \A cb \in {Flush, PageTick} : a \o Append(b, cb) = Append(a \o b, cb)
         /\ a # <<>> => /\ a \o b # <<>> /\ Head(a \o b) = Head(a)
                        /\ Tail(a \o b) = Tail(a) \o b
         /\ <<>> \o b = b
  <1>1. /\ Len(a) \in Nat /\ Len(b) \in Nat /\ DOMAIN a = 1..Len(a) /\ DOMAIN b = 1..Len(b)
        /\ a \o b \in Seq({Flush, PageTick}) /\ Len(a \o b) = Len(a) + Len(b)
        /\ DOMAIN (a \o b) = 1..(Len(a) + Len(b))
    OBVIOUS
  <1>2. /\ \A i \in 1..Len(a) : (a \o b)[i] = a[i]
        /\ \A i \in 1..Len(b) : (a \o b)[Len(a) + i] = b[i]
    OBVIOUS
  <1>3. Asked(a) => Asked(a \o b)
    <2>1. ASSUME NEW i \in 1..Len(a), a[i] = Flush
          PROVE  i \in 1..(Len(a) + Len(b)) /\ (a \o b)[i] = Flush
      BY <2>1, <1>1, <1>2
    <2> QED BY <2>1, <1>1 DEF Asked
  <1>4. Asked(b) => Asked(a \o b)
    <2>1. ASSUME NEW i \in 1..Len(b), b[i] = Flush
          PROVE  Len(a) + i \in 1..(Len(a) + Len(b)) /\ (a \o b)[Len(a) + i] = Flush
      BY <2>1, <1>1, <1>2
    <2> QED BY <2>1, <1>1 DEF Asked
  <1>5. Asked(a \o b) => Asked(a) \/ Asked(b)
    <2>1. ASSUME NEW i \in 1..(Len(a) + Len(b)), (a \o b)[i] = Flush PROVE Asked(a) \/ Asked(b)
      <3>1. CASE i \in 1..Len(a)
        BY <3>1, <2>1, <1>1, <1>2 DEF Asked
      <3>2. CASE i \notin 1..Len(a)
        <4>1. i - Len(a) \in 1..Len(b) /\ Len(a) + (i - Len(a)) = i
          BY <3>2, <1>1
        <4>2. b[i - Len(a)] = Flush
          BY <4>1, <2>1, <1>2
        <4> QED BY <4>1, <4>2, <1>1 DEF Asked
      <3> QED BY <3>1, <3>2
    <2> QED BY <2>1, <1>1 DEF Asked
  <1>6. ASSUME NEW cb \in {Flush, PageTick} PROVE a \o Append(b, cb) = Append(a \o b, cb)
    OBVIOUS
  <1>7. ASSUME a # <<>>
        PROVE  /\ a \o b # <<>> /\ Head(a \o b) = Head(a)
               /\ Tail(a \o b) = Tail(a) \o b
    BY <1>7
  <1>8. <<>> \o b = b
    OBVIOUS
  <1> QED BY <1>1, <1>3, <1>4, <1>5, <1>6, <1>7, <1>8

-----------------------------------------------------------------------------
\* The fields of the record are all there is to it.
LEMMA SameFields ==
  ASSUME NEW R, Core(R), NEW S, S \in PageRecord,
         S.value = R.value, S.len = R.len, S.subs = R.subs, S.watcher = R.watcher,
         S.inst = R.inst, S.dom = R.dom, S.notified = R.notified, NEW H, NEW spent
  PROVE  /\ Core(S) /\ (Budget(R, spent) => Budget(S, spent))
         /\ Fresh(R, H) => Fresh(S, H)
         /\ \A n : Stale(S, n) <=> Stale(R, n)
  <1>1. Child(S) = Child(R)
    BY SameData
  <1>2. Core(S)
    BY <1>1, SameData DEF Core, Shape, Subscribed, Cached, Living
  <1>3. Budget(R, spent) => Budget(S, spent)
    BY <1>1 DEF Budget, Spent
  <1>4. Fresh(R, H) => Fresh(S, H)
    BY RootDueCarries, ChildrenDueCarries DEF Fresh
  <1>5. ASSUME NEW n PROVE Stale(S, n) <=> Stale(R, n)
    BY <1>1, SameData DEF Stale, Shown
  <1> QED BY <1>2, <1>3, <1>4, <1>5

LEMMA Becomes ==
  ASSUME NEW R, Core(R), Become(R), NEW H, NEW spent
  PROVE  /\ Core(Current') /\ (Budget(R, spent) => Budget(Current', spent))
         /\ Fresh(R, H) => Fresh(Current', H)
         /\ \A n : Stale(Current', n) <=> Stale(R, n)
         /\ Current'.notified = R.notified /\ notified' = R.notified
  <1> DEFINE N == Current'
  <1>1. /\ N = [value |-> R.value, len |-> R.len, subs |-> R.subs, watcher |-> R.watcher,
                inst |-> R.inst, dom |-> R.dom, notified |-> R.notified, hooks |-> FALSE]
        /\ notified' = R.notified
    BY DEF Current, Become
  <1>2. R \in PageRecord
    BY DEF Core, Shape
  <1> HIDE DEF N
  <1>3. /\ N \in PageRecord
        /\ N.value = R.value /\ N.len = R.len /\ N.subs = R.subs /\ N.watcher = R.watcher
        /\ N.inst = R.inst /\ N.dom = R.dom /\ N.notified = R.notified
    BY <1>1, <1>2 DEF PageRecord
  <1>4. /\ Core(N) /\ (Budget(R, spent) => Budget(N, spent))
        /\ Fresh(R, H) => Fresh(N, H)
        /\ \A n : Stale(N, n) <=> Stale(R, n)
    BY <1>3, SameFields
  <1> QED BY <1>1, <1>3, <1>4 DEF N

LEMMA Refreshed ==
  ASSUME NEW ws \in Seq(SUBSET Instances), NEW R, NEW done
  PROVE  LET vs == Refresh(ws, R, done) IN
         /\ vs \in Seq(SUBSET Instances) /\ Len(vs) = Len(ws)
         /\ \A i \in 1..Len(ws) : vs[i] \subseteq ws[i] /\ \A n \in vs[i] : Stale(R, n)
  <1> DEFINE vs == Refresh(ws, R, done)
  <1>1. DOMAIN ws = 1..Len(ws) /\ Len(ws) \in Nat
        /\ \A i \in 1..Len(ws) : ws[i] \in SUBSET Instances
    OBVIOUS
  <1>2. vs = [i \in 1..Len(ws) |-> { n \in ws[i] : n \notin done /\ Stale(R, n) }]
    BY <1>1 DEF Refresh
  <1>3. vs \in [1..Len(ws) -> SUBSET Instances]
    BY <1>1, <1>2
  <1>4. vs \in Seq(SUBSET Instances) /\ Len(vs) = Len(ws)
    BY <1>1, <1>2, <1>3
  <1>5. ASSUME NEW i \in 1..Len(ws) PROVE vs[i] \subseteq ws[i] /\ \A n \in vs[i] : Stale(R, n)
    BY <1>2
  <1> HIDE DEF vs
  <1> QED BY <1>4, <1>5 DEF vs

\* When no render is due, nothing is stale.
LEMMA NotDueNotStale ==
  ASSUME NEW R, Core(R), NEW H, Fresh(R, H), NEW n \in Instances, Stale(R, n)
  PROVE  {Render(n), Render(Root)} \cap (H \cup R.notified) # {}
  <1> SUFFICES ASSUME Render(n) \notin H \cup R.notified, Render(Root) \notin H \cup R.notified
               PROVE  FALSE
    OBVIOUS
  <1>1. RootFresh(R)
    BY DEF Fresh, RootDue
  <1>2. CASE n = Root
    BY <1>1, <1>2 DEF Stale, Shown, RootFresh
  <1>3. CASE n # Root
    <2>1. n \in Child(R)
      BY <1>3 DEF Stale, Child
    <2>2. ChildFresh(R, n) /\ R.value[Prop(n, "p")] = PropOf(R)
      BY <2>1, <1>1 DEF Fresh, ChildrenDue, RootFresh
    <2> QED BY <1>3, <2>2 DEF Stale, Shown, ChildFresh
  <1> QED BY <1>2, <1>3

\* A stretch of code that ends in the record R.
LEMMA BecomesInv ==
  ASSUME PageInv, NEW R, Core(R), Become(R), EagerOnly(R.notified), Budget(R, writes'),
         writes' \in 0..MaxWrites, has' \subseteq has, UNCHANGED <<gaveUp, thrown>>,
         Fresh(Current, has) => Fresh(R, has')
  PROVE  PageInv'
  <1>1. /\ Core(Current') /\ Budget(Current', writes')
        /\ Fresh(R, has') => Fresh(Current', has')
        /\ notified' = R.notified
    BY Becomes
  <1>2. EagerOnly(has' \cup notified')
    BY <1>1 DEF PageInv, EagerOnly
  <1>3. ~gaveUp' /\ ~thrown' => Fresh(Current', has')
    BY <1>1 DEF PageInv
  <1> QED BY <1>1, <1>2, <1>3 DEF PageInv

LEMMA BecomesWants ==
  ASSUME WantsInv, NEW R, Core(R), Become(R), NEW done, wants' = Refresh(wants, R, done),
         UNCHANGED <<gaveUp, thrown, callbacks, copies, flushing>>,
         flushing => phase' \in {"loop", "run"} \/ phase' = phase
  PROVE  WantsInv'
  <1>1. \A n : Stale(Current', n) <=> Stale(R, n)
    BY Becomes
  <1>2. wants \in Seq(SUBSET Instances)
    BY DEF WantsInv
  <1>3. /\ wants' \in Seq(SUBSET Instances) /\ Len(wants') = Len(wants)
        /\ \A i \in 1..Len(wants) : wants'[i] \subseteq wants[i] /\ \A n \in wants'[i] : Stale(R, n)
    BY <1>2, Refreshed
  <1>4. DOMAIN wants' = 1..Len(wants)
    BY <1>3
  <1>5. \A i \in DOMAIN wants' : \A n \in wants'[i] : Stale(Current', n)
    BY <1>1, <1>3, <1>4
  <1>6. Line' = Line
    BY DEF Line
  <1>7. Placed(wants', Line', flushing', ~gaveUp' /\ ~thrown')
    <2> DEFINE calm == ~gaveUp /\ ~thrown
    <2>1. calm' = calm /\ Placed(wants, Line, flushing, calm)
      BY DEF WantsInv
    <2> HIDE DEF calm
    <2>2. Placed(wants', Line, flushing, calm)
      BY <2>1, <1>2, <1>3, Shrunk
    <2> QED BY <2>1, <2>2, <1>6 DEF calm
  <1>8. ~gaveUp' /\ ~thrown' /\ flushing' => phase' \in {"loop", "run"}
    BY DEF WantsInv
  <1> QED BY <1>3, <1>5, <1>7, <1>8 DEF WantsInv

\* A step that leaves the data alone.
LEMMA StillInv ==
  ASSUME PageInv, UNCHANGED <<reactiveVars, notified, writes>>, has' \subseteq has,
         ~gaveUp' /\ ~thrown' => ~gaveUp /\ ~thrown /\ has' = has
  PROVE  PageInv'
  <1>1. Current' = Current /\ notified' = notified /\ writes' = writes
    BY DEF Current, reactiveVars
  <1>2. EagerOnly(has' \cup notified')
    BY <1>1 DEF PageInv, EagerOnly
  <1> QED BY <1>1, <1>2 DEF PageInv

LEMMA StillWants ==
  ASSUME WantsInv, UNCHANGED <<reactiveVars, notified, wants>>,
         ~gaveUp' /\ ~thrown' /\ flushing' => phase' \in {"loop", "run"},
         Placed(wants, Line', flushing', ~gaveUp' /\ ~thrown')
  PROVE  WantsInv'
  <1>1. Current' = Current /\ wants' = wants
    BY DEF Current, reactiveVars
  <1> QED BY <1>1 DEF WantsInv

-----------------------------------------------------------------------------
LEMMA CurrentFields ==
  /\ Current.value = value /\ Current.len = len /\ Current.subs = subs
  /\ Current.watcher = watcher /\ Current.inst = inst /\ Current.dom = dom
  /\ Current.notified = notified
  BY DEF Current

LEMMA PageStepKeeps ==
  ASSUME PageInv, WantsInv, NEW R, PageStep(R), Core(R), EagerOnly(R.notified),
         Budget(R, writes'), writes' \in 0..MaxWrites,
         Fresh(Current, has) => Fresh(R, has)
  PROVE  PageInv' /\ WantsInv'
  <1>1. /\ Become(R) /\ wants' = Refresh(wants, R, {})
        /\ has' = has /\ phase' = phase
        /\ UNCHANGED <<gaveUp, thrown, callbacks, copies, flushing>>
    BY DEF PageStep, vars, schedulerVars, tickVars
  <1>2. PageInv'
    BY <1>1, BecomesInv
  <1>3. WantsInv'
    BY <1>1, BecomesWants
  <1> QED BY <1>2, <1>3

LEMMA WriteDataKeeps ==
  ASSUME PageInv, WantsInv, NEW d \in Props, NEW v \in VueData, WriteData(d, v),
         \A n : d # Prop(n, "p"),
         d = Prop(Root, "list") => v \in Arrays
  PROVE  PageInv' /\ WantsInv'
  <1> DEFINE S == Assign(Current, d, v)
  <1>1. /\ writes < MaxWrites /\ v # value[d] /\ PageStep(S) /\ writes' = writes + 1
    BY DEF WriteData
  <1>2. Core(Current) /\ Budget(Current, writes) /\ writes \in 0..MaxWrites
        /\ EagerOnly(Current.notified)
    BY CurrentFields DEF PageInv, EagerOnly
  <1> HIDE DEF S
  <1>3. /\ Core(S)
        /\ S.value[d] = v /\ (\A e \in Props \ {d} : S.value[e] = Current.value[e])
        /\ S.inst = Current.inst
        /\ EagerOnly(S.notified)
    BY <1>2, AssignKeeps DEF S
  <1>4. Fresh(Current, has) => Fresh(S, has)
    <2>1. ChildrenDue(Current, has) => ChildrenDue(S, has)
      BY <1>2, AssignKeeps DEF S
    <2>2. RootDue(Current, has) => RootDue(S, has)
      BY <1>2, AssignKeeps DEF S
    <2> QED BY <2>1, <2>2 DEF Fresh
  <1>5. writes' \in 0..MaxWrites /\ writes \in Int /\ writes' \in Int
    BY <1>1, <1>2, PageAssumption
  <1>6. Budget(S, writes')
    <2>1. Child(S) = Child(Current)
      BY <1>3 DEF Child
    <2>2. PICK k \in 0..MaxChildren :
              /\ \A n \in Instances \ {Root} : Current.inst[n] = "none" <=> n > k
              /\ Spent(Current, k) <= writes
      BY <1>2 DEF Budget
    <2> DEFINE show == Prop(Root, "show")
    <2>3. show \in Props
      BY Names
    <2>4. Spent(S, k) <= Spent(Current, k) + 1
      <3>1. CASE d # show
        BY <3>1, <2>1, <2>3, <1>3 DEF Spent
      <3>2. CASE d = show
        <4>1. S.value[show] # Current.value[show]
          BY <3>2, <1>1, <1>3, CurrentFields
        <4> HIDE DEF show
        <4>2. \A b \in BOOLEAN :
                (IF Current.value[show] # 1 THEN 2 * k ELSE IF b THEN 2 * k + 1 ELSE 2 * k - 1) + 1
                  >= (IF S.value[show] # 1 THEN 2 * k ELSE IF b THEN 2 * k + 1 ELSE 2 * k - 1)
          BY <4>1
        <4> QED BY <4>2, <2>1 DEF Spent, show
      <3> QED BY <3>1, <3>2
    <2>5. Spent(S, k) \in Int /\ Spent(Current, k) \in Int
      BY DEF Spent
    <2>6. Spent(S, k) <= writes'
      BY <2>2, <2>4, <2>5, <1>1, <1>5
    <2> QED BY <2>2, <2>6, <1>3 DEF Budget
  <1> QED BY <1>1, <1>3, <1>4, <1>5, <1>6, PageStepKeeps

LEMMA PushStepKeeps ==
  ASSUME PageInv, WantsInv, NEW a \in Arrays, Push(a)
  PROVE  PageInv' /\ WantsInv'
  <1> DEFINE S == NotifyDep([Current EXCEPT !.len[a] = 1], Observer(a))
  <1>1. writes < MaxWrites /\ PageStep(S) /\ writes' = writes + 1
    BY DEF Push
  <1>2. Core(Current) /\ Budget(Current, writes) /\ writes \in 0..MaxWrites
        /\ EagerOnly(Current.notified)
    BY CurrentFields DEF PageInv, EagerOnly
  <1>3. \A H : /\ Core(S) /\ S.value = Current.value /\ S.inst = Current.inst
               /\ EagerOnly(Current.notified) => EagerOnly(S.notified)
               /\ ChildrenDue(Current, H) => ChildrenDue(S, H)
               /\ RootDue(Current, H) => RootDue(S, H)
    BY <1>2, PushKeeps
  <1> HIDE DEF S
  <1>4. writes' \in 0..MaxWrites
    BY <1>1, <1>2, PageAssumption
  <1>5. Budget(S, writes')
    <2>1. PICK k \in 0..MaxChildren :
              /\ \A n \in Instances \ {Root} : Current.inst[n] = "none" <=> n > k
              /\ Spent(Current, k) <= writes
      BY <1>2 DEF Budget
    <2>2. Spent(S, k) = Spent(Current, k) /\ Spent(S, k) \in Int
      BY <1>3, SameData DEF Spent
    <2>3. Spent(S, k) <= writes'
      BY <2>1, <2>2, <1>1, <1>2, PageAssumption
    <2> QED BY <2>1, <2>3, <1>3 DEF Budget
  <1>6. Fresh(Current, has) => Fresh(S, has)
    BY <1>3 DEF Fresh
  <1> QED BY <1>1, <1>2, <1>3, <1>4, <1>5, <1>6, PageStepKeeps

LEMMA ReadTotalKeeps ==
  ASSUME PageInv, WantsInv, NEW n \in Instances, ReadTotal(n)
  PROVE  PageInv' /\ WantsInv'
  <1> DEFINE S == ReadComputed(Current, n)
  <1>1. PageStep(S) /\ writes' = writes
    BY DEF ReadTotal
  <1>2. Core(Current) /\ Budget(Current, writes) /\ writes \in 0..MaxWrites
        /\ EagerOnly(Current.notified)
    BY CurrentFields DEF PageInv, EagerOnly
  <1> HIDE DEF S
  <1>3. /\ Core(S)
        /\ S.value = Current.value /\ S.len = Current.len /\ S.inst = Current.inst
        /\ S.dom = Current.dom /\ S.notified = Current.notified
        /\ \A v \in Watchers \ {Computed(n)} : S.watcher[v] = Current.watcher[v]
    BY <1>2, ReadComputedCore DEF S
  <1>4. \A m \in Instances : S.watcher[Render(m)] = Current.watcher[Render(m)]
    <2>1. ASSUME NEW m \in Instances PROVE Render(m) \in Watchers \ {Computed(n)}
      BY Ids
    <2> QED BY <2>1, <1>3
  <1>5. Budget(S, writes) /\ (Fresh(Current, has) => Fresh(S, has))
    BY <1>2, <1>3, <1>4, DueCarries DEF Fresh
  <1> QED BY <1>1, <1>2, <1>3, <1>5, PageStepKeeps

LEMMA UnwatchStepKeeps ==
  ASSUME PageInv, WantsInv, Unwatch
  PROVE  PageInv' /\ WantsInv'
  <1> DEFINE S == [Current EXCEPT !.subs = [d \in Deps |-> @[d] \ {User(Root)}],
                                  !.watcher[User(Root)].active = FALSE]
  <1>1. PageStep(S) /\ writes' = writes
    BY DEF Unwatch
  <1>2. Core(Current) /\ Budget(Current, writes) /\ writes \in 0..MaxWrites
        /\ EagerOnly(Current.notified)
    BY CurrentFields DEF PageInv, EagerOnly
  <1>3. /\ Core(S)
        /\ S.value = Current.value /\ S.len = Current.len /\ S.inst = Current.inst
        /\ S.dom = Current.dom /\ S.notified = Current.notified
        /\ \A m \in Instances : S.watcher[Render(m)] = Current.watcher[Render(m)]
    BY <1>2, UnwatchKeeps
  <1> HIDE DEF S
  <1>4. Budget(S, writes) /\ (Fresh(Current, has) => Fresh(S, has))
    BY <1>2, <1>3, DueCarries DEF Fresh
  <1> QED BY <1>1, <1>2, <1>3, <1>4, PageStepKeeps

-----------------------------------------------------------------------------
LEMMA LineFacts ==
  ASSUME Inv
  PROVE  /\ callbacks \in Seq({Flush, PageTick}) /\ copies \in Seq({Flush, PageTick})
         /\ Line \in Seq({Flush, PageTick})
         /\ Asked(Line) <=> Asked(copies) \/ Asked(callbacks)
         /\ flushing \/ ~waiting => ~Asked(Line)
         /\ ~Asked(Line) /\ ~flushing => has = {} /\ ~waiting
  <1>1. callbacks \in Seq({Flush, PageTick}) /\ copies \in Seq({Flush, PageTick})
    BY DEF Inv, SchedulerTypeOK
  <1>2. Line \in Seq({Flush, PageTick}) /\ (Asked(Line) <=> Asked(copies) \/ Asked(callbacks))
    BY <1>1, Joined DEF Line
  <1>3. flushing \/ ~waiting => ~Asked(Line)
    BY <1>2 DEF Inv, FlushState
  <1>4. ASSUME ~Asked(Line), ~flushing PROVE has = {} /\ ~waiting
    <2>1. ~waiting
      BY <1>2, <1>4 DEF Inv, FlushState
    <2>2. queue = <<>> /\ index = 0
      BY <2>1, <1>4 DEF Inv, LoopShape
    <2>3. (index + 1)..Len(queue) = {}
      BY <2>2
    <2> QED BY <2>1, <2>3 DEF Inv, HasIsTheRest
  <1> QED BY <1>1, <1>2, <1>3, <1>4

\* With nothing queued and nothing notified, the page is up to date.
LEMMA NothingStale ==
  ASSUME PageInv, Quiet, has = {}, ~gaveUp, ~thrown
  PROVE  \A n \in Instances : ~Stale(Current, n)
  <1>1. has \cup Current.notified = {}
    BY CurrentFields DEF Quiet
  <1>2. Core(Current) /\ Fresh(Current, has)
    BY DEF PageInv
  <1>3. ASSUME NEW n \in Instances, Stale(Current, n) PROVE FALSE
    <2>1. {Render(n), Render(Root)} \cap (has \cup Current.notified) # {}
      BY <1>2, <1>3, NotDueNotStale
    <2> QED BY <2>1, <1>1
  <1> QED BY <1>3

LEMMA GiveTickKeeps ==
  ASSUME Inv, PageInv, WantsInv, GiveTick
  PROVE  PageInv' /\ WantsInv'
  <1> DEFINE s == { n \in Instances : Stale(Current, n) }
  <1>1. /\ Quiet /\ callbacks' = Append(callbacks, PageTick) /\ wants' = Append(wants, s)
        /\ UNCHANGED <<reactiveVars, notified, writes, gaveUp, thrown>>
        /\ has' = has /\ flushing' = flushing /\ copies' = copies /\ phase' = phase
    BY DEF GiveTick, MayWrite, CallNextTick, NextTick, schedulerVars
  <1>2. PageInv'
    BY <1>1, StillInv
  <1>3. Current' = Current
    BY <1>1 DEF Current, reactiveVars
  <1>4. wants \in Seq(SUBSET Instances) /\ s \in SUBSET Instances
    BY DEF WantsInv
  <1>5. /\ wants' \in Seq(SUBSET Instances)
        /\ DOMAIN wants' = 1..(Len(wants) + 1) /\ Len(wants) \in Nat
        /\ \A i \in 1..Len(wants) : wants'[i] = wants[i]
        /\ wants'[Len(wants) + 1] = s
    BY <1>1, <1>4
  <1>6. \A i \in DOMAIN wants' : \A n \in wants'[i] : Stale(Current, n)
    <2>1. \A i \in DOMAIN wants' : i \in DOMAIN wants \/ i = Len(wants) + 1
      BY <1>5
    <2>2. \A n \in s : Stale(Current, n)
      OBVIOUS
    <2> QED BY <2>1, <2>2, <1>4, <1>5 DEF WantsInv
  <1>7. Placed(wants', Line', flushing, ~gaveUp /\ ~thrown)
    <2> DEFINE calm == ~gaveUp /\ ~thrown
    <2>1. Placed(wants, Line, flushing, calm)
      BY DEF WantsInv
    <2>2. ASSUME calm, ~Asked(Line), ~flushing PROVE s = {}
      BY <2>2, <1>1, LineFacts, NothingStale
    <2>3. Line' = Append(Line, PageTick)
      BY <1>1, LineFacts, Joined DEF Line
    <2>4. Line \in Seq({Flush, PageTick})
      BY LineFacts
    <2> HIDE DEF s, calm
    <2>5. Placed(wants', Line', flushing, calm)
      BY <2>1, <2>2, <2>3, <2>4, <1>1, <1>4, PageTickAdded
    <2> QED BY <2>5 DEF calm
  <1> QED BY <1>1, <1>2, <1>3, <1>5, <1>6, <1>7 DEF WantsInv

LEMMA QueueNotifiedKeeps ==
  ASSUME Inv, PageInv, WantsInv, NEW w \in Watchers, QueueNotified(w)
  PROVE  PageInv' /\ WantsInv'
  <1>1. /\ w \in notified /\ notified' = notified \ {w} /\ QueueWatcher(w)
        /\ phase' = phase
        /\ UNCHANGED <<reactiveVars, wants, writes, gaveUp, thrown>>
    BY DEF QueueNotified, Notify, auxVars
  <1>2. has' = has \cup {w} /\ flushing' = flushing
    BY <1>1 DEF QueueWatcher, schedulerVars
  <1>3. copies' = copies /\ (callbacks' = callbacks
                             \/ (~waiting /\ callbacks' = Append(callbacks, Flush)))
    BY <1>1 DEF QueueWatcher, NextTick, tickVars
  <1>4. /\ Current'.value = Current.value /\ Current'.len = Current.len
        /\ Current'.subs = Current.subs /\ Current'.watcher = Current.watcher
        /\ Current'.inst = Current.inst /\ Current'.dom = Current.dom
        /\ Current'.notified = notified \ {w} /\ Current.notified = notified
        /\ Current'.hooks = FALSE
        /\ Current' = [value |-> value, len |-> len, subs |-> subs, watcher |-> watcher,
                       inst |-> inst, dom |-> dom, notified |-> notified \ {w},
                       hooks |-> FALSE]
    BY <1>1 DEF Current, reactiveVars
  <1> DEFINE N == Current'
  <1> HIDE DEF N
  <1>5. Core(Current) /\ Budget(Current, writes) /\ Current \in PageRecord
    BY DEF PageInv, Core, Shape
  <1>6. N \in PageRecord
    BY <1>4, <1>5, CurrentFields DEF PageRecord, N
  <1>7. Child(N) = Child(Current)
    BY <1>4, SameData DEF N
  <1>8. Core(N)
    BY <1>4, <1>5, <1>6, <1>7, SameData DEF N, Core, Shape, Subscribed, Cached, Living
  <1>9. Budget(N, writes)
    BY <1>4, <1>5, <1>7 DEF Budget, Spent, N
  <1>10. Fresh(Current, has) => Fresh(N, has')
    <2>1. has \cup Current.notified = has' \cup N.notified
      BY <1>1, <1>2, <1>4 DEF N
    <2>2. RootFresh(Current) => RootFresh(N)
      BY <1>4, <1>7, SameData DEF RootFresh, N
    <2>3. \A n : ChildFresh(Current, n) => ChildFresh(N, n)
      BY <1>4, SameData DEF ChildFresh, N
    <2> QED BY <2>1, <2>2, <2>3, <1>7 DEF Fresh, RootDue, ChildrenDue
  <1>11. \A n : Stale(N, n) <=> Stale(Current, n)
    BY <1>4, <1>7, SameData DEF Stale, Shown, N
  <1>12. EagerOnly(has' \cup notified')
    BY <1>1, <1>2 DEF PageInv, EagerOnly
  <1>13. PageInv'
    BY <1>1, <1>8, <1>9, <1>10, <1>12 DEF PageInv, N
  <1>14. Placed(wants, Line', flushing, ~gaveUp /\ ~thrown)
    <2> DEFINE calm == ~gaveUp /\ ~thrown
    <2>1. Placed(wants, Line, flushing, calm)
      BY DEF WantsInv
    <2> HIDE DEF calm
    <2>2. CASE callbacks' = callbacks
      BY <2>1, <2>2, <1>3 DEF Line, calm
    <2>3. CASE ~waiting /\ callbacks' = Append(callbacks, Flush)
      <3>1. Line' = Append(Line, Flush) /\ ~Asked(Line) /\ Line \in Seq({Flush, PageTick})
        BY <2>3, <1>3, LineFacts, Joined DEF Line
      <3>2. flushing = FALSE
        BY <2>3 DEF Inv, LoopShape, SchedulerTypeOK
      <3>3. wants \in Seq(SUBSET Instances)
        BY DEF WantsInv
      <3> QED BY <2>1, <3>1, <3>2, <3>3, FlushAdded DEF calm
    <2> QED BY <2>2, <2>3, <1>3
  <1>15. WantsInv'
    BY <1>1, <1>2, <1>11, <1>14 DEF WantsInv, N
  <1> QED BY <1>13, <1>15

LEMMA RunStepKeeps ==
  ASSUME Inv, PageInv, WantsInv, NEW w \in Watchers, Run(w)
  PROVE  PageInv' /\ WantsInv'
  <1> DEFINE S == RunOf(Current, w)
  <1>1. /\ RunWatcher(w) /\ Become(S) /\ wants' = Refresh(wants, S, Rendered(S, w))
        /\ UNCHANGED <<writes, gaveUp, thrown>>
    BY DEF Run
  <1>2. /\ has' = has \ {w} /\ phase' = "run"
        /\ UNCHANGED <<callbacks, copies, flushing>>
    BY <1>1 DEF RunWatcher, tickVars
  <1>3. w \in has
    BY <1>1, RunWatcherTakes
  <1>4. /\ Core(Current) /\ Budget(Current, writes) /\ writes \in 0..MaxWrites
        /\ EagerOnly(Current.notified) /\ ~IsLazy(w)
    BY <1>3, CurrentFields DEF PageInv, EagerOnly
  <1> HIDE DEF S
  <1>5. /\ Core(S) /\ Budget(S, writes) /\ EagerOnly(S.notified)
        /\ Fresh(Current, has) => Fresh(S, has \ {w})
    BY <1>4, RunKeeps DEF S
  <1>6. PageInv'
    BY <1>1, <1>2, <1>4, <1>5, BecomesInv
  <1>7. WantsInv'
    BY <1>1, <1>2, <1>5, BecomesWants
  <1> QED BY <1>6, <1>7

LEMMA ReturnKeeps ==
  ASSUME Inv, PageInv, WantsInv, Return
  PROVE  PageInv' /\ WantsInv'
  <1>1. /\ ReturnFromRun /\ gaveUp' = (gaveUp \/ phase' = "hooks")
        /\ UNCHANGED <<reactiveVars, notified, wants, writes, thrown>>
    BY DEF Return
  <1>2. UNCHANGED <<callbacks, copies>> /\ has' \subseteq has
    BY <1>1 DEF ReturnFromRun, EndFlush, ResetSchedulerState, schedulerVars, tickVars
  <1>3. phase' = "hooks" \/ (phase' = "loop" /\ has' = has /\ flushing' = flushing)
    BY <1>1 DEF ReturnFromRun, EndFlush, ResetSchedulerState, schedulerVars
  <1>4. PageInv'
    BY <1>1, <1>2, <1>3, StillInv
  <1>5. Line' = Line
    BY <1>2 DEF Line
  <1>6. Placed(wants, Line', flushing', ~gaveUp' /\ ~thrown')
    <2>1. Placed(wants, Line, flushing, ~gaveUp /\ ~thrown)
      BY DEF WantsInv
    <2>2. CASE phase' = "hooks"
      BY <2>1, <2>2, <1>1, <1>5 DEF Placed
    <2>3. CASE phase' # "hooks"
      BY <2>1, <2>3, <1>1, <1>3, <1>5
    <2> QED BY <2>2, <2>3
  <1>7. ~gaveUp' /\ ~thrown' /\ flushing' => phase' \in {"loop", "run"}
    BY <1>1, <1>3
  <1>8. WantsInv'
    BY <1>1, <1>6, <1>7, StillWants
  <1> QED BY <1>4, <1>8

LEMMA CallWantedTickKeeps ==
  ASSUME Inv, PageInv, WantsInv, CallWantedTick
  PROVE  PageInv' /\ WantsInv'
  <1> DEFINE calm == ~gaveUp /\ ~thrown
  <1>1. /\ phase = "ticks" /\ copies # <<>> /\ Head(copies) = PageTick /\ copies' = Tail(copies)
        /\ phase' = "callback" /\ wants' = Tail(wants)
        /\ UNCHANGED <<reactiveVars, notified, writes, gaveUp, thrown>>
        /\ UNCHANGED <<has, flushing, callbacks>>
    BY DEF CallWantedTick, CallPageTick, schedulerVars
  <1>2. PageInv'
    BY <1>1, StillInv
  <1>3. /\ wants \in Seq(SUBSET Instances) /\ Placed(wants, Line, flushing, calm)
        /\ \A i \in DOMAIN wants : \A n \in wants[i] : Stale(Current, n)
        /\ calm /\ flushing => phase \in {"loop", "run"}
    BY DEF WantsInv
  <1>4. /\ Line \in Seq({Flush, PageTick}) /\ Line # <<>> /\ Head(Line) = PageTick
        /\ Line' = Tail(Line)
    BY <1>1, LineFacts, Joined DEF Line
  <1>5. Current' = Current /\ calm' = calm
    BY <1>1 DEF Current, reactiveVars
  <1> HIDE DEF calm
  <1>6. /\ Tail(wants) \in Seq(SUBSET Instances)
        /\ \A i \in 1..Len(Tail(wants)) : i + 1 \in 1..Len(wants) /\ Tail(wants)[i] = wants[i + 1]
        /\ Placed(Tail(wants), Tail(Line), flushing, calm)
    BY <1>3, <1>4, PageTickCalled
  <1>7. \A i \in DOMAIN wants' : \A n \in wants'[i] : Stale(Current, n)
    <2>1. DOMAIN Tail(wants) = 1..Len(Tail(wants)) /\ DOMAIN wants = 1..Len(wants)
      BY <1>3, <1>6
    <2> QED BY <2>1, <1>1, <1>3, <1>6
  <1>8. WantsInv'
    BY <1>1, <1>3, <1>4, <1>5, <1>6, <1>7 DEF WantsInv, calm
  <1> QED BY <1>2, <1>8

LEMMA OtherStepKeeps ==
  ASSUME Inv, PageInv, WantsInv, Throw \/ UpdatedHook \/ OtherStep
  PROVE  PageInv' /\ WantsInv'
  <1> DEFINE calm == ~gaveUp /\ ~thrown
  <1>1. UNCHANGED <<reactiveVars, notified, wants, writes, gaveUp>> /\ Quiet
    BY DEF Throw, UpdatedHook, OtherStep, auxVars
  <1>2. /\ Placed(wants, Line, flushing, calm)
        /\ calm /\ flushing => phase \in {"loop", "run"}
    BY DEF WantsInv
  \* The callbacks stand as they stood.
  <1>3. ASSUME Throw \/ UpdatedHook \/ BeginHandler \/ BeginThen
               \/ (\E throws \in BOOLEAN : EndTurn(throws))
               \/ ReturnFromTick \/ EndTicks \/ EndHooks
        PROVE  PageInv' /\ WantsInv'
    <2>1. /\ UNCHANGED <<has, flushing, callbacks, copies>>
          /\ phase \notin {"loop"} /\ (phase # "run" \/ thrown')
      BY <1>3 DEF Throw, ThrowFromRun, UpdatedHook, CallUpdatedHook, BeginHandler, BeginThen,
                  EndTurn, ReturnFromTick, EndTicks, EndHooks, schedulerVars, tickVars
    <2>2. thrown' = thrown \/ thrown'
      BY <1>3 DEF Throw, UpdatedHook, OtherStep, auxVars
    <2>3. ~thrown' => ~thrown
      BY <2>2, <1>3 DEF Throw, UpdatedHook, OtherStep, auxVars
    <2>4. PageInv'
      BY <2>1, <2>3, <1>1, StillInv
    <2>5. Line' = Line
      BY <2>1 DEF Line
    <2>6. Placed(wants, Line', flushing', ~gaveUp' /\ ~thrown')
      BY <2>1, <2>3, <2>5, <1>1, <1>2 DEF Placed
    <2>7. ~gaveUp' /\ ~thrown' /\ flushing' => phase' \in {"loop", "run"}
      BY <2>1, <2>3, <1>1, <1>2
    <2> QED BY <2>4, <2>6, <2>7, <1>1, StillWants
  <1>4. ASSUME FlushCallbacks, thrown' = thrown
        PROVE  PageInv' /\ WantsInv'
    <2>1. /\ UNCHANGED <<has, flushing>> /\ copies' = callbacks /\ callbacks' = <<>>
          /\ phase = "idle"
      BY <1>4 DEF FlushCallbacks, schedulerVars
    <2>2. copies = <<>> /\ Line = callbacks
      BY <2>1, LineFacts, Joined DEF Line, Inv, LoopShape
    <2>3. Line' = callbacks
      BY <2>1, LineFacts DEF Line
    <2>4. PageInv'
      BY <2>1, <1>1, <1>4, StillInv
    <2>5. WantsInv'
      BY <2>1, <2>2, <2>3, <1>1, <1>2, <1>4, StillWants
    <2> QED BY <2>4, <2>5
  <1>5. ASSUME BeginFlush, thrown' = thrown
        PROVE  PageInv' /\ WantsInv'
    <2>1. /\ UNCHANGED <<has, callbacks>> /\ copies # <<>> /\ Head(copies) = Flush
          /\ copies' = Tail(copies) /\ flushing' = TRUE /\ phase' = "loop"
      BY <1>5 DEF BeginFlush
    <2>2. /\ Line \in Seq({Flush, PageTick}) /\ Line # <<>> /\ Head(Line) = Flush
          /\ Line' = Tail(Line) /\ Tail(Line) = Tail(copies) \o callbacks
      BY <2>1, LineFacts, Joined DEF Line
    <2>3. ~Asked(Tail(copies)) /\ ~Asked(callbacks) /\ Tail(copies) \in Seq({Flush, PageTick})
      BY <2>1, LineFacts, TailOfCallbacks DEF Inv, FlushState
    <2>4. ~Asked(Tail(Line))
      <3>1. callbacks \in Seq({Flush, PageTick})
        BY LineFacts
      <3>2. ~Asked(Tail(copies) \o callbacks)
        BY <2>3, <3>1, Joined
      <3> QED BY <2>2, <3>2
    <2>5. PageInv'
      BY <2>1, <1>1, <1>5, StillInv
    <2>6. wants \in Seq(SUBSET Instances)
      BY DEF WantsInv
    <2>7. Placed(wants, Line', flushing', ~gaveUp' /\ ~thrown')
      <3>1. calm' = calm
        BY <1>1, <1>5
      <3> HIDE DEF calm
      <3>2. Placed(wants, Tail(Line), TRUE, calm)
        BY <2>2, <2>4, <2>6, <1>2, FlushCalled
      <3> QED BY <3>1, <3>2, <2>1, <2>2 DEF calm
    <2>8. WantsInv'
      BY <2>1, <2>7, <1>1, StillWants
    <2> QED BY <2>5, <2>8
  <1>6. ASSUME LoopDone, thrown' = thrown
        PROVE  PageInv' /\ WantsInv'
    <2>1. /\ phase = "loop" /\ index = Len(queue) /\ has' = {} /\ flushing' = FALSE
          /\ UNCHANGED <<callbacks, copies>>
      BY <1>6 DEF LoopDone, EndFlush, ResetSchedulerState, tickVars
    <2>2. flushing = TRUE /\ (index + 1)..Len(queue) = {}
      BY <2>1 DEF Inv, LoopShape, SchedulerTypeOK
    <2>3. has = {}
      BY <2>2 DEF Inv, HasIsTheRest
    <2>4. PageInv'
      BY <2>1, <2>3, <1>1, <1>6, StillInv
    <2>5. ~Asked(Line) /\ Line' = Line
      BY <2>1, <2>2, LineFacts DEF Line
    <2>6. calm => \A i \in DOMAIN wants : wants[i] = {}
      <3>1. ASSUME calm, NEW i \in DOMAIN wants, NEW n \in wants[i] PROVE FALSE
        <4>1. Stale(Current, n) /\ n \in Instances
          BY <3>1 DEF WantsInv
        <4> QED BY <3>1, <4>1, <2>3, <1>1, NothingStale
      <3> QED BY <3>1
    <2>7. Placed(wants, Line', flushing', ~gaveUp' /\ ~thrown')
      <3>1. calm' = calm
        BY <1>1, <1>6
      <3> HIDE DEF calm
      <3>2. Placed(wants, Line, FALSE, calm)
        BY <2>2, <2>5, <2>6, <1>2, FlushDone
      <3> QED BY <3>1, <3>2, <2>1, <2>5 DEF calm
    <2>8. WantsInv'
      BY <2>1, <2>7, <1>1, StillWants
    <2> QED BY <2>4, <2>8
  <1>7. OtherStep => thrown' = thrown
    BY DEF OtherStep, auxVars
  <1> QED BY <1>3, <1>4, <1>5, <1>6, <1>7 DEF OtherStep

-----------------------------------------------------------------------------
\* new Vue(): the first page shows its data, and nothing is queued.
\* new Vue() before its watchers are evaluated for the first time.
Blank ==
    [value |-> [d \in Props |-> IF d = Prop(Root, "list")
                                THEN CHOOSE a \in Arrays : TRUE ELSE 0],
     len |-> [a \in Arrays |-> 0],
     subs |-> [d \in Deps |-> {}],
     watcher |-> [w \in Watchers |-> IF InstanceOf(w) = Root THEN NewWatcher ELSE NoWatcher],
     inst |-> [n \in Instances |-> IF n = Root THEN "mounted" ELSE "none"],
     dom |-> [n \in Instances |-> Nothing],
     notified |-> {}, hooks |-> FALSE]

LEMMA BlankPage ==
  Core(Blank) /\ Child(Blank) = {} /\ Budget(Blank, 0) /\ Blank.notified = {}
    /\ Blank.value[Prop(Root, "show")] = 0
  <1> DEFINE B == Blank
             data == [d \in Props |-> IF d = Prop(Root, "list")
                                      THEN CHOOSE a \in Arrays : TRUE ELSE 0]
             new == [w \in Watchers |-> IF InstanceOf(w) = Root THEN NewWatcher ELSE NoWatcher]
             life == [n \in Instances |-> IF n = Root THEN "mounted" ELSE "none"]
  <1>1. (CHOOSE a \in Arrays : TRUE) \in Arrays
    BY PageAssumption
  <1>2. /\ data \in [Props -> VueData] /\ data[Prop(Root, "list")] \in Arrays
        /\ data[Prop(Root, "show")] = 0
    <2>1. Prop(Root, "list") \in Props /\ Prop(Root, "show") \in Props
          /\ Prop(Root, "show") # Prop(Root, "list")
      BY Names
    <2> QED BY <1>1, <2>1 DEF VueData
  <1>3. /\ NewWatcher \in WatcherRecord /\ NewWatcher.active /\ NewWatcher.dirty
        /\ NewWatcher.deps = {}
        /\ NoWatcher \in WatcherRecord /\ ~NoWatcher.active
    BY DEF NewWatcher, NoWatcher, WatcherRecord, VueData
  <1>4. /\ new \in [Watchers -> WatcherRecord]
        /\ \A w \in Watchers : InstanceOf(w) = Root => new[w] = NewWatcher
        /\ \A w \in Watchers : InstanceOf(w) # Root => new[w] = NoWatcher
    BY <1>3
  <1>5. /\ life \in [Instances -> {"none", "mounted", "destroyed"}]
        /\ life[Root] = "mounted" /\ \A n \in Instances \ {Root} : life[n] = "none"
    BY Ids
  <1>6. /\ B.value = data /\ B.watcher = new /\ B.inst = life /\ B.notified = {}
        /\ B.subs = [d \in Deps |-> {}]
    BY DEF Blank
  <1>7. B = [value |-> data, len |-> [a \in Arrays |-> 0], subs |-> [d \in Deps |-> {}],
             watcher |-> new, inst |-> life, dom |-> [n \in Instances |-> Nothing],
             notified |-> {}, hooks |-> FALSE]
    BY DEF Blank
  <1> HIDE DEF B, data, new, life
  <1>8. B \in PageRecord
    BY <1>2, <1>4, <1>5, <1>7 DEF PageRecord
  <1>9. Child(B) = {}
    BY <1>5, <1>6 DEF Child
  <1>10. Subscribed(B)
    <2>1. ASSUME NEW w \in Watchers, new[w].active PROVE new[w].deps = {}
      BY <2>1, <1>3, <1>4
    <2> QED BY <2>1, <1>6 DEF Subscribed
  <1>11. Cached(B)
    <2>1. ASSUME NEW n \in Instances PROVE ~new[Computed(n)].active \/ new[Computed(n)].dirty
      BY <1>3, <1>4, Ids
    <2> QED BY <2>1, <1>6 DEF Cached
  <1>12. Living(B)
    <2>1. new[Computed(Root)].active /\ new[Render(Root)].active
      BY <1>3, <1>4, Ids
    <2> QED BY <2>1, <1>5, <1>6, <1>9 DEF Living
  <1>13. Budget(B, 0)
    <2>1. Spent(B, 0) = 0
      BY <1>2, <1>6 DEF Spent
    <2>2. 0 \in 0..MaxChildren /\ \A n \in Instances \ {Root} : n > 0
      BY PageAssumption DEF Instances, Root
    <2>3. \A n \in Instances \ {Root} : B.inst[n] = "none" <=> n > 0
      BY <2>2, <1>5, <1>6
    <2> QED BY <2>1, <2>2, <2>3 DEF Budget
  <1> QED BY <1>2, <1>6, <1>8, <1>9, <1>10, <1>11, <1>12, <1>13 DEF Core, Shape, B

LEMMA FirstPageIsFresh ==
  ASSUME writes = 0
  PROVE  /\ Core(FirstPage) /\ Budget(FirstPage, writes) /\ FirstPage.notified = {}
         /\ Fresh(FirstPage, {})
  <1> DEFINE U == EvaluateUser(Blank, Root)
             F == RenderRoot(U)
  <1>1. FirstPage = F
    BY DEF FirstPage, Blank
  <1>2. /\ Core(U)
        /\ U.value = Blank.value /\ U.len = Blank.len /\ U.inst = Blank.inst
        /\ U.dom = Blank.dom /\ U.notified = {}
        /\ \A m \in Instances : U.watcher[Render(m)] = Blank.watcher[Render(m)]
    BY BlankPage, Ids, EvaluateUserKeeps
  <1> HIDE DEF U
  <1>3. Child(U) = {} /\ U.value[Prop(Root, "show")] = 0
    BY <1>2, BlankPage, SameData
  <1>4. Budget(U, writes)
    BY <1>2, <1>3, BlankPage DEF Budget, Spent
  <1>5. ChildrenDue(U, {}) /\ EagerOnly(U.notified) /\ writes \in 0..MaxWrites
    BY <1>2, <1>3, PageAssumption DEF ChildrenDue, EagerOnly
  <1>6. Core(F) /\ Budget(F, writes) /\ RootFresh(F) /\ ChildrenDue(F, {})
    BY <1>2, <1>4, <1>5, RenderRootKeeps
  <1>7. F.notified = {}
    <2> DEFINE list == U.value[Prop(Root, "list")]
               read == {Prop(Root, "show"), Prop(Root, "list"), Observer(list)}
               C == Collect(U, Render(Root), read)
    <2>1. F = [C EXCEPT !.dom[Root] = U.len[list]]
      <3>1. PatchChild(U, 0, U.watcher[Computed(Root)].value) = U
        BY <1>3 DEF PatchChild
      <3>2. read \cup {} = read
        OBVIOUS
      <3> QED BY <3>1, <3>2, <1>3 DEF RenderRoot
    <2>2. U \in PageRecord /\ list \in Arrays
      BY <1>2 DEF Core, Shape
    <2>3. read \in SUBSET Deps /\ Render(Root) \in Watchers /\ ~IsLazy(Render(Root))
          /\ Root \in Instances
      BY <2>2, Names, Ids
    <2> HIDE DEF read, F
    <2>4. C.notified = U.notified
      BY <2>2, <2>3, CollectFields
    <2>0. Core(C)
      BY <1>2, <2>3, CollectCore
    <2>5. U.len[list] \in VueData
      BY <2>2 DEF PageRecord, VueData
    <2> HIDE DEF C, list
    <2>6. F.notified = C.notified
      BY <2>0, <2>1, <2>3, <2>5, ShowFields
    <2> QED BY <2>4, <2>6, <1>2
  <1> HIDE DEF F
  <1> QED BY <1>1, <1>6, <1>7 DEF Fresh, RootDue

LEMMA PageStarts == PageInit => PageInv /\ WantsInv
  <1> SUFFICES ASSUME PageInit PROVE PageInv /\ WantsInv
    OBVIOUS
  <1> DEFINE F == FirstPage
  <1>1. /\ Init /\ writes = 0 /\ notified = {} /\ wants = <<>>
        /\ gaveUp = FALSE /\ thrown = FALSE
        /\ Current = [value |-> F.value, len |-> F.len, subs |-> F.subs, watcher |-> F.watcher,
                      inst |-> F.inst, dom |-> F.dom, notified |-> {}, hooks |-> FALSE]
    BY DEF PageInit, Current
  <1>2. Core(F) /\ Budget(F, writes) /\ F.notified = {} /\ Fresh(F, {})
    BY <1>1, FirstPageIsFresh
  <1> HIDE DEF F
  <1>3. F \in PageRecord
    BY <1>2 DEF Core, Shape
  <1>4. /\ Current \in PageRecord
        /\ Current.value = F.value /\ Current.len = F.len /\ Current.subs = F.subs
        /\ Current.watcher = F.watcher /\ Current.inst = F.inst /\ Current.dom = F.dom
        /\ Current.notified = F.notified
    BY <1>1, <1>2, <1>3 DEF PageRecord
  <1>5. Core(Current) /\ Budget(Current, writes) /\ Fresh(Current, {})
    BY <1>2, <1>4, SameFields
  <1>6. /\ has = {} /\ callbacks = <<>> /\ copies = <<>> /\ flushing = FALSE
    BY <1>1 DEF Init
  <1>7. writes \in 0..MaxWrites
    BY <1>1, PageAssumption
  <1>8. PageInv
    BY <1>1, <1>5, <1>6, <1>7 DEF PageInv, EagerOnly
  <1>9. Line = <<>>
    BY <1>6 DEF Line
  <1>10. DOMAIN wants = {} /\ DOMAIN Line = {} /\ Len(wants) = 0 /\ Len(Line) = 0
         /\ wants \in Seq(SUBSET Instances)
    BY <1>1, <1>9
  <1>11. WantsInv
    BY <1>6, <1>10 DEF WantsInv, Placed
  <1> QED BY <1>8, <1>11

LEMMA PageSteps ==
  ASSUME Inv, PageInv, WantsInv, [PageNext]_allVars
  PROVE  PageInv' /\ WantsInv'
  <1>1. CASE UNCHANGED allVars
    <2>1. /\ UNCHANGED <<reactiveVars, notified, writes, wants, gaveUp, thrown>>
          /\ UNCHANGED <<has, flushing, callbacks, copies, phase>>
      BY <1>1 DEF allVars, auxVars, vars, schedulerVars, tickVars
    <2>2. PageInv'
      BY <2>1, StillInv
    <2>3. Line' = Line
      BY <2>1 DEF Line
    <2>4. WantsInv'
      BY <2>1, <2>3, StillWants DEF WantsInv
    <2> QED BY <2>2, <2>4
  <1>2. ASSUME NEW d \in Props, NEW v \in {0, 1}, d[2] \in {"show", "x", "y"}, WriteData(d, v)
        PROVE  PageInv' /\ WantsInv'
    <2>1. v \in VueData
      BY DEF VueData
    <2>2. (\A n : d # Prop(n, "p")) /\ d # Prop(Root, "list")
      BY <1>2 DEF Prop
    <2> QED BY <1>2, <2>1, <2>2, WriteDataKeeps
  <1>3. ASSUME NEW a \in Arrays, WriteData(Prop(Root, "list"), a)
        PROVE  PageInv' /\ WantsInv'
    <2>1. Prop(Root, "list") \in Props /\ (\A n : Prop(Root, "list") # Prop(n, "p"))
      BY Names
    <2>2. a \in VueData
      BY DEF VueData
    <2> QED BY <1>3, <2>1, <2>2, WriteDataKeeps
  <1>4. ASSUME NEW a \in Arrays, Push(a) PROVE PageInv' /\ WantsInv'
    BY <1>4, PushStepKeeps
  <1>5. ASSUME NEW n \in Instances, ReadTotal(n) PROVE PageInv' /\ WantsInv'
    BY <1>5, ReadTotalKeeps
  <1>6. ASSUME Unwatch PROVE PageInv' /\ WantsInv'
    BY <1>6, UnwatchStepKeeps
  <1>7. ASSUME GiveTick PROVE PageInv' /\ WantsInv'
    BY <1>7, GiveTickKeeps
  <1>8. ASSUME NEW w \in Watchers, QueueNotified(w) PROVE PageInv' /\ WantsInv'
    BY <1>8, QueueNotifiedKeeps
  <1>9. ASSUME NEW w \in Watchers, Run(w) PROVE PageInv' /\ WantsInv'
    BY <1>9, RunStepKeeps
  <1>10. ASSUME Return PROVE PageInv' /\ WantsInv'
    BY <1>10, ReturnKeeps
  <1>11. ASSUME CallWantedTick PROVE PageInv' /\ WantsInv'
    BY <1>11, CallWantedTickKeeps
  <1>12. ASSUME Throw \/ UpdatedHook \/ OtherStep PROVE PageInv' /\ WantsInv'
    BY <1>12, OtherStepKeeps
  <1> QED BY <1>1, <1>2, <1>3, <1>4, <1>5, <1>6, <1>7, <1>8, <1>9, <1>10, <1>11, <1>12
          DEF PageNext

LEMMA AlwaysPageInv == PageSpec => [](Inv /\ PageInv /\ WantsInv)
  <1>1. PageInit => PageInv /\ WantsInv
    BY PageStarts
  <1>2. Inv /\ PageInv /\ WantsInv /\ [PageNext]_allVars => (PageInv /\ WantsInv)'
    BY PageSteps
  <1>3. PageSpec => []Inv
    BY PageIsScheduled, AlwaysInv, PTL
  <1> QED BY <1>1, <1>2, <1>3, PTL DEF PageSpec

\* A live computed property that is not dirty holds what its getter would return
\* now, however assignments, patches and late reads come between.
THEOREM ComputedIsFresh == PageSpec => []CachedIsFresh
  <1>1. PageInv => CachedIsFresh
    <2> SUFFICES ASSUME PageInv, NEW n \in Instances, watcher[Computed(n)].active,
                        ~watcher[Computed(n)].dirty
                 PROVE  watcher[Computed(n)].value = TotalOf(Current, n)
      BY DEF CachedIsFresh
    <2>1. Cached(Current)
      BY DEF PageInv, Core
    <2> QED BY <2>1, CurrentFields DEF Cached
  <1> QED BY <1>1, AlwaysPageInv, PTL

\* An instance whose screen differs from its data waits for its own or for the
\* root's render, unless a flush was stopped or a patch threw.
THEOREM StaleWaits == PageSpec => []StaleIsQueued
  <1>1. PageInv => StaleIsQueued
    <2> SUFFICES ASSUME PageInv, Quiet, ~gaveUp, ~thrown, NEW n \in Instances,
                        Stale(Current, n)
                 PROVE  {Render(n), Render(Root)} \cap has # {}
      BY DEF StaleIsQueued
    <2>1. Core(Current) /\ Fresh(Current, has)
      BY DEF PageInv
    <2>2. {Render(n), Render(Root)} \cap (has \cup Current.notified) # {}
      BY <2>1, NotDueNotStale
    <2>3. Current.notified = {}
      BY CurrentFields DEF Quiet
    <2> QED BY <2>2, <2>3
  <1> QED BY <1>1, AlwaysPageInv, PTL

\* A callback given to $nextTick finds every instance that was stale at that
\* moment patched, or gone.
THEOREM TickComesAfterPatch == PageSpec => []TickSeesUpdate
  <1>1. Inv /\ WantsInv => TickSeesUpdate
    <2> SUFFICES ASSUME Inv, WantsInv, phase = "ticks", copies # <<>>,
                        Head(copies) = PageTick, ~gaveUp, ~thrown
                 PROVE  Head(wants) = {}
      BY DEF TickSeesUpdate
    <2> DEFINE calm == ~gaveUp /\ ~thrown
    <2>1. /\ wants \in Seq(SUBSET Instances) /\ Placed(wants, Line, flushing, calm)
          /\ ~flushing /\ calm
      BY DEF WantsInv
    <2>2. Line \in Seq({Flush, PageTick}) /\ Line # <<>> /\ Head(Line) = PageTick
      BY LineFacts, Joined DEF Line
    <2>3. flushing = FALSE /\ calm = TRUE
      BY <2>1 DEF Inv, SchedulerTypeOK
    <2> HIDE DEF calm
    <2>4. Placed(wants, Line, FALSE, TRUE)
      BY <2>1, <2>3
    <2> QED BY <2>1, <2>2, <2>4, PageTickCalled
  <1> QED BY <1>1, AlwaysPageInv, PTL
=============================================================================
