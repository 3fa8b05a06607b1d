------------------------ MODULE RedisIdWorkerProofs ------------------------
(***************************************************************************)
(* Ids are unique and, on one instance, increasing, for every number of    *)
(* calls, instances and clocks.                                            *)
(***************************************************************************)
EXTENDS RedisIdWorker, TLAPS

(* A call that is done took its count from the counter of its day, and no   *)
(* other call of that day took the same.                                    *)
CountInv ==
    /\ \A c \in Calls : Done(c) =>
          call[c].count >= 1 /\ call[c].count <= counter[Day(call[c].second)]
    /\ \A c1, c2 \in Calls :
          /\ Done(c1) /\ Done(c2) /\ c1 # c2
          /\ Day(call[c1].second) = Day(call[c2].second)
          => call[c1].count # call[c2].count

(* What had returned before c began has no later second, and a lower count  *)
(* when the day is the same.                                                *)
BeforeInv ==
    \A c \in Calls :
        /\ call[c].pc = "new" => before[c] = {}
        /\ call[c].pc # "new" => call[c].second <= clock[call[c].at]
        /\ \A b \in before[c] :
              /\ Done(b) /\ call[b].at = call[c].at /\ b # c
              /\ call[b].second <= call[c].second
              /\ Done(c) /\ Day(call[b].second) = Day(call[c].second)
                    => call[b].count < call[c].count

IInv == TypeOK /\ CountInv /\ BeforeInv

-----------------------------------------------------------------------------
(* Days are consecutive and keep the order of the seconds. *)
LEMMA DayFacts ==
    ASSUME NEW s1 \in 0..MaxSecond
    PROVE  Day(s1) \in Days
  BY DayAssumption, SecondAssumption, SMTT(30) DEF Day, Days

(* Below Base the two halves of the id do not overlap. *)
LEMMA IdBelowBase ==
    ASSUME NEW s \in 0..MaxSecond, NEW n \in Nat, n < Base
    PROVE  IdOf(s, n) = s * Base + n
  <1>1. n \div Base = 0 /\ n % Base = n
    BY BaseAssumption
  <1> QED BY <1>1, OrAssumption DEF IdOf

LEMMA Product ==
    ASSUME NEW a \in Nat, NEW b \in Nat, a < b
    PROVE  a * Base + Base <= b * Base
  <1>1. PICK d \in Nat : b = a + 1 + d
    <2>1. b - a - 1 \in Nat /\ b = a + 1 + (b - a - 1)
      OBVIOUS
    <2> QED BY <2>1
  <1>2. b * Base = a * Base + Base + d * Base
    BY <1>1, BaseAssumption
  <1>3. d * Base \in Nat /\ a * Base \in Nat /\ b * Base \in Nat
    BY BaseAssumption
  <1> QED BY <1>2, <1>3, BaseAssumption

(* The time stamp decides first, the count second. *)
LEMMA IdOrder ==
    ASSUME NEW s1 \in 0..MaxSecond, NEW n1 \in Nat, n1 < Base,
           NEW s2 \in 0..MaxSecond, NEW n2 \in Nat, n2 < Base
    PROVE  /\ s1 < s2 => IdOf(s1, n1) < IdOf(s2, n2)
           /\ s1 = s2 /\ n1 < n2 => IdOf(s1, n1) < IdOf(s2, n2)
           /\ IdOf(s1, n1) = IdOf(s2, n2) => s1 = s2 /\ n1 = n2
  <1>1. /\ IdOf(s1, n1) = s1 * Base + n1
        /\ IdOf(s2, n2) = s2 * Base + n2
    BY IdBelowBase
  <1>2. s1 \in Nat /\ s2 \in Nat
    BY SecondAssumption
  <1>3. s1 * Base \in Nat /\ s2 * Base \in Nat
    BY <1>2, BaseAssumption
  <1>4. s1 < s2 => s1 * Base + n1 < s2 * Base + n2
    <2>1. s1 < s2 => s1 * Base + Base <= s2 * Base
      BY <1>2, Product
    <2> QED BY <1>3, <2>1, BaseAssumption
  <1>5. s2 < s1 => s2 * Base + n2 < s1 * Base + n1
    <2>1. s2 < s1 => s2 * Base + Base <= s1 * Base
      BY <1>2, Product
    <2> QED BY <1>3, <2>1, BaseAssumption
  <1>6. s1 = s2 /\ n1 < n2 => s1 * Base + n1 < s2 * Base + n2
    BY <1>3
  <1>7. s1 * Base + n1 = s2 * Base + n2 => s1 = s2 /\ n1 = n2
    <2> SUFFICES ASSUME s1 * Base + n1 = s2 * Base + n2 PROVE s1 = s2 /\ n1 = n2
      OBVIOUS
    <2>1. s1 = s2
      BY <1>2, <1>3, <1>4, <1>5
    <2> QED BY <1>3, <2>1
  <1> QED BY <1>1, <1>4, <1>6, <1>7

-----------------------------------------------------------------------------
LEMMA InitInv == Init => IInv
  <1> SUFFICES ASSUME Init PROVE IInv
    OBVIOUS
  <1>1. TypeOK
    BY SecondAssumption DEF Init, TypeOK, NewCall
  <1>2. \A c \in Calls : call[c].pc = "new" /\ before[c] = {}
    BY DEF Init
  <1> QED BY <1>1, <1>2 DEF IInv, CountInv, BeforeInv, Done

LEMMA ReadClockInv == ASSUME IInv, NEW c \in Calls, ReadClock(c) PROVE IInv'
  <1>1. /\ call[c].pc = "new" /\ clock' = clock /\ counter' = counter
        /\ call' = [call EXCEPT ![c].pc = "read", ![c].second = clock[call[c].at]]
        /\ before' = [before EXCEPT ![c] =
                         {b \in Calls : call[b].pc = "done" /\ call[b].at = call[c].at}]
    BY DEF ReadClock
  <1>2. TypeOK /\ TypeOK'
    BY <1>1 DEF IInv, TypeOK, NewCall
  <1>3. /\ \A b \in Calls : b # c => call'[b] = call[b] /\ before'[b] = before[b]
        /\ call'[c].pc = "read" /\ call'[c].at = call[c].at
        /\ call'[c].second = clock[call[c].at]
        /\ before'[c] = {b \in Calls : call[b].pc = "done" /\ call[b].at = call[c].at}
    BY <1>1, <1>2 DEF TypeOK, NewCall
  <1>4. \A b \in Calls : Done(b)' <=> Done(b) /\ b # c
    BY <1>1, <1>3 DEF Done
  <1>5. CountInv'
    <2>1. \A b \in Calls : Done(b)' => Done(b) /\ call'[b] = call[b]
      BY <1>3, <1>4
    <2>2. CountInv /\ counter' = counter
      BY <1>1 DEF IInv
    <2>3. \A b \in Calls : Done(b)' =>
             call'[b].count >= 1 /\ call'[b].count <= counter'[Day(call'[b].second)]
      BY <2>1, <2>2 DEF CountInv
    <2>4. \A c1, c2 \in Calls :
             /\ Done(c1)' /\ Done(c2)' /\ c1 # c2
             /\ Day(call'[c1].second) = Day(call'[c2].second)
             => call'[c1].count # call'[c2].count
      BY <2>1, <2>2 DEF CountInv
    <2> QED BY <2>3, <2>4 DEF CountInv, Done, Day
  <1>6. BeforeInv'
    <2> SUFFICES ASSUME NEW x \in Calls
                 PROVE  /\ call'[x].pc = "new" => before'[x] = {}
                        /\ call'[x].pc # "new" => call'[x].second <= clock'[call'[x].at]
                        /\ \A b \in before'[x] :
                              /\ Done(b)' /\ call'[b].at = call'[x].at /\ b # x
                              /\ call'[b].second <= call'[x].second
                              /\ Done(x)' /\ Day(call'[b].second) = Day(call'[x].second)
                                    => call'[b].count < call'[x].count
      BY DEF BeforeInv, Done, Day
    <2>1. CASE x # c
      BY <1>1, <1>2, <1>3, <1>4, <2>1 DEF IInv, BeforeInv, Done, TypeOK
    <2>2. CASE x = c
      <3>1. \A b \in Calls : call[b].pc = "done" => call[b].second <= clock[call[b].at]
        BY DEF IInv, BeforeInv
      <3>2. call'[c].second <= clock'[call'[c].at]
        BY <1>1, <1>2, <1>3, SecondAssumption DEF TypeOK, NewCall
      <3>3. \A b \in before'[c] : /\ b \in Calls /\ b # c /\ Done(b)'
                                  /\ call'[b] = call[b] /\ call[b].at = call[c].at
                                  /\ call[b].second <= clock[call[c].at]
        BY <1>1, <1>3, <1>4, <3>1 DEF Done
      <3> QED BY <1>3, <1>4, <2>2, <3>2, <3>3
    <2> QED BY <2>1, <2>2
  <1> QED BY <1>2, <1>5, <1>6 DEF IInv

LEMMA IncrementInv == ASSUME IInv, NEW c \in Calls, Increment(c) PROVE IInv'
  <1>0. PICK d \in Days : d = Day(call[c].second)
    BY DayFacts DEF IInv, TypeOK, NewCall
  <1>1. /\ call[c].pc = "read" /\ clock' = clock /\ before' = before
        /\ call' = [call EXCEPT ![c].pc = "done", ![c].count = counter[d] + 1]
        /\ counter' = [counter EXCEPT ![d] = @ + 1]
    BY <1>0 DEF Increment
  <1>2. TypeOK /\ TypeOK'
    <2>1. TypeOK
      BY DEF IInv
    <2>2. counter[d] \in Nat /\ counter[d] + 1 \in Nat
      BY <2>1 DEF TypeOK
    <2>3. counter' \in [Days -> Nat]
      BY <1>1, <2>1, <2>2 DEF TypeOK
    <2>4. call' \in [Calls -> NewCall]
      <3>1. [call[c] EXCEPT !.pc = "done", !.count = counter[d] + 1] \in NewCall
        BY <2>1, <2>2 DEF TypeOK, NewCall
      <3>2. call' = [call EXCEPT ![c] = [call[c] EXCEPT !.pc = "done", !.count = counter[d] + 1]]
        BY <1>1
      <3> QED BY <2>1, <3>1, <3>2 DEF TypeOK
    <2> QED BY <1>1, <2>1, <2>3, <2>4 DEF TypeOK
  <1>3. /\ \A b \in Calls : b # c => call'[b] = call[b]
        /\ call'[c].pc = "done" /\ call'[c].at = call[c].at
        /\ call'[c].second = call[c].second /\ call'[c].count = counter[d] + 1
        /\ counter[d] \in Nat /\ counter'[d] = counter[d] + 1
        /\ \A e \in Days : e # d => counter'[e] = counter[e]
    BY <1>1, <1>2 DEF TypeOK, NewCall
  <1>4. \A b \in Calls : Done(b)' <=> Done(b) \/ b = c
    BY <1>1, <1>3 DEF Done
  <1>5. /\ \A b \in Calls : /\ Day(call[b].second) \in Days
                            /\ call'[b].second = call[b].second
                            /\ call[b].count \in Nat
        /\ \A e \in Days : counter[e] \in Nat
    BY <1>2, <1>3, DayFacts DEF TypeOK, NewCall
  <1>6. \A b \in Calls : Done(b) => call[b].count >= 1
                                    /\ call[b].count <= counter[Day(call[b].second)]
    BY DEF IInv, CountInv
  <1>7. ~Done(c)
    BY <1>1 DEF Done
  <1>8. \A b \in Calls : Done(b) => b # c /\ call'[b] = call[b]
    BY <1>3, <1>7
  <1>9. \A b \in Calls : Done(b) /\ Day(call[b].second) = d => call[b].count < counter[d] + 1
    BY <1>3, <1>5, <1>6
  <1>10. CountInv'
    <2>1. ASSUME NEW b \in Calls, Done(b)'
          PROVE  call'[b].count >= 1 /\ call'[b].count <= counter'[Day(call'[b].second)]
      <3>1. CASE b = c
        BY <1>0, <1>3, <3>1
      <3>2. CASE b # c
        BY <1>3, <1>4, <1>5, <1>6, <2>1, <3>2
      <3> QED BY <3>1, <3>2
    <2>2. ASSUME NEW c1 \in Calls, NEW c2 \in Calls, Done(c1)', Done(c2)', c1 # c2,
                 Day(call'[c1].second) = Day(call'[c2].second)
          PROVE  call'[c1].count # call'[c2].count
      <3>1. CASE c1 # c /\ c2 # c
        BY <1>3, <1>4, <2>2, <3>1 DEF IInv, CountInv
      <3>2. CASE c1 = c
        <4>1. Done(c2) /\ Day(call[c2].second) = d /\ call'[c2] = call[c2]
          BY <1>0, <1>3, <1>4, <1>5, <2>2, <3>2
        <4> QED BY <1>3, <1>5, <1>9, <3>2, <4>1
      <3>3. CASE c2 = c
        <4>1. Done(c1) /\ Day(call[c1].second) = d /\ call'[c1] = call[c1]
          BY <1>0, <1>3, <1>4, <1>5, <2>2, <3>3
        <4> QED BY <1>3, <1>5, <1>9, <3>3, <4>1
      <3> QED BY <3>1, <3>2, <3>3
    <2> QED BY <2>1, <2>2 DEF CountInv, Done, Day
  <1>11. BeforeInv'
    <2> SUFFICES ASSUME NEW x \in Calls
                 PROVE  /\ call'[x].pc = "new" => before'[x] = {}
                        /\ call'[x].pc # "new" => call'[x].second <= clock'[call'[x].at]
                        /\ \A b \in before'[x] :
                              /\ Done(b)' /\ call'[b].at = call'[x].at /\ b # x
                              /\ call'[b].second <= call'[x].second
                              /\ Done(x)' /\ Day(call'[b].second) = Day(call'[x].second)
                                    => call'[b].count < call'[x].count
      BY DEF BeforeInv, Done, Day
    <2>1. call'[x].pc = "new" => call[x].pc = "new" /\ x # c
      BY <1>3
    <2>2. call'[x].at = call[x].at /\ (call'[x].pc # "new" => call[x].pc # "new")
      BY <1>1, <1>3
    <2>3. ASSUME NEW b \in before[x]
          PROVE  /\ b \in Calls /\ Done(b) /\ call'[b] = call[b]
                 /\ call[b].at = call[x].at /\ b # x
                 /\ call[b].second <= call[x].second
                 /\ Done(x) /\ Day(call[b].second) = Day(call[x].second)
                       => call[b].count < call[x].count
      BY <1>2, <1>8 DEF IInv, BeforeInv, TypeOK
    <2>4. ASSUME NEW b \in before[x], Done(x)', Day(call[b].second) = Day(call[x].second)
          PROVE  call'[b].count < call'[x].count
      <3>1. CASE x = c
        BY <1>0, <1>3, <1>9, <2>3, <2>4, <3>1
      <3>2. CASE x # c
        BY <1>3, <1>4, <2>3, <2>4, <3>2
      <3> QED BY <3>1, <3>2
    <2>5. /\ call'[x].second = call[x].second
          /\ \A b \in Calls : call'[b].second = call[b].second
      BY <1>5
    <2>6. /\ call[x].pc = "new" => before[x] = {}
          /\ call[x].pc # "new" => call[x].second <= clock[call[x].at]
      BY DEF IInv, BeforeInv
    <2> QED BY <1>1, <1>4, <2>1, <2>2, <2>3, <2>4, <2>5, <2>6
  <1> QED BY <1>2, <1>10, <1>11 DEF IInv

LEMMA TickInv == ASSUME IInv, NEW i \in Instances, Tick(i) PROVE IInv'
  <1>1. /\ clock[i] < MaxSecond /\ clock' = [clock EXCEPT ![i] = @ + 1]
        /\ counter' = counter /\ call' = call /\ before' = before
    BY DEF Tick
  <1>2. TypeOK /\ TypeOK'
    BY <1>1, SecondAssumption DEF IInv, TypeOK
  <1>3. \A j \in Instances : clock[j] \in Nat /\ clock'[j] >= clock[j] /\ clock'[j] \in Nat
    BY <1>1, <1>2, SecondAssumption DEF TypeOK
  <1>4. \A c \in Calls : call[c].at \in Instances /\ call[c].second \in Nat
    BY <1>2, SecondAssumption DEF TypeOK, NewCall
  <1>5. CountInv'
    BY <1>1 DEF IInv, CountInv, Done
  <1>6. BeforeInv'
    BY <1>1, <1>3, <1>4 DEF IInv, BeforeInv, Done
  <1> QED BY <1>2, <1>5, <1>6 DEF IInv

LEMMA NextInv == ASSUME IInv, [Next]_vars PROVE IInv'
  <1>1. CASE Exhausted \/ UNCHANGED vars
    <2>1. clock' = clock /\ counter' = counter /\ call' = call /\ before' = before
      BY <1>1 DEF Exhausted, vars
    <2> QED BY <2>1 DEF IInv, TypeOK, CountInv, BeforeInv, Done
  <1>2. ASSUME NEW c \in Calls, ReadClock(c) PROVE IInv'
    BY <1>2, ReadClockInv
  <1>3. ASSUME NEW c \in Calls, Increment(c) PROVE IInv'
    BY <1>3, IncrementInv
  <1>4. ASSUME NEW i \in Instances, Tick(i) PROVE IInv'
    BY <1>4, TickInv
  <1> QED BY <1>1, <1>2, <1>3, <1>4 DEF Next

-----------------------------------------------------------------------------
(* The inductive invariant holds in every reachable state. *)
THEOREM IInvariant == Spec => []IInv
  <1>1. Init => IInv
    BY InitInv
  <1>2. IInv /\ [Next]_vars => IInv'
    BY NextInv
  <1> QED BY <1>1, <1>2, PTL DEF Spec

(* The state of the id generator always has the types of TypeOK. *)
THEOREM TypeCorrect == Spec => []TypeOK
<1>1. IInv => TypeOK
  BY DEF IInv
<1> QED
  BY <1>1, IInvariant, PTL

(* Below 2^32 calls a day, no id is drawn twice, whatever the clocks say.   *)
THEOREM Unique == Spec => []UniqueIds
  <1>1. IInv => UniqueIds
    <2> SUFFICES ASSUME IInv, NEW c1 \in Calls, NEW c2 \in Calls, Done(c1), Done(c2),
                        Fits(c1), Fits(c2), IdOfCall(c1) = IdOfCall(c2), c1 # c2
                 PROVE  FALSE
      BY DEF UniqueIds
    <2>1. \A c \in {c1, c2} : /\ call[c].second \in 0..MaxSecond /\ call[c].count \in Nat
                              /\ counter[Day(call[c].second)] \in Nat
      BY DayFacts DEF IInv, TypeOK, NewCall
    <2>2. \A c \in {c1, c2} : call[c].count < Base
      <3>1. ASSUME NEW c \in Calls, c \in {c1, c2} PROVE call[c].count < Base
        <4>1. Done(c) /\ counter[Day(call[c].second)] < Base
          BY <3>1 DEF Fits
        <4>2. call[c].count <= counter[Day(call[c].second)]
          BY <4>1 DEF IInv, CountInv
        <4> QED BY <2>1, <3>1, <4>1, <4>2, BaseAssumption
      <3> QED BY <3>1
    <2>3. call[c1].second = call[c2].second /\ call[c1].count = call[c2].count
      BY <2>1, <2>2, IdOrder DEF IdOfCall
    <2> QED BY <2>3 DEF IInv, CountInv
  <1> QED BY <1>1, IInvariant, PTL

(* A call that begins after another one on its instance draws a larger id.  *)
THEOREM Increasing == Spec => []LaterIsLarger
  <1>1. IInv => LaterIsLarger
    <2> SUFFICES ASSUME IInv, NEW c \in Calls, NEW b \in before[c], Done(c), Fits(c), Fits(b)
                 PROVE  IdOfCall(b) < IdOfCall(c)
      BY DEF LaterIsLarger
    <2>1. b \in Calls /\ Done(b) /\ call[b].second <= call[c].second
      BY DEF IInv, BeforeInv, TypeOK
    <2>2. \A x \in {b, c} : /\ call[x].second \in 0..MaxSecond /\ call[x].count \in Nat
                            /\ counter[Day(call[x].second)] \in Nat
      BY <2>1, DayFacts DEF IInv, TypeOK, NewCall
    <2>3. \A x \in {b, c} : call[x].count < Base
      BY <2>1, <2>2, BaseAssumption DEF IInv, CountInv, Fits
    <2>4. CASE call[b].second < call[c].second
      BY <2>2, <2>3, <2>4, IdOrder DEF IdOfCall
    <2>5. CASE call[b].second = call[c].second
      <3>1. call[b].count < call[c].count
        BY <2>5 DEF IInv, BeforeInv
      <3> QED BY <2>2, <2>3, <2>5, <3>1, IdOrder DEF IdOfCall
    <2> QED BY <2>1, <2>2, <2>4, <2>5, SecondAssumption
  <1> QED BY <1>1, IInvariant, PTL
=============================================================================
