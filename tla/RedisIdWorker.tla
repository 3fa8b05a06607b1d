--------------------------- MODULE RedisIdWorker ---------------------------
(***************************************************************************)
(* RedisIdWorker.nextId: the seconds of the caller's clock in the high     *)
(* bits, a daily Redis counter in the low ones.  Threads of several        *)
(* application instances interleave between reading the clock and INCR,    *)
(* and the clocks of the instances do not agree.                           *)
(***************************************************************************)
EXTENDS Integers

CONSTANTS
    Calls, Instances,
    DayLength,  \* seconds of a day, for the key icr:<prefix>:<date>
    Base,       \* 2^COUNT_BITS
    BitOr(_, _),   \* bitwise or, of what overflows into the time stamp
    MaxSecond   \* bound on the clocks, in seconds since BEGIN_TIMESTAMP

ASSUME DayAssumption == DayLength \in Nat \ {0}
ASSUME BaseAssumption == Base \in Nat \ {0}
ASSUME SecondAssumption == MaxSecond \in Nat
ASSUME OrAssumption == \A s \in 0..MaxSecond : BitOr(s, 0) = s

VARIABLES
    clock,    \* clock[i]: the clock of instance i
    counter,  \* counter[d]: the value of the key of day d
    call,     \* call[c]: a call of nextId
    before    \* before[c]: calls on c's instance that returned before c began

vars == <<clock, counter, call, before>>

Days == 0..(MaxSecond \div DayLength)
Day(second) == second \div DayLength
NewCall == [pc : {"new", "read", "done"}, at : Instances,
            second : 0..MaxSecond, count : Nat]

(* timeStamp << COUNT_BITS | count *)
IdOf(second, count) == BitOr(second, count \div Base) * Base + (count % Base)
IdOfCall(c) == IdOf(call[c].second, call[c].count)

Init ==
    /\ clock \in [Instances -> 0..MaxSecond]
    /\ counter = [d \in Days |-> 0]
    /\ call \in [Calls -> [pc : {"new"}, at : Instances, second : {0}, count : {0}]]
    /\ before = [c \in Calls |-> {}]

(* One "now" gives the second and the date of the key. *)
ReadClock(c) ==
    /\ call[c].pc = "new"
    /\ call' = [call EXCEPT ![c].pc = "read", ![c].second = clock[call[c].at]]
    /\ before' = [before EXCEPT ![c] =
                     {b \in Calls : call[b].pc = "done" /\ call[b].at = call[c].at}]
    /\ UNCHANGED <<clock, counter>>

(* Mutants of Increment: GET and SET in place of INCR lose an update when   *)
(* two calls meet; a key without the date of this second (a later "now").   *)
IncrementLost(c) == LET d == Day(call[c].second) IN
    /\ call[c].pc = "read"
    /\ call' = [call EXCEPT ![c].pc = "done", ![c].count = counter[d] + 1]
    /\ counter' \in {counter, [counter EXCEPT ![d] = @ + 1]}
    /\ UNCHANGED <<clock, before>>

IncrementLaterDay(c) == LET d == Day(clock[call[c].at]) IN
    /\ call[c].pc = "read"
    /\ call' = [call EXCEPT ![c].pc = "done", ![c].count = counter[d] + 1]
    /\ counter' = [counter EXCEPT ![d] = @ + 1]
    /\ UNCHANGED <<clock, before>>

Increment(c) == LET d == Day(call[c].second) IN
    /\ call[c].pc = "read"
    /\ call' = [call EXCEPT ![c].pc = "done", ![c].count = counter[d] + 1]
    /\ counter' = [counter EXCEPT ![d] = @ + 1]
    /\ UNCHANGED <<clock, before>>

Tick(i) ==
    /\ clock[i] < MaxSecond
    /\ clock' = [clock EXCEPT ![i] = @ + 1]
    /\ UNCHANGED <<counter, call, before>>

Exhausted ==
    /\ \A c \in Calls : call[c].pc = "done"
    /\ \A i \in Instances : clock[i] = MaxSecond
    /\ UNCHANGED vars

Next ==
    \/ \E c \in Calls : ReadClock(c) \/ Increment(c)
    \/ \E i \in Instances : Tick(i)
    \/ Exhausted

Spec == Init /\ [][Next]_vars

-----------------------------------------------------------------------------
(* Properties.                                                              *)

TypeOK ==
    /\ clock \in [Instances -> 0..MaxSecond]
    /\ counter \in [Days -> Nat]
    /\ call \in [Calls -> NewCall]
    /\ before \in [Calls -> SUBSET Calls]

Done(c) == call[c].pc = "done"
(* The counter of the day has not outgrown its bits. *)
Fits(c) == counter[Day(call[c].second)] < Base

(* Two calls never return the same id, on whatever instances and however    *)
(* far their clocks are apart, as long as a day stays below 2^32 calls.     *)
UniqueIds ==
    \A c1, c2 \in Calls :
        Done(c1) /\ Done(c2) /\ Fits(c1) /\ Fits(c2) /\ IdOfCall(c1) = IdOfCall(c2)
            => c1 = c2

(* On one instance, whose clock does not run backwards, a call that begins  *)
(* after another has returned gets the larger id, across midnight as well.  *)
LaterIsLarger ==
    \A c \in Calls : \A b \in before[c] :
        Done(c) /\ Fits(c) /\ Fits(b) => IdOfCall(b) < IdOfCall(c)
=============================================================================
