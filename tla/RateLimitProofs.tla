-------------------------- MODULE RateLimitProofs --------------------------
(***************************************************************************)
(* The rate limiter for every number of requests, permits and ticks.       *)
(***************************************************************************)
EXTENDS RateLimit, FiniteSetTheorems, TLAPS

(* No time stamp lies ahead of the clock, no script is later than MaxDelay. *)
ClockInv ==
    \A r \in Requests : /\ stamp[r] <= clock
                        /\ pc[r] = "stamped" => clock <= stamp[r] + MaxDelay

(* Every member stands for a counted request and outlives its window.     *)
MembersInv ==
    \A k \in Keys : \A s \in zset[k] :
        /\ s + Window + Grace <= expire[k]
        /\ \E a \in Counted(k) : stamp[a] = s

SizeInv == \A k \in Keys : Cardinality(zset[k]) <= PermitsOf(k)

(* A counted request is only forgotten when its window is over.           *)
KeptInv ==
    \A a \in Requests : pc[a] \in Counting =>
        stamp[a] \in zset[Key(a)] \/ stamp[a] + Window <= clock

IInv == /\ TypeOK /\ ClockInv /\ MembersInv /\ SizeInv /\ KeptInv
        /\ WindowLimit /\ SinglePermitIsExact

USE DEF SureWindow

-----------------------------------------------------------------------------
LEMMA KeyInKeys ==
    ASSUME TypeOK, NEW r \in Requests PROVE Key(r) \in Keys
  <1>1. /\ caller[r].endpoint \in Endpoints
        /\ caller[r].user \in Users \cup {NoUser}
        /\ caller[r].ip \in Ips
    BY DEF TypeOK, Caller
  <1>2. Key(r)[2] \in Users \cup Ips \cup {"global"}
    BY <1>1 DEF Key
  <1>3. Key(r) = <<caller[r].endpoint, Key(r)[2]>>
    BY DEF Key
  <1> QED BY <1>1, <1>2, <1>3 DEF Keys

LEMMA PermitsType ==
    ASSUME NEW k \in Keys PROVE PermitsOf(k) \in Nat /\ PermitsOf(k) >= 1
  BY PermitsAssumption DEF PermitsOf, Keys

LEMMA TicksFinite == IsFiniteSet(0..MaxTime)
  BY FS_Interval, TimeAssumption

(* What pruning leaves is a part of the set, finite and within the permits. *)
LEMMA RemainingFacts ==
    ASSUME TypeOK, SizeInv, NEW k \in Keys, NEW now \in 0..MaxTime
    PROVE  /\ Remaining(k, now) \subseteq zset[k]
           /\ Remaining(k, now) \subseteq 0..MaxTime
           /\ IsFiniteSet(Remaining(k, now))
           /\ Cardinality(Remaining(k, now)) \in Nat
           /\ Cardinality(Remaining(k, now)) <= PermitsOf(k)
  <1>1. zset[k] \subseteq 0..MaxTime
    BY DEF TypeOK
  <1>2. Remaining(k, now) \subseteq zset[k]
    BY DEF Remaining, Live
  <1>4. IsFiniteSet(zset[k])
    BY <1>1, TicksFinite, FS_Subset
  <1>5. /\ IsFiniteSet(Remaining(k, now))
        /\ Cardinality(Remaining(k, now)) <= Cardinality(zset[k])
    BY <1>2, <1>4, FS_Subset
  <1>6. /\ Cardinality(Remaining(k, now)) \in Nat
        /\ Cardinality(zset[k]) \in Nat
    BY <1>4, <1>5, FS_CardinalityType
  <1>7. Cardinality(zset[k]) <= PermitsOf(k) /\ PermitsOf(k) \in Nat
    BY PermitsType DEF SizeInv
  <1> QED BY <1>1, <1>2, <1>5, <1>6, <1>7

(* The script of r, late as it may be, still counts every counted request   *)
(* of its key less than SureWindow before it, or after it.                  *)
LEMMA StillCounted ==
    ASSUME IInv, NEW r \in Requests, pc[r] = "stamped",
           NEW a \in Counted(Key(r)), stamp[a] > stamp[r] - SureWindow
    PROVE  stamp[a] \in Remaining(Key(r), stamp[r])
  <1> DEFINE k == Key(r)
  <1>1. /\ a \in Requests /\ pc[a] \in Counting /\ Key(a) = k
        /\ k \in Keys
    BY KeyInKeys DEF Counted, IInv
  <1>2. /\ stamp[a] \in Nat /\ stamp[r] \in Nat /\ clock \in Nat
        /\ expire[k] \in Nat
    BY <1>1, TimeAssumption DEF IInv, TypeOK
  <1>3. clock <= stamp[r] + MaxDelay
    BY DEF IInv, ClockInv
  <1>4. stamp[a] + Window > clock
    BY <1>2, <1>3, WindowAssumption, DelayAssumption
  <1>5. stamp[a] \in zset[k]
    BY <1>1, <1>2, <1>4, WindowAssumption DEF IInv, KeptInv
  <1>6. stamp[a] + Window + Grace <= expire[k]
    BY <1>1, <1>5 DEF IInv, MembersInv
  <1>7. stamp[a] \in Live(k)
    BY <1>2, <1>4, <1>5, <1>6, WindowAssumption DEF Live
  <1>8. stamp[a] > stamp[r] - Window
    BY <1>2, WindowAssumption, DelayAssumption
  <1> QED BY <1>7, <1>8 DEF Remaining

(* Conversely, a member that the script of r drops is out of the window.    *)
LEMMA DroppedIsOld ==
    ASSUME IInv, NEW k \in Keys, NEW now \in Nat, now <= clock,
           NEW s \in zset[k], s \notin Remaining(k, now)
    PROVE  s + Window <= clock
  <1>1. s \in Nat /\ clock \in Nat /\ expire[k] \in Nat
    BY TimeAssumption DEF IInv, TypeOK
  <1>2. s + Window + Grace <= expire[k]
    BY DEF IInv, MembersInv
  <1>3. CASE clock < expire[k]
    <2>1. s <= now - Window
      BY <1>1, <1>3, WindowAssumption DEF Remaining, Live
    <2> QED BY <1>1, <2>1, WindowAssumption
  <1>4. CASE ~(clock < expire[k])
    BY <1>1, <1>2, <1>4, WindowAssumption
  <1> QED BY <1>3, <1>4

-----------------------------------------------------------------------------
(* Steps that count nobody leave the properties about the counted alone.    *)
LEMMA SameCounted ==
    ASSUME IInv, caller' = caller,
           \A a \in Requests : pc'[a] \in Counting <=> pc[a] \in Counting,
           \A a \in Requests : pc[a] \in Counting => stamp'[a] = stamp[a]
    PROVE  /\ \A k \in Keys : Counted(k)' = Counted(k)
           /\ WindowLimit' /\ SinglePermitIsExact'
  <1>1. \A r \in Requests : Key(r)' = Key(r)
    BY DEF Key
  <1>2. ASSUME NEW k \in Keys PROVE Counted(k)' = Counted(k)
    BY <1>1 DEF Counted
  <1>3. ASSUME NEW k \in Keys, NEW t \in 0..MaxTime
        PROVE  StampsWithin(Counted(k), t)' = StampsWithin(Counted(k), t)
    <2>1. \A a \in Counted(k) : stamp'[a] = stamp[a]
      BY DEF Counted
    <2>2. Within(Counted(k), t)' = Within(Counted(k), t)
      BY <1>2, <2>1 DEF Within
    <2>3. \A a \in Within(Counted(k), t) : stamp'[a] = stamp[a]
      BY <2>1 DEF Within
    <2> QED BY <2>2, <2>3 DEF StampsWithin
  <1>4. WindowLimit'
    BY <1>3 DEF IInv, WindowLimit, PermitsOf
  <1>5. SinglePermitIsExact'
    <2> SUFFICES ASSUME NEW k \in Keys, PermitsOf(k) = 1,
                        NEW r1 \in Counted(k), NEW r2 \in Counted(k), r1 # r2
                 PROVE  stamp'[r1] - stamp'[r2] \notin (1 - SureWindow)..(SureWindow - 1)
      BY <1>2 DEF SinglePermitIsExact, PermitsOf
    <2>1. stamp'[r1] = stamp[r1] /\ stamp'[r2] = stamp[r2]
      BY DEF Counted
    <2> QED BY <2>1 DEF IInv, SinglePermitIsExact
  <1> QED BY <1>2, <1>4, <1>5

-----------------------------------------------------------------------------
LEMMA InitInv == Init => IInv
  <1> SUFFICES ASSUME Init PROVE IInv
    OBVIOUS
  <1>1. TypeOK
    BY TimeAssumption DEF Init, TypeOK, States
  <1>2. \A k \in Keys : Counted(k) = {}
    BY DEF Init, Counted, Counting
  <1>3. ClockInv
    BY DEF Init, ClockInv
  <1>4. MembersInv /\ KeptInv
    BY DEF Init, MembersInv, KeptInv, Counting
  <1>5. SizeInv
    BY FS_EmptySet, PermitsType DEF Init, SizeInv
  <1>6. WindowLimit
    <2> SUFFICES ASSUME NEW k \in Keys, NEW t \in 0..MaxTime
                 PROVE  Cardinality(StampsWithin(Counted(k), t)) <= PermitsOf(k)
      BY DEF WindowLimit
    <2>1. StampsWithin(Counted(k), t) = {}
      BY <1>2 DEF StampsWithin, Within
    <2> QED BY <2>1, FS_EmptySet, PermitsType
  <1>7. SinglePermitIsExact
    BY <1>2 DEF SinglePermitIsExact
  <1> QED BY <1>1, <1>3, <1>4, <1>5, <1>6, <1>7 DEF IInv

(* Reading the clock. *)
LEMMA StampInv == ASSUME IInv, NEW r \in Requests, Stamp(r) PROVE IInv'
  <1>1. /\ pc[r] = "new" /\ pc' = [pc EXCEPT ![r] = "stamped"]
        /\ stamp' = [stamp EXCEPT ![r] = clock]
        /\ clock' = clock /\ caller' = caller /\ zset' = zset /\ expire' = expire
    BY DEF Stamp
  <1>2. TypeOK /\ TypeOK'
    BY <1>1 DEF IInv, TypeOK, States, Counting
  <1>3. /\ \A a \in Requests : pc'[a] \in Counting <=> pc[a] \in Counting
        /\ \A a \in Requests : pc[a] \in Counting => stamp'[a] = stamp[a]
        /\ \A a \in Requests : Key(a)' = Key(a)
    BY <1>1, <1>2 DEF TypeOK, Key, Counting
  <1>4. ClockInv'
    BY <1>1, <1>2, DelayAssumption, TimeAssumption DEF IInv, ClockInv, TypeOK
  <1>5. /\ \A k \in Keys : Counted(k)' = Counted(k)
        /\ WindowLimit' /\ SinglePermitIsExact'
    BY <1>1, <1>3, SameCounted
  <1>6. MembersInv'
    BY <1>1, <1>3, <1>5 DEF IInv, MembersInv, Counted
  <1>7. SizeInv'
    BY <1>1 DEF IInv, SizeInv, PermitsOf
  <1>8. KeptInv'
    BY <1>1, <1>3 DEF IInv, KeptInv
  <1> QED BY <1>2, <1>4, <1>5, <1>6, <1>7, <1>8 DEF IInv

(* A refusal prunes the set and nothing else. *)
LEMMA RefuseInv ==
    ASSUME IInv, NEW r \in Requests, Refuse(r),
           NEW o \in {"rejected", "failed"}, pc' = [pc EXCEPT ![r] = o]
    PROVE  IInv'
  <1> DEFINE k == Key(r)  left == Remaining(k, stamp[r])
  <1>1. /\ pc[r] = "stamped" /\ pc' = [pc EXCEPT ![r] = o]
        /\ zset' = [zset EXCEPT ![k] = left]
        /\ clock' = clock /\ caller' = caller /\ stamp' = stamp /\ expire' = expire
    BY DEF Refuse
  <1>2. TypeOK /\ SizeInv /\ k \in Keys /\ stamp[r] \in 0..MaxTime /\ stamp[r] <= clock
    BY KeyInKeys DEF IInv, TypeOK, ClockInv
  <1>3. left \subseteq zset[k] /\ left \subseteq 0..MaxTime
        /\ Cardinality(left) <= PermitsOf(k)
    BY <1>2, RemainingFacts
  <1> HIDE DEF left, k
  <1>4. TypeOK'
    BY <1>1, <1>2, <1>3 DEF TypeOK, States
  <1>5. /\ \A a \in Requests : pc'[a] \in Counting <=> pc[a] \in Counting
        /\ \A a \in Requests : pc[a] \in Counting => stamp'[a] = stamp[a]
        /\ \A a \in Requests : Key(a)' = Key(a)
    BY <1>1, <1>2 DEF TypeOK, Key, Counting
  <1>6. ClockInv'
    BY <1>1, <1>2 DEF IInv, ClockInv, TypeOK
  <1>7. /\ \A j \in Keys : Counted(j)' = Counted(j)
        /\ WindowLimit' /\ SinglePermitIsExact'
    BY <1>1, <1>5, SameCounted
  <1>8. \A j \in Keys : zset'[j] \subseteq zset[j]
    BY <1>1, <1>2, <1>3 DEF TypeOK
  <1>9. MembersInv'
    BY <1>1, <1>7, <1>8 DEF IInv, MembersInv
  <1>10. SizeInv'
    BY <1>1, <1>2, <1>3 DEF SizeInv, TypeOK, PermitsOf
  <1>11. KeptInv'
    <2> SUFFICES ASSUME NEW a \in Requests, pc'[a] \in Counting
                 PROVE  stamp'[a] \in zset'[Key(a)'] \/ stamp'[a] + Window <= clock'
      BY DEF KeptInv
    <2>1. pc[a] \in Counting /\ Key(a)' = Key(a) /\ Key(a) \in Keys
      BY <1>2, <1>5, KeyInKeys
    <2>2. stamp[a] \in zset[Key(a)] \/ stamp[a] + Window <= clock
      BY <2>1 DEF IInv, KeptInv
    <2>3. CASE stamp[a] \in zset[Key(a)] /\ Key(a) = k /\ stamp[a] \notin left
      <3>1. stamp[r] \in Nat
        BY <1>2, TimeAssumption
      <3>2. stamp[a] + Window <= clock
        BY <1>2, <2>1, <2>3, <3>1, DroppedIsOld DEF left
      <3> QED BY <1>1, <3>2
    <2>4. CASE ~(stamp[a] \in zset[Key(a)] /\ Key(a) = k /\ stamp[a] \notin left)
      BY <1>1, <1>2, <2>1, <2>2, <2>4 DEF TypeOK
    <2> QED BY <2>3, <2>4
  <1> QED BY <1>4, <1>6, <1>7, <1>9, <1>10, <1>11 DEF IInv

(* The call fails before the script has run. *)
LEMMA UnreachedInv ==
    ASSUME IInv, NEW r \in Requests, pc[r] = "stamped",
           pc' = [pc EXCEPT ![r] = "failed"],
           UNCHANGED <<clock, caller, stamp, zset, expire>>
    PROVE  IInv'
  <1>1. /\ pc[r] = "stamped" /\ pc' = [pc EXCEPT ![r] = "failed"]
        /\ stamp' = stamp
        /\ clock' = clock /\ caller' = caller /\ zset' = zset /\ expire' = expire
    OBVIOUS
  <1>2. TypeOK /\ TypeOK'
    BY <1>1 DEF IInv, TypeOK, States, Counting
  <1>3. /\ \A a \in Requests : pc'[a] \in Counting <=> pc[a] \in Counting
        /\ \A a \in Requests : pc[a] \in Counting => stamp'[a] = stamp[a]
        /\ \A a \in Requests : Key(a)' = Key(a)
    BY <1>1, <1>2 DEF TypeOK, Key, Counting
  <1>4. ClockInv'
    BY <1>1, <1>2 DEF IInv, ClockInv, TypeOK
  <1>5. /\ \A k \in Keys : Counted(k)' = Counted(k)
        /\ WindowLimit' /\ SinglePermitIsExact'
    BY <1>1, <1>3, SameCounted
  <1>6. MembersInv'
    BY <1>1, <1>5 DEF IInv, MembersInv
  <1>7. SizeInv'
    BY <1>1 DEF IInv, SizeInv, PermitsOf
  <1>8. KeptInv'
    BY <1>1, <1>3 DEF IInv, KeptInv
  <1> QED BY <1>2, <1>4, <1>5, <1>6, <1>7, <1>8 DEF IInv

LEMMA TickInv == ASSUME IInv, Tick PROVE IInv'
  <1>1. /\ clock < MaxTime /\ clock' = clock + 1
        /\ \A r \in Requests : pc[r] = "stamped" => clock < stamp[r] + MaxDelay
        /\ caller' = caller /\ pc' = pc /\ stamp' = stamp
        /\ zset' = zset /\ expire' = expire
    BY DEF Tick
  <1>2. TypeOK /\ TypeOK'
    BY <1>1, TimeAssumption DEF IInv, TypeOK
  <1>3. clock \in Nat /\ \A r \in Requests : stamp[r] \in Nat
    BY <1>2, TimeAssumption DEF TypeOK
  <1>4. ClockInv'
    BY <1>1, <1>3, DelayAssumption DEF IInv, ClockInv
  <1>5. /\ \A k \in Keys : Counted(k)' = Counted(k)
        /\ WindowLimit' /\ SinglePermitIsExact'
    BY <1>1, SameCounted
  <1>6. MembersInv' /\ SizeInv'
    BY <1>1, <1>5 DEF IInv, MembersInv, SizeInv, PermitsOf
  <1>7. KeptInv'
    <2>1. \A a \in Requests : Key(a)' = Key(a)
      BY <1>1 DEF Key
    <2> QED BY <1>1, <1>3, <2>1, WindowAssumption DEF IInv, KeptInv
  <1> QED BY <1>2, <1>4, <1>5, <1>6, <1>7 DEF IInv

(* The script counts r, whether its answer arrives or not. *)
LEMMA CountInv ==
    ASSUME IInv, NEW r \in Requests, Count(r),
           NEW o \in Counting, pc' = [pc EXCEPT ![r] = o]
    PROVE  IInv'
  <1>0. PICK k \in Keys : k = Key(r)
    BY KeyInKeys DEF IInv
  <1> DEFINE left == Remaining(k, stamp[r])
  <1>1. /\ pc[r] = "stamped" /\ pc' = [pc EXCEPT ![r] = o]
        /\ Cardinality(left) < PermitsOf(k)
        /\ zset' = [zset EXCEPT ![k] = left \cup {stamp[r]}]
        /\ expire' = [expire EXCEPT ![k] = clock + Window + Grace]
        /\ clock' = clock /\ caller' = caller /\ stamp' = stamp
    BY <1>0 DEF Count
  <1>2. TypeOK /\ SizeInv /\ k \in Keys /\ stamp[r] \in 0..MaxTime /\ stamp[r] <= clock
    BY DEF IInv, TypeOK, ClockInv
  <1>3. /\ left \subseteq zset[k] /\ left \subseteq 0..MaxTime
        /\ IsFiniteSet(left) /\ Cardinality(left) \in Nat
    BY <1>2, RemainingFacts
  <1>4. \A a \in Counted(k) : stamp[a] > stamp[r] - SureWindow => stamp[a] \in left
    BY <1>0, <1>1, StillCounted
  <1>5. \A s \in zset[k] : s \notin left => s + Window <= clock
    <2>1. stamp[r] \in Nat
      BY <1>2, TimeAssumption
    <2> QED BY <1>2, <2>1, DroppedIsOld
  <1> HIDE DEF left
  <1>6. clock \in Nat /\ \A a \in Requests : stamp[a] \in 0..MaxTime /\ stamp[a] \in Nat
    BY <1>2, TimeAssumption DEF TypeOK
  <1>7. /\ \A j \in Keys : j # k => zset'[j] = zset[j] /\ expire'[j] = expire[j]
        /\ zset'[k] = left \cup {stamp[r]}
        /\ expire'[k] = clock + Window + Grace
        /\ \A a \in Requests : a # r => pc'[a] = pc[a]
        /\ pc'[r] = o
        /\ \A a \in Requests : Key(a)' = Key(a)
    BY <1>1, <1>2 DEF TypeOK, Key
  <1>8. /\ \A j \in Keys : j # k => Counted(j)' = Counted(j)
        /\ Counted(k)' = Counted(k) \cup {r}
    BY <1>0, <1>1, <1>7 DEF Counted
  <1>9. TypeOK'
    <2>1. clock + Window + Grace \in Nat
      BY <1>6, WindowAssumption
    <2>2. zset' \in [Keys -> SUBSET (0..MaxTime)]
      BY <1>1, <1>2, <1>3 DEF TypeOK
    <2>3. expire' \in [Keys -> Nat]
      BY <1>1, <1>2, <2>1 DEF TypeOK
    <2> QED BY <1>1, <1>2, <2>2, <2>3 DEF TypeOK, States, Counting
  <1>10. ClockInv'
    BY <1>1, <1>7 DEF IInv, ClockInv
  <1>11. MembersInv'
    <2> SUFFICES ASSUME NEW j \in Keys, NEW s \in zset'[j]
                 PROVE  /\ s + Window + Grace <= expire'[j]
                        /\ \E a \in Counted(j)' : stamp'[a] = s
      BY DEF MembersInv
    <2>1. CASE j # k
      BY <1>1, <1>7, <1>8, <2>1 DEF IInv, MembersInv
    <2>2. CASE j = k /\ s = stamp[r]
      <3>1. r \in Counted(k)' /\ stamp'[r] = s
        BY <1>1, <1>8, <2>2
      <3>2. stamp[r] \in Nat /\ stamp[r] <= clock /\ clock \in Nat
        BY <1>2, <1>6
      <3>3. s + Window + Grace <= expire'[k]
        BY <1>7, <2>2, <3>2, WindowAssumption
      <3> QED BY <2>2, <3>1, <3>3
    <2>3. CASE j = k /\ s # stamp[r]
      <3>1. s \in zset[k]
        BY <1>3, <1>7, <2>3
      <3>2. PICK a \in Counted(k) : stamp[a] = s
        BY <1>2, <3>1 DEF IInv, MembersInv
      <3>3. a \in Requests /\ pc[a] \in Counting
        BY <3>2 DEF Counted
      <3>4. s \in Nat /\ s <= clock
        BY <1>6, <3>2, <3>3 DEF IInv, ClockInv
      <3>5. a \in Counted(k)' /\ stamp'[a] = s
        BY <1>1, <1>8, <3>2
      <3>6. s + Window + Grace <= expire'[k]
        BY <1>6, <1>7, <3>4, WindowAssumption
      <3> QED BY <2>3, <3>5, <3>6
    <2> QED BY <2>1, <2>2, <2>3
  <1>12. Cardinality(left \cup {stamp[r]}) <= PermitsOf(k)
    <2>1. Cardinality(left \cup {stamp[r]}) =
             IF stamp[r] \in left THEN Cardinality(left) ELSE Cardinality(left) + 1
      BY <1>3, FS_AddElement
    <2> QED BY <1>1, <1>2, <1>3, <2>1, PermitsType
  <1>13. SizeInv'
    BY <1>7, <1>12, <1>2 DEF SizeInv, PermitsOf
  <1>14. KeptInv'
    <2> SUFFICES ASSUME NEW a \in Requests, pc'[a] \in Counting
                 PROVE  stamp'[a] \in zset'[Key(a)'] \/ stamp'[a] + Window <= clock'
      BY DEF KeptInv
    <2>1. CASE a = r
      BY <1>0, <1>1, <1>7, <2>1
    <2>2. CASE a # r
      <3>1. pc[a] \in Counting /\ Key(a) \in Keys /\ Key(a)' = Key(a)
        BY <1>2, <1>7, <2>2, KeyInKeys
      <3>2. stamp[a] \in zset[Key(a)] \/ stamp[a] + Window <= clock
        BY <3>1 DEF IInv, KeptInv
      <3>3. CASE Key(a) = k
        BY <1>1, <1>5, <1>7, <3>1, <3>2, <3>3
      <3>4. CASE Key(a) # k
        BY <1>1, <1>7, <3>1, <3>2, <3>4
      <3> QED BY <3>3, <3>4
    <2> QED BY <2>1, <2>2
  <1>15. WindowLimit'
    <2> SUFFICES ASSUME NEW j \in Keys, NEW t \in 0..MaxTime
                 PROVE  Cardinality(StampsWithin(Counted(j), t)') <= PermitsOf(j)
      BY DEF WindowLimit, PermitsOf
    <2>1. Cardinality(StampsWithin(Counted(j), t)) <= PermitsOf(j)
      BY DEF IInv, WindowLimit
    <2>2. CASE j # k \/ ~(t - SureWindow < stamp[r] /\ stamp[r] <= t)
      <3>1. Within(Counted(j), t)' = Within(Counted(j), t)
        <4>1. CASE j # k
          BY <1>1, <1>8, <4>1 DEF Within
        <4>2. CASE j = k
          <5>1. Counted(j)' = Counted(j) \cup {r}
            BY <1>8, <4>2
          <5> QED BY <1>1, <2>2, <4>2, <5>1 DEF Within
        <4> QED BY <4>1, <4>2
      <3>2. StampsWithin(Counted(j), t)' = StampsWithin(Counted(j), t)
        BY <1>1, <3>1 DEF StampsWithin
      <3> QED BY <2>1, <3>2
    <2>3. CASE j = k /\ t - SureWindow < stamp[r] /\ stamp[r] <= t
      <3>1. ASSUME NEW a \in Within(Counted(k), t)' PROVE stamp[a] \in left \cup {stamp[r]}
        <4>1. (a \in Counted(k) \/ a = r) /\ t - SureWindow < stamp[a] /\ stamp[a] <= t
          BY <1>1, <1>8, <3>1 DEF Within
        <4>2. CASE a = r
          BY <4>2
        <4>3. CASE a \in Counted(k)
          <5>1. stamp[a] \in Nat /\ stamp[r] \in Nat
            BY <1>6, <4>3 DEF Counted
          <5>2. stamp[a] > stamp[r] - SureWindow
            BY <2>3, <4>1, <5>1, WindowAssumption, DelayAssumption
          <5> QED BY <1>4, <4>3, <5>2
        <4> QED BY <4>1, <4>2, <4>3
      <3>2. StampsWithin(Counted(k), t)' \subseteq left \cup {stamp[r]}
        BY <1>1, <3>1 DEF StampsWithin
      <3>3. IsFiniteSet(left \cup {stamp[r]})
        BY <1>3, FS_AddElement
      <3>4. /\ IsFiniteSet(StampsWithin(Counted(k), t)')
            /\ Cardinality(StampsWithin(Counted(k), t)') <= Cardinality(left \cup {stamp[r]})
        BY <3>2, <3>3, FS_Subset
      <3>5. /\ Cardinality(StampsWithin(Counted(k), t)') \in Nat
            /\ Cardinality(left \cup {stamp[r]}) \in Nat
        BY <3>3, <3>4, FS_CardinalityType
      <3>6. PermitsOf(k) \in Nat
        BY <1>2, PermitsType
      <3>7. Cardinality(StampsWithin(Counted(k), t)') <= PermitsOf(k)
        BY <1>12, <3>4, <3>5, <3>6
      <3> QED BY <2>3, <3>7
    <2> QED BY <2>2, <2>3
  <1>16. SinglePermitIsExact'
    <2> SUFFICES ASSUME NEW j \in Keys, PermitsOf(j) = 1,
                        NEW r1 \in Counted(j)', NEW r2 \in Counted(j)', r1 # r2
                 PROVE  stamp[r1] - stamp[r2] \notin (1 - SureWindow)..(SureWindow - 1)
      BY <1>1 DEF SinglePermitIsExact, PermitsOf
    <2>1. CASE r1 \in Counted(j) /\ r2 \in Counted(j)
      BY <2>1 DEF IInv, SinglePermitIsExact
    <2>2. ASSUME NEW a \in Counted(k), PermitsOf(k) = 1
          PROVE  ~(stamp[a] > stamp[r] - SureWindow)
      <3>1. SUFFICES ASSUME stamp[a] > stamp[r] - SureWindow PROVE FALSE
        OBVIOUS
      <3>2. stamp[a] \in left
        BY <1>4, <3>1
      <3>3. Cardinality(left) = 0
        BY <1>1, <1>3, <2>2
      <3> QED BY <1>3, <3>2, <3>3, FS_EmptySet
    <2>3. ASSUME NEW a \in Counted(k), PermitsOf(k) = 1
          PROVE  /\ stamp[a] - stamp[r] \notin (1 - SureWindow)..(SureWindow - 1)
                 /\ stamp[r] - stamp[a] \notin (1 - SureWindow)..(SureWindow - 1)
      <3>1. stamp[a] \in Nat /\ stamp[r] \in Nat
        BY <1>6 DEF Counted
      <3> QED BY <2>2, <2>3, <3>1, WindowAssumption, DelayAssumption
    <2>4. CASE ~(r1 \in Counted(j) /\ r2 \in Counted(j))
      <3>1. j = k
        BY <1>8, <2>4
      <3>2. r1 \in Counted(k) \cup {r} /\ r2 \in Counted(k) \cup {r}
        BY <1>8, <3>1
      <3>3. \/ r1 = r /\ r2 \in Counted(k)
            \/ r2 = r /\ r1 \in Counted(k)
        BY <2>4, <3>1, <3>2
      <3> QED BY <2>3, <3>1, <3>3
    <2> QED BY <2>1, <2>4
  <1> QED BY <1>9, <1>10, <1>11, <1>13, <1>14, <1>15, <1>16 DEF IInv

LEMMA StutterInv == ASSUME IInv, UNCHANGED vars PROVE IInv'
  <1>1. /\ clock' = clock /\ caller' = caller /\ pc' = pc /\ stamp' = stamp
        /\ zset' = zset /\ expire' = expire
    BY DEF vars
  <1>2. /\ \A k \in Keys : Counted(k)' = Counted(k)
        /\ WindowLimit' /\ SinglePermitIsExact'
    BY <1>1, SameCounted
  <1>3. \A a \in Requests : Key(a)' = Key(a)
    BY <1>1 DEF Key
  <1>4. TypeOK' /\ ClockInv'
    BY <1>1 DEF IInv, TypeOK, ClockInv
  <1>5. MembersInv' /\ SizeInv' /\ KeptInv'
    BY <1>1, <1>2, <1>3 DEF IInv, MembersInv, SizeInv, KeptInv, PermitsOf
  <1> QED BY <1>2, <1>4, <1>5 DEF IInv

LEMMA NextInv == ASSUME IInv, [Next]_vars PROVE IInv'
  <1>1. ASSUME NEW r \in Requests, Stamp(r) PROVE IInv'
    BY <1>1, StampInv
  <1>2. ASSUME NEW r \in Requests, Reject(r) PROVE IInv'
    BY <1>2, RefuseInv DEF Reject
  <1>3. ASSUME NEW r \in Requests, Admit(r) PROVE IInv'
    BY <1>3, CountInv DEF Admit, Counting
  <1>4. ASSUME NEW r \in Requests, ScriptFails(r) PROVE IInv'
    <2>1. CASE Refuse(r) /\ pc' = [pc EXCEPT ![r] = "failed"]
      BY <2>1, RefuseInv
    <2>2. CASE Count(r) /\ pc' = [pc EXCEPT ![r] = "lost"]
      BY <2>2, CountInv DEF Counting
    <2> QED BY <1>4, <2>1, <2>2, UnreachedInv DEF ScriptFails
  <1>5. CASE Tick
    BY <1>5, TickInv
  <1>6. CASE Exhausted \/ UNCHANGED vars
    BY <1>6, StutterInv DEF Exhausted
  <1> QED BY <1>1, <1>2, <1>3, <1>4, <1>5, <1>6 DEF Next

-----------------------------------------------------------------------------
(* The inductive invariant holds in every reachable state. *)
THEOREM IInvariant == Spec => []IInv
  <1>1. Init => IInv
    BY InitInv
  <1>2. IInv /\ [Next]_vars => IInv'
    BY NextInv
  <1> QED BY <1>1, <1>2, PTL DEF Spec

(* Every variable keeps its type. *)
THEOREM TypeCorrect == Spec => []TypeOK
  <1>1. IInv => TypeOK
    BY DEF IInv
  <1> QED BY <1>1, IInvariant, PTL

(* However late the scripts run within MaxDelay, no window lets more than   *)
(* Permits distinct milliseconds of one key through.                        *)
THEOREM Limited == Spec => []WindowLimit
  <1>1. IInv => WindowLimit
    BY DEF IInv
  <1> QED BY <1>1, IInvariant, PTL

(* One permit means one request per window, whatever their milliseconds.    *)
THEOREM ExactForOne == Spec => []SinglePermitIsExact
  <1>1. IInv => SinglePermitIsExact
    BY DEF IInv
  <1> QED BY <1>1, IInvariant, PTL

(* Requests are refused only for counted ones, never for refused ones or    *)
(* for failed ones that the script did not count.                           *)
THEOREM RefusalJustified == Spec => RejectedIsFull
  <1> DEFINE Earlier(r) == {a \in Counted(Key(r)) : stamp[a] > stamp[r] - Window}
             Step == \A r \in Requests : pc[r] # "rejected" /\ pc'[r] = "rejected" =>
                       Cardinality({stamp[a] : a \in Earlier(r)}) >= PermitsOf(Key(r))
  <1>1. ASSUME IInv, Next PROVE Step
    <2> SUFFICES ASSUME NEW r \in Requests, pc[r] # "rejected", pc'[r] = "rejected"
                 PROVE  Cardinality({stamp[a] : a \in Earlier(r)}) >= PermitsOf(Key(r))
      OBVIOUS
    <2> DEFINE k == Key(r)
    <2>1. TypeOK /\ SizeInv /\ MembersInv /\ k \in Keys /\ stamp[r] \in 0..MaxTime
      BY <1>1, KeyInKeys DEF IInv, TypeOK
    <2>2. Refuse(r)
      BY <1>1, <2>1 DEF Next, Stamp, Reject, Admit, Count, ScriptFails, Tick, Exhausted, vars, TypeOK
    <2>3. Cardinality(Remaining(k, stamp[r])) >= PermitsOf(k)
      BY <2>2 DEF Refuse
    <2>4. Remaining(k, stamp[r]) \subseteq {stamp[a] : a \in Earlier(r)}
      <3> SUFFICES ASSUME NEW s \in Remaining(k, stamp[r])
                   PROVE  \E a \in Earlier(r) : stamp[a] = s
        OBVIOUS
      <3>1. s \in zset[k] /\ s > stamp[r] - Window
        BY DEF Remaining, Live
      <3> QED BY <2>1, <3>1 DEF MembersInv
    <2>5. IsFiniteSet({stamp[a] : a \in Earlier(r)})
      <3>1. {stamp[a] : a \in Earlier(r)} \subseteq 0..MaxTime
        BY <2>1 DEF TypeOK, Counted
      <3> QED BY <3>1, TicksFinite, FS_Subset
    <2>6. Cardinality(Remaining(k, stamp[r])) <= Cardinality({stamp[a] : a \in Earlier(r)})
      BY <2>4, <2>5, FS_Subset
    <2>7. /\ Cardinality(Remaining(k, stamp[r])) \in Nat
          /\ Cardinality({stamp[a] : a \in Earlier(r)}) \in Nat
          /\ PermitsOf(k) \in Nat
      BY <2>1, <2>5, RemainingFacts, FS_CardinalityType, PermitsType
    <2> QED BY <2>3, <2>6, <2>7
  <1>2. IInv /\ [Next]_vars => [Step]_vars
    BY <1>1
  <1> QED BY <1>2, IInvariant, PTL DEF Spec, RejectedIsFull
=============================================================================
