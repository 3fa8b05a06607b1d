----------------------------- MODULE RateLimit -----------------------------
(***************************************************************************)
(* The @RateLimit aspect and rate_limit.lua: a sliding window kept as a    *)
(* sorted set of timestamps.  The application thread reads its clock, the  *)
(* script runs later in Redis: other requests and the passing of time      *)
(* interleave between the two.                                             *)
(***************************************************************************)
EXTENDS Integers, FiniteSets

CONSTANTS
    Requests, Users, Ips, NoUser,
    Endpoints,      \* the methods annotated with @RateLimit
    KeyType,        \* KeyType[e]: "GLOBAL", "IP" or "USER"
    Permits,        \* Permits[e]
    LoginRequired,  \* endpoints behind LoginInterceptor
    Window,         \* windowSeconds * 1000, in ticks of the clock
    Grace,          \* the second that EXPIRE adds to the window
    MaxDelay,       \* bound: ticks from reading the clock to the script's end
    MaxTime         \* bound on the clock

ASSUME PermitsAssumption == Permits \in [Endpoints -> Nat \ {0}]
ASSUME WindowAssumption == Window \in Nat /\ Grace \in Nat
ASSUME DelayAssumption == MaxDelay \in Nat /\ MaxDelay < Window
ASSUME TimeAssumption == MaxTime \in Nat

VARIABLES
    clock,   \* System.currentTimeMillis(), in ticks
    caller,  \* caller[r]: endpoint, UserHolder.getUser(), client address
    pc,      \* pc[r]: where request r stands
    stamp,   \* stamp[r]: the "now" r sends to the script
    zset,    \* zset[k]: members of the sorted set, each its own score
    expire   \* expire[k]: when Redis drops k

vars == <<clock, caller, pc, stamp, zset, expire>>

Caller == [endpoint : Endpoints, user : Users \cup {NoUser}, ip : Ips]
Keys == Endpoints \X (Users \cup Ips \cup {"global"})
(* "lost": the call failed although the script counted the request. *)
States == {"new", "stamped", "admitted", "rejected", "failed", "lost"}

(* RateLimitAspect.buildKey: the method, then the value of the dimension.   *)
Key(r) == LET c == caller[r] IN
    << c.endpoint,
       CASE KeyType[c.endpoint] = "USER" /\ c.user # NoUser -> c.user
         [] KeyType[c.endpoint] = "IP" -> c.ip
         [] KeyType[c.endpoint] = "USER" /\ c.user = NoUser -> c.ip
         [] OTHER -> "global" >>
PermitsOf(k) == Permits[k[1]]

Init ==
    /\ clock = 0
    /\ caller \in [Requests -> Caller]
    /\ \A r \in Requests :
          caller[r].endpoint \in LoginRequired <=> caller[r].user # NoUser
    /\ pc = [r \in Requests |-> "new"]
    /\ stamp = [r \in Requests |-> 0]
    /\ zset = [k \in Keys |-> {}]
    /\ expire = [k \in Keys |-> 0]

(* around(): the clock is read before the script is sent. *)
Stamp(r) ==
    /\ pc[r] = "new"
    /\ pc' = [pc EXCEPT ![r] = "stamped"]
    /\ stamp' = [stamp EXCEPT ![r] = clock]
    /\ UNCHANGED <<clock, caller, zset, expire>>

Live(k) == IF clock < expire[k] THEN zset[k] ELSE {}

(* ZREMRANGEBYSCORE key 0 (now - window), both ends included. *)
Remaining(k, now) == {s \in Live(k) : s > now - Window}

(* Mutants: a refused request is recorded as well; the key expires a second *)
(* early instead of late, and only the first member sets the expiry; >      *)
(* instead of >= in the comparison with the permits.                        *)
RefuseRecorded(r) == LET k == Key(r) IN
    /\ pc[r] = "stamped"
    /\ Cardinality(Remaining(k, stamp[r])) >= PermitsOf(k)
    /\ zset' = [zset EXCEPT ![k] = Remaining(k, stamp[r]) \cup {stamp[r]}]
    /\ expire' = [expire EXCEPT ![k] = clock + Window + Grace]
    /\ UNCHANGED <<clock, caller, stamp>>

CountExpiresEarly(r) == LET k == Key(r) IN
    /\ pc[r] = "stamped"
    /\ Cardinality(Remaining(k, stamp[r])) < PermitsOf(k)
    /\ zset' = [zset EXCEPT ![k] = Remaining(k, stamp[r]) \cup {stamp[r]}]
    /\ expire' = [expire EXCEPT ![k] = IF Live(k) = {} THEN clock + Window - Grace ELSE @]
    /\ UNCHANGED <<clock, caller, stamp>>

CountOneMore(r) == LET k == Key(r) IN
    /\ pc[r] = "stamped"
    /\ Cardinality(Remaining(k, stamp[r])) <= PermitsOf(k)
    /\ zset' = [zset EXCEPT ![k] = Remaining(k, stamp[r]) \cup {stamp[r]}]
    /\ expire' = [expire EXCEPT ![k] = clock + Window + Grace]
    /\ UNCHANGED <<clock, caller, stamp>>

(* The script of r, up to its "return 0": the set is pruned. *)
Refuse(r) == LET k == Key(r) IN
    /\ pc[r] = "stamped"
    /\ Cardinality(Remaining(k, stamp[r])) >= PermitsOf(k)
    /\ zset' = [zset EXCEPT ![k] = Remaining(k, stamp[r])]
    /\ UNCHANGED <<clock, caller, stamp, expire>>

(* The script of r, up to its "return 1".  ZADD key now now: a member that  *)
(* is there already is not added again.                                     *)
Count(r) == LET k == Key(r) IN
    /\ pc[r] = "stamped"
    /\ Cardinality(Remaining(k, stamp[r])) < PermitsOf(k)
    /\ zset' = [zset EXCEPT ![k] = Remaining(k, stamp[r]) \cup {stamp[r]}]
    /\ expire' = [expire EXCEPT ![k] = clock + Window + Grace]
    /\ UNCHANGED <<clock, caller, stamp>>

(* The answer arrives: RateLimitException, or the method itself. *)
Reject(r) == Refuse(r) /\ pc' = [pc EXCEPT ![r] = "rejected"]
Admit(r) == Count(r) /\ pc' = [pc EXCEPT ![r] = "admitted"]

(* execute() throws: Redis was not reached, or its answer was lost or came  *)
(* after the timeout.  The request ends; what the script has done, or does  *)
(* within MaxDelay although nobody waits for it any more, stays done.       *)
ScriptFails(r) ==
    \/ /\ pc[r] = "stamped"
       /\ pc' = [pc EXCEPT ![r] = "failed"]
       /\ UNCHANGED <<clock, caller, stamp, zset, expire>>
    \/ Refuse(r) /\ pc' = [pc EXCEPT ![r] = "failed"]
    \/ Count(r) /\ pc' = [pc EXCEPT ![r] = "lost"]

Tick ==
    /\ clock < MaxTime
    /\ \A r \in Requests : pc[r] = "stamped" => clock < stamp[r] + MaxDelay
    /\ clock' = clock + 1
    /\ UNCHANGED <<caller, pc, stamp, zset, expire>>

Exhausted ==
    /\ clock = MaxTime
    /\ \A r \in Requests : pc[r] \notin {"new", "stamped"}
    /\ UNCHANGED vars

Next ==
    \/ \E r \in Requests : Stamp(r) \/ Reject(r) \/ Admit(r) \/ ScriptFails(r)
    \/ Tick
    \/ Exhausted

Spec == Init /\ [][Next]_vars

-----------------------------------------------------------------------------
(* Properties.                                                              *)

TypeOK ==
    /\ clock \in 0..MaxTime
    /\ caller \in [Requests -> Caller]
    /\ pc \in [Requests -> States]
    /\ stamp \in [Requests -> 0..MaxTime]
    /\ zset \in [Keys -> SUBSET (0..MaxTime)]
    /\ expire \in [Keys -> Nat]

Counting == {"admitted", "lost"}
Counted(k) == {r \in Requests : pc[r] \in Counting /\ Key(r) = k}
Admitted(k) == {r \in Counted(k) : pc[r] = "admitted"}
(* In a window of this length the delay between clock and script cannot     *)
(* hide a request from another.                                             *)
SureWindow == Window - MaxDelay
Within(rs, t) == {r \in rs : t - SureWindow < stamp[r] /\ stamp[r] <= t}
StampsWithin(rs, t) == {stamp[r] : r \in Within(rs, t)}

(* In every sliding window, wherever it starts, at most Permits distinct    *)
(* milliseconds of one key count, be the request let through or its answer  *)
(* lost: late scripts, expiry of the key and refused or failed requests in  *)
(* between do not open the window.                                          *)
WindowLimit ==
    \A k \in Keys : LET counted == Counted(k) IN
        \A t \in 0..MaxTime : Cardinality(StampsWithin(counted, t)) <= PermitsOf(k)

(* With a single permit (sendCode) the limit is exact: two requests of one  *)
(* key never both count within a window, in one millisecond neither; the    *)
(* one whose answer was lost has used the permit up.                        *)
SinglePermitIsExact ==
    \A k \in Keys : PermitsOf(k) = 1 =>
        \A r1, r2 \in Counted(k) :
            r1 # r2 => stamp[r1] - stamp[r2] \notin (1 - SureWindow)..(SureWindow - 1)

(* Nobody is refused by mistake: a request is only rejected when Permits    *)
(* requests of the same key, at different milliseconds within the window    *)
(* before it, were let through or failed after the script had counted them. *)
(* Refused requests never prolong the ban, and neither do those that failed *)
(* before the script ran or found the window full.                          *)
RejectedIsFull ==
    [][\A r \in Requests : pc[r] # "rejected" /\ pc'[r] = "rejected" =>
          Cardinality({stamp[a] : a \in {a \in Counted(Key(r)) :
                                            stamp[a] > stamp[r] - Window}})
             >= PermitsOf(Key(r))]_vars

(* What the docs say of the seckill endpoint: one user gets through at most *)
(* Permits times per window.                                                *)
PermitsPerWindow ==
    \A k \in Keys : \A t \in 0..MaxTime :
        Cardinality(Within(Admitted(k), t)) <= PermitsOf(k)
=============================================================================
