----------------------------- MODULE CachedRow -----------------------------
(***************************************************************************)
(* What two levels of cache before one row promise, without saying how: a  *)
(* reader learns the row as it stands or what a cache remembers, once; the *)
(* caches remember what a reader learned; only the shared one remembers    *)
(* that there is no row.  All may be forgotten, except an answer given.    *)
(***************************************************************************)
EXTENDS Integers

CONSTANTS Readers, Nodes, Nothing

VARIABLES row,    \* the version of the row; 0 is no row
          shared, \* the cache all nodes share
          local,  \* local[n]: the cache of node n
          seen,   \* seen[r]: what reader r has learned
          final   \* the readers that have answered with what they learned

cacheState == <<row, shared, local, seen, final>>

Init ==
    /\ row \in {0, 1}
    /\ shared = Nothing
    /\ local = [n \in Nodes |-> Nothing]
    /\ seen = [r \in Readers |-> Nothing]
    /\ final = {}

Change ==
    /\ row' = row + 1
    /\ UNCHANGED <<shared, local, seen, final>>

(* At once with what it learns, or later, a reader answers. *)
Learn(r, v) ==
    /\ seen[r] = Nothing
    /\ v # Nothing
    /\ v \in {row, shared} \cup {local[n] : n \in Nodes}
    /\ seen' = [seen EXCEPT ![r] = v]
    /\ final' \in {final, final \cup {r}}
    /\ UNCHANGED <<row, shared, local>>

(* A reader that breaks off may have been heard by the shared cache. *)
Share(r) ==
    /\ seen[r] # Nothing /\ r \notin final
    /\ shared' = seen[r]
    /\ seen' \in {seen, [seen EXCEPT ![r] = Nothing]}
    /\ UNCHANGED <<row, local, final>>

Answer(r) ==
    /\ seen[r] # Nothing /\ r \notin final
    /\ final' = final \cup {r}
    /\ \/ seen[r] = 0 /\ local' = local
       \/ seen[r] # 0 /\ \E n \in Nodes : local' = [local EXCEPT ![n] = seen[r]]
    /\ UNCHANGED <<row, shared, seen>>

Forget ==
    /\ shared' \in {shared, Nothing}
    /\ DOMAIN local' = Nodes /\ \A n \in Nodes : local'[n] \in {local[n], Nothing}
    /\ DOMAIN seen' = Readers
    /\ \A r \in Readers : seen'[r] \in {seen[r], IF r \in final THEN seen[r] ELSE Nothing}
    /\ UNCHANGED <<row, final>>

Next ==
    \/ Change \/ Forget
    \/ \E r \in Readers : \/ Share(r) \/ Answer(r)
                          \/ \E v \in {row, shared} \cup {local[n] : n \in Nodes} : Learn(r, v)

Spec == Init /\ [][Next]_cacheState
=============================================================================
