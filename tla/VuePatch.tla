----------------------------- MODULE VuePatch -----------------------------
(***************************************************************************)
(* patch of js/vue.js: how the children of one element on the screen are   *)
(* turned into the list a new render asks for (the v-for lists of the      *)
(* pages).  A vnode is a record of its key, its tag, whether it has data,  *)
(* its ref, whether that stands in a v-for (refInFor), and whether the     *)
(* component made for it renders an empty root; a step is one turn of the  *)
(* loop of updateChildren, addVnodes or removeVnodes.  Grandchildren are   *)
(* patched by the same code and are left out, as are transitions and       *)
(* server-rendered pages.                                                  *)
(***************************************************************************)
EXTENDS Integers, Sequences, SequencesExt, FiniteSets

CONSTANTS Families,  \* bound: sets of lists, two renders return lists of one set
          NoKey, NoRef

VARIABLES sameRoot,      \* the element itself is the same vnode as before
          oldCh, newCh,  \* the vnode lists, with the DOM nodes they stand for
          moved,         \* indices of oldCh set to undefined
          os, oe, ns, ne,          \* oldStartIdx .. newEndIdx
          oldKeyToIdx,   \* made when first needed, then kept
          childNodes,    \* the DOM: node ids in document order
          nodes,         \* how many DOM nodes were made
          refs,          \* $refs of the context: an array or one node, and which
          alive,         \* component nodes made and not destroyed
          inserted,      \* insertedVnodeQueue: components to call mounted on
          mounted,       \* component nodes whose mounted hook was called
          step           \* what comes next

patchVars == <<sameRoot, oldCh, newCh, moved, os, oe, ns, ne, oldKeyToIdx, childNodes, nodes,
               refs, alive, inserted, mounted, step>>

None == 0                         \* no DOM node
Text == "text"                    \* tag of a text node
IsComponent(v) == v.tag = "component"
Shapes == UNION { ToSet(list) : list \in UNION Families }
Keys == { s.key : s \in Shapes } \ {NoKey}
Refs == { s.ref : s \in Shapes } \ {NoRef}

\* Lists are sequences; a vnode with a ref has data, the ref.
ASSUME ShapesAssumption ==
    /\ \A lists \in Families : lists \subseteq Seq(Shapes)
    /\ \A s \in Shapes : /\ s.data \in BOOLEAN /\ s.inFor \in BOOLEAN /\ s.empty \in BOOLEAN
                         /\ s.ref # NoRef => s.data
                         /\ s.ref = NoRef => ~s.inFor
                         /\ s.empty => IsComponent(s)

VNode(s, e) == [key |-> s.key, tag |-> s.tag, data |-> s.data, ref |-> s.ref,
                inFor |-> s.inFor, empty |-> s.empty, elm |-> e]

\* sameVnode: may the DOM node of a be kept for b?
SameVnode(a, b) == a.key = b.key /\ a.tag = b.tag /\ a.data = b.data

-----------------------------------------------------------------------------
(* nodeOps and insert.  Inserting a node that is in the document moves it;  *)
(* nothing is inserted before a node that is not a child of the element.    *)
IndexOf(list, e) == CHOOSE i \in DOMAIN list : list[i] = e
Without(list, e) == IF e \in ToSet(list) THEN RemoveAt(list, IndexOf(list, e)) ELSE list
InsertBefore(list, e, refElm) ==
    LET rest == Without(list, e) IN
    IF refElm = None THEN Append(rest, e)
    ELSE IF refElm \in ToSet(rest) THEN InsertAt(rest, IndexOf(rest, refElm), e) ELSE list
NextSibling(e) ==
    LET i == IndexOf(childNodes, e)
    IN IF i < Len(childNodes) THEN childNodes[i + 1] ELSE None

(* registerRef.  In a v-for $refs[ref] is an array, to which a node is      *)
(* added once; elsewhere it names the node that registered last.            *)
AddRef(rs, v, e) ==
    IF v.ref = NoRef THEN rs
    ELSE [rs EXCEPT ![v.ref] =
              [array |-> v.inFor,
               nodes |-> IF v.inFor /\ @.array THEN @.nodes \cup {e} ELSE {e}]]

(* Mutant of DropRef: whatever $refs names is taken back. *)
DropAnyRef(rs, v, e) == IF v.ref = NoRef THEN rs ELSE [rs EXCEPT ![v.ref].nodes = {}]

\* A removal takes only this node out of an array, or out of $refs.
DropRef(rs, v, e) == IF v.ref = NoRef THEN rs ELSE [rs EXCEPT ![v.ref].nodes = @ \ {e}]

\* A component whose root is empty is not patchable: its update hooks are not run.
\* The new vnode has taken over the old one's component by then.
IsPatchable(o) == ~o.empty

\* The update hook of the ref module, run by patchVnode when there is data.
UpdateRef(rs, o, n) ==
    IF n.data /\ IsPatchable(o) /\ o.ref # n.ref
    THEN AddRef(DropRef(rs, o, o.elm), n, o.elm) ELSE rs

\* createElm for newCh[i]: a new DOM node before refElm, its ref and component
\* registered.
CreateElm(i, refElm) ==
    /\ nodes' = nodes + 1
    /\ newCh' = [newCh EXCEPT ![i].elm = nodes']
    /\ childNodes' = InsertBefore(childNodes, nodes', refElm)
    /\ refs' = AddRef(refs, newCh[i], nodes')
    /\ alive' = IF IsComponent(newCh[i]) THEN alive \cup {nodes'} ELSE alive
    /\ inserted' = IF IsComponent(newCh[i]) THEN Append(inserted, nodes') ELSE inserted
    /\ UNCHANGED <<sameRoot, oldCh, moved, mounted, step>>

-----------------------------------------------------------------------------
\* A list was mounted: its vnodes registered their refs in order, each one taking
\* the place of those before it unless it joins their array.  A render returned
\* another list.
PatchFrom(same, before, after) ==
    LET having(r) == { i \in DOMAIN before : before[i].ref = r } IN
    /\ sameRoot = same
    /\ step = IF same THEN "loop" ELSE "replace"
    /\ oldCh = [i \in DOMAIN before |-> VNode(before[i], i)]
    /\ newCh = [i \in DOMAIN after |-> VNode(after[i], None)]
    /\ childNodes = [i \in DOMAIN before |-> i] /\ nodes = Len(before)
    /\ refs = [r \in Refs |->
                  LET kept == { i \in having(r) : \A j \in having(r) :
                                    j > i => before[i].inFor /\ before[j].inFor }
                  IN [array |-> \E i \in kept : before[i].inFor, nodes |-> kept]]
    /\ alive = { i \in DOMAIN before : IsComponent(before[i]) } /\ mounted = alive
    /\ inserted = <<>>
    /\ os = 1 /\ ns = 1 /\ oe = Len(before) /\ ne = Len(after)
    /\ oldKeyToIdx = <<>> /\ moved = {}

PatchInit ==
    \E same \in BOOLEAN, lists \in Families :
        \E before, after \in lists : PatchFrom(same, before, after)

\* patch: another element is made, empty at first.  From here on childNodes are
\* its children: it takes the place of the old one, which goes with its own.
ReplaceRoot ==
    /\ step = "replace"
    /\ childNodes' = <<>>
    /\ step' = "loop"
    /\ UNCHANGED <<sameRoot, oldCh, newCh, moved, os, oe, ns, ne, oldKeyToIdx, nodes, refs,
                   alive, inserted, mounted>>

Looping == sameRoot /\ step = "loop" /\ os <= oe /\ ns <= ne

SkipMovedStart ==
    /\ Looping /\ os \in moved
    /\ os' = os + 1
    /\ UNCHANGED <<sameRoot, oldCh, newCh, moved, oe, ns, ne, oldKeyToIdx, childNodes, nodes,
                   refs, alive, inserted, mounted, step>>

SkipMovedEnd ==
    /\ Looping /\ os \notin moved /\ oe \in moved
    /\ oe' = oe - 1
    /\ UNCHANGED <<sameRoot, oldCh, newCh, moved, os, ns, ne, oldKeyToIdx, childNodes, nodes,
                   refs, alive, inserted, mounted, step>>

Comparing == Looping /\ os \notin moved /\ oe \notin moved

\* patchVnode: the new vnode takes over the node (and the component in it).
PatchVnode(i, j, dom) ==
    /\ newCh' = [newCh EXCEPT ![j].elm = oldCh[i].elm]
    /\ refs' = UpdateRef(refs, oldCh[i], newCh[j])
    /\ childNodes' = dom
    /\ UNCHANGED <<sameRoot, oldCh, nodes, alive, inserted, mounted, step>>

StartsMatch == SameVnode(oldCh[os], newCh[ns])
EndsMatch == SameVnode(oldCh[oe], newCh[ne])
MovedRight == SameVnode(oldCh[os], newCh[ne])
MovedLeft == SameVnode(oldCh[oe], newCh[ns])

PatchStart ==
    /\ Comparing /\ StartsMatch
    /\ PatchVnode(os, ns, childNodes)
    /\ os' = os + 1 /\ ns' = ns + 1
    /\ UNCHANGED <<moved, oe, ne, oldKeyToIdx>>

PatchEnd ==
    /\ Comparing /\ ~StartsMatch /\ EndsMatch
    /\ PatchVnode(oe, ne, childNodes)
    /\ oe' = oe - 1 /\ ne' = ne - 1
    /\ UNCHANGED <<moved, os, ns, oldKeyToIdx>>

(* Mutant of MoveRight: the node goes before the old end, not behind it. *)
MoveBeforeEnd ==
    /\ Comparing /\ ~StartsMatch /\ ~EndsMatch /\ MovedRight
    /\ PatchVnode(os, ne, InsertBefore(childNodes, oldCh[os].elm, oldCh[oe].elm))
    /\ os' = os + 1 /\ ne' = ne - 1
    /\ UNCHANGED <<moved, oe, ns, oldKeyToIdx>>

MoveRight ==
    /\ Comparing /\ ~StartsMatch /\ ~EndsMatch /\ MovedRight
    /\ PatchVnode(os, ne, InsertBefore(childNodes, oldCh[os].elm, NextSibling(oldCh[oe].elm)))
    /\ os' = os + 1 /\ ne' = ne - 1
    /\ UNCHANGED <<moved, oe, ns, oldKeyToIdx>>

MoveLeft ==
    /\ Comparing /\ ~StartsMatch /\ ~EndsMatch /\ ~MovedRight /\ MovedLeft
    /\ PatchVnode(oe, ns, InsertBefore(childNodes, oldCh[oe].elm, oldCh[os].elm))
    /\ oe' = oe - 1 /\ ns' = ns + 1
    /\ UNCHANGED <<moved, os, ne, oldKeyToIdx>>

-----------------------------------------------------------------------------
(* None of the four ends fits: look the vnode up among the old ones.       *)
Elsewhere == Comparing /\ ~StartsMatch /\ ~EndsMatch /\ ~MovedRight /\ ~MovedLeft

(* Mutant of KeyMap: the indices are one too small. *)
KeyMapShifted ==
    [k \in Keys |-> LET at == { i \in os..oe : oldCh[i].key = k }
                    IN IF at = {} THEN None ELSE (CHOOSE i \in at : \A j \in at : j <= i) - 1]

\* createKeyToOldIdx: the last index of each key between the two old ends.
KeyMap ==
    LET at(k) == { i \in os..oe : oldCh[i].key = k }
    IN [k \in Keys |-> IF at(k) = {} THEN None ELSE CHOOSE i \in at(k) : \A j \in at(k) : j <= i]
TheMap == IF oldKeyToIdx = <<>> THEN KeyMap ELSE oldKeyToIdx

\* By key through the map; without one, findIdxInOld, which leaves out the end.
IdxInOld ==
    LET v == newCh[ns]
        fits == { i \in os..(oe - 1) : i \notin moved /\ SameVnode(v, oldCh[i]) }
    IN IF v.key # NoKey THEN TheMap[v.key]
       ELSE IF fits = {} THEN None ELSE CHOOSE i \in fits : \A j \in fits : i <= j

NewElement ==
    /\ Elsewhere /\ IdxInOld = None
    /\ CreateElm(ns, oldCh[os].elm)
    /\ ns' = ns + 1 /\ oldKeyToIdx' = TheMap
    /\ UNCHANGED <<os, oe, ne>>

\* Same key but another element: treated as new.
OtherElement ==
    /\ Elsewhere /\ IdxInOld # None /\ IdxInOld \notin moved
    /\ ~SameVnode(oldCh[IdxInOld], newCh[ns])
    /\ CreateElm(ns, oldCh[os].elm)
    /\ ns' = ns + 1 /\ oldKeyToIdx' = TheMap
    /\ UNCHANGED <<os, oe, ne>>

MoveFound ==
    /\ Elsewhere /\ IdxInOld # None /\ IdxInOld \notin moved
    /\ SameVnode(oldCh[IdxInOld], newCh[ns])
    /\ PatchVnode(IdxInOld, ns, InsertBefore(childNodes, oldCh[IdxInOld].elm, oldCh[os].elm))
    /\ moved' = moved \cup {IdxInOld}
    /\ ns' = ns + 1 /\ oldKeyToIdx' = TheMap
    /\ UNCHANGED <<os, oe, ne>>

\* sameVnode reads the key of a vnode that was moved before: a TypeError.
ThrowMoved ==
    /\ Elsewhere /\ IdxInOld # None /\ IdxInOld \in moved
    /\ step' = "threw"
    /\ oldKeyToIdx' = TheMap
    /\ UNCHANGED <<sameRoot, oldCh, newCh, moved, os, oe, ns, ne, childNodes, nodes,
                   refs, alive, inserted, mounted>>

-----------------------------------------------------------------------------
\* addVnodes: the old list is used up, what is left of the new one goes before the
\* node behind its end.  createChildren of a new element does the same at the end.
AddVnode ==
    /\ step = "loop" /\ ns <= ne
    /\ sameRoot => os > oe
    /\ CreateElm(ns, IF ne + 1 \in DOMAIN newCh THEN newCh[ne + 1].elm ELSE None)
    /\ ns' = ns + 1
    /\ UNCHANGED <<os, oe, ne, oldKeyToIdx>>

\* removeVnodes: the new list is used up, what is left of the old one is taken out
\* and its destroy hooks run; as they do through the children of a replaced one.
RemoveVnode ==
    /\ step = "loop" /\ os <= oe /\ ns > ne
    /\ IF os \in moved THEN UNCHANGED <<childNodes, refs, alive>>
       ELSE /\ childNodes' = Without(childNodes, oldCh[os].elm)
            /\ refs' = IF oldCh[os].data THEN DropRef(refs, oldCh[os], oldCh[os].elm) ELSE refs
            /\ alive' = alive \ {oldCh[os].elm}
    /\ os' = os + 1
    /\ UNCHANGED <<sameRoot, oldCh, newCh, moved, oe, ns, ne, oldKeyToIdx, nodes, inserted,
                   mounted, step>>

ListsUsedUp ==
    /\ step = "loop" /\ os > oe /\ ns > ne
    /\ step' = "insert"
    /\ UNCHANGED <<sameRoot, oldCh, newCh, moved, os, oe, ns, ne, oldKeyToIdx, childNodes, nodes,
                   refs, alive, inserted, mounted>>

\* invokeInsertHook: mounted is called when everything is in the document.
InvokeInsertHook ==
    /\ step = "insert"
    /\ mounted' = mounted \cup ToSet(inserted)
    /\ step' = "done"
    /\ UNCHANGED <<sameRoot, oldCh, newCh, moved, os, oe, ns, ne, oldKeyToIdx, childNodes, nodes,
                   refs, alive, inserted>>

PatchNext ==
    \/ ReplaceRoot
    \/ SkipMovedStart \/ SkipMovedEnd \/ PatchStart \/ PatchEnd \/ MoveRight \/ MoveLeft
    \/ NewElement \/ OtherElement \/ MoveFound \/ ThrowMoved
    \/ AddVnode \/ RemoveVnode \/ ListsUsedUp \/ InvokeInsertHook

PatchSpec == PatchInit /\ [][PatchNext]_patchVars

-----------------------------------------------------------------------------
NoTwo(vs, Of(_), none) == \A i, j \in DOMAIN vs : Of(vs[i]) = Of(vs[j]) /\ Of(vs[i]) # none => i = j
KeysDiffer(vs) == NoTwo(vs, LAMBDA v : v.key, NoKey)
\* A ref is used in v-for only, or by one vnode of a list at most; and no vnode
\* with another ref may take over a component whose root is empty.
RefsDiffer ==
    /\ \A v, w \in ToSet(oldCh) \cup ToSet(newCh) : v.ref = w.ref => v.inFor = w.inFor
    /\ \A vs \in {oldCh, newCh} :
          NoTwo(vs, LAMBDA v : IF v.inFor THEN NoRef ELSE v.ref, NoRef)
    /\ \A i \in DOMAIN oldCh, j \in DOMAIN newCh :
          ~IsPatchable(oldCh[i]) /\ SameVnode(oldCh[i], newCh[j]) => oldCh[i].ref = newCh[j].ref

\* When the patch is done the document holds exactly the nodes of the new
\* vnodes, in their order, whatever was moved, made and removed on the way.  No key
\* may be in the new list twice: the second of two would take the node of the first.
DocumentIsNewList ==
    step = "done" /\ KeysDiffer(newCh) => childNodes = [i \in DOMAIN newCh |-> newCh[i].elm]

\* A list whose keys differ keeps the node (and the component and what was typed
\* into it) of every key that stays with the same tag, and the patch never throws.
KeyedNodesStay ==
    KeysDiffer(newCh) =>
        /\ step # "threw"
        /\ step = "done" /\ sameRoot /\ KeysDiffer(oldCh) =>
             \A i \in DOMAIN oldCh, j \in DOMAIN newCh :
                newCh[j].key # NoKey /\ SameVnode(oldCh[i], newCh[j])
                    => newCh[j].elm = oldCh[i].elm

\* After the patch $refs names exactly the nodes of the vnodes that now have the
\* ref, an array of them in a v-for, though new nodes register before old ones are
\* taken back; and the living components are those on the screen, each mounted.
RefsAndComponentsLive ==
    step = "done" /\ KeysDiffer(newCh) =>
        /\ RefsDiffer =>
             \A r \in Refs :
                LET own == { i \in DOMAIN newCh : newCh[i].ref = r } IN
                /\ refs[r].nodes = { newCh[i].elm : i \in own }
                /\ \A i \in own : refs[r].array = newCh[i].inFor
        /\ alive = { newCh[i].elm : i \in { i \in DOMAIN newCh : IsComponent(newCh[i]) } }
        /\ alive \subseteq mounted
=============================================================================
