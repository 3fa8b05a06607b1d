----------------------------- MODULE PageProofs -----------------------------
(***************************************************************************)
(* Theorems about what a page of the site shows: the pictures of a blog     *)
(* under concurrent uploads and deletions (BlogEditor), the data of one     *)
(* element (VueElement), and the list of nodes a patch leaves (VuePatch).   *)
(***************************************************************************)
EXTENDS BlogEditor, VueElement, VuePatch, FiniteSetTheorems, SequenceTheorems, TLAPS

-----------------------------------------------------------------------------
(* The editor.  While one deletion at a time is waited for, its index still *)
(* points at its name: uploads only append.                                 *)

Served == { OnPage(file) : file \in FileNames }
GivenNames == { OnPage(file) : file \in given }

EditorTypes ==
    /\ fileList \in Seq(Served)
    /\ uploads \subseteq FileNames /\ stored \subseteq FileNames
    /\ given \subseteq stored
    /\ uploads \cap given = {}
    /\ overlapped \in BOOLEAN

ListIsGiven ==
    ~overlapped =>
        /\ IsInjective(fileList)
        /\ removed \subseteq GivenNames
        /\ ToSet(fileList) = GivenNames \ removed
        /\ \A d, e \in deletes : d = e
        /\ \A d \in deletes : d.i \in DOMAIN fileList /\ fileList[d.i] = d.name

EditorInv == EditorTypes /\ ListIsGiven

LEMMA ServedNames ==
    /\ \A file \in FileNames : OnPage(file) \notin FileNames
    /\ \A file, other \in FileNames : OnPage(file) = OnPage(other) => file = other
<1>1. ASSUME NEW p \in Pictures
      PROVE  /\ Len(FileName(p)) = 1
             /\ Len(OnPage(FileName(p))) = 2 /\ OnPage(FileName(p))[2] = p
  BY DEF FileName, OnPage
<1>. QED
  BY <1>1 DEF FileNames, FileName

LEMMA AppendGiven ==
    ASSUME NEW S, NEW list \in Seq(S), NEW e \in S
    PROVE  /\ Append(list, e) \in Seq(S)
           /\ ToSet(Append(list, e)) = ToSet(list) \cup {e}
           /\ \A i \in DOMAIN list : i \in DOMAIN Append(list, e) /\ Append(list, e)[i] = list[i]
           /\ IsInjective(list) /\ e \notin ToSet(list) => IsInjective(Append(list, e))
  BY DEF ToSet, IsInjective

LEMMA RemoveAtProperties ==
    ASSUME NEW S, NEW list \in Seq(S), NEW i \in 1..Len(list)
    PROVE  /\ RemoveAt(list, i) \in Seq(S)
           /\ Len(RemoveAt(list, i)) = Len(list) - 1
           /\ \A k \in 1..(Len(list) - 1) :
                 RemoveAt(list, i)[k] = IF k < i THEN list[k] ELSE list[k + 1]
<1>. DEFINE before == SubSeq(list, 1, i - 1)
            behind == SubSeq(list, i + 1, Len(list))
            joined == before \o behind
<1>0. Len(list) \in Nat /\ i \in Nat /\ i >= 1 /\ i <= Len(list)
  BY LenProperties
<1>1. /\ before \in Seq(S) /\ Len(before) = i - 1
      /\ \A k \in 1..(i - 1) : before[k] = list[k]
  BY SMT
<1>2. /\ behind \in Seq(S) /\ Len(behind) = Len(list) - i
      /\ \A k \in 1..(Len(list) - i) : behind[k] = list[i + k]
  BY SMT
<1>. HIDE DEF before, behind
<1>3. /\ joined \in Seq(S)
      /\ Len(joined) = Len(before) + Len(behind)
      /\ \A k \in 1..(Len(before) + Len(behind)) :
            joined[k] = IF k <= Len(before) THEN before[k] ELSE behind[k - Len(before)]
  BY <1>1, <1>2, ConcatProperties, Zenon DEF joined
<1>4. RemoveAt(list, i) = joined
  BY DEF RemoveAt, joined, before, behind
<1>. HIDE DEF joined
<1>5. Len(before) = i - 1 /\ Len(behind) = Len(list) - i
  BY <1>1, <1>2
<1>6. /\ \A k \in 1..(i - 1) : before[k] = list[k]
      /\ \A k \in 1..(Len(list) - i) : behind[k] = list[i + k]
  BY <1>1, <1>2
<1>7. \A k \in 1..(Len(list) - 1) :
         joined[k] = IF k <= i - 1 THEN before[k] ELSE behind[k - (i - 1)]
  <2>1. Len(before) + Len(behind) = Len(list) - 1
    BY <1>0, <1>5
  <2>. QED
    BY <1>3, <1>5, <2>1, Zenon
<1>8. ASSUME NEW k \in 1..(Len(list) - 1)
      PROVE  joined[k] = IF k < i THEN list[k] ELSE list[k + 1]
  <2>1. CASE k < i
    BY <1>0, <1>6, <1>7, <2>1
  <2>2. CASE k >= i
    <3>1. k - (i - 1) \in 1..(Len(list) - i) /\ i + (k - (i - 1)) = k + 1
      BY <1>0, <2>2
    <3>2. behind[k - (i - 1)] = list[k + 1]
      BY <1>6, <3>1
    <3>. QED
      BY <1>0, <1>7, <2>2, <3>2
  <2>. QED
    BY <2>1, <2>2
<1>9. joined \in Seq(S) /\ Len(joined) = Len(list) - 1
  BY <1>0, <1>3, <1>5
<1>. QED
  BY <1>4, <1>8, <1>9, Zenon

LEMMA RemoveAtInjective ==
    ASSUME NEW S, NEW list \in Seq(S), NEW i \in 1..Len(list), IsInjective(list)
    PROVE  /\ IsInjective(RemoveAt(list, i))
           /\ ToSet(RemoveAt(list, i)) = ToSet(list) \ {list[i]}
<1>. DEFINE R == RemoveAt(list, i)
<1>1. /\ R \in Seq(S) /\ Len(R) = Len(list) - 1
      /\ \A k \in 1..(Len(list) - 1) : R[k] = IF k < i THEN list[k] ELSE list[k + 1]
  BY RemoveAtProperties
<1>. HIDE DEF R
<1>2. IsInjective(R)
  <2>1. DOMAIN R = 1..(Len(list) - 1) /\ DOMAIN list = 1..Len(list) /\ Len(list) \in Nat
    BY <1>1, LenProperties
  <2>2. ASSUME NEW a \in 1..(Len(list) - 1), NEW b \in 1..(Len(list) - 1), R[a] = R[b]
        PROVE  a = b
    <3>. DEFINE at(k) == IF k < i THEN k ELSE k + 1
    <3>1. at(a) \in 1..Len(list) /\ at(b) \in 1..Len(list) /\ (at(a) = at(b) => a = b)
      BY <2>1
    <3>2. R[a] = list[at(a)] /\ R[b] = list[at(b)]
      BY <1>1
    <3>. HIDE DEF at
    <3>. QED
      BY <2>1, <2>2, <3>1, <3>2 DEF IsInjective
  <2>. QED
    BY <2>1, <2>2 DEF IsInjective
<1>3. ToSet(R) \subseteq ToSet(list) \ {list[i]}
  BY <1>1 DEF IsInjective, ToSet
<1>4. ASSUME NEW j \in 1..Len(list), j # i
      PROVE  list[j] \in ToSet(R)
  <2>1. CASE j < i
    BY <1>1, <2>1 DEF ToSet
  <2>2. CASE j > i
    <3>1. j - 1 \in DOMAIN R /\ R[j - 1] = list[j]
      BY <1>1, <2>2
    <3>. QED
      BY <3>1 DEF ToSet
  <2>. QED
    BY <1>4, <2>1, <2>2
<1>5. ToSet(list) \ {list[i]} \subseteq ToSet(R)
  BY <1>4 DEF ToSet
<1>. QED
  BY <1>2, <1>3, <1>5 DEF R

LEMMA EditorStep == EditorInv /\ [EditorNext]_editorVars => EditorInv'
<1>. SUFFICES ASSUME EditorInv, [EditorNext]_editorVars
              PROVE  EditorInv'
  OBVIOUS
<1>. USE DEF EditorInv
<1>1. ASSUME NEW file \in FileNames, FileSelected(file)
      PROVE  EditorInv'
  BY <1>1 DEF FileSelected, Used, EditorTypes, ListIsGiven, GivenNames
<1>2. ASSUME NEW file \in FileNames, UploadImage(file)
      PROVE  EditorInv'
  BY <1>2 DEF UploadImage, EditorTypes, ListIsGiven, GivenNames
<1>3. ASSUME NEW file \in FileNames, UploadAnswered(file)
      PROVE  EditorInv'
  <2>1. OnPage(file) \in Served /\ OnPage(file) \notin GivenNames
    BY <1>3, ServedNames DEF UploadAnswered, EditorTypes, Served, GivenNames
  <2>2. GivenNames' = GivenNames \cup {OnPage(file)}
    BY <1>3 DEF UploadAnswered, GivenNames
  <2>3. EditorTypes'
    BY <1>3, <2>1, <2>2, AppendGiven DEF UploadAnswered, EditorTypes
  <2>4. ListIsGiven'
    <3>. SUFFICES ASSUME ~overlapped
                  PROVE  ListIsGiven'
      BY <1>3 DEF UploadAnswered, ListIsGiven
    <3>1. OnPage(file) \notin ToSet(fileList) /\ OnPage(file) \notin removed
      BY <2>1 DEF ListIsGiven, EditorTypes
    <3>2. /\ IsInjective(fileList')
          /\ ToSet(fileList') = ToSet(fileList) \cup {OnPage(file)}
          /\ \A i \in DOMAIN fileList : i \in DOMAIN fileList' /\ fileList'[i] = fileList[i]
      BY <1>3, <2>1, <3>1, AppendGiven DEF UploadAnswered, EditorTypes, ListIsGiven
    <3>. QED
      BY <1>3, <2>2, <3>1, <3>2 DEF UploadAnswered, ListIsGiven
  <2>. QED
    BY <2>3, <2>4
<1>4. ASSUME NEW file \in FileNames, UploadFailed(file)
      PROVE  EditorInv'
  BY <1>4 DEF UploadFailed, EditorTypes, ListIsGiven, GivenNames
<1>5. ASSUME NEW file \in FileNames, DeleteBlogImg(OnPage(file))
      PROVE  EditorInv'
  <2>1. stored' = stored
    BY <1>5, ServedNames DEF DeleteBlogImg, EditorTypes
  <2>. QED
    BY <1>5, <2>1 DEF DeleteBlogImg, EditorTypes, ListIsGiven, GivenNames
<1>6. ASSUME NEW i \in DOMAIN fileList, DeletePic(i)
      PROVE  EditorInv'
  <2>1. EditorTypes' /\ GivenNames' = GivenNames
    BY <1>6 DEF DeletePic, EditorTypes, GivenNames
  <2>2. ASSUME ~overlapped'
        PROVE  /\ deletes = {} /\ ~overlapped
               /\ \A d \in deletes' : d = [id |-> clicks', i |-> i, name |-> fileList[i]]
    BY <1>6, <2>2 DEF DeletePic, EditorTypes
  <2>. QED
    BY <1>6, <2>1, <2>2 DEF DeletePic, ListIsGiven
<1>7. ASSUME NEW d \in deletes, DeleteAnswered(d)
      PROVE  EditorInv'
  <2>1. GivenNames' = GivenNames
    BY <1>7 DEF DeleteAnswered, GivenNames
  <2>2. fileList' \in Seq(Served)
    <3>1. CASE d.i \in DOMAIN fileList
      BY <1>7, <3>1, RemoveAtProperties DEF DeleteAnswered, Splice, EditorTypes
    <3>. QED
      BY <1>7, <3>1 DEF DeleteAnswered, Splice, EditorTypes
  <2>3. ListIsGiven'
    <3>. SUFFICES ASSUME ~overlapped
                  PROVE  ListIsGiven'
      BY <1>7 DEF DeleteAnswered, ListIsGiven
    <3>1. d.i \in DOMAIN fileList /\ fileList[d.i] = d.name /\ IsInjective(fileList)
      BY DEF ListIsGiven
    <3>2. d.i \in 1..Len(fileList) /\ fileList \in Seq(Served)
      BY <3>1 DEF EditorTypes
    <3>3. /\ IsInjective(fileList')
          /\ ToSet(fileList') = ToSet(fileList) \ {d.name}
      BY <1>7, <3>1, <3>2, RemoveAtInjective DEF DeleteAnswered, Splice
    <3>4. d.name \in GivenNames
      BY <3>1, Zenon DEF ListIsGiven, ToSet
    <3>. QED
      BY <1>7, <2>1, <3>3, <3>4 DEF DeleteAnswered, ListIsGiven
  <2>. QED
    BY <1>7, <2>1, <2>2, <2>3 DEF DeleteAnswered, EditorTypes
<1>8. ASSUME NEW d \in deletes, DeleteFailed(d)
      PROVE  EditorInv'
  BY <1>8 DEF DeleteFailed, EditorTypes, ListIsGiven, GivenNames
<1>9. CASE UNCHANGED editorVars
  BY <1>9 DEF editorVars, EditorTypes, ListIsGiven, GivenNames
<1>. QED
  BY <1>1, <1>2, <1>3, <1>4, <1>5, <1>6, <1>7, <1>8, <1>9 DEF EditorNext

(* However uploads and deletions race, the list to be submitted is what was *)
(* uploaded and not deleted, each picture once, as long as the page waits   *)
(* for one deletion at a time.                                              *)
THEOREM PicturesAreRight == EditorSpec => []PicturesMatch
<1>1. EditorInit => EditorInv
  <2>. SUFFICES ASSUME EditorInit
                PROVE  EditorInv
    OBVIOUS
  <2>1. GivenNames = {} /\ ToSet(fileList) = {} /\ IsInjective(fileList)
    BY DEF EditorInit, GivenNames, ToSet, IsInjective
  <2>. QED
    BY <2>1, EmptySeq DEF EditorInit, EditorInv, EditorTypes, ListIsGiven
<1>2. EditorInv => PicturesMatch
  <2>. SUFFICES ASSUME EditorInv, ~overlapped
                PROVE  PicturesMatch
    BY DEF PicturesMatch
  <2>1. ASSUME NEW i \in DOMAIN fileList
        PROVE  \E file \in stored : fileList[i] = OnPage(file)
    <3>1. fileList[i] \in GivenNames
      BY Zenon DEF EditorInv, ListIsGiven, ToSet
    <3>. QED
      BY <3>1 DEF EditorInv, EditorTypes, GivenNames
  <2>. QED
    BY <2>1 DEF EditorInv, ListIsGiven, PicturesMatch, GivenNames
<1>. QED
  BY <1>1, <1>2, EditorStep, PTL DEF EditorSpec

-----------------------------------------------------------------------------
(* One element.  Every hook of the modules compares the new vnode with the  *)
(* one before only; that this is enough rests on the element showing what   *)
(* the vnode before asked for, all of it and nothing else.                  *)

ElementShape(E) ==
    E = [attrs |-> E.attrs, class |-> E.class, prevClass |-> E.prevClass,
         transition |-> E.transition, style |-> E.style, listeners |-> E.listeners,
         bound |-> E.bound, inserted |-> E.inserted]

\* A map of attributes or styles brought from f to g.
LEMMA DiffApplied ==
    ASSUME NEW f, NEW g, NEW gone, NEW set,
           set = { k \in DOMAIN g : g[k] # Falsy /\ (k \notin DOMAIN f \/ f[k] # g[k]) },
           \A k \in gone : k \notin DOMAIN g \/ g[k] = Falsy,
           \A k \in DOMAIN f : f[k] = Falsy \/ k \in gone \/ (k \in DOMAIN g /\ g[k] # Falsy)
    PROVE  Overlay(Unset(Present(f), gone), [k \in set |-> g[k]]) = Present(g)
<1>. DEFINE kept == DOMAIN f \ { k \in DOMAIN f : f[k] = Falsy }
            shown == DOMAIN g \ { k \in DOMAIN g : g[k] = Falsy }
            left == Unset(Present(f), gone)
            new == [k \in set |-> g[k]]
<1>1. Present(f) = [x \in kept |-> f[x]] /\ Present(g) = [x \in shown |-> g[x]]
  BY DEF Present, Unset
<1>2. DOMAIN left = kept \ gone /\ \A x \in kept \ gone : left[x] = f[x]
  BY <1>1 DEF Unset
<1>3. DOMAIN new = set /\ \A x \in set : new[x] = g[x]
  OBVIOUS
<1>4. (kept \ gone) \cup set = shown
  OBVIOUS
<1>5. \A x \in shown : (x \in set) \/ (x \in kept \ gone /\ f[x] = g[x])
  OBVIOUS
<1>. HIDE DEF kept, shown, left, new
<1>6. Overlay(left, new) = [x \in shown |-> IF x \in set THEN new[x] ELSE left[x]]
  BY <1>2, <1>3, <1>4 DEF Overlay
<1>7. \A x \in shown : (IF x \in set THEN new[x] ELSE left[x]) = g[x]
  BY <1>2, <1>3, <1>5
<1>8. Overlay(left, new) = Present(g)
  BY <1>1, <1>6, <1>7
<1>. QED
  BY <1>8 DEF left, new

LEMMA AttrsUpdated ==
    ASSUME NEW E, NEW old, NEW new, ElementShape(E), E.attrs = Present(old.attrs)
    PROVE  UpdateAttrs(E, old, new) = [E EXCEPT !.attrs = Present(new.attrs)]
<1>. DEFINE f == old.attrs
            g == new.attrs
            differs == { k \in DOMAIN g : k \notin DOMAIN f \/ f[k] # g[k] }
            absent == DOMAIN f \ DOMAIN g
            set == { k \in differs : g[k] # Falsy }
            gone == absent \cup { k \in differs : g[k] = Falsy }
<1>1. set = { k \in DOMAIN g : g[k] # Falsy /\ (k \notin DOMAIN f \/ f[k] # g[k]) }
  OBVIOUS
<1>2. \A k \in gone : k \notin DOMAIN g \/ g[k] = Falsy
  OBVIOUS
<1>3. \A k \in DOMAIN f : f[k] = Falsy \/ k \in gone \/ (k \in DOMAIN g /\ g[k] # Falsy)
  OBVIOUS
<1>4. UpdateAttrs(E, old, new) =
        [E EXCEPT !.attrs = Overlay(Unset(E.attrs, gone), [k \in set |-> g[k]])]
  BY DEF UpdateAttrs
<1>. HIDE DEF f, g, set, gone
<1>5. Overlay(Unset(Present(f), gone), [k \in set |-> g[k]]) = Present(g)
  BY <1>1, <1>2, <1>3, DiffApplied
<1>. QED
  BY <1>4, <1>5 DEF f, g

LEMMA StyleUpdated ==
    ASSUME NEW E, NEW old, NEW new, ElementShape(E), E.style = Present(GetStyle(old))
    PROVE  UpdateStyle(E, old, new) = [E EXCEPT !.style = Present(GetStyle(new))]
<1>. DEFINE f == GetStyle(old)
            g == GetStyle(new)
            before == OldStyle(old)
            gone == { k \in DOMAIN before \cup DOMAIN g : k \notin DOMAIN g \/ g[k] = Falsy }
            set == { k \in DOMAIN g \ gone : k \notin DOMAIN before \/ before[k] # g[k] }
<1>1. DOMAIN before = DOMAIN f /\ \A k \in DOMAIN f : before[k] = f[k]
  BY DEF OldStyle, GetStyle, Overlay
<1>2. UpdateStyle(E, old, new) =
        [E EXCEPT !.style = Overlay(Unset(E.style, gone), [k \in set |-> g[k]])]
  BY DEF UpdateStyle
<1>. HIDE DEF f, g, before
<1>3. set = { k \in DOMAIN g : g[k] # Falsy /\ (k \notin DOMAIN f \/ f[k] # g[k]) }
  BY <1>1
<1>4. \A k \in gone : k \notin DOMAIN g \/ g[k] = Falsy
  OBVIOUS
<1>5. \A k \in DOMAIN f : f[k] = Falsy \/ k \in gone \/ (k \in DOMAIN g /\ g[k] # Falsy)
  BY <1>1
<1>. HIDE DEF set, gone
<1>6. Overlay(Unset(Present(f), gone), [k \in set |-> g[k]]) = Present(g)
  BY <1>3, <1>4, <1>5, DiffApplied
<1>. QED
  BY <1>2, <1>6 DEF f, g

\* The cached class is that of the vnode before, next to transition classes of
\* some earlier moment; so skipping the assignment is safe.
Classed(E, d) ==
    /\ E.transition \subseteq TransitionClasses
    /\ E.class = d.class \cup E.transition
    /\ E.prevClass \ TransitionClasses = d.class

LEMMA ClassUpdated ==
    ASSUME NEW E, NEW old \in VNodeData, NEW new \in VNodeData, ElementShape(E), Classed(E, old)
    PROVE  /\ Classed(UpdateClass(E, old, new), new)
           /\ UpdateClass(E, old, new) = [E EXCEPT !.class = UpdateClass(E, old, new).class,
                                                   !.prevClass = UpdateClass(E, old, new).prevClass]
<1>. DEFINE U == UpdateClass(E, old, new)
<1>1. new.class \cap TransitionClasses = {} /\ old.class \cap TransitionClasses = {}
  BY DataAssumption
<1>2. CASE new.class = {} /\ old.class = {}
  BY <1>2 DEF UpdateClass, Classed, ElementShape
<1>3. CASE new.class \cup E.transition = E.prevClass
  <2>1. new.class = old.class
    BY <1>1, <1>3 DEF Classed
  <2>2. U = E
    BY <1>3 DEF UpdateClass
  <2>. QED
    BY <2>1, <2>2 DEF Classed, ElementShape
<1>4. CASE /\ ~(new.class = {} /\ old.class = {})
           /\ new.class \cup E.transition # E.prevClass
  <2>1. U = [E EXCEPT !.class = new.class \cup E.transition,
                      !.prevClass = new.class \cup E.transition]
    BY <1>4 DEF UpdateClass
  <2>2. /\ U.class = new.class \cup E.transition /\ U.prevClass = new.class \cup E.transition
        /\ U.transition = E.transition
    BY <2>1 DEF ElementShape
  <2>. QED
    BY <1>1, <2>1, <2>2 DEF Classed, ElementShape
<1>. QED
  BY <1>2, <1>3, <1>4

\* One invoker per event of the vnode d, which calls the handler d has for it.
Listening(d, invokerOf, handlers, listeners) ==
    /\ DOMAIN invokerOf = DOMAIN d.on
    /\ \A e \in DOMAIN d.on : /\ invokerOf[e] \in 1..Len(handlers)
                              /\ handlers[invokerOf[e]] = d.on[e]
    /\ \A e, f \in DOMAIN d.on : invokerOf[e] = invokerOf[f] => e = f
    /\ listeners = { <<e, invokerOf[e]>> : e \in DOMAIN d.on }

\* New invokers get consecutive numbers behind the old ones.
UpTo(S, a) == { x \in S : x <= a }

LEMMA Numbering ==
    ASSUME NEW S, IsFiniteSet(S), S \subseteq Int, NEW a \in S, NEW b \in S
    PROVE  /\ Cardinality(UpTo(S, a)) \in 1..Cardinality(S)
           /\ Cardinality(UpTo(S, a)) = Cardinality(UpTo(S, b)) => a = b
<1>1. \A e \in S : /\ IsFiniteSet(UpTo(S, e)) /\ UpTo(S, e) \subseteq S /\ e \in UpTo(S, e)
                   /\ Cardinality(UpTo(S, e)) \in Nat
  BY FS_Subset, FS_CardinalityType DEF UpTo
<1>2. Cardinality(UpTo(S, a)) \in 1..Cardinality(S)
  <2>1. Cardinality(UpTo(S, a)) <= Cardinality(S) /\ Cardinality(S) \in Nat
    BY <1>1, FS_Subset, FS_CardinalityType
  <2>2. Cardinality(UpTo(S, a)) # 0
    BY <1>1, FS_EmptySet
  <2>. QED
    BY <1>1, <2>1, <2>2
<1>3. ASSUME NEW e \in S, NEW f \in S, e < f
      PROVE  Cardinality(UpTo(S, e)) # Cardinality(UpTo(S, f))
  <2>0. \A x \in S : x \in Int
    OBVIOUS
  <2>1. (\A x \in S : x <= e => x <= f) /\ ~(f <= e) /\ f <= f
    BY <1>3, <2>0
  <2>2. UpTo(S, e) \subseteq UpTo(S, f) /\ f \notin UpTo(S, e) /\ f \in UpTo(S, f)
    BY <2>1, Zenon DEF UpTo
  <2>. QED
    BY <1>1, <2>2, FS_Subset
<1>4. Cardinality(UpTo(S, a)) = Cardinality(UpTo(S, b)) => a = b
  <2>1. a < b \/ b < a \/ a = b
    OBVIOUS
  <2>. QED
    BY <1>3, <2>1
<1>. QED
  BY <1>2, <1>4

LEMMA SequenceOfLength ==
    ASSUME NEW n \in Nat, NEW f, DOMAIN f = 1..n, f = [i \in 1..n |-> f[i]]
    PROVE  Len(f) = n
<1>1. f \in Seq({ f[i] : i \in 1..n })
  BY SMT
<1>. QED
  BY <1>1, LenProperties

LEMMA ListenersUpdated ==
    ASSUME NEW E, NEW old \in VNodeData, NEW new \in VNodeData, ElementShape(E),
           Len(invokers) \in Nat, Listening(old, on, invokers, E.listeners)
    PROVE  LET U == UpdateListeners(E, on, new)
               handlers == UpdatedInvokers(on, new) IN
           /\ Len(handlers) \in Nat
           /\ Listening(new, UpdatedOn(on, new), handlers, U.listeners)
           /\ U = [E EXCEPT !.listeners = U.listeners]
<1>. DEFINE U == UpdateListeners(E, on, new)
            handlers == UpdatedInvokers(on, new)
            after == UpdatedOn(on, new)
            fresh == FreshEvents(on, new)
            N == Len(invokers)
            all == N + Cardinality(fresh)
<1>1. IsFiniteSet(fresh) /\ fresh \subseteq Int /\ Cardinality(fresh) \in Nat
  BY DataAssumption, FS_Subset, FS_CardinalityType DEF FreshEvents
<1>2. DOMAIN after = DOMAIN new.on /\ fresh = DOMAIN new.on \ DOMAIN on
  BY DEF UpdatedOn, FreshEvents
<1>3. ASSUME NEW e \in fresh
      PROVE  after[e] = N + Cardinality(UpTo(fresh, e))
  BY <1>2 DEF UpdatedOn, NewInvoker, UpTo
<1>4. ASSUME NEW e \in DOMAIN new.on \ fresh
      PROVE  e \in DOMAIN old.on /\ after[e] = on[e]
  BY <1>2 DEF UpdatedOn, Listening
<1>b. N \in Nat /\ all \in Nat /\ all = N + Cardinality(fresh)
  BY <1>1
<1>c. \A e \in DOMAIN old.on : on[e] \in 1..N
  BY DEF Listening
<1>. HIDE DEF after, fresh, handlers, N, all
<1>5. ASSUME NEW e \in fresh, NEW f \in fresh
      PROVE  /\ Cardinality(UpTo(fresh, e)) \in 1..Cardinality(fresh)
             /\ Cardinality(UpTo(fresh, e)) = Cardinality(UpTo(fresh, f)) => e = f
  BY <1>1, Numbering, Zenon
<1>a. ASSUME NEW e \in fresh
      PROVE  after[e] \in (N + 1)..all
  BY <1>1, <1>b, <1>3, <1>5
<1>6. \A e \in DOMAIN new.on \ fresh : after[e] \in 1..N
  BY <1>c, <1>4
<1>7. ASSUME NEW e \in DOMAIN new.on, NEW f \in DOMAIN new.on, after[e] = after[f]
      PROVE  e = f
  <2>1. CASE e \in fresh /\ f \in fresh
    <3>1. N + Cardinality(UpTo(fresh, e)) = N + Cardinality(UpTo(fresh, f))
      BY <1>3, <1>7, <2>1, Zenon
    <3>2. Cardinality(UpTo(fresh, e)) \in Nat /\ Cardinality(UpTo(fresh, f)) \in Nat
      <4>1. /\ Cardinality(UpTo(fresh, e)) \in 1..Cardinality(fresh)
            /\ Cardinality(UpTo(fresh, f)) \in 1..Cardinality(fresh)
        BY <1>5, <2>1, Zenon
      <4>. QED
        BY <1>1, <4>1
    <3>3. Cardinality(UpTo(fresh, e)) = Cardinality(UpTo(fresh, f))
      BY <1>b, <3>1, <3>2
    <3>. QED
      BY <1>5, <2>1, <3>3, Zenon
  <2>2. CASE e \notin fresh /\ f \notin fresh
    BY <1>4, <1>7, <2>2 DEF Listening
  <2>3. ASSUME NEW x \in fresh, NEW y \in DOMAIN new.on \ fresh
        PROVE  after[x] # after[y]
    <3>1. after[x] \in (N + 1)..all /\ after[y] \in 1..N
      BY <1>a, <1>6, Zenon
    <3>. QED
      BY <1>b, <3>1
  <2>. QED
    BY <1>7, <2>1, <2>2, <2>3, Zenon
<1>8. /\ handlers = [i \in 1..all |-> IF \E e \in DOMAIN after : after[e] = i
                                      THEN new.on[CHOOSE e \in DOMAIN after : after[e] = i]
                                      ELSE invokers[i]]
      /\ all \in Nat
  BY <1>b DEF UpdatedInvokers, handlers, after, fresh, N, all
<1>9. Len(handlers) = all
  BY <1>8, SequenceOfLength
<1>10. ASSUME NEW e \in DOMAIN new.on
       PROVE  after[e] \in 1..all /\ handlers[after[e]] = new.on[e]
  <2>1. after[e] \in 1..all
    <3>1. after[e] \in (N + 1)..all \/ after[e] \in 1..N
      BY <1>a, <1>6, Zenon
    <3>. QED
      BY <1>b, <1>1, <3>1
  <2>2. \E x \in DOMAIN after : after[x] = after[e]
    BY <1>2
  <2>3. (CHOOSE x \in DOMAIN after : after[x] = after[e]) = e
    BY <1>2, <1>7
  <2>. QED
    BY <1>8, <2>1, <2>2, <2>3
<1>11. U.listeners = { <<e, after[e]>> : e \in DOMAIN new.on }
  <2>1. U.listeners = (E.listeners \cup { <<e, after[e]>> : e \in fresh })
                        \ { <<e, on[e]>> : e \in DOMAIN on \ DOMAIN new.on }
    BY DEF UpdateListeners, ElementShape, after, fresh
  <2>2. E.listeners = { <<e, on[e]>> : e \in DOMAIN on }
    BY DEF Listening
  <2>. QED
    BY <1>2, <1>4, <2>1, <2>2
<1>12. U = [E EXCEPT !.listeners = U.listeners]
  BY DEF UpdateListeners, ElementShape
<1>13. Listening(new, after, handlers, U.listeners)
  BY <1>2, <1>7, <1>9, <1>10, <1>11 DEF Listening
<1>. QED
  BY <1>8, <1>9, <1>12, <1>13 DEF handlers, after

\* The element E, its invokers and their handlers show the vnode data d.
Shows(E, invokerOf, handlers, d) ==
    /\ ElementShape(E)
    /\ E.attrs = Present(d.attrs) /\ E.style = Present(GetStyle(d))
    /\ Classed(E, d)
    /\ E.bound = d.directives
    /\ Len(handlers) \in Nat
    /\ Listening(d, invokerOf, handlers, E.listeners)

LEMMA ModulesUpdated ==
    ASSUME NEW old \in VNodeData, NEW new \in VNodeData, NEW isCreate \in BOOLEAN,
           Shows(el, on, invokers, old), UpdateModules(old, on, new, isCreate)
    PROVE  /\ Shows(el', on', invokers', new)
           /\ ~isCreate /\ el.inserted = old.directives => el'.inserted = new.directives
<1>. DEFINE A == UpdateAttrs(el, old, new)
            C == UpdateClass(A, old, new)
            L == UpdateListeners(C, on, new)
            S == UpdateStyle(L, old, new)
            D == UpdateDirectives(S, old, new, isCreate)
<1>0. el' = D /\ on' = UpdatedOn(on, new) /\ invokers' = UpdatedInvokers(on, new)
  BY DEF UpdateModules
<1>1. A = [el EXCEPT !.attrs = Present(new.attrs)]
  BY AttrsUpdated DEF Shows
<1>. HIDE DEF A
<1>2. /\ ElementShape(A)
      /\ A.attrs = Present(new.attrs) /\ A.style = Present(GetStyle(old))
      /\ Classed(A, old) /\ A.bound = old.directives
      /\ A.listeners = el.listeners /\ A.inserted = el.inserted
  BY <1>1 DEF Shows, ElementShape, Classed
<1>3. Classed(C, new) /\ C = [A EXCEPT !.class = C.class, !.prevClass = C.prevClass]
  <2>1. ElementShape(A) /\ Classed(A, old)
    BY <1>2
  <2>. QED
    BY <2>1, ClassUpdated, Zenon
<1>. HIDE DEF C
<1>4. /\ ElementShape(C)
      /\ C.attrs = Present(new.attrs) /\ C.style = Present(GetStyle(old))
      /\ C.bound = old.directives
      /\ C.listeners = el.listeners /\ C.inserted = el.inserted
  BY <1>2, <1>3 DEF ElementShape
<1>5. /\ Len(invokers') \in Nat
      /\ Listening(new, on', invokers', L.listeners)
      /\ L = [C EXCEPT !.listeners = L.listeners]
  BY <1>0, <1>4, ListenersUpdated DEF Shows
<1>. HIDE DEF L
<1>6. /\ ElementShape(L)
      /\ L.attrs = Present(new.attrs) /\ L.style = Present(GetStyle(old))
      /\ Classed(L, new) /\ L.bound = old.directives
      /\ L.inserted = el.inserted
  BY <1>3, <1>4, <1>5 DEF ElementShape, Classed
<1>7. S = [L EXCEPT !.style = Present(GetStyle(new))]
  BY <1>6, StyleUpdated
<1>. HIDE DEF S, D
<1>8. /\ ElementShape(S)
      /\ S.attrs = Present(new.attrs) /\ S.style = Present(GetStyle(new))
      /\ Classed(S, new) /\ S.bound = old.directives
      /\ S.listeners = L.listeners /\ S.inserted = el.inserted
  BY <1>6, <1>7 DEF ElementShape, Classed
<1>9. /\ D.bound = new.directives
      /\ ~isCreate /\ S.inserted = old.directives => D.inserted = new.directives
      /\ D = [S EXCEPT !.bound = D.bound, !.inserted = D.inserted]
  <2>1. (old.directives \cup (new.directives \ old.directives))
           \ (old.directives \ new.directives) = new.directives
    OBVIOUS
  <2>2. CASE isCreate
    BY <1>8, <2>1, <2>2 DEF D, UpdateDirectives, ElementShape
  <2>3. CASE ~isCreate
    BY <1>8, <2>1, <2>3 DEF D, UpdateDirectives, ElementShape
  <2>. QED
    BY <2>2, <2>3
<1>10. /\ ElementShape(D)
       /\ D.attrs = Present(new.attrs) /\ D.style = Present(GetStyle(new))
       /\ Classed(D, new) /\ D.listeners = L.listeners
  BY <1>8, <1>9 DEF ElementShape, Classed
<1>. QED
  BY <1>0, <1>5, <1>8, <1>9, <1>10 DEF Shows

ElementInv ==
    /\ stage \in {"none", "created", "live", "removed"}
    /\ vnodeData \in VNodeData /\ wantedData \in VNodeData
    /\ stale \in BOOLEAN /\ composing \in BOOLEAN
    /\ stage = "none" => vnodeData = Empty
    /\ stage \in {"none", "created"} => ~stale /\ ~composing
    /\ stage # "removed" => Shows(el, on, invokers, vnodeData)
    /\ stage \in {"created", "live"} /\ ~stale =>
          vnodeData = wantedData /\ (composing \/ text = model)
    /\ stage = "live" => el.inserted = vnodeData.directives

LEMMA ElementStep == ElementInv /\ [ElementNext]_elementVars => ElementInv'
<1>. SUFFICES ASSUME ElementInv, [ElementNext]_elementVars
              PROVE  ElementInv'
  OBVIOUS
<1>1. CASE MountElement
  <2>1. /\ stage = "none" /\ stage' = "created" /\ vnodeData = Empty /\ Empty \in VNodeData
        /\ UpdateModules(Empty, on, wantedData, TRUE)
        /\ UNCHANGED <<model, composing, wantedData, stale>>
    BY <1>1, DataAssumption DEF MountElement, ElementInv
  <2>2. Shows(el', on', invokers', wantedData)
    BY <2>1, ModulesUpdated DEF ElementInv
  <2>3. vnodeData' = wantedData /\ text' = model
    BY <2>1 DEF UpdateModules, ShouldUpdateValue, ElementInv
  <2>. QED
    BY <2>1, <2>2, <2>3 DEF ElementInv
<1>2. CASE InsertElement
  <2>1. Shows(el', on', invokers', vnodeData) /\ el'.inserted = vnodeData.directives
    <3>1. ElementShape(el) /\ el' = [el EXCEPT !.inserted = vnodeData.directives]
      BY <1>2 DEF InsertElement, ElementInv, Shows
    <3>. QED
      BY <1>2, <3>1 DEF InsertElement, ElementInv, Shows, ElementShape, Classed
  <2>. QED
    BY <1>2, <2>1 DEF InsertElement, ElementInv
<1>3. CASE PatchElement
  <2>1. /\ stage = "live" /\ stage' = "live" /\ stale' = FALSE
        /\ UpdateModules(vnodeData, on, wantedData, FALSE)
        /\ UNCHANGED <<model, composing, wantedData>>
    BY <1>3 DEF PatchElement
  <2>2. Shows(el', on', invokers', wantedData) /\ el'.inserted = wantedData.directives
    BY <2>1, ModulesUpdated DEF ElementInv
  <2>3. vnodeData' = wantedData /\ (composing \/ text' = model)
    BY <2>1 DEF UpdateModules, ShouldUpdateValue, ElementInv
  <2>. QED
    BY <2>1, <2>2, <2>3 DEF ElementInv
<1>4. CASE DestroyElement
  BY <1>4 DEF DestroyElement, ElementInv
<1>5. ASSUME NEW d \in VNodeData, ChangeData(d)
      PROVE  ElementInv'
  BY <1>5 DEF ChangeData, ElementInv
<1>6. ASSUME NEW t \in Texts, AssignModel(t)
      PROVE  ElementInv'
  BY <1>6 DEF AssignModel, ElementInv
<1>7. ASSUME NEW t \in Texts, TypeText(t)
      PROVE  ElementInv'
  BY <1>7 DEF TypeText, OnInput, ElementInv
<1>8. CASE OnCompositionStart
  BY <1>8 DEF OnCompositionStart, ElementInv
<1>9. CASE OnCompositionEnd
  BY <1>9 DEF OnCompositionEnd, OnInput, ElementInv
<1>10. ASSUME NEW c \in TransitionClasses, AddTransitionClass(c) \/ RemoveTransitionClass(c)
       PROVE  ElementInv'
  <2>1. /\ stage = "live"
        /\ UNCHANGED <<model, text, composing, wantedData, stale, stage, vnodeData, invokers, on>>
    BY <1>10 DEF AddTransitionClass, RemoveTransitionClass
  <2>2. /\ ElementShape(el) /\ Classed(el, vnodeData)
        /\ vnodeData.class \cap TransitionClasses = {}
    BY <2>1, DataAssumption DEF ElementInv, Shows
  <2>3. CASE AddTransitionClass(c)
    <3>1. el' = [el EXCEPT !.transition = el.transition \cup {c}, !.class = el.class \cup {c}]
      BY <2>3 DEF AddTransitionClass
    <3>. QED
      BY <2>1, <2>2, <3>1 DEF ElementInv, Shows, ElementShape, Classed
  <2>4. CASE RemoveTransitionClass(c)
    <3>1. el' = [el EXCEPT !.transition = el.transition \ {c}, !.class = el.class \ {c}]
      BY <2>4 DEF RemoveTransitionClass
    <3>. QED
      BY <2>1, <2>2, <3>1 DEF ElementInv, Shows, ElementShape, Classed
  <2>. QED
    BY <1>10, <2>3, <2>4
<1>11. CASE UNCHANGED elementVars
  BY <1>11 DEF elementVars, ElementInv
<1>. QED
  BY <1>1, <1>2, <1>3, <1>4, <1>5, <1>6, <1>7, <1>8, <1>9, <1>10, <1>11 DEF ElementNext

(* A live element without a render outstanding carries what the page asks   *)
(* for and nothing else, whatever renders, transition classes, input and    *)
(* compositions came before; each hook had only the vnode before to go by.  *)
THEOREM ElementFollowsData == ElementSpec => []ElementShowsData
<1>1. ElementInit => ElementInv
  <2>. SUFFICES ASSUME ElementInit
                PROVE  ElementInv
    OBVIOUS
  <2>1. /\ DOMAIN Empty.on = {} /\ Empty.class = {} /\ Empty.directives = {}
        /\ Empty \in VNodeData
    BY DataAssumption
  <2>2. Present(Empty.attrs) = [k \in {} |-> Falsy]
    BY DataAssumption DEF Present, Unset
  <2>3. Present(GetStyle(Empty)) = [k \in {} |-> Falsy]
    BY DataAssumption DEF Present, Unset, GetStyle, Overlay
  <2>4. Listening(Empty, on, invokers, el.listeners) /\ Len(invokers) \in Nat
    BY <2>1 DEF ElementInit, Listening, NewEl
  <2>5. Shows(el, on, invokers, Empty)
    BY <2>1, <2>2, <2>3, <2>4 DEF ElementInit, Shows, ElementShape, NewEl, Classed
  <2>. QED
    BY <2>1, <2>5 DEF ElementInit, ElementInv
<1>2. ElementInv => ElementShowsData
  <2>. SUFFICES ASSUME ElementInv, stage = "live", ~stale
                PROVE  ElementShowsData
    BY DEF ElementShowsData
  <2>1. /\ Shows(el, on, invokers, wantedData) /\ el.inserted = wantedData.directives
        /\ composing \/ text = model
    BY DEF ElementInv
  <2>2. ASSUME NEW e \in DOMAIN wantedData.on
        PROVE  LET mine == { l \in el.listeners : l[1] = e }
               IN Cardinality(mine) = 1 /\ \A l \in mine : invokers[l[2]] = wantedData.on[e]
    <3>1. { l \in el.listeners : l[1] = e } = { <<e, on[e]>> }
      BY <2>1 DEF Shows, Listening
    <3>2. invokers[on[e]] = wantedData.on[e]
      BY <2>1 DEF Shows, Listening
    <3>3. Cardinality({ <<e, on[e]>> }) = 1
      BY FS_Singleton
    <3>4. \A l \in { <<e, on[e]>> } : invokers[l[2]] = wantedData.on[e]
      BY <3>2
    <3>. QED
      BY <3>1, <3>3, <3>4
  <2>3. \A l \in el.listeners : l[1] \in DOMAIN wantedData.on
    BY <2>1 DEF Shows, Listening
  <2>. QED
    BY <2>1, <2>2, <2>3 DEF ElementShowsData, Shows, Classed
<1>. QED
  BY <1>1, <1>2, ElementStep, PTL DEF ElementSpec

-----------------------------------------------------------------------------
(* The patch.  First what holds of its vnodes whatever the keys, then, while *)
(* the keys of the new list differ, which vnodes have passed on their node.  *)

LEMMA LeastOf ==
    ASSUME NEW T, T \subseteq Nat, T # {}
    PROVE  \E x \in T : \A y \in T : x <= y
<1>. DEFINE R == StrictSubsetOrdering(Nat)
            U == { 1..x : x \in T }
<1>1. IsWellFoundedOn(R, FiniteSubsetsOf(Nat))
  BY FS_StrictSubsetOrderingWellFounded
<1>2. U \subseteq FiniteSubsetsOf(Nat) /\ U # {}
  <2>1. \A x \in T : IsFiniteSet(1..x) /\ 1..x \in SUBSET Nat
    BY FS_Interval
  <2>. QED
    BY <2>1 DEF FiniteSubsetsOf
<1>3. \A x, y \in T : y < x => <<1..y, 1..x>> \in R
  <2>1. ASSUME NEW x \in T, NEW y \in T, y < x
        PROVE  <<1..y, 1..x>> \in R
    <3>1. 1..y \subseteq 1..x /\ x \in 1..x /\ x \notin 1..y /\ 1..x \subseteq Nat
      BY <2>1
    <3>. QED
      BY <3>1 DEF StrictSubsetOrdering
  <2>. QED
    BY <2>1
<1>. HIDE DEF R
<1>4. PICK a \in U : \A b \in U : ~(<<b, a>> \in R)
  BY <1>1, <1>2, WFMin
<1>5. PICK x \in T : a = 1..x
  OBVIOUS
<1>6. \A y \in T : ~(y < x)
  BY <1>3, <1>4, <1>5
<1>. QED
  BY <1>6

LEMMA GreatestOf ==
    ASSUME NEW T, NEW n \in Nat, T \subseteq 0..n, T # {}
    PROVE  \E x \in T : \A y \in T : y <= x
<1>. DEFINE U == { n - x : x \in T }
<1>0. \A x \in T : x \in Nat /\ n - x \in Nat
  OBVIOUS
<1>1. U \subseteq Nat /\ U # {}
  BY <1>0
<1>2. PICK k \in U : \A l \in U : k <= l
  <2>. HIDE DEF U
  <2>. QED
    BY <1>1, LeastOf
<1>3. PICK x \in T : k = n - x
  OBVIOUS
<1>4. ASSUME NEW y \in T
      PROVE  y <= x
  <2>1. n - y \in U
    OBVIOUS
  <2>2. n - x <= n - y
    BY <1>2, <1>3, <2>1, Zenon
  <2>. QED
    BY <1>0, <2>2
<1>. QED
  BY <1>4

\* What every vnode of a list is made of.
IsVNode(v) ==
    /\ v = [key |-> v.key, tag |-> v.tag, data |-> v.data, ref |-> v.ref,
            inFor |-> v.inFor, empty |-> v.empty, elm |-> v.elm]
    /\ v.key \in Keys \cup {NoKey} /\ v.ref \in Refs \cup {NoRef}
    /\ v.data \in BOOLEAN /\ v.inFor \in BOOLEAN /\ (v.ref # NoRef => v.data)

\* Old vnodes not yet patched, moved or removed, and new ones that have a node.
Waiting == (os..oe) \ moved
Done == DOMAIN newCh \ (ns..ne)

PatchTypes ==
    /\ sameRoot \in BOOLEAN
    /\ step \in {"replace", "loop", "insert", "done", "threw"}
    /\ Len(oldCh) \in Nat /\ DOMAIN oldCh = 1..Len(oldCh)
    /\ \A i \in DOMAIN oldCh : IsVNode(oldCh[i]) /\ oldCh[i].elm = i
    /\ Len(newCh) \in Nat /\ newCh = [j \in 1..Len(newCh) |-> newCh[j]]
    /\ \A j \in DOMAIN newCh : IsVNode(newCh[j])
    /\ os \in Nat /\ oe \in Nat /\ os >= 1 /\ oe <= Len(oldCh) /\ os <= oe + 1
    /\ ns \in Nat /\ ne \in Nat /\ ns >= 1 /\ ne <= Len(newCh) /\ ns <= ne + 1
    /\ moved \subseteq Nat
    /\ nodes \in Nat /\ nodes >= Len(oldCh)
    /\ step = "replace" => ~sameRoot /\ ns = 1
    /\ step \in {"insert", "done"} => os > oe /\ ns > ne
    /\ ~sameRoot => ne = Len(newCh) /\ moved = {} /\ step # "threw"
                    /\ (os = 1 \/ ns > ne)

LEMMA ShapesOf ==
    ASSUME NEW lists \in Families, NEW list \in lists
    PROVE  /\ Len(list) \in Nat /\ DOMAIN list = 1..Len(list)
           /\ \A i \in DOMAIN list : \A e : /\ IsVNode(VNode(list[i], e))
                                        /\ VNode(list[i], e).elm = e
<1>1. list \in Seq(Shapes)
  BY ShapesAssumption
<1>2. /\ Len(list) \in Nat /\ DOMAIN list = 1..Len(list)
      /\ \A i \in DOMAIN list : list[i] \in Shapes
  BY <1>1, LenProperties
<1>3. ASSUME NEW s \in Shapes, NEW e
      PROVE  IsVNode(VNode(s, e)) /\ VNode(s, e).elm = e
  <2>1. s.key \in Keys \cup {NoKey} /\ s.ref \in Refs \cup {NoRef}
    BY DEF Keys, Refs
  <2>2. s.data \in BOOLEAN /\ s.inFor \in BOOLEAN /\ (s.ref # NoRef => s.data)
    BY ShapesAssumption
  <2>. QED
    BY <2>1, <2>2 DEF IsVNode, VNode
<1>. QED
  BY <1>2, <1>3

LEMMA PatchTypesInit == PatchInit => PatchTypes
<1>. SUFFICES ASSUME NEW same \in BOOLEAN, NEW lists \in Families,
                     NEW before \in lists, NEW after \in lists, PatchFrom(same, before, after)
              PROVE  PatchTypes
  BY DEF PatchInit
<1>1. /\ Len(before) \in Nat /\ DOMAIN before = 1..Len(before)
      /\ \A i \in DOMAIN before : \A e : IsVNode(VNode(before[i], e)) /\ VNode(before[i], e).elm = e
  BY ShapesOf
<1>2. /\ Len(after) \in Nat /\ DOMAIN after = 1..Len(after)
      /\ \A i \in DOMAIN after : \A e : IsVNode(VNode(after[i], e)) /\ VNode(after[i], e).elm = e
  BY ShapesOf
<1>3. /\ oldCh = [i \in 1..Len(before) |-> VNode(before[i], i)]
      /\ newCh = [i \in 1..Len(after) |-> VNode(after[i], None)]
      /\ os = 1 /\ ns = 1 /\ oe = Len(before) /\ ne = Len(after)
      /\ nodes = Len(before) /\ moved = {} /\ sameRoot = same
      /\ step = IF same THEN "loop" ELSE "replace"
  BY <1>1, <1>2 DEF PatchFrom
<1>4. Len(oldCh) = Len(before) /\ Len(newCh) = Len(after)
  BY <1>1, <1>2, <1>3, SequenceOfLength
<1>5. \A i \in DOMAIN oldCh : IsVNode(oldCh[i]) /\ oldCh[i].elm = i
  BY <1>1, <1>3
<1>6. \A j \in DOMAIN newCh : IsVNode(newCh[j])
  BY <1>2, <1>3
<1>. QED
  BY <1>1, <1>2, <1>3, <1>4, <1>5, <1>6 DEF PatchTypes

\* Giving a new vnode its node changes nothing else of the list.
LEMMA NodeGiven ==
    ASSUME PatchTypes, NEW j \in DOMAIN newCh, NEW e, newCh' = [newCh EXCEPT ![j].elm = e]
    PROVE  /\ Len(newCh') = Len(newCh) /\ newCh' = [i \in 1..Len(newCh') |-> newCh'[i]]
           /\ DOMAIN newCh' = DOMAIN newCh
           /\ \A i \in DOMAIN newCh :
                 /\ IsVNode(newCh'[i])
                 /\ newCh'[i].elm = IF i = j THEN e ELSE newCh[i].elm
                 /\ newCh'[i].key = newCh[i].key /\ newCh'[i].ref = newCh[i].ref
                 /\ newCh'[i].data = newCh[i].data /\ newCh'[i].tag = newCh[i].tag
                 /\ newCh'[i].inFor = newCh[i].inFor
<1>1. Len(newCh) \in Nat /\ newCh = [i \in 1..Len(newCh) |-> newCh[i]] /\ DOMAIN newCh = 1..Len(newCh)
  BY DEF PatchTypes
<1>2. newCh' = [i \in 1..Len(newCh) |-> IF i = j THEN [newCh[j] EXCEPT !.elm = e] ELSE newCh[i]]
  BY <1>1
<1>3. Len(newCh') = Len(newCh)
  BY <1>1, <1>2, SequenceOfLength
<1>4. \A i \in DOMAIN newCh : IsVNode(newCh[i])
  BY DEF PatchTypes
<1>5. /\ IsVNode([newCh[j] EXCEPT !.elm = e])
      /\ [newCh[j] EXCEPT !.elm = e].elm = e
      /\ [newCh[j] EXCEPT !.elm = e].key = newCh[j].key
      /\ [newCh[j] EXCEPT !.elm = e].ref = newCh[j].ref
      /\ [newCh[j] EXCEPT !.elm = e].data = newCh[j].data
      /\ [newCh[j] EXCEPT !.elm = e].tag = newCh[j].tag
      /\ [newCh[j] EXCEPT !.elm = e].inFor = newCh[j].inFor
  BY <1>4 DEF IsVNode
<1>. QED
  BY <1>1, <1>2, <1>3, <1>4, <1>5

\* What a map from keys to old indices says.
SoundMap(m) ==
    \A k \in Keys :
        /\ m[k] \in 0..Len(oldCh)
        /\ m[k] # None => oldCh[m[k]].key = k
        /\ m[k] = None => \A i \in Waiting : oldCh[i].key # k

MapInv == oldKeyToIdx # <<>> => SoundMap(oldKeyToIdx)

LEMMA KeyMapSound == PatchTypes => SoundMap(KeyMap)
<1>. SUFFICES ASSUME PatchTypes, NEW k \in Keys
              PROVE  /\ KeyMap[k] \in 0..Len(oldCh)
                     /\ KeyMap[k] # None => oldCh[KeyMap[k]].key = k
                     /\ KeyMap[k] = None => \A i \in Waiting : oldCh[i].key # k
  BY DEF SoundMap
<1>. DEFINE at == { i \in os..oe : oldCh[i].key = k }
<1>1. KeyMap[k] = IF at = {} THEN None ELSE CHOOSE i \in at : \A j \in at : j <= i
  BY DEF KeyMap
<1>2. os..oe \subseteq 1..Len(oldCh) /\ Len(oldCh) \in Nat
  BY DEF PatchTypes
<1>3. CASE at = {}
  BY <1>1, <1>2, <1>3 DEF None, Waiting
<1>4. CASE at # {}
  <2>1. at \subseteq 0..Len(oldCh)
    BY <1>2
  <2>2. \E x \in at : \A y \in at : y <= x
    <3>. HIDE DEF at
    <3>. QED
      BY <1>2, <1>4, <2>1, GreatestOf
  <2>3. KeyMap[k] \in at
    <3>1. (CHOOSE i \in at : \A j \in at : j <= i) \in at
      <4>. HIDE DEF at
      <4>. QED
        BY <2>2
    <3>. QED
      BY <1>1, <1>4, <3>1
  <2>. QED
    BY <1>2, <2>3 DEF None
<1>. QED
  BY <1>3, <1>4

LEMMA IdxInOldSound ==
    ASSUME PatchTypes, MapInv, Elsewhere
    PROVE  /\ SoundMap(TheMap) /\ IdxInOld \in 0..Len(oldCh)
           /\ newCh[ns].key # NoKey =>
                 /\ IdxInOld # None => oldCh[IdxInOld].key = newCh[ns].key
                 /\ IdxInOld = None => \A i \in Waiting : oldCh[i].key # newCh[ns].key
           /\ newCh[ns].key = NoKey /\ IdxInOld # None =>
                 IdxInOld \in Waiting /\ SameVnode(newCh[ns], oldCh[IdxInOld])
<1>1. SoundMap(TheMap)
  BY KeyMapSound DEF TheMap, MapInv
<1>2. ns \in DOMAIN newCh /\ Len(oldCh) \in Nat
  BY DEF Elsewhere, Comparing, Looping, PatchTypes
<1>3. CASE newCh[ns].key # NoKey
  <2>1. newCh[ns].key \in Keys
    BY <1>2, <1>3 DEF PatchTypes, IsVNode
  <2>2. IdxInOld = TheMap[newCh[ns].key]
    BY <1>3 DEF IdxInOld
  <2>. QED
    BY <1>1, <1>3, <2>1, <2>2 DEF SoundMap
<1>4. CASE newCh[ns].key = NoKey
  <2>. DEFINE fits == { i \in os..(oe - 1) : i \notin moved /\ SameVnode(newCh[ns], oldCh[i]) }
  <2>1. IdxInOld = IF fits = {} THEN None ELSE CHOOSE i \in fits : \A j \in fits : i <= j
    BY <1>4 DEF IdxInOld
  <2>2. CASE fits = {}
    BY <1>1, <1>2, <1>4, <2>1, <2>2 DEF None
  <2>3. CASE fits # {}
    <3>1. fits \subseteq Nat
      BY DEF PatchTypes
    <3>2. (CHOOSE i \in fits : \A j \in fits : i <= j) \in fits
      <4>1. \E x \in fits : \A y \in fits : x <= y
        <5>. HIDE DEF fits
        <5>. QED
          BY <2>3, <3>1, LeastOf
      <4>. HIDE DEF fits
      <4>. QED
        BY <4>1
    <3>3. IdxInOld \in fits
      BY <2>1, <2>3, <3>2
    <3>. QED
      BY <1>1, <1>4, <3>3 DEF PatchTypes, Waiting
  <2>. QED
    BY <2>2, <2>3
<1>. QED
  BY <1>3, <1>4

\* One turn of the patch changes of the two lists only nodes of new vnodes.
LEMMA ListsStay ==
    ASSUME PatchTypes, [PatchNext]_patchVars
    PROVE  /\ oldCh' = oldCh /\ sameRoot' = sameRoot
           /\ Len(newCh') = Len(newCh) /\ newCh' = [i \in 1..Len(newCh') |-> newCh'[i]]
           /\ DOMAIN newCh' = DOMAIN newCh
           /\ \A j \in DOMAIN newCh :
                 /\ IsVNode(newCh'[j])
                 /\ newCh'[j].key = newCh[j].key /\ newCh'[j].ref = newCh[j].ref
                 /\ newCh'[j].data = newCh[j].data /\ newCh'[j].tag = newCh[j].tag
                 /\ newCh'[j].inFor = newCh[j].inFor
<1>1. oldCh' = oldCh /\ sameRoot' = sameRoot
  BY DEF PatchNext, patchVars, ReplaceRoot, SkipMovedStart, SkipMovedEnd, PatchStart, PatchEnd,
     MoveRight, MoveLeft, PatchVnode, NewElement, OtherElement, MoveFound, ThrowMoved, AddVnode,
     CreateElm, RemoveVnode, ListsUsedUp, InvokeInsertHook
<1>2. newCh' = newCh \/ \E j \in DOMAIN newCh : \E e : newCh' = [newCh EXCEPT ![j].elm = e]
  <2>1. ns <= ne => ns \in DOMAIN newCh /\ ne \in DOMAIN newCh
    BY DEF PatchTypes
  <2>2. CASE PatchStart
    BY <2>1, <2>2, Zenon DEF PatchStart, PatchVnode, Comparing, Looping
  <2>3. CASE PatchEnd
    BY <2>1, <2>3, Zenon DEF PatchEnd, PatchVnode, Comparing, Looping
  <2>4. CASE MoveRight
    BY <2>1, <2>4, Zenon DEF MoveRight, PatchVnode, Comparing, Looping
  <2>5. CASE MoveLeft
    BY <2>1, <2>5, Zenon DEF MoveLeft, PatchVnode, Comparing, Looping
  <2>6. CASE MoveFound
    BY <2>1, <2>6, Zenon DEF MoveFound, PatchVnode, Elsewhere, Comparing, Looping
  <2>7. CASE NewElement
    BY <2>1, <2>7, Zenon DEF NewElement, CreateElm, Elsewhere, Comparing, Looping
  <2>8. CASE OtherElement
    BY <2>1, <2>8, Zenon DEF OtherElement, CreateElm, Elsewhere, Comparing, Looping
  <2>9. CASE AddVnode
    BY <2>1, <2>9, Zenon DEF AddVnode, CreateElm
  <2>10. CASE newCh' = newCh
    BY <2>10
  <2>. QED
    BY <2>2, <2>3, <2>4, <2>5, <2>6, <2>7, <2>8, <2>9, <2>10
       DEF PatchNext, patchVars, ReplaceRoot, SkipMovedStart, SkipMovedEnd, ThrowMoved,
           RemoveVnode, ListsUsedUp, InvokeInsertHook
<1>3. CASE newCh' = newCh
  BY <1>1, <1>3 DEF PatchTypes
<1>4. ASSUME NEW j \in DOMAIN newCh, NEW e, newCh' = [newCh EXCEPT ![j].elm = e]
      PROVE  /\ Len(newCh') = Len(newCh) /\ newCh' = [i \in 1..Len(newCh') |-> newCh'[i]]
             /\ DOMAIN newCh' = DOMAIN newCh
             /\ \A i \in DOMAIN newCh :
                   /\ IsVNode(newCh'[i])
                   /\ newCh'[i].key = newCh[i].key /\ newCh'[i].ref = newCh[i].ref
                   /\ newCh'[i].data = newCh[i].data /\ newCh'[i].tag = newCh[i].tag
                   /\ newCh'[i].inFor = newCh[i].inFor
  BY <1>4, NodeGiven
<1>. QED
  BY <1>1, <1>2, <1>3, <1>4

LEMMA PatchTypesStep == PatchTypes /\ MapInv /\ [PatchNext]_patchVars => PatchTypes'
<1>. SUFFICES ASSUME PatchTypes, MapInv, [PatchNext]_patchVars
              PROVE  PatchTypes'
  OBVIOUS
<1>0. /\ oldCh' = oldCh /\ sameRoot' = sameRoot
      /\ Len(newCh') = Len(newCh) /\ newCh' = [i \in 1..Len(newCh') |-> newCh'[i]]
      /\ DOMAIN newCh' = DOMAIN newCh /\ \A j \in DOMAIN newCh' : IsVNode(newCh'[j])
  BY ListsStay
<1>. DEFINE Numbers(st, o, oEnd, n, nEnd, mv, made) ==
       /\ st \in {"replace", "loop", "insert", "done", "threw"}
       /\ o \in Nat /\ oEnd \in Nat /\ o >= 1 /\ oEnd <= Len(oldCh) /\ o <= oEnd + 1
       /\ n \in Nat /\ nEnd \in Nat /\ n >= 1 /\ nEnd <= Len(newCh) /\ n <= nEnd + 1
       /\ mv \subseteq Nat
       /\ made \in Nat /\ made >= Len(oldCh)
       /\ st = "replace" => ~sameRoot /\ n = 1
       /\ st \in {"insert", "done"} => o > oEnd /\ n > nEnd
       /\ ~sameRoot => nEnd = Len(newCh) /\ mv = {} /\ st # "threw" /\ (o = 1 \/ n > nEnd)
<1>1. Numbers(step, os, oe, ns, ne, moved, nodes) /\ Len(oldCh) \in Nat /\ Len(newCh) \in Nat
  BY DEF PatchTypes
<1>2. Numbers(step', os', oe', ns', ne', moved', nodes')
  <2>1. CASE ReplaceRoot
    BY <1>1, <2>1 DEF ReplaceRoot
  <2>2. CASE SkipMovedStart
    BY <1>1, <2>2 DEF SkipMovedStart, Looping
  <2>3. CASE SkipMovedEnd
    BY <1>1, <2>3 DEF SkipMovedEnd, Looping
  <2>4. CASE PatchStart
    <3>1. /\ sameRoot /\ step = "loop" /\ os <= oe /\ ns <= ne /\ step' = step
          /\ os' = os + 1 /\ oe' = oe /\ ns' = ns + 1 /\ ne' = ne /\ moved' = moved /\ nodes' = nodes
      BY <2>4 DEF PatchStart, PatchVnode, Comparing, Looping
    <3>. QED
      BY <1>1, <3>1
  <2>5. CASE PatchEnd
    <3>1. /\ sameRoot /\ step = "loop" /\ os <= oe /\ ns <= ne /\ step' = step
          /\ os' = os /\ oe' = oe - 1 /\ ns' = ns /\ ne' = ne - 1 /\ moved' = moved /\ nodes' = nodes
      BY <2>5 DEF PatchEnd, PatchVnode, Comparing, Looping
    <3>. QED
      BY <1>1, <3>1
  <2>6. CASE MoveRight
    <3>1. os # oe
      BY <2>6 DEF MoveRight, MovedRight, EndsMatch
    <3>2. /\ sameRoot /\ step = "loop" /\ os <= oe /\ ns <= ne /\ step' = step
          /\ os' = os + 1 /\ oe' = oe /\ ns' = ns /\ ne' = ne - 1 /\ moved' = moved /\ nodes' = nodes
      BY <2>6 DEF MoveRight, PatchVnode, Comparing, Looping
    <3>. QED
      BY <1>1, <3>1, <3>2
  <2>7. CASE MoveLeft
    <3>1. /\ sameRoot /\ step = "loop" /\ os <= oe /\ ns <= ne /\ step' = step
          /\ os' = os /\ oe' = oe - 1 /\ ns' = ns + 1 /\ ne' = ne /\ moved' = moved /\ nodes' = nodes
      BY <2>7 DEF MoveLeft, PatchVnode, Comparing, Looping
    <3>. QED
      BY <1>1, <3>1
  <2>8. CASE NewElement
    <3>1. /\ sameRoot /\ step = "loop" /\ os <= oe /\ ns <= ne /\ step' = step
          /\ os' = os /\ oe' = oe /\ ns' = ns + 1 /\ ne' = ne /\ moved' = moved /\ nodes' = nodes + 1
      BY <2>8 DEF NewElement, CreateElm, Elsewhere, Comparing, Looping
    <3>. QED
      BY <1>1, <3>1
  <2>9. CASE OtherElement
    <3>1. /\ sameRoot /\ step = "loop" /\ os <= oe /\ ns <= ne /\ step' = step
          /\ os' = os /\ oe' = oe /\ ns' = ns + 1 /\ ne' = ne /\ moved' = moved /\ nodes' = nodes + 1
      BY <2>9 DEF OtherElement, CreateElm, Elsewhere, Comparing, Looping
    <3>. QED
      BY <1>1, <3>1
  <2>10. CASE MoveFound
    <3>1. IdxInOld \in Nat
      BY <1>1, <2>10, IdxInOldSound DEF MoveFound
    <3>2. /\ sameRoot /\ step = "loop" /\ os <= oe /\ ns <= ne /\ step' = step
          /\ os' = os /\ oe' = oe /\ ns' = ns + 1 /\ ne' = ne /\ nodes' = nodes
          /\ moved' = moved \cup {IdxInOld}
      BY <2>10 DEF MoveFound, PatchVnode, Elsewhere, Comparing, Looping
    <3>. QED
      BY <1>1, <3>1, <3>2
  <2>11. CASE ThrowMoved
    BY <1>1, <2>11 DEF ThrowMoved, Elsewhere, Comparing, Looping
  <2>12. CASE AddVnode
    <3>1. /\ step = "loop" /\ step' = step /\ ns <= ne /\ os' = os /\ oe' = oe
          /\ ns' = ns + 1 /\ ne' = ne /\ moved' = moved /\ nodes' = nodes + 1
      BY <2>12 DEF AddVnode, CreateElm
    <3>. QED
      BY <1>1, <3>1
  <2>13. CASE RemoveVnode
    BY <1>1, <2>13 DEF RemoveVnode
  <2>14. CASE ListsUsedUp
    BY <1>1, <2>14 DEF ListsUsedUp
  <2>15. CASE InvokeInsertHook
    BY <1>1, <2>15 DEF InvokeInsertHook
  <2>16. CASE UNCHANGED patchVars
    BY <1>1, <2>16 DEF patchVars
  <2>. QED
    BY <2>1, <2>2, <2>3, <2>4, <2>5, <2>6, <2>7, <2>8, <2>9, <2>10, <2>11, <2>12, <2>13, <2>14,
       <2>15, <2>16 DEF PatchNext
<1>. QED
  BY <1>0, <1>2 DEF PatchTypes

\* The kinds of turns: a new vnode takes the node of a waiting old one, gets a node
\* of its own, an old one is removed, or no vnode changes hands.
Takes(i, j) ==
    /\ step = "loop" /\ sameRoot
    /\ i \in Waiting /\ j \in ns..ne /\ SameVnode(oldCh[i], newCh[j])
    /\ newCh' = [newCh EXCEPT ![j].elm = i]
    /\ refs' = UpdateRef(refs, oldCh[i], newCh[j])
    /\ Waiting' = Waiting \ {i} /\ Done' = Done \cup {j}
    /\ UNCHANGED <<nodes, alive, inserted, mounted, step>>

Makes(j, refElm) ==
    /\ step = "loop"
    /\ j \in ns..ne
    /\ CreateElm(j, refElm)
    /\ Waiting' = Waiting /\ Done' = Done \cup {j}

Removes(i) ==
    /\ step = "loop" /\ os <= oe /\ ns > ne
    /\ i \in Waiting
    /\ childNodes' = Without(childNodes, oldCh[i].elm)
    /\ refs' = IF oldCh[i].data THEN DropRef(refs, oldCh[i], oldCh[i].elm) ELSE refs
    /\ alive' = alive \ {oldCh[i].elm}
    /\ Waiting' = Waiting \ {i} /\ Done' = Done
    /\ UNCHANGED <<newCh, nodes, inserted, mounted, step>>

Rests ==
    /\ Waiting' = Waiting /\ Done' = Done
    /\ UNCHANGED <<newCh, nodes, refs, alive, inserted>>
    /\ \/ step = "insert" /\ step' = "done" /\ mounted' = mounted \cup ToSet(inserted)
       \/ (step' = "done" => step = "done") /\ mounted' = mounted

FoundWaits == Elsewhere /\ IdxInOld # None => IdxInOld \in Waiting

LEMMA StartTaken ==
    ASSUME PatchTypes, Looping, os \notin moved, os' = os + 1, oe' = oe, moved' = moved
    PROVE  os \in Waiting /\ Waiting' = Waiting \ {os}
BY DEF PatchTypes, Looping, Waiting

LEMMA EndTaken ==
    ASSUME PatchTypes, Looping, oe \notin moved, os' = os, oe' = oe - 1, moved' = moved
    PROVE  oe \in Waiting /\ Waiting' = Waiting \ {oe}
BY DEF PatchTypes, Looping, Waiting

LEMMA FirstDone ==
    ASSUME PatchTypes, ns <= ne, ns' = ns + 1, ne' = ne, DOMAIN newCh' = DOMAIN newCh
    PROVE  ns \in ns..ne /\ ns \in DOMAIN newCh /\ Done' = Done \cup {ns}
BY DEF PatchTypes, Done

LEMMA LastDone ==
    ASSUME PatchTypes, ns <= ne, ns' = ns, ne' = ne - 1, DOMAIN newCh' = DOMAIN newCh
    PROVE  ne \in ns..ne /\ ne \in DOMAIN newCh /\ Done' = Done \cup {ne}
BY DEF PatchTypes, Done

LEMMA OldElm == PatchTypes => \A i \in Waiting : i \in DOMAIN oldCh /\ oldCh[i].elm = i
BY DEF PatchTypes, Waiting

LEMMA StartTurn == PatchTypes /\ PatchStart => Takes(os, ns)
<1>. SUFFICES ASSUME PatchTypes, PatchStart
              PROVE  Takes(os, ns)
  OBVIOUS
<1>1. DOMAIN newCh' = DOMAIN newCh
  BY ListsStay DEF PatchNext
<1>2. os \in Waiting /\ Waiting' = Waiting \ {os}
  BY StartTaken DEF PatchStart, Comparing
<1>3. ns \in ns..ne /\ Done' = Done \cup {ns}
  BY <1>1, FirstDone DEF PatchStart, Comparing, Looping
<1>. QED
  BY <1>2, <1>3, OldElm DEF Takes, PatchStart, PatchVnode, StartsMatch, Comparing, Looping

LEMMA EndTurn == PatchTypes /\ PatchEnd => Takes(oe, ne)
<1>. SUFFICES ASSUME PatchTypes, PatchEnd
              PROVE  Takes(oe, ne)
  OBVIOUS
<1>1. DOMAIN newCh' = DOMAIN newCh
  BY ListsStay DEF PatchNext
<1>2. oe \in Waiting /\ Waiting' = Waiting \ {oe}
  BY EndTaken DEF PatchEnd, Comparing
<1>3. ne \in ns..ne /\ Done' = Done \cup {ne}
  BY <1>1, LastDone DEF PatchEnd, Comparing, Looping
<1>. QED
  BY <1>2, <1>3, OldElm DEF Takes, PatchEnd, PatchVnode, EndsMatch, Comparing, Looping

LEMMA RightTurn == PatchTypes /\ MoveRight => Takes(os, ne)
<1>. SUFFICES ASSUME PatchTypes, MoveRight
              PROVE  Takes(os, ne)
  OBVIOUS
<1>1. DOMAIN newCh' = DOMAIN newCh
  BY ListsStay DEF PatchNext
<1>2. os \in Waiting /\ Waiting' = Waiting \ {os}
  BY StartTaken DEF MoveRight, Comparing
<1>3. ne \in ns..ne /\ Done' = Done \cup {ne}
  BY <1>1, LastDone DEF MoveRight, Comparing, Looping
<1>. QED
  BY <1>2, <1>3, OldElm DEF Takes, MoveRight, PatchVnode, MovedRight, Comparing, Looping

LEMMA LeftTurn == PatchTypes /\ MoveLeft => Takes(oe, ns)
<1>. SUFFICES ASSUME PatchTypes, MoveLeft
              PROVE  Takes(oe, ns)
  OBVIOUS
<1>1. DOMAIN newCh' = DOMAIN newCh
  BY ListsStay DEF PatchNext
<1>2. oe \in Waiting /\ Waiting' = Waiting \ {oe}
  BY EndTaken DEF MoveLeft, Comparing
<1>3. ns \in ns..ne /\ Done' = Done \cup {ns}
  BY <1>1, FirstDone DEF MoveLeft, Comparing, Looping
<1>. QED
  BY <1>2, <1>3, OldElm DEF Takes, MoveLeft, PatchVnode, MovedLeft, Comparing, Looping

LEMMA FoundTurn == PatchTypes /\ FoundWaits /\ MoveFound => Takes(IdxInOld, ns)
<1>. SUFFICES ASSUME PatchTypes, FoundWaits, MoveFound
              PROVE  Takes(IdxInOld, ns)
  OBVIOUS
<1>1. DOMAIN newCh' = DOMAIN newCh
  BY ListsStay DEF PatchNext
<1>2. IdxInOld \in Waiting
  BY DEF FoundWaits, MoveFound
<1>3. Waiting' = Waiting \ {IdxInOld}
  BY DEF Waiting, MoveFound
<1>4. ns \in ns..ne /\ Done' = Done \cup {ns}
  BY <1>1, FirstDone DEF MoveFound, Elsewhere, Comparing, Looping
<1>. QED
  BY <1>2, <1>3, <1>4, OldElm, Zenon DEF Takes, MoveFound, PatchVnode, Elsewhere, Comparing, Looping

LEMMA NewTurn == PatchTypes /\ (NewElement \/ OtherElement) => Makes(ns, os)
<1>. SUFFICES ASSUME PatchTypes, NewElement \/ OtherElement
              PROVE  Makes(ns, os)
  OBVIOUS
<1>1. DOMAIN newCh' = DOMAIN newCh
  BY ListsStay DEF PatchNext
<1>2. Elsewhere /\ CreateElm(ns, oldCh[os].elm) /\ ns' = ns + 1 /\ os' = os /\ oe' = oe /\ ne' = ne
  BY DEF NewElement, OtherElement
<1>3. Waiting' = Waiting
  BY <1>2 DEF Waiting, CreateElm
<1>4. ns \in ns..ne /\ Done' = Done \cup {ns}
  BY <1>1, <1>2, FirstDone DEF Elsewhere, Comparing, Looping
<1>5. oldCh[os].elm = os /\ step = "loop"
  BY <1>2 DEF PatchTypes, Elsewhere, Comparing, Looping
<1>. QED
  BY <1>2, <1>3, <1>4, <1>5, Zenon DEF Makes

LEMMA AddTurn ==
    PatchTypes /\ AddVnode => Makes(ns, IF ne + 1 \in DOMAIN newCh THEN newCh[ne + 1].elm ELSE None)
<1>. SUFFICES ASSUME PatchTypes, AddVnode
              PROVE  Makes(ns, IF ne + 1 \in DOMAIN newCh THEN newCh[ne + 1].elm ELSE None)
  OBVIOUS
<1>1. DOMAIN newCh' = DOMAIN newCh
  BY ListsStay DEF PatchNext
<1>2. Waiting' = Waiting
  BY DEF Waiting, CreateElm, AddVnode
<1>3. ns \in ns..ne /\ Done' = Done \cup {ns}
  BY <1>1, FirstDone DEF AddVnode
<1>. QED
  BY <1>2, <1>3, Zenon DEF Makes, AddVnode

LEMMA RemoveTurn == PatchTypes /\ RemoveVnode => Rests \/ Removes(os)
<1>. SUFFICES ASSUME PatchTypes, RemoveVnode
              PROVE  Rests \/ Removes(os)
  OBVIOUS
<1>1. Done' = Done
  BY DEF Done, RemoveVnode
<1>2. CASE os \in moved
  <2>1. Waiting' = Waiting
    BY <1>2 DEF Waiting, RemoveVnode, PatchTypes
  <2>. QED
    BY <1>1, <1>2, <2>1 DEF Rests, RemoveVnode
<1>3. CASE os \notin moved
  <2>1. os \in Waiting /\ Waiting' = Waiting \ {os}
    BY <1>3 DEF Waiting, RemoveVnode, PatchTypes
  <2>. QED
    BY <1>1, <1>3, <2>1 DEF Removes, RemoveVnode
<1>. QED
  BY <1>2, <1>3

LEMMA OtherTurns ==
    PatchTypes /\ (ReplaceRoot \/ SkipMovedStart \/ SkipMovedEnd \/ ThrowMoved \/ ListsUsedUp
                   \/ InvokeInsertHook \/ UNCHANGED patchVars)
        => Rests
<1>. SUFFICES ASSUME PatchTypes,
                     ReplaceRoot \/ SkipMovedStart \/ SkipMovedEnd \/ ThrowMoved \/ ListsUsedUp
                     \/ InvokeInsertHook \/ UNCHANGED patchVars
              PROVE  Rests
  OBVIOUS
<1>1. Waiting' = Waiting
  BY DEF Waiting, PatchTypes, ReplaceRoot, SkipMovedStart, SkipMovedEnd, ThrowMoved, ListsUsedUp,
     InvokeInsertHook, patchVars, Looping
<1>2. Done' = Done
  BY DEF Done, ReplaceRoot, SkipMovedStart, SkipMovedEnd, ThrowMoved, ListsUsedUp,
     InvokeInsertHook, patchVars
<1>. QED
  BY <1>1, <1>2 DEF Rests, ReplaceRoot, SkipMovedStart, SkipMovedEnd, ThrowMoved, ListsUsedUp,
     InvokeInsertHook, patchVars

LEMMA Turns ==
    ASSUME PatchTypes, FoundWaits, [PatchNext]_patchVars
    PROVE  \/ Rests
           \/ \E i \in Waiting, j \in Done' \ Done : Takes(i, j)
           \/ \E j \in Done' \ Done : \E e : Makes(j, e)
           \/ \E i \in Waiting : Removes(i)
<1>1. \A i, j : Takes(i, j) => i \in Waiting /\ j \in Done' \ Done
  BY DEF Takes, Done
<1>2. \A j, e : Makes(j, e) => j \in Done' \ Done
  BY DEF Makes, Done
<1>3. \A i : Removes(i) => i \in Waiting
  BY DEF Removes
<1>4. CASE PatchStart \/ PatchEnd \/ MoveRight \/ MoveLeft \/ MoveFound
  BY <1>1, <1>4, StartTurn, EndTurn, RightTurn, LeftTurn, FoundTurn, Zenon
<1>5. CASE NewElement \/ OtherElement \/ AddVnode
  BY <1>2, <1>5, NewTurn, AddTurn, Zenon
<1>6. CASE RemoveVnode
  BY <1>3, <1>6, RemoveTurn, Zenon
<1>7. CASE ReplaceRoot \/ SkipMovedStart \/ SkipMovedEnd \/ ThrowMoved \/ ListsUsedUp
           \/ InvokeInsertHook \/ UNCHANGED patchVars
  BY <1>7, OtherTurns, Zenon
<1>. QED
  BY <1>4, <1>5, <1>6, <1>7, Zenon DEF PatchNext

\* While new vnodes are left, an old one no longer waiting has passed its node to a
\* new one; so the map names no vnode twice and the patch never throws.
CarriedInv ==
    sameRoot /\ ns <= ne =>
        \A i \in DOMAIN oldCh \ Waiting :
            \E j \in Done : SameVnode(oldCh[i], newCh[j]) /\ newCh[j].elm = i

CarryInv == KeysDiffer(newCh) => CarriedInv /\ step # "threw"

LEMMA KeysDifferIs ==
    KeysDiffer(newCh) <=>
        \A i, j \in DOMAIN newCh : newCh[i].key = newCh[j].key /\ newCh[i].key # NoKey => i = j
BY DEF KeysDiffer, NoTwo

LEMMA FoundIsWaiting == PatchTypes /\ MapInv /\ CarryInv /\ KeysDiffer(newCh) => FoundWaits
<1>. SUFFICES ASSUME PatchTypes, MapInv, CarryInv, KeysDiffer(newCh), Elsewhere, IdxInOld # None,
                     IdxInOld \notin Waiting
              PROVE  FALSE
  BY DEF FoundWaits
<1>1. IdxInOld \in DOMAIN oldCh /\ newCh[ns].key # NoKey /\ oldCh[IdxInOld].key = newCh[ns].key
  BY IdxInOldSound DEF PatchTypes, None
<1>2. ns \in DOMAIN newCh /\ ns \notin Done /\ sameRoot /\ ns <= ne
  BY DEF Elsewhere, Comparing, Looping, PatchTypes, Done
<1>3. PICK j \in Done : SameVnode(oldCh[IdxInOld], newCh[j])
  BY <1>1, <1>2 DEF CarryInv, CarriedInv
<1>4. newCh[j].key = newCh[ns].key /\ j \in DOMAIN newCh
  BY <1>1, <1>3 DEF SameVnode, Done
<1>5. j = ns
  BY <1>1, <1>2, <1>4, KeysDifferIs
<1>. QED
  BY <1>2, <1>5

\* The refs of two lists, vnode by vnode.
RefsApart(old, new) ==
    /\ \A i, k \in DOMAIN old :
          old[i].ref = old[k].ref =>
             /\ old[i].inFor = old[k].inFor
             /\ old[i].ref # NoRef /\ ~old[i].inFor => i = k
    /\ \A j, k \in DOMAIN new :
          new[j].ref = new[k].ref =>
             /\ new[j].inFor = new[k].inFor
             /\ new[j].ref # NoRef /\ ~new[j].inFor => j = k
    /\ \A i \in DOMAIN old, j \in DOMAIN new :
          /\ old[i].ref = new[j].ref => old[i].inFor = new[j].inFor
          /\ old[i].empty /\ SameVnode(old[i], new[j]) => old[i].ref = new[j].ref

LEMMA RefsDifferIs == RefsDiffer <=> RefsApart(oldCh, newCh)
<1>1. RefsDiffer => RefsApart(oldCh, newCh)
  BY DEF RefsDiffer, RefsApart, NoTwo, ToSet, IsPatchable
<1>2. RefsApart(oldCh, newCh) => RefsDiffer
  BY DEF RefsDiffer, RefsApart, NoTwo, ToSet, IsPatchable
<1>. QED
  BY <1>1, <1>2

\* The lists' keys stay what they are.
LEMMA KeysStay ==
    ASSUME PatchTypes, [PatchNext]_patchVars
    PROVE  /\ KeysDiffer(newCh)' <=> KeysDiffer(newCh)
           /\ RefsDiffer' <=> RefsDiffer
           /\ \A i, j \in DOMAIN newCh : SameVnode(oldCh[i], newCh'[j]) <=> SameVnode(oldCh[i], newCh[j])
<1>1. /\ oldCh' = oldCh /\ DOMAIN newCh' = DOMAIN newCh
      /\ \A j \in DOMAIN newCh :
            /\ newCh'[j].key = newCh[j].key /\ newCh'[j].ref = newCh[j].ref
            /\ newCh'[j].data = newCh[j].data /\ newCh'[j].tag = newCh[j].tag
            /\ newCh'[j].inFor = newCh[j].inFor
  BY ListsStay
<1>2. RefsDiffer <=> RefsApart(oldCh, newCh)
  BY RefsDifferIs
<1>3. RefsDiffer' <=> RefsApart(oldCh', newCh')
  BY <1>1 DEF RefsDiffer, RefsApart, NoTwo, ToSet, IsPatchable
<1>4. RefsApart(oldCh', newCh') <=> RefsApart(oldCh, newCh)
  BY <1>1 DEF RefsApart, SameVnode
<1>. QED
  BY <1>1, <1>2, <1>3, <1>4 DEF KeysDiffer, NoTwo, SameVnode

LEMMA MapStays ==
    ASSUME PatchTypes, MapInv, Waiting' \subseteq Waiting, [PatchNext]_patchVars
    PROVE  MapInv'
<1>1. oldCh' = oldCh
  BY ListsStay
<1>2. \A m : SoundMap(m) => SoundMap(m)'
  BY <1>1 DEF SoundMap
<1>3. CASE oldKeyToIdx' = oldKeyToIdx
  BY <1>2, <1>3 DEF MapInv
<1>4. CASE Elsewhere /\ oldKeyToIdx' = TheMap
  <2>1. SoundMap(TheMap)
    BY <1>4, IdxInOldSound
  <2>2. SoundMap(oldKeyToIdx')
    BY <1>4, <2>1
  <2>. QED
    BY <1>1, <2>2 DEF MapInv, SoundMap
<1>. QED
  BY <1>3, <1>4
     DEF PatchNext, patchVars, ReplaceRoot, SkipMovedStart, SkipMovedEnd, PatchStart, PatchEnd,
         MoveRight, MoveLeft, NewElement, OtherElement, MoveFound, ThrowMoved, AddVnode, RemoveVnode,
         ListsUsedUp, InvokeInsertHook


\* Done vnodes keep their nodes.
LEMMA NodesStay ==
    ASSUME PatchTypes, NEW j \in DOMAIN newCh \ Done, NEW e, newCh' = [newCh EXCEPT ![j].elm = e]
    PROVE  newCh'[j].elm = e /\ \A k \in Done : k # j /\ newCh'[k].elm = newCh[k].elm
<1>1. j \in DOMAIN newCh
  OBVIOUS
<1>2. \A i \in DOMAIN newCh : newCh'[i].elm = IF i = j THEN e ELSE newCh[i].elm
  BY <1>1, NodeGiven
<1>. QED
  BY <1>1, <1>2 DEF Done

PatchBase == PatchTypes /\ MapInv /\ CarryInv

LEMMA PatchBaseInit == PatchInit => PatchBase
<1>. SUFFICES ASSUME NEW same \in BOOLEAN, NEW lists \in Families,
                     NEW before \in lists, NEW after \in lists, PatchFrom(same, before, after)
              PROVE  PatchBase
  BY DEF PatchInit
<1>1. PatchTypes
  BY PatchTypesInit, Zenon DEF PatchInit
<1>2. oldKeyToIdx = <<>> /\ moved = {} /\ step # "threw" /\ os = 1 /\ oe = Len(before)
      /\ DOMAIN oldCh = DOMAIN before
  BY DEF PatchFrom
<1>3. DOMAIN oldCh = Waiting
  <2>1. DOMAIN before = 1..Len(before)
    BY ShapesOf
  <2>. QED
    BY <1>2, <2>1 DEF Waiting
<1>. QED
  BY <1>1, <1>2, <1>3 DEF PatchBase, MapInv, CarryInv, CarriedInv

LEMMA CarryStep ==
    ASSUME PatchBase, KeysDiffer(newCh), [PatchNext]_patchVars
    PROVE  CarriedInv'
<1>. SUFFICES ASSUME sameRoot', ns' <= ne',
                     NEW i \in DOMAIN oldCh', i \notin Waiting'
              PROVE  \E j \in Done' : SameVnode(oldCh[i], newCh[j])' /\ newCh'[j].elm = i
  BY DEF CarriedInv
<1>0. PatchTypes /\ FoundWaits /\ CarriedInv
  BY FoundIsWaiting DEF PatchBase, CarryInv
<1>1. /\ oldCh' = oldCh /\ sameRoot' = sameRoot
      /\ \A a, j \in DOMAIN newCh : SameVnode(oldCh[a], newCh'[j]) <=> SameVnode(oldCh[a], newCh[j])
  BY <1>0, ListsStay, KeysStay
<1>2. ns <= ne
  <2>1. (ns' = ns \/ ns' = ns + 1) /\ (ne' = ne \/ ne' = ne - 1)
    BY DEF PatchNext, patchVars, ReplaceRoot, SkipMovedStart, SkipMovedEnd, PatchStart, PatchEnd,
       MoveRight, MoveLeft, NewElement, OtherElement, MoveFound, ThrowMoved, AddVnode, RemoveVnode,
       ListsUsedUp, InvokeInsertHook
  <2>. QED
    BY <1>0, <2>1 DEF PatchTypes
<1>3. ASSUME i \notin Waiting, Done \subseteq Done', \A k \in Done : newCh'[k].elm = newCh[k].elm
      PROVE  \E j \in Done' : SameVnode(oldCh[i], newCh[j])' /\ newCh'[j].elm = i
  <2>1. PICK j \in Done : SameVnode(oldCh[i], newCh[j]) /\ newCh[j].elm = i
    BY <1>0, <1>1, <1>2, <1>3 DEF CarriedInv
  <2>2. SameVnode(oldCh[i], newCh'[j])
    BY <1>0, <1>1, <2>1, ListsStay DEF Done, SameVnode
  <2>. QED
    BY <1>1, <1>3, <2>1, <2>2 DEF SameVnode
<1>4. CASE Rests
  BY <1>3, <1>4 DEF Rests
<1>5. ASSUME NEW a \in Waiting, NEW b \in Done' \ Done, Takes(a, b)
      PROVE  \E j \in Done' : SameVnode(oldCh[i], newCh[j])' /\ newCh'[j].elm = i
  <2>1. b \in DOMAIN newCh \ Done
    BY <1>0, <1>5, ListsStay DEF Done
  <2>2. newCh'[b].elm = a /\ \A k \in Done : newCh'[k].elm = newCh[k].elm
    BY <1>0, <1>5, <2>1, NodesStay DEF Takes
  <2>3. CASE i = a
    <3>1. SameVnode(oldCh[i], newCh'[b])
      BY <1>0, <1>5, <2>1, <2>3, ListsStay DEF Takes, SameVnode
    <3>. QED
      BY <1>1, <2>2, <2>3, <3>1 DEF SameVnode
  <2>4. CASE i # a
    BY <1>3, <1>5, <2>2, <2>4 DEF Takes
  <2>. QED
    BY <2>3, <2>4
<1>6. ASSUME NEW b \in Done' \ Done, NEW e, Makes(b, e)
      PROVE  \E j \in Done' : SameVnode(oldCh[i], newCh[j])' /\ newCh'[j].elm = i
  <2>1. b \in DOMAIN newCh \ Done
    BY <1>0, <1>6, ListsStay DEF Done
  <2>2. \A k \in Done : newCh'[k].elm = newCh[k].elm
    BY <1>0, <1>6, <2>1, NodesStay DEF Makes, CreateElm
  <2>. QED
    BY <1>3, <1>6, <2>2 DEF Makes
<1>7. ASSUME NEW a \in Waiting, Removes(a)
      PROVE  FALSE
  BY <1>0, <1>2, <1>7 DEF Removes, PatchTypes
<1>. QED
  BY <1>0, <1>4, <1>5, <1>6, <1>7, Turns

LEMMA WaitingShrinks ==
    ASSUME PatchTypes, MapInv, [PatchNext]_patchVars
    PROVE  Waiting' \subseteq Waiting
<1>1. CASE PatchStart \/ PatchEnd \/ MoveRight \/ MoveLeft
  BY <1>1, StartTurn, EndTurn, RightTurn, LeftTurn DEF Takes
<1>2. CASE NewElement \/ OtherElement \/ AddVnode
  BY <1>2, NewTurn, AddTurn DEF Makes
<1>3. CASE MoveFound
  BY <1>3 DEF MoveFound, Waiting
<1>4. CASE RemoveVnode
  BY <1>4, RemoveTurn DEF Removes, Rests
<1>5. CASE ReplaceRoot \/ SkipMovedStart \/ SkipMovedEnd \/ ThrowMoved \/ ListsUsedUp
           \/ InvokeInsertHook \/ UNCHANGED patchVars
  BY <1>5, OtherTurns DEF Rests
<1>. QED
  BY <1>1, <1>2, <1>3, <1>4, <1>5, Zenon DEF PatchNext

LEMMA PatchBaseStep == PatchBase /\ [PatchNext]_patchVars => PatchBase'
<1>. SUFFICES ASSUME PatchBase, [PatchNext]_patchVars
              PROVE  PatchBase'
  OBVIOUS
<1>1. PatchTypes'
  BY PatchTypesStep DEF PatchBase
<1>2. MapInv'
  BY MapStays, WaitingShrinks DEF PatchBase
<1>3. ASSUME KeysDiffer(newCh)
      PROVE  CarriedInv' /\ step' # "threw"
  <2>1. FoundWaits /\ step # "threw"
    BY <1>3, FoundIsWaiting DEF PatchBase, CarryInv
  <2>2. ~ThrowMoved
    BY <2>1 DEF FoundWaits, ThrowMoved, Waiting
  <2>3. step' # "threw"
    BY <2>1, <2>2
       DEF PatchNext, patchVars, ReplaceRoot, SkipMovedStart, SkipMovedEnd, PatchStart, PatchEnd,
           MoveRight, MoveLeft, PatchVnode, NewElement, OtherElement, CreateElm, MoveFound, AddVnode,
           RemoveVnode, ListsUsedUp, InvokeInsertHook
  <2>. QED
    BY <1>3, <2>3, CarryStep
<1>4. KeysDiffer(newCh)' <=> KeysDiffer(newCh)
  BY KeysStay DEF PatchBase
<1>. QED
  BY <1>1, <1>2, <1>3, <1>4 DEF PatchBase, CarryInv

\* A keyed new vnode that has its node has that of its old one.
KeptInv ==
    sameRoot /\ KeysDiffer(newCh) /\ KeysDiffer(oldCh) =>
        \A i \in DOMAIN oldCh, j \in Done :
            newCh[j].key # NoKey /\ SameVnode(oldCh[i], newCh[j]) => newCh[j].elm = i

\* A keyed vnode is made new only if no waiting old one is the same.
LEMMA MadeIsNew ==
    ASSUME PatchBase, sameRoot, KeysDiffer(oldCh), NewElement \/ OtherElement \/ AddVnode,
           newCh[ns].key # NoKey, NEW i \in Waiting
    PROVE  ~SameVnode(oldCh[i], newCh[ns])
<1>. PatchTypes /\ MapInv
  BY DEF PatchBase
<1>1. i \in DOMAIN oldCh
  BY OldElm
<1>2. CASE NewElement
  <2>1. oldCh[i].key # newCh[ns].key
    BY <1>2, IdxInOldSound DEF NewElement
  <2>. QED
    BY <2>1 DEF SameVnode
<1>3. CASE OtherElement
  <2>1. /\ IdxInOld \in DOMAIN oldCh /\ oldCh[IdxInOld].key = newCh[ns].key
        /\ ~SameVnode(oldCh[IdxInOld], newCh[ns])
    BY <1>3, IdxInOldSound DEF OtherElement, PatchTypes, None
  <2>2. oldCh[i].key = oldCh[IdxInOld].key => i = IdxInOld
    BY <1>1, <2>1 DEF KeysDiffer, NoTwo
  <2>. QED
    BY <2>1, <2>2 DEF SameVnode
<1>4. CASE AddVnode
  BY <1>4 DEF AddVnode, Waiting, PatchTypes
<1>. QED
  BY <1>2, <1>3, <1>4

LEMMA KeptStep ==
    ASSUME PatchBase, KeptInv, [PatchNext]_patchVars, sameRoot, KeysDiffer(newCh), KeysDiffer(oldCh),
           NEW i \in DOMAIN oldCh, NEW j \in Done', newCh[j].key # NoKey,
           SameVnode(oldCh[i], newCh[j])
    PROVE  newCh'[j].elm = i
<1>0. PatchTypes /\ FoundWaits
  BY FoundIsWaiting DEF PatchBase
<1>1. DOMAIN newCh' = DOMAIN newCh /\ j \in DOMAIN newCh
  BY <1>0, ListsStay DEF Done
<1>2. ASSUME j \in Done, newCh'[j].elm = newCh[j].elm
      PROVE  newCh'[j].elm = i
  BY <1>2 DEF KeptInv
<1>3. CASE Rests
  BY <1>2, <1>3 DEF Rests
<1>4. ASSUME NEW a \in Waiting, NEW b \in Done' \ Done, Takes(a, b)
      PROVE  newCh'[j].elm = i
  <2>1. b \in DOMAIN newCh \ Done
    BY <1>1, <1>4 DEF Done
  <2>2. newCh'[b].elm = a /\ \A k \in Done : newCh'[k].elm = newCh[k].elm
    BY <1>0, <1>4, <2>1, NodesStay DEF Takes
  <2>3. CASE j = b
    <3>1. oldCh[a].key = oldCh[i].key /\ oldCh[i].key # NoKey /\ a \in DOMAIN oldCh
      BY <1>0, <1>4, <2>3, OldElm DEF Takes, SameVnode
    <3>2. a = i
      BY <3>1 DEF KeysDiffer, NoTwo
    <3>. QED
      BY <2>2, <2>3, <3>2
  <2>4. CASE j # b
    BY <1>2, <1>4, <2>2, <2>4 DEF Takes
  <2>. QED
    BY <2>3, <2>4
<1>5. CASE NewElement \/ OtherElement \/ AddVnode
  <2>1. PICK e : Makes(ns, e)
    BY <1>0, <1>5, NewTurn, AddTurn
  <2>2. ns \in DOMAIN newCh \ Done /\ Done' = Done \cup {ns}
    BY <1>0, <2>1 DEF Makes, Done, PatchTypes
  <2>3. \A k \in Done : newCh'[k].elm = newCh[k].elm
    BY <1>0, <2>1, <2>2, NodesStay DEF Makes, CreateElm
  <2>4. CASE j \in Done
    BY <1>2, <2>3, <2>4
  <2>5. CASE j = ns
    <3>1. i \notin Waiting
      BY <1>5, <2>5, MadeIsNew
    <3>2. ns <= ne
      BY <1>0, <2>1 DEF Makes, PatchTypes
    <3>3. PICK k \in Done : SameVnode(oldCh[i], newCh[k])
      BY <3>1, <3>2 DEF PatchBase, CarryInv, CarriedInv
    <3>4. newCh[k].key = newCh[ns].key /\ k \in DOMAIN newCh
      BY <2>5, <3>3 DEF SameVnode, Done
    <3>5. k = ns
      BY <1>1, <2>5, <3>4, KeysDifferIs
    <3>. QED
      BY <2>2, <3>5
  <2>. QED
    BY <2>2, <2>4, <2>5
<1>6. ASSUME NEW a \in Waiting, Removes(a)
      PROVE  newCh'[j].elm = i
  BY <1>2, <1>6 DEF Removes
<1>7. CASE PatchStart \/ PatchEnd \/ MoveRight \/ MoveLeft \/ MoveFound
  <2>1. PICK a, b : Takes(a, b)
    BY <1>0, <1>7, StartTurn, EndTurn, RightTurn, LeftTurn, FoundTurn, Zenon
  <2>2. a \in Waiting /\ b \in Done' \ Done
    BY <2>1 DEF Takes, Done
  <2>. QED
    BY <1>4, <2>1, <2>2
<1>8. CASE RemoveVnode
  BY <1>0, <1>3, <1>6, <1>8, RemoveTurn DEF Removes
<1>9. CASE ReplaceRoot \/ SkipMovedStart \/ SkipMovedEnd \/ ThrowMoved \/ ListsUsedUp
           \/ InvokeInsertHook \/ UNCHANGED patchVars
  BY <1>0, <1>3, <1>9, OtherTurns
<1>. QED
  BY <1>5, <1>7, <1>8, <1>9, Zenon DEF PatchNext

LEMMA NoneDoneYet == PatchInit => Done = {} /\ Waiting = DOMAIN oldCh
<1>. SUFFICES ASSUME NEW same \in BOOLEAN, NEW lists \in Families,
                     NEW before \in lists, NEW after \in lists, PatchFrom(same, before, after)
              PROVE  Done = {} /\ Waiting = DOMAIN oldCh
  BY DEF PatchInit
<1>1. DOMAIN before = 1..Len(before) /\ DOMAIN after = 1..Len(after)
  BY ShapesOf
<1>2. /\ DOMAIN oldCh = DOMAIN before /\ DOMAIN newCh = DOMAIN after
      /\ os = 1 /\ oe = Len(before) /\ ns = 1 /\ ne = Len(after) /\ moved = {}
  BY DEF PatchFrom
<1>. QED
  BY <1>1, <1>2 DEF Done, Waiting

LEMMA KeptStays == PatchBase /\ KeptInv /\ [PatchNext]_patchVars => KeptInv'
<1>. SUFFICES ASSUME PatchBase, KeptInv, [PatchNext]_patchVars,
                     sameRoot', KeysDiffer(newCh)', KeysDiffer(oldCh)',
                     NEW i \in DOMAIN oldCh', NEW j \in Done', newCh'[j].key # NoKey,
                     SameVnode(oldCh[i], newCh[j])'
              PROVE  newCh'[j].elm = i
  BY DEF KeptInv
<1>1. /\ oldCh' = oldCh /\ sameRoot' = sameRoot /\ DOMAIN newCh' = DOMAIN newCh
      /\ \A k \in DOMAIN newCh :
            /\ newCh'[k].key = newCh[k].key
            /\ newCh'[k].data = newCh[k].data /\ newCh'[k].tag = newCh[k].tag
  BY ListsStay DEF PatchBase
<1>2. KeysDiffer(newCh) /\ KeysDiffer(oldCh)
  <2>1. KeysDiffer(newCh)
    BY KeysStay DEF PatchBase
  <2>2. KeysDiffer(oldCh)
    BY <1>1 DEF KeysDiffer, NoTwo
  <2>. QED
    BY <2>1, <2>2
<1>3. j \in DOMAIN newCh
  BY <1>1 DEF Done
<1>4. newCh[j].key # NoKey /\ SameVnode(oldCh[i], newCh[j])
  BY <1>1, <1>3 DEF SameVnode
<1>. QED
  BY <1>1, <1>2, <1>4, KeptStep

\* The patch of a list whose keys differ never throws, and every keyed vnode that
\* stays keeps its node: updateChildren finds it from the ends or through the map.
THEOREM KeyedNodesKept == PatchSpec => []KeyedNodesStay
<1>1. PatchInit => PatchBase /\ KeptInv
  BY PatchBaseInit, NoneDoneYet DEF KeptInv
<1>2. PatchBase /\ KeptInv /\ [PatchNext]_patchVars => (PatchBase /\ KeptInv)'
  BY PatchBaseStep, KeptStays
<1>3. PatchBase /\ KeptInv => KeyedNodesStay
  <2>. SUFFICES ASSUME PatchBase, KeptInv, KeysDiffer(newCh)
                PROVE  /\ step # "threw"
                       /\ step = "done" /\ sameRoot /\ KeysDiffer(oldCh) =>
                             \A i \in DOMAIN oldCh, j \in DOMAIN newCh :
                                newCh[j].key # NoKey /\ SameVnode(oldCh[i], newCh[j])
                                    => newCh[j].elm = oldCh[i].elm
    BY DEF KeyedNodesStay
  <2>1. step # "threw"
    BY DEF PatchBase, CarryInv
  <2>2. step = "done" => Done = DOMAIN newCh
    BY DEF PatchBase, PatchTypes, Done
  <2>3. \A i \in DOMAIN oldCh : oldCh[i].elm = i
    BY DEF PatchBase, PatchTypes
  <2>. QED
    BY <2>1, <2>2, <2>3 DEF KeptInv
<1>. QED
  BY <1>1, <1>2, <1>3, PTL DEF PatchSpec

-----------------------------------------------------------------------------
(* References and components: what is registered, when and for whom.       *)

\* rs has the shape of $refs: of each ref, an array or not, and the nodes.
IsRefs(rs) == rs = [r \in Refs |-> [array |-> rs[r].array, nodes |-> rs[r].nodes]]

RefTypes == IsRefs(refs) /\ inserted \in Seq(Nat)

ElmInv ==
    /\ \A j \in Done : newCh[j].elm \in 1..nodes /\ newCh[j].elm \notin Waiting
    /\ \A i, j \in Done : newCh[i].elm = newCh[j].elm => i = j

AliveInv ==
    /\ alive = { newCh[j].elm : j \in { k \in Done : IsComponent(newCh[k]) } }
               \cup { i \in Waiting : IsComponent(oldCh[i]) }
    /\ \A e \in alive : e \in mounted \/ e \in ToSet(inserted)
    /\ step = "done" => \A e \in alive : e \in mounted

\* A ref that a vnode in a v-for has, and the nodes it names in the middle of a
\* patch: those of the new vnodes done; of the old ones that wait too, unless the
\* ref stands outside a v-for and is taken over.
InFor(r) == \/ \E i \in DOMAIN oldCh : oldCh[i].ref = r /\ oldCh[i].inFor
            \/ \E j \in DOMAIN newCh : newCh[j].ref = r /\ newCh[j].inFor
TakenOver(r, e) == \E j \in Done : newCh[j].ref = r /\ newCh[j].elm = e
NoneYet(r) == \A j \in Done : newCh[j].ref # r
Named(r, e) ==
    \/ TakenOver(r, e)
    \/ e \in Waiting /\ oldCh[e].ref = r /\ (InFor(r) \/ NoneYet(r))

RefInv ==
    RefsDiffer =>
        \A r \in Refs :
            /\ \A e : e \in refs[r].nodes <=> Named(r, e)
            /\ refs[r].nodes # {} => refs[r].array = InFor(r)

LiveInv == KeysDiffer(newCh) => RefTypes /\ ElmInv /\ AliveInv /\ RefInv

\* What RefsDiffer says of one ref: all its vnodes stand in a v-for, or one per list.
LEMMA RefsSame ==
    ASSUME PatchTypes, RefsDiffer, NEW r, r # NoRef
    PROVE  /\ \A i \in DOMAIN oldCh : oldCh[i].ref = r => oldCh[i].inFor = InFor(r)
           /\ \A j \in DOMAIN newCh : newCh[j].ref = r => newCh[j].inFor = InFor(r)
           /\ ~InFor(r) =>
                 /\ \A i, k \in DOMAIN oldCh : oldCh[i].ref = r /\ oldCh[k].ref = r => i = k
                 /\ \A j, k \in DOMAIN newCh : newCh[j].ref = r /\ newCh[k].ref = r => j = k
<1>1. RefsApart(oldCh, newCh)
  BY RefsDifferIs
<1>0. /\ \A i \in DOMAIN oldCh : oldCh[i].inFor \in BOOLEAN
      /\ \A j \in DOMAIN newCh : newCh[j].inFor \in BOOLEAN
  BY DEF PatchTypes, IsVNode
<1>2. ASSUME NEW i \in DOMAIN oldCh, oldCh[i].ref = r
      PROVE  oldCh[i].inFor = InFor(r)
  <2>1. oldCh[i].inFor <=> InFor(r)
    BY <1>1, <1>2 DEF RefsApart, InFor
  <2>. QED
    BY <1>0, <2>1 DEF InFor
<1>3. ASSUME NEW j \in DOMAIN newCh, newCh[j].ref = r
      PROVE  newCh[j].inFor = InFor(r)
  <2>1. newCh[j].inFor <=> InFor(r)
    BY <1>1, <1>3 DEF RefsApart, InFor
  <2>. QED
    BY <1>0, <2>1 DEF InFor
<1>. QED
  BY <1>1, <1>2, <1>3 DEF RefsApart

LEMMA LiveInit == PatchInit => LiveInv
<1>. SUFFICES ASSUME NEW same \in BOOLEAN, NEW lists \in Families,
                     NEW before \in lists, NEW after \in lists, PatchFrom(same, before, after)
              PROVE  LiveInv
  BY DEF PatchInit
<1>. DEFINE having(r) == { i \in DOMAIN before : before[i].ref = r }
            kept(r) == { i \in having(r) : \A j \in having(r) :
                            j > i => before[i].inFor /\ before[j].inFor }
<1>0. Done = {} /\ Waiting = DOMAIN oldCh
  BY NoneDoneYet, Zenon DEF PatchInit
<1>1. PatchTypes
  BY PatchTypesInit, Zenon DEF PatchInit
<1>2. /\ oldCh = [i \in DOMAIN before |-> VNode(before[i], i)]
      /\ refs = [r \in Refs |-> [array |-> \E i \in kept(r) : before[i].inFor, nodes |-> kept(r)]]
      /\ alive = { i \in DOMAIN before : IsComponent(before[i]) } /\ mounted = alive
      /\ inserted = <<>>
  BY DEF PatchFrom
<1>3. /\ DOMAIN oldCh = DOMAIN before
      /\ \A i \in DOMAIN before : /\ oldCh[i].ref = before[i].ref /\ oldCh[i].tag = before[i].tag
                                  /\ oldCh[i].inFor = before[i].inFor
  BY <1>2 DEF VNode
<1>4. RefTypes
  BY <1>2, EmptySeq DEF RefTypes, IsRefs
<1>5. ElmInv
  BY <1>0 DEF ElmInv
<1>6. AliveInv
  BY <1>0, <1>2, <1>3 DEF AliveInv, IsComponent
<1>7. ASSUME RefsDiffer, NEW r \in Refs
      PROVE  /\ \A e : e \in refs[r].nodes <=> Named(r, e)
             /\ refs[r].nodes # {} => refs[r].array = InFor(r)
  <2>1. /\ refs[r].nodes = kept(r)
        /\ refs[r].array = \E i \in kept(r) : before[i].inFor
    BY <1>2
  <2>2. r # NoRef
    BY DEF Refs
  <2>3. /\ \A i \in DOMAIN oldCh : oldCh[i].ref = r => oldCh[i].inFor = InFor(r)
        /\ ~InFor(r) => \A i, k \in DOMAIN oldCh : oldCh[i].ref = r /\ oldCh[k].ref = r => i = k
    BY <1>1, <1>7, <2>2, RefsSame
  <2>4. \A i \in DOMAIN before : i \in Nat /\ ~(i > i)
    BY <1>1, <1>3 DEF PatchTypes
  <2>5. kept(r) = having(r)
    <3>1. ASSUME NEW i \in having(r), NEW j \in having(r), j > i
          PROVE  before[i].inFor /\ before[j].inFor
      BY <1>3, <2>3, <2>4, <3>1
    <3>. QED
      BY <3>1
  <2>6. \A e : e \in having(r) <=> Named(r, e)
    BY <1>0, <1>3 DEF Named, TakenOver, NoneYet
  <2>7. \A i \in having(r) : before[i].inFor = InFor(r)
    BY <1>3, <2>3
  <2>8. \A e : e \in refs[r].nodes <=> Named(r, e)
    BY <2>1, <2>5, <2>6, Zenon
  <2>9. ASSUME refs[r].nodes # {}
        PROVE  refs[r].array = InFor(r)
    <3>1. PICK e \in kept(r) : TRUE
      BY <2>1, <2>9
    <3>2. before[e].inFor = InFor(r) /\ \A i \in kept(r) : before[i].inFor = InFor(r)
      BY <2>5, <2>7, <3>1, Zenon
    <3>. HIDE DEF kept
    <3>3. refs[r].array <=> InFor(r)
      BY <2>1, <3>1, <3>2
    <3>. QED
      BY <2>1, <3>3 DEF InFor
  <2>. QED
    BY <2>8, <2>9
<1>8. RefInv
  BY <1>0, <1>7 DEF RefInv
<1>. QED
  BY <1>4, <1>5, <1>6, <1>8 DEF LiveInv

\* What happens to the vnodes when a turn takes, makes or removes.
LEMMA TakesWhat ==
    ASSUME PatchTypes, [PatchNext]_patchVars, NEW i, NEW j, Takes(i, j)
    PROVE  /\ i \in DOMAIN oldCh /\ oldCh[i].elm = i /\ i \in 1..nodes
           /\ j \in DOMAIN newCh \ Done
           /\ newCh'[j].elm = i /\ \A k \in Done : k # j /\ newCh'[k].elm = newCh[k].elm
           /\ Waiting' = Waiting \ {i} /\ Done' = Done \cup {j} /\ i \in Waiting
           /\ oldCh' = oldCh
           /\ \A k \in DOMAIN newCh : /\ newCh'[k].ref = newCh[k].ref
                                      /\ newCh'[k].inFor = newCh[k].inFor
                                      /\ IsComponent(newCh'[k]) <=> IsComponent(newCh[k])
           /\ Done \subseteq DOMAIN newCh
<1>1. i \in Waiting /\ j \in DOMAIN newCh \ Done /\ Waiting \subseteq 1..nodes
  BY DEF Takes, PatchTypes, Done, Waiting
<1>2. newCh'[j].elm = i /\ \A k \in Done : k # j /\ newCh'[k].elm = newCh[k].elm
  BY <1>1, NodesStay DEF Takes
<1>3. oldCh' = oldCh /\ \A k \in DOMAIN newCh : /\ newCh'[k].ref = newCh[k].ref
                                                /\ newCh'[k].tag = newCh[k].tag
                                                /\ newCh'[k].inFor = newCh[k].inFor
  BY ListsStay
<1>. QED
  BY <1>1, <1>2, <1>3, OldElm DEF Takes, IsComponent, Done

LEMMA MakesWhat ==
    ASSUME PatchTypes, [PatchNext]_patchVars, NEW j, NEW e, Makes(j, e)
    PROVE  /\ nodes' = nodes + 1 /\ nodes \in Nat /\ \A i \in Waiting : i \in 1..nodes
           /\ j \in DOMAIN newCh \ Done
           /\ newCh'[j].elm = nodes + 1 /\ \A k \in Done : k # j /\ newCh'[k].elm = newCh[k].elm
           /\ Waiting' = Waiting /\ Done' = Done \cup {j}
           /\ oldCh' = oldCh
           /\ \A k \in DOMAIN newCh : /\ newCh'[k].ref = newCh[k].ref
                                      /\ newCh'[k].inFor = newCh[k].inFor
                                      /\ IsComponent(newCh'[k]) <=> IsComponent(newCh[k])
           /\ Done \subseteq DOMAIN newCh
<1>1. j \in DOMAIN newCh \ Done /\ Waiting \subseteq 1..nodes /\ nodes \in Nat
  BY DEF Makes, PatchTypes, Done, Waiting
<1>2. newCh'[j].elm = nodes' /\ \A k \in Done : k # j /\ newCh'[k].elm = newCh[k].elm
  BY <1>1, NodesStay DEF Makes, CreateElm
<1>3. oldCh' = oldCh /\ \A k \in DOMAIN newCh : /\ newCh'[k].ref = newCh[k].ref
                                                /\ newCh'[k].tag = newCh[k].tag
                                                /\ newCh'[k].inFor = newCh[k].inFor
  BY ListsStay
<1>. QED
  BY <1>1, <1>2, <1>3 DEF Makes, CreateElm, IsComponent, Done

LEMMA ElmStep ==
    ASSUME PatchTypes, FoundWaits, ElmInv, [PatchNext]_patchVars
    PROVE  ElmInv'
<1>1. CASE Rests
  BY <1>1 DEF Rests, ElmInv
<1>2. ASSUME NEW i, NEW j, Takes(i, j)
      PROVE  ElmInv'
  <2>1. nodes' = nodes
    BY <1>2 DEF Takes
  <2>2. \A k \in Done : newCh[k].elm # i
    BY <1>2, TakesWhat DEF ElmInv
  <2>. QED
    BY <1>2, <2>1, <2>2, TakesWhat DEF ElmInv
<1>3. ASSUME NEW j, NEW e, Makes(j, e)
      PROVE  ElmInv'
  <2>1. /\ nodes' = nodes + 1 /\ nodes \in Nat /\ Waiting' = Waiting /\ Done' = Done \cup {j}
        /\ \A i \in Waiting : i \in 1..nodes
        /\ newCh'[j].elm = nodes + 1 /\ \A k \in Done : k # j /\ newCh'[k].elm = newCh[k].elm
    BY <1>3, MakesWhat
  <2>2. \A k \in Done' : newCh'[k].elm \in 1..nodes' /\ newCh'[k].elm \notin Waiting'
    BY <2>1 DEF ElmInv
  <2>3. \A k \in Done : newCh'[k].elm # nodes + 1
    BY <2>1 DEF ElmInv
  <2>. QED
    BY <2>1, <2>2, <2>3 DEF ElmInv
<1>4. ASSUME NEW i, Removes(i)
      PROVE  ElmInv'
  BY <1>4 DEF Removes, ElmInv
<1>. QED
  BY <1>1, <1>2, <1>3, <1>4, Turns

LEMMA AppendHolds ==
    ASSUME NEW S, NEW list \in Seq(S), NEW e \in S, NEW x, x \in ToSet(list) \/ x = e
    PROVE  x \in ToSet(Append(list, e))
<1>1. /\ Len(list) \in Nat /\ DOMAIN list = 1..Len(list)
      /\ DOMAIN Append(list, e) = 1..(Len(list) + 1)
      /\ \A i \in 1..Len(list) : Append(list, e)[i] = list[i]
      /\ Append(list, e)[Len(list) + 1] = e
  BY SMT
<1>2. CASE x = e
  BY <1>1, <1>2 DEF ToSet
<1>3. CASE x \in ToSet(list)
  BY <1>1, <1>3 DEF ToSet
<1>. QED
  BY <1>2, <1>3

LEMMA AliveStep ==
    ASSUME PatchTypes, FoundWaits, RefTypes, ElmInv, AliveInv, [PatchNext]_patchVars
    PROVE  AliveInv'
<1>1. CASE Rests
  <2>1. oldCh' = oldCh
    BY ListsStay
  <2>2. (\A e \in alive : e \in mounted \/ e \in ToSet(inserted))'
    BY <1>1 DEF Rests, AliveInv
  <2>3. (step = "done" => \A e \in alive : e \in mounted)'
    BY <1>1 DEF Rests, AliveInv
  <2>. QED
    BY <1>1, <2>1, <2>2, <2>3 DEF Rests, AliveInv
<1>2. ASSUME NEW i, NEW j, Takes(i, j)
      PROVE  AliveInv'
  <2>1. alive' = alive /\ inserted' = inserted /\ mounted' = mounted /\ step' = step
    BY <1>2 DEF Takes
  <2>2. IsComponent(oldCh[i]) <=> IsComponent(newCh[j])
    BY <1>2 DEF Takes, SameVnode, IsComponent
  <2>3. /\ Waiting' = Waiting \ {i} /\ Done' = Done \cup {j} /\ i \in Waiting /\ oldCh' = oldCh
        /\ newCh'[j].elm = i /\ \A k \in Done : k # j /\ newCh'[k].elm = newCh[k].elm
        /\ \A k \in Done \cup {j} : IsComponent(newCh'[k]) <=> IsComponent(newCh[k])
    BY <1>2, TakesWhat
  <2>4. alive' = { newCh'[k].elm : k \in { l \in Done' : IsComponent(newCh'[l]) } }
                 \cup { k \in Waiting' : IsComponent(oldCh'[k]) }
    BY <2>1, <2>2, <2>3 DEF AliveInv
  <2>. QED
    BY <2>1, <2>4 DEF AliveInv
<1>3. ASSUME NEW j, NEW e, Makes(j, e)
      PROVE  AliveInv'
  <2>1. /\ alive' = IF IsComponent(newCh[j]) THEN alive \cup {nodes + 1} ELSE alive
        /\ inserted' = IF IsComponent(newCh[j]) THEN Append(inserted, nodes + 1) ELSE inserted
        /\ mounted' = mounted /\ step' = step /\ step # "done"
    BY <1>3 DEF Makes, CreateElm
  <2>3. /\ Waiting' = Waiting /\ Done' = Done \cup {j} /\ oldCh' = oldCh /\ nodes \in Nat
        /\ newCh'[j].elm = nodes + 1 /\ \A k \in Done : k # j /\ newCh'[k].elm = newCh[k].elm
        /\ \A k \in Done \cup {j} : IsComponent(newCh'[k]) <=> IsComponent(newCh[k])
    BY <1>3, MakesWhat
  <2>4. alive' = { newCh'[k].elm : k \in { l \in Done' : IsComponent(newCh'[l]) } }
                 \cup { k \in Waiting' : IsComponent(oldCh'[k]) }
    BY <2>1, <2>3 DEF AliveInv
  <2>5. \A k : k \in ToSet(inserted) \/ k = nodes + 1 => k \in ToSet(Append(inserted, nodes + 1))
    BY <2>3, AppendHolds DEF RefTypes
  <2>6. \A k \in alive' : k \in mounted' \/ k \in ToSet(inserted')
    BY <2>1, <2>5 DEF AliveInv
  <2>. QED
    BY <2>1, <2>4, <2>6 DEF AliveInv
<1>4. ASSUME NEW i, Removes(i)
      PROVE  AliveInv'
  <2>1. /\ alive' = alive \ {i} /\ inserted' = inserted /\ mounted' = mounted /\ step' = step
        /\ Waiting' = Waiting \ {i} /\ Done' = Done /\ newCh' = newCh /\ oldCh' = oldCh
    BY <1>4, OldElm, ListsStay DEF Removes
  <2>2. \A k \in Done : newCh[k].elm # i
    BY <1>4 DEF ElmInv, Removes
  <2>3. alive' = { newCh'[k].elm : k \in { l \in Done' : IsComponent(newCh'[l]) } }
                 \cup { k \in Waiting' : IsComponent(oldCh'[k]) }
    BY <2>1, <2>2 DEF AliveInv
  <2>. QED
    BY <2>1, <2>3 DEF AliveInv
<1>. QED
  BY <1>1, <1>2, <1>3, <1>4, Turns

\* What registering a node, and taking one back, does to $refs.
LEMMA AddRefIs ==
    ASSUME NEW rs, IsRefs(rs), NEW v, v.ref \in Refs, NEW e
    PROVE  /\ IsRefs(AddRef(rs, v, e))
           /\ \A r \in Refs :
                 /\ r # v.ref => AddRef(rs, v, e)[r] = rs[r]
                 /\ r = v.ref =>
                       /\ AddRef(rs, v, e)[r].array = v.inFor
                       /\ \A x : x \in AddRef(rs, v, e)[r].nodes <=>
                                    x = e \/ (v.inFor /\ rs[r].array /\ x \in rs[r].nodes)
<1>. DEFINE added == [array |-> v.inFor,
                      nodes |-> IF v.inFor /\ rs[v.ref].array THEN rs[v.ref].nodes \cup {e} ELSE {e}]
            next == [rs EXCEPT ![v.ref] = added]
<1>1. AddRef(rs, v, e) = next
  BY DEF AddRef, Refs
<1>2. added = [array |-> added.array, nodes |-> added.nodes]
  OBVIOUS
<1>3. DOMAIN rs = Refs /\ \A r \in Refs : rs[r] = [array |-> rs[r].array, nodes |-> rs[r].nodes]
  BY DEF IsRefs
<1>4. /\ added.array = v.inFor
      /\ \A x : x \in added.nodes <=> x = e \/ (v.inFor /\ rs[v.ref].array /\ x \in rs[v.ref].nodes)
  OBVIOUS
<1>. HIDE DEF added
<1>5. next = [r \in Refs |-> IF r = v.ref THEN added ELSE rs[r]]
  BY <1>3
<1>. HIDE DEF next
<1>6. \A r \in Refs : next[r] = IF r = v.ref THEN added ELSE rs[r]
  BY <1>5
<1>7. \A r \in Refs : next[r] = [array |-> next[r].array, nodes |-> next[r].nodes]
  BY <1>2, <1>3, <1>6, Zenon
<1>8. IsRefs(next)
  BY <1>5, <1>7 DEF IsRefs
<1>. QED
  BY <1>1, <1>4, <1>6, <1>8

LEMMA DropRefIs ==
    ASSUME NEW rs, IsRefs(rs), NEW v, v.ref \in Refs, NEW e
    PROVE  /\ IsRefs(DropRef(rs, v, e))
           /\ \A r \in Refs :
                 /\ r # v.ref => DropRef(rs, v, e)[r] = rs[r]
                 /\ r = v.ref =>
                       /\ DropRef(rs, v, e)[r].array = rs[r].array
                       /\ \A x : x \in DropRef(rs, v, e)[r].nodes <=> x \in rs[r].nodes /\ x # e
<1>. DEFINE dropped == [array |-> rs[v.ref].array, nodes |-> rs[v.ref].nodes \ {e}]
            next == [rs EXCEPT ![v.ref] = dropped]
<1>1. DOMAIN rs = Refs /\ \A r \in Refs : rs[r] = [array |-> rs[r].array, nodes |-> rs[r].nodes]
  BY DEF IsRefs
<1>2. [rs[v.ref] EXCEPT !.nodes = rs[v.ref].nodes \ {e}] = dropped
  <2>1. rs[v.ref] = [array |-> rs[v.ref].array, nodes |-> rs[v.ref].nodes]
    BY <1>1
  <2>. DEFINE a == rs[v.ref].array
              n == rs[v.ref].nodes
              m == rs[v.ref].nodes \ {e}
  <2>. HIDE DEF a, n, m
  <2>2. [[array |-> a, nodes |-> n] EXCEPT !.nodes = m] = [array |-> a, nodes |-> m]
    OBVIOUS
  <2>3. [rs[v.ref] EXCEPT !.nodes = m] = [array |-> a, nodes |-> m]
    BY <2>1, <2>2, Zenon DEF a, n
  <2>. QED
    BY <2>3 DEF a, m
<1>3. DropRef(rs, v, e) = next
  BY <1>2, Zenon DEF DropRef, Refs
<1>4. /\ dropped = [array |-> dropped.array, nodes |-> dropped.nodes]
      /\ dropped.array = rs[v.ref].array
      /\ \A x : x \in dropped.nodes <=> x \in rs[v.ref].nodes /\ x # e
  OBVIOUS
<1>. HIDE DEF dropped
<1>5. next = [r \in Refs |-> IF r = v.ref THEN dropped ELSE rs[r]]
  BY <1>1
<1>. HIDE DEF next
<1>6. \A r \in Refs : next[r] = IF r = v.ref THEN dropped ELSE rs[r]
  BY <1>5
<1>7. \A r \in Refs : next[r] = [array |-> next[r].array, nodes |-> next[r].nodes]
  BY <1>1, <1>4, <1>6, Zenon
<1>8. IsRefs(next)
  BY <1>5, <1>7 DEF IsRefs
<1>. QED
  BY <1>3, <1>4, <1>6, <1>8

\* The refs of vnodes: one of Refs or none, which no turn changes anything for.
LEMMA RefOfVNode ==
    ASSUME PatchTypes
    PROVE  /\ \A i \in DOMAIN oldCh : /\ oldCh[i].ref \in Refs \/ oldCh[i].ref = NoRef
                                      /\ oldCh[i].ref # NoRef => oldCh[i].data
           /\ \A j \in DOMAIN newCh : /\ newCh[j].ref \in Refs \/ newCh[j].ref = NoRef
                                      /\ newCh[j].ref # NoRef => newCh[j].data
           /\ NoRef \notin Refs
           /\ \A rs, v, e : v.ref = NoRef => AddRef(rs, v, e) = rs /\ DropRef(rs, v, e) = rs
BY DEF PatchTypes, IsVNode, Refs, AddRef, DropRef

LEMMA RefTypesStep == PatchTypes /\ FoundWaits /\ RefTypes /\ [PatchNext]_patchVars => RefTypes'
<1>. SUFFICES ASSUME PatchTypes, FoundWaits, RefTypes, [PatchNext]_patchVars
              PROVE  IsRefs(refs') /\ inserted' \in Seq(Nat)
  BY DEF RefTypes, IsRefs
<1>0. IsRefs(refs) /\ inserted \in Seq(Nat)
  BY DEF RefTypes
<1>1. ASSUME NEW rs, IsRefs(rs), NEW v, v.ref \in Refs \/ v.ref = NoRef, NEW e
      PROVE  IsRefs(AddRef(rs, v, e)) /\ IsRefs(DropRef(rs, v, e))
  <2>1. CASE v.ref \in Refs
    BY <1>1, <2>1, AddRefIs, DropRefIs
  <2>2. CASE v.ref = NoRef
    BY <1>1, <2>2 DEF AddRef, DropRef
  <2>. QED
    BY <1>1, <2>1, <2>2
<1>2. CASE Rests
  BY <1>0, <1>2 DEF Rests
<1>3. ASSUME NEW i, NEW j, Takes(i, j)
      PROVE  IsRefs(refs') /\ inserted' \in Seq(Nat)
  <2>1. i \in DOMAIN oldCh /\ j \in DOMAIN newCh
    BY <1>3, TakesWhat
  <2>. DEFINE o == oldCh[i]
              n == newCh[j]
              dropped == DropRef(refs, o, o.elm)
  <2>2. (o.ref \in Refs \/ o.ref = NoRef) /\ (n.ref \in Refs \/ n.ref = NoRef)
    BY <2>1, RefOfVNode
  <2>3. inserted' = inserted /\ refs' = UpdateRef(refs, o, n)
    BY <1>3 DEF Takes
  <2>. HIDE DEF o, n
  <2>4. IsRefs(dropped)
    BY <1>0, <1>1, <2>2
  <2>. HIDE DEF dropped
  <2>5. IsRefs(AddRef(dropped, n, o.elm))
    BY <1>1, <2>2, <2>4
  <2>6. refs' = AddRef(dropped, n, o.elm) \/ refs' = refs
    BY <2>3, Zenon DEF UpdateRef, dropped
  <2>. QED
    BY <1>0, <2>3, <2>5, <2>6, Zenon
<1>4. ASSUME NEW j, NEW e, Makes(j, e)
      PROVE  IsRefs(refs') /\ inserted' \in Seq(Nat)
  <2>1. j \in DOMAIN newCh /\ nodes \in Nat
    BY <1>4, MakesWhat
  <2>2. newCh[j].ref \in Refs \/ newCh[j].ref = NoRef
    BY <2>1, RefOfVNode
  <2>3. refs' = AddRef(refs, newCh[j], nodes')
    BY <1>4 DEF Makes, CreateElm
  <2>4. IsRefs(AddRef(refs, newCh[j], nodes'))
    BY <1>0, <1>1, <2>2
  <2>5. inserted' = inserted \/ inserted' = Append(inserted, nodes + 1)
    BY <1>4 DEF Makes, CreateElm
  <2>6. Append(inserted, nodes + 1) \in Seq(Nat)
    BY <1>0, <2>1
  <2>. QED
    BY <1>0, <2>3, <2>4, <2>5, <2>6, Zenon
<1>5. ASSUME NEW i, Removes(i)
      PROVE  IsRefs(refs') /\ inserted' \in Seq(Nat)
  <2>1. inserted' = inserted /\ (refs' = refs \/ refs' = DropRef(refs, oldCh[i], oldCh[i].elm))
    BY <1>5 DEF Removes
  <2>2. oldCh[i].ref \in Refs \/ oldCh[i].ref = NoRef
    BY <1>5, OldElm, RefOfVNode DEF Removes
  <2>3. IsRefs(DropRef(refs, oldCh[i], oldCh[i].elm))
    BY <1>0, <1>1, <2>2
  <2>. QED
    BY <1>0, <2>1, <2>3, Zenon
<1>. QED
  BY <1>2, <1>3, <1>4, <1>5, Turns

\* One ref in one turn.
LEMMA RefTaken ==
    ASSUME PatchTypes, RefTypes, ElmInv, RefInv, RefsDiffer, [PatchNext]_patchVars,
           NEW i, NEW j, Takes(i, j), NEW r \in Refs, InFor(r)' = InFor(r)
    PROVE  /\ \A e : e \in refs'[r].nodes <=> Named(r, e)'
           /\ refs'[r].nodes # {} => refs'[r].array = InFor(r)
<1>1. /\ i \in DOMAIN oldCh /\ oldCh[i].elm = i /\ j \in DOMAIN newCh \ Done
      /\ newCh'[j].elm = i /\ \A k \in Done : k # j /\ newCh'[k].elm = newCh[k].elm
      /\ Waiting' = Waiting \ {i} /\ Done' = Done \cup {j} /\ i \in Waiting
      /\ oldCh' = oldCh /\ \A k \in DOMAIN newCh : newCh'[k].ref = newCh[k].ref
      /\ Done \subseteq DOMAIN newCh
  BY TakesWhat
<1>2. /\ \A e : e \in refs[r].nodes <=> Named(r, e)
      /\ refs[r].nodes # {} => refs[r].array = InFor(r)
  BY DEF RefInv
<1>3. /\ oldCh[i].ref \in Refs \/ oldCh[i].ref = NoRef
      /\ newCh[j].ref \in Refs \/ newCh[j].ref = NoRef
      /\ NoRef \notin Refs /\ r # NoRef
      /\ oldCh[i].ref # NoRef => oldCh[i].data
      /\ newCh[j].ref # NoRef => newCh[j].data
  BY <1>1, RefOfVNode
<1>4. /\ \A k \in DOMAIN oldCh : oldCh[k].ref = r => oldCh[k].inFor = InFor(r)
      /\ \A k \in DOMAIN newCh : newCh[k].ref = r => newCh[k].inFor = InFor(r)
      /\ ~InFor(r) => /\ \A k, l \in DOMAIN oldCh : oldCh[k].ref = r /\ oldCh[l].ref = r => k = l
                      /\ \A k, l \in DOMAIN newCh : newCh[k].ref = r /\ newCh[l].ref = r => k = l
  BY <1>3, RefsSame
<1>5. \A k \in Done : newCh[k].elm # i
  BY <1>1 DEF ElmInv
<1>6. \A k \in Waiting : k \in DOMAIN oldCh
  BY OldElm
<1>t. /\ \A e : TakenOver(r, e)' <=> TakenOver(r, e) \/ (newCh[j].ref = r /\ e = i)
      /\ NoneYet(r)' <=> NoneYet(r) /\ newCh[j].ref # r
  BY <1>1 DEF TakenOver, NoneYet
<1>7. \A e : Named(r, e)' <=>
                \/ TakenOver(r, e) \/ (newCh[j].ref = r /\ e = i)
                \/ /\ e \in Waiting /\ e # i /\ oldCh[e].ref = r
                   /\ InFor(r) \/ (NoneYet(r) /\ newCh[j].ref # r)
  BY <1>1, <1>t DEF Named
<1>8. refs' = UpdateRef(refs, oldCh[i], newCh[j])
  BY DEF Takes
<1>9. IsRefs(refs)
  BY DEF RefTypes
<1>10. CASE oldCh[i].ref = newCh[j].ref
  <2>1. refs' = refs
    BY <1>8, <1>10 DEF UpdateRef
  <2>2. CASE oldCh[i].ref # r
    BY <1>2, <1>7, <1>10, <2>1, <2>2 DEF Named
  <2>3. CASE oldCh[i].ref = r
    <3>1. CASE InFor(r)
      <4>1. TakenOver(r, i) => \E k \in Done : newCh[k].elm = i
        BY DEF TakenOver
      <4>. QED
        BY <1>1, <1>2, <1>5, <1>7, <1>10, <2>1, <2>3, <3>1, <4>1 DEF Named
    <3>2. CASE ~InFor(r)
      <4>1. NoneYet(r) /\ \A e : ~TakenOver(r, e)
        BY <1>1, <1>4, <1>10, <2>3, <3>2 DEF NoneYet, TakenOver
      <4>2. \A k \in Waiting : oldCh[k].ref = r <=> k = i
        BY <1>1, <1>4, <1>6, <2>3, <3>2
      <4>. QED
        BY <1>1, <1>2, <1>7, <1>10, <2>1, <2>3, <3>2, <4>1, <4>2 DEF Named
    <3>. QED
      BY <3>1, <3>2
  <2>. QED
    BY <2>2, <2>3
<1>11. CASE oldCh[i].ref # newCh[j].ref
  <2>. DEFINE dropped == DropRef(refs, oldCh[i], i)
  <2>1. refs' = AddRef(dropped, newCh[j], i)
    <3>1. RefsApart(oldCh, newCh)
      BY RefsDifferIs
    <3>2. IsPatchable(oldCh[i])
      BY <1>1, <1>11, <3>1 DEF RefsApart, Takes, IsPatchable
    <3>3. newCh[j].data
      BY <1>1, <1>3, <1>11 DEF Takes, SameVnode
    <3>. QED
      BY <1>1, <1>8, <1>11, <3>2, <3>3 DEF UpdateRef
  <2>2. /\ IsRefs(dropped)
        /\ dropped[r].array = refs[r].array
        /\ \A e : e \in dropped[r].nodes <=> e \in refs[r].nodes /\ ~(r = oldCh[i].ref /\ e = i)
    <3>1. CASE oldCh[i].ref = NoRef
      BY <1>3, <1>9, <3>1, RefOfVNode, Zenon
    <3>2. CASE oldCh[i].ref \in Refs
      BY <1>9, <3>2, DropRefIs
    <3>. QED
      BY <1>3, <3>1, <3>2
  <2>. HIDE DEF dropped
  <2>3. CASE newCh[j].ref # r
    <3>1. refs'[r] = dropped[r]
      <4>1. CASE newCh[j].ref = NoRef
        BY <2>1, <4>1, RefOfVNode, Zenon
      <4>2. CASE newCh[j].ref \in Refs
        BY <2>1, <2>2, <2>3, <4>2, AddRefIs
      <4>. QED
        BY <1>3, <4>1, <4>2
    <3>2. \A e : Named(r, e)' <=> Named(r, e) /\ ~(r = oldCh[i].ref /\ e = i)
      <4>1. ~TakenOver(r, i)
        BY <1>5 DEF TakenOver
      <4>. QED
        BY <1>1, <1>7, <2>3, <4>1 DEF Named
    <3>3. \A e : e \in refs'[r].nodes <=> Named(r, e) /\ ~(r = oldCh[i].ref /\ e = i)
      BY <1>2, <2>2, <3>1
    <3>4. refs'[r].nodes # {} => refs[r].nodes # {}
      BY <2>2, <3>1
    <3>. QED
      BY <1>2, <2>2, <3>1, <3>2, <3>3, <3>4
  <2>4. CASE newCh[j].ref = r
    <3>1. /\ refs'[r].array = newCh[j].inFor
          /\ \A e : e \in refs'[r].nodes <=>
                       e = i \/ (newCh[j].inFor /\ refs[r].array /\ e \in refs[r].nodes)
      BY <1>11, <2>1, <2>2, <2>4, AddRefIs
    <3>2. newCh[j].inFor = InFor(r)
      BY <1>1, <1>4, <2>4
    <3>3. CASE InFor(r)
      <4>0. oldCh[i].ref # r
        BY <1>11, <2>4
      <4>1. \A e : e \in refs'[r].nodes <=> e \in refs[r].nodes \/ e = i
        BY <1>2, <3>1, <3>2, <3>3
      <4>2. \A e : Named(r, e)' <=> Named(r, e) \/ e = i
        BY <1>7, <2>4, <3>3, <4>0 DEF Named
      <4>. QED
        BY <1>2, <3>1, <3>2, <4>1, <4>2
    <3>4. CASE ~InFor(r)
      <4>1. \A e : ~TakenOver(r, e)
        BY <1>1, <1>4, <2>4, <3>4 DEF TakenOver
      <4>2. \A e : Named(r, e)' <=> e = i
        BY <1>7, <2>4, <3>4, <4>1
      <4>. QED
        BY <3>1, <3>2, <3>4, <4>2
    <3>. QED
      BY <3>3, <3>4
  <2>. QED
    BY <2>3, <2>4
<1>. QED
  BY <1>10, <1>11

LEMMA RefMade ==
    ASSUME PatchTypes, RefTypes, ElmInv, RefInv, RefsDiffer, [PatchNext]_patchVars,
           NEW j, NEW refElm, Makes(j, refElm), NEW r \in Refs, InFor(r)' = InFor(r)
    PROVE  /\ \A e : e \in refs'[r].nodes <=> Named(r, e)'
           /\ refs'[r].nodes # {} => refs'[r].array = InFor(r)
<1>. DEFINE made == nodes + 1
<1>1. /\ j \in DOMAIN newCh \ Done
      /\ newCh'[j].elm = made /\ \A k \in Done : k # j /\ newCh'[k].elm = newCh[k].elm
      /\ Waiting' = Waiting /\ Done' = Done \cup {j}
      /\ oldCh' = oldCh /\ \A k \in DOMAIN newCh : newCh'[k].ref = newCh[k].ref
      /\ Done \subseteq DOMAIN newCh
  BY MakesWhat
<1>2. /\ \A e : e \in refs[r].nodes <=> Named(r, e)
      /\ refs[r].nodes # {} => refs[r].array = InFor(r)
  BY DEF RefInv
<1>3. /\ newCh[j].ref \in Refs \/ newCh[j].ref = NoRef
      /\ NoRef \notin Refs /\ r # NoRef
  BY <1>1, RefOfVNode
<1>4. /\ \A k \in DOMAIN newCh : newCh[k].ref = r => newCh[k].inFor = InFor(r)
      /\ ~InFor(r) => \A k, l \in DOMAIN newCh : newCh[k].ref = r /\ newCh[l].ref = r => k = l
  BY <1>3, RefsSame
<1>5. refs' = AddRef(refs, newCh[j], made) /\ IsRefs(refs)
  BY DEF Makes, CreateElm, RefTypes
<1>. HIDE DEF made
<1>t. /\ \A e : TakenOver(r, e)' <=> TakenOver(r, e) \/ (newCh[j].ref = r /\ e = made)
      /\ NoneYet(r)' <=> NoneYet(r) /\ newCh[j].ref # r
  BY <1>1 DEF TakenOver, NoneYet
<1>6. \A e : Named(r, e)' <=>
                \/ TakenOver(r, e) \/ (newCh[j].ref = r /\ e = made)
                \/ /\ e \in Waiting /\ oldCh[e].ref = r
                   /\ InFor(r) \/ (NoneYet(r) /\ newCh[j].ref # r)
  BY <1>1, <1>t DEF Named
<1>7. CASE newCh[j].ref # r
  <2>1. refs'[r] = refs[r]
    <3>1. CASE newCh[j].ref = NoRef
      BY <1>5, <3>1, RefOfVNode, Zenon
    <3>2. CASE newCh[j].ref \in Refs
      BY <1>5, <1>7, <3>2, AddRefIs
    <3>. QED
      BY <1>3, <3>1, <3>2
  <2>2. \A e : Named(r, e)' <=> Named(r, e)
    BY <1>6, <1>7 DEF Named
  <2>. QED
    BY <1>2, <2>1, <2>2
<1>8. CASE newCh[j].ref = r
  <2>1. /\ refs'[r].array = newCh[j].inFor
        /\ \A e : e \in refs'[r].nodes <=>
                     e = made \/ (newCh[j].inFor /\ refs[r].array /\ e \in refs[r].nodes)
    BY <1>5, <1>8, AddRefIs
  <2>2. newCh[j].inFor = InFor(r)
    BY <1>1, <1>4, <1>8
  <2>3. CASE InFor(r)
    <3>1. \A e : e \in refs'[r].nodes <=> e \in refs[r].nodes \/ e = made
      BY <1>2, <2>1, <2>2, <2>3
    <3>2. \A e : Named(r, e)' <=> Named(r, e) \/ e = made
      BY <1>6, <1>8, <2>3 DEF Named
    <3>. QED
      BY <1>2, <2>1, <2>2, <3>1, <3>2
  <2>4. CASE ~InFor(r)
    <3>1. \A e : ~TakenOver(r, e)
      BY <1>1, <1>4, <1>8, <2>4 DEF TakenOver
    <3>2. \A e : Named(r, e)' <=> e = made
      BY <1>6, <1>8, <2>4, <3>1
    <3>. QED
      BY <2>1, <2>2, <2>4, <3>2
  <2>. QED
    BY <2>3, <2>4
<1>. QED
  BY <1>7, <1>8

LEMMA RefRemoved ==
    ASSUME PatchTypes, RefTypes, ElmInv, RefInv, RefsDiffer, [PatchNext]_patchVars,
           NEW i, Removes(i), NEW r \in Refs, InFor(r)' = InFor(r)
    PROVE  /\ \A e : e \in refs'[r].nodes <=> Named(r, e)'
           /\ refs'[r].nodes # {} => refs'[r].array = InFor(r)
<1>1. /\ i \in Waiting /\ i \in DOMAIN oldCh /\ oldCh[i].elm = i
      /\ Waiting' = Waiting \ {i} /\ Done' = Done /\ newCh' = newCh /\ oldCh' = oldCh
      /\ refs' = IF oldCh[i].data THEN DropRef(refs, oldCh[i], i) ELSE refs
  BY OldElm, ListsStay DEF Removes
<1>2. /\ \A e : e \in refs[r].nodes <=> Named(r, e)
      /\ refs[r].nodes # {} => refs[r].array = InFor(r)
  BY DEF RefInv
<1>3. /\ oldCh[i].ref \in Refs \/ oldCh[i].ref = NoRef
      /\ NoRef \notin Refs
      /\ oldCh[i].ref # NoRef => oldCh[i].data
  BY <1>1, RefOfVNode
<1>4. /\ refs'[r].array = refs[r].array
      /\ \A e : e \in refs'[r].nodes <=> e \in refs[r].nodes /\ ~(r = oldCh[i].ref /\ e = i)
  <2>1. CASE oldCh[i].ref = NoRef
    BY <1>1, <1>3, <2>1, RefOfVNode, Zenon
  <2>2. CASE oldCh[i].ref \in Refs
    <3>1. refs' = DropRef(refs, oldCh[i], i) /\ IsRefs(refs)
      BY <1>1, <1>3, <2>2 DEF RefTypes
    <3>. QED
      BY <2>2, <3>1, DropRefIs
  <2>. QED
    BY <1>3, <2>1, <2>2
<1>5. \A k \in Done : newCh[k].elm # i
  BY <1>1 DEF ElmInv
<1>6. \A e : Named(r, e)' <=> Named(r, e) /\ ~(r = oldCh[i].ref /\ e = i)
  <2>1. /\ \A e : TakenOver(r, e)' <=> TakenOver(r, e)
        /\ NoneYet(r)' <=> NoneYet(r)
        /\ ~TakenOver(r, i)
    BY <1>1, <1>5 DEF TakenOver, NoneYet
  <2>. QED
    BY <1>1, <2>1 DEF Named
<1>7. refs'[r].nodes # {} => refs[r].nodes # {}
  BY <1>4
<1>8. \A e : e \in refs'[r].nodes <=> Named(r, e) /\ ~(r = oldCh[i].ref /\ e = i)
  BY <1>2, <1>4
<1>. QED
  BY <1>2, <1>4, <1>6, <1>7, <1>8

LEMMA RefStep ==
    ASSUME PatchTypes, FoundWaits, RefTypes, ElmInv, RefInv, [PatchNext]_patchVars
    PROVE  RefInv'
<1>0. /\ RefsDiffer' <=> RefsDiffer
      /\ oldCh' = oldCh /\ DOMAIN newCh' = DOMAIN newCh
      /\ \A j \in DOMAIN newCh : newCh'[j].ref = newCh[j].ref /\ newCh'[j].inFor = newCh[j].inFor
  BY KeysStay, ListsStay
<1>. SUFFICES ASSUME RefsDiffer, NEW r \in Refs
              PROVE  /\ \A e : e \in refs'[r].nodes <=> Named(r, e)'
                     /\ refs'[r].nodes # {} => refs'[r].array = InFor(r)'
  BY <1>0 DEF RefInv
<1>1. InFor(r)' = InFor(r)
  BY <1>0 DEF InFor
<1>2. CASE Rests
  <2>1. \A e : Named(r, e)' <=> Named(r, e)
    BY <1>0, <1>1, <1>2 DEF Rests, Named, TakenOver, NoneYet
  <2>. QED
    BY <1>1, <1>2, <2>1 DEF Rests, RefInv
<1>3. ASSUME NEW i, NEW j, Takes(i, j)
      PROVE  /\ \A e : e \in refs'[r].nodes <=> Named(r, e)'
             /\ refs'[r].nodes # {} => refs'[r].array = InFor(r)'
  BY <1>1, <1>3, RefTaken
<1>4. ASSUME NEW j, NEW e, Makes(j, e)
      PROVE  /\ \A n : n \in refs'[r].nodes <=> Named(r, n)'
             /\ refs'[r].nodes # {} => refs'[r].array = InFor(r)'
  BY <1>1, <1>4, RefMade
<1>5. ASSUME NEW i, Removes(i)
      PROVE  /\ \A e : e \in refs'[r].nodes <=> Named(r, e)'
             /\ refs'[r].nodes # {} => refs'[r].array = InFor(r)'
  BY <1>1, <1>5, RefRemoved
<1>. QED
  BY <1>2, <1>3, <1>4, <1>5, Turns

LEMMA LiveStep == PatchBase /\ LiveInv /\ [PatchNext]_patchVars => LiveInv'
<1>. SUFFICES ASSUME PatchBase, LiveInv, [PatchNext]_patchVars, KeysDiffer(newCh)
              PROVE  RefTypes' /\ ElmInv' /\ AliveInv' /\ RefInv'
  BY KeysStay DEF LiveInv, PatchBase
<1>1. PatchTypes /\ FoundWaits /\ RefTypes /\ ElmInv /\ AliveInv /\ RefInv
  BY FoundIsWaiting DEF PatchBase, LiveInv
<1>. QED
  BY <1>1, RefTypesStep, ElmStep, AliveStep, RefStep

\* Whatever was moved, made and removed, in the end $refs and the components are
\* those of the new list: a removal never takes back what a new node registered, in a
\* v-for the array gains and loses one node each, and every component made on the way
\* is mounted.
THEOREM RefsAndComponentsFollow == PatchSpec => []RefsAndComponentsLive
<1>1. PatchInit => PatchBase /\ LiveInv
  BY PatchBaseInit, LiveInit
<1>2. PatchBase /\ LiveInv /\ [PatchNext]_patchVars => (PatchBase /\ LiveInv)'
  BY PatchBaseStep, LiveStep
<1>3. PatchBase /\ LiveInv => RefsAndComponentsLive
  <2>. SUFFICES ASSUME PatchBase, LiveInv, step = "done", KeysDiffer(newCh)
                PROVE  /\ RefsDiffer =>
                            \A r \in Refs :
                               LET own == { i \in DOMAIN newCh : newCh[i].ref = r } IN
                               /\ refs[r].nodes = { newCh[i].elm : i \in own }
                               /\ \A i \in own : refs[r].array = newCh[i].inFor
                       /\ alive = { newCh[i].elm : i \in { i \in DOMAIN newCh : IsComponent(newCh[i]) } }
                       /\ alive \subseteq mounted
    BY DEF RefsAndComponentsLive
  <2>1. Done = DOMAIN newCh /\ Waiting = {}
    BY DEF PatchBase, PatchTypes, Done, Waiting
  <2>2. AliveInv /\ RefInv
    BY DEF LiveInv
  <2>3. ASSUME RefsDiffer, NEW r \in Refs
        PROVE  LET own == { i \in DOMAIN newCh : newCh[i].ref = r } IN
               /\ refs[r].nodes = { newCh[i].elm : i \in own }
               /\ \A i \in own : refs[r].array = newCh[i].inFor
    <3>. DEFINE own == { i \in DOMAIN newCh : newCh[i].ref = r }
    <3>1. r # NoRef
      BY DEF Refs
    <3>2. /\ \A e : e \in refs[r].nodes <=> Named(r, e)
          /\ refs[r].nodes # {} => refs[r].array = InFor(r)
      BY <2>2, <2>3 DEF RefInv
    <3>3. \A e : Named(r, e) <=> \E i \in own : newCh[i].elm = e
      BY <2>1 DEF Named, TakenOver
    <3>4. refs[r].nodes = { newCh[i].elm : i \in own }
      BY <3>2, <3>3
    <3>5. \A i \in own : newCh[i].inFor = InFor(r)
      BY <2>3, <3>1, RefsSame DEF PatchBase
    <3>. QED
      BY <3>2, <3>4, <3>5
  <2>. QED
    BY <2>1, <2>2, <2>3 DEF AliveInv
<1>. QED
  BY <1>1, <1>2, <1>3, PTL DEF PatchSpec

-----------------------------------------------------------------------------
(* The document: where insertBefore and removeChild put the nodes.         *)

\* res is list with e put in at position p.
IsInserted(list, p, e, res) ==
    /\ res \in Seq(Nat) /\ Len(res) = Len(list) + 1
    /\ \A k \in 1..(Len(list) + 1) :
          res[k] = IF k < p THEN list[k] ELSE IF k = p THEN e ELSE list[k - 1]

LEMMA InsertAtInserts ==
    ASSUME NEW list \in Seq(Nat), NEW i, i \in 1..(Len(list) + 1), NEW e, e \in Nat
    PROVE  IsInserted(list, i, e, InsertAt(list, i, e))
<1>. DEFINE before == SubSeq(list, 1, i - 1)
            behind == SubSeq(list, i, Len(list))
            front == before \o <<e>>
            joined == front \o behind
<1>0. Len(list) \in Nat /\ i \in Nat /\ i >= 1 /\ i <= Len(list) + 1
  BY LenProperties
<1>1. /\ before \in Seq(Nat) /\ Len(before) = i - 1
      /\ \A k \in 1..(i - 1) : before[k] = list[k]
  BY SMT
<1>2. /\ behind \in Seq(Nat) /\ Len(behind) = Len(list) - i + 1
      /\ \A k \in 1..(Len(list) - i + 1) : behind[k] = list[i + k - 1]
  BY <1>0, SMT
<1>3. <<e>> \in Seq(Nat) /\ Len(<<e>>) = 1 /\ <<e>>[1] = e
  OBVIOUS
<1>. HIDE DEF before, behind
<1>4. /\ front \in Seq(Nat) /\ Len(front) = Len(before) + 1
      /\ \A k \in 1..(Len(before) + 1) :
            front[k] = IF k <= Len(before) THEN before[k] ELSE <<e>>[k - Len(before)]
  BY <1>1, <1>3, ConcatProperties DEF front
<1>. HIDE DEF front
<1>5. /\ joined \in Seq(Nat)
      /\ Len(joined) = Len(front) + Len(behind)
      /\ \A k \in 1..(Len(front) + Len(behind)) :
            joined[k] = IF k <= Len(front) THEN front[k] ELSE behind[k - Len(front)]
  BY <1>2, <1>4, ConcatProperties, Zenon DEF joined
<1>6. InsertAt(list, i, e) = joined
  BY DEF InsertAt, joined, front, before, behind
<1>. HIDE DEF joined
<1>7. Len(front) = i /\ Len(behind) = Len(list) - i + 1 /\ Len(front) + Len(behind) = Len(list) + 1
  BY <1>0, <1>1, <1>2, <1>4
<1>8. /\ \A k \in 1..(i - 1) : front[k] = list[k]
      /\ front[i] = e
  <2>1. i - (i - 1) = 1 /\ i \in 1..(Len(before) + 1) /\ ~(i <= Len(before))
    BY <1>0, <1>1
  <2>2. \A k \in 1..(i - 1) : k \in 1..(Len(before) + 1) /\ k <= Len(before)
    BY <1>0, <1>1
  <2>3. front[i] = <<e>>[i - (i - 1)]
    BY <1>1, <1>4, <2>1
  <2>4. \A k \in 1..(i - 1) : front[k] = list[k]
    BY <1>1, <1>4, <2>2
  <2>. QED
    BY <1>3, <2>1, <2>3, <2>4
<1>9. \A k \in 1..(Len(list) + 1) : joined[k] = IF k <= i THEN front[k] ELSE behind[k - i]
  BY <1>5, <1>7, Zenon
<1>10. ASSUME NEW k \in 1..(Len(list) + 1)
       PROVE  joined[k] = IF k < i THEN list[k] ELSE IF k = i THEN e ELSE list[k - 1]
  <2>1. CASE k <= i
    BY <1>0, <1>8, <1>9, <2>1
  <2>2. CASE k > i
    <3>1. k - i \in 1..(Len(list) - i + 1) /\ i + (k - i) - 1 = k - 1
      BY <1>0, <2>2
    <3>2. behind[k - i] = list[k - 1]
      BY <1>2, <3>1
    <3>. QED
      BY <1>0, <1>9, <2>2, <3>2
  <2>. QED
    BY <1>0, <2>1, <2>2
<1>11. joined \in Seq(Nat) /\ Len(joined) = Len(list) + 1
  BY <1>5, <1>7, Zenon
<1>. QED
  BY <1>6, <1>10, <1>11, Zenon DEF IsInserted

LEMMA IndexOfIs ==
    ASSUME NEW S, NEW list \in Seq(S), IsInjective(list), NEW p \in 1..Len(list)
    PROVE  IndexOf(list, list[p]) = p /\ list[p] \in ToSet(list)
<1>1. DOMAIN list = 1..Len(list)
  BY LenProperties
<1>. QED
  BY <1>1 DEF IndexOf, IsInjective, ToSet

\* The second half of insertBefore: where a node goes that is not in the document.
PutBefore(list, e, refElm) ==
    IF refElm = None THEN Append(list, e) ELSE InsertAt(list, IndexOf(list, refElm), e)

\* Position p is that of the reference node, or the end when there is none.
Fits(list, p, refElm) ==
    /\ p \in 1..(Len(list) + 1)
    /\ \/ p <= Len(list) /\ list[p] = refElm /\ refElm # None
       \/ p = Len(list) + 1 /\ refElm = None

LEMMA PutBeforeInserts ==
    ASSUME NEW list \in Seq(Nat), IsInjective(list), NEW e \in Nat, NEW refElm,
           NEW p, Fits(list, p, refElm)
    PROVE  IsInserted(list, p, e, PutBefore(list, e, refElm))
<1>0. Len(list) \in Nat /\ p \in 1..(Len(list) + 1)
  BY LenProperties DEF Fits
<1>1. CASE p <= Len(list) /\ list[p] = refElm /\ refElm # None
  <2>1. p \in 1..Len(list)
    BY <1>0, <1>1
  <2>2. IndexOf(list, list[p]) = p /\ list[p] \in ToSet(list)
    BY <2>1, IndexOfIs
  <2>3. PutBefore(list, e, refElm) = InsertAt(list, p, e)
    BY <1>1, <2>2 DEF PutBefore
  <2>4. IsInserted(list, p, e, InsertAt(list, p, e))
    BY <1>0, InsertAtInserts
  <2>. QED
    BY <2>3, <2>4, Zenon
<1>2. CASE p = Len(list) + 1 /\ refElm = None
  <2>. DEFINE res == Append(list, e)
  <2>1. PutBefore(list, e, refElm) = res
    BY <1>2 DEF PutBefore
  <2>2. /\ res \in Seq(Nat) /\ Len(res) = Len(list) + 1
        /\ \A k \in 1..Len(list) : res[k] = list[k]
        /\ res[Len(list) + 1] = e
    BY AppendProperties
  <2>. HIDE DEF res
  <2>3. ASSUME NEW k \in 1..(Len(list) + 1)
        PROVE  res[k] = IF k < p THEN list[k] ELSE IF k = p THEN e ELSE list[k - 1]
    <3>1. CASE k = p
      BY <1>0, <1>2, <2>2, <3>1
    <3>2. CASE k < p
      <4>1. k \in 1..Len(list)
        BY <1>0, <1>2, <3>2
      <4>2. res[k] = list[k]
        BY <2>2, <4>1, Zenon
      <4>. QED
        BY <3>2, <4>2
    <3>. QED
      BY <1>0, <1>2, <3>1, <3>2
  <2>. QED
    BY <2>1, <2>2, <2>3 DEF IsInserted
<1>. QED
  BY <1>1, <1>2 DEF Fits

LEMMA WithoutAt ==
    ASSUME NEW list \in Seq(Nat), IsInjective(list), NEW q \in 1..Len(list)
    PROVE  Without(list, list[q]) = RemoveAt(list, q)
BY IndexOfIs DEF Without

LEMMA WithoutAbsent ==
    ASSUME NEW list, NEW e, e \notin ToSet(list)
    PROVE  Without(list, e) = list
BY DEF Without

LEMMA InsertBeforeIs ==
    ASSUME NEW list, NEW e, NEW refElm, NEW rest \in Seq(Nat), rest = Without(list, e),
           NEW p, Fits(rest, p, refElm)
    PROVE  InsertBefore(list, e, refElm) = PutBefore(rest, e, refElm)
<1>1. refElm # None => refElm \in ToSet(rest)
  <2>1. Len(rest) \in Nat /\ DOMAIN rest = 1..Len(rest)
    BY LenProperties
  <2>. QED
    BY <2>1 DEF Fits, ToSet
<1>. QED
  BY <1>1 DEF InsertBefore, PutBefore

LEMMA InsertBeforeNew ==
    ASSUME NEW list \in Seq(Nat), IsInjective(list), NEW e \in Nat, e \notin ToSet(list),
           NEW refElm, NEW p, Fits(list, p, refElm)
    PROVE  IsInserted(list, p, e, InsertBefore(list, e, refElm))
<1>0. Without(list, e) = list
  BY WithoutAbsent
<1>1. InsertBefore(list, e, refElm) = PutBefore(list, e, refElm)
  BY <1>0, InsertBeforeIs
<1>. QED
  BY <1>1, PutBeforeInserts

\* res is list with the node at q moved left to p, or the one at q moved right to p.
IsMovedLeft(list, q, p, res) ==
    /\ res \in Seq(Nat) /\ Len(res) = Len(list)
    /\ \A k \in 1..Len(list) :
          res[k] = IF k < p \/ k > q THEN list[k] ELSE IF k = p THEN list[q] ELSE list[k - 1]
IsMovedRight(list, q, p, res) ==
    /\ res \in Seq(Nat) /\ Len(res) = Len(list)
    /\ \A k \in 1..Len(list) :
          res[k] = IF k < q \/ k > p THEN list[k] ELSE IF k = p THEN list[q] ELSE list[k + 1]

\* A node of the document goes to the left, before the node at position p.
LEMMA InsertBeforeLeft ==
    ASSUME NEW list \in Seq(Nat), IsInjective(list), NEW q \in 1..Len(list), NEW p \in 1..(q - 1),
           list[p] # None
    PROVE  IsMovedLeft(list, q, p, InsertBefore(list, list[q], list[p]))
<1>. DEFINE rest == RemoveAt(list, q)
<1>0. Len(list) \in Nat /\ list[q] \in Nat /\ DOMAIN list = 1..Len(list)
  BY LenProperties, ElementOfSeq
<1>1. /\ rest \in Seq(Nat) /\ Len(rest) = Len(list) - 1 /\ IsInjective(rest)
      /\ \A k \in 1..(Len(list) - 1) : rest[k] = IF k < q THEN list[k] ELSE list[k + 1]
  BY RemoveAtProperties, RemoveAtInjective
<1>2. Without(list, list[q]) = rest
  BY WithoutAt
<1>. HIDE DEF rest
<1>3. Fits(rest, p, list[p])
  <2>1. p \in 1..(Len(list) - 1) /\ p < q /\ p \in 1..(Len(rest) + 1) /\ p <= Len(rest)
    BY <1>0, <1>1
  <2>2. rest[p] = list[p]
    BY <1>1, <2>1, Zenon
  <2>. QED
    BY <2>1, <2>2 DEF Fits
<1>. DEFINE res == InsertBefore(list, list[q], list[p])
<1>4. res = PutBefore(rest, list[q], list[p])
  BY <1>1, <1>2, <1>3, InsertBeforeIs
<1>. HIDE DEF res
<1>5. /\ res \in Seq(Nat) /\ Len(res) = Len(rest) + 1
      /\ \A k \in 1..(Len(rest) + 1) :
            res[k] = IF k < p THEN rest[k] ELSE IF k = p THEN list[q] ELSE rest[k - 1]
  <2>1. IsInserted(rest, p, list[q], PutBefore(rest, list[q], list[p]))
    BY <1>0, <1>1, <1>3, PutBeforeInserts
  <2>. QED
    BY <1>4, <2>1, Zenon DEF IsInserted
<1>6. ASSUME NEW k \in 1..Len(list)
      PROVE  res[k] = IF k < p \/ k > q THEN list[k] ELSE IF k = p THEN list[q] ELSE list[k - 1]
  <2>1. res[k] = IF k < p THEN rest[k] ELSE IF k = p THEN list[q] ELSE rest[k - 1]
    BY <1>0, <1>1, <1>5
  <2>2. CASE k < p
    <3>1. rest[k] = list[k]
      <4>1. k \in 1..(Len(list) - 1) /\ k < q
        BY <1>0, <2>2
      <4>. QED
        BY <1>1, <4>1
    <3>. QED
      BY <1>0, <2>1, <2>2, <3>1
  <2>3. CASE k = p
    BY <1>0, <2>1, <2>3
  <2>4. CASE k > p
    <3>1. k - 1 \in 1..(Len(list) - 1) /\ (k - 1 < q <=> k <= q) /\ (k - 1) + 1 = k
      BY <1>0, <2>4
    <3>2. rest[k - 1] = IF k <= q THEN list[k - 1] ELSE list[k]
      BY <1>1, <3>1
    <3>. QED
      BY <1>0, <2>1, <2>4, <3>2
  <2>. QED
    BY <1>0, <2>2, <2>3, <2>4
<1>7. res \in Seq(Nat) /\ Len(res) = Len(list)
  BY <1>0, <1>1, <1>5
<1>8. IsMovedLeft(list, q, p, res)
  BY <1>6, <1>7, Zenon DEF IsMovedLeft
<1>. QED
  BY <1>8 DEF res

\* A node of the document goes to the right, behind the node at position p.
LEMMA InsertBeforeRight ==
    ASSUME NEW list \in Seq(Nat), IsInjective(list), NEW p \in 1..Len(list), NEW q \in 1..(p - 1),
           NEW refElm, refElm = IF p < Len(list) THEN list[p + 1] ELSE None,
           \A k \in 1..Len(list) : list[k] # None
    PROVE  IsMovedRight(list, q, p, InsertBefore(list, list[q], refElm))
<1>. DEFINE rest == RemoveAt(list, q)
<1>0. Len(list) \in Nat /\ q \in 1..Len(list) /\ list[q] \in Nat /\ DOMAIN list = 1..Len(list)
  BY LenProperties, ElementOfSeq
<1>1. /\ rest \in Seq(Nat) /\ Len(rest) = Len(list) - 1 /\ IsInjective(rest)
      /\ ToSet(rest) = ToSet(list) \ {list[q]}
      /\ \A k \in 1..(Len(list) - 1) : rest[k] = IF k < q THEN list[k] ELSE list[k + 1]
  BY <1>0, RemoveAtProperties, RemoveAtInjective
<1>2. Without(list, list[q]) = rest
  BY <1>0, WithoutAt
<1>. HIDE DEF rest
<1>3. Fits(rest, p, refElm)
  <2>1. CASE p < Len(list)
    <3>1. p \in 1..(Len(list) - 1) /\ ~(p < q) /\ p <= Len(rest) /\ p \in 1..(Len(rest) + 1)
      BY <1>0, <1>1, <2>1
    <3>2. rest[p] = list[p + 1]
      BY <1>1, <3>1
    <3>3. list[p + 1] # None
      BY <1>0, <2>1
    <3>. QED
      BY <2>1, <3>1, <3>2, <3>3 DEF Fits
  <2>2. CASE p = Len(list)
    <3>1. refElm = None /\ p = Len(rest) + 1
      BY <1>0, <1>1, <2>2
    <3>2. p \in 1..(Len(rest) + 1)
      BY <1>0, <3>1
    <3>. QED
      BY <3>1, <3>2, Zenon DEF Fits
  <2>3. p < Len(list) \/ p = Len(list)
    <3>1. Len(list) \in Nat
      BY <1>0, Zenon
    <3>. DEFINE n == Len(list)
    <3>. HIDE DEF n
    <3>2. n \in Nat /\ p \in 1..n
      BY <3>1, Zenon DEF n
    <3>3. p < n \/ p = n
      BY <3>2
    <3>. QED
      BY <3>3 DEF n
  <2>. QED
    BY <2>1, <2>2, <2>3, Zenon
<1>. DEFINE res == InsertBefore(list, list[q], refElm)
<1>4. res = PutBefore(rest, list[q], refElm)
  BY <1>1, <1>2, <1>3, InsertBeforeIs
<1>. HIDE DEF res
<1>5. /\ res \in Seq(Nat) /\ Len(res) = Len(rest) + 1
      /\ \A k \in 1..(Len(rest) + 1) :
            res[k] = IF k < p THEN rest[k] ELSE IF k = p THEN list[q] ELSE rest[k - 1]
  <2>1. IsInserted(rest, p, list[q], PutBefore(rest, list[q], refElm))
    BY <1>0, <1>1, <1>3, PutBeforeInserts
  <2>. QED
    BY <1>4, <2>1, Zenon DEF IsInserted
<1>6. ASSUME NEW k \in 1..Len(list)
      PROVE  res[k] = IF k < q \/ k > p THEN list[k] ELSE IF k = p THEN list[q] ELSE list[k + 1]
  <2>1. res[k] = IF k < p THEN rest[k] ELSE IF k = p THEN list[q] ELSE rest[k - 1]
    BY <1>0, <1>1, <1>5
  <2>2. CASE k < p
    <3>0. k \in 1..(Len(list) - 1)
      BY <1>0, <2>2
    <3>1. rest[k] = IF k < q THEN list[k] ELSE list[k + 1]
      BY <1>1, <3>0, Zenon
    <3>. QED
      BY <1>0, <2>1, <2>2, <3>1
  <2>3. CASE k = p
    BY <1>0, <2>1, <2>3
  <2>4. CASE k > p
    <3>1. k - 1 \in 1..(Len(list) - 1) /\ ~(k - 1 < q) /\ (k - 1) + 1 = k
      BY <1>0, <2>4
    <3>2. rest[k - 1] = list[k]
      BY <1>1, <3>1
    <3>. QED
      BY <1>0, <2>1, <2>4, <3>2
  <2>. QED
    BY <1>0, <2>2, <2>3, <2>4
<1>7. res \in Seq(Nat) /\ Len(res) = Len(list)
  BY <1>0, <1>1, <1>5
<1>8. IsMovedRight(list, q, p, res)
  BY <1>6, <1>7, Zenon DEF IsMovedRight
<1>. QED
  BY <1>8 DEF res

\* The last position of the document that still is the old list's.
LastOld == ne + (Len(childNodes) - Len(newCh))

DocTypes ==
    /\ childNodes \in Seq(Nat) /\ IsInjective(childNodes)
    /\ \A p \in 1..Len(childNodes) : childNodes[p] \in 1..nodes

\* From the front up to ns and from the back down to ne the document is the new
\* list; between them it is the old one's vnodes that still wait, in their order.
FrontFits == \A j \in 1..(ns - 1) : childNodes[j] = newCh[j].elm
BackFits == \A j \in (ne + 1)..Len(newCh) :
            childNodes[j + (Len(childNodes) - Len(newCh))] = newCh[j].elm
MiddleWaits ==
    IF sameRoot
    THEN /\ \A p \in ns..LastOld : childNodes[p] \in Waiting
         /\ \A i \in Waiting : \E p \in ns..LastOld : childNodes[p] = i
         /\ \A p, q \in ns..LastOld : p < q => childNodes[p] < childNodes[q]
    ELSE /\ LastOld = ns - 1
         /\ \A p \in 1..Len(childNodes) : childNodes[p] > Len(oldCh)

DocInv ==
    KeysDiffer(newCh) =>
        /\ DocTypes
        /\ step # "replace" => LastOld >= ns - 1 /\ FrontFits /\ BackFits /\ MiddleWaits

LEMMA FirstWaits ==
    ASSUME PatchTypes, DocTypes, MiddleWaits, sameRoot, os \in Waiting
    PROVE  ns <= LastOld /\ childNodes[ns] = os
<1>1. PICK p \in ns..LastOld : childNodes[p] = os
  BY DEF MiddleWaits
<1>2. ns \in Int /\ LastOld \in Int /\ os \in Int
  BY LenProperties DEF DocTypes, PatchTypes, LastOld
<1>3. ns \in ns..LastOld /\ p \in Int /\ ns <= p
  BY <1>1, <1>2
<1>4. childNodes[ns] \in Waiting
  BY <1>3 DEF MiddleWaits
<1>5. childNodes[ns] \in Int /\ childNodes[ns] >= os
  BY <1>2, <1>4 DEF Waiting, PatchTypes
<1>6. ns < p => childNodes[ns] < childNodes[p]
  BY <1>1, <1>3 DEF MiddleWaits
<1>. QED
  BY <1>1, <1>2, <1>3, <1>5, <1>6

LEMMA LastWaits ==
    ASSUME PatchTypes, DocTypes, MiddleWaits, sameRoot, oe \in Waiting
    PROVE  ns <= LastOld /\ childNodes[LastOld] = oe
<1>1. PICK p \in ns..LastOld : childNodes[p] = oe
  BY DEF MiddleWaits
<1>2. ns \in Int /\ LastOld \in Int /\ oe \in Int
  BY LenProperties DEF DocTypes, PatchTypes, LastOld
<1>3. LastOld \in ns..LastOld /\ p \in Int /\ p <= LastOld
  BY <1>1, <1>2
<1>4. childNodes[LastOld] \in Waiting
  BY <1>3 DEF MiddleWaits
<1>5. childNodes[LastOld] \in Int /\ childNodes[LastOld] <= oe
  BY <1>2, <1>4 DEF Waiting, PatchTypes
<1>6. p < LastOld => childNodes[p] < childNodes[LastOld]
  BY <1>1, <1>3 DEF MiddleWaits
<1>. QED
  BY <1>1, <1>2, <1>3, <1>5, <1>6

LEMMA NoneWaits ==
    ASSUME PatchTypes, DocTypes, MiddleWaits, LastOld >= ns - 1, sameRoot => Waiting = {}
    PROVE  LastOld = ns - 1
<1>1. ns \in Int /\ LastOld \in Int
  BY LenProperties DEF DocTypes, PatchTypes, LastOld
<1>2. CASE sameRoot
  <2>1. ~(ns \in ns..LastOld)
    BY <1>2 DEF MiddleWaits
  <2>. QED
    BY <1>1, <2>1
<1>. QED
  BY <1>2 DEF MiddleWaits

DocShape == DocTypes /\ LastOld >= ns - 1 /\ FrontFits /\ BackFits /\ MiddleWaits

LEMMA DocNumbers ==
    ASSUME PatchTypes, DocTypes
    PROVE  /\ Len(childNodes) \in Nat /\ DOMAIN childNodes = 1..Len(childNodes)
           /\ Len(newCh) \in Nat /\ Len(oldCh) \in Nat /\ nodes \in Nat
           /\ ns \in Nat /\ ne \in Nat /\ ns >= 1 /\ ne <= Len(newCh)
           /\ os \in Nat /\ oe \in Nat /\ os >= 1 /\ oe <= Len(oldCh) /\ nodes >= Len(oldCh)
           /\ LastOld \in Int /\ LastOld <= Len(childNodes)
           /\ LastOld = ne + (Len(childNodes) - Len(newCh))
           /\ DOMAIN newCh = 1..Len(newCh)
           /\ \A p \in 1..Len(childNodes) : childNodes[p] \in Nat
<1>1. Len(childNodes) \in Nat /\ DOMAIN childNodes = 1..Len(childNodes)
  BY LenProperties DEF DocTypes
<1>2. \A p \in 1..Len(childNodes) : childNodes[p] \in Nat
  BY ElementOfSeq DEF DocTypes
<1>. QED
  BY <1>1, <1>2 DEF PatchTypes, LastOld

\* The new vnodes in front of ns and behind ne are done.
LEMMA EndsAreDone ==
    ASSUME PatchTypes
    PROVE  /\ ns <= ne + 1
           /\ \A j \in 1..(ns - 1) : j \in Done
           /\ \A j \in (ne + 1)..Len(newCh) : j \in Done
BY DEF PatchTypes, Done

LEMMA NodeAdded ==
    ASSUME PatchTypes, DocShape, [PatchNext]_patchVars, NEW e, Makes(ns, e),
           ns' = ns + 1, ne' = ne, IsInserted(childNodes, ns, nodes + 1, childNodes')
    PROVE  DocShape'
<1>0. DocTypes
  BY DEF DocShape
<1>. DEFINE L == Len(childNodes)
            N == Len(newCh)
<1>1. /\ L \in Nat /\ DOMAIN childNodes = 1..L /\ N \in Nat /\ nodes \in Nat
      /\ ns \in Nat /\ ne \in Nat /\ ns >= 1 /\ ne <= N /\ ns <= ne
      /\ LastOld \in Int /\ LastOld <= L /\ LastOld = ne + (L - N) /\ LastOld >= ns - 1
      /\ nodes >= Len(oldCh) /\ Len(oldCh) \in Nat
  BY <1>0, DocNumbers DEF DocShape, Makes
<1>2. /\ childNodes' \in Seq(Nat) /\ Len(childNodes') = L + 1
      /\ \A k \in 1..(L + 1) :
            childNodes'[k] = IF k < ns THEN childNodes[k]
                             ELSE IF k = ns THEN nodes + 1 ELSE childNodes[k - 1]
  BY DEF IsInserted
<1>3. /\ nodes' = nodes + 1 /\ Waiting' = Waiting /\ Len(newCh') = N
      /\ newCh'[ns].elm = nodes + 1 /\ \A k \in Done : newCh'[k].elm = newCh[k].elm
      /\ oldCh' = oldCh /\ sameRoot' = sameRoot
  BY MakesWhat, ListsStay
<1>4. DOMAIN childNodes' = 1..(L + 1)
  BY <1>2, LenProperties
<1>5. /\ \A p \in 1..L : childNodes[p] \in 1..nodes
      /\ \A p, q \in 1..L : childNodes[p] = childNodes[q] => p = q
  BY <1>0, <1>1 DEF DocTypes, IsInjective
<1>. HIDE DEF L, N
<1>6. \A k \in 1..(L + 1) :
         /\ k < ns => k \in 1..L /\ childNodes'[k] = childNodes[k]
         /\ k = ns => childNodes'[k] = nodes + 1
         /\ k > ns => k - 1 \in 1..L /\ childNodes'[k] = childNodes[k - 1]
  BY <1>1, <1>2
<1>7. DocTypes'
  <2>0. \A n \in 1..nodes : n \in 1..(nodes + 1)
    BY <1>1
  <2>1. ASSUME NEW p \in 1..(L + 1)
        PROVE  childNodes'[p] \in 1..(nodes + 1)
    <3>1. CASE p = ns
      BY <1>1, <1>6, <3>1
    <3>2. CASE p < ns
      <4>1. p \in 1..L /\ childNodes'[p] = childNodes[p]
        BY <1>6, <3>2
      <4>. QED
        BY <1>5, <2>0, <4>1
    <3>3. CASE p > ns
      <4>1. p - 1 \in 1..L /\ childNodes'[p] = childNodes[p - 1]
        BY <1>6, <3>3
      <4>. QED
        BY <1>5, <2>0, <4>1
    <3>. QED
      BY <1>1, <3>1, <3>2, <3>3
  <2>2. ASSUME NEW p \in 1..(L + 1), NEW q \in 1..(L + 1), p < q, childNodes'[p] = childNodes'[q]
        PROVE  FALSE
    <3>1. CASE p = ns \/ q = ns
      BY <1>1, <1>5, <1>6, <2>2, <3>1
    <3>2. CASE p # ns /\ q # ns
      BY <1>1, <1>5, <1>6, <2>2, <3>2
    <3>. QED
      BY <3>1, <3>2
  <2>3. \A p, q \in 1..(L + 1) : childNodes'[p] = childNodes'[q] => p = q
    BY <1>1, <2>2
  <2>4. (\A p \in 1..Len(childNodes) : childNodes[p] \in 1..nodes)'
    BY <1>2, <1>3, <2>1
  <2>5. IsInjective(childNodes)'
    BY <1>4, <2>3 DEF IsInjective
  <2>. QED
    BY <1>2, <2>4, <2>5 DEF DocTypes
<1>8. LastOld' = LastOld + 1
  BY <1>1, <1>2, <1>3 DEF LastOld, L, N
<1>9. FrontFits'
  <2>1. ASSUME NEW j \in 1..ns
        PROVE  childNodes'[j] = newCh'[j].elm
    <3>1. j \in 1..(L + 1)
      BY <1>1
    <3>2. CASE j = ns
      BY <1>3, <1>6, <3>1, <3>2
    <3>3. CASE j < ns
      <4>1. j \in 1..(ns - 1)
        BY <1>1, <3>3
      <4>2. j \in Done /\ childNodes[j] = newCh[j].elm
        BY <4>1, EndsAreDone DEF DocShape, FrontFits
      <4>. QED
        BY <1>3, <1>6, <3>1, <3>3, <4>2
    <3>. QED
      BY <1>1, <3>2, <3>3
  <2>. QED
    BY <1>1, <2>1 DEF FrontFits
<1>10. BackFits'
  <2>1. ASSUME NEW j \in (ne + 1)..N
        PROVE  childNodes'[j + ((L + 1) - N)] = newCh'[j].elm
    <3>1. j \in Done /\ childNodes[j + (L - N)] = newCh[j].elm
      BY <2>1, EndsAreDone DEF DocShape, BackFits, L, N
    <3>2. /\ j + ((L + 1) - N) \in 1..(L + 1) /\ j + ((L + 1) - N) > ns
          /\ (j + ((L + 1) - N)) - 1 = j + (L - N)
      BY <1>1
    <3>. QED
      BY <1>3, <1>6, <3>1, <3>2
  <2>. QED
    BY <1>2, <1>3, <2>1 DEF BackFits
<1>11. MiddleWaits'
  <2>1. CASE sameRoot
    <3>0. /\ \A p \in ns..LastOld : childNodes[p] \in Waiting
          /\ \A i \in Waiting : \E p \in ns..LastOld : childNodes[p] = i
          /\ \A p, q \in ns..LastOld : p < q => childNodes[p] < childNodes[q]
      BY <2>1 DEF DocShape, MiddleWaits
    <3>1. \A p \in (ns + 1)..(LastOld + 1) : p - 1 \in ns..LastOld /\ childNodes'[p] = childNodes[p - 1]
      BY <1>1, <1>6
    <3>2. \A p \in (ns + 1)..(LastOld + 1) : childNodes'[p] \in Waiting
      BY <3>0, <3>1
    <3>3. ASSUME NEW i \in Waiting
          PROVE  \E p \in (ns + 1)..(LastOld + 1) : childNodes'[p] = i
      <4>1. PICK p \in ns..LastOld : childNodes[p] = i
        BY <3>0
      <4>2. p + 1 \in (ns + 1)..(LastOld + 1) /\ (p + 1) - 1 = p
        BY <1>1
      <4>. QED
        BY <3>1, <4>1, <4>2
    <3>4. ASSUME NEW p \in (ns + 1)..(LastOld + 1), NEW q \in (ns + 1)..(LastOld + 1), p < q
          PROVE  childNodes'[p] < childNodes'[q]
      <4>1. p - 1 \in ns..LastOld /\ q - 1 \in ns..LastOld /\ p - 1 < q - 1
        BY <1>1, <3>4
      <4>2. childNodes[p - 1] < childNodes[q - 1]
        BY <3>0, <4>1
      <4>. QED
        BY <3>1, <4>2
    <3>. QED
      BY <1>3, <1>8, <2>1, <3>2, <3>3, <3>4 DEF MiddleWaits
  <2>2. CASE ~sameRoot
    <3>1. LastOld = ns - 1 /\ \A p \in 1..L : childNodes[p] > Len(oldCh)
      BY <2>2 DEF DocShape, MiddleWaits, L
    <3>2. \A p \in 1..(L + 1) : childNodes'[p] > Len(oldCh)
      BY <1>1, <1>6, <3>1
    <3>. QED
      BY <1>1, <1>2, <1>3, <1>8, <2>2, <3>1, <3>2 DEF MiddleWaits
  <2>. QED
    BY <2>1, <2>2
<1>. QED
  BY <1>1, <1>7, <1>8, <1>9, <1>10, <1>11 DEF DocShape

\* The waiting node at position q becomes that of the first new vnode: it moves left
\* to ns, what stood between moves one to the right.
LEMMA FrontTaken ==
    ASSUME PatchTypes, DocShape, [PatchNext]_patchVars, NEW i, Takes(i, ns),
           ns' = ns + 1, ne' = ne,
           NEW q \in ns..LastOld, childNodes[q] = i,
           IsMovedLeft(childNodes, q, ns, childNodes')
    PROVE  DocShape'
<1>m. /\ childNodes' \in Seq(Nat) /\ Len(childNodes') = Len(childNodes)
      /\ \A k \in 1..Len(childNodes) :
            childNodes'[k] = IF k < ns \/ k > q THEN childNodes[k]
                             ELSE IF k = ns THEN childNodes[q] ELSE childNodes[k - 1]
  BY DEF IsMovedLeft
<1>0. DocTypes
  BY DEF DocShape
<1>. DEFINE L == Len(childNodes)
            N == Len(newCh)
<1>1. /\ L \in Nat /\ DOMAIN childNodes = 1..L /\ N \in Nat
      /\ ns \in Nat /\ ne \in Nat /\ ns >= 1 /\ ne <= N /\ ns <= ne
      /\ LastOld \in Int /\ LastOld <= L /\ LastOld = ne + (L - N)
      /\ q \in Nat /\ ns <= q /\ q <= LastOld /\ sameRoot
  BY <1>0, DocNumbers DEF Takes
<1>2. /\ nodes' = nodes /\ Waiting' = Waiting \ {i} /\ Len(newCh') = N
      /\ newCh'[ns].elm = i /\ \A k \in Done : newCh'[k].elm = newCh[k].elm
      /\ sameRoot' = sameRoot
  BY TakesWhat, ListsStay DEF Takes
<1>3. /\ \A p \in 1..L : childNodes[p] \in 1..nodes
      /\ \A p, r \in 1..L : childNodes[p] = childNodes[r] => p = r
  BY <1>0, <1>1 DEF DocTypes, IsInjective
<1>. DEFINE src(k) == IF k < ns \/ k > q THEN k ELSE IF k = ns THEN q ELSE k - 1
<1>4. ASSUME NEW k \in 1..L
      PROVE  src(k) \in 1..L /\ childNodes'[k] = childNodes[src(k)]
  BY <1>1, <1>4, <1>m
<1>5. ASSUME NEW k \in 1..L, NEW l \in 1..L, src(k) = src(l)
      PROVE  k = l
  BY <1>1, <1>5
<1>6. ASSUME NEW k \in (ns + 1)..LastOld
      PROVE  src(k) \in ns..LastOld /\ src(k) # q /\ k \in 1..L
  BY <1>1, <1>6
<1>7. ASSUME NEW k \in ns..LastOld, k # q
      PROVE  \E l \in (ns + 1)..LastOld : src(l) = k
  <2>1. CASE k > q
    <3>1. k \in (ns + 1)..LastOld /\ src(k) = k
      BY <1>1, <2>1
    <3>. QED
      BY <3>1
  <2>2. CASE k < q
    <3>1. k + 1 \in (ns + 1)..LastOld /\ src(k + 1) = k
      BY <1>1, <2>2
    <3>. QED
      BY <3>1
  <2>. QED
    BY <1>1, <1>7, <2>1, <2>2
<1>8. ASSUME NEW k \in (ns + 1)..LastOld, NEW l \in (ns + 1)..LastOld, k < l
      PROVE  src(k) < src(l)
  BY <1>1, <1>8
<1>9. \A k : k > q => src(k) = k
  OBVIOUS
<1>10. \A k : k < ns => src(k) = k
  OBVIOUS
<1>11. src(ns) = q
  BY <1>1
<1>12. DOMAIN childNodes' = 1..L
  BY <1>m, LenProperties
<1>. HIDE DEF src
<1>13. LastOld' = LastOld
  BY <1>2, <1>m DEF LastOld
<1>14. DocTypes'
  <2>1. \A p \in 1..L : childNodes'[p] \in 1..nodes
    BY <1>3, <1>4
  <2>2. ASSUME NEW p \in 1..L, NEW r \in 1..L, childNodes'[p] = childNodes'[r]
        PROVE  p = r
    <3>1. childNodes[src(p)] = childNodes[src(r)] /\ src(p) \in 1..L /\ src(r) \in 1..L
      BY <1>4, <2>2, Zenon
    <3>2. src(p) = src(r)
      BY <1>3, <3>1, Zenon
    <3>. QED
      BY <1>5, <3>2, Zenon
  <2>3. IsInjective(childNodes)'
    BY <1>12, <2>2 DEF IsInjective
  <2>4. (\A p \in 1..Len(childNodes) : childNodes[p] \in 1..nodes)'
    BY <1>2, <1>m, <2>1
  <2>. QED
    BY <1>m, <2>3, <2>4 DEF DocTypes
<1>15. FrontFits'
  <2>1. ASSUME NEW j \in 1..ns
        PROVE  childNodes'[j] = newCh'[j].elm
    <3>1. j \in 1..L /\ ns \in 1..L
      BY <1>1
    <3>2. CASE j = ns
      BY <1>2, <1>4, <1>11, <3>1, <3>2, Zenon
    <3>3. CASE j < ns
      <4>1. j \in 1..(ns - 1)
        BY <1>1, <3>3
      <4>2. j \in Done /\ childNodes[j] = newCh[j].elm
        BY <4>1, EndsAreDone DEF DocShape, FrontFits
      <4>. QED
        BY <1>2, <1>4, <1>10, <3>1, <3>3, <4>2, Zenon
    <3>. QED
      BY <1>1, <3>2, <3>3
  <2>. QED
    BY <1>1, <2>1 DEF FrontFits
<1>16. BackFits'
  <2>1. ASSUME NEW j \in (ne + 1)..N
        PROVE  childNodes'[j + (L - N)] = newCh'[j].elm
    <3>1. j \in Done /\ childNodes[j + (L - N)] = newCh[j].elm
      BY <2>1, EndsAreDone DEF DocShape, BackFits
    <3>2. j + (L - N) \in 1..L /\ j + (L - N) > q
      BY <1>1
    <3>. QED
      BY <1>2, <1>4, <1>9, <3>1, <3>2, Zenon
  <2>. QED
    BY <1>2, <1>m, <2>1 DEF BackFits
<1>17. MiddleWaits'
  <2>0. /\ \A p \in ns..LastOld : childNodes[p] \in Waiting
        /\ \A k \in Waiting : \E p \in ns..LastOld : childNodes[p] = k
        /\ \A p, r \in ns..LastOld : p < r => childNodes[p] < childNodes[r]
    BY <1>1 DEF DocShape, MiddleWaits
  <2>1. ASSUME NEW p \in (ns + 1)..LastOld
        PROVE  childNodes'[p] \in Waiting'
    <3>1. src(p) \in ns..LastOld /\ src(p) # q /\ p \in 1..L /\ q \in 1..L
      BY <1>1, <1>6
    <3>2. childNodes'[p] = childNodes[src(p)] /\ src(p) \in 1..L
      BY <1>4, <3>1, Zenon
    <3>3. childNodes[src(p)] \in Waiting
      BY <2>0, <3>1, Zenon
    <3>4. childNodes[src(p)] # i
      BY <1>3, <3>1, <3>2, Zenon
    <3>. QED
      BY <1>2, <3>2, <3>3, <3>4, Zenon
  <2>2. ASSUME NEW k \in Waiting'
        PROVE  \E p \in (ns + 1)..LastOld : childNodes'[p] = k
    <3>1. k \in Waiting /\ k # i
      BY <1>2, Zenon
    <3>2. PICK p \in ns..LastOld : childNodes[p] = k
      BY <2>0, <3>1, Zenon
    <3>3. p # q
      BY <3>1, <3>2, Zenon
    <3>4. PICK r \in (ns + 1)..LastOld : src(r) = p
      BY <1>7, <3>3, Zenon
    <3>5. childNodes'[r] = childNodes[src(r)]
      BY <1>4, <1>6, Zenon
    <3>. QED
      BY <3>2, <3>4, <3>5, Zenon
  <2>3. ASSUME NEW p \in (ns + 1)..LastOld, NEW r \in (ns + 1)..LastOld, p < r
        PROVE  childNodes'[p] < childNodes'[r]
    <3>1. src(p) \in ns..LastOld /\ src(r) \in ns..LastOld /\ src(p) < src(r)
      BY <1>6, <1>8, <2>3, Zenon
    <3>2. childNodes'[p] = childNodes[src(p)] /\ childNodes'[r] = childNodes[src(r)]
      BY <1>4, <1>6, Zenon
    <3>. QED
      BY <2>0, <3>1, <3>2, Zenon
  <2>. QED
    BY <1>1, <1>2, <1>13, <2>1, <2>2, <2>3 DEF MiddleWaits
<1>. QED
  BY <1>1, <1>13, <1>14, <1>15, <1>16, <1>17 DEF DocShape

\* The same for the last new vnode: the node moves right to the end of the middle.
LEMMA BackTaken ==
    ASSUME PatchTypes, DocShape, [PatchNext]_patchVars, NEW i, Takes(i, ne),
           ns' = ns, ne' = ne - 1,
           NEW q \in ns..LastOld, childNodes[q] = i,
           IsMovedRight(childNodes, q, LastOld, childNodes')
    PROVE  DocShape'
<1>m. /\ childNodes' \in Seq(Nat) /\ Len(childNodes') = Len(childNodes)
      /\ \A k \in 1..Len(childNodes) :
            childNodes'[k] = IF k < q \/ k > LastOld THEN childNodes[k]
                             ELSE IF k = LastOld THEN childNodes[q] ELSE childNodes[k + 1]
  BY DEF IsMovedRight
<1>0. DocTypes
  BY DEF DocShape
<1>. DEFINE L == Len(childNodes)
            N == Len(newCh)
<1>1. /\ L \in Nat /\ DOMAIN childNodes = 1..L /\ N \in Nat
      /\ ns \in Nat /\ ne \in Nat /\ ns >= 1 /\ ne <= N /\ ns <= ne
      /\ LastOld \in Int /\ LastOld <= L /\ LastOld = ne + (L - N)
      /\ q \in Nat /\ ns <= q /\ q <= LastOld /\ sameRoot
  BY <1>0, DocNumbers DEF Takes
<1>2. /\ nodes' = nodes /\ Waiting' = Waiting \ {i} /\ Len(newCh') = N
      /\ newCh'[ne].elm = i /\ \A k \in Done : newCh'[k].elm = newCh[k].elm
      /\ sameRoot' = sameRoot
  BY TakesWhat, ListsStay DEF Takes
<1>3. /\ \A p \in 1..L : childNodes[p] \in 1..nodes
      /\ \A p, r \in 1..L : childNodes[p] = childNodes[r] => p = r
  BY <1>0, <1>1 DEF DocTypes, IsInjective
<1>n. /\ L \in Nat /\ ns \in Nat /\ ns >= 1 /\ LastOld \in Int /\ LastOld <= L
      /\ q \in Nat /\ ns <= q /\ q <= LastOld
  BY <1>1
<1>. DEFINE src(k) == IF k < q \/ k > LastOld THEN k ELSE IF k = LastOld THEN q ELSE k + 1
<1>4. ASSUME NEW k \in 1..L
      PROVE  src(k) \in 1..L /\ childNodes'[k] = childNodes[src(k)]
  <2>1. childNodes'[k] = IF k < q \/ k > LastOld THEN childNodes[k]
                         ELSE IF k = LastOld THEN childNodes[q] ELSE childNodes[k + 1]
    BY <1>m
  <2>2. CASE k < q \/ k > LastOld
    BY <2>1, <2>2
  <2>3. CASE k = LastOld
    <3>1. src(k) = q /\ q \in 1..L
      BY <1>n, <2>3
    <3>. QED
      BY <1>n, <2>1, <2>3, <3>1
  <2>4. CASE q <= k /\ k < LastOld
    <3>1. src(k) = k + 1 /\ k + 1 \in 1..L
      BY <1>n, <2>4
    <3>. QED
      BY <1>n, <2>1, <2>4, <3>1
  <2>. QED
    BY <1>n, <2>2, <2>3, <2>4
<1>5. ASSUME NEW k \in 1..L, NEW l \in 1..L, src(k) = src(l)
      PROVE  k = l
  <2>1. \A a \in 1..L : /\ a < q \/ a > LastOld => src(a) = a
                        /\ a = LastOld => src(a) = q
                        /\ q <= a /\ a < LastOld => src(a) = a + 1
    BY <1>n
  <2>. HIDE DEF src
  <2>2. k \in Nat /\ l \in Nat
    BY <1>n
  <2>3. \/ k < q /\ src(k) = k
        \/ k > LastOld /\ src(k) = k
        \/ k = LastOld /\ src(k) = q
        \/ q <= k /\ k < LastOld /\ src(k) = k + 1
    BY <1>n, <2>1, <2>2
  <2>4. \/ l < q /\ src(l) = l
        \/ l > LastOld /\ src(l) = l
        \/ l = LastOld /\ src(l) = q
        \/ q <= l /\ l < LastOld /\ src(l) = l + 1
    BY <1>n, <2>1, <2>2
  <2>. QED
    BY <1>n, <1>5, <2>2, <2>3, <2>4
<1>6. ASSUME NEW k \in ns..(LastOld - 1)
      PROVE  src(k) \in ns..LastOld /\ src(k) # q /\ k \in 1..L
  BY <1>1, <1>6
<1>7. ASSUME NEW k \in ns..LastOld, k # q
      PROVE  \E l \in ns..(LastOld - 1) : src(l) = k
  <2>1. CASE k < q
    <3>1. k \in ns..(LastOld - 1) /\ src(k) = k
      BY <1>1, <2>1
    <3>. QED
      BY <3>1
  <2>2. CASE k > q
    <3>1. k - 1 \in ns..(LastOld - 1) /\ src(k - 1) = k
      BY <1>1, <2>2
    <3>. QED
      BY <3>1
  <2>. QED
    BY <1>1, <1>7, <2>1, <2>2
<1>8. ASSUME NEW k \in ns..(LastOld - 1), NEW l \in ns..(LastOld - 1), k < l
      PROVE  src(k) < src(l)
  BY <1>1, <1>8
<1>9. \A k : k > LastOld => src(k) = k
  OBVIOUS
<1>10. \A k : k < q => src(k) = k
  OBVIOUS
<1>11. src(LastOld) = q
  BY <1>1
<1>12. DOMAIN childNodes' = 1..L
  BY <1>m, LenProperties
<1>. HIDE DEF src
<1>13. LastOld' = LastOld - 1
  BY <1>1, <1>2, <1>m DEF LastOld
<1>14. DocTypes'
  <2>1. \A p \in 1..L : childNodes'[p] \in 1..nodes
    BY <1>3, <1>4
  <2>2. ASSUME NEW p \in 1..L, NEW r \in 1..L, childNodes'[p] = childNodes'[r]
        PROVE  p = r
    <3>1. childNodes[src(p)] = childNodes[src(r)] /\ src(p) \in 1..L /\ src(r) \in 1..L
      BY <1>4, <2>2, Zenon
    <3>2. src(p) = src(r)
      BY <1>3, <3>1, Zenon
    <3>. QED
      BY <1>5, <3>2, Zenon
  <2>3. IsInjective(childNodes)'
    BY <1>12, <2>2 DEF IsInjective
  <2>4. (\A p \in 1..Len(childNodes) : childNodes[p] \in 1..nodes)'
    BY <1>2, <1>m, <2>1
  <2>. QED
    BY <1>m, <2>3, <2>4 DEF DocTypes
<1>15. FrontFits'
  <2>1. ASSUME NEW j \in 1..(ns - 1)
        PROVE  childNodes'[j] = newCh'[j].elm
    <3>1. j \in 1..L /\ j < q
      BY <1>1
    <3>2. j \in Done /\ childNodes[j] = newCh[j].elm
      BY EndsAreDone DEF DocShape, FrontFits
    <3>. QED
      BY <1>2, <1>4, <1>10, <3>1, <3>2, Zenon
  <2>. QED
    BY <2>1 DEF FrontFits
<1>16. BackFits'
  <2>1. ASSUME NEW j \in ne..N
        PROVE  childNodes'[j + (L - N)] = newCh'[j].elm
    <3>1. CASE j = ne
      <4>1. j + (L - N) = LastOld /\ LastOld \in 1..L
        BY <1>1, <3>1
      <4>. QED
        BY <1>2, <1>4, <1>11, <3>1, <4>1, Zenon
    <3>2. CASE j > ne
      <4>1. j \in (ne + 1)..N
        BY <1>1, <3>2
      <4>2. j \in Done /\ childNodes[j + (L - N)] = newCh[j].elm
        BY <4>1, EndsAreDone DEF DocShape, BackFits
      <4>3. j + (L - N) \in 1..L /\ j + (L - N) > LastOld
        BY <1>1, <3>2
      <4>. QED
        BY <1>2, <1>4, <1>9, <4>2, <4>3, Zenon
    <3>. QED
      BY <1>1, <3>1, <3>2
  <2>2. ne' + 1 = ne
    BY <1>1
  <2>. QED
    BY <1>2, <1>m, <2>1, <2>2 DEF BackFits
<1>17. MiddleWaits'
  <2>0. /\ \A p \in ns..LastOld : childNodes[p] \in Waiting
        /\ \A k \in Waiting : \E p \in ns..LastOld : childNodes[p] = k
        /\ \A p, r \in ns..LastOld : p < r => childNodes[p] < childNodes[r]
    BY <1>1 DEF DocShape, MiddleWaits
  <2>1. ASSUME NEW p \in ns..(LastOld - 1)
        PROVE  childNodes'[p] \in Waiting'
    <3>1. src(p) \in ns..LastOld /\ src(p) # q /\ p \in 1..L /\ q \in 1..L
      BY <1>1, <1>6
    <3>2. childNodes'[p] = childNodes[src(p)] /\ src(p) \in 1..L
      BY <1>4, <3>1, Zenon
    <3>3. childNodes[src(p)] \in Waiting
      BY <2>0, <3>1, Zenon
    <3>4. childNodes[src(p)] # i
      BY <1>3, <3>1, <3>2, Zenon
    <3>. QED
      BY <1>2, <3>2, <3>3, <3>4, Zenon
  <2>2. ASSUME NEW k \in Waiting'
        PROVE  \E p \in ns..(LastOld - 1) : childNodes'[p] = k
    <3>1. k \in Waiting /\ k # i
      BY <1>2, Zenon
    <3>2. PICK p \in ns..LastOld : childNodes[p] = k
      BY <2>0, <3>1, Zenon
    <3>3. p # q
      BY <3>1, <3>2, Zenon
    <3>4. PICK r \in ns..(LastOld - 1) : src(r) = p
      BY <1>7, <3>3, Zenon
    <3>5. childNodes'[r] = childNodes[src(r)]
      BY <1>4, <1>6, Zenon
    <3>. QED
      BY <3>2, <3>4, <3>5, Zenon
  <2>3. ASSUME NEW p \in ns..(LastOld - 1), NEW r \in ns..(LastOld - 1), p < r
        PROVE  childNodes'[p] < childNodes'[r]
    <3>1. src(p) \in ns..LastOld /\ src(r) \in ns..LastOld /\ src(p) < src(r)
      BY <1>6, <1>8, <2>3, Zenon
    <3>2. childNodes'[p] = childNodes[src(p)] /\ childNodes'[r] = childNodes[src(r)]
      BY <1>4, <1>6, Zenon
    <3>. QED
      BY <2>0, <3>1, <3>2, Zenon
  <2>. QED
    BY <1>1, <1>2, <1>13, <2>1, <2>2, <2>3 DEF MiddleWaits
<1>. QED
  BY <1>1, <1>13, <1>14, <1>15, <1>16, <1>17 DEF DocShape

LEMMA DocStart == PatchTypes /\ DocShape /\ PatchStart => DocShape'
<1>. SUFFICES ASSUME PatchTypes, DocShape, PatchStart
              PROVE  DocShape'
  OBVIOUS
<1>0. DocTypes /\ MiddleWaits
  BY DEF DocShape
<1>1. Takes(os, ns) /\ [PatchNext]_patchVars
  BY StartTurn DEF PatchNext
<1>2. ns <= LastOld /\ childNodes[ns] = os
  BY <1>0, <1>1, FirstWaits DEF Takes
<1>3. ns \in ns..LastOld /\ ns \in Nat
  BY <1>0, <1>2, DocNumbers
<1>4. childNodes' = childNodes /\ ns' = ns + 1 /\ ne' = ne
  BY DEF PatchStart, PatchVnode
<1>5. IsMovedLeft(childNodes, ns, ns, childNodes')
  BY <1>0, <1>3, <1>4 DEF DocTypes, IsMovedLeft
<1>. QED
  BY <1>1, <1>2, <1>3, <1>4, <1>5, FrontTaken

LEMMA DocEnd == PatchTypes /\ DocShape /\ PatchEnd => DocShape'
<1>. SUFFICES ASSUME PatchTypes, DocShape, PatchEnd
              PROVE  DocShape'
  OBVIOUS
<1>0. DocTypes /\ MiddleWaits
  BY DEF DocShape
<1>1. Takes(oe, ne) /\ [PatchNext]_patchVars
  BY EndTurn DEF PatchNext
<1>2. ns <= LastOld /\ childNodes[LastOld] = oe
  BY <1>0, <1>1, LastWaits DEF Takes
<1>3. LastOld \in ns..LastOld /\ LastOld \in Int
  BY <1>0, <1>2, DocNumbers
<1>4. childNodes' = childNodes /\ ns' = ns /\ ne' = ne - 1
  BY DEF PatchEnd, PatchVnode
<1>5. IsMovedRight(childNodes, LastOld, LastOld, childNodes')
  BY <1>0, <1>3, <1>4 DEF DocTypes, IsMovedRight
<1>. QED
  BY <1>1, <1>2, <1>3, <1>4, <1>5, BackTaken

\* A node found at position q goes before the first waiting one.
LEMMA DocMovedLeft ==
    ASSUME PatchTypes, DocShape, [PatchNext]_patchVars, NEW i, Takes(i, ns), i # os,
           os \in Waiting, ns' = ns + 1, ne' = ne,
           childNodes' = InsertBefore(childNodes, oldCh[i].elm, oldCh[os].elm)
    PROVE  DocShape'
<1>0. DocTypes /\ MiddleWaits /\ sameRoot
  BY DEF DocShape, Takes
<1>1. /\ Len(childNodes) \in Nat /\ ns \in Nat /\ ns >= 1 /\ LastOld \in Int
      /\ LastOld <= Len(childNodes)
  BY <1>0, DocNumbers
<1>2. ns <= LastOld /\ childNodes[ns] = os
  BY <1>0, FirstWaits
<1>3. PICK q \in ns..LastOld : childNodes[q] = i
  BY <1>0 DEF MiddleWaits, Takes
<1>4. q # ns
  BY <1>2, <1>3
<1>5. q \in 1..Len(childNodes) /\ ns \in 1..(q - 1)
  BY <1>1, <1>2, <1>3, <1>4
<1>6. oldCh[i].elm = childNodes[q] /\ oldCh[os].elm = childNodes[ns]
  BY <1>2, <1>3, OldElm DEF Takes
<1>7. childNodes \in Seq(Nat) /\ IsInjective(childNodes)
  BY <1>0 DEF DocTypes
<1>8. /\ childNodes' = InsertBefore(childNodes, childNodes[q], childNodes[ns])
      /\ childNodes[ns] # None
  BY <1>2, <1>6 DEF PatchTypes, None
<1>9. IsMovedLeft(childNodes, q, ns, childNodes')
  BY <1>5, <1>7, <1>8, InsertBeforeLeft
<1>. QED
  BY <1>3, <1>9, FrontTaken

LEMMA DocLeft == PatchTypes /\ DocShape /\ MoveLeft => DocShape'
<1>. SUFFICES ASSUME PatchTypes, DocShape, MoveLeft
              PROVE  DocShape'
  OBVIOUS
<1>1. Takes(oe, ns) /\ [PatchNext]_patchVars
  BY LeftTurn DEF PatchNext
<1>2. oe # os /\ os \in Waiting
  BY DEF MoveLeft, MovedLeft, StartsMatch, Comparing, Looping, Waiting, PatchTypes
<1>3. /\ ns' = ns + 1 /\ ne' = ne
      /\ childNodes' = InsertBefore(childNodes, oldCh[oe].elm, oldCh[os].elm)
  BY DEF MoveLeft, PatchVnode
<1>. QED
  BY <1>1, <1>2, <1>3, DocMovedLeft

LEMMA DocFound == PatchTypes /\ FoundWaits /\ DocShape /\ MoveFound => DocShape'
<1>. SUFFICES ASSUME PatchTypes, FoundWaits, DocShape, MoveFound
              PROVE  DocShape'
  OBVIOUS
<1>1. Takes(IdxInOld, ns) /\ [PatchNext]_patchVars
  BY FoundTurn DEF PatchNext
<1>2. IdxInOld # os
  BY DEF MoveFound, Elsewhere, StartsMatch
<1>3. os \in Waiting
  BY DEF MoveFound, Elsewhere, Comparing, Looping, Waiting, PatchTypes
<1>4. /\ ns' = ns + 1 /\ ne' = ne
      /\ childNodes' = InsertBefore(childNodes, oldCh[IdxInOld].elm, oldCh[os].elm)
  BY DEF MoveFound, PatchVnode
<1>. QED
  BY <1>1, <1>2, <1>3, <1>4, DocMovedLeft

LEMMA DocRight == PatchTypes /\ DocShape /\ MoveRight => DocShape'
<1>. SUFFICES ASSUME PatchTypes, DocShape, MoveRight
              PROVE  DocShape'
  OBVIOUS
<1>0. DocTypes /\ MiddleWaits /\ sameRoot
  BY DEF DocShape, MoveRight, Comparing, Looping
<1>1. Takes(os, ne) /\ [PatchNext]_patchVars
  BY RightTurn DEF PatchNext
<1>2. oe # os /\ os \in Waiting /\ oe \in Waiting
  BY DEF MoveRight, MovedRight, EndsMatch, Comparing, Looping, Waiting, PatchTypes
<1>3. /\ Len(childNodes) \in Nat /\ ns \in Nat /\ ns >= 1 /\ LastOld \in Int
      /\ LastOld <= Len(childNodes) /\ DOMAIN childNodes = 1..Len(childNodes)
  BY <1>0, DocNumbers
<1>4. ns <= LastOld /\ childNodes[ns] = os /\ childNodes[LastOld] = oe
  BY <1>0, <1>2, FirstWaits, LastWaits
<1>5. ns # LastOld
  BY <1>2, <1>4
<1>6. LastOld \in 1..Len(childNodes) /\ ns \in 1..(LastOld - 1) /\ ns \in ns..LastOld
  BY <1>3, <1>4, <1>5
<1>7. childNodes \in Seq(Nat) /\ IsInjective(childNodes)
  BY <1>0 DEF DocTypes
<1>8. IndexOf(childNodes, childNodes[LastOld]) = LastOld
  BY <1>6, <1>7, IndexOfIs
<1>. DEFINE refElm == NextSibling(oldCh[oe].elm)
<1>9. refElm = IF LastOld < Len(childNodes) THEN childNodes[LastOld + 1] ELSE None
  BY <1>2, <1>4, <1>8, OldElm DEF NextSibling
<1>10. childNodes' = InsertBefore(childNodes, childNodes[ns], refElm)
  BY <1>2, <1>4, OldElm DEF MoveRight, PatchVnode
<1>11. ns' = ns /\ ne' = ne - 1
  BY DEF MoveRight
<1>12. \A k \in 1..Len(childNodes) : childNodes[k] # None
  BY <1>0, <1>3 DEF DocTypes, None
<1>. HIDE DEF refElm
<1>13. IsMovedRight(childNodes, ns, LastOld, InsertBefore(childNodes, childNodes[ns], refElm))
  BY <1>6, <1>7, <1>9, <1>12, InsertBeforeRight
<1>14. IsMovedRight(childNodes, ns, LastOld, childNodes')
  BY <1>10, <1>13, Zenon
<1>. QED
  BY <1>1, <1>4, <1>6, <1>11, <1>14, BackTaken

\* No node of the document has the number of the next one.
LEMMA NextIsNew ==
    ASSUME PatchTypes, DocTypes
    PROVE  nodes + 1 \in Nat /\ nodes + 1 \notin ToSet(childNodes) /\ None \notin ToSet(childNodes)
<1>1. /\ nodes \in Nat /\ DOMAIN childNodes = 1..Len(childNodes)
      /\ \A p \in 1..Len(childNodes) : childNodes[p] \in 1..nodes
  BY DocNumbers DEF DocTypes
<1>2. \A p \in DOMAIN childNodes : childNodes[p] # nodes + 1 /\ childNodes[p] # None
  BY <1>1 DEF None
<1>. QED
  BY <1>1, <1>2 DEF ToSet

LEMMA DocNew == PatchTypes /\ DocShape /\ (NewElement \/ OtherElement) => DocShape'
<1>. SUFFICES ASSUME PatchTypes, DocShape, NewElement \/ OtherElement
              PROVE  DocShape'
  OBVIOUS
<1>0. DocTypes /\ MiddleWaits /\ sameRoot
  BY DEF DocShape, NewElement, OtherElement, Elsewhere, Comparing, Looping
<1>1. Makes(ns, os) /\ [PatchNext]_patchVars
  BY NewTurn DEF PatchNext
<1>2. os \in Waiting
  BY DEF NewElement, OtherElement, Elsewhere, Comparing, Looping, Waiting, PatchTypes
<1>3. ns <= LastOld /\ childNodes[ns] = os
  BY <1>0, <1>2, FirstWaits
<1>4. ns' = ns + 1 /\ ne' = ne
  BY DEF NewElement, OtherElement
<1>5. childNodes \in Seq(Nat) /\ IsInjective(childNodes)
  BY <1>0 DEF DocTypes
<1>6. Fits(childNodes, ns, os)
  BY <1>0, <1>3, DocNumbers DEF Fits, None
<1>7. IsInserted(childNodes, ns, nodes + 1, InsertBefore(childNodes, nodes + 1, os))
  BY <1>0, <1>5, <1>6, NextIsNew, InsertBeforeNew
<1>8. childNodes' = InsertBefore(childNodes, nodes + 1, os)
  BY <1>1 DEF Makes, CreateElm
<1>9. IsInserted(childNodes, ns, nodes + 1, childNodes')
  BY <1>7, <1>8
<1>. QED
  BY <1>1, <1>4, <1>9, NodeAdded

LEMMA DocAdd == PatchTypes /\ DocShape /\ AddVnode => DocShape'
<1>. SUFFICES ASSUME PatchTypes, DocShape, AddVnode
              PROVE  DocShape'
  OBVIOUS
<1>. DEFINE refElm == IF ne + 1 \in DOMAIN newCh THEN newCh[ne + 1].elm ELSE None
<1>0. DocTypes /\ MiddleWaits /\ LastOld >= ns - 1
  BY DEF DocShape
<1>1. Makes(ns, refElm) /\ [PatchNext]_patchVars
  BY AddTurn DEF PatchNext
<1>2. sameRoot => Waiting = {}
  BY DEF AddVnode, Waiting, PatchTypes
<1>3. LastOld = ns - 1
  BY <1>0, <1>2, NoneWaits
<1>4. ns' = ns + 1 /\ ne' = ne
  BY DEF AddVnode
<1>5. childNodes \in Seq(Nat) /\ IsInjective(childNodes)
  BY <1>0 DEF DocTypes
<1>n. /\ Len(childNodes) \in Nat /\ Len(newCh) \in Nat /\ ns \in Nat /\ ne \in Nat /\ ns >= 1
      /\ ne <= Len(newCh) /\ LastOld = ne + (Len(childNodes) - Len(newCh))
      /\ DOMAIN newCh = 1..Len(newCh)
  BY <1>0, DocNumbers
<1>6. Fits(childNodes, ns, refElm)
  <2>1. CASE ne = Len(newCh)
    <3>1. refElm = None
      BY <1>n, <2>1
    <3>2. ns = Len(childNodes) + 1 /\ ns \in 1..(Len(childNodes) + 1)
      BY <1>n, <1>3, <2>1
    <3>. HIDE DEF refElm
    <3>. QED
      BY <3>1, <3>2, Zenon DEF Fits
  <2>2. CASE ne < Len(newCh)
    <3>1. /\ refElm = newCh[ne + 1].elm /\ ne + 1 \in (ne + 1)..Len(newCh)
          /\ (ne + 1) + (Len(childNodes) - Len(newCh)) = ns
      BY <1>n, <1>3, <2>2
    <3>2. childNodes[(ne + 1) + (Len(childNodes) - Len(newCh))] = newCh[ne + 1].elm
      BY <3>1 DEF DocShape, BackFits
    <3>3. childNodes[ns] = refElm
      BY <3>1, <3>2
    <3>4. ns <= Len(childNodes) /\ ns \in 1..(Len(childNodes) + 1)
      BY <1>n, <1>3, <2>2
    <3>5. childNodes[ns] # None
      BY <1>0, <1>n, <3>4 DEF DocTypes, None
    <3>. HIDE DEF refElm
    <3>. QED
      BY <3>3, <3>4, <3>5, Zenon DEF Fits
  <2>. DEFINE n == Len(newCh)
  <2>3. n \in Nat /\ ne \in Nat /\ ne <= n
    BY <1>n
  <2>. HIDE DEF n
  <2>4. ne = n \/ ne < n
    BY <2>3
  <2>5. ne = Len(newCh) \/ ne < Len(newCh)
    BY <2>4, Zenon DEF n
  <2>. QED
    BY <2>1, <2>2, <2>5, Zenon
<1>. HIDE DEF refElm
<1>7. IsInserted(childNodes, ns, nodes + 1, InsertBefore(childNodes, nodes + 1, refElm))
  BY <1>0, <1>5, <1>6, NextIsNew, InsertBeforeNew
<1>8. childNodes' = InsertBefore(childNodes, nodes + 1, refElm)
  BY <1>1 DEF Makes, CreateElm
<1>9. IsInserted(childNodes, ns, nodes + 1, childNodes')
  BY <1>7, <1>8
<1>. QED
  BY <1>1, <1>4, <1>9, NodeAdded

\* What the loop only passes leaves the document and its bounds alone.
LEMMA DocRests ==
    ASSUME PatchTypes, DocShape, Rests, UNCHANGED <<childNodes, oldCh, sameRoot, ns, ne>>
    PROVE  DocShape'
<1>1. /\ childNodes' = childNodes /\ oldCh' = oldCh /\ sameRoot' = sameRoot
      /\ ns' = ns /\ ne' = ne /\ newCh' = newCh /\ nodes' = nodes /\ Waiting' = Waiting
  BY DEF Rests
<1>2. LastOld' = LastOld /\ DocTypes' /\ FrontFits' /\ BackFits'
  BY <1>1 DEF DocShape, DocTypes, LastOld, FrontFits, BackFits
<1>3. MiddleWaits'
  BY <1>1, <1>2 DEF DocShape, MiddleWaits
<1>. QED
  BY <1>1, <1>2, <1>3 DEF DocShape

\* The first waiting node leaves the document of an element that stays.
LEMMA NodeRemoved ==
    ASSUME PatchTypes, DocShape, sameRoot, Removes(os),
           UNCHANGED <<oldCh, sameRoot, ns, ne>>
    PROVE  DocShape'
<1>0. DocTypes /\ MiddleWaits
  BY DEF DocShape
<1>. DEFINE L == Len(childNodes)
            N == Len(newCh)
<1>1. /\ L \in Nat /\ DOMAIN childNodes = 1..L /\ N \in Nat /\ nodes \in Nat
      /\ ns \in Nat /\ ne \in Nat /\ ns >= 1 /\ ne <= N /\ ns = ne + 1
      /\ LastOld \in Int /\ LastOld <= L /\ LastOld = ne + (L - N)
  BY <1>0, DocNumbers DEF Removes, PatchTypes
<1>2. ns <= LastOld /\ childNodes[ns] = os
  BY <1>0, FirstWaits DEF Removes
<1>3. /\ newCh' = newCh /\ nodes' = nodes /\ Waiting' = Waiting \ {os}
      /\ oldCh' = oldCh /\ sameRoot' = sameRoot /\ ns' = ns /\ ne' = ne
  BY DEF Removes
<1>4. ns \in 1..L /\ childNodes \in Seq(Nat) /\ IsInjective(childNodes)
  BY <1>0, <1>1, <1>2 DEF DocTypes
<1>5. childNodes' = RemoveAt(childNodes, ns)
  BY <1>2, <1>4, OldElm, WithoutAt DEF Removes
<1>6. /\ childNodes' \in Seq(Nat) /\ Len(childNodes') = L - 1
      /\ \A k \in 1..(L - 1) :
            childNodes'[k] = IF k < ns THEN childNodes[k] ELSE childNodes[k + 1]
  BY <1>4, <1>5, RemoveAtProperties
<1>7. IsInjective(childNodes')
  BY <1>4, <1>5, RemoveAtInjective
<1>8. \A p \in 1..L : childNodes[p] \in 1..nodes
  BY <1>0 DEF DocTypes
<1>9. \A p, q \in 1..L : childNodes[p] = childNodes[q] => p = q
  BY <1>1, <1>4 DEF IsInjective
<1>10. \A j \in (ne + 1)..N : childNodes[j + (L - N)] = newCh[j].elm
  BY DEF DocShape, BackFits
<1>11. \A j \in 1..(ns - 1) : childNodes[j] = newCh[j].elm
  BY DEF DocShape, FrontFits
<1>. HIDE DEF L, N
<1>12. \A k \in 1..(L - 1) :
          /\ k < ns => childNodes'[k] = childNodes[k]
          /\ k >= ns => k + 1 \in 1..L /\ childNodes'[k] = childNodes[k + 1]
  BY <1>1, <1>6
<1>13. DocTypes'
  <2>1. \A p \in 1..(L - 1) : childNodes'[p] \in 1..nodes
    BY <1>1, <1>8, <1>12
  <2>2. (\A p \in 1..Len(childNodes) : childNodes[p] \in 1..nodes)'
    BY <1>3, <1>6, <2>1
  <2>. QED
    BY <1>6, <1>7, <2>2 DEF DocTypes
<1>14. LastOld' = LastOld - 1
  BY <1>1, <1>3, <1>6 DEF LastOld, L, N
<1>15. FrontFits'
  <2>1. \A j \in 1..(ns - 1) : childNodes'[j] = newCh[j].elm
    BY <1>1, <1>2, <1>11, <1>12
  <2>. QED
    BY <1>3, <2>1 DEF FrontFits
<1>16. BackFits'
  <2>1. ASSUME NEW j \in (ne + 1)..N
        PROVE  childNodes'[j + ((L - 1) - N)] = newCh[j].elm
    <3>1. /\ j + ((L - 1) - N) \in 1..(L - 1) /\ j + ((L - 1) - N) >= ns
          /\ (j + ((L - 1) - N)) + 1 = j + (L - N)
      BY <1>1, <1>2
    <3>2. childNodes'[j + ((L - 1) - N)] = childNodes[j + (L - N)]
      BY <1>12, <3>1
    <3>. QED
      BY <1>10, <3>2
  <2>. QED
    BY <1>3, <1>6, <2>1 DEF BackFits, N
<1>17. MiddleWaits'
  <2>0. /\ \A p \in ns..LastOld : childNodes[p] \in Waiting
        /\ \A i \in Waiting : \E p \in ns..LastOld : childNodes[p] = i
        /\ \A p, q \in ns..LastOld : p < q => childNodes[p] < childNodes[q]
    BY <1>0 DEF MiddleWaits
  <2>1. \A p \in ns..(LastOld - 1) :
           p + 1 \in ns..LastOld /\ p + 1 # ns /\ p + 1 \in 1..L /\ childNodes'[p] = childNodes[p + 1]
    BY <1>1, <1>12
  <2>2. ASSUME NEW p \in ns..(LastOld - 1)
        PROVE  childNodes'[p] \in Waiting \ {os}
    BY <1>2, <1>4, <1>9, <2>0, <2>1
  <2>3. ASSUME NEW i \in Waiting \ {os}
        PROVE  \E p \in ns..(LastOld - 1) : childNodes'[p] = i
    <3>1. PICK p \in ns..LastOld : childNodes[p] = i
      BY <2>0
    <3>2. p # ns
      BY <1>2, <3>1
    <3>3. p - 1 \in ns..(LastOld - 1) /\ (p - 1) + 1 = p
      BY <1>1, <3>2
    <3>. QED
      BY <2>1, <3>1, <3>3
  <2>4. ASSUME NEW p \in ns..(LastOld - 1), NEW q \in ns..(LastOld - 1), p < q
        PROVE  childNodes'[p] < childNodes'[q]
    <3>1. p + 1 < q + 1
      BY <1>1, <2>4
    <3>. QED
      BY <2>0, <2>1, <3>1
  <2>. QED
    BY <1>3, <1>14, <2>2, <2>3, <2>4 DEF MiddleWaits
<1>. QED
  BY <1>1, <1>2, <1>3, <1>13, <1>14, <1>15, <1>16, <1>17 DEF DocShape

LEMMA DocRemove == PatchTypes /\ DocShape /\ RemoveVnode => DocShape'
<1>. SUFFICES ASSUME PatchTypes, DocShape, RemoveVnode
              PROVE  DocShape'
  OBVIOUS
<1>1. UNCHANGED <<oldCh, sameRoot, ns, ne>>
  BY DEF RemoveVnode
<1>2. CASE os \in moved
  <2>1. childNodes' = childNodes /\ Rests
    BY <1>2, RemoveTurn DEF RemoveVnode, Removes, Waiting
  <2>. QED
    BY <1>1, <2>1, DocRests
<1>3. CASE os \notin moved
  <2>1. Removes(os)
    <3>1. os \in Waiting /\ Waiting' = Waiting \ {os}
      BY <1>3 DEF Waiting, RemoveVnode, PatchTypes
    <3>2. Done' = Done
      BY DEF Done, RemoveVnode
    <3>. QED
      BY <1>3, <3>1, <3>2 DEF Removes, RemoveVnode
  <2>2. CASE sameRoot
    BY <1>1, <2>1, <2>2, NodeRemoved
  <2>3. CASE ~sameRoot
    <3>1. /\ LastOld = ns - 1 /\ DocTypes
          /\ \A p \in 1..Len(childNodes) : childNodes[p] > Len(oldCh)
      BY <2>3 DEF DocShape, MiddleWaits
    <3>2. oldCh[os].elm = os /\ os \in Nat /\ os <= Len(oldCh) /\ Len(oldCh) \in Nat
      BY <2>1, OldElm DEF Removes, Waiting, PatchTypes
    <3>3. oldCh[os].elm \notin ToSet(childNodes)
      BY <3>1, <3>2, DocNumbers DEF ToSet
    <3>4. childNodes' = childNodes
      BY <2>1, <3>3, WithoutAbsent DEF Removes
    <3>5. newCh' = newCh /\ nodes' = nodes
      BY <2>1 DEF Removes
    <3>6. LastOld' = LastOld /\ DocTypes' /\ FrontFits' /\ BackFits'
      BY <1>1, <3>4, <3>5 DEF DocShape, DocTypes, LastOld, FrontFits, BackFits
    <3>7. MiddleWaits'
      BY <1>1, <2>3, <3>1, <3>4, <3>6 DEF MiddleWaits
    <3>. QED
      BY <1>1, <3>6, <3>7 DEF DocShape
  <2>. QED
    BY <2>2, <2>3
<1>. QED
  BY <1>2, <1>3

\* The document of another element is empty at first.
LEMMA DocReplaced == PatchTypes /\ ReplaceRoot => DocShape'
<1>. SUFFICES ASSUME PatchTypes, ReplaceRoot
              PROVE  DocShape'
  OBVIOUS
<1>1. /\ ns = 1 /\ ne = Len(newCh) /\ Len(newCh) \in Nat /\ ~sameRoot
      /\ ns' = ns /\ ne' = ne /\ newCh' = newCh /\ sameRoot' = sameRoot /\ childNodes' = <<>>
  BY DEF PatchTypes, ReplaceRoot
<1>2. childNodes' \in Seq(Nat) /\ Len(childNodes') = 0 /\ DOMAIN childNodes' = {}
  BY <1>1
<1>3. DocTypes'
  BY <1>2 DEF DocTypes, IsInjective
<1>4. LastOld' = 0 /\ ns' = 1
  BY <1>1, <1>2 DEF LastOld
<1>5. FrontFits' /\ BackFits'
  BY <1>1, <1>4 DEF FrontFits, BackFits
<1>6. MiddleWaits'
  BY <1>1, <1>2, <1>4 DEF MiddleWaits
<1>. QED
  BY <1>3, <1>4, <1>5, <1>6 DEF DocShape

LEMMA DocInit == PatchInit => DocInv
<1>. SUFFICES ASSUME NEW same \in BOOLEAN, NEW lists \in Families,
                     NEW before \in lists, NEW after \in lists, PatchFrom(same, before, after)
              PROVE  DocTypes /\ (step # "replace" => DocShape)
  BY DEF PatchInit, DocInv, DocShape
<1>. DEFINE L == Len(before)
<1>1. L \in Nat /\ DOMAIN before = 1..L
  BY ShapesOf
<1>. HIDE DEF L
<1>2. /\ childNodes = [i \in 1..L |-> i] /\ nodes = L /\ sameRoot = same /\ moved = {}
      /\ os = 1 /\ ns = 1 /\ oe = L /\ ne = Len(after)
      /\ step = IF same THEN "loop" ELSE "replace"
      /\ newCh = [i \in DOMAIN after |-> VNode(after[i], None)]
  BY <1>1 DEF PatchFrom, L
<1>3. DOMAIN childNodes = 1..L /\ \A p \in 1..L : childNodes[p] = p
  BY <1>2
<1>4. childNodes \in Seq(Nat) /\ Len(childNodes) = L
  <2>1. childNodes = [i \in 1..L |-> childNodes[i]] /\ \A i \in 1..L : childNodes[i] \in Nat
    BY <1>1, <1>2
  <2>2. childNodes \in Seq(Nat)
    BY <1>1, <1>3, <2>1
  <2>. QED
    BY <1>1, <1>3, <2>1, <2>2, SequenceOfLength
<1>5. DocTypes
  BY <1>1, <1>2, <1>3, <1>4 DEF DocTypes, IsInjective
<1>6. Len(newCh) = Len(after) /\ Len(after) \in Nat
  <2>1. Len(after) \in Nat /\ DOMAIN after = 1..Len(after)
    BY ShapesOf
  <2>. QED
    BY <1>2, <2>1, SequenceOfLength
<1>7. ASSUME step # "replace"
      PROVE  DocShape
  <2>1. sameRoot
    BY <1>2, <1>7
  <2>2. LastOld = L
    BY <1>1, <1>2, <1>4, <1>6 DEF LastOld
  <2>3. FrontFits /\ BackFits
    BY <1>2, <1>6 DEF FrontFits, BackFits
  <2>4. Waiting = 1..L
    BY <1>2 DEF Waiting
  <2>5. MiddleWaits
    BY <1>1, <1>2, <1>3, <2>1, <2>2, <2>4 DEF MiddleWaits
  <2>. QED
    BY <1>1, <1>2, <1>5, <2>2, <2>3, <2>5 DEF DocShape
<1>. QED
  BY <1>5, <1>7

LEMMA DocStep == PatchBase /\ DocInv /\ [PatchNext]_patchVars => DocInv'
<1>. SUFFICES ASSUME PatchBase, DocInv, [PatchNext]_patchVars, KeysDiffer(newCh)'
              PROVE  DocTypes' /\ (step' # "replace" => DocShape')
  BY DEF DocInv, DocShape
<1>1. PatchTypes /\ FoundWaits /\ KeysDiffer(newCh)
  BY FoundIsWaiting, KeysStay DEF PatchBase
<1>2. DocTypes /\ (step # "replace" => DocShape)
  BY <1>1 DEF DocInv, DocShape
<1>3. CASE ReplaceRoot
  BY <1>1, <1>3, DocReplaced DEF DocShape
<1>4. CASE UNCHANGED patchVars
  <2>1. DocTypes'
    BY <1>2, <1>4 DEF patchVars, DocTypes
  <2>2. step # "replace" => DocShape'
    BY <1>1, <1>2, <1>4, OtherTurns, DocRests DEF patchVars
  <2>. QED
    BY <1>4, <2>1, <2>2 DEF patchVars
<1>5. ASSUME PatchNext, ~ReplaceRoot
      PROVE  DocShape'
  <2>1. step # "replace"
    BY <1>5 DEF PatchNext, SkipMovedStart, SkipMovedEnd, PatchStart, PatchEnd, MoveRight, MoveLeft,
       NewElement, OtherElement, MoveFound, ThrowMoved, Elsewhere, Comparing, Looping, AddVnode,
       RemoveVnode, ListsUsedUp, InvokeInsertHook
  <2>2. DocShape
    BY <1>2, <2>1
  <2>3. CASE SkipMovedStart \/ SkipMovedEnd \/ ThrowMoved \/ ListsUsedUp \/ InvokeInsertHook
    <3>1. UNCHANGED <<childNodes, oldCh, sameRoot, ns, ne>>
      BY <2>3 DEF SkipMovedStart, SkipMovedEnd, ThrowMoved, ListsUsedUp, InvokeInsertHook
    <3>. QED
      BY <1>1, <2>2, <2>3, <3>1, OtherTurns, DocRests
  <2>4. CASE PatchStart \/ PatchEnd \/ MoveRight \/ MoveLeft \/ MoveFound
    BY <1>1, <2>2, <2>4, DocStart, DocEnd, DocRight, DocLeft, DocFound, Zenon
  <2>5. CASE NewElement \/ OtherElement \/ AddVnode \/ RemoveVnode
    BY <1>1, <2>2, <2>5, DocNew, DocAdd, DocRemove, Zenon
  <2>. QED
    BY <1>5, <2>3, <2>4, <2>5, Zenon DEF PatchNext
<1>. QED
  BY <1>3, <1>4, <1>5 DEF DocShape

\* When the patch is done nothing waits, so front and back are all of the document.
LEMMA DocInvIsEnough == PatchBase /\ DocInv => DocumentIsNewList
<1>. SUFFICES ASSUME PatchBase, DocInv, step = "done", KeysDiffer(newCh)
              PROVE  childNodes = [i \in DOMAIN newCh |-> newCh[i].elm]
  BY DEF DocumentIsNewList
<1>1. PatchTypes /\ DocShape /\ DocTypes
  BY DEF PatchBase, DocInv, DocShape
<1>2. os > oe /\ ns > ne /\ ns <= ne + 1
  BY <1>1 DEF PatchTypes
<1>3. Waiting = {}
  BY <1>1, <1>2 DEF Waiting, PatchTypes
<1>4. LastOld = ns - 1
  BY <1>1, <1>3, NoneWaits DEF DocShape
<1>. DEFINE L == Len(childNodes)
            N == Len(newCh)
<1>5. /\ L \in Nat /\ DOMAIN childNodes = 1..L /\ N \in Nat /\ DOMAIN newCh = 1..N
      /\ ns \in Nat /\ ne \in Nat /\ ns >= 1 /\ ne <= N /\ LastOld = ne + (L - N)
  BY <1>1, DocNumbers
<1>6. \A j \in (ne + 1)..N : childNodes[j + (L - N)] = newCh[j].elm
  BY <1>1 DEF DocShape, BackFits
<1>7. \A j \in 1..(ns - 1) : childNodes[j] = newCh[j].elm
  BY <1>1 DEF DocShape, FrontFits
<1>8. childNodes = [j \in 1..L |-> childNodes[j]]
  BY <1>1, <1>5 DEF DocTypes
<1>. HIDE DEF L, N
<1>9. L = N /\ ns = ne + 1
  BY <1>2, <1>4, <1>5
<1>10. ASSUME NEW j \in 1..N
       PROVE  childNodes[j] = newCh[j].elm
  <2>1. CASE j <= ne
    <3>1. j \in 1..(ns - 1)
      BY <1>5, <1>9, <2>1
    <3>. QED
      BY <1>7, <3>1
  <2>2. CASE j > ne
    <3>1. j \in (ne + 1)..N /\ j + (L - N) = j
      BY <1>5, <1>9, <2>2
    <3>. QED
      BY <1>6, <3>1
  <2>. QED
    BY <1>5, <2>1, <2>2
<1>. QED
  BY <1>5, <1>8, <1>9, <1>10

\* However the vnodes are moved, made and removed on the way, in the end the document
\* holds the nodes of the new list in its order (updateChildren).
THEOREM DocumentFollowsList == PatchSpec => []DocumentIsNewList
<1>1. PatchInit => PatchBase /\ DocInv
  BY PatchBaseInit, DocInit
<1>2. PatchBase /\ DocInv /\ [PatchNext]_patchVars => PatchBase' /\ DocInv'
  BY PatchBaseStep, DocStep
<1>. QED
  BY <1>1, <1>2, DocInvIsEnough, PTL DEF PatchSpec
=============================================================================
