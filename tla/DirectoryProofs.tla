-------------------------- MODULE DirectoryProofs --------------------------
(***************************************************************************)
(* Proofs about Directory, for every set of names, every bound on ids and  *)
(* every set of paths: the heap stays consistent through every request.    *)
(*                                                                         *)
(* The first part is about the operators of the heap: each preserves       *)
(* HeapInv.  The second part is about requests, and the theorems follow.   *)
(***************************************************************************)
EXTENDS Directory, FiniteSetTheorems, SequenceTheorems, TLAPS

\* What the proofs need of the numbering of objects.
LEMMA IdFacts ==
  /\ Ids \subseteq Nat /\ Ptr \subseteq Nat
  /\ Ptr = Ids \cup {Null} /\ Null \notin Ids
  /\ Root \in Ids /\ DomainId \in Ids
  /\ \A i \in Ids : i >= 1 /\ i <= MaxId
BY MaxIdNat DEF Ids, Ptr, Null, Root, DomainId

(***************************************************************************)
(* Counting the names of an object in a context.                           *)
(***************************************************************************)

\* A context has finitely many names for an object.
LEMMA NamesOfFinite ==
  ASSUME NEW c, NEW o
  PROVE  /\ NamesOf(c, o) \subseteq Names
         /\ IsFiniteSet(NamesOf(c, o))
         /\ Cardinality(NamesOf(c, o)) \in Nat
<1>1. NamesOf(c, o) \subseteq Names
  BY DEF NamesOf
<1>2. IsFiniteSet(NamesOf(c, o))
  BY <1>1, NamesFinite, FS_Subset
<1> QED
  BY <1>1, <1>2, FS_CardinalityType

\* The same of the next state.
LEMMA NamesOfFiniteNext ==
  ASSUME NEW c, NEW o
  PROVE  /\ NamesOf(c, o)' \subseteq Names
         /\ IsFiniteSet(NamesOf(c, o)')
         /\ Cardinality(NamesOf(c, o)') \in Nat
<1>1. NamesOf(c, o)' \subseteq Names
  BY DEF NamesOf
<1>2. IsFiniteSet(NamesOf(c, o)')
  BY <1>1, NamesFinite, FS_Subset
<1> QED
  BY <1>1, <1>2, FS_CardinalityType

\* The destructor drops every name a context has for the object: the context is listed at
\* least that often.
LEMMA DroppedAll ==
  ASSUME ReferrersExact, NEW c \in live, NEW o \in live
  PROVE  Dropped(c, o) = NamesOf(c, o)
<1> DEFINE k == IF referrers[o][c] < Cardinality(NamesOf(c, o))
                THEN referrers[o][c] ELSE Cardinality(NamesOf(c, o))
<1>1. IsFiniteSet(NamesOf(c, o)) /\ Cardinality(NamesOf(c, o)) \in Nat
  BY NamesOfFinite
<1>2. k = Cardinality(NamesOf(c, o))
  BY <1>1 DEF ReferrersExact
<1> HIDE DEF k
<1>3. /\ Dropped(c, o) \in SUBSET NamesOf(c, o)
      /\ Cardinality(Dropped(c, o)) = k
  <2>1. Dropped(c, o) = CHOOSE S \in SUBSET NamesOf(c, o) : Cardinality(S) = k
    BY DEF Dropped, k
  <2>2. \E S \in SUBSET NamesOf(c, o) : Cardinality(S) = k
    BY <1>2
  <2> QED
    BY <2>1, <2>2
<1> QED
  BY <1>1, <1>2, <1>3, FS_Subset

(***************************************************************************)
(* The operators of the heap.                                              *)
(***************************************************************************)

\* Constructing and binding a new object keeps the heap consistent: the parent lists it
\* under one name and is listed twice.
LEMMA NewObjectStep ==
  ASSUME HeapInv, NEW type \in {"context", "entity"}, NEW p \in live, NEW n \in Names,
         NEW real \in BOOLEAN, name_map[p][n] = Null, NewObject(type, p, n, real)
  PROVE  HeapInv' /\ live' = live \cup {NewId} /\ NewId \in Ids \ live
<1> DEFINE o == counter
<1>a. HeapTypeOK /\ Fresh /\ ReferrersExact /\ NoDanglingBinding /\ LifeAnnounced
  BY DEF HeapInv
<1>b. counter \in Nat /\ p \in Ids /\ p < counter
  BY <1>a, IdFacts, MaxIdNat DEF HeapTypeOK, Fresh, Root
<1>1. /\ o \in Ids /\ o \notin live /\ o # p /\ p \in Ids /\ o # Null
      /\ live' = live \cup {o} /\ counter' = counter + 1
      /\ name_map[o] = NoBindings /\ kind[o] = "none" /\ created[o] = 0
  BY <1>a, <1>b, IdFacts DEF Fresh, NewObject, NewId
<1>2. HeapTypeOK'
  <2> USE <1>a, <1>1, IdFacts DEF HeapTypeOK, NewObject, NewId
  <2>1. counter' \in Root + 1 .. MaxId + 1
    BY <1>b, MaxIdNat DEF Root
  <2>2. name_map' \in [Ids -> [Names -> Ptr]]
    OBVIOUS
  <2>3. referrers' \in [Ids -> [Ids -> Nat]]
    BY DEF NoReferrers
  <2>4. kind' \in [Ids -> Kinds] /\ parent' \in [Ids -> Ptr] /\ created' \in [Ids -> Nat]
    BY DEF Kinds
  <2>5. live' \subseteq Ids /\ placeholder' \subseteq live' /\ entity_list' \subseteq Ids
    OBVIOUS
  <2>6. deleted' \subseteq Ids /\ domain_up' \in BOOLEAN
    OBVIOUS
  <2> QED
    BY <2>1, <2>2, <2>3, <2>4, <2>5, <2>6
<1>c. /\ parent' = [parent EXCEPT ![o] = p] /\ kind' = [kind EXCEPT ![o] = type]
      /\ referrers' = [referrers EXCEPT ![o] = [NoReferrers EXCEPT ![p] = 2]]
      /\ name_map' = [name_map EXCEPT ![p][n] = o]
  BY DEF NewObject, NewId
<1>3. Fresh'
  <2>1. (\A i \in Ids : i >= counter => kind[i] = "none" /\ created[i] = 0 /\ i \notin live)'
    BY <1>a, <1>b, <1>1, IdFacts DEF HeapTypeOK, Fresh, NewObject, NewId
  <2>2. (\A i \in Ids : parent[i] < counter)'
    <3>1. \A i \in Ids : parent[i] \in Nat /\ parent[i] < counter
      BY <1>a, IdFacts DEF HeapTypeOK, Fresh
    <3>2. \A i \in Ids : parent'[i] = IF i = counter THEN p ELSE parent[i]
      BY <1>a, <1>c DEF HeapTypeOK
    <3> QED
      BY <1>1, <1>b, <3>1, <3>2, IdFacts
  <2>3. (\A i, c \in Ids : c >= counter => referrers[i][c] = 0)'
    <3>1. \A i, c \in Ids : referrers'[i][c] =
            IF i = counter THEN IF c = p THEN 2 ELSE 0 ELSE referrers[i][c]
      BY <1>a, <1>1, <1>c DEF HeapTypeOK, NoReferrers
    <3> QED
      BY <1>a, <1>b, <1>1, <3>1, IdFacts DEF Fresh
  <2>4. (\A i \in Ids \ live : name_map[i] = NoBindings /\ referrers[i] = NoReferrers)'
    BY <1>a, <1>1, <1>c DEF HeapTypeOK, Fresh, NoBindings, NoReferrers
  <2>5. (\A i \in live : kind[i] \in {"context", "entity"})'
    BY <1>a, <1>1, <1>c DEF HeapTypeOK, Fresh
  <2> QED
    BY <2>1, <2>2, <2>3, <2>4, <2>5 DEF Fresh
<1>4. ReferrersExact'
  <2> SUFFICES ASSUME NEW c \in live', NEW i \in live'
               PROVE  referrers'[i][c] = Cardinality(NamesOf(c, i)')
                                         + (IF parent'[i] = c THEN 1 ELSE 0)
    BY DEF ReferrersExact
  <2>a. c \in Ids /\ i \in Ids
    BY <1>a, <1>1 DEF HeapTypeOK
  <2>b. \A m \in Names : name_map'[c][m] = IF c = p /\ m = n THEN o ELSE name_map[c][m]
    BY <1>a, <1>1, <1>c, <2>a DEF HeapTypeOK
  <2>c. referrers'[i][c] = IF i = o THEN IF c = p THEN 2 ELSE 0 ELSE referrers[i][c]
    BY <1>a, <1>1, <1>c, <2>a DEF HeapTypeOK, NoReferrers
  <2>d. parent'[i] = IF i = o THEN p ELSE parent[i]
    BY <1>a, <1>1, <1>c, <2>a DEF HeapTypeOK
  <2>e. \A m \in Names : c \in live => name_map[c][m] # o
    BY <1>a, <1>1 DEF NoDanglingBinding
  <2>f. \A m \in Names : name_map[o][m] = Null
    BY <1>1 DEF NoBindings
  <2>1. CASE i = o /\ c = p
    <3>1. NamesOf(c, i)' = {n}
      BY <2>1, <2>b, <2>e DEF NamesOf
    <3> QED
      BY <2>1, <2>c, <2>d, <3>1, FS_Singleton
  <2>2. CASE i = o /\ c # p
    <3>1. NamesOf(c, i)' = {}
      BY <2>2, <1>1, <2>b, <2>e, <2>f DEF NamesOf
    <3> QED
      BY <2>2, <2>c, <2>d, <3>1, FS_EmptySet
  <2>3. CASE i # o /\ c = o
    <3>1. NamesOf(c, i)' = {}
      BY <2>3, <1>1, <2>a, <2>b, <2>f, IdFacts DEF NamesOf
    <3>2. referrers[i][c] = 0 /\ parent[i] # c
      BY <2>3, <1>a, <1>b, <2>a, IdFacts DEF HeapTypeOK, Fresh
    <3> QED
      BY <2>3, <2>c, <2>d, <3>1, <3>2, FS_EmptySet
  <2>4. CASE i # o /\ c # o
    <3>1. NamesOf(c, i)' = NamesOf(c, i)
      BY <2>4, <1>1, <2>a, <2>b, IdFacts DEF NamesOf
    <3> QED
      BY <2>4, <1>a, <1>1, <2>c, <2>d, <3>1 DEF ReferrersExact
  <2> QED
    BY <2>1, <2>2, <2>3, <2>4
<1>5. NoDanglingBinding'
  BY <1>a, <1>1, <1>c DEF HeapTypeOK, NoDanglingBinding, NoBindings
<1>6. LifeAnnounced'
  BY <1>a, <1>1, <1>c DEF HeapTypeOK, LifeAnnounced, NewObject, NewId
<1> QED
  BY <1>1, <1>2, <1>3, <1>4, <1>5, <1>6 DEF HeapInv, NewId

\* Promoting a placeholder keeps the heap consistent.
LEMMA MakeRealStep ==
  ASSUME HeapInv, NEW o \in placeholder, MakeReal(o)
  PROVE  HeapInv' /\ live' = live
<1>a. HeapTypeOK /\ Fresh /\ ReferrersExact /\ NoDanglingBinding /\ LifeAnnounced
  BY DEF HeapInv
<1>1. /\ o \in live /\ o \in Ids /\ created[o] = 0 /\ live' = live
      /\ created' = [created EXCEPT ![o] = created[o] + 1]
      /\ placeholder' = placeholder \ {o}
  BY <1>a DEF HeapTypeOK, LifeAnnounced, MakeReal
<1>2. HeapTypeOK'
  BY <1>a, <1>1 DEF HeapTypeOK, MakeReal
<1>3. Fresh'
  BY <1>a, <1>1 DEF HeapTypeOK, Fresh, MakeReal
<1>4. ReferrersExact' /\ NoDanglingBinding'
  BY <1>a DEF ReferrersExact, NoDanglingBinding, NamesOf, MakeReal
<1>5. LifeAnnounced'
  BY <1>a, <1>1 DEF HeapTypeOK, LifeAnnounced, MakeReal
<1> QED
  BY <1>1, <1>2, <1>3, <1>4, <1>5 DEF HeapInv

\* Binding a name to an object that exists keeps the heap consistent.
LEMMA BindStep ==
  ASSUME HeapInv, NEW c \in live, NEW n \in Names, NEW o \in live, Bind(c, n, o)
  PROVE  HeapInv' /\ live' = live
<1>a. HeapTypeOK /\ Fresh /\ ReferrersExact /\ NoDanglingBinding /\ LifeAnnounced
  BY DEF HeapInv
<1>b. c \in Ids /\ o \in Ids /\ c < counter /\ o # Null
  BY <1>a, IdFacts, MaxIdNat DEF HeapTypeOK, Fresh, Root
<1>c. UNCHANGED <<counter, live, kind, parent, placeholder, entity_list, created, deleted,
                  domain_up>>
  BY DEF Bind
<1>1. CASE name_map[c][n] = Null
  <2>1. /\ name_map' = [name_map EXCEPT ![c][n] = o]
        /\ referrers' = [referrers EXCEPT ![o][c] = @ + 1]
    BY <1>1 DEF Bind
  <2>2. HeapTypeOK'
    <3>1. name_map' \in [Ids -> [Names -> Ptr]]
      BY <1>a, <1>b, <2>1, IdFacts DEF HeapTypeOK
    <3>2. referrers' \in [Ids -> [Ids -> Nat]]
      BY <1>a, <1>b, <2>1 DEF HeapTypeOK
    <3> QED
      BY <1>a, <1>c, <3>1, <3>2 DEF HeapTypeOK
  <2>3. \A i, j \in Ids : referrers'[i][j] =
          IF i = o /\ j = c THEN referrers[i][j] + 1 ELSE referrers[i][j]
    BY <1>a, <1>b, <2>1 DEF HeapTypeOK
  <2>4. \A i \in Ids, m \in Names : name_map'[i][m] =
          IF i = c /\ m = n THEN o ELSE name_map[i][m]
    BY <1>a, <1>b, <2>1 DEF HeapTypeOK
  <2>5. Fresh'
    <3>1. (\A i, j \in Ids : j >= counter => referrers[i][j] = 0)'
      BY <1>a, <1>b, <1>c, <2>3, IdFacts, MaxIdNat DEF HeapTypeOK, Fresh, Root
    <3>2. \A i \in Ids \ live : name_map'[i] = name_map[i] /\ referrers'[i] = referrers[i]
      BY <1>a, <2>1 DEF HeapTypeOK
    <3> QED
      BY <1>a, <1>c, <3>1, <3>2 DEF Fresh
  <2>6. ReferrersExact'
    <3> SUFFICES ASSUME NEW j \in live, NEW i \in live
                 PROVE  referrers'[i][j] = Cardinality(NamesOf(j, i)')
                                           + (IF parent'[i] = j THEN 1 ELSE 0)
      BY <1>c DEF ReferrersExact
    <3>a. i \in Ids /\ j \in Ids
      BY <1>a DEF HeapTypeOK
    <3>b. referrers[i][j] = Cardinality(NamesOf(j, i)) + (IF parent[i] = j THEN 1 ELSE 0)
      BY <1>a DEF ReferrersExact
    <3>1. CASE i = o /\ j = c
      <4>1. NamesOf(j, i)' = NamesOf(j, i) \cup {n} /\ n \notin NamesOf(j, i)
        BY <3>1, <3>a, <2>4, <1>1, <1>b DEF NamesOf
      <4>2. Cardinality(NamesOf(j, i)') = Cardinality(NamesOf(j, i)) + 1
        BY <4>1, NamesOfFinite, FS_AddElement
      <4> QED
        BY <3>1, <3>a, <3>b, <4>2, <2>3, <1>c, NamesOfFinite
    <3>2. CASE ~(i = o /\ j = c)
      <4>1. NamesOf(j, i)' = NamesOf(j, i)
        BY <3>2, <3>a, <2>4, <1>1, <1>b, IdFacts DEF NamesOf
      <4> QED
        BY <3>2, <3>a, <3>b, <4>1, <2>3, <1>c
    <3> QED
      BY <3>1, <3>2
  <2>7. NoDanglingBinding'
    <3>1. \A d \in live, m \in Names : d \in Ids /\ name_map[d][m] \in live \cup {Null}
      BY <1>a DEF HeapTypeOK, NoDanglingBinding
    <3>2. \A d \in live, m \in Names : name_map'[d][m] \in live \cup {Null}
      BY <2>4, <3>1
    <3>3. live' = live
      BY <1>c
    <3> QED
      BY <3>2, <3>3 DEF NoDanglingBinding
  <2>8. LifeAnnounced'
    BY <1>a, <1>c DEF LifeAnnounced
  <2> QED
    BY <1>c, <2>2, <2>5, <2>6, <2>7, <2>8 DEF HeapInv
<1>2. CASE name_map[c][n] # Null
  <2>1. UNCHANGED heap
    BY <1>2, <1>c DEF Bind, heap
  <2> QED
    BY <1>a, <2>1 DEF heap, HeapInv, HeapTypeOK, Fresh, ReferrersExact, NoDanglingBinding,
                      LifeAnnounced, NamesOf
<1> QED
  BY <1>1, <1>2

\* remove_referrer finds the entry it erases.
LEMMA UnbindListedOnce ==
  ASSUME HeapInv, NEW c \in live, NEW n \in Names, name_map[c][n] \in live
  PROVE  referrers[name_map[c][n]][c] >= Cardinality(NamesOf(c, name_map[c][n]))
         /\ Cardinality(NamesOf(c, name_map[c][n])) >= 1
<1> DEFINE o == name_map[c][n]
<1>1. n \in NamesOf(c, o)
  BY DEF NamesOf
<1>2. Cardinality(NamesOf(c, o)) \in Nat /\ Cardinality(NamesOf(c, o)) # 0
  BY <1>1, NamesOfFinite, FS_EmptySet
<1>3. referrers[o][c] = Cardinality(NamesOf(c, o)) + (IF parent[o] = c THEN 1 ELSE 0)
  BY DEF HeapInv, ReferrersExact
<1> QED
  BY <1>2, <1>3

\* Taking a binding away keeps the heap consistent.
LEMMA UnbindStep ==
  ASSUME HeapInv, NEW c \in live, NEW n \in Names, name_map[c][n] \in live, Unbind(c, n)
  PROVE  HeapInv' /\ live' = live
<1> DEFINE o == name_map[c][n]
<1>a. HeapTypeOK /\ Fresh /\ ReferrersExact /\ NoDanglingBinding /\ LifeAnnounced
  BY DEF HeapInv
<1>b. c \in Ids /\ o \in Ids /\ c < counter /\ o # Null /\ o \in live
  BY <1>a, IdFacts, MaxIdNat DEF HeapTypeOK, Fresh, Root
<1>c. UNCHANGED <<counter, live, kind, parent, placeholder, entity_list, created, deleted,
                  domain_up>>
  BY DEF Unbind
<1>d. referrers[o][c] \in Nat /\ referrers[o][c] - 1 \in Nat
  <2>1. referrers[o][c] \in Nat
    BY <1>a, <1>b DEF HeapTypeOK
  <2> QED
    BY <2>1, UnbindListedOnce, NamesOfFinite
<1>1. /\ name_map' = [name_map EXCEPT ![c][n] = Null]
      /\ referrers' = [referrers EXCEPT ![o][c] = @ - 1]
  BY DEF Unbind
<1> HIDE DEF o
<1>2. HeapTypeOK'
  <2>1. name_map' \in [Ids -> [Names -> Ptr]]
    BY <1>a, <1>b, <1>1, IdFacts DEF HeapTypeOK
  <2>2. referrers' \in [Ids -> [Ids -> Nat]]
    BY <1>a, <1>b, <1>1, <1>d DEF HeapTypeOK
  <2> QED
    BY <1>a, <1>c, <2>1, <2>2 DEF HeapTypeOK
<1>3. \A i, j \in Ids : referrers'[i][j] =
        IF i = o /\ j = c THEN referrers[i][j] - 1 ELSE referrers[i][j]
  BY <1>a, <1>b, <1>1 DEF HeapTypeOK
<1>4. \A i \in Ids, m \in Names : name_map'[i][m] =
        IF i = c /\ m = n THEN Null ELSE name_map[i][m]
  BY <1>a, <1>b, <1>1 DEF HeapTypeOK
<1>5. Fresh'
  <2>1. (\A i, j \in Ids : j >= counter => referrers[i][j] = 0)'
    <3>1. counter \in Nat
      BY <1>a, MaxIdNat DEF HeapTypeOK, Root
    <3>2. \A j \in Ids : j >= counter => j # c
      BY <1>b, <3>1, IdFacts
    <3> QED
      BY <1>a, <1>c, <1>3, <3>2 DEF Fresh
  <2>2. \A i \in Ids \ live : name_map'[i] = name_map[i] /\ referrers'[i] = referrers[i]
    BY <1>a, <1>b, <1>1 DEF HeapTypeOK
  <2> QED
    BY <1>a, <1>c, <2>1, <2>2 DEF Fresh
<1>6. ReferrersExact'
  <2> SUFFICES ASSUME NEW j \in live, NEW i \in live
               PROVE  referrers'[i][j] = Cardinality(NamesOf(j, i)')
                                         + (IF parent'[i] = j THEN 1 ELSE 0)
    BY <1>c DEF ReferrersExact
  <2>a. i \in Ids /\ j \in Ids
    BY <1>a DEF HeapTypeOK
  <2>b. referrers[i][j] = Cardinality(NamesOf(j, i)) + (IF parent[i] = j THEN 1 ELSE 0)
    BY <1>a DEF ReferrersExact
  <2>1. CASE i = o /\ j = c
    <3>1. NamesOf(j, i)' = NamesOf(j, i) \ {n} /\ n \in NamesOf(j, i)
      BY <2>1, <2>a, <1>4, <1>b DEF NamesOf, o
    <3>2. Cardinality(NamesOf(j, i)') = Cardinality(NamesOf(j, i)) - 1
      BY <3>1, NamesOfFinite, FS_RemoveElement
    <3> QED
      BY <2>1, <2>a, <2>b, <3>2, <1>3, <1>c, NamesOfFinite
  <2>2. CASE ~(i = o /\ j = c)
    <3>1. NamesOf(j, i)' = NamesOf(j, i)
      BY <2>2, <2>a, <1>4, <1>b, IdFacts DEF NamesOf, o
    <3> QED
      BY <2>2, <2>a, <2>b, <3>1, <1>3, <1>c
  <2> QED
    BY <2>1, <2>2
<1>7. NoDanglingBinding'
  BY <1>a, <1>c, <1>4 DEF HeapTypeOK, NoDanglingBinding
<1>8. LifeAnnounced'
  BY <1>a, <1>c DEF LifeAnnounced
<1> QED
  BY <1>c, <1>2, <1>5, <1>6, <1>7, <1>8 DEF HeapInv

\* After a deletion the contexts that remain bind what they bound, but for the objects that
\* are gone, and those have no names.
LEMMA DeleteNames ==
  ASSUME HeapInv, NEW D \in SUBSET live, Delete(D)
  PROVE  /\ name_map' \in [Ids -> [Names -> Ptr]]
         /\ \A c, i \in live \ D : NamesOf(c, i)' = NamesOf(c, i)
         /\ \A c \in live \ D, n \in Names : name_map'[c][n] \in (live \ D) \cup {Null}
         /\ \A c \in Ids \ (live \ D) : name_map'[c] = NoBindings
<1>a. HeapTypeOK /\ Fresh /\ ReferrersExact /\ NoDanglingBinding
  BY DEF HeapInv
<1>1. name_map' = [c \in Ids |-> IF c \in D THEN NoBindings
         ELSE [n \in Names |-> IF \E o \in D : n \in Dropped(c, o)
                               THEN Null ELSE name_map[c][n]]]
  BY DEF Delete, Cleared
<1>2. name_map' \in [Ids -> [Names -> Ptr]]
  <2>1. NoBindings \in [Names -> Ptr]
    BY IdFacts DEF NoBindings
  <2>2. \A c \in Ids : [n \in Names |-> IF \E o \in D : n \in Dropped(c, o)
                                       THEN Null ELSE name_map[c][n]] \in [Names -> Ptr]
    BY <1>a, IdFacts DEF HeapTypeOK
  <2> QED
    BY <1>1, <2>1, <2>2
<1>3. \A c \in live \ D, n \in Names :
         name_map'[c][n] = IF name_map[c][n] \in D THEN Null ELSE name_map[c][n]
  <2> SUFFICES ASSUME NEW c \in live \ D, NEW n \in Names
               PROVE  name_map'[c][n] = IF name_map[c][n] \in D THEN Null ELSE name_map[c][n]
    OBVIOUS
  <2>1. name_map'[c][n] = IF \E o \in D : n \in Dropped(c, o) THEN Null ELSE name_map[c][n]
    BY <1>1, <1>a DEF HeapTypeOK
  <2>2. \A o \in D : n \in Dropped(c, o) <=> name_map[c][n] = o
    <3> SUFFICES ASSUME NEW o \in D PROVE n \in Dropped(c, o) <=> name_map[c][n] = o
      OBVIOUS
    <3>1. Dropped(c, o) = NamesOf(c, o)
      BY <1>a, DroppedAll
    <3> QED
      BY <3>1 DEF NamesOf
  <2> QED
    BY <2>1, <2>2
<1>4. \A c, i \in live \ D : NamesOf(c, i)' = NamesOf(c, i)
  <2> SUFFICES ASSUME NEW c \in live \ D, NEW i \in live \ D
               PROVE  NamesOf(c, i)' = NamesOf(c, i)
    OBVIOUS
  <2>1. i # Null
    BY <1>a, IdFacts DEF HeapTypeOK
  <2> QED
    BY <2>1, <1>3 DEF NamesOf
<1>5. \A c \in live \ D, n \in Names : name_map'[c][n] \in (live \ D) \cup {Null}
  BY <1>a, <1>3 DEF NoDanglingBinding
<1>6. \A c \in Ids \ (live \ D) : name_map'[c] = NoBindings
  <2> SUFFICES ASSUME NEW c \in Ids \ (live \ D) PROVE name_map'[c] = NoBindings
    OBVIOUS
  <2>1. CASE c \in D
    BY <2>1, <1>1
  <2>2. CASE c \notin D
    <3>1. \A n \in Names : name_map[c][n] = Null
      BY <2>2, <1>a DEF Fresh, NoBindings
    <3> QED
      BY <2>2, <1>1, <3>1 DEF NoBindings
  <2> QED
    BY <2>1, <2>2
<1> QED
  BY <1>2, <1>4, <1>5, <1>6

\* refs are referrer lists that agree with those of the heap on what remains without D.
KeepsLists(D, refs) ==
  /\ \A i \in Ids \ D : refs[i] \in [Ids -> Nat]
  /\ \A i \in Ids \ live : refs[i] = NoReferrers
  /\ \A i, c \in Ids : c >= counter => refs[i][c] = 0
  /\ \A i, c \in live \ D : refs[i][c] = referrers[i][c]

\* Deleting objects keeps the heap consistent, whatever the lists of the deleted objects held.
LEMMA DeleteStep ==
  ASSUME HeapInv, NEW D \in SUBSET live, Delete(D), NEW refs,
         KeepsLists(D, refs), referrers' = Forget(refs, D),
         domain_up' \in BOOLEAN,
         deleted' \subseteq Ids,
         \/ domain_up' = domain_up /\ deleted' = deleted \cup D
         \/ domain_up' = FALSE
  PROVE  HeapInv'
<1>a. HeapTypeOK /\ Fresh /\ ReferrersExact /\ NoDanglingBinding /\ LifeAnnounced
  BY DEF HeapInv
<1>b. /\ live' = live \ D /\ placeholder' = placeholder \ D
      /\ UNCHANGED <<counter, kind, parent, entity_list, created>>
  BY DEF Delete
<1>c. D \subseteq Ids /\ live \subseteq Ids
  BY <1>a DEF HeapTypeOK
<1>1. \A i \in Ids : referrers'[i] = IF i \in D THEN NoReferrers ELSE refs[i]
  BY DEF Forget
<1>2. HeapTypeOK'
  <2>1. NoReferrers \in [Ids -> Nat]
    BY DEF NoReferrers
  <2>2. referrers' \in [Ids -> [Ids -> Nat]]
    BY <1>1, <2>1 DEF Forget, KeepsLists
  <2> QED
    BY <1>a, <1>b, <2>2, DeleteNames DEF HeapTypeOK
<1>3. Fresh'
  <2>1. (\A i, c \in Ids : c >= counter => referrers[i][c] = 0)'
    BY <1>1, <1>b DEF NoReferrers, KeepsLists
  <2>2. (\A i \in Ids \ live : name_map[i] = NoBindings /\ referrers[i] = NoReferrers)'
    BY <1>1, <1>b, <1>c, DeleteNames DEF KeepsLists
  <2> QED
    BY <1>a, <1>b, <1>c, <2>1, <2>2 DEF Fresh
<1>4. ReferrersExact'
  <2> SUFFICES ASSUME NEW c \in live', NEW i \in live'
               PROVE  referrers'[i][c] = Cardinality(NamesOf(c, i)')
                                         + (IF parent'[i] = c THEN 1 ELSE 0)
    BY DEF ReferrersExact
  <2>1. c \in live \ D /\ i \in live \ D /\ c \in Ids /\ i \in Ids
    BY <1>b, <1>c
  <2>2. NamesOf(c, i)' = NamesOf(c, i)
    BY <2>1, DeleteNames
  <2>3. referrers'[i][c] = referrers[i][c]
    BY <2>1, <1>1 DEF KeepsLists
  <2> QED
    BY <2>1, <2>2, <2>3, <1>a, <1>b DEF ReferrersExact
<1>5. NoDanglingBinding'
  BY <1>b, DeleteNames DEF NoDanglingBinding
<1>6. LifeAnnounced'
  <2>1. (\A o \in live : created[o] = IF o \in placeholder THEN 0 ELSE 1)'
    BY <1>a, <1>b DEF LifeAnnounced
  <2>2. domain_up' => deleted' = {o \in Ids \ live' : kind'[o] \in {"context", "entity"}}
    BY <1>a, <1>b, <1>c DEF LifeAnnounced, Fresh
  <2> QED
    BY <2>1, <2>2 DEF LifeAnnounced
<1> QED
  BY <1>2, <1>3, <1>4, <1>5, <1>6 DEF HeapInv

\* Removing one object by its id.
LEMMA DeleteOneStep ==
  ASSUME HeapInv, NEW o \in live, Delete({o}), deleted' = deleted \cup {o},
         referrers' = Forget(referrers, {o}), UNCHANGED domain_up
  PROVE  HeapInv'
<1>a. HeapTypeOK /\ Fresh
  BY DEF HeapInv
<1> DEFINE D == {o}
<1>2. D \in SUBSET live /\ Delete(D) /\ deleted' = deleted \cup D
  OBVIOUS
<1>3. PICK refs : refs = referrers /\ referrers' = Forget(refs, D)
  OBVIOUS
<1>4. KeepsLists(D, refs)
  BY <1>a, <1>3 DEF HeapTypeOK, Fresh, KeepsLists
<1>5. domain_up' \in BOOLEAN /\ deleted' \subseteq Ids /\ domain_up' = domain_up
  BY <1>a DEF HeapTypeOK
<1> HIDE DEF D
<1> QED
  BY <1>2, <1>3, <1>4, <1>5, DeleteStep

(***************************************************************************)
(* Requests.                                                               *)
(***************************************************************************)

\* A request that stops the server, other than in remove_referrer.
LEMMA CrashStep ==
  ASSUME IInv, NEW why \in Faults \ {"bad_erase"}, Crash(why)
  PROVE  IInv'
<1>1. HeapInv'
  BY DEF IInv, Crash, heap, HeapInv, HeapTypeOK, Fresh, ReferrersExact, NoDanglingBinding,
         LifeAnnounced, NamesOf
<1>2. RequestInv'
  BY DEF IInv, Crash, heap, RequestInv, RequestTypeOK, InFlight, NoBadErase
<1> QED
  BY <1>1, <1>2 DEF IInv

\* The heap does not change.
LEMMA SameHeap ==
  ASSUME HeapInv, UNCHANGED heap
  PROVE  HeapInv' /\ live' = live
BY DEF heap, HeapInv, HeapTypeOK, Fresh, ReferrersExact, NoDanglingBinding, LifeAnnounced, NamesOf

\* The end of a request.
LEMMA EndStep ==
  ASSUME RequestInv, HeapInv', req' = Idle, reply' \in [status : {-1, 0, 1}, id : Ptr],
         UNCHANGED fault
  PROVE  IInv'
<1>1. Idle \in Request
  BY IdFacts, EmptySeq DEF Idle, Request, Ops, Goals
<1>2. RequestInv'
  BY <1>1 DEF RequestInv, RequestTypeOK, InFlight, NoBadErase, Idle
<1> QED
  BY <1>2 DEF IInv

LEMMA AnswerStep ==
  ASSUME RequestInv, HeapInv', NEW status \in {-1, 0, 1}, NEW id \in Ptr, Answer(status, id)
  PROVE  IInv'
BY EndStep DEF Answer

\* A step within a request that creates objects at most.
LEMMA ProgressStep ==
  ASSUME RequestInv, HeapInv', live \subseteq live', req' \in Request,
         req'.src = req.src, req'.link = req.link, req'.op = req.op, req'.goal = req.goal,
         req'.pc = "done" /\ req'.goal = "find" => req'.val \in live' \cup {Null},
         UNCHANGED <<reply, fault>>
  PROVE  IInv'
<1>1. InFlight'
  BY DEF RequestInv, InFlight
<1>2. RequestTypeOK' /\ NoBadErase'
  BY DEF RequestInv, RequestTypeOK, NoBadErase
<1> QED
  BY <1>1, <1>2 DEF IInv, RequestInv

\* Entering get_context_of_name gives a request; what it holds for later is kept.
LEMMA WalkingType ==
  ASSUME NEW r \in Request, NEW base \in Ptr, NEW path \in Seq(Names)
  PROVE  \A w \in {Walking(r, base, path)} :
           /\ w \in Request /\ w.pc = "walk"
           /\ w.src = r.src /\ w.link = r.link /\ w.op = r.op /\ w.goal = r.goal
<1> DEFINE c == IF base = Null THEN Root ELSE base
<1>1. c \in Ptr
  BY IdFacts
<1>2. Walking(r, base, path) = [r EXCEPT !.pc = "walk", !.from = c, !.ctx = c,
                                         !.name = path, !.at = 0, !.val = Null]
  BY DEF Walking
<1> HIDE DEF c
<1>3. 0 \in Nat /\ Null \in Ptr
  BY IdFacts
<1> DEFINE w == [r EXCEPT !.pc = "walk", !.from = c, !.ctx = c,
                          !.name = path, !.at = 0, !.val = Null]
<1>4. w \in Request
  BY <1>1, <1>3 DEF Request
<1>5. w.pc = "walk" /\ w.src = r.src /\ w.link = r.link /\ w.op = r.op /\ w.goal = r.goal
  BY DEF Request
<1> QED
  BY <1>2, <1>4, <1>5

\* A request arrives and enters get_context_of_name.
LEMMA ReceiveStep ==
  ASSUME IInv, NEW r \in Request, r.src = Null,
         r.op \in {"bind_context", "bind_entity", "remove_context"} => r.goal = "find",
         NEW base \in Ptr, NEW path \in Seq(Names), Receive(r, base, path)
  PROVE  IInv'
<1>1. CASE domain_up
  <2>1. /\ req' = [Walking(r, Deref(base), path) EXCEPT !.base = base]
        /\ reply' = NoReply /\ UNCHANGED <<heap, fault>>
    BY <1>1 DEF Receive
  <2>2. HeapInv' /\ live' = live
    BY <2>1, SameHeap DEF IInv
  <2>3. Deref(base) \in Ptr
    BY IdFacts DEF Deref
  <2>4. req' \in Request /\ req'.src = Null /\ req'.pc = "walk"
        /\ req'.op = r.op /\ req'.goal = r.goal
    <3>1. PICK w \in Request : w = Walking(r, Deref(base), path)
      BY <2>3, WalkingType
    <3>2. w.pc = "walk" /\ w.src = r.src /\ w.op = r.op /\ w.goal = r.goal
      BY <2>3, <3>1, WalkingType
    <3>3. req' = [w EXCEPT !.base = base]
      BY <2>1, <3>1
    <3> QED
      BY <3>2, <3>3 DEF Request
  <2>5. RequestTypeOK' /\ NoBadErase'
    BY <2>1, <2>4, IdFacts DEF IInv, RequestInv, RequestTypeOK, NoReply, NoBadErase
  <2>6. InFlight'
    BY <2>4 DEF InFlight
  <2> QED
    BY <2>2, <2>5, <2>6 DEF IInv, RequestInv
<1>2. CASE ~domain_up
  <2>1. Crash("null")
    BY <1>2 DEF Receive
  <2> QED
    BY <2>1, CrashStep DEF Faults
<1> QED
  BY <1>1, <1>2

\* A bind has its source and goes on to the new name.
LEMMA ToLinkStep ==
  ASSUME IInv, NEW r \in Request, r.op \in {"bind_context", "bind_entity"},
         NEW src \in live, ToLink(r, src)
  PROVE  IInv'
<1>1. CASE Len(r.link) < 2
  <2>1. Crash("null")
    BY <1>1 DEF ToLink
  <2> QED
    BY <2>1, CrashStep DEF Faults
<1>2. CASE ~(Len(r.link) < 2)
  <2> DEFINE b == IF r.op = "bind_context" THEN Null ELSE Deref(r.to)
             q == [r EXCEPT !.goal = "create", !.type = "context", !.src = src]
  <2>1. req' = Walking(q, b, Front(r.link)) /\ UNCHANGED <<heap, reply, fault>>
    BY <1>2 DEF ToLink
  <2>2. HeapInv' /\ live' = live
    BY <2>1, SameHeap DEF IInv
  <2>3. src \in Ids /\ src # Null /\ b \in Ptr
    <3>1. live \subseteq Ids
      BY DEF IInv, HeapInv, HeapTypeOK
    <3> QED
      BY <3>1, IdFacts DEF Deref
  <2>4. Front(r.link) \in Seq(Names) /\ Len(r.link) \in Nat
    <3>1. r.link \in Seq(Names)
      BY DEF Request
    <3>2. \A i \in 1 .. Len(r.link) - 1 : r.link[i] \in Names
      BY <3>1, ElementOfSeq, LenProperties
    <3> QED
      BY <3>1, <3>2, LenProperties, SubSeqProperties DEF Front
  <2>5. q \in Request /\ q.src = src /\ q.link = r.link /\ q.goal = "create"
        /\ q.op # "remove_context"
    BY <2>3, IdFacts DEF Request, Goals
  <2> HIDE DEF q, b
  <2>6. /\ req' \in Request /\ req'.src = src /\ req'.link = r.link
        /\ req'.goal = "create" /\ req'.pc = "walk" /\ req'.op # "remove_context"
    BY <2>1, <2>3, <2>4, <2>5, WalkingType
  <2>7. RequestTypeOK' /\ NoBadErase'
    BY <2>1, <2>6 DEF IInv, RequestInv, RequestTypeOK, NoBadErase
  <2>8. InFlight'
    BY <2>2, <2>3, <2>4, <2>6, <1>2 DEF InFlight
  <2> QED
    BY <2>2, <2>7, <2>8 DEF IInv, RequestInv
<1> QED
  BY <1>1, <1>2

\* Between requests nothing is held.
LEMMA IdleType ==
  Idle \in Request /\ Idle.src = Null /\ Idle.goal = "find" /\ Idle.op = "resolve"
BY IdFacts, EmptySeq DEF Idle, Request, Ops, Goals

\* The requests that begin with Receive.
LEMMA ArrivalStep ==
  ASSUME IInv, NEW base \in Ptr, NEW path \in Seq(Names),
         NEW type \in {"context", "entity"}, NEW goal \in {"create", "find"},
         \/ CreateContext(base, path) \/ CreateEntity(base, path) \/ GetStone(type, base, path)
         \/ EntityData(goal, base, path) \/ Resolve(base, path)
         \/ UnbindName("unbind", base, path) \/ UnbindName("remove_entity", base, path)
         \/ RemoveContextByName(base, path)
  PROVE  IInv'
<1> USE IdleType
<1>1. CASE CreateContext(base, path)
  <2> DEFINE r == [Idle EXCEPT !.op = "create_context", !.goal = "create"]
  <2>1. r \in Request /\ r.src = Null /\ r.op = "create_context"
    BY DEF Request, Ops, Goals
  <2>2. Receive(r, base, path)
    BY <1>1 DEF CreateContext
  <2> HIDE DEF r
  <2> QED
    BY <2>1, <2>2, ReceiveStep
<1>2. CASE CreateEntity(base, path)
  <2> DEFINE r == [Idle EXCEPT !.op = "create_entity", !.goal = "create", !.type = "entity"]
  <2>1. r \in Request /\ r.src = Null /\ r.op = "create_entity"
    BY DEF Request, Ops, Goals
  <2>2. Receive(r, base, path)
    BY <1>2 DEF CreateEntity
  <2> HIDE DEF r
  <2> QED
    BY <2>1, <2>2, ReceiveStep
<1>3. CASE GetStone(type, base, path)
  <2> DEFINE r == [Idle EXCEPT !.op = "get_stone", !.goal = "create", !.type = type,
                               !.holders = TRUE]
  <2>1. r \in Request /\ r.src = Null /\ r.op = "get_stone"
    BY DEF Request, Ops, Goals
  <2>2. \/ Receive(r, base, path)
        \/ Answer(-1, Null) /\ UNCHANGED heap
    BY <1>3 DEF GetStone
  <2> HIDE DEF r
  <2>3. CASE Receive(r, base, path)
    BY <2>1, <2>3, ReceiveStep
  <2>4. CASE Answer(-1, Null) /\ UNCHANGED heap
    BY <2>4, SameHeap, AnswerStep, IdFacts DEF IInv
  <2> QED
    BY <2>2, <2>3, <2>4
<1>4. CASE EntityData(goal, base, path)
  <2> DEFINE r == [Idle EXCEPT !.op = "entity_data", !.goal = goal, !.type = "entity"]
  <2>1. r \in Request /\ r.src = Null /\ r.op = "entity_data"
    BY DEF Request, Ops, Goals
  <2>2. Receive(r, base, path)
    BY <1>4 DEF EntityData
  <2> HIDE DEF r
  <2> QED
    BY <2>1, <2>2, ReceiveStep
<1>5. CASE Resolve(base, path)
  <2> DEFINE r == [Idle EXCEPT !.op = "resolve"]
  <2>1. r \in Request /\ r.src = Null /\ r.op = "resolve"
    BY DEF Request, Ops
  <2>2. Receive(r, base, path)
    BY <1>5 DEF Resolve
  <2> HIDE DEF r
  <2> QED
    BY <2>1, <2>2, ReceiveStep
<1>6. ASSUME NEW op \in {"unbind", "remove_entity"}, UnbindName(op, base, path)
      PROVE  IInv'
  <2> DEFINE r == [Idle EXCEPT !.op = op, !.goal = "unbind"]
  <2>1. r \in Request /\ r.src = Null /\ r.op = op
    BY DEF Request, Ops, Goals
  <2>2. Receive(r, base, path)
    BY <1>6 DEF UnbindName
  <2> HIDE DEF r
  <2> QED
    BY <2>1, <2>2, ReceiveStep
<1>7. CASE RemoveContextByName(base, path)
  <2> DEFINE r == [Idle EXCEPT !.op = "remove_context"]
  <2>1. r \in Request /\ r.src = Null /\ r.op = "remove_context" /\ r.goal = "find"
    BY DEF Request, Ops
  <2>2. Receive(r, base, path)
    BY <1>7 DEF RemoveContextByName
  <2> HIDE DEF r
  <2> QED
    BY <2>1, <2>2, ReceiveStep
<1> QED
  BY <1>1, <1>2, <1>3, <1>4, <1>5, <1>6, <1>7

\* The binds.
LEMMA BindArrivalStep ==
  ASSUME IInv, NEW op \in {"bind_context", "bind_entity"}, NEW path \in Seq(Names),
         NEW base \in Ptr, NEW link \in Seq(Names), NEW id \in Ids,
         BindByName(op, path, base, link) \/ BindById(op, id, base, link)
  PROVE  IInv'
<1> DEFINE r == [Idle EXCEPT !.op = op, !.to = base, !.link = link]
<1>1. r \in Request /\ r.src = Null /\ r.op = op /\ r.goal = "find"
  BY IdleType DEF Request, Ops
<1> HIDE DEF r
<1>2. CASE BindByName(op, path, base, link)
  <2>1. Receive(r, Null, path)
    BY <1>2 DEF BindByName, r
  <2> QED
    BY <1>1, <2>1, ReceiveStep, IdFacts
<1>3. CASE BindById(op, id, base, link)
  <2>1. \/ Crash("null") \/ Crash("exit")
        \/ id \in live /\ ToLink(r, id)
        \/ Answer(-1, Null) /\ UNCHANGED heap
    BY <1>3 DEF BindById, Deref, r
  <2>2. CASE Crash("null") \/ Crash("exit")
    BY <2>2, CrashStep DEF Faults
  <2>3. CASE id \in live /\ ToLink(r, id)
    BY <1>1, <2>3, ToLinkStep
  <2>4. CASE Answer(-1, Null) /\ UNCHANGED heap
    BY <2>4, SameHeap, AnswerStep, IdFacts DEF IInv
  <2> QED
    BY <2>1, <2>2, <2>3, <2>4
<1> QED
  BY <1>2, <1>3

\* The walk along the leading components.
LEMMA WalkStepStep ==
  ASSUME IInv, WalkStep
  PROVE  IInv'
<1> DEFINE n == req.name[req.at + 1]
           Step(c) == req' = [req EXCEPT !.ctx = c, !.at = @ + 1]
<1>a. HeapInv /\ RequestInv /\ req \in Request /\ req.pc = "walk"
  BY DEF IInv, RequestInv, RequestTypeOK, WalkStep, Running
<1>b. n \in Names
  <2>1. req.name \in Seq(Names) /\ req.at \in Nat /\ req.at + 1 < Len(req.name)
    BY <1>a DEF WalkStep, Request
  <2>2. req.at + 1 \in 1 .. Len(req.name)
    BY <2>1, LenProperties
  <2> QED
    BY <2>1, <2>2, ElementOfSeq
<1>c. ASSUME NEW c \in Ptr, Step(c), HeapInv', live \subseteq live', UNCHANGED <<reply, fault>>
      PROVE  IInv'
  <2>1. req.at + 1 \in Nat
    BY <1>a DEF Request
  <2>2. req' = [req EXCEPT !.ctx = c, !.at = req.at + 1]
    BY <1>c
  <2>3. req' \in Request
    BY <1>a, <2>1, <2>2 DEF Request
  <2>4. /\ req'.src = req.src /\ req'.link = req.link
        /\ req'.op = req.op /\ req'.goal = req.goal /\ req'.pc = req.pc
    BY <1>a, <2>2 DEF Request
  <2> QED
    BY <2>3, <2>4, <1>a, <1>c, ProgressStep
<1>1. PICK p, o : p = req.ctx /\ o = name_map[p][n]
  OBVIOUS
<1>d. p \in Ptr
  BY <1>a, <1>1 DEF Request
<1>2. \/ Crash("freed")
      \/ Step(Null) /\ UNCHANGED <<heap, reply, fault>>
      \/ o \in live /\ o \in placeholder /\ MakeReal(o) /\ Step(o) /\ UNCHANGED <<reply, fault>>
      \/ o \in live /\ Step(o) /\ UNCHANGED <<heap, reply, fault>>
      \/ /\ p \in live /\ o = Null
         /\ \E real \in BOOLEAN : NewObject("context", p, n, real)
         /\ Step(NewId) /\ UNCHANGED <<reply, fault>>
  BY <1>1 DEF WalkStep
<1> HIDE DEF n, Step
<1>3. CASE Crash("freed")
  BY <1>3, CrashStep DEF Faults
<1>4. CASE Step(Null) /\ UNCHANGED <<heap, reply, fault>>
  BY <1>4, <1>a, <1>c, SameHeap, IdFacts
<1>5. CASE /\ o \in live /\ o \in placeholder /\ MakeReal(o) /\ Step(o)
           /\ UNCHANGED <<reply, fault>>
  <2>1. HeapInv' /\ live' = live
    BY <1>5, <1>a, MakeRealStep
  <2>2. o \in Ptr
    BY <1>5, <1>a, IdFacts DEF HeapInv, HeapTypeOK
  <2> QED
    BY <1>5, <2>1, <2>2, <1>c
<1>6. CASE o \in live /\ Step(o) /\ UNCHANGED <<heap, reply, fault>>
  <2>1. o \in Ptr
    BY <1>6, <1>a, IdFacts DEF HeapInv, HeapTypeOK
  <2> QED
    BY <1>6, <2>1, <1>a, <1>c, SameHeap
<1>7. CASE /\ p \in live /\ o = Null
           /\ \E real \in BOOLEAN : NewObject("context", p, n, real)
           /\ Step(NewId) /\ UNCHANGED <<reply, fault>>
  <2>1. PICK real \in BOOLEAN : NewObject("context", p, n, real)
    BY <1>7
  <2>2. name_map[p][n] = Null
    BY <1>7, <1>1
  <2>3. HeapInv' /\ live' = live \cup {NewId} /\ NewId \in Ids
    BY <1>7, <1>a, <1>b, <2>1, <2>2, NewObjectStep
  <2>4. PICK i : i = NewId /\ Step(i)
    BY <1>7
  <2> QED
    BY <1>7, <2>3, <2>4, <1>c, IdFacts
<1> QED
  BY <1>2, <1>3, <1>4, <1>5, <1>6, <1>7

\* The last component has been looked up.
LEMMA ReturnStep ==
  ASSUME RequestInv, HeapInv', live \subseteq live', NEW o \in Ptr,
         req.goal = "find" => o \in live' \cup {Null}, Return(o)
  PROVE  IInv'
<1>1. req \in Request
  BY DEF RequestInv, RequestTypeOK
<1>2. req' = [req EXCEPT !.pc = "done", !.val = o] /\ UNCHANGED <<reply, fault>>
  BY DEF Return
<1>3. req' \in Request
  BY <1>1, <1>2 DEF Request
<1>4. /\ req'.src = req.src /\ req'.link = req.link
      /\ req'.op = req.op /\ req'.goal = req.goal /\ req'.val = o
  BY <1>1, <1>2 DEF Request
<1> QED
  BY <1>2, <1>3, <1>4, ProgressStep

\* The last component of a name that has one.
LEMMA LastType ==
  ASSUME NEW s \in Seq(Names), s # <<>>
  PROVE  Last(s) \in Names
<1>1. Len(s) \in 1 .. Len(s)
  BY EmptySeq
<1> QED
  BY <1>1, ElementOfSeq DEF Last

LEMMA LookupOrCreateStep ==
  ASSUME IInv, LookupOrCreate
  PROVE  IInv'
<1>a. HeapInv /\ RequestInv /\ req \in Request /\ req.goal = "create"
  BY DEF IInv, RequestInv, RequestTypeOK, LookupOrCreate, Walked
<1>1. PICK p, n, o : p = req.ctx /\ n = Last(req.name) /\ o = name_map[p][n]
  OBVIOUS
<1>b. req.name # <<>> => n \in Names
  BY <1>a, <1>1, LastType DEF Request
<1>c. req.type \in {"context", "entity"}
  BY <1>a DEF Request
<1>2. \/ Return(Root) /\ UNCHANGED heap
      \/ Crash("null") \/ Crash("freed")
      \/ /\ req.name # <<>> /\ p \in live /\ o = Null
         /\ \E real \in BOOLEAN : NewObject(req.type, p, n, real)
         /\ Return(NewId)
      \/ o \in live /\ o \in placeholder /\ MakeReal(o) /\ Return(o)
      \/ o \in live /\ Return(o) /\ UNCHANGED heap
  BY <1>1 DEF LookupOrCreate
<1>3. CASE Return(Root) /\ UNCHANGED heap
  BY <1>3, <1>a, SameHeap, ReturnStep, IdFacts
<1>4. CASE Crash("null") \/ Crash("freed")
  BY <1>4, CrashStep DEF Faults
<1>5. CASE /\ req.name # <<>> /\ p \in live /\ o = Null
           /\ \E real \in BOOLEAN : NewObject(req.type, p, n, real)
           /\ Return(NewId)
  <2>1. PICK real \in BOOLEAN, type \in {"context", "entity"} :
          type = req.type /\ NewObject(type, p, n, real)
    BY <1>5, <1>c
  <2>2. name_map[p][n] = Null
    BY <1>5, <1>1
  <2>3. HeapInv' /\ live' = live \cup {NewId} /\ NewId \in Ids
    BY <1>5, <1>a, <1>b, <2>1, <2>2, NewObjectStep
  <2>4. PICK i : i = NewId /\ Return(i)
    BY <1>5
  <2> QED
    BY <1>a, <2>3, <2>4, ReturnStep, IdFacts
<1>6. CASE o \in live /\ o \in placeholder /\ MakeReal(o) /\ Return(o)
  <2>1. HeapInv' /\ live' = live
    BY <1>6, <1>a, MakeRealStep
  <2>2. o \in Ptr
    BY <1>6, <1>a, IdFacts DEF HeapInv, HeapTypeOK
  <2> QED
    BY <1>6, <1>a, <2>1, <2>2, ReturnStep
<1>7. CASE o \in live /\ Return(o) /\ UNCHANGED heap
  <2>1. o \in Ptr
    BY <1>7, <1>a, IdFacts DEF HeapInv, HeapTypeOK
  <2> QED
    BY <1>7, <1>a, <2>1, SameHeap, ReturnStep
<1> QED
  BY <1>2, <1>3, <1>4, <1>5, <1>6, <1>7

LEMMA LookupStep ==
  ASSUME IInv, Lookup
  PROVE  IInv'
<1>a. HeapInv /\ RequestInv /\ live \subseteq Ids
  BY DEF IInv, HeapInv, HeapTypeOK
<1>1. \/ Crash("freed")
      \/ \E o \in live \cup {Null} : Return(o) /\ UNCHANGED heap
  <2>1. PICK p, o : p = req.ctx /\ o = name_map[p][Last(req.name)]
    OBVIOUS
  <2> QED
    BY <2>1 DEF Lookup
<1>2. CASE Crash("freed")
  BY <1>2, CrashStep DEF Faults
<1>3. CASE \E o \in live \cup {Null} : Return(o) /\ UNCHANGED heap
  <2>1. PICK o \in live \cup {Null} : Return(o) /\ UNCHANGED heap
    BY <1>3
  <2>2. o \in Ptr
    BY <1>a, IdFacts
  <2> QED
    BY <1>a, <2>1, <2>2, SameHeap, ReturnStep
<1> QED
  BY <1>1, <1>2, <1>3

LEMMA RemoveBindingStep ==
  ASSUME IInv, RemoveBinding
  PROVE  IInv'
<1>a. HeapInv /\ RequestInv /\ req \in Request
  BY DEF IInv, RequestInv, RequestTypeOK
<1>1. PICK p, n, o : p = req.ctx /\ n = Last(req.name) /\ o = name_map[p][n]
  OBVIOUS
<1>b. req.name # <<>> => n \in Names
  BY <1>a, <1>1, LastType DEF Request
<1>2. \/ Answer(-1, Null) /\ UNCHANGED heap
      \/ Crash("null") \/ Crash("freed")
      \/ /\ req.name # <<>> /\ p \in live /\ o \in live
         /\ \/ referrers[o][p] = 0
            \/ Unbind(p, n) /\ Answer(1, Null)
  BY <1>1 DEF RemoveBinding
<1>3. CASE Answer(-1, Null) /\ UNCHANGED heap
  BY <1>3, <1>a, SameHeap, AnswerStep, IdFacts
<1>4. CASE Crash("null") \/ Crash("freed")
  BY <1>4, CrashStep DEF Faults
<1>5. CASE /\ req.name # <<>> /\ p \in live /\ o \in live
           /\ \/ referrers[o][p] = 0
              \/ Unbind(p, n) /\ Answer(1, Null)
  <2>1. referrers[o][p] >= Cardinality(NamesOf(p, o)) /\ Cardinality(NamesOf(p, o)) >= 1
    BY <1>5, <1>a, <1>b, <1>1, UnbindListedOnce
  <2>2. referrers[o][p] # 0
    BY <2>1, NamesOfFinite
  <2>3. HeapInv' /\ live' = live
    BY <1>5, <1>a, <1>b, <1>1, <2>2, UnbindStep
  <2> QED
    BY <1>5, <1>a, <2>2, <2>3, AnswerStep, IdFacts
<1> QED
  BY <1>2, <1>3, <1>4, <1>5

\* The tails that change nothing.
LEMMA TailStep ==
  ASSUME IInv, FinishCreate \/ FinishGetStone \/ FinishEntityData \/ FinishResolve
  PROVE  IInv'
<1>a. HeapInv /\ RequestInv /\ req \in Request /\ req.val \in Ptr
  BY DEF IInv, RequestInv, RequestTypeOK, Request
<1>1. \/ Crash("null") \/ Crash("freed")
      \/ \E status \in {-1, 0, 1}, id \in Ptr : Answer(status, id) /\ UNCHANGED heap
  <2>1. Null \in Ptr
    BY IdFacts
  <2> QED
    BY <1>a, <2>1 DEF FinishCreate, FinishGetStone, FinishEntityData, FinishResolve
<1>2. CASE Crash("null") \/ Crash("freed")
  BY <1>2, CrashStep DEF Faults
<1>3. CASE \E status \in {-1, 0, 1}, id \in Ptr : Answer(status, id) /\ UNCHANGED heap
  BY <1>3, <1>a, SameHeap, AnswerStep
<1> QED
  BY <1>1, <1>2, <1>3

LEMMA FoundSourceStep ==
  ASSUME IInv, FoundSource
  PROVE  IInv'
<1>a. HeapInv /\ RequestInv /\ req \in Request
  BY DEF IInv, RequestInv, RequestTypeOK
<1>b. req.val \in live \cup {Null} /\ req.op \in {"bind_context", "bind_entity"}
  BY <1>a DEF RequestInv, InFlight, FoundSource, Running
<1>1. PICK r \in Request : r = req
  BY <1>a
<1>2. \/ Crash("exit")
      \/ Answer(-1, Null) /\ UNCHANGED heap
      \/ \E s \in live : ToLink(r, s)
  BY <1>1, <1>b DEF FoundSource, As, ToLink
<1>3. CASE Crash("exit")
  BY <1>3, CrashStep DEF Faults
<1>4. CASE Answer(-1, Null) /\ UNCHANGED heap
  BY <1>4, <1>a, SameHeap, AnswerStep, IdFacts
<1>5. CASE \E s \in live : ToLink(r, s)
  BY <1>5, <1>1, <1>b, ToLinkStep
<1> QED
  BY <1>2, <1>3, <1>4, <1>5

LEMMA FinishBindStep ==
  ASSUME IInv, FinishBind
  PROVE  IInv'
<1>a. HeapInv /\ RequestInv /\ req \in Request
  BY DEF IInv, RequestInv, RequestTypeOK
<1>b. req.src \in live /\ Len(req.link) >= 2
  BY <1>a DEF RequestInv, InFlight, FinishBind
<1>1. PICK c, n, o : c = As("context", req.val) /\ n = Last(req.link) /\ o = req.src
  OBVIOUS
<1>2. n \in Names
  BY <1>a, <1>b, <1>1, LastType, EmptySeq DEF Request
<1>3. \/ Crash("freed") \/ Crash("null")
      \/ Answer(0, Null) /\ UNCHANGED heap
      \/ c \in live /\ Bind(c, n, o) /\ Answer(1, Null)
  BY <1>1 DEF FinishBind, As
<1>4. CASE Crash("freed") \/ Crash("null")
  BY <1>4, CrashStep DEF Faults
<1>5. CASE Answer(0, Null) /\ UNCHANGED heap
  BY <1>5, <1>a, SameHeap, AnswerStep, IdFacts
<1>6. CASE c \in live /\ Bind(c, n, o) /\ Answer(1, Null)
  <2>1. HeapInv' /\ live' = live
    BY <1>6, <1>a, <1>b, <1>1, <1>2, BindStep
  <2> QED
    BY <1>6, <1>a, <2>1, AnswerStep, IdFacts
<1> QED
  BY <1>3, <1>4, <1>5, <1>6

\* Removing a context, by name or by id.
LEMMA DeleteContextStep ==
  ASSUME IInv, NEW c \in live \cup {Null}, DeleteContext(c)
  PROVE  IInv'
<1>a. HeapInv /\ RequestInv /\ Null \notin live
  BY IdFacts DEF IInv, HeapInv, HeapTypeOK
<1>1. CASE Answer(1, Null) /\ UNCHANGED heap
  BY <1>1, <1>a, SameHeap, AnswerStep, IdFacts
<1>2. CASE Crash("freed")
  BY <1>2, CrashStep DEF Faults
<1>3. CASE /\ c \in live /\ Delete({c}) /\ deleted' = deleted \cup {c}
           /\ referrers' = Forget(referrers, {c})
           /\ Answer(1, Null) /\ UNCHANGED domain_up
  BY <1>3, <1>a, DeleteOneStep, AnswerStep, IdFacts
<1> QED
  BY <1>1, <1>2, <1>3 DEF DeleteContext

LEMMA RemoveContextStep ==
  ASSUME IInv, FinishRemoveContext \/ (\E c \in KnownContexts : RemoveContextById(c))
  PROVE  IInv'
<1>a. RequestInv
  BY DEF IInv
<1>1. CASE FinishRemoveContext
  <2>1. req.val \in live \cup {Null}
    BY <1>1, <1>a DEF FinishRemoveContext, Ending, Running, RequestInv, InFlight
  <2>2. PICK c : c = As("context", req.val)
    OBVIOUS
  <2>3. c \in live \cup {Null}
    BY <2>1, <2>2 DEF As
  <2>4. DeleteContext(c)
    BY <1>1, <2>2 DEF FinishRemoveContext, DeleteContext
  <2> QED
    BY <2>3, <2>4, DeleteContextStep
<1>2. ASSUME NEW d \in KnownContexts, RemoveContextById(d) PROVE IInv'
  <2>1. PICK c : c = Deref(d)
    OBVIOUS
  <2>2. c \in live \cup {Null}
    BY <2>1 DEF Deref
  <2>3. Crash("null") \/ DeleteContext(c)
    BY <1>2, <2>1 DEF RemoveContextById, DeleteContext
  <2>4. CASE Crash("null")
    BY <2>4, CrashStep DEF Faults
  <2>5. CASE DeleteContext(c)
    BY <2>2, <2>5, DeleteContextStep
  <2> QED
    BY <2>3, <2>4, <2>5
<1> QED
  BY <1>1, <1>2

LEMMA RemoveEntityStep ==
  ASSUME IInv, NEW e \in Ids, RemoveEntityById(e)
  PROVE  IInv'
<1>a. HeapInv /\ RequestInv
  BY DEF IInv
<1>1. CASE Crash("null") \/ Crash("freed")
  BY <1>1, CrashStep DEF Faults
<1>2. CASE /\ e \in live /\ Delete({e}) /\ deleted' = deleted \cup {e}
           /\ referrers' = Forget(referrers, {e})
           /\ Answer(1, Null) /\ UNCHANGED domain_up
  BY <1>2, <1>a, DeleteOneStep, AnswerStep, IdFacts
<1> QED
  BY <1>1, <1>2 DEF RemoveEntityById, Deref

\* Removing the domain.  remove_referrer finds what it erases here too.
LEMMA RemoveDomainStep ==
  ASSUME IInv, RemoveDomain
  PROVE  IInv'
<1> DEFINE Bound == {o \in Ids : NamesOf(Root, o) # {}} \ entity_list
           Held(o) == [c \in Ids |-> IF c = Root
                                     THEN referrers[o][c] - Cardinality(NamesOf(c, o))
                                     ELSE referrers[o][c]]
<1>a. /\ HeapInv /\ RequestInv
      /\ HeapTypeOK /\ Fresh /\ ReferrersExact /\ NoDanglingBinding
  BY DEF IInv, HeapInv
<1>b. \A o \in live : Root \in live =>
         /\ referrers[o][Root] \in Nat
         /\ referrers[o][Root] - Cardinality(NamesOf(Root, o)) \in Nat
         /\ ~(referrers[o][Root] < Cardinality(NamesOf(Root, o)))
  BY <1>a, NamesOfFinite DEF ReferrersExact
<1>c. \A o \in Ids \ live : Root \in live => Cardinality(NamesOf(Root, o)) = 0
  <2> SUFFICES ASSUME NEW o \in Ids \ live, Root \in live PROVE NamesOf(Root, o) = {}
    BY FS_EmptySet
  <2> QED
    BY <1>a, IdFacts DEF NoDanglingBinding, NamesOf
<1>1. CASE Answer(0, Null) /\ UNCHANGED heap
  BY <1>1, <1>a, SameHeap, AnswerStep, IdFacts
<1>2. CASE Crash("double_free") \/ Crash("freed")
  BY <1>2, CrashStep DEF Faults
<1>3. CASE /\ Root \in live /\ Bound \subseteq live
           /\ \E o \in Bound : referrers[o][Root] < Cardinality(NamesOf(Root, o))
  BY <1>3, <1>b
<1>4. ASSUME NEW D, D = entity_list \cup {Root}, entity_list \subseteq live, Root \in live,
             Delete(D), referrers' = Forget([o \in Ids |-> Held(o)], D),
             domain_up' = FALSE, Answer(1, Null), UNCHANGED deleted
      PROVE  IInv'
  <2>1. PICK refs : refs = [o \in Ids |-> Held(o)] /\ referrers' = Forget(refs, D)
    BY <1>4
  <2>2. \A i, c \in Ids : refs[i][c] = IF c = Root
                                       THEN referrers[i][c] - Cardinality(NamesOf(c, i))
                                       ELSE referrers[i][c]
    BY <2>1
  <2>3. \A i \in Ids \ live : refs[i] = NoReferrers
    <3> SUFFICES ASSUME NEW i \in Ids \ live PROVE refs[i] = NoReferrers
      OBVIOUS
    <3>1. \A c \in Ids : referrers[i][c] = 0
      BY <1>a DEF Fresh, NoReferrers
    <3>2. \A c \in Ids : refs[i][c] = 0
      BY <3>1, <2>2, <1>c, <1>4
    <3>3. refs[i] = [c \in Ids |-> refs[i][c]]
      BY <2>1
    <3> QED
      BY <3>2, <3>3 DEF NoReferrers
  <2>4. \A i \in Ids : refs[i] \in [Ids -> Nat]
    <3> SUFFICES ASSUME NEW i \in Ids PROVE refs[i] \in [Ids -> Nat]
      OBVIOUS
    <3>1. CASE i \in live
      <4>1. \A c \in Ids : refs[i][c] \in Nat
        BY <3>1, <2>2, <1>a, <1>b, <1>4 DEF HeapTypeOK
      <4>2. refs[i] = [c \in Ids |-> refs[i][c]]
        BY <2>1
      <4> QED
        BY <4>1, <4>2
    <3>2. CASE i \notin live
      BY <3>2, <2>3 DEF NoReferrers
    <3> QED
      BY <3>1, <3>2
  <2>5. \A i, c \in Ids : c >= counter => refs[i][c] = 0
    <3>1. ~(Root >= counter)
      BY <1>a, MaxIdNat DEF HeapTypeOK, Root
    <3> QED
      BY <2>2, <3>1, <1>a DEF Fresh
  <2>6. \A i, c \in live \ D : refs[i][c] = referrers[i][c]
    BY <2>2, <1>a, <1>4 DEF HeapTypeOK
  <2>7. KeepsLists(D, refs)
    BY <2>3, <2>4, <2>5, <2>6 DEF KeepsLists
  <2>8. D \in SUBSET live /\ deleted' \subseteq Ids
    BY <1>4, <1>a DEF HeapTypeOK
  <2>9. HeapInv'
    BY <1>4, <2>1, <2>7, <2>8, <1>a, DeleteStep
  <2> QED
    BY <1>4, <2>9, <1>a, AnswerStep, IdFacts
<1> QED
  BY <1>1, <1>2, <1>3, <1>4 DEF RemoveDomain

(***************************************************************************)
(* The theorems.                                                           *)
(***************************************************************************)

\* A new domain is consistent.
LEMMA InitInv == Init => IInv
<1> SUFFICES ASSUME Init PROVE IInv
  OBVIOUS
<1> USE IdFacts
<1>1. HeapTypeOK
  <2>1. counter \in Root + 1 .. MaxId + 1
    BY MaxIdNat DEF Init, Root
  <2>2. name_map \in [Ids -> [Names -> Ptr]]
    BY DEF Init, NoBindings
  <2>3. referrers \in [Ids -> [Ids -> Nat]]
    BY DEF Init, NoReferrers
  <2>4. kind \in [Ids -> Kinds]
    BY DEF Init, Kinds
  <2> QED
    BY <2>1, <2>2, <2>3, <2>4 DEF Init, HeapTypeOK
<1>2. Fresh
  <2>1. \A o \in Ids : o >= 3 => o # Root /\ o # DomainId
    BY DEF Root, DomainId
  <2>2. \A o \in Ids : parent[o] < counter
    BY DEF Init, Root, Null
  <2> QED
    BY <2>1, <2>2 DEF Init, Fresh, NoReferrers, Root, DomainId
<1>3. ReferrersExact
  <2>1. NamesOf(Root, Root) = {}
    BY DEF Init, NamesOf, NoBindings
  <2>2. parent[Root] # Root /\ referrers[Root][Root] = 0
    BY DEF Init, NoReferrers
  <2> QED
    BY <2>1, <2>2, FS_EmptySet DEF Init, ReferrersExact
<1>4. NoDanglingBinding /\ LifeAnnounced
  BY DEF Init, NoDanglingBinding, NoBindings, LifeAnnounced, Root, DomainId
<1>5. RequestInv
  <2>1. RequestTypeOK /\ NoBadErase
    BY IdleType DEF Init, RequestTypeOK, NoReply, Faults, NoBadErase
  <2>2. InFlight
    BY IdleType DEF Init, InFlight, Idle
  <2> QED
    BY <2>1, <2>2 DEF RequestInv
<1> QED
  BY <1>1, <1>2, <1>3, <1>4, <1>5 DEF IInv, HeapInv

\* Every step keeps the heap and the request consistent.
LEMMA NextInv == IInv /\ [Next]_vars => IInv'
<1> SUFFICES ASSUME IInv, [Next]_vars PROVE IInv'
  OBVIOUS
<1>a. KnownContexts \subseteq Ptr /\ KnownEntities \subseteq Ids
  BY IdFacts DEF KnownContexts, KnownEntities
<1>b. KnownContexts \ {Null} \subseteq Ids
  BY DEF KnownContexts
<1>1. ASSUME NEW base \in KnownContexts,
             \/ \E path \in CtxPaths : CreateContext(base, path)
             \/ \E path \in EntPaths : CreateEntity(base, path)
             \/ \E path \in CtxPaths : GetStone("context", base, path)
             \/ \E path \in EntPaths : GetStone("entity", base, path)
             \/ \E path \in EntPaths, goal \in {"create", "find"} : EntityData(goal, base, path)
             \/ \E path \in CtxPaths \cup EntPaths : Resolve(base, path)
             \/ \E path \in CtxPaths \cup EntPaths : UnbindName("unbind", base, path)
             \/ \E path \in EntPaths : UnbindName("remove_entity", base, path)
             \/ \E path \in CtxPaths : RemoveContextByName(base, path)
      PROVE  IInv'
  BY <1>1, <1>a, ArrivalStep, PathsAreNames
<1>2. ASSUME NEW base \in KnownContexts, NEW path \in EntPaths, NEW link \in EntLinks,
             BindByName("bind_entity", path, base, link)
      PROVE  IInv'
  BY <1>2, <1>a, BindArrivalStep, PathsAreNames, IdFacts
<1>3. ASSUME NEW base \in KnownContexts, NEW id \in KnownEntities, NEW link \in EntLinks,
             BindById("bind_entity", id, base, link)
      PROVE  IInv'
  BY <1>3, <1>a, BindArrivalStep, PathsAreNames, EmptySeq
<1>4. ASSUME NEW path \in CtxPaths, NEW link \in CtxLinks,
             BindByName("bind_context", path, Null, link)
      PROVE  IInv'
  BY <1>4, BindArrivalStep, PathsAreNames, IdFacts
<1>5. ASSUME NEW id \in KnownContexts \ {Null}, NEW link \in CtxLinks,
             BindById("bind_context", id, Null, link)
      PROVE  IInv'
  BY <1>5, <1>b, BindArrivalStep, PathsAreNames, IdFacts, EmptySeq
<1>6. CASE \E c \in KnownContexts : RemoveContextById(c)
  BY <1>6, RemoveContextStep
<1>7. ASSUME NEW e \in KnownEntities, RemoveEntityById(e) PROVE IInv'
  BY <1>7, <1>a, RemoveEntityStep
<1>8. CASE RemoveDomain
  BY <1>8, RemoveDomainStep
<1>9. CASE Service
  BY <1>9, WalkStepStep, LookupOrCreateStep, LookupStep, RemoveBindingStep, TailStep,
     FoundSourceStep, FinishBindStep, RemoveContextStep DEF Service
<1>10. CASE UNCHANGED vars
  <2>1. UNCHANGED heap /\ UNCHANGED <<req, reply, fault>>
    BY <1>10 DEF vars
  <2>2. HeapInv' /\ live' = live
    BY <2>1, SameHeap DEF IInv
  <2>3. RequestInv'
    BY <2>1, <2>2 DEF IInv, RequestInv, RequestTypeOK, InFlight, NoBadErase
  <2> QED
    BY <2>2, <2>3 DEF IInv
<1> QED
  BY <1>1, <1>2, <1>3, <1>4, <1>5, <1>6, <1>7, <1>8, <1>9, <1>10 DEF Next, Arrival

\* The inductive invariant holds in every reachable state.
THEOREM Invariance == Spec => []IInv
<1>1. Init => IInv
  BY InitInv
<1>2. IInv /\ [Next]_vars => IInv'
  BY NextInv
<1> QED
  BY <1>1, <1>2, PTL DEF Spec

\* Every variable keeps its type; a placeholder is an object that exists.
THEOREM TypeCorrect == Spec => []TypeOK
<1>1. IInv => TypeOK
  BY DEF IInv, HeapInv, RequestInv, TypeOK
<1> QED
  BY <1>1, Invariance, PTL

\* The referrer list of every object holds each context once per name and once more for the
\* context it was created in, through every bind, unbind, removal and walk of any requests.
THEOREM ReferrersAgree == Spec => []ReferrersExact
<1>1. IInv => ReferrersExact
  BY DEF IInv, HeapInv
<1> QED
  BY <1>1, Invariance, PTL

\* No name in a context that exists denotes an object that was freed.
THEOREM BindingsLive == Spec => []NoDanglingBinding
<1>1. IInv => NoDanglingBinding
  BY DEF IInv, HeapInv
<1> QED
  BY <1>1, Invariance, PTL

\* remove_referrer never erases an entry that is not there, nor does a domain's removal.
THEOREM EraseSafe == Spec => []NoBadErase
<1>1. IInv => NoBadErase
  BY DEF IInv, RequestInv
<1> QED
  BY <1>1, Invariance, PTL

\* Creation is announced once, by real objects only, and deletion by all that go.
THEOREM EventsMatchLives == Spec => []LifeAnnounced
<1>1. IInv => LifeAnnounced
  BY DEF IInv, HeapInv
<1> QED
  BY <1>1, Invariance, PTL

\* Ids come from a counter that only grows: an id that denotes a new object never denoted one.
THEOREM FreshIds == Spec => IdsNotReused
<1>1. IInv /\ [Next]_vars => [\A o \in live' \ live : kind[o] = "none"]_vars
  <2> SUFFICES ASSUME IInv, Next PROVE \A o \in live' \ live : kind[o] = "none"
    BY DEF vars
  <2>1. kind[NewId] = "none" \/ NewId \notin Ids
    BY IdFacts, MaxIdNat DEF IInv, HeapInv, HeapTypeOK, Fresh, NewId, Root
  <2>2. UNCHANGED heap => live' = live
    BY DEF heap
  <2>3. \A why : Crash(why) => live' = live
    BY DEF Crash, heap
  <2>4. \A D : Delete(D) => live' \subseteq live
    BY DEF Delete
  <2>5. \A o : MakeReal(o) => live' = live
    BY DEF MakeReal
  <2>6. \A type, p, n, real : NewObject(type, p, n, real) =>
            live' = live \cup {NewId} /\ NewId \in Ids
    BY DEF NewObject
  <2>7. CASE Arrival
    BY <2>2, <2>3, <2>4, <2>7 DEF Arrival, CreateContext, CreateEntity, GetStone, EntityData,
       Resolve, UnbindName, RemoveContextByName, BindByName, BindById, Receive, ToLink,
       RemoveContextById, DeleteContext, RemoveEntityById, RemoveDomain
  <2>8. CASE WalkStep
    <3>1. \/ \E why : Crash(why)
          \/ UNCHANGED heap
          \/ \E o : MakeReal(o)
          \/ \E p, n, real : NewObject("context", p, n, real)
      BY <2>8 DEF WalkStep
    <3> QED
      BY <3>1, <2>1, <2>2, <2>3, <2>5, <2>6
  <2>9. CASE LookupOrCreate
    <3>1. \/ \E why : Crash(why)
          \/ UNCHANGED heap
          \/ \E o : MakeReal(o)
          \/ \E type, p, n, real : NewObject(type, p, n, real)
      BY <2>9 DEF LookupOrCreate
    <3> QED
      BY <3>1, <2>1, <2>2, <2>3, <2>5, <2>6
  <2>10. CASE Lookup \/ RemoveBinding \/ FinishCreate \/ FinishGetStone \/ FinishEntityData
              \/ FinishResolve \/ FoundSource
    BY <2>2, <2>3, <2>10 DEF Lookup, RemoveBinding, Unbind, FinishCreate, FinishGetStone,
       FinishEntityData, FinishResolve, FoundSource, ToLink
  <2>11. CASE FinishBind \/ FinishRemoveContext
    BY <2>2, <2>3, <2>4, <2>11 DEF FinishBind, Bind, FinishRemoveContext, DeleteContext
  <2> QED
    BY <2>7, <2>8, <2>9, <2>10, <2>11 DEF Next, Service
<1> QED
  BY <1>1, Invariance, PTL DEF Spec, IdsNotReused
=============================================================================
