---------------------------- MODULE RequestProofs ----------------------------
(***************************************************************************)
(* The loop of Domain::get_context_of_name follows the name it is given,   *)
(* and what a request answers is what its name denotes: for every set of   *)
(* names, paths of any length, and careful and careless clients alike.     *)
(* A request of a careful client stops the server nowhere.                 *)
(***************************************************************************)
EXTENDS NamespaceProofs, NaturalsInduction, WellFoundedInduction

(***************************************************************************)
(* What a name denotes, as a function of the name maps.  Named is defined  *)
(* by recursion on the name; the facts about it come from least numbers.   *)
(***************************************************************************)

\* A set of naturals with an element has a least one.
LEMMA LeastOf ==
  ASSUME NEW S, S \subseteq Nat, S # {}
  PROVE  \E i \in S : \A j \in S : i <= j
<1>1. PICK i \in S : \A j \in S : ~(<<j, i>> \in OpToRel(<, Nat))
  BY NatLessThanWellFounded, WFMin
<1>2. \A j \in S : ~(j < i)
  BY <1>1 DEF OpToRel
<1> QED
  BY <1>2

\* f says what the first i components of path denote, for each i up to k.
Follows(M, c, path, k, f) ==
  \A i \in 0 .. k : f[i] = IF i = 0 THEN c
                           ELSE IF f[i - 1] = Null THEN Null ELSE M[f[i - 1]][path[i]]

\* What Named is in the name maps M.
NamedIn(M, c, path) ==
  LET Reach[i \in 0 .. Len(path)] ==
        IF i = 0 THEN c
        ELSE IF Reach[i - 1] = Null THEN Null ELSE M[Reach[i - 1]][path[i]]
  IN Reach[Len(path)]

\* There is such a function on 0 .. k.
Leads(M, c, path, k) == \E f : f = [i \in 0 .. k |-> f[i]] /\ Follows(M, c, path, k, f)

LEMMA LeadsAll ==
  ASSUME NEW M, NEW c, NEW path, NEW k \in Nat
  PROVE  Leads(M, c, path, k)
<1> DEFINE S == {n \in Nat : ~Leads(M, c, path, n)}
<1> SUFFICES ASSUME S # {} PROVE FALSE
  OBVIOUS
<1>1. PICK n \in S : \A j \in S : n <= j
  BY LeastOf
<1>2. CASE n = 0
  <2> DEFINE f == [i \in 0 .. 0 |-> c]
  <2>1. f = [i \in 0 .. 0 |-> f[i]] /\ Follows(M, c, path, 0, f)
    BY DEF Follows
  <2>2. Leads(M, c, path, 0)
    BY <2>1 DEF Leads
  <2> QED
    BY <1>1, <1>2, <2>2
<1>3. CASE n # 0
  <2>1. n - 1 \in Nat /\ Leads(M, c, path, n - 1)
    BY <1>1, <1>3
  <2>2. PICK f : f = [i \in 0 .. n - 1 |-> f[i]] /\ Follows(M, c, path, n - 1, f)
    BY <2>1 DEF Leads
  <2> DEFINE last == IF f[n - 1] = Null THEN Null ELSE M[f[n - 1]][path[n]]
             g == [i \in 0 .. n |-> IF i = n THEN last ELSE f[i]]
  <2>3. g[n] = last /\ \A i \in 0 .. n - 1 : g[i] = f[i]
    BY <1>1
  <2>4. g = [i \in 0 .. n |-> g[i]]
    OBVIOUS
  <2>5. \A i \in 0 .. n : i = n \/ i \in 0 .. n - 1
    BY <1>1
  <2>6. \A i \in 0 .. n - 1 : i # 0 => i - 1 \in 0 .. n - 1
    BY <1>1
  <2>7. n - 1 \in 0 .. n - 1
    BY <2>1
  <2> HIDE DEF g
  <2>8. Follows(M, c, path, n, g)
    BY <1>3, <2>2, <2>3, <2>5, <2>6, <2>7 DEF Follows
  <2>9. Leads(M, c, path, n)
    BY <2>4, <2>8 DEF Leads
  <2> QED
    BY <1>1, <2>9
<1> QED
  BY <1>2, <1>3

\* Two functions that follow two names agree as far as the names do.
LEMMA FollowsOnce ==
  ASSUME NEW M, NEW c, NEW p, NEW q, NEW j \in Nat, NEW k \in Nat, NEW f, NEW g,
         Follows(M, c, p, j, f), Follows(M, c, q, k, g),
         NEW m \in Nat, m <= j, m <= k, \A i \in 1 .. m : p[i] = q[i]
  PROVE  f[m] = g[m]
<1> DEFINE S == {i \in 0 .. m : f[i] # g[i]}
<1> SUFFICES ASSUME S # {} PROVE FALSE
  OBVIOUS
<1>1. PICK n \in S : \A i \in S : n <= i
  <2>1. S \subseteq Nat
    OBVIOUS
  <2> QED
    BY <2>1, LeastOf
<1>2. n \in 0 .. j /\ n \in 0 .. k
  OBVIOUS
<1>3. CASE n = 0
  BY <1>1, <1>2, <1>3 DEF Follows
<1>4. CASE n # 0
  <2>1. n - 1 \in 0 .. m /\ ~(n <= n - 1) /\ n \in 1 .. m
    BY <1>4
  <2>2. f[n - 1] = g[n - 1]
    BY <1>1, <2>1
  <2> QED
    BY <1>1, <1>2, <1>4, <2>1, <2>2 DEF Follows
<1> QED
  BY <1>3, <1>4

\* The function in the definition of Named is such a function.
LEMMA NamedInIs ==
  ASSUME NEW M, NEW c, NEW path, Len(path) \in Nat, NEW f, Follows(M, c, path, Len(path), f)
  PROVE  NamedIn(M, c, path) = f[Len(path)]
<1> DEFINE E(r) == r = [i \in 0 .. Len(path) |->
                         IF i = 0 THEN c
                         ELSE IF r[i - 1] = Null THEN Null ELSE M[r[i - 1]][path[i]]]
           reach == CHOOSE r : E(r)
<1>1. NamedIn(M, c, path) = reach[Len(path)]
  BY DEF NamedIn
<1>2. \E r : E(r)
  <2>1. PICK g : /\ g = [i \in 0 .. Len(path) |-> g[i]]
                 /\ Follows(M, c, path, Len(path), g)
    BY LeadsAll DEF Leads
  <2>2. E(g)
    BY <2>1 DEF Follows
  <2> QED
    BY <2>2
<1>3. PICK r : r = reach /\ E(r)
  BY <1>2
<1> HIDE DEF reach
<1>4. Follows(M, c, path, Len(path), r)
  BY <1>3 DEF Follows
<1>5. r[Len(path)] = f[Len(path)]
  BY <1>4, FollowsOnce
<1> QED
  BY <1>1, <1>3, <1>5

LEMMA NamedIsIn == \A c, path : Named(c, path) = NamedIn(name_map, c, path)
BY DEF Named, NamedIn

\* The beginnings of a name.
LEMMA NamedPrefix ==
  ASSUME NEW M, NEW c, NEW path \in Seq(Names), NEW f, Follows(M, c, path, Len(path), f),
         NEW i \in 0 .. Len(path)
  PROVE  NamedIn(M, c, SubSeq(path, 1, i)) = f[i]
<1>1. Len(path) \in Nat /\ \A k \in 1 .. i : k \in 1 .. Len(path)
  BY LenProperties
<1>2. PICK s : s = SubSeq(path, 1, i)
  OBVIOUS
<1>3. Len(s) = i /\ \A k \in 1 .. i : s[k] = path[k]
  <2>1. \A k \in 1 .. i : path[k] \in Names
    BY <1>1, ElementOfSeq
  <2> QED
    BY <1>1, <1>2, <2>1, SubSeqProperties
<1>4. \A k \in 0 .. i : k \in 0 .. Len(path) /\ (k # 0 => k \in 1 .. i)
  BY <1>1
<1>5. Follows(M, c, s, Len(s), f)
  BY <1>3, <1>4 DEF Follows
<1>6. Len(s) \in Nat
  BY <1>3
<1>7. NamedIn(M, c, s) = f[Len(s)]
  BY <1>5, <1>6, NamedInIs
<1> QED
  BY <1>2, <1>3, <1>7

\* What a component denotes in r.
Bound(M, r, n) == IF r = Null THEN Null ELSE M[r][n]

\* The first component is bound where the name begins.
LEMMA NamedStart ==
  ASSUME NEW M, NEW c, NEW path \in Seq(Names)
  PROVE  NamedIn(M, c, SubSeq(path, 1, 0)) = c
<1>1. Len(path) \in Nat
  BY LenProperties
<1>2. PICK f : Follows(M, c, path, Len(path), f)
  BY <1>1, LeadsAll DEF Leads
<1>3. 0 \in 0 .. Len(path) /\ f[0] = c
  BY <1>1, <1>2 DEF Follows
<1> QED
  BY <1>2, <1>3, NamedPrefix

\* The i-th component is bound in what the components before it denote.
LEMMA NamedAt ==
  ASSUME NEW M, NEW c, NEW path \in Seq(Names), NEW i \in 1 .. Len(path), NEW s,
         s = SubSeq(path, 1, i - 1)
  PROVE  NamedIn(M, c, SubSeq(path, 1, i)) = Bound(M, NamedIn(M, c, s), path[i])
<1>1. Len(path) \in Nat
  BY LenProperties
<1>2. PICK f : Follows(M, c, path, Len(path), f)
  BY <1>1, LeadsAll DEF Leads
<1>3. i \in 0 .. Len(path) /\ i - 1 \in 0 .. Len(path) /\ i # 0
  BY <1>1
<1>4. f[i - 1] = NamedIn(M, c, s) /\ NamedIn(M, c, SubSeq(path, 1, i)) = f[i]
  BY <1>2, <1>3, NamedPrefix
<1>5. f[i] = IF f[i - 1] = Null THEN Null ELSE M[f[i - 1]][path[i]]
  BY <1>2, <1>3 DEF Follows
<1> QED
  BY <1>4, <1>5 DEF Bound

\* The whole of a name.
LEMMA NamedWhole ==
  ASSUME NEW M, NEW c, NEW path \in Seq(Names)
  PROVE  NamedIn(M, c, SubSeq(path, 1, Len(path))) = NamedIn(M, c, path)
<1>1. Len(path) \in Nat /\ Len(path) \in 0 .. Len(path)
  BY LenProperties
<1>2. PICK f : Follows(M, c, path, Len(path), f)
  BY <1>1, LeadsAll DEF Leads
<1> QED
  BY <1>1, <1>2, NamedPrefix, NamedInIs

\* A name that goes on after nothing denotes nothing.
LEMMA NullStays ==
  ASSUME NEW M, NEW c, NEW path \in Seq(Names), NEW i \in 0 .. Len(path),
         NamedIn(M, c, SubSeq(path, 1, i)) = Null
  PROVE  NamedIn(M, c, path) = Null
<1>1. Len(path) \in Nat
  BY LenProperties
<1>2. PICK f : Follows(M, c, path, Len(path), f)
  BY <1>1, LeadsAll DEF Leads
<1>3. f[i] = Null /\ NamedIn(M, c, path) = f[Len(path)]
  BY <1>1, <1>2, NamedInIs, NamedPrefix
<1> DEFINE S == {k \in i .. Len(path) : f[k] # Null}
<1> SUFFICES ASSUME S # {} PROVE FALSE
  BY <1>1, <1>3
<1>4. PICK n \in S : \A k \in S : n <= k
  <2>1. S \subseteq Nat
    OBVIOUS
  <2> QED
    BY <2>1, LeastOf
<1>5. n # i /\ n - 1 \in i .. Len(path) /\ ~(n <= n - 1) /\ n \in 0 .. Len(path) /\ n # 0
  BY <1>1, <1>3
<1>6. f[n - 1] = Null
  BY <1>4, <1>5
<1>7. f[n] = Null
  BY <1>2, <1>5, <1>6 DEF Follows
<1> QED
  BY <1>7

NameMaps == [Ids -> [Names -> Ptr]]

\* N has the bindings of M, and N has no others.
Keeps(M, N) == \A d \in Ids, n \in Names : M[d][n] # Null => N[d][n] = M[d][n]
Loses(M, N) == \A d \in Ids, n \in Names : N[d][n] = M[d][n] \/ N[d][n] = Null

\* What a name denotes is an object, or nothing.
LEMMA NamedType ==
  ASSUME NEW M \in NameMaps, NEW c \in Ptr, NEW path \in Seq(Names)
  PROVE  NamedIn(M, c, path) \in Ptr
<1>1. Len(path) \in Nat /\ \A k \in 1 .. Len(path) : path[k] \in Names
  BY LenProperties, ElementOfSeq
<1>2. PICK f : Follows(M, c, path, Len(path), f)
  BY <1>1, LeadsAll DEF Leads
<1> DEFINE S == {k \in 0 .. Len(path) : f[k] \notin Ptr}
<1>3. CASE S = {}
  BY <1>1, <1>2, <1>3, NamedInIs
<1>4. CASE S # {}
  <2>1. PICK n \in S : \A k \in S : n <= k
    <3>1. S \subseteq Nat
      OBVIOUS
    <3> QED
      BY <1>4, <3>1, LeastOf
  <2>2. n # 0
    BY <1>2, <2>1 DEF Follows
  <2>3. n - 1 \in 0 .. Len(path) /\ ~(n <= n - 1) /\ n \in 0 .. Len(path) /\ n \in 1 .. Len(path)
    BY <1>1, <2>2
  <2>4. f[n - 1] \in Ptr /\ path[n] \in Names
    BY <1>1, <2>1, <2>3
  <2>5. f[n] = IF f[n - 1] = Null THEN Null ELSE M[f[n - 1]][path[n]]
    BY <1>2, <2>2, <2>3 DEF Follows
  <2>6. f[n] \in Ptr
    <3>1. CASE f[n - 1] = Null
      BY <3>1, <2>5, IdFacts
    <3>2. CASE f[n - 1] # Null
      BY <3>2, <2>4, <2>5, IdFacts DEF NameMaps
    <3> QED
      BY <3>1, <3>2
  <2> QED
    BY <2>1, <2>6
<1> QED
  BY <1>3, <1>4

\* A name keeps what it denotes when name maps only grow.
LEMMA NamedKept ==
  ASSUME NEW M \in NameMaps, NEW N, NEW c \in Ptr, NEW path \in Seq(Names),
         Keeps(M, N), NamedIn(M, c, path) # Null
  PROVE  NamedIn(N, c, path) = NamedIn(M, c, path)
<1>1. Len(path) \in Nat /\ \A k \in 1 .. Len(path) : path[k] \in Names
  BY LenProperties, ElementOfSeq
<1>2. PICK f : Follows(M, c, path, Len(path), f)
  BY <1>1, LeadsAll DEF Leads
<1>3. PICK g : Follows(N, c, path, Len(path), g)
  BY <1>1, LeadsAll DEF Leads
<1>4. NamedIn(M, c, path) = f[Len(path)] /\ NamedIn(N, c, path) = g[Len(path)]
  BY <1>1, <1>2, <1>3, NamedInIs
<1>5. \A k \in 0 .. Len(path) : f[k] # Null /\ f[k] \in Ptr
  <2> SUFFICES ASSUME NEW k \in 0 .. Len(path) PROVE f[k] # Null /\ f[k] \in Ptr
    OBVIOUS
  <2>1. f[k] = NamedIn(M, c, SubSeq(path, 1, k))
    BY <1>2, NamedPrefix
  <2>2. SubSeq(path, 1, k) \in Seq(Names)
    <3>1. \A i \in 1 .. k : path[i] \in Names
      BY <1>1
    <3> QED
      BY <1>1, <3>1, SubSeqProperties
  <2> QED
    BY <2>1, <2>2, NullStays, NamedType
<1> DEFINE S == {k \in 0 .. Len(path) : g[k] # f[k]}
<1> SUFFICES ASSUME S # {} PROVE FALSE
  BY <1>1, <1>4
<1>6. PICK n \in S : \A k \in S : n <= k
  <2>1. S \subseteq Nat
    OBVIOUS
  <2> QED
    BY <2>1, LeastOf
<1>7. n # 0
  BY <1>2, <1>3, <1>6 DEF Follows
<1>8. n - 1 \in 0 .. Len(path) /\ ~(n <= n - 1) /\ n \in 0 .. Len(path) /\ n \in 1 .. Len(path)
  BY <1>1, <1>7
<1>9. g[n - 1] = f[n - 1]
  BY <1>6, <1>8
<1>10. f[n] = M[f[n - 1]][path[n]] /\ g[n] = N[f[n - 1]][path[n]]
  BY <1>2, <1>3, <1>5, <1>7, <1>8, <1>9 DEF Follows
<1>11. f[n - 1] \in Ids /\ path[n] \in Names
  BY <1>1, <1>5, <1>8, IdFacts
<1>12. g[n] = f[n]
  BY <1>5, <1>8, <1>10, <1>11 DEF Keeps
<1> QED
  BY <1>6, <1>12

\* Taking bindings away makes a name denote what it did, or nothing.
LEMMA NamedLost ==
  ASSUME NEW M \in NameMaps, NEW N, NEW c \in Ptr, NEW path \in Seq(Names),
         Loses(M, N)
  PROVE  NamedIn(N, c, path) = NamedIn(M, c, path) \/ NamedIn(N, c, path) = Null
<1>1. Len(path) \in Nat /\ \A k \in 1 .. Len(path) : path[k] \in Names
  BY LenProperties, ElementOfSeq
<1>2. PICK f : Follows(M, c, path, Len(path), f)
  BY <1>1, LeadsAll DEF Leads
<1>3. PICK g : Follows(N, c, path, Len(path), g)
  BY <1>1, LeadsAll DEF Leads
<1>4. NamedIn(M, c, path) = f[Len(path)] /\ NamedIn(N, c, path) = g[Len(path)]
  BY <1>1, <1>2, <1>3, NamedInIs
<1>5. \A k \in 0 .. Len(path) : f[k] \in Ptr
  <2> SUFFICES ASSUME NEW k \in 0 .. Len(path) PROVE f[k] \in Ptr
    OBVIOUS
  <2>1. f[k] = NamedIn(M, c, SubSeq(path, 1, k))
    BY <1>2, NamedPrefix
  <2>2. SubSeq(path, 1, k) \in Seq(Names)
    <3>1. \A i \in 1 .. k : path[i] \in Names
      BY <1>1
    <3> QED
      BY <1>1, <3>1, SubSeqProperties
  <2> QED
    BY <2>1, <2>2, NamedType
<1> DEFINE S == {k \in 0 .. Len(path) : g[k] # f[k] /\ g[k] # Null}
<1> SUFFICES ASSUME S # {} PROVE FALSE
  BY <1>1, <1>4
<1>6. PICK n \in S : \A k \in S : n <= k
  <2>1. S \subseteq Nat
    OBVIOUS
  <2> QED
    BY <2>1, LeastOf
<1>7. n # 0
  BY <1>2, <1>3, <1>6 DEF Follows
<1>8. n - 1 \in 0 .. Len(path) /\ ~(n <= n - 1) /\ n \in 0 .. Len(path) /\ n \in 1 .. Len(path)
  BY <1>1, <1>7
<1>9. g[n] = IF g[n - 1] = Null THEN Null ELSE N[g[n - 1]][path[n]]
  BY <1>3, <1>7, <1>8 DEF Follows
<1>10. g[n - 1] = f[n - 1] /\ g[n - 1] # Null
  BY <1>6, <1>8, <1>9
<1>11. f[n] = M[f[n - 1]][path[n]] /\ g[n] = N[f[n - 1]][path[n]]
  BY <1>2, <1>7, <1>8, <1>9, <1>10 DEF Follows
<1>12. f[n - 1] \in Ids /\ path[n] \in Names
  BY <1>1, <1>5, <1>8, <1>10, IdFacts
<1> QED
  BY <1>6, <1>11, <1>12 DEF Loses

\* N differs from M in one place.
Rebinds(M, N, p, n, o) == N = [M EXCEPT ![p][n] = o]

\* Binding the next component of a name in what the components before it denote.
LEMMA NamedAnew ==
  ASSUME NEW M \in NameMaps, NEW p \in Ids, NEW n \in Names, NEW o \in Ids, M[p][n] = Null,
         NEW N, Rebinds(M, N, p, n, o),
         NEW c \in Ptr, NEW path \in Seq(Names), NEW i \in 1 .. Len(path), path[i] = n,
         NamedIn(M, c, SubSeq(path, 1, i - 1)) = p
  PROVE  NamedIn(N, c, SubSeq(path, 1, i)) = o
<1>1. Len(path) \in Nat /\ i - 1 \in 0 .. Len(path)
  BY LenProperties
<1>2. PICK s : s = SubSeq(path, 1, i - 1)
  OBVIOUS
<1>3. s \in Seq(Names)
  <2>1. \A k \in 1 .. i - 1 : path[k] \in Names
    BY <1>1, ElementOfSeq
  <2> QED
    BY <1>1, <1>2, <2>1, SubSeqProperties
<1>4. Keeps(M, N) /\ N[p][n] = o
  BY DEF NameMaps, Keeps, Rebinds
<1>5. NamedIn(M, c, s) = p /\ p # Null
  BY <1>2, IdFacts
<1>6. NamedIn(N, c, s) = p
  BY <1>3, <1>4, <1>5, NamedKept
<1>7. NamedIn(N, c, SubSeq(path, 1, i)) = Bound(N, NamedIn(N, c, s), path[i])
  BY <1>2, NamedAt
<1> QED
  BY <1>4, <1>5, <1>6, <1>7 DEF Bound

\* Taking the last component of a name away.
LEMMA NamedNoMore ==
  ASSUME NEW M \in NameMaps, NEW p \in Ids, NEW n \in Names,
         NEW N, Rebinds(M, N, p, n, Null),
         NEW c \in Ptr, NEW path \in Seq(Names), path # <<>>, path[Len(path)] = n,
         NamedIn(M, c, SubSeq(path, 1, Len(path) - 1)) = p
  PROVE  NamedIn(N, c, path) = Null
<1>1. Len(path) \in Nat /\ Len(path) \in 1 .. Len(path)
  BY EmptySeq, LenProperties
<1>2. PICK s : s = SubSeq(path, 1, Len(path) - 1)
  OBVIOUS
<1>3. s \in Seq(Names)
  <2>1. \A k \in 1 .. Len(path) - 1 : path[k] \in Names
    BY <1>1, ElementOfSeq
  <2>2. Len(path) - 1 \in Nat
    BY <1>1
  <2> QED
    BY <1>1, <1>2, <2>1, <2>2, SubSeqProperties
<1>4. Loses(M, N) /\ N[p][n] = Null
  BY DEF NameMaps, Loses, Rebinds
<1>5. PICK r : r = NamedIn(N, c, s)
  OBVIOUS
<1>6. r = p \/ r = Null
  BY <1>2, <1>3, <1>4, <1>5, NamedLost
<1>7. PICK k \in 1 .. Len(path) : k = Len(path)
  BY <1>1
<1>8. s = SubSeq(path, 1, k - 1)
  BY <1>2, <1>7
<1>9. NamedIn(N, c, SubSeq(path, 1, k)) = Bound(N, NamedIn(N, c, s), path[k])
  BY <1>8, NamedAt
<1> QED
  BY <1>4, <1>5, <1>6, <1>7, <1>9, NamedWhole DEF Bound

(***************************************************************************)
(* The walk.                                                               *)
(***************************************************************************)

\* Only contexts give names.
OnlyContextsBind == \A o \in Ids : kind[o] # "context" => name_map[o] = NoBindings

Creates == {"create_context", "create_entity"}
Unbinds == {"unbind", "remove_entity"}

\* What a request wants at the end of its name.
GoalOf(r) ==
  /\ r.op \in Creates => r.goal = "create" /\ ~r.holders
  /\ r.op = "resolve" => r.goal = "find"
  /\ r.op \in Unbinds => r.goal = "unbind"

\* A walk is where the components it has passed lead, or its name leads nowhere.
OnTheWay(r, M) ==
  r.pc = "walk" =>
    /\ r.from \in Ids
    /\ r.at = 0 \/ r.at < Len(r.name)
    /\ r.ctx # Null => r.ctx = NamedIn(M, r.from, SubSeq(r.name, 1, r.at))
    /\ r.ctx = Null => r.name # <<>> /\ NamedIn(M, r.from, r.name) = Null

\* What was found or created is what the name denotes; P are the placeholders.
Arrived(r, M, P) ==
  r.pc = "done" /\ r.name # <<>> =>
    /\ r.op \in Creates => r.val = NamedIn(M, r.from, r.name) /\ r.val \notin P
    /\ r.op = "resolve" => r.val = IF NamedIn(M, r.from, r.name) \in P THEN Null
                                   ELSE NamedIn(M, r.from, r.name)

Walks(r, M, P) == GoalOf(r) /\ OnTheWay(r, M) /\ Arrived(r, M, P)

\* The invariant of walks.
WalkInv == OnlyContextsBind /\ Walks(req, name_map, placeholder)

\* What exists as a context stays one, and what is new binds nothing.
LEMMA ContextsBind ==
  ASSUME HeapInv, OnlyContextsBind, Doing
  PROVE  OnlyContextsBind'
<1>a. HeapTypeOK /\ Fresh
  BY DEF HeapInv
<1>1. ASSUME NEW type \in {"context", "entity"}, NEW p \in live, NEW n \in Names,
             NEW real \in BOOLEAN, kind[p] = "context", name_map[p][n] = Null,
             NewObject(type, p, n, real)
      PROVE  OnlyContextsBind'
  <2>1. counter \in Ids \ live
    BY <1>1, NewObjectStep DEF NewObject, NewId
  <2>2. /\ kind' = [kind EXCEPT ![counter] = type]
        /\ name_map' = [name_map EXCEPT ![p][n] = counter]
    BY <1>1 DEF NewObject, NewId
  <2>3. name_map[counter] = NoBindings /\ p # counter /\ p \in Ids
    BY <1>a, <2>1 DEF Fresh, HeapTypeOK
  <2>4. ASSUME NEW o \in Ids, kind'[o] # "context" PROVE name_map'[o] = NoBindings
    <3>1. o # p
      BY <1>a, <1>1, <2>2, <2>3, <2>4 DEF HeapTypeOK
    <3>2. name_map'[o] = name_map[o]
      BY <1>a, <2>2, <3>1 DEF HeapTypeOK
    <3>3. CASE o = counter
      BY <3>2, <3>3, <2>3
    <3>4. CASE o # counter
      BY <1>a, <2>2, <2>4, <3>2, <3>4 DEF HeapTypeOK, OnlyContextsBind
    <3> QED
      BY <3>3, <3>4
  <2> QED
    BY <2>4 DEF OnlyContextsBind
<1>2. ASSUME NEW D \in SUBSET live, Delete(D)
      PROVE  OnlyContextsBind'
  <2> SUFFICES ASSUME NEW o \in Ids, kind[o] # "context" PROVE name_map'[o] = NoBindings
    BY <1>2 DEF OnlyContextsBind, Delete
  <2>1. name_map[o] = NoBindings
    BY DEF OnlyContextsBind
  <2>2. CASE o \in live \ D
    <3>1. PICK f : f = name_map'[o]
      OBVIOUS
    <3>2. f \in [Names -> Ptr]
      BY <1>2, <3>1, DeleteNames
    <3>3. \A n \in Names : f[n] = Null
      <4> SUFFICES ASSUME NEW n \in Names PROVE f[n] = Null
        OBVIOUS
      <4>1. f[n] = IF \E d \in D : n \in Dropped(o, d) THEN Null ELSE name_map[o][n]
        BY <1>2, <2>2, <3>1 DEF Delete, Cleared
      <4> QED
        BY <2>1, <4>1 DEF NoBindings
    <3> QED
      BY <3>1, <3>2, <3>3 DEF NoBindings
  <2>3. CASE o \notin live \ D
    BY <1>2, <2>3, DeleteNames
  <2> QED
    BY <2>2, <2>3
<1>3. ASSUME NEW c \in live, NEW n \in Names, kind[c] = "context", kind' = kind,
             \A d \in Ids \ {c} : name_map'[d] = name_map[d]
      PROVE  OnlyContextsBind'
  BY <1>3 DEF OnlyContextsBind
<1>4. CASE \E c, o \in live, n \in Names : kind[c] = "context" /\ Bind(c, n, o)
  <2>1. PICK c \in live, o \in live, n \in Names : kind[c] = "context" /\ Bind(c, n, o)
    BY <1>4
  <2>2. kind' = kind /\ \A d \in Ids \ {c} : name_map'[d] = name_map[d]
    BY <1>a, <2>1 DEF Bind, HeapTypeOK
  <2> QED
    BY <1>3, <2>1, <2>2
<1>5. CASE \E c \in live, n \in Names :
             kind[c] = "context" /\ name_map[c][n] \in live /\ Unbind(c, n)
  <2>1. PICK c \in live, n \in Names : kind[c] = "context" /\ Unbind(c, n)
    BY <1>5
  <2>2. kind' = kind /\ \A d \in Ids \ {c} : name_map'[d] = name_map[d]
    BY <1>a, <2>1 DEF Unbind, HeapTypeOK
  <2> QED
    BY <1>3, <2>1, <2>2
<1>6. CASE UNCHANGED heap \/ \E o \in placeholder : MakeReal(o)
  <2>1. kind' = kind /\ name_map' = name_map
    BY <1>6 DEF heap, MakeReal
  <2> QED
    BY <2>1 DEF OnlyContextsBind
<1>7. CASE \/ \E o \in live : Delete({o}) /\ deleted' = deleted \cup {o}
           \/ /\ Root \in live /\ entity_list \subseteq live
              /\ Delete(entity_list \cup {Root}) /\ UNCHANGED deleted
  <2>1. PICK D \in SUBSET live : Delete(D)
    BY <1>7
  <2> QED
    BY <1>2, <2>1
<1> QED
  BY <1>1, <1>4, <1>5, <1>6, <1>7 DEF Doing

\* A request that enters the loop is where its name begins.
LEMMA EntersWalk ==
  ASSUME NEW r \in Request, GoalOf(r), NEW base \in Ptr, NEW path \in Seq(Names), NEW to \in Ptr,
         NEW q, q = Walking(r, base, path) \/ q = [Walking(r, base, path) EXCEPT !.base = to],
         NEW M, NEW P
  PROVE  Walks(q, M, P)
<1>1. PICK w \in Request : w = Walking(r, base, path)
  BY WalkingType
<1>2. PICK b \in Ids : b = IF base = Null THEN Root ELSE base
  BY IdFacts
<1>3. /\ w.op = r.op /\ w.goal = r.goal /\ w.holders = r.holders /\ w.pc = "walk"
      /\ w.from = b /\ w.ctx = b /\ w.at = 0 /\ w.name = path
  BY <1>1, <1>2 DEF Walking, Request
<1>4. /\ q.op = r.op /\ q.goal = r.goal /\ q.holders = r.holders /\ q.pc = "walk"
      /\ q.from = b /\ q.ctx = b /\ q.at = 0 /\ q.name = path
  <2>1. q = w \/ q = [w EXCEPT !.base = to]
    BY <1>1
  <2> QED
    BY <1>3, <2>1 DEF Request
<1>5. NamedIn(M, b, SubSeq(path, 1, 0)) = b /\ b # Null
  BY NamedStart, IdFacts
<1>6. OnTheWay(q, M)
  BY <1>4, <1>5 DEF OnTheWay
<1> QED
  BY <1>4, <1>6 DEF Walks, GoalOf, Arrived

\* At the end of a walk the last component is looked up where the others lead.
LEMMA AtLast ==
  ASSUME NEW r \in Request, NEW M, OnTheWay(r, M), r.pc = "walk", r.name # <<>>,
         r.at + 1 >= Len(r.name) \/ r.ctx = Null
  PROVE  /\ NamedIn(M, r.from, r.name) = Bound(M, r.ctx, Last(r.name))
         /\ r.ctx # Null => r.ctx = NamedIn(M, r.from, SubSeq(r.name, 1, Len(r.name) - 1))
<1>1. PICK path \in Seq(Names) : path = r.name
  BY DEF Request
<1>2. Len(path) \in Nat /\ Len(path) \in 1 .. Len(path)
  BY <1>1, EmptySeq, LenProperties
<1>3. CASE r.ctx = Null
  BY <1>1, <1>3 DEF OnTheWay, Bound
<1>4. CASE r.ctx # Null
  <2>1. r.at \in Nat /\ r.at = Len(path) - 1
    BY <1>1, <1>2, <1>4 DEF OnTheWay, Request
  <2>2. r.ctx = NamedIn(M, r.from, SubSeq(path, 1, Len(path) - 1))
    BY <1>1, <1>4, <2>1 DEF OnTheWay
  <2>3. PICK s, k : s = SubSeq(path, 1, Len(path) - 1) /\ k = Len(path)
    OBVIOUS
  <2>4. NamedIn(M, r.from, SubSeq(path, 1, k)) = Bound(M, NamedIn(M, r.from, s), path[k])
    BY <1>2, <2>3, NamedAt
  <2> QED
    BY <1>1, <2>2, <2>3, <2>4, NamedWhole DEF Last
<1> QED
  BY <1>3, <1>4

\* What a step of the loop leaves of a request.
StepTo(r, c) == [r EXCEPT !.ctx = c, !.at = @ + 1]

LEMMA StepKeeps ==
  ASSUME NEW r \in Request, NEW c, NEW q, q = StepTo(r, c)
  PROVE  /\ q.pc = r.pc /\ q.from = r.from /\ q.at = r.at + 1 /\ q.ctx = c /\ q.name = r.name
         /\ q.op = r.op /\ q.goal = r.goal /\ q.holders = r.holders
BY DEF Request, StepTo

\* One component further, where it leads to a context.
LEMMA OneFurther ==
  ASSUME NEW r \in Request, NEW M, r.pc = "walk", r.from \in Ids, r.at + 1 < Len(r.name),
         NEW c \in Ids, NamedIn(M, r.from, SubSeq(r.name, 1, r.at + 1)) = c,
         NEW q, q = StepTo(r, c)
  PROVE  OnTheWay(q, M)
<1>1. /\ q.pc = "walk" /\ q.from = r.from /\ q.at = r.at + 1 /\ q.ctx = c /\ q.name = r.name
  BY StepKeeps
<1> QED
  BY <1>1, IdFacts DEF OnTheWay

\* The end of a request, and a step in which nothing happens.
LEMMA RestWalks ==
  ASSUME Walks(req, name_map, placeholder),
         \/ \E why : Crash(why)
         \/ \E status, id : Answer(status, id)
         \/ UNCHANGED <<req, name_map, placeholder>>
  PROVE  Walks(req', name_map', placeholder')
<1>1. CASE \E status, id : Answer(status, id)
  BY <1>1 DEF Answer, Idle, Walks, GoalOf, OnTheWay, Arrived, Creates, Unbinds
<1>2. CASE UNCHANGED <<req, name_map, placeholder>>
  BY <1>2
<1>3. (\E why : Crash(why)) => UNCHANGED <<req, name_map, placeholder>>
  BY DEF Crash, heap
<1> QED
  BY <1>1, <1>2, <1>3

LEMMA ReceiveWalks ==
  ASSUME WalkInv, NEW r \in Request, GoalOf(r), NEW base \in KnownContexts,
         NEW path \in Seq(Names), Receive(r, base, path)
  PROVE  Walks(req', name_map', placeholder')
<1>1. CASE Crash("null")
  BY <1>1, RestWalks DEF WalkInv
<1>2. CASE req' = [Walking(r, Deref(base), path) EXCEPT !.base = base]
  <2>1. PICK b : b = Deref(base)
    OBVIOUS
  <2>2. b \in Ptr /\ base \in Ptr
    BY <2>1, IdFacts DEF Deref, KnownContexts
  <2>3. PICK q, M, P : q = req' /\ M = name_map' /\ P = placeholder'
    OBVIOUS
  <2>4. q = [Walking(r, b, path) EXCEPT !.base = base]
    BY <1>2, <2>1, <2>3
  <2>5. Walks(q, M, P)
    BY <2>2, <2>4, EntersWalk
  <2> QED
    BY <2>3, <2>5
<1> QED
  BY <1>1, <1>2 DEF Receive

LEMMA ToLinkWalks ==
  ASSUME IInv, WalkInv, NEW r \in Request, r.op \in {"bind_context", "bind_entity"},
         NEW src \in live, ToLink(r, src)
  PROVE  Walks(req', name_map', placeholder')
<1>1. CASE Crash("null")
  BY <1>1, RestWalks DEF WalkInv
<1>2. CASE ~(Len(r.link) < 2)
  <2> DEFINE w == [r EXCEPT !.goal = "create", !.type = "context", !.src = src]
  <2>1. PICK b : b = IF r.op = "bind_context" THEN Null ELSE Deref(r.to)
    OBVIOUS
  <2>2. req' = Walking(w, b, Front(r.link))
    BY <1>2, <2>1 DEF ToLink
  <2>3. live \subseteq Ids
    BY DEF IInv, HeapInv, HeapTypeOK
  <2>4. w \in Request /\ w.op = r.op
    BY <2>3, IdFacts DEF Request, Goals
  <2>5. b \in Ptr
    BY <2>1, <2>3, IdFacts DEF Deref
  <2>6. Front(r.link) \in Seq(Names)
    <3>1. r.link \in Seq(Names)
      BY DEF Request
    <3>2. \A i \in 1 .. Len(r.link) - 1 : r.link[i] \in Names
      BY <3>1, ElementOfSeq, LenProperties
    <3> QED
      BY <1>2, <3>1, <3>2, LenProperties, SubSeqProperties DEF Front
  <2>7. GoalOf(w)
    BY <2>4 DEF GoalOf, Creates, Unbinds
  <2> HIDE DEF w
  <2>8. PICK q, M, P, path : q = req' /\ M = name_map' /\ P = placeholder' /\ path = Front(r.link)
    OBVIOUS
  <2>9. q = Walking(w, b, path)
    BY <2>2, <2>8
  <2>10. Walks(q, M, P)
    BY <2>4, <2>5, <2>6, <2>7, <2>8, <2>9, EntersWalk, IdFacts
  <2> QED
    BY <2>8, <2>10
<1> QED
  BY <1>1, <1>2 DEF ToLink

\* What arrives, other than a bind.
LEMMA ArrivalWalks ==
  ASSUME WalkInv, NEW base \in KnownContexts, NEW path \in Seq(Names),
         NEW type \in {"context", "entity"}, NEW goal \in {"create", "find"},
         NEW op \in {"unbind", "remove_entity"},
         \/ CreateContext(base, path) \/ CreateEntity(base, path) \/ GetStone(type, base, path)
         \/ EntityData(goal, base, path) \/ Resolve(base, path)
         \/ UnbindName(op, base, path) \/ RemoveContextByName(base, path)
  PROVE  Walks(req', name_map', placeholder')
<1>1. \/ \E r \in Request : GoalOf(r) /\ Receive(r, base, path)
      \/ \E status, id : Answer(status, id)
  <2> USE DEF GoalOf, Creates, Unbinds
  <2>0. Idle \in Request
    BY IdleType
  <2>1. CASE CreateContext(base, path)
    <3> DEFINE r == [Idle EXCEPT !.op = "create_context", !.goal = "create"]
    <3>1. r \in Request /\ GoalOf(r)
      BY IdFacts, EmptySeq DEF Idle, Request, Ops, Goals
    <3>2. Receive(r, base, path)
      BY <2>1 DEF CreateContext
    <3> QED
      BY <3>1, <3>2
  <2>2. CASE CreateEntity(base, path)
    <3> DEFINE r == [Idle EXCEPT !.op = "create_entity", !.goal = "create", !.type = "entity"]
    <3>1. r \in Request /\ GoalOf(r)
      BY IdFacts, EmptySeq DEF Idle, Request, Ops, Goals
    <3>2. Receive(r, base, path)
      BY <2>2 DEF CreateEntity
    <3> QED
      BY <3>1, <3>2
  <2>3. CASE GetStone(type, base, path)
    <3> DEFINE r == [Idle EXCEPT !.op = "get_stone", !.goal = "create", !.type = type,
                                 !.holders = TRUE]
    <3>1. r \in Request /\ GoalOf(r)
      BY IdFacts, EmptySeq DEF Idle, Request, Ops, Goals
    <3>2. Receive(r, base, path) \/ Answer(-1, Null)
      BY <2>3 DEF GetStone
    <3> QED
      BY <3>1, <3>2
  <2>4. CASE EntityData(goal, base, path)
    <3> DEFINE r == [Idle EXCEPT !.op = "entity_data", !.goal = goal, !.type = "entity"]
    <3>1. r \in Request /\ GoalOf(r)
      BY IdFacts, EmptySeq DEF Idle, Request, Ops, Goals
    <3>2. Receive(r, base, path)
      BY <2>4 DEF EntityData
    <3> QED
      BY <3>1, <3>2
  <2>5. CASE Resolve(base, path) \/ RemoveContextByName(base, path)
    <3>1. PICK s \in {"resolve", "remove_context"} : Receive([Idle EXCEPT !.op = s], base, path)
      BY <2>5 DEF Resolve, RemoveContextByName
    <3>2. [Idle EXCEPT !.op = s] \in Request /\ GoalOf([Idle EXCEPT !.op = s])
      BY IdFacts, EmptySeq DEF Idle, Request, Ops, Goals
    <3> QED
      BY <3>1, <3>2
  <2>6. CASE UnbindName(op, base, path)
    <3> DEFINE r == [Idle EXCEPT !.op = op, !.goal = "unbind"]
    <3>1. r \in Request /\ GoalOf(r)
      BY IdFacts, EmptySeq DEF Idle, Request, Ops, Goals
    <3>2. Receive(r, base, path)
      BY <2>6 DEF UnbindName
    <3> QED
      BY <3>1, <3>2
  <2> QED
    BY <2>1, <2>2, <2>3, <2>4, <2>5, <2>6
<1> QED
  BY <1>1, ReceiveWalks, RestWalks DEF WalkInv

LEMMA BindArrivalWalks ==
  ASSUME IInv, WalkInv, NEW op \in {"bind_context", "bind_entity"}, NEW path \in Seq(Names),
         NEW base \in KnownContexts, NEW link \in Seq(Names), NEW id \in Ids,
         BindByName(op, path, base, link) \/ BindById(op, id, base, link)
  PROVE  Walks(req', name_map', placeholder')
<1> DEFINE r == [Idle EXCEPT !.op = op, !.to = base, !.link = link]
<1>a. base \in Ptr /\ Null \in KnownContexts
  BY IdFacts DEF KnownContexts
<1>1. r \in Request /\ r.op = op /\ GoalOf(r)
  BY <1>a, IdFacts, EmptySeq DEF Idle, Request, Ops, Goals, GoalOf, Creates, Unbinds
<1>2. \/ Receive(r, Null, path)
      \/ \E why : Crash(why)
      \/ id \in live /\ ToLink(r, id)
      \/ Answer(-1, Null)
  BY DEF BindByName, BindById, Deref
<1> HIDE DEF r
<1>3. CASE Receive(r, Null, path)
  BY <1>a, <1>1, <1>3, ReceiveWalks
<1>4. CASE id \in live /\ ToLink(r, id)
  BY <1>1, <1>4, ToLinkWalks
<1>5. CASE (\E why : Crash(why)) \/ Answer(-1, Null)
  BY <1>5, RestWalks DEF WalkInv
<1> QED
  BY <1>2, <1>3, <1>4, <1>5

\* The loop: it descends to what the next component denotes, makes it when it may, or ends
\* where the name leads nowhere.
LEMMA WalkStepWalks ==
  ASSUME IInv, Classes, WalkInv, WalkStep
  PROVE  Walks(req', name_map', placeholder')
<1> DEFINE Step(c) == req' = StepTo(req, c)
<1>a. /\ HeapTypeOK /\ NoDanglingBinding /\ req \in Request /\ req.pc = "walk"
      /\ Null \notin live /\ name_map \in NameMaps
  BY IdFacts DEF IInv, RequestInv, RequestTypeOK, HeapInv, HeapTypeOK, WalkStep, Running, NameMaps
<1>b. GoalOf(req) /\ OnTheWay(req, name_map) /\ OnlyContextsBind
  BY DEF WalkInv, Walks
<1>c. req.ctx # Null /\ req.from \in Ids /\ req.from \in Ptr
  BY <1>a, <1>b, IdFacts DEF WalkStep, OnTheWay
<1>d. PICK path \in Seq(Names) : path = req.name
  BY <1>a DEF Request
<1>e. PICK from \in Ids : from = req.from
  BY <1>c
<1>f. req.at \in Nat /\ Len(path) \in Nat /\ req.at + 1 < Len(path)
  BY <1>a, <1>d, LenProperties DEF Request, WalkStep
<1>g. PICK k \in 1 .. Len(path) : k = req.at + 1
  BY <1>f
<1>h. PICK j \in 1 .. Len(path) : j = k + 1
  BY <1>f, <1>g
<1>1. PICK p, n, o : /\ p = req.ctx /\ n = path[k] /\ o = name_map[p][n]
                     /\ k = req.at + 1 /\ path = req.name /\ from = req.from
  BY <1>d, <1>e, <1>g
<1>2. /\ k < Len(path) /\ k \in 0 .. Len(path) /\ j \in 0 .. Len(path)
      /\ n \in Names /\ path[j] \in Names /\ Len(path) \in Nat
  BY <1>1, <1>f, <1>g, ElementOfSeq
<1>3. PICK s : s = SubSeq(path, 1, k - 1)
  OBVIOUS
<1>4. NamedIn(name_map, from, s) = p
  <2>1. k - 1 = req.at
    BY <1>a, <1>1 DEF Request
  <2> QED
    BY <1>a, <1>b, <1>c, <1>1, <1>3, <2>1 DEF OnTheWay
<1>5. NamedIn(name_map, from, SubSeq(path, 1, k)) = o
  <2>1. PICK M : M = name_map
    OBVIOUS
  <2>2. NamedIn(M, from, SubSeq(path, 1, k)) = Bound(M, NamedIn(M, from, s), path[k])
    BY <1>2, <1>3, NamedAt
  <2> QED
    BY <1>1, <1>c, <1>4, <2>1, <2>2 DEF Bound
<1>6. \/ Crash("freed")
      \/ Step(Null) /\ UNCHANGED heap /\ (o = Null \/ (o \in live /\ kind[o] # "context"))
      \/ o \in live /\ name_map' = name_map /\ Step(o)
      \/ /\ p \in live /\ o = Null
         /\ \E real \in BOOLEAN : NewObject("context", p, n, real)
         /\ Step(NewId)
  BY <1>1 DEF WalkStep, MakeReal, heap, StepTo
<1> HIDE DEF Step
<1>7. CASE Crash("freed")
  BY <1>7, RestWalks DEF WalkInv
<1>8. ASSUME NEW c, NEW M, Step(c), M = name_map', OnTheWay(req', M)
      PROVE  Walks(req', name_map', placeholder')
  <2>1. PICK q : q = req' /\ q = StepTo(req, c)
    BY <1>8 DEF Step
  <2>2. q.pc = req.pc /\ q.op = req.op /\ q.goal = req.goal /\ q.holders = req.holders
    BY <1>a, <2>1, StepKeeps
  <2> QED
    BY <1>a, <1>b, <1>8, <2>1, <2>2 DEF Walks, GoalOf, Arrived
<1>9. CASE Step(Null) /\ UNCHANGED heap /\ (o = Null \/ (o \in live /\ kind[o] # "context"))
  <2>1. PICK q : q = req' /\ q = StepTo(req, Null)
    BY <1>9 DEF Step
  <2>2. /\ q.pc = "walk" /\ q.from = from /\ q.at = k /\ q.ctx = Null /\ q.name = path
    BY <1>a, <1>1, <2>1, StepKeeps
  <2>3. PICK M : M = name_map /\ M = name_map'
    BY <1>9 DEF heap
  <2>4. NamedIn(M, from, path) = Null
    <3>1. CASE o = Null
      BY <1>2, <1>5, <2>3, <3>1, NullStays
    <3>2. CASE o \in live /\ kind[o] # "context"
      <4>1. M[o] = NoBindings /\ o # Null
        BY <1>a, <1>b, <2>3, <3>2 DEF OnlyContextsBind, HeapTypeOK
      <4>2. PICK t : t = SubSeq(path, 1, k) /\ t = SubSeq(path, 1, j - 1)
        <5>1. k = j - 1
          BY <1>h
        <5> QED
          BY <5>1
      <4>3. NamedIn(M, from, SubSeq(path, 1, j)) = Bound(M, NamedIn(M, from, t), path[j])
        BY <4>2, NamedAt
      <4>4. NamedIn(M, from, SubSeq(path, 1, j)) = Null
        BY <1>2, <1>5, <2>3, <4>1, <4>2, <4>3 DEF Bound, NoBindings
      <4> QED
        BY <1>2, <4>4, NullStays
    <3> QED
      BY <1>9, <3>1, <3>2
  <2>5. path # <<>>
    BY <1>2, EmptySeq
  <2>6. OnTheWay(q, M)
    BY <1>2, <2>2, <2>4, <2>5 DEF OnTheWay
  <2> QED
    BY <1>8, <1>9, <2>1, <2>3, <2>6
<1>10. CASE o \in live /\ name_map' = name_map /\ Step(o)
  <2>1. PICK q, M : q = req' /\ q = StepTo(req, o) /\ M = name_map
    BY <1>10 DEF Step
  <2>2. o \in Ids
    BY <1>10, <1>a DEF HeapTypeOK
  <2>3. OnTheWay(q, M)
    BY <1>a, <1>1, <1>2, <1>5, <2>1, <2>2, OneFurther
  <2> QED
    BY <1>8, <1>10, <2>1, <2>3
<1>11. CASE /\ p \in live /\ o = Null
            /\ \E real \in BOOLEAN : NewObject("context", p, n, real)
            /\ Step(NewId)
  <2>1. PICK q, M, N, i : q = req' /\ M = name_map /\ N = name_map' /\ i = NewId
    OBVIOUS
  <2>2. q = StepTo(req, i) /\ Step(i)
    BY <1>11, <2>1 DEF Step
  <2>3. i \in Ids /\ Rebinds(M, N, p, n, i) /\ p \in Ids
    BY <1>11, <1>a, <2>1 DEF NewObject, Rebinds, HeapTypeOK
  <2>4. NamedIn(N, from, SubSeq(path, 1, k)) = i
    <3>1. M[p][n] = Null /\ from \in Ptr /\ path[k] = n /\ M \in NameMaps
      BY <1>11, <1>1, <1>a, <2>1, IdFacts
    <3>2. NamedIn(M, from, SubSeq(path, 1, k - 1)) = p
      BY <1>3, <1>4, <2>1
    <3> QED
      BY <1>2, <2>3, <3>1, <3>2, NamedAnew
  <2>5. OnTheWay(q, N)
    BY <1>a, <1>1, <1>2, <2>2, <2>3, <2>4, OneFurther
  <2> QED
    BY <1>8, <2>1, <2>2, <2>5
<1> QED
  BY <1>6, <1>7, <1>9, <1>10, <1>11

\* What the end of a walk leaves of a request.
Back(r, o) == [r EXCEPT !.pc = "done", !.val = o]

LEMMA BackKeeps ==
  ASSUME NEW r \in Request, NEW o, NEW q, q = Back(r, o)
  PROVE  /\ q.pc = "done" /\ q.from = r.from /\ q.val = o /\ q.name = r.name
         /\ q.op = r.op /\ q.goal = r.goal /\ q.holders = r.holders
BY DEF Request, Back

\* The end of a walk, when it returns what the name denotes.
LEMMA Returns ==
  ASSUME NEW r \in Request, GoalOf(r), NEW o, NEW q, q = Back(r, o), NEW M, NEW P,
         r.name # <<>> /\ r.op \in Creates => o = NamedIn(M, r.from, r.name) /\ o \notin P,
         r.name # <<>> /\ r.op = "resolve" =>
           o = IF NamedIn(M, r.from, r.name) \in P THEN Null ELSE NamedIn(M, r.from, r.name)
  PROVE  Walks(q, M, P)
<1>1. /\ q.pc = "done" /\ q.from = r.from /\ q.val = o /\ q.name = r.name
      /\ q.op = r.op /\ q.goal = r.goal /\ q.holders = r.holders
  BY BackKeeps
<1> QED
  BY <1>1 DEF Walks, GoalOf, OnTheWay, Arrived

LEMMA LookupOrCreateWalks ==
  ASSUME IInv, Classes, WalkInv, LookupOrCreate
  PROVE  Walks(req', name_map', placeholder')
<1>a. /\ HeapTypeOK /\ Fresh /\ req \in Request /\ req.pc = "walk" /\ req.goal = "create"
      /\ Null \notin live /\ name_map \in NameMaps
      /\ (req.at + 1 >= Len(req.name) \/ req.ctx = Null)
  BY IdFacts DEF IInv, RequestInv, RequestTypeOK, HeapInv, HeapTypeOK, LookupOrCreate, Walked,
     Running, NameMaps
<1>b. GoalOf(req) /\ OnTheWay(req, name_map)
  BY DEF WalkInv, Walks
<1>c. req.op # "resolve" /\ (req.op \in Creates => ~req.holders) /\ req.from \in Ptr
  BY <1>a, <1>b DEF GoalOf, Request
<1>d. PICK path \in Seq(Names) : path = req.name
  BY <1>a DEF Request
<1>e. PICK from \in Ptr : from = req.from
  BY <1>c
<1>1. PICK p, n, o : p = req.ctx /\ n = Last(path) /\ o = name_map[p][n] /\ from = req.from
  BY <1>e
<1>2. ASSUME path # <<>>
      PROVE  /\ NamedIn(name_map, from, path) = Bound(name_map, p, n)
             /\ p # Null => p = NamedIn(name_map, from, SubSeq(path, 1, Len(path) - 1))
  <2>1. PICK M : M = name_map
    OBVIOUS
  <2> QED
    BY <1>a, <1>b, <1>d, <1>1, <1>2, <2>1, AtLast
<1>3. \/ \E why : Crash(why)
      \/ path = <<>> /\ Return(Root)
      \/ /\ path # <<>> /\ p \in live /\ o = Null
         /\ NewObject(req.type, p, n, ~req.holders) /\ Return(NewId)
      \/ path # <<>> /\ p \in live /\ o \in live /\ MakeReal(o) /\ Return(o)
      \/ /\ path # <<>> /\ p \in live /\ o \in live /\ (o \notin placeholder \/ req.holders)
         /\ Return(o) /\ UNCHANGED heap
  BY <1>1, <1>a, <1>d DEF LookupOrCreate
<1>4. ASSUME NEW i, Return(i), NEW M, NEW P, M = name_map', P = placeholder',
             path # <<>> /\ req.op \in Creates => i = NamedIn(M, from, path) /\ i \notin P
      PROVE  Walks(req', name_map', placeholder')
  <2>1. PICK q, r : q = req' /\ r = req /\ q = Back(r, i)
    BY <1>4 DEF Return, Back
  <2> QED
    BY <1>a, <1>b, <1>c, <1>d, <1>1, <1>4, <2>1, Returns
<1>5. CASE \E why : Crash(why)
  BY <1>5, RestWalks DEF WalkInv
<1>6. CASE path = <<>> /\ Return(Root)
  BY <1>4, <1>6
<1>7. CASE /\ path # <<>> /\ p \in live /\ o = Null
           /\ NewObject(req.type, p, n, ~req.holders) /\ Return(NewId)
  <2>1. PICK M, N, P, i : M = name_map /\ N = name_map' /\ P = placeholder' /\ i = NewId
    OBVIOUS
  <2>2. /\ i \in Ids /\ Rebinds(M, N, p, n, i) /\ p \in Ids /\ M \in NameMaps /\ M[p][n] = Null
        /\ Return(i)
    BY <1>7, <1>a, <1>1, <2>1 DEF NewObject, Rebinds, HeapTypeOK
  <2>3. n \in Names
    BY <1>7, <1>1, LastType
  <2>4. Len(path) \in Nat /\ Len(path) \in 1 .. Len(path)
    BY <1>7, EmptySeq, LenProperties
  <2>5. PICK k \in 1 .. Len(path) : k = Len(path)
    BY <2>4
  <2>6. NamedIn(M, from, SubSeq(path, 1, k - 1)) = p /\ path[k] = n
    BY <1>2, <1>7, <1>a, <1>1, <2>1, <2>2, <2>5, IdFacts DEF Last
  <2>7. NamedIn(N, from, SubSeq(path, 1, k)) = i
    BY <2>2, <2>3, <2>6, NamedAnew
  <2>8. NamedIn(N, from, path) = i
    BY <2>5, <2>7, NamedWhole
  <2>9. i \notin placeholder /\ (~req.holders => P = placeholder)
    BY <1>7, <1>a, <2>1, <2>2, IdFacts, MaxIdNat DEF Fresh, NewObject, NewId, HeapTypeOK, Root
  <2> QED
    BY <1>4, <1>c, <2>1, <2>2, <2>8, <2>9
<1>8. CASE path # <<>> /\ p \in live /\ o \in live /\ MakeReal(o) /\ Return(o)
  <2>1. name_map' = name_map /\ o \notin placeholder'
    BY <1>8 DEF MakeReal
  <2>2. NamedIn(name_map, from, path) = o
    BY <1>2, <1>8, <1>1, <1>a DEF Bound
  <2> QED
    BY <1>4, <1>8, <2>1, <2>2
<1>9. CASE /\ path # <<>> /\ p \in live /\ o \in live /\ (o \notin placeholder \/ req.holders)
           /\ Return(o) /\ UNCHANGED heap
  <2>1. name_map' = name_map /\ placeholder' = placeholder
    BY <1>9 DEF heap
  <2>2. NamedIn(name_map, from, path) = o
    BY <1>2, <1>9, <1>1, <1>a DEF Bound
  <2> QED
    BY <1>4, <1>9, <1>c, <2>1, <2>2
<1> QED
  BY <1>3, <1>5, <1>6, <1>7, <1>8, <1>9

LEMMA LookupWalks ==
  ASSUME IInv, Classes, WalkInv, Lookup
  PROVE  Walks(req', name_map', placeholder')
<1>a. /\ HeapTypeOK /\ req \in Request /\ req.pc = "walk" /\ req.goal = "find"
      /\ Null \notin placeholder /\ Null \notin live
      /\ (req.at + 1 >= Len(req.name) \/ req.ctx = Null)
  BY IdFacts DEF IInv, RequestInv, RequestTypeOK, HeapInv, HeapTypeOK, Lookup, Walked, Running
<1>b. GoalOf(req) /\ OnTheWay(req, name_map)
  BY DEF WalkInv, Walks
<1>c. req.op \notin Creates
  BY <1>a, <1>b DEF GoalOf
<1>1. PICK p, n, o, M, P, r : /\ p = req.ctx /\ n = Last(req.name) /\ o = name_map[p][n]
                              /\ M = name_map /\ P = placeholder /\ r = req
  OBVIOUS
<1>2. \/ \E why : Crash(why)
      \/ \E i : /\ Return(i) /\ UNCHANGED heap
                /\ req.name # <<>> => i = IF p = Null \/ o \in placeholder THEN Null ELSE o
  BY <1>1 DEF Lookup
<1>3. CASE \E why : Crash(why)
  BY <1>3, RestWalks DEF WalkInv
<1>4. ASSUME NEW i, Return(i), UNCHANGED heap,
             req.name # <<>> => i = IF p = Null \/ o \in placeholder THEN Null ELSE o
      PROVE  Walks(req', name_map', placeholder')
  <2>1. PICK q : q = req' /\ q = Back(r, i)
    BY <1>1, <1>4 DEF Return, Back
  <2>2. r.name # <<>> => NamedIn(M, r.from, r.name) = Bound(M, p, n)
    BY <1>a, <1>b, <1>1, AtLast
  <2>3. r.name # <<>> => i = IF NamedIn(M, r.from, r.name) \in P THEN Null
                             ELSE NamedIn(M, r.from, r.name)
    BY <1>4, <1>a, <1>1, <2>2 DEF Bound
  <2>4. Walks(q, M, P)
    BY <1>a, <1>b, <1>c, <1>1, <2>1, <2>3, Returns
  <2>5. M = name_map' /\ P = placeholder'
    BY <1>1, <1>4 DEF heap
  <2> QED
    BY <2>1, <2>4, <2>5
<1> QED
  BY <1>2, <1>3, <1>4

\* A bind whose source has been found goes on; everything else is an end.
LEMMA FoundSourceWalks ==
  ASSUME IInv, WalkInv, FoundSource
  PROVE  Walks(req', name_map', placeholder')
<1>a. req \in Request /\ req.val \in live \cup {Null} /\ req.op \in {"bind_context", "bind_entity"}
  BY DEF IInv, RequestInv, RequestTypeOK, InFlight, FoundSource, Running
<1>1. PICK r \in Request : r = req
  BY <1>a
<1>2. \/ \E why : Crash(why)
      \/ \E status, id : Answer(status, id)
      \/ \E s \in live : ToLink(r, s)
  BY <1>1, <1>a DEF FoundSource, As, ToLink
<1> QED
  BY <1>a, <1>1, <1>2, RestWalks, ToLinkWalks DEF WalkInv

LEMMA EndWalks ==
  ASSUME WalkInv,
         \/ RemoveBinding \/ FinishCreate \/ FinishGetStone \/ FinishEntityData \/ FinishResolve
         \/ FinishBind \/ FinishRemoveContext \/ RemoveDomain
         \/ \E c \in KnownContexts : RemoveContextById(c)
         \/ \E e \in KnownEntities : RemoveEntityById(e)
  PROVE  Walks(req', name_map', placeholder')
<1>1. \/ \E why : Crash(why)
      \/ \E status, id : Answer(status, id)
  BY DEF RemoveBinding, FinishCreate, FinishGetStone, FinishEntityData, FinishResolve,
     FinishBind, FinishRemoveContext, RemoveDomain, RemoveContextById, RemoveEntityById,
     DeleteContext
<1> QED
  BY <1>1, RestWalks DEF WalkInv

\* Every step keeps walks on their names.
LEMMA NextWalks == IInv /\ Classes /\ WalkInv /\ [Next]_vars => WalkInv'
<1> SUFFICES ASSUME IInv, Classes, WalkInv, [Next]_vars PROVE WalkInv'
  OBVIOUS
<1>a. KnownEntities \subseteq Ids /\ Null \in KnownContexts /\ KnownContexts \ {Null} \subseteq Ids
  BY IdFacts DEF KnownContexts, KnownEntities
<1>0. OnlyContextsBind'
  BY NextHolds, ContextsBind DEF IInv, WalkInv
<1> SUFFICES Walks(req', name_map', placeholder')
  BY <1>0 DEF WalkInv
<1>1. ASSUME NEW base \in KnownContexts,
             \/ \E path \in CtxPaths : CreateContext(base, path)
             \/ \E path \in EntPaths : CreateEntity(base, path)
             \/ \E path \in CtxPaths : GetStone("context", base, path)
             \/ \E path \in EntPaths : GetStone("entity", base, path)
             \/ \E path \in EntPaths, goal \in {"create", "find"} : EntityData(goal, base, path)
             \/ \E path \in CtxPaths \cup EntPaths : Resolve(base, path)
             \/ \E path \in CtxPaths \cup EntPaths : UnbindName("unbind", base, path)
             \/ \E path \in EntPaths : UnbindName("remove_entity", base, path)
             \/ \E path \in CtxPaths : RemoveContextByName(base, path)
      PROVE  Walks(req', name_map', placeholder')
  BY <1>1, ArrivalWalks, PathsAreNames
<1>2. ASSUME NEW base \in KnownContexts, NEW path \in EntPaths, NEW link \in EntLinks,
             BindByName("bind_entity", path, base, link)
      PROVE  Walks(req', name_map', placeholder')
  BY <1>2, BindArrivalWalks, PathsAreNames, IdFacts
<1>3. ASSUME NEW base \in KnownContexts, NEW id \in KnownEntities, NEW link \in EntLinks,
             BindById("bind_entity", id, base, link)
      PROVE  Walks(req', name_map', placeholder')
  BY <1>3, <1>a, BindArrivalWalks, PathsAreNames, EmptySeq
<1>4. ASSUME NEW path \in CtxPaths, NEW link \in CtxLinks,
             BindByName("bind_context", path, Null, link)
      PROVE  Walks(req', name_map', placeholder')
  BY <1>4, <1>a, BindArrivalWalks, PathsAreNames, IdFacts
<1>5. ASSUME NEW id \in KnownContexts \ {Null}, NEW link \in CtxLinks,
             BindById("bind_context", id, Null, link)
      PROVE  Walks(req', name_map', placeholder')
  BY <1>5, <1>a, BindArrivalWalks, PathsAreNames, EmptySeq
<1>6. CASE \/ \E c \in KnownContexts : RemoveContextById(c)
           \/ \E e \in KnownEntities : RemoveEntityById(e)
           \/ RemoveDomain
  BY <1>6, EndWalks
<1>7. CASE Service
  BY <1>7, WalkStepWalks, LookupOrCreateWalks, LookupWalks, FoundSourceWalks, EndWalks DEF Service
<1>8. CASE UNCHANGED vars
  BY <1>8, RestWalks DEF vars, heap, WalkInv
<1> QED
  BY <1>1, <1>2, <1>3, <1>4, <1>5, <1>6, <1>7, <1>8 DEF Next, Arrival

\* Walks follow their names, and arrive at what they denote.
THEOREM WalksInvariant == Spec => []WalkInv
<1>1. Init => WalkInv
  BY DEF Init, WalkInv, OnlyContextsBind, Walks, GoalOf, OnTheWay, Arrived, Idle, Creates, Unbinds
<1>2. IInv /\ Classes /\ WalkInv /\ [Next]_vars => WalkInv'
  BY NextWalks
<1> QED
  BY <1>1, <1>2, Invariance, ClassesKept, PTL DEF Spec

\* After each iteration the loop of Domain::get_context_of_name has reached the context that the
\* components behind it name, whatever it created or promoted on the way.
THEOREM WalksFollow == Spec => []WalkFollowsName
<1>1. IInv /\ WalkInv => WalkFollowsName
  <2> SUFFICES ASSUME IInv, WalkInv, req.pc = "walk", req.ctx # Null
               PROVE  req.ctx = Named(req.from, SubSeq(req.name, 1, req.at))
    BY DEF WalkFollowsName
  <2> QED
    BY NamedIsIn DEF WalkInv, Walks, OnTheWay
<1> QED
  BY <1>1, WalksInvariant, Invariance, PTL

(***************************************************************************)
(* What a request answers.                                                 *)
(***************************************************************************)

\* The reply to a request for a name: M and P are the name maps and the placeholders before its
\* last step, N and Q after it.
Replies(r, ans, M, P, N, L, Q) ==
  r.name # <<>> =>
    /\ r.op \in Creates => ans.id = NamedIn(N, r.from, r.name) /\ ans.id \in L \ Q
    /\ r.op = "resolve" => ans.id = IF NamedIn(M, r.from, r.name) \in P THEN Null
                                    ELSE NamedIn(M, r.from, r.name)
    /\ r.op \in Unbinds =>
         /\ NamedIn(N, r.from, r.name) = Null
         /\ ans.status = 1 <=> NamedIn(M, r.from, r.name) # Null

Answers == req.pc # "idle" /\ req'.pc = "idle" =>
             Replies(req, reply', name_map, placeholder, name_map', live', placeholder')

LEMMA FinishAnswers ==
  ASSUME IInv, WalkInv, FinishCreate \/ FinishResolve
  PROVE  Answers
<1>a. req \in Request /\ req.pc = "done" /\ req.op \in Creates \cup {"resolve"}
      /\ req.op \notin Unbinds /\ Arrived(req, name_map, placeholder)
  BY DEF IInv, RequestInv, RequestTypeOK, WalkInv, Walks, FinishCreate, FinishResolve, Ending,
     Running, Creates, Unbinds
<1>1. (\E why : Crash(why)) => req' = req
  BY DEF Crash
<1>2. CASE \E why : Crash(why)
  BY <1>1, <1>2, <1>a DEF Answers
<1>3. CASE FinishCreate /\ ~(\E why : Crash(why))
  <2>1. req.val \in live /\ Answer(1, req.val) /\ UNCHANGED heap /\ req.op \in Creates
    BY <1>3 DEF FinishCreate, Creates
  <2>2. /\ reply'.id = req.val /\ live' = live /\ placeholder' = placeholder
        /\ name_map' = name_map /\ req.op # "resolve"
    BY <2>1 DEF Answer, heap, Creates
  <2> QED
    BY <1>a, <2>1, <2>2 DEF Answers, Replies, Arrived
<1>4. CASE FinishResolve
  <2>1. reply'.id = req.val /\ req.op = "resolve" /\ req.op \notin Creates
    BY <1>4 DEF FinishResolve, Answer, Ending, Creates
  <2> QED
    BY <1>a, <2>1 DEF Answers, Replies, Arrived
<1> QED
  BY <1>2, <1>3, <1>4

LEMMA UnbindAnswers ==
  ASSUME IInv, Classes, WalkInv, RemoveBinding
  PROVE  Answers
<1>a. /\ HeapTypeOK /\ NoDanglingBinding /\ req \in Request /\ req.pc = "walk"
      /\ req.goal = "unbind" /\ Null \notin live /\ name_map \in NameMaps
      /\ (req.at + 1 >= Len(req.name) \/ req.ctx = Null)
  BY IdFacts DEF IInv, RequestInv, RequestTypeOK, HeapInv, HeapTypeOK, RemoveBinding, Walked,
     Running, NameMaps
<1>b. GoalOf(req) /\ OnTheWay(req, name_map)
  BY DEF WalkInv, Walks
<1>c. req.op \notin Creates /\ req.op # "resolve" /\ req.from \in Ptr
  BY <1>a, <1>b DEF GoalOf, Request
<1>d. PICK path \in Seq(Names) : path = req.name
  BY <1>a DEF Request
<1>e. PICK from \in Ptr : from = req.from
  BY <1>c
<1>1. PICK p, n, o : p = req.ctx /\ n = Last(path) /\ o = name_map[p][n]
  OBVIOUS
<1> SUFFICES ASSUME path # <<>>, req'.pc = "idle"
             PROVE  /\ NamedIn(name_map', from, path) = Null
                    /\ reply'.status = 1 <=> NamedIn(name_map, from, path) # Null
  BY <1>c, <1>d, <1>e DEF Answers, Replies
<1>2. /\ NamedIn(name_map, from, path) = Bound(name_map, p, n)
      /\ p # Null => p = NamedIn(name_map, from, SubSeq(path, 1, Len(path) - 1))
  <2>1. PICK M : M = name_map
    OBVIOUS
  <2> QED
    BY <1>a, <1>b, <1>d, <1>e, <1>1, <2>1, AtLast
<1>3. \/ (p = Null \/ o = Null) /\ Answer(-1, Null) /\ UNCHANGED heap
      \/ p \in live /\ o \in live /\ Unbind(p, n) /\ Answer(1, Null)
  <2>1. ~(\E why : Crash(why))
    BY <1>a DEF Crash
  <2> QED
    BY <1>1, <1>d, <2>1 DEF RemoveBinding
<1>4. CASE (p = Null \/ o = Null) /\ Answer(-1, Null) /\ UNCHANGED heap
  <2>1. name_map' = name_map /\ reply'.status = -1
    BY <1>4 DEF heap, Answer
  <2>2. NamedIn(name_map, from, path) = Null
    BY <1>1, <1>2, <1>4 DEF Bound
  <2>3. NamedIn(name_map', from, path) = Null
    BY <2>1, <2>2
  <2> QED
    BY <2>1, <2>2, <2>3
<1>5. CASE p \in live /\ o \in live /\ Unbind(p, n) /\ Answer(1, Null)
  <2>1. PICK M, N : M = name_map /\ N = name_map'
    OBVIOUS
  <2>2. Rebinds(M, N, p, n, Null) /\ p \in Ids /\ n \in Names /\ reply'.status = 1
    BY <1>5, <1>a, <1>1, <2>1, LastType DEF Unbind, Rebinds, Answer, HeapTypeOK
  <2>3. NamedIn(M, from, path) # Null
    BY <1>1, <1>2, <1>5, <1>a, <2>1 DEF Bound
  <2>4. NamedIn(M, from, SubSeq(path, 1, Len(path) - 1)) = p /\ path[Len(path)] = n
    BY <1>1, <1>2, <1>5, <1>a, <2>1 DEF Last
  <2>5. NamedIn(N, from, path) = Null
    BY <1>a, <2>1, <2>2, <2>4, NamedNoMore
  <2> QED
    BY <2>1, <2>2, <2>3, <2>5
<1> QED
  BY <1>3, <1>4, <1>5

LEMMA NextAnswers == IInv /\ Classes /\ WalkInv /\ [Next]_vars => Answers
<1> SUFFICES ASSUME IInv, Classes, WalkInv, [Next]_vars PROVE Answers
  OBVIOUS
<1>1. CASE req.op \notin Creates \cup Unbinds \cup {"resolve"}
  BY <1>1 DEF Answers, Replies
<1>2. CASE Arrival \/ UNCHANGED vars
  <2>1. req.pc = "idle" \/ req' = req
    BY <1>2 DEF Arrival, vars, CreateContext, CreateEntity, GetStone, EntityData, Resolve, UnbindName,
       RemoveContextByName, BindByName, BindById, RemoveContextById, RemoveEntityById, RemoveDomain,
       Receive, Running
  <2> QED
    BY <2>1 DEF Answers
<1>3. CASE WalkStep \/ LookupOrCreate \/ Lookup
  <2>1. req' = req \/ req'.pc # "idle"
    <3>1. req \in Request
      BY DEF IInv, RequestInv, RequestTypeOK
    <3>2. WalkStep => req' = req \/ req'.pc = "walk"
      BY <3>1 DEF WalkStep, Crash, Request, Running
    <3>3. LookupOrCreate \/ Lookup => req' = req \/ req'.pc = "done"
      BY <3>1 DEF LookupOrCreate, Lookup, Crash, Return, Request
    <3> QED
      BY <1>3, <3>2, <3>3
  <2> QED
    BY <2>1 DEF Answers
<1>4. CASE FinishGetStone \/ FinishEntityData \/ FoundSource \/ FinishBind \/ FinishRemoveContext
  BY <1>1, <1>4 DEF FinishGetStone, FinishEntityData, FoundSource, FinishBind,
     FinishRemoveContext, Ending, Creates, Unbinds
<1> QED
  BY <1>2, <1>3, <1>4, FinishAnswers, UnbindAnswers DEF Next, Service

\* A create answers with the real object its name denotes from then on, a resolve with the
\* object the name denotes unless it is a placeholder, and after an unbind, which says whether
\* there was anything to unbind, the name denotes nothing.
THEOREM RepliesFollow == Spec => RepliesMatchNames
<1>1. Answers => \A from \in {req.from}, name \in {req.name} :
        req.pc # "idle" /\ req'.pc = "idle" /\ name # <<>> =>
          /\ req.op \in {"create_context", "create_entity"} =>
               reply'.id = Named(from, name)' /\ reply'.id \in live' \ placeholder'
          /\ req.op = "resolve" =>
               reply'.id = IF Named(from, name) \in placeholder THEN Null
                           ELSE Named(from, name)
          /\ req.op \in {"unbind", "remove_entity"} =>
               /\ Named(from, name)' = Null
               /\ reply'.status = 1 <=> Named(from, name) # Null
  <2>1. \A c, path : Named(c, path)' = NamedIn(name_map', c, path)
    BY DEF Named, NamedIn
  <2> QED
    BY <2>1, NamedIsIn DEF Answers, Replies, Creates, Unbinds
<1> QED
  BY <1>1, NextAnswers, Invariance, ClassesKept, WalksInvariant, PTL DEF Spec, RepliesMatchNames

(***************************************************************************)
(* Careful clients.  A request follows a freed pointer when a context went *)
(* before the objects that were created in it or are bound in it; a null   *)
(* one when a name for an entity is used on the way.  While clients keep   *)
(* the contract, neither comes about.                                      *)
(***************************************************************************)

\* Parents are older, exist, and are contexts; only the root has none.
Rooted ==
  /\ \A o \in Ids : parent[o] < o
  /\ Root \in live \ placeholder /\ parent[Root] = Null
  /\ \A o \in live \ {Root} : parent[o] \in live /\ kind[parent[o]] = "context"

\* Referrers exist.
ReferrersLive == \A o \in live, c \in Ids : referrers[o][c] > 0 => c \in live

\* A name tells what it is bound to.
Fits(n, type) == (n \in ContextNames => type = "context") /\ (n \in EntityNames => type = "entity")

NamesTell ==
  \A c \in live, n \in Names : name_map[c][n] # Null => Fits(n, kind[name_map[c][n]])

Tidy == Rooted /\ ReferrersLive /\ NamesTell

\* path is a name careful clients use for objects of that type.
NameFor(type, path) ==
  /\ Range(Front(path)) \subseteq ContextNames
  /\ IF type = "entity" THEN path # <<>> /\ Last(path) \in EntityNames
     ELSE path # <<>> => Last(path) \in ContextNames

Binds == {"bind_context", "bind_entity"}
Bindable(op) == IF op = "bind_context" THEN "context" ELSE "entity"

\* What a careful client sends stays good as long as the objects L of the classes K exist.
Sent(r, L, K) ==
  /\ r.op # "remove_context"
  /\ r.op = "get_stone" => r.goal = "create"
  /\ r.to \in L \cup {Null}
  /\ r.op \in Binds =>
       /\ Len(r.link) >= 2 /\ NameFor(Bindable(r.op), r.link)
       /\ IF r.src = Null THEN r.goal = "find"
          ELSE r.goal = "create" /\ r.type = "context" /\ r.src \in L
               /\ K[r.src] = Bindable(r.op)

\* A walk is in a context that exists, and what is bound next exists and is one.
SafeWalk(r, L, M, P) ==
  /\ r.ctx \in L \cup {Null}
  /\ Range(Front(r.name)) \subseteq ContextNames
  /\ r.goal = "create" => r.ctx # Null /\ NameFor(r.type, r.name)
  /\ r.goal = "unbind" => r.name # <<>>
  /\ r.op = "bind_context" /\ r.src = Null =>
       NameFor("context", r.name) /\ NamedIn(M, r.from, r.name) \in L \ P

\* What was found or made is what the tail of the handler needs.
SafeEnd(r, L, K) ==
  /\ r.goal # "unbind"
  /\ r.goal = "create" => r.val \in L /\ K[r.val] = r.type
  /\ r.op = "bind_context" /\ r.src = Null => r.val \in L /\ K[r.val] = "context"

Safe(r, L, K, M, P) ==
  r.pc # "idle" =>
    /\ Sent(r, L, K)
    /\ r.pc = "walk" => SafeWalk(r, L, M, P)
    /\ r.pc = "done" => SafeEnd(r, L, K)

\* The invariant of a server with careful clients: it runs, and serves a domain or is idle.
Up == fault = "none" /\ domain_up /\ Tidy /\ Safe(req, live, kind, name_map, placeholder)
Down == fault = "none" /\ ~domain_up /\ req.pc = "idle"
CarefulInv == Careful => Up \/ Down

(***************************************************************************)
(* Names and what they are used for.                                       *)
(***************************************************************************)

\* The head of a name.
LEMMA FrontParts ==
  ASSUME NEW s \in Seq(Names)
  PROVE  /\ Front(s) \in Seq(Names)
         /\ Len(Front(s)) = IF s = <<>> THEN 0 ELSE Len(s) - 1
         /\ \A i \in 1 .. Len(s) - 1 : Front(s)[i] = s[i]
<1>1. Len(s) \in Nat /\ \A i \in 1 .. Len(s) : s[i] \in Names
  BY LenProperties, ElementOfSeq
<1>2. \A i \in 1 .. Len(s) - 1 : s[i] \in Names
  BY <1>1
<1>3. /\ Front(s) \in Seq(Names)
      /\ Len(Front(s)) = IF 1 <= Len(s) - 1 THEN Len(s) - 1 - 1 + 1 ELSE 0
      /\ \A i \in 1 .. Len(s) - 1 - 1 + 1 : Front(s)[i] = s[1 + i - 1]
  BY <1>1, <1>2, SubSeqProperties DEF Front
<1>4. s = <<>> <=> Len(s) = 0
  BY EmptySeq
<1> QED
  BY <1>1, <1>3, <1>4

\* The leading components of a name make up the range of its head.
LEMMA FrontRange ==
  ASSUME NEW s \in Seq(Names)
  PROVE  Range(Front(s)) = {s[i] : i \in 1 .. Len(s) - 1}
<1>1. Len(s) \in Nat /\ Front(s) \in Seq(Names) /\ (s = <<>> <=> Len(s) = 0)
  BY FrontParts, LenProperties, EmptySeq
<1>2. PICK h \in Seq(Names) : h = Front(s)
  BY <1>1
<1>3. DOMAIN h = 1 .. Len(s) - 1
  <2>1. DOMAIN h = 1 .. Len(h)
    BY LenProperties
  <2>2. Len(h) = IF s = <<>> THEN 0 ELSE Len(s) - 1
    BY <1>2, FrontParts
  <2> QED
    BY <1>1, <2>1, <2>2
<1>4. \A i \in 1 .. Len(s) - 1 : h[i] = s[i]
  BY <1>2, FrontParts
<1>5. Range(h) = {s[i] : i \in 1 .. Len(s) - 1}
  BY <1>3, <1>4 DEF Range
<1> QED
  BY <1>2, <1>5

\* The head of a name for anything is a name for a context.
LEMMA FrontIsContext ==
  ASSUME NEW type, NEW s \in Seq(Names), NameFor(type, s), Len(s) >= 2
  PROVE  NameFor("context", Front(s))
<1>1. PICK h \in Seq(Names) : h = Front(s)
  BY FrontParts
<1>2. /\ Len(s) \in Nat /\ Len(h) = Len(s) - 1 /\ Len(h) \in Nat /\ Len(h) >= 1
      /\ \A i \in 1 .. Len(h) : h[i] = s[i]
  <2>1. Len(s) \in Nat /\ s # <<>>
    BY LenProperties, EmptySeq
  <2>2. Len(h) = Len(s) - 1 /\ \A i \in 1 .. Len(s) - 1 : h[i] = s[i]
    BY <1>1, <2>1, FrontParts
  <2> QED
    BY <2>1, <2>2
<1>3. \A i \in 1 .. Len(s) - 1 : s[i] \in ContextNames
  BY FrontRange DEF NameFor
<1>4. \A i \in 1 .. Len(h) : h[i] \in ContextNames
  BY <1>2, <1>3
<1>5. Range(Front(h)) \subseteq ContextNames
  <2>1. \A i \in 1 .. Len(h) - 1 : h[i] \in ContextNames
    BY <1>2, <1>4
  <2> QED
    BY <2>1, FrontRange
<1>6. Last(h) \in ContextNames
  BY <1>2, <1>4 DEF Last
<1> QED
  BY <1>1, <1>5, <1>6 DEF NameFor

\* The names careful clients send.
LEMMA NamesSent ==
  ASSUME Careful
  PROVE  /\ \A path \in CtxPaths \cup CtxLinks : NameFor("context", path)
         /\ \A path \in EntPaths \cup EntLinks : NameFor("entity", path)
<1>1. ASSUME NEW path \in CtxPaths \cup CtxLinks PROVE NameFor("context", path)
  <2>1. path \in Seq(Names) /\ Len(path) \in Nat /\ DOMAIN path = 1 .. Len(path)
    BY PathsAreNames, LenProperties
  <2>2. \A i \in 1 .. Len(path) : path[i] \in ContextNames
    <3>1. Range(path) \subseteq ContextNames
      BY DEF ContextNames
    <3> QED
      BY <2>1, <3>1 DEF Range
  <2>3. Range(Front(path)) \subseteq ContextNames
    <3>1. \A i \in 1 .. Len(path) - 1 : path[i] \in ContextNames
      BY <2>1, <2>2
    <3> QED
      BY <2>1, <3>1, FrontRange
  <2>4. path # <<>> => Last(path) \in ContextNames
    BY <2>1, <2>2, EmptySeq DEF Last
  <2> QED
    BY <2>3, <2>4 DEF NameFor
<1>2. ASSUME NEW path \in EntPaths \cup EntLinks PROVE NameFor("entity", path)
  <2>1. path # <<>> /\ Last(path) \in EntityNames
    BY NamesApart DEF EntityNames
  <2>2. Range(Front(path)) \subseteq ContextNames
    BY DEF ContextNames
  <2> QED
    BY <2>1, <2>2 DEF NameFor
<1> QED
  BY <1>1, <1>2

\* What may be bound at the end of a name.
LEMMA LastFits ==
  ASSUME Careful, NEW type \in {"context", "entity"}, NEW path, path # <<>>, NameFor(type, path)
  PROVE  Fits(Last(path), type)
BY NamesApart DEF Fits, NameFor

\* A component that does not end a name is for contexts.
LEMMA InFront ==
  ASSUME NEW path \in Seq(Names), Range(Front(path)) \subseteq ContextNames,
         NEW k \in 1 .. Len(path), k < Len(path), Careful
  PROVE  path[k] \in ContextNames /\ Fits(path[k], "context")
<1>1. k \in 1 .. Len(path) - 1
  BY LenProperties
<1>2. path[k] \in ContextNames
  BY <1>1, FrontRange
<1> QED
  BY <1>2, NamesApart DEF Fits

(***************************************************************************)
(* A tidy heap.                                                            *)
(***************************************************************************)

\* The full name of an object that exists can be read: its parents lead to the root.
LEMMA ChainsLive ==
  ASSUME HeapInv, Rooted
  PROVE  \A o \in live : ChainLive[o]
<1>a. live \subseteq Ids /\ Root \in live /\ Null \notin Ids /\ Ids \subseteq Nat
  BY IdFacts DEF HeapInv, HeapTypeOK, Rooted
<1> DEFINE Sound(f) ==
      f = [o \in Ids |-> parent[o] = Null \/ (parent[o] \in live /\ f[parent[o]])]
<1>1. \E f : Sound(f)
  <2> DEFINE g == [o \in Ids |-> parent[o] = Null \/ parent[o] \in live]
  <2>1. \A o \in live : g[o]
    BY <1>a DEF Rooted
  <2>2. Sound(g)
    BY <1>a, <2>1
  <2> QED
    BY <2>2
<1>2. Sound(ChainLive)
  <2>1. ChainLive = CHOOSE f : Sound(f)
    BY DEF ChainLive
  <2> HIDE DEF Sound
  <2> QED
    BY <1>1, <2>1
<1>3. \A o \in Ids : ChainLive[o] = (parent[o] = Null \/ (parent[o] \in live /\ ChainLive[parent[o]]))
  BY <1>2
<1> HIDE DEF Sound
<1> DEFINE S == {o \in live : ~ChainLive[o]}
<1> SUFFICES ASSUME S # {} PROVE FALSE
  OBVIOUS
<1>4. PICK o \in S : \A p \in S : o <= p
  <2>1. S \subseteq Nat
    BY <1>a
  <2> QED
    BY <2>1, LeastOf
<1>5. o # Root /\ parent[o] \in live /\ parent[o] < o
  BY <1>a, <1>3, <1>4 DEF Rooted
<1>6. parent[o] \in S
  BY <1>a, <1>3, <1>4, <1>5
<1>7. o <= parent[o]
  BY <1>4, <1>6
<1>8. o \in Nat /\ parent[o] \in Nat
  BY <1>a, <1>4, <1>5
<1> QED
  BY <1>5, <1>7, <1>8

\* The creation event of an object that exists, or that is to be made in a context that
\* exists, can be sent.
LEMMA EventsSafe ==
  ASSUME HeapInv, Tidy
  PROVE  /\ \A type, p : p \in live => CreationEventSafe(type, p)
         /\ \A o \in live \ {Root} : CreationEventSafe(kind[o], parent[o])
BY ChainsLive DEF Tidy, Rooted, CreationEventSafe

\* An object that binds nothing can be deleted.
LEMMA DeletesSafe ==
  ASSUME HeapInv, Tidy, NEW o \in live, name_map[o] = NoBindings
  PROVE  CanDelete(o)
<1>a. HeapTypeOK /\ ReferrersExact /\ live \subseteq Ids /\ Null \notin Ids /\ Ids \subseteq Nat
  BY IdFacts DEF HeapInv, HeapTypeOK
<1>1. NamesOf(o, o) = {}
  BY <1>a DEF NamesOf, NoBindings
<1>2. parent[o] # o
  BY <1>a DEF Tidy, Rooted, HeapTypeOK
<1>3. referrers[o][o] = 0
  BY <1>a, <1>1, <1>2, FS_EmptySet DEF ReferrersExact
<1> QED
  BY <1>3 DEF CanDelete, Tidy, ReferrersLive

\* A new object in a context, under a name that is for its class.
LEMMA NewObjectTidy ==
  ASSUME HeapInv, Tidy, NEW type \in {"context", "entity"}, NEW p \in live, NEW n \in Names,
         NEW real \in BOOLEAN, kind[p] = "context", name_map[p][n] = Null, Fits(n, type),
         NewObject(type, p, n, real)
  PROVE  Tidy'
<1>a. HeapTypeOK /\ Fresh /\ live \subseteq Ids /\ NoDanglingBinding /\ Null \notin Ids
  BY IdFacts DEF HeapInv, HeapTypeOK
<1>1. PICK o \in Ids \ live : o = counter /\ live' = live \cup {o}
  BY NewObjectStep DEF NewObject, NewId
<1>2. /\ parent' = [parent EXCEPT ![o] = p] /\ kind' = [kind EXCEPT ![o] = type]
      /\ referrers' = [referrers EXCEPT ![o] = [NoReferrers EXCEPT ![p] = 2]]
      /\ name_map' = [name_map EXCEPT ![p][n] = o]
      /\ placeholder' \subseteq placeholder \cup {o}
  BY <1>1 DEF NewObject, NewId
<1>3. p \in Ids /\ p # o /\ p < o /\ Root # o
  BY <1>a, <1>1, IdFacts DEF Fresh, Tidy, Rooted
<1>4. Rooted'
  <2>1. \A i \in Ids : parent'[i] < i
    BY <1>a, <1>2, <1>3 DEF Tidy, Rooted, HeapTypeOK
  <2>2. Root \in live' \ placeholder' /\ parent'[Root] = Null
    BY <1>1, <1>2, <1>3, <1>a DEF Tidy, Rooted, HeapTypeOK
  <2>3. \A i \in live' \ {Root} : parent'[i] \in live' /\ kind'[parent'[i]] = "context"
    BY <1>1, <1>2, <1>3, <1>a DEF Tidy, Rooted, HeapTypeOK
  <2> QED
    BY <2>1, <2>2, <2>3 DEF Rooted
<1>5. ReferrersLive'
  <2> SUFFICES ASSUME NEW i \in live', NEW c \in Ids, referrers'[i][c] > 0 PROVE c \in live'
    BY DEF ReferrersLive
  <2>1. CASE i = o
    BY <1>a, <1>1, <1>2, <1>3, <2>1 DEF NoReferrers, HeapTypeOK
  <2>2. CASE i # o
    BY <1>a, <1>1, <1>2, <2>2 DEF Tidy, ReferrersLive, HeapTypeOK
  <2> QED
    BY <2>1, <2>2
<1>6. NamesTell'
  <2> SUFFICES ASSUME NEW c \in live', NEW m \in Names, name_map'[c][m] # Null
               PROVE  Fits(m, kind'[name_map'[c][m]])
    BY DEF NamesTell
  <2>1. CASE c = p /\ m = n
    BY <1>a, <1>1, <1>2, <1>3, <2>1 DEF HeapTypeOK
  <2>2. CASE ~(c = p /\ m = n)
    <3>1. name_map'[c][m] = name_map[c][m] /\ c \in Ids
      BY <1>a, <1>1, <1>2, <1>3, <2>2 DEF HeapTypeOK
    <3>2. c # o
      BY <1>a, <1>1, <3>1 DEF Fresh, NoBindings
    <3>3. name_map[c][m] \in live /\ c \in live
      BY <1>a, <1>1, <3>1, <3>2 DEF NoDanglingBinding
    <3>4. kind'[name_map[c][m]] = kind[name_map[c][m]]
      BY <1>a, <1>1, <1>2, <3>3 DEF HeapTypeOK
    <3> QED
      BY <3>1, <3>3, <3>4 DEF Tidy, NamesTell
  <2> QED
    BY <2>1, <2>2
<1> QED
  BY <1>4, <1>5, <1>6 DEF Tidy

\* A placeholder that becomes real, and a heap that stays as it is.
LEMMA MakeRealTidy ==
  ASSUME Tidy, NEW o, MakeReal(o) \/ UNCHANGED heap
  PROVE  Tidy'
<1>1. /\ UNCHANGED <<live, kind, parent, name_map, referrers>>
      /\ placeholder' \subseteq placeholder
  BY DEF MakeReal, heap
<1> QED
  BY <1>1 DEF Tidy, Rooted, ReferrersLive, NamesTell

\* A further name for an object, one that is for its class.
LEMMA BindTidy ==
  ASSUME HeapInv, Tidy, NEW c \in live, NEW o \in live, NEW n \in Names, Fits(n, kind[o]),
         Bind(c, n, o)
  PROVE  Tidy'
<1>a. HeapTypeOK /\ live \subseteq Ids
  BY DEF HeapInv, HeapTypeOK
<1>1. UNCHANGED <<live, kind, parent, placeholder>>
  BY DEF Bind
<1>2. CASE UNCHANGED <<name_map, referrers>>
  BY <1>1, <1>2 DEF Tidy, Rooted, ReferrersLive, NamesTell
<1>3. CASE /\ name_map' = [name_map EXCEPT ![c][n] = o]
           /\ referrers' = [referrers EXCEPT ![o][c] = @ + 1]
  <2>1. ReferrersLive'
    BY <1>a, <1>1, <1>3 DEF Tidy, ReferrersLive, HeapTypeOK
  <2>2. NamesTell'
    BY <1>a, <1>1, <1>3 DEF Tidy, NamesTell, HeapTypeOK
  <2> QED
    BY <1>1, <2>1, <2>2 DEF Tidy, Rooted
<1> QED
  BY <1>2, <1>3 DEF Bind

\* A name that is taken away.
LEMMA UnbindTidy ==
  ASSUME HeapInv, Tidy, NEW c \in live, NEW n \in Names, name_map[c][n] \in live, Unbind(c, n)
  PROVE  Tidy'
<1>a. HeapTypeOK /\ live \subseteq Ids
  BY DEF HeapInv, HeapTypeOK
<1>1. UNCHANGED <<live, kind, parent, placeholder>>
  BY DEF Unbind
<1>2. PICK o \in live : o = name_map[c][n]
  OBVIOUS
<1>3. /\ name_map' = [name_map EXCEPT ![c][n] = Null]
      /\ referrers' = [referrers EXCEPT ![o][c] = @ - 1]
  BY <1>2 DEF Unbind
<1>4. ReferrersLive'
  BY <1>a, <1>1, <1>3 DEF Tidy, ReferrersLive, HeapTypeOK
<1>5. NamesTell'
  BY <1>a, <1>1, <1>3 DEF Tidy, NamesTell, HeapTypeOK
<1> QED
  BY <1>1, <1>4, <1>5 DEF Tidy, Rooted

\* An object that goes when nothing was created or bound in it.
LEMMA DeleteTidy ==
  ASSUME HeapInv, Tidy, NEW o \in live \ {Root}, name_map[o] = NoBindings,
         \A i \in live : parent[i] # o,
         Delete({o}), referrers' = Forget(referrers, {o})
  PROVE  Tidy'
<1>a. HeapTypeOK /\ ReferrersExact /\ live \subseteq Ids /\ Null \notin Ids
  BY IdFacts DEF HeapInv, HeapTypeOK
<1>b. /\ live' = live \ {o} /\ placeholder' = placeholder \ {o}
      /\ UNCHANGED <<counter, kind, parent, entity_list, created>>
  BY DEF Delete
<1>1. Rooted'
  BY <1>b DEF Tidy, Rooted
<1>2. \A i \in live : referrers[i][o] = 0
  <2> SUFFICES ASSUME NEW i \in live PROVE referrers[i][o] = 0
    OBVIOUS
  <2>1. NamesOf(o, i) = {}
    BY <1>a DEF NamesOf, NoBindings
  <2> QED
    BY <1>a, <2>1, FS_EmptySet DEF ReferrersExact
<1>3. ReferrersLive'
  <2> SUFFICES ASSUME NEW i \in live', NEW c \in Ids, referrers'[i][c] > 0 PROVE c \in live'
    BY DEF ReferrersLive
  <2>1. i \in live /\ referrers'[i] = referrers[i]
    BY <1>a, <1>b DEF Forget
  <2> QED
    BY <1>b, <1>2, <2>1 DEF Tidy, ReferrersLive
<1>4. NamesTell'
  <2> SUFFICES ASSUME NEW c \in live', NEW n \in Names, name_map'[c][n] # Null
               PROVE  Fits(n, kind'[name_map'[c][n]])
    BY DEF NamesTell
  <2>1. PICK D \in SUBSET live : D = {o} /\ Delete(D)
    OBVIOUS
  <2>2. PICK i : i = name_map'[c][n]
    OBVIOUS
  <2>3. i \in live \ D /\ c \in live \ D
    BY <1>b, <2>1, <2>2, DeleteNames
  <2>4. NamesOf(c, i)' = NamesOf(c, i)
    BY <2>1, <2>3, DeleteNames
  <2>5. n \in NamesOf(c, i)'
    BY <2>2 DEF NamesOf
  <2>6. name_map[c][n] = i
    BY <2>4, <2>5 DEF NamesOf
  <2>7. i # Null
    BY <1>a, <2>3
  <2> QED
    BY <1>b, <2>2, <2>3, <2>6, <2>7 DEF Tidy, NamesTell
<1> QED
  BY <1>1, <1>3, <1>4 DEF Tidy

(***************************************************************************)
(* Requests of careful clients.                                            *)
(***************************************************************************)

\* What was sent stays good when objects are added.
LEMMA SentStays ==
  ASSUME NEW r, NEW q, NEW L, NEW K, NEW L2, NEW K2, Sent(r, L, K),
         L \subseteq L2, \A o \in L : K2[o] = K[o],
         q.op = r.op, q.to = r.to, q.link = r.link, q.src = r.src, q.goal = r.goal, q.type = r.type
  PROVE  Sent(q, L2, K2)
BY DEF Sent

\* The end of a request.
LEMMA EndSafe ==
  ASSUME Up, Tidy', UNCHANGED domain_up, NEW status, NEW id, Answer(status, id)
  PROVE  Up'
BY DEF Up, Safe, Answer, Idle

\* What entering the loop leaves of a request.
LEMMA WalkingKeeps ==
  ASSUME NEW r \in Request, NEW b \in Ptr, NEW path \in Seq(Names), NEW to \in Ptr,
         NEW q, q = Walking(r, b, path) \/ q = [Walking(r, b, path) EXCEPT !.base = to]
  PROVE  /\ q.op = r.op /\ q.to = r.to /\ q.link = r.link /\ q.src = r.src /\ q.goal = r.goal
         /\ q.type = r.type /\ q.pc = "walk" /\ q.name = path
         /\ q.ctx = (IF b = Null THEN Root ELSE b) /\ q.from = (IF b = Null THEN Root ELSE b)
<1>1. PICK w \in Request : w = Walking(r, b, path)
  BY WalkingType
<1>2. PICK c : c = IF b = Null THEN Root ELSE b
  OBVIOUS
<1>3. /\ w.op = r.op /\ w.to = r.to /\ w.link = r.link /\ w.src = r.src /\ w.goal = r.goal
      /\ w.type = r.type /\ w.pc = "walk" /\ w.name = path /\ w.ctx = c /\ w.from = c
  BY <1>1, <1>2 DEF Walking, Request
<1>4. q = w \/ q = [w EXCEPT !.base = to]
  BY <1>1
<1> QED
  BY <1>2, <1>3, <1>4 DEF Request

\* A walk begins in a context that exists, with a name for what is wanted.
LEMMA EntersSafe ==
  ASSUME NEW r \in Request, NEW b \in Ptr, NEW path \in Seq(Names), NEW to \in Ptr,
         NEW q, q = Walking(r, b, path) \/ q = [Walking(r, b, path) EXCEPT !.base = to],
         NEW L, NEW K, NEW M, NEW P, Sent(r, L, K), b \in L \cup {Null}, Root \in L,
         Range(Front(path)) \subseteq ContextNames,
         r.goal = "create" => NameFor(r.type, path),
         r.goal = "unbind" => path # <<>>,
         r.op = "bind_context" /\ r.src = Null =>
           b = Null /\ NameFor("context", path) /\ NamedIn(M, Root, path) \in L \ P
  PROVE  Safe(q, L, K, M, P)
<1>1. /\ q.op = r.op /\ q.to = r.to /\ q.link = r.link /\ q.src = r.src /\ q.goal = r.goal
      /\ q.type = r.type /\ q.pc = "walk" /\ q.name = path
      /\ q.ctx = (IF b = Null THEN Root ELSE b) /\ q.from = (IF b = Null THEN Root ELSE b)
  BY WalkingKeeps
<1>2. Sent(q, L, K)
  BY <1>1, SentStays
<1>3. q.ctx \in L /\ q.ctx # Null
  BY <1>1, IdFacts
<1>4. SafeWalk(q, L, M, P)
  BY <1>1, <1>3 DEF SafeWalk
<1> QED
  BY <1>1, <1>2, <1>4 DEF Safe

\* A request is received.
LEMMA ReceiveSafe ==
  ASSUME IInv, Up, Careful, NEW r \in Request, Sent(r, live, kind), NEW base \in KnownContexts,
         NEW path \in Seq(Names), Range(Front(path)) \subseteq ContextNames,
         r.goal = "create" => NameFor(r.type, path),
         r.goal = "unbind" => path # <<>>,
         r.op = "bind_context" =>
           base = Null /\ NameFor("context", path) /\ OkSource(path),
         Receive(r, base, path)
  PROVE  Up'
<1>a. live \subseteq Ids /\ Root \in live /\ Null \notin Ids /\ Root \in Ids
  BY IdFacts DEF IInv, HeapInv, HeapTypeOK, Up, Tidy, Rooted
<1>b. base \in Ptr /\ domain_up /\ fault = "none"
  BY IdFacts DEF KnownContexts, Up
<1>1. PICK b \in Ptr : b = Deref(base)
  BY <1>a, IdFacts DEF Deref
<1>2. b \in live \cup {Null} /\ (base = Null => b = Null)
  BY <1>a, <1>1 DEF Deref
<1>3. PICK q, L, K, M, P : /\ q = req' /\ L = live /\ K = kind /\ M = name_map
                           /\ P = placeholder
  OBVIOUS
<1>4. q = [Walking(r, b, path) EXCEPT !.base = base] /\ UNCHANGED <<heap, fault>>
  BY <1>b, <1>1, <1>3 DEF Receive
<1>5. OkSource(path) => NamedIn(M, Root, path) \in L \ P
  <2>1. Named(Root, path) = NamedIn(M, Root, path)
    BY <1>3, NamedIsIn
  <2> QED
    BY <1>3, <2>1 DEF OkSource
<1>6. Safe(q, L, K, M, P)
  BY <1>a, <1>b, <1>2, <1>3, <1>4, <1>5, EntersSafe
<1>7. /\ L = live' /\ K = kind' /\ M = name_map' /\ P = placeholder' /\ domain_up' = domain_up
      /\ fault' = fault
  BY <1>3, <1>4 DEF heap
<1>8. Tidy'
  BY <1>4, MakeRealTidy DEF Up
<1> QED
  BY <1>b, <1>3, <1>6, <1>7, <1>8 DEF Up

\* A bind goes on to its new name.
LEMMA ToLinkSafe ==
  ASSUME IInv, Up, Careful, NEW r \in Request, r.op \in Binds, r.to \in live \cup {Null},
         Len(r.link) >= 2, NameFor(Bindable(r.op), r.link),
         NEW src \in live, kind[src] = Bindable(r.op), ToLink(r, src)
  PROVE  Up'
<1>a. live \subseteq Ids /\ Root \in live /\ Null \notin Ids /\ Root \in Ids
  BY IdFacts DEF IInv, HeapInv, HeapTypeOK, Up, Tidy, Rooted
<1>b. r.link \in Seq(Names) /\ Len(r.link) \in Nat /\ ~(Len(r.link) < 2)
  BY LenProperties DEF Request
<1> DEFINE w == [r EXCEPT !.goal = "create", !.type = "context", !.src = src]
<1>1. PICK b : b = IF r.op = "bind_context" THEN Null ELSE Deref(r.to)
  OBVIOUS
<1>2. b \in Ptr /\ b \in live \cup {Null}
  BY <1>a, <1>1, IdFacts DEF Deref
<1>3. req' = Walking(w, b, Front(r.link)) /\ UNCHANGED <<heap, fault>>
  BY <1>b, <1>1 DEF ToLink
<1>4. /\ w \in Request /\ w.op = r.op /\ w.goal = "create" /\ w.type = "context" /\ w.src = src
      /\ w.to = r.to /\ w.link = r.link
  BY <1>a, IdFacts DEF Request, Goals
<1> HIDE DEF w
<1>5. Front(r.link) \in Seq(Names) /\ NameFor("context", Front(r.link))
  BY <1>b, FrontParts, FrontIsContext
<1>6. src # Null /\ w.src # Null
  BY <1>a, <1>4
<1>7. Sent(w, live, kind)
  BY <1>4, <1>6 DEF Sent, Binds
<1>8. PICK q, L, K, M, P, path : /\ q = req' /\ L = live /\ K = kind /\ M = name_map
                                 /\ P = placeholder /\ path = Front(r.link)
  OBVIOUS
<1>9. q = Walking(w, b, path) /\ path \in Seq(Names) /\ NameFor("context", path)
  BY <1>3, <1>5, <1>8
<1>10. Range(Front(path)) \subseteq ContextNames
  BY <1>9 DEF NameFor
<1>11. Safe(q, L, K, M, P)
  <2>1. Sent(w, L, K) /\ b \in L \cup {Null} /\ Root \in L
    BY <1>a, <1>2, <1>7, <1>8
  <2>2. /\ w.goal = "create" => NameFor(w.type, path)
        /\ w.goal # "unbind" /\ w.src # Null
    BY <1>4, <1>6, <1>9
  <2> QED
    BY <1>2, <1>4, <1>9, <1>10, <2>1, <2>2, EntersSafe
<1>12. /\ L = live' /\ K = kind' /\ M = name_map' /\ P = placeholder' /\ domain_up' = domain_up
       /\ fault' = fault
  BY <1>3, <1>8 DEF heap
<1>13. Tidy'
  BY <1>3, MakeRealTidy DEF Up
<1> QED
  BY <1>8, <1>11, <1>12, <1>13 DEF Up

\* What a request other than a bind is when it is sent.
Fresher(r, type, path) ==
  /\ r \in Request /\ Sent(r, live, kind) /\ r.op \notin Binds
  /\ r.goal = "create" => r.type = type
  /\ r.goal = "unbind" => path # <<>>

\* What arrives, other than a bind.
LEMMA ArrivalSafe ==
  ASSUME IInv, Up, Careful, NEW base \in KnownContexts, NEW path \in Seq(Names),
         NEW type \in {"context", "entity"}, NameFor(type, path),
         NEW goal \in {"create", "find"}, NEW op \in {"unbind", "remove_entity"},
         \/ type = "context" /\ CreateContext(base, path)
         \/ type = "entity" /\ CreateEntity(base, path)
         \/ GetStone(type, base, path)
         \/ type = "entity" /\ EntityData(goal, base, path)
         \/ Resolve(base, path)
         \/ UnbindName(op, base, path) \/ RemoveContextByName(base, path)
  PROVE  Up'
<1>1. \E r : Fresher(r, type, path) /\ Receive(r, base, path)
  <2> USE DEF Fresher, Sent, Binds
  <2>0. domain_up
    BY DEF Up
  <2>1. CASE type = "context" /\ CreateContext(base, path)
    <3> DEFINE r == [Idle EXCEPT !.op = "create_context", !.goal = "create"]
    <3>1. Fresher(r, type, path)
      BY <2>1, IdFacts, EmptySeq DEF Idle, Request, Ops, Goals
    <3> QED
      BY <2>1, <3>1 DEF CreateContext
  <2>2. CASE type = "entity" /\ CreateEntity(base, path)
    <3> DEFINE r == [Idle EXCEPT !.op = "create_entity", !.goal = "create", !.type = "entity"]
    <3>1. Fresher(r, type, path)
      BY <2>2, IdFacts, EmptySeq DEF Idle, Request, Ops, Goals
    <3> QED
      BY <2>2, <3>1 DEF CreateEntity
  <2>3. CASE GetStone(type, base, path)
    <3> DEFINE r == [Idle EXCEPT !.op = "get_stone", !.goal = "create", !.type = type,
                                 !.holders = TRUE]
    <3>1. Fresher(r, type, path)
      BY IdFacts, EmptySeq DEF Idle, Request, Ops, Goals
    <3> QED
      BY <2>0, <2>3, <3>1 DEF GetStone
  <2>4. CASE type = "entity" /\ EntityData(goal, base, path)
    <3> DEFINE r == [Idle EXCEPT !.op = "entity_data", !.goal = goal, !.type = "entity"]
    <3>1. Fresher(r, type, path)
      BY <2>4, IdFacts, EmptySeq DEF Idle, Request, Ops, Goals
    <3> QED
      BY <2>4, <3>1 DEF EntityData
  <2>5. CASE Resolve(base, path)
    <3> DEFINE r == [Idle EXCEPT !.op = "resolve"]
    <3>1. Fresher(r, type, path)
      BY IdFacts, EmptySeq DEF Idle, Request, Ops, Goals
    <3> QED
      BY <2>5, <3>1 DEF Resolve
  <2>6. CASE UnbindName(op, base, path)
    <3> DEFINE r == [Idle EXCEPT !.op = op, !.goal = "unbind"]
    <3>1. path # <<>>
      BY <2>6 DEF UnbindName
    <3>2. Fresher(r, type, path)
      BY <3>1, IdFacts, EmptySeq DEF Idle, Request, Ops, Goals
    <3> QED
      BY <2>6, <3>2 DEF UnbindName
  <2>7. CASE RemoveContextByName(base, path)
    BY <2>7 DEF RemoveContextByName
  <2> QED
    BY <2>1, <2>2, <2>3, <2>4, <2>5, <2>6, <2>7
<1>2. PICK r \in Request : Fresher(r, type, path) /\ Receive(r, base, path)
  BY <1>1 DEF Fresher
<1>3. /\ Sent(r, live, kind) /\ r.op # "bind_context"
      /\ r.goal = "create" => NameFor(r.type, path)
      /\ r.goal = "unbind" => path # <<>>
  BY <1>2 DEF Fresher, Binds
<1>4. Range(Front(path)) \subseteq ContextNames
  BY DEF NameFor
<1> QED
  BY <1>2, <1>3, <1>4, ReceiveSafe

\* A bind arrives, with an object of its class, or the name of one.
LEMMA BindArrivalSafe ==
  ASSUME IInv, Up, Careful, NEW op \in Binds, NEW base \in KnownContexts,
         NEW link \in Seq(Names), NameFor(Bindable(op), link),
         NEW path \in Seq(Names), NEW id \in Ids,
         \/ NameFor(Bindable(op), path) /\ BindByName(op, path, base, link)
         \/ kind[id] = Bindable(op) /\ BindById(op, id, base, link)
  PROVE  Up'
<1> DEFINE r == [Idle EXCEPT !.op = op, !.to = base, !.link = link]
<1>a. base \in Ptr /\ Null \in KnownContexts
  BY IdFacts DEF KnownContexts
<1>b. domain_up /\ Running("idle") /\ Len(link) >= 2 /\ OkBase(base)
  BY DEF BindByName, BindById, Receive
<1>1. /\ r \in Request /\ r.op = op /\ r.goal = "find" /\ r.src = Null /\ r.to = base
      /\ r.link = link
  BY <1>a, IdFacts, EmptySeq DEF Idle, Request, Ops, Goals, Binds
<1>2. Sent(r, live, kind) /\ r.to \in live \cup {Null}
  BY <1>b, <1>1 DEF Sent, OkBase, Binds
<1>3. \/ /\ Receive(r, Null, path) /\ (op = "bind_context" => OkSource(path))
         /\ NameFor(Bindable(op), path)
      \/ id \in live /\ kind[id] = Bindable(op) /\ ToLink(r, id)
  <2>1. CASE NameFor(Bindable(op), path) /\ BindByName(op, path, base, link)
    BY <2>1 DEF BindByName
  <2>2. CASE kind[id] = Bindable(op) /\ BindById(op, id, base, link)
    <3>1. id \in live /\ Deref(id) = id /\ id # Null
      BY <2>2, IdFacts DEF BindById, Deref
    <3> QED
      BY <1>b, <2>2, <3>1 DEF BindById
  <2> QED
    BY <2>1, <2>2
<1> HIDE DEF r
<1>4. CASE /\ Receive(r, Null, path) /\ (op = "bind_context" => OkSource(path))
           /\ NameFor(Bindable(op), path)
  <2>1. op = "bind_context" => NameFor("context", path)
    BY <1>4 DEF Bindable
  <2>2. Range(Front(path)) \subseteq ContextNames
    BY <1>4 DEF NameFor
  <2> QED
    BY <1>a, <1>1, <1>2, <1>4, <2>1, <2>2, ReceiveSafe
<1>5. CASE id \in live /\ kind[id] = Bindable(op) /\ ToLink(r, id)
  BY <1>b, <1>1, <1>2, <1>5, ToLinkSafe
<1> QED
  BY <1>3, <1>4, <1>5

\* A step of the loop keeps what was sent, and what the rest of the walk needs.
LEMMA StepSafe ==
  ASSUME NEW r \in Request, NEW c, NEW q, q = StepTo(r, c), r.pc = "walk",
         NEW L, NEW K, NEW M, NEW P, Sent(r, L, K), SafeWalk(r, L, M, P),
         NEW L2, NEW K2, NEW M2, NEW P2, L \subseteq L2, \A o \in L : K2[o] = K[o],
         c \in L2 \cup {Null}, r.goal = "create" => c # Null,
         (M2 = M /\ P2 \subseteq P) \/ r.goal = "create"
  PROVE  Safe(q, L2, K2, M2, P2)
<1>1. /\ q.op = r.op /\ q.to = r.to /\ q.link = r.link /\ q.src = r.src /\ q.goal = r.goal
      /\ q.type = r.type /\ q.pc = "walk" /\ q.name = r.name /\ q.ctx = c /\ q.from = r.from
  BY DEF StepTo, Request
<1>2. Sent(q, L2, K2)
  BY <1>1, SentStays
<1>3. r.op = "bind_context" /\ r.src = Null => r.goal = "find"
  BY DEF Sent, Binds
<1>4. SafeWalk(q, L2, M2, P2)
  BY <1>1, <1>3 DEF SafeWalk
<1> QED
  BY <1>1, <1>2, <1>4 DEF Safe

\* The loop: components on the way are bound to contexts, or to nothing.
LEMMA WalkStepSafe ==
  ASSUME IInv, Classes, Up, Careful, WalkStep
  PROVE  Up'
<1> DEFINE Step(c) == req' = StepTo(req, c)
<1>a. /\ HeapInv /\ HeapTypeOK /\ Fresh /\ NoDanglingBinding /\ req \in Request /\ req.pc = "walk"
      /\ Null \notin live /\ live \subseteq Ids
  BY IdFacts DEF IInv, RequestInv, RequestTypeOK, HeapInv, HeapTypeOK, WalkStep, Running
<1>b. /\ Sent(req, live, kind) /\ SafeWalk(req, live, name_map, placeholder) /\ Tidy
      /\ domain_up /\ fault = "none"
  BY <1>a DEF Up, Safe
<1>c. PICK path \in Seq(Names) : path = req.name
  BY <1>a DEF Request
<1>d. req.at \in Nat /\ Len(path) \in Nat /\ req.at + 1 < Len(path)
  BY <1>a, <1>c, LenProperties DEF Request, WalkStep
<1>e. PICK k \in 1 .. Len(path) : k = req.at + 1
  BY <1>d
<1>1. PICK p, n, o : p = req.ctx /\ n = path[k] /\ o = name_map[p][n]
  OBVIOUS
<1>2. p \in live /\ kind[p] = "context"
  BY <1>a, <1>b, <1>1 DEF SafeWalk, WalkStep, Classes, HoldsContexts
<1>3. n \in Names /\ Fits(n, "context") /\ n \in ContextNames
  BY <1>b, <1>c, <1>d, <1>e, <1>1, InFront, ElementOfSeq DEF SafeWalk
<1>4. o \in live \cup {Null}
  BY <1>a, <1>1, <1>2, <1>3 DEF NoDanglingBinding
<1>5. o \in live => kind[o] = "context"
  BY <1>a, <1>b, <1>1, <1>2, <1>3 DEF Tidy, NamesTell, Fits
<1>6. /\ UNCHANGED fault
      /\ \/ /\ o = Null /\ req.goal # "create"
            /\ Step(Null) /\ UNCHANGED heap
         \/ o \in live /\ Step(o) /\ (MakeReal(o) \/ UNCHANGED heap)
         \/ /\ o = Null /\ req.goal = "create"
            /\ \E real \in BOOLEAN : NewObject("context", p, n, real)
            /\ Step(NewId)
  <2>1. CreationEventSafe("context", p)
    BY <1>a, <1>b, <1>2, EventsSafe
  <2>2. o \in placeholder => CreationEventSafe("context", parent[o])
    BY <1>a, <1>b, <1>5, EventsSafe DEF HeapTypeOK, Tidy, Rooted
  <2>3. n = req.name[req.at + 1] /\ req.holders \in BOOLEAN
    BY <1>a, <1>c, <1>e, <1>1 DEF Request
  <2> QED
    BY <1>2, <1>4, <1>5, <1>a, <1>1, <2>1, <2>2, <2>3 DEF WalkStep, StepTo
<1> HIDE DEF Step
<1>7. PICK L, K, M, P : L = live /\ K = kind /\ M = name_map /\ P = placeholder
  OBVIOUS
<1>8. ASSUME NEW c, Step(c), NEW L2, NEW K2, NEW M2, NEW P2,
             L2 = live', K2 = kind', M2 = name_map', P2 = placeholder',
             live \subseteq live', \A i \in live : kind'[i] = kind[i],
             c \in live' \cup {Null}, req.goal = "create" => c # Null,
             (name_map' = name_map /\ placeholder' \subseteq placeholder) \/ req.goal = "create",
             UNCHANGED <<domain_up, fault>>, Tidy'
      PROVE  Up'
  <2>1. PICK q, r : q = req' /\ q = StepTo(r, c) /\ r = req
    BY <1>8 DEF Step
  <2>2. Safe(q, L2, K2, M2, P2)
    <3>1. /\ r \in Request /\ r.pc = "walk" /\ Sent(r, L, K) /\ SafeWalk(r, L, M, P)
          /\ r.goal = "create" => c # Null
      BY <1>a, <1>b, <1>7, <1>8, <2>1
    <3>2. /\ L \subseteq L2 /\ \A i \in L : K2[i] = K[i]
          /\ c \in L2 \cup {Null}
          /\ (M2 = M /\ P2 \subseteq P) \/ r.goal = "create"
      BY <1>7, <1>8, <2>1
    <3> QED
      BY <2>1, <3>1, <3>2, StepSafe
  <2> QED
    BY <1>b, <1>8, <2>1, <2>2 DEF Up
<1>9. CASE /\ o = Null /\ req.goal # "create"
           /\ Step(Null) /\ UNCHANGED heap
  <2>1. Tidy'
    BY <1>b, <1>9, MakeRealTidy
  <2> QED
    BY <1>6, <1>8, <1>9, <2>1 DEF heap
<1>10. CASE o \in live /\ Step(o) /\ (MakeReal(o) \/ UNCHANGED heap)
  <2>1. Tidy'
    BY <1>b, <1>10, MakeRealTidy
  <2>2. /\ UNCHANGED <<live, kind, name_map, domain_up>>
        /\ placeholder' \subseteq placeholder
    BY <1>10 DEF MakeReal, heap
  <2> QED
    BY <1>6, <1>8, <1>10, <1>a, <2>1, <2>2
<1>11. CASE /\ o = Null /\ req.goal = "create"
            /\ \E real \in BOOLEAN : NewObject("context", p, n, real)
            /\ Step(NewId)
  <2>1. Tidy'
    BY <1>a, <1>b, <1>1, <1>2, <1>3, <1>11, NewObjectTidy
  <2>2. PICK i \in Ids \ live : i = NewId /\ live' = live \cup {i}
    BY <1>a, <1>1, <1>2, <1>3, <1>11, NewObjectStep
  <2>3. kind' = [kind EXCEPT ![i] = "context"] /\ UNCHANGED domain_up
    BY <1>11, <2>2 DEF NewObject
  <2>4. live \subseteq live' /\ \A j \in live : kind'[j] = kind[j]
    BY <1>a, <2>2, <2>3 DEF HeapTypeOK
  <2>5. NewId \in live' /\ NewId # Null
    BY <2>2, IdFacts
  <2> QED
    BY <1>6, <1>8, <1>11, <2>1, <2>3, <2>4, <2>5
<1> QED
  BY <1>6, <1>9, <1>10, <1>11

\* The end of a walk: what it found or made is what was wanted.
LEMMA BackSafe ==
  ASSUME NEW r \in Request, NEW i, NEW q, q = Back(r, i), r.goal # "unbind",
         NEW L, NEW K, NEW M, NEW P, Sent(r, L, K),
         NEW L2, NEW K2, L \subseteq L2, \A o \in L : K2[o] = K[o],
         r.goal = "create" => i \in L2 /\ K2[i] = r.type,
         r.op = "bind_context" /\ r.src = Null => i \in L2 /\ K2[i] = "context"
  PROVE  Safe(q, L2, K2, M, P)
<1>1. /\ q.op = r.op /\ q.to = r.to /\ q.link = r.link /\ q.src = r.src /\ q.goal = r.goal
      /\ q.type = r.type /\ q.pc = "done" /\ q.val = i
  BY DEF Back, Request
<1>2. Sent(q, L2, K2)
  BY <1>1, SentStays
<1>3. SafeEnd(q, L2, K2)
  BY <1>1 DEF SafeEnd
<1> QED
  BY <1>1, <1>2, <1>3 DEF Safe

\* A walk that returns leaves a server that runs.
LEMMA ReturnSafe ==
  ASSUME Up, req \in Request, req.pc = "walk", req.goal # "unbind", NEW i, Return(i), Tidy',
         live \subseteq live', \A o \in live : kind'[o] = kind[o], UNCHANGED domain_up,
         req.goal = "create" => i \in live' /\ kind'[i] = req.type,
         req.op = "bind_context" /\ req.src = Null => i \in live' /\ kind'[i] = "context"
  PROVE  Up'
<1>1. PICK q, r, L, K, M, P, L2, K2 :
        /\ q = req' /\ r = req /\ L = live /\ K = kind /\ M = name_map' /\ P = placeholder'
        /\ L2 = live' /\ K2 = kind'
  OBVIOUS
<1>2. q = Back(r, i) /\ Sent(r, L, K)
  BY <1>1 DEF Return, Back, Up, Safe
<1>3. Safe(q, L2, K2, M, P)
  BY <1>1, <1>2, BackSafe
<1> QED
  BY <1>1, <1>3 DEF Up, Return

LEMMA LookupOrCreateSafe ==
  ASSUME IInv, Classes, Up, Careful, LookupOrCreate
  PROVE  Up'
<1>a. /\ HeapInv /\ HeapTypeOK /\ Fresh /\ NoDanglingBinding /\ req \in Request
      /\ req.pc = "walk" /\ req.goal = "create"
      /\ Null \notin live /\ live \subseteq Ids
  BY IdFacts DEF IInv, RequestInv, RequestTypeOK, HeapInv, HeapTypeOK, LookupOrCreate, Walked, Running
<1>b. /\ Sent(req, live, kind) /\ SafeWalk(req, live, name_map, placeholder) /\ Tidy
      /\ domain_up /\ fault = "none"
  BY <1>a DEF Up, Safe
<1>c. /\ req.ctx \in live /\ kind[req.ctx] = "context" /\ NameFor(req.type, req.name)
      /\ req.type \in {"context", "entity"} /\ req.holders \in BOOLEAN
      /\ ~(req.op = "bind_context" /\ req.src = Null)
  BY <1>a, <1>b DEF SafeWalk, Sent, Binds, Classes, HoldsContexts, Request
<1>1. PICK p, n, o : p = req.ctx /\ n = Last(req.name) /\ o = name_map[p][n]
  OBVIOUS
<1>2. ASSUME NEW i, Return(i), Tidy', live \subseteq live', \A j \in live : kind'[j] = kind[j],
             UNCHANGED domain_up, i \in live', kind'[i] = req.type
      PROVE  Up'
  BY <1>a, <1>c, <1>2, ReturnSafe
<1>3. CASE req.name = <<>>
  <2>1. Return(Root) /\ UNCHANGED heap
    BY <1>3 DEF LookupOrCreate
  <2>2. req.type = "context"
    BY <1>c, <1>3 DEF NameFor
  <2>3. Root \in live /\ kind[Root] = "context"
    BY <1>b DEF Tidy, Rooted, Classes
  <2>4. Tidy' /\ UNCHANGED <<live, kind, domain_up>>
    BY <1>b, <2>1, MakeRealTidy DEF heap
  <2> QED
    BY <1>2, <2>1, <2>2, <2>3, <2>4
<1>4. CASE req.name # <<>>
  <2>1. n \in Names /\ Fits(n, req.type)
    BY <1>a, <1>c, <1>1, <1>4, LastType, LastFits DEF Request
  <2>2. o \in live \cup {Null}
    BY <1>a, <1>c, <1>1, <2>1 DEF NoDanglingBinding
  <2>3. o \in live => kind[o] = req.type
    <3> SUFFICES ASSUME o \in live PROVE kind[o] = req.type
      OBVIOUS
    <3>1. Fits(n, kind[o])
      BY <1>a, <1>b, <1>c, <1>1, <2>1 DEF Tidy, NamesTell
    <3>2. IF req.type = "entity" THEN n \in EntityNames ELSE n \in ContextNames
      BY <1>c, <1>1, <1>4 DEF NameFor
    <3> QED
      BY <1>c, <3>1, <3>2 DEF Fits
  <2>4. \/ o = Null /\ NewObject(req.type, p, n, ~req.holders) /\ Return(NewId)
        \/ o \in live /\ (MakeReal(o) \/ UNCHANGED heap) /\ Return(o)
    <3>1. \A type : CreationEventSafe(type, p)
      BY <1>a, <1>b, <1>c, <1>1, EventsSafe
    <3>2. o \in placeholder => CreationEventSafe(kind[o], parent[o])
      BY <1>a, <1>b, EventsSafe DEF HeapTypeOK, Tidy, Rooted
    <3> QED
      BY <1>a, <1>c, <1>1, <1>4, <2>2, <3>1, <3>2 DEF LookupOrCreate
  <2>5. CASE o = Null /\ NewObject(req.type, p, n, ~req.holders) /\ Return(NewId)
    <3>1. p \in live /\ kind[p] = "context" /\ name_map[p][n] = Null /\ (~req.holders) \in BOOLEAN
      BY <1>c, <1>1, <2>5
    <3>2. Tidy'
      BY <1>a, <1>b, <1>c, <2>1, <2>5, <3>1, NewObjectTidy
    <3>3. PICK i \in Ids \ live : i = NewId /\ live' = live \cup {i}
      BY <1>a, <1>c, <2>1, <2>5, <3>1, NewObjectStep
    <3>4. kind' = [kind EXCEPT ![i] = req.type] /\ UNCHANGED domain_up
      BY <2>5, <3>3 DEF NewObject
    <3>5. /\ live \subseteq live' /\ \A j \in live : kind'[j] = kind[j]
          /\ i \in live' /\ kind'[i] = req.type
      BY <1>a, <3>3, <3>4 DEF HeapTypeOK
    <3> QED
      BY <1>2, <2>5, <3>2, <3>3, <3>4, <3>5
  <2>6. CASE o \in live /\ (MakeReal(o) \/ UNCHANGED heap) /\ Return(o)
    <3>1. Tidy' /\ UNCHANGED <<live, kind, domain_up>>
      BY <1>b, <2>6, MakeRealTidy DEF heap, MakeReal
    <3> QED
      BY <1>2, <2>3, <2>6, <3>1
  <2> QED
    BY <2>4, <2>5, <2>6
<1> QED
  BY <1>3, <1>4

LEMMA LookupSafe ==
  ASSUME IInv, Classes, WalkInv, Up, Careful, Lookup
  PROVE  Up'
<1>a. /\ HeapInv /\ HeapTypeOK /\ NoDanglingBinding /\ req \in Request /\ req.pc = "walk"
      /\ req.goal = "find" /\ Null \notin live /\ live \subseteq Ids
      /\ (req.at + 1 >= Len(req.name) \/ req.ctx = Null)
  BY IdFacts DEF IInv, RequestInv, RequestTypeOK, HeapInv, HeapTypeOK, Lookup, Walked, Running
<1>b. /\ Sent(req, live, kind) /\ SafeWalk(req, live, name_map, placeholder) /\ Tidy
      /\ domain_up /\ fault = "none" /\ OnTheWay(req, name_map)
  BY <1>a DEF Up, Safe, WalkInv, Walks
<1>1. PICK p, n, o : p = req.ctx /\ n = Last(req.name) /\ o = name_map[p][n]
  OBVIOUS
<1>2. p \in live \cup {Null} /\ (p # Null => kind[p] = "context")
  BY <1>a, <1>b, <1>1 DEF SafeWalk, Classes, HoldsContexts
<1>3. p # Null /\ req.name # <<>> => n \in Names /\ o \in live \cup {Null}
  BY <1>a, <1>1, <1>2, LastType DEF Request, NoDanglingBinding
<1>4. PICK i : /\ Return(i) /\ UNCHANGED heap
               /\ p # Null /\ req.name = <<>> => i = p
               /\ p # Null /\ req.name # <<>> => i = IF o \in placeholder THEN Null ELSE o
  BY <1>1, <1>2, <1>3 DEF Lookup
<1>5. ASSUME req.op = "bind_context", req.src = Null
      PROVE  i \in live /\ kind[i] = "context"
  <2>1. /\ NameFor("context", req.name)
        /\ NamedIn(name_map, req.from, req.name) \in live \ placeholder
    BY <1>b, <1>5 DEF SafeWalk
  <2>2. p # Null
    BY <1>a, <1>b, <1>1, <2>1 DEF OnTheWay
  <2>3. CASE req.name = <<>>
    BY <1>2, <1>4, <2>2, <2>3
  <2>4. CASE req.name # <<>>
    <3>1. PICK M, r : M = name_map /\ r = req
      OBVIOUS
    <3>2. NamedIn(M, r.from, r.name) = Bound(M, r.ctx, Last(r.name))
      BY <1>a, <1>b, <2>4, <3>1, AtLast
    <3>3. o \in live \ placeholder
      BY <1>1, <2>1, <2>2, <3>1, <3>2 DEF Bound
    <3>4. n \in ContextNames
      BY <1>1, <2>1, <2>4 DEF NameFor
    <3>5. kind[o] = "context"
      BY <1>a, <1>b, <1>1, <1>2, <1>3, <2>2, <2>4, <3>3, <3>4 DEF Tidy, NamesTell, Fits
    <3> QED
      BY <1>4, <2>2, <2>4, <3>3, <3>5
  <2> QED
    BY <2>3, <2>4
<1>6. Tidy' /\ UNCHANGED <<live, kind, domain_up>>
  BY <1>b, <1>4, MakeRealTidy DEF heap
<1> QED
  BY <1>a, <1>4, <1>5, <1>6, ReturnSafe

\* Unbinding finds the context among the referrers.
LEMMA RemoveBindingSafe ==
  ASSUME IInv, Classes, Up, Careful, RemoveBinding
  PROVE  Up'
<1>a. /\ HeapInv /\ HeapTypeOK /\ ReferrersExact /\ NoDanglingBinding /\ req \in Request
      /\ req.pc = "walk" /\ req.goal = "unbind" /\ Null \notin live /\ live \subseteq Ids
  BY IdFacts DEF IInv, RequestInv, RequestTypeOK, HeapInv, HeapTypeOK, RemoveBinding, Walked, Running
<1>b. /\ SafeWalk(req, live, name_map, placeholder) /\ Tidy
  BY <1>a DEF Up, Safe
<1>1. PICK p, n, o : p = req.ctx /\ n = Last(req.name) /\ o = name_map[p][n]
  OBVIOUS
<1>2. p \in live \cup {Null} /\ req.name # <<>> /\ n \in Names
  BY <1>a, <1>b, <1>1, LastType DEF SafeWalk, Request
<1>3. p \in live => o \in live \cup {Null}
  BY <1>a, <1>1, <1>2 DEF NoDanglingBinding
<1>4. p \in live /\ o \in live => referrers[o][p] # 0
  <2> SUFFICES ASSUME p \in live, o \in live PROVE referrers[o][p] # 0
    OBVIOUS
  <2>1. Cardinality(NamesOf(p, o)) \in Nat
    BY NamesOfFinite
  <2>2. referrers[o][p] >= Cardinality(NamesOf(p, o)) /\ Cardinality(NamesOf(p, o)) >= 1
    BY <1>a, <1>1, <1>2, UnbindListedOnce
  <2> QED
    BY <1>a, <2>1, <2>2 DEF HeapTypeOK
<1>5. \/ \E status, id : Answer(status, id) /\ UNCHANGED heap
      \/ p \in live /\ o \in live /\ Unbind(p, n) /\ \E status, id : Answer(status, id)
  BY <1>1, <1>2, <1>3, <1>4 DEF RemoveBinding
<1>6. CASE \E status, id : Answer(status, id) /\ UNCHANGED heap
  <2>1. Tidy' /\ UNCHANGED domain_up
    BY <1>b, <1>6, MakeRealTidy DEF heap
  <2> QED
    BY <1>6, <2>1, EndSafe
<1>7. CASE p \in live /\ o \in live /\ Unbind(p, n) /\ \E status, id : Answer(status, id)
  <2>1. Tidy'
    BY <1>a, <1>b, <1>1, <1>2, <1>7, UnbindTidy
  <2>2. UNCHANGED domain_up
    BY <1>7 DEF Unbind
  <2> QED
    BY <1>7, <2>1, <2>2, EndSafe
<1> QED
  BY <1>5, <1>6, <1>7

\* The tails that only answer find the object they need.
LEMMA TailSafe ==
  ASSUME IInv, WalkInv, Up,
         FinishCreate \/ FinishGetStone \/ FinishEntityData \/ FinishResolve
  PROVE  Up'
<1>a. /\ req \in Request /\ req.pc = "done" /\ Null \notin live
      /\ req.goal = "find" => req.val \in live \cup {Null}
  BY IdFacts DEF IInv, RequestInv, RequestTypeOK, InFlight, HeapInv, HeapTypeOK, FinishCreate,
     FinishGetStone, FinishEntityData, FinishResolve, Ending, Running
<1>b. Sent(req, live, kind) /\ SafeEnd(req, live, kind) /\ Tidy /\ GoalOf(req)
  BY <1>a DEF Up, Safe, WalkInv, Walks
<1>1. \E status, id : Answer(status, id) /\ UNCHANGED heap
  <2>1. CASE FinishCreate
    <3>1. req.goal = "create"
      BY <1>b, <2>1 DEF FinishCreate, GoalOf, Creates
    <3>2. req.val \in live /\ kind[req.val] = req.type /\ req.val # Null
      BY <1>a, <1>b, <3>1 DEF SafeEnd
    <3> QED
      BY <2>1, <3>2, <1>a DEF FinishCreate, As
  <2>2. CASE FinishGetStone
    <3>1. req.goal = "create"
      BY <1>b, <2>2 DEF FinishGetStone, Ending, Sent
    <3>2. req.val \in live
      BY <1>b, <3>1 DEF SafeEnd
    <3> QED
      BY <2>2, <3>2 DEF FinishGetStone
  <2>3. CASE FinishEntityData
    <3>1. req.val \in live \cup {Null}
      BY <1>a, <1>b DEF SafeEnd, Request, Goals
    <3> QED
      BY <2>3, <3>1 DEF FinishEntityData
  <2>4. CASE FinishResolve
    BY <2>4 DEF FinishResolve
  <2> QED
    BY <2>1, <2>2, <2>3, <2>4
<1>2. Tidy' /\ UNCHANGED domain_up
  BY <1>b, <1>1, MakeRealTidy DEF heap
<1> QED
  BY <1>1, <1>2, EndSafe

\* The source of a bind is of its class, or there is none and the bind of an entity fails.
LEMMA FoundSourceSafe ==
  ASSUME IInv, Up, Careful, FoundSource
  PROVE  Up'
<1>a. /\ req \in Request /\ req.pc = "done" /\ req.op \in Binds /\ req.src = Null
      /\ Null \notin live
  BY IdFacts DEF IInv, RequestInv, RequestTypeOK, HeapInv, HeapTypeOK, FoundSource, Running, Binds
<1>b. Sent(req, live, kind) /\ SafeEnd(req, live, kind) /\ Tidy
  BY <1>a DEF Up, Safe
<1>1. /\ Len(req.link) >= 2 /\ NameFor(Bindable(req.op), req.link) /\ req.goal = "find"
      /\ req.to \in live \cup {Null}
  BY <1>a, <1>b DEF Sent
<1>2. req.val \in live \cup {Null}
  BY <1>a, <1>1 DEF IInv, RequestInv, InFlight
<1>3. PICK s : s = As(IF req.op = "bind_context" THEN "context" ELSE "entity", req.val)
  OBVIOUS
<1>4. /\ s # Null => s \in live /\ kind[s] = Bindable(req.op)
      /\ req.op = "bind_context" => s # Null
  BY <1>a, <1>b, <1>2, <1>3 DEF As, Bindable, SafeEnd
<1>5. \/ s \in live /\ kind[s] = Bindable(req.op) /\ ToLink(req, s)
      \/ Answer(-1, Null) /\ UNCHANGED heap
  BY <1>3, <1>4 DEF FoundSource
<1>6. CASE s \in live /\ kind[s] = Bindable(req.op) /\ ToLink(req, s)
  <2>1. PICK r \in Request : r = req
    BY <1>a
  <2>2. ToLink(r, s) /\ r.op \in Binds
    BY <1>a, <1>6, <2>1
  <2> QED
    BY <1>1, <1>6, <2>1, <2>2, ToLinkSafe
<1>7. CASE Answer(-1, Null) /\ UNCHANGED heap
  <2>1. Tidy' /\ UNCHANGED domain_up
    BY <1>b, <1>7, MakeRealTidy DEF heap
  <2> QED
    BY <1>7, <2>1, EndSafe
<1> QED
  BY <1>5, <1>6, <1>7

\* The head of the new name is a context that exists; the last component fits the source.
LEMMA FinishBindSafe ==
  ASSUME IInv, Up, Careful, FinishBind
  PROVE  Up'
<1>a. /\ HeapInv /\ req \in Request /\ req.pc = "done" /\ req.op \in Binds /\ req.src # Null
      /\ Null \notin live
  BY IdFacts DEF IInv, RequestInv, RequestTypeOK, HeapInv, HeapTypeOK, FinishBind, Running, Binds
<1>b. Sent(req, live, kind) /\ SafeEnd(req, live, kind) /\ Tidy
  BY <1>a DEF Up, Safe
<1>1. /\ Len(req.link) >= 2 /\ NameFor(Bindable(req.op), req.link)
      /\ req.goal = "create" /\ req.type = "context" /\ req.src \in live
      /\ kind[req.src] = Bindable(req.op)
  BY <1>a, <1>b DEF Sent
<1>2. req.val \in live /\ kind[req.val] = "context" /\ req.val # Null
  BY <1>a, <1>b, <1>1 DEF SafeEnd
<1>3. PICK link \in Seq(Names) : link = req.link /\ link # <<>>
  <2>1. req.link \in Seq(Names) /\ req.link # <<>>
    BY <1>a, <1>1, EmptySeq DEF Request
  <2> QED
    BY <2>1
<1>d. PICK n : n = Last(link)
  OBVIOUS
<1>4. n \in Names /\ Fits(n, kind[req.src])
  <2>1. Bindable(req.op) \in {"context", "entity"}
    BY DEF Bindable
  <2> QED
    BY <1>1, <1>3, <1>d, <2>1, LastType, LastFits
<1>5. Bind(req.val, n, req.src) /\ Answer(1, Null)
  BY <1>2, <1>3, <1>d DEF FinishBind, As
<1>6. Tidy' /\ UNCHANGED domain_up
  <2>1. Tidy'
    BY <1>a, <1>b, <1>1, <1>2, <1>4, <1>5, BindTidy
  <2> QED
    BY <1>5, <2>1 DEF Bind
<1> QED
  BY <1>5, <1>6, EndSafe

\* Removing a context in which nothing is bound and in which nothing was created.
LEMMA RemoveContextSafe ==
  ASSUME IInv, Up, Careful, NEW c \in KnownContexts, RemoveContextById(c)
  PROVE  Up'
<1>a. HeapInv /\ Null \notin live
  BY IdFacts DEF IInv, HeapInv, HeapTypeOK
<1>b. Tidy /\ domain_up /\ OkRemoveContext(c) /\ c \in live \ {Root} /\ c # Null
  BY <1>a DEF Up, RemoveContextById, OkRemoveContext
<1>1. ChainLive[c] /\ CanDelete(c)
  BY <1>a, <1>b, ChainsLive, DeletesSafe DEF Tidy, OkRemoveContext
<1>2. /\ Delete({c}) /\ referrers' = Forget(referrers, {c}) /\ Answer(1, Null)
      /\ UNCHANGED domain_up
  BY <1>b, <1>1 DEF RemoveContextById, DeleteContext, Deref
<1>3. Tidy'
  BY <1>a, <1>b, <1>2, DeleteTidy DEF OkRemoveContext
<1> QED
  BY <1>2, <1>3, EndSafe

\* Nothing is bound or created in an entity.
LEMMA RemoveEntitySafe ==
  ASSUME IInv, Classes, WalkInv, Up, Careful, NEW e \in KnownEntities, RemoveEntityById(e)
  PROVE  Up'
<1>a. HeapInv /\ Null \notin live
  BY IdFacts DEF IInv, HeapInv, HeapTypeOK
<1>b. Tidy /\ domain_up /\ e \in live /\ e # Null /\ e \in Ids /\ kind[e] = "entity"
  BY <1>a DEF Up, RemoveEntityById, KnownEntities
<1>1. name_map[e] = NoBindings /\ e # Root
  BY <1>b DEF WalkInv, OnlyContextsBind, Classes
<1>2. CanDelete(e)
  BY <1>a, <1>b, <1>1, DeletesSafe
<1>3. /\ Delete({e}) /\ referrers' = Forget(referrers, {e}) /\ Answer(1, Null)
      /\ UNCHANGED domain_up
  BY <1>b, <1>2 DEF RemoveEntityById, Deref
<1>4. \A i \in live : parent[i] # e
  BY <1>b DEF Tidy, Rooted
<1>5. Tidy'
  BY <1>a, <1>b, <1>1, <1>3, <1>4, DeleteTidy
<1> QED
  BY <1>3, <1>5, EndSafe

\* The domain goes without a fault.
LEMMA RemoveDomainSafe ==
  ASSUME IInv, Classes, WalkInv, Up, Careful, RemoveDomain
  PROVE  Down'
<1> DEFINE Bound1 == {o \in Ids : NamesOf(Root, o) # {}} \ entity_list
           Held(o) == [c \in Ids |-> IF c = Root
                                     THEN referrers[o][c] - Cardinality(NamesOf(c, o))
                                     ELSE referrers[o][c]]
<1>a. /\ HeapInv /\ HeapTypeOK /\ ReferrersExact /\ NoDanglingBinding /\ Null \notin Ids
      /\ live \subseteq Ids /\ Root \in Ids
  BY IdFacts DEF IInv, HeapInv, HeapTypeOK
<1>b. /\ Tidy /\ domain_up /\ Root \in live /\ parent[Root] = Null /\ entity_list \subseteq live
      /\ fault = "none"
  BY DEF Up, Tidy, Rooted, RemoveDomain, OkRemoveDomain
<1>1. Bound1 \subseteq live
  BY <1>a, <1>b DEF NoDanglingBinding, NamesOf
<1>2. \A o \in Bound1 : ~(referrers[o][Root] < Cardinality(NamesOf(Root, o)))
  <2> SUFFICES ASSUME NEW o \in Bound1
               PROVE  ~(referrers[o][Root] < Cardinality(NamesOf(Root, o)))
    OBVIOUS
  <2>1. Cardinality(NamesOf(Root, o)) \in Nat
    BY NamesOfFinite
  <2> QED
    BY <1>a, <1>b, <1>1, <2>1 DEF ReferrersExact
<1>3. \A e \in entity_list : CanDelete(e)
  <2> SUFFICES ASSUME NEW e \in entity_list PROVE CanDelete(e)
    OBVIOUS
  <2>1. e \in live /\ name_map[e] = NoBindings
    BY <1>a, <1>b DEF Classes, EntitiesListed, WalkInv, OnlyContextsBind
  <2> QED
    BY <1>a, <1>b, <2>1, DeletesSafe
<1>4. \A c \in Ids : Held(Root)[c] > 0 => c \in live \ {Root}
  <2> SUFFICES ASSUME NEW c \in Ids, Held(Root)[c] > 0 PROVE c \in live \ {Root}
    OBVIOUS
  <2>1. Cardinality(NamesOf(Root, Root)) \in Nat
    BY NamesOfFinite
  <2>2. referrers[Root][Root] = Cardinality(NamesOf(Root, Root)) + 0
    BY <1>a, <1>b DEF ReferrersExact
  <2>3. CASE c = Root
    BY <2>1, <2>2, <2>3
  <2>4. CASE c # Root
    BY <1>b, <2>4 DEF Tidy, ReferrersLive
  <2> QED
    BY <2>3, <2>4
<1>5. domain_up' = FALSE /\ Answer(1, Null)
  BY <1>b, <1>1, <1>2, <1>3, <1>4 DEF RemoveDomain
<1> QED
  BY <1>b, <1>5 DEF Down, Answer, Idle

(***************************************************************************)
(* The theorem.                                                            *)
(***************************************************************************)

\* While a domain is there, a careful client's step leaves it so, or removes it.
LEMMA UpNext ==
  ASSUME IInv, Classes, WalkInv, Up, Careful, [Next]_vars
  PROVE  Up' \/ Down'
<1>a. /\ KnownEntities \subseteq Ids /\ Null \in KnownContexts
      /\ KnownContexts \ {Null} \subseteq Ids
      /\ \A e \in KnownEntities : kind[e] = "entity"
      /\ \A c \in KnownContexts \ {Null} : kind[c] = "context"
  BY IdFacts DEF KnownContexts, KnownEntities
<1>b. /\ \A path \in CtxPaths : NameFor("context", path) /\ path \in Seq(Names)
      /\ \A path \in EntPaths : NameFor("entity", path) /\ path \in Seq(Names)
      /\ \A link \in CtxLinks : NameFor("context", link) /\ link \in Seq(Names)
      /\ \A link \in EntLinks : NameFor("entity", link) /\ link \in Seq(Names)
  BY NamesSent, PathsAreNames
<1>c. /\ Bindable("bind_context") = "context" /\ Bindable("bind_entity") = "entity"
      /\ "bind_context" \in Binds /\ "bind_entity" \in Binds
  BY DEF Bindable, Binds
<1>1. ASSUME NEW base \in KnownContexts,
             \/ \E path \in CtxPaths : CreateContext(base, path)
             \/ \E path \in EntPaths : CreateEntity(base, path)
             \/ \E path \in CtxPaths : GetStone("context", base, path)
             \/ \E path \in EntPaths : GetStone("entity", base, path)
             \/ \E path \in EntPaths, goal \in {"create", "find"} : EntityData(goal, base, path)
             \/ \E path \in CtxPaths \cup EntPaths : Resolve(base, path)
             \/ \E path \in CtxPaths \cup EntPaths : UnbindName("unbind", base, path)
             \/ \E path \in EntPaths : UnbindName("remove_entity", base, path)
             \/ \E path \in CtxPaths : RemoveContextByName(base, path)
      PROVE  Up'
  <2>1. CASE \E path \in CtxPaths : \/ CreateContext(base, path)
                                    \/ GetStone("context", base, path)
                                    \/ Resolve(base, path) \/ UnbindName("unbind", base, path)
                                    \/ RemoveContextByName(base, path)
    BY <1>b, <2>1, ArrivalSafe
  <2>2. CASE \E path \in EntPaths : \/ CreateEntity(base, path)
                                    \/ GetStone("entity", base, path)
                                    \/ \E goal \in {"create", "find"} : EntityData(goal, base, path)
                                    \/ Resolve(base, path) \/ UnbindName("unbind", base, path)
                                    \/ UnbindName("remove_entity", base, path)
    BY <1>b, <2>2, ArrivalSafe
  <2> QED
    BY <1>1, <2>1, <2>2
<1>2. ASSUME NEW base \in KnownContexts, NEW path \in EntPaths, NEW link \in EntLinks,
             BindByName("bind_entity", path, base, link)
      PROVE  Up'
  BY <1>b, <1>c, <1>2, BindArrivalSafe, IdFacts
<1>3. ASSUME NEW base \in KnownContexts, NEW id \in KnownEntities, NEW link \in EntLinks,
             BindById("bind_entity", id, base, link)
      PROVE  Up'
  BY <1>a, <1>b, <1>c, <1>3, BindArrivalSafe, EmptySeq
<1>4. ASSUME NEW path \in CtxPaths, NEW link \in CtxLinks,
             BindByName("bind_context", path, Null, link)
      PROVE  Up'
  BY <1>a, <1>b, <1>c, <1>4, BindArrivalSafe, IdFacts
<1>5. ASSUME NEW id \in KnownContexts \ {Null}, NEW link \in CtxLinks,
             BindById("bind_context", id, Null, link)
      PROVE  Up'
  BY <1>a, <1>b, <1>c, <1>5, BindArrivalSafe, EmptySeq
<1>6. CASE \/ \E c \in KnownContexts : RemoveContextById(c)
           \/ \E e \in KnownEntities : RemoveEntityById(e)
           \/ RemoveDomain
  BY <1>6, RemoveContextSafe, RemoveEntitySafe, RemoveDomainSafe
<1>7. CASE Service
  <2>1. ~FinishRemoveContext
    BY DEF FinishRemoveContext, Ending, Running, Up, Safe, Sent
  <2> QED
    BY <1>7, <2>1, WalkStepSafe, LookupOrCreateSafe, LookupSafe, RemoveBindingSafe, TailSafe,
       FoundSourceSafe, FinishBindSafe DEF Service
<1>8. CASE UNCHANGED vars
  <2>1. Tidy' /\ UNCHANGED <<domain_up, fault, req, live, kind, name_map, placeholder>>
    BY <1>8, MakeRealTidy DEF vars, heap, Up
  <2> QED
    BY <2>1 DEF Up
<1> QED
  BY <1>1, <1>2, <1>3, <1>4, <1>5, <1>6, <1>7, <1>8 DEF Next, Arrival

\* Once the domain is gone a careful client can only register for events, and is refused.
LEMMA DownNext ==
  ASSUME Down, Careful, [Next]_vars
  PROVE  Down'
<1>1. CASE UNCHANGED vars
  BY <1>1 DEF Down, vars, heap
<1>2. CASE Service
  BY <1>2 DEF Down, Service, WalkStep, LookupOrCreate, Lookup, RemoveBinding, Walked, FinishCreate,
     FinishGetStone, FinishEntityData, FinishResolve, FoundSource, FinishBind,
     FinishRemoveContext, Ending, Running
<1>3. \A r, base, path : ~Receive(r, base, path)
  BY DEF Down, Receive
<1>4. \A op, path, base, link : ~BindByName(op, path, base, link) /\ ~BindById(op, path, base, link)
  BY <1>3 DEF Down, BindByName, BindById
<1>5. ASSUME NEW type, NEW base, NEW path, GetStone(type, base, path)
      PROVE  Down'
  <2>1. Answer(-1, Null) /\ UNCHANGED heap
    BY <1>3, <1>5 DEF GetStone
  <2> QED
    BY <2>1 DEF Down, Answer, heap, Idle
<1>6. CASE Arrival
  <2>1. \E type, base, path : GetStone(type, base, path)
    BY <1>3, <1>4, <1>6 DEF Arrival, Down, CreateContext, CreateEntity, EntityData, Resolve,
       UnbindName, RemoveContextByName, RemoveContextById, RemoveEntityById, RemoveDomain
  <2> QED
    BY <1>5, <2>1
<1> QED
  BY <1>1, <1>2, <1>6 DEF Next

LEMMA InitUp == Init => Up
<1> SUFFICES ASSUME Init PROVE Up
  OBVIOUS
<1>1. Root \in Ids /\ Null \notin Ids /\ Ids \subseteq Nat /\ Null = 0 /\ \A i \in Ids : i >= 1
  BY IdFacts DEF Null
<1>2. Rooted
  BY <1>1 DEF Init, Rooted
<1>3. ReferrersLive
  BY <1>1 DEF Init, ReferrersLive, NoReferrers
<1>4. NamesTell
  BY <1>1 DEF Init, NamesTell, NoBindings
<1> QED
  BY <1>2, <1>3, <1>4 DEF Init, Up, Tidy, Safe, Idle

\* A request of a careful client never stops the server, whatever others ask for and however
\* long it runs: every object it follows exists, and is of the class it needs.
THEOREM CarefulClients == Spec => []CarefulIsSafe
<1>1. Init => CarefulInv
  BY InitUp DEF CarefulInv
<1>2. IInv /\ Classes /\ WalkInv /\ CarefulInv /\ [Next]_vars => CarefulInv'
  BY UpNext, DownNext DEF CarefulInv
<1>3. CarefulInv => CarefulIsSafe
  BY DEF CarefulInv, CarefulIsSafe, Up, Down
<1> QED
  BY <1>1, <1>2, <1>3, Invariance, ClassesKept, WalksInvariant, PTL DEF Spec

=============================================================================
