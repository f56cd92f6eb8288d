--------------------------- MODULE CleaningProofs ---------------------------
(***************************************************************************)
(* A sweep of the cleaning thread removes exactly what it should, however  *)
(* the handlers' thread runs next to it: for every set of contexts and     *)
(* names and every timeout.  The invariant says what a sweep has done at   *)
(* each of its steps, by what it found when it took the guard.             *)
(***************************************************************************)
EXTENDS Cleaning, SequenceTheorems, NaturalsInduction, WellFoundedInduction, TLAPS

-----------------------------------------------------------------------------
(* The invariant.                                                          *)

Elements(s) == {s[i] : i \in 1 .. Len(s)}
NoneTwice(s) == \A i, j \in 1 .. Len(s) : s[i] = s[j] => i = j

\* What the handlers' thread is about.
RequestTyped(q) ==
  /\ q.op \in {"create", "unbind"} => q.at \in Contexts /\ q.name \in Names
  /\ q.op = "bind" => q.at \in Contexts \ {Root} /\ q.under \in Names /\ q.name \in Names
  /\ q.op = "remove" => q.at \in Contexts \ {Root}
  /\ q.op = "beat" => q.at \in Contexts \ {Root} /\ q.data \in {Bare, Empty} \cup 0 .. MaxNow
  /\ q.op = "list" => q.at \in Contexts
NetOK == /\ RequestTyped(net)
         /\ net # Idle => domain
         /\ net = Idle \/ net.op \in {"reply", "remove_domain"} \/ net.at \in Contexts

\* The contexts, their names for each other, and their heartbeats.
HeapOK ==
  /\ beat[Root] = NoBeat
  /\ IF domain THEN Root \in exists ELSE exists = {}
  /\ \A c \in exists, n \in Names : bound[c][n] \in exists \cup {None}
  /\ \A c \in Contexts, n \in Names :
       bound[c][n] # None => c \notin unused /\ bound[c][n] \notin unused

\* Nothing was linked: each context has the one name it was made with.
Tree ==
  ~linked =>
    /\ \A c \in Contexts, n \in Names : bound[c][n] # None => parent[bound[c][n]] = c
    /\ \A c \in Contexts, n, m \in Names : bound[c][n] # None /\ bound[c][n] = bound[c][m] => n = m

\* A reply points to names there are, unless a sweep came in between.
ReplyOK ==
  /\ reply \subseteq Contexts \X Names
  /\ reply # {} => net.op = "reply"
  /\ ~swept => \A cell \in reply : bound[cell[1]][cell[2]] # None

\* What is gone since the sweep began.
Gone == before.exists \ exists

\* The contexts and names are what they were, without what is gone.
SinceBefore ==
  /\ before.exists \subseteq Contexts
  /\ \A c \in before.exists, n \in Names : before.bound[c][n] \in before.exists \cup {None}
  /\ exists \subseteq before.exists /\ Gone \subseteq Due
  /\ \A c \in exists, n \in Names :
       bound[c][n] = IF before.bound[c][n] \in Gone THEN None ELSE before.bound[c][n]
  /\ domain => Root \in before.exists
  /\ ~domain => before.exists = {}

\* All contexts of the list are there to be visited, all doomed are due.
ListsOK ==
  /\ Elements(checklist) \subseteq (exists \cap Visited) \ Expired
  /\ Elements(doomed) \subseteq Due
  /\ cleaner = "visiting" => checklist # <<>>
  /\ cleaner # "removing" => doomed = <<>>
  /\ cleaner = "swept" => checklist = <<>>

\* done are contexts that were visited: what was bound in them is removed or
\* still doomed if it had expired, visited or still on the list if not.
CoveredBy(done) ==
  /\ Root \in done \cup Elements(checklist)
  /\ \A c \in done : /\ Under(c) \cap Expired \cap exists \subseteq Elements(doomed)
                     /\ Under(c) \ Expired \subseteq done \cup Elements(checklist)
Covered == domain => \E done \in SUBSET Contexts : CoveredBy(done)

\* While nothing was linked the doomed are there to be removed.
DoomedOK ==
  ~linked =>
    /\ \A c \in Elements(checklist) : Above(c) \subseteq exists \ Expired
    /\ cleaner = "removing" =>
         /\ Above(current) \subseteq exists \ Expired
         /\ NoneTwice(doomed)
         /\ \A x \in Elements(doomed) : x \in exists /\ parent[x] = current

SweepOK == SinceBefore /\ ListsOK /\ Covered /\ DoomedOK

FaultOK == /\ fault = "sweep" => linked
           /\ fault = "reply" => swept

IInv == /\ TypeOK /\ NetOK /\ HeapOK /\ Tree /\ ReplyOK /\ FaultOK
        /\ Running /\ cleaner \in Sweeping => SweepOK

-----------------------------------------------------------------------------
(* Closures.                                                               *)

\* Nothing is above the root.
LEMMA AboveRoot == Above(Root) \subseteq {Root}
<1>1. {Root} \in SUBSET Contexts
  BY CleaningAssumption
<1> QED
  BY <1>1 DEF Above

\* Above x is what is above the context x was made in.
LEMMA AboveStep ==
  ASSUME NEW x \in Contexts, parent[x] \in Contexts
  PROVE  Above(x) \subseteq {x} \cup Above(parent[x])
<1> SUFFICES ASSUME NEW a \in Above(x), a # x PROVE a \in Above(parent[x])
  OBVIOUS
<1>1. a \in Contexts
  BY DEF Above
<1> SUFFICES ASSUME NEW S \in SUBSET Contexts, parent[x] \in S,
                    \A y \in S \ {Root} : parent[y] \in S
             PROVE  a \in S
  BY <1>1 DEF Above
<1>2. S \cup {x} \in SUBSET Contexts /\ \A y \in (S \cup {x}) \ {Root} : parent[y] \in S \cup {x}
  OBVIOUS
<1>3. a \in S \cup {x}
  BY <1>2 DEF Above
<1> QED
  BY <1>3

\* A sweep visits the root, what has not expired below what it visits, and
\* nothing else.
LEMMA VisitedRoot == Root \in Visited
BY CleaningAssumption DEF Visited

LEMMA VisitedBelow ==
  ASSUME NEW c \in Visited, NEW x \in Under(c), x \notin Expired
  PROVE  x \in Visited
<1>1. x \in Contexts
  BY DEF Under
<1> SUFFICES ASSUME NEW S \in SUBSET Contexts, Root \in S,
                    \A d \in S : Under(d) \ Expired \subseteq S
             PROVE  x \in S
  BY <1>1 DEF Visited
<1>2. c \in S
  BY DEF Visited
<1> QED
  BY <1>2

LEMMA VisitedLeast ==
  ASSUME NEW S \in SUBSET Contexts, Root \in S, \A c \in S : Under(c) \ Expired \subseteq S
  PROVE  Visited \subseteq S
BY DEF Visited

-----------------------------------------------------------------------------
(* Choosing from a sequence.                                               *)

\* A set of naturals with an element has a least one.
LEMMA LeastOf ==
  ASSUME NEW S, S \subseteq Nat, S # {}
  PROVE  \E i \in S : \A j \in S : i <= j
<1>1. PICK i \in S : \A j \in S : ~(<<j, i>> \in OpToRel(<, Nat))
  BY NatLessThanWellFounded, WFMin
<1>2. \A j \in S : ~(j < i)
  BY <1>1 DEF OpToRel
<1> QED
  BY <1>2

\* f chooses from the first i elements of s, for each i up to k.
Picks(s, T, k, f) ==
  \A i \in 0 .. k : f[i] = IF i = 0 THEN <<>>
                           ELSE IF s[i] \in T THEN Append(f[i - 1], s[i]) ELSE f[i - 1]

CanPick(s, T, k) == \E f : f = [i \in 0 .. k |-> f[i]] /\ Picks(s, T, k, f)

LEMMA CanAlwaysPick ==
  ASSUME NEW s, NEW T, NEW k \in Nat
  PROVE  CanPick(s, T, k)
<1> DEFINE S == {n \in Nat : ~CanPick(s, T, n)}
<1> SUFFICES ASSUME S # {} PROVE FALSE
  OBVIOUS
<1>1. PICK n \in S : \A j \in S : n <= j
  BY LeastOf
<1>2. CASE n = 0
  <2> DEFINE f == [i \in 0 .. 0 |-> <<>>]
  <2>1. f = [i \in 0 .. 0 |-> f[i]] /\ Picks(s, T, 0, f)
    BY DEF Picks
  <2>2. CanPick(s, T, 0)
    BY <2>1 DEF CanPick
  <2> QED
    BY <1>1, <1>2, <2>2
<1>3. CASE n # 0
  <2>1. n - 1 \in Nat /\ CanPick(s, T, n - 1)
    BY <1>1, <1>3
  <2>2. PICK f : f = [i \in 0 .. n - 1 |-> f[i]] /\ Picks(s, T, n - 1, f)
    BY <2>1 DEF CanPick
  <2> DEFINE last == IF s[n] \in T THEN Append(f[n - 1], s[n]) ELSE f[n - 1]
             g == [i \in 0 .. n |-> IF i = n THEN last ELSE f[i]]
  <2>3. g[n] = last /\ \A i \in 0 .. n - 1 : g[i] = f[i]
    BY <1>1
  <2>4. g = [i \in 0 .. n |-> g[i]]
    OBVIOUS
  <2>5. \A i \in 0 .. n : i = n \/ i \in 0 .. n - 1
    BY <1>1
  <2>6. \A i \in 0 .. n - 1 : i # 0 => i - 1 \in 0 .. n - 1
    BY <1>1
  <2>7. n - 1 \in 0 .. n - 1
    BY <2>1
  <2> HIDE DEF g
  <2>8. Picks(s, T, n, g)
    BY <1>3, <2>2, <2>3, <2>5, <2>6, <2>7 DEF Picks
  <2>9. CanPick(s, T, n)
    BY <2>4, <2>8 DEF CanPick
  <2> QED
    BY <1>1, <2>9
<1> QED
  BY <1>2, <1>3

\* The function in the definition of Selected chooses.
LEMMA SelectedPicks ==
  ASSUME NEW s, NEW T, Len(s) \in Nat
  PROVE  \E f : Picks(s, T, Len(s), f) /\ Selected(s, T) = f[Len(s)]
<1> DEFINE E(r) == r = [i \in 0 .. Len(s) |->
                         IF i = 0 THEN <<>>
                         ELSE IF s[i] \in T THEN Append(r[i - 1], s[i]) ELSE r[i - 1]]
           sel == CHOOSE r : E(r)
<1>1. Selected(s, T) = sel[Len(s)]
  BY DEF Selected
<1>2. \E r : E(r)
  <2>1. PICK g : g = [i \in 0 .. Len(s) |-> g[i]] /\ Picks(s, T, Len(s), g)
    BY CanAlwaysPick DEF CanPick
  <2>2. E(g)
    BY <2>1 DEF Picks
  <2> QED
    BY <2>2
<1>3. PICK r : r = sel /\ E(r)
  BY <1>2
<1> HIDE DEF sel
<1>4. Picks(s, T, Len(s), r)
  BY <1>3 DEF Picks
<1> QED
  BY <1>1, <1>3, <1>4

\* q has the elements of T that are among the first k of s, in a sequence
\* without repetition if s has none there.
Chosen(s, T, k, q) ==
  /\ q \in Seq(T)
  /\ \A x : x \in Elements(q) <=> x \in T /\ \E i \in 1 .. k : x = s[i]
  /\ (\A i, j \in 1 .. k : s[i] \in T /\ s[i] = s[j] => i = j) => NoneTwice(q)

LEMMA AppendElements ==
  ASSUME NEW T, NEW q \in Seq(T), NEW x \in T
  PROVE  /\ Append(q, x) \in Seq(T)
         /\ \A y : y \in Elements(Append(q, x)) <=> y = x \/ y \in Elements(q)
         /\ NoneTwice(q) /\ x \notin Elements(q) => NoneTwice(Append(q, x))
<1>1. Len(q) \in Nat /\ Append(q, x) \in Seq(T) /\ Len(Append(q, x)) = Len(q) + 1
  BY AppendProperties
<1>2. \A i \in 1 .. Len(q) : Append(q, x)[i] = q[i]
  BY AppendProperties
<1>3. Append(q, x)[Len(q) + 1] = x
  BY AppendProperties
<1>4. 1 .. Len(q) + 1 = (1 .. Len(q)) \cup {Len(q) + 1}
  BY <1>1
<1>5. Len(q) + 1 \notin 1 .. Len(q)
  BY <1>1
<1> QED
  BY <1>1, <1>2, <1>3, <1>4, <1>5 DEF Elements, NoneTwice

LEMMA SelectedChosen ==
  ASSUME NEW s, NEW T, Len(s) \in Nat
  PROVE  Chosen(s, T, Len(s), Selected(s, T))
<1>1. PICK f : Picks(s, T, Len(s), f) /\ Selected(s, T) = f[Len(s)]
  BY SelectedPicks
<1> DEFINE S == {k \in 0 .. Len(s) : ~Chosen(s, T, k, f[k])}
<1> SUFFICES ASSUME S # {} PROVE FALSE
  BY <1>1
<1>2. PICK k \in S : \A j \in S : k <= j
  <2>1. S \subseteq Nat
    OBVIOUS
  <2> QED
    BY <2>1, LeastOf
<1>3. CASE k = 0
  <2>1. f[k] = <<>>
    BY <1>1, <1>2, <1>3 DEF Picks
  <2>2. Chosen(s, T, 0, <<>>)
    <3>1. 1 .. 0 = {} /\ Len(<<>>) = 0 /\ <<>> \in Seq(T)
      OBVIOUS
    <3> QED
      BY <3>1 DEF Chosen, Elements, NoneTwice
  <2> QED
    BY <1>2, <1>3, <2>1, <2>2
<1>4. CASE k # 0
  <2>1. k - 1 \in 0 .. Len(s) /\ ~(k <= k - 1) /\ k \in Nat
    BY <1>2, <1>4
  <2>2. Chosen(s, T, k - 1, f[k - 1])
    BY <1>2, <2>1
  <2>3. f[k] = IF s[k] \in T THEN Append(f[k - 1], s[k]) ELSE f[k - 1]
    BY <1>1, <1>2, <1>4 DEF Picks
  <2>4. 1 .. k = (1 .. k - 1) \cup {k} /\ k \notin 1 .. k - 1
    BY <2>1, <1>4
  <2> DEFINE q == f[k - 1]
             Apart(n) == \A i, j \in 1 .. n : s[i] \in T /\ s[i] = s[j] => i = j
  <2>5. CASE s[k] \in T
    <3>1. q \in Seq(T) /\ f[k] = Append(q, s[k])
      BY <2>2, <2>3, <2>5 DEF Chosen
    <3>2. /\ f[k] \in Seq(T)
          /\ \A y : y \in Elements(f[k]) <=> y = s[k] \/ y \in Elements(q)
          /\ NoneTwice(q) /\ s[k] \notin Elements(q) => NoneTwice(f[k])
      BY <3>1, <2>5, AppendElements
    <3>3. \A x : x \in Elements(f[k]) <=> x \in T /\ \E i \in 1 .. k : x = s[i]
      BY <2>2, <2>4, <2>5, <3>2 DEF Chosen
    <3>4. ASSUME Apart(k) PROVE NoneTwice(f[k])
      <4>1. Apart(k - 1)
        BY <2>4, <3>4
      <4>2. s[k] \notin Elements(q)
        BY <2>2, <2>4, <2>5, <3>4 DEF Chosen
      <4>3. NoneTwice(q)
        BY <4>1, <2>2 DEF Chosen
      <4> QED
        BY <4>2, <4>3, <3>2
    <3>5. Chosen(s, T, k, f[k])
      BY <3>2, <3>3, <3>4 DEF Chosen
    <3> QED
      BY <1>2, <3>5
  <2>6. CASE s[k] \notin T
    <3>1. f[k] = q
      BY <2>3, <2>6
    <3>2. \A x : x \in Elements(f[k]) <=> x \in T /\ \E i \in 1 .. k : x = s[i]
      BY <2>2, <2>4, <2>6, <3>1 DEF Chosen
    <3>3. ASSUME Apart(k) PROVE NoneTwice(f[k])
      BY <2>2, <2>4, <3>1, <3>3 DEF Chosen
    <3>4. f[k] \in Seq(T)
      BY <2>2, <3>1 DEF Chosen
    <3>5. Chosen(s, T, k, f[k])
      BY <3>2, <3>3, <3>4 DEF Chosen
    <3> QED
      BY <1>2, <3>5
  <2> QED
    BY <2>5, <2>6
<1> QED
  BY <1>3, <1>4

\* What a visit makes of the names of a context.
LEMMA RowSelected ==
  ASSUME TypeOK, NEW c \in Contexts, NEW T, T \subseteq Contexts
  PROVE  /\ Selected(Row(c), T) \in Seq(T)
         /\ Elements(Selected(Row(c), T)) = Children(c) \cap T
         /\ (\A n, m \in Names : bound[c][n] # None /\ bound[c][n] = bound[c][m] => n = m)
              => NoneTwice(Selected(Row(c), T))
<1>1. NumNames \in Nat /\ None \notin Contexts
  BY CleaningAssumption DEF None
<1>2. PICK s : s = Row(c)
  OBVIOUS
<1>3. s \in Seq(Contexts \cup {None}) /\ Len(s) = NumNames /\ \A n \in Names : s[n] = bound[c][n]
  BY <1>1, <1>2 DEF TypeOK, Row, Names
<1>4. Chosen(s, T, NumNames, Selected(s, T))
  BY <1>1, <1>3, SelectedChosen
<1>5. Elements(Selected(s, T)) = Children(c) \cap T
  <2>1. \A x : x \in Children(c) \cap T <=> x \in T /\ \E i \in 1 .. NumNames : x = s[i]
    BY <1>1, <1>3 DEF Children, Names
  <2> QED
    BY <1>4, <2>1 DEF Chosen
<1>6. ASSUME \A n, m \in Names : bound[c][n] # None /\ bound[c][n] = bound[c][m] => n = m
      PROVE  NoneTwice(Selected(s, T))
  <2>1. \A i, j \in 1 .. NumNames : s[i] \in T /\ s[i] = s[j] => i = j
    BY <1>1, <1>3, <1>6 DEF Names
  <2> QED
    BY <1>4, <2>1 DEF Chosen
<1> QED
  BY <1>2, <1>4, <1>5, <1>6 DEF Chosen

LEMMA ReversedElements ==
  ASSUME NEW T, NEW s \in Seq(T)
  PROVE  Reversed(s) \in Seq(T) /\ Elements(Reversed(s)) = Elements(s)
<1>1. Len(s) \in Nat /\ \A i \in 1 .. Len(s) : s[i] \in T /\ Len(s) + 1 - i \in 1 .. Len(s)
  BY LenProperties, ElementOfSeq
<1>2. Reversed(s) \in Seq(T) /\ Len(Reversed(s)) = Len(s)
  BY <1>1 DEF Reversed
<1>3. \A i \in 1 .. Len(s) : Reversed(s)[i] = s[Len(s) + 1 - i]
  BY DEF Reversed
<1>4. \A i \in 1 .. Len(s) : s[i] = Reversed(s)[Len(s) + 1 - i]
  <2> SUFFICES ASSUME NEW i \in 1 .. Len(s) PROVE s[i] = Reversed(s)[Len(s) + 1 - i]
    OBVIOUS
  <2>1. Len(s) + 1 - (Len(s) + 1 - i) = i
    BY <1>1
  <2> QED
    BY <1>1, <1>3, <2>1
<1>5. Elements(Reversed(s)) \subseteq Elements(s)
  BY <1>1, <1>2, <1>3 DEF Elements
<1>6. Elements(s) \subseteq Elements(Reversed(s))
  BY <1>1, <1>2, <1>4 DEF Elements
<1> QED
  BY <1>2, <1>5, <1>6

LEMMA ConcatElements ==
  ASSUME NEW T, NEW s \in Seq(T), NEW t \in Seq(T)
  PROVE  s \o t \in Seq(T) /\ Elements(s \o t) = Elements(s) \cup Elements(t)
<1>1. Len(s) \in Nat /\ Len(t) \in Nat /\ s \o t \in Seq(T) /\ Len(s \o t) = Len(s) + Len(t)
  BY LenProperties, ConcatProperties
<1>2. \A i \in 1 .. Len(s) : i \in 1 .. Len(s) + Len(t) /\ (s \o t)[i] = s[i]
  BY <1>1
<1>3. \A i \in 1 .. Len(t) : Len(s) + i \in 1 .. Len(s) + Len(t) /\ (s \o t)[Len(s) + i] = t[i]
  BY <1>1
<1>4. \A i \in 1 .. Len(s) + Len(t) : i \in 1 .. Len(s) \/ i - Len(s) \in 1 .. Len(t)
  BY <1>1
<1>5. \A i \in 1 .. Len(s) + Len(t) : i = Len(s) + (i - Len(s))
  BY <1>1
<1>6. Elements(s) \cup Elements(t) \subseteq Elements(s \o t)
  <2>1. \A i \in 1 .. Len(s) : s[i] \in Elements(s \o t)
    BY <1>1, <1>2 DEF Elements
  <2>2. \A i \in 1 .. Len(t) : t[i] \in Elements(s \o t)
    BY <1>1, <1>3 DEF Elements
  <2> QED
    BY <2>1, <2>2 DEF Elements
<1>7. ASSUME NEW i \in 1 .. Len(s) + Len(t)
      PROVE  (s \o t)[i] \in Elements(s) \cup Elements(t)
  BY <1>2, <1>3, <1>4, <1>5 DEF Elements
<1>8. Elements(s \o t) \subseteq Elements(s) \cup Elements(t)
  BY <1>1, <1>7 DEF Elements
<1> QED
  BY <1>1, <1>6, <1>8

\* The first and the last of a list, and the others.
LEMMA HeadElements ==
  ASSUME NEW T, NEW s \in Seq(T), s # <<>>
  PROVE  /\ Tail(s) \in Seq(T) /\ Head(s) \in T
         /\ Elements(s) = {Head(s)} \cup Elements(Tail(s))
         /\ NoneTwice(s) => NoneTwice(Tail(s)) /\ Head(s) \notin Elements(Tail(s))
<1>1. Len(s) \in Nat \ {0} /\ Tail(s) \in Seq(T) /\ Head(s) = s[1] /\ Len(Tail(s)) = Len(s) - 1
  BY EmptySeq, LenProperties, HeadTailProperties
<1>2. \A i \in 1 .. Len(s) - 1 : Tail(s)[i] = s[i + 1] /\ i + 1 \in 1 .. Len(s) /\ i + 1 # 1
  BY <1>1, HeadTailProperties
<1>3. \A i \in 1 .. Len(s) : i = 1 \/ (i - 1 \in 1 .. Len(s) - 1 /\ (i - 1) + 1 = i)
  BY <1>1
<1>4. s[1] \in T /\ 1 \in 1 .. Len(s)
  BY <1>1, ElementOfSeq
<1>5. Elements(s) = {Head(s)} \cup Elements(Tail(s))
  <2>1. \A i \in 1 .. Len(s) : s[i] = Head(s) \/ s[i] \in Elements(Tail(s))
    <3> SUFFICES ASSUME NEW i \in 1 .. Len(s), i # 1 PROVE s[i] \in Elements(Tail(s))
      BY <1>1
    <3>1. i - 1 \in 1 .. Len(Tail(s)) /\ Tail(s)[i - 1] = s[i]
      BY <1>1, <1>2, <1>3
    <3> QED
      BY <3>1 DEF Elements
  <2>2. Elements(Tail(s)) \subseteq Elements(s)
    BY <1>1, <1>2 DEF Elements
  <2>3. Head(s) \in Elements(s)
    BY <1>1, <1>4 DEF Elements
  <2>4. Elements(s) \subseteq {Head(s)} \cup Elements(Tail(s))
    BY <2>1 DEF Elements
  <2> QED
    BY <2>2, <2>3, <2>4
<1>6. ASSUME NoneTwice(s) PROVE NoneTwice(Tail(s)) /\ Head(s) \notin Elements(Tail(s))
  <2>1. \A i, j \in 1 .. Len(s) - 1 : i + 1 = j + 1 => i = j
    OBVIOUS
  <2> QED
    BY <1>1, <1>2, <1>4, <1>6, <2>1 DEF NoneTwice, Elements
<1> QED
  BY <1>1, <1>4, <1>5, <1>6

LEMMA LastElements ==
  ASSUME NEW T, NEW s \in Seq(T), s # <<>>
  PROVE  /\ SubSeq(s, 1, Len(s) - 1) \in Seq(T) /\ s[Len(s)] \in T
         /\ Elements(s) = {s[Len(s)]} \cup Elements(SubSeq(s, 1, Len(s) - 1))
<1>1. Len(s) \in Nat \ {0}
  BY EmptySeq, LenProperties
<1>2. PICK r : r = SubSeq(s, 1, Len(s) - 1)
  OBVIOUS
<1>3. \A i \in 1 .. Len(s) : s[i] \in T
  BY ElementOfSeq
<1>4. Len(r) = Len(s) - 1 /\ \A i \in 1 .. Len(s) - 1 : r[i] = s[i] /\ i \in 1 .. Len(s)
  <2>1. \A i \in 1 .. Len(s) - 1 : i \in 1 .. Len(s) /\ s[i] \in T
    BY <1>1, <1>3
  <2>2. 1 \in Int /\ Len(s) - 1 \in Int /\ (Len(s) - 1) - 1 + 1 = Len(s) - 1
    BY <1>1
  <2>3. /\ Len(r) = IF 1 <= Len(s) - 1 THEN (Len(s) - 1) - 1 + 1 ELSE 0
        /\ \A i \in 1 .. (Len(s) - 1) - 1 + 1 : r[i] = s[1 + i - 1]
    BY <1>2, <2>1, <2>2, SubSeqProperties
  <2>4. \A i \in 1 .. Len(s) - 1 : 1 + i - 1 = i
    BY <1>1
  <2>5. Len(r) = Len(s) - 1
    <3>1. CASE 1 <= Len(s) - 1
      BY <2>2, <2>3, <3>1
    <3>2. CASE ~(1 <= Len(s) - 1)
      <4> \A k \in Nat \ {0} : ~(1 <= k - 1) => k - 1 = 0
        OBVIOUS
      <4>1. Len(s) - 1 = 0
        BY <1>1, <3>2
      <4>2. Len(r) = 0
        BY <2>3, <3>2
      <4> QED
        BY <4>1, <4>2
    <3> QED
      BY <3>1, <3>2
  <2> QED
    BY <2>1, <2>2, <2>3, <2>4, <2>5
<1>5. r \in Seq(T)
  BY <1>1, <1>2, <1>3
<1>6. \A i \in 1 .. Len(s) : i = Len(s) \/ i \in 1 .. Len(s) - 1
  BY <1>1
<1>7. Len(s) \in 1 .. Len(s)
  BY <1>1
<1> QED
  BY <1>2, <1>3, <1>4, <1>5, <1>6, <1>7 DEF Elements

-----------------------------------------------------------------------------
(* Parts of the type invariant.                                            *)

TypedHeap ==
  /\ domain \in BOOLEAN
  /\ exists \subseteq Contexts \ unused /\ unused \subseteq Contexts
  /\ bound \in [Contexts -> [Names -> Contexts \cup {None}]]
  /\ parent \in [Contexts -> Contexts]
  /\ beat \in [Contexts -> {NoBeat, Bare, Empty} \cup 0..MaxNow]

TypedSweep ==
  /\ timeout \in 0..MaxNow
  /\ cleaner \in {"starting", "asleep", "waiting", "ended"} \cup Sweeping
  /\ checklist \in Seq(Contexts) /\ doomed \in Seq(Contexts) /\ current \in Contexts
  /\ doomed # <<>> => cleaner = "removing" \/ ~Running

TypedRest ==
  /\ go \in BOOLEAN /\ linked \in BOOLEAN /\ swept \in BOOLEAN
  /\ now \in Timeout..MaxNow /\ requests \in 0..MaxRequests
  /\ fault \in {"none", "request", "reply", "sweep", "bare"}
  /\ stopped \in {"no", "early", "yes"}

LEMMA TypeParts ==
  /\ IInv => TypedHeap /\ TypedSweep /\ TypedRest
  /\ TypedHeap /\ TypedSweep /\ TypedRest /\ NetOK /\ ReplyOK => TypeOK
BY DEF IInv, TypeOK, TypedHeap, TypedSweep, TypedRest, NetOK, ReplyOK

LEMMA TypePartsNext ==
  TypedHeap' /\ TypedSweep' /\ TypedRest' /\ NetOK' /\ ReplyOK' => TypeOK'
BY DEF TypeOK, TypedHeap, TypedSweep, TypedRest, NetOK, ReplyOK, Running

SweepInv == Running /\ cleaner \in Sweeping => SweepOK

LEMMA Parts ==
  IInv => /\ NetOK /\ HeapOK /\ Tree /\ ReplyOK /\ FaultOK /\ SweepInv
          /\ TypeOK /\ TypedHeap /\ TypedSweep /\ TypedRest
BY TypeParts DEF IInv, SweepInv

LEMMA PartsNext ==
  /\ TypedHeap' /\ TypedSweep' /\ TypedRest' /\ NetOK' /\ ReplyOK'
  /\ HeapOK' /\ Tree' /\ FaultOK' /\ SweepInv'
  => IInv'
BY TypePartsNext DEF IInv, SweepInv

LEMMA NoneApart == None \notin Contexts /\ None # NoBeat
BY CleaningAssumption DEF None, NoBeat

-----------------------------------------------------------------------------
(* The first state.                                                        *)

LEMMA InitOK == Init => IInv
<1> SUFFICES ASSUME Init PROVE IInv
  OBVIOUS
<1> USE CleaningAssumption
<1>1. TypedHeap
  BY DEF Init, TypedHeap, NoNames
<1>2. TypedSweep
  <2>1. <<>> \in Seq(Contexts)
    OBVIOUS
  <2> QED
    BY <2>1 DEF Init, TypedSweep
<1>3. TypedRest
  <2>1. Timeout \in Nat /\ MaxNow \in Nat /\ MaxRequests \in Nat /\ Timeout <= MaxNow
    OBVIOUS
  <2>2. Timeout \in Timeout .. MaxNow /\ 0 \in 0 .. MaxRequests
    BY <2>1
  <2> QED
    BY <2>2 DEF Init, TypedRest
<1>4. NetOK
  BY DEF Init, NetOK, RequestTyped, Idle
<1>5. ReplyOK
  BY DEF Init, ReplyOK
<1>6. HeapOK
  BY DEF Init, HeapOK, NoNames
<1>7. Tree
  BY DEF Init, Tree, NoNames
<1>8. FaultOK
  BY DEF Init, FaultOK
<1>9. ~(cleaner \in Sweeping)
  BY DEF Init, Sweeping
<1> QED
  BY <1>1, <1>2, <1>3, <1>4, <1>5, <1>6, <1>7, <1>8, <1>9, TypeParts DEF IInv

-----------------------------------------------------------------------------
(* Steps that leave the contexts and the sweep alone.                      *)

LEMMA SweepUnchanged ==
  ASSUME UNCHANGED <<heap, sweep, cleaner, linked>>, SweepOK
  PROVE  SweepOK'
<1>1. Gone' = Gone /\ Expired' = Expired /\ \A c : Under(c)' = Under(c)
  BY DEF Gone, Expired, expired, Under, heap, sweep
<1>2. Visited' = Visited
  BY <1>1 DEF Visited
<1>3. Due' = Due
  BY <1>1, <1>2 DEF Due
<1>4. \A x : Above(x)' = Above(x)
  BY DEF Above, heap
<1>5. SinceBefore'
  BY <1>1, <1>3 DEF SweepOK, SinceBefore, heap, sweep
<1>6. ListsOK'
  BY <1>1, <1>2, <1>3 DEF SweepOK, ListsOK, heap, sweep
<1>7. Covered'
  <2>1. \A done : CoveredBy(done)' = CoveredBy(done)
    BY <1>1 DEF CoveredBy, heap, sweep
  <2> QED
    BY <2>1 DEF SweepOK, Covered, heap
<1>8. DoomedOK'
  BY <1>1, <1>4 DEF SweepOK, DoomedOK, heap, sweep
<1> QED
  BY <1>5, <1>6, <1>7, <1>8 DEF SweepOK

LEMMA HeapUnchanged ==
  ASSUME UNCHANGED <<heap, linked>>, IInv
  PROVE  TypedHeap' /\ HeapOK' /\ Tree'
<1>1. TypedHeap /\ HeapOK /\ Tree
  BY Parts
<1>2. TypedHeap'
  BY <1>1 DEF TypedHeap, heap
<1>3. HeapOK'
  BY <1>1 DEF HeapOK, heap
<1>4. Tree'
  BY <1>1 DEF Tree, heap
<1> QED
  BY <1>2, <1>3, <1>4

LEMMA NothingElse ==
  ASSUME UNCHANGED <<heap, sweep, cleaner, linked>>, IInv, Running
  PROVE  TypedHeap' /\ HeapOK' /\ Tree' /\ SweepInv' /\ TypedSweep'
<1>1. TypedSweep /\ SweepInv
  BY Parts
<1>2. TypedHeap' /\ HeapOK' /\ Tree'
  BY HeapUnchanged
<1>3. TypedSweep'
  BY <1>1 DEF TypedSweep, sweep, Running
<1>4. SweepInv'
  <2>1. CASE cleaner \in Sweeping
    BY <1>1, <2>1, SweepUnchanged DEF SweepInv
  <2>2. CASE cleaner \notin Sweeping
    BY <2>2 DEF SweepInv
  <2> QED
    BY <2>1, <2>2
<1> QED
  BY <1>2, <1>3, <1>4

LEMMA RequestStep ==
  ASSUME IInv, NEW r \in Requests, Request(r)
  PROVE  IInv'
<1>1. /\ Running /\ net = Idle /\ requests < MaxRequests /\ net' = r /\ requests' = requests + 1
      /\ UNCHANGED <<heap, sweep, cleaner, linked>> /\ UNCHANGED <<now, reply, go, fault, swept, stopped>>
  BY DEF Request
<1>2. TypedHeap /\ TypedRest /\ NetOK /\ ReplyOK /\ FaultOK
  BY Parts
<1>3. TypedHeap' /\ HeapOK' /\ Tree' /\ SweepInv' /\ TypedSweep'
  BY <1>1, NothingElse
<1>4. TypedRest'
  BY <1>1, <1>2, CleaningAssumption DEF TypedRest
<1>5. reply = {}
  BY <1>1, <1>2 DEF ReplyOK, Idle
<1>6. NetOK'
  <2>1. now \in 0 .. MaxNow
    BY <1>2, CleaningAssumption DEF TypedRest
  <2>0. domain'
    BY <1>1 DEF Request, heap
  <2> DEFINE made == Contexts \ unused
  <2>2. CASE \E p \in made, n \in Names : r = Make(p, n)
    BY <1>1, <2>0, <2>2 DEF Make, NetOK, RequestTyped
  <2>3. CASE \E x \in made \ {Root}, m \in Names, n \in Names : r = Link(x, m, n)
    BY <1>1, <2>0, <2>3 DEF Link, NetOK, RequestTyped
  <2>4. CASE \E p \in made, n \in Names : r = Unbind(p, n)
    BY <1>1, <2>0, <2>4 DEF Unbind, NetOK, RequestTyped
  <2>5. CASE \E x \in made \ {Root} : r = Remove(x)
    BY <1>1, <2>0, <2>5 DEF Remove, NetOK, RequestTyped
  <2>6. CASE \E x \in made \ {Root}, d \in {now, Empty, Bare} : r = Beat(x, d)
    BY <1>1, <2>0, <2>1, <2>6 DEF Beat, NetOK, RequestTyped
  <2>7. CASE \E x \in made : r = List(x)
    BY <1>1, <2>0, <2>7 DEF List, NetOK, RequestTyped
  <2>8. CASE r = RemoveDomain
    BY <1>1, <2>0, <2>8 DEF RemoveDomain, NetOK, RequestTyped
  <2> QED
    BY <2>2, <2>3, <2>4, <2>5, <2>6, <2>7, <2>8 DEF Requests
<1>7. ReplyOK'
  BY <1>1, <1>5 DEF ReplyOK
<1>8. FaultOK'
  BY <1>1, <1>2 DEF FaultOK
<1> QED
  BY <1>3, <1>4, <1>6, <1>7, <1>8, PartsNext

LEMMA EncodeStep ==
  ASSUME IInv, Encode
  PROVE  IInv'
<1>1. /\ Running /\ net' = Idle /\ reply' = {} /\ net.op = "reply"
      /\ UNCHANGED <<heap, sweep, cleaner, linked>> /\ UNCHANGED <<now, requests, go, swept, stopped>>
  BY DEF Encode
<1>2. IF \E cell \in reply : bound[cell[1]][cell[2]] = None THEN fault' = "reply" ELSE fault' = fault
  BY DEF Encode, Fault
<1>3. TypedRest /\ ReplyOK /\ FaultOK
  BY Parts
<1>4. TypedHeap' /\ HeapOK' /\ Tree' /\ SweepInv' /\ TypedSweep'
  BY <1>1, NothingElse
<1>5. fault' \in {fault, "reply"}
  BY <1>2
<1>6. TypedRest'
  BY <1>1, <1>3, <1>5 DEF TypedRest
<1>7. NetOK'
  BY <1>1 DEF NetOK, RequestTyped, Idle
<1>8. ReplyOK'
  BY <1>1 DEF ReplyOK
<1>9. FaultOK'
  <2>1. fault' = "reply" /\ fault # "reply" => swept
    BY <1>2, <1>3 DEF ReplyOK, TypedRest
  <2> QED
    BY <1>1, <1>3, <1>5, <2>1 DEF FaultOK
<1> QED
  BY <1>4, <1>6, <1>7, <1>8, <1>9, PartsNext

LEMMA ListStep ==
  ASSUME IInv, HandleList
  PROVE  IInv'
<1>1. /\ Running /\ net.op = "list" /\ swept' = FALSE
      /\ UNCHANGED <<heap, sweep, cleaner, linked>> /\ UNCHANGED <<now, requests, go, fault, stopped>>
  BY DEF HandleList
<1>2. TypedRest /\ ReplyOK /\ FaultOK /\ NetOK
  BY Parts
<1>3. TypedHeap' /\ HeapOK' /\ Tree' /\ SweepInv' /\ TypedSweep'
  BY <1>1, NothingElse
<1>4. net.at \in Contexts
  BY <1>1, <1>2 DEF NetOK, RequestTyped
<1>5. TypedRest'
  BY <1>1, <1>2 DEF TypedRest
<1>6. FaultOK'
  BY <1>1 DEF FaultOK, Running
<1>7. bound' = bound
  BY <1>1 DEF heap
<1>8. NetOK' /\ ReplyOK'
  <2>1. CASE net.at \in exists
    <3>1. /\ reply' = {<<net.at, n>> : n \in {m \in Names : bound[net.at][m] # None}}
          /\ net' = [op |-> "reply"]
      BY <2>1 DEF HandleList
    <3>2. NetOK'
      BY <1>1, <1>2, <3>1 DEF NetOK, RequestTyped, Idle, heap
    <3>3. ReplyOK'
      BY <1>4, <1>7, <3>1 DEF ReplyOK
    <3> QED
      BY <3>2, <3>3
  <2>2. CASE net.at \notin exists
    <3>1. net' = Idle /\ reply' = reply
      BY <2>2 DEF HandleList
    <3>2. reply = {}
      BY <1>1, <1>2 DEF ReplyOK
    <3> QED
      BY <3>1, <3>2 DEF NetOK, RequestTyped, Idle, ReplyOK
  <2> QED
    BY <2>1, <2>2
<1> QED
  BY <1>3, <1>5, <1>6, <1>8, PartsNext

LEMMA TimeSteps ==
  ASSUME IInv, stop \/ Tick
  PROVE  IInv'
<1>1. /\ Running /\ UNCHANGED <<heap, sweep, cleaner, linked>>
      /\ UNCHANGED <<net, reply, requests, fault, swept>>
  BY DEF stop, Tick
<1>2. TypedRest /\ ReplyOK /\ FaultOK /\ NetOK
  BY Parts
<1>3. TypedHeap' /\ HeapOK' /\ Tree' /\ SweepInv' /\ TypedSweep'
  BY <1>1, NothingElse
<1>4. TypedRest'
  <2>1. CASE stop
    BY <1>1, <1>2, <2>1 DEF stop, TypedRest
  <2>2. CASE Tick
    BY <1>1, <1>2, <2>2, CleaningAssumption DEF Tick, TypedRest
  <2> QED
    BY <2>1, <2>2
<1>5. NetOK'
  BY <1>1, <1>2 DEF NetOK, heap
<1>6. ReplyOK' /\ FaultOK'
  BY <1>1, <1>2 DEF ReplyOK, FaultOK, heap
<1> QED
  BY <1>3, <1>4, <1>5, <1>6, PartsNext

-----------------------------------------------------------------------------
(* The handlers that change contexts: no sweep is under way.               *)

LEMMA HandlerStep ==
  ASSUME IInv, NEW op, op # "reply", Handling(op),
         TypedHeap', HeapOK', Tree', linked' \in BOOLEAN, fault' \in {fault, "request"},
         reply' = reply, swept' = swept
  PROVE  IInv'
<1>1. /\ Running /\ net.op = op /\ cleaner \notin Sweeping /\ net' = Idle
      /\ UNCHANGED <<now, requests, go, cleaner, sweep, stopped>>
  BY DEF Handling, Free
<1>2. TypedRest /\ TypedSweep /\ ReplyOK
  BY Parts
<1>3. TypedRest'
  BY <1>1, <1>2 DEF TypedRest
<1>4. TypedSweep'
  BY <1>1, <1>2 DEF TypedSweep, Sweeping, sweep, Running
<1>5. SweepInv'
  BY <1>1 DEF SweepInv
<1>6. ReplyOK'
  BY <1>1, <1>2 DEF ReplyOK
<1>7. NetOK'
  BY <1>1 DEF NetOK, RequestTyped, Idle
<1>8. FaultOK'
  BY <1>1 DEF FaultOK, Running
<1> QED
  BY <1>3, <1>4, <1>5, <1>6, <1>7, <1>8, PartsNext

\* While there is a request there is the root, and so is where it begins.
LEMMA BaseExists ==
  ASSUME IInv, NEW op, Handling(op), op # "idle"
  PROVE  Root \in exists /\ \A x : Base(x) \in exists
<1>1. net # Idle
  BY DEF Handling, Idle
<1>2. Root \in exists
  BY <1>1, Parts DEF NetOK, HeapOK
<1> QED
  BY <1>2 DEF Base

\* x is made in p as n, with row bound in it.
Enters(p, n, x, row) ==
  /\ unused' = unused \ {x} /\ exists' = exists \cup {x}
  /\ bound' = [bound EXCEPT ![p][n] = x, ![x] = row]
  /\ parent' = [parent EXCEPT ![x] = p]

LEMMA NewContextIs ==
  ASSUME NEW p, NEW n, NEW row, NewContext(p, n, row)
  PROVE  \/ fault' \in {fault, "request"} /\ UNCHANGED <<unused, exists, bound, parent>>
         \/ fault' = fault /\ \E x \in unused : Enters(p, n, x, row)
BY DEF NewContext, Enters, Fault

\* What is bound once it was made.
LEMMA EntersBound ==
  ASSUME TypedHeap, NEW p \in exists, NEW n \in Names, NEW x \in unused,
         NEW row \in [Names -> exists \cup {None}], Enters(p, n, x, row)
  PROVE  /\ x \in Contexts /\ x \notin exists /\ x # p /\ x # None
         /\ bound' \in [Contexts -> [Names -> Contexts \cup {None}]]
         /\ \A c \in Contexts, m \in Names :
              bound'[c][m] = IF c = x THEN row[m]
                             ELSE IF c = p /\ m = n THEN x ELSE bound[c][m]
<1>1. x \in Contexts /\ x \notin exists /\ x # p /\ x # None /\ p \in Contexts
  BY NoneApart DEF TypedHeap
<1>2. PICK A : A = [bound EXCEPT ![p][n] = x]
  OBVIOUS
<1>3. PICK B : B = bound'
  OBVIOUS
<1>4. B = [A EXCEPT ![x] = row]
  BY <1>2, <1>3 DEF Enters
<1>5. /\ A \in [Contexts -> [Names -> Contexts \cup {None}]]
      /\ \A c \in Contexts, m \in Names : A[c][m] = IF c = p /\ m = n THEN x ELSE bound[c][m]
  BY <1>1, <1>2 DEF TypedHeap
<1>6. row \in [Names -> Contexts \cup {None}]
  BY DEF TypedHeap
<1>7. /\ B \in [Contexts -> [Names -> Contexts \cup {None}]]
      /\ \A c \in Contexts : B[c] = IF c = x THEN row ELSE A[c]
  BY <1>1, <1>4, <1>5, <1>6
<1> QED
  BY <1>1, <1>3, <1>5, <1>7

LEMMA EntersKeeps ==
  ASSUME TypedHeap, HeapOK, NEW p \in exists, NEW n \in Names, NEW x \in unused,
         NEW row \in [Names -> exists \cup {None}], Enters(p, n, x, row),
         UNCHANGED <<domain, beat>>
  PROVE  /\ TypedHeap' /\ HeapOK'
         /\ Tree /\ linked' = linked /\ row = NoRow => Tree'
<1>1. PICK B, Q : B = bound' /\ Q = parent'
  OBVIOUS
<1>2. /\ x \in Contexts /\ x \notin exists /\ x # p /\ x # None
      /\ B \in [Contexts -> [Names -> Contexts \cup {None}]]
      /\ \A c \in Contexts, m \in Names :
           B[c][m] = IF c = x THEN row[m] ELSE IF c = p /\ m = n THEN x ELSE bound[c][m]
  BY <1>1, EntersBound
<1>3. unused' = unused \ {x} /\ exists' = exists \cup {x} /\ Q = [parent EXCEPT ![x] = p]
  BY <1>1 DEF Enters
<1>4. p \in Contexts /\ p \notin unused
  BY DEF TypedHeap
<1>5. Q \in [Contexts -> Contexts] /\ \A y \in Contexts : Q[y] = IF y = x THEN p ELSE parent[y]
  BY <1>2, <1>3, <1>4 DEF TypedHeap
<1>6. TypedHeap'
  <2>1. exists' \subseteq Contexts \ unused' /\ unused' \subseteq Contexts
    BY <1>3 DEF TypedHeap
  <2> QED
    BY <1>1, <1>2, <1>5, <2>1 DEF TypedHeap
<1>7. HeapOK'
  <2>1. \A c \in exists', m \in Names : B[c][m] \in exists' \cup {None}
    <3> SUFFICES ASSUME NEW c \in exists', NEW m \in Names PROVE B[c][m] \in exists' \cup {None}
      OBVIOUS
    <3>1. CASE c = x
      BY <1>2, <1>3, <3>1
    <3>2. CASE c \in exists
      <4>1. c \in Contexts
        BY <3>2 DEF TypedHeap
      <4> QED
        BY <1>2, <1>3, <3>2, <4>1 DEF HeapOK
    <3> QED
      BY <1>3, <3>1, <3>2
  <2>2. ASSUME NEW c \in Contexts, NEW m \in Names, B[c][m] # None
        PROVE  c \notin unused' /\ B[c][m] \notin unused'
    <3>1. CASE c = x
      <4>1. row[m] \in exists
        BY <1>2, <2>2, <3>1
      <4> QED
        BY <1>2, <1>3, <3>1, <4>1 DEF TypedHeap
    <3>2. CASE c # x
      BY <1>2, <1>3, <1>4, <2>2, <3>2 DEF HeapOK
    <3> QED
      BY <3>1, <3>2
  <2>3. IF domain' THEN Root \in exists' ELSE exists' = {}
    BY <1>3 DEF HeapOK
  <2>4. beat'[Root] = NoBeat
    BY DEF HeapOK
  <2> QED
    BY <1>1, <2>1, <2>2, <2>3, <2>4 DEF HeapOK
<1>8. ASSUME Tree, linked' = linked, row = NoRow PROVE Tree'
  <2> SUFFICES ASSUME ~linked
               PROVE  /\ \A c \in Contexts, m \in Names : B[c][m] # None => Q[B[c][m]] = c
                      /\ \A c \in Contexts, m, k \in Names :
                           B[c][m] # None /\ B[c][m] = B[c][k] => m = k
    BY <1>1, <1>8 DEF Tree
  <2>1. \A m \in Names : row[m] = None
    BY <1>8 DEF NoRow
  <2>2. \A c \in Contexts, m \in Names : bound[c][m] # x
    BY <1>2 DEF HeapOK
  <2>3. \A c \in Contexts, m \in Names : bound[c][m] # None => bound[c][m] \in Contexts
    BY DEF TypedHeap
  <2>4. \A c \in Contexts, m \in Names : B[c][m] # None => Q[B[c][m]] = c
    BY <1>2, <1>5, <1>8, <2>1, <2>2, <2>3 DEF Tree
  <2>5. \A c \in Contexts, m, k \in Names : B[c][m] # None /\ B[c][m] = B[c][k] => m = k
    BY <1>2, <1>8, <2>1, <2>2 DEF Tree
  <2> QED
    BY <2>4, <2>5
<1> QED
  BY <1>6, <1>7, <1>8

LEMMA RowTyped ==
  /\ NoRow \in [Names -> exists \cup {None}]
  /\ \A m \in Names, x \in exists : [NoRow EXCEPT ![m] = x] \in [Names -> exists \cup {None}]
BY DEF NoRow

LEMMA CreateStep ==
  ASSUME IInv, HandleCreate
  PROVE  IInv'
<1>1. /\ Handling("create") /\ net.op = "create"
      /\ UNCHANGED <<domain, beat, reply, linked, swept>>
  BY DEF HandleCreate, Handling
<1>2. TypedHeap /\ TypedRest /\ HeapOK /\ Tree /\ NetOK
  BY Parts
<1>3. PICK p, n : p = Base(net.at) /\ n = net.name
  OBVIOUS
<1>4. p \in exists /\ n \in Names
  BY <1>1, <1>2, <1>3, BaseExists DEF NetOK, RequestTyped
<1>5. CASE bound[p][n] = None
  <2>1. NewContext(p, n, NoRow)
    BY <1>3, <1>5 DEF HandleCreate
  <2>2. CASE fault' = fault /\ \E x \in unused : Enters(p, n, x, NoRow)
    <3>1. TypedHeap' /\ HeapOK' /\ Tree'
      BY <1>1, <1>2, <1>4, <2>2, EntersKeeps, RowTyped
    <3> QED
      BY <1>1, <1>2, <2>2, <3>1, HandlerStep DEF TypedRest
  <2>3. CASE fault' \in {fault, "request"} /\ UNCHANGED <<unused, exists, bound, parent>>
    <3>1. UNCHANGED <<heap, linked>>
      BY <1>1, <2>3 DEF heap
    <3> QED
      BY <1>1, <1>2, <2>3, <3>1, HeapUnchanged, HandlerStep DEF TypedRest
  <2> QED
    BY <2>1, <2>2, <2>3, NewContextIs
<1>6. CASE bound[p][n] # None
  <2>1. UNCHANGED <<heap, linked>> /\ fault' = fault
    BY <1>1, <1>3, <1>6 DEF HandleCreate, heap
  <2> QED
    BY <1>1, <1>2, <2>1, HeapUnchanged, HandlerStep DEF TypedRest
<1> QED
  BY <1>5, <1>6

LEMMA LinkStep ==
  ASSUME IInv, HandleLink
  PROVE  IInv'
<1>1. /\ Handling("bind") /\ net.op = "bind"
      /\ UNCHANGED <<domain, beat, reply, swept>>
  BY DEF HandleLink, Handling
<1>2. TypedHeap /\ TypedRest /\ HeapOK /\ NetOK /\ Root \in exists
  BY <1>1, Parts, BaseExists
<1>3. PICK p, k, n, x : /\ p = bound[Root][k] /\ k = net.under
                        /\ n = net.name /\ x = net.at
  OBVIOUS
<1>4. k \in Names /\ n \in Names /\ p \in exists \cup {None}
  BY <1>1, <1>2, <1>3 DEF NetOK, RequestTyped, HeapOK
<1>5. CASE x \notin exists
  <2>1. UNCHANGED <<heap, linked>> /\ fault' = "request"
    BY <1>1, <1>3, <1>5 DEF HandleLink, Fault, heap
  <2> QED
    BY <1>1, <1>2, <2>1, HeapUnchanged, HandlerStep DEF TypedRest
<1>6. CASE x \in exists /\ p = None
  <2>1. NewContext(Root, k, [NoRow EXCEPT ![n] = x]) /\ linked' = TRUE
    BY <1>3, <1>6 DEF HandleLink
  <2>2. Tree'
    BY <2>1 DEF Tree
  <2>3. PICK row : row = [NoRow EXCEPT ![n] = x]
    OBVIOUS
  <2>4. row \in [Names -> exists \cup {None}]
    BY <1>4, <1>6, <2>3, RowTyped
  <2>5. CASE fault' = fault /\ \E y \in unused : Enters(Root, k, y, row)
    <3>1. TypedHeap' /\ HeapOK'
      BY <1>1, <1>2, <1>4, <2>4, <2>5, EntersKeeps
    <3> QED
      BY <1>1, <2>1, <2>2, <2>5, <3>1, HandlerStep
  <2>6. CASE fault' \in {fault, "request"} /\ UNCHANGED <<unused, exists, bound, parent>>
    <3>1. TypedHeap' /\ HeapOK'
      BY <1>1, <1>2, <2>6 DEF TypedHeap, HeapOK
    <3> QED
      BY <1>1, <2>1, <2>2, <2>6, <3>1, HandlerStep
  <2> QED
    BY <2>1, <2>3, <2>5, <2>6, NewContextIs
<1>7. CASE x \in exists /\ p # None
  <2>1. UNCHANGED <<unused, exists, parent, fault>>
    BY <1>3, <1>5, <1>7 DEF HandleLink
  <2>2. CASE bound[p][n] = None
    <3>1. bound' = [bound EXCEPT ![p][n] = x] /\ linked' = TRUE
      BY <1>3, <1>7, <2>2 DEF HandleLink
    <3>2. PICK B : B = bound'
      OBVIOUS
    <3>3. p \in exists /\ p \in Contexts /\ x \in Contexts
      BY <1>2, <1>4, <1>7 DEF TypedHeap
    <3>4. \A c \in Contexts, m \in Names : B[c][m] = IF c = p /\ m = n THEN x ELSE bound[c][m]
      BY <1>2, <1>4, <3>1, <3>2 DEF TypedHeap
    <3>5. TypedHeap'
      <4>1. bound' \in [Contexts -> [Names -> Contexts \cup {None}]]
        BY <1>2, <3>1, <3>3 DEF TypedHeap
      <4> QED
        BY <1>1, <1>2, <2>1, <4>1 DEF TypedHeap
    <3>6. HeapOK'
      <4>1. \A c \in exists, m \in Names : B[c][m] \in exists \cup {None}
        BY <1>2, <1>7, <3>4 DEF HeapOK, TypedHeap
      <4>2. \A c \in Contexts, m \in Names : B[c][m] # None => c \notin unused /\ B[c][m] \notin unused
        BY <1>2, <1>7, <3>3, <3>4 DEF HeapOK, TypedHeap
      <4> QED
        BY <1>1, <1>2, <2>1, <3>2, <4>1, <4>2 DEF HeapOK
    <3>7. Tree'
      BY <3>1 DEF Tree
    <3> QED
      BY <1>1, <2>1, <3>1, <3>5, <3>6, <3>7, HandlerStep
  <2>3. CASE bound[p][n] # None
    <3>1. UNCHANGED <<heap, linked>>
      BY <1>1, <1>3, <1>7, <2>1, <2>3 DEF HandleLink, heap
    <3> QED
      BY <1>1, <1>2, <2>1, <3>1, HeapUnchanged, HandlerStep DEF TypedRest
  <2> QED
    BY <2>2, <2>3
<1> QED
  BY <1>5, <1>6, <1>7

LEMMA UnbindStep ==
  ASSUME IInv, HandleUnbind
  PROVE  IInv'
<1>1. /\ Handling("unbind") /\ net.op = "unbind"
      /\ UNCHANGED <<domain, exists, unused, parent, beat, reply, fault, swept, linked>>
  BY DEF HandleUnbind, Handling, Kept
<1>2. TypedHeap /\ TypedRest /\ HeapOK /\ Tree /\ NetOK
  BY Parts
<1>3. PICK p, n : p = Base(net.at) /\ n = net.name
  OBVIOUS
<1>4. p \in exists /\ p \in Contexts /\ n \in Names
  BY <1>1, <1>2, <1>3, BaseExists DEF NetOK, RequestTyped, TypedHeap
<1>5. bound' = [bound EXCEPT ![p][n] = None]
  BY <1>3 DEF HandleUnbind
<1>6. PICK B : B = bound'
  OBVIOUS
<1>7. \A c \in Contexts, m \in Names :
        B[c][m] = IF c = p /\ m = n THEN None ELSE bound[c][m]
  BY <1>2, <1>4, <1>5, <1>6 DEF TypedHeap
<1>8. TypedHeap'
  <2>1. bound' \in [Contexts -> [Names -> Contexts \cup {None}]]
    BY <1>2, <1>5 DEF TypedHeap
  <2> QED
    BY <1>1, <1>2, <2>1 DEF TypedHeap
<1>9. HeapOK'
  <2>1. \A c \in exists, m \in Names : B[c][m] \in exists \cup {None}
    BY <1>2, <1>7 DEF HeapOK, TypedHeap
  <2>2. \A c \in Contexts, m \in Names : B[c][m] # None => c \notin unused /\ B[c][m] \notin unused
    BY <1>2, <1>7 DEF HeapOK
  <2> QED
    BY <1>1, <1>2, <1>6, <2>1, <2>2 DEF HeapOK
<1>10. Tree'
  <2>1. ~linked => \A c \in Contexts, m \in Names : B[c][m] # None => parent[B[c][m]] = c
    BY <1>2, <1>7 DEF Tree
  <2>2. ~linked => \A c \in Contexts, m, k \in Names : B[c][m] # None /\ B[c][m] = B[c][k] => m = k
    BY <1>2, <1>7 DEF Tree
  <2> QED
    BY <1>1, <1>6, <2>1, <2>2 DEF Tree
<1> QED
  BY <1>1, <1>2, <1>8, <1>9, <1>10, HandlerStep DEF TypedRest

LEMMA BeatStep ==
  ASSUME IInv, HandleBeat
  PROVE  IInv'
<1>1. /\ Handling("beat") /\ net.op = "beat"
      /\ UNCHANGED <<domain, exists, unused, bound, parent, reply, fault, linked, swept>>
  BY DEF HandleBeat, Handling
<1>2. TypedHeap /\ TypedRest /\ HeapOK /\ Tree /\ NetOK
  BY Parts
<1>3. PICK x \in Contexts \ {Root}, d \in {Bare, Empty} \cup 0 .. MaxNow : x = net.at /\ d = net.data
  BY <1>1, <1>2 DEF NetOK, RequestTyped
<1>4. beat' = [beat EXCEPT ![x] = d] \/ beat' = beat
  BY <1>3 DEF HandleBeat
<1>5. TypedHeap'
  <2>1. beat' \in [Contexts -> {NoBeat, Bare, Empty} \cup 0..MaxNow]
    BY <1>2, <1>4 DEF TypedHeap
  <2> QED
    BY <1>1, <1>2, <2>1 DEF TypedHeap
<1>6. HeapOK'
  <2>1. beat'[Root] = NoBeat
    BY <1>2, <1>4, CleaningAssumption DEF TypedHeap, HeapOK
  <2> QED
    BY <1>1, <1>2, <2>1 DEF HeapOK
<1>7. Tree'
  BY <1>1, <1>2 DEF Tree
<1> QED
  BY <1>1, <1>2, <1>5, <1>6, <1>7, HandlerStep DEF TypedRest

LEMMA RemoveDomainStep ==
  ASSUME IInv, HandleRemoveDomain
  PROVE  IInv'
<1>1. /\ Handling("remove_domain")
      /\ \/ domain' = FALSE /\ exists' = {} /\ fault' = fault
         \/ UNCHANGED <<domain, exists>> /\ fault' = "request"
      /\ UNCHANGED <<unused, bound, parent, beat, reply, linked, swept>>
  BY DEF HandleRemoveDomain, Handling, Fault
<1>2. TypedHeap /\ TypedRest /\ HeapOK /\ Tree
  BY Parts
<1>3. TypedHeap'
  BY <1>1, <1>2 DEF TypedHeap
<1>4. HeapOK'
  BY <1>1, <1>2 DEF HeapOK
<1>5. Tree'
  BY <1>1, <1>2 DEF Tree
<1> QED
  BY <1>1, <1>2, <1>3, <1>4, <1>5, HandlerStep DEF TypedRest

-----------------------------------------------------------------------------
(* Removing a context, asked for or swept.                                 *)

LEMMA WithoutIs ==
  ASSUME TypedHeap, NEW x \in Contexts, NEW B, B = Without(x)
  PROVE  /\ B \in [Contexts -> [Names -> Contexts \cup {None}]]
         /\ \A c \in Contexts, n \in Names :
              B[c][n] = IF c \in exists /\ bound[c][n] = x THEN None ELSE bound[c][n]
<1>1. \A c \in Contexts : B[c] = IF c \in exists
                                 THEN [n \in Names |-> IF bound[c][n] = x THEN None ELSE bound[c][n]]
                                 ELSE bound[c]
  BY DEF Without
<1>2. ASSUME NEW c \in Contexts PROVE B[c] \in [Names -> Contexts \cup {None}]
  <2>1. bound[c] \in [Names -> Contexts \cup {None}]
    BY DEF TypedHeap
  <2>2. [n \in Names |-> IF bound[c][n] = x THEN None ELSE bound[c][n]]
          \in [Names -> Contexts \cup {None}]
    BY <2>1
  <2> QED
    BY <1>1, <2>1, <2>2
<1>3. B = [c \in Contexts |-> B[c]]
  BY DEF Without
<1>4. \A c \in Contexts, n \in Names :
        B[c][n] = IF c \in exists /\ bound[c][n] = x THEN None ELSE bound[c][n]
  BY <1>1
<1> QED
  BY <1>2, <1>3, <1>4

LEMMA Removal ==
  ASSUME TypedHeap, HeapOK, Tree, NEW x \in Contexts \ {Root},
         exists' = exists \ {x}, bound' = Without(x),
         UNCHANGED <<domain, unused, parent, beat, linked>>
  PROVE  TypedHeap' /\ HeapOK' /\ Tree'
<1>1. PICK B : B = bound'
  OBVIOUS
<1>2. /\ B \in [Contexts -> [Names -> Contexts \cup {None}]]
      /\ \A c \in Contexts, n \in Names :
           B[c][n] = IF c \in exists /\ bound[c][n] = x THEN None ELSE bound[c][n]
  BY <1>1, WithoutIs
<1>3. TypedHeap'
  BY <1>1, <1>2 DEF TypedHeap
<1>4. HeapOK'
  <2>1. \A c \in exists', n \in Names : B[c][n] \in exists' \cup {None}
    BY <1>2, NoneApart DEF HeapOK, TypedHeap
  <2>2. \A c \in Contexts, n \in Names : B[c][n] # None => c \notin unused /\ B[c][n] \notin unused
    BY <1>2 DEF HeapOK
  <2> QED
    BY <1>1, <2>1, <2>2 DEF HeapOK
<1>5. Tree'
  <2>1. ~linked => \A c \in Contexts, n \in Names : B[c][n] # None => parent[B[c][n]] = c
    BY <1>2 DEF Tree
  <2>2. ~linked => \A c \in Contexts, n, m \in Names : B[c][n] # None /\ B[c][n] = B[c][m] => n = m
    BY <1>2 DEF Tree
  <2> QED
    BY <1>1, <2>1, <2>2 DEF Tree
<1> QED
  BY <1>3, <1>4, <1>5

LEMMA RemoveStep ==
  ASSUME IInv, HandleRemove
  PROVE  IInv'
<1>1. /\ Handling("remove") /\ net.op = "remove"
      /\ UNCHANGED <<domain, unused, parent, beat, reply, swept, linked>>
  BY DEF HandleRemove, Handling, Kept
<1>2. TypedHeap /\ TypedRest /\ HeapOK /\ Tree /\ NetOK
  BY Parts
<1>3. net.at \in Contexts \ {Root}
  BY <1>1, <1>2 DEF NetOK, RequestTyped
<1>4. CASE net.at \in exists /\ CanRemove(net.at)
  <2>1. exists' = exists \ {net.at} /\ bound' = Without(net.at) /\ fault' = fault
    BY <1>4 DEF HandleRemove, remove_context
  <2>2. TypedHeap' /\ HeapOK' /\ Tree'
    BY <1>1, <1>2, <1>3, <2>1, Removal
  <2> QED
    BY <1>1, <1>2, <2>1, <2>2, HandlerStep DEF TypedRest
<1>5. CASE ~(net.at \in exists /\ CanRemove(net.at))
  <2>1. UNCHANGED <<exists, bound>> /\ fault' \in {fault, "request"}
    BY <1>5 DEF HandleRemove, remove_context, Fault
  <2>2. UNCHANGED <<heap, linked>>
    BY <1>1, <2>1 DEF heap
  <2> QED
    BY <1>1, <1>2, <2>1, <2>2, HeapUnchanged, HandlerStep DEF TypedRest
<1> QED
  BY <1>4, <1>5

-----------------------------------------------------------------------------
(* The cleaning thread outside a sweep.                                    *)

LEMMA OutsideSteps ==
  ASSUME IInv, start \/ Wake \/ Unlock
  PROVE  IInv'
<1>1. /\ Running /\ UNCHANGED <<now, requests, net, reply, linked>>
      /\ UNCHANGED heap /\ UNCHANGED <<fault, swept, stopped>>
      /\ cleaner' \in {"asleep", "waiting", "ended"}
  BY DEF start, Wake, Unlock, CleanerStep
<1>2. TypedRest /\ TypedSweep /\ ReplyOK /\ FaultOK /\ NetOK
  BY Parts
<1>3. TypedHeap' /\ HeapOK' /\ Tree'
  BY <1>1, HeapUnchanged
<1>4. TypedRest'
  BY <1>1, <1>2 DEF TypedRest, start, Wake, Unlock
<1>5. TypedSweep'
  <2>1. CASE start \/ Wake
    <3>1. cleaner \in {"starting", "asleep"} /\ UNCHANGED sweep
      BY <2>1 DEF start, Wake, CleanerStep
    <3>2. doomed = <<>>
      BY <1>1, <1>2, <3>1 DEF TypedSweep
    <3> QED
      BY <1>1, <1>2, <3>1, <3>2 DEF TypedSweep, sweep
  <2>2. CASE Unlock
    <3>1. timeout' = 0 /\ checklist' = <<>> /\ current' = Root /\ doomed' = <<>>
      BY <2>2 DEF Unlock
    <3>2. <<>> \in Seq(Contexts) /\ 0 \in 0 .. MaxNow /\ Root \in Contexts
      BY CleaningAssumption
    <3> QED
      BY <1>1, <3>1, <3>2 DEF TypedSweep
  <2> QED
    BY <2>1, <2>2
<1>6. NetOK' /\ FaultOK'
  BY <1>1, <1>2 DEF NetOK, FaultOK, heap
<1>7. ReplyOK'
  BY <1>1, <1>2 DEF ReplyOK, heap
<1>8. SweepInv'
  BY <1>1 DEF SweepInv, Sweeping
<1> QED
  BY <1>3, <1>4, <1>5, <1>6, <1>7, <1>8, PartsNext

-----------------------------------------------------------------------------
(* A sweep begins: nothing is gone and only the root is to be visited.     *)

LEMMA LockStep ==
  ASSUME IInv, Lock
  PROVE  IInv'
<1>1. /\ Running /\ cleaner = "waiting"
      /\ UNCHANGED <<now, requests, net, reply, linked>>
      /\ UNCHANGED heap /\ UNCHANGED <<go, current, doomed, fault, swept, stopped>>
  BY DEF Lock, CleanerStep
<1>2. /\ cleaner' = IF domain THEN "visiting" ELSE "swept"
      /\ timeout' = IF domain THEN now - Timeout ELSE timeout
      /\ checklist' = IF domain THEN <<Root>> ELSE <<>>
      /\ before' = [exists |-> exists, bound |-> bound]
  BY DEF Lock, CleanerStep
<1>3. TypedRest /\ TypedSweep /\ ReplyOK /\ FaultOK /\ NetOK /\ TypedHeap /\ HeapOK
  BY Parts
<1>4. TypedHeap' /\ HeapOK' /\ Tree'
  BY <1>1, HeapUnchanged
<1>5. Root \in Contexts /\ Timeout \in Nat /\ MaxNow \in Nat
  BY CleaningAssumption
<1>6. doomed = <<>>
  BY <1>1, <1>3 DEF TypedSweep
<1>7. TypedSweep'
  <2>1. timeout' \in 0 .. MaxNow
    <3>1. now - Timeout \in 0 .. MaxNow
      BY <1>3, <1>5 DEF TypedRest
    <3> QED
      BY <1>2, <1>3, <3>1 DEF TypedSweep
  <2>2. checklist' \in Seq(Contexts)
    BY <1>2, <1>5
  <2>3. cleaner' \in Sweeping
    BY <1>2 DEF Sweeping
  <2> QED
    BY <1>1, <1>3, <1>6, <2>1, <2>2, <2>3 DEF TypedSweep
<1>8. SweepOK'
  <2>1. exists' = exists /\ bound' = bound /\ domain' = domain /\ beat' = beat /\ parent' = parent
    BY <1>1 DEF heap
  <2>2. before'.exists = exists /\ before'.bound = bound /\ Gone' = {}
    BY <1>2, <2>1 DEF Gone
  <2>3. Elements(<<Root>>) = {Root} /\ Elements(<<>>) = {}
    BY DEF Elements
  <2>4. SinceBefore'
    <3>1. exists \subseteq Contexts
      BY <1>3 DEF TypedHeap
    <3> QED
      BY <1>3, <2>1, <2>2, <3>1 DEF SinceBefore, HeapOK
  <2>5. Root \notin Expired'
    BY <1>3, <2>1 DEF Expired, expired, HeapOK
  <2>6. ListsOK'
    <3>1. Root \in Visited'
      BY <1>5 DEF Visited
    <3>2. domain => Root \in exists
      BY <1>3 DEF HeapOK
    <3>3. Elements(checklist)' \subseteq (exists' \cap Visited') \ Expired'
      BY <1>2, <2>1, <2>3, <2>5, <3>1, <3>2
    <3>4. doomed' = <<>> /\ Elements(doomed)' = {}
      BY <1>1, <1>6, <2>3
    <3> QED
      BY <1>2, <3>3, <3>4 DEF ListsOK
  <2>7. Covered'
    <3>1. domain => CoveredBy({})'
      BY <1>2, <2>3 DEF CoveredBy
    <3> QED
      BY <2>1, <3>1 DEF Covered
  <2>8. DoomedOK'
    <3>1. Above(Root)' \subseteq {Root}
      BY <2>1, AboveRoot DEF Above
    <3>2. domain => Root \in exists
      BY <1>3 DEF HeapOK
    <3>3. \A c \in Elements(checklist)' : c = Root /\ domain
      BY <1>2, <2>3
    <3>4. cleaner' # "removing"
      BY <1>2
    <3>5. \A c \in Elements(checklist)' : Above(c)' \subseteq exists' \ Expired'
      BY <2>1, <2>5, <3>1, <3>2, <3>3
    <3> QED
      BY <3>4, <3>5 DEF DoomedOK
  <2> QED
    BY <2>4, <2>6, <2>7, <2>8 DEF SweepOK
<1>9. TypedRest' /\ NetOK' /\ FaultOK'
  BY <1>1, <1>3 DEF TypedRest, NetOK, FaultOK, heap
<1>10. ReplyOK'
  BY <1>1, <1>3 DEF ReplyOK, heap
<1> QED
  BY <1>4, <1>7, <1>8, <1>9, <1>10, PartsNext DEF SweepInv

-----------------------------------------------------------------------------
(* The steps of a sweep.                                                   *)

\* What a sweep has to do is settled when it begins.
Settled == <<beat, parent, timeout, before>>

LEMMA SettledStays ==
  ASSUME UNCHANGED Settled
  PROVE  /\ Expired' = Expired /\ Visited' = Visited /\ Due' = Due
         /\ \A c : Under(c)' = Under(c) /\ Above(c)' = Above(c)
<1>1. Expired' = Expired /\ \A c : Under(c)' = Under(c)
  BY DEF Expired, expired, Under, Settled
<1>2. Visited' = Visited
  BY <1>1 DEF Visited
<1>3. Due' = Due
  BY <1>1, <1>2 DEF Due
<1>4. \A x : Above(x)' = Above(x)
  BY DEF Above, Settled
<1> QED
  BY <1>1, <1>2, <1>3, <1>4

LEMMA RootLives == IInv => Root \notin Expired
BY Parts DEF HeapOK, Expired, expired

\* What is bound in a context now was bound in it when the sweep began.
LEMMA ChildrenUnder ==
  ASSUME IInv, SweepOK, NEW c \in exists, NEW x \in Children(c)
  PROVE  x \in Under(c) /\ x \in exists
<1>1. TypedHeap /\ HeapOK /\ SinceBefore
  BY Parts DEF SweepOK
<1>2. PICK n \in Names : bound[c][n] = x /\ x # None
  BY DEF Children
<1>3. x \in exists /\ before.bound[c][n] = x
  BY <1>1, <1>2 DEF HeapOK, SinceBefore
<1>4. x \in Contexts
  BY <1>1, <1>3 DEF TypedHeap
<1> QED
  BY <1>2, <1>3, <1>4 DEF Under

\* And what was bound then is bound now or gone.
LEMMA UnderChildren ==
  ASSUME IInv, SweepOK, NEW c \in exists, NEW x \in Under(c)
  PROVE  /\ x \in exists => x \in Children(c)
         /\ x \notin exists => x \in Expired
<1>1. TypedHeap /\ SinceBefore
  BY Parts DEF SweepOK
<1>2. PICK n \in Names : before.bound[c][n] = x /\ x \in Contexts
  BY DEF Under
<1>3. x # None /\ c \in before.exists
  BY <1>1, <1>2, NoneApart DEF SinceBefore
<1>4. ASSUME x \in exists PROVE x \in Children(c)
  BY <1>1, <1>2, <1>3, <1>4 DEF SinceBefore, Gone, Children
<1>5. ASSUME x \notin exists PROVE x \in Expired
  <2>1. x \in Gone
    BY <1>1, <1>2, <1>3, <1>5 DEF SinceBefore, Gone
  <2> QED
    BY <1>1, <2>1 DEF SinceBefore, Due
<1> QED
  BY <1>4, <1>5

LEMMA VisitStep ==
  ASSUME IInv, Visit
  PROVE  IInv'
<1>1. /\ Running /\ cleaner = "visiting" /\ cleaner' = "removing"
      /\ UNCHANGED <<now, requests, net, reply, linked>>
      /\ UNCHANGED heap /\ UNCHANGED <<go, timeout, before, swept, stopped>>
  BY DEF Visit, CleanerStep
<1>2. /\ TypedRest /\ TypedSweep /\ ReplyOK /\ FaultOK /\ NetOK /\ TypedHeap /\ HeapOK /\ Tree
      /\ SweepOK
  BY <1>1, Parts DEF SweepInv, Sweeping
<1>3. TypedHeap' /\ HeapOK' /\ Tree'
  BY <1>1, HeapUnchanged
<1>4. checklist \in Seq(Contexts) /\ checklist # <<>> /\ doomed = <<>>
  BY <1>1, <1>2 DEF TypedSweep, SweepOK, ListsOK
<1>5. PICK c, rest : c = checklist[Len(checklist)] /\ rest = SubSeq(checklist, 1, Len(checklist) - 1)
  OBVIOUS
<1>6. /\ rest \in Seq(Contexts) /\ c \in Contexts
      /\ Elements(checklist) = {c} \cup Elements(rest)
  BY <1>4, <1>5, LastElements
<1>7. c \in exists /\ c \in Visited /\ c \notin Expired
  BY <1>2, <1>6 DEF SweepOK, ListsOK
<1>8. Children(c) \subseteq exists
  BY <1>2, <1>7, ChildrenUnder
<1>9. NetOK' /\ ReplyOK'
  BY <1>1, <1>2 DEF NetOK, ReplyOK, heap
<1>10. CASE \E x \in Children(c) : beat[x] = Bare
  <2>1. fault' = "bare" /\ UNCHANGED <<current, doomed, checklist>>
    BY <1>5, <1>7, <1>8, <1>10 DEF Visit, Fault
  <2>2. TypedRest' /\ TypedSweep' /\ FaultOK' /\ SweepInv'
    BY <1>1, <1>2, <2>1 DEF TypedRest, TypedSweep, FaultOK, SweepInv, Running, Sweeping
  <2> QED
    BY <1>3, <1>9, <2>2, PartsNext
<1>11. CASE ~\E x \in Children(c) : beat[x] = Bare
  <2>1. /\ current' = c /\ fault' = fault
        /\ doomed' = Selected(Row(c), Expired)
        /\ checklist' = Reversed(Selected(Row(c), Contexts \ Expired)) \o rest
    BY <1>5, <1>7, <1>8, <1>11 DEF Visit
  <2>2. UNCHANGED Settled /\ exists' = exists /\ bound' = bound /\ domain' = domain
    BY <1>1 DEF Settled, heap
  <2>3. /\ Expired' = Expired /\ Visited' = Visited /\ Due' = Due
        /\ \A d : Under(d)' = Under(d) /\ Above(d)' = Above(d)
    BY <2>2, SettledStays
  <2>4. PICK gone, next : gone = doomed' /\ next = checklist'
    OBVIOUS
  <2>5. TypeOK
    BY Parts
  <2>6. Expired \subseteq Contexts
    BY DEF Expired
  <2>7. /\ gone \in Seq(Contexts) /\ Elements(gone) = Children(c) \cap Expired
        /\ ~linked => NoneTwice(gone)
    <3>1. /\ gone \in Seq(Expired) /\ Elements(gone) = Children(c) \cap Expired
          /\ (\A n, m \in Names : bound[c][n] # None /\ bound[c][n] = bound[c][m] => n = m)
               => NoneTwice(gone)
      BY <1>6, <2>1, <2>4, <2>5, <2>6, RowSelected
    <3>2. gone \in Seq(Contexts)
      BY <2>6, <3>1
    <3> QED
      BY <1>2, <1>6, <3>1, <3>2 DEF Tree
  <2>8. next \in Seq(Contexts) /\ Elements(next) = (Children(c) \ Expired) \cup Elements(rest)
    <3>1. PICK s : s = Selected(Row(c), Contexts \ Expired)
      OBVIOUS
    <3>2. s \in Seq(Contexts \ Expired) /\ Elements(s) = Children(c) \cap (Contexts \ Expired)
      BY <1>6, <2>5, <3>1, RowSelected
    <3>3. s \in Seq(Contexts)
      BY <3>2
    <3>4. PICK r : r = Reversed(s)
      OBVIOUS
    <3>5. r \in Seq(Contexts) /\ Elements(r) = Elements(s)
      BY <3>3, <3>4, ReversedElements
    <3>6. r \o rest \in Seq(Contexts) /\ Elements(r \o rest) = Elements(r) \cup Elements(rest)
      BY <1>6, <3>5, ConcatElements
    <3>7. next = r \o rest
      BY <2>1, <2>4, <3>1, <3>4
    <3>8. Children(c) \subseteq Contexts
      BY <1>2, <1>8 DEF TypedHeap
    <3> QED
      BY <3>2, <3>5, <3>6, <3>7, <3>8
  <2>9. TypedSweep'
    BY <1>1, <1>2, <1>6, <2>1, <2>4, <2>7, <2>8 DEF TypedSweep, Sweeping
  <2>10. SinceBefore'
    BY <1>1, <1>2, <2>2, <2>3 DEF SweepOK, SinceBefore, Gone
  <2>11. ListsOK'
    <3>1. Elements(next) \subseteq (exists \cap Visited) \ Expired
      BY <1>2, <1>6, <1>7, <1>8, <2>8, ChildrenUnder, VisitedBelow DEF SweepOK, ListsOK
    <3>2. Elements(gone) \subseteq Due
      BY <1>2, <1>7, <2>7, ChildrenUnder DEF Due
    <3> QED
      BY <1>1, <2>2, <2>3, <2>4, <3>1, <3>2 DEF ListsOK
  <2>12. Covered'
    <3> SUFFICES ASSUME domain PROVE \E done \in SUBSET Contexts : CoveredBy(done)'
      BY <2>2 DEF Covered
    <3>1. PICK done \in SUBSET Contexts : CoveredBy(done)
      BY <1>2 DEF SweepOK, Covered
    <3> DEFINE more == done \cup {c}
    <3>2. Elements(checklist) \subseteq more \cup Elements(next)
      BY <1>6, <2>8
    <3>3. Root \in more \cup Elements(next)
      BY <3>1, <3>2 DEF CoveredBy
    <3>4. Elements(doomed) = {}
      BY <1>4 DEF Elements
    <3>5. \A d \in done : /\ Under(d) \cap Expired \cap exists \subseteq Elements(gone)
                          /\ Under(d) \ Expired \subseteq more \cup Elements(next)
      BY <3>1, <3>2, <3>4 DEF CoveredBy
    <3>6. /\ Under(c) \cap Expired \cap exists \subseteq Elements(gone)
          /\ Under(c) \ Expired \subseteq more \cup Elements(next)
      BY <1>2, <1>7, <2>7, <2>8, UnderChildren
    <3>7. CoveredBy(more)'
      BY <2>2, <2>3, <2>4, <3>3, <3>5, <3>6 DEF CoveredBy
    <3>8. more \in SUBSET Contexts
      BY <1>6
    <3> QED
      BY <3>7, <3>8
  <2>13. DoomedOK'
    <3> SUFFICES ASSUME ~linked
                 PROVE  /\ \A d \in Elements(next) : Above(d) \subseteq exists \ Expired
                        /\ Above(c) \subseteq exists \ Expired
                        /\ NoneTwice(gone)
                        /\ \A x \in Elements(gone) : x \in exists /\ parent[x] = c
      BY <1>1, <2>1, <2>2, <2>3, <2>4 DEF DoomedOK, Settled
    <3>1. \A d \in Elements(checklist) : Above(d) \subseteq exists \ Expired
      BY <1>2 DEF SweepOK, DoomedOK
    <3>2. \A x \in Children(c) : parent[x] = c /\ x \in exists /\ x \in Contexts
      BY <1>2, <1>6, <1>8 DEF Tree, Children, TypedHeap
    <3>3. \A x \in Children(c) : Above(x) \subseteq {x} \cup Above(c)
      BY <1>6, <3>2, AboveStep
    <3>4. Above(c) \subseteq exists \ Expired
      BY <1>6, <3>1
    <3>5. \A d \in Elements(next) : Above(d) \subseteq exists \ Expired
      BY <1>6, <2>8, <3>1, <3>2, <3>3, <3>4
    <3> QED
      BY <2>7, <3>2, <3>4, <3>5
  <2>14. TypedRest' /\ FaultOK'
    BY <1>1, <1>2, <2>1 DEF TypedRest, FaultOK
  <2> QED
    BY <1>3, <1>9, <2>9, <2>10, <2>11, <2>12, <2>13, <2>14, PartsNext DEF SweepInv, SweepOK
<1> QED
  BY <1>10, <1>11

\* While nothing was linked, a doomed context is there and can be removed.
LEMMA DoomedCanGo ==
  ASSUME IInv, SweepOK, cleaner = "removing", doomed # <<>>, ~linked
  PROVE  CanRemove(Head(doomed))
<1>1. TypedHeap /\ TypedSweep /\ HeapOK /\ Tree /\ DoomedOK
  BY Parts DEF SweepOK
<1>2. PICK x : x = Head(doomed)
  OBVIOUS
<1>3. x \in Contexts /\ x \in Elements(doomed)
  BY <1>1, <1>2, HeadElements DEF TypedSweep
<1>4. x \in exists /\ parent[x] = current /\ Above(current) \subseteq exists \ Expired
  BY <1>1, <1>3 DEF DoomedOK
<1>5. current \in Contexts
  BY <1>1 DEF TypedSweep
<1>6. Above(x) \subseteq exists
  BY <1>3, <1>4, <1>5, AboveStep
<1>7. current \in exists
  <2>1. current \in Above(current)
    BY <1>5 DEF Above
  <2> QED
    BY <1>4, <2>1
<1>8. current # x
  <2>1. x \in Expired
    BY <1>3 DEF SweepOK, ListsOK, Due
  <2>2. x \in Above(x)
    BY <1>3 DEF Above
  <2> QED
    BY <1>4, <2>1, <2>2
<1>9. \A c \in Contexts : Holds(c, x) => c \in exists \ {x}
  <2>1. x # None
    BY <1>3, NoneApart
  <2> QED
    BY <1>1, <1>4, <1>7, <1>8, <2>1 DEF Holds, Tree
<1> QED
  BY <1>2, <1>4, <1>6, <1>9 DEF CanRemove, HasFullName

LEMMA CleanStep ==
  ASSUME IInv, Clean
  PROVE  IInv'
<1>1. /\ Running /\ cleaner = "removing" /\ cleaner' = "removing" /\ doomed # <<>>
      /\ doomed' = Tail(doomed) /\ swept' = TRUE
      /\ UNCHANGED <<now, requests, net, reply, linked>>
      /\ UNCHANGED <<domain, unused, parent, beat, go, timeout, checklist, current, before, stopped>>
  BY DEF Clean, CleanerStep
<1>2. /\ TypedRest /\ TypedSweep /\ ReplyOK /\ FaultOK /\ NetOK /\ TypedHeap /\ HeapOK /\ Tree
      /\ SweepOK
  BY <1>1, Parts DEF SweepInv, Sweeping
<1>3. PICK x, rest : x = Head(doomed) /\ rest = Tail(doomed)
  OBVIOUS
<1>4. /\ rest \in Seq(Contexts) /\ x \in Contexts
      /\ Elements(doomed) = {x} \cup Elements(rest)
      /\ NoneTwice(doomed) => NoneTwice(rest) /\ x \notin Elements(rest)
  BY <1>1, <1>2, <1>3, HeadElements DEF TypedSweep
<1>5. x \in Due /\ x \in Expired /\ x # Root
  BY <1>2, <1>4, RootLives DEF SweepOK, ListsOK, Due
<1>6. remove_context(x, "sweep")
  BY <1>3 DEF Clean
<1>7. NetOK' /\ ReplyOK'
  BY <1>1, <1>2 DEF NetOK, ReplyOK
<1>8. TypedSweep'
  BY <1>1, <1>2, <1>3, <1>4 DEF TypedSweep, Sweeping
<1>9. CASE CanRemove(x)
  <2>1. exists' = exists \ {x} /\ bound' = Without(x) /\ fault' = fault
    BY <1>6, <1>9 DEF remove_context
  <2>2. TypedHeap' /\ HeapOK' /\ Tree'
    BY <1>1, <1>2, <1>4, <1>5, <2>1, Removal
  <2>3. UNCHANGED Settled
    BY <1>1 DEF Settled
  <2>4. /\ Expired' = Expired /\ Visited' = Visited /\ Due' = Due
        /\ \A d : Under(d)' = Under(d) /\ Above(d)' = Above(d)
    BY <2>3, SettledStays
  <2>5. x \in exists /\ x \in before.exists
    BY <1>2, <1>9 DEF CanRemove, SweepOK, SinceBefore
  <2>6. Gone' = Gone \cup {x}
    BY <1>1, <2>1, <2>5 DEF Gone
  <2>7. SinceBefore'
    <3>1. PICK B : B = bound'
      OBVIOUS
    <3>2. \A c \in Contexts, n \in Names :
            B[c][n] = IF c \in exists /\ bound[c][n] = x THEN None ELSE bound[c][n]
      BY <1>2, <1>4, <2>1, <3>1, WithoutIs
    <3>3. ASSUME NEW c \in exists', NEW n \in Names
          PROVE  B[c][n] = IF before.bound[c][n] \in Gone' THEN None ELSE before.bound[c][n]
      <4>1. c \in exists /\ c \in Contexts
        BY <1>2, <2>1 DEF TypedHeap
      <4>2. bound[c][n] = IF before.bound[c][n] \in Gone THEN None ELSE before.bound[c][n]
        BY <1>2, <4>1 DEF SweepOK, SinceBefore
      <4>3. B[c][n] = IF bound[c][n] = x THEN None ELSE bound[c][n]
        BY <3>2, <4>1
      <4>4. x # None
        BY <1>4, NoneApart
      <4> QED
        BY <2>6, <4>2, <4>3, <4>4
    <3>4. exists' \subseteq before.exists /\ Gone' \subseteq Due
      BY <1>2, <1>5, <2>1, <2>6 DEF SweepOK, SinceBefore
    <3> QED
      BY <1>1, <1>2, <2>4, <3>1, <3>3, <3>4 DEF SweepOK, SinceBefore
  <2>8. ListsOK'
    <3>1. Elements(checklist) \subseteq (exists' \cap Visited) \ Expired
      BY <1>2, <1>5, <2>1 DEF SweepOK, ListsOK
    <3>2. Elements(rest) \subseteq Due
      BY <1>2, <1>4 DEF SweepOK, ListsOK
    <3> QED
      BY <1>1, <1>3, <2>4, <3>1, <3>2 DEF ListsOK
  <2>9. Covered'
    <3> SUFFICES ASSUME domain PROVE \E done \in SUBSET Contexts : CoveredBy(done)'
      BY <1>1 DEF Covered
    <3>1. PICK done \in SUBSET Contexts : CoveredBy(done)
      BY <1>2 DEF SweepOK, Covered
    <3>2. \A d \in done : /\ Under(d) \cap Expired \cap exists' \subseteq Elements(rest)
                          /\ Under(d) \ Expired \subseteq done \cup Elements(checklist)
      BY <1>4, <2>1, <3>1 DEF CoveredBy
    <3>3. CoveredBy(done)'
      BY <1>1, <1>3, <2>4, <3>1, <3>2 DEF CoveredBy
    <3> QED
      BY <3>3
  <2>10. DoomedOK'
    <3> SUFFICES ASSUME ~linked
                 PROVE  /\ \A d \in Elements(checklist) : Above(d) \subseteq exists' \ Expired
                        /\ Above(current) \subseteq exists' \ Expired
                        /\ NoneTwice(rest)
                        /\ \A y \in Elements(rest) : y \in exists' /\ parent[y] = current
      BY <1>1, <1>3, <2>4 DEF DoomedOK
    <3>1. DoomedOK
      BY <1>2 DEF SweepOK
    <3> QED
      BY <1>1, <1>4, <1>5, <2>1, <3>1 DEF DoomedOK
  <2>11. TypedRest' /\ FaultOK'
    BY <1>1, <1>2, <2>1 DEF TypedRest, FaultOK, Running
  <2> QED
    BY <1>7, <1>8, <2>2, <2>7, <2>8, <2>9, <2>10, <2>11, PartsNext DEF SweepInv, SweepOK
<1>10. CASE ~CanRemove(x)
  <2>1. UNCHANGED <<exists, bound>> /\ fault' = "sweep"
    BY <1>6, <1>10 DEF remove_context, Fault
  <2>2. linked
    BY <1>1, <1>2, <1>3, <1>10, DoomedCanGo
  <2>3. UNCHANGED <<heap, linked>>
    BY <1>1, <2>1 DEF heap
  <2>4. TypedRest' /\ FaultOK' /\ SweepInv'
    BY <1>1, <1>2, <2>1, <2>2 DEF TypedRest, FaultOK, SweepInv, Running
  <2> QED
    BY <1>7, <1>8, <2>3, <2>4, HeapUnchanged, PartsNext
<1> QED
  BY <1>9, <1>10

LEMMA OnwardStep ==
  ASSUME IInv, Onward
  PROVE  IInv'
<1>1. /\ Running /\ cleaner = "removing" /\ doomed = <<>>
      /\ cleaner' = IF checklist # <<>> THEN "visiting" ELSE "swept"
      /\ UNCHANGED <<now, requests, net, reply, linked>>
      /\ UNCHANGED heap /\ UNCHANGED sweep /\ UNCHANGED <<go, fault, swept, stopped>>
  BY DEF Onward, CleanerStep
<1>2. TypedRest /\ TypedSweep /\ ReplyOK /\ FaultOK /\ NetOK /\ SweepOK
  BY <1>1, Parts DEF SweepInv, Sweeping
<1>3. TypedHeap' /\ HeapOK' /\ Tree'
  BY <1>1, HeapUnchanged
<1>4. TypedRest' /\ NetOK' /\ FaultOK'
  BY <1>1, <1>2 DEF TypedRest, NetOK, FaultOK, heap
<1>5. TypedSweep' /\ ReplyOK'
  BY <1>1, <1>2 DEF TypedSweep, ReplyOK, Sweeping, sweep, heap
<1>6. UNCHANGED Settled
  BY <1>1 DEF Settled, heap, sweep
<1>7. /\ Expired' = Expired /\ Visited' = Visited /\ Due' = Due
      /\ \A d : Under(d)' = Under(d) /\ Above(d)' = Above(d)
  BY <1>6, SettledStays
<1>8. SinceBefore'
  BY <1>1, <1>2, <1>7 DEF SweepOK, SinceBefore, Gone, heap, sweep
<1>9. ListsOK'
  BY <1>1, <1>2, <1>7 DEF SweepOK, ListsOK, heap, sweep
<1>10. Covered'
  <2>1. \A done : CoveredBy(done)' = CoveredBy(done)
    BY <1>1, <1>7 DEF CoveredBy, heap, sweep
  <2> QED
    BY <1>1, <1>2, <2>1 DEF SweepOK, Covered, heap
<1>11. DoomedOK'
  BY <1>1, <1>2, <1>7 DEF SweepOK, DoomedOK, heap, sweep
<1> QED
  BY <1>3, <1>4, <1>5, <1>8, <1>9, <1>10, <1>11, PartsNext DEF SweepInv, SweepOK

-----------------------------------------------------------------------------
(* The theorems.                                                           *)

LEMMA Stutter ==
  ASSUME IInv, UNCHANGED vars
  PROVE  IInv'
<1>1. /\ UNCHANGED <<heap, sweep, cleaner, linked>>
      /\ UNCHANGED <<now, requests, net, reply, go, fault, swept, stopped>>
  BY DEF vars
<1>2. TypedRest /\ ReplyOK /\ FaultOK /\ NetOK /\ TypedSweep /\ SweepInv
  BY Parts
<1>3. TypedHeap' /\ HeapOK' /\ Tree'
  BY <1>1, HeapUnchanged
<1>4. TypedRest' /\ ReplyOK' /\ FaultOK' /\ NetOK'
  BY <1>1, <1>2 DEF TypedRest, ReplyOK, FaultOK, NetOK, heap
<1>5. TypedSweep'
  BY <1>1, <1>2 DEF TypedSweep, Running, sweep
<1>6. SweepInv'
  BY <1>1, <1>2, SweepUnchanged DEF SweepInv, Running
<1> QED
  BY <1>3, <1>4, <1>5, <1>6, PartsNext

\* The invariant of the guard and the sweep holds in every state, for every
\* set of contexts and names, every timeout and every order of the two
\* threads (CleaningThread.cc:94-147, EngineGuard.cc).
THEOREM Invariance == Spec => []IInv
<1>1. IInv /\ [Next]_vars => IInv'
  <2> SUFFICES ASSUME IInv, [Next]_vars PROVE IInv'
    OBVIOUS
  <2>1. CASE \E r \in Requests : Request(r)
    BY <2>1, RequestStep
  <2>2. CASE Handle
    BY <2>2, CreateStep, LinkStep, UnbindStep, RemoveStep, BeatStep, ListStep, RemoveDomainStep
       DEF Handle
  <2>3. CASE Encode
    BY <2>3, EncodeStep
  <2>4. CASE start \/ Wake
    BY <2>4, OutsideSteps
  <2>5. CASE stop \/ Tick
    BY <2>5, TimeSteps
  <2>6. CASE Lock
    BY <2>6, LockStep
  <2>7. CASE Cleanup
    BY <2>7, VisitStep, CleanStep, OnwardStep, OutsideSteps DEF Cleanup
  <2>8. CASE UNCHANGED vars
    BY <2>8, Stutter
  <2> QED
    BY <2>1, <2>2, <2>3, <2>4, <2>5, <2>6, <2>7, <2>8 DEF Next
<1> QED
  BY InitOK, <1>1, PTL DEF Spec

\* The variables have their types, nothing is doomed but while a sweep
\* removes, and a reply is under way only while it is encoded.
THEOREM TypesHold == Spec => []TypeOK
<1>1. IInv => TypeOK
  BY Parts
<1> QED
  BY <1>1, Invariance, PTL

\* At the end of a sweep all that was visited is done: nothing due is left.
LEMMA NothingDueIsLeft ==
  ASSUME IInv, SweepOK, cleaner = "swept"
  PROVE  exists = before.exists \ Due
<1>1. TypedHeap /\ HeapOK /\ SinceBefore /\ ListsOK /\ Covered
  BY Parts DEF SweepOK
<1>2. CASE domain
  <2>1. PICK done \in SUBSET Contexts : CoveredBy(done)
    BY <1>1, <1>2 DEF Covered
  <2>2. Elements(checklist) = {} /\ Elements(doomed) = {}
    BY <1>1 DEF ListsOK, Elements
  <2>3. Root \in done /\ \A c \in done : Under(c) \ Expired \subseteq done
    BY <2>1, <2>2 DEF CoveredBy
  <2>4. Visited \subseteq done
    BY <2>3, VisitedLeast
  <2>5. Due \cap exists = {}
    BY <2>1, <2>2, <2>4 DEF Due, CoveredBy
  <2> QED
    BY <1>1, <2>5 DEF SinceBefore, Gone
<1>3. CASE ~domain
  BY <1>1, <1>3 DEF SinceBefore
<1> QED
  BY <1>2, <1>3

\* However the handlers and the sweep interleave, a sweep that ends has
\* removed exactly the contexts that had expired when it took the guard and
\* that it gets to, and all their names; it follows a pointer to a removed
\* context only if contexts were linked (CleaningThread.cc:127-150); and a
\* reply points to names that are gone only if a sweep came between its
\* handler and the encoding (pdsd_handlers.cc:1085).
THEOREM SweepsAreExact == Spec => []SweepIsExact
<1>1. IInv => SweepIsExact
  <2> SUFFICES ASSUME IInv PROVE SweepIsExact
    OBVIOUS
  <2>1. FaultOK
    BY Parts
  <2>2. ASSUME cleaner = "swept", Running
        PROVE  /\ exists = before.exists \ Due
               /\ \A c \in exists, n \in Names :
                    bound[c][n] = IF before.bound[c][n] \in Due THEN None ELSE before.bound[c][n]
    <3>1. SweepOK
      BY <2>2, Parts DEF SweepInv, Sweeping
    <3>2. exists = before.exists \ Due
      BY <2>2, <3>1, NothingDueIsLeft
    <3>3. SinceBefore
      BY <3>1 DEF SweepOK
    <3>4. None \notin Due
      BY NoneApart DEF Due, Expired
    <3>5. \A c \in exists, n \in Names : before.bound[c][n] \in Due <=> before.bound[c][n] \in Gone
      BY <3>2, <3>3, <3>4 DEF SinceBefore, Gone
    <3> QED
      BY <3>2, <3>3, <3>5 DEF SinceBefore
  <2> QED
    BY <2>1, <2>2 DEF SweepIsExact, FaultOK
<1> QED
  BY <1>1, Invariance, PTL

-----------------------------------------------------------------------------
(* A sweep as one step.                                                    *)

\* Names as clients find them: those of contexts that are gone are nothing.
Shown(E, B) == [c \in Contexts |-> [n \in Names |-> IF c \notin E THEN None ELSE B[c][n]]]

\* A request to note a heartbeat has a time that is not to come.
BeatPast == net.op = "beat" => net.data \in {Bare, Empty} \cup 0 .. now

LEMMA LeftAtRest ==
  ASSUME cleaner \notin Sweeping
  PROVE  Left = exists /\ NamesLeft = Shown(exists, bound)
<1>1. Lost = {} /\ Left = exists
  BY DEF Lost, Left, Midway
<1> QED
  BY <1>1 DEF NamesLeft, Midway, Shown

LEMMA LeftAtRestNext ==
  ASSUME cleaner' \notin Sweeping
  PROVE  Left' = exists' /\ NamesLeft' = Shown(exists', bound')
<1>1. Lost' = {} /\ Left' = exists'
  BY DEF Lost, Left, Midway
<1> QED
  BY <1>1 DEF NamesLeft, Midway, Shown

\* Giving or freeing a name in a context that exists shows as just that.
IsWith(D, B, c, n, v) == D = [B EXCEPT ![c][n] = v]

LEMMA ShownSet ==
  ASSUME NEW E, NEW B \in [Contexts -> [Names -> Contexts \cup {None}]],
         NEW c \in E, NEW n \in Names, NEW v, E \subseteq Contexts,
         NEW D, IsWith(D, B, c, n, v)
  PROVE  IsWith(Shown(E, D), Shown(E, B), c, n, v)
<1>2. \A d \in Contexts, m \in Names : D[d][m] = IF d = c /\ m = n THEN v ELSE B[d][m]
  BY DEF IsWith
<1>3. PICK F, G : F = Shown(E, B) /\ G = [F EXCEPT ![c][n] = v]
  OBVIOUS
<1>4. /\ F = [d \in Contexts |-> F[d]]
      /\ \A d \in Contexts : F[d] = [m \in Names |-> IF d \notin E THEN None ELSE B[d][m]]
  BY <1>3 DEF Shown
<1>5. G = [d \in Contexts |-> G[d]] /\ \A d \in Contexts : d # c => G[d] = F[d]
  BY <1>3, <1>4
<1>6. G[c] = [F[c] EXCEPT ![n] = v]
  BY <1>3, <1>4
<1>7. ASSUME NEW d \in Contexts
      PROVE  G[d] = [m \in Names |-> IF d \notin E THEN None ELSE D[d][m]]
  <2>1. CASE d = c
    <3>1. F[c] = [m \in Names |-> B[c][m]]
      BY <1>4
    <3>2. G[c] = [m \in Names |-> IF m = n THEN v ELSE B[c][m]]
      BY <1>6, <3>1
    <3>3. \A m \in Names : D[c][m] = IF m = n THEN v ELSE B[c][m]
      BY <1>2
    <3> QED
      BY <2>1, <3>2, <3>3
  <2>2. CASE d # c
    BY <1>2, <1>4, <1>5, <2>2
  <2> QED
    BY <2>1, <2>2
<1>8. G = [d \in Contexts |-> [m \in Names |-> IF d \notin E THEN None ELSE D[d][m]]]
  BY <1>5, <1>7
<1> QED
  BY <1>3, <1>8 DEF Shown, IsWith

\* A handler's step shows what it does, if there is no sweep.
LEMMA HandlingShown ==
  ASSUME NEW op, Handling(op)
  PROVE  /\ Left = exists /\ Left' = exists' /\ now' = now
         /\ NamesLeft = Shown(exists, bound) /\ NamesLeft' = Shown(exists', bound')
BY LeftAtRest, LeftAtRestNext DEF Handling, Free

LEMMA EntersIsMake ==
  ASSUME TypedHeap, NEW p \in exists, NEW n \in Names, NEW x \in unused,
         NEW row \in [Names -> exists \cup {None}], Enters(p, n, x, row), bound[p][n] = None,
         Left = exists, Left' = exists', UNCHANGED <<beat, now>>,
         NamesLeft = Shown(exists, bound), NamesLeft' = Shown(exists', bound')
  PROVE  Atomic!Make(p, n, x, row)
<1>1. PICK A, B : A = [bound EXCEPT ![p][n] = x] /\ B = bound'
  OBVIOUS
<1>2. /\ x \in Contexts /\ x \notin exists /\ x # p /\ x # None /\ p \in Contexts
      /\ B \in [Contexts -> [Names -> Contexts \cup {None}]]
      /\ \A c \in Contexts, m \in Names :
           B[c][m] = IF c = x THEN row[m] ELSE IF c = p /\ m = n THEN x ELSE bound[c][m]
  BY <1>1, EntersBound DEF TypedHeap
<1>3. \A c \in Contexts, m \in Names : A[c][m] = IF c = p /\ m = n THEN x ELSE bound[c][m]
  BY <1>1, <1>2 DEF TypedHeap
<1>4. PICK F, G : F = Shown(exists, bound) /\ G = [F EXCEPT ![p][n] = x]
  OBVIOUS
<1>5. G = Shown(exists, A)
  <2>1. IsWith(A, bound, p, n, x)
    BY <1>1 DEF IsWith
  <2>2. IsWith(Shown(exists, A), F, p, n, x)
    BY <1>4, <2>1, ShownSet DEF TypedHeap
  <2> QED
    BY <1>4, <2>2 DEF IsWith
<1>6. ASSUME NEW c \in Contexts
      PROVE  [m \in Names |-> IF c \notin exists \cup {x} THEN None ELSE B[c][m]]
               = IF c = x THEN row ELSE G[c]
  <2>1. G[c] = [m \in Names |-> IF c \notin exists THEN None ELSE A[c][m]]
    BY <1>5 DEF Shown
  <2>2. CASE c = x
    <3>1. row = [m \in Names |-> row[m]]
      OBVIOUS
    <3> QED
      BY <1>2, <2>2, <3>1
  <2>3. CASE c # x
    BY <1>2, <1>3, <2>1, <2>3
  <2> QED
    BY <2>2, <2>3
<1>7. Shown(exists \cup {x}, B) = [G EXCEPT ![x] = row]
  <2>1. G = [c \in Contexts |-> G[c]]
    BY <1>5 DEF Shown
  <2>2. [G EXCEPT ![x] = row] = [c \in Contexts |-> IF c = x THEN row ELSE G[c]]
    BY <2>1
  <2> QED
    BY <1>6, <2>2 DEF Shown
<1>8. F[p][n] = None
  BY <1>2, <1>4 DEF Shown
<1>9. [F EXCEPT ![p][n] = x, ![x] = row] = [G EXCEPT ![x] = row]
  BY <1>4
<1> QED
  BY <1>1, <1>4, <1>7, <1>8, <1>9 DEF Enters, Atomic!Make

LEMMA CreateIsMake ==
  ASSUME IInv, HandleCreate
  PROVE  [Atomic!Next]_(Atomic!vars)
<1>1. Handling("create") /\ beat' = beat
  BY DEF HandleCreate
<1>2. /\ Left = exists /\ Left' = exists' /\ now' = now
      /\ NamesLeft = Shown(exists, bound) /\ NamesLeft' = Shown(exists', bound')
  BY <1>1, HandlingShown
<1>3. TypedHeap /\ NetOK
  BY Parts
<1>4. PICK p, n : p = Base(net.at) /\ n = net.name
  OBVIOUS
<1>5. p \in exists /\ n \in Names
  BY <1>1, <1>3, <1>4, BaseExists DEF NetOK, RequestTyped, Handling
<1>6. CASE bound[p][n] = None /\ \E x \in unused : Enters(p, n, x, NoRow)
  <2>1. PICK x \in unused : Enters(p, n, x, NoRow)
    BY <1>6
  <2>2. Atomic!Make(p, n, x, NoRow)
    BY <1>1, <1>2, <1>3, <1>5, <1>6, <2>1, EntersIsMake, RowTyped
  <2>3. Atomic!NoRow = NoRow
    BY DEF NoRow, Atomic!NoRow
  <2> QED
    BY <1>2, <1>5, <2>2, <2>3 DEF Atomic!Next
<1>7. CASE UNCHANGED <<unused, exists, bound>>
  BY <1>1, <1>2, <1>7 DEF Atomic!vars
<1> QED
  <2>1. bound[p][n] = None => NewContext(p, n, NoRow)
    BY <1>4 DEF HandleCreate
  <2>2. bound[p][n] # None => UNCHANGED <<unused, exists, bound>>
    BY <1>4 DEF HandleCreate
  <2> QED
    BY <1>6, <1>7, <2>1, <2>2, NewContextIs

LEMMA LinkIsLink ==
  ASSUME IInv, HandleLink
  PROVE  [Atomic!Next]_(Atomic!vars)
<1>1. Handling("bind") /\ beat' = beat
  BY DEF HandleLink
<1>2. /\ Left = exists /\ Left' = exists' /\ now' = now
      /\ NamesLeft = Shown(exists, bound) /\ NamesLeft' = Shown(exists', bound')
  BY <1>1, HandlingShown
<1>3. TypedHeap /\ HeapOK /\ NetOK /\ Root \in exists
  BY <1>1, Parts, BaseExists
<1>4. PICK p, k, n, x : /\ p = bound[Root][k] /\ k = net.under
                        /\ n = net.name /\ x = net.at
  OBVIOUS
<1>5. k \in Names /\ n \in Names /\ p \in exists \cup {None} /\ x # Root
  BY <1>1, <1>3, <1>4 DEF NetOK, RequestTyped, HeapOK, Handling
<1>6. PICK row : row = [NoRow EXCEPT ![n] = x]
  OBVIOUS
<1>7. CASE UNCHANGED <<unused, exists, bound>>
  BY <1>1, <1>2, <1>7 DEF Atomic!vars
<1>8. CASE x \in exists /\ p = None
  <2>1. NewContext(Root, k, row)
    BY <1>4, <1>6, <1>8 DEF HandleLink
  <2>2. ASSUME NEW y \in unused, Enters(Root, k, y, row)
        PROVE  Atomic!Next
    <3>1. row \in [Names -> exists \cup {None}]
      BY <1>5, <1>6, <1>8, RowTyped
    <3>2. Atomic!Make(Root, k, y, row)
      BY <1>1, <1>2, <1>3, <1>4, <1>5, <1>8, <2>2, <3>1, EntersIsMake
    <3>3. Atomic!NoRow = NoRow
      BY DEF NoRow, Atomic!NoRow
    <3>4. Atomic!Make(Root, k, y, [Atomic!NoRow EXCEPT ![n] = x])
      BY <1>6, <3>2, <3>3
    <3>5. \E z \in unused, w \in Left \ {Root}, m \in Names :
            Root = Root /\ Atomic!Make(Root, k, z, [Atomic!NoRow EXCEPT ![m] = w])
      BY <1>2, <1>5, <1>8, <3>4
    <3> QED
      BY <1>2, <1>3, <1>5, <3>5 DEF Atomic!Next
  <2> QED
    BY <1>7, <2>1, <2>2, NewContextIs
<1>9. CASE x \in exists /\ p # None
  <2>1. UNCHANGED <<unused, exists>>
    BY <1>4, <1>9 DEF HandleLink
  <2>2. CASE bound[p][n] = None
    <3>1. bound' = [bound EXCEPT ![p][n] = x]
      BY <1>4, <1>9, <2>2 DEF HandleLink
    <3>2. p \in exists /\ p \in Contexts
      BY <1>3, <1>5, <1>9 DEF TypedHeap
    <3>3. Shown(exists, bound)[p][n] = None
      BY <1>5, <2>2, <3>2 DEF Shown
    <3>4. Shown(exists, bound') = [Shown(exists, bound) EXCEPT ![p][n] = x]
      <4>1. PICK B : B = bound'
        OBVIOUS
      <4>2. IsWith(B, bound, p, n, x)
        BY <3>1, <4>1 DEF IsWith
      <4>3. IsWith(Shown(exists, B), Shown(exists, bound), p, n, x)
        BY <1>3, <1>5, <3>2, <4>2, ShownSet DEF TypedHeap
      <4> QED
        BY <4>1, <4>3 DEF IsWith
    <3>5. Atomic!Link(p, n, x)
      BY <1>1, <1>2, <2>1, <3>3, <3>4 DEF Atomic!Link
    <3> QED
      BY <1>2, <1>5, <1>9, <3>2, <3>5 DEF Atomic!Next
  <2>3. CASE bound[p][n] # None
    <3>1. bound' = bound
      BY <1>4, <1>9, <2>3 DEF HandleLink
    <3> QED
      BY <1>7, <2>1, <3>1
  <2> QED
    BY <2>2, <2>3
<1>10. CASE x \notin exists
  BY <1>4, <1>7, <1>10 DEF HandleLink
<1> QED
  BY <1>8, <1>9, <1>10

LEMMA UnbindIsUnlink ==
  ASSUME IInv, HandleUnbind
  PROVE  [Atomic!Next]_(Atomic!vars)
<1>1. Handling("unbind") /\ UNCHANGED <<exists, unused, beat>>
  BY DEF HandleUnbind, Kept
<1>2. /\ Left = exists /\ Left' = exists' /\ now' = now
      /\ NamesLeft = Shown(exists, bound) /\ NamesLeft' = Shown(exists', bound')
  BY <1>1, HandlingShown
<1>3. TypedHeap /\ NetOK
  BY Parts
<1>4. PICK p, n : p = Base(net.at) /\ n = net.name
  OBVIOUS
<1>5. p \in exists /\ n \in Names
  BY <1>1, <1>3, <1>4, BaseExists DEF NetOK, RequestTyped, Handling
<1>6. bound' = [bound EXCEPT ![p][n] = None]
  BY <1>4 DEF HandleUnbind
<1>7. Shown(exists, bound') = [Shown(exists, bound) EXCEPT ![p][n] = None]
  <2>1. PICK B : B = bound'
    OBVIOUS
  <2>2. IsWith(B, bound, p, n, None)
    BY <1>6, <2>1 DEF IsWith
  <2>3. IsWith(Shown(exists, B), Shown(exists, bound), p, n, None)
    BY <1>3, <1>5, <2>2, ShownSet DEF TypedHeap
  <2> QED
    BY <2>1, <2>3 DEF IsWith
<1>8. Atomic!Unlink(p, n)
  BY <1>1, <1>2, <1>7 DEF Atomic!Unlink
<1> QED
  BY <1>2, <1>5, <1>8 DEF Atomic!Next

LEMMA RemoveIsRemove ==
  ASSUME IInv, HandleRemove
  PROVE  [Atomic!Next]_(Atomic!vars)
<1>1. Handling("remove") /\ UNCHANGED <<unused, beat>>
  BY DEF HandleRemove, Kept
<1>2. /\ Left = exists /\ Left' = exists' /\ now' = now
      /\ NamesLeft = Shown(exists, bound) /\ NamesLeft' = Shown(exists', bound')
  BY <1>1, HandlingShown
<1>3. TypedHeap /\ RequestTyped(net)
  BY Parts DEF NetOK
<1>4. PICK x : x = net.at
  OBVIOUS
<1>5. x \in Contexts \ {Root}
  BY <1>1, <1>3, <1>4 DEF Handling, RequestTyped
<1>6. CASE x \in exists /\ CanRemove(x)
  <2>1. exists' = exists \ {x} /\ bound' = Without(x)
    BY <1>4, <1>6 DEF HandleRemove, remove_context
  <2>2. PICK B : B = bound'
    OBVIOUS
  <2>3. \A c \in Contexts, n \in Names :
          B[c][n] = IF c \in exists /\ bound[c][n] = x THEN None ELSE bound[c][n]
    BY <1>3, <1>5, <2>1, <2>2, WithoutIs
  <2>4. PICK F : F = Shown(exists, bound)
    OBVIOUS
  <2>5. \A c \in Contexts, n \in Names : F[c][n] = IF c \notin exists THEN None ELSE bound[c][n]
    BY <2>4 DEF Shown
  <2>6. x # None
    BY <1>5, NoneApart
  <2>7. ASSUME NEW c \in Contexts, NEW n \in Names
        PROVE  (IF c \notin exists \ {x} THEN None ELSE B[c][n])
                 = IF c \in {x} \/ F[c][n] \in {x} THEN None ELSE F[c][n]
    BY <2>3, <2>5, <2>6
  <2>8. Shown(exists \ {x}, B)
          = [c \in Contexts |-> [n \in Names |->
               IF c \in {x} \/ F[c][n] \in {x} THEN None ELSE F[c][n]]]
    BY <2>7 DEF Shown
  <2>9. Atomic!Remove(x)
    BY <1>1, <1>2, <2>1, <2>2, <2>4, <2>8 DEF Atomic!Remove, Atomic!Go
  <2> QED
    BY <1>2, <1>5, <1>6, <2>9 DEF Atomic!Next
<1>7. CASE ~(x \in exists /\ CanRemove(x))
  <2>1. UNCHANGED <<exists, bound>>
    BY <1>4, <1>7 DEF HandleRemove, remove_context
  <2> QED
    BY <1>1, <1>2, <2>1 DEF Atomic!vars
<1> QED
  BY <1>6, <1>7

LEMMA BeatIsBeat ==
  ASSUME IInv, BeatPast, HandleBeat
  PROVE  [Atomic!Next]_(Atomic!vars)
<1>1. Handling("beat") /\ UNCHANGED <<exists, bound, unused>>
  BY DEF HandleBeat
<1>2. /\ Left = exists /\ Left' = exists' /\ now' = now
      /\ NamesLeft = Shown(exists, bound) /\ NamesLeft' = Shown(exists', bound')
  BY <1>1, HandlingShown
<1>3. RequestTyped(net)
  BY Parts DEF NetOK
<1>4. PICK x, d : x = net.at /\ d = net.data
  OBVIOUS
<1>5. x \in Contexts \ {Root} /\ d \in {Bare, Empty} \cup 0 .. now
  BY <1>1, <1>3, <1>4 DEF Handling, RequestTyped, BeatPast
<1>6. CASE x \in exists /\ (d = Bare => beat[x] = NoBeat)
  <2>1. beat' = [beat EXCEPT ![x] = d]
    BY <1>4, <1>6 DEF HandleBeat
  <2>2. Atomic!Beat(x, d)
    BY <1>1, <1>2, <1>6, <2>1 DEF Atomic!Beat
  <2> QED
    BY <1>2, <1>5, <1>6, <2>2 DEF Atomic!Next
<1>7. CASE ~(x \in exists /\ (d = Bare => beat[x] = NoBeat))
  <2>1. beat' = beat
    BY <1>4, <1>7 DEF HandleBeat
  <2> QED
    BY <1>1, <1>2, <2>1 DEF Atomic!vars
<1> QED
  BY <1>6, <1>7

LEMMA RemoveDomainIsClose ==
  ASSUME IInv, HandleRemoveDomain
  PROVE  [Atomic!Next]_(Atomic!vars)
<1>1. Handling("remove_domain") /\ exists' \in {{}, exists} /\ UNCHANGED <<unused, beat, bound>>
  BY DEF HandleRemoveDomain
<1>2. /\ Left = exists /\ Left' = exists' /\ now' = now
      /\ NamesLeft = Shown(exists, bound) /\ NamesLeft' = Shown(exists', bound')
  BY <1>1, HandlingShown
<1>3. exists \subseteq Contexts
  BY Parts DEF TypedHeap
<1>4. Shown({}, bound) = [c \in Contexts |-> [n \in Names |-> None]]
  BY DEF Shown
<1>5. \A F : [c \in Contexts |-> [n \in Names |->
                IF c \in Contexts \/ F[c][n] \in Contexts THEN None ELSE F[c][n]]]
               = [c \in Contexts |-> [n \in Names |-> None]]
  OBVIOUS
<1>6. CASE exists' = {}
  <2>1. Atomic!Close
    BY <1>1, <1>2, <1>3, <1>4, <1>5, <1>6 DEF Atomic!Close, Atomic!Go
  <2> QED
    BY <2>1 DEF Atomic!Next
<1>7. CASE exists' = exists
  BY <1>1, <1>2, <1>7 DEF Atomic!vars
<1> QED
  BY <1>1, <1>6, <1>7

\* What is left over from a sweep changes no more once it has begun.
LEMMA LeftStays ==
  ASSUME cleaner \in Sweeping, cleaner' \in Sweeping, UNCHANGED Settled
  PROVE  Left' = Left /\ NamesLeft' = NamesLeft
<1>1. Expired' = Expired /\ Due' = Due /\ before' = before
  BY SettledStays DEF Settled
<1>2. Lost' = Lost /\ Left' = Left
  BY <1>1 DEF Lost, Left, Midway
<1> QED
  BY <1>1, <1>2 DEF NamesLeft, Midway

\* Due is empty when nothing has expired.
LEMMA LostIsDue == cleaner \in Sweeping => Lost = Due
BY DEF Lost, Midway, Due

LEMMA LostIsDueNext == cleaner' \in Sweeping => Lost' = Due'
BY DEF Lost, Midway, Due

\* The steps of a sweep change nothing that shows.
LEMMA SweepingHides ==
  ASSUME Visit \/ Clean \/ Onward
  PROVE  UNCHANGED Atomic!vars
<1>1. /\ cleaner \in Sweeping /\ cleaner' \in Sweeping /\ UNCHANGED Settled
      /\ UNCHANGED <<unused, beat, now>>
  <2>1. CASE Visit
    BY <2>1 DEF Visit, CleanerStep, Sweeping, Settled, heap
  <2>2. CASE Clean
    BY <2>2 DEF Clean, CleanerStep, Sweeping, Settled
  <2>3. CASE Onward
    BY <2>3 DEF Onward, CleanerStep, Sweeping, Settled, heap, sweep
  <2> QED
    BY <2>1, <2>2, <2>3
<1> QED
  BY <1>1, LeftStays DEF Atomic!vars

\* Nor does what happens without the guard, but that time passes.
LEMMA OutsideHides ==
  ASSUME UNCHANGED <<heap, sweep>>,
         cleaner \in Sweeping <=> cleaner' \in Sweeping
  PROVE  UNCHANGED <<Left, unused, NamesLeft, beat>>
<1>1. UNCHANGED Settled /\ UNCHANGED <<exists, bound, unused, beat>>
  BY DEF Settled, heap, sweep
<1>2. CASE cleaner \in Sweeping
  BY <1>1, <1>2, LeftStays
<1>3. CASE cleaner \notin Sweeping
  BY <1>1, <1>3, LeftAtRest, LeftAtRestNext
<1> QED
  BY <1>1, <1>2, <1>3

LEMMA UnguardedHides ==
  ASSUME (\E r \in Requests : Request(r)) \/ Encode \/ HandleList \/ start \/ stop \/ Wake
         \/ UNCHANGED vars
  PROVE  UNCHANGED Atomic!vars
<1>1. UNCHANGED <<heap, sweep>> /\ UNCHANGED now
  BY DEF Request, Encode, HandleList, start, stop, Wake, CleanerStep, vars
<1>2. cleaner \in Sweeping <=> cleaner' \in Sweeping
  <2>1. CASE start \/ Wake
    BY <2>1 DEF start, Wake, CleanerStep, Sweeping
  <2>2. CASE ~(start \/ Wake)
    BY <2>2 DEF Request, Encode, HandleList, stop, vars
  <2> QED
    BY <2>1, <2>2
<1> QED
  BY <1>1, <1>2, OutsideHides DEF Atomic!vars

LEMMA TickIsTick ==
  ASSUME Tick
  PROVE  Atomic!Tick
<1>1. UNCHANGED <<heap, sweep>> /\ now' = now + 1 /\ cleaner' = cleaner
  BY DEF Tick
<1> QED
  BY <1>1, OutsideHides DEF Atomic!Tick

\* What a sweep that ends has left is what there is.
LEMMA UnlockHides ==
  ASSUME IInv, Unlock
  PROVE  UNCHANGED Atomic!vars
<1>1. /\ Running /\ cleaner = "swept" /\ cleaner' \in {"asleep", "ended"}
      /\ UNCHANGED heap /\ now' = now
  BY DEF Unlock, CleanerStep
<1>2. cleaner \in Sweeping /\ cleaner' \notin Sweeping
  BY <1>1 DEF Sweeping
<1>3. Left' = exists /\ NamesLeft' = Shown(exists, bound)
  BY <1>1, <1>2, LeftAtRestNext DEF heap
<1>4. TypedHeap /\ SweepOK
  BY <1>1, <1>2, Parts DEF SweepInv
<1>5. Lost = Due
  BY <1>2, LostIsDue
<1>6. exists = before.exists \ Due
  BY <1>1, <1>4, NothingDueIsLeft
<1>7. Left = exists
  BY <1>2, <1>5, <1>6 DEF Left, Midway
<1>8. ASSUME NEW c \in exists, NEW n \in Names
      PROVE  bound[c][n] = IF before.bound[c][n] \in Due THEN None ELSE before.bound[c][n]
  <2>1. SinceBefore
    BY <1>4 DEF SweepOK
  <2>2. None \notin Due
    BY NoneApart DEF Due, Expired
  <2>3. c \in before.exists
    BY <1>6
  <2>4. before.bound[c][n] \in before.exists \cup {None}
    BY <2>1, <2>3 DEF SinceBefore
  <2>5. before.bound[c][n] \in Due <=> before.bound[c][n] \in Gone
    BY <1>6, <2>1, <2>2, <2>4 DEF SinceBefore, Gone
  <2> QED
    BY <2>1, <2>5 DEF SinceBefore
<1>9. NamesLeft = Shown(exists, bound)
  BY <1>2, <1>5, <1>7, <1>8 DEF NamesLeft, Midway, Shown
<1> QED
  BY <1>1, <1>3, <1>7, <1>9 DEF Atomic!vars, heap

\* A sweep is to do, when it begins, what Sweep does at once: it gets to
\* what can be reached.
LEMMA DueIsReached ==
  ASSUME IInv, Lock, domain
  PROVE  Due' = Atomic!Expired \cap UNION {Atomic!Children(c) : c \in Atomic!Reached}
<1>1. /\ cleaner = "waiting" /\ beat' = beat /\ timeout' = now - Timeout
      /\ before' = [exists |-> exists, bound |-> bound]
  BY DEF Lock, CleanerStep, heap
<1>2. TypedHeap /\ HeapOK
  BY Parts
<1>3. Left = exists /\ NamesLeft = Shown(exists, bound)
  BY <1>1, LeftAtRest DEF Sweeping
<1>4. PICK X : X = Atomic!Expired
  OBVIOUS
<1>5. Expired' = X
  BY <1>1, <1>4 DEF Expired, expired, Atomic!Expired
<1> DEFINE U(c) == {x \in Contexts : \E n \in Names : bound[c][n] = x}
           K(c) == Atomic!Children(c)
<1>6. \A c : Under(c)' = U(c)
  BY <1>1 DEF Under
<1>7. \A c \in Contexts : K(c) \subseteq U(c)
  <2>1. \A c \in Contexts, n \in Names : NamesLeft[c][n] \in {None, bound[c][n]}
    BY <1>3 DEF Shown
  <2>2. \A c \in Contexts, n \in Names : bound[c][n] \in Contexts \cup {None}
    BY <1>2 DEF TypedHeap
  <2> QED
    BY <2>1, <2>2 DEF Atomic!Children
<1>8. \A c \in exists : U(c) \subseteq K(c) \cap exists
  <2>1. exists \subseteq Contexts
    BY <1>2 DEF TypedHeap
  <2>2. \A c \in exists, n \in Names : NamesLeft[c][n] = bound[c][n]
    BY <1>3, <2>1 DEF Shown
  <2>3. \A c \in exists, n \in Names : bound[c][n] \in exists \cup {None}
    BY <1>2 DEF HeapOK
  <2> QED
    BY <2>2, <2>3, NoneApart DEF Atomic!Children
<1>9. PICK V : V = Visited'
  OBVIOUS
<1>10. V = {x \in Contexts : \A S \in SUBSET Contexts :
                               Root \in S /\ (\A c \in S : U(c) \ X \subseteq S) => x \in S}
  BY <1>5, <1>6, <1>9 DEF Visited
<1>11. PICK R : R = Atomic!Reached
  OBVIOUS
<1>12. R = {x \in Contexts : \A S \in SUBSET Contexts :
                               Root \in S /\ (\A c \in S : K(c) \ X \subseteq S) => x \in S}
  BY <1>4, <1>11 DEF Atomic!Reached, Atomic!Closed
<1>13. Due' = X \cap UNION {U(c) : c \in V}
  BY <1>5, <1>6, <1>9 DEF Due
<1>14. Root \in Contexts /\ Root \in exists /\ exists \subseteq Contexts
  BY <1>2, CleaningAssumption DEF HeapOK, TypedHeap
<1>15. \A c \in Contexts : U(c) \subseteq Contexts
  OBVIOUS
<1> HIDE DEF U, K
<1>16. R \subseteq V
  <2>1. Root \in V /\ V \in SUBSET Contexts
    BY <1>10, <1>14
  <2>2. ASSUME NEW c \in V PROVE K(c) \ X \subseteq V
    <3>1. U(c) \ X \subseteq V
      BY <1>10, <1>15
    <3> QED
      BY <1>7, <1>10, <3>1
  <2> QED
    BY <1>12, <2>1, <2>2
<1>17. V \subseteq R \cap exists
  <2> DEFINE S == R \cap exists
  <2>1. Root \in S /\ S \in SUBSET Contexts
    BY <1>12, <1>14
  <2>2. ASSUME NEW c \in S PROVE U(c) \ X \subseteq S
    <3>1. c \in R /\ c \in exists
      OBVIOUS
    <3>2. (K(c) \cap Contexts) \ X \subseteq R
      BY <1>12, <3>1
    <3> QED
      BY <1>8, <1>14, <3>1, <3>2
  <2> HIDE DEF S
  <2>3. V \subseteq S
    BY <1>10, <2>1, <2>2
  <2> QED
    BY <2>3 DEF S
<1>18. UNION {U(c) : c \in V} = UNION {K(c) : c \in R}
  <2>1. \A c \in V : U(c) \subseteq K(c) /\ c \in R
    BY <1>8, <1>17
  <2>2. \A c \in R : K(c) \subseteq U(c) /\ c \in V
    BY <1>7, <1>12, <1>16
  <2> QED
    BY <2>1, <2>2
<1>19. X \cap UNION {K(c) : c \in R}
         = Atomic!Expired \cap UNION {Atomic!Children(c) : c \in Atomic!Reached}
  BY <1>4, <1>11 DEF K
<1> QED
  BY <1>13, <1>18, <1>19

LEMMA LockIsSweep ==
  ASSUME IInv, Lock
  PROVE  [Atomic!Next]_(Atomic!vars)
<1>1. /\ cleaner = "waiting" /\ cleaner' \in {"visiting", "swept"} /\ UNCHANGED heap /\ now' = now
      /\ before' = [exists |-> exists, bound |-> bound]
  BY DEF Lock, CleanerStep
<1>2. cleaner \notin Sweeping /\ cleaner' \in Sweeping
  BY <1>1 DEF Sweeping
<1>3. TypedHeap /\ HeapOK
  BY Parts
<1>4. Left = exists /\ NamesLeft = Shown(exists, bound)
  BY <1>2, LeftAtRest
<1>5. Lost' = Due'
  BY <1>2, LostIsDueNext
<1>6. PICK D : D = Due'
  OBVIOUS
<1>7. Left' = exists \ D
  BY <1>1, <1>2, <1>5, <1>6 DEF Left, Midway
<1>8. NamesLeft' = [c \in Contexts |-> [n \in Names |->
                      IF c \notin exists \ D \/ bound[c][n] \in D THEN None ELSE bound[c][n]]]
  BY <1>1, <1>2, <1>5, <1>6, <1>7 DEF NamesLeft, Midway
<1>9. PICK F : F = Shown(exists, bound)
  OBVIOUS
<1>10. \A c \in Contexts, n \in Names : F[c][n] = IF c \notin exists THEN None ELSE bound[c][n]
  BY <1>9 DEF Shown
<1>11. NamesLeft' = [c \in Contexts |-> [n \in Names |->
                       IF c \in D \/ F[c][n] \in D THEN None ELSE F[c][n]]]
  <2>1. ASSUME NEW c \in Contexts, NEW n \in Names
        PROVE  (IF c \notin exists \ D \/ bound[c][n] \in D THEN None ELSE bound[c][n])
                 = IF c \in D \/ F[c][n] \in D THEN None ELSE F[c][n]
    BY <1>10
  <2> QED
    BY <1>8, <2>1
<1>12. UNCHANGED <<unused, beat>>
  BY <1>1 DEF heap
<1>13. Atomic!Go(D)
  BY <1>1, <1>4, <1>7, <1>9, <1>11, <1>12 DEF Atomic!Go
<1>14. CASE domain
  <2>1. D = Atomic!Expired \cap UNION {Atomic!Children(c) : c \in Atomic!Reached}
    BY <1>6, <1>14, DueIsReached
  <2>2. CASE Atomic!Expired # {}
    BY <1>13, <2>1, <2>2 DEF Atomic!Sweep, Atomic!Next
  <2>3. CASE Atomic!Expired = {}
    <3>1. D = {}
      BY <2>1, <2>3
    <3>2. Left' = exists
      BY <1>7, <3>1
    <3>3. NamesLeft' = F
      BY <1>8, <1>9, <3>1 DEF Shown
    <3> QED
      BY <1>1, <1>4, <1>9, <1>12, <3>2, <3>3 DEF Atomic!vars
  <2> QED
    BY <2>2, <2>3
<1>15. CASE ~domain
  <2>1. exists = {}
    BY <1>3, <1>15 DEF HeapOK
  <2>2. NamesLeft' = F
    BY <1>8, <1>9, <2>1 DEF Shown
  <2>3. Left' = exists
    BY <1>7, <2>1
  <2> QED
    BY <1>1, <1>4, <1>9, <1>12, <2>2, <2>3 DEF Atomic!vars
<1> QED
  BY <1>14, <1>15

LEMMA InitShown == Init => Atomic!Init
<1> SUFFICES ASSUME Init PROVE Atomic!Init
  OBVIOUS
<1>1. cleaner \notin Sweeping
  BY DEF Init, Sweeping
<1>2. Left = exists /\ NamesLeft = Shown(exists, bound)
  BY <1>1, LeftAtRest
<1>3. Shown(exists, bound) = NoNames
  BY DEF Init, Shown, NoNames
<1> QED
  BY <1>2, <1>3 DEF Init, NoNames, Atomic!Init, Atomic!NoRow

LEMMA BeatPastStays == IInv /\ BeatPast /\ [Next]_vars => BeatPast'
<1> SUFFICES ASSUME IInv, BeatPast, [Next]_vars PROVE BeatPast'
  OBVIOUS
<1>1. now \in Nat
  BY Parts, CleaningAssumption DEF TypedRest
<1>2. CASE \E r \in Requests : Request(r)
  <2>1. PICK r \in Requests : net' = r /\ now' = now
    BY <1>2 DEF Request
  <2>2. r.op = "beat" => r.data \in {now, Empty, Bare}
    BY DEF Requests, Make, Link, Unbind, Remove, Beat, List, RemoveDomain
  <2> QED
    BY <1>1, <2>1, <2>2 DEF BeatPast
<1>3. CASE Handle \/ Encode
  <2>1. net' \in {Idle, [op |-> "reply"]}
    BY <1>3 DEF Handle, HandleCreate, HandleLink, HandleUnbind, HandleRemove, HandleBeat,
                HandleList, HandleRemoveDomain, Handling, Encode
  <2> QED
    BY <2>1 DEF BeatPast, Idle
<1>4. CASE start \/ stop \/ Wake \/ Lock \/ Cleanup \/ UNCHANGED vars
  <2>1. net' = net /\ now' = now
    BY <1>4 DEF start, stop, Wake, Lock, Cleanup, Visit, Clean, Onward, Unlock, CleanerStep, vars
  <2> QED
    BY <2>1 DEF BeatPast
<1>5. CASE Tick
  <2>1. net' = net /\ now' = now + 1
    BY <1>5 DEF Tick
  <2>2. 0 .. now \subseteq 0 .. now + 1
    BY <1>1
  <2> QED
    BY <2>1, <2>2 DEF BeatPast
<1> QED
  BY <1>2, <1>3, <1>4, <1>5 DEF Next

\* A sweep takes effect at the instant it gets the guard, though it takes
\* many steps between which time passes, clients ask and replies are
\* encoded: contexts, names and heartbeats are as if each sweep were one
\* step (CleaningThread.cc:97-147, EngineGuard.cc).
THEOREM SweepsAreAtomic == Spec => SweepIsAtomic
<1>1. Init => BeatPast
  BY DEF Init, BeatPast, Idle
<1>2. Spec => []BeatPast
  BY <1>1, BeatPastStays, Invariance, PTL DEF Spec
<1>3. IInv /\ BeatPast /\ [Next]_vars => [Atomic!Next]_(Atomic!vars)
  <2> SUFFICES ASSUME IInv, BeatPast, [Next]_vars PROVE [Atomic!Next]_(Atomic!vars)
    OBVIOUS
  <2>1. CASE Handle
    <3>1. CASE HandleList
      BY <3>1, UnguardedHides
    <3> QED
      BY <2>1, <3>1, RemoveDomainIsClose, CreateIsMake, LinkIsLink, UnbindIsUnlink, RemoveIsRemove, BeatIsBeat
         DEF Handle
  <2>2. CASE Lock
    BY <2>2, LockIsSweep
  <2>3. CASE Cleanup
    BY <2>3, SweepingHides, UnlockHides DEF Cleanup
  <2>4. CASE Tick
    BY <2>4, TickIsTick DEF Atomic!Next
  <2>5. CASE (\E r \in Requests : Request(r)) \/ Encode \/ start \/ stop \/ Wake \/ UNCHANGED vars
    BY <2>5, UnguardedHides
  <2> QED
    BY <2>1, <2>2, <2>3, <2>4, <2>5 DEF Next
<1>4. Spec => Atomic!Spec
  BY <1>2, <1>3, InitShown, Invariance, PTL DEF Spec, Atomic!Spec
<1> QED
  BY <1>4 DEF SweepIsAtomic
============================================================================
