------------------------ MODULE DomainRegistryProofs ------------------------
(***************************************************************************)
(* What holds of the registry for any number of servers, clients, keys and *)
(* runs: the list of domains and the map of objects agree, domains that    *)
(* are opened are shared, and ids are good as long as they come back to    *)
(* the run that made them.                                                 *)
(***************************************************************************)
EXTENDS DomainRegistry, FunctionTheorems, FiniteSetTheorems, WellFoundedInduction, TLAPS

\* Each domain takes two numbers, its own and its root's; all that are
\* taken are below the counter.
Spaced ==
  \A s \in Servers :
    /\ \A i, j \in DOMAIN domains[s] : i < j => domains[s][i].num + 2 <= domains[s][j].num
    /\ \A i \in DOMAIN domains[s] : domains[s][i].num + 2 <= counter[s]

MapInList ==
  \A s \in Servers, n \in Nums : objects[s][n] = "domain" => n \in ListedNums(s)

\* Ids are of this run of their server or of an earlier one.
RunsGrow == \A h \in issued : h.run <= run[h.id.server]

\* As long as no request strayed: numbers not given out have no entry, and
\* the ids of this run are of domains, or of nothing any more.
Unspoilt ==
  ~strayed =>
    /\ \A s \in Servers : \A n \in Nums : n >= counter[s] => objects[s][n] = "none"
    /\ \A h \in issued : h.run = run[h.id.server] =>
         h.id.num < counter[h.id.server] /\ objects[h.id.server][h.id.num] # "other"

IInv == /\ TypeOK /\ Spaced /\ MapInList /\ RunsGrow /\ Unspoilt
        /\ IdsGoodAtHome /\ OpenShares

---------------------------------------------------------------------------
(* The operators. *)

\* A set of positions has a first.
LEMMA FirstOf ==
  ASSUME NEW S, S \subseteq Nat, S # {}
  PROVE  LET i == CHOOSE i \in S : \A j \in S : i <= j
         IN i \in S /\ \A j \in S : i <= j
<1>1. \E x \in S : \A y \in S : ~ (<<y, x>> \in OpToRel(<, Nat))
  BY NatLessThanWellFounded, WFMin
<1>2. PICK x \in S : \A y \in S : ~ (<<y, x>> \in OpToRel(<, Nat))
  BY <1>1
<1>3. \A y \in S : x <= y
  <2> TAKE y \in S
  <2>1. ~ (y < x)
    BY <1>2 DEF OpToRel
  <2> QED
    BY <2>1
<1> QED
  BY <1>3

\* What is left of a list, and where it was.
LEMMA ErasedAt ==
  ASSUME NEW list, NEW i \in DOMAIN list
  PROVE  /\ DOMAIN Erased(list, i) = 1 .. Len(list) - 1
         /\ \A j \in DOMAIN Erased(list, i) :
              Erased(list, i)[j] = IF j < i THEN list[j] ELSE list[j + 1]
  BY DEF Erased

LEMMA ErasedType ==
  ASSUME NEW T, NEW list \in Seq(T), NEW i
  PROVE  Erased(list, i) \in Seq(T)
<1>1. CASE i \notin DOMAIN list
  BY <1>1 DEF Erased
<1>2. CASE i \in DOMAIN list
  <2>1. /\ Len(list) \in Nat /\ i \in 1 .. Len(list)
        /\ Len(list) - 1 \in Nat
    BY <1>2
  <2>2. Erased(list, i) = [j \in 1 .. Len(list) - 1 |-> IF j < i THEN list[j] ELSE list[j + 1]]
    BY <1>2 DEF Erased
  <2>3. \A j \in 1 .. Len(list) - 1 : (IF j < i THEN list[j] ELSE list[j + 1]) \in T
    BY <2>1
  <2>4. Erased(list, i) \in [1 .. Len(list) - 1 -> T]
    BY <2>2, <2>3
  <2> QED
    BY <2>1, <2>2, <2>4
<1> QED
  BY <1>1, <1>2

LEMMA ServiceOfIdType ==
  ASSUME NEW list \in Seq(Servers), NEW s, ServiceOfId(list, s) # 0
  PROVE  ServiceOfId(list, s) \in DOMAIN list
<1> DEFINE found == {i \in DOMAIN list : list[i] = s}
           i == CHOOSE i \in found : \A j \in found : i <= j
<1>1. found # {}
  BY DEF ServiceOfId
<1>2. found \subseteq Nat
  OBVIOUS
<1>3. i \in found
  BY <1>1, <1>2, FirstOf
<1>4. ServiceOfId(list, s) = IF i = 1 THEN 1 ELSE IF i < Len(list) THEN i + 1 ELSE 0
  BY <1>1 DEF ServiceOfId
<1> HIDE DEF i
<1>5. i \in 1 .. Len(list)
  BY <1>3
<1> QED
  BY <1>4, <1>5

\* Numbers of a server whose list is spaced, one by one.
LEMMA ListIndex ==
  ASSUME TypeOK, NEW s \in Servers
  PROVE  /\ DOMAIN domains[s] = 1 .. Len(domains[s]) /\ Len(domains[s]) \in Nat
         /\ \A i \in DOMAIN domains[s] : domains[s][i] \in Domain
         /\ \A i \in DOMAIN domains[s] : domains[s][i].num \in Nums
         /\ counter[s] \in Nat
         /\ ListedNums(s) \subseteq Nums
<1>1. domains[s] \in Seq(Domain)
  BY DEF TypeOK
<1>2. /\ DOMAIN domains[s] = 1 .. Len(domains[s]) /\ Len(domains[s]) \in Nat
      /\ \A i \in DOMAIN domains[s] : domains[s][i] \in Domain
  BY <1>1
<1>3. \A i \in DOMAIN domains[s] : domains[s][i].num \in Nums
  BY <1>2 DEF Domain
<1>4. counter[s] \in Nat
  BY MaxNumNat DEF TypeOK
<1> QED
  BY <1>2, <1>3, <1>4 DEF ListedNums

---------------------------------------------------------------------------
(* Beginning. *)

LEMMA Initially == Init => IInv
<1> SUFFICES ASSUME Init PROVE IInv
  OBVIOUS
<1>1. TypeOK
  <2>1. <<>> \in Seq(Domain) /\ <<>> \in Seq(Servers)
    OBVIOUS
  <2>2. 1 \in 1 .. MaxRun /\ 1 \in 1 .. MaxNum + 1 /\ 0 \in Nat
    BY MaxNumNat, MaxRunPos
  <2> QED
    BY <2>1, <2>2 DEF Init, TypeOK
<1>2. Spaced /\ MapInList /\ RunsGrow /\ Unspoilt /\ IdsGoodAtHome
  BY DEF Init, Spaced, MapInList, RunsGrow, Unspoilt, IdsGoodAtHome, ListedNums
<1>3. OpenShares
  <2> SUFFICES ASSUME NEW s \in Servers, NEW k \in Keys
               PROVE Cardinality({i \in DOMAIN domains[s] : domains[s][i].key = k})
                       <= creates[s][k] + 1
    BY DEF OpenShares
  <2>1. {i \in DOMAIN domains[s] : domains[s][i].key = k} = {}
    BY DEF Init
  <2> QED
    BY <2>1, FS_EmptySet DEF Init
<1> QED
  BY <1>1, <1>2, <1>3 DEF IInv

---------------------------------------------------------------------------
(* One step per action. *)

Core == TypeOK /\ Spaced /\ MapInList /\ RunsGrow /\ Unspoilt /\ IdsGoodAtHome

LEMMA EnteredIs ==
  ASSUME NEW map \in [Nums -> {"none", "null", "domain", "other"}], NEW num \in Nums,
         NEW class \in {"domain", "other"}
  PROVE  /\ Entered(map, num, class) \in [Nums -> {"none", "null", "domain", "other"}]
         /\ \A m \in Nums : Entered(map, num, class)[m] =
              IF m = num /\ map[m] = "none" THEN class ELSE map[m]
  BY DEF Entered

LEMMA NewDomainCore ==
  ASSUME Core, NEW s \in Servers, NEW key \in Keys, NewDomain(s, key),
         UNCHANGED <<services, failed, strayed>>, creates' \in [Servers -> [Keys -> Nat]]
  PROVE  Core'
<1> DEFINE num == counter[s]
           n == Len(domains[s])
<1>1. /\ num \in Nat /\ num >= 1 /\ num \in Nums /\ num + 1 \in Nums /\ num + 2 \in 1 .. MaxNum + 1
      /\ run[s] \in 1 .. MaxRun
  BY MaxNumNat DEF Core, TypeOK, NewDomain, Nums
<1>2. /\ counter' = [counter EXCEPT ![s] = num + 2]
      /\ domains' = [domains EXCEPT ![s] = Append(@, [num |-> num, key |-> key])]
      /\ objects' = [objects EXCEPT ![s] = Entered(Entered(@, num + 1, "other"), num, "domain")]
      /\ issued' = issued \cup {[id |-> [server |-> s, num |-> num], run |-> run[s]]}
      /\ run' = run
  BY DEF NewDomain, Issue
<1>3. /\ objects'[s] \in [Nums -> {"none", "null", "domain", "other"}]
      /\ \A m \in Nums : objects'[s][m] =
           IF m = num /\ objects[s][m] = "none" THEN "domain"
           ELSE IF m = num + 1 /\ objects[s][m] = "none" THEN "other" ELSE objects[s][m]
      /\ \A t \in Servers \ {s} : objects'[t] = objects[t]
  <2> DEFINE root == Entered(objects[s], num + 1, "other")
  <2>1. objects[s] \in [Nums -> {"none", "null", "domain", "other"}]
    BY DEF Core, TypeOK
  <2>2. /\ root \in [Nums -> {"none", "null", "domain", "other"}]
        /\ \A m \in Nums : root[m] =
              IF m = num + 1 /\ objects[s][m] = "none" THEN "other" ELSE objects[s][m]
    BY <1>1, <2>1, EnteredIs
  <2>3. objects'[s] = Entered(root, num, "domain") /\ \A t \in Servers \ {s} : objects'[t] = objects[t]
    BY <1>2 DEF Core, TypeOK
  <2> HIDE DEF root
  <2>4. /\ objects'[s] \in [Nums -> {"none", "null", "domain", "other"}]
        /\ \A m \in Nums : objects'[s][m] =
              IF m = num /\ root[m] = "none" THEN "domain" ELSE root[m]
    BY <1>1, <2>2, <2>3, EnteredIs
  <2> QED
    BY <1>1, <2>2, <2>3, <2>4 DEF Nums
<1>4. /\ [num |-> num, key |-> key] \in Domain
      /\ n \in Nat /\ DOMAIN domains[s] = 1 .. n
      /\ domains'[s] = Append(domains[s], [num |-> num, key |-> key])
      /\ DOMAIN domains'[s] = 1 .. n + 1
      /\ \A i \in 1 .. n : domains'[s][i] = domains[s][i]
      /\ domains'[s][n + 1].num = num
      /\ \A t \in Servers \ {s} : domains'[t] = domains[t]
  BY <1>1, <1>2, ListIndex DEF Core, TypeOK, Domain
<1>5. /\ counter'[s] = num + 2
      /\ \A t \in Servers \ {s} : counter'[t] = counter[t]
  BY <1>2 DEF Core, TypeOK
<1>6. TypeOK'
  <2>1. domains' \in [Servers -> Seq(Domain)]
    BY <1>2, <1>4 DEF Core, TypeOK
  <2>2. objects' \in [Servers -> [Nums -> {"none", "null", "domain", "other"}]]
    BY <1>2, <1>3 DEF Core, TypeOK
  <2>3. issued' \subseteq [id : Ids, run : 1 .. MaxRun]
    BY <1>1, <1>2 DEF Core, TypeOK, Ids
  <2>4. counter' \in [Servers -> 1 .. MaxNum + 1]
    BY <1>1, <1>2 DEF Core, TypeOK
  <2> QED
    BY <2>1, <2>2, <2>3, <2>4, <1>2 DEF Core, TypeOK
<1> HIDE DEF n, num
<1>7. Spaced'
  <2> SUFFICES ASSUME NEW t \in Servers
               PROVE (/\ \A i, j \in DOMAIN domains[t] : i < j => domains[t][i].num + 2 <= domains[t][j].num
                      /\ \A i \in DOMAIN domains[t] : domains[t][i].num + 2 <= counter[t])'
    BY DEF Spaced
  <2>1. CASE t # s
    BY <2>1, <1>4, <1>5 DEF Core, Spaced
  <2>2. CASE t = s
    <3>1. \A i \in 1 .. n : domains[s][i].num \in Nat /\ domains[s][i].num + 2 <= num
      BY <1>4, ListIndex DEF Core, Spaced, Nums, num
    <3>2. \A i, j \in 1 .. n : i < j => domains[s][i].num + 2 <= domains[s][j].num
      BY <1>4 DEF Core, Spaced
    <3>3. ASSUME NEW i \in 1 .. n + 1, NEW j \in 1 .. n + 1, i < j
          PROVE domains'[s][i].num + 2 <= domains'[s][j].num
      <4>1. i \in 1 .. n /\ (j \in 1 .. n \/ j = n + 1)
        BY <1>4, <3>3
      <4> QED
        BY <4>1, <3>1, <3>2, <3>3, <1>4
    <3>4. ASSUME NEW i \in 1 .. n + 1
          PROVE domains'[s][i].num + 2 <= counter'[s]
      <4>1. i \in 1 .. n \/ i = n + 1
        BY <1>4
      <4> QED
        BY <4>1, <3>1, <1>1, <1>4, <1>5
    <3> QED
      BY <2>2, <3>3, <3>4, <1>4
  <2> QED
    BY <2>1, <2>2
<1>8. /\ ListedNums(s)' = ListedNums(s) \cup {num}
      /\ \A t \in Servers \ {s} : ListedNums(t)' = ListedNums(t)
  <2>1. ListedNums(s)' = {domains'[s][i].num : i \in 1 .. n + 1}
    BY <1>4 DEF ListedNums
  <2>2. 1 .. n + 1 = (1 .. n) \cup {n + 1}
    BY <1>4
  <2>3. ListedNums(s) = {domains[s][i].num : i \in 1 .. n}
    BY <1>4 DEF ListedNums
  <2>4. \A t \in Servers \ {s} : ListedNums(t)' = ListedNums(t)
    BY <1>4 DEF ListedNums
  <2> QED
    BY <2>1, <2>2, <2>3, <2>4, <1>4
<1>9. MapInList'
  BY <1>3, <1>8 DEF Core, MapInList
<1>10. RunsGrow'
  <2>1. run[s] <= run[s]
    BY <1>1
  <2> QED
    BY <2>1, <1>2 DEF Core, RunsGrow
<1>11. Unspoilt'
  <2> SUFFICES ASSUME ~strayed
               PROVE (/\ \A t \in Servers : \A m \in Nums : m >= counter[t] => objects[t][m] = "none"
                      /\ \A h \in issued : h.run = run[h.id.server] =>
                           h.id.num < counter[h.id.server] /\ objects[h.id.server][h.id.num] # "other")'
    BY DEF Unspoilt
  <2>1. \A t \in Servers : \A m \in Nums : m >= counter[t] => objects[t][m] = "none"
    BY DEF Core, Unspoilt
  <2>2. \A t \in Servers : \A m \in Nums : m >= counter'[t] => objects'[t][m] = "none"
    <3> SUFFICES ASSUME NEW t \in Servers, NEW m \in Nums, m >= counter'[t]
                 PROVE objects'[t][m] = "none"
      OBVIOUS
    <3>1. CASE t # s
      BY <3>1, <2>1, <1>3, <1>5
    <3>2. CASE t = s
      <4>1. m \in Nat /\ m >= num /\ m # num /\ m # num + 1
        BY <3>2, <1>1, <1>5 DEF Nums
      <4> QED
        BY <3>2, <4>1, <2>1, <1>3 DEF num
    <3> QED
      BY <3>1, <3>2
  <2>3. ASSUME NEW h \in issued', h.run = run[h.id.server]
        PROVE h.id.num < counter'[h.id.server] /\ objects'[h.id.server][h.id.num] # "other"
    <3>1. CASE h \in issued
      <4>1. /\ h.id.num < counter[h.id.server] /\ objects[h.id.server][h.id.num] # "other"
            /\ h.id.server \in Servers /\ h.id.num \in Nums
        BY <3>1, <2>3 DEF Core, Unspoilt, TypeOK, Ids
      <4>2. CASE h.id.server # s
        BY <4>1, <4>2, <1>3, <1>5
      <4>3. CASE h.id.server = s
        <5>1. h.id.num \in Nat /\ h.id.num < num
          BY <4>1, <4>3 DEF num, Nums
        <5>2. h.id.num # num + 1 /\ h.id.num < num + 2
          BY <5>1, <1>1
        <5> QED
          BY <5>2, <4>1, <4>3, <1>3, <1>5
      <4> QED
        BY <4>2, <4>3
    <3>2. CASE h = [id |-> [server |-> s, num |-> num], run |-> run[s]]
      <4>1. objects[s][num] = "none"
        BY <2>1, <1>1 DEF num
      <4> QED
        BY <3>2, <4>1, <1>1, <1>3, <1>5
    <3> QED
      BY <3>1, <3>2, <1>2
  <2> QED
    BY <2>2, <2>3, <1>2
<1>12. IdsGoodAtHome'
  <2> SUFFICES ASSUME ~strayed
               PROVE \A t \in Servers : t \notin failed /\ \A m \in ListedNums(t)' : objects'[t][m] = "domain"
    BY DEF IdsGoodAtHome
  <2>1. objects[s][num] = "none"
    BY <1>1 DEF Core, Unspoilt, num
  <2>2. \A t \in Servers : t \notin failed /\ ListedNums(t) \subseteq Nums
                         /\ \A m \in ListedNums(t) : objects[t][m] = "domain"
    BY ListIndex DEF Core, IdsGoodAtHome
  <2> SUFFICES ASSUME NEW t \in Servers
               PROVE t \notin failed /\ \A m \in ListedNums(t)' : objects'[t][m] = "domain"
    OBVIOUS
  <2>3. CASE t # s
    <3>1. objects'[t] = objects[t] /\ ListedNums(t)' = ListedNums(t)
      BY <2>3, <1>3, <1>8
    <3> QED
      BY <3>1, <2>2
  <2>4. CASE t = s
    <3> SUFFICES ASSUME NEW m \in ListedNums(s)'
                 PROVE objects'[s][m] = "domain"
      BY <2>2, <2>4
    <3>1. CASE m = num
      BY <3>1, <2>1, <1>1, <1>3
    <3>2. CASE m \in ListedNums(s)
      <4>1. m \in Nums /\ objects[s][m] = "domain"
        BY <3>2, <2>2
      <4> QED
        BY <4>1, <2>1, <1>1, <1>3
    <3> QED
      BY <3>1, <3>2, <1>8
  <2> QED
    BY <2>3, <2>4
<1> QED
  BY <1>6, <1>7, <1>9, <1>10, <1>11, <1>12 DEF Core

\* An id of a domain that is there is given to one more client.
LEMMA OpenedCore ==
  ASSUME Core, NEW s \in Servers, NEW key \in Keys, Matches(s, key) # {}, OpenDomain(s, key)
  PROVE  Core'
<1> DEFINE i == CHOOSE i \in Matches(s, key) : \A j \in Matches(s, key) : i <= j
           num == domains[s][i].num
<1>1. Matches(s, key) \subseteq DOMAIN domains[s] /\ DOMAIN domains[s] \subseteq Nat
  BY ListIndex DEF Core, Matches
<1>2. i \in DOMAIN domains[s]
  BY <1>1, FirstOf
<1>3. /\ issued' = issued \cup {[id |-> [server |-> s, num |-> num], run |-> run[s]]}
      /\ UNCHANGED <<registry, services, failed, creates, strayed>>
  BY DEF OpenDomain, Issue
<1> HIDE DEF i
<1>4. num \in Nums /\ num \in ListedNums(s) /\ num < counter[s] /\ run[s] \in 1 .. MaxRun
  <2>1. num \in Nums /\ num + 2 <= counter[s] /\ counter[s] \in Nat
    BY <1>2, ListIndex DEF Core, Spaced
  <2>2. num < counter[s]
    BY <2>1 DEF Nums
  <2>3. num \in ListedNums(s)
    BY <1>2 DEF ListedNums
  <2> QED
    BY <2>1, <2>2, <2>3 DEF Core, TypeOK
<1> HIDE DEF num
<1>5. TypeOK'
  <2>1. issued' \subseteq [id : Ids, run : 1 .. MaxRun]
    BY <1>3, <1>4 DEF Core, TypeOK, Ids
  <2> QED
    BY <2>1, <1>3 DEF Core, TypeOK, registry
<1>6. Spaced' /\ MapInList' /\ IdsGoodAtHome'
  BY <1>3 DEF Core, Spaced, MapInList, IdsGoodAtHome, ListedNums, registry
<1>7. RunsGrow'
  <2>1. run[s] <= run[s]
    BY <1>4
  <2> QED
    BY <2>1, <1>3 DEF Core, RunsGrow, registry
<1>8. Unspoilt'
  <2>1. ~strayed => objects[s][num] # "other"
    BY <1>4 DEF Core, IdsGoodAtHome
  <2> QED
    BY <2>1, <1>3, <1>4 DEF Core, Unspoilt, registry
<1> QED
  BY <1>5, <1>6, <1>7, <1>8 DEF Core

LEMMA NewObjectCore ==
  ASSUME Core, NEW s \in Servers, NewObject(s)
  PROVE  Core'
<1> DEFINE num == counter[s]
<1>1. /\ num \in Nums /\ num \in Nat /\ num + 1 \in 1 .. MaxNum + 1
      /\ objects[s] \in [Nums -> {"none", "null", "domain", "other"}]
  BY MaxNumNat DEF Core, TypeOK, NewObject, Nums
<1>2. /\ counter' = [counter EXCEPT ![s] = num + 1]
      /\ objects' = [objects EXCEPT ![s] = Entered(@, num, "other")]
      /\ UNCHANGED <<run, domains, services, failed, issued, creates, strayed>>
  BY DEF NewObject
<1>3. /\ objects'[s] \in [Nums -> {"none", "null", "domain", "other"}]
      /\ \A m \in Nums : objects'[s][m] =
           IF m = num /\ objects[s][m] = "none" THEN "other" ELSE objects[s][m]
      /\ \A t \in Servers \ {s} : objects'[t] = objects[t]
      /\ counter'[s] = num + 1 /\ \A t \in Servers \ {s} : counter'[t] = counter[t]
  <2>1. objects'[s] = Entered(objects[s], num, "other")
    BY <1>2 DEF Core, TypeOK
  <2>2. \A t \in Servers \ {s} : objects'[t] = objects[t]
    BY <1>2 DEF Core, TypeOK
  <2>3. counter'[s] = num + 1 /\ \A t \in Servers \ {s} : counter'[t] = counter[t]
    BY <1>2 DEF Core, TypeOK
  <2> QED
    BY <1>1, <2>1, <2>2, <2>3, EnteredIs
<1> HIDE DEF num
<1>4. TypeOK'
  BY <1>1, <1>2, <1>3 DEF Core, TypeOK
<1>5. Spaced'
  <2> SUFFICES ASSUME NEW t \in Servers, NEW i \in DOMAIN domains[t]
               PROVE domains[t][i].num + 2 <= counter'[t]
    BY <1>2 DEF Core, Spaced
  <2>1. domains[t][i].num + 2 <= counter[t] /\ domains[t][i].num \in Nat /\ counter[t] \in Nat
    BY ListIndex DEF Core, Spaced, Nums
  <2>2. counter'[t] = counter[t] \/ counter'[t] = counter[t] + 1
    BY <1>3 DEF num
  <2> QED
    BY <2>1, <2>2
<1>6. MapInList' /\ RunsGrow'
  BY <1>2, <1>3 DEF Core, MapInList, RunsGrow, ListedNums
<1>7. Unspoilt'
  <2> SUFFICES ASSUME ~strayed
               PROVE (/\ \A t \in Servers : \A m \in Nums : m >= counter[t] => objects[t][m] = "none"
                      /\ \A h \in issued : h.run = run[h.id.server] =>
                           h.id.num < counter[h.id.server] /\ objects[h.id.server][h.id.num] # "other")'
    BY <1>2 DEF Unspoilt
  <2>1. ASSUME NEW t \in Servers, NEW m \in Nums, m >= counter'[t]
        PROVE objects'[t][m] = "none"
    <3>1. m >= counter[t] /\ (t = s => m # num)
      BY <2>1, <1>1, <1>3, ListIndex DEF Core, num, Nums
    <3> QED
      BY <3>1, <1>3 DEF Core, Unspoilt
  <2>2. ASSUME NEW h \in issued, h.run = run[h.id.server]
        PROVE h.id.num < counter'[h.id.server] /\ objects'[h.id.server][h.id.num] # "other"
    <3>1. /\ h.id.num < counter[h.id.server] /\ objects[h.id.server][h.id.num] # "other"
          /\ h.id.server \in Servers /\ h.id.num \in Nums
      BY <2>2 DEF Core, Unspoilt, TypeOK, Ids
    <3>2. h.id.num \in Nat /\ (h.id.server = s => h.id.num # num /\ h.id.num < num + 1)
      BY <3>1, <1>1 DEF num, Nums
    <3> QED
      BY <3>1, <3>2, <1>3
  <2> QED
    BY <2>1, <2>2, <1>2
<1>8. IdsGoodAtHome'
  <2> SUFFICES ASSUME ~strayed, NEW t \in Servers
               PROVE t \notin failed /\ \A m \in ListedNums(t) : objects'[t][m] = "domain"
    BY <1>2 DEF IdsGoodAtHome, ListedNums
  <2>1. /\ t \notin failed /\ ListedNums(t) \subseteq Nums
        /\ \A m \in ListedNums(t) : objects[t][m] = "domain"
    BY ListIndex DEF Core, IdsGoodAtHome
  <2> QED
    BY <2>1, <1>3
<1> QED
  BY <1>4, <1>5, <1>6, <1>7, <1>8 DEF Core

\* A server that starts again has no domains, and no id is of its new run.
LEMMA RestartCore ==
  ASSUME Core, NEW s \in Servers, Restart(s)
  PROVE  Core'
<1>1. PICK r \in 2 .. MaxRun : (\A t \in Servers : run[t] < r) /\ run' = [run EXCEPT ![s] = r]
  BY DEF Restart
<1>2. /\ counter' = [counter EXCEPT ![s] = 1]
      /\ objects' = [objects EXCEPT ![s] = [n \in Nums |-> "none"]]
      /\ domains' = [domains EXCEPT ![s] = <<>>]
      /\ creates' = [creates EXCEPT ![s] = [k \in Keys |-> 0]]
      /\ failed' = failed \ {s}
      /\ UNCHANGED <<services, issued, strayed>>
  BY DEF Restart
<1>3. /\ domains'[s] = <<>> /\ counter'[s] = 1 /\ objects'[s] = [n \in Nums |-> "none"] /\ run'[s] = r
      /\ \A t \in Servers \ {s} : /\ domains'[t] = domains[t] /\ counter'[t] = counter[t]
                                  /\ objects'[t] = objects[t] /\ run'[t] = run[t]
  BY <1>1, <1>2 DEF Core, TypeOK
<1>4. TypeOK'
  <2>1. r \in 1 .. MaxRun /\ 1 \in 1 .. MaxNum + 1
    BY <1>1, MaxRunPos, MaxNumNat
  <2>2. <<>> \in Seq(Domain)
    OBVIOUS
  <2> QED
    BY <2>1, <2>2, <1>1, <1>2 DEF Core, TypeOK
<1>5. Spaced' /\ MapInList'
  <2>1. ListedNums(s)' = {} /\ \A t \in Servers \ {s} : ListedNums(t)' = ListedNums(t)
    BY <1>3 DEF ListedNums
  <2>2. MapInList'
    BY <2>1, <1>3 DEF Core, MapInList
  <2>3. Spaced'
    BY <1>3 DEF Core, Spaced
  <2> QED
    BY <2>2, <2>3
<1>6. \A h \in issued : /\ h.id.server \in Servers /\ h.run <= run[h.id.server]
                       /\ h.run \in Nat /\ run[h.id.server] \in Nat /\ run[h.id.server] < r
  BY <1>1, MaxRunPos DEF Core, RunsGrow, TypeOK, Ids
<1>7. RunsGrow'
  <2> SUFFICES ASSUME NEW h \in issued PROVE h.run <= run'[h.id.server]
    BY <1>2 DEF RunsGrow
  <2>1. h.run <= r
    BY <1>6, <1>1
  <2> QED
    BY <2>1, <1>3, <1>6
<1>8. Unspoilt'
  <2>1. \A h \in issued : h.run = run'[h.id.server] => h.id.server # s /\ h.run = run[h.id.server]
    BY <1>1, <1>3, <1>6
  <2> QED
    BY <2>1, <1>2, <1>3, <1>6 DEF Core, Unspoilt
<1>9. IdsGoodAtHome'
  BY <1>2, <1>3 DEF Core, IdsGoodAtHome, ListedNums
<1> QED
  BY <1>4, <1>5, <1>7, <1>8, <1>9 DEF Core

LEMMA OpenCore ==
  ASSUME Core, NEW c \in Clients, NEW s \in Servers, Open(c, s)
  PROVE  Core'
<1>1. services' = [services EXCEPT ![c] = <<s>> \o @] /\ UNCHANGED <<registry, failed, issued, creates, strayed>>
  BY DEF Open
<1>2. <<s>> \o services[c] \in Seq(Servers)
  BY DEF Core, TypeOK
<1>3. TypeOK'
  BY <1>1, <1>2 DEF Core, TypeOK, registry
<1> QED
  BY <1>1, <1>3 DEF Core, Spaced, MapInList, RunsGrow, Unspoilt, IdsGoodAtHome, ListedNums, registry

LEMMA CloseCore ==
  ASSUME Core, NEW c \in Clients, NEW i, Close(c, i)
  PROVE  Core'
<1>1. services' = [services EXCEPT ![c] = Erased(@, i)] /\ UNCHANGED <<registry, failed, issued, creates, strayed>>
  BY DEF Close
<1>2. services[c] \in Seq(Servers)
  BY DEF Core, TypeOK
<1>3. Erased(services[c], i) \in Seq(Servers)
  BY <1>2, ErasedType
<1>4. TypeOK'
  BY <1>1, <1>3 DEF Core, TypeOK, registry
<1> QED
  BY <1>1, <1>4 DEF Core, Spaced, MapInList, RunsGrow, Unspoilt, IdsGoodAtHome, ListedNums, registry

\* A domain that is removed is where the map says, and only once.
LEMMA PlaceOf ==
  ASSUME Core, NEW s \in Servers, NEW num \in Nums, objects[s][num] = "domain"
  PROVE  /\ At(s, num) \in DOMAIN domains[s] /\ domains[s][At(s, num)].num = num
         /\ \A i \in DOMAIN domains[s] \ {At(s, num)} : domains[s][i].num # num /\ domains[s][i].num # num + 1
<1>1. num \in ListedNums(s)
  BY DEF Core, MapInList
<1>2. \E i \in DOMAIN domains[s] : domains[s][i].num = num
  BY <1>1 DEF ListedNums
<1> DEFINE p == At(s, num)
<1>3. p \in DOMAIN domains[s] /\ domains[s][p].num = num
  BY <1>2 DEF At
<1> HIDE DEF p
<1>4. ASSUME NEW i \in DOMAIN domains[s], i # p
      PROVE domains[s][i].num # num /\ domains[s][i].num # num + 1
  <2>1. /\ i \in Nat /\ p \in Nat /\ domains[s][i].num \in Nat /\ num \in Nat
    BY <1>3, ListIndex DEF Core, Nums
  <2>2. i < p \/ p < i
    BY <2>1, <1>4
  <2>3. domains[s][i].num + 2 <= num \/ num + 2 <= domains[s][i].num
    BY <2>2, <1>3 DEF Core, Spaced
  <2> QED
    BY <2>1, <2>3
<1> QED
  BY <1>3, <1>4 DEF p

LEMMA DeletedCore ==
  ASSUME Core, NEW s \in Servers, NEW num \in Nums, objects[s][num] = "domain", Deleted(s, num),
         UNCHANGED <<run, counter, services, failed, issued, creates>>,
         strayed' \in BOOLEAN, strayed => strayed'
  PROVE  Core'
<1> DEFINE p == At(s, num)
           n == Len(domains[s])
           list == Erased(domains[s], p)
<1>1. /\ p \in DOMAIN domains[s] /\ domains[s][p].num = num
      /\ \A i \in DOMAIN domains[s] \ {p} : domains[s][i].num # num /\ domains[s][i].num # num + 1
  BY PlaceOf
<1>2. n \in Nat /\ DOMAIN domains[s] = 1 .. n /\ p \in 1 .. n /\ domains[s] \in Seq(Domain)
  BY <1>1, ListIndex DEF Core, TypeOK
<1>3. /\ domains' = [domains EXCEPT ![s] = list]
      /\ objects' = [objects EXCEPT ![s][num] = "none", ![s][num + 1] = "none"]
  BY DEF Deleted
<1> HIDE DEF p
<1>4. /\ list \in Seq(Domain) /\ DOMAIN list = 1 .. n - 1
      /\ \A j \in DOMAIN list : list[j] = IF j < p THEN domains[s][j] ELSE domains[s][j + 1]
  <2>1. p \in DOMAIN domains[s] /\ domains[s] \in Seq(Domain)
    BY <1>1, <1>2
  <2>2. Erased(domains[s], p) \in Seq(Domain)
    BY <2>1, ErasedType
  <2>3. /\ DOMAIN Erased(domains[s], p) = 1 .. Len(domains[s]) - 1
        /\ \A j \in DOMAIN Erased(domains[s], p) :
             Erased(domains[s], p)[j] = IF j < p THEN domains[s][j] ELSE domains[s][j + 1]
    BY <2>1, ErasedAt
  <2> QED
    BY <2>2, <2>3
<1> HIDE DEF list, n
<1>5. /\ domains'[s] = list /\ \A t \in Servers \ {s} : domains'[t] = domains[t] /\ objects'[t] = objects[t]
      /\ objects' \in [Servers -> [Nums -> {"none", "null", "domain", "other"}]]
      /\ \A m \in Nums : objects'[s][m] = IF m \in {num, num + 1} THEN "none" ELSE objects[s][m]
  <2>1. num \in Nat /\ num # num + 1
    BY DEF Nums
  <2>2. objects \in [Servers -> [Nums -> {"none", "null", "domain", "other"}]]
    BY DEF Core, TypeOK
  <2>3. domains'[s] = list /\ \A t \in Servers \ {s} : domains'[t] = domains[t]
    BY <1>3 DEF Core, TypeOK
  <2> QED
    BY <2>1, <2>2, <2>3, <1>3
<1>6. \A j \in DOMAIN list : \E i \in DOMAIN domains[s] \ {p} :
        /\ list[j] = domains[s][i] /\ i = IF j < p THEN j ELSE j + 1
  <2> TAKE j \in DOMAIN list
  <2>1. CASE j < p
    <3>1. j \in DOMAIN domains[s] \ {p}
      BY <2>1, <1>2, <1>4
    <3> QED
      BY <2>1, <3>1, <1>4
  <2>2. CASE ~ (j < p)
    <3>1. j + 1 \in DOMAIN domains[s] \ {p}
      BY <2>2, <1>2, <1>4
    <3> QED
      BY <2>2, <3>1, <1>4
  <2> QED
    BY <2>1, <2>2
<1>7. \A i \in DOMAIN domains[s] \ {p} : \E j \in DOMAIN list : list[j] = domains[s][i]
  <2> TAKE i \in DOMAIN domains[s] \ {p}
  <2>1. CASE i < p
    <3>1. i \in DOMAIN list
      BY <2>1, <1>2, <1>4
    <3> QED
      BY <2>1, <3>1, <1>4
  <2>2. CASE i > p
    <3>1. i - 1 \in DOMAIN list /\ ~ (i - 1 < p) /\ (i - 1) + 1 = i
      BY <2>2, <1>2, <1>4
    <3> QED
      BY <3>1, <1>4
  <2> QED
    BY <2>1, <2>2, <1>2
<1>8. /\ ListedNums(s)' = ListedNums(s) \ {num} /\ num + 1 \notin ListedNums(s)
      /\ \A t \in Servers \ {s} : ListedNums(t)' = ListedNums(t)
  <2>1. ListedNums(s)' \subseteq ListedNums(s) \ {num}
    BY <1>1, <1>5, <1>6 DEF ListedNums
  <2>2. ListedNums(s) \ {num} \subseteq ListedNums(s)'
    BY <1>1, <1>5, <1>7 DEF ListedNums
  <2>3. num # num + 1
    BY DEF Nums
  <2>4. num + 1 \notin ListedNums(s)
    BY <1>1, <2>3 DEF ListedNums
  <2>5. \A t \in Servers \ {s} : ListedNums(t)' = ListedNums(t)
    BY <1>5 DEF ListedNums
  <2> QED
    BY <2>1, <2>2, <2>4, <2>5
<1>9. TypeOK'
  BY <1>3, <1>4, <1>5 DEF Core, TypeOK
<1>10. Spaced'
  <2> SUFFICES ASSUME NEW t \in Servers
               PROVE /\ \A i, j \in DOMAIN domains'[t] : i < j => domains'[t][i].num + 2 <= domains'[t][j].num
                     /\ \A i \in DOMAIN domains'[t] : domains'[t][i].num + 2 <= counter[t]
    BY DEF Spaced
  <2>1. CASE t # s
    BY <2>1, <1>5 DEF Core, Spaced
  <2>2. CASE t = s
    <3>1. ASSUME NEW i \in DOMAIN list, NEW j \in DOMAIN list, i < j
          PROVE list[i].num + 2 <= list[j].num
      <4>1. PICK a \in DOMAIN domains[s] : list[i] = domains[s][a] /\ a = IF i < p THEN i ELSE i + 1
        BY <1>6
      <4>2. PICK b \in DOMAIN domains[s] : list[j] = domains[s][b] /\ b = IF j < p THEN j ELSE j + 1
        BY <1>6
      <4>3. a < b
        BY <4>1, <4>2, <3>1, <1>2, <1>4
      <4> QED
        BY <4>1, <4>2, <4>3 DEF Core, Spaced
    <3>2. \A i \in DOMAIN list : list[i].num + 2 <= counter[s]
      BY <1>6 DEF Core, Spaced
    <3> QED
      BY <2>2, <3>1, <3>2, <1>5
  <2> QED
    BY <2>1, <2>2
<1>11. MapInList' /\ RunsGrow'
  BY <1>5, <1>8 DEF Core, MapInList, RunsGrow
<1>12. Unspoilt'
  <2>1. \A t \in Servers, m \in Nums : objects'[t][m] = objects[t][m] \/ objects'[t][m] = "none"
    BY <1>5
  <2>2. \A h \in issued : h.id.server \in Servers /\ h.id.num \in Nums
    BY DEF Core, TypeOK, Ids
  <2> QED
    BY <2>1, <2>2 DEF Core, Unspoilt
<1>13. IdsGoodAtHome'
  <2>1. \A t \in Servers : ListedNums(t) \subseteq Nums
    BY ListIndex DEF Core
  <2> QED
    BY <2>1, <1>5, <1>8 DEF Core, IdsGoodAtHome
<1> QED
  BY <1>9, <1>10, <1>11, <1>12, <1>13 DEF Core

LEMMA RemoveDomainCore ==
  ASSUME Core, NEW c \in Clients, NEW h \in issued, RemoveDomain(c, h)
  PROVE  Core'
<1> DEFINE i == ServiceOfId(services[c], h.id.server)
           s == services[c][i]
<1>1. h.id.server \in Servers /\ h.id.num \in Nums /\ h.run \in 1 .. MaxRun
  BY DEF Core, TypeOK, Ids
<1>2. CASE i = 0
  <2>1. failed' = failed \cup {c} /\ UNCHANGED <<registry, services, issued, creates, strayed>>
    BY <1>2 DEF RemoveDomain
  <2>2. TypeOK'
    BY <2>1 DEF Core, TypeOK, registry
  <2>3. c \notin Servers
    BY ClientsAreNoServers
  <2> QED
    BY <2>1, <2>2, <2>3 DEF Core, Spaced, MapInList, RunsGrow, Unspoilt, IdsGoodAtHome, ListedNums, registry
<1>3. CASE i # 0
  <2>1. services[c] \in Seq(Servers)
    BY DEF Core, TypeOK
  <2>2. i \in DOMAIN services[c]
    BY <2>1, <1>3, ServiceOfIdType
  <2>3. s \in Servers
    BY <2>1, <2>2
  <2>4. /\ RemoveAt(s, h.id)
        /\ strayed' = (strayed \/ s # h.id.server \/ h.run # run[s])
        /\ UNCHANGED <<run, counter, services, issued, creates>>
    BY <1>3 DEF RemoveDomain
  <2> HIDE DEF s, i
  <2>5. strayed' \in BOOLEAN /\ (strayed => strayed')
    BY <2>4
  <2>6. objects \in [Servers -> [Nums -> {"none", "null", "domain", "other"}]]
    BY DEF Core, TypeOK
  <2>7. CASE objects[s][h.id.num] = "domain"
    <3>1. Deleted(s, h.id.num) /\ UNCHANGED failed
      BY <2>4, <2>7 DEF RemoveAt
    <3> QED
      BY <3>1, <1>1, <2>3, <2>4, <2>5, <2>7, DeletedCore
  <2>8. CASE objects[s][h.id.num] = "other"
    <3>1. failed' = failed \cup {s} /\ UNCHANGED <<objects, domains>>
      BY <2>4, <2>8 DEF RemoveAt
    <3>2. strayed'
      BY <2>4, <2>8 DEF Core, Unspoilt
    <3>3. TypeOK'
      BY <3>1, <2>3, <2>4, <2>5 DEF Core, TypeOK
    <3> QED
      BY <3>1, <3>2, <3>3, <2>4 DEF Core, Spaced, MapInList, RunsGrow, Unspoilt, IdsGoodAtHome, ListedNums
  <2>9. CASE objects[s][h.id.num] \in {"none", "null"}
    <3>1. objects' = [objects EXCEPT ![s][h.id.num] = "null"] /\ UNCHANGED <<domains, failed>>
      BY <2>4, <2>9 DEF RemoveAt
    <3>2. /\ objects' \in [Servers -> [Nums -> {"none", "null", "domain", "other"}]]
          /\ objects'[s][h.id.num] = "null"
          /\ \A t \in Servers, m \in Nums : t # s \/ m # h.id.num => objects'[t][m] = objects[t][m]
      BY <3>1, <1>1, <2>3, <2>6
    <3>3. TypeOK'
      BY <3>1, <3>2, <2>4, <2>5 DEF Core, TypeOK
    <3>4. Spaced' /\ RunsGrow'
      BY <3>1, <2>4 DEF Core, Spaced, RunsGrow
    <3>5. MapInList'
      BY <3>1, <3>2 DEF Core, MapInList, ListedNums
    <3>6. ~strayed' => h.id.num < counter[s] /\ h.id.num \in Nat /\ counter[s] \in Nat
      <4>1. h.id.num \in Nat /\ counter[s] \in Nat
        BY <1>1, <2>3, ListIndex DEF Core, Nums
      <4>2. ~strayed' => ~strayed /\ s = h.id.server /\ h.run = run[h.id.server]
        BY <2>4
      <4>3. ~strayed' => h.id.num < counter[s]
        BY <4>2 DEF Core, Unspoilt
      <4> QED
        BY <4>1, <4>3
    <3>7. Unspoilt'
      <4> SUFFICES ASSUME ~strayed'
                   PROVE (/\ \A t \in Servers : \A m \in Nums : m >= counter[t] => objects[t][m] = "none"
                          /\ \A g \in issued : g.run = run[g.id.server] =>
                               g.id.num < counter[g.id.server] /\ objects[g.id.server][g.id.num] # "other")'
        BY DEF Unspoilt
      <4>1. ASSUME NEW t \in Servers, NEW m \in Nums, m >= counter[t]
            PROVE objects'[t][m] = "none"
        <5>1. objects[t][m] = "none"
          BY <4>1, <2>5 DEF Core, Unspoilt
        <5>2. t # s \/ m # h.id.num
          BY <4>1, <3>6
        <5> QED
          BY <5>1, <5>2, <3>2
      <4>2. ASSUME NEW g \in issued, g.run = run[g.id.server]
            PROVE g.id.num < counter[g.id.server] /\ objects'[g.id.server][g.id.num] # "other"
        <5>1. /\ g.id.num < counter[g.id.server] /\ objects[g.id.server][g.id.num] # "other"
              /\ g.id.server \in Servers /\ g.id.num \in Nums
          BY <4>2, <2>5 DEF Core, Unspoilt, TypeOK, Ids
        <5> QED
          BY <5>1, <3>2
      <4> QED
        BY <4>1, <4>2, <2>4
    <3>8. IdsGoodAtHome'
      <4> SUFFICES ASSUME ~strayed', NEW t \in Servers
                   PROVE t \notin failed /\ \A m \in ListedNums(t) : objects'[t][m] = "domain"
        BY <3>1 DEF IdsGoodAtHome, ListedNums
      <4>1. /\ t \notin failed /\ ListedNums(t) \subseteq Nums
            /\ \A m \in ListedNums(t) : objects[t][m] = "domain"
        BY <2>5, ListIndex DEF Core, IdsGoodAtHome
      <4> QED
        BY <4>1, <3>2, <2>9
    <3> QED
      BY <3>3, <3>4, <3>5, <3>7, <3>8 DEF Core
  <2> QED
    BY <2>7, <2>8, <2>9, <1>1, <2>3, <2>6
<1> QED
  BY <1>2, <1>3

---------------------------------------------------------------------------
(* Sharing. *)

OfKey(s, k) == {i \in DOMAIN domains[s] : domains[s][i].key = k}

LEMMA OfKeyFinite ==
  ASSUME TypeOK, NEW s \in Servers, NEW k
  PROVE  IsFiniteSet(OfKey(s, k)) /\ Cardinality(OfKey(s, k)) \in Nat
<1>1. DOMAIN domains[s] = 1 .. Len(domains[s]) /\ Len(domains[s]) \in Nat
  BY ListIndex
<1>2. IsFiniteSet(DOMAIN domains[s])
  <2>1. IsFiniteSet(1 .. Len(domains[s]))
    BY <1>1, FS_Interval
  <2> QED
    BY <1>1, <2>1
<1>3. OfKey(s, k) \subseteq DOMAIN domains[s]
  BY DEF OfKey
<1> QED
  BY <1>2, <1>3, FS_Subset, FS_CardinalityType

\* A new domain is one more of its key.
LEMMA NewDomainCount ==
  ASSUME TypeOK, NEW s \in Servers, NEW key \in Keys, NewDomain(s, key), NEW t \in Servers, NEW k \in Keys
  PROVE  Cardinality(OfKey(t, k)') =
           IF t = s /\ k = key THEN Cardinality(OfKey(t, k)) + 1 ELSE Cardinality(OfKey(t, k))
<1> DEFINE new == [num |-> counter[s], key |-> key]
           n == Len(domains[s])
<1>1. /\ domains'[s] = Append(domains[s], new)
      /\ \A u \in Servers \ {s} : domains'[u] = domains[u]
  BY DEF NewDomain, TypeOK
<1>2. CASE t # s
  BY <1>1, <1>2 DEF OfKey
<1>3. CASE t = s
  <2>1. /\ n \in Nat /\ DOMAIN domains[s] = 1 .. n /\ DOMAIN domains'[s] = 1 .. n + 1
        /\ \A i \in 1 .. n : domains'[s][i] = domains[s][i]
        /\ domains'[s][n + 1] = new
    <3>1. counter[s] \in Nums /\ domains[s] \in Seq(Domain)
      BY MaxNumNat DEF TypeOK, NewDomain, Nums
    <3>2. new \in Domain
      BY <3>1 DEF Domain
    <3> QED
      BY <3>1, <3>2, <1>1
  <2>2. new.key = key
    OBVIOUS
  <2> HIDE DEF n, new
  <2>3. 1 .. n + 1 = (1 .. n) \cup {n + 1} /\ n + 1 \notin 1 .. n
    BY <2>1
  <2>4. OfKey(s, k)' = {i \in 1 .. n + 1 : domains'[s][i].key = k}
    BY <2>1 DEF OfKey
  <2>5. OfKey(s, k) = {i \in 1 .. n : domains[s][i].key = k}
    BY <2>1 DEF OfKey
  <2>6. CASE k = key
    <3>1. OfKey(s, k)' = OfKey(s, k) \cup {n + 1} /\ n + 1 \notin OfKey(s, k)
      BY <2>1, <2>2, <2>3, <2>4, <2>5, <2>6
    <3> QED
      BY <3>1, <2>6, <1>3, OfKeyFinite, FS_AddElement
  <2>7. CASE k # key
    <3>1. OfKey(s, k)' = OfKey(s, k)
      BY <2>1, <2>2, <2>3, <2>4, <2>5, <2>7
    <3> QED
      BY <3>1, <2>7, <1>3
  <2> QED
    BY <2>6, <2>7
<1> QED
  BY <1>2, <1>3

\* Removal leaves no more of any key.
LEMMA DeletedCount ==
  ASSUME Core, NEW s \in Servers, NEW num \in Nums, objects[s][num] = "domain", Deleted(s, num),
         NEW t \in Servers, NEW k
  PROVE  Cardinality(OfKey(t, k)') <= Cardinality(OfKey(t, k))
<1> DEFINE p == At(s, num)
           list == Erased(domains[s], p)
<1>1. p \in DOMAIN domains[s] /\ domains[s] \in Seq(Domain)
  BY PlaceOf DEF Core, TypeOK
<1>2. domains'[s] = list /\ \A u \in Servers \ {s} : domains'[u] = domains[u]
  BY DEF Deleted, Core, TypeOK
<1>3. /\ DOMAIN list = 1 .. Len(domains[s]) - 1
      /\ \A j \in DOMAIN list : list[j] = IF j < p THEN domains[s][j] ELSE domains[s][j + 1]
  BY <1>1, ErasedAt
<1>4. IsFiniteSet(OfKey(t, k)) /\ Cardinality(OfKey(t, k)) \in Nat
  BY OfKeyFinite DEF Core
<1>5. CASE t # s
  <2>1. OfKey(t, k)' = OfKey(t, k)
    BY <1>2, <1>5 DEF OfKey
  <2> QED
    BY <2>1, <1>4
<1>6. CASE t = s
  <2> HIDE DEF list, p
  <2> DEFINE up == [j \in OfKey(s, k)' |-> IF j < p THEN j ELSE j + 1]
  <2>1. OfKey(s, k)' = {j \in DOMAIN list : list[j].key = k}
    BY <1>2 DEF OfKey
  <2>2. Len(domains[s]) \in Nat /\ DOMAIN domains[s] = 1 .. Len(domains[s]) /\ p \in Nat
    BY <1>1
  <2>3. ASSUME NEW j \in OfKey(s, k)'
        PROVE j \in Nat /\ up[j] \in OfKey(s, k)
    <3>1. j \in DOMAIN list /\ list[j].key = k
      BY <2>1
    <3>2. j \in Nat /\ j \in DOMAIN domains[s] /\ j + 1 \in DOMAIN domains[s]
      BY <3>1, <1>3, <2>2
    <3> QED
      BY <3>1, <3>2, <1>3 DEF OfKey
  <2>4. \A i, j \in OfKey(s, k)' : up[i] = up[j] => i = j
    <3> SUFFICES ASSUME NEW i \in OfKey(s, k)', NEW j \in OfKey(s, k)', up[i] = up[j]
                 PROVE i = j
      OBVIOUS
    <3> QED
      BY <2>2, <2>3
  <2>5. up \in Injection(OfKey(s, k)', OfKey(s, k))
    <3>1. up \in [OfKey(s, k)' -> OfKey(s, k)]
      BY <2>3
    <3> HIDE DEF up
    <3> QED
      BY <3>1, <2>4 DEF Injection, IsInjective
  <2> QED
    BY <2>5, <1>4, <1>6, FS_Injection
<1> QED
  BY <1>5, <1>6

LEMMA SharesKept ==
  ASSUME OpenShares, TypeOK, UNCHANGED creates,
         \A s \in Servers, k \in Keys : Cardinality(OfKey(s, k)') <= Cardinality(OfKey(s, k)),
         \A s \in Servers, k \in Keys : Cardinality(OfKey(s, k)') \in Nat
  PROVE  OpenShares'
<1> SUFFICES ASSUME NEW s \in Servers, NEW k \in Keys
             PROVE Cardinality(OfKey(s, k)') <= creates[s][k] + 1
  BY DEF OpenShares, OfKey
<1>1. Cardinality(OfKey(s, k)) <= creates[s][k] + 1
  BY DEF OpenShares, OfKey
<1>2. creates[s][k] \in Nat /\ Cardinality(OfKey(s, k)) \in Nat
  BY OfKeyFinite DEF TypeOK
<1> QED
  BY <1>1, <1>2

LEMMA CountsNat ==
  ASSUME TypeOK'
  PROVE  \A s \in Servers, k \in Keys : Cardinality(OfKey(s, k)') \in Nat
<1> SUFFICES ASSUME NEW s \in Servers, NEW k \in Keys
             PROVE Cardinality(OfKey(s, k)') \in Nat
  OBVIOUS
<1>1. domains'[s] \in Seq(Domain)
  BY DEF TypeOK
<1>2. DOMAIN domains'[s] = 1 .. Len(domains'[s]) /\ Len(domains'[s]) \in Nat
  BY <1>1
<1>3. IsFiniteSet(1 .. Len(domains'[s]))
  BY <1>2, FS_Interval
<1>4. OfKey(s, k)' \subseteq 1 .. Len(domains'[s])
  BY <1>2 DEF OfKey
<1> QED
  BY <1>3, <1>4, FS_Subset, FS_CardinalityType

LEMMA CreateDomainShares ==
  ASSUME Core, Core', OpenShares, NEW s \in Servers, NEW key \in Keys, CreateDomain(s, key)
  PROVE  OpenShares'
<1> SUFFICES ASSUME NEW t \in Servers, NEW k \in Keys
             PROVE Cardinality(OfKey(t, k)') <= creates'[t][k] + 1
  BY DEF OpenShares, OfKey
<1>1. Cardinality(OfKey(t, k)) <= creates[t][k] + 1
  BY DEF OpenShares, OfKey
<1>2. creates[t][k] \in Nat /\ Cardinality(OfKey(t, k)) \in Nat
  BY OfKeyFinite DEF Core, TypeOK
<1>3. creates'[t][k] = IF t = s /\ k = key THEN creates[t][k] + 1 ELSE creates[t][k]
  BY DEF CreateDomain, Core, TypeOK
<1>4. Cardinality(OfKey(t, k)') =
        IF t = s /\ k = key THEN Cardinality(OfKey(t, k)) + 1 ELSE Cardinality(OfKey(t, k))
  BY NewDomainCount DEF CreateDomain, Core
<1> QED
  BY <1>1, <1>2, <1>3, <1>4

\* A domain is opened anew only if no domain fits, and one of the same key
\* would.
LEMMA OpenDomainShares ==
  ASSUME Core, Core', OpenShares, NEW s \in Servers, NEW key \in Keys, OpenDomain(s, key)
  PROVE  OpenShares'
<1>1. CASE Matches(s, key) # {}
  <2>1. UNCHANGED <<domains, creates>>
    BY <1>1 DEF OpenDomain, registry
  <2> QED
    BY <2>1 DEF OpenShares
<1>2. CASE Matches(s, key) = {}
  <2> SUFFICES ASSUME NEW t \in Servers, NEW k \in Keys
               PROVE Cardinality(OfKey(t, k)') <= creates'[t][k] + 1
    BY DEF OpenShares, OfKey
  <2>1. NewDomain(s, key) /\ UNCHANGED creates
    BY <1>2 DEF OpenDomain
  <2>2. Cardinality(OfKey(t, k)) <= creates[t][k] + 1
    BY DEF OpenShares, OfKey
  <2>3. creates[t][k] \in Nat /\ Cardinality(OfKey(t, k)) \in Nat
    BY OfKeyFinite DEF Core, TypeOK
  <2>4. Cardinality(OfKey(t, k)') =
          IF t = s /\ k = key THEN Cardinality(OfKey(t, k)) + 1 ELSE Cardinality(OfKey(t, k))
    BY <2>1, NewDomainCount DEF Core
  <2>5. Fits(key, key)
    BY DEF Fits, FitsName
  <2>6. OfKey(s, key) = {}
    BY <1>2, <2>5 DEF OfKey, Matches
  <2>7. Cardinality(OfKey(s, key)) = 0
    BY <2>6, FS_EmptySet
  <2> QED
    BY <2>1, <2>2, <2>3, <2>4, <2>7
<1> QED
  BY <1>1, <1>2

LEMMA RestartShares ==
  ASSUME Core, OpenShares, NEW s \in Servers, Restart(s)
  PROVE  OpenShares'
<1>1. /\ domains' = [domains EXCEPT ![s] = <<>>]
      /\ creates' = [creates EXCEPT ![s] = [k \in Keys |-> 0]]
  BY DEF Restart
<1> SUFFICES ASSUME NEW t \in Servers, NEW k \in Keys
             PROVE Cardinality(OfKey(t, k)') <= creates'[t][k] + 1
  BY DEF OpenShares, OfKey
<1>2. CASE t # s
  <2>1. domains'[t] = domains[t] /\ creates'[t] = creates[t]
    BY <1>1, <1>2 DEF Core, TypeOK
  <2> QED
    BY <2>1 DEF OpenShares, OfKey
<1>3. CASE t = s
  <2>1. domains'[s] = <<>> /\ creates'[s][k] = 0
    BY <1>1 DEF Core, TypeOK
  <2>2. OfKey(s, k)' = {}
    BY <2>1 DEF OfKey
  <2>3. Cardinality(OfKey(s, k)') = 0
    BY <2>2, FS_EmptySet
  <2> QED
    BY <1>3, <2>1, <2>3
<1> QED
  BY <1>2, <1>3

LEMMA RemoveDomainShares ==
  ASSUME Core, Core', OpenShares, NEW c \in Clients, NEW h \in issued, RemoveDomain(c, h)
  PROVE  OpenShares'
<1> DEFINE i == ServiceOfId(services[c], h.id.server)
           s == services[c][i]
<1>1. CASE UNCHANGED <<domains, creates>>
  BY <1>1 DEF OpenShares
<1>2. CASE ~ UNCHANGED <<domains, creates>>
  <2>1. i # 0
    BY <1>2 DEF RemoveDomain, registry
  <2>2. RemoveAt(s, h.id) /\ UNCHANGED creates
    BY <2>1 DEF RemoveDomain
  <2>3. s \in Servers /\ h.id.num \in Nums
    <3>1. services[c] \in Seq(Servers)
      BY DEF Core, TypeOK
    <3>2. i \in DOMAIN services[c]
      BY <2>1, <3>1, ServiceOfIdType
    <3> QED
      BY <3>1, <3>2 DEF Core, TypeOK, Ids
  <2> HIDE DEF i, s
  <2>4. objects[s][h.id.num] \in {"none", "null", "domain", "other"}
    BY <2>3 DEF Core, TypeOK
  <2>5. objects[s][h.id.num] = "domain" /\ Deleted(s, h.id.num)
    BY <1>2, <2>2, <2>4 DEF RemoveAt
  <2>6. \A t \in Servers, k \in Keys : Cardinality(OfKey(t, k)') <= Cardinality(OfKey(t, k))
    BY <2>3, <2>5, DeletedCount
  <2>7. \A t \in Servers, k \in Keys : Cardinality(OfKey(t, k)') \in Nat
    BY CountsNat DEF Core
  <2> QED
    BY <2>2, <2>6, <2>7, SharesKept DEF Core
<1> QED
  BY <1>1, <1>2

---------------------------------------------------------------------------
(* The theorems. *)

LEMMA Step == IInv /\ [Next]_vars => IInv'
<1> SUFFICES ASSUME IInv, [Next]_vars PROVE IInv'
  OBVIOUS
<1> USE DEF IInv, Core
<1>1. ASSUME NEW s \in Servers, NewObject(s) PROVE IInv'
  <2>1. UNCHANGED <<domains, creates>>
    BY <1>1 DEF NewObject
  <2> QED
    BY <1>1, <2>1, NewObjectCore DEF OpenShares
<1>2. ASSUME NEW s \in Servers, Restart(s) PROVE IInv'
  BY <1>2, RestartCore, RestartShares
<1>3. ASSUME NEW c \in Clients, NEW s \in Servers, Open(c, s) PROVE IInv'
  BY <1>3, OpenCore DEF Open, OpenShares, registry
<1>4. ASSUME NEW c \in Clients, NEW i, Close(c, i) PROVE IInv'
  BY <1>4, CloseCore DEF Close, OpenShares, registry
<1>5. ASSUME NEW s \in Servers, NEW key \in Keys, CreateDomain(s, key) PROVE IInv'
  <2>1. creates' \in [Servers -> [Keys -> Nat]]
    BY <1>5 DEF CreateDomain, TypeOK
  <2>2. Core'
    BY <1>5, <2>1, NewDomainCore DEF CreateDomain
  <2> QED
    BY <1>5, <2>2, CreateDomainShares
<1>6. ASSUME NEW s \in Servers, NEW key \in Keys, OpenDomain(s, key) PROVE IInv'
  <2>1. CASE Matches(s, key) # {}
    BY <1>6, <2>1, OpenedCore, OpenDomainShares
  <2>2. CASE Matches(s, key) = {}
    <3>1. NewDomain(s, key) /\ UNCHANGED <<services, failed, strayed>> /\ creates' \in [Servers -> [Keys -> Nat]]
      BY <1>6, <2>2 DEF OpenDomain, TypeOK
    <3>2. Core'
      BY <3>1, NewDomainCore
    <3> QED
      BY <1>6, <3>2, OpenDomainShares
  <2> QED
    BY <2>1, <2>2
<1>7. ASSUME NEW c \in Clients, NEW h \in issued, RemoveDomain(c, h) PROVE IInv'
  BY <1>7, RemoveDomainCore, RemoveDomainShares
<1>8. CASE UNCHANGED vars
  BY <1>8 DEF vars, registry, TypeOK, Spaced, MapInList, RunsGrow, Unspoilt, IdsGoodAtHome, OpenShares, ListedNums
<1>9. \A c \in Clients : services[c] \in Seq(Servers)
  BY DEF TypeOK
<1>10. ASSUME NEW c \in Clients, NEW i \in DOMAIN services[c] PROVE services[c][i] \in Servers
  BY <1>9
<1> QED
  BY <1>1, <1>2, <1>3, <1>4, <1>5, <1>6, <1>7, <1>8, <1>10 DEF Next

\* What is said above holds in every state of any number of servers and
\* clients.
THEOREM Invariance == Spec => []IInv
  BY Initially, Step, PTL DEF Spec

\* Every variable keeps its type.
THEOREM TypeCorrect == Spec => []TypeOK
<1>1. IInv => TypeOK
  BY DEF IInv
<1> QED
  BY <1>1, Invariance, PTL

\* Every domain the map resolves is listed, in the order of creation and once.
THEOREM ListAndMap == Spec => []ListFollowsMap
<1>1. IInv => ListFollowsMap
  <2> SUFFICES ASSUME IInv, NEW s \in Servers
               PROVE /\ {n \in Nums : objects[s][n] = "domain"} \subseteq ListedNums(s)
                     /\ \A i \in 1 .. Len(domains[s]) - 1 : domains[s][i].num < domains[s][i + 1].num
    BY DEF ListFollowsMap
  <2>1. {n \in Nums : objects[s][n] = "domain"} \subseteq ListedNums(s)
    BY DEF IInv, MapInList
  <2>2. ASSUME NEW i \in 1 .. Len(domains[s]) - 1
        PROVE domains[s][i].num < domains[s][i + 1].num
    <3>1. /\ i \in DOMAIN domains[s] /\ i + 1 \in DOMAIN domains[s] /\ i < i + 1
      BY ListIndex DEF IInv
    <3>2. /\ domains[s][i].num \in Nat /\ domains[s][i + 1].num \in Nat
          /\ domains[s][i].num + 2 <= domains[s][i + 1].num
      BY <3>1, ListIndex DEF IInv, Spaced, Nums
    <3> QED
      BY <3>2
  <2> QED
    BY <2>1, <2>2
<1> QED
  BY <1>1, Invariance, PTL

\* Clients that open a domain share it with all others that do.
THEOREM OpenedAreShared == Spec => []OpenShares
<1>1. IInv => OpenShares
  BY DEF IInv
<1> QED
  BY <1>1, Invariance, PTL

\* Ids that come back to the run that made them denote what they did.
THEOREM IdsDenote == Spec => []IdsGoodAtHome
<1>1. IInv => IdsGoodAtHome
  BY DEF IInv
<1> QED
  BY <1>1, Invariance, PTL
=============================================================================
