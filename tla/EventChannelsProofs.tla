------------------------ MODULE EventChannelsProofs ------------------------
(***************************************************************************)
(* What holds of the event channels for any number of objects and          *)
(* registrations, any size of a bucket and any number of events: targets   *)
(* hang off the stone that is submitted to, data follows its creation, a   *)
(* registration gets what it is owed, once and in order, and all of it is  *)
(* what Subscriptions promises to clients that know nothing of stones.     *)
(***************************************************************************)
EXTENDS EventChannels, FiniteSetTheorems, SequenceTheorems, WellFoundedInduction, TLAPS

---------------------------------------------------------------------------
(* The inductive invariant. *)

\* The stone events of its type are submitted to.
First(list, i) == \A j \in 1 .. i - 1 : list[j].type # list[i].type

\* Registrations that were answered: each sent one event at most.
Replied == {s \in Sinks : sink[s].state \notin {"idle", "asked"}}

\* Room in the history for what is still to be sent.
Room == Len(log) + Len(todo) <= MaxLog + Cardinality(Replied)

\* Events are about objects that are there; a deletion is the last of its object.
TodoGood ==
  \A i \in DOMAIN todo :
    /\ todo[i].of \in Objects => status[todo[i].of] # "absent"
    /\ todo[i].of = "root" => todo[i].what = "bind"
    /\ todo[i].what = "delete" => Len(todo) = 1
    /\ todo[i].what \in DataTypes => todo[i].of \in Entities

\* Nothing is left of what is gone, and the domain has its one stone.
Gone ==
  /\ \A o \in Objects : status[o] = "absent" => stones[o] = <<>>
  /\ ~up => /\ todo = <<>>
            /\ \A p \in Proactives \ Contexts : stones[p] = <<>>
            /\ \A e \in Entities : status[e] = "absent"
  /\ up => /\ Len(stones["domain"]) = 1
           /\ stones["domain"][1].type = "domain"

\* Only entities' data is aggregated, at the stone that is submitted to; it holds less than
\* a bucket.
GathersAt(p, list, i) ==
  /\ list[i].stored => p \in Entities /\ list[i].type \in DataTypes /\ First(list, i)
  /\ ~list[i].stored => list[i].held = <<>>
  /\ Len(list[i].held) < Bucket

\* A stone holds the latest events of its channel, all from the first it holds.
HoldsLatestAt(p, list, i) ==
  /\ \A k \in DOMAIN list[i].held :
       /\ list[i].held[k] \in DOMAIN log \ dropped
       /\ Concerns(log[list[i].held[k]], <<p, list[i].type>>)
  /\ \A k, m \in DOMAIN list[i].held : k < m => list[i].held[k] < list[i].held[m]
  /\ list[i].held # <<>> =>
       \A n \in DOMAIN log : n >= list[i].held[1] /\ Concerns(log[n], <<p, list[i].type>>)
                             => n \in Range(list[i].held)

\* Targets are registrations that are served, at the stone that is submitted to.
ServesAt(p, list, i) ==
  \A s \in list[i].targets :
    /\ Registered(s) /\ until[s] = Open
    /\ sink[s].channel = <<p, list[i].type>>
    /\ First(list, i)

\* What a stone holds is still to come to its targets, and is none of the business of those
\* that went with an earlier object of the name.
HoldsNewAt(p, list, i) ==
  \A k \in DOMAIN list[i].held : \A s \in Sinks :
    Registered(s) /\ sink[s].channel = <<p, list[i].type>> =>
      IF until[s] = Open THEN since[s] < list[i].held[k] ELSE until[s] < list[i].held[k]

Gathers(p, list) == \A i \in DOMAIN list : GathersAt(p, list, i)
HoldsLatest(p, list) == \A i \in DOMAIN list : HoldsLatestAt(p, list, i)
Serves(p, list) == \A i \in DOMAIN list : ServesAt(p, list, i)
HoldsNew(p, list) == \A i \in DOMAIN list : HoldsNewAt(p, list, i)

ListGood(p, list) ==
  Gathers(p, list) /\ HoldsLatest(p, list) /\ Serves(p, list) /\ HoldsNew(p, list)

ListsGood == \A p \in Proactives : ListGood(p, stones[p])

\* A registration has a stone as long as its object exists.
Hangs ==
  \A s \in Sinks : Registered(s) /\ until[s] = Open =>
    \E i \in DOMAIN stones[sink[s].channel[1]] : s \in stones[sink[s].channel[1]][i].targets

\* What a registration has come to, seen from outside.
SinksGood ==
  \A s \in Sinks :
    /\ ~Registered(s) => until[s] = Open /\ missed[s] = <<>> /\ got[s] = <<>> /\ wire[s] = <<>>
    /\ Registered(s) => /\ since[s] <= Len(log)
                        /\ until[s] = Open \/ until[s] <= Len(log)
    /\ sink[s].state = "ok" => got[s] = <<>>

\* The parts of NoGap, with what makes them inductive.
InOrder(stream) ==
  /\ \A i \in DOMAIN stream :
       /\ Len(stream[i]) \in {1, Bucket}
       /\ \A k, m \in DOMAIN stream[i] : k < m => stream[i][k] < stream[i][m]
  /\ \A i, j \in DOMAIN stream : i < j =>
       \A k \in DOMAIN stream[i], m \in DOMAIN stream[j] : stream[i][k] < stream[j][m]

Delivered ==
  \A s \in Sinks : Registered(s) => Contents(Stream(s)) = Due(s) \ HeldFor(s)

Ordered == \A s \in Sinks : InOrder(Stream(s))

\* The history together with what the present handler will add to it.
Ahead == Len(log) + Len(todo)
At(n) == IF n <= Len(log) THEN log[n] ELSE todo[n - Len(log)]

CreatedBy(e, n) ==
  \E m \in 1 .. n : /\ At(m) = Event(e, "create")
                    /\ \A k \in m + 1 .. n : At(k) # Event(e, "delete")

CreatedFirst ==
  /\ \A n \in 1 .. Ahead : At(n).what \in DataTypes => CreatedBy(At(n).of, n)
  /\ \A e \in Entities :
       status[e] = "real" /\ (todo # <<>> => Head(todo) # Event(e, "delete")) =>
         CreatedBy(e, Ahead)

Counts == Room /\ dropped \subseteq DOMAIN log

Core == TypeOK /\ Counts /\ TodoGood /\ Gone /\ ListsGood /\ Hangs /\ SinksGood

IInv == Core /\ Delivered /\ Ordered /\ CreatedFirst

---------------------------------------------------------------------------
(* Names, types, channels. *)

LEMMA Names ==
  /\ Objects \subseteq Proactives /\ "root" \in Proactives /\ "domain" \in Proactives
  /\ "root" \notin Objects /\ "domain" \notin Objects /\ "root" # "domain"
  /\ Entities \subseteq Objects /\ Contexts \subseteq Objects
  /\ \A o \in Objects : o \in Entities <=> o \notin Contexts
BY ObjectsApart DEF Objects, Proactives

LEMMA ChannelFacts ==
  ASSUME NEW c \in Channels
  PROVE  /\ c = <<c[1], c[2]>> /\ c[1] \in Proactives /\ c[2] \in Types
         /\ (c[1] = "domain" <=> c[2] = "domain")
         /\ (c[1] \in Entities => c[2] # "exist")
<1>1. CASE c = <<"domain", "domain">> \/ c = <<"root", "bind">>
  BY <1>1, ObjectsApart DEF Objects, Proactives, Types
<1>2. CASE c \in Contexts \X {"bind", "exist"}
  BY <1>2, ObjectsApart DEF Objects, Proactives, Types
<1>3. CASE c \in Entities \X ({"bind"} \cup DataTypes)
  <2>1. c[1] \in Entities /\ c[2] \in {"bind"} \cup DataTypes /\ c = <<c[1], c[2]>>
    BY <1>3
  <2>2. c[2] \in {"bind", "char", "int", "float"}
    BY <2>1, DataTypesKnown
  <2> QED
    BY <2>1, <2>2, ObjectsApart DEF Objects, Proactives, Types
<1> QED
  BY <1>1, <1>2, <1>3 DEF Channels

LEMMA TypeOfFacts ==
  /\ \A e \in LogEntry : TypeOf(e.what) \in Types \ {"domain"}
  /\ \A t \in DataTypes : TypeOf(t) = t /\ t \in Types \ {"domain", "bind", "exist"}
  /\ TypeOf("create") = "exist" /\ TypeOf("delete") = "exist"
  /\ TypeOf("bind") = "bind" /\ TypeOf("unbind") = "bind"
BY DataTypesKnown DEF LogEntry, TypeOf, Types

LEMMA Events ==
  /\ \A o \in Objects \cup {"root"}, what \in {"create", "delete", "bind", "unbind"} \cup DataTypes :
       /\ Event(o, what) \in LogEntry
       /\ Event(o, what).of = o /\ Event(o, what).what = what
BY DEF Event, LogEntry

LEMMA OpenFacts ==
  /\ Open \in Nat /\ MaxLog < Open /\ Cardinality(Sinks) \in Nat
  /\ \A S \in SUBSET Sinks : /\ IsFiniteSet(S) /\ Cardinality(S) \in Nat
                             /\ MaxLog + Cardinality(S) < Open
<1>1. Cardinality(Sinks) \in Nat
  BY SinksFinite, FS_CardinalityType
<1>2. ASSUME NEW S \in SUBSET Sinks
      PROVE  IsFiniteSet(S) /\ Cardinality(S) \in Nat /\ Cardinality(S) <= Cardinality(Sinks)
  BY SinksFinite, FS_Subset, FS_CardinalityType
<1> QED
  BY <1>1, <1>2, MaxLogNat DEF Open

---------------------------------------------------------------------------
(* Lists of stones. *)

\* A set of positions has a first.
LEMMA FirstIn ==
  ASSUME NEW S, S \subseteq Nat, S # {}
  PROVE  \E i \in S : \A j \in S : i <= j
<1>1. \E x \in S : \A y \in S : ~ (<<y, x>> \in OpToRel(<, Nat))
  BY NatLessThanWellFounded, WFMin
<1>2. PICK x \in S : \A y \in S : ~ (<<y, x>> \in OpToRel(<, Nat))
  BY <1>1
<1>3. ASSUME NEW y \in S
      PROVE  x <= y
  <2>1. ~ (y < x)
    BY <1>2 DEF OpToRel
  <2> QED
    BY <2>1
<1> QED
  BY <1>3

\* Where determine_stone_set_up finds a type.
LEMMA StoneOfIs ==
  ASSUME NEW list \in Seq(Stone), NEW t, Has(list, t)
  PROVE  /\ StoneOf(list, t) \in DOMAIN list
         /\ list[StoneOf(list, t)].type = t
         /\ First(list, StoneOf(list, t))
<1> DEFINE S == {i \in DOMAIN list : list[i].type = t}
<1>1. S # {} /\ S \subseteq Nat
  BY DEF Has
<1>2. PICK i \in S : \A j \in S : i <= j
  BY <1>1, FirstIn
<1>3. list[i].type = t /\ \A j \in 1 .. i - 1 : list[j].type # t
  BY <1>2
<1>4. i \in DOMAIN list
  BY <1>2
<1> HIDE DEF S
<1>5. \E k \in DOMAIN list : list[k].type = t /\ \A j \in 1 .. k - 1 : list[j].type # t
  BY <1>3, <1>4
<1> QED
  BY <1>5 DEF StoneOf, First

\* There is one first stone of a type.
LEMMA FirstOnce ==
  ASSUME NEW list \in Seq(Stone), NEW i \in DOMAIN list, NEW j \in DOMAIN list,
         First(list, i), First(list, j), list[i].type = list[j].type
  PROVE  i = j
<1>1. i \in Nat /\ j \in Nat /\ i >= 1 /\ j >= 1
  OBVIOUS
<1>2. ~ (i < j) /\ ~ (j < i)
  BY <1>1 DEF First
<1> QED
  BY <1>1, <1>2

\* A list with new stones at its end.
Grown(list, more) ==
  /\ Len(list) <= Len(more)
  /\ \A i \in DOMAIN list : more[i] = list[i]
  /\ \A i \in DOMAIN more \ DOMAIN list : more[i] = NewStone(more[i].type)

LEMMA NewStoneIs ==
  ASSUME NEW t
  PROVE  /\ NewStone(t).type = t /\ NewStone(t).stored = FALSE
         /\ NewStone(t).held = <<>> /\ NewStone(t).targets = {}
         /\ t \in Types => NewStone(t) \in Stone
BY DEF NewStone, Stone

LEMMA GrownSelf ==
  ASSUME NEW list
  PROVE  Len(list) \in Nat => Grown(list, list)
BY DEF Grown

LEMMA GrownConcat ==
  ASSUME NEW list \in Seq(Stone), NEW more \in Seq(Stone),
         \A i \in DOMAIN more : more[i] = NewStone(more[i].type)
  PROVE  list \o more \in Seq(Stone) /\ Grown(list, list \o more)
<1>1. /\ list \o more \in Seq(Stone)
      /\ Len(list \o more) = Len(list) + Len(more)
      /\ \A i \in 1 .. Len(list) + Len(more) :
           (list \o more)[i] = IF i <= Len(list) THEN list[i] ELSE more[i - Len(list)]
  BY ConcatProperties
<1>2. \A i \in 1 .. Len(list) : (list \o more)[i] = list[i]
  BY <1>1
<1>3. ASSUME NEW i \in 1 .. Len(list) + Len(more), i \notin 1 .. Len(list)
      PROVE  (list \o more)[i] = NewStone((list \o more)[i].type)
  <2>1. i - Len(list) \in DOMAIN more /\ (list \o more)[i] = more[i - Len(list)]
    BY <1>1, <1>3
  <2> QED
    BY <2>1
<1> QED
  BY <1>1, <1>2, <1>3 DEF Grown

LEMMA GrownTwice ==
  ASSUME NEW a \in Seq(Stone), NEW b \in Seq(Stone), NEW c \in Seq(Stone), Grown(a, b), Grown(b, c)
  PROVE  Grown(a, c)
BY DEF Grown

LEMMA SetUpGrown ==
  ASSUME NEW list \in Seq(Stone), NEW t \in Types
  PROVE  /\ SetUp(list, t) \in Seq(Stone) /\ Grown(list, SetUp(list, t))
         /\ Has(SetUp(list, t), t)
<1>1. CASE Has(list, t)
  BY <1>1, GrownSelf DEF SetUp
<1>2. CASE ~Has(list, t)
  <2>1. NewStone(t) \in Stone /\ NewStone(t).type = t
    BY NewStoneIs
  <2>2. SetUp(list, t) = Append(list, NewStone(t))
    BY <1>2 DEF SetUp
  <2>3. /\ SetUp(list, t) \in Seq(Stone) /\ Len(SetUp(list, t)) = Len(list) + 1
        /\ \A i \in 1 .. Len(list) : SetUp(list, t)[i] = list[i]
        /\ SetUp(list, t)[Len(list) + 1] = NewStone(t)
    BY <2>1, <2>2
  <2> HIDE DEF SetUp
  <2> QED
    BY <2>1, <2>3 DEF Grown, Has
<1> QED
  BY <1>1, <1>2

\* The first of a type stays the first.
LEMMA GrownFirst ==
  ASSUME NEW list \in Seq(Stone), NEW more \in Seq(Stone), Grown(list, more),
         NEW i \in DOMAIN list
  PROVE  i \in DOMAIN more /\ more[i] = list[i] /\ (First(list, i) => First(more, i))
BY DEF Grown, First

\* New stones change nothing of what holds of a list.
LEMMA GrownGood ==
  ASSUME NEW p, NEW list \in Seq(Stone), NEW more \in Seq(Stone), Grown(list, more),
         ListGood(p, list)
  PROVE  ListGood(p, more)
<1>1. \A i \in DOMAIN list : more[i] = list[i] /\ (First(list, i) => First(more, i))
  BY GrownFirst
<1>2. ASSUME NEW i \in DOMAIN more, i \notin DOMAIN list
      PROVE  ~more[i].stored /\ more[i].held = <<>> /\ more[i].targets = {}
  <2>1. more[i] = NewStone(more[i].type)
    BY <1>2 DEF Grown
  <2>2. \A t : /\ NewStone(t).stored = FALSE /\ NewStone(t).held = <<>>
               /\ NewStone(t).targets = {}
    BY NewStoneIs
  <2> QED
    BY <2>1, <2>2
<1>3. DOMAIN <<>> = {} /\ Len(<<>>) = 0 /\ 0 < Bucket
  BY BucketPos
<1>4. Gathers(p, more)
  <2> SUFFICES ASSUME NEW i \in DOMAIN more
               PROVE  GathersAt(p, more, i)
    BY DEF Gathers
  <2>1. CASE i \in DOMAIN list
    <3>1. more[i] = list[i] /\ (First(list, i) => First(more, i))
      BY <2>1, <1>1
    <3>2. GathersAt(p, list, i)
      BY <2>1 DEF ListGood, Gathers
    <3> QED
      BY <3>1, <3>2 DEF GathersAt
  <2>2. CASE i \notin DOMAIN list
    BY <2>2, <1>2, <1>3 DEF GathersAt
  <2> QED
    BY <2>1, <2>2
<1>5. HoldsLatest(p, more)
  <2> SUFFICES ASSUME NEW i \in DOMAIN more
               PROVE  HoldsLatestAt(p, more, i)
    BY DEF HoldsLatest
  <2>1. CASE i \in DOMAIN list
    <3>1. more[i] = list[i] /\ (First(list, i) => First(more, i))
      BY <2>1, <1>1
    <3>2. HoldsLatestAt(p, list, i)
      BY <2>1 DEF ListGood, HoldsLatest
    <3> QED
      BY <3>1, <3>2 DEF HoldsLatestAt
  <2>2. CASE i \notin DOMAIN list
    BY <2>2, <1>2, <1>3 DEF HoldsLatestAt
  <2> QED
    BY <2>1, <2>2
<1>6. Serves(p, more)
  <2> SUFFICES ASSUME NEW i \in DOMAIN more
               PROVE  ServesAt(p, more, i)
    BY DEF Serves
  <2>1. CASE i \in DOMAIN list
    <3>1. more[i] = list[i] /\ (First(list, i) => First(more, i))
      BY <2>1, <1>1
    <3>2. ServesAt(p, list, i)
      BY <2>1 DEF ListGood, Serves
    <3> QED
      BY <3>1, <3>2 DEF ServesAt
  <2>2. CASE i \notin DOMAIN list
    BY <2>2, <1>2, <1>3 DEF ServesAt
  <2> QED
    BY <2>1, <2>2
<1>7. HoldsNew(p, more)
  <2> SUFFICES ASSUME NEW i \in DOMAIN more
               PROVE  HoldsNewAt(p, more, i)
    BY DEF HoldsNew
  <2>1. CASE i \in DOMAIN list
    <3>1. more[i] = list[i] /\ (First(list, i) => First(more, i))
      BY <2>1, <1>1
    <3>2. HoldsNewAt(p, list, i)
      BY <2>1 DEF ListGood, HoldsNew
    <3> QED
      BY <3>1, <3>2 DEF HoldsNewAt
  <2>2. CASE i \notin DOMAIN list
    BY <2>2, <1>2, <1>3 DEF HoldsNewAt
  <2> QED
    BY <2>1, <2>2
<1> QED
  BY <1>4, <1>5, <1>6, <1>7 DEF ListGood

---------------------------------------------------------------------------
(* What a step leaves alone. *)

\* The registrations with channels of p stay as they are.
Undisturbed(p) ==
  \A s \in Sinks :
    /\ (Registered(s) /\ sink[s].channel[1] = p) <=> (Registered(s) /\ sink[s].channel[1] = p)'
    /\ Registered(s) /\ sink[s].channel[1] = p =>
         sink'[s].channel = sink[s].channel /\ since'[s] = since[s] /\ until'[s] = until[s]

\* Events that are added are not of p.
Silent(p) ==
  /\ DOMAIN log \subseteq DOMAIN log'
  /\ \A n \in DOMAIN log : log'[n] = log[n]
  /\ p \in Entities => \A n \in DOMAIN log' \ DOMAIN log : log'[n].of # p

\* What a stone holds stays what it is to hold, when none of the events that are added
\* would have come to it.
LEMMA LatestMoved ==
  ASSUME NEW p, NEW list \in Seq(Stone), NEW i \in DOMAIN list, HoldsLatestAt(p, list, i),
         DOMAIN log \subseteq DOMAIN log', \A n \in DOMAIN log : log'[n] = log[n],
         \A n \in DOMAIN log' \ DOMAIN log :
           list[i].held # <<>> => ~Concerns(log'[n], <<p, list[i].type>>),
         \A k \in DOMAIN list[i].held : list[i].held[k] \notin dropped'
  PROVE  HoldsLatestAt(p, list, i)'
<1>1. \A n \in DOMAIN log : \A c : Concerns(log'[n], c) = Concerns(log[n], c)
  BY DEF Concerns
<1>2. \A k \in DOMAIN list[i].held :
        /\ list[i].held[k] \in DOMAIN log' \ dropped'
        /\ Concerns(log'[list[i].held[k]], <<p, list[i].type>>)
  BY <1>1 DEF HoldsLatestAt
<1>3. ASSUME list[i].held # <<>>, NEW n \in DOMAIN log', n >= list[i].held[1],
             Concerns(log'[n], <<p, list[i].type>>)
      PROVE  n \in Range(list[i].held)
  <2>1. n \in DOMAIN log
    BY <1>3
  <2> QED
    BY <1>1, <1>3, <2>1 DEF HoldsLatestAt
<1> QED
  BY <1>2, <1>3 DEF HoldsLatestAt, Concerns

LEMMA ListMoved ==
  ASSUME NEW p \in Proactives, NEW list \in Seq(Stone), ListGood(p, list), stones'[p] = list,
         \A i \in DOMAIN list : list[i].targets \subseteq Sinks,
         Undisturbed(p), Silent(p),
         \A i \in DOMAIN list : \A k \in DOMAIN list[i].held : list[i].held[k] \notin dropped'
  PROVE  ListGood(p, stones[p])'
<1>1. ASSUME NEW i \in DOMAIN list
      PROVE  GathersAt(p, stones[p], i)'
  <2>1. GathersAt(p, list, i)
    BY DEF ListGood, Gathers
  <2> QED
    BY <2>1 DEF GathersAt, First
<1>2. ASSUME NEW i \in DOMAIN list
      PROVE  HoldsLatestAt(p, stones[p], i)'
  <2>1. HoldsLatestAt(p, list, i)
    BY DEF ListGood, HoldsLatest
  <2>2. list[i].held # <<>> => p \in Entities
    BY DEF ListGood, Gathers, GathersAt
  <2>3. ASSUME NEW n \in DOMAIN log' \ DOMAIN log, list[i].held # <<>>
        PROVE  ~Concerns(log'[n], <<p, list[i].type>>)
    BY <2>2, <2>3, Names DEF Concerns, Silent
  <2>4. HoldsLatestAt(p, list, i)'
    BY <2>1, <2>3, LatestMoved DEF Silent
  <2> QED
    BY <2>4 DEF HoldsLatestAt
<1>3. ASSUME NEW i \in DOMAIN list
      PROVE  ServesAt(p, stones[p], i)'
  <2>1. ServesAt(p, list, i)
    BY DEF ListGood, Serves
  <2> SUFFICES ASSUME NEW s \in list[i].targets
               PROVE  /\ Registered(s)' /\ until'[s] = Open
                      /\ sink'[s].channel = <<p, list[i].type>>
                      /\ First(list, i)
    BY DEF ServesAt, First, Open, Registered
  <2>2. /\ s \in Sinks /\ Registered(s) /\ until[s] = Open
        /\ sink[s].channel = <<p, list[i].type>> /\ First(list, i)
    BY <2>1 DEF ServesAt
  <2>3. sink[s].channel[1] = p
    BY <2>2
  <2> QED
    BY <2>2, <2>3 DEF Undisturbed
<1>4. ASSUME NEW i \in DOMAIN list
      PROVE  HoldsNewAt(p, stones[p], i)'
  <2>1. HoldsNewAt(p, list, i)
    BY DEF ListGood, HoldsNew
  <2> SUFFICES ASSUME NEW k \in DOMAIN list[i].held, NEW s \in Sinks, Registered(s)',
                      sink'[s].channel = <<p, list[i].type>>
               PROVE  IF until'[s] = Open THEN since'[s] < list[i].held[k]
                                          ELSE until'[s] < list[i].held[k]
    BY DEF HoldsNewAt, Open
  <2>2. sink'[s].channel[1] = p
    OBVIOUS
  <2>3. /\ Registered(s) /\ sink[s].channel = <<p, list[i].type>>
        /\ since'[s] = since[s] /\ until'[s] = until[s]
    BY <2>2 DEF Undisturbed
  <2> QED
    BY <2>1, <2>3 DEF HoldsNewAt
<1> QED
  BY <1>1, <1>2, <1>3, <1>4 DEF ListGood, Gathers, HoldsLatest, Serves, HoldsNew

LEMMA StoneFacts ==
  ASSUME NEW list \in Seq(Stone), NEW i \in DOMAIN list
  PROVE  /\ list[i].type \in Types /\ list[i].stored \in BOOLEAN
         /\ list[i].held \in Seq(Nat) /\ list[i].targets \subseteq Sinks
<1>1. list[i] \in Stone
  OBVIOUS
<1> QED
  BY <1>1 DEF Stone

LEMMA HeldIs ==
  ASSUME NEW p, NEW list \in Seq(Stone), ListGood(p, list),
         NEW i \in DOMAIN list, NEW k \in DOMAIN list[i].held
  PROVE  /\ list[i].held[k] \in DOMAIN log /\ list[i].held[k] \notin dropped
         /\ Concerns(log[list[i].held[k]], <<p, list[i].type>>)
<1>1. HoldsLatestAt(p, list, i)
  BY DEF ListGood, HoldsLatest
<1> QED
  BY <1>1 DEF HoldsLatestAt

---------------------------------------------------------------------------
(* Requests that add stones and send events. *)

\* What the handler of a request may send about o.
EventsOf(o, events) ==
  /\ events \in Seq(LogEntry)
  /\ \A i \in DOMAIN events :
       /\ events[i].of \in {o, "root"}
       /\ events[i].of = "root" => events[i].what = "bind"
       /\ events[i].what = "delete" => Len(events) = 1
       /\ events[i].what \in DataTypes => events[i].of \in Entities

\* An object gets new stones, or none, and becomes or stays present.
Grows(o, more, events) ==
  /\ up /\ todo = <<>>
  /\ more \in Seq(Stone) /\ Grown(stones[o], more)
  /\ stones' = [stones EXCEPT ![o] = more]
  /\ status'[o] \in {"placeholder", "real"}
  /\ status' = [status EXCEPT ![o] = status'[o]]
  /\ EventsOf(o, events) /\ todo' = events
  /\ Len(log) + Len(events) <= MaxLog
  /\ UNCHANGED <<up, log, dropped, client, wire, since, until>>

LEMMA GrowsCore ==
  ASSUME Core, NEW o \in Objects, NEW more, NEW events, Grows(o, more, events)
  PROVE  Core'
<1> USE DEF Grows
<1>1. /\ stones \in [Proactives -> Seq(Stone)] /\ o \in Proactives /\ o # "domain"
      /\ status \in [Objects -> {"absent", "placeholder", "real"}]
  BY Names DEF Core, TypeOK
<1>2. /\ stones'[o] = more /\ \A p \in Proactives \ {o} : stones'[p] = stones[p]
      /\ \A q \in Objects \ {o} : status'[q] = status[q]
  BY <1>1
<1>3. /\ sink' = sink /\ got' = got /\ missed' = missed
      /\ \A s \in Sinks : Registered(s)' <=> Registered(s)
  BY DEF client, Registered
<1>4. TypeOK'
  <2>1. stones' \in [Proactives -> Seq(Stone)]
    BY <1>1
  <2>2. status' \in [Objects -> {"absent", "placeholder", "real"}]
    BY <1>1
  <2>3. todo' \in Seq(LogEntry)
    BY DEF EventsOf
  <2> QED
    BY <2>1, <2>2, <2>3, <1>3 DEF Core, TypeOK, Open
<1>5. Counts'
  <2>1. Replied' = Replied /\ Replied \subseteq Sinks
    BY <1>3 DEF Replied
  <2>2. Cardinality(Replied) \in Nat /\ Len(log) \in Nat /\ Len(events) \in Nat
    BY <2>1, OpenFacts DEF Core, TypeOK, EventsOf
  <2> QED
    BY <2>1, <2>2, MaxLogNat DEF Core, Counts, Room
<1>6. TodoGood'
  BY <1>2, Names DEF TodoGood, EventsOf
<1>7. Gone'
  <2>1. stones'["domain"] = stones["domain"]
    BY <1>1, <1>2, Names
  <2>2. \A q \in Objects : status'[q] = "absent" => stones'[q] = <<>>
    BY <1>1, <1>2, Names DEF Core, Gone
  <2> QED
    BY <2>1, <2>2 DEF Core, Gone
<1>8. ListsGood'
  <2> SUFFICES ASSUME NEW p \in Proactives
               PROVE  ListGood(p, stones[p])'
    BY DEF ListsGood
  <2>1. PICK list \in Seq(Stone) : stones'[p] = list /\ ListGood(p, list)
    <3>1. ListGood(p, stones[p]) /\ stones[p] \in Seq(Stone)
      BY <1>1 DEF Core, ListsGood
    <3>2. CASE p = o
      <4>1. ListGood(p, more)
        BY <3>1, <3>2, GrownGood
      <4> QED
        BY <4>1, <3>2, <1>2
    <3>3. CASE p # o
      BY <3>1, <3>3, <1>2
    <3> QED
      BY <3>2, <3>3
  <2>2. \A i \in DOMAIN list : list[i].targets \subseteq Sinks
    BY StoneFacts
  <2>3. Undisturbed(p) /\ Silent(p)
    BY <1>3 DEF Undisturbed, Silent
  <2>4. ASSUME NEW i \in DOMAIN list, NEW k \in DOMAIN list[i].held
        PROVE  list[i].held[k] \notin dropped'
    <3>1. list[i].held[k] \notin dropped
      BY <2>1, HeldIs
    <3> QED
      BY <3>1
  <2> QED
    BY <2>1, <2>2, <2>3, <2>4, ListMoved
<1>9. Hangs'
  <2> SUFFICES ASSUME NEW s \in Sinks, Registered(s), until[s] = Open
               PROVE  \E i \in DOMAIN stones'[sink[s].channel[1]] :
                        s \in stones'[sink[s].channel[1]][i].targets
    BY <1>3 DEF Hangs, Open
  <2>1. PICK i \in DOMAIN stones[sink[s].channel[1]] :
               s \in stones[sink[s].channel[1]][i].targets
    BY DEF Core, Hangs
  <2>2. sink[s].channel[1] \in Proactives
    BY ChannelFacts DEF Core, TypeOK
  <2>3. CASE sink[s].channel[1] = o
    <3>1. i \in DOMAIN more /\ more[i] = stones[o][i]
      BY <2>1, <2>3, <1>1, GrownFirst
    <3> QED
      BY <3>1, <2>1, <2>3, <1>2
  <2>4. CASE sink[s].channel[1] # o
    BY <2>1, <2>2, <2>4, <1>2
  <2> QED
    BY <2>3, <2>4
<1>10. SinksGood'
  BY <1>3 DEF Core, SinksGood, Open
<1> QED
  BY <1>4, <1>5, <1>6, <1>7, <1>8, <1>9, <1>10 DEF Core

\* What a list holds for a registration.
HeldOf(list, s) == UNION {Range(list[i].held) : i \in {j \in DOMAIN list : s \in list[j].targets}}

LEMMA HeldForIs ==
  ASSUME NEW s
  PROVE  HeldFor(s) = HeldOf(stones[sink[s].channel[1]], s)
BY DEF HeldFor, HeldOf

LEMMA HeldForIsNext ==
  ASSUME NEW s
  PROVE  HeldFor(s)' = HeldOf(stones'[sink'[s].channel[1]], s)
BY DEF HeldFor, HeldOf

LEMMA HeldOfNone ==
  ASSUME NEW list, NEW s, \A i \in DOMAIN list : s \notin list[i].targets
  PROVE  HeldOf(list, s) = {}
BY DEF HeldOf

LEMMA HeldOfOne ==
  ASSUME NEW list, NEW s, NEW i \in DOMAIN list, s \in list[i].targets,
         \A j \in DOMAIN list : s \in list[j].targets => j = i
  PROVE  HeldOf(list, s) = Range(list[i].held)
<1>1. {j \in DOMAIN list : s \in list[j].targets} = {i}
  OBVIOUS
<1> QED
  BY <1>1 DEF HeldOf

LEMMA HeldOfGrown ==
  ASSUME NEW list \in Seq(Stone), NEW more \in Seq(Stone), Grown(list, more), NEW s
  PROVE  HeldOf(more, s) = HeldOf(list, s)
<1>1. \A i \in DOMAIN list : i \in DOMAIN more /\ more[i] = list[i]
  BY GrownFirst
<1>2. ASSUME NEW i \in DOMAIN more, i \notin DOMAIN list
      PROVE  s \notin more[i].targets
  <2>1. more[i] = NewStone(more[i].type)
    BY <1>2 DEF Grown
  <2> QED
    BY <2>1, NewStoneIs
<1>3. {j \in DOMAIN more : s \in more[j].targets} = {j \in DOMAIN list : s \in list[j].targets}
  BY <1>1, <1>2
<1>4. \A i \in {j \in DOMAIN list : s \in list[j].targets} : more[i] = list[i]
  BY <1>1
<1> QED
  BY <1>3, <1>4 DEF HeldOf

\* A registration hangs off one stone, of the object it is for.
LEMMA TargetOnce ==
  ASSUME NEW p, NEW list \in Seq(Stone), ListGood(p, list),
         NEW i \in DOMAIN list, NEW s \in list[i].targets
  PROVE  /\ Registered(s) /\ until[s] = Open /\ sink[s].channel = <<p, list[i].type>>
         /\ First(list, i)
         /\ \A j \in DOMAIN list : s \in list[j].targets => j = i
         /\ HeldOf(list, s) = Range(list[i].held)
<1>1. \A j \in DOMAIN list : s \in list[j].targets =>
        /\ Registered(s) /\ until[s] = Open /\ sink[s].channel = <<p, list[j].type>>
        /\ First(list, j)
  BY DEF ListGood, Serves, ServesAt
<1>2. ASSUME NEW j \in DOMAIN list, s \in list[j].targets
      PROVE  j = i
  <2>1. list[i].type = list[j].type /\ First(list, i) /\ First(list, j)
    BY <1>1, <1>2
  <2> QED
    BY <2>1, FirstOnce
<1> QED
  BY <1>1, <1>2, HeldOfOne

\* A registration whose object is gone hangs off no stone.
LEMMA TargetOpen ==
  ASSUME NEW p, NEW list \in Seq(Stone), ListGood(p, list), NEW s,
         until[s] # Open \/ ~Registered(s) \/ sink[s].channel[1] # p
  PROVE  (\A i \in DOMAIN list : s \notin list[i].targets) /\ HeldOf(list, s) = {}
<1>1. \A i \in DOMAIN list : s \notin list[i].targets
  BY TargetOnce
<1> QED
  BY <1>1, HeldOfNone

---------------------------------------------------------------------------
(* Steps that disturb no delivery. *)

\* The parts of a stream are where they are.
LEMMA StreamSame ==
  ASSUME NEW s, missed'[s] = missed[s], got'[s] = got[s], wire'[s] = wire[s]
  PROVE  Stream(s)' = Stream(s)
BY DEF Stream

LEMMA DueSame ==
  ASSUME NEW s, log' = log, since'[s] = since[s], until'[s] = until[s], dropped' = dropped,
         sink'[s].channel = sink[s].channel
  PROVE  Due(s)' = Due(s)
BY DEF Due, Concerns

LEMMA GrowsDelivered ==
  ASSUME Core, Delivered, Ordered, NEW o \in Objects, NEW more, NEW events, Grows(o, more, events)
  PROVE  Delivered' /\ Ordered'
<1>1. /\ stones \in [Proactives -> Seq(Stone)] /\ o \in Proactives
      /\ sink \in [Sinks -> [channel : Channels,
                 state : {"idle", "asked", "ok", "error", "on", "failed", "cancelled"}]]
  BY Names DEF Core, TypeOK
<1>2. /\ sink' = sink /\ got' = got /\ missed' = missed /\ wire' = wire
      /\ log' = log /\ since' = since /\ until' = until /\ dropped' = dropped
      /\ stones' = [stones EXCEPT ![o] = more]
      /\ more \in Seq(Stone) /\ Grown(stones[o], more)
  BY DEF client, Grows
<1>3. ASSUME NEW s \in Sinks
      PROVE  /\ Stream(s)' = Stream(s) /\ Due(s)' = Due(s) /\ HeldFor(s)' = HeldFor(s)
             /\ Registered(s)' = Registered(s)
  <2>1. sink[s].channel[1] \in Proactives
    BY <1>1, ChannelFacts
  <2>2. HeldOf(stones'[sink[s].channel[1]], s) = HeldOf(stones[sink[s].channel[1]], s)
    <3>1. CASE sink[s].channel[1] = o
      BY <3>1, <1>1, <1>2, HeldOfGrown
    <3>2. CASE sink[s].channel[1] # o
      BY <3>2, <2>1, <1>1, <1>2
    <3> QED
      BY <3>1, <3>2
  <2>3. Registered(s)' = Registered(s)
    BY <1>2 DEF Registered
  <2> QED
    BY <2>2, <2>3, <1>2, HeldForIs, HeldForIsNext, StreamSame, DueSame
<1>4. Delivered'
  BY <1>3 DEF Delivered, Contents
<1>5. Ordered'
  BY <1>3 DEF Ordered, InOrder
<1> QED
  BY <1>4, <1>5

---------------------------------------------------------------------------
(* The history and what is ahead. *)

\* A handler that begins sends data only of entities that are there, or that it creates.
Announces(events) ==
  /\ events \in Seq(LogEntry)
  /\ \A i \in DOMAIN events :
       /\ events[i].what = "delete" => Len(events) = 1
       /\ events[i].what \in DataTypes =>
            /\ events[i].of \in Entities
            /\ \/ status[events[i].of] = "real"
               \/ \E j \in 1 .. i : events[j] = Event(events[i].of, "create")
  /\ \A e \in Entities : status'[e] = "real" =>
       status[e] = "real" \/ \E j \in DOMAIN events : events[j] = Event(e, "create")

LEMMA AnnouncesCreated ==
  ASSUME TypeOK, CreatedFirst, todo = <<>>, log' = log, NEW events, todo' = events,
         Announces(events)
  PROVE  CreatedFirst'
<1>0. PICK len : len = Len(log)
  OBVIOUS
<1>1. /\ log \in Seq(LogEntry) /\ len \in Nat /\ Len(events) \in Nat /\ Len(todo) = 0
      /\ DOMAIN events = 1 .. Len(events) /\ events \in Seq(LogEntry)
  BY <1>0 DEF TypeOK, Announces
<1>2. Ahead = len /\ Ahead' = len + Len(events)
  BY <1>0, <1>1 DEF Ahead
<1>3. \A n \in 1 .. len : At(n) = log[n] /\ At(n)' = log[n]
  BY <1>0, <1>1 DEF At
<1>4. ASSUME NEW n \in 1 .. len + Len(events), ~ (n <= len)
      PROVE  At(n)' = events[n - len] /\ n - len \in DOMAIN events
  BY <1>0, <1>1, <1>4 DEF At
<1>5. \A e \in Entities, t \in DataTypes : Event(e, t) # Event(e, "delete") /\ t # "delete"
  BY DataTypesKnown DEF Event
\* What was created stays so as long as its deletion is not announced.
<1>6. ASSUME NEW e \in Entities, NEW n \in 1 .. len, CreatedBy(e, n),
             NEW k \in n .. len + Len(events),
             \A j \in n + 1 .. k : At(j)' # Event(e, "delete")
      PROVE  CreatedBy(e, k)'
  <2>1. PICK m \in 1 .. n : /\ At(m) = Event(e, "create")
                            /\ \A j \in m + 1 .. n : At(j) # Event(e, "delete")
    BY <1>6 DEF CreatedBy
  <2>2. m \in 1 .. k /\ m \in 1 .. len /\ At(m)' = Event(e, "create")
    BY <2>1, <1>1, <1>3 DEF Event
  <2>3. ASSUME NEW j \in m + 1 .. k
        PROVE  At(j)' # Event(e, "delete")
    <3>1. CASE j <= n
      <4>1. j \in 1 .. len /\ j \in m + 1 .. n
        BY <3>1, <1>1
      <4> QED
        BY <4>1, <2>1, <1>3 DEF Event
    <3>2. CASE ~ (j <= n)
      <4>1. j \in n + 1 .. k
        BY <3>2, <1>1
      <4> QED
        BY <4>1, <1>6
    <3> QED
      BY <3>1, <3>2
  <2> QED
    BY <2>2, <2>3 DEF CreatedBy, Event
<1>7. ASSUME NEW e \in Entities, NEW j \in DOMAIN events, events[j] = Event(e, "create"),
             NEW k \in len + j .. len + Len(events),
             \A i \in DOMAIN events : events[i] # Event(e, "delete")
      PROVE  CreatedBy(e, k)'
  <2>1. /\ len + j \in 1 .. k /\ len + j \in 1 .. len + Len(events)
        /\ ~ (len + j <= len) /\ (len + j) - len = j
    BY <1>1
  <2>2. At(len + j)' = Event(e, "create")
    BY <2>1, <1>4, <1>7
  <2>3. ASSUME NEW i \in len + j + 1 .. k
        PROVE  At(i)' # Event(e, "delete")
    <3>1. i \in 1 .. len + Len(events) /\ ~ (i <= len)
      BY <1>1
    <3> QED
      BY <3>1, <1>4, <1>7
  <2> QED
    BY <2>1, <2>2, <2>3 DEF CreatedBy, Event
<1>8. ASSUME NEW e \in Entities, status[e] = "real"
      PROVE  CreatedBy(e, len) /\ len \in 1 .. len
  <2>1. CreatedBy(e, len)
    BY <1>2, <1>8 DEF CreatedFirst
  <2> QED
    BY <2>1, <1>1 DEF CreatedBy
<1>9. ASSUME NEW n \in 1 .. Ahead', At(n)'.what \in DataTypes
      PROVE  CreatedBy(At(n).of, n)'
  <2>1. CASE n <= len
    <3>1. n \in 1 .. len
      BY <1>1, <1>2, <2>1
    <3>2. At(n) = log[n] /\ At(n)' = log[n]
      BY <3>1, <1>3
    <3>3. CreatedBy(log[n].of, n)
      BY <3>1, <3>2, <1>2, <1>9 DEF CreatedFirst
    <3>4. PICK m \in 1 .. n : /\ At(m) = Event(log[n].of, "create")
                              /\ \A j \in m + 1 .. n : At(j) # Event(log[n].of, "delete")
      BY <3>3 DEF CreatedBy
    <3>5. At(m)' = Event(log[n].of, "create")
          /\ \A j \in m + 1 .. n : At(j)' # Event(log[n].of, "delete")
      BY <3>1, <3>4, <1>1, <1>3 DEF Event
    <3> QED
      BY <3>2, <3>5 DEF CreatedBy, Event
  <2>2. CASE ~ (n <= len)
    <3>0. PICK i, e : i = n - len /\ e = events[i].of
      OBVIOUS
    <3>1. At(n)' = events[i] /\ i \in DOMAIN events /\ n = len + i
      BY <2>2, <3>0, <1>1, <1>2, <1>4
    <3>2. events[i].what \in DataTypes /\ e \in Entities
      BY <3>0, <3>1, <1>9 DEF Announces
    <3>3. \A j \in DOMAIN events : events[j] # Event(e, "delete")
      <4>1. SUFFICES ASSUME NEW j \in DOMAIN events, events[j] = Event(e, "delete")
                     PROVE  FALSE
        OBVIOUS
      <4>2. events[j].what = "delete"
        BY <4>1 DEF Event
      <4>3. Len(events) = 1
        BY <4>2 DEF Announces
      <4>4. i = 1 /\ j = 1
        BY <4>3, <3>1, <1>1
      <4>5. "delete" \in DataTypes
        BY <4>2, <4>4, <3>2
      <4> QED
        BY <4>5, DataTypesKnown
    <3>4. CASE status[e] = "real"
      <4>1. CreatedBy(e, len) /\ len \in 1 .. len
        BY <3>2, <3>4, <1>8
      <4>2. \A j \in len + 1 .. n : At(j)' # Event(e, "delete")
        <5> SUFFICES ASSUME NEW j \in len + 1 .. n
                     PROVE  At(j)' # Event(e, "delete")
          OBVIOUS
        <5>1. j \in 1 .. len + Len(events) /\ ~ (j <= len)
          BY <1>1, <1>2
        <5> QED
          BY <5>1, <1>4, <3>3
      <4>3. n \in len .. len + Len(events)
        BY <1>1, <1>2, <2>2
      <4>4. CreatedBy(e, n)'
        BY <4>1, <4>2, <4>3, <3>2, <1>6
      <4> QED
        BY <4>4, <3>0, <3>1 DEF CreatedBy
    <3>5. CASE \E j \in 1 .. i : events[j] = Event(e, "create")
      <4>1. PICK j \in 1 .. i : events[j] = Event(e, "create")
        BY <3>5
      <4>2. j \in DOMAIN events /\ n \in len + j .. len + Len(events)
        BY <3>1, <1>1, <1>2
      <4>3. CreatedBy(e, n)'
        BY <4>1, <4>2, <3>2, <3>3, <1>7
      <4> QED
        BY <4>3, <3>0, <3>1 DEF CreatedBy
    <3> QED
      BY <3>0, <3>1, <3>2, <3>4, <3>5 DEF Announces
  <2> QED
    BY <2>1, <2>2
<1>10. ASSUME NEW e \in Entities, status'[e] = "real",
              todo' # <<>> => Head(todo') # Event(e, "delete")
       PROVE  CreatedBy(e, Ahead)'
  <2>1. \A j \in DOMAIN events : events[j] # Event(e, "delete")
    <3> SUFFICES ASSUME NEW j \in DOMAIN events, events[j] = Event(e, "delete")
                 PROVE  FALSE
      OBVIOUS
    <3>1. Len(events) = 1
      <4>1. events[j].what = "delete"
        BY DEF Event
      <4> QED
        BY <4>1 DEF Announces
    <3>2. j = 1 /\ events # <<>> /\ Head(events) = events[1]
      BY <3>1, <1>1
    <3> QED
      BY <3>2, <1>10
  <2>2. CASE status[e] = "real"
    <3>1. CreatedBy(e, len) /\ len \in 1 .. len
      BY <2>2, <1>8
    <3>2. \A j \in len + 1 .. len + Len(events) : At(j)' # Event(e, "delete")
      <4> SUFFICES ASSUME NEW j \in len + 1 .. len + Len(events)
                   PROVE  At(j)' # Event(e, "delete")
        OBVIOUS
      <4>1. j \in 1 .. len + Len(events) /\ ~ (j <= len)
        BY <1>1
      <4> QED
        BY <4>1, <1>4, <2>1
    <3>3. len + Len(events) \in len .. len + Len(events)
      BY <1>1
    <3>4. CreatedBy(e, len + Len(events))'
      BY <3>1, <3>2, <3>3, <1>6
    <3> QED
      BY <3>4, <1>2 DEF CreatedBy
  <2>3. CASE \E j \in DOMAIN events : events[j] = Event(e, "create")
    <3>1. PICK j \in DOMAIN events : events[j] = Event(e, "create")
      BY <2>3
    <3>2. len + Len(events) \in len + j .. len + Len(events)
      BY <1>1
    <3>3. CreatedBy(e, len + Len(events))'
      BY <3>1, <3>2, <2>1, <1>7
    <3> QED
      BY <3>3, <1>2 DEF CreatedBy
  <2> QED
    BY <1>10, <2>2, <2>3 DEF Announces
<1> QED
  BY <1>9, <1>10 DEF CreatedFirst

---------------------------------------------------------------------------
(* The requests. *)

LEMMA PairIs ==
  ASSUME NEW S, NEW s \in Seq(S), NEW t \in Seq(S), Len(s) = 2, Len(t) = 2,
         s[1] = t[1], s[2] = t[2]
  PROVE  s = t
<1>1. \A i \in 1 .. Len(s) : s[i] = t[i]
  OBVIOUS
<1> QED
  BY <1>1, SeqEqual

LEMMA TripleIs ==
  ASSUME NEW S, NEW s \in Seq(S), NEW t \in Seq(S), Len(s) = 3, Len(t) = 3,
         s[1] = t[1], s[2] = t[2], s[3] = t[3]
  PROVE  s = t
<1>1. \A i \in 1 .. Len(s) : s[i] = t[i]
  OBVIOUS
<1> QED
  BY <1>1, SeqEqual

LEMMA Concats ==
  ASSUME NEW a, NEW b, NEW c
  PROVE  /\ <<>> \o <<>> = <<>> /\ <<>> \o <<a>> = <<a>> /\ <<a>> \o <<>> = <<a>>
         /\ <<a>> \o <<b>> = <<a, b>> /\ <<a, b>> \o <<c>> = <<a, b, c>>
         /\ <<a, b>> \o <<>> = <<a, b>>
<1> DEFINE S == {a, b, c}
<1>1. /\ <<>> \in Seq(S) /\ <<a>> \in Seq(S) /\ <<a, b>> \in Seq(S)
      /\ b \in S /\ c \in S
  OBVIOUS
<1>2. Append(<<a>>, b) = <<a>> \o <<b>> /\ Append(<<a, b>>, c) = <<a, b>> \o <<c>>
  BY <1>1, AppendIsConcat
<1>3. Append(<<a>>, b) = <<a, b>> /\ Append(<<a, b>>, c) = <<a, b, c>>
  <2>1. /\ <<a, b>> \in Seq(S) /\ Len(<<a, b>>) = 2 /\ <<a, b>>[1] = a /\ <<a, b>>[2] = b
        /\ <<a, b, c>> \in Seq(S) /\ Len(<<a, b, c>>) = 3
        /\ <<a, b, c>>[1] = a /\ <<a, b, c>>[2] = b /\ <<a, b, c>>[3] = c
        /\ Len(<<a>>) = 1 /\ <<a>>[1] = a
    OBVIOUS
  <2>2. /\ Append(<<a>>, b) \in Seq(S) /\ Len(Append(<<a>>, b)) = 2
        /\ Append(<<a>>, b)[1] = a /\ Append(<<a>>, b)[2] = b
        /\ Append(<<a, b>>, c) \in Seq(S) /\ Len(Append(<<a, b>>, c)) = 3
        /\ Append(<<a, b>>, c)[1] = a /\ Append(<<a, b>>, c)[2] = b
        /\ Append(<<a, b>>, c)[3] = c
    BY <1>1, <2>1
  <2>3. Append(<<a>>, b) = <<a, b>>
    BY <2>1, <2>2, PairIs
  <2>4. Append(<<a, b>>, c) = <<a, b, c>>
    BY <2>1, <2>2, TripleIs
  <2> QED
    BY <2>3, <2>4
<1> HIDE DEF S
<1> QED
  BY <1>1, <1>2, <1>3, ConcatEmptySeq

\* The stones a handler finds or adds when it creates an object.
LEMMA ConstructedGrown ==
  ASSUME Core, NEW o \in Objects
  PROVE  Constructed(o) \in Seq(Stone) /\ Grown(stones[o], Constructed(o))
<1>1. stones[o] \in Seq(Stone)
  BY Names DEF Core, TypeOK
<1>2. NewStone("bind") \in Stone /\ NewStone("exist") \in Stone
  BY NewStoneIs DEF Types
<1>3. ContextStones \in Seq(Stone) /\ Len(ContextStones) = 2
      /\ DOMAIN ContextStones = {1, 2}
      /\ ContextStones[1] = NewStone("bind") /\ ContextStones[2] = NewStone("exist")
  BY <1>2 DEF ContextStones
<1>4. \A i \in DOMAIN ContextStones : ContextStones[i] = NewStone(ContextStones[i].type)
  <2>1. NewStone("bind").type = "bind" /\ NewStone("exist").type = "exist"
    BY NewStoneIs
  <2> QED
    BY <2>1, <1>3
<1>5. CASE status[o] = "absent" /\ o \in Contexts
  <2>1. stones[o] = <<>>
    BY <1>5 DEF Core, Gone
  <2>2. Constructed(o) = ContextStones
    BY <1>5 DEF Constructed
  <2> QED
    BY <2>1, <2>2, <1>3, <1>4 DEF Grown
<1>6. CASE ~ (status[o] = "absent" /\ o \in Contexts)
  <2>1. Constructed(o) = stones[o]
    BY <1>6 DEF Constructed
  <2> QED
    BY <2>1, <1>1, GrownSelf
<1> QED
  BY <1>5, <1>6

LEMMA RealStonesNew ==
  /\ RealStones \in Seq(Stone)
  /\ \A i \in DOMAIN RealStones : RealStones[i] = NewStone(RealStones[i].type)
<1> DEFINE type == <<"bind", "char", "int", "float">>
<1>1. DOMAIN RealStones = 1 .. 4 /\ \A i \in 1 .. 4 : RealStones[i] = NewStone(type[i])
  BY DEF RealStones
<1>2. \A i \in 1 .. 4 : type[i] \in Types
  BY DEF Types
<1> HIDE DEF type
<1>3. \A i \in 1 .. 4 : RealStones[i] \in Stone /\ RealStones[i].type = type[i]
  BY <1>1, <1>2, NewStoneIs
<1>4. RealStones \in [1 .. 4 -> Stone]
  BY <1>1, <1>3 DEF RealStones
<1>5. RealStones \in Seq(Stone)
  <2>1. 4 \in Nat
    OBVIOUS
  <2> QED
    BY <1>4, <2>1, SeqDef, Zenon
<1>6. \A i \in 1 .. 4 : RealStones[i] = NewStone(RealStones[i].type)
  <2> SUFFICES ASSUME NEW i \in 1 .. 4
               PROVE  RealStones[i] = NewStone(RealStones[i].type)
    OBVIOUS
  <2>1. RealStones[i] = NewStone(type[i]) /\ RealStones[i].type = type[i]
    BY <1>1, <1>3
  <2> QED
    BY <2>1
<1> QED
  BY <1>1, <1>5, <1>6

LEMMA PromotedGrown ==
  ASSUME Core, NEW o \in Objects
  PROVE  Promoted(o).list \in Seq(Stone) /\ Grown(stones[o], Promoted(o).list)
<1> DEFINE real == IF status[o] # "real" /\ o \in Entities THEN RealStones ELSE <<>>
<1>1. Promoted(o).list = Constructed(o) \o real
  BY DEF Promoted
<1>2. real \in Seq(Stone) /\ \A i \in DOMAIN real : real[i] = NewStone(real[i].type)
  <2>1. <<>> \in Seq(Stone) /\ DOMAIN <<>> = {}
    OBVIOUS
  <2> QED
    BY <2>1, RealStonesNew
<1> HIDE DEF real
<1>3. Constructed(o) \in Seq(Stone) /\ Grown(stones[o], Constructed(o))
  BY ConstructedGrown
<1>4. /\ Constructed(o) \o real \in Seq(Stone)
      /\ Grown(Constructed(o), Constructed(o) \o real)
  BY <1>2, <1>3, GrownConcat
<1>5. stones[o] \in Seq(Stone)
  BY Names DEF Core, TypeOK
<1> QED
  BY <1>1, <1>3, <1>4, <1>5, GrownTwice

\* What is sent when o is created, or was there already.
Creation(o, events) ==
  /\ events \in Seq(LogEntry) /\ EventsOf(o, events)
  /\ \A i \in DOMAIN events : events[i].what # "delete"
  /\ status[o] # "real" => \E j \in DOMAIN events : events[j] = Event(o, "create")
  /\ \A i \in DOMAIN events : events[i].what \in DataTypes =>
       /\ events[i].of = o /\ o \in Entities
       /\ status[o] # "real" => \E j \in 1 .. i : events[j] = Event(o, "create")

LEMMA CreateEvents ==
  ASSUME TypeOK, NEW o \in Objects, NEW data,
         data = <<>> \/ (o \in Entities /\ \E t \in DataTypes : data = <<Event(o, t)>>),
         NEW events, events = Bound(o) \o Promoted(o).events \o data
  PROVE  Creation(o, events)
<1> DEFINE r == Event("root", "bind")
           c == Event(o, "create")
           first == IF status[o] = "absent" THEN <<r>> ELSE <<>>
           second == IF status[o] # "real" THEN <<c>> ELSE <<>>
<1>1. events = first \o second \o data
  BY DEF Bound, Promoted
<1>2. /\ r \in LogEntry /\ r.of = "root" /\ r.what = "bind"
      /\ c \in LogEntry /\ c.of = o /\ c.what = "create"
      /\ o # "root" /\ "bind" \notin DataTypes /\ "create" \notin DataTypes
  BY Events, Names, DataTypesKnown
<1>3. status[o] \in {"absent", "placeholder", "real"}
  BY DEF TypeOK
<1> HIDE DEF r, c
<1>4. /\ events \in Seq(LogEntry) /\ EventsOf(o, events)
      /\ \A i \in DOMAIN events : events[i].what # "delete"
      /\ status[o] # "real" => \E j \in DOMAIN events : events[j] = c
      /\ \A i \in DOMAIN events : events[i].what \in DataTypes =>
           /\ events[i].of = o /\ o \in Entities
           /\ status[o] # "real" => \E j \in 1 .. i : events[j] = c
  <2>1. CASE data = <<>>
    <3>1. CASE status[o] = "absent"
      <4>1. events = <<r, c>>
        BY <2>1, <3>1, <1>1, Concats
      <4> QED
        BY <4>1, <1>2 DEF EventsOf
    <3>2. CASE status[o] = "placeholder"
      <4>1. events = <<c>>
        BY <2>1, <3>2, <1>1, Concats
      <4> QED
        BY <4>1, <1>2 DEF EventsOf
    <3>3. CASE status[o] = "real"
      <4>1. events = <<>>
        BY <2>1, <3>3, <1>1, Concats
      <4> QED
        BY <4>1, <3>3 DEF EventsOf
    <3> QED
      BY <1>3, <3>1, <3>2, <3>3
  <2>2. CASE data # <<>>
    <3>0. PICK t \in DataTypes : data = <<Event(o, t)>> /\ o \in Entities
      BY <2>2
    <3> DEFINE d == Event(o, t)
    <3>1. d \in LogEntry /\ d.of = o /\ d.what = t /\ t # "delete" /\ o \in Entities
      BY <3>0, Events, DataTypesKnown
    <3> HIDE DEF d
    <3>2. data = <<d>>
      BY <3>0 DEF d
    <3>3. CASE status[o] = "absent"
      <4>1. events = <<r, c, d>>
        BY <3>2, <3>3, <1>1, Concats
      <4> QED
        BY <4>1, <1>2, <3>1 DEF EventsOf
    <3>4. CASE status[o] = "placeholder"
      <4>1. events = <<c, d>>
        BY <3>2, <3>4, <1>1, Concats
      <4> QED
        BY <4>1, <1>2, <3>1 DEF EventsOf
    <3>5. CASE status[o] = "real"
      <4>1. events = <<d>>
        BY <3>2, <3>5, <1>1, Concats
      <4> QED
        BY <4>1, <3>1, <3>5, <1>2 DEF EventsOf
    <3> QED
      BY <1>3, <3>3, <3>4, <3>5
  <2> QED
    BY <2>1, <2>2
<1> QED
  BY <1>4 DEF c, Creation

\* A request about an object that is there.
LEMMA PlainGrows ==
  ASSUME Core, NEW o \in Objects, status[o] = "real", NEW events, Serving(events),
         EventsOf(o, events),
         UNCHANGED <<up, status, stones, log, dropped, client, wire, since, until>>
  PROVE  Grows(o, stones[o], events) /\ Announces(events)
<1>1. stones \in [Proactives -> Seq(Stone)] /\ o \in Proactives /\ status \in [Objects -> {"absent", "placeholder", "real"}]
  BY Names DEF Core, TypeOK
<1>2. Grown(stones[o], stones[o])
  BY <1>1, GrownSelf
<1>3. stones' = [stones EXCEPT ![o] = stones[o]] /\ status' = [status EXCEPT ![o] = status'[o]]
  BY <1>1
<1>4. Grows(o, stones[o], events)
  BY <1>1, <1>2, <1>3 DEF Grows, Serving
<1>5. \A i \in DOMAIN events : events[i].what \in DataTypes => events[i].of = o
  BY Names DEF EventsOf
<1> QED
  BY <1>4, <1>5 DEF Announces, EventsOf

LEMMA CreateGrows ==
  ASSUME Core, NEW o \in Objects, NEW data, Create(o, data),
         data = <<>> \/ (o \in Entities /\ \E t \in DataTypes : data = <<Event(o, t)>>)
  PROVE  \E more, events : Grows(o, more, events) /\ Announces(events)
<1>0. PICK events : events = Bound(o) \o Promoted(o).events \o data
  OBVIOUS
<1>1. Creation(o, events)
  <2>1. TypeOK
    BY DEF Core
  <2> QED
    BY <2>1, <1>0, CreateEvents
<1>2. /\ stones \in [Proactives -> Seq(Stone)] /\ o \in Proactives
      /\ status \in [Objects -> {"absent", "placeholder", "real"}]
  BY Names DEF Core, TypeOK
<1>3. Promoted(o).list \in Seq(Stone) /\ Grown(stones[o], Promoted(o).list)
  BY PromotedGrown
<1>4. /\ Serving(events)
      /\ status' = [status EXCEPT ![o] = "real"]
      /\ stones' = [stones EXCEPT ![o] = Promoted(o).list]
      /\ UNCHANGED <<up, log, dropped, client, wire, since, until>>
  <2>1. Promoted(o).status = "real"
    BY DEF Promoted
  <2> QED
    BY <2>1, <1>0 DEF Create
<1>5. status'[o] = "real" /\ \A q \in Objects \ {o} : status'[q] = status[q]
  BY <1>2, <1>4
<1>6. Grows(o, Promoted(o).list, events)
  BY <1>1, <1>2, <1>3, <1>4, <1>5 DEF Grows, Serving, Creation
<1>7. Announces(events)
  <2>1. \A e \in Entities : e \in Objects
    BY Names
  <2> QED
    BY <2>1, <1>1, <1>5 DEF Announces, Creation
<1> QED
  BY <1>6, <1>7

LEMMA OneEvent ==
  ASSUME NEW o \in Objects, NEW what \in {"bind", "unbind", "delete"} \cup DataTypes,
         what \in DataTypes => o \in Entities
  PROVE  EventsOf(o, <<Event(o, what)>>)
<1>1. /\ Event(o, what) \in LogEntry /\ Event(o, what).of = o /\ Event(o, what).what = what
      /\ o # "root"
  BY Events, Names
<1> DEFINE e == Event(o, what)
           events == <<e>>
<1> HIDE DEF e
<1>2. events \in Seq(LogEntry) /\ Len(events) = 1 /\ DOMAIN events = {1} /\ events[1] = e
  BY <1>1 DEF e
<1> HIDE DEF events
<1>3. EventsOf(o, events)
  BY <1>1, <1>2 DEF EventsOf, e
<1> QED
  BY <1>3 DEF events, e

\* Requests that create, bind, unbind, remove or set data.
Submits ==
  \/ \E e \in Entities : \/ \E t \in DataTypes : CreateEntity(e, t) \/ SetData(e, t)
                         \/ \E taken \in BOOLEAN : BindEntity(e, taken)
  \/ \E c \in Contexts : CreateContext(c)
  \/ \E o \in Objects : Unbind(o) \/ Remove(o)

LEMMA SubmitsGrows ==
  ASSUME Core, Submits
  PROVE  \E o \in Objects : \E more, events : Grows(o, more, events) /\ Announces(events)
<1>1. ASSUME NEW e \in Entities, NEW t \in DataTypes, CreateEntity(e, t)
      PROVE  \E o \in Objects : \E more, events : Grows(o, more, events) /\ Announces(events)
  <2>1. e \in Objects /\ Create(e, <<Event(e, t)>>)
    BY <1>1, Names DEF CreateEntity
  <2>2. \E more, events : Grows(e, more, events) /\ Announces(events)
    BY <2>1, CreateGrows
  <2> QED
    BY <2>1, <2>2
<1>2. ASSUME NEW e \in Entities, NEW t \in DataTypes, SetData(e, t)
      PROVE  \E o \in Objects : \E more, events : Grows(o, more, events) /\ Announces(events)
  <2>1. /\ e \in Objects /\ status[e] = "real" /\ Serving(<<Event(e, t)>>)
        /\ UNCHANGED <<up, status, stones, log, dropped, client, wire, since, until>>
    BY <1>2, Names DEF SetData
  <2>2. EventsOf(e, <<Event(e, t)>>)
    BY <2>1, OneEvent
  <2> QED
    BY <2>1, <2>2, PlainGrows
<1>3. ASSUME NEW e \in Entities, NEW taken \in BOOLEAN, BindEntity(e, taken)
      PROVE  \E o \in Objects : \E more, events : Grows(o, more, events) /\ Announces(events)
  <2>0. PICK r, b : r = Event("root", "bind") /\ b = Event(e, "bind")
    OBVIOUS
  <2>1. PICK events : events = IF taken THEN <<b>> ELSE <<r, b>>
    OBVIOUS
  <2>2. /\ e \in Objects /\ status[e] = "real" /\ Serving(events)
        /\ UNCHANGED <<up, status, stones, log, dropped, client, wire, since, until>>
    BY <1>3, <2>0, <2>1, Names DEF BindEntity
  <2>3. /\ r \in LogEntry /\ r.of = "root" /\ r.what = "bind"
        /\ b \in LogEntry /\ b.of = e /\ b.what = "bind" /\ e # "root"
        /\ "bind" \notin DataTypes
    BY <2>0, <2>2, Events, Names, DataTypesKnown
  <2>4. EventsOf(e, events)
    <3>1. CASE taken
      <4>1. events = <<b>>
        BY <2>1, <3>1
      <4> QED
        BY <4>1, <2>3 DEF EventsOf
    <3>2. CASE ~taken
      <4>1. events = <<r, b>>
        BY <2>1, <3>2
      <4> QED
        BY <4>1, <2>3 DEF EventsOf
    <3> QED
      BY <3>1, <3>2
  <2>5. Grows(e, stones[e], events) /\ Announces(events)
    BY <2>2, <2>4, PlainGrows
  <2> QED
    BY <2>2, <2>5
<1>4. ASSUME NEW c \in Contexts, CreateContext(c)
      PROVE  \E o \in Objects : \E more, events : Grows(o, more, events) /\ Announces(events)
  <2>1. c \in Objects /\ Create(c, <<>>)
    BY <1>4, Names DEF CreateContext
  <2>2. \E more, events : Grows(c, more, events) /\ Announces(events)
    BY <2>1, CreateGrows
  <2> QED
    BY <2>1, <2>2
<1>5. ASSUME NEW o \in Objects, Unbind(o) \/ Remove(o)
      PROVE  \E q \in Objects : \E more, events : Grows(q, more, events) /\ Announces(events)
  <2>1. PICK what \in {"unbind", "delete"} :
          /\ status[o] = "real" /\ Serving(<<Event(o, what)>>)
          /\ UNCHANGED <<up, status, stones, log, dropped, client, wire, since, until>>
    BY <1>5 DEF Unbind, Remove
  <2>2. EventsOf(o, <<Event(o, what)>>)
    BY <2>1, OneEvent, DataTypesKnown
  <2> QED
    BY <2>1, <2>2, PlainGrows
<1> QED
  BY <1>1, <1>2, <1>3, <1>4, <1>5 DEF Submits

---------------------------------------------------------------------------
(* The client's steps. *)

\* A step that leaves the server alone, and what each registration has had of it.
StandsStill ==
  /\ UNCHANGED <<server, since, until>>
  /\ TypeOK' /\ Replied \subseteq Replied'
  /\ \A s \in Sinks :
       /\ Registered(s)' <=> Registered(s)
       /\ Registered(s) => sink'[s].channel = sink[s].channel
       /\ Stream(s)' = Stream(s)
       /\ ~Registered(s) => missed'[s] = <<>> /\ got'[s] = <<>> /\ wire'[s] = <<>>
       /\ sink'[s].state = "ok" => got'[s] = <<>>

LEMMA StandsStillInv ==
  ASSUME IInv, StandsStill
  PROVE  IInv'
<1> USE DEF IInv, StandsStill, server
<1>1. /\ Core /\ stones' = stones /\ status' = status /\ log' = log /\ todo' = todo /\ up' = up
      /\ dropped' = dropped /\ since' = since /\ until' = until
      /\ stones \in [Proactives -> Seq(Stone)]
  BY DEF Core, TypeOK
<1>2. Counts'
  <2>1. Replied \subseteq Sinks /\ Replied' \subseteq Sinks
    BY DEF Replied
  <2>2. /\ Cardinality(Replied) \in Nat /\ Cardinality(Replied') \in Nat
        /\ Cardinality(Replied) <= Cardinality(Replied')
    BY <2>1, OpenFacts, FS_Subset
  <2>3. Len(log) \in Nat /\ Len(todo) \in Nat
    BY DEF Core, TypeOK
  <2> QED
    BY <1>1, <2>2, <2>3, MaxLogNat DEF Core, Counts, Room
<1>3. TodoGood' /\ Gone'
  BY <1>1 DEF Core, TodoGood, Gone
<1>4. ListsGood'
  <2> SUFFICES ASSUME NEW p \in Proactives
               PROVE  ListGood(p, stones[p])'
    BY DEF ListsGood
  <2>1. PICK list \in Seq(Stone) : list = stones[p] /\ stones'[p] = list /\ ListGood(p, list)
    BY <1>1 DEF Core, ListsGood
  <2>2. \A i \in DOMAIN list : list[i].targets \subseteq Sinks
    BY StoneFacts
  <2>3. Undisturbed(p) /\ Silent(p)
    BY <1>1 DEF Undisturbed, Silent
  <2>4. \A i \in DOMAIN list : \A k \in DOMAIN list[i].held : list[i].held[k] \notin dropped'
    BY <2>1, <1>1, HeldIs
  <2> QED
    BY <2>1, <2>2, <2>3, <2>4, ListMoved
<1>5. Hangs'
  BY <1>1 DEF Core, Hangs, Open
<1>6. SinksGood'
  BY <1>1 DEF Core, SinksGood, Open
<1>7. Delivered'
  <2> SUFFICES ASSUME NEW s \in Sinks, Registered(s)
               PROVE  Contents(Stream(s)') = (Due(s) \ HeldFor(s))'
    BY DEF Delivered, Contents
  <2>1. Due(s)' = Due(s)
    BY <1>1, DueSame
  <2>2. HeldFor(s)' = HeldFor(s)
    BY <1>1, HeldForIs, HeldForIsNext
  <2> QED
    BY <2>1, <2>2 DEF Delivered
<1>8. Ordered'
  BY DEF Ordered, InOrder
<1>9. CreatedFirst'
  BY <1>1 DEF CreatedFirst, Ahead, At, CreatedBy, Event
<1> QED
  BY <1>1, <1>2, <1>3, <1>4, <1>5, <1>6, <1>7, <1>8, <1>9 DEF Core

\* The states of a registration are the client's only trace of a step.
LEMMA SinkMoves ==
  ASSUME IInv, NEW s \in Sinks, NEW record \in [channel : Channels,
           state : {"idle", "asked", "ok", "error", "on", "failed", "cancelled"}],
         sink' = [sink EXCEPT ![s] = record],
         UNCHANGED <<server, got, missed, wire, since, until>>,
         Registered(s)' <=> Registered(s),
         Registered(s) => record.channel = sink[s].channel,
         record.state \in {"idle", "asked"} => sink[s].state \in {"idle", "asked"},
         record.state # "ok"
  PROVE  IInv'
<1>1. TypeOK /\ SinksGood
  BY DEF IInv, Core
<1>2. sink'[s] = record /\ \A q \in Sinks \ {s} : sink'[q] = sink[q]
  BY <1>1 DEF TypeOK
<1>3. TypeOK'
  <2>1. sink' \in [Sinks -> [channel : Channels,
                     state : {"idle", "asked", "ok", "error", "on", "failed", "cancelled"}]]
    BY <1>1 DEF TypeOK
  <2> QED
    BY <1>1, <2>1 DEF TypeOK, server, Open
<1>4. Replied \subseteq Replied'
  BY <1>2 DEF Replied
<1>5. ASSUME NEW q \in Sinks
      PROVE  /\ Registered(q)' <=> Registered(q)
             /\ Registered(q) => sink'[q].channel = sink[q].channel
             /\ Stream(q)' = Stream(q)
             /\ ~Registered(q) => missed'[q] = <<>> /\ got'[q] = <<>> /\ wire'[q] = <<>>
             /\ sink'[q].state = "ok" => got'[q] = <<>>
  <2>1. Stream(q)' = Stream(q)
    BY StreamSame
  <2>2. CASE q = s
    BY <2>1, <2>2, <1>1, <1>2 DEF SinksGood
  <2>3. CASE q # s
    BY <2>1, <2>3, <1>1, <1>2 DEF SinksGood, Registered
  <2> QED
    BY <2>2, <2>3
<1>6. StandsStill
  BY <1>3, <1>4, <1>5 DEF StandsStill
<1> QED
  BY <1>6, StandsStillInv

LEMMA RegisterInv ==
  ASSUME IInv, NEW s \in Sinks, NEW channel \in Channels, Register(s, channel)
  PROVE  IInv'
<1> DEFINE record == [channel |-> channel, state |-> "asked"]
<1>1. sink \in [Sinks -> [channel : Channels,
                 state : {"idle", "asked", "ok", "error", "on", "failed", "cancelled"}]]
  BY DEF IInv, Core, TypeOK
<1>2. /\ sink' = [sink EXCEPT ![s] = record] /\ sink'[s] = record
      /\ record.state = "asked" /\ record.channel = channel /\ sink[s].state = "idle"
      /\ record \in [channel : Channels,
                 state : {"idle", "asked", "ok", "error", "on", "failed", "cancelled"}]
      /\ UNCHANGED <<server, got, missed, wire, since, until>>
  BY <1>1 DEF Register
<1> HIDE DEF record
<1>3. ~Registered(s) /\ ~Registered(s)'
  BY <1>2 DEF Registered
<1> QED
  BY <1>2, <1>3, SinkMoves

LEMMA SinkInv ==
  ASSUME IInv, NEW s \in Sinks, NEW state \in {"error", "on", "failed", "cancelled"},
         Sink(s, state), UNCHANGED <<server, got, missed, wire, since, until>>,
         (state \in {"on", "cancelled"}) <=> Registered(s)
  PROVE  IInv'
<1> DEFINE record == [sink[s] EXCEPT !.state = state]
<1>1. sink \in [Sinks -> [channel : Channels,
                 state : {"idle", "asked", "ok", "error", "on", "failed", "cancelled"}]]
  BY DEF IInv, Core, TypeOK
<1>2. /\ sink' = [sink EXCEPT ![s] = record] /\ sink'[s] = record
      /\ record.state = state /\ record.channel = sink[s].channel
      /\ record \in [channel : Channels,
                 state : {"idle", "asked", "ok", "error", "on", "failed", "cancelled"}]
  BY <1>1 DEF Sink
<1>3. PICK r : r = record
  OBVIOUS
<1>4. Registered(s)' <=> Registered(s)
  BY <1>2 DEF Registered
<1> HIDE DEF record
<1> QED
  BY <1>2, <1>3, <1>4, SinkMoves

LEMMA AssociateInv ==
  ASSUME IInv, NEW s \in Sinks, Associate(s)
  PROVE  IInv'
<1>1. CASE sink[s].state = "ok" /\ Sink(s, "on")
  BY <1>1, SinkInv DEF Associate, Registered
<1>2. CASE sink[s].state = "error" /\ Sink(s, "failed")
  BY <1>2, SinkInv DEF Associate, Registered
<1> QED
  BY <1>1, <1>2 DEF Associate

LEMMA CancelInv ==
  ASSUME IInv, NEW s \in Sinks, Cancel(s)
  PROVE  IInv'
BY SinkInv DEF Cancel, Registered

\* The order in which three sequences are joined does not matter.
Joins(a, b, c) == (a \o b) \o c = a \o (b \o c)

LEMMA AllJoin ==
  ASSUME NEW S, NEW a \in Seq(S), NEW b \in Seq(S), NEW c \in Seq(S)
  PROVE  Joins(a, b, c)
BY ConcatAssociative DEF Joins

\* The first of d and c goes over to the end of b, or of a.
GoesOver(a, b, c, d) ==
  /\ (a \o (b \o d)) \o c = (a \o b) \o (d \o c)
  /\ ((a \o d) \o <<>>) \o c = (a \o <<>>) \o (d \o c)

LEMMA StreamGoesOver ==
  ASSUME NEW S, NEW a \in Seq(S), NEW b \in Seq(S), NEW c \in Seq(S), NEW d \in Seq(S)
  PROVE  GoesOver(a, b, c, d)
<1>1. a \o b \in Seq(S) /\ a \o d \in Seq(S)
  BY ConcatProperties
<1>2. Joins(a, b, d) /\ Joins(a \o b, d, c) /\ Joins(a, d, c)
  BY <1>1, AllJoin
<1>3. (a \o d) \o <<>> = a \o d /\ a \o <<>> = a
  BY <1>1, ConcatEmptySeq
<1> QED
  BY <1>2, <1>3 DEF GoesOver, Joins

\* An event that reaches the client moves from one part of the stream to the next.
LEMMA DeliverInv ==
  ASSUME IInv, NEW s \in Sinks, Deliver(s)
  PROVE  IInv'
<1> DEFINE h == Head(wire[s])
           heard == sink[s].state \in {"on", "cancelled"}
<1>1. TypeOK /\ SinksGood
  BY DEF IInv, Core
<1>2. /\ wire[s] \in Seq(Seq(Nat)) /\ wire[s] # <<>>
      /\ got[s] \in Seq(Seq(Nat)) /\ missed[s] \in Seq(Seq(Nat))
      /\ wire' = [wire EXCEPT ![s] = Tail(wire[s])] /\ wire'[s] = Tail(wire[s])
      /\ \A q \in Sinks \ {s} : wire'[q] = wire[q]
      /\ UNCHANGED <<server, sink, since, until>>
  BY <1>1 DEF Deliver, TypeOK
<1>3. /\ h \in Seq(Nat) /\ <<h>> \in Seq(Seq(Nat)) /\ Tail(wire[s]) \in Seq(Seq(Nat))
      /\ wire[s] = <<h>> \o Tail(wire[s])
  BY <1>2, HeadTailProperties, HeadTailAppend, ConcatProperties
<1>4. /\ got' = IF heard THEN [got EXCEPT ![s] = Append(got[s], h)] ELSE got
      /\ missed' = IF heard THEN missed ELSE [missed EXCEPT ![s] = Append(missed[s], h)]
  BY DEF Deliver
<1>5. Append(got[s], h) \in Seq(Seq(Nat)) /\ Append(missed[s], h) \in Seq(Seq(Nat))
  BY <1>2, <1>3
<1> HIDE DEF h
<1>6. Registered(s)
  BY <1>1, <1>2 DEF SinksGood
<1>7. TypeOK'
  <2>1. /\ wire' \in [Sinks -> Seq(Seq(Nat))] /\ got' \in [Sinks -> Seq(Seq(Nat))]
        /\ missed' \in [Sinks -> Seq(Seq(Nat))]
    BY <1>1, <1>2, <1>3, <1>4, <1>5 DEF TypeOK
  <2> QED
    BY <1>1, <1>2, <2>1 DEF TypeOK, server, Open
<1>8. \A q \in Sinks : Registered(q)' <=> Registered(q)
  BY <1>2 DEF Registered
<1>9. Stream(s)' = Stream(s)
  <2>0. PICK S : S = Seq(Nat)
    OBVIOUS
  <2>1. PICK a \in Seq(S), b \in Seq(S), c \in Seq(S), d \in Seq(S) :
          a = missed[s] /\ b = got[s] /\ c = Tail(wire[s]) /\ d = <<h>>
    BY <2>0, <1>2, <1>3
  <2>4. GoesOver(a, b, c, d)
    BY StreamGoesOver
  <2>2. CASE heard
    <3>1. got'[s] = got[s] \o <<h>> /\ missed'[s] = missed[s]
      BY <2>2, <1>1, <1>2, <1>3, <1>4, AppendIsConcat DEF TypeOK
    <3> QED
      BY <3>1, <2>1, <2>4, <1>2, <1>3 DEF Stream, GoesOver
  <2>3. CASE ~heard
    <3>1. got[s] = <<>>
      BY <2>3, <1>1, <1>6 DEF SinksGood, Registered
    <3>2. missed'[s] = missed[s] \o <<h>> /\ got'[s] = got[s]
      BY <2>3, <1>1, <1>2, <1>3, <1>4, AppendIsConcat DEF TypeOK
    <3> QED
      BY <3>1, <3>2, <2>1, <2>4, <1>2, <1>3 DEF Stream, GoesOver
  <2> QED
    BY <2>2, <2>3
<1>10. ASSUME NEW q \in Sinks
       PROVE  /\ Registered(q)' <=> Registered(q)
              /\ Registered(q) => sink'[q].channel = sink[q].channel
              /\ Stream(q)' = Stream(q)
              /\ ~Registered(q) => missed'[q] = <<>> /\ got'[q] = <<>> /\ wire'[q] = <<>>
              /\ sink'[q].state = "ok" => got'[q] = <<>>
  <2>1. CASE q = s
    BY <2>1, <1>1, <1>2, <1>4, <1>6, <1>8, <1>9 DEF SinksGood
  <2>2. CASE q # s
    <3>1. got'[q] = got[q] /\ missed'[q] = missed[q] /\ wire'[q] = wire[q]
      BY <2>2, <1>1, <1>2, <1>4 DEF TypeOK
    <3>2. Stream(q)' = Stream(q)
      BY <3>1, StreamSame
    <3> QED
      BY <3>1, <3>2, <1>1, <1>2, <1>8 DEF SinksGood
  <2> QED
    BY <2>1, <2>2
<1>11. Replied \subseteq Replied'
  BY <1>2 DEF Replied
<1> QED
  BY <1>2, <1>7, <1>10, <1>11, StandsStillInv DEF StandsStill

---------------------------------------------------------------------------
(* What is lost with the storage stones. *)

LEMMA InHeld ==
  ASSUME NEW list, NEW x
  PROVE  x \in Held(list) <=> \E i \in DOMAIN list : \E k \in DOMAIN list[i].held : x = list[i].held[k]
BY DEF Held, Range

\* A stone that holds something is an entity's, and is the first of its type.
LEMMA HoldsFirst ==
  ASSUME NEW p, NEW list \in Seq(Stone), ListGood(p, list), NEW i \in DOMAIN list,
         list[i].held # <<>>
  PROVE  /\ p \in Entities /\ list[i].type \in DataTypes /\ First(list, i)
         /\ list[i].stored
BY DEF ListGood, Gathers, GathersAt

LEMMA HoldsNothing ==
  ASSUME NEW p, p \notin Entities, NEW list \in Seq(Stone), ListGood(p, list)
  PROVE  Held(list) = {} /\ \A s : HeldOf(list, s) = {}
<1>1. \A i \in DOMAIN list : list[i].held = <<>>
  BY HoldsFirst
<1> QED
  BY <1>1 DEF Held, HeldOf, Range

\* What is held of what a registration is owed is held for it.
LEMMA HeldDue ==
  ASSUME Core, NEW p \in Proactives, p # "domain", NEW list \in Seq(Stone), ListGood(p, list),
         NEW s \in Sinks, Registered(s), sink[s].channel[1] = p,
         until[s] = Open => \E i \in DOMAIN list : s \in list[i].targets
  PROVE  Due(s) \cap Held(list) = HeldOf(list, s)
<1>1. TypeOK /\ sink[s].channel = <<p, sink[s].channel[2]>>
  BY ChannelFacts DEF Core, TypeOK
<1>2. ASSUME NEW x, x \in Due(s), x \in Held(list)
      PROVE  x \in HeldOf(list, s)
  <2>1. PICK j \in DOMAIN list : \E k \in DOMAIN list[j].held : x = list[j].held[k]
    BY <1>2, InHeld
  <2>2. PICK k \in DOMAIN list[j].held : x = list[j].held[k]
    BY <2>1
  <2>3. x \in DOMAIN log /\ Concerns(log[x], <<p, list[j].type>>)
    BY <2>2, HeldIs
  <2>4. Concerns(log[x], sink[s].channel) /\ x <= until[s]
    BY <1>2 DEF Due
  <2>5. sink[s].channel = <<p, list[j].type>>
    BY <2>3, <2>4, <1>1 DEF Concerns
  <2>6. until[s] = Open
    <3>1. HoldsNewAt(p, list, j)
      BY DEF ListGood, HoldsNew
    <3>2. until[s] # Open => until[s] < x
      BY <3>1, <2>2, <2>5 DEF HoldsNewAt
    <3>3. until[s] \in Nat /\ x \in Nat
      BY <1>1, <2>3, OpenFacts DEF TypeOK
    <3> QED
      BY <3>2, <3>3, <2>4
  <2>7. PICK i \in DOMAIN list : s \in list[i].targets
    BY <2>6
  <2>8. sink[s].channel = <<p, list[i].type>> /\ First(list, i) /\ HeldOf(list, s) = Range(list[i].held)
    BY <2>7, TargetOnce
  <2>9. list[j].held # <<>>
    BY <2>2
  <2>10. First(list, j)
    BY <2>9, HoldsFirst
  <2>11. list[i].type = list[j].type
    BY <2>5, <2>8
  <2>12. i = j
    BY <2>8, <2>10, <2>11, FirstOnce
  <2> QED
    BY <2>2, <2>8, <2>12 DEF Range
<1>3. ASSUME NEW x, x \in HeldOf(list, s)
      PROVE  x \in Due(s) /\ x \in Held(list)
  <2>1. PICK i \in DOMAIN list : s \in list[i].targets /\ x \in Range(list[i].held)
    BY <1>3 DEF HeldOf
  <2>2. PICK k \in DOMAIN list[i].held : x = list[i].held[k]
    BY <2>1 DEF Range
  <2>3. x \in DOMAIN log /\ x \notin dropped /\ Concerns(log[x], <<p, list[i].type>>)
    BY <2>2, HeldIs
  <2>4. until[s] = Open /\ sink[s].channel = <<p, list[i].type>>
    BY <2>1, TargetOnce
  <2>5. since[s] < x
    <3>1. HoldsNewAt(p, list, i)
      BY DEF ListGood, HoldsNew
    <3> QED
      BY <3>1, <2>2, <2>4 DEF HoldsNewAt
  <2>6. x <= Open
    <3>1. \A n \in DOMAIN log : n <= Len(log) /\ n \in Nat
      BY <1>1 DEF TypeOK
    <3>2. Len(log) <= Open
      <4>1. Cardinality(Replied) \in Nat /\ MaxLog + Cardinality(Replied) < Open
        <5>1. Replied \subseteq Sinks
          BY DEF Replied
        <5> QED
          BY <5>1, OpenFacts
      <4>2. Len(log) \in Nat /\ Len(todo) \in Nat /\ Room
        BY <1>1 DEF TypeOK, Core, Counts
      <4> QED
        BY <4>1, <4>2, OpenFacts, MaxLogNat DEF Room
    <3> QED
      BY <3>1, <3>2, <2>3, OpenFacts, <1>1 DEF TypeOK
  <2>7. x \in Due(s)
    <3>1. x \in since[s] + 1 .. Len(log)
      BY <2>3, <2>5, <1>1, OpenFacts DEF TypeOK
    <3> QED
      BY <3>1, <2>3, <2>4, <2>6 DEF Due
  <2> QED
    BY <2>2, <2>7, InHeld
<1> QED
  BY <1>2, <1>3

\* What is held for one object concerns no other.
LEMMA HeldElse ==
  ASSUME Core, NEW p \in Proactives, NEW list \in Seq(Stone), ListGood(p, list),
         NEW s \in Sinks, sink[s].channel[1] # p, sink[s].channel[1] # "domain"
  PROVE  Due(s) \cap Held(list) = {}
<1> SUFFICES ASSUME NEW x, x \in Due(s), x \in Held(list)
             PROVE  FALSE
  OBVIOUS
<1>1. PICK j \in DOMAIN list : \E k \in DOMAIN list[j].held : x = list[j].held[k]
  BY InHeld
<1>2. PICK k \in DOMAIN list[j].held : x = list[j].held[k]
  BY <1>1
<1>3. list[j].held # <<>>
  BY <1>2
<1>4. p \in Entities /\ p # "domain"
  BY <1>3, HoldsFirst, Names
<1>5. Concerns(log[x], <<p, list[j].type>>)
  BY <1>2, HeldIs
<1>6. Concerns(log[x], sink[s].channel)
  BY DEF Due
<1>7. log[x].of = p
  BY <1>4, <1>5 DEF Concerns
<1> QED
  BY <1>6, <1>7 DEF Concerns

\* Len(log) and the bound.
LEMMA LogBelow ==
  ASSUME Core
  PROVE  /\ Len(log) \in Nat /\ Len(todo) \in Nat /\ DOMAIN log = 1 .. Len(log)
         /\ Len(log) + Len(todo) < Open
<1>1. Replied \subseteq Sinks
  BY DEF Replied
<1>2. Cardinality(Replied) \in Nat /\ MaxLog + Cardinality(Replied) < Open
  BY <1>1, OpenFacts
<1>3. Len(log) \in Nat /\ Len(todo) \in Nat /\ Room /\ DOMAIN log = 1 .. Len(log)
  BY DEF TypeOK, Core, Counts
<1> QED
  BY <1>2, <1>3, OpenFacts, MaxLogNat DEF Room

\* Events are dropped, or an object is deleted after all that was sent.
LEMMA DueCut ==
  ASSUME Core, NEW s \in Sinks, log' = log, since'[s] = since[s],
         sink'[s].channel = sink[s].channel, NEW D, dropped' = dropped \cup D,
         until'[s] = until[s] \/ (until[s] = Open /\ until'[s] = Len(log))
  PROVE  Due(s)' = IF sink[s].channel[1] = "domain" THEN Due(s) ELSE Due(s) \ D
<1>1. \A n \in since[s] + 1 .. Len(log) : n <= until'[s] <=> n <= until[s]
  <2>1. Len(log) \in Nat /\ Len(log) <= Open /\ since[s] \in Nat
    BY LogBelow, OpenFacts DEF Core, TypeOK
  <2> QED
    BY <2>1, OpenFacts
<1>2. {n \in since'[s] + 1 .. Len(log') : n <= until'[s] /\ Concerns(log'[n], sink'[s].channel)}
      = {n \in since[s] + 1 .. Len(log) : n <= until[s] /\ Concerns(log[n], sink[s].channel)}
  BY <1>1
<1> QED
  BY <1>2 DEF Due, Concerns

---------------------------------------------------------------------------
(* The domain is removed. *)

LEMMA RemoveDomainInv ==
  ASSUME IInv, RemoveDomain
  PROVE  IInv'
<1> DEFINE gone == Proactives \ Contexts
           D == UNION {Held(stones[p]) : p \in gone}
<1>1. /\ Core /\ TypeOK /\ stones \in [Proactives -> Seq(Stone)]
      /\ status \in [Objects -> {"absent", "placeholder", "real"}]
      /\ sink \in [Sinks -> [channel : Channels,
                 state : {"idle", "asked", "ok", "error", "on", "failed", "cancelled"}]]
      /\ since \in [Sinks -> 0 .. Open] /\ until \in [Sinks -> 0 .. Open]
  BY DEF IInv, Core, TypeOK
<1>2. /\ up /\ todo = <<>> /\ todo' = <<>> /\ up' = FALSE
      /\ log' = log /\ wire' = wire /\ since' = since
      /\ sink' = sink /\ got' = got /\ missed' = missed
      /\ dropped' = dropped \cup D
  BY DEF RemoveDomain, Serving, client
<1>3. /\ \A o \in Contexts : status'[o] = status[o] /\ stones'[o] = stones[o]
      /\ \A o \in Entities : status'[o] = "absent"
      /\ \A p \in gone : stones'[p] = <<>>
      /\ stones' \in [Proactives -> Seq(Stone)]
      /\ status' \in [Objects -> {"absent", "placeholder", "real"}]
  <2>1. <<>> \in Seq(Stone)
    OBVIOUS
  <2> QED
    BY <1>1, <2>1, Names DEF RemoveDomain
<1>4. ASSUME NEW s \in Sinks
      PROVE  until'[s] = IF \E p \in gone : s \in Targets(stones[p]) THEN Len(log) ELSE until[s]
  BY DEF RemoveDomain
<1>5. ASSUME NEW p \in Proactives, NEW s \in Sinks, s \in Targets(stones[p])
      PROVE  Registered(s) /\ until[s] = Open /\ sink[s].channel[1] = p
  <2>1. stones[p] \in Seq(Stone) /\ ListGood(p, stones[p])
    BY <1>1 DEF Core, ListsGood
  <2>2. PICK i \in DOMAIN stones[p] : s \in stones[p][i].targets
    BY <1>5 DEF Targets
  <2> QED
    BY <2>1, <2>2, TargetOnce
<1>6. ASSUME NEW s \in Sinks, Registered(s), until[s] = Open, sink[s].channel[1] \in gone
      PROVE  until'[s] = Len(log)
  <2>1. PICK i \in DOMAIN stones[sink[s].channel[1]] :
               s \in stones[sink[s].channel[1]][i].targets
    BY <1>1, <1>6 DEF Core, Hangs
  <2>2. s \in Targets(stones[sink[s].channel[1]])
    BY <2>1 DEF Targets
  <2> QED
    BY <1>4, <1>6, <2>2
<1>7. ASSUME NEW s \in Sinks, sink[s].channel[1] \in Contexts \/ ~Registered(s)
      PROVE  until'[s] = until[s]
  BY <1>4, <1>5, <1>7
<1>8. \A s \in Sinks : Registered(s)' <=> Registered(s)
  BY <1>2 DEF Registered
<1> HIDE DEF gone, D
<1>9. \A s \in Sinks : until'[s] = until[s] \/ (until[s] = Open /\ until'[s] = Len(log))
  BY <1>4, <1>5 DEF gone
<1>10. Len(log) \in Nat /\ Len(log) < Open /\ DOMAIN log = 1 .. Len(log)
  <2>1. /\ Len(log) \in Nat /\ Len(todo) \in Nat /\ DOMAIN log = 1 .. Len(log)
        /\ Len(log) + Len(todo) < Open
    BY <1>1, LogBelow
  <2> QED
    BY <2>1, OpenFacts
<1>11. D \subseteq DOMAIN log
  <2> SUFFICES ASSUME NEW p \in Proactives, NEW x \in Held(stones[p])
               PROVE  x \in DOMAIN log
    BY DEF D, gone
  <2>1. stones[p] \in Seq(Stone) /\ ListGood(p, stones[p])
    BY <1>1 DEF Core, ListsGood
  <2>2. PICK i \in DOMAIN stones[p] : \E k \in DOMAIN stones[p][i].held : x = stones[p][i].held[k]
    BY InHeld
  <2> QED
    BY <2>1, <2>2, HeldIs
<1>12. TypeOK'
  <2>1. until' \in [Sinks -> 0 .. Open]
    <3>1. Len(log) \in 0 .. Open
      BY <1>10, OpenFacts
    <3> QED
      BY <1>1, <3>1 DEF RemoveDomain
  <2>2. dropped' \subseteq 1 .. Open
    <3>1. 1 .. Len(log) \subseteq 1 .. Open
      BY <1>10, OpenFacts
    <3> QED
      BY <1>1, <1>2, <1>10, <1>11, <3>1 DEF TypeOK
  <2> QED
    BY <1>1, <1>2, <1>3, <2>1, <2>2 DEF TypeOK, Open
<1>13. Counts'
  <2>1. Replied' = Replied
    BY <1>2 DEF Replied
  <2> QED
    BY <1>1, <1>2, <1>11, <2>1 DEF Core, Counts, Room
<1>14. TodoGood'
  BY <1>2 DEF TodoGood
<1>15. Gone'
  <2>1. ASSUME NEW o \in Objects, status'[o] = "absent"
        PROVE  stones'[o] = <<>>
    <3>1. CASE o \in Contexts
      BY <1>1, <1>3, <2>1, <3>1 DEF Core, Gone
    <3>2. CASE o \notin Contexts
      BY <1>3, <3>2, Names DEF gone
    <3> QED
      BY <3>1, <3>2
  <2> QED
    BY <1>2, <1>3, <2>1 DEF Gone, gone
<1>16. ListsGood'
  <2> SUFFICES ASSUME NEW p \in Proactives
               PROVE  ListGood(p, stones[p])'
    BY DEF ListsGood
  <2>1. CASE p \in gone
    <3>1. stones'[p] = <<>>
      BY <1>3, <2>1
    <3> QED
      BY <3>1 DEF ListGood, Gathers, HoldsLatest, Serves, HoldsNew
  <2>2. CASE p \in Contexts
    <3>1. PICK list \in Seq(Stone) : list = stones[p] /\ stones'[p] = list /\ ListGood(p, list)
      BY <1>1, <1>3, <2>2 DEF Core, ListsGood
    <3>2. \A i \in DOMAIN list : list[i].targets \subseteq Sinks
      BY StoneFacts
    <3>3. Undisturbed(p) /\ Silent(p)
      BY <1>2, <1>7, <1>8, <2>2 DEF Undisturbed, Silent
    <3>4. \A i \in DOMAIN list : list[i].held = <<>>
      <4>1. p \notin Entities
        BY <2>2, Names
      <4> QED
        BY <3>1, <4>1, HoldsFirst
    <3>5. \A i \in DOMAIN list : \A k \in DOMAIN list[i].held : list[i].held[k] \notin dropped'
      BY <3>4
    <3> QED
      BY <3>1, <3>2, <3>3, <3>5, ListMoved
  <2> QED
    BY <2>1, <2>2 DEF gone
<1>17. ASSUME NEW s \in Sinks, Registered(s), until'[s] = Open
       PROVE  sink[s].channel[1] \in Contexts /\ until[s] = Open
  <2>1. sink[s].channel[1] \in Proactives
    BY <1>1, ChannelFacts
  <2> QED
    BY <2>1, <1>6, <1>9, <1>10, <1>17, OpenFacts DEF gone
<1>18. Hangs'
  BY <1>1, <1>2, <1>3, <1>8, <1>17 DEF Core, Hangs, Open
<1>19. SinksGood'
  <2> SUFFICES ASSUME NEW s \in Sinks
               PROVE  /\ ~Registered(s) => /\ until'[s] = Open /\ missed[s] = <<>>
                                           /\ got[s] = <<>> /\ wire[s] = <<>>
                      /\ Registered(s) => /\ since[s] <= Len(log)
                                          /\ until'[s] = Open \/ until'[s] <= Len(log)
                      /\ sink[s].state = "ok" => got[s] = <<>>
    BY <1>2, <1>8 DEF SinksGood, Open
  <2> QED
    <3>1. /\ ~Registered(s) => /\ until[s] = Open /\ missed[s] = <<>>
                               /\ got[s] = <<>> /\ wire[s] = <<>>
          /\ Registered(s) => since[s] <= Len(log) /\ (until[s] = Open \/ until[s] <= Len(log))
          /\ sink[s].state = "ok" => got[s] = <<>>
      BY <1>1 DEF Core, SinksGood
    <3>2. Registered(s) => until'[s] = Open \/ until'[s] <= Len(log)
      BY <1>9, <1>10, <3>1
    <3> QED
      BY <1>7, <3>1, <3>2
<1>20. ASSUME NEW s \in Sinks, Registered(s)
       PROVE  Contents(Stream(s)') = (Due(s) \ HeldFor(s))'
  <2>0. PICK q \in Proactives, list \in Seq(Stone) :
          q = sink[s].channel[1] /\ list = stones[q] /\ ListGood(q, list)
    BY <1>1, ChannelFacts DEF Core, ListsGood
  <2>1. Stream(s)' = Stream(s) /\ Contents(Stream(s)) = Due(s) \ HeldFor(s)
    BY <1>2, <1>20, StreamSame DEF IInv, Delivered
  <2>2. Due(s)' = IF q = "domain" THEN Due(s) ELSE Due(s) \ D
    BY <1>1, <1>2, <1>9, <2>0, DueCut
  <2>3. HeldFor(s) = HeldOf(list, s)
    BY <2>0, HeldForIs
  <2>4. CASE q = "domain"
    <3>1. HeldOf(list, s) = {}
      BY <2>0, <2>4, HoldsNothing, Names
    <3>2. HeldFor(s)' = {}
      <4>1. stones'[q] = <<>>
        BY <1>3, <2>4, Names DEF gone
      <4> QED
        BY <4>1, <1>2, <2>0, HeldForIsNext, HeldOfNone
    <3> QED
      BY <2>1, <2>2, <2>3, <2>4, <3>1, <3>2
  <2>5. CASE q \in gone /\ q # "domain"
    <3>1. HeldFor(s)' = {}
      <4>1. stones'[q] = <<>>
        BY <1>3, <2>5
      <4> QED
        BY <4>1, <1>2, <2>0, HeldForIsNext, HeldOfNone
    <3>2. Due(s) \cap Held(list) = HeldOf(list, s)
      <4>1. until[s] = Open => \E i \in DOMAIN list : s \in list[i].targets
        BY <1>1, <1>20, <2>0 DEF Core, Hangs
      <4> QED
        BY <4>1, <1>1, <1>20, <2>0, <2>5, HeldDue
    <3>3. ASSUME NEW p \in gone, p # q
          PROVE  Due(s) \cap Held(stones[p]) = {}
      <4>1. p \in Proactives
        BY DEF gone
      <4>2. stones[p] \in Seq(Stone) /\ ListGood(p, stones[p])
        BY <4>1, <1>1 DEF Core, ListsGood
      <4> QED
        BY <4>1, <4>2, <1>1, <2>0, <2>5, <3>3, HeldElse
    <3>4. Due(s) \cap D = HeldOf(list, s)
      BY <2>0, <2>5, <3>2, <3>3 DEF D
    <3> QED
      BY <2>1, <2>2, <2>3, <2>5, <3>1, <3>4
  <2>6. CASE q \in Contexts /\ q # "domain"
    <3>1. HeldFor(s)' = HeldFor(s)
      BY <1>2, <1>3, <2>0, <2>6, HeldForIs, HeldForIsNext
    <3>2. ASSUME NEW p \in gone
          PROVE  Due(s) \cap Held(stones[p]) = {}
      <4>1. p \in Proactives /\ p # q
        BY <2>6 DEF gone
      <4>2. stones[p] \in Seq(Stone) /\ ListGood(p, stones[p])
        BY <4>1, <1>1 DEF Core, ListsGood
      <4> QED
        BY <4>1, <4>2, <1>1, <2>0, <2>6, <3>2, HeldElse
    <3>3. Due(s) \cap D = {}
      BY <3>2 DEF D
    <3> QED
      BY <2>1, <2>2, <2>6, <3>1, <3>3
  <2> QED
    BY <2>4, <2>5, <2>6, <2>0, Names DEF gone
<1>21. Delivered'
  BY <1>8, <1>20 DEF Delivered, Contents
<1>22. Ordered'
  <2>1. \A s \in Sinks : Stream(s)' = Stream(s)
    BY <1>2, StreamSame
  <2> QED
    BY <2>1 DEF IInv, Ordered, InOrder
<1>23. CreatedFirst'
  <2>1. \A e \in Entities : status'[e] # "real"
    BY <1>3
  <2>2. Announces(<<>>)
    BY <2>1 DEF Announces
  <2> QED
    BY <1>1, <1>2, <2>2, AnnouncesCreated DEF IInv
<1> QED
  BY <1>12, <1>13, <1>14, <1>15, <1>16, <1>18, <1>19, <1>21, <1>22, <1>23 DEF IInv, Core

---------------------------------------------------------------------------
(* One stone of a list changes. *)

\* new is list with stone in the place of the i-th, of the same type.
Changed(list, i, stone, new) ==
  /\ list \in Seq(Stone) /\ i \in DOMAIN list
  /\ stone \in Stone /\ stone.type = list[i].type
  /\ new = [list EXCEPT ![i] = stone]

LEMMA ChangedList ==
  ASSUME NEW list, NEW i, NEW stone, NEW new, Changed(list, i, stone, new)
  PROVE  /\ new \in Seq(Stone) /\ Len(new) = Len(list) /\ DOMAIN new = DOMAIN list
         /\ new[i] = stone /\ \A j \in DOMAIN list : j # i => new[j] = list[j]
         /\ \A j \in DOMAIN list : new[j].type = list[j].type
         /\ \A j \in DOMAIN list : First(new, j) <=> First(list, j)
<1>1. /\ new \in Seq(Stone) /\ Len(new) = Len(list) /\ DOMAIN new = DOMAIN list
      /\ new[i] = stone /\ \A j \in DOMAIN list : j # i => new[j] = list[j]
      /\ DOMAIN list = 1 .. Len(list) /\ Len(list) \in Nat
  BY DEF Changed
<1>2. \A j \in DOMAIN list : new[j].type = list[j].type
  BY <1>1 DEF Changed
<1>3. ASSUME NEW j \in DOMAIN list
      PROVE  First(new, j) <=> First(list, j)
  <2>1. 1 .. j - 1 \subseteq DOMAIN list
    BY <1>1
  <2> QED
    BY <1>2, <2>1 DEF First
<1> QED
  BY <1>1, <1>2, <1>3

LEMMA ChangedGood ==
  ASSUME NEW p, NEW list, NEW i, NEW stone, NEW new, Changed(list, i, stone, new),
         ListGood(p, list),
         GathersAt(p, new, i), HoldsLatestAt(p, new, i), ServesAt(p, new, i),
         HoldsNewAt(p, new, i)
  PROVE  ListGood(p, new)
<1>1. /\ DOMAIN new = DOMAIN list
      /\ \A j \in DOMAIN list : j # i => new[j] = list[j]
      /\ \A j \in DOMAIN list : First(new, j) <=> First(list, j)
  BY ChangedList
<1>2. ASSUME NEW j \in DOMAIN list, j # i
      PROVE  /\ GathersAt(p, new, j) /\ HoldsLatestAt(p, new, j)
             /\ ServesAt(p, new, j) /\ HoldsNewAt(p, new, j)
  <2>1. /\ GathersAt(p, list, j) /\ HoldsLatestAt(p, list, j)
        /\ ServesAt(p, list, j) /\ HoldsNewAt(p, list, j)
    BY DEF ListGood, Gathers, HoldsLatest, Serves, HoldsNew
  <2>2. new[j] = list[j] /\ (First(new, j) <=> First(list, j))
    BY <1>1, <1>2
  <2>3. GathersAt(p, new, j)
    BY <2>1, <2>2 DEF GathersAt
  <2>4. HoldsLatestAt(p, new, j)
    BY <2>1, <2>2 DEF HoldsLatestAt
  <2>5. ServesAt(p, new, j)
    BY <2>1, <2>2 DEF ServesAt
  <2>6. HoldsNewAt(p, new, j)
    BY <2>1, <2>2 DEF HoldsNewAt
  <2> QED
    BY <2>3, <2>4, <2>5, <2>6
<1> QED
  BY <1>1, <1>2 DEF ListGood, Gathers, HoldsLatest, Serves, HoldsNew

LEMMA ChangedHeld ==
  ASSUME NEW list, NEW i, NEW stone, NEW new, Changed(list, i, stone, new),
         NEW s, s \notin list[i].targets, s \notin stone.targets
  PROVE  HeldOf(new, s) = HeldOf(list, s)
<1>1. /\ DOMAIN new = DOMAIN list /\ new[i] = stone /\ i \in DOMAIN list
      /\ \A j \in DOMAIN list : j # i => new[j] = list[j]
  BY ChangedList DEF Changed
<1>2. {j \in DOMAIN new : s \in new[j].targets} = {j \in DOMAIN list : s \in list[j].targets}
  BY <1>1
<1>3. \A j \in {k \in DOMAIN list : s \in list[k].targets} : new[j] = list[j]
  BY <1>1
<1> QED
  BY <1>2, <1>3 DEF HeldOf

\* A registration hangs off the first stone of its channel as long as its object exists.
LEMMA HangsOffFirst ==
  ASSUME Core, NEW s \in Sinks, Registered(s), until[s] = Open,
         NEW p, sink[s].channel[1] = p,
         NEW list \in Seq(Stone), Grown(stones[p], list), NEW i \in DOMAIN list, First(list, i),
         list[i].type = sink[s].channel[2], ListGood(p, list)
  PROVE  s \in list[i].targets
<1>1. /\ sink[s].channel[1] \in Proactives
      /\ stones[sink[s].channel[1]] \in Seq(Stone)
  BY ChannelFacts DEF Core, TypeOK
<1>2. PICK k \in DOMAIN stones[p] : s \in stones[p][k].targets
  BY DEF Core, Hangs
<1>3. k \in DOMAIN list /\ list[k] = stones[p][k]
  BY <1>1, <1>2, GrownFirst
<1>4. s \in list[k].targets
  BY <1>2, <1>3
<1>5. First(list, k) /\ sink[s].channel = <<p, list[k].type>>
  BY <1>3, <1>4, TargetOnce
<1>6. k = i
  BY <1>3, <1>5, FirstOnce
<1> QED
  BY <1>4, <1>6

---------------------------------------------------------------------------
(* A storage stone takes the place of another. *)

LEMMA AggregateInv ==
  ASSUME IInv, NEW e \in Entities, NEW t \in DataTypes, Aggregate(e, t)
  PROVE  IInv'
<1>1. /\ Core /\ TypeOK /\ stones \in [Proactives -> Seq(Stone)]
      /\ status \in [Objects -> {"absent", "placeholder", "real"}]
      /\ sink \in [Sinks -> [channel : Channels,
                 state : {"idle", "asked", "ok", "error", "on", "failed", "cancelled"}]]
      /\ e \in Proactives /\ e \in Objects /\ e # "domain" /\ t \in Types
  BY Names, TypeOfFacts DEF IInv, Core, TypeOK
<1>2. PICK list : list = SetUp(stones[e], t)
  OBVIOUS
<1>3. list \in Seq(Stone) /\ Grown(stones[e], list) /\ Has(list, t) /\ ListGood(e, list)
  BY <1>1, <1>2, SetUpGrown, GrownGood DEF Core, ListsGood
<1>4. PICK i \in DOMAIN list : i = StoneOf(list, t) /\ list[i].type = t /\ First(list, i)
  BY <1>3, StoneOfIs
<1>5. PICK stone, h, D : /\ h = list[i].held /\ D = Range(h)
                         /\ stone = [list[i] EXCEPT !.stored = TRUE, !.held = <<>>]
  OBVIOUS
<1>6. /\ stone \in Stone /\ stone.type = t /\ stone.stored /\ stone.held = <<>>
      /\ stone.targets = list[i].targets /\ h \in Seq(Nat) /\ list[i] \in Stone
  <2>1. PICK r \in Stone : r = list[i]
    BY <1>3, <1>4
  <2>2. stone = [r EXCEPT !.stored = TRUE, !.held = <<>>]
    BY <1>5, <2>1
  <2>3. <<>> \in Seq(Nat) /\ r.held \in Seq(Nat)
    BY <2>1 DEF Stone
  <2>4. /\ stone \in Stone /\ stone.type = r.type /\ stone.stored /\ stone.held = <<>>
        /\ stone.targets = r.targets
    BY <2>2, <2>3 DEF Stone
  <2> QED
    BY <1>4, <1>5, <2>1, <2>3, <2>4
<1>7. PICK new : new = [list EXCEPT ![i] = stone]
  OBVIOUS
<1>8. Changed(list, i, stone, new)
  BY <1>3, <1>4, <1>6, <1>7 DEF Changed
<1>9. /\ new \in Seq(Stone) /\ Len(new) = Len(list) /\ DOMAIN new = DOMAIN list
      /\ new[i] = stone /\ \A j \in DOMAIN list : j # i => new[j] = list[j]
      /\ \A j \in DOMAIN list : new[j].type = list[j].type
      /\ \A j \in DOMAIN list : First(new, j) <=> First(list, j)
  BY <1>8, ChangedList
<1>10. /\ stones' = [stones EXCEPT ![e] = new] /\ dropped' = dropped \cup D
       /\ status[e] = "real" /\ up /\ todo = <<>> /\ todo' = <<>> /\ up' = up
       /\ status' = status /\ log' = log /\ wire' = wire /\ since' = since /\ until' = until
       /\ sink' = sink /\ got' = got /\ missed' = missed
  <2>1. [list EXCEPT ![i].stored = TRUE, ![i].held = <<>>] = new
    BY <1>3, <1>4, <1>5, <1>7
  <2>2. {h[j] : j \in DOMAIN h} = D
    BY <1>5, <1>6 DEF Range
  <2> QED
    BY <1>2, <1>4, <1>5, <2>1, <2>2 DEF Aggregate, Serving, client
<1>11. stones'[e] = new /\ \A p \in Proactives \ {e} : stones'[p] = stones[p]
  BY <1>1, <1>10
<1>12. /\ Len(log) \in Nat /\ DOMAIN log = 1 .. Len(log) /\ Len(log) < Open
  <2>1. /\ Len(log) \in Nat /\ Len(todo) \in Nat /\ DOMAIN log = 1 .. Len(log)
        /\ Len(log) + Len(todo) < Open
    BY <1>1, LogBelow
  <2> QED
    BY <2>1, OpenFacts
<1>13. ASSUME NEW x, x \in D
       PROVE  x \in DOMAIN log /\ Concerns(log[x], <<e, t>>)
  <2>1. PICK k \in DOMAIN list[i].held : x = list[i].held[k]
    BY <1>5, <1>13 DEF Range
  <2> QED
    BY <2>1, <1>3, <1>4, HeldIs
<1>14. TypeOK'
  <2>1. dropped' \subseteq 1 .. Open
    <3>1. 1 .. Len(log) \subseteq 1 .. Open
      BY <1>12, OpenFacts
    <3> QED
      BY <1>1, <1>10, <1>12, <1>13, <3>1 DEF TypeOK
  <2>2. stones' \in [Proactives -> Seq(Stone)]
    BY <1>1, <1>9, <1>10
  <2> QED
    BY <1>1, <1>10, <2>1, <2>2 DEF TypeOK, Open
<1>15. Counts'
  <2>1. Replied' = Replied
    BY <1>10 DEF Replied
  <2> QED
    BY <1>1, <1>10, <1>13, <2>1 DEF Core, Counts, Room
<1>16. TodoGood'
  BY <1>10 DEF TodoGood
<1>17. Gone'
  BY <1>1, <1>10, <1>11, Names DEF Core, Gone
<1>18. ListGood(e, new)
  <2>1. GathersAt(e, new, i)
    BY <1>4, <1>6, <1>9, BucketPos DEF GathersAt
  <2>2. HoldsLatestAt(e, new, i) /\ HoldsNewAt(e, new, i)
    BY <1>6, <1>9 DEF HoldsLatestAt, HoldsNewAt
  <2>3. ServesAt(e, new, i)
    <3>1. ServesAt(e, list, i)
      BY <1>3 DEF ListGood, Serves
    <3> QED
      BY <3>1, <1>4, <1>6, <1>9 DEF ServesAt
  <2> QED
    BY <2>1, <2>2, <2>3, <1>3, <1>8, ChangedGood
<1>19. ListsGood'
  <2> SUFFICES ASSUME NEW p \in Proactives
               PROVE  ListGood(p, stones[p])'
    BY DEF ListsGood
  <2>1. PICK all \in Seq(Stone) : all = stones'[p] /\ ListGood(p, all)
    BY <1>1, <1>9, <1>11, <1>18 DEF Core, ListsGood
  <2>2. \A j \in DOMAIN all : all[j].targets \subseteq Sinks
    BY StoneFacts
  <2>3. Undisturbed(p) /\ Silent(p)
    BY <1>10 DEF Undisturbed, Silent, Registered
  <2>4. ASSUME NEW j \in DOMAIN all, NEW k \in DOMAIN all[j].held
        PROVE  all[j].held[k] \notin dropped'
    <3>1. all[j].held[k] \notin dropped /\ Concerns(log[all[j].held[k]], <<p, all[j].type>>)
      BY <2>1, HeldIs
    <3> SUFFICES ASSUME all[j].held[k] \in D
                 PROVE  FALSE
      BY <3>1, <1>10
    <3>2. Concerns(log[all[j].held[k]], <<e, t>>)
      BY <1>13
    <3>3. all[j].held # <<>>
      BY <2>4
    <3>4. p \in Entities /\ First(all, j)
      BY <2>1, <3>3, HoldsFirst
    <3>5. p = e /\ all[j].type = t
      BY <3>1, <3>2, <3>4, Names DEF Concerns
    <3>6. all = new
      BY <3>5, <2>1, <1>11
    <3>7. j = i
      BY <3>4, <3>5, <3>6, <1>4, <1>9, FirstOnce
    <3> QED
      BY <3>3, <3>6, <3>7, <1>6, <1>9
  <2> QED
    BY <2>1, <2>2, <2>3, <2>4, ListMoved
<1>20. Hangs'
  <2> SUFFICES ASSUME NEW s \in Sinks, Registered(s), until[s] = Open
               PROVE  \E k \in DOMAIN stones'[sink[s].channel[1]] :
                        s \in stones'[sink[s].channel[1]][k].targets
    BY <1>10 DEF Hangs, Open, Registered
  <2>1. PICK k \in DOMAIN stones[sink[s].channel[1]] :
               s \in stones[sink[s].channel[1]][k].targets
    BY <1>1 DEF Core, Hangs
  <2>2. sink[s].channel[1] \in Proactives
    BY <1>1, ChannelFacts
  <2>3. CASE sink[s].channel[1] = e
    <3>1. k \in DOMAIN list /\ list[k] = stones[e][k]
      BY <1>1, <1>3, <2>1, <2>3, GrownFirst
    <3>2. k \in DOMAIN new /\ new[k].targets = list[k].targets
      BY <3>1, <1>6, <1>9
    <3> QED
      BY <3>1, <3>2, <2>1, <2>3, <1>11
  <2>4. CASE sink[s].channel[1] # e
    BY <2>1, <2>2, <2>4, <1>11
  <2> QED
    BY <2>3, <2>4
<1>21. SinksGood'
  BY <1>1, <1>10 DEF Core, SinksGood, Open, Registered
<1>22. ASSUME NEW s \in Sinks, Registered(s)
       PROVE  Contents(Stream(s)') = (Due(s) \ HeldFor(s))'
  <2>0. PICK q \in Proactives : q = sink[s].channel[1]
    BY <1>1, ChannelFacts
  <2>1. Stream(s)' = Stream(s) /\ Contents(Stream(s)) = Due(s) \ HeldFor(s)
    BY <1>10, <1>22, StreamSame DEF IInv, Delivered
  <2>2. Due(s)' = IF q = "domain" THEN Due(s) ELSE Due(s) \ D
    BY <1>1, <1>10, <2>0, DueCut
  <2>3. HeldFor(s) = HeldOf(stones[q], s) /\ HeldFor(s)' = HeldOf(stones'[q], s)
    BY <2>0, <1>10, HeldForIs, HeldForIsNext
  <2>4. D \subseteq Held(list)
    BY <1>5, <1>4 DEF Held
  <2>5. CASE q # e
    <3>1. q # "domain" => Due(s) \cap Held(list) = {}
      BY <1>1, <1>3, <2>0, <2>5, HeldElse
    <3>2. stones'[q] = stones[q]
      BY <1>11, <2>0, <2>5
    <3> QED
      BY <2>1, <2>2, <2>3, <2>4, <3>1, <3>2
  <2>6. CASE q = e
    <3>1. HeldOf(stones[e], s) = HeldOf(list, s) /\ HeldFor(s)' = HeldOf(new, s)
      BY <1>1, <1>3, <1>11, <2>3, <2>6, HeldOfGrown
    <3>2. until[s] = Open => \E k \in DOMAIN list : s \in list[k].targets
      <4>1. ASSUME until[s] = Open
            PROVE  \E k \in DOMAIN list : s \in list[k].targets
        <5>1. PICK k \in DOMAIN stones[e] : s \in stones[e][k].targets
          BY <4>1, <1>1, <1>22, <2>0, <2>6 DEF Core, Hangs
        <5>2. k \in DOMAIN list /\ list[k] = stones[e][k]
          BY <1>1, <1>3, <5>1, GrownFirst
        <5> QED
          BY <5>1, <5>2
      <4> QED
        BY <4>1
    <3>3. Due(s) \cap Held(list) = HeldOf(list, s)
      BY <1>1, <1>3, <1>22, <2>0, <2>6, <3>2, HeldDue
    <3>4. CASE s \in list[i].targets
      <4>1. HeldOf(list, s) = D
        BY <1>3, <1>5, <3>4, TargetOnce
      <4>2. HeldOf(new, s) = {}
        <5>1. s \in new[i].targets /\ i \in DOMAIN new
          BY <1>6, <1>9, <3>4
        <5>2. HeldOf(new, s) = Range(new[i].held)
          BY <5>1, <1>9, <1>18, TargetOnce
        <5> QED
          BY <5>2, <1>6, <1>9 DEF Range
      <4> QED
        BY <1>1, <2>1, <2>2, <2>3, <2>6, <3>1, <4>1, <4>2
    <3>5. CASE s \notin list[i].targets
      <4>1. HeldOf(new, s) = HeldOf(list, s)
        BY <1>6, <1>8, <3>5, ChangedHeld
      <4>2. ASSUME NEW x, x \in Due(s), x \in D
            PROVE  FALSE
        <5>1. x \in HeldOf(list, s)
          BY <2>4, <3>3, <4>2
        <5>2. PICK k \in DOMAIN list : s \in list[k].targets /\ x \in Range(list[k].held)
          BY <5>1 DEF HeldOf
        <5>3. sink[s].channel = <<e, list[k].type>> /\ First(list, k)
          BY <1>3, <5>2, TargetOnce
        <5>4. Concerns(log[x], sink[s].channel) /\ Concerns(log[x], <<e, t>>)
          BY <1>13, <4>2 DEF Due
        <5>5. list[k].type = t
          BY <5>3, <5>4, <1>1 DEF Concerns
        <5>6. k = i
          BY <5>3, <5>5, <1>3, <1>4, FirstOnce
        <5> QED
          BY <5>2, <5>6, <3>5
      <4> QED
        BY <1>1, <2>1, <2>2, <2>3, <2>6, <3>1, <4>1, <4>2
    <3> QED
      BY <3>4, <3>5
  <2> QED
    BY <2>5, <2>6
<1>23. Delivered'
  BY <1>10, <1>22 DEF Delivered, Contents, Registered
<1>24. Ordered'
  <2>1. \A s \in Sinks : Stream(s)' = Stream(s)
    BY <1>10, StreamSame
  <2> QED
    BY <2>1 DEF IInv, Ordered, InOrder
<1>25. CreatedFirst'
  <2>1. Announces(<<>>)
    BY <1>10 DEF Announces
  <2> QED
    BY <1>1, <1>10, <2>1, AnnouncesCreated DEF IInv
<1> QED
  BY <1>14, <1>15, <1>16, <1>17, <1>19, <1>20, <1>21, <1>23, <1>24, <1>25 DEF IInv, Core

---------------------------------------------------------------------------
(* A registration is granted. *)

\* The one event of a handler that grants a registration.
LEMMA BoundIs ==
  ASSUME NEW o \in Objects
  PROVE  /\ Bound(o) \in Seq(LogEntry) /\ Len(Bound(o)) <= 1
         /\ \A i \in DOMAIN Bound(o) : /\ Bound(o)[i] = Event("root", "bind")
                                       /\ Bound(o)[i].of = "root" /\ Bound(o)[i].what = "bind"
<1>1. /\ Event("root", "bind") \in LogEntry
      /\ Event("root", "bind").of = "root" /\ Event("root", "bind").what = "bind"
  BY Events
<1>2. CASE status[o] = "absent"
  <2>1. Bound(o) = <<Event("root", "bind")>>
    BY <1>2 DEF Bound
  <2> QED
    BY <1>1, <2>1
<1>3. CASE status[o] # "absent"
  <2>1. Bound(o) = <<>>
    BY <1>3 DEF Bound
  <2> QED
    BY <2>1
<1> QED
  BY <1>2, <1>3

LEMMA GrantedInv ==
  ASSUME IInv, NEW s \in Sinks, GetStone(s), up
  PROVE  IInv'
<1>1. /\ Core /\ TypeOK /\ stones \in [Proactives -> Seq(Stone)]
      /\ status \in [Objects -> {"absent", "placeholder", "real"}]
      /\ sink \in [Sinks -> [channel : Channels,
                 state : {"idle", "asked", "ok", "error", "on", "failed", "cancelled"}]]
      /\ since \in [Sinks -> 0 .. Open] /\ until \in [Sinks -> 0 .. Open]
  BY DEF IInv, Core, TypeOK
<1>2. PICK o, t, events : /\ o = sink[s].channel[1] /\ t = sink[s].channel[2]
                          /\ events = IF o \in Objects THEN Bound(o) ELSE <<>>
  OBVIOUS
<1>3. /\ o \in Proactives /\ t \in Types /\ sink[s].channel = <<o, t>>
      /\ (o = "domain" <=> t = "domain")
  BY <1>1, <1>2, ChannelFacts
<1>4. PICK base : base = IF o \in Objects THEN Constructed(o) ELSE stones[o]
  OBVIOUS
<1>5. base \in Seq(Stone) /\ Grown(stones[o], base)
  BY <1>1, <1>3, <1>4, ConstructedGrown, GrownSelf
<1>6. PICK list : list = SetUp(base, t)
  OBVIOUS
<1>7. list \in Seq(Stone) /\ Grown(stones[o], list) /\ Has(list, t)
  <2>1. list \in Seq(Stone) /\ Grown(base, list) /\ Has(list, t)
    BY <1>3, <1>5, <1>6, SetUpGrown
  <2>2. stones[o] \in Seq(Stone)
    BY <1>1, <1>3
  <2> QED
    BY <2>1, <2>2, <1>5, GrownTwice
<1>8. ListGood(o, list)
  BY <1>1, <1>3, <1>7, GrownGood DEF Core, ListsGood
<1>9. PICK i \in DOMAIN list : i = StoneOf(list, t) /\ list[i].type = t /\ First(list, i)
  BY <1>7, StoneOfIs
<1>10. PICK old \in Stone : old = list[i]
  BY <1>7
<1>11. PICK stone, h : stone = [old EXCEPT !.targets = @ \cup {s}] /\ h = old.held
  OBVIOUS
<1>12. /\ stone \in Stone /\ stone.type = t /\ stone.stored = old.stored /\ stone.held = h
       /\ stone.targets = old.targets \cup {s} /\ h \in Seq(Nat) /\ old.type = t
  BY <1>9, <1>10, <1>11 DEF Stone
<1>13. PICK new : new = [list EXCEPT ![i] = stone]
  OBVIOUS
<1>14. Changed(list, i, stone, new)
  BY <1>7, <1>9, <1>12, <1>13 DEF Changed
<1>15. /\ new \in Seq(Stone) /\ Len(new) = Len(list) /\ DOMAIN new = DOMAIN list
       /\ new[i] = stone /\ \A j \in DOMAIN list : j # i => new[j] = list[j]
       /\ \A j \in DOMAIN list : new[j].type = list[j].type
       /\ \A j \in DOMAIN list : First(new, j) <=> First(list, j)
  BY <1>14, ChangedList
<1>16. \A j \in DOMAIN list : new[j].stored = list[j].stored /\ new[j].held = list[j].held
  <2> SUFFICES ASSUME NEW j \in DOMAIN list
               PROVE  new[j].stored = list[j].stored /\ new[j].held = list[j].held
    OBVIOUS
  <2>1. CASE j = i
    BY <2>1, <1>10, <1>11, <1>12, <1>15
  <2>2. CASE j # i
    BY <2>2, <1>15
  <2> QED
    BY <2>1, <2>2
<1>17. /\ stones' = [stones EXCEPT ![o] = new] /\ todo = <<>> /\ todo' = events
       /\ sink[s].state = "asked" /\ sink' = [sink EXCEPT ![s].state = "ok"]
       /\ status' = IF o \in Objects /\ status[o] = "absent"
                    THEN [status EXCEPT ![o] = "placeholder"] ELSE status
       /\ since' = [since EXCEPT ![s] = IF h = <<>> THEN Len(log) ELSE h[1] - 1]
       /\ up' = up /\ log' = log /\ dropped' = dropped /\ got' = got /\ missed' = missed
       /\ wire' = wire /\ until' = until
  <2>1. [list EXCEPT ![i].targets = @ \cup {s}] = new
    BY <1>7, <1>9, <1>10, <1>11, <1>13
  <2> QED
    BY <1>2, <1>4, <1>6, <1>9, <1>10, <1>11, <2>1 DEF GetStone, Sink
<1>18. stones'[o] = new /\ \A p \in Proactives \ {o} : stones'[p] = stones[p]
  BY <1>1, <1>3, <1>17
<1>19. /\ sink'[s].state = "ok" /\ sink'[s].channel = sink[s].channel
       /\ \A q \in Sinks \ {s} : sink'[q] = sink[q]
       /\ sink' \in [Sinks -> [channel : Channels,
                 state : {"idle", "asked", "ok", "error", "on", "failed", "cancelled"}]]
  BY <1>1, <1>17
<1>20. /\ ~Registered(s) /\ Registered(s)'
       /\ \A q \in Sinks \ {s} : Registered(q)' <=> Registered(q)
       /\ until[s] = Open /\ missed[s] = <<>> /\ got[s] = <<>> /\ wire[s] = <<>>
  BY <1>1, <1>17, <1>19 DEF Registered, Core, SinksGood
<1>21. /\ Len(log) \in Nat /\ DOMAIN log = 1 .. Len(log) /\ Len(log) < Open
  <2>1. /\ Len(log) \in Nat /\ Len(todo) \in Nat /\ DOMAIN log = 1 .. Len(log)
        /\ Len(log) + Len(todo) < Open
    BY <1>1, LogBelow
  <2> QED
    BY <2>1, OpenFacts
<1>22. /\ events \in Seq(LogEntry) /\ Len(events) \in Nat /\ Len(events) <= 1
       /\ \A k \in DOMAIN events : events[k].of = "root" /\ events[k].what = "bind"
  BY <1>2, BoundIs
<1>23. /\ \A k \in DOMAIN h : h[k] \in DOMAIN log /\ h[k] \notin dropped
       /\ \A k \in DOMAIN h : 1 \in DOMAIN h /\ h[1] <= h[k]
       /\ h # <<>> => 1 \in DOMAIN h
       /\ h # <<>> => \A n \in DOMAIN log : n >= h[1] /\ Concerns(log[n], <<o, t>>) => n \in Range(h)
       /\ o = "domain" => h = <<>>
  <2>1. HoldsLatestAt(o, list, i)
    BY <1>8 DEF ListGood, HoldsLatest
  <2>2. /\ \A k \in DOMAIN h : h[k] \in DOMAIN log /\ h[k] \notin dropped
        /\ \A k, m \in DOMAIN h : k < m => h[k] < h[m]
        /\ h # <<>> => \A n \in DOMAIN log : n >= h[1] /\ Concerns(log[n], <<o, t>>) => n \in Range(h)
    BY <2>1, <1>9, <1>10, <1>11 DEF HoldsLatestAt
  <2>3. h # <<>> => 1 \in DOMAIN h
    BY <1>12
  <2>4. ASSUME NEW k \in DOMAIN h
        PROVE  1 \in DOMAIN h /\ h[1] <= h[k]
    <3>1. DOMAIN h = 1 .. Len(h) /\ Len(h) \in Nat /\ h[k] \in Nat
      BY <1>12
    <3>2. 1 \in DOMAIN h /\ (k = 1 \/ 1 < k)
      BY <3>1
    <3>3. h[1] \in Nat
      BY <3>2, <1>12
    <3> QED
      BY <2>2, <3>1, <3>2, <3>3
  <2>5. o = "domain" => h = <<>>
    <3>1. list[i].held # <<>> => o \in Entities
      BY <1>7, <1>8, HoldsFirst
    <3> QED
      BY <3>1, <1>10, <1>11, Names
  <2> QED
    BY <2>2, <2>3, <2>4, <2>5
<1>24. /\ since'[s] = (IF h = <<>> THEN Len(log) ELSE h[1] - 1)
       /\ since'[s] \in 0 .. Len(log) /\ \A q \in Sinks \ {s} : since'[q] = since[q]
  <2>1. since'[s] = (IF h = <<>> THEN Len(log) ELSE h[1] - 1)
        /\ \A q \in Sinks \ {s} : since'[q] = since[q]
    BY <1>1, <1>17
  <2>2. h # <<>> => h[1] \in 1 .. Len(log)
    BY <1>21, <1>23
  <2> QED
    BY <2>1, <2>2, <1>21
<1>25. TypeOK'
  <2>1. stones' \in [Proactives -> Seq(Stone)]
    BY <1>1, <1>15, <1>17
  <2>2. status' \in [Objects -> {"absent", "placeholder", "real"}]
    BY <1>1, <1>17
  <2>3. since' \in [Sinks -> 0 .. Open]
    <3>1. since'[s] \in 0 .. Open
      BY <1>21, <1>24, OpenFacts
    <3> QED
      BY <1>1, <1>17, <1>24, <3>1
  <2> QED
    BY <1>1, <1>17, <1>19, <1>22, <2>1, <2>2, <2>3 DEF TypeOK, Open
<1>26. Counts'
  <2>1. Replied' = Replied \cup {s} /\ s \notin Replied /\ Replied \subseteq Sinks
    BY <1>17, <1>19 DEF Replied
  <2>2. IsFiniteSet(Replied) /\ Cardinality(Replied) \in Nat
    BY <2>1, OpenFacts
  <2>3. Cardinality(Replied') = Cardinality(Replied) + 1
    BY <2>1, <2>2, FS_AddElement
  <2>4. Len(log) <= MaxLog + Cardinality(Replied)
    BY <1>1, <1>17, <1>21, <2>2, MaxLogNat DEF Core, Counts, Room
  <2>5. Len(log) + Len(events) <= MaxLog + Cardinality(Replied')
    BY <1>21, <1>22, <2>2, <2>3, <2>4, MaxLogNat
  <2> QED
    BY <1>1, <1>17, <2>5 DEF Core, Counts, Room
<1>27. TodoGood'
  BY <1>17, <1>22, Names, DataTypesKnown DEF TodoGood
<1>28. Gone'
  <2>1. ASSUME NEW q \in Objects, status'[q] = "absent"
        PROVE  stones'[q] = <<>>
    <3>1. status[q] = "absent" /\ q # o
      BY <2>1, <1>1, <1>17
    <3> QED
      BY <3>1, <1>1, <1>18, Names DEF Core, Gone
  <2>2. Len(stones'["domain"]) = 1 /\ stones'["domain"][1].type = "domain"
    <3>1. /\ Len(stones["domain"]) = 1 /\ stones["domain"][1].type = "domain"
          /\ stones["domain"] \in Seq(Stone)
      BY <1>1, Names DEF Core, Gone
    <3>2. CASE o # "domain"
      BY <3>1, <3>2, <1>18, Names
    <3>3. CASE o = "domain"
      <4>1. Has(stones["domain"], "domain")
        BY <3>1 DEF Has
      <4>2. base = stones["domain"] /\ t = "domain"
        BY <3>3, <1>3, <1>4, Names
      <4>3. list = stones["domain"]
        BY <4>1, <4>2, <1>6 DEF SetUp
      <4> QED
        BY <4>3, <3>1, <3>3, <1>15, <1>18
    <3> QED
      BY <3>2, <3>3
  <2> QED
    BY <2>1, <2>2, <1>17 DEF Gone
<1>29. ListsGood'
  <2> SUFFICES ASSUME NEW p \in Proactives
               PROVE  ListGood(p, stones[p])'
    BY DEF ListsGood
  <2>1. CASE p # o
    <3>1. PICK all \in Seq(Stone) : all = stones[p] /\ all = stones'[p] /\ ListGood(p, all)
      BY <2>1, <1>1, <1>18 DEF Core, ListsGood
    <3>2. \A j \in DOMAIN all : all[j].targets \subseteq Sinks
      BY StoneFacts
    <3>3. Undisturbed(p)
      <4> SUFFICES ASSUME NEW q \in Sinks
                   PROVE  /\ (Registered(q) /\ sink[q].channel[1] = p)
                               <=> (Registered(q) /\ sink[q].channel[1] = p)'
                          /\ Registered(q) /\ sink[q].channel[1] = p =>
                               /\ sink'[q].channel = sink[q].channel
                               /\ since'[q] = since[q] /\ until'[q] = until[q]
        BY DEF Undisturbed
      <4>1. CASE q = s
        BY <4>1, <2>1, <1>2, <1>19, <1>20
      <4>2. CASE q # s
        BY <4>2, <1>17, <1>19, <1>20, <1>24
      <4> QED
        BY <4>1, <4>2
    <3>4. Silent(p)
      BY <1>17 DEF Silent
    <3>5. \A j \in DOMAIN all : \A k \in DOMAIN all[j].held : all[j].held[k] \notin dropped'
      BY <3>1, <1>17, HeldIs
    <3> QED
      BY <3>1, <3>2, <3>3, <3>4, <3>5, ListMoved
  <2>2. CASE p = o
    <3>1. ASSUME NEW j \in DOMAIN new
          PROVE  /\ GathersAt(o, list, j) /\ HoldsLatestAt(o, list, j)
                 /\ ServesAt(o, list, j) /\ HoldsNewAt(o, list, j)
      BY <1>8, <1>15 DEF ListGood, Gathers, HoldsLatest, Serves, HoldsNew
    <3>2. ASSUME NEW j \in DOMAIN new
          PROVE  GathersAt(o, new, j)
      BY <3>1, <1>15, <1>16 DEF GathersAt
    <3>3. ASSUME NEW j \in DOMAIN new
          PROVE  HoldsLatestAt(o, new, j)'
      <4>1. HoldsLatestAt(o, new, j)
        BY <3>1, <1>15, <1>16 DEF HoldsLatestAt
      <4> QED
        BY <4>1, <1>17 DEF HoldsLatestAt, Concerns
    <3>4. ASSUME NEW j \in DOMAIN new
          PROVE  ServesAt(o, new, j)'
      <4> SUFFICES ASSUME NEW q \in new[j].targets
                   PROVE  /\ Registered(q)' /\ until'[q] = Open
                          /\ sink'[q].channel = <<o, new[j].type>> /\ First(new, j)
        BY DEF ServesAt, Open, First
      <4>1. CASE q = s
        <5>1. j = i
          <6>1. j # i => s \in list[j].targets
            BY <4>1, <1>15
          <6>2. s \in list[j].targets => Registered(s)
            BY <3>1 DEF ServesAt
          <6> QED
            BY <6>1, <6>2, <1>20
        <5> QED
          BY <4>1, <5>1, <1>3, <1>9, <1>15, <1>17, <1>19, <1>20
      <4>2. CASE q # s
        <5>1. q \in list[j].targets
          BY <4>2, <1>10, <1>12, <1>15
        <5>2. /\ Registered(q) /\ until[q] = Open /\ sink[q].channel = <<o, list[j].type>>
              /\ First(list, j)
          BY <5>1, <3>1 DEF ServesAt
        <5>3. q \in Sinks
          BY <5>1, <1>7, <1>15, StoneFacts
        <5> QED
          BY <4>2, <5>2, <5>3, <1>15, <1>17, <1>19, <1>20
      <4> QED
        BY <4>1, <4>2
    <3>5. ASSUME NEW j \in DOMAIN new
          PROVE  HoldsNewAt(o, new, j)'
      <4> SUFFICES ASSUME NEW k \in DOMAIN new[j].held, NEW q \in Sinks, Registered(q)',
                          sink'[q].channel = <<o, new[j].type>>
                   PROVE  IF until'[q] = Open THEN since'[q] < new[j].held[k]
                                              ELSE until'[q] < new[j].held[k]
        BY DEF HoldsNewAt, Open
      <4>1. CASE q = s
        <5>1. new[j].type = t
          BY <4>1, <1>3, <1>19
        <5>2. First(list, j)
          <6>1. list[j].held # <<>>
            BY <1>15, <1>16
          <6> QED
            BY <6>1, <1>7, <1>8, <1>15, HoldsFirst
        <5>3. j = i
          BY <5>1, <5>2, <1>7, <1>9, <1>15, FirstOnce
        <5>4. new[j].held = h /\ k \in DOMAIN h
          BY <5>3, <1>12, <1>15
        <5>5. h[1] \in Nat /\ h[1] <= h[k] /\ h # <<>> /\ h[k] \in Nat
          BY <5>4, <1>12, <1>23
        <5> QED
          BY <4>1, <5>4, <5>5, <1>17, <1>20, <1>24
      <4>2. CASE q # s
        <5>1. Registered(q) /\ sink[q].channel = <<o, list[j].type>>
          BY <4>2, <1>15, <1>19, <1>20
        <5> QED
          BY <3>1, <4>2, <5>1, <1>15, <1>16, <1>17, <1>24 DEF HoldsNewAt
      <4> QED
        BY <4>1, <4>2
    <3>6. ASSUME NEW j \in DOMAIN new
          PROVE  GathersAt(o, new, j)'
      BY <3>2 DEF GathersAt, First
    <3>7. ListGood(o, new)'
      BY <3>3, <3>4, <3>5, <3>6 DEF ListGood, Gathers, HoldsLatest, Serves, HoldsNew
    <3> QED
      BY <2>2, <3>7, <1>18 DEF ListGood, Gathers, HoldsLatest, Serves, HoldsNew,
        GathersAt, HoldsLatestAt, ServesAt, HoldsNewAt
  <2> QED
    BY <2>1, <2>2
<1>30. Hangs'
  <2> SUFFICES ASSUME NEW q \in Sinks, Registered(q)', until[q] = Open
               PROVE  \E k \in DOMAIN stones'[sink'[q].channel[1]] :
                        q \in stones'[sink'[q].channel[1]][k].targets
    BY <1>17 DEF Hangs, Open
  <2>1. CASE q = s
    <3>1. s \in new[i].targets /\ i \in DOMAIN new
      BY <1>9, <1>12, <1>15
    <3> QED
      BY <2>1, <3>1, <1>2, <1>18, <1>19
  <2>2. CASE q # s
    <3>1. Registered(q) /\ sink'[q] = sink[q] /\ sink[q].channel[1] \in Proactives
      BY <2>2, <1>1, <1>19, <1>20, ChannelFacts
    <3>2. PICK k \in DOMAIN stones[sink[q].channel[1]] :
                 q \in stones[sink[q].channel[1]][k].targets
      BY <1>1, <3>1 DEF Core, Hangs
    <3>3. CASE sink[q].channel[1] = o
      <4>1. k \in DOMAIN list /\ list[k] = stones[o][k]
        BY <1>1, <1>3, <1>7, <3>2, <3>3, GrownFirst
      <4>2. k \in DOMAIN new /\ q \in new[k].targets
        BY <4>1, <3>2, <3>3, <1>10, <1>12, <1>15
      <4> QED
        BY <4>2, <3>1, <3>3, <1>18
    <3>4. CASE sink[q].channel[1] # o
      BY <3>1, <3>2, <3>4, <1>18
    <3> QED
      BY <3>3, <3>4
  <2> QED
    BY <2>1, <2>2
<1>31. SinksGood'
  <2> SUFFICES ASSUME NEW q \in Sinks
               PROVE  /\ ~Registered(q)' => /\ until[q] = Open /\ missed[q] = <<>>
                                            /\ got[q] = <<>> /\ wire[q] = <<>>
                      /\ Registered(q)' => since'[q] <= Len(log)
                      /\ Registered(q)' => until[q] = Open \/ until[q] <= Len(log)
                      /\ sink'[q].state = "ok" => got[q] = <<>>
    BY <1>17 DEF SinksGood, Open
  <2>1. CASE q = s
    BY <2>1, <1>20, <1>21, <1>24
  <2>2. CASE q # s
    BY <2>2, <1>1, <1>19, <1>20, <1>24 DEF Core, SinksGood
  <2> QED
    BY <2>1, <2>2
<1>32. ASSUME NEW q \in Sinks, Registered(q)'
       PROVE  Contents(Stream(q)') = (Due(q) \ HeldFor(q))'
  <2>1. Stream(q)' = Stream(q)
    BY <1>17, StreamSame
  <2>2. CASE q = s
    <3>1. Contents(Stream(s)') = {}
      <4>1. Stream(s)' = <<>>
        BY <1>17, <1>20, Concats DEF Stream
      <4> QED
        BY <4>1 DEF Contents
    <3>2. HeldFor(s)' = Range(h)
      <4>1. s \in new[i].targets /\ new[i].held = h /\ i \in DOMAIN new
        BY <1>9, <1>12, <1>15
      <4>2. \A j \in DOMAIN new : s \in new[j].targets => j = i
        <5> SUFFICES ASSUME NEW j \in DOMAIN new, s \in new[j].targets, j # i
                     PROVE  FALSE
          OBVIOUS
        <5>1. s \in list[j].targets
          BY <1>15
        <5>2. Registered(s)
          BY <5>1, <1>7, <1>8, <1>15, TargetOnce
        <5> QED
          BY <5>2, <1>20
      <4>3. HeldOf(new, s) = Range(h)
        BY <4>1, <4>2, HeldOfOne
      <4> QED
        BY <4>3, <1>2, <1>18, <1>19, HeldForIsNext
    <3>3. ASSUME NEW n, n \in Due(s)'
          PROVE  n \in Range(h)
      <4>1. /\ n \in since'[s] + 1 .. Len(log) /\ Concerns(log[n], <<o, t>>)
        BY <3>3, <1>3, <1>17, <1>19 DEF Due, Concerns
      <4>2. h # <<>> /\ h[1] \in Nat
        BY <4>1, <1>12, <1>21, <1>23, <1>24
      <4>3. n >= h[1] /\ n \in DOMAIN log
        BY <4>1, <4>2, <1>21, <1>24
      <4> QED
        BY <4>1, <4>2, <4>3, <1>23
    <3> QED
      BY <2>2, <3>1, <3>2, <3>3
  <2>3. CASE q # s
    <3>0. PICK p \in Proactives : p = sink[q].channel[1]
      BY <1>1, ChannelFacts
    <3>1. Registered(q) /\ sink'[q] = sink[q]
      BY <2>3, <1>19, <1>20, <1>32
    <3>2. Due(q)' = Due(q)
      BY <3>1, <2>3, <1>17, <1>24, DueSame
    <3>3. HeldOf(stones'[p], q) = HeldOf(stones[p], q)
      <4>1. CASE p = o
        <5>1. HeldOf(list, q) = HeldOf(stones[o], q)
          BY <1>1, <1>3, <1>7, HeldOfGrown
        <5>2. HeldOf(new, q) = HeldOf(list, q)
          <6>1. \A j \in DOMAIN list : new[j].held = list[j].held
                  /\ (q \in new[j].targets <=> q \in list[j].targets)
            <7> SUFFICES ASSUME NEW j \in DOMAIN list
                         PROVE  q \in new[j].targets <=> q \in list[j].targets
              BY <1>16
            <7>1. CASE j = i
              BY <7>1, <2>3, <1>10, <1>12, <1>15
            <7>2. CASE j # i
              BY <7>2, <1>15
            <7> QED
              BY <7>1, <7>2
          <6>2. {j \in DOMAIN new : q \in new[j].targets}
                  = {j \in DOMAIN list : q \in list[j].targets}
            BY <6>1, <1>15
          <6> QED
            BY <6>1, <6>2 DEF HeldOf
        <5> QED
          BY <4>1, <5>1, <5>2, <1>18
      <4>2. CASE p # o
        BY <4>2, <1>18
      <4> QED
        BY <4>1, <4>2
    <3>4. HeldFor(q)' = HeldFor(q)
      BY <3>0, <3>1, <3>3, HeldForIs, HeldForIsNext
    <3> QED
      BY <2>1, <3>1, <3>2, <3>4 DEF IInv, Delivered
  <2> QED
    BY <2>2, <2>3
<1>33. Delivered'
  BY <1>32 DEF Delivered, Contents
<1>34. Ordered'
  <2>1. \A q \in Sinks : Stream(q)' = Stream(q)
    BY <1>17, StreamSame
  <2> QED
    BY <2>1 DEF IInv, Ordered, InOrder
<1>35. CreatedFirst'
  <2>1. \A e \in Entities : status'[e] = "real" => status[e] = "real"
    BY <1>1, <1>17, Names
  <2>2. Announces(events)
    BY <2>1, <1>22, DataTypesKnown DEF Announces
  <2> QED
    BY <1>1, <1>17, <2>2, AnnouncesCreated DEF IInv
<1> QED
  BY <1>25, <1>26, <1>27, <1>28, <1>29, <1>30, <1>31, <1>33, <1>34, <1>35 DEF IInv, Core

---------------------------------------------------------------------------
(* What a stone passes on. *)

Increases(sequence) ==
  \A k, m \in DOMAIN sequence : k < m => sequence[k] < sequence[m]

LEMMA AppendIs ==
  ASSUME NEW s \in Seq(Nat), NEW n \in Nat
  PROVE  /\ Append(s, n) \in Seq(Nat) /\ Len(Append(s, n)) = Len(s) + 1
         /\ \A k \in 1 .. Len(s) : Append(s, n)[k] = s[k]
         /\ Append(s, n)[Len(s) + 1] = n
         /\ Range(Append(s, n)) = Range(s) \cup {n}
         /\ Increases(s) /\ (\A k \in DOMAIN s : s[k] < n) => Increases(Append(s, n))
<1> DEFINE t == Append(s, n)
<1>1. /\ t \in Seq(Nat) /\ Len(t) = Len(s) + 1 /\ \A k \in 1 .. Len(s) : t[k] = s[k]
      /\ t[Len(s) + 1] = n
  OBVIOUS
<1> HIDE DEF t
<1>2. /\ DOMAIN t = 1 .. Len(s) + 1 /\ DOMAIN s = 1 .. Len(s) /\ Len(s) \in Nat
      /\ \A k \in DOMAIN t : k \in DOMAIN s \/ k = Len(s) + 1
      /\ \A k \in DOMAIN s : k \in DOMAIN t /\ k < Len(s) + 1
      /\ Len(s) + 1 \in DOMAIN t
  BY <1>1
<1>3. Range(t) = Range(s) \cup {n}
  BY <1>1, <1>2 DEF Range
<1>4. ASSUME Increases(s), \A k \in DOMAIN s : s[k] < n,
             NEW k \in DOMAIN t, NEW m \in DOMAIN t, k < m
      PROVE  t[k] < t[m]
  <2>1. k \in DOMAIN s
    BY <1>2, <1>4
  <2>2. CASE m \in DOMAIN s
    BY <2>1, <2>2, <1>1, <1>2, <1>4 DEF Increases
  <2>3. CASE m = Len(s) + 1
    BY <2>1, <2>3, <1>1, <1>2, <1>4
  <2> QED
    BY <2>2, <2>3, <1>2
<1> QED
  BY <1>1, <1>3, <1>4 DEF t, Increases

LEMMA Single ==
  ASSUME NEW x
  PROVE  /\ Contents(<<>>) = {} /\ InOrder(<<>>)
         /\ Contents(<<x>>) = Range(x)
         /\ Len(x) \in {1, Bucket} /\ Increases(x) => InOrder(<<x>>)
<1>1. DOMAIN <<x>> = {1} /\ <<x>>[1] = x /\ DOMAIN <<>> = {}
  OBVIOUS
<1>2. PICK y : y = <<x>>
  OBVIOUS
<1>3. Contents(y) = Range(x)
  BY <1>1, <1>2 DEF Contents
<1>4. Len(x) \in {1, Bucket} /\ Increases(x) => InOrder(y)
  BY <1>1, <1>2 DEF InOrder, Increases
<1>5. Contents(<<>>) = {} /\ InOrder(<<>>)
  BY <1>1 DEF Contents, InOrder
<1> QED
  BY <1>2, <1>3, <1>4, <1>5

\* What comes out of a stone and what it holds are what it held and the new event.
Passed(stone, n, r) ==
  /\ r.held \in Seq(Nat) /\ Len(r.held) < Bucket
  /\ ~stone.stored => r.held = <<>>
  /\ r.out \in Seq(Seq(Nat)) /\ InOrder(r.out)
  /\ \/ r.out = <<>> /\ r.held = Append(stone.held, n)
     \/ r.held = <<>> /\ Contents(r.out) = Range(stone.held) \cup {n}

LEMMA PassIs ==
  ASSUME NEW stone \in Stone, NEW n \in Nat, Increases(stone.held),
         \A k \in DOMAIN stone.held : stone.held[k] < n,
         ~stone.stored => stone.held = <<>>, Len(stone.held) < Bucket
  PROVE  Passed(stone, n, Pass(stone, n))
<1>1. PICK h \in Seq(Nat) : h = stone.held
  BY DEF Stone
<1>2. PICK more \in Seq(Nat) :
        /\ more = Append(h, n) /\ Len(more) = Len(h) + 1
        /\ Range(more) = Range(h) \cup {n} /\ Increases(more)
  BY <1>1, AppendIs
<1>3. Len(h) \in Nat /\ Bucket \in Nat /\ 0 < Bucket /\ Len(<<>>) = 0 /\ <<>> \in Seq(Nat)
  BY BucketPos
<1>4. CASE ~stone.stored
  <2>1. PICK r : r = Pass(stone, n)
    OBVIOUS
  <2>2. PICK one : one = <<n>>
    OBVIOUS
  <2>3. r.out = <<one>> /\ r.held = <<>>
    BY <1>4, <2>1, <2>2 DEF Pass
  <2>4. /\ one \in Seq(Nat) /\ <<one>> \in Seq(Seq(Nat)) /\ Len(one) = 1 /\ DOMAIN one = {1}
        /\ one[1] = n
    BY <2>2
  <2>5. Increases(one) /\ Range(one) = {n} /\ Range(h) = {}
    BY <2>4, <1>1, <1>4 DEF Increases, Range
  <2>6. InOrder(<<one>>) /\ Contents(<<one>>) = {n}
    BY <2>4, <2>5, Single
  <2> QED
    BY <2>1, <2>3, <2>4, <2>5, <2>6, <1>1, <1>3 DEF Passed
<1>5. CASE stone.stored /\ Len(h) + 1 = Bucket
  <2>1. PICK r : r = Pass(stone, n)
    OBVIOUS
  <2>2. r.out = <<more>> /\ r.held = <<>>
    BY <1>1, <1>2, <1>5, <2>1 DEF Pass
  <2>3. <<more>> \in Seq(Seq(Nat))
    OBVIOUS
  <2>4. InOrder(<<more>>) /\ Contents(<<more>>) = Range(h) \cup {n}
    BY <1>2, <1>5, Single
  <2> QED
    BY <2>1, <2>2, <2>3, <2>4, <1>1, <1>3 DEF Passed
<1>6. CASE stone.stored /\ Len(h) + 1 # Bucket
  <2>1. PICK r : r = Pass(stone, n)
    OBVIOUS
  <2>2. r.out = <<>> /\ r.held = more
    BY <1>1, <1>2, <1>6, <2>1 DEF Pass
  <2>3. <<>> \in Seq(Seq(Nat)) /\ InOrder(<<>>) /\ Len(more) < Bucket
    <3>1. Len(h) < Bucket /\ Len(h) + 1 # Bucket
      BY <1>1, <1>6
    <3>2. Len(more) < Bucket
      BY <3>1, <1>2, <1>3
    <3>3. <<>> \in Seq(Seq(Nat))
      OBVIOUS
    <3> QED
      BY <3>2, <3>3, Single
  <2> QED
    BY <2>1, <2>2, <2>3, <1>1, <1>2, <1>6 DEF Passed
<1> QED
  BY <1>4, <1>5, <1>6

---------------------------------------------------------------------------
(* Streams that go on. *)

\* a goes on with b.
GoesOn(a, b, c) ==
  /\ Contents(c) = Contents(a) \cup Contents(b)
  /\ InOrder(a) /\ InOrder(b) /\ (\A x \in Contents(a), y \in Contents(b) : x < y) => InOrder(c)

LEMMA StreamGoesOn ==
  ASSUME NEW S, NEW a \in Seq(S), NEW b \in Seq(S), NEW c, c = a \o b
  PROVE  GoesOn(a, b, c)
<1>1. /\ c \in Seq(S) /\ Len(c) = Len(a) + Len(b) /\ Len(a) \in Nat /\ Len(b) \in Nat
      /\ \A i \in 1 .. Len(a) + Len(b) : c[i] = IF i <= Len(a) THEN a[i] ELSE b[i - Len(a)]
  BY ConcatProperties
<1>2. /\ DOMAIN a = 1 .. Len(a) /\ DOMAIN b = 1 .. Len(b)
      /\ DOMAIN c = 1 .. Len(a) + Len(b)
  BY <1>1
<1>3. /\ \A i \in DOMAIN a : i \in DOMAIN c /\ c[i] = a[i]
      /\ \A i \in DOMAIN b : Len(a) + i \in DOMAIN c /\ c[Len(a) + i] = b[i]
      /\ \A i \in DOMAIN c : \/ i \in DOMAIN a /\ i <= Len(a)
                             \/ i - Len(a) \in DOMAIN b /\ i > Len(a) /\ c[i] = b[i - Len(a)]
  <2>1. ASSUME NEW i \in DOMAIN b
        PROVE  Len(a) + i \in DOMAIN c /\ c[Len(a) + i] = b[i]
    <3>1. Len(a) + i \in 1 .. Len(a) + Len(b) /\ ~ (Len(a) + i <= Len(a)) /\ (Len(a) + i) - Len(a) = i
      BY <1>1, <1>2
    <3> QED
      BY <3>1, <1>1, <1>2
  <2>2. ASSUME NEW i \in DOMAIN c
        PROVE  \/ i \in DOMAIN a /\ i <= Len(a)
               \/ i - Len(a) \in DOMAIN b /\ i > Len(a) /\ c[i] = b[i - Len(a)]
    BY <1>1, <1>2
  <2> QED
    BY <1>1, <1>2, <2>1, <2>2
<1>4. ASSUME NEW x
      PROVE  x \in Contents(c) <=> x \in Contents(a) \/ x \in Contents(b)
  <2>1. ASSUME x \in Contents(c)
        PROVE  x \in Contents(a) \/ x \in Contents(b)
    <3>1. PICK i \in DOMAIN c : x \in Range(c[i])
      BY <2>1 DEF Contents
    <3>2. CASE i \in DOMAIN a
      BY <3>1, <3>2, <1>3 DEF Contents
    <3>3. CASE i - Len(a) \in DOMAIN b /\ c[i] = b[i - Len(a)]
      BY <3>1, <3>3 DEF Contents
    <3> QED
      BY <3>2, <3>3, <1>3
  <2>2. ASSUME x \in Contents(a)
        PROVE  x \in Contents(c)
    <3>1. PICK i \in DOMAIN a : x \in Range(a[i])
      BY <2>2 DEF Contents
    <3> QED
      BY <3>1, <1>3 DEF Contents
  <2>3. ASSUME x \in Contents(b)
        PROVE  x \in Contents(c)
    <3>1. PICK i \in DOMAIN b : x \in Range(b[i])
      BY <2>3 DEF Contents
    <3>2. Len(a) + i \in DOMAIN c /\ x \in Range(c[Len(a) + i])
      BY <3>1, <1>3
    <3> QED
      BY <3>2 DEF Contents
  <2> QED
    BY <2>1, <2>2, <2>3
<1>5. ASSUME InOrder(a), InOrder(b), \A x \in Contents(a), y \in Contents(b) : x < y
      PROVE  InOrder(c)
  <2>1. ASSUME NEW i \in DOMAIN c
        PROVE  /\ Len(c[i]) \in {1, Bucket}
               /\ \A k, m \in DOMAIN c[i] : k < m => c[i][k] < c[i][m]
    <3>1. CASE i \in DOMAIN a
      <4>1. c[i] = a[i]
        BY <3>1, <1>3
      <4> QED
        BY <3>1, <4>1, <1>5 DEF InOrder
    <3>2. CASE i - Len(a) \in DOMAIN b /\ c[i] = b[i - Len(a)]
      BY <3>2, <1>5 DEF InOrder
    <3> QED
      BY <3>1, <3>2, <1>3
  <2>2. ASSUME NEW i \in DOMAIN c, NEW j \in DOMAIN c, i < j,
               NEW k \in DOMAIN c[i], NEW m \in DOMAIN c[j]
        PROVE  c[i][k] < c[j][m]
    <3>1. CASE j \in DOMAIN a
      <4>1. i \in DOMAIN a
        BY <3>1, <2>2, <1>1, <1>2
      <4>2. c[i] = a[i] /\ c[j] = a[j]
        BY <3>1, <4>1, <1>3
      <4> QED
        BY <3>1, <4>1, <4>2, <2>2, <1>5 DEF InOrder
    <3>2. CASE i \in DOMAIN a /\ j - Len(a) \in DOMAIN b /\ c[j] = b[j - Len(a)]
      <4>1. c[i] = a[i]
        BY <3>2, <1>3
      <4>2. c[i][k] \in Contents(a)
        BY <3>2, <4>1 DEF Contents, Range
      <4>3. c[j][m] \in Contents(b)
        BY <3>2 DEF Contents, Range
      <4> QED
        BY <4>2, <4>3, <1>5
    <3>3. CASE /\ i - Len(a) \in DOMAIN b /\ c[i] = b[i - Len(a)]
               /\ j - Len(a) \in DOMAIN b /\ c[j] = b[j - Len(a)]
      <4>1. i - Len(a) < j - Len(a)
        BY <2>2, <1>1, <1>2
      <4> QED
        BY <3>3, <4>1, <1>5 DEF InOrder
    <3> QED
      BY <3>1, <3>2, <3>3, <1>3
  <2> QED
    BY <2>1, <2>2 DEF InOrder
<1> QED
  BY <1>4, <1>5 DEF GoesOn

LEMMA StreamIs ==
  ASSUME TypeOK, NEW s \in Sinks, NEW added \in Seq(Seq(Nat)), wire'[s] = wire[s] \o added,
         got'[s] = got[s], missed'[s] = missed[s]
  PROVE  GoesOn(Stream(s), added, Stream(s)')
<1>1. PICK S : S = Seq(Nat)
  OBVIOUS
<1>2. PICK a \in Seq(S), b \in Seq(S), c \in Seq(S), d \in Seq(S) :
        a = missed[s] /\ b = got[s] /\ c = wire[s] /\ d = added
  BY <1>1 DEF TypeOK
<1>3. Joins(a \o b, c, d) /\ a \o b \in Seq(S) /\ (a \o b) \o c \in Seq(S)
  <2>1. a \o b \in Seq(S)
    BY ConcatProperties
  <2>2. (a \o b) \o c \in Seq(S)
    BY <2>1, ConcatProperties
  <2> QED
    BY <2>1, <2>2, AllJoin
<1>4. PICK old \in Seq(S) : old = (a \o b) \o c
  BY <1>3
<1>5. PICK new : new = old \o d
  OBVIOUS
<1>6. GoesOn(old, d, new)
  BY <1>5, StreamGoesOn
<1>7. Stream(s) = old /\ Stream(s)' = new
  BY <1>2, <1>3, <1>4, <1>5 DEF Stream, Joins
<1> QED
  BY <1>2, <1>6, <1>7

\* A registration is owed a new event of its channel while its object exists.
LEMMA DueGrows ==
  ASSUME Core, NEW s \in Sinks, Registered(s), NEW e, NEW n, NEW X,
         n = Len(log) + 1, n < Open, log' = Append(log, e), e \in LogEntry,
         since'[s] = since[s], sink'[s].channel = sink[s].channel,
         dropped' = dropped \cup X, n \notin X,
         until'[s] = until[s] \/ (until[s] = Open /\ until'[s] = n)
  PROVE  Due(s)' = (Due(s) \cup (IF until[s] = Open /\ Concerns(e, sink[s].channel) THEN {n} ELSE {}))
                   \ (IF sink[s].channel[1] = "domain" THEN {} ELSE X)
<1>1. /\ Len(log) \in Nat /\ log \in Seq(LogEntry) /\ since[s] \in Nat /\ since[s] <= Len(log)
      /\ until[s] \in Nat /\ (until[s] = Open \/ until[s] <= Len(log)) /\ Open \in Nat
      /\ dropped \subseteq 1 .. Len(log)
  BY OpenFacts, LogBelow DEF Core, TypeOK, SinksGood, Counts
<1>2. /\ Len(log') = n /\ log'[n] = e /\ \A x \in 1 .. Len(log) : log'[x] = log[x]
  BY <1>1
<1>3. PICK c : c = sink[s].channel
  OBVIOUS
<1>4. ASSUME NEW x
      PROVE  x \in since[s] + 1 .. n /\ x <= until'[s] /\ Concerns(log'[x], c)
               <=> \/ x \in since[s] + 1 .. Len(log) /\ x <= until[s] /\ Concerns(log[x], c)
                   \/ x = n /\ until[s] = Open /\ Concerns(e, c)
  <2>1. CASE x = n
    BY <2>1, <1>1, <1>2
  <2>2. CASE x # n
    <3>1. x \in since[s] + 1 .. n <=> x \in since[s] + 1 .. Len(log)
      BY <2>2, <1>1
    <3>2. ASSUME x \in since[s] + 1 .. Len(log)
          PROVE  log'[x] = log[x] /\ (x <= until'[s] <=> x <= until[s])
      BY <3>2, <1>1, <1>2
    <3> QED
      BY <3>1, <3>2, <2>2
  <2> QED
    BY <2>1, <2>2
<1>5. Due(s)' = {x \in since[s] + 1 .. n : x <= until'[s] /\ Concerns(log'[x], c)}
                \ (IF c[1] = "domain" THEN {} ELSE dropped')
  BY <1>2, <1>3 DEF Due, Concerns
<1>6. Due(s) = {x \in since[s] + 1 .. Len(log) : x <= until[s] /\ Concerns(log[x], c)}
               \ (IF c[1] = "domain" THEN {} ELSE dropped)
  BY <1>3 DEF Due
<1>7. n \notin dropped /\ n \notin Due(s)
  BY <1>1, <1>6
<1> QED
  BY <1>3, <1>4, <1>5, <1>6, <1>7

---------------------------------------------------------------------------
(* An event is sent. *)

LEMMA GetStoneInv ==
  ASSUME IInv, NEW s \in Sinks, GetStone(s)
  PROVE  IInv'
<1>1. CASE up
  BY <1>1, GrantedInv
<1>2. CASE ~up
  <2>1. /\ sink[s].state = "asked" /\ Sink(s, "error")
        /\ UNCHANGED <<server, got, missed, wire, since, until>>
    BY <1>2 DEF GetStone, server
  <2>2. ~Registered(s)
    BY <2>1 DEF Registered
  <2> QED
    BY <2>1, <2>2, SinkInv
<1> QED
  BY <1>1, <1>2

LEMMA SubmitsInv ==
  ASSUME IInv, Submits
  PROVE  IInv'
<1>1. Core /\ Delivered /\ Ordered /\ CreatedFirst /\ TypeOK
  BY DEF IInv, Core
<1>2. PICK o, more, events : o \in Objects /\ Grows(o, more, events) /\ Announces(events)
  BY <1>1, SubmitsGrows
<1>3. Core'
  BY <1>1, <1>2, GrowsCore
<1>4. Delivered' /\ Ordered'
  BY <1>1, <1>2, GrowsDelivered
<1>5. todo = <<>> /\ todo' = events /\ log' = log
  BY <1>2 DEF Grows
<1>6. CreatedFirst'
  BY <1>1, <1>2, <1>5, AnnouncesCreated
<1> QED
  BY <1>3, <1>4, <1>6 DEF IInv

\* What nothing disturbs stays good.
LEMMA StoneMoved ==
  ASSUME NEW p, NEW list \in Seq(Stone), NEW j \in DOMAIN list,
         GathersAt(p, list, j), HoldsLatestAt(p, list, j), ServesAt(p, list, j),
         HoldsNewAt(p, list, j),
         sink' = sink, since' = since, until' = until,
         DOMAIN log \subseteq DOMAIN log', \A n \in DOMAIN log : log'[n] = log[n],
         \A n \in DOMAIN log' \ DOMAIN log :
           list[j].held # <<>> => ~Concerns(log'[n], <<p, list[j].type>>),
         \A k \in DOMAIN list[j].held : list[j].held[k] \notin dropped'
  PROVE  GathersAt(p, list, j)' /\ HoldsLatestAt(p, list, j)' /\ ServesAt(p, list, j)'
         /\ HoldsNewAt(p, list, j)'
<1>1. HoldsLatestAt(p, list, j)'
  BY LatestMoved
<1>2. GathersAt(p, list, j)'
  BY DEF GathersAt, First
<1>3. ServesAt(p, list, j)'
  BY DEF ServesAt, First, Registered, Open
<1>4. HoldsNewAt(p, list, j)'
  BY DEF HoldsNewAt, Registered, Open
<1> QED
  BY <1>1, <1>2, <1>3, <1>4

\* The step, part by part.
Fires(e, n, t, list, i, old, r, stone, new, D) ==
  /\ todo # <<>> /\ e = todo[1] /\ e \in LogEntry /\ n = Len(log) + 1 /\ t = TypeOf(e.what)
  /\ e.of \in Proactives /\ e.of # "domain" /\ t \in Types /\ t # "domain"
  /\ list \in Seq(Stone) /\ Grown(stones[e.of], list) /\ ListGood(e.of, list)
  /\ i \in DOMAIN list /\ list[i].type = t /\ First(list, i)
  /\ old \in Stone /\ old = list[i] /\ r = Pass(old, n) /\ Passed(old, n, r)
  /\ stone \in Stone /\ stone.type = t /\ stone.stored = old.stored /\ stone.held = r.held
  /\ stone.targets = old.targets
  /\ Changed(list, i, stone, new)
  /\ D = stones["domain"][1].targets
  /\ Len(log) \in Nat /\ DOMAIN log = 1 .. Len(log) /\ n \in Nat /\ n < Open
  /\ e.what = "delete" => e.of \in Objects /\ t = "exist" /\ Len(todo) = 1 /\ new = list
  /\ ~TellsItself(e) => e.of \in Entities /\ t = "exist"
  /\ todo' = Tail(todo) /\ log' = Append(log, e)
  /\ stones' = [stones EXCEPT ![e.of] = IF e.what = "delete" THEN <<>>
                                        ELSE IF TellsItself(e) THEN new ELSE stones[e.of]]
  /\ status' = IF e.what = "delete" THEN [status EXCEPT ![e.of] = "absent"] ELSE status
  /\ wire' = [s \in Sinks |->
                wire[s] \o (IF s \in D THEN <<<<n>>>>
                            ELSE IF TellsItself(e) /\ s \in old.targets THEN r.out
                            ELSE <<>>)]
  /\ dropped' = dropped \cup (IF e.what = "delete" THEN Held(list) ELSE {})
  /\ \A s \in Sinks : until'[s] = IF e.what = "delete" /\ s \in Targets(list) THEN n ELSE until[s]
  /\ until' \in [Sinks -> 0 .. Open]
  /\ e.what # "delete" => until' = until
  /\ up' = up /\ sink' = sink /\ got' = got /\ missed' = missed /\ since' = since

LEMMA FireIs ==
  ASSUME IInv, Fire
  PROVE  \E e, n, t, list, i, old, r, stone, new, D :
           Fires(e, n, t, list, i, old, r, stone, new, D)
<1>1. /\ Core /\ TypeOK /\ stones \in [Proactives -> Seq(Stone)]
      /\ todo \in Seq(LogEntry) /\ until \in [Sinks -> 0 .. Open]
  BY DEF IInv, Core, TypeOK
<1>a. PICK e \in LogEntry : e = Head(todo) /\ e = todo[1]
  <2>1. todo # <<>>
    BY DEF Fire
  <2>2. Head(todo) \in LogEntry /\ Head(todo) = todo[1]
    BY <1>1, <2>1
  <2> QED
    BY <2>2
<1>2. PICK n, t :
        e = Head(todo) /\ e = todo[1] /\ n = Len(log) + 1 /\ t = TypeOf(e.what)
  BY <1>a
<1>3. /\ e.of \in Proactives /\ e.of # "domain" /\ t \in Types /\ t # "domain" /\ todo # <<>>
      /\ e.of \in Objects \cup {"root"} /\ 1 \in DOMAIN todo
  <2>1. todo # <<>>
    BY DEF Fire
  <2>2. 1 \in DOMAIN todo
    BY <1>1, <2>1
  <2>3. e.of \in Objects \cup {"root"}
    BY DEF LogEntry
  <2>4. t \in Types \ {"domain"}
    BY <1>2, TypeOfFacts
  <2> QED
    BY <2>1, <2>2, <2>3, <2>4, Names
<1>4. PICK list : list = SetUp(stones[e.of], t)
  OBVIOUS
<1>5. list \in Seq(Stone) /\ Grown(stones[e.of], list) /\ Has(list, t)
  BY <1>1, <1>3, <1>4, SetUpGrown
<1>6. ListGood(e.of, list)
  BY <1>1, <1>3, <1>5, GrownGood DEF Core, ListsGood
<1>7. PICK i \in DOMAIN list : i = StoneOf(list, t) /\ list[i].type = t /\ First(list, i)
  BY <1>5, StoneOfIs
<1>8. PICK old \in Stone : old = list[i]
  BY <1>5
<1>9. /\ Len(log) \in Nat /\ DOMAIN log = 1 .. Len(log) /\ n \in Nat /\ n < Open
  <2>1. /\ Len(log) \in Nat /\ Len(todo) \in Nat /\ DOMAIN log = 1 .. Len(log)
        /\ Len(log) + Len(todo) < Open
    BY <1>1, LogBelow
  <2>2. Len(todo) >= 1
    BY <1>1, <1>3
  <2> QED
    BY <2>1, <2>2, <1>2, OpenFacts
<1>10. PICK r : r = Pass(old, n)
  OBVIOUS
<1>11. Passed(old, n, r) /\ old.held \in Seq(Nat)
  <2>1. GathersAt(e.of, list, i) /\ HoldsLatestAt(e.of, list, i)
    BY <1>6 DEF ListGood, Gathers, HoldsLatest
  <2>2. (~old.stored => old.held = <<>>) /\ Len(old.held) < Bucket
    BY <2>1, <1>8 DEF GathersAt
  <2>3. Increases(old.held) /\ \A k \in DOMAIN old.held : old.held[k] \in DOMAIN log
    BY <2>1, <1>8 DEF HoldsLatestAt, Increases
  <2>4. \A k \in DOMAIN old.held : old.held[k] < n
    BY <2>3, <1>2, <1>9
  <2> QED
    BY <2>2, <2>3, <2>4, <1>9, <1>10, PassIs DEF Stone
<1>12. PICK stone : stone = [old EXCEPT !.held = r.held]
  OBVIOUS
<1>13. /\ stone \in Stone /\ stone.type = t /\ stone.stored = old.stored /\ stone.held = r.held
       /\ stone.targets = old.targets /\ old.type = t
  <2>1. r.held \in Seq(Nat)
    BY <1>11 DEF Passed
  <2> QED
    BY <2>1, <1>7, <1>8, <1>12 DEF Stone
<1>14. PICK new : new = [list EXCEPT ![i] = stone]
  OBVIOUS
<1>15. Changed(list, i, stone, new) /\ new = [list EXCEPT ![i].held = r.held]
  BY <1>5, <1>7, <1>8, <1>12, <1>13, <1>14 DEF Changed
<1>16. ASSUME e.what = "delete"
       PROVE  e.of \in Objects /\ t = "exist" /\ Len(todo) = 1 /\ new = list
  <2>1. Len(todo) = 1 /\ (e.of = "root" => e.what = "bind")
    BY <1>1, <1>2, <1>3, <1>16 DEF Core, TodoGood
  <2>2. t = "exist" /\ e.of \in Objects
    BY <2>1, <1>2, <1>3, <1>16, TypeOfFacts
  <2>3. ~old.stored /\ old.held = <<>>
    <3>1. t \notin DataTypes
      BY <2>2, DataTypesKnown
    <3> QED
      BY <3>1, <1>6, <1>7, <1>8 DEF ListGood, Gathers, GathersAt
  <2>4. r.held = <<>>
    BY <2>3, <1>11 DEF Passed
  <2>5. stone = old
    BY <2>3, <2>4, <1>12 DEF Stone
  <2>6. new = list
    BY <2>5, <1>5, <1>7, <1>8, <1>14
  <2> QED
    BY <2>1, <2>2, <2>6
<1>17. ~TellsItself(e) => e.of \in Entities /\ t = "exist"
  BY <1>2 DEF TellsItself
<1>18. PICK D : D = stones["domain"][1].targets
  OBVIOUS
<1>19. stones["domain"][StoneOf(stones["domain"], "domain")].targets = D
  <2>1. up
    BY <1>1, <1>3 DEF Core, Gone
  <2>2. /\ Len(stones["domain"]) = 1 /\ stones["domain"][1].type = "domain"
        /\ stones["domain"] \in Seq(Stone)
    BY <2>1, <1>1, Names DEF Core, Gone
  <2>3. Has(stones["domain"], "domain")
    BY <2>2 DEF Has
  <2>4. StoneOf(stones["domain"], "domain") \in DOMAIN stones["domain"]
    BY <2>2, <2>3, StoneOfIs
  <2>5. StoneOf(stones["domain"], "domain") = 1
    BY <2>2, <2>4
  <2> QED
    BY <2>5, <1>18
<1>20. /\ todo' = Tail(todo) /\ log' = Append(log, e)
       /\ stones' = [stones EXCEPT ![e.of] = IF e.what = "delete" THEN <<>>
                                             ELSE IF TellsItself(e) THEN new ELSE stones[e.of]]
       /\ status' = IF e.what = "delete" THEN [status EXCEPT ![e.of] = "absent"] ELSE status
       /\ wire' = [s \in Sinks |->
                     wire[s] \o (IF s \in D THEN <<<<n>>>>
                                 ELSE IF TellsItself(e) /\ s \in old.targets THEN r.out
                                 ELSE <<>>)]
       /\ IF e.what = "delete"
          THEN /\ dropped' = dropped \cup Held(new)
               /\ until' = [s \in Sinks |-> IF s \in Targets(list) THEN n ELSE until[s]]
          ELSE dropped' = dropped /\ until' = until
       /\ up' = up /\ sink' = sink /\ got' = got /\ missed' = missed /\ since' = since
  BY <1>2, <1>4, <1>7, <1>8, <1>10, <1>15, <1>19 DEF Fire, client
<1>21. /\ dropped' = dropped \cup (IF e.what = "delete" THEN Held(list) ELSE {})
       /\ \A s \in Sinks : until'[s] = IF e.what = "delete" /\ s \in Targets(list) THEN n ELSE until[s]
       /\ until' \in [Sinks -> 0 .. Open]
       /\ e.what # "delete" => until' = until
  <2>1. n \in 0 .. Open
    BY <1>9, OpenFacts
  <2>2. CASE e.what = "delete"
    BY <2>1, <2>2, <1>1, <1>16, <1>20
  <2>3. CASE e.what # "delete"
    BY <2>3, <1>1, <1>20
  <2> QED
    BY <2>2, <2>3
<1>22. Fires(e, n, t, list, i, old, r, stone, new, D)
  BY <1>2, <1>3, <1>5, <1>6, <1>7, <1>8, <1>9, <1>10, <1>11, <1>13, <1>15, <1>16, <1>17, <1>18,
     <1>20, <1>21 DEF Fires
<1> QED
  BY <1>22

\* The registrations an event goes out to.
LEMMA FireTargets ==
  ASSUME IInv, NEW e, NEW n, NEW t, NEW list, NEW i, NEW old, NEW r, NEW stone, NEW new, NEW D,
         Fires(e, n, t, list, i, old, r, stone, new, D)
  PROVE  /\ \A s \in Sinks : s \in Targets(list) =>
              Registered(s) /\ until[s] = Open /\ sink[s].channel[1] = e.of
         /\ \A s \in Sinks : s \in old.targets <=>
              Registered(s) /\ until[s] = Open /\ sink[s].channel = <<e.of, t>>
         /\ \A s \in Sinks : s \in D <=>
              Registered(s) /\ until[s] = Open /\ sink[s].channel[1] = "domain"
         /\ \A s \in Sinks : Registered(s) /\ until[s] = Open /\ sink[s].channel[1] = e.of =>
              s \in Targets(list) /\ \E k \in DOMAIN list : s \in list[k].targets
<1> USE DEF Fires
<1>1. Core /\ TypeOK /\ stones \in [Proactives -> Seq(Stone)]
  BY DEF IInv, Core, TypeOK
<1>2. \A s \in Sinks : sink[s].channel = <<sink[s].channel[1], sink[s].channel[2]>>
        /\ sink[s].channel[1] \in Proactives
        /\ (sink[s].channel[1] = "domain" <=> sink[s].channel[2] = "domain")
  BY <1>1, ChannelFacts DEF TypeOK
<1>3. ASSUME NEW s \in Sinks, s \in Targets(list)
      PROVE  Registered(s) /\ until[s] = Open /\ sink[s].channel[1] = e.of
  <2>1. PICK k \in DOMAIN list : s \in list[k].targets
    BY <1>3 DEF Targets
  <2> QED
    BY <2>1, TargetOnce
<1>4. ASSUME NEW s \in Sinks, s \in old.targets
      PROVE  Registered(s) /\ until[s] = Open /\ sink[s].channel = <<e.of, t>>
  BY <1>4, TargetOnce
<1>5. ASSUME NEW s \in Sinks, Registered(s), until[s] = Open, sink[s].channel = <<e.of, t>>
      PROVE  s \in old.targets
  <2>1. sink[s].channel[1] = e.of /\ list[i].type = sink[s].channel[2]
    BY <1>5
  <2>2. s \in list[i].targets
    BY <1>1, <1>5, <2>1, HangsOffFirst
  <2> QED
    BY <2>2
<1>6. PICK domain \in Seq(Stone) : /\ domain = stones["domain"] /\ ListGood("domain", domain)
                                   /\ Len(domain) = 1 /\ domain[1].type = "domain"
  <2>1. up
    BY <1>1 DEF Core, Gone
  <2> QED
    BY <2>1, <1>1, Names DEF Core, Gone, ListsGood
<1>7. D = domain[1].targets /\ DOMAIN domain = {1}
  BY <1>6
<1>8. ASSUME NEW s \in Sinks, s \in D
      PROVE  Registered(s) /\ until[s] = Open /\ sink[s].channel[1] = "domain"
  BY <1>6, <1>7, <1>8, TargetOnce
<1>9. ASSUME NEW s \in Sinks, Registered(s), until[s] = Open, sink[s].channel[1] = "domain"
      PROVE  s \in D
  <2>1. PICK k \in DOMAIN domain : s \in domain[k].targets
    BY <1>1, <1>6, <1>9 DEF Core, Hangs
  <2> QED
    BY <2>1, <1>7
<1>10. ASSUME NEW s \in Sinks, Registered(s), until[s] = Open, sink[s].channel[1] = e.of
       PROVE  s \in Targets(list) /\ \E k \in DOMAIN list : s \in list[k].targets
  <2>1. PICK k \in DOMAIN stones[e.of] : s \in stones[e.of][k].targets
    BY <1>1, <1>10 DEF Core, Hangs
  <2>2. k \in DOMAIN list /\ list[k] = stones[e.of][k]
    BY <1>1, <2>1, GrownFirst
  <2> QED
    BY <2>1, <2>2 DEF Targets
<1> QED
  BY <1>3, <1>4, <1>5, <1>8, <1>9, <1>10

\* The list of stones after the event.
LEMMA FireList ==
  ASSUME IInv, NEW e, NEW n, NEW t, NEW list, NEW i, NEW old, NEW r, NEW stone, NEW new, NEW D,
         Fires(e, n, t, list, i, old, r, stone, new, D)
  PROVE  ListsGood'
<1>0. \A s \in Sinks : s \in Targets(list) => sink[s].channel[1] = e.of
  BY FireTargets
<1> USE DEF Fires
<1>1. /\ Core /\ TypeOK /\ stones \in [Proactives -> Seq(Stone)] /\ SinksGood
      /\ dropped \subseteq DOMAIN log
  BY DEF IInv, Core, TypeOK, Counts
<1>2. /\ new \in Seq(Stone) /\ DOMAIN new = DOMAIN list /\ new[i] = stone
      /\ \A j \in DOMAIN list : j # i => new[j] = list[j]
      /\ \A j \in DOMAIN list : new[j].type = list[j].type
      /\ \A j \in DOMAIN list : First(new, j) <=> First(list, j)
  BY ChangedList
<1>3. /\ DOMAIN log \subseteq DOMAIN log' /\ \A m \in DOMAIN log : log'[m] = log[m]
      /\ DOMAIN log = 1 .. Len(log) /\ Len(log) \in Nat /\ n = Len(log) + 1 /\ n \in Nat
      /\ DOMAIN log' = 1 .. n /\ log'[n] = e /\ DOMAIN log' \ DOMAIN log = {n} /\ n \notin DOMAIN log
  BY <1>1 DEF TypeOK
<1> SUFFICES ASSUME NEW p \in Proactives
             PROVE  ListGood(p, stones[p])'
  BY DEF ListsGood
<1>4. CASE p # e.of
  <2>1. PICK all \in Seq(Stone) : all = stones[p] /\ all = stones'[p] /\ ListGood(p, all)
    BY <1>1, <1>4 DEF Core, ListsGood
  <2>2. \A j \in DOMAIN all : all[j].targets \subseteq Sinks
    BY StoneFacts
  <2>3. Undisturbed(p)
    <3>2. \A s \in Sinks : sink[s].channel[1] = p => until'[s] = until[s]
      BY <1>0, <1>4
    <3> QED
      BY <3>2 DEF Undisturbed, Registered
  <2>4. Silent(p)
    BY <1>3, <1>4 DEF Silent
  <2>5. ASSUME NEW j \in DOMAIN all, NEW k \in DOMAIN all[j].held
        PROVE  all[j].held[k] \notin dropped'
    <3>0. PICK x : x = all[j].held[k]
      OBVIOUS
    <3>1. x \notin dropped /\ Concerns(log[x], <<p, all[j].type>>)
      BY <2>1, <3>0, HeldIs
    <3> SUFFICES ASSUME x \in Held(list)
                 PROVE  FALSE
      BY <3>0, <3>1
    <3>5. list \in Seq(Stone) /\ ListGood(e.of, list)
      OBVIOUS
    <3> HIDE DEF Fires
    <3>2. PICK j2 \in DOMAIN list : \E k2 \in DOMAIN list[j2].held : x = list[j2].held[k2]
      BY InHeld
    <3>3. Concerns(log[x], <<e.of, list[j2].type>>)
      BY <3>2, <3>5, HeldIs
    <3>4. all[j].held # <<>>
      BY <2>5
    <3>6. p # "domain" /\ p \in Entities
      BY <3>4, <2>1, HoldsFirst, Names
    <3>7. e.of # "domain"
      BY DEF Fires
    <3> QED
      BY <3>1, <3>3, <3>6, <3>7, <1>4 DEF Concerns
  <2> QED
    BY <2>1, <2>2, <2>3, <2>4, <2>5, ListMoved
<1>5. CASE p = e.of /\ e.what = "delete"
  <2>1. stones'[p] = <<>>
    BY <1>1, <1>5
  <2> QED
    BY <2>1 DEF ListGood, Gathers, HoldsLatest, Serves, HoldsNew
<1>6. CASE p = e.of /\ e.what # "delete"
  <2>1. dropped' = dropped /\ until' = until /\ since' = since /\ sink' = sink
    BY <1>6
  <2>2. PICK all \in Seq(Stone) :
          /\ all = IF TellsItself(e) THEN new ELSE stones[p]
          /\ stones'[p] = all
    BY <1>1, <1>2, <1>6
  <2>3. ASSUME NEW j \in DOMAIN all, ~ (TellsItself(e) /\ j = i)
        PROVE  /\ GathersAt(p, all, j) /\ HoldsLatestAt(p, all, j)
               /\ ServesAt(p, all, j) /\ HoldsNewAt(p, all, j)
               /\ all[j].held # <<>> => ~Concerns(e, <<p, all[j].type>>)
    <3>1. CASE TellsItself(e)
      <4>1. all = new /\ j \in DOMAIN list /\ j # i /\ new[j] = list[j]
            /\ (First(new, j) <=> First(list, j))
        BY <2>2, <2>3, <3>1, <1>2
      <4>2. /\ GathersAt(p, list, j) /\ HoldsLatestAt(p, list, j)
            /\ ServesAt(p, list, j) /\ HoldsNewAt(p, list, j)
        BY <4>1, <1>6 DEF ListGood, Gathers, HoldsLatest, Serves, HoldsNew
      <4>3. list[j].held # <<>> => ~Concerns(e, <<p, list[j].type>>)
        <5> SUFFICES ASSUME list[j].held # <<>>, Concerns(e, <<p, list[j].type>>)
                     PROVE  FALSE
          OBVIOUS
        <5>1. First(list, j)
          BY <4>1, <1>6, HoldsFirst
        <5>2. list[j].type = t
          BY <1>6 DEF Concerns
        <5> QED
          BY <5>1, <5>2, <4>1, FirstOnce
      <4>4. GathersAt(p, new, j)
        BY <4>1, <4>2 DEF GathersAt
      <4>5. HoldsLatestAt(p, new, j)
        BY <4>1, <4>2 DEF HoldsLatestAt
      <4>6. ServesAt(p, new, j)
        BY <4>1, <4>2 DEF ServesAt
      <4>7. HoldsNewAt(p, new, j)
        BY <4>1, <4>2 DEF HoldsNewAt
      <4> QED
        BY <4>1, <4>3, <4>4, <4>5, <4>6, <4>7
    <3>2. CASE ~TellsItself(e)
      <4>1. all = stones[p] /\ ListGood(p, all)
        BY <2>2, <3>2, <1>1 DEF Core, ListsGood
      <4>2. all[j].held # <<>> => ~Concerns(e, <<p, all[j].type>>)
        <5>1. all[j].held # <<>> => all[j].type \in DataTypes
          BY <4>1, HoldsFirst
        <5>2. t = "exist" /\ "exist" \notin DataTypes /\ p # "domain"
          BY <3>2, <1>6, DataTypesKnown
        <5> QED
          BY <5>1, <5>2 DEF Concerns
      <4> QED
        BY <4>1, <4>2 DEF ListGood, Gathers, HoldsLatest, Serves, HoldsNew
    <3> QED
      BY <3>1, <3>2
  <2>4. ASSUME NEW j \in DOMAIN all, ~ (TellsItself(e) /\ j = i)
        PROVE  /\ GathersAt(p, all, j)' /\ HoldsLatestAt(p, all, j)'
               /\ ServesAt(p, all, j)' /\ HoldsNewAt(p, all, j)'
    <3>1. /\ GathersAt(p, all, j) /\ HoldsLatestAt(p, all, j)
          /\ ServesAt(p, all, j) /\ HoldsNewAt(p, all, j)
          /\ all[j].held # <<>> => ~Concerns(e, <<p, all[j].type>>)
      BY <2>3, <2>4
    <3>2. \A m \in DOMAIN log' \ DOMAIN log :
            all[j].held # <<>> => ~Concerns(log'[m], <<p, all[j].type>>)
      BY <3>1, <1>3
    <3>3. \A k \in DOMAIN all[j].held : all[j].held[k] \notin dropped'
      BY <2>1, <3>1 DEF HoldsLatestAt
    <3> QED
      BY <3>1, <3>2, <3>3, <2>1, <1>3, StoneMoved
  <2>5. ASSUME TellsItself(e)
        PROVE  /\ GathersAt(p, new, i)' /\ HoldsLatestAt(p, new, i)'
               /\ ServesAt(p, new, i)' /\ HoldsNewAt(p, new, i)'
    <3>0. PICK h \in Seq(Nat), held \in Seq(Nat) :
            /\ h = old.held /\ h = list[i].held /\ list[i].type = t /\ held = r.held /\ new[i].held = held
            /\ held = <<>> \/ held = Append(h, n)
      <4>1. old.held \in Seq(Nat)
        BY DEF Stone
      <4> QED
        BY <4>1, <1>2 DEF Passed
    <3>1. /\ GathersAt(p, list, i) /\ HoldsLatestAt(p, list, i)
          /\ ServesAt(p, list, i) /\ HoldsNewAt(p, list, i)
      BY <1>6 DEF ListGood, Gathers, HoldsLatest, Serves, HoldsNew
    <3>2. new[i].type = t /\ new[i].stored = old.stored /\ new[i].targets = old.targets
          /\ First(new, i)
      BY <1>2
    <3>3. GathersAt(p, new, i)'
      <4>1. GathersAt(p, new, i)
        BY <3>0, <3>1, <3>2 DEF GathersAt, Passed
      <4> QED
        BY <4>1 DEF GathersAt, First
    <3>4. ServesAt(p, new, i)'
      <4>1. ServesAt(p, new, i)
        BY <3>1, <3>2 DEF ServesAt
      <4> QED
        BY <4>1, <2>1 DEF ServesAt, First, Registered, Open
    <3>5. /\ \A k \in DOMAIN h : h[k] \in DOMAIN log /\ h[k] \notin dropped
          /\ \A k \in DOMAIN h : Concerns(log[h[k]], <<p, t>>)
          /\ Increases(h)
          /\ h # <<>> => \A m \in DOMAIN log : m >= h[1] /\ Concerns(log[m], <<p, t>>) => m \in Range(h)
          /\ \A k \in DOMAIN h : h[k] < n
      <4>1. /\ \A k \in DOMAIN h : h[k] \in DOMAIN log /\ h[k] \notin dropped
            /\ \A k \in DOMAIN h : Concerns(log[h[k]], <<p, t>>)
            /\ Increases(h)
            /\ h # <<>> => \A m \in DOMAIN log : m >= h[1] /\ Concerns(log[m], <<p, t>>) => m \in Range(h)
        BY <3>0, <3>1 DEF HoldsLatestAt, Increases
      <4>2. ASSUME NEW k \in DOMAIN h
            PROVE  h[k] < n
        <5>1. h[k] \in 1 .. Len(log)
          BY <4>1, <1>3
        <5> HIDE DEF Fires
        <5> QED
          BY <5>1, <1>3
      <4> QED
        BY <4>1, <4>2
    <3>6. Concerns(e, <<p, t>>) /\ \A m \in DOMAIN log : \A c : Concerns(log'[m], c) = Concerns(log[m], c)
      BY <1>3, <1>6 DEF Concerns
    <3> HIDE DEF Fires
    <3>7. CASE held = <<>>
      <4>1. HoldsLatestAt(p, new, i)'
        BY <3>0, <3>7 DEF HoldsLatestAt
      <4>2. HoldsNewAt(p, new, i)'
        BY <3>0, <3>7 DEF HoldsNewAt
      <4> QED
        BY <3>3, <3>4, <4>1, <4>2
    <3>8. CASE held = Append(h, n)
      <4>1. /\ \A k \in 1 .. Len(h) : held[k] = h[k]
            /\ held[Len(h) + 1] = n /\ Len(held) = Len(h) + 1 /\ Len(h) \in Nat
            /\ Range(held) = Range(h) \cup {n} /\ Increases(held)
        BY <3>5, <3>8, AppendIs
      <4>2. DOMAIN held = 1 .. Len(h) + 1 /\ DOMAIN h = 1 .. Len(h)
        BY <4>1
      <4>3. \A k \in DOMAIN held : \/ k \in DOMAIN h /\ held[k] = h[k]
                                   \/ held[k] = n
        BY <4>1, <4>2
      <4>4. HoldsLatestAt(p, new, i)'
        <5>1. \A k \in DOMAIN held : held[k] \in DOMAIN log' \ dropped
          BY <4>3, <3>5, <1>1, <1>3
        <5>2. \A k \in DOMAIN held : Concerns(log'[held[k]], <<p, t>>)
          <6> SUFFICES ASSUME NEW k \in DOMAIN held
                       PROVE  Concerns(log'[held[k]], <<p, t>>)
            OBVIOUS
          <6>1. CASE k \in DOMAIN h /\ held[k] = h[k]
            BY <6>1, <3>5, <3>6
          <6>2. CASE held[k] = n
            BY <6>2, <3>6, <1>3
          <6> QED
            BY <6>1, <6>2, <4>3
        <5>3. ASSUME NEW m \in DOMAIN log', m >= held[1], Concerns(log'[m], <<p, t>>)
              PROVE  m \in Range(held)
          <6>1. CASE m = n
            BY <6>1, <4>1
          <6>2. CASE m # n
            <7>1. m \in DOMAIN log /\ m < n
              BY <6>2, <1>3
            <7>2. h # <<>>
              <8> SUFFICES ASSUME h = <<>>
                           PROVE  FALSE
                OBVIOUS
              <8>1. held[1] = n
                BY <4>1
              <8> QED
                BY <8>1, <7>1, <5>3, <1>3
            <7>3. held[1] = h[1]
              BY <7>2, <4>1
            <7> QED
              BY <7>1, <7>2, <7>3, <5>3, <3>5, <3>6, <4>1
          <6> QED
            BY <6>1, <6>2
        <5> QED
          BY <5>1, <5>2, <5>3, <4>1, <3>0, <3>2, <2>1
             DEF HoldsLatestAt, Concerns, Increases
      <4>5. HoldsNewAt(p, new, i)'
        <5> SUFFICES ASSUME NEW k \in DOMAIN held, NEW s \in Sinks, Registered(s),
                            sink[s].channel = <<p, t>>
                     PROVE  IF until[s] = Open THEN since[s] < held[k] ELSE until[s] < held[k]
          BY <3>0, <3>2, <2>1 DEF HoldsNewAt, Registered, Open
        <5>1. CASE k \in DOMAIN h /\ held[k] = h[k]
          <6>1. k \in DOMAIN list[i].held /\ list[i].held[k] = held[k]
            BY <5>1, <3>0
          <6>2. sink[s].channel = <<p, list[i].type>>
            BY <3>0
          <6>3. IF until[s] = Open THEN since[s] < list[i].held[k] ELSE until[s] < list[i].held[k]
            BY <6>1, <6>2, <3>1 DEF HoldsNewAt
          <6> QED
            BY <6>1, <6>3
        <5>2. CASE held[k] = n
          <6>1. since[s] <= Len(log) /\ (until[s] = Open \/ until[s] <= Len(log))
            BY <1>1 DEF SinksGood
          <6>2. since[s] \in Nat /\ until[s] \in Nat
            BY <1>1, OpenFacts DEF TypeOK
          <6> QED
            BY <5>2, <6>1, <6>2, <1>3
        <5> QED
          BY <5>1, <5>2, <4>3
      <4> QED
        BY <3>3, <3>4, <4>4, <4>5
    <3> QED
      BY <3>0, <3>7, <3>8
  <2>6. \A j \in DOMAIN all : /\ GathersAt(p, all, j)' /\ HoldsLatestAt(p, all, j)'
                              /\ ServesAt(p, all, j)' /\ HoldsNewAt(p, all, j)'
    BY <2>2, <2>4, <2>5
  <2> HIDE DEF Fires
  <2> QED
    BY <2>2, <2>6 DEF ListGood, Gathers, HoldsLatest, Serves, HoldsNew,
      GathersAt, HoldsLatestAt, ServesAt, HoldsNewAt
<1> QED
  BY <1>4, <1>5, <1>6

\* What the step adds to the stream of s.
Added(s, e, n, old, r, D) ==
  IF s \in D THEN <<<<n>>>> ELSE IF TellsItself(e) /\ s \in old.targets THEN r.out ELSE <<>>

LEMMA FireAdds ==
  ASSUME IInv, NEW e, NEW n, NEW t, NEW list, NEW i, NEW old, NEW r, NEW stone, NEW new, NEW D,
         Fires(e, n, t, list, i, old, r, stone, new, D), NEW s \in Sinks
  PROVE  /\ wire'[s] = wire[s] \o Added(s, e, n, old, r, D)
         /\ Added(s, e, n, old, r, D) \in Seq(Seq(Nat))
         /\ GoesOn(Stream(s), Added(s, e, n, old, r, D), Stream(s)')
<1>1. wire'[s] = wire[s] \o Added(s, e, n, old, r, D)
  BY DEF Fires, Added
<1>2. Added(s, e, n, old, r, D) \in Seq(Seq(Nat))
  <2>1. r.out \in Seq(Seq(Nat)) /\ n \in Nat
    BY DEF Fires, Passed
  <2>2. <<<<n>>>> \in Seq(Seq(Nat)) /\ <<>> \in Seq(Seq(Nat))
    BY <2>1
  <2> QED
    BY <2>1, <2>2 DEF Added
<1>3. TypeOK /\ got' = got /\ missed' = missed
  BY DEF Fires, IInv, Core
<1>4. PICK added \in Seq(Seq(Nat)) : added = Added(s, e, n, old, r, D)
  BY <1>2
<1>5. GoesOn(Stream(s), added, Stream(s)')
  BY <1>1, <1>3, <1>4, StreamIs
<1> QED
  BY <1>1, <1>2, <1>4, <1>5

LEMMA FireCore ==
  ASSUME IInv, NEW e, NEW n, NEW t, NEW list, NEW i, NEW old, NEW r, NEW stone, NEW new, NEW D,
         Fires(e, n, t, list, i, old, r, stone, new, D)
  PROVE  Core'
<1>0. /\ \A s \in Sinks : s \in Targets(list) =>
           Registered(s) /\ until[s] = Open /\ sink[s].channel[1] = e.of
      /\ \A s \in Sinks : s \in old.targets => Registered(s)
      /\ \A s \in Sinks : s \in D => Registered(s)
      /\ \A s \in Sinks : Registered(s) /\ until[s] = Open /\ sink[s].channel[1] = e.of =>
           s \in Targets(list)
  BY FireTargets
<1>1. /\ Core /\ TypeOK /\ stones \in [Proactives -> Seq(Stone)]
      /\ status \in [Objects -> {"absent", "placeholder", "real"}]
      /\ todo \in Seq(LogEntry) /\ log \in Seq(LogEntry) /\ wire \in [Sinks -> Seq(Seq(Nat))]
      /\ dropped \subseteq DOMAIN log
  BY DEF IInv, Core, TypeOK, Counts
<1>2. /\ todo # <<>> /\ e = todo[1] /\ e \in LogEntry /\ n = Len(log) + 1
      /\ e.of \in Proactives /\ e.of # "domain"
      /\ list \in Seq(Stone) /\ Grown(stones[e.of], list) /\ ListGood(e.of, list)
      /\ Len(log) \in Nat /\ DOMAIN log = 1 .. Len(log) /\ n \in Nat /\ n < Open
      /\ e.what = "delete" => e.of \in Objects /\ Len(todo) = 1
      /\ todo' = Tail(todo) /\ log' = Append(log, e)
      /\ up' = up /\ sink' = sink /\ got' = got /\ missed' = missed /\ since' = since
  BY DEF Fires
<1>3. /\ stones' = [stones EXCEPT ![e.of] = IF e.what = "delete" THEN <<>>
                                            ELSE IF TellsItself(e) THEN new ELSE stones[e.of]]
      /\ status' = IF e.what = "delete" THEN [status EXCEPT ![e.of] = "absent"] ELSE status
      /\ wire' = [s \in Sinks |-> wire[s] \o Added(s, e, n, old, r, D)]
      /\ dropped' = dropped \cup (IF e.what = "delete" THEN Held(list) ELSE {})
      /\ \A s \in Sinks : until'[s] = IF e.what = "delete" /\ s \in Targets(list) THEN n ELSE until[s]
      /\ until' \in [Sinks -> 0 .. Open]
      /\ e.what # "delete" => until' = until
  BY DEF Fires, Added
<1>4. /\ new \in Seq(Stone) /\ DOMAIN new = DOMAIN list
      /\ \A j \in DOMAIN list : new[j].targets = list[j].targets
  <2>1. Changed(list, i, stone, new) /\ stone.targets = list[i].targets
    BY DEF Fires
  <2>2. /\ new \in Seq(Stone) /\ DOMAIN new = DOMAIN list /\ new[i] = stone
        /\ \A j \in DOMAIN list : j # i => new[j] = list[j]
    BY <2>1, ChangedList
  <2> QED
    BY <2>1, <2>2
<1>5. /\ Tail(todo) \in Seq(LogEntry) /\ Len(Tail(todo)) = Len(todo) - 1 /\ Len(todo) \in Nat
      /\ \A k \in DOMAIN Tail(todo) : k + 1 \in DOMAIN todo /\ Tail(todo)[k] = todo[k + 1]
      /\ Append(log, e) \in Seq(LogEntry) /\ Len(Append(log, e)) = n
      /\ DOMAIN Append(log, e) = 1 .. n
  BY <1>1, <1>2
<1>6. Held(list) \subseteq DOMAIN log
  <2> SUFFICES ASSUME NEW x \in Held(list)
               PROVE  x \in DOMAIN log
    OBVIOUS
  <2>1. PICK j \in DOMAIN list : \E k \in DOMAIN list[j].held : x = list[j].held[k]
    BY InHeld
  <2> QED
    BY <2>1, <1>2, HeldIs
<1>7. dropped' \subseteq 1 .. Len(log)
  BY <1>1, <1>2, <1>3, <1>6
<1>8. TypeOK'
  <2>1. stones' \in [Proactives -> Seq(Stone)]
    <3>1. <<>> \in Seq(Stone)
      OBVIOUS
    <3> QED
      BY <1>1, <1>3, <1>4, <3>1
  <2>2. status' \in [Objects -> {"absent", "placeholder", "real"}]
    BY <1>1, <1>3
  <2>3. wire' \in [Sinks -> Seq(Seq(Nat))]
    <3>1. ASSUME NEW s \in Sinks
          PROVE  wire[s] \o Added(s, e, n, old, r, D) \in Seq(Seq(Nat))
      <4>1. PICK a \in Seq(Seq(Nat)), b \in Seq(Seq(Nat)) : a = wire[s] /\ b = Added(s, e, n, old, r, D)
        BY <1>1, FireAdds
      <4>2. a \o b \in Seq(Seq(Nat))
        BY ConcatProperties
      <4> QED
        BY <4>1, <4>2
    <3> QED
      BY <1>3, <3>1
  <2>4. dropped' \subseteq 1 .. Open
    <3>1. 1 .. Len(log) \subseteq 1 .. Open
      BY <1>2, OpenFacts
    <3> QED
      BY <1>7, <3>1
  <2> QED
    BY <1>1, <1>2, <1>3, <1>5, <2>1, <2>2, <2>3, <2>4 DEF TypeOK, Open
<1>9. Counts'
  <2>1. Replied' = Replied
    BY <1>2 DEF Replied
  <2>2. Len(log') + Len(todo') = Len(log) + Len(todo)
    BY <1>2, <1>5
  <2>3. dropped' \subseteq DOMAIN log'
    BY <1>2, <1>5, <1>7
  <2> QED
    BY <2>1, <2>2, <2>3, <1>1 DEF Core, Counts, Room
<1>10. TodoGood'
  <2> SUFFICES ASSUME NEW k \in DOMAIN Tail(todo)
               PROVE  /\ Tail(todo)[k].of \in Objects => status'[Tail(todo)[k].of] # "absent"
                      /\ Tail(todo)[k].of = "root" => Tail(todo)[k].what = "bind"
                      /\ Tail(todo)[k].what = "delete" => Len(Tail(todo)) = 1
                      /\ Tail(todo)[k].what \in DataTypes => Tail(todo)[k].of \in Entities
    BY <1>2 DEF TodoGood
  <2>1. k + 1 \in DOMAIN todo /\ Tail(todo)[k] = todo[k + 1] /\ Len(todo) >= 2
    BY <1>5
  <2>2. e.what # "delete" /\ status' = status
    BY <1>2, <1>3, <2>1
  <2>3. /\ todo[k + 1].of \in Objects => status[todo[k + 1].of] # "absent"
        /\ todo[k + 1].of = "root" => todo[k + 1].what = "bind"
        /\ todo[k + 1].what = "delete" => Len(todo) = 1
        /\ todo[k + 1].what \in DataTypes => todo[k + 1].of \in Entities
    BY <2>1, <1>1 DEF Core, TodoGood
  <2> QED
    BY <2>1, <2>2, <2>3, <1>5
<1>11. Gone'
  <2>1. up
    BY <1>1, <1>2 DEF Core, Gone
  <2>2. stones'["domain"] = stones["domain"]
    BY <1>1, <1>2, <1>3, Names
  <2>3. ASSUME NEW o \in Objects, status'[o] = "absent"
        PROVE  stones'[o] = <<>>
    <3>1. CASE o = e.of
      <4>1. status[o] # "absent"
        <5>1. 1 \in DOMAIN todo
          BY <1>1, <1>2
        <5> QED
          BY <3>1, <5>1, <1>1, <1>2 DEF Core, TodoGood
      <4> QED
        BY <3>1, <4>1, <2>3, <1>1, <1>2, <1>3
    <3>2. CASE o # e.of
      <4>1. status[o] = "absent"
        BY <3>2, <2>3, <1>1, <1>2, <1>3
      <4> QED
        BY <3>2, <4>1, <1>1, <1>3, Names DEF Core, Gone
    <3> QED
      BY <3>1, <3>2
  <2> QED
    BY <2>1, <2>2, <2>3, <1>1, <1>2 DEF Core, Gone
<1>12. ListsGood'
  BY FireList
<1>13. Hangs'
  <2> SUFFICES ASSUME NEW s \in Sinks, Registered(s), until'[s] = Open
               PROVE  \E k \in DOMAIN stones'[sink[s].channel[1]] :
                        s \in stones'[sink[s].channel[1]][k].targets
    BY <1>2 DEF Hangs, Registered, Open
  <2>1. until[s] = Open
    BY <1>2, <1>3, OpenFacts
  <2>2. PICK k \in DOMAIN stones[sink[s].channel[1]] :
               s \in stones[sink[s].channel[1]][k].targets
    BY <2>1, <1>1 DEF Core, Hangs
  <2>3. sink[s].channel[1] \in Proactives
    BY <1>1, ChannelFacts DEF TypeOK
  <2>4. CASE sink[s].channel[1] # e.of
    BY <2>2, <2>3, <2>4, <1>1, <1>3
  <2>5. CASE sink[s].channel[1] = e.of
    <3>1. e.what # "delete"
      <4>1. s \in Targets(list)
        BY <2>1, <2>5, <1>0
      <4>2. e.what = "delete" => until'[s] = n
        BY <4>1, <1>3
      <4>3. until'[s] = Open /\ n < Open /\ n \in Nat /\ Open \in Nat
        BY <1>2, OpenFacts
      <4> QED
        BY <4>2, <4>3
    <3>2. k \in DOMAIN list /\ list[k] = stones[e.of][k]
      BY <2>2, <2>5, <1>1, <1>2, GrownFirst
    <3>3. k \in DOMAIN new /\ s \in new[k].targets
      BY <3>2, <2>2, <2>5, <1>4
    <3>4. stones'[e.of] = new \/ stones'[e.of] = stones[e.of]
      BY <3>1, <1>1, <1>2, <1>3
    <3> QED
      BY <3>3, <3>4, <2>2, <2>5
  <2> QED
    BY <2>4, <2>5
<1>14. SinksGood'
  <2> SUFFICES ASSUME NEW s \in Sinks
               PROVE  /\ ~Registered(s) => /\ until'[s] = Open /\ missed[s] = <<>>
                                           /\ got[s] = <<>> /\ wire'[s] = <<>>
                      /\ Registered(s) => since[s] <= n
                      /\ Registered(s) => until'[s] = Open \/ until'[s] <= n
                      /\ sink[s].state = "ok" => got[s] = <<>>
    <3>1. Len(log') = n
      BY <1>2, <1>5
    <3> QED
      BY <1>2, <3>1 DEF SinksGood, Open, Registered
  <2>1. /\ ~Registered(s) => /\ until[s] = Open /\ missed[s] = <<>>
                             /\ got[s] = <<>> /\ wire[s] = <<>>
        /\ Registered(s) => since[s] <= Len(log)
        /\ Registered(s) => until[s] = Open \/ until[s] <= Len(log)
        /\ sink[s].state = "ok" => got[s] = <<>>
    BY <1>1 DEF Core, SinksGood
  <2>2. until[s] \in Nat /\ since[s] \in Nat
    BY <1>1, OpenFacts DEF TypeOK
  <2>3. ASSUME ~Registered(s)
        PROVE  wire'[s] = <<>>
    <3>1. Added(s, e, n, old, r, D) = <<>>
      BY <2>3, <1>0 DEF Added
    <3> QED
      BY <2>1, <2>3, <3>1, <1>3, Concats
  <2>4. until'[s] = n \/ until'[s] = until[s]
    BY <1>3
  <2>5. ~Registered(s) => until'[s] = until[s]
    BY <1>0, <1>3
  <2> QED
    BY <2>1, <2>2, <2>3, <2>4, <2>5, <1>2
<1> QED
  BY <1>8, <1>9, <1>10, <1>11, <1>12, <1>13, <1>14 DEF Core

\* What is owed to s, held for it and on its way to it, before and after the event.
FireOwes(s, e, n, list, old, r, D) ==
  LET channel == sink[s].channel
      new == IF until[s] = Open /\ Concerns(e, channel) THEN {n} ELSE {}
      gone == IF e.what = "delete" THEN Held(list) ELSE {}
  IN /\ Due(s)' = (Due(s) \cup new) \ (IF channel[1] = "domain" THEN {} ELSE gone)
     /\ n \notin gone /\ n \notin Due(s) /\ \A x \in Due(s) : x \in Nat /\ x < n
     /\ \/ /\ Contents(Added(s, e, n, old, r, D)) = new
           /\ HeldFor(s)' = IF e.what = "delete" /\ channel[1] = e.of THEN {} ELSE HeldFor(s)
           /\ n \notin HeldFor(s)
           /\ channel[1] # "domain" => Due(s) \cap gone = IF channel[1] = e.of /\ e.what = "delete"
                                                          THEN HeldFor(s) ELSE {}
        \/ /\ e.what # "delete" /\ new = {n}
           /\ Added(s, e, n, old, r, D) = r.out
           /\ HeldFor(s) = Range(old.held) /\ HeldFor(s)' = Range(r.held)
           /\ HeldFor(s) \subseteq Due(s)
           /\ \A x \in Due(s) \ HeldFor(s) : \A y \in Range(old.held) : x < y

LEMMA FireOwesIt ==
  ASSUME IInv, NEW e, NEW n, NEW t, NEW list, NEW i, NEW old, NEW r, NEW stone, NEW new, NEW D,
         Fires(e, n, t, list, i, old, r, stone, new, D), NEW s \in Sinks, Registered(s)
  PROVE  FireOwes(s, e, n, list, old, r, D)
<1>0. /\ \A q \in Sinks : q \in Targets(list) =>
           Registered(q) /\ until[q] = Open /\ sink[q].channel[1] = e.of
      /\ \A q \in Sinks : q \in old.targets <=>
           Registered(q) /\ until[q] = Open /\ sink[q].channel = <<e.of, t>>
      /\ \A q \in Sinks : q \in D <=>
           Registered(q) /\ until[q] = Open /\ sink[q].channel[1] = "domain"
      /\ \A q \in Sinks : Registered(q) /\ until[q] = Open /\ sink[q].channel[1] = e.of =>
           \E k \in DOMAIN list : q \in list[k].targets
  BY FireTargets
<1>1. /\ Core /\ TypeOK /\ stones \in [Proactives -> Seq(Stone)]
      /\ dropped \subseteq DOMAIN log
  BY DEF IInv, Core, TypeOK, Counts
<1>2. /\ e \in LogEntry /\ n = Len(log) + 1 /\ t = TypeOf(e.what) /\ t # "domain"
      /\ e.of \in Proactives /\ e.of # "domain"
      /\ list \in Seq(Stone) /\ Grown(stones[e.of], list) /\ ListGood(e.of, list)
      /\ i \in DOMAIN list /\ list[i].type = t /\ First(list, i) /\ old = list[i] /\ old \in Stone
      /\ Passed(old, n, r)
      /\ Len(log) \in Nat /\ DOMAIN log = 1 .. Len(log) /\ n \in Nat /\ n < Open
      /\ e.what = "delete" => e.of \in Objects /\ t = "exist"
      /\ ~TellsItself(e) => e.of \in Entities /\ t = "exist"
      /\ log' = Append(log, e)
      /\ sink' = sink /\ since' = since
  BY DEF Fires
<1>3. /\ stones' = [stones EXCEPT ![e.of] = IF e.what = "delete" THEN <<>>
                                            ELSE IF TellsItself(e) THEN new ELSE stones[e.of]]
      /\ \A q \in Sinks : until'[q] = IF e.what = "delete" /\ q \in Targets(list) THEN n ELSE until[q]
  BY DEF Fires
<1>4. /\ Changed(list, i, stone, new) /\ stone.targets = old.targets /\ stone.held = r.held
  BY DEF Fires
<1>5. /\ new \in Seq(Stone) /\ DOMAIN new = DOMAIN list /\ new[i] = stone
      /\ \A j \in DOMAIN list : j # i => new[j] = list[j]
  BY <1>4, ChangedList
<1>b. PICK q \in Proactives : q = sink[s].channel[1]
  <2>1. sink[s].channel \in Channels
    BY <1>1 DEF TypeOK
  <2> QED
    BY <2>1, ChannelFacts
<1>6. PICK channel, fresh, gone :
        /\ channel = sink[s].channel /\ q = channel[1] /\ channel = <<q, channel[2]>>
        /\ (q = "domain" <=> channel[2] = "domain") /\ (q \in Entities => channel[2] # "exist")
        /\ fresh = IF until[s] = Open /\ Concerns(e, channel) THEN {n} ELSE {}
        /\ gone = IF e.what = "delete" THEN Held(list) ELSE {}
  <2>1. sink[s].channel \in Channels
    BY <1>1 DEF TypeOK
  <2> QED
    BY <1>b, <2>1, ChannelFacts
<1>7. n \notin gone /\ n \notin dropped
  <2>1. \A x \in Held(list) : x \in DOMAIN log
    <3> SUFFICES ASSUME NEW x \in Held(list)
                 PROVE  x \in DOMAIN log
      OBVIOUS
    <3>1. PICK j \in DOMAIN list : \E k \in DOMAIN list[j].held : x = list[j].held[k]
      BY InHeld
    <3> QED
      BY <3>1, <1>2, HeldIs
  <2>2. n \notin DOMAIN log
    BY <1>2
  <2> QED
    BY <2>1, <2>2, <1>1, <1>6
<1>8. Due(s)' = (Due(s) \cup fresh) \ (IF q = "domain" THEN {} ELSE gone)
  <2>1. dropped' = dropped \cup gone
    BY <1>6 DEF Fires
  <2>2. until'[s] = until[s] \/ (until[s] = Open /\ until'[s] = n)
    BY <1>0, <1>3
  <2> QED
    BY <2>1, <2>2, <1>1, <1>2, <1>6, <1>7, DueGrows
<1>9. n \notin Due(s) /\ \A x \in Due(s) : x \in Nat /\ x < n /\ x \in DOMAIN log
  <2> SUFFICES ASSUME NEW x \in Due(s)
               PROVE  x \in Nat /\ x < n /\ x \in DOMAIN log
    BY <1>2
  <2>1. x \in since[s] + 1 .. Len(log) /\ since[s] \in Nat
    BY <1>1, OpenFacts DEF Due, TypeOK
  <2> QED
    BY <2>1, <1>2
<1>10. /\ HeldFor(s) = HeldOf(stones[q], s) /\ HeldFor(s)' = HeldOf(stones'[q], s)
  BY <1>2, <1>6, HeldForIs, HeldForIsNext
<1>11. HeldFor(s) \subseteq DOMAIN log
  <2> SUFFICES ASSUME NEW x \in HeldOf(stones[q], s)
               PROVE  x \in DOMAIN log
    BY <1>10
  <2>1. PICK j \in DOMAIN stones[q] : x \in Range(stones[q][j].held)
    BY DEF HeldOf
  <2>2. PICK k \in DOMAIN stones[q][j].held : x = stones[q][j].held[k]
    BY <2>1 DEF Range
  <2>3. stones[q] \in Seq(Stone) /\ ListGood(q, stones[q])
    BY <1>1 DEF Core, ListsGood
  <2> QED
    BY <2>2, <2>3, HeldIs
<1>12. n \notin HeldFor(s)
  BY <1>2, <1>11
<1>13. Concerns(e, channel) <=> q = "domain" \/ channel = <<e.of, t>>
  BY <1>2, <1>6 DEF Concerns
<1>14. Contents(<<<<n>>>>) = {n} /\ Contents(<<>>) = {}
  <2>1. PICK one : one = <<n>>
    OBVIOUS
  <2>2. Range(one) = {n}
    BY <2>1 DEF Range
  <2> QED
    BY <2>1, <2>2, Single
<1> DEFINE added == Added(s, e, n, old, r, D)
           Plain == /\ Contents(added) = fresh
                    /\ HeldFor(s)' = IF e.what = "delete" /\ q = e.of THEN {} ELSE HeldFor(s)
                    /\ q # "domain" => Due(s) \cap gone = IF q = e.of /\ e.what = "delete"
                                                          THEN HeldFor(s) ELSE {}
           Taken == /\ e.what # "delete" /\ fresh = {n}
                    /\ added = r.out
                    /\ HeldFor(s) = Range(old.held) /\ HeldFor(s)' = Range(r.held)
                    /\ HeldFor(s) \subseteq Due(s)
                    /\ \A x \in Due(s) \ HeldFor(s) : \A y \in Range(old.held) : x < y
<1>15. ASSUME q = "domain"
       PROVE  Plain \/ Taken
  <2>1. added = IF until[s] = Open THEN <<<<n>>>> ELSE <<>>
    BY <1>0, <1>2, <1>6, <1>15 DEF Added
  <2>2. Contents(added) = fresh
    BY <2>1, <1>6, <1>13, <1>14, <1>15
  <2>3. HeldFor(s)' = HeldFor(s)
    BY <1>1, <1>2, <1>3, <1>10, <1>15
  <2>4. Plain
    BY <2>2, <2>3, <1>2, <1>15
  <2> QED
    BY <2>4
<1>16. ASSUME q # "domain" /\ q # e.of
       PROVE  Plain \/ Taken
  <2>1. fresh = {} /\ added = <<>>
    BY <1>0, <1>6, <1>13, <1>16 DEF Added
  <2>2. HeldFor(s)' = HeldFor(s)
    BY <1>1, <1>2, <1>3, <1>10, <1>16
  <2>3. Due(s) \cap Held(list) = {}
    BY <1>1, <1>2, <1>6, <1>16, HeldElse
  <2>4. Plain
    BY <2>1, <2>2, <2>3, <1>6, <1>14, <1>16
  <2> QED
    BY <2>4
<1>17. ASSUME q = e.of
       PROVE  Plain \/ Taken
  <2>0. /\ HeldFor(s) = HeldOf(list, s)
        /\ Due(s) \cap Held(list) = HeldOf(list, s)
        /\ s \notin D /\ q # "domain"
    <3>1. HeldFor(s) = HeldOf(list, s)
      BY <1>1, <1>2, <1>10, <1>17, HeldOfGrown
    <3>2. Due(s) \cap Held(list) = HeldOf(list, s)
      BY <1>0, <1>1, <1>2, <1>6, <1>17, HeldDue
    <3> QED
      BY <3>1, <3>2, <1>0, <1>2, <1>6, <1>17
  <2>1. CASE e.what = "delete"
    <3>1. HeldFor(s)' = {}
      <4>1. stones'[q] = <<>>
        BY <2>1, <1>1, <1>2, <1>3, <1>17
      <4> QED
        BY <4>1, <1>10, HeldOfNone
    <3>2. CASE s \in old.targets
      <4>1. until[s] = Open /\ channel = <<e.of, t>> /\ fresh = {n}
        BY <3>2, <1>0, <1>6, <1>13
      <4>2. TellsItself(e)
        BY <4>1, <1>2, <1>6, <1>17
      <4>3. added = r.out
        BY <2>0, <3>2, <4>2 DEF Added
      <4>4. old.held = <<>> /\ r.held = <<>>
        <5>1. t \notin DataTypes
          BY <2>1, <1>2, DataTypesKnown
        <5>2. GathersAt(e.of, list, i)
          BY <1>2 DEF ListGood, Gathers
        <5> QED
          BY <5>1, <5>2, <1>2 DEF GathersAt, Passed
      <4>5. Contents(r.out) = {n}
        <5>1. Range(old.held) = {}
          BY <4>4 DEF Range
        <5>2. r.held # Append(old.held, n)
          <6>1. PICK h \in Seq(Nat) : h = old.held
            BY <1>2 DEF Stone
          <6>2. Len(Append(h, n)) = Len(h) + 1 /\ Len(h) \in Nat
            BY <1>2
          <6>3. Len(<<>>) = 0
            OBVIOUS
          <6> QED
            BY <6>1, <6>2, <6>3, <4>4
        <5> QED
          BY <5>1, <5>2, <1>2 DEF Passed
      <4>6. Plain
        BY <2>0, <2>1, <3>1, <4>1, <4>3, <4>5, <1>6, <1>17
      <4> QED
        BY <4>6
    <3>3. CASE s \notin old.targets
      <4>1. fresh = {} /\ added = <<>>
        BY <2>0, <3>3, <1>0, <1>6, <1>13 DEF Added
      <4>2. Plain
        BY <2>0, <2>1, <3>1, <4>1, <1>6, <1>14, <1>17
      <4> QED
        BY <4>2
    <3> QED
      BY <3>2, <3>3
  <2>2. CASE e.what # "delete" /\ s \in old.targets /\ TellsItself(e)
    <3>1. until[s] = Open /\ channel = <<e.of, t>> /\ fresh = {n} /\ added = r.out
      BY <2>0, <2>2, <1>0, <1>6, <1>13 DEF Added
    <3>2. HeldFor(s) = Range(old.held)
      BY <2>0, <2>2, <1>2, TargetOnce
    <3>3. HeldFor(s)' = Range(r.held)
      <4>1. stones'[q] = new
        BY <2>2, <1>1, <1>2, <1>3, <1>17
      <4>2. \A j \in DOMAIN list : s \in list[j].targets => j = i
        BY <2>2, <1>2, TargetOnce
      <4>3. i \in DOMAIN new /\ s \in new[i].targets /\ \A j \in DOMAIN new : s \in new[j].targets => j = i
        BY <4>2, <2>2, <1>2, <1>4, <1>5
      <4>4. HeldOf(new, s) = Range(new[i].held)
        BY <4>3, HeldOfOne
      <4> QED
        BY <4>1, <4>4, <1>4, <1>5, <1>10
    <3>4. HeldFor(s) \subseteq Due(s)
      BY <2>0
    <3>5. ASSUME NEW x \in Due(s) \ HeldFor(s), NEW y \in Range(old.held)
          PROVE  x < y
      <4>1. PICK h \in Seq(Nat) : h = old.held
        BY <1>2 DEF Stone
      <4>2. HoldsLatestAt(e.of, list, i)
        BY <1>2 DEF ListGood, HoldsLatest
      <4>3. /\ \A k, m \in DOMAIN h : k < m => h[k] < h[m]
            /\ h # <<>> => \A m \in DOMAIN log : m >= h[1] /\ Concerns(log[m], <<e.of, t>>) => m \in Range(h)
        BY <4>1, <4>2, <1>2 DEF HoldsLatestAt
      <4>4. PICK k \in DOMAIN h : y = h[k]
        BY <3>5, <4>1 DEF Range
      <4>5. h # <<>> /\ 1 \in DOMAIN h /\ (k = 1 \/ 1 < k) /\ h[1] \in Nat /\ h[k] \in Nat
        BY <4>4
      <4>6. h[1] <= y
        BY <4>3, <4>4, <4>5
      <4>7. Concerns(log[x], <<e.of, t>>) /\ x \in DOMAIN log /\ x \in Nat
        BY <3>1, <3>5, <1>6, <1>9 DEF Due
      <4>8. ~ (x >= h[1])
        BY <3>2, <3>5, <4>1, <4>3, <4>5, <4>7
      <4> QED
        BY <4>4, <4>5, <4>6, <4>7, <4>8
    <3>6. Taken
      BY <2>2, <3>1, <3>2, <3>3, <3>4, <3>5
    <3> QED
      BY <3>6
  <2>3. CASE e.what # "delete" /\ ~ (s \in old.targets /\ TellsItself(e))
    <3>1. added = <<>>
      BY <2>0, <2>3 DEF Added
    <3>2. fresh = {}
      <4> SUFFICES ASSUME until[s] = Open, channel = <<e.of, t>>
                   PROVE  FALSE
        BY <2>0, <1>6, <1>13
      <4>1. s \in old.targets
        BY <1>0, <1>6
      <4>2. ~TellsItself(e)
        BY <4>1, <2>3
      <4> QED
        BY <4>2, <1>2, <1>6, <1>17
    <3>3. HeldFor(s)' = HeldFor(s)
      <4>1. CASE TellsItself(e)
        <5>1. s \notin list[i].targets /\ s \notin stone.targets /\ stones'[q] = new
          BY <4>1, <2>3, <1>1, <1>2, <1>3, <1>4, <1>17
        <5>2. HeldOf(new, s) = HeldOf(list, s)
          BY <5>1, <1>4, ChangedHeld
        <5> QED
          BY <5>1, <5>2, <2>0, <1>10
      <4>2. CASE ~TellsItself(e)
        <5>1. stones'[q] = stones[q]
          BY <4>2, <2>3, <1>1, <1>2, <1>3, <1>17
        <5> QED
          BY <5>1, <1>10
      <4> QED
        BY <4>1, <4>2
    <3>4. Plain
      BY <2>3, <3>1, <3>2, <3>3, <1>6, <1>14
    <3> QED
      BY <3>4
  <2> QED
    BY <2>1, <2>2, <2>3
<1>18. Plain \/ Taken
  BY <1>15, <1>16, <1>17
<1> QED
  BY <1>6, <1>7, <1>8, <1>9, <1>12, <1>18 DEF FireOwes

LEMMA FireDelivers ==
  ASSUME IInv, NEW e, NEW n, NEW t, NEW list, NEW i, NEW old, NEW r, NEW stone, NEW new, NEW D,
         Fires(e, n, t, list, i, old, r, stone, new, D), NEW s \in Sinks, Registered(s)
  PROVE  /\ Contents(Stream(s)') = Due(s)' \ HeldFor(s)'
         /\ InOrder(Added(s, e, n, old, r, D))
         /\ \A x \in Contents(Stream(s)), y \in Contents(Added(s, e, n, old, r, D)) : x < y
<1> DEFINE Extra == Added(s, e, n, old, r, D)
           fresh == IF until[s] = Open /\ Concerns(e, sink[s].channel) THEN {n} ELSE {}
           gone == IF e.what = "delete" THEN Held(list) ELSE {}
<1>1. PICK added : added = Extra
  OBVIOUS
<1>2. Contents(Stream(s)') = Contents(Stream(s)) \cup Contents(added)
  BY <1>1, FireAdds DEF GoesOn
<1>3. Contents(Stream(s)) = Due(s) \ HeldFor(s)
  BY DEF IInv, Delivered
<1>4. FireOwes(s, e, n, list, old, r, D)
  BY FireOwesIt
<1>5. /\ Due(s)' = (Due(s) \cup fresh) \ (IF sink[s].channel[1] = "domain" THEN {} ELSE gone)
      /\ n \notin gone /\ n \notin Due(s) /\ \A x \in Due(s) : x \in Nat /\ x < n
  BY <1>4 DEF FireOwes
<1>6. /\ e.of # "domain" /\ n \in Nat /\ Passed(old, n, r) /\ old \in Stone
      /\ \A k \in DOMAIN old.held : old.held[k] < n
  <2>1. /\ e.of # "domain" /\ n \in Nat /\ Passed(old, n, r) /\ old \in Stone
        /\ ListGood(e.of, list) /\ list \in Seq(Stone) /\ i \in DOMAIN list /\ old = list[i]
        /\ n = Len(log) + 1 /\ DOMAIN log = 1 .. Len(log) /\ Len(log) \in Nat
    BY DEF Fires
  <2>2. ASSUME NEW k \in DOMAIN old.held
        PROVE  old.held[k] < n
    <3>1. list[i].held[k] \in DOMAIN log
      BY <2>1, <2>2, HeldIs
    <3> QED
      BY <3>1, <2>1
  <2> QED
    BY <2>1, <2>2
<1> DEFINE Plain == /\ Contents(Extra) = fresh
                    /\ HeldFor(s)' = IF e.what = "delete" /\ sink[s].channel[1] = e.of
                                     THEN {} ELSE HeldFor(s)
                    /\ n \notin HeldFor(s)
                    /\ sink[s].channel[1] # "domain" =>
                         Due(s) \cap gone = IF sink[s].channel[1] = e.of /\ e.what = "delete"
                                            THEN HeldFor(s) ELSE {}
           Taken == /\ e.what # "delete" /\ fresh = {n}
                    /\ Extra = r.out
                    /\ HeldFor(s) = Range(old.held) /\ HeldFor(s)' = Range(r.held)
                    /\ HeldFor(s) \subseteq Due(s)
                    /\ \A x \in Due(s) \ HeldFor(s) : \A y \in Range(old.held) : x < y
<1>7. Plain \/ Taken
  BY <1>4 DEF FireOwes
<1>8. InOrder(added)
  <2>1. InOrder(r.out) /\ InOrder(<<>>)
    BY <1>6, Single DEF Passed
  <2>2. InOrder(<<<<n>>>>)
    <3>1. PICK one : one = <<n>>
      OBVIOUS
    <3>2. Len(one) \in {1, Bucket} /\ Increases(one)
      BY <3>1 DEF Increases
    <3>3. InOrder(<<one>>)
      BY <3>2, Single
    <3> QED
      BY <3>1, <3>3
  <2> QED
    BY <1>1, <2>1, <2>2 DEF Added
<1>9. CASE Plain
  <2>1. Contents(added) = fresh
    BY <1>1, <1>9
  <2>2. Contents(Stream(s)') = Due(s)' \ HeldFor(s)'
    <3>1. CASE e.what = "delete" /\ sink[s].channel[1] = e.of
      BY <1>2, <1>3, <1>5, <1>6, <1>9, <2>1, <3>1
    <3>2. CASE ~ (e.what = "delete" /\ sink[s].channel[1] = e.of)
      <4>1. HeldFor(s)' = HeldFor(s) /\ n \notin HeldFor(s)
        BY <1>9, <3>2
      <4>2. Due(s)' = Due(s) \cup fresh
        BY <1>5, <1>9, <3>2
      <4> QED
        BY <1>2, <1>3, <2>1, <4>1, <4>2
    <3> QED
      BY <3>1, <3>2
  <2>3. \A x \in Contents(Stream(s)), y \in Contents(added) : x < y
    BY <1>3, <1>5, <2>1
  <2> QED
    BY <1>1, <1>8, <2>2, <2>3
<1>10. CASE Taken
  <2>1. added = r.out /\ gone = {} /\ fresh = {n}
    BY <1>1, <1>10
  <2>2. Due(s)' = Due(s) \cup {n}
    BY <1>5, <2>1
  <2>3. CASE r.out = <<>> /\ r.held = Append(old.held, n)
    <3>1. Range(r.held) = Range(old.held) \cup {n}
      <4>1. old.held \in Seq(Nat)
        BY <1>6 DEF Stone
      <4>2. PICK h \in Seq(Nat) : h = old.held
        BY <4>1
      <4> QED
        BY <2>3, <4>2, <1>6, AppendIs
    <3>2. Contents(added) = {}
      BY <2>1, <2>3, Single
    <3>3. Contents(Stream(s)') = Due(s)' \ HeldFor(s)'
      BY <1>2, <1>3, <1>5, <1>10, <2>2, <3>1, <3>2
    <3> QED
      BY <1>1, <1>8, <3>2, <3>3
  <2>4. CASE r.held = <<>> /\ Contents(r.out) = Range(old.held) \cup {n}
    <3>1. Contents(added) = HeldFor(s) \cup {n} /\ HeldFor(s)' = {}
      <4>1. Range(r.held) = {}
        BY <2>4 DEF Range
      <4> QED
        BY <1>10, <2>1, <2>4, <4>1
    <3>2. Contents(Stream(s)') = Due(s)' \ HeldFor(s)'
      BY <1>2, <1>3, <1>10, <2>2, <3>1
    <3>3. \A x \in Contents(Stream(s)), y \in Contents(added) : x < y
      BY <1>3, <1>5, <1>10, <3>1
    <3> QED
      BY <1>1, <1>8, <3>2, <3>3
  <2> QED
    BY <2>3, <2>4, <1>6 DEF Passed
<1> QED
  BY <1>7, <1>9, <1>10

LEMMA FireDelivered ==
  ASSUME IInv, NEW e, NEW n, NEW t, NEW list, NEW i, NEW old, NEW r, NEW stone, NEW new, NEW D,
         Fires(e, n, t, list, i, old, r, stone, new, D)
  PROVE  Delivered' /\ Ordered'
<1>1. /\ sink' = sink /\ TypeOK /\ Ordered
      /\ \A s \in Sinks : InOrder(Stream(s))
  BY DEF Fires, IInv, Core, Ordered
<1>2. \A s \in Sinks : Registered(s)' <=> Registered(s)
  BY <1>1 DEF Registered
<1>3. Delivered'
  BY <1>2, FireDelivers DEF Delivered
<1>4. ASSUME NEW s \in Sinks
      PROVE  InOrder(Stream(s)')
  <2>1. PICK added : added = Added(s, e, n, old, r, D)
    OBVIOUS
  <2>2. GoesOn(Stream(s), added, Stream(s)')
    BY <2>1, FireAdds
  <2>3. InOrder(added) /\ \A x \in Contents(Stream(s)), y \in Contents(added) : x < y
    <3>1. CASE Registered(s)
      BY <2>1, <3>1, FireDelivers
    <3>2. CASE ~Registered(s)
      <4>1. added = <<>>
        <5>1. s \notin D /\ s \notin old.targets
          BY <3>2, FireTargets
        <5> QED
          BY <5>1, <2>1 DEF Added
      <4> QED
        BY <4>1, Single
    <3> QED
      BY <3>1, <3>2
  <2> QED
    BY <1>1, <2>2, <2>3 DEF GoesOn
<1>5. Ordered'
  BY <1>4 DEF Ordered, InOrder
<1> QED
  BY <1>3, <1>5

LEMMA FireCreated ==
  ASSUME IInv, NEW e, NEW n, NEW t, NEW list, NEW i, NEW old, NEW r, NEW stone, NEW new, NEW D,
         Fires(e, n, t, list, i, old, r, stone, new, D)
  PROVE  CreatedFirst'
<1>1. /\ TypeOK /\ CreatedFirst /\ todo \in Seq(LogEntry) /\ log \in Seq(LogEntry)
      /\ status \in [Objects -> {"absent", "placeholder", "real"}]
  BY DEF IInv, Core, TypeOK
<1>2. /\ todo # <<>> /\ e = todo[1] /\ todo' = Tail(todo) /\ log' = Append(log, e)
      /\ e.what = "delete" => e.of \in Objects
      /\ status' = IF e.what = "delete" THEN [status EXCEPT ![e.of] = "absent"] ELSE status
  BY DEF Fires
<1>3. /\ Len(todo) \in Nat /\ Len(todo) >= 1 /\ Len(log) \in Nat
      /\ Len(Tail(todo)) = Len(todo) - 1 /\ Len(Append(log, e)) = Len(log) + 1
      /\ \A k \in 1 .. Len(todo) - 1 : Tail(todo)[k] = todo[k + 1]
      /\ \A k \in 1 .. Len(log) : Append(log, e)[k] = log[k]
      /\ Append(log, e)[Len(log) + 1] = e
  BY <1>1, <1>2
<1>4. Ahead' = Ahead /\ Ahead \in Nat
  BY <1>2, <1>3 DEF Ahead
<1>5. ASSUME NEW k \in 1 .. Ahead
      PROVE  At(k)' = At(k)
  <2>1. CASE k <= Len(log)
    BY <2>1, <1>2, <1>3 DEF At
  <2>2. CASE k = Len(log) + 1
    BY <2>2, <1>2, <1>3 DEF At
  <2>3. CASE k > Len(log) + 1
    <3>1. k - (Len(log) + 1) \in 1 .. Len(todo) - 1
      BY <2>3, <1>3, <1>5 DEF Ahead
    <3>2. Tail(todo)[k - (Len(log) + 1)] = todo[k - Len(log)]
      BY <3>1, <1>3
    <3>3. At(k) = todo[k - Len(log)]
      BY <2>3, <1>3, <1>4 DEF At
    <3>4. Len(log') = Len(log) + 1
      BY <1>2, <1>3
    <3>5. At(k)' = todo'[k - Len(log')]
      BY <2>3, <3>4, <1>3, <1>4 DEF At
    <3> QED
      BY <3>2, <3>3, <3>4, <3>5, <1>2
  <2>4. k \in Nat /\ (k <= Len(log) \/ k = Len(log) + 1 \/ k > Len(log) + 1)
    BY <1>3, <1>4
  <2> QED
    BY <2>1, <2>2, <2>3, <2>4
<1>6. ASSUME NEW o, NEW k \in 1 .. Ahead, CreatedBy(o, k)
      PROVE  CreatedBy(o, k)'
  <2>1. PICK m \in 1 .. k : /\ At(m) = Event(o, "create")
                            /\ \A j \in m + 1 .. k : At(j) # Event(o, "delete")
    BY <1>6 DEF CreatedBy
  <2>2. At(m)' = Event(o, "create")
    BY <2>1, <1>4, <1>5
  <2>3. \A j \in m + 1 .. k : At(j)' # Event(o, "delete")
    BY <2>1, <1>4, <1>5
  <2> QED
    BY <2>2, <2>3 DEF CreatedBy, Event
<1>7. ASSUME NEW o \in Entities, status'[o] = "real"
      PROVE  CreatedBy(o, Ahead)'
  <2>1. status[o] = "real" /\ e # Event(o, "delete")
    <3>1. o \in Objects
      BY Names
    <3>2. CASE e.what = "delete" /\ e.of = o
      BY <3>1, <3>2, <1>1, <1>2, <1>7
    <3>3. CASE ~ (e.what = "delete" /\ e.of = o)
      <4>1. e # Event(o, "delete")
        BY <3>3 DEF Event
      <4> QED
        BY <3>1, <3>3, <4>1, <1>1, <1>2, <1>7
    <3> QED
      BY <3>2, <3>3
  <2>2. Head(todo) = e
    BY <1>1, <1>2
  <2>3. CreatedBy(o, Ahead)
    BY <2>1, <2>2, <1>1 DEF CreatedFirst
  <2>4. Ahead \in 1 .. Ahead
    BY <1>3, <1>4 DEF Ahead
  <2>5. PICK a : a = Ahead
    OBVIOUS
  <2>6. CreatedBy(o, a)'
    BY <2>3, <2>4, <2>5, <1>6
  <2> QED
    BY <2>5, <2>6, <1>4 DEF CreatedBy
<1>8. ASSUME NEW k \in 1 .. Ahead', (At(k).what \in DataTypes)'
      PROVE  CreatedBy(At(k).of, k)'
  <2>1. k \in 1 .. Ahead /\ At(k)' = At(k)
    BY <1>4, <1>5, <1>8
  <2>2. PICK o : o = At(k).of
    OBVIOUS
  <2>3. At(k).what \in DataTypes /\ At(k)'.of = o
    BY <1>8, <2>1, <2>2
  <2>4. CreatedBy(o, k)'
    BY <2>1, <2>2, <2>3, <1>1, <1>6 DEF CreatedFirst
  <2> QED
    BY <2>3, <2>4
<1> QED
  BY <1>7, <1>8 DEF CreatedFirst

LEMMA FireInv ==
  ASSUME IInv, Fire
  PROVE  IInv'
<1>1. PICK e, n, t, list, i, old, r, stone, new, D :
             Fires(e, n, t, list, i, old, r, stone, new, D)
  BY FireIs
<1>2. Core' /\ Delivered' /\ Ordered' /\ CreatedFirst'
  BY <1>1, FireCore, FireDelivered, FireCreated
<1> QED
  BY <1>2 DEF IInv

---------------------------------------------------------------------------
(* The theorems. *)

\* What the server is set up with serves nobody yet.
LEMMA InitInv == Init => IInv
<1> SUFFICES ASSUME Init
             PROVE  IInv
  OBVIOUS
<1>1. \A s \in Sinks : ~Registered(s)
  BY DEF Init, Registered
<1>2. ASSUME NEW p \in Proactives
      PROVE  stones[p] \in Seq(Stone) /\ Grown(<<>>, stones[p])
  <2>1. <<NewStone("domain")>> \in Seq(Stone) /\ Grown(<<>>, <<NewStone("domain")>>)
    <3>0. NewStone("domain") \in Stone /\ NewStone("domain").type = "domain"
      BY NewStoneIs DEF Types
    <3>1. PICK stone \in Stone : stone = NewStone("domain") /\ stone = NewStone(stone.type)
      BY <3>0
    <3> QED
      BY <3>1 DEF Grown
  <2>2. ContextStones \in Seq(Stone) /\ Grown(<<>>, ContextStones)
    <3>0. /\ NewStone("bind") \in Stone /\ NewStone("exist") \in Stone
          /\ NewStone("bind").type = "bind" /\ NewStone("exist").type = "exist"
      BY NewStoneIs DEF Types
    <3>1. PICK a \in Stone, b \in Stone :
                 /\ a = NewStone("bind") /\ b = NewStone("exist")
                 /\ a = NewStone(a.type) /\ b = NewStone(b.type)
      BY <3>0
    <3> QED
      BY <3>1 DEF Grown, ContextStones
  <2>3. <<>> \in Seq(Stone) /\ Grown(<<>>, <<>>)
    BY DEF Grown
  <2> QED
    BY <2>1, <2>2, <2>3 DEF Init
<1>3. TypeOK
  <2>1. /\ sink \in [Sinks -> [channel : Channels,
                         state : {"idle", "asked", "ok", "error", "on", "failed", "cancelled"}]]
    BY DEF Init, Channels
  <2>2. /\ wire \in [Sinks -> Seq(Seq(Nat))] /\ got \in [Sinks -> Seq(Seq(Nat))]
        /\ missed \in [Sinks -> Seq(Seq(Nat))]
    <3>1. <<>> \in Seq(Seq(Nat))
      OBVIOUS
    <3> QED
      BY <3>1 DEF Init
  <2>3. stones \in [Proactives -> Seq(Stone)]
    <3>1. DOMAIN stones = Proactives /\ stones = [p \in Proactives |-> stones[p]]
      BY DEF Init
    <3> QED
      BY <3>1, <1>2
  <2>4. since \in [Sinks -> 0 .. Open] /\ until \in [Sinks -> 0 .. Open]
    BY OpenFacts DEF Init
  <2> QED
    BY <2>1, <2>2, <2>3, <2>4 DEF Init, TypeOK
<1>4. ListsGood
  <2> SUFFICES ASSUME NEW p \in Proactives
               PROVE  ListGood(p, stones[p])
    BY DEF ListsGood
  <2>0. <<>> \in Seq(Stone)
    OBVIOUS
  <2>1. PICK none \in Seq(Stone) : none = <<>>
    BY <2>0
  <2>2. ListGood(p, none)
    BY <2>1 DEF ListGood, Gathers, HoldsLatest, Serves, HoldsNew
  <2> QED
    BY <2>1, <2>2, <1>2, GrownGood
<1>5. Counts
  <2>1. Len(log) = 0 /\ Len(todo) = 0 /\ dropped = {}
    BY DEF Init
  <2>2. Replied \in SUBSET Sinks
    BY DEF Replied
  <2>3. Cardinality(Replied) \in Nat
    BY <2>2, OpenFacts
  <2> QED
    BY <2>1, <2>3, MaxLogNat DEF Counts, Room
<1>6. TodoGood /\ Gone
  <2>1. todo = <<>> /\ up /\ stones["domain"] = <<NewStone("domain")>>
    BY Names DEF Init
  <2>2. \A o \in Objects : stones[o] = <<>>
    BY Names DEF Init
  <2>3. TodoGood
    <3>1. DOMAIN todo = {}
      BY <2>1
    <3> QED
      BY <3>1 DEF TodoGood
  <2>4. Len(stones["domain"]) = 1 /\ stones["domain"][1].type = "domain"
    <3>1. stones["domain"][1] = NewStone("domain")
      BY <2>1
    <3> QED
      BY <2>1, <3>1, NewStoneIs
  <2> QED
    BY <2>1, <2>2, <2>3, <2>4 DEF Gone
<1>7. Hangs /\ Delivered
  BY <1>1 DEF Hangs, Delivered
<1>8. SinksGood
  BY <1>1 DEF Init, SinksGood
<1>9. Ordered
  <2> SUFFICES ASSUME NEW s \in Sinks
               PROVE  InOrder(Stream(s))
    BY DEF Ordered
  <2>1. Stream(s) = <<>>
    BY Concats DEF Init, Stream
  <2> QED
    BY <2>1, Single
<1>10. CreatedFirst
  <2>1. Ahead = 0
    BY DEF Init, Ahead
  <2>2. \A o \in Entities : status[o] # "real"
    BY Names DEF Init
  <2> QED
    BY <2>1, <2>2 DEF CreatedFirst
<1> QED
  BY <1>3, <1>4, <1>5, <1>6, <1>7, <1>8, <1>9, <1>10 DEF IInv, Core

\* Every step of the server and of the clients keeps the invariant.
LEMMA StepInv == IInv /\ [Next]_vars => IInv'
<1> SUFFICES ASSUME IInv, [Next]_vars
             PROVE  IInv'
  OBVIOUS
<1>1. CASE Fire
  BY <1>1, FireInv
<1>2. CASE Submits
  BY <1>2, SubmitsInv
<1>3. ASSUME NEW e \in Entities, NEW t \in DataTypes, Aggregate(e, t)
      PROVE  IInv'
  BY <1>3, AggregateInv
<1>4. CASE RemoveDomain
  BY <1>4, RemoveDomainInv
<1>5. ASSUME NEW s \in Sinks, GetStone(s)
      PROVE  IInv'
  BY <1>5, GetStoneInv
<1>6. ASSUME NEW s \in Sinks, Client(s)
      PROVE  IInv'
  <2>1. ASSUME NEW channel \in Channels, Register(s, channel)
        PROVE  IInv'
    BY <2>1, RegisterInv
  <2>2. CASE Associate(s)
    BY <2>2, AssociateInv
  <2>3. CASE Deliver(s)
    BY <2>3, DeliverInv
  <2>4. CASE Cancel(s)
    BY <2>4, CancelInv
  <2> QED
    BY <1>6, <2>1, <2>2, <2>3, <2>4 DEF Client
<1>7. CASE UNCHANGED vars
  <2>1. /\ UNCHANGED <<server, sink, got, missed, wire, since, until>>
        /\ UNCHANGED <<up, status, stones, todo, log, dropped>>
    BY <1>7 DEF vars, server, client
  <2>2. TypeOK' <=> TypeOK
    BY <2>1 DEF TypeOK, Open
  <2>3. TypeOK /\ SinksGood
    BY DEF IInv, Core
  <2>4. StandsStill
    <3>1. Replied' = Replied /\ \A s \in Sinks : Registered(s)' <=> Registered(s)
      BY <2>1 DEF Replied, Registered
    <3>2. \A s \in Sinks : Stream(s)' = Stream(s)
      BY <2>1 DEF Stream
    <3> QED
      BY <2>1, <2>2, <2>3, <3>1, <3>2 DEF StandsStill, SinksGood
  <2> QED
    BY <2>4, StandsStillInv
<1>8. CASE Next
  <2>1. \/ Fire \/ Submits \/ RemoveDomain
        \/ \E e \in Entities, t \in DataTypes : Aggregate(e, t)
        \/ \E s \in Sinks : GetStone(s) \/ Client(s)
    BY <1>8 DEF Next, Request, Submits
  <2> QED
    BY <2>1, <1>1, <1>2, <1>3, <1>4, <1>5, <1>6
<1> QED
  BY <1>7, <1>8

\* The inductive invariant holds in every state.
THEOREM Invariance == Spec => []IInv
  BY InitInv, StepInv, PTL DEF Spec

\* The variables have their types.
THEOREM TypeCorrect == Spec => []TypeOK
<1>1. IInv => TypeOK
  BY DEF IInv, Core
<1> QED
  BY <1>1, Invariance, PTL

\* A registration that the server granted hangs off the one stone that its channel's events
\* are submitted to, also when a placeholder was made real and has several of the type.
THEOREM Subscribers == Spec => []SubscribersAreServed
<1>1. IInv => SubscribersAreServed
  <2> SUFFICES ASSUME IInv, NEW s \in Sinks, NEW p \in Proactives, NEW i \in DOMAIN stones[p],
                      s \in stones[p][i].targets
               PROVE  /\ Registered(s)
                      /\ sink[s].channel = <<p, stones[p][i].type>>
                      /\ i = StoneOf(stones[p], stones[p][i].type)
    BY DEF SubscribersAreServed
  <2>1. PICK list \in Seq(Stone) : list = stones[p] /\ ListGood(p, list)
    BY DEF IInv, Core, TypeOK, ListsGood
  <2>2. Registered(s) /\ sink[s].channel = <<p, list[i].type>> /\ First(list, i)
    BY <2>1, TargetOnce
  <2>3. Has(list, list[i].type)
    BY <2>1 DEF Has
  <2>4. i = StoneOf(list, list[i].type)
    BY <2>1, <2>2, <2>3, StoneOfIs, FirstOnce
  <2> QED
    BY <2>1, <2>2, <2>4
<1> QED
  BY <1>1, Invariance, PTL

\* A registration gets the events it is owed: none is lost, repeated, misdirected or out of
\* order on its way through storage stone, bridge and client stone.
THEOREM Delivery == Spec => []NoGap
<1>1. IInv => NoGap
  <2> SUFFICES ASSUME IInv, NEW s \in Sinks, Registered(s)
               PROVE  /\ UNION {Range(Stream(s)[i]) : i \in DOMAIN Stream(s)} = Due(s) \ HeldFor(s)
                      /\ \A i \in DOMAIN Stream(s) :
                           /\ \A k \in 1 .. Len(Stream(s)[i]) - 1 :
                                Stream(s)[i][k] < Stream(s)[i][k + 1]
                           /\ i > 1 => Stream(s)[i - 1][Len(Stream(s)[i - 1])] < Stream(s)[i][1]
    BY DEF NoGap
  <2>1. Contents(Stream(s)) = Due(s) \ HeldFor(s) /\ InOrder(Stream(s)) /\ TypeOK
    BY DEF IInv, Core, Delivered, Ordered
  <2>2. Stream(s) \in Seq(Seq(Nat))
    <3>1. PICK a \in Seq(Seq(Nat)), b \in Seq(Seq(Nat)), c \in Seq(Seq(Nat)) :
                 a = missed[s] /\ b = got[s] /\ c = wire[s]
      BY <2>1 DEF TypeOK
    <3>2. b \o c \in Seq(Seq(Nat))
      BY ConcatProperties
    <3>3. a \o (b \o c) \in Seq(Seq(Nat)) /\ (a \o b) \o c \in Seq(Seq(Nat))
      BY <3>2, ConcatProperties
    <3> QED
      BY <3>1, <3>3 DEF Stream
  <2>3. PICK stream \in Seq(Seq(Nat)) : stream = Stream(s)
    BY <2>2
  <2>4. ASSUME NEW i \in DOMAIN stream
        PROVE  /\ \A k \in 1 .. Len(stream[i]) - 1 : stream[i][k] < stream[i][k + 1]
               /\ i > 1 => stream[i - 1][Len(stream[i - 1])] < stream[i][1]
    <3>1. /\ Len(stream[i]) \in {1, Bucket}
          /\ \A k, m \in DOMAIN stream[i] : k < m => stream[i][k] < stream[i][m]
      BY <2>1, <2>3 DEF InOrder
    <3>2. stream[i] \in Seq(Nat) /\ DOMAIN stream[i] = 1 .. Len(stream[i]) /\ Len(stream[i]) \in Nat
      OBVIOUS
    <3>3. ASSUME NEW k \in 1 .. Len(stream[i]) - 1
          PROVE  stream[i][k] < stream[i][k + 1]
      <4>1. k \in DOMAIN stream[i] /\ k + 1 \in DOMAIN stream[i] /\ k < k + 1
        BY <3>2
      <4> QED
        BY <3>1, <4>1
    <3>4. ASSUME i > 1
          PROVE  stream[i - 1][Len(stream[i - 1])] < stream[i][1]
      <4>1. i - 1 \in DOMAIN stream /\ i - 1 < i
        BY <3>4
      <4>2. Len(stream[i - 1]) \in {1, Bucket}
        BY <4>1, <2>1, <2>3 DEF InOrder
      <4>3. stream[i - 1] \in Seq(Nat) /\ DOMAIN stream[i - 1] = 1 .. Len(stream[i - 1])
        BY <4>1
      <4>4. Len(stream[i - 1]) \in Nat
        <5>1. PICK part \in Seq(Nat) : part = stream[i - 1]
          BY <4>3
        <5> QED
          BY <5>1
      <4>5. 1 \in DOMAIN stream[i] /\ Len(stream[i - 1]) \in DOMAIN stream[i - 1]
        <5>1. \A x \in {1, Bucket} : 1 <= x
          BY BucketPos
        <5>2. 1 <= Len(stream[i]) /\ 1 <= Len(stream[i - 1])
          BY <3>1, <4>2, <5>1
        <5> QED
          BY <3>2, <4>3, <4>4, <5>2
      <4> QED
        BY <4>1, <4>5, <2>1, <2>3 DEF InOrder
    <3> QED
      BY <3>3, <3>4
  <2> QED
    BY <2>1, <2>3, <2>4 DEF Contents
<1> QED
  BY <1>1, Invariance, PTL

LEMMA OneIs ==
  ASSUME NEW n \in Nat
  PROVE  \E one \in Seq(Nat) : one = <<n>> /\ Len(one) = 1
<1>1. <<n>> \in Seq(Nat) /\ Len(<<n>>) = 1
  OBVIOUS
<1> QED
  BY <1>1, Zenon

LEMMA AddNothing == ASSUME NEW S, NEW a \in Seq(S) PROVE a \o <<>> = a
OBVIOUS

\* A storage stone passes on a bucketful or nothing, any other stone the event.
LEMMA PassesFull ==
  ASSUME NEW stone \in Stone, NEW n \in Nat, NEW r, r = Pass(stone, n)
  PROVE  \/ r.out = <<>>
         \/ \E x \in Seq(Nat) : r.out = <<x>> /\ Len(x) = IF stone.stored THEN Bucket ELSE 1
<1>1. PICK h \in Seq(Nat) : h = stone.held
  BY DEF Stone
<1>2. PICK more \in Seq(Nat) : more = Append(h, n) /\ Len(more) = Len(h) + 1
  BY <1>1, AppendIs
<1>3. PICK one \in Seq(Nat) : one = <<n>> /\ Len(one) = 1
  BY OneIs
<1>4. CASE ~stone.stored
  <2>1. r.out = <<one>>
    BY <1>3, <1>4 DEF Pass
  <2> QED
    BY <1>3, <1>4, <2>1
<1>5. CASE stone.stored /\ Len(h) + 1 = Bucket
  <2>1. r.out = <<more>> /\ Len(more) = Bucket
    BY <1>1, <1>2, <1>5 DEF Pass
  <2> QED
    BY <1>5, <2>1
<1>6. CASE stone.stored /\ Len(h) + 1 # Bucket
  BY <1>1, <1>6 DEF Pass
<1> QED
  BY <1>4, <1>5, <1>6

LEMMA LastIs ==
  ASSUME NEW S, NEW a \in Seq(S), NEW x \in S, NEW b, b = a \o <<x>>
  PROVE  b[Len(b)] = x
<1>1. Len(b) = Len(a) + 1 /\ Len(a) \in Nat /\ b[Len(a) + 1] = x
  OBVIOUS
<1> QED
  BY <1>1

LEMMA FireSendsFull ==
  ASSUME IInv, NEW e, NEW n, NEW t, NEW list, NEW i, NEW old, NEW r, NEW stone, NEW new, NEW D,
         Fires(e, n, t, list, i, old, r, stone, new, D)
  PROVE  SendsFull
<1> SUFFICES ASSUME NEW s \in Sinks, Len(wire'[s]) > Len(wire[s])
             PROVE  Len(wire'[s][Len(wire'[s])]) = IF Aggregated(s) THEN Bucket ELSE 1
  BY DEF SendsFull
<1>1. PICK w \in Seq(Seq(Nat)), all \in Seq(Seq(Nat)) :
        w = wire[s] /\ all = wire'[s] /\ all = w \o Added(s, e, n, old, r, D)
  <2>1. wire[s] \in Seq(Seq(Nat))
    BY DEF IInv, Core, TypeOK
  <2>2. /\ wire'[s] = wire[s] \o Added(s, e, n, old, r, D)
        /\ Added(s, e, n, old, r, D) \in Seq(Seq(Nat))
    BY FireAdds
  <2> QED
    BY <2>1, <2>2, ConcatProperties
<1>2. /\ ListsGood /\ stones \in [Proactives -> Seq(Stone)]
  BY DEF IInv, Core, TypeOK
<1>3. ASSUME NEW x \in Seq(Nat), all = w \o <<x>>
      PROVE  all[Len(all)] = x
  BY <1>3, LastIs
<1>4. CASE s \in D
  <2>1. sink[s].channel[1] = "domain"
    BY <1>4, FireTargets
  <2>2. \A j \in DOMAIN stones["domain"] : ~stones["domain"][j].stored
    BY <1>2, Names DEF ListsGood, ListGood, Gathers, GathersAt
  <2>3. ~Aggregated(s)
    BY <2>1, <2>2 DEF Aggregated
  <2>4. PICK one \in Seq(Nat) : one = <<n>> /\ Len(one) = 1
    <3>1. n \in Nat
      BY DEF Fires
    <3> QED
      BY <3>1, OneIs
  <2>5. all = w \o <<one>>
    BY <1>1, <1>4, <2>4 DEF Added
  <2> QED
    BY <1>1, <1>3, <2>3, <2>4, <2>5
<1>5. CASE s \notin D /\ TellsItself(e) /\ s \in old.targets
  <2>1. /\ e.of \in Proactives /\ list \in Seq(Stone) /\ Grown(stones[e.of], list)
        /\ i \in DOMAIN list /\ old = list[i] /\ old \in Stone /\ n \in Nat /\ r = Pass(old, n)
    BY DEF Fires
  <2>2. PICK cur \in Seq(Stone) : cur = stones[e.of] /\ ListGood(e.of, cur)
    BY <1>2, <2>1 DEF ListsGood
  <2>3. i \in DOMAIN cur /\ cur[i] = old
    <3>1. CASE i \notin DOMAIN cur
      <4>1. list[i] = NewStone(list[i].type)
        BY <2>1, <2>2, <3>1 DEF Grown
      <4>2. old.targets = {}
        BY <2>1, <4>1, NewStoneIs
      <4> QED
        BY <1>5, <4>2
    <3> QED
      BY <2>1, <2>2, <3>1 DEF Grown
  <2>4. sink[s].channel[1] = e.of
    BY <1>5, FireTargets
  <2>5. \A j \in DOMAIN cur : s \in cur[j].targets => j = i
    BY <1>5, <2>2, <2>3, TargetOnce
  <2>6. Aggregated(s) <=> old.stored
    BY <1>5, <2>2, <2>3, <2>4, <2>5 DEF Aggregated
  <2>7. all = w \o r.out
    BY <1>1, <1>5 DEF Added
  <2>8. CASE r.out = <<>>
    BY <1>1, <2>7, <2>8
  <2>9. CASE \E x \in Seq(Nat) : r.out = <<x>> /\ Len(x) = IF old.stored THEN Bucket ELSE 1
    BY <1>1, <1>3, <2>6, <2>7, <2>9
  <2> QED
    BY <2>1, <2>8, <2>9, PassesFull
<1>6. CASE s \notin D /\ ~(TellsItself(e) /\ s \in old.targets)
  <2>1. Added(s, e, n, old, r, D) = <<>>
    BY <1>6 DEF Added
  <2>2. all = w \o <<>>
    BY <1>1, <2>1
  <2>3. all = w
    BY <2>2, AddNothing
  <2> QED
    BY <1>1, <2>3
<1> QED
  BY <1>4, <1>5, <1>6

\* Only an event adds to what is under way.
LEMMA StepSendsFull == IInv /\ [Next]_vars => [SendsFull]_vars
<1> SUFFICES ASSUME IInv, [Next]_vars
             PROVE  SendsFull
  OBVIOUS
<1>1. \A s \in Sinks : wire[s] \in Seq(Seq(Nat))
  BY DEF IInv, Core, TypeOK
<1>2. CASE Fire
  BY <1>2, FireIs, FireSendsFull
<1>3. ASSUME NEW s \in Sinks, Deliver(s)
      PROVE  SendsFull
  <2>1. /\ wire' = [wire EXCEPT ![s] = Tail(wire[s])] /\ wire[s] # <<>>
        /\ wire \in [Sinks -> Seq(Seq(Nat))]
    BY <1>3 DEF Deliver, IInv, Core, TypeOK
  <2>2. PICK w \in Seq(Seq(Nat)) : w = wire[s] /\ w # <<>>
    BY <2>1
  <2>3. Len(Tail(w)) < Len(w) /\ Len(w) \in Nat /\ Len(Tail(w)) \in Nat
    BY <2>2
  <2>4. ASSUME NEW q \in Sinks
        PROVE  ~(Len(wire'[q]) > Len(wire[q]))
    <3>1. CASE q = s
      BY <2>1, <2>2, <2>3, <3>1
    <3>2. CASE q # s
      <4>1. PICK v \in Seq(Seq(Nat)) : v = wire[q] /\ v = wire'[q]
        BY <1>1, <2>1, <3>2
      <4> QED
        BY <4>1
    <3> QED
      BY <3>1, <3>2
  <2> QED
    BY <2>4 DEF SendsFull
<1>4. CASE wire' = wire
  <2>1. ASSUME NEW s \in Sinks
        PROVE  ~(Len(wire'[s]) > Len(wire[s]))
    <3>1. PICK v \in Seq(Seq(Nat)) : v = wire[s] /\ v = wire'[s]
      BY <1>1, <1>4
    <3> QED
      BY <3>1
  <2> QED
    BY <2>1 DEF SendsFull
<1>5. Next => Fire \/ (\E s \in Sinks : Deliver(s)) \/ wire' = wire
  BY DEF Next, Request, Client, CreateEntity, CreateContext, Create, SetData, BindEntity, Unbind,
         Remove, Aggregate, RemoveDomain, GetStone, Register, Associate, Cancel
<1>6. UNCHANGED vars => wire' = wire
  BY DEF vars
<1> QED
  BY <1>2, <1>3, <1>4, <1>5, <1>6

\* A storage stone never holds a bucketful, and what it passes on is one.
THEOREM Buckets == Spec => BucketsPassOn
<1>1. IInv => \A p \in Proactives : \A i \in DOMAIN stones[p] : Len(stones[p][i].held) < Bucket
  BY DEF IInv, Core, ListsGood, ListGood, Gathers, GathersAt
<1>2. IInv /\ [Next]_vars => [SendsFull]_vars
  BY StepSendsFull
<1>3. Spec => [][SendsFull]_vars
  BY <1>2, Invariance, PTL DEF Spec
<1>4. Spec => [](\A p \in Proactives : \A i \in DOMAIN stones[p] : Len(stones[p][i].held) < Bucket)
  BY <1>1, Invariance, PTL
<1> QED
  BY <1>3, <1>4 DEF BucketsPassOn

\* The events sent tell of an entity's data only between its creation and its deletion.
THEOREM DataFollows == Spec => []DataAfterCreation
<1>1. IInv => DataAfterCreation
  <2> SUFFICES ASSUME IInv, NEW n \in DOMAIN log, log[n].what \in DataTypes
               PROVE  \E m \in 1 .. n - 1 :
                        /\ log[m] = Event(log[n].of, "create")
                        /\ \A k \in m + 1 .. n : log[k] # Event(log[n].of, "delete")
    BY DEF DataAfterCreation
  <2>1. CreatedFirst /\ DOMAIN log = 1 .. Len(log) /\ Len(log) \in Nat /\ Len(todo) \in Nat
    BY DEF IInv, Core, TypeOK
  <2>2. n \in 1 .. Ahead /\ \A k \in 1 .. n : At(k) = log[k]
    BY <2>1 DEF Ahead, At
  <2>3. CreatedBy(log[n].of, n)
    BY <2>1, <2>2 DEF CreatedFirst
  <2>4. PICK m \in 1 .. n : /\ At(m) = Event(log[n].of, "create")
                            /\ \A k \in m + 1 .. n : At(k) # Event(log[n].of, "delete")
    BY <2>3 DEF CreatedBy
  <2>5. log[m] = Event(log[n].of, "create") /\ \A k \in m + 1 .. n : log[k] # Event(log[n].of, "delete")
    BY <2>1, <2>2, <2>4
  <2>6. m # n
    BY <2>5, DataTypesKnown DEF Event
  <2> QED
    BY <2>1, <2>5, <2>6
<1> QED
  BY <1>1, Invariance, PTL

---------------------------------------------------------------------------
(* What clients see of the registrations. *)

\* A registration hangs off a stone as long as its object exists.
Hanging ==
  \A s \in Sinks : /\ HangsOff(s) <=> Registered(s) /\ until[s] = Open
                   /\ ~HangsOff(s) => HeldFor(s) = {}

LEMMA IsHanging == Core => Hanging
<1> SUFFICES ASSUME Core, NEW s \in Sinks
             PROVE  /\ HangsOff(s) <=> Registered(s) /\ until[s] = Open
                    /\ ~HangsOff(s) => HeldFor(s) = {}
  BY DEF Hanging
<1>1. sink[s].channel \in Channels /\ sink[s].channel[1] \in Proactives
  BY ChannelFacts DEF Core, TypeOK
<1>2. PICK p \in Proactives, list \in Seq(Stone) :
        p = sink[s].channel[1] /\ list = stones[p] /\ ListGood(p, list)
  BY <1>1 DEF Core, TypeOK, ListsGood
<1>3. HangsOff(s) <=> \E i \in DOMAIN list : s \in list[i].targets
  BY <1>2 DEF HangsOff
<1>4. HangsOff(s) => Registered(s) /\ until[s] = Open
  BY <1>2, <1>3, TargetOnce
<1>5. Registered(s) /\ until[s] = Open => HangsOff(s)
  BY <1>2, <1>3 DEF Core, Hangs
<1>6. ~HangsOff(s) => HeldFor(s) = {}
  BY <1>2, <1>3, HeldForIs, HeldOfNone
<1> QED
  BY <1>4, <1>5, <1>6

LEMMA IsHangingNext == Core' => Hanging'
  BY IsHanging, PTL

\* What is held for a registration is what the stone it hangs off holds.
LEMMA HeldAt ==
  ASSUME Core, NEW s \in Sinks, HangsOff(s)
  PROVE  \E p \in Proactives, list \in Seq(Stone) : \E i \in DOMAIN list :
           /\ list = stones[p] /\ ListGood(p, list) /\ First(list, i) /\ s \in list[i].targets
           /\ sink[s].channel = <<p, list[i].type>>
           /\ HeldFor(s) = Range(list[i].held)
<1>1. sink[s].channel \in Channels /\ sink[s].channel[1] \in Proactives
  BY ChannelFacts DEF Core, TypeOK
<1>2. PICK p \in Proactives, list \in Seq(Stone) :
        p = sink[s].channel[1] /\ list = stones[p] /\ ListGood(p, list)
  BY <1>1 DEF Core, TypeOK, ListsGood
<1>3. PICK i \in DOMAIN list : s \in list[i].targets
  BY <1>2 DEF HangsOff
<1>4. /\ sink[s].channel = <<p, list[i].type>> /\ First(list, i)
      /\ HeldOf(list, s) = Range(list[i].held)
  BY <1>2, <1>3, TargetOnce
<1>5. HeldFor(s) = Range(list[i].held)
  BY <1>2, <1>4, HeldForIs
<1> QED
  BY <1>2, <1>3, <1>4, <1>5

\* All the registrations of a channel wait for the same.
LEMMA SameHeld ==
  ASSUME Core, NEW s \in Sinks, NEW q \in Sinks, HangsOff(s), HangsOff(q),
         sink[s].channel = sink[q].channel
  PROVE  HeldFor(s) = HeldFor(q)
<1>1. PICK p \in Proactives, list \in Seq(Stone) : \E i \in DOMAIN list :
        /\ list = stones[p] /\ First(list, i) /\ sink[s].channel = <<p, list[i].type>>
        /\ HeldFor(s) = Range(list[i].held)
  BY HeldAt
<1>2. PICK i \in DOMAIN list :
        /\ list = stones[p] /\ First(list, i) /\ sink[s].channel = <<p, list[i].type>>
        /\ HeldFor(s) = Range(list[i].held)
  BY <1>1
<1>3. PICK r \in Proactives, more \in Seq(Stone) : \E j \in DOMAIN more :
        /\ more = stones[r] /\ First(more, j) /\ sink[q].channel = <<r, more[j].type>>
        /\ HeldFor(q) = Range(more[j].held)
  BY HeldAt
<1>4. PICK j \in DOMAIN more :
        /\ more = stones[r] /\ First(more, j) /\ sink[q].channel = <<r, more[j].type>>
        /\ HeldFor(q) = Range(more[j].held)
  BY <1>3
<1>5. p = r /\ list[i].type = more[j].type
  <2>1. <<p, list[i].type>> = <<r, more[j].type>>
    BY <1>2, <1>4
  <2> QED
    BY <2>1
<1>6. more = list
  BY <1>2, <1>4, <1>5
<1>7. i = j
  BY <1>2, <1>4, <1>5, <1>6, FirstOnce
<1> QED
  BY <1>2, <1>4, <1>6, <1>7

\* A sequence that increases has as many members as positions.
LEMMA IncreasingCard ==
  ASSUME NEW q \in Seq(Nat), Increases(q)
  PROVE  IsFiniteSet(Range(q)) /\ Cardinality(Range(q)) = Len(q)
<1>1. PICK n \in Nat : n = Len(q) /\ DOMAIN q = 1 .. n
  OBVIOUS
<1>2. \A k, m \in 1 .. n : q[k] = q[m] => k = m
  <2> SUFFICES ASSUME NEW k \in 1 .. n, NEW m \in 1 .. n, q[k] = q[m]
               PROVE  k = m
    OBVIOUS
  <2>1. q[k] \in Nat /\ q[m] \in Nat
    BY <1>1
  <2>2. (k < m => q[k] < q[m]) /\ (m < k => q[m] < q[k])
    BY <1>1 DEF Increases
  <2> QED
    BY <2>1, <2>2
<1>3. q \in Bijection(1 .. n, Range(q))
  <2>1. q \in [1 .. n -> Range(q)]
    BY <1>1 DEF Range
  <2> QED
    BY <1>1, <1>2, <2>1 DEF Bijection, Injection, Surjection, IsInjective, Range
<1>4. ExistsBijection(1 .. n, Range(q))
  BY <1>3 DEF ExistsBijection
<1>5. IsFiniteSet(1 .. n) /\ Cardinality(1 .. n) = n
  <2>1. n = 0 \/ 1 <= n
    OBVIOUS
  <2> QED
    BY FS_Interval
<1> QED
  BY <1>1, <1>4, <1>5, FS_Bijection

LEMMA CountIs ==
  ASSUME NEW S
  PROVE  Promised!Cardinality(S) = Cardinality(S)
BY DEF Promised!Cardinality, Cardinality

\* What a channel gathers: what a stone of the channel holds.
LEMMA GathersStone ==
  ASSUME Core, NEW p, NEW list \in Seq(Stone), ListGood(p, list), NEW i \in DOMAIN list,
         <<p, list[i].type>> \in Channels
  PROVE  Promised!Gathers(<<p, list[i].type>>, Range(list[i].held))
<1>3. PICK h \in Seq(Nat), c \in Channels : h = list[i].held /\ c = <<p, list[i].type>>
  BY StoneFacts
<1>4. HoldsLatestAt(p, list, i) /\ GathersAt(p, list, i)
  BY DEF ListGood, HoldsLatest, Gathers
<1>5. /\ \A k \in DOMAIN h : h[k] \in DOMAIN log /\ Concerns(log[h[k]], c)
      /\ Increases(h) /\ Len(h) < Bucket
      /\ h # <<>> => \A n \in DOMAIN log : n >= h[1] /\ Concerns(log[n], c) => n \in Range(h)
  BY <1>3, <1>4 DEF HoldsLatestAt, GathersAt, Increases
<1>6. log \in Seq(LogEntry) /\ DOMAIN log \subseteq Nat
  BY DEF Core, TypeOK
<1>7. Promised!Concerning(c) = {n \in DOMAIN log : Concerns(log[n], c)}
  BY <1>6 DEF Promised!Concerning
<1>8. Promised!Cardinality(Range(h)) < Bucket
  BY <1>5, IncreasingCard, CountIs
<1>9. Range(h) \subseteq Promised!Concerning(c)
  BY <1>5, <1>7 DEF Range
<1>10. Promised!Latest(Range(h), Promised!Concerning(c))
  <2> SUFFICES ASSUME NEW x \in Range(h), NEW y \in Promised!Concerning(c) \ Range(h)
               PROVE  y < x
    BY DEF Promised!Latest
  <2>1. PICK k \in DOMAIN h : x = h[k]
    BY DEF Range
  <2>2. h # <<>> /\ 1 \in DOMAIN h /\ k \in Nat /\ 1 <= k /\ h[1] \in Nat /\ h[k] \in Nat
    OBVIOUS
  <2>3. h[1] <= x
    BY <2>1, <2>2, <1>5 DEF Increases
  <2>4. y \in Nat /\ y \in DOMAIN log /\ Concerns(log[y], c)
    BY <1>6, <1>7
  <2>5. ~ (y >= h[1])
    BY <2>2, <2>4, <1>5
  <2> QED
    BY <2>1, <2>2, <2>3, <2>4, <2>5
<1> QED
  BY <1>3, <1>8, <1>9, <1>10 DEF Promised!Gathers

LEMMA GathersHeld ==
  ASSUME Core, NEW s \in Sinks, HangsOff(s)
  PROVE  Promised!Gathers(sink[s].channel, HeldFor(s))
<1>1. PICK p \in Proactives, list \in Seq(Stone) : \E i \in DOMAIN list :
        /\ ListGood(p, list) /\ sink[s].channel = <<p, list[i].type>>
        /\ HeldFor(s) = Range(list[i].held)
  BY HeldAt
<1>2. PICK i \in DOMAIN list :
        /\ ListGood(p, list) /\ sink[s].channel = <<p, list[i].type>>
        /\ HeldFor(s) = Range(list[i].held)
  BY <1>1
<1>3. sink[s].channel \in Channels
  BY DEF Core, TypeOK
<1> QED
  BY <1>2, <1>3, GathersStone

LEMMA GathersNothing ==
  ASSUME NEW c
  PROVE  Promised!Gathers(c, {})
<1>1. Promised!Cardinality({}) = 0 /\ 0 < Bucket
  BY FS_EmptySet, BucketPos, CountIs
<1> QED
  BY <1>1 DEF Promised!Gathers, Promised!Latest

\* What is held for a registration was sent after all that is on its way.
LEMMA HeldIsLast ==
  ASSUME Core, NEW s \in Sinks, NEW x \in Due(s) \ HeldFor(s), NEW y \in HeldFor(s)
  PROVE  x < y
<1>0. HangsOff(s)
  BY IsHanging DEF Hanging
<1>1. PICK p \in Proactives, list \in Seq(Stone) : \E i \in DOMAIN list :
        /\ ListGood(p, list) /\ sink[s].channel = <<p, list[i].type>>
        /\ HeldFor(s) = Range(list[i].held)
  BY <1>0, HeldAt
<1>2. PICK i \in DOMAIN list :
        /\ ListGood(p, list) /\ sink[s].channel = <<p, list[i].type>>
        /\ HeldFor(s) = Range(list[i].held)
  BY <1>1
<1>3. PICK h \in Seq(Nat) : h = list[i].held
  BY StoneFacts
<1>4. HoldsLatestAt(p, list, i)
  BY <1>2 DEF ListGood, HoldsLatest
<1>5. /\ Increases(h)
      /\ h # <<>> => \A n \in DOMAIN log : n >= h[1] /\ Concerns(log[n], sink[s].channel)
                                           => n \in Range(h)
  BY <1>2, <1>3, <1>4 DEF HoldsLatestAt, Increases
<1>6. PICK k \in DOMAIN h : y = h[k]
  BY <1>2, <1>3 DEF Range
<1>7. h # <<>> /\ 1 \in DOMAIN h /\ k \in Nat /\ 1 <= k /\ h[1] \in Nat /\ h[k] \in Nat
  OBVIOUS
<1>8. h[1] <= y
  BY <1>5, <1>6, <1>7 DEF Increases
<1>9. x \in Nat /\ x \in DOMAIN log /\ Concerns(log[x], sink[s].channel)
  <2>1. since[s] \in Nat /\ Len(log) \in Nat /\ DOMAIN log = 1 .. Len(log)
    BY LogBelow, OpenFacts DEF Core, TypeOK
  <2> QED
    BY <2>1 DEF Due
<1>10. ~ (x >= h[1])
  BY <1>2, <1>3, <1>5, <1>7, <1>9
<1> QED
  BY <1>6, <1>7, <1>8, <1>9, <1>10

\* The step of the promise that a step of the server is, from what it does for each
\* registration.
LEMMA OweIs ==
  ASSUME IInv, NEW K, NEW L, NEW n \in Nat,
         \A s \in Sinks : ~HangsOff(s) => Owed'[s] = Owed[s],
         \A s \in Sinks : HangsOff(s) =>
           Owed'[s] = (Owed[s] \ (IF sink[s].channel \in K THEN HeldFor(s) ELSE {}))
                      \cup (IF sink[s].channel \in L THEN {n} ELSE {})
  PROVE  Promised!Owe(K, L, n)
<1>1. Core /\ Hanging
  BY IsHanging DEF IInv
<1>2. \A s \in Served : s \in Sinks /\ HangsOff(s) /\ ChannelOf[s] = sink[s].channel
  BY <1>1 DEF Hanging, Served, ChannelOf
<1>3. Owed' \in [Sinks -> SUBSET Nat]
  <2>1. ASSUME NEW s \in Sinks
        PROVE  Owed[s] \subseteq Nat
    <3>1. wire[s] \in Seq(Seq(Nat))
      BY <1>1 DEF Core, TypeOK
    <3>2. Contents(wire[s]) \subseteq Nat
      BY <3>1 DEF Contents, Range
    <3>3. HeldFor(s) \subseteq Nat
      <4>1. CASE HangsOff(s)
        <5>1. PICK p \in Proactives, list \in Seq(Stone) : \E i \in DOMAIN list :
                HeldFor(s) = Range(list[i].held)
          BY <1>1, <4>1, HeldAt
        <5>2. PICK i \in DOMAIN list : HeldFor(s) = Range(list[i].held)
          BY <5>1
        <5>3. list[i].held \in Seq(Nat)
          BY StoneFacts
        <5> QED
          BY <5>2, <5>3 DEF Range
      <4>2. CASE ~HangsOff(s)
        BY <1>1, <4>2 DEF Hanging
      <4> QED
        BY <4>1, <4>2
    <3> QED
      BY <3>2, <3>3 DEF Owed
  <2>2. ASSUME NEW s \in Sinks
        PROVE  Owed'[s] \subseteq Nat
    <3>1. Owed[s] \subseteq Nat
      BY <2>1
    <3>2. CASE HangsOff(s)
      BY <3>1, <3>2
    <3>3. CASE ~HangsOff(s)
      BY <3>1, <3>3
    <3> QED
      BY <3>2, <3>3
  <2>3. Owed' = [s \in Sinks |-> Owed'[s]]
    BY DEF Owed
  <2> QED
    BY <2>2, <2>3
<1>4. \A s \in Sinks \ Served : Owed'[s] = Owed[s]
  BY DEF Served
<1>5. ASSUME NEW c \in Channels
      PROVE  \E X \in SUBSET Promised!Concerning(c) :
               /\ Promised!Gathers(c, X) /\ (c \notin K => X = {})
               /\ \A s \in Served : ChannelOf[s] = c =>
                    Owed'[s] = (Owed[s] \ X) \cup (IF c \in L THEN {n} ELSE {})
  <2>1. CASE c \in K /\ \E q \in Served : ChannelOf[q] = c
    <3>1. PICK q \in Served : ChannelOf[q] = c
      BY <2>1
    <3>2. PICK X : X = HeldFor(q)
      OBVIOUS
    <3>3. Promised!Gathers(c, X)
      BY <1>1, <1>2, <3>1, <3>2, GathersHeld
    <3>4. X \in SUBSET Promised!Concerning(c)
      BY <3>3 DEF Promised!Gathers
    <3>5. ASSUME NEW s \in Served, ChannelOf[s] = c
          PROVE  Owed'[s] = (Owed[s] \ X) \cup (IF c \in L THEN {n} ELSE {})
      <4>1. /\ s \in Sinks /\ q \in Sinks /\ HangsOff(s) /\ HangsOff(q)
            /\ sink[s].channel = c /\ sink[q].channel = c
        BY <1>2, <3>1, <3>5
      <4>2. HeldFor(s) = X
        BY <1>1, <3>2, <4>1, SameHeld
      <4> QED
        BY <2>1, <4>1, <4>2
    <3> QED
      BY <2>1, <3>3, <3>4, <3>5
  <2>2. CASE ~ (c \in K /\ \E q \in Served : ChannelOf[q] = c)
    <3>1. Promised!Gathers(c, {}) /\ {} \in SUBSET Promised!Concerning(c)
      BY GathersNothing
    <3>2. ASSUME NEW s \in Served, ChannelOf[s] = c
          PROVE  Owed'[s] = (Owed[s] \ {}) \cup (IF c \in L THEN {n} ELSE {})
      <4>1. s \in Sinks /\ HangsOff(s) /\ sink[s].channel = c /\ c \notin K
        BY <1>2, <2>2, <3>2
      <4> QED
        BY <4>1
    <3> QED
      BY <3>1, <3>2
  <2> QED
    BY <2>1, <2>2
<1> QED
  BY <1>3, <1>4, <1>5 DEF Promised!Owe

---------------------------------------------------------------------------
(* Steps that clients do not see. *)

\* Registrations keep their channels and objects.
LEMMA SeenSame ==
  ASSUME Hanging, Hanging', until' = until,
         \A s \in Sinks : Registered(s)' <=> Registered(s),
         \A s \in Sinks : Registered(s) => sink'[s].channel = sink[s].channel
  PROVE  Served' = Served /\ ChannelOf' = ChannelOf
<1>1. \A s \in Sinks : HangsOff(s)' <=> HangsOff(s)
  BY DEF Hanging, Open
<1>2. Served' = Served
  BY <1>1 DEF Served
<1>3. \A s \in Sinks : ChannelOf'[s] = ChannelOf[s]
  BY DEF ChannelOf
<1>4. ChannelOf' = ChannelOf
  BY <1>3 DEF ChannelOf
<1> QED
  BY <1>2, <1>4

\* What they are still to get stays the same.
LEMMA OwedSame ==
  ASSUME Hanging, Hanging', wire' = wire, until' = until,
         \A s \in Sinks : Registered(s)' <=> Registered(s),
         \A s \in Sinks : Registered(s) => HeldFor(s)' = HeldFor(s)
  PROVE  Owed' = Owed
<1>1. ASSUME NEW s \in Sinks
      PROVE  HeldFor(s)' = HeldFor(s)
  <2>1. CASE Registered(s)
    BY <2>1
  <2>2. CASE ~Registered(s)
    BY <2>2 DEF Hanging
  <2> QED
    BY <2>1, <2>2
<1>2. \A s \in Sinks : Contents(wire'[s]) \cup HeldFor(s)' = Contents(wire[s]) \cup HeldFor(s)
  BY <1>1
<1> QED
  BY <1>2 DEF Owed, Contents

LEMMA Hidden ==
  ASSUME Hanging, Hanging', UNCHANGED <<up, log, wire, got, missed, until>>,
         \A s \in Sinks : Registered(s)' <=> Registered(s),
         \A s \in Sinks : Registered(s) =>
           sink'[s].channel = sink[s].channel /\ HeldFor(s)' = HeldFor(s),
         \A s \in Sinks : sink'[s].state \in {"on", "cancelled"}
                          <=> sink[s].state \in {"on", "cancelled"}
  PROVE  UNCHANGED Promised!vars
<1>1. Served' = Served /\ ChannelOf' = ChannelOf /\ Owed' = Owed
  BY SeenSame, OwedSame
<1>2. Listening' = Listening
  BY DEF Listening
<1> QED
  BY <1>1, <1>2 DEF Promised!vars, Contents

LEMMA HeldSame ==
  ASSUME NEW s, stones' = stones, sink'[s].channel = sink[s].channel
  PROVE  HeldFor(s)' = HeldFor(s)
BY HeldForIs, HeldForIsNext

\* The client asks, gives up, or cancels.
LEMMA SinkHides ==
  ASSUME Hanging, Hanging', TypeOK, NEW s \in Sinks, NEW record, sink' = [sink EXCEPT ![s] = record],
         UNCHANGED <<server, got, missed, wire, since, until>>,
         Registered(s)' <=> Registered(s),
         Registered(s) => record.channel = sink[s].channel,
         record.state \in {"on", "cancelled"} <=> sink[s].state \in {"on", "cancelled"}
  PROVE  UNCHANGED Promised!vars
<1>1. sink'[s] = record /\ \A q \in Sinks \ {s} : sink'[q] = sink[q]
  BY DEF TypeOK
<1>2. UNCHANGED <<up, log, wire, got, missed, until>> /\ stones' = stones
  BY DEF server
<1>3. \A q \in Sinks : Registered(q)' <=> Registered(q)
  BY <1>1 DEF Registered
<1>4. \A q \in Sinks : Registered(q) => sink'[q].channel = sink[q].channel
  BY <1>1
<1>5. \A q \in Sinks : Registered(q) => HeldFor(q)' = HeldFor(q)
  BY <1>2, <1>4, HeldSame
<1>6. \A q \in Sinks : sink'[q].state \in {"on", "cancelled"}
                       <=> sink[q].state \in {"on", "cancelled"}
  BY <1>1
<1> QED
  BY <1>2, <1>3, <1>4, <1>5, <1>6, Hidden

LEMMA RegisterHides ==
  ASSUME Hanging, Hanging', TypeOK, NEW s \in Sinks, NEW channel, Register(s, channel)
  PROVE  UNCHANGED Promised!vars
<1>1. PICK record : record = [channel |-> channel, state |-> "asked"]
  OBVIOUS
<1>2. /\ sink' = [sink EXCEPT ![s] = record] /\ sink'[s] = record /\ record.state = "asked"
      /\ sink[s].state = "idle" /\ UNCHANGED <<server, got, missed, wire, since, until>>
  BY <1>1 DEF Register, TypeOK
<1>3. ~Registered(s) /\ ~Registered(s)'
  BY <1>2 DEF Registered
<1> QED
  BY <1>2, <1>3, SinkHides

LEMMA StateHides ==
  ASSUME Hanging, Hanging', TypeOK, NEW s \in Sinks, NEW state, Sink(s, state),
         UNCHANGED <<server, got, missed, wire, since, until>>,
         \/ state = "cancelled" /\ sink[s].state = "on"
         \/ state = "error" /\ sink[s].state = "asked"
         \/ state = "failed" /\ sink[s].state = "error"
  PROVE  UNCHANGED Promised!vars
<1>1. PICK record : record = [sink[s] EXCEPT !.state = state]
  OBVIOUS
<1>2. /\ sink' = [sink EXCEPT ![s] = record] /\ sink'[s] = record
      /\ record.state = state /\ record.channel = sink[s].channel
  BY <1>1 DEF Sink, TypeOK
<1>3. Registered(s)' <=> Registered(s)
  BY <1>2 DEF Registered
<1> QED
  BY <1>2, <1>3, SinkHides

\* A request only puts down what its handler is to send.
LEMMA SubmitsHides ==
  ASSUME Core, Hanging, Hanging', Submits
  PROVE  UNCHANGED Promised!vars
<1>1. /\ stones \in [Proactives -> Seq(Stone)]
      /\ \A s \in Sinks : sink[s].channel[1] \in Proactives
  BY ChannelFacts DEF Core, TypeOK
<1>2. PICK o, more, events : o \in Objects /\ Grows(o, more, events)
  BY SubmitsGrows
<1>3. /\ UNCHANGED <<up, log, wire, got, missed, until, sink>> /\ o \in Proactives
      /\ stones' = [stones EXCEPT ![o] = more]
      /\ more \in Seq(Stone) /\ Grown(stones[o], more)
  BY <1>2, Names DEF client, Grows
<1>4. ASSUME NEW s \in Sinks
      PROVE  HeldFor(s)' = HeldFor(s)
  <2>1. HeldOf(stones'[sink[s].channel[1]], s) = HeldOf(stones[sink[s].channel[1]], s)
    <3>1. CASE sink[s].channel[1] = o
      BY <3>1, <1>1, <1>3, HeldOfGrown
    <3>2. CASE sink[s].channel[1] # o
      BY <3>2, <1>1, <1>3
    <3> QED
      BY <3>1, <3>2
  <2> QED
    BY <2>1, <1>3, HeldForIs, HeldForIsNext
<1>5. \A s \in Sinks : Registered(s)' <=> Registered(s)
  BY <1>3 DEF Registered
<1> QED
  BY <1>3, <1>4, <1>5, Hidden

---------------------------------------------------------------------------
(* The client's steps. *)

LEMMA AssociateIsListen ==
  ASSUME Hanging, Hanging', TypeOK, NEW s \in Sinks, sink[s].state = "ok", Sink(s, "on"),
         UNCHANGED <<server, got, missed, wire, since, until>>
  PROVE  Promised!Listen(s)
<1>1. PICK record : record = [sink[s] EXCEPT !.state = "on"]
  OBVIOUS
<1>2. /\ sink' = [sink EXCEPT ![s] = record] /\ sink'[s] = record
      /\ record.state = "on" /\ record.channel = sink[s].channel
      /\ \A q \in Sinks \ {s} : sink'[q] = sink[q]
      /\ sink[s].channel \in Channels
  BY <1>1 DEF Sink, TypeOK
<1>3. UNCHANGED <<up, log, wire, got, missed, until>> /\ stones' = stones
  BY DEF server
<1>4. \A q \in Sinks : Registered(q)' <=> Registered(q)
  BY <1>2 DEF Registered
<1>5. \A q \in Sinks : sink'[q].channel = sink[q].channel
  BY <1>2
<1>6. \A q \in Sinks : HeldFor(q)' = HeldFor(q)
  BY <1>3, <1>5, HeldSame
<1>7. Served' = Served /\ ChannelOf' = ChannelOf /\ Owed' = Owed
  BY <1>3, <1>4, <1>5, <1>6, SeenSame, OwedSame
<1>8. Listening' = Listening \cup {s}
  BY <1>2 DEF Listening
<1>9. ChannelOf[s] # <<>>
  <2>1. ChannelOf[s] = sink[s].channel
    BY DEF ChannelOf, Registered
  <2>2. sink[s].channel = <<sink[s].channel[1], sink[s].channel[2]>>
    BY <1>2, ChannelFacts
  <2> QED
    BY <2>1, <2>2
<1> QED
  BY <1>3, <1>7, <1>8, <1>9 DEF Promised!Listen, Contents

\* What comes last in a stream is in order as well.
LEMMA StreamEnd ==
  ASSUME NEW a \in Seq(Seq(Nat)), NEW b \in Seq(Seq(Nat)), InOrder(a \o b)
  PROVE  InOrder(b) /\ Contents(b) \subseteq Contents(a \o b)
<1>1. PICK c \in Seq(Seq(Nat)) : c = a \o b
  BY ConcatProperties
<1>2. /\ Len(c) = Len(a) + Len(b) /\ Len(a) \in Nat /\ Len(b) \in Nat
      /\ DOMAIN b = 1 .. Len(b) /\ DOMAIN c = 1 .. Len(c)
  BY <1>1, ConcatProperties
<1>3. ASSUME NEW j \in DOMAIN b
      PROVE  Len(a) + j \in DOMAIN c /\ c[Len(a) + j] = b[j]
  BY <1>1, <1>2, ConcatProperties
<1>4. InOrder(c)
  BY <1>1
<1>5. ASSUME NEW j \in DOMAIN b
      PROVE  /\ Len(b[j]) \in {1, Bucket}
             /\ \A k, m \in DOMAIN b[j] : k < m => b[j][k] < b[j][m]
  BY <1>3, <1>4 DEF InOrder
<1>6. ASSUME NEW i \in DOMAIN b, NEW j \in DOMAIN b, i < j,
             NEW k \in DOMAIN b[i], NEW m \in DOMAIN b[j]
      PROVE  b[i][k] < b[j][m]
  <2>1. Len(a) + i < Len(a) + j
    BY <1>2, <1>6
  <2> QED
    BY <2>1, <1>3, <1>4 DEF InOrder
<1>7. Contents(b) \subseteq Contents(c)
  BY <1>3 DEF Contents
<1> QED
  BY <1>1, <1>5, <1>6, <1>7 DEF InOrder

\* The first of a stream.
LEMMA StreamHead ==
  ASSUME NEW w \in Seq(Seq(Nat)), w # <<>>, InOrder(w)
  PROVE  /\ Head(w) \in Seq(Nat) /\ Increases(Head(w)) /\ Len(Head(w)) \in {1, Bucket}
         /\ Contents(w) = Range(Head(w)) \cup Contents(Tail(w))
         /\ \A x \in Range(Head(w)), y \in Contents(Tail(w)) : x < y
<1>1. /\ Len(w) \in Nat /\ 1 <= Len(w) /\ DOMAIN w = 1 .. Len(w)
      /\ Head(w) = w[1] /\ w[1] \in Seq(Nat)
      /\ Tail(w) \in Seq(Seq(Nat)) /\ Len(Tail(w)) = Len(w) - 1
      /\ DOMAIN Tail(w) = 1 .. Len(w) - 1
      /\ \A j \in 1 .. Len(w) - 1 : Tail(w)[j] = w[j + 1]
  OBVIOUS
<1>2. PICK rest \in Seq(Seq(Nat)), h \in Seq(Nat) :
        /\ rest = Tail(w) /\ h = Head(w) /\ h = w[1] /\ DOMAIN rest = 1 .. Len(w) - 1
        /\ \A j \in 1 .. Len(w) - 1 : rest[j] = w[j + 1]
  BY <1>1
<1>3. 1 \in DOMAIN w /\ \A j \in DOMAIN rest : j + 1 \in DOMAIN w /\ 1 < j + 1
  BY <1>1, <1>2
<1>4. Increases(h) /\ Len(h) \in {1, Bucket}
  BY <1>2, <1>3 DEF InOrder, Increases
<1>5. ASSUME NEW x \in Range(h), NEW y \in Contents(rest)
      PROVE  x < y
  <2>1. PICK k \in DOMAIN h : x = h[k]
    BY DEF Range
  <2>2. PICK j \in DOMAIN rest : y \in Range(rest[j])
    BY DEF Contents
  <2>3. PICK m \in DOMAIN rest[j] : y = rest[j][m]
    BY <2>2 DEF Range
  <2>4. rest[j] = w[j + 1] /\ j + 1 \in DOMAIN w /\ 1 < j + 1
    BY <1>2, <1>3
  <2>5. m \in DOMAIN w[j + 1] /\ y = w[j + 1][m] /\ k \in DOMAIN w[1] /\ x = w[1][k]
    BY <1>2, <2>1, <2>3, <2>4
  <2> QED
    BY <1>3, <2>4, <2>5 DEF InOrder
<1>6. Contents(w) = Range(h) \cup Contents(rest)
  <2>1. ASSUME NEW j \in DOMAIN w
        PROVE  Range(w[j]) \subseteq Range(h) \cup Contents(rest)
    <3>1. CASE j = 1
      BY <3>1, <1>2
    <3>2. CASE j # 1
      <4>1. j - 1 \in DOMAIN rest /\ rest[j - 1] = w[j]
        <5>1. j - 1 \in 1 .. Len(w) - 1 /\ (j - 1) + 1 = j
          BY <3>2, <1>1
        <5> QED
          BY <5>1, <1>2
      <4> QED
        BY <4>1 DEF Contents
    <3> QED
      BY <3>1, <3>2
  <2>2. \A j \in DOMAIN rest : Range(rest[j]) \subseteq Contents(w)
    BY <1>2, <1>3 DEF Contents
  <2>3. Range(h) \subseteq Contents(w)
    BY <1>2, <1>3 DEF Contents
  <2>4. Contents(w) \subseteq Range(h) \cup Contents(rest)
    BY <2>1 DEF Contents
  <2>5. Contents(rest) \subseteq Contents(w)
    BY <2>2 DEF Contents
  <2> QED
    BY <2>3, <2>4, <2>5
<1> QED
  BY <1>2, <1>4, <1>5, <1>6

\* An event more.
LEMMA StreamMore ==
  ASSUME NEW S, NEW g \in Seq(S), NEW h \in S
  PROVE  Contents(Append(g, h)) = Contents(g) \cup Range(h)
<1>1. PICK more : more = Append(g, h)
  OBVIOUS
<1>a. /\ DOMAIN more = 1 .. Len(g) + 1 /\ Len(g) \in Nat
      /\ DOMAIN g = 1 .. Len(g) /\ more[Len(g) + 1] = h
      /\ \A j \in 1 .. Len(g) : more[j] = g[j]
  BY <1>1
<1>2. \A j \in DOMAIN more : j \in DOMAIN g \/ j = Len(g) + 1
  BY <1>a
<1>3. \A j \in DOMAIN g : j \in DOMAIN more /\ more[j] = g[j]
  BY <1>a
<1>4. Len(g) + 1 \in DOMAIN more
  BY <1>a
<1>5. Contents(more) = Contents(g) \cup Range(h)
  BY <1>a, <1>2, <1>3, <1>4 DEF Contents
<1> QED
  BY <1>1, <1>5

LEMMA DeliverIsArrive ==
  ASSUME IInv, Hanging, Hanging', NEW s \in Sinks, Deliver(s)
  PROVE  \E B \in SUBSET Owed[s] : Promised!Arrive(s, B)
<1>1. Core /\ TypeOK /\ SinksGood /\ Ordered /\ Delivered
  BY DEF IInv, Core
<1>2. PICK w \in Seq(Seq(Nat)), g \in Seq(Seq(Nat)), m \in Seq(Seq(Nat)) :
        /\ w = wire[s] /\ g = got[s] /\ m = missed[s] /\ w # <<>>
        /\ wire' = [wire EXCEPT ![s] = Tail(w)]
        /\ UNCHANGED <<server, sink, since, until>>
        /\ IF s \in Listening THEN got' = [got EXCEPT ![s] = Append(g, Head(w))] /\ missed' = missed
           ELSE missed' = [missed EXCEPT ![s] = Append(m, Head(w))] /\ got' = got
  BY <1>1 DEF Deliver, TypeOK, Listening
<1>3. Registered(s)
  BY <1>1, <1>2 DEF SinksGood
<1>4. InOrder(w) /\ Contents(w) \subseteq Due(s) \ HeldFor(s)
  <2>1. PICK a \in Seq(Seq(Nat)) : a = m \o g
    BY ConcatProperties
  <2>2. Stream(s) = a \o w
    BY <1>2, <2>1 DEF Stream
  <2>3. InOrder(a \o w) /\ Contents(a \o w) = Due(s) \ HeldFor(s)
    BY <1>1, <1>3, <2>2 DEF Ordered, Delivered
  <2> QED
    BY <2>3, StreamEnd
<1>a. PICK h, rest, B : h = Head(w) /\ rest = Tail(w) /\ B = Range(h)
  OBVIOUS
<1>5. /\ h \in Seq(Nat) /\ h = Head(w) /\ rest = Tail(w) /\ B = Range(h)
      /\ Increases(h) /\ Len(h) \in {1, Bucket} /\ Contents(w) = B \cup Contents(rest)
      /\ \A x \in B, y \in Contents(rest) : x < y
  BY <1>a, <1>2, <1>4, StreamHead
<1>6. Promised!Cardinality(B) \in {1, Bucket}
  BY <1>5, IncreasingCard, CountIs
<1>7. \A x \in B, y \in HeldFor(s) : x < y
  BY <1>1, <1>4, <1>5, HeldIsLast
<1>8. B \subseteq Nat
  BY <1>5 DEF Range
<1>9. Owed[s] = B \cup Contents(rest) \cup HeldFor(s)
  BY <1>2, <1>5 DEF Owed
<1>10. Promised!Oldest(B, Owed[s])
  BY <1>5, <1>7, <1>9 DEF Promised!Oldest
<1>11. UNCHANGED <<up, log, stones, sink, until>>
  BY <1>2 DEF server
<1>12. \A q \in Sinks : /\ Registered(q)' <=> Registered(q)
                        /\ HeldFor(q)' = HeldFor(q)
  BY <1>11, HeldSame DEF Registered
<1>13. Served' = Served /\ ChannelOf' = ChannelOf /\ Listening' = Listening
  BY <1>11, <1>12, SeenSame DEF Listening
<1>14. Owed' = [Owed EXCEPT ![s] = @ \ B]
  <2>1. wire'[s] = rest /\ \A q \in Sinks \ {s} : wire'[q] = wire[q]
    BY <1>1, <1>2, <1>5 DEF TypeOK
  <2>2. Owed'[s] = Contents(rest) \cup HeldFor(s)
    BY <1>12, <2>1 DEF Owed, Contents
  <2>3. B \cap Contents(rest) = {} /\ B \cap HeldFor(s) = {}
    BY <1>5, <1>7, <1>8
  <2>4. Owed'[s] = Owed[s] \ B
    BY <1>9, <2>2, <2>3
  <2>5. \A q \in Sinks \ {s} : Owed'[q] = Owed[q]
    BY <1>12, <2>1 DEF Owed, Contents
  <2>6. Owed' = [q \in Sinks |-> Owed'[q]] /\ Owed = [q \in Sinks |-> Owed[q]]
    BY DEF Owed
  <2> QED
    BY <2>4, <2>5, <2>6
<1>15. CASE s \in Listening
  <2>1. got'[s] = Append(g, h) /\ (\A q \in Sinks \ {s} : got'[q] = got[q]) /\ missed' = missed
    BY <1>1, <1>2, <1>5, <1>15 DEF TypeOK
  <2>2. Contents(got'[s]) = Contents(got[s]) \cup B
    BY <1>2, <1>5, <2>1, StreamMore
  <2>3. [q \in Sinks |-> Contents(got'[q])]
        = [[q \in Sinks |-> Contents(got[q])] EXCEPT ![s] = @ \cup B]
    BY <2>1, <2>2
  <2>4. Promised!Arrive(s, B)
    BY <1>6, <1>10, <1>11, <1>13, <1>14, <1>15, <2>1, <2>3 DEF Promised!Arrive, Contents
  <2> QED
    BY <2>4, <1>9
<1>16. CASE s \notin Listening
  <2>1. missed'[s] = Append(m, h) /\ (\A q \in Sinks \ {s} : missed'[q] = missed[q]) /\ got' = got
    BY <1>1, <1>2, <1>5, <1>16 DEF TypeOK
  <2>2. Contents(missed'[s]) = Contents(missed[s]) \cup B
    BY <1>2, <1>5, <2>1, StreamMore
  <2>3. [q \in Sinks |-> Contents(missed'[q])]
        = [[q \in Sinks |-> Contents(missed[q])] EXCEPT ![s] = @ \cup B]
    BY <2>1, <2>2
  <2>4. Promised!Arrive(s, B)
    BY <1>6, <1>10, <1>11, <1>13, <1>14, <1>16, <2>1, <2>3 DEF Promised!Arrive, Contents
  <2> QED
    BY <2>4, <1>9
<1> QED
  BY <1>15, <1>16

---------------------------------------------------------------------------
(* The server's steps. *)

\* What is on its way to a registration is not held for it as well.
LEMMA WireApart ==
  ASSUME IInv, NEW s \in Sinks
  PROVE  Contents(wire[s]) \cap HeldFor(s) = {}
<1>1. Core /\ TypeOK /\ Ordered /\ Delivered
  BY DEF IInv, Core
<1>2. PICK w \in Seq(Seq(Nat)), a \in Seq(Seq(Nat)) : w = wire[s] /\ a = missed[s] \o got[s]
  <2>1. PICK g \in Seq(Seq(Nat)), m \in Seq(Seq(Nat)) : g = got[s] /\ m = missed[s]
    BY <1>1 DEF TypeOK
  <2>2. m \o g \in Seq(Seq(Nat))
    BY ConcatProperties
  <2> QED
    BY <1>1, <2>1, <2>2 DEF TypeOK
<1>3. Contents(w) \subseteq Contents(Stream(s))
  BY <1>1, <1>2, StreamEnd DEF Ordered, Stream
<1>4. CASE Registered(s)
  BY <1>1, <1>2, <1>3, <1>4 DEF Delivered
<1>5. CASE ~Registered(s)
  BY <1>1, <1>5, IsHanging DEF Hanging
<1> QED
  BY <1>4, <1>5

LEMMA AggregateIsGather ==
  ASSUME IInv, Hanging, Hanging', NEW e \in Entities, NEW t \in DataTypes, Aggregate(e, t)
  PROVE  Promised!Gather(<<e, t>>) /\ <<e, t>> \in Channels
<1>1. /\ Core /\ TypeOK /\ stones \in [Proactives -> Seq(Stone)]
      /\ e \in Proactives /\ t \in Types
  BY Names, TypeOfFacts DEF IInv, Core, TypeOK
<1>2. PICK c : c = <<e, t>>
  OBVIOUS
<1>3. c \in Channels
  BY <1>2 DEF Channels
<1>4. PICK list : list = SetUp(stones[e], t)
  OBVIOUS
<1>5. list \in Seq(Stone) /\ Grown(stones[e], list) /\ Has(list, t) /\ ListGood(e, list)
  BY <1>1, <1>4, SetUpGrown, GrownGood DEF Core, ListsGood
<1>6. PICK i \in DOMAIN list : i = StoneOf(list, t) /\ list[i].type = t /\ First(list, i)
  BY <1>5, StoneOfIs
<1>7. PICK old \in Stone : old = list[i]
  BY <1>5
<1>8. PICK stone : stone = [old EXCEPT !.stored = TRUE, !.held = <<>>]
  OBVIOUS
<1>9. stone \in Stone /\ stone.type = t /\ stone.held = <<>> /\ stone.targets = old.targets
  <2>1. <<>> \in Seq(Nat)
    OBVIOUS
  <2> QED
    BY <2>1, <1>6, <1>7, <1>8 DEF Stone
<1>10. PICK new : new = [list EXCEPT ![i] = stone]
  OBVIOUS
<1>11. Changed(list, i, stone, new)
  BY <1>5, <1>6, <1>9, <1>10 DEF Changed
<1>12. /\ DOMAIN new = DOMAIN list /\ new[i] = stone
       /\ \A j \in DOMAIN list : j # i => new[j] = list[j]
  BY <1>11, ChangedList
<1>13. /\ stones' = [stones EXCEPT ![e] = new] /\ up /\ up' = up /\ log' = log /\ wire' = wire
       /\ until' = until /\ sink' = sink /\ got' = got /\ missed' = missed
  <2>1. [list EXCEPT ![i].stored = TRUE, ![i].held = <<>>] = new
    BY <1>5, <1>6, <1>7, <1>8, <1>10
  <2> QED
    BY <1>4, <1>6, <2>1 DEF Aggregate, Serving, client
<1>14. \A s \in Sinks : Registered(s)' <=> Registered(s)
  BY <1>13 DEF Registered
<1>15. ASSUME NEW s \in Sinks, sink[s].channel # c \/ ~HangsOff(s)
       PROVE  HeldFor(s)' = HeldFor(s)
  <2>1. sink[s].channel[1] \in Proactives /\ sink[s].channel = <<sink[s].channel[1], sink[s].channel[2]>>
    BY <1>1, ChannelFacts DEF TypeOK
  <2>2. CASE sink[s].channel[1] # e
    BY <2>1, <2>2, <1>1, <1>13, HeldForIs, HeldForIsNext
  <2>3. CASE sink[s].channel[1] = e
    <3>1. HeldFor(s) = HeldOf(list, s)
      BY <2>3, <1>1, <1>5, HeldForIs, HeldOfGrown
    <3>2. HeldFor(s)' = HeldOf(new, s)
      BY <2>3, <1>1, <1>13, HeldForIsNext
    <3>3. s \notin list[i].targets
      <4> SUFFICES ASSUME s \in list[i].targets
                   PROVE  FALSE
        OBVIOUS
      <4>1. Registered(s) /\ until[s] = Open /\ sink[s].channel = <<e, list[i].type>>
        BY <1>5, TargetOnce
      <4> QED
        BY <4>1, <1>2, <1>6, <1>15 DEF Hanging
    <3>4. HeldOf(new, s) = HeldOf(list, s)
      BY <3>3, <1>7, <1>9, <1>11, ChangedHeld
    <3> QED
      BY <3>1, <3>2, <3>4
  <2> QED
    BY <2>2, <2>3
<1>16. ASSUME NEW s \in Sinks, sink[s].channel = c, HangsOff(s)
       PROVE  HeldFor(s)' = {}
  <2>1. Registered(s) /\ until[s] = Open /\ sink[s].channel[1] = e /\ sink[s].channel[2] = t
    BY <1>2, <1>16 DEF Hanging
  <2>2. s \in list[i].targets
    BY <2>1, <1>1, <1>5, <1>6, HangsOffFirst
  <2>3. \A j \in DOMAIN list : s \in list[j].targets => j = i
    BY <2>2, <1>5, TargetOnce
  <2>4. i \in DOMAIN new /\ s \in new[i].targets /\ \A j \in DOMAIN new : s \in new[j].targets => j = i
    BY <2>2, <2>3, <1>7, <1>9, <1>12
  <2>5. HeldOf(new, s) = Range(new[i].held)
    BY <2>4, HeldOfOne
  <2>6. Range(new[i].held) = {}
    BY <1>9, <1>12 DEF Range
  <2>7. stones'[e] = new
    BY <1>1, <1>13
  <2> QED
    BY <2>1, <2>5, <2>6, <2>7, <1>13, HeldForIsNext
<1>17. Served' = Served /\ ChannelOf' = ChannelOf /\ Listening' = Listening
  BY <1>13, <1>14, SeenSame DEF Listening
<1>18. \A s \in Sinks : Owed[s] = Contents(wire[s]) \cup HeldFor(s)
                        /\ Owed'[s] = Contents(wire[s]) \cup HeldFor(s)'
  BY <1>13 DEF Owed, Contents
<1>19. Promised!Owe({c}, {}, 0)
  <2>1. \A s \in Sinks : ~HangsOff(s) => Owed'[s] = Owed[s]
    BY <1>15, <1>18
  <2>2. ASSUME NEW s \in Sinks, HangsOff(s)
        PROVE  Owed'[s] = (Owed[s] \ (IF sink[s].channel \in {c} THEN HeldFor(s) ELSE {}))
                          \cup (IF sink[s].channel \in {} THEN {0} ELSE {})
    <3>1. CASE sink[s].channel = c
      <4>1. HeldFor(s)' = {} /\ Contents(wire[s]) \cap HeldFor(s) = {}
        BY <2>2, <3>1, <1>16, WireApart
      <4> QED
        BY <3>1, <4>1, <1>18
    <3>2. CASE sink[s].channel # c
      BY <3>2, <1>15, <1>18
    <3> QED
      BY <3>1, <3>2
  <2> QED
    BY <2>1, <2>2, OweIs
<1> QED
  BY <1>2, <1>3, <1>13, <1>17, <1>19 DEF Promised!Gather, Contents

LEMMA RemoveDomainIsStop ==
  ASSUME IInv, RemoveDomain
  PROVE  Promised!Stop
<1>1. /\ Core /\ TypeOK /\ stones \in [Proactives -> Seq(Stone)] /\ Hanging
      /\ \A s \in Sinks : sink[s].channel \in Channels /\ sink[s].channel[1] \in Proactives
  BY ChannelFacts, IsHanging DEF IInv, Core, TypeOK
<1>2. /\ up /\ up' = FALSE /\ log' = log /\ wire' = wire
      /\ sink' = sink /\ got' = got /\ missed' = missed
      /\ \A p \in Proactives : stones'[p] = IF p \in Contexts THEN stones[p] ELSE <<>>
  BY DEF RemoveDomain, Serving, client
<1>3. PICK K : K = Channels \ {c \in Channels : c[1] \in Contexts}
  OBVIOUS
<1>4. \A s \in Sinks : sink[s].channel \in K <=> sink[s].channel[1] \notin Contexts
  BY <1>1, <1>3
<1>5. ASSUME NEW s \in Sinks
      PROVE  /\ HangsOff(s)' <=> HangsOff(s) /\ sink[s].channel \notin K
             /\ HeldFor(s)' = IF sink[s].channel \in K THEN {} ELSE HeldFor(s)
  <2>1. CASE sink[s].channel[1] \in Contexts
    <3>1. stones'[sink[s].channel[1]] = stones[sink[s].channel[1]]
      BY <2>1, <1>1, <1>2
    <3> QED
      BY <2>1, <3>1, <1>2, <1>4, HeldForIs, HeldForIsNext DEF HangsOff
  <2>2. CASE sink[s].channel[1] \notin Contexts
    <3>1. stones'[sink[s].channel[1]] = <<>>
      BY <2>2, <1>1, <1>2
    <3>2. PICK none : none = <<>> /\ DOMAIN none = {}
      OBVIOUS
    <3>3. HeldOf(none, s) = {}
      BY <3>2, HeldOfNone
    <3> QED
      BY <2>2, <3>1, <3>2, <3>3, <1>2, <1>4, HeldForIsNext DEF HangsOff
  <2> QED
    BY <2>1, <2>2
<1>6. \A s \in Sinks : Registered(s)' <=> Registered(s)
  BY <1>2 DEF Registered
<1>7. ChannelOf' = ChannelOf /\ Listening' = Listening
  BY <1>2, <1>6 DEF ChannelOf, Listening, Registered
<1>8. Served' = Served \ Promised!On(K)
  <2>1. \A s \in Served : s \in Promised!On(K) <=> sink[s].channel \in K
    BY <1>1 DEF Promised!On, Served, ChannelOf, Hanging
  <2> QED
    BY <2>1, <1>5 DEF Served, Promised!On
<1>9. \A s \in Sinks : Owed[s] = Contents(wire[s]) \cup HeldFor(s)
                       /\ Owed'[s] = Contents(wire[s]) \cup HeldFor(s)'
  BY <1>2 DEF Owed, Contents
<1>10. Promised!Owe(K, {}, 0)
  <2>1. \A s \in Sinks : ~HangsOff(s) => Owed'[s] = Owed[s]
    BY <1>1, <1>5, <1>9 DEF Hanging
  <2>2. ASSUME NEW s \in Sinks, HangsOff(s)
        PROVE  Owed'[s] = (Owed[s] \ (IF sink[s].channel \in K THEN HeldFor(s) ELSE {}))
                          \cup (IF sink[s].channel \in {} THEN {0} ELSE {})
    <3>1. Contents(wire[s]) \cap HeldFor(s) = {}
      BY WireApart
    <3> QED
      BY <3>1, <1>5, <1>9
  <2> QED
    BY <2>1, <2>2, OweIs
<1> QED
  BY <1>2, <1>3, <1>7, <1>8, <1>10 DEF Promised!Stop, Contents

LEMMA FireIsSend ==
  ASSUME IInv, Hanging, Hanging', Fire
  PROVE  \E e \in LogEntry : Promised!Send(e)
<1>1. PICK e, n, t, list, i, old, r, stone, new, D :
             Fires(e, n, t, list, i, old, r, stone, new, D)
  BY FireIs
<1>2. /\ Core /\ TypeOK
      /\ \A s \in Sinks : sink[s].channel \in Channels
      /\ \A s \in Sinks : wire[s] \in Seq(Seq(Nat))
  BY DEF IInv, Core, TypeOK
<1>3. /\ todo # <<>> /\ e \in LogEntry /\ n = Len(log) + 1 /\ n \in Nat /\ n < Open
      /\ log' = Append(log, e) /\ up' = up /\ sink' = sink /\ got' = got /\ missed' = missed
      /\ r.out \in Seq(Seq(Nat)) /\ e.of # "domain"
      /\ \A s \in Sinks : until'[s] = IF e.what = "delete" /\ s \in Targets(list) THEN n ELSE until[s]
  BY <1>1 DEF Fires, Passed
<1>4. up
  BY <1>2, <1>3 DEF Core, Gone
<1>5. PICK K, L : /\ K = {c \in Channels : e = Event(c[1], "delete")}
                  /\ L = {c \in Channels : Concerns(e, c)}
  OBVIOUS
<1>6. ASSUME NEW s \in Sinks
      PROVE  /\ sink[s].channel \in K <=> e.what = "delete" /\ sink[s].channel[1] = e.of
             /\ sink[s].channel \in L <=> Concerns(e, sink[s].channel)
  BY <1>2, <1>3, <1>5 DEF Event, LogEntry
<1>7. \A s \in Sinks : Registered(s)' <=> Registered(s)
  BY <1>3 DEF Registered
<1>8. ChannelOf' = ChannelOf /\ Listening' = Listening
  BY <1>3, <1>7 DEF ChannelOf, Listening, Registered
<1>9. /\ \A s \in Sinks : s \in Targets(list) <=> HangsOff(s) /\ sink[s].channel[1] = e.of
      /\ \A s \in Sinks : s \in old.targets \/ s \in D => HangsOff(s)
  BY <1>1, FireTargets DEF Hanging
<1>10. \A s \in Sinks : HangsOff(s)' <=> HangsOff(s) /\ sink[s].channel \notin K
  BY <1>3, <1>6, <1>7, <1>9, OpenFacts DEF Hanging, Open
<1>11. Served' = Served \ Promised!On(K)
  <2>1. \A s \in Served : s \in Promised!On(K) <=> sink[s].channel \in K
    BY DEF Promised!On, Served, ChannelOf, Hanging
  <2> QED
    BY <2>1, <1>10 DEF Served, Promised!On
<1>12. ASSUME NEW s \in Sinks
       PROVE  /\ Owed[s] = Contents(wire[s]) \cup HeldFor(s)
              /\ Owed'[s] = Contents(wire[s]) \cup Contents(Added(s, e, n, old, r, D)) \cup HeldFor(s)'
  <2>1. PICK added \in Seq(Seq(Nat)) : /\ added = Added(s, e, n, old, r, D)
                                       /\ wire'[s] = wire[s] \o added
    BY <1>1, FireAdds
  <2>2. PICK w \in Seq(Seq(Nat)) : w = wire[s]
    BY <1>2
  <2>3. PICK more : more = w \o added
    OBVIOUS
  <2>4. Contents(more) = Contents(w) \cup Contents(added)
    <3>1. PICK S : S = Seq(Nat)
      OBVIOUS
    <3>2. w \in Seq(S) /\ added \in Seq(S)
      BY <3>1
    <3>3. GoesOn(w, added, more)
      BY <2>3, <3>2, StreamGoesOn
    <3> QED
      BY <3>3 DEF GoesOn
  <2>5. Owed[s] = Contents(w) \cup HeldFor(s)
    BY <2>2 DEF Owed
  <2>6. Owed'[s] = Contents(wire'[s]) \cup HeldFor(s)'
    BY DEF Owed, Contents
  <2>7. wire'[s] = more
    BY <2>1, <2>2, <2>3
  <2> QED
    BY <2>1, <2>2, <2>4, <2>5, <2>6, <2>7
<1>13. Promised!Owe(K, L, n)
  <2>1. ASSUME NEW s \in Sinks, ~HangsOff(s)
        PROVE  Owed'[s] = Owed[s]
    <3>1. Added(s, e, n, old, r, D) = <<>>
      BY <2>1, <1>9 DEF Added
    <3>2. Contents(Added(s, e, n, old, r, D)) = {}
      BY <3>1, Single
    <3>3. HeldFor(s) = {} /\ HeldFor(s)' = {}
      BY <2>1, <1>10 DEF Hanging
    <3> QED
      BY <3>2, <3>3, <1>12
  <2>2. ASSUME NEW s \in Sinks, HangsOff(s)
        PROVE  Owed'[s] = (Owed[s] \ (IF sink[s].channel \in K THEN HeldFor(s) ELSE {}))
                          \cup (IF sink[s].channel \in L THEN {n} ELSE {})
    <3>1. Registered(s) /\ until[s] = Open
      BY <2>2 DEF Hanging
    <3>2. FireOwes(s, e, n, list, old, r, D)
      BY <1>1, <3>1, FireOwesIt
    <3>3. PICK added, fresh : /\ added = Added(s, e, n, old, r, D)
                              /\ fresh = IF sink[s].channel \in L THEN {n} ELSE {}
      OBVIOUS
    <3>4. fresh = IF until[s] = Open /\ Concerns(e, sink[s].channel) THEN {n} ELSE {}
      BY <3>1, <3>3, <1>6
    <3>5. \/ /\ Contents(added) = fresh
             /\ HeldFor(s)' = IF e.what = "delete" /\ sink[s].channel[1] = e.of
                              THEN {} ELSE HeldFor(s)
          \/ /\ e.what # "delete" /\ fresh = {n} /\ added = r.out
             /\ HeldFor(s) = Range(old.held) /\ HeldFor(s)' = Range(r.held)
      BY <3>2, <3>3, <3>4 DEF FireOwes
    <3>6. Contents(wire[s]) \cap HeldFor(s) = {}
      BY WireApart
    <3>7. n \notin HeldFor(s)
      BY <3>2, <1>3 DEF FireOwes
    <3>8. CASE /\ Contents(added) = fresh
               /\ HeldFor(s)' = IF e.what = "delete" /\ sink[s].channel[1] = e.of
                                THEN {} ELSE HeldFor(s)
      BY <3>3, <3>6, <3>8, <1>6, <1>12
    <3>9. CASE /\ e.what # "delete" /\ fresh = {n} /\ added = r.out
               /\ HeldFor(s) = Range(old.held) /\ HeldFor(s)' = Range(r.held)
      <4>1. PICK h \in Seq(Nat) : h = old.held
        BY <1>1 DEF Fires, Stone
      <4>2. \/ r.out = <<>> /\ r.held = Append(h, n)
            \/ r.held = <<>> /\ Contents(r.out) = Range(h) \cup {n}
        BY <1>1, <4>1 DEF Fires, Passed
      <4>3. Range(Append(h, n)) = Range(h) \cup {n}
        BY <1>3, AppendIs
      <4>4. Contents(<<>>) = {} /\ Range(<<>>) = {}
        <5>1. PICK none : none = <<>> /\ DOMAIN none = {}
          OBVIOUS
        <5>2. Range(none) = {}
          BY <5>1 DEF Range
        <5> QED
          BY <5>1, <5>2, Single
      <4>5. Contents(added) \cup HeldFor(s)' = HeldFor(s) \cup {n}
        BY <3>9, <4>1, <4>2, <4>3, <4>4
      <4>6. Owed'[s] = Owed[s] \cup {n}
        BY <3>3, <4>5, <1>12
      <4>7. sink[s].channel \notin K
        BY <3>9, <1>6
      <4> QED
        BY <3>3, <3>9, <4>6, <4>7
    <3> QED
      BY <3>5, <3>8, <3>9
  <2> QED
    BY <2>1, <2>2, <1>3, OweIs
<1>14. Promised!Send(e)
  BY <1>3, <1>4, <1>5, <1>8, <1>11, <1>13 DEF Promised!Send, Contents
<1> QED
  BY <1>3, <1>14

\* The stone a registration is granted: the first of its type, with what it holds.
LEMMA GetStoneIsGrant ==
  ASSUME IInv, Hanging, Hanging', NEW s \in Sinks, GetStone(s), up
  PROVE  \E c \in Channels : Promised!Grant(s, c)
<1>1. /\ Core /\ TypeOK /\ SinksGood /\ stones \in [Proactives -> Seq(Stone)]
      /\ \A q \in Sinks : sink[q].channel \in Channels /\ sink[q].channel[1] \in Proactives
  BY ChannelFacts DEF IInv, Core, TypeOK
<1>2. PICK c \in Channels, o \in Proactives, t \in Types :
        c = sink[s].channel /\ o = c[1] /\ t = c[2] /\ c = <<o, t>>
  BY <1>1, ChannelFacts
<1>3. PICK base : base = IF o \in Objects THEN Constructed(o) ELSE stones[o]
  OBVIOUS
<1>4. base \in Seq(Stone) /\ Grown(stones[o], base)
  BY <1>1, <1>2, <1>3, ConstructedGrown, GrownSelf
<1>5. PICK list : list = SetUp(base, t)
  OBVIOUS
<1>6. list \in Seq(Stone) /\ Grown(stones[o], list) /\ Has(list, t) /\ ListGood(o, list)
  <2>1. list \in Seq(Stone) /\ Grown(base, list) /\ Has(list, t)
    BY <1>4, <1>5, SetUpGrown
  <2>2. stones[o] \in Seq(Stone) /\ ListGood(o, stones[o])
    BY <1>1 DEF Core, ListsGood
  <2>3. Grown(stones[o], list)
    BY <2>1, <2>2, <1>4, GrownTwice
  <2> QED
    BY <2>1, <2>2, <2>3, GrownGood
<1>7. PICK i \in DOMAIN list : i = StoneOf(list, t) /\ list[i].type = t /\ First(list, i)
  BY <1>6, StoneOfIs
<1>8. PICK old \in Stone : old = list[i]
  BY <1>6
<1>9. PICK stone : stone = [old EXCEPT !.targets = @ \cup {s}]
  OBVIOUS
<1>10. /\ stone \in Stone /\ stone.type = t /\ stone.held = old.held
       /\ stone.targets = old.targets \cup {s}
  BY <1>7, <1>8, <1>9 DEF Stone
<1>11. PICK new : new = [list EXCEPT ![i] = stone]
  OBVIOUS
<1>12. Changed(list, i, stone, new)
  BY <1>6, <1>7, <1>10, <1>11 DEF Changed
<1>13. /\ DOMAIN new = DOMAIN list /\ new[i] = stone
       /\ \A j \in DOMAIN list : j # i => new[j] = list[j]
  BY <1>12, ChangedList
<1>14. /\ stones' = [stones EXCEPT ![o] = new]
       /\ sink[s].state = "asked" /\ sink' = [sink EXCEPT ![s].state = "ok"]
       /\ UNCHANGED <<up, log, wire, got, missed, until>>
  <2>1. [list EXCEPT ![i].targets = @ \cup {s}] = new
    BY <1>6, <1>7, <1>8, <1>9, <1>11
  <2> QED
    BY <1>2, <1>3, <1>5, <1>7, <1>8, <1>9, <2>1 DEF GetStone, Sink
<1>15. /\ sink'[s].state = "ok" /\ sink'[s].channel = c
       /\ \A q \in Sinks \ {s} : sink'[q] = sink[q]
  BY <1>1, <1>2, <1>14 DEF TypeOK
<1>16. /\ ~Registered(s) /\ Registered(s)' /\ until[s] = Open /\ wire[s] = <<>>
       /\ \A q \in Sinks \ {s} : Registered(q)' <=> Registered(q)
  BY <1>1, <1>14, <1>15 DEF Registered, SinksGood
<1>17. ChannelOf[s] = <<>> /\ ChannelOf' = [ChannelOf EXCEPT ![s] = c]
  <2>1. ChannelOf[s] = <<>> /\ ChannelOf'[s] = c
    BY <1>15, <1>16 DEF ChannelOf
  <2>2. \A q \in Sinks \ {s} : ChannelOf'[q] = ChannelOf[q]
    BY <1>15, <1>16 DEF ChannelOf
  <2>3. ChannelOf' = [q \in Sinks |-> ChannelOf'[q]] /\ ChannelOf = [q \in Sinks |-> ChannelOf[q]]
    BY DEF ChannelOf
  <2> QED
    BY <2>1, <2>2, <2>3
<1>18. Served' = Served \cup {s} /\ Listening' = Listening
  <2>1. Served' = Served \cup {s}
    BY <1>14, <1>16 DEF Served, Hanging, Open
  <2>2. Listening' = Listening
    BY <1>14, <1>15 DEF Listening
  <2> QED
    BY <2>1, <2>2
<1>19. PICK X : X = Range(old.held)
  OBVIOUS
<1>20. Promised!Gathers(c, X)
  BY <1>1, <1>2, <1>6, <1>7, <1>8, <1>19, GathersStone
<1>21. HeldFor(s)' = X
  <2>1. \A j \in DOMAIN list : s \notin list[j].targets
    BY <1>6, <1>16, TargetOnce
  <2>2. i \in DOMAIN new /\ s \in new[i].targets /\ \A j \in DOMAIN new : s \in new[j].targets => j = i
    BY <2>1, <1>7, <1>10, <1>13
  <2>3. HeldOf(new, s) = Range(new[i].held)
    BY <2>2, HeldOfOne
  <2>4. stones'[o] = new
    BY <1>1, <1>14
  <2> QED
    BY <2>3, <2>4, <1>2, <1>10, <1>13, <1>15, <1>19, HeldForIsNext
<1>22. ASSUME NEW q \in Sinks, q # s
       PROVE  HeldFor(q)' = HeldFor(q)
  <2>1. CASE sink[q].channel[1] # o
    BY <2>1, <1>1, <1>14, <1>15, <1>22, HeldForIs, HeldForIsNext
  <2>2. CASE sink[q].channel[1] = o
    <3>1. HeldFor(q) = HeldOf(list, q)
      BY <2>2, <1>1, <1>6, HeldForIs, HeldOfGrown
    <3>2. HeldFor(q)' = HeldOf(new, q)
      BY <2>2, <1>1, <1>14, <1>15, <1>22, HeldForIsNext
    <3>3. \A j \in DOMAIN list : /\ q \in new[j].targets <=> q \in list[j].targets
                                 /\ new[j].held = list[j].held
      BY <1>7, <1>8, <1>10, <1>13, <1>22
    <3>4. HeldOf(new, q) = HeldOf(list, q)
      <4>1. {j \in DOMAIN new : q \in new[j].targets} = {j \in DOMAIN list : q \in list[j].targets}
        BY <3>3, <1>13
      <4>2. \A j \in {k \in DOMAIN list : q \in list[k].targets} : new[j].held = list[j].held
        BY <3>3
      <4> QED
        BY <4>1, <4>2 DEF HeldOf
    <3> QED
      BY <3>1, <3>2, <3>4
  <2> QED
    BY <2>1, <2>2
<1>23. Owed' = [Owed EXCEPT ![s] = X]
  <2>1. Contents(wire[s]) = {}
    BY <1>16, Single
  <2>2. Owed'[s] = X
    BY <2>1, <1>14, <1>21 DEF Owed, Contents
  <2>3. \A q \in Sinks \ {s} : Owed'[q] = Owed[q]
    BY <1>14, <1>22 DEF Owed, Contents
  <2>4. Owed' = [q \in Sinks |-> Owed'[q]] /\ Owed = [q \in Sinks |-> Owed[q]]
    BY DEF Owed
  <2> QED
    BY <2>2, <2>3, <2>4
<1>24. X \in SUBSET Promised!Concerning(c)
  BY <1>20 DEF Promised!Gathers
<1>25. Promised!Grant(s, c)
  BY <1>14, <1>17, <1>18, <1>20, <1>23, <1>24 DEF Promised!Grant, Contents
<1> QED
  BY <1>25

\* Nothing is granted, sent or owed to begin with.
LEMMA InitPromised == Init => Promised!Init
<1> SUFFICES ASSUME Init
             PROVE  Promised!Init
  OBVIOUS
<1>1. Core /\ Hanging
  BY InitInv, IsHanging DEF IInv
<1>2. \A s \in Sinks : /\ ~Registered(s) /\ sink[s].state = "idle"
                       /\ wire[s] = <<>> /\ got[s] = <<>> /\ missed[s] = <<>>
  BY DEF Init, Registered
<1>3. Contents(<<>>) = {}
  BY Single
<1>4. ChannelOf = [s \in Sinks |-> <<>>] /\ Served = {} /\ Listening = {}
  BY <1>1, <1>2 DEF ChannelOf, Served, Listening, Hanging
<1>5. /\ Owed = [s \in Sinks |-> {}]
      /\ [s \in Sinks |-> Contents(got[s])] = [s \in Sinks |-> {}]
      /\ [s \in Sinks |-> Contents(missed[s])] = [s \in Sinks |-> {}]
  BY <1>1, <1>2, <1>3 DEF Owed, Hanging
<1> QED
  BY <1>4, <1>5 DEF Init, Promised!Init

\* Every step of the server and of the clients is one of the promise, or is not seen.
LEMMA StepPromised ==
  ASSUME IInv, Hanging, Hanging', [Next]_vars
  PROVE  [Promised!Next]_(Promised!vars)
<1>1. Core /\ TypeOK
  BY DEF IInv, Core
<1>2. CASE Fire
  BY <1>2, FireIsSend DEF Promised!Next
<1>3. CASE Submits
  BY <1>1, <1>3, SubmitsHides
<1>4. ASSUME NEW e \in Entities, NEW t \in DataTypes, Aggregate(e, t)
      PROVE  Promised!Next
  BY <1>4, AggregateIsGather DEF Promised!Next
<1>5. CASE RemoveDomain
  BY <1>5, RemoveDomainIsStop DEF Promised!Next
<1>6. ASSUME NEW s \in Sinks, GetStone(s)
      PROVE  [Promised!Next]_(Promised!vars)
  <2>1. CASE up
    BY <1>6, <2>1, GetStoneIsGrant DEF Promised!Next
  <2>2. CASE ~up
    <3>1. /\ sink[s].state = "asked" /\ Sink(s, "error")
          /\ UNCHANGED <<server, got, missed, wire, since, until>>
      BY <1>6, <2>2 DEF GetStone, server
    <3> QED
      BY <3>1, <1>1, StateHides
  <2> QED
    BY <2>1, <2>2
<1>7. ASSUME NEW s \in Sinks, Client(s)
      PROVE  [Promised!Next]_(Promised!vars)
  <2>1. ASSUME NEW channel \in Channels, Register(s, channel)
        PROVE  UNCHANGED Promised!vars
    BY <2>1, <1>1, RegisterHides
  <2>2. CASE Associate(s)
    <3>1. CASE sink[s].state = "ok" /\ Sink(s, "on")
      BY <2>2, <3>1, <1>1, AssociateIsListen DEF Associate, Promised!Next
    <3>2. CASE sink[s].state = "error" /\ Sink(s, "failed")
      BY <2>2, <3>2, <1>1, StateHides DEF Associate
    <3> QED
      BY <2>2, <3>1, <3>2 DEF Associate
  <2>3. CASE Deliver(s)
    BY <2>3, DeliverIsArrive DEF Promised!Next
  <2>4. CASE Cancel(s)
    BY <2>4, <1>1, StateHides DEF Cancel
  <2> QED
    BY <1>7, <2>1, <2>2, <2>3, <2>4 DEF Client
<1>8. CASE UNCHANGED vars
  <2>1. UNCHANGED <<up, stones, log, sink, wire, got, missed, until>>
    BY <1>8 DEF vars, server, client
  <2>2. \A s \in Sinks : HeldFor(s)' = HeldFor(s) /\ (Registered(s)' <=> Registered(s))
    BY <2>1, HeldSame DEF Registered
  <2> QED
    BY <2>1, <2>2, Hidden
<1>9. CASE Next
  <2>1. \/ Fire \/ Submits \/ RemoveDomain
        \/ \E e \in Entities, t \in DataTypes : Aggregate(e, t)
        \/ \E s \in Sinks : GetStone(s) \/ Client(s)
    BY <1>9 DEF Next, Request, Submits
  <2> QED
    BY <2>1, <1>2, <1>3, <1>4, <1>5, <1>6, <1>7
<1> QED
  BY <1>8, <1>9

\* Stones that are set up twice, replaced and deleted, buckets, and handlers that come after
\* the first events notwithstanding, a registration gets what it is promised: each event
\* that concerns its channel from the grant on, once and in order, but for the last few of
\* an aggregation that is replaced or deleted (Proactive.cc, ContextBindable.cc,
\* do_registration in client_entity.c).
THEOREM PromisesKept == Spec => KeepsPromises
<1>1. IInv => Hanging
  BY IsHanging DEF IInv
<1>2. IInv /\ Hanging /\ Hanging' /\ [Next]_vars => [Promised!Next]_(Promised!vars)
  BY StepPromised
<1>3. Spec => Promised!Spec
  BY <1>1, <1>2, InitPromised, Invariance, PTL DEF Spec, Promised!Spec
<1> QED
  BY <1>3 DEF KeepsPromises
=============================================================================
