-------------------------- MODULE NamespaceProofs --------------------------
(***************************************************************************)
(* Directory implements Namespace, for every set of names, every bound on  *)
(* ids, all paths, and careful and careless clients alike.                 *)
(*                                                                         *)
(* Every step of a request does one of a few things to the heap (Doing),   *)
(* and each of them is an action of Namespace or leaves the view as it is. *)
(* Besides the invariant of Directory this needs to know that names are    *)
(* given by contexts only, and that a domain lists its entities (Classes). *)
(***************************************************************************)
EXTENDS DirectoryProofs

\* The contexts a request holds are contexts.
HoldsContexts(r) ==
  /\ r.to # Null => kind[r.to] = "context"
  /\ r.pc = "walk" /\ r.ctx # Null => kind[r.ctx] = "context"

\* A domain's list never lets an entity go.
EntitiesListed == entity_list = {o \in Ids : kind[o] = "entity"}

\* What announced its deletion was there, and is gone.
DeletedGone == \A o \in deleted : kind[o] # "none" /\ o \notin live

Classes ==
  /\ kind[Root] = "context" /\ kind[DomainId] = "domain"
  /\ EntitiesListed /\ DeletedGone
  /\ HoldsContexts(req)

\* All a step may do to the heap.
Doing ==
  \/ UNCHANGED heap
  \/ \E type \in {"context", "entity"}, p \in live, n \in Names, real \in BOOLEAN :
       kind[p] = "context" /\ name_map[p][n] = Null /\ NewObject(type, p, n, real)
  \/ \E o \in placeholder : MakeReal(o)
  \/ \E c, o \in live, n \in Names : kind[c] = "context" /\ Bind(c, n, o)
  \/ \E c \in live, n \in Names :
       kind[c] = "context" /\ name_map[c][n] \in live /\ Unbind(c, n)
  \/ \E o \in live : Delete({o}) /\ deleted' = deleted \cup {o}
  \/ /\ Root \in live /\ entity_list \subseteq live
     /\ Delete(entity_list \cup {Root}) /\ UNCHANGED deleted

(***************************************************************************)
(* What the steps keep.                                                    *)
(***************************************************************************)

\* An object keeps its class.
LEMMA KindsKept ==
  ASSUME HeapInv, Doing
  PROVE  \A o \in Ids : kind[o] # "none" => kind'[o] = kind[o]
<1>a. HeapTypeOK /\ Fresh
  BY DEF HeapInv
<1>1. \A type, p, n, real : NewObject(type, p, n, real) =>
        \A o \in Ids : kind[o] # "none" => kind'[o] = kind[o]
  <2>1. counter \in Ids => kind[counter] = "none"
    BY <1>a, IdFacts DEF Fresh
  <2> QED
    BY <1>a, <2>1 DEF NewObject, NewId, HeapTypeOK
<1>2. CASE \E type \in {"context", "entity"}, p \in live, n \in Names, real \in BOOLEAN :
             kind[p] = "context" /\ name_map[p][n] = Null /\ NewObject(type, p, n, real)
  BY <1>1, <1>2
<1>3. CASE kind' = kind
  BY <1>3
<1>4. \/ kind' = kind
      \/ \E type \in {"context", "entity"}, p \in live, n \in Names, real \in BOOLEAN :
           kind[p] = "context" /\ name_map[p][n] = Null /\ NewObject(type, p, n, real)
  BY DEF Doing, heap, MakeReal, Bind, Unbind, Delete
<1> QED
  BY <1>2, <1>3, <1>4

\* The domain lists its entities.
LEMMA ListsKept ==
  ASSUME HeapInv, EntitiesListed, Doing
  PROVE  EntitiesListed'
<1>a. HeapTypeOK /\ Fresh
  BY DEF HeapInv
<1>1. ASSUME NEW type \in {"context", "entity"}, NEW p \in live, NEW n \in Names,
             NEW real \in BOOLEAN, name_map[p][n] = Null, NewObject(type, p, n, real)
      PROVE  EntitiesListed'
  <2>1. /\ counter \in Ids \ live
        /\ live' = live \cup {counter}
        /\ kind' = [kind EXCEPT ![counter] = type]
        /\ entity_list' = IF type = "entity" THEN entity_list \cup {counter} ELSE entity_list
    BY <1>1, NewObjectStep DEF NewObject, NewId
  <2>2. kind[counter] = "none"
    BY <1>a, <2>1, IdFacts DEF Fresh
  <2> QED
    BY <1>a, <2>1, <2>2 DEF HeapTypeOK, EntitiesListed
<1>2. CASE kind' = kind /\ entity_list' = entity_list
  BY <1>2 DEF EntitiesListed
<1>3. \/ kind' = kind /\ entity_list' = entity_list
      \/ \E type \in {"context", "entity"}, p \in live, n \in Names, real \in BOOLEAN :
           kind[p] = "context" /\ name_map[p][n] = Null /\ NewObject(type, p, n, real)
  BY DEF Doing, heap, MakeReal, Bind, Unbind, Delete
<1> QED
  BY <1>1, <1>2, <1>3

\* A deletion is announced by what goes.
LEMMA GoneKept ==
  ASSUME HeapInv, DeletedGone, Doing
  PROVE  DeletedGone'
<1>a. HeapTypeOK /\ Fresh
  BY DEF HeapInv
<1>b. \A o \in Ids : kind[o] # "none" => kind'[o] = kind[o]
  BY KindsKept
<1>1. ASSUME NEW type \in {"context", "entity"}, NEW p \in live, NEW n \in Names,
             NEW real \in BOOLEAN, name_map[p][n] = Null, NewObject(type, p, n, real)
      PROVE  DeletedGone'
  <2>1. /\ counter \in Ids \ live /\ live' = live \cup {counter} /\ deleted' = deleted
    BY <1>1, NewObjectStep DEF NewObject, NewId
  <2>2. kind[counter] = "none"
    BY <1>a, <2>1, IdFacts DEF Fresh
  <2> QED
    BY <1>a, <1>b, <2>1, <2>2 DEF HeapTypeOK, DeletedGone
<1>2. ASSUME NEW o \in live, Delete({o}), deleted' = deleted \cup {o}
      PROVE  DeletedGone'
  <2>1. o \in Ids /\ kind[o] # "none" /\ live' = live \ {o} /\ kind' = kind
    BY <1>a, <1>2 DEF HeapTypeOK, Fresh, Delete
  <2> QED
    BY <1>2, <2>1 DEF DeletedGone
<1>3. CASE kind' = kind /\ deleted' = deleted /\ live' \subseteq live
  BY <1>3 DEF DeletedGone
<1>4. \/ kind' = kind /\ deleted' = deleted /\ live' \subseteq live
      \/ \E o \in live : Delete({o}) /\ deleted' = deleted \cup {o}
      \/ \E type \in {"context", "entity"}, p \in live, n \in Names, real \in BOOLEAN :
           kind[p] = "context" /\ name_map[p][n] = Null /\ NewObject(type, p, n, real)
  BY DEF Doing, heap, MakeReal, Bind, Unbind, Delete
<1> QED
  BY <1>1, <1>2, <1>3, <1>4

\* The end of a request, and a step in which the server stops.
LEMMA RestHolds ==
  ASSUME IInv, Classes,
         \/ \E why : Crash(why)
         \/ \E status, id : Answer(status, id) /\ Doing
  PROVE  Doing /\ HoldsContexts(req)'
<1>1. CASE \E why : Crash(why)
  BY <1>1 DEF Crash, heap, Doing, Classes, HoldsContexts
<1>2. CASE \E status, id : Answer(status, id) /\ Doing
  BY <1>2 DEF Answer, Idle, HoldsContexts
<1> QED
  BY <1>1, <1>2

\* A walk that enters at a context, or at the root for a null one.
LEMMA WalkingHolds ==
  ASSUME HeapInv, Classes, UNCHANGED heap, NEW r \in Request, r.to # Null => kind[r.to] = "context",
         NEW base \in Ptr, base # Null => kind[base] = "context", NEW path \in Seq(Names),
         NEW to \in Ptr,
         req' = [Walking(r, base, path) EXCEPT !.base = to] \/ req' = Walking(r, base, path)
  PROVE  Doing /\ HoldsContexts(req)'
<1>1. PICK w \in Request : w = Walking(r, base, path)
  BY WalkingType
<1>2. w.to = r.to /\ w.ctx = IF base = Null THEN Root ELSE base
  BY <1>1, IdFacts DEF Walking, Request
<1>3. req'.to = w.to /\ req'.ctx = w.ctx
  BY <1>1 DEF Request
<1>4. kind' = kind
  BY DEF heap
<1> QED
  BY <1>2, <1>3, <1>4 DEF HoldsContexts, Classes, Doing

\* What a client sends with a request.
LEMMA ReceiveHolds ==
  ASSUME IInv, Classes, NEW r \in Request, r.to # Null => kind[r.to] = "context",
         NEW base \in KnownContexts, NEW path \in Seq(Names), Receive(r, base, path)
  PROVE  Doing /\ HoldsContexts(req)'
<1>1. CASE Crash("null")
  BY <1>1, RestHolds
<1>2. CASE /\ req' = [Walking(r, Deref(base), path) EXCEPT !.base = base]
           /\ UNCHANGED heap
  <2>1. PICK b : b = Deref(base)
    OBVIOUS
  <2>2. b \in Ptr /\ base \in Ptr /\ (b # Null => kind[b] = "context")
    BY <2>1, IdFacts DEF Deref, KnownContexts
  <2> QED
    BY <1>2, <2>1, <2>2, WalkingHolds DEF IInv
<1> QED
  BY <1>1, <1>2 DEF Receive

\* A bind goes on to its new name.
LEMMA ToLinkHolds ==
  ASSUME IInv, Classes, NEW r \in Request, r.to # Null => kind[r.to] = "context",
         NEW src \in live, ToLink(r, src)
  PROVE  Doing /\ HoldsContexts(req)'
<1>1. CASE Crash("null")
  BY <1>1, RestHolds
<1>2. CASE ~(Len(r.link) < 2)
  <2> DEFINE q == [r EXCEPT !.goal = "create", !.type = "context", !.src = src]
  <2>1. PICK b : b = IF r.op = "bind_context" THEN Null ELSE Deref(r.to)
    OBVIOUS
  <2>2. req' = Walking(q, b, Front(r.link)) /\ UNCHANGED heap
    BY <1>2, <2>1 DEF ToLink
  <2>3. live \subseteq Ids
    BY DEF IInv, HeapInv, HeapTypeOK
  <2>4. q \in Request /\ q.to = r.to
    BY <2>3, IdFacts DEF Request, Goals
  <2>5. b \in Ptr /\ (b # Null => kind[b] = "context")
    BY <2>1, <2>3, IdFacts DEF Deref
  <2>6. Front(r.link) \in Seq(Names)
    <3>1. r.link \in Seq(Names)
      BY DEF Request
    <3>2. \A i \in 1 .. Len(r.link) - 1 : r.link[i] \in Names
      BY <3>1, ElementOfSeq, LenProperties
    <3> QED
      BY <1>2, <3>1, <3>2, LenProperties, SubSeqProperties DEF Front
  <2> HIDE DEF q
  <2> QED
    BY <2>2, <2>4, <2>5, <2>6, WalkingHolds DEF IInv
<1> QED
  BY <1>1, <1>2 DEF ToLink


(***************************************************************************)
(* Every step does one of these things.                                    *)
(***************************************************************************)

\* The requests that begin with Receive.
LEMMA ArrivalHolds ==
  ASSUME IInv, Classes, NEW base \in KnownContexts, NEW path \in Seq(Names),
         NEW type \in {"context", "entity"}, NEW goal \in {"create", "find"},
         NEW op \in {"unbind", "remove_entity"},
         \/ CreateContext(base, path) \/ CreateEntity(base, path) \/ GetStone(type, base, path)
         \/ EntityData(goal, base, path) \/ Resolve(base, path)
         \/ UnbindName(op, base, path) \/ RemoveContextByName(base, path)
  PROVE  Doing /\ HoldsContexts(req)'
<1>1. \/ \E r \in Request : r.to = Null /\ Receive(r, base, path)
      \/ Answer(-1, Null) /\ UNCHANGED heap
  <2>1. CASE CreateContext(base, path)
    <3> DEFINE r == [Idle EXCEPT !.op = "create_context", !.goal = "create"]
    <3>1. r \in Request /\ r.to = Null
      BY IdFacts, EmptySeq DEF Idle, Request, Ops, Goals
    <3>2. Receive(r, base, path)
      BY <2>1 DEF CreateContext
    <3> HIDE DEF r
    <3> QED
      BY <3>1, <3>2
  <2>2. CASE CreateEntity(base, path)
    <3> DEFINE r == [Idle EXCEPT !.op = "create_entity", !.goal = "create", !.type = "entity"]
    <3>1. r \in Request /\ r.to = Null
      BY IdFacts, EmptySeq DEF Idle, Request, Ops, Goals
    <3>2. Receive(r, base, path)
      BY <2>2 DEF CreateEntity
    <3> HIDE DEF r
    <3> QED
      BY <3>1, <3>2
  <2>3. CASE GetStone(type, base, path)
    <3> DEFINE r == [Idle EXCEPT !.op = "get_stone", !.goal = "create", !.type = type,
                                 !.holders = TRUE]
    <3>1. r \in Request /\ r.to = Null
      BY IdFacts, EmptySeq DEF Idle, Request, Ops, Goals
    <3>2. Receive(r, base, path) \/ (Answer(-1, Null) /\ UNCHANGED heap)
      BY <2>3 DEF GetStone
    <3> HIDE DEF r
    <3> QED
      BY <3>1, <3>2
  <2>4. CASE EntityData(goal, base, path)
    <3> DEFINE r == [Idle EXCEPT !.op = "entity_data", !.goal = goal, !.type = "entity"]
    <3>1. r \in Request /\ r.to = Null
      BY IdFacts, EmptySeq DEF Idle, Request, Ops, Goals
    <3>2. Receive(r, base, path)
      BY <2>4 DEF EntityData
    <3> HIDE DEF r
    <3> QED
      BY <3>1, <3>2
  <2>5. CASE Resolve(base, path) \/ RemoveContextByName(base, path)
    <3>1. PICK s \in {"resolve", "remove_context"} : Receive([Idle EXCEPT !.op = s], base, path)
      BY <2>5 DEF Resolve, RemoveContextByName
    <3> DEFINE r == [Idle EXCEPT !.op = s]
    <3>2. r \in Request /\ r.to = Null
      BY IdFacts, EmptySeq DEF Idle, Request, Ops, Goals
    <3>3. Receive(r, base, path)
      BY <3>1
    <3> HIDE DEF r
    <3> QED
      BY <3>2, <3>3
  <2>6. CASE UnbindName(op, base, path)
    <3> DEFINE r == [Idle EXCEPT !.op = op, !.goal = "unbind"]
    <3>1. r \in Request /\ r.to = Null
      BY IdFacts, EmptySeq DEF Idle, Request, Ops, Goals
    <3>2. Receive(r, base, path)
      BY <2>6 DEF UnbindName
    <3> HIDE DEF r
    <3> QED
      BY <3>1, <3>2
  <2> QED
    BY <2>1, <2>2, <2>3, <2>4, <2>5, <2>6
<1>2. CASE \E r \in Request : r.to = Null /\ Receive(r, base, path)
  BY <1>2, ReceiveHolds
<1>3. CASE Answer(-1, Null) /\ UNCHANGED heap
  BY <1>3, RestHolds DEF Doing
<1> QED
  BY <1>1, <1>2, <1>3

\* The binds.
LEMMA BindArrivalHolds ==
  ASSUME IInv, Classes, NEW op \in {"bind_context", "bind_entity"}, NEW path \in Seq(Names),
         NEW base \in KnownContexts, NEW link \in Seq(Names), NEW id \in Ids,
         BindByName(op, path, base, link) \/ BindById(op, id, base, link)
  PROVE  Doing /\ HoldsContexts(req)'
<1> DEFINE r == [Idle EXCEPT !.op = op, !.to = base, !.link = link]
<1>a. base \in Ptr /\ (base # Null => kind[base] = "context") /\ Null \in KnownContexts
  BY IdFacts DEF KnownContexts
<1>1. r \in Request /\ (r.to # Null => kind[r.to] = "context")
  BY <1>a, IdFacts, EmptySeq DEF Idle, Request, Ops, Goals
<1>2. \/ Receive(r, Null, path)
      \/ \E why : Crash(why)
      \/ id \in live /\ ToLink(r, id)
      \/ Answer(-1, Null) /\ UNCHANGED heap
  BY DEF BindByName, BindById, Deref
<1> HIDE DEF r
<1>3. CASE Receive(r, Null, path)
  BY <1>a, <1>1, <1>3, ReceiveHolds
<1>4. CASE id \in live /\ ToLink(r, id)
  BY <1>1, <1>4, ToLinkHolds
<1>5. CASE (\E why : Crash(why)) \/ (Answer(-1, Null) /\ UNCHANGED heap)
  BY <1>5, RestHolds DEF Doing
<1> QED
  BY <1>2, <1>3, <1>4, <1>5


\* The walk goes from context to context.
LEMMA WalkStepHolds ==
  ASSUME IInv, Classes, WalkStep
  PROVE  Doing /\ HoldsContexts(req)'
<1> DEFINE Step(c) == req' = [req EXCEPT !.ctx = c, !.at = @ + 1]
<1>a. HeapInv /\ HeapTypeOK /\ req \in Request /\ req.pc = "walk" /\ Null \notin live
  BY IdFacts DEF IInv, RequestInv, RequestTypeOK, HeapInv, HeapTypeOK, WalkStep, Running
<1>1. PICK p, n, o : p = req.ctx /\ n = req.name[req.at + 1] /\ o = name_map[p][n]
  OBVIOUS
<1>b. n \in Names
  <2>1. req.name \in Seq(Names) /\ req.at \in Nat /\ req.at + 1 < Len(req.name)
    BY <1>a DEF WalkStep, Request
  <2>2. req.at + 1 \in 1 .. Len(req.name)
    BY <2>1, LenProperties
  <2> QED
    BY <1>1, <2>1, <2>2, ElementOfSeq
<1>2. ASSUME NEW c, Step(c), Doing, c # Null => c \in Ids /\ kind'[c] = "context"
      PROVE  HoldsContexts(req)'
  <2>1. req'.ctx = c /\ req'.to = req.to /\ req.to \in Ptr
    BY <1>2, <1>a DEF Request
  <2>2. req.to # Null => kind'[req.to] = "context"
    BY <2>1, <1>2, <1>a, KindsKept, IdFacts DEF Classes, HoldsContexts
  <2> QED
    BY <2>1, <2>2, <1>2 DEF HoldsContexts
<1>3. \/ Crash("freed")
      \/ Step(Null) /\ UNCHANGED heap
      \/ o \in placeholder /\ kind[o] = "context" /\ MakeReal(o) /\ Step(o)
      \/ o \in live /\ kind[o] = "context" /\ Step(o) /\ UNCHANGED heap
      \/ /\ p \in live /\ o = Null
         /\ \E real \in BOOLEAN : NewObject("context", p, n, real)
         /\ Step(NewId)
  BY <1>1 DEF WalkStep
<1> HIDE DEF Step
<1>4. CASE Crash("freed")
  BY <1>4, RestHolds
<1>5. CASE Step(Null) /\ UNCHANGED heap
  BY <1>5, <1>2 DEF Doing
<1>6. CASE o \in placeholder /\ kind[o] = "context" /\ MakeReal(o) /\ Step(o)
  <2>1. Doing
    BY <1>6 DEF Doing
  <2>2. o \in Ids /\ kind' = kind
    BY <1>6, <1>a DEF HeapTypeOK, MakeReal
  <2> QED
    BY <1>6, <2>1, <2>2, <1>2
<1>7. CASE o \in live /\ kind[o] = "context" /\ Step(o) /\ UNCHANGED heap
  <2>1. Doing /\ o \in Ids /\ kind' = kind
    BY <1>7, <1>a DEF HeapTypeOK, Doing, heap
  <2> QED
    BY <1>7, <2>1, <1>2
<1>8. CASE /\ p \in live /\ o = Null
           /\ \E real \in BOOLEAN : NewObject("context", p, n, real)
           /\ Step(NewId)
  <2>1. PICK real \in BOOLEAN : NewObject("context", p, n, real)
    BY <1>8
  <2>2. kind[p] = "context" /\ name_map[p][n] = Null
    BY <1>8, <1>1, <1>a DEF Classes, HoldsContexts
  <2>3. Doing
    BY <1>8, <1>b, <2>1, <2>2 DEF Doing
  <2>4. PICK i : i = NewId /\ Step(i)
    BY <1>8
  <2>5. i \in Ids /\ kind'[i] = "context"
    BY <2>1, <2>4, <1>a DEF NewObject, HeapTypeOK
  <2> QED
    BY <2>3, <2>4, <2>5, <1>2
<1> QED
  BY <1>3, <1>4, <1>5, <1>6, <1>7, <1>8

\* The last component has been looked up.
LEMMA ReturnHolds ==
  ASSUME IInv, Classes, Doing, NEW o, Return(o)
  PROVE  HoldsContexts(req)'
<1>1. req \in Request /\ HeapInv
  BY DEF IInv, RequestInv, RequestTypeOK
<1>2. req'.pc = "done" /\ req'.to = req.to /\ req.to \in Ptr
  BY <1>1 DEF Return, Request
<1> QED
  BY <1>1, <1>2, KindsKept, IdFacts DEF Classes, HoldsContexts

LEMMA LookupOrCreateHolds ==
  ASSUME IInv, Classes, LookupOrCreate
  PROVE  Doing /\ HoldsContexts(req)'
<1>a. HeapInv /\ HeapTypeOK /\ req \in Request /\ req.pc = "walk" /\ Null \notin live
  BY IdFacts DEF IInv, RequestInv, RequestTypeOK, HeapInv, HeapTypeOK, LookupOrCreate, Walked,
     Running
<1>1. PICK p, n, o : p = req.ctx /\ n = Last(req.name) /\ o = name_map[p][n]
  OBVIOUS
<1>b. req.name # <<>> => n \in Names
  BY <1>a, <1>1, LastType DEF Request
<1>2. \/ \E why : Crash(why)
      \/ \E i : Return(i) /\ UNCHANGED heap
      \/ /\ req.name # <<>> /\ p \in live /\ o = Null
         /\ \E real \in BOOLEAN : NewObject(req.type, p, n, real)
         /\ Return(NewId)
      \/ o \in placeholder /\ MakeReal(o) /\ Return(o)
  BY <1>1 DEF LookupOrCreate
<1>3. CASE \E why : Crash(why)
  BY <1>3, RestHolds
<1>4. CASE \E i : Return(i) /\ UNCHANGED heap
  BY <1>4, ReturnHolds DEF Doing
<1>5. CASE /\ req.name # <<>> /\ p \in live /\ o = Null
           /\ \E real \in BOOLEAN : NewObject(req.type, p, n, real)
           /\ Return(NewId)
  <2>1. PICK real \in BOOLEAN, type \in {"context", "entity"} : NewObject(type, p, n, real)
    BY <1>5, <1>a DEF Request
  <2>2. kind[p] = "context" /\ name_map[p][n] = Null
    BY <1>5, <1>1, <1>a DEF Classes, HoldsContexts
  <2>3. Doing
    BY <1>5, <1>b, <2>1, <2>2 DEF Doing
  <2> QED
    BY <1>5, <2>3, ReturnHolds
<1>6. CASE o \in placeholder /\ MakeReal(o) /\ Return(o)
  BY <1>6, ReturnHolds DEF Doing
<1> QED
  BY <1>2, <1>3, <1>4, <1>5, <1>6

LEMMA LookupHolds ==
  ASSUME IInv, Classes, Lookup
  PROVE  Doing /\ HoldsContexts(req)'
<1>1. \/ \E why : Crash(why)
      \/ \E o : Return(o) /\ UNCHANGED heap
  <2>1. PICK p, o : p = req.ctx /\ o = name_map[p][Last(req.name)]
    OBVIOUS
  <2> QED
    BY <2>1 DEF Lookup
<1> QED
  BY <1>1, RestHolds, ReturnHolds DEF Doing

LEMMA RemoveBindingHolds ==
  ASSUME IInv, Classes, RemoveBinding
  PROVE  Doing /\ HoldsContexts(req)'
<1>a. HeapTypeOK /\ req \in Request /\ req.pc = "walk" /\ Null \notin live
  BY IdFacts DEF IInv, RequestInv, RequestTypeOK, HeapInv, HeapTypeOK, RemoveBinding, Walked,
     Running
<1>1. PICK p, n, o : p = req.ctx /\ n = Last(req.name) /\ o = name_map[p][n]
  OBVIOUS
<1>2. \/ \E why : Crash(why)
      \/ \E status, id : Answer(status, id) /\ UNCHANGED heap
      \/ /\ req.name # <<>> /\ p \in live /\ o \in live
         /\ Unbind(p, n) /\ Answer(1, Null)
  BY <1>1 DEF RemoveBinding
<1>3. CASE \/ \E why : Crash(why)
           \/ \E status, id : Answer(status, id) /\ UNCHANGED heap
  BY <1>3, RestHolds DEF Doing
<1>4. CASE /\ req.name # <<>> /\ p \in live /\ o \in live
           /\ Unbind(p, n) /\ Answer(1, Null)
  <2>1. n \in Names /\ kind[p] = "context"
    BY <1>4, <1>a, <1>1, LastType DEF Request, Classes, HoldsContexts
  <2>2. Doing
    BY <1>4, <1>1, <2>1 DEF Doing
  <2> QED
    BY <1>4, <2>2, RestHolds
<1> QED
  BY <1>2, <1>3, <1>4

\* The tails of the handlers.
LEMMA TailHolds ==
  ASSUME IInv, Classes, FinishCreate \/ FinishGetStone \/ FinishEntityData \/ FinishResolve
  PROVE  Doing /\ HoldsContexts(req)'
<1>1. \/ \E why : Crash(why)
      \/ \E status, id : Answer(status, id) /\ UNCHANGED heap
  BY DEF FinishCreate, FinishGetStone, FinishEntityData, FinishResolve
<1> QED
  BY <1>1, RestHolds DEF Doing

LEMMA FoundSourceHolds ==
  ASSUME IInv, Classes, FoundSource
  PROVE  Doing /\ HoldsContexts(req)'
<1>a. req \in Request /\ req.val \in live \cup {Null}
  BY DEF IInv, RequestInv, RequestTypeOK, InFlight, FoundSource, Running
<1>1. PICK r \in Request : r = req
  BY <1>a
<1>2. \/ \E why : Crash(why)
      \/ \E status, id : Answer(status, id) /\ UNCHANGED heap
      \/ \E s \in live : ToLink(r, s)
  BY <1>1, <1>a DEF FoundSource, As, ToLink
<1>3. r.to # Null => kind[r.to] = "context"
  BY <1>1 DEF Classes, HoldsContexts
<1> QED
  BY <1>2, <1>3, RestHolds, ToLinkHolds DEF Doing

LEMMA FinishBindHolds ==
  ASSUME IInv, Classes, FinishBind
  PROVE  Doing /\ HoldsContexts(req)'
<1>a. req \in Request /\ req.src \in live /\ Len(req.link) >= 2
  BY DEF IInv, RequestInv, RequestTypeOK, InFlight, FinishBind
<1>1. PICK c, n, o : c = As("context", req.val) /\ n = Last(req.link) /\ o = req.src
  OBVIOUS
<1>2. n \in Names
  BY <1>a, <1>1, LastType, EmptySeq DEF Request
<1>3. \/ \E why : Crash(why)
      \/ \E status, id : Answer(status, id) /\ UNCHANGED heap
      \/ c \in live /\ kind[c] = "context" /\ Bind(c, n, o) /\ Answer(1, Null)
  BY <1>1 DEF FinishBind, As
<1>4. CASE c \in live /\ kind[c] = "context" /\ Bind(c, n, o) /\ Answer(1, Null)
  <2>1. Doing
    BY <1>4, <1>a, <1>1, <1>2 DEF Doing
  <2> QED
    BY <1>4, <2>1, RestHolds
<1> QED
  BY <1>3, <1>4, RestHolds DEF Doing

\* The removals.
LEMMA RemoveHolds ==
  ASSUME IInv, Classes,
         \/ FinishRemoveContext
         \/ \E c \in KnownContexts : RemoveContextById(c)
         \/ \E e \in KnownEntities : RemoveEntityById(e)
         \/ RemoveDomain
  PROVE  Doing /\ HoldsContexts(req)'
<1>1. ASSUME NEW c \in live \cup {Null}, DeleteContext(c) PROVE Doing /\ HoldsContexts(req)'
  <2>1. \/ \E why : Crash(why)
        \/ \E status, id : Answer(status, id) /\ UNCHANGED heap
        \/ /\ c \in live /\ Delete({c}) /\ deleted' = deleted \cup {c}
           /\ Answer(1, Null)
    BY <1>1 DEF DeleteContext
  <2> QED
    BY <2>1, RestHolds DEF Doing
<1>2. CASE FinishRemoveContext
  <2>1. req.val \in live \cup {Null}
    BY <1>2 DEF FinishRemoveContext, Ending, Running, IInv, RequestInv, InFlight
  <2>2. PICK c : c = As("context", req.val)
    OBVIOUS
  <2>3. c \in live \cup {Null} /\ DeleteContext(c)
    BY <1>2, <2>1, <2>2 DEF As, FinishRemoveContext, DeleteContext
  <2> QED
    BY <2>3, <1>1
<1>3. ASSUME NEW d \in KnownContexts, RemoveContextById(d) PROVE Doing /\ HoldsContexts(req)'
  <2>1. PICK c : c = Deref(d)
    OBVIOUS
  <2>2. c \in live \cup {Null} /\ (Crash("null") \/ DeleteContext(c))
    BY <1>3, <2>1 DEF Deref, RemoveContextById, DeleteContext
  <2> QED
    BY <2>2, <1>1, RestHolds
<1>4. ASSUME NEW e \in KnownEntities, RemoveEntityById(e) PROVE Doing /\ HoldsContexts(req)'
  <2>1. \/ \E why : Crash(why)
        \/ /\ e \in live /\ Delete({e}) /\ deleted' = deleted \cup {e}
           /\ Answer(1, Null)
    BY <1>4, IdFacts DEF RemoveEntityById, Deref, KnownEntities
  <2> QED
    BY <2>1, RestHolds DEF Doing
<1>5. CASE RemoveDomain
  <2>1. \/ \E why : Crash(why)
        \/ \E status, id : Answer(status, id) /\ UNCHANGED heap
        \/ /\ Root \in live /\ entity_list \subseteq live
           /\ Delete(entity_list \cup {Root}) /\ UNCHANGED deleted /\ Answer(1, Null)
    BY <1>5 DEF RemoveDomain
  <2> QED
    BY <2>1, RestHolds DEF Doing
<1> QED
  BY <1>2, <1>3, <1>4, <1>5

LEMMA NextHolds == IInv /\ Classes /\ [Next]_vars => Doing /\ Classes'
<1> SUFFICES ASSUME IInv, Classes, [Next]_vars PROVE Doing /\ Classes'
  OBVIOUS
<1>a. KnownEntities \subseteq Ids /\ Null \in KnownContexts /\ KnownContexts \ {Null} \subseteq Ids
  BY IdFacts DEF KnownContexts, KnownEntities
<1>0. CASE Doing /\ HoldsContexts(req)'
  <2>1. HeapInv /\ Root \in Ids /\ DomainId \in Ids
    BY IdFacts DEF IInv
  <2>2. kind'[Root] = "context" /\ kind'[DomainId] = "domain"
    BY <1>0, <2>1, KindsKept DEF Classes
  <2> QED
    BY <1>0, <2>1, <2>2, ListsKept, GoneKept DEF Classes
<1> SUFFICES Doing /\ HoldsContexts(req)'
  BY <1>0
<1>1. ASSUME NEW base \in KnownContexts,
             \/ \E path \in CtxPaths : CreateContext(base, path)
             \/ \E path \in EntPaths : CreateEntity(base, path)
             \/ \E path \in CtxPaths : GetStone("context", base, path)
             \/ \E path \in EntPaths : GetStone("entity", base, path)
             \/ \E path \in EntPaths, goal \in {"create", "find"} : EntityData(goal, base, path)
             \/ \E path \in CtxPaths \cup EntPaths : Resolve(base, path)
             \/ \E path \in CtxPaths \cup EntPaths : UnbindName("unbind", base, path)
             \/ \E path \in EntPaths : UnbindName("remove_entity", base, path)
             \/ \E path \in CtxPaths : RemoveContextByName(base, path)
      PROVE  Doing /\ HoldsContexts(req)'
  BY <1>1, ArrivalHolds, PathsAreNames
<1>2. ASSUME NEW base \in KnownContexts, NEW path \in EntPaths, NEW link \in EntLinks,
             BindByName("bind_entity", path, base, link)
      PROVE  Doing /\ HoldsContexts(req)'
  BY <1>2, BindArrivalHolds, PathsAreNames, IdFacts
<1>3. ASSUME NEW base \in KnownContexts, NEW id \in KnownEntities, NEW link \in EntLinks,
             BindById("bind_entity", id, base, link)
      PROVE  Doing /\ HoldsContexts(req)'
  BY <1>3, <1>a, BindArrivalHolds, PathsAreNames, EmptySeq
<1>4. ASSUME NEW path \in CtxPaths, NEW link \in CtxLinks,
             BindByName("bind_context", path, Null, link)
      PROVE  Doing /\ HoldsContexts(req)'
  BY <1>4, <1>a, BindArrivalHolds, PathsAreNames, IdFacts
<1>5. ASSUME NEW id \in KnownContexts \ {Null}, NEW link \in CtxLinks,
             BindById("bind_context", id, Null, link)
      PROVE  Doing /\ HoldsContexts(req)'
  BY <1>5, <1>a, BindArrivalHolds, PathsAreNames, EmptySeq
<1>6. CASE \/ \E c \in KnownContexts : RemoveContextById(c)
           \/ \E e \in KnownEntities : RemoveEntityById(e)
           \/ RemoveDomain
  BY <1>6, RemoveHolds
<1>7. CASE Service
  BY <1>7, WalkStepHolds, LookupOrCreateHolds, LookupHolds, RemoveBindingHolds, TailHolds,
     FoundSourceHolds, FinishBindHolds, RemoveHolds DEF Service
<1>8. CASE UNCHANGED vars
  BY <1>8 DEF vars, heap, Doing, Classes, HoldsContexts
<1> QED
  BY <1>1, <1>2, <1>3, <1>4, <1>5, <1>6, <1>7, <1>8 DEF Next, Arrival

\* Names are given by contexts only, and a domain lists its entities.
THEOREM ClassesKept == Spec => []Classes
<1>1. Init => Classes
  BY IdFacts DEF Init, Classes, EntitiesListed, DeletedGone, HoldsContexts, Idle, Root, DomainId
<1>2. IInv /\ Classes /\ [Next]_vars => Classes'
  BY NextHolds
<1> QED
  BY <1>1, <1>2, Invariance, PTL DEF Spec

(***************************************************************************)
(* Each of these things is a step of Namespace.                            *)
(***************************************************************************)

\* What exists in the heap is what exists in the view.
LEMMA ViewFacts ==
  ASSUME HeapInv, Classes
  PROVE  /\ live \subseteq Objects /\ placeholder \subseteq live
         /\ View!Existing = live
         /\ View!Contexts = {c \in live : kind[c] = "context"}
<1>1. live \subseteq Objects /\ placeholder \subseteq live
  BY DEF HeapInv, HeapTypeOK, Fresh, Classes, Objects
<1>2. View!Existing = live
  BY <1>1 DEF View!Existing, ViewState
<1> QED
  BY <1>1, <1>2 DEF View!Contexts, ViewClass

\* A new object under a free name.
LEMMA NewObjectMakes ==
  ASSUME HeapInv, Classes, NEW type \in {"context", "entity"}, NEW p \in live, NEW n \in Names,
         NEW real \in BOOLEAN, kind[p] = "context", name_map[p][n] = Null,
         NewObject(type, p, n, real)
  PROVE  View!Next
<1> DEFINE o == counter
           as == IF real THEN "real" ELSE "promised"
<1>a. HeapTypeOK /\ Fresh
  BY DEF HeapInv
<1>1. /\ o \in Ids \ live
      /\ live' = live \cup {o}
      /\ kind' = [kind EXCEPT ![o] = type]
      /\ placeholder' = IF real THEN placeholder ELSE placeholder \cup {o}
      /\ name_map' = [name_map EXCEPT ![p][n] = o]
      /\ created' = IF real THEN [created EXCEPT ![o] = @ + 1] ELSE created
      /\ deleted' = deleted
  BY NewObjectStep DEF NewObject, NewId
<1>2. kind[o] = "none" /\ created[o] = 0 /\ o \notin deleted /\ o \in Objects /\ p \in Objects
  BY <1>a, <1>1, IdFacts, ViewFacts DEF Fresh, Classes, DeletedGone, Objects
<1>3. p \in View!Contexts
  BY ViewFacts
<1> HIDE DEF o
<1>4. View!Make(p, n, o, as, type)
  <2> USE <1>a, <1>1, <1>2, ViewFacts
  <2>1. o \notin placeholder /\ o \notin live
    OBVIOUS
  <2>2. ViewState[o] = "unused" /\ ViewState' = [ViewState EXCEPT ![o] = as]
    <3>1. \A i \in Objects : ViewState'[i] = IF i = o THEN as ELSE ViewState[i]
      BY <2>1 DEF HeapTypeOK, Objects, ViewState
    <3> QED
      BY <3>1, <2>1 DEF ViewState
  <2>3. ViewClass' = [ViewClass EXCEPT ![o] = type]
    BY DEF HeapTypeOK, Objects, ViewClass
  <2>4. ViewBound[p][n] = Null /\ ViewBound' = [ViewBound EXCEPT ![p][n] = o]
    BY DEF HeapTypeOK, Objects, ViewBound
  <2>5. ViewTold' = IF as = "real" THEN [ViewTold EXCEPT ![o] = "created"] ELSE ViewTold
    <3>1. \A i \in Objects : ViewTold'[i] = IF i = o /\ real THEN "created" ELSE ViewTold[i]
      BY DEF HeapTypeOK, Objects, ViewTold
    <3> QED
      BY <3>1 DEF ViewTold
  <2> QED
    BY <2>1, <2>2, <2>3, <2>4, <2>5 DEF View!Make
<1> QED
  BY <1>2, <1>3, <1>4 DEF View!Next

\* A placeholder becomes real.
LEMMA MakeRealPromotes ==
  ASSUME HeapInv, Classes, NEW o \in placeholder, MakeReal(o)
  PROVE  View!Next
<1>a. HeapTypeOK
  BY DEF HeapInv
<1>1. o \in Objects /\ o \in live /\ o \notin deleted /\ created[o] = 0
  BY ViewFacts DEF HeapInv, LifeAnnounced, Classes, DeletedGone
<1>2. View!Promote(o)
  <2> USE <1>a, <1>1 DEF MakeReal, HeapTypeOK
  <2>1. ViewTold' = [ViewTold EXCEPT ![o] = "created"]
    <3>1. created'[o] = 1 /\ \A i \in Ids \ {o} : created'[i] = created[i]
      BY DEF Objects
    <3>2. \A i \in Objects : ViewTold'[i] = IF i = o THEN "created" ELSE ViewTold[i]
      BY <3>1 DEF ViewTold, Objects
    <3> QED
      BY <3>2 DEF ViewTold
  <2>2. ViewState[o] = "promised" /\ ViewState' = [ViewState EXCEPT ![o] = "real"]
    BY DEF ViewState
  <2>3. UNCHANGED <<ViewClass, ViewBound>>
    BY DEF ViewClass, ViewBound
  <2> QED
    BY <2>1, <2>2, <2>3 DEF View!Promote
<1> QED
  BY <1>1, <1>2 DEF View!Next

\* A bind gives a free name; a name that is taken stays.
LEMMA BindLinks ==
  ASSUME HeapInv, Classes, NEW c \in live, NEW o \in live, NEW n \in Names,
         kind[c] = "context", Bind(c, n, o)
  PROVE  [View!Next]_View!vars
<1>a. HeapTypeOK /\ c \in View!Contexts /\ o \in View!Existing /\ c \in Objects
  BY ViewFacts DEF HeapInv
<1>b. UNCHANGED <<live, kind, placeholder, created, deleted>>
  BY DEF Bind
<1>c. UNCHANGED <<ViewState, ViewClass, ViewTold>>
  BY <1>b DEF ViewState, ViewClass, ViewTold
<1>1. CASE name_map[c][n] = Null
  <2>1. ViewBound[c][n] = Null /\ ViewBound' = [ViewBound EXCEPT ![c][n] = o]
    BY <1>a, <1>1 DEF Bind, HeapTypeOK, Objects, ViewBound
  <2>2. View!Link(c, n, o)
    BY <1>c, <2>1 DEF View!Link
  <2> QED
    BY <1>a, <2>2 DEF View!Next
<1>2. CASE name_map[c][n] # Null
  BY <1>c, <1>2 DEF Bind, ViewBound, View!vars
<1> QED
  BY <1>1, <1>2

\* An unbind takes one name away.
LEMMA UnbindUnlinks ==
  ASSUME HeapInv, Classes, NEW c \in live, NEW n \in Names,
         kind[c] = "context", name_map[c][n] \in live, Unbind(c, n)
  PROVE  View!Next
<1>a. HeapTypeOK /\ c \in View!Contexts /\ c \in Objects /\ Null \notin live
  BY ViewFacts, IdFacts DEF HeapInv, HeapTypeOK
<1>1. UNCHANGED <<ViewState, ViewClass, ViewTold>>
  BY DEF Unbind, ViewState, ViewClass, ViewTold
<1>2. ViewBound[c][n] # Null /\ ViewBound' = [ViewBound EXCEPT ![c][n] = Null]
  BY <1>a DEF Unbind, HeapTypeOK, Objects, ViewBound
<1>3. View!Unlink(c, n)
  BY <1>1, <1>2 DEF View!Unlink
<1> QED
  BY <1>a, <1>3 DEF View!Next

\* What is deleted loses its names and those it gave, and nothing else does.
LEMMA DeleteRemoves ==
  ASSUME HeapInv, Classes, NEW D \in SUBSET live, Delete(D)
  PROVE  View!Gone(D)
<1>a. HeapTypeOK /\ Fresh /\ NoDanglingBinding
  BY DEF HeapInv
<1>b. live \subseteq Objects /\ Objects \subseteq Ids /\ Null \notin live
  BY <1>a, ViewFacts, IdFacts DEF Objects, HeapTypeOK
<1>1. ViewState' = [o \in Objects |-> IF o \in D THEN "removed" ELSE ViewState[o]]
  <2>1. \A o \in Objects : ViewState'[o] = IF o \in D THEN "removed" ELSE ViewState[o]
    BY <1>a, <1>b DEF Delete, Fresh, ViewState
  <2> QED
    BY <2>1 DEF ViewState
<1>2. ASSUME NEW c \in Objects, NEW n \in Names
      PROVE  name_map'[c][n] = IF c \in D \/ name_map[c][n] \in D THEN Null ELSE name_map[c][n]
  <2>1. CASE c \in live \ D
    <3> DEFINE i == name_map[c][n]
               j == name_map'[c][n]
    <3>1. i \in live \cup {Null}
      BY <1>a, <2>1 DEF NoDanglingBinding
    <3>2. j \in (live \ D) \cup {Null}
      BY <2>1, DeleteNames
    <3>3. \A k \in live \ D : i = k <=> j = k
      <4>1. \A k \in live \ D : NamesOf(c, k)' = NamesOf(c, k)
        BY <2>1, DeleteNames
      <4> QED
        BY <4>1 DEF NamesOf
    <3> QED
      BY <1>b, <2>1, <3>1, <3>2, <3>3
  <2>2. CASE c \in Ids \ (live \ D)
    <3>1. name_map'[c][n] = Null
      BY <2>2, DeleteNames DEF NoBindings
    <3>2. c \notin live => name_map[c][n] = Null
      BY <1>a, <2>2 DEF Fresh, NoBindings
    <3> QED
      BY <2>2, <3>1, <3>2
  <2> QED
    BY <1>b, <2>1, <2>2
<1>3. ViewBound' = [c \in Objects |-> [n \in Names |->
                     IF c \in D \/ ViewBound[c][n] \in D THEN Null ELSE ViewBound[c][n]]]
  <2> DEFINE B(c) == [n \in Names |->
                       IF c \in D \/ name_map[c][n] \in D THEN Null ELSE name_map[c][n]]
  <2>1. \A c \in Objects : name_map'[c] = B(c)
    <3>1. \A c \in Objects : name_map'[c] \in [Names -> Ptr]
      BY <1>b, DeleteNames
    <3> QED
      BY <3>1, <1>2
  <2>2. ViewBound' = [c \in Objects |-> B(c)]
    BY <2>1 DEF ViewBound
  <2> QED
    BY <2>2 DEF ViewBound
<1>4. UNCHANGED ViewClass
  BY DEF Delete, ViewClass
<1> QED
  BY <1>1, <1>3, <1>4 DEF View!Gone

\* An object is removed, with the event that says so.
LEMMA DeleteOneRemoves ==
  ASSUME HeapInv, Classes, NEW o \in live, Delete({o}), deleted' = deleted \cup {o}
  PROVE  View!Next
<1>1. View!Gone({o}) /\ o \in Objects /\ o \in View!Existing
  BY DeleteRemoves, ViewFacts
<1>2. ViewTold' = [ViewTold EXCEPT ![o] = "deleted"]
  <2>1. \A i \in Objects : ViewTold'[i] = IF i = o THEN "deleted" ELSE ViewTold[i]
    BY DEF Delete, ViewTold
  <2> QED
    BY <1>1, <2>1 DEF ViewTold
<1> QED
  BY <1>1, <1>2 DEF View!Remove, View!Next

\* The domain goes with its root and its entities.
LEMMA DomainCloses ==
  ASSUME HeapInv, Classes, Root \in live, entity_list \subseteq live,
         Delete(entity_list \cup {Root}), UNCHANGED deleted
  PROVE  View!Next
<1>a. live \subseteq Ids
  BY DEF HeapInv, HeapTypeOK
<1>1. {Root} \cup {o \in View!Existing : ViewClass[o] = "entity"} = entity_list \cup {Root}
  BY <1>a, ViewFacts DEF Classes, EntitiesListed, ViewClass
<1>2. View!Gone(entity_list \cup {Root}) /\ Root \in View!Existing
  BY DeleteRemoves, ViewFacts
<1>3. UNCHANGED ViewTold
  BY DEF Delete, ViewTold
<1> QED
  BY <1>1, <1>2, <1>3 DEF View!Close, View!Next

\* Whatever a step does to the heap is a step of the view, or is not seen in it.
LEMMA DoingIsNext ==
  ASSUME HeapInv, Classes, Doing
  PROVE  [View!Next]_View!vars
<1>1. CASE UNCHANGED heap
  BY <1>1 DEF heap, View!vars, ViewState, ViewClass, ViewBound, ViewTold
<1> QED
  BY <1>1, NewObjectMakes, MakeRealPromotes, BindLinks, UnbindUnlinks, DeleteOneRemoves,
     DomainCloses DEF Doing

LEMMA InitIsInit == Init => View!Init
<1> SUFFICES ASSUME Init PROVE View!Init
  OBVIOUS
<1>1. Root \in Objects /\ Objects \subseteq Ids /\ DomainId \notin Objects
  BY IdFacts DEF Objects, Root, DomainId
<1>2. ViewState = [o \in Objects |-> IF o = Root THEN "real" ELSE "unused"]
  BY <1>1 DEF Init, ViewState
<1>3. ViewClass = [o \in Objects |-> IF o = Root THEN "context" ELSE "none"]
  BY <1>1 DEF Init, ViewClass
<1>4. ViewBound = [c \in Objects |-> [n \in Names |-> Null]]
  BY <1>1 DEF Init, ViewBound, NoBindings
<1>5. ViewTold = [o \in Objects |-> IF o = Root THEN "created" ELSE "nothing"]
  BY <1>1 DEF Init, ViewTold
<1> QED
  BY <1>2, <1>3, <1>4, <1>5 DEF View!Init

\* A PDS domain, with its walks, placeholders, referrer lists and events, is a Namespace: every
\* step of every request of any clients makes, promotes, links, unlinks or removes one object,
\* closes the domain, or is not seen at all.
THEOREM Implementation == Spec => IsNamespace
<1>1. IInv /\ Classes /\ [Next]_vars => [View!Next]_View!vars
  BY NextHolds, DoingIsNext DEF IInv
<1> QED
  BY <1>1, InitIsInit, Invariance, ClassesKept, PTL DEF Spec, IsNamespace, View!Spec

=============================================================================
