----------------------------- MODULE Directory -----------------------------
(***************************************************************************)
(* The object heap of one PDS domain: contexts and entities, the name maps *)
(* that bind them, the referrer lists that point back, and the requests    *)
(* of pdsd_handlers.cc that create, resolve, bind, unbind and remove them. *)
(*                                                                         *)
(* pdsd runs every handler to completion on the one thread that drives the *)
(* network (pdsd.cc, CMrun_network), so at most one request is in progress.*)
(* A request is a short activation: it is received (one action per RPC),   *)
(* walks the leading components of its name (one WalkStep per iteration of *)
(* the loop in Domain::get_context_of_name), acts on the last component,   *)
(* and ends in the tail of its handler.                                    *)
(*                                                                         *)
(* Objects are numbered by objectId::obj_id.  A number that is not in live *)
(* is a freed object: a pointer to it dangles, and a handler that follows  *)
(* such a pointer, or a null one, stops the server: fault records why.     *)
(* Nothing is claimed of a server that went on after that.                 *)
(***************************************************************************)
EXTENDS Naturals, Integers, Sequences, FiniteSets, Functions

CONSTANTS
  Names,      \* name components
  MaxId,      \* bound: the largest obj_id the instance hands out
  CtxPaths,   \* names clients use for contexts, as sequences of components
  EntPaths,   \* names clients use for entities
  CtxLinks,   \* new names clients bind contexts to
  EntLinks,   \* new names clients bind entities to
  Careful     \* TRUE: clients keep the contract of the operators Ok...

ASSUME NamesFinite == IsFiniteSet(Names)
ASSUME MaxIdNat == MaxId \in Nat /\ MaxId >= 2
ASSUME PathsAreNames == CtxPaths \cup EntPaths \cup CtxLinks \cup EntLinks \subseteq Seq(Names)
ASSUME CarefulBoolean == Careful \in BOOLEAN

Null == 0
Ids == 1 .. MaxId
Ptr == Ids \cup {Null}

\* Domain's constructor draws the first obj_id for the domain, the second for root_.
DomainId == 1
Root == 2

Kinds == {"none", "domain", "context", "entity"}

\* The requests, named after their RPCs.
Ops == {"create_context", "create_entity", "get_stone", "entity_data", "resolve",
        "bind_context", "bind_entity", "unbind", "remove_entity", "remove_context"}
Goals == {"create", "find", "unbind"}

\* Following a null pointer or a freed object, deleting an object twice, erasing a list
\* entry that is not there, and exit(1).
Faults == {"none", "null", "freed", "double_free", "bad_erase", "exit"}

VARIABLES
  counter,      \* objectId::counter, the next obj_id
  live,         \* objects that exist: those that global_object_map resolves
  kind,         \* the class of each object
  parent,       \* ContextBindable::parent_
  placeholder,  \* objects whose is_placeholder_ is set
  name_map,     \* Context::name_map_: component -> bound object or Null
  referrers,    \* ContextBindable::referrers_, a bag: occurrences of each context
  entity_list,  \* Domain::entity_list_
  created,      \* creation events sent for each object
  deleted,      \* objects whose deletion event was sent
  domain_up,    \* the domain object exists
  req,          \* the request in progress
  reply,        \* the last reply: its status word and the object it names
  fault         \* why the server stopped, or "none"

heap == <<counter, live, kind, parent, placeholder, name_map, referrers,
          entity_list, created, deleted, domain_up>>
vars == <<heap, req, reply, fault>>

---------------------------------------------------------------------------
(* The activation record of a request. *)

\* A request resolves name from the context from; ctx is the context reached after the
\* first at components, val the object found.  base is the context id the client sent.
\* The binds also hold the object to bind (src) and the new name (to and link).
Idle == [op |-> "resolve", pc |-> "idle", goal |-> "find", type |-> "context",
         holders |-> FALSE, from |-> Null, ctx |-> Null, name |-> <<>>, at |-> 0,
         val |-> Null, base |-> Null, src |-> Null, to |-> Null, link |-> <<>>]

NoReply == [status |-> 0, id |-> Null]

Running(pc) == fault = "none" /\ req.pc = pc

Crash(why) == fault' = why /\ UNCHANGED <<heap, req, reply>>

Answer(status, id) ==
  /\ req' = Idle
  /\ reply' = [status |-> status, id |-> id]
  /\ UNCHANGED fault

\* Domain::split_name: the head and the last component.  A leading separator has no
\* effect; the name "/", the empty sequence here, has neither part.
Front(s) == SubSeq(s, 1, Len(s) - 1)
Last(s) == s[Len(s)]

\* Mutant: a walk that always begins at root_.
WalkingFromRoot(r, base, path) ==
  [r EXCEPT !.pc = "walk", !.from = IF base = Null THEN Root ELSE base, !.ctx = Root,
            !.name = path, !.at = 0, !.val = Null]

\* Entering Domain::get_context_of_name: a null initial context means root_.
Walking(r, base, path) ==
  LET c == IF base = Null THEN Root ELSE base
  IN [r EXCEPT !.pc = "walk", !.from = c, !.ctx = c, !.name = path, !.at = 0, !.val = Null]

\* objectId::get_context_ptr_from_id and get_entity_ptr_from_id: operator[] on the object
\* map gives a null pointer for an id whose object is gone.
Deref(id) == IF id \in live THEN id ELSE Null

\* The ids a client can hold: the null id, and those of objects that were created.
KnownContexts == {Null} \cup {i \in Ids : kind[i] = "context"}
KnownEntities == {i \in Ids : kind[i] = "entity" /\ i \notin placeholder}

---------------------------------------------------------------------------
(* Contexts, bindings and referrers. *)

NoBindings == [n \in Names |-> Null]
NoReferrers == [c \in Ids |-> 0]

NamesOf(c, o) == {n \in Names : name_map[c][n] = o}

\* The object a whole name denotes, Null if a component is not bound.
Named(c, path) ==
  LET Reach[i \in 0 .. Len(path)] ==
        IF i = 0 THEN c
        ELSE IF Reach[i - 1] = Null THEN Null ELSE name_map[Reach[i - 1]][path[i]]
  IN Reach[Len(path)]

\* ContextBindable::get_full_name follows parent_ up to root_.
ChainLive[o \in Ids] ==
  parent[o] = Null \/ (parent[o] \in live /\ ChainLive[parent[o]])

\* Mutant: ids of freed objects are handed out again.
RecycledId ==
  LET Free == Ids \ (live \cup {DomainId})
  IN IF Free = {} THEN counter ELSE CHOOSE i \in Free : \A j \in Free : i <= j

\* objectId's constructor.
NewId == counter

\* The constructors of Context and Entity, then Context::bind.  The new object lists its
\* parent twice among its referrers: the constructor adds it, and so does bind.  It is a
\* placeholder until make_real; real says whether that follows at once.
NewObject(type, p, n, real) ==
  LET o == NewId IN
  /\ o \in Ids    \* bound: a request that needs one more id is cut off here
  /\ counter' = counter + 1
  /\ live' = live \cup {o}
  /\ kind' = [kind EXCEPT ![o] = type]
  /\ parent' = [parent EXCEPT ![o] = p]
  /\ placeholder' = IF real THEN placeholder ELSE placeholder \cup {o}
  /\ name_map' = [name_map EXCEPT ![p][n] = o]
  /\ referrers' = [referrers EXCEPT ![o] = [NoReferrers EXCEPT ![p] = 2]]
  /\ entity_list' = IF type = "entity" THEN entity_list \cup {o} ELSE entity_list
  /\ created' = IF real THEN [created EXCEPT ![o] = @ + 1] ELSE created
  /\ UNCHANGED <<deleted, domain_up>>

\* Mutant: make_real leaves is_placeholder_ set.
MakeRealAgain(o) ==
  /\ created' = [created EXCEPT ![o] = @ + 1]
  /\ UNCHANGED <<counter, live, kind, parent, placeholder, name_map, referrers, entity_list,
                 deleted, domain_up>>

\* ContextBindable::make_real, with the creation event it sends.
MakeReal(o) ==
  /\ placeholder' = placeholder \ {o}
  /\ created' = [created EXCEPT ![o] = @ + 1]
  /\ UNCHANGED <<counter, live, kind, parent, name_map, referrers, entity_list, deleted, domain_up>>

\* A context's creation event carries its full name, an entity's does not.
CreationEventSafe(type, p) == type = "context" => p \in live /\ ChainLive[p]

\* Mutant: bind without add_referrer.
BindUnlisted(c, n, o) ==
  /\ name_map' = IF name_map[c][n] = Null THEN [name_map EXCEPT ![c][n] = o] ELSE name_map
  /\ UNCHANGED <<counter, live, kind, parent, placeholder, referrers, entity_list, created,
                 deleted, domain_up>>

\* Mutant: a name that is taken is bound anew.
BindOver(c, n, o) ==
  /\ name_map' = [name_map EXCEPT ![c][n] = o]
  /\ referrers' = [referrers EXCEPT ![o][c] = @ + 1]
  /\ UNCHANGED <<counter, live, kind, parent, placeholder, entity_list, created, deleted,
                 domain_up>>

\* Context::bind: a name that is taken keeps its binding.
Bind(c, n, o) ==
  /\ IF name_map[c][n] = Null
     THEN /\ name_map' = [name_map EXCEPT ![c][n] = o]
          /\ referrers' = [referrers EXCEPT ![o][c] = @ + 1]
     ELSE UNCHANGED <<name_map, referrers>>
  /\ UNCHANGED <<counter, live, kind, parent, placeholder, entity_list, created, deleted,
                 domain_up>>

\* Mutant: unbind without remove_referrer.
UnbindListed(c, n) ==
  /\ name_map' = [name_map EXCEPT ![c][n] = Null]
  /\ UNCHANGED <<counter, live, kind, parent, placeholder, referrers, entity_list, created,
                 deleted, domain_up>>

\* Context::unbind(name), with remove_referrer on the object that was bound.
Unbind(c, n) ==
  /\ name_map' = [name_map EXCEPT ![c][n] = Null]
  /\ referrers' = [referrers EXCEPT ![name_map[c][n]][c] = @ - 1]
  /\ UNCHANGED <<counter, live, kind, parent, placeholder, entity_list, created, deleted,
                 domain_up>>

\* Mutant: each referrer is asked once, however often it is listed.
DroppedOnce(c, o) ==
  IF NamesOf(c, o) = {} THEN {} ELSE {CHOOSE n \in NamesOf(c, o) : TRUE}

\* ~ContextBindable asks each referrer, as often as it is listed, to unbind the object;
\* Context::unbind(object) drops one binding per call, the first in map order.
Dropped(c, o) ==
  CHOOSE S \in SUBSET NamesOf(c, o) :
    Cardinality(S) = IF referrers[o][c] < Cardinality(NamesOf(c, o))
                     THEN referrers[o][c] ELSE Cardinality(NamesOf(c, o))

\* The destructor may follow a referrer that is gone; a context listed as its own referrer
\* has lost its name map by the time the base destructor asks it to unbind.
CanDelete(o) == \A c \in Ids : referrers[o][c] > 0 => c \in live \ {o}

\* The name maps once the objects of D are gone.
Cleared(D) ==
  [c \in Ids |-> IF c \in D THEN NoBindings
                 ELSE [n \in Names |-> IF \E o \in D : n \in Dropped(c, o)
                                       THEN Null ELSE name_map[c][n]]]

\* Mutant: a placeholder is still reckoned one after its deletion.
DeleteButHolder(D) ==
  /\ live' = live \ D
  /\ name_map' = Cleared(D)
  /\ UNCHANGED <<counter, kind, parent, placeholder, entity_list, created>>

\* delete on the objects of D.
Delete(D) ==
  /\ live' = live \ D
  /\ placeholder' = placeholder \ D
  /\ name_map' = Cleared(D)
  /\ UNCHANGED <<counter, kind, parent, entity_list, created>>

Forget(refs, D) == [o \in Ids |-> IF o \in D THEN NoReferrers ELSE refs[o]]

---------------------------------------------------------------------------
(* The contract a careful client keeps. *)

\* It uses some components for contexts and others, at the end of names, for entities.
ContextNames == (UNION {Range(p) : p \in CtxPaths \cup CtxLinks})
                  \cup (UNION {Range(Front(p)) : p \in EntPaths \cup EntLinks})
EntityNames == {Last(p) : p \in EntPaths \cup EntLinks}

ASSUME NamesApart ==
  Careful => <<>> \notin EntPaths \cup EntLinks /\ ContextNames \cap EntityNames = {}

\* It bases names on contexts that exist.
OkBase(base) == base \in live \cup {Null}

\* It removes a context only when nothing is bound in it, nothing was created in it that
\* still exists, and it is not the root.
OkRemoveContext(c) ==
  /\ c \in live \ {Root}
  /\ name_map[c] = NoBindings
  /\ \A o \in live : parent[o] # c

\* It links only contexts that exist.
OkSource(path) == Named(Root, path) \in live \ placeholder

\* It does not remove a domain in which it has removed an entity by id.
OkRemoveDomain == entity_list \subseteq live

---------------------------------------------------------------------------
(* Receiving a request. *)

\* A handler resolves the domain id first and then calls a member of the domain.
Receive(r, base, path) ==
  /\ Running("idle")
  /\ Careful => domain_up /\ OkBase(base)
  /\ IF domain_up
     THEN /\ req' = [Walking(r, Deref(base), path) EXCEPT !.base = base]
          /\ reply' = NoReply
          /\ UNCHANGED <<heap, fault>>
     ELSE Crash("null")

CreateContext(base, path) ==
  /\ Receive([Idle EXCEPT !.op = "create_context", !.goal = "create"], base, path)

CreateEntity(base, path) ==
  /\ Receive([Idle EXCEPT !.op = "create_entity", !.goal = "create", !.type = "entity"],
             base, path)

\* Registering for events makes placeholders of what does not exist yet.  This handler
\* alone checks that the domain is there.
GetStone(type, base, path) ==
  /\ IF domain_up
     THEN Receive([Idle EXCEPT !.op = "get_stone", !.goal = "create", !.type = type,
                               !.holders = TRUE], base, path)
     ELSE Running("idle") /\ Answer(-1, Null) /\ UNCHANGED heap

\* Setting data or attributes by name, with or without CreateObjIfNotFound.
EntityData(goal, base, path) ==
  /\ Receive([Idle EXCEPT !.op = "entity_data", !.goal = goal, !.type = "entity"],
             base, path)

\* Two walks, for an entity and then for a context: the second finds what the first left.
Resolve(base, path) ==
  Receive([Idle EXCEPT !.op = "resolve"], base, path)

\* Unbinding an entity or a context, and removing an entity by name.
UnbindName(op, base, path) ==
  /\ Careful => path # <<>>
  /\ Receive([Idle EXCEPT !.op = op, !.goal = "unbind"], base, path)

RemoveContextByName(base, path) ==
  /\ ~Careful
  /\ Receive([Idle EXCEPT !.op = "remove_context"], base, path)

\* The source is named: it is resolved from the root first.  bind_entity is sent the
\* context of the source name and does not use it.
BindByName(op, path, base, link) ==
  /\ Careful => Len(link) >= 2 /\ OkBase(base)
                /\ (op = "bind_context" => OkSource(path))
  /\ Receive([Idle EXCEPT !.op = op, !.to = base, !.link = link], Null, path)

\* Splitting the new name and resolving its head, which makes a null head a null string.
ToLink(r, src) ==
  IF Len(r.link) < 2
  THEN Crash("null")
  ELSE /\ req' = Walking([r EXCEPT !.goal = "create", !.type = "context", !.src = src],
                         IF r.op = "bind_context" THEN Null ELSE Deref(r.to),
                         Front(r.link))
       /\ UNCHANGED <<heap, reply, fault>>

\* The source is given by its id.
BindById(op, id, base, link) ==
  /\ Running("idle")
  /\ Careful => domain_up /\ id \in live /\ Len(link) >= 2 /\ OkBase(base)
  /\ IF ~domain_up THEN Crash("null")
     ELSE IF Deref(id) # Null
     THEN ToLink([Idle EXCEPT !.op = op, !.to = base, !.link = link], id)
     ELSE IF op = "bind_context" THEN Crash("exit")
     ELSE Answer(-1, Null) /\ UNCHANGED heap

---------------------------------------------------------------------------
(* Domain::get_context_of_name. *)

\* One iteration of the loop over the leading components: descend, create the missing
\* context if the caller asked for the path, or give up with a null parent.  Contexts on
\* the way stop being placeholders unless the caller makes placeholders itself.
WalkStep ==
  LET n == req.name[req.at + 1]
      o == name_map[req.ctx][n]
      Step(c) == req' = [req EXCEPT !.ctx = c, !.at = @ + 1]
  IN
  /\ Running("walk") /\ req.at + 1 < Len(req.name) /\ req.ctx # Null
  /\ \/ req.ctx \notin live /\ Crash("freed")
     \/ /\ req.ctx \in live /\ o # Null /\ o \notin live /\ Crash("freed")
     \/ /\ req.ctx \in live /\ o \in live /\ kind[o] # "context"
        /\ Step(Null)
        /\ UNCHANGED <<heap, reply, fault>>
     \/ /\ req.ctx \in live /\ o \in live /\ kind[o] = "context"
        /\ IF o \in placeholder /\ ~req.holders
           THEN IF CreationEventSafe("context", parent[o])
                THEN MakeReal(o) /\ Step(o) /\ UNCHANGED <<reply, fault>>
                ELSE Crash("freed")
           ELSE Step(o) /\ UNCHANGED <<heap, reply, fault>>
     \/ /\ req.ctx \in live /\ o = Null /\ req.goal = "create"
        /\ IF req.holders \/ CreationEventSafe("context", req.ctx)
           THEN /\ NewObject("context", req.ctx, n, ~req.holders)
                /\ Step(NewId)
                /\ UNCHANGED <<reply, fault>>
           ELSE Crash("freed")
     \/ /\ req.ctx \in live /\ o = Null /\ req.goal # "create"
        /\ Step(Null)
        /\ UNCHANGED <<heap, reply, fault>>

Walked(goal) ==
  /\ Running("walk") /\ req.goal = goal
  /\ req.at + 1 >= Len(req.name) \/ req.ctx = Null

Return(o) ==
  /\ req' = [req EXCEPT !.pc = "done", !.val = o]
  /\ UNCHANGED <<reply, fault>>

\* Domain::resolve_or_create_name on the last component.
LookupOrCreate ==
  LET o == name_map[req.ctx][Last(req.name)] IN
  /\ Walked("create")
  /\ IF req.name = <<>> THEN Return(Root) /\ UNCHANGED heap
     ELSE IF req.ctx = Null THEN Crash("null")
     ELSE IF req.ctx \notin live THEN Crash("freed")
     ELSE IF o = Null
     THEN IF req.holders \/ CreationEventSafe(req.type, req.ctx)
          THEN NewObject(req.type, req.ctx, Last(req.name), ~req.holders) /\ Return(NewId)
          ELSE Crash("freed")
     ELSE IF o \notin live THEN Crash("freed")
     ELSE IF o \in placeholder /\ ~req.holders
     THEN IF CreationEventSafe(kind[o], parent[o])
          THEN MakeReal(o) /\ Return(o)
          ELSE Crash("freed")
     ELSE Return(o) /\ UNCHANGED heap

\* Mutant: resolve_name finds placeholders.
LookupAny ==
  /\ Walked("find")
  /\ IF req.ctx = Null THEN Return(Null) /\ UNCHANGED heap
     ELSE IF req.ctx \notin live THEN Crash("freed")
     ELSE IF req.name = <<>> THEN Return(req.ctx) /\ UNCHANGED heap
     ELSE Return(name_map[req.ctx][Last(req.name)]) /\ UNCHANGED heap

\* Domain::resolve_name: a placeholder is not found.
Lookup ==
  LET o == name_map[req.ctx][Last(req.name)] IN
  /\ Walked("find")
  /\ IF req.ctx = Null THEN Return(Null) /\ UNCHANGED heap
     ELSE IF req.ctx \notin live THEN Crash("freed")
     ELSE IF req.name = <<>> THEN Return(req.ctx) /\ UNCHANGED heap
     ELSE IF o \notin live \cup {Null} THEN Crash("freed")
     ELSE Return(IF o \in placeholder THEN Null ELSE o) /\ UNCHANGED heap

\* Domain::remove_binding.  For the name "/" the last component is a null string, which the
\* map compares with each of its keys.
RemoveBinding ==
  LET o == name_map[req.ctx][Last(req.name)] IN
  /\ Walked("unbind")
  /\ IF req.ctx = Null THEN Answer(-1, Null) /\ UNCHANGED heap
     ELSE IF req.ctx \notin live THEN Crash("freed")
     ELSE IF req.name = <<>>
     THEN IF name_map[req.ctx] = NoBindings THEN Answer(-1, Null) /\ UNCHANGED heap
          ELSE Crash("null")
     ELSE IF o = Null THEN Answer(-1, Null) /\ UNCHANGED heap
     ELSE IF o \notin live THEN Crash("freed")
     ELSE IF referrers[o][req.ctx] = 0 THEN Crash("bad_erase")
     ELSE Unbind(req.ctx, Last(req.name)) /\ Answer(1, Null)

---------------------------------------------------------------------------
(* The tails of the handlers. *)

\* dynamic_cast to the class the handler needs.
As(type, o) == IF o # Null /\ kind[o] = type THEN o ELSE Null

Ending(op) == Running("done") /\ req.op = op

FinishCreate ==
  /\ Running("done") /\ req.op \in {"create_context", "create_entity"}
  /\ IF req.val \notin live THEN Crash("freed")
     ELSE IF As(req.type, req.val) = Null THEN Crash("null")
     ELSE Answer(1, req.val) /\ UNCHANGED heap

FinishGetStone ==
  /\ Ending("get_stone")
  /\ IF req.val \notin live THEN Crash("freed") ELSE Answer(1, Null) /\ UNCHANGED heap

FinishEntityData ==
  /\ Ending("entity_data")
  /\ IF req.val \notin live \cup {Null} THEN Crash("freed")
     ELSE Answer(IF As("entity", req.val) = Null THEN -1 ELSE 1, Null) /\ UNCHANGED heap

FinishResolve ==
  /\ Ending("resolve")
  /\ Answer(IF req.val = Null THEN -1 ELSE 1, req.val)
  /\ UNCHANGED heap

\* The source of a bind has been resolved.  handle_bind_context exits without one.
FoundSource ==
  LET s == As(IF req.op = "bind_context" THEN "context" ELSE "entity", req.val) IN
  /\ Running("done") /\ req.op \in {"bind_context", "bind_entity"} /\ req.src = Null
  /\ IF s # Null THEN ToLink(req, s)
     ELSE IF req.op = "bind_context" THEN Crash("exit")
     ELSE Answer(-1, Null) /\ UNCHANGED heap

\* Both binds ignore whether Context::bind succeeded.
FinishBind ==
  LET c == As("context", req.val) IN
  /\ Running("done") /\ req.op \in {"bind_context", "bind_entity"} /\ req.src # Null
  /\ IF req.val \notin live THEN Crash("freed")
     ELSE IF c # Null THEN Bind(c, Last(req.link), req.src) /\ Answer(1, Null)
     ELSE IF req.op = "bind_context" THEN Answer(0, Null) /\ UNCHANGED heap
     ELSE Crash("null")

\* Domain::remove_context: the deletion event carries the full name.
DeleteContext(c) ==
  IF c = Null THEN Answer(1, Null) /\ UNCHANGED heap
  ELSE IF ~ChainLive[c] \/ ~CanDelete(c) THEN Crash("freed")
  ELSE /\ Delete({c})
       /\ deleted' = deleted \cup {c}
       /\ referrers' = Forget(referrers, {c})
       /\ Answer(1, Null)
       /\ UNCHANGED domain_up

FinishRemoveContext == Ending("remove_context") /\ DeleteContext(As("context", req.val))

RemoveContextById(c) ==
  /\ Running("idle")
  /\ Careful => domain_up /\ OkRemoveContext(c)
  /\ IF domain_up THEN DeleteContext(Deref(c)) ELSE Crash("null")

\* handle_remove_entity by id, Domain::remove_entity and ~Entity, which leaves the entity
\* in entity_list_.
RemoveEntityById(e) ==
  /\ Running("idle")
  /\ Careful => domain_up /\ e \in live
  /\ IF ~domain_up \/ Deref(e) = Null THEN Crash("null")
     ELSE IF ~CanDelete(e) THEN Crash("freed")
     ELSE /\ Delete({e})
          /\ deleted' = deleted \cup {e}
          /\ referrers' = Forget(referrers, {e})
          /\ Answer(1, Null)
          /\ UNCHANGED domain_up

\* ~Domain: every entity it lists, then the bindings of the root, then the root.  The other
\* contexts stay on the heap.  No deletion event is sent.
RemoveDomain ==
  LET D == entity_list \cup {Root}
      Bound == {o \in Ids : NamesOf(Root, o) # {}} \ entity_list
      Held(o) == [c \in Ids |-> IF c = Root
                                THEN referrers[o][c] - Cardinality(NamesOf(c, o))
                                ELSE referrers[o][c]]
  IN
  /\ Running("idle")
  /\ Careful => domain_up /\ OkRemoveDomain
  /\ IF ~domain_up THEN Answer(0, Null) /\ UNCHANGED heap
     ELSE IF ~(entity_list \subseteq live) THEN Crash("double_free")
     ELSE IF Root \notin live \/ ~(Bound \subseteq live) THEN Crash("freed")
     ELSE IF \E o \in Bound : referrers[o][Root] < Cardinality(NamesOf(Root, o))
     THEN Crash("bad_erase")
     ELSE IF (\E e \in entity_list : ~CanDelete(e))
             \/ (\E c \in Ids : Held(Root)[c] > 0 /\ c \notin live \ {Root})
     THEN Crash("freed")
     ELSE /\ Delete(D)
          /\ referrers' = Forget([o \in Ids |-> Held(o)], D)
          /\ domain_up' = FALSE
          /\ Answer(1, Null)
          /\ UNCHANGED deleted

---------------------------------------------------------------------------
Init ==
  /\ counter = Root + 1
  /\ live = {Root}
  /\ kind = [o \in Ids |-> CASE o = DomainId -> "domain" [] o = Root -> "context"
                              [] OTHER -> "none"]
  /\ parent = [o \in Ids |-> Null]
  /\ placeholder = {}
  /\ name_map = [c \in Ids |-> NoBindings]
  /\ referrers = [o \in Ids |-> NoReferrers]
  /\ entity_list = {}
  /\ created = [o \in Ids |-> IF o = Root THEN 1 ELSE 0]
  /\ deleted = {}
  /\ domain_up = TRUE
  /\ req = Idle
  /\ reply = NoReply
  /\ fault = "none"

\* What arrives from clients.
Arrival ==
  \/ \E base \in KnownContexts :
       \/ \E path \in CtxPaths : CreateContext(base, path)
       \/ \E path \in EntPaths : CreateEntity(base, path)
       \/ \E path \in CtxPaths : GetStone("context", base, path)
       \/ \E path \in EntPaths : GetStone("entity", base, path)
       \/ \E path \in EntPaths, goal \in {"create", "find"} : EntityData(goal, base, path)
       \/ \E path \in CtxPaths \cup EntPaths : Resolve(base, path)
       \/ \E path \in CtxPaths \cup EntPaths : UnbindName("unbind", base, path)
       \/ \E path \in EntPaths : UnbindName("remove_entity", base, path)
       \/ \E path \in CtxPaths : RemoveContextByName(base, path)
       \/ \E path \in EntPaths, link \in EntLinks : BindByName("bind_entity", path, base, link)
       \/ \E id \in KnownEntities, link \in EntLinks :
            BindById("bind_entity", id, base, link)
  \/ \E path \in CtxPaths, link \in CtxLinks : BindByName("bind_context", path, Null, link)
  \/ \E id \in KnownContexts \ {Null}, link \in CtxLinks :
       BindById("bind_context", id, Null, link)
  \/ \E c \in KnownContexts : RemoveContextById(c)
  \/ \E e \in KnownEntities : RemoveEntityById(e)
  \/ RemoveDomain

Service ==
  \/ WalkStep
  \/ LookupOrCreate \/ Lookup \/ RemoveBinding
  \/ FinishCreate \/ FinishGetStone \/ FinishEntityData \/ FinishResolve
  \/ FoundSource \/ FinishBind \/ FinishRemoveContext

Next == Arrival \/ Service

Spec == Init /\ [][Next]_vars

---------------------------------------------------------------------------
(* Properties. *)

Request ==
  [op : Ops, pc : {"idle", "walk", "done"}, goal : Goals, type : {"context", "entity"},
   holders : BOOLEAN, from : Ptr, ctx : Ptr, name : Seq(Names), at : Nat,
   val : Ptr, base : Ptr, src : Ptr, to : Ptr, link : Seq(Names)]

HeapTypeOK ==
  /\ counter \in Root + 1 .. MaxId + 1
  /\ live \subseteq Ids
  /\ kind \in [Ids -> Kinds]
  /\ parent \in [Ids -> Ptr]
  /\ placeholder \subseteq live
  /\ name_map \in [Ids -> [Names -> Ptr]]
  /\ referrers \in [Ids -> [Ids -> Nat]]
  /\ entity_list \subseteq Ids
  /\ created \in [Ids -> Nat]
  /\ deleted \subseteq Ids
  /\ domain_up \in BOOLEAN

RequestTypeOK ==
  /\ req \in Request
  /\ reply \in [status : {-1, 0, 1}, id : Ptr]
  /\ fault \in Faults

TypeOK == HeapTypeOK /\ RequestTypeOK

\* A context is listed among an object's referrers once for each name it binds the object
\* to, and once more when the object was created in it (ContextBindable's constructor and
\* Context::bind both add it).  The two sides are kept in step by code in four classes.
ReferrersExact ==
  \A c, o \in live :
    referrers[o][c] = Cardinality(NamesOf(c, o)) + (IF parent[o] = c THEN 1 ELSE 0)

\* Every name in a context that exists denotes an object that exists: a destructor takes
\* all bindings of its object with it, the second and third name in one context included.
NoDanglingBinding ==
  \A c \in live, n \in Names : name_map[c][n] \in live \cup {Null}

\* ContextBindable::remove_referrer always finds the entry it erases.
NoBadErase == fault # "bad_erase"

\* What subscribers to the domain are told is what happened.  An object that exists announced
\* its creation once if it is real and never while it was a placeholder, however often it
\* was resolved, registered for or walked through; while the domain exists, the objects
\* that announced their deletion are those that are gone.
LifeAnnounced ==
  /\ \A o \in live : created[o] = IF o \in placeholder THEN 0 ELSE 1
  /\ domain_up => deleted = {o \in Ids \ live : kind[o] \in {"context", "entity"}}

\* A request of a careful client never stops the server: it follows no null or freed
\* pointer, frees nothing twice and erases nothing that is not there.
CarefulIsSafe == Careful => fault = "none"

\* The loop of get_context_of_name is where the name says: after the first at components
\* the walk has reached the context those components name, whatever it created on the way.
WalkFollowsName ==
  req.pc = "walk" /\ req.ctx # Null => req.ctx = Named(req.from, SubSeq(req.name, 1, req.at))

\* A reply and the name it answers agree.  A create hands out the real object that its whole
\* name denotes from then on; a resolve finds an object exactly when the name denotes a
\* real one; after an unbind the name denotes nothing.
RepliesMatchNames ==
  [][\A from \in {req.from}, name \in {req.name} :
       req.pc # "idle" /\ req'.pc = "idle" /\ name # <<>> =>
         /\ req.op \in {"create_context", "create_entity"} =>
              reply'.id = Named(from, name)' /\ reply'.id \in live' \ placeholder'
         /\ req.op = "resolve" =>
              reply'.id = IF Named(from, name) \in placeholder THEN Null
                          ELSE Named(from, name)
         /\ req.op \in {"unbind", "remove_entity"} =>
              /\ Named(from, name)' = Null
              /\ reply'.status = 1 <=> Named(from, name) # Null]_vars

\* An id handed out once never comes to denote another object.
IdsNotReused == [][\A o \in live' \ live : kind[o] = "none"]_vars

---------------------------------------------------------------------------
(* The inductive invariant. *)

\* Ids from counter on have no trace in the heap; the names and the referrers of an object
\* go with it; every object that exists is a context or an entity.
Fresh ==
  /\ \A o \in Ids : o >= counter => kind[o] = "none" /\ created[o] = 0 /\ o \notin live
  /\ \A o \in Ids : parent[o] < counter
  /\ \A o, c \in Ids : c >= counter => referrers[o][c] = 0
  /\ \A o \in Ids \ live : name_map[o] = NoBindings /\ referrers[o] = NoReferrers
  /\ \A o \in live : kind[o] \in {"context", "entity"}

\* A bind in progress holds an object that exists.  What is bound or removed was found, not
\* created.
InFlight ==
  /\ req.src \in live \cup {Null}
  /\ req.src # Null => Len(req.link) >= 2
  /\ req.op \in {"bind_context", "bind_entity"} /\ req.src = Null => req.goal = "find"
  /\ req.op = "remove_context" => req.goal = "find"
  /\ req.pc = "done" /\ req.goal = "find" => req.val \in live \cup {Null}

HeapInv == HeapTypeOK /\ Fresh /\ ReferrersExact /\ NoDanglingBinding /\ LifeAnnounced
RequestInv == RequestTypeOK /\ InFlight /\ NoBadErase

\* The invariant the proofs carry: the heap is consistent whatever request is under way.
IInv == HeapInv /\ RequestInv

---------------------------------------------------------------------------
(* The abstract directory. *)

Objects == Ids \ {DomainId}

\* The heap as clients see it.  Subscribers would have heard of it "again" if a creation were
\* announced twice.
ViewState == [o \in Objects |-> IF o \in placeholder THEN "promised"
                                ELSE IF o \in live THEN "real"
                                ELSE IF kind[o] = "none" THEN "unused" ELSE "removed"]
ViewClass == [o \in Objects |-> kind[o]]
ViewBound == [c \in Objects |-> name_map[c]]
ViewTold == [o \in Objects |-> IF o \in deleted THEN "deleted"
                               ELSE IF created[o] = 0 THEN "nothing"
                               ELSE IF created[o] = 1 THEN "created" ELSE "again"]

View == INSTANCE Namespace
  WITH state <- ViewState, class <- ViewClass, bound <- ViewBound, told <- ViewTold

\* Whatever clients ask for, and in the middle of a request too, the server does one thing
\* at a time that a directory may do: it never gives a name that is taken, brings an object
\* back, forgets a name of an object it removes, or lets another object's name go with it.
IsNamespace == View!Spec

---------------------------------------------------------------------------
(* What the client's header says and the server does not do. *)

\* pds_remove_context: "All bindings held by the context are unbound": no object still
\* lists a context that was removed.
RemovedContextLetsGo ==
  \A o \in live, c \in Ids : domain_up /\ referrers[o][c] > 0 => c \in live

\* pds_bind_entity_to_name and pds_bind_context_by_id: "Returns 1 if the new binding is
\* successful, -1 otherwise".
BoundAsReplied ==
  [][req.src # Null /\ req'.pc = "idle" /\ reply'.status = 1
     => name_map'[req.val][Last(req.link)] = req.src]_vars

\* pds_create_context: a context id that is present makes the name relative to that
\* context; only the null id makes it absolute.
RelativeToBase ==
  req.pc = "walk" /\ req.base # Null => req.from = req.base
=============================================================================
