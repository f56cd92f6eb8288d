--------------------------- MODULE EventChannels ---------------------------
(***************************************************************************)
(* How changes reach subscribers.  Every object of the server, the domain  *)
(* included, is Proactive: it keeps one split stone per event type, set up *)
(* when the type is first needed, and a handle that submits events to it.  *)
(* A registration hangs a bridge stone to the client off the split stone.  *)
(* An aggregation puts a storage stone in front of the split stone, which  *)
(* passes on one event for every Bucket events it stores.                  *)
(*                                                                         *)
(* pdsd runs each handler to completion.  A request is one action here and *)
(* one step Fire for each event it sends; no other request is served until *)
(* the last of them.  The client's side of a registration takes three      *)
(* steps (do_registration): its stone is sent to the server, the server    *)
(* answers, and the handler is associated with the stone.  Events travel   *)
(* from bridge to client in order; EVPath drops an event that reaches a    *)
(* stone without an action.                                                *)
(*                                                                         *)
(* The objects are the root context, and contexts and entities bound in    *)
(* it; an object is called by its first name, which a later object may     *)
(* take again once the object is removed.                                  *)
(***************************************************************************)
EXTENDS Integers, Sequences, FiniteSets, Functions

CONSTANTS
  Entities, Contexts,
  Sinks,      \* the registrations clients make, one client stone each
  DataTypes,  \* the types of data clients set: of "char", "int", "float"
  Bucket,     \* how many events a storage stone gathers
  MaxLog      \* bound: events fired

ASSUME BucketPos == Bucket \in Nat \ {0}
ASSUME MaxLogNat == MaxLog \in Nat
ASSUME SinksFinite == IsFiniteSet(Sinks)
ASSUME DataTypesKnown == DataTypes \subseteq {"char", "int", "float"}
ASSUME ObjectsApart ==
  /\ Entities \cap Contexts = {}
  /\ {"root", "domain"} \cap (Entities \cup Contexts) = {}

Objects == Entities \cup Contexts
Proactives == Objects \cup {"root", "domain"}

\* Event types.  "exist" stands for the two types of creation and deletion.
Types == {"bind", "char", "int", "float", "exist", "domain"}

TypeOf(what) == CASE what \in {"create", "delete"} -> "exist"
                  [] what \in {"bind", "unbind"} -> "bind"
                  [] OTHER -> what

\* What clients register for.  The switches of client_entity.c refuse other types; their
\* case for the creation of an entity is commented out.
Channels == {<<"domain", "domain">>, <<"root", "bind">>}
            \cup (Contexts \X {"bind", "exist"}) \cup (Entities \X ({"bind"} \cup DataTypes))

VARIABLES
  up,       \* the domain exists
  status,   \* each object: "absent", "placeholder" or "real"
  stones,   \* Proactive's parallel lists formats_list_, stones_, splits_, source_handles_
  todo,     \* events the handler that runs has yet to send
  sink,     \* each registration: its channel and how far the client is with it
  wire,     \* events between a bridge stone and the client's stone
  got,      \* events the client's handler was called with
  missed,   \* events that reached the client's stone before the handler was associated
  log,      \* history: the events sent
  since,    \* history: how many events were sent before the bridge stone was added
  until,    \* history: how many when the object was deleted; Open before
  dropped   \* history: events left in a storage stone that no longer has a source

server == <<up, status, stones, todo, log, dropped>>
client == <<sink, got, missed>>
vars == <<server, client, wire, since, until>>

---------------------------------------------------------------------------
(* Stones.  An event is the position of its log entry.  What a stone passes on is a       *)
(* sequence of them: a single event, or those a bucket gathered.                           *)

NewStone(t) == [type |-> t, stored |-> FALSE, held |-> <<>>, targets |-> {}]

Has(list, t) == \E i \in DOMAIN list : list[i].type = t

\* Mutant: the last stone of a type, not the first.
LastStoneOf(list, t) ==
  CHOOSE i \in DOMAIN list : list[i].type = t /\ \A j \in i + 1 .. Len(list) : list[j].type # t

\* Proactive::determine_stone_set_up.
StoneOf(list, t) ==
  CHOOSE i \in DOMAIN list : list[i].type = t /\ \A j \in 1 .. i - 1 : list[j].type # t

\* Proactive::set_up_stone, if the type has none.
SetUp(list, t) == IF Has(list, t) THEN list ELSE Append(list, NewStone(t))

\* Entity::make_real sets up these whether or not a placeholder has some of them already.
RealStones == [i \in 1 .. 4 |-> NewStone(<<"bind", "char", "int", "float">>[i])]

\* Context's constructors set up these, Entity's none.
ContextStones == <<NewStone("bind"), NewStone("exist")>>

\* Mutant: the bucket passes on one event too early.
PassEarly(stone, n) ==
  IF ~stone.stored THEN [out |-> <<<<n>>>>, held |-> <<>>]
  ELSE IF Len(stone.held) + 2 = Bucket
  THEN [out |-> <<Append(stone.held, n)>>, held |-> <<>>]
  ELSE [out |-> <<>>, held |-> Append(stone.held, n)]

\* Mutant: the event that fills the bucket is not passed on with the others.
PassWithoutLast(stone, n) ==
  IF ~stone.stored THEN [out |-> <<<<n>>>>, held |-> <<>>]
  ELSE IF Len(stone.held) + 1 = Bucket
  THEN [out |-> <<stone.held>>, held |-> <<>>]
  ELSE [out |-> <<>>, held |-> Append(stone.held, n)]

\* EVsubmit on the handle of a channel: what the stone passes on, and what it holds
\* afterwards.  The rolling bucket passes on when it is full and is then emptied.
Pass(stone, n) ==
  IF ~stone.stored THEN [out |-> <<<<n>>>>, held |-> <<>>]
  ELSE IF Len(stone.held) + 1 = Bucket
  THEN [out |-> <<Append(stone.held, n)>>, held |-> <<>>]
  ELSE [out |-> <<>>, held |-> Append(stone.held, n)]

Held(list) == UNION {Range(list[i].held) : i \in DOMAIN list}
Targets(list) == UNION {list[i].targets : i \in DOMAIN list}

\* The bound on until: more than the events there can be.
Open == MaxLog + Cardinality(Sinks) + 1

Event(o, what) == [of |-> o, what |-> what]

\* Entities tell of their creation and deletion on the domain's channel only.
TellsItself(e) == ~(e.of \in Entities /\ TypeOf(e.what) = "exist")

\* ContextBindable::send_event: the domain's channel first, then the object's own.  The
\* deletion event is the last of its object, which the handler then deletes.
Fire ==
  LET e == Head(todo)
      n == Len(log) + 1
      t == TypeOf(e.what)
      list == SetUp(stones[e.of], t)
      i == StoneOf(list, t)
      result == Pass(list[i], n)
      domain == stones["domain"][StoneOf(stones["domain"], "domain")].targets
  IN
  /\ todo # <<>>
  /\ todo' = Tail(todo)
  /\ log' = Append(log, e)
  /\ stones' = [stones EXCEPT ![e.of] =
                  IF e.what = "delete" THEN <<>>
                  ELSE IF TellsItself(e) THEN [list EXCEPT ![i].held = result.held]
                  ELSE @]
  /\ status' = IF e.what = "delete" THEN [status EXCEPT ![e.of] = "absent"] ELSE status
  /\ wire' = [s \in Sinks |->
                wire[s] \o (IF s \in domain THEN <<<<n>>>>
                            ELSE IF TellsItself(e) /\ s \in list[i].targets THEN result.out
                            ELSE <<>>)]
  /\ IF e.what = "delete"
     THEN /\ dropped' = dropped \cup Held([list EXCEPT ![i].held = result.held])
          /\ until' = [s \in Sinks |-> IF s \in Targets(list) THEN n ELSE until[s]]
     ELSE UNCHANGED <<dropped, until>>
  /\ UNCHANGED <<up, client, since>>

---------------------------------------------------------------------------
(* Requests. *)

Serving(events) ==
  /\ up /\ todo = <<>>
  /\ Len(log) + Len(events) <= MaxLog    \* bound
  /\ todo' = events

\* The stones of an object that is constructed unless it is there already.
Constructed(o) == IF status[o] = "absent" /\ o \in Contexts THEN ContextStones ELSE stones[o]

\* Mutant: a placeholder is taken for the object.
PromotedNot(o) ==
  [status |-> IF status[o] = "absent" THEN "real" ELSE status[o],
   list |-> Constructed(o) \o (IF status[o] = "absent" /\ o \in Entities THEN RealStones ELSE <<>>),
   events |-> IF status[o] = "absent" THEN <<Event(o, "create")>> ELSE <<>>]

\* make_real on an object that is not real yet.
Promoted(o) ==
  [status |-> "real",
   list |-> Constructed(o) \o (IF status[o] # "real" /\ o \in Entities THEN RealStones ELSE <<>>),
   events |-> IF status[o] # "real" THEN <<Event(o, "create")>> ELSE <<>>]

\* A new object is bound in the root, which sends the bind event, before it is made real.
Bound(o) == IF status[o] = "absent" THEN <<Event("root", "bind")>> ELSE <<>>

\* resolve_or_create_name, then for an entity its data.
Create(o, data) ==
  LET p == Promoted(o) IN
  /\ Serving(Bound(o) \o p.events \o data)
  /\ status' = [status EXCEPT ![o] = p.status]
  /\ stones' = [stones EXCEPT ![o] = p.list]
  /\ UNCHANGED <<up, log, dropped, client, wire, since, until>>

CreateEntity(e, t) == Create(e, <<Event(e, t)>>)
CreateContext(c) == Create(c, <<>>)

\* Mutant: new attributes are announced too.
SetDataAndAttributes(e, t) ==
  /\ status[e] = "real"
  /\ Serving(<<Event(e, t), Event(e, "attrs")>>)
  /\ UNCHANGED <<up, status, stones, log, dropped, client, wire, since, until>>

\* handle_entity_data without CreateObjIfNotFound.
SetData(e, t) ==
  /\ status[e] = "real"
  /\ Serving(<<Event(e, t)>>)
  /\ UNCHANGED <<up, status, stones, log, dropped, client, wire, since, until>>

\* Domain::bind_entity: the entity tells of the bind also when the name was taken.
BindEntity(e, taken) ==
  /\ status[e] = "real"
  /\ Serving(IF taken THEN <<Event(e, "bind")>> ELSE <<Event("root", "bind"), Event(e, "bind")>>)
  /\ UNCHANGED <<up, status, stones, log, dropped, client, wire, since, until>>

\* Domain::remove_binding on a further name of the object.
Unbind(o) ==
  /\ status[o] = "real"
  /\ Serving(<<Event(o, "unbind")>>)
  /\ UNCHANGED <<up, status, stones, log, dropped, client, wire, since, until>>

\* Domain::remove_entity and Domain::remove_context.
Remove(o) ==
  /\ status[o] = "real"
  /\ Serving(<<Event(o, "delete")>>)
  /\ UNCHANGED <<up, status, stones, log, dropped, client, wire, since, until>>

\* Proactive::set_aggregate_stone: the new storage stone takes the place of an earlier one,
\* with what that one holds.
Aggregate(e, t) ==
  LET list == SetUp(stones[e], t)
      i == StoneOf(list, t)
  IN
  /\ status[e] = "real"
  /\ Serving(<<>>)
  /\ stones' = [stones EXCEPT ![e] = [list EXCEPT ![i].stored = TRUE, ![i].held = <<>>]]
  /\ dropped' = dropped \cup {list[i].held[j] : j \in DOMAIN list[i].held}
  /\ UNCHANGED <<up, status, log, client, wire, since, until>>

\* ~Domain sends no event.  Contexts other than the root stay on the heap, out of reach.
RemoveDomain ==
  /\ Serving(<<>>)
  /\ up' = FALSE
  /\ status' = [o \in Objects |-> IF o \in Contexts THEN status[o] ELSE "absent"]
  /\ stones' = [p \in Proactives |-> IF p \in Contexts THEN stones[p] ELSE <<>>]
  /\ dropped' = dropped \cup UNION {Held(stones[p]) : p \in Proactives \ Contexts}
  /\ until' = [s \in Sinks |-> IF \E p \in Proactives \ Contexts : s \in Targets(stones[p])
                               THEN Len(log) ELSE until[s]]
  /\ UNCHANGED <<log, client, wire, since>>

---------------------------------------------------------------------------
(* Registrations. *)

Sink(s, state) == sink' = [sink EXCEPT ![s].state = state]

\* do_registration allocates the client's stone and sends the request.
Register(s, channel) ==
  /\ sink[s].state = "idle"
  /\ sink' = [sink EXCEPT ![s] = [channel |-> channel, state |-> "asked"]]
  /\ UNCHANGED <<server, got, missed, wire, since, until>>

\* handle_evpath_msg: an object that does not exist is created as a placeholder, bound in
\* the root; add_target hangs the bridge stone off the stone of the channel.  What the
\* storage stone of the channel holds is still to come to the new target.
GetStone(s) ==
  LET o == sink[s].channel[1]
      list == SetUp(IF o \in Objects THEN Constructed(o) ELSE stones[o], sink[s].channel[2])
      i == StoneOf(list, sink[s].channel[2])
  IN
  /\ sink[s].state = "asked" /\ todo = <<>>
  /\ IF up
     THEN /\ todo' = IF o \in Objects THEN Bound(o) ELSE <<>>
          /\ stones' = [stones EXCEPT ![o] = [list EXCEPT ![i].targets = @ \cup {s}]]
          /\ status' = IF o \in Objects /\ status[o] = "absent"
                       THEN [status EXCEPT ![o] = "placeholder"] ELSE status
          /\ since' = [since EXCEPT ![s] = IF list[i].held = <<>> THEN Len(log)
                                           ELSE list[i].held[1] - 1]
          /\ Sink(s, "ok")
     ELSE Sink(s, "error") /\ UNCHANGED <<stones, status, todo, since>>
  /\ UNCHANGED <<up, log, dropped, got, missed, wire, until>>

\* Mutant: an answer that is an error is not waited for.
AssociateIfOk(s) ==
  /\ sink[s].state = "ok" /\ Sink(s, "on")
  /\ UNCHANGED <<server, got, missed, wire, since, until>>

\* The answer is in: the handler is associated with the stone, or the stone is freed.
Associate(s) ==
  /\ \/ sink[s].state = "ok" /\ Sink(s, "on")
     \/ sink[s].state = "error" /\ Sink(s, "failed")
  /\ UNCHANGED <<server, got, missed, wire, since, until>>

\* Mutant: a cancelled registration holds its events up.
DeliverUnlessCancelled(s) ==
  /\ wire[s] # <<>> /\ sink[s].state # "cancelled"
  /\ wire' = [wire EXCEPT ![s] = Tail(@)]
  /\ IF sink[s].state = "on"
     THEN got' = [got EXCEPT ![s] = Append(@, Head(wire[s]))] /\ UNCHANGED missed
     ELSE missed' = [missed EXCEPT ![s] = Append(@, Head(wire[s]))] /\ UNCHANGED got
  /\ UNCHANGED <<server, sink, since, until>>

\* An event reaches the client's stone.
Deliver(s) ==
  /\ wire[s] # <<>>
  /\ wire' = [wire EXCEPT ![s] = Tail(@)]
  /\ IF sink[s].state \in {"on", "cancelled"}
     THEN got' = [got EXCEPT ![s] = Append(@, Head(wire[s]))] /\ UNCHANGED missed
     ELSE missed' = [missed EXCEPT ![s] = Append(@, Head(wire[s]))] /\ UNCHANGED got
  /\ UNCHANGED <<server, sink, since, until>>

\* pds_cancel_changes_registration returns 1; what it did is compiled out.
Cancel(s) ==
  /\ sink[s].state = "on"
  /\ Sink(s, "cancelled")
  /\ UNCHANGED <<server, got, missed, wire, since, until>>
---------------------------------------------------------------------------
Init ==
  /\ up = TRUE
  /\ status = [o \in Objects |-> "absent"]
  /\ stones = [p \in Proactives |-> CASE p = "domain" -> <<NewStone("domain")>>
                                      [] p = "root" -> ContextStones
                                      [] OTHER -> <<>>]
  /\ todo = <<>>
  /\ sink = [s \in Sinks |-> [channel |-> <<"domain", "domain">>, state |-> "idle"]]
  /\ wire = [s \in Sinks |-> <<>>]
  /\ got = [s \in Sinks |-> <<>>]
  /\ missed = [s \in Sinks |-> <<>>]
  /\ log = <<>>
  /\ since = [s \in Sinks |-> Open]
  /\ until = [s \in Sinks |-> Open]
  /\ dropped = {}

Request ==
  \/ \E e \in Entities : \/ \E t \in DataTypes : CreateEntity(e, t) \/ SetData(e, t)
                         \/ \E taken \in BOOLEAN : BindEntity(e, taken)
                         \/ \E t \in DataTypes : Aggregate(e, t)
  \/ \E c \in Contexts : CreateContext(c)
  \/ \E o \in Objects : Unbind(o) \/ Remove(o)
  \/ RemoveDomain

Client(s) ==
  \/ \E channel \in Channels : Register(s, channel)
  \/ Associate(s)
  \/ Deliver(s)
  \/ Cancel(s)

Next == Fire \/ Request \/ \E s \in Sinks : GetStone(s) \/ Client(s)

\* The server sends what a handler sends, and serves every registration in the end, since
\* messages are handled in the order they arrive; the client runs its network.
Fairness ==
  /\ WF_vars(Fire)
  /\ \A s \in Sinks : SF_vars(GetStone(s)) /\ WF_vars(Associate(s)) /\ WF_vars(Deliver(s))

Spec == Init /\ [][Next]_vars /\ Fairness

---------------------------------------------------------------------------
(* Properties. *)

Stone == [type : Types, stored : BOOLEAN, held : Seq(Nat), targets : SUBSET Sinks]
LogEntry == [of : Objects \cup {"root"},
             what : {"create", "delete", "bind", "unbind"} \cup DataTypes]

TypeOK ==
  /\ up \in BOOLEAN
  /\ status \in [Objects -> {"absent", "placeholder", "real"}]
  /\ stones \in [Proactives -> Seq(Stone)]
  /\ todo \in Seq(LogEntry)
  /\ sink \in [Sinks -> [channel : Channels,
                         state : {"idle", "asked", "ok", "error", "on", "failed", "cancelled"}]]
  /\ wire \in [Sinks -> Seq(Seq(Nat))]
  /\ got \in [Sinks -> Seq(Seq(Nat))]
  /\ missed \in [Sinks -> Seq(Seq(Nat))]
  /\ log \in Seq(LogEntry)
  /\ since \in [Sinks -> 0 .. Open]
  /\ until \in [Sinks -> 0 .. Open]
  /\ dropped \subseteq 1 .. Open

Registered(s) == sink[s].state \in {"ok", "on", "cancelled"}

\* Each registration the server granted hangs off exactly one stone of the object as long
\* as the object exists, and it is the stone the channel's events are submitted to: an
\* object that was a placeholder has several stones of a type, and the targets of all but
\* the first would never hear a thing.
SubscribersAreServed ==
  \A s \in Sinks, p \in Proactives : \A i \in DOMAIN stones[p] :
    s \in stones[p][i].targets =>
      /\ Registered(s)
      /\ sink[s].channel = <<p, stones[p][i].type>>
      /\ i = StoneOf(stones[p], stones[p][i].type)

\* The events a registration is owed: those of its channel sent between its registration
\* and the deletion of the object, without what was left in a replaced storage stone.
Concerns(e, channel) == channel[1] = "domain" \/ channel = <<e.of, TypeOf(e.what)>>

Due(s) == {n \in since[s] + 1 .. Len(log) : n <= until[s] /\ Concerns(log[n], sink[s].channel)}
          \ (IF sink[s].channel[1] = "domain" THEN {} ELSE dropped)

Stream(s) == missed[s] \o got[s] \o wire[s]
HeldFor(s) == LET list == stones[sink[s].channel[1]]
              IN UNION {Range(list[i].held) : i \in {j \in DOMAIN list : s \in list[j].targets}}

\* Nothing is lost, repeated, reordered or sent to the wrong channel: what reached the
\* client, what is under way to it and what its storage stone still holds are together the
\* events it is owed, in the order they were sent.
NoGap ==
  \A s \in Sinks : Registered(s) =>
    /\ UNION {Range(Stream(s)[i]) : i \in DOMAIN Stream(s)} = Due(s) \ HeldFor(s)
    /\ \A i \in DOMAIN Stream(s) :
         /\ \A k \in 1 .. Len(Stream(s)[i]) - 1 : Stream(s)[i][k] < Stream(s)[i][k + 1]
         /\ i > 1 => Stream(s)[i - 1][Len(Stream(s)[i - 1])] < Stream(s)[i][1]

\* The registrations as clients see them: the channel each was granted, the ones that hang
\* off a stone, those with a handler, and the events each has had or is still to get.
Contents(stream) == UNION {Range(stream[i]) : i \in DOMAIN stream}
ChannelOf == [s \in Sinks |-> IF Registered(s) THEN sink[s].channel ELSE <<>>]
HangsOff(s) == LET list == stones[sink[s].channel[1]]
               IN \E i \in DOMAIN list : s \in list[i].targets
Served == {s \in Sinks : HangsOff(s)}
Listening == {s \in Sinks : sink[s].state \in {"on", "cancelled"}}
Owed == [s \in Sinks |-> Contents(wire[s]) \cup HeldFor(s)]

Promised ==
  INSTANCE Subscriptions WITH
    Events <- LogEntry, None <- <<>>,
    Concerned <- [e \in LogEntry |-> {c \in Channels : Concerns(e, c)}],
    Ended <- [e \in LogEntry |-> {c \in Channels : e = Event(c[1], "delete")}],
    Lasting <- {c \in Channels : c[1] \in Contexts},
    channel <- ChannelOf, open <- Served, listening <- Listening, owed <- Owed,
    heard <- [s \in Sinks |-> Contents(got[s])],
    missed <- [s \in Sinks |-> Contents(missed[s])]

\* Whatever requests, stones and registrations do, it is what Subscriptions promises
\* (Proactive.cc, do_registration in client_entity.c).
KeepsPromises == Promised!Spec

\* The registration hangs off a storage stone.
Aggregated(s) == LET list == stones[sink[s].channel[1]]
                 IN \E i \in DOMAIN list : s \in list[i].targets /\ list[i].stored

\* What a step sends to a registration is one event, or a bucketful from a storage stone.
SendsFull ==
  \A s \in Sinks : Len(wire'[s]) > Len(wire[s]) =>
    Len(wire'[s][Len(wire'[s])]) = IF Aggregated(s) THEN Bucket ELSE 1

\* A storage stone passes on as soon as it is full (storage_stone.c:178): it never has a
\* bucketful, and passes on no less, whatever was held when it was set up, replaced or
\* given a target.
BucketsPassOn ==
  /\ [](\A p \in Proactives : \A i \in DOMAIN stones[p] : Len(stones[p][i].held) < Bucket)
  /\ [][SendsFull]_vars

\* To the domain's subscribers an entity has data only between its creation and its
\* deletion: the log never shows data of an entity that was not created, or is gone.
DataAfterCreation ==
  \A n \in DOMAIN log : log[n].what \in DataTypes =>
    \E m \in 1 .. n - 1 : /\ log[m] = Event(log[n].of, "create")
                          /\ \A k \in m + 1 .. n : log[k] # Event(log[n].of, "delete")

\* A registration is answered, and the client has its handler in place or its stone freed.
Answered ==
  \A s \in Sinks : sink[s].state = "asked" ~> sink[s].state \in {"on", "failed", "cancelled"}

\* What is owed to a registration and not held back by an aggregation reaches the client.
Heard ==
  \A s \in Sinks, n \in 1 .. Open :
    Registered(s) /\ n \in Due(s) \ HeldFor(s)
      ~> \E i \in DOMAIN got[s] \cup DOMAIN missed[s] :
           \/ i \in DOMAIN got[s] /\ n \in Range(got[s][i])
           \/ i \in DOMAIN missed[s] /\ n \in Range(missed[s][i])
=============================================================================
