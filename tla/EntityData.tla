----------------------------- MODULE EntityData -----------------------------
(***************************************************************************)
(* What entities hold: data of three types and attributes, and the calls   *)
(* of the agent library that read and write them.                          *)
(*                                                                         *)
(* A call is three steps: the client's function fills a message and sends  *)
(* it, the server's handler runs to completion, and the function reads the *)
(* reply.  Calls of different clients overlap; one client makes one at a   *)
(* time.  The domain, its root context and entities have attributes; all   *)
(* entities are called by one name in the root, bound to one entity at a   *)
(* time, or by their ids.  How names are walked is the matter of Directory.*)
(*                                                                         *)
(* Data is its number of elements and its first element; 0 is no element.  *)
(* What clients write is a fresh stamp each time.                          *)
(***************************************************************************)
EXTENDS Integers, Sequences, FiniteSets

CONSTANTS
  Clients,
  Atoms,     \* attribute names
  DataTypes, \* the types clients read and write: of "char", "int", "float"
  OptionSets,\* the sets of options they get data with
  Uses,      \* the operations each client uses
  Objects,   \* Domain, Root or both: the other objects whose attributes clients use
  MaxId,     \* bound: the largest obj_id the instance hands out
  MaxStamp   \* bound: calls that write

ASSUME MaxIdNat == MaxId \in Nat /\ MaxId >= 2
ASSUME ObjectsKnown == Objects \subseteq {1, 2}   \* Domain and Root
ASSUME MaxStampNat == MaxStamp \in Nat
ASSUME TypesKnown == DataTypes \subseteq {"char", "int", "float"}
ASSUME OptionsKnown == OptionSets \subseteq SUBSET {"create", "buffer", "size"}
ASSUME UsesKnown ==
  Uses \in [Clients -> SUBSET {"create", "get", "set", "get_attrs", "set_attrs", "remove"}]

Null == 0
Domain == 1
Root == 2
Ids == Root + 1 .. MaxId
Holders == Ids \cup {Domain, Root}

Types == {"char", "int", "float"}
IntSize == 4    \* sizeof(int)

Nothing == [size |-> 0, word |-> 0]
Datum == {Nothing} \cup [size : {1, IntSize}, word : 0 .. MaxStamp]

AttrLists == [Atoms -> 0 .. MaxStamp]
NoAttrs == [a \in Atoms |-> 0]

\* The options of pdsdefs.h and formats.h.
Options == {"create", "buffer", "size"}

\* Following a null pointer, writing past the end of a reply, and writing through a pointer
\* that was never set.
Faults == {"none", "null", "overrun", "wild"}

VARIABLES
  counter,  \* objectId::counter
  live,     \* entities that exist
  named,    \* the entity the name denotes, or Null
  data,     \* Entity::char_data, int_data, float_data; no data where it is a null pointer
  attrs,    \* attributes_ of every object
  told,     \* the data in the last event of each type
  history,  \* all data each entity was given, in order
  calls,    \* each client's call
  known,    \* how much of each history a client has seen answers from
  stamp,    \* values written so far
  fault     \* why the server stopped, or "none"

names == <<counter, live, named>>
contents == <<data, attrs, told, history>>
vars == <<names, contents, calls, known, stamp, fault>>

---------------------------------------------------------------------------
(* The client's half of a call: the functions of client_entity.c and client_hl.c. *)

\* A call names the object by its id (on), or is made by name (on is Null).  lookup marks
\* pds_lookup_int.  status, back and list are the reply.  hit, the entity that was found,
\* and at, the length of its history then, are for the properties.
Idle == [pc |-> "idle", op |-> "get", type |-> "char", on |-> Null, options |-> {},
         datum |-> Nothing, attrs |-> NoAttrs, lookup |-> FALSE,
         status |-> 0, hit |-> Null, at |-> 0, back |-> Nothing, list |-> NoAttrs]

Ask(c, call) ==
  /\ fault = "none" /\ calls[c].pc = "idle" /\ call.op \in Uses[c]
  /\ calls' = [calls EXCEPT ![c] = [call EXCEPT !.pc = "sent"]]
  /\ UNCHANGED <<names, contents, known, fault>>

Write(c, call) ==
  /\ stamp < MaxStamp   \* bound
  /\ stamp' = stamp + 1
  /\ Ask(c, call)

Fresh(n) == IF n = 0 THEN Nothing ELSE [size |-> n, word |-> stamp + 1]
Given(a) == [NoAttrs EXCEPT ![a] = stamp + 1]

\* Ids that were handed out, whether or not their entities still exist.
KnownIds == {i \in Ids : i < counter}

\* pds_create_entity_char, _int and _float: with data or without, with an attribute.
CreateEntity(c, type, n, a) ==
  Write(c, [Idle EXCEPT !.op = "create", !.type = type, !.options = {"create"},
                        !.datum = Fresh(n), !.attrs = Given(a)])

\* pds_get_entity_*_data and pds_get_entity_*_data_by_id, for parts of the data or, without
\* options, all of it.
GetData(c, type, id, options) ==
  /\ Ask(c, [Idle EXCEPT !.op = "get", !.type = type, !.on = id, !.options = options])
  /\ UNCHANGED stamp

\* pds_lookup_string and pds_lookup_blob read characters, pds_lookup_int a number.
Lookup(c, type) ==
  /\ Ask(c, [Idle EXCEPT !.op = "get", !.type = type, !.lookup = (type = "int")])
  /\ UNCHANGED stamp

\* pds_set_entity_*_data and pds_set_entity_*_data_by_id.
SetData(c, type, id, n, options) ==
  Write(c, [Idle EXCEPT !.op = "set", !.type = type, !.on = id, !.datum = Fresh(n),
                        !.options = options])

\* pds_bind_string and pds_bind_blob: as many characters as there are, none for an empty
\* string.  pds_bind_int sends sizeof(int) elements, the value and what follows it.
Bind(c, type, n) ==
  Write(c, [Idle EXCEPT !.op = "set", !.type = type, !.options = {"create"},
                        !.datum = Fresh(IF type = "int" THEN IntSize ELSE n)])

\* pds_get_entity_attributes and _by_id, which leave the options as they find them.
GetAttributes(c, id, options) ==
  /\ Ask(c, [Idle EXCEPT !.op = "get_attrs", !.on = id, !.options = options])
  /\ UNCHANGED stamp

\* pds_set_entity_attributes and _by_id.
SetAttributes(c, id, a, options) ==
  Write(c, [Idle EXCEPT !.op = "set_attrs", !.on = id, !.attrs = Given(a),
                        !.options = options])

\* pds_set_domain_attrs and pds_set_context_attrs; pds_get_domain_attrs and
\* pds_get_context_attrs.
SetObjectAttributes(c, object, a) ==
  Write(c, [Idle EXCEPT !.op = "set_attrs", !.on = object, !.attrs = Given(a)])

GetObjectAttributes(c, object) ==
  /\ Ask(c, [Idle EXCEPT !.op = "get_attrs", !.on = object])
  /\ UNCHANGED stamp

\* pds_remove_entity and pds_remove_entity_by_id.
Remove(c, id) ==
  /\ Ask(c, [Idle EXCEPT !.op = "remove", !.on = id])
  /\ UNCHANGED stamp

---------------------------------------------------------------------------
(* The server's half: the handlers of pdsd_handlers.cc. *)

Served(c, op) == fault = "none" /\ calls[c].pc = "sent" /\ calls[c].op = op

\* Mutant: the name is tried when the id denotes nothing.
TargetByEither(call) ==
  CASE call.on \in live -> call.on
    [] call.on \notin live /\ named # Null -> named
    [] OTHER -> IF "create" \in call.options THEN counter ELSE Null

\* The entity a request is for: that of its id, if it sent one and the entity exists;
\* otherwise that of the name, which may have to be made.
Target(call) ==
  CASE call.on # Null -> IF call.on \in live THEN call.on ELSE Null
    [] call.on = Null /\ named # Null -> named
    [] OTHER -> IF "create" \in call.options THEN counter ELSE Null

\* Mutant: a new entity is bound without being entered among the objects.
MadeUnlisted(e) ==
  IF e = counter
  THEN e \in Ids /\ counter' = counter + 1 /\ named' = e /\ UNCHANGED live
  ELSE UNCHANGED names

\* Entity's constructor and its binding to the name, when there was none.
Made(e) ==
  IF e = counter
  THEN /\ e \in Ids   \* bound
       /\ counter' = counter + 1 /\ live' = live \cup {e} /\ named' = e
  ELSE UNCHANGED names

\* Mutant: the attributes sent replace those there were.
MergeAnew(old, new) == IF new = NoAttrs THEN old ELSE new

\* attr_merge_lists: an attribute sent overrides one there was.
Merge(old, new) == [a \in Atoms |-> IF new[a] # 0 THEN new[a] ELSE old[a]]

\* register_handlers: the request that creates a float entity goes to the handler for int.
HandlerType(type) == IF type = "char" THEN "char" ELSE "int"

\* Mutant: data is put in without its event.
StoreQuietly(e, type, datum) ==
  /\ data' = [data EXCEPT ![e][type] = datum]
  /\ history' = [history EXCEPT ![e][type] = Append(@, datum)]
  /\ UNCHANGED told

\* Entity::set_data, then the event for that type of data.
Store(e, type, datum) ==
  /\ data' = [data EXCEPT ![e][type] = datum]
  /\ told' = [told EXCEPT ![e][type] = datum]
  /\ history' = [history EXCEPT ![e][type] = Append(@, datum)]

\* What a client has in hand once its call is answered.
Reply(call) ==
  [Idle EXCEPT !.pc = "answered", !.op = call.op, !.type = call.type, !.lookup = call.lookup,
               !.options = call.options \cap {"buffer", "size"}]

Answer(c, status, e, at) ==
  /\ calls' = [calls EXCEPT ![c] = [Reply(@) EXCEPT !.status = status, !.hit = e, !.at = at]]
  /\ UNCHANGED <<known, stamp, fault>>

Crash(why) ==
  /\ fault' = why
  /\ UNCHANGED <<names, contents, calls, known, stamp>>

\* handle_create_entity.  The handler for int prints the first element before it stores it.
HandleCreate(c) ==
  LET call == calls[c]
      e == Target(call)
      type == HandlerType(call.type)
  IN
  /\ Served(c, "create")
  /\ IF type = "int" /\ call.datum.size = 0
     THEN Crash("null")
     ELSE /\ Made(e)
          /\ attrs' = [attrs EXCEPT ![e] = Merge(@, call.attrs)]
          /\ Store(e, type, call.datum)
          /\ Answer(c, 1, e, Len(history[e][type]) + 1)

\* Mutant: floats are looked for among the ints.
SelectedAsInt(e, type, options) ==
  data[e][HandlerType(type)]

\* What a get answers: all of the data without options, else the parts asked for.  The
\* elements travel as an array of size elements, so without a size none do.
Selected(e, type, options) ==
  LET all == options \cap {"buffer", "size"} = {}
      size == IF all \/ "size" \in options THEN data[e][type].size ELSE 0
  IN [size |-> size,
      word |-> IF size > 0 /\ (all \/ "buffer" \in options) THEN data[e][type].word ELSE 0]

\* handle_entity_data takes a message without elements for a get, and leaves the status of a
\* get that found its entity as it was: -1 or not.  A set without elements is answered in
\* the layout of a get, past the end of its reply.
AnswerData(c) ==
  LET call == calls[c]
      e == Target(call)
  IN
  /\ fault = "none" /\ call.pc = "sent" /\ call.op \in {"get", "set"} /\ call.datum.size = 0
  /\ \/ /\ Made(e)
        /\ \E status \in IF e = Null THEN {-1} ELSE {-1, 1} :
             calls' = [calls EXCEPT
               ![c] = [Reply(call) EXCEPT !.status = status, !.hit = e,
                         !.back = IF e = Null \/ call.op = "set" THEN Nothing
                                  ELSE Selected(e, call.type, call.options)]]
        /\ UNCHANGED <<contents, known, stamp, fault>>
     \/ call.op = "set" /\ Crash("overrun")

\* handle_entity_data with elements.
StoreData(c) ==
  LET call == calls[c]
      e == Target(call)
  IN
  /\ Served(c, "set") /\ call.datum.size > 0
  /\ Made(e)
  /\ IF e = Null
     THEN Answer(c, -1, Null, 0) /\ UNCHANGED contents
     ELSE /\ Store(e, call.type, call.datum)
          /\ Answer(c, 1, e, Len(history[e][call.type]) + 1)
          /\ UNCHANGED attrs

OnEntity(call) == call.on \notin {Domain, Root}

\* handle_entity_attributes, for a get.
AnswerAttributes(c) ==
  LET call == calls[c]
      e == Target(call)
  IN
  /\ Served(c, "get_attrs") /\ OnEntity(call)
  /\ Made(e)
  /\ calls' = [calls EXCEPT
       ![c] = [Reply(call) EXCEPT !.status = IF e = Null THEN -1 ELSE 1, !.hit = e,
                                  !.list = IF e = Null THEN NoAttrs ELSE attrs[e]]]
  /\ UNCHANGED <<contents, known, stamp, fault>>

\* handle_entity_attributes, for a set.  No event is sent: send_attr_event is empty.
StoreAttributes(c) ==
  LET call == calls[c]
      e == Target(call)
  IN
  /\ Served(c, "set_attrs") /\ OnEntity(call)
  /\ Made(e)
  /\ attrs' = IF e = Null THEN attrs ELSE [attrs EXCEPT ![e] = Merge(@, call.attrs)]
  /\ Answer(c, IF e = Null THEN -1 ELSE 1, e, 0)
  /\ UNCHANGED <<data, told, history>>

\* handle_domain_attributes and handle_context_attributes write their status through a
\* pointer that is initialised with itself: the server stops, or some other word of it is
\* changed, which is taken to be one that does not matter.  The reply's status is left as it
\* was, and the client reads the attributes from its own message, where there are none.
ObjectAttributes(c) ==
  LET call == calls[c] IN
  /\ fault = "none" /\ call.pc = "sent" /\ call.op \in {"get_attrs", "set_attrs"}
  /\ ~OnEntity(call)
  /\ \/ /\ attrs' = [attrs EXCEPT ![call.on] = Merge(@, call.attrs)]
        /\ \E status \in {-1, 1} : Answer(c, status, Null, 0)
        /\ UNCHANGED <<names, data, told, history>>
     \/ Crash("wild")

Empty == [type \in Types |-> Nothing]

\* handle_remove_entity: by id the entity and its name go, by name only the name.
HandleRemove(c) ==
  LET call == calls[c] IN
  /\ Served(c, "remove")
  /\ IF call.on = Null
     THEN /\ named' = Null
          /\ Answer(c, IF named = Null THEN -1 ELSE 1, Null, 0)
          /\ UNCHANGED <<counter, live, contents>>
     ELSE IF call.on \in live
     THEN /\ live' = live \ {call.on}
          /\ named' = IF named = call.on THEN Null ELSE named
          /\ data' = [data EXCEPT ![call.on] = Empty]
          /\ told' = [told EXCEPT ![call.on] = Empty]
          /\ attrs' = [attrs EXCEPT ![call.on] = NoAttrs]
          /\ Answer(c, 1, Null, 0)
          /\ UNCHANGED <<counter, history>>
     ELSE Crash("null")

---------------------------------------------------------------------------
(* The client reads the reply. *)

At(e, type, i) == IF i = 0 THEN Nothing ELSE history[e][type][i]

\* The places in an entity's history that a get's answer agrees with and that are not before
\* what the client has seen.
Agreeing(c) ==
  LET call == calls[c] IN
  {i \in known[c][call.hit][call.type] .. Len(history[call.hit][call.type]) :
     At(call.hit, call.type, i) = call.back}

\* A get of all the data, and not a set taken for one, that found its entity.
WholeGet(call) ==
  /\ call.op = "get" /\ call.pc = "answered" /\ call.status # -1 /\ call.hit # Null
  /\ call.options \cap {"buffer", "size"} = {}

\* The type of the data a call writes.
WrittenType(call) == IF call.op = "create" THEN HandlerType(call.type) ELSE call.type

\* pds_lookup_int reads the first element whether or not there is one: the client stops.
Return(c) ==
  LET call == calls[c]
      type == WrittenType(call)
  IN
  /\ fault = "none" /\ call.pc = "answered"
  /\ calls' = [calls EXCEPT
       ![c] = IF call.lookup /\ call.status # -1 /\ call.back.word = 0
              THEN [Idle EXCEPT !.pc = "stopped"] ELSE Idle]
  /\ known' \in
       CASE call.op \in {"create", "set"} /\ call.at > 0 ->
              {[known EXCEPT ![c][call.hit][type] = call.at]}
         [] WholeGet(call) /\ Agreeing(c) # {} ->
              {[known EXCEPT ![c][call.hit][type] = i] : i \in Agreeing(c)}
         [] OTHER -> {known}
  /\ UNCHANGED <<names, contents, stamp, fault>>

---------------------------------------------------------------------------
PerData(v) == [e \in Ids |-> [type \in Types |-> v]]

Init ==
  /\ counter = Root + 1 /\ live = {} /\ named = Null
  /\ data = PerData(Nothing) /\ told = PerData(Nothing) /\ history = PerData(<<>>)
  /\ attrs = [o \in Holders |-> NoAttrs]
  /\ calls = [c \in Clients |-> Idle]
  /\ known = [c \in Clients |-> PerData(0)]
  /\ stamp = 0
  /\ fault = "none"

\* What clients call.  The options matter only to calls by name.
Request(c) ==
  \/ \E type \in DataTypes :
       \/ \E n \in {0, 1}, a \in Atoms : CreateEntity(c, type, n, a)
       \/ \E options \in OptionSets : GetData(c, type, Null, options)
       \/ \E options \in SUBSET {"create"}, n \in {0, 1} : SetData(c, type, Null, n, options)
       \/ \E id \in KnownIds :
            \/ \E options \in OptionSets : GetData(c, type, id, options \ {"create"})
            \/ \E n \in {0, 1} : SetData(c, type, id, n, {})
  \/ \E type \in {"char", "int"} \cap DataTypes :
       Lookup(c, type) \/ \E n \in {0, 1} : Bind(c, type, n)
  \/ \E options \in SUBSET {"create"} :
       GetAttributes(c, Null, options) \/ \E a \in Atoms : SetAttributes(c, Null, a, options)
  \/ \E id \in KnownIds :
       GetAttributes(c, id, {}) \/ \E a \in Atoms : SetAttributes(c, id, a, {})
  \/ \E o \in Objects :
       GetObjectAttributes(c, o) \/ \E a \in Atoms : SetObjectAttributes(c, o, a)
  \/ \E id \in KnownIds \cup {Null} : Remove(c, id)

Handle(c) ==
  \/ HandleCreate(c) \/ AnswerData(c) \/ StoreData(c)
  \/ AnswerAttributes(c) \/ StoreAttributes(c) \/ ObjectAttributes(c) \/ HandleRemove(c)

Next == \E c \in Clients : Request(c) \/ Handle(c) \/ Return(c)

Spec == Init /\ [][Next]_vars

---------------------------------------------------------------------------
(* Properties. *)

Call ==
  [pc : {"idle", "sent", "answered", "stopped"},
   op : {"create", "get", "set", "get_attrs", "set_attrs", "remove"},
   type : Types, on : Holders \cup {Null}, options : SUBSET Options,
   datum : Datum, attrs : AttrLists, lookup : BOOLEAN,
   status : {-1, 0, 1}, hit : Ids \cup {Null}, at : Nat, back : Datum, list : AttrLists]

TypeOK ==
  /\ counter \in Root + 1 .. MaxId + 1
  /\ live \subseteq KnownIds
  /\ named \in live \cup {Null}
  /\ data \in [Ids -> [Types -> Datum]]
  /\ told \in [Ids -> [Types -> Datum]]
  /\ history \in [Ids -> [Types -> Seq(Datum)]]
  /\ attrs \in [Holders -> AttrLists]
  /\ calls \in [Clients -> Call]
  /\ known \in [Clients -> [Ids -> [Types -> Nat]]]
  /\ stamp \in 0 .. MaxStamp
  /\ fault \in Faults

\* A subscriber that keeps the data of the last event of each type has what a get would
\* answer: no way of writing data, by name, by id, at creation or as a side effect, leaves
\* the event out, sends it for another type, or sends it and changes nothing.
SubscribersHaveTheData ==
  \A e \in live, type \in Types : told[e][type] = data[e][type]

\* What a client gets never goes back.  Of one entity and type, the answer to a get is not
\* older than any answer the client had before, its own writes included, whatever other
\* clients write and however entities under the same name come and go meanwhile.
GetsGoForward ==
  \A c \in Clients : WholeGet(calls[c]) => Agreeing(c) # {}

\* A request with the id of an entity that is gone fails and changes nothing: not the entity
\* that has the name now, and none is made.
StaleIdsTouchNothing ==
  [][\A c \in Clients :
       calls[c].pc = "sent" /\ calls'[c].pc = "answered"
       /\ calls[c].on \in Ids \ live
       => calls'[c].status = -1 /\ UNCHANGED <<names, contents>>]_vars

\* An attribute that is set stays set and changes to a value sent for it only, on the object
\* the request was for.
AttributesStay ==
  [][\A o \in live' \cup {Domain, Root}, a \in Atoms :
       attrs'[o][a] # attrs[o][a] =>
         \E c \in Clients :
           /\ calls[c].pc = "sent" /\ calls'[c].pc = "answered"
           /\ attrs'[o][a] = calls[c].attrs[a] /\ attrs'[o][a] # 0
           /\ o \in {calls[c].on, calls'[c].hit}]_vars

---------------------------------------------------------------------------
(* Why they hold: the invariant of the proofs. *)

\* An entity that exists, or is still to come, holds what it was given last.
HoldsTheLast ==
  \A e \in Ids, type \in Types :
    e \in live \/ e >= counter =>
      data[e][type] = At(e, type, Len(history[e][type]))

\* Clients have seen no further than there is.
SeenIsThere ==
  \A c \in Clients, e \in Ids, type \in Types : known[c][e][type] <= Len(history[e][type])

\* A call that wrote knows a place in the history of what it wrote.
WroteIsThere(call) ==
  call.at > 0 => call.hit \in Ids /\ call.at <= Len(history[call.hit][WrittenType(call)])

\* Entities are created by name.
CreatesByName(call) ==
  call.pc = "sent" /\ call.op = "create" => call.on = Null /\ "create" \in call.options

\* The invariant that proves the others: events and data agree for all entities, ever.
IInv ==
  /\ TypeOK
  /\ told = data
  /\ HoldsTheLast
  /\ SeenIsThere
  /\ GetsGoForward
  /\ \A c \in Clients : WroteIsThere(calls[c]) /\ CreatesByName(calls[c])
=============================================================================
