--------------------------------- MODULE Rpc ---------------------------------
(***************************************************************************)
(* A call of the agent library from the function that fills the request to *)
(* the value it returns: the request goes out in the client's format, a    *)
(* handler of the server reads it and writes the reply through a struct of *)
(* its own choice, the reply goes back in the server's format, a cleanup   *)
(* function frees what the handler allocated for it, and the function      *)
(* reads what has arrived.  Only which members were written, and by whom,  *)
(* is kept.  What requests do to the directory is in Directory,            *)
(* DomainRegistry and EntityData; their ids are taken to be good here.     *)
(*                                                                         *)
(* The members of a request are "given", "null" or "unset"; its operation  *)
(* is "get", "set" or "stone".                                             *)
(***************************************************************************)
EXTENDS Calls

VARIABLES up,       \* the server runs
          stage,    \* of the call: "idle", "sent", "handled", "replied", "answered"
          call,     \* the call under way, or the last one
          req,      \* its request
          done,     \* what the handler did with it
          reply,    \* the members of the reply the handler wrote
          heap,     \* memory allocated for replies: <<RPC, member>>
          wild,     \* a cleanup freed what its handler did not allocate
          result,   \* what the call returned
          event     \* the last event: its format and the members written

vars == <<up, stage, call, req, done, reply, heap, wild, result, event>>

AllCalls == {NamedCalls[f] : f \in DOMAIN NamedCalls} \cup {DataCalls[f] : f \in DOMAIN DataCalls}

Given(v) == v \notin {"unset", "null"}

-----------------------------------------------------------------------------
(* The handlers: from a request to the set of things they may do.          *)

\* uses: members it acts on; writes: members of the reply's struct layout
\* it writes; fails: the status among them is -1; null: those it sets to a
\* null pointer; heap: those it allocates; cleanup: whether the cleanup
\* function is to be called; ends: the server stops.
Done(layout, uses, writes) ==
  [layout |-> layout, uses |-> uses, writes |-> writes, fails |-> FALSE, null |-> {},
   heap |-> {}, cleanup |-> TRUE, ends |-> FALSE]
Allocating(d, m) == [d EXCEPT !.heap = {m}]
Nulling(d, m) == [d EXCEPT !.null = {m}]
Failing(d) == [d EXCEPT !.fails = TRUE]
\* Mutant: the call of CMrpc_clear_option is missing.
CleanupAsEver(d) == d

NoCleanup(d) == [d EXCEPT !.cleanup = FALSE]
Ending(d) == [d EXCEPT !.ends = TRUE]

Status(uses) == Done("return_status", uses, {"status"})

\* The status goes through a pointer initialised with itself: it may stop
\* the server, land elsewhere, or happen to be the reply.
StatusAstray(d) == {Ending(d), d, [d EXCEPT !.writes = @ \cup {"status"}]}

handle_shutdown_server == {Status({})}

handle_create_domain == {Done("return_domain_id", DomainKey, {"domain_id"})}

handle_remove_domain == {Status({"domain_id"})}

handle_create_context ==
  {Done("return_context_id", {"domain_id", "context_id", "c_name"}, {"context_id"})}

handle_bind_context(m) ==
  LET source == IF Given(m["source_context_name"]) THEN {"source_context_name"}
                ELSE {"source_context_name", "source_context_id"}
      d == Status({"domain_id", "link_name"} \cup source)
  IN {d, Ending(d)}

handle_unbind_context_by_id == {Status({"domain_id", "name"})}

handle_remove_context == {Status({"domain_id", "context_id", "c_name"})}

handle_create_entity ==
  {Done("return_entity_id", {"domain_id", "context_id", "name", "encoded_attr_list", "edata"},
        {"entity_id", "fullname", "options"})}

handle_remove_entity(m) ==
  {Status({"domain_id", "entity_id"}
            \cup IF Given(m["entity_id"]) THEN {} ELSE {"context_id", "entity_name"})}

handle_add_aggregate_entity(m) ==
  {Status({"entity_id"}
            \cup IF Given(m["entity_id"]) THEN {"cod_function", "entity_agg_type"} ELSE {})}

handle_bind_entity ==
  {Status({"domain_id", "source_name", "entity_id", "context_id", "name"})}

handle_unbind == {Status({"domain_id", "context_id", "name"})}

handle_resolve ==
  {Done("resolution_result", {"domain_id", "context_id", "name"},
        {"status", "context_id", "entity_id"})}
\* Mutant: the answer is written as if it were a domain's.
RootAsDomain == {Done("return_domain_id", {"domain_id"}, {"domain_id"})}

handle_get_root_context == {Done("return_context_id", {"domain_id"}, {"context_id"})}

\* A domain or a context: a get allocates the encoded attributes.
ObjectAttributes(layout, m, found) ==
  LET uses == found \cup {"operation"}
      d == IF m["operation"] = "get"
           THEN Allocating(Done(layout, uses, {"encoded_attr_list"}), "encoded_attr_list")
           ELSE Done("return_status", uses \cup {"encoded_attr_list"}, {})
  IN StatusAstray(NoCleanup(d))

handle_context_attributes(m) ==
  ObjectAttributes("context_attributes", m,
    {"domain_id", "context_id", "name"} \cup IF Given(m["name"]) THEN {"options"} ELSE {})

handle_domain_attributes(m) == ObjectAttributes("domain_attributes", m, {"domain_id"})

\* For a domain that is gone, or after add_target.
handle_evpath_msg ==
  {Done("evpath_op", {"domain_id"}, {"stone", "operation", "name"}),
   Done("evpath_op", {"domain_id", "context_id", "options", "operation", "name",
                      "contact_attrs", "stone"}, {"stone", "operation", "name"})}

\* What the handlers of an entity's attributes and data read to find it.
Finds(m) ==
  {"entity_id"} \cup IF Given(m["entity_id"]) THEN {}
                     ELSE {"context_id", "domain_id", "options", "entity_name"}

handle_entity_attributes(m) ==
  LET uses == Finds(m) \cup {"operation"}
      get == Done("entity_attributes", uses,
                  {"entity_name", "options", "encoded_attr_list", "status"})
      set == NoCleanup(Status(uses \cup {"encoded_attr_list"}))
  IN IF m["operation"] = "get"
     THEN {Allocating(get, "encoded_attr_list"), Failing(Nulling(get, "encoded_attr_list"))}
     ELSE {set, Failing(NoCleanup(Status(uses)))}

\* A request without data is a get, whatever its RPC, and is answered as
\* one: with a status only when there is no such entity.
handle_entity_data(m, layout) ==
  LET uses == Finds(m) \cup {"edata"}
      got == {"entity_name", "options", "edata"}
  IN IF Given(m["edata"]) THEN {Status(uses), Failing(Status(uses))}
     ELSE {Done(layout, uses \cup {"options"}, got),
           Failing(Done(layout, uses \cup {"options"}, got \cup {"status"}))}
\* Mutant: the cleanup is cancelled, as the attribute handlers do.
MatchWithoutCleanup ==
  {NoCleanup(Allocating(Done("matching_domains", DomainKey, {"domain_count", "domain_list"}),
                        "domain_list"))}

handle_match_domains ==
  {Allocating(Done("matching_domains", DomainKey, {"domain_count", "domain_list"}),
              "domain_list")}

handle_get_binding_list(m) ==
  LET d == Done("binding_list",
                {"domain_id", "context_id", "name"},
                {"binding_count", "binding_list", "context_name"})
  IN {Nulling(d, "binding_list"),
      Allocating([d EXCEPT !.uses = @ \cup {"options"}], "binding_list")}
\* Mutant: the status is commented out together with the load.
LoadSilently == {Done("return_status", {"url"}, {})}

handle_load_from_URL == {Status({"url"})}

handle_xpath_query == {Done("xpath_query_results", {}, {"name_list", "name_count"})}

handle_open_service == {Done("open_service", {}, {"addr", "port", "broker"})}

\* The wrappers Chandle_*, which choose the handler and its types.
HandledTo(rpc, m) ==
  CASE rpc = "shutdown_server" -> handle_shutdown_server
    [] rpc \in {"get_char_data", "set_char_data"} -> handle_entity_data(m, "char_data")
    [] rpc \in {"get_int_data", "set_int_data"} -> handle_entity_data(m, "int_data")
    [] rpc \in {"get_float_data", "set_float_data"} -> handle_entity_data(m, "float_data")
    [] rpc \in {"get_entity_attributes", "set_entity_attributes"} -> handle_entity_attributes(m)
    [] rpc \in {"create_domain", "open_domain"} -> handle_create_domain
    [] rpc = "remove_domain" -> handle_remove_domain
    [] rpc = "find_matching_domains" -> handle_match_domains
    [] rpc = "create_context" -> handle_create_context
    [] rpc = "bind_context" -> handle_bind_context(m)
    [] rpc = "unbind_context_by_id" -> handle_unbind_context_by_id
    [] rpc = "get_root_context" -> handle_get_root_context
    [] rpc = "remove_context" -> handle_remove_context
    [] OTHER -> {}

ThenHandledTo(rpc, m) ==
  CASE rpc \in CreateEntityRpcs -> handle_create_entity
    [] rpc = "remove_entity" -> handle_remove_entity(m)
    [] rpc = "bind_entity" -> handle_bind_entity
    [] rpc = "unbind_entity" -> handle_unbind
    [] rpc = "resolve_name" -> handle_resolve
    [] rpc = "send_domain_attributes" -> handle_domain_attributes(m)
    [] rpc = "get_binding_list" -> handle_get_binding_list(m)
    [] rpc \in {"get_context_attributes", "set_context_attributes"} ->
         handle_context_attributes(m)
    [] rpc = "evpath_op" -> handle_evpath_msg
    [] rpc = "load_from_URL" -> handle_load_from_URL
    [] rpc = "query_by_xpath" -> handle_xpath_query
    [] rpc = "open_service" -> handle_open_service
    [] rpc = "add_aggregate_entity" -> handle_add_aggregate_entity(m)
    [] OTHER -> {}
-----------------------------------------------------------------------------
(* The call.                                                               *)

Nothing == <<>>

Init == /\ up = TRUE
        /\ stage = "idle"
        /\ call = OpenCalls.pds_service_open
        /\ req = Nothing /\ done = Nothing /\ reply = {}
        /\ heap = {} /\ wild = FALSE
        /\ result = Nothing /\ event = Nothing

\* The request of call c, whose caller passed the members of passed.
Request(c, passed) ==
  [m \in Members[ClientFormats[c.rpc][1]] |->
     IF m = "operation" /\ c.op # "none" THEN c.op
     ELSE IF m \in c.given \cup passed THEN "given"
     ELSE IF m \in c.null \cup c.maybe THEN "null"
     ELSE "unset"]

Send(c) == /\ stage = "idle"
           /\ \E passed \in SUBSET c.maybe : req' = Request(c, passed)
           /\ stage' = "sent" /\ call' = c
           /\ done' = Nothing /\ reply' = {} /\ result' = Nothing /\ event' = Nothing
           /\ UNCHANGED <<up, heap, wild>>

Handle ==
  /\ stage = "sent" /\ up
  /\ \E d \in HandledTo(call.rpc, req) \cup ThenHandledTo(call.rpc, req) :
       /\ done' = d
       /\ up' = ~d.ends
       /\ stage' = IF d.ends THEN "answered" ELSE "handled"
       /\ heap' = heap \cup {<<call.rpc, m>> : m \in d.heap}
  /\ UNCHANGED <<call, req, reply, wild, result, event>>

\* The reply's memory is a struct of the format the RPC is registered with.
\* What was written through another struct is in it only if both start
\* with that member: a status, or the two pointers of an xpath query.
ReplyFormat == ServerFormats[call.rpc][2]
StatusFirst == {"return_status", "entity_attributes", "resolution_result"} \cup DataFormats

\* Mutant: what is written beyond the reply is sent.
LandsAnywhere(m) == TRUE

Lands(m) == IF m = "status" THEN ReplyFormat \in StatusFirst ELSE done.layout = ReplyFormat
XPathLands == IF done.layout = "xpath_query_results" /\ ReplyFormat = "xpath_query_request"
              THEN {"xpath"} ELSE {}

Reply == /\ stage = "handled"
         /\ reply' = {m \in done.writes : Lands(m)} \cup XPathLands
         /\ stage' = "replied"
         /\ UNCHANGED <<up, call, req, done, heap, wild, result, event>>

Freed == Cleanups[call.rpc][2]

Cleanup ==
  /\ stage = "replied"
  /\ stage' = "answered"
  /\ IF done.cleanup /\ call.rpc \in DOMAIN Cleanups
     THEN /\ heap' = heap \ {<<call.rpc, Freed>>}
          /\ wild' = (wild \/ ~(/\ done.layout = Cleanups[call.rpc][1]
                                /\ Freed \in done.heap \cup done.null))
     ELSE UNCHANGED <<heap, wild>>
  /\ up' = (call.rpc # "shutdown_server")
  /\ UNCHANGED <<call, req, done, reply, result, event>>

\* There is no server: CMrpc gives up, and pds_request does not tell.
Lost == /\ stage = "sent" /\ ~up
        /\ stage' = "answered"
        /\ UNCHANGED <<up, call, req, done, reply, heap, wild, result, event>>

\* What arrives is what both formats carry.
Arrived == reply \cap Members[ClientFormats[call.rpc][2]]

\* An entity's attributes or data are read unless the status says -1.
Reads == call.reads
           \cup IF call.rpc \in DOMAIN Content /\ ~done.fails THEN Content[call.rpc] ELSE {}

Served == done # Nothing /\ ~done.ends

Return ==
  /\ stage = "answered"
  /\ result' = IF Served THEN [from |-> call.returns, missing |-> Reads \ Arrived]
               ELSE Nothing
  /\ stage' = "idle"
  /\ UNCHANGED <<up, call, req, done, reply, heap, wild, event>>

Restart == /\ ~up /\ stage = "idle"
           /\ up' = TRUE /\ heap' = {}
           /\ UNCHANGED <<stage, call, req, done, reply, wild, result, event>>

-----------------------------------------------------------------------------
(* Events: what the senders write into the structs they submit.            *)

EntityEvents ==
  [entity_exist |-> {"type", "entity_id"}, entity_u_bind |-> {"type", "entity_id"},
   entity_char_data |-> {"entity_id", "char_data"},
   entity_int_data |-> {"entity_id", "int_data"},
   entity_float_data |-> {"entity_id", "float_data"}]

ContextEvents ==
  [context_exist |-> {"type", "fullname", "context_id"},
   context_u_bind |-> {"type", "fullname", "context_id"}]
\* Mutant: the name of the object is left out of the domain's event.
DomainEventsUnnamed ==
  [domain_change |-> {"type", "event_desc", "d_name", "d_type", "d_version", "d_app_name",
                      "domain_id", "event_type"}]

DomainEvents ==
  [domain_change |-> {"type", "event_desc", "d_name", "d_type", "d_version", "d_app_name",
                      "domain_id", "event_type", "event_fullname"}]

Written(e) == (EntityEvents @@ ContextEvents @@ DomainEvents)[e]

Notify(e) == /\ up /\ stage = "idle"
             /\ event' = [format |-> e, written |-> Written(e)]
             /\ UNCHANGED <<up, stage, call, req, done, reply, heap, wild, result>>

Next == \/ \E c \in AllCalls : Send(c)
        \/ Handle \/ Reply \/ Cleanup \/ Lost \/ Return \/ Restart
        \/ \E e \in DOMAIN Events : Notify(e)

Spec == Init /\ [][Next]_vars
-----------------------------------------------------------------------------
(* Properties.                                                             *)

\* Types of the variables.
TypeOK ==
  /\ up \in BOOLEAN /\ wild \in BOOLEAN
  /\ stage \in {"idle", "sent", "handled", "replied", "answered"}
  /\ call \in AllCalls
  /\ req # Nothing => /\ DOMAIN req = Members[ClientFormats[call.rpc][1]]
                     /\ \A m \in DOMAIN req :
                          req[m] \in {"unset", "null", "given", "get", "set", "stone"}
  /\ reply \subseteq Members[ReplyFormat]
  /\ heap \subseteq Rpcs \X Pointers

\* A handler acts only on members the agent library has written.  The
\* attribute calls of contexts and the get of an entity's attributes by
\* name leave their options as the stack had them: these may create what
\* they ask for (client.c:672-710, client_entity.c:551-567).
ReadsWereSent ==
  done # Nothing =>
    \A m \in done.uses :
      \/ m \in DOMAIN req /\ req[m] # "unset"
      \/ m = "options" /\ call.rpc \in {"get_context_attributes", "set_context_attributes",
                                        "get_entity_attributes"}

\* Calls whose value does not come from what the server answered: binding
\* and unbinding a context (client.c:752-814) and reading the attributes of
\* a domain or a context (client.c:520-545, 691-716) whatever the server
\* does; setting those, whose status goes astray; a get of data, which is
\* answered without a status unless it fails, and the set of no data, which
\* is answered as a get; and a query, whose answer is in another format.
Guessing ==
  \/ call.rpc \in {"bind_context", "unbind_context_by_id", "send_domain_attributes",
                   "get_context_attributes", "set_context_attributes", "query_by_xpath"}
  \/ call.rpc \in GetDataRpcs /\ result.missing = {"status"}
  \/ call.rpc \in SetDataRpcs /\ result.missing = {"status"} /\ req["edata"] = "null"

\* Whatever else an API function returns after a served call, the handler
\* wrote it into the reply and both ends' formats carried it.
AnswersComeFromHandler ==
  stage = "idle" /\ result # Nothing =>
    \/ result.from = "reply" /\ result.missing = {}
    \/ Guessing

\* No message is encoded with a pointer that nobody wrote: no request, no
\* event, and no reply but that of a registration, whose contact_attrs, and
\* that of a get of a context's attributes, whose name, are left as CMrpc
\* provides them.
PointersWritten ==
  /\ stage = "sent" => \A m \in Pointers \cap DOMAIN req : req[m] # "unset"
  /\ stage = "replied" /\ ReplyFormat \notin {"evpath_op", "context_attributes"} =>
       Pointers \cap Members[ReplyFormat] \subseteq reply
  /\ event # Nothing => Pointers \cap Members[event.format] \subseteq event.written

\* A handler writes only into the reply it was given room for, except where
\* it answers a domain's attributes (pdsd_handlers.cc:663) and a set of
\* no data (pdsd_handlers.cc:879-882) in the layout of another message,
\* and where the status goes astray over a context's reply.
ReplyFits ==
  stage = "replied" =>
    \/ \A m \in done.writes : m \in reply
    \/ call.rpc = "send_domain_attributes" /\ call.op = "get"
    \/ call.rpc \in SetDataRpcs /\ req["edata"] = "null"
    \/ call.rpc \in {"get_context_attributes", "query_by_xpath"}

\* A cleanup function frees only what the handler of this very call
\* allocated, or a null: never a word of a reply of another layout.
CleanupFreesItsOwn == ~wild

\* Between calls nothing that was allocated for a reply is left, but the
\* attributes of domains and contexts, whose handlers cancel the cleanup
\* also when they have allocated (pdsd_handlers.cc:633, 677).
OnlyAttributesLeak ==
  stage = "idle" /\ up =>
    heap \subseteq {"send_domain_attributes", "get_context_attributes"} \X {"encoded_attr_list"}
=============================================================================
