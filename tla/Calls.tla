-------------------------------- MODULE Calls --------------------------------
(***************************************************************************)
(* The functions of the agent library (src/agent/client.c and              *)
(* client_entity.c): what each writes into its request and what it makes   *)
(* of the reply.  A request struct is a local variable, so a member that   *)
(* is in none of the sets below goes out as it was on the stack.           *)
(***************************************************************************)
EXTENDS Messages

\* A function sends rpc with the members given, with a null in the members
\* of null, and with what its caller passed, which may be a null, in those
\* of maybe.  op is the operation it asks for.  It reads the members reads
\* of the reply and returns a value that is from the reply, from a local
\* variable, or from its own request.
Call(rpc, given, reads) ==
  [rpc |-> rpc, given |-> given, null |-> {}, maybe |-> {}, op |-> "none",
   reads |-> reads, returns |-> "reply"]

Nulls(c, members) == [c EXCEPT !.null = members]
Maybe(c, members) == [c EXCEPT !.maybe = members]
Asking(c, op) == [c EXCEPT !.op = op, !.given = @ \cup {"operation"}]
Returning(c, from) == [c EXCEPT !.returns = from]

DomainKey == {"domain_name", "domain_type", "domain_version", "application_name"}

OpenCalls == [pds_service_open |-> Call("open_service", {}, {"addr", "port"})]

StopCalls == [pds_shutdown_server |-> Call("shutdown_server", {}, {"status"})]

DomainCalls ==
  [pds_create_domain |-> Call("create_domain", DomainKey \cup {"options"}, {"domain_id"}),
   pds_open_domain |-> Call("open_domain", DomainKey \cup {"options"}, {"domain_id"}),
   pds_remove_domain |-> Call("remove_domain", {"domain_id"}, {"status"}),
   pds_find_matching_domains |->
     Call("find_matching_domains", DomainKey, {"domain_list", "domain_count"}),
   pds_set_domain_attrs |->
     Asking(Call("send_domain_attributes", {"domain_id", "encoded_attr_list"}, {"status"}), "set"),
   pds_get_domain_attrs |->
     Returning(Asking(Nulls(Call("send_domain_attributes", {"domain_id"}, {}),
                            {"encoded_attr_list"}), "get"), "request")]

ContextCalls ==
  [pds_create_context |->
     Nulls(Call("create_context", {"domain_id", "context_id", "c_name"}, {"context_id"}),
           {"encoded_attr_list"}),
   pds_get_root_context |-> Call("get_root_context", {"domain_id", "options"}, {"context_id"}),
   pds_remove_context |->
     Call("remove_context", {"domain_id", "context_id", "c_name"}, {"status"}),
   pds_remove_context_by_id |->
     Nulls(Call("remove_context", {"domain_id", "context_id"}, {"status"}), {"c_name"}),
   pds_get_binding_list |->
     Nulls(Call("get_binding_list", {"domain_id", "name", "options"},
                {"binding_list", "binding_count"}), {"context_id"}),
   pds_get_binding_list_id |->
     Nulls(Call("get_binding_list", {"domain_id", "context_id", "options"},
                {"binding_list", "binding_count"}), {"name"})]

ContextAttributeCalls ==
  [pds_set_context_attrs |->
     Asking(Maybe(Call("set_context_attributes",
                       {"domain_id", "context_id", "encoded_attr_list"}, {"status"}),
                  {"name"}), "set"),
   pds_get_context_attrs |->
     Returning(Asking(Nulls(Maybe(Call("get_context_attributes", {"domain_id", "context_id"}, {}),
                                  {"name"}), {"encoded_attr_list"}), "get"), "request")]

\* The helpers send_bind_context_request and send_unbind_context_request
\* return the status; their callers drop it and return a local variable.
LinkCalls ==
  [pds_bind_context_by_id |->
     Returning(Nulls(Call("bind_context", {"domain_id", "source_context_id", "link_name"},
                          {"status"}), {"source_context_name"}), "local"),
   pds_bind_context_by_name |->
     Returning(Nulls(Call("bind_context", {"domain_id", "source_context_name", "link_name"},
                          {"status"}), {"source_context_id"}), "local"),
   pds_unbind_context_from_name |->
     Returning(Call("unbind_context_by_id", {"domain_id", "name"}, {"status"}), "local"),
   pds_bulk_load_from_URL |-> Call("load_from_URL", {"url"}, {"status"})]

QueryCalls ==
  [pds_query_by_xpath |->
     Call("query_by_xpath", {"xpath", "domain_id"}, {"name_list", "name_count"})]

CreateCalls ==
  [pds_aggregate_entity |->
     Call("add_aggregate_entity", {"entity_id", "cod_function", "entity_agg_type"}, {"status"})]
  @@ [r \in CreateEntityRpcs |->
       Maybe(Call(r, {"encoded_attr_list", "domain_id", "name", "context_id", "options"},
                  {"entity_id"}), {"edata"})]

NamingCalls ==
  [pds_remove_entity |->
     Nulls(Call("remove_entity", {"domain_id", "context_id", "entity_name"}, {"status"}),
           {"entity_id"}),
   pds_remove_entity_by_id |->
     Nulls(Call("remove_entity", {"domain_id", "entity_id"}, {"status"}),
           {"context_id", "entity_name"}),
   pds_bind_entity_to_name |->
     Nulls(Call("bind_entity", {"domain_id", "context_id", "source_context", "name",
                                "source_name"}, {"status"}), {"entity_id"}),
   pds_bind_entity_to_name_by_id |->
     Nulls(Call("bind_entity", {"domain_id", "context_id", "entity_id", "name"}, {"status"}),
           {"source_name", "source_context"}),
   pds_unbind_entity_from_name |->
     Call("unbind_entity", {"domain_id", "context_id", "name"}, {"status"}),
   pds_resolve_entity_name |->
     Call("resolve_name", {"domain_id", "context_id", "name"}, {"entity_id"})]

\* Mutant: the channel is left out of the request.
RegistrationCallsAnyChannel ==
  [do_registration |->
     Asking(Call("evpath_op", {"domain_id", "context_id", "name", "stone", "contact_attrs"},
                 {"operation"}), "stone")]

RegistrationCalls ==
  [do_registration |->
     Asking(Call("evpath_op", {"domain_id", "context_id", "name", "stone", "options",
                               "contact_attrs"}, {"operation"}), "stone")]

ByName == {"domain_id", "context_id", "entity_name"}
ById == {"domain_id", "entity_id"}

\* An attribute call names its entity; the other key goes out as a null.
AttributeCall(rpc, key, given, op) ==
  Asking(Nulls(Call(rpc, key \cup given, {"status"}),
               (ByName \cup ById) \ key), op)

AttributeCalls ==
  [pds_get_entity_attributes |->
     Nulls(AttributeCall("get_entity_attributes", ByName, {}, "get"),
           {"entity_id", "encoded_attr_list"}),
   pds_get_entity_attributes_by_id |->
     Nulls(AttributeCall("get_entity_attributes", ById, {}, "get"),
           {"context_id", "entity_name", "encoded_attr_list"}),
   pds_set_entity_attributes |->
     AttributeCall("set_entity_attributes", ByName, {"encoded_attr_list", "options"}, "set"),
   pds_set_entity_attributes_by_id |->
     AttributeCall("set_entity_attributes", ById, {"encoded_attr_list"}, "set")]

\* Two functions for each RPC: <<rpc, key>>.
Keys == {ByName, ById}
GetDataCalls ==
  [f \in GetDataRpcs \X Keys |->
     Nulls(Call(f[1], f[2] \cup {"options"}, {"status"}),
           ((ByName \cup ById) \ f[2]) \cup {"edata"})]

SetDataCalls ==
  [f \in SetDataRpcs \X Keys |->
     Maybe(Nulls(Call(f[1], f[2] \cup {"options"}, {"status"}), (ByName \cup ById) \ f[2]),
           {"edata"})]

NamedCalls == OpenCalls @@ StopCalls @@ DomainCalls @@ ContextCalls @@ ContextAttributeCalls
                @@ LinkCalls @@ QueryCalls @@ CreateCalls @@ NamingCalls @@ RegistrationCalls
                @@ AttributeCalls
DataCalls == GetDataCalls @@ SetDataCalls

\* The second part of a reply that is read unless the status is -1.
Content == [get_entity_attributes |-> {"encoded_attr_list"}]
             @@ [r \in GetDataRpcs |-> {"edata"}]
=============================================================================
