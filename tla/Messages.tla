------------------------------ MODULE Messages ------------------------------
(***************************************************************************)
(* The messages of PDS: the members each format of src/common/formats.c    *)
(* carries, the formats an RPC is registered with in the agent library and *)
(* in the server, and the server's handler for it.  A format is named      *)
(* after its C struct, without the suffixes _msg and _ntf.  An RPC is      *)
(* named after its ..._RPC_NAME.                                           *)
(***************************************************************************)
EXTENDS TLC

CreateEntityRpcs == {"create_entity_char", "create_entity_int", "create_entity_float"}
GetDataRpcs == {"get_char_data", "get_int_data", "get_float_data"}
SetDataRpcs == {"set_char_data", "set_int_data", "set_float_data"}
DataFormats == {"char_data", "int_data", "float_data"}

-----------------------------------------------------------------------------
(* The formats: which members of the struct are encoded.                   *)

QueryFormats ==
  [open_service |-> {"addr", "port", "broker", "options"},
   binding_list |-> {"binding_list", "binding_count", "context_name", "options"},
   xpath_query_results |-> {"name_list", "name_count"},
   xpath_query_request |-> {"xpath", "domain_id"}]

EventFormats ==
  [entity_char_data |-> {"entity_id", "char_data"},
   entity_int_data |-> {"entity_id", "int_data"},
   entity_float_data |-> {"entity_id", "float_data"},
   entity_u_bind |-> {"type", "entity_id"},
   entity_exist |-> {"type", "entity_id"},
   context_u_bind |-> {"type", "fullname", "context_id"},
   context_exist |-> {"type", "fullname", "context_id"}]

DomainEventFormat ==
  [domain_change |-> {"type", "d_name", "d_type", "d_version", "d_app_name", "domain_id",
                      "event_type", "event_fullname", "event_desc"}]

ReplyFormats ==
  [matching_domains |-> {"domain_list", "domain_count", "options"},
   return_domain_id |-> {"domain_id", "options"},
   return_entity_id |-> {"entity_id", "fullname", "options"},
   return_context_id |-> {"context_id", "options"},
   return_status |-> {"status", "options"}]

DomainFormats ==
  [create_domain |-> {"domain_name", "domain_type", "domain_version", "application_name",
                      "options"},
   get_root_context |-> {"domain_id", "options"},
   remove_domain |-> {"domain_id", "options"}]

NameFormats ==
  [remove_entity |-> {"domain_id", "context_id", "entity_id", "entity_name", "options"},
   add_bucket_entity |-> {"entity_id", "cod_function", "entity_agg_type"},
   remove_context |-> {"domain_id", "context_id", "c_name", "options"},
   create_context |-> {"domain_id", "context_id", "c_name", "encoded_attr_list", "options"}]

CreateFormats ==
  [f \in CreateEntityRpcs |->
     {"domain_id", "context_id", "name", "edata", "encoded_attr_list", "options"}]

EntityKey == {"status", "operation", "domain_id", "context_id", "entity_id", "entity_name",
              "options"}
EntityFormats ==
  [f \in DataFormats \cup {"entity_attributes"} |->
     EntityKey \cup IF f \in DataFormats THEN {"edata"} ELSE {"encoded_attr_list"}]

LinkFormats ==
  [unbind |-> {"domain_id", "context_id", "entity_id", "name", "options"},
   bind_entity |-> {"domain_id", "context_id", "source_context", "entity_id", "name",
                    "source_name", "options"},
   bind_context |-> {"domain_id", "source_context_id", "source_context_name", "link_name"},
   unbind_context |-> {"domain_id", "name"}]

ObjectFormats ==
  [resolution_result |-> {"status", "level", "entity_id", "context_id", "options"},
   resolve_name |-> {"domain_id", "context_id", "name", "options"},
   domain_attributes |-> {"operation", "domain_id", "encoded_attr_list", "options"},
   context_attributes |-> {"operation", "domain_id", "context_id", "name",
                           "encoded_attr_list", "options"}]

ServiceFormats ==
  [evpath_op |-> {"operation", "stone", "contact_attrs", "domain_id", "name", "context_id",
                  "options"},
   load_from_URL |-> {"url", "domain_id", "context_id", "options"},
   shutdown_server |-> {"options"}]

Events == EventFormats @@ DomainEventFormat

Members == Events @@ QueryFormats @@ ReplyFormats @@ DomainFormats @@ NameFormats
             @@ CreateFormats @@ EntityFormats @@ LinkFormats @@ ObjectFormats
             @@ ServiceFormats

\* The members whose encoding follows a pointer: the strings, and the
\* arrays whose length is another member.
Pointers ==
  {"binding_list", "context_name", "name_list", "xpath", "fullname", "d_name", "d_type",
   "d_app_name", "event_fullname", "event_desc", "char_data", "int_data", "float_data",
   "domain_list", "domain_name", "domain_type", "application_name", "entity_name",
   "cod_function", "c_name", "encoded_attr_list", "name", "edata", "source_name",
   "source_context_name", "link_name", "contact_attrs", "url"}

-----------------------------------------------------------------------------
(* The registrations: request format, reply format.                        *)

ClientFormats ==
  [create_domain |-> <<"create_domain", "return_domain_id">>,
   remove_domain |-> <<"remove_domain", "return_status">>,
   find_matching_domains |-> <<"create_domain", "matching_domains">>,
   send_domain_attributes |-> <<"domain_attributes", "return_status">>,
   create_context |-> <<"create_context", "return_context_id">>,
   get_root_context |-> <<"get_root_context", "return_context_id">>,
   remove_context |-> <<"remove_context", "return_status">>,
   get_binding_list |-> <<"resolve_name", "binding_list">>,
   remove_entity |-> <<"remove_entity", "return_status">>,
   bind_entity |-> <<"bind_entity", "return_status">>,
   unbind_entity |-> <<"unbind", "return_status">>,
   resolve_name |-> <<"resolve_name", "resolution_result">>,
   evpath_op |-> <<"evpath_op", "evpath_op">>,
   get_entity_attributes |-> <<"entity_attributes", "entity_attributes">>,
   set_entity_attributes |-> <<"entity_attributes", "return_status">>,
   get_char_data |-> <<"char_data", "char_data">>,
   get_int_data |-> <<"int_data", "int_data">>,
   get_float_data |-> <<"float_data", "float_data">>,
   set_char_data |-> <<"char_data", "return_status">>,
   set_int_data |-> <<"int_data", "return_status">>,
   set_float_data |-> <<"float_data", "return_status">>,
   get_context_attributes |-> <<"context_attributes", "context_attributes">>,
   set_context_attributes |-> <<"context_attributes", "return_status">>,
   load_from_URL |-> <<"load_from_URL", "return_status">>,
   open_domain |-> <<"create_domain", "return_domain_id">>,
   shutdown_server |-> <<"shutdown_server", "return_status">>,
   query_by_xpath |-> <<"xpath_query_request", "xpath_query_results">>,
   open_service |-> <<"open_service", "open_service">>,
   bind_context |-> <<"bind_context", "return_status">>,
   unbind_context_by_id |-> <<"unbind_context", "return_status">>,
   add_aggregate_entity |-> <<"add_bucket_entity", "return_status">>]
  @@ [r \in CreateEntityRpcs |-> <<r, "return_entity_id">>]

Rpcs == DOMAIN ClientFormats

\* The server's table differs in one line: query_by_xpath answers in the
\* format of its request.
ServerFormats ==
  [ClientFormats EXCEPT !["query_by_xpath"] = <<"xpath_query_request", "xpath_query_request">>]

\* What the cleanup function registered with an RPC frees, as a format and
\* one of its members; that of shutdown_server frees nothing.
Cleanups ==
  [find_matching_domains |-> <<"matching_domains", "domain_list">>,
   send_domain_attributes |-> <<"domain_attributes", "encoded_attr_list">>,
   get_binding_list |-> <<"binding_list", "binding_list">>,
   get_entity_attributes |-> <<"entity_attributes", "encoded_attr_list">>,
   get_context_attributes |-> <<"context_attributes", "encoded_attr_list">>]
=============================================================================
