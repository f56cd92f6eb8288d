# The Proactive Directory Service in TLA+

This directory is a verification project for the Proactive Directory Service (PDS): TLA+
models of its server engine, its event channels, its agent library and the messages between them, TLC
configurations that check them on small instances, and TLAPS proofs about the directory, the registry, the event
channels, the data of entities and the transaction bucket. PDS keeps
domains of named contexts and entities in a daemon, `pdsd`, and tells clients about every
change over EVPath channels.

Contents: 1 the system, 2 plan, 3 the modules, 4 the runs, 5 what the code does otherwise than
its documents say, 6 the proofs, 7 what is not modelled.

## 1. The system

### Components and their state

| Component | Source | State | Operations |
|---|---|---|---|
| Naming engine | `engine/Domain`, `Context`, `Entity`, `ContextBindable` | per context the map `name_map_` from a component to an object; per object `parent_`, the list `referrers_` of contexts that hold it, `is_placeholder_`; per domain `root_`, `entity_list_`, `context_list_` | resolve or create, resolve, bind, unbind, remove context / entity / domain |
| Object ids | `engine/objectId` | `counter`, `global_object_map` (number to object), the server's address | make an id, look one up |
| Domain registry | `engine/Domain` | `global_domain_list_` | create, open, match, remove |
| Event channels | `engine/Proactive`, `EventWrapper` | per object parallel lists of stones, split actions, submit handles and formats | set up a stone, add a target, put a storage stone in front, send |
| Storage stones | `engine/storage_stone.c` | COD source text; at run time the events a stone holds, and static variables of the action | rolling bucket, transaction bucket |
| Handlers | `server/pdsd_handlers.cc` | none of their own | one per RPC, some with a cleanup of their reply |
| Message formats | `common/formats` | tables of members | registered by both ends |
| Server process | `server/pdsd.cc` | flags, the CManager | start, run the network, shut down |
| Agent library | `agent/client.c`, `client_entity.c`, `client_hl.c` | `open_services`, stones and terminal actions of registrations | one function per RPC, registrations |
| Locks and background threads | `engine/EngineGuard`, `CleaningThread`, `CheckpointThread` | a reader/writer guard, `go` | sweep, checkpoint; not started by the daemon |
| Bindings | `client/`, `jni/`, `jpds/` | none | marshalling |

### How they interact

A client function fills a message, finds the service of the id it was given
(`pds_service_of_id`), calls the server and waits for the answer. `pdsd` runs
`CMrun_network` on its main thread (its only other thread logs resource usage); each request is a call of one handler that runs to
completion, so two handlers never interleave. The handler turns ids into pointers through
`global_object_map`, calls a member of the domain, and fills the reply. While it changes the
heap the engine submits events, first to the domain's channel and then to the object's own
(`ContextBindable::send_event`); EVPath carries them to the clients that registered, on
their own, asynchronously to requests and answers. A reply is encoded after its handler has
returned, its guard released; then CMrpc calls the cleanup the handler was registered with, unless the
handler cancelled it.

### What is hard here

* **The heap.** Objects are bound under several names by several contexts, keep back pointers
  to those contexts in a list with repetitions, and are deleted by hand. A wrong sequence of
  perfectly legal requests leaves a dangling pointer that a much later request follows.
* **Stale ids.** Ids outlive objects, domains and whole runs of a server.
* **Placeholders.** Registering for an object that does not exist creates it as a placeholder,
  with stones that the real object must keep using.
* **Registrations.** Three steps in two processes, while events are already sent.
* **Aggregation.** A storage stone is put in front of a live channel.
* **Several servers.** A client holds ids of more than one.
* **Messages.** Dozens of functions and requests share a dozen structs: what a handler reads must have been
  written by the function that sent it, and what the client reads, by the branch the handler took.
* **The sweep.** The cleaning thread frees what replies under way still point to, and follows
  links that may lead back. The daemon of this commit does not start it (`pdsd.cc:322-324`), so this concerns who would.

### What makes each component correct

* Naming engine: names denote existing objects; referrer lists agree with the bindings;
  nothing is freed twice, no erase goes wrong; creation and deletion are announced exactly when they
  happen; a reply agrees with the name it answers; numbers are not reused.
* Registry: list and object map agree; opening a domain shares it; ids that come back to
  the run that made them are good.
* Event channels: whoever registered hangs off the stone that the events go to; gets all
  of them, once and in order; is answered; the buckets pass on when full, and not before. What is lost when a bucket is
  replaced is the same for all who wait for it.
* Agent library: a request goes to the server of its id; a cancelled registration is silent; what a
  function returns is what the server answered.
* Messages: no unset member is acted on, no unset pointer encoded, no reply written past its end,
  nothing freed that the handler did not allocate, nothing left.
* Transaction bucket: it names as missing what was announced and did not come; it keeps to its buffers.
* Guard and sweep: a sweep removes exactly what had expired; it ends, and nobody waits for it for ever;
  to clients it is one step.

## 2. Plan

Done, in this order:

1. `Directory` with its instances, the invariants and their proofs (`DirectoryProofs`).
2. `EventChannels`: stones, submission, aggregation, registrations, liveness.
3. `DomainRegistry`: domains, ids, several servers, restarts.
4. `Namespace`, the abstract specification of a directory, implemented by `Directory`: a property
   of the run `directory` and a theorem (`NamespaceProofs`).
5. `EntityData`: values, attributes, the get and set options, the statuses of
   the replies, and the high-level client calls, with proofs (`EntityDataProofs`).

6. `Messages`, `Calls`, `Rpc`: the layout of the messages, what each client function puts into its
   request, what each branch of each handler reads, writes and leaves to its cleanup.
7. `StorageStone`: the transaction bucket of `storage_stone.c`, its counters and bounds, with proofs
   (`StorageStoneProofs`).
8. `Cleaning`: the guard and the cleaning thread as it would run, composed with the handlers that make,
   link, list and remove contexts.
9. `DomainRegistryProofs`: proofs of the invariants of the registry.
10. `EventChannelsProofs`: proofs of all five invariants of the event channels.
11. `AttributesKept` in `EntityDataProofs`: the action property `AttributesStay`.
12. `RequestProofs`: walks follow names, replies agree with names, and no request of a careful
    client stops the server (`WalkFollowsName`, `RepliesMatchNames`, `CarefulIsSafe`).
13. `CleaningProofs`: what a sweep of the cleaning thread removes is exact (`SweepIsExact`).
14. `Expiry`, the abstract specification of a server that cleans up, in which a sweep is one step. `Cleaning`
    implements it: a property of the run `cleaning` and a theorem in `CleaningProofs`.
15. `Subscriptions`, the abstract specification of what a client may expect of a registration.
    `EventChannels` implements it: a property of the run `events_live` and a theorem in `EventChannelsProofs`.

Not planned: proofs about `Rpc`, whose run is exhaustive, and about liveness (section 6).

`Directory` assumes of ids what `DomainRegistry` shows as `IdsGoodAtHome`: a number denotes the
object it was issued for, or nothing. `EventChannels` takes names to be bound in the root and
has no heap errors: it assumes careful clients in the sense of `Directory` (proved safe in `RequestProofs`).

## 3. The modules

### Directory

One domain. Objects are numbers; `live` are those `global_object_map` resolves; a number outside
it is a freed object and a pointer to it dangles. `name_map[c][n]` is `Context::name_map_`,
`referrers[o][c]` counts the occurrences of `c` in `ContextBindable::referrers_`, `parent`,
`placeholder`, `entity_list` are the members of those names. `created` and `deleted` count the
events sent. `fault` says why the server stopped: a null or freed pointer followed,
a double deletion, an `erase(end())`, or the `exit(1)` of `handle_bind_context`. Nothing is claimed
after a fault, since the program then has no defined behaviour.

A request is a short activation held in `req`. An arrival action per RPC (`CreateContext`,
`CreateEntity`, `GetStone`, `EntityData`, `Resolve`, `UnbindName`, `BindByName`, `BindById`,
`RemoveContextByName`, `RemoveContextById`, `RemoveEntityById`, `RemoveDomain`) translates the
ids (`Deref`) and starts the walk; `WalkStep` is one iteration of the loop of
`Domain::get_context_of_name`; `LookupOrCreate`, `Lookup` and `RemoveBinding` are what the three
callers of that function do with the last component; the `Finish...` actions are the tails of the
handlers, with their casts and replies. No two requests overlap. The steps of one request are
separate so that a fault in the middle of a walk leaves what the walk had
created by then, as the code does.

A name is a sequence of components; the empty one is `/`. `CtxPaths`, `EntPaths`, `CtxLinks` and
`EntLinks` say which names clients use. `Careful` switches on the contract written as the
operators `Ok...`: names based on existing contexts, contexts removed only when
nothing is bound in them or was created in them, no removal of a domain in which an entity was
removed by id, sources of binds that exist, and (`NamesApart`) components that are used for contexts or for entities, not for both. It is not written in any document of PDS; it is what the code
needs.

### Namespace

What a domain promises, without pointers, lists or walks. An object is unused, promised, real, or
removed, in this order, and is used once. `bound[c][n]` is what context `c` calls `n`. The actions:
`Make` an object under a free name, `Promote` one that was promised, `Link` a further free name,
`Unlink` one name, `Remove` an object with all its names, `Close` the domain. `told` is what
subscribers heard last.

`Directory` maps to it by its instance `View`: a placeholder is promised, an object of
`live` is real, a number with a class that is not in `live` is removed (`ViewState`); `bound` and
`class` are `name_map` and `kind`; `told` is read off `created` and `deleted` (`ViewTold`), with a
value "again", unknown to `Namespace`, for a creation announced twice. `IsNamespace` is the specification of that instance.
One request is many steps of `Namespace`: a create of `/a/b/x` makes `a`, `b` and `x` one after
the other. A bind to a name
that is taken is a stutter. `Namespace` has no requests and says nothing of replies:
`RepliesMatchNames` does.

### EventChannels

The objects of a domain as seen by subscribers. `stones[p]` are the parallel lists of
`Proactive` for object `p`, in the order `set_up_stone` appended them: a type can occur twice, and
`StoneOf` is the linear search of `determine_stone_set_up`. `stored` and `held` describe the
storage stone that `set_aggregate_stone` put in front, `targets` the bridge stones.
A request changes the objects and leaves in `todo` the events its handler sends,
`Fire` sends one of them, to the domain's channel and to the object's own; no request is
served while `todo` is not empty. The client's side is `Register`, `GetStone` (the server),
`Associate`, `Deliver`, `Cancel`. `wire` is EVPath's bridge: it keeps order and loses nothing,
and what reaches a stone with no action on it is dropped, recorded in `missed`. EVPath is not part of the
repository; `Deliver` is marked external.

Objects are bound in the root and called by their first name; further names only matter for
the events they cause. A placeholder is not real until created.

### Subscriptions

What a client may expect of a registration, without stones, handlers or buckets. It is granted a channel (`Grant`),
with what the channel gathers at that time; the client puts its handler in place (`Listen`). `Send` adds an event to what
the registrations of the channels it concerns are owed, and ends the channels that end with it. `Gather` and `Stop` are where a channel loses what it
has gathered, and `Send` is where it does so at its end: the latest events of the channel, fewer than a bucket, the same ones for all its
registrations. `Arrive` takes the oldest of what is owed, one event or a full bucket, to the client's handler, or past it if there is none yet.

`EventChannels` maps to it by its instance `Promised`: `ChannelOf` is the channel of each registration the server granted, `Served` are those that hang
off a stone, `Owed` is what is on the wire to them or held in a storage stone before them. `Send` is a `Fire`,
`Gather` a storage stone put in front of a channel, `Stop` the removal of the domain; requests that only put
events into `todo` are stutters. `KeepsPromises` is the specification of that instance.

### DomainRegistry

Servers with their object maps, domain lists and counters, and clients with their lists of
services. An object map entry is `"none"`, `"null"` (what a look-up of an unknown number with `operator[]`
leaves behind), `"domain"` or `"other"`. A number whose entry exists is not entered again, as
`map::insert` does. A restart loses all state of a server and keeps its address. `ServiceOfId`
has the extra step of the loop in `pds_service_of_id`, as compiled without assertions: at the
end of the list the client fails on a null pointer. `issued` remembers which run made an
id and `strayed` whether a request ever reached a server or run that did not make its id.

### EntityData

What entities hold. A call is three steps: the client's function (`CreateEntity`, `GetData`, `SetData`,
`Lookup`, `Bind`, `GetAttributes`, `SetAttributes`, `Remove`, and for the domain and a context
`GetObjectAttributes`, `SetObjectAttributes`), the handler (`HandleCreate`, `AnswerData`, `StoreData`,
`AnswerAttributes`, `StoreAttributes`, `ObjectAttributes`, `HandleRemove`), and the function's reading of
the reply (`Return`). Calls of different clients overlap, so an id or a name can go stale
between the first two steps. Names are reduced to one, bound to at most one entity: `Target` is what
a handler takes a request to be about. `Data` is its number of elements and a stamp, fresh for each write,
that stands for its first element. `told` is the data of the last event of each type; `history`,
`known`, `hit` and `at` exist for the properties only: all data an entity was ever given, how far
into it each client has seen, and which entity and place an answer came from.

What the code does is kept also where it looks odd: a float entity's creation goes to the handler for int,
which prints the first element before it stores it; a message without elements is a get, and a set
of nothing is answered as one, past the end of its own reply; a successful get leaves its status
unset, here -1 or 1; a get of the buffer alone transfers nothing, since the elements travel as an array of
`data_size`; the handlers for context and domain attributes write their status through an unset
pointer, which either stops the server or changes a word that is taken not to matter;
`pds_lookup_int` reads an element that may not be there. Attributes are merged, never replaced.

### Messages, Calls, Rpc

`Messages` says which members each message struct has, which of them are pointers, which format each
end registers for each request name, and which of them have a cleanup. `Calls` has every function of
the agent library that sends a request, as a set of requests: which members it sets and to what, as far as
handlers tell values apart ("null", "given", the kind of an attribute or stone operation); the rest is
"unset". `Rpc` is one call after another between a client and a server: `Send`, `Handle` (with all branches
of all handlers: `done` is what a branch reads, writes, returns, allocates and whether it cancels
the cleanup), `Reply` (CMrpc encodes in the format of the registration), `Cleanup` (`heap` is what was allocated and
not freed; `wild` says that something else was freed), `Lost` when the handler ends the server, and `Return`, which says
whether the function's value came from the reply. `Notify` are the events and whether the pointers of their
formats are set. `handle_create_domain` and the like are the names of the code; handlers that share their branches
are one operator. What a handler does to the server's state is in the other modules; here any branch may be
taken. Of CMrpc is assumed, from how the code uses it: a reply buffer has the size of its format and unknown contents; a
cleanup is called with the reply after it was encoded; the client gets the members both formats have.

### StorageStone

The transaction bucket is COD source text made for a size; EVPath runs it for each event
that comes. `table` and `num_missing` are its static variables. Three kinds of events: `heads_up` announces a
message, `simple` is one, `relay` asks. EVPath keeps an event until the action discards it: `relays` are
the relays that stay, and the action looks at the first of them, whichever came. `out` is what
the last event made it submit. `overrun` names the buffers that were accessed past their end: the
text that is built ("text"), the table ("table"), the list of missing messages ("store"). The history variables say what was
announced and came, and who is to blame for an overrun.

### Cleaning

The thread of `CleaningThread.cc` next to the thread that runs the handlers. A handler holds its guard from its
first line to its last, and there is one thread for all of them, so a handler is one step, possible while
no sweep holds the guard. `HandleList` leaves in `reply` the names in the map that the reply of
`get_binding_list` points to, and `Encode` reads them later, without the guard. The sweep is `Lock`, then for each
context on `checklist` a `Visit`, a `Clean` for each that has expired, and `Onward`; then `Unlock`, which tests `go`.
Of the directory there are contexts, the names they have for each other, and their heartbeat entities with their data:
none, no char data, data of no length, or a time. A context that was removed keeps its record, since others may still list it as a
referrer or a parent. The server stops (`fault`) where it would follow such a pointer:

* removing a context that is held by a removed one, or that holds itself: its name map is destroyed before its base class asks
  each referrer to unbind (`CanRemove`);
* announcing the creation or deletion of a context below a removed one (`HasFullName`);
* removing the domain while the heartbeat entity of a removed context is still listed: `~Domain` deletes the entity, and its destructor
  asks that context to unbind it (`HandleRemoveDomain`);
* a sweep that comes to a removed context, or to a heartbeat without char data;
* encoding a name that was freed.

It exits when the source of a link is gone (`HandleLink`). Any other request with the id of a removed context acts on the
root, or on nothing (`Base`). The cleaning thread ends when it finds `go` unset after a sweep. Clients that had the domain removed send nothing more.

### Expiry

A server that cleans up, as its clients may see it. Contexts are made, perhaps holding a first name already, named, kept alive and removed (`Make`, `Link`, `Unlink`, `Beat`, `Remove`,
`Close`); time passes; and a `Sweep` takes, in one step, what had expired when it began and can be reached from the root without passing
something else that had, with all its names.

`Cleaning` maps to it by its instance `Atomic`. While a sweep holds the guard (`Midway`), what is shown is what will be left when
it is over: `Left` and `NamesLeft` are what existed and was bound when it took the guard, without what is due (`Lost`). So the sweep
happens in its `Lock`, and the rest of it, the requests that wait, the replies that are encoded meanwhile
and the `Unlock` must not show. `SweepIsAtomic` is the specification of that instance. It says nothing of a server that has stopped.

### MC modules

`MCDirectory`, `MCEventChannels`, `MCDomainRegistry`, `MCEntityData`, `MCRpc`, `MCStorageStone`, `MCCleaning` extend the specifications and define the
small sets of names, keys and symmetries that the configurations use.

## 4. The runs

Bounds: every bound is a constant or a guard with the comment `bound`. `CHECK_DEADLOCK FALSE` is set
everywhere because the systems stop at their bounds, when the server has stopped, or when the
domain is removed.

| Run | Instance | What it shows |
|---|---|---|
| `directory` | 2 components, ids up to 4 (two objects besides the root), all names up to length 2, any client | The inductive invariant, types included, and its parts one by one; replies agree with names; ids are not reused; `Directory` implements `Namespace`. Two objects are enough for a context in a context, an entity with two names, a context linked into itself, a placeholder promoted under a second name, and every fault. |
| `careful` | 3 components (two for contexts, one for entities), same ids | Clients that keep the contract never make the server follow a bad pointer. |
| `events` | one entity, one context, two registrations, one data type, buckets of 2, 5 events | Each registration gets exactly what it is owed, in order, through creation, promotion, aggregation, removal and re-creation. 5 events are enough to fill a bucket twice, and to remove and re-create an object between. The code's bucket size is 5; the constant is 2. |
| `events_live` | one registration, 5 events | Answers arrive, and so do events; `EventChannels` implements `Subscriptions`. One registration and 5 events are enough to lose what a bucket gathered; that it is the same for all registrations of a channel needs two, and is left to the theorem. |
| `registry` | 2 servers, 1 client, 2 keys, 4 numbers, one restart | List and map agree, open shares, ids are good at home. |
| `removed_context_lets_go` | as `directory` | See 5. |
| `entity_data` | 2 clients, 2 entities, data of types int and float, 2 attributes, 2 writes, gets without options (the theorems take every set of options); one client creates, writes, removes and sets attributes, the other gets and sets data and gets attributes | The inductive invariant, types included; events carry what is stored; answers never go back; stale ids do nothing; attributes are merged. Two writes and two entities under one name are enough for an id that goes stale, an overwritten value, and a name that changes its entity while a call is under way. Char data takes the same path as float data, save for its creation, which goes to its own handler as int's does. |
| `requests_find_their_server`, `new_id_resolves` | as `registry` | See 5. |
| `rpc` | every call of the agent library in any order, every branch of its handler, restarts; events | What is read was sent; what is returned was answered; pointers are set; replies and cleanups keep to their memory; nothing leaks. Each property names the calls for which the code does otherwise. The model has no bounds: calls leave nothing behind but what leaks. |
| `storage_stone` | buckets of 0, 2 and 10, 4 events | The bucket answers truthfully and keeps to its memory but for the named sizes, numbers and orders. 4 events are an announcement, a count, another announcement and the request for what is missing; 10 is the least size whose text does not fit. |
| `cleaning` | a root and 2 contexts, 2 names, 3 requests, times 1 and 2, a list of at most 4 contexts in a sweep | A sweep removes exactly what had expired, frees names under a reply, stops the server only where contexts were linked; everyone goes on but for cycles and the stop that comes too early; `Cleaning` implements `Expiry`. 3 requests make a context in another with a heartbeat, one with two names and a heartbeat, which is doomed twice, one that holds itself and whose removal, by a request or a sweep, stops the server, a listing of what a sweep removes, and the removal of a domain after a sweep removed a context with a heartbeat. They are not enough for a creation below a removed context, which needs 4 (make, make in it, remove, make in that): that stop is in the theorems and in `directory`, not in this run. |

Symmetry is used for components, registrations and servers in safety runs only; no
specification orders them. The liveness run uses none.

**Fairness** (`EventChannels`). Weak fairness of `Fire`: a handler that runs goes on. Strong fairness
of `GetStone`: the network thread handles messages in arrival order, and every handler ends, so a
request is handled although `todo` is filled again and again before it. Weak fairness of
`Associate` and `Deliver`: the client waits for its answer and runs its network, as all programs of
`tests/` do. Nothing else is fair: clients may stop making requests.

**Fairness** (`Cleaning`). Nothing says that the cleaning thread is started: `start` is not fair, as `pdsd.cc:322-324` does not call it.
Weak fairness of each step of the thread once it is started, and of `Encode`: both threads run.
Strong fairness of `Handle`: a sweep takes the guard again and again, but sleeps a minute
between two, and a handler that waits meanwhile gets it. Nothing makes a client send a request or `stop` be
called. Where the thread is never started, `EveryoneGoesOn` only says that each request gets its turn.

`Directory` and
`DomainRegistry` state no liveness: a handler is a terminating call.

Every property of a passing run has a mutant, an altered operator next to the original
marked `Mutant`, under which TLC finds the property violated.

## 5. Where the code does otherwise than its documents say

* `RemovedContextLetsGo`: `pds_remove_context` promises to unbind what the context holds; `~Context`
  frees the map only. What was bound there keeps a dangling referrer (and, if created there, a
  dangling parent), which its own removal or the next creation event follows.
* `RequestsFindTheirServer`: `pds_service_of_id` is off by one unless the service is the first. With the two servers of the run it comes to the
  end of the list; with three it would come to another server.
* `NewIdResolves`: a look-up of a stale number makes a later domain with that number unreachable.

The exceptions the other properties name are behaviour of the code too: the
comments of `ReadsWereSent`, `AnswersComeFromHandler`, `PointersWritten`, `ReplyFits` and `OnlyAttributesLeak` (`Rpc`),
`MemorySafe` (`StorageStone`), `SweepIsExact` and `EveryoneGoesOn` (`Cleaning`) give them with their lines.

Read and not made into runs: `pds_create_domain` is said to return the id of a matching domain if there is one
(`pds.h:148`) and always makes a new domain, so `OpenShares` leaves the domains it made out; binding to a name that is taken answers 1; the id of a removed context makes a name absolute;
the request to create a float entity is registered with the int handler
(`pdsd_handlers.cc:1531-1533`), so its data is stored, and announced, as ints; `pds.h` gives `pds_bind_entity_to_name`
a `source_context`, which `handle_bind_entity` never reads; `pds_query_by_xpath` expects
another format than the server registers for the reply; `CleaningThread.cc:97` says that no requests are processed during a sweep,
and the encoding of a reply is not kept out by the guard; `create_e_storage_action_spec` reads one entry past the list of
formats it copies; `pds_remove_domain` promises events for what it destroys and sends
none (`~Domain`); the bind event of an entity is sent although the name was taken
(`Domain.cc:571-574`); `pds_remove_entity` by name takes one name away, and the entity stays;
`pds_cancel_changes_registration` answers 1 and does nothing; `pds_find_matching_domains` writes
`*matches[i]` (`client.c:490`); `pds_set_domain_attrs` is said to replace the attributes and merges
them (`pds.h:205`); `pds_get_domain_attrs` and `pds_get_context_attrs` read the attributes from the
message they sent; the context and domain attribute handlers write their status through an unset
pointer (`pdsd_handlers.cc:595`, `653`).

## 6. The proofs

`DirectoryProofs` proves, with TLAPS, for all finite sets of names, all paths and links, any number of ids
and careful or careless clients:

* `Invariance`: `Spec => []IInv`. `IInv` is the heap invariant and the request invariant.
* `TypeCorrect`, `ReferrersAgree`, `BindingsLive`, `EraseSafe`, `EventsMatchLives`: its parts.
* `FreshIds`: the action property that an id never denotes a second object.

The assumptions are those `Directory` states of its constants: names are finite, paths are
sequences of names, there is room for the domain and its root.

Why the invariant is what it is. `ReferrersExact` says that `referrers[o][c]` is the number of
names under which `c` binds `o`, plus one if `o` was created in `c`. It is what makes everything
else inductive: deleting an object clears a name only as often as the referrer list mentions the
context, so `NoDanglingBinding` needs that the list mentions it at least as often as there
are bindings; and `erase` is safe if a binding implies an entry. `Fresh` adds that
numbers from `counter` on have left no trace (so a new object starts without bindings or
referrers), and that freed objects hold none. `InFlight` adds what a request under way has
established: the source of a bind exists, what was looked up exists when the tail of the handler uses it.
`ReferrersExact` and `NoDanglingBinding` speak of existing contexts and objects only: removal of a context
does leave dangling pointers, and the invariant survives because the next step that would follow
one is a fault.

The proof has lemmas on counting (`NamesOf`, `Dropped`, `Cleared`), one preservation lemma for
each operator that changes the heap (`NewObject`, `MakeReal`, `Bind`, `Unbind`, `Delete`), one
step per action of `Next`, and a temporal step by PTL.

`NamespaceProofs` proves `Implementation`: `Spec => IsNamespace`, from the same assumptions. The argument
has two halves. Every step of every request does one of seven things to the heap (`Doing`): nothing, a new object
under a free name of a context, a placeholder made real, a bind, an unbind, the deletion of one
object with its event, or of the root and the listed entities. And each of these is an action of
`Namespace` on the view, or is not seen. The second half is where the referrer lists earn their keep:
a deletion clears names through them, and is `Gone`, all names of the object and no others,
because of `ReferrersExact` (`DroppedAll`, `DeleteNames`). It needs three facts more
(`Classes`, proved as `ClassesKept`): the contexts a request holds are contexts, so only contexts give names; `entity_list` lists
every entity there ever was, so the removal of a domain takes exactly its entities; what
announced its deletion does not exist.

`RequestProofs` proves, from the same assumptions, `WalksFollow` (`WalkFollowsName`), `RepliesFollow`
(`RepliesMatchNames`) and `CarefulClients` (`CarefulIsSafe`). What a name denotes, `Named`, is a function
defined by recursion on the name; `NamedIn` is the same for any name maps, so that those before and
after a step can be compared. Its lemmas are not proved by induction but from least counterexamples (`LeastOf`): the function exists
(`LeadsAll`) and is one (`FollowsOnce`), a prefix of a name denotes what the name leads through (`NamedPrefix`),
a name keeps what it denotes while maps only grow (`NamedKept`), and denotes that or nothing when bindings
go (`NamedLost`). The invariant of walks is `WalkInv`, in three parts:

* `OnlyContextsBind`: what is not a context gives no names, so a walk that meets an entity may give up: the
  rest of its name denotes nothing.
* `OnTheWay`: a walk is where the components it has passed lead; or it is nowhere, and then the whole name denotes nothing.
* `Arrived`: what a request has found or made at the end of its walk is what its name denotes, and is
  real if the request creates.

A walk makes contexts behind itself; `NamedAnew` shows that a new name in the context it is in changes nothing of how it got there.

For careful clients the invariant is `CarefulInv`. The heap is `Tidy`: parents exist, are contexts
and have smaller numbers, so the full name of every object can be read (`ChainsLive`); referrers exist;
and a name for a context, or for an entity, is bound to one. `Safe` says of a request in progress what
was good when it was sent and still is (`Sent`), that its walk is in a context that exists with a name fit for what it wants (`SafeWalk`),
and that what it found or made is what its handler needs (`SafeEnd`). For the bind of a context by name this includes that the
source's name denotes a real object, from the moment of the request on: the walk makes nothing, and no other
request comes between. A domain that is removed leaves a server that is idle, and careful clients send nothing more
(`Down`). What the contract needs of names is the assumption `NamesApart` of `Directory`: the components that careful clients use
for contexts are not those they use for entities. Without it a name that runs through an entity ends in a null
context, which `resolve_or_create_name` follows.

`EntityDataProofs` proves, for any number of clients, attributes and writes, any sets of options and any
division of the operations among clients: `Invariance` (`Spec => []IInv`), `TypeCorrect`, `EventsCarryData`, `AnswersGoForward` and
`StaleIds`. `AttributesKept` is the action property `AttributesStay`: a request is taken apart into the lists it sends
(`Changes`, `Merges`, `Sets`), each of which keeps every attribute it does not name. `GetsGoForward` speaks of a client that holds an answer; to carry it through a step one must know where
the answer came from, so `IInv` adds that existing entities, and those still to come, hold the last of their
history (`HoldsTheLast`), that what a client has seen is within the history (`SeenIsThere`), and that a
call that wrote knows a place in it (`WroteIsThere`). Entities that are gone are left out of
`HoldsTheLast`: their data is gone, their history is not, and no later request finds them. Each request
is shown to be a `Sends`, each handler a `Handles`, which leaves histories longer at most
(`HistoryGrows`); that alone keeps what the other clients hold good (`OthersKept`).
The assumptions are those `EntityData` states of its constants.

`StorageStoneProofs` proves, for every set of sizes and any number of events: `Invariance`, and from it `KeepsToItsMemory` and
`AnswersAreTrue`. What the invariant adds: the table says of each message what the history says (`TableKnows`), the count is what is
missing if it was taken once and nothing came since (`CountHolds`), and the relays that stay begin with one the
action does not discard, so that a bucket with a relay in it answers nothing any more (`RelaysStay`).

`DomainRegistryProofs` proves, for any number of servers, clients, keys, numbers and restarts, `ListAndMap`, `OpenedAreShared`
and `IdsDenote`, the three invariants of the registry. `IdsGoodAtHome` needs that requests which did not stray are about
domains: so the invariant says that the ids of the present run are below the server's counter and denote a domain
or nothing (`Unspoilt`), that numbers from the counter on have no entry, not even a null one, which would hide the object that gets the number, and that
runs only grow (`RunsGrow`), so that a restart leaves no id of its run. `Spaced` says that a domain and its root take two numbers that
no other listed domain has: removing one domain takes exactly its two entries. `OpenShares` counts
positions of a list from which one is erased. The assumptions are `MaxNum` and `MaxRun` being naturals, and that no client is a server.

`EventChannelsProofs` proves, for any sets of objects, sinks and data types, any bucket size and any bound on the
histories: `Invariance`, and from it `TypeCorrect`, `Subscribers` (`SubscribersAreServed`),
`Delivery` (`NoGap`), `Buckets` (`BucketsPassOn`) and `DataFollows` (`DataAfterCreation`). None of the invariants
is inductive: an event is submitted, waits in `todo` behind others, passes through a stone or a chain of them, and only then
reaches a log. So the invariant speaks of each log together with what is still on its way to it (`Ahead`, `At`):

* `Core` has the shape of the graph of stones: what is in `todo` belongs to stones that exist (`TodoGood`), each list of targets
  holds the stone of the latest object and serves its sinks (`ListsGood`), buckets hang below the
  stone they were made for (`Hangs`), and what a freed object owned is gone (`Gone`).
* `Delivered`, `Ordered` and `CreatedFirst` state the three promises of a log followed by what it is owed: nothing is
  missing in it, it is in the order of submission, and data comes after the creation it is about.

A request only appends new stones and links (`Grown`, `Grows`), so what is owed to an old sink stays what it was. A step of
the network fires the first entry of `todo`: `Fires` says what it does to each kind of stone, `FireOwes` that every sink is
owed afterwards what it was owed before, less what went into its log, and `GoesOn` that a stream so extended keeps
its promises. The assumptions are those `EventChannels` states: a positive bucket, a bound on histories,
known data types, objects that are not the root or the domain, and finitely many sinks, which are counted.

`BucketsPassOn` is an invariant, that no stone holds a bucketful, and an action property, that what a step sends to a registration is a
bucketful from a storage stone and one event from any other (`SendsFull`). `StepSendsFull` has only the steps of `Fire` to look at; there
`PassesFull` says what comes out of a stone, and that a registration is sent to from the one stone it hangs off is `Subscribers` again.

`PromisesKept` is the refinement `KeepsPromises`, `Spec => Promised!Spec`. Its argument:

* A registration hangs off a stone as long as its object exists (`Hanging`, which follows from `IInv`), and all
  registrations of a channel hang off the first stone of its type (`SubscribersAreServed`). So they wait for the same held events (`SameHeld`).
* What a stone holds is the latest of its channel, fewer than a bucket: it is in the channel's log (`HeldAt`), `Ordered` puts it after all that was passed on,
  and held events increase, so they are counted by their length (`IncreasingCard`, `GathersStone`). So what is lost when a stone is replaced or goes
  is what `Gathers` allows, for all at once.
* A step of the server changes what is owed as `FireOwes` says. `SeenSame` and `OwedSame` say when a step changes nothing a client could tell; then it is
  a stutter (`Hidden`): so are requests that only submit events (`SubmitsHides`) and a registration that is begun or given up (`RegisterHides`,
  `StateHides`). `AggregateIsGather`, `RemoveDomainIsStop`, `FireIsSend`, `GetStoneIsGrant`, `AssociateIsListen` and `DeliverIsArrive` are
  the steps that show, named for what they are.
* What arrives is the oldest of what is owed, since the log and what follows it are in order and held events come last (`HeldIsLast`).

`CleaningProofs` proves, for any number of contexts and names and any timeout: `Invariance`, `TypesHold` (`TypeOK`)
and `SweepsAreExact` (`SweepIsExact`). A sweep holds the guard over many steps while requests come in, replies are encoded
and time passes; what it has to do is settled by what it found when it took the guard (`Settled`). The invariant says how far it has come:

* `SinceBefore`: what is gone since was due, and the other contexts have the names they had, but for those of what is gone.
* `ListsOK`: all on the list exist, are to be visited and have not expired; all doomed are due.
* `Covered`: there is a set of contexts that were visited; what was bound in one of them is removed or
  doomed if it had expired, visited or on the list if not. When both lists are empty this set is closed, so it has all of
  `Visited`, and nothing due is left (`NothingDueIsLeft`).
* `DoomedOK`: while nothing was linked, a context has one name, in the context it was made in (`Tree`); the doomed are
  bound in `current`, each once, `current` is not one of them, and all above them live. So each can be removed
  (`DoomedCanGo`), and a sweep stops the server only where contexts were linked. Where they were, the doomed may hold themselves, be there twice, or be held by what is
  gone: then the sweep stops, and nothing is claimed of it.

`Above` and `Visited` are defined as least sets with a closure property, so that no induction is needed to
use them; `Selected` is a recursive function, and `SelectedChosen` says what it chooses, by a least counterexample. The assumptions are
`CleaningAssumption`: contexts are numbers, in the order they are made, there are finitely many, and the clock starts at the timeout.

`SweepsAreAtomic` is the refinement `SweepIsAtomic`, `Spec => Atomic!Spec`. The sweep happens in `Lock` (`LockIsSweep`): what is due
when the guard is taken, found by the visits, is what `Expiry` says can be reached (`DueIsReached`).
Each request is the step of `Expiry` of its name (`CreateIsMake` to `RemoveDomainIsClose`), since the guard
keeps it out of a sweep, or it stops the server, which is a stutter: a step that follows a freed pointer changes nothing else. A link
may first make the context it puts the name in (`EntersIsMake`). During the sweep what is left in the end does not change, since it is computed
from what was settled at `Lock` (`SweepingHides`), not even if the clock ticks; and `Unlock` shows what
was promised because nothing due is left by then (`NothingDueIsLeft`, `UnlockHides`). It needs one invariant more, `BeatPast`: a request
under way has no heartbeat of the future.

Only model-checked: `Rpc`, which has no constants, so that its run is exhaustive and a proof would add nothing; all
liveness, among it `EveryoneGoesOn` of `Cleaning`.

## 7. What is not modelled

* How `name_map_` finds a name. It is a hash map from `const char*` that compares characters but takes the library's hash of the key (`Context.h:46`), which
  may be of the characters or of the address; here a name finds what was bound under it, as with a hash of the characters.
* The characters of names: `split_name` removes leading separators and splits at the last one; here a
  name is a sequence of components.
* The values of attributes and of data beyond the first element, and the offsets and widths of members in messages.
* Dumps: their handlers are commented out. The building of query strings (`pds_build_xpath_query`): text only; the
  query handler is in `Rpc`, and answers nothing.
* Tracing and logging: output only.
* Checkpointing, loading and the HTTP server: not part of the build.
* Java, JNI and `jpds`: wrappers around the agent library.
* Failures of the network: `CMrpc_call_rpc` blocks until the answer is in and the code has no
  timeouts or retries.
