--------------------------- MODULE DomainRegistry ---------------------------
(***************************************************************************)
(* Domains of several PDS servers and the clients that hold their ids.  A  *)
(* server keeps its domains in a list, in order of creation, and resolves  *)
(* the number in an id through the map of all its objects.  An id carries  *)
(* the address of its server and the number of the object there: it tells  *)
(* neither the object's class nor the run of the server that made it.      *)
(*                                                                         *)
(* The agent library of a client keeps the services it has open in a list, *)
(* newest first, and searches it for the server of an id.  A request runs  *)
(* to completion in the server's one thread and its client waits for it,   *)
(* so a request is one action.                                             *)
(*                                                                         *)
(* A client fails when the search finds no service; a server fails when it *)
(* takes an object of another class for a domain.                          *)
(***************************************************************************)
EXTENDS Integers, Sequences, FiniteSets

CONSTANTS
  Servers, Clients,
  Keys,      \* what domains are made with and asked for: [name, type, version, app]
  NullName,  \* a null string in a key
  AnyName,   \* the name "*"
  MaxNum,    \* bound: the largest object number of a run
  MaxRun     \* bound: the runs, the first of all servers counted as one

ASSUME ClientsAreNoServers == Clients \cap Servers = {}
ASSUME MaxNumNat == MaxNum \in Nat
ASSUME MaxRunPos == MaxRun \in Nat \ {0}

Nums == 1 .. MaxNum
Ids == [server : Servers, num : Nums]

VARIABLES
  run,       \* history: the run each server is in; restarts of all servers are numbered
  counter,   \* objectId::counter
  objects,   \* objectId::global_object_map: "none" where there is no entry
  domains,   \* Domain::global_domain_list_
  services,  \* each client: open_services
  failed,    \* the clients and servers that have failed
  issued,    \* history: ids in the hands of clients, with the run that made them
  creates,   \* history: the keys create_domain was called with in this run, and how often
  strayed    \* history: a request reached another server, or another run, than made its id

registry == <<run, counter, objects, domains>>
vars == <<registry, services, failed, issued, creates, strayed>>

---------------------------------------------------------------------------
(* Keys. *)

FitsName(wanted, name) == wanted \in {NullName, AnyName} \/ name = NullName \/ wanted = name

\* Domain::find_matching_domains: a null name fits and is fitted by everything.
Fits(wanted, key) ==
  /\ FitsName(wanted.name, key.name)
  /\ FitsName(wanted.type, key.type)
  /\ wanted.version \in {-1, key.version}
  /\ FitsName(wanted.app, key.app)

Matches(s, wanted) == {i \in DOMAIN domains[s] : Fits(wanted, domains[s][i].key)}

---------------------------------------------------------------------------
(* Servers. *)

Up(s) == s \notin failed

\* The map keeps the entry it has: a null entry, which the look-up of a number that was not
\* there left behind, hides the object that is given the number later.
Entered(map, num, class) == [map EXCEPT ![num] = IF @ = "none" THEN class ELSE @]

Issue(s, num) == issued' = issued \cup {[id |-> [server |-> s, num |-> num], run |-> run[s]]}

\* Mutant: a number is skipped.
NewDomainApart(s, key) ==
  LET num == counter[s] IN
  /\ num + 1 \in Nums
  /\ counter' = [counter EXCEPT ![s] = num + 3]
  /\ domains' = [domains EXCEPT ![s] = Append(@, [num |-> num, key |-> key])]
  /\ objects' = [objects EXCEPT ![s] = Entered(Entered(@, num + 1, "other"), num, "domain")]
  /\ Issue(s, num)
  /\ UNCHANGED run

\* Domain's constructor: the domain takes one number, its root context the next.
NewDomain(s, key) ==
  LET num == counter[s] IN
  /\ num + 1 \in Nums    \* bound
  /\ counter' = [counter EXCEPT ![s] = num + 2]
  /\ domains' = [domains EXCEPT ![s] = Append(@, [num |-> num, key |-> key])]
  /\ objects' = [objects EXCEPT ![s] = Entered(Entered(@, num + 1, "other"), num, "domain")]
  /\ Issue(s, num)
  /\ UNCHANGED run

\* handle_create_domain.
CreateDomain(s, key) ==
  /\ NewDomain(s, key)
  /\ creates' = [creates EXCEPT ![s][key] = @ + 1]
  /\ UNCHANGED <<services, failed, strayed>>

\* Mutant: open always makes a domain.
OpenDomainNew(s, key) ==
  /\ NewDomain(s, key)
  /\ UNCHANGED <<services, failed, creates, strayed>>

\* handle_open_domain: the first domain that fits, or a new one.
OpenDomain(s, key) ==
  /\ IF Matches(s, key) = {}
     THEN NewDomain(s, key)
     ELSE LET i == CHOOSE i \in Matches(s, key) : \A j \in Matches(s, key) : i <= j
          IN Issue(s, domains[s][i].num) /\ UNCHANGED registry
  /\ UNCHANGED <<services, failed, creates, strayed>>

\* A context or an entity takes a number.
NewObject(s) ==
  /\ Up(s) /\ counter[s] \in Nums
  /\ counter' = [counter EXCEPT ![s] = @ + 1]
  /\ objects' = [objects EXCEPT ![s] = Entered(@, counter[s], "other")]
  /\ UNCHANGED <<run, domains, services, failed, issued, creates, strayed>>

\* Mutant: the domain stays in the list.
DeletedListed(s, num) ==
  /\ objects' = [objects EXCEPT ![s][num] = "none", ![s][num + 1] = "none"]
  /\ UNCHANGED domains

\* A list without what is at i; all of it if i is not a position.
Erased(list, i) ==
  IF i \in DOMAIN list THEN [j \in 1 .. Len(list) - 1 |-> IF j < i THEN list[j] ELSE list[j + 1]]
  ELSE list

\* Where a domain is in the list.
At(s, num) == CHOOSE i \in DOMAIN domains[s] : domains[s][i].num = num

\* Mutant: the domain stays in the map.
DeletedMapped(s, num) ==
  /\ domains' = [domains EXCEPT ![s] = Erased(@, At(s, num))]
  /\ UNCHANGED objects

\* The domain leaves the list and the map, and its root context the map.
Deleted(s, num) ==
  /\ domains' = [domains EXCEPT ![s] = Erased(@, At(s, num))]
  /\ objects' = [objects EXCEPT ![s][num] = "none", ![s][num + 1] = "none"]

\* handle_remove_domain at the server that the request reached.  Looking a number up that is
\* not in the map enters a null object for it.
RemoveAt(s, id) ==
  LET class == objects[s][id.num] IN
  CASE class = "domain" -> Deleted(s, id.num) /\ UNCHANGED failed
    [] class = "other" -> failed' = failed \cup {s} /\ UNCHANGED <<objects, domains>>
    [] class \in {"none", "null"} ->
         objects' = [objects EXCEPT ![s][id.num] = "null"] /\ UNCHANGED <<domains, failed>>

\* handle_shutdown_server, or the server fails, and it is started again: nothing of its
\* state is kept, its address is.
Restart(s) ==
  /\ \E r \in 2 .. MaxRun : (\A t \in Servers : run[t] < r) /\ run' = [run EXCEPT ![s] = r]    \* bound
  /\ counter' = [counter EXCEPT ![s] = 1]
  /\ objects' = [objects EXCEPT ![s] = [n \in Nums |-> "none"]]
  /\ domains' = [domains EXCEPT ![s] = <<>>]
  /\ creates' = [creates EXCEPT ![s] = [k \in Keys |-> 0]]
  /\ failed' = failed \ {s}
  /\ UNCHANGED <<services, issued, strayed>>

---------------------------------------------------------------------------
(* The agent library. *)

\* pds_service_open: a service that is open already is used again.
Open(c, s) ==
  /\ \A i \in DOMAIN services[c] : services[c][i] # s
  /\ services' = [services EXCEPT ![c] = <<s>> \o @]
  /\ UNCHANGED <<registry, failed, issued, creates, strayed>>

Close(c, i) ==
  /\ services' = [services EXCEPT ![c] = Erased(@, i)]
  /\ UNCHANGED <<registry, failed, issued, creates, strayed>>

\* pds_service_of_id, a position in the list or 0 when it ends without one.  Its loop steps
\* on once after it has found the service, unless that is the first of the list.
ServiceOfId(list, s) ==
  LET found == {i \in DOMAIN list : list[i] = s}
      i == CHOOSE i \in found : \A j \in found : i <= j
  IN IF found = {} THEN 0
     ELSE IF i = 1 THEN 1
     ELSE IF i < Len(list) THEN i + 1 ELSE 0

\* pds_remove_domain with the id of h.
RemoveDomain(c, h) ==
  LET i == ServiceOfId(services[c], h.id.server)
      s == services[c][i]
  IN
  IF i = 0
  THEN /\ failed' = failed \cup {c}
       /\ UNCHANGED <<registry, services, issued, creates, strayed>>
  ELSE /\ Up(s)
       /\ RemoveAt(s, h.id)
       /\ strayed' = (strayed \/ s # h.id.server \/ h.run # run[s])
       /\ UNCHANGED <<run, counter, services, issued, creates>>

Next ==
  \/ \E s \in Servers : NewObject(s) \/ Restart(s)
  \/ \E c \in Clients \ failed :
       \/ \E s \in Servers : Up(s) /\ Open(c, s)
       \/ \E i \in DOMAIN services[c] :
            \/ Close(c, i)
            \/ Up(services[c][i]) /\ \E key \in Keys :
                 CreateDomain(services[c][i], key) \/ OpenDomain(services[c][i], key)
       \/ \E h \in issued : RemoveDomain(c, h)

Init ==
  /\ run = [s \in Servers |-> 1]
  /\ counter = [s \in Servers |-> 1]
  /\ objects = [s \in Servers |-> [n \in Nums |-> "none"]]
  /\ domains = [s \in Servers |-> <<>>]
  /\ services = [c \in Clients |-> <<>>]
  /\ failed = {}
  /\ issued = {}
  /\ creates = [s \in Servers |-> [k \in Keys |-> 0]]
  /\ strayed = FALSE

Spec == Init /\ [][Next]_vars
---------------------------------------------------------------------------
(* Properties. *)

Domain == [num : Nums, key : Keys]

TypeOK ==
  /\ run \in [Servers -> 1 .. MaxRun]
  /\ counter \in [Servers -> 1 .. MaxNum + 1]
  /\ objects \in [Servers -> [Nums -> {"none", "null", "domain", "other"}]]
  /\ domains \in [Servers -> Seq(Domain)]
  /\ services \in [Clients -> Seq(Servers)]
  /\ failed \subseteq Clients \cup Servers
  /\ issued \subseteq [id : Ids, run : 1 .. MaxRun]
  /\ creates \in [Servers -> [Keys -> Nat]]
  /\ strayed \in BOOLEAN

ListedNums(s) == {domains[s][i].num : i \in DOMAIN domains[s]}

\* The list of domains and the map of objects are kept by different code: every domain the
\* map resolves is listed, and the list is in the order of creation without repetitions,
\* which is what makes open_domain answer the same domain to everyone.
ListFollowsMap ==
  \A s \in Servers :
    /\ {n \in Nums : objects[s][n] = "domain"} \subseteq ListedNums(s)
    /\ \A i \in 1 .. Len(domains[s]) - 1 : domains[s][i].num < domains[s][i + 1].num

\* Clients that only open domains share them: in a run of a server there is at most one
\* domain of a key besides those that create_domain was called for.
OpenShares ==
  \A s \in Servers, k \in Keys :
    Cardinality({i \in DOMAIN domains[s] : domains[s][i].key = k}) <= creates[s][k] + 1

\* As long as every request reaches the server and the run that made the id it carries, ids
\* are good: a server never takes another object for a domain, and every listed domain is
\* found by its number.  This is what Directory assumes of the ids clients send.
IdsGoodAtHome ==
  ~strayed => \A s \in Servers :
    s \notin failed /\ \A n \in ListedNums(s) : objects[s][n] = "domain"

---------------------------------------------------------------------------
(* What the client's code and header say and the code does not do. *)

\* pds_service_of_id: "Extract an in_addr_t and an in_port_t from the front of the ID ... Use
\* these two values to locate a pds_service in the list": a client that has the service of
\* an id open sends its requests there.
RequestsFindTheirServer ==
  [][\A c \in Clients, h \in issued :
       RemoveDomain(c, h) /\ (\E i \in DOMAIN services[c] : services[c][i] = h.id.server)
         => failed' \cap Clients = failed \cap Clients
            /\ \A s \in Servers \ {h.id.server} : objects'[s] = objects[s]]_vars

\* pds_create_domain: "Returns the new domain ID": the id that is returned denotes the domain.
NewIdResolves ==
  [][\A s \in Servers, k \in Keys :
       CreateDomain(s, k) => objects'[s][counter[s]] = "domain"]_vars
=============================================================================
