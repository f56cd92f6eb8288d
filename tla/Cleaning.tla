------------------------------ MODULE Cleaning ------------------------------
(***************************************************************************)
(* The cleaning thread next to the thread that runs the handlers, and the  *)
(* guard between them (EngineGuard.cc, CleaningThread.cc).  The daemon     *)
(* does not start the thread (pdsd.cc:322-324): this is what it would do.  *)
(*                                                                         *)
(* A handler holds its guard from its first line to its return.  With one  *)
(* thread for all handlers readers never meet, so a handler is one step    *)
(* that needs the guard to be free; what CMrpc does with the reply comes   *)
(* after it, without a guard.  A sweep holds the guard over many steps.    *)
(*                                                                         *)
(* Of the directory only contexts, their names for each other and their    *)
(* heartbeat entities are kept.  A context that was removed keeps its      *)
(* record: what it had bound still lists it as a referrer.  Placeholders   *)
(* are left out: a sweep skips them, and they hold nothing real.  The root *)
(* is not linked, removed or given a heartbeat.  Clients send nothing more *)
(* once they had the domain removed.                                       *)
(***************************************************************************)
EXTENDS Integers, Sequences, FiniteSets

CONSTANTS Contexts,     \* contexts there may ever be, the root included
          Root,
          NumNames,     \* names are 1..NumNames, in the order of a map
          Timeout,      \* age at which a heartbeat has expired
          MaxNow,       \* bound: the clock
          MaxRequests,  \* bound: requests
          MaxChecklist  \* bound: of the list of a sweep that goes round

ASSUME CleaningAssumption ==
  /\ Root \in Contexts /\ Contexts \subseteq Nat /\ IsFiniteSet(Contexts)
  /\ {NumNames, Timeout, MaxNow, MaxRequests, MaxChecklist} \subseteq Nat
  /\ Timeout <= MaxNow

VARIABLES domain,    \* there is a domain that the sweep looks for
          exists,    \* contexts that exist
          unused,    \* contexts not made yet
          bound,     \* names of contexts in contexts
          parent,    \* where a context was made
          beat,      \* the data of its heartbeat entity
          now, requests,
          net,       \* the handlers' thread: the request it has, or Idle
          reply,     \* the names a reply under way points to
          go,        \* CleaningThread::go
          cleaner,   \* what the cleaning thread is about
          timeout, checklist, current, doomed,   \* locals of cleanup
          fault      \* why the server stopped

\* History: the contexts and names a sweep began with; whether a context
\* was ever linked; whether a sweep removed something since the last
\* get_binding_list; whether stop was called, before start or after.
VARIABLES before, linked, swept, stopped

heap == <<domain, exists, unused, bound, parent, beat>>
sweep == <<timeout, checklist, current, doomed, before>>
vars == <<heap, now, requests, net, reply, go, cleaner, sweep, fault, linked, swept, stopped>>

Names == 1..NumNames
None == -1
NoNames == [c \in Contexts |-> [n \in Names |-> None]]
NoBeat == -3     \* no such entity
Bare == -2       \* an entity without char data
Empty == -1      \* char data of no length
Idle == [op |-> "idle"]

-----------------------------------------------------------------------------
(* The guard.                                                              *)

Sweeping == {"visiting", "removing", "swept"}
Free == cleaner \notin Sweeping

-----------------------------------------------------------------------------
(* Removing a context.                                                     *)

Fault(why) == fault' = why
Running == fault = "none"

Holds(c, x) == \E n \in Names : bound[c][n] = x

\* x and the contexts it was made in.
Above(x) ==
  {a \in Contexts : \A S \in SUBSET Contexts :
                      x \in S /\ (\A y \in S \ {Root} : parent[y] \in S) => a \in S}

\* get_full_name follows parent_ to the root.
HasFullName(x) == Above(x) \subseteq exists

\* The deletion event carries the full name, and the destructor asks each
\* referrer to unbind.  A referrer that was removed is freed memory, and a
\* context that holds itself has lost its name map by then.
CanRemove(x) == /\ x \in exists /\ HasFullName(x)
                /\ \A c \in Contexts : Holds(c, x) => c \in exists \ {x}

Without(x) == [c \in Contexts |-> IF c \in exists
                                  THEN [n \in Names |-> IF bound[c][n] = x THEN None
                                                        ELSE bound[c][n]]
                                  ELSE bound[c]]

remove_context(x, why) ==
  IF CanRemove(x)
  THEN exists' = exists \ {x} /\ bound' = Without(x) /\ UNCHANGED fault
  ELSE Fault(why) /\ UNCHANGED <<exists, bound>>

-----------------------------------------------------------------------------
(* The handlers' thread.                                                   *)

Make(p, n) == [op |-> "create", at |-> p, name |-> n]
Link(x, m, n) == [op |-> "bind", at |-> x, under |-> m, name |-> n]
Unbind(p, n) == [op |-> "unbind", at |-> p, name |-> n]
Remove(x) == [op |-> "remove", at |-> x]
Beat(x, d) == [op |-> "beat", at |-> x, data |-> d]
List(x) == [op |-> "list", at |-> x]
RemoveDomain == [op |-> "remove_domain"]

Request(r) ==
  /\ Running /\ net = Idle /\ requests < MaxRequests /\ domain
  /\ net' = r /\ requests' = requests + 1
  /\ UNCHANGED <<heap, now, reply, go, cleaner, sweep, fault, linked, swept, stopped>>

\* Mutant: the handlers take no guard.
HandlingEarly(op) == /\ Running /\ net.op = op
                     /\ net' = Idle
                     /\ UNCHANGED <<now, requests, go, cleaner, sweep, stopped>>

Handling(op) == /\ Running /\ net.op = op /\ Free
                /\ net' = Idle
                /\ UNCHANGED <<now, requests, go, cleaner, sweep, stopped>>

Kept == UNCHANGED <<domain, unused, parent, beat, reply, swept, linked>>

\* An id whose context is gone gives a null pointer; names then begin at
\* the root.  Removal does nothing with it, a list is empty, a heartbeat
\* becomes an entity of the root.
Base(x) == IF x \in exists THEN x ELSE Root

\* The names in a context that has just been made.
NoRow == [n \in Names |-> None]

\* A new context, in which row is bound.  Its creation event carries its
\* full name.  Bound: when no context is left nothing happens.
NewContext(p, n, row) ==
  IF ~HasFullName(p)
  THEN Fault("request") /\ UNCHANGED <<unused, exists, bound, parent>>
  ELSE /\ IF unused = {} THEN UNCHANGED <<unused, exists, bound, parent>>
          ELSE \E x \in unused :
                 /\ \A y \in unused : x <= y
                 /\ unused' = unused \ {x} /\ exists' = exists \cup {x}
                 /\ bound' = [bound EXCEPT ![p][n] = x, ![x] = row]
                 /\ parent' = [parent EXCEPT ![x] = p]
       /\ UNCHANGED fault

\* A name that is taken is answered with what it denotes.
HandleCreate ==
  /\ Handling("create")
  /\ LET p == Base(net.at) IN
     IF bound[p][net.name] = None THEN NewContext(p, net.name, NoRow)
     ELSE UNCHANGED <<unused, exists, bound, parent, fault>>
  /\ UNCHANGED <<domain, beat, reply, linked, swept>>

\* The source is given by its id; the server exits if it is gone.  The new
\* name has two components: the first, in the root, is made if it is not
\* there.  A name that is taken keeps its binding.
HandleLink ==
  /\ Handling("bind")
  /\ LET x == net.at  p == bound[Root][net.under] IN
     IF x \notin exists
     THEN Fault("request") /\ UNCHANGED <<unused, exists, bound, parent, linked>>
     ELSE IF p = None
     THEN /\ NewContext(Root, net.under, [NoRow EXCEPT ![net.name] = x])
          /\ linked' = TRUE
     ELSE /\ IF bound[p][net.name] = None
             THEN bound' = [bound EXCEPT ![p][net.name] = x] /\ linked' = TRUE
             ELSE UNCHANGED <<bound, linked>>
          /\ UNCHANGED <<unused, exists, parent, fault>>
  /\ UNCHANGED <<domain, beat, reply, swept>>

HandleUnbind ==
  /\ Handling("unbind")
  /\ bound' = [bound EXCEPT ![Base(net.at)][net.name] = None]
  /\ UNCHANGED <<exists, fault>> /\ Kept

HandleRemove ==
  /\ Handling("remove")
  /\ IF net.at \in exists THEN remove_context(net.at, "request")
     ELSE UNCHANGED <<exists, bound, fault>>
  /\ Kept

\* Data, once there, is only replaced.
HandleBeat ==
  /\ Handling("beat")
  /\ beat' = IF net.at \in exists /\ (net.data = Bare => beat[net.at] = NoBeat)
             THEN [beat EXCEPT ![net.at] = net.data] ELSE beat
  /\ UNCHANGED <<domain, exists, unused, bound, parent, reply, fault, linked, swept>>

\* The reply points to the names in the map.
HandleList ==
  /\ Running /\ net.op = "list" /\ Free
  /\ IF net.at \in exists
     THEN /\ reply' = {<<net.at, n>> : n \in {m \in Names : bound[net.at][m] # None}}
          /\ net' = [op |-> "reply"]
     ELSE net' = Idle /\ UNCHANGED reply
  /\ swept' = FALSE
  /\ UNCHANGED <<heap, now, requests, go, cleaner, sweep, fault, linked, stopped>>

\* Encoding the reply: no guard is held any more.  Unbinding frees a name.
Encode ==
  /\ Running /\ net.op = "reply"
  /\ IF \E cell \in reply : bound[cell[1]][cell[2]] = None THEN Fault("reply")
     ELSE UNCHANGED fault
  /\ net' = Idle /\ reply' = {}
  /\ UNCHANGED <<heap, now, requests, go, cleaner, sweep, linked, swept, stopped>>

\* ~Domain deletes the entities that are still listed; each asks the context
\* it was made in to unbind it.
HandleRemoveDomain ==
  /\ Handling("remove_domain")
  /\ IF \E x \in Contexts \ exists : beat[x] # NoBeat
     THEN Fault("request") /\ UNCHANGED <<domain, exists>>
     ELSE domain' = FALSE /\ exists' = {} /\ UNCHANGED fault
  /\ UNCHANGED <<unused, bound, parent, beat, reply, linked, swept>>

-----------------------------------------------------------------------------
(* The cleaning thread.                                                    *)

CleanerStep(from, to) == /\ Running /\ cleaner = from /\ cleaner' = to
                         /\ UNCHANGED <<now, requests, net, reply, linked>>

start == /\ CleanerStep("starting", "asleep")
         /\ go' = TRUE
         /\ UNCHANGED <<heap, sweep, fault, swept, stopped>>

stop == /\ Running /\ stopped = "no"
        /\ go' = FALSE
        /\ stopped' = IF cleaner = "starting" THEN "early" ELSE "yes"
        /\ UNCHANGED <<heap, now, requests, net, reply, cleaner, sweep, fault, linked, swept>>

\* The loop tests go after a sweep; select returns when the period is over.
Wake == /\ CleanerStep("asleep", "waiting")
        /\ UNCHANGED <<heap, go, sweep, fault, swept, stopped>>

\* Mutant: the time is taken anew for each context.
expiredByNow(x) == beat[x] # NoBeat /\ beat[x] <= now - Timeout

\* The oldest good heartbeat is older than timeout; data of no length
\* compares equal.
expired(x) == beat[x] # NoBeat /\ beat[x] <= timeout
Expired == {x \in Contexts : expired(x)}

Lock ==
  /\ CleanerStep("waiting", IF domain THEN "visiting" ELSE "swept")
  /\ timeout' = IF domain THEN now - Timeout ELSE timeout
  /\ checklist' = IF domain THEN <<Root>> ELSE <<>>
  /\ before' = [exists |-> exists, bound |-> bound]
  /\ UNCHANGED <<heap, go, current, doomed, fault, swept, stopped>>

\* What is bound in c, in the order of its names.
Row(c) == [n \in Names |-> bound[c][n]]
Children(c) == {bound[c][n] : n \in Names} \ {None}

\* The elements of s that are in T, in their order.
Selected(s, T) ==
  LET Sel[i \in 0..Len(s)] == IF i = 0 THEN <<>>
                              ELSE IF s[i] \in T THEN Append(Sel[i - 1], s[i])
                              ELSE Sel[i - 1]
  IN Sel[Len(s)]
Reversed(s) == [i \in 1..Len(s) |-> s[Len(s) + 1 - i]]

\* One context: those bound in it are doomed or put on the list.
Visit ==
  /\ cleaner = "visiting" /\ Len(checklist) <= MaxChecklist
  /\ LET c == checklist[Len(checklist)]
         rest == SubSeq(checklist, 1, Len(checklist) - 1)
         bare == \E x \in Children(c) : beat[x] = Bare
     IN IF c \notin exists \/ ~(Children(c) \subseteq exists)
        THEN Fault("sweep") /\ UNCHANGED <<current, doomed, checklist>>
        ELSE IF bare THEN Fault("bare") /\ UNCHANGED <<current, doomed, checklist>>
        ELSE /\ current' = c
             /\ doomed' = Selected(Row(c), Expired)
             /\ checklist' = Reversed(Selected(Row(c), Contexts \ Expired)) \o rest
             /\ UNCHANGED fault
  /\ CleanerStep("visiting", "removing")
  /\ UNCHANGED <<heap, go, timeout, before, swept, stopped>>

Clean ==
  /\ CleanerStep("removing", "removing")
  /\ doomed # <<>>
  /\ remove_context(Head(doomed), "sweep")
  /\ doomed' = Tail(doomed)
  /\ swept' = TRUE
  /\ UNCHANGED <<domain, unused, parent, beat, go, timeout, checklist, current, before, stopped>>

\* Mutant: the sweep goes on before all that are doomed are removed.
OnwardDone ==
  /\ CleanerStep("removing", IF checklist # <<>> THEN "visiting" ELSE "swept")
  /\ UNCHANGED <<heap, go, sweep, fault, swept, stopped>>

Onward ==
  /\ doomed = <<>>
  /\ CleanerStep("removing", IF checklist # <<>> THEN "visiting" ELSE "swept")
  /\ UNCHANGED <<heap, go, sweep, fault, swept, stopped>>

\* Mutant: the thread forgets that it was told to stop.
UnlockAnyway == /\ CleanerStep("swept", "asleep")
                /\ timeout' = 0 /\ checklist' = <<>> /\ current' = Root /\ doomed' = <<>>
                /\ before' = [exists |-> {}, bound |-> NoNames]
                /\ UNCHANGED <<heap, go, fault, swept, stopped>>

\* Its locals go out of scope.
Unlock == /\ CleanerStep("swept", IF go THEN "asleep" ELSE "ended")
          /\ timeout' = 0 /\ checklist' = <<>> /\ current' = Root /\ doomed' = <<>>
          /\ before' = [exists |-> {}, bound |-> NoNames]
          /\ UNCHANGED <<heap, go, fault, swept, stopped>>

Tick == /\ Running /\ now < MaxNow /\ now' = now + 1
        /\ UNCHANGED <<heap, requests, net, reply, go, cleaner, sweep, fault, linked, swept, stopped>>

-----------------------------------------------------------------------------
Init ==
  /\ domain = TRUE /\ exists = {Root} /\ unused = Contexts \ {Root}
  /\ bound = NoNames
  /\ parent = [c \in Contexts |-> Root] /\ beat = [c \in Contexts |-> NoBeat]
  /\ now = Timeout /\ requests = 0 /\ net = Idle /\ reply = {}
  /\ go = FALSE /\ cleaner = "starting"
  /\ timeout = 0 /\ checklist = <<>> /\ current = Root /\ doomed = <<>>
  /\ before = [exists |-> {}, bound |-> NoNames]
  /\ fault = "none" /\ linked = FALSE /\ swept = FALSE /\ stopped = "no"

\* What clients ask for, by contexts they were told of.
Requests ==
  LET made == Contexts \ unused
  IN {Make(p, n) : p \in made, n \in Names}
       \cup {Link(x, m, n) : x \in made \ {Root}, m \in Names, n \in Names}
       \cup {Unbind(p, n) : p \in made, n \in Names}
       \cup {Remove(x) : x \in made \ {Root}}
       \cup {Beat(x, d) : x \in made \ {Root}, d \in {now, Empty, Bare}}
       \cup {List(x) : x \in made}
       \cup {RemoveDomain}

Handle == \/ HandleCreate \/ HandleLink \/ HandleUnbind \/ HandleRemove
          \/ HandleBeat \/ HandleList \/ HandleRemoveDomain

Cleanup == Visit \/ Clean \/ Onward \/ Unlock

Next == \/ \E r \in Requests : Request(r)
        \/ Handle \/ Encode
        \/ start \/ stop \/ Wake \/ Lock \/ Cleanup \/ Tick

\* Nothing says that the cleaning thread is started.  Once it is, both
\* threads run; the guard is free for the period of every sleep, so a
\* handler that waits for it gets it.
Fairness == /\ WF_vars(Wake) /\ WF_vars(Lock) /\ WF_vars(Cleanup)
            /\ SF_vars(Handle) /\ WF_vars(Encode)

Spec == Init /\ [][Next]_vars /\ Fairness
-----------------------------------------------------------------------------
(* Properties.                                                             *)

Under(c) == {x \in Contexts : \E n \in Names : before.bound[c][n] = x}

\* What a sweep visits: it does not go below a context that has expired.
Visited ==
  {x \in Contexts : \A S \in SUBSET Contexts :
                      Root \in S /\ (\A c \in S : Under(c) \ Expired \subseteq S) => x \in S}

Due == Expired \cap UNION {Under(c) : c \in Visited}

\* Types of the variables; nothing is swept without the guard, and a reply
\* is under way only while it is encoded.
TypeOK ==
  /\ domain \in BOOLEAN /\ go \in BOOLEAN /\ linked \in BOOLEAN /\ swept \in BOOLEAN
  /\ exists \subseteq Contexts \ unused /\ unused \subseteq Contexts
  /\ bound \in [Contexts -> [Names -> Contexts \cup {None}]]
  /\ parent \in [Contexts -> Contexts]
  /\ beat \in [Contexts -> {NoBeat, Bare, Empty} \cup 0..MaxNow]
  /\ now \in Timeout..MaxNow /\ requests \in 0..MaxRequests /\ timeout \in 0..MaxNow
  /\ net = Idle \/ net.op \in {"reply", "remove_domain"} \/ net.at \in Contexts
  /\ reply # {} => net.op = "reply"
  /\ cleaner \in {"starting", "asleep", "waiting", "ended"} \cup Sweeping
  /\ checklist \in Seq(Contexts) /\ doomed \in Seq(Contexts) /\ current \in Contexts
  /\ doomed # <<>> => cleaner = "removing" \/ ~Running
  /\ fault \in {"none", "request", "reply", "sweep", "bare"}
  /\ stopped \in {"no", "early", "yes"}

\* A sweep removes exactly the contexts that had expired when it got the
\* guard and that it can get to, with all names they had, and leaves all
\* others alone: handlers do not disturb it.  It follows a pointer to a
\* removed context only if contexts were linked (CleaningThread.cc:127-150);
\* and a reply points to names that are gone only if a sweep came between
\* the handler of get_binding_list and the encoding (pdsd_handlers.cc:1085).
SweepIsExact ==
  /\ cleaner = "swept" /\ Running =>
       /\ exists = before.exists \ Due
       /\ \A c \in exists, n \in Names :
            bound[c][n] = IF before.bound[c][n] \in Due THEN None ELSE before.bound[c][n]
  /\ fault = "sweep" => linked
  /\ fault = "reply" => swept

\* What there is once the sweep under way is over.
Midway == cleaner \in Sweeping
Lost == IF Midway /\ Expired # {} THEN Due ELSE {}
Left == (IF Midway THEN before.exists ELSE exists) \ Lost
NamesLeft ==
  LET there == Left  lost == Lost
      was == IF Midway THEN before.bound ELSE bound
  IN [c \in Contexts |-> [n \in Names |->
        IF c \notin there \/ was[c][n] \in lost THEN None ELSE was[c][n]]]

\* A sweep takes effect at the instant it gets the guard (CleaningThread.cc:97-109):
\* what handlers do and find is as if it were one step.
Atomic == INSTANCE Expiry WITH exists <- Left, bound <- NamesLeft
SweepIsAtomic == Atomic!Spec

Below[i \in 0..Cardinality(Contexts)] ==
  [c \in Contexts |->
     IF i = 0 THEN {} ELSE UNION {{x} \cup Below[i-1][x] :
                                    x \in {y \in Contexts : Holds(c, y)}}]
Cyclic == \E c \in Contexts : c \in Below[Cardinality(Contexts)][c]

\* Every sweep ends and every request gets its turn, unless a context was
\* linked below itself: then the sweep goes round and keeps the guard.  And
\* the thread ends when it is told to stop, but not when it is told before
\* it started, for start sets go again (CleaningThread.cc:158).
EveryoneGoesOn ==
  LET excused == ~Running \/ Cyclic
  IN /\ cleaner \in Sweeping ~> cleaner \notin Sweeping \/ excused
     /\ net # Idle ~> net = Idle \/ excused
     /\ stopped = "yes" ~> cleaner = "ended" \/ excused
=============================================================================
