------------------------------ MODULE Namespace -----------------------------
(***************************************************************************)
(* What a PDS domain promises its clients, without a heap.  An object is   *)
(* used once: it is promised (a placeholder) or real from the start, may   *)
(* become real, and is removed in the end.  A context gives names to       *)
(* objects; a name that is taken is not given again; an object that is     *)
(* removed loses all its names, and the names it gave, at once.            *)
(* Subscribers are told of the creation of an object once, when it becomes *)
(* real, and of its removal, unless the whole domain goes.                 *)
(*                                                                         *)
(* The server of Directory implements this with name maps, referrer lists  *)
(* and requests that take many steps, for all requests of all clients and  *)
(* as long as it has not stopped.                                          *)
(***************************************************************************)

CONSTANTS
  Names,    \* what a context calls an object
  Objects,
  Root,     \* the context all names lead from
  Null      \* what a name that is free denotes

VARIABLES
  state,    \* each object: "unused", "promised", "real", "removed"
  class,    \* each object: "none", "context" or "entity"
  bound,    \* what each context calls by each name
  told      \* the last that subscribers heard of each object

vars == <<state, class, bound, told>>

Existing == {o \in Objects : state[o] \in {"promised", "real"}}

Contexts == {c \in Existing : class[c] = "context"}

\* A new object under a free name.
Make(c, n, o, as, type) ==
  /\ state[o] = "unused" /\ bound[c][n] = Null
  /\ state' = [state EXCEPT ![o] = as]
  /\ class' = [class EXCEPT ![o] = type]
  /\ bound' = [bound EXCEPT ![c][n] = o]
  /\ told' = IF as = "real" THEN [told EXCEPT ![o] = "created"] ELSE told

\* The object that was promised is created.
Promote(o) ==
  /\ state[o] = "promised"
  /\ state' = [state EXCEPT ![o] = "real"]
  /\ told' = [told EXCEPT ![o] = "created"]
  /\ UNCHANGED <<class, bound>>

\* A further name for an object, if it is free.
Link(c, n, o) ==
  /\ bound[c][n] = Null
  /\ bound' = [bound EXCEPT ![c][n] = o]
  /\ UNCHANGED <<state, class, told>>

\* One name is taken away; the object stays, even when it was the last.
Unlink(c, n) ==
  /\ bound[c][n] # Null
  /\ bound' = [bound EXCEPT ![c][n] = Null]
  /\ UNCHANGED <<state, class, told>>

\* The objects of D go, and nothing is called by their names any more.
Gone(D) ==
  /\ state' = [o \in Objects |-> IF o \in D THEN "removed" ELSE state[o]]
  /\ bound' = [c \in Objects |-> [n \in Names |->
                 IF c \in D \/ bound[c][n] \in D THEN Null ELSE bound[c][n]]]
  /\ UNCHANGED class

Remove(o) ==
  /\ o \in Existing
  /\ Gone({o})
  /\ told' = [told EXCEPT ![o] = "deleted"]

\* The domain goes, and its entities with it.  Other contexts stay, out of reach.
Close ==
  /\ Root \in Existing
  /\ Gone({Root} \cup {o \in Existing : class[o] = "entity"})
  /\ UNCHANGED told

Init ==
  /\ state = [o \in Objects |-> IF o = Root THEN "real" ELSE "unused"]
  /\ class = [o \in Objects |-> IF o = Root THEN "context" ELSE "none"]
  /\ bound = [c \in Objects |-> [n \in Names |-> Null]]
  /\ told = [o \in Objects |-> IF o = Root THEN "created" ELSE "nothing"]

Next ==
  \/ \E c \in Contexts, n \in Names :
       \/ \E o \in Objects, as \in {"promised", "real"}, type \in {"context", "entity"} :
            Make(c, n, o, as, type)
       \/ \E o \in Existing : Link(c, n, o)
       \/ Unlink(c, n)
  \/ \E o \in Objects : Promote(o) \/ Remove(o)
  \/ Close

Spec == Init /\ [][Next]_vars
=============================================================================
