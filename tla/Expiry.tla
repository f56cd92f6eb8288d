------------------------------- MODULE Expiry -------------------------------
(***************************************************************************)
(* What clients may expect of a server that cleans up: contexts they make, *)
(* name, keep alive and remove, and from time to time, at one instant, all *)
(* that has expired is gone, with its names.  No request finds a sweep     *)
(* half done, and the age of a heartbeat is taken at that instant.         *)
(*                                                                         *)
(* Cleaning implements this with a sweep of many steps, during which       *)
(* requests arrive, replies are encoded and time passes, for as long as    *)
(* the server has not stopped.                                             *)
(***************************************************************************)
EXTENDS Integers

CONSTANTS Contexts, Root, Names, Timeout,
          None,                  \* what a free name denotes
          NoBeat, Bare, Empty    \* no heartbeat, one without data, with no data in it

VARIABLES exists,    \* contexts that exist
          unused,    \* contexts not made yet
          bound,     \* names of contexts in contexts
          beat,      \* the last heartbeat of each context
          now

vars == <<exists, unused, bound, beat, now>>

NoRow == [n \in Names |-> None]

\* A new context x, in which row is bound.
Make(c, n, x, row) ==
  /\ bound[c][n] = None
  /\ exists' = exists \cup {x} /\ unused' = unused \ {x}
  /\ bound' = [bound EXCEPT ![c][n] = x, ![x] = row]
  /\ UNCHANGED <<beat, now>>

\* A further name for a context.
Link(c, n, x) ==
  /\ bound[c][n] = None
  /\ bound' = [bound EXCEPT ![c][n] = x]
  /\ UNCHANGED <<exists, unused, beat, now>>

Unlink(c, n) ==
  /\ bound' = [bound EXCEPT ![c][n] = None]
  /\ UNCHANGED <<exists, unused, beat, now>>

\* A heartbeat is of the present or of the past; data stays data.
Beat(x, d) ==
  /\ d = Bare => beat[x] = NoBeat
  /\ beat' = [beat EXCEPT ![x] = d]
  /\ UNCHANGED <<exists, unused, bound, now>>

\* The contexts of X go, and nothing is called by their names any more.
Go(X) ==
  /\ exists' = exists \ X
  /\ bound' = [c \in Contexts |-> [n \in Names |->
                 IF c \in X \/ bound[c][n] \in X THEN None ELSE bound[c][n]]]
  /\ UNCHANGED <<unused, beat, now>>

Remove(x) == Go({x})
Close == Go(Contexts)

Expired == {x \in Contexts : beat[x] # NoBeat /\ beat[x] <= now - Timeout}

\* What can be reached from the root without passing what has expired.
Children(c) == {bound[c][n] : n \in Names} \ {None}
Closed(S) == Root \in S /\ \A c \in S : Children(c) \ Expired \subseteq S
Reached ==
  LET closed == {S \in SUBSET Contexts : Closed(S)}
  IN {x \in Contexts : \A S \in closed : x \in S}

Sweep == Expired # {} /\ Go(Expired \cap UNION {Children(c) : c \in Reached})

Tick == now' = now + 1 /\ UNCHANGED <<exists, unused, bound, beat>>

Init ==
  /\ exists = {Root} /\ unused = Contexts \ {Root}
  /\ bound = [c \in Contexts |-> NoRow]
  /\ beat = [c \in Contexts |-> NoBeat]
  /\ now = Timeout

Next ==
  \/ \E c \in exists, n \in Names :
       \/ Unlink(c, n)
       \/ \E x \in unused : Make(c, n, x, NoRow)
       \/ \E x \in unused, y \in exists \ {Root}, m \in Names :
            c = Root /\ Make(c, n, x, [NoRow EXCEPT ![m] = y])
       \/ \E x \in exists \ {Root} : Link(c, n, x)
  \/ \E x \in exists \ {Root} : Remove(x) \/ \E d \in {Bare, Empty} \cup 0..now : Beat(x, d)
  \/ Close \/ Sweep \/ Tick

Spec == Init /\ [][Next]_vars
=============================================================================
