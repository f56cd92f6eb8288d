---------------------------- MODULE StorageStone ----------------------------
(***************************************************************************)
(* The transaction bucket of storage_stone.c: a stone that is forewarned   *)
(* of messages, passes on those that come, and is asked through relays     *)
(* which are missing.  Its handler is COD source text, built from a        *)
(* template for a given size and run by EVPath for every event that comes. *)
(* EVPath keeps an event until the handler discards it.  Of those that     *)
(* stay only relays matter: the handler looks at the first of them.        *)
(***************************************************************************)
EXTENDS Integers, Sequences, FiniteSets

CONSTANTS Sizes,     \* sizes a bucket is built with
          MaxEvents  \* bound: events a bucket is sent

ASSUME SizesAssumption == Sizes \subseteq Nat /\ MaxEvents \in Nat

VARIABLES the_size,     \* of the bucket; NoStone before it is built
          table,        \* what is known of each message
          num_missing,  \* counted for the next message_sa
          relays,       \* relays that were not discarded
          out,          \* what the last event made the stone submit
          overrun,      \* buffers that were accessed past their end
          events        \* number of events so far

\* History: the messages announced and passed on; the last relay, if it was
\* the last event; whether a relay was PRINT or of no known kind; what was
\* counted since the last SEND_MISSING; what was asked of the stone that it
\* cannot do.
VARIABLES forewarned, received, asked, clogged, counted, rash

history == <<forewarned, received, asked, clogged, counted, rash>>
vars == <<the_size, table, num_missing, relays, out, overrun, events, history>>

NoStone == -1

PRINT == 2
SEND_MISSING == 3
IS_IT_DONE == 4
Relays == 0..4

Unknown == 0
Forewarned == 1
Received == -1

Nothing == [to |-> -1]
Passed(id) == [to |-> 0, id |-> id]
Done(b) == [to |-> 1, done |-> b]
Again(ids, unset) == [to |-> 2, ids |-> ids, unset |-> unset]

-----------------------------------------------------------------------------
(* Building the action.                                                    *)

Powers == {10, 100, 1000, 10000, 100000, 1000000, 10000000, 100000000, 1000000000}
Digits(n) == 1 + Cardinality({p \in Powers : p <= n})

\* How far the builder's last store lies past the end of its buffer, 0 being
\* the first byte outside.  The template's first "%d" becomes the digits of
\* the size, its "%s" a "%d" each.  The buffer has one byte more than the
\* template, and a zero is stored behind the one that ends the text.
PastText(size) == Digits(size) - 2

create_e_transaction_action_spec(size) ==
  /\ the_size = NoStone
  /\ the_size' = size
  /\ table' = [i \in 0..(size-1) |-> Unknown]
  /\ overrun' = IF PastText(size) >= 0 THEN {"text"} ELSE {}
  /\ UNCHANGED <<num_missing, relays, out, events, history>>

-----------------------------------------------------------------------------
(* The handler.                                                            *)

Arrives == /\ the_size # NoStone
           /\ events < MaxEvents
           /\ events' = events + 1
           /\ UNCHANGED the_size

\* Mutant: the test is left out.
InBoundsNot(id) == TRUE

\* The test of the code lets the size itself pass.
InBounds(id) == 0 <= id /\ id <= the_size

\* Mutant: a late announcement undoes the mark of a message that came.
MarkAnyway(id, mark) == IF id \in DOMAIN table THEN [table EXCEPT ![id] = mark] ELSE table

Mark(id, mark) ==
  IF id \in DOMAIN table /\ table[id] # Received THEN [table EXCEPT ![id] = mark] ELSE table

Touch(id) == overrun' = overrun \cup IF InBounds(id) /\ id \notin DOMAIN table
                                     THEN {"table"} ELSE {}

\* Any message may change what is missing after it was counted.
Unsettled == /\ counted' = IF counted = "once" THEN "stale" ELSE counted
             /\ asked' = NoStone
             /\ UNCHANGED clogged

Edge(id) == rash' = rash \cup IF id = the_size THEN {"edge"} ELSE {}

heads_up(inc) ==
  /\ Arrives
  /\ table' = Mark(inc, Forewarned)
  /\ Touch(inc)
  /\ out' = Nothing
  /\ forewarned' = forewarned \cup ({inc} \cap DOMAIN table)
  /\ Unsettled /\ Edge(inc)
  /\ UNCHANGED <<num_missing, relays, received>>

\* A message that comes again is passed on again.
simple(id) ==
  /\ Arrives
  /\ table' = Mark(id, Received)
  /\ Touch(id)
  /\ out' = IF InBounds(id) THEN Passed(id) ELSE Nothing
  /\ received' = received \cup ({id} \cap DOMAIN table)
  /\ Unsettled /\ Edge(id)
  /\ UNCHANGED <<num_missing, relays, forewarned>>

Missing == {i \in DOMAIN table : table[i] = Forewarned}

\* IS_IT_DONE and PRINT add what is missing to the count.
CountMissing(first) ==
  /\ first \in {IS_IT_DONE, PRINT}
  /\ num_missing' = num_missing + Cardinality(Missing)
  /\ out' = IF first = IS_IT_DONE THEN Done(Missing = {}) ELSE Nothing
  /\ counted' = IF counted = "nothing" THEN "once" ELSE "stale"
  /\ UNCHANGED <<overrun, rash>>

\* The list has room for as many as were counted: what is not filled is
\* sent as malloc left it.
SendMissing(first) ==
  /\ first = SEND_MISSING
  /\ num_missing' = 0
  /\ out' = Again(Missing, num_missing - Cardinality(Missing))
  /\ overrun' = overrun \cup IF Cardinality(Missing) > num_missing THEN {"store"} ELSE {}
  /\ rash' = rash \cup IF counted # "once" THEN {"uncounted"} ELSE {}
  /\ counted' = "nothing"

UnknownRelay(first) ==
  /\ first \notin {IS_IT_DONE, PRINT, SEND_MISSING}
  /\ out' = Nothing
  /\ UNCHANGED <<num_missing, overrun, rash, counted>>

\* Whichever relay comes, the first that is there is acted on; a PRINT and
\* a relay of no known kind stay.
relay(w) ==
  LET all == Append(relays, w)
      first == Head(all)
  IN /\ Arrives
     /\ CountMissing(first) \/ SendMissing(first) \/ UnknownRelay(first)
     /\ relays' = IF first \in {IS_IT_DONE, SEND_MISSING} THEN Tail(all) ELSE all
     /\ asked' = IF clogged THEN NoStone ELSE w
     /\ clogged' = (clogged \/ w \notin {IS_IT_DONE, SEND_MISSING})
     /\ UNCHANGED <<table, forewarned, received>>

Init == /\ the_size = NoStone /\ table = [i \in {} |-> Unknown] /\ num_missing = 0
        /\ relays = <<>> /\ out = Nothing /\ overrun = {} /\ events = 0
        /\ forewarned = {} /\ received = {} /\ asked = NoStone
        /\ clogged = FALSE /\ counted = "nothing" /\ rash = {}

Ids == -1..(the_size + 1)

Next == \/ \E size \in Sizes : create_e_transaction_action_spec(size)
        \/ \E id \in Ids : heads_up(id) \/ simple(id)
        \/ \E w \in Relays : relay(w)

Spec == Init /\ [][Next]_vars
-----------------------------------------------------------------------------
(* Properties.                                                             *)

\* Types of the variables.
TypeOK ==
  /\ the_size \in Sizes \cup {NoStone}
  /\ table \in [0..(the_size-1) -> {Unknown, Forewarned, Received}]
  /\ num_missing \in Nat /\ events \in Nat
  /\ relays \in Seq(Relays)
  /\ overrun \subseteq {"text", "table", "store"}
  /\ forewarned \subseteq DOMAIN table /\ received \subseteq DOMAIN table
  /\ asked \in Relays \cup {NoStone} /\ clogged \in BOOLEAN
  /\ counted \in {"nothing", "once", "stale"}
  /\ rash \subseteq {"edge", "uncounted"}

\* The builder and the handler keep within what they allocated, but for a
\* size of two digits or more, a message whose number is the size
\* (storage_stone.c:81, 91), and a SEND_MISSING without exactly one count
\* of what is missing just before it (storage_stone.c:126-135).
MemorySafe ==
  /\ TypeOK
  /\ "text" \in overrun => the_size >= 10
  /\ "table" \in overrun => "edge" \in rash
  /\ "store" \in overrun => "uncounted" \in rash

\* What a bucket that was never asked to print says is true, and said at
\* once: it is done when no message it was forewarned of is outstanding,
\* and it asks again for exactly those that are, if these were just
\* counted, once.  After a PRINT, or a relay of no known kind, it never
\* answers again (storage_stone.c:106).
AnswersTell ==
  LET outstanding == forewarned \ received
  IN /\ asked = IS_IT_DONE => out = Done(outstanding = {})
     /\ asked = SEND_MISSING => /\ out.to = 2 /\ out.ids = outstanding
                                /\ "uncounted" \notin rash => out.unset = 0
     /\ clogged <=> relays # <<>>
=============================================================================
