------------------------- MODULE StorageStoneProofs -------------------------
(***************************************************************************)
(* What holds of a transaction bucket of any size, sent any events.        *)
(***************************************************************************)
EXTENDS StorageStone, FiniteSetTheorems, TLAPS

-----------------------------------------------------------------------------
(* The inductive invariant.                                                *)

\* The table says of each message whether it was passed on, or else
\* whether it was announced.
TableKnows ==
  \A i \in DOMAIN table : /\ table[i] = Received <=> i \in received
                          /\ table[i] = Forewarned <=> i \in forewarned \ received

\* The count is right after it was taken once, and zero before.
CountHolds == /\ counted = "nothing" => num_missing = 0
              /\ counted = "once" => num_missing = Cardinality(Missing)

\* A relay that stayed is one the handler never discards.
RelaysStay == /\ clogged <=> relays # <<>>
              /\ relays # <<>> => Head(relays) \notin {IS_IT_DONE, SEND_MISSING}

IInv == MemorySafe /\ AnswersTell /\ TableKnows /\ CountHolds /\ RelaysStay

-----------------------------------------------------------------------------
(* Lemmas.                                                                 *)

LEMMA MissingFinite ==
  ASSUME TypeOK
  PROVE  IsFiniteSet(Missing) /\ Cardinality(Missing) \in Nat
<1>1. the_size - 1 \in Int
  BY SizesAssumption DEF TypeOK, NoStone
<1>2. IsFiniteSet(0..(the_size - 1))
  BY <1>1, FS_Interval
<1>3. Missing \subseteq 0..(the_size - 1)
  BY DEF TypeOK, Missing
<1> QED
  BY <1>2, <1>3, FS_Subset, FS_CardinalityType

\* What is missing is what was announced and did not come.
LEMMA MissingIsOutstanding ==
  ASSUME TypeOK, TableKnows
  PROVE  Missing = forewarned \ received
BY DEF TypeOK, TableKnows, Missing

LEMMA ResendFits ==
  ASSUME TypeOK, CountHolds, counted = "once"
  PROVE  ~(Cardinality(Missing) > num_missing) /\ num_missing - Cardinality(Missing) = 0
<1>1. Cardinality(Missing) \in Nat
  BY MissingFinite
<1> QED
  BY <1>1 DEF CountHolds

-----------------------------------------------------------------------------
(* The steps.                                                              *)

LEMMA Initially == Init => IInv
<1> SUFFICES ASSUME Init PROVE IInv
  OBVIOUS
<1>1. 0..(the_size-1) = {}
  BY DEF Init, NoStone
<1>2. table \in [0..(the_size-1) -> {Unknown, Forewarned, Received}] /\ DOMAIN table = {}
  BY <1>1 DEF Init
<1>3. relays \in Seq(Relays)
  BY DEF Init
<1>4. TypeOK
  BY <1>2, <1>3 DEF Init, TypeOK
<1>5. asked # IS_IT_DONE /\ asked # SEND_MISSING
  BY DEF Init, NoStone, IS_IT_DONE, SEND_MISSING
<1> QED
  BY <1>2, <1>4, <1>5 DEF Init, IInv, MemorySafe, AnswersTell, TableKnows, CountHolds,
     RelaysStay

LEMMA Built ==
  ASSUME IInv, NEW size \in Sizes, create_e_transaction_action_spec(size)
  PROVE  IInv'
<1> USE DEF IInv, MemorySafe
<1>1. size \in Nat
  BY SizesAssumption
<1>2. DOMAIN table = {}
  BY DEF TypeOK, create_e_transaction_action_spec, NoStone
<1>3. forewarned = {} /\ received = {} /\ Missing = {}
  BY <1>2 DEF TypeOK, Missing
<1>4. /\ forewarned' = {} /\ received' = {}
      /\ table' \in [0..(the_size'-1) -> {Unknown, Forewarned, Received}]
      /\ \A i \in DOMAIN table' : table'[i] = Unknown
  BY <1>3 DEF create_e_transaction_action_spec, history
<1>5. Missing' = {}
  BY <1>4 DEF Missing, Unknown, Forewarned
<1>6. TypeOK'
  BY <1>4 DEF TypeOK, create_e_transaction_action_spec, history
<1>7. overrun' = {"text"} => size >= 10
  <2> SUFFICES ASSUME size < 10 PROVE ~(PastText(size) >= 0)
    BY <1>1 DEF create_e_transaction_action_spec
  <2>1. {p \in Powers : p <= size} = {}
    BY <1>1 DEF Powers
  <2>2. Cardinality({p \in Powers : p <= size}) = 0
    BY <2>1, FS_EmptySet
  <2>3. Digits(size) = 1
    BY <2>2 DEF Digits
  <2> QED
    BY <2>3 DEF PastText
<1> QED
  BY <1>3, <1>4, <1>5, <1>6, <1>7
  DEF create_e_transaction_action_spec, history, AnswersTell, TableKnows, CountHolds,
      RelaysStay, Unknown, Forewarned, Received

\* What both kinds of message do to the table.
LEMMA Marked ==
  ASSUME TypeOK, NEW id \in Ids, NEW mark \in {Forewarned, Received}, table' = Mark(id, mark)
  PROVE  /\ table' \in [0..(the_size-1) -> {Unknown, Forewarned, Received}]
         /\ DOMAIN table' = DOMAIN table
         /\ \A i \in DOMAIN table : i # id \/ table[i] = Received => table'[i] = table[i]
         /\ id \in DOMAIN table /\ table[id] # Received => table'[id] = mark
BY DEF TypeOK, Mark

\* A message that arrives and is marked, whichever its kind.
LEMMA Arrived ==
  ASSUME IInv, NEW id \in Ids, NEW mark \in {Forewarned, Received},
         Arrives, table' = Mark(id, mark), Touch(id), Unsettled, Edge(id),
         UNCHANGED <<num_missing, relays>>,
         forewarned' \subseteq DOMAIN table, received' \subseteq DOMAIN table
  PROVE  MemorySafe' /\ AnswersTell' /\ CountHolds' /\ RelaysStay'
<1> USE DEF IInv, MemorySafe
<1>1. id \in Int /\ (the_size = NoStone \/ the_size \in Nat)
  BY SizesAssumption DEF TypeOK, Ids, NoStone
<1>2. /\ table' \in [0..(the_size-1) -> {Unknown, Forewarned, Received}]
      /\ DOMAIN table' = DOMAIN table
  BY Marked
<1>3. /\ asked' = NoStone /\ clogged' = clogged /\ the_size' = the_size /\ events' = events + 1
      /\ counted' \in {"nothing", "stale"} /\ (counted' = "nothing" => counted = "nothing")
  BY DEF Unsettled, Arrives, TypeOK
<1>4. /\ overrun \subseteq overrun' /\ overrun' \subseteq overrun \cup {"table"}
      /\ rash \subseteq rash' /\ rash' \subseteq rash \cup {"edge"}
  BY DEF Touch, Edge
<1>5. "table" \in overrun' => "edge" \in rash'
  <2>1. CASE InBounds(id) /\ id \notin DOMAIN table
    <3>1. the_size \in Nat /\ id = the_size
      BY <1>1, <2>1 DEF InBounds, TypeOK, NoStone
    <3> QED
      BY <3>1 DEF Edge
  <2>2. CASE ~(InBounds(id) /\ id \notin DOMAIN table)
    BY <2>2, <1>4 DEF Touch
  <2> QED
    BY <2>1, <2>2
<1>6. TypeOK'
  BY <1>2, <1>3, <1>4 DEF TypeOK
<1>7. MemorySafe'
  BY <1>3, <1>4, <1>5, <1>6
<1>8. asked' # IS_IT_DONE /\ asked' # SEND_MISSING
  BY <1>3 DEF NoStone, IS_IT_DONE, SEND_MISSING
<1> QED
  BY <1>3, <1>7, <1>8 DEF AnswersTell, CountHolds, RelaysStay

LEMMA HeadsUp ==
  ASSUME IInv, NEW inc \in Ids, heads_up(inc)
  PROVE  IInv'
<1> USE DEF IInv, MemorySafe
<1>1. Forewarned \in {Forewarned, Received}
  OBVIOUS
<1>2. MemorySafe' /\ AnswersTell' /\ CountHolds' /\ RelaysStay'
  BY <1>1, Arrived DEF heads_up, TypeOK
<1>3. /\ DOMAIN table' = DOMAIN table
      /\ \A i \in DOMAIN table : i # inc \/ table[i] = Received => table'[i] = table[i]
      /\ inc \in DOMAIN table /\ table[inc] # Received => table'[inc] = Forewarned
  BY <1>1, Marked DEF heads_up
<1>4. received' = received /\ forewarned' = forewarned \cup ({inc} \cap DOMAIN table)
  BY DEF heads_up
<1>5. TableKnows'
  <2> SUFFICES ASSUME NEW i \in DOMAIN table
               PROVE  /\ table'[i] = Received <=> i \in received
                      /\ table'[i] = Forewarned <=> i \in forewarned' \ received
    BY <1>3, <1>4 DEF TableKnows
  <2>1. CASE i # inc \/ table[i] = Received
    BY <2>1, <1>3, <1>4 DEF TableKnows, Received, Forewarned
  <2>2. CASE i = inc /\ table[i] # Received
    BY <2>2, <1>3, <1>4 DEF TableKnows, Received, Forewarned
  <2> QED
    BY <2>1, <2>2
<1> QED
  BY <1>2, <1>5

LEMMA Simple ==
  ASSUME IInv, NEW id \in Ids, simple(id)
  PROVE  IInv'
<1> USE DEF IInv, MemorySafe
<1>1. Received \in {Forewarned, Received}
  OBVIOUS
<1>2. MemorySafe' /\ AnswersTell' /\ CountHolds' /\ RelaysStay'
  BY <1>1, Arrived DEF simple, TypeOK
<1>3. /\ DOMAIN table' = DOMAIN table
      /\ \A i \in DOMAIN table : i # id \/ table[i] = Received => table'[i] = table[i]
      /\ id \in DOMAIN table /\ table[id] # Received => table'[id] = Received
  BY <1>1, Marked DEF simple
<1>4. forewarned' = forewarned /\ received' = received \cup ({id} \cap DOMAIN table)
  BY DEF simple
<1>5. TableKnows'
  <2> SUFFICES ASSUME NEW i \in DOMAIN table
               PROVE  /\ table'[i] = Received <=> i \in received'
                      /\ table'[i] = Forewarned <=> i \in forewarned \ received'
    BY <1>3, <1>4 DEF TableKnows
  <2>1. CASE i # id
    BY <2>1, <1>3, <1>4 DEF TableKnows
  <2>2. CASE i = id
    BY <2>2, <1>3, <1>4 DEF TableKnows, Received, Forewarned
  <2> QED
    BY <2>1, <2>2
<1> QED
  BY <1>2, <1>5

LEMMA Asked ==
  ASSUME IInv, NEW w \in Relays, relay(w)
  PROVE  IInv'
<1> USE DEF IInv, MemorySafe
<1> DEFINE all == Append(relays, w)
           first == Head(all)
<1>1. /\ all \in Seq(Relays) /\ all # <<>>
      /\ relays = <<>> => first = w /\ Tail(all) = <<>>
      /\ relays # <<>> => first = Head(relays)
  BY DEF TypeOK
<1>2. /\ CountMissing(first) \/ SendMissing(first) \/ UnknownRelay(first)
      /\ relays' = IF first \in {IS_IT_DONE, SEND_MISSING} THEN Tail(all) ELSE all
      /\ asked' = IF clogged THEN NoStone ELSE w
      /\ clogged' = (clogged \/ w \notin {IS_IT_DONE, SEND_MISSING})
      /\ UNCHANGED <<the_size, table, forewarned, received>>
      /\ events' = events + 1
  BY DEF relay, Arrives
<1>3. Missing' = Missing /\ Missing = forewarned \ received /\ Cardinality(Missing) \in Nat
  BY <1>2, MissingFinite, MissingIsOutstanding DEF Missing
<1>4. TableKnows'
  BY <1>2 DEF TableKnows
<1>5. RelaysStay' /\ relays' \in Seq(Relays)
  <2>1. CASE first \in {IS_IT_DONE, SEND_MISSING}
    <3>1. relays = <<>> /\ first = w /\ relays' = <<>>
      BY <2>1, <1>1, <1>2 DEF RelaysStay
    <3>2. ~clogged'
      BY <3>1, <2>1, <1>2 DEF RelaysStay
    <3>3. RelaysStay'
      BY <3>1, <3>2 DEF RelaysStay
    <3> QED
      BY <3>1, <3>3
  <2>2. CASE first \notin {IS_IT_DONE, SEND_MISSING}
    BY <2>2, <1>1, <1>2 DEF RelaysStay
  <2> QED
    BY <2>1, <2>2
<1>6. asked' \in {IS_IT_DONE, SEND_MISSING} => first = w /\ asked' = w
  BY <1>1, <1>2 DEF RelaysStay, NoStone, IS_IT_DONE, SEND_MISSING
<1>7. /\ asked' \in Relays \cup {NoStone} /\ clogged' \in BOOLEAN
      /\ events' \in Nat
  BY <1>2 DEF TypeOK
<1>8. CASE CountMissing(first)
  <2>1. num_missing' = num_missing + Cardinality(Missing) /\ overrun' = overrun /\ rash' = rash
    BY <1>8 DEF CountMissing
  <2>2. counted' \in {"once", "stale"} /\ (counted' = "once" => counted = "nothing")
    BY <1>8 DEF CountMissing
  <2>3. num_missing' \in Nat /\ (counted' = "once" => num_missing' = Cardinality(Missing))
    BY <2>1, <2>2, <1>3 DEF TypeOK, CountHolds
  <2>4. TypeOK' /\ MemorySafe' /\ CountHolds'
    BY <2>1, <2>2, <2>3, <1>2, <1>3, <1>5, <1>7 DEF TypeOK, CountHolds
  <2>5. asked' # SEND_MISSING
    BY <1>6, <1>8 DEF CountMissing, PRINT, IS_IT_DONE, SEND_MISSING
  <2>6. asked' = IS_IT_DONE => out' = Done(forewarned \ received = {})
    BY <1>3, <1>6, <1>8 DEF CountMissing
  <2> QED
    BY <2>4, <2>5, <2>6, <1>2, <1>4, <1>5 DEF AnswersTell, RelaysStay
<1>9. CASE SendMissing(first)
  <2>1. /\ num_missing' = 0 /\ counted' = "nothing"
        /\ out' = Again(Missing, num_missing - Cardinality(Missing))
        /\ overrun' = overrun \cup IF Cardinality(Missing) > num_missing THEN {"store"} ELSE {}
        /\ rash' = rash \cup IF counted # "once" THEN {"uncounted"} ELSE {}
    BY <1>9 DEF SendMissing
  <2>2. "uncounted" \notin rash' => /\ ~(Cardinality(Missing) > num_missing)
                                    /\ num_missing - Cardinality(Missing) = 0
    BY <2>1, ResendFits
  <2>3. TypeOK' /\ MemorySafe' /\ CountHolds'
    BY <2>1, <2>2, <1>2, <1>5, <1>7 DEF TypeOK, CountHolds
  <2>4. asked' # IS_IT_DONE
    BY <1>6, <1>9 DEF SendMissing, IS_IT_DONE, SEND_MISSING
  <2>5. /\ out'.to = 2 /\ out'.ids = forewarned \ received
        /\ "uncounted" \notin rash' => out'.unset = 0
    BY <2>1, <2>2, <1>3 DEF Again
  <2> QED
    BY <2>3, <2>4, <2>5, <1>2, <1>4, <1>5 DEF AnswersTell, RelaysStay
<1>10. CASE UnknownRelay(first)
  <2>1. UNCHANGED <<num_missing, overrun, rash, counted>>
    BY <1>10 DEF UnknownRelay
  <2>2. asked' \notin {IS_IT_DONE, SEND_MISSING}
    BY <1>6, <1>10 DEF UnknownRelay
  <2>3. TypeOK' /\ MemorySafe' /\ CountHolds'
    BY <2>1, <1>2, <1>3, <1>5, <1>7 DEF TypeOK, CountHolds
  <2> QED
    BY <2>2, <2>3, <1>2, <1>4, <1>5 DEF AnswersTell, RelaysStay
<1> QED
  BY <1>2, <1>8, <1>9, <1>10

LEMMA Stutter ==
  ASSUME IInv, UNCHANGED vars
  PROVE  IInv'
BY DEF IInv, MemorySafe, TypeOK, AnswersTell, TableKnows, CountHolds, RelaysStay, Missing,
   vars, history

-----------------------------------------------------------------------------

\* The table, the count and the kept relays tell the truth about the
\* bucket's history.
THEOREM Invariance == Spec => []IInv
<1>1. IInv /\ [Next]_vars => IInv'
  BY Built, HeadsUp, Simple, Asked, Stutter DEF Next
<1> QED
  BY <1>1, Initially, PTL DEF Spec

\* A bucket keeps within its buffers, but for the named sizes, numbers and
\* orders of relays.
THEOREM KeepsToItsMemory == Spec => []MemorySafe
<1>1. IInv => MemorySafe
  BY DEF IInv
<1> QED
  BY <1>1, Invariance, PTL

\* The answers of a bucket are true, come at once, and end with a PRINT.
THEOREM AnswersAreTrue == Spec => []AnswersTell
<1>1. IInv => AnswersTell
  BY DEF IInv
<1> QED
  BY <1>1, Invariance, PTL
=============================================================================
