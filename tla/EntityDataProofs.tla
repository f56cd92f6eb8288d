------------------------- MODULE EntityDataProofs -------------------------
(***************************************************************************)
(* Proofs about EntityData, for any number of clients, attributes and      *)
(* writes: what subscribers were told is what gets answer, answers never   *)
(* go back, and ids of entities that are gone do nothing.                  *)
(***************************************************************************)
EXTENDS EntityData, SequenceTheorems, TLAPS

\* What the proofs need of the numbering of objects.
LEMMA IdFacts ==
  /\ Ids \subseteq Nat /\ Null \notin Ids /\ Domain \notin Ids /\ Root \notin Ids
  /\ Holders = Ids \cup {Domain, Root} /\ Null \notin {Domain, Root}
  /\ Objects \subseteq {Domain, Root}
  /\ \A i \in Ids : i >= 3 /\ i <= MaxId
  /\ Root = 2 /\ Null = 0
BY MaxIdNat, ObjectsKnown DEF Ids, Null, Domain, Root, Holders

\* An idle call is a call.
LEMMA IdleIsCall == Idle \in Call
<1>1. Nothing \in Datum
  BY MaxStampNat DEF Nothing, Datum, IntSize
<1>2. NoAttrs \in AttrLists
  BY MaxStampNat DEF NoAttrs, AttrLists
<1> QED
  BY <1>1, <1>2 DEF Idle, Call, Types, Options

\* What a handler answers is a call, not one to create by id.
LEMMA ReplyIsCall ==
  ASSUME NEW call \in Call, NEW status \in {-1, 0, 1}, NEW e \in Ids \cup {Null}
  PROVE  /\ \A at \in Nat :
              [Reply(call) EXCEPT !.status = status, !.hit = e, !.at = at] \in Call
         /\ \A back \in Datum :
              [Reply(call) EXCEPT !.status = status, !.hit = e, !.back = back] \in Call
         /\ \A list \in AttrLists :
              [Reply(call) EXCEPT !.status = status, !.hit = e, !.list = list] \in Call
<1>1. Reply(call) \in Call
  BY IdleIsCall DEF Reply, Call, Options
<1> QED
  BY <1>1 DEF Call

---------------------------------------------------------------------------
(* The client sends a request. *)

\* What every request does: one idle client has sent a call, and a value may be used up.
Sends(c) ==
  \E call \in Call :
    /\ call.op = "create" => call.on = Null /\ "create" \in call.options
    /\ call.at = 0
    /\ fault = "none" /\ calls[c].pc = "idle"
    /\ calls' = [calls EXCEPT ![c] = [call EXCEPT !.pc = "sent"]]
    /\ UNCHANGED <<names, contents, known, fault>>
    /\ stamp' \in 0 .. MaxStamp

\* Asking with a call of the right type, and asking to write.
LEMMA AskSends ==
  ASSUME TypeOK, NEW c \in Clients, NEW call \in Call,
         call.op = "create" => call.on = Null /\ "create" \in call.options, call.at = 0,
         \/ Ask(c, call) /\ UNCHANGED stamp
         \/ Write(c, call)
  PROVE  Sends(c)
<1>1. Ask(c, call)
  BY DEF Write
<1>2. stamp' \in 0 .. MaxStamp
  BY MaxStampNat DEF TypeOK, Write
<1> QED
  BY <1>1, <1>2 DEF Ask, Sends

\* The data and attributes that are sent have their types.
LEMMA WrittenTyped ==
  ASSUME TypeOK, stamp < MaxStamp
  PROVE  /\ \A n \in {0, 1, IntSize} : Fresh(n) \in Datum
         /\ \A a \in Atoms : Given(a) \in AttrLists
<1>1. stamp + 1 \in 0 .. MaxStamp
  BY MaxStampNat DEF TypeOK
<1>2. \A n \in {0, 1, IntSize} : Fresh(n) \in Datum
  BY <1>1, MaxStampNat DEF Fresh, Datum, Nothing, IntSize
<1>3. NoAttrs \in AttrLists
  BY MaxStampNat DEF NoAttrs, AttrLists
<1>4. \A a \in Atoms : Given(a) \in AttrLists
  BY <1>1, <1>3 DEF Given, AttrLists
<1> QED
  BY <1>2, <1>4

\* Every request of Request is of this form.
LEMMA RequestSends ==
  ASSUME TypeOK, NEW c \in Clients, Request(c)
  PROVE  Sends(c)
<1>0. /\ KnownIds \cup {Null} \subseteq Holders \cup {Null} /\ Objects \subseteq Holders
      /\ DataTypes \subseteq Types /\ {"create"} \in SUBSET Options
  BY IdFacts, TypesKnown DEF KnownIds, Types, Options
<1>1. ASSUME NEW type \in DataTypes, NEW n \in {0, 1}, NEW a \in Atoms,
             CreateEntity(c, type, n, a)
      PROVE  Sends(c)
  <2> DEFINE k == [Idle EXCEPT !.op = "create", !.type = type, !.options = {"create"},
                               !.datum = Fresh(n), !.attrs = Given(a)]
  <2>1. Write(c, k)
    BY <1>1 DEF CreateEntity
  <2>2. Fresh(n) \in Datum /\ Given(a) \in AttrLists
    BY <2>1, WrittenTyped DEF Write
  <2>3. k \in Call /\ k.on = Null /\ "create" \in k.options /\ k.at = 0
    <3>1. k \in Call
      BY IdleIsCall, <2>2, <1>0 DEF Call
    <3>2. k.on = Null /\ "create" \in k.options /\ k.at = 0
      BY DEF Idle
    <3> QED
      BY <3>1, <3>2
  <2> HIDE DEF k
  <2> QED
    BY <2>1, <2>3, AskSends
<1>2. ASSUME NEW type \in DataTypes, NEW id \in KnownIds \cup {Null},
             NEW options \in SUBSET Options, GetData(c, type, id, options)
      PROVE  Sends(c)
  <2> DEFINE k == [Idle EXCEPT !.op = "get", !.type = type, !.on = id, !.options = options]
  <2>1. Ask(c, k) /\ UNCHANGED stamp
    BY <1>2 DEF GetData
  <2>2. k \in Call /\ k.op = "get" /\ k.at = 0
    <3>1. k \in Call
      BY IdleIsCall, <1>0 DEF Call
    <3>2. k.op = "get" /\ k.at = 0
      BY DEF Idle
    <3> QED
      BY <3>1, <3>2
  <2> HIDE DEF k
  <2> QED
    BY <2>1, <2>2, AskSends
<1>3. ASSUME NEW type \in DataTypes, NEW id \in KnownIds \cup {Null}, NEW n \in {0, 1},
             NEW options \in SUBSET Options, SetData(c, type, id, n, options)
      PROVE  Sends(c)
  <2> DEFINE k == [Idle EXCEPT !.op = "set", !.type = type, !.on = id, !.datum = Fresh(n),
                               !.options = options]
  <2>1. Write(c, k)
    BY <1>3 DEF SetData
  <2>2. Fresh(n) \in Datum
    BY <2>1, WrittenTyped DEF Write
  <2>3. k \in Call /\ k.op = "set" /\ k.at = 0
    <3>1. k \in Call
      BY IdleIsCall, <2>2, <1>0 DEF Call
    <3>2. k.op = "set" /\ k.at = 0
      BY DEF Idle
    <3> QED
      BY <3>1, <3>2
  <2> HIDE DEF k
  <2> QED
    BY <2>1, <2>3, AskSends
<1>4. ASSUME NEW type \in DataTypes, Lookup(c, type)
      PROVE  Sends(c)
  <2> DEFINE k == [Idle EXCEPT !.op = "get", !.type = type, !.lookup = (type = "int")]
  <2>1. Ask(c, k) /\ UNCHANGED stamp
    BY <1>4 DEF Lookup
  <2>2. (type = "int") \in BOOLEAN
    OBVIOUS
  <2>3. k \in Call /\ k.op = "get" /\ k.at = 0
    <3>1. k \in Call
      BY IdleIsCall, <2>2, <1>0 DEF Call
    <3>2. k.op = "get" /\ k.at = 0
      BY DEF Idle
    <3> QED
      BY <3>1, <3>2
  <2> HIDE DEF k
  <2> QED
    BY <2>1, <2>3, AskSends
<1>5. ASSUME NEW type \in DataTypes, NEW n \in {0, 1}, Bind(c, type, n)
      PROVE  Sends(c)
  <2> DEFINE m == IF type = "int" THEN IntSize ELSE n
  <2> DEFINE k == [Idle EXCEPT !.op = "set", !.type = type, !.options = {"create"},
                               !.datum = Fresh(m)]
  <2>1. Write(c, k)
    BY <1>5 DEF Bind
  <2>2. Fresh(m) \in Datum
    BY <2>1, WrittenTyped DEF Write
  <2>3. k \in Call /\ k.op = "set" /\ k.at = 0
    <3>1. k \in Call
      BY IdleIsCall, <2>2, <1>0 DEF Call
    <3>2. k.op = "set" /\ k.at = 0
      BY DEF Idle
    <3> QED
      BY <3>1, <3>2
  <2> HIDE DEF k
  <2> QED
    BY <2>1, <2>3, AskSends
<1>6. ASSUME NEW id \in KnownIds \cup {Null}, NEW options \in SUBSET Options,
             GetAttributes(c, id, options)
      PROVE  Sends(c)
  <2> DEFINE k == [Idle EXCEPT !.op = "get_attrs", !.on = id, !.options = options]
  <2>1. Ask(c, k) /\ UNCHANGED stamp
    BY <1>6 DEF GetAttributes
  <2>2. k \in Call /\ k.op = "get_attrs" /\ k.at = 0
    <3>1. k \in Call
      BY IdleIsCall, <1>0 DEF Call
    <3>2. k.op = "get_attrs" /\ k.at = 0
      BY DEF Idle
    <3> QED
      BY <3>1, <3>2
  <2> HIDE DEF k
  <2> QED
    BY <2>1, <2>2, AskSends
<1>7. ASSUME NEW id \in KnownIds \cup {Null}, NEW a \in Atoms, NEW options \in SUBSET Options,
             SetAttributes(c, id, a, options)
      PROVE  Sends(c)
  <2> DEFINE k == [Idle EXCEPT !.op = "set_attrs", !.on = id, !.attrs = Given(a),
                               !.options = options]
  <2>1. Write(c, k)
    BY <1>7 DEF SetAttributes
  <2>2. Given(a) \in AttrLists
    BY <2>1, WrittenTyped DEF Write
  <2>3. k \in Call /\ k.op = "set_attrs" /\ k.at = 0
    <3>1. k \in Call
      BY IdleIsCall, <2>2, <1>0 DEF Call
    <3>2. k.op = "set_attrs" /\ k.at = 0
      BY DEF Idle
    <3> QED
      BY <3>1, <3>2
  <2> HIDE DEF k
  <2> QED
    BY <2>1, <2>3, AskSends
<1>8. ASSUME NEW o \in Objects, GetObjectAttributes(c, o)
      PROVE  Sends(c)
  <2> DEFINE k == [Idle EXCEPT !.op = "get_attrs", !.on = o]
  <2>1. Ask(c, k) /\ UNCHANGED stamp
    BY <1>8 DEF GetObjectAttributes
  <2>2. k \in Call /\ k.op = "get_attrs" /\ k.at = 0
    <3>1. k \in Call
      BY IdleIsCall, <1>0 DEF Call
    <3>2. k.op = "get_attrs" /\ k.at = 0
      BY DEF Idle
    <3> QED
      BY <3>1, <3>2
  <2> HIDE DEF k
  <2> QED
    BY <2>1, <2>2, AskSends
<1>9. ASSUME NEW o \in Objects, NEW a \in Atoms, SetObjectAttributes(c, o, a)
      PROVE  Sends(c)
  <2> DEFINE k == [Idle EXCEPT !.op = "set_attrs", !.on = o, !.attrs = Given(a)]
  <2>1. Write(c, k)
    BY <1>9 DEF SetObjectAttributes
  <2>2. Given(a) \in AttrLists
    BY <2>1, WrittenTyped DEF Write
  <2>3. k \in Call /\ k.op = "set_attrs" /\ k.at = 0
    <3>1. k \in Call
      BY IdleIsCall, <2>2, <1>0 DEF Call
    <3>2. k.op = "set_attrs" /\ k.at = 0
      BY DEF Idle
    <3> QED
      BY <3>1, <3>2
  <2> HIDE DEF k
  <2> QED
    BY <2>1, <2>3, AskSends
<1>10. ASSUME NEW id \in KnownIds \cup {Null}, Remove(c, id)
       PROVE  Sends(c)
  <2> DEFINE k == [Idle EXCEPT !.op = "remove", !.on = id]
  <2>1. Ask(c, k) /\ UNCHANGED stamp
    BY <1>10 DEF Remove
  <2>2. k \in Call /\ k.op = "remove" /\ k.at = 0
    <3>1. k \in Call
      BY IdleIsCall, <1>0 DEF Call
    <3>2. k.op = "remove" /\ k.at = 0
      BY DEF Idle
    <3> QED
      BY <3>1, <3>2
  <2> HIDE DEF k
  <2> QED
    BY <2>1, <2>2, AskSends
<1>11. \A options \in OptionSets : options \in SUBSET Options /\ options \ {"create"} \in SUBSET Options
  BY OptionsKnown DEF Options
<1>12. {} \in SUBSET Options /\ SUBSET {"create"} \subseteq SUBSET Options
  BY DEF Options
<1>13. {"char", "int"} \cap DataTypes \subseteq DataTypes /\ Null \in KnownIds \cup {Null}
  OBVIOUS
<1> QED
  BY <1>1, <1>2, <1>3, <1>4, <1>5, <1>6, <1>7, <1>8, <1>9, <1>10, <1>11, <1>12, <1>13
     DEF Request

---------------------------------------------------------------------------
(* What handlers do to entities. *)

\* Nothing of any entity's history is lost.
HistoryGrows ==
  \A e \in Ids, type \in Types :
    /\ Len(history[e][type]) <= Len(history'[e][type])
    /\ \A i \in 0 .. Len(history[e][type]) : At(e, type, i)' = At(e, type, i)

\* What a handler leaves of the invariant, whatever becomes of the call.
StateKept ==
  /\ counter' \in Root + 1 .. MaxId + 1
  /\ live' \subseteq KnownIds'
  /\ named' \in live' \cup {Null}
  /\ data' \in [Ids -> [Types -> Datum]]
  /\ told' = data'
  /\ history' \in [Ids -> [Types -> Seq(Datum)]]
  /\ attrs' \in [Holders -> AttrLists]
  /\ HoldsTheLast'
  /\ HistoryGrows
  /\ UNCHANGED <<known, stamp>>

\* What an answer knows of the data its call wrote: WroteIsThere of the state the handler
\* leaves.
Wrote(reply) ==
  reply.at > 0 =>
    reply.hit \in Ids /\ reply.at <= Len(history'[reply.hit][WrittenType(reply)])

\* What it answers.
Answers(c) ==
  \E reply \in Call :
    /\ reply.op = calls[c].op /\ reply.pc = "answered" /\ reply.on = Null
    /\ Wrote(reply)
    /\ WholeGet(reply) => reply.back = data'[reply.hit][reply.type] /\ reply.hit \in live'
    /\ calls' = [calls EXCEPT ![c] = reply]
    /\ UNCHANGED fault

\* The server stops, or answers.
Handles(c) ==
  /\ StateKept
  /\ \/ Answers(c)
     \/ UNCHANGED calls /\ fault' \in Faults

\* Nothing happens to any entity.
LEMMA NothingKept ==
  ASSUME IInv, UNCHANGED <<names, data, told, history, known, stamp>>,
         attrs' \in [Holders -> AttrLists]
  PROVE  StateKept
<1>1. UNCHANGED <<counter, live, named, data, told, history, known, stamp>>
  BY DEF names
<1>2. \A e, type, i : At(e, type, i)' = At(e, type, i)
  BY <1>1 DEF At
<1>3. HoldsTheLast'
  BY <1>1, <1>2 DEF IInv, HoldsTheLast
<1>4. HistoryGrows
  <2>1. \A e \in Ids, type \in Types : Len(history[e][type]) \in Nat
    BY LenProperties DEF IInv, TypeOK
  <2> QED
    BY <1>1, <1>2, <2>1 DEF HistoryGrows
<1> QED
  BY <1>1, <1>3, <1>4 DEF IInv, TypeOK, StateKept, KnownIds

\* Storing data appends it to the history of one entity and type.
LEMMA StoreFacts ==
  ASSUME IInv, NEW e \in Ids, NEW type \in Types, NEW datum \in Datum, Store(e, type, datum),
         e \in live \/ e >= counter
  PROVE  /\ data' \in [Ids -> [Types -> Datum]] /\ told' = data'
         /\ history' \in [Ids -> [Types -> Seq(Datum)]]
         /\ HistoryGrows
         /\ Len(history'[e][type]) = Len(history[e][type]) + 1
         /\ data'[e][type] = datum
         /\ \A x \in Ids, y \in Types :
              x \in live \/ x >= counter => data'[x][y] = At(x, y, Len(history[x][y]))'
<1>a. TypeOK /\ told = data /\ HoldsTheLast
  BY DEF IInv
<1>1. /\ data' = [data EXCEPT ![e][type] = datum]
      /\ told' = [told EXCEPT ![e][type] = datum]
      /\ history' = [history EXCEPT ![e][type] = Append(history[e][type], datum)]
  BY DEF Store
<1>2. /\ data \in [Ids -> [Types -> Datum]]
      /\ history \in [Ids -> [Types -> Seq(Datum)]]
  BY <1>a DEF TypeOK
<1>3. \A x \in Ids, y \in Types : history[x][y] \in Seq(Datum) /\ Len(history[x][y]) \in Nat
  BY <1>2, LenProperties
<1> DEFINE old == history[e][type]
           new == Append(old, datum)
<1>4. /\ new \in Seq(Datum) /\ Len(new) = Len(old) + 1 /\ new[Len(old) + 1] = datum
      /\ \A i \in 1 .. Len(old) : new[i] = old[i]
  BY <1>3, AppendProperties
<1>5. /\ data' \in [Ids -> [Types -> Datum]] /\ told' = data'
      /\ history' \in [Ids -> [Types -> Seq(Datum)]]
  BY <1>a, <1>1, <1>2, <1>4
<1>6. /\ data'[e][type] = datum /\ history'[e][type] = new
      /\ \A x \in Ids, y \in Types : ~(x = e /\ y = type) =>
           data'[x][y] = data[x][y] /\ history'[x][y] = history[x][y]
  BY <1>1, <1>2
<1> HIDE DEF new, old
<1>7. HistoryGrows
  <2> SUFFICES ASSUME NEW x \in Ids, NEW y \in Types
               PROVE  /\ Len(history[x][y]) <= Len(history'[x][y])
                      /\ \A i \in 0 .. Len(history[x][y]) : At(x, y, i)' = At(x, y, i)
    BY DEF HistoryGrows
  <2>1. CASE x = e /\ y = type
    <3>1. history[x][y] = old /\ history'[x][y] = new
      BY <2>1, <1>6 DEF old
    <3>2. Len(old) \in Nat
      BY <1>3 DEF old
    <3> QED
      BY <3>1, <3>2, <1>4 DEF At
  <2>2. CASE ~(x = e /\ y = type)
    <3>1. history'[x][y] = history[x][y]
      BY <2>2, <1>6
    <3> QED
      BY <3>1, <1>3 DEF At
  <2> QED
    BY <2>1, <2>2
<1>8. ASSUME NEW x \in Ids, NEW y \in Types, x \in live \/ x >= counter
      PROVE  data'[x][y] = At(x, y, Len(history[x][y]))'
  <2>1. CASE x = e /\ y = type
    <3>1. Len(old) + 1 # 0
      BY <1>3 DEF old
    <3> QED
      BY <2>1, <3>1, <1>4, <1>6 DEF At
  <2>2. CASE ~(x = e /\ y = type)
    <3>1. data[x][y] = At(x, y, Len(history[x][y]))
      BY <1>8, <1>a DEF HoldsTheLast
    <3> QED
      BY <2>2, <3>1, <1>6 DEF At
  <2> QED
    BY <2>1, <2>2
<1>9. Len(history'[e][type]) = Len(history[e][type]) + 1
  BY <1>4, <1>6 DEF old
<1> QED
  BY <1>5, <1>6, <1>7, <1>8, <1>9

\* The entity a request is for exists, is about to be made, or there is none.
LEMMA TargetFacts ==
  ASSUME TypeOK, NEW call \in Call
  PROVE  /\ Target(call) \in live \cup {counter, Null}
         /\ call.on \in Ids \ live => Target(call) = Null
         /\ call.on = Null /\ "create" \in call.options => Target(call) # Null
<1>1. counter # Null /\ Null \notin Ids
  BY IdFacts, MaxIdNat DEF TypeOK
<1>2. named \in live \cup {Null}
  BY DEF TypeOK
<1> QED
  BY <1>1, <1>2 DEF Target

\* Making an entity, when there was none.
LEMMA MadeFacts ==
  ASSUME TypeOK, NEW e \in live \cup {counter, Null}, Made(e)
  PROVE  /\ counter' \in Root + 1 .. MaxId + 1
         /\ live' \subseteq KnownIds' /\ named' \in live' \cup {Null}
         /\ live \subseteq live'
         /\ e # Null => e \in live' /\ e \in Ids
         /\ e # Null => e \in live \/ e >= counter
         /\ \A x \in Ids : x \in live' \/ x >= counter' => x \in live \/ x >= counter
<1>1. /\ counter \in Root + 1 .. MaxId + 1 /\ live \subseteq Ids
      /\ \A x \in live : x < counter
      /\ named \in live \cup {Null}
  BY DEF TypeOK, KnownIds
<1>2. Ids \subseteq Nat /\ Null \notin Ids /\ \A i \in Ids : i <= MaxId
  BY IdFacts
<1>3. Root = 2 /\ MaxId \in Nat /\ counter \in Nat
  BY <1>1, IdFacts, MaxIdNat
<1>4. CASE e = counter
  <2>1. e \in Ids /\ counter' = counter + 1 /\ live' = live \cup {e} /\ named' = e
    BY <1>4 DEF Made
  <2>2. counter' \in Root + 1 .. MaxId + 1
    BY <2>1, <1>1, <1>2, <1>3, <1>4
  <2>3. live' \subseteq KnownIds'
    BY <2>1, <1>1, <1>2, <1>3, <1>4 DEF KnownIds
  <2>4. \A x \in Ids : x \in live' \/ x >= counter' => x \in live \/ x >= counter
    BY <2>1, <1>2, <1>3, <1>4
  <2>5. e \in live \/ e >= counter
    BY <1>3, <1>4
  <2> QED
    BY <2>1, <2>2, <2>3, <2>4, <2>5
<1>5. CASE e # counter
  <2>1. UNCHANGED <<counter, live, named>>
    BY <1>5 DEF Made, names
  <2> QED
    BY <2>1, <1>1, <1>5 DEF KnownIds
<1> QED
  BY <1>4, <1>5

\* Making an entity and storing data in it.
LEMMA StoreKept ==
  ASSUME IInv, NEW e \in live \cup {counter}, e # Null, Made(e),
         NEW type \in Types, NEW datum \in Datum, Store(e, type, datum),
         attrs' \in [Holders -> AttrLists], UNCHANGED <<known, stamp>>
  PROVE  /\ StateKept
         /\ e \in Ids
         /\ Len(history'[e][type]) = Len(history[e][type]) + 1
<1>1. TypeOK
  BY DEF IInv
<1>2. /\ counter' \in Root + 1 .. MaxId + 1
      /\ live' \subseteq KnownIds' /\ named' \in live' \cup {Null}
      /\ e \in Ids /\ (e \in live \/ e >= counter)
      /\ \A x \in Ids : x \in live' \/ x >= counter' => x \in live \/ x >= counter
  BY <1>1, MadeFacts
<1>3. /\ data' \in [Ids -> [Types -> Datum]] /\ told' = data'
      /\ history' \in [Ids -> [Types -> Seq(Datum)]]
      /\ HistoryGrows
      /\ Len(history'[e][type]) = Len(history[e][type]) + 1
      /\ \A x \in Ids, y \in Types :
           x \in live \/ x >= counter => data'[x][y] = At(x, y, Len(history[x][y]))'
  BY <1>2, StoreFacts
<1>4. HoldsTheLast'
  BY <1>2, <1>3 DEF HoldsTheLast
<1> QED
  BY <1>2, <1>3, <1>4 DEF StateKept

\* Making an entity, if need be, and nothing more.
LEMMA MadeKept ==
  ASSUME IInv, NEW e \in live \cup {counter, Null}, Made(e),
         UNCHANGED <<data, told, history, known, stamp>>, attrs' \in [Holders -> AttrLists]
  PROVE  StateKept
<1>1. TypeOK
  BY DEF IInv
<1>2. /\ counter' \in Root + 1 .. MaxId + 1
      /\ live' \subseteq KnownIds' /\ named' \in live' \cup {Null}
      /\ \A x \in Ids : x \in live' \/ x >= counter' => x \in live \/ x >= counter
  BY <1>1, MadeFacts
<1>3. \A x, y, i : At(x, y, i)' = At(x, y, i)
  BY DEF At
<1>4. HoldsTheLast'
  BY <1>2, <1>3 DEF IInv, HoldsTheLast
<1>5. HistoryGrows
  <2>1. \A x \in Ids, y \in Types : Len(history[x][y]) \in Nat
    BY LenProperties DEF IInv, TypeOK
  <2> QED
    BY <1>3, <2>1 DEF HistoryGrows
<1> QED
  BY <1>2, <1>4, <1>5 DEF IInv, TypeOK, StateKept

---------------------------------------------------------------------------
(* The handlers. *)

\* The lists attr_merge_lists makes are lists.
LEMMA MergeTyped ==
  ASSUME NEW old \in AttrLists, NEW new \in AttrLists
  PROVE  Merge(old, new) \in AttrLists
BY DEF Merge, AttrLists

\* Answers to what wrote nothing.
LEMMA AnswerKept ==
  ASSUME TypeOK, NEW c \in Clients, NEW status \in {-1, 1}, NEW e \in Ids \cup {Null},
         calls[c].op \notin {"get"} \/ e = Null,
         Answer(c, status, e, 0)
  PROVE  Answers(c)
<1> DEFINE r == [Reply(calls[c]) EXCEPT !.status = status, !.hit = e, !.at = 0]
<1>1. calls \in [Clients -> Call] /\ calls[c] \in Call
  BY DEF TypeOK
<1>2. r \in Call
  BY <1>1, ReplyIsCall
<1>3. /\ r.op = calls[c].op /\ r.pc = "answered" /\ r.on = Null /\ r.at = 0 /\ r.hit = e
  BY DEF Reply, Idle
<1>4. calls' = [calls EXCEPT ![c] = r] /\ UNCHANGED fault
  BY DEF Answer
<1> HIDE DEF r
<1>5. ~WholeGet(r)
  BY <1>3 DEF WholeGet
<1>6. Wrote(r)
  BY <1>3 DEF Wrote
<1> QED
  BY <1>2, <1>3, <1>4, <1>5, <1>6 DEF Answers

\* Stopping in a handler.
LEMMA CrashKept ==
  ASSUME IInv, NEW c \in Clients, NEW why \in Faults, Crash(why)
  PROVE  Handles(c)
<1>1. UNCHANGED <<names, data, attrs, told, history, known, stamp, calls>> /\ fault' = why
  BY DEF Crash, contents
<1>2. attrs' \in [Holders -> AttrLists]
  BY <1>1 DEF IInv, TypeOK
<1> QED
  BY <1>1, <1>2, NothingKept DEF Handles

\* handle_create_entity.
LEMMA HandleCreateKept ==
  ASSUME IInv, NEW c \in Clients, HandleCreate(c)
  PROVE  Handles(c)
<1> DEFINE call == calls[c]
           e == Target(call)
           type == HandlerType(call.type)
           at == Len(history[e][type]) + 1
<1>1. TypeOK /\ call \in Call /\ calls \in [Clients -> Call]
  BY DEF IInv, TypeOK
<1>2. call.pc = "sent" /\ call.op = "create" /\ fault = "none"
  BY DEF HandleCreate, Served
<1>3. call.on = Null /\ "create" \in call.options
  BY <1>2 DEF IInv, CreatesByName
<1>4. e \in live \cup {counter} /\ e # Null
  BY <1>1, <1>3, TargetFacts
<1>5. type \in Types /\ call.datum \in Datum /\ call.attrs \in AttrLists
  BY <1>1 DEF HandlerType, Types, Call
<1>6. CASE type = "int" /\ call.datum.size = 0
  BY <1>6, CrashKept DEF HandleCreate, Faults
<1>7. CASE ~(type = "int" /\ call.datum.size = 0)
  <2>1. /\ Made(e)
        /\ attrs' = [attrs EXCEPT ![e] = Merge(attrs[e], call.attrs)]
        /\ Store(e, type, call.datum)
        /\ Answer(c, 1, e, at)
    BY <1>7 DEF HandleCreate
  <2>2. e \in Ids
    BY <1>1, <1>4, <2>1, MadeFacts
  <2>3. attrs' \in [Holders -> AttrLists]
    BY <1>1, <1>5, <2>1, <2>2, IdFacts, MergeTyped DEF TypeOK
  <2>4. UNCHANGED <<known, stamp>> /\ UNCHANGED fault
    BY <2>1 DEF Answer
  <2>5. StateKept /\ Len(history'[e][type]) = at
    BY <1>4, <1>5, <2>1, <2>3, <2>4, StoreKept
  <2> DEFINE r == [Reply(call) EXCEPT !.status = 1, !.hit = e, !.at = at]
  <2>6. at \in Nat
    BY <1>1, <1>5, <2>2, LenProperties DEF TypeOK
  <2>7. r \in Call
    BY <1>1, <2>2, <2>6, ReplyIsCall
  <2>8. /\ r.op = "create" /\ r.pc = "answered" /\ r.on = Null /\ r.at = at /\ r.hit = e
        /\ r.type = call.type
    BY <1>2 DEF Reply, Idle
  <2>9. calls' = [calls EXCEPT ![c] = r]
    BY <2>1 DEF Answer
  <2> HIDE DEF r
  <2>10. ~WholeGet(r)
    BY <2>8 DEF WholeGet
  <2>11. Wrote(r)
    BY <2>2, <2>5, <2>6, <2>8 DEF Wrote, WrittenType
  <2>12. Answers(c)
    BY <1>2, <2>4, <2>7, <2>8, <2>9, <2>10, <2>11 DEF Answers
  <2> QED
    BY <2>5, <2>12 DEF Handles
<1> QED
  BY <1>6, <1>7

\* handle_entity_data with elements.
LEMMA StoreDataKept ==
  ASSUME IInv, NEW c \in Clients, StoreData(c)
  PROVE  Handles(c)
<1> DEFINE call == calls[c]
           e == Target(call)
           type == call.type
           at == Len(history[e][type]) + 1
<1>1. TypeOK /\ call \in Call /\ calls \in [Clients -> Call]
  BY DEF IInv, TypeOK
<1>2. call.op = "set" /\ Made(e)
  BY DEF StoreData, Served
<1>3. e \in live \cup {counter, Null}
  BY <1>1, TargetFacts
<1>4. CASE e = Null
  <2>1. Answer(c, -1, Null, 0) /\ UNCHANGED contents
    BY <1>4 DEF StoreData
  <2>2. UNCHANGED <<data, told, history, known, stamp, attrs>>
    BY <2>1 DEF Answer, contents
  <2>3. attrs' \in [Holders -> AttrLists]
    BY <1>1, <2>2 DEF TypeOK
  <2>4. StateKept
    BY <1>2, <1>3, <2>2, <2>3, MadeKept
  <2>5. Answers(c)
    BY <1>1, <2>1, AnswerKept
  <2> QED
    BY <2>4, <2>5 DEF Handles
<1>5. CASE e # Null
  <2>1. Store(e, type, call.datum) /\ Answer(c, 1, e, at) /\ UNCHANGED attrs
    BY <1>5 DEF StoreData
  <2>2. e \in Ids /\ e \in live \cup {counter}
    BY <1>1, <1>2, <1>3, <1>5, MadeFacts
  <2>3. type \in Types /\ call.datum \in Datum
    BY <1>1 DEF Call
  <2>4. UNCHANGED <<known, stamp>> /\ UNCHANGED fault
    BY <2>1 DEF Answer
  <2>5. attrs' \in [Holders -> AttrLists]
    BY <1>1, <2>1 DEF TypeOK
  <2>6. StateKept /\ Len(history'[e][type]) = at
    BY <1>2, <1>5, <2>1, <2>2, <2>3, <2>4, <2>5, StoreKept
  <2> DEFINE r == [Reply(call) EXCEPT !.status = 1, !.hit = e, !.at = at]
  <2>7. at \in Nat
    BY <1>1, <2>2, <2>3, LenProperties DEF TypeOK
  <2>8. r \in Call
    BY <1>1, <2>2, <2>7, ReplyIsCall
  <2>9. /\ r.op = "set" /\ r.pc = "answered" /\ r.on = Null /\ r.at = at /\ r.hit = e
        /\ r.type = type
    BY <1>2 DEF Reply, Idle
  <2>10. calls' = [calls EXCEPT ![c] = r]
    BY <2>1 DEF Answer
  <2> HIDE DEF r
  <2>11. ~WholeGet(r)
    BY <2>9 DEF WholeGet
  <2>12. Wrote(r)
    BY <2>2, <2>6, <2>7, <2>9 DEF Wrote, WrittenType
  <2>13. Answers(c)
    BY <1>2, <2>4, <2>8, <2>9, <2>10, <2>11, <2>12 DEF Answers
  <2> QED
    BY <2>6, <2>13 DEF Handles
<1> QED
  BY <1>4, <1>5

\* All of an entity's data is what a get without options answers.
LEMMA SelectedFacts ==
  ASSUME TypeOK, NEW e \in Ids, NEW type \in Types, NEW options \in SUBSET Options
  PROVE  /\ Selected(e, type, options) \in Datum
         /\ options \cap {"buffer", "size"} = {} =>
              Selected(e, type, options) = data[e][type]
<1>1. data[e][type] \in Datum
  BY DEF TypeOK
<1>2. CASE data[e][type] = Nothing
  BY <1>2 DEF Selected, Nothing, Datum
<1>3. CASE data[e][type] \in [size : {1, IntSize}, word : 0 .. MaxStamp]
  <2> DEFINE d == data[e][type]
  <2>1. /\ d = [size |-> d.size, word |-> d.word]
        /\ d.size \in {1, IntSize} /\ d.size > 0 /\ d.word \in 0 .. MaxStamp
    BY <1>3 DEF IntSize
  <2>2. 0 \in 0 .. MaxStamp
    BY MaxStampNat
  <2> HIDE DEF d
  <2>3. Selected(e, type, options) =
          LET all == options \cap {"buffer", "size"} = {}
              size == IF all \/ "size" \in options THEN d.size ELSE 0
          IN [size |-> size,
              word |-> IF size > 0 /\ (all \/ "buffer" \in options) THEN d.word ELSE 0]
    BY DEF Selected, d
  <2>4. CASE options \cap {"buffer", "size"} = {}
    <3>1. Selected(e, type, options) = d
      BY <2>1, <2>3, <2>4
    <3> QED
      BY <1>1, <3>1 DEF d
  <2>5. CASE options \cap {"buffer", "size"} # {} /\ "size" \in options
    BY <2>1, <2>2, <2>3, <2>5 DEF Datum
  <2>6. CASE options \cap {"buffer", "size"} # {} /\ "size" \notin options
    BY <2>3, <2>6 DEF Datum, Nothing
  <2> QED
    BY <2>4, <2>5, <2>6
<1> QED
  BY <1>1, <1>2, <1>3 DEF Datum

\* handle_entity_data without elements.
LEMMA AnswerDataKept ==
  ASSUME IInv, NEW c \in Clients, AnswerData(c)
  PROVE  Handles(c)
<1> DEFINE call == calls[c]
           e == Target(call)
           type == call.type
           back == IF e = Null \/ call.op = "set" THEN Nothing
                   ELSE Selected(e, type, call.options)
<1>1. TypeOK /\ call \in Call /\ calls \in [Clients -> Call]
  BY DEF IInv, TypeOK
<1>2. e \in live \cup {counter, Null}
  BY <1>1, TargetFacts
<1>3. CASE Crash("overrun")
  BY <1>3, CrashKept DEF Faults
<1>4. CASE ~Crash("overrun")
  <2>1. /\ Made(e) /\ call.op \in {"get", "set"}
        /\ UNCHANGED <<contents, known, stamp, fault>>
    BY <1>4 DEF AnswerData
  <2>2. PICK status \in {-1, 1} :
           /\ calls' = [calls EXCEPT ![c] = [Reply(call) EXCEPT !.status = status, !.hit = e,
                                                                !.back = back]]
           /\ e = Null => status = -1
    BY <1>4 DEF AnswerData
  <2>3. e # Null => e \in Ids /\ e \in live'
    BY <1>1, <1>2, <2>1, MadeFacts
  <2>4. UNCHANGED <<data, told, history, known, stamp>> /\ attrs' \in [Holders -> AttrLists]
    BY <1>1, <2>1 DEF contents, TypeOK
  <2>5. StateKept
    BY <1>2, <2>1, <2>4, MadeKept
  <2>6. type \in Types /\ call.options \in SUBSET Options
    BY <1>1 DEF Call
  <2>7. back \in Datum
    BY <1>1, <2>3, <2>6, SelectedFacts DEF Datum
  <2> DEFINE r == [Reply(call) EXCEPT !.status = status, !.hit = e, !.back = back]
  <2>8. r \in Call
    BY <1>1, <2>3, <2>7, ReplyIsCall
  <2>9. /\ r.op = call.op /\ r.pc = "answered" /\ r.on = Null /\ r.at = 0 /\ r.hit = e
        /\ r.type = type /\ r.back = back
        /\ r.options = call.options \cap {"buffer", "size"}
    BY DEF Reply, Idle
  <2>10. calls' = [calls EXCEPT ![c] = r]
    BY <2>2
  <2> HIDE DEF r
  <2>11. Wrote(r)
    BY <2>9 DEF Wrote
  <2>12. ASSUME WholeGet(r)
         PROVE  r.back = data'[r.hit][r.type] /\ r.hit \in live'
    <3>1. e # Null /\ call.op = "get" /\ call.options \cap {"buffer", "size"} = {}
      BY <2>9, <2>12 DEF WholeGet
    <3>2. back = data[e][type]
      BY <1>1, <2>3, <2>6, <3>1, SelectedFacts
    <3> QED
      BY <2>3, <2>4, <2>9, <3>1, <3>2
  <2>13. Answers(c)
    BY <2>1, <2>8, <2>9, <2>10, <2>11, <2>12 DEF Answers
  <2> QED
    BY <2>5, <2>13 DEF Handles
<1> QED
  BY <1>3, <1>4

\* handle_entity_attributes, for a get.
LEMMA AnswerAttributesKept ==
  ASSUME IInv, NEW c \in Clients, AnswerAttributes(c)
  PROVE  Handles(c)
<1> DEFINE call == calls[c]
           e == Target(call)
           status == IF e = Null THEN -1 ELSE 1
           list == IF e = Null THEN NoAttrs ELSE attrs[e]
           r == [Reply(call) EXCEPT !.status = status, !.hit = e, !.list = list]
<1>1. TypeOK /\ call \in Call /\ calls \in [Clients -> Call]
  BY DEF IInv, TypeOK
<1>2. e \in live \cup {counter, Null}
  BY <1>1, TargetFacts
<1>3. /\ Made(e) /\ call.op = "get_attrs" /\ calls' = [calls EXCEPT ![c] = r]
      /\ UNCHANGED <<contents, known, stamp, fault>>
  BY DEF AnswerAttributes, Served
<1>4. e # Null => e \in Ids
  BY <1>1, <1>2, <1>3, MadeFacts
<1>5. UNCHANGED <<data, told, history, known, stamp>> /\ attrs' \in [Holders -> AttrLists]
  BY <1>1, <1>3 DEF contents, TypeOK
<1>6. StateKept
  BY <1>2, <1>3, <1>5, MadeKept
<1>7. list \in AttrLists
  BY <1>1, <1>4, IdFacts, MaxStampNat DEF TypeOK, NoAttrs, AttrLists
<1>8. r \in Call
  BY <1>1, <1>4, <1>7, ReplyIsCall
<1>9. r.op = "get_attrs" /\ r.pc = "answered" /\ r.on = Null /\ r.at = 0
  BY <1>3 DEF Reply, Idle
<1> HIDE DEF r
<1>10. Wrote(r) /\ ~WholeGet(r) /\ UNCHANGED fault
  BY <1>3, <1>9 DEF Wrote, WholeGet
<1>11. Answers(c)
  BY <1>3, <1>8, <1>9, <1>10 DEF Answers
<1> QED
  BY <1>6, <1>11 DEF Handles

\* handle_entity_attributes, for a set.
LEMMA StoreAttributesKept ==
  ASSUME IInv, NEW c \in Clients, StoreAttributes(c)
  PROVE  Handles(c)
<1> DEFINE call == calls[c]
           e == Target(call)
<1>1. TypeOK /\ call \in Call
  BY DEF IInv, TypeOK
<1>2. e \in live \cup {counter, Null}
  BY <1>1, TargetFacts
<1>3. /\ Made(e) /\ call.op = "set_attrs"
      /\ attrs' = IF e = Null THEN attrs ELSE [attrs EXCEPT ![e] = Merge(attrs[e], call.attrs)]
      /\ Answer(c, IF e = Null THEN -1 ELSE 1, e, 0)
      /\ UNCHANGED <<data, told, history>>
  BY DEF StoreAttributes, Served
<1>4. e # Null => e \in Ids
  BY <1>1, <1>2, <1>3, MadeFacts
<1>5. call.attrs \in AttrLists
  BY <1>1 DEF Call
<1>6. attrs' \in [Holders -> AttrLists]
  BY <1>1, <1>3, <1>4, <1>5, IdFacts, MergeTyped DEF TypeOK
<1>7. UNCHANGED <<data, told, history, known, stamp>>
  BY <1>3 DEF Answer
<1>8. StateKept
  BY <1>2, <1>3, <1>6, <1>7, MadeKept
<1>9. Answers(c)
  BY <1>1, <1>3, <1>4, AnswerKept
<1> QED
  BY <1>8, <1>9 DEF Handles

\* handle_domain_attributes and handle_context_attributes.
LEMMA ObjectAttributesKept ==
  ASSUME IInv, NEW c \in Clients, ObjectAttributes(c)
  PROVE  Handles(c)
<1> DEFINE call == calls[c]
<1>1. TypeOK /\ call \in Call
  BY DEF IInv, TypeOK
<1>2. CASE Crash("wild")
  BY <1>2, CrashKept DEF Faults
<1>3. CASE ~Crash("wild")
  <2>1. /\ call.op \in {"get_attrs", "set_attrs"} /\ ~OnEntity(call)
        /\ attrs' = [attrs EXCEPT ![call.on] = Merge(attrs[call.on], call.attrs)]
        /\ UNCHANGED <<names, data, told, history>>
    BY <1>3 DEF ObjectAttributes
  <2>2. PICK status \in {-1, 1} : Answer(c, status, Null, 0)
    BY <1>3 DEF ObjectAttributes
  <2>3. call.on \in Holders /\ call.attrs \in AttrLists
    BY <1>1, <2>1, IdFacts DEF Call, OnEntity
  <2>4. attrs' \in [Holders -> AttrLists]
    BY <1>1, <2>1, <2>3, MergeTyped DEF TypeOK
  <2>5. StateKept
    BY <2>1, <2>2, <2>4, NothingKept DEF Answer
  <2>6. Answers(c)
    BY <1>1, <2>1, <2>2, AnswerKept
  <2> QED
    BY <2>5, <2>6 DEF Handles
<1> QED
  BY <1>2, <1>3

\* handle_remove_entity: what an entity that goes held is not asked for again.
LEMMA HandleRemoveKept ==
  ASSUME IInv, NEW c \in Clients, HandleRemove(c)
  PROVE  Handles(c)
<1> DEFINE call == calls[c]
           e == call.on
<1>1. TypeOK /\ call \in Call
  BY DEF IInv, TypeOK
<1>2. call.op = "remove"
  BY DEF HandleRemove, Served
<1>3. CASE e = Null
  <2>1. /\ named' = Null /\ UNCHANGED <<counter, live, contents>>
        /\ Answer(c, IF named = Null THEN -1 ELSE 1, Null, 0)
    BY <1>3 DEF HandleRemove
  <2>2. UNCHANGED <<data, told, history, attrs, known, stamp>>
    BY <2>1 DEF contents, Answer
  <2>3. \A x, y, i : At(x, y, i)' = At(x, y, i)
    BY <2>2 DEF At
  <2>4. HistoryGrows
    <3>1. \A x \in Ids, y \in Types : Len(history[x][y]) \in Nat
      BY <1>1, LenProperties DEF TypeOK
    <3> QED
      BY <2>2, <2>3, <3>1 DEF HistoryGrows
  <2>5. HoldsTheLast'
    BY <2>1, <2>2, <2>3 DEF IInv, HoldsTheLast
  <2>6. StateKept
    BY <2>1, <2>2, <2>4, <2>5 DEF IInv, TypeOK, StateKept, KnownIds
  <2>7. Answers(c)
    BY <1>1, <1>2, <2>1, AnswerKept
  <2> QED
    BY <2>6, <2>7 DEF Handles
<1>4. CASE e # Null /\ e \in live
  <2>1. /\ live' = live \ {e} /\ named' = (IF named = e THEN Null ELSE named)
        /\ data' = [data EXCEPT ![e] = Empty] /\ told' = [told EXCEPT ![e] = Empty]
        /\ attrs' = [attrs EXCEPT ![e] = NoAttrs]
        /\ Answer(c, 1, Null, 0) /\ UNCHANGED <<counter, history>>
    BY <1>4 DEF HandleRemove
  <2>2. e \in Ids /\ e < counter /\ counter \in Nat
    <3>1. e \in Ids /\ e < counter
      BY <1>1, <1>4 DEF TypeOK, KnownIds
    <3>2. counter \in Root + 1 .. MaxId + 1
      BY <1>1 DEF TypeOK
    <3> QED
      BY <3>1, <3>2, IdFacts, MaxIdNat
  <2>3. Empty \in [Types -> Datum] /\ NoAttrs \in AttrLists
    BY MaxStampNat DEF Empty, Datum, NoAttrs, AttrLists
  <2>4. /\ data' \in [Ids -> [Types -> Datum]] /\ told' = data'
        /\ attrs' \in [Holders -> AttrLists]
    BY <2>1, <2>2, <2>3, IdFacts DEF IInv, TypeOK
  <2>5. \A x, y, i : At(x, y, i)' = At(x, y, i)
    BY <2>1 DEF At
  <2>6. HistoryGrows
    <3>1. \A x \in Ids, y \in Types : Len(history[x][y]) \in Nat
      BY <1>1, LenProperties DEF TypeOK
    <3> QED
      BY <2>1, <2>5, <3>1 DEF HistoryGrows
  <2>7. HoldsTheLast'
    <3> SUFFICES ASSUME NEW x \in Ids, NEW y \in Types, x \in live' \/ x >= counter
                 PROVE  data'[x][y] = At(x, y, Len(history[x][y]))
      BY <2>1, <2>5 DEF HoldsTheLast
    <3>x. x \in live' \/ x >= counter
      OBVIOUS
    <3>a. e \in Nat /\ x \in Nat /\ ~(e >= counter)
      <4> HIDE DEF e
      <4>1. e \in Nat /\ x \in Nat
        BY <2>2, IdFacts
      <4> QED
        BY <2>2, <4>1
    <3>1. x # e /\ (x \in live \/ x >= counter)
      <4>1. live' = live \ {e}
        BY <2>1
      <4>2. CASE x = e
        BY <4>1, <4>2, <3>a, <3>x
      <4>3. CASE x # e
        BY <4>1, <4>3, <3>x
      <4> QED
        BY <4>2, <4>3
    <3>2. data[x][y] = At(x, y, Len(history[x][y]))
      BY <3>1 DEF IInv, HoldsTheLast
    <3> QED
      BY <1>1, <2>1, <3>1, <3>2 DEF TypeOK
  <2>8. UNCHANGED <<known, stamp>>
    BY <2>1 DEF Answer
  <2>9. live' \subseteq KnownIds' /\ named' \in live' \cup {Null}
    BY <1>1, <2>1 DEF TypeOK, KnownIds
  <2>10. StateKept
    BY <1>1, <2>1, <2>4, <2>6, <2>7, <2>8, <2>9 DEF TypeOK, StateKept
  <2>11. Answers(c)
    BY <1>1, <1>2, <2>1, AnswerKept
  <2> QED
    BY <2>10, <2>11 DEF Handles
<1>5. CASE e # Null /\ e \notin live
  BY <1>5, CrashKept DEF HandleRemove, Faults
<1> QED
  BY <1>3, <1>4, <1>5

\* Every handler.
LEMMA HandleKept ==
  ASSUME IInv, NEW c \in Clients, Handle(c)
  PROVE  Handles(c)
BY HandleCreateKept, AnswerDataKept, StoreDataKept, AnswerAttributesKept,
   StoreAttributesKept, ObjectAttributesKept, HandleRemoveKept DEF Handle

---------------------------------------------------------------------------
(* The invariant. *)

\* What histories tell of a call outlasts the steps of others.
LEMMA OthersKept ==
  ASSUME IInv, HistoryGrows, history' \in [Ids -> [Types -> Seq(Datum)]],
         NEW d \in Clients, calls'[d] = calls[d], known'[d] = known[d],
         \A e \in Ids, type \in Types : known[d][e][type] \in Nat
  PROVE  /\ WroteIsThere(calls[d])'
         /\ (WholeGet(calls[d]) => Agreeing(d) # {})'
<1> DEFINE call == calls[d]
<1>1. call \in Call
  BY DEF IInv, TypeOK
<1>2. \A e \in Ids, type \in Types :
        /\ Len(history[e][type]) \in Nat /\ Len(history'[e][type]) \in Nat
        /\ Len(history[e][type]) <= Len(history'[e][type])
        /\ \A i \in 0 .. Len(history[e][type]) : At(e, type, i)' = At(e, type, i)
  BY LenProperties DEF IInv, TypeOK, HistoryGrows
<1>3. WroteIsThere(calls[d])'
  <2>1. WroteIsThere(call)
    BY DEF IInv
  <2>2. WrittenType(call) \in Types /\ call.at \in Nat
    BY <1>1 DEF WrittenType, HandlerType, Types, Call
  <2> QED
    BY <1>2, <2>1, <2>2 DEF WroteIsThere
<1>4. ASSUME WholeGet(calls[d])'
      PROVE  Agreeing(d)' # {}
  <2>1. WholeGet(call)
    BY <1>4 DEF WholeGet
  <2>2. call.hit \in Ids /\ call.type \in Types
    BY <1>1, <2>1 DEF WholeGet, Call
  <2>3. PICK i \in Agreeing(d) : TRUE
    BY <2>1 DEF IInv, GetsGoForward
  <2> DEFINE len == Len(history[call.hit][call.type])
             seen == known[d][call.hit][call.type]
  <2>4. i \in seen .. len /\ At(call.hit, call.type, i) = call.back
    BY <2>3 DEF Agreeing
  <2>5. seen \in Nat /\ len \in Nat /\ Len(history'[call.hit][call.type]) \in Nat
        /\ len <= Len(history'[call.hit][call.type])
    BY <1>2, <2>2
  <2>6. i \in 0 .. len /\ i \in seen .. Len(history'[call.hit][call.type])
    BY <2>4, <2>5
  <2>7. At(call.hit, call.type, i)' = call.back
    BY <1>2, <2>2, <2>4, <2>6
  <2>8. i \in Agreeing(d)'
    BY <2>6, <2>7 DEF Agreeing
  <2> QED
    BY <2>8
<1> QED
  BY <1>3, <1>4

\* A request keeps the invariant.
LEMMA RequestInv ==
  ASSUME IInv, NEW c \in Clients, Request(c)
  PROVE  IInv'
<1>1. TypeOK
  BY DEF IInv
<1>2. PICK call \in Call :
        /\ call.op = "create" => call.on = Null /\ "create" \in call.options
        /\ call.at = 0
        /\ calls' = [calls EXCEPT ![c] = [call EXCEPT !.pc = "sent"]]
        /\ UNCHANGED <<names, contents, known, fault>>
        /\ stamp' \in 0 .. MaxStamp
  BY <1>1, RequestSends DEF Sends
<1>3. UNCHANGED <<counter, live, named, data, attrs, told, history, known, fault>>
  BY <1>2 DEF names, contents
<1> DEFINE r == [call EXCEPT !.pc = "sent"]
<1>4. /\ r \in Call /\ r.pc = "sent" /\ r.at = 0
      /\ r.op = "create" => r.on = Null /\ "create" \in r.options
  BY <1>2 DEF Call
<1>5. calls' = [calls EXCEPT ![c] = r] /\ calls \in [Clients -> Call]
  BY <1>1, <1>2 DEF TypeOK
<1> HIDE DEF r
<1>6. TypeOK'
  BY <1>1, <1>2, <1>3, <1>4, <1>5 DEF TypeOK, KnownIds
<1>7. \A x, y, i : At(x, y, i)' = At(x, y, i)
  BY <1>3 DEF At
<1>8. (told = data)' /\ HoldsTheLast' /\ SeenIsThere'
  BY <1>3, <1>7 DEF IInv, HoldsTheLast, SeenIsThere
<1>9. HistoryGrows
  <2>1. \A x \in Ids, y \in Types : Len(history[x][y]) \in Nat
    BY <1>1, LenProperties DEF TypeOK
  <2> QED
    BY <1>3, <1>7, <2>1 DEF HistoryGrows
<1>10. ASSUME NEW d \in Clients
       PROVE  /\ WroteIsThere(calls[d])' /\ CreatesByName(calls[d])'
              /\ (WholeGet(calls[d]) => Agreeing(d) # {})'
  <2>1. CASE d = c
    <3>1. calls'[d] = r
      BY <1>5, <2>1
    <3> QED
      BY <1>4, <3>1 DEF WroteIsThere, CreatesByName, WholeGet
  <2>2. CASE d # c
    <3>1. calls'[d] = calls[d] /\ known'[d] = known[d]
      BY <1>3, <1>5, <2>2
    <3>2. \A e \in Ids, type \in Types : known[d][e][type] \in Nat
      BY <1>1 DEF TypeOK
    <3>3. history' \in [Ids -> [Types -> Seq(Datum)]]
      BY <1>1, <1>3 DEF TypeOK
    <3>4. CreatesByName(calls[d])'
      BY <3>1 DEF IInv, CreatesByName
    <3> QED
      BY <1>9, <3>1, <3>2, <3>3, <3>4, OthersKept
  <2> QED
    BY <2>1, <2>2
<1> QED
  BY <1>6, <1>8, <1>10 DEF IInv, GetsGoForward

\* A handler keeps the invariant.
LEMMA HandleInv ==
  ASSUME IInv, NEW c \in Clients, Handle(c)
  PROVE  IInv'
<1>0. Handles(c)
  BY HandleKept
<1>1. TypeOK /\ StateKept
  BY <1>0 DEF IInv, Handles
<1>2. /\ HistoryGrows /\ HoldsTheLast' /\ UNCHANGED <<known, stamp>> /\ told' = data'
      /\ history' \in [Ids -> [Types -> Seq(Datum)]]
  BY <1>1 DEF StateKept
<1>3. \A e \in Ids, type \in Types :
        /\ Len(history[e][type]) \in Nat /\ Len(history'[e][type]) \in Nat
        /\ Len(history[e][type]) <= Len(history'[e][type])
  BY <1>1, <1>2, LenProperties DEF TypeOK, HistoryGrows
<1>4. known' = known /\ \A d \in Clients, e \in Ids, type \in Types : known[d][e][type] \in Nat
  BY <1>1, <1>2 DEF TypeOK
<1>5. SeenIsThere'
  BY <1>3, <1>4 DEF IInv, SeenIsThere
<1>6. CASE UNCHANGED calls /\ fault' \in Faults
  <2>1. TypeOK'
    BY <1>1, <1>2, <1>6 DEF TypeOK, StateKept
  <2>2. ASSUME NEW d \in Clients
        PROVE  /\ WroteIsThere(calls[d])' /\ CreatesByName(calls[d])'
               /\ (WholeGet(calls[d]) => Agreeing(d) # {})'
    <3>1. CreatesByName(calls[d])'
      BY <1>6 DEF IInv, CreatesByName
    <3> QED
      BY <1>2, <1>4, <1>6, <3>1, OthersKept
  <2> QED
    BY <1>2, <1>5, <2>1, <2>2 DEF IInv, GetsGoForward
<1>7. CASE Answers(c)
  <2>1. PICK reply \in Call :
          /\ reply.pc = "answered" /\ Wrote(reply)
          /\ WholeGet(reply) => reply.back = data'[reply.hit][reply.type] /\ reply.hit \in live'
          /\ calls' = [calls EXCEPT ![c] = reply]
          /\ UNCHANGED fault
    BY <1>7 DEF Answers
  <2>2. calls'[c] = reply /\ \A d \in Clients \ {c} : calls'[d] = calls[d]
    BY <1>1, <2>1 DEF TypeOK
  <2>3. TypeOK'
    <3>1. calls' \in [Clients -> Call]
      BY <1>1, <2>1 DEF TypeOK
    <3> QED
      BY <1>1, <1>2, <2>1, <3>1 DEF TypeOK, StateKept
  <2>4. ASSUME NEW d \in Clients
        PROVE  /\ WroteIsThere(calls[d])' /\ CreatesByName(calls[d])'
               /\ (WholeGet(calls[d]) => Agreeing(d) # {})'
    <3>1. CASE d = c
      <4>1. WroteIsThere(calls[d])' /\ CreatesByName(calls[d])'
        BY <2>1, <2>2, <3>1 DEF Wrote, WroteIsThere, CreatesByName
      <4>2. ASSUME WholeGet(calls[d])'
            PROVE  Agreeing(d)' # {}
        <5>1. WholeGet(reply)
          BY <2>2, <3>1, <4>2 DEF WholeGet
        <5>2. reply.hit \in Ids /\ reply.type \in Types /\ reply.hit \in live'
          BY <2>1, <5>1 DEF WholeGet, Call
        <5> DEFINE place == Len(history[reply.hit][reply.type])
        <5>3. At(reply.hit, reply.type, place)' = reply.back
          BY <1>2, <2>1, <5>1, <5>2 DEF HoldsTheLast
        <5>4. known'[d][reply.hit][reply.type] \in Nat /\ place' \in Nat
              /\ known'[d][reply.hit][reply.type] <= place'
          BY <1>3, <1>4, <1>5, <5>2 DEF SeenIsThere
        <5>5. place' \in known'[d][reply.hit][reply.type] .. place'
          BY <5>4
        <5>6. place' \in Agreeing(d)'
          BY <2>2, <3>1, <5>3, <5>5 DEF Agreeing, At
        <5> QED
          BY <5>6
      <4> QED
        BY <4>1, <4>2
    <3>2. CASE d # c
      <4>1. calls'[d] = calls[d]
        BY <2>2, <3>2
      <4>2. CreatesByName(calls[d])'
        BY <4>1 DEF IInv, CreatesByName
      <4> QED
        BY <1>2, <1>4, <4>1, <4>2, OthersKept
    <3> QED
      BY <3>1, <3>2
  <2> QED
    BY <1>2, <1>5, <2>3, <2>4 DEF IInv, GetsGoForward
<1> QED
  BY <1>0, <1>6, <1>7 DEF Handles

\* Reading a reply keeps the invariant.
LEMMA ReturnInv ==
  ASSUME IInv, NEW c \in Clients, Return(c)
  PROVE  IInv'
<1> DEFINE call == calls[c]
           type == WrittenType(call)
<1>1. TypeOK /\ call \in Call
  BY DEF IInv, TypeOK
<1>2. UNCHANGED <<counter, live, named, data, attrs, told, history, stamp, fault>>
  BY DEF Return, names, contents
<1>3. PICK r \in Call : calls' = [calls EXCEPT ![c] = r] /\ r.pc # "sent" /\ r.pc # "answered"
                        /\ r.at = 0
  <2>1. [Idle EXCEPT !.pc = "stopped"] \in Call /\ Idle \in Call
    BY IdleIsCall DEF Call
  <2>2. /\ Idle.pc = "idle" /\ Idle.at = 0
        /\ [Idle EXCEPT !.pc = "stopped"].pc = "stopped"
        /\ [Idle EXCEPT !.pc = "stopped"].at = 0
    BY DEF Idle
  <2> QED
    BY <2>1, <2>2 DEF Return
<1>4. \A e \in Ids, t \in Types : Len(history[e][t]) \in Nat
  BY <1>1, LenProperties DEF TypeOK
<1>5. \/ known' = known
      \/ \E e \in Ids, t \in Types, i \in Nat :
           i <= Len(history[e][t]) /\ known' = [known EXCEPT ![c][e][t] = i]
  <2>1. CASE call.op \in {"create", "set"} /\ call.at > 0
    <3>1. known' = [known EXCEPT ![c][call.hit][type] = call.at]
      BY <2>1 DEF Return, WholeGet
    <3>2. call.hit \in Ids /\ call.at <= Len(history[call.hit][type])
      BY <2>1 DEF IInv, WroteIsThere
    <3>3. type \in Types /\ call.at \in Nat
      BY <1>1 DEF WrittenType, HandlerType, Types, Call
    <3> QED
      BY <3>1, <3>2, <3>3
  <2>2. CASE /\ ~(call.op \in {"create", "set"} /\ call.at > 0)
             /\ WholeGet(call) /\ Agreeing(c) # {}
    <3>1. PICK i \in Agreeing(c) : known' = [known EXCEPT ![c][call.hit][type] = i]
      BY <2>2 DEF Return
    <3>2. call.hit \in Ids /\ call.type \in Types /\ type = call.type
      BY <1>1, <2>2 DEF WholeGet, Call, WrittenType
    <3>3. i \in known[c][call.hit][call.type] .. Len(history[call.hit][call.type])
      BY <3>1 DEF Agreeing
    <3>4. known[c][call.hit][call.type] \in Nat
      BY <1>1, <3>2 DEF TypeOK
    <3>5. i \in Nat /\ i <= Len(history[call.hit][call.type])
      BY <1>4, <3>2, <3>3, <3>4
    <3> QED
      BY <3>1, <3>2, <3>5
  <2>3. CASE /\ ~(call.op \in {"create", "set"} /\ call.at > 0)
             /\ ~(WholeGet(call) /\ Agreeing(c) # {})
    BY <2>3 DEF Return
  <2> QED
    BY <2>1, <2>2, <2>3
<1>6. /\ known' \in [Clients -> [Ids -> [Types -> Nat]]]
      /\ \A d \in Clients \ {c} : known'[d] = known[d]
      /\ SeenIsThere'
  <2>1. known \in [Clients -> [Ids -> [Types -> Nat]]]
    BY <1>1 DEF TypeOK
  <2>2. CASE known' = known
    BY <1>2, <2>1, <2>2 DEF IInv, SeenIsThere
  <2>3. CASE known' # known
    <3>1. PICK e \in Ids, t \in Types, i \in Nat :
            i <= Len(history[e][t]) /\ known' = [known EXCEPT ![c][e][t] = i]
      BY <1>5, <2>3
    <3>2. /\ known' \in [Clients -> [Ids -> [Types -> Nat]]]
          /\ \A d \in Clients \ {c} : known'[d] = known[d]
          /\ \A d \in Clients, x \in Ids, y \in Types :
               known'[d][x][y] = IF d = c /\ x = e /\ y = t THEN i ELSE known[d][x][y]
      BY <2>1, <3>1
    <3>3. SeenIsThere'
      BY <1>2, <3>1, <3>2 DEF IInv, SeenIsThere
    <3> QED
      BY <3>2, <3>3
  <2> QED
    BY <2>2, <2>3
<1>7. TypeOK'
  <2>1. calls' \in [Clients -> Call]
    BY <1>1, <1>3 DEF TypeOK
  <2> QED
    BY <1>1, <1>2, <1>6, <2>1 DEF TypeOK, KnownIds
<1>8. \A x, y, i : At(x, y, i)' = At(x, y, i)
  BY <1>2 DEF At
<1>9. (told = data)' /\ HoldsTheLast'
  BY <1>2, <1>8 DEF IInv, HoldsTheLast
<1>10. HistoryGrows
  BY <1>2, <1>4, <1>8 DEF HistoryGrows
<1>11. ASSUME NEW d \in Clients
       PROVE  /\ WroteIsThere(calls[d])' /\ CreatesByName(calls[d])'
              /\ (WholeGet(calls[d]) => Agreeing(d) # {})'
  <2>1. CASE d = c
    <3>1. calls'[d] = r
      BY <1>1, <1>3, <2>1 DEF TypeOK
    <3> QED
      BY <1>3, <3>1 DEF WroteIsThere, CreatesByName, WholeGet
  <2>2. CASE d # c
    <3>1. calls'[d] = calls[d] /\ known'[d] = known[d]
      BY <1>1, <1>3, <1>6, <2>2 DEF TypeOK
    <3>2. \A e \in Ids, t \in Types : known[d][e][t] \in Nat
      BY <1>1 DEF TypeOK
    <3>3. history' \in [Ids -> [Types -> Seq(Datum)]]
      BY <1>1, <1>2 DEF TypeOK
    <3>4. CreatesByName(calls[d])'
      BY <3>1 DEF IInv, CreatesByName
    <3> QED
      BY <1>10, <3>1, <3>2, <3>3, <3>4, OthersKept
  <2> QED
    BY <2>1, <2>2
<1> QED
  BY <1>6, <1>7, <1>9, <1>11 DEF IInv, GetsGoForward

---------------------------------------------------------------------------
(* The theorems. *)

\* The server starts with nothing.
LEMMA InitInv ==
  ASSUME Init
  PROVE  IInv
<1>1. /\ counter = Root + 1 /\ live = {} /\ named = Null /\ stamp = 0 /\ fault = "none"
      /\ data = PerData(Nothing) /\ told = PerData(Nothing) /\ history = PerData(<<>>)
      /\ attrs = [o \in Holders |-> NoAttrs]
      /\ calls = [c \in Clients |-> Idle]
      /\ known = [c \in Clients |-> PerData(0)]
  BY DEF Init
<1>2. Nothing \in Datum /\ <<>> \in Seq(Datum) /\ NoAttrs \in AttrLists
  BY MaxStampNat DEF Datum, NoAttrs, AttrLists
<1>3. \A e \in Ids, type \in Types :
        history[e][type] = <<>> /\ data[e][type] = Nothing /\ Len(history[e][type]) = 0
  BY <1>1 DEF PerData
<1>4. counter \in Root + 1 .. MaxId + 1
  BY <1>1, IdFacts, MaxIdNat
<1>5. TypeOK
  <2>1. /\ data \in [Ids -> [Types -> Datum]] /\ told \in [Ids -> [Types -> Datum]]
        /\ history \in [Ids -> [Types -> Seq(Datum)]]
        /\ known \in [Clients -> [Ids -> [Types -> Nat]]]
    BY <1>1, <1>2 DEF PerData
  <2>2. calls \in [Clients -> Call]
    BY <1>1, IdleIsCall
  <2>3. attrs \in [Holders -> AttrLists] /\ stamp \in 0 .. MaxStamp /\ fault \in Faults
    BY <1>1, <1>2, MaxStampNat DEF Faults
  <2> QED
    BY <1>1, <1>4, <2>1, <2>2, <2>3 DEF TypeOK, KnownIds
<1>6. HoldsTheLast /\ SeenIsThere /\ told = data
  BY <1>1, <1>3 DEF HoldsTheLast, SeenIsThere, At, PerData
<1>7. \A c \in Clients : calls[c].pc = "idle" /\ calls[c].at = 0
  BY <1>1 DEF Idle
<1>8. \A c \in Clients : WroteIsThere(calls[c]) /\ CreatesByName(calls[c])
  BY <1>7 DEF WroteIsThere, CreatesByName
<1>9. GetsGoForward
  BY <1>7 DEF GetsGoForward, WholeGet
<1> QED
  BY <1>5, <1>6, <1>8, <1>9 DEF IInv

\* Nothing changes when nothing happens.
LEMMA StutterInv ==
  ASSUME IInv, UNCHANGED vars
  PROVE  IInv'
BY DEF IInv, TypeOK, KnownIds, HoldsTheLast, SeenIsThere, GetsGoForward, WholeGet, Agreeing, At,
       WroteIsThere, CreatesByName, vars, names, contents

\* Every step of every client keeps the invariant.
LEMMA StepInv ==
  ASSUME IInv, [Next]_vars
  PROVE  IInv'
BY RequestInv, HandleInv, ReturnInv, StutterInv DEF Next

\* Whatever clients call, in whatever order their calls overlap: the invariant of data and
\* events holds in every state.
THEOREM Invariance == Spec => []IInv
<1>1. Init => IInv
  BY InitInv
<1>2. IInv /\ [Next]_vars => IInv'
  BY StepInv
<1> QED
  BY <1>1, <1>2, PTL DEF Spec

\* Every variable keeps its type.
THEOREM TypeCorrect == Spec => []TypeOK
<1>1. IInv => TypeOK
  BY DEF IInv
<1> QED
  BY <1>1, Invariance, PTL

\* Whoever keeps the data of the last event of each type has what a get would answer.
THEOREM EventsCarryData == Spec => []SubscribersHaveTheData
<1>1. IInv => SubscribersHaveTheData
  BY DEF IInv, SubscribersHaveTheData
<1> QED
  BY <1>1, Invariance, PTL

\* No answer to a client is older than what the client has seen of the same entity and type.
THEOREM AnswersGoForward == Spec => []GetsGoForward
<1>1. IInv => GetsGoForward
  BY DEF IInv
<1> QED
  BY <1>1, Invariance, PTL

\* A request with the id of an entity that is gone fails and changes nothing.
LEMMA StaleHandled ==
  ASSUME IInv, NEW c \in Clients, Handle(c), calls'[c].pc = "answered",
         calls[c].on \in Ids \ live
  PROVE  calls'[c].status = -1 /\ UNCHANGED <<names, contents>>
<1> DEFINE call == calls[c]
           e == Target(call)
<1>1. TypeOK /\ call \in Call /\ calls \in [Clients -> Call]
  BY DEF IInv, TypeOK
<1>2. e = Null /\ call.on # Null /\ counter # Null /\ call.on \notin {Domain, Root}
  BY <1>1, TargetFacts, IdFacts, MaxIdNat DEF TypeOK
<1>3. call.pc = "sent"
  BY DEF Handle, HandleCreate, AnswerData, StoreData, AnswerAttributes, StoreAttributes,
         ObjectAttributes, HandleRemove, Served
<1>4. ASSUME NEW why, Crash(why) PROVE FALSE
  BY <1>3, <1>4 DEF Crash
<1>5. Made(e) => UNCHANGED names
  BY <1>2 DEF Made
<1>6. CASE HandleCreate(c)
  BY <1>2, <1>6 DEF HandleCreate, Served, IInv, CreatesByName
<1>7. CASE AnswerData(c)
  <2>1. /\ Made(e) /\ UNCHANGED contents
        /\ \E back : calls' = [calls EXCEPT ![c] = [Reply(call) EXCEPT !.status = -1, !.hit = e,
                                                                       !.back = back]]
    BY <1>2, <1>4, <1>7 DEF AnswerData
  <2>2. calls'[c].status = -1
    BY <1>1, <2>1 DEF Reply, Idle
  <2> QED
    BY <1>5, <2>1, <2>2
<1>8. CASE StoreData(c)
  <2>1. Made(e) /\ Answer(c, -1, Null, 0) /\ UNCHANGED contents
    BY <1>2, <1>8 DEF StoreData
  <2>2. calls'[c].status = -1
    BY <1>1, <2>1 DEF Answer, Reply, Idle
  <2> QED
    BY <1>5, <2>1, <2>2
<1>9. CASE AnswerAttributes(c)
  <2>1. /\ Made(e) /\ UNCHANGED contents
        /\ calls' = [calls EXCEPT ![c] = [Reply(call) EXCEPT !.status = -1, !.hit = e,
                                                             !.list = NoAttrs]]
    BY <1>2, <1>9 DEF AnswerAttributes
  <2>2. calls'[c].status = -1
    BY <1>1, <2>1 DEF Reply, Idle
  <2> QED
    BY <1>5, <2>1, <2>2
<1>10. CASE StoreAttributes(c)
  <2>1. Made(e) /\ Answer(c, -1, e, 0) /\ UNCHANGED <<attrs, data, told, history>>
    BY <1>2, <1>10 DEF StoreAttributes
  <2>2. calls'[c].status = -1
    BY <1>1, <2>1 DEF Answer, Reply, Idle
  <2> QED
    BY <1>5, <2>1, <2>2 DEF contents
<1>11. CASE ObjectAttributes(c)
  BY <1>2, <1>11 DEF ObjectAttributes, OnEntity
<1>12. CASE HandleRemove(c)
  BY <1>2, <1>4, <1>12 DEF HandleRemove
<1> QED
  BY <1>6, <1>7, <1>8, <1>9, <1>10, <1>11, <1>12 DEF Handle

\* Ids outlive entities; with one that did, a client gets -1 and changes nothing, not even the
\* entity that has the name now.
THEOREM StaleIds == Spec => StaleIdsTouchNothing
<1>1. IInv /\ [Next]_vars =>
        [\A c \in Clients :
           calls[c].pc = "sent" /\ calls'[c].pc = "answered"
           /\ calls[c].on \in Ids \ live
           => calls'[c].status = -1 /\ UNCHANGED <<names, contents>>]_vars
  <2> SUFFICES ASSUME IInv, Next, NEW d \in Clients,
                      calls[d].pc = "sent", calls'[d].pc = "answered", calls[d].on \in Ids \ live
               PROVE  calls'[d].status = -1 /\ UNCHANGED <<names, contents>>
    OBVIOUS
  <2>1. PICK c \in Clients : Request(c) \/ Handle(c) \/ Return(c)
    BY DEF Next
  <2>2. calls \in [Clients -> Call] /\ TypeOK
    BY DEF IInv, TypeOK
  <2>3. ~Request(c)
    <3>1. ASSUME Request(c) PROVE FALSE
      <4>1. PICK call : /\ calls[c].pc = "idle"
                        /\ calls' = [calls EXCEPT ![c] = [call EXCEPT !.pc = "sent"]]
        BY <2>2, <3>1, RequestSends DEF Sends
      <4>2. calls'[d] = calls[d]
        BY <2>2, <4>1
      <4> QED
        BY <4>2
    <3> QED
      BY <3>1
  <2>4. ~Return(c)
    <3>1. ASSUME Return(c) PROVE FALSE
      <4>1. PICK r : calls[c].pc = "answered" /\ calls' = [calls EXCEPT ![c] = r]
        BY <3>1 DEF Return
      <4>2. calls'[d] = calls[d]
        BY <2>2, <4>1
      <4> QED
        BY <4>2
    <3> QED
      BY <3>1
  <2>5. Handle(c) /\ c = d
    <3>1. Handle(c) /\ Handles(c)
      BY <2>1, <2>3, <2>4, HandleKept
    <3>2. c # d => calls'[d] = calls[d]
      BY <2>2, <3>1 DEF Handles, Answers
    <3> QED
      BY <3>1, <3>2
  <2> QED
    BY <2>5, StaleHandled
<1> QED
  BY <1>1, Invariance, PTL DEF Spec, StaleIdsTouchNothing

Changes(o, a) == attrs'[o][a] # attrs[o][a]
AttrsTyped == attrs \in [Holders -> AttrLists]
Merges(e, sent) == attrs' = [attrs EXCEPT ![e] = Merge(attrs[e], sent)]
Sets(o, a, e, sent) == o = e /\ attrs'[o][a] = sent[a] /\ attrs'[o][a] # 0

\* Merging changes an attribute only to one that was sent.
LEMMA MergeSends ==
  ASSUME NEW e \in Holders, NEW sent \in AttrLists, AttrsTyped, Merges(e, sent),
         NEW o \in Holders, NEW a \in Atoms, Changes(o, a)
  PROVE  Sets(o, a, e, sent)
BY DEF AttrsTyped, Changes, Merges, Sets, Merge, AttrLists

\* A handler changes an attribute only to one that was sent, on the object it was sent for.
LEMMA AttributesHandled ==
  ASSUME IInv, NEW c \in Clients, Handle(c),
         NEW o \in live' \cup {Domain, Root}, NEW a \in Atoms, attrs'[o][a] # attrs[o][a]
  PROVE  /\ calls[c].pc = "sent" /\ calls'[c].pc = "answered"
         /\ attrs'[o][a] = calls[c].attrs[a] /\ attrs'[o][a] # 0
         /\ o \in {calls[c].on, calls'[c].hit}
<1> DEFINE call == calls[c]
           e == Target(call)
<1>1. /\ TypeOK /\ TypeOK' /\ call \in Call /\ calls \in [Clients -> Call]
      /\ attrs \in [Holders -> AttrLists] /\ call.attrs \in AttrLists
  <2>1. IInv'
    BY StepInv DEF Next
  <2> QED
    BY <2>1 DEF IInv, TypeOK, Call
<1>2. o \in Holders /\ Changes(o, a) /\ AttrsTyped
  BY <1>1, IdFacts DEF TypeOK, KnownIds, Changes, AttrsTyped
<1>3. /\ e \in live \cup {counter, Null} /\ Null \notin Holders
      /\ {Domain, Root} \subseteq Holders
  BY <1>1, TargetFacts, IdFacts
<1>4. ASSUME UNCHANGED attrs PROVE FALSE
  BY <1>4
<1>5. ASSUME NEW why, Crash(why) PROVE FALSE
  BY <1>4, <1>5 DEF Crash, contents
<1>6. ASSUME NEW status, NEW hit, NEW at, Answer(c, status, hit, at)
      PROVE  calls'[c].pc = "answered" /\ calls'[c].hit = hit
  BY <1>1, <1>6 DEF Answer, Reply, Idle
<1>7. call.pc = "sent"
  BY DEF Handle, HandleCreate, AnswerData, StoreData, AnswerAttributes, StoreAttributes,
         ObjectAttributes, HandleRemove, Served
<1>8. CASE HandleCreate(c)
  <2>1. /\ Made(e) /\ attrs' = [attrs EXCEPT ![e] = Merge(attrs[e], call.attrs)]
        /\ \E at : Answer(c, 1, e, at)
    BY <1>5, <1>8 DEF HandleCreate
  <2>2. e # Null
    BY <1>1, <1>8, TargetFacts DEF HandleCreate, Served, IInv, CreatesByName
  <2>3. e \in Holders
    BY <1>1, <1>3, <2>1, <2>2, MadeFacts, IdFacts
  <2>4. calls'[c].pc = "answered" /\ calls'[c].hit = e
    BY <1>6, <2>1
  <2>5. Sets(o, a, e, call.attrs)
    <3>1. PICK x \in Holders, sent \in AttrLists : x = e /\ sent = call.attrs
      BY <1>1, <2>3
    <3>2. Merges(x, sent)
      BY <3>1, <2>1 DEF Merges
    <3>3. Sets(o, a, x, sent)
      BY <3>2, <1>2, MergeSends
    <3> QED
      BY <3>1, <3>3 DEF Sets
  <2> QED
    BY <1>7, <2>4, <2>5 DEF Sets
<1>9. CASE StoreAttributes(c)
  <2>1. /\ Made(e) /\ \E status, at : Answer(c, status, e, at)
        /\ attrs' = IF e = Null THEN attrs ELSE [attrs EXCEPT ![e] = Merge(attrs[e], call.attrs)]
    BY <1>9 DEF StoreAttributes
  <2>2. e # Null
    BY <1>4, <2>1
  <2>3. e \in Holders
    BY <1>1, <1>3, <2>1, <2>2, MadeFacts, IdFacts
  <2>4. calls'[c].pc = "answered" /\ calls'[c].hit = e
    BY <1>6, <2>1
  <2>5. Sets(o, a, e, call.attrs)
    <3>1. PICK x \in Holders, sent \in AttrLists : x = e /\ sent = call.attrs
      BY <1>1, <2>3
    <3>2. Merges(x, sent)
      BY <3>1, <2>1, <2>2 DEF Merges
    <3>3. Sets(o, a, x, sent)
      BY <3>2, <1>2, MergeSends
    <3> QED
      BY <3>1, <3>3 DEF Sets
  <2> QED
    BY <1>7, <2>4, <2>5 DEF Sets
<1>10. CASE ObjectAttributes(c)
  <2>1. /\ attrs' = [attrs EXCEPT ![call.on] = Merge(attrs[call.on], call.attrs)]
        /\ \E status : Answer(c, status, Null, 0)
        /\ call.on \in {Domain, Root}
    BY <1>5, <1>10 DEF ObjectAttributes, OnEntity
  <2>2. calls'[c].pc = "answered"
    BY <1>6, <2>1
  <2>3. Sets(o, a, call.on, call.attrs)
    <3>1. PICK x \in Holders, sent \in AttrLists : x = call.on /\ sent = call.attrs
      BY <1>1, <1>3, <2>1
    <3>2. Merges(x, sent)
      BY <3>1, <2>1 DEF Merges
    <3>3. Sets(o, a, x, sent)
      BY <3>2, <1>2, MergeSends
    <3> QED
      BY <3>1, <3>3 DEF Sets
  <2> QED
    BY <1>7, <2>2, <2>3 DEF Sets
<1>11. CASE HandleRemove(c)
  <2>1. /\ live' = live \ {call.on} /\ call.on \in live
        /\ attrs' = [attrs EXCEPT ![call.on] = NoAttrs]
    BY <1>4, <1>5, <1>11 DEF HandleRemove, contents
  <2>2. call.on \in Ids /\ o # call.on
    BY <1>1, <2>1, IdFacts DEF TypeOK, KnownIds
  <2> QED
    BY <1>1, <1>2, <2>1, <2>2
<1>12. CASE AnswerData(c) \/ StoreData(c) \/ AnswerAttributes(c)
  BY <1>4, <1>5, <1>12 DEF AnswerData, StoreData, AnswerAttributes, contents
<1> QED
  BY <1>8, <1>9, <1>10, <1>11, <1>12 DEF Handle

\* Nothing but a set or a creation changes an attribute, and only to what was sent for it on the
\* object the request was for, found by its id or by the name.
THEOREM AttributesKept == Spec => AttributesStay
<1>1. IInv /\ [Next]_vars =>
        [\A o \in live' \cup {Domain, Root}, a \in Atoms :
           attrs'[o][a] # attrs[o][a] =>
             \E c \in Clients :
               /\ calls[c].pc = "sent" /\ calls'[c].pc = "answered"
               /\ attrs'[o][a] = calls[c].attrs[a] /\ attrs'[o][a] # 0
               /\ o \in {calls[c].on, calls'[c].hit}]_vars
  <2> SUFFICES ASSUME IInv, Next, NEW o \in live' \cup {Domain, Root}, NEW a \in Atoms,
                      attrs'[o][a] # attrs[o][a]
               PROVE  \E c \in Clients :
                        /\ calls[c].pc = "sent" /\ calls'[c].pc = "answered"
                        /\ attrs'[o][a] = calls[c].attrs[a] /\ attrs'[o][a] # 0
                        /\ o \in {calls[c].on, calls'[c].hit}
    OBVIOUS
  <2>1. PICK c \in Clients : Request(c) \/ Handle(c) \/ Return(c)
    BY DEF Next
  <2>2. Request(c) => UNCHANGED attrs
    BY RequestSends DEF Sends, contents, IInv
  <2>3. Return(c) => UNCHANGED attrs
    BY DEF Return, contents
  <2>4. Handle(c)
    BY <2>1, <2>2, <2>3
  <2> QED
    BY <2>4, AttributesHandled
<1> QED
  BY <1>1, Invariance, PTL DEF Spec, AttributesStay
=============================================================================
