--------------------------- MODULE Subscriptions ---------------------------
(***************************************************************************)
(* What a client may expect of the changes it registers for, if it knows   *)
(* nothing of stones, handlers and buckets.  A subscription is to a        *)
(* channel.  It is owed what concerns the channel from the grant on, and   *)
(* what the channel gathers at that time.  It gets what it is owed, the    *)
(* oldest first, one event or a bucket full at once; too early for the     *)
(* client's handler or not.  Only what a channel gathers is ever lost: the *)
(* latest events, fewer than a bucket, and the same ones for all.          *)
(*                                                                         *)
(* EventChannels implements this.                                          *)
(***************************************************************************)
EXTENDS Integers, Sequences, FiniteSets

CONSTANTS Sinks, Channels, Events, None,
          Concerned,  \* the channels each event concerns
          Ended,      \* those that end with it
          Lasting,    \* those that are not ended when the service is, and go silent
          Bucket

VARIABLES up,         \* the service is there
          log,        \* events, in the order they were sent
          channel,    \* the channel of each subscription; None before the grant
          open,       \* subscriptions whose channel has not ended
          listening,  \* those whose client has its handler in place
          owed,       \* events still to reach each client
          heard,      \* those that reached its handler
          missed      \* those that came before the handler

vars == <<up, log, channel, open, listening, owed, heard, missed>>

Concerning(c) == {n \in DOMAIN log : c \in Concerned[log[n]]}

\* X are the latest of Y, or the oldest.
Latest(X, Y) == \A x \in X, y \in Y \ X : y < x
Oldest(X, Y) == \A x \in X, y \in Y \ X : x < y

\* What a channel may be gathering.
Gathers(c, X) ==
  X \subseteq Concerning(c) /\ Latest(X, Concerning(c)) /\ Cardinality(X) < Bucket

\* The channels of K lose what they gather, those of L are sent the event n.
Owe(K, L, n) ==
  /\ owed' \in [Sinks -> SUBSET Nat]
  /\ \A s \in Sinks \ open : owed'[s] = owed[s]
  /\ \A c \in Channels : \E X \in SUBSET Concerning(c) :
       /\ Gathers(c, X) /\ (c \notin K => X = {})
       /\ \A s \in open : channel[s] = c =>
            owed'[s] = (owed[s] \ X) \cup (IF c \in L THEN {n} ELSE {})

On(K) == {s \in open : channel[s] \in K}

Grant(s, c) ==
  /\ up /\ channel[s] = None
  /\ channel' = [channel EXCEPT ![s] = c] /\ open' = open \cup {s}
  /\ \E X \in SUBSET Concerning(c) : Gathers(c, X) /\ owed' = [owed EXCEPT ![s] = X]
  /\ UNCHANGED <<up, log, listening, heard, missed>>

Send(e) ==
  /\ up
  /\ log' = Append(log, e) /\ open' = open \ On(Ended[e])
  /\ Owe(Ended[e], Concerned[e], Len(log) + 1)
  /\ UNCHANGED <<up, channel, listening, heard, missed>>

\* Gathering begins, or begins anew.
Gather(c) ==
  /\ up
  /\ Owe({c}, {}, 0)
  /\ UNCHANGED <<up, log, channel, open, listening, heard, missed>>

Stop ==
  /\ up /\ up' = FALSE
  /\ open' = open \ On(Channels \ Lasting)
  /\ Owe(Channels \ Lasting, {}, 0)
  /\ UNCHANGED <<log, channel, listening, heard, missed>>

Listen(s) ==
  /\ channel[s] # None
  /\ listening' = listening \cup {s}
  /\ UNCHANGED <<up, log, channel, open, owed, heard, missed>>

Arrive(s, B) ==
  /\ Oldest(B, owed[s]) /\ Cardinality(B) \in {1, Bucket}
  /\ owed' = [owed EXCEPT ![s] = @ \ B]
  /\ IF s \in listening
     THEN heard' = [heard EXCEPT ![s] = @ \cup B] /\ UNCHANGED missed
     ELSE missed' = [missed EXCEPT ![s] = @ \cup B] /\ UNCHANGED heard
  /\ UNCHANGED <<up, log, channel, open, listening>>

Init ==
  /\ up = TRUE /\ log = <<>> /\ channel = [s \in Sinks |-> None]
  /\ open = {} /\ listening = {}
  /\ owed = [s \in Sinks |-> {}]
  /\ heard = [s \in Sinks |-> {}] /\ missed = [s \in Sinks |-> {}]

Next ==
  \/ \E s \in Sinks : \/ \E c \in Channels : Grant(s, c)
                      \/ Listen(s)
                      \/ \E B \in SUBSET owed[s] : Arrive(s, B)
  \/ \E e \in Events : Send(e)
  \/ \E c \in Channels : Gather(c)
  \/ Stop

Spec == Init /\ [][Next]_vars
=============================================================================
