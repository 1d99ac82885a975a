--------------------------- MODULE MessageChannel ---------------------------
(***************************************************************************)
(* What connections that carry messages promise: on each, messages come    *)
(* out whole, in the order in which they were sent, none twice and none    *)
(* left out; the last ones may be missing when a connection ends.          *)
(***************************************************************************)
EXTENDS Naturals, Sequences

CONSTANTS Connection, Message

VARIABLES sent, delivered

Quiet == [c \in Connection |-> <<>>]

Init == sent = Quiet /\ delivered = Quiet

Send(c) ==
  /\ \E m \in Message : sent' = [sent EXCEPT ![c] = Append(@, m)]
  /\ UNCHANGED delivered

Deliver(c) ==
  /\ Len(delivered[c]) < Len(sent[c])
  /\ delivered' = [delivered EXCEPT
                     ![c] = Append(@, sent[c][Len(@) + 1])]
  /\ UNCHANGED sent

(* New connections take the place of old ones.                             *)
Reconnect(S) ==
  /\ sent' = [c \in Connection |-> IF c \in S THEN <<>> ELSE sent[c]]
  /\ delivered' = [c \in Connection |->
                     IF c \in S THEN <<>> ELSE delivered[c]]

Next ==
  \/ \E S \in SUBSET Connection : Reconnect(S)
  \/ \E c \in Connection : Send(c) \/ Deliver(c)

Spec == Init /\ [][Next]_<<sent, delivered>>
=============================================================================
