---------------------------- MODULE OrderedTable ----------------------------
(***************************************************************************)
(* What the hash tables promise: keys in the order in which they were      *)
(* added, each once and with the element it was added with, and a place in *)
(* that order, from which a walk goes on after its element is deleted.     *)
(***************************************************************************)
EXTENDS Naturals, Sequences

CONSTANTS Key, Value, Null, Dangling

VARIABLES keys, content, place, found

Init ==
  /\ keys = <<>> /\ content = [k \in Key |-> Null]
  /\ place = Dangling /\ found = FALSE

Pos(k) == CHOOSE i \in DOMAIN keys : keys[i] = k
At(i) == IF i \in DOMAIN keys THEN keys[i] ELSE Null

Answer(k) == found' = (\E i \in DOMAIN keys : keys[i] = k)

Add(k, v) ==
  /\ Answer(k)
  /\ keys' = IF found' THEN keys ELSE Append(keys, k)
  /\ content' = IF found' THEN content ELSE [content EXCEPT ![k] = v]
  /\ UNCHANGED place

Lookup(k) == Answer(k) /\ UNCHANGED <<keys, content, place>>

Goto(k) ==
  /\ Answer(k)
  /\ place' = IF found' THEN k ELSE Null
  /\ UNCHANGED <<keys, content>>

Move(k) == place' = k /\ UNCHANGED <<keys, content, found>>

Take(k) ==
  /\ keys' = [i \in 1 .. Len(keys) - 1 |->
                IF i < Pos(k) THEN keys[i] ELSE keys[i + 1]]
  /\ content' = [content EXCEPT ![k] = Null]
  /\ place' = At(Pos(k) + 1)

Clear ==
  /\ keys' = <<>> /\ content' = [k \in Key |-> Null] /\ UNCHANGED found
  /\ place' = IF place = Null THEN Null ELSE Dangling

Next ==
  \/ Move(At(1)) \/ Move(At(Len(keys)))
  \/ \E k \in Key : Lookup(k) \/ Goto(k) \/ \E v \in Value : Add(k, v)
  \/ /\ place \in Key
     /\ Move(At(Pos(place) + 1)) \/ Move(At(Pos(place) - 1))
  \/ place \in Key /\ Take(place) /\ UNCHANGED found
  \/ \E k \in Key : Answer(k) /\ found' /\ Take(k)
  \/ Clear

Spec == Init /\ [][Next]_<<keys, content, place, found>>
=============================================================================
