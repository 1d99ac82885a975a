---------------------------- MODULE KeyHashTable ----------------------------
(***************************************************************************)
(* RTPKeyHashTable: the lists of RTPHashTable over the keys, and in each   *)
(* node an element beside its key.  The participant table, the receive     *)
(* filter and the TCP transmitter use this one.                            *)
(***************************************************************************)
EXTENDS HashTable

CONSTANT Value

VARIABLE element   \* of the node of a key

keyhashvars == <<hashvars, element>>

KeyHashInit == HashInit /\ element = NoLinks

KeyAddElementOver(k, v) ==
  AddElement(k) /\ element' = [element EXCEPT ![k] = v]

(* A key that is there keeps the element it has.                           *)
KeyAddElement(k, v) ==
  /\ AddElement(k)
  /\ element' = IF InBucket(k) THEN element ELSE [element EXCEPT ![k] = v]

KeyDeleteCurrentElement ==
  DeleteCurrentElement /\ element' = Freed(element, curhashelem)

KeyDeleteElement(k) == DeleteElement(k) /\ element' = Freed(element, k)

KeyClear == ClearTable /\ element' = NoLinks

KeyGotoElement(k) == GotoElement(k) /\ UNCHANGED element
KeyHasElement(k) == HasElement(k) /\ UNCHANGED element

KeyMove ==
  /\ \/ GotoFirstElement \/ GotoLastElement
     \/ GotoNextElement \/ GotoPreviousElement
  /\ UNCHANGED element

KeyHashNext ==
  \/ \E k \in Key : \/ \E v \in Value : KeyAddElement(k, v)
                    \/ KeyGotoElement(k) \/ KeyHasElement(k)
                    \/ KeyDeleteElement(k)
  \/ KeyDeleteCurrentElement \/ KeyClear \/ KeyMove

KeyHashSpec == KeyHashInit /\ [][KeyHashNext]_keyhashvars

-----------------------------------------------------------------------------

(* The table is a list of keys in the order of their adding, with a place  *)
(* in it: links in two directions and two lists tell of the same keys, and *)
(* a walk survives the deletion of what it stands on.                      *)
Order ==
  INSTANCE OrderedTable
    WITH keys <- Nodes(firsthashelem, listnext), content <- element,
         place <- curhashelem, found <- answer
KeepsOrder == Order!Spec
=============================================================================
