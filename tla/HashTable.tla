------------------------------ MODULE HashTable ------------------------------
(***************************************************************************)
(* RTPHashTable: each element is linked twice, into the list of its bucket *)
(* and into the list of all elements, and a cursor walks the second.  An   *)
(* element is the node of its key: a key has one node at most.             *)
(***************************************************************************)
EXTENDS Naturals, Sequences, FiniteSets

CONSTANTS
  Key,
  Bucket,
  GetIndex(_),  \* the bucket of a key
  Null, Dangling

ASSUME IndexAssumption ==
  /\ IsFiniteSet(Key) /\ Null \notin Key /\ Dangling \notin Key \cup {Null}
  /\ \A k \in Key : GetIndex(k) \in Bucket

VARIABLES
  table,                \* the first node of each bucket
  hashprev, hashnext,   \* links of the bucket lists
  listprev, listnext,   \* links of the list of all
  firsthashelem, lasthashelem,
  curhashelem,          \* Dangling: not set yet, or its node was freed
  answer                \* of the last lookup

links == <<table, hashprev, hashnext, listprev, listnext, firsthashelem,
           lasthashelem>>
hashvars == <<links, curhashelem, answer>>

NoLinks == [k \in Key |-> Null]
HashInit ==
  /\ table = [b \in Bucket |-> Null]
  /\ hashprev = NoLinks /\ hashnext = NoLinks
  /\ listprev = NoLinks /\ listnext = NoLinks
  /\ firsthashelem = Null /\ lasthashelem = Null
  /\ curhashelem = Dangling /\ answer = FALSE

(* The nodes in the order of a list, from one on.                          *)
Nodes(start, next) ==
  LET node[i \in 1 .. Cardinality(Key)] ==
        IF i = 1 THEN start
        ELSE IF node[i - 1] = Null THEN Null ELSE next[node[i - 1]]
      n == Cardinality({i \in 1 .. Cardinality(Key) : node[i] # Null})
  IN  [i \in 1 .. n |-> node[i]]

Reaches(start, next, k) == \E i \in DOMAIN Nodes(start, next) :
                             Nodes(start, next)[i] = k

(* The walk along a bucket that every lookup makes.                        *)
InBucket(k) == Reaches(table[GetIndex(k)], hashnext, k)

-----------------------------------------------------------------------------

(* A link is set only where there is a node, and goes with its node.       *)
Linked(f, node, to) == IF node = Null THEN f ELSE [f EXCEPT ![node] = to]
Freed(f, node) == [f EXCEPT ![node] = Null]

AddElement(k) ==
  LET head == table[GetIndex(k)] IN
  /\ answer' = InBucket(k)
  /\ IF answer' THEN UNCHANGED links
     ELSE /\ table' = [table EXCEPT ![GetIndex(k)] = k]
          /\ hashnext' = [hashnext EXCEPT ![k] = head]
          /\ hashprev' = Linked([hashprev EXCEPT ![k] = Null], head, k)
          /\ listnext' = Linked([listnext EXCEPT ![k] = Null],
                                lasthashelem, k)
          /\ listprev' = [listprev EXCEPT ![k] = lasthashelem]
          /\ firsthashelem' = IF firsthashelem = Null THEN k ELSE firsthashelem
          /\ lasthashelem' = k
  /\ UNCHANGED curhashelem

UnlinkedKeepingLast(k) ==
  /\ table' = IF hashprev[k] = Null
              THEN [table EXCEPT ![GetIndex(k)] = hashnext[k]] ELSE table
  /\ hashnext' = Freed(Linked(hashnext, hashprev[k], hashnext[k]), k)
  /\ hashprev' = Freed(Linked(hashprev, hashnext[k], hashprev[k]), k)
  /\ listnext' = Freed(Linked(listnext, listprev[k], listnext[k]), k)
  /\ listprev' = Freed(Linked(listprev, listnext[k], listprev[k]), k)
  /\ firsthashelem' = IF listprev[k] = Null THEN listnext[k] ELSE firsthashelem
  /\ UNCHANGED lasthashelem

(* A node is taken out of both lists before it is freed.                   *)
Unlinked(k) ==
  /\ table' = IF hashprev[k] = Null
              THEN [table EXCEPT ![GetIndex(k)] = hashnext[k]] ELSE table
  /\ hashnext' = Freed(Linked(hashnext, hashprev[k], hashnext[k]), k)
  /\ hashprev' = Freed(Linked(hashprev, hashnext[k], hashprev[k]), k)
  /\ listnext' = Freed(Linked(listnext, listprev[k], listnext[k]), k)
  /\ listprev' = Freed(Linked(listprev, listnext[k], listprev[k]), k)
  /\ firsthashelem' = IF listprev[k] = Null THEN listnext[k] ELSE firsthashelem
  /\ lasthashelem' = IF listnext[k] = Null THEN listprev[k] ELSE lasthashelem

DeleteCurrentElement ==
  /\ curhashelem \in Key
  /\ Unlinked(curhashelem)
  /\ curhashelem' = listnext[curhashelem]
  /\ UNCHANGED answer

GotoElement(k) ==
  /\ answer' = InBucket(k)
  /\ curhashelem' = IF answer' THEN k ELSE Null
  /\ UNCHANGED links

HasElement(k) == answer' = InBucket(k) /\ UNCHANGED <<links, curhashelem>>

DeleteElement(k) ==
  \/ ~InBucket(k) /\ GotoElement(k)
  \/ /\ InBucket(k) /\ answer' = TRUE
     /\ Unlinked(k) /\ curhashelem' = listnext[k]

MoveTo(node) == curhashelem' = node /\ UNCHANGED <<links, answer>>
GotoFirstElement == MoveTo(firsthashelem)
GotoLastElement == MoveTo(lasthashelem)
GotoNextElement == curhashelem \in Key /\ MoveTo(listnext[curhashelem])
GotoPreviousElement == curhashelem \in Key /\ MoveTo(listprev[curhashelem])

(* Clear frees the nodes and leaves the cursor where it was.               *)
ClearTable ==
  /\ table' = [b \in Bucket |-> Null]
  /\ firsthashelem' = Null /\ lasthashelem' = Null
  /\ hashprev' = NoLinks /\ hashnext' = NoLinks
  /\ listprev' = NoLinks /\ listnext' = NoLinks
  /\ curhashelem' = IF curhashelem = Null THEN Null ELSE Dangling
  /\ UNCHANGED answer

-----------------------------------------------------------------------------

HashTypeOK ==
  /\ table \in [Bucket -> Key \cup {Null}]
  /\ {hashprev, hashnext, listprev, listnext} \subseteq
       [Key -> Key \cup {Null}]
  /\ {firsthashelem, lasthashelem} \subseteq Key \cup {Null}
  /\ curhashelem \in Key \cup {Null, Dangling} /\ answer \in BOOLEAN
=============================================================================
