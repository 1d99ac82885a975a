----------------------------- MODULE WalkProofs -----------------------------
(***************************************************************************)
(* What walks find, written as recursive functions: the walk along the     *)
(* links of a hash table, with the promise that the hash tables keep, and  *)
(* the walks of the RTCP builder over the source table and the SDES items, *)
(* with the schedule that the items keep.                                  *)
(***************************************************************************)
EXTENDS KeyHashTable, RTCPBuilder, FiniteSetTheorems, WellFoundedInduction,
        TLAPS

(* Induction on the natural numbers, for a set of them.                    *)
LEMMA LeastNat ==
  ASSUME NEW T, T \subseteq Nat, T # {}
  PROVE  \E m \in T : \A n \in T : m <= n
<1> DEFINE Lt == {ss \in Nat \X Nat : ss[1] < ss[2]}
<1>1. IsWellFoundedOn(Lt, Nat)
  BY NatLessThanWellFounded DEF OpToRel
<1>2. PICK m \in T : \A n \in T : ~(<<n, m>> \in Lt)
  <2> HIDE DEF Lt
  <2> QED
    BY <1>1, WFMin
<1>3. \A n \in T : ~(n < m)
  BY <1>2
<1>4. QED
  BY <1>3

LEMMA Induction ==
  ASSUME NEW S, 0 \in S, \A n \in Nat : n \in S => n + 1 \in S
  PROVE  Nat \subseteq S
<1>1. SUFFICES ASSUME Nat \ S # {} PROVE FALSE
  OBVIOUS
<1>2. PICK m \in Nat \ S : \A n \in Nat \ S : m <= n
  BY <1>1, LeastNat
<1>3. m # 0 /\ m - 1 \in Nat /\ m - 1 \in S
  BY <1>2
<1>4. QED
  BY <1>2, <1>3

-----------------------------------------------------------------------------
(* The hash tables are what they promise: the nodes on the list of all are *)
(* the keys in the order of their adding, and those on a bucket's list are *)
(* the keys of the bucket.                                                 *)
(*                                                                         *)
(* A walk along links is a recursive function; what it reads is the list   *)
(* that the links make (Chain), by induction on the steps of the walk.     *)

(* Doubly linked lists.  A list is given by its length n and the nodes o   *)
(* in their order; Elem is what a pointer to its i-th node holds.          *)

Elem(n, o, i) == IF i \in 1 .. n THEN o[i] ELSE Null
Members(n, o) == {o[i] : i \in 1 .. n}
Chain(n, o, next, prev) ==
  /\ n \in Nat /\ o \in [1 .. n -> Key]
  /\ \A i, j \in 1 .. n : o[i] = o[j] => i = j
  /\ \A i \in 1 .. n : next[o[i]] = Elem(n, o, i + 1) /\ prev[o[i]] = Elem(n, o, i - 1)

Added(n, o, k) == [i \in 1 .. n + 1 |-> IF i <= n THEN o[i] ELSE k]
Before(n, o, k) == [i \in 1 .. n + 1 |-> IF i = 1 THEN k ELSE o[i - 1]]
Without(n, o, p) == [i \in 1 .. n - 1 |-> IF i < p THEN o[i] ELSE o[i + 1]]

Link == [Key -> Key \cup {Null}]

(* No nodes.                                                               *)
LEMMA ChainEmpty ==
  ASSUME NEW next, NEW prev
  PROVE  Chain(0, <<>>, next, prev) /\ Members(0, <<>>) = {}
         /\ \A i : Elem(0, <<>>, i) = Null
BY DEF Chain, Elem, Members

(* Other nodes' links may change.                                          *)
LEMMA ChainFrame ==
  ASSUME NEW n, NEW o, NEW next, NEW prev, Chain(n, o, next, prev), NEW next2, NEW prev2,
         \A k \in Members(n, o) : next2[k] = next[k] /\ prev2[k] = prev[k]
  PROVE  Chain(n, o, next2, prev2)
<1>1. \A i \in 1 .. n : o[i] \in Members(n, o)
  BY DEF Members
<1>2. QED
  BY <1>1 DEF Chain

(* g are the links f but for that of one node.                             *)
Redirected(f, g, node, to) ==
  g \in Link /\ \A x \in Key : g[x] = IF x = node THEN to ELSE f[x]

RedirectedElsewhere(f, g, k, node, to) ==
  g \in Link /\ \A x \in Key : x # k => g[x] = IF x = node THEN to ELSE f[x]

LEMMA LinkedAt ==
  ASSUME NEW f \in Link, NEW node \in Key \cup {Null}, NEW to \in Key \cup {Null},
         NEW g, g = Linked(f, node, to)
  PROVE  Redirected(f, g, node, to)
BY IndexAssumption DEF Linked, Link, Redirected

LEMMA FreedAt ==
  ASSUME NEW f \in Link, NEW node \in Key, NEW g, g = Freed(f, node)
  PROVE  Redirected(f, g, node, Null)
BY DEF Freed, Link, Redirected

(* A new node at the end, as in the list of all, or at the front, as in a  *)
(* bucket.                                                                 *)
LEMMA ChainAdded ==
  ASSUME NEW n, NEW o, NEW next, NEW prev, Chain(n, o, next, prev),
         NEW k \in Key, k \notin Members(n, o), NEW next2, NEW prev2,
         \A x \in Members(n, o) :
           /\ next2[x] = IF x = Elem(n, o, n) THEN k ELSE next[x]
           /\ prev2[x] = prev[x],
         next2[k] = Null, prev2[k] = Elem(n, o, n)
  PROVE  /\ Chain(n + 1, Added(n, o, k), next2, prev2)
         /\ Members(n + 1, Added(n, o, k)) = Members(n, o) \cup {k}
         /\ Elem(n + 1, Added(n, o, k), n + 1) = k
         /\ Elem(n + 1, Added(n, o, k), 1) = IF n = 0 THEN k ELSE Elem(n, o, 1)
<1> DEFINE a == Added(n, o, k)
<1>1. n \in Nat /\ o \in [1 .. n -> Key] /\ \A i \in 1 .. n : o[i] \in Members(n, o)
  BY DEF Chain, Members
<1>2. a \in [1 .. n + 1 -> Key] /\ a[n + 1] = k /\ \A i \in 1 .. n : a[i] = o[i]
  BY <1>1 DEF Added
<1>3. \A i, j \in 1 .. n + 1 : a[i] = a[j] => i = j
  <2>1. \A i, j \in 1 .. n : a[i] = a[j] => i = j
    BY <1>2 DEF Chain
  <2>2. \A i \in 1 .. n + 1 : i \in 1 .. n \/ i = n + 1
    BY <1>1
  <2>3. \A i \in 1 .. n : a[i] # k
    BY <1>1, <1>2
  <2>4. QED
    BY <1>2, <2>1, <2>2, <2>3
<1> HIDE DEF a
<1>4. \A i \in 1 .. n : Elem(n + 1, a, i - 1) = Elem(n, o, i - 1)
        /\ Elem(n + 1, a, i + 1) = IF i = n THEN k ELSE Elem(n, o, i + 1)
  BY <1>1, <1>2 DEF Elem
<1>5. Elem(n + 1, a, n + 1) = k /\ Elem(n + 1, a, n + 2) = Null
      /\ Elem(n + 1, a, n) = Elem(n, o, n)
      /\ Elem(n + 1, a, 1) = IF n = 0 THEN k ELSE Elem(n, o, 1)
  BY <1>1, <1>2 DEF Elem
<1>6. \A i \in 1 .. n : o[i] = Elem(n, o, n) <=> i = n
  BY <1>1 DEF Chain, Elem
<1>7. \A i \in 1 .. n + 1 : next2[a[i]] = Elem(n + 1, a, i + 1)
                           /\ prev2[a[i]] = Elem(n + 1, a, i - 1)
  <2> TAKE i \in 1 .. n + 1
  <2>1. CASE i \in 1 .. n
    <3>1. next[o[i]] = Elem(n, o, i + 1) /\ prev[o[i]] = Elem(n, o, i - 1)
      BY <2>1 DEF Chain
    <3>2. a[i] = o[i] /\ o[i] \in Members(n, o)
      BY <1>1, <1>2, <2>1
    <3>3. QED
      BY <1>4, <1>6, <2>1, <3>1, <3>2
  <2>2. CASE i = n + 1
    <3>1. i + 1 = n + 2 /\ i - 1 = n
      BY <1>1, <2>2
    <3>2. QED
      BY <1>2, <1>5, <2>2, <3>1
  <2>3. QED
    BY <1>1, <2>1, <2>2
<1>8. Members(n + 1, a) = Members(n, o) \cup {k}
  <2>1. \A i \in 1 .. n + 1 : i \in 1 .. n \/ i = n + 1
    BY <1>1
  <2>2. n + 1 \in 1 .. n + 1 /\ \A i \in 1 .. n : i \in 1 .. n + 1
    BY <1>1
  <2>3. QED
    BY <1>2, <2>1, <2>2 DEF Members
<1>9. QED
  BY <1>1, <1>2, <1>3, <1>5, <1>7, <1>8 DEF Chain, a

LEMMA ChainBefore ==
  ASSUME NEW n, NEW o, NEW next, NEW prev, Chain(n, o, next, prev),
         NEW k \in Key, k \notin Members(n, o), NEW next2, NEW prev2,
         \A x \in Members(n, o) :
           /\ next2[x] = next[x]
           /\ prev2[x] = IF x = Elem(n, o, 1) THEN k ELSE prev[x],
         next2[k] = Elem(n, o, 1), prev2[k] = Null
  PROVE  /\ Chain(n + 1, Before(n, o, k), next2, prev2)
         /\ Members(n + 1, Before(n, o, k)) = Members(n, o) \cup {k}
         /\ Elem(n + 1, Before(n, o, k), 1) = k
<1> DEFINE a == Before(n, o, k)
<1>1. n \in Nat /\ o \in [1 .. n -> Key] /\ \A i \in 1 .. n : o[i] \in Members(n, o)
  BY DEF Chain, Members
<1>2. a \in [1 .. n + 1 -> Key] /\ a[1] = k /\ \A i \in 1 .. n : a[i + 1] = o[i]
  BY <1>1 DEF Before
<1>0. \A i \in 1 .. n + 1 : i = 1 \/ (i - 1 \in 1 .. n /\ (i - 1) + 1 = i)
  BY <1>1
<1>3. \A i, j \in 1 .. n + 1 : a[i] = a[j] => i = j
  <2>1. \A i, j \in 1 .. n : a[i + 1] = a[j + 1] => i = j
    BY <1>2 DEF Chain
  <2>3. \A i \in 1 .. n : a[i + 1] # k
    BY <1>1, <1>2
  <2> HIDE DEF a
  <2> SUFFICES ASSUME NEW i \in 1 .. n + 1, NEW j \in 1 .. n + 1, a[i] = a[j]
               PROVE  i = j
    OBVIOUS
  <2>4. CASE i = 1 \/ j = 1
    BY <1>0, <1>2, <2>3, <2>4
  <2>5. CASE i # 1 /\ j # 1
    BY <1>0, <2>1, <2>5
  <2>6. QED
    BY <2>4, <2>5
<1> HIDE DEF a
<1>4. \A i \in 1 .. n : Elem(n + 1, a, i + 2) = Elem(n, o, i + 1)
        /\ Elem(n + 1, a, i) = IF i = 1 THEN k ELSE Elem(n, o, i - 1)
  <2> TAKE i \in 1 .. n
  <2>1. i + 2 \in 1 .. n + 1 => i + 1 \in 1 .. n /\ i + 2 = (i + 1) + 1
    BY <1>1
  <2>2. i + 1 \in 1 .. n => i + 2 \in 1 .. n + 1
    BY <1>1
  <2>3. i # 1 => i - 1 \in 1 .. n /\ i = (i - 1) + 1
    BY <1>1
  <2>4. i \in 1 .. n + 1
    BY <1>1
  <2>5. QED
    BY <1>2, <2>1, <2>2, <2>3, <2>4 DEF Elem
<1>5. Elem(n + 1, a, 1) = k /\ Elem(n + 1, a, 0) = Null
      /\ Elem(n + 1, a, 2) = Elem(n, o, 1)
  <2>1. 2 \in 1 .. n + 1 <=> 1 \in 1 .. n
    BY <1>1
  <2>2. 1 \in 1 .. n => a[2] = o[1]
    BY <1>2
  <2>3. 1 \in 1 .. n + 1 /\ ~(0 \in 1 .. n + 1)
    BY <1>1
  <2>4. QED
    BY <1>2, <2>1, <2>2, <2>3 DEF Elem
<1>6. \A i \in 1 .. n : o[i] = Elem(n, o, 1) <=> i = 1
  BY <1>1 DEF Chain, Elem
<1>7. \A i \in 1 .. n + 1 : next2[a[i]] = Elem(n + 1, a, i + 1)
                           /\ prev2[a[i]] = Elem(n + 1, a, i - 1)
  <2> TAKE i \in 1 .. n + 1
  <2>1. CASE i # 1
    <3>1. PICK h \in 1 .. n : i = h + 1
      BY <1>0, <2>1
    <3>2. next[o[h]] = Elem(n, o, h + 1) /\ prev[o[h]] = Elem(n, o, h - 1)
      BY DEF Chain
    <3>3. a[i] = o[h] /\ o[h] \in Members(n, o)
      BY <1>1, <1>2, <3>1
    <3>4. i + 1 = h + 2 /\ i - 1 = h
      BY <3>1
    <3>5. QED
      BY <1>4, <1>6, <3>2, <3>3, <3>4
  <2>2. CASE i = 1
    <3>1. i + 1 = 2 /\ i - 1 = 0
      BY <2>2
    <3>2. QED
      BY <1>2, <1>5, <2>2, <3>1
  <2>3. QED
    BY <2>1, <2>2
<1>8. Members(n + 1, a) = Members(n, o) \cup {k}
  <2>1. 1 \in 1 .. n + 1 /\ \A i \in 1 .. n : i + 1 \in 1 .. n + 1
    BY <1>1
  <2>2. \A i \in 1 .. n + 1 : a[i] = k \/ \E h \in 1 .. n : a[i] = o[h]
    BY <1>0, <1>2
  <2>3. QED
    BY <1>2, <2>1, <2>2 DEF Members
<1>9. QED
  BY <1>1, <1>2, <1>3, <1>5, <1>7, <1>8 DEF Chain, a

(* A node in the middle or at an end is taken out and its neighbours meet. *)
LEMMA ChainRemoved ==
  ASSUME NEW n, NEW o, NEW next, NEW prev, Chain(n, o, next, prev),
         NEW p \in 1 .. n, NEW next2, NEW prev2,
         \A x \in Members(n, o) \ {o[p]} :
           /\ next2[x] = IF x = prev[o[p]] THEN next[o[p]] ELSE next[x]
           /\ prev2[x] = IF x = next[o[p]] THEN prev[o[p]] ELSE prev[x]
  PROVE  /\ Chain(n - 1, Without(n, o, p), next2, prev2)
         /\ Members(n - 1, Without(n, o, p)) = Members(n, o) \ {o[p]}
         /\ Elem(n - 1, Without(n, o, p), 1) =
              IF prev[o[p]] = Null THEN next[o[p]] ELSE Elem(n, o, 1)
         /\ Elem(n - 1, Without(n, o, p), n - 1) =
              IF next[o[p]] = Null THEN prev[o[p]] ELSE Elem(n, o, n)
<1> DEFINE a == Without(n, o, p)
           place(i) == IF i < p THEN i ELSE i + 1
<1>1. /\ n \in Nat /\ n - 1 \in Nat /\ o \in [1 .. n -> Key] /\ p \in Nat
      /\ \A i \in 1 .. n : o[i] \in Members(n, o) /\ o[i] # Null
      /\ \A i, j \in 1 .. n : o[i] = o[j] => i = j
  BY IndexAssumption DEF Chain, Members
<1>2. \A i \in 1 .. n - 1 : place(i) \in 1 .. n /\ place(i) # p
  BY <1>1
<1>3. \A i \in 1 .. n - 1 : a[i] = o[place(i)]
  BY <1>1 DEF Without
<1>4. \A i, j \in 1 .. n - 1 : place(i) = place(j) => i = j
  BY <1>1
<1>5. \A h \in 1 .. n : h # p => \E i \in 1 .. n - 1 : place(i) = h
  <2> TAKE h \in 1 .. n
  <2> HAVE h # p
  <2>1. CASE h < p
    <3>1. h \in 1 .. n - 1 /\ place(h) = h
      BY <1>1, <2>1
    <3>2. QED
      BY <3>1
  <2>2. CASE h > p
    <3>1. h - 1 \in 1 .. n - 1 /\ place(h - 1) = h
      BY <1>1, <2>2
    <3>2. QED
      BY <3>1
  <2>3. QED
    BY <1>1, <2>1, <2>2
<1>6. a \in [1 .. n - 1 -> Key]
  <2>1. a = [i \in 1 .. n - 1 |-> o[place(i)]]
    BY <1>1 DEF Without
  <2> HIDE DEF a, place
  <2>2. QED
    BY <1>1, <1>2, <2>1
<1>7. \A i, j \in 1 .. n - 1 : a[i] = a[j] => i = j
  <2> HIDE DEF a, place
  <2> QED
    BY <1>1, <1>2, <1>3, <1>4
<1>8. Members(n - 1, a) = Members(n, o) \ {o[p]}
  <2> HIDE DEF a, place
  <2>1. \A i \in 1 .. n - 1 : a[i] \in Members(n, o) \ {o[p]}
    BY <1>1, <1>2, <1>3
  <2>2. \A h \in 1 .. n : o[h] # o[p] => \E i \in 1 .. n - 1 : a[i] = o[h]
    <3> TAKE h \in 1 .. n
    <3> HAVE o[h] # o[p]
    <3>1. PICK i \in 1 .. n - 1 : place(i) = h
      BY <1>5
    <3>2. QED
      BY <1>3, <3>1
  <2>3. QED
    BY <2>1, <2>2 DEF Members
(* What a pointer from the node at h holds once the node at p is gone.     *)
<1>9. \A i \in 0 .. n : Elem(n - 1, a, i) = IF i < p THEN Elem(n, o, i) ELSE Elem(n, o, i + 1)
  <2> TAKE i \in 0 .. n
  <2>1. CASE i \in 1 .. n - 1
    <3>1. i \in 1 .. n /\ i + 1 \in 1 .. n
      BY <1>1, <2>1
    <3>2. QED
      BY <1>3, <2>1, <3>1 DEF Elem
  <2>2. CASE i = 0
    BY <1>1, <2>2 DEF Elem
  <2>3. CASE i = n /\ n # 0
    <3>1. ~(i \in 1 .. n - 1) /\ ~(i + 1 \in 1 .. n) /\ ~(i < p)
      BY <1>1, <2>3
    <3>2. QED
      BY <3>1 DEF Elem
  <2>4. QED
    BY <1>1, <2>1, <2>2, <2>3
<1>10. /\ next[o[p]] = Elem(n, o, p + 1) /\ prev[o[p]] = Elem(n, o, p - 1)
       /\ \A i \in 1 .. n : next[o[i]] = Elem(n, o, i + 1) /\ prev[o[i]] = Elem(n, o, i - 1)
  BY DEF Chain
<1>11. \A h \in 1 .. n : (o[h] = Elem(n, o, p - 1) <=> h = p - 1)
                       /\ (o[h] = Elem(n, o, p + 1) <=> h = p + 1)
  BY <1>1 DEF Elem
<1>12. \A i \in 1 .. n - 1 : next2[a[i]] = Elem(n - 1, a, i + 1)
                            /\ prev2[a[i]] = Elem(n - 1, a, i - 1)
  <2> TAKE i \in 1 .. n - 1
  <2> DEFINE h == place(i)
  <2>1. h \in 1 .. n /\ h # p /\ a[i] = o[h] /\ o[h] \in Members(n, o) \ {o[p]}
    <3> HIDE DEF a, place
    <3> QED
      BY <1>1, <1>2, <1>3
  <2>2. next2[o[h]] = IF h = p - 1 THEN Elem(n, o, p + 1) ELSE Elem(n, o, h + 1)
    <3> HIDE DEF a, h
    <3> QED
      BY <1>10, <1>11, <2>1
  <2>3. prev2[o[h]] = IF h = p + 1 THEN Elem(n, o, p - 1) ELSE Elem(n, o, h - 1)
    <3> HIDE DEF a, h
    <3> QED
      BY <1>10, <1>11, <2>1
  <2>4. Elem(n - 1, a, i + 1) = IF i + 1 < p THEN Elem(n, o, i + 1) ELSE Elem(n, o, i + 2)
    <3>1. i + 1 \in 0 .. n /\ (i + 1) + 1 = i + 2
      BY <1>1
    <3> HIDE DEF a
    <3>2. QED
      BY <1>9, <3>1
  <2>5. Elem(n - 1, a, i - 1) = IF i - 1 < p THEN Elem(n, o, i - 1) ELSE Elem(n, o, i)
    <3>1. i - 1 \in 0 .. n /\ (i - 1) + 1 = i
      BY <1>1
    <3> HIDE DEF a
    <3>2. QED
      BY <1>9, <3>1
  <2>6. next2[o[h]] = IF i + 1 < p THEN Elem(n, o, i + 1) ELSE Elem(n, o, i + 2)
    <3>1. CASE i < p - 1
      BY <1>1, <2>2, <3>1
    <3>2. CASE i = p - 1
      <4>1. h = p - 1 /\ i + 2 = p + 1
        BY <1>1, <3>2
      <4>2. QED
        BY <1>1, <2>2, <3>2, <4>1
    <3>3. CASE i >= p
      <4>1. h = i + 1 /\ h # p - 1 /\ h + 1 = i + 2 /\ ~(i + 1 < p)
        BY <1>1, <3>3
      <4>2. QED
        BY <2>2, <4>1
    <3>4. QED
      BY <1>1, <3>1, <3>2, <3>3
  <2>7. prev2[o[h]] = IF i - 1 < p THEN Elem(n, o, i - 1) ELSE Elem(n, o, i)
    <3>1. CASE i < p
      <4>1. h = i /\ h # p + 1 /\ i - 1 < p
        BY <1>1, <3>1
      <4>2. QED
        BY <2>3, <4>1
    <3>2. CASE i = p
      <4>1. h = p + 1 /\ i - 1 < p /\ i - 1 = p - 1
        BY <1>1, <3>2
      <4>2. QED
        BY <2>3, <4>1
    <3>3. CASE i > p
      <4>1. h = i + 1 /\ h # p + 1 /\ h - 1 = i /\ ~(i - 1 < p)
        BY <1>1, <3>3
      <4>2. QED
        BY <2>3, <4>1
    <3>4. QED
      BY <1>1, <3>1, <3>2, <3>3
  <2>8. QED
    BY <2>1, <2>4, <2>5, <2>6, <2>7
<1>13. Elem(n - 1, a, 1) = IF prev[o[p]] = Null THEN next[o[p]] ELSE Elem(n, o, 1)
  <2>1. prev[o[p]] = Null <=> p = 1
    BY <1>1, <1>10 DEF Elem
  <2>2. 1 \in 0 .. n /\ (p = 1 <=> ~(1 < p))
    BY <1>1
  <2> HIDE DEF a
  <2>3. QED
    BY <1>9, <1>10, <2>1, <2>2
<1>14. Elem(n - 1, a, n - 1) = IF next[o[p]] = Null THEN prev[o[p]] ELSE Elem(n, o, n)
  <2>1. next[o[p]] = Null <=> p = n
    BY <1>1, <1>10 DEF Elem
  <2>2. n - 1 \in 0 .. n /\ (p = n <=> n - 1 < p) /\ (n - 1) + 1 = n
    BY <1>1
  <2> HIDE DEF a
  <2>3. QED
    BY <1>9, <1>10, <2>1, <2>2
<1> HIDE DEF a
<1>15. QED
  BY <1>1, <1>6, <1>7, <1>8, <1>12, <1>13, <1>14 DEF Chain, a

(* A list has no more nodes than there are keys, and Nodes reads it off.   *)
LEMMA ChainLength ==
  ASSUME NEW n, NEW o, NEW next, NEW prev, Chain(n, o, next, prev)
  PROVE  n <= Cardinality(Key) /\ Cardinality(Key) \in Nat
<1>1. n \in Nat /\ o \in Injection(1 .. n, Key)
  <2>1. o \in [1 .. n -> Key] /\ n \in Nat /\ \A i, j \in 1 .. n : o[i] = o[j] => i = j
    BY DEF Chain
  <2>2. IsInjective(o)
    BY <2>1 DEF IsInjective
  <2>3. QED
    BY <2>1, <2>2 DEF Injection
<1>2. Cardinality(1 .. n) <= Cardinality(Key)
  BY <1>1, FS_Injection, IndexAssumption
<1>3. Cardinality(1 .. n) = n
  <2>1. 1 \in Int /\ n \in Int
    BY <1>1
  <2>2. Cardinality(1 .. n) = IF 1 > n THEN 0 ELSE n - 1 + 1
    BY <2>1, FS_Interval
  <2>3. QED
    BY <1>1, <2>2
<1>4. Cardinality(Key) \in Nat
  BY FS_CardinalityType, IndexAssumption
<1>5. QED
  BY <1>2, <1>3, <1>4

LEMMA NodesRead ==
  ASSUME NEW n, NEW o, NEW next, NEW prev, Chain(n, o, next, prev)
  PROVE  Nodes(Elem(n, o, 1), next) = o
<1> DEFINE N == Cardinality(Key)
           start == Elem(n, o, 1)
           Walk(f) == [i \in 1 .. N |-> IF i = 1 THEN start
                                       ELSE IF f[i - 1] = Null THEN Null ELSE next[f[i - 1]]]
           node == CHOOSE f : f = Walk(f)
           w == [i \in 1 .. N |-> Elem(n, o, i)]
<1>1. n \in Nat /\ N \in Nat /\ n <= N /\ o \in [1 .. n -> Key]
      /\ \A i \in 1 .. n : o[i] # Null /\ next[o[i]] = Elem(n, o, i + 1)
  <2>1. n <= Cardinality(Key) /\ Cardinality(Key) \in Nat
    BY ChainLength
  <2>2. /\ n \in Nat /\ o \in [1 .. n -> Key]
        /\ \A i \in 1 .. n : next[o[i]] = Elem(n, o, i + 1)
    BY DEF Chain
  <2>3. QED
    BY <2>1, <2>2, IndexAssumption
<1>2. w = Walk(w)
  <2>1. \A i \in 1 .. N : i # 1 =>
          /\ i - 1 \in 1 .. N
          /\ Elem(n, o, i) = IF Elem(n, o, i - 1) = Null THEN Null ELSE next[Elem(n, o, i - 1)]
    <3> TAKE i \in 1 .. N
    <3> HAVE i # 1
    <3>1. i - 1 \in 1 .. N /\ (i - 1) + 1 = i
      BY <1>1
    <3>2. CASE i - 1 \in 1 .. n
      BY <1>1, <3>1, <3>2 DEF Elem
    <3>3. CASE ~(i - 1 \in 1 .. n)
      <4>1. ~(i \in 1 .. n)
        BY <1>1, <3>1, <3>3
      <4>2. QED
        BY <3>1, <3>3, <4>1 DEF Elem
    <3>4. QED
      BY <3>2, <3>3
  <2> HIDE DEF N
  <2>2. QED
    BY <2>1
<1>3. node = Walk(node)
  <2> HIDE DEF w, Walk
  <2> QED
    BY <1>2
<1>4. \A i \in 1 .. N : node[i] = Elem(n, o, i)
  <2> DEFINE Right == {i \in Nat : i \in 1 .. N => node[i] = w[i]}
  <2>0. \A i \in 1 .. N : /\ node[i] = IF i = 1 THEN start
                                       ELSE IF node[i - 1] = Null THEN Null ELSE next[node[i - 1]]
                          /\ w[i] = IF i = 1 THEN start
                                       ELSE IF w[i - 1] = Null THEN Null ELSE next[w[i - 1]]
    <3> HIDE DEF w, node, N, start
    <3> QED
      BY <1>2, <1>3
  <2> HIDE DEF w, node, N, start
  <2>1. 0 \in Right
    BY <1>1
  <2>2. ASSUME NEW i \in Nat, i \in Right PROVE i + 1 \in Right
    <3>1. CASE i = 0
      BY <2>0, <3>1
    <3>2. CASE i # 0
      <4>1. i + 1 \in 1 .. N => i \in 1 .. N /\ (i + 1) - 1 = i /\ i + 1 # 1
        BY <1>1, <3>2
      <4>2. QED
        BY <2>0, <2>2, <4>1
    <3>3. QED
      BY <3>1, <3>2
  <2> HIDE DEF Right
  <2>3. Nat \subseteq Right
    BY <2>1, <2>2, Induction
  <2>4. \A i \in 1 .. N : node[i] = w[i]
    BY <1>1, <2>3 DEF Right
  <2> USE DEF w
  <2>5. QED
    BY <2>4
<1>5. {i \in 1 .. N : node[i] # Null} = 1 .. n
  <2> HIDE DEF node, N
  <2>1. \A i \in 1 .. N : node[i] # Null <=> i \in 1 .. n
    BY <1>1, <1>4 DEF Elem
  <2>2. \A i \in 1 .. n : i \in 1 .. N
    BY <1>1
  <2>3. QED
    BY <2>1, <2>2
<1>6. Cardinality(1 .. n) = n
  <2>1. 1 \in Int /\ n \in Int
    BY <1>1
  <2>2. Cardinality(1 .. n) = IF 1 > n THEN 0 ELSE n - 1 + 1
    BY <2>1, FS_Interval
  <2>3. QED
    BY <1>1, <2>2
<1>7. Nodes(start, next) = [i \in 1 .. Cardinality({i \in 1 .. N : node[i] # Null}) |-> node[i]]
  BY DEF Nodes
<1>8. [i \in 1 .. n |-> node[i]] = o
  <2> HIDE DEF node, N
  <2>1. \A i \in 1 .. n : i \in 1 .. N /\ Elem(n, o, i) = o[i]
    BY <1>1 DEF Elem
  <2>2. QED
    BY <1>1, <1>4, <2>1
<1> HIDE DEF node, N
<1>9. QED
  BY <1>5, <1>6, <1>7, <1>8

-----------------------------------------------------------------------------
(* The table: o are its n keys in the order of their adding.               *)

BucketsOf(n, o) ==
  \A b \in Bucket : \E m, c :
    /\ Chain(m, c, hashnext, hashprev) /\ table[b] = Elem(m, c, 1)
    /\ Members(m, c) = {k \in Members(n, o) : GetIndex(k) = b}

LinksTyped ==
  /\ table \in [Bucket -> Key \cup {Null}]
  /\ hashprev \in Link /\ hashnext \in Link /\ listprev \in Link /\ listnext \in Link

ListOf(n, o) ==
  /\ Chain(n, o, listnext, listprev)
  /\ firsthashelem = Elem(n, o, 1) /\ lasthashelem = Elem(n, o, n)

ElementsOf(n, o) ==
  /\ element = [k \in Key |-> element[k]]
  /\ \A k \in Key \ Members(n, o) : element[k] = Null
  /\ curhashelem \in Members(n, o) \cup {Null, Dangling}

Holds(n, o) == LinksTyped /\ ListOf(n, o) /\ BucketsOf(n, o) /\ ElementsOf(n, o)

TableInv == \E n, o : Holds(n, o)

(* A table without nodes, as Create and Clear leave it.                    *)
LEMMA Emptied ==
  ASSUME NEW n, NEW o, n = 0, o = <<>>, LinksTyped,
         table = [b \in Bucket |-> Null], firsthashelem = Null, lasthashelem = Null,
         element = [k \in Key |-> Null], curhashelem \in {Null, Dangling}
  PROVE  Holds(n, o)
<1>1. ListOf(n, o)
  BY ChainEmpty DEF ListOf
<1>2. BucketsOf(n, o)
  <2> SUFFICES ASSUME NEW b \in Bucket
               PROVE  \E m, c : /\ Chain(m, c, hashnext, hashprev)
                                /\ table[b] = Elem(m, c, 1)
                                /\ Members(m, c) = {k \in Members(n, o) : GetIndex(k) = b}
    BY DEF BucketsOf
  <2>1. /\ Chain(0, <<>>, hashnext, hashprev) /\ table[b] = Elem(0, <<>>, 1)
        /\ Members(0, <<>>) = {k \in Members(n, o) : GetIndex(k) = b}
    BY ChainEmpty
  <2>2. QED
    BY <2>1
<1>3. ElementsOf(n, o)
  BY DEF ElementsOf
<1>4. QED
  BY <1>1, <1>2, <1>3 DEF Holds

LEMMA EmptiedTo ==
  ASSUME NEW n, NEW o, n = 0, o = <<>>, LinksTyped',
         table' = [b \in Bucket |-> Null], firsthashelem' = Null, lasthashelem' = Null,
         element' = [k \in Key |-> Null], curhashelem' \in {Null, Dangling}
  PROVE  Holds(n, o)'
<1>1. ListOf(n, o)'
  BY ChainEmpty DEF ListOf
<1>2. BucketsOf(n, o)'
  <2> SUFFICES ASSUME NEW b \in Bucket
               PROVE  \E m, c : /\ Chain(m, c, hashnext', hashprev')
                                /\ table'[b] = Elem(m, c, 1)
                                /\ Members(m, c) = {k \in Members(n, o) : GetIndex(k) = b}
    BY DEF BucketsOf
  <2>1. /\ Chain(0, <<>>, hashnext', hashprev') /\ table'[b] = Elem(0, <<>>, 1)
        /\ Members(0, <<>>) = {k \in Members(n, o) : GetIndex(k) = b}
    BY ChainEmpty
  <2>2. QED
    BY <2>1
<1>3. ElementsOf(n, o)'
  BY DEF ElementsOf
<1>4. QED
  BY <1>1, <1>2, <1>3 DEF Holds

(* A lookup finds what is in the list.                                     *)
LEMMA LookupFinds ==
  ASSUME NEW n, NEW o, Holds(n, o), NEW k \in Key
  PROVE  InBucket(k) <=> k \in Members(n, o)
<1>1. PICK m, c : /\ Chain(m, c, hashnext, hashprev) /\ table[GetIndex(k)] = Elem(m, c, 1)
                  /\ Members(m, c) = {x \in Members(n, o) : GetIndex(x) = GetIndex(k)}
  BY IndexAssumption DEF Holds, BucketsOf
<1>2. Nodes(table[GetIndex(k)], hashnext) = c
  BY <1>1, NodesRead
<1>3. DOMAIN c = 1 .. m
  BY <1>1 DEF Chain
<1>4. InBucket(k) <=> \E i \in 1 .. m : c[i] = k
  BY <1>2, <1>3 DEF InBucket, Reaches
<1>5. QED
  BY <1>1, <1>4 DEF Members

(* A new key goes to the end of the list and the front of its bucket.      *)
LEMMA AddKeeps ==
  ASSUME NEW n, NEW o, Holds(n, o), NEW k \in Key, NEW v, k \notin Members(n, o),
         KeyAddElement(k, v)
  PROVE  Holds(n + 1, Added(n, o, k))'
<1> DEFINE b == GetIndex(k)
           head == table[b]
<1>1. /\ table' = [table EXCEPT ![b] = k]
      /\ hashnext' = [hashnext EXCEPT ![k] = head]
      /\ hashprev' = Linked([hashprev EXCEPT ![k] = Null], head, k)
      /\ listnext' = Linked([listnext EXCEPT ![k] = Null], lasthashelem, k)
      /\ listprev' = [listprev EXCEPT ![k] = lasthashelem]
      /\ firsthashelem' = IF firsthashelem = Null THEN k ELSE firsthashelem
      /\ lasthashelem' = k
      /\ element' = [element EXCEPT ![k] = v]
      /\ curhashelem' = curhashelem
  BY LookupFinds DEF KeyAddElement, AddElement
<1>2. /\ LinksTyped /\ Chain(n, o, listnext, listprev) /\ b \in Bucket
      /\ firsthashelem = Elem(n, o, 1) /\ lasthashelem = Elem(n, o, n)
  BY IndexAssumption DEF Holds, ListOf
<1>3. n \in Nat /\ o \in [1 .. n -> Key] /\ Members(n, o) \subseteq Key
  BY <1>2 DEF Chain, Members
<1>4. lasthashelem \in Members(n, o) \cup {Null} /\ (n = 0 <=> Elem(n, o, 1) = Null)
  BY <1>2, <1>3, IndexAssumption DEF Elem, Members
<1>5. head \in Key \cup {Null} /\ lasthashelem \in Key \cup {Null}
  BY <1>2, <1>3, <1>4 DEF LinksTyped
<1>6. /\ [listnext EXCEPT ![k] = Null] \in Link /\ [hashprev EXCEPT ![k] = Null] \in Link
      /\ \A x \in Key : /\ [listnext EXCEPT ![k] = Null][x] = IF x = k THEN Null ELSE listnext[x]
                        /\ [hashprev EXCEPT ![k] = Null][x] = IF x = k THEN Null ELSE hashprev[x]
  BY <1>2 DEF LinksTyped, Link
<1>7. /\ listnext' \in Link /\ hashprev' \in Link
      /\ \A x \in Key : /\ listnext'[x] = IF x = lasthashelem THEN k
                                          ELSE IF x = k THEN Null ELSE listnext[x]
                        /\ hashprev'[x] = IF x = head THEN k
                                          ELSE IF x = k THEN Null ELSE hashprev[x]
  <2> DEFINE f == [listnext EXCEPT ![k] = Null]
             g == [hashprev EXCEPT ![k] = Null]
  <2>1. listnext' = Linked(f, lasthashelem, k) /\ hashprev' = Linked(g, head, k)
    BY <1>1
  <2>2. f \in Link /\ g \in Link
    BY <1>6
  <2>3. \A x \in Key : f[x] = (IF x = k THEN Null ELSE listnext[x])
                      /\ g[x] = (IF x = k THEN Null ELSE hashprev[x])
    BY <1>6
  <2> HIDE DEF f, g, head
  <2>4. k \in Key \cup {Null}
    OBVIOUS
  <2>5. Redirected(f, listnext', lasthashelem, k) /\ Redirected(g, hashprev', head, k)
    BY <1>5, <2>1, <2>2, <2>4, LinkedAt
  <2>6. QED
    BY <2>3, <2>5 DEF Redirected
<1>8. /\ listprev' \in Link /\ hashnext' \in Link
      /\ \A x \in Key : /\ listprev'[x] = IF x = k THEN lasthashelem ELSE listprev[x]
                        /\ hashnext'[x] = IF x = k THEN head ELSE hashnext[x]
  BY <1>1, <1>2, <1>5 DEF LinksTyped, Link
<1>9. LinksTyped'
  BY <1>1, <1>2, <1>7, <1>8 DEF LinksTyped
<1>10. /\ Chain(n + 1, Added(n, o, k), listnext', listprev')
       /\ Members(n + 1, Added(n, o, k)) = Members(n, o) \cup {k}
       /\ Elem(n + 1, Added(n, o, k), n + 1) = k
       /\ Elem(n + 1, Added(n, o, k), 1) = IF n = 0 THEN k ELSE Elem(n, o, 1)
  <2>1. k # lasthashelem
    BY <1>4, IndexAssumption
  <2>2. /\ \A x \in Members(n, o) :
              /\ listnext'[x] = IF x = Elem(n, o, n) THEN k ELSE listnext[x]
              /\ listprev'[x] = listprev[x]
        /\ listnext'[k] = Null /\ listprev'[k] = Elem(n, o, n)
    BY <1>2, <1>3, <1>7, <1>8, <2>1
  <2>3. QED
    BY <1>2, <2>2, ChainAdded
<1>11. ListOf(n + 1, Added(n, o, k))'
  BY <1>1, <1>2, <1>4, <1>10 DEF ListOf
<1>12. BucketsOf(n + 1, Added(n, o, k))'
  <2> SUFFICES ASSUME NEW d \in Bucket
               PROVE  \E m, c : /\ Chain(m, c, hashnext', hashprev')
                                /\ table'[d] = Elem(m, c, 1)
                                /\ Members(m, c) =
                                     {x \in Members(n + 1, Added(n, o, k)) : GetIndex(x) = d}
    BY DEF BucketsOf
  <2>1. PICK m, c : /\ Chain(m, c, hashnext, hashprev) /\ table[d] = Elem(m, c, 1)
                    /\ Members(m, c) = {x \in Members(n, o) : GetIndex(x) = d}
    BY DEF Holds, BucketsOf
  <2>2. Members(m, c) \subseteq Key /\ k \notin Members(m, c)
    BY <1>3, <2>1
  <2>3. CASE d = b
    <3>1. head = Elem(m, c, 1) /\ k # head
      <4>1. Elem(m, c, 1) \in Members(m, c) \cup {Null}
        BY DEF Elem, Members
      <4>2. QED
        BY <2>1, <2>2, <2>3, <4>1, IndexAssumption
    <3>2. /\ \A x \in Members(m, c) : /\ hashnext'[x] = hashnext[x]
                                      /\ hashprev'[x] = IF x = Elem(m, c, 1) THEN k
                                                        ELSE hashprev[x]
          /\ hashnext'[k] = Elem(m, c, 1) /\ hashprev'[k] = Null
      BY <1>7, <1>8, <2>2, <3>1
    <3>3. /\ Chain(m + 1, Before(m, c, k), hashnext', hashprev')
          /\ Members(m + 1, Before(m, c, k)) = Members(m, c) \cup {k}
          /\ Elem(m + 1, Before(m, c, k), 1) = k
      BY <2>1, <2>2, <3>2, ChainBefore
    <3>4. table'[d] = k
      BY <1>1, <1>2, <2>3 DEF LinksTyped
    <3>5. Members(m + 1, Before(m, c, k)) =
            {x \in Members(n + 1, Added(n, o, k)) : GetIndex(x) = d}
      BY <1>10, <2>1, <2>3, <3>3
    <3>6. QED
      BY <3>3, <3>4, <3>5
  <2>4. CASE d # b
    <3>1. \A x \in Members(m, c) : x # head
      <4>1. PICK m2, c2 : /\ Chain(m2, c2, hashnext, hashprev) /\ table[b] = Elem(m2, c2, 1)
                          /\ Members(m2, c2) = {x \in Members(n, o) : GetIndex(x) = b}
        BY <1>2 DEF Holds, BucketsOf
      <4>2. head \in Members(m2, c2) \cup {Null}
        BY <4>1 DEF Elem, Members
      <4>3. QED
        BY <2>1, <2>2, <2>4, <4>1, <4>2, IndexAssumption
    <3>2. \A x \in Members(m, c) : hashnext'[x] = hashnext[x] /\ hashprev'[x] = hashprev[x]
      BY <1>7, <1>8, <2>2, <3>1
    <3>3. Chain(m, c, hashnext', hashprev')
      BY <2>1, <3>2, ChainFrame
    <3>4. table'[d] = table[d]
      BY <1>1, <1>2, <2>4 DEF LinksTyped
    <3>5. Members(m, c) = {x \in Members(n + 1, Added(n, o, k)) : GetIndex(x) = d}
      BY <1>10, <2>1, <2>4
    <3>6. QED
      BY <2>1, <3>3, <3>4, <3>5
  <2>5. QED
    BY <2>3, <2>4
<1>13. ElementsOf(n + 1, Added(n, o, k))'
  <2>1. ElementsOf(n, o)
    BY DEF Holds
  <2>2. element' = [x \in Key |-> IF x = k THEN v ELSE element[x]]
    BY <1>1, <2>1 DEF ElementsOf
  <2>3. QED
    BY <1>1, <1>10, <2>1, <2>2 DEF ElementsOf
<1>14. QED
  BY <1>9, <1>11, <1>12, <1>13 DEF Holds

(* A node taken out of both lists leaves those without it.                 *)
LEMMA UnlinkKeeps ==
  ASSUME NEW n, NEW o, Holds(n, o), NEW p \in 1 .. n, Unlinked(o[p]),
         element' = Freed(element, o[p]), curhashelem' = listnext[o[p]]
  PROVE  Holds(n - 1, Without(n, o, p))'
<1> DEFINE k == o[p]
           b == GetIndex(k)
<1>1. /\ table' = IF hashprev[k] = Null THEN [table EXCEPT ![b] = hashnext[k]] ELSE table
      /\ hashnext' = Freed(Linked(hashnext, hashprev[k], hashnext[k]), k)
      /\ hashprev' = Freed(Linked(hashprev, hashnext[k], hashprev[k]), k)
      /\ listnext' = Freed(Linked(listnext, listprev[k], listnext[k]), k)
      /\ listprev' = Freed(Linked(listprev, listnext[k], listprev[k]), k)
      /\ firsthashelem' = IF listprev[k] = Null THEN listnext[k] ELSE firsthashelem
      /\ lasthashelem' = IF listnext[k] = Null THEN listprev[k] ELSE lasthashelem
  BY DEF Unlinked
<1>2. /\ LinksTyped /\ Chain(n, o, listnext, listprev)
      /\ firsthashelem = Elem(n, o, 1) /\ lasthashelem = Elem(n, o, n)
  BY DEF Holds, ListOf
<1>3. /\ n \in Nat /\ o \in [1 .. n -> Key] /\ Members(n, o) \subseteq Key
      /\ k \in Key /\ k \in Members(n, o) /\ b \in Bucket
  BY <1>2, IndexAssumption DEF Chain, Members
<1> HIDE DEF k
<1>4. ASSUME NEW f \in Link, NEW at \in Key \cup {Null}, NEW to \in Key \cup {Null},
             NEW r, r = Freed(Linked(f, at, to), k)
      PROVE  RedirectedElsewhere(f, r, k, at, to)
  <2>1. PICK g : g = Linked(f, at, to)
    OBVIOUS
  <2>2. Redirected(f, g, at, to)
    BY <2>1, LinkedAt
  <2>3. r = Freed(g, k)
    BY <1>4, <2>1
  <2>4. g \in Link
    BY <2>2 DEF Redirected
  <2>5. Redirected(g, r, k, Null)
    BY <1>3, <2>3, <2>4, FreedAt
  <2>6. QED
    BY <2>2, <2>5 DEF Redirected, RedirectedElsewhere
<1>5. /\ hashnext[k] \in Key \cup {Null} /\ hashprev[k] \in Key \cup {Null}
      /\ listnext[k] \in Key \cup {Null} /\ listprev[k] \in Key \cup {Null}
      /\ hashnext \in Link /\ hashprev \in Link /\ listnext \in Link /\ listprev \in Link
  BY <1>2, <1>3 DEF LinksTyped, Link
<1>6. /\ listnext' \in Link /\ listprev' \in Link
      /\ \A x \in Key : x # k =>
           /\ listnext'[x] = IF x = listprev[k] THEN listnext[k] ELSE listnext[x]
           /\ listprev'[x] = IF x = listnext[k] THEN listprev[k] ELSE listprev[x]
  <2>1. /\ RedirectedElsewhere(listnext, listnext', k, listprev[k], listnext[k])
        /\ RedirectedElsewhere(listprev, listprev', k, listnext[k], listprev[k])
    BY <1>1, <1>4, <1>5
  <2>2. QED
    BY <2>1 DEF RedirectedElsewhere
<1>7. /\ hashnext' \in Link /\ hashprev' \in Link
      /\ \A x \in Key : x # k =>
           /\ hashnext'[x] = IF x = hashprev[k] THEN hashnext[k] ELSE hashnext[x]
           /\ hashprev'[x] = IF x = hashnext[k] THEN hashprev[k] ELSE hashprev[x]
  <2>1. /\ RedirectedElsewhere(hashnext, hashnext', k, hashprev[k], hashnext[k])
        /\ RedirectedElsewhere(hashprev, hashprev', k, hashnext[k], hashprev[k])
    BY <1>1, <1>4, <1>5
  <2>2. QED
    BY <2>1 DEF RedirectedElsewhere
<1>8. LinksTyped'
  BY <1>1, <1>2, <1>5, <1>6, <1>7 DEF LinksTyped
<1>9. /\ Chain(n - 1, Without(n, o, p), listnext', listprev')
      /\ Members(n - 1, Without(n, o, p)) = Members(n, o) \ {k}
      /\ Elem(n - 1, Without(n, o, p), 1) =
           IF listprev[k] = Null THEN listnext[k] ELSE Elem(n, o, 1)
      /\ Elem(n - 1, Without(n, o, p), n - 1) =
           IF listnext[k] = Null THEN listprev[k] ELSE Elem(n, o, n)
  <2>1. \A x \in Members(n, o) \ {o[p]} :
          /\ listnext'[x] = IF x = listprev[o[p]] THEN listnext[o[p]] ELSE listnext[x]
          /\ listprev'[x] = IF x = listnext[o[p]] THEN listprev[o[p]] ELSE listprev[x]
    BY <1>3, <1>6 DEF k
  <2>2. QED
    BY <1>2, <2>1, ChainRemoved DEF k
<1>10. ListOf(n - 1, Without(n, o, p))'
  BY <1>1, <1>2, <1>9 DEF ListOf
<1>11. PICK mb, cb : /\ Chain(mb, cb, hashnext, hashprev) /\ table[b] = Elem(mb, cb, 1)
                     /\ Members(mb, cb) = {x \in Members(n, o) : GetIndex(x) = b}
  BY <1>3 DEF Holds, BucketsOf
<1>12. PICK q \in 1 .. mb : cb[q] = k
  <2>1. k \in Members(mb, cb)
    BY <1>3, <1>11
  <2>2. QED
    BY <2>1 DEF Members
<1>13. /\ hashnext[k] \in Members(mb, cb) \cup {Null}
       /\ hashprev[k] \in Members(mb, cb) \cup {Null}
  BY <1>11, <1>12 DEF Chain, Elem, Members
<1>14. BucketsOf(n - 1, Without(n, o, p))'
  <2> SUFFICES ASSUME NEW d \in Bucket
               PROVE  \E m, c : /\ Chain(m, c, hashnext', hashprev')
                                /\ table'[d] = Elem(m, c, 1)
                                /\ Members(m, c) =
                                     {x \in Members(n - 1, Without(n, o, p)) : GetIndex(x) = d}
    BY DEF BucketsOf
  <2>1. CASE d = b
    <3>1. \A x \in Members(mb, cb) \ {cb[q]} :
            /\ hashnext'[x] = IF x = hashprev[cb[q]] THEN hashnext[cb[q]] ELSE hashnext[x]
            /\ hashprev'[x] = IF x = hashnext[cb[q]] THEN hashprev[cb[q]] ELSE hashprev[x]
      BY <1>3, <1>7, <1>11, <1>12
    <3>2. /\ Chain(mb - 1, Without(mb, cb, q), hashnext', hashprev')
          /\ Members(mb - 1, Without(mb, cb, q)) = Members(mb, cb) \ {k}
          /\ Elem(mb - 1, Without(mb, cb, q), 1) =
               IF hashprev[k] = Null THEN hashnext[k] ELSE Elem(mb, cb, 1)
      BY <1>11, <1>12, <3>1, ChainRemoved
    <3>3. table'[d] = Elem(mb - 1, Without(mb, cb, q), 1)
      BY <1>1, <1>2, <1>3, <1>11, <2>1, <3>2 DEF LinksTyped
    <3>4. Members(mb - 1, Without(mb, cb, q)) =
            {x \in Members(n - 1, Without(n, o, p)) : GetIndex(x) = d}
      BY <1>9, <1>11, <2>1, <3>2
    <3>5. QED
      BY <3>2, <3>3, <3>4
  <2>2. CASE d # b
    <3>1. PICK m, c : /\ Chain(m, c, hashnext, hashprev) /\ table[d] = Elem(m, c, 1)
                      /\ Members(m, c) = {x \in Members(n, o) : GetIndex(x) = d}
      BY DEF Holds, BucketsOf
    <3>2. \A x \in Members(m, c) : x \in Key /\ x # k /\ x # hashnext[k] /\ x # hashprev[k]
      BY <1>3, <1>11, <1>13, <2>2, <3>1, IndexAssumption
    <3>3. \A x \in Members(m, c) : hashnext'[x] = hashnext[x] /\ hashprev'[x] = hashprev[x]
      BY <1>7, <3>2
    <3>4. Chain(m, c, hashnext', hashprev')
      BY <3>1, <3>3, ChainFrame
    <3>5. table'[d] = table[d]
      BY <1>1, <1>2, <2>2 DEF LinksTyped
    <3>6. Members(m, c) = {x \in Members(n - 1, Without(n, o, p)) : GetIndex(x) = d}
      BY <1>9, <2>2, <3>1, <3>2
    <3>7. QED
      BY <3>1, <3>4, <3>5, <3>6
  <2>3. QED
    BY <2>1, <2>2
<1>15. ElementsOf(n - 1, Without(n, o, p))'
  <2>1. ElementsOf(n, o)
    BY DEF Holds
  <2>2. element' = [x \in Key |-> IF x = k THEN Null ELSE element[x]]
    BY <2>1 DEF ElementsOf, Freed, k
  <2>3. curhashelem' = Elem(n, o, p + 1) /\ Elem(n, o, p + 1) \in (Members(n, o) \ {k}) \cup {Null}
    BY <1>2, <1>3 DEF Chain, Elem, Members, k
  <2>4. QED
    BY <1>9, <2>1, <2>2, <2>3 DEF ElementsOf
<1>16. QED
  BY <1>8, <1>10, <1>14, <1>15 DEF Holds

-----------------------------------------------------------------------------
(* The steps, next to those of the list of keys.                           *)

(* The keys of OrderedTable are the nodes of the list of all.              *)
LEMMA KeysAre ==
  ASSUME NEW n, NEW o, Holds(n, o)
  PROVE  /\ Nodes(firsthashelem, listnext) = o
         /\ n \in Nat /\ o \in [1 .. n -> Key] /\ Len(o) = n /\ DOMAIN o = 1 .. n
         /\ \A i, j \in 1 .. n : o[i] = o[j] => i = j
<1>1. Chain(n, o, listnext, listprev) /\ firsthashelem = Elem(n, o, 1)
  BY DEF Holds, ListOf
<1>2. n \in Nat /\ o \in [1 .. n -> Key] /\ \A i, j \in 1 .. n : o[i] = o[j] => i = j
  BY <1>1 DEF Chain
<1>3. o \in Seq(Key) /\ Len(o) = n
  BY <1>2
<1>4. QED
  BY <1>1, <1>2, <1>3, NodesRead

LEMMA KeysBecome ==
  ASSUME NEW n, NEW o, Holds(n, o)'
  PROVE  Nodes(firsthashelem, listnext)' = o
<1>1. Chain(n, o, listnext', listprev') /\ firsthashelem' = Elem(n, o, 1)
  BY DEF Holds, ListOf
<1>2. QED
  BY <1>1, NodesRead

tablestate == <<Nodes(firsthashelem, listnext), element, curhashelem, answer>>

(* Where a key is in the list.                                             *)
LEMMA PlaceOf ==
  ASSUME NEW n, NEW o, Holds(n, o), NEW k \in Members(n, o)
  PROVE  /\ Order!Pos(k) \in 1 .. n /\ o[Order!Pos(k)] = k
         /\ listnext[k] = Elem(n, o, Order!Pos(k) + 1)
         /\ listprev[k] = Elem(n, o, Order!Pos(k) - 1)
<1>1. /\ Nodes(firsthashelem, listnext) = o /\ DOMAIN o = 1 .. n
      /\ Chain(n, o, listnext, listprev)
  BY KeysAre DEF Holds, ListOf
<1>2. PICK i \in 1 .. n : o[i] = k
  BY DEF Members
<1>3. Order!Pos(k) = CHOOSE h \in 1 .. n : o[h] = k
  BY <1>1 DEF Order!Pos
<1>4. Order!Pos(k) \in 1 .. n /\ o[Order!Pos(k)] = k
  BY <1>2, <1>3
<1>5. QED
  BY <1>1, <1>4 DEF Chain

LEMMA ElemIsAt ==
  ASSUME NEW n, NEW o, Holds(n, o)
  PROVE  \A i : Order!At(i) = Elem(n, o, i)
BY KeysAre DEF Order!At, Elem

(* A lookup answers what OrderedTable asks of it.                          *)
LEMMA AnswersRight ==
  ASSUME NEW n, NEW o, Holds(n, o), NEW k \in Key, answer' = InBucket(k)
  PROVE  Order!Answer(k)
<1>2. InBucket(k) <=> \E i \in 1 .. n : o[i] = k
  BY LookupFinds DEF Members
<1>3. InBucket(k) \in BOOLEAN
  BY DEF InBucket, Reaches
<1>4. QED
  BY <1>2, <1>3, KeysAre DEF Order!Answer

(* Taking a node out is taking its key out.                                *)
LEMMA Takes ==
  ASSUME NEW n, NEW o, Holds(n, o), NEW k \in Members(n, o), Unlinked(k),
         element' = Freed(element, k), curhashelem' = listnext[k]
  PROVE  TableInv' /\ Order!Take(k)
<1>1. PICK p \in 1 .. n : /\ p = Order!Pos(k) /\ o[p] = k
                          /\ listnext[k] = Elem(n, o, p + 1)
  BY PlaceOf
<1>2. /\ Nodes(firsthashelem, listnext) = o /\ Len(o) = n
      /\ \A i : Order!At(i) = Elem(n, o, i)
  BY KeysAre, ElemIsAt
<1>3. Holds(n - 1, Without(n, o, p))'
  <2>1. Unlinked(o[p]) /\ element' = Freed(element, o[p]) /\ curhashelem' = listnext[o[p]]
    BY <1>1
  <2>2. QED
    BY <1>1, <2>1, UnlinkKeeps
<1>4. Nodes(firsthashelem, listnext)' = Without(n, o, p)
  <2>1. \A m, c : Holds(m, c)' => Nodes(firsthashelem, listnext)' = c
    BY KeysBecome
  <2>2. QED
    BY <1>3, <2>1
<1>5. element' = [element EXCEPT ![k] = Null]
  BY DEF Freed
<1>6. Order!Take(k)
  BY <1>1, <1>2, <1>4, <1>5 DEF Order!Take, Without
<1>7. TableInv'
  BY <1>3 DEF TableInv
<1>8. QED
  BY <1>6, <1>7

(* Each step keeps the lists and is a step of OrderedTable or none.        *)
LEMMA TableStep ==
  ASSUME NEW n, NEW o, Holds(n, o), [KeyHashNext]_keyhashvars
  PROVE  TableInv' /\ [Order!Next]_tablestate
<1>0. /\ Nodes(firsthashelem, listnext) = o /\ Len(o) = n /\ n \in Nat
      /\ \A i : Order!At(i) = Elem(n, o, i)
      /\ Members(n, o) \subseteq Key
  BY KeysAre, ElemIsAt DEF Members
(* The links stay, and with them all but the cursor and the answer.        *)
<1>1. ASSUME UNCHANGED links, UNCHANGED element,
             curhashelem' \in Members(n, o) \cup {Null, Dangling}
      PROVE  /\ TableInv' /\ Nodes(firsthashelem, listnext)' = o
  <2>1. Holds(n, o)'
    BY <1>1 DEF links, Holds, LinksTyped, ListOf, BucketsOf, ElementsOf
  <2>2. QED
    BY <2>1, KeysBecome DEF TableInv
<1>2. curhashelem \in Members(n, o) \cup {Null, Dangling}
  BY DEF Holds, ElementsOf
<1>3. \A i : Elem(n, o, i) \in Members(n, o) \cup {Null, Dangling}
  BY DEF Elem, Members
<1>4. ASSUME NEW k \in Key, NEW v \in Value, KeyAddElement(k, v)
      PROVE  TableInv' /\ Order!Next
  <2>1. Order!Answer(k) /\ (answer' <=> k \in Members(n, o)) /\ answer' = InBucket(k)
        /\ curhashelem' = curhashelem
    BY <1>4, AnswersRight, LookupFinds DEF KeyAddElement, AddElement
  <2>2. CASE answer'
    <3>1. UNCHANGED links /\ UNCHANGED element
      BY <1>4, <2>1, <2>2 DEF KeyAddElement, AddElement
    <3>2. TableInv' /\ Nodes(firsthashelem, listnext)' = o
      BY <1>1, <1>2, <2>1, <3>1
    <3>3. Order!Add(k, v)
      BY <1>0, <2>1, <2>2, <3>1, <3>2 DEF Order!Add
    <3>4. QED
      BY <3>2, <3>3 DEF Order!Next
  <2>3. CASE ~answer'
    <3>1. Holds(n + 1, Added(n, o, k))'
      BY <1>4, <2>1, <2>3, AddKeeps
    <3>2. Nodes(firsthashelem, listnext)' = Added(n, o, k)
      BY <3>1, KeysBecome
    <3>3. Added(n, o, k) = Append(o, k)
      <4>1. o \in Seq(Key)
        BY <1>0, KeysAre
      <4>2. PICK a : a = Append(o, k)
        OBVIOUS
      <4>3. a \in Seq(Key) /\ Len(a) = n + 1
        BY <1>0, <4>1, <4>2
      <4>4. DOMAIN a = 1 .. n + 1 /\ a = [i \in 1 .. n + 1 |-> a[i]]
        BY <1>0, <4>3
      <4>5. \A i \in 1 .. n + 1 : a[i] = IF i <= n THEN o[i] ELSE k
        BY <1>0, <4>1, <4>2
      <4>6. QED
        BY <4>2, <4>4, <4>5 DEF Added
    <3>4. element' = [element EXCEPT ![k] = v]
      BY <1>4, <2>1, <2>3 DEF KeyAddElement
    <3>5. Order!Add(k, v)
      BY <1>0, <2>1, <2>3, <3>2, <3>3, <3>4 DEF Order!Add
    <3>6. QED
      BY <3>1, <3>5 DEF TableInv, Order!Next
  <2>4. QED
    BY <2>2, <2>3
<1>5. ASSUME NEW k \in Key, GotoElement(k), UNCHANGED element
      PROVE  TableInv' /\ Order!Next
  <2>1. Order!Answer(k) /\ (answer' <=> k \in Members(n, o)) /\ UNCHANGED links
        /\ curhashelem' = IF answer' THEN k ELSE Null
    BY <1>5, AnswersRight, LookupFinds DEF GotoElement
  <2>2. TableInv' /\ Nodes(firsthashelem, listnext)' = o
    BY <1>1, <1>5, <2>1
  <2>3. Order!Goto(k)
    BY <1>0, <1>5, <2>1, <2>2 DEF Order!Goto
  <2>4. QED
    BY <2>2, <2>3 DEF Order!Next
<1>6. ASSUME NEW k \in Key, KeyHasElement(k)
      PROVE  TableInv' /\ Order!Next
  <2>1. Order!Answer(k) /\ UNCHANGED <<links, curhashelem, element>>
    BY <1>6, AnswersRight DEF KeyHasElement, HasElement
  <2>2. TableInv' /\ Nodes(firsthashelem, listnext)' = o
    BY <1>1, <1>2, <2>1
  <2>3. Order!Lookup(k)
    BY <1>0, <2>1, <2>2 DEF Order!Lookup
  <2>4. QED
    BY <2>2, <2>3 DEF Order!Next
<1>7. ASSUME NEW k \in Key, KeyDeleteElement(k)
      PROVE  TableInv' /\ Order!Next
  <2>1. CASE ~InBucket(k) /\ GotoElement(k)
    <3>1. element[k] = Null /\ element = [x \in Key |-> element[x]]
      BY <2>1, LookupFinds DEF Holds, ElementsOf
    <3>2. element' = element
      BY <1>7, <3>1 DEF KeyDeleteElement, Freed
    <3>3. QED
      BY <1>5, <2>1, <3>2
  <2>2. CASE InBucket(k) /\ answer' = TRUE /\ Unlinked(k) /\ curhashelem' = listnext[k]
    <3>1. k \in Members(n, o) /\ element' = Freed(element, k)
      BY <1>7, <2>2, LookupFinds DEF KeyDeleteElement
    <3>2. TableInv' /\ Order!Take(k)
      BY <2>2, <3>1, Takes
    <3>3. Order!Answer(k) /\ answer'
      <4>1. InBucket(k) = TRUE
        BY <2>2 DEF InBucket, Reaches
      <4>2. QED
        BY <2>2, <4>1, AnswersRight
    <3>4. QED
      BY <3>2, <3>3 DEF Order!Next
  <2>3. QED
    BY <1>7, <2>1, <2>2 DEF KeyDeleteElement, DeleteElement
<1>8. CASE KeyDeleteCurrentElement
  <2>1. /\ curhashelem \in Key /\ Unlinked(curhashelem)
        /\ curhashelem' = listnext[curhashelem] /\ UNCHANGED answer
        /\ element' = Freed(element, curhashelem)
    BY <1>8 DEF KeyDeleteCurrentElement, DeleteCurrentElement
  <2>2. curhashelem \in Members(n, o)
    BY <1>2, <2>1, IndexAssumption
  <2>3. TableInv' /\ Order!Take(curhashelem)
    BY <2>1, <2>2, Takes
  <2>4. QED
    BY <2>1, <2>3 DEF Order!Next
<1>9. CASE KeyClear
  <2>1. /\ table' = [b \in Bucket |-> Null] /\ firsthashelem' = Null /\ lasthashelem' = Null
        /\ hashprev' = NoLinks /\ hashnext' = NoLinks /\ listprev' = NoLinks
        /\ listnext' = NoLinks /\ element' = [k \in Key |-> Null] /\ UNCHANGED answer
        /\ curhashelem' = IF curhashelem = Null THEN Null ELSE Dangling
    BY <1>9 DEF KeyClear, ClearTable, NoLinks
  <2>2. LinksTyped'
    BY <2>1 DEF LinksTyped, Link, NoLinks
  <2>3. Holds(0, <<>>)'
    <3>1. \A n1, o1 : n1 = 0 /\ o1 = <<>> => Holds(n1, o1)'
      BY <2>1, <2>2, EmptiedTo
    <3>2. QED
      BY <3>1
  <2>4. Nodes(firsthashelem, listnext)' = <<>>
    BY <2>3, KeysBecome
  <2>5. Order!Clear
    BY <2>1, <2>4 DEF Order!Clear
  <2>6. QED
    BY <2>3, <2>5 DEF TableInv, Order!Next
<1>10. CASE KeyMove
  <2>1. UNCHANGED <<links, element, answer>>
    BY <1>10 DEF KeyMove, GotoFirstElement, GotoLastElement, GotoNextElement,
                 GotoPreviousElement, MoveTo
  <2>2. \/ curhashelem' = Elem(n, o, 1)
        \/ curhashelem' = Elem(n, o, n)
        \/ /\ curhashelem \in Key
           /\ \/ curhashelem' = Elem(n, o, Order!Pos(curhashelem) + 1)
              \/ curhashelem' = Elem(n, o, Order!Pos(curhashelem) - 1)
    <3>1. firsthashelem = Elem(n, o, 1) /\ lasthashelem = Elem(n, o, n)
      BY DEF Holds, ListOf
    <3>2. curhashelem \in Key => curhashelem \in Members(n, o)
      BY <1>2, IndexAssumption
    <3>3. QED
      BY <1>10, <3>1, <3>2, PlaceOf DEF KeyMove, GotoFirstElement, GotoLastElement,
         GotoNextElement, GotoPreviousElement, MoveTo
  <2>3. TableInv' /\ Nodes(firsthashelem, listnext)' = o
    BY <1>1, <1>3, <2>1, <2>2
  <2>4. \A i : curhashelem' = Elem(n, o, i) => Order!Move(Order!At(i))
    BY <1>0, <2>1, <2>3 DEF Order!Move
  <2>5. Order!Next
    BY <1>0, <2>2, <2>4 DEF Order!Next
  <2>6. QED
    BY <2>3, <2>5
<1>11. CASE UNCHANGED keyhashvars
  <2>1. UNCHANGED <<links, element, curhashelem, answer>>
    BY <1>11 DEF keyhashvars, hashvars
  <2>2. TableInv' /\ Nodes(firsthashelem, listnext)' = o
    BY <1>1, <1>2, <2>1
  <2>3. UNCHANGED tablestate
    BY <1>0, <2>1, <2>2 DEF tablestate
  <2>4. QED
    BY <2>2, <2>3
<1>12. ASSUME NEW k \in Key, KeyGotoElement(k)
       PROVE  TableInv' /\ Order!Next
  BY <1>5, <1>12 DEF KeyGotoElement
<1>13. QED
  BY <1>4, <1>6, <1>7, <1>8, <1>9, <1>10, <1>11, <1>12 DEF KeyHashNext

(* The linked nodes are a list of keys in the order of their adding, with  *)
(* a place in it that the deletion of its element moves on: for any keys,  *)
(* buckets and elements (RTPKeyHashTable).                                 *)
THEOREM TableKeepsOrder == KeyHashSpec => KeepsOrder
<1>1. KeyHashInit => TableInv /\ Order!Init
  <2> SUFFICES ASSUME KeyHashInit PROVE TableInv /\ Order!Init
    OBVIOUS
  <2>1. /\ table = [b \in Bucket |-> Null] /\ firsthashelem = Null /\ lasthashelem = Null
        /\ element = [k \in Key |-> Null] /\ curhashelem = Dangling /\ answer = FALSE
        /\ LinksTyped
    BY DEF KeyHashInit, HashInit, NoLinks, LinksTyped, Link
  <2>2. Holds(0, <<>>)
    <3>1. \A n, o : n = 0 /\ o = <<>> => Holds(n, o)
      BY <2>1, Emptied
    <3>2. QED
      BY <3>1
  <2>3. Nodes(firsthashelem, listnext) = <<>>
    BY <2>2, KeysAre
  <2>4. Order!Init
    BY <2>1, <2>3 DEF Order!Init
  <2>5. QED
    BY <2>2, <2>4 DEF TableInv
<1>2. TableInv /\ [KeyHashNext]_keyhashvars => TableInv' /\ [Order!Next]_tablestate
  BY TableStep DEF TableInv
<1>3. QED
  BY <1>1, <1>2, PTL DEF KeyHashSpec, KeepsOrder, Order!Spec, tablestate

-----------------------------------------------------------------------------
(* The RTCP builder, for any number of participants, any items with any    *)
(* intervals, and any room in the packets.                                 *)

(* While a round of SDES items runs, what is owed is what the flags leave. *)
OwedIsLeft ==
  /\ owed = IF processingsdes THEN doitems \ processeditems ELSE {}
  /\ ~processingsdes => processeditems = {}

BuilderInv == TypeOK /\ OwedIsLeft

Distinct(q) == \A i, j \in 1 .. Len(q) : q[i] = q[j] => i = j
Elements(q) == {q[i] : i \in 1 .. Len(q)}

(* The community operators, in terms of places.                            *)
LEMMA ToSetElements == ASSUME NEW T, NEW q \in Seq(T)
                       PROVE  ToSet(q) = Elements(q) /\ ToSet(q) \subseteq T
BY DEF ToSet, Elements

LEMMA InjectiveDistinct == ASSUME NEW T, NEW q \in Seq(T)
                           PROVE  IsInjective(q) <=> Distinct(q)
BY DEF IsInjective, Distinct

(* q is what Among picks from the first n elements of seq.                 *)
Picked(seq, S, T, n, q) ==
  /\ q \in Seq(T) /\ Elements(q) = {seq[i] : i \in 1 .. n} \cap S
  /\ Distinct(seq) => Distinct(q)

(* One element more.                                                       *)
LEMMA PickMore ==
  ASSUME NEW T, NEW S, NEW seq \in Seq(T), NEW n \in 1 .. Len(seq),
         NEW q, Picked(seq, S, T, n - 1, q)
  PROVE  Picked(seq, S, T, n, IF seq[n] \in S THEN Append(q, seq[n]) ELSE q)
<1> DEFINE more == Append(q, seq[n])
<1>1. seq[n] \in T /\ n - 1 \in Nat /\ 1 .. n = (1 .. n - 1) \cup {n}
  OBVIOUS
<1>2. {seq[i] : i \in 1 .. n} = {seq[i] : i \in 1 .. n - 1} \cup {seq[n]}
  BY <1>1
<1>3. CASE seq[n] \notin S
  BY <1>2, <1>3 DEF Picked
<1>4. CASE seq[n] \in S
  <2>1. /\ q \in Seq(T) /\ more \in Seq(T) /\ Len(more) = Len(q) + 1 /\ Len(q) \in Nat
        /\ \A i \in 1 .. Len(q) : more[i] = q[i]
        /\ more[Len(q) + 1] = seq[n]
    BY <1>1 DEF Picked
  <2>2. Elements(more) = Elements(q) \cup {seq[n]}
    <3> HIDE DEF more
    <3>1. 1 .. Len(q) + 1 = (1 .. Len(q)) \cup {Len(q) + 1}
      BY <2>1
    <3>2. QED
      BY <2>1, <3>1 DEF Elements
  <2>3. Elements(more) = {seq[i] : i \in 1 .. n} \cap S
    BY <1>2, <1>4, <2>2 DEF Picked
  <2>4. ASSUME Distinct(seq) PROVE Distinct(more)
    <3>1. seq[n] \notin {seq[i] : i \in 1 .. n - 1}
      BY <2>4 DEF Distinct
    <3>2. \A i \in 1 .. Len(q) : q[i] # seq[n]
      BY <3>1 DEF Picked, Elements
    <3>3. Distinct(q)
      BY <2>4 DEF Picked
    <3> HIDE DEF more
    <3>4. QED
      BY <2>1, <3>2, <3>3 DEF Distinct
  <2>5. QED
    BY <1>4, <2>1, <2>3, <2>4 DEF Picked
<1>5. QED
  BY <1>3, <1>4

(* Among picks the elements that are in the set, and none twice.           *)
LEMMA AmongPicks ==
  ASSUME NEW T, NEW S, NEW seq \in Seq(T)
  PROVE  /\ Among(seq, S) \in Seq(T)
         /\ ToSet(Among(seq, S)) = ToSet(seq) \cap S
         /\ IsInjective(seq) => IsInjective(Among(seq, S))
<1> DEFINE L == Len(seq)
           After(q, i) == IF seq[i] \in S THEN Append(q, seq[i]) ELSE q
           Walk(f) == [i \in 0 .. L |-> IF i = 0 THEN <<>> ELSE After(f[i - 1], i)]
           upTo == CHOOSE f : f = Walk(f)
           Steps(f, n) == /\ f[0] = <<>>
                          /\ \A i \in 1 .. n : f[i] = After(f[i - 1], i)
           Walked == {n \in Nat : \E f : Steps(f, n)}
<1>1. L \in Nat
  OBVIOUS
<1>2. 0 \in Walked
  <2>1. Steps([i \in {0} |-> <<>>], 0)
    OBVIOUS
  <2> HIDE DEF Steps
  <2>2. QED
    BY <2>1
<1>3. ASSUME NEW n \in Nat, n \in Walked
      PROVE  n + 1 \in Walked
  <2>1. PICK f : Steps(f, n)
    BY <1>3
  <2> DEFINE g == [i \in 0 .. n + 1 |-> IF i <= n THEN f[i] ELSE After(f[n], n + 1)]
  <2> HIDE DEF After
  <2>2. \A i \in 0 .. n : g[i] = f[i]
    OBVIOUS
  <2>3. g[n + 1] = After(f[n], n + 1) /\ (n + 1) - 1 = n
    OBVIOUS
  <2> HIDE DEF g
  <2>4. \A i \in 1 .. n + 1 : g[i] = After(g[i - 1], i)
    <3> TAKE i \in 1 .. n + 1
    <3>1. CASE i = n + 1
      BY <2>2, <2>3, <3>1
    <3>2. CASE i # n + 1
      <4>1. i \in 1 .. n /\ i \in 0 .. n /\ i - 1 \in 0 .. n
        BY <3>2
      <4>2. QED
        BY <2>1, <2>2, <4>1
    <3>3. QED
      BY <3>1, <3>2
  <2>5. Steps(g, n + 1)
    BY <2>1, <2>2, <2>4
  <2> HIDE DEF Steps
  <2>6. QED
    BY <2>5
<1>4. L \in Walked
  <2> HIDE DEF Walked, L
  <2>1. Nat \subseteq Walked
    BY <1>2, <1>3, Induction
  <2>2. QED
    BY <1>1, <2>1
<1>5. \E f : f = Walk(f)
  <2>1. PICK f : Steps(f, L)
    BY <1>4
  <2> DEFINE g == [i \in 0 .. L |-> f[i]]
  <2> HIDE DEF L
  <2>2. \A i \in 1 .. L : i # 0 /\ i - 1 \in 0 .. L /\ g[i] = f[i] /\ g[i - 1] = f[i - 1]
    BY <1>1
  <2> HIDE DEF After
  <2>3. \A i \in 0 .. L : g[i] = IF i = 0 THEN <<>> ELSE After(g[i - 1], i)
    BY <1>1, <2>1, <2>2
  <2>4. g = Walk(g)
    BY <2>3
  <2> HIDE DEF g, Walk
  <2>5. QED
    BY <2>4
<1>6. upTo = Walk(upTo)
  <2> HIDE DEF Walk
  <2>1. QED
    BY <1>5
<1>7. Among(seq, S) = upTo[L]
  BY DEF Among
<1>8. /\ upTo[0] = <<>>
      /\ \A i \in 1 .. L : upTo[i] = After(upTo[i - 1], i)
  <2> HIDE DEF upTo, L, After
  <2>1. \A i \in 1 .. L : i \in 0 .. L /\ i # 0
    BY <1>1
  <2>2. 0 \in 0 .. L
    BY <1>1
  <2>3. \A i \in 0 .. L : upTo[i] = IF i = 0 THEN <<>> ELSE After(upTo[i - 1], i)
    BY <1>6
  <2>4. QED
    BY <2>1, <2>2, <2>3
<1> DEFINE Right == {n \in Nat : n <= L => Picked(seq, S, T, n, upTo[n])}
<1>9. 0 \in Right
  <2> HIDE DEF upTo
  <2>1. Picked(seq, S, T, 0, <<>>)
    BY DEF Picked, Elements, Distinct
  <2>2. QED
    BY <1>8, <2>1
<1>10. ASSUME NEW n \in Nat, n \in Right
       PROVE  n + 1 \in Right
  <2> HIDE DEF upTo
  <2> SUFFICES ASSUME n + 1 <= L PROVE Picked(seq, S, T, n + 1, upTo[n + 1])
    OBVIOUS
  <2>1. n + 1 \in 1 .. L /\ (n + 1) - 1 = n /\ n <= L
    BY <1>1
  <2>2. Picked(seq, S, T, n + 1, After(upTo[n], n + 1))
    BY <1>10, <2>1, PickMore
  <2>3. QED
    BY <1>8, <2>1, <2>2
<1>11. Picked(seq, S, T, L, Among(seq, S))
  <2> HIDE DEF Right
  <2>1. Nat \subseteq Right
    BY <1>9, <1>10, Induction
  <2> USE DEF Right
  <2> HIDE DEF upTo, L
  <2>2. QED
    BY <1>1, <1>7, <2>1
<1> HIDE DEF upTo, Walked, Right
<1>12. /\ Among(seq, S) \in Seq(T)
       /\ Elements(Among(seq, S)) = Elements(seq) \cap S
       /\ Distinct(seq) => Distinct(Among(seq, S))
  <2>1. Elements(seq) = {seq[i] : i \in 1 .. L}
    BY DEF Elements
  <2> HIDE DEF L
  <2>2. QED
    BY <1>11, <2>1 DEF Picked
<1>13. QED
  BY <1>12, ToSetElements, InjectiveDistinct

(* What fits is the front.                                                 *)
LEMMA LeastOfTwo ==
  ASSUME NEW m \in Int, NEW n \in Int
  PROVE  Min({m, n}) = IF m <= n THEN m ELSE n
BY DEF Min

LEMMA FitIsFront ==
  ASSUME NEW T, NEW q \in Seq(T), NEW room \in Nat
  PROVE  /\ Fit(q, room) \in Seq(T) /\ Len(Fit(q, room)) <= room
         /\ ToSet(Fit(q, room)) \subseteq ToSet(q)
         /\ Fits(q, room) => Fit(q, room) = q
<1> DEFINE n == IF Len(q) <= room THEN Len(q) ELSE room
<1>1. Fit(q, room) = SubSeq(q, 1, n)
  BY LeastOfTwo DEF Fit
<1>2. n \in 0 .. Len(q) /\ n <= room
  OBVIOUS
<1> HIDE DEF n
<1>3. /\ SubSeq(q, 1, n) \in Seq(T) /\ Len(SubSeq(q, 1, n)) = n
      /\ \A i \in 1 .. n : SubSeq(q, 1, n)[i] = q[i]
  BY <1>2
<1>4. ToSet(SubSeq(q, 1, n)) \subseteq ToSet(q)
  <2>1. DOMAIN SubSeq(q, 1, n) = 1 .. n /\ DOMAIN q = 1 .. Len(q) /\ 1 .. n \subseteq 1 .. Len(q)
    BY <1>2, <1>3
  <2>2. QED
    BY <1>3, <2>1 DEF ToSet
<1>5. ASSUME Fits(q, room) PROVE SubSeq(q, 1, n) = q
  <2>1. n = Len(q)
    BY <1>5 DEF n, Fits
  <2>2. QED
    BY <1>3, <2>1
<1>6. QED
  BY <1>1, <1>2, <1>3, <1>4, <1>5

-----------------------------------------------------------------------------
(* What a build looks at.                                                  *)

(* The sources a walk finds are in the table.                              *)
LEMMA BlocksTyped ==
  ASSUME TypeOK, NEW flags
  PROVE  /\ Candidates(flags) \in Seq(Source)
         /\ ToSet(Candidates(flags)) \subseteq Known
BY AmongPicks DEF TypeOK, Candidates, Known

(* The items to send are those asked for.                                  *)
LEMMA ItemsTyped ==
  ASSUME NEW todo, todo \subseteq ToSet(Items)
  PROVE  ToSend(todo) \in Seq(ToSet(Items)) /\ ToSet(ToSend(todo)) = todo
BY AmongPicks, RTCPBuilderAssumption DEF ToSend

(* There are finitely many of them, so those skipped have a number.        *)
LEMMA SkippedCounted ==
  ASSUME TypeOK
  PROVE  Cardinality(Skipped) \in Nat
<1>1. list \in Surjection(1 .. Len(list), Known)
  BY DEF TypeOK, Known, ToSet, Surjection
<1>2. IsFiniteSet(1 .. Len(list))
  <2>1. Len(list) \in Nat
    BY DEF TypeOK
  <2>2. QED
    BY <2>1, FS_Interval
<1>3. IsFiniteSet(Known)
  BY <1>1, <1>2, FS_Surjection
<1>4. QED
  BY <1>3, FS_Subset, FS_CardinalityType DEF Skipped, TypeOK

(* What is due is among the items.                                         *)
LEMMA DueTyped == \A count : Due(count) \subseteq ToSet(Items)
BY DEF Due

(* A new builder owes nothing.                                             *)
LEMMA InitInv == Init => BuilderInv
<1> SUFFICES ASSUME Init PROVE BuilderInv
  OBVIOUS
<1>1. list \in Seq(Source) /\ IsInjective(list)
  BY DEF Init, IsInjective
<1>2. packet.blocks \in Seq(Source) /\ packet.items \in Seq(ToSet(Items))
  BY DEF Init
<1>3. 0 \in 0 .. Cycle - 1
  BY RTCPBuilderAssumption
<1>4. QED
  BY <1>1, <1>2, <1>3 DEF Init, BuilderInv, TypeOK, OwedIsLeft

(* What the end of a build leaves of the type invariant to show.           *)
LEMMA BuildTyped ==
  ASSUME TypeOK, NEW blocks \in Seq(Source), NEW items \in Seq(ToSet(Items)),
         EndBuild(blocks, items), UNCHANGED sources,
         processed' \subseteq Known, processingsdes' \in BOOLEAN,
         sdesbuildcount' \in 0 .. Cycle - 1,
         processeditems' \subseteq doitems', doitems' \subseteq ToSet(Items)
  PROVE  TypeOK'
<1>1. /\ list' = list /\ sentdata' = sentdata /\ csrc' = csrc /\ recent' = {}
      /\ firstpacket' = FALSE /\ packet' = [blocks |-> blocks, items |-> items]
  BY DEF EndBuild, sources
<1>2. packet'.blocks = blocks /\ packet'.items = items
  BY <1>1
<1>3. Known' = Known
  BY <1>1 DEF Known
<1>4. QED
  BY <1>1, <1>2, <1>3 DEF TypeOK

(* What a step owes: the whole of ItemsOnSchedule but for the frame.       *)
Schedule ==
  /\ ~processingsdes' => owed' = {}
  /\ Build => ToSet(packet'.items) \subseteq
                (IF processingsdes THEN owed ELSE doitems')

(* The packet is full of report blocks: nothing is owed.                   *)
LEMMA ReportsStep ==
  ASSUME BuilderInv, UNCHANGED sources, NEW room \in Rooms, BuildReports(room)
  PROVE  BuilderInv' /\ packet'.items = <<>>
<1> DEFINE blocks == Fit(Candidates(processed), room)
<1>1. room \in Nat /\ TypeOK /\ OwedIsLeft
  BY RTCPBuilderAssumption DEF BuilderInv
<1>2. blocks \in Seq(Source) /\ ToSet(blocks) \subseteq Known
  <2>1. Candidates(processed) \in Seq(Source) /\ ToSet(Candidates(processed)) \subseteq Known
    BY <1>1, BlocksTyped
  <2>2. QED
    BY <1>1, <2>1, FitIsFront
<1>3. /\ EndBuild(blocks, <<>>) /\ processed' = processed \cup ToSet(blocks)
      /\ UNCHANGED sdes
  BY DEF BuildReports
<1> HIDE DEF blocks
<1>4. <<>> \in Seq(ToSet(Items))
  OBVIOUS
<1>5. processed' \subseteq Known
  BY <1>1, <1>2, <1>3 DEF TypeOK
<1>6. /\ processingsdes' = processingsdes /\ sdesbuildcount' = sdesbuildcount
      /\ doitems' = doitems /\ processeditems' = processeditems /\ owed' = owed
  BY <1>3 DEF sdes
<1>7. TypeOK'
  <2>1. /\ processingsdes' \in BOOLEAN /\ sdesbuildcount' \in 0 .. Cycle - 1
        /\ processeditems' \subseteq doitems' /\ doitems' \subseteq ToSet(Items)
    BY <1>1, <1>6 DEF TypeOK
  <2>2. QED
    BY <1>1, <1>2, <1>3, <1>4, <1>5, <2>1, BuildTyped
<1>8. OwedIsLeft'
  BY <1>1, <1>6 DEF OwedIsLeft
<1>9. packet'.items = <<>>
  BY <1>3 DEF EndBuild
<1>10. QED
  BY <1>7, <1>8, <1>9 DEF BuilderInv

(* A round begins, and may be over with the same packet.                   *)
LEMMA ReportsAndItemsStep ==
  ASSUME BuilderInv, UNCHANGED sources, NEW room \in Rooms, BuildReportsAndItems(room)
  PROVE  BuilderInv' /\ ToSet(packet'.items) \subseteq doitems'
<1> DEFINE blocks == Candidates(processed)
           count  == (sdesbuildcount + 1) % Cycle
           todo   == ToSend(Due(count) \ processeditems)
           left   == room - Len(blocks)
           items  == Fit(todo, left)
           most   == Min({Cardinality(Skipped), left - Len(items)})
           again  == IF Fits(todo, left) THEN Fit(Candidates({}), most) ELSE <<>>
<1>1. room \in Nat /\ TypeOK /\ OwedIsLeft
  BY RTCPBuilderAssumption DEF BuilderInv
<1>2. /\ ~processingsdes /\ Fits(blocks, room)
      /\ sdesbuildcount' = count /\ doitems' = Due(count)
      /\ owed' = Due(count) \ ToSet(items) /\ processed' = ToSet(again)
      /\ processingsdes' = ~Fits(todo, left)
      /\ processeditems' = FlagsAfter(items)
      /\ EndBuild(blocks \o again, items)
  BY DEF BuildReportsAndItems
<1>3. blocks \in Seq(Source) /\ left \in Nat
  <2>1. blocks \in Seq(Source)
    BY <1>1, BlocksTyped
  <2> HIDE DEF blocks
  <2>2. Len(blocks) \in Nat /\ Len(blocks) <= room
    BY <1>2, <2>1 DEF Fits
  <2>3. QED
    BY <1>1, <2>1, <2>2
<1>4. count \in 0 .. Cycle - 1
  <2>1. sdesbuildcount \in Nat /\ Cycle \in Nat \ {0}
    BY <1>1, RTCPBuilderAssumption DEF TypeOK
  <2>2. QED
    BY <2>1
<1> HIDE DEF count
<1>5. processeditems = {}
  BY <1>1, <1>2 DEF OwedIsLeft
<1>6. todo \in Seq(ToSet(Items)) /\ ToSet(todo) = Due(count) /\ Due(count) \subseteq ToSet(Items)
  <2>1. Due(count) \ processeditems = Due(count)
    BY <1>5
  <2>2. QED
    BY <2>1, ItemsTyped, DueTyped
<1> HIDE DEF blocks, left, todo
<1>7. /\ items \in Seq(ToSet(Items)) /\ ToSet(items) \subseteq Due(count)
      /\ Len(items) <= left /\ Len(items) \in Nat
      /\ Fits(todo, left) => ToSet(items) = Due(count)
  BY <1>3, <1>6, FitIsFront
<1> HIDE DEF items
<1>8. most \in Nat
  <2>1. Cardinality(Skipped) \in Nat /\ left - Len(items) \in Nat
    BY <1>1, <1>3, <1>7, SkippedCounted
  <2>2. QED
    BY <2>1, LeastOfTwo
<1> HIDE DEF most
<1>9. again \in Seq(Source) /\ ToSet(again) \subseteq Known
  <2>1. Candidates({}) \in Seq(Source) /\ ToSet(Candidates({})) \subseteq Known
    BY <1>1, BlocksTyped
  <2>2. /\ Fit(Candidates({}), most) \in Seq(Source)
        /\ ToSet(Fit(Candidates({}), most)) \subseteq Known
    BY <1>8, <2>1, FitIsFront
  <2>3. <<>> \in Seq(Source) /\ ToSet(<<>>) \subseteq Known
    BY DEF ToSet
  <2>4. QED
    BY <2>2, <2>3
<1> HIDE DEF again
<1>10. blocks \o again \in Seq(Source)
  BY <1>3, <1>9
<1>11. processeditems' = IF processingsdes' THEN ToSet(items) ELSE {}
  BY <1>2, <1>5 DEF FlagsAfter
<1>12. TypeOK'
  <2>1. /\ processed' \subseteq Known /\ sdesbuildcount' \in 0 .. Cycle - 1
        /\ doitems' \subseteq ToSet(Items)
    BY <1>2, <1>4, <1>6, <1>9
  <2>2. processingsdes' \in BOOLEAN
    BY <1>2
  <2>3. processeditems' \subseteq doitems'
    BY <1>2, <1>7, <1>11
  <2>4. QED
    BY <1>1, <1>2, <1>7, <1>10, <2>1, <2>2, <2>3, BuildTyped
<1>13. OwedIsLeft'
  BY <1>2, <1>7, <1>11 DEF OwedIsLeft
<1>14. packet'.items = items
  BY <1>2 DEF EndBuild
<1>15. QED
  BY <1>2, <1>7, <1>12, <1>13, <1>14 DEF BuilderInv

(* A round goes on: what is sent was owed.                                 *)
LEMMA ItemsStep ==
  ASSUME BuilderInv, UNCHANGED sources, NEW room \in Rooms, BuildItems(room)
  PROVE  BuilderInv' /\ processingsdes /\ ToSet(packet'.items) \subseteq owed
<1> DEFINE todo   == ToSend(doitems \ processeditems)
           items  == Fit(todo, room)
           cands  == Candidates(processed)
           left   == room - Len(items)
           blocks == IF Fits(todo, room) THEN Fit(cands, left) ELSE <<>>
<1>1. room \in Nat /\ TypeOK /\ OwedIsLeft
  BY RTCPBuilderAssumption DEF BuilderInv
<1>2. /\ processingsdes /\ processingsdes' = ~Fits(todo, room)
      /\ processeditems' = FlagsAfter(items)
      /\ processed' = IF ~processingsdes' /\ Fits(cands, left) THEN {}
                      ELSE processed \cup ToSet(blocks)
      /\ owed' = owed \ ToSet(items)
      /\ EndBuild(blocks, items)
      /\ sdesbuildcount' = sdesbuildcount /\ doitems' = doitems
  BY DEF BuildItems
<1>3. owed = doitems \ processeditems
  BY <1>1, <1>2 DEF OwedIsLeft
<1>4. todo \in Seq(ToSet(Items)) /\ ToSet(todo) = owed
  <2>1. doitems \ processeditems \subseteq ToSet(Items)
    BY <1>1 DEF TypeOK
  <2>2. QED
    BY <1>3, <2>1, ItemsTyped
<1> HIDE DEF todo
<1>5. /\ items \in Seq(ToSet(Items)) /\ ToSet(items) \subseteq owed
      /\ Len(items) <= room /\ Len(items) \in Nat
      /\ Fits(todo, room) => ToSet(items) = owed
  BY <1>1, <1>4, FitIsFront
<1> HIDE DEF items
<1>6. cands \in Seq(Source) /\ ToSet(cands) \subseteq Known /\ left \in Nat
  BY <1>1, <1>5, BlocksTyped
<1> HIDE DEF cands, left
<1>7. blocks \in Seq(Source) /\ ToSet(blocks) \subseteq Known
  <2>1. Fit(cands, left) \in Seq(Source) /\ ToSet(Fit(cands, left)) \subseteq Known
    BY <1>6, FitIsFront
  <2>2. <<>> \in Seq(Source) /\ ToSet(<<>>) \subseteq Known
    BY DEF ToSet
  <2>3. QED
    BY <2>1, <2>2
<1> HIDE DEF blocks
<1>8. processeditems' = IF processingsdes' THEN processeditems \cup ToSet(items) ELSE {}
  BY <1>2 DEF FlagsAfter
<1>9. TypeOK'
  <2>1. processed' \subseteq Known
    BY <1>1, <1>2, <1>7 DEF TypeOK
  <2>2. processingsdes' \in BOOLEAN
    BY <1>2
  <2>3. /\ sdesbuildcount' \in 0 .. Cycle - 1 /\ doitems' \subseteq ToSet(Items)
        /\ processeditems' \subseteq doitems'
    BY <1>1, <1>2, <1>3, <1>5, <1>8 DEF TypeOK
  <2>4. QED
    BY <1>1, <1>2, <1>5, <1>7, <2>1, <2>2, <2>3, BuildTyped
<1>10. OwedIsLeft'
  BY <1>2, <1>3, <1>5, <1>8 DEF OwedIsLeft
<1>11. packet'.items = items
  BY <1>2 DEF EndBuild
<1>12. QED
  BY <1>2, <1>5, <1>9, <1>10, <1>11 DEF BuilderInv

(* The source table changes between builds; the items do not.              *)
LEMMA SourcesStep ==
  ASSUME BuilderInv, NEW s \in Source,
         AddSource(s) \/ RemoveSource(s) \/ ReceiveData(s) \/ SetCSRC(s)
  PROVE  BuilderInv'
<1>1. TypeOK /\ OwedIsLeft
  BY DEF BuilderInv
<1>2. /\ processingsdes' = processingsdes /\ sdesbuildcount' = sdesbuildcount
      /\ doitems' = doitems /\ processeditems' = processeditems /\ owed' = owed
      /\ packet' = packet /\ firstpacket' = firstpacket
  BY DEF AddSource, RemoveSource, ReceiveData, SetCSRC, sdes
<1>3. OwedIsLeft'
  BY <1>1, <1>2 DEF OwedIsLeft
<1>4. /\ list' \in Seq(Source) /\ IsInjective(list')
      /\ sentdata' \subseteq Known' /\ csrc' \subseteq Known'
      /\ recent' \subseteq sentdata' /\ processed' \subseteq Known'
  <2>1. CASE AddSource(s)
    <3>1. /\ list' = Append(list, s) /\ s \notin Known /\ sentdata' = sentdata
          /\ csrc' = csrc /\ recent' = recent /\ processed' = processed
      BY <2>1 DEF AddSource
    <3>2. /\ list' \in Seq(Source) /\ Len(list') = Len(list) + 1 /\ Len(list) \in Nat
          /\ \A i \in 1 .. Len(list) : list'[i] = list[i]
          /\ list'[Len(list) + 1] = s
      BY <1>1, <3>1 DEF TypeOK
    <3>3. Distinct(list) /\ Known = Elements(list) /\ Known' = Elements(list')
      <4>1. list \in Seq(Source) /\ IsInjective(list)
        BY <1>1 DEF TypeOK
      <4>2. Distinct(list) /\ ToSet(list) = Elements(list)
        BY <4>1, ToSetElements, InjectiveDistinct
      <4>3. ToSet(list') = Elements(list')
        BY <3>2, ToSetElements, InjectiveDistinct
      <4>4. QED
        BY <4>2, <4>3 DEF Known
    <3>4. Distinct(list')
      <4>1. \A i \in 1 .. Len(list) : list[i] # s
        BY <3>1, <3>3 DEF Elements
      <4>2. QED
        BY <3>2, <3>3, <4>1 DEF Distinct
    <3>5. Known \subseteq Known'
      BY <3>2, <3>3 DEF Elements
    <3>6. IsInjective(list')
      BY <3>2, <3>4, ToSetElements, InjectiveDistinct
    <3>7. QED
      BY <1>1, <3>1, <3>2, <3>5, <3>6 DEF TypeOK
  <2>2. CASE RemoveSource(s)
    <3>1. /\ list' = Among(list, Known \ {s}) /\ sentdata' = sentdata \ {s}
          /\ csrc' = csrc \ {s} /\ recent' = recent \ {s} /\ processed' = processed \ {s}
      BY <2>2 DEF RemoveSource
    <3>2. /\ list' \in Seq(Source) /\ IsInjective(list')
          /\ ToSet(list') = Known \ {s}
      BY <1>1, <3>1, AmongPicks DEF TypeOK, Known
    <3>3. QED
      BY <1>1, <3>1, <3>2 DEF TypeOK, Known
  <2>3. CASE ReceiveData(s) \/ SetCSRC(s)
    <3>1. list' = list /\ Known' = Known /\ s \in Known /\ processed' = processed
      BY <2>3 DEF ReceiveData, SetCSRC, Known
    <3>2. QED
      BY <1>1, <2>3, <3>1 DEF TypeOK, ReceiveData, SetCSRC
  <2>4. QED
    BY <2>1, <2>2, <2>3
<1>5. TypeOK'
  BY <1>1, <1>2, <1>4 DEF TypeOK
<1>6. QED
  BY <1>3, <1>5 DEF BuilderInv

LEMMA BuilderStep ==
  ASSUME BuilderInv, [Next]_vars
  PROVE  BuilderInv' /\ Schedule
<1>1. ASSUME Build
      PROVE  BuilderInv' /\ ToSet(packet'.items) \subseteq
                              (IF processingsdes THEN owed ELSE doitems')
  <2>0. UNCHANGED sources
    BY <1>1 DEF Build
  <2>1. PICK room \in Rooms : BuildReports(room) \/ BuildReportsAndItems(room) \/ BuildItems(room)
    BY <1>1 DEF Build
  <2>2. CASE BuildReports(room)
    <3>1. BuilderInv' /\ packet'.items = <<>>
      BY <2>0, <2>2, ReportsStep
    <3>2. ToSet(<<>>) = {}
      BY DEF ToSet
    <3>3. QED
      BY <3>1, <3>2
  <2>3. CASE BuildReportsAndItems(room)
    <3>1. ~processingsdes
      BY <2>3 DEF BuildReportsAndItems
    <3>2. QED
      BY <2>0, <2>3, <3>1, ReportsAndItemsStep
  <2>4. CASE BuildItems(room)
    BY <2>0, <2>4, ItemsStep
  <2>5. QED
    BY <2>1, <2>2, <2>3, <2>4
<1>2. BuilderInv'
  <2>1. CASE Build
    BY <1>1, <2>1
  <2>2. CASE UNCHANGED vars
    BY <2>2 DEF vars, sources, sdes, BuilderInv, TypeOK, OwedIsLeft, Known
  <2>3. ASSUME NEW s \in Source,
               AddSource(s) \/ RemoveSource(s) \/ ReceiveData(s) \/ SetCSRC(s)
        PROVE  BuilderInv'
    BY <2>3, SourcesStep
  <2>4. QED
    BY <2>1, <2>2, <2>3 DEF Next, Join
<1>3. ~processingsdes' => owed' = {}
  BY <1>2 DEF BuilderInv, OwedIsLeft
<1>4. QED
  BY <1>1, <1>2, <1>3 DEF Schedule

(* The builder's sets and sequences keep their form.                       *)
THEOREM TypeCorrect == Spec => []TypeOK
<1>1. BuilderInv /\ [Next]_vars => BuilderInv'
  BY BuilderStep
<1>2. BuilderInv => TypeOK
  BY DEF BuilderInv
<1>3. QED
  BY InitInv, <1>1, <1>2, PTL DEF Spec

(* However little fits in a packet and however the source table changes in *)
(* between, a round of SDES items ends only when each item due in it has   *)
(* been sent, and none is sent that is not due or was sent before.         *)
THEOREM ItemsAlwaysOnSchedule == Spec => ItemsOnSchedule
<1>1. BuilderInv /\ [Next]_vars => BuilderInv'
  BY BuilderStep
<1>2. BuilderInv /\ [Next]_vars => [Schedule]_vars
  BY BuilderStep
<1>3. QED
  BY InitInv, <1>1, <1>2, PTL DEF Spec, ItemsOnSchedule, Schedule
=============================================================================
