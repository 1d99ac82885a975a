-------------------------- MODULE EndpointsProofs --------------------------
(***************************************************************************)
(* What the transmitters and the ends of the app keep, for any numbers of  *)
(* sockets, packets, waits and restarts.                                   *)
(***************************************************************************)
EXTENDS Endpoints, FiniteSetTheorems, SequenceTheorems, WellFoundedInduction,
        TLAPS

-----------------------------------------------------------------------------
(* The TCP transmitter carries whole packets: for every base of the bytes, *)
(* every set of packets, any number of connections and pieces of any size, *)
(* what a receiver puts together is what its peer sent, packet by packet.  *)
(* The invariant says how the packets lie in the bytes that a connection   *)
(* still holds (Stream); the lemmas say what a packet sent, a packet cut   *)
(* off and a packet received make of it.                                   *)

(* Induction, as far as it can be had of sets.                             *)

LEMMA LeastNat ==
  ASSUME NEW T, T \subseteq Nat, T # {}
  PROVE  \E m \in T : \A n \in T : m <= n
<1> DEFINE Lt == {ss \in Nat \X Nat : ss[1] < ss[2]}
<1>1. IsWellFoundedOn(Lt, Nat)
  BY NatLessThanWellFounded DEF OpToRel
<1>2. PICK m \in T : \A n \in T : ~(<<n, m>> \in Lt)
  <2> HIDE DEF Lt
  <2> QED
    BY <1>1, WFMin
<1>3. \A n \in T : ~(n < m)
  BY <1>2
<1>4. QED
  BY <1>3

LEMMA Induction ==
  ASSUME NEW S, 0 \in S, \A n \in Nat : n \in S => n + 1 \in S
  PROVE  Nat \subseteq S
<1>1. SUFFICES ASSUME Nat \ S # {} PROVE FALSE
  OBVIOUS
<1>2. PICK m \in Nat \ S : \A n \in Nat \ S : m <= n
  BY <1>1, LeastNat
<1>3. m # 0 /\ m - 1 \in Nat /\ m - 1 \in S
  BY <1>2
<1>4. QED
  BY <1>2, <1>3

-----------------------------------------------------------------------------
(* The TCP transmitter as a channel.  R is what a connection holds that    *)
(* was not put together yet: length bytes, data, and the bytes under way.  *)
(* From the k-th on, the packets of out lie in it one behind the other, at *)
(* the places that pos tells; what follows the last is nothing, or the     *)
(* beginning of a packet that the peer did not send to its end, or that    *)
(* and whatever it wrote afterwards.                                       *)

HeaderAt(R, x, p) ==
  /\ x + 1 <= Len(R) => R[x + 1] = Len(p) \div Base
  /\ x + 2 <= Len(R) => R[x + 2] = Len(p) % Base

PacketAt(R, x, p) ==
  /\ x + 2 + Len(p) <= Len(R)
  /\ HeaderAt(R, x, p)
  /\ \A j \in 1 .. Len(p) : R[x + 2 + j] = p[j]

CutOff(R, x, f) ==
  /\ x <= Len(R)
  /\ f \notin {"cut", "astray"} => x = Len(R)
  /\ x < Len(R) /\ f # "astray" =>
       \E p \in Packet : Len(R) - x < 2 + Len(p) /\ HeaderAt(R, x, p)

Layout(R, out, k, f, pos) ==
  /\ pos \in [k .. Len(out) -> Nat]
  /\ pos[k] = 0
  /\ \A i \in (k + 1) .. Len(out) :
       pos[i] = pos[i - 1] + 2 + Len(out[i]) /\ PacketAt(R, pos[i - 1], out[i])
  /\ CutOff(R, pos[Len(out)], f)

Stream(R, out, k, f) == k <= Len(out) /\ \E pos : Layout(R, out, k, f, pos)

LEMMA LengthBytesOf ==
  ASSUME TCPAssumption, NEW p \in Packet
  PROVE  LengthBytes(p) \in Seq(Byte) /\ Len(LengthBytes(p)) = 2
<1>1. p \in Seq(Byte) /\ Len(p) \in Nat /\ Len(p) <= MaxPacketSize
  BY DEF TCPAssumption
<1>2. Base \in Nat /\ Base > 1 /\ Len(p) < Base * Base
  BY <1>1 DEF TCPAssumption, MaxPacketSize
<1>3. Len(p) \div Base \in Byte /\ Len(p) % Base \in Byte
  BY <1>1, <1>2 DEF Byte
<1>4. QED
  BY <1>3 DEF LengthBytes

LEMMA BytesOf ==
  ASSUME TCPAssumption, NEW p \in Packet
  PROVE  /\ p \in Seq(Byte) /\ Len(p) \in Nat
         /\ Bytes(p) \in Seq(Byte) /\ Len(Bytes(p)) = 2 + Len(p)
         /\ Bytes(p)[1] = Len(p) \div Base /\ Bytes(p)[2] = Len(p) % Base
         /\ \A j \in 1 .. Len(p) : Bytes(p)[2 + j] = p[j]
<1>1. p \in Seq(Byte) /\ Len(p) \in Nat
  BY DEF TCPAssumption
<1>2. LengthBytes(p) \in Seq(Byte) /\ Len(LengthBytes(p)) = 2
  BY LengthBytesOf
<1>3. QED
  BY <1>1, <1>2 DEF Bytes, LengthBytes

(* A connection that has just been made, nothing of it sent or read.       *)
LEMMA StreamBegins == Stream(<<>>, <<>>, 0, "whole")
<1> DEFINE pos == [i \in 0 .. 0 |-> 0]
<1>1. Layout(<<>>, <<>>, 0, "whole", pos)
  BY DEF Layout, CutOff
<1>2. QED
  BY <1>1 DEF Stream

LEMMA Joined ==
  ASSUME NEW S, NEW a \in Seq(S), NEW b \in Seq(S), NEW c, c = a \o b
  PROVE  /\ c \in Seq(S) /\ Len(a) \in Nat /\ Len(b) \in Nat
         /\ Len(c) = Len(a) + Len(b)
         /\ \A i \in 1 .. Len(a) : c[i] = a[i]
         /\ \A i \in 1 .. Len(b) : c[Len(a) + i] = b[i]
OBVIOUS

(* Concatenation under a name of its own, so that it is taken apart only  *)
(* where that is wanted.                                                   *)
Cat(x, y) == x \o y

(* What lies in a sequence stays when more comes behind it.                *)
LEMMA LongerStream ==
  ASSUME NEW R, NEW Q, Len(R) \in Nat, Len(Q) \in Nat, Len(R) <= Len(Q),
         \A i \in 1 .. Len(R) : Q[i] = R[i],
         NEW x \in Nat, NEW p \in Seq(Byte), PacketAt(R, x, p)
  PROVE  PacketAt(Q, x, p)
<1>1. x + 2 + Len(p) <= Len(R) /\ Len(p) \in Nat
  BY DEF PacketAt
<1>2. HeaderAt(Q, x, p)
  BY <1>1 DEF PacketAt, HeaderAt
<1>3. \A j \in 1 .. Len(p) : Q[x + 2 + j] = p[j]
  <2> TAKE j \in 1 .. Len(p)
  <2>1. R[x + 2 + j] = p[j]
    BY DEF PacketAt
  <2>2. x + 2 + j \in 1 .. Len(R)
    BY <1>1
  <2>3. QED
    BY <2>1, <2>2
<1>4. QED
  BY <1>1, <1>2, <1>3 DEF PacketAt

LEMMA StreamGrows ==
  ASSUME TCPAssumption, NEW R \in Seq(Byte), NEW out \in Seq(Packet), NEW k \in Nat,
         Stream(R, out, k, "whole"), NEW p \in Packet
  PROVE  Stream(R \o Bytes(p), Append(out, p), k, "whole")
<1>1. k <= Len(out) /\ Len(out) \in Nat
  BY DEF Stream
<1>2. PICK pos : Layout(R, out, k, "whole", pos)
  BY DEF Stream
<1> DEFINE new == Append(out, p)
           Q == R \o Bytes(p)
           next == [i \in k .. Len(new) |->
                      IF i = Len(new) THEN Len(R) + 2 + Len(p) ELSE pos[i]]
<1>3. /\ Len(new) = Len(out) + 1 /\ new[Len(new)] = p
      /\ \A i \in 1 .. Len(out) : new[i] = out[i]
  OBVIOUS
<1>4. /\ pos \in [k .. Len(out) -> Nat] /\ pos[k] = 0 /\ pos[Len(out)] = Len(R)
      /\ \A i \in (k + 1) .. Len(out) :
           pos[i] = pos[i - 1] + 2 + Len(out[i]) /\ PacketAt(R, pos[i - 1], out[i])
  BY <1>2 DEF Layout, CutOff
<1>d. pos \in [k .. Len(out) -> Nat]
  BY <1>4
<1>a. Bytes(p) \in Seq(Byte)
  BY BytesOf
<1>b. Len(p) \in Nat /\ Len(Bytes(p)) = 2 + Len(p)
  BY BytesOf
<1> HIDE DEF Q
<1>c. /\ Len(R) \in Nat /\ Len(Q) = Len(R) + Len(Bytes(p))
      /\ \A i \in 1 .. Len(R) : Q[i] = R[i]
      /\ \A i \in 1 .. Len(Bytes(p)) : Q[Len(R) + i] = Bytes(p)[i]
  <2>1. Q = R \o Bytes(p) /\ R \in Seq(Byte)
    BY DEF Q
  <2>2. Len(R) \in Nat /\ Len(Q) = Len(R) + Len(Bytes(p))
    BY <1>a, <2>1
  <2>3. \A i \in 1 .. Len(R) : Q[i] = R[i]
    BY <1>a, <2>1
  <2>4. \A i \in 1 .. Len(Bytes(p)) : Q[Len(R) + i] = Bytes(p)[i]
    BY <1>a, <2>1
  <2>5. QED
    BY <2>2, <2>3, <2>4
<1>5. Len(Q) = Len(R) + 2 + Len(p) /\ Len(p) \in Nat /\ Len(R) \in Nat
  BY <1>b, <1>c
<1>6. PacketAt(Q, Len(R), p)
  <2>1. \A j \in 1 .. 2 + Len(p) : Q[Len(R) + j] = Bytes(p)[j]
    BY <1>b, <1>c
  <2>2. HeaderAt(Q, Len(R), p)
    <3>1. Q[Len(R) + 1] = Bytes(p)[1] /\ Q[Len(R) + 2] = Bytes(p)[2]
      <4>1. 1 \in 1 .. 2 + Len(p) /\ 2 \in 1 .. 2 + Len(p)
        BY <1>5
      <4>2. QED
        BY <2>1, <4>1, Zenon
    <3>2. QED
      BY <3>1, BytesOf DEF HeaderAt
  <2>3. \A j \in 1 .. Len(p) : Q[Len(R) + 2 + j] = p[j]
    <3> TAKE j \in 1 .. Len(p)
    <3>1. 2 + j \in 1 .. 2 + Len(p) /\ Len(R) + 2 + j = Len(R) + (2 + j)
      BY <1>5
    <3>2. QED
      BY <2>1, <3>1, BytesOf
  <2>4. QED
    BY <1>5, <2>2, <2>3 DEF PacketAt
<1>7. \A i \in (k + 1) .. Len(out) : PacketAt(Q, pos[i - 1], out[i])
  <2> TAKE i \in (k + 1) .. Len(out)
  <2>1. out[i] \in Seq(Byte)
    <3>1. i \in 1 .. Len(out)
      BY <1>1
    <3>2. QED
      BY <3>1 DEF TCPAssumption
  <2>2. i - 1 \in k .. Len(out)
    BY <1>1
  <2>3. pos[i - 1] \in Nat
    BY <1>d, <2>2
  <2>4. PacketAt(R, pos[i - 1], out[i])
    BY <1>4
  <2>5. Len(Q) \in Nat /\ Len(R) <= Len(Q)
    BY <1>5
  <2>6. QED
    BY <1>c, <2>1, <2>3, <2>4, <2>5, LongerStream
<1> HIDE DEF new
<1>8. next \in [k .. Len(new) -> Nat] /\ next[k] = 0 /\ next[Len(new)] = Len(Q)
  BY <1>1, <1>3, <1>4, <1>5
<1>9. \A i \in (k + 1) .. Len(new) :
        next[i] = next[i - 1] + 2 + Len(new[i]) /\ PacketAt(Q, next[i - 1], new[i])
  <2> TAKE i \in (k + 1) .. Len(new)
  <2>1. CASE i = Len(new)
    <3>1. next[i - 1] = Len(R) /\ next[i] = Len(R) + 2 + Len(p) /\ new[i] = p
      BY <1>1, <1>3, <1>4, <2>1
    <3> HIDE DEF next
    <3>2. QED
      BY <1>5, <1>6, <3>1
  <2>2. CASE i # Len(new)
    <3>1. i \in (k + 1) .. Len(out) /\ next[i] = pos[i] /\ next[i - 1] = pos[i - 1]
          /\ new[i] = out[i]
      BY <1>1, <1>3, <2>2
    <3>2. QED
      BY <1>4, <1>7, <3>1
  <2>3. QED
    BY <2>1, <2>2
<1>10. CutOff(Q, next[Len(new)], "whole")
  BY <1>5, <1>8 DEF CutOff
<1> HIDE DEF next
<1>11. Layout(Q, new, k, "whole", next)
  BY <1>8, <1>9, <1>10 DEF Layout
<1>12. Stream(Q, new, k, "whole")
  <2>1. k <= Len(new)
    BY <1>1, <1>3
  <2>2. QED
    BY <1>11, <2>1 DEF Stream
<1>13. QED
  BY <1>12 DEF Q, new

(* The peer does not send a packet to its end.                             *)
LEMMA StreamBreaks ==
  ASSUME TCPAssumption, NEW R \in Seq(Byte), NEW out \in Seq(Packet), NEW k \in Nat,
         Stream(R, out, k, "whole"), NEW p \in Packet,
         NEW n \in Nat, n < 2 + Len(p)
  PROVE  Stream(R \o SubSeq(Bytes(p), 1, n), out, k, "cut")
<1> DEFINE Q == R \o SubSeq(Bytes(p), 1, n)
<1>1. k <= Len(out) /\ Len(out) \in Nat
  BY DEF Stream
<1>2. PICK pos : Layout(R, out, k, "whole", pos)
  BY DEF Stream
<1>4. /\ pos[k] = 0 /\ pos[Len(out)] = Len(R)
      /\ \A i \in (k + 1) .. Len(out) :
           pos[i] = pos[i - 1] + 2 + Len(out[i]) /\ PacketAt(R, pos[i - 1], out[i])
  BY <1>2 DEF Layout, CutOff
<1>d. pos \in [k .. Len(out) -> Nat]
  BY <1>2 DEF Layout
<1>a. Bytes(p) \in Seq(Byte)
  BY BytesOf
<1>b. Len(p) \in Nat /\ Len(Bytes(p)) = 2 + Len(p) /\ n \in Nat /\ n < 2 + Len(p)
  BY BytesOf
<1>p. PICK B : B = SubSeq(Bytes(p), 1, n)
  OBVIOUS
<1>e. /\ B \in Seq(Byte) /\ Len(B) = n
      /\ \A j \in 1 .. n : B[j] = Bytes(p)[j]
  BY <1>a, <1>b, <1>p
<1>q. Q = R \o B
  BY <1>p
<1> HIDE DEF Q
<1>c. /\ Len(R) \in Nat /\ Len(Q) = Len(R) + n
      /\ \A i \in 1 .. Len(R) : Q[i] = R[i]
      /\ \A i \in 1 .. n : Q[Len(R) + i] = B[i]
  <2>1. Len(R) \in Nat /\ Len(Q) = Len(R) + Len(B)
    <3>1. B \in Seq(Byte)
      BY <1>e
    <3> HIDE DEF Byte
    <3>2. QED
      BY ONLY <1>q, <3>1, R \in Seq(Byte), Joined
  <2>2. \A i \in 1 .. Len(R) : Q[i] = R[i]
    BY <1>e, <1>q, Joined
  <2>3. \A i \in 1 .. Len(B) : Q[Len(R) + i] = B[i]
    BY <1>e, <1>q, Joined
  <2>4. QED
    BY <1>e, <2>1, <2>2, <2>3
<1>7. \A i \in (k + 1) .. Len(out) : PacketAt(Q, pos[i - 1], out[i])
  <2> TAKE i \in (k + 1) .. Len(out)
  <2>1. out[i] \in Seq(Byte)
    <3>1. i \in 1 .. Len(out)
      BY <1>1
    <3>2. QED
      BY <3>1 DEF TCPAssumption
  <2>2. i - 1 \in k .. Len(out)
    BY <1>1
  <2>3. pos[i - 1] \in Nat
    BY <1>d, <2>2
  <2>4. PacketAt(R, pos[i - 1], out[i])
    BY <1>4
  <2>5. Len(Q) \in Nat /\ Len(R) <= Len(Q)
    BY <1>b, <1>c
  <2>6. Len(R) \in Nat /\ \A j \in 1 .. Len(R) : Q[j] = R[j]
    BY <1>c
  <2> HIDE DEF PacketAt
  <2>7. QED
    BY <2>1, <2>3, <2>4, <2>5, <2>6, LongerStream
<1>8. HeaderAt(Q, Len(R), p)
  <2>1. n >= 1 => Q[Len(R) + 1] = Len(p) \div Base
    BY <1>b, <1>c, <1>e, BytesOf
  <2>2. n >= 2 => Q[Len(R) + 2] = Len(p) % Base
    BY <1>b, <1>c, <1>e, BytesOf
  <2>3. QED
    BY <1>b, <1>c, <2>1, <2>2 DEF HeaderAt
<1>9. CutOff(Q, pos[Len(out)], "cut")
  BY <1>b, <1>c, <1>4, <1>8 DEF CutOff
<1>10. Layout(Q, out, k, "cut", pos)
  BY <1>4, <1>d, <1>7, <1>9 DEF Layout
<1>11. Stream(Q, out, k, "cut")
  BY <1>1, <1>10 DEF Stream
<1>12. QED
  BY <1>11 DEF Q

(* Whatever the peer writes, the packets before it lie where they did.     *)
LEMMA StreamAstray ==
  ASSUME TCPAssumption, NEW R \in Seq(Byte), NEW out \in Seq(Packet), NEW k \in Nat,
         NEW f, Stream(R, out, k, f), NEW B \in Seq(Byte)
  PROVE  Stream(Cat(R, B), out, k, "astray")
<1>0. PICK Q : Q = R \o B
  OBVIOUS
<1>1. k <= Len(out) /\ Len(out) \in Nat
  BY DEF Stream
<1>2. PICK pos : Layout(R, out, k, f, pos)
  BY DEF Stream
<1>4. /\ pos[k] = 0 /\ pos[Len(out)] <= Len(R)
      /\ \A i \in (k + 1) .. Len(out) :
           pos[i] = pos[i - 1] + 2 + Len(out[i]) /\ PacketAt(R, pos[i - 1], out[i])
  BY <1>2 DEF Layout, CutOff
<1>d. pos \in [k .. Len(out) -> Nat]
  BY <1>2 DEF Layout
<1>c. /\ Len(R) \in Nat /\ Len(Q) \in Nat /\ Len(R) <= Len(Q)
      /\ \A i \in 1 .. Len(R) : Q[i] = R[i]
  <2> HIDE DEF Byte
  <2>1. /\ Len(R) \in Nat /\ Len(B) \in Nat /\ Len(Q) = Len(R) + Len(B)
        /\ \A i \in 1 .. Len(R) : Q[i] = R[i]
    BY ONLY <1>0, R \in Seq(Byte), B \in Seq(Byte), Joined
  <2>2. QED
    BY <2>1
<1>7. \A i \in (k + 1) .. Len(out) : PacketAt(Q, pos[i - 1], out[i])
  <2> TAKE i \in (k + 1) .. Len(out)
  <2>1. out[i] \in Seq(Byte)
    <3>1. i \in 1 .. Len(out)
      BY <1>1
    <3>2. QED
      BY <3>1 DEF TCPAssumption
  <2>2. i - 1 \in k .. Len(out)
    BY <1>1
  <2>3. pos[i - 1] \in Nat
    BY <1>d, <2>2
  <2>4. PacketAt(R, pos[i - 1], out[i])
    BY <1>4
  <2> HIDE DEF PacketAt
  <2>5. QED
    BY <1>c, <2>1, <2>3, <2>4, LongerStream
<1>8. CutOff(Q, pos[Len(out)], "astray")
  <2>1. pos[Len(out)] \in Nat
    <3>1. Len(out) \in k .. Len(out)
      BY <1>1
    <3>2. QED
      BY <1>d, <3>1
  <2>2. QED
    BY <1>c, <1>4, <2>1 DEF CutOff
<1>9. Layout(Q, out, k, "astray", pos)
  BY <1>4, <1>d, <1>7, <1>8 DEF Layout
<1>10. QED
  BY <1>0, <1>1, <1>9 DEF Stream, Cat

LEMMA Higher ==
  ASSUME NEW a \in Nat, NEW b \in Nat, NEW c \in Nat, NEW d, a >= b, d = a + 2 + c
  PROVE  d >= b
OBVIOUS

LEMMA Lower ==
  ASSUME NEW a \in Nat, NEW b \in Nat, NEW c \in Nat, NEW d, a >= b, d = a + 2 + c
  PROVE  d - b = (a - b) + 2 + c
OBVIOUS

LEMMA Shifted ==
  ASSUME NEW a \in Nat, NEW q \in Nat, NEW len \in Nat, NEW x \in Nat, NEW skip \in Nat,
         q + skip = a, x >= skip
  PROVE  /\ x - skip \in Nat
         /\ x + 2 + len <= a => (x - skip) + 2 + len <= q
         /\ a - x < 2 + len => q - (x - skip) < 2 + len
OBVIOUS

LEMMA Within ==
  ASSUME NEW q \in Nat, NEW len \in Nat, NEW x \in Nat, NEW skip \in Nat, NEW y \in Nat,
         x >= skip, y = x - skip, y + 2 + len <= q, NEW j \in 1 .. len
  PROVE  y + 2 + j \in 1 .. q /\ skip + (y + 2 + j) = x + 2 + j
OBVIOUS

Announced(R, len) ==
  Len(R) >= 2 /\ len = R[1] * Base + R[2] /\ Len(R) >= 2 + len

(* When the two length bytes and as many bytes as they say are there, they *)
(* are the next packet, whole; what the peer did not send to its end is    *)
(* never taken for one.                                                    *)
LEMMA FirstPacket ==
  ASSUME TCPAssumption, NEW R \in Seq(Byte), NEW out \in Seq(Packet), NEW k \in Nat,
         NEW f, Stream(R, out, k, f),
         f = "astray" => k < Len(out),
         NEW len \in Nat, Announced(R, len)
  PROVE  /\ k < Len(out) /\ Len(out[k + 1]) = len
         /\ \A j \in 1 .. len : R[2 + j] = out[k + 1][j]
<1>0. Len(R) \in Nat /\ Base \in Nat /\ Base > 1 /\ Len(out) \in Nat /\ k <= Len(out)
  BY DEF TCPAssumption, Stream
<1>9. Len(R) >= 2 /\ Len(R) >= 2 + len
  BY DEF Announced
<1>1. PICK pos : Layout(R, out, k, f, pos)
  BY DEF Stream
<1>2. /\ pos[k] = 0
      /\ \A i \in (k + 1) .. Len(out) :
           pos[i] = pos[i - 1] + 2 + Len(out[i]) /\ PacketAt(R, pos[i - 1], out[i])
      /\ CutOff(R, pos[Len(out)], f)
  BY <1>1 DEF Layout
<1>3. pos \in [k .. Len(out) -> Nat]
  BY <1>1 DEF Layout
<1>4. ASSUME NEW p \in Packet, HeaderAt(R, 0, p)
      PROVE  Len(p) = len
  <2>1. R[1] = Len(p) \div Base /\ R[2] = Len(p) % Base
    BY <1>0, <1>9, <1>4 DEF HeaderAt
  <2>2. Len(p) \in Nat
    BY BytesOf
  <2>3. (Len(p) \div Base) * Base + (Len(p) % Base) = Len(p)
    BY <1>0, <2>2
  <2>4. len = R[1] * Base + R[2]
    BY DEF Announced
  <2>5. QED
    BY <2>1, <2>3, <2>4
<1>5. k < Len(out)
  <2>1. SUFFICES ASSUME k = Len(out) PROVE FALSE
    BY <1>0
  <2>2. CutOff(R, 0, f)
    BY <1>2, <2>1
  <2>3. PICK p \in Packet : Len(R) - 0 < 2 + Len(p) /\ HeaderAt(R, 0, p)
    BY <1>0, <1>9, <2>1, <2>2 DEF CutOff
  <2>4. QED
    BY <1>0, <1>9, <1>4, <2>3
<1>6. PacketAt(R, 0, out[k + 1]) /\ out[k + 1] \in Packet /\ Len(out[k + 1]) \in Nat
  <2>1. k + 1 \in (k + 1) .. Len(out) /\ k + 1 \in 1 .. Len(out) /\ (k + 1) - 1 = k
    BY <1>0, <1>5
  <2>2. out[k + 1] \in Packet
    BY <2>1
  <2>3. QED
    BY <1>2, <2>1, <2>2, BytesOf
<1>7. Len(out[k + 1]) = len /\ \A j \in 1 .. len : R[2 + j] = out[k + 1][j]
  <2>1. Len(out[k + 1]) = len
    BY <1>4, <1>6 DEF PacketAt
  <2>2. \A j \in 1 .. len : R[0 + 2 + j] = out[k + 1][j]
    BY <1>6, <2>1 DEF PacketAt
  <2>3. QED
    BY <2>1, <2>2
<1>8. QED
  BY <1>5, <1>7

Rest(Q, R, p, skip) ==
  /\ skip = 2 + Len(p)
  /\ Len(Q) = Len(R) - skip
  /\ \A j \in 1 .. Len(Q) : Q[j] = R[skip + j]

(* With the first packet taken away, the next begins at the front.         *)
LEMMA StreamTaken ==
  ASSUME TCPAssumption, NEW R \in Seq(Byte), NEW out \in Seq(Packet), NEW k \in Nat,
         NEW f, Stream(R, out, k, f), k < Len(out),
         NEW skip \in Nat, NEW Q \in Seq(Byte), Rest(Q, R, out[k + 1], skip)
  PROVE  Stream(Q, out, k + 1, f)
<1>0. /\ Len(R) \in Nat /\ Len(out) \in Nat /\ Len(Q) \in Nat
      /\ Len(Q) + skip = Len(R)
  BY DEF Rest
<1>1. PICK pos : Layout(R, out, k, f, pos)
  BY DEF Stream
<1>2. /\ pos[k] = 0
      /\ \A i \in (k + 1) .. Len(out) :
           pos[i] = pos[i - 1] + 2 + Len(out[i]) /\ PacketAt(R, pos[i - 1], out[i])
      /\ CutOff(R, pos[Len(out)], f)
  BY <1>1 DEF Layout
<1>3. pos \in [k .. Len(out) -> Nat]
  BY <1>1 DEF Layout
<1>4. \A j \in 1 .. Len(Q) : Q[j] = R[skip + j]
  BY DEF Rest
<1>5. k < Len(out)
  OBVIOUS
<1> DEFINE next == [i \in (k + 1) .. Len(out) |-> pos[i] - skip]
<1>8. pos[k + 1] = skip
  <2>1. k + 1 \in (k + 1) .. Len(out) /\ (k + 1) - 1 = k
    BY <1>0, <1>5
  <2>2. pos[k + 1] = pos[k] + 2 + Len(out[k + 1])
    BY <1>2, <2>1
  <2>3. QED
    BY <1>2, <2>2 DEF Rest
<1>9. \A i \in (k + 2) .. Len(out) :
        /\ i \in 1 .. Len(out) /\ i - 1 \in (k + 1) .. Len(out) /\ i \in (k + 1) .. Len(out)
        /\ pos[i] = pos[i - 1] + 2 + Len(out[i]) /\ PacketAt(R, pos[i - 1], out[i])
        /\ pos[i] \in Nat /\ pos[i - 1] \in Nat
        /\ Len(out[i]) \in Nat
  <2> TAKE i \in (k + 2) .. Len(out)
  <2>1. /\ i \in 1 .. Len(out) /\ i - 1 \in (k + 1) .. Len(out)
        /\ i \in (k + 1) .. Len(out) /\ i \in k .. Len(out) /\ i - 1 \in k .. Len(out)
    BY <1>0, <1>5
  <2>2. pos[i] \in Nat /\ pos[i - 1] \in Nat
    BY <1>3, <2>1
  <2>3. out[i] \in Packet
    BY <2>1
  <2>4. QED
    BY <1>2, <2>1, <2>2, <2>3, BytesOf
(* The places ascend, by a least place that is too low.                    *)
<1>10. \A i \in (k + 1) .. Len(out) : pos[i] >= skip
  <2> DEFINE Low == {i \in Nat : i \in (k + 1) .. Len(out) => pos[i] >= skip}
  <2>1. 0 \in Low
    BY <1>0
  <2>2. ASSUME NEW i \in Nat, i \in Low PROVE i + 1 \in Low
    <3>1. SUFFICES ASSUME i + 1 \in (k + 1) .. Len(out) PROVE pos[i + 1] >= skip
      OBVIOUS
    <3>2. CASE i = k
      BY <1>0, <1>8, <3>2
    <3>3. CASE i # k
      <4>1. i + 1 \in (k + 2) .. Len(out) /\ (i + 1) - 1 = i /\ i \in (k + 1) .. Len(out)
        BY <1>0, <3>1, <3>3
      <4>2. pos[i] >= skip
        BY <2>2, <4>1
      <4>3. pos[i + 1] = pos[i] + 2 + Len(out[i + 1]) /\ Len(out[i + 1]) \in Nat
            /\ pos[i] \in Nat
        BY <1>9, <4>1
      <4>4. QED
        BY <4>2, <4>3, Higher
    <3>4. QED
      BY <3>2, <3>3
  <2> HIDE DEF Low
  <2>3. Nat \subseteq Low
    BY <2>1, <2>2, Induction
  <2>4. QED
    BY <1>0, <2>3 DEF Low
<1>11. next \in [(k + 1) .. Len(out) -> Nat] /\ next[k + 1] = 0
  <2>1. \A i \in (k + 1) .. Len(out) : pos[i] \in Nat
    <3> TAKE i \in (k + 1) .. Len(out)
    <3>1. i \in k .. Len(out)
      BY <1>0
    <3>2. QED
      BY <1>3, <3>1
  <2>2. \A i \in (k + 1) .. Len(out) : pos[i] - skip \in Nat
    BY <1>10, <2>1
  <2>3. k + 1 \in (k + 1) .. Len(out)
    BY <1>0, <1>5
  <2>4. QED
    BY <1>8, <2>2, <2>3
<1>12. \A i \in (k + 1) .. Len(out) : next[i] = pos[i] - skip
  OBVIOUS
<1> HIDE DEF next
<1>13. ASSUME NEW x \in Nat, x >= skip, NEW p \in Seq(Byte), HeaderAt(R, x, p)
       PROVE  HeaderAt(Q, x - skip, p)
  <2> DEFINE y == x - skip
  <2>1. y \in Nat /\ y + 1 <= Len(Q) => Q[y + 1] = R[x + 1]
    <3>1. y + 1 <= Len(Q) => y + 1 \in 1 .. Len(Q) /\ skip + (y + 1) = x + 1
      BY <1>0, <1>13 DEF y
    <3>2. QED
      BY <1>4, <3>1
  <2>2. y + 2 <= Len(Q) => Q[y + 2] = R[x + 2]
    <3>1. y + 2 <= Len(Q) => y + 2 \in 1 .. Len(Q) /\ skip + (y + 2) = x + 2
      BY <1>0, <1>13
    <3>2. QED
      BY <1>4, <3>1
  <2>3. y \in Nat /\ y + 1 <= Len(Q) => x + 1 <= Len(R)
    BY <1>0, <1>13
  <2>4. y + 2 <= Len(Q) => x + 2 <= Len(R)
    BY <1>0, <1>13
  <2>5. y \in Nat
    BY <1>13
  <2> HIDE DEF y
  <2>6. HeaderAt(Q, y, p)
    BY <1>13, <2>1, <2>2, <2>3, <2>4, <2>5 DEF HeaderAt
  <2>7. QED
    BY <2>6 DEF y
<1>14. ASSUME NEW x \in Nat, x >= skip, NEW p \in Seq(Byte), PacketAt(R, x, p)
       PROVE  PacketAt(Q, x - skip, p)
  <2> DEFINE y == x - skip
  <2>1. HeaderAt(Q, y, p)
    BY <1>13, <1>14 DEF PacketAt
  <2>2. Len(p) \in Nat /\ x + 2 + Len(p) <= Len(R) /\ \A j \in 1 .. Len(p) : R[x + 2 + j] = p[j]
    BY <1>14 DEF PacketAt
  <2>3. y + 2 + Len(p) <= Len(Q) /\ y \in Nat
    BY <1>0, <1>14, <2>2, Shifted
  <2>4. \A j \in 1 .. Len(p) : Q[y + 2 + j] = p[j]
    <3> TAKE j \in 1 .. Len(p)
    <3>1. y + 2 + j \in 1 .. Len(Q) /\ skip + (y + 2 + j) = x + 2 + j
      <4>1. \A len \in Nat : y + 2 + len <= Len(Q) =>
              \A i \in 1 .. len : y + 2 + i \in 1 .. Len(Q) /\ skip + (y + 2 + i) = x + 2 + i
        BY <1>0, <1>14, <2>3, Within
      <4>2. QED
        BY <2>2, <2>3, <4>1
    <3>2. QED
      BY <1>4, <2>2, <3>1
  <2> HIDE DEF y
  <2>5. PacketAt(Q, y, p)
    BY <2>1, <2>3, <2>4 DEF PacketAt
  <2>6. QED
    BY <2>5 DEF y
<1>15. \A i \in (k + 2) .. Len(out) :
         next[i] = next[i - 1] + 2 + Len(out[i]) /\ PacketAt(Q, next[i - 1], out[i])
  <2> TAKE i \in (k + 2) .. Len(out)
  <2>1. next[i] = pos[i] - skip /\ next[i - 1] = pos[i - 1] - skip
    BY <1>9, <1>12
  <2>2. pos[i - 1] >= skip /\ pos[i - 1] \in Nat /\ pos[i] \in Nat
        /\ Len(out[i]) \in Nat /\ pos[i] = pos[i - 1] + 2 + Len(out[i])
    BY <1>9, <1>10
  <2>3. out[i] \in Packet
    BY <1>9
  <2>4. out[i] \in Seq(Byte) /\ PacketAt(R, pos[i - 1], out[i])
    BY <1>9, <2>3, BytesOf
  <2>5. PacketAt(Q, next[i - 1], out[i])
    BY <1>14, <2>1, <2>2, <2>4
  <2>6. next[i] = next[i - 1] + 2 + Len(out[i])
    <3>1. PICK a \in Nat : a = pos[i - 1]
      BY <2>2
    <3>2. PICK c \in Nat : c = Len(out[i])
      BY <2>2
    <3>3. a >= skip /\ pos[i] = a + 2 + c
      BY <2>2, <3>1, <3>2
    <3>4. pos[i] - skip = (a - skip) + 2 + c
      BY <3>3, Lower
    <3>5. QED
      BY <2>1, <3>1, <3>2, <3>4
  <2>7. QED
    BY <2>5, <2>6
<1>16. CutOff(Q, next[Len(out)], f)
  <2>1. Len(out) \in (k + 1) .. Len(out) /\ Len(out) \in k .. Len(out)
    BY <1>0, <1>5
  <2>2. PICK x \in Nat : x = pos[Len(out)] /\ x >= skip
    BY <1>3, <1>10, <2>1
  <2>3. next[Len(out)] = x - skip
    BY <1>12, <2>1, <2>2
  <2>4. /\ x <= Len(R) /\ (f \notin {"cut", "astray"} => x = Len(R))
        /\ x < Len(R) /\ f # "astray" =>
             \E p \in Packet : Len(R) - x < 2 + Len(p) /\ HeaderAt(R, x, p)
    BY <1>2, <2>2 DEF CutOff
  <2>5. ASSUME x < Len(R), f # "astray"
        PROVE  \E p \in Packet : Len(Q) - (x - skip) < 2 + Len(p)
                                   /\ HeaderAt(Q, x - skip, p)
    <3>1. PICK p \in Packet : Len(R) - x < 2 + Len(p) /\ HeaderAt(R, x, p)
      BY <2>4, <2>5
    <3>2. p \in Seq(Byte) /\ Len(p) \in Nat
      BY BytesOf
    <3>3. HeaderAt(Q, x - skip, p)
      BY <1>13, <2>2, <3>1, <3>2
    <3>4. Len(Q) - (x - skip) < 2 + Len(p)
      BY <1>0, <2>2, <3>1, <3>2, Shifted
    <3>5. QED
      BY <3>3, <3>4
  <2> DEFINE y == x - skip
  <2>9. x <= Len(R)
    BY <2>4
  <2>6. y <= Len(Q) /\ (x = Len(R) => y = Len(Q)) /\ (y < Len(Q) => x < Len(R))
    BY <1>0, <2>2, <2>9
  <2> HIDE DEF y
  <2>7. CutOff(Q, y, f)
    BY <2>4, <2>5, <2>6 DEF CutOff, y
  <2>8. QED
    BY <2>3, <2>7 DEF y
<1>17. Layout(Q, out, k + 1, f, next)
  <2>1. (k + 1) + 1 = k + 2
    OBVIOUS
  <2>2. QED
    BY <1>11, <1>15, <1>16, <2>1 DEF Layout
<1>18. k + 1 <= Len(out)
  BY <1>0, <1>5
<1>19. QED
  BY <1>17, <1>18 DEF Stream

-----------------------------------------------------------------------------
(* What a connection holds, as it was sent.                                *)
Held(s) == Cat(Cat(lengthBuffer[s], dataBuffer[s]), wire[s])

InTheMaking(s) ==
  /\ Len(lengthBuffer[s]) <= 2
  /\ dataBuffer[s] # <<>> =>
       InData(s) /\ Len(dataBuffer[s]) < DataLength(lengthBuffer[s])

Flows == {"none", "whole", "cut", "astray"}
ConnectionsTyped ==
  /\ lengthBuffer \in [Connection -> Seq(Byte)]
  /\ dataBuffer \in [Connection -> Seq(Byte)]
  /\ wire \in [Connection -> Seq(Byte)]
  /\ flow \in [Connection -> Flows]
  /\ sent \in [Connection -> Seq(Packet)]
  /\ got \in [Connection -> Seq(Seq(Byte))]

(* When all that was sent whole has been put together, a stream that went  *)
(* astray may bring anything.                                              *)
Streams(s) ==
  \/ Stream(Held(s), sent[s], Len(got[s]), flow[s])
  \/ flow[s] = "astray" /\ Len(sent[s]) <= Len(got[s])

TCPInv ==
  /\ ConnectionsTyped
  /\ \A s \in Connection : InTheMaking(s)
  /\ \A s \in Connection \ destSockets : lengthBuffer[s] = <<>>
  /\ \A s \in destSockets \cap Connection : Streams(s)
  /\ NothingMadeUp

LEMMA TCPInitInv == TCPInit => TCPInv
<1> SUFFICES ASSUME TCPInit PROVE TCPInv
  OBVIOUS
<1>1. ConnectionsTyped
  BY DEF TCPInit, ConnectionsTyped, EachEmpty, Flows
<1>2. \A s \in Connection : InTheMaking(s)
  BY DEF TCPInit, InTheMaking, EachEmpty, InData
<1>3. \A s \in Connection : lengthBuffer[s] = <<>>
  BY DEF TCPInit, EachEmpty
<1>4. destSockets = {}
  BY DEF TCPInit
<1>5. NothingMadeUp
  BY DEF TCPInit, NothingMadeUp, EachEmpty
<1>6. QED
  BY <1>1, <1>2, <1>3, <1>4, <1>5 DEF TCPInv

LEMMA Associative ==
  ASSUME NEW x \in Seq(Byte), NEW y \in Seq(Byte), NEW z \in Seq(Byte)
  PROVE  Cat(Cat(x, y), z) = Cat(x, Cat(y, z))
BY ConcatAssociative, SMTT(30) DEF Cat

LEMMA CatBytes ==
  ASSUME NEW x \in Seq(Byte), NEW y \in Seq(Byte)
  PROVE  Cat(x, y) \in Seq(Byte)
BY ConcatProperties DEF Cat

LEMMA CatEmpty ==
  ASSUME NEW x \in Seq(Byte)
  PROVE  Cat(x, <<>>) = x /\ Cat(<<>>, x) = x
BY ConcatEmptySeq DEF Cat

LEMMA Regrouped ==
  ASSUME NEW lb \in Seq(Byte), NEW db \in Seq(Byte),
         NEW a \in Seq(Byte), NEW b \in Seq(Byte), NEW c \in Seq(Byte),
         a = <<>> \/ db = <<>>
  PROVE  Cat(Cat(Cat(lb, a), Cat(db, b)), c) = Cat(Cat(lb, db), Cat(Cat(a, b), c))
<1>1. Cat(a, Cat(db, b)) = Cat(db, Cat(a, b))
  BY CatEmpty, CatBytes
<1>2. Cat(Cat(lb, a), Cat(db, b)) = Cat(lb, Cat(a, Cat(db, b)))
  BY CatBytes, Associative
<1>3. Cat(Cat(lb, db), Cat(a, b)) = Cat(lb, Cat(db, Cat(a, b)))
  BY CatBytes, Associative
<1>4. Cat(Cat(Cat(lb, db), Cat(a, b)), c) = Cat(Cat(lb, db), Cat(Cat(a, b), c))
  BY CatBytes, Associative
<1>5. QED
  BY <1>1, <1>2, <1>3, <1>4

Split(lb, db, w, r, d, length, data, behind) ==
  /\ lb \in Seq(Byte) /\ db \in Seq(Byte) /\ w \in Seq(Byte)
  /\ r \in Nat /\ d \in Nat /\ r + d <= Len(w) /\ (r = 0 \/ db = <<>>)
  /\ length = lb \o SubSeq(w, 1, r)
  /\ data = db \o SubSeq(w, r + 1, r + d)
  /\ behind = SubSeq(w, r + d + 1, Len(w))

(* ProcessAvailableBytes only moves bytes: what it put together and what   *)
(* it left make up what was there.                                         *)
LEMMA Moved ==
  ASSUME NEW lb, NEW db, NEW w, NEW r, NEW d, NEW length, NEW data, NEW behind,
         Split(lb, db, w, r, d, length, data, behind)
  PROVE  /\ data \in Seq(Byte) /\ behind \in Seq(Byte)
         /\ Len(data) = Len(db) + d
         /\ Cat(Cat(length, data), behind) = Cat(Cat(lb, db), w)
<1>01. lb \in Seq(Byte) /\ db \in Seq(Byte) /\ w \in Seq(Byte)
       /\ r \in Nat /\ d \in Nat /\ r + d <= Len(w) /\ (r = 0 \/ db = <<>>)
  BY DEF Split
<1>0. Len(w) \in Nat /\ Len(lb) \in Nat /\ Len(db) \in Nat
  BY <1>01
<1> DEFINE a == SubSeq(w, 1, r)
           b == SubSeq(w, r + 1, r + d)
           c == SubSeq(w, r + d + 1, Len(w))
<1>1. a \in Seq(Byte) /\ Len(a) = r
  BY <1>0, <1>01, SubSeqProperties
<1>2. b \in Seq(Byte) /\ Len(b) = d
  BY <1>0, <1>01, SubSeqProperties
<1>3. c \in Seq(Byte)
  BY <1>0, <1>01, SubSeqProperties
<1>4. a \o b = SubSeq(w, 1, r + d)
  <2>1. 1 \in 1 .. Len(w) + 1 /\ r \in (1 - 1) .. Len(w) /\ r + d \in r .. Len(w)
    BY <1>0, <1>01
  <2>2. QED
    BY <1>01, <2>1, ConcatAdjacentSubSeq
<1>5. SubSeq(w, 1, r + d) \o c = w
  <2>1. /\ 1 \in 1 .. Len(w) + 1 /\ r + d \in (1 - 1) .. Len(w)
        /\ Len(w) \in (r + d) .. Len(w)
    BY <1>0, <1>01
  <2>2. SubSeq(w, 1, r + d) \o c = SubSeq(w, 1, Len(w))
    BY <1>01, <2>1, ConcatAdjacentSubSeq
  <2>3. QED
    BY <1>01, <2>2, SubSeqFull
<1>6. r = 0 => a = <<>>
  BY SubSeqEmpty
<1> HIDE DEF a, b, c
<1>7. (a \o b) \o c = w
  BY <1>4, <1>5
<1>8. db \o b \in Seq(Byte) /\ Len(db \o b) = Len(db) + d
  BY <1>01, <1>2, ConcatProperties
<1>9. Cat(Cat(lb \o a, db \o b), c) = Cat(Cat(lb, db), w)
  <2>1. a \in Seq(Byte) /\ b \in Seq(Byte) /\ c \in Seq(Byte)
        /\ (a = <<>> \/ db = <<>>)
    BY <1>01, <1>1, <1>2, <1>3, <1>6
  <2>2. Cat(Cat(Cat(lb, a), Cat(db, b)), c) = Cat(Cat(lb, db), Cat(Cat(a, b), c))
    BY <1>01, <2>1, Regrouped
  <2>3. QED
    BY <1>7, <2>2 DEF Cat
<1>10. length = lb \o a /\ data = db \o b /\ behind = c
  BY DEF Split, a, b, c
<1>11. QED
  BY <1>3, <1>8, <1>9, <1>10

(* Length, data and rest as a packet in front of what is left.             *)
Framed(R, length, data, Q) ==
  /\ length \in Seq(Byte) /\ Len(length) = 2
  /\ data \in Seq(Byte) /\ Q \in Seq(Byte)
  /\ R = Cat(Cat(length, data), Q)

LEMMA InFront ==
  ASSUME NEW R, NEW length, NEW data, NEW Q, Framed(R, length, data, Q)
  PROVE  /\ R \in Seq(Byte) /\ Len(R) = 2 + Len(data) + Len(Q)
         /\ R[1] = length[1] /\ R[2] = length[2]
         /\ \A j \in 1 .. Len(data) : R[2 + j] = data[j]
         /\ \A j \in 1 .. Len(Q) : Q[j] = R[2 + Len(data) + j]
<1>8. /\ length \in Seq(Byte) /\ Len(length) = 2
      /\ data \in Seq(Byte) /\ Q \in Seq(Byte)
  BY DEF Framed
<1>9. length \in Seq(Byte) /\ data \in Seq(Byte)
  BY <1>8
<1>1. PICK front : front = length \o data
  OBVIOUS
<1>2. front \in Seq(Byte) /\ Len(front) = 2 + Len(data)
      /\ (\A i \in 1 .. Len(length) : front[i] = length[i])
      /\ \A i \in 1 .. Len(data) : front[2 + i] = data[i]
  <2>1. /\ front \in Seq(Byte) /\ Len(front) = Len(length) + Len(data)
        /\ \A i \in 1 .. Len(length) : front[i] = length[i]
        /\ \A i \in 1 .. Len(data) : front[Len(length) + i] = data[i]
    BY <1>1, <1>9, Joined
  <2>2. QED
    BY <1>8, <2>1
<1>3. /\ R \in Seq(Byte) /\ Len(R) = Len(front) + Len(Q)
      /\ \A i \in 1 .. Len(front) : R[i] = front[i]
      /\ \A i \in 1 .. Len(Q) : R[Len(front) + i] = Q[i]
  <2>1. R = front \o Q /\ front \in Seq(Byte)
    BY <1>1, <1>2 DEF Framed, Cat
  <2>2. QED
    BY <1>8, <2>1, Joined
<1>4. Len(data) \in Nat /\ Len(Q) \in Nat
  BY <1>8
<1>5. R[1] = length[1] /\ R[2] = length[2]
  <2>1. 1 \in 1 .. Len(front) /\ 2 \in 1 .. Len(front)
        /\ 1 \in 1 .. Len(length) /\ 2 \in 1 .. Len(length)
    BY <1>2, <1>4, <1>8
  <2>2. QED
    BY <1>2, <1>3, <2>1
<1>6. \A j \in 1 .. Len(data) : R[2 + j] = data[j]
  <2> TAKE j \in 1 .. Len(data)
  <2>1. 2 + j \in 1 .. Len(front)
    BY <1>2, <1>4, <1>8
  <2>2. QED
    BY <1>2, <1>3, <2>1
<1>7. QED
  BY <1>2, <1>3, <1>4, <1>5, <1>6

-----------------------------------------------------------------------------
(* What a read makes of what a connection holds.                           *)
Reading(s, length, data, behind) ==
  /\ Cat(Cat(length, data), behind) = Held(s)
  /\ Len(length) <= 2 /\ (Len(length) # 2 => data = <<>>)
  /\ Len(length) = 2 => Len(data) <= DataLength(length)
  /\ InData(s) => Len(length) = 2

Complete(length, data) == Len(length) = 2 /\ Len(data) >= DataLength(length)

Outcome(s, length, data, behind) ==
  LET complete == Complete(length, data)
  IN  /\ wire' = [wire EXCEPT ![s] = behind]
      /\ lengthBuffer' = [lengthBuffer EXCEPT ![s] = IF complete THEN <<>> ELSE length]
      /\ dataBuffer' = [dataBuffer EXCEPT ![s] = IF complete THEN <<>> ELSE data]
      /\ got' = IF complete THEN [got EXCEPT ![s] = Append(@, data)] ELSE got
      /\ rawpackets' = IF complete THEN Append(rawpackets, s) ELSE rawpackets
      /\ buffers' = buffers + (IF Len(length) = 2 /\ ~InData(s) THEN 1 ELSE 0)
      /\ UNCHANGED <<destSockets, peer, watched, pipe>>

LEMMA ByteNat ==
  ASSUME TCPAssumption
  PROVE  \A b \in Byte : b \in Nat
BY DEF TCPAssumption, Byte

LEMMA LengthNat ==
  ASSUME TCPAssumption, NEW x \in Seq(Byte), Len(x) = 2
  PROVE  DataLength(x) \in Nat
<1>1. x[1] \in Nat /\ x[2] \in Nat /\ Base \in Nat
  BY ByteNat DEF TCPAssumption
<1>2. x[1] * Base \in Nat
  BY <1>1
<1>3. QED
  BY <1>1, <1>2 DEF DataLength

LEMMA LeastFits ==
  ASSUME NEW have \in Nat, NEW all \in Nat, have <= all, NEW n \in Nat
  PROVE  /\ Least(all - have, n) \in Nat /\ Least(all - have, n) <= n
         /\ have + Least(all - have, n) <= all
         /\ (have = all => Least(all - have, n) = 0)
BY DEF Least

LEMMA Received ==
  ASSUME TCPAssumption, TCPInv, NEW s \in Connection, NEW n \in Nat, TCPReceive(s, n)
  PROVE  \E length, data, behind \in Seq(Byte) :
           Reading(s, length, data, behind) /\ Outcome(s, length, data, behind)
<1> DEFINE lb == lengthBuffer[s]
           db == dataBuffer[s]
           w == wire[s]
           r == LengthPart(s, n)
           length == lb \o SubSeq(w, 1, r)
           whole == Len(length) = 2
           len == IF whole THEN DataLength(length) ELSE 0
           d == IF whole THEN DataPart(s, n - r, Len(db), len) ELSE 0
           data == db \o SubSeq(w, r + 1, r + d)
           behind == SubSeq(w, r + d + 1, Len(w))
           complete == whole /\ Len(data) >= len
<1>1. /\ wire' = [wire EXCEPT ![s] = behind]
      /\ lengthBuffer' = [lengthBuffer EXCEPT ![s] = IF complete THEN <<>> ELSE length]
      /\ dataBuffer' = [dataBuffer EXCEPT ![s] = IF complete THEN <<>> ELSE data]
      /\ got' = IF complete THEN [got EXCEPT ![s] = Append(@, data)] ELSE got
      /\ rawpackets' = IF complete THEN Append(rawpackets, s) ELSE rawpackets
      /\ buffers' = buffers + (IF whole /\ ~InData(s) THEN 1 ELSE 0)
      /\ UNCHANGED <<destSockets, peer, watched, pipe>>
  BY DEF TCPReceive
<1>2. n \in 1 .. Len(w)
  BY DEF TCPReceive
<1>3. lb \in Seq(Byte) /\ db \in Seq(Byte) /\ w \in Seq(Byte)
  BY DEF TCPInv, ConnectionsTyped
<1>4. /\ Len(lb) <= 2
      /\ db # <<>> => Len(lb) = 2 /\ Len(db) < DataLength(lb)
  BY DEF TCPInv, InTheMaking, InData
<1>5. /\ Len(lb) \in Nat /\ Len(db) \in Nat /\ Len(w) \in Nat
      /\ (db = <<>> => Len(db) = 0)
  BY <1>3
<1>8. r \in Nat /\ r <= n /\ r <= Len(w) /\ Len(lb) + r <= 2 /\ (Len(lb) = 2 => r = 0)
  <2>1. r = Least(2 - Len(lb), n)
    BY DEF LengthPart
  <2> HIDE DEF r, lb, w
  <2>2. r \in Nat /\ r <= n /\ Len(lb) + r <= 2 /\ (Len(lb) = 2 => r = 0)
    BY <1>4, <1>5, <2>1, LeastFits
  <2>3. QED
    BY <1>2, <1>5, <2>2
<1>9. SubSeq(w, 1, r) \in Seq(Byte) /\ Len(SubSeq(w, 1, r)) = r
  <2> HIDE DEF r, w
  <2>1. QED
    BY <1>3, <1>8, SubSeqProperties
<1>10. length \in Seq(Byte) /\ Len(length) = Len(lb) + r
  <2>1. PICK cut : cut = SubSeq(w, 1, r)
    OBVIOUS
  <2>2. cut \in Seq(Byte) /\ length = lb \o cut
    BY <1>9, <2>1
  <2>6. Len(cut) = r
    BY <1>9, <2>1
  <2> HIDE DEF lb, r, length
  <2>3. lb \in Seq(Byte)
    BY <1>3
  <2>4. length \in Seq(Byte) /\ Len(length) = Len(lb) + Len(cut)
    BY <2>2, <2>3, Joined
  <2> HIDE DEF lb, r, length
  <2>5. QED
    BY <2>4, <2>6
<1>11. r = 0 => length = lb
  <2> HIDE DEF lb, r, w
  <2>1. ASSUME r = 0 PROVE SubSeq(w, 1, r) = <<>>
    BY <2>1, SubSeqEmpty
  <2>2. QED
    BY <1>3, <2>1, ConcatEmptySeq
<1>12. whole => len \in Nat /\ Len(db) <= len
  <2>1. ASSUME whole PROVE len \in Nat
    BY <1>10, <2>1, LengthNat
  <2>2. ASSUME whole, db # <<>> PROVE Len(db) <= len
    <3>1. length = lb
      BY <1>4, <1>8, <1>11, <2>2
    <3>2. len = DataLength(lb) /\ Len(db) < DataLength(lb)
      BY <1>4, <2>2, <3>1
    <3> HIDE DEF len, whole, db, lb
    <3>3. QED
      BY <1>5, <2>1, <2>2, <3>2
  <2> HIDE DEF len, whole, db
  <2>3. QED
    BY <1>5, <2>1, <2>2
<1>13. /\ d \in Nat /\ r + d <= Len(w) /\ (whole => Len(db) + d <= len)
       /\ (~whole => d = 0)
  <2>1. whole => d = Least(len - Len(db), n - r)
    BY DEF DataPart
  <2>2. ~whole => d = 0
    OBVIOUS
  <2> HIDE DEF d, r, whole, len, w, db
  <2>3. n - r \in Nat
    BY <1>8
  <2>4. whole => d \in Nat /\ d <= n - r /\ Len(db) + d <= len
    BY <1>5, <1>12, <2>1, <2>3, LeastFits
  <2>5. n <= Len(w)
    BY <1>2, <1>5
  <2>6. QED
    BY <1>5, <1>8, <2>2, <2>4, <2>5
<1>14. r = 0 \/ db = <<>>
  BY <1>4, <1>8
<1>15. /\ data \in Seq(Byte) /\ behind \in Seq(Byte)
       /\ Len(data) = Len(db) + d /\ Cat(Cat(length, data), behind) = Cat(Cat(lb, db), w)
  <2>1. d \in Nat /\ r \in Nat /\ r + d <= Len(w)
    BY <1>8, <1>13
  <2> HIDE DEF d, r, w, lb, db, whole, len
  <2>2. lb \in Seq(Byte) /\ db \in Seq(Byte) /\ w \in Seq(Byte)
    BY <1>3
  <2>3. Split(lb, db, w, r, d, length, data, behind)
    <3>1. /\ length = lb \o SubSeq(w, 1, r)
          /\ data = db \o SubSeq(w, r + 1, r + d)
          /\ behind = SubSeq(w, r + d + 1, Len(w))
      OBVIOUS
    <3> HIDE DEF length, data, behind
    <3>2. QED
      BY <1>14, <2>1, <2>2, <3>1, Zenon DEF Split
  <2> HIDE DEF length, data, behind
  <2>4. data \in Seq(Byte) /\ behind \in Seq(Byte)
    BY <2>3, Moved
  <2>5. Len(data) = Len(db) + d
    BY <2>3, Moved
  <2>6. Cat(Cat(length, data), behind) = Cat(Cat(lb, db), w)
    BY <2>3, Moved
  <2>7. QED
    BY <2>4, <2>5, <2>6
<1>16. ~whole => data = <<>>
  <2>1. ASSUME ~whole PROVE Len(lb) # 2
    <3>1. Len(length) # 2
      BY <2>1
    <3>2. Len(length) = Len(lb) + r
      BY <1>10
    <3> HIDE DEF lb, r, length
    <3>3. QED
      BY <1>5, <1>8, <3>1, <3>2
  <2>2. ~whole => db = <<>>
    BY <1>4, <2>1
  <2> HIDE DEF data, db, d, whole
  <2>3. ~whole => Len(data) = 0
    BY <1>5, <1>13, <1>15, <2>2
  <2>4. QED
    BY <1>15, <2>3
<1>17. Reading(s, length, data, behind)
  <2>1. Len(length) <= 2 /\ (Len(length) # 2 => data = <<>>)
    <3> HIDE DEF lb, r, length, data
    <3>1. QED
      BY <1>5, <1>8, <1>10, <1>16
  <2>2. Len(length) = 2 => Len(data) <= DataLength(length)
    <3>1. whole => len = DataLength(length)
      OBVIOUS
    <3> HIDE DEF len, data, length, db, d
    <3>2. QED
      BY <1>13, <1>15, <3>1
  <2>3. Cat(Cat(length, data), behind) = Held(s)
    BY <1>15 DEF Held
  <2>4. Len(lb) = 2 => Len(length) = 2
    <3>1. Len(length) = Len(lb) + r
      BY <1>10
    <3> HIDE DEF lb, r, length
    <3>2. QED
      BY <1>8, <3>1
  <2>5. InData(s) <=> Len(lb) = 2
    BY DEF InData
  <2> HIDE DEF length, data, behind
  <2>6. QED
    BY <2>1, <2>2, <2>3, <2>4, <2>5 DEF Reading
<1>18. Outcome(s, length, data, behind)
  <2>1. complete <=> Complete(length, data)
    BY DEF Complete
  <2> HIDE DEF length, data, behind, complete, whole
  <2>2. QED
    BY <1>1, <2>1 DEF Outcome, whole
<1> HIDE DEF length, data, behind
<1>19. QED
  BY <1>10, <1>15, <1>17, <1>18

-----------------------------------------------------------------------------
(* A step that concerns one connection leaves the others as they were.     *)
SameAt(s) ==
  /\ lengthBuffer'[s] = lengthBuffer[s] /\ dataBuffer'[s] = dataBuffer[s]
  /\ wire'[s] = wire[s] /\ flow'[s] = flow[s]
  /\ sent'[s] = sent[s] /\ got'[s] = got[s]

LEMMA OneConnection ==
  ASSUME TCPInv, NEW s \in Connection, ConnectionsTyped',
         \A t \in Connection \ {s} : SameAt(t) /\ (t \in destSockets' <=> t \in destSockets),
         InTheMaking(s)', s \notin destSockets' => lengthBuffer'[s] = <<>>,
         s \in destSockets' => Streams(s)',
         flow'[s] # "astray" => Len(got'[s]) <= Len(sent'[s])
  PROVE  TCPInv'
<1>1. ASSUME NEW t \in Connection PROVE InTheMaking(t)'
  <2>1. CASE t = s
    BY <2>1
  <2>2. CASE t # s
    <3>1. SameAt(t) /\ InTheMaking(t)
      BY <2>2 DEF TCPInv
    <3>2. QED
      BY <3>1 DEF SameAt, InTheMaking, InData
  <2>3. QED
    BY <2>1, <2>2
<1>2. ASSUME NEW t \in Connection \ destSockets' PROVE lengthBuffer'[t] = <<>>
  BY <1>2 DEF SameAt, TCPInv
<1>3. ASSUME NEW t \in Connection, t \in destSockets' PROVE Streams(t)'
  <2>1. CASE t = s
    BY <1>3, <2>1
  <2>2. CASE t # s
    <3>1. SameAt(t) /\ Streams(t)
      BY <1>3, <2>2 DEF TCPInv, Streams
    <3>3. Held(t)' = Held(t)
      BY <3>1 DEF SameAt, Held
    <3>4. QED
      BY <3>1, <3>3 DEF Streams, SameAt
  <2>3. QED
    BY <2>1, <2>2
<1>4. NothingMadeUp'
  BY DEF TCPInv, NothingMadeUp, SameAt
<1>5. QED
  BY <1>1, <1>2, <1>3, <1>4 DEF TCPInv

LEMMA HeldTyped ==
  ASSUME TCPInv, NEW s \in Connection
  PROVE  /\ lengthBuffer[s] \in Seq(Byte) /\ dataBuffer[s] \in Seq(Byte)
         /\ wire[s] \in Seq(Byte) /\ Held(s) \in Seq(Byte)
         /\ sent[s] \in Seq(Packet) /\ got[s] \in Seq(Seq(Byte)) /\ Len(got[s]) \in Nat
<1>1. /\ lengthBuffer[s] \in Seq(Byte) /\ dataBuffer[s] \in Seq(Byte)
      /\ wire[s] \in Seq(Byte)
  BY DEF TCPInv, ConnectionsTyped
<1>2. sent[s] \in Seq(Packet) /\ got[s] \in Seq(Seq(Byte))
  BY DEF TCPInv, ConnectionsTyped
<1>3. Held(s) \in Seq(Byte)
  BY <1>1, CatBytes DEF Held
<1>4. Len(got[s]) \in Nat
  BY <1>2
<1>5. QED
  BY <1>1, <1>2, <1>3, <1>4

(* A packet that is put together is the one that was sent next.            *)
LEMMA NextPacket ==
  ASSUME TCPAssumption, NEW R \in Seq(Byte), NEW out \in Seq(Packet), NEW k \in Nat,
         NEW f, Stream(R, out, k, f), f = "astray" => k < Len(out),
         NEW length, NEW data, NEW behind, Framed(R, length, data, behind),
         Len(data) = DataLength(length)
  PROVE  /\ k < Len(out) /\ data = out[k + 1] /\ data \in Packet
         /\ Stream(behind, out, k + 1, f)
<1>1. /\ Len(R) = 2 + Len(data) + Len(behind)
      /\ R[1] = length[1] /\ R[2] = length[2]
      /\ \A j \in 1 .. Len(data) : R[2 + j] = data[j]
      /\ \A j \in 1 .. Len(behind) : behind[j] = R[2 + Len(data) + j]
  BY ONLY Framed(R, length, data, behind), InFront
<1>15. data \in Seq(Byte) /\ behind \in Seq(Byte)
  BY DEF Framed
<1>2. PICK len \in Nat : len = Len(data)
  BY <1>15
<1>3. Len(behind) \in Nat
  BY <1>15
<1>4. Len(R) >= 2 /\ Len(R) >= 2 + len /\ Len(behind) = Len(R) - (2 + len)
  BY <1>1, <1>2, <1>3
<1>5. len = R[1] * Base + R[2]
  BY <1>1, <1>2 DEF DataLength
<1>16. Announced(R, len)
  BY <1>4, <1>5 DEF Announced
<1>6. /\ k < Len(out) /\ Len(out[k + 1]) = len
      /\ \A j \in 1 .. len : R[2 + j] = out[k + 1][j]
  BY <1>16, FirstPacket
<1>7. k + 1 \in 1 .. Len(out)
  <2>1. Len(out) \in Nat
    OBVIOUS
  <2>2. QED
    BY <1>6, <2>1
<1>8. PICK p \in Packet : p = out[k + 1]
  BY <1>7
<1>9. p \in Seq(Byte) /\ Len(p) = len /\ \A j \in 1 .. len : data[j] = p[j]
  BY <1>1, <1>2, <1>6, <1>8, BytesOf
<1>10. data = p
  BY <1>2, <1>9, <1>15, SeqEqual
<1>11. PICK skip \in Nat : skip = 2 + len
  OBVIOUS
<1>12. Rest(behind, R, out[k + 1], skip)
  BY <1>1, <1>2, <1>4, <1>6, <1>11 DEF Rest
<1>13. Stream(behind, out, k + 1, f)
  BY <1>6, <1>12, <1>15, StreamTaken
<1>14. QED
  BY <1>6, <1>8, <1>10, <1>13

-----------------------------------------------------------------------------
(* What counts of what was put together: as many as were sent whole.       *)
LEMMA FrontOf ==
  ASSUME NEW S, NEW g \in Seq(S), NEW n \in Nat
  PROVE  /\ Len(g) <= n => SubSeq(g, 1, Least(Len(g), n)) = g
         /\ \A d \in S : n <= Len(g) =>
              SubSeq(Append(g, d), 1, Least(Len(Append(g, d)), n))
                = SubSeq(g, 1, Least(Len(g), n))
<1>1. Len(g) \in Nat
  OBVIOUS
<1>2. ASSUME Len(g) <= n PROVE SubSeq(g, 1, Least(Len(g), n)) = g
  <2>1. Least(Len(g), n) = Len(g)
    BY <1>1, <1>2 DEF Least
  <2>2. QED
    BY <2>1, SubSeqFull
<1>3. ASSUME NEW d \in S, n <= Len(g)
      PROVE  SubSeq(Append(g, d), 1, Least(Len(Append(g, d)), n))
               = SubSeq(g, 1, Least(Len(g), n))
  <2>1. PICK h : h = Append(g, d)
    OBVIOUS
  <2>0. d \in S
    OBVIOUS
  <2>2. h \in Seq(S) /\ Len(h) = Len(g) + 1 /\ \A i \in 1 .. Len(g) : h[i] = g[i]
    BY ONLY <2>0, <2>1, g \in Seq(S), AppendProperties
  <2>3. Least(Len(h), n) = n /\ Least(Len(g), n) = n
    BY <1>1, <1>3, <2>2 DEF Least
  <2>4. SubSeq(h, 1, n) = SubSeq(g, 1, n)
    <3>1. PICK x : x = SubSeq(h, 1, n)
      OBVIOUS
    <3>2. PICK y : y = SubSeq(g, 1, n)
      OBVIOUS
    <3>3. x \in Seq(S) /\ Len(x) = n /\ \A i \in 1 .. n : x[i] = h[i]
      BY <1>1, <1>3, <2>2, <3>1, SubSeqProperties
    <3>4. y \in Seq(S) /\ Len(y) = n /\ \A i \in 1 .. n : y[i] = g[i]
      BY <1>1, <1>3, <3>2, SubSeqProperties
    <3>5. \A i \in 1 .. n : x[i] = y[i]
      BY <1>1, <1>3, <2>2, <3>3, <3>4
    <3>6. x = y
      BY <3>3, <3>4, <3>5, SeqEqual
    <3>7. QED
      BY <3>1, <3>2, <3>6
  <2>5. QED
    BY <2>1, <2>3, <2>4
<1>4. QED
  BY <1>2, <1>3

Counted(s) == SubSeq(got[s], 1, Least(Len(got[s]), Len(sent[s])))

LEMMA DeliveredOfOne ==
  ASSUME NEW s \in Connection, NEW x, Counted(s)' = x,
         \A t \in Connection \ {s} : got'[t] = got[t] /\ sent'[t] = sent[t]
  PROVE  Delivered' = [Delivered EXCEPT ![s] = x]
BY DEF Delivered, Counted

LEMMA DeliveredSame ==
  ASSUME NEW s \in Connection, Counted(s)' = Counted(s),
         \A t \in Connection \ {s} : got'[t] = got[t] /\ sent'[t] = sent[t]
  PROVE  Delivered' = Delivered
<1>1. \A t \in Connection : Counted(t)' = Counted(t)
  BY DEF Counted
<1>2. QED
  BY <1>1 DEF Delivered, Counted

LEMMA ReceiveKeeps ==
  ASSUME TCPAssumption, TCPInv, NEW s \in Connection, NEW n \in Nat, TCPReceive(s, n)
  PROVE  TCPInv' /\ (UNCHANGED <<sent, Delivered>> \/ Channel!Deliver(s))
<1>1. PICK length, data, behind \in Seq(Byte) :
        Reading(s, length, data, behind) /\ Outcome(s, length, data, behind)
  BY Received
<1>2. s \in destSockets
  BY DEF TCPReceive
<1>3. PICK complete \in BOOLEAN : complete <=> Complete(length, data)
  OBVIOUS
<1>4. /\ wire' = [wire EXCEPT ![s] = behind]
      /\ lengthBuffer' = [lengthBuffer EXCEPT ![s] = IF complete THEN <<>> ELSE length]
      /\ dataBuffer' = [dataBuffer EXCEPT ![s] = IF complete THEN <<>> ELSE data]
      /\ got' = IF complete THEN [got EXCEPT ![s] = Append(@, data)] ELSE got
      /\ destSockets' = destSockets /\ flow' = flow /\ sent' = sent
  BY <1>1, <1>3 DEF Outcome, peer
<1>5. ConnectionsTyped /\ Streams(s) /\ NothingMadeUp
  BY <1>2 DEF TCPInv
<1>6. Cat(Cat(length, data), behind) = Held(s)
  BY <1>1 DEF Reading
<1>7. /\ wire'[s] = behind /\ lengthBuffer'[s] = (IF complete THEN <<>> ELSE length)
      /\ dataBuffer'[s] = (IF complete THEN <<>> ELSE data)
  BY <1>4, <1>5 DEF ConnectionsTyped
<1>8. /\ wire' \in [Connection -> Seq(Byte)] /\ lengthBuffer' \in [Connection -> Seq(Byte)]
      /\ dataBuffer' \in [Connection -> Seq(Byte)] /\ flow' \in [Connection -> Flows]
      /\ sent' \in [Connection -> Seq(Packet)]
  BY <1>4, <1>5 DEF ConnectionsTyped
<1>9. \A t \in Connection \ {s} :
        /\ wire'[t] = wire[t] /\ lengthBuffer'[t] = lengthBuffer[t]
        /\ dataBuffer'[t] = dataBuffer[t] /\ got'[t] = got[t]
        /\ flow'[t] = flow[t] /\ sent'[t] = sent[t]
  BY <1>4, <1>5 DEF ConnectionsTyped
<1>10. \A t \in Connection \ {s} : SameAt(t) /\ (t \in destSockets' <=> t \in destSockets)
  BY <1>4, <1>9 DEF SameAt
<1>11. CASE ~complete
  <2>1. got' = got /\ ConnectionsTyped'
    BY <1>4, <1>5, <1>8, <1>11 DEF ConnectionsTyped
  <2>2. wire'[s] = behind /\ lengthBuffer'[s] = length /\ dataBuffer'[s] = data
    BY <1>7, <1>11
  <2>3. InTheMaking(s)'
    <3>1. Len(length) <= 2 /\ (data # <<>> => Len(length) = 2)
      BY <1>1 DEF Reading
    <3>2. Len(length) = 2 => Len(data) < DataLength(length)
      <4>1. SUFFICES ASSUME Len(length) = 2 PROVE Len(data) < DataLength(length)
        OBVIOUS
      <4>2. ~(Len(data) >= DataLength(length))
        BY <1>3, <1>11, <4>1 DEF Complete
      <4>3. DataLength(length) \in Nat
        BY <4>1, LengthNat
      <4>4. Len(data) \in Nat
        OBVIOUS
      <4>5. QED
        BY <4>2, <4>3, <4>4
    <3>3. QED
      BY <2>2, <3>1, <3>2 DEF InTheMaking, InData
  <2>4. Streams(s)'
    <3>1. Held(s)' = Held(s)
      BY <1>6, <2>2 DEF Held
    <3>2. QED
      BY <1>4, <1>5, <2>1, <3>1 DEF Streams
  <2>5. flow'[s] # "astray" => Len(got'[s]) <= Len(sent'[s])
    BY <1>4, <1>5, <2>1 DEF NothingMadeUp
  <2>6. TCPInv'
    BY <1>2, <1>4, <1>10, <2>1, <2>3, <2>4, <2>5, OneConnection
  <2>7. Delivered' = Delivered
    BY <1>4, <2>1 DEF Delivered
  <2>8. QED
    BY <1>4, <2>6, <2>7
<1>12. CASE complete
  <2>1. Len(length) = 2 /\ Len(data) = DataLength(length)
    <3>1. Len(length) = 2 /\ Len(data) >= DataLength(length)
      BY <1>3, <1>12 DEF Complete
    <3>2. Len(data) <= DataLength(length)
      BY <1>1, <3>1 DEF Reading
    <3>3. DataLength(length) \in Nat
      BY <3>1, LengthNat
    <3>4. Len(data) \in Nat
      OBVIOUS
    <3>5. QED
      BY <3>1, <3>2, <3>3, <3>4
  <2>2. Framed(Held(s), length, data, behind)
    BY <1>6, <2>1 DEF Framed
  <2>3. /\ Held(s) \in Seq(Byte) /\ sent[s] \in Seq(Packet) /\ Len(got[s]) \in Nat
        /\ got[s] \in Seq(Seq(Byte)) /\ Len(sent[s]) \in Nat
    BY HeldTyped
  <2>5. got' = [got EXCEPT ![s] = Append(@, data)]
    BY <1>4, <1>12
  <2>6. got' \in [Connection -> Seq(Seq(Byte))] /\ got'[s] = Append(got[s], data)
    BY <1>5, <2>3, <2>5 DEF ConnectionsTyped
  <2>7. Len(got'[s]) = Len(got[s]) + 1
    BY <2>3, <2>6
  <2>8. ConnectionsTyped'
    BY <1>8, <2>6 DEF ConnectionsTyped
  <2>9. wire'[s] = behind /\ lengthBuffer'[s] = <<>> /\ dataBuffer'[s] = <<>>
    BY <1>7, <1>12
  <2>10. InTheMaking(s)'
    BY <2>9 DEF InTheMaking
  <2>11. Held(s)' = behind
    <3>1. Cat(<<>>, <<>>) = <<>> /\ Cat(<<>>, behind) = behind
      BY CatEmpty, EmptySeq
    <3>2. QED
      BY <2>9, <3>1 DEF Held
  <2>12. flow'[s] = flow[s] /\ sent'[s] = sent[s]
    BY <1>4
  <2>13. \A t \in Connection \ {s} : got'[t] = got[t] /\ sent'[t] = sent[t]
    BY <1>9
  <2>14. CASE flow[s] = "astray" /\ Len(sent[s]) <= Len(got[s])
    <3>1. flow'[s] = "astray" /\ Len(sent'[s]) <= Len(got'[s])
      BY <2>3, <2>7, <2>12, <2>14
    <3>2. TCPInv'
      <4>4. flow'[s] # "astray" => Len(got'[s]) <= Len(sent'[s])
        BY <3>1
      <4>1. Streams(s)'
        BY <3>1 DEF Streams
      <4>2. s \notin destSockets' => lengthBuffer'[s] = <<>>
        BY <2>9
      <4>5. s \in destSockets' => Streams(s)'
        BY <4>1
      <4>3. QED
        BY <1>10, <2>8, <2>10, <4>2, <4>4, <4>5, OneConnection
    <3>3. Counted(s)' = Counted(s)
      <4>1. PICK g \in Seq(Seq(Byte)) : g = got[s]
        BY <2>3
      <4>2. PICK m \in Nat : m = Len(sent[s]) /\ m <= Len(g)
        BY <2>3, <2>14, <4>1
      <4>3. SubSeq(Append(g, data), 1, Least(Len(Append(g, data)), m))
              = SubSeq(g, 1, Least(Len(g), m))
        <5>1. data \in Seq(Byte)
          OBVIOUS
        <5> HIDE DEF Byte, Least
        <5>2. QED
          BY ONLY <5>1, <4>2, g \in Seq(Seq(Byte)), m \in Nat, FrontOf
      <4>4. QED
        BY <2>6, <2>12, <4>1, <4>2, <4>3 DEF Counted
    <3>4. Delivered' = Delivered
      BY <2>13, <3>3, DeliveredSame
    <3>5. QED
      BY <1>4, <3>2, <3>4
  <2>15. CASE ~(flow[s] = "astray" /\ Len(sent[s]) <= Len(got[s]))
    <3>1. /\ Stream(Held(s), sent[s], Len(got[s]), flow[s])
          /\ flow[s] = "astray" => Len(got[s]) < Len(sent[s])
      BY <1>5, <2>3, <2>15 DEF Streams
    <3>2. /\ Len(got[s]) < Len(sent[s]) /\ data = sent[s][Len(got[s]) + 1]
          /\ Stream(behind, sent[s], Len(got[s]) + 1, flow[s])
      BY <2>1, <2>2, <2>3, <3>1, NextPacket
    <3>3. Len(got'[s]) <= Len(sent'[s])
      BY <2>3, <2>7, <2>12, <3>2
    <3>4. TCPInv'
      <4>4. flow'[s] # "astray" => Len(got'[s]) <= Len(sent'[s])
        BY <3>3
      <4>1. Streams(s)'
        BY <2>7, <2>11, <2>12, <3>2 DEF Streams
      <4>2. s \notin destSockets' => lengthBuffer'[s] = <<>>
        BY <2>9
      <4>5. s \in destSockets' => Streams(s)'
        BY <4>1
      <4>3. QED
        BY <1>10, <2>8, <2>10, <4>2, <4>4, <4>5, OneConnection
    <3>5. Counted(s) = got[s]
      <4>1. Len(got[s]) <= Len(sent[s])
        BY <2>3, <3>2
      <4>2. SubSeq(got[s], 1, Least(Len(got[s]), Len(sent[s]))) = got[s]
        BY <2>3, <4>1, FrontOf
      <4>3. QED
        BY <4>2 DEF Counted
    <3>6. Counted(s)' = Append(got[s], data)
      <4>1. got'[s] \in Seq(Seq(Byte)) /\ Len(sent'[s]) \in Nat
        BY <2>3, <2>6, <2>12
      <4>2. SubSeq(got'[s], 1, Least(Len(got'[s]), Len(sent'[s]))) = got'[s]
        BY <3>3, <4>1, FrontOf
      <4>3. QED
        BY <2>6, <4>2 DEF Counted
    <3>7. Delivered' = [Delivered EXCEPT ![s] = Append(got[s], data)]
      BY <2>13, <3>6, DeliveredOfOne
    <3>8. Delivered[s] = got[s]
      BY <3>5 DEF Delivered, Counted
    <3>9. Channel!Deliver(s)
      BY <1>4, <3>2, <3>7, <3>8 DEF Channel!Deliver
    <3>10. QED
      BY <3>4, <3>9
  <2>16. QED
    BY <2>14, <2>15
<1>13. QED
  BY <1>11, <1>12

(* What the two sends leave behind them.                                   *)
Wrote(s, p, b) ==
  /\ wire' = [wire EXCEPT ![s] = Cat(wire[s], b)]
  /\ flow' = [flow EXCEPT ![s] = FlowAfter(flow[s], p, b)]
  /\ sent' = IF flow[s] = "whole" /\ b = Bytes(p)
             THEN [sent EXCEPT ![s] = Append(sent[s], p)] ELSE sent
  /\ UNCHANGED <<destSockets, lengthBuffer, dataBuffer, got>>

LEMMA WrittenBytes ==
  ASSUME TCPAssumption, NEW p \in Packet, NEW b \in MaybeWritten(p)
  PROVE  b \in Seq(Byte)
<1>1. p \in Seq(Byte) /\ Len(p) \in Nat
  BY DEF TCPAssumption
<1>4. PICK h : h = LengthBytes(p)
  OBVIOUS
<1>5. h \in Seq(Byte) /\ Len(h) = 2
  BY <1>4, LengthBytesOf
<1>6. CASE b = <<>>
  BY <1>6
<1>7. CASE b # <<>>
  <2>1. PICK k \in 1 .. 2, n \in 0 .. Len(p) : b = SubSeq(h, 1, k) \o SubSeq(p, 1, n)
    BY <1>4, <1>7 DEF MaybeWritten
  <2>2. SubSeq(h, 1, k) \in Seq(Byte)
    <3>1. \A i \in 1 .. k : h[i] \in Byte
      <4>1. \A i \in 1 .. k : i \in 1 .. Len(h)
        BY <1>5
      <4>2. QED
        BY <1>5, <4>1, ElementOfSeq
    <3>2. QED
      BY <1>5, <3>1, SubSeqProperties
  <2>3. SubSeq(p, 1, n) \in Seq(Byte)
    <3>1. \A i \in 1 .. n : p[i] \in Byte
      BY <1>1
    <3>2. QED
      BY <1>1, <3>1, SubSeqProperties
  <2>4. QED
    BY <2>1, <2>2, <2>3, ConcatProperties
<1>8. QED
  BY <1>6, <1>7

LEMMA WhatFlows ==
  ASSUME TCPAssumption, NEW p \in Packet, NEW b \in Seq(Byte), NEW f \in Flows, f # "none"
  PROVE  \/ b = <<>> /\ FlowAfter(f, p, b) = f /\ b # Bytes(p)
         \/ f = "whole" /\ b = Bytes(p) /\ FlowAfter(f, p, b) = "whole"
         \/ /\ f = "whole" /\ b # Bytes(p) /\ FlowAfter(f, p, b) = "cut"
            /\ Len(b) \in Nat /\ Len(b) < 2 + Len(p) /\ b = SubSeq(Bytes(p), 1, Len(b))
         \/ FlowAfter(f, p, b) = "astray" /\ ~(f = "whole" /\ b = Bytes(p))
<1>1. Len(Bytes(p)) = 2 + Len(p) /\ Len(p) \in Nat /\ Len(b) \in Nat
  BY BytesOf
<1>2. CASE b = <<>>
  <2>1. FlowAfter(f, p, b) = f
    BY <1>2 DEF FlowAfter
  <2>2. b # Bytes(p)
    BY <1>1, <1>2
  <2>3. QED
    BY <1>2, <2>1, <2>2
<1>3. CASE b # <<>> /\ f = "whole" /\ b = Bytes(p)
  <2>1. FlowAfter(f, p, b) = "whole"
    <3>1. ~(Len(b) \in 1 .. Len(Bytes(p)) - 1)
      BY <1>1, <1>3
    <3>2. QED
      BY <1>3, <3>1, Zenon DEF FlowAfter
  <2>2. QED
    BY <1>3, <2>1
<1>4. CASE /\ b # <<>> /\ f = "whole" /\ Len(b) \in 1 .. Len(Bytes(p)) - 1
           /\ b = SubSeq(Bytes(p), 1, Len(b))
  <2>1. b # Bytes(p) /\ Len(b) < 2 + Len(p)
    BY <1>1, <1>4
  <2>2. FlowAfter(f, p, b) = "cut"
    BY <1>4, <2>1, Zenon DEF FlowAfter
  <2>3. QED
    BY <1>1, <1>4, <2>1, <2>2
<1>5. CASE /\ b # <<>> /\ ~(f = "whole" /\ b = Bytes(p))
           /\ ~(/\ f = "whole" /\ Len(b) \in 1 .. Len(Bytes(p)) - 1
                /\ b = SubSeq(Bytes(p), 1, Len(b)))
  <2>1. FlowAfter(f, p, b) = "astray"
    BY <1>5, Zenon DEF FlowAfter
  <2>2. QED
    BY <1>5, <2>1
<1>6. QED
  BY <1>2, <1>3, <1>4, <1>5

LEMMA FlowTyped ==
  ASSUME NEW f \in Flows, NEW p, NEW b
  PROVE  FlowAfter(f, p, b) \in Flows
BY DEF FlowAfter, Flows

LEMMA HeldGrows ==
  ASSUME TCPInv, NEW s \in Connection, NEW b \in Seq(Byte),
         wire'[s] = Cat(wire[s], b), UNCHANGED <<lengthBuffer, dataBuffer>>
  PROVE  Held(s)' = Cat(Held(s), b)
<1>1. /\ wire[s] \in Seq(Byte) /\ lengthBuffer[s] \in Seq(Byte)
      /\ dataBuffer[s] \in Seq(Byte)
  BY HeldTyped
<1>2. Cat(lengthBuffer[s], dataBuffer[s]) \in Seq(Byte)
  BY <1>1, CatBytes
<1>3. Cat(Cat(Cat(lengthBuffer[s], dataBuffer[s]), wire[s]), b)
        = Cat(Cat(lengthBuffer[s], dataBuffer[s]), Cat(wire[s], b))
  BY <1>1, <1>2, Associative
<1>4. QED
  BY <1>3 DEF Held

LEMMA WroteKeeps ==
  ASSUME TCPAssumption, TCPInv, NEW s \in Connection, NEW p \in Packet,
         flow[s] # "none", NEW b \in Seq(Byte), Wrote(s, p, b)
  PROVE  TCPInv' /\ (UNCHANGED <<sent, Delivered>> \/ Channel!Send(s))
<1>1. /\ wire' = [wire EXCEPT ![s] = Cat(wire[s], b)]
      /\ flow' = [flow EXCEPT ![s] = FlowAfter(flow[s], p, b)]
      /\ UNCHANGED <<destSockets, lengthBuffer, dataBuffer, got>>
  BY DEF Wrote
<1>2. ConnectionsTyped /\ NothingMadeUp
  BY DEF TCPInv
<1>3. /\ wire[s] \in Seq(Byte) /\ sent[s] \in Seq(Packet) /\ Held(s) \in Seq(Byte)
      /\ Len(got[s]) \in Nat /\ Len(sent[s]) \in Nat /\ got[s] \in Seq(Seq(Byte))
  BY HeldTyped
<1>4. flow[s] \in Flows
  BY <1>2 DEF ConnectionsTyped
<1>5. PICK f : f = FlowAfter(flow[s], p, b)
  OBVIOUS
<1>6. f \in Flows
  BY <1>4, <1>5, FlowTyped
<1>7. Cat(wire[s], b) \in Seq(Byte)
  BY <1>3, CatBytes
<1>8. /\ flow' \in [Connection -> Flows] /\ flow'[s] = f
      /\ \A t \in Connection \ {s} : flow'[t] = flow[t]
  BY <1>1, <1>2, <1>5, <1>6 DEF ConnectionsTyped
<1>9. /\ wire' \in [Connection -> Seq(Byte)] /\ wire'[s] = Cat(wire[s], b)
      /\ \A t \in Connection \ {s} : wire'[t] = wire[t]
  BY <1>1, <1>2, <1>7 DEF ConnectionsTyped
<1>10. Held(s)' = Cat(Held(s), b)
  BY <1>1, <1>9, HeldGrows
<1>11. InTheMaking(s)' /\ (s \notin destSockets' => lengthBuffer'[s] = <<>>)
  BY <1>1 DEF TCPInv, InTheMaking, InData
<1>12. CASE flow[s] = "whole" /\ b = Bytes(p)
  <2>1. sent' = [sent EXCEPT ![s] = Append(sent[s], p)]
    BY <1>12 DEF Wrote
  <2>2. /\ sent' \in [Connection -> Seq(Packet)] /\ sent'[s] = Append(sent[s], p)
        /\ \A t \in Connection \ {s} : sent'[t] = sent[t]
    <3>1. Append(sent[s], p) \in Seq(Packet)
      BY <1>3
    <3>2. QED
      BY <1>2, <2>1, <3>1 DEF ConnectionsTyped
  <2>3. f = "whole"
    <3>1. b # <<>>
      <4>1. Len(Bytes(p)) = 2 + Len(p) /\ Len(p) \in Nat
        BY BytesOf
      <4>2. QED
        BY <1>12, <4>1
    <3>2. flow[s] # "cut" /\ flow[s] # "astray"
      BY <1>12
    <3>3. QED
      BY <1>5, <1>12, <3>1, WhatFlows, <1>4
  <2>4. ConnectionsTyped'
    BY <1>1, <1>2, <1>8, <1>9, <2>2 DEF ConnectionsTyped
  <2>5. \A t \in Connection \ {s} : SameAt(t) /\ (t \in destSockets' <=> t \in destSockets)
    BY <1>1, <1>8, <1>9, <2>2 DEF SameAt
  <2>6. Len(sent'[s]) = Len(sent[s]) + 1 /\ Len(got[s]) <= Len(sent[s])
    BY <1>2, <1>3, <1>12, <2>2 DEF NothingMadeUp
  <2>7. Len(got'[s]) <= Len(sent'[s])
    BY <1>1, <1>3, <2>6
  <2>8. ASSUME s \in destSockets PROVE Streams(s)'
    <3>1. Stream(Held(s), sent[s], Len(got[s]), "whole")
      BY <1>12, <2>8 DEF TCPInv, Streams
    <3>2. Stream(Held(s) \o Bytes(p), Append(sent[s], p), Len(got[s]), "whole")
      BY <1>3, <3>1, StreamGrows
    <3>3. Held(s)' = Held(s) \o Bytes(p)
      BY <1>10, <1>12 DEF Cat
    <3>4. Stream(Held(s)', sent'[s], Len(got'[s]), flow'[s])
      BY <1>1, <1>8, <2>2, <2>3, <3>2, <3>3
    <3>5. QED
      BY <3>4 DEF Streams
  <2>9. TCPInv'
    BY <1>1, <1>11, <2>4, <2>5, <2>7, <2>8, OneConnection
  <2>10. Counted(s)' = Counted(s)
    <3>1. SubSeq(got[s], 1, Least(Len(got[s]), Len(sent[s]))) = got[s]
      BY <1>3, <2>6, FrontOf
    <3>2. PICK m \in Nat : m = Len(sent'[s]) /\ Len(got[s]) <= m
      BY <1>3, <2>6
    <3>3. SubSeq(got[s], 1, Least(Len(got[s]), m)) = got[s]
      BY <1>3, <3>2, FrontOf
    <3>4. QED
      BY <1>1, <3>1, <3>2, <3>3 DEF Counted
  <2>11. Delivered' = Delivered
    BY <1>1, <2>2, <2>10, DeliveredSame
  <2>12. Channel!Send(s)
    BY <2>1, <2>11 DEF Channel!Send
  <2>13. QED
    BY <2>9, <2>12
<1>13. CASE ~(flow[s] = "whole" /\ b = Bytes(p))
  <2>1. sent' = sent
    BY <1>13 DEF Wrote
  <2>2. ConnectionsTyped'
    BY <1>1, <1>2, <1>8, <1>9, <2>1 DEF ConnectionsTyped
  <2>3. \A t \in Connection \ {s} : SameAt(t) /\ (t \in destSockets' <=> t \in destSockets)
    BY <1>1, <1>8, <1>9, <2>1 DEF SameAt
  <2>4. \/ b = <<>> /\ f = flow[s]
        \/ /\ flow[s] = "whole" /\ f = "cut"
           /\ Len(b) \in Nat /\ Len(b) < 2 + Len(p) /\ b = SubSeq(Bytes(p), 1, Len(b))
        \/ f = "astray"
    BY <1>4, <1>5, <1>13, WhatFlows
  <2>5. f # "astray" => flow[s] # "astray"
    BY <1>5 DEF FlowAfter
  <2>6. flow'[s] # "astray" => Len(got'[s]) <= Len(sent'[s])
    BY <1>1, <1>2, <1>8, <2>1, <2>5 DEF NothingMadeUp
  <2>7. ASSUME s \in destSockets PROVE Streams(s)'
    <3>1. Streams(s)
      BY <2>7 DEF TCPInv
    <3>2. CASE b = <<>> /\ f = flow[s]
      <4>1. Held(s)' = Held(s)
        BY <1>3, <1>10, <3>2, CatEmpty
      <4>2. QED
        BY <1>1, <1>8, <2>1, <3>1, <3>2, <4>1 DEF Streams
    <3>3. CASE /\ flow[s] = "whole" /\ f = "cut"
               /\ Len(b) \in Nat /\ Len(b) < 2 + Len(p)
               /\ b = SubSeq(Bytes(p), 1, Len(b))
      <4>1. Stream(Held(s), sent[s], Len(got[s]), "whole")
        BY <3>1, <3>3 DEF Streams
      <4>2. PICK n \in Nat : n = Len(b)
        BY <3>3
      <4>3. Stream(Held(s) \o SubSeq(Bytes(p), 1, n), sent[s], Len(got[s]), "cut")
        BY <1>3, <3>3, <4>1, <4>2, StreamBreaks
      <4>4. Held(s)' = Held(s) \o SubSeq(Bytes(p), 1, n)
        BY <1>10, <3>3, <4>2 DEF Cat
      <4>5. Stream(Held(s)', sent'[s], Len(got'[s]), flow'[s])
        BY <1>1, <1>8, <2>1, <3>3, <4>3, <4>4
      <4>6. QED
        BY <4>5 DEF Streams
    <3>4. CASE f = "astray"
      <4>1. CASE Stream(Held(s), sent[s], Len(got[s]), flow[s])
        <5>1. Stream(Cat(Held(s), b), sent[s], Len(got[s]), "astray")
          BY <1>3, <4>1, StreamAstray
        <5>2. Stream(Held(s)', sent'[s], Len(got'[s]), flow'[s])
          BY <1>1, <1>8, <1>10, <2>1, <3>4, <5>1
        <5>3. QED
          BY <5>2 DEF Streams
      <4>2. CASE Len(sent[s]) <= Len(got[s])
        BY <1>1, <1>8, <2>1, <3>4, <4>2 DEF Streams
      <4>3. QED
        BY <3>1, <4>1, <4>2 DEF Streams
    <3>5. QED
      BY <2>4, <3>2, <3>3, <3>4
  <2>8. TCPInv'
    BY <1>1, <1>11, <2>2, <2>3, <2>6, <2>7, OneConnection
  <2>9. Delivered' = Delivered
    BY <1>1, <2>1 DEF Delivered
  <2>10. QED
    BY <2>1, <2>8, <2>9
<1>14. QED
  BY <1>12, <1>13

LEMMA SendKeeps ==
  ASSUME TCPAssumption, TCPInv, NEW s \in Connection, NEW p \in Packet,
         SendRTPRTCPData(s, p)
  PROVE  TCPInv' /\ (UNCHANGED <<sent, Delivered>> \/ Channel!Send(s))
<1>1. PICK b \in MaybeWritten(p) :
        /\ wire' = [wire EXCEPT ![s] = @ \o b]
        /\ flow' = [flow EXCEPT ![s] = FlowAfter(@, p, b)]
        /\ sent' = IF flow[s] = "whole" /\ b = Bytes(p)
                   THEN [sent EXCEPT ![s] = Append(@, p)] ELSE sent
  BY DEF SendRTPRTCPData
<1>2. flow[s] # "none" /\ UNCHANGED <<destSockets, lengthBuffer, dataBuffer, got>>
  BY DEF SendRTPRTCPData
<1>3. Wrote(s, p, b)
  BY <1>1, <1>2 DEF Wrote, Cat
<1>4. b \in Seq(Byte)
  BY WrittenBytes
<1>5. QED
  BY <1>2, <1>3, <1>4, WroteKeeps

-----------------------------------------------------------------------------
LEMMA AddKeeps ==
  ASSUME TCPInv, NEW s \in Connection, TCPAddDestination(s)
  PROVE  TCPInv' /\ Channel!Reconnect({s})
<1>1. /\ s \notin destSockets /\ destSockets' = destSockets \cup {s}
      /\ flow' = [flow EXCEPT ![s] = "whole"] /\ wire' = [wire EXCEPT ![s] = <<>>]
      /\ sent' = [sent EXCEPT ![s] = <<>>] /\ got' = [got EXCEPT ![s] = <<>>]
      /\ UNCHANGED <<lengthBuffer, dataBuffer>>
  BY DEF TCPAddDestination
<1>2. ConnectionsTyped /\ lengthBuffer[s] = <<>> /\ InTheMaking(s)
  BY <1>1 DEF TCPInv
<1>3. dataBuffer[s] = <<>>
  BY <1>2 DEF InTheMaking, InData
<1>4. /\ wire' \in [Connection -> Seq(Byte)] /\ wire'[s] = <<>>
      /\ \A t \in Connection \ {s} : wire'[t] = wire[t]
  BY <1>1, <1>2 DEF ConnectionsTyped
<1>5. /\ flow' \in [Connection -> Flows] /\ flow'[s] = "whole"
      /\ \A t \in Connection \ {s} : flow'[t] = flow[t]
  BY <1>1, <1>2 DEF ConnectionsTyped, Flows
<1>6. /\ sent' \in [Connection -> Seq(Packet)] /\ sent'[s] = <<>>
      /\ \A t \in Connection \ {s} : sent'[t] = sent[t]
  BY <1>1, <1>2 DEF ConnectionsTyped
<1>7. /\ got' \in [Connection -> Seq(Seq(Byte))] /\ got'[s] = <<>>
      /\ \A t \in Connection \ {s} : got'[t] = got[t]
  BY <1>1, <1>2 DEF ConnectionsTyped
<1>8. ConnectionsTyped'
  BY <1>1, <1>2, <1>4, <1>5, <1>6, <1>7 DEF ConnectionsTyped
<1>9. \A t \in Connection \ {s} : SameAt(t) /\ (t \in destSockets' <=> t \in destSockets)
  BY <1>1, <1>4, <1>5, <1>6, <1>7 DEF SameAt
<1>10. InTheMaking(s)'
  BY <1>1, <1>2 DEF InTheMaking, InData
<1>11. Streams(s)' /\ Len(got'[s]) <= Len(sent'[s])
  <2>1. Cat(<<>>, <<>>) = <<>>
    BY CatEmpty, EmptySeq
  <2>2. Held(s)' = <<>>
    BY <1>1, <1>2, <1>3, <1>4, <2>1 DEF Held
  <2>3. Len(got'[s]) = 0 /\ Len(sent'[s]) = 0
    BY <1>6, <1>7
  <2>4. QED
    BY <1>5, <1>6, <2>2, <2>3, StreamBegins DEF Streams
<1>12. TCPInv'
  BY <1>1, <1>8, <1>9, <1>10, <1>11, OneConnection
<1>13. Channel!Reconnect({s})
  <2>1. sent' = [c \in Connection |-> IF c \in {s} THEN <<>> ELSE sent[c]]
    BY <1>1, <1>2 DEF ConnectionsTyped
  <2>2. Counted(s)' = <<>>
    BY <1>6, <1>7 DEF Counted, Least
  <2>3. Delivered' = [Delivered EXCEPT ![s] = <<>>]
    BY <1>6, <1>7, <2>2, DeliveredOfOne
  <2>4. Delivered' = [c \in Connection |-> IF c \in {s} THEN <<>> ELSE Delivered[c]]
    BY <2>3 DEF Delivered
  <2>5. QED
    BY <2>1, <2>4 DEF Channel!Reconnect
<1>14. QED
  BY <1>12, <1>13

LEMMA ForgetKeeps ==
  ASSUME TCPInv, NEW S, UNCHANGED <<wire, peer, got>>,
         destSockets' = destSockets \ S,
         lengthBuffer' = [s \in Connection |-> IF s \in S THEN <<>> ELSE lengthBuffer[s]],
         dataBuffer' = [s \in Connection |-> IF s \in S THEN <<>> ELSE dataBuffer[s]]
  PROVE  TCPInv' /\ UNCHANGED <<sent, Delivered>>
<1>1. ConnectionsTyped /\ UNCHANGED <<wire, flow, sent, got>>
  BY DEF TCPInv, peer
<1>2. ConnectionsTyped'
  <2>1. lengthBuffer' \in [Connection -> Seq(Byte)]
    BY <1>1, EmptySeq DEF ConnectionsTyped
  <2>2. dataBuffer' \in [Connection -> Seq(Byte)]
    BY <1>1, EmptySeq DEF ConnectionsTyped
  <2>3. QED
    BY <1>1, <2>1, <2>2 DEF ConnectionsTyped
<1>3. ASSUME NEW s \in Connection
      PROVE  /\ s \in S => lengthBuffer'[s] = <<>> /\ dataBuffer'[s] = <<>>
             /\ s \notin S => /\ lengthBuffer'[s] = lengthBuffer[s]
                              /\ dataBuffer'[s] = dataBuffer[s]
  OBVIOUS
<1>4. ASSUME NEW s \in Connection PROVE InTheMaking(s)'
  <2>1. CASE s \in S
    BY <1>3, <2>1 DEF InTheMaking
  <2>2. CASE s \notin S
    BY <1>3, <2>2 DEF TCPInv, InTheMaking, InData
  <2>3. QED
    BY <2>1, <2>2
<1>5. ASSUME NEW s \in Connection \ destSockets' PROVE lengthBuffer'[s] = <<>>
  BY <1>3, <1>5 DEF TCPInv
<1>6. ASSUME NEW s \in destSockets' \cap Connection
      PROVE  Streams(s)'
  <2>1. s \in destSockets \cap Connection /\ s \notin S
    BY <1>6
  <2>2. Held(s)' = Held(s)
    BY <1>1, <1>3, <2>1 DEF Held
  <2>3. QED
    BY <1>1, <2>1, <2>2 DEF TCPInv, Streams
<1>7. NothingMadeUp' /\ UNCHANGED <<sent, Delivered>>
  BY <1>1 DEF TCPInv, NothingMadeUp, Delivered
<1>8. QED
  BY <1>2, <1>4, <1>5, <1>6, <1>7 DEF TCPInv

(* Each step keeps the invariant, and is one of the channel.               *)
LEMMA TCPChannelStep ==
  ASSUME TCPAssumption, TCPInv, [TCPNext]_tcpvars
  PROVE  TCPInv' /\ [Channel!Next]_<<sent, Delivered>>
<1>1. ASSUME NEW s \in Connection, TCPAddDestination(s)
      PROVE  TCPInv' /\ [Channel!Next]_<<sent, Delivered>>
  <2>1. TCPInv' /\ Channel!Reconnect({s}) /\ {s} \in SUBSET Connection
    BY <1>1, AddKeeps
  <2>2. QED
    BY <2>1 DEF Channel!Next
<1>2. ASSUME NEW s \in Connection, TCPDeleteDestination(s)
      PROVE  TCPInv' /\ [Channel!Next]_<<sent, Delivered>>
  BY <1>2, ForgetKeeps DEF TCPDeleteDestination, Forget
<1>3. ASSUME NEW s \in Connection, NEW p \in Packet, SendRTPRTCPData(s, p)
      PROVE  TCPInv' /\ [Channel!Next]_<<sent, Delivered>>
  BY <1>3, SendKeeps DEF Channel!Next
<1>5. ASSUME NEW s \in Connection, NEW n \in 1 .. Len(wire[s]), TCPReceive(s, n)
      PROVE  TCPInv' /\ [Channel!Next]_<<sent, Delivered>>
  <2>1. n \in Nat
    OBVIOUS
  <2>2. TCPInv' /\ (UNCHANGED <<sent, Delivered>> \/ Channel!Deliver(s))
    BY <1>5, <2>1, ReceiveKeeps
  <2>3. QED
    BY <2>2 DEF Channel!Next
<1>6. CASE TCPClearDestinations
  BY <1>6, ForgetKeeps DEF TCPClearDestinations, Forget
<1>7. ASSUME UNCHANGED <<destSockets, connection>>
      PROVE  TCPInv' /\ [Channel!Next]_<<sent, Delivered>>
  <2>1. UNCHANGED <<destSockets, lengthBuffer, dataBuffer, wire, flow, sent, got>>
    BY <1>7 DEF connection, peer
  <2>2. UNCHANGED <<sent, Delivered>>
    BY <2>1 DEF Delivered
  <2>3. TCPInv'
    BY <2>1 DEF TCPInv, ConnectionsTyped, InTheMaking, InData, Held, Streams, NothingMadeUp
  <2>4. QED
    BY <2>2, <2>3
<1>8. CASE TCPGetNextPacket \/ WaitBegins \/ WaitEnds \/ TCPAbortWait
  BY <1>7, <1>8 DEF TCPGetNextPacket, WaitBegins, WaitEnds, TCPAbortWait
<1>9. CASE TCPRestart
  <2>1. /\ UNCHANGED <<wire, peer, got>> /\ destSockets' = {}
        /\ lengthBuffer' = EachEmpty /\ dataBuffer' = EachEmpty
    BY <1>9 DEF TCPRestart
  <2>2. PICK S : S = Connection \cup destSockets
    OBVIOUS
  <2>3. /\ destSockets' = destSockets \ S
        /\ lengthBuffer' = [s \in Connection |-> IF s \in S THEN <<>> ELSE lengthBuffer[s]]
        /\ dataBuffer' = [s \in Connection |-> IF s \in S THEN <<>> ELSE dataBuffer[s]]
    BY <2>1, <2>2 DEF EachEmpty
  <2>4. QED
    BY <2>1, <2>3, ForgetKeeps
<1>10. CASE UNCHANGED tcpvars
  BY <1>7, <1>10 DEF tcpvars
<1>11. QED
  BY <1>1, <1>2, <1>3, <1>5, <1>6, <1>8, <1>9, <1>10 DEF TCPNext

(* What each receiver puts together of a connection begins with what was   *)
(* sent over it whole, in the order of the sending and once, up to the     *)
(* first packet of which a send wrote less; anything else comes only when  *)
(* the peer wrote on after that.  PollSocket and ProcessAvailableBytes     *)
(* take the stream apart as the two sends of SendRTPRTCPData made it,      *)
(* whatever pieces it arrives in.                                          *)
THEOREM ChannelOfWholePackets == TCPSpec => CarriesPackets
<1>1. TCPInit => TCPInv /\ Channel!Init
  <2>1. SUFFICES ASSUME TCPInit PROVE TCPInv /\ Channel!Init
    OBVIOUS
  <2>2. TCPInv /\ sent = EachEmpty /\ got = EachEmpty
    BY <2>1, TCPInitInv DEF TCPInit
  <2>3. \A s \in Connection : SubSeq(got[s], 1, Least(Len(got[s]), Len(sent[s]))) = <<>>
    BY <2>2 DEF EachEmpty, Least
  <2>4. Delivered = EachEmpty
    BY <2>3 DEF Delivered, EachEmpty
  <2>5. QED
    BY <2>2, <2>4 DEF Channel!Init, Channel!Quiet, EachEmpty
<1>2. TCPInv /\ [TCPNext]_tcpvars => TCPInv' /\ [Channel!Next]_<<sent, Delivered>>
  BY TCPChannelStep, TCPAssumption
<1>3. TCPInv => NothingMadeUp
  BY DEF TCPInv
<1>4. QED
  BY <1>1, <1>2, <1>3, PTL DEF TCPSpec, CarriesPackets, Channel!Spec

-----------------------------------------------------------------------------
(* The data buffers, one for each packet in the making and in the queue.   *)
Making == {s \in destSockets : InData(s)}

BufferInv ==
  /\ IsFiniteSet(destSockets) /\ destSockets \subseteq Connection
  /\ lengthBuffer \in [Connection -> Seq(Byte)]
  /\ rawpackets \in Seq(Connection) /\ NoBufferLost

LEMMA MakingSize ==
  ASSUME BufferInv
  PROVE  /\ IsFiniteSet(Making) /\ Cardinality(Making) \in Nat
         /\ buffers = Cardinality(Making) + Len(rawpackets) /\ Len(rawpackets) \in Nat
<1>1. IsFiniteSet(Making)
  BY FS_Subset DEF BufferInv, Making
<1>2. Cardinality(Making) \in Nat
  BY <1>1, FS_CardinalityType
<1>3. QED
  BY <1>1, <1>2 DEF BufferInv, NoBufferLost, Allocated, Making

LEMMA BufferInit == TCPInit => BufferInv
<1> SUFFICES ASSUME TCPInit PROVE BufferInv
  OBVIOUS
<1>1. destSockets = {} /\ rawpackets = <<>> /\ buffers = 0
      /\ lengthBuffer \in [Connection -> Seq(Byte)]
  BY EmptySeq DEF TCPInit, EachEmpty
<1>2. Allocated(destSockets) = 0
  BY <1>1, FS_EmptySet DEF Allocated
<1>3. QED
  BY <1>1, <1>2, FS_EmptySet DEF BufferInv, NoBufferLost

LEMMA BufferForget ==
  ASSUME BufferInv, NEW S, S \subseteq destSockets, destSockets' = destSockets \ S,
         lengthBuffer' = [s \in Connection |-> IF s \in S THEN <<>> ELSE lengthBuffer[s]],
         buffers' = buffers - Allocated(S), UNCHANGED rawpackets
  PROVE  BufferInv'
<1>1. /\ IsFiniteSet(Making) /\ Cardinality(Making) \in Nat
      /\ buffers = Cardinality(Making) + Len(rawpackets) /\ Len(rawpackets) \in Nat
  BY MakingSize
<1>2. PICK gone : gone = {s \in S : InData(s)}
  OBVIOUS
<1>3. Making \cap gone = gone /\ Allocated(S) = Cardinality(gone)
  BY <1>2 DEF Making, Allocated
<1>4. Making' = Making \ gone
  BY <1>2 DEF Making, InData, BufferInv
<1>5. Cardinality(Making \ gone) = Cardinality(Making) - Cardinality(gone)
  <2>1. Cardinality(Making \ gone) = Cardinality(Making) - Cardinality(Making \cap gone)
    BY <1>1, FS_Difference
  <2>2. QED
    BY <1>3, <2>1
<1>6. Cardinality(gone) \in Nat
  <2>1. IsFiniteSet(gone)
    BY <1>1, <1>3, FS_Subset
  <2>2. QED
    BY <2>1, FS_CardinalityType
<1>7. buffers' = Cardinality(Making') + Len(rawpackets')
  BY <1>1, <1>3, <1>4, <1>5, <1>6
<1>8. IsFiniteSet(destSockets') /\ destSockets' \subseteq Connection
  BY FS_Subset DEF BufferInv
<1>9. lengthBuffer' \in [Connection -> Seq(Byte)]
  BY EmptySeq DEF BufferInv
<1>10. QED
  BY <1>7, <1>8, <1>9 DEF BufferInv, NoBufferLost, Allocated, Making

LEMMA BufferReceive ==
  ASSUME BufferInv, NEW s \in Connection, s \in destSockets,
         NEW length \in Seq(Byte), NEW data \in Seq(Byte), NEW behind \in Seq(Byte),
         Outcome(s, length, data, behind), InData(s) => Len(length) = 2
  PROVE  BufferInv'
<1>1. /\ IsFiniteSet(Making) /\ Cardinality(Making) \in Nat
      /\ buffers = Cardinality(Making) + Len(rawpackets) /\ Len(rawpackets) \in Nat
  BY MakingSize
<1>2. PICK complete \in BOOLEAN : complete <=> Complete(length, data)
  OBVIOUS
<1>3. /\ lengthBuffer' = [lengthBuffer EXCEPT ![s] = IF complete THEN <<>> ELSE length]
      /\ rawpackets' = IF complete THEN Append(rawpackets, s) ELSE rawpackets
      /\ buffers' = buffers + (IF Len(length) = 2 /\ ~InData(s) THEN 1 ELSE 0)
      /\ destSockets' = destSockets
  BY <1>2 DEF Outcome
<1>4. lengthBuffer \in [Connection -> Seq(Byte)] /\ destSockets \subseteq Connection
      /\ rawpackets \in Seq(Connection)
  BY DEF BufferInv
<1>5. /\ lengthBuffer' \in [Connection -> Seq(Byte)]
      /\ lengthBuffer'[s] = (IF complete THEN <<>> ELSE length)
      /\ \A t \in Connection \ {s} : lengthBuffer'[t] = lengthBuffer[t]
  BY <1>3, <1>4, EmptySeq
<1>6. \A t \in Connection \ {s} : InData(t)' <=> InData(t)
  BY <1>5 DEF InData
<1>7. InData(s)' <=> ~complete /\ Len(length) = 2
  BY <1>5 DEF InData
<1>8. complete => Len(length) = 2
  BY <1>2 DEF Complete
<1>9. Making' = IF InData(s)' THEN Making \cup {s} ELSE Making \ {s}
  BY <1>3, <1>4, <1>6 DEF Making
<1>10. s \in Making <=> InData(s)
  BY DEF Making
<1>11. s \notin Making => Cardinality(Making \cup {s}) = Cardinality(Making) + 1
  BY <1>1, FS_AddElement
<1>12. s \in Making => Cardinality(Making \ {s}) = Cardinality(Making) - 1
  BY <1>1, FS_RemoveElement
<1>13. PICK before \in Nat : before = Cardinality(Making)
  BY <1>1
<1>14. rawpackets' \in Seq(Connection)
       /\ Len(rawpackets') = Len(rawpackets) + (IF complete THEN 1 ELSE 0)
  BY <1>3, <1>4
<1>15. buffers' = Cardinality(Making') + Len(rawpackets')
  <2>1. CASE InData(s) /\ complete
    <3>1. Making' = Making \ {s} /\ Cardinality(Making') = before - 1
      BY <1>7, <1>9, <1>10, <1>12, <1>13, <2>1
    <3>2. buffers' = buffers /\ Len(rawpackets') = Len(rawpackets) + 1
      BY <1>1, <1>3, <1>13, <1>14, <2>1
    <3>3. QED
      BY <1>1, <1>13, <3>1, <3>2
  <2>2. CASE InData(s) /\ ~complete
    <3>1. Making' = Making
      BY <1>7, <1>9, <1>10, <2>2
    <3>2. buffers' = buffers /\ Len(rawpackets') = Len(rawpackets)
      BY <1>1, <1>3, <1>13, <1>14, <2>2
    <3>3. QED
      BY <1>1, <3>1, <3>2
  <2>3. CASE ~InData(s) /\ complete
    <3>1. Making' = Making
      BY <1>7, <1>9, <1>10, <2>3
    <3>2. buffers' = buffers + 1 /\ Len(rawpackets') = Len(rawpackets) + 1
      BY <1>3, <1>8, <1>14, <2>3
    <3>3. QED
      BY <1>1, <1>13, <3>1, <3>2
  <2>4. CASE ~InData(s) /\ ~complete /\ Len(length) = 2
    <3>1. Making' = Making \cup {s} /\ Cardinality(Making') = before + 1
      BY <1>7, <1>9, <1>10, <1>11, <1>13, <2>4
    <3>2. buffers' = buffers + 1 /\ Len(rawpackets') = Len(rawpackets)
      BY <1>1, <1>3, <1>14, <2>4
    <3>3. QED
      BY <1>1, <1>13, <3>1, <3>2
  <2>5. CASE ~InData(s) /\ ~complete /\ Len(length) # 2
    <3>1. Making' = Making
      BY <1>7, <1>9, <1>10, <2>5
    <3>2. buffers' = buffers /\ Len(rawpackets') = Len(rawpackets)
      BY <1>1, <1>3, <1>13, <1>14, <2>5
    <3>3. QED
      BY <1>1, <3>1, <3>2
  <2>6. QED
    BY <2>1, <2>2, <2>3, <2>4, <2>5
<1>16. QED
  BY <1>3, <1>5, <1>14, <1>15 DEF BufferInv, NoBufferLost, Allocated, Making

LEMMA BufferStep == 
  ASSUME TCPAssumption, TCPInv, BufferInv, [TCPNext]_tcpvars
  PROVE  BufferInv'
<1>1. ASSUME UNCHANGED <<destSockets, lengthBuffer, rawpackets, buffers>> PROVE BufferInv'
  BY <1>1 DEF BufferInv, NoBufferLost, Allocated, InData
<1>2. ASSUME NEW s \in Connection, TCPAddDestination(s) PROVE BufferInv'
  <2>1. /\ s \notin destSockets /\ destSockets' = destSockets \cup {s}
        /\ UNCHANGED <<lengthBuffer, rawpackets, buffers>> /\ lengthBuffer[s] = <<>>
    BY <1>2 DEF TCPAddDestination, TCPInv
  <2>2. Making' = Making
    BY <2>1 DEF Making, InData
  <2>3. IsFiniteSet(destSockets')
    BY <2>1, FS_AddElement DEF BufferInv
  <2>4. buffers' = Cardinality(Making') + Len(rawpackets')
    BY <2>1, <2>2, MakingSize
  <2>5. QED
    BY <2>1, <2>3, <2>4 DEF BufferInv, NoBufferLost, Allocated, Making
<1>3. ASSUME NEW s \in Connection, TCPDeleteDestination(s) PROVE BufferInv'
  BY <1>3, BufferForget DEF TCPDeleteDestination, Forget
<1>4. CASE TCPClearDestinations
  BY <1>4, BufferForget DEF TCPClearDestinations, Forget
<1>5. ASSUME NEW s \in Connection, NEW p \in Packet, SendRTPRTCPData(s, p)
      PROVE  BufferInv'
  BY <1>1, <1>5 DEF SendRTPRTCPData
<1>6. ASSUME NEW s \in Connection, NEW n \in 1 .. Len(wire[s]), TCPReceive(s, n)
      PROVE  BufferInv'
  <2>1. n \in Nat /\ s \in destSockets
    BY <1>6 DEF TCPReceive
  <2>2. PICK length, data, behind \in Seq(Byte) :
          Reading(s, length, data, behind) /\ Outcome(s, length, data, behind)
    BY <1>6, <2>1, Received
  <2>3. InData(s) => Len(length) = 2
    BY <2>2 DEF Reading
  <2>4. QED
    BY <2>1, <2>2, <2>3, BufferReceive
<1>7. CASE TCPGetNextPacket
  <2>1. /\ rawpackets # <<>> /\ rawpackets' = Tail(rawpackets) /\ buffers' = buffers - 1
        /\ UNCHANGED <<destSockets, lengthBuffer>>
    BY <1>7 DEF TCPGetNextPacket, connection
  <2>2. rawpackets' \in Seq(Connection) /\ Len(rawpackets') = Len(rawpackets) - 1
    BY <2>1 DEF BufferInv
  <2>3. Making' = Making
    BY <2>1 DEF Making, InData
  <2>4. buffers' = Cardinality(Making') + Len(rawpackets')
    BY <2>1, <2>2, <2>3, MakingSize
  <2>5. QED
    BY <2>1, <2>2, <2>4 DEF BufferInv, NoBufferLost, Allocated, Making
<1>8. CASE WaitBegins \/ WaitEnds \/ TCPAbortWait
  BY <1>1, <1>8 DEF WaitBegins, WaitEnds, TCPAbortWait, connection
<1>9. CASE TCPRestart
  <2>1. /\ destSockets' = {} /\ rawpackets' = <<>> /\ lengthBuffer' = EachEmpty
        /\ buffers' = buffers - Allocated(destSockets) - Len(rawpackets)
    BY <1>9 DEF TCPRestart
  <2>2. buffers' = 0
    BY <2>1, MakingSize DEF Allocated, Making
  <2>3. Making' = {}
    BY <2>1 DEF Making
  <2>4. buffers' = Cardinality(Making') + Len(rawpackets')
    BY <2>1, <2>2, <2>3, FS_EmptySet
  <2>5. lengthBuffer' \in [Connection -> Seq(Byte)]
    BY <2>1, EmptySeq DEF EachEmpty
  <2>6. QED
    BY <2>1, <2>4, <2>5, FS_EmptySet DEF BufferInv, NoBufferLost, Allocated, Making
<1>10. CASE UNCHANGED tcpvars
  BY <1>1, <1>10 DEF tcpvars, connection
<1>11. QED
  BY <1>2, <1>3, <1>4, <1>5, <1>6, <1>7, <1>8, <1>9, <1>10 DEF TCPNext

LEMMA BuffersKept == TCPSpec => []NoBufferLost
<1>1. TCPInit => TCPInv /\ BufferInv
  BY TCPInitInv, BufferInit
<1>2. TCPInv /\ BufferInv /\ [TCPNext]_tcpvars => TCPInv' /\ BufferInv'
  BY TCPChannelStep, BufferStep, TCPAssumption
<1>3. BufferInv => NoBufferLost
  BY DEF BufferInv
<1>4. QED
  BY <1>1, <1>2, <1>3, PTL DEF TCPSpec

-----------------------------------------------------------------------------
(* The external transmitter: while it is there, the count of signals does  *)
(* not say of an empty pipe that a byte is in it, so that an injection     *)
(* never leaves out its own.                                               *)

CountNeverAhead == extcreated /\ abortcount > 0 => signals > 0
SleeperInside == ~extcreated => waiter = "away"
ExtInv ==
  /\ extcreated \in BOOLEAN /\ signals \in Nat /\ abortcount \in Nat
  /\ extqueue \in Seq(BOOLEAN)
  /\ CountNeverAhead /\ SleeperInside /\ InjectedHeard

LEMMA ExtInitInv == ExtInit => ExtInv
<1> SUFFICES ASSUME ExtInit PROVE ExtInv
  OBVIOUS
<1>1. extcreated \in BOOLEAN /\ signals \in Nat /\ abortcount \in Nat
  BY DEF ExtInit
<1>2. extqueue = <<>> /\ waiter = "away" /\ abortcount = 0
  BY DEF ExtInit
<1>3. QED
  BY <1>1, <1>2 DEF ExtInv, CountNeverAhead, SleeperInside, InjectedHeard

LEMMA InjectKeeps ==
  ASSUME ExtInv, NEW rtp \in BOOLEAN, Inject(rtp)
  PROVE  ExtInv'
<1>2. extqueue' \in Seq(BOOLEAN)
  BY DEF Inject, ExtInv
<1>3. /\ extcreated' \in BOOLEAN /\ signals' \in Nat /\ abortcount' \in Nat
      /\ CountNeverAhead' /\ SleeperInside' /\ InjectedHeard'
  BY DEF Inject, ExtInv, CountNeverAhead, SleeperInside, InjectedHeard
<1>4. QED
  BY <1>2, <1>3 DEF ExtInv

LEMMA ExtStep == ExtInv /\ [ExtNext]_extvars => ExtInv'
<1> SUFFICES ASSUME ExtInv, [ExtNext]_extvars PROVE ExtInv'
  OBVIOUS
<1> USE DEF ExtInv, CountNeverAhead, SleeperInside, InjectedHeard
<1>1. CASE ExtCreate
  BY <1>1 DEF ExtCreate
<1>2. CASE ExtDestroy
  <2>1. extcreated' = FALSE /\ signals' = 0 /\ abortcount' \in Nat
    BY <1>2 DEF ExtDestroy
  <2>2. extqueue' \in Seq(BOOLEAN) /\ waiter' = "away"
    BY <1>2 DEF ExtDestroy
  <2>3. CountNeverAhead' /\ SleeperInside' /\ InjectedHeard'
    BY <2>1, <2>2
  <2>4. QED
    BY <2>1, <2>2, <2>3
<1>3. CASE ExtWait
  BY <1>3 DEF ExtWait
<1>4. CASE ExtSelect
  BY <1>4 DEF ExtSelect
<1>5. CASE ExtWake
  BY <1>5 DEF ExtWake
<1>6. CASE ExtAbortWait
  BY <1>6 DEF ExtAbortWait
<1>7. CASE InjectRTP \/ InjectRTCP
  BY <1>7, InjectKeeps DEF InjectRTP, InjectRTCP
<1>8. ASSUME NEW length \in 1 .. 2, NEW type \in {96, 200},
             InjectRTPorRTCP(length, type)
      PROVE  ExtInv'
  <2> DEFINE rtp == ~(length >= 2 /\ type \in 200 .. 204)
  <2>1. rtp \in BOOLEAN /\ Inject(rtp)
    BY <1>8 DEF InjectRTPorRTCP
  <2> HIDE DEF rtp
  <2>2. QED
    BY <2>1, InjectKeeps
<1>9. CASE ExtGetNextPacket
  <2>2. extqueue' \in Seq(BOOLEAN) /\ UNCHANGED <<extcreated, signals, abortcount, waiter>>
        /\ extqueue # <<>>
    BY <1>9 DEF ExtGetNextPacket
  <2>3. QED
    BY <2>2
<1>10. CASE UNCHANGED extvars
  BY <1>10 DEF extvars
<1>11. QED
  BY <1>1, <1>2, <1>3, <1>4, <1>5, <1>6, <1>7, <1>8, <1>9, <1>10 DEF ExtNext

-----------------------------------------------------------------------------
(* The TCP transmitter: the wait that a new socket is to end.              *)

TCPWaitInv == pipe \in Nat /\ NewSocketHeard

LEMMA TCPWaitInit == TCPInit => TCPWaitInv
BY DEF TCPInit, TCPWaitInv, NewSocketHeard, NoWait

LEMMA TCPWaitStep == TCPWaitInv /\ [TCPNext]_tcpvars => TCPWaitInv'
<1> SUFFICES ASSUME TCPWaitInv, [TCPNext]_tcpvars PROVE TCPWaitInv'
  OBVIOUS
<1> USE DEF TCPWaitInv, NewSocketHeard, connection
<1>1. ASSUME NEW s \in Connection, TCPAddDestination(s) PROVE TCPWaitInv'
  BY <1>1 DEF TCPAddDestination
<1>2. ASSUME NEW s \in Connection, TCPDeleteDestination(s) PROVE TCPWaitInv'
  BY <1>2 DEF TCPDeleteDestination, Forget
<1>3. ASSUME NEW s \in Connection, NEW p \in Packet, SendRTPRTCPData(s, p)
      PROVE  TCPWaitInv'
  BY <1>3 DEF SendRTPRTCPData
<1>4. ASSUME NEW s \in Connection, NEW n \in 1 .. Len(wire[s]), TCPReceive(s, n)
      PROVE  TCPWaitInv'
  <2>1. UNCHANGED <<destSockets, watched, pipe>>
    BY <1>4 DEF TCPReceive
  <2>2. QED
    BY <2>1
<1>5. CASE TCPClearDestinations
  BY <1>5 DEF TCPClearDestinations, Forget
<1>6. CASE TCPGetNextPacket
  BY <1>6 DEF TCPGetNextPacket
<1>7. CASE WaitBegins
  BY <1>7 DEF WaitBegins
<1>8. CASE WaitEnds
  BY <1>8 DEF WaitEnds, NoWait
<1>9. CASE TCPAbortWait
  BY <1>9 DEF TCPAbortWait
<1>10. CASE TCPRestart
  BY <1>10 DEF TCPRestart, NoWait
<1>11. CASE UNCHANGED tcpvars
  BY <1>11 DEF tcpvars
<1>12. QED
  BY <1>1, <1>2, <1>3, <1>4, <1>5, <1>6, <1>7, <1>8, <1>9, <1>10, <1>11
     DEF TCPNext

-----------------------------------------------------------------------------
(* The IPv6 transmitter: who waits, who destroys, and the descriptors.     *)

Wait6Inv ==
  /\ created6 \in BOOLEAN /\ heard6 \in BOOLEAN /\ bytes6 \in Nat
  /\ waiting6 \in BOOLEAN /\ destroying6 \in BOOLEAN
  /\ waiter6 \in {"out", "select", "back", "blocked"}
  /\ created6 => ~destroying6
  /\ DescriptorsGivenBack6
  /\ WaitersSafe6

wait6 == <<created6, open6, misclosed6, waiting6, waiter6, heard6, bytes6,
           destroying6>>

LEMMA Wait6Init == UDPv6Init => Wait6Inv
<1> SUFFICES ASSUME UDPv6Init PROVE Wait6Inv
  OBVIOUS
<1>1. created6 = FALSE /\ heard6 = FALSE /\ waiting6 = FALSE /\ destroying6 = FALSE
  BY DEF UDPv6Init
<1>2. bytes6 = 0 /\ waiter6 = "out" /\ open6 = {} /\ misclosed6 = FALSE
  BY DEF UDPv6Init
<1>3. DescriptorsGivenBack6
  BY <1>1, <1>2 DEF DescriptorsGivenBack6
<1>4. WaitersSafe6
  BY <1>1, <1>2 DEF WaitersSafe6
<1>5. QED
  BY <1>1, <1>2, <1>3, <1>4 DEF Wait6Inv

(* Calls about lists, names, the filter and packets leave all this alone.  *)
LEMMA Wait6Frame ==
  ASSUME \/ \E addr \in Peer6 : AddDestination6(addr) \/ DeleteDestination6(addr)
         \/ ClearDestinations6
         \/ \E g \in Group6 : JoinMulticastGroup6(g) \/ LeaveMulticastGroup6(g)
         \/ LeaveAllMulticastGroups6
         \/ \E m \in Filter6!ReceiveMode : SetReceiveMode6(m)
         \/ ClearIgnoreList6 \/ ClearAcceptList6
         \/ \E s \in Sender6 : \E port \in {0, s.port} :
              \/ AddToIgnoreList6(s.ip, port) \/ AddToAcceptList6(s.ip, port)
              \/ DeleteFromIgnoreList6(s.ip, port)
              \/ DeleteFromAcceptList6(s.ip, port)
         \/ \E s \in Socket6 : DatagramArrives6(s)
         \/ Poll6 \/ GetNextPacket6 \/ GetLocalHostName6
         \/ UNCHANGED udp6vars
  PROVE  UNCHANGED wait6
<1> USE DEF wait6, socketvars6, waitvars6
<1>1. ASSUME Lists6 PROVE UNCHANGED wait6
  BY <1>1 DEF Lists6
<1>2. ASSUME Queue6 PROVE UNCHANGED wait6
  BY <1>2 DEF Queue6
<1>3. ASSUME NEW addr, AddDestination6(addr) \/ DeleteDestination6(addr) PROVE Lists6
  BY <1>3 DEF AddDestination6, DeleteDestination6
<1>4. ASSUME NEW g, JoinMulticastGroup6(g) \/ LeaveMulticastGroup6(g) PROVE Lists6
  BY <1>4 DEF JoinMulticastGroup6, LeaveMulticastGroup6
<1>5. ASSUME NEW m, SetReceiveMode6(m) PROVE Lists6
  BY <1>5 DEF SetReceiveMode6
<1>6. ASSUME NEW ip, NEW port,
             \/ AddToIgnoreList6(ip, port) \/ AddToAcceptList6(ip, port)
             \/ DeleteFromIgnoreList6(ip, port) \/ DeleteFromAcceptList6(ip, port)
      PROVE  Lists6
  BY <1>6 DEF AddToIgnoreList6, AddToAcceptList6, DeleteFromIgnoreList6,
              DeleteFromAcceptList6, Filters6
<1>7. ClearDestinations6 \/ LeaveAllMulticastGroups6 \/ ClearIgnoreList6
        \/ ClearAcceptList6 => Lists6
  BY DEF ClearDestinations6, LeaveAllMulticastGroups6, ClearIgnoreList6,
         ClearAcceptList6, Filters6
<1>8. ASSUME NEW s, DatagramArrives6(s) PROVE Queue6
  BY <1>8 DEF DatagramArrives6
<1>9. Poll6 \/ GetNextPacket6 => Queue6
  BY DEF Poll6, GetNextPacket6
<1>10. GetLocalHostName6 \/ UNCHANGED udp6vars => UNCHANGED wait6
  BY DEF GetLocalHostName6, udp6vars
<1>11. QED
  BY <1>1, <1>2, <1>3, <1>4, <1>5, <1>6, <1>7, <1>8, <1>9, <1>10

LEMMA Wait6Step == Wait6Inv /\ [UDPv6Next]_udp6vars => Wait6Inv'
<1> SUFFICES ASSUME Wait6Inv, [UDPv6Next]_udp6vars PROVE Wait6Inv'
  OBVIOUS
<1> USE DEF Wait6Inv, WaitersSafe6
<1>1. CASE GiveUp6
  <2>1. open6' = open6
    BY <1>1 DEF GiveUp6, DescriptorsGivenBack6
  <2>2. UNCHANGED wait6
    BY <1>1, <2>1 DEF GiveUp6, wait6, waitvars6
  <2>3. QED
    BY <2>2 DEF wait6, DescriptorsGivenBack6
<1>2. CASE Create6
  <2>1. created6' = TRUE /\ waiting6' = FALSE /\ bytes6' = 0 /\ ~destroying6
        /\ UNCHANGED <<misclosed6, waiter6, heard6, destroying6>>
    BY <1>2 DEF Create6
  <2>2. waiter6 = "out"
    BY <1>2 DEF Create6
  <2>3. open6' = Descriptors6
    BY <1>2 DEF Create6, DescriptorsGivenBack6
  <2>4. DescriptorsGivenBack6'
    BY <2>1, <2>3 DEF DescriptorsGivenBack6
  <2>5. QED
    BY <2>1, <2>2, <2>4
<1>3. CASE Destroy6
  <2>1. created6 /\ created6' = FALSE /\ bytes6' = 0 /\ destroying6' = waiting6
        /\ UNCHANGED <<waiting6, waiter6, heard6>>
    BY <1>3 DEF Destroy6
  <2>2. DescriptorsGivenBack6'
    BY <1>3, <2>1 DEF Destroy6, Close6, DescriptorsGivenBack6
  <2>3. QED
    BY <2>1, <2>2
<1>4. CASE DestroyEnds6
  BY <1>4 DEF DestroyEnds6, socketvars6, DescriptorsGivenBack6
<1>5. CASE WaitForIncomingData6
  BY <1>5 DEF WaitForIncomingData6, Waits6, socketvars6, DescriptorsGivenBack6
<1>6. CASE SelectReturns6
  <2>1. created6 => "pipe" \in open6
    BY DEF DescriptorsGivenBack6, Descriptors6
  <2>2. UNCHANGED <<created6, open6, misclosed6, waiting6, bytes6, destroying6>>
        /\ waiter6 = "select" /\ waiter6' = "back" /\ heard6' \in BOOLEAN
        /\ (heard6' => bytes6 > 0 \/ "pipe" \notin open6)
    BY <1>6 DEF SelectReturns6, Waits6, socketvars6
  <2>3. QED
    BY <2>1, <2>2 DEF DescriptorsGivenBack6
<1>7. CASE FinishWait6
  <2>1. UNCHANGED <<created6, open6, misclosed6, heard6, destroying6>>
        /\ waiter6 = "back" /\ waiting6' = FALSE
    BY <1>7 DEF FinishWait6, Waits6, socketvars6
  <2>2. waiter6' = "out" /\ bytes6' \in Nat
    BY <1>7 DEF FinishWait6
  <2>3. QED
    BY <2>1, <2>2 DEF DescriptorsGivenBack6
<1>8. CASE AbortWait6
  <2>1. /\ UNCHANGED <<created6, open6, misclosed6, waiting6, waiter6, heard6,
                       destroying6>>
        /\ bytes6' = bytes6 + 1
    BY <1>8 DEF AbortWait6, Waits6, socketvars6
  <2>2. bytes6' \in Nat /\ bytes6' > 0 /\ DescriptorsGivenBack6'
    BY <2>1 DEF DescriptorsGivenBack6
  <2>3. QED
    BY <2>1, <2>2
<1>9. CASE UNCHANGED wait6
  BY <1>9 DEF wait6, DescriptorsGivenBack6
<1>10. QED
  BY <1>1, <1>2, <1>3, <1>4, <1>5, <1>6, <1>7, <1>8, <1>9, Wait6Frame
     DEF UDPv6Next

-----------------------------------------------------------------------------
(* The sockets of the UDP transmitter.                                     *)

Owned ==
  CASE stage \in {"none", "auto", "base"} -> {}
    [] stage = "second" -> {rtpsock}
    [] stage \in {"options", "created"} -> {rtpsock, rtcpsock}

SocketsTyped ==
  /\ stage \in Stages /\ params \in Params
  /\ open \subseteq Descriptor /\ given \subseteq open /\ toClose \subseteq open \ given
  /\ bound \in [Descriptor -> UDPPort \cup {0}]
  /\ member \in [Descriptor -> SUBSET Group]
  /\ ~misclosed

(* Every open descriptor is the application's, in use, or put aside.       *)
SocketsAccounted ==
  /\ open = given \cup toClose \cup Owned
  /\ Owned \cap toClose = {}
  /\ stage \in {"none", "base", "created"} => toClose = {}
  /\ stage \in {"auto", "second", "base"} => ~params.existing
  /\ params.existing => Owned \subseteq given /\ toClose = {}
  /\ ~params.existing => Owned \cap given = {}

PortsKnown ==
  /\ stage \in {"auto", "second"} => params.base = 0
  /\ stage = "second" =>
       bound[rtpsock] = rtpport /\ rtpport \in UDPPort /\ ~params.mux
  /\ stage = "base" =>
       params.base \in UDPPort /\ (params.odd \/ params.base % 2 = 0)
  /\ stage \in {"options", "created"} =>
       /\ bound[rtpsock] = rtpport /\ bound[rtcpsock] = rtcpport
       /\ ~params.existing /\ ~params.odd => rtpport % 2 = 0
       /\ ~params.existing /\ ~params.mux /\ params.base = 0 =>
            rtpport % 2 = 0 /\ rtcpport = rtpport + 1

GroupsKnown ==
  /\ ~created => multicastgroups = {}
  /\ \A s \in Descriptor \ given :
       member[s] = IF created /\ s \in {rtpsock, rtcpsock} THEN multicastgroups ELSE {}
  /\ created => \A s \in {rtpsock, rtcpsock} : multicastgroups \subseteq member[s]
  /\ multicastgroups \subseteq Group

SocketInv == SocketsTyped /\ SocketsAccounted /\ PortsKnown /\ GroupsKnown

LEMMA SocketInitInv == UDPInit => SocketInv
<1> SUFFICES ASSUME UDPInit PROVE SocketInv
  OBVIOUS
<1>1. /\ stage = "none" /\ given = {1, 2} /\ open = given /\ toClose = {}
      /\ multicastgroups = {} /\ misclosed = FALSE
      /\ params = [existing |-> FALSE, mux |-> FALSE, odd |-> FALSE,
                   base |-> 0, forced |-> 0]
      /\ member = [s \in Descriptor |-> {}]
  BY DEF UDPInit
<1>2. bound \in [Descriptor -> UDPPort \cup {0}]
  <2>1. \A s \in given : MaxPort - 2 + s \in UDPPort
    BY <1>1, UDPAssumption DEF UDPPort
  <2>2. bound = [s \in Descriptor |-> IF s \in given THEN MaxPort - 2 + s ELSE 0]
    BY DEF UDPInit
  <2>3. QED
    BY <2>1, <2>2
<1>3. SocketsTyped
  BY <1>1, <1>2, UDPAssumption DEF SocketsTyped, Stages, Params
<1>4. SocketsAccounted
  BY <1>1 DEF SocketsAccounted, Owned
<1>5. PortsKnown
  BY <1>1 DEF PortsKnown
<1>6. GroupsKnown
  BY <1>1 DEF GroupsKnown, created
<1>7. QED
  BY <1>3, <1>4, <1>5, <1>6 DEF SocketInv

LEMMA LowestOf ==
  ASSUME UDPAssumption, NEW S, S \subseteq Descriptor, S # {}
  PROVE  Lowest(S) \in S
<1>1. \E s \in S : \A u \in S : s <= u
  BY LeastNat, UDPAssumption
<1>2. QED
  BY <1>1 DEF Lowest

LEMMA Unopened ==
  ASSUME UDPAssumption, SocketsTyped, open # Descriptor
  PROVE  Unused \in Descriptor /\ Unused \notin open
<1>1. Descriptor \ open # {} /\ Descriptor \ open \subseteq Descriptor
  BY DEF SocketsTyped
<1>2. Lowest(Descriptor \ open) \in Descriptor \ open
  BY <1>1, LowestOf
<1>3. QED
  BY <1>2 DEF Unused

LEMMA CloseOwn ==
  ASSUME SocketsTyped, NEW S, S \subseteq open \ given, Close(S)
  PROVE  /\ open' = open \ S /\ given' = given /\ ~misclosed'
         /\ given' \subseteq open' /\ open' \subseteq Descriptor
         /\ bound' \in [Descriptor -> UDPPort \cup {0}]
         /\ member' \in [Descriptor -> SUBSET Group]
         /\ \A s \in Descriptor \ S : bound'[s] = bound[s] /\ member'[s] = member[s]
         /\ \A s \in S : member'[s] = {}
BY DEF Close, SocketsTyped

(* Create gives up: what it had of its own is closed.                      *)
LEMMA FailKeeps ==
  ASSUME SocketInv, ~created, Fail, NEW S, Close(S), S \subseteq open \ given,
         open \ S = given
  PROVE  SocketInv'
<1>1. /\ open' = given /\ given' = given /\ ~misclosed'
      /\ open' \subseteq Descriptor
      /\ bound' \in [Descriptor -> UDPPort \cup {0}]
      /\ member' \in [Descriptor -> SUBSET Group]
      /\ \A s \in Descriptor \ given : member'[s] = {}
  BY CloseOwn DEF SocketInv, SocketsTyped, GroupsKnown
<1>2. /\ stage' = "none" /\ toClose' = {} /\ UNCHANGED <<params, multicastgroups>>
  BY DEF Fail
<1>3. SocketsTyped'
  BY <1>1, <1>2 DEF SocketInv, SocketsTyped, Stages
<1>4. SocketsAccounted'
  BY <1>1, <1>2 DEF SocketsAccounted, Owned
<1>5. PortsKnown'
  BY <1>2 DEF PortsKnown
<1>6. GroupsKnown'
  BY <1>1, <1>2 DEF SocketInv, GroupsKnown, created
<1>7. QED
  BY <1>3, <1>4, <1>5, <1>6 DEF SocketInv

LEMMA CreateKeeps == SocketInv /\ Create => SocketInv'
<1> SUFFICES ASSUME SocketInv, Create PROVE SocketInv'
  OBVIOUS
<1>0. /\ stage = "none" /\ open = given /\ toClose = {}
      /\ SocketsTyped /\ SocketsAccounted /\ PortsKnown /\ GroupsKnown
      /\ UNCHANGED <<localIPs, multicastgroups, toClose, descriptors>>
      /\ params' \in Params
  BY DEF Create, SocketInv, SocketsAccounted, Owned
<1>1. CASE params'.existing
  <2>1. PICK r \in given, c \in given :
          /\ rtpsock' = r /\ rtcpsock' = c
          /\ rtpport' = bound[r] /\ rtcpport' = bound[c]
    BY <1>1 DEF Create
  <2>2. stage' = "options"
    BY <1>1 DEF Create
  <2>3. SocketsTyped'
    BY <1>0, <2>2 DEF SocketsTyped, Stages, descriptors
  <2>4. SocketsAccounted'
    BY <1>0, <1>1, <2>1, <2>2 DEF SocketsAccounted, Owned, descriptors
  <2>5. PortsKnown'
    BY <1>0, <1>1, <2>1, <2>2 DEF PortsKnown, descriptors
  <2>6. GroupsKnown'
    BY <1>0, <2>2 DEF GroupsKnown, created, descriptors
  <2>7. QED
    BY <2>3, <2>4, <2>5, <2>6 DEF SocketInv
<1>2. CASE ~params'.existing
  <2>1. /\ stage' \in {"auto", "base", "none"}
        /\ stage' = "auto" => params'.base = 0
        /\ stage' = "base" =>
             params'.base # 0 /\ (params'.odd \/ params'.base % 2 = 0)
    BY <1>2 DEF Create
  <2>2. SocketsTyped'
    BY <1>0, <2>1 DEF SocketsTyped, Stages, descriptors
  <2>3. SocketsAccounted'
    BY <1>0, <1>2, <2>1 DEF SocketsAccounted, Owned, descriptors
  <2>4. PortsKnown'
    BY <1>0, <2>1 DEF PortsKnown, Params
  <2>5. GroupsKnown'
    BY <1>0, <2>1 DEF GroupsKnown, created, descriptors
  <2>6. QED
    BY <2>2, <2>3, <2>4, <2>5 DEF SocketInv
<1>3. QED
  BY <1>1, <1>2

LEMMA AutoFirstKeeps == SocketInv /\ AutoFirst => SocketInv'
<1> SUFFICES ASSUME SocketInv, AutoFirst PROVE SocketInv'
  OBVIOUS
<1>0. /\ stage = "auto" /\ open = given \cup toClose
      /\ SocketsTyped /\ SocketsAccounted /\ PortsKnown /\ GroupsKnown
      /\ UNCHANGED <<params, multicastgroups, member, given, misclosed>>
      /\ params.base = 0 /\ ~params.existing /\ params.mux \in BOOLEAN
  BY DEF AutoFirst, SocketInv, SocketsAccounted, Owned, PortsKnown, SocketsTyped, Params
<1>1. PICK new \in Descriptor \ open : new = Unused
  BY <1>0, Unopened, UDPAssumption DEF AutoFirst
<1>2. PICK p \in UDPPort :
        /\ open' = open \cup {new} /\ bound' = [bound EXCEPT ![new] = p]
        /\ rtpsock' = new /\ rtpport' = p
        /\ IF params.mux /\ (p % 2 = 0 \/ params.odd)
           THEN rtcpsock' = new /\ rtcpport' = p /\ stage' = "options"
           ELSE stage' = IF params.mux THEN "auto" ELSE "second"
        /\ toClose' = IF params.mux /\ stage' = "auto" THEN toClose \cup {new} ELSE toClose
  BY <1>1 DEF AutoFirst
<1>3. /\ stage' \in {"options", "auto", "second"}
      /\ stage' = "options" =>
           params.mux /\ rtcpsock' = new /\ rtcpport' = p /\ (p % 2 = 0 \/ params.odd)
      /\ stage' = "second" => ~params.mux
      /\ stage' = "auto" => toClose' = toClose \cup {new}
      /\ stage' # "auto" => toClose' = toClose
  BY <1>0, <1>2
<1>4. SocketsTyped'
  <2>1. bound' \in [Descriptor -> UDPPort \cup {0}]
    BY <1>0, <1>2 DEF SocketsTyped
  <2>2. QED
    BY <1>0, <1>1, <1>2, <1>3, <2>1 DEF SocketsTyped, Stages
<1>5. SocketsAccounted'
  BY <1>0, <1>1, <1>2, <1>3 DEF SocketsAccounted, SocketsTyped, Owned
<1>6. PortsKnown'
  <2>1. bound'[new] = p
    BY <1>0, <1>2 DEF SocketsTyped
  <2>2. QED
    BY <1>0, <1>2, <1>3, <2>1 DEF PortsKnown
<1>7. GroupsKnown'
  BY <1>0, <1>3 DEF GroupsKnown, created
<1>8. QED
  BY <1>4, <1>5, <1>6, <1>7 DEF SocketInv

LEMMA Pair ==
  ASSUME UDPAssumption, NEW p \in UDPPort, Neighbour(p) \in UDPPort
  PROVE  /\ p < Neighbour(p) => p % 2 = 0 /\ Neighbour(p) = p + 1
         /\ ~(p < Neighbour(p)) => Neighbour(p) % 2 = 0 /\ p = Neighbour(p) + 1
BY DEF Neighbour, UDPPort

LEMMA AutoSecondKeeps == SocketInv /\ AutoSecond => SocketInv'
<1> SUFFICES ASSUME SocketInv, AutoSecond PROVE SocketInv'
  OBVIOUS
<1>0. /\ stage = "second" /\ open = given \cup toClose \cup {rtpsock}
      /\ rtpsock \in open \ given /\ rtpsock \notin toClose
      /\ SocketsTyped /\ SocketsAccounted /\ PortsKnown /\ GroupsKnown
      /\ UNCHANGED <<params, multicastgroups, member, given, misclosed>>
      /\ params.base = 0 /\ ~params.existing /\ ~params.mux
      /\ bound[rtpsock] = rtpport /\ rtpport \in UDPPort
  BY DEF AutoSecond, SocketInv, SocketsAccounted, Owned, PortsKnown
<1>1. PICK new \in Descriptor \ open : new = Unused
  BY <1>0, Unopened, UDPAssumption DEF AutoSecond
<1>2. open' = open \cup {new}
  BY <1>1 DEF AutoSecond
<1>3. CASE stage' = "options"
  <2> DEFINE p == rtpport
             q == Neighbour(rtpport)
  <2>1. /\ q \in UDPPort /\ bound' = [bound EXCEPT ![new] = q] /\ toClose' = toClose
        /\ IF p < q
           THEN rtcpsock' = new /\ rtcpport' = q /\ rtpsock' = rtpsock /\ rtpport' = p
           ELSE rtpsock' = new /\ rtpport' = q /\ rtcpsock' = rtpsock /\ rtcpport' = p
    BY <1>1, <1>3 DEF AutoSecond
  <2>2. p < q => p % 2 = 0 /\ q = p + 1
    BY <1>0, <2>1, Pair, UDPAssumption
  <2>3. ~(p < q) => q % 2 = 0 /\ p = q + 1
    BY <1>0, <2>1, Pair, UDPAssumption
  <2> HIDE DEF q
  <2>4. bound' \in [Descriptor -> UDPPort \cup {0}] /\ bound'[new] = q
        /\ bound'[rtpsock] = p
    BY <1>0, <1>1, <2>1 DEF SocketsTyped
  <2>5. {rtpsock', rtcpsock'} = {rtpsock, new}
    BY <2>1
  <2>6. /\ bound'[rtpsock'] = rtpport' /\ bound'[rtcpsock'] = rtcpport'
        /\ rtpport' % 2 = 0 /\ rtcpport' = rtpport' + 1
    <3>1. CASE p < q
      BY <2>1, <2>2, <2>4, <3>1
    <3>2. CASE ~(p < q)
      BY <2>1, <2>3, <2>4, <3>2
    <3>3. QED
      BY <3>1, <3>2
  <2>7. SocketsTyped'
    BY <1>0, <1>1, <1>2, <1>3, <2>1, <2>4 DEF SocketsTyped, Stages
  <2>8. SocketsAccounted'
    BY <1>0, <1>1, <1>2, <1>3, <2>1, <2>5 DEF SocketsAccounted, SocketsTyped, Owned
  <2>9. PortsKnown'
    BY <1>3, <2>6 DEF PortsKnown
  <2>10. GroupsKnown'
    BY <1>0, <1>3 DEF GroupsKnown, created
  <2>11. QED
    BY <2>7, <2>8, <2>9, <2>10 DEF SocketInv
<1>4. CASE stage' = "auto"
  <2>1. toClose' = toClose \cup {rtpsock, new} /\ UNCHANGED <<sockets, bound>>
    BY <1>1, <1>4 DEF AutoSecond
  <2>2. SocketsTyped'
    BY <1>0, <1>1, <1>2, <1>4, <2>1 DEF SocketsTyped, Stages
  <2>3. SocketsAccounted'
    BY <1>0, <1>1, <1>2, <1>4, <2>1 DEF SocketsAccounted, SocketsTyped, Owned
  <2>4. PortsKnown'
    BY <1>0, <1>4 DEF PortsKnown
  <2>5. GroupsKnown'
    BY <1>0, <1>4 DEF GroupsKnown, created
  <2>6. QED
    BY <2>2, <2>3, <2>4, <2>5 DEF SocketInv
<1>5. QED
  BY <1>3, <1>4 DEF AutoSecond

LEMMA BaseSocketsKeeps == SocketInv /\ BaseSockets => SocketInv'
<1> SUFFICES ASSUME SocketInv, BaseSockets PROVE SocketInv'
  OBVIOUS
<1>0. /\ stage = "base" /\ open = given /\ toClose = {} /\ toClose' = {}
      /\ stage' = "options"
      /\ SocketsTyped /\ SocketsAccounted /\ PortsKnown /\ GroupsKnown
      /\ UNCHANGED <<params, multicastgroups, member, given, misclosed>>
      /\ ~params.existing /\ params.base \in UDPPort
      /\ (params.odd \/ params.base % 2 = 0)
  BY DEF BaseSockets, SocketInv, SocketsAccounted, Owned, PortsKnown
<1>1. PICK r \in Descriptor \ open : r = Unused
  BY <1>0, Unopened, UDPAssumption DEF BaseSockets
<1>2. PICK c : c = IF params.mux THEN r ELSE Lowest(Descriptor \ (open \cup {r}))
  OBVIOUS
<1>3. c \in Descriptor \ open /\ (params.mux => c = r) /\ (~params.mux => c # r)
  <2>1. CASE params.mux
    BY <1>1, <1>2, <2>1
  <2>2. CASE ~params.mux
    <3>1. Descriptor \ (open \cup {r}) # {}
      BY <1>1, <2>2 DEF BaseSockets
    <3>2. c \in Descriptor \ (open \cup {r})
      BY <1>2, <2>2, <3>1, LowestOf, UDPAssumption
    <3>3. QED
      BY <2>2, <3>2
  <2>3. QED
    BY <2>1, <2>2
<1>4. PICK port : port = IF params.mux THEN params.base ELSE RTCPPort
  OBVIOUS
<1>5. /\ open' = open \cup {r, c} /\ rtpsock' = r /\ rtcpsock' = c
      /\ rtpport' = params.base /\ rtcpport' = port
      /\ bound' = [s \in Descriptor |->
                     CASE s = r -> params.base
                       [] s = c /\ s # r -> port
                       [] OTHER -> bound[s]]
  BY <1>1, <1>2, <1>4 DEF BaseSockets
<1>6. port \in UDPPort \cup {0}
  <2>1. params.forced \in UDPPort \cup {0}
    BY <1>0 DEF SocketsTyped, Params
  <2>2. params.base < MaxPort => params.base + 1 \in UDPPort
    BY <1>0, UDPAssumption DEF UDPPort
  <2>3. RTCPPort \in UDPPort \cup {0}
    BY <1>0, <2>1, <2>2 DEF RTCPPort
  <2>4. QED
    BY <1>0, <1>4, <2>3
<1>7. bound' \in [Descriptor -> UDPPort \cup {0}]
      /\ bound'[r] = params.base /\ (c # r => bound'[c] = port)
  BY <1>0, <1>1, <1>3, <1>5, <1>6 DEF SocketsTyped
<1>8. SocketsTyped'
  BY <1>0, <1>1, <1>3, <1>5, <1>7 DEF SocketsTyped, Stages
<1>9. SocketsAccounted'
  BY <1>0, <1>1, <1>3, <1>5 DEF SocketsAccounted, SocketsTyped, Owned
<1>10. PortsKnown'
  <2>1. bound'[c] = port
    BY <1>3, <1>4, <1>7
  <2>2. params.base # 0
    BY <1>0 DEF UDPPort
  <2>3. QED
    BY <1>0, <1>5, <1>7, <2>1, <2>2 DEF PortsKnown
<1>11. GroupsKnown'
  BY <1>0 DEF GroupsKnown, created
<1>12. QED
  BY <1>8, <1>9, <1>10, <1>11 DEF SocketInv

LEMMA GivingUpKeeps == SocketInv /\ (AutoFail \/ BaseFail \/ OptionsFail) => SocketInv'
<1> SUFFICES ASSUME SocketInv, AutoFail \/ BaseFail \/ OptionsFail PROVE SocketInv'
  OBVIOUS
<1>0. /\ open = given \cup toClose \cup Owned /\ given \subseteq open
      /\ toClose \subseteq open \ given
      /\ params.existing => Owned \subseteq given /\ toClose = {}
      /\ ~params.existing => Owned \cap given = {}
  BY DEF SocketInv, SocketsAccounted, SocketsTyped
<1>1. CASE AutoFail
  <2>1. PICK S : S = toClose \cup (IF stage = "second" THEN {rtpsock} ELSE {})
    OBVIOUS
  <2>2. stage \in {"auto", "second"} /\ Fail /\ Close(S)
    BY <1>1, <2>1 DEF AutoFail
  <2>3. ~params.existing /\ S = toClose \cup Owned
    BY <2>1, <2>2 DEF SocketInv, SocketsAccounted, Owned
  <2>4. S \subseteq open \ given /\ open \ S = given
    BY <1>0, <2>3
  <2>5. QED
    BY <2>2, <2>4, FailKeeps DEF created
<1>2. CASE BaseFail
  <2>1. stage = "base" /\ Fail /\ Close({})
    BY <1>2 DEF BaseFail
  <2>2. open \ {} = given
    BY <2>1 DEF SocketInv, SocketsAccounted, Owned
  <2>3. QED
    BY <2>1, <2>2, FailKeeps DEF created
<1>3. CASE OptionsFail
  <2>1. PICK S : S = {} \cup (IF params.existing THEN {} ELSE {rtpsock, rtcpsock})
    OBVIOUS
  <2>2. stage = "options" /\ toClose = {} /\ Fail /\ Close(S)
    BY <1>3, <2>1 DEF OptionsFail, CloseSockets
  <2>3. Owned = {rtpsock, rtcpsock}
    BY <2>2 DEF Owned
  <2>4. S \subseteq open \ given /\ open \ S = given
    BY <1>0, <2>1, <2>2, <2>3
  <2>5. QED
    BY <2>2, <2>4, FailKeeps DEF created
<1>4. QED
  BY <1>1, <1>2, <1>3

LEMMA SetAsideKeeps == SocketInv /\ CloseSetAside => SocketInv'
<1> SUFFICES ASSUME SocketInv, CloseSetAside PROVE SocketInv'
  OBVIOUS
<1>0. /\ stage = "options" /\ toClose # {} /\ toClose' = {} /\ Close(toClose)
      /\ UNCHANGED <<stage, params, sockets, multicastgroups>>
      /\ SocketsTyped /\ SocketsAccounted /\ PortsKnown /\ GroupsKnown
  BY DEF CloseSetAside, SocketInv
<1>1. /\ open' = open \ toClose /\ given' = given /\ ~misclosed'
      /\ given' \subseteq open' /\ open' \subseteq Descriptor
      /\ bound' \in [Descriptor -> UDPPort \cup {0}]
      /\ member' \in [Descriptor -> SUBSET Group]
      /\ \A s \in Descriptor \ toClose : bound'[s] = bound[s] /\ member'[s] = member[s]
      /\ \A s \in toClose : member'[s] = {}
  <2>1. toClose \subseteq open \ given
    BY <1>0 DEF SocketsTyped
  <2>2. QED
    BY <1>0, <2>1, CloseOwn
<1>2. {rtpsock, rtcpsock} \subseteq Descriptor \ toClose
  BY <1>0 DEF SocketsAccounted, SocketsTyped, Owned
<1>3. SocketsTyped'
  BY <1>0, <1>1 DEF SocketsTyped
<1>4. SocketsAccounted'
  BY <1>0, <1>1 DEF SocketsAccounted, SocketsTyped, Owned, sockets
<1>5. PortsKnown'
  BY <1>0, <1>1, <1>2 DEF PortsKnown, sockets
<1>6. GroupsKnown'
  BY <1>0, <1>1 DEF GroupsKnown, created
<1>7. QED
  BY <1>3, <1>4, <1>5, <1>6 DEF SocketInv

LEMMA DestroyKeeps == SocketInv /\ Destroy => SocketInv'
<1> SUFFICES ASSUME SocketInv, Destroy PROVE SocketInv'
  OBVIOUS
<1>0. /\ stage = "created" /\ stage' = "none" /\ multicastgroups' = {}
      /\ UNCHANGED <<params, toClose>>
      /\ SocketsTyped /\ SocketsAccounted /\ PortsKnown /\ GroupsKnown
      /\ toClose = {}
  BY DEF Destroy, SocketInv, SocketsAccounted, created
<1>1. PICK S : S = {} \cup (IF params.existing THEN {} ELSE {rtpsock, rtcpsock})
  OBVIOUS
<1>2. Close(S)
  BY <1>1 DEF Destroy, CloseSockets
<1>3. /\ S \subseteq open \ given /\ open \ S = given
      /\ {rtpsock, rtcpsock} \subseteq S \cup given
  <2>1. Owned = {rtpsock, rtcpsock}
    BY <1>0 DEF Owned
  <2>2. QED
    BY <1>0, <1>1, <2>1 DEF SocketsAccounted, SocketsTyped
<1>4. /\ open' = given /\ given' = given /\ ~misclosed'
      /\ open' \subseteq Descriptor
      /\ bound' \in [Descriptor -> UDPPort \cup {0}]
      /\ member' \in [Descriptor -> SUBSET Group]
      /\ \A s \in Descriptor \ S : member'[s] = member[s]
      /\ \A s \in S : member'[s] = {}
  BY <1>0, <1>2, <1>3, CloseOwn
<1>5. SocketsTyped'
  BY <1>0, <1>4 DEF SocketsTyped, Stages
<1>6. SocketsAccounted'
  BY <1>0, <1>4 DEF SocketsAccounted, Owned
<1>7. PortsKnown'
  BY <1>0 DEF PortsKnown
<1>8. GroupsKnown'
  BY <1>0, <1>3, <1>4 DEF GroupsKnown, created
<1>9. QED
  BY <1>5, <1>6, <1>7, <1>8 DEF SocketInv

(* What concerns only the groups of a created transmitter.                 *)
LEMMA GroupsStep ==
  ASSUME SocketInv, created, GroupsKnown', member' \in [Descriptor -> SUBSET Group],
         MulticastUnchanged
  PROVE  SocketInv'
<1>1. UNCHANGED <<stage, params, sockets, toClose, open, bound, given, misclosed>>
  BY DEF MulticastUnchanged
<1>2. SocketsTyped' /\ SocketsAccounted' /\ PortsKnown'
  BY <1>1 DEF SocketInv, SocketsTyped, SocketsAccounted, PortsKnown, Owned, sockets
<1>3. QED
  BY <1>2 DEF SocketInv

LEMMA MulticastKeeps ==
  ASSUME SocketInv, NEW g \in Group,
         \/ JoinMulticastGroup(g) \/ JoinFails(g) \/ LeaveMulticastGroup(g)
         \/ LeaveAllMulticastGroups
  PROVE  SocketInv'
<1>0. /\ created /\ MulticastUnchanged
      /\ member \in [Descriptor -> SUBSET Group] /\ GroupsKnown
      /\ {rtpsock, rtcpsock} \subseteq Descriptor
  BY DEF SocketInv, SocketsTyped, SocketsAccounted, Owned, created, JoinMulticastGroup,
         JoinFails, LeaveMulticastGroup, LeaveAllMulticastGroups
<1>1. UNCHANGED <<stage, rtpsock, rtcpsock, given>>
  BY <1>0 DEF MulticastUnchanged, sockets
<1>2. CASE JoinMulticastGroup(g)
  <2>1. /\ multicastgroups' = multicastgroups \cup {g}
        /\ member' = [s \in Descriptor |-> IF s \in {rtpsock, rtcpsock}
                                           THEN member[s] \cup {g} ELSE member[s]]
    BY <1>2 DEF JoinMulticastGroup, SetMember
  <2>2. GroupsKnown'
    BY <1>0, <1>1, <2>1 DEF GroupsKnown, created
  <2>3. member' \in [Descriptor -> SUBSET Group]
    BY <1>0, <2>1
  <2>4. QED
    BY <1>0, <2>2, <2>3, GroupsStep
<1>3. CASE JoinFails(g)
  <2>1. UNCHANGED <<multicastgroups, member>>
    BY <1>3 DEF JoinFails
  <2>2. GroupsKnown'
    BY <1>0, <1>1, <2>1 DEF GroupsKnown, created
  <2>3. QED
    BY <1>0, <2>1, <2>2, GroupsStep
<1>4. CASE LeaveMulticastGroup(g)
  <2>1. /\ multicastgroups' = multicastgroups \ {g}
        /\ member' = [s \in Descriptor |-> IF s \in {rtpsock, rtcpsock}
                                           THEN member[s] \ {g} ELSE member[s]]
    BY <1>4 DEF LeaveMulticastGroup, SetMember
  <2>2. GroupsKnown'
    BY <1>0, <1>1, <2>1 DEF GroupsKnown, created
  <2>3. member' \in [Descriptor -> SUBSET Group]
    BY <1>0, <2>1
  <2>4. QED
    BY <1>0, <2>2, <2>3, GroupsStep
<1>5. CASE LeaveAllMulticastGroups
  <2>1. /\ multicastgroups' = {}
        /\ member' = [s \in Descriptor |-> IF s \in {rtpsock, rtcpsock}
                                THEN member[s] \ multicastgroups ELSE member[s]]
    BY <1>5 DEF LeaveAllMulticastGroups
  <2>2. GroupsKnown'
    BY <1>0, <1>1, <2>1 DEF GroupsKnown, created
  <2>3. member' \in [Descriptor -> SUBSET Group]
    BY <1>0, <2>1
  <2>4. QED
    BY <1>0, <2>2, <2>3, GroupsStep
<1>6. QED
  BY <1>2, <1>3, <1>4, <1>5

LEMMA SocketStep == SocketInv /\ [UDPNext]_udpvars => SocketInv'
<1> SUFFICES ASSUME SocketInv, [UDPNext]_udpvars PROVE SocketInv'
  OBVIOUS
<1>1. CASE CreateDone
  <2>1. /\ stage = "options" /\ toClose = {} /\ stage' = "created"
        /\ UNCHANGED <<params, sockets, multicastgroups, toClose, descriptors>>
    BY <1>1 DEF CreateDone
  <2>2. SocketsTyped' /\ SocketsAccounted' /\ PortsKnown'
    BY <2>1 DEF SocketInv, SocketsTyped, SocketsAccounted, PortsKnown, Owned, sockets,
                descriptors, Stages
  <2>3. GroupsKnown'
    BY <2>1 DEF SocketInv, GroupsKnown, created, sockets, descriptors
  <2>4. QED
    BY <2>2, <2>3 DEF SocketInv
<1>2. CASE LeaveAllMulticastGroups
  <2>1. CASE Group = {}
    BY <1>2, <2>1 DEF LeaveAllMulticastGroups, SocketInv, GroupsKnown
  <2>2. QED
    BY <1>2, <2>1, MulticastKeeps
<1>3. CASE UNCHANGED udpvars
  BY <1>3 DEF udpvars, sockets, descriptors, SocketInv, SocketsTyped, SocketsAccounted,
              PortsKnown, GroupsKnown, Owned, created
<1>4. QED
  BY <1>1, <1>2, <1>3, CreateKeeps, AutoFirstKeeps, AutoSecondKeeps, BaseSocketsKeeps,
     GivingUpKeeps, SetAsideKeeps, DestroyKeeps, MulticastKeeps DEF UDPNext

LEMMA SocketsKept == UDPSpec => [](NoSocketLost /\ PortsPaired /\ MembershipsMatch)
<1>1. SocketInv => NoSocketLost
  BY DEF SocketInv, SocketsTyped, SocketsAccounted, Owned, NoSocketLost, created
<1>2. SocketInv => PortsPaired
  BY DEF SocketInv, PortsKnown, PortsPaired, created, ComesFromThisTransmitter
<1>3. ASSUME SocketInv PROVE MembershipsMatch
  <2>1. created => {rtpsock, rtcpsock} \subseteq Descriptor
    BY <1>3 DEF SocketInv, SocketsTyped, SocketsAccounted, Owned, created
  <2>2. QED
    BY <1>3, <2>1 DEF SocketInv, GroupsKnown, MembershipsMatch
<1>4. QED
  BY <1>1, <1>2, <1>3, SocketInitInv, SocketStep, PTL DEF UDPSpec

-----------------------------------------------------------------------------
(* What goes through the sockets of the UDP transmitter: one destination   *)
(* for each address that was asked for, one name, and a loop that counts   *)
(* what was there down.                                                    *)

AddressesDiffer == \A d, e \in destinations : d.addr = e.addr => d = e
AskedAreServed == \A a \in Address : a \in serving <=> \E d \in destinations : d.addr = a
NameKept == told \subseteq {localhostname} \ {"none"}

(* What Poll found is still there, but for what was taken; a socket is     *)
(* left for the next one when nothing of it is.                            *)
PollCounts ==
  /\ polling \in UDPSocket \cup {"no"}
  /\ \A s \in UDPSocket : polling # "no" => unpolled[s] <= Len(arrived[s])
  /\ polling = "rtcp" => unpolled["rtp"] = 0
  /\ PollDrains

TrafficInv ==
  /\ copies \in [Address -> Nat] /\ copies = owed
  /\ arrived \in [UDPSocket -> Seq(Datagram)] /\ unpolled \in [UDPSocket -> Nat]
  /\ AddressesDiffer /\ AskedAreServed /\ NameKept /\ PollCounts

LEMMA TrafficInitInv == TrafficInit => TrafficInv
<1> SUFFICES ASSUME TrafficInit PROVE TrafficInv
  OBVIOUS
<1>1. /\ arrived = [s \in UDPSocket |-> <<>>] /\ unpolled = [s \in UDPSocket |-> 0]
      /\ polling = "no" /\ copies = [a \in Address |-> 0] /\ owed = [a \in Address |-> 0]
      /\ destinations = {} /\ serving = {} /\ told = {}
  BY DEF TrafficInit, NothingArrived
<1>2. PollCounts
  BY <1>1 DEF PollCounts, PollDrains
<1>3. AddressesDiffer /\ AskedAreServed /\ NameKept
  BY <1>1 DEF AddressesDiffer, AskedAreServed, NameKept
<1>4. QED
  BY <1>1, <1>2, <1>3 DEF TrafficInv

LEMMA AtMostOne ==
  ASSUME NEW S, \A x, y \in S : x = y
  PROVE  IsFiniteSet(S) /\ Cardinality(S) \in 0 .. 1
<1>1. CASE S = {}
  BY <1>1, FS_EmptySet
<1>2. CASE S # {}
  <2>1. PICK x : S = {x}
    BY <1>2
  <2>2. IsFiniteSet({x}) /\ Cardinality({x}) = 1
    BY FS_Singleton
  <2>3. QED
    BY <2>1, <2>2
<1>3. QED
  BY <1>1, <1>2

(* The destinations with an address number one, or none if nobody asked.   *)
LEMMA CountServed ==
  ASSUME AddressesDiffer, AskedAreServed, NEW a \in Address
  PROVE  Cardinality({d \in destinations : d.addr = a}) = IF a \in serving THEN 1 ELSE 0
<1>1. CASE a \in serving
  <2>1. PICK d \in destinations : d.addr = a
    BY <1>1 DEF AskedAreServed
  <2>2. {e \in destinations : e.addr = a} = {d}
    BY <2>1 DEF AddressesDiffer
  <2>3. QED
    BY <1>1, <2>2, FS_Singleton
<1>2. CASE a \notin serving
  <2>1. {e \in destinations : e.addr = a} = {}
    BY <1>2 DEF AskedAreServed
  <2>2. QED
    BY <1>2, <2>1, FS_EmptySet
<1>3. QED
  BY <1>1, <1>2

LEMMA SendDataKeeps ==
  ASSUME TrafficInv, NEW n, UDPSendData(n)
  PROVE  TrafficInv'
<1>1. /\ copies' = [x \in Address |->
                     copies[x] + Cardinality({d \in destinations : d.addr = x})]
      /\ owed' = [x \in Address |-> IF x \in serving THEN owed[x] + 1 ELSE owed[x]]
      /\ UNCHANGED <<destinations, serving, namevars, queuevars>>
  BY DEF UDPSendData
<1>2. \A x \in Address : copies[x] \in Nat /\ copies[x] = owed[x]
  BY DEF TrafficInv
<1>3. \A x \in Address : Cardinality({d \in destinations : d.addr = x})
                           = IF x \in serving THEN 1 ELSE 0
  BY CountServed DEF TrafficInv
<1>4. \A x \in Address : copies'[x] = owed'[x] /\ copies'[x] \in Nat
  <2> TAKE x \in Address
  <2>1. PICK c \in 0 .. 1 : c = Cardinality({d \in destinations : d.addr = x})
                             /\ c = IF x \in serving THEN 1 ELSE 0
    BY <1>3
  <2>2. copies'[x] = copies[x] + c
    BY <1>1, <2>1
  <2>3. QED
    BY <1>1, <1>2, <2>1, <2>2
<1>5. copies' = owed' /\ copies' \in [Address -> Nat]
  BY <1>1, <1>4
<1>6. QED
  BY <1>1, <1>5 DEF TrafficInv, namevars, queuevars, pollvars, AddressesDiffer,
     AskedAreServed, NameKept, PollCounts, PollDrains, Unlocked

(* A call that changes the lists leaves the rest alone.                    *)
LEMMA ListCallKeeps ==
  ASSUME TrafficInv, NEW wanted, ListCall(wanted), AddressesDiffer', AskedAreServed'
  PROVE  TrafficInv'
BY DEF ListCall, TrafficInv, namevars, queuevars, pollvars, NameKept, PollCounts,
       PollDrains, Unlocked

LEMMA ListsKeep ==
  ASSUME TrafficInv, NEW a \in Address, NEW mux \in BOOLEAN,
         UDPAddDestination(a, mux) \/ UDPDeleteDestination(a)
  PROVE  TrafficInv'
<1>1. CASE UDPAddDestination(a, mux)
  <2>0. /\ \A d \in destinations : d.addr # a
        /\ destinations' = destinations \cup {[addr |-> a, mux |-> mux]}
        /\ ListCall(serving \cup {a}) /\ serving' = serving \cup {a}
    BY <1>1 DEF UDPAddDestination, ListCall
  <2>1. PICK d : d = [addr |-> a, mux |-> mux]
    OBVIOUS
  <2>2. destinations' = destinations \cup {d} /\ d.addr = a
    BY <2>0, <2>1
  <2>3. AddressesDiffer' /\ AskedAreServed'
    BY <2>0, <2>2 DEF TrafficInv, AddressesDiffer, AskedAreServed
  <2>4. QED
    BY <2>0, <2>3, ListCallKeeps
<1>2. CASE UDPDeleteDestination(a)
  <2>1. /\ destinations' = {d \in destinations : d.addr # a}
        /\ ListCall(serving \ {a}) /\ serving' = serving \ {a}
    BY <1>2 DEF UDPDeleteDestination, ListCall
  <2>2. AddressesDiffer' /\ AskedAreServed'
    BY <2>1 DEF TrafficInv, AddressesDiffer, AskedAreServed
  <2>3. QED
    BY <2>1, <2>2, ListCallKeeps
<1>3. QED
  BY <1>1, <1>2

(* What touches the sockets and the queue alone.                           *)
LEMMA QueueKeeps ==
  ASSUME TrafficInv, UNCHANGED <<listvars, namevars>>, PollCounts',
         arrived' \in [UDPSocket -> Seq(Datagram)], unpolled' \in [UDPSocket -> Nat]
  PROVE  TrafficInv'
BY DEF TrafficInv, listvars, namevars, AddressesDiffer, AskedAreServed, NameKept

LEMMA PollKeeps ==
  ASSUME TrafficInv, Poll \/ \E s \in UDPSocket : PollSocket(s)
  PROVE  TrafficInv'
<1>0. /\ arrived \in [UDPSocket -> Seq(Datagram)] /\ unpolled \in [UDPSocket -> Nat]
      /\ \A s \in UDPSocket : Len(arrived[s]) \in Nat
  BY DEF TrafficInv
<1>1. CASE Poll
  <2>1. /\ polling = "no" /\ polling' = "rtp" /\ UNCHANGED <<arrived, listvars, namevars>>
        /\ unpolled' = [s \in UDPSocket |-> Len(arrived[s])]
    BY <1>1 DEF Poll, Unlocked
  <2>2. PollCounts'
    BY <1>0, <2>1 DEF PollCounts, PollDrains, Unlocked, UDPSocket
  <2>3. QED
    BY <1>0, <2>1, <2>2, QueueKeeps
<1>2. ASSUME NEW s \in UDPSocket, PollTakes(s) PROVE TrafficInv'
  <2>1. /\ polling = s /\ UNCHANGED <<polling, pollstatus, listvars, namevars>>
        /\ arrived' = [arrived EXCEPT ![s] = Tail(@)]
        /\ unpolled' = [unpolled EXCEPT ![s] = IF @ > 0 THEN @ - 1 ELSE 0]
        /\ arrived[s] # <<>>
    BY <1>2 DEF PollTakes, DataAvailable, Length
  <2>2. arrived[s] \in Seq(Datagram) /\ Tail(arrived[s]) \in Seq(Datagram)
        /\ Len(Tail(arrived[s])) = Len(arrived[s]) - 1
    BY <1>0, <2>1
  <2>3. /\ arrived' \in [UDPSocket -> Seq(Datagram)] /\ unpolled' \in [UDPSocket -> Nat]
        /\ arrived'[s] = Tail(arrived[s])
        /\ unpolled'[s] = IF unpolled[s] > 0 THEN unpolled[s] - 1 ELSE 0
        /\ \A t \in UDPSocket \ {s} : arrived'[t] = arrived[t] /\ unpolled'[t] = unpolled[t]
    BY <1>0, <2>1, <2>2
  <2>4. s # "no"
    BY DEF UDPSocket
  <2>5. \A t \in UDPSocket : unpolled'[t] <= Len(arrived'[t])
    BY <1>0, <2>1, <2>2, <2>3, <2>4 DEF TrafficInv, PollCounts
  <2>6. polling' = "rtcp" => unpolled'["rtp"] = 0
    BY <2>1, <2>3, <1>0 DEF TrafficInv, PollCounts, UDPSocket
  <2>7. PollCounts'
    BY <2>1, <2>4, <2>5, <2>6 DEF TrafficInv, PollCounts, PollDrains, Unlocked, UDPSocket
  <2>8. QED
    BY <2>1, <2>3, <2>7, QueueKeeps
<1>3. ASSUME NEW s \in UDPSocket, PollEnds(s) PROVE TrafficInv'
  <2>1. /\ polling = s /\ UNCHANGED <<arrived, unpolled, listvars, namevars>>
        /\ polling' = IF s = "rtp" /\ ~Multiplex THEN "rtcp" ELSE "no"
        /\ arrived[s] = <<>>
    BY <1>3 DEF PollEnds, DataAvailable
  <2>2. s # "no" /\ (s = "rtp" \/ s = "rtcp")
    BY DEF UDPSocket
  <2>3. unpolled[s] = 0
    BY <1>0, <2>1, <2>2 DEF TrafficInv, PollCounts
  <2>4. polling' = "no" => \A t \in UDPSocket : unpolled[t] = 0
    BY <2>1, <2>2, <2>3 DEF TrafficInv, PollCounts, UDPSocket
  <2>5. polling' = "rtcp" => unpolled["rtp"] = 0 /\ "rtcp" \in UDPSocket
    BY <2>1, <2>2, <2>3 DEF UDPSocket
  <2>6. PollCounts'
    BY <2>1, <2>2, <2>4, <2>5 DEF TrafficInv, PollCounts, PollDrains, Unlocked, UDPSocket
  <2>7. QED
    BY <1>0, <2>1, <2>6, QueueKeeps
<1>4. ASSUME NEW s \in UDPSocket, PollFails(s) PROVE TrafficInv'
  <2>1. /\ polling' = "no" /\ pollstatus' = "error"
        /\ UNCHANGED <<arrived, unpolled, listvars, namevars>>
    BY <1>4 DEF PollFails
  <2>2. PollCounts'
    BY <2>1 DEF PollCounts, PollDrains, Unlocked, UDPSocket
  <2>3. QED
    BY <1>0, <2>1, <2>2, QueueKeeps
<1>5. QED
  BY <1>1, <1>2, <1>3, <1>4 DEF PollSocket

LEMMA ArrivalKeeps ==
  ASSUME TrafficInv, NEW s \in UDPSocket, NEW d \in Datagram, DatagramArrives(s, d)
  PROVE  TrafficInv'
<1>1. /\ arrived' = [arrived EXCEPT ![s] = Append(@, d)]
      /\ UNCHANGED <<pollvars, listvars, namevars>>
  BY DEF DatagramArrives
<1>2. /\ arrived \in [UDPSocket -> Seq(Datagram)] /\ unpolled \in [UDPSocket -> Nat]
      /\ arrived[s] \in Seq(Datagram)
  BY DEF TrafficInv
<1>3. arrived' \in [UDPSocket -> Seq(Datagram)]
  BY <1>1, <1>2
<1>4. \A t \in UDPSocket : Len(arrived[t]) <= Len(arrived'[t]) /\ Len(arrived[t]) \in Nat
                             /\ Len(arrived'[t]) \in Nat
  BY <1>1, <1>2
<1>5. PollCounts'
  BY <1>1, <1>2, <1>4 DEF TrafficInv, PollCounts, PollDrains, Unlocked, pollvars
<1>6. QED
  BY <1>1, <1>2, <1>3, <1>5, QueueKeeps DEF pollvars

LEMMA TrafficStep == TrafficInv /\ [TrafficNext]_trafficvars => TrafficInv'
<1> SUFFICES ASSUME TrafficInv, [TrafficNext]_trafficvars PROVE TrafficInv'
  OBVIOUS
<1>1. CASE UDPGetNextPacket \/ UDPFlushPackets \/ UNCHANGED trafficvars
  <2>1. UNCHANGED <<arrived, pollvars, listvars, namevars>>
    BY <1>1 DEF UDPGetNextPacket, UDPFlushPackets, trafficvars, queuevars
  <2>2. QED
    BY <2>1, QueueKeeps DEF TrafficInv, PollCounts, PollDrains, Unlocked, pollvars
<1>2. ASSUME NEW n, UDPSetMaximumPacketSize(n) PROVE TrafficInv'
  BY <1>2 DEF UDPSetMaximumPacketSize, TrafficInv, namevars, queuevars, pollvars,
     AddressesDiffer, AskedAreServed, NameKept, PollCounts, PollDrains, Unlocked
<1>3. CASE GetLocalHostName
  <2>1. UNCHANGED <<listvars, queuevars>>
    BY <1>3 DEF GetLocalHostName
  <2>2. PICK h \in HostName :
          /\ h = localhostname \/ localhostname = "none"
          /\ localhostname' = h /\ told' \in {told, told \cup {h}}
    BY <1>3 DEF GetLocalHostName
  <2>3. NameKept'
    BY <2>2, TrafficAssumption DEF TrafficInv, NameKept
  <2>4. QED
    BY <2>1, <2>3 DEF TrafficInv, listvars, queuevars, pollvars, AddressesDiffer,
       AskedAreServed, PollCounts, PollDrains, Unlocked
<1>4. CASE UDPRestart
  <2>1. /\ polling = "no" /\ destinations' = {} /\ serving' = {} /\ told' = {}
        /\ arrived' = [s \in UDPSocket |-> <<>>] /\ UNCHANGED <<pollvars, copies, owed>>
    BY <1>4 DEF UDPRestart, NothingArrived, Unlocked
  <2>2. arrived' \in [UDPSocket -> Seq(Datagram)]
    BY <2>1
  <2>3. AddressesDiffer' /\ AskedAreServed' /\ NameKept'
    BY <2>1 DEF AddressesDiffer, AskedAreServed, NameKept
  <2>4. PollCounts'
    BY <2>1 DEF TrafficInv, PollCounts, PollDrains, Unlocked, pollvars
  <2>5. QED
    BY <2>1, <2>2, <2>3, <2>4 DEF TrafficInv, pollvars
<1>5. CASE UDPClearDestinations
  <2>1. destinations' = {} /\ ListCall({}) /\ serving' = {}
    BY <1>5 DEF UDPClearDestinations, ListCall
  <2>2. AddressesDiffer' /\ AskedAreServed'
    BY <2>1 DEF AddressesDiffer, AskedAreServed
  <2>3. QED
    BY <2>1, <2>2, ListCallKeeps
<1>6. QED
  BY <1>1, <1>2, <1>3, <1>4, <1>5, ListsKeep, SendDataKeeps, PollKeeps, ArrivalKeeps
     DEF TrafficNext

LEMMA OneNameTold == TrafficInv => OneHostName
<1> SUFFICES ASSUME TrafficInv PROVE OneHostName
  OBVIOUS
<1>1. \A x, y \in told : x = y
  BY DEF TrafficInv, NameKept
<1>2. Cardinality(told) \in 0 .. 1
  BY <1>1, AtMostOne
<1>3. QED
  BY <1>2 DEF OneHostName

(* Each packet went once to each destination that was asked for, in        *)
(* whatever forms its address was added, and to nobody else; and a poll    *)
(* that does not say it failed leaves nothing in the kernel's queues that  *)
(* was there when it began (UDPAddDestination, SendRTPData, PollSocket).   *)
THEOREM TrafficAlwaysExact == TrafficSpec => []TrafficExact
<1>1. TrafficInv => TrafficExact
  BY DEF TrafficInv, TrafficExact, SentOnce, PollCounts
<1>2. QED
  BY <1>1, TrafficInitInv, TrafficStep, PTL DEF TrafficSpec

-----------------------------------------------------------------------------
(* The destinations of the receiver.                                       *)

(* Each destination is that of a source it was added for, which is there   *)
(* and still at this address, or it has become stale.                      *)
Backed ==
  \A a \in dests \ stale :
    \E t \in present \ left : place(t) = a /\ servedat[t] = a

DestInv ==
  /\ present \subseteq Source /\ left \subseteq present /\ NoPlace \notin dests
  /\ rtpaddr \in [Source -> Place \cup {NoPlace}]
  /\ rtcpaddr \in [Source -> Place \cup {NoPlace}]
  /\ servedat = [s \in Source |-> servedat[s]]
  /\ Backed /\ AnnouncedServed

LEMMA DestInitInv == DestInit => DestInv
BY DEF DestInit, DestInv, Backed, AnnouncedServed

LEMMA NewSourceKeeps ==
  ASSUME DestInv, NEW s \in Source, NEW x \in Place \cup {NoPlace},
         NEW y \in Place \cup {NoPlace}, OnNewSource(s, x, y)
  PROVE  DestInv'
<1>1. PICK d : d = DestinationOf(x, y)
  OBVIOUS
<1>2. /\ s \notin present /\ present' = present \cup {s} /\ left' = left /\ stale' = stale
      /\ rtpaddr' = [rtpaddr EXCEPT ![s] = x] /\ rtcpaddr' = [rtcpaddr EXCEPT ![s] = y]
      /\ dests' = dests \cup ({d} \ {NoPlace})
      /\ servedat' = [servedat EXCEPT ![s] = d]
      /\ undercut' = {t \in undercut \ {s} : servedat[t] # d}
  BY <1>1 DEF OnNewSource
<1>3. /\ rtpaddr' \in [Source -> Place \cup {NoPlace}] /\ rtpaddr'[s] = x
      /\ \A t \in Source \ {s} : rtpaddr'[t] = rtpaddr[t]
  BY <1>2 DEF DestInv
<1>4. /\ rtcpaddr' \in [Source -> Place \cup {NoPlace}] /\ rtcpaddr'[s] = y
      /\ \A t \in Source \ {s} : rtcpaddr'[t] = rtcpaddr[t]
  BY <1>2 DEF DestInv
<1>5. /\ servedat' = [t \in Source |-> servedat'[t]] /\ servedat'[s] = d
      /\ \A t \in Source \ {s} : servedat'[t] = servedat[t]
  BY <1>2 DEF DestInv
<1>6. place(s)' = d /\ \A t \in Source \ {s} : place(t)' = place(t)
  BY <1>1, <1>3, <1>4 DEF place
<1>7. Backed'
  BY <1>2, <1>5, <1>6 DEF DestInv, Backed
<1>8. AnnouncedServed'
  BY <1>2, <1>5 DEF DestInv, AnnouncedServed
<1>9. QED
  BY <1>2, <1>3, <1>4, <1>5, <1>7, <1>8 DEF DestInv

LEMMA LeavingKeeps ==
  ASSUME DestInv, NEW s \in Source, OnBYEPacket(s) \/ OnRemoveSource(s)
  PROVE  DestInv'
<1>1. /\ s \in present /\ dests' = dests \ {place(s)} /\ stale' = stale \ {place(s)}
      /\ undercut' = undercut \cup {t \in present : servedat[t] = place(s)}
      /\ present' \subseteq present /\ present \ {s} \subseteq present'
      /\ left' \subseteq present' /\ left' \ {s} = left \ {s}
  BY DEF OnBYEPacket, OnRemoveSource, DeleteDestination, DestInv
<1>2. /\ rtpaddr' \in [Source -> Place \cup {NoPlace}]
      /\ \A t \in Source \ {s} : rtpaddr'[t] = rtpaddr[t]
  BY DEF OnBYEPacket, OnRemoveSource, DestInv
<1>3. /\ rtcpaddr' \in [Source -> Place \cup {NoPlace}]
      /\ \A t \in Source \ {s} : rtcpaddr'[t] = rtcpaddr[t]
  BY DEF OnBYEPacket, OnRemoveSource, DestInv
<1>4. /\ servedat' = [t \in Source |-> servedat'[t]]
      /\ \A t \in Source \ {s} : servedat'[t] = servedat[t]
      /\ servedat'[s] = servedat[s] \/ (s \notin present' /\ servedat'[s] = NoPlace)
  BY DEF OnBYEPacket, OnRemoveSource, DestInv
<1>5. \A t \in Source \ {s} : place(t)' = place(t)
  BY <1>2, <1>3 DEF place
<1>6. Backed'
  <2> SUFFICES ASSUME NEW a \in dests' \ stale'
               PROVE  \E t \in (present \ left)' : place(t)' = a /\ servedat'[t] = a
    BY DEF Backed
  <2>1. a \in dests \ stale /\ a # place(s)
    BY <1>1
  <2>2. PICK t \in present \ left : place(t) = a /\ servedat[t] = a
    BY <2>1 DEF DestInv, Backed
  <2>3. t # s /\ t \in Source /\ t \in present' /\ t \notin left'
    BY <1>1, <2>1, <2>2 DEF DestInv
  <2>4. QED
    BY <1>4, <1>5, <2>2, <2>3
<1>7. AnnouncedServed'
  <2> SUFFICES ASSUME NEW t \in present', servedat'[t] # NoPlace
               PROVE  servedat'[t] \in dests' <=> t \notin undercut'
    BY DEF AnnouncedServed
  <2>1. t \in present /\ t \in Source /\ servedat'[t] = servedat[t]
    BY <1>1, <1>4 DEF DestInv
  <2>2. servedat[t] \in dests <=> t \notin undercut
    BY <2>1 DEF DestInv, AnnouncedServed
  <2>3. QED
    BY <1>1, <2>1, <2>2
<1>8. QED
  BY <1>1, <1>2, <1>3, <1>4, <1>6, <1>7 DEF DestInv

LEMMA HeardRTPKeeps ==
  ASSUME DestInv, NEW s \in Source, NEW x \in Place, HeardRTP(s, x)
  PROVE  DestInv'
<1>1. /\ s \in present /\ rtpaddr[s] = NoPlace /\ rtpaddr' = [rtpaddr EXCEPT ![s] = x]
      /\ stale' = stale \cup ((dests \cap {servedat[s]}) \ {x})
      /\ UNCHANGED <<present, rtcpaddr, left, dests, servedat, undercut>>
  BY DEF HeardRTP
<1>2. /\ rtpaddr' \in [Source -> Place \cup {NoPlace}] /\ rtpaddr'[s] = x
      /\ \A t \in Source \ {s} : rtpaddr'[t] = rtpaddr[t]
  BY <1>1 DEF DestInv
<1>3. place(s)' = x /\ \A t \in Source \ {s} : place(t)' = place(t)
  BY <1>1, <1>2, PlaceAssumption DEF place, DestinationOf
<1>4. Backed'
  <2> SUFFICES ASSUME NEW a \in dests' \ stale'
               PROVE  \E t \in (present \ left)' : place(t)' = a /\ servedat'[t] = a
    BY DEF Backed
  <2>1. a \in dests \ stale /\ (a = servedat[s] => a = x)
    BY <1>1
  <2>2. PICK t \in present \ left : place(t) = a /\ servedat[t] = a
    BY <2>1 DEF DestInv, Backed
  <2>3. place(t)' = a
    BY <1>3, <2>1, <2>2 DEF DestInv
  <2>4. QED
    BY <1>1, <2>2, <2>3
<1>5. AnnouncedServed'
  BY <1>1 DEF DestInv, AnnouncedServed
<1>6. QED
  BY <1>1, <1>2, <1>4, <1>5 DEF DestInv

LEMMA HeardRTCPKeeps ==
  ASSUME DestInv, NEW s \in Source, NEW x \in Place, HeardRTCP(s, x)
  PROVE  DestInv'
<1>1. /\ s \in present /\ rtcpaddr[s] = NoPlace /\ rtcpaddr' = [rtcpaddr EXCEPT ![s] = x]
      /\ UNCHANGED <<present, rtpaddr, left, dests, servedat, undercut, stale>>
  BY DEF HeardRTCP
<1>2. /\ rtcpaddr' \in [Source -> Place \cup {NoPlace}]
      /\ \A t \in Source \ {s} : rtcpaddr'[t] = rtcpaddr[t]
  BY <1>1 DEF DestInv
<1>3. /\ place(s) # NoPlace => place(s)' = place(s)
      /\ \A t \in Source \ {s} : place(t)' = place(t)
  BY <1>1, <1>2 DEF place, DestinationOf
<1>4. Backed'
  <2> SUFFICES ASSUME NEW a \in dests \ stale
               PROVE  \E t \in present \ left : place(t)' = a /\ servedat[t] = a
    BY <1>1 DEF Backed
  <2>1. PICK t \in present \ left : place(t) = a /\ servedat[t] = a
    BY DEF DestInv, Backed
  <2>2. QED
    BY <1>3, <2>1 DEF DestInv
<1>5. AnnouncedServed'
  BY <1>1 DEF DestInv, AnnouncedServed
<1>6. QED
  BY <1>1, <1>2, <1>4, <1>5 DEF DestInv

LEMMA DestStep == DestInv /\ [DestNext]_destvars => DestInv'
<1> SUFFICES ASSUME DestInv, [DestNext]_destvars PROVE DestInv'
  OBVIOUS
<1>1. CASE UNCHANGED destvars
  BY <1>1 DEF destvars, DestInv, Backed, AnnouncedServed, place
<1>2. QED
  BY <1>1, NewSourceKeeps, LeavingKeeps, HeardRTPKeeps, HeardRTCPKeeps DEF DestNext

LEMMA DestSound == DestInv => DestinationsSound
BY DEF DestInv, DestinationsSound, NoneAfterBYE, Backed, SourcesAt

-----------------------------------------------------------------------------
(* The IPv6 transmitter's tables and its queue.                            *)

(* The packets of PollSocket, by what the loop has made of the first n     *)
(* datagrams.                                                              *)
Packets6(s, q, f, n) ==
  IF n = 0 THEN <<>>
  ELSE f[n - 1] \o
         IF ~q[n].empty /\ ShouldAcceptData6(q[n].from)
         THEN <<[from |-> q[n].from, isrtp |-> s = "rtp", in |-> q[n].in]>>
         ELSE <<>>

LEMMA LoopRuns ==
  ASSUME NEW s, NEW q, Len(q) \in Nat
  PROVE  \E f : f = [n \in 0 .. Len(q) |-> Packets6(s, q, f, n)]
<1> DEFINE Runs == {m \in Nat : \E f : f = [n \in 0 .. m |-> Packets6(s, q, f, n)]}
<1>1. 0 \in Runs
  <2>1. PICK f : f = [n \in 0 .. 0 |-> <<>>]
    OBVIOUS
  <2>2. f = [n \in 0 .. 0 |-> Packets6(s, q, f, n)]
    BY <2>1 DEF Packets6
  <2>3. QED
    BY <2>2
<1>2. ASSUME NEW m \in Nat, m \in Runs PROVE m + 1 \in Runs
  <2>1. PICK f : f = [n \in 0 .. m |-> Packets6(s, q, f, n)]
    BY <1>2
  <2>2. PICK g : g = [n \in 0 .. (m + 1) |-> Packets6(s, q, f, n)]
    OBVIOUS
  <2>3. \A n \in 0 .. m : g[n] = f[n]
    BY <2>1, <2>2
  <2>4. \A n \in 0 .. (m + 1) : Packets6(s, q, g, n) = Packets6(s, q, f, n)
    BY <2>3 DEF Packets6
  <2>5. g = [n \in 0 .. (m + 1) |-> Packets6(s, q, g, n)]
    BY <2>2, <2>4
  <2>6. QED
    BY <2>5
<1> HIDE DEF Runs
<1>3. Len(q) \in Runs
  BY <1>1, <1>2, Induction
<1>4. QED
  BY <1>3 DEF Runs

LEMMA PolledLoop ==
  ASSUME NEW s, Len(arrived6[s]) \in Nat, NEW m \in 0 .. Len(arrived6[s])
  PROVE  \E f : /\ f = [n \in 0 .. Len(arrived6[s]) |-> Packets6(s, arrived6[s], f, n)]
                /\ PollSocket6(s, m) = f[m]
<1>1. \E f : f = [n \in 0 .. Len(arrived6[s]) |-> Packets6(s, arrived6[s], f, n)]
  BY LoopRuns
<1>2. QED
  BY <1>1, Zenon DEF PollSocket6, Packets6

-----------------------------------------------------------------------------
FilterProofs6 == INSTANCE ReceiveFilterProofs WITH
  IP <- {s.ip : s \in Sender6}, Port <- {s.port : s \in Sender6},
  receivemode <- receivemode6, acceptignoreinfo <- acceptignoreinfo6, want <- want6,
  without <- without6

FilterInv6 == FilterProofs6!FilterInv

LEMMA FilterAssumption6 == FilterProofs6!FilterAssumption
BY UDPv6Assumption DEF FilterProofs6!FilterAssumption

LEMMA FilterStep6 ==
  ASSUME FilterInv6, FilterProofs6!FilterNext PROVE FilterInv6'
BY FilterAssumption6, FilterProofs6!FilterStep DEF FilterInv6

(* A list that is cleared names nobody, in whatever mode.                  *)
LEMMA ClearKeeps6 ==
  ASSUME FilterInv6, receivemode6' \in Filter6!ReceiveMode \cup {receivemode6},
         acceptignoreinfo6' = <<>>, want6' = {} /\ without6' = {}
  PROVE  FilterInv6'
<1>1. receivemode6' \in FilterProofs6!ReceiveMode
  BY DEF FilterInv6, FilterProofs6!FilterInv, FilterProofs6!FilterTypeOK,
         FilterProofs6!ReceiveMode, Filter6!ReceiveMode
<1>2. DOMAIN acceptignoreinfo6' = {}
  OBVIOUS
<1>3. /\ FilterProofs6!Listed' = {}
      /\ \A ip, port : ~FilterProofs6!InList(ip, port)' /\ ~FilterProofs6!Whole(ip)'
  BY <1>2 DEF FilterProofs6!Listed, FilterProofs6!InList, FilterProofs6!Whole
<1>4. FilterProofs6!FilterTypeOK' /\ FilterProofs6!EntriesMatch'
  BY <1>1, <1>3 DEF FilterProofs6!FilterTypeOK, FilterProofs6!EntriesMatch
<1>5. QED
  BY <1>4 DEF FilterInv6, FilterProofs6!FilterInv

(* The two instances of the filter say the same.                           *)
LEMMA SameFilter6 ==
  /\ FilterProofs6!ListExact => Filter6!ListExact
  /\ \A ip, port :
       /\ Filter6!ProcessAddAcceptIgnoreEntry(ip, port)
            => FilterProofs6!ProcessAddAcceptIgnoreEntry(ip, port)
       /\ Filter6!ProcessDeleteAcceptIgnoreEntry(ip, port)
            => FilterProofs6!ProcessDeleteAcceptIgnoreEntry(ip, port)
<1>1. Filter6!Listed = FilterProofs6!Listed
  BY DEF Filter6!Listed, FilterProofs6!Listed
<1>2. ASSUME NEW ip, NEW port PROVE Filter6!InList(ip, port) = FilterProofs6!InList(ip, port)
  BY <1>1, Zenon DEF Filter6!InList, FilterProofs6!InList
<1>3. ASSUME NEW ip, NEW port
      PROVE  Filter6!AcceptData(ip, port) = FilterProofs6!AcceptData(ip, port)
  BY <1>2, Zenon DEF Filter6!AcceptData, FilterProofs6!AcceptData, Filter6!ShouldAcceptData,
              FilterProofs6!ShouldAcceptData
<1>4. FilterProofs6!ListExact => Filter6!ListExact
  BY <1>3, Zenon DEF Filter6!ListExact, FilterProofs6!ListExact
<1>5. ASSUME NEW ip, NEW port
      PROVE  Filter6!AddressesOf(ip, port) = FilterProofs6!AddressesOf(ip, port)
  BY DEF Filter6!AddressesOf, FilterProofs6!AddressesOf
<1>6. ASSUME NEW ip, NEW entry
      PROVE  Filter6!SetEntry(ip, entry) => FilterProofs6!SetEntry(ip, entry)
  BY <1>1, Zenon DEF Filter6!SetEntry, FilterProofs6!SetEntry
<1>7. ASSUME NEW ip, NEW port
      PROVE  Filter6!EntryAfterAdd(ip, port) = FilterProofs6!EntryAfterAdd(ip, port)
  BY <1>1, Zenon DEF Filter6!EntryAfterAdd, FilterProofs6!EntryAfterAdd
<1>8. ASSUME NEW ip, NEW port
      PROVE  Filter6!EntryAfterDelete(ip, port) = FilterProofs6!EntryAfterDelete(ip, port)
  BY DEF Filter6!EntryAfterDelete, FilterProofs6!EntryAfterDelete
<1>9. ASSUME NEW ip, NEW port, Filter6!ProcessAddAcceptIgnoreEntry(ip, port)
      PROVE  FilterProofs6!ProcessAddAcceptIgnoreEntry(ip, port)
  BY <1>5, <1>6, <1>7, <1>9 DEF Filter6!ProcessAddAcceptIgnoreEntry,
     FilterProofs6!ProcessAddAcceptIgnoreEntry
<1>10. ASSUME NEW ip, NEW port, Filter6!ProcessDeleteAcceptIgnoreEntry(ip, port)
      PROVE  FilterProofs6!ProcessDeleteAcceptIgnoreEntry(ip, port)
  BY <1>1, <1>5, <1>6, <1>8, <1>10, Zenon DEF Filter6!ProcessDeleteAcceptIgnoreEntry,
     FilterProofs6!ProcessDeleteAcceptIgnoreEntry
<1>11. QED
  BY <1>4, <1>9, <1>10

LEMMA ListExact6 == FilterInv6 => Filter6!ListExact
<1>1. FilterInv6 => FilterProofs6!ListExact
  BY FilterAssumption6, FilterProofs6!InvListExact DEF FilterInv6
<1>2. QED
  BY <1>1, SameFilter6

LEMMA EntriesChange6 ==
  ASSUME FilterInv6, NEW s \in Sender6, NEW port \in {0, s.port},
         \/ AddToIgnoreList6(s.ip, port) \/ AddToAcceptList6(s.ip, port)
         \/ DeleteFromIgnoreList6(s.ip, port) \/ DeleteFromAcceptList6(s.ip, port)
  PROVE  FilterInv6' /\ Lists6 /\ UNCHANGED listvars6
<1>1. /\ receivemode6 \in {"IgnoreSome", "AcceptSome"} /\ Lists6 /\ UNCHANGED listvars6
      /\ \/ ProcessAddAcceptIgnoreEntry6(s.ip, port)
         \/ ProcessDeleteAcceptIgnoreEntry6(s.ip, port)
  BY DEF AddToIgnoreList6, AddToAcceptList6, DeleteFromIgnoreList6, DeleteFromAcceptList6,
         Filters6
<1>2. \/ FilterProofs6!ProcessAddAcceptIgnoreEntry(s.ip, port)
      \/ FilterProofs6!ProcessDeleteAcceptIgnoreEntry(s.ip, port)
  BY <1>1, SameFilter6 DEF ProcessAddAcceptIgnoreEntry6, ProcessDeleteAcceptIgnoreEntry6
<1>3. s.ip \in {t.ip : t \in Sender6} /\ port \in {t.port : t \in Sender6} \cup {0}
  OBVIOUS
<1>4. FilterProofs6!FilterNext
  BY <1>1, <1>2, <1>3 DEF FilterProofs6!FilterNext, FilterProofs6!AddToAcceptList,
     FilterProofs6!AddToIgnoreList, FilterProofs6!DeleteFromIgnoreList,
     FilterProofs6!DeleteFromAcceptList
<1>5. QED
  BY <1>1, <1>4, FilterStep6

Packet6 == [from : Sender6, isrtp : BOOLEAN, in : {session6}]
Datagram6 == [from : Sender6, empty : BOOLEAN, in : {session6}]

(* What is queued came in this session.                                    *)
QueuesApart6 ==
  /\ arrived6 \in [Socket6 -> Seq(Datagram6)] /\ rawpacketlist6 \in Seq(Packet6)
  /\ created6 \/ (arrived6 = Nothing6 /\ rawpacketlist6 = <<>>)

ListsApart6 ==
  /\ \A e \in destinations6 \cup groups6 : e.in = session6
  /\ created6 \/ (destinations6 = {} /\ groups6 = {})
  /\ member6 = Socket6 \X {e.addr : e \in groups6}

PortsApart6 ==
  created6 => \A s \in Socket6 : bound6[s] \in {portbase6, portbase6 + 1}

NamesApart6 ==
  /\ \A x, y \in told6 : x = y
  /\ created6 => told6 \subseteq {localhostname6} \ {"none"}

FiltersApart6 == FilterInv6 /\ (created6 \/ acceptignoreinfo6 = <<>>)

ApartInv6 == QueuesApart6 /\ ListsApart6 /\ PortsApart6 /\ NamesApart6 /\ FiltersApart6

LEMMA PolledOfSession6 ==
  ASSUME QueuesApart6, NEW s \in Socket6, NEW m \in 0 .. Len(arrived6[s])
  PROVE  PollSocket6(s, m) \in Seq(Packet6)
<1> DEFINE q == arrived6[s]
<1>1. q \in Seq(Datagram6) /\ Len(q) \in Nat
  BY DEF QueuesApart6
<1>2. PICK f : f = [n \in 0 .. Len(q) |-> Packets6(s, q, f, n)] /\ PollSocket6(s, m) = f[m]
  BY <1>1, PolledLoop
<1>3. \A n \in 1 .. Len(q) : q[n] \in Datagram6
  BY <1>1
<1> HIDE DEF q
<1> DEFINE Made == {n \in Nat : n <= Len(q) => f[n] \in Seq(Packet6)}
<1>4. 0 \in Made
  BY <1>1, <1>2 DEF Packets6
<1>5. ASSUME NEW n \in Nat, n \in Made PROVE n + 1 \in Made
  <2>1. SUFFICES ASSUME n + 1 <= Len(q) PROVE f[n + 1] \in Seq(Packet6)
    OBVIOUS
  <2>2. f[n] \in Seq(Packet6) /\ n + 1 \in 1 .. Len(q) /\ n + 1 \in 0 .. Len(q)
        /\ n + 1 # 0 /\ (n + 1) - 1 = n
    BY <1>1, <1>5, <2>1
  <2>3. [from |-> q[n + 1].from, isrtp |-> s = "rtp", in |-> q[n + 1].in] \in Packet6
    BY <1>3, <2>2 DEF Datagram6, Packet6
  <2>4. f[n + 1] = Packets6(s, q, f, n + 1)
    BY <1>2, <2>2
  <2>5. QED
    BY <2>2, <2>3, <2>4 DEF Packets6
<1>6. m \in Made /\ m <= Len(q)
  <2>1. m \in Nat /\ m <= Len(q)
    BY <1>1 DEF q
  <2> HIDE DEF Made
  <2>2. QED
    BY <1>4, <1>5, <2>1, Induction
<1>7. QED
  BY <1>1, <1>2, <1>6

LEMMA ApartInit6 == UDPv6Init => ApartInv6
<1> SUFFICES ASSUME UDPv6Init PROVE ApartInv6
  OBVIOUS
<1>1. /\ created6 = FALSE /\ arrived6 = Nothing6 /\ rawpacketlist6 = <<>>
      /\ destinations6 = {} /\ groups6 = {} /\ member6 = {} /\ told6 = {}
      /\ receivemode6 = "AcceptAll" /\ acceptignoreinfo6 = <<>>
      /\ want6 = {} /\ without6 = {}
  BY DEF UDPv6Init, Filter6!FilterInit
<1>2. QueuesApart6
  BY <1>1 DEF QueuesApart6, Nothing6
<1>3. ListsApart6
  BY <1>1 DEF ListsApart6
<1>4. FiltersApart6
  <2>1. FilterProofs6!FilterInit
    BY <1>1 DEF FilterProofs6!FilterInit
  <2>2. FilterInv6
    BY <2>1, FilterAssumption6, FilterProofs6!FilterInitInv DEF FilterInv6
  <2>3. QED
    BY <1>1, <2>2 DEF FiltersApart6
<1>5. QED
  BY <1>1, <1>2, <1>3, <1>4 DEF ApartInv6, PortsApart6, NamesApart6

LEMMA ApartStep6 == ApartInv6 /\ [UDPv6Next]_udp6vars => ApartInv6'
<1> SUFFICES ASSUME ApartInv6, [UDPv6Next]_udp6vars PROVE ApartInv6'
  OBVIOUS
<1>0. QueuesApart6 /\ ListsApart6 /\ PortsApart6 /\ NamesApart6 /\ FiltersApart6
  BY DEF ApartInv6
(* What a step leaves alone stays as it was.                               *)
<1>1. /\ UNCHANGED <<created6, session6, arrived6, rawpacketlist6>> => QueuesApart6'
      /\ UNCHANGED <<created6, session6, destinations6, groups6, member6>> => ListsApart6'
      /\ UNCHANGED <<created6, bound6, portbase6>> => PortsApart6'
      /\ UNCHANGED <<created6, localhostname6, told6>> => NamesApart6'
      /\ UNCHANGED <<created6, receivemode6, acceptignoreinfo6, want6, without6>> => FiltersApart6'
  <2>1. UNCHANGED <<created6, session6, arrived6, rawpacketlist6>> => QueuesApart6'
    <3>1. session6' = session6 => Packet6' = Packet6 /\ Datagram6' = Datagram6
      BY DEF Packet6, Datagram6
    <3>2. Nothing6' = Nothing6
      BY DEF Nothing6
    <3>3. QED
      BY <1>0, <3>1, <3>2 DEF QueuesApart6
  <2>2. UNCHANGED <<created6, session6, destinations6, groups6, member6>> => ListsApart6'
    BY <1>0 DEF ListsApart6
  <2>3. UNCHANGED <<created6, bound6, portbase6>> => PortsApart6'
    BY <1>0 DEF PortsApart6
  <2>4. UNCHANGED <<created6, localhostname6, told6>> => NamesApart6'
    BY <1>0 DEF NamesApart6
  <2>5. UNCHANGED <<created6, receivemode6, acceptignoreinfo6, want6, without6>> => FiltersApart6'
    <3>1. UNCHANGED <<receivemode6, acceptignoreinfo6, want6, without6>> => FilterInv6'
      BY <1>0, FilterAssumption6, FilterProofs6!FilterStep
         DEF FiltersApart6, FilterInv6, FilterProofs6!filtervars
    <3>2. QED
      BY <1>0, <3>1 DEF FiltersApart6
  <2>6. QED
    BY <2>1, <2>2, <2>3, <2>4, <2>5
<1>2. ASSUME UNCHANGED <<socketvars6, namevars6, listvars6, queuevars6, filtervars6>>
      PROVE  ApartInv6'
  BY <1>1, <1>2 DEF socketvars6, namevars6, listvars6, queuevars6, filtervars6, ApartInv6
<1>3. CASE GiveUp6
  BY <1>1, <1>3 DEF GiveUp6, namevars6, listvars6, queuevars6, filtervars6, ApartInv6
<1>4. CASE Create6
  <2>1. /\ ~created6 /\ created6' = TRUE
        /\ \E base \in Portbase6, chosen \in Bindable6 :
             /\ portbase6' = base /\ bound6' = Bound6(base, chosen)
             /\ {bound6'[s] : s \in Socket6} \subseteq Bindable6
        /\ told6' = {} /\ receivemode6' = "AcceptAll" /\ want6' = {} /\ without6' = {}
        /\ UNCHANGED <<listvars6, queuevars6, acceptignoreinfo6>>
    BY <1>4 DEF Create6
  <2>2. QueuesApart6'
    BY <1>0, <2>1 DEF QueuesApart6, queuevars6, Nothing6, Packet6, Datagram6
  <2>3. ListsApart6'
    BY <1>0, <2>1 DEF ListsApart6, listvars6
  <2>4. PortsApart6'
    <3>1. PICK base \in Portbase6, chosen \in Bindable6 :
            /\ portbase6' = base /\ bound6' = Bound6(base, chosen)
            /\ {bound6'[s] : s \in Socket6} \subseteq Bindable6
      BY <2>1
    <3>2. /\ bound6'["rtp"] = (IF base = 0 THEN chosen ELSE base)
          /\ bound6'["rtcp"] = base + 1
      BY <3>1 DEF Bound6
    <3>3. base + 1 \in Bindable6
      BY <3>1, <3>2 DEF Socket6
    <3>4. base # 0
      BY <3>3, UDPv6Assumption
    <3>5. QED
      BY <3>1, <3>2, <3>4 DEF PortsApart6, Socket6
  <2>5. NamesApart6'
    BY <2>1 DEF NamesApart6
  <2>6. FiltersApart6'
    <3>1. acceptignoreinfo6' = <<>>
      BY <1>0, <2>1 DEF FiltersApart6
    <3>2. receivemode6' \in Filter6!ReceiveMode
      BY <2>1 DEF Filter6!ReceiveMode
    <3>3. FilterInv6'
      BY <1>0, <2>1, <3>1, <3>2, ClearKeeps6 DEF FiltersApart6
    <3>4. QED
      BY <2>1, <3>3 DEF FiltersApart6
  <2>7. QED
    BY <2>2, <2>3, <2>4, <2>5, <2>6 DEF ApartInv6
<1>5. CASE Destroy6
  <2>1. /\ created6 /\ created6' = FALSE /\ member6' = {} /\ arrived6' = Nothing6
        /\ destinations6' = {} /\ groups6' = {} /\ rawpacketlist6' = <<>>
        /\ acceptignoreinfo6' = <<>> /\ want6' = {} /\ without6' = {}
        /\ UNCHANGED <<told6, receivemode6>>
    BY <1>5 DEF Destroy6, Close6, Filter6!ClearAcceptIgnoreInfo
  <2>2. QueuesApart6'
    BY <2>1 DEF QueuesApart6, Nothing6
  <2>3. ListsApart6'
    BY <2>1 DEF ListsApart6
  <2>4. PortsApart6' /\ NamesApart6'
    BY <1>0, <2>1 DEF PortsApart6, NamesApart6
  <2>5. FiltersApart6'
    BY <1>0, <2>1, ClearKeeps6 DEF FiltersApart6
  <2>6. QED
    BY <2>2, <2>3, <2>4, <2>5 DEF ApartInv6
<1>6. CASE DestroyEnds6
  BY <1>2, <1>6 DEF DestroyEnds6
<1>7. CASE WaitForIncomingData6 \/ SelectReturns6 \/ FinishWait6 \/ AbortWait6
  BY <1>2, <1>7 DEF WaitForIncomingData6, SelectReturns6, FinishWait6, AbortWait6, Waits6
(* The lists.                                                              *)
<1>8. ASSUME Lists6, ListsApart6', UNCHANGED filtervars6 PROVE ApartInv6'
  BY <1>1, <1>8 DEF Lists6, socketvars6, namevars6, queuevars6, filtervars6, ApartInv6
<1>9. ASSUME NEW addr, AddDestination6(addr) \/ DeleteDestination6(addr) PROVE ApartInv6'
  <2>1. ListsApart6'
    BY <1>0, <1>9 DEF AddDestination6, DeleteDestination6, ListsApart6, Entry6, Lists6,
       socketvars6
  <2>2. QED
    BY <1>8, <1>9, <2>1 DEF AddDestination6, DeleteDestination6
<1>10. CASE ClearDestinations6
  <2>1. ListsApart6'
    BY <1>0, <1>10 DEF ClearDestinations6, ListsApart6, Lists6, socketvars6
  <2>2. QED
    BY <1>8, <1>10, <2>1 DEF ClearDestinations6
<1>11. ASSUME NEW g, JoinMulticastGroup6(g) PROVE ApartInv6'
  <2>1. ListsApart6'
    <3>1. created6 /\ UNCHANGED <<created6, session6, destinations6>>
      BY <1>11 DEF JoinMulticastGroup6, Lists6, socketvars6
    <3>2. CASE groups6' = groups6 \cup {Entry6(g)} /\ member6' = member6 \cup (Socket6 \X {g})
      <4>1. {e.addr : e \in groups6'} = {e.addr : e \in groups6} \cup {g}
        <5>1. Entry6(g).addr = g
          BY DEF Entry6
        <5>2. PICK x : x = Entry6(g)
          OBVIOUS
        <5>3. groups6' = groups6 \cup {x} /\ x.addr = g
          BY <3>2, <5>1, <5>2
        <5>4. QED
          BY <5>3
      <4>2. member6 = Socket6 \X {e.addr : e \in groups6}
        BY <1>0, <3>1 DEF ListsApart6
      <4>5. \A A : Socket6 \X (A \cup {g}) = (Socket6 \X A) \cup (Socket6 \X {g})
        OBVIOUS
      <4>6. member6' = Socket6 \X {e.addr : e \in groups6'}
        BY <3>2, <4>1, <4>2, <4>5
      <4>3. \A e \in groups6' : e.in = session6
        BY <1>0, <3>2 DEF ListsApart6, Entry6
      <4>4. QED
        BY <1>0, <3>1, <4>6, <4>3 DEF ListsApart6
    <3>3. CASE groups6' = groups6 /\ member6' = member6 \ {<<"rtp", g>>}
      <4>1. <<"rtp", g>> \notin member6
        BY <1>0, <1>11 DEF ListsApart6, JoinMulticastGroup6
      <4>2. QED
        BY <1>0, <3>1, <3>3, <4>1 DEF ListsApart6
    <3>4. QED
      BY <1>11, <3>2, <3>3 DEF JoinMulticastGroup6
  <2>2. QED
    BY <1>8, <1>11, <2>1 DEF JoinMulticastGroup6
<1>12. ASSUME NEW g, LeaveMulticastGroup6(g) PROVE ApartInv6'
  <2>1. ListsApart6'
    BY <1>0, <1>12 DEF LeaveMulticastGroup6, ListsApart6, Lists6, socketvars6
  <2>2. QED
    BY <1>8, <1>12, <2>1 DEF LeaveMulticastGroup6
<1>13. CASE LeaveAllMulticastGroups6
  <2>1. ListsApart6'
    BY <1>0, <1>13 DEF LeaveAllMulticastGroups6, ListsApart6, Lists6, socketvars6
  <2>2. QED
    BY <1>8, <1>13, <2>1 DEF LeaveAllMulticastGroups6
(* The filter.                                                             *)
<1>14. ASSUME Lists6, FilterInv6', UNCHANGED listvars6 PROVE ApartInv6'
  <2>1. UNCHANGED <<socketvars6, namevars6, queuevars6>> /\ created6
    BY <1>14 DEF Lists6
  <2>2. FiltersApart6'
    BY <1>14, <2>1 DEF FiltersApart6, socketvars6
  <2>3. QED
    BY <1>1, <1>14, <2>1, <2>2 DEF socketvars6, namevars6, listvars6, queuevars6, ApartInv6
<1>15. ASSUME NEW m \in Filter6!ReceiveMode, SetReceiveMode6(m) PROVE ApartInv6'
  BY <1>0, <1>14, <1>15, ClearKeeps6
     DEF SetReceiveMode6, FiltersApart6, Filter6!SetReceiveMode, Filter6!ClearAcceptIgnoreInfo
<1>16. CASE ClearIgnoreList6 \/ ClearAcceptList6
  BY <1>0, <1>14, <1>16, ClearKeeps6
     DEF ClearIgnoreList6, ClearAcceptList6, ClearAcceptIgnoreInfo6, FiltersApart6,
         Filters6, Filter6!ClearAcceptIgnoreInfo, Filter6!ReceiveMode
<1>17. ASSUME NEW s \in Sender6, NEW port \in {0, s.port},
              \/ AddToIgnoreList6(s.ip, port) \/ AddToAcceptList6(s.ip, port)
              \/ DeleteFromIgnoreList6(s.ip, port) \/ DeleteFromAcceptList6(s.ip, port)
       PROVE  ApartInv6'
  BY <1>0, <1>14, <1>17, EntriesChange6 DEF FiltersApart6
(* The queue.                                                              *)
<1>18. ASSUME Queue6, QueuesApart6' PROVE ApartInv6'
  BY <1>1, <1>18 DEF Queue6, socketvars6, namevars6, listvars6, filtervars6, ApartInv6
<1>19. ASSUME NEW s \in Socket6, DatagramArrives6(s) PROVE ApartInv6'
  <2>1. PICK from \in Sender6, empty \in BOOLEAN :
          arrived6' = [arrived6 EXCEPT ![s] =
                        Append(@, [from |-> from, empty |-> empty, in |-> session6])]
    BY <1>19 DEF DatagramArrives6
  <2>2. UNCHANGED <<rawpacketlist6, session6, created6>> /\ created6 /\ Queue6
    BY <1>19 DEF DatagramArrives6, Queue6, socketvars6
  <2>3. [from |-> from, empty |-> empty, in |-> session6] \in Datagram6
    BY DEF Datagram6
  <2>4. arrived6' \in [Socket6 -> Seq(Datagram6)]
    <3>1. arrived6 \in [Socket6 -> Seq(Datagram6)]
      BY <1>0 DEF QueuesApart6
    <3>2. Append(arrived6[s], [from |-> from, empty |-> empty, in |-> session6])
            \in Seq(Datagram6)
      BY <2>3, <3>1
    <3>3. QED
      BY <2>1, <3>1, <3>2
  <2>5. QueuesApart6'
    BY <1>0, <2>2, <2>4 DEF QueuesApart6, Packet6, Datagram6
  <2>6. QED
    BY <1>18, <2>2, <2>5
<1>20. CASE Poll6
  <2>1. /\ created6 /\ Queue6 /\ UNCHANGED <<session6, created6>>
        /\ \E n \in 0 .. Len(arrived6["rtp"]), m \in 0 .. Len(arrived6["rtcp"]) :
             /\ rawpacketlist6' = PollSocket6("rtp", n) \o PollSocket6("rtcp", m)
             /\ arrived6' = [s \in Socket6 |-> LeftAfter6(s, IF s = "rtp" THEN n ELSE m)]
    BY <1>20 DEF Poll6, Queue6, socketvars6
  <2>2. PICK n \in 0 .. Len(arrived6["rtp"]), m \in 0 .. Len(arrived6["rtcp"]) :
             /\ rawpacketlist6' = PollSocket6("rtp", n) \o PollSocket6("rtcp", m)
             /\ arrived6' = [s \in Socket6 |-> LeftAfter6(s, IF s = "rtp" THEN n ELSE m)]
    BY <2>1
  <2>3. rawpacketlist6' \in Seq(Packet6)
    <3>1. PollSocket6("rtp", n) \in Seq(Packet6) /\ PollSocket6("rtcp", m) \in Seq(Packet6)
      BY <1>0, PolledOfSession6 DEF Socket6
    <3>2. QED
      BY <2>2, <3>1
  <2>6. arrived6' \in [Socket6 -> Seq(Datagram6)]
    <3>1. ASSUME NEW s \in Socket6, NEW k \in Nat
          PROVE  LeftAfter6(s, k) \in Seq(Datagram6)
      <4>1. arrived6[s] \in Seq(Datagram6) /\ Len(arrived6[s]) \in Nat
        BY <1>0 DEF QueuesApart6
      <4>2. QED
        BY <4>1 DEF LeftAfter6
    <3>2. n \in Nat /\ m \in Nat
      BY <1>0 DEF QueuesApart6, Socket6
    <3>3. \A s \in Socket6 : LeftAfter6(s, IF s = "rtp" THEN n ELSE m) \in Seq(Datagram6)
      BY <3>1, <3>2
    <3>4. QED
      BY <2>2, <3>3
  <2>4. QueuesApart6'
    BY <2>1, <2>3, <2>6 DEF QueuesApart6, Packet6, Datagram6
  <2>5. QED
    BY <1>18, <2>1, <2>4
<1>21. CASE GetNextPacket6
  <2>1. /\ created6 /\ rawpacketlist6 # <<>> /\ rawpacketlist6' = Tail(rawpacketlist6)
        /\ UNCHANGED <<arrived6, session6, created6>> /\ Queue6
    BY <1>21 DEF GetNextPacket6, Queue6, socketvars6
  <2>2. rawpacketlist6' \in Seq(Packet6)
    BY <1>0, <2>1 DEF QueuesApart6
  <2>3. QueuesApart6'
    BY <1>0, <2>1, <2>2 DEF QueuesApart6, Packet6, Datagram6
  <2>4. QED
    BY <1>18, <2>1, <2>3
<1>22. CASE GetLocalHostName6
  <2>1. /\ created6 /\ localhostname6' \in HostName6
        /\ localhostname6 \in {"none", localhostname6'}
        /\ told6' \in {told6, told6 \cup {localhostname6'}}
        /\ UNCHANGED <<socketvars6, listvars6, queuevars6, filtervars6>>
    BY <1>22 DEF GetLocalHostName6
  <2>2. NamesApart6'
    BY <1>0, <2>1, UDPv6Assumption DEF NamesApart6
  <2>3. QED
    BY <1>1, <2>1, <2>2 DEF socketvars6, listvars6, queuevars6, filtervars6, ApartInv6
<1>23. CASE UNCHANGED udp6vars
  BY <1>2, <1>23 DEF udp6vars
<1>24. QED
  BY <1>3, <1>4, <1>5, <1>6, <1>7, <1>9, <1>10, <1>11, <1>12, <1>13, <1>15, <1>16,
     <1>17, <1>19, <1>20, <1>21, <1>22, <1>23 DEF UDPv6Next

LEMMA Apart6 == ApartInv6 => SessionsApart6
<1> SUFFICES ASSUME ApartInv6 PROVE SessionsApart6
  OBVIOUS
<1>1. \A i \in DOMAIN rawpacketlist6 : rawpacketlist6[i].in = session6
  <2>1. rawpacketlist6 \in Seq(Packet6)
    BY DEF ApartInv6, QueuesApart6
  <2> TAKE i \in DOMAIN rawpacketlist6
  <2>2. rawpacketlist6[i] \in Packet6
    BY <2>1
  <2>3. QED
    BY <2>2 DEF Packet6
<1>2. created6 => Filter6!ListExact
  BY ListExact6 DEF ApartInv6, FiltersApart6
<1>3. Cardinality(told6) <= 1
  <2>1. Cardinality(told6) \in 0 .. 1
    BY AtMostOne DEF ApartInv6, NamesApart6
  <2>2. QED
    BY <2>1
<1>4. created6 => \A ip \in localIPs6, s \in Socket6 :
        ComesFromThisTransmitter6(ip, bound6[s])
  BY DEF ApartInv6, PortsApart6, ComesFromThisTransmitter6
<1>5. created6 \/ (destinations6 = {} /\ groups6 = {} /\ rawpacketlist6 = <<>>)
  BY DEF ApartInv6, QueuesApart6, ListsApart6
<1>6. QED
  BY <1>1, <1>2, <1>3, <1>4, <1>5 DEF ApartInv6, ListsApart6, SessionsApart6

-----------------------------------------------------------------------------
(* The camera helper.                                                      *)

CamParts == {"sender", "receiver"}
CloserPlaces ==
  [at : InFiniHandle \cup {"idle", "check", "call", "forget", "reset", "over"},
   part : CamParts \cup {"none"}]
Starting == {"start", "sender", "receiver", "assign"}
Handed == worker \notin Starting /\ ~failed
Inside(c) == closer[c].at \in InFiniHandle \cup {"forget", "reset"}
Freed == native.is = "freed"

CameraTyped ==
  /\ isRunning \in BOOLEAN /\ rtpHandle \in BOOLEAN /\ mRtpHandle \in BOOLEAN
  /\ native \in [is : {"none", "live", "freed"}, parts : SUBSET CamParts]
  /\ running \in SUBSET CamParts /\ deleted \in SUBSET CamParts
  /\ early \in SUBSET Closer
  /\ failed \in BOOLEAN /\ undone \in BOOLEAN
  /\ overlapped \in BOOLEAN /\ clashed \in BOOLEAN
  /\ worker \in Starting \cup {"loop", "take", "check", "call", "read", "send", "sending", "over"}
  /\ closer \in [Closer -> CloserPlaces]

(* The handle, the fields of the helper, and where the threads are: who    *)
(* passed the checks came after the worker had made all.                   *)
HandleInStep ==
  /\ (worker = "start") <=> (native.is = "none")
  /\ worker = "start" => native.parts = {}
  /\ worker \in {"sender", "receiver", "assign"} => rtpHandle
  /\ mRtpHandle => Handed
  /\ \A c \in Closer : closer[c].at = "call" \/ Inside(c) => Handed
  /\ failed => worker = "over"
  /\ Handed /\ (~mRtpHandle \/ ~rtpHandle) => Freed
  /\ Freed => Handed
  /\ \A c \in Closer : closer[c].at \in {"forget", "reset"} => Freed

(* Sessions stop part by part; what is missing, some closer took.          *)
SessionsInStep ==
  /\ running \subseteq native.parts /\ (Freed => running = {})
  /\ deleted \cap running = {}
  /\ ~Handed => running = native.parts /\ deleted = {} 
  /\ \A c \in Closer :
       /\ Inside(c) /\ closer[c].part = "receiver" => "sender" \notin running
       /\ closer[c].at = "free" => running = {}
       /\ closer[c].at \in {"delete", "zero"} => closer[c].part \notin running
       /\ closer[c].at = "over" /\ c \notin early => failed \/ Freed
       /\ c \in early => closer[c].at = "over"
  /\ running # native.parts \/ deleted # {} \/ Freed =>
       \E c \in Closer : Inside(c) \/ (closer[c].at = "over" /\ c \notin early)
  /\ mRtpHandle /\ (deleted # {} \/ Freed) => \E c \in Closer : Inside(c)

(* Without an overlap, a closer in the native call has all to itself.      *)
CloserAlone ==
  \/ overlapped
  \/ /\ ~clashed
     /\ \A c \in Closer : closer[c].at \in InFiniHandle =>
          /\ mRtpHandle /\ native.is = "live"
          /\ \A d \in Closer \ {c} : ~Inside(d)
          /\ closer[c].at \in {"read", "destroy", "delete"} => closer[c].part \notin deleted
          /\ closer[c].part = "sender" => "receiver" \notin deleted

(* A worker that used what was freed finds that the helper has stopped.    *)
SomeoneCloses == \E c \in Closer : closer[c].at # "idle"
StraysInStep ==
  /\ strays # {} => SomeoneCloses
  /\ ~SomeoneCloses /\ worker \notin {"start", "sender"} /\ ~failed => "sender" \in running
  /\ worker # "start" /\ SomeoneCloses /\ ~undone => ~isRunning
  /\ undone \/ ( /\ \A m, n \in strays : m = n
                 /\ worker \in Starting \cup {"take", "check", "call", "read"} => strays = {}
                 /\ worker \in {"send", "sending"} => strays \subseteq {rtpData})

HandleInv == CameraTyped /\ HandleInStep /\ SessionsInStep /\ CloserAlone /\ StraysInStep

LEMMA HandleInit == CameraInit => HandleInv
<1> SUFFICES ASSUME CameraInit PROVE HandleInv
  OBVIOUS
<1>1. /\ isRunning = FALSE /\ rtpHandle = FALSE /\ mRtpHandle = FALSE
      /\ native = [is |-> "none", parts |-> {}] /\ deleted = {} /\ running = {}
      /\ worker = "start" /\ early = {} /\ failed = FALSE /\ undone = FALSE
      /\ overlapped = FALSE /\ clashed = FALSE /\ strays = {}
  BY DEF CameraInit
<1>2. closer = [c \in Closer |-> [at |-> "idle", part |-> "none"]]
  BY DEF CameraInit, Just, On
<1>3. CameraTyped
  BY <1>1, <1>2 DEF CameraTyped, Starting, InFiniHandle, CloserPlaces
<1>4. HandleInStep
  BY <1>1, <1>2 DEF HandleInStep, Starting, Inside, InFiniHandle, Freed, Handed
<1>5. SessionsInStep
  BY <1>1, <1>2 DEF SessionsInStep, Starting, Inside, InFiniHandle, Freed, Handed
<1>6. CloserAlone
  BY <1>1, <1>2 DEF CloserAlone, InFiniHandle
<1>7. StraysInStep
  BY <1>1, <1>2 DEF StraysInStep, Starting, SomeoneCloses
<1>8. QED
  BY <1>3, <1>4, <1>5, <1>6, <1>7 DEF HandleInv

(* A step of the worker or of the poll thread moves no closer.             *)
LEMMA WorkerStep ==
  ASSUME HandleInv,
         StartWorker \/ initParam \/ init \/ Assign \/ Loop \/ take \/ CheckHandle
           \/ sendByte \/ ReadSender \/ SendBegun \/ SendDone
  PROVE  HandleInv'
<1> USE DEF HandleInv, Starting, Inside, Freed, Handed, SomeoneCloses,
            closeside, helper, objects, camerahistory, queueside
<1>1. CASE StartWorker
  <2>1. CameraTyped'
    BY <1>1 DEF StartWorker, CamParts, CameraTyped, InFiniHandle
  <2>2. HandleInStep'
    BY <1>1 DEF StartWorker, CamParts, HandleInStep, CameraTyped
  <2>3. SessionsInStep'
    <3>1. /\ worker = "start" /\ ~failed /\ native.parts \in SUBSET CamParts
          /\ native.is = "none" /\ running = native.parts /\ deleted = {}
          /\ running' = running /\ native'.parts = {} /\ native'.is = "live"
          /\ UNCHANGED <<deleted, closer, early, failed, mRtpHandle>>
          /\ worker' \in Starting
      BY <1>1 DEF StartWorker, SessionsInStep, CameraTyped, HandleInStep
    <3>2. running = {}
      BY <3>1 DEF HandleInStep
    <3>3. QED
      BY <3>1, <3>2 DEF SessionsInStep
  <2>4. CloserAlone'
    BY <1>1 DEF StartWorker, CamParts, CloserAlone, CameraTyped, HandleInStep
  <2>5. StraysInStep'
    <3>1. strays = {} \/ SomeoneCloses
      BY DEF StraysInStep
    <3>2. /\ worker = "start" /\ worker' = "sender" /\ UNCHANGED <<strays, rtpData, closer>>
          /\ undone' = (\E c \in Closer : closer[c] # Just("idle"))
      BY <1>1 DEF StartWorker
    <3>3. SomeoneCloses => undone'
      BY <3>2 DEF Just, On
    <3>4. QED
      BY <3>1, <3>2, <3>3 DEF StraysInStep
  <2>6. QED
    BY <2>1, <2>2, <2>3, <2>4, <2>5
<1>2. CASE initParam
  <2>1. CameraTyped'
    BY <1>2 DEF initParam, Make, CamParts, CameraTyped, InFiniHandle
  <2>2. HandleInStep'
    <3>0. /\ worker = "sender" /\ ~failed /\ rtpHandle /\ ~mRtpHandle
          /\ UNCHANGED <<mRtpHandle, closer>>
      BY <1>2 DEF initParam, HandleInStep
    <3>5. \/ worker' = "receiver" /\ UNCHANGED <<failed, rtpHandle>>
          \/ worker' = "over" /\ failed' = TRUE
      BY <1>2 DEF initParam, Make
    <3>6. native'.is = native.is
      BY <1>2 DEF initParam, Make, CameraTyped
    <3>1. /\ (failed' \/ worker' = "receiver") /\ (failed' => worker' = "over")
          /\ (worker' = "receiver" => rtpHandle' /\ ~failed') /\ worker = "sender"
          /\ native'.is = native.is /\ ~mRtpHandle /\ UNCHANGED <<mRtpHandle, closer>>
      <4>1. CASE worker' = "receiver" /\ UNCHANGED <<failed, rtpHandle>>
        BY <3>0, <3>6, <4>1
      <4>2. CASE worker' = "over" /\ failed' = TRUE
        BY <3>0, <3>6, <4>2
      <4>3. QED
        BY <3>5, <4>1, <4>2
    <3>2. \A c \in Closer : closer[c].at # "call" /\ ~Inside(c)
      BY <3>1 DEF HandleInStep
    <3>3. ~Freed /\ native.is # "none"
      BY <3>1 DEF HandleInStep
    <3>4. QED
      BY <3>1, <3>2, <3>3 DEF HandleInStep, InFiniHandle
  <2>3. SessionsInStep'
    <3>1. /\ running = native.parts /\ deleted = {} /\ native.is = "live"
          /\ ~failed /\ worker \in Starting
      BY <1>2 DEF initParam, HandleInStep, SessionsInStep, CameraTyped
    <3>2. /\ running' = native'.parts /\ native'.is = native.is
          /\ UNCHANGED <<deleted, closer, early, mRtpHandle>>
          /\ (worker' \in Starting /\ ~failed') \/ failed'
      BY <1>2, <3>1 DEF initParam, Make, CameraTyped
    <3>3. \A c \in Closer : closer[c].at = "over" => c \in early
      BY <3>1 DEF SessionsInStep, HandleInStep
    <3>4. \A c \in Closer : ~Inside(c)
      BY <3>1 DEF HandleInStep
    <3>5. QED
      BY <3>1, <3>2, <3>3, <3>4 DEF SessionsInStep, InFiniHandle
  <2>4. CloserAlone'
    BY <1>2 DEF initParam, Make, CamParts, CloserAlone, CameraTyped, HandleInStep
  <2>5. StraysInStep'
    BY <1>2 DEF initParam, Make, CamParts, StraysInStep, CameraTyped, HandleInStep, SessionsInStep
  <2>6. QED
    BY <2>1, <2>2, <2>3, <2>4, <2>5
<1>3. CASE init
  <2>1. CameraTyped'
    BY <1>3 DEF init, Make, CamParts, CameraTyped, InFiniHandle, CloserPlaces
  <2>2. HandleInStep'
    <3>0. /\ worker = "receiver" /\ ~failed /\ rtpHandle /\ ~mRtpHandle
          /\ UNCHANGED <<mRtpHandle, closer>>
      BY <1>3 DEF init, HandleInStep
    <3>5. \/ worker' = "assign" /\ UNCHANGED <<failed, rtpHandle>>
          \/ worker' = "over" /\ failed' = TRUE
      BY <1>3 DEF init, Make
    <3>6. native'.is = native.is
      BY <1>3 DEF init, Make, CameraTyped
    <3>1. /\ (failed' \/ worker' = "assign") /\ (failed' => worker' = "over")
          /\ (worker' = "assign" => rtpHandle' /\ ~failed') /\ worker = "receiver"
          /\ native'.is = native.is /\ ~mRtpHandle /\ UNCHANGED <<mRtpHandle, closer>>
      <4>1. CASE worker' = "assign" /\ UNCHANGED <<failed, rtpHandle>>
        BY <3>0, <3>6, <4>1
      <4>2. CASE worker' = "over" /\ failed' = TRUE
        BY <3>0, <3>6, <4>2
      <4>3. QED
        BY <3>5, <4>1, <4>2
    <3>2. \A c \in Closer : closer[c].at # "call" /\ ~Inside(c)
      BY <3>1 DEF HandleInStep
    <3>3. ~Freed /\ native.is # "none"
      BY <3>1 DEF HandleInStep
    <3>4. QED
      BY <3>1, <3>2, <3>3 DEF HandleInStep, InFiniHandle
  <2>3. SessionsInStep'
    <3>1. /\ running = native.parts /\ deleted = {} /\ native.is = "live"
          /\ ~failed /\ worker \in Starting
      BY <1>3 DEF init, HandleInStep, SessionsInStep, CameraTyped
    <3>2. /\ running' = native'.parts /\ native'.is = native.is
          /\ UNCHANGED <<deleted, closer, early, mRtpHandle>>
          /\ (worker' \in Starting /\ ~failed') \/ failed'
      BY <1>3, <3>1 DEF init, Make, CameraTyped
    <3>3. \A c \in Closer : closer[c].at = "over" => c \in early
      BY <3>1 DEF SessionsInStep, HandleInStep
    <3>4. \A c \in Closer : ~Inside(c)
      BY <3>1 DEF HandleInStep
    <3>5. QED
      BY <3>1, <3>2, <3>3, <3>4 DEF SessionsInStep, InFiniHandle
  <2>4. CloserAlone'
    BY <1>3 DEF init, Make, CamParts, CloserAlone, CameraTyped, HandleInStep
  <2>5. StraysInStep'
    BY <1>3 DEF init, Make, CamParts, StraysInStep, CameraTyped, HandleInStep, SessionsInStep
  <2>6. QED
    BY <2>1, <2>2, <2>3, <2>4, <2>5
<1>4. CASE Assign
  <2>1. CameraTyped'
    BY <1>4 DEF Assign, CameraTyped, InFiniHandle
  <2>2. HandleInStep'
    <3>1. /\ worker = "assign" /\ worker' = "loop" /\ mRtpHandle'
          /\ rtpHandle
          /\ UNCHANGED <<native, closer, failed, rtpHandle>>
      BY <1>4 DEF Assign, HandleInStep
    <3>2. QED
      BY <3>1 DEF HandleInStep, CameraTyped
  <2>3. SessionsInStep'
    BY <1>4 DEF Assign, SessionsInStep, CameraTyped, HandleInStep
  <2>4. CloserAlone'
    BY <1>4 DEF Assign, CloserAlone, CameraTyped, HandleInStep
  <2>5. StraysInStep'
    BY <1>4 DEF Assign, StraysInStep, CameraTyped, HandleInStep, SessionsInStep
  <2>6. QED
    BY <2>1, <2>2, <2>3, <2>4, <2>5
<1>5. CASE Loop \/ take
  BY <1>5 DEF Loop, take, CameraTyped, HandleInStep, SessionsInStep, CloserAlone, StraysInStep
<1>6. CASE CheckHandle \/ sendByte
  BY <1>6 DEF CheckHandle, sendByte, GoOn, CameraTyped, HandleInStep, SessionsInStep, CloserAlone, StraysInStep
<1>7. CASE ReadSender
  BY <1>7 DEF ReadSender, GoOn, Astray, CameraTyped, HandleInStep, SessionsInStep, CloserAlone, StraysInStep
<1>8. CASE SendBegun
  BY <1>8 DEF SendBegun, GoOn, Astray, CameraTyped, HandleInStep, SessionsInStep, CloserAlone, StraysInStep
<1>9. CASE SendDone
  BY <1>9 DEF SendDone, Astray, CameraTyped, HandleInStep, SessionsInStep, CloserAlone, StraysInStep
<1>10. QED
  BY <1>1, <1>2, <1>3, <1>4, <1>5, <1>6, <1>7, <1>8, <1>9

LEMMA ClosersMoved ==
  ASSUME CameraTyped, NEW c \in Closer, NEW x, Goes(c, x)
  PROVE  closer'[c] = x /\ \A d \in Closer : d # c => closer'[d] = closer[d]
BY DEF CameraTyped, Goes

LEMMA CloserTyped ==
  ASSUME HandleInv, NEW c \in Closer, EndHelper(c)
  PROVE  CameraTyped'
<1>1. PICK x : Goes(c, x) /\ x \in CloserPlaces
  BY DEF CloserPlaces, EndHelper, fini, CheckFini, finiHandle, ReadPart, BYEDestroy, DeletePart, ZeroPart,
         FreeHandle, ForgetHandle, ResetHandle, On, Just, PartAfter, CamParts, InFiniHandle
<1>2. closer' \in [Closer -> CloserPlaces]
  BY <1>1 DEF Goes, HandleInv, CameraTyped
<1>3. native' \in [is : {"none", "live", "freed"}, parts : SUBSET CamParts]
  BY DEF EndHelper, fini, CheckFini, finiHandle, ReadPart, BYEDestroy, DeletePart, ZeroPart,
         FreeHandle, ForgetHandle, ResetHandle, CamParts, HandleInv, CameraTyped, objects
<1>4. deleted' \in SUBSET CamParts /\ running' \in SUBSET CamParts /\ early' \in SUBSET Closer
  BY DEF EndHelper, fini, CheckFini, finiHandle, ReadPart, BYEDestroy, DeletePart, ZeroPart,
         FreeHandle, ForgetHandle, ResetHandle, CamParts, HandleInv, CameraTyped, objects
<1>5. /\ isRunning' \in BOOLEAN /\ rtpHandle' \in BOOLEAN /\ mRtpHandle' \in BOOLEAN
      /\ failed' \in BOOLEAN /\ undone' \in BOOLEAN
  BY DEF EndHelper, fini, CheckFini, finiHandle, ReadPart, BYEDestroy, DeletePart, ZeroPart,
         FreeHandle, ForgetHandle, ResetHandle, HandleInv, CameraTyped, helper, camerahistory
<1>6. overlapped' \in BOOLEAN /\ clashed' \in BOOLEAN
  BY DEF EndHelper, fini, CheckFini, finiHandle, ReadPart, BYEDestroy, DeletePart, ZeroPart,
         FreeHandle, ForgetHandle, ResetHandle, HandleInv, CameraTyped
<1>7. worker' = worker
  BY DEF EndHelper, fini, CheckFini, finiHandle, ReadPart, BYEDestroy, DeletePart, ZeroPart,
         FreeHandle, ForgetHandle, ResetHandle, sendside
<1>8. QED
  BY <1>2, <1>3, <1>4, <1>5, <1>6, <1>7 DEF HandleInv, CameraTyped

LEMMA CloserStray ==
  ASSUME HandleInv, NEW c \in Closer, EndHelper(c)
  PROVE  StraysInStep'
<1>1. PICK x : Goes(c, x) /\ x.at # "idle"
  BY DEF EndHelper, fini, CheckFini, finiHandle, ReadPart, BYEDestroy, DeletePart, ZeroPart,
         FreeHandle, ForgetHandle, ResetHandle, On, Just, PartAfter
<1>2. SomeoneCloses'
  BY <1>1, ClosersMoved DEF SomeoneCloses, HandleInv
<1>3. UNCHANGED <<worker, rtpData, strays, undone>>
  BY DEF EndHelper, fini, CheckFini, finiHandle, ReadPart, BYEDestroy, DeletePart, ZeroPart,
         FreeHandle, ForgetHandle, ResetHandle, sendside, camerahistory
<1>4. ~isRunning' \/ (closer[c].at # "idle" /\ UNCHANGED isRunning)
  BY DEF EndHelper, fini, CheckFini, finiHandle, ReadPart, BYEDestroy, DeletePart, ZeroPart,
         FreeHandle, ForgetHandle, ResetHandle, helper, On, Just
<1>5. QED
  BY <1>2, <1>3, <1>4 DEF HandleInv, StraysInStep, SomeoneCloses

LEMMA CloserHandle ==
  ASSUME HandleInv, NEW c \in Closer, EndHelper(c)
  PROVE  HandleInStep'
<1> USE DEF HandleInv, Starting, Inside, Freed, Handed, helper, objects, camerahistory, sendside
<1>1. CASE fini(c)
  <2>1. closer'[c].at = "check" /\ \A d \in Closer : d # c => closer'[d] = closer[d]
    BY <1>1, ClosersMoved DEF fini, Just, On
  <2>2. QED
    BY <1>1, <2>1 DEF fini, HandleInStep, InFiniHandle
<1>2. CASE CheckFini(c)
  <2>1. /\ closer'[c].at \in {"call", "over"} /\ (closer'[c].at = "call" => mRtpHandle)
        /\ \A d \in Closer : d # c => closer'[d] = closer[d]
    BY <1>2, ClosersMoved DEF CheckFini, Just, On
  <2>2. QED
    BY <1>2, <2>1 DEF CheckFini, HandleInStep, InFiniHandle
<1>3. CASE finiHandle(c)
  <2>1. /\ closer[c].at = "call" /\ closer'[c].at \in {"read", "forget"}
        /\ (closer'[c].at = "forget" => ~mRtpHandle)
        /\ \A d \in Closer : d # c => closer'[d] = closer[d]
    BY <1>3, ClosersMoved DEF finiHandle, Just, On
  <2>2. QED
    BY <1>3, <2>1 DEF finiHandle, HandleInStep, InFiniHandle
<1>4. ASSUME NEW p \in {"sender", "receiver"},
             ReadPart(c, p) \/ BYEDestroy(c, p) \/ DeletePart(c, p) \/ ZeroPart(c, p)
      PROVE  HandleInStep'
  <2>1. /\ closer[c].at \in InFiniHandle /\ closer'[c].at \in InFiniHandle
        /\ \A d \in Closer : d # c => closer'[d] = closer[d]
    BY <1>4, ClosersMoved DEF ReadPart, BYEDestroy, DeletePart, ZeroPart, Just, On, PartAfter,
       InFiniHandle
  <2>2. UNCHANGED <<worker, failed, mRtpHandle, rtpHandle>> /\ native'.is = native.is
    BY <1>4 DEF ReadPart, BYEDestroy, DeletePart, ZeroPart, CameraTyped
  <2>3. QED
    BY <2>1, <2>2 DEF HandleInStep, InFiniHandle
<1>5. CASE FreeHandle(c)
  <2>1. /\ closer[c].at = "free" /\ closer'[c].at = "forget"
        /\ \A d \in Closer : d # c => closer'[d] = closer[d]
    BY <1>5, ClosersMoved DEF FreeHandle, Just, On
  <2>2. UNCHANGED <<worker, failed, mRtpHandle, rtpHandle>> /\ native'.is = "freed"
    BY <1>5 DEF FreeHandle, CameraTyped
  <2>3. QED
    BY <2>1, <2>2 DEF HandleInStep, InFiniHandle
<1>6. CASE ForgetHandle(c)
  <2>1. /\ closer[c].at = "forget" /\ closer'[c].at = "reset"
        /\ \A d \in Closer : d # c => closer'[d] = closer[d]
    BY <1>6, ClosersMoved DEF ForgetHandle, Just, On
  <2>2. QED
    BY <1>6, <2>1 DEF ForgetHandle, HandleInStep, InFiniHandle
<1>7. CASE ResetHandle(c)
  <2>1. /\ closer[c].at = "reset" /\ closer'[c].at = "over"
        /\ \A d \in Closer : d # c => closer'[d] = closer[d]
    BY <1>7, ClosersMoved DEF ResetHandle, Just, On
  <2>2. QED
    BY <1>7, <2>1 DEF ResetHandle, HandleInStep, InFiniHandle
<1>8. QED
  BY <1>1, <1>2, <1>3, <1>4, <1>5, <1>6, <1>7 DEF EndHelper

LEMMA CloserSessions ==
  ASSUME HandleInv, NEW c \in Closer, EndHelper(c)
  PROVE  SessionsInStep'
<1> USE DEF HandleInv, Starting, Inside, Freed, Handed, helper, objects, camerahistory, sendside
<1>1. CASE fini(c)
  <2>1. closer[c].at = "idle" /\ closer'[c].at = "check"
        /\ \A d \in Closer : d # c => closer'[d] = closer[d]
    BY <1>1, ClosersMoved DEF fini, Just, On
  <2>2. QED
    BY <1>1, <2>1 DEF fini, SessionsInStep, InFiniHandle
<1>2. CASE CheckFini(c)
  <2>1. /\ closer[c].at = "check" /\ closer'[c].at \in {"call", "over"}
        /\ closer'[c].at = "call" <=> (rtpHandle /\ mRtpHandle)
        /\ \A d \in Closer : d # c => closer'[d] = closer[d]
    BY <1>2, ClosersMoved DEF CheckFini, Just, On
  <2>2. closer'[c].at = "over" /\ c \notin early' => failed \/ Freed
    BY <1>2, <2>1 DEF CheckFini, HandleInStep
  <2>3. c \in early' => closer'[c].at = "over"
    BY <1>2, <2>1 DEF CheckFini, HandleInStep, SessionsInStep
  <2>4. \A d \in Closer : d # c => (d \in early' <=> d \in early)
    BY <1>2 DEF CheckFini
  <2>5. QED
    BY <1>2, <2>1, <2>2, <2>3, <2>4 DEF CheckFini, SessionsInStep, InFiniHandle
<1>3. CASE finiHandle(c)
  <2>1. /\ closer[c].at = "call" /\ closer'[c].at \in {"read", "forget"}
        /\ closer'[c].part # "receiver"
        /\ \A d \in Closer : d # c => closer'[d] = closer[d]
    BY <1>3, ClosersMoved DEF finiHandle, Just, On
  <2>2. QED
    BY <1>3, <2>1 DEF finiHandle, SessionsInStep, InFiniHandle
<1>4. ASSUME NEW p \in {"sender", "receiver"},
             ReadPart(c, p) \/ BYEDestroy(c, p) \/ DeletePart(c, p) \/ ZeroPart(c, p)
      PROVE  SessionsInStep'
  <2>1. /\ closer[c].at \in InFiniHandle /\ closer'[c].at \in InFiniHandle /\ closer[c].part = p
        /\ \A d \in Closer : d # c => closer'[d] = closer[d]
    BY <1>4, ClosersMoved DEF ReadPart, BYEDestroy, DeletePart, ZeroPart, Just, On, PartAfter,
       InFiniHandle
  <2>2. /\ UNCHANGED <<worker, failed, mRtpHandle, early>> /\ native'.is = native.is
        /\ running' \subseteq running
    BY <1>4 DEF ReadPart, BYEDestroy, DeletePart, ZeroPart, CameraTyped
  <2>3. Handed /\ native.is \in {"live", "freed"} /\ c \notin early
    BY <2>1 DEF HandleInStep, SessionsInStep, CameraTyped, InFiniHandle
  <2>4. running' \subseteq native'.parts
    <3>1. CASE ZeroPart(c, p)
      BY <3>1 DEF ZeroPart, SessionsInStep, CameraTyped, On
    <3>2. CASE ReadPart(c, p) \/ BYEDestroy(c, p) \/ DeletePart(c, p)
      BY <3>2 DEF ReadPart, BYEDestroy, DeletePart, SessionsInStep
    <3>3. QED
      BY <1>4, <3>1, <3>2
  <2>5. deleted' \cap running' = {}
    <3>1. CASE DeletePart(c, p)
      BY <3>1 DEF DeletePart, SessionsInStep, CameraTyped, On
    <3>2. CASE ReadPart(c, p) \/ BYEDestroy(c, p) \/ ZeroPart(c, p)
      BY <3>2 DEF ReadPart, BYEDestroy, ZeroPart, SessionsInStep
    <3>3. QED
      BY <1>4, <3>1, <3>2
  <2>6. closer'[c].at \in {"delete", "zero"} => closer'[c].part \notin running'
    BY <1>4, ClosersMoved DEF ReadPart, BYEDestroy, DeletePart, ZeroPart, PartAfter, On, Just,
       SessionsInStep
  <2>7. /\ closer'[c].part = "receiver" => "sender" \notin running'
        /\ closer'[c].at = "free" => running' = {}
    <3>1. p = "receiver" => "sender" \notin running'
      BY <2>1, <2>2 DEF SessionsInStep
    <3>2. closer'[c] = PartAfter(p) => p \notin running'
      <4>1. CASE ReadPart(c, p)
        BY <4>1, <2>3, ClosersMoved DEF ReadPart, Reads, PartAfter, On, Just, SessionsInStep
      <4>2. CASE ZeroPart(c, p)
        BY <4>2 DEF ZeroPart, SessionsInStep, On
      <4>3. CASE BYEDestroy(c, p) \/ DeletePart(c, p)
        BY <4>3, ClosersMoved DEF BYEDestroy, DeletePart, On, Just, PartAfter
      <4>4. QED
        BY <1>4, <4>1, <4>2, <4>3
    <3>3. closer'[c] = PartAfter(p) \/ (closer'[c].part = p /\ closer'[c].at # "free")
      BY <1>4, ClosersMoved DEF ReadPart, BYEDestroy, DeletePart, ZeroPart, On, Just
    <3>4. QED
      BY <3>1, <3>2, <3>3, <2>2 DEF PartAfter, On, Just, CameraTyped, CamParts
  <2>8. QED
    BY <2>1, <2>2, <2>3, <2>4, <2>5, <2>6, <2>7 DEF SessionsInStep, InFiniHandle
<1>5. CASE FreeHandle(c)
  <2>1. /\ closer[c].at = "free" /\ closer'[c].at = "forget" /\ closer'[c].part = "none"
        /\ \A d \in Closer : d # c => closer'[d] = closer[d]
    BY <1>5, ClosersMoved DEF FreeHandle, Just, On
  <2>2. UNCHANGED <<worker, failed, mRtpHandle, early, deleted, running>> /\ running = {}
        /\ native'.is = "freed" /\ Handed /\ c \notin early
    BY <1>5, <2>1 DEF FreeHandle, CameraTyped, SessionsInStep, HandleInStep, InFiniHandle
  <2>3. QED
    BY <2>1, <2>2 DEF SessionsInStep, InFiniHandle
<1>6. CASE ForgetHandle(c)
  <2>1. /\ closer[c].at = "forget" /\ closer'[c].at = "reset" /\ closer'[c].part = "none"
        /\ \A d \in Closer : d # c => closer'[d] = closer[d]
    BY <1>6, ClosersMoved DEF ForgetHandle, Just, On
  <2>2. QED
    BY <1>6, <2>1 DEF ForgetHandle, SessionsInStep, InFiniHandle
<1>7. CASE ResetHandle(c)
  <2>1. /\ closer[c].at = "reset" /\ closer'[c].at = "over" /\ closer'[c].part = "none"
        /\ \A d \in Closer : d # c => closer'[d] = closer[d]
    BY <1>7, ClosersMoved DEF ResetHandle, Just, On
  <2>2. Freed /\ c \notin early /\ Handed
    BY <2>1 DEF HandleInStep, SessionsInStep
  <2>3. UNCHANGED <<worker, failed, native, early, deleted, running>> /\ ~mRtpHandle'
    BY <1>7 DEF ResetHandle
  <2>4. QED
    BY <2>1, <2>2, <2>3 DEF SessionsInStep, InFiniHandle
<1>8. QED
  BY <1>1, <1>2, <1>3, <1>4, <1>5, <1>6, <1>7 DEF EndHelper

LEMMA CloserAloneKept ==
  ASSUME HandleInv, NEW c \in Closer, EndHelper(c)
  PROVE  CloserAlone'
<1> USE DEF HandleInv, Starting, Inside, Freed, Handed, helper, objects, camerahistory, sendside
<1> SUFFICES ASSUME ~overlapped' PROVE CloserAlone'
  BY DEF CloserAlone
<1>0. ~overlapped /\ ~clashed
  <2>1. overlapped' = overlapped \/ finiHandle(c)
    BY DEF EndHelper, fini, CheckFini, ReadPart, BYEDestroy, DeletePart, ZeroPart,
           FreeHandle, ForgetHandle, ResetHandle
  <2>2. ~overlapped
    BY <2>1 DEF finiHandle
  <2>3. QED
    BY <2>2 DEF CloserAlone
<1>1. CASE fini(c) \/ CheckFini(c)
  <2>1. closer'[c].at \in {"check", "call", "over"}
        /\ \A d \in Closer : d # c => closer'[d] = closer[d]
    BY <1>1, ClosersMoved DEF fini, CheckFini, Just, On
  <2>2. QED
    BY <1>0, <1>1, <2>1 DEF fini, CheckFini, CloserAlone, InFiniHandle
<1>3. CASE finiHandle(c)
  <2>1. /\ closer[c].at = "call" /\ (closer'[c] = On("read", "sender") \/ closer'[c].at = "forget")
        /\ (closer'[c].at = "forget" <=> ~mRtpHandle)
        /\ \A d \in Closer : d # c => closer'[d] = closer[d]
    BY <1>3, ClosersMoved DEF finiHandle, Just, On
  <2>2. UNCHANGED <<mRtpHandle, native, deleted, clashed>>
        /\ (mRtpHandle => \A d \in Closer \ {c} : ~Inside(d))
    BY <1>3 DEF finiHandle
  <2>3. CASE mRtpHandle
    <3>1. ~Inside(c)
      BY <2>1 DEF InFiniHandle
    <3>2. deleted = {} /\ native.is = "live"
      BY <2>2, <2>3, <3>1 DEF SessionsInStep, HandleInStep, CameraTyped
    <3>3. QED
      BY <1>0, <2>1, <2>2, <2>3, <3>2 DEF CloserAlone, InFiniHandle, On
  <2>4. CASE ~mRtpHandle
    <3>1. \A d \in Closer : closer'[d].at \notin InFiniHandle
      BY <1>0, <2>1, <2>4 DEF CloserAlone, InFiniHandle
    <3>2. QED
      BY <1>0, <2>2, <3>1 DEF CloserAlone
  <2>5. QED
    BY <2>3, <2>4
<1>4. ASSUME NEW p \in {"sender", "receiver"},
             ReadPart(c, p) \/ BYEDestroy(c, p) \/ DeletePart(c, p) \/ ZeroPart(c, p)
      PROVE  CloserAlone'
  <2>1. /\ closer[c].at \in InFiniHandle /\ closer'[c].at \in InFiniHandle /\ closer[c].part = p
        /\ \A d \in Closer : d # c => closer'[d] = closer[d]
    BY <1>4, ClosersMoved DEF ReadPart, BYEDestroy, DeletePart, ZeroPart, Just, On, PartAfter,
       InFiniHandle
  <2>2. /\ mRtpHandle /\ native.is = "live" /\ \A d \in Closer \ {c} : ~Inside(d)
        /\ closer[c].at \in {"read", "destroy", "delete"} => p \notin deleted
        /\ p = "sender" => "receiver" \notin deleted
    BY <1>0, <2>1 DEF CloserAlone
  <2>3. UNCHANGED mRtpHandle /\ native'.is = "live"
    BY <1>4, <2>2 DEF ReadPart, BYEDestroy, DeletePart, ZeroPart, CameraTyped
  <2>4. ~clashed'
    <3>1. CASE ReadPart(c, p) \/ ZeroPart(c, p)
      BY <1>0, <2>2, <3>1 DEF ReadPart, ZeroPart
    <3>2. CASE DeletePart(c, p)
      <4>1. p \notin deleted
        BY <2>2, <3>2 DEF DeletePart, On
      <4>2. clashed' = (clashed \/ p \in deleted)
        BY <3>2 DEF DeletePart
      <4>3. QED
        BY <1>0, <4>1, <4>2
    <3>3. CASE BYEDestroy(c, p)
      <4>1. closer[c].at = "destroy"
        BY <3>3 DEF BYEDestroy, On
      <4>2. \A d \in Closer \ {c} : closer[d] # On("destroy", p)
        BY <2>2 DEF On, InFiniHandle
      <4>3. QED
        BY <1>0, <2>2, <3>3, <4>1, <4>2 DEF BYEDestroy
    <3>4. QED
      BY <1>4, <3>1, <3>2, <3>3
  <2>5. /\ closer'[c].at \in {"read", "destroy", "delete"} => closer'[c].part \notin deleted'
        /\ closer'[c].part = "sender" => "receiver" \notin deleted'
    <3>1. CASE ReadPart(c, p)
      BY <2>2, <3>1, ClosersMoved DEF ReadPart, On, Just, PartAfter
    <3>2. CASE BYEDestroy(c, p)
      BY <2>2, <3>2, ClosersMoved DEF BYEDestroy, On
    <3>3. CASE DeletePart(c, p)
      BY <2>2, <3>3, ClosersMoved DEF DeletePart, On
    <3>4. CASE ZeroPart(c, p)
      BY <2>2, <3>4, ClosersMoved DEF ZeroPart, On, Just, PartAfter
    <3>5. QED
      BY <1>4, <3>1, <3>2, <3>3, <3>4
  <2>6. QED
    BY <2>1, <2>2, <2>3, <2>4, <2>5 DEF CloserAlone, InFiniHandle
<1>5. CASE FreeHandle(c)
  <2>1. /\ closer[c].at = "free" /\ closer'[c].at = "forget"
        /\ \A d \in Closer : d # c => closer'[d] = closer[d]
    BY <1>5, ClosersMoved DEF FreeHandle, Just, On
  <2>2. native.is = "live" /\ \A d \in Closer \ {c} : ~Inside(d)
    BY <1>0, <2>1 DEF CloserAlone, InFiniHandle
  <2>3. ~clashed'
    BY <1>0, <1>5, <2>2 DEF FreeHandle
  <2>4. \A d \in Closer : closer'[d].at \notin InFiniHandle
    BY <2>1, <2>2 DEF InFiniHandle
  <2>5. QED
    BY <2>3, <2>4 DEF CloserAlone
<1>6. CASE ForgetHandle(c) \/ ResetHandle(c)
  <2>1. /\ closer[c].at \in {"forget", "reset"} /\ closer'[c].at \in {"reset", "over"}
        /\ \A d \in Closer : d # c => closer'[d] = closer[d]
    BY <1>6, ClosersMoved DEF ForgetHandle, ResetHandle, Just, On
  <2>2. \A d \in Closer : closer[d].at \notin InFiniHandle
    BY <1>0, <2>1 DEF CloserAlone, InFiniHandle
  <2>3. \A d \in Closer : closer'[d].at \notin InFiniHandle
    BY <2>1, <2>2 DEF InFiniHandle
  <2>4. ~clashed'
    BY <1>0, <1>6 DEF ForgetHandle, ResetHandle
  <2>5. QED
    BY <2>3, <2>4 DEF CloserAlone
<1>8. QED
  BY <1>1, <1>3, <1>4, <1>5, <1>6 DEF EndHelper

LEMMA HandleStep == HandleInv /\ [CameraNext]_cameravars => HandleInv'
<1> SUFFICES ASSUME HandleInv, [CameraNext]_cameravars PROVE HandleInv'
  OBVIOUS
<1>1. ASSUME UNCHANGED <<helper, objects, worker, rtpData, closeside, camerahistory>>
      PROVE  HandleInv'
  BY <1>1 DEF helper, objects, closeside, camerahistory, HandleInv, CameraTyped, HandleInStep,
     SessionsInStep, CloserAlone, StraysInStep, SomeoneCloses, Inside, Freed, Handed, Starting
<1>2. CASE receiveRtpData \/ poll \/ offer
  BY <1>1, <1>2 DEF receiveRtpData, poll, offer, sendside
<1>3. CASE UNCHANGED cameravars
  BY <1>1, <1>3 DEF cameravars, sendside
<1>4. CASE \E c \in Closer : EndHelper(c)
  BY <1>4, CloserTyped, CloserStray, CloserHandle, CloserSessions, CloserAloneKept DEF HandleInv
<1>5. QED
  BY <1>2, <1>3, <1>4, WorkerStep DEF CameraNext

LEMMA HandleSound == HandleInv => SessionsHeld /\ FreedUseFew
<1> SUFFICES ASSUME HandleInv PROVE SessionsHeld /\ FreedUseFew
  OBVIOUS
<1> USE DEF HandleInv, Freed, Handed, Inside
<1>1. running \subseteq native.parts /\ (native.is # "live" => running = {})
  BY DEF SessionsInStep, HandleInStep, CameraTyped
<1>2. ASSUME \A c \in Closer : closer[c] = Just("over")
      PROVE  running = IF failed \/ early = Closer THEN native.parts ELSE {}
  <2>1. \A c \in Closer : closer[c].at = "over" /\ ~Inside(c)
    BY <1>2 DEF Just, On, InFiniHandle
  <2>2. CASE early = Closer
    BY <2>1, <2>2 DEF SessionsInStep
  <2>3. CASE failed
    BY <2>3 DEF SessionsInStep
  <2>4. CASE ~failed /\ early # Closer
    <3>1. PICK c \in Closer : c \notin early
      BY <2>4 DEF CameraTyped
    <3>2. QED
      BY <2>1, <2>4, <3>1 DEF SessionsInStep
  <2>5. QED
    BY <2>2, <2>3, <2>4
<1>3. FreedUseFew
  <2>1. undone \/ \A m, n \in strays : m = n
    BY DEF StraysInStep
  <2>2. strays # {} => \E c \in Closer : closer[c].at # "idle"
    BY DEF StraysInStep, SomeoneCloses
  <2>3. clashed => overlapped
    BY DEF CloserAlone
  <2>4. QED
    BY <2>1, <2>2, <2>3 DEF FreedUseFew
<1>4. QED
  BY <1>1, <1>2, <1>3 DEF SessionsHeld

(* The queue and what was passed on.                                       *)
Latest == IF poller = "idle" THEN received ELSE received - 1

Sending == {"check", "call", "read", "send", "sending"}

QueueInv ==
  /\ rtpDataQueue \in Seq(Nat) /\ passed \in Seq(Nat) /\ rtpData \in Nat
  /\ received \in Nat
  /\ poller \in {"idle", "poll", "offer"} /\ (poller # "idle" => received > 0)
  /\ Len(rtpDataQueue) <= queueSize
  /\ poller = "offer" => Len(rtpDataQueue) < queueSize
  /\ \A i \in 1 .. Len(rtpDataQueue) : rtpDataQueue[i] + Len(rtpDataQueue) - i = Latest
  /\ worker \in Sending => rtpData + Len(rtpDataQueue) <= Latest
  /\ \A i \in 1 .. Len(passed) :
       /\ passed[i] + Len(rtpDataQueue) <= Latest
       /\ worker \in Sending => passed[i] < rtpData
  /\ \A i, j \in 1 .. Len(passed) : i < j => passed[i] < passed[j]

LEMMA TailOf ==
  ASSUME NEW q \in Seq(Nat), q # <<>>
  PROVE  /\ Len(Tail(q)) \in Nat /\ Len(q) = Len(Tail(q)) + 1
         /\ Tail(q) \in Seq(Nat) /\ Head(q) = q[1] /\ q[1] \in Nat
         /\ \A i \in 1 .. Len(Tail(q)) : Tail(q)[i] = q[i + 1]
OBVIOUS

LEMMA Below ==
  ASSUME NEW x \in Nat, NEW y \in Nat, NEW n \in Nat, NEW last \in Nat,
         y + n = last, x + n + 1 <= last
  PROVE  x + n <= last /\ x < y
OBVIOUS

LEMMA QueueInit == CameraInit => QueueInv
<1> SUFFICES ASSUME CameraInit PROVE QueueInv
  OBVIOUS
<1>1. /\ rtpDataQueue = <<>> /\ rtpData = 0 /\ worker = "start" /\ poller = "idle"
      /\ received = 0 /\ passed = <<>>
  BY DEF CameraInit
<1>2. QED
  BY <1>1, CameraAssumption DEF QueueInv, Sending

LEMMA QueueStep == QueueInv /\ [CameraNext]_cameravars => QueueInv'
<1> SUFFICES ASSUME QueueInv, [CameraNext]_cameravars PROVE QueueInv'
  OBVIOUS
<1>0. /\ rtpDataQueue \in Seq(Nat) /\ passed \in Seq(Nat) /\ rtpData \in Nat
      /\ received \in Nat /\ Latest \in Nat
      /\ Len(rtpDataQueue) \in Nat /\ queueSize \in Nat /\ queueSize > 0
  BY CameraAssumption DEF QueueInv, Latest
<1>1. ASSUME UNCHANGED <<rtpDataQueue, passed, received, poller>>, rtpData' \in {rtpData, 0},
             worker' \in Sending => worker \in Sending /\ rtpData' = rtpData
      PROVE  QueueInv'
  BY <1>0, <1>1 DEF QueueInv, Latest
<1>2. CASE take
  <2>1. /\ rtpDataQueue # <<>> /\ worker = "take"
        /\ rtpData' = Head(rtpDataQueue) /\ rtpDataQueue' = Tail(rtpDataQueue)
        /\ UNCHANGED <<passed, received, poller>>
    BY <1>2 DEF take, queueside
  <2>2. PICK n \in Nat : n = Len(rtpDataQueue') /\ Len(rtpDataQueue) = n + 1
    BY <1>0, <2>1, TailOf
  <2>3. rtpData' = rtpDataQueue[1] /\ rtpData' \in Nat
        /\ (\A i \in 1 .. n : rtpDataQueue'[i] = rtpDataQueue[i + 1])
        /\ rtpDataQueue' \in Seq(Nat)
    BY <1>0, <2>1, <2>2, TailOf
  <2>4. Latest' = Latest
    BY <2>1 DEF Latest
  <2>5. rtpData' + n = Latest
    BY <1>0, <2>2, <2>3 DEF QueueInv
  <2>6. \A i \in 1 .. n : rtpDataQueue'[i] + n - i = Latest
    <3> TAKE i \in 1 .. n
    <3>1. i + 1 \in 1 .. (n + 1) /\ rtpDataQueue[i + 1] \in Nat
      BY <1>0, <2>2
    <3>2. rtpDataQueue[i + 1] + (n + 1) - (i + 1) = Latest
      BY <2>2, <3>1 DEF QueueInv
    <3>3. QED
      BY <2>3, <3>1, <3>2
  <2>7. \A i \in 1 .. Len(passed) : passed[i] \in Nat /\ passed[i] + n + 1 <= Latest
    BY <1>0, <2>2 DEF QueueInv
  <2>8. \A i \in 1 .. Len(passed) : passed[i] + n <= Latest /\ passed[i] < rtpData'
    <3> TAKE i \in 1 .. Len(passed)
    <3>1. PICK x \in Nat : x = passed[i] /\ x + n + 1 <= Latest
      BY <2>7
    <3>2. rtpData' \in Nat
      BY <2>3
    <3>3. x + n <= Latest /\ x < rtpData'
      BY <1>0, <2>5, <3>1, <3>2, Below
    <3>4. QED
      BY <3>1, <3>3
  <2>9. n <= queueSize /\ (poller = "offer" => n < queueSize)
    BY <1>0, <2>2 DEF QueueInv
  <2>10. QED
    BY <2>1, <2>2, <2>3, <2>4, <2>5, <2>6, <2>8, <2>9 DEF QueueInv, Sending
<1>3. CASE SendDone
  <2>1. worker = "sending" /\ worker' = "loop" /\ rtpData' = 0
        /\ UNCHANGED <<rtpDataQueue, received, poller>>
    BY <1>3 DEF SendDone, queueside
  <2>2. Latest' = Latest
    BY <2>1 DEF Latest
  <2>3. CASE passed' = Append(passed, rtpData)
    <3>1. PICK n \in Nat : n = Len(passed)
      BY <1>0
    <3>2. /\ passed' \in Seq(Nat) /\ Len(passed') = n + 1 /\ passed'[n + 1] = rtpData
          /\ \A i \in 1 .. n : passed'[i] = passed[i]
      BY <1>0, <2>3, <3>1
    <3>3. /\ rtpData + Len(rtpDataQueue) <= Latest
          /\ \A i \in 1 .. n : passed[i] < rtpData /\ passed[i] + Len(rtpDataQueue) <= Latest
          /\ \A i, j \in 1 .. n : i < j => passed[i] < passed[j]
      BY <2>1, <3>1 DEF QueueInv, Sending
    <3>4. \A i \in 1 .. (n + 1) : passed'[i] + Len(rtpDataQueue) <= Latest
      BY <3>2, <3>3
    <3>5. ASSUME NEW i \in 1 .. (n + 1), NEW j \in 1 .. (n + 1), i < j
          PROVE  passed'[i] < passed'[j]
      <4>1. i \in 1 .. n /\ (j \in 1 .. n \/ j = n + 1)
        BY <3>5
      <4>2. CASE j \in 1 .. n
        BY <3>2, <3>3, <3>5, <4>1, <4>2
      <4>3. CASE j = n + 1
        BY <3>2, <3>3, <4>1, <4>3
      <4>4. QED
        BY <4>1, <4>2, <4>3
    <3>6. QED
      BY <2>1, <2>2, <3>2, <3>4, <3>5 DEF QueueInv, Sending
  <2>4. CASE passed' = passed
    BY <2>1, <2>2, <2>4 DEF QueueInv, Sending
  <2>5. QED
    BY <1>3, <2>3, <2>4 DEF SendDone
<1>4. CASE receiveRtpData
  <2>1. /\ poller = "idle" /\ received' = received + 1
        /\ poller' = IF Len(rtpDataQueue) >= queueSize THEN "poll" ELSE "offer"
        /\ UNCHANGED <<rtpDataQueue, passed, rtpData, worker>>
    BY <1>4 DEF receiveRtpData, sendside
  <2>2. Latest' = Latest
    BY <1>0, <2>1 DEF Latest
  <2>3. received' \in Nat /\ received' > 0 /\ poller' \in {"idle", "poll", "offer"}
        /\ (poller' = "offer" => Len(rtpDataQueue) < queueSize)
    BY <1>0, <2>1
  <2>4. QED
    BY <2>1, <2>2, <2>3 DEF QueueInv
<1>5. CASE poll
  <2>1. /\ poller = "poll" /\ poller' = "offer"
        /\ rtpDataQueue' = IF rtpDataQueue = <<>> THEN <<>> ELSE Tail(rtpDataQueue)
        /\ UNCHANGED <<passed, rtpData, worker, received>>
    BY <1>5 DEF poll, sendside
  <2>2. Latest' = Latest
    BY <2>1 DEF Latest
  <2>3. CASE rtpDataQueue = <<>>
    BY <1>0, <2>1, <2>2, <2>3 DEF QueueInv
  <2>4. CASE rtpDataQueue # <<>>
    <3>1. rtpDataQueue' = Tail(rtpDataQueue)
      BY <2>1, <2>4
    <3>2. PICK n \in Nat : n = Len(rtpDataQueue') /\ Len(rtpDataQueue) = n + 1
      BY <1>0, <2>4, <3>1, TailOf
    <3>3. /\ \A i \in 1 .. n : rtpDataQueue'[i] = rtpDataQueue[i + 1]
          /\ rtpDataQueue' \in Seq(Nat)
      BY <1>0, <2>4, <3>1, <3>2, TailOf
    <3>6. \A i \in 1 .. n : rtpDataQueue'[i] + n - i = Latest
      <4> TAKE i \in 1 .. n
      <4>1. i + 1 \in 1 .. (n + 1) /\ rtpDataQueue[i + 1] \in Nat
        BY <1>0, <3>2
      <4>2. rtpDataQueue[i + 1] + (n + 1) - (i + 1) = Latest
        BY <3>2, <4>1 DEF QueueInv
      <4>3. QED
        BY <3>3, <4>1, <4>2
    <3>7. \A i \in 1 .. Len(passed) : passed[i] \in Nat /\ passed[i] + n + 1 <= Latest
      BY <1>0, <3>2 DEF QueueInv
    <3>8. \A i \in 1 .. Len(passed) : passed[i] + n <= Latest
      BY <1>0, <3>7
    <3>9. n < queueSize
      BY <1>0, <3>2 DEF QueueInv
    <3>10. worker \in Sending => rtpData + n <= Latest
      BY <1>0, <3>2 DEF QueueInv
    <3>11. n <= queueSize
      BY <1>0, <3>9
    <3>12. QED
      BY <2>1, <2>2, <3>2, <3>3, <3>6, <3>8, <3>9, <3>10, <3>11 DEF QueueInv
  <2>5. QED
    BY <2>3, <2>4
<1>6. CASE offer
  <2>1. /\ poller = "offer" /\ poller' = "idle"
        /\ rtpDataQueue' = Append(rtpDataQueue, received)
        /\ UNCHANGED <<passed, rtpData, worker, received>>
    BY <1>6 DEF offer, QueueInv, sendside
  <2>2. Latest' = Latest + 1 /\ Latest' = received
    BY <1>0, <2>1 DEF Latest
  <2>3. PICK n \in Nat : n = Len(rtpDataQueue)
    BY <1>0
  <2>4. /\ rtpDataQueue' \in Seq(Nat) /\ Len(rtpDataQueue') = n + 1
        /\ rtpDataQueue'[n + 1] = received
        /\ \A i \in 1 .. n : rtpDataQueue'[i] = rtpDataQueue[i]
    BY <1>0, <2>1, <2>3
  <2>5. \A i \in 1 .. n : rtpDataQueue[i] \in Nat /\ rtpDataQueue[i] + n - i = Latest
    BY <1>0, <2>3 DEF QueueInv
  <2>6. \A i \in 1 .. (n + 1) : rtpDataQueue'[i] + (n + 1) - i = Latest'
    <3> TAKE i \in 1 .. (n + 1)
    <3>1. CASE i = n + 1
      BY <1>0, <2>2, <2>4, <3>1
    <3>2. CASE i \in 1 .. n
      <4>1. PICK x \in Nat : x = rtpDataQueue[i] /\ x + n - i = Latest
        BY <2>5, <3>2
      <4>2. rtpDataQueue'[i] = x
        BY <2>4, <3>2, <4>1
      <4>3. QED
        BY <1>0, <2>2, <4>1, <4>2
    <3>3. QED
      BY <3>1, <3>2
  <2>7. \A i \in 1 .. Len(passed) : passed[i] \in Nat /\ passed[i] + n <= Latest
    BY <1>0, <2>3 DEF QueueInv
  <2>8. \A i \in 1 .. Len(passed) : passed[i] + (n + 1) <= Latest'
    BY <1>0, <2>2, <2>7
  <2>9. n + 1 <= queueSize
    BY <1>0, <2>1, <2>3 DEF QueueInv
  <2>10. worker \in Sending => rtpData + (n + 1) <= Latest'
    BY <1>0, <2>2, <2>3 DEF QueueInv
  <2>11. QED
    BY <2>1, <2>4, <2>6, <2>8, <2>9, <2>10 DEF QueueInv
<1>7. CASE StartWorker \/ initParam \/ init \/ Assign \/ Loop
  BY <1>1, <1>7 DEF StartWorker, initParam, init, Assign, Loop, Make, queueside, Sending
<1>8. CASE CheckHandle \/ sendByte \/ ReadSender \/ SendBegun
  BY <1>1, <1>8 DEF CheckHandle, sendByte, ReadSender, SendBegun, GoOn, queueside, Sending
<1>9. CASE UNCHANGED cameravars
  BY <1>1, <1>9 DEF cameravars, queueside, sendside
<1>10. CASE \E c \in Closer : EndHelper(c)
  <2>1. UNCHANGED <<queueside, sendside>>
    BY <1>10 DEF EndHelper, fini, CheckFini, finiHandle, ReadPart, BYEDestroy, DeletePart,
       ZeroPart, FreeHandle, ForgetHandle, ResetHandle
  <2>2. QED
    BY <1>1, <2>1 DEF queueside, sendside
<1>11. QED
  BY <1>2, <1>3, <1>4, <1>5, <1>6, <1>7, <1>8, <1>9, <1>10 DEF CameraNext

LEMMA CameraSoundKept == CameraSpec => []CameraSound
<1>1. CameraInit => HandleInv /\ QueueInv
  BY HandleInit, QueueInit
<1>2. HandleInv /\ QueueInv /\ [CameraNext]_cameravars => HandleInv' /\ QueueInv'
  BY HandleStep, QueueStep
<1>3. HandleInv => SessionsHeld /\ FreedUseFew
  BY HandleSound
<1>4. ASSUME QueueInv PROVE LatestKept
  <2>1. DOMAIN rtpDataQueue = 1 .. Len(rtpDataQueue) /\ DOMAIN passed = 1 .. Len(passed)
    BY <1>4 DEF QueueInv
  <2>2. QED
    BY <1>4, <2>1 DEF QueueInv, LatestKept, Latest
<1>5. QED
  BY <1>1, <1>2, <1>3, <1>4, PTL DEF CameraSpec, CameraSound

-----------------------------------------------------------------------------

(* No wait sleeps through what it should hear of, reads a pipe with        *)
(* nothing in it, or outlives its session, in any of the transmitters.     *)
THEOREM WakeupsAlwaysHeard ==
  TCPSpec /\ ExtSpec /\ UDPv6Spec => []WakeupsHeard
<1>1. TCPSpec => []TCPWaitInv
  BY TCPWaitInit, TCPWaitStep, PTL DEF TCPSpec
<1>2. ExtSpec => []ExtInv
  BY ExtInitInv, ExtStep, PTL DEF ExtSpec
<1>3. UDPv6Spec => []Wait6Inv
  BY Wait6Init, Wait6Step, PTL DEF UDPv6Spec
<1>4. TCPWaitInv /\ ExtInv /\ Wait6Inv => WakeupsHeard
  BY DEF TCPWaitInv, ExtInv, Wait6Inv, WakeupsHeard
<1>5. QED
  BY <1>1, <1>2, <1>3, <1>4, PTL

(* Whatever the order in which transmitters are created, fail and are      *)
(* destroyed, connections deliver and break and the app starts and stops:  *)
(* every socket and receive buffer is in use, set aside to be closed or    *)
(* given back; sessions of the app run only under a live handle, and what  *)
(* is freed is used by overlapping calls alone; and the queue of the       *)
(* camera helper holds the latest of what came in (Create, Destroy,        *)
(* ClearSocketInfos, DelSocket, IpCameraHelper.initData, fini).            *)
THEOREM NothingEverLeaked ==
  UDPSpec /\ TCPSpec /\ CameraSpec /\ UDPv6Spec => []NothingLeaked
<1>1. UDPv6Spec => []Wait6Inv
  BY Wait6Init, Wait6Step, PTL DEF UDPv6Spec
<1>2. Wait6Inv => DescriptorsGivenBack6
  BY DEF Wait6Inv
<1>3. NoSocketLost /\ NoBufferLost /\ CameraSound /\ DescriptorsGivenBack6
        => NothingLeaked
  BY DEF NothingLeaked
<1>4. QED
  BY <1>1, <1>2, <1>3, SocketsKept, BuffersKept, CameraSoundKept, PTL

(* The tables say what is there: an open transmitter has the even port and *)
(* the odd one after it, the kernel the memberships of its table, one name *)
(* is told, the receiver keeps a destination for nobody who said goodbye,  *)
(* but one it made from an RTCP port that RTP did not follow, and a        *)
(* session over IPv6 finds nothing of the one before                       *)
(* (Create, JoinMulticastGroup, GetLocalHostName, OnNewSource, Destroy).   *)
THEOREM StateAlwaysMirrored ==
  UDPSpec /\ TrafficSpec /\ DestSpec /\ UDPv6Spec => []StateMirrored
<1>1. TrafficSpec => []OneHostName
  BY TrafficInitInv, TrafficStep, OneNameTold, PTL DEF TrafficSpec
<1>2. DestInv => DestinationsSound
  BY DestSound
<1>3. DestSpec => []DestinationsSound
  BY <1>2, DestInitInv, DestStep, PTL DEF DestSpec
<1>4. UDPv6Spec => []SessionsApart6
  BY ApartInit6, ApartStep6, Apart6, PTL DEF UDPv6Spec
<1>5. PortsPaired /\ MembershipsMatch /\ OneHostName /\ DestinationsSound
        /\ SessionsApart6 => StateMirrored
  BY DEF StateMirrored
<1>6. QED
  BY <1>1, <1>3, <1>4, <1>5, SocketsKept, PTL
=============================================================================
