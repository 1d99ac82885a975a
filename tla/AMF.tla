--------------------------------- MODULE AMF ---------------------------------
(***************************************************************************)
(* The values of RTMP commands (librtmp/amf.c): how an object is encoded   *)
(* into a buffer that may be too small, and what AMF_Decode makes of       *)
(* encoded bytes, with the values that librtmp never sends but reads, and  *)
(* with the ones that it cannot read.                                      *)
(*                                                                         *)
(* A property is a record: its name (a sequence of bytes, empty for an     *)
(* argument), its type and its value; the value of an object is a sequence *)
(* of properties.  The eight bytes of a number stand for the number, and    *)
(* <<0>> or <<1>> for a boolean.                                           *)
(***************************************************************************)
EXTENDS Integers, Sequences, SequencesExt

CONSTANTS
  Property,        \* properties that may be in an object
  PeerProperty,    \* properties that only a peer sends
  MaxProperties,   \* bound on the properties of an object
  Rooms,           \* sizes of the buffer that are tried
  CharIsSigned,    \* char is signed on x86, unsigned on the ARM builds
  NoBytes          \* a NULL or -1 of these functions

VARIABLE object    \* the properties of an AMFObject

amfvars == <<object>>

AmfInit == object = <<>>

\* AMF_AddProp
AMF_AddProp(p) == object' = Append(object, p)

AmfNext ==
  /\ Len(object) < MaxProperties
  /\ \E p \in Property \cup PeerProperty : AMF_AddProp(p)

---------------------------------------------------------------------------
(* Encoding.  Each function gets the room that is left in the buffer.      *)

BigEndian(n, bytes) == [i \in 1..bytes |-> (n \div 256 ^ (bytes - i)) % 256]
Named(p) == IF p.name = <<>> THEN <<>> ELSE BigEndian(Len(p.name), 2) \o p.name

TypeCode(t) ==
  CASE t = "number" -> 0 [] t = "boolean" -> 1 [] t = "string" -> 2 [] t = "object" -> 3
    [] t = "null" -> 5 [] t = "undefined" -> 6 [] t = "reference" -> 7 [] t = "mixed" -> 8
    [] t = "array" -> 10 [] t = "date" -> 11 [] t = "longstring" -> 12

ObjectEnd == <<0, 0, 9>>

EncodeNumber(value, room) == IF 9 > room THEN NoBytes ELSE <<0>> \o Reverse(value)
EncodeBoolean(value, room) == IF 2 > room THEN NoBytes ELSE <<1>> \o value
EncodeString(value, room) ==
  IF Len(value) + 5 > room THEN NoBytes ELSE <<2>> \o BigEndian(Len(value), 2) \o value
EncodeNull(room) == IF 1 >= room THEN NoBytes ELSE <<5>>

RECURSIVE AMFProp_Encode(_, _), EncodeProps(_, _), AMF_Encode(_, _)

AMFProp_Encode(p, room) ==
  IF p.type = "null" THEN EncodeNull(room)
  ELSE IF Len(p.name) + 3 >= room THEN NoBytes
  ELSE LET left  == room - Len(Named(p))
           value == CASE p.type = "number" -> EncodeNumber(p.value, left)
                      [] p.type = "boolean" -> EncodeBoolean(p.value, left)
                      [] p.type = "string" -> EncodeString(p.value, left)
                      [] p.type = "object" -> AMF_Encode(p.value, left)
                      [] OTHER -> NoBytes
       IN  IF value = NoBytes THEN NoBytes ELSE Named(p) \o value

\* The loop of AMF_Encode: it stops at the first property that does not fit.
EncodeProps(props, room) ==
  IF props = <<>> THEN <<>>
  ELSE LET first == AMFProp_Encode(Head(props), room)
       IN  IF first = NoBytes THEN <<>>
           ELSE first \o EncodeProps(Tail(props), room - Len(first))

AMF_Encode(props, room) ==
  IF 4 >= room THEN NoBytes
  ELSE LET body == EncodeProps(props, room - 1)
       IN  IF Len(body) + 3 >= room - 1 THEN NoBytes ELSE <<3>> \o body \o ObjectEnd

---------------------------------------------------------------------------
(* What a peer may send: every type, in a buffer of its own.               *)

RECURSIVE PeerValue(_)
PeerProps(props) == FlattenSeq([i \in DOMAIN props |-> Named(props[i]) \o PeerValue(props[i])])
PeerValue(p) ==
  LET code == <<TypeCode(p.type)>> IN
  CASE p.type \in {"null", "undefined"} -> code
    [] p.type = "number" -> code \o Reverse(p.value)
    [] p.type = "boolean" -> code \o p.value
    [] p.type = "string" -> code \o BigEndian(Len(p.value), 2) \o p.value
    [] p.type = "longstring" -> code \o BigEndian(Len(p.value), 4) \o p.value
    [] p.type = "date" -> code \o Reverse(p.value) \o <<0, 0>>
    [] p.type = "reference" -> code \o <<0, 1>>
    [] p.type = "object" -> code \o PeerProps(p.value) \o ObjectEnd
    [] p.type = "mixed" -> code \o BigEndian(Len(p.value), 4) \o PeerProps(p.value) \o ObjectEnd
    [] p.type = "array" ->
         code \o BigEndian(Len(p.value), 4) \o FlattenSeq([i \in DOMAIN p.value |-> PeerValue(p.value[i])])

---------------------------------------------------------------------------
(* Decoding.  AMFProp_Decode returns the property and the bytes it used.   *)

Integer(data, bytes) ==
  FoldLeft(LAMBDA n, byte : n * 256 + byte, 0, SubSeq(data, 1, bytes))
Skip(data, n) == SubSeq(data, n + 1, Len(data))

RECURSIVE AMFProp_Decode(_, _), ValueOfType(_, _), DecodeProps(_, _, _, _), ArrayProps(_, _, _)

\* AMFProp_Decode after the type: the type it records, value and bytes.
ValueOfType(code, data) ==
  LET is(t, value, used) == [type |-> t, value |-> value, used |-> used] IN
  CASE code = 0 -> IF Len(data) < 8 THEN NoBytes ELSE is("number", Reverse(SubSeq(data, 1, 8)), 8)
    [] code = 1 -> IF Len(data) < 1 THEN NoBytes ELSE is("boolean", <<IF data[1] # 0 THEN 1 ELSE 0>>, 1)
    [] code = 2 -> IF Len(data) < 2 \/ Len(data) < Integer(data, 2) + 2 THEN NoBytes
                   ELSE is("string", SubSeq(data, 3, 2 + Integer(data, 2)), 2 + Integer(data, 2))
    [] code = 12 -> IF Len(data) < 4 \/ Len(data) < Integer(data, 4) + 4 THEN NoBytes
                    ELSE is("string", SubSeq(data, 5, 4 + Integer(data, 4)), 4 + Integer(data, 4))
    [] code \in {5, 6, 13} -> is("null", <<>>, 0)
    [] code = 11 -> IF Len(data) < 10 THEN NoBytes ELSE is("date", Reverse(SubSeq(data, 1, 8)), 10)
    [] code = 3 -> LET read == DecodeProps(data, TRUE, FALSE, <<>>)
                   IN  IF read = NoBytes THEN NoBytes
                       ELSE is("object", read.props, Len(data) - Len(read.left))
    [] code = 8 -> LET read == DecodeProps(Skip(data, 4), TRUE, FALSE, <<>>)
                   IN  IF read = NoBytes THEN NoBytes
                       ELSE is("object", read.props, Len(data) - Len(read.left))
    [] code = 10 -> LET read == ArrayProps(Skip(data, 4), Integer(data, 4), <<>>)
                    IN  IF read = NoBytes THEN NoBytes
                        ELSE is("object", read.props, Len(data) - Len(read.left))
    [] OTHER -> NoBytes

AMFProp_Decode(data, bDecodeName) ==
  LET size  == IF bDecodeName THEN Integer(data, 2) ELSE 0
      skip  == IF bDecodeName THEN 2 + size ELSE 0
      value == ValueOfType(data[skip + 1], Skip(data, skip + 1))
  IN  IF bDecodeName /\ Len(data) < 4 THEN NoBytes
      ELSE IF bDecodeName /\ size > Len(data) - 2 THEN NoBytes
      ELSE IF Len(data) <= skip THEN NoBytes
      ELSE IF value = NoBytes THEN NoBytes
      ELSE [prop |-> [name |-> SubSeq(data, 3, 2 + size), type |-> value.type, value |-> value.value],
            used |-> skip + 1 + value.used]

\* AMF_Decode: after a property that cannot be read, bytes are skipped until
\* something looks like the end of an object.
DecodeProps(data, bDecodeName, bError, props) ==
  IF data = <<>> THEN IF bError THEN NoBytes ELSE [props |-> props, left |-> data]
  ELSE IF Len(data) >= 3 /\ SubSeq(data, 1, 3) = ObjectEnd
       THEN [props |-> props, left |-> Skip(data, 3)]
  ELSE IF bError THEN DecodeProps(Tail(data), bDecodeName, TRUE, props)
  ELSE LET read == AMFProp_Decode(data, bDecodeName)
       IN  IF read = NoBytes THEN DecodeProps(data, bDecodeName, TRUE, props)
           ELSE DecodeProps(Skip(data, read.used), bDecodeName, FALSE, Append(props, read.prop))

\* AMF_DecodeArray: as many values as the array says.
ArrayProps(data, count, props) ==
  IF count = 0 THEN [props |-> props, left |-> data]
  ELSE IF data = <<>> THEN NoBytes
  ELSE LET read == AMFProp_Decode(data, FALSE)
       IN  IF read = NoBytes THEN NoBytes
           ELSE ArrayProps(Skip(data, read.used), count - 1, Append(props, read.prop))

AMF_Decode(data, bDecodeName) == DecodeProps(data, bDecodeName, FALSE, <<>>)

---------------------------------------------------------------------------
(* AMF3ReadInteger: one to four bytes, the low 29 bits of a number.        *)

Continues(byte) == byte >= 128
NumBytesOffByOne(data) ==
  IF ~Continues(data[1]) THEN 1 ELSE IF ~Continues(data[2]) THEN 2 ELSE 3

NumBytes(data) ==
  IF ~Continues(data[1]) THEN 1
  ELSE IF ~Continues(data[2]) THEN 2 ELSE IF ~Continues(data[3]) THEN 3 ELSE 4

AMF3ReadInteger(data) ==
  LET bits(i) == data[i] % 128
      high    == bits(1) * 2 ^ 14 + bits(2) * 2 ^ 7 + bits(3)
      fourth  == IF CharIsSigned /\ data[4] >= 128 THEN data[4] - 256
                                                   ELSE high * 256 + data[4]
  IN  CASE NumBytes(data) = 1 -> data[1]
        [] NumBytes(data) = 2 -> bits(1) * 128 + data[2]
        [] NumBytes(data) = 3 -> bits(1) * 2 ^ 14 + bits(2) * 128 + data[3]
        [] NumBytes(data) = 4 -> IF fourth > 268435455 THEN fourth - 2 ^ 29 ELSE fourth

\* How a peer writes a number in the fewest bytes (AMF 3 specification, 1.3.1).
PeerInteger(n) ==
  LET u == n % 2 ^ 29
      more(shift) == 128 + ((u \div 2 ^ shift) % 128)
  IN  IF u < 2 ^ 7 THEN <<u>>
      ELSE IF u < 2 ^ 14 THEN <<more(7), u % 128>>
      ELSE IF u < 2 ^ 21 THEN <<more(14), more(7), u % 128>>
      ELSE <<more(22), more(15), more(8), u % 256>>

---------------------------------------------------------------------------
AmfTypeOK == Len(object) <= MaxProperties

\* A property as it is read: the types that librtmp folds together, and
\* nothing of an object from the first property on that it cannot read.
RECURSIVE AsRead(_), Readable(_)
AsRead(p) ==
  [name |-> p.name,
   type |-> CASE p.type = "longstring" -> "string" [] p.type = "undefined" -> "null"
              [] p.type \in {"mixed", "array"} -> "object" [] OTHER -> p.type,
   value |-> IF p.type \in {"object", "mixed", "array"} THEN Readable(p.value) ELSE p.value]
Unreadable(props) == {i \in DOMAIN props : props[i].type = "reference"}
Readable(props) ==
  LET last == IF Unreadable(props) = {} THEN Len(props) ELSE Min(Unreadable(props)) - 1
  IN  [i \in 1..last |-> AsRead(props[i])]

\* What a peer sends is read as it was sent, and a value that cannot be read
\* costs the rest of its own object and nothing of the objects around it
\* (AMF_Decode's "try to at least find the end mark").
PeerObjectRead ==
  LET data == PeerProps(object) \o ObjectEnd
  IN  AMF_Decode(data, TRUE).props = Readable(object)

\* A property list that is a prefix of another, in each of its objects.
RECURSIVE PrefixOf(_, _)
PrefixOf(few, many) ==
  /\ Len(few) <= Len(many)
  /\ \A i \in DOMAIN few :
       /\ few[i].name = many[i].name /\ few[i].type = many[i].type
       /\ IF few[i].type = "object" THEN PrefixOf(few[i].value, many[i].value)
                                    ELSE few[i].value = many[i].value

\* However small the buffer is, the encoder stays in it, and what it wrote
\* is read as a whole object that lacks only properties at an end; with
\* enough room nothing is missing but what follows an invalid type.  A null
\* is left out: the encoder drops its name (AMF_Encode against AMF_Decode).
OwnTypes == {"number", "boolean", "string", "object", "reference"}
Encodable == \A i \in DOMAIN object : object[i].type \in OwnTypes
ObjectReadBack ==
  Encodable =>
    \A room \in Rooms :
      LET data == AMF_Encode(object, room)
          read == AMF_Decode(data, FALSE).props[1].value
      IN  data # NoBytes =>
            /\ Len(data) <= room
            /\ PrefixOf(read, object)
            /\ room >= Len(PeerProps(object)) + 8 => read = Readable(object)

\* A number of AMF 3 is read as it was sent, at each length and at its ends.
AMF3IntegersRead ==
  \A n \in {0, 127, 128, 16383, 16384, 2097151, 2097152, 4194431, 268435455, -1, -268435456} :
    AMF3ReadInteger(PeerInteger(n)) = n

AmfSound == PeerObjectRead /\ ObjectReadBack /\ AMF3IntegersRead

=============================================================================
