------------------------------- MODULE Parser -------------------------------
(***************************************************************************)
(* The wire format (lib/parser.ts).  A string is the sequence of its       *)
(* character codes, a Buffer the sequence of its bytes; both are RawData.  *)
(* Data that is absent is an empty string: the encoder writes the same for *)
(* both, and the decoder makes both absent.                                *)
(*                                                                         *)
(* As elsewhere, an operator whose comment begins with "Fault" is the one  *)
(* after it with a fault that a run must notice.                           *)
(***************************************************************************)
EXTENDS Integers, Sequences, SequencesExt

Text(chars) == [binary |-> FALSE, body |-> chars]
Bytes(bytes) == [binary |-> TRUE, body |-> bytes]
RawData == [binary : BOOLEAN, body : Seq(Nat)]

SEPARATOR == 30

PACKET_TYPES ==
  [open |-> 48, close |-> 49, ping |-> 50, pong |-> 51, message |-> 52,
   upgrade |-> 53, noop |-> 54]

PACKET_TYPES_REVERSE ==
  [code \in 48 .. 54 |->
     CHOOSE type \in DOMAIN PACKET_TYPES : PACKET_TYPES[type] = code]

PacketType == DOMAIN PACKET_TYPES \cup {"error"}
Packet == [type : PacketType, data : RawData]

ErrorPacket == [type |-> "error", data |-> Text(<<>>)]

\* "b", the mark of base64, and its digits: one for each byte, since only that
\* they are not the separator and can be read back is of interest.
BASE64 == 98
ToBase64(bytes) == [i \in DOMAIN bytes |-> bytes[i] + 256]
FromBase64(chars) == [i \in DOMAIN chars |-> chars[i] - 256]

\* PACKET_TYPES has no entry for "error": what is written is "undefined".
TypeCode(type) == IF type = "error" THEN 117 ELSE PACKET_TYPES[type]

EncodePacket(packet, supportsBinary) ==
  IF packet.data.binary
    THEN IF supportsBinary THEN packet.data
                           ELSE Text(<<BASE64>> \o ToBase64(packet.data.body))
    ELSE Text(<<TypeCode(packet.type)>> \o packet.data.body)

DecodePacket(raw) ==
  IF raw.binary THEN [type |-> "message", data |-> raw]
  ELSE IF raw.body = <<>> THEN ErrorPacket
  ELSE LET code == Head(raw.body) IN
       IF code = BASE64 THEN [type |-> "message", data |-> Bytes(FromBase64(Tail(raw.body)))]
       ELSE IF code \in DOMAIN PACKET_TYPES_REVERSE
         THEN [type |-> PACKET_TYPES_REVERSE[code], data |-> Text(Tail(raw.body))]
       ELSE ErrorPacket

EncodePayload(packets) ==
  FlattenSeq([k \in DOMAIN packets |->
    LET encoded == EncodePacket(packets[k], FALSE).body IN
    IF k = 1 THEN encoded ELSE <<SEPARATOR>> \o encoded])

\* The numbers of a finite set, the least at place 0.
InOrder(numbers) ==
  LET last == Cardinality(numbers) - 1 IN
  CHOOSE f \in [0 .. last -> numbers] : \A j, k \in 0 .. last : j < k => f[j] < f[k]

\* String.split: the pieces between the separators, empty ones included.
Split(chars) ==
  LET cuts == {i \in DOMAIN chars : chars[i] = SEPARATOR} \cup {0, Len(chars) + 1}
      cut == InOrder(cuts)
  IN [k \in 1 .. Cardinality(cuts) - 1 |-> SubSeq(chars, cut[k - 1] + 1, cut[k] - 1)]

\* The sequence up to its first error packet, that one included.
UpToError(packets) ==
  LET stop == SelectInSeq(packets, LAMBDA packet : packet.type = "error") IN
  IF stop = 0 THEN packets ELSE SubSeq(packets, 1, stop)

\* Fault: decoding goes on behind an error.
DecodeAll(chars) ==
  LET pieces == Split(chars) IN
  [k \in DOMAIN pieces |-> DecodePacket(Text(pieces[k]))]

DecodePayload(chars) ==
  LET pieces == Split(chars) IN
  UpToError([k \in DOMAIN pieces |-> DecodePacket(Text(pieces[k]))])
=============================================================================
