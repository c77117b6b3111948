---------------------------- MODULE ParserProofs ----------------------------
(***************************************************************************)
(* What holds of the wire format for data of any length.                   *)
(***************************************************************************)
EXTENDS Parser, FiniteSetTheorems, SequenceTheorems, TLAPS

\* What the library sends: binary data goes with messages only.
Sendable(packet) ==
  /\ packet \in Packet
  /\ packet.type # "error"
  /\ packet.data.binary => packet.type = "message"

\* A type is found again by its code.
LEMMA TypeByCode ==
  ASSUME NEW type \in DOMAIN PACKET_TYPES
  PROVE  /\ PACKET_TYPES[type] \in DOMAIN PACKET_TYPES_REVERSE /\ PACKET_TYPES[type] \in Nat
         /\ PACKET_TYPES_REVERSE[PACKET_TYPES[type]] = type
         /\ PACKET_TYPES[type] # BASE64 /\ PACKET_TYPES[type] # SEPARATOR
<1>1. DOMAIN PACKET_TYPES = {"open", "close", "ping", "pong", "message", "upgrade", "noop"}
  BY DEF PACKET_TYPES
<1>2. /\ PACKET_TYPES["open"] = 48 /\ PACKET_TYPES["close"] = 49
      /\ PACKET_TYPES["ping"] = 50 /\ PACKET_TYPES["pong"] = 51
      /\ PACKET_TYPES["message"] = 52 /\ PACKET_TYPES["upgrade"] = 53
      /\ PACKET_TYPES["noop"] = 54
  BY DEF PACKET_TYPES
<1>3. PACKET_TYPES[type] \in 48 .. 54
  BY <1>1, <1>2
<1>4. \A other \in DOMAIN PACKET_TYPES : PACKET_TYPES[other] = PACKET_TYPES[type] => other = type
  BY <1>1, <1>2
<1>5. PACKET_TYPES_REVERSE[PACKET_TYPES[type]]
        = CHOOSE t \in DOMAIN PACKET_TYPES : PACKET_TYPES[t] = PACKET_TYPES[type]
  BY <1>3 DEF PACKET_TYPES_REVERSE
<1>6. (CHOOSE t \in DOMAIN PACKET_TYPES : PACKET_TYPES[t] = PACKET_TYPES[type]) = type
  BY <1>4
<1>7. DOMAIN PACKET_TYPES_REVERSE = 48 .. 54
  BY DEF PACKET_TYPES_REVERSE
<1> QED BY <1>3, <1>5, <1>6, <1>7 DEF BASE64, SEPARATOR

\* Base64 is read back.
LEMMA Base64Back ==
  ASSUME NEW bytes \in Seq(Nat)
  PROVE  /\ ToBase64(bytes) \in Seq(Nat) /\ Len(ToBase64(bytes)) = Len(bytes)
         /\ \A i \in 1 .. Len(bytes) : ToBase64(bytes)[i] # SEPARATOR
         /\ FromBase64(ToBase64(bytes)) = bytes
<1> DEFINE chars == ToBase64(bytes)
           n == Len(bytes)
<1>1. n \in Nat /\ DOMAIN bytes = 1 .. n /\ \A i \in 1 .. n : bytes[i] \in Nat
  OBVIOUS
<1>2. chars = [i \in 1 .. n |-> bytes[i] + 256]
  BY <1>1 DEF ToBase64
<1>3. \A i \in 1 .. n : chars[i] \in Nat /\ chars[i] - 256 = bytes[i] /\ chars[i] # SEPARATOR
  BY <1>1, <1>2 DEF SEPARATOR
<1>4. chars \in [1 .. n -> Nat]
  BY <1>2, <1>3
<1>5. chars \in Seq(Nat) /\ Len(chars) = n /\ DOMAIN chars = 1 .. n
  BY <1>1, <1>4
<1> HIDE DEF chars
<1>6. FromBase64(chars) = [i \in 1 .. n |-> bytes[i]]
  BY <1>3, <1>5 DEF FromBase64
<1>7. [i \in 1 .. n |-> bytes[i]] = bytes
  BY <1>1
<1> QED BY <1>3, <1>5, <1>6, <1>7 DEF chars

\* A character in front, and the rest.
LEMMA InFront ==
  ASSUME NEW chars \in Seq(Nat), NEW char \in Nat
  PROVE  LET body == <<char>> \o chars IN
         /\ body \in Seq(Nat) /\ body # <<>> /\ Head(body) = char /\ Tail(body) = chars
         /\ Len(body) = Len(chars) + 1
         /\ \A i \in 1 .. Len(body) : body[i] = IF i = 1 THEN char ELSE chars[i - 1]
OBVIOUS

\* No separator comes in with a character that is none.
LEMMA FreeInFront ==
  ASSUME NEW chars \in Seq(Nat), NEW char \in Nat, char # SEPARATOR,
         \A i \in 1 .. Len(chars) : chars[i] # SEPARATOR
  PROVE  \A i \in 1 .. Len(<<char>> \o chars) : (<<char>> \o chars)[i] # SEPARATOR
OBVIOUS

\* Whatever is sent is read back as it was, over a transport that takes binary
\* data and over one that does not (encodePacket, decodePacket).
THEOREM PacketRoundTrip ==
  ASSUME NEW packet, Sendable(packet), NEW supportsBinary \in BOOLEAN
  PROVE  DecodePacket(EncodePacket(packet, supportsBinary)) = packet
<1> DEFINE body == packet.data.body
<1>1. /\ packet.data \in RawData /\ body \in Seq(Nat)
      /\ packet = [type |-> packet.type, data |-> packet.data]
      /\ packet.data = [binary |-> packet.data.binary, body |-> body]
      /\ packet.type \in DOMAIN PACKET_TYPES /\ packet.data.binary \in BOOLEAN
  BY DEF Sendable, Packet, PacketType, RawData
<1>2. CASE packet.data.binary /\ supportsBinary
  BY <1>1, <1>2 DEF EncodePacket, DecodePacket, Sendable
<1>3. CASE packet.data.binary /\ ~supportsBinary
  <2> DEFINE chars == <<BASE64>> \o ToBase64(body)
  <2>1. /\ chars # <<>> /\ Head(chars) = BASE64 /\ Tail(chars) = ToBase64(body)
    <3>1. ToBase64(body) \in Seq(Nat) /\ BASE64 \in Nat
      BY <1>1, Base64Back DEF BASE64
    <3> QED BY <3>1, InFront
  <2>2. FromBase64(Tail(chars)) = body
    BY <1>1, <2>1, Base64Back
  <2>3. EncodePacket(packet, supportsBinary) = Text(chars)
    BY <1>3 DEF EncodePacket
  <2> HIDE DEF chars
  <2>4. DecodePacket(Text(chars)) = [type |-> "message", data |-> Bytes(body)]
    BY <2>1, <2>2 DEF DecodePacket, Text
  <2> QED BY <1>1, <1>3, <2>3, <2>4 DEF Bytes, Sendable
<1>4. CASE ~packet.data.binary
  <2> DEFINE code == PACKET_TYPES[packet.type]
             chars == <<code>> \o body
  <2>1. /\ code \in DOMAIN PACKET_TYPES_REVERSE /\ PACKET_TYPES_REVERSE[code] = packet.type
        /\ code # BASE64 /\ code \in Nat
    BY <1>1, TypeByCode
  <2> HIDE DEF code
  <2>2. chars # <<>> /\ Head(chars) = code /\ Tail(chars) = body
    BY <1>1, <2>1, InFront
  <2>3. EncodePacket(packet, supportsBinary) = Text(chars)
    BY <1>4 DEF EncodePacket, TypeCode, Sendable, code
  <2> HIDE DEF chars
  <2>4. DecodePacket(Text(chars)) = [type |-> packet.type, data |-> Text(body)]
    BY <2>1, <2>2 DEF DecodePacket, Text
  <2>5. packet.data.binary = FALSE
    BY <1>1, <1>4
  <2>6. packet.data = Text(body)
    BY <1>1, <2>5 DEF Text
  <2> QED BY <1>1, <2>3, <2>4, <2>6
<1> QED BY <1>2, <1>3, <1>4

\* A packet encoded for a payload contains no separator, unless its text does:
\* binary data may have any bytes (encodePayload).
THEOREM NoSeparatorInside ==
  ASSUME NEW packet, Sendable(packet),
         ~packet.data.binary => \A i \in 1 .. Len(packet.data.body) : packet.data.body[i] # SEPARATOR
  PROVE  LET chars == EncodePacket(packet, FALSE).body IN
         \A i \in 1 .. Len(chars) : chars[i] # SEPARATOR
<1> DEFINE body == packet.data.body
<1>1. body \in Seq(Nat) /\ packet.type \in DOMAIN PACKET_TYPES
  BY DEF Sendable, Packet, PacketType, RawData
<1>2. CASE packet.data.binary
  <2> DEFINE digits == ToBase64(body)
             chars == <<BASE64>> \o digits
  <2>1. /\ digits \in Seq(Nat) /\ BASE64 \in Nat /\ BASE64 # SEPARATOR
        /\ \A i \in 1 .. Len(digits) : digits[i] # SEPARATOR
    BY <1>1, Base64Back DEF BASE64, SEPARATOR
  <2> HIDE DEF digits
  <2>2. \A i \in 1 .. Len(chars) : chars[i] # SEPARATOR
    BY <2>1, FreeInFront
  <2> QED BY <1>2, <2>2 DEF EncodePacket, Text, digits
<1>3. CASE ~packet.data.binary
  <2> DEFINE code == PACKET_TYPES[packet.type]
             chars == <<code>> \o body
  <2>1. code # SEPARATOR /\ code \in Nat
    BY <1>1, TypeByCode
  <2> HIDE DEF code
  <2>2. \A i \in 1 .. Len(chars) : chars[i] # SEPARATOR
    BY <1>1, <1>3, <2>1, FreeInFront
  <2> QED BY <1>3, <2>2 DEF EncodePacket, Text, TypeCode, Sendable, code
<1> QED BY <1>2, <1>3

-----------------------------------------------------------------------------
(* Induction *)

\* The library's theorems on induction are about operators; these two are
\* about sets, which every prover can take.
Below == {pair \in Nat \X Nat : pair[1] < pair[2]}

LEMMA LeastNumber ==
  ASSUME NEW T \in SUBSET Nat, T # {}
  PROVE  \E x \in T : \A y \in T : x <= y
<1>1. IsWellFoundedOn(Below, Nat)
  BY NatLessThanWellFounded DEF OpToRel, Below
<1>2. PICK x \in T : \A y \in T : ~ (<<y, x>> \in Below)
  BY <1>1, WFMin
<1>3. \A y \in T : ~ (y < x)
  BY <1>2 DEF Below
<1>4. \A y \in T : x \in Nat /\ y \in Nat
  OBVIOUS
<1> QED BY <1>3, <1>4

\* What holds of the first of n and goes on from each to the next holds of all.
LEMMA UpTo ==
  ASSUME NEW n \in Nat, NEW S, 1 \in S,
         \A k \in 1 .. n : k \in S /\ k < n => k + 1 \in S
  PROVE  \A k \in 1 .. n : k \in S
<1> SUFFICES ASSUME NEW k \in 1 .. n, k \notin S
             PROVE  FALSE
  OBVIOUS
<1> DEFINE T == (1 .. n) \ S
<1>1. T \in SUBSET Nat /\ T # {}
  OBVIOUS
<1>2. PICK x \in T : \A y \in T : x <= y
  BY <1>1, LeastNumber
<1>3. x \in 1 .. n /\ x \notin S /\ x # 1
  BY <1>2
<1>4. x - 1 \in 1 .. n /\ x - 1 < n /\ ~ (x <= x - 1) /\ (x - 1) + 1 = x
  BY <1>3
<1>5. x - 1 \in S
  BY <1>2, <1>4
<1> QED BY <1>3, <1>4, <1>5

-----------------------------------------------------------------------------
(* FlattenSeq *)

\* FlattenSeq(parts) is the last of these sums.
Sums(A, parts) ==
  {f \in [1 .. Len(parts) -> Seq(A)] :
     /\ f[1] = parts[1]
     /\ \A k \in 1 .. Len(parts) : k > 1 => f[k] = f[k - 1] \o parts[k]}

LEMMA Flattened ==
  ASSUME NEW A, NEW parts \in Seq(Seq(A)), Len(parts) # 0
  PROVE  \E f \in Sums(A, parts) : FlattenSeq(parts) = f[Len(parts)]
<1> DEFINE n == Len(parts)
           Next1(f, k) == IF k = 1 THEN parts[k] ELSE f[k - 1] \o parts[k]
           Goes(f, m) == f = [k \in 1 .. m |-> Next1(f, k)]
           S == {m \in 1 .. n : \E f \in [1 .. m -> Seq(A)] : Goes(f, m)}
<1>1. n \in Nat /\ n >= 1 /\ \A k \in 1 .. n : parts[k] \in Seq(A)
  OBVIOUS
<1>0. \A g : /\ Next1(g, 1) = parts[1]
            /\ \A k : k # 1 => Next1(g, k) = g[k - 1] \o parts[k]
  BY Zenon
<1>2. 1 \in S
  <2> DEFINE f == [k \in 1 .. 1 |-> parts[1]]
  <2>1. f \in [1 .. 1 -> Seq(A)] /\ Goes(f, 1)
    BY <1>1
  <2> HIDE DEF n, Goes, f
  <2>2. 1 \in 1 .. n /\ \E f0 \in [1 .. 1 -> Seq(A)] : Goes(f0, 1)
    BY <1>1, <2>1
  <2> QED BY <2>2
<1>3. ASSUME NEW m \in 1 .. n, m \in S, m < n
      PROVE  m + 1 \in S
  <2>1. PICK f \in [1 .. m -> Seq(A)] : Goes(f, m)
    BY <1>3
  <2> DEFINE g == [k \in 1 .. m + 1 |-> IF k = m + 1 THEN f[m] \o parts[m + 1] ELSE f[k]]
  <2>2. m \in Nat /\ m >= 1 /\ f[m] \in Seq(A) /\ m + 1 \in 1 .. n
    BY <1>1, <1>3
  <2>3. f[m] \o parts[m + 1] \in Seq(A)
    BY <1>1, <2>2, ConcatProperties
  <2>4. g \in [1 .. m + 1 -> Seq(A)]
    BY <2>2, <2>3
  <2>5. ASSUME NEW k \in 1 .. m + 1
        PROVE  g[k] = Next1(g, k)
    <3>1. CASE k = m + 1
      <4>1. g[k] = f[m] \o parts[k] /\ k # 1 /\ k - 1 = m /\ g[m] = f[m]
        BY <2>2, <3>1
      <4> HIDE DEF g
      <4> QED BY <4>1
    <3>2. CASE k # m + 1
      <4>1. k \in 1 .. m /\ g[k] = f[k] /\ (k # 1 => k - 1 \in 1 .. m /\ g[k - 1] = f[k - 1])
        BY <2>2, <3>2
      <4>2. f[k] = Next1(f, k)
        BY <2>1, <4>1
      <4> HIDE DEF g
      <4> QED BY <4>1, <4>2
    <3> QED BY <3>1, <3>2
  <2>6. Goes(g, m + 1)
    <3> HIDE DEF g
    <3> QED BY <2>4, <2>5
  <2> HIDE DEF g, Goes
  <2> QED BY <2>2, <2>4, <2>6
<1> HIDE DEF S
<1>4. n \in S
  <2>1. \A m \in 1 .. n : m \in S /\ m < n => m + 1 \in S
    BY <1>3
  <2> HIDE DEF n
  <2>2. \A m \in 1 .. n : m \in S
    BY <1>1, <1>2, <2>1, UpTo
  <2> QED BY <1>1, <2>2
<1>5. PICK f \in [1 .. n -> Seq(A)] : Goes(f, n)
  BY <1>4 DEF S
<1> DEFINE flatten == CHOOSE f0 : Goes(f0, n)
<1>6. Goes(flatten, n)
  BY <1>5
<1>7. FlattenSeq(parts) = flatten[n]
  BY DEF FlattenSeq
<1> HIDE DEF flatten
<1>8. flatten = f
  <2> DEFINE E == {k \in 1 .. n : flatten[k] = f[k]}
  <2>1. flatten = [k \in 1 .. n |-> Next1(flatten, k)] /\ f = [k \in 1 .. n |-> Next1(f, k)]
    BY <1>5, <1>6
  <2>2. \A k \in 1 .. n : flatten[k] = Next1(flatten, k) /\ f[k] = Next1(f, k)
    BY <2>1
  <2> HIDE DEF Next1
  <2>3. 1 \in E
    BY <1>0, <1>1, <2>2
  <2>4. ASSUME NEW m \in 1 .. n, m \in E, m < n
        PROVE  m + 1 \in E
    <3>1. m + 1 \in 1 .. n /\ m + 1 # 1 /\ (m + 1) - 1 = m
      BY <1>1, <2>4
    <3>2. flatten[m] = f[m]
      BY <2>4
    <3>3. flatten[m + 1] = flatten[m] \o parts[m + 1] /\ f[m + 1] = f[m] \o parts[m + 1]
      BY <1>0, <2>2, <3>1, Zenon
    <3> QED BY <3>1, <3>2, <3>3
  <2>5. \A m \in 1 .. n : m \in E /\ m < n => m + 1 \in E
    BY <2>4
  <2> HIDE DEF n, E
  <2>6. \A k \in 1 .. n : k \in E
    BY <1>1, <2>3, <2>5, UpTo
  <2>7. DOMAIN flatten = 1 .. n /\ flatten = [k \in 1 .. n |-> flatten[k]]
    BY <2>1
  <2> QED BY <2>6, <2>7 DEF E
<1>9. \A k \in 1 .. n : f[k] = Next1(f, k)
  BY <1>5
<1>10. f \in Sums(A, parts)
  <2>1. f[1] = parts[1] /\ \A k \in 1 .. n : k # 1 => f[k] = f[k - 1] \o parts[k]
    <3> HIDE DEF Next1
    <3>1. 1 \in 1 .. n
      BY <1>1
    <3> QED BY <1>0, <1>9, <3>1, Zenon
  <2>2. \A k \in 1 .. n : k > 1 => k # 1
    OBVIOUS
  <2> QED BY <2>1, <2>2, Zenon DEF Sums
<1> QED BY <1>7, <1>8, <1>10

-----------------------------------------------------------------------------
(* Split *)

Rises(f, m) == \A j, k \in 0 .. m : j < k => f[j] < f[k]

\* A function that rises from each number to the next rises from each to all
\* that follow.
LEMMA StepwiseRises ==
  ASSUME NEW m \in Nat, NEW f \in [0 .. m -> Nat], \A k \in 1 .. m : f[k - 1] < f[k]
  PROVE  Rises(f, m)
<1> SUFFICES ASSUME NEW j \in 0 .. m
             PROVE  \A k \in 0 .. m : j < k => f[j] < f[k]
  BY DEF Rises
<1> DEFINE T == {k \in 0 .. m : j < k /\ ~ (f[j] < f[k])}
<1> SUFFICES ASSUME T # {}
             PROVE  FALSE
  OBVIOUS
<1>1. T \in SUBSET Nat
  OBVIOUS
<1>2. PICK k \in T : \A y \in T : k <= y
  BY <1>1, LeastNumber
<1>3. k \in 1 .. m /\ j < k /\ ~ (f[j] < f[k]) /\ k - 1 \in 0 .. m /\ ~ (k <= k - 1)
  BY <1>2
<1>4. k - 1 \notin T
  BY <1>2, <1>3
<1>5. f[j] \in Nat /\ f[k] \in Nat /\ f[k - 1] \in Nat /\ f[k - 1] < f[k]
  BY <1>3
<1>6. CASE j = k - 1
  BY <1>3, <1>5, <1>6
<1>7. CASE j # k - 1
  <2>1. j < k - 1
    BY <1>3, <1>7
  <2>2. f[j] < f[k - 1]
    BY <1>3, <1>4, <2>1
  <2> QED BY <1>3, <1>5, <2>2
<1> QED BY <1>6, <1>7

\* A rising function takes no value twice, so a set it takes on has its size.
LEMMA RisingBijection ==
  ASSUME NEW m \in Nat, NEW C \in SUBSET Nat, NEW f \in [0 .. m -> C], Rises(f, m)
  PROVE  f \in Injection(0 .. m, C)
<1>1. \A j, k \in 0 .. m : f[j] = f[k] => j = k
  <2> SUFFICES ASSUME NEW j \in 0 .. m, NEW k \in 0 .. m, f[j] = f[k], j # k
               PROVE  FALSE
    OBVIOUS
  <2>1. f[j] \in Nat /\ f[k] \in Nat
    OBVIOUS
  <2>2. j < k \/ k < j
    OBVIOUS
  <2> QED BY <2>1, <2>2 DEF Rises
<1> QED BY <1>1 DEF Injection, IsInjective

\* There is one way to put a set of numbers in order.
LEMMA OneOrder ==
  ASSUME NEW m \in Nat, NEW C \in SUBSET Nat,
         NEW f \in [0 .. m -> C], NEW g \in [0 .. m -> C], Rises(f, m), Rises(g, m),
         \A x \in C : \E k \in 0 .. m : g[k] = x
  PROVE  f = g /\ Cardinality(C) = m + 1
<1>1. IsFiniteSet(0 .. m) /\ Cardinality(0 .. m) = m + 1
  BY FS_Interval
<1>2. g \in Injection(0 .. m, C) /\ f \in Injection(0 .. m, C)
  BY RisingBijection
<1>3. g \in Surjection(0 .. m, C)
  BY DEF Surjection
<1>4. ExistsBijection(0 .. m, C)
  BY <1>2, <1>3 DEF ExistsBijection, Bijection
<1>5. IsFiniteSet(C) /\ Cardinality(C) = m + 1
  BY <1>1, <1>4, FS_Bijection
<1>6. f \in Surjection(0 .. m, C)
  BY <1>1, <1>2, <1>5, FS_Injection
<1>7. \A x \in C : \E k \in 0 .. m : f[k] = x
  BY <1>6 DEF Surjection
<1>8. \A k \in 0 .. m : f[k] = g[k]
  <2> DEFINE T == {k \in 0 .. m : f[k] # g[k]}
  <2> SUFFICES ASSUME T # {}
               PROVE  FALSE
    OBVIOUS
  <2>1. T \in SUBSET Nat
    OBVIOUS
  <2>2. PICK k \in T : \A y \in T : k <= y
    BY <2>1, LeastNumber
  <2>3. k \in 0 .. m /\ f[k] # g[k] /\ f[k] \in C /\ g[k] \in C /\ f[k] \in Nat /\ g[k] \in Nat
    BY <2>2
  <2>4. \A j \in 0 .. m : j < k => f[j] = g[j]
    BY <2>2
  <2> HIDE DEF T
  <2>5. CASE f[k] < g[k]
    <3>1. PICK j \in 0 .. m : g[j] = f[k]
      BY <2>3
    <3>2. j < k
      <4>1. CASE k < j
        BY <2>3, <2>5, <3>1, <4>1 DEF Rises
      <4>2. CASE j = k
        BY <2>3, <3>1, <4>2
      <4> QED BY <2>3, <4>1, <4>2
    <3>3. f[j] < f[k] /\ f[j] = f[k]
      BY <2>3, <2>4, <3>1, <3>2 DEF Rises
    <3> QED BY <2>3, <3>3
  <2>6. CASE g[k] < f[k]
    <3>1. PICK j \in 0 .. m : f[j] = g[k]
      BY <1>7, <2>3
    <3>2. j < k
      <4>1. CASE k < j
        BY <2>3, <2>6, <3>1, <4>1 DEF Rises
      <4>2. CASE j = k
        BY <2>3, <3>1, <4>2
      <4> QED BY <2>3, <4>1, <4>2
    <3>3. g[j] < g[k] /\ g[j] = g[k]
      BY <2>3, <2>4, <3>1, <3>2 DEF Rises
    <3> QED BY <2>3, <3>3
  <2> QED BY <2>3, <2>5, <2>6
<1> QED BY <1>5, <1>8

\* A text, a separator and a piece more.
Longer(text, piece) == text \o (<<SEPARATOR>> \o piece)

LEMMA OnePieceMore ==
  ASSUME NEW text \in Seq(Nat), NEW piece \in Seq(Nat), NEW longer,
         longer = Longer(text, piece)
  PROVE  /\ longer \in Seq(Nat) /\ Len(longer) = Len(text) + 1 + Len(piece)
         /\ \A i \in 1 .. Len(text) : longer[i] = text[i]
         /\ longer[Len(text) + 1] = SEPARATOR
         /\ \A i \in 1 .. Len(piece) : longer[Len(text) + 1 + i] = piece[i]
<1> DEFINE tail == <<SEPARATOR>> \o piece
<1>1. /\ tail \in Seq(Nat) /\ Len(tail) = Len(piece) + 1 /\ tail[1] = SEPARATOR
      /\ \A i \in 1 .. Len(piece) : tail[1 + i] = piece[i]
  BY DEF SEPARATOR
<1>2. Len(text) \in Nat /\ Len(piece) \in Nat
  OBVIOUS
<1>3. longer = text \o tail
  BY DEF Longer
<1> HIDE DEF tail
<1>4. /\ longer \in Seq(Nat) /\ Len(longer) = Len(text) + Len(tail)
      /\ \A i \in 1 .. Len(text) + Len(tail) :
           longer[i] = IF i <= Len(text) THEN text[i] ELSE tail[i - Len(text)]
  <2>1. /\ text \o tail \in Seq(Nat) /\ Len(text \o tail) = Len(text) + Len(tail)
        /\ \A i \in 1 .. Len(text) + Len(tail) :
             (text \o tail)[i] = IF i <= Len(text) THEN text[i] ELSE tail[i - Len(text)]
    BY <1>1, ConcatProperties
  <2> QED BY <1>3, <2>1, Zenon
<1>5. \A i \in 1 .. Len(text) : longer[i] = text[i]
  BY <1>1, <1>2, <1>4, SMTT(30)
<1>6. \A i \in 0 .. Len(piece) : longer[Len(text) + 1 + i] = tail[1 + i]
  <2> SUFFICES ASSUME NEW i \in 0 .. Len(piece)
               PROVE  longer[Len(text) + 1 + i] = tail[1 + i]
    OBVIOUS
  <2> DEFINE k == Len(text) + 1 + i
  <2>1. k \in 1 .. Len(text) + Len(tail) /\ ~ (k <= Len(text)) /\ k - Len(text) = 1 + i
    BY <1>1, <1>2
  <2> HIDE DEF k
  <2>2. longer[k] = tail[1 + i]
    BY <1>4, <2>1
  <2> QED BY <2>2 DEF k
<1>7. longer[Len(text) + 1 + 0] = tail[1 + 0] /\ Len(text) + 1 + 0 = Len(text) + 1
  BY <1>2, <1>6
<1> QED BY <1>1, <1>2, <1>4, <1>5, <1>6, <1>7

\* Pieces, none of which contains a separator, joined by separators.
Joins(parts, pieces) ==
  /\ parts \in Seq(Seq(Nat)) /\ pieces \in Seq(Seq(Nat)) /\ Len(parts) = Len(pieces)
  /\ Len(pieces) # 0
  /\ parts[1] = pieces[1]
  /\ \A k \in 1 .. Len(pieces) : k > 1 => parts[k] = <<SEPARATOR>> \o pieces[k]
  /\ \A k \in 1 .. Len(pieces) : \A i \in 1 .. Len(pieces[k]) : pieces[k][i] # SEPARATOR

\* Where the text of k pieces ends, and the next piece is to begin.
Cut(f, k) == IF k = 0 THEN 0 ELSE Len(f[k]) + 1

\* The text of the first j pieces goes on with a separator in that of k.
GoesOn(f, j, k) ==
  /\ \A i \in 1 .. Len(f[j]) : f[k][i] = f[j][i]
  /\ f[k][Cut(f, j)] = SEPARATOR

\* The text of the first k pieces, and of one more.
LEMMA PieceAdded ==
  ASSUME NEW parts, NEW pieces, Joins(parts, pieces), NEW f \in Sums(Nat, parts),
         NEW k \in 1 .. Len(pieces)
  PROVE  /\ f[k] \in Seq(Nat) /\ Len(f[k]) \in Nat /\ Len(pieces[k]) \in Nat
         /\ Cut(f, k - 1) \in Nat /\ Cut(f, k) \in Nat
         /\ Cut(f, k) = Cut(f, k - 1) + Len(pieces[k]) + 1
         /\ k > 1 => GoesOn(f, k - 1, k)
         /\ \A i \in 1 .. Len(pieces[k]) : f[k][Cut(f, k - 1) + i] = pieces[k][i]
<1> DEFINE n == Len(pieces)
<1>1. /\ n \in Nat /\ n >= 1 /\ 1 \in 1 .. n /\ Len(parts) = n
      /\ \A j \in 1 .. n : pieces[j] \in Seq(Nat)
  BY DEF Joins
<1>2. f \in [1 .. n -> Seq(Nat)] /\ f[1] = parts[1]
      /\ \A j \in 1 .. n : j > 1 => f[j] = f[j - 1] \o parts[j]
  BY <1>1, Zenon DEF Sums
<1>3. f[k] \in Seq(Nat) /\ Len(f[k]) \in Nat /\ pieces[k] \in Seq(Nat) /\ Len(pieces[k]) \in Nat
  BY <1>1, <1>2, SMTT(30)
<1>4. CASE k = 1
  <2>1. f[k] = pieces[k] /\ k - 1 = 0 /\ ~ (k > 1)
    BY <1>1, <1>2, <1>4 DEF Joins
  <2>2. Cut(f, k - 1) = 0 /\ Cut(f, k) = Len(f[k]) + 1
    BY <1>4, <2>1 DEF Cut
  <2>3. \A i \in 1 .. Len(pieces[k]) : 0 + i = i
    BY <1>3
  <2> QED BY <1>3, <2>1, <2>2, <2>3
<1>5. CASE k # 1
  <2> DEFINE text == f[k - 1]
             longer == f[k]
             piece == pieces[k]
  <2>1. k \in Nat /\ k > 1 /\ k - 1 \in 1 .. n /\ k # 0 /\ k - 1 # 0
    BY <1>1, <1>5
  <2>2. text \in Seq(Nat)
    BY <1>2, <2>1
  <2>3. piece \in Seq(Nat)
    BY <1>3
  <2>4. longer = Longer(text, piece)
    <3>1. parts[k] = <<SEPARATOR>> \o pieces[k]
      BY <1>1, <2>1, Zenon DEF Joins
    <3> QED BY <1>2, <2>1, <3>1, Zenon DEF Longer
  <2>6. Cut(f, k - 1) = Len(text) + 1 /\ Cut(f, k) = Len(longer) + 1
    BY <2>1, Zenon DEF Cut
  <2> HIDE DEF text, longer, piece
  <2>5. /\ longer \in Seq(Nat) /\ Len(longer) = Len(text) + 1 + Len(piece)
        /\ \A i \in 1 .. Len(text) : longer[i] = text[i]
        /\ longer[Len(text) + 1] = SEPARATOR
        /\ \A i \in 1 .. Len(piece) : longer[Len(text) + 1 + i] = piece[i]
    <3>1. \A l : l = Longer(text, piece) =>
            /\ l \in Seq(Nat) /\ Len(l) = Len(text) + 1 + Len(piece)
            /\ \A i \in 1 .. Len(text) : l[i] = text[i]
            /\ l[Len(text) + 1] = SEPARATOR
            /\ \A i \in 1 .. Len(piece) : l[Len(text) + 1 + i] = piece[i]
      BY <2>2, <2>3, OnePieceMore
    <3> QED BY <2>4, <3>1, Zenon
  <2>7. /\ \A i \in 1 .. Len(text) : longer[i] = text[i]
        /\ longer[Cut(f, k - 1)] = SEPARATOR
        /\ \A i \in 1 .. Len(piece) : longer[Cut(f, k - 1) + i] = piece[i]
    BY <2>5, <2>6, Zenon
  <2>8. Len(text) \in Nat /\ Len(longer) \in Nat /\ Len(piece) \in Nat
        /\ Len(longer) = Len(text) + 1 + Len(piece)
    BY <2>2, <2>3, <2>5
  <2>9. /\ Cut(f, k - 1) \in Nat /\ Cut(f, k) \in Nat
        /\ Cut(f, k) = Cut(f, k - 1) + Len(piece) + 1
    BY ONLY <2>6, <2>8
  <2>10. GoesOn(f, k - 1, k)
    BY <2>7, Zenon DEF GoesOn, text, longer
  <2>11. \A i \in 1 .. Len(pieces[k]) : f[k][Cut(f, k - 1) + i] = pieces[k][i]
    BY <2>7, Zenon DEF longer, piece
  <2> QED BY <1>3, <2>9, <2>10, <2>11 DEF piece
<1> QED BY <1>4, <1>5

\* The pieces lie in the text of all of them, with separators between.
Lie(pieces, text, cuts) ==
  LET n == Len(pieces) IN
  /\ n \in Nat /\ n >= 1 /\ text \in Seq(Nat)
  /\ cuts \in [0 .. n -> Nat] /\ Rises(cuts, n) /\ cuts[0] = 0 /\ cuts[n] = Len(text) + 1
  /\ \A k \in 1 .. n : cuts[k] = cuts[k - 1] + Len(pieces[k]) + 1
  /\ \A k \in 1 .. n : k < n => text[cuts[k]] = SEPARATOR
  /\ \A k \in 1 .. n : \A i \in 1 .. Len(pieces[k]) : text[cuts[k - 1] + i] = pieces[k][i]

LEMMA PiecesInText ==
  ASSUME NEW parts, NEW pieces, Joins(parts, pieces), NEW f \in Sums(Nat, parts)
  PROVE  Lie(pieces, f[Len(pieces)], [k \in 0 .. Len(pieces) |-> Cut(f, k)])
<1> DEFINE n == Len(pieces)
           text == f[n]
           cuts == [k \in 0 .. n |-> Cut(f, k)]
           Longest(m) == \A k \in 1 .. m : \A i \in 1 .. Len(f[k]) : f[m][i] = f[k][i]
           S == {m \in 1 .. n : Longest(m)}
<1>1. /\ n \in Nat /\ n >= 1 /\ Len(parts) = n
      /\ \A k \in 1 .. n : pieces[k] \in Seq(Nat) /\ Len(pieces[k]) \in Nat
  BY DEF Joins
<1>2. \A k \in 1 .. n : f[k] \in Seq(Nat) /\ Len(f[k]) \in Nat /\ Cut(f, k) = Len(f[k]) + 1
  <2>1. \A k \in 1 .. n : f[k] \in Seq(Nat) /\ Len(f[k]) \in Nat /\ k # 0
    BY <1>1, PieceAdded
  <2> QED BY <2>1, Zenon DEF Cut
<1>3. Cut(f, 0) = 0
  BY DEF Cut
<1>4. \A k \in 1 .. n : Cut(f, k) = Cut(f, k - 1) + Len(pieces[k]) + 1
  BY PieceAdded
<1>14. ASSUME NEW k \in 1 .. n, NEW next \in 1 .. n, next = k + 1
       PROVE  GoesOn(f, k, next)
  <2>1. next > 1 /\ next - 1 = k
    BY <1>1, <1>14
  <2>2. GoesOn(f, next - 1, next)
    BY <2>1, PieceAdded
  <2> QED BY <2>1, <2>2, Zenon
<1>5. cuts \in [0 .. n -> Nat] /\ cuts[0] = 0 /\ cuts[n] = Len(text) + 1
  <2>1. \A k \in 0 .. n : k = 0 \/ k \in 1 .. n
    BY <1>1
  <2>2. \A k \in 1 .. n : Cut(f, k) \in Nat
    BY PieceAdded
  <2>3. \A k \in 0 .. n : Cut(f, k) \in Nat
    BY <1>3, <2>1, <2>2
  <2>4. 0 \in 0 .. n /\ n \in 0 .. n /\ n \in 1 .. n
    BY <1>1
  <2> QED BY <1>2, <1>3, <2>3, <2>4
<1>6. \A k \in 1 .. n : cuts[k] = Cut(f, k) /\ cuts[k - 1] = Cut(f, k - 1)
  <2>1. \A k \in 1 .. n : k \in 0 .. n /\ k - 1 \in 0 .. n
    BY <1>1
  <2> QED BY <2>1
<1> HIDE DEF cuts
<1>7. \A k \in 1 .. n : cuts[k] = cuts[k - 1] + Len(pieces[k]) + 1
  BY <1>4, <1>6
<1>8. Rises(cuts, n)
  <2>1. \A k \in 1 .. n : cuts[k - 1] < cuts[k]
    <3> SUFFICES ASSUME NEW k \in 1 .. n
                 PROVE  cuts[k - 1] < cuts[k]
      OBVIOUS
    <3>1. k - 1 \in 0 .. n
      BY <1>1
    <3>2. cuts[k - 1] \in Nat /\ Len(pieces[k]) \in Nat /\ cuts[k] = cuts[k - 1] + Len(pieces[k]) + 1
      BY <1>1, <1>5, <1>7, <3>1
    <3> QED BY ONLY <3>2
  <2> QED BY <1>1, <1>5, <2>1, StepwiseRises
<1>9. \A m \in 1 .. n : Longest(m)
  <2>1. 1 \in S
    BY <1>1
  <2>2. ASSUME NEW m \in 1 .. n, m \in S, m < n
        PROVE  m + 1 \in S
    <3>1. m + 1 \in 1 .. n /\ m + 1 > 1 /\ (m + 1) - 1 = m
      BY <1>1, <2>2
    <3>2. \A i \in 1 .. Len(f[m]) : f[m + 1][i] = f[m][i]
      BY <1>14, <3>1, Zenon DEF GoesOn
    <3>3. ASSUME NEW k \in 1 .. m + 1, NEW i \in 1 .. Len(f[k])
          PROVE  f[m + 1][i] = f[k][i]
      <4>1. CASE k = m + 1
        BY <4>1
      <4>2. CASE k # m + 1
        <5>1. k \in 1 .. m /\ k \in 1 .. n /\ k \in 0 .. n /\ m \in 0 .. n /\ (k < m \/ k = m)
          BY <1>1, <2>2, <4>2
        <5>2. f[m][i] = f[k][i]
          BY <2>2, <5>1
        <5>3. k < m => cuts[k] < cuts[m]
          BY <1>8, <5>1, Zenon DEF Rises
        <5>4. cuts[k] = Len(f[k]) + 1 /\ cuts[m] = Len(f[m]) + 1 /\ Len(f[k]) \in Nat /\ Len(f[m]) \in Nat
          BY <1>2, <1>6, <5>1
        <5>5. Len(f[k]) <= Len(f[m])
          BY <5>1, <5>3, <5>4
        <5>6. i \in 1 .. Len(f[m])
          BY <5>4, <5>5
        <5> QED BY <3>2, <5>2, <5>6
      <4> QED BY <4>1, <4>2
    <3> QED BY <3>1, <3>3
  <2> HIDE DEF S
  <2>3. \A m \in 1 .. n : m \in S /\ m < n => m + 1 \in S
    BY <2>2
  <2> HIDE DEF n
  <2>4. \A m \in 1 .. n : m \in S
    BY <1>1, <2>1, <2>3, UpTo
  <2> QED BY <2>4 DEF S
<1>10. \A k \in 1 .. n : \A i \in 1 .. Len(f[k]) : text[i] = f[k][i]
  <2>1. n \in 1 .. n
    BY <1>1
  <2> QED BY <1>9, <2>1
<1>11. \A k \in 1 .. n : k < n => text[cuts[k]] = SEPARATOR
  <2> SUFFICES ASSUME NEW k \in 1 .. n, k < n
               PROVE  text[cuts[k]] = SEPARATOR
    OBVIOUS
  <2>1. k + 1 \in 1 .. n /\ k + 1 > 1 /\ (k + 1) - 1 = k
    BY <1>1
  <2>2. f[k + 1][Cut(f, k)] = SEPARATOR
    BY <1>14, <2>1, Zenon DEF GoesOn
  <2>3. cuts[k + 1] = cuts[k] + Len(pieces[k + 1]) + 1 /\ cuts[k + 1] = Len(f[k + 1]) + 1
        /\ Len(pieces[k + 1]) \in Nat /\ cuts[k] = Len(f[k]) + 1 /\ Len(f[k]) \in Nat
        /\ Len(f[k + 1]) \in Nat
    <3> HIDE DEF n
    <3>1. /\ cuts[k + 1] = cuts[(k + 1) - 1] + Len(pieces[k + 1]) + 1
          /\ cuts[k + 1] = Len(f[k + 1]) + 1 /\ cuts[k] = Len(f[k]) + 1
          /\ Len(pieces[k + 1]) \in Nat /\ Len(f[k]) \in Nat /\ Len(f[k + 1]) \in Nat
      BY <1>1, <1>2, <1>6, <1>7, <2>1, Zenon
    <3> QED BY <2>1, <3>1, Zenon
  <2> DEFINE long == Len(f[k + 1])
             size == Len(pieces[k + 1])
             here == cuts[k]
             len == Len(f[k])
  <2>5. long + 1 = here + size + 1 /\ here = len + 1 /\ size \in Nat /\ len \in Nat /\ long \in Nat
    BY <2>3, Zenon
  <2> HIDE DEF long, size, here, len
  <2>6. here \in 1 .. long
    BY ONLY <2>5
  <2>4. cuts[k] \in 1 .. Len(f[k + 1])
    BY <2>6 DEF here, long
  <2> QED BY <1>6, <1>10, <2>1, <2>2, <2>4
<1>12. \A k \in 1 .. n : \A i \in 1 .. Len(pieces[k]) : text[cuts[k - 1] + i] = pieces[k][i]
  <2> SUFFICES ASSUME NEW k \in 1 .. n, NEW i \in 1 .. Len(pieces[k])
               PROVE  text[cuts[k - 1] + i] = pieces[k][i]
    OBVIOUS
  <2>1. f[k][cuts[k - 1] + i] = pieces[k][i]
    BY <1>6, PieceAdded, SMTT(30)
  <2>2. k - 1 \in 0 .. n
    BY <1>1
  <2>3. cuts[k] = cuts[k - 1] + Len(pieces[k]) + 1 /\ cuts[k] = Len(f[k]) + 1 /\ cuts[k - 1] \in Nat
        /\ Len(pieces[k]) \in Nat /\ Len(f[k]) \in Nat
    BY <1>1, <1>2, <1>5, <1>6, <1>7, <2>2
  <2>4. cuts[k - 1] + i \in 1 .. Len(f[k])
    BY ONLY <2>3, i \in 1 .. Len(pieces[k]), SMTT(30)
  <2> QED BY <1>10, <2>1, <2>4
<1>13. text \in Seq(Nat)
  BY <1>1, <1>2
<1>15. Lie(pieces, text, cuts)
  BY <1>1, <1>5, <1>7, <1>8, <1>11, <1>12, <1>13 DEF Lie
<1> QED BY <1>15 DEF cuts

\* Splitting undoes joining: the pieces, none of which contains a separator, are
\* found again in the text of all of them (String.split in decodePayload).
LEMMA SplitUndoesJoin ==
  ASSUME NEW parts, NEW pieces, Joins(parts, pieces)
  PROVE  FlattenSeq(parts) \in Seq(Nat) /\ Split(FlattenSeq(parts)) = pieces
<1> DEFINE n == Len(pieces)
<1>1. parts \in Seq(Seq(Nat)) /\ pieces \in Seq(Seq(Nat)) /\ Len(parts) = n /\ n # 0
  BY DEF Joins
<1>2. PICK f \in Sums(Nat, parts) : FlattenSeq(parts) = f[n]
  BY <1>1, Flattened
<1> DEFINE text == f[n]
           size == Len(text)
           cuts == [k \in 0 .. n |-> Cut(f, k)]
<1>3. /\ n \in Nat /\ n >= 1 /\ text \in Seq(Nat)
      /\ cuts \in [0 .. n -> Nat] /\ Rises(cuts, n) /\ cuts[0] = 0 /\ cuts[n] = size + 1
      /\ \A k \in 1 .. n : cuts[k] = cuts[k - 1] + Len(pieces[k]) + 1
      /\ \A k \in 1 .. n : k < n => text[cuts[k]] = SEPARATOR
      /\ \A k \in 1 .. n : \A i \in 1 .. Len(pieces[k]) : text[cuts[k - 1] + i] = pieces[k][i]
  <2>1. Lie(pieces, text, cuts)
    BY PiecesInText
  <2> QED BY <2>1 DEF Lie
<1> HIDE DEF cuts, text
<1>4. size \in Nat /\ DOMAIN text = 1 .. size /\ \A i \in 1 .. size : text[i] \in Nat
  BY <1>3
<1> HIDE DEF size
<1>5. \A k \in 1 .. n : /\ k \in 0 .. n /\ k - 1 \in 0 .. n
                        /\ pieces[k] \in Seq(Nat) /\ Len(pieces[k]) \in Nat
                        /\ \A i \in 1 .. Len(pieces[k]) : pieces[k][i] \in Nat
                        /\ \A i \in 1 .. Len(pieces[k]) : pieces[k][i] # SEPARATOR
  BY <1>1, <1>3, SMTT(30) DEF Joins
<1> HIDE DEF n
<1> DEFINE marks == {i \in 1 .. size : text[i] = SEPARATOR}
           C == marks \cup {0, size + 1}
\* The cuts of the pieces are among the separators and the two ends.
<1>6. ASSUME NEW k \in 0 .. n
      PROVE  cuts[k] \in C
  <2>1. CASE k = 0 \/ k = n
    BY <1>3, <2>1
  <2>2. CASE k # 0 /\ k # n
    <3>1. k \in 1 .. n /\ k < n /\ 0 < k /\ 0 \in 0 .. n /\ n \in 0 .. n
      BY <1>3, <2>2
    <3>2. cuts[0] < cuts[k] /\ cuts[k] < cuts[n] /\ cuts[k] \in Nat
      BY <1>3, <3>1 DEF Rises
    <3>3. cuts[k] \in 1 .. size
      BY <1>3, <1>4, <3>2
    <3> QED BY <1>3, <3>1, <3>3
  <2> QED BY <2>1, <2>2
\* No other place is a separator.
<1>7. ASSUME NEW x \in C
      PROVE  \E k \in 0 .. n : cuts[k] = x
  <2>1. CASE x = 0 \/ x = size + 1
    <3>1. 0 \in 0 .. n /\ n \in 0 .. n
      BY <1>3
    <3> QED BY <1>3, <2>1, <3>1
  <2>2. CASE x \in marks
    <3> DEFINE T == {k \in 1 .. n : x < cuts[k]}
    <3>1. x \in Nat /\ x >= 1 /\ x <= size /\ text[x] = SEPARATOR
      BY <1>4, <2>2
    <3>2. n \in T
      <4>1. x < size + 1
        BY ONLY <1>4, <3>1
      <4> QED BY <1>3, <4>1
    <3>3. T \in SUBSET Nat /\ T # {}
      BY <3>2
    <3>4. PICK k \in T : \A y \in T : k <= y
      BY <3>3, LeastNumber
    <3>5. k \in 1 .. n /\ x < cuts[k]
      BY <3>4
    <3>6. cuts[k - 1] \in Nat /\ Len(pieces[k]) \in Nat /\ cuts[k] = cuts[k - 1] + Len(pieces[k]) + 1
      BY <1>3, <1>5, <3>5
    <3>7. cuts[k - 1] <= x
      <4>1. CASE k = 1
        <5>1. cuts[k - 1] = 0
          BY <1>3, <4>1
        <5> QED BY <3>1, <5>1
      <4>2. CASE k # 1
        <5>1. k - 1 \in 1 .. n /\ ~ (k <= k - 1)
          BY <1>3, <3>5, <4>2
        <5>2. ~ (x < cuts[k - 1])
          BY <3>4, <5>1
        <5> QED BY ONLY <3>1, <3>6, <5>2
      <4> QED BY <4>1, <4>2
    <3>8. CASE cuts[k - 1] = x
      BY <1>5, <3>5, <3>8
    <3>9. CASE cuts[k - 1] # x
      <4> DEFINE before == cuts[k - 1]
                 len == Len(pieces[k])
                 i == x - before
      <4>1. before \in Nat /\ len \in Nat /\ before <= x /\ before # x /\ x < before + len + 1 /\ x \in Nat
        BY <3>1, <3>5, <3>6, <3>7, <3>9
      <4> HIDE DEF before, len
      <4>2. i \in 1 .. len /\ before + i = x
        BY ONLY <4>1
      <4> HIDE DEF i
      <4>3. text[x] = pieces[k][i]
        BY <1>3, <3>5, <4>2 DEF before, len
      <4>4. pieces[k][i] # SEPARATOR
        BY <1>5, <3>5, <4>2 DEF len
      <4> QED BY <3>1, <4>3, <4>4
    <3> QED BY <3>8, <3>9
  <2> QED BY <2>1, <2>2
<1>8. C \in SUBSET Nat /\ cuts \in [0 .. n -> C]
  BY <1>3, <1>4, <1>6
<1> DEFINE Ordered(g) == \A j, k \in 0 .. n : j < k => g[j] < g[k]
           cut == InOrder(C)
<1>9. Cardinality(C) = n + 1 /\ \A g \in [0 .. n -> C] : Rises(g, n) => g = cuts
  <2> HIDE DEF C
  <2>1. \A x \in C : \E k \in 0 .. n : cuts[k] = x
    BY <1>7
  <2>2. n \in Nat /\ Rises(cuts, n)
    BY <1>3
  <2>3. ASSUME NEW g \in [0 .. n -> C], Rises(g, n)
        PROVE  g = cuts /\ Cardinality(C) = n + 1
    BY ONLY <1>8, <2>1, <2>2, <2>3, OneOrder
  <2>4. Cardinality(C) = n + 1
    BY ONLY <1>8, <2>2, <2>3
  <2> QED BY <2>3, <2>4
<1>10. cut = cuts
  <2> HIDE DEF C
  <2>1. Cardinality(C) - 1 = n
    BY <1>3, <1>9
  <2>2. cut = CHOOSE g \in [0 .. n -> C] : Ordered(g)
    BY <2>1 DEF InOrder
  <2>3. Ordered(cuts)
    BY <1>3 DEF Rises
  <2>4. \A g \in [0 .. n -> C] : Ordered(g) => g = cuts
    BY <1>9 DEF Rises
  <2> HIDE DEF Ordered, cut
  <2> QED BY <1>8, <2>2, <2>3, <2>4
<1>11. Split(text) = [k \in 1 .. n |-> SubSeq(text, cut[k - 1] + 1, cut[k] - 1)]
  <2> DEFINE M == {i \in DOMAIN text : text[i] = SEPARATOR} \cup {0, Len(text) + 1}
  <2>1. M = C
    BY <1>4 DEF size
  <2>2. Cardinality(C) - 1 = n
    BY <1>3, <1>9
  <2>3. Split(text) = [k \in 1 .. Cardinality(M) - 1 |->
                         SubSeq(text, InOrder(M)[k - 1] + 1, InOrder(M)[k] - 1)]
    BY Zenon DEF Split
  <2> HIDE DEF C, M
  <2> QED BY <2>1, <2>2, <2>3, Zenon
<1>12. ASSUME NEW k \in 1 .. n
       PROVE  SubSeq(text, cuts[k - 1] + 1, cuts[k] - 1) = pieces[k]
  <2> DEFINE a == cuts[k - 1]
             b == cuts[k]
             len == Len(pieces[k])
             sub == SubSeq(text, a + 1, b - 1)
  <2>1. a \in Nat /\ b \in Nat /\ len \in Nat /\ b = a + len + 1
    BY <1>3, <1>5
  <2>2. b <= size + 1
    <3>1. k < n \/ k = n
      BY <1>3
    <3>2. k \in 0 .. n /\ n \in 0 .. n
      BY <1>3
    <3>3. CASE k < n
      <4>1. b < size + 1
        BY <1>3, <3>2, <3>3 DEF Rises
      <4> HIDE DEF b
      <4> QED BY <1>4, <2>1, <4>1
    <3>4. CASE k = n
      <4>1. b = size + 1
        BY <1>3, <3>4
      <4> HIDE DEF b
      <4> QED BY <1>4, <4>1
    <3> QED BY <3>1, <3>3, <3>4
  <2>6. \A i \in 1 .. len : text[a + i] = pieces[k][i]
    BY <1>3
  <2> HIDE DEF a, b, len
  <2>3. \A i \in a + 1 .. b - 1 : text[i] \in Nat
    <3>1. \A i \in a + 1 .. b - 1 : i \in 1 .. size
      BY ONLY <1>4, <2>1, <2>2
    <3> QED BY <1>4, <3>1
  <2>4. /\ sub \in Seq(Nat)
        /\ Len(sub) = IF a + 1 <= b - 1 THEN b - 1 - (a + 1) + 1 ELSE 0
        /\ \A i \in 1 .. b - 1 - (a + 1) + 1 : sub[i] = text[a + 1 + i - 1]
    <3>1. a + 1 \in Int /\ b - 1 \in Int
      BY <2>1
    <3> QED BY <2>3, <3>1, SubSeqProperties
  <2> HIDE DEF sub
  <2>5. Len(sub) = len
    BY ONLY <2>1, <2>4
  <2>7. \A i \in 1 .. len : sub[i] = pieces[k][i]
    <3> SUFFICES ASSUME NEW i \in 1 .. len
                 PROVE  sub[i] = pieces[k][i]
      OBVIOUS
    <3>1. i \in 1 .. b - 1 - (a + 1) + 1 /\ a + 1 + i - 1 = a + i
      BY ONLY <2>1, i \in 1 .. len
    <3> QED BY <2>4, <2>6, <3>1
  <2>8. pieces[k] \in Seq(Nat) /\ Len(pieces[k]) = len
    BY <1>5 DEF len
  <2>9. sub = pieces[k]
    BY <2>4, <2>5, <2>7, <2>8, SeqEqual
  <2> QED BY <2>9 DEF sub, a, b
<1>13. pieces = [k \in 1 .. n |-> pieces[k]]
  BY <1>1 DEF n
<1>14. Split(text) = pieces
  BY <1>10, <1>11, <1>12, <1>13, Zenon
<1> QED BY <1>2, <1>3, <1>14 DEF text

-----------------------------------------------------------------------------
(* Payloads *)

\* What may stand in a payload: text without a separator, and for anything
\* that cannot be decoded, the error packet.
Payable(packet) ==
  \/ /\ Sendable(packet)
     /\ ~packet.data.binary =>
          \A i \in 1 .. Len(packet.data.body) : packet.data.body[i] # SEPARATOR
  \/ packet = ErrorPacket

\* The error packet is written as something that is read as the error packet.
LEMMA ErrorBack ==
  ASSUME NEW supportsBinary \in BOOLEAN
  PROVE  /\ EncodePacket(ErrorPacket, supportsBinary) = Text(<<117>>)
         /\ DecodePacket(Text(<<117>>)) = ErrorPacket /\ DecodePacket(Text(<<>>)) = ErrorPacket
<1>1. ErrorPacket.data.binary = FALSE /\ ErrorPacket.type = "error" /\ ErrorPacket.data.body = <<>>
  BY DEF ErrorPacket, Text
<1>2. <<117>> \o <<>> = <<117>>
  OBVIOUS
<1>3. EncodePacket(ErrorPacket, supportsBinary) = Text(<<117>>)
  BY <1>1, <1>2, Zenon DEF EncodePacket, TypeCode
<1>4. <<117>> # <<>> /\ Head(<<117>>) = 117 /\ 117 # BASE64
  BY DEF BASE64
<1>5. 117 \notin DOMAIN PACKET_TYPES_REVERSE
  BY DEF PACKET_TYPES_REVERSE
<1>6. DecodePacket(Text(<<117>>)) = ErrorPacket
  BY <1>4, <1>5, Zenon DEF DecodePacket, Text
<1>7. DecodePacket(Text(<<>>)) = ErrorPacket
  BY Zenon DEF DecodePacket, Text
<1> QED BY <1>3, <1>6, <1>7

\* A packet of a payload is read back from its piece, which has no separator.
LEMMA PieceBack ==
  ASSUME NEW packet, Payable(packet)
  PROVE  LET piece == EncodePacket(packet, FALSE).body IN
         /\ packet \in Packet
         /\ piece \in Seq(Nat) /\ \A i \in 1 .. Len(piece) : piece[i] # SEPARATOR
         /\ DecodePacket(Text(piece)) = packet
<1> DEFINE piece == EncodePacket(packet, FALSE).body
<1>1. CASE packet = ErrorPacket
  <2>1. piece = <<117>>
    <3>1. EncodePacket(packet, FALSE) = Text(<<117>>)
      BY <1>1, ErrorBack
    <3>2. Text(<<117>>).body = <<117>>
      BY DEF Text
    <3> QED BY <3>1, <3>2
  <2>2. packet \in Packet
    BY <1>1 DEF ErrorPacket, Packet, PacketType, RawData, Text
  <2>3. 117 # SEPARATOR /\ 117 \in Nat
    BY DEF SEPARATOR
  <2>4. piece \in Seq(Nat) /\ \A i \in 1 .. Len(piece) : piece[i] # SEPARATOR
    <3> HIDE DEF piece
    <3> QED BY <2>1, <2>3
  <2> QED BY <1>1, <2>1, <2>2, <2>4, ErrorBack
<1>2. CASE Sendable(packet) /\ packet # ErrorPacket
  <2>1. /\ packet.data \in RawData /\ packet.data.body \in Seq(Nat) /\ packet.data.binary \in BOOLEAN
        /\ packet.type \in DOMAIN PACKET_TYPES /\ packet \in Packet
    BY <1>2 DEF Sendable, Packet, PacketType, RawData
  <2>2. \A i \in 1 .. Len(piece) : piece[i] # SEPARATOR
    BY <1>2, NoSeparatorInside DEF Payable
  <2>3. DecodePacket(EncodePacket(packet, FALSE)) = packet
    BY <1>2, PacketRoundTrip
  <2>4. EncodePacket(packet, FALSE) = Text(piece)
    BY Zenon DEF EncodePacket, Text
  <2>5. piece \in Seq(Nat)
    <3>1. CASE packet.data.binary
      <4>1. ToBase64(packet.data.body) \in Seq(Nat) /\ BASE64 \in Nat
        BY <2>1, Base64Back DEF BASE64
      <4>2. piece = <<BASE64>> \o ToBase64(packet.data.body)
        BY <3>1, Zenon DEF EncodePacket, Text
      <4> HIDE DEF piece
      <4> QED BY <4>1, <4>2, InFront
    <3>2. CASE ~packet.data.binary
      <4>1. PACKET_TYPES[packet.type] \in Nat /\ packet.type # "error"
        BY <1>2, <2>1, TypeByCode DEF Sendable
      <4>2. piece = <<PACKET_TYPES[packet.type]>> \o packet.data.body
        BY <3>2, <4>1, Zenon DEF EncodePacket, Text, TypeCode
      <4> HIDE DEF piece
      <4> QED BY <2>1, <4>1, <4>2, InFront
    <3> QED BY <3>1, <3>2
  <2> QED BY <2>1, <2>2, <2>3, <2>4, <2>5, Zenon
<1> QED BY <1>1, <1>2 DEF Payable

\* A body decodes to the packets its peer encoded, however many, up to the
\* first that is malformed (encodePayload, decodePayload).
THEOREM PayloadRoundTrip ==
  ASSUME NEW packets \in Seq(Packet), Len(packets) # 0,
         \A k \in 1 .. Len(packets) : Payable(packets[k])
  PROVE  /\ EncodePayload(packets) \in Seq(Nat)
         /\ DecodePayload(EncodePayload(packets)) = UpToError(packets)
<1> DEFINE n == Len(packets)
           piece(k) == EncodePacket(packets[k], FALSE).body
           pieces == [k \in 1 .. n |-> piece(k)]
           parts == [k \in 1 .. n |-> IF k = 1 THEN piece(k) ELSE <<SEPARATOR>> \o piece(k)]
<1>1. n \in Nat /\ n # 0 /\ DOMAIN packets = 1 .. n /\ packets = [k \in 1 .. n |-> packets[k]]
  OBVIOUS
<1>2. \A k \in 1 .. n : /\ piece(k) \in Seq(Nat)
                        /\ \A i \in 1 .. Len(piece(k)) : piece(k)[i] # SEPARATOR
                        /\ DecodePacket(Text(piece(k))) = packets[k]
  BY PieceBack
<1>3. EncodePayload(packets) = FlattenSeq(parts)
  BY <1>1, Zenon DEF EncodePayload
<1> HIDE DEF piece
<1>4. pieces \in Seq(Seq(Nat)) /\ Len(pieces) = n /\ DOMAIN pieces = 1 .. n
  BY <1>1, <1>2
<1>5. parts \in Seq(Seq(Nat)) /\ Len(parts) = n
  <2>1. \A k \in 1 .. n : <<SEPARATOR>> \o piece(k) \in Seq(Nat)
    <3>1. SEPARATOR \in Nat
      BY DEF SEPARATOR
    <3> QED BY <1>2, <3>1, InFront
  <2>2. \A k \in 1 .. n : (IF k = 1 THEN piece(k) ELSE <<SEPARATOR>> \o piece(k)) \in Seq(Nat)
    BY <1>2, <2>1, Zenon
  <2>3. parts \in [1 .. n -> Seq(Nat)]
    BY <2>2, Zenon
  <2> HIDE DEF parts
  <2> QED BY <1>1, <2>3
<1>6. parts[1] = pieces[1] /\ \A k \in 1 .. n : k > 1 => parts[k] = <<SEPARATOR>> \o pieces[k]
  <2>1. 1 \in 1 .. n /\ \A k \in 1 .. n : k > 1 => k # 1
    BY <1>1
  <2> QED BY <2>1, Zenon
<1>7. \A k \in 1 .. n : pieces[k] = piece(k)
  OBVIOUS
<1> HIDE DEF pieces, parts
<1>8. Joins(parts, pieces)
  <2>1. \A k \in 1 .. n : \A i \in 1 .. Len(pieces[k]) : pieces[k][i] # SEPARATOR
    BY <1>2, <1>7, Zenon
  <2> HIDE DEF n
  <2> QED BY <1>1, <1>4, <1>5, <1>6, <2>1, Zenon DEF Joins
<1>9. FlattenSeq(parts) \in Seq(Nat) /\ Split(FlattenSeq(parts)) = pieces
  BY <1>8, SplitUndoesJoin
<1>10. [k \in DOMAIN pieces |-> DecodePacket(Text(pieces[k]))] = packets
  BY <1>1, <1>2, <1>4, <1>7, Zenon
<1>11. DecodePayload(FlattenSeq(parts))
         = UpToError([k \in DOMAIN pieces |-> DecodePacket(Text(pieces[k]))])
  BY <1>9, Zenon DEF DecodePayload
<1> QED BY <1>3, <1>9, <1>10, <1>11, Zenon

ErrorsAt(packets) == {i \in 1 .. Len(packets) : packets[i].type = "error"}

LEMMA StopsAt ==
  ASSUME NEW packets
  PROVE  /\ ErrorsAt(packets) = {} => UpToError(packets) = packets
         /\ ErrorsAt(packets) # {} /\ Min(ErrorsAt(packets)) # 0 =>
              UpToError(packets) = SubSeq(packets, 1, Min(ErrorsAt(packets)))
BY Zenon DEF UpToError, SelectInSeq, ErrorsAt

\* Decoding stops early at most: what there is is what was meant.
LEMMA UpToErrorPrefix ==
  ASSUME NEW packets \in Seq(Packet)
  PROVE  /\ UpToError(packets) \in Seq(Packet) /\ Len(UpToError(packets)) <= Len(packets)
         /\ \A i \in 1 .. Len(UpToError(packets)) : UpToError(packets)[i] = packets[i]
<1> DEFINE stops == ErrorsAt(packets)
           u == UpToError(packets)
<1>1. Len(packets) \in Nat /\ \A i \in 1 .. Len(packets) : packets[i] \in Packet
  OBVIOUS
<1>2. CASE stops = {}
  BY <1>1, <1>2, StopsAt
<1>3. CASE stops # {}
  <2>1. stops \in SUBSET Nat /\ stops \in SUBSET (1 .. Len(packets))
    BY DEF ErrorsAt
  <2>2. PICK least \in stops : \A y \in stops : least <= y
    BY <1>3, <2>1, LeastNumber
  <2> DEFINE stop == Min(stops)
  <2>3. stop \in stops
    <3> HIDE DEF stops
    <3> QED BY <2>2 DEF Min
  <2>4. u = SubSeq(packets, 1, stop)
    <3>1. stop # 0
      <4> HIDE DEF stop, stops
      <4> QED BY <2>1, <2>3
    <3> QED BY <1>3, <3>1, StopsAt
  <2> HIDE DEF stop, stops
  <2>5. /\ SubSeq(packets, 1, stop) \in Seq(Packet) /\ Len(SubSeq(packets, 1, stop)) = stop
        /\ \A i \in 1 .. stop : SubSeq(packets, 1, stop)[i] = packets[i]
    BY <1>1, <2>1, <2>3
  <2>6. stop \in 1 .. Len(packets)
    BY <2>1, <2>3
  <2> HIDE DEF u
  <2>7. u \in Seq(Packet) /\ Len(u) <= Len(packets) /\ \A i \in 1 .. Len(u) : u[i] = packets[i]
    BY <1>1, <2>4, <2>5, <2>6
  <2> QED BY <2>7 DEF u
<1> QED BY <1>2, <1>3

\* A body without a packet is read as one that cannot be decoded.
LEMMA EmptyPayload ==
  ASSUME NEW packets, DOMAIN packets = {}, Len(packets) = 0
  PROVE  /\ EncodePayload(packets) = <<>>
         /\ DecodePayload(EncodePayload(packets)) = <<ErrorPacket>>
<1>1. EncodePayload(packets) = <<>>
  <2> DEFINE parts == [k \in {} |-> LET encoded == EncodePacket(packets[k], FALSE).body IN
                         IF k = 1 THEN encoded ELSE <<SEPARATOR>> \o encoded]
  <2>1. EncodePayload(packets) = FlattenSeq(parts)
    BY DEF EncodePayload
  <2>2. parts = <<>>
    OBVIOUS
  <2>3. FlattenSeq(<<>>) = <<>>
    BY DEF FlattenSeq
  <2> QED BY <2>1, <2>2, <2>3
<1> DEFINE none == << <<>> >>
<1>2. none \in Seq(Seq(Nat)) /\ Len(none) = 1 /\ none[1] = <<>> /\ DOMAIN none = 1 .. 1
  <2>1. <<>> \in Seq(Nat)
    OBVIOUS
  <2> QED BY <2>1
<1> HIDE DEF none
<1>3. Joins(none, none)
  BY <1>2 DEF Joins
<1>4. FlattenSeq(none) = <<>>
  <2>0. Len(none) # 0
    BY <1>2
  <2>1. PICK f \in Sums(Nat, none) : FlattenSeq(none) = f[Len(none)]
    BY <1>2, <2>0, Flattened
  <2> QED BY <1>2, <2>1, Zenon DEF Sums
<1>5. Split(<<>>) = none
  BY <1>3, <1>4, SplitUndoesJoin
<1> DEFINE decoded == [k \in DOMAIN none |-> DecodePacket(Text(none[k]))]
<1>6. DecodePayload(<<>>) = UpToError(decoded)
  BY <1>5, Zenon DEF DecodePayload
<1>7. decoded = [k \in 1 .. 1 |-> ErrorPacket]
  <2>1. \A k \in 1 .. 1 : DecodePacket(Text(none[k])) = ErrorPacket
    <3>1. \A k \in 1 .. 1 : k = 1
      OBVIOUS
    <3>2. DecodePacket(Text(<<>>)) = ErrorPacket
      BY ErrorBack
    <3> QED BY <1>2, <3>1, <3>2, Zenon
  <2> QED BY <1>2, <2>1, Zenon
<1>8. [k \in 1 .. 1 |-> ErrorPacket] = <<ErrorPacket>>
  OBVIOUS
<1>9. UpToError(<<ErrorPacket>>) = <<ErrorPacket>>
  <2> DEFINE one == <<ErrorPacket>>
  <2>1. Len(one) = 1 /\ one[1] = ErrorPacket /\ one[1].type = "error"
    BY DEF ErrorPacket
  <2>2. one \in Seq({ErrorPacket})
    OBVIOUS
  <2> HIDE DEF one
  <2>3. ErrorsAt(one) = {1}
    BY <2>1 DEF ErrorsAt
  <2>4. Min({1}) = 1
    BY DEF Min
  <2>5. UpToError(one) = SubSeq(one, 1, 1)
    BY <2>3, <2>4, StopsAt
  <2>6. SubSeq(one, 1, 1) = one
    BY <2>1, <2>2
  <2> QED BY <2>5, <2>6 DEF one
<1> QED BY <1>1, <1>6, <1>7, <1>8, <1>9
=============================================================================
