--------------------------- MODULE RconWireProofs ---------------------------
(***************************************************************************)
(* Packets on one connection, for any requests and responses, any limits,  *)
(* and wherever the two streams are cut.                                   *)
(***************************************************************************)
EXTENDS RconWire, Utf8TextProofs

-----------------------------------------------------------------------------
(* Tokens and packets *)

RequestIds == {request.id : request \in Requests}
PacketTypes == {request.type : request \in Requests} \cup {"value"}

Token ==
    Bytes \cup {NUL, SizePart} \cup {Size(n) : n \in Nat}
          \cup {IdAndType(id, type) : id \in RequestIds, type \in PacketTypes}

\* The kinds of token are told apart.
LEMMA TokensDistinct ==
    /\ \A b \in Bytes : b[1] \notin {"size", "head", "NUL"}
    /\ NUL[1] = "NUL" /\ NUL \notin Bytes
    /\ SizePart # NUL /\ SizePart[1] # "size"
    /\ \A n : Size(n)[1] = "size" /\ Size(n)[2] = n /\ Size(n) \notin Bytes /\ Size(n) # NUL
    /\ \A id, type : /\ IdAndType(id, type)[1] = "head"
                     /\ IdAndType(id, type)[2] = id /\ IdAndType(id, type)[3] = type
                     /\ IdAndType(id, type) \notin Bytes /\ IdAndType(id, type) # NUL
  <1>1. \A b \in Bytes : b[1] \notin {"size", "head", "NUL"}
    BY DEF Bytes, Byte
  <1>2. NUL[1] = "NUL"
    BY DEF NUL
  <1>3. \A n : Size(n)[1] = "size" /\ Size(n)[2] = n
    BY DEF Size
  <1>4. \A id, type : /\ IdAndType(id, type)[1] = "head"
                      /\ IdAndType(id, type)[2] = id /\ IdAndType(id, type)[3] = type
    BY DEF IdAndType
  <1>5. SizePart # NUL /\ SizePart[1] # "size"
    BY DEF SizePart, NUL
  <1> QED
    BY <1>1, <1>2, <1>3, <1>4, <1>5

\* What a packet is made of.
LEMMA PacketShape ==
    ASSUME NEW id \in RequestIds, NEW type \in PacketTypes, NEW payload \in Seq(Token)
    PROVE  LET packet == EncodePacket(id, type, payload)
               n == Len(payload)
           IN  /\ packet \in Seq(Token) /\ Len(packet) = n + 4
               /\ packet[1] = Size(n + 3) /\ packet[2] = IdAndType(id, type)
               /\ \A i \in 1..n : packet[i + 2] = payload[i]
               /\ packet[n + 3] = NUL /\ packet[n + 4] = NUL
  <1> DEFINE n == Len(payload)
             a == <<Size(n + 3), IdAndType(id, type)>>
             b == <<NUL, NUL>>
  <1>1. n \in Nat /\ n + 3 \in Nat
    OBVIOUS
  <1>2. /\ a \in Seq(Token) /\ Len(a) = 2 /\ a[1] = Size(n + 3) /\ a[2] = IdAndType(id, type)
    <2>1. Size(n + 3) \in Token /\ IdAndType(id, type) \in Token
      BY <1>1 DEF Token
    <2> QED
      BY <2>1
  <1>3. b \in Seq(Token) /\ Len(b) = 2 /\ b[1] = NUL /\ b[2] = NUL
    BY DEF Token
  <1>4. a \in Seq(Token) /\ b \in Seq(Token)
    BY <1>2, <1>3
  <1>5. EncodePacket(id, type, payload) = (a \o payload) \o b
    BY DEF EncodePacket, MinBody
  <1> DEFINE c == a \o payload
             packet == c \o b
  <1> HIDE DEF a, b
  <1>6. /\ c \in Seq(Token) /\ Len(c) = n + 2
        /\ c[1] = Size(n + 3) /\ c[2] = IdAndType(id, type)
        /\ \A i \in 1..n : c[i + 2] = payload[i]
    <2>1. /\ c \in Seq(Token) /\ Len(c) = Len(a) + Len(payload)
          /\ \A i \in 1..Len(a) : c[i] = a[i]
          /\ \A i \in 1..Len(payload) : c[Len(a) + i] = payload[i]
      BY <1>4, ConcatParts
    <2> HIDE DEF c, n
    <2>2. \A i \in 1..n : i + 2 = 2 + i
      BY <1>1
    <2> QED
      BY <1>1, <1>2, <2>1, <2>2 DEF n
  <1> HIDE DEF c, n
  <1>7. /\ packet \in Seq(Token) /\ Len(packet) = n + 4
        /\ \A i \in 1..(n + 2) : packet[i] = c[i]
        /\ packet[n + 3] = NUL /\ packet[n + 4] = NUL
    <2>4. c \in Seq(Token)
      BY <1>6
    <2>1. /\ packet \in Seq(Token) /\ Len(packet) = Len(c) + Len(b)
          /\ \A i \in 1..Len(c) : packet[i] = c[i]
          /\ \A i \in 1..Len(b) : packet[Len(c) + i] = b[i]
      BY <1>4, <2>4, ConcatParts
    <2> HIDE DEF packet
    <2>2. Len(c) + 1 = n + 3 /\ Len(c) + 2 = n + 4
      BY <1>1, <1>6
    <2>3. packet[Len(c) + 1] = b[1] /\ packet[Len(c) + 2] = b[2]
      BY <1>3, <2>1
    <2> QED
      BY <1>1, <1>3, <1>6, <2>1, <2>2, <2>3
  <1> HIDE DEF packet
  <1>8. \A i \in 1..n : packet[i + 2] = payload[i]
    BY <1>1, <1>6, <1>7
  <1>9. packet[1] = Size(n + 3) /\ packet[2] = IdAndType(id, type)
    BY <1>1, <1>6, <1>7
  <1>10. EncodePacket(id, type, payload) = packet
    BY <1>5 DEF packet, c
  <1> QED
    BY <1>7, <1>8, <1>9, <1>10 DEF n

\* What each token of a stream adds to the payloads.
Said(stream) == [i \in DOMAIN stream |-> IF IsByte(stream[i]) THEN <<stream[i]>> ELSE << >>]

\* The bytes of a stream of tokens, and their type.
LEMMA SaidType ==
    ASSUME NEW stream \in Seq(Token)
    PROVE  /\ Said(stream) \in Seq(Seq(Bytes)) /\ Len(Said(stream)) = Len(stream)
           /\ PayloadBytes(stream) = FlattenSeq(Said(stream))
           /\ PayloadBytes(stream) \in Seq(Bytes)
  <1>1. \A i \in 1..Len(stream) :
            (IF IsByte(stream[i]) THEN <<stream[i]>> ELSE << >>) \in Seq(Bytes)
    BY DEF IsByte
  <1>2. Said(stream) \in Seq(Seq(Bytes)) /\ Len(Said(stream)) = Len(stream)
    <2>1. Said(stream) \in [1..Len(stream) -> Seq(Bytes)]
      BY <1>1 DEF Said
    <2> QED
      BY <2>1
  <1>3. PayloadBytes(stream) = FlattenSeq(Said(stream))
    BY DEF PayloadBytes, Said
  <1> QED
    BY <1>2, <1>3, FlattenType

\* The payloads of two streams, one behind the other.
LEMMA PayloadConcat ==
    ASSUME NEW a \in Seq(Token), NEW b \in Seq(Token)
    PROVE  PayloadBytes(a \o b) = PayloadBytes(a) \o PayloadBytes(b)
  <1>1. /\ a \o b \in Seq(Token) /\ Len(a \o b) = Len(a) + Len(b)
        /\ \A i \in 1..Len(a) : (a \o b)[i] = a[i]
        /\ \A i \in 1..Len(b) : (a \o b)[Len(a) + i] = b[i]
    OBVIOUS
  <1>2. /\ Said(a) \in Seq(Seq(Bytes)) /\ Len(Said(a)) = Len(a)
        /\ Said(b) \in Seq(Seq(Bytes)) /\ Len(Said(b)) = Len(b)
        /\ Said(a \o b) \in Seq(Seq(Bytes)) /\ Len(Said(a \o b)) = Len(a) + Len(b)
    BY <1>1, SaidType
  <1>3. \A i \in 1..Len(a) : Said(a \o b)[i] = Said(a)[i]
    BY <1>1 DEF Said
  <1>4. \A i \in 1..Len(b) : Said(a \o b)[Len(a) + i] = Said(b)[i]
    BY <1>1 DEF Said
  <1>5. Said(a \o b) = Said(a) \o Said(b)
    <2> DEFINE x == Said(a \o b)
               y == Said(a)
               z == Said(b)
    <2>2. /\ x \in Seq(Seq(Bytes)) /\ y \in Seq(Seq(Bytes)) /\ z \in Seq(Seq(Bytes))
          /\ Len(x) = Len(y) + Len(z)
          /\ \A i \in 1..Len(y) : x[i] = y[i]
          /\ \A i \in 1..Len(z) : x[Len(y) + i] = z[i]
      BY <1>2, <1>3, <1>4
    <2> HIDE DEF x, y, z
    <2>1. x = y \o z
      BY <2>2, ConcatIs
    <2> QED
      BY <2>1 DEF x, y, z
  <1>6. FlattenSeq(Said(a) \o Said(b)) = FlattenSeq(Said(a)) \o FlattenSeq(Said(b))
    BY <1>2, FlattenConcat
  <1> QED
    BY <1>1, <1>5, <1>6, SaidType

\* The payload of bytes is these bytes; of tokens that are none, nothing.
LEMMA PayloadOfBytes ==
    ASSUME NEW bytes \in Seq(Bytes)
    PROVE  PayloadBytes(bytes) = bytes
  <1> DEFINE n == Len(bytes)
             joined == [k \in 0..n |-> SubSeq(bytes, 1, k)]
  <1>1. n \in Nat /\ bytes \in Seq(Token)
    BY DEF Token
  <1>2. \A i \in 1..n : Said(bytes)[i] = <<bytes[i]>>
    BY DEF Said, IsByte
  <1>3. /\ joined \in [0..n -> Seq(Bytes)] /\ joined[0] = << >> /\ joined[n] = bytes
        /\ \A k \in 0..n : joined[k] = SubSeq(bytes, 1, k)
    <2>1. \A k \in 0..n : SubSeq(bytes, 1, k) \in Seq(Bytes)
      BY <1>1
    <2>2. SubSeq(bytes, 1, 0) = << >> /\ SubSeq(bytes, 1, n) = bytes
      BY <1>1
    <2> QED
      BY <1>1, <2>1, <2>2
  <1> HIDE DEF joined
  <1>4. ASSUME NEW k \in Nat, k < n
        PROVE  joined[k + 1] = joined[k] \o Said(bytes)[k + 1]
    <2>1. k \in 0..n /\ k + 1 \in 0..n /\ k + 1 \in 1..n
      BY <1>1, <1>4
    <2>2. SubSeq(bytes, 1, k + 1) = SubSeq(bytes, 1, k) \o <<bytes[k + 1]>>
      BY <1>1, <2>1
    <2> QED
      BY <1>2, <1>3, <2>1, <2>2
  <1>5. Joins(joined, Said(bytes), n, Bytes)
    BY <1>3, <1>4, Zenon DEF Joins
  <1> QED
    BY <1>1, <1>3, <1>5, FlattenJoins, SaidType

\* There are no bytes in a stream without any.
LEMMA PayloadOfNone ==
    ASSUME NEW stream \in Seq(Token), \A i \in 1..Len(stream) : ~ IsByte(stream[i])
    PROVE  PayloadBytes(stream) = << >>
  <1>1. \A i \in 1..Len(stream) : Said(stream)[i] = << >>
    BY DEF Said
  <1> QED
    BY <1>1, SaidType, FlattenNothing

\* The payload of a packet is what was put into it.
LEMMA PayloadOfPacket ==
    ASSUME NEW id \in RequestIds, NEW type \in PacketTypes, NEW payload \in Seq(Bytes)
    PROVE  PayloadBytes(EncodePacket(id, type, payload)) = payload
  <1> DEFINE n == Len(payload)
             a == <<Size(n + 3), IdAndType(id, type)>>
             b == <<NUL, NUL>>
  <1>1. a \in Seq(Token) /\ Len(a) = 2 /\ \A i \in 1..2 : ~ IsByte(a[i])
    <2>1. Size(n + 3) \in Token /\ IdAndType(id, type) \in Token
      BY DEF Token
    <2>2. ~ IsByte(Size(n + 3)) /\ ~ IsByte(IdAndType(id, type))
      BY TokensDistinct DEF IsByte
    <2> QED
      BY <2>1, <2>2
  <1>2. b \in Seq(Token) /\ Len(b) = 2 /\ \A i \in 1..2 : ~ IsByte(b[i])
    <2>1. ~ IsByte(NUL)
      BY TokensDistinct DEF IsByte
    <2> QED
      BY <2>1 DEF Token
  <1>3. payload \in Seq(Token)
    BY DEF Token
  <1>4. EncodePacket(id, type, payload) = (a \o payload) \o b
    BY DEF EncodePacket, MinBody
  <1> HIDE DEF a, b
  <1>5. a \o payload \in Seq(Token)
    BY <1>1, <1>3
  <1>6. /\ PayloadBytes((a \o payload) \o b) = PayloadBytes(a \o payload) \o PayloadBytes(b)
        /\ PayloadBytes(a \o payload) = PayloadBytes(a) \o PayloadBytes(payload)
    BY <1>1, <1>2, <1>3, <1>5, PayloadConcat
  <1>7. PayloadBytes(a) = << >> /\ PayloadBytes(b) = << >> /\ PayloadBytes(payload) = payload
    BY <1>1, <1>2, PayloadOfNone, PayloadOfBytes
  <1>8. (<< >> \o payload) \o << >> = payload
    OBVIOUS
  <1> QED
    BY <1>4, <1>6, <1>7, <1>8, Zenon

\* The server decodes a packet to what was put into it.
LEMMA PacketDecodes ==
    ASSUME NEW id \in RequestIds, NEW type \in PacketTypes, NEW payload \in Seq(Bytes),
           NEW body \in Seq(Token), Len(body) = Len(payload) + 3,
           \A i \in 1..Len(body) : body[i] = EncodePacket(id, type, payload)[i + 1]
    PROVE  /\ Decodable(body)
           /\ Decoded(body) = [id |-> id, type |-> type, payload |-> payload]
  <1> DEFINE packet == EncodePacket(id, type, payload)
             n == Len(payload)
  <1>1. n \in Nat /\ payload \in Seq(Token)
    BY DEF Token
  <1>2. /\ packet \in Seq(Token) /\ Len(packet) = n + 4
        /\ packet[1] = Size(n + 3) /\ packet[2] = IdAndType(id, type)
        /\ \A i \in 1..n : packet[i + 2] = payload[i]
        /\ packet[n + 3] = NUL /\ packet[n + 4] = NUL
    BY <1>1, PacketShape
  <1> HIDE DEF packet
  <1>3. /\ body[1] = IdAndType(id, type)
        /\ body[n + 2] = NUL /\ body[n + 3] = NUL
    <2>1. body[1] = packet[1 + 1] /\ body[n + 2] = packet[(n + 2) + 1]
          /\ body[n + 3] = packet[(n + 3) + 1]
      BY <1>1 DEF packet
    <2> QED
      BY <1>1, <1>2, <2>1
  <1>4. \A i \in 2..(n + 1) : body[i] = payload[i - 1]
    <2> SUFFICES ASSUME NEW i \in 2..(n + 1) PROVE body[i] = payload[i - 1]
      OBVIOUS
    <2>1. body[i] = packet[i + 1] /\ i - 1 \in 1..n /\ (i - 1) + 2 = i + 1
      BY <1>1 DEF packet
    <2> QED
      BY <1>2, <2>1
  <1>5. Decodable(body)
    <2>1. \A i \in 2..(Len(body) - 2) : IsByte(body[i])
      BY <1>1, <1>4 DEF IsByte
    <2> QED
      BY <1>1, <1>3, <2>1 DEF Decodable, MinBody
  <1>6. SubSeq(body, 2, Len(body) - 2) = payload
    <2> DEFINE part == SubSeq(body, 2, n + 1)
    <2>1. /\ part \in Seq(Token) /\ Len(part) = n
          /\ \A i \in 1..n : part[i] = body[i + 1]
      BY <1>1
    <2>2. \A i \in 1..n : body[i + 1] = payload[i]
      <3> SUFFICES ASSUME NEW i \in 1..n PROVE body[i + 1] = payload[i]
        OBVIOUS
      <3>1. i + 1 \in 2..(n + 1) /\ (i + 1) - 1 = i
        BY <1>1
      <3> QED
        BY <1>4, <3>1
    <2>3. Len(body) - 2 = n + 1
      BY <1>1
    <2> HIDE DEF part
    <2>4. part = payload
      BY <1>1, <2>1, <2>2
    <2> QED
      BY <2>3, <2>4 DEF part
  <1>7. body[1][2] = id /\ body[1][3] = type
    BY <1>3, TokensDistinct
  <1> QED
    BY <1>5, <1>6, <1>7 DEF Decoded

-----------------------------------------------------------------------------
(* The stream to the client *)

\* A stream of whole packets for requests with these ids.
Framed(stream, ids) ==
    /\ stream # << >> => 1 \in Starts(stream)
    /\ \A i \in Starts(stream) :
        /\ i + stream[i][2] <= Len(stream)
        /\ i + stream[i][2] = Len(stream) \/ i + stream[i][2] + 1 \in Starts(stream)
        /\ stream[i][2] <= MaxChunk + MinBody
        /\ Decodable(Tail(PacketAt(stream, i)))
        /\ stream[i + 1][2] \in ids

TakenIds == {taken[k].id : k \in DOMAIN taken}

Reply == down \o out \o FlattenSeq(packets)

\* The property in terms of the places where packets start.
LEMMA ReplyFramed == ReplyStreamFramed <=> Framed(Reply, TakenIds)
  <1>1. \A x : x \in TakenIds <=> \E k \in DOMAIN taken : taken[k].id = x
    BY DEF TakenIds
  <1> QED
    BY <1>1, Zenon DEF ReplyStreamFramed, Framed, Reply

\* What starts a packet says its length.
LEMMA StartIsSize ==
    ASSUME NEW stream \in Seq(Token), NEW i \in Starts(stream)
    PROVE  i \in 1..Len(stream) /\ \E n \in Nat : stream[i] = Size(n) /\ stream[i][2] = n
  <1>1. i \in 1..Len(stream) /\ stream[i] \in Token /\ stream[i][1] = "size"
    BY DEF Starts
  <1>2. stream[i] \notin Bytes /\ stream[i] # NUL /\ stream[i] # SizePart
    BY <1>1, TokensDistinct
  <1>3. \A id \in RequestIds, type \in PacketTypes : stream[i] # IdAndType(id, type)
    BY <1>1, TokensDistinct
  <1>4. PICK n \in Nat : stream[i] = Size(n)
    BY <1>1, <1>2, <1>3 DEF Token
  <1> QED
    BY <1>1, <1>4, TokensDistinct

\* A stream of packets and one more.
LEMMA FramedMore ==
    ASSUME NEW stream \in Seq(Token), NEW ids \in SUBSET RequestIds, Framed(stream, ids),
           NEW id \in ids, NEW payload \in Seq(Bytes), Len(payload) <= MaxChunk
    PROVE  Framed(stream \o EncodePacket(id, "value", payload), ids)
  <1> DEFINE packet == EncodePacket(id, "value", payload)
             l == Len(stream)
             n == Len(payload)
             more == stream \o packet
  <1>1. /\ n \in Nat /\ l \in Nat /\ MaxChunk \in Nat
        /\ payload \in Seq(Token) /\ id \in RequestIds /\ "value" \in PacketTypes
    BY WireAssumption DEF Token, PacketTypes
  <1>2. /\ packet \in Seq(Token) /\ Len(packet) = n + 4
        /\ packet[1] = Size(n + 3) /\ packet[2] = IdAndType(id, "value")
        /\ \A i \in 1..n : packet[i + 2] = payload[i]
        /\ packet[n + 3] = NUL /\ packet[n + 4] = NUL
    BY <1>1, PacketShape
  <1> HIDE DEF packet
  <1>3. /\ more \in Seq(Token) /\ Len(more) = l + (n + 4)
        /\ \A i \in 1..l : more[i] = stream[i]
        /\ \A i \in 1..(n + 4) : more[l + i] = packet[i]
    <2>1. packet \in Seq(Token)
      BY <1>2
    <2>2. /\ more \in Seq(Token) /\ Len(more) = Len(stream) + Len(packet)
          /\ \A i \in 1..Len(stream) : more[i] = stream[i]
          /\ \A i \in 1..Len(packet) : more[Len(stream) + i] = packet[i]
      BY <2>1, ConcatParts
    <2> HIDE DEF more
    <2> QED
      BY <1>2, <2>2
  <1> HIDE DEF more
  <1>4. \A i \in 2..(n + 4) : packet[i][1] # "size"
    <2>1. \A i \in 1..n : packet[i + 2] \in Bytes
      BY <1>2
    <2>2. ASSUME NEW i \in 2..(n + 4) PROVE \/ i = 2 \/ i \in {n + 3, n + 4}
                                            \/ i - 2 \in 1..n /\ (i - 2) + 2 = i
      BY <1>1
    <2>3. packet[2][1] = "head" /\ packet[n + 3][1] = "NUL" /\ packet[n + 4][1] = "NUL"
      BY <1>2, TokensDistinct
    <2>4. \A i \in 1..n : packet[i + 2][1] # "size"
      BY <2>1, TokensDistinct
    <2> QED
      BY <2>2, <2>3, <2>4
  <1>5. Starts(more) = Starts(stream) \cup {l + 1}
    <2>1. \A i \in 1..l : i \in Starts(more) <=> i \in Starts(stream)
      BY <1>1, <1>3 DEF Starts
    <2>2. l + 1 \in Starts(more)
      <3>1. more[l + 1] = Size(n + 3) /\ l + 1 \in 1..Len(more)
        BY <1>1, <1>2, <1>3
      <3> QED
        BY <1>3, <3>1, TokensDistinct DEF Starts
    <2>3. ASSUME NEW i \in Starts(more), i \notin 1..l PROVE i = l + 1
      <3>1. i \in 1..(l + (n + 4)) /\ more[i][1] = "size"
        BY <1>3 DEF Starts
      <3>2. i - l \in 1..(n + 4) /\ l + (i - l) = i
        BY <1>1, <2>3, <3>1
      <3>3. more[i] = packet[i - l]
        BY <1>3, <3>2
      <3> QED
        BY <1>1, <1>4, <3>1, <3>2, <3>3
    <2>4. Starts(stream) \subseteq 1..l
      BY DEF Starts
    <2> QED
      BY <2>1, <2>2, <2>3, <2>4
  <1>6. ASSUME NEW i \in Starts(stream)
        PROVE  /\ i + more[i][2] <= Len(more)
               /\ i + more[i][2] = Len(more) \/ i + more[i][2] + 1 \in Starts(more)
               /\ more[i][2] <= MaxChunk + MinBody
               /\ Decodable(Tail(PacketAt(more, i)))
               /\ more[i + 1][2] \in ids
    <2>1. PICK z \in Nat : stream[i][2] = z
      BY StartIsSize
    <2>2. /\ i \in 1..l /\ more[i] = stream[i] /\ i + z <= l
          /\ i + z = l \/ i + z + 1 \in Starts(stream)
          /\ z <= MaxChunk + MinBody
          /\ Decodable(Tail(PacketAt(stream, i)))
          /\ stream[i + 1][2] \in ids
      BY <1>3, <2>1, StartIsSize DEF Framed
    <2>3. PacketAt(more, i) = PacketAt(stream, i)
      <3> DEFINE a == SubSeq(more, i, i + z)
                 b == SubSeq(stream, i, i + z)
      <3>1. /\ i \in Nat /\ i + z \in Nat /\ 1 <= i /\ i <= (i + z) + 1
            /\ i + z <= Len(stream) /\ i + z <= Len(more) /\ (i + z) - i = z
        BY <1>1, <1>3, <2>2
      <3>2. /\ a \in Seq(Token) /\ Len(a) = z + 1
            /\ \A j \in 1..(z + 1) : a[j] = more[(i + j) - 1]
        BY <1>3, <3>1, SubSeqParts
      <3>3. /\ b \in Seq(Token) /\ Len(b) = z + 1
            /\ \A j \in 1..(z + 1) : b[j] = stream[(i + j) - 1]
        BY <3>1, SubSeqParts
      <3> HIDE DEF a, b
      <3>4. ASSUME NEW j \in 1..(z + 1) PROVE a[j] = b[j]
        <4>1. (i + j) - 1 \in 1..l
          BY <1>1, <3>1
        <4> QED
          BY <1>3, <3>2, <3>3, <4>1
      <3>5. a = b
        BY <3>2, <3>3, <3>4
      <3> QED
        BY <2>1, <2>2, <3>5 DEF PacketAt, a, b
    <2>4. i + 1 \in 1..l
      <3> DEFINE p == SubSeq(stream, i, i + z)
      <3>1. Len(p) = z + 1 /\ p \in Seq(Token)
        BY <1>1, <2>1, <2>2
      <3>2. PacketAt(stream, i) = p
        BY <2>1 DEF PacketAt
      <3> HIDE DEF p
      <3>3. Len(Tail(p)) = z
        BY <3>1, <2>1
      <3>4. z >= 3
        BY <2>2, <3>2, <3>3 DEF Decodable, MinBody
      <3> QED
        BY <1>1, <2>1, <2>2, <3>4
    <2>5. more[i + 1] = stream[i + 1] /\ more[i][2] = z
      BY <1>3, <2>1, <2>2, <2>4
    <2>6. i + z <= Len(more)
      BY <1>1, <1>3, <2>2
    <2>7. i + z = Len(more) \/ i + z + 1 \in Starts(more)
      BY <1>5, <2>2
    <2> QED
      BY <2>2, <2>3, <2>5, <2>6, <2>7
  <1>7. /\ (l + 1) + more[l + 1][2] = Len(more)
        /\ more[l + 1][2] <= MaxChunk + MinBody
        /\ Decodable(Tail(PacketAt(more, l + 1)))
        /\ more[(l + 1) + 1][2] \in ids
    <2>1. more[l + 1] = Size(n + 3) /\ more[l + 2] = IdAndType(id, "value")
      BY <1>1, <1>2, <1>3
    <2>2. more[l + 1][2] = n + 3 /\ more[l + 2][2] = id
      BY <2>1, TokensDistinct
    <2>3. PacketAt(more, l + 1) = packet
      <3>1. (l + 1) + (n + 3) = l + (n + 4)
        BY <1>1
      <3> DEFINE p == SubSeq(more, l + 1, l + (n + 4))
      <3>2. p \in Seq(Token) /\ Len(p) = n + 4 /\ \A j \in 1..(n + 4) : p[j] = more[l + j]
        <4>1. /\ l + 1 \in Nat /\ l + (n + 4) \in Nat /\ 1 <= l + 1
              /\ l + 1 <= (l + (n + 4)) + 1
              /\ ((l + (n + 4)) - (l + 1)) + 1 = n + 4
          BY <1>1
        <4>2. /\ p \in Seq(Token) /\ Len(p) = n + 4
              /\ \A j \in 1..(n + 4) : p[j] = more[((l + 1) + j) - 1]
          <5>1. more \in Seq(Token) /\ l + (n + 4) <= Len(more)
            BY <1>1, <1>3
          <5> HIDE DEF l, n
          <5> QED
            BY <4>1, <5>1, SubSeqParts
        <4>3. \A j \in 1..(n + 4) : ((l + 1) + j) - 1 = l + j
          BY <1>1
        <4> QED
          BY <4>2, <4>3
      <3> HIDE DEF p
      <3>3. \A j \in 1..(n + 4) : p[j] = packet[j]
        BY <1>3, <3>2, Zenon
      <3>4. packet \in Seq(Token) /\ Len(packet) = n + 4
        BY <1>2
      <3>5. p \in Seq(Token) /\ Len(p) = n + 4
        BY <3>2
      <3>6. p = packet
        BY <3>3, <3>4, <3>5
      <3> QED
        BY <2>2, <3>1, <3>6 DEF PacketAt, p
    <2>4. Decodable(Tail(packet))
      <3>1. /\ Tail(packet) \in Seq(Token) /\ Len(Tail(packet)) = n + 3
            /\ \A i \in 1..(n + 3) : Tail(packet)[i] = packet[i + 1]
        BY <1>1, <1>2
      <3> QED
        BY <1>1, <3>1, PacketDecodes DEF packet
    <2>5. (l + 1) + 1 = l + 2
      BY <1>1
    <2> QED
      BY <1>1, <1>3, <2>2, <2>3, <2>4, <2>5 DEF MinBody
  <1>8. more # << >> => 1 \in Starts(more)
    <2>1. CASE l = 0
      BY <1>5, <2>1
    <2>2. CASE l # 0
      <3>1. stream # << >>
        BY <2>2
      <3> QED
        BY <1>5, <3>1 DEF Framed
    <2> QED
      BY <2>1, <2>2
  <1>9. (l + 1) + more[l + 1][2] <= Len(more)
    BY <1>1, <1>3, <1>7
  <1> QED
    BY <1>5, <1>6, <1>7, <1>8, <1>9 DEF Framed, more, packet

-----------------------------------------------------------------------------
(* The stream to the server *)

\* The length a request claims.
SizeOf(request) ==
    LET n == Len(request.payload)
    IN  CASE request.defect = "none" -> n + 3
          [] request.defect = "short" -> n + 2
          [] request.defect = "long" -> n + 4
          [] request.defect = "zero" -> 0
          [] request.defect = "nul" -> n + 4
          [] request.defect = "open" -> n + 1

\* What a request is made of, whatever is wrong with it.
LEMMA TokensShape ==
    ASSUME NEW request \in Requests
    PROVE  LET tokens == PacketTokens(request)
               n == Len(request.payload)
           IN  /\ tokens \in Seq(Token) /\ n \in Nat /\ SizeOf(request) \in Nat
               /\ Len(tokens) = IF request.defect = "nul" THEN n + 5 ELSE n + 4
               /\ tokens[1] = Size(SizeOf(request))
               /\ tokens[2] = IdAndType(request.id, request.type)
               /\ \A i \in 1..n : tokens[i + 2] = request.payload[i]
               /\ tokens[n + 3] = NUL /\ tokens[n + 4] = NUL
               /\ request.defect = "nul" => tokens[n + 5] = NUL
  <1> DEFINE tokens == PacketTokens(request)
             id == request.id
             type == request.type
             payload == request.payload
             n == Len(payload)
             packet == EncodePacket(id, type, payload)
  <1>1. /\ payload \in Seq(Bytes) /\ payload \in Seq(Token) /\ n \in Nat
        /\ id \in RequestIds /\ type \in PacketTypes
        /\ request.defect \in {"none", "short", "long", "zero", "nul", "open"}
    BY WireAssumption DEF Token, RequestIds, PacketTypes
  <1>2. /\ packet \in Seq(Token) /\ Len(packet) = n + 4
        /\ packet[1] = Size(n + 3) /\ packet[2] = IdAndType(id, type)
        /\ \A i \in 1..n : packet[i + 2] = payload[i]
        /\ packet[n + 3] = NUL /\ packet[n + 4] = NUL
    <2> HIDE DEF payload, id, type
    <2> QED
      BY <1>1, PacketShape
  <1>3. SizeOf(request) \in Nat
    BY <1>1 DEF SizeOf
  <1>4. CASE request.defect = "nul"
    <2> DEFINE more == Append(payload, NUL)
    <2>1. /\ more \in Seq(Token) /\ Len(more) = n + 1 /\ more[n + 1] = NUL
          /\ \A i \in 1..n : more[i] = payload[i]
      <3>1. NUL \in Token
        BY DEF Token
      <3> HIDE DEF payload
      <3> QED
        BY <1>1, <3>1
    <2> HIDE DEF more
    <2>2. tokens = EncodePacket(id, type, more)
      BY <1>4 DEF PacketTokens, more
    <2> HIDE DEF payload, id, type, tokens
    <2>3. /\ tokens \in Seq(Token) /\ Len(tokens) = (n + 1) + 4
          /\ tokens[1] = Size((n + 1) + 3) /\ tokens[2] = IdAndType(id, type)
          /\ \A i \in 1..(n + 1) : tokens[i + 2] = more[i]
          /\ tokens[(n + 1) + 3] = NUL /\ tokens[(n + 1) + 4] = NUL
      <3> DEFINE l == n + 1
      <3>1. more \in Seq(Token) /\ Len(more) = l /\ id \in RequestIds /\ type \in PacketTypes
        BY <1>1, <2>1
      <3> HIDE DEF l, n
      <3>2. /\ tokens \in Seq(Token) /\ Len(tokens) = l + 4
            /\ tokens[1] = Size(l + 3) /\ tokens[2] = IdAndType(id, type)
            /\ \A i \in 1..l : tokens[i + 2] = more[i]
            /\ tokens[l + 3] = NUL /\ tokens[l + 4] = NUL
        BY <2>2, <3>1, PacketShape
      <3> QED
        BY <3>2 DEF l
    <2>4. /\ (n + 1) + 4 = n + 5 /\ (n + 1) + 3 = n + 4 /\ (n + 1) + 2 = n + 3
          /\ n + 1 \in 1..(n + 1) /\ \A i \in 1..n : i \in 1..(n + 1)
      BY <1>1
    <2>5. SizeOf(request) = n + 4
      BY <1>4 DEF SizeOf, payload
    <2>6. tokens[(n + 1) + 2] = more[n + 1]
      BY <2>3, <2>4, Zenon
    <2>7. \A i \in 1..n : tokens[i + 2] = payload[i]
      BY <2>1, <2>3, <2>4, Zenon
    <2>8. tokens[n + 3] = NUL
      BY <2>1, <2>4, <2>6
    <2> QED
      BY <1>1, <1>3, <1>4, <2>3, <2>4, <2>5, <2>7, <2>8 DEF payload, id, type, tokens
  <1>5. CASE request.defect # "nul"
    <2>1. tokens = [packet EXCEPT ![1] = Size(SizeOf(request))]
      <3>1. CASE request.defect = "none"
        <4>1. tokens = packet /\ SizeOf(request) = n + 3
          BY <3>1 DEF PacketTokens, SizeOf
        <4> HIDE DEF packet, tokens
        <4> QED
          BY <1>1, <1>2, <4>1
      <3>2. CASE request.defect = "short"
        BY <1>1, <3>2 DEF PacketTokens, SizeOf, MinBody
      <3>3. CASE request.defect = "long"
        BY <1>1, <3>3 DEF PacketTokens, SizeOf, MinBody
      <3>4. CASE request.defect = "zero"
        BY <1>1, <3>4 DEF PacketTokens, SizeOf, MinBody
      <3>5. CASE request.defect = "open"
        BY <1>1, <3>5 DEF PacketTokens, SizeOf, MinBody
      <3> QED
        BY <1>1, <1>5, <3>1, <3>2, <3>3, <3>4, <3>5
    <2>2. Size(SizeOf(request)) \in Token
      BY <1>3 DEF Token
    <2>6. packet \in Seq(Token) /\ Len(packet) = n + 4 /\ n \in Nat
      BY <1>1, <1>2
    <2> DEFINE size == Size(SizeOf(request))
    <2> HIDE DEF packet, tokens, payload, id, type, n, size
    <2>3. /\ tokens \in Seq(Token) /\ Len(tokens) = n + 4
          /\ tokens[1] = Size(SizeOf(request))
          /\ \A i \in 2..(n + 4) : tokens[i] = packet[i]
      <3>1. tokens = [packet EXCEPT ![1] = size] /\ size \in Token
        BY <2>1, <2>2 DEF size
      <3>2. /\ tokens \in Seq(Token) /\ Len(tokens) = n + 4
            /\ tokens[1] = size
            /\ \A i \in 2..(n + 4) : tokens[i] = packet[i]
        BY <2>6, <3>1
      <3> QED
        BY <3>2 DEF size
    <2>4. /\ tokens[2] = IdAndType(id, type)
          /\ tokens[n + 3] = NUL /\ tokens[n + 4] = NUL
      BY <1>1, <1>2, <2>3
    <2>5. ASSUME NEW i \in 1..n PROVE tokens[i + 2] = payload[i]
      <3>1. i + 2 \in 2..(n + 4)
        BY <1>1
      <3> QED
        BY <1>2, <2>3, <3>1
    <2> QED
      BY <1>1, <1>3, <1>5, <2>3, <2>4, <2>5 DEF tokens, payload, id, type, n
  <1> QED
    BY <1>4, <1>5

\* ... and what of it the server gets.
LEMMA RequestShape ==
    ASSUME NEW request \in Requests
    PROVE  LET tokens == RequestTokens(request)
               packet == PacketTokens(request)
           IN  /\ tokens \in Seq(Token) /\ packet \in Seq(Token)
               /\ Len(packet) \in Nat /\ Len(packet) >= 4
               /\ Len(tokens) = Len(packet) + 1
               /\ tokens[1] = SizePart
               /\ \A i \in 1..Len(packet) : tokens[i + 1] = packet[i]
               /\ SizeOf(request) \in Nat /\ packet[1] = Size(SizeOf(request))
               /\ tokens[2] = Size(SizeOf(request))
  <1> DEFINE tokens == RequestTokens(request)
             packet == PacketTokens(request)
             n == Len(request.payload)
             l == Len(packet)
             first == <<SizePart>>
  <1>1. /\ packet \in Seq(Token) /\ n \in Nat /\ SizeOf(request) \in Nat
        /\ l = IF request.defect = "nul" THEN n + 5 ELSE n + 4
        /\ packet[1] = Size(SizeOf(request))
    BY TokensShape
  <1>2. l \in Nat /\ l >= 4
    <2> HIDE DEF n, l
    <2> QED
      BY <1>1
  <1>3. first \in Seq(Token) /\ Len(first) = 1 /\ first[1] = SizePart
    BY DEF Token
  <1>4. tokens = first \o packet
    BY DEF RequestTokens
  <1> HIDE DEF tokens, packet, first
  <1>5. /\ tokens \in Seq(Token) /\ Len(tokens) = 1 + l
        /\ \A i \in 1..1 : tokens[i] = first[i]
        /\ \A i \in 1..l : tokens[1 + i] = packet[i]
    <2>1. /\ first \o packet \in Seq(Token) /\ Len(first \o packet) = Len(first) + Len(packet)
          /\ \A i \in 1..Len(first) : (first \o packet)[i] = first[i]
          /\ \A i \in 1..Len(packet) : (first \o packet)[Len(first) + i] = packet[i]
      <3>1. first \in Seq(Token) /\ packet \in Seq(Token)
        BY <1>1, <1>3
      <3> QED
        BY <3>1, ConcatParts
    <2>2. Len(packet) \in Nat /\ Len(first) = 1 /\ tokens = first \o packet
      BY <1>2, <1>3, <1>4
    <2> QED
      BY <2>1, <2>2
  <1> HIDE DEF l, n
  <1>6. Len(tokens) = l + 1 /\ 1 \in 1..1 /\ 1 \in 1..l /\ \A i \in 1..l : 1 + i = i + 1
    BY <1>2, <1>5
  <1>7. tokens[1] = SizePart /\ \A i \in 1..l : tokens[i + 1] = packet[i]
    BY <1>3, <1>5, <1>6
  <1>8. tokens[2] = packet[1]
    <2>1. tokens[1 + 1] = packet[1]
      BY <1>6, <1>7
    <2> QED
      BY <2>1
  <1> QED
    BY <1>1, <1>2, <1>5, <1>6, <1>7, <1>8 DEF tokens, packet, l

\* Of a request behind which nothing or another one comes, the server decodes
\* the body just if there is nothing wrong with it, and gets what was sent.
LEMMA BodyJudged ==
    ASSUME NEW request \in Requests, NEW body \in Seq(Token),
           Len(body) = SizeOf(request), Len(body) >= 1,
           \A i \in 1..Len(body) : i + 1 <= Len(PacketTokens(request)) =>
                body[i] = PacketTokens(request)[i + 1],
           \A i \in 1..Len(body) : i + 1 = Len(PacketTokens(request)) + 1 =>
                body[i] = SizePart
    PROVE  /\ Decodable(body) <=> request.defect = "none"
           /\ request.defect = "none" => Decoded(body) =
                [id |-> request.id, type |-> request.type, payload |-> request.payload]
  <1> DEFINE tokens == PacketTokens(request)
             payload == request.payload
             n == Len(payload)
  <1>1. /\ payload \in Seq(Bytes) /\ n \in Nat
        /\ request.defect \in {"none", "short", "long", "zero", "nul", "open"}
        /\ request.id \in RequestIds /\ request.type \in PacketTypes
    BY WireAssumption DEF RequestIds, PacketTypes
  <1>2. /\ Len(tokens) = IF request.defect = "nul" THEN n + 5 ELSE n + 4
        /\ tokens[2] = IdAndType(request.id, request.type)
        /\ \A i \in 1..n : tokens[i + 2] = payload[i]
        /\ tokens[n + 3] = NUL /\ tokens[n + 4] = NUL
        /\ request.defect = "nul" => tokens[n + 5] = NUL
    BY TokensShape
  <1>3. payload # << >> => n >= 1 /\ payload[n] # NUL
    <2>1. \A i \in 1..n : payload[i] # NUL
      BY <1>1, TokensDistinct
    <2> QED
      BY <1>1, <2>1
  <1>4. n = 0 \/ n >= 1
    BY <1>1
  <1>11. n >= 1 => tokens[n + 2] = payload[n]
    <2>1. n >= 1 => n \in 1..n
      BY <1>1
    <2> QED
      BY <1>2, <2>1, Zenon
  <1>12. ASSUME n >= 1, n + 1 <= Len(body), n + 2 <= Len(tokens)
         PROVE  body[n + 1] = payload[n]
    <2>1. n + 1 \in 1..Len(body) /\ (n + 1) + 1 = n + 2
      BY <1>1, <1>12
    <2>2. body[n + 1] = tokens[(n + 1) + 1]
      BY <1>12, <2>1
    <2> QED
      BY <1>11, <1>12, <2>1, <2>2
  <1>5. CASE request.defect = "none"
    <2>1. Len(body) = n + 3 /\ Len(tokens) = n + 4
      BY <1>2, <1>5 DEF SizeOf
    <2>2. tokens = EncodePacket(request.id, request.type, payload)
      BY <1>5 DEF PacketTokens
    <2>3. \A i \in 1..Len(body) :
              body[i] = EncodePacket(request.id, request.type, payload)[i + 1]
      BY <1>1, <2>1, <2>2
    <2> HIDE DEF payload
    <2>4. /\ Decodable(body)
          /\ Decoded(body) = [id |-> request.id, type |-> request.type, payload |-> payload]
      BY <1>1, <2>1, <2>3, PacketDecodes
    <2> QED
      BY <1>5, <2>4 DEF payload
  <1>6. CASE request.defect = "short"
    <2>1. Len(body) = n + 2 /\ Len(tokens) = n + 4
      BY <1>2, <1>6 DEF SizeOf
    <2>2. n >= 1 => body[n + 1] = payload[n]
      <3>1. n + 1 <= Len(body) /\ n + 2 <= Len(tokens)
        BY <1>1, <2>1
      <3> QED
        BY <1>12, <3>1
    <2>3. ~ Decodable(body)
      <3>1. CASE n = 0
        BY <2>1, <3>1 DEF Decodable, MinBody
      <3>2. CASE n >= 1
        <4>1. body[n + 1] = payload[n] /\ payload[n] # NUL
          <5>1. payload # << >>
            BY <1>1, <3>2
          <5> QED
            BY <1>3, <2>2, <3>2, <5>1
        <4>2. Len(body) - 1 = n + 1
          BY <1>1, <2>1
        <4> QED
          BY <4>1, <4>2 DEF Decodable
      <3> QED
        BY <1>4, <3>1, <3>2
    <2> QED
      BY <1>6, <2>3
  <1>7. CASE request.defect = "long"
    <2>1. Len(body) = n + 4 /\ Len(tokens) = n + 4
      BY <1>2, <1>7 DEF SizeOf
    <2>2. body[n + 4] = SizePart
      <3>1. n + 4 \in 1..Len(body) /\ (n + 4) + 1 = Len(tokens) + 1
        BY <1>1, <2>1
      <3> QED
        BY <3>1, Zenon
    <2>3. ~ Decodable(body)
      BY <2>1, <2>2, TokensDistinct DEF Decodable
    <2> QED
      BY <1>7, <2>3
  <1>8. CASE request.defect = "zero"
    BY <1>8 DEF SizeOf
  <1>9. CASE request.defect = "nul"
    <2>1. Len(body) = n + 4 /\ Len(tokens) = n + 5
      BY <1>2, <1>9 DEF SizeOf
    <2>2. n + 2 \in 1..Len(body) /\ (n + 2) + 1 = n + 3 /\ n + 2 \in 2..(Len(body) - 2)
      BY <1>1, <2>1
    <2>3. body[n + 2] = NUL
      <3>1. (n + 2) + 1 <= Len(tokens)
        BY <1>1, <2>1
      <3>2. body[n + 2] = tokens[(n + 2) + 1]
        BY <2>2, <3>1, Zenon
      <3> QED
        BY <1>2, <2>2, <3>2
    <2>4. ~ Decodable(body)
      BY <2>2, <2>3, TokensDistinct DEF Decodable, IsByte
    <2> QED
      BY <1>9, <2>4
  <1>10. CASE request.defect = "open"
    <2>1. Len(body) = n + 1 /\ Len(tokens) = n + 4
      BY <1>2, <1>10 DEF SizeOf
    <2>2. n >= 1 => body[n + 1] = payload[n]
      <3>1. n + 1 <= Len(body) /\ n + 2 <= Len(tokens)
        BY <1>1, <2>1
      <3> QED
        BY <1>12, <3>1
    <2>3. ~ Decodable(body)
      <3>1. CASE n = 0
        BY <2>1, <3>1 DEF Decodable, MinBody
      <3>2. CASE n >= 1
        <4>1. body[n + 1] = payload[n] /\ payload[n] # NUL
          <5>1. payload # << >>
            BY <1>1, <3>2
          <5> QED
            BY <1>3, <2>2, <3>2, <5>1
        <4>2. Len(body) = n + 1
          BY <1>1, <2>1
        <4> QED
          BY <4>1, <4>2 DEF Decodable
      <3> QED
        BY <1>4, <3>1, <3>2
    <2> QED
      BY <1>10, <2>3
  <1> QED
    BY <1>1, <1>5, <1>6, <1>7, <1>8, <1>9, <1>10

-----------------------------------------------------------------------------
(* Receiving *)

\* Where the requests lie in the stream of all that was sent: the first k of
\* them take its first ends[k] tokens.
Layout(stream, ends) ==
    /\ stream \in Seq(Token) /\ ends \in [0..Len(sent) -> Nat]
    /\ ends[0] = 0 /\ ends[Len(sent)] = Len(stream)
    /\ \A k \in 0..Len(sent) : ends[k] <= Len(stream)
    /\ \A k \in 1..Len(sent) :
        /\ ends[k] = ends[k - 1] + Len(RequestTokens(sent[k]))
        /\ \A i \in 1..Len(RequestTokens(sent[k])) :
                stream[ends[k - 1] + i] = RequestTokens(sent[k])[i]

\* What the server has before it is the rest of the stream, from place at on.
Rest(stream, at) ==
    /\ Len(stream) = at + Len(buffer) + Len(up)
    /\ \A i \in 1..Len(buffer) : buffer[i] = stream[at + i]
    /\ \A i \in 1..Len(up) : up[i] = stream[at + Len(buffer) + i]

\* The server has read whole requests, and of the next one the size just if it
\* waits for the body.
Aligned ==
    \E stream \in Seq(Token), ends \in [0..Len(sent) -> Nat] :
        /\ Layout(stream, ends)
        /\ Rest(stream, ends[Len(taken)] + (IF phase = "body" THEN SizeTokens ELSE 0))

Packet == [id : RequestIds, type : PacketTypes, payload : Seq(Bytes)]

ReadInv ==
    /\ phase \in {"size", "body", "serve", "encode", "send", "refused", "closed"}
    /\ sent \in Seq(Requests)
    /\ up \in Seq(Token) /\ buffer \in Seq(Token)
    /\ want \in 1..MaxBody /\ Len(buffer) <= want
    /\ taken \in Seq(Packet) /\ Len(taken) <= Len(sent)
    /\ phase = "size" => want = SizeTokens
    /\ phase \in {"serve", "encode", "send"} => want = SizeTokens /\ buffer = << >> /\ taken # << >>
    /\ phase = "body" => Len(taken) < Len(sent) /\ want = SizeOf(sent[Len(taken) + 1])
    /\ phase = "refused" => Len(taken) < Len(sent)
    /\ phase \notin {"refused", "closed"} => Aligned
    /\ StreamKeepsPackets

\* The next request, and where it lies.
LEMMA NextRequest ==
    ASSUME NEW stream, NEW ends, Layout(stream, ends), sent \in Seq(Requests),
           NEW n \in Nat, n <= Len(sent)
    PROVE  /\ ends[n] \in Nat
           /\ Len(stream) > ends[n] => n < Len(sent)
           /\ n < Len(sent) =>
                LET tokens == RequestTokens(sent[n + 1])
                IN  /\ sent[n + 1] \in Requests
                    /\ ends[n + 1] = ends[n] + Len(tokens)
                    /\ \A i \in 1..Len(tokens) : stream[ends[n] + i] = tokens[i]
  <1>1. /\ stream \in Seq(Token) /\ ends \in [0..Len(sent) -> Nat]
        /\ ends[Len(sent)] = Len(stream)
    BY DEF Layout
  <1>2. n \in 0..Len(sent) /\ ends[n] \in Nat
    BY <1>1
  <1>3. Len(stream) > ends[n] => n < Len(sent)
    <2>1. n = Len(sent) \/ n < Len(sent)
      OBVIOUS
    <2>2. n = Len(sent) => ends[n] = Len(stream)
      BY <1>1
    <2> QED
      BY <1>1, <1>2, <2>1, <2>2
  <1>4. ASSUME n < Len(sent)
        PROVE  LET tokens == RequestTokens(sent[n + 1])
               IN  /\ sent[n + 1] \in Requests
                   /\ ends[n + 1] = ends[n] + Len(tokens)
                   /\ \A i \in 1..Len(tokens) : stream[ends[n] + i] = tokens[i]
    <2>1. n + 1 \in 1..Len(sent) /\ (n + 1) - 1 = n
      BY <1>4
    <2>2. sent[n + 1] \in Requests
      BY <2>1
    <2>3. /\ ends[n + 1] = ends[(n + 1) - 1] + Len(RequestTokens(sent[n + 1]))
          /\ \A i \in 1..Len(RequestTokens(sent[n + 1])) :
                stream[ends[(n + 1) - 1] + i] = RequestTokens(sent[n + 1])[i]
      BY <2>1, Zenon DEF Layout
    <2> QED
      BY <2>1, <2>2, <2>3, Zenon
  <1> QED
    BY <1>2, <1>3, <1>4

\* Nothing has been sent at the start.
LEMMA ReadInit == Init => ReadInv
  <1> SUFFICES ASSUME Init PROVE ReadInv
    OBVIOUS
  <1> DEFINE ends == [k \in 0..0 |-> 0]
  <1>1. /\ sent = << >> /\ up = << >> /\ phase = "size" /\ want = SizeTokens
        /\ buffer = << >> /\ taken = << >>
    BY DEF Init
  <1>2. Aligned
    <2>1. /\ << >> \in Seq(Token) /\ ends \in [0..Len(sent) -> Nat]
          /\ ends[0] = 0 /\ Len(sent) = 0 /\ Len(taken) = 0 /\ Len(buffer) = 0
          /\ Len(up) = 0
      BY <1>1
    <2>2. Layout(<< >>, ends)
      BY <2>1 DEF Layout
    <2>3. Rest(<< >>, ends[Len(taken)] + (IF phase = "body" THEN SizeTokens ELSE 0))
      BY <1>1, <2>1 DEF Rest
    <2> QED
      BY <2>1, <2>2, <2>3 DEF Aligned
  <1>3. StreamKeepsPackets
    BY <1>1 DEF StreamKeepsPackets
  <1>4. want \in 1..MaxBody
    BY <1>1, WireAssumption DEF SizeTokens
  <1> QED
    BY <1>1, <1>2, <1>3, <1>4 DEF ReadInv

\* One recv moves the boundary between what is read and what is not.
LEMMA ReadRecv == ReadInv /\ Recv => ReadInv'
  <1> SUFFICES ASSUME ReadInv, Recv PROVE ReadInv'
    OBVIOUS
  <1>1. PICK n \in 1..Smaller(want - Len(buffer), Len(up)) :
            /\ buffer' = buffer \o SubSeq(up, 1, n)
            /\ up' = SubSeq(up, n + 1, Len(up))
    BY DEF Recv
  <1>2. /\ phase \in {"size", "body"} /\ Len(buffer) < want
        /\ sent' = sent /\ phase' = phase /\ want' = want /\ taken' = taken
    BY DEF Recv, sending
  <1>3. /\ up \in Seq(Token) /\ buffer \in Seq(Token) /\ want \in 1..MaxBody
        /\ MaxBody \in Nat
    BY WireAssumption DEF ReadInv
  <1>4. n \in Nat /\ 1 <= n /\ n <= Len(up) /\ Len(buffer) + n <= want
    BY <1>1, <1>2, <1>3 DEF Smaller
  <1> DEFINE new == SubSeq(up, 1, n)
  <1>5. new \in Seq(Token) /\ Len(new) = n /\ \A i \in 1..n : new[i] = up[i]
    BY <1>3, <1>4
  <1>6. /\ up' \in Seq(Token) /\ Len(up') = Len(up) - n
        /\ \A i \in 1..(Len(up) - n) : up'[i] = up[n + i]
    <2>1. /\ n + 1 \in Nat /\ Len(up) \in Nat /\ 1 <= n + 1 /\ n + 1 <= Len(up) + 1
          /\ (Len(up) - (n + 1)) + 1 = Len(up) - n
          /\ \A i \in 1..(Len(up) - n) : ((n + 1) + i) - 1 = n + i
      BY <1>3, <1>4
    <2>2. /\ up' \in Seq(Token) /\ Len(up') = (Len(up) - (n + 1)) + 1
          /\ \A i \in 1..((Len(up) - (n + 1)) + 1) : up'[i] = up[((n + 1) + i) - 1]
      <3> DEFINE a == n + 1
                 b == Len(up)
      <3>1. /\ up \in Seq(Token) /\ a \in Nat /\ b \in Nat /\ 1 <= a /\ a <= b + 1
            /\ b <= Len(up) /\ up' = SubSeq(up, a, b)
        BY <1>1, <1>3, <2>1
      <3> HIDE DEF a, b
      <3>2. /\ up' \in Seq(Token) /\ Len(up') = (b - a) + 1
            /\ \A i \in 1..((b - a) + 1) : up'[i] = up[(a + i) - 1]
        BY <3>1, SubSeqParts
      <3> QED
        BY <3>2 DEF a, b
    <2> QED
      BY <2>1, <2>2
  <1>7. /\ buffer' \in Seq(Token) /\ Len(buffer') = Len(buffer) + n
        /\ \A i \in 1..Len(buffer) : buffer'[i] = buffer[i]
        /\ \A i \in 1..n : buffer'[Len(buffer) + i] = up[i]
    <2> HIDE DEF new
    <2>1. buffer' = buffer \o new
      BY <1>1 DEF new
    <2>2. new \in Seq(Token) /\ buffer \in Seq(Token) /\ Len(new) = n
      BY <1>3, <1>5
    <2>3. /\ buffer \o new \in Seq(Token)
          /\ Len(buffer \o new) = Len(buffer) + Len(new)
          /\ \A i \in 1..Len(buffer) : (buffer \o new)[i] = buffer[i]
          /\ \A i \in 1..Len(new) : (buffer \o new)[Len(buffer) + i] = new[i]
      BY <2>2
    <2> QED
      BY <1>5, <2>1, <2>2, <2>3
  <1>8. ASSUME NEW stream \in Seq(Token), NEW at \in Nat, Rest(stream, at)
        PROVE  Rest(stream, at)'
    <2>1. /\ Len(stream) = at + Len(buffer) + Len(up)
          /\ \A i \in 1..Len(buffer) : buffer[i] = stream[at + i]
          /\ \A i \in 1..Len(up) : up[i] = stream[at + Len(buffer) + i]
      BY <1>8 DEF Rest
    <2>2. Len(stream) = at + Len(buffer') + Len(up')
      BY <1>3, <1>4, <1>6, <1>7, <2>1
    <2>3. ASSUME NEW i \in 1..Len(buffer') PROVE buffer'[i] = stream[at + i]
      <3>1. CASE i <= Len(buffer)
        BY <1>3, <1>7, <2>1, <3>1
      <3>2. CASE i > Len(buffer)
        <4> DEFINE j == i - Len(buffer)
        <4>1. j \in 1..n /\ j \in 1..Len(up) /\ i = Len(buffer) + j
              /\ at + Len(buffer) + j = at + i
          BY <1>3, <1>4, <1>7, <3>2
        <4> HIDE DEF j
        <4>2. buffer'[i] = up[j] /\ up[j] = stream[at + Len(buffer) + j]
          BY <1>7, <2>1, <4>1
        <4> QED
          BY <4>1, <4>2
      <3> QED
        BY <1>3, <1>7, <3>1, <3>2
    <2>4. ASSUME NEW i \in 1..Len(up') PROVE up'[i] = stream[at + Len(buffer') + i]
      <3>1. n + i \in 1..Len(up) /\ i \in 1..(Len(up) - n)
            /\ at + Len(buffer) + (n + i) = at + Len(buffer') + i
        BY <1>3, <1>4, <1>6, <1>7
      <3>2. up'[i] = up[n + i] /\ up[n + i] = stream[at + Len(buffer) + (n + i)]
        BY <1>6, <2>1, <3>1
      <3> QED
        BY <3>1, <3>2
    <2> QED
      BY <2>2, <2>3, <2>4 DEF Rest
  <1>9. Aligned'
    <2>1. PICK stream \in Seq(Token), ends \in [0..Len(sent) -> Nat] :
            /\ Layout(stream, ends)
            /\ Rest(stream, ends[Len(taken)] + (IF phase = "body" THEN SizeTokens ELSE 0))
      BY <1>2 DEF ReadInv, Aligned
    <2> DEFINE at == ends[Len(taken)] + (IF phase = "body" THEN SizeTokens ELSE 0)
    <2>2. at \in Nat
      <3>1. Len(taken) \in 0..Len(sent)
        BY DEF ReadInv
      <3> QED
        BY <2>1, <3>1 DEF SizeTokens
    <2>3. Layout(stream, ends)'
      BY <1>2, <2>1 DEF Layout
    <2>4. Rest(stream, at)'
      <3>1. PICK place \in Nat : place = at
        BY <2>2
      <3>2. at' = place
        BY <1>2, <3>1
      <3> HIDE DEF at
      <3>3. Rest(stream, place)
        BY <2>1, <3>1 DEF at
      <3>4. Rest(stream, place)'
        BY <1>8, <3>3
      <3> QED
        BY <3>2, <3>4 DEF Rest
    <2> QED
      BY <1>2, <2>3, <2>4 DEF Aligned
  <1>10. StreamKeepsPackets'
    BY <1>2 DEF StreamKeepsPackets, WellFramed, ReadInv
  <1> QED
    BY <1>2, <1>4, <1>6, <1>7, <1>9, <1>10 DEF ReadInv

\* Nothing of the receiving side moves, and the server is or was busy with a
\* request, or the connection is gone.
LEMMA ReadQuiet ==
    ASSUME ReadInv, UNCHANGED receiving,
           \/ phase' = "closed"
           \/ /\ phase \in {"serve", "encode", "send"}
              /\ phase' \in {"size", "serve", "encode", "send"}
    PROVE  ReadInv'
  <1>1. /\ sent' = sent /\ up' = up /\ want' = want /\ buffer' = buffer
        /\ taken' = taken
    BY DEF receiving
  <1>2. StreamKeepsPackets'
    BY <1>1 DEF StreamKeepsPackets, WellFramed, ReadInv
  <1>3. CASE phase' = "closed"
    BY <1>1, <1>2, <1>3 DEF ReadInv
  <1>4. CASE phase \in {"serve", "encode", "send"}
              /\ phase' \in {"size", "serve", "encode", "send"}
    <2>1. phase # "body" /\ phase' # "body"
      BY <1>4
    <2>2. Aligned'
      <3>1. PICK stream \in Seq(Token), ends \in [0..Len(sent) -> Nat] :
              Layout(stream, ends) /\ Rest(stream, ends[Len(taken)] + 0)
        BY <1>4, <2>1 DEF ReadInv, Aligned
      <3>2. Layout(stream, ends)' /\ Rest(stream, ends[Len(taken)] + 0)'
        BY <1>1, <3>1 DEF Layout, Rest
      <3> QED
        BY <1>1, <2>1, <3>2 DEF Aligned
    <2> QED
      BY <1>1, <1>2, <1>4, <2>2 DEF ReadInv
  <1> QED
    BY <1>3, <1>4

\* The client adds a request behind all it has sent.
LEMMA ReadSend ==
    ASSUME ReadInv, NEW request \in Requests, Send(request)
    PROVE  ReadInv'
  <1> DEFINE tokens == RequestTokens(request)
             count == Len(sent)
  <1>1. /\ sent' = Append(sent, request) /\ up' = up \o tokens
        /\ phase' = phase /\ want' = want /\ buffer' = buffer /\ taken' = taken
    BY DEF Send
  <1>2. /\ sent \in Seq(Requests) /\ up \in Seq(Token) /\ buffer \in Seq(Token)
        /\ count \in Nat /\ Len(taken) \in Nat /\ Len(taken) <= count
        /\ taken \in Seq(Packet)
    BY DEF ReadInv
  <1>3. tokens \in Seq(Token)
    BY RequestShape
  <1>4. /\ sent' \in Seq(Requests) /\ Len(sent') = count + 1
        /\ sent'[count + 1] = request
        /\ \A k \in 1..count : sent'[k] = sent[k]
    BY <1>1, <1>2
  <1> HIDE DEF tokens
  <1>5. /\ up' \in Seq(Token) /\ Len(up') = Len(up) + Len(tokens)
        /\ \A i \in 1..Len(up) : up'[i] = up[i]
        /\ \A i \in 1..Len(tokens) : up'[Len(up) + i] = tokens[i]
    BY <1>1, <1>2, <1>3, ConcatParts
  <1>6. StreamKeepsPackets'
    <2>1. ASSUME NEW i \in DOMAIN taken PROVE sent'[i] = sent[i]
      BY <1>2, <1>4
    <2>2. phase = "refused" => sent'[Len(taken) + 1] = sent[Len(taken) + 1]
      <3>1. phase = "refused" => Len(taken) + 1 \in 1..count
        BY <1>2 DEF ReadInv
      <3> QED
        BY <1>4, <3>1
    <2>3. StreamKeepsPackets
      BY DEF ReadInv
    <2> QED
      BY <1>1, <2>1, <2>2, <2>3 DEF StreamKeepsPackets, WellFramed
  <1>7. phase = "body" => sent'[Len(taken) + 1] = sent[Len(taken) + 1]
    <2>1. phase = "body" => Len(taken) + 1 \in 1..count
      BY <1>2 DEF ReadInv
    <2> QED
      BY <1>4, <2>1
  <1>8. ASSUME Aligned PROVE Aligned'
    <2>1. PICK stream \in Seq(Token), ends \in [0..count -> Nat] :
            /\ Layout(stream, ends)
            /\ Rest(stream, ends[Len(taken)] + (IF phase = "body" THEN SizeTokens ELSE 0))
      BY <1>8 DEF Aligned
    <2> DEFINE at == ends[Len(taken)] + (IF phase = "body" THEN SizeTokens ELSE 0)
               l == Len(stream)
               longer == stream \o tokens
    <2>2. /\ longer \in Seq(Token) /\ Len(longer) = l + Len(tokens)
          /\ \A i \in 1..l : longer[i] = stream[i]
          /\ \A i \in 1..Len(tokens) : longer[l + i] = tokens[i]
          /\ l \in Nat /\ Len(tokens) \in Nat
      BY <1>3, <2>1, ConcatParts
    <2>3. PICK more :
            /\ more \in [0..Len(sent') -> Nat]
            /\ more[count + 1] = l + Len(tokens)
            /\ \A k \in 0..count : more[k] = ends[k]
      <3> DEFINE m == [k \in 0..(count + 1) |->
                            IF k <= count THEN ends[k] ELSE l + Len(tokens)]
      <3>1. /\ m \in [0..Len(sent') -> Nat]
            /\ m[count + 1] = l + Len(tokens)
            /\ \A k \in 0..count : m[k] = ends[k]
        BY <1>2, <1>4, <2>1, <2>2
      <3> HIDE DEF m
      <3> QED
        BY <3>1
    <2>4. /\ ends[0] = 0 /\ ends[count] = l
          /\ \A k \in 0..count : ends[k] <= l
          /\ \A k \in 1..count :
              /\ ends[k] = ends[k - 1] + Len(RequestTokens(sent[k]))
              /\ \A i \in 1..Len(RequestTokens(sent[k])) :
                      stream[ends[k - 1] + i] = RequestTokens(sent[k])[i]
      BY <2>1 DEF Layout
    <2> HIDE DEF longer, l, at, count
    <2>5. Layout(longer, more)'
      <3> SUFFICES ASSUME NEW k \in 1..Len(sent')
                   PROVE  /\ more[k] = more[k - 1] + Len(RequestTokens(sent'[k]))
                          /\ \A i \in 1..Len(RequestTokens(sent'[k])) :
                                longer[more[k - 1] + i] = RequestTokens(sent'[k])[i]
        <4>1. more[0] = 0 /\ more[Len(sent')] = Len(longer)
          <5>1. 0 \in 0..count
            BY <1>2
          <5> QED
            BY <1>4, <2>2, <2>3, <2>4, <5>1
        <4>2. ASSUME NEW j \in 0..Len(sent') PROVE more[j] <= Len(longer)
          <5>1. CASE j = count + 1
            BY <2>2, <2>3, <5>1
          <5>2. CASE j # count + 1
            <6>1. j \in 0..count
              BY <1>2, <1>4, <5>2
            <6>2. more[j] = ends[j] /\ ends[j] <= l /\ ends[j] \in Nat
              BY <2>1, <2>3, <2>4, <6>1
            <6> QED
              BY <2>2, <6>2
          <5> QED
            BY <5>1, <5>2
        <4> QED
          BY <2>2, <2>3, <4>1, <4>2, Zenon DEF Layout
      <3>1. CASE k = count + 1
        <4>1. k - 1 = count /\ count \in 0..count
          BY <1>2, <3>1
        <4>2. more[k - 1] = l /\ more[k] = l + Len(tokens) /\ sent'[k] = request
          BY <1>4, <2>3, <2>4, <3>1, <4>1
        <4> QED
          BY <2>2, <4>2 DEF tokens
      <3>2. CASE k # count + 1
        <4>1. k \in 1..count /\ k \in 0..count /\ k - 1 \in 0..count
          BY <1>2, <1>4, <3>2
        <4>2. more[k - 1] = ends[k - 1] /\ more[k] = ends[k] /\ sent'[k] = sent[k]
          BY <1>4, <2>3, <4>1
        <4>3. /\ ends[k] = ends[k - 1] + Len(RequestTokens(sent[k]))
              /\ \A i \in 1..Len(RequestTokens(sent[k])) :
                      stream[ends[k - 1] + i] = RequestTokens(sent[k])[i]
          BY <2>4, <4>1, Zenon
        <4>4. ASSUME NEW i \in 1..Len(RequestTokens(sent[k]))
              PROVE  longer[ends[k - 1] + i] = stream[ends[k - 1] + i]
          <5>1. /\ ends[k - 1] \in Nat /\ ends[k] <= l
                /\ Len(RequestTokens(sent[k])) \in Nat
            <6>1. sent[k] \in Requests
              BY <1>2, <4>1 DEF count
            <6>2. RequestTokens(sent[k]) \in Seq(Token)
              BY <6>1, RequestShape
            <6>3. Len(RequestTokens(sent[k])) \in Nat
              BY <6>2
            <6> QED
              BY <2>1, <2>4, <4>1, <6>3
          <5>2. ends[k - 1] + i \in 1..l
            BY <2>2, <4>3, <5>1
          <5> QED
            BY <2>2, <5>2
        <4> QED
          BY <4>2, <4>3, <4>4
      <3> QED
        BY <3>1, <3>2
    <2>7. /\ at \in Nat /\ l = at + Len(buffer) + Len(up)
          /\ \A i \in 1..Len(buffer) : buffer[i] = stream[at + i]
          /\ \A i \in 1..Len(up) : up[i] = stream[at + Len(buffer) + i]
          /\ Len(buffer) \in Nat /\ Len(up) \in Nat
      <3>1. Len(taken) \in 0..count
        BY <1>2
      <3>2. at \in Nat
        BY <2>1, <3>1 DEF at, SizeTokens
      <3>3. Rest(stream, at)
        BY <2>1 DEF at
      <3> QED
        BY <1>2, <3>2, <3>3 DEF Rest, l
    <2>8. ASSUME NEW i \in 1..Len(buffer) PROVE buffer[i] = longer[at + i]
      <3>1. at + i \in 1..l
        BY <2>7
      <3>2. buffer[i] = stream[at + i]
        BY <2>7
      <3> QED
        BY <2>2, <3>1, <3>2
    <2>9. ASSUME NEW i \in 1..Len(up') PROVE up'[i] = longer[at + Len(buffer) + i]
      <3>1. CASE i <= Len(up)
        <4>1. i \in 1..Len(up) /\ at + Len(buffer) + i \in 1..l
          BY <1>5, <2>7, <3>1
        <4>2. up'[i] = up[i] /\ up[i] = stream[at + Len(buffer) + i]
          BY <1>5, <2>7, <4>1
        <4> QED
          BY <2>2, <4>1, <4>2
      <3>2. CASE i > Len(up)
        <4>1. PICK j \in 1..Len(tokens) : i = Len(up) + j
          <5>1. i - Len(up) \in 1..Len(tokens) /\ i = Len(up) + (i - Len(up))
            BY <1>5, <2>2, <2>7, <3>2
          <5> QED
            BY <5>1
        <4>2. at + Len(buffer) + i = l + j
          BY <2>7, <4>1
        <4>3. up'[Len(up) + j] = tokens[j] /\ longer[l + j] = tokens[j]
          BY <1>5, <2>2, <4>1
        <4> QED
          BY <4>1, <4>2, <4>3
      <3> QED
        BY <1>5, <2>2, <2>7, <3>1, <3>2
    <2>10. Len(longer) = at + Len(buffer) + Len(up')
      BY <1>5, <2>2, <2>7
    <2>11. PICK place \in Nat : place = at
      BY <2>7
    <2>12. Rest(longer, place)'
      BY <1>1, <2>8, <2>9, <2>10, <2>11 DEF Rest
    <2>13. more[Len(taken')] + (IF phase' = "body" THEN SizeTokens ELSE 0) = place
      <3>1. Len(taken) \in 0..count
        BY <1>2
      <3> QED
        BY <1>1, <2>3, <2>11, <3>1 DEF at
    <2>14. Rest(longer, more[Len(taken)] + (IF phase = "body" THEN SizeTokens ELSE 0))'
      BY <2>12, <2>13 DEF Rest
    <2> QED
      BY <2>2, <2>3, <2>5, <2>14 DEF Aligned
  <1> QED
    BY <1>1, <1>2, <1>4, <1>5, <1>6, <1>7, <1>8 DEF ReadInv

\* What the server has got where it takes the next packet to begin is the
\* length of the next request.
LEMMA ReadSize == ReadInv /\ SizeReceived => ReadInv'
  <1> SUFFICES ASSUME ReadInv, SizeReceived PROVE ReadInv'
    OBVIOUS
  <1> DEFINE n == Len(taken)
             request == sent[n + 1]
  <1>1. /\ sent \in Seq(Requests) /\ up \in Seq(Token) /\ buffer \in Seq(Token)
        /\ n \in Nat /\ n <= Len(sent) /\ taken \in Seq(Packet)
        /\ phase = "size" /\ want = 2 /\ Len(buffer) = 2 /\ MaxBody \in Nat
        /\ StreamKeepsPackets
    BY WireAssumption DEF ReadInv, SizeReceived, SizeTokens
  <1>2. PICK stream \in Seq(Token), ends \in [0..Len(sent) -> Nat] :
          Layout(stream, ends) /\ Rest(stream, ends[n] + 0)
    BY <1>1 DEF ReadInv, Aligned
  <1>3. /\ ends[n] \in Nat
        /\ Len(stream) > ends[n] => n < Len(sent)
        /\ n < Len(sent) =>
            /\ request \in Requests
            /\ \A i \in 1..Len(RequestTokens(request)) :
                    stream[ends[n] + i] = RequestTokens(request)[i]
    <2>1. sent \in Seq(Requests) /\ n \in Nat /\ n <= Len(sent) /\ Layout(stream, ends)
      BY <1>1, <1>2
    <2> HIDE DEF n
    <2> QED
      BY <2>1, NextRequest
  <1>4. /\ Len(stream) = ends[n] + 2 + Len(up)
        /\ buffer[2] = stream[ends[n] + 2]
        /\ \A i \in 1..Len(up) : up[i] = stream[(ends[n] + 2) + i]
    <2> HIDE DEF n
    <2>1. /\ Len(stream) = (ends[n] + 0) + Len(buffer) + Len(up)
          /\ \A i \in 1..Len(buffer) : buffer[i] = stream[(ends[n] + 0) + i]
          /\ \A i \in 1..Len(up) : up[i] = stream[(ends[n] + 0) + Len(buffer) + i]
      BY <1>2 DEF Rest
    <2> QED
      BY <1>1, <1>3, <2>1
  <1>5. n < Len(sent) /\ request \in Requests
    <2>1. Len(stream) > ends[n]
      BY <1>1, <1>3, <1>4
    <2> QED
      BY <1>3, <2>1
  <1>6. /\ SizeOf(request) \in Nat /\ buffer[2] = Size(SizeOf(request))
        /\ buffer[2][1] = "size" /\ buffer[2][2] = SizeOf(request)
    <2> HIDE DEF request, n
    <2>1. /\ RequestTokens(request)[2] = Size(SizeOf(request))
          /\ SizeOf(request) \in Nat /\ 2 \in 1..Len(RequestTokens(request))
      <3>1. /\ SizeOf(request) \in Nat /\ Len(PacketTokens(request)) \in Nat
            /\ Len(PacketTokens(request)) >= 4
            /\ Len(RequestTokens(request)) = Len(PacketTokens(request)) + 1
            /\ RequestTokens(request)[2] = Size(SizeOf(request))
        BY <1>5, RequestShape
      <3> QED
        BY <3>1
    <2>2. buffer[2] = Size(SizeOf(request))
      BY <1>3, <1>4, <1>5, <2>1
    <2> QED
      BY <2>1, <2>2 DEF Size
  <1>7. SizeOutOfRange(SizeOf(request)) => ~ WellFramed(request)
    <2> HIDE DEF request
    <2>1. ASSUME WellFramed(request) PROVE SizeOf(request) \in 1..MaxBody
      <3>1. request.payload \in Seq(Bytes)
        BY <1>5, WireAssumption
      <3> QED
        BY <1>1, <2>1, <3>1 DEF WellFramed, SizeOf, MinBody
    <2> QED
      BY <1>1, <2>1 DEF SizeOutOfRange
  <1>8. CASE SizeOutOfRange(SizeOf(request))
    <2>1. /\ phase' = "refused" /\ sent' = sent /\ up' = up /\ want' = want
          /\ buffer' = buffer /\ taken' = taken
      BY <1>6, <1>8 DEF SizeReceived, Refuse
    <2>2. StreamKeepsPackets'
      BY <1>1, <1>7, <1>8, <2>1 DEF StreamKeepsPackets, WellFramed
    <2> QED
      BY <1>1, <1>5, <2>1, <2>2 DEF ReadInv
  <1>9. CASE ~ SizeOutOfRange(SizeOf(request))
    <2>1. /\ phase' = "body" /\ want' = SizeOf(request) /\ buffer' = << >>
          /\ sent' = sent /\ up' = up /\ taken' = taken
      BY <1>6, <1>9 DEF SizeReceived
    <2>2. want' \in 1..MaxBody
      <3> HIDE DEF request
      <3> QED
        BY <1>1, <1>6, <1>9, <2>1 DEF SizeOutOfRange
    <2>3. Layout(stream, ends)'
      BY <1>2, <2>1 DEF Layout
    <2>4. Rest(stream, ends[n] + 2)'
      <3> HIDE DEF n
      <3>1. PICK at \in Nat : at = ends[n] + 2
        BY <1>3
      <3>5. Len(stream) = at + 0 + Len(up) /\ Len(up) \in Nat
        BY <1>1, <1>3, <1>4, <3>1
      <3>6. ASSUME NEW i \in 1..Len(up) PROVE up[i] = stream[at + 0 + i]
        <4>1. at + 0 + i = (ends[n] + 2) + i
          BY <1>3, <3>1, <3>5
        <4> QED
          BY <1>4, <4>1
      <3>2. /\ Len(stream) = at + 0 + Len(up)
            /\ \A i \in 1..Len(up) : up[i] = stream[at + 0 + i]
        BY <3>5, <3>6
      <3>3. Rest(stream, at)'
        BY <2>1, <3>2 DEF Rest
      <3>4. (ends[n] + 2)' = at
        BY <2>1, <3>1 DEF n
      <3> QED
        BY <3>3, <3>4 DEF Rest
    <2>5. Aligned'
      BY <1>2, <2>1, <2>3, <2>4 DEF Aligned, SizeTokens
    <2>6. StreamKeepsPackets'
      BY <1>1, <2>1 DEF StreamKeepsPackets, WellFramed
    <2>7. Len(buffer') <= want' /\ buffer' \in Seq(Token)
      BY <1>1, <2>1, <2>2
    <2> QED
      BY <1>1, <1>5, <2>1, <2>2, <2>5, <2>6, <2>7 DEF ReadInv, SizeTokens
  <1> QED
    BY <1>8, <1>9

\* The body the server judges lies where the next request has its body, and
\* behind that request begins another one or nothing.
LEMMA ReadBody == ReadInv /\ BodyReceived => ReadInv'
  <1> SUFFICES ASSUME ReadInv, BodyReceived PROVE ReadInv'
    OBVIOUS
  <1> DEFINE n == Len(taken)
             request == sent[n + 1]
             tokens == PacketTokens(request)
             all == RequestTokens(request)
  <1>1. /\ sent \in Seq(Requests) /\ up \in Seq(Token) /\ buffer \in Seq(Token)
        /\ n \in Nat /\ n < Len(sent) /\ taken \in Seq(Packet)
        /\ phase = "body" /\ want = SizeOf(request) /\ Len(buffer) = want
        /\ want \in 1..MaxBody /\ MaxBody \in Nat /\ want \in Nat /\ want >= 1
        /\ Len(up) \in Nat /\ StreamKeepsPackets
    BY WireAssumption DEF ReadInv, BodyReceived
  <1>2. PICK stream \in Seq(Token), ends \in [0..Len(sent) -> Nat] :
          Layout(stream, ends) /\ Rest(stream, ends[n] + 2)
    BY <1>1 DEF ReadInv, Aligned, SizeTokens
  <1>12. /\ ends[n] \in Nat
         /\ request \in Requests
         /\ ends[n + 1] = ends[n] + Len(all)
         /\ \A i \in 1..Len(all) : stream[ends[n] + i] = all[i]
    <2>1. /\ n \in Nat /\ n <= Len(sent) /\ n < Len(sent) /\ sent \in Seq(Requests)
          /\ Layout(stream, ends)
      BY <1>1, <1>2
    <2> HIDE DEF n
    <2> QED
      BY <2>1, NextRequest
  <1>13. /\ Len(tokens) \in Nat /\ Len(all) = Len(tokens) + 1
         /\ \A i \in 1..Len(tokens) : all[i + 1] = tokens[i]
    <2> HIDE DEF request
    <2> QED
      BY <1>12, RequestShape
  <1>3. /\ ends[n] \in Nat
        /\ request \in Requests
        /\ ends[n + 1] = ends[n] + (Len(tokens) + 1)
        /\ \A i \in 1..Len(tokens) : stream[ends[n] + (i + 1)] = tokens[i]
    <2> HIDE DEF request, n, tokens, all
    <2>1. ASSUME NEW i \in 1..Len(tokens) PROVE stream[ends[n] + (i + 1)] = tokens[i]
      <3>1. i + 1 \in 1..Len(all)
        BY <1>13
      <3> QED
        BY <1>12, <1>13, <3>1
    <2> QED
      BY <1>12, <1>13, <2>1
  <1>4. /\ Len(request.payload) \in Nat /\ Len(tokens) \in Nat /\ Len(tokens) >= 4
        /\ request.defect = "none" =>
                Len(tokens) = want + 1 /\ want = Len(request.payload) + 3
    <2>1. request.payload \in Seq(Bytes)
      BY <1>3, WireAssumption
    <2>2. /\ Len(request.payload) \in Nat
          /\ Len(tokens) = IF request.defect = "nul"
                    THEN Len(request.payload) + 5 ELSE Len(request.payload) + 4
      <3> HIDE DEF request
      <3> QED
        BY <1>3, <2>1, TokensShape
    <2>3. request.defect = "none" => want = Len(request.payload) + 3
      BY <1>1 DEF SizeOf
    <2> QED
      BY <2>2, <2>3
  <1>5. /\ Len(stream) = (ends[n] + 2) + want + Len(up)
        /\ \A i \in 1..want : buffer[i] = stream[(ends[n] + 2) + i]
        /\ \A i \in 1..Len(up) : up[i] = stream[(ends[n] + 2) + want + i]
    BY <1>1, <1>2 DEF Rest
  <1>11. /\ ends[n] \in Nat /\ Len(tokens) \in Nat /\ want \in Nat /\ want >= 1
         /\ ends[n + 1] = ends[n] + (Len(tokens) + 1)
         /\ Len(stream) = (ends[n] + 2) + want + Len(up) /\ Len(up) \in Nat
    BY <1>1, <1>3, <1>4, <1>5
  <1>6. ASSUME NEW i \in 1..want, i + 1 <= Len(tokens)
        PROVE  buffer[i] = tokens[i + 1]
    <2>1. (ends[n] + 2) + i = ends[n] + ((i + 1) + 1) /\ i + 1 \in 1..Len(tokens)
      <3> DEFINE e == ends[n]
                 c == Len(tokens)
      <3>1. e \in Nat /\ c \in Nat /\ i \in Nat /\ i >= 1 /\ i + 1 <= c
        BY <1>6, <1>11
      <3> HIDE DEF e, c
      <3>2. (e + 2) + i = e + ((i + 1) + 1) /\ i + 1 \in 1..c
        BY <3>1
      <3> QED
        BY <3>2 DEF e, c
    <2>2. /\ buffer[i] = stream[(ends[n] + 2) + i]
          /\ stream[ends[n] + ((i + 1) + 1)] = tokens[i + 1]
      BY <1>3, <1>5, <2>1
    <2> QED
      BY <2>1, <2>2
  <1>7. ASSUME NEW i \in 1..want, i + 1 = Len(tokens) + 1
        PROVE  buffer[i] = SizePart
    <2> DEFINE next == sent[(n + 1) + 1]
    <2>1. buffer[i] = stream[ends[n + 1] + 1] /\ Len(stream) > ends[n + 1]
      <3>1. /\ (ends[n] + 2) + i = ends[n + 1] + 1 /\ i <= want /\ i \in Nat
            /\ ends[n + 1] \in Nat
        <4> DEFINE e == ends[n]
                   d == ends[n + 1]
                   c == Len(tokens)
        <4>1. /\ e \in Nat /\ c \in Nat /\ d = e + (c + 1)
              /\ i \in Nat /\ i <= want /\ i = c
          BY <1>7, <1>11
        <4> HIDE DEF e, d, c
        <4>2. (e + 2) + i = d + 1 /\ d \in Nat
          BY <4>1
        <4> QED
          BY <4>1, <4>2 DEF e, d
      <3>2. buffer[i] = stream[(ends[n] + 2) + i]
        BY <1>5
      <3>3. buffer[i] = stream[ends[n + 1] + 1]
        BY <3>1, <3>2, Zenon
      <3>4. Len(stream) > ends[n + 1]
        <4> DEFINE e == ends[n]
                   d == ends[n + 1]
                   l == Len(stream)
                   u == Len(up)
                   w == want
        <4>1. /\ e \in Nat /\ d \in Nat /\ w \in Nat /\ u \in Nat /\ i \in Nat
              /\ l = (e + 2) + w + u /\ i <= w /\ (e + 2) + i = d + 1
          <5> HIDE DEF tokens, n, request, next
          <5> QED
            BY <1>11, <3>1
        <4> HIDE DEF e, d, l, u, w
        <4>2. l > d
          BY <4>1
        <4> QED
          BY <4>2 DEF l, d
      <3> QED
        BY <3>3, <3>4
    <2>2. /\ ends[n + 1] \in Nat /\ next \in Requests
          /\ \A j \in 1..Len(RequestTokens(next)) :
                stream[ends[n + 1] + j] = RequestTokens(next)[j]
      <3>1. /\ n + 1 \in Nat /\ n + 1 <= Len(sent)
        BY <1>1
      <3> DEFINE m == n + 1
      <3> HIDE DEF n, m
      <3>2. m \in Nat /\ m <= Len(sent) /\ sent \in Seq(Requests) /\ Len(stream) > ends[m]
        BY <1>1, <2>1, <3>1 DEF m
      <3>3. /\ ends[m] \in Nat /\ m < Len(sent)
            /\ sent[m + 1] \in Requests
            /\ \A j \in 1..Len(RequestTokens(sent[m + 1])) :
                stream[ends[m] + j] = RequestTokens(sent[m + 1])[j]
        BY <1>2, <3>2, NextRequest
      <3> QED
        BY <3>3 DEF m
    <2> HIDE DEF next
    <2>3. RequestTokens(next)[1] = SizePart /\ 1 \in 1..Len(RequestTokens(next))
      <3>1. /\ Len(PacketTokens(next)) \in Nat /\ RequestTokens(next)[1] = SizePart
            /\ Len(RequestTokens(next)) = Len(PacketTokens(next)) + 1
        BY <2>2, RequestShape
      <3> QED
        BY <3>1
    <2>4. stream[ends[n + 1] + 1] = SizePart
      BY <2>2, <2>3
    <2> QED
      BY <2>1, <2>4
  <1>8. /\ Decodable(buffer) <=> request.defect = "none"
        /\ request.defect = "none" => Decoded(buffer) =
                [id |-> request.id, type |-> request.type, payload |-> request.payload]
    <2> HIDE DEF request
    <2>1. Len(buffer) = SizeOf(request) /\ Len(buffer) >= 1 /\ Len(buffer) = want
      BY <1>1
    <2>2. /\ \A i \in 1..Len(buffer) : i + 1 <= Len(tokens) => buffer[i] = tokens[i + 1]
          /\ \A i \in 1..Len(buffer) : i + 1 = Len(tokens) + 1 =>
                buffer[i] = SizePart
      BY <1>6, <1>7, <2>1
    <2>3. request \in Requests /\ buffer \in Seq(Token)
      BY <1>1, <1>3
    <2> QED
      BY <2>1, <2>2, <2>3, BodyJudged
  <1>9. CASE ~ Decodable(buffer)
    <2>1. /\ phase' = "refused" /\ sent' = sent /\ up' = up /\ want' = want
          /\ buffer' = buffer /\ taken' = taken
      BY <1>9 DEF BodyReceived, Refuse
    <2>2. ~ WellFramed(request)
      BY <1>8, <1>9 DEF WellFramed
    <2>3. StreamKeepsPackets'
      BY <1>1, <2>1, <2>2 DEF StreamKeepsPackets, WellFramed
    <2> QED
      BY <1>1, <2>1, <2>3 DEF ReadInv
  <1>10. CASE Decodable(buffer)
    <2> DEFINE packet == [id |-> request.id, type |-> request.type, payload |-> request.payload]
    <2>1. /\ taken' = Append(taken, packet)
          /\ phase' \in {"serve", "size"} /\ want' = 2 /\ buffer' = << >>
          /\ sent' = sent /\ up' = up
      BY <1>8, <1>10 DEF BodyReceived, SizeTokens
    <2>2. request.defect = "none" /\ WellFramed(request)
      <3>1. Len(request.payload) + 3 <= MaxBody
        BY <1>1, <1>4, <1>8, <1>10
      <3> QED
        BY <1>8, <1>10, <3>1 DEF WellFramed, MinBody
    <2>3. packet \in Packet
      BY <1>3, WireAssumption DEF Packet, RequestIds, PacketTypes
    <2>4. /\ taken' \in Seq(Packet) /\ Len(taken') = n + 1 /\ taken'[n + 1] = packet
          /\ \A i \in 1..n : taken'[i] = taken[i]
      <3> HIDE DEF packet
      <3> QED
        BY <1>1, <2>1, <2>3
    <2>5. StreamKeepsPackets'
      <3>1. ASSUME NEW i \in DOMAIN taken'
            PROVE  /\ WellFramed(sent[i])
                   /\ taken'[i] = [id |-> sent[i].id, type |-> sent[i].type,
                                   payload |-> sent[i].payload]
        <4>1. CASE i = n + 1
          BY <2>2, <2>4, <4>1
        <4>2. CASE i # n + 1
          <5>1. i \in 1..n /\ i \in DOMAIN taken
            BY <1>1, <2>4, <4>2
          <5> QED
            BY <1>1, <2>4, <5>1 DEF StreamKeepsPackets
        <4> QED
          BY <4>1, <4>2
      <3> QED
        BY <2>1, <3>1 DEF StreamKeepsPackets, WellFramed
    <2>6. Layout(stream, ends)'
      BY <1>2, <2>1 DEF Layout
    <2>7. PICK at \in Nat : at = ends[n] + 2 + want
      BY <1>1, <1>3
    <2>8. ends[n + 1] = at
      <3>1. Len(tokens) = want + 1
        BY <1>4, <1>8, <1>10
      <3>2. ends[n + 1] = ends[n] + ((want + 1) + 1) /\ ends[n] \in Nat /\ want \in Nat
        BY <1>11, <3>1
      <3> DEFINE e == ends[n]
                 d == ends[n + 1]
      <3>3. d = e + ((want + 1) + 1) /\ e \in Nat /\ want \in Nat /\ at = e + 2 + want
        BY <2>7, <3>2
      <3> HIDE DEF e, d
      <3>4. d = at
        BY <3>3
      <3> QED
        BY <3>4 DEF d
    <2>9. Rest(stream, at)'
      <3>1. Len(stream) = at + 0 + Len(up)
        BY <1>1, <1>3, <1>5, <2>7
      <3>2. ASSUME NEW i \in 1..Len(up) PROVE up[i] = stream[at + 0 + i]
        <4>1. at + 0 + i = (ends[n] + 2) + want + i
          BY <1>1, <1>3, <2>7
        <4> QED
          BY <1>5, <4>1
      <3> QED
        BY <2>1, <3>1, <3>2 DEF Rest
    <2>10. Aligned'
      <3>1. ends[Len(taken')] + (IF phase' = "body" THEN SizeTokens ELSE 0) = at
        BY <2>1, <2>4, <2>7, <2>8
      <3>2. Rest(stream, ends[Len(taken)] + (IF phase = "body" THEN SizeTokens ELSE 0))'
        BY <2>9, <3>1 DEF Rest
      <3> QED
        BY <1>2, <2>1, <2>6, <3>2 DEF Aligned
    <2>11. /\ Len(buffer') <= want' /\ buffer' \in Seq(Token) /\ want' \in 1..MaxBody
           /\ taken' # << >> /\ Len(taken') <= Len(sent')
      <3>1. taken' # << >>
        BY <2>4, <1>1
      <3>2. Len(taken') <= Len(sent')
        BY <1>1, <2>1, <2>4
      <3>3. want' \in 1..MaxBody
        BY <1>1, <2>1, WireAssumption
      <3>4. Len(buffer') <= want' /\ buffer' \in Seq(Token)
        BY <2>1
      <3> QED
        BY <3>1, <3>2, <3>3, <3>4
    <2> QED
      BY <1>1, <2>1, <2>4, <2>5, <2>10, <2>11 DEF ReadInv, SizeTokens
  <1> QED
    BY <1>9, <1>10

-----------------------------------------------------------------------------
(* Chunks *)

\* The bytes of which a code point consists.
LEMMA CodePoints ==
    /\ \A byte \in Bytes : Continuation(byte) /\ byte \notin FinalBytes =>
            byte \in {Byte("h", 2), Byte("l", 1)}
    /\ \A byte \in Bytes : byte \notin FinalBytes => Continuation(NextByte[byte])
    /\ NextByte[Byte("h", 2)] = Byte("l", 1)
    /\ NextByte[Byte("l", 1)] = Byte("l", 2) /\ Byte("l", 2) \in FinalBytes
  <1>1. \A byte \in Bytes : byte \notin FinalBytes =>
            byte \in {Byte("e", 1), Byte("h", 1), Byte("h", 2), Byte("l", 1)}
    BY DEF Bytes, FinalBytes, Byte
  <1>2. \A byte \in Bytes \ FinalBytes : NextByte[byte] =
            CASE byte = Byte("e", 1) -> Byte("e", 2)
              [] byte = Byte("h", 1) -> Byte("h", 2)
              [] byte = Byte("h", 2) -> Byte("l", 1)
              [] byte = Byte("l", 1) -> Byte("l", 2)
    BY DEF NextByte
  <1>3. {Byte("e", 1), Byte("h", 1), Byte("h", 2), Byte("l", 1)} \subseteq Bytes \ FinalBytes
    BY DEF Bytes, FinalBytes, Byte
  <1>4. /\ NextByte[Byte("e", 1)] = Byte("e", 2) /\ NextByte[Byte("h", 1)] = Byte("h", 2)
        /\ NextByte[Byte("h", 2)] = Byte("l", 1) /\ NextByte[Byte("l", 1)] = Byte("l", 2)
    BY <1>2, <1>3 DEF Byte
  <1>5. /\ Byte("l", 2) \in FinalBytes
        /\ ~ Continuation(Byte("e", 1)) /\ ~ Continuation(Byte("h", 1))
        /\ Continuation(Byte("e", 2)) /\ Continuation(Byte("h", 2))
        /\ Continuation(Byte("l", 1)) /\ Continuation(Byte("l", 2))
    BY DEF Continuation, FinalBytes, Byte
  <1> QED
    BY <1>1, <1>4, <1>5

\* A chunk is some of what is left, and within the limit.
LEMMA ChunkFits ==
    ASSUME NEW rest \in Seq(Bytes)
    PROVE  /\ ChunkLength(rest) \in 0..Len(rest) /\ ChunkLength(rest) <= MaxChunk
           /\ rest # << >> => ChunkLength(rest) >= 1
  <1> DEFINE n == Utf8PrefixSize(rest, MaxChunk)
  <1>1. MaxChunk \in Nat /\ MaxChunk >= 1 /\ Len(rest) \in Nat /\ (rest # << >> => Len(rest) >= 1)
    BY WireAssumption
  <1>2. n \in 0..Smaller(Len(rest), MaxChunk)
    BY <1>1, LongestPrefix
  <1> HIDE DEF n
  <1>3. ChunkLength(rest) = IF n # 0 THEN n ELSE Smaller(MaxChunk, Len(rest))
    BY DEF ChunkLength, n
  <1> QED
    BY <1>1, <1>2, <1>3 DEF Smaller

\* A chunk of the UTF-8 of a text ends with a whole code point: four bytes do
\* not all continue one.
LEMMA ChunkWhole ==
    ASSUME NEW bytes \in Seq(Bytes), Encodes(bytes), NEW from \in Nat, from < Len(bytes),
           NEW rest \in Seq(Bytes), Len(rest) = Len(bytes) - from,
           \A j \in 1..Len(rest) : rest[j] = bytes[from + j]
    PROVE  rest[ChunkLength(rest)] \in FinalBytes
  <1> DEFINE n == Utf8PrefixSize(rest, MaxChunk)
             m == Smaller(Len(rest), MaxChunk)
             l == Len(rest)
  <1>1. MaxChunk \in Nat /\ MaxChunk >= 4 /\ l \in Nat /\ l >= 1
    BY WireAssumption
  <1>2. /\ n \in 0..m
        /\ n = 0 \/ n = l \/ ~ Continuation(rest[n + 1])
        /\ \A k \in (n + 1)..m : k < l /\ Continuation(rest[k + 1])
    BY <1>1, LongestPrefix
  <1> HIDE DEF n
  <1>3. /\ m \in Nat /\ m <= l /\ (m = l \/ m = MaxChunk) /\ m >= 1
    BY <1>1 DEF Smaller
  <1> HIDE DEF m, l
  <1>4. ASSUME NEW j \in 1..l
        PROVE  /\ rest[j] \in Bytes
               /\ rest[j] \notin FinalBytes => j < l /\ rest[j + 1] = NextByte[rest[j]]
               /\ Continuation(rest[j]) /\ j > 1 => rest[j - 1] \notin FinalBytes
    <2>1. /\ from + j \in DOMAIN bytes /\ from + j \in Nat /\ rest[j] = bytes[from + j]
          /\ (from + j) + 1 = from + (j + 1) /\ (from + j) - 1 = from + (j - 1)
          /\ (from + j < Len(bytes) => j < l)
          /\ (j < l => rest[j + 1] = bytes[from + (j + 1)])
          /\ (j > 1 => rest[j - 1] = bytes[from + (j - 1)])
      <3>1. /\ j \in 1..Len(rest) /\ from + j \in 1..Len(bytes)
            /\ (j < l => j + 1 \in 1..Len(rest)) /\ (j > 1 => j - 1 \in 1..Len(rest))
            /\ (from + j < Len(bytes) => j < l)
        BY <1>1 DEF l
      <3> QED
        BY <3>1
    <2>2. /\ bytes[from + j] \notin FinalBytes =>
                from + j < Len(bytes) /\ bytes[(from + j) + 1] = NextByte[bytes[from + j]]
          /\ Continuation(bytes[from + j]) => bytes[(from + j) - 1] \notin FinalBytes
      BY <2>1, Zenon DEF Encodes
    <2>3. rest[j] \in Bytes
      BY DEF l
    <2> QED
      BY <2>1, <2>2, <2>3
  <1>5. n # 0
    <2> SUFFICES ASSUME n = 0 PROVE FALSE
      OBVIOUS
    <2>1. \A k \in 1..m : k < l /\ Continuation(rest[k + 1])
      BY <1>2
    <2>2. m < l
      BY <1>3, <2>1
    <2>3. 1 \in 1..m /\ 2 \in 1..m /\ 3 \in 1..m /\ 4 \in 1..m /\ 4 < l
      BY <1>1, <1>3, <2>2
    <2>4. /\ Continuation(rest[2]) /\ Continuation(rest[3])
          /\ Continuation(rest[4]) /\ Continuation(rest[5])
      <3>1. /\ Continuation(rest[1 + 1]) /\ Continuation(rest[2 + 1])
            /\ Continuation(rest[3 + 1]) /\ Continuation(rest[4 + 1])
        BY <2>1, <2>3, Zenon
      <3> QED
        BY <3>1
    <2>5. 2 \in 1..l /\ 3 \in 1..l /\ 4 \in 1..l /\ 5 \in 1..l
      BY <1>1, <2>3
    <2>6. /\ rest[2] \in Bytes /\ rest[2] \notin FinalBytes /\ rest[3] = NextByte[rest[2]]
          /\ rest[3] \in Bytes /\ rest[3] \notin FinalBytes /\ rest[4] = NextByte[rest[3]]
          /\ rest[4] \notin FinalBytes
      <3>1. rest[2] \notin FinalBytes /\ rest[3] \notin FinalBytes /\ rest[4] \notin FinalBytes
        BY <1>4, <2>4, <2>5
      <3> QED
        BY <1>4, <2>5, <3>1
    <2>7. rest[2] \in {Byte("h", 2), Byte("l", 1)} /\ rest[3] \in {Byte("h", 2), Byte("l", 1)}
      BY <2>4, <2>6, CodePoints
    <2>8. rest[3] = Byte("l", 1)
      <3>1. rest[2] = Byte("l", 1) => rest[3] = Byte("l", 2)
        BY <2>6, CodePoints
      <3>2. rest[2] # Byte("l", 1)
        BY <2>6, <3>1, CodePoints
      <3> QED
        BY <2>6, <2>7, <3>2, CodePoints
    <2> QED
      BY <2>6, <2>8, CodePoints
  <1>6. n \in 1..l
    <2>1. n \in 0..m
      BY <1>2
    <2> QED
      BY <1>1, <1>3, <1>5, <2>1
  <1>7. rest[n] \in FinalBytes
    <2> SUFFICES ASSUME rest[n] \notin FinalBytes PROVE FALSE
      OBVIOUS
    <2>1. n < l /\ rest[n + 1] = NextByte[rest[n]] /\ rest[n] \in Bytes
      BY <1>4, <1>6
    <2>2. Continuation(rest[n + 1])
      BY <2>1, CodePoints
    <2> QED
      BY <1>2, <1>5, <1>6, <2>1, <2>2
  <1> QED
    BY <1>5, <1>7 DEF ChunkLength, n

-----------------------------------------------------------------------------
(* Answering *)

WriteInv ==
    /\ text \in Responses \cup {<< >>} /\ offset \in 0..Len(text)
    /\ packets \in Seq(Seq(Token)) /\ out \in Seq(Token) /\ down \in Seq(Token)
    /\ phase \in {"size", "body", "serve", "refused"} => packets = << >>
    /\ phase \notin {"send", "closed"} => out = << >>
    /\ phase \in {"encode", "send"} =>
        \E before \in Seq(Bytes) : PayloadBytes(Reply) = before \o SubSeq(text, 1, offset)
    /\ phase = "send" => offset = Len(text)
    /\ phase = "encode" /\ Encodes(text) =>
        \A i \in DOMAIN packets : EndsWhole(PayloadBytes(packets[i]))
    /\ Framed(Reply, TakenIds)

\* What is to be answered is made of bytes.
LEMMA TextIsBytes == \A t \in Responses \cup {<< >>} : t \in Seq(Bytes)
  <1>1. << >> \in Seq(Bytes)
    OBVIOUS
  <1>2. \A response \in Responses : response \in Seq(Bytes)
    BY WireAssumption
  <1> QED
    BY <1>1, <1>2

\* All that has been and is to be sent is a stream of tokens.
LEMMA ReplyType ==
    ASSUME packets \in Seq(Seq(Token)), out \in Seq(Token), down \in Seq(Token)
    PROVE  /\ FlattenSeq(packets) \in Seq(Token) /\ Reply \in Seq(Token)
           /\ PayloadBytes(Reply) \in Seq(Bytes)
  <1>1. FlattenSeq(packets) \in Seq(Token)
    BY FlattenType
  <1>2. Reply \in Seq(Token)
    BY <1>1, Concat DEF Reply
  <1> QED
    BY <1>1, <1>2, SaidType

\* Only what was requested is taken.
LEMMA TakenAreRequested == ReadInv => TakenIds \in SUBSET RequestIds
  <1> SUFFICES ASSUME ReadInv, NEW k \in DOMAIN taken PROVE taken[k].id \in RequestIds
    BY DEF TakenIds
  <1>1. taken \in Seq(Packet)
    BY DEF ReadInv
  <1>2. taken[k] \in Packet
    BY <1>1
  <1> QED
    BY <1>2 DEF Packet

\* A stream that is framed for some requests is so for more.
LEMMA FramedForMore ==
    ASSUME NEW stream, NEW ids, NEW more, ids \subseteq more, Framed(stream, ids)
    PROVE  Framed(stream, more)
  BY DEF Framed

\* Nothing has been answered at the start.
LEMMA WriteInit == Init => WriteInv
  <1> SUFFICES ASSUME Init PROVE WriteInv
    OBVIOUS
  <1>1. /\ phase = "size" /\ text = << >> /\ offset = 0
        /\ packets = << >> /\ out = << >> /\ down = << >>
    BY DEF Init
  <1>2. packets \in Seq(Seq(Token)) /\ out \in Seq(Token) /\ down \in Seq(Token)
    BY <1>1
  <1>3. FlattenSeq(packets) = << >>
    <2>1. \A i \in 1..Len(packets) : packets[i] = << >>
      BY <1>1
    <2> QED
      BY <1>2, <2>1, FlattenNothing
  <1>4. Reply = << >>
    BY <1>1, <1>2, <1>3 DEF Reply
  <1>5. Framed(Reply, TakenIds)
    BY <1>4 DEF Framed, Starts
  <1> QED
    BY <1>1, <1>2, <1>5 DEF WriteInv

\* The answering side rests.
LEMMA WriteQuiet ==
    ASSUME WriteInv, UNCHANGED sending, TakenIds \subseteq TakenIds',
           \/ phase' \in {phase, "closed"}
           \/ /\ phase \in {"size", "body"}
              /\ phase' \in {"size", "body", "serve", "refused"}
    PROVE  WriteInv'
  <1>1. /\ text' = text /\ offset' = offset /\ packets' = packets
        /\ out' = out /\ down' = down
    BY DEF sending
  <1>2. Reply' = Reply
    BY <1>1 DEF Reply
  <1>3. Framed(Reply', TakenIds')
    BY <1>2, FramedForMore DEF WriteInv
  <1>4. CASE phase' = phase
    BY <1>1, <1>2, <1>3, <1>4 DEF WriteInv
  <1>5. CASE phase' = "closed"
    BY <1>1, <1>2, <1>3, <1>5 DEF WriteInv
  <1>6. CASE /\ phase \in {"size", "body"}
             /\ phase' \in {"size", "body", "serve", "refused"}
    BY <1>1, <1>2, <1>3, <1>6 DEF WriteInv
  <1> QED
    BY <1>4, <1>5, <1>6

\* A response is to be encoded from its first byte.
LEMMA WriteRespond ==
    ASSUME WriteInv, NEW response \in Responses, Respond(response)
    PROVE  WriteInv'
  <1>1. /\ phase = "serve" /\ phase' = "encode" /\ text' = response /\ offset' = 0
        /\ packets' = packets /\ out' = out /\ down' = down /\ taken' = taken
    BY DEF Respond, receiving
  <1>2. /\ packets = << >> /\ out = << >>
        /\ packets \in Seq(Seq(Token)) /\ out \in Seq(Token) /\ down \in Seq(Token)
        /\ Framed(Reply, TakenIds)
    BY <1>1 DEF WriteInv
  <1>3. Reply' = Reply /\ TakenIds' = TakenIds
    BY <1>1 DEF Reply, TakenIds
  <1>4. PayloadBytes(Reply) \in Seq(Bytes) /\ response \in Seq(Bytes)
    BY <1>2, ReplyType, WireAssumption
  <1>5. PayloadBytes(Reply) = PayloadBytes(Reply) \o SubSeq(response, 1, 0)
    <2>1. SubSeq(response, 1, 0) = << >>
      BY <1>4
    <2> QED
      BY <1>4, <2>1, Concat
  <1>6. offset' \in 0..Len(text')
    BY <1>1, <1>4
  <1>7. \E before \in Seq(Bytes) :
            PayloadBytes(Reply)' = before \o SubSeq(text', 1, offset')
    BY <1>1, <1>3, <1>4, <1>5
  <1> QED
    BY <1>1, <1>2, <1>3, <1>6, <1>7 DEF WriteInv

\* An encoded packet stands behind all that is said already.
LEMMA WriteEncode ==
    ASSUME ReadInv, WriteInv, Encode
    PROVE  WriteInv'
  <1> DEFINE l == Len(text)
             rest == SubSeq(text, offset + 1, l)
             n == ChunkLength(rest)
             chunk == SubSeq(rest, 1, n)
             id == Last(taken).id
             packet == EncodePacket(id, "value", chunk)
             said == PayloadBytes(Reply)
  <1>1. /\ phase = "encode" /\ text' = text /\ out' = out /\ down' = down
        /\ taken' = taken
    BY DEF Encode, receiving
  <1>2. /\ text \in Seq(Bytes) /\ l \in Nat /\ offset \in Nat /\ offset <= l
        /\ packets \in Seq(Seq(Token)) /\ out \in Seq(Token) /\ down \in Seq(Token)
        /\ out = << >> /\ Framed(Reply, TakenIds)
    BY <1>1, TextIsBytes DEF WriteInv
  <1>3. /\ rest \in Seq(Bytes) /\ Len(rest) = l - offset
        /\ \A j \in 1..Len(rest) : rest[j] = text[offset + j]
    <2>1. /\ offset + 1 \in Nat /\ 1 <= offset + 1 /\ offset + 1 <= l + 1
          /\ (l - (offset + 1)) + 1 = l - offset
          /\ \A j \in 1..(l - offset) : ((offset + 1) + j) - 1 = offset + j
      BY <1>2
    <2> DEFINE a == offset + 1
    <2>2. a \in Nat /\ 1 <= a /\ a <= l + 1 /\ l <= Len(text)
      BY <1>2
    <2> HIDE DEF a, l
    <2>3. /\ SubSeq(text, a, l) \in Seq(Bytes) /\ Len(SubSeq(text, a, l)) = (l - a) + 1
          /\ \A j \in 1..((l - a) + 1) : SubSeq(text, a, l)[j] = text[(a + j) - 1]
      BY <1>2, <2>2, SubSeqParts
    <2> QED
      BY <2>1, <2>3 DEF a
  <1> HIDE DEF rest
  <1>4. /\ n \in 0..Len(rest) /\ n <= MaxChunk /\ n \in Nat
        /\ rest # << >> => n >= 1
    BY <1>3, ChunkFits
  <1> HIDE DEF n
  <1>5. /\ chunk \in Seq(Bytes) /\ Len(chunk) = n
        /\ \A j \in 1..n : chunk[j] = rest[j]
    BY <1>3, <1>4
  <1> HIDE DEF chunk
  <1>6. id \in TakenIds /\ id \in RequestIds
    <2>1. taken \in Seq(Packet) /\ taken # << >>
      BY <1>1 DEF ReadInv
    <2>2. Len(taken) \in DOMAIN taken /\ Last(taken) = taken[Len(taken)]
      BY <2>1 DEF Last
    <2>3. TakenIds \in SUBSET RequestIds
      BY TakenAreRequested
    <2> QED
      BY <2>2, <2>3 DEF TakenIds
  <1> HIDE DEF id
  <1>7. packet \in Seq(Token) /\ PayloadBytes(packet) = chunk
    <2>1. chunk \in Seq(Token) /\ "value" \in PacketTypes
      BY <1>5 DEF Token, PacketTypes
    <2> QED
      BY <1>5, <1>6, <2>1, PacketShape, PayloadOfPacket
  <1> HIDE DEF packet
  <1>8. Reply \in Seq(Token) /\ said \in Seq(Bytes) /\ FlattenSeq(packets) \in Seq(Token)
    BY <1>2, ReplyType
  <1>9. TakenIds' = TakenIds
    BY <1>1 DEF TakenIds
  <1>10. CASE rest # << >> \/ packets = << >>
    <2>1. phase' = phase /\ offset' = offset + n /\ packets' = Append(packets, packet)
      BY <1>10 DEF Encode, rest, n, chunk, id, packet
    <2>2. packets' = packets \o << packet >> /\ packets' \in Seq(Seq(Token))
      BY <1>2, <1>7, <2>1
    <2>3. Reply' = Reply \o packet
      <3>1. <<packet>> \in Seq(Seq(Token))
        BY <1>7
      <3>2. FlattenSeq(packets') = FlattenSeq(packets) \o packet
        <4>1. FlattenSeq(packets \o <<packet>>) = FlattenSeq(packets) \o FlattenSeq(<<packet>>)
          BY <1>2, <3>1, FlattenConcat
        <4>2. FlattenSeq(<<packet>>) = packet
          BY <1>7, FlattenOne
        <4> QED
          BY <2>2, <4>1, <4>2
      <3> DEFINE d == down \o out
                 f == FlattenSeq(packets)
      <3>3. d \in Seq(Token) /\ f \in Seq(Token)
        BY <1>2, <1>8, Concat
      <3>4. Reply = d \o f /\ Reply' = d \o (f \o packet)
        BY <1>1, <3>2 DEF Reply
      <3> HIDE DEF d, f
      <3>5. (d \o f) \o packet = d \o (f \o packet)
        BY <1>7, <3>3, Concat
      <3> QED
        BY <3>4, <3>5
    <2>4. Framed(Reply', TakenIds')
      <3>1. Framed(Reply \o EncodePacket(id, "value", chunk), TakenIds)
        BY <1>2, <1>4, <1>5, <1>6, <1>8, TakenAreRequested, FramedMore
      <3> QED
        BY <1>9, <2>3, <3>1 DEF packet
    <2>5. offset' \in 0..l
      BY <1>2, <1>3, <1>4, <2>1
    <2>6. \E before \in Seq(Bytes) :
              PayloadBytes(Reply)' = before \o SubSeq(text', 1, offset')
      <3>1. PICK before \in Seq(Bytes) : said = before \o SubSeq(text, 1, offset)
        BY <1>1 DEF WriteInv
      <3> DEFINE done == SubSeq(text, 1, offset)
                 more == SubSeq(text, 1, offset + n)
      <3>2. done \in Seq(Bytes) /\ Len(done) = offset /\ \A j \in 1..offset : done[j] = text[j]
        BY <1>2
      <3>3. offset + n \in Nat /\ offset + n <= l
        BY <1>2, <1>3, <1>4
      <3>4. /\ more \in Seq(Bytes) /\ Len(more) = offset + n
            /\ \A j \in 1..(offset + n) : more[j] = text[j]
        BY <1>2, <3>3
      <3> HIDE DEF done, more
      <3>5. more = done \o chunk
        <4>1. Len(more) = Len(done) + Len(chunk)
          BY <1>5, <3>2, <3>4
        <4>2. \A j \in 1..Len(done) : more[j] = done[j]
          BY <1>2, <1>4, <3>2, <3>4
        <4>3. ASSUME NEW j \in 1..Len(chunk) PROVE more[Len(done) + j] = chunk[j]
          <5>1. j \in 1..n /\ j \in 1..Len(rest) /\ offset + j \in 1..(offset + n)
            BY <1>2, <1>3, <1>4, <1>5
          <5> QED
            BY <1>3, <1>5, <3>2, <3>4, <5>1
        <4> QED
          BY <1>5, <3>2, <3>4, <4>1, <4>2, <4>3, ConcatIs
      <3>6. PayloadBytes(Reply') = said \o chunk
        BY <1>7, <1>8, <2>3, PayloadConcat
      <3>7. PayloadBytes(Reply') = before \o more
        <4>1. (before \o done) \o chunk = before \o (done \o chunk)
          BY <1>5, <3>2, Concat
        <4>2. said = before \o done
          BY <3>1 DEF done
        <4> QED
          BY <3>5, <3>6, <4>1, <4>2
      <3> QED
        BY <1>1, <2>1, <3>7 DEF more
    <2>7. ASSUME Encodes(text)
          PROVE  \A i \in DOMAIN packets' : EndsWhole(PayloadBytes(packets'[i]))
      <3>1. EndsWhole(chunk)
        <4>1. CASE rest = << >>
          <5>1. chunk = << >>
            BY <1>3, <1>4, <1>5, <4>1
          <5> QED
            BY <5>1 DEF EndsWhole
        <4>2. CASE rest # << >>
          <5>1. n >= 1 /\ chunk[n] = rest[n] /\ offset < l
            BY <1>2, <1>3, <1>4, <1>5, <4>2
          <5>2. rest[ChunkLength(rest)] \in FinalBytes
            BY <1>2, <1>3, <2>7, <5>1, ChunkWhole
          <5> QED
            BY <1>5, <5>1, <5>2 DEF EndsWhole, n
        <4> QED
          BY <4>1, <4>2
      <3>2. \A i \in DOMAIN packets : EndsWhole(PayloadBytes(packets[i]))
        BY <1>1, <2>7 DEF WriteInv
      <3>3. \A i \in DOMAIN packets' :
                \/ i \in DOMAIN packets /\ packets'[i] = packets[i]
                \/ packets'[i] = packet
        BY <1>2, <1>7, <2>1
      <3> QED
        BY <1>7, <3>1, <3>2, <3>3
    <2> QED
      BY <1>1, <1>2, <2>1, <2>2, <2>4, <2>5, <2>6, <2>7 DEF WriteInv
  <1>11. CASE ~ (rest # << >> \/ packets = << >>)
    <2>1. phase' = "send" /\ packets' = packets /\ offset' = offset
      BY <1>11 DEF Encode, rest
    <2>2. Reply' = Reply
      BY <1>1, <2>1 DEF Reply
    <2>3. offset = l
      BY <1>2, <1>3, <1>11
    <2> QED
      BY <1>1, <1>2, <1>9, <2>1, <2>2, <2>3 DEF WriteInv
  <1> QED
    BY <1>10, <1>11

\* The next packet goes to send_all: what is said stays what it is.
LEMMA WriteNext ==
    ASSUME WriteInv, NextPacket
    PROVE  WriteInv'
  <1>1. /\ phase = "send" /\ out = << >> /\ text' = text /\ offset' = offset
        /\ down' = down /\ taken' = taken
    BY DEF NextPacket, receiving
  <1>2. /\ packets \in Seq(Seq(Token)) /\ out \in Seq(Token) /\ down \in Seq(Token)
        /\ Framed(Reply, TakenIds)
    BY DEF WriteInv
  <1>3. TakenIds' = TakenIds
    BY <1>1 DEF TakenIds
  <1>4. CASE packets = << >>
    <2>1. phase' = "size" /\ packets' = packets /\ out' = out
      BY <1>4 DEF NextPacket
    <2>2. Reply' = Reply
      BY <1>1, <2>1 DEF Reply
    <2> QED
      BY <1>1, <1>2, <1>3, <1>4, <2>1, <2>2 DEF WriteInv
  <1>5. CASE packets # << >>
    <2> DEFINE first == packets[1]
               others == Tail(packets)
    <2>1. out' = first /\ packets' = others /\ phase' = phase
      BY <1>5 DEF NextPacket
    <2>2. /\ first \in Seq(Token) /\ others \in Seq(Seq(Token))
          /\ <<first>> \in Seq(Seq(Token)) /\ packets = <<first>> \o others
      BY <1>2, <1>5
    <2> HIDE DEF first, others
    <2>3. FlattenSeq(packets) = first \o FlattenSeq(others)
      <3>1. FlattenSeq(<<first>> \o others) = FlattenSeq(<<first>>) \o FlattenSeq(others)
        BY <2>2, FlattenConcat
      <3>2. FlattenSeq(<<first>>) = first
        BY <2>2, FlattenOne
      <3> QED
        BY <2>2, <3>1, <3>2
    <2>4. Reply' = Reply
      <3> DEFINE f == FlattenSeq(others)
      <3>1. f \in Seq(Token)
        BY <2>2, FlattenType
      <3>2. Reply = (down \o << >>) \o (first \o f) /\ Reply' = (down \o first) \o f
        BY <1>1, <2>1, <2>3 DEF Reply
      <3> HIDE DEF f
      <3>3. (down \o first) \o f = down \o (first \o f)
        <4>1. down \in Seq(Token) /\ first \in Seq(Token) /\ f \in Seq(Token)
          BY <1>2, <2>2, <3>1
        <4> QED
          BY <4>1, Concat
      <3>4. down \o << >> = down
        <4>1. down \in Seq(Token)
          BY <1>2
        <4> QED
          BY <4>1
      <3> QED
        BY <3>2, <3>3, <3>4
    <2>5. /\ packets' \in Seq(Seq(Token)) /\ out' \in Seq(Token) /\ down' \in Seq(Token)
          /\ Framed(Reply', TakenIds')
      BY <1>1, <1>2, <1>3, <2>1, <2>2, <2>4
    <2> QED
      BY <1>1, <2>1, <2>4, <2>5 DEF WriteInv
  <1> QED
    BY <1>4, <1>5

\* One send of send_all moves the boundary between what is said and what is to
\* be said.
LEMMA WriteSend ==
    ASSUME WriteInv, SendPart
    PROVE  WriteInv'
  <1>1. /\ phase = "send" /\ phase' = phase /\ text' = text /\ offset' = offset
        /\ packets' = packets /\ taken' = taken
    BY DEF SendPart, receiving
  <1>2. /\ packets \in Seq(Seq(Token)) /\ out \in Seq(Token) /\ down \in Seq(Token)
        /\ Framed(Reply, TakenIds)
    BY DEF WriteInv
  <1>3. PICK n \in 1..Len(out) :
            /\ down' = down \o SubSeq(out, 1, n)
            /\ out' = SubSeq(out, n + 1, Len(out))
    BY DEF SendPart
  <1> DEFINE part == SubSeq(out, 1, n)
             left == SubSeq(out, n + 1, Len(out))
             f == FlattenSeq(packets)
  <1>4. part \in Seq(Token) /\ left \in Seq(Token) /\ out = part \o left
    <2>1. n \in Nat /\ n <= Len(out) /\ Len(out) \in Nat
      BY <1>2
    <2>2. part \in Seq(Token) /\ Len(part) = n /\ \A i \in 1..n : part[i] = out[i]
      BY <1>2, <2>1
    <2>3. /\ left \in Seq(Token) /\ Len(left) = Len(out) - n
          /\ \A i \in 1..(Len(out) - n) : left[i] = out[n + i]
      BY <1>2, <2>1
    <2> HIDE DEF part, left
    <2>4. /\ Len(out) = Len(part) + Len(left)
          /\ \A i \in 1..Len(part) : out[i] = part[i]
          /\ \A i \in 1..Len(left) : out[Len(part) + i] = left[i]
      BY <2>1, <2>2, <2>3
    <2> QED
      BY <1>2, <2>2, <2>3, <2>4, ConcatIs
  <1>5. f \in Seq(Token)
    BY <1>2, FlattenType
  <1>6. Reply = (down \o (part \o left)) \o f /\ Reply' = ((down \o part) \o left) \o f
    <2>1. Reply = (down \o out) \o f /\ Reply' = (down' \o out') \o f
      BY <1>1 DEF Reply
    <2> QED
      BY <1>3, <1>4, <2>1
  <1> HIDE DEF part, left, f
  <1>7. down \o part \in Seq(Token) /\ (down \o part) \o left = down \o (part \o left)
    BY <1>2, <1>4, Concat
  <1>8. Reply' = Reply /\ TakenIds' = TakenIds
    BY <1>1, <1>6, <1>7 DEF TakenIds
  <1>9. out' \in Seq(Token) /\ down' \in Seq(Token)
    BY <1>3, <1>4, <1>7 DEF part, left
  <1> QED
    BY <1>1, <1>2, <1>8, <1>9 DEF WriteInv

-----------------------------------------------------------------------------
(* The theorems *)

WireInv == ReadInv /\ WriteInv /\ Len(sent) <= MaxSent

\* What every step of the connection keeps (rcon_server.cpp, rcon_protocol.cpp):
\* the server reads whole requests, and what it has said and has to say is
\* made of whole packets and of the text, as far as it is encoded.
THEOREM WireInvariance == Spec => []WireInv
  <1>1. Init => WireInv
    <2>1. Init => Len(sent) <= MaxSent
      BY WireAssumption DEF Init
    <2> QED
      BY <2>1, ReadInit, WriteInit DEF WireInv
  <1>2. WireInv /\ [Next]_vars => WireInv'
    <2> SUFFICES ASSUME WireInv, [Next]_vars PROVE WireInv'
      OBVIOUS
    <2>1. /\ ReadInv /\ WriteInv /\ Len(sent) <= MaxSent
          /\ phase \in {"size", "body", "serve", "encode", "send", "refused", "closed"}
      BY DEF WireInv, ReadInv
    <2>2. CASE \E request \in Requests : Send(request)
      <3>1. PICK request \in Requests : Send(request)
        BY <2>2
      <3>2. ReadInv'
        BY <2>1, <3>1, ReadSend
      <3>3. UNCHANGED sending /\ phase' = phase /\ TakenIds' = TakenIds
        BY <3>1 DEF Send, TakenIds
      <3>4. WriteInv'
        BY <2>1, <3>3, WriteQuiet
      <3>5. Len(sent') <= MaxSent
        <4>1. sent \in Seq(Requests) /\ Len(sent) < MaxSent /\ sent' = Append(sent, request)
          BY <2>1, <3>1 DEF ReadInv, Send
        <4> QED
          BY <4>1, WireAssumption
      <3> QED
        BY <3>2, <3>4, <3>5 DEF WireInv
    <2>3. CASE \E response \in Responses : Respond(response)
      <3>1. PICK response \in Responses : Respond(response)
        BY <2>3
      <3>2. UNCHANGED receiving /\ phase = "serve" /\ phase' = "encode" /\ sent' = sent
        BY <3>1 DEF Respond, receiving
      <3> QED
        BY <2>1, <3>1, <3>2, ReadQuiet, WriteRespond DEF WireInv
    <2>4. CASE Break
      <3>1. /\ UNCHANGED receiving /\ UNCHANGED sending /\ phase' = "closed"
            /\ sent' = sent /\ TakenIds' = TakenIds
        BY <2>4 DEF Break, receiving, TakenIds
      <3> QED
        BY <2>1, <3>1, ReadQuiet, WriteQuiet DEF WireInv
    <2>5. CASE Recv
      <3>1. UNCHANGED sending /\ phase' = phase /\ sent' = sent /\ TakenIds' = TakenIds
        BY <2>5 DEF Recv, TakenIds
      <3> QED
        BY <2>1, <2>5, <3>1, ReadRecv, WriteQuiet DEF WireInv
    <2>6. CASE SizeReceived
      <3>1. /\ UNCHANGED sending /\ phase = "size" /\ phase' \in {"body", "refused"}
            /\ sent' = sent /\ TakenIds' = TakenIds
        BY <2>6 DEF SizeReceived, Refuse, TakenIds
      <3> QED
        BY <2>1, <2>6, <3>1, ReadSize, WriteQuiet DEF WireInv
    <2>7. CASE BodyReceived
      <3>1. /\ UNCHANGED sending /\ phase = "body" /\ phase' \in {"size", "serve", "refused"}
            /\ sent' = sent /\ (taken' = taken \/ taken' = Append(taken, Decoded(buffer)))
        BY <2>7 DEF BodyReceived, Refuse
      <3>2. TakenIds \subseteq TakenIds'
        <4>1. taken \in Seq(Packet) /\ taken' \in Seq(Packet)
          <5>1. ReadInv'
            BY <2>1, <2>7, ReadBody
          <5> QED
            BY <2>1, <5>1 DEF ReadInv
        <4>2. CASE taken' = taken
          BY <4>2 DEF TakenIds
        <4>3. CASE taken' = Append(taken, Decoded(buffer))
          <5>1. \A k \in DOMAIN taken : k \in DOMAIN taken' /\ taken'[k] = taken[k]
            BY <4>1, <4>3
          <5> QED
            BY <5>1 DEF TakenIds
        <4> QED
          BY <3>1, <4>2, <4>3
      <3> QED
        BY <2>1, <2>7, <3>1, <3>2, ReadBody, WriteQuiet DEF WireInv
    <2>8. CASE Encode
      <3>1. /\ UNCHANGED receiving /\ phase = "encode" /\ phase' \in {"encode", "send"}
            /\ sent' = sent
        BY <2>8 DEF Encode, receiving
      <3> QED
        BY <2>1, <2>8, <3>1, ReadQuiet, WriteEncode DEF WireInv
    <2>9. CASE NextPacket
      <3>1. /\ UNCHANGED receiving /\ phase = "send" /\ phase' \in {"size", "send"}
            /\ sent' = sent
        BY <2>9 DEF NextPacket, receiving
      <3> QED
        BY <2>1, <2>9, <3>1, ReadQuiet, WriteNext DEF WireInv
    <2>10. CASE SendPart
      <3>1. UNCHANGED receiving /\ phase = "send" /\ phase' = "send" /\ sent' = sent
        BY <2>10 DEF SendPart, receiving
      <3> QED
        BY <2>1, <2>10, <3>1, ReadQuiet, WriteSend DEF WireInv
    <2>11. CASE UNCHANGED vars
      <3>1. ReadInv'
        <4>1. /\ sent' = sent /\ up' = up /\ phase' = phase /\ want' = want
              /\ buffer' = buffer /\ taken' = taken
          BY <2>11 DEF vars
        <4>2. StreamKeepsPackets'
          BY <2>1, <4>1 DEF ReadInv, StreamKeepsPackets, WellFramed
        <4>3. Aligned' = Aligned
          BY <4>1 DEF Aligned, Layout, Rest
        <4> QED
          BY <2>1, <4>1, <4>2, <4>3 DEF ReadInv
      <3>2. UNCHANGED sending /\ phase' = phase /\ TakenIds' = TakenIds /\ sent' = sent
        BY <2>11 DEF vars, sending, TakenIds
      <3> QED
        BY <2>1, <3>1, <3>2, WriteQuiet DEF WireInv
    <2> QED
      BY <2>2, <2>3, <2>4, <2>5, <2>6, <2>7, <2>8, <2>9, <2>10, <2>11 DEF Next
  <1> QED
    BY <1>1, <1>2, PTL DEF Spec

\* Type correctness.
THEOREM WireTypeCorrect == Spec => []TypeOK
  <1>1. WireInv => TypeOK
    BY DEF WireInv, ReadInv, WriteInv, TypeOK
  <1> QED
    BY <1>1, WireInvariance, PTL

\* recv_exact, recv_packet and decode_packet_body: the packets taken are the
\* packets sent, however the stream was cut, and only a malformed packet makes
\* the server refuse.
THEOREM WireKeepsPackets == Spec => []StreamKeepsPackets
  <1>1. WireInv => StreamKeepsPackets
    BY DEF WireInv, ReadInv
  <1> QED
    BY <1>1, WireInvariance, PTL

\* encode_response and send_all: what the server says and has still to say is
\* whole packets of the right length, each for a request that was taken.
THEOREM WireReplyFramed == Spec => []ReplyStreamFramed
  <1>1. WireInv => ReplyStreamFramed
    BY ReplyFramed DEF WireInv, WriteInv
  <1> QED
    BY <1>1, WireInvariance, PTL

\* encode_response and send_all: the packets carry the text of the response,
\* all of it and nothing else, and cut no code point of it.
THEOREM WireResponseIntact == Spec => []ResponseIntact
  <1>1. ASSUME WireInv PROVE ResponseIntact
    <2> DEFINE said == PayloadBytes(Reply)
               done == SubSeq(text, 1, offset)
    <2>1. /\ WriteInv /\ text \in Seq(Bytes) /\ offset \in Nat /\ offset <= Len(text)
          /\ packets \in Seq(Seq(Token)) /\ out \in Seq(Token) /\ down \in Seq(Token)
      <3>1. /\ WriteInv /\ text \in Responses \cup {<< >>} /\ offset \in 0..Len(text)
            /\ packets \in Seq(Seq(Token)) /\ out \in Seq(Token) /\ down \in Seq(Token)
        BY <1>1 DEF WireInv, WriteInv
      <3>2. text \in Seq(Bytes)
        BY <3>1, TextIsBytes
      <3> QED
        BY <3>1, <3>2
    <2>2. said \in Seq(Bytes)
      BY <2>1, ReplyType
    <2>3. done \in Seq(Bytes) /\ Len(done) = offset
      BY <2>1
    <2>4. ASSUME phase \in {"encode", "send"}
          PROVE  done = SubSeq(said, Len(said) - offset + 1, Len(said))
      <3>1. PICK before \in Seq(Bytes) : said = before \o done
        BY <2>1, <2>4 DEF WriteInv
      <3> HIDE DEF said, done
      <3>2. /\ Len(before) \in Nat /\ Len(said) = Len(before) + offset
            /\ \A j \in 1..offset : said[Len(before) + j] = done[j]
        <4>1. /\ Len(before) \in Nat /\ Len(before \o done) = Len(before) + Len(done)
              /\ \A j \in 1..Len(done) : (before \o done)[Len(before) + j] = done[j]
          <5>1. before \in Seq(Bytes) /\ done \in Seq(Bytes)
            BY <2>3
          <5> QED
            BY <5>1
        <4>2. said = before \o done /\ Len(done) = offset
          BY <2>3, <3>1
        <4> QED
          BY <4>1, <4>2
      <3>3. Len(said) - offset + 1 = Len(before) + 1
        BY <2>1, <3>2
      <3> DEFINE a == Len(before) + 1
                 b == Len(said)
                 tail == SubSeq(said, a, b)
      <3>4. /\ a \in Nat /\ b \in Nat /\ 1 <= a /\ a <= b + 1 /\ b <= Len(said)
            /\ (b - a) + 1 = offset /\ \A j \in 1..offset : (a + j) - 1 = Len(before) + j
        BY <2>1, <2>2, <3>2
      <3> HIDE DEF a, b
      <3>5. /\ tail \in Seq(Bytes) /\ Len(tail) = (b - a) + 1
            /\ \A j \in 1..((b - a) + 1) : tail[j] = said[(a + j) - 1]
        BY <2>2, <3>4, SubSeqParts
      <3> HIDE DEF tail
      <3>6. tail \in Seq(Bytes) /\ Len(tail) = offset /\ \A j \in 1..offset : tail[j] = done[j]
        BY <3>2, <3>4, <3>5
      <3>7. tail = done
        BY <2>3, <3>6
      <3> QED
        BY <3>3, <3>7 DEF tail, a, b
    <2>5. /\ phase = "send" => offset = Len(text)
          /\ phase = "encode" /\ Encodes(text) =>
                \A i \in DOMAIN packets : EndsWhole(PayloadBytes(packets[i]))
      BY <2>1 DEF WriteInv
    <2> QED
      BY <2>4, <2>5 DEF ResponseIntact, Reply
  <1> QED
    BY <1>1, WireInvariance, PTL

=============================================================================
