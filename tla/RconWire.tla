------------------------------ MODULE RconWire ------------------------------
(***************************************************************************)
(* Packets on one authenticated connection (rcon_protocol.cpp, and         *)
(* recv_exact, recv_packet, send_all in rcon_server.cpp).  TCP hands over  *)
(* any non-empty part of what was sent; the server finds the packets in    *)
(* the stream, refuses what is not a packet, and splits each response into *)
(* packets, which it sends piece by piece.                                 *)
(*                                                                         *)
(* A packet on the wire is the token <<"size", n>> for its length,         *)
(* <<"head", id, type>> for request id and type, the bytes of its payload, *)
(* and two NULs.  The head counts as one byte of the length.  In the       *)
(* stream to the server a length is two tokens, for recv may return with a *)
(* part of its four bytes: the second makes the length known.              *)
(***************************************************************************)
EXTENDS Integers, Sequences, FiniteSets, SequencesExt, Utf8Text

CONSTANTS
    Requests,           \* what the client may send: [id, type, payload, defect]
    Responses,          \* what the game thread may answer: sequences of bytes
    MaxChunk,           \* MAX_RESPONSE_CHUNK, 4086
    MaxBody,            \* the largest length recv_packet takes, 8192
    MaxSent             \* bound: requests the client sends

ASSUME WireAssumption ==
    /\ {MaxChunk, MaxBody, MaxSent} \subseteq Nat \ {0}
    /\ MaxBody >= 2         \* room for a head and a terminator
    /\ MaxChunk >= 4        \* room for a whole code point
    /\ \A response \in Responses : response \in Seq(Bytes)
    /\ \A request \in Requests :
            /\ request.payload \in Seq(Bytes)
            /\ request.defect \in {"none", "short", "long", "zero", "nul", "open"}

VARIABLES
    sent,               \* history: the client's requests
    up,                 \* the stream to the server
    phase, want,        \* recv_exact is to fill want bytes of size or body
    buffer,             \* ... and has got these
    taken,              \* history: packets decoded
    text, offset,       \* encode_response: the text and how much is encoded
    packets,            \* encoded packets, not yet passed to send
    out,                \* the packet in send_all, what is left of it
    down                \* history: the stream the client received

vars == <<sent, up, phase, want, buffer, taken, text, offset, packets, out, down>>

receiving == <<sent, up, want, buffer, taken>>
sending == <<text, offset, packets, out, down>>

-----------------------------------------------------------------------------
(* Packets *)

NUL == <<"NUL">>
SizePart == <<"part">>
Size(n) == <<"size", n>>
IdAndType(id, type) == <<"head", id, type>>

IsByte(token) == token \in Bytes

\* What recv_packet has to get before it knows a length: size_buf.
SizeTokens == 2

\* The shortest body: head and terminators.
MinBody == 3

EncodePacket(id, type, payload) ==
    <<Size(Len(payload) + MinBody), IdAndType(id, type)>> \o payload \o <<NUL, NUL>>

\* A packet, or one with a defect, as it is but for the first part of its length.
PacketTokens(request) ==
    LET packet == EncodePacket(request.id, request.type, request.payload)
        resized(n) == [packet EXCEPT ![1] = Size(n)]
    IN  CASE request.defect = "none" -> packet
          [] request.defect = "short" -> resized(Len(request.payload) + MinBody - 1)
          [] request.defect = "long" -> resized(Len(request.payload) + MinBody + 1)
          [] request.defect = "zero" -> resized(0)
          [] request.defect = "nul" ->
                EncodePacket(request.id, request.type, Append(request.payload, NUL))
          [] request.defect = "open" -> resized(Len(request.payload) + MinBody - 2)

\* What a client sends.
RequestTokens(request) == <<SizePart>> \o PacketTokens(request)

\* A decoder that looks at the last terminator only.
DecodableByLast(body) ==
    Len(body) >= MinBody /\ body[Len(body)] = NUL

\* decode_packet_body: long enough, terminated, and no NUL before that (a size
\* or a head that strayed into a payload brings NULs with it).
Decodable(body) ==
    /\ Len(body) >= MinBody
    /\ body[Len(body)] = NUL /\ body[Len(body) - 1] = NUL
    /\ \A i \in 2..(Len(body) - 2) : IsByte(body[i])

Decoded(body) ==
    [id |-> body[1][2], type |-> body[1][3], payload |-> SubSeq(body, 2, Len(body) - 2)]

\* A response cut every MaxChunk bytes.
ChunkAnywhere(from) == Smaller(Len(from), MaxChunk)

\* encode_response: the next chunk of the text; if no whole code point fits,
\* as many bytes as do.
ChunkLength(from) ==
    LET n == Utf8PrefixSize(from, MaxChunk)
    IN  IF n # 0 THEN n ELSE Smaller(MaxChunk, Len(from))

-----------------------------------------------------------------------------

TypeOK ==
    /\ sent \in Seq(Requests) /\ Len(sent) <= MaxSent
    /\ phase \in {"size", "body", "serve", "encode", "send", "refused", "closed"}
    /\ want \in 1..MaxBody
    /\ Len(buffer) <= want
    /\ Len(taken) <= Len(sent)
    /\ text \in Responses \cup {<< >>}
    /\ offset \in 0..Len(text)

Init ==
    /\ sent = << >> /\ up = << >>
    /\ phase = "size" /\ want = SizeTokens /\ buffer = << >>
    /\ taken = << >>
    /\ text = << >> /\ offset = 0 /\ packets = << >> /\ out = << >> /\ down = << >>

\* The client sends without waiting for an answer.
Send(request) ==
    /\ Len(sent) < MaxSent
    /\ sent' = Append(sent, request)
    /\ up' = up \o RequestTokens(request)
    /\ UNCHANGED <<phase, want, buffer, taken, sending>>

\* The connection breaks: the next recv or send fails.
Break ==
    /\ phase \notin {"refused", "closed"}
    /\ phase' = "closed"
    /\ UNCHANGED <<receiving, sending>>

\* One recv of recv_exact, which asks for what is still missing.
Recv ==
    /\ phase \in {"size", "body"}
    /\ Len(buffer) < want
    /\ \E n \in 1..Smaller(want - Len(buffer), Len(up)) :
            /\ buffer' = buffer \o SubSeq(up, 1, n)
            /\ up' = SubSeq(up, n + 1, Len(up))
    /\ UNCHANGED <<sent, phase, want, taken, sending>>

Refuse ==
    /\ phase' = "refused"
    /\ UNCHANGED <<sent, up, want, buffer, taken, sending>>

SizeOutOfRange(n) == n <= 0 \/ n > MaxBody

\* recv_packet has the size and goes on to the body.
SizeReceived ==
    /\ phase = "size" /\ Len(buffer) = want
    /\ IF buffer[2][1] # "size" \/ SizeOutOfRange(buffer[2][2]) THEN Refuse
       ELSE /\ phase' = "body"
            /\ want' = buffer[2][2]
            /\ buffer' = << >>
            /\ UNCHANGED <<sent, up, taken, sending>>

\* The body is complete.  Packets that are no commands are skipped.
BodyReceived ==
    /\ phase = "body" /\ Len(buffer) = want
    /\ IF ~ Decodable(buffer) THEN Refuse
       ELSE /\ taken' = Append(taken, Decoded(buffer))
            /\ phase' = IF Decoded(buffer).type = "exec" THEN "serve" ELSE "size"
            /\ want' = SizeTokens
            /\ buffer' = << >>
            /\ UNCHANGED <<sent, up, sending>>

\* The response is there.
Respond(response) ==
    /\ phase = "serve"
    /\ phase' = "encode"
    /\ text' = response /\ offset' = 0
    /\ UNCHANGED <<receiving, packets, out, down>>

\* One turn of the loop in encode_response; an empty text makes one packet.
Encode ==
    /\ phase = "encode"
    /\ LET rest == SubSeq(text, offset + 1, Len(text))
           n == ChunkLength(rest)
       IN  IF rest # << >> \/ packets = << >>
           THEN /\ packets' = Append(packets, EncodePacket(Last(taken).id, "value",
                                                           SubSeq(rest, 1, n)))
                /\ offset' = offset + n
                /\ UNCHANGED phase
           ELSE /\ phase' = "send"
                /\ UNCHANGED <<packets, offset>>
    /\ UNCHANGED <<receiving, text, out, down>>

\* The next packet goes to send_all, or the next request is awaited.
NextPacket ==
    /\ phase = "send" /\ out = << >>
    /\ IF packets = << >>
       THEN phase' = "size" /\ UNCHANGED <<packets, out>>
       ELSE out' = packets[1] /\ packets' = Tail(packets) /\ UNCHANGED phase
    /\ UNCHANGED <<receiving, text, offset, down>>

\* A send_all that takes a partial send for a complete one.
SendOnce ==
    /\ phase = "send" /\ out # << >>
    /\ \E n \in 1..Len(out) : down' = down \o SubSeq(out, 1, n)
    /\ out' = << >>
    /\ UNCHANGED <<receiving, phase, text, offset, packets>>

\* One send of send_all.
SendPart ==
    /\ phase = "send" /\ out # << >>
    /\ \E n \in 1..Len(out) :
            /\ down' = down \o SubSeq(out, 1, n)
            /\ out' = SubSeq(out, n + 1, Len(out))
    /\ UNCHANGED <<receiving, phase, text, offset, packets>>

Next ==
    \/ \E request \in Requests : Send(request)
    \/ \E response \in Responses : Respond(response)
    \/ Break \/ Recv \/ SizeReceived \/ BodyReceived
    \/ Encode \/ NextPacket \/ SendPart

Spec == Init /\ [][Next]_vars

-----------------------------------------------------------------------------

WellFramed(request) ==
    request.defect = "none" /\ Len(request.payload) + MinBody <= MaxBody

\* However the stream is cut, the packets taken from it are the packets sent,
\* in order; nothing is taken from a malformed packet or from behind one, and
\* only such a packet makes the server refuse.
StreamKeepsPackets ==
    /\ \A i \in DOMAIN taken :
            /\ WellFramed(sent[i])
            /\ taken[i] = [id |-> sent[i].id, type |-> sent[i].type,
                           payload |-> sent[i].payload]
    /\ phase = "refused" => ~ WellFramed(sent[Len(taken) + 1])

\* The packet, with its length, at a place in a stream.
PacketAt(stream, i) == SubSeq(stream, i, i + stream[i][2])

\* The payloads, one after the other, of all packets of a stream of tokens.
PayloadBytes(stream) ==
    FlattenSeq([i \in DOMAIN stream |-> IF IsByte(stream[i]) THEN <<stream[i]>> ELSE << >>])

Starts(stream) == {i \in DOMAIN stream : stream[i][1] = "size"}

\* What the server has said and still has to say is a sequence of packets as
\* the client expects it: every length is right, no payload is longer than
\* MaxChunk, and every packet belongs to a request that was taken.
ReplyStreamFramed ==
    LET stream == down \o out \o FlattenSeq(packets)
    IN  /\ stream # << >> => 1 \in Starts(stream)
        /\ \A i \in Starts(stream) :
            /\ i + stream[i][2] <= Len(stream)
            /\ i + stream[i][2] = Len(stream) \/ i + stream[i][2] + 1 \in Starts(stream)
            /\ stream[i][2] <= MaxChunk + MinBody
            /\ Decodable(Tail(PacketAt(stream, i)))
            /\ \E k \in DOMAIN taken : taken[k].id = stream[i + 1][2]

\* A sequence of bytes that is the UTF-8 of some text: a byte that ends no
\* code point has the next one of its code point behind it, and a continuation
\* byte has such a byte before it.
Encodes(bytes) ==
    \A i \in DOMAIN bytes :
        /\ bytes[i] \notin FinalBytes =>
            i < Len(bytes) /\ bytes[i + 1] = NextByte[bytes[i]]
        /\ Continuation(bytes[i]) => i > 1 /\ bytes[i - 1] \notin FinalBytes

\* The packets of a response carry its text, whole and nothing else, wherever
\* the sends cut them, and none of them ends inside a code point, unless the
\* text is no UTF-8 to begin with (encode_response and send_all).
ResponseIntact ==
    LET said == PayloadBytes(down \o out \o FlattenSeq(packets))
    IN  /\ phase \in {"encode", "send"} =>
            SubSeq(text, 1, offset) = SubSeq(said, Len(said) - offset + 1, Len(said))
        /\ phase = "send" => offset = Len(text)
        /\ phase = "encode" /\ Encodes(text) =>
            \A i \in DOMAIN packets : EndsWhole(PayloadBytes(packets[i]))

=============================================================================
