------------------------------ MODULE Utf8Text ------------------------------
(***************************************************************************)
(* Text in UTF-8, cut at a limit (response_buffer.hpp).  A text is first a *)
(* sequence of UTF-16 units: "a" is any character that takes one byte in   *)
(* UTF-8, "e" one that takes two, "h" and "l" the two surrogates of one    *)
(* that takes four.  A byte is <<unit, k>>, the k-th that comes of a unit. *)
(***************************************************************************)
EXTENDS Integers, Sequences, SequencesExt

Units == {"a", "e", "h", "l"}

Byte(u, k) == <<u, k>>

Bytes == {Byte("newline", 1), Byte("a", 1)} \cup ({"e", "h", "l"} \X (1..2))

UnitBytes == [u \in Units |->
                IF u = "a" THEN <<Byte("a", 1)>> ELSE <<Byte(u, 1), Byte(u, 2)>>]

Utf8(units) == FlattenSeq([i \in DOMAIN units |-> UnitBytes[units[i]]])

\* (value & 0xc0) == 0x80
Continuation(byte) == byte \in {Byte("e", 2), Byte("h", 2), Byte("l", 1), Byte("l", 2)}

Smaller(m, n) == IF m < n THEN m ELSE n

\* A prefix of limit bytes, wherever that cuts.
PrefixAnywhere(text, limit) == Smaller(Len(text), limit)

\* The longest prefix within limit that does not end inside a code point.
Utf8PrefixSize(text, limit) ==
    CHOOSE n \in 0..Smaller(Len(text), limit) :
        /\ n = 0 \/ n = Len(text) \/ ~ Continuation(text[n + 1])
        /\ \A k \in (n + 1)..Smaller(Len(text), limit) :
                k < Len(text) /\ Continuation(text[k + 1])

\* The bytes with which a character is complete.
FinalBytes == {Byte("newline", 1), Byte("a", 1), Byte("e", 2), Byte("l", 2)}

\* The byte of the same character that follows one that does not end it.
NextByte == [byte \in Bytes \ FinalBytes |->
                CASE byte = Byte("e", 1) -> Byte("e", 2)
                  [] byte = Byte("h", 1) -> Byte("h", 2)
                  [] byte = Byte("h", 2) -> Byte("l", 1)
                  [] byte = Byte("l", 1) -> Byte("l", 2)]

\* No code point is cut at the end of the text.
EndsWhole(text) == text # << >> => text[Len(text)] \in FinalBytes

=============================================================================
