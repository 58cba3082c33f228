----------------------------- MODULE MCRconWire -----------------------------
(* Model-checking instances of RconWire. *)
EXTENDS RconWire

Copies(u, n) == [i \in 1..n |-> u]

Request(type, n, defect) ==
    [id |-> n, type |-> type, payload |-> Copies(Byte("a", 1), n), defect |-> defect]

\* Well-framed requests of every length around the limit, packets that are no
\* commands, and one packet for each defect.
AllRequests ==
    {Request("exec", n, "none") : n \in 0..(MaxBody - 2)}
    \cup {Request("other", 1, "none")}
    \cup {Request("exec", 1, defect) : defect \in {"short", "long", "zero", "nul", "open"}}

\* Texts whose code points fall before, on and behind the end of a chunk, and
\* one that is no UTF-8.
BoundaryTexts ==
    {Utf8(Copies("a", n) \o tail) :
        n \in {0, MaxChunk - 1, MaxChunk}, tail \in {<< >>, <<"e", "a">>, <<"h", "l">>}}
    \cup {Copies(Byte("e", 2), MaxChunk + 1)}

=============================================================================
