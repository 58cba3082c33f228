-------------------------- MODULE MCResponseCapture --------------------------
(* Model-checking instances of ResponseCapture. *)
EXTENDS ResponseCapture, TLC

Repeat(u, n) == [i \in 1..n |-> u]

\* The empty message, one with a terminator inside, and messages whose
\* multi-byte character falls before, on and behind the limits of MaxBytes
\* bytes and WidePrefix units.
BoundaryMessages ==
    {<< >>, <<"a", "0">>, <<"0", "a", "0">>, <<"e", "0">>, <<"h", "l", "0">>, <<"h", "0">>}
    \cup {Repeat("a", n) \o tail \o <<"0">> :
            n \in (MaxBytes - 2)..(MaxBytes + 1), tail \in {<< >>, <<"e">>, <<"h", "l">>}}

\* Neither threads nor command instances take part in any order.
Symmetry == Permutations(Threads) \cup Permutations(Commands)

=============================================================================
