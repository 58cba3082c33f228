----------------------------- MODULE SymbolText -----------------------------
(***************************************************************************)
(* What the parsers of text have in common.  A text is a sequence of       *)
(* symbols; blank, tab and newline (CR or LF) are the ones they trim.      *)
(***************************************************************************)
EXTENDS Integers, Sequences, SequencesExt

Space == {"blank", "tab", "newline"}

Trimmed(t) ==
    LET first == SelectInSeq(t, LAMBDA c : c \notin Space)
        last == SelectLastInSeq(t, LAMBDA c : c \notin Space)
    IN  IF first = 0 THEN << >> ELSE SubSeq(t, first, last)

\* The part of t before the first symbol of a set, and the one behind it.
Before(t, symbols) ==
    LET at == SelectInSeq(t, LAMBDA c : c \in symbols)
    IN  IF at = 0 THEN t ELSE SubSeq(t, 1, at - 1)

Behind(t, symbols) == SubSeq(t, Len(Before(t, symbols)) + 2, Len(t))

=============================================================================
