--------------------------- MODULE RequestParser ---------------------------
(***************************************************************************)
(* From the text of a command to a request: the parser of the GodMode      *)
(* commands (godmode_request.hpp), which is asked first, and the one of    *)
(* everything else (dispatch_request.hpp), with its quotes and escapes.    *)
(*                                                                         *)
(* A text is a sequence of symbols: blank, tab, newline (CR or LF), control *)
(* (any other control character, and DEL), quote, backslash, hash, "a"     *)
(* (any other byte), and for the words the parsers know, whatever the case *)
(* of their letters: exec (!exec), list (ListPlayers), weather             *)
(* (GetWeather), time (GetTimeOfDay), commands (!commands), god            *)
(* (SetGodMode), state (!godmode_state), true, false and id (a SteamID of  *)
(* 17 digits).  A word counts as one byte.  VT and FF, blanks for the one parser and     *)
(* controls for the other, are left out.                                   *)
(***************************************************************************)
EXTENDS Integers, Sequences, SequencesExt, SymbolText

CONSTANTS
    MaxText,            \* 8192
    MaxToken,           \* 4096
    MaxTokens           \* 67

ASSUME ParserAssumption == {MaxText, MaxToken, MaxTokens} \subseteq Nat \ {0}

-----------------------------------------------------------------------------

Controls == {"newline", "control"}

Queries == {"list", "weather", "time"}

\* Digits, letters and underlines.
VerbSymbols == {"a", "god", "true", "false", "id"} \cup Queries

Symbols ==
    {"exec", "list", "weather", "time", "commands", "god", "state", "true", "false", "id", "a",
     "blank", "tab", "quote", "backslash", "hash"} \cup Controls

Result(action, id, verb, args) ==
    [action |-> action, id |-> id, verb |-> verb, args |-> args]
Invalid == Result("invalid", << >>, << >>, << >>)
Unparsed == Result("unparsed", << >>, << >>, << >>)

Unhashed(word) == IF word # << >> /\ word[1] = "hash" THEN Tail(word) ELSE word

-----------------------------------------------------------------------------
(* godmode::parse *)

\* input >> word, again and again.
WordSymbol(read, c) ==
    IF c \notin Space THEN [read EXCEPT !.word = Append(@, c)]
    ELSE IF read.word = << >> THEN read
    ELSE [words |-> Append(read.words, read.word), word |-> << >>]

NoWords == [words |-> << >>, word |-> << >>]

Words(t) ==
    LET read[i \in 0..Len(t)] == IF i = 0 THEN NoWords ELSE WordSymbol(read[i - 1], t[i])
        last == read[Len(t)]
    IN  IF last.word = << >> THEN last.words ELSE Append(last.words, last.word)

\* SetGodMode <true|false> <id>, !godmode_state <id> (!godmode_prepare is like
\* it), and nothing behind that.
GodModeParse(t) ==
    LET words == Words(t)
        verb == IF words = << >> THEN << >> ELSE Unhashed(words[1])
    IN  CASE verb = <<"god">> ->
                IF Len(words) = 3 /\ words[2] \in {<<"true">>, <<"false">>} /\ words[3] = <<"id">>
                THEN Result("set", words[3], << >>, <<words[2]>>) ELSE Invalid
          [] verb = <<"state">> ->
                IF Len(words) = 2 /\ words[2] = <<"id">>
                THEN Result("state", words[2], << >>, << >>) ELSE Invalid
          [] OTHER -> Unparsed

-----------------------------------------------------------------------------
(* parse_dispatch_request *)

NewScan == [tokens |-> << >>, token |-> << >>, quoted |-> FALSE, started |-> FALSE,
            skip |-> FALSE, failed |-> FALSE]

Push(scan) ==
    IF scan.started
    THEN [scan EXCEPT !.tokens = Append(@, scan.token), !.token = << >>, !.started = FALSE]
    ELSE scan

Put(scan, c) == [scan EXCEPT !.token = Append(@, c), !.started = TRUE]

\* The checks at the end of a turn of the loop.
Limited(scan) ==
    IF Len(scan.token) > MaxToken \/ Len(scan.tokens) > MaxTokens
    THEN [scan EXCEPT !.failed = TRUE] ELSE scan

\* Any character escaped.
EscapesAll(t, i) == t[i] = "backslash" /\ i < Len(t)

\* Inside quotes a backslash stands for the quote or backslash behind it.
Escapes(t, i) ==
    t[i] = "backslash" /\ i < Len(t) /\ t[i + 1] \in {"quote", "backslash"}

\* A quoted scan that loses empty arguments.
ScanQuoteEmptyLost(scan) == [scan EXCEPT !.quoted = ~ @]

ScanQuote(scan) == [scan EXCEPT !.quoted = ~ @, !.started = TRUE]

ScanSymbol(t, scan, i) ==
    CASE scan.failed -> scan
      [] ~ scan.failed /\ scan.skip -> [scan EXCEPT !.skip = FALSE]
      [] ~ scan.failed /\ ~ scan.skip ->
            CASE t[i] \in Controls -> [scan EXCEPT !.failed = TRUE]
              [] t[i] = "quote" -> ScanQuote(scan)
              [] scan.quoted /\ Escapes(t, i) ->
                    Limited([Put(scan, t[i + 1]) EXCEPT !.skip = TRUE])
              [] ~ scan.quoted /\ t[i] \in {"blank", "tab"} -> Limited(Push(scan))
              [] OTHER -> Limited(Put(scan, t[i]))

Scan(t) ==
    LET scan[i \in 0..Len(t)] == IF i = 0 THEN NewScan ELSE ScanSymbol(t, scan[i - 1], i)
    IN  scan[Len(t)]

TooMany(tokens) == Len(tokens) > MaxTokens

Classify(tokens) ==
    LET verb == Unhashed(tokens[1])
    IN  CASE verb \in {<<query>> : query \in Queries} ->
                IF Len(tokens) = 1 THEN Result(verb[1], << >>, << >>, << >>) ELSE Invalid
          [] verb = <<"commands">> ->
                IF Len(tokens) > 2 THEN Invalid
                ELSE Result("commands", << >>, << >>, Tail(tokens))
          [] verb = <<"exec">> ->
                IF \/ Len(tokens) < 3 \/ TooMany(tokens) \/ tokens[2] # <<"id">>
                   \/ Unhashed(tokens[3]) = << >>
                   \/ \E i \in DOMAIN Unhashed(tokens[3]) :
                        Unhashed(tokens[3])[i] \notin VerbSymbols
                THEN Invalid
                ELSE Result("exec", tokens[2], Unhashed(tokens[3]),
                            SubSeq(tokens, 4, Len(tokens)))
          [] OTHER -> Result("unknown", << >>, << >>, << >>)

DispatchParse(t) ==
    LET scan == Scan(Trimmed(t))
        tokens == Push(scan).tokens
    IN  IF Len(t) > MaxText \/ scan.failed \/ scan.quoted \/ tokens = << >>
        THEN Invalid ELSE Classify(tokens)

\* dispatch_command: the GodMode parser first, then the other.
ParseRequest(t) ==
    IF GodModeParse(t).action # "unparsed" THEN GodModeParse(t) ELSE DispatchParse(t)

-----------------------------------------------------------------------------
(* Rendering, as the documentation tells a client to *)

Escaped(argument) ==
    FlattenSeq([i \in DOMAIN argument |->
        IF argument[i] \in {"quote", "backslash"} THEN <<"backslash", argument[i]>>
        ELSE <<argument[i]>>])

Quoted(argument) == <<"quote">> \o Escaped(argument) \o <<"quote">>

Rendered(arguments_) ==
    <<"exec", "blank", "id", "blank", "a">>
    \o FlattenSeq([i \in DOMAIN arguments_ |-> <<"blank">> \o Quoted(arguments_[i])])

=============================================================================
