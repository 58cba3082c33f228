----------------------------- MODULE ConfigFile -----------------------------
(***************************************************************************)
(* The configuration file (load_config in dllmain.cpp).  A file is a       *)
(* sequence of lines, a line a sequence of symbols: the words of the three *)
(* keys, comment (";" or "#"), equals, minus, blank, "a" (any other byte)  *)
(* and the numbers low, high and huge, of which no two stand side by side. *)
(* A file that cannot be opened is one without lines.                      *)
(***************************************************************************)
EXTENDS Integers, Sequences, SequencesExt, SymbolText

Defaults == [bind_host |-> <<"any">>, port |-> 28016, password |-> <<"changeme">>]

\* huge stands for a number that int does not hold.
Number == [low |-> 28017, high |-> 70000]

FileSymbols ==
    {"bind_host", "port", "password", "comment", "equals", "minus", "blank", "a", "huge"}
    \cup DOMAIN Number

\* The number std::stoi reads in front of anything else; none when it throws.
Stoi(value) ==
    LET negative == value # << >> /\ value[1] = "minus"
        digits == IF negative THEN Tail(value) ELSE value
    IN  IF digits = << >> \/ digits[1] \notin DOMAIN Number THEN {}
        ELSE {IF negative THEN -Number[digits[1]] ELSE Number[digits[1]]}

Assign(config, key, value) ==
    CASE key = <<"bind_host">> -> {[config EXCEPT !.bind_host = value]}
      [] key = <<"password">> -> {[config EXCEPT !.password = value]}
      [] key = <<"port">> -> {[config EXCEPT !.port = n % 65536] : n \in Stoi(value)}
      [] OTHER -> {config}

\* A reader that takes the last equals sign of a line for the one it means.
ReadLineByLast(config, line) ==
    LET text == Before(line, {"comment"})
        eq == SelectLastInSeq(text, LAMBDA c : c = "equals")
    IN  IF eq = 0 THEN {config}
        ELSE Assign(config, Trimmed(SubSeq(text, 1, eq - 1)),
                    Trimmed(SubSeq(text, eq + 1, Len(text))))

ReadLine(config, line) ==
    LET text == Before(line, {"comment"})
    IN  IF ~ Contains(text, "equals") THEN {config}
        ELSE Assign(config, Trimmed(Before(text, {"equals"})), Trimmed(Behind(text, {"equals"})))

\* The configuration, or none when reading a port throws.
LoadConfig(file) ==
    LET read[i \in 0..Len(file)] ==
            IF i = 0 THEN {Defaults}
            ELSE UNION {ReadLine(config, file[i]) : config \in read[i - 1]}
    IN  read[Len(file)]

-----------------------------------------------------------------------------
(* A file as config.example.ini shows it: "key = value" with comment lines. *)

Line(key, value) == <<key, "blank", "equals", "blank">> \o value

\* The keys of settings, each with the lines before it and a note behind it.
Written(settings, before, note) ==
    before \o SetToSeq({Line(key, settings[key]) \o note : key \in DOMAIN settings})

=============================================================================
