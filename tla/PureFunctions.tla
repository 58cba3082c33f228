---------------------------- MODULE PureFunctions ----------------------------
(***************************************************************************)
(* The parts of the program that compute a value from their input and keep *)
(* no state: the parser of commands, the reader of the configuration, the  *)
(* formats of the live queries and the cross-reference scanner.  A         *)
(* behaviour takes one input and computes its output; the properties       *)
(* compare the two with what the function is for.                          *)
(***************************************************************************)
EXTENDS RequestParser, ConfigFile, LiveFormats, PeScanner, FiniteSets

CONSTANTS
    Texts,              \* arbitrary commands
    ArgumentLists,      \* arguments to be rendered behind !exec <id> <verb>
    ConfigInputs,       \* settings, with the lines before and the note behind them
    WeatherInputs,      \* the build, the active controllers, which query
    PlayerLists,        \* connected players, in order
    CatalogueInputs,    \* registry entries and a filter
    ImageInputs         \* an image, strings, functions and addresses to dump

\* Settings of the known keys.  Behind each is the same note, blanks and a
\* comment; before them are lines that set nothing, and settings that come again
\* below, whose port is a number.
IsConfig(c) ==
    /\ DOMAIN c.settings \subseteq DOMAIN Defaults
    /\ \A key \in DOMAIN c.settings : c.settings[key] \in Seq(FileSymbols)
    /\ c.note \in Seq(FileSymbols)
    /\ c.note # << >> => \E k \in 1..Len(c.note) :
        c.note[k] = "comment" /\ \A i \in 1..(k - 1) : c.note[i] = "blank"
    /\ c.before \in Seq(Seq(FileSymbols))
    /\ \A i \in 1..Len(c.before) :
        \/ ~ Contains(Before(c.before[i], {"comment"}), "equals")
        \/ \E key \in DOMAIN c.settings :
            LET value == SubSeq(c.before[i], 5, Len(c.before[i]))
            IN  /\ c.before[i] = Line(key, value)
                /\ key = "port" => value # << >> /\ value[1] \in DOMAIN Number

\* An image as a linker writes it: no two sections share bytes of the file or
\* addresses.  The disassembler sees an instruction if all its bytes are there, of
\* which it has at most MaxInstruction, whatever comes behind them.
IsImage(of) ==
    LET bytes == of.image.bytes
        sections == of.image.sections
    IN  /\ of.image.base \in Nat /\ of.maxBytes \in Nat /\ of.va \in Nat /\ of.functions \subseteq Nat
        /\ {bytes, of.needle, of.wide, of.pointer} \subseteq Seq(Nat)
        /\ sections \in Seq([va : Nat, size : Nat, raw : Nat, rawSize : Nat, executable : BOOLEAN])
        /\ \A i, k \in DOMAIN sections : i < k =>
            LET s == sections[i] t == sections[k]
            IN  /\ s.raw + s.rawSize <= t.raw \/ t.raw + t.rawSize <= s.raw
                /\ \/ s.va + s.size <= t.va /\ s.va + s.rawSize <= t.va
                   \/ t.va + t.size <= s.va /\ t.va + t.rawSize <= s.va
        /\ \A o \in 0..(Len(bytes) - 1), limit \in 0..Len(bytes) : o < limit =>
            \A x \in Decode(bytes, o, limit) :
                /\ x.length \in 1..MaxInstruction /\ o + x.length <= limit
                /\ x.operands \in Seq([relative : BOOLEAN, value : Int])
                /\ \A l \in (o + x.length)..Len(bytes) : Decode(bytes, o, l) = {x}

\* A text of the game does not begin inside a character, and a word of a row is
\* neither a mark nor one that tells of an address.
IsWhole(text) == text \in Seq(Range(text)) /\ (text # << >> => ~ Continuation(text[1]))
IsWord(word) == word \notin {"bar", "newline", "ip", "ipStatus=unavailable"}

ASSUME InputsAssumption ==
    /\ Texts \subseteq Seq(Symbols)
    /\ \A a \in ArgumentLists : a \in Seq(Seq(Symbols \ Controls))
    /\ \A c \in ConfigInputs : IsConfig(c)
    /\ \A w \in WeatherInputs : IsFiniteSet(w.controllers)
    /\ \A p \in PlayerLists : p \in Seq(Range(p)) /\ \A i \in DOMAIN p : IsWord(p[i].id) /\ IsWhole(p[i].name)
    /\ \A c \in CatalogueInputs :
        /\ c.entries \in Seq(Range(c.entries))
        /\ \A i \in DOMAIN c.entries :
            IsWord(c.entries[i].unsupported) /\ IsWhole(c.entries[i].verb)
    /\ \A i \in ImageInputs : IsImage(i)

VARIABLES input, output

vars == <<input, output>>

Pending == [kind |-> "pending"]
Done(kind) == input.kind = kind /\ output # Pending

Init ==
    /\ \/ \E t \in Texts : input = [kind |-> "text", of |-> t]
       \/ \E a \in ArgumentLists : input = [kind |-> "arguments", of |-> a]
       \/ \E c \in ConfigInputs : input = [kind |-> "config", of |-> c]
       \/ \E w \in WeatherInputs : input = [kind |-> "weather", of |-> w]
       \/ \E p \in PlayerLists : input = [kind |-> "players", of |-> p]
       \/ \E c \in CatalogueInputs : input = [kind |-> "catalogue", of |-> c]
       \/ \E i \in ImageInputs : input = [kind |-> "image", of |-> i]
    /\ output = Pending

Compute(kind, value) ==
    /\ input.kind = kind /\ output = Pending
    /\ output' = [kind |-> kind, is |-> value]
    /\ UNCHANGED input

\* Without an executable section nothing is searched or dumped.
NoReport == [xrefs |-> << >>, contexts |-> << >>, dump |-> << >>, pointers |-> {}]

ScanReport(of) ==
    LET xrefs == Xrefs(of.image, of.needle, of.wide, of.functions)
    IN  IF TextSection(of.image) = 0 THEN NoReport ELSE
        [xrefs |-> xrefs,
         contexts |-> [i \in DOMAIN xrefs |-> DumpContext(of.image, xrefs[i].line.offset)],
         dump |-> DumpFunctionAt(of.image, of.va, of.maxBytes),
         pointers |-> PointerSearch(of.image, of.pointer)]

Next ==
    \/ Compute("text", ParseRequest(input.of))
    \/ Compute("arguments", ParseRequest(Rendered(input.of)))
    \/ Compute("config", LoadConfig(Written(input.of.settings, input.of.before, input.of.note)))
    \/ Compute("weather", Weather(input.of.supported, input.of.controllers, input.of.time_only))
    \/ Compute("players", PlayerList(input.of))
    \/ Compute("catalogue", Catalogue(input.of.entries, input.of.filter))
    \/ Compute("image", ScanReport(input.of))

Spec == Init /\ [][Next]_vars

-----------------------------------------------------------------------------
(* Commands *)

\* The symbols of a set that stand in a text, in their order.
Only(t, S) == FlattenSeq([i \in DOMAIN t |-> IF t[i] \in S THEN <<t[i]>> ELSE << >>])

Letters == Symbols \ (Space \cup Controls \cup {"quote", "backslash", "hash"})

\* Arguments rendered as documented come back as they were, empty ones and ones
\* with blanks, quotes and backslashes too, as long as they are within the
\* limits (8,192 bytes, 64 arguments of 4,096 bytes), and are refused beyond them.
RoundTrip ==
    Done("arguments") =>
        IF /\ Len(Rendered(input.of)) <= MaxText
           /\ Len(input.of) + 3 <= MaxTokens
           /\ \A i \in DOMAIN input.of : Len(input.of[i]) <= MaxToken
        THEN output.is = Result("exec", <<"id">>, <<"a">>, input.of)
        ELSE output.is = Invalid

\* An !exec is taken only from a text that has no control but tabs inside, and
\* no letter of the text is lost, added or moved on the way to its arguments; a
\* SetGodMode is taken only from a text that is nothing but its three words.
ExecIsClean ==
    Done("text") =>
        /\ output.is.action = "exec" =>
            /\ \A i \in DOMAIN Trimmed(input.of) : Trimmed(input.of)[i] \notin Controls
            /\ Only(input.of, Letters) = <<"exec">> \o
                 Only(FlattenSeq(<<output.is.id, output.is.verb>> \o output.is.args), Letters)
        /\ output.is.action = "set" =>
            Unhashed(Only(input.of, Symbols \ Space))
                \in {<<"god", "true", "id">>, <<"god", "false", "id">>}

-----------------------------------------------------------------------------
(* The configuration *)

Plain(value) == Trimmed(value) = value /\ ~ Contains(value, "comment")

\* Settings written as in config.example.ini are read back, whatever comments
\* and earlier settings stand around them, an equals sign in a password
\* included; a setting that is left out has its default.  What is not read back
\* is a value with a comment sign in it or blanks at its ends, and a port that
\* does not fit 16 bits; a port that is no number of an int ends the loading.
ConfigReadBack ==
    Done("config") =>
        LET written == input.of.settings
            ports == IF "port" \in DOMAIN written THEN Stoi(Trimmed(written["port"]))
                    ELSE {Defaults.port}
        IN  /\ output.is = {} <=> ports = {}
            /\ \A config \in output.is :
                /\ \A key \in {"bind_host", "password"} :
                    IF key \in DOMAIN written
                    THEN config[key] = written[key] <=> Plain(written[key])
                    ELSE config[key] = Defaults[key]
                /\ \A port \in ports : config.port = port <=> 0 <= port /\ port <= 65535

-----------------------------------------------------------------------------
(* Live queries *)

\* The weather and the time are those of the one active controller: they are
\* answered on the supported build whenever every required field of that query
\* can be read (of the time, only the time itself), with null for the optional
\* ones that cannot and always for the current wind speed; and the clock shows
\* the minute of the day the time is in, 24:00 as 00:00.
WeatherIsTrue ==
    Done("weather") =>
        /\ output.is # {} <=>
            /\ input.of.supported /\ Cardinality(input.of.controllers) = 1
            /\ \A c \in input.of.controllers :
                /\ c.time \in 0..Day
                /\ LiveFloat(c, "timeOfDay")
                /\ input.of.time_only \/ \A name \in RequiredWeather : LiveFloat(c, name)
        /\ \A answer \in output.is, c \in input.of.controllers :
            /\ \A name \in DOMAIN answer.fields :
                answer.fields[name] =
                    IF name # "windSpeedKph" /\ LiveFloat(c, name) THEN c.fields[name] ELSE "null"
            /\ input.of.time_only => DOMAIN answer.fields \cap RequiredWeather = {}
            /\ answer.text[1] \in 0..23 /\ answer.text[2] \in 0..59
            /\ LET shown == (answer.text[1] * 60 + answer.text[2]) * PartsOfMinute
               IN  c.time % Day \in shown..(shown + PartsOfMinute - 1)

\* The parts of a text with a symbol more: it makes the last one longer, or begins
\* another if it is the mark.
Longer(parts, c, mark) ==
    IF c = mark THEN Append(parts, << >>) ELSE Append(Front(parts), Append(Last(parts), c))

\* The lines of a text, and the columns of a line.
Split(t, mark) ==
    LET parts[i \in 0..Len(t)] ==
            IF i = 0 THEN << << >> >> ELSE Longer(parts[i - 1], t[i], mark)
    IN  parts[Len(t)]

\* A name in a row: its line ends, other controls and bars are blank, and it is
\* cut behind the last whole character within the limit.
Shown(column, name) ==
    /\ Len(column) <= Len(name) /\ Len(column) <= MaxField
    /\ \A k \in 1..Len(column) :
        column[k] = IF name[k] \in {Newline, Control, Bar} THEN Gap ELSE name[k]
    /\ Len(column) < Len(name) =>
        /\ ~ Continuation(name[Len(column) + 1])
        /\ \A k \in (Len(column) + 2)..(MaxField + 1) : Continuation(name[k])

\* A client that reads a list line by line, and a line column by column, finds
\* the connected players in order, each in one line whose second word is its
\* SteamID and whose second column is its name without bars and line ends and cut
\* at a whole character; an address is given or said to be missing, once.  When
\* nobody is connected a sentence says so ("Empty servers return `No players
\* online.`").  In the catalogue it finds the commands that
\* match, all of them, each once and in the order of the registry, with what makes
\* them unsupported, and as many as the catalogue says there are.
RowsReadBack ==
    /\ Done("players") /\ input.of = << >> => output.is = {Nobody}
    /\ Done("players") /\ input.of # << >> => \A list \in output.is :
        LET lines == Split(list, Newline)
        IN  /\ Len(lines) = Len(input.of) + 1 /\ Last(lines) = << >>
            /\ \A i \in DOMAIN input.of :
                LET columns == Split(lines[i], Bar) player == input.of[i]
                IN  /\ Len(columns) = 3 /\ columns[3] = << >>
                    /\ columns[1][2] = Char(player.id)
                    /\ \E k \in DOMAIN columns[1] : \A l \in DOMAIN columns[1] :
                        columns[1][l] \in {Char("ip"), Char("ipStatus=unavailable")} <=> l = k
                    /\ Shown(columns[2], player.name)
    /\ Done("players") => (output.is = {} <=> \E i \in DOMAIN input.of : ~ input.of[i].readable)
    /\ Done("catalogue") =>
        LET lines == Split(output.is.rows, Newline)
        IN  /\ Len(lines) = output.is.matched + 1 /\ Last(lines) = << >>
            /\ \E places \in [1..output.is.matched -> DOMAIN input.of.entries] :
                /\ \A i, k \in 1..output.is.matched : i < k => places[i] < places[k]
                /\ \A e \in DOMAIN input.of.entries :
                    Finds(input.of.entries[e].verb, input.of.filter)
                    <=> \E i \in 1..output.is.matched : places[i] = e
                /\ \A i \in 1..output.is.matched :
                    LET columns == Split(lines[i], Bar) command == input.of.entries[places[i]]
                    IN  /\ Len(columns) = 3 /\ columns[3] = <<Char(command.unsupported)>>
                        /\ Shown(columns[1], command.verb)
            /\ output.is.total = Len(input.of.entries)

-----------------------------------------------------------------------------
(* The scanner *)

\* The bytes at an address of the loaded program come from this place of the file.
LoadedFrom(image, offset, va) ==
    \E i \in DOMAIN image.sections :
        LET s == image.sections[i]
        IN  offset \in s.raw..(s.raw + s.rawSize - 1)
            /\ va = image.base + s.va + (offset - s.raw)

\* The places a sweep of the executable section comes to: the least set with its
\* start that goes on behind each instruction, and with the next byte where
\* there is none.
Swept(image) ==
    LET text == image.sections[TextSection(image)]
        last == Limit(image, text.raw + text.rawSize)
        Step(o) == IF Decode(image.bytes, o, last) = {} THEN {o + 1}
                   ELSE {o + x.length : x \in Decode(image.bytes, o, last)}
        Closed(S) == text.raw \in S /\ \A o \in S : o < last => Step(o) \subseteq S
    IN  IF TextSection(image) = 0 THEN {}
        ELSE {o \in text.raw..(last - 1) : \A S \in SUBSET (text.raw..last) : Closed(S) => o \in S}

\* Reported are exactly the instructions the sweep comes to that refer into the
\* window of a string of the program, in either encoding, or to a function asked
\* for, and they are reported at the address they are loaded to.
XrefsExact ==
    Done("image") =>
        LET of == input.of
            bytes == of.image.bytes
            text == of.image.sections[TextSection(of.image)]
            Stands(o) == \E s \in {of.needle, of.wide} : IsPrefix(s, SubSeq(bytes, o + 1, Len(bytes)))
            Wanted(target) ==
                \/ target \in of.functions
                \/ \E o \in 0..Len(bytes), d \in 0..(StringWindow - 1) :
                    Stands(o) /\ LoadedFrom(of.image, o, target - d)
            Refers(o) == \E x \in Decode(bytes, o, Limit(of.image, text.raw + text.rawSize)) :
                \E k \in DOMAIN x.operands : Wanted(x.operands[k].value +
                    IF x.operands[k].relative
                    THEN of.image.base + text.va + (o - text.raw) + x.length ELSE 0)
        IN  /\ {output.is.xrefs[i].line.offset : i \in DOMAIN output.is.xrefs}
                 = {o \in Swept(of.image) : Refers(o)}
            /\ \A i \in DOMAIN output.is.xrefs :
                LoadedFrom(of.image, output.is.xrefs[i].line.offset, output.is.xrefs[i].address)

\* The dump around a reference marks one instruction, which covers it even if the
\* dump is out of step with the sweep, and gives it the address it is loaded to
\* as long as the window does not begin before the section.  What a function
\* dump shows at an address is loaded there, as far as it stays within the part
\* of the section that the file holds; and a pointer is said to be where it is
\* loaded.
DumpsAreTrue ==
    Done("image") =>
        LET image == input.of.image
            text == image.sections[TextSection(image)]
        IN  /\ \A i \in DOMAIN output.is.xrefs :
                LET o == output.is.xrefs[i].line.offset
                    marked == {k \in DOMAIN output.is.contexts[i] : Marked(output.is.contexts[i][k], o)}
                IN  /\ Cardinality(marked) = 1
                    /\ WindowStart(o) >= text.raw => \A k \in marked :
                        LoadedFrom(image, output.is.contexts[i][k].line.offset,
                                   output.is.contexts[i][k].address)
            /\ \A k \in DOMAIN output.is.dump, i \in DOMAIN image.sections :
                LET s == image.sections[i]
                    entry == output.is.dump[k]
                IN  /\ input.of.va - image.base \in s.va..(s.va + s.rawSize - 1)
                    /\ entry.line.offset < s.raw + s.rawSize
                    => LoadedFrom(image, entry.line.offset, entry.address)
            /\ \A p \in output.is.pointers : p.va = 0 \/ LoadedFrom(image, p.offset, p.va)

=============================================================================
