-------------------------- MODULE MCPureFunctions --------------------------
(* Model-checking instances of PureFunctions: the inputs. *)
EXTENDS PureFunctions

SeqsUpTo(S, n) == UNION {[1..k -> S] : k \in 0..n}

-----------------------------------------------------------------------------
(* Commands: every !exec with up to four more symbols in the place of its   *)
(* verb or behind it, and every short text of GodMode words.                *)

ShortTexts ==
    {<<"exec", "blank", "id", "blank">> \o verb \o rest :
        verb \in {<< >>, <<"a", "blank">>},
        rest \in SeqsUpTo({"blank", "tab", "newline", "control", "quote",
                           "backslash", "hash", "a"}, 4)}
    \cup {<<first>> \o rest :
        first \in {"god", "state", "hash", "list", "time", "commands"},
        rest \in SeqsUpTo({"god", "blank", "newline", "true", "id", "a"}, 4)}
    \cup {<<first, "blank">> \o rest :
        first \in {"god", "state"},
        rest \in SeqsUpTo({"blank", "newline", "true", "id", "a"}, 5)}

\* Arguments of the symbols that need care, one longer than MaxToken among them.
SmallArguments ==
    SeqsUpTo({"a", "blank", "quote", "backslash"}, 2)
    \cup {<<"a", "quote", "a">>, <<"a", "a", "a", "a">>}

SmallArgumentLists == SeqsUpTo(SmallArguments, 2) \cup [1..3 -> {<<"a">>, << >>}]

-----------------------------------------------------------------------------
(* Configurations: passwords of every shape, ports that fit and that do not, *)
(* and settings that stand in a comment, behind one, or are overridden.      *)

Note == <<"blank", "comment", "equals", "a">>
Hidden == <<<<"comment">> \o Line("port", <<"a">>), <<"a">>>>
Overridden == <<Line("password", <<"a">>), Line("port", <<"high">>)>>

SmallConfigs ==
    [settings : [port : {<<"low">>, <<"high">>, <<"huge">>, <<"minus", "low">>, <<"a">>,
                         <<"low", "a">>, <<"blank", "low", "blank", "comment">>, << >>},
                 password : SeqsUpTo({"a", "blank", "equals", "comment", "port"}, 3)],
     before : {<< >>, Hidden, Overridden}, note : {<< >>, Note}]
    \cup [settings : [bind_host : {<<"a">>, <<"a", "comment">>}] \cup [port : {<<"low">>}],
          before : {<< >>, Hidden}, note : {<< >>, Note}]

-----------------------------------------------------------------------------
(* Live queries: every time of the day, and controllers of which up to two   *)
(* fields are absent or not finite.                                          *)

FieldNames == {"timeOfDay", "timeOfDaySpeed"} \cup RequiredWeather \cup OptionalWeather

Controller(time, lost, how) ==
    [time |-> time, fields |-> [f \in FieldNames |-> IF f \in lost THEN how ELSE f]]

SmallWeather ==
    [supported : {TRUE}, time_only : BOOLEAN,
     controllers : {{Controller(t, {}, Absent)} : t \in -1..(Day + 1)}
                   \cup {{Controller(90, {f, g}, how)} :
                            f, g \in FieldNames, how \in {Absent, NotFinite}}]
    \cup [supported : BOOLEAN, time_only : BOOLEAN,
          controllers : SUBSET {Controller(t, {}, Absent) : t \in {0, 90}}]

Names ==
    {FlattenSeq([i \in DOMAIN t |-> IF t[i] = "e" THEN <<Byte("e", 1), Byte("e", 2)>>
                                    ELSE <<Char(t[i])>>]) :
        t \in SeqsUpTo({"a", "e", "bar", "newline"}, 4)}

Players(id, names) ==
    [id : {id}, name : names, readable : BOOLEAN,
     details : {{}, {"ip"}, {"upid", "money"}, Range(Details)}]

SmallLists ==
    {<< >>} \cup {<<p>> : p \in Players("first", Names)}
    \cup {<<p, q>> : p \in Players("first", {<<Bar, Newline>>, <<Char("second")>>}),
                     q \in Players("second", {n \in Names : Len(n) <= 2})}

SmallCatalogues ==
    [entries : {SetToSeq(S) : S \in SUBSET [verb : {<<Char("a")>>, <<Char("a"), Bar>>,
                                                    <<Char("b"), Newline, Char("a")>>},
                                           unsupported : {"native_candidate", "metadata"}]},
     filter : {<< >>, <<Char("a")>>, <<Char("b")>>}]

-----------------------------------------------------------------------------
(* Images.  Byte 1 is an instruction without operands; 2 begins one of two    *)
(* bytes with a relative operand and 3 one of three bytes with a relative and *)
(* an absolute one; the other bytes are none.  The string is <<4, 1>>.        *)

Base == 10

MCDecode(bytes, offset, limit) ==
    LET length == CASE bytes[offset + 1] = 1 -> 1
                    [] bytes[offset + 1] = 2 -> 2
                    [] bytes[offset + 1] = 3 -> 3
                    [] OTHER -> 0
        operand(k, relative) ==
            [relative |-> relative,
             value |-> IF relative THEN bytes[offset + k] - 4 ELSE Base + bytes[offset + k]]
    IN  IF length = 0 \/ offset + length > limit THEN {}
        ELSE {[length |-> length,
               operands |-> CASE length = 1 -> << >>
                              [] length = 2 -> <<operand(2, TRUE)>>
                              [] OTHER -> <<operand(2, TRUE), operand(3, FALSE)>>]}

Section(va, size, raw, rawSize, executable) ==
    [va |-> va, size |-> size, raw |-> raw, rawSize |-> rawSize, executable |-> executable]

\* A header of two bytes, the code, and data with zeros behind it in memory; or
\* the data first.
CodeFirst(code, data) ==
    [base |-> Base, bytes |-> <<0, 1>> \o code \o data,
     sections |-> <<Section(3, 5, 2, 5, TRUE), Section(8, 6, 7, 4, FALSE)>>]
DataFirst(code, data) ==
    [base |-> Base, bytes |-> <<0, 1>> \o data \o code,
     sections |-> <<Section(2, 4, 2, 4, FALSE), Section(8, 6, 6, 5, TRUE)>>]

SmallImages ==
    [image : {layout : layout \in {CodeFirst(code, data) : code \in [1..5 -> 1..4],
                                     data \in {<<4, 1, 13, 0>>, <<4, 0, 1, 0>>}}}
             \cup {DataFirst(code, <<4, 1, 2, 4>>) : code \in [1..5 -> 0..3]}
             \cup {[base |-> Base, bytes |-> <<0, 1, 4, 1>>,
                    sections |-> <<Section(2, 2, 2, 2, FALSE)>>]},
     needle : {<<4, 1>>}, wide : {<<4, 0, 1, 0>>}, functions : {{Base + 3}},
     pointer : {<<4, 1>>, <<1>>}, va : {Base + 5, Base + 13, Base - 1}, maxBytes : {3}]

=============================================================================
