----------------------------- MODULE LiveFormats -----------------------------
(***************************************************************************)
(* What the live queries print: the clock and the weather                  *)
(* (live_query_format.hpp, weather), the rows of ListPlayers and those of  *)
(* the command catalogue (registry_dispatch.cpp).  An answer is a set of   *)
(* at most one value; it is empty where the code throws or answers with an *)
(* error.                                                                  *)
(*                                                                         *)
(* Times are in parts of a minute: hours * 60 is exact for the floats of   *)
(* the game, so truncating it is an integer division.  A text is a         *)
(* sequence of bytes as in Utf8Text, with bar, newline and the words of a  *)
(* row as bytes of their own.                                              *)
(***************************************************************************)
EXTENDS Integers, Sequences, SequencesExt, Utf8Text

CONSTANTS
    PartsOfMinute,      \* resolution of the game's clock
    MaxField            \* 512

ASSUME FormatsAssumption == {PartsOfMinute, MaxField} \subseteq Nat \ {0}

Day == 24 * 60 * PartsOfMinute
NotFinite == "not finite"
Absent == "absent"

-----------------------------------------------------------------------------
(* The weather.  A controller has fields, by their names in the answer: a  *)
(* number, NotFinite, or Absent when there is no such property.  time is    *)
(* what the number of its timeOfDay means.                                  *)

RequiredWeather == {"windAzimuth", "windIntensity", "rainIntensity", "fogDensity"}
OptionalWeather == {"sunriseTime", "sunsetTime", "airTemperature", "waterTemperature",
    "cirrostratusCoverage", "cumulonimbusCoverage", "nimbostratusCoverage", "maxWindSpeedKph"}

InGameClock(time) ==
    IF time \in 0..Day
    THEN LET minute == (time \div PartsOfMinute) % 1440
         IN  {<<minute \div 60, minute % 60>>}
    ELSE {}

LiveFloat(controller, name) == controller.fields[name] \notin {Absent, NotFinite}

\* A query of the time that asks for the fields it does not print.
ReadableAlways(controller, time_only) ==
    \A name \in {"timeOfDay"} \cup RequiredWeather : LiveFloat(controller, name)

\* The required fields of a query are there.
Readable(controller, time_only) ==
    \A name \in {"timeOfDay"} \cup (IF time_only THEN {} ELSE RequiredWeather) :
        LiveFloat(controller, name)

\* The current wind speed in km/h is always null.
WeatherJson(controller, time_only) ==
    LET printed == {"timeOfDay", "timeOfDaySpeed"}
                   \cup (IF time_only THEN {} ELSE RequiredWeather \cup OptionalWeather)
        unknown == IF time_only THEN {} ELSE {"windSpeedKph"}
    IN  {[text |-> clock,
          fields |-> [name \in printed \cup unknown |->
                IF name \in printed /\ LiveFloat(controller, name)
                THEN controller.fields[name] ELSE "null"]] : clock \in InGameClock(controller.time)}

\* It takes the supported build and exactly one active controller.
Weather(supported, controllers, time_only) ==
    UNION {WeatherJson(c, time_only) :
            c \in {x \in controllers : supported /\ controllers = {x} /\ Readable(x, time_only)}}

-----------------------------------------------------------------------------
(* Rows *)

Char(c) == Byte(c, 1)
Bar == Char("bar")
Newline == Char("newline")
Control == Char("control")
Gap == Char("blank")

\* A field that keeps the bars of the text.
FieldWithBars(text) ==
    LET plain == [i \in DOMAIN text |-> IF text[i] \in {Newline, Control} THEN Gap ELSE text[i]]
    IN  SubSeq(plain, 1, Utf8PrefixSize(plain, MaxField))

Field(text) ==
    LET plain == [i \in DOMAIN text |->
                    IF text[i] \in {Newline, Control, Bar} THEN Gap ELSE text[i]]
    IN  SubSeq(plain, 1, Utf8PrefixSize(plain, MaxField))

Details == <<"upid", "ip", "money", "gold", "ping", "location">>

\* The details of a player that could be read; only of the address a row says
\* that it is missing.
Detail(player, d) ==
    CASE d \in player.details -> <<Char(d)>>
      [] d = "ip" /\ d \notin player.details -> <<Char("ipStatus=unavailable")>>
      [] OTHER -> << >>

PlayerRow(player) ==
    <<Char("PLAYER steam="), Char(player.id)>>
    \o FlattenSeq([i \in DOMAIN Details |-> Detail(player, Details[i])])
    \o <<Bar>> \o Field(player.name) \o <<Bar, Newline>>

Nobody == <<Char("No players online.")>>

\* players are in the order of their SteamIDs; one name that cannot be read
\* throws, whatever the rows before it.
PlayerList(players) ==
    IF players = << >> THEN {Nobody}
    ELSE IF \A i \in DOMAIN players : players[i].readable
    THEN {FlattenSeq([i \in DOMAIN players |-> PlayerRow(players[i])])} ELSE {}

\* verb.find(filter) finds it, both in lower case; an empty filter is everywhere.
Finds(verb, filter) ==
    filter = << >> \/ \E i \in 1..Len(verb), k \in 0..Len(verb) : SubSeq(verb, i, k) = filter

Matching(entries, filter) ==
    FlattenSeq([i \in DOMAIN entries |->
                    IF Finds(entries[i].verb, filter) THEN <<entries[i]>> ELSE << >>])

CommandRow(command) ==
    Field(command.verb) \o <<Bar>> \o <<Char("metadata")>> \o <<Bar>>
    \o <<Char(command.unsupported)>> \o <<Newline>>

Catalogue(entries, filter) ==
    LET rows == Matching(entries, filter)
    IN  [rows |-> FlattenSeq([i \in DOMAIN rows |-> CommandRow(rows[i])]),
         matched |-> Len(rows), total |-> Len(entries)]

=============================================================================
