-------------------------- MODULE MCNativeDispatch --------------------------
(* Model-checking instances of NativeDispatch. *)
EXTENDS NativeDispatch, TLC

Class(verb, required, declared, repeating) ==
    [verb |-> verb, required |-> required, declared |-> declared,
     repeating |-> repeating, enabled |-> TRUE, shipping |-> TRUE,
     server |-> TRUE, standard |-> TRUE]

ExecRequests(verbs, counts) ==
    [kind : {"exec"}, id : SteamIds, verb : verbs, count : counts]

\* Commands with every kind of metadata.
FullRegistry ==
    {Class("plain", 0, 0, 0), Class("fixed", 1, 2, 0), Class("pairs", 1, 2, 2),
     Class("twice", 0, 1, 0), Class("twice", 1, 1, 0),
     Class("broken", 2, 1, 0), Class("greedy", 0, 1, 2),
     [Class("debug", 0, 0, 0) EXCEPT !.shipping = FALSE],
     [Class("off", 0, 0, 0) EXCEPT !.enabled = FALSE],
     [Class("client", 0, 0, 0) EXCEPT !.server = FALSE],
     [Class("foreign", 0, 0, 0) EXCEPT !.standard = FALSE]}

\* Every GodMode request and live query, every command with and without an argument, and with
\* up to five those whose metadata tell more arguments apart.
AllRequests ==
    [kind : {"set"}, id : SteamIds, enabled : BOOLEAN]
    \cup [kind : {"state", "prepare"}, id : SteamIds]
    \cup [kind : {"invalid", "players", "weather", "commands"}]
    \cup ExecRequests({class.verb : class \in FullRegistry} \cup {"missing"}, 0..1)
    \cup ExecRequests({"fixed", "pairs", "greedy"}, 2..5)

\* Neither pawns nor controllers take part in any order.
PlayerSymmetry == Permutations(Pawns) \cup Permutations(Controllers)

=============================================================================
