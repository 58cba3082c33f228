--------------------------- MODULE NativeDispatch ---------------------------
(***************************************************************************)
(* How one request of an authenticated client is answered on the game      *)
(* thread: by a native call, on the GodMode route (godmode_dispatch.cpp)   *)
(* or the generic !exec route through the game's command registry          *)
(* (registry_dispatch.cpp), or by a look at the game's live objects.       *)
(* The game is the environment: players join, leave and respawn between    *)
(* requests, and a native handler may do anything to them, say anything,   *)
(* return anything or raise an exception.  The mod can be unloaded by      *)
(* another thread at any moment, which removes the reply hook.             *)
(*                                                                         *)
(* Requests are parsed (their verbs in lower case).  A controller's pawn   *)
(* is NoPawn unless it is a live Prisoner.                                 *)
(***************************************************************************)
EXTENDS Integers, FiniteSets

CONSTANTS
    Controllers, Pawns, NoPawn,
    SteamIds,           \* valid SteamIDs
    NoId,               \* what a controller that is not ready returns
    Registry,           \* the registered command classes, with their metadata
    Requests,
    NoTarget

ASSUME RequestsAssumption ==
    /\ IsFiniteSet(Controllers) /\ IsFiniteSet(Registry)
    /\ \A r \in Requests :
        /\ r.kind \in {"set", "exec"} => r.id \in SteamIds
        /\ r.kind = "exec" => r.count \in Nat

ASSUME RegistryAssumption ==
    \A class \in Registry :
        /\ {class.required, class.declared, class.repeating} \subseteq Int
        /\ {class.enabled, class.shipping, class.server, class.standard} \subseteq BOOLEAN

VARIABLES
    build,              \* this is the supported build of the game
    hooked,             \* response_capture::ready()
    faulted,            \* native_faulted
    ip_faulted,         \* connection_ip's static faulted
    phase, request,
    target,             \* the locals of the dispatcher
    reply,              \* the parts the answer is composed of
    online, steam, pawn, god, immortal,     \* the game
    invoked,            \* history: native handlers called for the request
    before,             \* history: target's pawn and its immortality then
    said,               \* history: the handler answered something
    returned            \* history: what the handler returned

vars == <<build, hooked, faulted, ip_faulted, phase, request, target, reply,
          online, steam, pawn, god, immortal, invoked, before, said, returned>>

game == <<online, steam, pawn, god, immortal>>
history == <<before, said, returned>>

-----------------------------------------------------------------------------

Parts == {"refused", "state", "prepared", "exception", "unknown", "pawn_changed",
          "not_verified", "verified", "false", "text", "capture_failed",
          "truncated", "silent", "nobody", "players", "addresses", "weather",
          "catalogue"}

NoRequest == [kind |-> "none"]

Targets == [controller : Controllers, pawn : Pawns, immortal : BOOLEAN]

\* ... and an answer is never empty.
TypeOK ==
    /\ {build, hooked, faulted, ip_faulted, said, returned} \subseteq BOOLEAN
    /\ phase \in {"idle", "ready", "native", "replied"}
    /\ request \in Requests \cup {NoRequest}
    /\ target \in Targets \cup {NoTarget}
    /\ before \in Targets \cup {NoTarget}
    /\ reply \in SUBSET Parts /\ (phase = "replied" => reply # {})
    /\ online \in [Controllers -> BOOLEAN]
    /\ steam \in [Controllers -> SteamIds \cup {NoId}]
    /\ pawn \in [Controllers -> Pawns \cup {NoPawn}]
    /\ god \in [Pawns -> BOOLEAN] /\ immortal \in [Pawns -> BOOLEAN]
    /\ invoked \in 0..1

Init ==
    /\ build \in BOOLEAN
    /\ hooked \in {FALSE, build}
    /\ faulted = FALSE /\ ip_faulted = FALSE
    /\ phase = "idle" /\ request = NoRequest
    /\ target = NoTarget /\ before = NoTarget
    /\ reply = {}
    /\ online = [c \in Controllers |-> FALSE]
    /\ steam \in [Controllers -> SteamIds \cup {NoId}]
    /\ pawn = [c \in Controllers |-> NoPawn]
    /\ god = [p \in Pawns |-> FALSE] /\ immortal = [p \in Pawns |-> FALSE]
    /\ invoked = 0
    /\ said = FALSE /\ returned = FALSE

\* Unloading: response_capture::shutdown.
Shutdown ==
    /\ hooked
    /\ hooked' = FALSE
    /\ UNCHANGED <<build, faulted, ip_faulted, phase, request, target, reply, game, invoked, history>>

\* The game thread runs game code between requests and inside a native call.
GameStep ==
    /\ phase \in {"idle", "native"}
    /\ \/ \E c \in Controllers :
            \/ /\ online' = [online EXCEPT ![c] = ~ @]
               /\ UNCHANGED <<pawn, god, immortal>>
            \/ /\ \E p \in (Pawns \ {pawn[d] : d \in Controllers}) \cup {NoPawn} :
                    pawn' = [pawn EXCEPT ![c] = p]
               /\ UNCHANGED <<online, god, immortal>>
       \/ \E p \in Pawns :
            \/ god' = [god EXCEPT ![p] = ~ @] /\ UNCHANGED <<online, pawn, immortal>>
            \/ immortal' = [immortal EXCEPT ![p] = ~ @] /\ UNCHANGED <<online, pawn, god>>
    /\ UNCHANGED <<build, hooked, faulted, ip_faulted, phase, request, target, reply, steam,
                   invoked, history>>

-----------------------------------------------------------------------------
(* Finding the player *)

Connected(id) == {c \in Controllers : online[c] /\ steam[c] = id}

\* find_player: exactly one connected controller, with a live Prisoner pawn.
FindPlayer(id) ==
    {c \in Connected(id) : Cardinality(Connected(id)) = 1 /\ pawn[c] # NoPawn}

\* connected_players refuses to list two controllers with one SteamID, whoever
\* is looked for.
Unambiguous == \A id \in SteamIds : Cardinality(Connected(id)) <= 1

ConnectedPlayers(id) ==
    {c \in Connected(id) : Unambiguous /\ pawn[c] # NoPawn}

-----------------------------------------------------------------------------
(* The command registry *)

\* Metadata the parameter counts can be trusted in, and a handler of the game
\* with the shared reply method.
Unsupported(class) ==
    \/ class.required < 0 \/ class.required > class.declared \/ class.declared > 64
    \/ class.repeating < 0 \/ class.repeating > class.declared
    \/ ~ class.enabled \/ ~ class.shipping \/ ~ class.server
    \/ ~ class.standard

\* Repeated arguments counted as if they came in any number.
ArgumentsFitLoosely(class, count) ==
    count >= class.required /\ (class.repeating = 0 => count <= class.declared)

ArgumentsFit(class, count) ==
    /\ count >= class.required
    /\ class.repeating = 0 => count <= class.declared
    /\ class.repeating # 0 /\ count > class.declared =>
            (count - class.declared) % class.repeating = 0

Resolve(r) ==
    LET named == {class \in Registry : class.verb = r.verb}
    IN  {class \in named :
            /\ Cardinality(named) = 1
            /\ ~ Unsupported(class)
            /\ ArgumentsFit(class, r.count)}

-----------------------------------------------------------------------------
(* The dispatchers *)

\* What execute checks before it looks at the game's objects.
ExecAllowed == ~ faulted /\ build /\ hooked

\* execute without its first line.
ExecTargetsUnlatched(r) ==
    IF build /\ hooked /\ Resolve(r) # {} THEN ConnectedPlayers(r.id) ELSE {}

\* execute: everything it checks before it makes an instance.
ExecTargets(r) ==
    IF ExecAllowed /\ Resolve(r) # {} THEN ConnectedPlayers(r.id) ELSE {}

GodModeTargets(r) == IF build THEN FindPlayer(r.id) ELSE {}

TargetsOf(r) ==
    CASE r.kind = "exec" -> ExecTargets(r)
      [] r.kind \in {"set", "state", "prepare"} -> GodModeTargets(r)
      [] OTHER -> {}

Answer(parts) == phase' = "replied" /\ reply' = parts

Unanswerable(r, parts) ==
    /\ request' = r /\ Answer(parts)
    /\ target' = NoTarget /\ invoked' = 0
    /\ UNCHANGED <<build, hooked, faulted, ip_faulted, game, history>>

\* A refusal: an answer that one of the checks returns or, whatever they say,
\* one that a game object (a class, property, interface or the new instance)
\* is not what it should be.  The generic route looks for players only when
\* the command is found, and never returns an answer about ambiguous ones.
Refuse(r) ==
    /\ phase = "idle"
    /\ r.kind \in {"invalid", "set", "state", "prepare", "exec"}
    /\ r.kind = "exec" /\ ExecAllowed /\ Resolve(r) # {} => Unambiguous
    /\ Unanswerable(r, {"refused"})

\* An exception before any call of the handler: the registry or the players
\* cannot be listed, an argument is no UTF-8, or a function of the game that is
\* called to find out raises it.  drain_and_dispatch answers like it does for
\* one out of the handler.
Throw(r) ==
    /\ phase = "idle"
    /\ \/ r.kind \in {"set", "state", "prepare"} /\ build
       \/ r.kind = "exec" /\ ExecAllowed
    /\ Unanswerable(r, {"exception"})

\* !godmode_state and !godmode_prepare answer without executing anything.
Describe(r) ==
    /\ phase = "idle"
    /\ r.kind \in {"state", "prepare"} /\ TargetsOf(r) # {}
    /\ request' = r
    /\ Answer(IF r.kind = "state" THEN {"state"} ELSE {"prepared"})
    /\ target' = NoTarget /\ invoked' = 0
    /\ UNCHANGED <<build, hooked, faulted, ip_faulted, game, history>>

\* Every check is passed, the instance is made and its reply scope is open.
Admit(r) ==
    /\ phase = "idle"
    /\ r.kind \in {"set", "exec"}
    /\ hooked
    /\ \E c \in TargetsOf(r) :
            target' = [controller |-> c, pawn |-> pawn[c], immortal |-> immortal[pawn[c]]]
    /\ phase' = "ready"
    /\ request' = r /\ reply' = {} /\ invoked' = 0
    /\ UNCHANGED <<build, hooked, faulted, ip_faulted, game, history>>

\* The call of the native handler.
Invoke ==
    /\ phase = "ready"
    /\ phase' = "native"
    /\ invoked' = invoked + 1
    /\ before' = target
    /\ UNCHANGED <<build, hooked, faulted, ip_faulted, request, target, reply, game, said, returned>>

\* The generic route without its own guard around the call.
RaiseUnguarded ==
    /\ phase = "native"
    /\ Answer({"exception"})
    /\ UNCHANGED <<build, hooked, faulted, ip_faulted, request, target, game, invoked, history>>

\* The handler raises a structured exception.  The generic route catches it and
\* latches itself off; the GodMode route leaves it to drain_and_dispatch.
Raise ==
    /\ phase = "native"
    /\ faulted' = (faulted \/ request.kind = "exec")
    /\ Answer(IF request.kind = "exec" THEN {"unknown"} ELSE {"exception"})
    /\ UNCHANGED <<build, hooked, ip_faulted, request, target, game, invoked, history>>

\* What the captured replies add to an answer.
Captured(parts, text, failed, cut) ==
    parts \cup (IF text THEN {"text"} ELSE {})
          \cup (IF failed THEN {"capture_failed"} ELSE {})
          \cup (IF cut THEN {"truncated"} ELSE {})

\* The generic answer that calls everything without text silent.
ExecReplyByText(result, text, failed, cut) ==
    IF text THEN Captured({}, text, failed, cut) ELSE {"silent"}

ExecReply(result, text, failed, cut) ==
    LET parts == Captured(IF result THEN {} ELSE {"false"}, text, failed, cut)
    IN  IF parts = {} THEN {"silent"} ELSE parts

\* GodMode verified by the state of the pawn it was called for.
GodModeReplyOldPawn(result, text, failed, cut) ==
    IF ~ result \/ god[target.pawn] # request.enabled
         \/ immortal[target.pawn] # target.immortal
    THEN {"not_verified"}
    ELSE Captured({"verified"}, text, failed, cut)

GodModeReply(result, text, failed, cut) ==
    CASE pawn[target.controller] # target.pawn -> {"pawn_changed"}
      [] /\ pawn[target.controller] = target.pawn
         /\ \/ ~ result
            \/ god[target.pawn] # request.enabled
            \/ immortal[target.pawn] # target.immortal -> {"not_verified"}
      [] OTHER -> Captured({"verified"}, text, failed, cut)

\* The handler returns.  Of what it said something is in the buffer unless
\* that failed, and some may be missing; once the hook is removed, by an
\* unload during the call, nothing more gets there.
Return(result, talks, failed, cut) ==
    /\ phase = "native"
    /\ failed \/ cut => talks
    /\ \E heard \in IF hooked THEN {TRUE} ELSE BOOLEAN,
          text \in IF failed THEN BOOLEAN ELSE {talks} :
            Answer(IF request.kind = "exec"
                   THEN ExecReply(result, heard /\ text, heard /\ failed, heard /\ cut)
                   ELSE GodModeReply(result, heard /\ text, heard /\ failed, heard /\ cut))
    /\ said' = talks /\ returned' = result
    /\ UNCHANGED <<build, hooked, faulted, ip_faulted, request, target, game, invoked, before>>

-----------------------------------------------------------------------------
(* Live queries *)

Asked(r, kind) ==
    /\ phase = "idle" /\ r.kind = kind
    /\ request' = r
    /\ target' = NoTarget /\ invoked' = 0

\* connection_ip for each player of the list: a failing read ends the looking
\* up of addresses for the life of the process.
Addresses(parts) ==
    /\ "addresses" \in parts => build /\ ~ ip_faulted
    /\ ip_faulted' \in {ip_faulted, ip_faulted \/ build}

\* ListPlayers: connected_players, its reflection or that of the names throws.
ListPlayers(r) ==
    /\ Asked(r, "players")
    /\ \/ /\ \A id \in SteamIds : Connected(id) = {}
          /\ Answer({"nobody"}) /\ UNCHANGED ip_faulted
       \/ /\ Unambiguous /\ \E id \in SteamIds : Connected(id) # {}
          /\ \/ \E parts \in {{"players"}, {"players", "addresses"}} :
                    Answer(parts) /\ Addresses(parts)
             \/ Answer({"exception"}) /\ Addresses({})
       \/ Answer({"exception"}) /\ UNCHANGED ip_faulted
    /\ UNCHANGED <<build, hooked, faulted, game, history>>

\* GetWeather, GetTimeOfDay (which asks for less): there is one weather
\* controller and it has what is required, or an exception says what it lacks.
Weather(r) ==
    /\ Asked(r, "weather")
    /\ \E controllers \in 0..2, complete \in BOOLEAN :
            Answer(IF ~ build \/ controllers # 1 THEN {"refused"}
                   ELSE IF complete THEN {"weather"} ELSE {"exception"})
    /\ UNCHANGED <<build, hooked, faulted, ip_faulted, game, history>>

\* !commands lists the registry, the unsupported classes too; one that is not
\* ready or holds nothing throws.
Catalogue(r) ==
    /\ Asked(r, "commands")
    /\ \/ Registry # {} /\ Answer({"catalogue"})
       \/ Answer({"exception"})
    /\ UNCHANGED <<build, hooked, faulted, ip_faulted, game, history>>

\* The promise is kept; the next request follows.
Done ==
    /\ phase = "replied"
    /\ phase' = "idle"
    /\ request' = NoRequest
    /\ reply' = {} /\ target' = NoTarget /\ before' = NoTarget
    /\ said' = FALSE /\ returned' = FALSE /\ invoked' = 0
    /\ UNCHANGED <<build, hooked, faulted, ip_faulted, game>>

Next ==
    \/ Shutdown \/ GameStep \/ Invoke \/ Raise \/ Done
    \/ \E r \in Requests : Refuse(r) \/ Throw(r) \/ Describe(r) \/ Admit(r)
    \/ \E r \in Requests : ListPlayers(r) \/ Weather(r) \/ Catalogue(r)
    \/ \E result, talks, failed, cut \in BOOLEAN : Return(result, talks, failed, cut)

Spec == Init /\ [][Next]_vars

-----------------------------------------------------------------------------

Replied(parts) == phase = "replied" /\ reply \cap parts # {}

\* "verified" is true when it is said: the player still has the pawn the
\* command was meant for, in the requested mode, its immortality what it was
\* when the handler was called, and the handler reported success.
VerifiedIsTrue ==
    Replied({"verified"}) =>
        /\ invoked = 1 /\ returned
        /\ pawn[before.controller] = before.pawn
        /\ god[before.pawn] = request.enabled
        /\ immortal[before.pawn] = before.immortal

\* What an answer tells of the handler: a refusal, a state, a preparation
\* ("executed=false") and a live query never follow a call, so that a client
\* may repeat what was refused; an exception out of the dispatcher never
\* follows the call of a generic command, which catches those of its handler
\* itself ("execution status unknown"), but may follow that of SetGodMode; and
\* every other answer follows exactly one call.
WithoutCall == {"refused", "state", "prepared", "nobody", "players", "weather", "catalogue"}

AnswerTellsWhetherExecuted ==
    phase = "replied" =>
        /\ reply \cap WithoutCall # {} => invoked = 0
        /\ "exception" \in reply => invoked = 0 \/ (invoked = 1 /\ request.kind = "set")
        /\ reply \cap (WithoutCall \cup {"exception"}) = {} => invoked = 1

\* A handler is called only for a player who is the only one connected with
\* the requested SteamID and has a live Prisoner pawn; and a generic command
\* only if its verb is registered once, by an enabled server command, and its
\* arguments are the declared ones, some of them or whole repetitions behind
\* them.
OnlyEligibleExecuted ==
    phase = "ready" =>
        /\ {c \in Controllers : online[c] /\ steam[c] = request.id} = {target.controller}
        /\ pawn[target.controller] = target.pawn
        /\ request.kind = "exec" =>
            \E class \in Registry :
                /\ {other \in Registry : other.verb = request.verb} = {class}
                /\ class.enabled /\ class.shipping /\ class.server /\ class.standard
                /\ \/ request.count \in class.required..class.declared
                   \/ \E n \in 1..request.count :
                        request.count = class.declared + n * class.repeating

\* A failure of the handler never looks like a success, and while the hook is
\* in place an answer that completed passes on what the handler said or that
\* it could not be captured.
NothingWithheld ==
    /\ phase = "replied" /\ invoked = 1 /\ ~ returned => reply \cap {"silent", "verified"} = {}
    /\ Replied({"false", "text", "capture_failed", "silent", "verified"}) /\ hooked /\ said =>
            reply \cap {"text", "capture_failed"} # {}

\* A structured exception in the generic native call latches further generic
\* execution off until restart, and one in the reading of an address the
\* addresses of all later answers (registry_dispatch.cpp, execute and
\* connection_ip).
FaultLatches ==
    [][/\ faulted => faulted' /\ (phase' = "native" /\ phase # "native" => request.kind # "exec")
       /\ ip_faulted => ip_faulted' /\ "addresses" \notin reply' \ reply]_vars

=============================================================================
