---------------------------- MODULE ModLifecycle ----------------------------
(***************************************************************************)
(* The life of the mod (dllmain.cpp) around its observers: on_unreal_init  *)
(* resolves the game's objects, reads the configuration, registers the     *)
(* callbacks, checks and patches the game's code, and starts the listener; *)
(* the destructor takes down the part of it that would call into the mod.  *)
(* Then the library may be freed, and the mod loaded again.                *)
(*                                                                         *)
(* What the listener, the trace and the dispatchers do in between is in    *)
(* their own modules; commands are those of Observers.                     *)
(***************************************************************************)
EXTENDS Observers, Sequences

CONSTANTS
    Required,           \* objects without which AdminDispatch does not start
    Optional,           \* objects that only diagnostics use
    MaxLives            \* bound: how often the mod is loaded

ASSUME LifecycleAssumption == MaxLives \in Nat \ {0}

VARIABLES
    step,               \* the next of Stages; 0 when the library is not loaded
    lives,
    supported,          \* the server is the build the signatures are from
    resolved,           \* objects AdminDispatch found
    callbacks,          \* registered callbacks
    m_engine_tick_callback,     \* holds the id of the tick, not ERROR_ID
    listener,           \* none, listening or stopped
    patched,            \* functions of the game that begin with a jump to the mod
    ready,              \* the flags the initialisers set, of Flags
    failed              \* history: a patch failed in this life

loading == <<step, lives, supported>>
serving == <<resolved, callbacks, m_engine_tick_callback, listener>>
patching == <<patched, ready, failed>>
lifecycle == <<loading, serving, patching>>
all == <<vars, lifecycle>>

-----------------------------------------------------------------------------

\* An order that patches CanExecute before its signature is checked.
StagesHookFirst ==
    <<"resolve", "configure", "tick", "process_event",
      "trace", "execute_hook", "godmode", "response", "registration_hook", "listen", "up",
      "response_shutdown", "trace_shutdown", "stop", "unregister", "destroyed">>

\* on_unreal_init up to "up", and the destructor behind it.  Two more callbacks
\* only write to files of their own.
Stages ==
    <<"resolve", "configure", "tick", "process_event",
      "trace", "godmode", "response", "execute_hook", "registration_hook", "listen", "up",
      "response_shutdown", "trace_shutdown", "stop", "unregister", "destroyed">>

Callbacks == {"tick", "process_event"}
GameFunctions == {"handler", "interface", "can_execute", "response"}
Flags == {"build_ok", "hook_ok", "signatures_ok", "hooked", "interface_hook_ok"}

At(stage) == step # 0 /\ Stages[step] = stage
Advance == step' = step + 1 /\ UNCHANGED <<lives, supported>>

\* on_unreal_init returns before the listener is started.
GiveUp ==
    /\ \E up \in DOMAIN Stages : Stages[up] = "up" /\ step' = up
    /\ UNCHANGED <<lives, supported>>

LifecycleTypeOK ==
    /\ step \in 0..Len(Stages) /\ lives \in 0..MaxLives /\ supported \in BOOLEAN
    /\ resolved \subseteq Required \cup Optional
    /\ callbacks \subseteq Callbacks /\ m_engine_tick_callback \in BOOLEAN
    /\ listener \in {"none", "listening", "stopped"}
    /\ patched \subseteq GameFunctions /\ ready \subseteq Flags /\ failed \in BOOLEAN

LifecycleInit ==
    /\ Init
    /\ step = 0 /\ lives = 0 /\ supported \in BOOLEAN
    /\ resolved = {} /\ callbacks = {} /\ listener = "none"
    /\ m_engine_tick_callback = FALSE
    /\ patched = {} /\ ready = {} /\ failed = FALSE

-----------------------------------------------------------------------------
(* on_unreal_init *)

Load ==
    /\ step = 0 /\ lives < MaxLives
    /\ step' = 1 /\ lives' = lives + 1
    /\ UNCHANGED <<vars, supported, serving, patching>>

Resolve ==
    /\ At("resolve")
    /\ resolved' \in SUBSET (Required \cup Optional)
    /\ IF Required \subseteq resolved' THEN Advance ELSE GiveUp
    /\ UNCHANGED <<vars, callbacks, m_engine_tick_callback, listener, patching>>

\* A port that is no number throws.
Configure ==
    /\ At("configure")
    /\ Advance \/ GiveUp
    /\ UNCHANGED <<vars, serving, patching>>

\* The host may turn a callback down.  on_unreal_init keeps the id of the tick
\* for its destructor and tests neither: it goes on without that callback.
Register(callback) ==
    /\ At(callback) /\ Advance
    /\ \E registered \in BOOLEAN :
        /\ callbacks' = IF registered THEN callbacks \cup {callback} ELSE callbacks
        /\ m_engine_tick_callback' =
                IF callback = "tick" THEN registered ELSE m_engine_tick_callback
    /\ UNCHANGED <<vars, resolved, listener, patching>>

\* An initialiser that raises the first flags when its check passes and then
\* patches a function, with a flag for that; hook may fail.
CheckAndPatch(passes, checked, function, flag) ==
    \E done \in BOOLEAN :
        /\ done => passes
        /\ patched' = IF done THEN patched \cup {function} ELSE patched
        /\ ready' = ready \cup (IF passes THEN checked ELSE {}) \cup (IF done THEN flag ELSE {})
        /\ failed' = (failed \/ (passes /\ ~ done))

\* The trace looks at the build and at the two functions it describes.
InitializeTrace ==
    /\ At("trace") /\ Advance
    /\ CheckAndPatch(supported /\ {"handler", "interface"} \cap patched = {},
                     {"build_ok"}, "handler", {"hook_ok"})
    /\ UNCHANGED <<vars, serving>>

InitializeGodMode ==
    /\ At("godmode") /\ Advance
    /\ ready' = IF "build_ok" \in ready /\ "can_execute" \notin patched
                THEN ready \cup {"signatures_ok"} ELSE ready \ {"signatures_ok"}
    /\ UNCHANGED <<vars, serving, patched, failed>>

InitializeResponse ==
    /\ At("response") /\ Advance
    /\ CheckAndPatch("build_ok" \in ready /\ "response" \notin patched, {}, "response", {"hooked"})
    /\ UNCHANGED <<vars, serving>>

InstallExecuteHook ==
    /\ At("execute_hook") /\ Advance
    /\ CheckAndPatch("build_ok" \in ready, {}, "can_execute", {})
    /\ UNCHANGED <<vars, serving>>

InstallRegistrationHook ==
    /\ At("registration_hook") /\ Advance
    /\ CheckAndPatch("build_ok" \in ready, {}, "interface", {"interface_hook_ok"})
    /\ UNCHANGED <<vars, serving>>

\* A server that does not start leaves the rest as it is.
Listen ==
    /\ At("listen") /\ Advance
    /\ listener' \in {"listening", "none"}
    /\ UNCHANGED <<vars, resolved, callbacks, m_engine_tick_callback, patching>>

-----------------------------------------------------------------------------
(* The destructor, whatever on_unreal_init came to *)

Uninstall ==
    /\ At("up") /\ Advance
    /\ UNCHANGED <<vars, serving, patching>>

\* shutdown of the response capture and of the trace.
Unhook(stage, flag, function) ==
    /\ At(stage) /\ Advance
    /\ patched' = IF flag \in ready THEN patched \ {function} ELSE patched
    /\ ready' = ready \ {flag}
    /\ UNCHANGED <<vars, serving, failed>>

Stop ==
    /\ At("stop") /\ Advance
    /\ listener' = IF listener = "listening" THEN "stopped" ELSE listener
    /\ UNCHANGED <<vars, resolved, callbacks, m_engine_tick_callback, patching>>

\* A destructor that leaves the tick registered.
UnregisterNone ==
    /\ At("unregister") /\ Advance
    /\ UNCHANGED <<vars, serving, patching>>

\* Of the callbacks only the tick is unregistered, if it was registered, and
\* between two ticks.
Unregister ==
    /\ At("unregister") /\ Advance /\ ~ dispatching
    /\ callbacks' = IF m_engine_tick_callback THEN callbacks \ {"tick"} ELSE callbacks
    /\ UNCHANGED <<vars, resolved, m_engine_tick_callback, listener, patching>>

\* The library is freed: its static detours take their patches with them, its
\* variables are new the next time, and the host forgets its callbacks.  No
\* thread is in its code.
Detach ==
    /\ At("destroyed") /\ writing = {}
    /\ step' = 0
    /\ resolved' = {} /\ callbacks' = {} /\ listener' = "none"
    /\ m_engine_tick_callback' = FALSE
    /\ patched' = {} /\ ready' = {} /\ failed' = FALSE
    /\ m_capturing_calls' = FALSE /\ manual' = FALSE
    /\ g_capturing_registration_calls' = FALSE /\ g_registration_log_count' = 0
    /\ UNCHANGED <<lives, supported, dispatching, logged, missed, writing, lines, lookups>>

-----------------------------------------------------------------------------

\* Commands come from the listener and run in the tick; what was accepted
\* before the stop may run behind it.
Command ==
    /\ listener # "none" /\ "tick" \in callbacks
    /\ \/ CaptureStart \/ CaptureStop \/ Dispatch \/ DispatchReturns \/ Raise
       \/ RegistrationStart \/ RegistrationStop
    /\ UNCHANGED lifecycle

Event ==
    /\ "process_event" \in callbacks /\ ~ At("destroyed")
    /\ ProcessEvent
    /\ UNCHANGED lifecycle

InterfaceLookup(t) ==
    /\ "interface" \in patched
    /\ Lookup(t)
    /\ UNCHANGED lifecycle

LifecycleNext ==
    \/ Load \/ Resolve \/ Configure
    \/ \E callback \in Callbacks : Register(callback)
    \/ InitializeTrace \/ InitializeGodMode \/ InitializeResponse
    \/ InstallExecuteHook \/ InstallRegistrationHook \/ Listen
    \/ Uninstall
    \/ Unhook("response_shutdown", "hooked", "response")
    \/ Unhook("trace_shutdown", "hook_ok", "handler")
    \/ Stop \/ Unregister \/ Detach
    \/ Command \/ Event
    \/ \E t \in Threads : InterfaceLookup(t) \/ (Write(t) /\ UNCHANGED lifecycle)

LifecycleSpec == LifecycleInit /\ [][LifecycleNext]_all

-----------------------------------------------------------------------------

\* Once on_unreal_init has returned from starting the server on the supported
\* build, and no patch failed, every feature is there, in each life of the mod:
\* no initialiser finds a function it checks already patched by another ("run
\* before the existing CanExecute observer patches its prologue").  Another
\* build is never patched.
SupportedMeansAvailable ==
    /\ At("up") /\ listener = "listening" /\ supported /\ ~ failed => ready = Flags
    /\ ~ supported => patched = {}

\* A listener that takes commands has the objects they need ("the caller should
\* refuse to start the RCON listener in that case rather than silently no-op
\* every command"), and the tick that runs them unless the host turned that
\* down, from its start until it has been stopped; and once the mod is destroyed
\* there is no tick any more to use it.  on_unreal_init does not refuse to start
\* a listener without a tick: its commands all time out.
ServedWhileListening ==
    /\ listener = "listening" =>
        /\ Required \subseteq resolved
        /\ m_engine_tick_callback => "tick" \in callbacks
    /\ At("destroyed") => "tick" \notin callbacks /\ listener # "listening"

=============================================================================
