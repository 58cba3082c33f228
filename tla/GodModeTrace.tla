---------------------------- MODULE GodModeTrace ----------------------------
(***************************************************************************)
(* The GodMode trace (godmode_trace.cpp): a detour on the native SetGodMode *)
(* handler that, while it is armed, describes a few of its calls and saves *)
(* the descriptions in a log file.  The log can fail at any write, the     *)
(* window of the trace can close at any moment, calls of the handler nest  *)
(* and come from any thread, and a call may be left by an exception.       *)
(*                                                                         *)
(* A description is known by the arming it belongs to and its number in    *)
(* that arming; of what it says only the interface lookups are counted.    *)
(***************************************************************************)
EXTENDS Integers, Sequences, SequencesExt, FiniteSets

CONSTANTS
    Threads,
    Game,               \* the game thread, on which commands are dispatched
    NoRecord,           \* active = nullptr
    MaxCalls,           \* max_calls, 4
    MaxEvents,          \* interface lookups in a description, 8
    Window,             \* window_ms
    Unwinds,            \* the build runs destructors when a structured
                        \* exception passes (/EHa)
    MaxTime,            \* bound: ticks of the clock
    MaxArmings,         \* bound: calls of start that go through to arming
    MaxDepth,           \* bound: nested calls of the handler
    MaxLookups,         \* bound: interface lookups in a call
    MaxFaults,          \* bound: writes of the log that fail
    MaxLog              \* bound: length of the log at a stop

ASSUME TraceAssumption ==
    /\ Game \in Threads
    /\ Unwinds \in BOOLEAN
    /\ {MaxCalls, MaxEvents, Window, MaxTime, MaxArmings, MaxDepth} \subseteq Nat \ {0}
    /\ {MaxFaults, MaxLog, MaxLookups} \subseteq Nat

VARIABLES
    hook_ok, interface_hook_ok,
    now,                \* GetTickCount64
    deadline,           \* 0 when the trace is not armed
    calls,              \* calls described since it was armed
    pending,            \* descriptions waiting to be saved
    active,             \* per thread: the description being written
    interface_events,   \* per thread: lookups seen since it was begun
    described,          \* history: per thread, lookups in the description
    mod,                \* running, then down behind shutdown, then gone
    stack,              \* per thread: the handler's calls in progress
    log,                \* the log file
    arming,             \* history: how often the trace was armed
    begun,              \* history: descriptions begun since then
    finished,           \* history: descriptions that reached pending
    faults              \* number of failed writes

vars == <<hook_ok, interface_hook_ok, now, deadline, calls, pending, active,
          interface_events, described, mod, stack, log, arming, begun, finished, faults>>

hooks == <<hook_ok, interface_hook_ok, mod>>
events == <<interface_events, described>>
running == <<active, events, stack>>
history == <<arming, begun, finished>>

-----------------------------------------------------------------------------

Records == [arming : 1..MaxArmings, call : 1..MaxCalls]
ArmEntry(n) == [arm |-> n]
OtherEntry == [arm |-> 0]          \* STOP, or what is left of a failed ARM

IsRecord(entry) == entry \in Records

TypeOK ==
    /\ {hook_ok, interface_hook_ok} \subseteq BOOLEAN /\ mod \in {"running", "down", "gone"}
    /\ {interface_events, described} \subseteq [Threads -> 0..MaxLookups]
    /\ now \in 0..MaxTime
    /\ deadline \in 0..(MaxTime + Window)
    /\ calls \in 0..MaxCalls
    /\ pending \in Seq(Records)
    /\ active \in [Threads -> Records \cup {NoRecord}]
    /\ stack \in [Threads -> Seq(Records \cup {NoRecord})]
    /\ log \in Seq(Records \cup [arm : 0..MaxArmings])
    /\ arming \in 0..MaxArmings
    /\ begun \in Nat
    /\ finished \subseteq Records
    /\ faults \in 0..MaxFaults

Init ==
    /\ hook_ok = FALSE /\ interface_hook_ok = FALSE /\ mod = "running"
    /\ now = 1
    /\ deadline = 0
    /\ calls = 0
    /\ pending = << >>
    /\ active = [t \in Threads |-> NoRecord]
    /\ interface_events = [t \in Threads |-> 0]
    /\ described = [t \in Threads |-> 0]
    /\ stack = [t \in Threads |-> << >>]
    /\ log = << >>
    /\ arming = 0 /\ begun = 0 /\ finished = {}
    /\ faults = 0

\* initialize hooks the handler of the supported build; the interface observer
\* is installed by the mod after it.
Initialize ==
    /\ mod = "running" /\ ~ hook_ok
    /\ hook_ok' = TRUE
    /\ interface_hook_ok' \in BOOLEAN
    /\ UNCHANGED <<mod, now, deadline, calls, pending, running, log, history, faults>>

Armed == deadline # 0 /\ now < deadline

TimePasses ==
    /\ now < MaxTime
    /\ now' = now + 1
    /\ UNCHANGED <<hooks, deadline, calls, pending, running, log, history, faults>>

-----------------------------------------------------------------------------
(* capture_execute *)

Captures(t) == Armed /\ t = Game /\ active[t] = NoRecord /\ calls < MaxCalls

\* A call that is not captured is passed on as it is.
PassThrough(t) ==
    /\ hook_ok /\ ~ Captures(t)
    /\ Len(stack[t]) < MaxDepth
    /\ stack' = [stack EXCEPT ![t] = Append(@, NoRecord)]
    /\ UNCHANGED <<hooks, now, deadline, calls, pending, active, events, log, history, faults>>

\* A call whose number is given out when it returns.
CaptureUncounted(t) ==
    /\ hook_ok /\ Captures(t)
    /\ LET record == [arming |-> arming, call |-> calls + 1]
       IN  /\ active' = [active EXCEPT ![t] = record]
           /\ stack' = [stack EXCEPT ![t] = Append(@, record)]
    /\ interface_events' = [interface_events EXCEPT ![t] = 0]
    /\ described' = [described EXCEPT ![t] = 0]
    /\ begun' = begun + 1
    /\ UNCHANGED <<hooks, now, deadline, calls, pending, log, arming, finished, faults>>

Capture(t) ==
    /\ hook_ok /\ Captures(t)
    /\ Len(stack[t]) < MaxDepth
    /\ calls' = calls + 1
    /\ LET record == [arming |-> arming, call |-> calls + 1]
       IN  /\ active' = [active EXCEPT ![t] = record]
           /\ stack' = [stack EXCEPT ![t] = Append(@, record)]
    /\ interface_events' = [interface_events EXCEPT ![t] = 0]
    /\ described' = [described EXCEPT ![t] = 0]
    /\ begun' = begun + 1
    /\ UNCHANGED <<hooks, now, deadline, pending, log, arming, finished, faults>>

\* An observed interface lookup: the first MaxEvents go into the description of
\* the call they come from.
ObserveInterface(t) ==
    /\ active[t] # NoRecord /\ interface_events[t] < MaxLookups
    /\ interface_events' = [interface_events EXCEPT ![t] = @ + 1]
    /\ described' = IF interface_events[t] < MaxEvents
                    THEN [described EXCEPT ![t] = @ + 1] ELSE described
    /\ UNCHANGED <<hooks, now, deadline, calls, pending, active, stack, log, history, faults>>

PassBack(t) ==
    /\ stack[t] # << >> /\ Last(stack[t]) = NoRecord
    /\ stack' = [stack EXCEPT ![t] = Front(@)]
    /\ UNCHANGED <<hooks, now, deadline, calls, pending, active, events, log, history, faults>>

\* A return that leaves active as it is.
FinishStillActive(t) ==
    /\ stack[t] # << >> /\ Last(stack[t]) # NoRecord
    /\ stack' = [stack EXCEPT ![t] = Front(@)]
    /\ pending' = Append(pending, Last(stack[t]))
    /\ finished' = finished \cup {Last(stack[t])}
    /\ UNCHANGED <<hooks, now, deadline, calls, active, events, log, arming, begun, faults>>

\* The captured call returns: its description is queued, unless describing it
\* throws, and the last one permitted closes the window.
Finish(t) ==
    /\ stack[t] # << >> /\ Last(stack[t]) # NoRecord
    /\ stack' = [stack EXCEPT ![t] = Front(@)]
    /\ active' = [active EXCEPT ![t] = NoRecord]
    /\ \/ /\ pending' = Append(pending, Last(stack[t]))
          /\ finished' = finished \cup {Last(stack[t])}
       \/ UNCHANGED <<pending, finished>>
    /\ deadline' = IF calls >= MaxCalls THEN 0 ELSE deadline
    /\ UNCHANGED <<hooks, now, calls, events, log, arming, begun, faults>>

\* The original handler is left by an exception, which goes on to its caller.
\* ResetActive runs if the build unwinds for it.
Raise(t) ==
    /\ stack[t] # << >>
    /\ stack' = [stack EXCEPT ![t] = Front(@)]
    /\ IF Last(stack[t]) = NoRecord THEN UNCHANGED active
       ELSE \/ active' = [active EXCEPT ![t] = NoRecord]
            \/ ~ Unwinds /\ UNCHANGED active
    /\ UNCHANGED <<hooks, now, deadline, calls, pending, events, log, history, faults>>

-----------------------------------------------------------------------------
(* Commands and ticks of the game thread: no call of the handler is in      *)
(* progress there when they run.                                            *)

AtTop == stack[Game] = << >> /\ mod # "gone"

\* A tick that forgets what it could not write.
FlushAndForget(before, records) ==
    \E n \in 0..Len(records) :
        /\ log' = before \o SubSeq(records, 1, n)
        /\ pending' = << >>
        /\ UNCHANGED faults

\* tick writes every description or, when a write fails, some of them; only
\* after a complete write are they forgotten.
Flush(before, records) ==
    \/ /\ log' = before \o records
       /\ pending' = << >>
       /\ UNCHANGED faults
    \/ /\ records # << >> /\ faults < MaxFaults
       /\ \E n \in 0..Len(records) : log' = before \o SubSeq(records, 1, n)
       /\ pending' = records
       /\ faults' = faults + 1

\* It also closes the window when its time is over.
Expire == deadline' = IF deadline # 0 /\ now >= deadline THEN 0 ELSE deadline

\* A tick that looks at the window first and at the descriptions only then.
TickWhileArmed ==
    /\ AtTop /\ deadline # 0
    /\ Expire
    /\ Flush(log, pending)
    /\ UNCHANGED <<hooks, now, calls, running, history>>

Tick ==
    /\ AtTop
    /\ Expire
    /\ Flush(log, pending)
    /\ UNCHANGED <<hooks, now, calls, running, history>>

StartRefused ==
    /\ AtTop /\ ~ (hook_ok /\ interface_hook_ok)
    /\ UNCHANGED vars

\* start ticks, and refuses if something is still pending afterwards ...
StartUnsaved ==
    /\ AtTop /\ hook_ok /\ interface_hook_ok
    /\ Expire
    /\ Flush(log, pending)
    /\ pending' # << >>
    /\ UNCHANGED <<hooks, now, calls, running, history>>

\* ... refuses if the ARM line cannot be written, which may leave a part of it ...
StartUnwritten ==
    /\ AtTop /\ hook_ok /\ interface_hook_ok
    /\ Expire
    /\ faults < MaxFaults /\ faults' = faults + 1
    /\ \E rest \in {<< >>, <<OtherEntry>>} : log' = log \o pending \o rest
    /\ pending' = << >>
    /\ UNCHANGED <<hooks, now, calls, running, history>>

\* A start without the tick before it.
StartWithoutTick ==
    /\ AtTop /\ hook_ok /\ interface_hook_ok
    /\ arming < MaxArmings
    /\ log' = Append(log, ArmEntry(arming + 1))
    /\ arming' = arming + 1
    /\ calls' = 0 /\ begun' = 0
    /\ deadline' = now + Window
    /\ UNCHANGED <<hooks, now, pending, running, finished, faults>>

\* ... and else starts a new window.
StartArms ==
    /\ AtTop /\ hook_ok /\ interface_hook_ok
    /\ arming < MaxArmings
    /\ log' = log \o pending \o <<ArmEntry(arming + 1)>>
    /\ pending' = << >>
    /\ arming' = arming + 1
    /\ calls' = 0 /\ begun' = 0
    /\ deadline' = now + Window
    /\ UNCHANGED <<hooks, now, running, finished, faults>>

\* stop closes the window, ticks, and writes STOP if it can.
Stop ==
    /\ AtTop /\ Len(log) < MaxLog
    /\ deadline' = 0
    /\ \E rest \in {<< >>, <<OtherEntry>>} :
            /\ \/ /\ log' = log \o pending \o rest
                  /\ pending' = << >>
                  /\ UNCHANGED faults
               \/ /\ pending # << >> /\ faults < MaxFaults
                  /\ \E n \in 0..Len(pending) :
                        log' = log \o SubSeq(pending, 1, n) \o rest
                  /\ faults' = faults + 1
                  /\ UNCHANGED pending
    /\ UNCHANGED <<hooks, now, calls, running, history>>

\* shutdown comes from the thread that unloads the mod, whatever the game
\* thread is doing.
Shutdown ==
    /\ mod = "running" /\ mod' = "down"
    /\ deadline' = 0
    /\ Flush(log, pending)
    /\ hook_ok' = FALSE
    /\ UNCHANGED <<interface_hook_ok, now, calls, running, history>>

\* The rest of the destructor takes the tick away.
Unregister ==
    /\ mod = "down" /\ mod' = "gone"
    /\ UNCHANGED <<hook_ok, interface_hook_ok, now, deadline, calls, pending, running, log,
                   history, faults>>

Next ==
    \/ Initialize \/ TimePasses \/ Tick \/ Stop \/ Shutdown \/ Unregister
    \/ StartRefused \/ StartUnsaved \/ StartUnwritten \/ StartArms
    \/ \E t \in Threads :
            PassThrough(t) \/ Capture(t) \/ ObserveInterface(t) \/ PassBack(t) \/ Finish(t) \/ Raise(t)

Spec == Init /\ [][Next]_vars

\* The engine ticks again and again, and the log can be written now and then: a
\* tick that comes up infinitely often writes everything once.
FairSpec == Spec /\ SF_vars(Tick /\ faults' = faults)

\* What only the game can grant: its thread comes back from the handler.
GameThreadReturns == []<>(stack[Game] = << >>)

-----------------------------------------------------------------------------

\* The calls of t in progress that are captured, by their depth.
Captured(t) == {depth \in DOMAIN stack[t] : stack[t][depth] # NoRecord}

\* The description that observers write into belongs to a call in progress on
\* their own thread, and every such call is being described: active, a pointer
\* to a local variable of capture_execute, never outlives its call.
ActiveIsLive ==
    \A t \in Threads :
        \/ Captured(t) = {} /\ active[t] = NoRecord
        \/ \E depth \in DOMAIN stack[t] :
            Captured(t) = {depth} /\ stack[t][depth] = active[t]

\* No description is lost when writing fails; it may be written twice.
NoRecordLost == finished \subseteq Range(pending) \cup Range(log)

\* An arming describes at most MaxCalls calls ("armed for 120 seconds / 4
\* calls"), exceptions or not, and pending fits its reservation; each
\* description holds the first MaxEvents lookups of its own call, however many
\* the calls before it had.
CapturesBounded ==
    /\ begun <= MaxCalls /\ Len(pending) <= MaxCalls
    /\ \A t \in Threads :
        described[t] = IF interface_events[t] < MaxEvents THEN interface_events[t] ELSE MaxEvents

\* The log never mixes two armings: behind an ARM line there are only
\* descriptions of its own arming ("previous trace could not be saved"), and
\* calls are described only under an arming that the log announces.
TracesSeparate ==
    /\ \A i, j \in DOMAIN log :
        i < j /\ ~ IsRecord(log[i]) /\ IsRecord(log[j]) => log[i].arm <= log[j].arming
    /\ deadline # 0 \/ pending # << >> => ArmEntry(arming) \in Range(log)

\* What waits to be saved is saved, although a write fails now and then and
\* also after the window has closed, unless the mod is unloaded first.
DescriptionsAreSaved ==
    GameThreadReturns => (pending # << >> ~> pending = << >> \/ mod = "gone")

=============================================================================
