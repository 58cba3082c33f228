----------------------------- MODULE Observers -----------------------------
(***************************************************************************)
(* The switches of the diagnostic observers (dllmain.cpp).  Commands on    *)
(* the game thread turn them on and off, one after the other; the observed *)
(* events come in between, inside a dispatch too, and the interface        *)
(* lookups come from any thread.                                           *)
(*                                                                         *)
(* An event on the game thread is known by the situation it falls in:      *)
(* inside a dispatch or not, and between the client's !capture_start and   *)
(* !capture_stop or not.                                                   *)
(***************************************************************************)
EXTENDS Integers, FiniteSets

CONSTANTS
    Threads,            \* threads that look up interfaces
    Modulus,            \* 2^w, where unsigned has w bits
    Limit,              \* lines of the registration capture, 256
    MaxLookups          \* bound: lookups since the capture was started

ASSUME ObserversAssumption ==
    /\ {Modulus, Limit, MaxLookups} \subseteq Nat \ {0}
    /\ Limit < Modulus
    /\ IsFiniteSet(Threads)

VARIABLES
    m_capturing_calls,
    dispatching,        \* a command is inside dispatch_command
    g_capturing_registration_calls,
    g_registration_log_count,
    writing,            \* threads about to write the line they were granted
    lines,              \* lines in the registration log
    manual,             \* history: the client wants the nested calls, and no
                        \* diagnostic command has failed since it said so
    logged, missed,     \* history: situations whose events were, were not logged
    lookups             \* history: counted lookups since the last start

vars == <<m_capturing_calls, dispatching, g_capturing_registration_calls,
          g_registration_log_count, writing, lines, manual, logged, missed, lookups>>

nested == <<m_capturing_calls, dispatching, manual, logged, missed>>
registration == <<g_capturing_registration_calls, g_registration_log_count,
                  writing, lines, lookups>>

-----------------------------------------------------------------------------

Situation == [dispatch |-> dispatching, manual |-> manual]

TypeOK ==
    /\ {m_capturing_calls, dispatching, manual, g_capturing_registration_calls} \subseteq BOOLEAN
    /\ g_registration_log_count \in 0..(Modulus - 1)
    /\ writing \subseteq Threads
    /\ lines \in Nat
    /\ lookups \in 0..MaxLookups
    /\ {logged, missed} \subseteq SUBSET [dispatch : BOOLEAN, manual : BOOLEAN]

Init ==
    /\ m_capturing_calls = FALSE /\ dispatching = FALSE
    /\ g_capturing_registration_calls = FALSE /\ g_registration_log_count = 0
    /\ writing = {} /\ lines = 0
    /\ manual = FALSE /\ logged = {} /\ missed = {}
    /\ lookups = 0

-----------------------------------------------------------------------------
(* The capture of nested calls *)

CaptureStart ==
    /\ ~ dispatching
    /\ m_capturing_calls' = TRUE /\ manual' = TRUE
    /\ UNCHANGED <<dispatching, logged, missed, registration>>

CaptureStop ==
    /\ ~ dispatching
    /\ m_capturing_calls' = FALSE /\ manual' = FALSE
    /\ UNCHANGED <<dispatching, logged, missed, registration>>

Dispatch ==
    /\ ~ dispatching
    /\ dispatching' = TRUE
    /\ m_capturing_calls' = TRUE
    /\ UNCHANGED <<manual, logged, missed, registration>>

DispatchReturns ==
    /\ dispatching
    /\ dispatching' = FALSE
    /\ m_capturing_calls' = FALSE
    /\ UNCHANGED <<manual, logged, missed, registration>>

\* An exception handler that only makes up the response.
RaiseUnreset ==
    /\ dispatching' = FALSE
    /\ UNCHANGED <<m_capturing_calls, manual, logged, missed, registration>>

\* An exception, in a dispatch or in a diagnostic command.
Raise ==
    /\ dispatching' = FALSE
    /\ m_capturing_calls' = FALSE
    /\ manual' = (manual /\ dispatching)
    /\ UNCHANGED <<logged, missed, registration>>

\* The ProcessEvent callback on the game thread.
ProcessEvent ==
    /\ IF m_capturing_calls
       THEN logged' = logged \cup {Situation} /\ UNCHANGED missed
       ELSE missed' = missed \cup {Situation} /\ UNCHANGED logged
    /\ UNCHANGED <<m_capturing_calls, dispatching, manual, registration>>

-----------------------------------------------------------------------------
(* The registration capture *)

\* The command empties the file, resets the counter and turns the switch on; a
\* thread granted a line before that writes it into the new file.
RegistrationStart ==
    /\ ~ dispatching
    /\ lines' = 0
    /\ g_registration_log_count' = 0
    /\ g_capturing_registration_calls' = TRUE
    /\ lookups' = 0
    /\ UNCHANGED <<nested, writing>>

RegistrationStop ==
    /\ ~ dispatching
    /\ g_capturing_registration_calls' = FALSE
    /\ UNCHANGED <<nested, g_registration_log_count, writing, lines, lookups>>

\* A lookup that takes a line whatever the counter says.
LookupUnlimited(t) ==
    /\ t \notin writing /\ lookups < MaxLookups
    /\ g_capturing_registration_calls
    /\ lookups' = lookups + 1
    /\ writing' = writing \cup {t}
    /\ UNCHANGED <<nested, g_capturing_registration_calls, g_registration_log_count, lines>>

\* fetch_add(1) < Limit, in unsigned arithmetic.
Lookup(t) ==
    /\ t \notin writing /\ lookups < MaxLookups
    /\ g_capturing_registration_calls
    /\ lookups' = lookups + 1
    /\ g_registration_log_count' = (g_registration_log_count + 1) % Modulus
    /\ writing' = IF g_registration_log_count < Limit THEN writing \cup {t} ELSE writing
    /\ UNCHANGED <<nested, g_capturing_registration_calls, lines>>

Write(t) ==
    /\ t \in writing
    /\ writing' = writing \ {t}
    /\ lines' = lines + 1
    /\ UNCHANGED <<nested, g_capturing_registration_calls, g_registration_log_count, lookups>>

Next ==
    \/ CaptureStart \/ CaptureStop \/ Dispatch \/ DispatchReturns \/ Raise
    \/ ProcessEvent \/ RegistrationStart \/ RegistrationStop
    \/ \E t \in Threads : Lookup(t) \/ Write(t)

Spec == Init /\ [][Next]_vars

-----------------------------------------------------------------------------

\* Outside a dispatch and without the client's request nothing is logged
\* ("silent the rest of the time - without that guard this would log every
\* ProcessEvent call in the entire game"), whichever way a dispatch ends.
NestedLogQuiet == [dispatch |-> FALSE, manual |-> FALSE] \notin logged

\* Until the counter wraps, a registration capture leaves at most Limit lines
\* and one for each thread that was writing when the file was emptied.
BoundedUntilWrap == lookups <= Modulus => lines <= Limit + Cardinality(Threads)

-----------------------------------------------------------------------------
(* What the comments promise *)

\* "Manual on/off (2026-09-06), independent of our own dispatch_command()
\* calls": between !capture_start and !capture_stop no event is missed because
\* of a dispatched command.
ManualCaptureKept == \A situation \in missed : ~ situation.manual

=============================================================================
