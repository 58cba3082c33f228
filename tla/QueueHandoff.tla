---------------------------- MODULE QueueHandoff ----------------------------
(***************************************************************************)
(* The command queue as a component, used as its interface and its tests   *)
(* (tests/command_authority_tests.cpp) allow and as the later extension to *)
(* one thread per connection named in rcon_server.hpp would use it: any    *)
(* number of threads enqueue, with or without authority, hold futures at   *)
(* the same time and may give up on them, while the game thread drains.    *)
(***************************************************************************)
EXTENDS GameThread

CONSTANT Callers

VARIABLES
    held,           \* the future each caller waits for, NoValue if none
    authority,      \* the authority of each caller's latest request
    got             \* history: commands whose result their caller has taken

callerVars == <<held, authority, got>>
handoffVars == <<queueVars, gameVars, callerVars>>

CallersTypeOK ==
    /\ QueueTypeOK /\ GameTypeOK
    /\ held \in [Callers -> Ids \cup {NoValue, Denied}]
    /\ authority \in [Callers -> CommandAuthority]
    /\ got \in [Ids -> Ids \cup {NoValue, Denied}]

HandoffInit ==
    /\ QueueInit /\ GameInit
    /\ held = [t \in Callers |-> NoValue]
    /\ authority = [t \in Callers |-> "none"]
    /\ got = [id \in Ids |-> NoValue]

-----------------------------------------------------------------------------

Request(t, a) ==
    /\ held[t] = NoValue
    /\ Enqueue(a)
    /\ held' = [held EXCEPT ![t] = FutureOf(a)]
    /\ authority' = [authority EXCEPT ![t] = a]
    /\ UNCHANGED <<gameVars, got>>

\* future.get() of a future that is ready.
Collect(t) ==
    /\ held[t] # NoValue /\ FutureReady(held[t])
    /\ got' = IF held[t] \in Ids
              THEN [got EXCEPT ![held[t]] = FutureValue(held[t])]
              ELSE got
    /\ held' = [held EXCEPT ![t] = NoValue]
    /\ UNCHANGED <<queueVars, gameVars, authority>>

\* wait_for runs out and the future is dropped.
GiveUp(t) ==
    /\ held[t] # NoValue /\ ~ FutureReady(held[t])
    /\ held' = [held EXCEPT ![t] = NoValue]
    /\ UNCHANGED <<queueVars, gameVars, authority, got>>

GameStep ==
    /\ (TickDrain \/ DispatchItem \/ Respond \/ TickEnd)
    /\ UNCHANGED callerVars

CallerStep(t) ==
    \/ \E a \in CommandAuthority : Request(t, a)
    \/ Collect(t)
    \/ GiveUp(t)

HandoffNext == GameStep \/ \E t \in Callers : CallerStep(t)

HandoffSpec == HandoffInit /\ [][HandoffNext]_handoffVars

\* The engine ticks, and a caller whose future is ready is woken up; nobody
\* needs to give up.
HandoffFairSpec ==
    /\ HandoffSpec
    /\ WF_handoffVars(GameStep)
    /\ \A t \in Callers : WF_handoffVars(Collect(t))

-----------------------------------------------------------------------------

\* No two callers wait for the same command, and no caller waits for one that
\* was not accepted: a future has one owner.
FuturesAreOwned ==
    /\ \A t \in Callers : held[t] \in (1..accepted) \cup {NoValue, Denied}
    /\ \A t, u \in Callers : held[t] = held[u] /\ t # u => held[t] \notin Ids

\* A caller that takes a result takes that of its own command, and only after
\* the game thread has executed it ("responses remain associated with
\* requests", command_authority_tests.cpp).
ResultsStayAssociated ==
    \A id \in Ids :
        got[id] # NoValue =>
            got[id] = id /\ \E i \in 1..Len(executed) : executed[i] = id

\* A caller without authority is answered at once with the refusal, whatever
\* the game thread does, and its request reaches no game thread ("untrusted
\* request must never reach game thread", command_authority_tests.cpp).
UntrustedRefusedAtOnce ==
    \A t \in Callers :
        held[t] # NoValue /\ ~ IsRconAuthorized(authority[t])
            => FutureReady(held[t]) /\ held[t] = Denied

\* A caller that is willing to wait for its command is served.
WaitersAreServed ==
    \A t \in Callers : held[t] # NoValue ~> held[t] = NoValue

=============================================================================
