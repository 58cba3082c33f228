----------------------------- MODULE GameThread -----------------------------
(***************************************************************************)
(* The game thread's side of the hand-off: drain_and_dispatch of           *)
(* dllmain.cpp, run by the engine-tick callback.  One tick takes the whole *)
(* queue and then works through its private batch one command at a time;   *)
(* other threads run between any two of its steps.                         *)
(***************************************************************************)
EXTENDS CommandQueue

VARIABLES
    ticking,        \* inside drain_and_dispatch
    batch,          \* the local deque "pending": drained, not yet dispatched
    current,        \* the command being executed, NoValue if none
    executed        \* history: ids of the commands executed, in order

gameVars == <<ticking, batch, current, executed>>

GameTypeOK ==
    /\ ticking \in BOOLEAN
    /\ batch \in Seq(PendingCommand)
    /\ current \in Ids \cup {NoValue}
    /\ executed \in Seq(Ids)

GameInit ==
    /\ ticking = FALSE
    /\ batch = << >>
    /\ current = NoValue
    /\ executed = << >>

-----------------------------------------------------------------------------

(* Operations with a single fault (see CommandQueue). *)

\* The game thread takes its newest command first.
DispatchNewest ==
    /\ ticking /\ current = NoValue /\ batch # << >>
    /\ LET item == batch[Len(batch)]
       IN  /\ current' = item.id
           /\ executed' = Append(executed, item.id)
    /\ batch' = SubSeq(batch, 1, Len(batch) - 1)
    /\ UNCHANGED <<ticking, queueVars>>

\* The answer goes to the promise of the next command of the batch.
RespondToNext ==
    /\ current # NoValue
    /\ promise' = [promise EXCEPT ![IF batch = << >> THEN current
                                    ELSE Head(batch).id] = current]
    /\ current' = NoValue
    /\ UNCHANGED <<ticking, batch, executed, pending, accepted>>

\* The tick ends without looking at the rest of the batch.
TickEndEarly ==
    /\ ticking /\ current = NoValue
    /\ ticking' = FALSE
    /\ batch' = << >>
    /\ UNCHANGED <<current, executed, queueVars>>

-----------------------------------------------------------------------------

TickDrain ==
    /\ ~ ticking
    /\ ticking' = TRUE
    /\ batch' = pending
    /\ Drain
    /\ UNCHANGED <<promise, accepted, current, executed>>

\* The authority is checked a second time; a command that fails the check is
\* answered and skipped, any other one is executed.
DispatchItem ==
    /\ ticking /\ current = NoValue /\ batch # << >>
    /\ LET item == Head(batch)
       IN  IF IsRconAuthorized(item.authority)
           THEN /\ current' = item.id
                /\ executed' = Append(executed, item.id)
                /\ UNCHANGED promise
           ELSE /\ promise' = [promise EXCEPT ![item.id] = Denied]
                /\ UNCHANGED <<current, executed>>
    /\ batch' = Tail(batch)
    /\ UNCHANGED <<ticking, pending, accepted>>

\* The command is executed to its end, by a return or by an exception that
\* the handler turns into an error text; either way its promise is kept.
Respond ==
    /\ current # NoValue
    /\ promise' = [promise EXCEPT ![current] = current]
    /\ current' = NoValue
    /\ UNCHANGED <<ticking, batch, executed, pending, accepted>>

TickEnd ==
    /\ ticking /\ current = NoValue /\ batch = << >>
    /\ ticking' = FALSE
    /\ UNCHANGED <<batch, current, executed, queueVars>>

-----------------------------------------------------------------------------

\* Every accepted command is in exactly one place - executed, in the batch of
\* the running tick, or still queued - and the three together list the
\* commands in the order of their acceptance.  So the hand-off loses nothing,
\* executes nothing twice and never overtakes (command_queue.hpp: drain swaps,
\* enqueue appends; dllmain.cpp: one batch is finished before the next drain).
HandoffInOrder ==
    /\ accepted = Len(executed) + Len(batch) + Len(pending)
    /\ \A i \in 1..Len(executed) : executed[i] = i
    /\ \A i \in 1..Len(batch) : batch[i].id = Len(executed) + i
    /\ \A i \in 1..Len(pending) :
            pending[i].id = Len(executed) + Len(batch) + i

\* A kept promise holds the answer of its own command, and exactly the
\* commands whose execution has ended have their promise kept: an answer is
\* never delivered to another caller, and a caller never wakes up early.
PromiseKeptByOwnCommand ==
    \A id \in Ids :
        IF id \in 1..Len(executed) /\ id # current
        THEN promise[id] = id
        ELSE promise[id] = NoValue

\* No command without authority is waiting for the game thread, in the queue
\* or in its batch: the check in enqueue already turned it away.
OnlyAuthorizedQueued ==
    /\ \A i \in 1..Len(pending) : IsRconAuthorized(pending[i].authority)
    /\ \A i \in 1..Len(batch) : IsRconAuthorized(batch[i].authority)

=============================================================================
