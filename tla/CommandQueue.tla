---------------------------- MODULE CommandQueue ----------------------------
(***************************************************************************)
(* The thread-safe hand-off between the threads that accept commands and   *)
(* the game thread (command_queue.hpp).                                    *)
(*                                                                         *)
(* A queued command is known by the number of its acceptance: ids count    *)
(* the commands that entered the queue, so the id stands for the command   *)
(* text, its promise and the future its caller holds.  The text that       *)
(* answers command i is abstracted to the number i.                        *)
(***************************************************************************)
EXTENDS Integers, Sequences

CONSTANT MaxCommands    \* bound: commands accepted in one behaviour

ASSUME MaxCommandsAssumption == MaxCommands \in Nat

Ids == 1..MaxCommands

NoValue  == 0       \* a promise not yet kept, a future not held
Denied   == -1      \* "error: authenticated RCON connection required"
TimedOut == -2      \* "error: command timed out"

CommandAuthority == {"none", "authenticated_rcon"}

IsRconAuthorized(authority) == authority = "authenticated_rcon"

VARIABLES
    pending,        \* m_pending: sequence of [id, authority], oldest first
    promise,        \* the value each command's promise was given
    accepted        \* number of commands that ever entered the queue

queueVars == <<pending, promise, accepted>>

PendingCommand == [id : Ids, authority : CommandAuthority]

QueueTypeOK ==
    /\ pending \in Seq(PendingCommand)
    /\ promise \in [Ids -> Ids \cup {NoValue, Denied}]
    /\ accepted \in 0..MaxCommands

QueueInit ==
    /\ pending = << >>
    /\ promise = [id \in Ids |-> NoValue]
    /\ accepted = 0

-----------------------------------------------------------------------------

(***************************************************************************)
(* Operations with a single fault.  No specification uses them: each takes *)
(* the place of the operation it deforms to show that a property notices.  *)
(***************************************************************************)
\* A drain that leaves the drained commands in the queue.
DrainByCopy == UNCHANGED pending

-----------------------------------------------------------------------------

\* An unauthorized caller gets a promise that is already kept and the queue
\* does not see the command; an authorized command goes to the back.
Enqueue(authority) ==
    \/ /\ ~ IsRconAuthorized(authority)
       /\ UNCHANGED queueVars
    \/ /\ IsRconAuthorized(authority)
       /\ accepted < MaxCommands
       /\ accepted' = accepted + 1
       /\ pending' = Append(pending, [id |-> accepted + 1, authority |-> authority])
       /\ UNCHANGED promise

\* The future an Enqueue(authority) of this state returns.
FutureOf(authority) ==
    IF IsRconAuthorized(authority) THEN accepted + 1 ELSE Denied

FutureValue(future) == IF future = Denied THEN Denied ELSE promise[future]

FutureReady(future) == FutureValue(future) # NoValue

\* The queue is emptied under its lock; what was there is the caller's batch.
Drain == pending' = << >>

=============================================================================
