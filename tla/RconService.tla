---------------------------- MODULE RconService ----------------------------
(***************************************************************************)
(* What the remote console promises, without threads, sockets or queues:   *)
(* commands are numbered as they are accepted and carried out in that      *)
(* order, each exactly once.  At most one command is open, that is, has a  *)
(* caller who waits for its answer; the caller gets the result of that     *)
(* very command once it has been carried out, or the notice that it took   *)
(* too long, or nothing because the caller went away.  A command whose     *)
(* caller no longer waits is carried out all the same.                     *)
(***************************************************************************)
EXTENDS Integers

CONSTANT MaxCommands

VARIABLES accepted, done, open, reply

Commands == 1..MaxCommands
None     == 0
TimedOut == -2

Init ==
    /\ accepted = 0 /\ done = 0 /\ open = None
    /\ reply = [id \in Commands |-> None]

Accept ==
    /\ open = None /\ accepted < MaxCommands
    /\ accepted' = accepted + 1
    /\ open' = accepted'
    /\ UNCHANGED <<done, reply>>

CarryOut ==
    /\ done < accepted
    /\ done' = done + 1
    /\ UNCHANGED <<accepted, open, reply>>

Answer ==
    /\ open # None
    /\ \E value \in {TimedOut} \cup (IF open <= done THEN {open} ELSE {}) :
            reply' = [reply EXCEPT ![open] = value]
    /\ open' = None
    /\ UNCHANGED <<accepted, done>>

Abandon ==
    /\ open # None
    /\ open' = None
    /\ UNCHANGED <<accepted, done, reply>>

Next == Accept \/ CarryOut \/ Answer \/ Abandon

vars == <<accepted, done, open, reply>>

Spec == Init /\ [][Next]_vars

=============================================================================
