----------------------------- MODULE RconSystem -----------------------------
(***************************************************************************)
(* The listener and the game thread joined by the command queue, and the   *)
(* unloading of the mod (the destructor in dllmain.cpp): stop the server,  *)
(* unregister the engine-tick callback, destroy the members.               *)
(***************************************************************************)
EXTENDS GameThread, RconServer

vars == <<queueVars, gameVars, serverVars>>

TypeOK == QueueTypeOK /\ GameTypeOK /\ ServerTypeOK

Init == QueueInit /\ GameInit /\ ServerInit

-----------------------------------------------------------------------------

\* on_unreal_init registers the callback before it starts the server.  (A mod
\* unloaded without it has no callback; its queue stays empty either way.)
CallbackRegistered ==
    mod \notin {"loaded", "unregistered", "destroyed", "terminated"}

EngineTick ==
    /\ CallbackRegistered /\ TickDrain
    /\ UNCHANGED serverVars

Dispatch ==
    /\ (DispatchItem \/ Respond \/ TickEnd)
    /\ UNCHANGED serverVars

Serve == ServerNext /\ UNCHANGED gameVars

\* The mod may be unloaded before it was initialised, while it runs, or after
\* its listener gave up.
BeginUnload ==
    /\ mod \in {"loaded", "running"}
    /\ mod' = "stop"
    /\ UNCHANGED <<queueVars, gameVars, listenVars, worker, sessionVars,
                   peerVars, replyVars>>

\* UnregisterCallback; the hook manager is external and assumed to let a
\* callback that is running finish first.
Unregister ==
    /\ mod = "stopped" /\ ~ ticking
    /\ mod' = "unregistered"
    /\ UNCHANGED <<queueVars, gameVars, listenVars, worker, sessionVars,
                   peerVars, replyVars>>

\* The members are destroyed.  ~RconServer calls stop again, which finds
\* m_running false and returns; the destructor of a std::thread that is still
\* joinable calls std::terminate.
Destroy ==
    /\ mod = "unregistered"
    /\ mod' = IF joinable THEN "terminated" ELSE "destroyed"
    /\ UNCHANGED <<queueVars, gameVars, listenVars, worker, sessionVars,
                   peerVars, replyVars>>

Terminated == mod \in {"destroyed", "terminated"} /\ UNCHANGED vars

Next ==
    \/ EngineTick \/ Dispatch
    \/ Serve
    \/ BeginUnload \/ Unregister \/ Destroy
    \/ Terminated

Spec == Init /\ [][Next]_vars

-----------------------------------------------------------------------------
(***************************************************************************)
(* Fairness.  The operating system runs the worker, the engine ticks, and  *)
(* 25 seconds pass; nothing makes a client send, read or hang up, so a     *)
(* receive or a send ends for sure only when the peer is gone, and accept  *)
(* returns for sure only when there is a connection or the socket closed.  *)
(***************************************************************************)
WorkerProgress ==
    \/ WorkerInternal
    \/ AcceptFail /\ lsock = "closed"
    \/ conn \in gone /\ (AuthReject \/ RecvFail \/ SendReply \/ SendFail)

EngineProgress == EngineTick \/ Dispatch

UnloadProgress == (Stop /\ UNCHANGED gameVars) \/ Destroy

\* The callback is removed between two ticks, however many there are.
Fairness ==
    /\ WF_vars(WorkerProgress /\ UNCHANGED gameVars)
    /\ WF_vars(EngineProgress)
    /\ WF_vars(UnloadProgress)
    /\ SF_vars(Unregister)

FairSpec == Spec /\ Fairness

\* What only the clients can grant, the premise of a property that needs it:
\* they read their answers; they do not stay for ever.
ClientsRead == WF_vars(SendReply /\ UNCHANGED gameVars)
ClientsLeave == \A c \in Conns : WF_vars(HangUp(c) /\ UNCHANGED gameVars)

-----------------------------------------------------------------------------
(* Safety *)

\* Nothing uses the queue or the server after they are destroyed: when the
\* members go, the worker has ended and no tick is under way (dllmain.cpp:
\* stop joins the worker, then the callback is unregistered).
QuietWhenDestroyed ==
    mod \in {"destroyed", "terminated"} =>
        worker \in {"unstarted", "exited"} /\ ~ ticking

\* What a client was told is never revised: an answer is sent once, and in
\* particular the late result of a command that timed out goes to nobody.
RepliesAreFinal ==
    [][\A id \in Ids : replies[id] # NoValue => replies'[id] = replies[id]]_vars

\* The system implements the console of RconService: a command is carried
\* out when its promise is kept, and open while the handler waits for it or
\* sends its answer.
carriedOut == Len(executed) - (IF current = NoValue THEN 0 ELSE 1)

Service == INSTANCE RconService
               WITH done <- carriedOut, open <- future, reply <- replies

ServiceSpec == Service!Spec

-----------------------------------------------------------------------------
(* Liveness *)

\* A command that was accepted is executed, also when its caller has given up
\* and whatever the clients do, unless the mod is unloaded first
\* (command_queue.hpp: the queue outlives the wait of rcon_server.cpp).
AcceptedIsExecuted ==
    \A id \in Ids : accepted >= id ~> Len(executed) >= id \/ mod # "running"

\* If clients read, a command that was accepted is answered, if only by the timeout, or its
\* client is gone; unloading the mod does not change that (rcon_server.cpp,
\* handle_connection).
AcceptedIsAnswered ==
    ClientsRead =>
        \A id \in Ids :
            accepted >= id ~> replies[id] # NoValue \/ owner[id] \in gone

\* If clients leave, unloading that has begun comes to an end, whatever the
\* worker was doing when stop was called (rcon_server.cpp, stop and run).
UnloadEnds ==
    ClientsLeave => (mod = "stop" ~> mod \in {"destroyed", "terminated"})

\* If clients leave, each client in the backlog is accepted or reset
\* (rcon_server.cpp, run serves one connection at a time).
BacklogMoves ==
    ClientsLeave =>
        \A c \in Conns : peer[c] = "backlog" ~> peer[c] # "backlog"

-----------------------------------------------------------------------------
(* What the comments of the code say *)

\* rcon_server.hpp: "call stop() before the mod unloads" - the destructor
\* does, and the listener's thread object can be destroyed.
StoppedBeforeDestroyed == mod # "terminated"

\* rcon_server.cpp, in stop: closing the listening socket "unblocks the
\* accept() call in run() so the thread can exit", so stop returns.
StopReturns == mod = "stop" ~> mod = "stopped"

=============================================================================
