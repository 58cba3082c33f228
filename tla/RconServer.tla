----------------------------- MODULE RconServer -----------------------------
(***************************************************************************)
(* The RCON listener (rcon_server.cpp): one worker thread that binds,      *)
(* accepts and serves one connection at a time, the thread of the mod that *)
(* calls start and stop, and the connections of the clients.               *)
(*                                                                         *)
(* The TCP stack is external: a connection that was set up waits in the    *)
(* backlog of the listening socket until accept returns it, a receive      *)
(* fails when the peer is gone or its packet is malformed, and a send may  *)
(* fail once the peer is gone.                                             *)
(***************************************************************************)
EXTENDS CommandQueue

CONSTANT Conns      \* the connections clients may open
CONSTANT NoConn     \* no connection

ASSUME ConnsAssumption == NoConn \notin Conns

VARIABLES
    running,        \* m_running
    joinable,       \* m_thread.joinable()
    published,      \* m_listen_socket holds the listening socket
    lsock,          \* the listening socket: "none", "open", "closed"
    worker,         \* program counter of the worker thread
    conn,           \* the connection in handle_connection
    future,         \* response_future: the command waited for
    answer,         \* response_text: what will be sent
    peer,           \* per connection: "away", "backlog", "served", "closed"
    gone,           \* connections whose client hung up
    firstPacket,    \* history: what each connection's first packet was
    owner,          \* history: the connection each command came from
    replies,        \* history: what was sent as the answer of each command
    mod             \* where the thread that starts and unloads the mod is

listenVars  == <<running, joinable, published, lsock>>
sessionVars == <<conn, future, answer>>
peerVars    == <<peer, gone, firstPacket>>
replyVars   == <<owner, replies>>
serverVars  == <<listenVars, worker, sessionVars, peerVars, replyVars, mod>>

\* Where the worker is: the functions named are those of rcon_server.cpp.
InHandler     == {"auth", "recv", "wait", "send"}       \* handle_connection
WorkerStates  == {"unstarted", "setup", "publish", "loop", "accept",
                  "teardown", "leaving", "exited"} \cup InHandler
StopStates    == {"stop", "close", "join"}              \* RconServer::stop
ModStates     == {"loaded", "running", "stopped", "unregistered",
                  "destroyed", "terminated"} \cup StopStates
PacketKinds   == {"none", "broken", "not_auth", "wrong_password", "auth"}
Values        == Ids \cup {NoValue, Denied, TimedOut}

ServerTypeOK ==
    /\ running \in BOOLEAN /\ joinable \in BOOLEAN /\ published \in BOOLEAN
    /\ lsock \in {"none", "open", "closed"}
    /\ worker \in WorkerStates
    /\ conn \in Conns \cup {NoConn}
    /\ future \in Ids \cup {NoValue}
    /\ answer \in Values
    /\ peer \in [Conns -> {"away", "backlog", "served", "closed"}]
    /\ gone \in SUBSET Conns
    /\ firstPacket \in [Conns -> PacketKinds]
    /\ owner \in [Ids -> Conns \cup {NoConn}]
    /\ replies \in [Ids -> Values]
    /\ mod \in ModStates

ServerInit ==
    /\ running = FALSE /\ joinable = FALSE /\ published = FALSE
    /\ lsock = "none"
    /\ worker = "unstarted"
    /\ conn = NoConn /\ future = NoValue /\ answer = NoValue
    /\ peer = [c \in Conns |-> "away"]
    /\ gone = {}
    /\ firstPacket = [c \in Conns |-> "none"]
    /\ owner = [id \in Ids |-> NoConn]
    /\ replies = [id \in Ids |-> NoValue]
    /\ mod = "loaded"

-----------------------------------------------------------------------------

\* Closing the listening socket resets the connections in its backlog.
BacklogReset ==
    [c \in Conns |-> IF peer[c] = "backlog" THEN "closed" ELSE peer[c]]

\* The first packet is taken for what it is; its answer, too small for the
\* send to block, is part of the step.
FirstPacket(kind) ==
    /\ worker = "auth"
    /\ firstPacket' = [firstPacket EXCEPT ![conn] = kind]

\* closesocket(client) and return to the accept loop.
CloseClient ==
    /\ peer' = [peer EXCEPT ![conn] = "closed"]
    /\ conn' = NoConn
    /\ worker' = "loop"

-----------------------------------------------------------------------------
(* Operations with a single fault (see CommandQueue). *)

\* The accept loop without its test of m_running.
LoopForever ==
    /\ worker = "loop"
    /\ worker' = "accept"
    /\ UNCHANGED <<queueVars, listenVars, sessionVars, peerVars, replyVars, mod>>

\* A rejected connection whose socket stays open.
AuthRejectUnclosed ==
    /\ \/ FirstPacket("broken")
       \/ FirstPacket("not_auth")
       \/ FirstPacket("wrong_password")
    /\ worker' = "loop" /\ conn' = NoConn
    /\ UNCHANGED <<queueVars, listenVars, peer, future, answer, gone,
                   replyVars, mod>>

\* A wrong password is answered but the connection goes on.
AuthRejectIgnored ==
    /\ \/ FirstPacket("broken") /\ CloseClient
       \/ FirstPacket("not_auth") /\ CloseClient
       \/ /\ FirstPacket("wrong_password")
          /\ worker' = "recv" /\ UNCHANGED <<conn, peer>>
    /\ UNCHANGED <<queueVars, listenVars, future, answer, gone, replyVars, mod>>

\* A send that always answers the oldest unanswered command.
SendToOldest ==
    /\ worker = "send"
    /\ \E id \in Ids :
            /\ owner[id] = conn /\ replies[id] \in {NoValue, TimedOut}
            /\ \A k \in 1..(id - 1) : replies[k] \notin {NoValue, TimedOut}
            /\ replies' = [replies EXCEPT ![id] = answer]
    /\ future' = NoValue /\ answer' = NoValue
    /\ worker' = "recv"
    /\ UNCHANGED <<queueVars, listenVars, conn, peerVars, owner, mod>>

\* stop that lets the thread run on (detach in the place of join).
StopDetach ==
    /\ mod = "join"
    /\ joinable' = FALSE
    /\ mod' = "stopped"
    /\ UNCHANGED <<queueVars, running, published, lsock, worker, sessionVars,
                   peerVars, replyVars>>

\* run leaves its listening socket to stop.
TeardownUnclosed ==
    /\ worker = "teardown"
    /\ worker' = "leaving"
    /\ UNCHANGED <<queueVars, listenVars, sessionVars, peerVars, replyVars, mod>>

\* A timeout closes the connection without a word.
TimeoutUnanswered ==
    /\ worker = "wait" /\ ~ FutureReady(future)
    /\ future' = NoValue
    /\ CloseClient
    /\ UNCHANGED <<queueVars, listenVars, answer, gone, firstPacket,
                   replyVars, mod>>

\* The handler tries again when a receive fails.
RecvFailRetried == worker = "recv" /\ UNCHANGED <<queueVars, serverVars>>

-----------------------------------------------------------------------------
(* The clients. *)

Connect(c) ==
    /\ lsock = "open" /\ peer[c] = "away"
    /\ peer' = [peer EXCEPT ![c] = "backlog"]
    /\ UNCHANGED <<queueVars, listenVars, worker, sessionVars, gone,
                   firstPacket, replyVars, mod>>

HangUp(c) ==
    /\ peer[c] \in {"backlog", "served"} /\ c \notin gone
    /\ gone' = gone \cup {c}
    /\ UNCHANGED <<queueVars, listenVars, worker, sessionVars, peer,
                   firstPacket, replyVars, mod>>

-----------------------------------------------------------------------------
(* RconServer::start, and run up to its accept loop. *)

\* m_running.exchange(true) finds no listener and the worker is created.  The
\* mod calls start once, from on_unreal_init.
Start ==
    /\ mod = "loaded" /\ ~ running
    /\ running' = TRUE
    /\ joinable' = TRUE
    /\ worker' = "setup"
    /\ mod' = "running"
    /\ UNCHANGED <<queueVars, published, lsock, sessionVars, peerVars, replyVars>>

\* WSAStartup, socket, bind or listen fails; what was opened is closed.
SetupFail ==
    /\ worker = "setup"
    /\ running' = FALSE
    /\ worker' = "exited"
    /\ UNCHANGED <<queueVars, joinable, published, lsock, sessionVars,
                   peerVars, replyVars, mod>>

BindAndListen ==
    /\ worker = "setup"
    /\ lsock' = "open"
    /\ worker' = "publish"
    /\ UNCHANGED <<queueVars, running, joinable, published, sessionVars,
                   peerVars, replyVars, mod>>

Publish ==
    /\ worker = "publish"
    /\ published' = TRUE
    /\ worker' = "loop"
    /\ UNCHANGED <<queueVars, running, joinable, lsock, sessionVars,
                   peerVars, replyVars, mod>>

LoopCheck ==
    /\ worker = "loop"
    /\ worker' = IF running THEN "accept" ELSE "teardown"
    /\ UNCHANGED <<queueVars, listenVars, sessionVars, peerVars, replyVars, mod>>

Accept(c) ==
    /\ worker = "accept" /\ lsock = "open" /\ peer[c] = "backlog"
    /\ worker' = "auth"
    /\ conn' = c
    /\ peer' = [peer EXCEPT ![c] = "served"]
    /\ UNCHANGED <<queueVars, listenVars, future, answer, gone, firstPacket,
                   replyVars, mod>>

\* accept returns INVALID_SOCKET: stop closed the socket, or a real error.
AcceptFail ==
    /\ worker = "accept"
    /\ worker' = "teardown"
    /\ UNCHANGED <<queueVars, listenVars, sessionVars, peerVars, replyVars, mod>>

Teardown ==
    /\ worker = "teardown"
    /\ lsock' = "closed"
    /\ peer' = BacklogReset
    /\ worker' = "leaving"
    /\ UNCHANGED <<queueVars, running, joinable, published, sessionVars, gone,
                   firstPacket, replyVars, mod>>

Exit ==
    /\ worker = "leaving"
    /\ running' = FALSE
    /\ worker' = "exited"
    /\ UNCHANGED <<queueVars, joinable, published, lsock, sessionVars,
                   peerVars, replyVars, mod>>

-----------------------------------------------------------------------------
(* handle_connection *)

\* No packet, a malformed one, one that is no AUTH, or a wrong password
\* (answered with id -1): the connection is closed.
AuthReject ==
    /\ \/ FirstPacket("broken")
       \/ FirstPacket("not_auth")
       \/ FirstPacket("wrong_password")
    /\ CloseClient
    /\ UNCHANGED <<queueVars, listenVars, future, answer, gone, replyVars, mod>>

AuthOk ==
    /\ FirstPacket("auth")
    /\ worker' = "recv"
    /\ UNCHANGED <<queueVars, listenVars, sessionVars, peer, gone, replyVars, mod>>

\* The right password, but the client is gone when it is told so.
AuthOkUnsent ==
    /\ FirstPacket("auth") /\ conn \in gone
    /\ CloseClient
    /\ UNCHANGED <<queueVars, listenVars, future, answer, gone, replyVars, mod>>

\* An EXECCOMMAND packet is queued with the authority of the connection.  A
\* packet of any other type is skipped and changes nothing.
RecvCommand ==
    /\ worker = "recv"
    /\ accepted < MaxCommands
    /\ Enqueue("authenticated_rcon")
    /\ future' = FutureOf("authenticated_rcon")
    /\ owner' = [owner EXCEPT ![accepted + 1] = conn]
    /\ worker' = "wait"
    /\ UNCHANGED <<listenVars, conn, answer, peerVars, replies, mod>>

\* recv_packet fails: peer gone, bad size or undecodable body.
RecvFail ==
    /\ worker = "recv"
    /\ CloseClient
    /\ UNCHANGED <<queueVars, listenVars, future, answer, gone, firstPacket,
                   replyVars, mod>>

WaitReady ==
    /\ worker = "wait" /\ FutureReady(future)
    /\ answer' = FutureValue(future)
    /\ worker' = "send"
    /\ UNCHANGED <<queueVars, listenVars, conn, future, peerVars, replyVars, mod>>

\* 25 seconds went by: the future is dropped, the command stays queued.
WaitTimeout ==
    /\ worker = "wait" /\ ~ FutureReady(future)
    /\ answer' = TimedOut
    /\ worker' = "send"
    /\ UNCHANGED <<queueVars, listenVars, conn, future, peerVars, replyVars, mod>>

\* All chunks of the response are sent.
SendReply ==
    /\ worker = "send"
    /\ replies' = [replies EXCEPT ![future] = answer]
    /\ future' = NoValue /\ answer' = NoValue
    /\ worker' = "recv"
    /\ UNCHANGED <<queueVars, listenVars, conn, peerVars, owner, mod>>

\* A chunk could not be sent: the rest is dropped with the connection.
SendFail ==
    /\ worker = "send" /\ conn \in gone
    /\ future' = NoValue /\ answer' = NoValue
    /\ CloseClient
    /\ UNCHANGED <<queueVars, listenVars, gone, firstPacket, replyVars, mod>>

-----------------------------------------------------------------------------
(* RconServer::stop, called while the mod is unloaded. *)

\* m_running.exchange(false): false already means there is nothing to stop.
StopExchange ==
    /\ mod = "stop"
    /\ running' = FALSE
    /\ mod' = IF running THEN "close" ELSE "stopped"
    /\ UNCHANGED <<queueVars, joinable, published, lsock, worker, sessionVars,
                   peerVars, replyVars>>

\* Only a socket that run has published can be closed here.
StopClose ==
    /\ mod = "close"
    /\ IF published
       THEN lsock' = "closed" /\ peer' = BacklogReset
       ELSE UNCHANGED <<lsock, peer>>
    /\ mod' = "join"
    /\ UNCHANGED <<queueVars, running, joinable, published, worker,
                   sessionVars, gone, firstPacket, replyVars>>

StopJoin ==
    /\ mod = "join" /\ worker = "exited"
    /\ joinable' = FALSE
    /\ mod' = "stopped"
    /\ UNCHANGED <<queueVars, running, published, lsock, worker, sessionVars,
                   peerVars, replyVars>>

-----------------------------------------------------------------------------

\* Steps of the worker, apart from those that need a client's packet.
WorkerInternal ==
    \/ SetupFail \/ BindAndListen \/ Publish \/ LoopCheck
    \/ \E c \in Conns : Accept(c)
    \/ WaitReady \/ WaitTimeout
    \/ Teardown \/ Exit

\* Steps at the mercy of the client that is being served.
Exchange ==
    \/ AuthReject \/ AuthOk \/ AuthOkUnsent
    \/ RecvCommand \/ RecvFail
    \/ SendReply \/ SendFail

Clients == \E c \in Conns : Connect(c) \/ HangUp(c)

Stop == StopExchange \/ StopClose \/ StopJoin

ServerNext == WorkerInternal \/ AcceptFail \/ Exchange \/ Clients \/ Start \/ Stop

-----------------------------------------------------------------------------

\* A command comes only from a connection whose first packet was an AUTH with
\* the right password (command_authority.hpp: only the transport supplies the
\* authority, after password validation), and every command has an owner.
AuthBeforeCommand ==
    \A id \in 1..accepted :
        owner[id] \in Conns /\ firstPacket[owner[id]] = "auth"

\* An answer that was sent belongs to the command it was sent for: it is the
\* result of that command, or the notice that it took too long; and a result
\* is only sent when the command's promise was kept.
ReplyIsOwn ==
    \A id \in Ids :
        /\ replies[id] \in {NoValue, id, TimedOut}
        /\ replies[id] = id => promise[id] = id

\* Every client socket is accounted for: the one connection being served is
\* the one the handler holds, so each early return closed its socket.
SocketsAccounted ==
    \A c \in Conns : peer[c] = "served" <=> (worker \in InHandler /\ conn = c)

\* The handler waits for the newest command, and every other one was left
\* behind by a timeout or an answer: one waiter is alive at a time.
OneLiveWaiter ==
    /\ future # NoValue <=> worker \in {"wait", "send"}
    /\ future # NoValue => future = accepted /\ replies[future] = NoValue

\* Once the first stop has returned the listening socket is closed and no
\* client is left half way.
StopReleases ==
    mod \in {"stopped", "unregistered", "destroyed"} =>
        /\ ~ running
        /\ lsock # "open"
        /\ \A c \in Conns : peer[c] \notin {"backlog", "served"}

=============================================================================
