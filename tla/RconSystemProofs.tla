-------------------------- MODULE RconSystemProofs --------------------------
(***************************************************************************)
(* The hand-off of commands, for every number of commands, in its two      *)
(* settings.  First an inductive invariant of the queue and the game       *)
(* thread, with one lemma per operation; then the queue with any number of *)
(* calling threads (QueueHandoff); then the listener and the game thread   *)
(* together (RconSystem), for any set of connections, whose invariant adds *)
(* what holds of the handler's session and of the life of the worker.      *)
(***************************************************************************)
EXTENDS RconSystem, QueueHandoff, TLAPS

-----------------------------------------------------------------------------
(* The queue and the game thread *)

\* Between two ticks the game thread holds no command, and the command it is
\* executing is the last one it took.
TickInv ==
    /\ ~ ticking => batch = << >> /\ current = NoValue
    /\ current # NoValue => current = Len(executed)

HandoffInv ==
    /\ QueueTypeOK /\ GameTypeOK
    /\ TickInv
    /\ HandoffInOrder
    /\ OnlyAuthorizedQueued
    /\ PromiseKeptByOwnCommand

-----------------------------------------------------------------------------

\* The empty queue and the idle game thread are in order.
LEMMA HandoffStart ==
    ASSUME QueueInit, GameInit
    PROVE  HandoffInv
<1>1. /\ pending = << >> /\ batch = << >> /\ executed = << >>
      /\ accepted = 0 /\ current = NoValue /\ ticking = FALSE
      /\ promise = [id \in Ids |-> NoValue]
  BY DEF QueueInit, GameInit
<1>2. 0 \in 0..MaxCommands
  BY MaxCommandsAssumption
<1>3. QueueTypeOK
  BY <1>1, <1>2 DEF QueueTypeOK
<1>4. GameTypeOK /\ TickInv
  <2>1. ticking \in BOOLEAN /\ current \in Ids \cup {NoValue}
    BY <1>1
  <2>2. batch \in Seq(PendingCommand) /\ executed \in Seq(Ids)
    BY <1>1
  <2>3. TickInv
    BY <1>1 DEF TickInv
  <2> QED
    BY <2>1, <2>2, <2>3 DEF GameTypeOK
<1>5. HandoffInOrder /\ OnlyAuthorizedQueued /\ PromiseKeptByOwnCommand
  BY <1>1 DEF HandoffInOrder, OnlyAuthorizedQueued, PromiseKeptByOwnCommand
<1> QED
  BY <1>3, <1>4, <1>5 DEF HandoffInv

\* A step that touches neither queue nor game thread disturbs nothing.
LEMMA HandoffStutter ==
    ASSUME HandoffInv, UNCHANGED queueVars, UNCHANGED gameVars
    PROVE  HandoffInv'
BY DEF queueVars, gameVars, HandoffInv, QueueTypeOK, GameTypeOK, TickInv,
       HandoffInOrder, OnlyAuthorizedQueued, PromiseKeptByOwnCommand

\* enqueue puts an authorized command last and refuses any other one.
LEMMA HandoffEnqueue ==
    ASSUME HandoffInv, NEW a \in CommandAuthority, Enqueue(a),
           UNCHANGED gameVars
    PROVE  HandoffInv'
<1>1. CASE ~ IsRconAuthorized(a)
  BY <1>1, HandoffStutter DEF Enqueue
<1>2. CASE IsRconAuthorized(a)
  <2> DEFINE item == [id |-> accepted + 1, authority |-> a]
  <2>1. /\ accepted < MaxCommands
        /\ accepted' = accepted + 1
        /\ pending' = Append(pending, item)
        /\ promise' = promise
        /\ ticking' = ticking /\ batch' = batch
        /\ current' = current /\ executed' = executed
    BY <1>2 DEF Enqueue, gameVars, HandoffInv, queueVars
  <2>2. item \in PendingCommand
    BY <2>1, MaxCommandsAssumption
       DEF PendingCommand, HandoffInv, QueueTypeOK, Ids
  <2>3. /\ Len(pending') = Len(pending) + 1
        /\ \A i \in 1..Len(pending) : pending'[i] = pending[i]
        /\ pending'[Len(pending) + 1] = item
    BY <2>1, <2>2 DEF HandoffInv, QueueTypeOK
  <2>4. QueueTypeOK'
    BY <2>1, <2>2, MaxCommandsAssumption DEF HandoffInv, QueueTypeOK
  <2>5. GameTypeOK' /\ TickInv'
    BY <2>1 DEF HandoffInv, GameTypeOK, TickInv
  <2>6. HandoffInOrder'
    BY <2>1, <2>3 DEF HandoffInv, HandoffInOrder, QueueTypeOK, GameTypeOK
  <2>7. OnlyAuthorizedQueued'
    BY <1>2, <2>1, <2>3 DEF HandoffInv, OnlyAuthorizedQueued, QueueTypeOK
  <2>8. PromiseKeptByOwnCommand'
    BY <2>1 DEF HandoffInv, PromiseKeptByOwnCommand
  <2> QED
    BY <2>4, <2>5, <2>6, <2>7, <2>8 DEF HandoffInv
<1> QED
  BY <1>1, <1>2

\* A tick takes over the whole queue, in its order.
LEMMA HandoffDrain ==
    ASSUME HandoffInv, TickDrain
    PROVE  HandoffInv'
<1>1. /\ batch = << >> /\ current = NoValue
      /\ batch' = pending /\ pending' = << >> /\ ticking' = TRUE
      /\ promise' = promise /\ accepted' = accepted
      /\ current' = current /\ executed' = executed
  BY DEF TickDrain, Drain, HandoffInv, TickInv
<1>2. QueueTypeOK' /\ GameTypeOK' /\ TickInv'
  BY <1>1 DEF HandoffInv, QueueTypeOK, GameTypeOK, TickInv
<1>3. HandoffInOrder'
  BY <1>1 DEF HandoffInv, HandoffInOrder, QueueTypeOK, GameTypeOK
<1>4. OnlyAuthorizedQueued' /\ PromiseKeptByOwnCommand'
  BY <1>1 DEF HandoffInv, OnlyAuthorizedQueued, PromiseKeptByOwnCommand
<1> QED
  BY <1>2, <1>3, <1>4 DEF HandoffInv

\* The command that is dispatched is the next one in order.  Its second check
\* of authority never fails.
LEMMA HandoffDispatch ==
    ASSUME HandoffInv, DispatchItem
    PROVE  HandoffInv'
<1> DEFINE item == Head(batch)
<1>1. /\ batch \in Seq(PendingCommand) /\ batch # << >>
      /\ Len(batch) \in Nat /\ Len(batch) >= 1
      /\ item = batch[1] /\ item \in PendingCommand
  BY DEF HandoffInv, GameTypeOK, DispatchItem
<1>2. IsRconAuthorized(item.authority)
  BY <1>1 DEF HandoffInv, OnlyAuthorizedQueued
<1>3. /\ current = NoValue /\ ticking
      /\ current' = item.id /\ executed' = Append(executed, item.id)
      /\ promise' = promise
      /\ batch' = Tail(batch)
      /\ ticking' = ticking /\ pending' = pending /\ accepted' = accepted
  BY <1>2 DEF DispatchItem
<1>4. item.id = Len(executed) + 1 /\ item.id \in Ids
  BY <1>1 DEF HandoffInv, HandoffInOrder, PendingCommand
<1>5. /\ executed \in Seq(Ids) /\ executed' \in Seq(Ids)
      /\ Len(executed) \in Nat /\ Len(executed') = Len(executed) + 1
      /\ \A i \in 1..Len(executed) : executed'[i] = executed[i]
      /\ executed'[Len(executed) + 1] = item.id
  BY <1>3, <1>4 DEF HandoffInv, GameTypeOK
<1>6. /\ batch' \in Seq(PendingCommand)
      /\ Len(batch') = Len(batch) - 1
      /\ \A i \in 1..Len(batch') : batch'[i] = batch[i + 1]
  BY <1>1, <1>3
<1>7. QueueTypeOK' /\ GameTypeOK' /\ TickInv'
  BY <1>3, <1>4, <1>5, <1>6
     DEF HandoffInv, QueueTypeOK, GameTypeOK, TickInv
<1>8. HandoffInOrder'
  <2>1. accepted' = Len(executed') + Len(batch') + Len(pending')
    BY <1>1, <1>3, <1>5, <1>6 DEF HandoffInv, HandoffInOrder, QueueTypeOK
  <2>2. \A i \in 1..Len(executed') : executed'[i] = i
    BY <1>4, <1>5 DEF HandoffInv, HandoffInOrder
  <2>3. \A i \in 1..Len(batch') : batch'[i].id = Len(executed') + i
    <3>1. SUFFICES ASSUME NEW i \in 1..Len(batch')
                   PROVE  batch'[i].id = Len(executed') + i
      OBVIOUS
    <3>2. i + 1 \in 1..Len(batch) /\ batch'[i] = batch[i + 1] /\ i \in Nat
      BY <1>1, <1>6
    <3>3. batch[i + 1].id = Len(executed) + (i + 1)
      BY <3>2 DEF HandoffInv, HandoffInOrder
    <3> QED
      BY <1>5, <3>2, <3>3
  <2>4. \A i \in 1..Len(pending') :
            pending'[i].id = Len(executed') + Len(batch') + i
    BY <1>1, <1>3, <1>5, <1>6 DEF HandoffInv, HandoffInOrder, QueueTypeOK
  <2> QED
    BY <2>1, <2>2, <2>3, <2>4 DEF HandoffInOrder
<1>9. OnlyAuthorizedQueued'
  <2>1. \A i \in 1..Len(pending') : IsRconAuthorized(pending'[i].authority)
    BY <1>3 DEF HandoffInv, OnlyAuthorizedQueued
  <2>2. \A i \in 1..Len(batch') : IsRconAuthorized(batch'[i].authority)
    <3>1. \A i \in 1..Len(batch') : i + 1 \in 1..Len(batch)
      BY <1>1, <1>6
    <3>2. \A i \in 1..Len(batch) : IsRconAuthorized(batch[i].authority)
      BY DEF HandoffInv, OnlyAuthorizedQueued
    <3> QED
      BY <1>6, <3>1, <3>2 DEF IsRconAuthorized
  <2> QED
    BY <2>1, <2>2 DEF OnlyAuthorizedQueued, IsRconAuthorized
<1>10. PromiseKeptByOwnCommand'
  BY <1>3, <1>4, <1>5
     DEF HandoffInv, PromiseKeptByOwnCommand, Ids, NoValue
<1> QED
  BY <1>7, <1>8, <1>9, <1>10 DEF HandoffInv

\* The promise that is kept is the one of the command just executed.
LEMMA HandoffRespond ==
    ASSUME HandoffInv, Respond
    PROVE  HandoffInv'
<1>1. /\ current # NoValue /\ current = Len(executed) /\ current \in Ids
      /\ promise' = [promise EXCEPT ![current] = current]
      /\ current' = NoValue
      /\ ticking' = ticking /\ batch' = batch /\ executed' = executed
      /\ pending' = pending /\ accepted' = accepted
  BY DEF Respond, HandoffInv, TickInv, GameTypeOK
<1>2. ticking
  BY <1>1 DEF HandoffInv, TickInv
<1>3. QueueTypeOK' /\ GameTypeOK' /\ TickInv'
  BY <1>1, <1>2 DEF HandoffInv, QueueTypeOK, GameTypeOK, TickInv
<1>4. HandoffInOrder' /\ OnlyAuthorizedQueued'
  BY <1>1 DEF HandoffInv, HandoffInOrder, OnlyAuthorizedQueued
<1>5. PromiseKeptByOwnCommand'
  BY <1>1 DEF HandoffInv, PromiseKeptByOwnCommand, QueueTypeOK, GameTypeOK,
              Ids, NoValue
<1> QED
  BY <1>3, <1>4, <1>5 DEF HandoffInv

\* The tick ends when its batch is empty.
LEMMA HandoffTickEnd ==
    ASSUME HandoffInv, TickEnd
    PROVE  HandoffInv'
<1>1. /\ current = NoValue /\ batch = << >> /\ ticking' = FALSE
      /\ batch' = batch /\ current' = current /\ executed' = executed
      /\ pending' = pending /\ promise' = promise /\ accepted' = accepted
  BY DEF TickEnd, queueVars
<1>2. QueueTypeOK' /\ GameTypeOK' /\ TickInv'
  BY <1>1 DEF HandoffInv, QueueTypeOK, GameTypeOK, TickInv
<1>3. HandoffInOrder' /\ OnlyAuthorizedQueued' /\ PromiseKeptByOwnCommand'
  BY <1>1 DEF HandoffInv, HandoffInOrder, OnlyAuthorizedQueued,
              PromiseKeptByOwnCommand
<1> QED
  BY <1>2, <1>3 DEF HandoffInv

\* The four steps of the game thread.
GameAction == TickDrain \/ DispatchItem \/ Respond \/ TickEnd

\* Each of them keeps the hand-off in order.
LEMMA HandoffGameAction ==
    ASSUME HandoffInv, GameAction
    PROVE  HandoffInv'
BY HandoffDrain, HandoffDispatch, HandoffRespond, HandoffTickEnd
   DEF GameAction

\* A promise that was kept stays as it is, and nothing is accepted by the game
\* thread.
LEMMA PromisesStayKept ==
    ASSUME HandoffInv, GameAction
    PROVE  /\ accepted' = accepted
           /\ \A id \in Ids : promise[id] = id => promise'[id] = id
<1>1. CASE TickDrain
  BY <1>1 DEF TickDrain
<1>2. CASE DispatchItem
  <2>1. batch # << >> /\ batch \in Seq(PendingCommand)
    BY <1>2 DEF DispatchItem, HandoffInv, GameTypeOK
  <2>2. 1 \in 1..Len(batch) /\ Head(batch) = batch[1]
    BY <2>1
  <2>3. IsRconAuthorized(Head(batch).authority)
    BY <2>2 DEF HandoffInv, OnlyAuthorizedQueued
  <2> QED
    BY <1>2, <2>3 DEF DispatchItem
<1>3. CASE Respond
  BY <1>3 DEF Respond, HandoffInv, QueueTypeOK, GameTypeOK
<1>4. CASE TickEnd
  BY <1>4 DEF TickEnd, queueVars
<1> QED
  BY <1>1, <1>2, <1>3, <1>4 DEF GameAction

-----------------------------------------------------------------------------
(* The queue and its callers *)

\* Futures in the hands of callers, and the results taken from them.
CallerInv ==
    /\ FuturesAreOwned
    /\ UntrustedRefusedAtOnce
    /\ \A id \in Ids : got[id] \in {NoValue, promise[id]}

CallersInv == HandoffInv /\ CallersTypeOK /\ CallerInv

-----------------------------------------------------------------------------

\* The initial state satisfies the invariant.
LEMMA CallersInit == HandoffInit => CallersInv
<1> SUFFICES ASSUME HandoffInit PROVE CallersInv
  OBVIOUS
<1>1. HandoffInv
  BY HandoffStart DEF HandoffInit
<1>2. CallersTypeOK
  BY <1>1 DEF HandoffInit, CallersTypeOK, HandoffInv, CommandAuthority
<1>3. CallerInv
  BY DEF HandoffInit, QueueInit, CallerInv, FuturesAreOwned, UntrustedRefusedAtOnce,
         Ids, NoValue
<1> QED
  BY <1>1, <1>2, <1>3 DEF CallersInv

\* A request gives its caller a future nobody else has.
LEMMA InvRequest ==
    ASSUME CallersInv, NEW t \in Callers, NEW a \in CommandAuthority, Request(t, a)
    PROVE  CallersInv'
<1>1. /\ Enqueue(a) /\ UNCHANGED gameVars /\ got' = got
      /\ held[t] = NoValue /\ held' = [held EXCEPT ![t] = FutureOf(a)]
      /\ authority' = [authority EXCEPT ![t] = a]
  BY DEF Request
<1>2. HandoffInv'
  BY <1>1, HandoffEnqueue DEF CallersInv
<1>3. CASE ~ IsRconAuthorized(a)
  <2>1. FutureOf(a) = Denied /\ accepted' = accepted /\ promise' = promise
    BY <1>1, <1>3 DEF FutureOf, Enqueue, queueVars
  <2>2. CallersTypeOK'
    BY <1>1, <1>2, <2>1 DEF CallersInv, CallersTypeOK, HandoffInv
  <2>3. CallerInv'
    BY <1>1, <1>3, <2>1
       DEF CallersInv, CallersTypeOK, CallerInv, FuturesAreOwned, UntrustedRefusedAtOnce,
           FutureReady, FutureValue, IsRconAuthorized, Ids, NoValue, Denied
  <2> QED
    BY <1>2, <2>2, <2>3 DEF CallersInv
<1>4. CASE IsRconAuthorized(a)
  <2>1. /\ FutureOf(a) = accepted + 1 /\ accepted' = accepted + 1
        /\ promise' = promise /\ accepted \in Nat /\ accepted + 1 \in Ids
    BY <1>1, <1>4, MaxCommandsAssumption
       DEF FutureOf, Enqueue, CallersInv, CallersTypeOK, QueueTypeOK, Ids
  <2>2. CallersTypeOK'
    BY <1>1, <1>2, <2>1 DEF CallersInv, CallersTypeOK, HandoffInv
  <2>3. FuturesAreOwned'
    BY <1>1, <2>1 DEF CallersInv, CallersTypeOK, CallerInv, FuturesAreOwned, Ids, NoValue,
                      Denied
  <2>4. UntrustedRefusedAtOnce'
    BY <1>1, <1>4, <2>1
       DEF CallersInv, CallersTypeOK, CallerInv, UntrustedRefusedAtOnce, FutureReady,
           FutureValue
  <2> QED
    BY <1>1, <1>2, <2>1, <2>2, <2>3, <2>4 DEF CallersInv, CallerInv
<1> QED
  BY <1>3, <1>4

\* A caller lets go of its future, with the result or without.
LEMMA InvRelease ==
    ASSUME CallersInv, NEW t \in Callers, Collect(t) \/ GiveUp(t)
    PROVE  CallersInv'
<1>1. /\ UNCHANGED queueVars /\ UNCHANGED gameVars /\ authority' = authority
      /\ held' = [held EXCEPT ![t] = NoValue]
      /\ \/ got' = got
         \/ /\ held[t] \in Ids
            /\ got' = [got EXCEPT ![held[t]] = FutureValue(held[t])]
  BY DEF Collect, GiveUp
<1>2. accepted' = accepted /\ promise' = promise
  BY <1>1 DEF queueVars
<1>3. HandoffInv'
  BY <1>1, HandoffStutter DEF CallersInv
<1>4. held[t] \in Ids => FutureValue(held[t]) = promise[held[t]]
  BY DEF FutureValue, Ids, Denied
<1>5. \A id \in Ids : promise[id] \in Ids \cup {NoValue, Denied}
  BY DEF CallersInv, CallersTypeOK, QueueTypeOK
<1>6. CallersTypeOK'
  BY <1>1, <1>3, <1>4, <1>5 DEF CallersInv, CallersTypeOK, HandoffInv
<1>7. \A id \in Ids : got'[id] \in {NoValue, promise'[id]}
  BY <1>1, <1>2, <1>4 DEF CallersInv, CallersTypeOK, CallerInv
<1>8. FuturesAreOwned' /\ UntrustedRefusedAtOnce'
  BY <1>1, <1>2 DEF CallersInv, CallersTypeOK, CallerInv, FuturesAreOwned,
       UntrustedRefusedAtOnce, FutureReady, FutureValue, Ids, NoValue
<1> QED
  BY <1>3, <1>6, <1>7, <1>8 DEF CallersInv, CallerInv

\* The game thread keeps promises and touches no future.
LEMMA InvGameStep ==
    ASSUME CallersInv, GameStep
    PROVE  CallersInv'
<1>1. GameAction /\ held' = held /\ authority' = authority /\ got' = got
  BY DEF GameStep, GameAction, callerVars
<1>2. HandoffInv'
  BY <1>1, HandoffGameAction DEF CallersInv
<1>3. accepted' = accepted /\ \A id \in Ids : promise[id] = id => promise'[id] = id
  BY <1>1, PromisesStayKept DEF CallersInv
<1>4. \A id \in Ids : promise[id] \in {NoValue, id}
  BY DEF CallersInv, HandoffInv, PromiseKeptByOwnCommand
<1>5. CallersTypeOK'
  BY <1>1, <1>2 DEF CallersInv, CallersTypeOK, HandoffInv
<1>6. CallerInv'
  BY <1>1, <1>3, <1>4 DEF CallersInv, CallerInv, FuturesAreOwned,
       UntrustedRefusedAtOnce, FutureReady, FutureValue, NoValue, Denied
<1> QED
  BY <1>2, <1>5, <1>6 DEF CallersInv

\* Every step preserves the invariant.
LEMMA CallersNext == CallersInv /\ [HandoffNext]_handoffVars => CallersInv'
<1> SUFFICES ASSUME CallersInv, [HandoffNext]_handoffVars PROVE CallersInv'
  OBVIOUS
<1>1. CASE GameStep
  BY <1>1, InvGameStep
<1>2. CASE \E t \in Callers : CallerStep(t)
  BY <1>2, InvRequest, InvRelease DEF CallerStep
<1>3. CASE UNCHANGED handoffVars
  <2>1. HandoffInv'
    BY <1>3, HandoffStutter DEF CallersInv, handoffVars
  <2>2. CallersTypeOK' /\ CallerInv'
    BY <1>3, <2>1 DEF handoffVars, callerVars, queueVars, CallersInv, CallersTypeOK, HandoffInv,
         CallerInv, FuturesAreOwned, UntrustedRefusedAtOnce, FutureReady,
         FutureValue
  <2> QED
    BY <2>1, <2>2 DEF CallersInv
<1> QED
  BY <1>1, <1>2, <1>3 DEF HandoffNext

\* The inductive invariant holds in every reachable state.
THEOREM CallersInvariance == HandoffSpec => []CallersInv
BY CallersInit, CallersNext, PTL DEF HandoffSpec

\* Nothing without authority is ever in the queue or in a batch.
THEOREM OnlyAuthorizedReachGameThread == HandoffSpec => []OnlyAuthorizedQueued
<1>1. CallersInv => OnlyAuthorizedQueued
  BY DEF CallersInv, HandoffInv
<1> QED
  BY <1>1, CallersInvariance, PTL

\* No two callers share a future, so none takes another's result.
THEOREM FuturesHaveOneOwner == HandoffSpec => []FuturesAreOwned
<1>1. CallersInv => FuturesAreOwned
  BY DEF CallersInv, CallerInv
<1> QED
  BY <1>1, CallersInvariance, PTL

\* Results go to their own requests, after execution.
THEOREM ResultsAssociated == HandoffSpec => []ResultsStayAssociated
<1>1. CallersInv => ResultsStayAssociated
  <2> SUFFICES ASSUME CallersInv, NEW id \in Ids, got[id] # NoValue
               PROVE  got[id] = id /\ \E i \in 1..Len(executed) : executed[i] = id
    BY DEF ResultsStayAssociated
  <2>1. got[id] = promise[id] /\ promise[id] # NoValue
    BY DEF CallersInv, CallerInv
  <2>2. promise[id] = id /\ id \in 1..Len(executed)
    BY <2>1 DEF CallersInv, HandoffInv, PromiseKeptByOwnCommand
  <2>3. executed[id] = id
    BY <2>2 DEF CallersInv, HandoffInv, HandoffInOrder
  <2> QED
    BY <2>1, <2>2, <2>3
<1> QED
  BY <1>1, CallersInvariance, PTL

\* Untrusted requests are refused without the game thread.
THEOREM UntrustedRefused == HandoffSpec => []UntrustedRefusedAtOnce
<1>1. CallersInv => UntrustedRefusedAtOnce
  BY DEF CallersInv, CallerInv
<1> QED
  BY <1>1, CallersInvariance, PTL

-----------------------------------------------------------------------------
(* The listener and the game thread *)

\* The handler holds a connection that is its own, past the password once it
\* takes commands, and a connection is served only once.
SessionInv ==
    /\ SocketsAccounted
    /\ conn # NoConn <=> worker \in InHandler
    /\ worker \in {"recv", "wait", "send"} => firstPacket[conn] = "auth"
    /\ \A id \in 1..accepted :
            /\ owner[id] \in Conns
            /\ firstPacket[owner[id]] = "auth"
            /\ peer[owner[id]] \in {"served", "closed"}
            /\ worker = "auth" => owner[id] # conn

\* What the handler is about to send is the answer of the command it holds,
\* and nothing was sent for that command before.
AnswerInv ==
    /\ OneLiveWaiter
    /\ ReplyIsOwn
    /\ \A id \in Ids : id > accepted => replies[id] = NoValue
    /\ worker = "send" =>
            \/ answer = TimedOut
            \/ answer = future /\ promise[future] = future

\* The flag m_running tells stop the truth until stop itself clears it, and
\* past stop the worker is gone.
LifeInv ==
    /\ mod = "loaded" => worker = "unstarted"
    /\ mod \in {"loaded", "running", "stop"} =>
            (running <=> worker \notin {"unstarted", "exited"})
    /\ mod \in {"close", "join"} => ~ running
    /\ mod \in {"stopped", "unregistered", "destroyed", "terminated"} =>
            worker \in {"unstarted", "exited"} /\ ~ running
    /\ mod \in {"unregistered", "destroyed", "terminated"} => ~ ticking

ServerInv == ServerTypeOK /\ SessionInv /\ AnswerInv /\ LifeInv

IInv == HandoffInv /\ ServerInv

-----------------------------------------------------------------------------

\* The initial state satisfies the invariant.
LEMMA InvInit == Init => IInv
<1> SUFFICES ASSUME Init PROVE IInv
  OBVIOUS
<1>1. HandoffInv
  BY HandoffStart DEF Init
<1>2. ServerTypeOK
  BY DEF Init, ServerInit, ServerTypeOK, WorkerStates, ModStates, InHandler,
         StopStates, PacketKinds, Values
<1>3. accepted = 0
  BY DEF Init, QueueInit
<1>4. SessionInv
  BY <1>3, ConnsAssumption
     DEF Init, ServerInit, SessionInv, SocketsAccounted, InHandler
<1>5. AnswerInv
  BY <1>3 DEF Init, ServerInit, AnswerInv, OneLiveWaiter, ReplyIsOwn, Ids,
              NoValue
<1>6. LifeInv
  BY DEF Init, ServerInit, LifeInv
<1> QED
  BY <1>1, <1>2, <1>4, <1>5, <1>6 DEF IInv, ServerInv

\* The steps of the game thread leave the server's state alone and only add
\* kept promises.
LEMMA InvGame ==
    ASSUME IInv, GameAction, UNCHANGED serverVars,
           TickDrain => CallbackRegistered
    PROVE  IInv'
<1>1. HandoffInv'
  BY HandoffGameAction DEF IInv
<1>2. /\ accepted' = accepted
      /\ \A id \in Ids : promise[id] = id => promise'[id] = id
  BY PromisesStayKept DEF IInv
<1>3. /\ running' = running /\ joinable' = joinable
      /\ published' = published /\ lsock' = lsock /\ worker' = worker
      /\ conn' = conn /\ future' = future /\ answer' = answer
      /\ peer' = peer /\ gone' = gone /\ firstPacket' = firstPacket
      /\ owner' = owner /\ replies' = replies /\ mod' = mod
  BY DEF serverVars, listenVars, sessionVars, peerVars, replyVars
<1>4. ServerTypeOK' /\ SessionInv'
  BY <1>2, <1>3
     DEF IInv, ServerInv, ServerTypeOK, SessionInv, SocketsAccounted
<1>5. AnswerInv'
  BY <1>2, <1>3 DEF IInv, ServerInv, ServerTypeOK, AnswerInv, OneLiveWaiter,
                    ReplyIsOwn
<1>6. LifeInv'
  BY <1>3 DEF GameAction, TickDrain, DispatchItem, Respond, TickEnd,
              CallbackRegistered, IInv, ServerInv, LifeInv, HandoffInv, TickInv
<1> QED
  BY <1>1, <1>4, <1>5, <1>6 DEF IInv, ServerInv

\* Whatever leaves queue and game thread alone preserves the hand-off.
LEMMA ServerKeepsHandoff ==
    ASSUME IInv, UNCHANGED queueVars, UNCHANGED gameVars
    PROVE  HandoffInv'
BY HandoffStutter DEF IInv

\* The worker outside handle_connection.
LEMMA InvRun ==
    ASSUME IInv, UNCHANGED gameVars,
           Start \/ SetupFail \/ BindAndListen \/ Publish \/ LoopCheck \/ AcceptFail \/ Exit
    PROVE  IInv'
<1> USE ServerKeepsHandoff, ConnsAssumption
    DEF IInv, ServerInv, ServerTypeOK, SessionInv, SocketsAccounted, AnswerInv,
        OneLiveWaiter, ReplyIsOwn, LifeInv, listenVars, sessionVars, peerVars,
        replyVars, queueVars, InHandler, WorkerStates, ModStates, StopStates
<1>1. CASE Start
  BY <1>1 DEF Start
<1>2. CASE SetupFail
  BY <1>2 DEF SetupFail
<1>3. CASE BindAndListen
  BY <1>3 DEF BindAndListen
<1>4. CASE Publish
  BY <1>4 DEF Publish
<1>5. CASE LoopCheck
  BY <1>5 DEF LoopCheck
<1>6. CASE AcceptFail
  BY <1>6 DEF AcceptFail
<1>7. CASE Exit
  BY <1>7 DEF Exit
<1> QED
  BY <1>1, <1>2, <1>3, <1>4, <1>5, <1>6, <1>7

\* The listening socket is closed, by the worker or by stop.
LEMMA InvTeardown ==
    ASSUME IInv, UNCHANGED gameVars,
           Teardown \/ StopClose
    PROVE  IInv'
<1> USE ServerKeepsHandoff, ConnsAssumption
    DEF IInv, ServerInv, ServerTypeOK, SessionInv, SocketsAccounted, AnswerInv,
        OneLiveWaiter, ReplyIsOwn, LifeInv, listenVars, sessionVars, peerVars,
        replyVars, queueVars, InHandler, WorkerStates, ModStates, StopStates
<1>1. CASE Teardown
  BY <1>1 DEF Teardown, BacklogReset
<1>2. CASE StopClose
  BY <1>2 DEF StopClose, BacklogReset
<1> QED
  BY <1>1, <1>2

\* The connection is closed before it got past the password.
LEMMA InvReject ==
    ASSUME IInv, UNCHANGED gameVars,
           AuthReject \/ AuthOkUnsent
    PROVE  IInv'
<1> USE ServerKeepsHandoff, ConnsAssumption
    DEF IInv, ServerInv, ServerTypeOK, SessionInv, SocketsAccounted, AnswerInv,
        OneLiveWaiter, ReplyIsOwn, LifeInv, listenVars, sessionVars, peerVars,
        replyVars, queueVars, InHandler, WorkerStates, ModStates, StopStates
<1>1. CASE AuthReject
  <2>1. PICK kind \in {"broken", "not_auth", "wrong_password"} :
            FirstPacket(kind)
    BY <1>1 DEF AuthReject
  <2> QED
    BY <1>1, <2>1 DEF AuthReject, FirstPacket, CloseClient, PacketKinds
<1>2. CASE AuthOkUnsent
  BY <1>2 DEF AuthOkUnsent, FirstPacket, CloseClient, PacketKinds
<1> QED
  BY <1>1, <1>2

\* The session of an authenticated connection, apart from new commands.
LEMMA InvSession ==
    ASSUME IInv, UNCHANGED gameVars,
           AuthOk \/ RecvFail \/ WaitTimeout \/ SendReply \/ SendFail
    PROVE  IInv'
<1> USE ServerKeepsHandoff, ConnsAssumption
    DEF IInv, ServerInv, ServerTypeOK, SessionInv, SocketsAccounted, AnswerInv,
        OneLiveWaiter, ReplyIsOwn, LifeInv, listenVars, sessionVars, peerVars,
        replyVars, queueVars, InHandler, WorkerStates, ModStates, StopStates
<1>1. CASE AuthOk
  BY <1>1 DEF AuthOk, FirstPacket, PacketKinds
<1>2. CASE RecvFail
  BY <1>2 DEF RecvFail, CloseClient
<1>3. CASE WaitTimeout
  BY <1>3 DEF WaitTimeout, Values
<1>4. CASE SendReply
  BY <1>4 DEF SendReply, Values, Ids, NoValue, TimedOut, Denied
<1>5. CASE SendFail
  BY <1>5 DEF SendFail, CloseClient
<1> QED
  BY <1>1, <1>2, <1>3, <1>4, <1>5

\* stop, and the end of the mod.
LEMMA InvStop ==
    ASSUME IInv, UNCHANGED gameVars,
           BeginUnload \/ StopExchange \/ StopJoin \/ Unregister \/ Destroy
    PROVE  IInv'
<1> USE ServerKeepsHandoff, ConnsAssumption
    DEF IInv, ServerInv, ServerTypeOK, SessionInv, SocketsAccounted, AnswerInv,
        OneLiveWaiter, ReplyIsOwn, LifeInv, listenVars, sessionVars, peerVars,
        replyVars, queueVars, InHandler, WorkerStates, ModStates, StopStates
<1>1. CASE BeginUnload
  BY <1>1 DEF BeginUnload
<1>2. CASE StopExchange
  <2>1. LifeInv'
    BY <1>2 DEF StopExchange
  <2>2. ServerTypeOK' /\ HandoffInv'
    BY <1>2, ZenonT(60) DEF StopExchange
  <2>3. SessionInv' /\ AnswerInv'
    BY <1>2 DEF StopExchange
  <2> QED
    BY <2>1, <2>2, <2>3
<1>3. CASE StopJoin
  BY <1>3 DEF StopJoin, gameVars
<1>4. CASE Unregister
  BY <1>4 DEF Unregister, gameVars
<1>5. CASE Destroy
  BY <1>5 DEF Destroy, gameVars
<1> QED
  BY <1>1, <1>2, <1>3, <1>4, <1>5

\* A connection goes from the backlog to the handler, or a client acts.
LEMMA InvConnection ==
    ASSUME IInv, UNCHANGED gameVars, NEW c \in Conns,
           Accept(c) \/ Connect(c) \/ HangUp(c)
    PROVE  IInv'
<1> USE ServerKeepsHandoff, ConnsAssumption
    DEF IInv, ServerInv, ServerTypeOK, SessionInv, SocketsAccounted, AnswerInv,
        OneLiveWaiter, ReplyIsOwn, LifeInv, listenVars, sessionVars, peerVars,
        replyVars, queueVars, InHandler, WorkerStates, ModStates, StopStates
<1>1. CASE Accept(c)
  <2>1. /\ peer' = [peer EXCEPT ![c] = "served"]
        /\ peer[c] \in {"away", "backlog"}
        /\ \A id \in 1..accepted : owner[id] # c
    BY <1>1 DEF Accept
  <2>2. ServerTypeOK' /\ LifeInv' /\ HandoffInv'
    BY <1>1, <2>1 DEF Accept, gameVars
  <2>3. SocketsAccounted'
    BY <1>1, <2>1 DEF Accept
  <2>4. SessionInv'
    BY <1>1, <2>1, <2>3 DEF Accept
  <2>5. AnswerInv'
    BY <1>1 DEF Accept
  <2> QED
    BY <2>2, <2>4, <2>5
<1>2. CASE Connect(c)
  <2>1. /\ peer' = [peer EXCEPT ![c] = "backlog"]
        /\ peer[c] \in {"away", "backlog"}
        /\ \A id \in 1..accepted : owner[id] # c
    BY <1>2 DEF Connect
  <2>2. ServerTypeOK' /\ LifeInv' /\ HandoffInv'
    BY <1>2, <2>1 DEF Connect, gameVars
  <2>3. SocketsAccounted'
    BY <1>2, <2>1 DEF Connect
  <2>4. SessionInv'
    BY <1>2, <2>1, <2>3 DEF Connect
  <2>5. AnswerInv'
    BY <1>2 DEF Connect
  <2> QED
    BY <2>2, <2>4, <2>5
<1>3. CASE HangUp(c)
  <2>1. ServerTypeOK' /\ LifeInv' /\ HandoffInv'
    BY <1>3 DEF HangUp, gameVars
  <2>2. SessionInv' /\ AnswerInv'
    BY <1>3 DEF HangUp
  <2> QED
    BY <2>1, <2>2
<1> QED
  BY <1>1, <1>2, <1>3

\* The result that wakes the handler is the one of the command it waits for.
LEMMA InvReady ==
    ASSUME IInv, UNCHANGED gameVars, WaitReady
    PROVE  IInv'
<1>1. /\ future \in Ids /\ promise[future] = future /\ answer' = future
      /\ worker' = "send"
  BY DEF WaitReady, FutureReady, FutureValue, IInv, ServerInv, ServerTypeOK,
         AnswerInv, OneLiveWaiter, HandoffInv, PromiseKeptByOwnCommand,
         Ids, NoValue, Denied
<1> USE ServerKeepsHandoff, ConnsAssumption
    DEF IInv, ServerInv, ServerTypeOK, SessionInv, SocketsAccounted, AnswerInv,
        OneLiveWaiter, ReplyIsOwn, LifeInv, listenVars, sessionVars, peerVars,
        replyVars, queueVars, InHandler, WorkerStates, ModStates, StopStates
<1> QED
  BY <1>1 DEF WaitReady, Values

\* A new command is queued behind the others and belongs to the connection.
LEMMA InvCommand ==
    ASSUME IInv, UNCHANGED gameVars, RecvCommand
    PROVE  IInv'
<1>1. Enqueue("authenticated_rcon") /\ "authenticated_rcon" \in CommandAuthority
  BY DEF RecvCommand, CommandAuthority
<1>2. HandoffInv'
  BY <1>1, HandoffEnqueue DEF IInv
<1>3. /\ accepted' = accepted + 1 /\ accepted \in Nat /\ accepted + 1 \in Ids
      /\ promise' = promise /\ future' = accepted + 1
      /\ owner' = [owner EXCEPT ![accepted + 1] = conn]
      /\ worker = "recv" /\ worker' = "wait" /\ replies' = replies
  BY MaxCommandsAssumption
     DEF RecvCommand, Enqueue, FutureOf, IsRconAuthorized, IInv, HandoffInv,
         QueueTypeOK, Ids
<1> USE ServerKeepsHandoff, ConnsAssumption
    DEF IInv, ServerInv, ServerTypeOK, SessionInv, SocketsAccounted, AnswerInv,
        OneLiveWaiter, ReplyIsOwn, LifeInv, listenVars, sessionVars, peerVars,
        replyVars, queueVars, InHandler, WorkerStates, ModStates, StopStates
<1>4. ServerTypeOK'
  BY <1>3 DEF RecvCommand
<1>5. SessionInv'
  BY <1>3 DEF RecvCommand, Ids
<1>6. AnswerInv'
  <2>1. future = NoValue /\ replies[accepted + 1] = NoValue
    BY <1>3
  <2>2. OneLiveWaiter'
    BY <1>3, <2>1 DEF NoValue
  <2>3. ReplyIsOwn'
    BY <1>3
  <2> QED
    BY <1>3, <2>2, <2>3 DEF Ids
<1>7. LifeInv'
  BY <1>3 DEF RecvCommand, gameVars
<1> QED
  BY <1>2, <1>4, <1>5, <1>6, <1>7

\* Every step of the system preserves the invariant.
LEMMA InvNext == IInv /\ [Next]_vars => IInv'
<1> SUFFICES ASSUME IInv, [Next]_vars PROVE IInv'
  OBVIOUS
<1>1. CASE EngineTick
  BY <1>1, InvGame DEF EngineTick, GameAction
<1>2. CASE Dispatch
  <2>1. GameAction /\ UNCHANGED serverVars /\ ~ TickDrain
    BY <1>2 DEF Dispatch, GameAction, DispatchItem, Respond, TickEnd, TickDrain,
                IInv, HandoffInv, TickInv
  <2> QED
    BY <2>1, InvGame
<1>3. CASE Serve
  <2>1. ServerNext /\ UNCHANGED gameVars
    BY <1>3 DEF Serve
  <2>2. CASE WorkerInternal
    <3>1. CASE \E c \in Conns : Accept(c)
      BY <2>1, <3>1, InvConnection
    <3> QED
      BY <2>1, <2>2, <3>1, InvRun, InvTeardown, InvReady, InvSession
         DEF WorkerInternal
  <2>3. CASE Exchange
    BY <2>1, <2>3, InvReject, InvSession, InvCommand DEF Exchange
  <2>4. CASE Clients
    BY <2>1, <2>4, InvConnection DEF Clients
  <2>5. CASE Stop
    BY <2>1, <2>5, InvStop, InvTeardown DEF Stop
  <2>6. CASE AcceptFail \/ Start
    BY <2>1, <2>6, InvRun
  <2> QED
    BY <2>1, <2>2, <2>3, <2>4, <2>5, <2>6 DEF ServerNext
<1>4. CASE BeginUnload \/ Unregister \/ Destroy
  BY <1>4, InvStop DEF BeginUnload, Unregister, Destroy
<1>5. CASE UNCHANGED vars
  <2>1. UNCHANGED queueVars /\ UNCHANGED gameVars /\ UNCHANGED serverVars
    BY <1>5 DEF vars
  <2>2. HandoffInv'
    BY <2>1, ServerKeepsHandoff
  <2>3. ServerInv'
    BY <2>1 DEF IInv, ServerInv, ServerTypeOK, SessionInv, SocketsAccounted,
         AnswerInv, OneLiveWaiter, ReplyIsOwn, LifeInv, serverVars, listenVars,
         sessionVars, peerVars, replyVars, queueVars, gameVars
  <2> QED
    BY <2>2, <2>3 DEF IInv
<1> QED
  BY <1>1, <1>2, <1>3, <1>4, <1>5 DEF Next, Terminated

\* The inductive invariant holds in every reachable state.
THEOREM Invariance == Spec => []IInv
BY InvInit, InvNext, PTL DEF Spec

-----------------------------------------------------------------------------

\* Every variable keeps its type.
THEOREM TypeCorrect == Spec => []TypeOK
<1>1. IInv => TypeOK
  BY DEF IInv, HandoffInv, ServerInv, TypeOK
<1> QED
  BY <1>1, Invariance, PTL

\* Commands are executed in the order of their acceptance, each once, and none
\* is lost between the queue and the game thread, whatever the listener, its
\* clients and the unloading of the mod do meanwhile.
THEOREM CommandsInOrder == Spec => []HandoffInOrder
<1>1. IInv => HandoffInOrder
  BY DEF IInv, HandoffInv
<1> QED
  BY <1>1, Invariance, PTL

\* A client is sent the result of its own command or a timeout, never the
\* late result of a command that timed out before.
THEOREM RepliesAreOwn == Spec => []ReplyIsOwn
<1>1. IInv => ReplyIsOwn
  BY DEF IInv, ServerInv, AnswerInv
<1> QED
  BY <1>1, Invariance, PTL

\* Only a connection that gave the right password has commands executed.
THEOREM PasswordBeforeCommand == Spec => []AuthBeforeCommand
<1>1. IInv => AuthBeforeCommand
  BY DEF IInv, ServerInv, SessionInv, AuthBeforeCommand
<1> QED
  BY <1>1, Invariance, PTL

\* No early return of handle_connection leaves a client's socket open.
THEOREM NoSocketLeaks == Spec => []SocketsAccounted
<1>1. IInv => SocketsAccounted
  BY DEF IInv, ServerInv, SessionInv
<1> QED
  BY <1>1, Invariance, PTL

\* The members of the mod are destroyed only after the worker has ended and
\* with no tick under way.
THEOREM NoUseAfterDestruction == Spec => []QuietWhenDestroyed
<1>1. IInv => QuietWhenDestroyed
  BY DEF IInv, ServerInv, LifeInv, QuietWhenDestroyed
<1> QED
  BY <1>1, Invariance, PTL

\* The listening socket is open only while the worker is between its set-up
\* and its teardown, and only an open one has a backlog.
ReleaseInv ==
    /\ lsock = "open" =>
            worker \in {"publish", "loop", "accept", "teardown"} \cup InHandler
    /\ \A c \in Conns : peer[c] = "backlog" => lsock = "open"

\* The worker opens the listening socket behind the set-up and closes it
\* before it leaves; stop may close it earlier; nobody opens it again.
LEMMA ReleaseNext == IInv /\ ReleaseInv /\ [Next]_vars => ReleaseInv'
<1> SUFFICES ASSUME IInv, ReleaseInv, [Next]_vars PROVE ReleaseInv'
  OBVIOUS
<1>1. /\ conn \in Conns \cup {NoConn} /\ peer \in [Conns -> {"away", "backlog", "served", "closed"}]
      /\ conn # NoConn <=> worker \in InHandler
      /\ mod = "loaded" => worker = "unstarted"
  BY DEF IInv, ServerInv, ServerTypeOK, SessionInv, LifeInv
<1> USE DEF ReleaseInv, InHandler
<1>2. CASE UNCHANGED <<lsock, worker, peer>>
  BY <1>2
<1>3. CASE Start \/ SetupFail \/ BindAndListen \/ Publish \/ LoopCheck
           \/ AcceptFail \/ Exit
  <2>1. peer' = peer
    BY <1>3 DEF Start, SetupFail, BindAndListen, Publish, LoopCheck, AcceptFail,
                Exit, peerVars
  <2>2. CASE BindAndListen
    BY <2>1, <2>2 DEF BindAndListen
  <2>3. CASE ~ BindAndListen
    BY <1>1, <1>3, <2>1, <2>3
       DEF Start, SetupFail, Publish, LoopCheck, AcceptFail, Exit, listenVars
  <2> QED
    BY <2>2, <2>3
<1>4. CASE Teardown \/ StopClose
  BY <1>1, <1>4 DEF Teardown, StopClose, BacklogReset
<1>5. CASE AuthReject \/ AuthOkUnsent \/ RecvFail \/ SendFail
  BY <1>1, <1>5 DEF AuthReject, AuthOkUnsent, RecvFail, SendFail, FirstPacket,
                    CloseClient, listenVars
<1>6. CASE AuthOk \/ RecvCommand \/ SendReply \/ WaitReady \/ WaitTimeout
  BY <1>6 DEF AuthOk, RecvCommand, SendReply, WaitReady, WaitTimeout,
              FirstPacket, listenVars, peerVars
<1>7. CASE \E c \in Conns : Accept(c) \/ Connect(c) \/ HangUp(c)
  BY <1>1, <1>7 DEF Accept, Connect, HangUp, listenVars
<1>8. [Next]_vars =>
        \/ UNCHANGED <<lsock, worker, peer>>
        \/ Start \/ SetupFail \/ BindAndListen \/ Publish \/ LoopCheck
        \/ AcceptFail \/ Exit
        \/ Teardown \/ StopClose
        \/ AuthReject \/ AuthOkUnsent \/ RecvFail \/ SendFail
        \/ AuthOk \/ RecvCommand \/ SendReply \/ WaitReady \/ WaitTimeout
        \/ \E c \in Conns : Accept(c) \/ Connect(c) \/ HangUp(c)
  <2>1. CASE Serve
    BY <2>1 DEF Serve, ServerNext, WorkerInternal, Exchange, Clients, Stop,
                StopExchange, StopJoin, listenVars, peerVars
  <2>2. CASE EngineTick \/ Dispatch
    BY <2>2 DEF EngineTick, Dispatch, serverVars, listenVars, peerVars
  <2>3. CASE BeginUnload \/ Unregister \/ Destroy
    BY <2>3 DEF BeginUnload, Unregister, Destroy, listenVars, peerVars
  <2>4. CASE UNCHANGED vars
    BY <2>4 DEF vars, serverVars, listenVars, peerVars
  <2> QED
    BY <2>1, <2>2, <2>3, <2>4 DEF Next, Terminated
<1> QED
  BY <1>2, <1>3, <1>4, <1>5, <1>6, <1>7, <1>8

\* When the first stop has returned, nothing is left open: neither the
\* listening socket nor a client's, whoever of run and stop came first.
THEOREM StopLeavesNothing == Spec => []StopReleases
<1>1. Init => ReleaseInv
  BY DEF Init, ServerInit, ReleaseInv
<1>2. IInv /\ ReleaseInv => StopReleases
  BY DEF IInv, ServerInv, ServerTypeOK, SessionInv, SocketsAccounted, LifeInv, ReleaseInv,
         StopReleases, InHandler
<1> QED
  BY <1>1, <1>2, ReleaseNext, Invariance, PTL DEF Spec

\* An answer that was sent is not revised by any later step.
THEOREM AnswersAreFinal == Spec => RepliesAreFinal
<1>1. IInv /\ [Next]_vars =>
        [\A id \in Ids : replies[id] # NoValue => replies'[id] = replies[id]]_vars
  <2> SUFFICES ASSUME IInv, [Next]_vars, NEW id \in Ids, replies[id] # NoValue
               PROVE  replies'[id] = replies[id]
    OBVIOUS
  <2>1. CASE SendReply
    BY <2>1 DEF SendReply, IInv, ServerInv, ServerTypeOK, AnswerInv,
                OneLiveWaiter
  <2>2. CASE replies' = replies
    BY <2>2
  <2>3. SendReply \/ replies' = replies
    BY DEF Next, EngineTick, Dispatch, Serve, BeginUnload, Unregister, Destroy,
           Terminated, vars, serverVars, replyVars, ServerNext,
           WorkerInternal, Exchange, Clients, Stop, Start, SetupFail,
           BindAndListen, Publish, LoopCheck, Accept, AcceptFail, Teardown,
           Exit, AuthReject, AuthOk, AuthOkUnsent, RecvCommand, RecvFail,
           WaitReady, WaitTimeout, SendFail, Connect, HangUp, StopExchange,
           StopClose, StopJoin
  <2> QED
    BY <2>1, <2>2, <2>3
<1> QED
  BY <1>1, Invariance, PTL DEF Spec, RepliesAreFinal

-----------------------------------------------------------------------------
(* The system implements the service. *)

\* A step of the game thread is a command carried out, or nothing: executing a
\* command counts when its promise is kept.
LEMMA GameStepImplements ==
    ASSUME IInv, GameAction, UNCHANGED serverVars
    PROVE  [Service!Next]_(Service!vars)
<1>1. future' = future /\ replies' = replies /\ accepted' = accepted
  BY PromisesStayKept DEF IInv, serverVars, sessionVars, replyVars
<1>2. /\ executed \in Seq(Ids) /\ Len(executed) \in Nat /\ accepted \in Nat
      /\ Len(executed) <= accepted
  BY MaxCommandsAssumption
     DEF IInv, HandoffInv, GameTypeOK, QueueTypeOK, HandoffInOrder
<1>3. CASE TickDrain \/ TickEnd
  BY <1>1, <1>3 DEF TickDrain, TickEnd, carriedOut, Service!vars
<1>4. CASE DispatchItem
  <2>1. batch # << >> /\ batch \in Seq(PendingCommand)
    BY <1>4 DEF DispatchItem, IInv, HandoffInv, GameTypeOK
  <2>2. 1 \in 1..Len(batch) /\ Head(batch) = batch[1]
        /\ Head(batch) \in PendingCommand
    BY <2>1
  <2>3. IsRconAuthorized(Head(batch).authority) /\ Head(batch).id \in Ids
    BY <2>2 DEF IInv, HandoffInv, OnlyAuthorizedQueued, PendingCommand
  <2>4. current = NoValue /\ current' = Head(batch).id
        /\ executed' = Append(executed, Head(batch).id)
    BY <1>4, <2>3 DEF DispatchItem
  <2>5. Len(executed') = Len(executed) + 1 /\ current' # NoValue
    BY <1>2, <2>3, <2>4 DEF Ids, NoValue
  <2>6. carriedOut' = carriedOut
    BY <1>2, <2>4, <2>5 DEF carriedOut
  <2> QED
    BY <1>1, <2>6 DEF Service!vars
<1>5. CASE Respond
  <2>1. carriedOut' = carriedOut + 1 /\ carriedOut < accepted
    BY <1>2, <1>5 DEF Respond, carriedOut
  <2> QED
    BY <1>1, <2>1 DEF Service!Next, Service!CarryOut
<1> QED
  BY <1>3, <1>4, <1>5 DEF GameAction

\* A step of the listener accepts a command, answers it, abandons it, or does
\* nothing the service knows of.
LEMMA ServerStepImplements ==
    ASSUME IInv, ServerNext, UNCHANGED gameVars
    PROVE  [Service!Next]_(Service!vars)
<1>1. carriedOut' = carriedOut
  BY DEF gameVars, carriedOut
<1>2. CASE RecvCommand
  <2>1. future = NoValue /\ accepted < MaxCommands /\ accepted' = accepted + 1
        /\ future' = accepted + 1 /\ replies' = replies
    BY <1>2 DEF RecvCommand, Enqueue, FutureOf, IsRconAuthorized, IInv,
                ServerInv, AnswerInv, OneLiveWaiter
  <2> QED
    BY <1>1, <2>1 DEF Service!Next, Service!Accept, Service!None, NoValue
<1>3. CASE SendReply
  <2>1. /\ future \in Ids /\ future' = NoValue /\ accepted' = accepted
        /\ replies' = [replies EXCEPT ![future] = answer]
    BY <1>3 DEF SendReply, IInv, ServerInv, ServerTypeOK, AnswerInv,
                OneLiveWaiter, queueVars
  <2>2. \/ answer = TimedOut
        \/ answer = future /\ promise[future] = future
    BY <1>3 DEF SendReply, IInv, ServerInv, AnswerInv
  <2>3. promise[future] = future => future <= carriedOut
    <3>1. ASSUME promise[future] = future
          PROVE  future \in 1..Len(executed) /\ future # current
      BY <2>1, <3>1 DEF IInv, HandoffInv, PromiseKeptByOwnCommand, Ids, NoValue
    <3>2. current # NoValue => current = Len(executed)
      BY DEF IInv, HandoffInv, TickInv
    <3>3. Len(executed) \in Nat
      BY DEF IInv, HandoffInv, GameTypeOK
    <3> QED
      BY <3>1, <3>2, <3>3 DEF carriedOut
  <2>4. answer \in {TimedOut} \cup (IF future <= carriedOut THEN {future} ELSE {})
    BY <2>2, <2>3
  <2>5. future # NoValue
    BY <2>1 DEF Ids, NoValue
  <2> QED
    BY <1>1, <2>1, <2>4, <2>5
       DEF Service!Next, Service!Answer, Service!None, Service!TimedOut,
           NoValue, TimedOut
<1>4. CASE SendFail
  <2>1. future # NoValue /\ future' = NoValue /\ accepted' = accepted
        /\ replies' = replies
    BY <1>4 DEF SendFail, IInv, ServerInv, AnswerInv, OneLiveWaiter, queueVars,
                replyVars
  <2> QED
    BY <1>1, <2>1 DEF Service!Next, Service!Abandon, Service!None, NoValue
<1>5. CASE UNCHANGED <<accepted, future, replies>>
  BY <1>1, <1>5 DEF Service!vars
<1>6. RecvCommand \/ SendReply \/ SendFail \/ UNCHANGED <<accepted, future, replies>>
  BY DEF ServerNext, WorkerInternal, Exchange, Clients, Stop, queueVars,
         sessionVars, replyVars, CloseClient,
         Start, SetupFail, BindAndListen, Publish, LoopCheck, Accept,
         AcceptFail, Teardown, Exit, AuthReject, AuthOk, AuthOkUnsent,
         RecvFail, WaitReady, WaitTimeout, Connect, HangUp, StopExchange,
         StopClose, StopJoin
<1> QED
  BY <1>2, <1>3, <1>4, <1>5, <1>6

\* For its clients the system is the console that RconService describes: one
\* open command at a time, carried out in order and exactly once, answered by
\* its own result or the timeout.
THEOREM ImplementsService == Spec => ServiceSpec
<1>1. Init => Service!Init
  <2> SUFFICES ASSUME Init PROVE Service!Init
    OBVIOUS
  <2>1. Len(executed) = 0 /\ current = NoValue
    BY DEF Init, GameInit
  <2> QED
    BY <2>1 DEF Init, QueueInit, ServerInit, carriedOut, Service!Init,
                Service!None, Service!Commands, NoValue, Ids
<1>2. IInv /\ [Next]_vars => [Service!Next]_(Service!vars)
  <2> SUFFICES ASSUME IInv, [Next]_vars PROVE [Service!Next]_(Service!vars)
    OBVIOUS
  <2>1. CASE EngineTick \/ Dispatch
    BY <2>1, GameStepImplements DEF EngineTick, Dispatch, GameAction
  <2>2. CASE Serve
    BY <2>2, ServerStepImplements DEF Serve
  <2>3. CASE BeginUnload \/ Unregister \/ Destroy \/ UNCHANGED vars
    BY <2>3 DEF BeginUnload, Unregister, Destroy, vars, queueVars, gameVars,
                serverVars, sessionVars, replyVars, carriedOut, Service!vars
  <2> QED
    BY <2>1, <2>2, <2>3 DEF Next, Terminated
<1> QED
  BY <1>1, <1>2, Invariance, PTL DEF Spec, ServiceSpec, Service!Spec

=============================================================================
