------------------------ MODULE NativeDispatchProofs ------------------------
(***************************************************************************)
(* The answers of the native dispatchers, for any players, pawns, registry *)
(* and requests.                                                           *)
(***************************************************************************)
EXTENDS NativeDispatch, FiniteSetTheorems, TLAPS

\* Where a request is, whether its handler was called, and what that was for.
CallInv ==
    /\ faulted \in BOOLEAN /\ ip_faulted \in BOOLEAN /\ build \in BOOLEAN
    /\ hooked \in BOOLEAN
    /\ phase \in {"idle", "ready", "native", "replied"}
    /\ phase \in {"idle", "ready"} => invoked = 0
    /\ phase = "native" => invoked = 1 /\ before = target
    /\ phase \in {"ready", "native"} => request.kind \in {"set", "exec"}
    /\ phase = "ready" /\ request.kind = "exec" => ~ faulted

IInv ==
    /\ CallInv
    /\ VerifiedIsTrue /\ AnswerTellsWhetherExecuted /\ NothingWithheld

-----------------------------------------------------------------------------

\* What an answer to a generic command consists of.
LEMMA ExecReplyParts ==
    ASSUME NEW result \in BOOLEAN, NEW text \in BOOLEAN, NEW failed \in BOOLEAN,
           NEW cut \in BOOLEAN
    PROVE  LET parts == ExecReply(result, text, failed, cut)
           IN  /\ parts \cap WithoutCall = {} /\ "exception" \notin parts
               /\ "verified" \notin parts /\ "addresses" \notin parts
               /\ ~ result => "silent" \notin parts
               /\ text => "text" \in parts
               /\ failed => "capture_failed" \in parts
  BY DEF ExecReply, Captured, WithoutCall

\* What an answer to a GodMode command consists of, and what it takes to verify.
LEMMA GodModeReplyParts ==
    ASSUME NEW result \in BOOLEAN, NEW text \in BOOLEAN, NEW failed \in BOOLEAN,
           NEW cut \in BOOLEAN
    PROVE  LET parts == GodModeReply(result, text, failed, cut)
           IN  /\ parts \cap WithoutCall = {} /\ "exception" \notin parts
               /\ "silent" \notin parts /\ "addresses" \notin parts
               /\ "verified" \in parts =>
                    /\ result
                    /\ pawn[target.controller] = target.pawn
                    /\ god[target.pawn] = request.enabled
                    /\ immortal[target.pawn] = target.immortal
                    /\ text => "text" \in parts
                    /\ failed => "capture_failed" \in parts
               /\ "verified" \notin parts =>
                    parts \cap {"false", "text", "capture_failed"} = {}
  <1>1. CASE pawn[target.controller] # target.pawn
    BY <1>1 DEF GodModeReply, WithoutCall
  <1>2. CASE /\ pawn[target.controller] = target.pawn
             /\ \/ ~ result
                \/ god[target.pawn] # request.enabled
                \/ immortal[target.pawn] # target.immortal
    BY <1>2 DEF GodModeReply, WithoutCall
  <1>3. CASE /\ pawn[target.controller] = target.pawn /\ result
             /\ god[target.pawn] = request.enabled
             /\ immortal[target.pawn] = target.immortal
    BY <1>3 DEF GodModeReply, Captured, WithoutCall
  <1> QED BY <1>1, <1>2, <1>3

-----------------------------------------------------------------------------

\* The request and its answer stay as they are but for the reply hook.
LEMMA KeptIInv ==
    ASSUME IInv, hooked' \in BOOLEAN, hooked' => hooked,
           UNCHANGED <<build, faulted, ip_faulted, phase, request, target, reply,
                       online, steam, pawn, god, immortal, invoked, before, said, returned>>
    PROVE  IInv'
  BY DEF IInv, CallInv, VerifiedIsTrue, AnswerTellsWhetherExecuted, NothingWithheld, Replied

\* An answer without a call.
LEMMA AnsweredWithoutCall ==
    ASSUME IInv, NEW parts, Answer(parts), parts \cap (WithoutCall \cup {"exception"}) # {},
           parts \cap {"verified", "false", "text", "capture_failed", "silent"} = {},
           invoked' = 0, faulted' \in BOOLEAN, ip_faulted' \in BOOLEAN,
           build' = build, hooked' = hooked
    PROVE  IInv'
  BY DEF IInv, CallInv, VerifiedIsTrue, AnswerTellsWhetherExecuted, NothingWithheld,
         Replied, Answer

\* Every step keeps the invariant.
LEMMA InvStep == IInv /\ [Next]_vars => IInv'
  <1> SUFFICES ASSUME IInv, [Next]_vars PROVE IInv'
    OBVIOUS
  <1> USE DEF game, history
  <1>1. CASE Shutdown
    BY <1>1, KeptIInv DEF Shutdown
  <1>2. CASE GameStep
    <2>1. /\ phase \in {"idle", "native"}
          /\ UNCHANGED <<build, hooked, faulted, ip_faulted, phase, request, target, reply,
                         invoked, before, said, returned>>
      BY <1>2 DEF GameStep
    <2> QED BY <2>1 DEF IInv, CallInv, VerifiedIsTrue, AnswerTellsWhetherExecuted,
                        NothingWithheld, Replied
  <1>3. CASE Invoke
    BY <1>3 DEF Invoke, IInv, CallInv, VerifiedIsTrue, AnswerTellsWhetherExecuted,
                NothingWithheld, Replied
  <1>4. CASE Raise
    <2>1. /\ phase = "native" /\ phase' = "replied"
          /\ reply' = IF request.kind = "exec" THEN {"unknown"} ELSE {"exception"}
          /\ UNCHANGED <<build, hooked, ip_faulted, invoked, request>>
      BY <1>4 DEF Raise, Answer
    <2>2. faulted' \in BOOLEAN
      BY <1>4 DEF Raise, IInv, CallInv
    <2>3. CallInv'
      BY <2>1, <2>2 DEF IInv, CallInv
    <2> QED BY <2>1, <2>3 DEF IInv, CallInv, VerifiedIsTrue, AnswerTellsWhetherExecuted,
                              NothingWithheld, Replied, WithoutCall
  <1>5. CASE Done
    BY <1>5 DEF Done, IInv, CallInv, VerifiedIsTrue, AnswerTellsWhetherExecuted,
                NothingWithheld, Replied
  <1>6. ASSUME NEW r \in Requests, Refuse(r)
        PROVE  IInv'
    BY <1>6, AnsweredWithoutCall DEF Refuse, Unanswerable, WithoutCall, IInv, CallInv
  <1>14. ASSUME NEW r \in Requests, Throw(r)
         PROVE  IInv'
    BY <1>14, AnsweredWithoutCall DEF Throw, Unanswerable, WithoutCall, IInv, CallInv
  <1>7. ASSUME NEW r \in Requests, Describe(r)
        PROVE  IInv'
    <2>1. CASE r.kind = "state"
      BY <1>7, <2>1, AnsweredWithoutCall DEF Describe, WithoutCall, IInv, CallInv
    <2>2. CASE r.kind # "state"
      BY <1>7, <2>2, AnsweredWithoutCall DEF Describe, WithoutCall, IInv, CallInv
    <2> QED BY <2>1, <2>2
  <1>8. ASSUME NEW r \in Requests, Admit(r)
        PROVE  IInv'
    <2>1. /\ request' = r /\ r.kind \in {"set", "exec"} /\ phase' = "ready"
          /\ invoked' = 0 /\ TargetsOf(r) # {}
          /\ UNCHANGED <<build, hooked, faulted, ip_faulted>>
      BY <1>8 DEF Admit
    <2>2. r.kind = "exec" => ~ faulted
      BY <2>1 DEF TargetsOf, ExecTargets, ExecAllowed
    <2> QED BY <2>1, <2>2 DEF IInv, CallInv, VerifiedIsTrue, AnswerTellsWhetherExecuted,
                              NothingWithheld, Replied
  <1>9. ASSUME NEW r \in Requests, ListPlayers(r)
        PROVE  IInv'
    <2>1. ip_faulted' \in BOOLEAN
      BY <1>9 DEF ListPlayers, Addresses, IInv, CallInv
    <2>2. /\ \E parts \in {{"players"}, {"players", "addresses"}, {"nobody"}, {"exception"}} :
                Answer(parts)
          /\ invoked' = 0 /\ UNCHANGED <<build, hooked, faulted>>
      BY <1>9 DEF ListPlayers, Asked
    <2> QED BY <2>1, <2>2, AnsweredWithoutCall DEF WithoutCall, IInv, CallInv
  <1>10. ASSUME NEW r \in Requests, Weather(r)
         PROVE  IInv'
    <2>1. /\ Answer({"weather"}) \/ Answer({"refused"}) \/ Answer({"exception"})
          /\ invoked' = 0 /\ UNCHANGED <<build, hooked, faulted, ip_faulted>>
      BY <1>10 DEF Weather, Asked
    <2> QED BY <2>1, AnsweredWithoutCall DEF WithoutCall, IInv, CallInv
  <1>11. ASSUME NEW r \in Requests, Catalogue(r)
         PROVE  IInv'
    <2>1. /\ Answer({"catalogue"}) \/ Answer({"exception"})
          /\ invoked' = 0 /\ UNCHANGED <<build, hooked, faulted, ip_faulted>>
      BY <1>11 DEF Catalogue, Asked
    <2> QED BY <2>1, AnsweredWithoutCall DEF WithoutCall, IInv, CallInv
  <1>12. ASSUME NEW result \in BOOLEAN, NEW talks \in BOOLEAN, NEW failed \in BOOLEAN,
                NEW cut \in BOOLEAN, Return(result, talks, failed, cut)
         PROVE  IInv'
    <2>1. PICK heard \in (IF hooked THEN {TRUE} ELSE BOOLEAN),
               text \in (IF failed THEN BOOLEAN ELSE {talks}) :
            Answer(IF request.kind = "exec"
                   THEN ExecReply(result, heard /\ text, heard /\ failed, heard /\ cut)
                   ELSE GodModeReply(result, heard /\ text, heard /\ failed, heard /\ cut))
      BY <1>12 DEF Return
    <2>2. /\ heard \in BOOLEAN /\ text \in BOOLEAN /\ (hooked => heard)
          /\ (~ failed /\ talks => text)
      OBVIOUS
    <2>3. /\ phase = "native" /\ said' = talks /\ returned' = result
          /\ UNCHANGED <<build, hooked, faulted, ip_faulted, request, target,
                         online, steam, pawn, god, immortal, invoked, before>>
      BY <1>12 DEF Return
    <2>4. phase' = "replied" /\ CallInv'
      BY <2>1, <2>3 DEF Answer, IInv, CallInv
    <2>5. CASE request.kind = "exec"
      <3>1. reply' = ExecReply(result, heard /\ text, heard /\ failed, heard /\ cut)
        BY <2>1, <2>5 DEF Answer
      <3>2. /\ reply' \cap WithoutCall = {} /\ "exception" \notin reply'
            /\ "verified" \notin reply'
            /\ ~ result => "silent" \notin reply'
            /\ heard /\ text => "text" \in reply'
            /\ heard /\ failed => "capture_failed" \in reply'
        BY <2>2, <3>1, ExecReplyParts
      <3> QED BY <2>2, <2>3, <2>4, <3>2
              DEF IInv, CallInv, VerifiedIsTrue, AnswerTellsWhetherExecuted,
                  NothingWithheld, Replied
    <2>6. CASE request.kind # "exec"
      <3>1. reply' = GodModeReply(result, heard /\ text, heard /\ failed, heard /\ cut)
        BY <2>1, <2>6 DEF Answer
      <3>2. /\ reply' \cap WithoutCall = {} /\ "exception" \notin reply'
            /\ "silent" \notin reply'
            /\ "verified" \in reply' =>
                    /\ result
                    /\ pawn[target.controller] = target.pawn
                    /\ god[target.pawn] = request.enabled
                    /\ immortal[target.pawn] = target.immortal
                    /\ heard /\ text => "text" \in reply'
                    /\ heard /\ failed => "capture_failed" \in reply'
            /\ "verified" \notin reply' =>
                    reply' \cap {"false", "text", "capture_failed"} = {}
        BY <2>2, <3>1, GodModeReplyParts
      <3>3. VerifiedIsTrue'
        BY <2>3, <3>2 DEF IInv, CallInv, VerifiedIsTrue, Replied
      <3> QED BY <2>2, <2>3, <2>4, <3>2, <3>3
              DEF IInv, CallInv, AnswerTellsWhetherExecuted, NothingWithheld, Replied
    <2> QED BY <2>5, <2>6
  <1>13. CASE UNCHANGED vars
    BY <1>13, KeptIInv DEF vars, IInv, CallInv
  <1> QED BY <1>1, <1>2, <1>3, <1>4, <1>5, <1>6, <1>7, <1>8, <1>9, <1>10, <1>11, <1>12,
             <1>13, <1>14 DEF Next

\* The initial state satisfies the invariant.
LEMMA InvInit == Init => IInv
  <1> SUFFICES ASSUME Init PROVE IInv
    OBVIOUS
  <1>1. faulted \in BOOLEAN /\ ip_faulted \in BOOLEAN /\ build \in BOOLEAN /\ hooked \in BOOLEAN
    BY Zenon DEF Init
  <1> QED BY <1>1 DEF Init, IInv, CallInv, VerifiedIsTrue, AnswerTellsWhetherExecuted,
                      NothingWithheld, Replied

-----------------------------------------------------------------------------

\* "verified" is true when it is said.
THEOREM VerifiedTheorem == Spec => []VerifiedIsTrue
  <1> QED BY InvInit, InvStep, PTL DEF Spec, IInv

\* An answer tells as much of a call of the handler as it can.
THEOREM ExecutedTheorem == Spec => []AnswerTellsWhetherExecuted
  <1> QED BY InvInit, InvStep, PTL DEF Spec, IInv

\* A failure never looks like a success, and what was said is passed on.
THEOREM WithheldTheorem == Spec => []NothingWithheld
  <1> QED BY InvInit, InvStep, PTL DEF Spec, IInv

\* After a fault nothing of that kind is called again.
THEOREM LatchTheorem == Spec => FaultLatches
  <1> DEFINE Latched ==
        /\ faulted => faulted' /\ (phase' = "native" /\ phase # "native" => request.kind # "exec")
        /\ ip_faulted => ip_faulted' /\ "addresses" \notin reply' \ reply
  <1>1. IInv /\ [Next]_vars => [Latched]_vars
    <2> SUFFICES ASSUME IInv, Next PROVE Latched
      OBVIOUS
    <2> USE DEF Latched, game, history
    <2>0. /\ faulted \in BOOLEAN /\ ip_faulted \in BOOLEAN /\ build \in BOOLEAN
          /\ phase = "ready" /\ request.kind = "exec" => ~ faulted
      BY DEF IInv, CallInv
    <2>1. CASE Shutdown \/ GameStep
      BY <2>1 DEF Shutdown, GameStep
    <2>2. CASE Invoke
      BY <2>0, <2>2 DEF Invoke
    <2>3. CASE Raise
      BY <2>0, <2>3 DEF Raise, Answer
    <2>4. CASE Done
      BY <2>4 DEF Done
    <2>5. ASSUME NEW r \in Requests, Refuse(r) \/ Throw(r) \/ Describe(r) \/ Admit(r)
          PROVE  Latched
      BY <2>5 DEF Refuse, Throw, Unanswerable, Describe, Admit, Answer
    <2>6. ASSUME NEW r \in Requests, ListPlayers(r)
          PROVE  Latched
      BY <2>0, <2>6 DEF ListPlayers, Asked, Answer, Addresses
    <2>7. ASSUME NEW r \in Requests, Weather(r)
          PROVE  Latched
      <3>1. reply' = {"weather"} \/ reply' = {"refused"} \/ reply' = {"exception"}
        BY <2>7 DEF Weather, Answer
      <3> QED BY <2>7, <3>1 DEF Weather, Asked, Answer
    <2>8. ASSUME NEW r \in Requests, Catalogue(r)
          PROVE  Latched
      BY <2>8 DEF Catalogue, Asked, Answer
    <2>9. ASSUME NEW result \in BOOLEAN, NEW talks \in BOOLEAN, NEW failed \in BOOLEAN,
                 NEW cut \in BOOLEAN, Return(result, talks, failed, cut)
          PROVE  Latched
      <3>1. PICK heard \in (IF hooked THEN {TRUE} ELSE BOOLEAN),
                 text \in (IF failed THEN BOOLEAN ELSE {talks}) :
              Answer(IF request.kind = "exec"
                     THEN ExecReply(result, heard /\ text, heard /\ failed, heard /\ cut)
                     ELSE GodModeReply(result, heard /\ text, heard /\ failed, heard /\ cut))
        BY <2>9 DEF Return
      <3>2. heard \in BOOLEAN /\ text \in BOOLEAN
        OBVIOUS
      <3>3. "addresses" \notin reply' /\ phase' = "replied"
        BY <3>1, <3>2, ExecReplyParts, GodModeReplyParts DEF Answer
      <3> QED BY <2>9, <3>3 DEF Return
    <2> QED BY <2>1, <2>2, <2>3, <2>4, <2>5, <2>6, <2>7, <2>8, <2>9 DEF Next
  <1> QED BY <1>1, InvInit, InvStep, PTL DEF Spec, FaultLatches

-----------------------------------------------------------------------------

\* A positive multiple of a positive number is a multiple by a number up to it.
LEMMA PositiveFactor ==
    ASSUME NEW n \in Int, NEW r \in Nat, r >= 1, n * r >= 1
    PROVE  n >= 1 /\ n <= n * r
  <1>1. n <= 0 => n * r <= 0
    OBVIOUS
  <1>2. n \in Nat => n * r >= n
    OBVIOUS
  <1>3. n * r \in Int
    OBVIOUS
  <1> QED BY <1>1, <1>2, <1>3

\* Without a remainder there are whole repetitions.
LEMMA WholeRepetitions ==
    ASSUME NEW x \in Nat \ {0}, NEW r \in Nat \ {0}, x % r = 0
    PROVE  \E n \in 1..x : x = n * r
  <1>1. (x \div r) \in Int
    OBVIOUS
  <1>2. x = (x \div r) * r
    BY Z3
  <1> DEFINE n == x \div r
  <1>3. n \in Int /\ x = n * r /\ r >= 1 /\ x >= 1
    BY <1>1, <1>2
  <1> HIDE DEF n
  <1>4. n >= 1 /\ n <= x
    BY <1>3, PositiveFactor
  <1> QED BY <1>3, <1>4

\* A set with one element has no other.
LEMMA OneElement ==
    ASSUME NEW S, IsFiniteSet(S), Cardinality(S) <= 1, NEW x \in S
    PROVE  S = {x} /\ Cardinality(S) = 1
  <1>1. Cardinality(S) \in Nat /\ Cardinality(S) # 0
    BY FS_CardinalityType, FS_EmptySet
  <1>2. PICK y : S = {y}
    BY <1>1, FS_Singleton
  <1> QED BY <1>1, <1>2

\* The class that is found for a generic command is the only one with its verb,
\* can be executed, and takes the arguments.
LEMMA ResolvedClass ==
    ASSUME NEW r \in Requests, r.kind = "exec", Resolve(r) # {}
    PROVE  \E class \in Registry :
                /\ {other \in Registry : other.verb = r.verb} = {class}
                /\ class.enabled /\ class.shipping /\ class.server /\ class.standard
                /\ \/ r.count \in class.required..class.declared
                   \/ \E n \in 1..r.count :
                        r.count = class.declared + n * class.repeating
  <1> DEFINE named == {other \in Registry : other.verb = r.verb}
  <1>1. PICK class \in named :
            Cardinality(named) = 1 /\ ~ Unsupported(class) /\ ArgumentsFit(class, r.count)
    BY DEF Resolve
  <1>2. class \in Registry /\ IsFiniteSet(named)
    BY RequestsAssumption, FS_Subset
  <1>3. named = {class}
    BY <1>1, <1>2, OneElement
  <1>4. /\ class.required \in Int /\ class.declared \in Int /\ class.repeating \in Int
        /\ r.count \in Nat
    BY <1>2, RegistryAssumption, RequestsAssumption
  <1>5. /\ class.enabled /\ class.shipping /\ class.server /\ class.standard
        /\ 0 <= class.required /\ class.required <= class.declared
        /\ 0 <= class.repeating
    BY <1>1, <1>4 DEF Unsupported
  <1>6. CASE r.count <= class.declared
    <2>1. r.count \in class.required..class.declared
      BY <1>1, <1>4, <1>6 DEF ArgumentsFit
    <2> QED BY <1>2, <1>3, <1>5, <2>1
  <1>7. CASE r.count > class.declared
    <2> DEFINE x == r.count - class.declared
    <2>1. class.repeating # 0 /\ x % class.repeating = 0
      BY <1>1, <1>4, <1>7 DEF ArgumentsFit
    <2>2. x \in Nat \ {0} /\ class.repeating \in Nat \ {0} /\ x <= r.count
      BY <1>4, <1>5, <1>7, <2>1
    <2>3. PICK n \in 1..x : x = n * class.repeating
      BY <2>1, <2>2, WholeRepetitions
    <2>4. n \in 1..r.count /\ r.count = class.declared + n * class.repeating
      BY <1>4, <2>2, <2>3
    <2> QED BY <1>2, <1>3, <1>5, <2>4
  <1> QED BY <1>4, <1>6, <1>7

\* A player who is a target is connected, alone with the SteamID.
LEMMA TargetIsAlone ==
    ASSUME NEW r \in Requests, r.kind \in {"set", "exec"}, NEW c \in TargetsOf(r)
    PROVE  Connected(r.id) = {c}
  <1>1. IsFiniteSet(Connected(r.id))
    BY RequestsAssumption, FS_Subset DEF Connected
  <1>2. c \in Connected(r.id) /\ Cardinality(Connected(r.id)) <= 1
    <2>1. CASE r.kind = "exec"
      <3>1. c \in ConnectedPlayers(r.id)
        BY <2>1 DEF TargetsOf, ExecTargets
      <3> QED BY <2>1, <3>1, RequestsAssumption DEF ConnectedPlayers, Unambiguous
    <2>2. CASE r.kind = "set"
      <3>1. c \in FindPlayer(r.id)
        BY <2>2 DEF TargetsOf, GodModeTargets
      <3> QED BY <3>1 DEF FindPlayer
    <2> QED BY <2>1, <2>2
  <1> QED BY <1>1, <1>2, OneElement

\* A handler is called only for whom and for what it may be called.
THEOREM EligibleTheorem == Spec => []OnlyEligibleExecuted
  <1>1. Init => OnlyEligibleExecuted
    BY DEF Init, OnlyEligibleExecuted
  <1>2. OnlyEligibleExecuted /\ [Next]_vars => OnlyEligibleExecuted'
    <2> SUFFICES ASSUME OnlyEligibleExecuted, [Next]_vars PROVE OnlyEligibleExecuted'
      OBVIOUS
    <2>1. CASE UNCHANGED <<phase, request, target, online, steam, pawn>>
      BY <2>1 DEF OnlyEligibleExecuted
    <2>2. CASE phase' # "ready"
      BY <2>2 DEF OnlyEligibleExecuted
    <2>3. ASSUME NEW r \in Requests, Admit(r)
          PROVE  OnlyEligibleExecuted'
      <3>1. PICK c \in TargetsOf(r) :
                target' = [controller |-> c, pawn |-> pawn[c], immortal |-> immortal[pawn[c]]]
        BY <2>3 DEF Admit
      <3>2. /\ request' = r /\ r.kind \in {"set", "exec"}
            /\ UNCHANGED <<online, steam, pawn>>
        BY <2>3 DEF Admit, game
      <3>3. target'.controller = c /\ target'.pawn = pawn[c]
        BY <3>1
      <3>4. {k \in Controllers : online[k] /\ steam[k] = r.id} = {c}
        BY <3>2, TargetIsAlone DEF Connected
      <3>5. r.kind = "exec" => Resolve(r) # {}
        BY <3>1 DEF TargetsOf, ExecTargets, ExecAllowed
      <3> QED BY <3>2, <3>3, <3>4, <3>5, ResolvedClass DEF OnlyEligibleExecuted
    <2>4. CASE Shutdown
      BY <2>1, <2>4 DEF Shutdown, game
    <2>5. CASE GameStep
      BY <2>2, <2>5 DEF GameStep
    <2>6. CASE Invoke \/ Raise \/ Done
      BY <2>2, <2>6 DEF Invoke, Raise, Done, Answer
    <2>7. ASSUME NEW r \in Requests,
                 \/ Refuse(r) \/ Throw(r) \/ Describe(r)
                 \/ ListPlayers(r) \/ Weather(r) \/ Catalogue(r)
          PROVE  phase' = "replied"
      BY <2>7 DEF Refuse, Throw, Unanswerable, Describe, ListPlayers, Weather, Catalogue, Answer
    <2>8. ASSUME NEW result \in BOOLEAN, NEW talks \in BOOLEAN, NEW failed \in BOOLEAN,
                 NEW cut \in BOOLEAN, Return(result, talks, failed, cut)
          PROVE  phase' = "replied"
      BY <2>8 DEF Return, Answer
    <2> QED BY <2>1, <2>2, <2>3, <2>4, <2>5, <2>6, <2>7, <2>8 DEF Next, vars
  <1> QED BY <1>1, <1>2, PTL DEF Spec

=============================================================================
