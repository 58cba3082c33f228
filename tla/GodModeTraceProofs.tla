------------------------- MODULE GodModeTraceProofs -------------------------
(***************************************************************************)
(* The GodMode trace, for any threads, depth of calls, window, number of   *)
(* armings and failing writes, and the sizes the code has.                 *)
(***************************************************************************)
EXTENDS GodModeTrace, TLAPS

Entries == Records \cup [arm : 0..MaxArmings]

\* A log up to the n-th arming, in which no arming is behind a later one.
LogOf(entries, n) ==
    /\ entries \in Seq(Entries)
    /\ \A i \in DOMAIN entries :
        IF IsRecord(entries[i]) THEN entries[i].arming <= n ELSE entries[i].arm <= n
    /\ \A i, j \in DOMAIN entries :
        i < j /\ ~ IsRecord(entries[i]) /\ IsRecord(entries[j]) =>
            entries[i].arm <= entries[j].arming

TypeInv ==
    /\ active \in [Threads -> Records \cup {NoRecord}]
    /\ stack \in [Threads -> Seq(Records \cup {NoRecord})]
    /\ pending \in Seq(Records)
    /\ arming \in 0..MaxArmings
    /\ calls \in 0..MaxCalls /\ begun = calls
    /\ deadline \in Nat /\ now \in Nat
    /\ interface_events \in [Threads -> Nat] /\ described \in [Threads -> Nat]

\* At most one call is captured, on the game thread and under the arming that
\* is in force, and it is the one being described.
FrameInv ==
    \A t \in Threads : \A depth \in Captured(t) :
        /\ t = Game
        /\ Captured(t) = {depth}
        /\ stack[t][depth] = active[t] /\ active[t].arming = arming

\* Where a call left by an exception is unwound, no other is described.
UnwindInv ==
    Unwinds => \A t \in Threads : active[t] # NoRecord => Captured(t) # {}

\* What waits to be saved was counted, and so was the call in progress.
PendingInv ==
    /\ \A i \in DOMAIN pending : pending[i].arming = arming
    /\ Len(pending) <= calls
    /\ Captured(Game) # {} => Len(pending) + 1 <= calls

LogInv ==
    /\ LogOf(log, arming)
    /\ NoRecordLost
    /\ arming # 0 => ArmEntry(arming) \in Range(log)
    /\ deadline # 0 => arming # 0

EventInv ==
    \A t \in Threads :
        described[t] = IF interface_events[t] < MaxEvents THEN interface_events[t] ELSE MaxEvents

IInv == TypeInv /\ FrameInv /\ UnwindInv /\ PendingInv /\ LogInv /\ EventInv

\* What is assumed of the constants, each by itself.
LEMMA Sizes ==
    /\ Game \in Threads
    /\ MaxCalls \in Nat /\ MaxCalls > 0 /\ MaxEvents \in Nat /\ MaxEvents > 0
    /\ Window \in Nat /\ MaxArmings \in Nat
  BY TraceAssumption

-----------------------------------------------------------------------------
(* Sequences and logs *)

\* What is in a sequence and its continuation is in one of them.
LEMMA RangeConcat ==
    ASSUME NEW s \in Seq(Entries), NEW t \in Seq(Entries)
    PROVE  Range(s \o t) = Range(s) \cup Range(t)
  <1>1. \A x \in Range(s \o t) : x \in Range(s) \cup Range(t)
    BY DEF Range
  <1>2. \A i \in DOMAIN s : s[i] = (s \o t)[i] /\ i \in DOMAIN (s \o t)
    OBVIOUS
  <1>3. \A i \in DOMAIN t : t[i] = (s \o t)[i + Len(s)] /\ i + Len(s) \in DOMAIN (s \o t)
    OBVIOUS
  <1>4. \A x \in Range(s) : x \in Range(s \o t)
    BY <1>2 DEF Range
  <1>5. \A x \in Range(t) : x \in Range(s \o t)
    BY <1>3 DEF Range
  <1> QED BY <1>1, <1>4, <1>5

\* An ARM line is no description.
LEMMA ArmIsNoRecord == \A n : ArmEntry(n) \notin Records
  BY DEF ArmEntry, Records

\* A log stays in order when what follows is of its last arming or a later one.
LEMMA LogConcat ==
    ASSUME NEW n \in Nat, NEW m \in Nat, n <= m,
           NEW s, LogOf(s, n), NEW t, LogOf(t, m),
           \A j \in DOMAIN t : IsRecord(t[j]) => n <= t[j].arming
    PROVE  LogOf(s \o t, m)
  <1> DEFINE u == s \o t
  <1>1. /\ s \in Seq(Entries) /\ t \in Seq(Entries) /\ u \in Seq(Entries)
        /\ \A i \in DOMAIN u : \/ i \in DOMAIN s /\ u[i] = s[i]
                               \/ /\ i - Len(s) \in DOMAIN t /\ u[i] = t[i - Len(s)]
                                  /\ i > Len(s)
        /\ DOMAIN s = 1..Len(s) /\ Len(s) \in Nat /\ DOMAIN u \subseteq Nat
    BY DEF LogOf
  <1>2. \A e \in Entries : /\ IsRecord(e) => e.arming \in Nat
                           /\ ~ IsRecord(e) => e.arm \in Nat
    BY DEF Entries, IsRecord, Records
  <1>3. \A i \in DOMAIN s : s[i] \in Entries
    BY <1>1
  <1>4. \A i \in DOMAIN t : t[i] \in Entries
    BY <1>1
  <1> HIDE DEF u
  <1>5. ASSUME NEW i \in DOMAIN u
        PROVE  IF IsRecord(u[i]) THEN u[i].arming <= m ELSE u[i].arm <= m
    BY <1>1, <1>2, <1>3, <1>4 DEF LogOf
  <1>6. ASSUME NEW i \in DOMAIN u, NEW j \in DOMAIN u,
               i < j, ~ IsRecord(u[i]), IsRecord(u[j])
        PROVE  u[i].arm <= u[j].arming
    <2>1. CASE i \in DOMAIN s /\ j \in DOMAIN s /\ u[i] = s[i] /\ u[j] = s[j]
      BY <1>6, <2>1 DEF LogOf
    <2>2. CASE /\ i \in DOMAIN s /\ u[i] = s[i]
               /\ j - Len(s) \in DOMAIN t /\ u[j] = t[j - Len(s)]
      <3>1. u[i].arm <= n /\ n <= u[j].arming
        BY <1>6, <2>2 DEF LogOf
      <3> QED BY <1>2, <1>3, <1>4, <1>6, <2>2, <3>1
    <2>3. CASE /\ i - Len(s) \in DOMAIN t /\ u[i] = t[i - Len(s)]
               /\ j - Len(s) \in DOMAIN t /\ u[j] = t[j - Len(s)]
      <3>1. i - Len(s) < j - Len(s)
        BY <1>1, <1>6
      <3> QED BY <1>6, <2>3, <3>1 DEF LogOf
    <2> QED BY <1>1, <1>6, <2>1, <2>2, <2>3
  <1> QED BY <1>1, <1>5, <1>6 DEF LogOf, u

\* What is saved: descriptions of the arming that is in force.
LEMMA RecordsAreLog ==
    ASSUME NEW n \in Nat, NEW records \in Seq(Records),
           \A i \in DOMAIN records : records[i].arming = n
    PROVE  LogOf(records, n)
  <1>1. records \in Seq(Entries) /\ \A i \in DOMAIN records : IsRecord(records[i])
    BY DEF Entries, IsRecord
  <1>2. \A i \in DOMAIN records : records[i].arming <= n
    OBVIOUS
  <1> QED BY <1>1, <1>2 DEF LogOf

\* A line of another kind.
LEMMA LineIsLog ==
    ASSUME NEW n \in 0..MaxArmings, NEW m \in 0..n
    PROVE  LET rest == <<ArmEntry(m)>>
           IN  LogOf(rest, n) /\ \A i \in DOMAIN rest : ~ IsRecord(rest[i])
  <1>1. MaxArmings \in Nat
    BY Sizes
  <1>2. ArmEntry(m) \in Entries /\ ~ IsRecord(ArmEntry(m)) /\ ArmEntry(m).arm <= n
    BY <1>1, ArmIsNoRecord DEF Entries, ArmEntry, IsRecord
  <1> DEFINE e == ArmEntry(m)
  <1> HIDE DEF e
  <1>3. LogOf(<<e>>, n) /\ \A i \in DOMAIN <<e>> : ~ IsRecord(<<e>>[i])
    BY <1>2 DEF LogOf, e
  <1> QED BY <1>3 DEF e

\* What a stop may leave behind the descriptions.
LEMMA RestIsLog ==
    ASSUME NEW n \in 0..MaxArmings, NEW rest \in {<< >>, <<OtherEntry>>}
    PROVE  LogOf(rest, n) /\ \A i \in DOMAIN rest : ~ IsRecord(rest[i])
  <1>1. LogOf(<< >>, n)
    BY DEF LogOf
  <1>2. 0 \in 0..n /\ OtherEntry = ArmEntry(0)
    BY Sizes DEF OtherEntry, ArmEntry
  <1>3. CASE rest = <<ArmEntry(0)>>
    BY <1>2, <1>3, LineIsLog
  <1>4. CASE rest = << >>
    BY <1>1, <1>4
  <1> QED BY <1>2, <1>3, <1>4

-----------------------------------------------------------------------------
(* Calls *)

\* A call begins on top of the others.
LEMMA Pushed ==
    ASSUME TypeInv, NEW t \in Threads, NEW frame \in Records \cup {NoRecord},
           stack' = [stack EXCEPT ![t] = Append(@, frame)]
    PROVE  /\ stack' \in [Threads -> Seq(Records \cup {NoRecord})]
           /\ \A u \in Threads : u # t => stack'[u] = stack[u] /\ Captured(u)' = Captured(u)
           /\ \A depth \in Captured(t) : stack'[t][depth] = stack[t][depth]
           /\ frame = NoRecord => Captured(t)' = Captured(t)
           /\ frame # NoRecord =>
                \E depth \in DOMAIN stack'[t] :
                    Captured(t)' = Captured(t) \cup {depth} /\ stack'[t][depth] = frame
  <1>1. /\ stack'[t] = Append(stack[t], frame) /\ stack[t] \in Seq(Records \cup {NoRecord})
        /\ \A u \in Threads : u # t => stack'[u] = stack[u]
        /\ stack' \in [Threads -> Seq(Records \cup {NoRecord})]
    BY DEF TypeInv
  <1> DEFINE top == Len(stack[t]) + 1
  <1>2. /\ DOMAIN stack'[t] = DOMAIN stack[t] \cup {top}
        /\ top \notin DOMAIN stack[t]
        /\ stack'[t][top] = frame
        /\ \A depth \in DOMAIN stack[t] : stack'[t][depth] = stack[t][depth]
    BY <1>1
  <1> HIDE DEF top
  <1> QED BY <1>1, <1>2 DEF Captured

\* The last call to begin is the first to end.
LEMMA Popped ==
    ASSUME TypeInv, NEW t \in Threads, stack[t] # << >>,
           stack' = [stack EXCEPT ![t] = Front(@)]
    PROVE  /\ stack' \in [Threads -> Seq(Records \cup {NoRecord})]
           /\ \A u \in Threads : u # t => stack'[u] = stack[u] /\ Captured(u)' = Captured(u)
           /\ \A depth \in Captured(t)' : stack'[t][depth] = stack[t][depth]
           /\ Last(stack[t]) = NoRecord => Captured(t)' = Captured(t)
           /\ Last(stack[t]) # NoRecord =>
                \E depth \in Captured(t) :
                    Captured(t)' = Captured(t) \ {depth} /\ stack[t][depth] = Last(stack[t])
  <1>1. /\ stack'[t] = Front(stack[t]) /\ stack[t] \in Seq(Records \cup {NoRecord})
        /\ \A u \in Threads : u # t => stack'[u] = stack[u]
    BY DEF TypeInv
  <1>2. stack'[t] \in Seq(Records \cup {NoRecord})
    BY <1>1 DEF Front
  <1>3. stack' \in [Threads -> Seq(Records \cup {NoRecord})]
    BY <1>2 DEF TypeInv
  <1> DEFINE top == Len(stack[t])
  <1>4. /\ DOMAIN stack'[t] = DOMAIN stack[t] \ {top}
        /\ top \in DOMAIN stack[t] /\ Last(stack[t]) = stack[t][top]
        /\ \A depth \in DOMAIN stack'[t] : stack'[t][depth] = stack[t][depth]
    BY <1>1 DEF Front, Last
  <1> HIDE DEF top
  <1> QED BY <1>1, <1>3, <1>4 DEF Captured

-----------------------------------------------------------------------------
(* Saving *)

\* Descriptions of this arming are written, and a line behind them.
LEMMA LogGrows ==
    ASSUME TypeInv, LogInv, NEW records \in Seq(Records),
           \A i \in DOMAIN records : records[i].arming = arming,
           NEW n \in arming..MaxArmings, NEW rest, LogOf(rest, n),
           \A i \in DOMAIN rest : ~ IsRecord(rest[i]),
           log' = log \o records \o rest
    PROVE  /\ LogOf(log', n)
           /\ Range(log') = Range(log) \cup Range(records) \cup Range(rest)
  <1>1. arming \in Nat /\ n \in Nat /\ arming <= n
    BY Sizes DEF TypeInv
  <1>2. LogOf(records, arming)
    BY <1>1, RecordsAreLog
  <1> DEFINE before == log \o records
  <1>3. LogOf(log, arming) /\ \A j \in DOMAIN records : arming <= records[j].arming
    BY <1>1 DEF LogInv
  <1>4. LogOf(before, arming)
    BY <1>1, <1>2, <1>3, LogConcat
  <1>5. /\ log \in Seq(Entries) /\ records \in Seq(Entries) /\ rest \in Seq(Entries)
        /\ before \in Seq(Entries)
    BY <1>2, <1>3, <1>4 DEF LogOf
  <1>6. Range(before) = Range(log) \cup Range(records)
    BY <1>5, RangeConcat
  <1>7. log' = before \o rest
    OBVIOUS
  <1> HIDE DEF before
  <1>8. LogOf(log', n)
    BY <1>1, <1>4, <1>7, LogConcat
  <1>9. Range(log') = Range(before) \cup Range(rest)
    BY <1>5, <1>7, RangeConcat
  <1> QED BY <1>6, <1>8, <1>9

\* The beginning of what waits.
LEMMA Beginning ==
    ASSUME TypeInv, PendingInv, NEW n \in 0..Len(pending)
    PROVE  /\ SubSeq(pending, 1, n) \in Seq(Records)
           /\ \A i \in DOMAIN SubSeq(pending, 1, n) : SubSeq(pending, 1, n)[i].arming = arming
  BY DEF TypeInv, PendingInv

\* Everything is written, perhaps with a line that is no description.
LEMMA AllSaved ==
    ASSUME TypeInv, PendingInv, LogInv, NEW rest \in {<< >>, <<OtherEntry>>},
           log' = log \o pending \o rest, UNCHANGED <<arming, finished>>
    PROVE  LogOf(log', arming) /\ NoRecordLost' /\ Range(log) \subseteq Range(log')
  <1>1. arming \in 0..MaxArmings /\ arming \in arming..MaxArmings
    BY Sizes DEF TypeInv
  <1>2. LogOf(rest, arming) /\ \A i \in DOMAIN rest : ~ IsRecord(rest[i])
    BY <1>1, RestIsLog
  <1>3. /\ LogOf(log', arming)
        /\ Range(log') = Range(log) \cup Range(pending) \cup Range(rest)
    BY <1>1, <1>2, LogGrows DEF TypeInv, PendingInv
  <1> QED BY <1>3 DEF LogInv, NoRecordLost

\* A part is written, and everything is kept.
LEMMA PartSaved ==
    ASSUME TypeInv, PendingInv, LogInv, NEW rest \in {<< >>, <<OtherEntry>>},
           NEW n \in 0..Len(pending),
           log' = log \o SubSeq(pending, 1, n) \o rest, UNCHANGED <<arming, finished, pending>>
    PROVE  LogOf(log', arming) /\ NoRecordLost' /\ Range(log) \subseteq Range(log')
  <1>1. arming \in 0..MaxArmings /\ arming \in arming..MaxArmings
    BY Sizes DEF TypeInv
  <1>2. LogOf(rest, arming) /\ \A i \in DOMAIN rest : ~ IsRecord(rest[i])
    BY <1>1, RestIsLog
  <1> DEFINE records == SubSeq(pending, 1, n)
  <1>3. records \in Seq(Records) /\ \A i \in DOMAIN records : records[i].arming = arming
    BY Beginning
  <1> HIDE DEF records
  <1>4. log' = log \o records \o rest
    BY DEF records
  <1>5. /\ LogOf(log', arming)
        /\ Range(log') = Range(log) \cup Range(records) \cup Range(rest)
    BY <1>1, <1>2, <1>3, <1>4, LogGrows
  <1> QED BY <1>5 DEF LogInv, NoRecordLost

\* tick keeps what it cannot write.
LEMMA FlushKeeps ==
    ASSUME TypeInv, PendingInv, LogInv, Flush(log, pending), UNCHANGED <<arming, finished>>
    PROVE  /\ LogOf(log', arming) /\ NoRecordLost' /\ Range(log) \subseteq Range(log')
           /\ pending' \in {pending, << >>}
  <1>1. CASE log' = log \o pending /\ pending' = << >>
    <2>1. log' = log \o pending \o << >>
      BY <1>1 DEF TypeInv, LogInv, LogOf, Entries
    <2> QED BY <1>1, <2>1, AllSaved
  <1>2. CASE pending' = pending /\ \E n \in 0..Len(pending) : log' = log \o SubSeq(pending, 1, n)
    <2>1. PICK n \in 0..Len(pending) : log' = log \o SubSeq(pending, 1, n)
      BY <1>2
    <2>2. log' = log \o SubSeq(pending, 1, n) \o << >>
      BY <2>1, Beginning DEF LogInv, LogOf, Entries
    <2> QED BY <1>2, <2>2, PartSaved
  <1> QED BY <1>1, <1>2 DEF Flush

-----------------------------------------------------------------------------
(* The steps *)

\* A step that saves, and does nothing but close the window.
LEMMA SavedStep ==
    ASSUME IInv, LogOf(log', arming), NoRecordLost', Range(log) \subseteq Range(log'),
           pending' \in {pending, << >>}, deadline' \in {0, deadline},
           UNCHANGED <<now, calls, running, history>>
    PROVE  IInv'
  <1> USE DEF IInv
  <1>0. UNCHANGED <<now, calls, active, interface_events, described, stack, arming, begun,
                    finished>>
    BY DEF running, events, history
  <1>1. TypeInv'
    <2>1. deadline' \in Nat
      BY DEF TypeInv
    <2>2. pending' \in Seq(Records)
      <3>1. << >> \in Seq(Records) /\ pending \in Seq(Records)
        BY DEF TypeInv
      <3> QED BY <3>1
    <2> QED BY <1>0, <2>1, <2>2 DEF TypeInv
  <1>2. FrameInv' /\ UnwindInv' /\ EventInv'
    BY <1>0 DEF FrameInv, UnwindInv, EventInv, Captured
  <1>3. PendingInv'
    <2>1. Captured(Game)' = Captured(Game)
      BY <1>0 DEF Captured
    <2>2. Len(pending) \in Nat /\ calls \in Nat
      BY DEF TypeInv
    <2>3. CASE pending' = pending
      BY <1>0, <2>1, <2>3 DEF PendingInv
    <2>4. CASE pending' = << >>
      BY <1>0, <2>1, <2>2, <2>4 DEF PendingInv
    <2> QED BY <2>3, <2>4
  <1>4. LogInv'
    BY <1>0 DEF LogInv
  <1> QED BY <1>1, <1>2, <1>3, <1>4

\* Ticks and the commands that do not arm the trace.
LEMMA SavingSteps ==
    ASSUME IInv, Tick \/ StartUnsaved \/ StartUnwritten \/ Stop \/ Shutdown
    PROVE  IInv'
  <1> USE DEF IInv, Expire
  <1>1. CASE Tick
    BY <1>1, FlushKeeps, SavedStep DEF Tick, history
  <1>2. CASE StartUnsaved
    BY <1>2, FlushKeeps, SavedStep DEF StartUnsaved, history
  <1>3. CASE StartUnwritten
    <2>1. PICK rest \in {<< >>, <<OtherEntry>>} : log' = log \o pending \o rest
      BY <1>3 DEF StartUnwritten
    <2> QED BY <1>3, <2>1, AllSaved, SavedStep DEF StartUnwritten, history
  <1>4. CASE Stop
    <2>1. PICK rest \in {<< >>, <<OtherEntry>>} :
            \/ log' = log \o pending \o rest /\ pending' = << >>
            \/ /\ \E n \in 0..Len(pending) : log' = log \o SubSeq(pending, 1, n) \o rest
               /\ UNCHANGED pending
      BY <1>4 DEF Stop
    <2>2. deadline' = 0 /\ UNCHANGED <<now, calls, running, history>>
      BY <1>4 DEF Stop
    <2>3. CASE log' = log \o pending \o rest /\ pending' = << >>
      BY <2>2, <2>3, AllSaved, SavedStep DEF history
    <2>4. CASE /\ \E n \in 0..Len(pending) : log' = log \o SubSeq(pending, 1, n) \o rest
               /\ UNCHANGED pending
      BY <2>2, <2>4, PartSaved, SavedStep DEF history
    <2> QED BY <2>1, <2>3, <2>4
  <1>5. CASE Shutdown
    BY <1>5, FlushKeeps, SavedStep DEF Shutdown, history
  <1> QED BY <1>1, <1>2, <1>3, <1>4, <1>5

\* A new window: no call of the game thread is in progress, and everything of the
\* window before is in the log.
LEMMA ArmingStep ==
    ASSUME IInv, StartArms
    PROVE  IInv'
  <1> DEFINE n == arming + 1
  <1> USE DEF IInv, running, events
  <1>0. arming \in 0..MaxArmings /\ arming < MaxArmings /\ arming' = arming + 1
    BY DEF StartArms, TypeInv
  <1>1. /\ arming \in Nat /\ n \in arming..MaxArmings /\ n \in 0..MaxArmings /\ n \in 0..n
        /\ arming' = n /\ n \in Nat /\ n # 0
    BY <1>0, Sizes
  <1>2. LogOf(<<ArmEntry(n)>>, n) /\ \A i \in DOMAIN <<ArmEntry(n)>> : ~ IsRecord(<<ArmEntry(n)>>[i])
    BY <1>1, LineIsLog
  <1>3. /\ LogOf(log', n)
        /\ Range(log') = Range(log) \cup Range(pending) \cup Range(<<ArmEntry(n)>>)
    BY <1>1, <1>2, LogGrows DEF StartArms, TypeInv, PendingInv
  <1>4. ArmEntry(n) \in Range(<<ArmEntry(n)>>)
    <2>1. <<ArmEntry(n)>>[1] = ArmEntry(n) /\ 1 \in DOMAIN <<ArmEntry(n)>>
      OBVIOUS
    <2> QED BY <2>1 DEF Range
  <1>5. TypeInv'
    <2>1. /\ calls' \in 0..MaxCalls /\ begun' = calls' /\ deadline' \in Nat
          /\ pending' \in Seq(Records)
      BY Sizes DEF StartArms, TypeInv
    <2> QED BY <1>1, <2>1 DEF StartArms, TypeInv
  <1>6. \A t \in Threads : Captured(t)' = Captured(t) /\ Captured(t) = {}
    <2>1. Captured(Game) = {}
      BY DEF StartArms, AtTop, Captured
    <2> QED BY <2>1 DEF FrameInv, StartArms, Captured
  <1>7. FrameInv' /\ UnwindInv' /\ EventInv'
    BY <1>6 DEF FrameInv, UnwindInv, EventInv, StartArms
  <1>8. PendingInv'
    BY <1>6, Sizes DEF PendingInv, StartArms
  <1>9. LogInv'
    BY <1>1, <1>3, <1>4 DEF LogInv, NoRecordLost, StartArms
  <1> QED BY <1>5, <1>7, <1>8, <1>9

\* A call is passed on, or returns to where it was passed on.
LEMMA PassStep ==
    ASSUME IInv, NEW t \in Threads, PassThrough(t) \/ PassBack(t)
    PROVE  IInv'
  <1> USE DEF IInv
  <1>1. /\ UNCHANGED <<now, deadline, calls, pending, active, interface_events, described,
                       log, arming, begun, finished>>
        /\ stack' \in [Threads -> Seq(Records \cup {NoRecord})]
        /\ \A u \in Threads : Captured(u)' = Captured(u)
        /\ \A u \in Threads : \A depth \in Captured(u) : stack'[u][depth] = stack[u][depth]
    <2>1. CASE PassThrough(t)
      <3>1. stack' = [stack EXCEPT ![t] = Append(@, NoRecord)]
        BY <2>1 DEF PassThrough
      <3>2. /\ stack' \in [Threads -> Seq(Records \cup {NoRecord})]
            /\ \A u \in Threads : u # t => stack'[u] = stack[u] /\ Captured(u)' = Captured(u)
            /\ \A depth \in Captured(t) : stack'[t][depth] = stack[t][depth]
            /\ Captured(t)' = Captured(t)
        BY <3>1, Pushed
      <3> QED BY <2>1, <3>2 DEF PassThrough, events, history
    <2>2. CASE PassBack(t)
      <3>1. /\ stack[t] # << >> /\ Last(stack[t]) = NoRecord
            /\ stack' = [stack EXCEPT ![t] = Front(@)]
        BY <2>2 DEF PassBack
      <3>2. /\ stack' \in [Threads -> Seq(Records \cup {NoRecord})]
            /\ \A u \in Threads : u # t => stack'[u] = stack[u] /\ Captured(u)' = Captured(u)
            /\ \A depth \in Captured(t)' : stack'[t][depth] = stack[t][depth]
            /\ Captured(t)' = Captured(t)
        BY <3>1, Popped
      <3> QED BY <2>2, <3>2 DEF PassBack, events, history
    <2> QED BY <2>1, <2>2
  <1>2. TypeInv'
    BY <1>1 DEF TypeInv
  <1>3. FrameInv' /\ UnwindInv' /\ EventInv'
    BY <1>1 DEF FrameInv, UnwindInv, EventInv
  <1>4. PendingInv' /\ LogInv'
    BY <1>1, Sizes DEF PendingInv, LogInv, NoRecordLost
  <1> QED BY <1>2, <1>3, <1>4

\* A call is captured: nothing else is described, and it is counted at once.
LEMMA CaptureStep ==
    ASSUME IInv, NEW t \in Threads, Capture(t)
    PROVE  IInv'
  <1> USE DEF IInv
  <1>1. /\ t = Game /\ active[t] = NoRecord /\ calls < MaxCalls /\ deadline # 0
        /\ arming \in 1..MaxArmings /\ calls + 1 \in 1..MaxCalls
    BY Sizes DEF Capture, Captures, Armed, LogInv, TypeInv
  <1>2. PICK record \in Records :
            /\ record.arming = arming
            /\ calls' = calls + 1 /\ begun' = begun + 1
            /\ active' = [active EXCEPT ![t] = record]
            /\ stack' = [stack EXCEPT ![t] = Append(@, record)]
            /\ interface_events' = [interface_events EXCEPT ![t] = 0]
            /\ described' = [described EXCEPT ![t] = 0]
            /\ UNCHANGED <<now, deadline, pending, log, arming, finished>>
    <2>1. [arming |-> arming, call |-> calls + 1] \in Records
      BY <1>1 DEF Records
    <2> QED BY <2>1 DEF Capture
  <1>3. Captured(t) = {}
    BY <1>1 DEF FrameInv, Captured
  <1>4. /\ stack' \in [Threads -> Seq(Records \cup {NoRecord})]
        /\ \A u \in Threads : u # t => stack'[u] = stack[u] /\ Captured(u)' = Captured(u)
        /\ record = NoRecord => Captured(t)' = {}
        /\ record # NoRecord =>
            \E depth \in DOMAIN stack'[t] : Captured(t)' = {depth} /\ stack'[t][depth] = record
    <2>1. /\ stack' \in [Threads -> Seq(Records \cup {NoRecord})]
          /\ \A u \in Threads : u # t => stack'[u] = stack[u] /\ Captured(u)' = Captured(u)
          /\ record = NoRecord => Captured(t)' = Captured(t)
          /\ record # NoRecord =>
                \E depth \in DOMAIN stack'[t] :
                    Captured(t)' = Captured(t) \cup {depth} /\ stack'[t][depth] = record
      BY <1>2, Pushed
    <2>2. \A depth : Captured(t) \cup {depth} = {depth}
      BY <1>3
    <2> QED BY <1>3, <2>1, <2>2
  <1>5. /\ active' \in [Threads -> Records \cup {NoRecord}] /\ active'[t] = record
        /\ \A u \in Threads : u # t => active'[u] = active[u]
    BY <1>2 DEF TypeInv
  <1>6. TypeInv'
    <2>1. calls' \in 0..MaxCalls /\ begun' = calls'
      BY <1>1, <1>2 DEF TypeInv
    <2>2. interface_events' \in [Threads -> Nat] /\ described' \in [Threads -> Nat]
      BY <1>2 DEF TypeInv
    <2> QED BY <1>1, <1>2, <1>4, <1>5, <2>1, <2>2 DEF TypeInv
  <1>7. FrameInv'
    <2> SUFFICES ASSUME NEW u \in Threads, NEW depth \in Captured(u)'
                 PROVE  /\ u = Game /\ Captured(u)' = {depth}
                        /\ stack'[u][depth] = active'[u] /\ active'[u].arming = arming'
      BY DEF FrameInv
    <2>1. CASE u = t
      BY <1>1, <1>2, <1>4, <1>5, <2>1
    <2>2. CASE u # t
      BY <1>2, <1>4, <1>5, <2>2 DEF FrameInv
    <2> QED BY <2>1, <2>2
  <1>8. UnwindInv'
    <2> SUFFICES ASSUME Unwinds, NEW u \in Threads, active'[u] # NoRecord
                 PROVE  Captured(u)' # {}
      BY DEF UnwindInv
    <2>1. CASE u = t
      BY <1>4, <1>5, <2>1
    <2>2. CASE u # t
      BY <1>4, <1>5, <2>2 DEF UnwindInv
    <2> QED BY <2>1, <2>2
  <1>9. EventInv'
    <2>1. MaxEvents \in Nat /\ 0 < MaxEvents
      BY Sizes
    <2>2. \A u \in Threads : /\ described'[u] = IF u = t THEN 0 ELSE described[u]
                             /\ interface_events'[u] = IF u = t THEN 0 ELSE interface_events[u]
      BY <1>2 DEF TypeInv
    <2> QED BY <2>1, <2>2 DEF EventInv
  <1>10. PendingInv'
    <2>1. Len(pending) \in Nat /\ calls \in Nat
      BY DEF TypeInv
    <2> QED BY <1>2, <2>1 DEF PendingInv
  <1>11. LogInv'
    BY <1>2 DEF LogInv, NoRecordLost
  <1> QED BY <1>6, <1>7, <1>8, <1>9, <1>10, <1>11

\* A lookup is counted, and described if it is one of the first.
LEMMA ObserveStep ==
    ASSUME IInv, NEW t \in Threads, ObserveInterface(t)
    PROVE  IInv'
  <1> USE DEF IInv
  <1>1. /\ interface_events' = [interface_events EXCEPT ![t] = @ + 1]
        /\ described' = IF interface_events[t] < MaxEvents
                        THEN [described EXCEPT ![t] = @ + 1] ELSE described
        /\ UNCHANGED <<now, deadline, calls, pending, active, stack, log, arming, begun, finished>>
    BY DEF ObserveInterface, history
  <1>2. TypeInv'
    <2>1. interface_events' \in [Threads -> Nat]
      BY <1>1 DEF TypeInv
    <2>2. described' \in [Threads -> Nat]
      BY <1>1 DEF TypeInv
    <2> QED BY <1>1, <2>1, <2>2 DEF TypeInv
  <1>3. EventInv'
    <2>1. MaxEvents \in Nat
      BY Sizes
    <2> QED BY <1>1, <2>1 DEF EventInv, TypeInv
  <1>4. FrameInv' /\ UnwindInv' /\ PendingInv' /\ LogInv'
    BY <1>1 DEF FrameInv, UnwindInv, PendingInv, LogInv, NoRecordLost, Captured
  <1> QED BY <1>2, <1>3, <1>4

\* A call that ends was the one that is captured, or none.
LEMMA EndOfCapture ==
    ASSUME IInv, NEW t \in Threads, stack[t] # << >>, Last(stack[t]) # NoRecord,
           stack' = [stack EXCEPT ![t] = Front(@)]
    PROVE  /\ stack' \in [Threads -> Seq(Records \cup {NoRecord})]
           /\ \A u \in Threads : Captured(u)' = {}
           /\ \A u \in Threads : u # t => Captured(u) = {}
           /\ t = Game /\ Captured(Game) # {}
           /\ Last(stack[t]) \in Records /\ Last(stack[t]).arming = arming
  <1> USE DEF IInv
  <1>1. /\ stack' \in [Threads -> Seq(Records \cup {NoRecord})]
        /\ \A u \in Threads : u # t => Captured(u)' = Captured(u)
        /\ \E depth \in Captured(t) :
            Captured(t)' = Captured(t) \ {depth} /\ stack[t][depth] = Last(stack[t])
    BY Popped
  <1>2. PICK depth \in Captured(t) :
            Captured(t)' = Captured(t) \ {depth} /\ stack[t][depth] = Last(stack[t])
    BY <1>1
  <1>3. t = Game /\ Captured(t) = {depth} /\ Last(stack[t]) = active[t] /\ active[t].arming = arming
    BY <1>2 DEF FrameInv
  <1>4. \A u \in Threads : u # t => Captured(u) = {}
    BY <1>3 DEF FrameInv
  <1>5. active[t] \in Records
    BY <1>3 DEF TypeInv
  <1> QED BY <1>1, <1>2, <1>3, <1>4, <1>5

\* A captured call returns, and what describes it waits to be saved.
LEMMA FinishStep ==
    ASSUME IInv, NEW t \in Threads, Finish(t)
    PROVE  IInv'
  <1> USE DEF IInv
  <1>1. /\ stack[t] # << >> /\ Last(stack[t]) # NoRecord
        /\ stack' = [stack EXCEPT ![t] = Front(@)]
        /\ active' = [active EXCEPT ![t] = NoRecord]
        /\ \/ pending' = Append(pending, Last(stack[t])) /\ finished' = finished \cup {Last(stack[t])}
           \/ UNCHANGED <<pending, finished>>
        /\ deadline' \in {0, deadline}
        /\ UNCHANGED <<now, calls, interface_events, described, log, arming, begun>>
    BY DEF Finish, events
  <1>2. /\ stack' \in [Threads -> Seq(Records \cup {NoRecord})]
        /\ \A u \in Threads : Captured(u)' = {}
        /\ \A u \in Threads : u # t => Captured(u) = {}
        /\ t = Game /\ Captured(Game) # {}
        /\ Last(stack[t]) \in Records /\ Last(stack[t]).arming = arming
    BY <1>1, EndOfCapture
  <1>3. PICK record \in Records : record = Last(stack[t]) /\ record.arming = arming
    BY <1>2
  <1>4. \/ pending' = Append(pending, record) /\ finished' = finished \cup {record}
        \/ UNCHANGED <<pending, finished>>
    BY <1>1, <1>3
  <1>5. /\ pending \in Seq(Records) /\ Len(pending) \in Nat /\ calls \in Nat
        /\ Len(pending) + 1 <= calls
    BY <1>2 DEF TypeInv, PendingInv
  <1>6. /\ pending' \in Seq(Records) /\ Len(pending') <= calls
        /\ \A i \in DOMAIN pending' : pending'[i].arming = arming
        /\ finished' \subseteq Range(pending') \cup Range(log)
    <2>1. CASE pending' = Append(pending, record) /\ finished' = finished \cup {record}
      <3>1. /\ pending' \in Seq(Records) /\ Len(pending') = Len(pending) + 1
            /\ pending'[Len(pending) + 1] = record
            /\ \A i \in DOMAIN pending : pending'[i] = pending[i] /\ i \in DOMAIN pending'
            /\ DOMAIN pending' = DOMAIN pending \cup {Len(pending) + 1}
        BY <1>5, <2>1
      <3>2. Range(pending) \subseteq Range(pending') /\ record \in Range(pending')
        BY <3>1 DEF Range
      <3> QED BY <1>3, <1>5, <2>1, <3>1, <3>2 DEF PendingInv, LogInv, NoRecordLost
    <2>2. CASE UNCHANGED <<pending, finished>>
      BY <1>5, <2>2 DEF PendingInv, LogInv, NoRecordLost
    <2> QED BY <1>4, <2>1, <2>2
  <1>7. TypeInv'
    <2>1. deadline' \in Nat
      BY <1>1 DEF TypeInv
    <2>2. active' \in [Threads -> Records \cup {NoRecord}]
      BY <1>1 DEF TypeInv
    <2> QED BY <1>1, <1>2, <1>6, <2>1, <2>2 DEF TypeInv
  <1>8. FrameInv' /\ PendingInv'
    BY <1>1, <1>2, <1>6, Sizes DEF FrameInv, PendingInv
  <1>9. UnwindInv' /\ EventInv'
    BY <1>1, <1>2 DEF UnwindInv, EventInv, TypeInv
  <1>10. LogInv'
    BY <1>1, <1>6 DEF LogInv, NoRecordLost
  <1> QED BY <1>7, <1>8, <1>9, <1>10

\* A call is left by an exception.
LEMMA RaiseStep ==
    ASSUME IInv, NEW t \in Threads, Raise(t)
    PROVE  IInv'
  <1> USE DEF IInv
  <1>1. /\ stack[t] # << >>
        /\ stack' = [stack EXCEPT ![t] = Front(@)]
        /\ UNCHANGED <<now, deadline, calls, pending, interface_events, described, log, arming,
                       begun, finished>>
    BY DEF Raise, events, history
  <1>2. LogInv' /\ EventInv'
    BY <1>1 DEF LogInv, NoRecordLost, EventInv
  <1>3. CASE Last(stack[t]) = NoRecord
    <2>1. active' = active
      BY <1>3 DEF Raise
    <2>2. /\ stack' \in [Threads -> Seq(Records \cup {NoRecord})]
          /\ \A u \in Threads : Captured(u)' = Captured(u)
          /\ \A u \in Threads : \A depth \in Captured(u) : stack'[u][depth] = stack[u][depth]
      <3>1. /\ stack' \in [Threads -> Seq(Records \cup {NoRecord})]
            /\ \A u \in Threads : u # t => stack'[u] = stack[u] /\ Captured(u)' = Captured(u)
            /\ \A depth \in Captured(t)' : stack'[t][depth] = stack[t][depth]
            /\ Captured(t)' = Captured(t)
        BY <1>1, <1>3, Popped
      <3> QED BY <3>1
    <2>3. TypeInv'
      BY <1>1, <2>1, <2>2 DEF TypeInv
    <2>4. FrameInv' /\ UnwindInv' /\ PendingInv'
      BY <1>1, <2>1, <2>2, Sizes DEF FrameInv, UnwindInv, PendingInv
    <2> QED BY <1>2, <2>3, <2>4
  <1>4. CASE Last(stack[t]) # NoRecord
    <2>1. \/ active' = [active EXCEPT ![t] = NoRecord]
          \/ ~ Unwinds /\ UNCHANGED active
      BY <1>4 DEF Raise
    <2>2. /\ stack' \in [Threads -> Seq(Records \cup {NoRecord})]
          /\ \A u \in Threads : Captured(u)' = {}
          /\ \A u \in Threads : u # t => Captured(u) = {}
      BY <1>1, <1>4, EndOfCapture
    <2>3. active' \in [Threads -> Records \cup {NoRecord}]
      BY <2>1 DEF TypeInv
    <2>4. TypeInv'
      BY <1>1, <2>2, <2>3 DEF TypeInv
    <2>5. FrameInv' /\ PendingInv'
      BY <1>1, <2>2, Sizes DEF FrameInv, PendingInv
    <2>6. UnwindInv'
      <3> SUFFICES ASSUME Unwinds, NEW u \in Threads, active'[u] # NoRecord
                   PROVE  Captured(u)' # {}
        BY Zenon DEF UnwindInv
      <3>1. active' = [active EXCEPT ![t] = NoRecord]
        BY <2>1, Zenon
      <3>2. u # t /\ active[u] # NoRecord
        BY <3>1 DEF TypeInv
      <3> QED BY <2>2, <3>2 DEF UnwindInv
    <2> QED BY <1>2, <2>4, <2>5, <2>6
  <1> QED BY <1>3, <1>4

-----------------------------------------------------------------------------

\* Every step keeps the invariant.
LEMMA InvStep == IInv /\ [Next]_vars => IInv'
  <1> SUFFICES ASSUME IInv, [Next]_vars PROVE IInv'
    OBVIOUS
  <1>1. CASE Tick \/ StartUnsaved \/ StartUnwritten \/ Stop \/ Shutdown
    BY <1>1, SavingSteps
  <1>2. CASE StartArms
    BY <1>2, ArmingStep
  <1>3. CASE Initialize \/ TimePasses \/ Unregister \/ StartRefused \/ UNCHANGED vars
    <2>1. /\ UNCHANGED <<deadline, calls, pending, active, interface_events, described, stack,
                         log, arming, begun, finished>>
          /\ now' \in {now, now + 1}
      BY <1>3 DEF Initialize, TimePasses, Unregister, StartRefused, vars, running, events,
                  history
    <2> QED BY <2>1 DEF IInv, TypeInv, FrameInv, UnwindInv, PendingInv, LogInv, NoRecordLost,
                        EventInv, Captured
  <1>4. ASSUME NEW t \in Threads,
               \/ PassThrough(t) \/ Capture(t) \/ ObserveInterface(t)
               \/ PassBack(t) \/ Finish(t) \/ Raise(t)
        PROVE  IInv'
    BY <1>4, PassStep, CaptureStep, ObserveStep, FinishStep, RaiseStep
  <1> QED BY <1>1, <1>2, <1>3, <1>4 DEF Next

\* The initial state satisfies the invariant.
LEMMA InvInit == Init => IInv
  <1> SUFFICES ASSUME Init PROVE IInv
    OBVIOUS
  <1>1. /\ active = [t \in Threads |-> NoRecord] /\ stack = [t \in Threads |-> << >>]
        /\ interface_events = [t \in Threads |-> 0] /\ described = [t \in Threads |-> 0]
        /\ pending = << >> /\ log = << >> /\ finished = {}
        /\ arming = 0 /\ calls = 0 /\ begun = 0 /\ deadline = 0 /\ now = 1
    BY DEF Init
  <1>2. TypeInv
    BY <1>1, Sizes DEF TypeInv
  <1>3. \A t \in Threads : Captured(t) = {}
    BY <1>1 DEF Captured
  <1>4. FrameInv /\ UnwindInv /\ PendingInv
    BY <1>1, <1>3, Sizes DEF FrameInv, UnwindInv, PendingInv
  <1>5. LogInv /\ EventInv
    BY <1>1, Sizes DEF LogInv, LogOf, NoRecordLost, EventInv
  <1> QED BY <1>2, <1>4, <1>5 DEF IInv

\* In a build that unwinds for every exception the observers never write into a
\* description that is gone.
THEOREM LiveTheorem == ASSUME Unwinds PROVE Spec => []ActiveIsLive
  <1>1. IInv => ActiveIsLive
    <2> SUFFICES ASSUME IInv, NEW t \in Threads
                 PROVE  \/ Captured(t) = {} /\ active[t] = NoRecord
                        \/ \E depth \in DOMAIN stack[t] :
                            Captured(t) = {depth} /\ stack[t][depth] = active[t]
      BY DEF ActiveIsLive
    <2>1. CASE Captured(t) = {}
      BY <2>1 DEF IInv, UnwindInv
    <2>2. CASE Captured(t) # {}
      <3>1. PICK depth \in Captured(t) : Captured(t) = {depth} /\ stack[t][depth] = active[t]
        BY <2>2 DEF IInv, FrameInv
      <3>2. depth \in DOMAIN stack[t]
        BY DEF Captured
      <3> QED BY <3>1, <3>2
    <2> QED BY <2>1, <2>2
  <1> QED BY <1>1, InvInit, InvStep, PTL DEF Spec

\* No description is lost when writing fails.
THEOREM NoneLostTheorem == Spec => []NoRecordLost
  <1> QED BY InvInit, InvStep, PTL DEF Spec, IInv, LogInv

\* An arming describes at most MaxCalls calls, with the first lookups of each.
THEOREM BoundedTheorem == Spec => []CapturesBounded
  <1>1. IInv => CapturesBounded
    <2> SUFFICES ASSUME IInv PROVE CapturesBounded
      OBVIOUS
    <2>1. /\ begun = calls /\ calls \in 0..MaxCalls /\ Len(pending) <= calls
          /\ Len(pending) \in Nat
      BY DEF IInv, TypeInv, PendingInv
    <2> QED BY <2>1, Sizes DEF IInv, EventInv, CapturesBounded
  <1> QED BY <1>1, InvInit, InvStep, PTL DEF Spec

\* The log never mixes two armings.
THEOREM SeparateTheorem == Spec => []TracesSeparate
  <1>1. IInv => TracesSeparate
    <2> SUFFICES ASSUME IInv PROVE TracesSeparate
      OBVIOUS
    <2>1. deadline # 0 \/ pending # << >> => arming # 0
      <3>1. CASE pending # << >>
        <4>1. 1 \in DOMAIN pending /\ pending[1] \in Records /\ pending[1].arming = arming
          BY <3>1 DEF IInv, TypeInv, PendingInv
        <4> QED BY <4>1 DEF Records
      <3> QED BY <3>1 DEF IInv, LogInv
    <2> QED BY <2>1 DEF IInv, LogInv, LogOf, TracesSeparate
  <1> QED BY <1>1, InvInit, InvStep, PTL DEF Spec

=============================================================================
