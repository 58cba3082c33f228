------------------------ MODULE ResponseCaptureProofs ------------------------
(***************************************************************************)
(* The capture of replies, for any threads, command instances, messages,   *)
(* limits and depth of nested executions.                                  *)
(***************************************************************************)
EXTENDS ResponseCapture, Utf8TextProofs

Scope == [command : Commands, previous : Pointers, output : Seq(Bytes), count : Nat,
          cut : BOOLEAN, failed : BOOLEAN, said : Seq(Bytes)]

\* A buffer within its limit that is cut at no code point.
Bounded(scope) ==
    /\ scope \in Scope
    /\ Len(scope.output) <= MaxBytes /\ EndsWhole(scope.output)

\* ... and complete unless it says otherwise.
Sound(scope) ==
    /\ Bounded(scope)
    /\ ~ scope.cut /\ ~ scope.failed => scope.output = scope.said

\* The scope of an execution that n of its thread are open up to, if any is.
PointerTo(t, n) == IF n = 0 THEN nullptr ELSE <<t, n>>

\* current is the end of a chain that runs through the open scopes of its own
\* thread, innermost first, and through no other.
Chained(t) ==
    /\ Len(scopes[t]) <= MaxDepth
    /\ current[t] = PointerTo(t, Len(scopes[t]))
    /\ \A i \in DOMAIN scopes[t] : scopes[t][i].previous = PointerTo(t, i - 1)

IInv ==
    /\ scopes \in [Threads -> Seq(Scope)]
    /\ current \in [Threads -> Pointers]
    /\ \A t \in Threads : Chained(t) /\ \A i \in DOMAIN scopes[t] : Sound(scopes[t][i])

-----------------------------------------------------------------------------
(* Text *)

\* No code point is cut anywhere in the text.
WholeCharacters(text) ==
    \A i \in DOMAIN text :
        \/ text[i] \in FinalBytes
        \/ i < Len(text) /\ Continuation(text[i + 1])

\* The bytes of one unit.
LEMMA UnitShape ==
    ASSUME NEW u \in Units
    PROVE  LET bytes == UnitBytes[u]
           IN  /\ bytes \in Seq(Bytes) /\ Len(bytes) \in 1..2
               /\ u \in {"h", "l"} => Len(bytes) = 2
               /\ Len(bytes) = 2 =>
                    /\ Continuation(bytes[2])
                    /\ bytes[2] \in FinalBytes \/ u = "h"
               /\ Len(bytes) = 1 => bytes[1] \in FinalBytes
               /\ u = "l" => Continuation(bytes[1])
  <1>1. /\ Byte("a", 1) \in Bytes
        /\ \A v \in {"e", "h", "l"} : Byte(v, 1) \in Bytes /\ Byte(v, 2) \in Bytes
    BY DEF Bytes, Byte
  <1>2. CASE u = "a"
    <2>1. UnitBytes[u] = <<Byte("a", 1)>>
      BY <1>2 DEF UnitBytes, Units
    <2>2. Byte("a", 1) \in FinalBytes
      BY DEF FinalBytes
    <2> QED
      BY <1>1, <1>2, <2>1, <2>2
  <1>3. CASE u # "a"
    <2>1. UnitBytes[u] = <<Byte(u, 1), Byte(u, 2)>> /\ u \in {"e", "h", "l"}
      BY <1>3 DEF UnitBytes, Units
    <2>2. Continuation(Byte(u, 2)) /\ (Byte(u, 2) \in FinalBytes \/ u = "h")
      BY <2>1 DEF Continuation, FinalBytes, Byte
    <2>3. u = "l" => Continuation(Byte(u, 1))
      BY DEF Continuation
    <2>4. Byte(u, 1) \in Bytes /\ Byte(u, 2) \in Bytes
      BY <1>1, <2>1
    <2> DEFINE b == Byte(u, 1)
               c == Byte(u, 2)
    <2>5. UnitBytes[u] = <<b, c>> /\ b \in Bytes /\ c \in Bytes
      BY <2>1, <2>4
    <2>6. Continuation(c) /\ (c \in FinalBytes \/ u = "h") /\ (u = "l" => Continuation(b))
      BY <2>2, <2>3
    <2> HIDE DEF b, c
    <2>7. /\ <<b, c>> \in Seq(Bytes) /\ Len(<<b, c>>) = 2
          /\ <<b, c>>[1] = b /\ <<b, c>>[2] = c
      BY <2>5
    <2> QED
      BY <2>5, <2>6, <2>7
  <1> QED
    BY <1>2, <1>3

\* A text is as long as it has units, at least.
LEMMA Utf8Bytes ==
    ASSUME NEW units \in Seq(Units)
    PROVE  /\ Utf8(units) \in Seq(Bytes) /\ Len(Utf8(units)) >= Len(units)
           /\ WellFormed(units) => WholeCharacters(Utf8(units))
  <1> DEFINE n == Len(units)
             parts == [i \in DOMAIN units |-> UnitBytes[units[i]]]
  <1>1. n \in Nat /\ \A i \in 1..n : units[i] \in Units
    OBVIOUS
  <1>2. /\ parts \in Seq(Seq(Bytes)) /\ Len(parts) = n
        /\ \A i \in 1..n : parts[i] = UnitBytes[units[i]]
    <2>1. \A i \in 1..n : UnitBytes[units[i]] \in Seq(Bytes)
      BY <1>1, UnitShape
    <2> QED
      BY <1>1, <2>1
  <1>3. Utf8(units) = FlattenSeq(parts)
    BY DEF Utf8
  <1> HIDE DEF parts, n
  <1>4. PICK joined : Joins(joined, parts, n, Bytes)
    BY <1>2, JoinsExist
  <1>5. Utf8(units) = joined[n]
    BY <1>2, <1>3, <1>4, FlattenJoins
  <1>6. joined[0] = << >> /\ \A k \in 0..n : joined[k] \in Seq(Bytes)
    BY <1>1, <1>4, JoinsType
  <1> DEFINE Whole(k) ==
                \A i \in 1..Len(joined[k]) :
                    \/ joined[k][i] \in FinalBytes
                    \/ i < Len(joined[k]) /\ Continuation(joined[k][i + 1])
                    \/ i = Len(joined[k]) /\ k >= 1 /\ units[k] = "h"
             Holds(k) == Len(joined[k]) >= k /\ (WellFormed(units) => Whole(k))
             S == {k \in Nat : Holds(k)}
  <1>7. 0 \in S
    <2>1. Len(joined[0]) = 0
      BY <1>6
    <2> QED
      BY <2>1
  <1>8. ASSUME NEW k \in Nat, k < n, Holds(k) PROVE Holds(k + 1)
    <2> DEFINE a == joined[k]
               b == UnitBytes[units[k + 1]]
               c == joined[k + 1]
    <2>1. k + 1 \in 1..n /\ k \in 0..n /\ k + 1 \in 0..n /\ units[k + 1] \in Units
      BY <1>1, <1>8
    <2>2. c = a \o b
      <3>1. joined[k + 1] = joined[k] \o parts[k + 1]
        BY <1>4, <1>8, Zenon DEF Joins
      <3> QED
        BY <1>2, <2>1, <3>1
    <2>3. /\ a \in Seq(Bytes) /\ b \in Seq(Bytes) /\ Len(a) >= k
          /\ Len(b) \in 1..2
          /\ units[k + 1] \in {"h", "l"} => Len(b) = 2
          /\ Len(b) = 2 => Continuation(b[2]) /\ (b[2] \in FinalBytes \/ units[k + 1] = "h")
          /\ Len(b) = 1 => b[1] \in FinalBytes
          /\ units[k + 1] = "l" => Continuation(b[1])
      BY <1>6, <1>8, <2>1, UnitShape
    <2>4. WellFormed(units) =>
            \A i \in 1..Len(a) :
                \/ a[i] \in FinalBytes
                \/ i < Len(a) /\ Continuation(a[i + 1])
                \/ i = Len(a) /\ k >= 1 /\ units[k] = "h"
      BY <1>8
    <2> HIDE DEF a, b, c
    <2>5. /\ Len(c) = Len(a) + Len(b)
          /\ \A i \in 1..Len(a) : c[i] = a[i]
          /\ \A i \in 1..Len(b) : c[Len(a) + i] = b[i]
      BY <2>2, <2>3
    <2>8. Len(a) \in Nat /\ Len(b) \in 1..2 /\ Len(c) = Len(a) + Len(b)
      BY <2>3, <2>5
    <2>6. Len(c) >= k + 1
      BY <2>3, <2>8
    <2>7. ASSUME WellFormed(units), NEW i \in 1..Len(c)
          PROVE  \/ c[i] \in FinalBytes
                 \/ i < Len(c) /\ Continuation(c[i + 1])
                 \/ i = Len(c) /\ k + 1 >= 1 /\ units[k + 1] = "h"
      <3>1. CASE i < Len(a)
        <4>1. i \in 1..Len(a) /\ i + 1 \in 1..Len(a) /\ i < Len(c) /\ i # Len(a)
          BY <2>3, <2>5, <3>1
        <4>2. c[i] = a[i] /\ c[i + 1] = a[i + 1]
          BY <2>5, <4>1
        <4> QED
          BY <2>4, <2>7, <4>1, <4>2
      <3>2. CASE i = Len(a)
        <4>1. i \in 1..Len(a) /\ 1 \in 1..Len(b) /\ i < Len(c) /\ i + 1 = Len(a) + 1
          BY <2>3, <2>5, <3>2
        <4>2. c[i] = a[i] /\ c[i + 1] = b[1]
          BY <2>5, <4>1
        <4>3. CASE a[i] \in FinalBytes
          BY <4>2, <4>3
        <4>4. CASE k >= 1 /\ units[k] = "h"
          <5>1. k \in DOMAIN units /\ k \in 1..n
            BY <1>1, <1>8, <4>4 DEF n
          <5>2. units[k + 1] = "l"
            BY <2>7, <4>4, <5>1, Zenon DEF WellFormed
          <5> QED
            BY <2>3, <4>1, <4>2, <5>2
        <4> QED
          BY <2>4, <2>7, <3>2, <4>1, <4>3, <4>4
      <3>3. CASE i = Len(a) + 1
        <4>1. c[i] = b[1] /\ 1 \in 1..Len(b)
          BY <2>3, <2>5, <3>3
        <4>2. CASE Len(b) = 1
          BY <2>3, <4>1, <4>2
        <4>3. CASE Len(b) = 2
          <5>1. c[i + 1] = b[2] /\ i < Len(c)
            <6>1. i + 1 = Len(a) + 2 /\ 2 \in 1..Len(b) /\ i < Len(c)
              BY <2>3, <2>5, <3>3, <4>3
            <6> QED
              BY <2>5, <6>1
          <5> QED
            BY <2>3, <4>3, <5>1
        <4> QED
          BY <2>3, <4>2, <4>3
      <3>4. CASE i > Len(a) + 1
        <4>1. i = Len(a) + 2 /\ Len(b) = 2 /\ i = Len(c) /\ 2 \in 1..Len(b)
          <5> DEFINE la == Len(a)
                     lb == Len(b)
                     lc == Len(c)
          <5>1. la \in Nat /\ lb \in 1..2 /\ lc = la + lb /\ i \in 1..lc /\ i > la + 1
            BY <2>7, <2>8, <3>4
          <5> HIDE DEF la, lb, lc
          <5>2. i = la + 2 /\ lb = 2 /\ i = lc /\ 2 \in 1..lb
            BY <5>1
          <5> QED
            BY <5>2 DEF la, lb, lc
        <4>2. c[i] = b[2]
          BY <2>5, <4>1
        <4> QED
          BY <2>3, <4>1, <4>2
      <3>5. i < Len(a) \/ i = Len(a) \/ i = Len(a) + 1 \/ i > Len(a) + 1
        BY <2>8
      <3> QED
        BY <3>1, <3>2, <3>3, <3>4, <3>5
    <2> QED
      BY <2>6, <2>7 DEF c
  <1>9. Holds(n)
    <2>1. \A k \in Nat : k < n /\ k \in S => k + 1 \in S
      <3> HIDE DEF Holds
      <3> QED
        BY <1>8
    <2>2. n \in S
      <3> HIDE DEF S
      <3> QED
        BY <1>1, <1>7, <2>1, Induction
    <2> HIDE DEF Holds
    <2> QED
      BY <2>2
  <1>10. joined[n] \in Seq(Bytes) /\ n \in 0..n
    BY <1>1, <1>6
  <1>11. ASSUME WellFormed(units), n >= 1 PROVE units[n] # "h"
    <2>1. n \in DOMAIN units /\ ~ n < Len(units)
      BY <1>1, <1>11 DEF n
    <2> QED
      BY <1>11, <2>1, Zenon DEF WellFormed
  <1>12. WellFormed(units) => WholeCharacters(Utf8(units))
    BY <1>5, <1>9, <1>10, <1>11 DEF WholeCharacters
  <1> QED
    BY <1>5, <1>9, <1>10, <1>12 DEF n

\* What receive reads of a message is text, and is all that the message says
\* unless it is too long for any buffer.
LEMMA MessageRead ==
    ASSUME NEW units \in Messages
    PROVE  LET text == Utf8(ReadMessage(units))
           IN  /\ text \in Seq(Bytes) /\ FullText(units) \in Seq(Bytes)
               /\ WellFormed(ReadMessage(units)) => WholeCharacters(text)
               /\ Len(text) <= MaxBytes => text = FullText(units)
  <1> DEFINE l == Len(units)
             n == Smaller(l, WidePrefix)
             drop == \/ n > 0 /\ n = l /\ units[n] = "0"
                     \/ n > 0 /\ n < l /\ units[n] = "h"
             m == IF drop THEN n - 1 ELSE n
             k == IF units # << >> /\ Last(units) = "0" THEN l - 1 ELSE l
             Upto(j) == [i \in 1..j |-> Blank(units[i])]
  <1>1. /\ units \in Seq({"a", "e", "h", "l", "0"}) /\ l \in Nat
        /\ MaxBytes \in Nat /\ WidePrefix = MaxBytes + 2
    BY BoundsAssumption DEF WidePrefix
  <1>2. ASSUME NEW j \in 0..l PROVE Upto(j) \in Seq(Units) /\ Len(Upto(j)) = j
    <2>1. \A i \in 1..j : Blank(units[i]) \in Units
      BY <1>1 DEF Blank, Units
    <2> QED
      BY <1>1, <2>1
  <1>3. ReadMessage(units) = Upto(m) /\ FullText(units) = Utf8(Upto(k))
    BY DEF ReadMessage, FullText
  <1>4. n \in Nat /\ n <= l /\ n <= WidePrefix /\ (n = l \/ n = WidePrefix)
    BY <1>1 DEF Smaller
  <1>5. m \in 0..l /\ k \in 0..l /\ (l > WidePrefix => m > MaxBytes)
    <2>1. units # << >> => l >= 1
      BY <1>1
    <2> HIDE DEF n, l
    <2> QED
      BY <1>1, <1>4, <2>1
  <1>6. l <= WidePrefix => m = k
    <2>1. l <= WidePrefix => n = l
      BY <1>1 DEF Smaller
    <2>2. /\ l > 0 <=> units # << >>
          /\ units # << >> => Last(units) = units[l]
      BY <1>1 DEF Last
    <2> HIDE DEF n, l
    <2> QED
      BY <1>1, <1>4, <2>1, <2>2 DEF k
  <1> HIDE DEF m, k, Upto
  <1>7. /\ Utf8(Upto(m)) \in Seq(Bytes) /\ Len(Utf8(Upto(m))) >= m
        /\ WellFormed(Upto(m)) => WholeCharacters(Utf8(Upto(m)))
        /\ Utf8(Upto(k)) \in Seq(Bytes)
    BY <1>2, <1>5, Utf8Bytes
  <1>8. Len(Utf8(Upto(m))) <= MaxBytes => m = k
    <2>1. Len(Utf8(Upto(m))) \in Nat
      BY <1>7
    <2> HIDE DEF l
    <2> QED
      BY <1>1, <1>5, <1>6, <1>7, <2>1
  <1> QED
    BY <1>3, <1>7, <1>8

\* One text behind the other, and the last byte of both.
LEMMA Joined ==
    ASSUME NEW a \in Seq(Bytes), NEW b \in Seq(Bytes)
    PROVE  /\ a \o b \in Seq(Bytes) /\ Len(a \o b) = Len(a) + Len(b)
           /\ Len(b) = 0 => a \o b = a
           /\ Len(b) > 0 => (a \o b)[Len(a \o b)] = b[Len(b)]
  OBVIOUS

\* A separator is a byte of its own or nothing.
LEMMA SeparatorSound ==
    ASSUME NEW output \in Seq(Bytes), EndsWhole(output), NEW text \in Seq(Bytes)
    PROVE  /\ output \o Separator(output, text) \in Seq(Bytes)
           /\ EndsWhole(output \o Separator(output, text))
  <1>1. CASE Separator(output, text) = << >>
    BY <1>1
  <1>2. CASE Separator(output, text) = <<Newline>>
    <2>1. Newline \in Bytes /\ Newline \in FinalBytes
      BY DEF Newline, Byte, Bytes, FinalBytes
    <2>2. /\ output \o <<Newline>> \in Seq(Bytes)
          /\ Len(output \o <<Newline>>) = Len(output) + 1
          /\ (output \o <<Newline>>)[Len(output) + 1] = Newline
      BY <2>1
    <2> QED
      BY <1>2, <2>1, <2>2 DEF EndsWhole
  <1> QED
    BY <1>1, <1>2 DEF Separator

\* A scope after its counter, its text and its flags have changed.
Updated(scope, count, output, cut, failed) ==
    [scope EXCEPT !.count = count, !.output = output, !.cut = cut, !.failed = failed]

\* What accept finds of a message: its text, which is all of it unless it is
\* too long for any buffer, recorded behind all that was said before.
Pending(scope, text, before, full) ==
    /\ Bounded(scope)
    /\ text \in Seq(Bytes) /\ WholeCharacters(text)
    /\ Len(text) <= MaxBytes => text = full
    /\ before \in Seq(Bytes)
    /\ scope.said = before \o Separator(before, full) \o full
    /\ ~ scope.cut /\ ~ scope.failed => scope.output = before

\* accept leaves a sound buffer: it is cut only where a character ends, and if
\* neither this nor an earlier call cut or failed, it holds all that is said.
LEMMA AcceptedSound ==
    ASSUME NEW scope, NEW text, NEW before, NEW full,
           Pending(scope, text, before, full)
    PROVE  /\ Sound(Accepted(scope, text))
           /\ Accepted(scope, text).previous = scope.previous
  <1>0. /\ Bounded(scope)
        /\ text \in Seq(Bytes) /\ WholeCharacters(text)
        /\ Len(text) <= MaxBytes => text = full
        /\ before \in Seq(Bytes)
        /\ scope.said = before \o Separator(before, full) \o full
        /\ ~ scope.cut /\ ~ scope.failed => scope.output = before
    BY DEF Pending
  <1> DEFINE after == Accepted(scope, text)
             count == scope.count + 1
             prefix == scope.output \o Separator(scope.output, text)
             cut == scope.cut \/ Utf8PrefixSize(text, MaxBytes - Len(prefix)) # Len(text)
             n == Utf8PrefixSize(text, MaxBytes - Len(prefix))
             output == prefix \o SubSeq(text, 1, n)
  <1>1. /\ MaxBytes \in Nat /\ scope \in Scope /\ scope.output \in Seq(Bytes)
        /\ scope.cut \in BOOLEAN
    BY <1>0, BoundsAssumption DEF Bounded, Scope
  <1>2. /\ prefix \in Seq(Bytes) /\ EndsWhole(prefix)
        /\ Len(prefix) \in Nat
    <2>1. EndsWhole(scope.output)
      BY <1>0 DEF Bounded
    <2>2. prefix \in Seq(Bytes) /\ EndsWhole(prefix)
      BY <1>0, <1>1, <2>1, SeparatorSound
    <2> HIDE DEF prefix
    <2> QED
      BY <2>2
  <1>3. count \in Nat /\ scope.failed \in BOOLEAN
    BY <1>1 DEF Scope
  <1>4. CASE scope.count + 1 > MaxMessages \/ Len(prefix) > MaxBytes
    <2>1. after = Updated(scope, count, scope.output, TRUE, scope.failed)
      BY <1>1, <1>4 DEF Accepted, Scope, Updated
    <2> HIDE DEF after, count
    <2>2. /\ after \in Scope /\ after.output = scope.output /\ after.cut = TRUE
          /\ after.previous = scope.previous
      BY <1>1, <1>3, <2>1 DEF Scope, Updated
    <2> QED
      BY <1>0, <2>2 DEF Sound, Bounded, after
  <1>5. CASE ~ (scope.count + 1 > MaxMessages \/ Len(prefix) > MaxBytes)
    <2> HIDE DEF prefix
    <2>1. /\ n \in 0..Len(text) /\ n <= MaxBytes - Len(prefix)
          /\ n = 0 \/ n = Len(text) \/ ~ Continuation(text[n + 1])
      <3>1. MaxBytes - Len(prefix) \in Nat
        BY <1>1, <1>2, <1>5
      <3> QED
        BY <1>0, <3>1, PrefixSize
    <2>10. cut = (scope.cut \/ n # Len(text))
      OBVIOUS
    <2> HIDE DEF n
    <2>2. /\ SubSeq(text, 1, n) \in Seq(Bytes) /\ Len(SubSeq(text, 1, n)) = n
          /\ \A i \in 1..n : SubSeq(text, 1, n)[i] = text[i]
      BY <1>0, <2>1
    <2>3. /\ output \in Seq(Bytes) /\ Len(output) = Len(prefix) + n
          /\ n = 0 => output = prefix
          /\ n > 0 => output[Len(output)] = text[n]
      <3> DEFINE part == SubSeq(text, 1, n)
      <3>1. /\ part \in Seq(Bytes) /\ Len(part) = n /\ n \in Nat
            /\ n > 0 => part[n] = text[n]
        BY <2>1, <2>2
      <3> HIDE DEF part
      <3>2. /\ prefix \o part \in Seq(Bytes) /\ Len(prefix \o part) = Len(prefix) + Len(part)
            /\ Len(part) = 0 => prefix \o part = prefix
            /\ Len(part) > 0 => (prefix \o part)[Len(prefix \o part)] = part[Len(part)]
        BY <1>2, <3>1, Joined
      <3> QED
        BY <3>1, <3>2 DEF part
    <2>4. n > 0 => text[n] \in FinalBytes
      BY <1>0, <2>1 DEF WholeCharacters
    <2>5. Len(output) <= MaxBytes /\ EndsWhole(output)
      BY <1>1, <1>2, <2>1, <2>3, <2>4 DEF EndsWhole
    <2>6. after = Updated(scope, count, output, cut, scope.failed)
      BY <1>1, <1>5 DEF Accepted, prefix, n, Scope, Updated
    <2>7. cut \in BOOLEAN
      BY <1>1 DEF Scope
    <2>9. ~ cut /\ ~ scope.failed => output = scope.said
      <3> SUFFICES ASSUME ~ cut, ~ scope.failed PROVE output = scope.said
        OBVIOUS
      <3>1. n = Len(text) /\ ~ scope.cut
        BY <2>10
      <3>2. text = full /\ scope.output = before
        <4>1. Len(text) <= MaxBytes
          BY <1>1, <1>2, <2>1, <3>1
        <4> QED
          BY <1>0, <3>1, <4>1
      <3>3. SubSeq(text, 1, n) = text
        BY <1>0, <2>2, <3>1
      <3> QED
        BY <1>0, <3>2, <3>3 DEF prefix
    <2> HIDE DEF output, cut, after, count
    <2>8. /\ after \in Scope /\ after.output = output
          /\ after.cut = cut /\ after.failed = scope.failed /\ after.said = scope.said
          /\ after.previous = scope.previous
      BY <1>1, <1>3, <2>3, <2>6, <2>7 DEF Scope, Updated
    <2> QED
      BY <2>5, <2>8, <2>9 DEF Sound, Bounded, after
  <1> HIDE DEF after
  <1> QED
    BY <1>4, <1>5 DEF after

\* A buffer that failed to grow is sound as well: it says that it failed.
LEMMA AcceptFailuresSound ==
    ASSUME NEW scope, Bounded(scope), NEW text \in Seq(Bytes),
           NEW after \in AcceptFailures(scope, text)
    PROVE  Sound(after) /\ after.previous = scope.previous
  <1> DEFINE count == scope.count + 1
  <1>1. /\ scope \in Scope /\ scope.output \in Seq(Bytes) /\ EndsWhole(scope.output)
        /\ count \in Nat /\ scope.cut \in BOOLEAN
    BY DEF Bounded, Scope
  <1>2. PICK separator \in {<< >>, Separator(scope.output, text)} :
            /\ Len(scope.output \o separator) <= MaxBytes
            /\ after = [scope EXCEPT !.count = @ + 1, !.failed = TRUE,
                                     !.output = @ \o separator]
    BY Zenon DEF AcceptFailures
  <1> DEFINE output == scope.output \o separator
  <1>3. output \in Seq(Bytes) /\ EndsWhole(output) /\ Len(output) <= MaxBytes
    <2>1. CASE separator = << >>
      <3>1. output = scope.output
        BY <1>1, <2>1
      <3> QED
        BY <1>1, <1>2, <3>1
    <2>2. CASE separator = Separator(scope.output, text)
      <3>1. /\ scope.output \o Separator(scope.output, text) \in Seq(Bytes)
            /\ EndsWhole(scope.output \o Separator(scope.output, text))
        BY <1>1, SeparatorSound
      <3> QED
        BY <1>2, <2>2, <3>1
    <2> QED
      BY <1>2, <2>1, <2>2
  <1>4. after = [scope EXCEPT !.count = count, !.failed = TRUE, !.output = output]
    BY <1>2, Zenon
  <1> HIDE DEF output, count
  <1>5. /\ after \in Scope /\ after.output = output /\ after.failed = TRUE
        /\ after.previous = scope.previous
    BY <1>1, <1>3, <1>4 DEF Scope
  <1> QED
    BY <1>3, <1>5 DEF Sound, Bounded

\* Whatever receive makes of a message.
LEMMA ReceiveSound ==
    ASSUME NEW units \in Messages, NEW last, Sound(last),
           NEW read, read = ReadMessage(units),
           NEW scope, scope = Record(last, units),
           NEW after,
           \/ after = Failure(scope)
           \/ /\ WellFormed(read)
              /\ \/ after = Accepted(scope, Utf8(read))
                 \/ after \in AcceptFailures(scope, Utf8(read))
    PROVE  Sound(after) /\ after.previous = last.previous
  <1> DEFINE text == Utf8(read)
             full == FullText(units)
             said == last.said \o Separator(last.said, full) \o full
  <1>1. /\ text \in Seq(Bytes) /\ full \in Seq(Bytes)
        /\ WellFormed(read) => WholeCharacters(text)
        /\ Len(text) <= MaxBytes => text = full
    BY MessageRead
  <1>2. last \in Scope /\ last.said \in Seq(Bytes)
    BY DEF Sound, Bounded, Scope
  <1>3. said \in Seq(Bytes)
    <2> DEFINE separator == Separator(last.said, full)
    <2> HIDE DEF full
    <2>1. separator \in Seq(Bytes)
      <3>1. Newline \in Bytes
        BY DEF Newline, Byte, Bytes
      <3> QED
        BY <3>1 DEF Separator
    <2> HIDE DEF separator
    <2>2. last.said \o separator \in Seq(Bytes)
      BY <1>2, <2>1, Joined
    <2>3. (last.said \o separator) \o full \in Seq(Bytes)
      BY <1>1, <2>2, Joined
    <2> QED
      BY <2>3 DEF separator
  <1>4. /\ Bounded(scope) /\ scope.previous = last.previous /\ scope.said = said
        /\ ~ scope.cut /\ ~ scope.failed => scope.output = last.said
    <2>1. scope = [last EXCEPT !.said = said]
      BY <1>2 DEF Record, Scope
    <2> HIDE DEF said, full
    <2>2. /\ scope \in Scope /\ scope.output = last.output
          /\ scope.previous = last.previous /\ scope.said = said
          /\ scope.cut = last.cut /\ scope.failed = last.failed
      BY <1>2, <1>3, <2>1 DEF Scope
    <2> QED
      BY <2>2 DEF Sound, Bounded
  <1>5. CASE after = Failure(scope)
    <2>1. scope \in Scope
      BY <1>4 DEF Bounded
    <2>2. /\ after \in Scope /\ after.output = scope.output /\ after.failed = TRUE
          /\ after.previous = scope.previous
      BY <1>5, <2>1 DEF Failure, Scope
    <2> QED
      BY <1>4, <2>2 DEF Sound, Bounded
  <1>6. CASE WellFormed(read)
    <2> HIDE DEF text, full
    <2>1. scope.said = last.said \o Separator(last.said, full) \o full
      BY <1>4
    <2>2. CASE after = Accepted(scope, text)
      <3>1. Sound(after) /\ after.previous = scope.previous
        <4> DEFINE before == last.said
        <4>1. Pending(scope, text, before, full)
          BY <1>1, <1>2, <1>4, <1>6, <2>1 DEF Pending
        <4> HIDE DEF before
        <4>2. /\ Sound(Accepted(scope, text))
              /\ Accepted(scope, text).previous = scope.previous
          BY <4>1, AcceptedSound
        <4> QED
          BY <2>2, <4>2
      <3> QED
        BY <1>4, <3>1
    <2>3. CASE after \in AcceptFailures(scope, text)
      <3>1. Sound(after) /\ after.previous = scope.previous
        BY <1>1, <1>4, <2>3, AcceptFailuresSound
      <3> QED
        BY <1>4, <3>1
    <2> QED
      BY <1>5, <1>6, <2>2, <2>3 DEF text
  <1> QED
    BY <1>5, <1>6

-----------------------------------------------------------------------------

\* Whatever changes one thread's scopes to a chain of sound ones.
LEMMA ChainChanged ==
    ASSUME IInv, NEW t \in Threads, NEW chain \in Seq(Scope), Len(chain) <= MaxDepth,
           \A i \in DOMAIN chain : Sound(chain[i]) /\ chain[i].previous = PointerTo(t, i - 1),
           scopes' = [scopes EXCEPT ![t] = chain],
           current' = [current EXCEPT ![t] = PointerTo(t, Len(chain))]
    PROVE  IInv'
  <1>1. PointerTo(t, Len(chain)) \in Pointers
    <2>1. Len(chain) \in Nat /\ MaxDepth \in Nat
      BY BoundsAssumption
    <2> QED
      BY <2>1 DEF PointerTo, Pointers
  <1>2. /\ scopes' \in [Threads -> Seq(Scope)] /\ current' \in [Threads -> Pointers]
        /\ scopes'[t] = chain /\ current'[t] = PointerTo(t, Len(chain))
        /\ \A u \in Threads : u # t => scopes'[u] = scopes[u] /\ current'[u] = current[u]
    BY <1>1 DEF IInv
  <1>3. Chained(t)'
    BY <1>2 DEF Chained, PointerTo
  <1>4. \A u \in Threads : u # t => Chained(u)'
    BY <1>2 DEF IInv, Chained, PointerTo
  <1>5. \A u \in Threads : \A i \in DOMAIN scopes'[u] : Sound(scopes'[u][i])
    BY <1>2 DEF IInv
  <1> QED
    BY <1>2, <1>3, <1>4, <1>5 DEF IInv, Sound, Bounded

\* The pointer of a thread points at its innermost scope.
LEMMA CurrentIsLast ==
    ASSUME IInv, NEW t \in Threads
    PROVE  /\ scopes[t] \in Seq(Scope) /\ Len(scopes[t]) \in Nat
           /\ (current[t] = nullptr) <=> (scopes[t] = << >>)
           /\ scopes[t] # << >> =>
                /\ Len(scopes[t]) \in DOMAIN scopes[t]
                /\ current[t] = <<t, Len(scopes[t])>>
                /\ Current(t) = scopes[t][Len(scopes[t])]
  <1>1. scopes[t] \in Seq(Scope) /\ current[t] = PointerTo(t, Len(scopes[t]))
    BY DEF IInv, Chained
  <1>2. /\ Len(scopes[t]) \in Nat
        /\ scopes[t] # << >> => Len(scopes[t]) # 0 /\ Len(scopes[t]) \in DOMAIN scopes[t]
        /\ scopes[t] = << >> => Len(scopes[t]) = 0
    BY <1>1
  <1>3. scopes[t] = << >> => current[t] = nullptr
    BY <1>1, <1>2 DEF PointerTo
  <1>4. scopes[t] # << >> => current[t] = <<t, Len(scopes[t])>>
    BY <1>1, <1>2 DEF PointerTo
  <1>5. <<t, Len(scopes[t])>> # nullptr
    BY DEF nullptr
  <1> QED
    BY <1>1, <1>2, <1>3, <1>4, <1>5 DEF Current

\* Every step preserves the invariant: an execution opens an empty scope, its
\* return puts back the pointer it found, and a reply changes the innermost
\* scope of its thread only.
LEMMA InvNext == IInv /\ [Next]_vars => IInv'
  <1> SUFFICES ASSUME IInv, [Next]_vars PROVE IInv'
    OBVIOUS
  <1>1. CASE UNCHANGED <<scopes, current>>
    BY <1>1 DEF IInv, Sound, Bounded, Chained, PointerTo
  <1>2. ASSUME NEW t \in Threads, NEW c \in Commands, Execute(t, c) PROVE IInv'
    <2> DEFINE scope == NewScope(t, c)
               n == Len(scopes[t])
               chain == Append(scopes[t], scope)
    <2>1. /\ current[t] \in Pointers /\ current[t] = PointerTo(t, n)
          /\ scopes[t] \in Seq(Scope) /\ n \in Nat /\ n < MaxDepth
          /\ \A i \in DOMAIN scopes[t] :
                Sound(scopes[t][i]) /\ scopes[t][i].previous = PointerTo(t, i - 1)
      BY <1>2 DEF Execute, IInv, Chained
    <2>2. /\ scope \in Scope /\ scope.output = << >> /\ scope.said = << >>
          /\ scope.previous = PointerTo(t, n)
      BY <2>1 DEF NewScope, Scope
    <2>3. Sound(scope)
      BY <2>2, BoundsAssumption DEF Sound, Bounded, EndsWhole
    <2>4. /\ scopes' = [scopes EXCEPT ![t] = chain]
          /\ current' = [current EXCEPT ![t] = <<t, n + 1>>]
      BY <1>2 DEF Execute, Entered
    <2> HIDE DEF scope
    <2>5. /\ chain \in Seq(Scope) /\ Len(chain) = n + 1 /\ DOMAIN chain = 1..(n + 1)
          /\ \A i \in 1..n : i \in DOMAIN scopes[t] /\ chain[i] = scopes[t][i]
          /\ chain[n + 1] = scope
      BY <2>1, <2>2
    <2> HIDE DEF chain, n
    <2>6. \A i \in DOMAIN chain : Sound(chain[i]) /\ chain[i].previous = PointerTo(t, i - 1)
      <3> SUFFICES ASSUME NEW i \in 1..(n + 1)
                   PROVE  Sound(chain[i]) /\ chain[i].previous = PointerTo(t, i - 1)
        BY <2>5
      <3>1. CASE i \in 1..n
        BY <2>1, <2>5, <3>1
      <3>2. CASE i = n + 1
        <4>1. i - 1 = n
          BY <2>1, <3>2
        <4> QED
          BY <2>2, <2>3, <2>5, <3>2, <4>1
      <3> QED
        BY <2>1, <3>1, <3>2
    <2>7. Len(chain) <= MaxDepth /\ PointerTo(t, Len(chain)) = <<t, n + 1>>
      BY <2>1, <2>5, BoundsAssumption DEF PointerTo
    <2> QED
      BY <2>4, <2>5, <2>6, <2>7, ChainChanged
  <1>3. ASSUME NEW t \in Threads, Return(t) PROVE IInv'
    <2> DEFINE n == Len(scopes[t])
               chain == Front(scopes[t])
    <2>1. /\ scopes[t] \in Seq(Scope) /\ n \in Nat /\ n <= MaxDepth /\ scopes[t] # << >>
          /\ \A i \in DOMAIN scopes[t] :
                Sound(scopes[t][i]) /\ scopes[t][i].previous = PointerTo(t, i - 1)
      BY <1>3 DEF Return, IInv, Chained
    <2>2. /\ n >= 1 /\ n \in DOMAIN scopes[t] /\ chain \in Seq(Scope) /\ Len(chain) = n - 1
          /\ \A i \in DOMAIN chain : i \in DOMAIN scopes[t] /\ chain[i] = scopes[t][i]
          /\ Last(scopes[t]) = scopes[t][n]
      BY <2>1 DEF Front, Last
    <2>3. /\ scopes' = [scopes EXCEPT ![t] = chain]
          /\ current' = [current EXCEPT ![t] = PointerTo(t, n - 1)]
      BY <1>3, <2>1, <2>2 DEF Return
    <2> HIDE DEF chain, n
    <2>4. /\ Len(chain) <= MaxDepth
          /\ \A i \in DOMAIN chain : Sound(chain[i]) /\ chain[i].previous = PointerTo(t, i - 1)
      BY <2>1, <2>2, BoundsAssumption
    <2> QED
      BY <2>2, <2>3, <2>4, ChainChanged
  <1>4. ASSUME NEW t \in Threads, NEW c \in Commands, NEW units \in Messages,
               Receive(t, c, units)
        PROVE  IInv'
    <2> DEFINE n == Len(scopes[t])
               read == ReadMessage(units)
               last == scopes[t][n]
               scope == Record(last, units)
    <2>1. /\ current[t] = <<t, n>> /\ Current(t) = last /\ n \in DOMAIN scopes[t]
          /\ scopes[t] \in Seq(Scope) /\ n \in Nat
      BY <1>4, CurrentIsLast DEF Receive, Matches
    <2>2. PICK after :
            /\ \/ after = Failure(scope)
               \/ /\ WellFormed(read)
                  /\ \/ after = Accepted(scope, Utf8(read))
                     \/ after \in AcceptFailures(scope, Utf8(read))
            /\ scopes' = [scopes EXCEPT ![current[t][1]][current[t][2]] = after]
      BY <1>4, <2>1 DEF Receive
    <2>3. /\ Sound(last) /\ Chained(t)
          /\ \A i \in DOMAIN scopes[t] :
                Sound(scopes[t][i]) /\ scopes[t][i].previous = PointerTo(t, i - 1)
      BY <2>1 DEF IInv, Chained
    <2> DEFINE chain == [scopes[t] EXCEPT ![n] = after]
    <2>4. Sound(after) /\ after.previous = last.previous
      <3> HIDE DEF last, n
      <3> QED
        BY <2>2, <2>3, ReceiveSound
    <2>5. after \in Scope
      BY <2>4 DEF Sound, Bounded
    <2>6. scopes' = [scopes EXCEPT ![t] = chain]
      <3>1. current[t][1] = t /\ current[t][2] = n
        BY <2>1
      <3> QED
        BY <2>2, <3>1, Zenon
    <2>7. current' = [current EXCEPT ![t] = PointerTo(t, Len(scopes[t]))]
      BY <1>4, <2>3 DEF Receive, IInv, Chained
    <2>8. /\ chain \in Seq(Scope) /\ Len(chain) = Len(scopes[t]) /\ DOMAIN chain = DOMAIN scopes[t]
          /\ \A i \in DOMAIN scopes[t] :
                \/ i # n /\ chain[i] = scopes[t][i]
                \/ i = n /\ chain[i] = after
      <3> HIDE DEF n
      <3> QED
        BY <2>1, <2>5
    <2>9. \A i \in DOMAIN chain : Sound(chain[i]) /\ chain[i].previous = PointerTo(t, i - 1)
      <3> HIDE DEF chain
      <3> QED
        BY <2>3, <2>4, <2>8
    <2> HIDE DEF chain, n
    <2> QED
      BY <2>3, <2>6, <2>7, <2>8, <2>9, ChainChanged DEF Chained
  <1> QED
    BY <1>1, <1>2, <1>3, <1>4 DEF Next, Initialize, Shutdown, PassThrough, vars

\* The invariant holds in every state.
THEOREM Invariance == Spec => []IInv
  <1>1. Init => IInv
    <2> SUFFICES ASSUME Init PROVE IInv
      OBVIOUS
    <2>1. /\ scopes = [t \in Threads |-> << >>] /\ current = [t \in Threads |-> nullptr]
      BY DEF Init
    <2>2. << >> \in Seq(Scope) /\ Len(<< >>) = 0 /\ nullptr \in Pointers /\ 0 <= MaxDepth
      BY BoundsAssumption DEF Pointers
    <2>3. \A t \in Threads : Len(scopes[t]) = 0 /\ DOMAIN scopes[t] = {}
      BY <2>1
    <2> QED
      BY <2>1, <2>2, <2>3 DEF IInv, Chained, PointerTo
  <1> QED
    BY <1>1, InvNext, PTL DEF Spec

\* Where a call must go, by the executions that are open on its thread.
Routed(call) ==
    LET depth == Len(call.executing)
    IN  call.to = IF call.hooked /\ depth > 0 /\ call.executing[depth] = call.command
                  THEN <<call.thread, depth>> ELSE nullptr

CallsInv == \A k \in DOMAIN calls : Routed(calls[k])

Calls == [thread : Threads, command : Commands, executing : Seq(Commands),
          hooked : BOOLEAN, to : Pointers]

\* The rest of the types: a scope counts no more messages than there have been
\* replies.
TypeInv ==
    /\ hooked \in BOOLEAN
    /\ calls \in Seq(Calls)
    /\ Len(calls) <= MaxReplies
    /\ \A t \in Threads : \A i \in DOMAIN scopes[t] : scopes[t][i].count <= Len(calls)

\* A call is of its type, and goes to the innermost execution if, and only if,
\* the code's test finds that it is the caller's.
LEMMA CallSound ==
    ASSUME IInv, hooked \in BOOLEAN, NEW t \in Threads, NEW c \in Commands
    PROVE  /\ current[t] \in Pointers
           /\ Call(t, c, nullptr) \in Calls /\ Call(t, c, current[t]) \in Calls
           /\ ~ (hooked /\ Matches(t, c)) => Routed(Call(t, c, nullptr))
           /\ hooked /\ Matches(t, c) => Routed(Call(t, c, current[t]))
  <1> DEFINE n == Len(scopes[t])
             executing == Executing(t)
  <1>1. /\ scopes[t] \in Seq(Scope) /\ n \in Nat
        /\ (current[t] = nullptr) <=> (scopes[t] = << >>)
        /\ scopes[t] # << >> =>
             n \in DOMAIN scopes[t] /\ current[t] = <<t, n>> /\ Current(t) = scopes[t][n]
    BY CurrentIsLast
  <1>2. (n = 0) <=> (scopes[t] = << >>)
    BY <1>1
  <1>3. /\ executing \in Seq(Commands) /\ Len(executing) = n
        /\ n > 0 => executing[n] = scopes[t][n].command
    <2>1. \A i \in 1..n : scopes[t][i].command \in Commands
      <3>1. \A i \in 1..n : scopes[t][i] \in Scope
        BY <1>1
      <3> QED
        BY <3>1 DEF Scope
    <2>2. executing = [i \in 1..n |-> scopes[t][i].command]
      BY <1>1 DEF Executing
    <2> HIDE DEF n, executing
    <2> QED
      BY <1>1, <2>1, <2>2
  <1>4. current[t] \in Pointers /\ nullptr \in Pointers
    BY DEF IInv, Pointers
  <1>5. /\ \A to \in Pointers :
             /\ Call(t, c, to) \in Calls /\ Call(t, c, to).to = to
             /\ Call(t, c, to).thread = t /\ Call(t, c, to).command = c
             /\ Call(t, c, to).hooked = hooked /\ Call(t, c, to).executing = executing
    <2> HIDE DEF n
    <2> QED
      BY <1>3 DEF Call, Calls
  <1>6. Matches(t, c) <=> (n > 0 /\ executing[n] = c)
    <2> HIDE DEF executing, n
    <2> QED
      BY <1>1, <1>2, <1>3 DEF Matches
  <1> HIDE DEF executing, n
  <1>7. ~ (hooked /\ Matches(t, c)) => Routed(Call(t, c, nullptr))
    BY <1>3, <1>4, <1>5, <1>6 DEF Routed
  <1>8. hooked /\ Matches(t, c) => Routed(Call(t, c, current[t]))
    <2>1. Matches(t, c) => current[t] = <<t, n>>
      BY <1>1 DEF Matches
    <2> QED
      BY <1>3, <1>4, <1>5, <1>6, <2>1 DEF Routed
  <1> QED
    BY <1>4, <1>5, <1>7, <1>8

\* One more call at the end of the history.
LEMMA CallAdded ==
    ASSUME NEW call \in Calls, calls \in Seq(Calls), calls' = Append(calls, call)
    PROVE  /\ calls' \in Seq(Calls) /\ Len(calls') = Len(calls) + 1 /\ Len(calls) \in Nat
           /\ \A k \in DOMAIN calls' : \/ k \in DOMAIN calls /\ calls'[k] = calls[k]
                                      \/ calls'[k] = call
  OBVIOUS

\* receive counts a message once at most.
LEMMA ReceiveCounts ==
    ASSUME NEW last, last \in Scope, NEW units, NEW text, NEW after,
           \/ after = Failure(Record(last, units))
           \/ after = Accepted(Record(last, units), text)
           \/ after \in AcceptFailures(Record(last, units), text)
    PROVE  after.count = last.count \/ after.count = last.count + 1
  <1> DEFINE scope == Record(last, units)
  <1>1. /\ DOMAIN scope = {"command", "previous", "output", "count", "cut", "failed", "said"}
        /\ scope.count = last.count
    BY DEF Record, Scope
  <1> HIDE DEF scope
  <1>2. CASE after = Failure(scope)
    BY <1>1, <1>2 DEF Failure
  <1>3. CASE after = Accepted(scope, text)
    BY <1>1, <1>3 DEF Accepted
  <1>4. CASE after \in AcceptFailures(scope, text)
    BY <1>1, <1>4 DEF AcceptFailures
  <1> QED
    BY <1>2, <1>3, <1>4 DEF scope

\* Every step keeps the types, and every call goes where it must.
LEMMA CallsNext == IInv /\ TypeInv /\ CallsInv /\ [Next]_vars => TypeInv' /\ CallsInv'
  <1> SUFFICES ASSUME IInv, TypeInv, CallsInv, [Next]_vars PROVE TypeInv' /\ CallsInv'
    OBVIOUS
  <1>1. /\ MaxReplies \in Nat /\ hooked \in BOOLEAN
        /\ calls \in Seq(Calls) /\ Len(calls) \in Nat /\ Len(calls) <= MaxReplies
        /\ scopes \in [Threads -> Seq(Scope)]
        /\ \A t \in Threads : \A i \in DOMAIN scopes[t] :
                scopes[t][i].count \in Nat /\ scopes[t][i].count <= Len(calls)
    <2>1. \A t \in Threads : \A i \in DOMAIN scopes[t] : scopes[t][i] \in Scope
      BY DEF IInv, Sound, Bounded
    <2>2. calls \in Seq(Calls)
      BY DEF TypeInv
    <2>3. Len(calls) \in Nat
      BY <2>2
    <2> QED
      BY <2>1, <2>2, <2>3, BoundsAssumption DEF IInv, TypeInv, Scope
  <1>2. CASE UNCHANGED <<scopes, calls>> /\ hooked' \in BOOLEAN
    BY <1>1, <1>2 DEF TypeInv, CallsInv, Routed
  <1>3. ASSUME NEW call \in Calls, Routed(call), calls' = Append(calls, call),
               Len(calls) < MaxReplies, hooked' = hooked,
               \A t \in Threads : \A i \in DOMAIN scopes'[t] :
                    scopes'[t][i].count <= Len(calls) + 1
        PROVE  TypeInv' /\ CallsInv'
    <2>1. /\ calls' \in Seq(Calls) /\ Len(calls') = Len(calls) + 1
          /\ \A k \in DOMAIN calls' : \/ k \in DOMAIN calls /\ calls'[k] = calls[k]
                                     \/ calls'[k] = call
      BY <1>1, <1>3, CallAdded
    <2>2. CallsInv'
      <3>1. \A k \in DOMAIN calls' : Routed(calls'[k])
        BY <1>3, <2>1, Zenon DEF CallsInv
      <3> QED
        BY <3>1 DEF CallsInv, Routed
    <2>3. Len(calls') <= MaxReplies
      BY <1>1, <1>3, <2>1
    <2>4. \A t \in Threads : \A i \in DOMAIN scopes'[t] : scopes'[t][i].count <= Len(calls')
      BY <1>3, <2>1
    <2> QED
      BY <1>1, <1>3, <2>1, <2>2, <2>3, <2>4 DEF TypeInv
  <1>4. ASSUME NEW t \in Threads, NEW c \in Commands, PassThrough(t, c)
        PROVE  TypeInv' /\ CallsInv'
    <2>1. /\ Call(t, c, nullptr) \in Calls
          /\ ~ (hooked /\ Matches(t, c)) => Routed(Call(t, c, nullptr))
      BY <1>1, CallSound
    <2>2. /\ Len(calls) < MaxReplies /\ hooked' = hooked /\ scopes' = scopes
          /\ ~ (hooked /\ Matches(t, c)) /\ calls' = Append(calls, Call(t, c, nullptr))
      BY <1>4 DEF PassThrough
    <2> DEFINE call == Call(t, c, nullptr)
    <2>3. call \in Calls /\ Routed(call) /\ calls' = Append(calls, call)
      BY <2>1, <2>2
    <2> HIDE DEF call
    <2>4. \A u \in Threads : \A i \in DOMAIN scopes'[u] : scopes'[u][i].count <= Len(calls) + 1
      BY <1>1, <2>2
    <2> QED
      BY <1>3, <2>2, <2>3, <2>4
  <1>5. ASSUME NEW t \in Threads, NEW c \in Commands, NEW units \in Messages,
               Receive(t, c, units)
        PROVE  TypeInv' /\ CallsInv'
    <2> DEFINE n == Len(scopes[t])
               last == scopes[t][n]
               read == ReadMessage(units)
               text == Utf8(read)
               call == Call(t, c, current[t])
    <2>1. /\ Len(calls) < MaxReplies /\ hooked' = hooked /\ hooked /\ Matches(t, c)
          /\ calls' = Append(calls, call)
      BY <1>5 DEF Receive
    <2>2. /\ current[t] = <<t, n>> /\ Current(t) = last /\ n \in DOMAIN scopes[t]
          /\ scopes[t] \in Seq(Scope)
      BY <2>1, CurrentIsLast DEF Matches
    <2>3. call \in Calls /\ Routed(call)
      BY <1>1, <2>1, CallSound
    <2> HIDE DEF call
    <2>4. PICK after :
            /\ \/ after = Failure(Record(last, units))
               \/ after = Accepted(Record(last, units), text)
               \/ after \in AcceptFailures(Record(last, units), text)
            /\ scopes' = [scopes EXCEPT ![current[t][1]][current[t][2]] = after]
      BY <1>5, <2>2 DEF Receive
    <2>5. /\ last \in Scope /\ last.count \in Nat /\ last.count <= Len(calls)
      BY <1>1, <2>2
    <2>6. after.count = last.count \/ after.count = last.count + 1
      <3> HIDE DEF last, text, read
      <3> QED
        BY <2>4, <2>5, ReceiveCounts
    <2>7. after.count <= Len(calls) + 1
      <3> HIDE DEF last
      <3> QED
        BY <1>1, <2>5, <2>6
    <2>8. scopes' = [scopes EXCEPT ![t] = [scopes[t] EXCEPT ![n] = after]]
      <3>1. current[t][1] = t /\ current[t][2] = n
        BY <2>2
      <3> QED
        BY <2>4, <3>1, Zenon
    <2> HIDE DEF n
    <2>9. \A u \in Threads : \A i \in DOMAIN scopes'[u] :
                \/ i \in DOMAIN scopes[u] /\ scopes'[u][i] = scopes[u][i]
                \/ scopes'[u][i] = after
      <3>1. scopes'[t] = [scopes[t] EXCEPT ![n] = after]
        BY <1>1, <2>8
      <3>2. \A u \in Threads : u # t => scopes'[u] = scopes[u]
        BY <1>1, <2>8
      <3>3. \A i \in DOMAIN scopes'[t] :
                \/ i \in DOMAIN scopes[t] /\ scopes'[t][i] = scopes[t][i]
                \/ scopes'[t][i] = after
        BY <2>2, <3>1
      <3> QED
        BY <3>2, <3>3
    <2>10. \A u \in Threads : \A i \in DOMAIN scopes'[u] : scopes'[u][i].count <= Len(calls) + 1
      <3> SUFFICES ASSUME NEW u \in Threads, NEW i \in DOMAIN scopes'[u]
                   PROVE  scopes'[u][i].count <= Len(calls) + 1
        OBVIOUS
      <3>1. CASE i \in DOMAIN scopes[u] /\ scopes'[u][i] = scopes[u][i]
        <4>1. scopes[u][i].count \in Nat /\ scopes[u][i].count <= Len(calls)
          BY <1>1, <3>1
        <4> QED
          BY <1>1, <3>1, <4>1
      <3>2. CASE scopes'[u][i] = after
        BY <2>7, <3>2
      <3> QED
        BY <2>9, <3>1, <3>2
    <2> QED
      BY <1>3, <2>1, <2>3, <2>10
  <1>6. ASSUME NEW t \in Threads, NEW chain, scopes' = [scopes EXCEPT ![t] = chain],
               \A i \in DOMAIN chain :
                    \/ i \in DOMAIN scopes[t] /\ chain[i] = scopes[t][i]
                    \/ chain[i].count = 0,
               UNCHANGED <<hooked, calls>>
        PROVE  TypeInv' /\ CallsInv'
    <2>1. /\ scopes'[t] = chain
          /\ \A u \in Threads : u # t => scopes'[u] = scopes[u]
      BY <1>1, <1>6
    <2>2. \A u \in Threads : \A i \in DOMAIN scopes'[u] : scopes'[u][i].count <= Len(calls)
      BY <1>1, <1>6, <2>1
    <2> QED
      BY <1>1, <1>6, <2>2 DEF TypeInv, CallsInv, Routed
  <1>7. ASSUME NEW t \in Threads, NEW c \in Commands, Execute(t, c)
        PROVE  TypeInv' /\ CallsInv'
    <2> DEFINE scope == NewScope(t, c)
               chain == Append(scopes[t], scope)
    <2>1. scope.count = 0
      BY DEF NewScope
    <2>2. scopes' = [scopes EXCEPT ![t] = chain] /\ UNCHANGED <<hooked, calls>>
      BY <1>7 DEF Execute
    <2> HIDE DEF scope
    <2>3. \A i \in DOMAIN chain : \/ i \in DOMAIN scopes[t] /\ chain[i] = scopes[t][i]
                                 \/ chain[i] = scope
      <3>1. scopes[t] \in Seq(Scope)
        BY <1>1
      <3> QED
        BY <3>1
    <2> HIDE DEF chain
    <2>4. \A i \in DOMAIN chain : \/ i \in DOMAIN scopes[t] /\ chain[i] = scopes[t][i]
                                 \/ chain[i].count = 0
      BY <2>1, <2>3
    <2> QED
      BY <1>6, <2>2, <2>4
  <1>8. ASSUME NEW t \in Threads, Return(t) PROVE TypeInv' /\ CallsInv'
    <2> DEFINE chain == Front(scopes[t])
    <2>1. scopes' = [scopes EXCEPT ![t] = chain] /\ UNCHANGED <<hooked, calls>>
      BY <1>8 DEF Return
    <2>2. \A i \in DOMAIN chain : i \in DOMAIN scopes[t] /\ chain[i] = scopes[t][i]
      <3>1. scopes[t] \in Seq(Scope) /\ scopes[t] # << >>
        BY <1>1, <1>8 DEF Return
      <3> QED
        BY <3>1 DEF Front
    <2> HIDE DEF chain
    <2>3. \A i \in DOMAIN chain : \/ i \in DOMAIN scopes[t] /\ chain[i] = scopes[t][i]
                                 \/ chain[i].count = 0
      BY <2>2
    <2> QED
      BY <1>6, <2>1, <2>3
  <1> QED
    BY <1>1, <1>2, <1>4, <1>5, <1>7, <1>8 DEF Next, vars, Initialize, Shutdown

\* Both invariants hold in every state.
THEOREM CallsTheorem == Spec => [](IInv /\ TypeInv /\ CallsInv)
  <1>1. Init => TypeInv /\ CallsInv
    <2> SUFFICES ASSUME Init PROVE TypeInv /\ CallsInv
      OBVIOUS
    <2>1. /\ hooked = FALSE /\ calls = << >>
          /\ \A t \in Threads : DOMAIN scopes[t] = {}
      BY DEF Init
    <2>2. << >> \in Seq(Calls) /\ Len(<< >>) = 0 /\ DOMAIN << >> = {} /\ 0 <= MaxReplies
      BY BoundsAssumption
    <2> QED
      BY <2>1, <2>2 DEF TypeInv, CallsInv
  <1> QED
    BY <1>1, Invariance, CallsNext, PTL DEF Spec

\* Every thread has a chain of typed executions, which count no more messages
\* than there were replies, and pointers lie within it, for any limits.
THEOREM CaptureTypeCorrect == Spec => []TypeOK
  <1>1. IInv /\ TypeInv => TypeOK
    <2> SUFFICES ASSUME IInv, TypeInv PROVE TypeOK
      OBVIOUS
    <2> DEFINE Typed == [command : Commands, previous : Pointers, output : Seq(Bytes),
                         count : 0..MaxReplies, cut : BOOLEAN, failed : BOOLEAN,
                         said : Seq(Bytes)]
    <2>1. scopes \in [Threads -> Seq(Scope)] /\ current \in [Threads -> Pointers]
      BY DEF IInv
    <2>2. \A t \in Threads : \A i \in DOMAIN scopes[t] : scopes[t][i] \in Typed
      <3> SUFFICES ASSUME NEW t \in Threads, NEW i \in DOMAIN scopes[t]
                   PROVE  scopes[t][i] \in Typed
        OBVIOUS
      <3>1. scopes[t][i] \in Scope
        BY <2>1
      <3>2. scopes[t][i].count \in 0..MaxReplies
        <4>1. Len(calls) \in Nat /\ scopes[t][i].count \in Nat
          BY <3>1 DEF TypeInv, Scope
        <4> QED
          BY <4>1, BoundsAssumption DEF TypeInv
      <3> QED
        BY <3>1, <3>2 DEF Scope
    <2> HIDE DEF Typed
    <2>3. scopes \in [Threads -> Seq(Typed)]
      BY <2>1, <2>2
    <2> QED
      BY <2>1, <2>3 DEF TypeOK, TypeInv, Typed, Calls
  <1> QED
    BY <1>1, CallsTheorem, PTL

\* What is captured stays within the limit and ends with a whole code point,
\* for every limit, every message, and whatever converting and growing do.
THEOREM BoundedTheorem == Spec => []BoundedWholeCharacters
  <1>1. IInv => BoundedWholeCharacters
    <2> SUFFICES ASSUME IInv, NEW scope \in AllScopes
                 PROVE  Len(scope.output) <= MaxBytes /\ EndsWhole(scope.output)
      BY DEF BoundedWholeCharacters
    <2>1. PICK t \in Threads : scope \in Range(scopes[t])
      BY DEF AllScopes
    <2>2. PICK i \in DOMAIN scopes[t] : scope = scopes[t][i]
      BY <2>1 DEF Range
    <2> QED
      BY <2>2 DEF IInv, Sound, Bounded
  <1> QED
    BY <1>1, Invariance, PTL

\* Nothing is lost without a sign: a buffer that reports neither a cut nor a
\* failure holds all that was said to its scope, whatever the messages and the
\* limits of receive and accept.
THEOREM NoSilentLossTheorem == Spec => []NoSilentLoss
  <1>1. IInv => NoSilentLoss
    <2> SUFFICES ASSUME IInv, NEW scope \in AllScopes
                 PROVE  ~ scope.cut /\ ~ scope.failed => scope.output = scope.said
      BY DEF NoSilentLoss
    <2>1. PICK t \in Threads : scope \in Range(scopes[t])
      BY DEF AllScopes
    <2>2. PICK i \in DOMAIN scopes[t] : scope = scopes[t][i]
      BY <2>1 DEF Range
    <2> QED
      BY <2>2 DEF IInv, Sound
  <1> QED
    BY <1>1, Invariance, PTL

\* Every reply finds the execution it belongs to, or the original method if
\* there is none, however deep executions nest, whatever other threads do and
\* wherever the hook is taken away.
THEOREM RepliesTheorem == Spec => []RepliesFindTheirExecution
  <1>1. CallsInv => RepliesFindTheirExecution
    BY DEF CallsInv, Routed, RepliesFindTheirExecution
  <1> QED
    BY <1>1, CallsTheorem, PTL

=============================================================================
