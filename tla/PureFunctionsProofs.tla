------------------------- MODULE PureFunctionsProofs -------------------------
(***************************************************************************)
(* The parser of commands, the configuration, the live queries and the      *)
(* cross-reference scanner, for any input and any limits.                   *)
(***************************************************************************)
EXTENDS PureFunctions, Utf8TextProofs

-----------------------------------------------------------------------------
(* The two parsers, symbol by symbol *)

ScanState ==
    [tokens : Seq(Seq(Symbols)), token : Seq(Symbols),
     quoted : BOOLEAN, started : BOOLEAN, skip : BOOLEAN, failed : BOOLEAN]

WordState == [words : Seq(Seq(Symbols)), word : Seq(Symbols)]

\* A turn of the loop of parse_dispatch_request keeps the type of its variables.
LEMMA ScanTyped ==
    ASSUME NEW t \in Seq(Symbols), NEW i \in 1..Len(t), NEW scan \in ScanState
    PROVE  ScanSymbol(t, scan, i) \in ScanState
  <1>1. ASSUME NEW s \in ScanState PROVE Limited(s) \in ScanState
    BY DEF Limited, ScanState
  <1>2. ASSUME NEW c \in Symbols PROVE Put(scan, c) \in ScanState
    <2> DEFINE token == Append(scan.token, c)
    <2>1. token \in Seq(Symbols)
      BY <1>2 DEF ScanState
    <2>2. Put(scan, c) = [scan EXCEPT !.token = token, !.started = TRUE]
      BY DEF Put, ScanState
    <2> HIDE DEF token
    <2> QED
      BY <2>1, <2>2 DEF ScanState
  <1>3. Push(scan) \in ScanState
    <2> DEFINE tokens == Append(scan.tokens, scan.token)
    <2>1. tokens \in Seq(Seq(Symbols)) /\ << >> \in Seq(Symbols)
      BY DEF ScanState
    <2> HIDE DEF tokens
    <2>2. Push(scan) = IF scan.started
                       THEN [scan EXCEPT !.tokens = tokens, !.token = << >>, !.started = FALSE]
                       ELSE scan
      BY DEF Push, tokens, ScanState
    <2> QED
      BY <2>1, <2>2 DEF ScanState
  <1>4. ScanQuote(scan) \in ScanState
    BY DEF ScanQuote, ScanState
  <1>5. [scan EXCEPT !.skip = FALSE] \in ScanState /\ [scan EXCEPT !.failed = TRUE] \in ScanState
    BY DEF ScanState
  <1>6. ASSUME NEW s \in ScanState PROVE [s EXCEPT !.skip = TRUE] \in ScanState
    BY DEF ScanState
  <1>7. t[i] \in Symbols /\ (Escapes(t, i) => t[i + 1] \in Symbols)
    BY DEF Escapes
  <1>8. /\ Limited(Push(scan)) \in ScanState
        /\ Limited(Put(scan, t[i])) \in ScanState
        /\ Escapes(t, i) => Limited([Put(scan, t[i + 1]) EXCEPT !.skip = TRUE]) \in ScanState
    BY <1>1, <1>2, <1>3, <1>6, <1>7
  <1>9. scan.failed \in BOOLEAN /\ scan.skip \in BOOLEAN
    BY DEF ScanState
  <1> QED
    BY <1>4, <1>5, <1>8, <1>9 DEF ScanSymbol

\* Scan goes through the text symbol by symbol.
LEMMA ScanRun ==
    ASSUME NEW t \in Seq(Symbols)
    PROVE  \E scan :
            /\ scan[0] = NewScan
            /\ \A i \in Nat : i < Len(t) => scan[i + 1] = ScanSymbol(t, scan[i], i + 1)
            /\ Scan(t) = scan[Len(t)]
  <1> DEFINE n == Len(t)
             S == ScanState
             step == [x \in S \X (1..n) |-> ScanSymbol(t, x[1], x[2])]
             Recurs(f) == f = [i \in 0..n |-> IF i = 0 THEN NewScan
                                              ELSE ScanSymbol(t, f[i - 1], i)]
             scan == CHOOSE f : Recurs(f)
  <1>1. n \in Nat /\ Scan(t) = scan[n]
    BY DEF Scan
  <1>2. NewScan \in S
    BY DEF NewScan, ScanState
  <1>3. step \in [S \X (1..n) -> S]
    BY ScanTyped
  <1>4. ASSUME NEW s \in S, NEW i \in 1..n PROVE step[<<s, i>>] = ScanSymbol(t, s, i)
    OBVIOUS
  <1> HIDE DEF step, S, n
  <1>5. PICK run : Runs(run, NewScan, step, n, S)
    BY <1>1, <1>2, <1>3, RunExists
  <1>6. Recurs(run)
    <2>1. run \in [0..n -> S] /\ run[0] = NewScan
      BY <1>5, Zenon DEF Runs
    <2>2. ASSUME NEW i \in 0..n, i # 0 PROVE run[i] = ScanSymbol(t, run[i - 1], i)
      <3>1. i - 1 \in Nat /\ i - 1 < n /\ (i - 1) + 1 = i /\ i - 1 \in 0..n /\ i \in 1..n
        BY <1>1, <2>2
      <3>2. run[(i - 1) + 1] = step[<<run[i - 1], (i - 1) + 1>>]
        BY <1>5, <3>1, Zenon DEF Runs
      <3>3. run[i] = step[<<run[i - 1], i>>] /\ run[i - 1] \in S
        BY <2>1, <3>1, <3>2
      <3> QED
        BY <1>4, <3>1, <3>3
    <2>3. \A i \in 0..n : run[i] = IF i = 0 THEN NewScan ELSE ScanSymbol(t, run[i - 1], i)
      BY <2>1, <2>2
    <2> QED
      BY <2>1, <2>3
  <1>7. Recurs(scan)
    <2> HIDE DEF Recurs
    <2> QED
      BY <1>6
  <1>8. \A i \in 0..n : scan[i] = IF i = 0 THEN NewScan ELSE ScanSymbol(t, scan[i - 1], i)
    BY <1>7
  <1> HIDE DEF scan
  <1>9. scan[0] = NewScan
    BY <1>1, <1>8
  <1>10. ASSUME NEW i \in Nat, i < n PROVE scan[i + 1] = ScanSymbol(t, scan[i], i + 1)
    <2>1. i + 1 \in 0..n /\ i + 1 # 0 /\ (i + 1) - 1 = i
      BY <1>1, <1>10
    <2>2. scan[i + 1] = ScanSymbol(t, scan[(i + 1) - 1], i + 1)
      BY <1>8, <2>1
    <2> QED
      BY <2>1, <2>2
  <1> QED
    BY <1>1, <1>9, <1>10 DEF n

\* So does the reading of words for the GodMode parser.
LEMMA WordTyped ==
    ASSUME NEW read \in WordState, NEW c \in Symbols
    PROVE  WordSymbol(read, c) \in WordState
  <1> DEFINE word == Append(read.word, c)
             words == Append(read.words, read.word)
  <1>1. word \in Seq(Symbols) /\ words \in Seq(Seq(Symbols)) /\ << >> \in Seq(Symbols)
    BY DEF WordState
  <1> HIDE DEF word, words
  <1>2. WordSymbol(read, c) = IF c \notin Space THEN [read EXCEPT !.word = word]
                              ELSE IF read.word = << >> THEN read
                              ELSE [words |-> words, word |-> << >>]
    BY DEF WordSymbol, WordState, word, words
  <1> QED
    BY <1>1, <1>2 DEF WordState

\* Words goes through the text symbol by symbol, too.
LEMMA WordRun ==
    ASSUME NEW t \in Seq(Symbols)
    PROVE  \E read :
            /\ read \in [0..Len(t) -> WordState]
            /\ read[0] = NoWords
            /\ \A i \in Nat : i < Len(t) => read[i + 1] = WordSymbol(read[i], t[i + 1])
            /\ Words(t) = IF read[Len(t)].word = << >> THEN read[Len(t)].words
                          ELSE Append(read[Len(t)].words, read[Len(t)].word)
  <1> DEFINE n == Len(t)
             S == WordState
             step == [x \in S \X (1..n) |-> WordSymbol(x[1], t[x[2]])]
             Recurs(f) == f = [i \in 0..n |-> IF i = 0 THEN NoWords
                                              ELSE WordSymbol(f[i - 1], t[i])]
             read == CHOOSE f : Recurs(f)
  <1>1. n \in Nat /\ \A i \in 1..n : t[i] \in Symbols
    OBVIOUS
  <1>2. NoWords \in S
    BY DEF NoWords, WordState
  <1>3. step \in [S \X (1..n) -> S]
    BY <1>1, WordTyped
  <1>4. ASSUME NEW s \in S, NEW i \in 1..n PROVE step[<<s, i>>] = WordSymbol(s, t[i])
    OBVIOUS
  <1>5. Words(t) = IF read[n].word = << >> THEN read[n].words
                   ELSE Append(read[n].words, read[n].word)
    BY DEF Words
  <1> HIDE DEF step, S, n
  <1>6. PICK run : Runs(run, NoWords, step, n, S)
    BY <1>1, <1>2, <1>3, RunExists
  <1>7. Recurs(run)
    <2>1. run \in [0..n -> S] /\ run[0] = NoWords
      BY <1>6, Zenon DEF Runs
    <2>2. ASSUME NEW i \in 0..n, i # 0 PROVE run[i] = WordSymbol(run[i - 1], t[i])
      <3>1. i - 1 \in Nat /\ i - 1 < n /\ (i - 1) + 1 = i /\ i - 1 \in 0..n /\ i \in 1..n
        BY <1>1, <2>2
      <3>2. run[(i - 1) + 1] = step[<<run[i - 1], (i - 1) + 1>>]
        BY <1>6, <3>1, Zenon DEF Runs
      <3>3. run[i] = step[<<run[i - 1], i>>] /\ run[i - 1] \in S
        BY <2>1, <3>1, <3>2
      <3> QED
        BY <1>4, <3>1, <3>3
    <2>3. \A i \in 0..n : run[i] = IF i = 0 THEN NoWords ELSE WordSymbol(run[i - 1], t[i])
      BY <2>1, <2>2
    <2> QED
      BY <2>1, <2>3
  <1>8. Recurs(read)
    <2> HIDE DEF Recurs
    <2> QED
      BY <1>7
  <1>9. \A i \in 0..n : read[i] = IF i = 0 THEN NoWords ELSE WordSymbol(read[i - 1], t[i])
    BY <1>8
  <1>10. DOMAIN read = 0..n /\ read = [i \in 0..n |-> read[i]]
    BY <1>8
  <1> HIDE DEF read
  <1>11. read[0] = NoWords
    BY <1>1, <1>9
  <1>12. ASSUME NEW i \in Nat, i < n PROVE read[i + 1] = WordSymbol(read[i], t[i + 1])
    <2>1. i + 1 \in 0..n /\ i + 1 # 0 /\ (i + 1) - 1 = i
      BY <1>1, <1>12
    <2>2. read[i + 1] = WordSymbol(read[(i + 1) - 1], t[i + 1])
      BY <1>9, <2>1
    <2> QED
      BY <2>1, <2>2
  <1>13. \A i \in 0..n : read[i] \in S
    <2> DEFINE P(m) == {k \in Nat : k <= m => read[k] \in S}
    <2>1. 0 \in P(n)
      BY <1>2, <1>11
    <2>2. ASSUME NEW k \in Nat, k < n, k \in P(n) PROVE k + 1 \in P(n)
      <3>1. read[k] \in S /\ k + 1 \in 1..n
        BY <1>1, <2>2
      <3>2. WordSymbol(read[k], t[k + 1]) \in S
        BY <1>1, <3>1, WordTyped DEF S
      <3> QED
        BY <1>12, <2>2, <3>2
    <2>3. ASSUME NEW i \in 0..n PROVE read[i] \in S
      <3> DEFINE Q == P(n)
      <3>1. i \in Nat /\ \A k \in Nat : k < i /\ k \in Q => k + 1 \in Q
        BY <1>1, <2>2
      <3>2. 0 \in Q
        BY <2>1
      <3> HIDE DEF Q
      <3>3. i \in Q
        BY <3>1, <3>2, Induction
      <3> QED
        BY <3>3 DEF Q
    <2> QED
      BY <2>3
  <1>14. read \in [0..n -> S]
    BY <1>10, <1>13
  <1> QED
    BY <1>5, <1>11, <1>12, <1>14 DEF n, S

-----------------------------------------------------------------------------
(* Where the parts of a rendered command stand *)

Uncontrolled == Symbols \ Controls

\* at[j] is where the j-th symbol of an argument ends when it is escaped.
EscapedAt(at, argument) ==
    LET e == Escaped(argument)
    IN  /\ at[0] = 0 /\ at[Len(argument)] = Len(e)
        /\ \A j \in 0..Len(argument) : at[j] \in 0..Len(e)
        /\ \A j \in Nat : j < Len(argument) =>
            IF argument[j + 1] \in {"quote", "backslash"}
            THEN /\ at[j + 1] = at[j] + 2
                 /\ e[at[j] + 1] = "backslash" /\ e[at[j] + 2] = argument[j + 1]
            ELSE at[j + 1] = at[j] + 1 /\ e[at[j] + 1] = argument[j + 1]

\* There are places for the symbols of an escaped argument.
LEMMA EscapedPlaces ==
    ASSUME NEW argument \in Seq(Uncontrolled)
    PROVE  Escaped(argument) \in Seq(Uncontrolled) /\ \E at : EscapedAt(at, argument)
  <1> DEFINE n == Len(argument)
             T == Uncontrolled
             Piece(c) == IF c \in {"quote", "backslash"} THEN <<"backslash", c>> ELSE <<c>>
             parts == [i \in DOMAIN argument |-> Piece(argument[i])]
             e == Escaped(argument)
  <1>1. n \in Nat /\ \A i \in 1..n : argument[i] \in T
    OBVIOUS
  <1>2. "backslash" \in T
    BY DEF Uncontrolled, Symbols, Controls
  <1> HIDE DEF T
  <1>3. ASSUME NEW c \in T
        PROVE  /\ Piece(c) \in Seq(T)
               /\ c \in {"quote", "backslash"} =>
                    Len(Piece(c)) = 2 /\ Piece(c)[1] = "backslash" /\ Piece(c)[2] = c
               /\ c \notin {"quote", "backslash"} => Len(Piece(c)) = 1 /\ Piece(c)[1] = c
    <2> DEFINE b == "backslash"
    <2>1. b \in T
      BY <1>2
    <2> HIDE DEF b
    <2>2. /\ <<b, c>> \in Seq(T) /\ Len(<<b, c>>) = 2
          /\ <<b, c>>[1] = b /\ <<b, c>>[2] = c
      BY <2>1
    <2>3. <<c>> \in Seq(T) /\ Len(<<c>>) = 1 /\ <<c>>[1] = c
      OBVIOUS
    <2> QED
      BY <2>2, <2>3 DEF b
  <1> HIDE DEF Piece
  <1>4. /\ parts \in Seq(Seq(T)) /\ Len(parts) = n
        /\ \A i \in 1..n : parts[i] = Piece(argument[i])
    <2>1. \A i \in 1..n : Piece(argument[i]) \in Seq(T)
      BY <1>1, <1>3
    <2> QED
      BY <1>1, <2>1
  <1>5. e = FlattenSeq(parts)
    BY DEF Escaped, Piece
  <1> HIDE DEF parts, n, e
  <1>6. PICK joined : Joins(joined, parts, n, T)
    BY <1>4, JoinsExist
  <1>7. e = joined[n]
    BY <1>4, <1>5, <1>6, FlattenJoins
  <1>8. joined[0] = << >> /\ \A j \in 0..n : joined[j] \in Seq(T)
    BY <1>1, <1>6, JoinsType
  <1> DEFINE at == [j \in 0..n |-> Len(joined[j])]
  <1>9. /\ \A j \in 0..n : at[j] \in Nat /\ at[j] = Len(joined[j])
        /\ at[0] = 0 /\ at[n] = Len(e)
    <2>1. \A j \in 0..n : at[j] = Len(joined[j])
      OBVIOUS
    <2> HIDE DEF at
    <2>2. ASSUME NEW j \in 0..n PROVE at[j] \in Nat
      <3> DEFINE text == joined[j]
      <3>1. text \in Seq(T) /\ at[j] = Len(text)
        BY <1>8, <2>1
      <3> HIDE DEF text
      <3> QED
        BY <3>1
    <2>3. 0 \in 0..n /\ n \in 0..n
      BY <1>1
    <2>4. Len(<< >>) = 0
      OBVIOUS
    <2> QED
      BY <1>7, <1>8, <2>1, <2>2, <2>3, <2>4
  <1> HIDE DEF at
  <1>10. ASSUME NEW j \in Nat, j < n
         PROVE  /\ at[j + 1] = at[j] + Len(Piece(argument[j + 1]))
                /\ at[j + 1] <= Len(e)
                /\ \A i \in 1..Len(Piece(argument[j + 1])) :
                        e[at[j] + i] = Piece(argument[j + 1])[i]
    <2>1. j \in 0..n /\ j + 1 \in 0..n /\ j + 1 \in 1..n
      BY <1>1, <1>10
    <2>2. /\ Len(joined[j + 1]) = Len(joined[j]) + Len(parts[j + 1])
          /\ Len(joined[j + 1]) <= Len(joined[n])
          /\ \A i \in 1..Len(parts[j + 1]) : joined[n][Len(joined[j]) + i] = parts[j + 1][i]
      <3>1. Placed(joined, parts, n, j)
        BY <1>4, <1>6, <1>10, JoinsPlaces
      <3> QED
        BY <3>1 DEF Placed
    <2>3. at[j] = Len(joined[j]) /\ at[j + 1] = Len(joined[j + 1])
          /\ parts[j + 1] = Piece(argument[j + 1])
      BY <1>4, <1>9, <2>1
    <2> QED
      BY <1>7, <2>2, <2>3, Zenon
  <1>11. ASSUME NEW j \in 0..n PROVE at[j] \in 0..Len(e)
    <2>1. at[j] \in Nat /\ at[n] = Len(e) /\ n \in 0..n
      BY <1>1, <1>9
    <2>2. CASE j = n
      BY <1>9, <2>1, <2>2
    <2>3. CASE j # n
      <3>1. j \in Nat /\ j < n /\ j + 1 \in 1..n
        BY <1>1, <2>3
      <3>2. Len(Piece(argument[j + 1])) \in Nat
        <4> DEFINE piece == Piece(argument[j + 1])
        <4>1. piece \in Seq(T)
          BY <1>1, <1>3, <3>1
        <4> HIDE DEF piece
        <4> QED
          BY <4>1 DEF piece
      <3>3. at[j + 1] = at[j] + Len(Piece(argument[j + 1])) /\ at[j + 1] <= Len(e)
        BY <1>10, <3>1
      <3>4. Len(e) \in Nat
        BY <2>1, <1>9
      <3> QED
        BY <2>1, <3>2, <3>3, <3>4
    <2> QED
      BY <2>2, <2>3
  <1>12. ASSUME NEW j \in Nat, j < n
         PROVE  IF argument[j + 1] \in {"quote", "backslash"}
                THEN /\ at[j + 1] = at[j] + 2
                     /\ e[at[j] + 1] = "backslash" /\ e[at[j] + 2] = argument[j + 1]
                ELSE at[j + 1] = at[j] + 1 /\ e[at[j] + 1] = argument[j + 1]
    <2> DEFINE c == argument[j + 1]
    <2>1. c \in T
      BY <1>1, <1>12
    <2> HIDE DEF c
    <2>2. /\ at[j + 1] = at[j] + Len(Piece(c))
          /\ \A i \in 1..Len(Piece(c)) : e[at[j] + i] = Piece(c)[i]
      BY <1>10, <1>12 DEF c
    <2>3. CASE c \in {"quote", "backslash"}
      <3>1. Len(Piece(c)) = 2 /\ Piece(c)[1] = "backslash" /\ Piece(c)[2] = c
        BY <1>3, <2>1, <2>3
      <3>2. 1 \in 1..Len(Piece(c)) /\ 2 \in 1..Len(Piece(c))
        BY <3>1
      <3> QED
        BY <2>2, <2>3, <3>1, <3>2 DEF c
    <2>4. CASE c \notin {"quote", "backslash"}
      <3>1. Len(Piece(c)) = 1 /\ Piece(c)[1] = c
        BY <1>3, <2>1, <2>4
      <3>2. 1 \in 1..Len(Piece(c))
        BY <3>1
      <3> QED
        BY <2>2, <2>4, <3>1, <3>2 DEF c
    <2> QED
      BY <2>3, <2>4
  <1>13. e \in Seq(T)
    BY <1>1, <1>7, <1>8
  <1>14. EscapedAt(at, argument)
    BY <1>9, <1>11, <1>12 DEF EscapedAt, n, e
  <1> QED
    BY <1>13, <1>14 DEF T, e

\* c is a with b behind it.
IsConcat(c, a, b, T) ==
    /\ c \in Seq(T)
    /\ Len(a) \in Nat /\ Len(b) \in Nat /\ Len(c) = Len(a) + Len(b)
    /\ \A i \in 1..Len(a) : c[i] = a[i]
    /\ \A i \in 1..Len(b) : c[Len(a) + i] = b[i]

\* What is put together is that.
LEMMA Concatenated ==
    ASSUME NEW T, NEW a \in Seq(T), NEW b \in Seq(T), NEW c, c = a \o b
    PROVE  IsConcat(c, a, b, T)
  BY DEF IsConcat

\* A quoted argument is a blank, a quote, the escaped symbols and a quote.
LEMMA QuotedShape ==
    ASSUME NEW argument \in Seq(Uncontrolled)
    PROVE  LET e == Escaped(argument)
               part == <<"blank">> \o Quoted(argument)
           IN  /\ e \in Seq(Uncontrolled) /\ part \in Seq(Uncontrolled)
               /\ Len(part) = Len(e) + 3
               /\ part[1] = "blank" /\ part[2] = "quote" /\ part[Len(e) + 3] = "quote"
               /\ \A i \in 1..Len(e) : part[2 + i] = e[i]
  <1> DEFINE T == Uncontrolled
             e == Escaped(argument)
             blank == <<"blank">>
             quote == <<"quote">>
  <1>1. e \in Seq(T)
    BY EscapedPlaces
  <1>2. /\ blank \in Seq(T) /\ Len(blank) = 1 /\ blank[1] = "blank"
        /\ quote \in Seq(T) /\ Len(quote) = 1 /\ quote[1] = "quote"
    <2>1. "blank" \in T /\ "quote" \in T
      BY DEF Uncontrolled, Symbols, Controls
    <2> HIDE DEF T
    <2> QED
      BY <2>1
  <1>3. Quoted(argument) = quote \o e \o quote
    BY DEF Quoted
  <1> HIDE DEF T, e, blank, quote
  <1> DEFINE begin == quote \o e
             all == begin \o quote
             part == blank \o all
  <1>4. /\ begin \in Seq(T) /\ Len(begin) = Len(e) + 1 /\ begin[1] = "quote" /\ Len(e) \in Nat
        /\ \A i \in 1..Len(e) : begin[1 + i] = e[i]
    <2>1. IsConcat(begin, quote, e, T)
      BY <1>1, <1>2, Concatenated
    <2> HIDE DEF begin
    <2> QED
      BY <1>2, <2>1 DEF IsConcat
  <1> HIDE DEF begin
  <1>5. /\ all \in Seq(T) /\ Len(all) = Len(begin) + 1 /\ all[Len(begin) + 1] = "quote"
        /\ \A i \in 1..Len(begin) : all[i] = begin[i]
    <2>1. IsConcat(all, begin, quote, T)
      BY <1>2, <1>4, Concatenated
    <2> HIDE DEF all
    <2> QED
      BY <1>2, <2>1 DEF IsConcat
  <1> HIDE DEF all
  <1>6. /\ part \in Seq(T) /\ Len(part) = Len(all) + 1 /\ part[1] = "blank"
        /\ \A i \in 1..Len(all) : part[1 + i] = all[i]
    <2>1. IsConcat(part, blank, all, T)
      BY <1>2, <1>5, Concatenated
    <2> HIDE DEF part
    <2> QED
      BY <1>2, <2>1 DEF IsConcat
  <1> HIDE DEF part
  <1>7. /\ Len(part) = Len(e) + 3 /\ part[Len(e) + 3] = "quote" /\ part[2] = "quote"
    <2>1. 1 \in 1..Len(all) /\ 1 \in 1..Len(begin) /\ Len(all) = Len(e) + 2
          /\ Len(e) + 2 \in 1..Len(all) /\ 1 + (Len(e) + 2) = Len(e) + 3
          /\ Len(begin) + 1 = Len(e) + 2
      BY <1>4, <1>5
    <2>2. part[1 + (Len(e) + 2)] = all[Len(e) + 2] /\ part[1 + 1] = all[1] /\ all[1] = begin[1]
      BY <1>5, <1>6, <2>1
    <2> QED
      BY <1>4, <1>5, <1>6, <2>1, <2>2
  <1>8. ASSUME NEW i \in 1..Len(e) PROVE part[2 + i] = e[i]
    <2>1. 1 + i \in 1..Len(begin) /\ 1 + i \in 1..Len(all) /\ 1 + (1 + i) = 2 + i
      BY <1>4, <1>5
    <2>2. part[1 + (1 + i)] = all[1 + i] /\ all[1 + i] = begin[1 + i] /\ begin[1 + i] = e[i]
      BY <1>4, <1>5, <1>6, <2>1
    <2> QED
      BY <2>1, <2>2
  <1> QED
    BY <1>1, <1>3, <1>6, <1>7, <1>8, Zenon DEF part, all, begin, T, e, blank, quote

\* at[k] is where the k-th argument ends in the text of a command.
RenderedAt(at, arguments_) ==
    LET t == Rendered(arguments_)
    IN  /\ at[0] = 5 /\ at[Len(arguments_)] = Len(t)
        /\ Len(t) \in Nat /\ Len(t) >= 5
        /\ t[1] = "exec" /\ t[2] = "blank" /\ t[3] = "id" /\ t[4] = "blank" /\ t[5] = "a"
        /\ \A k \in Nat : k < Len(arguments_) =>
            LET e == Escaped(arguments_[k + 1])
            IN  /\ at[k] \in Nat /\ Len(e) \in Nat
                /\ at[k + 1] = at[k] + Len(e) + 3 /\ at[k + 1] <= Len(t)
                /\ t[at[k] + 1] = "blank" /\ t[at[k] + 2] = "quote"
                /\ t[at[k] + Len(e) + 3] = "quote"
                /\ \A i \in 1..Len(e) : t[at[k] + (2 + i)] = e[i]

\* There are places for the parts of a rendered command.
LEMMA RenderedPlaces ==
    ASSUME NEW arguments_ \in Seq(Seq(Uncontrolled))
    PROVE  Rendered(arguments_) \in Seq(Uncontrolled) /\ \E at : RenderedAt(at, arguments_)
  <1> DEFINE n == Len(arguments_)
             T == Uncontrolled
             Part(k) == <<"blank">> \o Quoted(arguments_[k])
             parts == [k \in DOMAIN arguments_ |-> Part(k)]
             head == <<"exec", "blank", "id", "blank", "a">>
             t == Rendered(arguments_)
  <1>1. n \in Nat /\ \A k \in 1..n : arguments_[k] \in Seq(T)
    OBVIOUS
  <1>2. /\ head \in Seq(T) /\ Len(head) = 5
        /\ head[1] = "exec" /\ head[2] = "blank" /\ head[3] = "id" /\ head[4] = "blank"
        /\ head[5] = "a"
    <2>1. {"exec", "blank", "id", "a"} \subseteq T
      BY DEF Uncontrolled, Symbols, Controls
    <2> HIDE DEF T
    <2> QED
      BY <2>1
  <1>3. ASSUME NEW k \in 1..n
        PROVE  LET e == Escaped(arguments_[k])
               IN  /\ Part(k) \in Seq(T) /\ Len(e) \in Nat
                   /\ Len(Part(k)) = Len(e) + 3
                   /\ Part(k)[1] = "blank" /\ Part(k)[2] = "quote"
                   /\ Part(k)[Len(e) + 3] = "quote"
                   /\ \A i \in 1..Len(e) : Part(k)[2 + i] = e[i]
    <2> DEFINE argument == arguments_[k]
               e == Escaped(argument)
               part == <<"blank">> \o Quoted(argument)
    <2>1. argument \in Seq(T)
      BY <1>1
    <2> HIDE DEF argument
    <2>2. /\ e \in Seq(T) /\ part \in Seq(T) /\ Len(part) = Len(e) + 3
          /\ part[1] = "blank" /\ part[2] = "quote" /\ part[Len(e) + 3] = "quote"
          /\ \A i \in 1..Len(e) : part[2 + i] = e[i]
      BY <2>1, QuotedShape, Zenon
    <2> HIDE DEF e, part
    <2>3. Len(e) \in Nat
      BY <2>2
    <2> QED
      BY <2>2, <2>3, Zenon DEF e, part, argument
  <1> HIDE DEF Part
  <1>4. /\ parts \in Seq(Seq(T)) /\ Len(parts) = n
        /\ \A k \in 1..n : parts[k] = Part(k)
    <2>1. \A k \in 1..n : Part(k) \in Seq(T)
      BY <1>3
    <2>2. DOMAIN arguments_ = 1..n
      BY <1>1
    <2> QED
      BY <1>1, <2>1, <2>2
  <1>5. t = head \o FlattenSeq(parts)
    BY DEF Rendered, Part
  <1> HIDE DEF parts, n, t, head, T
  <1>6. PICK joined : Joins(joined, parts, n, T)
    BY <1>4, JoinsExist
  <1>7. FlattenSeq(parts) = joined[n]
    BY <1>4, <1>6, FlattenJoins
  <1>8. joined[0] = << >> /\ \A k \in 0..n : joined[k] \in Seq(T)
    BY <1>1, <1>6, JoinsType
  <1>9. \A k \in 0..n : Len(joined[k]) \in Nat
    <2> SUFFICES ASSUME NEW k \in 0..n PROVE Len(joined[k]) \in Nat
      OBVIOUS
    <2> DEFINE text == joined[k]
    <2>1. text \in Seq(T)
      BY <1>8
    <2> HIDE DEF text
    <2>2. Len(text) \in Nat
      BY <2>1
    <2> QED
      BY <2>2 DEF text
  <1> DEFINE body == joined[n]
             at == [k \in 0..n |-> 5 + Len(joined[k])]
  <1>10. body \in Seq(T) /\ t = head \o body
    BY <1>1, <1>5, <1>7, <1>8
  <1> HIDE DEF body
  <1>11. /\ t \in Seq(T) /\ Len(t) = 5 + Len(body) /\ Len(body) \in Nat
         /\ t[1] = "exec" /\ t[2] = "blank" /\ t[3] = "id" /\ t[4] = "blank" /\ t[5] = "a"
         /\ \A i \in 1..Len(body) : t[5 + i] = body[i]
    <2>1. /\ t \in Seq(T) /\ Len(t) = 5 + Len(body) /\ Len(body) \in Nat
          /\ \A i \in 1..5 : t[i] = head[i]
          /\ \A i \in 1..Len(body) : t[5 + i] = body[i]
      <3>1. IsConcat(t, head, body, T)
        BY <1>2, <1>10, Concatenated
      <3> QED
        BY <1>2, <3>1 DEF IsConcat
    <2>2. t[1] = head[1] /\ t[2] = head[2] /\ t[3] = head[3] /\ t[4] = head[4] /\ t[5] = head[5]
      BY <2>1
    <2> QED
      BY <1>2, <2>1, <2>2
  <1>12. /\ \A k \in 0..n : at[k] \in Nat /\ at[k] = 5 + Len(joined[k])
         /\ at[0] = 5 /\ at[n] = Len(t)
    <2>1. \A k \in 0..n : at[k] = 5 + Len(joined[k])
      OBVIOUS
    <2> HIDE DEF at
    <2>2. 0 \in 0..n /\ n \in 0..n /\ Len(<< >>) = 0
      BY <1>1
    <2>3. at[0] = 5
      BY <1>8, <2>1, <2>2
    <2>4. at[n] = Len(t)
      BY <1>11, <2>1, <2>2 DEF body
    <2>5. \A k \in 0..n : at[k] \in Nat
      BY <1>9, <2>1
    <2> QED
      BY <2>1, <2>3, <2>4, <2>5
  <1> HIDE DEF at
  <1>13. ASSUME NEW k \in Nat, k < n
         PROVE  LET e == Escaped(arguments_[k + 1])
                IN  /\ at[k] \in Nat /\ Len(e) \in Nat
                    /\ at[k + 1] = at[k] + Len(e) + 3 /\ at[k + 1] <= Len(t)
                    /\ t[at[k] + 1] = "blank" /\ t[at[k] + 2] = "quote"
                    /\ t[at[k] + Len(e) + 3] = "quote"
                    /\ \A i \in 1..Len(e) : t[at[k] + (2 + i)] = e[i]
    <2> DEFINE e == Escaped(arguments_[k + 1])
               part == parts[k + 1]
               before == Len(joined[k])
               le == Len(e)
    <2>1. k \in 0..n /\ k + 1 \in 0..n /\ k + 1 \in 1..n
      BY <1>1, <1>13
    <2>2. Placed(joined, parts, n, k)
      BY <1>4, <1>6, <1>13, JoinsPlaces
    <2>3. /\ Len(joined[k + 1]) = before + Len(part)
          /\ Len(joined[k + 1]) <= Len(body)
          /\ \A i \in 1..Len(part) : body[before + i] = part[i]
      BY <2>2 DEF Placed, body
    <2>4. part = Part(k + 1) /\ at[k] = 5 + before /\ at[k + 1] = 5 + Len(joined[k + 1])
          /\ before \in Nat
      BY <1>4, <1>9, <1>12, <2>1
    <2>5. /\ le \in Nat /\ Len(part) = le + 3
          /\ part[1] = "blank" /\ part[2] = "quote" /\ part[le + 3] = "quote"
          /\ \A i \in 1..le : part[2 + i] = e[i]
      BY <1>3, <2>1, <2>4
    <2> HIDE DEF part, before, e, le
    <2>6. /\ before + Len(part) <= Len(body) /\ Len(part) \in Nat
      BY <2>3, <2>5
    <2>7. ASSUME NEW i \in 1..Len(part) PROVE t[at[k] + i] = part[i]
      <3>1. before + i \in 1..Len(body) /\ 5 + (before + i) = at[k] + i
        BY <2>4, <2>6, <1>11
      <3>2. t[5 + (before + i)] = body[before + i] /\ body[before + i] = part[i]
        BY <1>11, <2>3, <3>1
      <3> QED
        BY <3>1, <3>2
    <2>8. at[k] \in Nat /\ at[k + 1] = at[k] + le + 3 /\ at[k + 1] <= Len(t)
      <3>1. at[k] = 5 + before /\ at[k + 1] = 5 + (before + (le + 3)) /\ before \in Nat /\ le \in Nat
        BY <2>3, <2>4, <2>5
      <3>2. before + (le + 3) <= Len(body) /\ Len(t) = 5 + Len(body) /\ Len(body) \in Nat
        BY <1>11, <2>5, <2>6
      <3> QED
        BY <3>1, <3>2
    <2>9. t[at[k] + 1] = "blank" /\ t[at[k] + 2] = "quote" /\ t[at[k] + le + 3] = "quote"
      <3>1. 1 \in 1..Len(part) /\ 2 \in 1..Len(part) /\ le + 3 \in 1..Len(part)
            /\ at[k] + (le + 3) = at[k] + le + 3
        BY <2>5, <2>8
      <3> QED
        BY <2>5, <2>7, <3>1
    <2>10. ASSUME NEW i \in 1..le PROVE t[at[k] + (2 + i)] = e[i]
      <3>1. 2 + i \in 1..Len(part)
        BY <2>5
      <3> QED
        BY <2>5, <2>7, <3>1
    <2> QED
      BY <2>5, <2>8, <2>9, <2>10, Zenon DEF e, le
  <1>14. Len(t) \in Nat /\ Len(t) >= 5
    BY <1>11
  <1>15. RenderedAt(at, arguments_)
    BY <1>11, <1>12, <1>13, <1>14, Zenon DEF RenderedAt, n, t
  <1> QED
    BY <1>11, <1>15 DEF T, t

-----------------------------------------------------------------------------
(* The round trip of arguments *)

\* A text with no blanks at its ends is left as it is.
LEMMA TrimmedWhole ==
    ASSUME NEW t \in Seq(Symbols), Len(t) >= 1, t[1] \notin Space, t[Len(t)] \notin Space
    PROVE  Trimmed(t) = t
  <1> DEFINE n == Len(t)
             I == {i \in 1..n : t[i] \notin Space}
  <1>1. n \in Nat /\ 1 \in I /\ n \in I /\ \A i \in I : 1 <= i /\ i <= n
    OBVIOUS
  <1>2. Trimmed(t) = LET first == IF I # {} THEN Min(I) ELSE 0
                         last == IF I # {} THEN Max(I) ELSE 0
                     IN  IF first = 0 THEN << >> ELSE SubSeq(t, first, last)
    BY DEF Trimmed, SelectInSeq, SelectLastInSeq
  <1> HIDE DEF I, n
  <1>3. Min(I) = 1 /\ Max(I) = n
    <2>1. \A i \in I : i \in Nat
      BY <1>1 DEF I
    <2>2. ASSUME NEW x \in I, \A y \in I : x <= y PROVE x = 1
      BY <1>1, <2>1, <2>2
    <2>3. ASSUME NEW x \in I, \A y \in I : x >= y PROVE x = n
      BY <1>1, <2>1, <2>3
    <2>4. \A y \in I : 1 <= y
      BY <1>1
    <2>5. \A y \in I : n >= y
      BY <1>1, <2>1
    <2>6. Min(I) = 1
      BY <1>1, <2>2, <2>4, Zenon DEF Min
    <2>7. Max(I) = n
      <3>1. n \in I
        BY <1>1
      <3> QED
        BY <2>3, <2>5, <3>1, Zenon DEF Max
    <2> QED
      BY <2>6, <2>7
  <1>4. Trimmed(t) = SubSeq(t, 1, n)
    <2>1. I # {}
      BY <1>1
    <2> HIDE DEF I
    <2>2. Trimmed(t) = IF Min(I) = 0 THEN << >> ELSE SubSeq(t, Min(I), Max(I))
      BY <1>2, <2>1, Zenon
    <2> QED
      BY <1>3, <2>2
  <1> QED
    BY <1>4 DEF n

\* An !exec is no command of the parser that is asked first.
LEMMA NotGodMode ==
    ASSUME NEW t \in Seq(Symbols), Len(t) >= 2, t[1] = "exec", t[2] = "blank"
    PROVE  GodModeParse(t) = Unparsed
  <1> DEFINE n == Len(t)
             exec == <<"exec">>
             First(words) == Len(words) >= 1 /\ words[1] = exec
  <1>1. PICK read :
            /\ read \in [0..n -> WordState]
            /\ read[0] = NoWords
            /\ \A i \in Nat : i < n => read[i + 1] = WordSymbol(read[i], t[i + 1])
            /\ Words(t) = IF read[n].word = << >> THEN read[n].words
                          ELSE Append(read[n].words, read[n].word)
    BY WordRun
  <1>2. n \in Nat /\ 2 <= n
    OBVIOUS
  <1>3. \A i \in 0..n : /\ read[i].words \in Seq(Seq(Symbols)) /\ read[i].word \in Seq(Symbols)
                        /\ read[i] = [words |-> read[i].words, word |-> read[i].word]
    BY <1>1 DEF WordState
  <1> HIDE DEF n
  <1>4. First(read[2].words)
    <2>1. read[1] = WordSymbol(NoWords, "exec")
      <3>1. 0 \in Nat /\ 0 < n /\ 0 + 1 = 1
        BY <1>2
      <3> QED
        BY <1>1, <3>1
    <2>2. read[1] = [words |-> << >>, word |-> exec]
      BY <2>1 DEF WordSymbol, NoWords, Space
    <2>3. read[2] = WordSymbol(read[1], "blank")
      <3>1. 1 \in Nat /\ 1 < n /\ 1 + 1 = 2
        BY <1>2
      <3> QED
        BY <1>1, <3>1
    <2>4. read[2].words = <<exec>>
      BY <2>2, <2>3 DEF WordSymbol, Space
    <2> HIDE DEF exec
    <2> QED
      BY <2>4
  <1> HIDE DEF exec
  <1>5. ASSUME NEW words \in Seq(Seq(Symbols)), First(words), NEW word
        PROVE  First(Append(words, word))
    BY <1>5
  <1> HIDE DEF First
  <1> DEFINE S == {m \in Nat : m <= 1 \/ First(read[m].words)}
  <1>6. ASSUME NEW m \in Nat, m < n, m \in S PROVE m + 1 \in S
    <2>1. CASE m < 1
      BY <2>1
    <2>2. CASE m = 1
      BY <1>4, <2>2
    <2>3. CASE m > 1
      <3>1. First(read[m].words) /\ m \in 0..n
        BY <1>2, <1>6, <2>3
      <3>2. read[m + 1] = WordSymbol(read[m], t[m + 1])
        BY <1>1, <1>6
      <3>3. \/ read[m + 1].words = read[m].words
            \/ read[m + 1].words = Append(read[m].words, read[m].word)
        BY <1>3, <3>1, <3>2 DEF WordSymbol
      <3>4. First(read[m + 1].words)
        BY <1>3, <1>5, <3>1, <3>3
      <3> QED
        BY <3>4
    <2> QED
      BY <2>1, <2>2, <2>3
  <1>7. n \in S
    <2>1. 0 \in S /\ \A m \in Nat : m < n /\ m \in S => m + 1 \in S
      BY <1>6
    <2> HIDE DEF S
    <2> QED
      BY <1>2, <2>1, Induction
  <1>8. First(read[n].words) /\ n \in 0..n
    BY <1>2, <1>7
  <1>9. First(Words(t))
    BY <1>1, <1>3, <1>5, <1>8
  <1>10. Words(t) # << >> /\ Words(t)[1] = exec
    BY <1>9 DEF First
  <1>11. /\ Unhashed(exec) = exec /\ exec # <<"god">> /\ exec # <<"state">>
    BY DEF Unhashed, exec
  <1> QED
    BY <1>10, <1>11 DEF GodModeParse

\* A scan, by its parts; and one that is going on.
Turn(tokens, token, quoted, started, skip, failed) ==
    [tokens |-> tokens, token |-> token, quoted |-> quoted, started |-> started,
     skip |-> skip, failed |-> failed]

\* The names keep the truth values apart from the other fields in the proofs.
Yes == TRUE
No == FALSE

At(tokens, token, quoted, started) == Turn(tokens, token, quoted, started, No, No)

\* The fields of a scan.
LEMMA TurnFields ==
    ASSUME NEW tokens, NEW token, NEW quoted, NEW started, NEW skip, NEW failed
    PROVE  LET turn == Turn(tokens, token, quoted, started, skip, failed)
           IN  /\ turn.tokens = tokens /\ turn.token = token /\ turn.quoted = quoted
               /\ turn.started = started /\ turn.skip = skip /\ turn.failed = failed
  BY DEF Turn

\* One field of a scan is changed at a time.
LEMMA TurnTokens ==
    ASSUME NEW tokens, NEW token, NEW quoted, NEW started, NEW skip, NEW failed, NEW x
    PROVE  [Turn(tokens, token, quoted, started, skip, failed) EXCEPT !.tokens = x]
              = Turn(x, token, quoted, started, skip, failed)
  BY DEF Turn

\* The token of a scan changed.
LEMMA TurnToken ==
    ASSUME NEW tokens, NEW token, NEW quoted, NEW started, NEW skip, NEW failed, NEW x
    PROVE  [Turn(tokens, token, quoted, started, skip, failed) EXCEPT !.token = x]
              = Turn(tokens, x, quoted, started, skip, failed)
  BY DEF Turn

\* Its quoted changed.
LEMMA TurnQuoted ==
    ASSUME NEW tokens, NEW token, NEW quoted, NEW started, NEW skip, NEW failed, NEW x
    PROVE  [Turn(tokens, token, quoted, started, skip, failed) EXCEPT !.quoted = x]
              = Turn(tokens, token, x, started, skip, failed)
  BY DEF Turn

\* Its started changed.
LEMMA TurnStarted ==
    ASSUME NEW tokens, NEW token, NEW quoted, NEW started, NEW skip, NEW failed, NEW x
    PROVE  [Turn(tokens, token, quoted, started, skip, failed) EXCEPT !.started = x]
              = Turn(tokens, token, quoted, x, skip, failed)
  BY DEF Turn

\* Its skip changed.
LEMMA TurnSkip ==
    ASSUME NEW tokens, NEW token, NEW quoted, NEW started, NEW skip, NEW failed, NEW x
    PROVE  [Turn(tokens, token, quoted, started, skip, failed) EXCEPT !.skip = x]
              = Turn(tokens, token, quoted, started, x, failed)
  BY DEF Turn

\* A symbol put behind the token, and the token started.
LEMMA PutAt ==
    ASSUME NEW tokens, NEW token, NEW quoted, NEW started, NEW c
    PROVE  Put(At(tokens, token, quoted, started), c)
              = At(tokens, Append(token, c), quoted, Yes)
  <1> DEFINE next == Append(token, c)
             turn == Turn(tokens, token, quoted, started, No, No)
             mid == [turn EXCEPT !.token = next]
  <1> HIDE DEF next
  <1>1. turn.token = token
    BY TurnFields
  <1>2. mid = Turn(tokens, next, quoted, started, No, No)
    BY TurnToken
  <1> HIDE DEF mid
  <1>3. [mid EXCEPT !.started = Yes] = Turn(tokens, next, quoted, Yes, No, No)
    BY <1>2, TurnStarted
  <1> HIDE DEF turn
  <1>4. Put(turn, c) = [turn EXCEPT !.token = next, !.started = Yes]
    BY <1>1, Zenon DEF Put, next, Yes
  <1>5. [turn EXCEPT !.token = next, !.started = Yes] = [mid EXCEPT !.started = Yes]
    BY DEF mid
  <1> QED
    BY <1>3, <1>4, <1>5, Zenon DEF At, turn, next

\* A quote turns quoted over, and starts the token.
LEMMA QuoteAt ==
    ASSUME NEW tokens, NEW token, NEW quoted, NEW started, NEW turned,
           (quoted = Yes /\ turned = No) \/ (quoted = No /\ turned = Yes)
    PROVE  ScanQuote(At(tokens, token, quoted, started)) = At(tokens, token, turned, Yes)
  <1> DEFINE turn == Turn(tokens, token, quoted, started, No, No)
             mid == [turn EXCEPT !.quoted = turned]
  <1>1. turn.quoted = quoted
    BY TurnFields
  <1>2. mid = Turn(tokens, token, turned, started, No, No)
    BY TurnQuoted
  <1> HIDE DEF mid
  <1>3. [mid EXCEPT !.started = Yes] = Turn(tokens, token, turned, Yes, No, No)
    BY <1>2, TurnStarted
  <1> HIDE DEF turn
  <1>4. ScanQuote(turn) = [turn EXCEPT !.quoted = turned, !.started = Yes]
    <2>1. turned = ~ quoted
      BY DEF Yes, No
    <2> QED
      BY <1>1, <2>1, Zenon DEF ScanQuote, Yes
  <1>5. [turn EXCEPT !.quoted = turned, !.started = Yes] = [mid EXCEPT !.started = Yes]
    BY DEF mid
  <1> QED
    BY <1>3, <1>4, <1>5, Zenon DEF At, turn

\* A started token goes to the tokens.
LEMMA PushAt ==
    ASSUME NEW tokens, NEW token, NEW quoted
    PROVE  Push(At(tokens, token, quoted, Yes)) = At(Append(tokens, token), << >>, quoted, No)
  <1> DEFINE next == Append(tokens, token)
             none == << >>
             turn == Turn(tokens, token, quoted, Yes, No, No)
             mid == [turn EXCEPT !.tokens = next]
             last == [mid EXCEPT !.token = none]
  <1> HIDE DEF next, none
  <1>1. turn.tokens = tokens /\ turn.token = token /\ turn.started = Yes
    BY TurnFields
  <1>2. mid = Turn(next, token, quoted, Yes, No, No)
    BY TurnTokens
  <1> HIDE DEF mid
  <1>3. last = Turn(next, none, quoted, Yes, No, No)
    BY <1>2, TurnToken
  <1> HIDE DEF last
  <1>4. [last EXCEPT !.started = No] = Turn(next, none, quoted, No, No, No)
    BY <1>3, TurnStarted
  <1> HIDE DEF turn
  <1>5. Push(turn) = [turn EXCEPT !.tokens = next, !.token = none, !.started = No]
    BY <1>1, Zenon DEF Push, next, none, No, Yes
  <1>6. [turn EXCEPT !.tokens = next, !.token = none, !.started = No]
            = [last EXCEPT !.started = No]
    BY DEF mid, last
  <1> QED
    BY <1>4, <1>5, <1>6, Zenon DEF At, turn, next, none

\* The fields of a scan that is going on.
LEMMA AtFields ==
    ASSUME NEW tokens, NEW token, NEW quoted, NEW started
    PROVE  LET at == At(tokens, token, quoted, started)
           IN  /\ at.tokens = tokens /\ at.token = token /\ at.quoted = quoted
               /\ at.started = started /\ at.skip = No /\ at.failed = No
  BY TurnFields DEF At

InLimits(tokens, token) == Len(token) <= MaxToken /\ Len(tokens) <= MaxTokens

\* It gets to tokens and token, unless that is too much.
Gets(scan, tokens, token, quoted, started) ==
    IF InLimits(tokens, token) THEN scan = At(tokens, token, quoted, started)
    ELSE scan.failed = TRUE

\* The checks at the end of a turn.
LEMMA LimitedGets ==
    ASSUME NEW tokens \in Seq(Seq(Symbols)), NEW token \in Seq(Symbols),
           NEW quoted, NEW started
    PROVE  Gets(Limited(At(tokens, token, quoted, started)), tokens, token, quoted, started)
  <1> DEFINE at == At(tokens, token, quoted, started)
  <1>1. Len(token) \in Nat /\ Len(tokens) \in Nat /\ {MaxToken, MaxTokens} \subseteq Nat
    BY ParserAssumption
  <1>2. at.tokens = tokens /\ at.token = token
    BY AtFields
  <1>3. [at EXCEPT !.failed = TRUE].failed = TRUE
    BY DEF At, Turn
  <1> HIDE DEF at
  <1>4. Gets(Limited(at), tokens, token, quoted, started)
    BY <1>1, <1>2, <1>3 DEF Limited, Gets, InLimits, at
  <1> QED
    BY <1>4 DEF at

\* A failed scan stays failed.
LEMMA FailedStays ==
    ASSUME NEW t, NEW scan, scan.failed = TRUE, NEW i
    PROVE  ScanSymbol(t, scan, i) = scan
  BY DEF ScanSymbol

\* One turn of the loop at a symbol that stands for itself.
LEMMA PutStep ==
    ASSUME NEW t, NEW i, t[i] \notin Controls \cup {"quote"}, t[i] \in Symbols,
           NEW tokens \in Seq(Seq(Symbols)), NEW token \in Seq(Symbols),
           NEW quoted, NEW started,
           \/ quoted = Yes /\ t[i] # "backslash"
           \/ quoted = No /\ t[i] \notin {"blank", "tab"}
    PROVE  Gets(ScanSymbol(t, At(tokens, token, quoted, started), i),
                tokens, Append(token, t[i]), quoted, Yes)
  <1> DEFINE c == t[i]
             next == Append(token, c)
             scan == At(tokens, token, quoted, started)
  <1>1. next \in Seq(Symbols)
    <2>1. c \in Symbols
      OBVIOUS
    <2> HIDE DEF c
    <2> QED
      BY <2>1
  <1>2. Put(scan, c) = At(tokens, next, quoted, Yes)
    <2> HIDE DEF c
    <2> QED
      BY PutAt
  <1>3. scan.failed = No /\ scan.skip = No /\ scan.quoted = quoted
    BY AtFields
  <1> HIDE DEF scan
  <1>4. ScanSymbol(t, scan, i) = Limited(Put(scan, c))
    <2>1. t[i] # "quote" /\ t[i] \notin Controls
      OBVIOUS
    <2>2. CASE quoted = Yes /\ t[i] # "backslash"
      <3>1. ~ Escapes(t, i)
        BY <2>2 DEF Escapes
      <3> QED
        BY <1>3, <2>1, <2>2, <3>1 DEF ScanSymbol, Yes, No
    <2>3. CASE quoted = No /\ t[i] \notin {"blank", "tab"}
      BY <1>3, <2>1, <2>3 DEF ScanSymbol, No
    <2> QED
      BY <2>2, <2>3
  <1> HIDE DEF next, c
  <1>5. Gets(Limited(At(tokens, next, quoted, Yes)), tokens, next, quoted, Yes)
    BY <1>1, LimitedGets
  <1> QED
    BY <1>2, <1>4, <1>5 DEF next, c, scan

\* One turn at a blank outside quotes ends the token.
LEMMA BlankStep ==
    ASSUME NEW t, NEW i, t[i] = "blank",
           NEW tokens \in Seq(Seq(Symbols)), NEW token \in Seq(Symbols)
    PROVE  Gets(ScanSymbol(t, At(tokens, token, No, Yes), i),
                Append(tokens, token), << >>, No, No)
  <1> DEFINE next == Append(tokens, token)
             none == << >>
             scan == At(tokens, token, No, Yes)
  <1>1. next \in Seq(Seq(Symbols)) /\ none \in Seq(Symbols)
    OBVIOUS
  <1>2. Push(scan) = At(next, none, No, No)
    BY PushAt
  <1>3. scan.failed = No /\ scan.skip = No /\ scan.quoted = No
    BY AtFields
  <1> HIDE DEF scan
  <1>4. ScanSymbol(t, scan, i) = Limited(Push(scan))
    BY <1>3 DEF ScanSymbol, Controls, No
  <1> HIDE DEF next, none
  <1>5. Gets(Limited(At(next, none, No, No)), next, none, No, No)
    BY <1>1, LimitedGets
  <1> QED
    BY <1>2, <1>4, <1>5 DEF next, none, scan

\* One turn at a quote.
LEMMA QuoteStep ==
    ASSUME NEW t, NEW i, t[i] = "quote", NEW tokens, NEW token, NEW started
    PROVE  /\ ScanSymbol(t, At(tokens, token, No, started), i) = At(tokens, token, Yes, Yes)
           /\ ScanSymbol(t, At(tokens, token, Yes, started), i) = At(tokens, token, No, Yes)
  <1>1. ASSUME NEW scan, scan.failed = No, scan.skip = No
        PROVE  ScanSymbol(t, scan, i) = ScanQuote(scan)
    <2>1. ~ scan.failed /\ ~ scan.skip
      BY <1>1 DEF No
    <2>2. t[i] \notin Controls /\ t[i] \notin {"blank", "tab"} /\ ~ Escapes(t, i)
      BY DEF Controls, Escapes
    <2> QED
      BY <2>1, <2>2 DEF ScanSymbol
  <1>2. ASSUME NEW quoted
        PROVE  ScanSymbol(t, At(tokens, token, quoted, started), i)
                    = ScanQuote(At(tokens, token, quoted, started))
    <2> DEFINE scan == At(tokens, token, quoted, started)
    <2>1. scan.failed = No /\ scan.skip = No
      BY AtFields
    <2> HIDE DEF scan
    <2>2. ScanSymbol(t, scan, i) = ScanQuote(scan)
      BY <1>1, <2>1
    <2> QED
      BY <2>2 DEF scan
  <1>3. ScanQuote(At(tokens, token, No, started)) = At(tokens, token, Yes, Yes)
    BY QuoteAt
  <1>4. ScanQuote(At(tokens, token, Yes, started)) = At(tokens, token, No, Yes)
    BY QuoteAt
  <1> QED
    BY <1>2, <1>3, <1>4

\* Two steps: the backslash, and what it stands in front of.
LEMMA EscapeStep ==
    ASSUME NEW t, NEW i \in Nat, t[i] = "backslash", i < Len(t),
           t[i + 1] \in {"quote", "backslash"},
           NEW tokens \in Seq(Seq(Symbols)), NEW token \in Seq(Symbols)
    PROVE  Gets(ScanSymbol(t, ScanSymbol(t, At(tokens, token, Yes, Yes), i), i + 1),
                tokens, Append(token, t[i + 1]), Yes, Yes)
  <1> DEFINE c == t[i + 1]
             next == Append(token, c)
             scan == At(tokens, token, Yes, Yes)
             turned == Turn(tokens, next, Yes, Yes, Yes, No)
             first == Limited(turned)
  <1>1. next \in Seq(Symbols)
    <2>1. c \in Symbols
      BY DEF Symbols
    <2> HIDE DEF c
    <2> QED
      BY <2>1
  <1>2. ScanSymbol(t, scan, i) = first
    <2>1. Put(scan, c) = At(tokens, next, Yes, Yes)
      <3> HIDE DEF c
      <3> QED
        BY PutAt
    <2> HIDE DEF next
    <2>2. [At(tokens, next, Yes, Yes) EXCEPT !.skip = Yes] = turned
      BY TurnSkip DEF At
    <2>3. scan.failed = No /\ scan.skip = No /\ scan.quoted = Yes
      BY AtFields
    <2> HIDE DEF c, scan, turned
    <2>4. Escapes(t, i)
      BY DEF Escapes
    <2>5. ScanSymbol(t, scan, i) = Limited([Put(scan, c) EXCEPT !.skip = TRUE])
      BY <2>3, <2>4 DEF ScanSymbol, Controls, c, Yes, No
    <2> QED
      BY <2>1, <2>2, <2>5, Zenon DEF Yes
  <1> HIDE DEF c, next, scan
  <1>3. Len(next) \in Nat /\ Len(tokens) \in Nat /\ {MaxToken, MaxTokens} \subseteq Nat
    BY <1>1, ParserAssumption
  <1>4. turned.token = next /\ turned.tokens = tokens /\ turned.failed = No
        /\ turned.skip = Yes
    BY TurnFields
  <1>5. [turned EXCEPT !.skip = No] = At(tokens, next, Yes, Yes)
    BY TurnSkip DEF At
  <1>6. [turned EXCEPT !.failed = TRUE].failed = TRUE
    BY DEF Turn
  <1> HIDE DEF turned
  <1>7. first = IF InLimits(tokens, next) THEN turned ELSE [turned EXCEPT !.failed = TRUE]
    BY <1>3, <1>4 DEF Limited, InLimits
  <1> HIDE DEF first
  <1>8. CASE InLimits(tokens, next)
    <2>1. first = turned
      BY <1>7, <1>8
    <2>2. ScanSymbol(t, turned, i + 1) = [turned EXCEPT !.skip = FALSE]
      BY <1>4 DEF ScanSymbol, Yes, No
    <2> QED
      BY <1>2, <1>5, <1>8, <2>1, <2>2, Zenon DEF Gets, scan, next, c, No
  <1>9. CASE ~ InLimits(tokens, next)
    <2>1. first.failed = TRUE
      BY <1>6, <1>7, <1>9
    <2>2. ScanSymbol(t, first, i + 1) = first
      BY <2>1, FailedStays
    <2> QED
      BY <1>2, <1>9, <2>1, <2>2, Zenon DEF Gets, scan, next, c
  <1> QED
    BY <1>8, <1>9

\* What a command with these arguments is to be taken apart into, and the limits.
All(args) == <<<<"exec">>, <<"id">>, <<"a">>>> \o args
Tokens(args, m) == SubSeq(All(args), 1, m)
Within(args) == Len(args) + 3 <= MaxTokens /\ \A i \in DOMAIN args : Len(args[i]) <= MaxToken

\* The tokens of a command: three of its own, then the arguments.
LEMMA AllTokens ==
    ASSUME NEW args \in Seq(Seq(Symbols))
    PROVE  /\ All(args) \in Seq(Seq(Symbols)) /\ Len(All(args)) = Len(args) + 3
           /\ All(args)[1] = <<"exec">> /\ All(args)[2] = <<"id">> /\ All(args)[3] = <<"a">>
           /\ \A k \in 1..Len(args) : All(args)[3 + k] = args[k]
  <1> DEFINE S == Seq(Symbols)
             a == <<"exec">>
             b == <<"id">>
             c == <<"a">>
             head == <<a, b, c>>
             n == Len(args)
  <1>1. a \in S /\ b \in S /\ c \in S
    BY DEF Symbols
  <1>2. args \in Seq(S) /\ n \in Nat
    OBVIOUS
  <1> HIDE DEF S, a, b, c
  <1>3. head \in Seq(S) /\ Len(head) = 3 /\ head[1] = a /\ head[2] = b /\ head[3] = c
    BY <1>1
  <1> HIDE DEF head
  <1>4. IsConcat(head \o args, head, args, S)
    BY <1>2, <1>3, Concatenated
  <1>5. All(args) = head \o args
    BY DEF All, head, a, b, c
  <1>6. /\ All(args) \in Seq(S) /\ Len(All(args)) = 3 + n
        /\ \A i \in 1..3 : All(args)[i] = head[i]
        /\ \A k \in 1..n : All(args)[3 + k] = args[k]
    BY <1>3, <1>4, <1>5 DEF IsConcat
  <1>7. All(args)[1] = a /\ All(args)[2] = b /\ All(args)[3] = c
    BY <1>3, <1>6
  <1> QED
    BY <1>2, <1>6, <1>7 DEF S, a, b, c

\* The first tokens, and the next one behind them.
LEMMA TokensGrow ==
    ASSUME NEW args \in Seq(Seq(Symbols)), NEW m \in 0..(Len(args) + 3)
    PROVE  /\ Tokens(args, m) \in Seq(Seq(Symbols)) /\ Len(Tokens(args, m)) = m
           /\ m < Len(args) + 3 =>
                Append(Tokens(args, m), All(args)[m + 1]) = Tokens(args, m + 1)
  <1> DEFINE all == All(args)
             n == Len(args)
             T == Seq(Symbols)
  <1>1. all \in Seq(T) /\ Len(all) = n + 3 /\ n \in Nat
    BY AllTokens
  <1> HIDE DEF all, T, n
  <1>2. m \in 0..(n + 3)
    BY DEF n
  <1>3. SubSeq(all, 1, m) \in Seq(T) /\ Len(SubSeq(all, 1, m)) = m
    BY <1>1, <1>2
  <1>4. ASSUME m < n + 3 PROVE Append(SubSeq(all, 1, m), all[m + 1]) = SubSeq(all, 1, m + 1)
    BY <1>1, <1>2, <1>4
  <1> QED
    BY <1>3, <1>4 DEF Tokens, all, T, n

\* A scan that has the first m tokens and a part of the next; or that has failed,
\* because the limits are exceeded.
Stands(s, args, m, token, quoted, started) ==
    \/ s.failed = TRUE /\ ~ Within(args)
    \/ /\ s = At(Tokens(args, m), token, quoted, started)
       /\ Len(token) <= MaxToken
       /\ \A i \in 1..m : Len(All(args)[i]) <= MaxToken

\* A scan that gets to what it should, or to a token that is too much, stands.
LEMMA GetsStands ==
    ASSUME NEW args \in Seq(Seq(Symbols)), NEW m \in 0..(Len(args) + 3), NEW s,
           NEW token \in Seq(Symbols), NEW quoted, NEW started,
           Gets(s, Tokens(args, m), token, quoted, started),
           Len(token) > MaxToken => ~ Within(args),
           \A i \in 1..m : Len(All(args)[i]) <= MaxToken
    PROVE  Stands(s, args, m, token, quoted, started)
  <1>1. /\ Len(Tokens(args, m)) = m /\ Len(token) \in Nat /\ Len(args) \in Nat
        /\ {MaxToken, MaxTokens} \subseteq Nat
    BY TokensGrow, ParserAssumption
  <1>2. m > MaxTokens => ~ Within(args)
    BY <1>1 DEF Within
  <1>3. CASE InLimits(Tokens(args, m), token)
    BY <1>3 DEF Gets, Stands, InLimits
  <1>4. CASE ~ InLimits(Tokens(args, m), token)
    <2>1. s.failed = TRUE
      BY <1>4 DEF Gets
    <2>2. ~ Within(args)
      BY <1>1, <1>2, <1>4 DEF InLimits
    <2> QED
      BY <2>1, <2>2 DEF Stands
  <1> QED
    BY <1>3, <1>4

\* It still stands behind a symbol that stands for itself,
LEMMA StandsPut ==
    ASSUME NEW args \in Seq(Seq(Symbols)), NEW m \in 0..(Len(args) + 3), NEW s,
           NEW token \in Seq(Symbols), NEW quoted, NEW started,
           Stands(s, args, m, token, quoted, started),
           NEW t, NEW i, t[i] \notin Controls \cup {"quote"}, t[i] \in Symbols,
           \/ quoted = Yes /\ t[i] # "backslash"
           \/ quoted = No /\ t[i] \notin {"blank", "tab"},
           Len(token) + 1 > MaxToken => ~ Within(args)
    PROVE  Stands(ScanSymbol(t, s, i), args, m, Append(token, t[i]), quoted, Yes)
  <1> DEFINE tokens == Tokens(args, m)
             c == t[i]
             next == Append(token, c)
             then == ScanSymbol(t, s, i)
  <1>1. tokens \in Seq(Seq(Symbols))
    BY TokensGrow
  <1>2. next \in Seq(Symbols) /\ Len(next) = Len(token) + 1
    <2>1. c \in Symbols
      OBVIOUS
    <2> HIDE DEF c
    <2> QED
      BY <2>1
  <1> HIDE DEF tokens
  <1>3. CASE s.failed = TRUE /\ ~ Within(args)
    BY <1>3, FailedStays DEF Stands
  <1>4. CASE /\ s = At(tokens, token, quoted, started)
             /\ \A k \in 1..m : Len(All(args)[k]) <= MaxToken
    <2>1. Gets(ScanSymbol(t, At(tokens, token, quoted, started), i), tokens, Append(token, t[i]), quoted, Yes)
      BY <1>1, PutStep
    <2>2. Gets(then, tokens, next, quoted, Yes)
      BY <1>4, <2>1
    <2> HIDE DEF then, next
    <2>3. Stands(then, args, m, next, quoted, Yes)
      BY <1>2, <1>4, <2>2, GetsStands DEF tokens
    <2> QED
      BY <2>3 DEF then, next
  <1> QED
    BY <1>3, <1>4 DEF Stands, tokens

\* behind a blank that ends a token,
LEMMA StandsBlank ==
    ASSUME NEW args \in Seq(Seq(Symbols)), NEW m \in 0..(Len(args) + 2), NEW s,
           Stands(s, args, m, All(args)[m + 1], No, Yes),
           NEW t, NEW i, t[i] = "blank"
    PROVE  Stands(ScanSymbol(t, s, i), args, m + 1, << >>, No, No)
  <1> DEFINE tokens == Tokens(args, m)
             token == All(args)[m + 1]
             then == ScanSymbol(t, s, i)
             none == << >>
  <1>1. m \in 0..(Len(args) + 3) /\ m + 1 \in 0..(Len(args) + 3) /\ m < Len(args) + 3 /\ m \in Nat
    OBVIOUS
  <1>2. tokens \in Seq(Seq(Symbols)) /\ Append(tokens, token) = Tokens(args, m + 1)
    BY <1>1, TokensGrow
  <1>3. token \in Seq(Symbols) /\ none \in Seq(Symbols) /\ Len(none) = 0
    BY <1>1, AllTokens
  <1> HIDE DEF tokens, token
  <1>4. CASE s.failed = TRUE /\ ~ Within(args)
    BY <1>4, FailedStays DEF Stands
  <1>5. CASE /\ s = At(tokens, token, No, Yes)
             /\ Len(token) <= MaxToken
             /\ \A k \in 1..m : Len(All(args)[k]) <= MaxToken
    <2>1. Gets(ScanSymbol(t, At(tokens, token, No, Yes), i), Append(tokens, token), << >>, No, No)
      BY <1>2, <1>3, BlankStep
    <2>2. Gets(then, Tokens(args, m + 1), none, No, No)
      BY <1>2, <1>5, <2>1
    <2>3. \A k \in 1..(m + 1) : Len(All(args)[k]) <= MaxToken
      BY <1>1, <1>5 DEF token
    <2>4. ~ (Len(none) > MaxToken)
      BY <1>3, ParserAssumption
    <2> HIDE DEF then, none
    <2>5. Stands(then, args, m + 1, none, No, No)
      BY <1>1, <1>3, <2>2, <2>3, <2>4, GetsStands
    <2> QED
      BY <2>5 DEF then, none
  <1> QED
    BY <1>4, <1>5 DEF Stands, tokens, token

\* behind a quote,
LEMMA StandsQuote ==
    ASSUME NEW args, NEW m, NEW s, NEW token, NEW started, NEW t, NEW i, t[i] = "quote"
    PROVE  /\ Stands(s, args, m, token, No, started) =>
                Stands(ScanSymbol(t, s, i), args, m, token, Yes, Yes)
           /\ Stands(s, args, m, token, Yes, started) =>
                Stands(ScanSymbol(t, s, i), args, m, token, No, Yes)
  <1> DEFINE tokens == Tokens(args, m)
  <1>1. CASE s.failed = TRUE /\ ~ Within(args)
    BY <1>1, FailedStays DEF Stands
  <1>2. CASE ~ (s.failed = TRUE /\ ~ Within(args))
    <2>1. s = At(tokens, token, No, started) => ScanSymbol(t, s, i) = At(tokens, token, Yes, Yes)
      BY QuoteStep
    <2>2. s = At(tokens, token, Yes, started) => ScanSymbol(t, s, i) = At(tokens, token, No, Yes)
      BY QuoteStep
    <2> QED
      BY <1>2, <2>1, <2>2 DEF Stands
  <1> QED
    BY <1>1, <1>2

\* and behind a backslash with the symbol it stands for.
LEMMA StandsEscape ==
    ASSUME NEW args \in Seq(Seq(Symbols)), NEW m \in 0..(Len(args) + 3), NEW s,
           NEW token \in Seq(Symbols), Stands(s, args, m, token, Yes, Yes),
           NEW t, NEW i \in Nat, t[i] = "backslash", i < Len(t),
           t[i + 1] \in {"quote", "backslash"},
           Len(token) + 1 > MaxToken => ~ Within(args)
    PROVE  Stands(ScanSymbol(t, ScanSymbol(t, s, i), i + 1), args, m,
                  Append(token, t[i + 1]), Yes, Yes)
  <1> DEFINE tokens == Tokens(args, m)
             c == t[i + 1]
             next == Append(token, c)
             then == ScanSymbol(t, ScanSymbol(t, s, i), i + 1)
  <1>1. tokens \in Seq(Seq(Symbols))
    BY TokensGrow
  <1>2. next \in Seq(Symbols) /\ Len(next) = Len(token) + 1
    <2>1. c \in Symbols
      BY DEF Symbols
    <2> HIDE DEF c
    <2> QED
      BY <2>1
  <1> HIDE DEF tokens
  <1>3. CASE s.failed = TRUE /\ ~ Within(args)
    <2>1. ScanSymbol(t, s, i) = s /\ ScanSymbol(t, s, i + 1) = s
      BY <1>3, FailedStays
    <2> QED
      BY <1>3, <2>1 DEF Stands
  <1>4. CASE /\ s = At(tokens, token, Yes, Yes)
             /\ \A k \in 1..m : Len(All(args)[k]) <= MaxToken
    <2>1. Gets(ScanSymbol(t, ScanSymbol(t, At(tokens, token, Yes, Yes), i), i + 1),
               tokens, Append(token, t[i + 1]), Yes, Yes)
      BY <1>1, EscapeStep
    <2>2. Gets(then, tokens, next, Yes, Yes)
      BY <1>4, <2>1
    <2> HIDE DEF then, next
    <2>3. Stands(then, args, m, next, Yes, Yes)
      BY <1>2, <1>4, <2>2, GetsStands DEF tokens
    <2> QED
      BY <2>3 DEF then, next
  <1> QED
    BY <1>3, <1>4 DEF Stands, tokens

\* scan lists what the scan of a text comes to, symbol by symbol.
Scans(scan, t) ==
    /\ scan[0] = NewScan
    /\ \A i \in Nat : i < Len(t) => scan[i + 1] = ScanSymbol(t, scan[i], i + 1)

\* It goes through the words in front of the arguments,
LEMMA HeadStands ==
    ASSUME NEW args \in Seq(Seq(Symbols)), NEW t, NEW scan, Scans(scan, t),
           Len(t) \in Nat, Len(t) >= 5, t[1] = "exec", t[2] = "blank", t[3] = "id",
           t[4] = "blank", t[5] = "a"
    PROVE  Stands(scan[5], args, 2, All(args)[3], No, Yes)
  <1> DEFINE none == << >>
             n == Len(args)
  <1>1. /\ scan[0] = NewScan
        /\ scan[1] = ScanSymbol(t, scan[0], 1) /\ scan[2] = ScanSymbol(t, scan[1], 2)
        /\ scan[3] = ScanSymbol(t, scan[2], 3) /\ scan[4] = ScanSymbol(t, scan[3], 4)
        /\ scan[5] = ScanSymbol(t, scan[4], 5)
    <2>1. \A i \in Nat : i < Len(t) => scan[i + 1] = ScanSymbol(t, scan[i], i + 1)
      BY DEF Scans
    <2>2. \A i \in 0..4 : scan[i + 1] = ScanSymbol(t, scan[i], i + 1)
      BY <2>1
    <2>3. scan[0 + 1] = ScanSymbol(t, scan[0], 0 + 1) /\ scan[1 + 1] = ScanSymbol(t, scan[1], 1 + 1)
          /\ scan[2 + 1] = ScanSymbol(t, scan[2], 2 + 1)
          /\ scan[3 + 1] = ScanSymbol(t, scan[3], 3 + 1)
          /\ scan[4 + 1] = ScanSymbol(t, scan[4], 4 + 1)
      BY <2>2
    <2> QED
      BY <2>3 DEF Scans
  <1>2. /\ n \in Nat /\ 0 \in 0..(n + 3) /\ 1 \in 0..(n + 3) /\ 2 \in 0..(n + 3)
        /\ 0 \in 0..(n + 2) /\ 1 \in 0..(n + 2)
        /\ none \in Seq(Symbols) /\ Len(none) = 0
        /\ ~ (Len(none) + 1 > MaxToken)
    BY ParserAssumption
  <1>3. \A i \in {1, 3, 5} : /\ t[i] \notin Controls \cup {"quote"} /\ t[i] \in Symbols
                             /\ t[i] \notin {"blank", "tab"}
    BY DEF Symbols, Controls
  <1>4. /\ Append(none, "exec") = All(args)[0 + 1] /\ Append(none, "id") = All(args)[1 + 1]
        /\ Append(none, "a") = All(args)[3]
    <2>1. Append(<< >>, "exec") = <<"exec">> /\ Append(<< >>, "id") = <<"id">>
          /\ Append(<< >>, "a") = <<"a">>
      OBVIOUS
    <2>2. All(args)[1] = <<"exec">> /\ All(args)[2] = <<"id">> /\ All(args)[3] = <<"a">>
      BY AllTokens
    <2> QED
      BY <2>1, <2>2
  <1>5. Stands(scan[0], args, 0, none, No, No)
    <2>1. Tokens(args, 0) = none
      BY DEF Tokens
    <2>2. NewScan = At(none, none, No, No)
      BY DEF NewScan, At, Turn, No
    <2> HIDE DEF none
    <2> QED
      BY <1>1, <1>2, <2>1, <2>2, ParserAssumption DEF Stands
  <1> HIDE DEF none, n
  <1>6. Stands(scan[1], args, 0, Append(none, t[1]), No, Yes)
    <2>1. /\ t[1] \notin Controls \cup {"quote"} /\ t[1] \in Symbols
          /\ t[1] \notin {"blank", "tab"}
      BY <1>3
    <2>2. 0 \in 0..(Len(args) + 3)
      BY <1>2 DEF n
    <2>3. Stands(ScanSymbol(t, scan[0], 1), args, 0, Append(none, t[1]), No, Yes)
      BY <1>2, <1>5, <2>1, <2>2, StandsPut
    <2> QED
      BY <1>1, <2>3
  <1>7. Stands(scan[2], args, 1, none, No, No)
    <2>1. Append(none, t[1]) = All(args)[0 + 1] /\ 0 + 1 = 1
      BY <1>4
    <2>2. 0 \in 0..(Len(args) + 2)
      BY <1>2 DEF n
    <2>3. Stands(scan[1], args, 0, All(args)[0 + 1], No, Yes)
      BY <1>6, <2>1, Zenon
    <2>4. Stands(ScanSymbol(t, scan[1], 2), args, 0 + 1, << >>, No, No)
      BY <2>2, <2>3, StandsBlank
    <2> QED
      BY <1>1, <2>1, <2>4 DEF none
  <1>8. Stands(scan[3], args, 1, Append(none, t[3]), No, Yes)
    <2>1. /\ t[3] \notin Controls \cup {"quote"} /\ t[3] \in Symbols
          /\ t[3] \notin {"blank", "tab"}
      BY <1>3
    <2>2. 1 \in 0..(Len(args) + 3)
      BY <1>2 DEF n
    <2>3. Stands(ScanSymbol(t, scan[2], 3), args, 1, Append(none, t[3]), No, Yes)
      BY <1>2, <1>7, <2>1, <2>2, StandsPut
    <2> QED
      BY <1>1, <2>3
  <1>9. Stands(scan[4], args, 2, none, No, No)
    <2>1. Append(none, t[3]) = All(args)[1 + 1] /\ 1 + 1 = 2
      BY <1>4
    <2>2. 1 \in 0..(Len(args) + 2)
      BY <1>2 DEF n
    <2>3. Stands(scan[3], args, 1, All(args)[1 + 1], No, Yes)
      BY <1>8, <2>1, Zenon
    <2>4. Stands(ScanSymbol(t, scan[3], 4), args, 1 + 1, << >>, No, No)
      BY <2>2, <2>3, StandsBlank
    <2> QED
      BY <1>1, <2>1, <2>4 DEF none
  <1>10. Stands(scan[5], args, 2, Append(none, t[5]), No, Yes)
    <2>1. /\ t[5] \notin Controls \cup {"quote"} /\ t[5] \in Symbols
          /\ t[5] \notin {"blank", "tab"}
      BY <1>3
    <2>2. 2 \in 0..(Len(args) + 3)
      BY <1>2 DEF n
    <2>3. Stands(ScanSymbol(t, scan[4], 5), args, 2, Append(none, t[5]), No, Yes)
      BY <1>2, <1>9, <2>1, <2>2, StandsPut
    <2> QED
      BY <1>1, <2>3
  <1> QED
    BY <1>4, <1>10

\* A sequence is of the type of its members.
LEMMA SeqTyped ==
    ASSUME NEW A, NEW B, NEW s \in Seq(A), \A i \in 1..Len(s) : s[i] \in B
    PROVE  s \in Seq(B)
  OBVIOUS

\* through one argument,
LEMMA ArgumentStands ==
    ASSUME NEW args \in Seq(Seq(Uncontrolled)), NEW t, NEW scan, Scans(scan, t),
           NEW at, RenderedAt(at, args), t = Rendered(args),
           NEW k \in Nat, k < Len(args),
           Stands(scan[at[k]], args, k + 2, All(args)[k + 3], No, Yes)
    PROVE  Stands(scan[at[k + 1]], args, k + 3, All(args)[k + 4], No, Yes)
  <1> DEFINE argument == args[k + 1]
             n == Len(argument)
             e == Escaped(argument)
             a == at[k]
             none == << >>
             Part(j) == SubSeq(argument, 1, j)
  <1>1. /\ args \in Seq(Seq(Symbols)) /\ argument \in Seq(Uncontrolled)
        /\ argument \in Seq(Symbols)
    <2>1. k + 1 \in 1..Len(args) /\ Uncontrolled \subseteq Symbols
      BY DEF Uncontrolled
    <2>2. argument \in Seq(Uncontrolled)
      BY <2>1
    <2>3. ASSUME NEW x \in Seq(Uncontrolled) PROVE x \in Seq(Symbols)
      BY <2>1
    <2>4. \A i \in 1..Len(args) : args[i] \in Seq(Symbols)
      BY <2>3
    <2>5. args \in Seq(Seq(Symbols))
      <3> DEFINE T == Seq(Symbols)
                 U == Seq(Uncontrolled)
      <3>1. args \in Seq(U) /\ \A i \in 1..Len(args) : args[i] \in T
        BY <2>4
      <3> HIDE DEF T, U
      <3>2. args \in Seq(T)
        BY <3>1, SeqTyped
      <3> QED
        BY <3>2 DEF T
    <2> HIDE DEF argument
    <2> QED
      BY <2>2, <2>3, <2>5
  <1>2. /\ a \in Nat /\ Len(e) \in Nat
        /\ at[k + 1] = a + Len(e) + 3 /\ at[k + 1] <= Len(t) /\ Len(t) \in Nat
        /\ t[a + 1] = "blank" /\ t[a + 2] = "quote" /\ t[a + Len(e) + 3] = "quote"
        /\ \A i \in 1..Len(e) : t[a + (2 + i)] = e[i]
    BY DEF RenderedAt
  <1>3. PICK ea : EscapedAt(ea, argument)
    BY <1>1, EscapedPlaces
  <1>4. /\ ea[0] = 0 /\ ea[n] = Len(e) /\ \A j \in 0..n : ea[j] \in 0..Len(e)
        /\ \A j \in Nat : j < n =>
            IF argument[j + 1] \in {"quote", "backslash"}
            THEN /\ ea[j + 1] = ea[j] + 2
                 /\ e[ea[j] + 1] = "backslash" /\ e[ea[j] + 2] = argument[j + 1]
            ELSE ea[j + 1] = ea[j] + 1 /\ e[ea[j] + 1] = argument[j + 1]
    BY <1>3 DEF EscapedAt
  <1>5. \A i \in Nat : i < Len(t) => scan[i + 1] = ScanSymbol(t, scan[i], i + 1)
    BY DEF Scans
  <1>6. /\ n \in Nat /\ none \in Seq(Symbols) /\ k + 3 \in 0..(Len(args) + 3)
        /\ k + 2 \in 0..(Len(args) + 2) /\ (k + 2) + 1 = k + 3 /\ k + 4 = 3 + (k + 1)
        /\ k + 1 \in 1..Len(args)
    BY <1>1
  <1>7. /\ All(args)[k + 4] = argument
        /\ n > MaxToken => ~ Within(args)
    <2>1. All(args)[3 + (k + 1)] = args[k + 1]
      BY <1>1, <1>6, AllTokens
    <2>2. Within(args) => Len(args[k + 1]) <= MaxToken
      BY <1>1, <1>6 DEF Within
    <2> QED
      BY <1>6, <2>1, <2>2, ParserAssumption
  <1>8. /\ Part(0) = none /\ Part(n) = argument
        /\ \A j \in 0..n : Part(j) \in Seq(Symbols) /\ Len(Part(j)) = j
        /\ \A j \in Nat : j < n => Append(Part(j), argument[j + 1]) = Part(j + 1)
    <2>1. argument \in Seq(Symbols)
      BY <1>1
    <2> HIDE DEF argument
    <2> QED
      BY <2>1
  <1> HIDE DEF argument, e, a, n, none, Part
  <1>9. Stands(scan[a + 1], args, k + 3, none, No, No)
    <2>1. scan[a + 1] = ScanSymbol(t, scan[a], a + 1)
      BY <1>2, <1>5
    <2>2. Stands(scan[a], args, k + 2, All(args)[(k + 2) + 1], No, Yes)
      BY <1>6 DEF a
    <2>3. Stands(ScanSymbol(t, scan[a], a + 1), args, (k + 2) + 1, << >>, No, No)
      BY <1>1, <1>2, <1>6, <2>2, StandsBlank
    <2> QED
      BY <1>6, <2>1, <2>3 DEF none
  <1>10. Stands(scan[a + 2], args, k + 3, none, Yes, Yes)
    <2>1. scan[(a + 1) + 1] = ScanSymbol(t, scan[a + 1], (a + 1) + 1) /\ (a + 1) + 1 = a + 2
      <3>1. a + 1 \in Nat /\ a + 1 < Len(t)
        BY <1>2
      <3> QED
        BY <1>2, <1>5, <3>1
    <2>2. Stands(ScanSymbol(t, scan[a + 1], a + 2), args, k + 3, none, Yes, Yes)
      BY <1>2, <1>9, StandsQuote
    <2> QED
      BY <2>1, <2>2
  <1> DEFINE S == {j \in Nat : j > n \/ Stands(scan[a + 2 + ea[j]], args, k + 3, Part(j), Yes, Yes)}
  <1>11. ASSUME NEW j \in Nat, j < n, j \in S PROVE j + 1 \in S
    <2> DEFINE p == a + 2 + ea[j]
               c == argument[j + 1]
               s == scan[p]
    <2>1. /\ ea[j] \in Nat /\ ea[j] \in 0..Len(e) /\ ea[j + 1] \in 0..Len(e) /\ p \in Nat
          /\ Stands(s, args, k + 3, Part(j), Yes, Yes)
      <3>1. j \in 0..n /\ j + 1 \in 0..n /\ ~ (j > n)
        BY <1>6, <1>11
      <3>2. ea[j] \in 0..Len(e) /\ ea[j + 1] \in 0..Len(e)
        BY <1>4, <3>1
      <3>3. Stands(s, args, k + 3, Part(j), Yes, Yes)
        BY <1>11, <3>1
      <3>4. a \in Nat /\ Len(e) \in Nat
        BY <1>2
      <3>5. ea[j] \in Nat /\ p \in Nat
        BY <3>2, <3>4
      <3> QED
        BY <3>2, <3>3, <3>5
    <2>2. /\ c \in Symbols /\ c \notin Controls /\ c = argument[j + 1]
      BY <1>1, <1>6, <1>11 DEF Uncontrolled, n
    <2>3. /\ Part(j) \in Seq(Symbols) /\ Append(Part(j), c) = Part(j + 1)
          /\ Len(Part(j)) + 1 > MaxToken => ~ Within(args)
      <3>1. Part(j) \in Seq(Symbols) /\ Len(Part(j)) = j /\ Append(Part(j), c) = Part(j + 1)
        BY <1>6, <1>8, <1>11
      <3>2. j + 1 <= n
        BY <1>6, <1>11
      <3> QED
        BY <1>6, <1>7, <3>1, <3>2, ParserAssumption
    <2> DEFINE o == ea[j]
               next == ea[j + 1]
    <2>a. /\ p = a + 2 + o /\ o \in Nat /\ next \in 0..Len(e)
          /\ c \in {"quote", "backslash"} =>
                next = o + 2 /\ e[o + 1] = "backslash" /\ e[o + 2] = c
          /\ c \notin {"quote", "backslash"} => next = o + 1 /\ e[o + 1] = c
      BY <1>4, <1>11, <2>1
    <2>b. Stands(scan[a + 2 + next], args, k + 3, Part(j + 1), Yes, Yes) => j + 1 \in S
      OBVIOUS
    <2> HIDE DEF S, o, next, c, p
    <2>4. CASE c \in {"quote", "backslash"}
      <3>1. /\ next = o + 2
            /\ e[o + 1] = "backslash" /\ e[o + 2] = c
        BY <2>a, <2>4
      <3>2. o + 1 \in 1..Len(e) /\ o + 2 \in 1..Len(e)
        BY <1>2, <2>a, <3>1
      <3>3. t[p + 1] = "backslash" /\ t[(p + 1) + 1] = c
        <4>1. p + 1 = a + (2 + (o + 1)) /\ (p + 1) + 1 = a + (2 + (o + 2))
          BY <1>2, <2>a
        <4> QED
          BY <1>2, <3>1, <3>2, <4>1
      <3>4. p < Len(t) /\ p + 1 < Len(t) /\ p + 1 \in Nat
        <4>1. /\ a \in Nat /\ Len(e) \in Nat /\ a + Len(e) + 3 <= Len(t) /\ Len(t) \in Nat
              /\ p = a + 2 + o /\ o \in Nat /\ o + 2 <= Len(e)
          BY <1>2, <2>a, <3>2
        <4> QED
          BY <4>1
      <3>5. /\ scan[p + 1] = ScanSymbol(t, s, p + 1)
            /\ scan[(p + 1) + 1] = ScanSymbol(t, scan[p + 1], (p + 1) + 1)
        BY <1>5, <2>1, <3>4 DEF s
      <3>6. a + 2 + next = (p + 1) + 1
        BY <1>2, <2>a, <3>1
      <3> HIDE DEF s
      <3>7. Stands(ScanSymbol(t, ScanSymbol(t, s, p + 1), (p + 1) + 1), args, k + 3,
                   Append(Part(j), t[(p + 1) + 1]), Yes, Yes)
        BY <1>1, <1>6, <2>1, <2>3, <2>4, <3>3, <3>4, StandsEscape
      <3>8. Stands(scan[(p + 1) + 1], args, k + 3, Part(j + 1), Yes, Yes)
        BY <2>3, <3>3, <3>5, <3>7
      <3> QED
        BY <2>b, <3>6, <3>8
    <2>5. CASE c \notin {"quote", "backslash"}
      <3>1. next = o + 1 /\ e[o + 1] = c
        BY <2>a, <2>5
      <3>2. o + 1 \in 1..Len(e)
        BY <1>2, <2>a, <3>1
      <3>3. t[p + 1] = c
        <4>1. p + 1 = a + (2 + (o + 1))
          BY <1>2, <2>a
        <4> QED
          BY <1>2, <3>1, <3>2, <4>1
      <3>4. p < Len(t)
        BY <1>2, <2>1, <2>a, <3>1, <3>2
      <3>5. scan[p + 1] = ScanSymbol(t, s, p + 1)
        BY <1>5, <2>1, <3>4 DEF s
      <3>6. a + 2 + next = p + 1
        BY <1>2, <2>a, <3>1
      <3> HIDE DEF s
      <3>7. t[p + 1] \notin Controls \cup {"quote"} /\ t[p + 1] \in Symbols /\ t[p + 1] # "backslash"
        BY <2>2, <2>5, <3>3
      <3>8. Stands(ScanSymbol(t, s, p + 1), args, k + 3, Append(Part(j), t[p + 1]), Yes, Yes)
        BY <1>1, <1>6, <2>1, <2>3, <3>7, StandsPut
      <3>9. Stands(scan[p + 1], args, k + 3, Part(j + 1), Yes, Yes)
        BY <2>3, <3>3, <3>5, <3>8
      <3> QED
        BY <2>b, <3>6, <3>9
    <2> QED
      BY <2>4, <2>5
  <1>12. Stands(scan[a + 2 + Len(e)], args, k + 3, argument, Yes, Yes)
    <2>1. 0 \in S
      <3>1. a + 2 + ea[0] = a + 2
        BY <1>2, <1>4
      <3> QED
        BY <1>8, <1>10, <3>1
    <2>2. \A j \in Nat : j < n /\ j \in S => j + 1 \in S
      BY <1>11
    <2>3. n \in S
      <3> HIDE DEF S
      <3> QED
        BY <1>6, <2>1, <2>2, Induction
    <2> QED
      BY <1>4, <1>6, <1>8, <2>3
  <1>13. /\ scan[(a + 2 + Len(e)) + 1] = ScanSymbol(t, scan[a + 2 + Len(e)], (a + 2 + Len(e)) + 1)
         /\ (a + 2 + Len(e)) + 1 = a + Len(e) + 3
    <2>1. a + 2 + Len(e) \in Nat /\ a + 2 + Len(e) < Len(t)
      BY <1>2
    <2> QED
      BY <1>2, <1>5, <2>1
  <1>14. Stands(ScanSymbol(t, scan[a + 2 + Len(e)], a + Len(e) + 3), args, k + 3, argument, No, Yes)
    BY <1>2, <1>12, StandsQuote
  <1> QED
    BY <1>2, <1>7, <1>13, <1>14

\* and through all of them.
LEMMA RenderedStands ==
    ASSUME NEW args \in Seq(Seq(Uncontrolled))
    PROVE  /\ Stands(Scan(Rendered(args)), args, Len(args) + 2, All(args)[Len(args) + 3], No, Yes)
           /\ Rendered(args) \in Seq(Symbols)
           /\ LET t == Rendered(args)
              IN  /\ Len(t) >= 5 /\ t[1] = "exec" /\ t[2] = "blank"
                  /\ t[Len(t)] \in {"a", "quote"}
  <1> DEFINE t == Rendered(args)
             n == Len(args)
  <1>1. Uncontrolled \subseteq Symbols /\ n \in Nat
    BY DEF Uncontrolled
  <1>2. args \in Seq(Seq(Symbols))
    <2> DEFINE T == Seq(Symbols)
               U == Seq(Uncontrolled)
    <2>1. args \in Seq(U) /\ U \subseteq T
      <3>1. ASSUME NEW x \in U PROVE x \in T
        BY <1>1
      <3> QED
        BY <3>1
    <2> HIDE DEF T, U
    <2>2. \A i \in 1..Len(args) : args[i] \in T
      BY <2>1
    <2>3. args \in Seq(T)
      BY <2>1, <2>2, SeqTyped
    <2> QED
      BY <2>3 DEF T
  <1>3. t \in Seq(Uncontrolled)
    BY RenderedPlaces
  <1>4. PICK at : RenderedAt(at, args)
    BY RenderedPlaces
  <1> HIDE DEF t
  <1>5. t \in Seq(Symbols)
    BY <1>1, <1>3
  <1>6. PICK scan : Scans(scan, t) /\ Scan(t) = scan[Len(t)]
    BY <1>5, ScanRun DEF Scans
  <1>7. /\ at[0] = 5 /\ at[n] = Len(t) /\ Len(t) \in Nat /\ Len(t) >= 5
        /\ t[1] = "exec" /\ t[2] = "blank" /\ t[3] = "id" /\ t[4] = "blank" /\ t[5] = "a"
        /\ \A k \in Nat : k < n =>
            LET e == Escaped(args[k + 1])
            IN  at[k + 1] = at[k] + Len(e) + 3 /\ t[at[k] + Len(e) + 3] = "quote"
    BY <1>4 DEF RenderedAt, t
  <1> HIDE DEF n
  <1> DEFINE S == {k \in Nat : k > n \/ Stands(scan[at[k]], args, k + 2, All(args)[k + 3], No, Yes)}
  <1>8. 0 \in S
    <2>1. Stands(scan[5], args, 2, All(args)[3], No, Yes)
      BY <1>2, <1>6, <1>7, HeadStands
    <2>2. at[0] = 5 /\ 0 + 2 = 2 /\ 0 + 3 = 3
      BY <1>7
    <2> QED
      BY <2>1, <2>2
  <1>9. ASSUME NEW k \in Nat, k < n, k \in S PROVE k + 1 \in S
    <2>1. Stands(scan[at[k]], args, k + 2, All(args)[k + 3], No, Yes)
      BY <1>1, <1>9
    <2>2. Stands(scan[at[k + 1]], args, k + 3, All(args)[k + 4], No, Yes)
      BY <1>4, <1>6, <1>9, <2>1, ArgumentStands DEF n, t
    <2>3. (k + 1) + 2 = k + 3 /\ (k + 1) + 3 = k + 4
      OBVIOUS
    <2> QED
      BY <2>2, <2>3
  <1>10. n \in S
    <2>1. \A k \in Nat : k < n /\ k \in S => k + 1 \in S
      BY <1>9
    <2> HIDE DEF S
    <2> QED
      BY <1>1, <1>8, <2>1, Induction
  <1>11. Stands(scan[at[n]], args, n + 2, All(args)[n + 3], No, Yes)
    BY <1>1, <1>10
  <1>12. t[Len(t)] \in {"a", "quote"}
    <2>1. CASE n = 0
      BY <1>7, <2>1
    <2>2. CASE n # 0
      <3>1. n - 1 \in Nat /\ n - 1 < n /\ (n - 1) + 1 = n
        BY <1>1, <2>2
      <3>2. PICK m \in Nat : m < n /\ m + 1 = n
        BY <3>1
      <3>3. /\ at[m + 1] = at[m] + Len(Escaped(args[m + 1])) + 3
            /\ t[at[m] + Len(Escaped(args[m + 1])) + 3] = "quote"
        BY <1>7, <3>2
      <3> QED
        BY <1>7, <3>2, <3>3
    <2> QED
      BY <2>1, <2>2
  <1> QED
    BY <1>5, <1>6, <1>7, <1>11, <1>12 DEF n, t

\* The tokens are classified as an !exec, unless there are too many.
LEMMA ClassifyAll ==
    ASSUME NEW args \in Seq(Seq(Symbols))
    PROVE  /\ All(args) # << >>
           /\ Classify(All(args)) = IF Len(args) + 3 > MaxTokens THEN Invalid
                                    ELSE Result("exec", <<"id">>, <<"a">>, args)
  <1> DEFINE all == All(args)
             n == Len(args)
             T == Seq(Symbols)
             exec == <<"exec">>
             a == <<"a">>
  <1>1. /\ all \in Seq(T) /\ Len(all) = n + 3 /\ n \in Nat /\ args \in Seq(T) /\ n = Len(args)
        /\ all[1] = exec /\ all[2] = <<"id">> /\ all[3] = a
        /\ \A k \in 1..n : all[3 + k] = args[k]
    <2>1. n \in Nat
      OBVIOUS
    <2>2. all \in Seq(T) /\ Len(all) = n + 3
      BY AllTokens
    <2>3. all[1] = exec /\ all[2] = <<"id">> /\ all[3] = a
      BY AllTokens
    <2>4. \A k \in 1..n : all[3 + k] = args[k]
      BY AllTokens
    <2> QED
      BY <2>1, <2>2, <2>3, <2>4, Zenon
  <1>2. Unhashed(exec) = exec /\ exec \notin {<<query>> : query \in Queries} /\ exec # <<"commands">>
    BY DEF Unhashed, Queries
  <1>3. /\ Unhashed(a) = a /\ a # << >>
        /\ \A i \in DOMAIN a : a[i] \in VerbSymbols
    BY DEF Unhashed, VerbSymbols
  <1> HIDE DEF all, n, T
  <1>4. SubSeq(all, 4, n + 3) = args
    BY <1>1
  <1> HIDE DEF exec, a
  <1>5. Classify(all) = IF n + 3 > MaxTokens THEN Invalid ELSE Result("exec", <<"id">>, a, args)
    <2>1. ~ (Len(all) < 3) /\ (TooMany(all) <=> n + 3 > MaxTokens)
      BY <1>1, ParserAssumption DEF TooMany
    <2>2. Unhashed(all[1]) = exec /\ Unhashed(all[3]) = a
      BY <1>1, <1>2, <1>3
    <2>3. Classify(all) =
            IF \/ Len(all) < 3 \/ TooMany(all) \/ all[2] # <<"id">>
               \/ a = << >>
               \/ \E i \in DOMAIN a : a[i] \notin VerbSymbols
            THEN Invalid
            ELSE Result("exec", all[2], a, SubSeq(all, 4, Len(all)))
      BY <1>2, <2>2, Zenon DEF Classify, exec
    <2> QED
      BY <1>1, <1>3, <1>4, <2>1, <2>3
  <1>6. all # << >>
    BY <1>1
  <1> QED
    BY <1>5, <1>6 DEF all, n, a

\* The command of the documentation comes back as its arguments, or is refused.
LEMMA ParseRendered ==
    ASSUME NEW args \in Seq(Seq(Uncontrolled))
    PROVE  ParseRequest(Rendered(args)) =
                IF Len(Rendered(args)) <= MaxText /\ Within(args)
                THEN Result("exec", <<"id">>, <<"a">>, args) ELSE Invalid
  <1> DEFINE t == Rendered(args)
             n == Len(args)
             s == Scan(t)
             all == All(args)
             exec == Result("exec", <<"id">>, <<"a">>, args)
             token == all[n + 3]
             none == << >>
  <1>1. /\ Stands(s, args, n + 2, token, No, Yes)
        /\ t \in Seq(Symbols) /\ Len(t) >= 5 /\ t[1] = "exec" /\ t[2] = "blank"
        /\ t[Len(t)] \in {"a", "quote"}
    BY RenderedStands
  <1>2. args \in Seq(Seq(Symbols)) /\ n \in Nat
    <2> DEFINE T == Seq(Symbols)
               U == Seq(Uncontrolled)
    <2>1. args \in Seq(U) /\ U \subseteq T
      <3>1. Uncontrolled \subseteq Symbols
        BY DEF Uncontrolled
      <3>2. ASSUME NEW x \in U PROVE x \in T
        BY <3>1
      <3> QED
        BY <3>2
    <2> HIDE DEF T, U
    <2>2. \A i \in 1..Len(args) : args[i] \in T
      BY <2>1
    <2>3. args \in Seq(T)
      BY <2>1, <2>2, SeqTyped
    <2> QED
      BY <2>3 DEF T
  <1> HIDE DEF t
  <1>3. GodModeParse(t) = Unparsed
    BY <1>1, NotGodMode
  <1>4. Trimmed(t) = t
    <2>1. t[1] \notin Space /\ t[Len(t)] \notin Space /\ Len(t) >= 1
      BY <1>1 DEF Space
    <2> QED
      BY <1>1, <2>1, TrimmedWhole
  <1>5. ParseRequest(t) = DispatchParse(t)
    BY <1>3 DEF ParseRequest, Unparsed, Result
  <1>6. DispatchParse(t) = IF \/ Len(t) > MaxText \/ s.failed \/ s.quoted
                              \/ Push(s).tokens = << >>
                           THEN Invalid ELSE Classify(Push(s).tokens)
    BY <1>4, Zenon DEF DispatchParse
  <1>7. /\ all # << >>
        /\ Classify(all) = IF n + 3 > MaxTokens THEN Invalid ELSE exec
    BY <1>2, ClassifyAll
  <1>8. Len(t) \in Nat /\ {MaxText, MaxToken, MaxTokens} \subseteq Nat
    BY <1>1, ParserAssumption
  <1> HIDE DEF s, exec
  <1>9. CASE s.failed = TRUE /\ ~ Within(args)
    BY <1>5, <1>6, <1>9 DEF t
  <1>10. CASE /\ s = At(Tokens(args, n + 2), token, No, Yes)
              /\ Len(token) <= MaxToken
              /\ \A i \in 1..(n + 2) : Len(all[i]) <= MaxToken
    <2>1. Append(Tokens(args, n + 2), token) = all
      <3>1. n + 2 \in 0..(n + 3) /\ n + 2 < n + 3 /\ (n + 2) + 1 = n + 3 /\ n + 3 \in 0..(n + 3)
        BY <1>2
      <3>2. Append(Tokens(args, n + 2), all[(n + 2) + 1]) = Tokens(args, (n + 2) + 1)
        BY <1>2, <3>1, TokensGrow
      <3>3. Tokens(args, n + 3) = all
        <4>1. all \in Seq(Seq(Symbols)) /\ Len(all) = n + 3
          BY <1>2, AllTokens
        <4> DEFINE T == Seq(Symbols)
                   m == n + 3
        <4> HIDE DEF T, all, m
        <4>2. all \in Seq(T) /\ Len(all) = m
          BY <4>1 DEF T, m
        <4>3. SubSeq(all, 1, m) = all
          BY <4>2
        <4> QED
          BY <4>3 DEF Tokens, all, m
      <3> QED
        BY <3>1, <3>2, <3>3
    <2>2. Push(At(Tokens(args, n + 2), token, No, Yes))
            = At(Append(Tokens(args, n + 2), token), none, No, No)
      BY PushAt
    <2>3. Push(s) = At(all, none, No, No)
      BY <1>10, <2>1, <2>2
    <2>4. /\ s.failed = No /\ s.quoted = No
          /\ At(all, none, No, No).tokens = all
      <3>1. At(all, none, No, No).tokens = all
        BY AtFields
      <3>2. s.failed = No /\ s.quoted = No
        BY <1>10, AtFields
      <3> QED
        BY <3>1, <3>2
    <2>5. Within(args) <=> n + 3 <= MaxTokens
      <3>1. \A i \in 1..(n + 3) : Len(all[i]) <= MaxToken
        BY <1>2, <1>10
      <3>2. ASSUME NEW i \in 1..n PROVE Len(args[i]) <= MaxToken
        <4>1. 3 + i \in 1..(n + 3) /\ all[3 + i] = args[i]
          BY <1>2, AllTokens
        <4> QED
          BY <3>1, <4>1
      <3>3. DOMAIN args = 1..n
        BY <1>2
      <3> QED
        BY <3>2, <3>3 DEF Within
    <2> HIDE DEF all, none, token, n
    <2>6. Push(s).tokens = all /\ ~ s.failed /\ ~ s.quoted
      BY <2>3, <2>4 DEF No
    <2>7. ParseRequest(t) = IF Len(t) > MaxText \/ n + 3 > MaxTokens THEN Invalid ELSE exec
      BY <1>5, <1>6, <1>7, <2>6
    <2>8. /\ Len(t) > MaxText <=> ~ (Len(t) <= MaxText)
          /\ n + 3 > MaxTokens <=> ~ (n + 3 <= MaxTokens)
      BY <1>2, <1>8 DEF n
    <2> QED
      BY <2>5, <2>7, <2>8 DEF t, exec
  <1> QED
    BY <1>1, <1>9, <1>10 DEF Stands

-----------------------------------------------------------------------------
(* The symbols of a set in a text *)

\* What of a set stands in one symbol, and in each of a text.
OnlyPart(c, S) == IF c \in S THEN <<c>> ELSE << >>
OnlyParts(t, S) == [i \in DOMAIN t |-> OnlyPart(t[i], S)]

\* What of a set stands in a text is put together from one part for each symbol.
LEMMA OnlyParted ==
    ASSUME NEW t \in Seq(Symbols), NEW S
    PROVE  /\ OnlyParts(t, S) \in Seq(Seq(Symbols)) /\ Len(OnlyParts(t, S)) = Len(t)
           /\ \A i \in 1..Len(t) : OnlyParts(t, S)[i] = OnlyPart(t[i], S)
           /\ Only(t, S) = FlattenSeq(OnlyParts(t, S))
           /\ Only(t, S) \in Seq(Symbols)
  <1> DEFINE parts == OnlyParts(t, S)
  <1>1. \A i \in 1..Len(t) : OnlyPart(t[i], S) \in Seq(Symbols)
    BY DEF OnlyPart
  <1>2. parts = [i \in 1..Len(t) |-> OnlyPart(t[i], S)]
    BY DEF OnlyParts
  <1>3. parts \in [1..Len(t) -> Seq(Symbols)]
    BY <1>1, <1>2
  <1>4. parts \in Seq(Seq(Symbols)) /\ Len(parts) = Len(t)
    <2> HIDE DEF parts
    <2> QED
      BY <1>3
  <1>5. Only(t, S) = FlattenSeq(parts)
    BY Zenon DEF Only, OnlyPart, OnlyParts
  <1>6. Only(t, S) \in Seq(Symbols)
    BY <1>4, <1>5, FlattenType
  <1> QED
    BY <1>2, <1>4, <1>5, <1>6

\* Of two texts behind one another it is that of both.
LEMMA OnlyConcat ==
    ASSUME NEW a \in Seq(Symbols), NEW b \in Seq(Symbols), NEW S
    PROVE  Only(a \o b, S) = Only(a, S) \o Only(b, S)
  <1> DEFINE c == a \o b
             p == OnlyParts(a, S)
             q == OnlyParts(b, S)
             r == OnlyParts(c, S)
  <1>1. /\ c \in Seq(Symbols) /\ Len(c) = Len(a) + Len(b) /\ Len(a) \in Nat /\ Len(b) \in Nat
        /\ \A i \in 1..Len(a) : c[i] = a[i]
        /\ \A i \in 1..Len(b) : c[Len(a) + i] = b[i]
    BY ConcatParts
  <1>0. c \in Seq(Symbols)
    BY <1>1
  <1> HIDE DEF c
  <1>2. /\ p \in Seq(Seq(Symbols)) /\ Len(p) = Len(a) /\ Only(a, S) = FlattenSeq(p)
        /\ \A i \in 1..Len(a) : p[i] = OnlyPart(a[i], S)
    BY OnlyParted
  <1>3. /\ q \in Seq(Seq(Symbols)) /\ Len(q) = Len(b) /\ Only(b, S) = FlattenSeq(q)
        /\ \A i \in 1..Len(b) : q[i] = OnlyPart(b[i], S)
    BY OnlyParted
  <1>4. /\ r \in Seq(Seq(Symbols)) /\ Len(r) = Len(c) /\ Only(c, S) = FlattenSeq(r)
        /\ \A i \in 1..Len(c) : r[i] = OnlyPart(c[i], S)
    BY <1>0, OnlyParted
  <1> HIDE DEF p, q, r
  <1>5. r = p \o q
    <2>1. \A i \in 1..Len(p) : r[i] = p[i]
      BY <1>1, <1>2, <1>4
    <2>2. \A i \in 1..Len(q) : r[Len(p) + i] = q[i]
      BY <1>1, <1>2, <1>3, <1>4
    <2>3. /\ p \in Seq(Seq(Symbols)) /\ q \in Seq(Seq(Symbols)) /\ r \in Seq(Seq(Symbols))
          /\ Len(r) = Len(p) + Len(q)
      BY <1>1, <1>2, <1>3, <1>4
    <2> QED
      BY <2>1, <2>2, <2>3, ConcatIs
  <1>6. FlattenSeq(p \o q) = FlattenSeq(p) \o FlattenSeq(q)
    BY <1>2, <1>3, FlattenConcat
  <1> QED
    BY <1>2, <1>3, <1>4, <1>5, <1>6 DEF c

\* Where nothing of the set stands it is empty,
LEMMA OnlyNothing ==
    ASSUME NEW t \in Seq(Symbols), NEW S, \A i \in 1..Len(t) : t[i] \notin S
    PROVE  Only(t, S) = << >>
  <1> DEFINE p == OnlyParts(t, S)
  <1>1. /\ p \in Seq(Seq(Symbols)) /\ Len(p) = Len(t) /\ Only(t, S) = FlattenSeq(p)
        /\ \A i \in 1..Len(t) : p[i] = OnlyPart(t[i], S)
    BY OnlyParted
  <1> HIDE DEF p
  <1>2. \A i \in 1..Len(p) : p[i] = << >>
    BY <1>1 DEF OnlyPart
  <1> QED
    BY <1>1, <1>2, FlattenNothing

\* and of one symbol it is that symbol, or empty.
LEMMA OnlyOne ==
    ASSUME NEW c \in Symbols, NEW S
    PROVE  Only(<<c>>, S) = IF c \in S THEN <<c>> ELSE << >>
  <1> DEFINE t == <<c>>
             p == OnlyParts(t, S)
             part == IF c \in S THEN <<c>> ELSE << >>
  <1>1. t \in Seq(Symbols) /\ Len(t) = 1 /\ t[1] = c /\ part \in Seq(Symbols)
    OBVIOUS
  <1> HIDE DEF t, part
  <1>2. p \in Seq(Seq(Symbols)) /\ Len(p) = 1 /\ p[1] = part /\ Only(t, S) = FlattenSeq(p)
    <2>1. 1 \in 1..Len(t)
      BY <1>1
    <2>2. /\ p \in Seq(Seq(Symbols)) /\ Len(p) = Len(t) /\ Only(t, S) = FlattenSeq(p)
          /\ \A i \in 1..Len(t) : p[i] = OnlyPart(t[i], S)
      BY <1>1, OnlyParted
    <2> QED
      BY <1>1, <2>1, <2>2 DEF part, OnlyPart
  <1> HIDE DEF p
  <1>3. p = <<part>>
    BY <1>1, <1>2
  <1>4. FlattenSeq(<<part>>) = part
    BY <1>1, FlattenOne
  <1> QED
    BY <1>2, <1>3, <1>4 DEF t, part

\* Of a text with one symbol more.
LEMMA OnlyAppend ==
    ASSUME NEW t \in Seq(Symbols), NEW c \in Symbols, NEW S
    PROVE  Only(Append(t, c), S) = IF c \in S THEN Append(Only(t, S), c) ELSE Only(t, S)
  <1> DEFINE one == <<c>>
  <1>1. Append(t, c) = t \o one /\ one \in Seq(Symbols)
    OBVIOUS
  <1>2. Only(one, S) = IF c \in S THEN <<c>> ELSE << >>
    BY OnlyOne
  <1> HIDE DEF one
  <1>3. Only(t \o one, S) = Only(t, S) \o Only(one, S)
    BY <1>1, OnlyConcat
  <1>4. Only(t, S) \in Seq(Symbols)
    BY OnlyParted
  <1> DEFINE all == Only(t, S)
  <1>5. all \o << >> = all /\ all \o <<c>> = Append(all, c)
    <2> HIDE DEF all
    <2>1. all \in Seq(Symbols)
      BY <1>4 DEF all
    <2> QED
      BY <2>1
  <1> QED
    BY <1>1, <1>2, <1>3, <1>5

\* The parts of a text with one part more.
LEMMA FlattenAppend ==
    ASSUME NEW T, NEW parts \in Seq(Seq(T)), NEW part \in Seq(T)
    PROVE  FlattenSeq(Append(parts, part)) = FlattenSeq(parts) \o part
  <1> DEFINE one == <<part>>
  <1>1. Append(parts, part) = parts \o one /\ one \in Seq(Seq(T))
    OBVIOUS
  <1>2. FlattenSeq(one) = part
    BY FlattenOne
  <1> HIDE DEF one
  <1> QED
    BY <1>1, <1>2, FlattenConcat

\* so_far[i] is what of the set stands in the first i symbols of a text.
OnlySoFar(so_far, t, S) ==
    /\ so_far[0] = << >> /\ so_far[Len(t)] = Only(t, S)
    /\ \A i \in 0..Len(t) : so_far[i] \in Seq(Symbols)
    /\ \A i \in Nat : i < Len(t) =>
        so_far[i + 1] = IF t[i + 1] \in S THEN Append(so_far[i], t[i + 1]) ELSE so_far[i]

\* There is such a list for every text.
LEMMA OnlyRun ==
    ASSUME NEW t \in Seq(Symbols), NEW S
    PROVE  \E so_far : OnlySoFar(so_far, t, S)
  <1> DEFINE n == Len(t)
             p == OnlyParts(t, S)
  <1>1. /\ p \in Seq(Seq(Symbols)) /\ Len(p) = n /\ Only(t, S) = FlattenSeq(p) /\ n \in Nat
        /\ \A i \in 1..n : p[i] = OnlyPart(t[i], S)
        /\ \A i \in 1..n : t[i] \in Symbols
    BY OnlyParted
  <1> HIDE DEF p
  <1>2. PICK f : Joins(f, p, n, Symbols)
    BY <1>1, JoinsExist
  <1>3. f[0] = << >> /\ f[n] = Only(t, S)
    BY <1>1, <1>2, JoinsType, FlattenJoins
  <1>4. \A i \in 0..n : f[i] \in Seq(Symbols)
    BY <1>1, <1>2, JoinsType
  <1> HIDE DEF n
  <1>5. ASSUME NEW i \in Nat, i < n
        PROVE  f[i + 1] = IF t[i + 1] \in S THEN Append(f[i], t[i + 1]) ELSE f[i]
    <2>1. i + 1 \in 1..n /\ i \in 0..n
      BY <1>1, <1>5
    <2>2. f[i + 1] = f[i] \o p[i + 1]
      BY <1>2, <1>5, Zenon DEF Joins
    <2> DEFINE a == f[i]
               c == t[i + 1]
    <2>3. a \in Seq(Symbols) /\ c \in Symbols
      BY <1>1, <1>4, <2>1
    <2>4. p[i + 1] = IF c \in S THEN <<c>> ELSE << >>
      BY <1>1, <2>1 DEF OnlyPart
    <2> HIDE DEF a, c
    <2>5. a \o << >> = a /\ a \o <<c>> = Append(a, c)
      BY <2>3
    <2> QED
      BY <2>2, <2>4, <2>5 DEF a, c
  <1> QED
    BY <1>3, <1>4, <1>5 DEF n, OnlySoFar

-----------------------------------------------------------------------------
(* What the scan has read *)

\* The letters of the tokens.
Held(tokens, token) == Only(FlattenSeq(tokens) \o token, Letters)

\* A symbol that is put to the token comes last.
LEMMA HeldPut ==
    ASSUME NEW tokens \in Seq(Seq(Symbols)), NEW token \in Seq(Symbols), NEW c \in Symbols
    PROVE  Held(tokens, Append(token, c)) =
                IF c \in Letters THEN Append(Held(tokens, token), c) ELSE Held(tokens, token)
  <1> DEFINE all == FlattenSeq(tokens)
  <1>1. all \in Seq(Symbols)
    BY FlattenType
  <1> HIDE DEF all
  <1> DEFINE before == all \o token
  <1>2. all \o Append(token, c) = Append(before, c) /\ before \in Seq(Symbols)
    BY <1>1
  <1> HIDE DEF before
  <1>3. Only(Append(before, c), Letters) =
            IF c \in Letters THEN Append(Only(before, Letters), c) ELSE Only(before, Letters)
    BY <1>2, OnlyAppend
  <1> QED
    BY <1>2, <1>3 DEF Held, all, before

\* A token that ends keeps its letters.
LEMMA HeldPush ==
    ASSUME NEW tokens \in Seq(Seq(Symbols)), NEW token \in Seq(Symbols)
    PROVE  Held(Append(tokens, token), << >>) = Held(tokens, token)
  <1> DEFINE all == FlattenSeq(tokens)
             more == FlattenSeq(Append(tokens, token))
  <1>1. all \in Seq(Symbols)
    BY FlattenType
  <1>2. more = all \o token
    BY FlattenAppend
  <1> HIDE DEF all, more
  <1>3. more \o << >> = more
    BY <1>1, <1>2
  <1> QED
    BY <1>2, <1>3 DEF Held, all, more

\* What the parts of a turn do to the variables of parse_dispatch_request: a
\* symbol is put to the token in progress.
LEMMA PutFields ==
    ASSUME NEW scan \in ScanState, NEW c
    PROVE  LET next == Put(scan, c)
           IN  /\ next.tokens = scan.tokens /\ next.token = Append(scan.token, c)
               /\ next.started = TRUE /\ next.skip = scan.skip /\ next.failed = scan.failed
  <1> DEFINE token == Append(scan.token, c)
  <1>1. Put(scan, c) = [scan EXCEPT !.token = token, !.started = TRUE]
    BY DEF Put, ScanState
  <1> HIDE DEF token
  <1>2. LET next == [scan EXCEPT !.token = token, !.started = TRUE]
        IN  /\ next.tokens = scan.tokens /\ next.token = token
            /\ next.started = TRUE /\ next.skip = scan.skip /\ next.failed = scan.failed
    BY DEF ScanState
  <1> QED
    BY <1>1, <1>2 DEF token

\* The token in progress goes behind the tokens, if one was started.
LEMMA PushFields ==
    ASSUME NEW scan \in ScanState
    PROVE  LET next == Push(scan)
           IN  /\ next.skip = scan.skip /\ next.failed = scan.failed
               /\ scan.started => /\ next.tokens = Append(scan.tokens, scan.token)
                                  /\ next.token = << >>
               /\ ~ scan.started => next = scan
  <1> DEFINE tokens == Append(scan.tokens, scan.token)
             none == << >>
  <1>1. Push(scan) = IF scan.started
                     THEN [scan EXCEPT !.tokens = tokens, !.token = none, !.started = FALSE]
                     ELSE scan
    BY DEF Push, ScanState
  <1> HIDE DEF tokens, none
  <1>2. LET next == [scan EXCEPT !.tokens = tokens, !.token = none, !.started = FALSE]
        IN  /\ next.skip = scan.skip /\ next.failed = scan.failed
            /\ next.tokens = tokens /\ next.token = none
    BY DEF ScanState
  <1>3. scan.started \in BOOLEAN
    BY DEF ScanState
  <1> QED
    BY <1>1, <1>2, <1>3 DEF tokens, none

\* The checks at the end of a turn change nothing or fail.
LEMMA LimitedFields ==
    ASSUME NEW scan \in ScanState
    PROVE  Limited(scan).failed \/ Limited(scan) = scan
  BY DEF Limited, ScanState

\* A symbol to be left out is remembered, or has been left out.
LEMMA SkipFields ==
    ASSUME NEW scan \in ScanState, NEW skip \in BOOLEAN
    PROVE  LET next == [scan EXCEPT !.skip = skip]
           IN  /\ next \in ScanState
               /\ next.tokens = scan.tokens /\ next.token = scan.token
               /\ next.started = scan.started /\ next.skip = skip /\ next.failed = scan.failed
  BY DEF ScanState

\* A quote starts a token and is no symbol of it.
LEMMA QuoteFields ==
    ASSUME NEW scan \in ScanState
    PROVE  LET next == ScanQuote(scan)
           IN  /\ next.tokens = scan.tokens /\ next.token = scan.token
               /\ next.started = TRUE /\ next.skip = scan.skip /\ next.failed = scan.failed
  BY DEF ScanQuote, ScanState

\* A scan that goes on has met no control, and the letters of its tokens are
\* those it has met.
Faithful(scan, t, i, so_far) ==
    \/ scan.failed
    \/ /\ \A j \in 1..i : t[j] \notin Controls
       /\ scan.skip => i < Len(t) /\ t[i + 1] \in {"quote", "backslash"}
       /\ Held(scan.tokens, scan.token) = so_far
       /\ scan.token # << >> => scan.started

\* A turn keeps it so.
LEMMA FaithfulStep ==
    ASSUME NEW t \in Seq(Symbols), NEW i \in Nat, i < Len(t),
           NEW scan \in ScanState, NEW so_far, Faithful(scan, t, i, so_far)
    PROVE  Faithful(ScanSymbol(t, scan, i + 1), t, i + 1,
                    IF t[i + 1] \in Letters THEN Append(so_far, t[i + 1]) ELSE so_far)
  <1> DEFINE c == t[i + 1]
             next == ScanSymbol(t, scan, i + 1)
             then == IF c \in Letters THEN Append(so_far, c) ELSE so_far
  <1>1. /\ Len(t) \in Nat /\ i + 1 \in 1..Len(t) /\ c \in Symbols
        /\ scan.failed \in BOOLEAN /\ scan.skip \in BOOLEAN /\ scan.started \in BOOLEAN
        /\ scan.tokens \in Seq(Seq(Symbols)) /\ scan.token \in Seq(Symbols)
    BY DEF ScanState
  <1>2. CASE scan.failed
    BY <1>2 DEF ScanSymbol, Faithful
  <1>3. CASE ~ scan.failed /\ scan.skip
    <2>1. next = [scan EXCEPT !.skip = FALSE]
      BY <1>3 DEF ScanSymbol
    <2>2. c \in {"quote", "backslash"}
      BY <1>3 DEF Faithful
    <2>3. c \notin Letters /\ c \notin Controls
      BY <2>2 DEF Letters, Controls
    <2>4. /\ next.tokens = scan.tokens /\ next.token = scan.token
          /\ next.started = scan.started /\ next.skip = FALSE
      BY <2>1, SkipFields
    <2>5. \A j \in 1..(i + 1) : t[j] \notin Controls
      BY <1>1, <1>3, <2>3 DEF Faithful
    <2> QED
      BY <1>3, <2>3, <2>4, <2>5, Zenon DEF Faithful
  <1>4. CASE ~ scan.failed /\ ~ scan.skip
    <2>1. CASE c \in Controls
      <3>1. next = [scan EXCEPT !.failed = TRUE]
        BY <1>4, <2>1 DEF ScanSymbol, Controls, Escapes
      <3>2. next.failed
        BY <3>1 DEF ScanState
      <3> QED
        BY <3>2, Zenon DEF Faithful
    <2>2. CASE c \notin Controls
      <3>1. \A j \in 1..(i + 1) : t[j] \notin Controls
        BY <1>1, <1>4, <2>2 DEF Faithful
      <3>2. Held(scan.tokens, scan.token) = so_far
        BY <1>4, Zenon DEF Faithful
      <3>3. CASE c = "quote"
        <4>1. next = ScanQuote(scan)
          BY <1>4, <3>3 DEF ScanSymbol, Controls, Escapes
        <4>2. c \notin Letters
          BY <3>3 DEF Letters
        <4> QED
          BY <1>4, <3>1, <3>2, <4>1, <4>2, QuoteFields, Zenon DEF Faithful
      <3>4. CASE c # "quote" /\ scan.quoted /\ Escapes(t, i + 1)
        <4> DEFINE d == t[(i + 1) + 1]
                   put == Put(scan, d)
                   skipped == [put EXCEPT !.skip = TRUE]
        <4>1. next = Limited(skipped)
          BY <1>4, <2>2, <3>4 DEF ScanSymbol
        <4>2. c = "backslash" /\ i + 1 < Len(t) /\ d \in {"quote", "backslash"}
          BY <3>4 DEF Escapes
        <4>3. c \notin Letters /\ d \notin Letters /\ d \in Symbols
          BY <4>2 DEF Letters, Symbols
        <4>4. put \in ScanState
          <5> DEFINE token == Append(scan.token, d)
          <5>1. token \in Seq(Symbols)
            BY <1>1, <4>3
          <5>2. put = [scan EXCEPT !.token = token, !.started = TRUE]
            BY DEF Put
          <5> HIDE DEF token, put
          <5> QED
            BY <5>1, <5>2 DEF ScanState
        <4>5. /\ put.tokens = scan.tokens /\ put.token = Append(scan.token, d)
              /\ put.started = TRUE
          BY PutFields
        <4> HIDE DEF put
        <4>6. /\ skipped \in ScanState
              /\ skipped.tokens = scan.tokens /\ skipped.token = Append(scan.token, d)
              /\ skipped.started = TRUE /\ skipped.skip = TRUE
          BY <4>4, <4>5, SkipFields
        <4> HIDE DEF skipped
        <4>7. Held(scan.tokens, Append(scan.token, d)) = so_far
          BY <1>1, <3>2, <4>3, HeldPut
        <4>8. next.failed \/ next = skipped
          BY <4>1, <4>6, LimitedFields
        <4> QED
          BY <3>1, <4>2, <4>3, <4>6, <4>7, <4>8, Zenon DEF Faithful
      <3>5. CASE c # "quote" /\ ~ (scan.quoted /\ Escapes(t, i + 1))
                 /\ ~ scan.quoted /\ c \in {"blank", "tab"}
        <4> DEFINE pushed == Push(scan)
        <4>1. next = Limited(pushed)
          BY <1>4, <2>2, <3>5 DEF ScanSymbol
        <4>2. c \notin Letters
          BY <3>5 DEF Letters, Space
        <4>3. pushed \in ScanState
          <5> DEFINE tokens == Append(scan.tokens, scan.token)
                     none == << >>
          <5>1. tokens \in Seq(Seq(Symbols)) /\ none \in Seq(Symbols)
            BY <1>1
          <5>2. pushed = IF scan.started
                         THEN [scan EXCEPT !.tokens = tokens, !.token = none, !.started = FALSE]
                         ELSE scan
            BY DEF Push
          <5> HIDE DEF tokens, none, pushed
          <5> QED
            BY <5>1, <5>2 DEF ScanState
        <4>4. /\ pushed.skip = scan.skip
              /\ scan.started => /\ pushed.tokens = Append(scan.tokens, scan.token)
                                 /\ pushed.token = << >>
              /\ ~ scan.started => pushed = scan
          BY PushFields
        <4> HIDE DEF pushed
        <4>5. Held(pushed.tokens, pushed.token) = so_far
          BY <1>1, <3>2, <4>4, HeldPush
        <4>6. pushed.token # << >> => pushed.started
          BY <1>1, <1>4, <4>4, Zenon DEF Faithful
        <4>7. next.failed \/ next = pushed
          BY <4>1, <4>3, LimitedFields
        <4> QED
          BY <1>4, <3>1, <4>2, <4>4, <4>5, <4>6, <4>7, Zenon DEF Faithful
      <3>6. CASE c # "quote" /\ ~ (scan.quoted /\ Escapes(t, i + 1))
                 /\ ~ (~ scan.quoted /\ c \in {"blank", "tab"})
        <4> DEFINE put == Put(scan, c)
        <4>1. next = Limited(put)
          BY <1>4, <2>2, <3>6 DEF ScanSymbol
        <4>2. put \in ScanState
          <5> DEFINE token == Append(scan.token, c)
          <5>1. token \in Seq(Symbols)
            BY <1>1
          <5>2. put = [scan EXCEPT !.token = token, !.started = TRUE]
            BY DEF Put
          <5> HIDE DEF token, put
          <5> QED
            BY <5>1, <5>2 DEF ScanState
        <4>3. /\ put.tokens = scan.tokens /\ put.token = Append(scan.token, c)
              /\ put.started = TRUE /\ put.skip = scan.skip
          BY PutFields
        <4> HIDE DEF put
        <4>4. Held(scan.tokens, Append(scan.token, c)) = then
          BY <1>1, <3>2, HeldPut
        <4>5. next.failed \/ next = put
          BY <4>1, <4>2, LimitedFields
        <4> QED
          BY <1>4, <3>1, <4>3, <4>4, <4>5, Zenon DEF Faithful
      <3> QED
        BY <3>3, <3>4, <3>5, <3>6
    <2> QED
      BY <2>1, <2>2
  <1> QED
    BY <1>1, <1>2, <1>3, <1>4

\* The tokens of a scan that did not fail have the letters of the text, which
\* has no controls.
LEMMA ScanFaithful ==
    ASSUME NEW t \in Seq(Symbols), ~ Scan(t).failed
    PROVE  /\ Push(Scan(t)).tokens \in Seq(Seq(Symbols))
           /\ \A i \in 1..Len(t) : t[i] \notin Controls
           /\ Only(FlattenSeq(Push(Scan(t)).tokens), Letters) = Only(t, Letters)
  <1> DEFINE n == Len(t)
             none == << >>
  <1>1. PICK scan :
            /\ scan[0] = NewScan
            /\ \A i \in Nat : i < n => scan[i + 1] = ScanSymbol(t, scan[i], i + 1)
            /\ Scan(t) = scan[n]
    BY ScanRun
  <1>0. PICK so_far : OnlySoFar(so_far, t, Letters)
    BY OnlyRun
  <1>2. /\ so_far[0] = << >> /\ so_far[n] = Only(t, Letters)
        /\ \A i \in 0..n : so_far[i] \in Seq(Symbols)
        /\ \A i \in Nat : i < n =>
            so_far[i + 1] = IF t[i + 1] \in Letters THEN Append(so_far[i], t[i + 1]) ELSE so_far[i]
    BY <1>0, Zenon DEF OnlySoFar
  <1>3. n \in Nat
    OBVIOUS
  <1>4. FlattenSeq(none) = << >> /\ none \in Seq(Seq(Symbols)) /\ none \in Seq(Symbols)
        /\ Held(none, none) = << >>
    <2>1. none \in Seq(Seq(Symbols)) /\ none \in Seq(Symbols) /\ Len(none) = 0 /\ none \o none = none
      OBVIOUS
    <2>2. 1..Len(none) = {}
      BY <2>1
    <2> DEFINE empty == << >>
    <2>3. none = empty
      OBVIOUS
    <2> HIDE DEF none, empty
    <2>4. FlattenSeq(none) = << >>
      BY <2>1, <2>2, FlattenNothing
    <2>5. Only(none, Letters) = << >>
      BY <2>1, <2>2, OnlyNothing
    <2>6. FlattenSeq(none) \o none = none
      BY <2>1, <2>3, <2>4 DEF empty
    <2> QED
      BY <2>1, <2>4, <2>5, <2>6 DEF Held
  <1> DEFINE Good(i) == scan[i] \in ScanState /\ Faithful(scan[i], t, i, so_far[i])
             S == {i \in Nat : i <= n => Good(i)}
  <1>5. Good(0)
    <2>1. NewScan \in ScanState
      BY <1>4 DEF NewScan, ScanState
    <2>2. /\ NewScan.tokens = none /\ NewScan.token = none /\ NewScan.skip = FALSE
      BY DEF NewScan
    <2>3. \A j \in 1..0 : t[j] \notin Controls
      OBVIOUS
    <2> QED
      BY <1>1, <1>2, <1>4, <2>1, <2>2, <2>3, Zenon DEF Faithful
  <1>6. ASSUME NEW i \in Nat, i < n, Good(i) PROVE Good(i + 1)
    <2>1. scan[i + 1] = ScanSymbol(t, scan[i], i + 1)
      BY <1>1, <1>6
    <2>2. i + 1 \in 1..n
      BY <1>3, <1>6
    <2>3. scan[i + 1] \in ScanState
      BY <1>6, <2>1, <2>2, ScanTyped
    <2>4. so_far[i + 1] = IF t[i + 1] \in Letters THEN Append(so_far[i], t[i + 1]) ELSE so_far[i]
      BY <1>2, <1>6
    <2> QED
      BY <1>6, <2>1, <2>3, <2>4, FaithfulStep
  <1>7. n \in S
    <2>1. 0 \in S
      BY <1>5
    <2>2. \A i \in Nat : i < n /\ i \in S => i + 1 \in S
      BY <1>3, <1>6
    <2> HIDE DEF S
    <2> QED
      BY <1>3, <2>1, <2>2, Induction
  <1> DEFINE last == scan[n]
  <1>8. last \in ScanState /\ Faithful(last, t, n, so_far[n]) /\ ~ last.failed
    BY <1>1, <1>3, <1>7
  <1> HIDE DEF last, Good, S, n, none
  <1>9. /\ last.tokens \in Seq(Seq(Symbols)) /\ last.token \in Seq(Symbols)
        /\ last.started \in BOOLEAN
    BY <1>8 DEF ScanState
  <1>10. /\ \A j \in 1..n : t[j] \notin Controls
         /\ Held(last.tokens, last.token) = Only(t, Letters)
         /\ last.token # << >> => last.started
    BY <1>2, <1>8, Zenon DEF Faithful
  <1> DEFINE tokens == Push(last).tokens
  <1>11. tokens \in Seq(Seq(Symbols)) /\ Held(tokens, none) = Only(t, Letters)
    <2>1. CASE last.started
      <3>1. tokens = Append(last.tokens, last.token)
        BY <1>8, <2>1, PushFields
      <3>2. tokens \in Seq(Seq(Symbols))
        BY <1>9, <3>1
      <3> QED
        BY <1>9, <1>10, <3>1, <3>2, HeldPush DEF none
    <2>2. CASE ~ last.started
      <3>1. tokens = last.tokens /\ last.token = none
        BY <1>8, <1>10, <2>2, PushFields DEF none
      <3> QED
        BY <1>9, <1>10, <3>1
    <2> QED
      BY <2>1, <2>2
  <1>12. FlattenSeq(tokens) \in Seq(Symbols)
    BY <1>11, FlattenType
  <1>13. FlattenSeq(tokens) \o none = FlattenSeq(tokens)
    BY <1>12 DEF none
  <1> QED
    BY <1>1, <1>10, <1>11, <1>13, Zenon DEF Held, tokens, last, n

-----------------------------------------------------------------------------
(* From the tokens to the request *)

\* The sign in front of a word is no letter of it.
LEMMA UnhashedLetters ==
    ASSUME NEW word \in Seq(Symbols)
    PROVE  Unhashed(word) \in Seq(Symbols) /\ Only(Unhashed(word), Letters) = Only(word, Letters)
  <1>1. CASE ~ (word # << >> /\ word[1] = "hash")
    BY <1>1 DEF Unhashed
  <1>2. CASE word # << >> /\ word[1] = "hash"
    <2> DEFINE rest == Tail(word)
               sign == <<"hash">>
    <2>1. rest \in Seq(Symbols) /\ word = sign \o rest /\ Unhashed(word) = rest
      BY <1>2 DEF Unhashed
    <2>2. "hash" \in Symbols /\ "hash" \notin Letters
      BY DEF Symbols, Letters
    <2>3. sign \in Seq(Symbols) /\ Only(sign, Letters) = << >>
      BY <2>2, OnlyOne
    <2>4. Only(rest, Letters) \in Seq(Symbols)
      BY <2>1, OnlyParted
    <2>7. rest \in Seq(Symbols) /\ sign \in Seq(Symbols)
      BY <2>1, <2>3
    <2> HIDE DEF rest, sign
    <2>5. Only(sign \o rest, Letters) = Only(sign, Letters) \o Only(rest, Letters)
      BY <2>7, OnlyConcat
    <2>6. << >> \o Only(rest, Letters) = Only(rest, Letters)
      BY <2>4
    <2> QED
      BY <2>1, <2>3, <2>5, <2>6
  <1> QED
    BY <1>1, <1>2

\* A list of one word.
One(word) == <<word>>

\* A list of words from its first one on.
LEMMA FlattenFirst ==
    ASSUME NEW T, NEW a \in Seq(T), NEW rest \in Seq(Seq(T))
    PROVE  /\ One(a) \o rest \in Seq(Seq(T))
           /\ FlattenSeq(One(a) \o rest) = a \o FlattenSeq(rest)
  <1>1. One(a) \in Seq(Seq(T))
    BY DEF One
  <1>2. FlattenSeq(One(a)) = a
    BY FlattenOne, Zenon DEF One
  <1>3. One(a) \o rest \in Seq(Seq(T))
    BY <1>1
  <1> QED
    BY <1>1, <1>2, <1>3, FlattenConcat

\* The letters of a list of words, one word after the other.
LEMMA LettersFirst ==
    ASSUME NEW a \in Seq(Symbols), NEW rest \in Seq(Seq(Symbols))
    PROVE  /\ One(a) \o rest \in Seq(Seq(Symbols))
           /\ Only(FlattenSeq(One(a) \o rest), Letters)
                = Only(a, Letters) \o Only(FlattenSeq(rest), Letters)
  <1>1. /\ One(a) \o rest \in Seq(Seq(Symbols))
        /\ FlattenSeq(One(a) \o rest) = a \o FlattenSeq(rest)
    BY FlattenFirst
  <1>2. FlattenSeq(rest) \in Seq(Symbols)
    BY FlattenType
  <1> QED
    BY <1>1, <1>2, OnlyConcat

\* Two words in front of a list are the first in front of the other.
LEMMA TwoWords ==
    ASSUME NEW a \in Seq(Symbols), NEW b \in Seq(Symbols), NEW rest \in Seq(Seq(Symbols))
    PROVE  <<a, b>> \o rest = One(a) \o (One(b) \o rest)
  <1> DEFINE S == Seq(Symbols)
             two == <<a, b>>
  <1>1. a \in S /\ b \in S /\ rest \in Seq(S)
    OBVIOUS
  <1> HIDE DEF S
  <1>2. /\ One(a) \in Seq(S) /\ Len(One(a)) = 1 /\ One(a)[1] = a
        /\ One(b) \in Seq(S) /\ Len(One(b)) = 1 /\ One(b)[1] = b
        /\ two \in Seq(S) /\ Len(two) = 2 /\ two[1] = a /\ two[2] = b
    BY <1>1 DEF One
  <1> HIDE DEF two
  <1>3. two = One(a) \o One(b)
    <2>1. Len(two) = Len(One(a)) + Len(One(b))
      BY <1>2
    <2>2. \A i \in 1..Len(One(a)) : two[i] = One(a)[i]
      BY <1>2
    <2>3. \A i \in 1..Len(One(b)) : two[Len(One(a)) + i] = One(b)[i]
      BY <1>2
    <2> QED
      BY <1>2, <2>1, <2>2, <2>3, ConcatIs
  <1>4. (One(a) \o One(b)) \o rest = One(a) \o (One(b) \o rest)
    <2> DEFINE x == One(a)
               y == One(b)
    <2>1. x \in Seq(S) /\ y \in Seq(S) /\ rest \in Seq(S)
      BY <1>1, <1>2
    <2> HIDE DEF x, y
    <2>2. (x \o y) \o rest = x \o (y \o rest)
      BY <2>1
    <2> QED
      BY <2>2 DEF x, y
  <1> QED
    BY <1>3, <1>4, Zenon DEF two

\* An !exec has the letters of its tokens.
LEMMA ClassifyExec ==
    ASSUME NEW tokens \in Seq(Seq(Symbols)), tokens # << >>,
           Classify(tokens).action = "exec"
    PROVE  LET request == Classify(tokens)
           IN  Only(FlattenSeq(tokens), Letters) =
                <<"exec">> \o Only(FlattenSeq(<<request.id, request.verb>> \o request.args), Letters)
  <1> DEFINE first == tokens[1]
             id == tokens[2]
             name == tokens[3]
             verb == Unhashed(name)
             args == SubSeq(tokens, 4, Len(tokens))
             request == Classify(tokens)
  <1>1. /\ Unhashed(first) = <<"exec">> /\ Len(tokens) >= 3
        /\ request = Result("exec", id, verb, args)
    <2>1. /\ Invalid.action # "exec" /\ \A i, v, a : Result("unknown", i, v, a).action # "exec"
          /\ \A i, v, a : Result("commands", i, v, a).action # "exec"
          /\ \A query \in Queries : \A i, v, a : Result(query, i, v, a).action # "exec"
      BY DEF Invalid, Result, Queries
    <2>2. Unhashed(first) \notin {<<query>> : query \in Queries} /\ Unhashed(first) # <<"commands">>
      <3>1. \A query : <<query>>[1] = query
        OBVIOUS
      <3> QED
        BY <2>1, <3>1 DEF Classify
    <2>3. Unhashed(first) = <<"exec">>
      BY <2>1, <2>2 DEF Classify
    <2> DEFINE Bad == \/ Len(tokens) < 3 \/ TooMany(tokens) \/ tokens[2] # <<"id">>
                      \/ Unhashed(tokens[3]) = << >>
                      \/ \E i \in DOMAIN Unhashed(tokens[3]) :
                           Unhashed(tokens[3])[i] \notin VerbSymbols
    <2>4. request = IF Bad THEN Invalid ELSE Result("exec", id, verb, args)
      BY <2>2, <2>3 DEF Classify
    <2>5. ~ Bad
      BY <2>1, <2>4
    <2>6. Len(tokens) >= 3
      BY <2>5
    <2> HIDE DEF Bad
    <2> QED
      BY <2>3, <2>4, <2>5, <2>6
  <1>2. request.id = id /\ request.verb = verb /\ request.args = args
    BY <1>1 DEF Result
  <1>3. /\ first \in Seq(Symbols) /\ id \in Seq(Symbols) /\ name \in Seq(Symbols)
        /\ args \in Seq(Seq(Symbols))
    BY <1>1
  <1> DEFINE tail == One(name) \o args
             more == One(id) \o tail
             tail2 == One(verb) \o args
             more2 == One(id) \o tail2
  <1>5. verb \in Seq(Symbols) /\ Only(verb, Letters) = Only(name, Letters)
    BY <1>3, UnhashedLetters
  <1>4. tokens = One(first) \o more
    BY <1>1, <1>3 DEF One
  <1>6. <<id, verb>> \o args = more2
    <2>1. /\ id \in Seq(Symbols) /\ verb \in Seq(Symbols) /\ args \in Seq(Seq(Symbols))
      BY <1>3, <1>5
    <2>2. <<id, verb>> \o args = One(id) \o (One(verb) \o args)
      <3> HIDE DEF id, verb, args
      <3> QED
        BY <2>1, TwoWords
    <2> QED
      BY <2>2
  <1>7. Only(first, Letters) = <<"exec">>
    <2>1. Only(first, Letters) = Only(<<"exec">>, Letters)
      BY <1>1, <1>3, UnhashedLetters
    <2>2. "exec" \in Symbols /\ "exec" \in Letters
      BY DEF Symbols, Letters, Space, Controls
    <2> QED
      BY <2>1, <2>2, OnlyOne
  <1> HIDE DEF verb, id, args, first, name, request
  <1>8. /\ tail \in Seq(Seq(Symbols)) /\ tail2 \in Seq(Seq(Symbols))
        /\ Only(FlattenSeq(tail), Letters) = Only(FlattenSeq(tail2), Letters)
    <2>1. /\ tail \in Seq(Seq(Symbols))
          /\ Only(FlattenSeq(tail), Letters) = Only(name, Letters) \o Only(FlattenSeq(args), Letters)
      BY <1>3, LettersFirst
    <2>2. /\ tail2 \in Seq(Seq(Symbols))
          /\ Only(FlattenSeq(tail2), Letters) = Only(verb, Letters) \o Only(FlattenSeq(args), Letters)
      BY <1>3, <1>5, LettersFirst
    <2> QED
      BY <1>5, <2>1, <2>2
  <1> HIDE DEF tail, tail2
  <1>9. /\ more \in Seq(Seq(Symbols)) /\ more2 \in Seq(Seq(Symbols))
        /\ Only(FlattenSeq(more), Letters) = Only(FlattenSeq(more2), Letters)
    <2>1. /\ more \in Seq(Seq(Symbols))
          /\ Only(FlattenSeq(more), Letters) = Only(id, Letters) \o Only(FlattenSeq(tail), Letters)
      BY <1>3, <1>8, LettersFirst
    <2>2. /\ more2 \in Seq(Seq(Symbols))
          /\ Only(FlattenSeq(more2), Letters) = Only(id, Letters) \o Only(FlattenSeq(tail2), Letters)
      BY <1>3, <1>8, LettersFirst
    <2> QED
      BY <1>8, <2>1, <2>2
  <1> HIDE DEF more, more2
  <1>10. Only(FlattenSeq(tokens), Letters) = <<"exec">> \o Only(FlattenSeq(more), Letters)
    BY <1>3, <1>4, <1>7, <1>9, LettersFirst
  <1> QED
    BY <1>2, <1>6, <1>9, <1>10, Zenon DEF request

-----------------------------------------------------------------------------
(* The blanks around a text *)

\* Of a text between two that have nothing of the set it is all.
LEMMA OnlyInside ==
    ASSUME NEW a \in Seq(Symbols), NEW b \in Seq(Symbols), NEW c \in Seq(Symbols), NEW S,
           Only(a, S) = << >>, Only(c, S) = << >>
    PROVE  Only((a \o b) \o c, S) = Only(b, S)
  <1>1. a \o b \in Seq(Symbols)
    OBVIOUS
  <1>2. Only((a \o b) \o c, S) = Only(a \o b, S) \o Only(c, S)
    BY <1>1, OnlyConcat, Zenon
  <1>3. Only(a \o b, S) = Only(a, S) \o Only(b, S)
    BY OnlyConcat, Zenon
  <1>4. Only(b, S) \in Seq(Symbols)
    BY OnlyParted
  <1>5. << >> \o Only(b, S) = Only(b, S) /\ Only(b, S) \o << >> = Only(b, S)
    BY <1>4
  <1> QED
    BY <1>2, <1>3, <1>5, Zenon

\* A finite set of numbers that is not empty has a least and a greatest one.
LEMMA LeastAndGreatest ==
    ASSUME NEW S, IsFiniteSet(S), S # {}, \A i \in S : i \in Nat
    PROVE  /\ Min(S) \in S /\ \A i \in S : Min(S) <= i
           /\ Max(S) \in S /\ \A i \in S : i <= Max(S)
  <1> DEFINE Below(i) == {j \in S : j <= i}
             Above(i) == {j \in S : j >= i}
             T == {Below(i) : i \in S}
             U == {Above(i) : i \in S}
  <1>1. T \subseteq SUBSET S /\ T # {} /\ U \subseteq SUBSET S /\ U # {}
    OBVIOUS
  <1>2. \E i \in S : \A j \in S : i <= j
    <2>0. \E x \in T : \A y \in T : y \subseteq x => y = x
      <3> HIDE DEF T
      <3> QED
        BY <1>1, SmallestPart
    <2>1. PICK x \in T : \A y \in T : y \subseteq x => y = x
      BY <2>0
    <2>2. PICK i \in S : x = Below(i)
      OBVIOUS
    <2>3. ASSUME NEW j \in S, j < i PROVE FALSE
      <3>1. Below(j) \subseteq x /\ Below(j) \in T /\ i \in x /\ i \notin Below(j)
        BY <2>2, <2>3
      <3> QED
        BY <2>1, <3>1
    <2> QED
      BY <2>3
  <1>3. \E i \in S : \A j \in S : i >= j
    <2>0. \E x \in U : \A y \in U : y \subseteq x => y = x
      <3> HIDE DEF U
      <3> QED
        BY <1>1, SmallestPart
    <2>1. PICK x \in U : \A y \in U : y \subseteq x => y = x
      BY <2>0
    <2>2. PICK i \in S : x = Above(i)
      OBVIOUS
    <2>3. ASSUME NEW j \in S, j > i PROVE FALSE
      <3>1. Above(j) \subseteq x /\ Above(j) \in U /\ i \in x /\ i \notin Above(j)
        BY <2>2, <2>3
      <3> QED
        BY <2>1, <3>1
    <2> QED
      BY <2>3
  <1>4. Min(S) \in S /\ \A i \in S : Min(S) <= i
    BY <1>2, Zenon DEF Min
  <1>5. Max(S) \in S /\ \A i \in S : Max(S) >= i
    BY <1>3, Zenon DEF Max
  <1> QED
    BY <1>4, <1>5

\* Trimming takes nothing from a text but blanks, tabs and line ends.
LEMMA TrimmedLetters ==
    ASSUME NEW t \in Seq(Symbols)
    PROVE  Trimmed(t) \in Seq(Symbols) /\ Only(Trimmed(t), Letters) = Only(t, Letters)
  <1> DEFINE n == Len(t)
             I == {i \in 1..n : t[i] \notin Space}
             first == IF I # {} THEN Min(I) ELSE 0
             last == IF I # {} THEN Max(I) ELSE 0
  <1>1. n \in Nat /\ (\A i \in I : i \in Nat /\ 1 <= i /\ i <= n /\ i \in 1..n)
    OBVIOUS
  <1>2. Trimmed(t) = IF first = 0 THEN << >> ELSE SubSeq(t, first, last)
    BY DEF Trimmed, SelectInSeq, SelectLastInSeq
  <1>3. \A i \in 1..n : t[i] \in Symbols /\ (t[i] \in Space => t[i] \notin Letters)
    BY DEF Letters
  <1>4. CASE I = {}
    <2>1. Trimmed(t) = << >>
      BY <1>2, <1>4
    <2>2. \A i \in 1..n : t[i] \notin Letters
      BY <1>3, <1>4
    <2>3. Only(t, Letters) = << >>
      BY <2>2, OnlyNothing
    <2> DEFINE none == << >>
    <2>4. none \in Seq(Symbols) /\ 1..Len(none) = {}
      OBVIOUS
    <2> HIDE DEF none
    <2>5. Only(none, Letters) = << >>
      BY <2>4, OnlyNothing
    <2> QED
      BY <2>1, <2>3, <2>4, <2>5 DEF none
  <1>5. CASE I # {}
    <2>1. IsFiniteSet(1..n)
      BY <1>1, FS_Interval
    <2>2. IsFiniteSet(I)
      BY <2>1, FS_Subset
    <2>3. first \in I /\ last \in I /\ \A i \in I : first <= i /\ i <= last
      BY <1>1, <1>5, <2>2, LeastAndGreatest
    <2> HIDE DEF first, last
    <2>4. first \in 1..n /\ last \in 1..n /\ first <= last /\ first # 0
      BY <1>1, <2>3
    <2> DEFINE a == SubSeq(t, 1, first - 1)
               b == SubSeq(t, first, last)
               c == SubSeq(t, last + 1, n)
               ab == SubSeq(t, 1, last)
    <2>5. /\ a \in Seq(Symbols) /\ Len(a) = first - 1 /\ \A j \in 1..(first - 1) : a[j] = t[j]
          /\ b \in Seq(Symbols) /\ Len(b) = (last - first) + 1
          /\ \A j \in 1..((last - first) + 1) : b[j] = t[(first + j) - 1]
          /\ c \in Seq(Symbols) /\ Len(c) = n - last
          /\ \A j \in 1..(n - last) : c[j] = t[last + j]
          /\ ab \in Seq(Symbols) /\ Len(ab) = last /\ \A j \in 1..last : ab[j] = t[j]
      BY <1>1, <2>4
    <2>6. Trimmed(t) = b
      BY <1>2, <2>4
    <2>15. /\ a \in Seq(Symbols) /\ b \in Seq(Symbols) /\ c \in Seq(Symbols)
           /\ ab \in Seq(Symbols)
      BY <2>5
    <2> HIDE DEF a, b, c, ab, n
    <2>7. ab = a \o b
      <3>1. Len(ab) = Len(a) + Len(b)
        BY <2>4, <2>5
      <3>2. \A j \in 1..Len(a) : ab[j] = a[j]
        BY <2>4, <2>5
      <3>3. ASSUME NEW j \in 1..Len(b) PROVE ab[Len(a) + j] = b[j]
        <4>1. Len(a) + j \in 1..last /\ Len(a) + j = (first + j) - 1
              /\ j \in 1..((last - first) + 1)
          BY <2>4, <2>5
        <4> QED
          BY <2>5, <4>1
      <3> QED
        BY <2>15, <3>1, <3>2, <3>3, ConcatIs
    <2>8. t = ab \o c
      <3>1. Len(t) = Len(ab) + Len(c)
        BY <1>1, <2>4, <2>5 DEF n
      <3>2. \A j \in 1..Len(ab) : t[j] = ab[j]
        BY <2>4, <2>5
      <3>3. \A j \in 1..Len(c) : t[Len(ab) + j] = c[j]
        BY <2>4, <2>5
      <3> QED
        BY <2>15, <3>1, <3>2, <3>3, ConcatIs
    <2>9. Only(a, Letters) = << >>
      <3>1. \A j \in 1..(first - 1) : j \in 1..n /\ j \notin I
        BY <1>1, <2>3, <2>4
      <3>2. \A j \in 1..Len(a) : a[j] \notin Letters
        BY <1>3, <2>5, <3>1
      <3> QED
        BY <2>5, <3>2, OnlyNothing
    <2>10. Only(c, Letters) = << >>
      <3>1. \A j \in 1..(n - last) : last + j \in 1..n /\ last + j \notin I
        BY <1>1, <2>3, <2>4
      <3>2. \A j \in 1..Len(c) : c[j] \notin Letters
        BY <1>3, <2>5, <3>1
      <3> QED
        BY <2>5, <3>2, OnlyNothing
    <2>11. Only((a \o b) \o c, Letters) = Only(b, Letters)
      BY <2>9, <2>10, <2>15, OnlyInside
    <2> QED
      BY <2>6, <2>7, <2>8, <2>11, <2>15
  <1> QED
    BY <1>4, <1>5

-----------------------------------------------------------------------------
(* The words of the GodMode parser *)

\* What is no blank, tab or line end.
Solid == Symbols \ Space

\* What has been read into words, and the word in progress.
Collected(read) == FlattenSeq(read.words) \o read.word

\* A symbol is lost only if it is a blank, a tab or a line end.
LEMMA CollectedStep ==
    ASSUME NEW read \in WordState, NEW c \in Symbols
    PROVE  Collected(WordSymbol(read, c)) =
                IF c \in Solid THEN Append(Collected(read), c) ELSE Collected(read)
  <1> DEFINE words == read.words
             word == read.word
             all == FlattenSeq(words)
             none == << >>
  <1>1. words \in Seq(Seq(Symbols)) /\ word \in Seq(Symbols)
    BY DEF WordState
  <1>2. all \in Seq(Symbols)
    BY <1>1, FlattenType
  <1>3. CASE c \in Solid
    <2> DEFINE longer == Append(word, c)
               next == WordSymbol(read, c)
    <2>1. next = [read EXCEPT !.word = longer]
      BY <1>3 DEF WordSymbol, Solid
    <2> HIDE DEF longer
    <2>2. next.words = words /\ next.word = longer
      BY <2>1 DEF WordState
    <2> HIDE DEF words, word, all
    <2>3. all \o longer = Append(all \o word, c)
      BY <1>1, <1>2 DEF longer
    <2> QED
      BY <1>3, <2>2, <2>3 DEF Collected, all, words, word
  <1>4. CASE c \notin Solid /\ word = << >>
    BY <1>4 DEF WordSymbol, Solid
  <1>5. CASE c \notin Solid /\ word # << >>
    <2> DEFINE more == Append(words, word)
               next == WordSymbol(read, c)
    <2>1. next = [words |-> more, word |-> none]
      BY <1>5 DEF WordSymbol, Solid
    <2> HIDE DEF more, none
    <2>2. next.words = more /\ next.word = none
      BY <2>1
    <2>3. FlattenSeq(more) = all \o word
      BY <1>1, FlattenAppend DEF more
    <2> HIDE DEF words, word, all
    <2>4. (all \o word) \o none = all \o word
      BY <1>1, <1>2 DEF none
    <2> QED
      BY <1>5, <2>2, <2>3, <2>4 DEF Collected, all, words, word
  <1> QED
    BY <1>3, <1>4, <1>5

\* The words are the text without blanks, tabs and line ends.
LEMMA WordsText ==
    ASSUME NEW t \in Seq(Symbols)
    PROVE  Words(t) \in Seq(Seq(Symbols)) /\ FlattenSeq(Words(t)) = Only(t, Solid)
  <1> DEFINE n == Len(t)
             none == << >>
  <1>1. PICK read :
            /\ read \in [0..n -> WordState]
            /\ read[0] = NoWords
            /\ \A i \in Nat : i < n => read[i + 1] = WordSymbol(read[i], t[i + 1])
            /\ Words(t) = IF read[n].word = << >> THEN read[n].words
                          ELSE Append(read[n].words, read[n].word)
    BY WordRun
  <1>2. PICK so_far : OnlySoFar(so_far, t, Solid)
    BY OnlyRun
  <1>3. n \in Nat /\ \A i \in 1..n : t[i] \in Symbols
    OBVIOUS
  <1>4. /\ so_far[0] = << >> /\ so_far[n] = Only(t, Solid)
        /\ \A i \in Nat : i < n =>
            so_far[i + 1] = IF t[i + 1] \in Solid THEN Append(so_far[i], t[i + 1]) ELSE so_far[i]
    BY <1>2, Zenon DEF OnlySoFar
  <1> DEFINE Good(i) == Collected(read[i]) = so_far[i]
             S == {i \in Nat : i <= n => Good(i)}
  <1>5. Good(0)
    <2>1. none \in Seq(Seq(Symbols)) /\ Len(none) = 0 /\ none \o none = none /\ 1..Len(none) = {}
      OBVIOUS
    <2>2. NoWords.words = none /\ NoWords.word = none /\ none = << >>
      BY DEF NoWords
    <2> HIDE DEF none
    <2>3. FlattenSeq(none) = none
      BY <2>1, <2>2, FlattenNothing
    <2> QED
      BY <1>1, <1>4, <2>1, <2>2, <2>3 DEF Collected
  <1>6. ASSUME NEW i \in Nat, i < n, Good(i) PROVE Good(i + 1)
    <2>1. read[i + 1] = WordSymbol(read[i], t[i + 1]) /\ read[i] \in WordState
      BY <1>1, <1>3, <1>6
    <2>2. t[i + 1] \in Symbols
      BY <1>3, <1>6
    <2>3. so_far[i + 1] = IF t[i + 1] \in Solid THEN Append(so_far[i], t[i + 1]) ELSE so_far[i]
      BY <1>4, <1>6
    <2> DEFINE r == read[i]
               c == t[i + 1]
    <2>4. r \in WordState /\ c \in Symbols /\ read[i + 1] = WordSymbol(r, c)
      BY <2>1, <2>2
    <2>5. Collected(r) = so_far[i]
      BY <1>6
    <2> HIDE DEF r, c
    <2>6. Collected(WordSymbol(r, c)) =
            IF c \in Solid THEN Append(Collected(r), c) ELSE Collected(r)
      BY <2>4, CollectedStep
    <2> QED
      BY <2>3, <2>4, <2>5, <2>6, Zenon DEF c
  <1>7. n \in S
    <2>1. 0 \in S
      BY <1>5
    <2>2. \A i \in Nat : i < n /\ i \in S => i + 1 \in S
      BY <1>3, <1>6
    <2> HIDE DEF S
    <2> QED
      BY <1>3, <2>1, <2>2, Induction
  <1> DEFINE words == read[n].words
             word == read[n].word
  <1>8. words \in Seq(Seq(Symbols)) /\ word \in Seq(Symbols)
    BY <1>1, <1>3 DEF WordState
  <1>9. FlattenSeq(words) \o word = Only(t, Solid)
    <2>1. n <= n
      BY <1>3
    <2>2. Collected(read[n]) = so_far[n]
      BY <1>7, <2>1, Zenon
    <2> QED
      BY <1>4, <2>2, Zenon DEF Collected
  <1>10. Words(t) = IF word = none THEN words ELSE Append(words, word)
    BY <1>1
  <1> HIDE DEF words, word
  <1>11. FlattenSeq(words) \in Seq(Symbols)
    BY <1>8, FlattenType
  <1>12. CASE word = none
    <2>1. FlattenSeq(words) \o none = FlattenSeq(words)
      BY <1>11
    <2> QED
      BY <1>8, <1>9, <1>10, <1>12, <2>1
  <1>13. CASE word # none
    <2>1. Append(words, word) \in Seq(Seq(Symbols))
      BY <1>8
    <2>2. FlattenSeq(Append(words, word)) = FlattenSeq(words) \o word
      BY <1>8, FlattenAppend
    <2> QED
      BY <1>9, <1>10, <1>13, <2>1, <2>2
  <1> QED
    BY <1>12, <1>13

\* Three words, the first with or without its sign.
LEMMA ThreeWords ==
    ASSUME NEW words \in Seq(Seq(Symbols)), Len(words) = 3, NEW a, NEW b, NEW c,
           a \in Symbols \ {"hash"}, b \in Symbols, c \in Symbols,
           Unhashed(words[1]) = <<a>>, words[2] = <<b>>, words[3] = <<c>>
    PROVE  Unhashed(FlattenSeq(words)) = <<a, b, c>>
  <1> DEFINE first == words[1]
             all == FlattenSeq(words)
  <1>1. first \in Seq(Symbols) /\ words[2] \in Seq(Symbols) /\ words[3] \in Seq(Symbols)
    OBVIOUS
  <1>2. PICK f : Joins(f, words, 3, Symbols)
    BY JoinsExist
  <1>3. all = f[3] /\ f[0] = << >>
    BY <1>2, FlattenJoins, JoinsType
  <1>4. /\ f[0 + 1] = f[0] \o words[0 + 1] /\ f[1 + 1] = f[1] \o words[1 + 1]
        /\ f[2 + 1] = f[2] \o words[2 + 1]
    <2>1. 0 \in Nat /\ 0 < 3 /\ 1 \in Nat /\ 1 < 3 /\ 2 \in Nat /\ 2 < 3
      OBVIOUS
    <2> QED
      BY <1>2, <2>1, Zenon DEF Joins
  <1>11. f[1] = f[0] \o words[1] /\ f[2] = f[1] \o words[2] /\ f[3] = f[2] \o words[3]
    <2>1. 0 + 1 = 1 /\ 1 + 1 = 2 /\ 2 + 1 = 3
      OBVIOUS
    <2> QED
      BY <1>4, <2>1, Zenon
  <1>5. f[1] = f[0] \o first /\ f[2] = f[1] \o <<b>> /\ f[3] = f[2] \o <<c>>
    BY <1>11, Zenon
  <1> HIDE DEF first, all
  <1>6. f[1] = first
    BY <1>1, <1>3, <1>5
  <1>7. all = (first \o <<b>>) \o <<c>>
    BY <1>3, <1>5, <1>6
  <1>8. first = <<a>> \/ first = <<"hash", a>>
    <2>1. CASE first # << >> /\ first[1] = "hash"
      <3> DEFINE rest == Tail(first)
      <3>1. rest = <<a>>
        BY <2>1 DEF Unhashed, first
      <3>2. /\ rest \in Seq(Symbols) /\ Len(first) = Len(rest) + 1 /\ Len(rest) \in Nat
            /\ \A i \in 1..Len(rest) : rest[i] = first[i + 1]
        BY <1>1, <2>1
      <3> HIDE DEF rest
      <3>3. Len(rest) = 1 /\ rest[1] = a
        BY <3>1
      <3>4. Len(first) = 2 /\ first[2] = a
        BY <3>2, <3>3
      <3> QED
        BY <1>1, <2>1, <3>4
    <2>2. CASE ~ (first # << >> /\ first[1] = "hash")
      BY <2>2 DEF Unhashed, first
    <2> QED
      BY <2>1, <2>2
  <1>9. all = <<a, b, c>> \/ all = <<"hash", a, b, c>>
    <2> DEFINE two == Append(first, b)
    <2>1. first \o <<b>> = two /\ two \in Seq(Symbols)
      BY <1>1
    <2>2. two \o <<c>> = Append(two, c)
      <3> HIDE DEF two
      <3> QED
        BY <2>1
    <2>3. all = Append(Append(first, b), c)
      BY <1>7, <2>1, <2>2
    <2>6. /\ two \in Seq(Symbols) /\ Len(two) = Len(first) + 1 /\ two[Len(two)] = b
          /\ \A i \in 1..Len(first) : two[i] = first[i]
      BY <1>1
    <2> HIDE DEF two
    <2>7. /\ all \in Seq(Symbols) /\ Len(all) = Len(two) + 1 /\ all[Len(all)] = c
          /\ \A i \in 1..Len(two) : all[i] = two[i]
      BY <2>3, <2>6 DEF two
    <2>4. CASE first = <<a>>
      <3>1. Len(first) = 1 /\ first[1] = a
        BY <2>4
      <3>3. Len(two) = 2 /\ two[1] = a /\ two[2] = b
        <4>1. Len(two) = 2 /\ 1 \in 1..Len(first)
          BY <2>6, <3>1
        <4>2. two[1] = first[1] /\ two[2] = b
          BY <2>6, <4>1, Zenon
        <4> QED
          BY <3>1, <4>1, <4>2
      <3>4. 1 \in 1..Len(two) /\ 2 \in 1..Len(two) /\ Len(all) = 3
        BY <2>7, <3>3
      <3>5. all[1] = two[1] /\ all[2] = two[2] /\ all[3] = c
        BY <2>7, <3>4, Zenon
      <3>2. Len(all) = 3 /\ all[1] = a /\ all[2] = b /\ all[3] = c
        BY <3>3, <3>4, <3>5, Zenon
      <3>6. all \in Seq(Symbols)
        BY <2>7
      <3> QED
        BY <3>2, <3>6
    <2>5. CASE first = <<"hash", a>>
      <3>1. Len(first) = 2 /\ first[1] = "hash" /\ first[2] = a
        BY <2>5
      <3>3. Len(two) = 3 /\ two[1] = "hash" /\ two[2] = a /\ two[3] = b
        <4>1. Len(two) = 3 /\ 1 \in 1..Len(first) /\ 2 \in 1..Len(first)
          BY <2>6, <3>1
        <4>2. two[1] = first[1] /\ two[2] = first[2] /\ two[3] = b
          BY <2>6, <4>1, Zenon
        <4> QED
          BY <3>1, <4>1, <4>2
      <3>4. 1 \in 1..Len(two) /\ 2 \in 1..Len(two) /\ 3 \in 1..Len(two) /\ Len(all) = 4
        BY <2>7, <3>3
      <3>5. all[1] = two[1] /\ all[2] = two[2] /\ all[3] = two[3] /\ all[4] = c
        BY <2>7, <3>4, Zenon
      <3>2. Len(all) = 4 /\ all[1] = "hash" /\ all[2] = a /\ all[3] = b /\ all[4] = c
        BY <3>3, <3>4, <3>5, Zenon
      <3>6. all \in Seq(Symbols)
        BY <2>7
      <3> QED
        BY <3>2, <3>6
    <2> QED
      BY <1>8, <2>4, <2>5
  <1>10. Unhashed(<<a, b, c>>) = <<a, b, c>> /\ Unhashed(<<"hash", a, b, c>>) = <<a, b, c>>
    BY DEF Unhashed
  <1> QED
    BY <1>9, <1>10 DEF all

\* A SetGodMode is nothing but its three words.
LEMMA SetText ==
    ASSUME NEW t \in Seq(Symbols), GodModeParse(t).action = "set"
    PROVE  Unhashed(Only(t, Solid)) \in {<<"god", "true", "id">>, <<"god", "false", "id">>}
  <1> DEFINE words == Words(t)
             verb == IF words = << >> THEN << >> ELSE Unhashed(words[1])
  <1>1. words \in Seq(Seq(Symbols)) /\ FlattenSeq(words) = Only(t, Solid)
    BY WordsText
  <1>2. /\ \A i, v, a : Result("state", i, v, a).action # "set"
        /\ Invalid.action # "set" /\ Unparsed.action # "set"
    BY DEF Invalid, Unparsed, Result
  <1> DEFINE god == <<"god">>
             state == <<"state">>
             Set == Len(words) = 3 /\ words[2] \in {<<"true">>, <<"false">>} /\ words[3] = <<"id">>
             State == Len(words) = 2 /\ words[2] = <<"id">>
  <1>3. GodModeParse(t) =
            CASE verb = god -> IF Set THEN Result("set", words[3], << >>, <<words[2]>>) ELSE Invalid
              [] verb = state -> IF State THEN Result("state", words[2], << >>, << >>) ELSE Invalid
              [] OTHER -> Unparsed
    BY DEF GodModeParse
  <1>4. god # state
    OBVIOUS
  <1> HIDE DEF verb, Set, State, god, state
  <1>5. verb = god /\ Set
    BY <1>2, <1>3, <1>4
  <1>6. words # << >> /\ Unhashed(words[1]) = <<"god">> /\ Len(words) = 3
        /\ words[2] \in {<<"true">>, <<"false">>} /\ words[3] = <<"id">>
    BY <1>5 DEF verb, Set, god
  <1>7. /\ "god" \in Symbols \ {"hash"} /\ "true" \in Symbols /\ "false" \in Symbols
        /\ "id" \in Symbols
    BY DEF Symbols
  <1> HIDE DEF words
  <1>8. ASSUME NEW b \in {"true", "false"}, words[2] = <<b>>
        PROVE  Unhashed(FlattenSeq(words)) = <<"god", b, "id">>
    <2>1. b \in Symbols
      BY <1>7, <1>8
    <2> QED
      BY <1>1, <1>6, <1>7, <1>8, <2>1, ThreeWords
  <1>9. \E b \in {"true", "false"} : words[2] = <<b>>
    BY <1>6
  <1>10. \E b \in {"true", "false"} : Unhashed(Only(t, Solid)) = <<"god", b, "id">>
    BY <1>1, <1>8, <1>9
  <1> QED
    BY <1>10

\* A text is a SetGodMode to the one parser only, an !exec to the other.
LEMMA OneParser ==
    ASSUME NEW t
    PROVE  /\ ParseRequest(t).action = "exec" => ParseRequest(t) = DispatchParse(t)
           /\ ParseRequest(t).action = "set" => ParseRequest(t) = GodModeParse(t)
  <1>1. GodModeParse(t).action # "exec"
    <2>1. /\ \A i, v, a : Result("state", i, v, a).action # "exec"
          /\ \A i, v, a : Result("set", i, v, a).action # "exec"
          /\ Invalid.action # "exec" /\ Unparsed.action # "exec"
      BY DEF Invalid, Unparsed, Result
    <2> DEFINE words == Words(t)
               verb == IF words = << >> THEN << >> ELSE Unhashed(words[1])
               god == <<"god">>
               state == <<"state">>
               Set == Len(words) = 3 /\ words[2] \in {<<"true">>, <<"false">>} /\ words[3] = <<"id">>
               State == Len(words) = 2 /\ words[2] = <<"id">>
    <2>2. GodModeParse(t) =
            CASE verb = god -> IF Set THEN Result("set", words[3], << >>, <<words[2]>>) ELSE Invalid
              [] verb = state -> IF State THEN Result("state", words[2], << >>, << >>) ELSE Invalid
              [] OTHER -> Unparsed
      BY DEF GodModeParse
    <2>3. god # state
      OBVIOUS
    <2> HIDE DEF verb, Set, State, god, state
    <2> QED
      BY <2>1, <2>2, <2>3
  <1>2. DispatchParse(t).action # "set"
    <2>1. /\ \A query \in Queries : \A i, v, a : Result(query, i, v, a).action # "set"
          /\ \A i, v, a : Result("commands", i, v, a).action # "set"
          /\ \A i, v, a : Result("exec", i, v, a).action # "set"
          /\ \A i, v, a : Result("unknown", i, v, a).action # "set"
          /\ Invalid.action # "set"
      BY DEF Invalid, Result, Queries
    <2>2. ASSUME NEW tokens PROVE Classify(tokens).action # "set"
      <3> DEFINE verb == Unhashed(tokens[1])
                 queries == {<<query>> : query \in Queries}
                 commands == <<"commands">>
                 exec == <<"exec">>
                 Bad == \/ Len(tokens) < 3 \/ TooMany(tokens) \/ tokens[2] # <<"id">>
                        \/ Unhashed(tokens[3]) = << >>
                        \/ \E i \in DOMAIN Unhashed(tokens[3]) :
                             Unhashed(tokens[3])[i] \notin VerbSymbols
      <3>1. Classify(tokens) =
                CASE verb \in queries -> IF Len(tokens) = 1 THEN Result(verb[1], << >>, << >>, << >>) ELSE Invalid
                  [] verb = commands -> IF Len(tokens) > 2 THEN Invalid
                        ELSE Result("commands", << >>, << >>, Tail(tokens))
                  [] verb = exec -> IF Bad THEN Invalid
                        ELSE Result("exec", tokens[2], Unhashed(tokens[3]), SubSeq(tokens, 4, Len(tokens)))
                  [] OTHER -> Result("unknown", << >>, << >>, << >>)
        BY DEF Classify
      <3>2. commands # exec /\ exec \notin queries /\ commands \notin queries
        BY DEF Queries
      <3>3. verb \in queries => verb[1] \in Queries
        OBVIOUS
      <3> HIDE DEF verb, queries, commands, exec, Bad
      <3> QED
        BY <2>1, <3>1, <3>2, <3>3
    <2> QED
      BY <2>1, <2>2, Zenon DEF DispatchParse
  <1> QED
    BY <1>1, <1>2, Zenon DEF ParseRequest

\* An !exec has the letters of its text, in their order, and no controls.
LEMMA ExecText ==
    ASSUME NEW t \in Seq(Symbols), DispatchParse(t).action = "exec"
    PROVE  LET request == DispatchParse(t)
           IN  /\ \A i \in DOMAIN Trimmed(t) : Trimmed(t)[i] \notin Controls
               /\ Only(t, Letters) =
                    <<"exec">> \o Only(FlattenSeq(<<request.id, request.verb>> \o request.args), Letters)
  <1> DEFINE inside == Trimmed(t)
             scan == Scan(inside)
             tokens == Push(scan).tokens
  <1>1. Invalid.action # "exec"
    BY DEF Invalid, Result
  <1>2. /\ ~ scan.failed /\ tokens # << >>
        /\ DispatchParse(t) = Classify(tokens)
    BY <1>1, Zenon DEF DispatchParse
  <1>3. inside \in Seq(Symbols) /\ Only(inside, Letters) = Only(t, Letters)
    BY TrimmedLetters
  <1>4. /\ tokens \in Seq(Seq(Symbols))
        /\ \A i \in 1..Len(inside) : inside[i] \notin Controls
        /\ Only(FlattenSeq(tokens), Letters) = Only(inside, Letters)
    <2> HIDE DEF inside
    <2> QED
      BY <1>2, <1>3, ScanFaithful DEF scan, tokens
  <1>5. Classify(tokens).action = "exec"
    BY <1>2
  <1> HIDE DEF tokens, scan
  <1>6. LET request == Classify(tokens)
        IN  Only(FlattenSeq(tokens), Letters) =
              <<"exec">> \o Only(FlattenSeq(<<request.id, request.verb>> \o request.args), Letters)
    BY <1>2, <1>4, <1>5, ClassifyExec
  <1>7. DOMAIN inside = 1..Len(inside)
    BY <1>3
  <1> QED
    BY <1>2, <1>3, <1>4, <1>6, <1>7, Zenon DEF inside

-----------------------------------------------------------------------------
(* The parts of a line of the configuration *)

\* Without such a symbol all of a text stands before the first one.
LEMMA BeforeNone ==
    ASSUME NEW t \in Seq(FileSymbols), NEW marks, \A i \in 1..Len(t) : t[i] \notin marks
    PROVE  Before(t, marks) = t
  <1> DEFINE I == {i \in 1..Len(t) : t[i] \in marks}
             at == IF I # {} THEN Min(I) ELSE 0
  <1>1. Before(t, marks) = IF at = 0 THEN t ELSE SubSeq(t, 1, at - 1)
    BY DEF Before, SelectInSeq
  <1>2. I = {}
    OBVIOUS
  <1> QED
    BY <1>1, <1>2

\* What stands before the first of some symbols, which is here.
LEMMA BeforeFirst ==
    ASSUME NEW t \in Seq(FileSymbols), NEW marks, NEW k \in 1..Len(t), t[k] \in marks,
           \A i \in 1..(k - 1) : t[i] \notin marks
    PROVE  Before(t, marks) = SubSeq(t, 1, k - 1)
  <1> DEFINE I == {i \in 1..Len(t) : t[i] \in marks}
             at == IF I # {} THEN Min(I) ELSE 0
  <1>1. Before(t, marks) = IF at = 0 THEN t ELSE SubSeq(t, 1, at - 1)
    BY DEF Before, SelectInSeq
  <1>2. k \in I /\ I # {} /\ k # 0
    OBVIOUS
  <1>3. \A i \in I : i \in Int /\ k <= i
    OBVIOUS
  <1> HIDE DEF I
  <1>4. ASSUME NEW x \in I, \A y \in I : x <= y PROVE x = k
    BY <1>2, <1>3, <1>4
  <1>5. Min(I) = k
    BY <1>2, <1>3, <1>4, Zenon DEF Min
  <1> QED
    BY <1>1, <1>2, <1>5

\* There is a first one, or none.
LEMMA FirstMark ==
    ASSUME NEW t \in Seq(FileSymbols), NEW marks, \E i \in 1..Len(t) : t[i] \in marks
    PROVE  \E k \in 1..Len(t) : t[k] \in marks /\ \A i \in 1..(k - 1) : t[i] \notin marks
  <1> DEFINE n == Len(t)
             I == {i \in 1..n : t[i] \in marks}
  <1>1. n \in Nat /\ I # {} /\ \A i \in I : i \in Nat
    OBVIOUS
  <1>2. IsFiniteSet(1..n)
    BY <1>1, FS_Interval
  <1>3. IsFiniteSet(I)
    BY <1>2, FS_Subset
  <1>4. Min(I) \in I /\ \A i \in I : Min(I) <= i
    BY <1>1, <1>3, LeastAndGreatest
  <1> DEFINE k == Min(I)
  <1> HIDE DEF k
  <1>5. k \in 1..n /\ t[k] \in marks /\ \A i \in 1..n : t[i] \in marks => k <= i
    BY <1>4 DEF k
  <1>6. \A i \in 1..(k - 1) : i \in 1..n /\ ~ (k <= i)
    BY <1>1, <1>5
  <1> QED
    BY <1>5, <1>6

\* The part of a text between the blanks at its ends.
Inside(t, first, last) ==
    /\ first \in 1..Len(t) /\ last \in 1..Len(t) /\ first <= last
    /\ t[first] \notin Space /\ t[last] \notin Space
    /\ \A i \in 1..(first - 1) : t[i] \in Space
    /\ \A i \in (last + 1)..Len(t) : t[i] \in Space

\* It is what is left when the text is trimmed.
LEMMA TrimmedInside ==
    ASSUME NEW t \in Seq(FileSymbols), NEW first, NEW last, Inside(t, first, last)
    PROVE  Trimmed(t) = SubSeq(t, first, last)
  <1> DEFINE I == {i \in 1..Len(t) : t[i] \notin Space}
             from == IF I # {} THEN Min(I) ELSE 0
             to == IF I # {} THEN Max(I) ELSE 0
  <1>1. Trimmed(t) = IF from = 0 THEN << >> ELSE SubSeq(t, from, to)
    BY DEF Trimmed, SelectInSeq, SelectLastInSeq
  <1>2. first \in I /\ last \in I /\ first # 0 /\ I # {}
    BY DEF Inside
  <1>3. ASSUME NEW i \in I PROVE i \in Int /\ first <= i /\ i <= last
    <2>1. i \in 1..Len(t) /\ i \notin 1..(first - 1) /\ i \notin (last + 1)..Len(t)
      BY DEF Inside
    <2>2. first \in Int /\ last \in Int /\ Len(t) \in Int
      BY DEF Inside
    <2> QED
      BY <2>1, <2>2
  <1> HIDE DEF I
  <1>4. ASSUME NEW x \in I, \A y \in I : x <= y PROVE x = first
    BY <1>2, <1>3, <1>4
  <1>5. ASSUME NEW x \in I, \A y \in I : x >= y PROVE x = last
    BY <1>2, <1>3, <1>5
  <1>6. Min(I) = first
    BY <1>2, <1>3, <1>4, Zenon DEF Min
  <1>7. Max(I) = last
    <2>1. \A y \in I : last >= y
      BY <1>2, <1>3
    <2> QED
      BY <1>2, <1>5, <2>1, Zenon DEF Max
  <1> QED
    BY <1>1, <1>2, <1>6, <1>7

\* A text of blanks is trimmed to nothing.
LEMMA TrimmedBlank ==
    ASSUME NEW t \in Seq(FileSymbols), \A i \in 1..Len(t) : t[i] \in Space
    PROVE  Trimmed(t) = << >>
  <1> DEFINE I == {i \in 1..Len(t) : t[i] \notin Space}
             from == IF I # {} THEN Min(I) ELSE 0
             to == IF I # {} THEN Max(I) ELSE 0
  <1>1. Trimmed(t) = IF from = 0 THEN << >> ELSE SubSeq(t, from, to)
    BY DEF Trimmed, SelectInSeq, SelectLastInSeq
  <1>2. I = {}
    OBVIOUS
  <1> QED
    BY <1>1, <1>2

\* Every other text has such a part.
LEMMA InsideExists ==
    ASSUME NEW t \in Seq(FileSymbols), \E i \in 1..Len(t) : t[i] \notin Space
    PROVE  \E first, last : Inside(t, first, last)
  <1> DEFINE n == Len(t)
             I == {i \in 1..n : t[i] \notin Space}
             first == Min(I)
             last == Max(I)
  <1>1. n \in Nat /\ I # {} /\ \A i \in I : i \in Nat
    OBVIOUS
  <1>2. IsFiniteSet(1..n)
    BY <1>1, FS_Interval
  <1>3. IsFiniteSet(I)
    BY <1>2, FS_Subset
  <1>4. first \in I /\ last \in I /\ \A i \in I : first <= i /\ i <= last
    BY <1>1, <1>3, LeastAndGreatest
  <1> HIDE DEF first, last
  <1>5. /\ first \in 1..n /\ last \in 1..n /\ first <= last
        /\ t[first] \notin Space /\ t[last] \notin Space
        /\ \A i \in 1..n : t[i] \notin Space => first <= i /\ i <= last
    BY <1>1, <1>4
  <1>6. \A i \in 1..(first - 1) : i \in 1..n /\ ~ (first <= i)
    BY <1>1, <1>5
  <1>7. \A i \in (last + 1)..n : i \in 1..n /\ ~ (i <= last)
    BY <1>1, <1>5
  <1>8. Inside(t, first, last)
    BY <1>5, <1>6, <1>7 DEF Inside
  <1> QED
    BY <1>8

\* Two texts behind one another.
LEMMA BehindOneAnother ==
    ASSUME NEW a \in Seq(FileSymbols), NEW b \in Seq(FileSymbols)
    PROVE  /\ a \o b \in Seq(FileSymbols) /\ Len(a \o b) = Len(a) + Len(b) /\ Len(b) \in Nat
           /\ \A i \in 1..Len(a) : (a \o b)[i] = a[i]
           /\ \A i \in 1..Len(b) : (a \o b)[Len(a) + i] = b[i]
  OBVIOUS

\* Blanks behind a text are trimmed away,
LEMMA TrimmedBehind ==
    ASSUME NEW t \in Seq(FileSymbols), NEW blanks \in Seq(FileSymbols),
           \A i \in 1..Len(blanks) : blanks[i] \in Space
    PROVE  Trimmed(t \o blanks) = Trimmed(t)
  <1> DEFINE u == t \o blanks
             n == Len(t)
  <1>1. /\ u \in Seq(FileSymbols) /\ Len(u) = n + Len(blanks) /\ n \in Nat /\ Len(blanks) \in Nat
        /\ \A i \in 1..n : u[i] = t[i]
        /\ \A i \in 1..Len(blanks) : u[n + i] = blanks[i]
    OBVIOUS
  <1> HIDE DEF u
  <1>2. ASSUME NEW i \in (n + 1)..Len(u) PROVE u[i] \in Space
    <2>1. i - n \in 1..Len(blanks) /\ n + (i - n) = i
      BY <1>1
    <2> QED
      BY <1>1, <2>1
  <1>3. CASE \A i \in 1..n : t[i] \in Space
    <2>1. ASSUME NEW i \in 1..Len(u) PROVE u[i] \in Space
      <3>1. i \in 1..n \/ i \in (n + 1)..Len(u)
        BY <1>1
      <3> QED
        BY <1>1, <1>2, <1>3, <3>1
    <2>2. Trimmed(u) = << >>
      BY <1>1, <2>1, TrimmedBlank
    <2>3. Trimmed(t) = << >>
      BY <1>3, TrimmedBlank
    <2> QED
      BY <2>2, <2>3 DEF u
  <1>4. CASE \E i \in 1..n : t[i] \notin Space
    <2>1. PICK first, last : Inside(t, first, last)
      BY <1>4, InsideExists
    <2>2. /\ first \in 1..n /\ last \in 1..n /\ first <= last
          /\ t[first] \notin Space /\ t[last] \notin Space
          /\ \A i \in 1..(first - 1) : t[i] \in Space
          /\ \A i \in (last + 1)..n : t[i] \in Space
      BY <2>1 DEF Inside
    <2>3. first \in 1..Len(u) /\ last \in 1..Len(u) /\ u[first] = t[first] /\ u[last] = t[last]
      BY <1>1, <2>2
    <2>4. ASSUME NEW i \in 1..(first - 1) PROVE u[i] \in Space
      <3>1. i \in 1..n
        BY <2>2
      <3> QED
        BY <1>1, <2>2, <3>1
    <2>5. ASSUME NEW i \in (last + 1)..Len(u) PROVE u[i] \in Space
      <3>1. (i \in 1..n /\ i \in (last + 1)..n) \/ i \in (n + 1)..Len(u)
        BY <1>1, <2>2
      <3> QED
        BY <1>1, <1>2, <2>2, <3>1
    <2>6. Inside(u, first, last)
      BY <2>2, <2>3, <2>4, <2>5 DEF Inside
    <2>7. Trimmed(u) = SubSeq(u, first, last)
      BY <1>1, <2>6, TrimmedInside
    <2>8. Trimmed(t) = SubSeq(t, first, last)
      BY <2>1, TrimmedInside
    <2>9. SubSeq(u, first, last) = SubSeq(t, first, last)
      <3>1. \A i \in first..last : i \in 1..n
        BY <2>2
      <3>2. \A i \in first..last : u[i] = t[i]
        BY <1>1, <3>1
      <3> HIDE DEF n
      <3>3. SubSeq(u, first, last) = [i \in 1..((last - first) + 1) |-> u[(i + first) - 1]]
        BY <1>1, <2>2, <2>3
      <3>4. SubSeq(t, first, last) = [i \in 1..((last - first) + 1) |-> t[(i + first) - 1]]
        BY <1>1, <2>2 DEF n
      <3>5. \A i \in 1..((last - first) + 1) : (i + first) - 1 \in first..last
        BY <1>1, <2>2
      <3> QED
        BY <3>2, <3>3, <3>4, <3>5
    <2> QED
      BY <2>7, <2>8, <2>9 DEF u
  <1> QED
    BY <1>3, <1>4

\* and so is a blank in front of it.
LEMMA TrimmedAfter ==
    ASSUME NEW t \in Seq(FileSymbols)
    PROVE  Trimmed(<<"blank">> \o t) = Trimmed(t)
  <1> DEFINE one == <<"blank">>
             u == one \o t
             n == Len(t)
  <1>0. one \in Seq(FileSymbols) /\ Len(one) = 1 /\ one[1] = "blank"
    BY DEF FileSymbols
  <1> HIDE DEF one
  <1>1. /\ u \in Seq(FileSymbols) /\ Len(u) = n + 1 /\ n \in Nat
        /\ u[1] \in Space /\ \A i \in 1..n : u[i + 1] = t[i]
    <2>1. "blank" \in Space
      BY DEF Space
    <2>2. /\ u \in Seq(FileSymbols) /\ Len(u) = Len(one) + n /\ n \in Nat
          /\ \A i \in 1..Len(one) : u[i] = one[i]
          /\ \A i \in 1..n : u[Len(one) + i] = t[i]
      BY <1>0, BehindOneAnother
    <2> HIDE DEF u
    <2>3. u[1] = "blank"
      BY <1>0, <2>2
    <2>4. ASSUME NEW i \in 1..n PROVE u[i + 1] = t[i]
      <3>1. Len(one) + i = i + 1
        BY <1>0
      <3>2. u[Len(one) + i] = t[i]
        BY <2>2
      <3> QED
        BY <3>1, <3>2, Zenon
    <2>5. Len(u) = n + 1
      BY <1>0, <2>2
    <2> QED
      BY <2>1, <2>2, <2>3, <2>4, <2>5
  <1> HIDE DEF u
  <1>2. CASE \A i \in 1..n : t[i] \in Space
    <2>1. ASSUME NEW i \in 1..Len(u) PROVE u[i] \in Space
      <3>1. i = 1 \/ (i - 1 \in 1..n /\ (i - 1) + 1 = i)
        BY <1>1
      <3> QED
        BY <1>1, <1>2, <3>1
    <2>2. Trimmed(u) = << >>
      BY <1>1, <2>1, TrimmedBlank
    <2>3. Trimmed(t) = << >>
      BY <1>2, TrimmedBlank
    <2> QED
      BY <2>2, <2>3 DEF u, one
  <1>3. CASE \E i \in 1..n : t[i] \notin Space
    <2>1. PICK first, last : Inside(t, first, last)
      BY <1>3, InsideExists
    <2>2. /\ first \in 1..n /\ last \in 1..n /\ first <= last
          /\ t[first] \notin Space /\ t[last] \notin Space
          /\ \A i \in 1..(first - 1) : t[i] \in Space
          /\ \A i \in (last + 1)..n : t[i] \in Space
      BY <2>1 DEF Inside
    <2>3. /\ first + 1 \in 1..Len(u) /\ last + 1 \in 1..Len(u)
          /\ u[first + 1] = t[first] /\ u[last + 1] = t[last]
      BY <1>1, <2>2
    <2>4. ASSUME NEW i \in 1..((first + 1) - 1) PROVE u[i] \in Space
      <3>1. i = 1 \/ (i - 1 \in 1..n /\ i - 1 \in 1..(first - 1) /\ (i - 1) + 1 = i)
        BY <2>2
      <3> QED
        BY <1>1, <2>2, <3>1
    <2>5. ASSUME NEW i \in ((last + 1) + 1)..Len(u) PROVE u[i] \in Space
      <3>1. i - 1 \in 1..n /\ i - 1 \in (last + 1)..n /\ (i - 1) + 1 = i
        BY <1>1, <2>2
      <3> QED
        BY <1>1, <2>2, <3>1
    <2>6. Inside(u, first + 1, last + 1)
      BY <2>2, <2>3, <2>4, <2>5 DEF Inside
    <2>7. Trimmed(u) = SubSeq(u, first + 1, last + 1)
      BY <1>1, <2>6, TrimmedInside
    <2>8. Trimmed(t) = SubSeq(t, first, last)
      BY <2>1, TrimmedInside
    <2>9. SubSeq(u, first + 1, last + 1) = SubSeq(t, first, last)
      <3>1. \A i \in 1..((last - first) + 1) : (i + first) - 1 \in 1..n
        BY <2>2
      <3>2. \A i \in 1..((last - first) + 1) : u[((i + first) - 1) + 1] = t[(i + first) - 1]
        BY <1>1, <3>1
      <3> HIDE DEF n
      <3>3. SubSeq(u, first + 1, last + 1) = [i \in 1..((last - first) + 1) |-> u[((i + first) - 1) + 1]]
        BY <1>1, <2>2, <2>3
      <3>4. SubSeq(t, first, last) = [i \in 1..((last - first) + 1) |-> t[(i + first) - 1]]
        BY <1>1, <2>2 DEF n
      <3> QED
        BY <3>2, <3>3, <3>4
    <2> QED
      BY <2>7, <2>8, <2>9 DEF u, one
  <1> QED
    BY <1>2, <1>3

\* A text does not grow.
LEMMA TrimmedShorter ==
    ASSUME NEW t \in Seq(FileSymbols)
    PROVE  Trimmed(t) \in Seq(FileSymbols) /\ Len(Trimmed(t)) <= Len(t)
  <1>1. CASE \A i \in 1..Len(t) : t[i] \in Space
    <2> DEFINE none == << >>
    <2>1. none \in Seq(FileSymbols) /\ Len(none) = 0 /\ 0 <= Len(t)
      OBVIOUS
    <2> HIDE DEF none
    <2>2. Trimmed(t) = none
      BY <1>1, TrimmedBlank DEF none
    <2> QED
      BY <2>1, <2>2
  <1>2. CASE \E i \in 1..Len(t) : t[i] \notin Space
    <2>1. PICK first, last : Inside(t, first, last)
      BY <1>2, InsideExists
    <2>2. Trimmed(t) = SubSeq(t, first, last)
      BY <2>1, TrimmedInside
    <2>3. first \in 1..Len(t) /\ last \in 1..Len(t) /\ first <= last
      BY <2>1 DEF Inside
    <2> QED
      BY <2>2, <2>3
  <1> QED
    BY <1>1, <1>2

\* Texts with the same symbols at the same places are the same.
LEMMA SameText ==
    ASSUME NEW a \in Seq(FileSymbols), NEW b \in Seq(FileSymbols), Len(a) = Len(b),
           \A i \in 1..Len(a) : a[i] = b[i]
    PROVE  a = b
  OBVIOUS

\* The first symbol of a text.
LEMMA FirstOnly ==
    ASSUME NEW t \in Seq(FileSymbols), Len(t) >= 1
    PROVE  SubSeq(t, 1, 1) = <<t[1]>>
  <1> DEFINE a == SubSeq(t, 1, 1)
             b == <<t[1]>>
  <1>1. a \in Seq(FileSymbols) /\ Len(a) = 1 /\ a[1] = t[1]
    OBVIOUS
  <1>2. t[1] \in FileSymbols
    OBVIOUS
  <1>3. b \in Seq(FileSymbols) /\ Len(b) = 1 /\ b[1] = t[1]
    BY <1>2
  <1> HIDE DEF a, b
  <1>4. a = b
    BY <1>1, <1>3, SameText
  <1> QED
    BY <1>4 DEF a, b

\* The keys of the configuration.
Keys == {"bind_host", "port", "password"}

\* The keys are symbols of a file and no marks of its lines.
LEMMA KeysKnown ==
    /\ DOMAIN Defaults = Keys /\ Keys \subseteq FileSymbols
    /\ \A key \in Keys : key # "comment" /\ key # "equals" /\ key \notin Space
  BY DEF Defaults, Keys, FileSymbols, Space

\* A setting, symbol by symbol.
LEMMA LineParts ==
    ASSUME NEW key \in FileSymbols, NEW rest \in Seq(FileSymbols)
    PROVE  LET line == Line(key, rest)
           IN  /\ line \in Seq(FileSymbols) /\ Len(line) = 4 + Len(rest) /\ Len(rest) \in Nat
               /\ line[1] = key /\ line[2] = "blank" /\ line[3] = "equals" /\ line[4] = "blank"
               /\ \A i \in 1..Len(rest) : line[4 + i] = rest[i]
  <1> DEFINE head == <<key, "blank", "equals", "blank">>
             line == Line(key, rest)
  <1>1. /\ head \in Seq(FileSymbols) /\ Len(head) = 4
        /\ head[1] = key /\ head[2] = "blank" /\ head[3] = "equals" /\ head[4] = "blank"
    BY DEF FileSymbols
  <1>2. line = head \o rest
    BY DEF Line
  <1> HIDE DEF head, line
  <1>3. /\ line \in Seq(FileSymbols) /\ Len(line) = Len(head) + Len(rest) /\ Len(rest) \in Nat
        /\ \A i \in 1..Len(head) : line[i] = head[i]
        /\ \A i \in 1..Len(rest) : line[Len(head) + i] = rest[i]
    BY <1>1, <1>2, BehindOneAnother
  <1>4. 1 \in 1..Len(head) /\ 2 \in 1..Len(head) /\ 3 \in 1..Len(head) /\ 4 \in 1..Len(head)
    BY <1>1
  <1>5. line[1] = key /\ line[2] = "blank" /\ line[3] = "equals" /\ line[4] = "blank"
    BY <1>1, <1>3, <1>4, Zenon
  <1>6. \A i \in 1..Len(rest) : line[4 + i] = rest[i]
    BY <1>1, <1>3, Zenon
  <1>7. Len(line) = 4 + Len(rest)
    BY <1>1, <1>3, Zenon
  <1> QED
    BY <1>3, <1>5, <1>6, <1>7, Zenon DEF line

\* The comment of a setting is the one of its value.
LEMMA LineCut ==
    ASSUME NEW key \in Keys, NEW rest \in Seq(FileSymbols)
    PROVE  /\ Before(rest, {"comment"}) \in Seq(FileSymbols)
           /\ Before(Line(key, rest), {"comment"}) = Line(key, Before(rest, {"comment"}))
  <1> DEFINE line == Line(key, rest)
             n == Len(rest)
             marks == {"comment"}
  <1>1. key \in FileSymbols /\ key # "comment"
    BY KeysKnown
  <1>2. /\ line \in Seq(FileSymbols) /\ Len(line) = 4 + n /\ n \in Nat
        /\ line[1] = key /\ line[2] = "blank" /\ line[3] = "equals" /\ line[4] = "blank"
        /\ \A i \in 1..n : line[4 + i] = rest[i]
    BY <1>1, LineParts
  <1> HIDE DEF line
  <1>3. \A i \in 1..4 : line[i] \notin marks
    <2>1. line[1] \notin marks /\ line[2] \notin marks /\ line[3] \notin marks /\ line[4] \notin marks
      BY <1>1, <1>2
    <2>2. \A i \in 1..4 : i = 1 \/ i = 2 \/ i = 3 \/ i = 4
      OBVIOUS
    <2> QED
      BY <2>1, <2>2
  <1>4. ASSUME NEW i \in 5..Len(line) PROVE i - 4 \in 1..n /\ line[i] = rest[i - 4]
    <2>1. i - 4 \in 1..n /\ 4 + (i - 4) = i
      BY <1>2
    <2> QED
      BY <1>2, <2>1
  <1>5. CASE \A i \in 1..n : rest[i] \notin marks
    <2>1. ASSUME NEW i \in 1..Len(line) PROVE line[i] \notin marks
      <3>1. i \in 1..4 \/ i \in 5..Len(line)
        BY <1>2
      <3> QED
        BY <1>3, <1>4, <1>5, <3>1
    <2>2. Before(line, marks) = line
      BY <1>2, <2>1, BeforeNone
    <2>3. Before(rest, marks) = rest
      BY <1>5, BeforeNone
    <2> QED
      BY <2>2, <2>3 DEF line
  <1>6. CASE \E i \in 1..n : rest[i] \in marks
    <2>1. PICK k \in 1..n : rest[k] \in marks /\ \A i \in 1..(k - 1) : rest[i] \notin marks
      BY <1>6, FirstMark
    <2>2. Before(rest, marks) = SubSeq(rest, 1, k - 1)
      BY <2>1, BeforeFirst
    <2>3. 4 + k \in 1..Len(line) /\ line[4 + k] \in marks
      BY <1>2, <2>1
    <2>4. ASSUME NEW i \in 1..((4 + k) - 1) PROVE line[i] \notin marks
      <3>1. i \in 1..4 \/ (i \in 5..Len(line) /\ i - 4 \in 1..(k - 1))
        BY <1>2, <2>1
      <3> QED
        BY <1>3, <1>4, <2>1, <3>1
    <2>5. Before(line, marks) = SubSeq(line, 1, (4 + k) - 1)
      BY <1>2, <2>3, <2>4, BeforeFirst
    <2> DEFINE cut == SubSeq(rest, 1, k - 1)
               short == SubSeq(line, 1, (4 + k) - 1)
               whole == Line(key, cut)
    <2>6. cut \in Seq(FileSymbols) /\ Len(cut) = k - 1 /\ \A i \in 1..(k - 1) : cut[i] = rest[i]
      OBVIOUS
    <2>7. /\ short \in Seq(FileSymbols) /\ Len(short) = (4 + k) - 1
          /\ \A i \in 1..((4 + k) - 1) : short[i] = line[i]
      BY <1>2, <2>3
    <2> HIDE DEF cut, short
    <2>8. /\ whole \in Seq(FileSymbols) /\ Len(whole) = 4 + Len(cut)
          /\ whole[1] = key /\ whole[2] = "blank" /\ whole[3] = "equals" /\ whole[4] = "blank"
          /\ \A i \in 1..Len(cut) : whole[4 + i] = cut[i]
      <3>1. cut \in Seq(FileSymbols)
        BY <2>6
      <3> QED
        BY <1>1, <3>1, LineParts
    <2> HIDE DEF whole
    <2>9. Len(short) = Len(whole)
      BY <2>6, <2>7, <2>8
    <2>10. ASSUME NEW i \in 1..Len(short) PROVE short[i] = whole[i]
      <3>1. short[i] = line[i]
        BY <2>7
      <3>2. i = 1 \/ i = 2 \/ i = 3 \/ i = 4
            \/ (i \in 5..Len(line) /\ i - 4 \in 1..(k - 1) /\ 4 + (i - 4) = i /\ i - 4 \in 1..Len(cut))
        BY <1>2, <2>6, <2>7, <2>3
      <3>3. CASE i = 1 \/ i = 2 \/ i = 3 \/ i = 4
        BY <1>2, <2>8, <3>1, <3>3
      <3>4. CASE i \in 5..Len(line) /\ i - 4 \in 1..(k - 1) /\ 4 + (i - 4) = i /\ i - 4 \in 1..Len(cut)
        <4>1. line[i] = rest[i - 4]
          BY <1>4, <3>4
        <4>2. whole[4 + (i - 4)] = cut[i - 4] /\ cut[i - 4] = rest[i - 4]
          BY <2>6, <2>8, <3>4
        <4> QED
          BY <3>1, <3>4, <4>1, <4>2
      <3> QED
        BY <3>2, <3>3, <3>4
    <2>11. short = whole
      BY <2>7, <2>8, <2>9, <2>10, SameText
    <2> QED
      BY <2>2, <2>5, <2>6, <2>11 DEF line, cut, short, whole
  <1> QED
    BY <1>5, <1>6

\* A setting gives its key what stands behind the equals sign, without a comment
\* and without blanks around it.
LEMMA LineRead ==
    ASSUME NEW key \in Keys, NEW rest \in Seq(FileSymbols), NEW config
    PROVE  ReadLine(config, Line(key, rest))
             = Assign(config, <<key>>, Trimmed(Before(rest, {"comment"})))
  <1> DEFINE value == Before(rest, {"comment"})
             text == Before(Line(key, rest), {"comment"})
             marks == {"equals"}
  <1>1. value \in Seq(FileSymbols) /\ text = Line(key, value)
    BY LineCut
  <1>2. key \in FileSymbols /\ key # "equals" /\ key \notin Space
    BY KeysKnown
  <1>3. ReadLine(config, Line(key, rest)) =
            IF ~ Contains(text, "equals") THEN {config}
            ELSE Assign(config, Trimmed(Before(text, marks)), Trimmed(Behind(text, marks)))
    BY DEF ReadLine
  <1> HIDE DEF value, text
  <1>4. /\ text \in Seq(FileSymbols) /\ Len(text) = 4 + Len(value) /\ Len(value) \in Nat
        /\ text[1] = key /\ text[2] = "blank" /\ text[3] = "equals" /\ text[4] = "blank"
        /\ \A i \in 1..Len(value) : text[4 + i] = value[i]
    <2> DEFINE line == Line(key, value)
    <2>1. value \in Seq(FileSymbols)
      BY <1>1
    <2>2. /\ line \in Seq(FileSymbols) /\ Len(line) = 4 + Len(value) /\ Len(value) \in Nat
          /\ line[1] = key /\ line[2] = "blank" /\ line[3] = "equals" /\ line[4] = "blank"
          /\ \A i \in 1..Len(value) : line[4 + i] = value[i]
      BY <1>2, <2>1, LineParts
    <2> QED
      BY <1>1, <2>2, Zenon
  <1>5. Contains(text, "equals") /\ 3 \in 1..Len(text) /\ text[3] \in marks
    <2>1. 3 \in 1..Len(text)
      BY <1>4
    <2> QED
      BY <1>4, <2>1 DEF Contains
  <1> DEFINE front == SubSeq(text, 1, 2)
             back == SubSeq(text, 4, Len(text))
             one == <<"blank">>
  <1>6. Before(text, marks) = front
    <2>1. \A i \in 1..(3 - 1) : text[i] \notin marks
      <3>1. \A i \in 1..(3 - 1) : i = 1 \/ i = 2
        OBVIOUS
      <3> QED
        BY <1>2, <1>4, <3>1
    <2>2. Before(text, marks) = SubSeq(text, 1, 3 - 1)
      BY <1>4, <1>5, <2>1, BeforeFirst
    <2> QED
      BY <2>2
  <1>7. front \in Seq(FileSymbols) /\ Len(front) = 2 /\ front[1] = key /\ front[2] = "blank"
    BY <1>4
  <1>8. Behind(text, marks) = back
    <2>1. Behind(text, marks) = SubSeq(text, Len(front) + 2, Len(text))
      BY <1>6 DEF Behind
    <2> HIDE DEF front
    <2>2. Len(front) + 2 = 4
      BY <1>7
    <2> QED
      BY <2>1, <2>2
  <1>9. Trimmed(front) = <<key>>
    <2> HIDE DEF front
    <2>1. \A i \in (1 + 1)..Len(front) : i = 2
      BY <1>7
    <2>2. "blank" \in Space
      BY DEF Space
    <2>3. Inside(front, 1, 1)
      BY <1>2, <1>7, <2>1, <2>2 DEF Inside
    <2>4. Trimmed(front) = SubSeq(front, 1, 1)
      BY <1>7, <2>3, TrimmedInside
    <2>5. front \in Seq(FileSymbols) /\ Len(front) >= 1
      BY <1>7
    <2>6. SubSeq(front, 1, 1) = <<front[1]>>
      BY <2>5, FirstOnly
    <2> QED
      BY <1>7, <2>4, <2>6
  <1>10. back = one \o value
    <2>1. one \in Seq(FileSymbols) /\ Len(one) = 1 /\ one[1] = "blank"
      BY DEF FileSymbols
    <2>2. /\ back \in Seq(FileSymbols) /\ Len(back) = Len(text) - 3
          /\ \A i \in 1..(Len(text) - 3) : back[i] = text[3 + i]
      BY <1>4
    <2> DEFINE whole == one \o value
    <2> HIDE DEF one, back
    <2>3. /\ whole \in Seq(FileSymbols) /\ Len(whole) = Len(one) + Len(value)
          /\ \A i \in 1..Len(one) : whole[i] = one[i]
          /\ \A i \in 1..Len(value) : whole[Len(one) + i] = value[i]
      BY <1>1, <2>1, BehindOneAnother
    <2> HIDE DEF whole
    <2>4. Len(back) = Len(whole)
      BY <1>4, <2>1, <2>2, <2>3
    <2>5. ASSUME NEW i \in 1..Len(back) PROVE back[i] = whole[i]
      <3>1. back[i] = text[3 + i]
        BY <2>2
      <3>2. i = 1 \/ (i - 1 \in 1..Len(value) /\ 3 + i = 4 + (i - 1) /\ Len(one) + (i - 1) = i)
        BY <1>4, <2>1, <2>2
      <3>3. CASE i = 1
        <4>1. 1 \in 1..Len(one) /\ 3 + 1 = 4
          BY <2>1
        <4> QED
          BY <1>4, <2>1, <2>3, <3>1, <3>3, <4>1
      <3>4. CASE i - 1 \in 1..Len(value) /\ 3 + i = 4 + (i - 1) /\ Len(one) + (i - 1) = i
        <4>1. text[4 + (i - 1)] = value[i - 1] /\ whole[Len(one) + (i - 1)] = value[i - 1]
          BY <1>4, <2>3, <3>4
        <4> QED
          BY <3>1, <3>4, <4>1
      <3> QED
        BY <3>2, <3>3, <3>4
    <2> QED
      BY <2>2, <2>3, <2>4, <2>5, SameText DEF whole
  <1>11. Trimmed(back) = Trimmed(value)
    BY <1>1, <1>10, TrimmedAfter
  <1> QED
    BY <1>3, <1>5, <1>6, <1>8, <1>9, <1>11, Zenon DEF value

-----------------------------------------------------------------------------
(* The value of a setting *)

\* What may stand behind the settings of a file.
IsNote(note) ==
    /\ note \in Seq(FileSymbols)
    /\ note # << >> => \E k \in 1..Len(note) :
        note[k] = "comment" /\ \A i \in 1..(k - 1) : note[i] = "blank"

\* What is read of a value with such a note.
Read(value, note) == Trimmed(Before(value \o note, {"comment"}))

\* A value without a comment sign is only trimmed.
LEMMA ReadWhole ==
    ASSUME NEW value \in Seq(FileSymbols), NEW note, IsNote(note),
           \A i \in 1..Len(value) : value[i] # "comment"
    PROVE  Read(value, note) = Trimmed(value)
  <1> DEFINE all == value \o note
             n == Len(value)
             marks == {"comment"}
  <1>0. note \in Seq(FileSymbols)
    BY DEF IsNote
  <1>1. /\ all \in Seq(FileSymbols) /\ Len(all) = n + Len(note) /\ Len(note) \in Nat /\ n \in Nat
        /\ \A i \in 1..n : all[i] = value[i]
        /\ \A i \in 1..Len(note) : all[n + i] = note[i]
    BY <1>0, BehindOneAnother
  <1> HIDE DEF all
  <1>2. CASE note = << >>
    <2>1. Len(note) = 0
      BY <1>2
    <2>2. all = value
      BY <1>1, <2>1, SameText
    <2>3. Before(all, marks) = all
      BY <1>1, <2>2, BeforeNone
    <2> QED
      BY <2>2, <2>3 DEF Read, all
  <1>3. CASE note # << >>
    <2>1. PICK k \in 1..Len(note) :
            note[k] = "comment" /\ \A i \in 1..(k - 1) : note[i] = "blank"
      BY <1>3 DEF IsNote
    <2>2. n + k \in 1..Len(all) /\ all[n + k] \in marks
      BY <1>1, <2>1
    <2>3. ASSUME NEW i \in 1..((n + k) - 1) PROVE all[i] \notin marks
      <3>1. i \in 1..n \/ (i - n \in 1..(k - 1) /\ i - n \in 1..Len(note) /\ n + (i - n) = i)
        BY <1>1, <2>1
      <3>2. CASE i \in 1..n
        BY <1>1, <3>2
      <3>3. CASE i - n \in 1..(k - 1) /\ i - n \in 1..Len(note) /\ n + (i - n) = i
        <4>1. all[n + (i - n)] = note[i - n] /\ note[i - n] = "blank"
          BY <1>1, <2>1, <3>3
        <4> QED
          BY <3>3, <4>1
      <3> QED
        BY <3>1, <3>2, <3>3
    <2>4. Before(all, marks) = SubSeq(all, 1, (n + k) - 1)
      BY <1>1, <2>2, <2>3, BeforeFirst
    <2> DEFINE cut == SubSeq(all, 1, (n + k) - 1)
               blanks == SubSeq(note, 1, k - 1)
               whole == value \o blanks
    <2>5. /\ cut \in Seq(FileSymbols) /\ Len(cut) = (n + k) - 1
          /\ \A i \in 1..((n + k) - 1) : cut[i] = all[i]
      BY <1>1, <2>2
    <2>6. /\ blanks \in Seq(FileSymbols) /\ Len(blanks) = k - 1
          /\ \A i \in 1..(k - 1) : blanks[i] = note[i]
      BY <1>0, <2>1
    <2> HIDE DEF cut, blanks
    <2>7. /\ whole \in Seq(FileSymbols) /\ Len(whole) = n + Len(blanks)
          /\ \A i \in 1..n : whole[i] = value[i]
          /\ \A i \in 1..Len(blanks) : whole[n + i] = blanks[i]
      BY <2>6, BehindOneAnother
    <2> HIDE DEF whole
    <2>8. Len(cut) = Len(whole)
      BY <1>1, <2>5, <2>6, <2>7, <2>1
    <2>9. ASSUME NEW i \in 1..Len(cut) PROVE cut[i] = whole[i]
      <3>1. cut[i] = all[i]
        BY <2>5
      <3>2. i \in 1..n \/ (i - n \in 1..(k - 1) /\ i - n \in 1..Len(note) /\ i - n \in 1..Len(blanks)
                           /\ n + (i - n) = i)
        BY <1>1, <2>1, <2>5, <2>6
      <3>3. CASE i \in 1..n
        BY <1>1, <2>7, <3>1, <3>3
      <3>4. CASE i - n \in 1..(k - 1) /\ i - n \in 1..Len(note) /\ i - n \in 1..Len(blanks)
                 /\ n + (i - n) = i
        <4>1. all[n + (i - n)] = note[i - n] /\ whole[n + (i - n)] = blanks[i - n]
              /\ blanks[i - n] = note[i - n]
          BY <1>1, <2>6, <2>7, <3>4
        <4> QED
          BY <3>1, <3>4, <4>1
      <3> QED
        BY <3>2, <3>3, <3>4
    <2>10. cut = whole
      BY <2>5, <2>7, <2>8, <2>9, SameText
    <2>11. \A i \in 1..Len(blanks) : blanks[i] \in Space
      BY <2>1, <2>6 DEF Space
    <2>12. Trimmed(whole) = Trimmed(value)
      BY <2>6, <2>11, TrimmedBehind DEF whole
    <2> QED
      BY <2>4, <2>10, <2>12 DEF Read, cut, all
  <1> QED
    BY <1>2, <1>3

\* Of a value with a comment sign the part before it is left.
LEMMA ReadCut ==
    ASSUME NEW value \in Seq(FileSymbols), NEW note, IsNote(note),
           NEW k \in 1..Len(value), value[k] = "comment",
           \A i \in 1..(k - 1) : value[i] # "comment"
    PROVE  Read(value, note) = Trimmed(SubSeq(value, 1, k - 1))
  <1> DEFINE all == value \o note
             n == Len(value)
             marks == {"comment"}
  <1>0. note \in Seq(FileSymbols)
    BY DEF IsNote
  <1>1. /\ all \in Seq(FileSymbols) /\ Len(all) = n + Len(note) /\ Len(note) \in Nat /\ n \in Nat
        /\ \A i \in 1..n : all[i] = value[i]
    BY <1>0, BehindOneAnother
  <1> HIDE DEF all
  <1>2. k \in 1..Len(all) /\ all[k] \in marks
    BY <1>1
  <1>3. ASSUME NEW i \in 1..(k - 1) PROVE all[i] \notin marks
    <2>1. i \in 1..n /\ value[i] # "comment"
      OBVIOUS
    <2> QED
      BY <1>1, <2>1
  <1>4. Before(all, marks) = SubSeq(all, 1, k - 1)
    BY <1>1, <1>2, <1>3, BeforeFirst
  <1> DEFINE a == SubSeq(all, 1, k - 1)
             b == SubSeq(value, 1, k - 1)
  <1>5. a \in Seq(FileSymbols) /\ Len(a) = k - 1 /\ \A i \in 1..(k - 1) : a[i] = all[i]
    BY <1>1, <1>2
  <1>6. b \in Seq(FileSymbols) /\ Len(b) = k - 1 /\ \A i \in 1..(k - 1) : b[i] = value[i]
    OBVIOUS
  <1> HIDE DEF a, b
  <1>7. \A i \in 1..Len(a) : a[i] = b[i]
    BY <1>1, <1>5, <1>6
  <1>8. a = b
    BY <1>5, <1>6, <1>7, SameText
  <1> QED
    BY <1>4, <1>8 DEF Read, all, a, b

\* A value is read as it was written exactly if it has no comment sign and no
\* blanks at its ends.
LEMMA ReadPlain ==
    ASSUME NEW value \in Seq(FileSymbols), NEW note, IsNote(note)
    PROVE  Read(value, note) = value <=> Plain(value)
  <1>1. CASE \A i \in 1..Len(value) : value[i] # "comment"
    <2>1. Read(value, note) = Trimmed(value)
      BY <1>1, ReadWhole
    <2> QED
      BY <1>1, <2>1 DEF Plain, Contains
  <1>2. CASE \E i \in 1..Len(value) : value[i] \in {"comment"}
    <2>1. PICK k \in 1..Len(value) : value[k] \in {"comment"}
                                     /\ \A i \in 1..(k - 1) : value[i] \notin {"comment"}
      BY <1>2, FirstMark
    <2>2. Read(value, note) = Trimmed(SubSeq(value, 1, k - 1))
      BY <2>1, ReadCut
    <2> DEFINE cut == SubSeq(value, 1, k - 1)
    <2>3. cut \in Seq(FileSymbols) /\ Len(cut) = k - 1 /\ k - 1 < Len(value) /\ Len(value) \in Nat
      OBVIOUS
    <2> HIDE DEF cut
    <2>4. Trimmed(cut) \in Seq(FileSymbols) /\ Len(Trimmed(cut)) <= Len(cut)
      BY <2>3, TrimmedShorter
    <2> DEFINE left == Trimmed(cut)
    <2>5. left \in Seq(FileSymbols) /\ Len(left) \in Nat /\ Len(left) <= k - 1
      BY <2>3, <2>4
    <2> HIDE DEF left
    <2>6. left # value
      BY <2>3, <2>5
    <2>7. Read(value, note) # value
      BY <2>2, <2>6 DEF left, cut
    <2>8. ~ Plain(value)
      BY <1>2 DEF Plain, Contains
    <2> QED
      BY <2>7, <2>8
  <1> QED
    BY <1>1, <1>2

\* The number in front of a text is found in its first two symbols.
LEMMA StoiFirst ==
    ASSUME NEW v \in Seq(FileSymbols)
    PROVE  Stoi(v) =
             IF Len(v) >= 1 /\ v[1] = "minus"
             THEN IF Len(v) >= 2 /\ v[2] \in DOMAIN Number THEN {-Number[v[2]]} ELSE {}
             ELSE IF Len(v) >= 1 /\ v[1] \in DOMAIN Number THEN {Number[v[1]]} ELSE {}
  <1>1. v # << >> <=> Len(v) >= 1
    OBVIOUS
  <1>2. CASE Len(v) >= 1 /\ v[1] = "minus"
    <2> DEFINE digits == Tail(v)
    <2>1. /\ digits \in Seq(FileSymbols) /\ Len(digits) = Len(v) - 1
          /\ \A i \in 1..(Len(v) - 1) : digits[i] = v[i + 1]
      BY <1>2
    <2> HIDE DEF digits
    <2>2. Stoi(v) = IF digits = << >> \/ digits[1] \notin DOMAIN Number THEN {}
                    ELSE {-Number[digits[1]]}
      BY <1>1, <1>2 DEF Stoi, digits
    <2>3. digits # << >> <=> Len(v) >= 2
      BY <2>1
    <2>4. Len(v) >= 2 => digits[1] = v[2]
      <3>1. Len(v) >= 2 => 1 \in 1..(Len(v) - 1) /\ 1 + 1 = 2
        OBVIOUS
      <3> QED
        BY <2>1, <3>1
    <2> QED
      BY <1>2, <2>2, <2>3, <2>4
  <1>3. CASE ~ (Len(v) >= 1 /\ v[1] = "minus")
    <2>1. Stoi(v) = IF v = << >> \/ v[1] \notin DOMAIN Number THEN {} ELSE {Number[v[1]]}
      BY <1>1, <1>3 DEF Stoi
    <2> QED
      BY <1>1, <1>3, <2>1
  <1> QED
    BY <1>2, <1>3

\* It is at most one number, of an int.
LEMMA StoiNumber ==
    ASSUME NEW v \in Seq(FileSymbols)
    PROVE  Stoi(v) = {} \/ \E n \in Int : Stoi(v) = {n}
  <1>1. ASSUME NEW x \in DOMAIN Number PROVE Number[x] \in Int /\ -Number[x] \in Int
    <2>1. x = "low" \/ x = "high"
      BY DEF Number
    <2>2. Number["low"] = 28017 /\ Number["high"] = 70000
      BY DEF Number
    <2>3. Number[x] \in Int
      BY <2>1, <2>2
    <2> QED
      BY <2>3
  <1> QED
    BY <1>1, StoiFirst

\* Neither blanks around a value nor its comment change its number.
LEMMA ReadNumber ==
    ASSUME NEW value \in Seq(FileSymbols), NEW note, IsNote(note)
    PROVE  Read(value, note) \in Seq(FileSymbols) /\ Stoi(Read(value, note)) = Stoi(Trimmed(value))
  <1>0. Trimmed(value) \in Seq(FileSymbols)
    BY TrimmedShorter
  <1>1. CASE \A i \in 1..Len(value) : value[i] # "comment"
    BY <1>0, <1>1, ReadWhole
  <1>2. CASE \E i \in 1..Len(value) : value[i] \in {"comment"}
    <2>1. PICK k \in 1..Len(value) : value[k] \in {"comment"}
                                     /\ \A i \in 1..(k - 1) : value[i] \notin {"comment"}
      BY <1>2, FirstMark
    <2>2. Read(value, note) = Trimmed(SubSeq(value, 1, k - 1))
      BY <2>1, ReadCut
    <2> DEFINE cut == SubSeq(value, 1, k - 1)
               u == Trimmed(cut)
               v == Trimmed(value)
    <2>3. /\ cut \in Seq(FileSymbols) /\ Len(cut) = k - 1
          /\ \A i \in 1..(k - 1) : cut[i] = value[i]
      OBVIOUS
    <2> HIDE DEF cut
    <2>4. u \in Seq(FileSymbols)
      BY <2>3, TrimmedShorter
    <2>5. /\ "comment" \notin Space /\ "comment" \notin DOMAIN Number /\ "comment" # "minus"
          /\ \A c \in Space : c \notin DOMAIN Number /\ c # "minus"
      BY DEF Space, Number
    <2>6. value[k] = "comment" /\ value[k] \notin Space
      BY <2>1, <2>5
    <2>7. PICK first, last : Inside(value, first, last)
      BY <2>6, InsideExists
    <2>8. /\ first \in 1..Len(value) /\ last \in 1..Len(value) /\ first <= last
          /\ value[first] \notin Space
          /\ \A i \in 1..(first - 1) : value[i] \in Space
          /\ \A i \in (last + 1)..Len(value) : value[i] \in Space
      BY <2>7 DEF Inside
    <2>9. first <= k /\ k <= last
      <3>1. k \notin 1..(first - 1) /\ k \notin (last + 1)..Len(value)
        BY <2>6, <2>8
      <3> QED
        BY <2>8, <3>1
    <2>10. v = SubSeq(value, first, last)
      BY <2>7, TrimmedInside
    <2>11. /\ v \in Seq(FileSymbols) /\ Len(v) = (last - first) + 1
           /\ \A i \in 1..((last - first) + 1) : v[i] = value[(first + i) - 1]
      BY <2>8, <2>10
    <2> HIDE DEF v
    <2>12. v[1] = value[first] /\ Len(v) >= 1
      <3>1. 1 \in 1..((last - first) + 1) /\ (first + 1) - 1 = first
        BY <2>8
      <3> QED
        BY <2>8, <2>11, <3>1
    <2>13. Len(v) >= 2 => v[2] = value[first + 1] /\ first + 1 <= last
      <3>1. Len(v) >= 2 => 2 \in 1..((last - first) + 1) /\ (first + 2) - 1 = first + 1 /\ first + 1 <= last
        BY <2>8, <2>11
      <3> QED
        BY <2>11, <3>1
    <2>14. CASE first = k
      <3>1. \A i \in 1..Len(cut) : cut[i] \in Space
        BY <2>3, <2>8, <2>14
      <3>2. u = << >>
        BY <2>3, <3>1, TrimmedBlank
      <3>3. Stoi(u) = {}
        BY <3>2 DEF Stoi
      <3>4. Stoi(v) = {}
        BY <2>5, <2>6, <2>11, <2>12, <2>14, StoiFirst
      <3> QED
        BY <2>2, <2>4, <3>3, <3>4 DEF cut, v
    <2>15. CASE first < k
      <3>1. first \in 1..Len(cut) /\ cut[first] = value[first] /\ cut[first] \notin Space
        BY <2>3, <2>8, <2>15
      <3>2. PICK from, to : Inside(cut, from, to)
        BY <2>3, <3>1, InsideExists
      <3>3. /\ from \in 1..Len(cut) /\ to \in 1..Len(cut) /\ from <= to
            /\ cut[from] \notin Space
            /\ \A i \in 1..(from - 1) : cut[i] \in Space
            /\ \A i \in (to + 1)..Len(cut) : cut[i] \in Space
        BY <3>2 DEF Inside
      <3>4. from = first
        <4>1. ~ from < first
          <5>1. from < first => from \in 1..(first - 1) /\ cut[from] = value[from]
            BY <2>3, <2>8, <3>3
          <5> QED
            BY <2>8, <3>3, <5>1
        <4>2. ~ first < from
          <5>1. first < from => first \in 1..(from - 1)
            BY <2>8, <3>3
          <5> QED
            BY <3>1, <3>3, <5>1
        <4> QED
          BY <2>8, <3>3, <4>1, <4>2
      <3>5. u = SubSeq(cut, from, to)
        BY <2>3, <3>2, TrimmedInside
      <3>6. /\ Len(u) = (to - from) + 1
            /\ \A i \in 1..((to - from) + 1) : u[i] = cut[(from + i) - 1]
        BY <2>3, <3>3, <3>5
      <3> HIDE DEF u
      <3>7. u[1] = value[first] /\ Len(u) >= 1
        <4>1. 1 \in 1..((to - from) + 1) /\ (from + 1) - 1 = from
          BY <3>3
        <4> QED
          BY <3>1, <3>3, <3>4, <3>6, <4>1
      <3>8. Len(u) >= 2 => u[2] = value[first + 1] /\ Len(v) >= 2
        <4>1. Len(u) >= 2 => /\ 2 \in 1..((to - from) + 1) /\ (from + 2) - 1 = first + 1
                             /\ first + 1 \in 1..(k - 1) /\ Len(v) >= 2
          <5>1. SUFFICES ASSUME Len(u) >= 2
                PROVE  /\ 2 \in 1..((to - from) + 1) /\ (from + 2) - 1 = first + 1
                       /\ first + 1 \in 1..(k - 1) /\ Len(v) >= 2
            OBVIOUS
          <5>2. from \in Int /\ to \in Int /\ first \in Int /\ last \in Int /\ 1 <= first
            BY <2>8, <3>3
          <5>3. from = first /\ to <= k - 1 /\ k <= last
            BY <2>3, <2>9, <3>3, <3>4
          <5>4. (to - from) + 1 >= 2 /\ Len(v) = (last - first) + 1
            BY <2>11, <3>6, <5>1
          <5> QED
            BY <5>2, <5>3, <5>4
        <4> QED
          BY <2>3, <3>6, <4>1
      <3>9. Len(v) >= 2 /\ ~ Len(u) >= 2 => v[2] \notin DOMAIN Number
        <4>1. SUFFICES ASSUME Len(v) >= 2, ~ Len(u) >= 2 PROVE v[2] \notin DOMAIN Number
          OBVIOUS
        <4>2. to = first
          BY <3>3, <3>4, <3>6, <4>1
        <4>3. v[2] = value[first + 1] /\ first + 1 <= last
          BY <2>13, <4>1
        <4>4. CASE first + 1 = k
          BY <2>5, <2>6, <4>3, <4>4
        <4>5. CASE first + 1 # k
          <5>1. first + 1 \in (to + 1)..Len(cut) /\ first + 1 \in 1..(k - 1)
            BY <2>3, <2>8, <2>15, <4>2, <4>5
          <5>2. value[first + 1] \in Space
            BY <2>3, <3>3, <5>1
          <5> QED
            BY <2>5, <4>3, <5>2
        <4> QED
          BY <4>4, <4>5
      <3>10. Stoi(u) = Stoi(v)
        <4>1. /\ v[1] = u[1] /\ Len(v) >= 1 /\ Len(u) >= 1
              /\ Len(u) >= 2 => u[2] = v[2] /\ Len(v) >= 2
          BY <2>12, <2>13, <3>7, <3>8
        <4>2. Stoi(u) = IF u[1] = "minus"
                        THEN IF Len(u) >= 2 /\ u[2] \in DOMAIN Number THEN {-Number[u[2]]} ELSE {}
                        ELSE IF u[1] \in DOMAIN Number THEN {Number[u[1]]} ELSE {}
          BY <2>4, <4>1, StoiFirst
        <4>3. Stoi(v) = IF v[1] = "minus"
                        THEN IF Len(v) >= 2 /\ v[2] \in DOMAIN Number THEN {-Number[v[2]]} ELSE {}
                        ELSE IF v[1] \in DOMAIN Number THEN {Number[v[1]]} ELSE {}
          BY <2>11, <4>1, StoiFirst
        <4>4. CASE Len(u) >= 2
          BY <4>1, <4>2, <4>3, <4>4, Zenon
        <4>5. CASE ~ Len(u) >= 2
          BY <3>9, <4>1, <4>2, <4>3, <4>5, Zenon
        <4> QED
          BY <4>4, <4>5
      <3> QED
        BY <2>2, <2>4, <3>10 DEF cut, u, v
    <2> QED
      BY <2>8, <2>9, <2>14, <2>15
  <1> QED
    BY <1>1, <1>2

-----------------------------------------------------------------------------
(* Reading a file *)

\* What the configuration may be while it is read.
Setting == Seq(FileSymbols) \cup {<<"any">>, <<"changeme">>}
ConfigState == [bind_host : Setting, port : Int, password : Setting]

\* What a setting does to the configuration: its key gets the value or, of a
\* port, the number in its place cut to 16 bits; without a number there is no
\* configuration any more.
LEMMA SettingRead ==
    ASSUME NEW key \in Keys, NEW rest \in Seq(FileSymbols), NEW config \in ConfigState
    PROVE  LET value == Trimmed(Before(rest, {"comment"}))
               configs == ReadLine(config, Line(key, rest))
           IN  /\ configs \subseteq ConfigState
               /\ \A x \in configs, k \in Keys \ {key} : x[k] = config[k]
               /\ key # "port" => configs # {} /\ \A x \in configs : x[key] = value
               /\ key = "port" =>
                    /\ configs = {} <=> Stoi(value) = {}
                    /\ \A x \in configs : \E p \in Stoi(value) : x[key] = p % 65536
  <1> DEFINE value == Trimmed(Before(rest, {"comment"}))
             configs == ReadLine(config, Line(key, rest))
             name == <<key>>
  <1>1. value \in Seq(FileSymbols)
    BY LineCut, TrimmedShorter
  <1>2. configs = Assign(config, name, value)
    BY LineRead
  <1>3. value \in Setting
    BY <1>1 DEF Setting
  <1>4. Stoi(value) = {} \/ \E p \in Int : Stoi(value) = {p}
    BY <1>1, StoiNumber
  <1>5. key \in {"bind_host", "port", "password"} /\ Keys = {"bind_host", "port", "password"}
    BY DEF Keys
  <1> HIDE DEF value, configs
  <1>6. CASE key = "bind_host"
    <2>1. configs = {[config EXCEPT !.bind_host = value]}
      BY <1>2, <1>6 DEF Assign
    <2> DEFINE new == [config EXCEPT !.bind_host = value]
    <2>2. /\ new \in ConfigState /\ new["bind_host"] = value
          /\ new["port"] = config["port"] /\ new["password"] = config["password"]
      BY <1>3 DEF ConfigState
    <2> HIDE DEF new
    <2>3. \A k \in Keys \ {key} : new[k] = config[k]
      BY <1>5, <1>6, <2>2
    <2>4. new[key] = value /\ key # "port"
      BY <1>6, <2>2
    <2>5. configs = {new}
      BY <2>1 DEF new
    <2>6. configs \subseteq ConfigState
      BY <2>2, <2>5
    <2>7. \A x \in configs, k \in Keys \ {key} : x[k] = config[k]
      BY <2>3, <2>5
    <2>8. configs # {} /\ \A x \in configs : x[key] = value
      BY <2>4, <2>5
    <2>9. key # "port"
      BY <2>4
    <2> QED
      BY <2>6, <2>7, <2>8, <2>9 DEF value, configs
  <1>7. CASE key = "password"
    <2>1. configs = {[config EXCEPT !.password = value]}
      BY <1>2, <1>7 DEF Assign
    <2> DEFINE new == [config EXCEPT !.password = value]
    <2>2. /\ new \in ConfigState /\ new["password"] = value
          /\ new["port"] = config["port"] /\ new["bind_host"] = config["bind_host"]
      BY <1>3 DEF ConfigState
    <2> HIDE DEF new
    <2>3. \A k \in Keys \ {key} : new[k] = config[k]
      BY <1>5, <1>7, <2>2
    <2>4. new[key] = value /\ key # "port"
      BY <1>7, <2>2
    <2>5. configs = {new}
      BY <2>1 DEF new
    <2>6. configs \subseteq ConfigState
      BY <2>2, <2>5
    <2>7. \A x \in configs, k \in Keys \ {key} : x[k] = config[k]
      BY <2>3, <2>5
    <2>8. configs # {} /\ \A x \in configs : x[key] = value
      BY <2>4, <2>5
    <2>9. key # "port"
      BY <2>4
    <2> QED
      BY <2>6, <2>7, <2>8, <2>9 DEF value, configs
  <1>8. CASE key = "port"
    <2> DEFINE New(p) == [config EXCEPT !.port = p % 65536]
    <2>1. configs = {New(p) : p \in Stoi(value)}
      BY <1>2, <1>8 DEF Assign
    <2>2. \A p \in Int : /\ New(p) \in ConfigState /\ New(p)["port"] = p % 65536
                         /\ New(p)["password"] = config["password"]
                         /\ New(p)["bind_host"] = config["bind_host"]
      BY DEF ConfigState
    <2> HIDE DEF New
    <2>3. \A x \in configs : \E p \in Stoi(value) : p \in Int /\ x = New(p)
      BY <1>4, <2>1
    <2>4. configs = {} <=> Stoi(value) = {}
      BY <1>4, <2>1
    <2>5. configs \subseteq ConfigState
      BY <2>2, <2>3
    <2>6. \A x \in configs, k \in Keys \ {key} : x[k] = config[k]
      BY <1>5, <1>8, <2>2, <2>3
    <2>7. \A x \in configs : \E p \in Stoi(value) : x[key] = p % 65536
      BY <1>8, <2>2, <2>3
    <2> QED
      BY <1>8, <2>4, <2>5, <2>6, <2>7 DEF value, configs
  <1> QED
    BY <1>5, <1>6, <1>7, <1>8

\* A note behind a setting is a part of its value.
LEMMA LineNote ==
    ASSUME NEW key \in Keys, NEW value \in Seq(FileSymbols), NEW note \in Seq(FileSymbols)
    PROVE  Line(key, value) \o note = Line(key, value \o note)
  <1> DEFINE head == <<key, "blank", "equals", "blank">>
  <1>1. head \in Seq(FileSymbols)
    BY KeysKnown DEF FileSymbols
  <1>2. Line(key, value) = head \o value /\ Line(key, value \o note) = head \o (value \o note)
    BY DEF Line
  <1> HIDE DEF head
  <1>3. (head \o value) \o note = head \o (value \o note)
    BY <1>1
  <1> QED
    BY <1>2, <1>3

\* A finite set as a list has each of its elements, once.
LEMMA ListOfSet ==
    ASSUME NEW S, IsFiniteSet(S)
    PROVE  /\ SetToSeq(S) \in [1..Cardinality(S) -> S] /\ Cardinality(S) \in Nat
           /\ \A i, j \in 1..Cardinality(S) : SetToSeq(S)[i] = SetToSeq(S)[j] => i = j
           /\ \A x \in S : \E i \in 1..Cardinality(S) : SetToSeq(S)[i] = x
  <1> DEFINE n == Cardinality(S)
             all == 1..n
             f == SetToSeq(S)
  <1>1. n \in Nat /\ ExistsBijection(all, S)
    BY FS_CardinalityType
  <1>2. IsFiniteSet(all) /\ Cardinality(all) = n
    BY <1>1, FS_Interval
  <1> HIDE DEF all
  <1>3. PICK g : g \in Bijection(all, S)
    BY <1>1, Zenon DEF ExistsBijection
  <1>5. g \in [all -> S] /\ IsInjective(g)
    BY <1>3 DEF Bijection, Injection
  <1>6. f = CHOOSE h \in [all -> S] : IsInjective(h)
    BY DEF SetToSeq, all
  <1> HIDE DEF f, n
  <1>7. f \in [all -> S] /\ IsInjective(f)
    BY <1>5, <1>6, Zenon
  <1>8. \A a, b \in all : f[a] = f[b] => a = b
    BY <1>7 DEF IsInjective
  <1>9. f \in Injection(all, S)
    BY <1>7 DEF Injection
  <1>10. f \in Surjection(all, S)
    BY <1>2, <1>9, FS_Injection DEF n
  <1>11. \A x \in S : \E i \in all : f[i] = x
    BY <1>10 DEF Surjection
  <1> QED
    BY <1>1, <1>7, <1>8, <1>11 DEF f, n, all

\* Line by line the file is read into what it is read to at the end.
LEMMA LoadRun ==
    ASSUME NEW file, Len(file) \in Nat,
           \A i \in 1..Len(file), c \in ConfigState : ReadLine(c, file[i]) \subseteq ConfigState
    PROVE  \E read :
            /\ read[0] = {Defaults}
            /\ \A i \in Nat : i < Len(file) =>
                read[i + 1] = UNION {ReadLine(c, file[i + 1]) : c \in read[i]}
            /\ \A i \in 0..Len(file) : read[i] \subseteq ConfigState
            /\ LoadConfig(file) = read[Len(file)]
  <1> DEFINE n == Len(file)
             S == SUBSET ConfigState
             New(configs, i) == UNION {ReadLine(c, file[i]) : c \in configs}
             step == [x \in S \X (1..n) |-> New(x[1], x[2])]
             Recurs(f) == f = [i \in 0..n |-> IF i = 0 THEN {Defaults} ELSE New(f[i - 1], i)]
             read == CHOOSE f : Recurs(f)
  <1>1. n \in Nat /\ LoadConfig(file) = read[n]
    BY DEF LoadConfig
  <1>2. {Defaults} \in S
    <2>1. 28016 \in Int /\ <<"any">> \in Setting /\ <<"changeme">> \in Setting
      BY DEF Setting
    <2>2. Defaults \in ConfigState
      BY <2>1 DEF Defaults, ConfigState
    <2> QED
      BY <2>2
  <1>3. ASSUME NEW configs \in S, NEW i \in 1..n PROVE New(configs, i) \in S
    BY <1>3
  <1>4. step \in [S \X (1..n) -> S]
    <2> HIDE DEF New, S, n
    <2> QED
      BY <1>3
  <1>5. ASSUME NEW configs \in S, NEW i \in 1..n PROVE step[<<configs, i>>] = New(configs, i)
    <2> HIDE DEF New, S, n
    <2> QED
      OBVIOUS
  <1> HIDE DEF step, S, n, New
  <1>6. PICK run : Runs(run, {Defaults}, step, n, S)
    BY <1>1, <1>2, <1>4, RunExists
  <1>7. Recurs(run)
    <2>1. run \in [0..n -> S] /\ run[0] = {Defaults}
      BY <1>6, Zenon DEF Runs
    <2>2. ASSUME NEW i \in 0..n, i # 0 PROVE run[i] = New(run[i - 1], i)
      <3>1. i - 1 \in Nat /\ i - 1 < n /\ (i - 1) + 1 = i /\ i - 1 \in 0..n /\ i \in 1..n
        BY <1>1, <2>2
      <3>2. run[(i - 1) + 1] = step[<<run[i - 1], (i - 1) + 1>>]
        BY <1>6, <3>1, Zenon DEF Runs
      <3>3. run[i] = step[<<run[i - 1], i>>] /\ run[i - 1] \in S
        BY <2>1, <3>1, <3>2
      <3> QED
        BY <1>5, <3>1, <3>3
    <2>3. \A i \in 0..n : run[i] = IF i = 0 THEN {Defaults} ELSE New(run[i - 1], i)
      BY <2>1, <2>2
    <2> QED
      BY <2>1, <2>3
  <1>8. Recurs(read)
    <2> HIDE DEF Recurs
    <2> QED
      BY <1>7
  <1>9. \A i \in 0..n : read[i] = IF i = 0 THEN {Defaults} ELSE New(read[i - 1], i)
    BY <1>8
  <1> HIDE DEF read
  <1>10. read[0] = {Defaults}
    BY <1>1, <1>9
  <1>11. ASSUME NEW i \in Nat, i < n PROVE read[i + 1] = New(read[i], i + 1)
    <2>1. i + 1 \in 0..n /\ i + 1 # 0 /\ (i + 1) - 1 = i
      BY <1>1, <1>11
    <2>2. read[i + 1] = New(read[(i + 1) - 1], i + 1)
      BY <1>9, <2>1
    <2> QED
      BY <2>1, <2>2
  <1>12. ASSUME NEW i \in 0..n PROVE read[i] \in S
    <2> DEFINE P == {k \in Nat : k <= n => read[k] \in S}
    <2>1. 0 \in P
      BY <1>2, <1>10
    <2>2. ASSUME NEW k \in Nat, k < n, k \in P PROVE k + 1 \in P
      <3>1. read[k] \in S /\ k + 1 \in 1..n
        BY <1>1, <2>2
      <3>2. read[k + 1] \in S
        BY <1>3, <1>11, <2>2, <3>1
      <3> QED
        BY <3>2
    <2>3. i \in Nat /\ i <= n
      BY <1>1
    <2>4. \A k \in Nat : k < n /\ k \in P => k + 1 \in P
      BY <2>2
    <2>5. \A k \in Nat : k < i /\ k \in P => k + 1 \in P
      <3>1. \A k \in Nat : k < i => k < n
        BY <1>1, <2>3
      <3> QED
        BY <2>4, <3>1
    <2> HIDE DEF P
    <2>6. i \in P
      BY <2>1, <2>3, <2>5, Induction
    <2> QED
      BY <2>3, <2>6 DEF P
  <1>13. \A i \in 0..n : read[i] \subseteq ConfigState
    BY <1>12 DEF S
  <1>14. \A i \in Nat : i < n => read[i + 1] = UNION {ReadLine(c, file[i + 1]) : c \in read[i]}
    BY <1>11 DEF New
  <1> QED
    BY <1>1, <1>10, <1>13, <1>14 DEF n

\* Two lists behind one another.
LEMMA ListsBehind ==
    ASSUME NEW T, NEW a \in Seq(T), NEW b \in Seq(T)
    PROVE  /\ Len(a) \in Nat /\ Len(a \o b) = Len(a) + Len(b)
           /\ \A i \in 1..Len(a) : (a \o b)[i] = a[i]
           /\ \A i \in 1..Len(b) : (a \o b)[Len(a) + i] = b[i]
  OBVIOUS

\* Where the lines of a file stand: what comes before, then a line for each key.
LEMMA FileLines ==
    ASSUME NEW c, IsConfig(c)
    PROVE  LET file == Written(c.settings, c.before, c.note)
               n == Len(c.before)
               keys == DOMAIN c.settings
           IN  /\ n \in Nat /\ Len(file) \in Nat /\ n <= Len(file)
               /\ \A i \in 1..n : file[i] = c.before[i]
               /\ \A i \in (n + 1)..Len(file) : \E key \in keys :
                    file[i] = Line(key, c.settings[key] \o c.note)
               /\ \A key \in keys : \E i \in (n + 1)..Len(file) :
                    file[i] = Line(key, c.settings[key] \o c.note)
  <1> DEFINE file == Written(c.settings, c.before, c.note)
             n == Len(c.before)
             keys == DOMAIN c.settings
             T == Seq(FileSymbols)
             Of(key) == Line(key, c.settings[key] \o c.note)
             S == {Line(key, c.settings[key]) \o c.note : key \in keys}
             lines == SetToSeq(S)
             m == Cardinality(S)
  <1>1. /\ keys \subseteq Keys /\ c.note \in T /\ c.before \in Seq(T)
        /\ \A key \in keys : c.settings[key] \in T
    BY KeysKnown DEF IsConfig
  <1>2. \A key \in keys : Line(key, c.settings[key]) \o c.note = Of(key) /\ Of(key) \in T
    <2> TAKE key \in keys
    <2>1. key \in Keys /\ key \in FileSymbols /\ c.settings[key] \in T
      BY <1>1, KeysKnown
    <2>2. Line(key, c.settings[key]) \o c.note = Of(key)
      BY <1>1, <2>1, LineNote
    <2>3. c.settings[key] \o c.note \in T
      BY <1>1, <2>1, BehindOneAnother
    <2>4. Of(key) \in T
      BY <2>1, <2>3, LineParts
    <2> QED
      BY <2>2, <2>4
  <1>3. S = {Of(key) : key \in keys} /\ S \subseteq T
    <2> HIDE DEF Of
    <2> QED
      BY <1>2
  <1>4. IsFiniteSet(S)
    <2>1. S \subseteq {Of("bind_host")} \cup {Of("port")} \cup {Of("password")}
      <3> HIDE DEF Of
      <3> QED
        BY <1>1, <1>3 DEF Keys
    <2>2. /\ IsFiniteSet({Of("bind_host")}) /\ IsFiniteSet({Of("port")})
          /\ IsFiniteSet({Of("password")})
      BY FS_Singleton
    <2>3. IsFiniteSet({Of("bind_host")} \cup {Of("port")})
      BY <2>2, FS_Union
    <2>4. IsFiniteSet({Of("bind_host")} \cup {Of("port")} \cup {Of("password")})
      BY <2>2, <2>3, FS_Union
    <2> HIDE DEF Of, S
    <2> QED
      BY <2>1, <2>4, FS_Subset
  <1> HIDE DEF S, Of, T
  <1>5. /\ lines \in [1..m -> S] /\ m \in Nat
        /\ \A x \in S : \E i \in 1..m : lines[i] = x
    BY <1>4, ListOfSet
  <1>6. file = c.before \o lines
    BY DEF file, Written, lines, S
  <1> HIDE DEF lines, m, file
  <1>7. lines \in Seq(T) /\ Len(lines) = m
    BY <1>3, <1>5
  <1>8. /\ n \in Nat /\ Len(file) = n + m
        /\ \A i \in 1..n : file[i] = c.before[i]
        /\ \A i \in 1..m : file[n + i] = lines[i]
    <2>1. c.before \in Seq(T) /\ lines \in Seq(T)
      BY <1>1, <1>7
    <2> DEFINE whole == c.before \o lines
    <2>2. /\ n \in Nat /\ Len(whole) = n + Len(lines)
          /\ \A i \in 1..n : whole[i] = c.before[i]
          /\ \A i \in 1..Len(lines) : whole[n + i] = lines[i]
      BY <2>1, ListsBehind
    <2> QED
      BY <1>6, <1>7, <2>2, Zenon
  <1>9. ASSUME NEW i \in (n + 1)..Len(file) PROVE \E key \in keys : file[i] = Of(key)
    <2>1. i - n \in 1..m /\ n + (i - n) = i
      BY <1>5, <1>8
    <2>2. file[i] = lines[i - n] /\ lines[i - n] \in S
      BY <1>5, <1>8, <2>1
    <2> QED
      BY <1>3, <2>2
  <1>10. ASSUME NEW key \in keys PROVE \E i \in (n + 1)..Len(file) : file[i] = Of(key)
    <2>1. PICK j \in 1..m : lines[j] = Of(key)
      BY <1>3, <1>5
    <2>2. n + j \in (n + 1)..Len(file) /\ file[n + j] = Of(key)
      BY <1>5, <1>8, <2>1
    <2> QED
      BY <2>2
  <1>11. Len(file) \in Nat /\ n <= Len(file)
    BY <1>5, <1>8
  <1> QED
    BY <1>8, <1>9, <1>10, <1>11 DEF file, Of

\* Lines of different keys are different.
LEMMA LineKey ==
    ASSUME NEW a \in Keys, NEW b \in Keys, NEW x \in Seq(FileSymbols), NEW y \in Seq(FileSymbols),
           Line(a, x) = Line(b, y)
    PROVE  a = b
  <1>1. a \in FileSymbols /\ b \in FileSymbols
    BY KeysKnown
  <1>2. Line(a, x)[1] = a
    BY <1>1, LineParts
  <1>3. Line(b, y)[1] = b
    BY <1>1, LineParts
  <1> QED
    BY <1>2, <1>3

\* A key has what is read of its value.
HasValue(c, x, key) ==
    IF key = "port" THEN \E p \in Stoi(Read(c.settings[key], c.note)) : x[key] = p % 65536
    ELSE x[key] = Read(c.settings[key], c.note)

\* The line of a key is among the first i.
Found(c, file, i, key) ==
    \E j \in (Len(c.before) + 1)..i : file[j] = Line(key, c.settings[key] \o c.note)

\* After i lines the keys whose lines were found have their values, those that
\* have no line the defaults, and there is no configuration exactly if the line
\* of the port was found and has no number.
Loaded(configs, c, file, i) ==
    /\ configs \subseteq ConfigState
    /\ \A x \in configs, key \in Keys :
        IF key \notin DOMAIN c.settings THEN x[key] = Defaults[key]
        ELSE Found(c, file, i, key) => HasValue(c, x, key)
    /\ configs = {} <=> /\ "port" \in DOMAIN c.settings /\ Found(c, file, i, "port")
                        /\ Stoi(Read(c.settings["port"], c.note)) = {}

\* A line of a key keeps it so, from the line before.
LEMMA LoadedLine ==
    ASSUME NEW c, IsConfig(c), NEW file, NEW i \in Nat, Len(c.before) \in Nat, Len(c.before) <= i,
           NEW key \in DOMAIN c.settings, file[i + 1] = Line(key, c.settings[key] \o c.note),
           NEW configs, Loaded(configs, c, file, i)
    PROVE  Loaded(UNION {ReadLine(x, file[i + 1]) : x \in configs}, c, file, i + 1)
  <1> DEFINE keys == DOMAIN c.settings
             n == Len(c.before)
             rest == c.settings[key] \o c.note
             line == Line(key, rest)
             value == Read(c.settings[key], c.note)
             new == UNION {ReadLine(x, line) : x \in configs}
             Seen(k) == Found(c, file, i, k)
             Now(k) == Found(c, file, i + 1, k)
  <1>1. /\ keys \subseteq Keys /\ c.note \in Seq(FileSymbols) /\ key \in Keys
        /\ \A k \in keys : c.settings[k] \in Seq(FileSymbols)
    BY KeysKnown DEF IsConfig
  <1>2. \A k \in keys : c.settings[k] \o c.note \in Seq(FileSymbols)
    BY <1>1, BehindOneAnother
  <1>3. value = Trimmed(Before(rest, {"comment"}))
    BY DEF Read
  <1>4. ASSUME NEW x \in ConfigState
        PROVE  /\ ReadLine(x, line) \subseteq ConfigState
               /\ \A y \in ReadLine(x, line), k \in Keys \ {key} : y[k] = x[k]
               /\ key # "port" => ReadLine(x, line) # {} /\ \A y \in ReadLine(x, line) : y[key] = value
               /\ key = "port" =>
                    /\ ReadLine(x, line) = {} <=> Stoi(value) = {}
                    /\ \A y \in ReadLine(x, line) : \E p \in Stoi(value) : y[key] = p % 65536
    <2>1. rest \in Seq(FileSymbols)
      BY <1>2
    <2> HIDE DEF rest
    <2> QED
      BY <1>1, <1>3, <2>1, SettingRead
  <1>5. Now(key)
    <2>1. i + 1 \in (n + 1)..(i + 1)
      OBVIOUS
    <2> QED
      BY <2>1 DEF Found
  <1>6. ASSUME NEW k \in keys, k # key PROVE Now(k) <=> Seen(k)
    <2>1. file[i + 1] # Line(k, c.settings[k] \o c.note)
      <3>1. k \in Keys /\ rest \in Seq(FileSymbols) /\ c.settings[k] \o c.note \in Seq(FileSymbols)
        BY <1>1, <1>2
      <3> QED
        BY <1>1, <1>6, <3>1, LineKey
    <2>2. (n + 1)..(i + 1) = ((n + 1)..i) \cup {i + 1}
      OBVIOUS
    <2> QED
      BY <2>1, <2>2 DEF Found
  <1>7. /\ configs \subseteq ConfigState
        /\ \A x \in configs, k \in Keys :
            IF k \notin keys THEN x[k] = Defaults[k] ELSE Seen(k) => HasValue(c, x, k)
        /\ configs = {} <=> "port" \in keys /\ Seen("port") /\ Stoi(Read(c.settings["port"], c.note)) = {}
    BY DEF Loaded
  <1> HIDE DEF Seen, Now, rest, line, value, n, keys
  <1>8. new \subseteq ConfigState
    BY <1>4, <1>7
  <1>9. ASSUME NEW y \in new, NEW k \in Keys
        PROVE  IF k \notin keys THEN y[k] = Defaults[k] ELSE Now(k) => HasValue(c, y, k)
    <2>1. PICK x \in configs : y \in ReadLine(x, line)
      BY <1>9
    <2>2. x \in ConfigState
      BY <1>7
    <2>3. CASE k = key
      <3>1. k \in keys
        BY <2>3 DEF keys
      <3>2. HasValue(c, y, k)
        BY <1>4, <2>1, <2>2, <2>3 DEF HasValue, value
      <3> QED
        BY <3>1, <3>2
    <2>4. CASE k # key
      <3>1. y[k] = x[k]
        BY <1>4, <2>1, <2>2, <2>4
      <3>2. HasValue(c, x, k) => HasValue(c, y, k)
        BY <3>1 DEF HasValue
      <3> QED
        BY <1>6, <1>7, <2>1, <2>4, <3>1, <3>2
    <2> QED
      BY <2>3, <2>4
  <1>10. new = {} <=> "port" \in keys /\ Now("port") /\ Stoi(Read(c.settings["port"], c.note)) = {}
    <2>1. CASE configs = {}
      <3>1. new = {}
        BY <2>1
      <3>2. "port" \in keys /\ Seen("port") /\ Stoi(Read(c.settings["port"], c.note)) = {}
        BY <1>7, <2>1
      <3>3. Now("port")
        BY <1>5, <1>6, <3>2
      <3> QED
        BY <3>1, <3>2, <3>3
    <2>2. CASE configs # {}
      <3>1. PICK x \in configs : TRUE
        BY <2>2
      <3>2. \A z \in configs : z \in ConfigState
        BY <1>7
      <3>3. CASE key = "port"
        <4>1. \A z \in configs : ReadLine(z, line) = {} <=> Stoi(value) = {}
          BY <1>4, <3>2, <3>3
        <4>2. new = {} <=> Stoi(value) = {}
          BY <3>1, <4>1
        <4> QED
          BY <1>5, <3>3, <4>2 DEF value, keys
      <3>4. CASE key # "port"
        <4>1. ReadLine(x, line) # {}
          BY <1>4, <3>1, <3>2, <3>4
        <4>2. new # {}
          BY <3>1, <4>1
        <4>3. ~ ("port" \in keys /\ Now("port") /\ Stoi(Read(c.settings["port"], c.note)) = {})
          BY <1>6, <1>7, <2>2, <3>4
        <4> QED
          BY <4>2, <4>3
      <3> QED
        BY <3>3, <3>4
    <2> QED
      BY <2>1, <2>2
  <1> QED
    BY <1>8, <1>9, <1>10, Zenon DEF Loaded, Now, line, rest, keys

\* A line before those of the keys keeps it so.
LEMMA LoadedBefore ==
    ASSUME NEW c, IsConfig(c), NEW file, NEW i \in Nat, Len(c.before) \in Nat,
           i + 1 <= Len(c.before), file[i + 1] = c.before[i + 1],
           NEW configs, Loaded(configs, c, file, i)
    PROVE  Loaded(UNION {ReadLine(x, file[i + 1]) : x \in configs}, c, file, i + 1)
  <1> DEFINE n == Len(c.before)
             keys == DOMAIN c.settings
             line == c.before[i + 1]
             new == UNION {ReadLine(x, line) : x \in configs}
  <1>1. keys \subseteq Keys /\ line \in Seq(FileSymbols) /\ i + 1 \in 1..n
    <2>1. c.before \in Seq(Seq(FileSymbols)) /\ keys \subseteq Keys
      BY KeysKnown DEF IsConfig
    <2>2. i + 1 \in 1..n
      OBVIOUS
    <2> QED
      BY <2>1, <2>2
  <1>2. \A key : ~ Found(c, file, i, key) /\ ~ Found(c, file, i + 1, key)
    <2>1. (n + 1)..i = {} /\ (n + 1)..(i + 1) = {}
      OBVIOUS
    <2> QED
      BY <2>1 DEF Found
  <1>3. /\ configs \subseteq ConfigState /\ configs # {}
        /\ \A x \in configs, key \in Keys : key \notin keys => x[key] = Defaults[key]
    BY <1>2 DEF Loaded
  <1>4. \/ ~ Contains(Before(line, {"comment"}), "equals")
        \/ \E key \in keys :
            LET value == SubSeq(line, 5, Len(line))
            IN  /\ line = Line(key, value)
                /\ key = "port" => value # << >> /\ value[1] \in DOMAIN Number
    BY <1>1 DEF IsConfig
  <1> HIDE DEF line
  <1>5. CASE ~ Contains(Before(line, {"comment"}), "equals")
    <2>1. \A x : ReadLine(x, line) = {x}
      BY <1>5 DEF ReadLine
    <2>2. new = configs
      BY <2>1
    <2> QED
      BY <1>2, <1>3, <2>2 DEF Loaded, line
  <1>6. CASE \E key \in keys :
                LET value == SubSeq(line, 5, Len(line))
                IN  /\ line = Line(key, value)
                    /\ key = "port" => value # << >> /\ value[1] \in DOMAIN Number
    <2> DEFINE value == SubSeq(line, 5, Len(line))
               read == Trimmed(Before(value, {"comment"}))
    <2>1. PICK key \in keys : /\ line = Line(key, value)
                              /\ key = "port" => value # << >> /\ value[1] \in DOMAIN Number
      BY <1>6
    <2>2. value \in Seq(FileSymbols) /\ key \in Keys
      <3>1. Len(line) \in Nat
        BY <1>1
      <3> QED
        BY <1>1, <3>1
    <2> HIDE DEF value
    <2>3. ASSUME NEW x \in ConfigState
          PROVE  /\ ReadLine(x, line) \subseteq ConfigState
                 /\ \A y \in ReadLine(x, line), k \in Keys \ {key} : y[k] = x[k]
                 /\ key # "port" => ReadLine(x, line) # {}
                 /\ key = "port" => (ReadLine(x, line) = {} <=> Stoi(read) = {})
      BY <2>1, <2>2, SettingRead
    <2>4. key = "port" => Stoi(read) # {}
      <3>1. SUFFICES ASSUME key = "port" PROVE Stoi(read) # {}
        OBVIOUS
      <3> DEFINE none == << >>
      <3>2. value # none /\ Len(value) >= 1 /\ value[1] \in DOMAIN Number
        BY <2>1, <2>2, <3>1
      <3>3. IsNote(none)
        BY DEF IsNote
      <3>4. value \o none = value
        BY <2>2
      <3>5. read = Read(value, none)
        BY <3>4 DEF Read
      <3> HIDE DEF none
      <3>6. Stoi(read) = Stoi(Trimmed(value))
        BY <2>2, <3>3, <3>5, ReadNumber
      <3>7. value[1] \notin Space /\ value[1] # "minus"
        BY <3>2 DEF Space, Number
      <3>8. PICK first, last : Inside(value, first, last)
        BY <2>2, <3>2, <3>7, InsideExists
      <3>9. /\ first \in 1..Len(value) /\ last \in 1..Len(value) /\ first <= last
            /\ \A j \in 1..(first - 1) : value[j] \in Space
        BY <3>8 DEF Inside
      <3>10. first = 1
        <4>1. 1 \notin 1..(first - 1)
          BY <3>7, <3>9
        <4> QED
          BY <3>9, <4>1
      <3> DEFINE v == Trimmed(value)
      <3>11. v = SubSeq(value, 1, last)
        BY <2>2, <3>8, <3>10, TrimmedInside
      <3>12. v \in Seq(FileSymbols) /\ Len(v) >= 1 /\ v[1] = value[1]
        BY <2>2, <3>9, <3>10, <3>11
      <3> HIDE DEF v
      <3>13. Stoi(v) = {Number[v[1]]}
        BY <3>2, <3>7, <3>12, StoiFirst
      <3> QED
        BY <3>6, <3>13 DEF v
    <2>5. new \subseteq ConfigState
      BY <1>3, <2>3
    <2>6. new # {}
      <3>1. PICK x \in configs : x \in ConfigState
        BY <1>3
      <3>2. ReadLine(x, line) # {}
        BY <2>3, <2>4, <3>1
      <3> QED
        BY <3>1, <3>2
    <2>7. ASSUME NEW y \in new, NEW k \in Keys, k \notin keys PROVE y[k] = Defaults[k]
      <3>1. PICK x \in configs : y \in ReadLine(x, line)
        BY <2>7
      <3>2. x \in ConfigState /\ k \in Keys \ {key}
        BY <1>3, <2>1, <2>7
      <3>3. y[k] = x[k]
        BY <2>3, <3>1, <3>2
      <3> QED
        BY <1>3, <2>7, <3>1, <3>3
    <2> HIDE DEF new
    <2>8. Loaded(new, c, file, i + 1)
      BY <1>2, <2>5, <2>6, <2>7 DEF Loaded
    <2> QED
      BY <2>8 DEF new, line
  <1> QED
    BY <1>4, <1>5, <1>6

\* At the end each key that is written has its value, the others their defaults,
\* and there is no configuration exactly if the port is written without a number.
LEMMA LoadWritten ==
    ASSUME NEW c, IsConfig(c)
    PROVE  LET configs == LoadConfig(Written(c.settings, c.before, c.note))
           IN  /\ \A x \in configs, key \in Keys :
                    IF key \notin DOMAIN c.settings THEN x[key] = Defaults[key] ELSE HasValue(c, x, key)
               /\ configs = {} <=> /\ "port" \in DOMAIN c.settings
                                   /\ Stoi(Read(c.settings["port"], c.note)) = {}
  <1> DEFINE file == Written(c.settings, c.before, c.note)
             n == Len(c.before)
             keys == DOMAIN c.settings
             New(configs, i) == UNION {ReadLine(x, file[i]) : x \in configs}
  <1>1. /\ n \in Nat /\ Len(file) \in Nat /\ n <= Len(file)
        /\ \A i \in 1..n : file[i] = c.before[i]
        /\ \A i \in (n + 1)..Len(file) : \E key \in keys :
             file[i] = Line(key, c.settings[key] \o c.note)
        /\ \A key \in keys : \E i \in (n + 1)..Len(file) :
             file[i] = Line(key, c.settings[key] \o c.note)
    BY FileLines
  <1> HIDE DEF file
  <1>2. ASSUME NEW i \in 1..Len(file), NEW x \in ConfigState PROVE ReadLine(x, file[i]) \subseteq ConfigState
    <2>1. CASE i \in 1..n
      <3>1. file[i] = c.before[i]
        BY <1>1, <2>1
      <3> DEFINE line == c.before[i]
      <3>2. line \in Seq(FileSymbols)
        BY <2>1 DEF IsConfig
      <3>3. \/ ~ Contains(Before(line, {"comment"}), "equals")
            \/ \E key \in keys :
                LET value == SubSeq(line, 5, Len(line))
                IN  /\ line = Line(key, value)
                    /\ key = "port" => value # << >> /\ value[1] \in DOMAIN Number
        BY <2>1 DEF IsConfig
      <3> HIDE DEF line
      <3>4. CASE ~ Contains(Before(line, {"comment"}), "equals")
        <4>1. ReadLine(x, line) = {x}
          BY <3>4 DEF ReadLine
        <4> QED
          BY <3>1, <4>1 DEF line
      <3>5. CASE \E key \in keys : line = Line(key, SubSeq(line, 5, Len(line)))
        <4> DEFINE value == SubSeq(line, 5, Len(line))
        <4>1. PICK key \in keys : line = Line(key, value)
          BY <3>5
        <4>2. value \in Seq(FileSymbols) /\ key \in Keys
          <5>1. Len(line) \in Nat
            BY <3>2
          <5>2. key \in Keys
            BY KeysKnown DEF IsConfig
          <5> QED
            BY <3>2, <5>1, <5>2
        <4> HIDE DEF value
        <4>3. ReadLine(x, line) \subseteq ConfigState
          BY <4>1, <4>2, SettingRead
        <4> QED
          BY <3>1, <4>3 DEF line
      <3> QED
        BY <3>3, <3>4, <3>5
    <2>2. CASE i \in (n + 1)..Len(file)
      <3>1. PICK key \in keys : file[i] = Line(key, c.settings[key] \o c.note)
        BY <1>1, <2>2
      <3> DEFINE rest == c.settings[key] \o c.note
      <3>2. key \in Keys /\ rest \in Seq(FileSymbols)
        <4>1. key \in Keys /\ c.settings[key] \in Seq(FileSymbols) /\ c.note \in Seq(FileSymbols)
          BY KeysKnown DEF IsConfig
        <4> QED
          BY <4>1, BehindOneAnother
      <3> HIDE DEF rest
      <3>3. ReadLine(x, Line(key, rest)) \subseteq ConfigState
        BY <3>2, SettingRead
      <3> QED
        BY <3>1, <3>3 DEF rest
    <2> QED
      BY <1>1, <2>1, <2>2
  <1>3. PICK read :
            /\ read[0] = {Defaults}
            /\ \A i \in Nat : i < Len(file) => read[i + 1] = New(read[i], i + 1)
            /\ \A i \in 0..Len(file) : read[i] \subseteq ConfigState
            /\ LoadConfig(file) = read[Len(file)]
    BY <1>1, <1>2, LoadRun
  <1> DEFINE P == {i \in Nat : i <= Len(file) => Loaded(read[i], c, file, i)}
  <1>4. 0 \in P
    <2>1. (n + 1)..0 = {}
      BY <1>1
    <2>2. \A key : ~ Found(c, file, 0, key)
      BY <2>1 DEF Found
    <2>3. read[0] \subseteq ConfigState
      BY <1>1, <1>3
    <2>4. \A x \in read[0] : x = Defaults
      BY <1>3
    <2>5. read[0] # {}
      BY <1>3
    <2>6. Loaded(read[0], c, file, 0)
      BY <2>2, <2>3, <2>4, <2>5 DEF Loaded
    <2> QED
      BY <2>6
  <1>5. ASSUME NEW i \in Nat, i < Len(file), i \in P PROVE i + 1 \in P
    <2>1. Loaded(read[i], c, file, i) /\ read[i + 1] = New(read[i], i + 1)
      BY <1>1, <1>3, <1>5
    <2>2. Loaded(read[i + 1], c, file, i + 1)
      <3>1. CASE i + 1 <= n
        <4>1. file[i + 1] = c.before[i + 1]
          BY <1>1, <3>1
        <4> QED
          BY <1>1, <2>1, <3>1, <4>1, LoadedBefore
      <3>2. CASE n <= i
        <4>1. i + 1 \in (n + 1)..Len(file)
          BY <1>1, <1>5, <3>2
        <4>2. PICK key \in keys : file[i + 1] = Line(key, c.settings[key] \o c.note)
          BY <1>1, <4>1
        <4>3. i \in Nat /\ Len(c.before) \in Nat /\ Len(c.before) <= i
          BY <1>1, <3>2
        <4> DEFINE now == read[i]
        <4>4. Loaded(now, c, file, i)
          BY <2>1
        <4> HIDE DEF now
        <4>5. Loaded(UNION {ReadLine(x, file[i + 1]) : x \in now}, c, file, i + 1)
          BY <4>2, <4>3, <4>4, LoadedLine
        <4> QED
          BY <2>1, <4>5 DEF now
      <3> QED
        BY <1>1, <3>1, <3>2
    <2> QED
      BY <2>2
  <1>6. Len(file) \in P
    <2> HIDE DEF P
    <2> QED
      BY <1>1, <1>4, <1>5, Induction
  <1> DEFINE configs == LoadConfig(file)
  <1>7. Loaded(configs, c, file, Len(file))
    BY <1>1, <1>3, <1>6
  <1>8. \A key \in keys : Found(c, file, Len(file), key)
    BY <1>1 DEF Found
  <1> HIDE DEF configs
  <1>9. /\ \A x \in configs, key \in Keys :
            IF key \notin keys THEN x[key] = Defaults[key] ELSE HasValue(c, x, key)
        /\ configs = {} <=> "port" \in keys /\ Stoi(Read(c.settings["port"], c.note)) = {}
    BY <1>7, <1>8 DEF Loaded
  <1> QED
    BY <1>9 DEF configs, file

\* A number of 16 bits is itself.
LEMMA Sixteen ==
    ASSUME NEW n \in Int
    PROVE  n % 65536 = n <=> 0 <= n /\ n <= 65535
  OBVIOUS

-----------------------------------------------------------------------------
(* The clock and the weather *)

\* A minute of the day is the minutes of its hours and those of its hour.
LEMMA Minutes ==
    ASSUME NEW m \in 0..1439
    PROVE  /\ m \div 60 \in 0..23 /\ m % 60 \in 0..59
           /\ (m \div 60) * 60 + (m % 60) = m
  <1>1. m \div 60 \in 0..23
    OBVIOUS
  <1>2. m % 60 \in 0..59
    OBVIOUS
  <1>3. (m \div 60) * 60 + (m % 60) = m
    OBVIOUS
  <1> QED
    BY <1>1, <1>2, <1>3

\* The clock shows the minute of the day that a time is in, the last as the first.
LEMMA ClockShows ==
    ASSUME NEW time \in 0..Day
    PROVE  LET minute == (time \div PartsOfMinute) % 1440
           IN  /\ minute \in 0..1439
               /\ time % Day \in (minute * PartsOfMinute)..(minute * PartsOfMinute + PartsOfMinute - 1)
  <1> DEFINE p == PartsOfMinute
             q == time \div p
             r == time % p
             minute == q % 1440
  <1>1. p \in Nat /\ p > 0 /\ Day = 1440 * p
    BY FormatsAssumption DEF Day
  <1>2. time \in Nat /\ time <= 1440 * p
    BY <1>1
  <1> HIDE DEF p
  <1>3. q \in Nat /\ r \in Nat /\ r <= p - 1
    BY <1>1, <1>2
  <1>4. time = p * q + r
    BY <1>1, <1>2
  <1> HIDE DEF q, r
  <1>5. CASE time < 1440 * p
    <2>1. q < 1440
      <3>1. SUFFICES ASSUME q >= 1440 PROVE FALSE
        BY <1>3
      <3>2. PICK d \in Nat : q = 1440 + d
        <4>1. q - 1440 \in Nat /\ q = 1440 + (q - 1440)
          BY <1>3, <3>1
        <4> QED
          BY <4>1
      <3> DEFINE product == p * d
                 whole == p * q
      <3>3. whole = 1440 * p + product
        BY <1>1, <3>2
      <3>4. product \in Nat /\ whole \in Nat
        BY <1>1, <1>3
      <3>5. time = whole + r
        BY <1>4
      <3> HIDE DEF product, whole
      <3> QED
        BY <1>1, <1>2, <1>3, <1>5, <3>3, <3>4, <3>5
    <2>2. minute = q /\ minute \in 0..1439
      BY <1>3, <2>1
    <2>3. time % Day = time
      <3>1. Day \in Nat \ {0} /\ time < Day
        BY <1>1, <1>5
      <3> HIDE DEF Day
      <3> QED
        BY <1>2, <3>1
    <2>4. time \in (q * p)..(q * p + p - 1)
      <3> DEFINE whole == p * q
      <3>1. whole \in Nat /\ whole = q * p /\ time = whole + r
        BY <1>1, <1>3, <1>4
      <3> HIDE DEF whole
      <3>2. time \in whole..(whole + p - 1)
        BY <1>1, <1>2, <1>3, <3>1
      <3> QED
        BY <3>1, <3>2
    <2> QED
      BY <2>2, <2>3, <2>4 DEF p, q
  <1>6. CASE time = 1440 * p
    <2>1. q = 1440
      BY <1>1, <1>6 DEF q
    <2>2. minute = 0
      BY <2>1
    <2>3. time % Day = 0
      BY <1>1, <1>6
    <2> HIDE DEF minute
    <2>4. 0 \in (0 * p)..(0 * p + p - 1)
      BY <1>1
    <2> QED
      BY <2>2, <2>3, <2>4 DEF p, q, minute
  <1>7. time < 1440 * p \/ time = 1440 * p
    BY <1>1, <1>2
  <1> QED
    BY <1>5, <1>6, <1>7

-----------------------------------------------------------------------------
(* The weather *)

\* A time is shown by one clock if it is one of the day, and by none otherwise.
LEMMA OneClock ==
    ASSUME NEW time
    PROVE  /\ time \in 0..Day => InGameClock(time) =
                {<<((time \div PartsOfMinute) % 1440) \div 60, ((time \div PartsOfMinute) % 1440) % 60>>}
           /\ time \notin 0..Day => InGameClock(time) = {}
  BY DEF InGameClock

\* What is printed of a controller that the query can read.
LEMMA JsonShape ==
    ASSUME NEW c, NEW time_only, NEW answer \in WeatherJson(c, time_only)
    PROVE  /\ answer.text \in InGameClock(c.time)
           /\ \A name \in DOMAIN answer.fields :
                answer.fields[name] =
                    IF name # "windSpeedKph" /\ LiveFloat(c, name) THEN c.fields[name] ELSE "null"
           /\ time_only => DOMAIN answer.fields \cap RequiredWeather = {}
  <1> DEFINE printed == {"timeOfDay", "timeOfDaySpeed"}
                        \cup (IF time_only THEN {} ELSE RequiredWeather \cup OptionalWeather)
             unknown == IF time_only THEN {} ELSE {"windSpeedKph"}
             fields == [name \in printed \cup unknown |->
                IF name \in printed /\ LiveFloat(c, name) THEN c.fields[name] ELSE "null"]
  <1>1. PICK clock \in InGameClock(c.time) : answer = [text |-> clock, fields |-> fields]
    BY Zenon DEF WeatherJson
  <1>2. answer.text = clock /\ answer.fields = fields
    <2> HIDE DEF fields
    <2> QED
      BY <1>1
  <1>3. \A name \in printed \cup unknown : name \in printed <=> name # "windSpeedKph"
    BY DEF RequiredWeather, OptionalWeather
  <1>4. time_only => (printed \cup unknown) \cap RequiredWeather = {}
    BY DEF RequiredWeather
  <1> DEFINE names == printed \cup unknown
  <1>5. DOMAIN fields = names /\ \A name \in names :
            fields[name] = IF name \in printed /\ LiveFloat(c, name) THEN c.fields[name] ELSE "null"
    <2> HIDE DEF printed, unknown
    <2> QED
      OBVIOUS
  <1> HIDE DEF fields, printed, unknown
  <1>6. answer.text \in InGameClock(c.time)
    BY <1>1, <1>2
  <1>7. \A name \in DOMAIN answer.fields :
            answer.fields[name] =
                IF name # "windSpeedKph" /\ LiveFloat(c, name) THEN c.fields[name] ELSE "null"
    BY <1>2, <1>3, <1>5, Zenon
  <1>8. time_only => DOMAIN answer.fields \cap RequiredWeather = {}
    BY <1>2, <1>4, <1>5, Zenon
  <1> QED
    BY <1>6, <1>7, <1>8, Zenon

\* There is an answer of a controller exactly if its time is one of the day.
LEMMA JsonExists ==
    ASSUME NEW c, NEW time_only
    PROVE  WeatherJson(c, time_only) # {} <=> c.time \in 0..Day
  <1>1. WeatherJson(c, time_only) # {} <=> InGameClock(c.time) # {}
    BY Zenon DEF WeatherJson
  <1>2. InGameClock(c.time) # {} <=> c.time \in 0..Day
    <2> DEFINE time == c.time
    <2> HIDE DEF time
    <2>1. InGameClock(time) # {} <=> time \in 0..Day
      <3> DEFINE minute == (time \div PartsOfMinute) % 1440
                 clock == <<minute \div 60, minute % 60>>
      <3>1. /\ time \in 0..Day => InGameClock(time) = {clock}
            /\ time \notin 0..Day => InGameClock(time) = {}
        BY OneClock
      <3> HIDE DEF clock
      <3>2. {clock} # {}
        OBVIOUS
      <3> QED
        BY <3>1, <3>2, Zenon
    <2> QED
      BY <2>1, Zenon DEF time
  <1> QED
    BY <1>1, <1>2

\* The answer is that of the one controller of the supported build.
LEMMA WeatherOfOne ==
    ASSUME NEW supported, NEW C, NEW time_only
    PROVE  /\ \A answer \in Weather(supported, C, time_only), c \in C :
                answer \in WeatherJson(c, time_only)
           /\ Weather(supported, C, time_only) # {} <=>
                /\ supported
                /\ \E c : C = {c} /\ Readable(c, time_only) /\ c.time \in 0..Day
  <1>1. ASSUME NEW answer \in Weather(supported, C, time_only), NEW c \in C
        PROVE  answer \in WeatherJson(c, time_only)
    <2>1. PICK x \in C : C = {x} /\ answer \in WeatherJson(x, time_only)
      BY <1>1, Zenon DEF Weather
    <2>2. c = x
      BY <2>1
    <2> QED
      BY <2>1, <2>2
  <1>2. ASSUME Weather(supported, C, time_only) # {}
        PROVE  supported /\ \E c : C = {c} /\ Readable(c, time_only) /\ c.time \in 0..Day
    <2>1. PICK x \in C : supported /\ C = {x} /\ Readable(x, time_only) /\ WeatherJson(x, time_only) # {}
      BY <1>2, Zenon DEF Weather
    <2> QED
      BY <2>1, JsonExists, Zenon
  <1>3. ASSUME supported, NEW c, C = {c}, Readable(c, time_only), c.time \in 0..Day
        PROVE  Weather(supported, C, time_only) # {}
    <2>1. PICK answer : answer \in WeatherJson(c, time_only)
      BY <1>3, JsonExists, Zenon
    <2>2. answer \in Weather(supported, C, time_only)
      BY <1>3, <2>1, Zenon DEF Weather
    <2> QED
      BY <2>2
  <1> QED
    BY <1>1, <1>2, <1>3, Zenon

\* The required fields of a query, as the property names them.
LEMMA ReadableFields ==
    ASSUME NEW c, NEW time_only
    PROVE  Readable(c, time_only) <=>
                /\ LiveFloat(c, "timeOfDay")
                /\ time_only \/ \A name \in RequiredWeather : LiveFloat(c, name)
  <1>1. CASE time_only
    BY <1>1, Zenon DEF Readable
  <1>2. CASE ~ time_only
    BY <1>2, Zenon DEF Readable
  <1> QED
    BY <1>1, <1>2

\* There is an answer on the supported build, of one controller, at a time of the day,
\* when the required fields of the query can be read.
LEMMA WeatherExists ==
    ASSUME NEW supported, NEW C, NEW time_only, IsFiniteSet(C)
    PROVE  Weather(supported, C, time_only) # {} <=>
            /\ supported /\ Cardinality(C) = 1
            /\ \A c \in C :
                /\ c.time \in 0..Day
                /\ LiveFloat(c, "timeOfDay")
                /\ time_only \/ \A name \in RequiredWeather : LiveFloat(c, name)
  <1>1. Cardinality(C) = 1 <=> \E c : C = {c}
    BY FS_Singleton
  <1>2. \A c : Readable(c, time_only) <=>
                /\ LiveFloat(c, "timeOfDay")
                /\ time_only \/ \A name \in RequiredWeather : LiveFloat(c, name)
    BY ReadableFields
  <1>3. Weather(supported, C, time_only) # {} <=>
            /\ supported
            /\ \E c : C = {c} /\ Readable(c, time_only) /\ c.time \in 0..Day
    BY WeatherOfOne
  <1> QED
    BY <1>1, <1>2, <1>3, Zenon

\* The clock of an answer shows the minute of the day that the time is in.
LEMMA TimeShown ==
    ASSUME NEW time, NEW text \in InGameClock(time)
    PROVE  /\ text[1] \in 0..23 /\ text[2] \in 0..59
           /\ LET shown == (text[1] * 60 + text[2]) * PartsOfMinute
              IN  time % Day \in shown..(shown + PartsOfMinute - 1)
  <1> DEFINE minute == (time \div PartsOfMinute) % 1440
  <1>1. time \in 0..Day
    BY OneClock
  <1>2. text = <<minute \div 60, minute % 60>>
    BY <1>1, OneClock
  <1>3. minute \in 0..1439
        /\ time % Day \in (minute * PartsOfMinute)..(minute * PartsOfMinute + PartsOfMinute - 1)
    BY <1>1, ClockShows
  <1> HIDE DEF minute
  <1>4. /\ minute \div 60 \in 0..23 /\ minute % 60 \in 0..59
        /\ (minute \div 60) * 60 + (minute % 60) = minute
    BY <1>3, Minutes
  <1>5. text[1] = minute \div 60 /\ text[2] = minute % 60
    BY <1>2
  <1>6. text[1] * 60 + text[2] = minute
    BY <1>4, <1>5
  <1> QED
    BY <1>3, <1>4, <1>5, <1>6

-----------------------------------------------------------------------------
(* A text taken apart at a mark *)

\* Some parts, of which there is one at least.
SomeParts(T) == {parts \in Seq(Seq(T)) : parts # << >>}

\* A symbol more makes the last part longer or begins another.
LEMMA LongerIs ==
    ASSUME NEW T, NEW done \in Seq(Seq(T)), NEW part \in Seq(T), NEW c \in T, NEW mark
    PROVE  Longer(Append(done, part), c, mark)
           = IF c = mark THEN Append(Append(done, part), << >>) ELSE Append(done, Append(part, c))
  <1> DEFINE U == Seq(T)
             parts == Append(done, part)
  <1>1. done \in Seq(U) /\ part \in U
    OBVIOUS
  <1> HIDE DEF U
  <1>2. Front(parts) = done
    BY <1>1 DEF Front
  <1>3. Last(parts) = part
    BY <1>1 DEF Last
  <1> HIDE DEF parts
  <1>4. Longer(parts, c, mark)
        = IF c = mark THEN Append(parts, << >>) ELSE Append(done, Append(part, c))
    BY <1>2, <1>3 DEF Longer
  <1> QED
    BY <1>4 DEF parts

\* Some parts are a last one and those before it.
LEMMA SomePartsAre ==
    ASSUME NEW T, NEW parts \in SomeParts(T)
    PROVE  \E done \in Seq(Seq(T)), part \in Seq(T) : parts = Append(done, part)
  <1> DEFINE U == Seq(T)
             n == Len(parts)
             done == SubSeq(parts, 1, n - 1)
             part == parts[n]
  <1>1. parts \in Seq(U) /\ parts # << >>
    BY DEF SomeParts
  <1> HIDE DEF U
  <1>2. n \in Nat /\ n # 0
    BY <1>1
  <1>3. done \in Seq(U) /\ part \in U /\ parts = Append(done, part)
    BY <1>1, <1>2
  <1> QED
    BY <1>3 DEF U

\* So there are always some parts.
LEMMA LongerTyped ==
    ASSUME NEW T, NEW parts \in SomeParts(T), NEW c \in T, NEW mark
    PROVE  Longer(parts, c, mark) \in SomeParts(T)
  <1> DEFINE U == Seq(T)
  <1>1. PICK done \in Seq(U), part \in U : parts = Append(done, part)
    BY SomePartsAre
  <1>2. Longer(parts, c, mark)
        = IF c = mark THEN Append(Append(done, part), << >>) ELSE Append(done, Append(part, c))
    BY <1>1, LongerIs
  <1>3. << >> \in U /\ Append(part, c) \in U
    BY <1>1
  <1> HIDE DEF U
  <1>4. \A a \in Seq(U), b \in U : Append(a, b) \in Seq(U) /\ Append(a, b) # << >>
    OBVIOUS
  <1>5. Longer(parts, c, mark) \in Seq(U) /\ Longer(parts, c, mark) # << >>
    BY <1>1, <1>2, <1>3, <1>4
  <1> QED
    BY <1>5 DEF SomeParts, U

\* parts lists what the beginnings of a text are taken apart into.
Splits(parts, t, mark, T) ==
    /\ \A i \in 0..Len(t) : parts[i] \in SomeParts(T)
    /\ parts[0] = << << >> >>
    /\ \A i \in Nat : i < Len(t) => parts[i + 1] = Longer(parts[i], t[i + 1], mark)

\* Split goes through the text symbol by symbol.
LEMMA SplitRun ==
    ASSUME NEW T, NEW t \in Seq(T), NEW mark
    PROVE  \E parts : Splits(parts, t, mark, T) /\ Split(t, mark) = parts[Len(t)]
  <1> DEFINE n == Len(t)
             S == SomeParts(T)
             first == << << >> >>
             step == [x \in S \X (1..n) |-> Longer(x[1], t[x[2]], mark)]
             Recurs(f) == f = [i \in 0..n |-> IF i = 0 THEN first ELSE Longer(f[i - 1], t[i], mark)]
             parts == CHOOSE f : Recurs(f)
  <1>1. n \in Nat /\ \A i \in 1..n : t[i] \in T
    OBVIOUS
  <1>2. first \in S
    <2> DEFINE U == Seq(T)
    <2>1. << >> \in U
      OBVIOUS
    <2> HIDE DEF U
    <2>2. first \in Seq(U) /\ first # << >>
      BY <2>1
    <2> QED
      BY <2>2 DEF SomeParts, U
  <1>3. step \in [S \X (1..n) -> S]
    BY <1>1, LongerTyped
  <1>4. ASSUME NEW s \in S, NEW i \in 1..n PROVE step[<<s, i>>] = Longer(s, t[i], mark)
    OBVIOUS
  <1>5. Split(t, mark) = parts[n]
    BY DEF Split
  <1> HIDE DEF step, S, n, first
  <1>6. PICK run : Runs(run, first, step, n, S)
    BY <1>1, <1>2, <1>3, RunExists
  <1>7. Recurs(run) /\ \A i \in 0..n : run[i] \in S
    <2>1. run \in [0..n -> S] /\ run[0] = first
      BY <1>6, Zenon DEF Runs
    <2>2. ASSUME NEW i \in 0..n, i # 0 PROVE run[i] = Longer(run[i - 1], t[i], mark)
      <3>1. i - 1 \in Nat /\ i - 1 < n /\ (i - 1) + 1 = i /\ i - 1 \in 0..n /\ i \in 1..n
        BY <1>1, <2>2
      <3>2. run[(i - 1) + 1] = step[<<run[i - 1], (i - 1) + 1>>]
        BY <1>6, <3>1, Zenon DEF Runs
      <3>3. run[i] = step[<<run[i - 1], i>>] /\ run[i - 1] \in S
        BY <2>1, <3>1, <3>2
      <3> QED
        BY <1>4, <3>1, <3>3
    <2>3. \A i \in 0..n : run[i] = IF i = 0 THEN first ELSE Longer(run[i - 1], t[i], mark)
      BY <2>1, <2>2
    <2> QED
      BY <2>1, <2>3
  <1>8. Recurs(parts)
    <2> HIDE DEF Recurs
    <2> QED
      BY <1>7
  <1>9. \A i \in 0..n : parts[i] = IF i = 0 THEN first ELSE Longer(parts[i - 1], t[i], mark)
    BY <1>8
  <1> HIDE DEF parts
  <1>10. parts[0] = first
    BY <1>1, <1>9
  <1>11. ASSUME NEW i \in Nat, i < n PROVE parts[i + 1] = Longer(parts[i], t[i + 1], mark)
    <2>1. i + 1 \in 0..n /\ i + 1 # 0 /\ (i + 1) - 1 = i
      BY <1>1, <1>11
    <2>2. parts[i + 1] = Longer(parts[(i + 1) - 1], t[i + 1], mark)
      BY <1>9, <2>1
    <2> QED
      BY <2>1, <2>2
  <1>12. ASSUME NEW i \in 0..n PROVE parts[i] \in S
    <2> DEFINE P == {k \in Nat : k <= n => parts[k] \in S}
    <2>1. 0 \in P
      BY <1>2, <1>10
    <2>2. ASSUME NEW k \in Nat, k < i, k \in P PROVE k + 1 \in P
      <3>1. parts[k] \in S /\ k + 1 \in 1..n /\ k < n
        BY <1>1, <2>2
      <3>2. Longer(parts[k], t[k + 1], mark) \in S
        BY <1>1, <3>1, LongerTyped DEF S
      <3> QED
        BY <1>11, <2>2, <3>1, <3>2
    <2>3. i \in Nat /\ i <= n
      BY <1>1
    <2> HIDE DEF P
    <2>4. i \in P
      BY <2>1, <2>2, <2>3, Induction
    <2> QED
      BY <2>3, <2>4 DEF P
  <1>13. Splits(parts, t, mark, T)
    BY <1>10, <1>11, <1>12 DEF Splits, n, S, first
  <1> QED
    BY <1>5, <1>13 DEF n

\* Two of them agree as far as their texts do.
LEMMA SplitsAgree ==
    ASSUME NEW T, NEW s \in Seq(T), NEW t \in Seq(T), NEW mark,
           NEW f, Splits(f, s, mark, T), NEW g, Splits(g, t, mark, T),
           Len(s) <= Len(t), \A i \in 1..Len(s) : s[i] = t[i]
    PROVE  f[Len(s)] = g[Len(s)]
  <1> DEFINE S == {k \in Nat : f[k] = g[k]}
             n == Len(s)
             m == Len(t)
  <1>1. n \in Nat /\ m \in Nat /\ n <= m
    OBVIOUS
  <1>2. 0 \in S
    BY DEF Splits
  <1>3. ASSUME NEW k \in Nat, k < n, f[k] = g[k] PROVE f[k + 1] = g[k + 1]
    <2>1. k < m /\ s[k + 1] = t[k + 1]
      BY <1>1, <1>3
    <2>2. f[k + 1] = Longer(f[k], s[k + 1], mark)
      BY <1>3, Zenon DEF Splits
    <2>3. g[k + 1] = Longer(g[k], t[k + 1], mark)
      BY <1>3, <2>1, Zenon DEF Splits
    <2> QED
      BY <1>3, <2>1, <2>2, <2>3, Zenon
  <1>4. n \in S
    <2>1. \A k \in Nat : k < n /\ k \in S => k + 1 \in S
      BY <1>3
    <2> HIDE DEF S, n
    <2> QED
      BY <1>1, <1>2, <2>1, Induction
  <1> QED
    BY <1>4

\* Of a text with a symbol more.
LEMMA SplitMore ==
    ASSUME NEW T, NEW t \in Seq(T), NEW c \in T, NEW mark
    PROVE  /\ Split(t, mark) \in SomeParts(T)
           /\ Split(Append(t, c), mark) = Longer(Split(t, mark), c, mark)
  <1> DEFINE u == Append(t, c)
             n == Len(t)
  <1>1. /\ u \in Seq(T) /\ n \in Nat /\ Len(u) = n + 1 /\ u[n + 1] = c
        /\ \A i \in 1..n : t[i] = u[i]
    OBVIOUS
  <1>2. PICK f : Splits(f, t, mark, T) /\ Split(t, mark) = f[n]
    BY SplitRun
  <1> HIDE DEF u
  <1>3. PICK g : Splits(g, u, mark, T) /\ Split(u, mark) = g[Len(u)]
    BY <1>1, SplitRun
  <1>4. f[n] = g[n]
    <2>1. Len(t) <= Len(u)
      BY <1>1
    <2> QED
      BY <1>1, <1>2, <1>3, <2>1, SplitsAgree
  <1>5. g[n + 1] = Longer(g[n], u[n + 1], mark)
    BY <1>1, <1>3 DEF Splits
  <1>6. f[n] \in SomeParts(T)
    BY <1>1, <1>2 DEF Splits
  <1> QED
    BY <1>1, <1>2, <1>3, <1>4, <1>5, <1>6 DEF u

\* Of no text there is one part, with nothing in it.
LEMMA SplitNothing ==
    ASSUME NEW mark
    PROVE  Split(<< >>, mark) = << << >> >>
  <1>1. << >> \in Seq({}) /\ Len(<< >>) = 0
    OBVIOUS
  <1>2. PICK f : Splits(f, << >>, mark, {}) /\ Split(<< >>, mark) = f[Len(<< >>)]
    BY <1>1, SplitRun
  <1> QED
    BY <1>1, <1>2 DEF Splits

\* The beginnings of a sequence.
LEMMA Beginnings ==
    ASSUME NEW T, NEW s \in Seq(T)
    PROVE  /\ Len(s) \in Nat /\ SubSeq(s, 1, 0) = << >> /\ SubSeq(s, 1, Len(s)) = s
           /\ \A k \in 0..Len(s) : SubSeq(s, 1, k) \in Seq(T)
           /\ \A k \in Nat : k < Len(s) =>
                SubSeq(s, 1, k + 1) = Append(SubSeq(s, 1, k), s[k + 1]) /\ s[k + 1] \in T
  OBVIOUS

\* A mark is in a text.
Marks(t, mark) == \E i \in 1..Len(t) : t[i] = mark

\* A text comes to these parts and a last one.
Ends(t, mark, T, done, part) ==
    /\ t \in Seq(T) /\ done \in Seq(Seq(T)) /\ part \in Seq(T)
    /\ Split(t, mark) = Append(done, part)

\* A symbol that is no mark.
LEMMA EndsLonger ==
    ASSUME NEW T, NEW t, NEW mark, NEW done, NEW part, Ends(t, mark, T, done, part),
           NEW c \in T, c # mark
    PROVE  Ends(Append(t, c), mark, T, done, Append(part, c))
  <1>1. /\ t \in Seq(T) /\ done \in Seq(Seq(T)) /\ part \in Seq(T)
        /\ Split(t, mark) = Append(done, part)
    BY Zenon DEF Ends
  <1>2. Split(Append(t, c), mark) = Longer(Append(done, part), c, mark)
    BY <1>1, SplitMore
  <1>3. Longer(Append(done, part), c, mark) = Append(done, Append(part, c))
    BY <1>1, LongerIs
  <1>4. Append(t, c) \in Seq(T) /\ Append(part, c) \in Seq(T)
    BY <1>1
  <1>5. Split(Append(t, c), mark) = Append(done, Append(part, c))
    BY <1>2, <1>3, Zenon
  <1> QED
    BY <1>1, <1>4, <1>5, Zenon DEF Ends

\* A mark.
LEMMA EndsMark ==
    ASSUME NEW T, NEW t, NEW mark \in T, NEW done, NEW part, Ends(t, mark, T, done, part)
    PROVE  Ends(t \o <<mark>>, mark, T, Append(done, part), << >>)
  <1> DEFINE U == Seq(T)
  <1>1. /\ t \in U /\ done \in Seq(U) /\ part \in U
        /\ Split(t, mark) = Append(done, part)
    BY Zenon DEF Ends
  <1>2. t \o <<mark>> = Append(t, mark) /\ Append(t, mark) \in U /\ << >> \in U
    BY <1>1
  <1>3. Split(Append(t, mark), mark) = Longer(Append(done, part), mark, mark)
    BY <1>1, SplitMore
  <1>4. Longer(Append(done, part), mark, mark) = Append(Append(done, part), << >>)
    BY <1>1, LongerIs
  <1>5. Append(done, part) \in Seq(U)
    <2> HIDE DEF U
    <2> QED
      BY <1>1
  <1>6. Split(Append(t, mark), mark) = Append(Append(done, part), << >>)
    BY <1>3, <1>4, Zenon
  <1> QED
    BY <1>2, <1>5, <1>6, Zenon DEF Ends

\* What has no mark makes the last part longer.
LEMMA EndsOnwards ==
    ASSUME NEW T, NEW t, NEW mark, NEW done, NEW part, Ends(t, mark, T, done, part),
           NEW b \in Seq(T), ~ Marks(b, mark)
    PROVE  Ends(t \o b, mark, T, done, part \o b)
  <1> DEFINE n == Len(b)
             To(k) == SubSeq(b, 1, k)
             P == {k \in Nat : k <= n => Ends(t \o To(k), mark, T, done, part \o To(k))}
  <1>1. /\ n \in Nat /\ To(0) = << >> /\ To(n) = b
        /\ \A k \in 0..n : To(k) \in Seq(T)
        /\ \A k \in Nat : k < n => To(k + 1) = Append(To(k), b[k + 1]) /\ b[k + 1] \in T
    BY Beginnings
  <1>2. \A k \in Nat : k < n => b[k + 1] # mark
    <2> SUFFICES ASSUME NEW k \in Nat, k < n PROVE b[k + 1] # mark
      OBVIOUS
    <2>1. k + 1 \in 1..Len(b)
      OBVIOUS
    <2> QED
      BY <2>1, Zenon DEF Marks
  <1> HIDE DEF n, To
  <1>3. t \in Seq(T) /\ part \in Seq(T)
    BY Zenon DEF Ends
  <1>4. 0 \in P
    <2>1. t \o << >> = t /\ part \o << >> = part
      BY <1>3
    <2> QED
      BY <1>1, <2>1
  <1>5. ASSUME NEW k \in Nat, k < n, k \in P PROVE k + 1 \in P
    <2> DEFINE c == b[k + 1]
               a == To(k)
               longer == To(k + 1)
    <2>1. k \in 0..n /\ k <= n
      BY <1>1, <1>5
    <2>2. a \in Seq(T) /\ c \in T /\ longer = Append(a, c) /\ c # mark
      BY <1>1, <1>2, <1>5, <2>1
    <2>3. Ends(t \o a, mark, T, done, part \o a)
      BY <1>5, <2>1
    <2> HIDE DEF c, a, longer
    <2>4. t \o Append(a, c) = Append(t \o a, c)
      BY <1>3, <2>2
    <2>5. part \o Append(a, c) = Append(part \o a, c)
      BY <1>3, <2>2
    <2>6. Ends(Append(t \o a, c), mark, T, done, Append(part \o a, c))
      BY <2>2, <2>3, EndsLonger
    <2>7. Ends(t \o longer, mark, T, done, part \o longer)
      BY <2>2, <2>4, <2>5, <2>6, Zenon
    <2> QED
      BY <2>7 DEF longer
  <1>6. n \in P
    <2> HIDE DEF P
    <2> QED
      BY <1>1, <1>4, <1>5, Induction
  <1> QED
    BY <1>1, <1>6

\* Of nothing there is nothing.
LEMMA EndsNothing ==
    ASSUME NEW T, NEW mark
    PROVE  Ends(<< >>, mark, T, << >>, << >>)
  <1> DEFINE U == Seq(T)
  <1>1. << >> \in U
    OBVIOUS
  <1> HIDE DEF U
  <1>2. << >> \in Seq(U)
    OBVIOUS
  <1>3. Split(<< >>, mark) = Append(<< >>, << >>)
    BY SplitNothing
  <1> QED
    BY <1>1, <1>2, <1>3, Zenon DEF Ends, U

\* And of a text without marks itself.
LEMMA EndsPlain ==
    ASSUME NEW T, NEW t \in Seq(T), NEW mark, NEW done, Ends(t, mark, T, done, << >>),
           NEW b \in Seq(T), ~ Marks(b, mark)
    PROVE  Ends(t \o b, mark, T, done, b)
  <1>1. Ends(t \o b, mark, T, done, << >> \o b)
    BY EndsOnwards
  <1>2. << >> \o b = b
    OBVIOUS
  <1> QED
    BY <1>1, <1>2, Zenon

\* Sequences with the same at the same places are the same.
LEMMA SameSequence ==
    ASSUME NEW T, NEW a \in Seq(T), NEW b \in Seq(T), Len(a) = Len(b),
           \A i \in 1..Len(a) : a[i] = b[i]
    PROVE  a = b
  OBVIOUS

\* A sequence with one more.
LEMMA AppendParts ==
    ASSUME NEW T, NEW t \in Seq(T), NEW c \in T
    PROVE  /\ Append(t, c) \in Seq(T) /\ Len(Append(t, c)) = Len(t) + 1
           /\ Append(t, c)[Len(t) + 1] = c /\ \A i \in 1..Len(t) : Append(t, c)[i] = t[i]
  OBVIOUS

\* Three one after another.
LEMMA AppendThree ==
    ASSUME NEW a, NEW b, NEW c
    PROVE  Append(Append(Append(<< >>, a), b), c) = <<a, b, c>>
  <1> DEFINE T == {a, b, c}
             none == << >>
             one == Append(none, a)
             two == Append(one, b)
             three == Append(two, c)
             all == <<a, b, c>>
  <1>1. a \in T /\ b \in T /\ c \in T /\ none \in Seq(T) /\ Len(none) = 0
    OBVIOUS
  <1> HIDE DEF none
  <1>2. all \in Seq(T) /\ Len(all) = 3 /\ all[1] = a /\ all[2] = b /\ all[3] = c
    OBVIOUS
  <1> HIDE DEF T, all
  <1>3. one \in Seq(T) /\ Len(one) = 1 /\ one[1] = a
    <2>1. /\ one \in Seq(T) /\ Len(one) = Len(none) + 1 /\ one[Len(none) + 1] = a
      BY <1>1, AppendParts, Zenon
    <2> QED
      BY <1>1, <2>1
  <1> HIDE DEF one
  <1>4. two \in Seq(T) /\ Len(two) = 2 /\ two[1] = a /\ two[2] = b
    <2>1. one \in Seq(T) /\ b \in T
      BY <1>1, <1>3
    <2>2. two \in Seq(T) /\ Len(two) = Len(one) + 1
      BY <2>1, AppendParts, Zenon
    <2>3. two[Len(one) + 1] = b
      BY <2>1, AppendParts, Zenon
    <2>4. \A i \in 1..Len(one) : two[i] = one[i]
      BY <2>1, AppendParts
    <2> HIDE DEF two
    <2> QED
      BY <1>3, <2>2, <2>3, <2>4
  <1> HIDE DEF two
  <1>5. three \in Seq(T) /\ Len(three) = 3 /\ three[1] = a /\ three[2] = b /\ three[3] = c
    <2>1. two \in Seq(T) /\ c \in T
      BY <1>1, <1>4
    <2>2. three \in Seq(T) /\ Len(three) = Len(two) + 1
      BY <2>1, AppendParts, Zenon
    <2>3. three[Len(two) + 1] = c
      BY <2>1, AppendParts, Zenon
    <2>4. \A i \in 1..Len(two) : three[i] = two[i]
      BY <2>1, AppendParts
    <2> HIDE DEF three
    <2> QED
      BY <1>4, <2>2, <2>3, <2>4
  <1> HIDE DEF three
  <1>6. \A i \in 1..Len(three) : i \in {1, 2, 3}
    BY <1>5
  <1>7. three = all
    BY <1>2, <1>5, <1>6, SameSequence
  <1> QED
    BY <1>7 DEF three, two, one, none, all

\* Three parts with two marks between them are found again.
LEMMA SplitThree ==
    ASSUME NEW T, NEW a \in Seq(T), NEW b \in Seq(T), NEW c \in Seq(T), NEW mark \in T,
           ~ Marks(a, mark), ~ Marks(b, mark), ~ Marks(c, mark)
    PROVE  Split((((a \o <<mark>>) \o b) \o <<mark>>) \o c, mark) = <<a, b, c>>
  <1> DEFINE none == << >>
             first == a \o <<mark>>
             second == first \o b
             third == second \o <<mark>>
             one == Append(none, a)
             two == Append(one, b)
  <1>1. /\ none \in Seq(T) /\ first \in Seq(T) /\ second \in Seq(T) /\ third \in Seq(T)
        /\ none \o a = a
    OBVIOUS
  <1>2. Ends(none, mark, T, none, none)
    BY EndsNothing
  <1>3. Append(two, c) = <<a, b, c>>
    BY AppendThree
  <1> HIDE DEF two, one, third, second, first
  <1>4. Ends(a, mark, T, none, a)
    <2>1. Ends(none \o a, mark, T, none, a)
      BY <1>1, <1>2, EndsPlain
    <2> QED
      BY <1>1, <2>1
  <1>5. Ends(first, mark, T, one, none)
    BY <1>4, EndsMark DEF first, one
  <1>6. Ends(second, mark, T, one, b)
    BY <1>1, <1>5, EndsPlain DEF second
  <1>7. Ends(third, mark, T, two, none)
    BY <1>6, EndsMark DEF third, two
  <1>8. Ends(third \o c, mark, T, two, c)
    BY <1>1, <1>7, EndsPlain
  <1> QED
    BY <1>3, <1>8 DEF Ends, first, second, third

\* Rows with a mark behind each, and no other, are found again.
LEMMA SplitRows ==
    ASSUME NEW T, NEW mark \in T, NEW bodies \in Seq(Seq(T)), NEW rows \in Seq(Seq(T)),
           Len(rows) = Len(bodies),
           \A i \in 1..Len(bodies) : ~ Marks(bodies[i], mark) /\ rows[i] = bodies[i] \o <<mark>>
    PROVE  Split(FlattenSeq(rows), mark) = Append(bodies, << >>)
  <1> DEFINE U == Seq(T)
             n == Len(bodies)
             To(k) == SubSeq(bodies, 1, k)
             none == << >>
  <1>1. PICK joined : Joins(joined, rows, Len(rows), T)
    BY JoinsExist
  <1>2. FlattenSeq(rows) = joined[n] /\ n \in Nat
    BY <1>1, FlattenJoins
  <1>3. /\ To(0) = << >> /\ To(n) = bodies
        /\ \A k \in 0..n : To(k) \in Seq(U)
        /\ \A k \in Nat : k < n => To(k + 1) = Append(To(k), bodies[k + 1]) /\ bodies[k + 1] \in U
    <2> HIDE DEF U
    <2>1. bodies \in Seq(U)
      BY DEF U
    <2> QED
      BY <2>1, Beginnings
  <1>4. /\ joined[0] = << >> /\ \A k \in 0..n : joined[k] \in U
        /\ \A k \in Nat : k < n => joined[k + 1] = joined[k] \o rows[k + 1]
    BY <1>1, Zenon DEF Joins
  <1> DEFINE P == {k \in Nat : k <= n => Ends(joined[k], mark, T, To(k), none)}
  <1>5. 0 \in P
    <2>1. Ends(<< >>, mark, T, << >>, none)
      BY EndsNothing
    <2> HIDE DEF To
    <2> QED
      BY <1>3, <1>4, <2>1
  <1>6. ASSUME NEW k \in Nat, k < n, k \in P PROVE k + 1 \in P
    <2> DEFINE body == bodies[k + 1]
               done == To(k)
               whole == joined[k]
               row == rows[k + 1]
    <2>1. k \in 0..n /\ k + 1 \in 1..n /\ k <= n
      BY <1>2, <1>6
    <2>2. body \in Seq(T) /\ ~ Marks(body, mark) /\ row = body \o <<mark>>
      BY <1>3, <1>6, <2>1
    <2>3. whole \in Seq(T) /\ joined[k + 1] = whole \o row
      BY <1>4, <1>6, <2>1
    <2> HIDE DEF To
    <2>4. To(k + 1) = Append(done, body) /\ Ends(whole, mark, T, done, none)
      BY <1>3, <1>6, <2>1
    <2> HIDE DEF body, done, whole, row
    <2>5. whole \o (body \o <<mark>>) = (whole \o body) \o <<mark>>
      BY <2>2, <2>3
    <2>6. Ends(whole \o body, mark, T, done, body)
      BY <2>2, <2>3, <2>4, EndsPlain
    <2>7. Ends((whole \o body) \o <<mark>>, mark, T, Append(done, body), none)
      BY <2>6, EndsMark
    <2>8. Ends(joined[k + 1], mark, T, To(k + 1), none)
      BY <2>2, <2>3, <2>4, <2>5, <2>7, Zenon
    <2> QED
      BY <2>8
  <1>7. n \in P
    <2> HIDE DEF P
    <2> QED
      BY <1>2, <1>5, <1>6, Induction
  <1> HIDE DEF n, To
  <1>8. Ends(joined[n], mark, T, bodies, none)
    BY <1>2, <1>3, <1>7
  <1> QED
    BY <1>2, <1>8 DEF Ends

-----------------------------------------------------------------------------
(* A field of a row *)

\* The words the rows are made of, but for identifiers and states.
RowWords == {Char(word) : word \in {"bar", "newline", "blank", "metadata", "PLAYER steam=",
    "upid", "ip", "money", "gold", "ping", "location", "ipStatus=unavailable"}}

\* Bars, line ends and blanks are different, and none is inside a character.
LEMMA MarksApart ==
    /\ {Bar, Newline, Gap} \subseteq RowWords
    /\ Bar # Newline /\ Gap # Bar /\ Gap # Newline
    /\ ~ Continuation(Bar) /\ ~ Continuation(Newline) /\ ~ Continuation(Gap)
    /\ ~ Continuation(Control)
  <1>1. {Bar, Newline, Gap} \subseteq RowWords
    BY DEF RowWords, Bar, Newline, Gap
  <1>2. Bar # Newline /\ Gap # Bar /\ Gap # Newline
    BY DEF Bar, Newline, Gap, Char, Byte
  <1>3. \A w : w \notin {"e", "h", "l"} => ~ Continuation(Char(w))
    BY DEF Continuation, Char, Byte
  <1> QED
    BY <1>1, <1>2, <1>3 DEF Bar, Newline, Gap, Control

\* A field shows its text, without bars or line ends.
LEMMA FieldShows ==
    ASSUME NEW T, RowWords \subseteq T, NEW name \in Seq(T), IsWhole(name)
    PROVE  /\ Field(name) \in Seq(T) /\ Shown(Field(name), name)
           /\ ~ Marks(Field(name), Bar) /\ ~ Marks(Field(name), Newline)
  <1> DEFINE off == {Newline, Control, Bar}
             plain == [i \in DOMAIN name |-> IF name[i] \in off THEN Gap ELSE name[i]]
             n == Utf8PrefixSize(plain, MaxField)
             l == Len(name)
             column == SubSeq(plain, 1, n)
  <1>1. Field(name) = column
    BY DEF Field
  <1>2. Gap \in T /\ \A b \in off : ~ Continuation(b)
    BY MarksApart
  <1>3. Gap # Bar /\ Gap # Newline /\ ~ Continuation(Gap)
    BY MarksApart, Zenon
  <1>4. name \in Seq(T) /\ l \in Nat /\ (l # 0 => ~ Continuation(name[1]))
    BY DEF IsWhole
  <1>5. MaxField \in Nat
    BY FormatsAssumption
  <1>6. Newline \in off /\ Bar \in off
    OBVIOUS
  <1> HIDE DEF off
  <1>7. /\ plain \in Seq(T) /\ Len(plain) = l
        /\ \A i \in 1..l : plain[i] = IF name[i] \in off THEN Gap ELSE name[i]
    BY <1>2, <1>4
  <1> DEFINE m == Smaller(l, MaxField)
  <1> HIDE DEF plain, n, l
  <1>8. /\ n \in 0..m
        /\ n = 0 \/ n = l \/ ~ Continuation(plain[n + 1])
        /\ \A k \in (n + 1)..m : k < l /\ Continuation(plain[k + 1])
    <2>1. LET p == Utf8PrefixSize(plain, MaxField)
              q == Smaller(Len(plain), MaxField)
          IN  /\ p \in 0..q
              /\ p = 0 \/ p = Len(plain) \/ ~ Continuation(plain[p + 1])
              /\ \A k \in (p + 1)..q : k < Len(plain) /\ Continuation(plain[k + 1])
      BY <1>5, <1>7, LongestPrefix
    <2> QED
      BY <1>7, <2>1, Zenon DEF n
  <1>9. m \in Nat /\ m <= l /\ m <= MaxField /\ (m = l \/ m = MaxField)
    BY <1>4, <1>5 DEF Smaller
  <1> HIDE DEF m
  <1>10. n \in Nat /\ n <= l /\ n <= MaxField
    BY <1>4, <1>5, <1>8, <1>9
  <1>11. column \in Seq(T) /\ Len(column) = n /\ \A k \in 1..n : column[k] = plain[k]
    <2> QED
      BY <1>4, <1>7, <1>10
  <1> HIDE DEF column
  <1>12. \A i \in 1..l : Continuation(plain[i]) <=> Continuation(name[i])
    BY <1>2, <1>3, <1>7
  <1>13. \A k \in 1..n : column[k] = IF name[k] \in off THEN Gap ELSE name[k]
    BY <1>4, <1>7, <1>10, <1>11
  <1>14. ASSUME n < l PROVE ~ Continuation(name[n + 1])
    <2>1. n + 1 \in 1..l
      BY <1>4, <1>10, <1>14
    <2>2. CASE n = 0
      BY <1>4, <1>14, <2>2
    <2>3. CASE n # 0
      BY <1>8, <1>12, <1>14, <2>1, <2>3
    <2> QED
      BY <2>2, <2>3
  <1>15. ASSUME n < l, NEW k \in (n + 2)..(MaxField + 1) PROVE Continuation(name[k])
    <2>1. m = MaxField /\ m < l
      <3>1. CASE m = l
        <4>1. l \in (n + 1)..m
          BY <1>4, <1>10, <1>15, <3>1
        <4> QED
          BY <1>4, <1>8, <4>1
      <3>2. CASE m # l
        BY <1>4, <1>9, <3>2
      <3> QED
        BY <3>1, <3>2
    <2>2. k - 1 \in (n + 1)..m /\ (k - 1) + 1 = k /\ k \in 1..l
      BY <1>4, <1>5, <1>10, <1>15, <2>1
    <2>3. Continuation(plain[(k - 1) + 1])
      BY <1>8, <2>2
    <2> QED
      BY <1>12, <2>2, <2>3
  <1>16. Shown(column, name)
    <2>1. Len(column) <= l /\ Len(column) <= MaxField
      BY <1>10, <1>11
    <2>2. \A k \in 1..Len(column) :
            column[k] = IF name[k] \in {Newline, Control, Bar} THEN Gap ELSE name[k]
      BY <1>11, <1>13 DEF off
    <2>3. Len(column) < l =>
            /\ ~ Continuation(name[Len(column) + 1])
            /\ \A k \in (Len(column) + 2)..(MaxField + 1) : Continuation(name[k])
      BY <1>11, <1>14, <1>15
    <2> QED
      BY <2>1, <2>2, <2>3, Zenon DEF Shown, l
  <1>17. ~ Marks(column, Bar) /\ ~ Marks(column, Newline)
    BY <1>3, <1>6, <1>11, <1>13 DEF Marks
  <1> QED
    BY <1>1, <1>11, <1>16, <1>17

-----------------------------------------------------------------------------
(* The rows of the lists *)

\* A text has none of some symbols, or one of them in one place.
Free(t, X) == \A i \in 1..Len(t) : t[i] \notin X
Once(t, X) == \E k \in 1..Len(t) : \A l \in 1..Len(t) : t[l] \in X <=> l = k

\* Of a text of one symbol, or none.
LEMMA FreeOne ==
    ASSUME NEW c, NEW X
    PROVE  /\ Free(<< >>, X) /\ (c \notin X => Free(<<c>>, X)) /\ (c \in X => Once(<<c>>, X))
  <1>1. Len(<<c>>) = 1 /\ <<c>>[1] = c /\ Len(<< >>) = 0
    OBVIOUS
  <1>2. 1 \in 1..Len(<<c>>) /\ \A i \in 1..Len(<<c>>) : i = 1
    BY <1>1
  <1>3. Free(<< >>, X)
    BY <1>1 DEF Free
  <1>4. c \notin X => Free(<<c>>, X)
    BY <1>1, <1>2, Zenon DEF Free
  <1>5. c \in X => Once(<<c>>, X)
    <2>1. ASSUME c \in X PROVE \A l \in 1..Len(<<c>>) : <<c>>[l] \in X <=> l = 1
      BY <1>1, <1>2, <2>1, Zenon
    <2> QED
      BY <1>2, <2>1, Zenon DEF Once
  <1> QED
    BY <1>3, <1>4, <1>5

\* Of two texts together.
LEMMA FreeConcat ==
    ASSUME NEW T, NEW a \in Seq(T), NEW b \in Seq(T), NEW X
    PROVE  /\ Free(a, X) /\ Free(b, X) => Free(a \o b, X)
           /\ Once(a, X) /\ Free(b, X) => Once(a \o b, X)
           /\ Free(a, X) /\ Once(b, X) => Once(a \o b, X)
  <1> DEFINE c == a \o b
             m == Len(a)
             n == Len(b)
  <1>1. /\ m \in Nat /\ n \in Nat /\ Len(c) = m + n
        /\ \A i \in 1..m : c[i] = a[i]
        /\ \A i \in 1..n : c[m + i] = b[i]
    BY ConcatParts
  <1> HIDE DEF c, m, n
  <1>2. \A l \in 1..Len(c) : l \in 1..m \/ (l - m \in 1..n /\ m + (l - m) = l)
    BY <1>1
  <1>3. ASSUME NEW l \in 1..Len(c)
        PROVE  (l \in 1..m /\ c[l] = a[l]) \/ (l - m \in 1..n /\ c[l] = b[l - m])
    <2>1. CASE l \in 1..m
      <3>1. c[l] = a[l]
        BY <1>1, <2>1, Zenon
      <3> QED
        BY <2>1, <3>1, Zenon
    <2>2. CASE l - m \in 1..n /\ m + (l - m) = l
      <3>1. c[m + (l - m)] = b[l - m]
        BY <1>1, <2>2
      <3>2. c[l] = b[l - m]
        BY <2>2, <3>1
      <3> QED
        BY <2>2, <3>2
    <2> QED
      BY <1>2, <2>1, <2>2
  <1>4. ASSUME Free(a, X), Free(b, X) PROVE Free(c, X)
    BY <1>3, <1>4 DEF Free, m, n
  <1>5. ASSUME Once(a, X), Free(b, X) PROVE Once(c, X)
    <2>1. PICK k \in 1..m : \A l \in 1..m : a[l] \in X <=> l = k
      BY <1>5, Zenon DEF Once, m
    <2>2. \A l \in 1..n : b[l] \notin X
      BY <1>5, Zenon DEF Free, n
    <2>3. k \in 1..Len(c)
      BY <1>1
    <2>4. ASSUME NEW l \in 1..Len(c) PROVE c[l] \in X <=> l = k
      <3>1. CASE l \in 1..m /\ c[l] = a[l]
        BY <2>1, <3>1
      <3>2. CASE l - m \in 1..n /\ c[l] = b[l - m]
        BY <1>1, <2>1, <2>2, <3>2
      <3> QED
        BY <1>3, <3>1, <3>2
    <2> QED
      BY <2>3, <2>4, Zenon DEF Once
  <1>6. ASSUME Free(a, X), Once(b, X) PROVE Once(c, X)
    <2>1. PICK k \in 1..n : \A l \in 1..n : b[l] \in X <=> l = k
      BY <1>6, Zenon DEF Once, n
    <2>2. \A l \in 1..m : a[l] \notin X
      BY <1>6, Zenon DEF Free, m
    <2>3. m + k \in 1..Len(c)
      BY <1>1
    <2>4. ASSUME NEW l \in 1..Len(c) PROVE c[l] \in X <=> l = m + k
      <3>1. CASE l \in 1..m /\ c[l] = a[l]
        BY <1>1, <2>1, <2>2, <3>1
      <3>2. CASE l - m \in 1..n /\ c[l] = b[l - m]
        BY <1>1, <2>1, <3>2
      <3> QED
        BY <1>3, <3>1, <3>2
    <2> QED
      BY <2>3, <2>4, Zenon DEF Once
  <1> QED
    BY <1>4, <1>5, <1>6 DEF c

\* Marks are what a text is not free of.
LEMMA FreeMarks ==
    ASSUME NEW t, NEW X, Free(t, X), NEW mark \in X
    PROVE  ~ Marks(t, mark)
  BY Zenon DEF Free, Marks

\* The marks, and the words that tell of an address.
RowMarks == {Bar, Newline}
IpWords == {Char("ip"), Char("ipStatus=unavailable")}

\* Each detail is a word or missing; the address is one of two words.
LEMMA DetailWords ==
    ASSUME NEW player
    PROVE  /\ \E c \in IpWords : Detail(player, "ip") = <<c>>
           /\ \A d \in {"upid", "money", "gold", "ping", "location"} :
                Detail(player, d) \in {<<Char(d)>>, << >>}
  <1>1. \E c \in IpWords : Detail(player, "ip") = <<c>>
    BY Zenon DEF Detail, IpWords
  <1>2. ASSUME NEW d \in {"upid", "money", "gold", "ping", "location"}
        PROVE  Detail(player, d) \in {<<Char(d)>>, << >>}
    <2>1. d # "ip"
      OBVIOUS
    <2> QED
      BY <2>1 DEF Detail
  <1> QED
    BY <1>1, <1>2

\* So a detail has no mark, and a word of an address only where that is given.
LEMMA DetailParts ==
    ASSUME NEW T, RowWords \subseteq T, NEW player, NEW i \in 1..6
    PROVE  /\ Detail(player, Details[i]) \in Seq(T)
           /\ Free(Detail(player, Details[i]), RowMarks)
           /\ i # 2 => Free(Detail(player, Details[i]), IpWords)
           /\ i = 2 => Once(Detail(player, Details[i]), IpWords)
  <1> DEFINE d == Details[i]
             part == Detail(player, d)
  <1>1. /\ i = 2 => d = "ip"
        /\ i # 2 => d \in {"upid", "money", "gold", "ping", "location"}
    BY DEF Details
  <1> HIDE DEF d
  <1>2. CASE i = 2
    <2>1. PICK c \in IpWords : part = <<c>>
      BY <1>1, <1>2, DetailWords
    <2>2. c \notin RowMarks
      BY DEF RowMarks, IpWords, Bar, Newline, Char, Byte
    <2>3. c \in T
      BY DEF RowWords, IpWords
    <2>4. part \in Seq(T)
      BY <2>1, <2>3
    <2> HIDE DEF part
    <2>5. Free(part, RowMarks) /\ Once(part, IpWords)
      BY <2>1, <2>2, FreeOne, Zenon
    <2> QED
      BY <1>2, <2>4, <2>5 DEF part, d
  <1>3. CASE i # 2
    <2>1. d \in {"upid", "money", "gold", "ping", "location"} /\ part \in {<<Char(d)>>, << >>}
      BY <1>1, <1>3, DetailWords
    <2> DEFINE c == Char(d)
    <2>2. c \notin RowMarks /\ c \notin IpWords
      BY <2>1 DEF RowMarks, IpWords, Bar, Newline, Char, Byte
    <2>3. c \in T
      <3>1. d \in {"bar", "newline", "blank", "metadata", "PLAYER steam=",
                   "upid", "ip", "money", "gold", "ping", "location", "ipStatus=unavailable"}
        BY <2>1
      <3>2. c \in RowWords
        BY <3>1, Zenon DEF RowWords
      <3> QED
        BY <3>2
    <2>4. part = <<c>> \/ part = << >>
      BY <2>1
    <2> HIDE DEF c, part
    <2>5. Free(part, RowMarks) /\ Free(part, IpWords)
      BY <2>2, <2>4, FreeOne, Zenon
    <2>6. <<c>> \in Seq(T) /\ << >> \in Seq(T)
      BY <2>3
    <2>7. part \in Seq(T)
      BY <2>4, <2>6, Zenon
    <2> QED
      BY <1>3, <2>5, <2>7 DEF part, d
  <1> QED
    BY <1>2, <1>3

\* The details of a player have no mark, and tell of the address once.
LEMMA DetailsOnce ==
    ASSUME NEW T, RowWords \subseteq T, NEW player
    PROVE  LET all == FlattenSeq([i \in DOMAIN Details |-> Detail(player, Details[i])])
           IN  all \in Seq(T) /\ Free(all, RowMarks) /\ Once(all, IpWords)
  <1> DEFINE U == Seq(T)
             parts == [i \in DOMAIN Details |-> Detail(player, Details[i])]
             all == FlattenSeq(parts)
  <1>1. DOMAIN Details = 1..6
    BY DEF Details
  <1>2. \A i \in 1..6 : Detail(player, Details[i]) \in U
    BY DetailParts
  <1>3. parts \in Seq(U) /\ Len(parts) = 6 /\ \A i \in 1..6 : parts[i] = Detail(player, Details[i])
    <2> HIDE DEF U
    <2> QED
      BY <1>1, <1>2
  <1> HIDE DEF parts
  <1>4. PICK joined : Joins(joined, parts, Len(parts), T)
    BY <1>3, JoinsExist
  <1>5. all = joined[6]
    BY <1>3, <1>4, FlattenJoins
  <1>6. /\ joined[0] = << >> /\ \A k \in 0..6 : joined[k] \in Seq(T)
        /\ \A k \in Nat : k < 6 => joined[k + 1] = joined[k] \o parts[k + 1]
    BY <1>3, <1>4, Zenon DEF Joins
  <1> DEFINE Fine(t, k) == Free(t, RowMarks) /\ IF k < 2 THEN Free(t, IpWords) ELSE Once(t, IpWords)
             P == {k \in Nat : k <= 6 => Fine(joined[k], k)}
  <1>7. 0 \in P
    <2>1. Free(joined[0], RowMarks) /\ Free(joined[0], IpWords)
      BY <1>6, FreeOne, Zenon
    <2> QED
      BY <2>1
  <1>8. ASSUME NEW k \in Nat, k < 6, k \in P PROVE k + 1 \in P
    <2> DEFINE a == joined[k]
               b == parts[k + 1]
    <2>1. k \in 0..6 /\ k + 1 \in 1..6 /\ k <= 6
      BY <1>8
    <2>2. a \in Seq(T) /\ b \in Seq(T) /\ joined[k + 1] = a \o b
      BY <1>2, <1>3, <1>6, <1>8, <2>1
    <2>3. /\ Free(b, RowMarks) /\ (k + 1 # 2 => Free(b, IpWords)) /\ (k + 1 = 2 => Once(b, IpWords))
      BY <1>3, <2>1, DetailParts
    <2>4. Fine(a, k)
      BY <1>8, <2>1
    <2> HIDE DEF a, b
    <2>5. /\ Free(a, RowMarks) /\ Free(b, RowMarks) => Free(a \o b, RowMarks)
          /\ Once(a, IpWords) /\ Free(b, IpWords) => Once(a \o b, IpWords)
          /\ Free(a, IpWords) /\ Once(b, IpWords) => Once(a \o b, IpWords)
          /\ Free(a, IpWords) /\ Free(b, IpWords) => Free(a \o b, IpWords)
      BY <2>2, FreeConcat, Zenon
    <2>6. Fine(a \o b, k + 1)
      <3>1. CASE k = 0
        BY <2>3, <2>4, <2>5, <3>1
      <3>2. CASE k = 1
        BY <2>3, <2>4, <2>5, <3>2
      <3>3. CASE k # 0 /\ k # 1
        <4>1. ~ k < 2 /\ ~ k + 1 < 2 /\ k + 1 # 2
          BY <3>3
        <4> QED
          BY <2>3, <2>4, <2>5, <4>1, Zenon
      <3> QED
        BY <3>1, <3>2, <3>3
    <2>7. k + 1 \in Nat
      OBVIOUS
    <2>8. Fine(joined[k + 1], k + 1)
      BY <2>2, <2>6, Zenon
    <2> HIDE DEF Fine
    <2> QED
      BY <2>7, <2>8
  <1>9. 6 \in P
    <2> HIDE DEF P
    <2> QED
      BY <1>7, <1>8, Induction
  <1>10. Free(all, RowMarks) /\ Once(all, IpWords) /\ all \in Seq(T)
    BY <1>5, <1>6, <1>9
  <1> QED
    BY <1>10 DEF parts

\* One behind another.
LEMMA PairIs ==
    ASSUME NEW T, NEW a \in T, NEW b \in T
    PROVE  <<a, b>> = <<a>> \o <<b>>
  <1> DEFINE one == <<a>>
             end == <<b>>
             both == <<a, b>>
  <1>1. one \in Seq(T) /\ Len(one) = 1 /\ one[1] = a
    OBVIOUS
  <1>2. end \in Seq(T) /\ Len(end) = 1 /\ end[1] = b
    OBVIOUS
  <1>3. both \in Seq(T) /\ Len(both) = 2 /\ both[1] = a /\ both[2] = b
    OBVIOUS
  <1> HIDE DEF one, end, both
  <1>4. Len(both) = Len(one) + Len(end)
    BY <1>1, <1>2, <1>3
  <1>5. \A i \in 1..Len(one) : both[i] = one[i]
    BY <1>1, <1>3
  <1>6. \A i \in 1..Len(end) : both[Len(one) + i] = end[i]
    BY <1>1, <1>2, <1>3
  <1>7. both = one \o end
    BY <1>1, <1>2, <1>3, <1>4, <1>5, <1>6, ConcatIs
  <1> QED
    BY <1>7 DEF one, end, both

\* What a client reads of a player in a line.
PlayerRead(player, line) ==
    LET columns == Split(line, Bar)
    IN  /\ Len(columns) = 3 /\ columns[3] = << >>
        /\ columns[1][2] = Char(player.id)
        /\ \E k \in DOMAIN columns[1] : \A l \in DOMAIN columns[1] :
            columns[1][l] \in IpWords <=> l = k
        /\ Shown(columns[2], player.name)

\* The line of a player, without its end.
PlayerBody(player) ==
    (((<<Char("PLAYER steam="), Char(player.id)>>
       \o FlattenSeq([i \in DOMAIN Details |-> Detail(player, Details[i])]))
      \o <<Bar>>) \o Field(player.name)) \o <<Bar>>

\* Each player is read in his line.
LEMMA PlayerLine ==
    ASSUME NEW T, RowWords \subseteq T, NEW player, IsWord(player.id), Char(player.id) \in T,
           IsWhole(player.name), player.name \in Seq(T)
    PROVE  /\ PlayerBody(player) \in Seq(T) /\ ~ Marks(PlayerBody(player), Newline)
           /\ PlayerRow(player) = PlayerBody(player) \o <<Newline>>
           /\ PlayerRead(player, PlayerBody(player))
  <1> DEFINE x == Char("PLAYER steam=")
             y == Char(player.id)
             words == <<x, y>>
             all == FlattenSeq([i \in DOMAIN Details |-> Detail(player, Details[i])])
             name == Field(player.name)
             head == words \o all
             body == ((head \o <<Bar>>) \o name) \o <<Bar>>
  <1>1. all \in Seq(T) /\ Free(all, RowMarks) /\ Once(all, IpWords)
    BY DetailsOnce
  <1>2. /\ name \in Seq(T) /\ Shown(name, player.name) /\ ~ Marks(name, Bar)
        /\ ~ Marks(name, Newline)
    BY FieldShows
  <1>3. Bar \in T /\ Newline \in T /\ Bar # Newline
    BY MarksApart
  <1>4. x \in T /\ y \in T
    BY DEF RowWords
  <1>5. /\ x \notin RowMarks /\ y \notin RowMarks /\ x \notin IpWords /\ y \notin IpWords
    BY DEF IsWord, RowMarks, IpWords, Bar, Newline, Char, Byte
  <1> HIDE DEF x, y, all, name
  <1>6. words \in Seq(T) /\ Len(words) = 2 /\ words[2] = y /\ \A i \in 1..2 : words[i] \in {x, y}
    BY <1>4
  <1> HIDE DEF words
  <1>7. Free(words, RowMarks) /\ Free(words, IpWords)
    BY <1>5, <1>6 DEF Free
  <1>8. /\ head \in Seq(T) /\ Free(head, RowMarks) /\ Once(head, IpWords) /\ head[2] = y
    <2>1. head \in Seq(T) /\ \A i \in 1..Len(words) : head[i] = words[i]
      <3>1. words \in Seq(T) /\ all \in Seq(T)
        BY <1>1, <1>6
      <3>2. head \in Seq(T)
        BY <3>1, ConcatParts, Zenon
      <3>3. \A i \in 1..Len(words) : head[i] = words[i]
        BY <3>1, ConcatParts
      <3> QED
        BY <3>2, <3>3
    <2>2. Free(head, RowMarks)
      BY <1>1, <1>6, <1>7, FreeConcat, Zenon
    <2>3. Once(head, IpWords)
      BY <1>1, <1>6, <1>7, FreeConcat, Zenon
    <2>4. head[2] = y
      <3> HIDE DEF head
      <3>1. 2 \in 1..Len(words)
        BY <1>6
      <3> QED
        BY <1>6, <2>1, <3>1, Zenon
    <2> QED
      BY <2>1, <2>2, <2>3, <2>4
  <1> HIDE DEF head
  <1>9. ~ Marks(head, Bar) /\ ~ Marks(head, Newline)
    BY <1>8, FreeMarks DEF RowMarks
  <1> DEFINE one == <<Bar>>
             end == <<Newline>>
             both == <<Bar, Newline>>
             none == << >>
  <1>10. /\ one \in Seq(T) /\ end \in Seq(T) /\ both \in Seq(T) /\ none \in Seq(T)
         /\ both = one \o end
    <2>1. one \in Seq(T) /\ end \in Seq(T) /\ both \in Seq(T) /\ none \in Seq(T)
      BY <1>3
    <2>2. both = one \o end
      BY <1>3, PairIs
    <2> QED
      BY <2>1, <2>2, Zenon
  <1>11. ~ Marks(one, Newline) /\ ~ Marks(none, Bar)
    BY <1>3 DEF Marks
  <1> HIDE DEF one, end, both, none
  <1>12. body \in Seq(T) /\ ~ Marks(body, Newline)
    <2>1. \A a, b \in Seq(T) : ~ Marks(a, Newline) /\ ~ Marks(b, Newline) => ~ Marks(a \o b, Newline)
      <3> SUFFICES ASSUME NEW a \in Seq(T), NEW b \in Seq(T), ~ Marks(a, Newline), ~ Marks(b, Newline)
                   PROVE  ~ Marks(a \o b, Newline)
        OBVIOUS
      <3>1. Free(a, {Newline}) /\ Free(b, {Newline})
        BY DEF Free, Marks
      <3>2. Free(a \o b, {Newline})
        BY <3>1, FreeConcat, Zenon
      <3> QED
        BY <3>2, FreeMarks
    <2>2. head \o one \in Seq(T) /\ (head \o one) \o name \in Seq(T) /\ body \in Seq(T)
      BY <1>2, <1>8, <1>10 DEF one
    <2>3. ~ Marks(head \o one, Newline)
      BY <1>8, <1>9, <1>10, <1>11, <2>1, Zenon
    <2>4. ~ Marks((head \o one) \o name, Newline)
      BY <1>2, <2>1, <2>2, <2>3, Zenon
    <2>5. ~ Marks(((head \o one) \o name) \o one, Newline)
      BY <1>10, <1>11, <2>1, <2>2, <2>4, Zenon
    <2> QED
      BY <2>2, <2>5 DEF one
  <1>13. PlayerRow(player) = body \o <<Newline>>
    <2>1. PlayerRow(player) = ((head \o one) \o name) \o both
      BY Zenon DEF PlayerRow, head, words, x, y, all, name, one, both
    <2>2. ((head \o one) \o name) \o (one \o end) = (((head \o one) \o name) \o one) \o end
      <3> DEFINE z == (head \o one) \o name
      <3>1. z \in Seq(T)
        BY <1>2, <1>8, <1>10
      <3>2. one \in Seq(T) /\ end \in Seq(T)
        BY <1>10
      <3> HIDE DEF z
      <3>3. (z \o one) \o end = z \o (one \o end)
        BY <3>1, <3>2, Concat
      <3> QED
        BY <3>3, Zenon DEF z
    <2> QED
      BY <1>10, <2>1, <2>2, Zenon DEF one, end
  <1>14. Split(body, Bar) = <<head, name, << >>>>
    <2>1. Split((((head \o <<Bar>>) \o name) \o <<Bar>>) \o none, Bar) = <<head, name, none>>
      BY <1>2, <1>3, <1>8, <1>9, <1>10, <1>11, SplitThree
    <2>2. body \o none = body
      BY <1>12 DEF none
    <2> QED
      BY <2>1, <2>2 DEF none
  <1> HIDE DEF body
  <1>15. /\ Len(Split(body, Bar)) = 3 /\ Split(body, Bar)[1] = head
         /\ Split(body, Bar)[2] = name /\ Split(body, Bar)[3] = << >>
    <2> DEFINE columns == Split(body, Bar)
    <2>1. columns = <<head, name, << >>>>
      BY <1>14, Zenon
    <2> HIDE DEF columns
    <2>2. /\ Len(columns) = 3 /\ columns[1] = head /\ columns[2] = name /\ columns[3] = << >>
      BY <2>1
    <2> QED
      BY <2>2, Zenon DEF columns
  <1>16. \E k \in DOMAIN head : \A l \in DOMAIN head : head[l] \in IpWords <=> l = k
    <2>1. DOMAIN head = 1..Len(head)
      BY <1>8
    <2>2. PICK k \in 1..Len(head) : \A l \in 1..Len(head) : head[l] \in IpWords <=> l = k
      BY <1>8, Zenon DEF Once
    <2>3. k \in DOMAIN head /\ \A l \in DOMAIN head : head[l] \in IpWords <=> l = k
      BY <2>1, <2>2
    <2> QED
      BY <2>3
  <1>17. PlayerRead(player, body)
    BY <1>2, <1>8, <1>15, <1>16, Zenon DEF PlayerRead, y
  <1>18. PlayerBody(player) = body
    BY Zenon DEF PlayerBody, body, head, words, x, y, all, name
  <1> QED
    BY <1>12, <1>13, <1>17, <1>18, Zenon

\* The lines of a list are these, and nothing behind them.
LinesAre(list, n, bodies) ==
    /\ Len(Split(list, Newline)) = n + 1 /\ Last(Split(list, Newline)) = << >>
    /\ \A i \in 1..n : Split(list, Newline)[i] = bodies[i]

\* Rows put together are read line by line.
LEMMA LinesRead ==
    ASSUME NEW T, Newline \in T, NEW n \in Nat,
           NEW bodies \in [1..n -> Seq(T)], NEW rows \in [1..n -> Seq(T)],
           \A i \in 1..n : ~ Marks(bodies[i], Newline) /\ rows[i] = bodies[i] \o <<Newline>>
    PROVE  LinesAre(FlattenSeq(rows), n, bodies)
  <1> DEFINE U == Seq(T)
             lines == Split(FlattenSeq(rows), Newline)
  <1>1. bodies \in Seq(U) /\ rows \in Seq(U) /\ Len(bodies) = n /\ Len(rows) = n /\ << >> \in U
    <2>1. << >> \in U
      OBVIOUS
    <2> HIDE DEF U
    <2>2. bodies \in [1..n -> U] /\ rows \in [1..n -> U]
      BY DEF U
    <2> QED
      BY <2>1, <2>2
  <1>2. lines = Append(bodies, << >>)
    <2>1. Len(rows) = Len(bodies)
      BY <1>1
    <2>2. \A i \in 1..Len(bodies) : ~ Marks(bodies[i], Newline) /\ rows[i] = bodies[i] \o <<Newline>>
      BY <1>1
    <2>3. bodies \in Seq(Seq(T)) /\ rows \in Seq(Seq(T))
      BY <1>1
    <2> QED
      BY <2>1, <2>2, <2>3, SplitRows
  <1> HIDE DEF U, lines
  <1>3. lines \in Seq(U) /\ Len(lines) = n + 1
    BY <1>1, <1>2
  <1>4. lines[n + 1] = << >>
    BY <1>1, <1>2, AppendParts
  <1>5. \A i \in 1..n : lines[i] = bodies[i]
    BY <1>1, <1>2, AppendParts
  <1>6. Last(lines) = << >>
    BY <1>3, <1>4 DEF Last
  <1> QED
    BY <1>3, <1>5, <1>6, Zenon DEF LinesAre, lines

\* A text of its own symbols is one of more symbols.
LEMMA Wider ==
    ASSUME NEW t, t \in Seq(Range(t)), NEW T, Range(t) \subseteq T
    PROVE  t \in Seq(T)
  <1> DEFINE S == Range(t)
  <1>1. t \in Seq(S) /\ S \subseteq T
    OBVIOUS
  <1> HIDE DEF S
  <1> QED
    BY <1>1

\* What a client reads in a list of players.
ListRead(players, list) ==
    /\ Len(Split(list, Newline)) = Len(players) + 1 /\ Last(Split(list, Newline)) = << >>
    /\ \A i \in DOMAIN players : PlayerRead(players[i], Split(list, Newline)[i])

LEMMA PlayersRead ==
    ASSUME NEW S, \A p \in S : IsWord(p.id) /\ IsWhole(p.name), NEW players \in Seq(S)
    PROVE  ListRead(players, FlattenSeq([i \in DOMAIN players |-> PlayerRow(players[i])]))
  <1> DEFINE n == Len(players)
             T == (RowWords \cup {Char(p.id) : p \in S}) \cup UNION {Range(p.name) : p \in S}
             rows == [i \in DOMAIN players |-> PlayerRow(players[i])]
             bodies == [i \in 1..n |-> PlayerBody(players[i])]
  <1>1. n \in Nat /\ DOMAIN players = 1..n /\ \A i \in 1..n : players[i] \in S
    OBVIOUS
  <1>2. RowWords \subseteq T /\ \A p \in S : Char(p.id) \in T /\ Range(p.name) \subseteq T
    BY Zenon
  <1>3. Newline \in T
    BY <1>2, MarksApart
  <1> HIDE DEF T, n
  <1>4. ASSUME NEW p \in S
        PROVE  /\ PlayerBody(p) \in Seq(T) /\ ~ Marks(PlayerBody(p), Newline)
               /\ PlayerRow(p) = PlayerBody(p) \o <<Newline>>
               /\ PlayerRead(p, PlayerBody(p))
    <2>1. p.name \in Seq(T)
      BY <1>2, Wider DEF IsWhole
    <2> QED
      BY <1>2, <2>1, PlayerLine
  <1>5. ASSUME NEW p \in S PROVE PlayerRow(p) \in Seq(T)
    <2> DEFINE body == PlayerBody(p)
    <2>1. body \in Seq(T) /\ PlayerRow(p) = body \o <<Newline>>
      BY <1>4
    <2> HIDE DEF body
    <2> QED
      BY <1>3, <2>1
  <1>6. /\ bodies \in [1..n -> Seq(T)] /\ rows \in [1..n -> Seq(T)]
        /\ \A i \in 1..n : bodies[i] = PlayerBody(players[i]) /\ rows[i] = PlayerRow(players[i])
    <2> DEFINE U == Seq(T)
    <2>1. \A i \in 1..n : PlayerBody(players[i]) \in U /\ PlayerRow(players[i]) \in U
      BY <1>1, <1>4, <1>5
    <2> HIDE DEF U
    <2>2. /\ bodies \in [1..n -> U] /\ rows \in [1..n -> U]
          /\ \A i \in 1..n : bodies[i] = PlayerBody(players[i]) /\ rows[i] = PlayerRow(players[i])
      BY <1>1, <2>1
    <2> QED
      BY <2>2 DEF U
  <1> HIDE DEF rows, bodies
  <1>7. \A i \in 1..n : ~ Marks(bodies[i], Newline) /\ rows[i] = bodies[i] \o <<Newline>>
    BY <1>1, <1>4, <1>6
  <1>8. LinesAre(FlattenSeq(rows), n, bodies)
    BY <1>1, <1>3, <1>6, <1>7, LinesRead
  <1> DEFINE list == FlattenSeq(rows)
  <1>9. \A i \in 1..n : PlayerRead(players[i], bodies[i])
    BY <1>1, <1>4, <1>6
  <1> HIDE DEF list
  <1>10. /\ Len(Split(list, Newline)) = n + 1 /\ Last(Split(list, Newline)) = << >>
         /\ \A i \in 1..n : Split(list, Newline)[i] = bodies[i]
    BY <1>8, Zenon DEF LinesAre, list
  <1>11. \A i \in DOMAIN players : PlayerRead(players[i], Split(list, Newline)[i])
    BY <1>1, <1>9, <1>10
  <1>12. ListRead(players, list)
    BY <1>10, <1>11, Zenon DEF ListRead, n
  <1> QED
    BY <1>12 DEF list, rows

\* What a client reads of a command in a line.
CommandRead(command, line) ==
    LET columns == Split(line, Bar)
    IN  /\ Len(columns) = 3 /\ columns[3] = <<Char(command.unsupported)>>
        /\ Shown(columns[1], command.verb)

\* The line of a command, without its end.
CommandBody(command) ==
    (((Field(command.verb) \o <<Bar>>) \o <<Char("metadata")>>) \o <<Bar>>)
    \o <<Char(command.unsupported)>>

\* Each command is read in its line.
LEMMA CommandLine ==
    ASSUME NEW T, RowWords \subseteq T, NEW command, IsWord(command.unsupported),
           Char(command.unsupported) \in T, IsWhole(command.verb), command.verb \in Seq(T)
    PROVE  /\ CommandBody(command) \in Seq(T) /\ ~ Marks(CommandBody(command), Newline)
           /\ CommandRow(command) = CommandBody(command) \o <<Newline>>
           /\ CommandRow(command) \in Seq(T)
           /\ CommandRead(command, CommandBody(command))
  <1> DEFINE x == Char("metadata")
             y == Char(command.unsupported)
             name == Field(command.verb)
             a == <<x>>
             b == <<y>>
             one == <<Bar>>
             end == <<Newline>>
             body == (((name \o one) \o a) \o one) \o b
  <1>1. /\ name \in Seq(T) /\ Shown(name, command.verb) /\ ~ Marks(name, Bar)
        /\ ~ Marks(name, Newline)
    BY FieldShows
  <1>2. Bar \in T /\ Newline \in T /\ Bar # Newline
    BY MarksApart
  <1>3. x \in T /\ y \in T
    BY DEF RowWords
  <1>4. x \notin RowMarks /\ y \notin RowMarks
    BY DEF IsWord, RowMarks, Bar, Newline, Char, Byte
  <1>5. /\ CommandRow(command) = body \o end
        /\ CommandBody(command) = body
    BY Zenon DEF CommandRow, CommandBody
  <1> HIDE DEF x, y, name
  <1>6. a \in Seq(T) /\ b \in Seq(T) /\ one \in Seq(T) /\ end \in Seq(T)
    BY <1>2, <1>3
  <1>7. Free(a, RowMarks) /\ Free(b, RowMarks)
    BY <1>4, FreeOne
  <1>8. Free(one, {Newline})
    BY <1>2, FreeOne
  <1> HIDE DEF a, b, end
  <1>9. /\ ~ Marks(a, Bar) /\ ~ Marks(b, Bar) /\ ~ Marks(a, Newline) /\ ~ Marks(b, Newline)
    BY <1>7, FreeMarks DEF RowMarks
  <1>10. Split(body, Bar) = <<name, a, b>>
    BY <1>1, <1>2, <1>6, <1>9, SplitThree
  <1> HIDE DEF one
  <1>11. body \in Seq(T)
    BY <1>1, <1>6
  <1>12. body \o end \in Seq(T)
    BY <1>6, <1>11
  <1>13. ~ Marks(body, Newline)
    <2> DEFINE X == {Newline}
    <2>1. Free(name, X) /\ Free(a, X) /\ Free(b, X) /\ Free(one, X)
      BY <1>1, <1>8, <1>9 DEF Free, Marks
    <2>2. Newline \in X
      OBVIOUS
    <2> HIDE DEF X
    <2>3. name \o one \in Seq(T) /\ (name \o one) \o a \in Seq(T) /\ ((name \o one) \o a) \o one \in Seq(T)
      BY <1>1, <1>6
    <2>4. Free(name \o one, X)
      BY <1>1, <1>6, <2>1, FreeConcat, Zenon
    <2>5. Free((name \o one) \o a, X)
      BY <1>6, <2>1, <2>3, <2>4, FreeConcat, Zenon
    <2>6. Free(((name \o one) \o a) \o one, X)
      BY <1>6, <2>1, <2>3, <2>5, FreeConcat, Zenon
    <2>7. Free(body, X)
      BY <1>6, <2>1, <2>3, <2>6, FreeConcat, Zenon
    <2> QED
      BY <2>2, <2>7, FreeMarks, Zenon
  <1> HIDE DEF body
  <1>14. CommandRead(command, body)
    <2> DEFINE columns == Split(body, Bar)
    <2>1. columns = <<name, a, b>>
      BY <1>10, Zenon
    <2> HIDE DEF columns
    <2>2. /\ Len(columns) = 3 /\ columns[1] = name /\ columns[3] = b
      BY <2>1
    <2>3. b = <<Char(command.unsupported)>>
      BY Zenon DEF b, y
    <2> QED
      BY <1>1, <2>2, <2>3, Zenon DEF columns, CommandRead
  <1> QED
    BY <1>5, <1>11, <1>12, <1>13, <1>14, Zenon DEF end

\* What a client reads in a list of commands.
CommandsIn(commands, list) ==
    /\ Len(Split(list, Newline)) = Len(commands) + 1 /\ Last(Split(list, Newline)) = << >>
    /\ \A i \in 1..Len(commands) : CommandRead(commands[i], Split(list, Newline)[i])

LEMMA CommandsRead ==
    ASSUME NEW S, \A c \in S : IsWord(c.unsupported) /\ IsWhole(c.verb), NEW commands \in Seq(S)
    PROVE  CommandsIn(commands, FlattenSeq([i \in DOMAIN commands |-> CommandRow(commands[i])]))
  <1> DEFINE n == Len(commands)
             T == (RowWords \cup {Char(c.unsupported) : c \in S}) \cup UNION {Range(c.verb) : c \in S}
             rows == [i \in DOMAIN commands |-> CommandRow(commands[i])]
             bodies == [i \in 1..n |-> CommandBody(commands[i])]
  <1>1. n \in Nat /\ DOMAIN commands = 1..n /\ \A i \in 1..n : commands[i] \in S
    OBVIOUS
  <1>2. RowWords \subseteq T /\ \A c \in S : Char(c.unsupported) \in T /\ Range(c.verb) \subseteq T
    BY Zenon
  <1>3. Newline \in T
    BY <1>2, MarksApart
  <1> HIDE DEF T, n
  <1>4. ASSUME NEW c \in S
        PROVE  /\ CommandBody(c) \in Seq(T) /\ ~ Marks(CommandBody(c), Newline)
               /\ CommandRow(c) = CommandBody(c) \o <<Newline>>
               /\ CommandRow(c) \in Seq(T)
               /\ CommandRead(c, CommandBody(c))
    <2>1. c.verb \in Seq(T)
      BY <1>2, Wider DEF IsWhole
    <2> QED
      BY <1>2, <2>1, CommandLine
  <1>5. /\ bodies \in [1..n -> Seq(T)] /\ rows \in [1..n -> Seq(T)]
        /\ \A i \in 1..n : bodies[i] = CommandBody(commands[i]) /\ rows[i] = CommandRow(commands[i])
    <2> DEFINE U == Seq(T)
    <2>1. \A i \in 1..n : CommandBody(commands[i]) \in U /\ CommandRow(commands[i]) \in U
      BY <1>1, <1>4
    <2> HIDE DEF U
    <2>2. /\ bodies \in [1..n -> U] /\ rows \in [1..n -> U]
          /\ \A i \in 1..n : bodies[i] = CommandBody(commands[i]) /\ rows[i] = CommandRow(commands[i])
      BY <1>1, <2>1
    <2> QED
      BY <2>2 DEF U
  <1> HIDE DEF rows, bodies
  <1>6. \A i \in 1..n : ~ Marks(bodies[i], Newline) /\ rows[i] = bodies[i] \o <<Newline>>
    BY <1>1, <1>4, <1>5
  <1>7. LinesAre(FlattenSeq(rows), n, bodies)
    BY <1>1, <1>3, <1>5, <1>6, LinesRead
  <1> DEFINE list == FlattenSeq(rows)
  <1>8. \A i \in 1..n : CommandRead(commands[i], bodies[i])
    BY <1>1, <1>4, <1>5
  <1> HIDE DEF list
  <1>9. /\ Len(Split(list, Newline)) = n + 1 /\ Last(Split(list, Newline)) = << >>
        /\ \A i \in 1..n : Split(list, Newline)[i] = bodies[i]
    BY <1>7, Zenon DEF LinesAre, list
  <1>10. \A i \in 1..n : CommandRead(commands[i], Split(list, Newline)[i])
    BY <1>8, <1>9
  <1>11. CommandsIn(commands, list)
    BY <1>9, <1>10, Zenon DEF CommandsIn, n
  <1> QED
    BY <1>11 DEF list, rows

\* Where the commands found stand among the first n entries: in their order, all
\* that match, and no other.
Places(places, found, entries, filter, n) ==
    /\ places \in [1..Len(found) -> 1..n]
    /\ \A i, k \in 1..Len(found) : i < k => places[i] < places[k]
    /\ \A e \in 1..n :
        Finds(entries[e].verb, filter) <=> \E i \in 1..Len(found) : places[i] = e
    /\ \A i \in 1..Len(found) : found[i] = entries[places[i]]

\* One entry more that does not match.
LEMMA PlacesSame ==
    ASSUME NEW found, Len(found) \in Nat, NEW entries, NEW filter, NEW n \in Nat, NEW places,
           Places(places, found, entries, filter, n), ~ Finds(entries[n + 1].verb, filter)
    PROVE  Places(places, found, entries, filter, n + 1)
  <1> DEFINE m == Len(found)
             F(e) == Finds(entries[e].verb, filter)
  <1>1. /\ places \in [1..m -> 1..n] /\ m \in Nat
        /\ \A i, k \in 1..m : i < k => places[i] < places[k]
        /\ \A e \in 1..n : F(e) <=> \E i \in 1..m : places[i] = e
        /\ \A i \in 1..m : found[i] = entries[places[i]]
    BY Zenon DEF Places
  <1>2. ~ F(n + 1)
    OBVIOUS
  <1> HIDE DEF m, F
  <1>3. places \in [1..m -> 1..(n + 1)]
    BY <1>1
  <1>4. ASSUME NEW e \in 1..(n + 1)
        PROVE  F(e) <=> \E i \in 1..m : places[i] = e
    <2>1. e \in 1..n \/ e = n + 1
      OBVIOUS
    <2>2. \A i \in 1..m : places[i] # n + 1
      BY <1>1
    <2> QED
      BY <1>1, <1>2, <2>1, <2>2
  <1> QED
    BY <1>1, <1>3, <1>4, Zenon DEF Places, m, F

\* One that does.
LEMMA PlacesMore ==
    ASSUME NEW T, NEW found \in Seq(T), NEW entries, NEW filter, NEW n \in Nat, NEW places,
           entries[n + 1] \in T,
           Places(places, found, entries, filter, n), Finds(entries[n + 1].verb, filter)
    PROVE  \E more : Places(more, Append(found, entries[n + 1]), entries, filter, n + 1)
  <1> DEFINE m == Len(found)
             last == entries[n + 1]
             all == Append(found, last)
             F(e) == Finds(entries[e].verb, filter)
             more == [i \in 1..(m + 1) |-> IF i = m + 1 THEN n + 1 ELSE places[i]]
  <1>1. /\ places \in [1..m -> 1..n] /\ m \in Nat
        /\ \A i, k \in 1..m : i < k => places[i] < places[k]
        /\ \A e \in 1..n : F(e) <=> \E i \in 1..m : places[i] = e
        /\ \A i \in 1..m : found[i] = entries[places[i]]
    <2>1. m \in Nat
      OBVIOUS
    <2> QED
      BY <2>1, Zenon DEF Places
  <1>2. F(n + 1)
    OBVIOUS
  <1>3. Len(all) = m + 1 /\ all[m + 1] = last /\ \A i \in 1..m : all[i] = found[i]
    BY AppendParts
  <1> HIDE DEF m, F, all
  <1>4. /\ more \in [1..(m + 1) -> 1..(n + 1)] /\ more[m + 1] = n + 1
        /\ \A i \in 1..m : i \in 1..(m + 1) /\ i # m + 1 /\ more[i] = places[i]
    BY <1>1
  <1>5. \A i \in 1..(m + 1) : i \in 1..m \/ i = m + 1
    BY <1>1
  <1> HIDE DEF more
  <1>6. ASSUME NEW i \in 1..(m + 1), NEW k \in 1..(m + 1), i < k PROVE more[i] < more[k]
    <2>1. i \in 1..m
      BY <1>1, <1>6
    <2>2. CASE k \in 1..m
      BY <1>1, <1>4, <1>6, <2>1, <2>2
    <2>3. CASE k = m + 1
      BY <1>1, <1>4, <2>1, <2>3
    <2> QED
      BY <1>5, <2>2, <2>3
  <1>7. ASSUME NEW e \in 1..(n + 1)
        PROVE  F(e) <=> \E i \in 1..(m + 1) : more[i] = e
    <2>1. CASE e = n + 1
      <3>1. m + 1 \in 1..(m + 1)
        BY <1>1
      <3> QED
        BY <1>2, <1>4, <2>1, <3>1
    <2>2. CASE e # n + 1
      <3>1. e \in 1..n
        BY <2>2
      <3>2. F(e) <=> \E i \in 1..m : places[i] = e
        BY <1>1, <3>1
      <3> QED
        BY <1>4, <1>5, <2>2, <3>2
    <2> QED
      BY <2>1, <2>2
  <1>8. ASSUME NEW i \in 1..(m + 1) PROVE all[i] = entries[more[i]]
    <2>1. CASE i = m + 1
      BY <1>3, <1>4, <2>1
    <2>2. CASE i \in 1..m
      BY <1>1, <1>3, <1>4, <2>2
    <2> QED
      BY <1>5, <2>1, <2>2
  <1> HIDE DEF last
  <1>9. Places(more, all, entries, filter, n + 1)
    BY <1>3, <1>4, <1>6, <1>7, <1>8, Zenon DEF Places, F
  <1> QED
    BY <1>9 DEF all, last

\* Listed are the entries that match, in their order.
LEMMA MatchingIs ==
    ASSUME NEW S, NEW entries \in Seq(S), NEW filter
    PROVE  /\ Matching(entries, filter) \in Seq(S)
           /\ \E places : Places(places, Matching(entries, filter), entries, filter, Len(entries))
  <1> DEFINE U == Seq(S)
             n == Len(entries)
             one(i) == <<entries[i]>>
             F(i) == Finds(entries[i].verb, filter)
             parts == [i \in DOMAIN entries |-> IF F(i) THEN one(i) ELSE << >>]
  <1>1. n \in Nat /\ DOMAIN entries = 1..n /\ \A i \in 1..n : entries[i] \in S
    OBVIOUS
  <1>2. Matching(entries, filter) = FlattenSeq(parts)
    BY Zenon DEF Matching
  <1>3. << >> \in U /\ \A i \in 1..n : one(i) \in U
    BY <1>1
  <1> HIDE DEF U, n, one, F
  <1>4. /\ parts \in Seq(U) /\ Len(parts) = n
        /\ \A i \in 1..n : parts[i] = IF F(i) THEN one(i) ELSE << >>
    BY <1>1, <1>3
  <1> HIDE DEF parts
  <1>5. parts \in Seq(Seq(S))
    BY <1>4 DEF U
  <1>6. FlattenSeq(parts) \in Seq(S)
    BY <1>5, FlattenType
  <1>7. PICK joined : Joins(joined, parts, Len(parts), S)
    BY <1>5, JoinsExist
  <1>8. FlattenSeq(parts) = joined[n]
    BY <1>4, <1>5, <1>7, FlattenJoins
  <1>9. /\ joined[0] = << >> /\ \A k \in 0..n : joined[k] \in Seq(S)
        /\ \A k \in Nat : k < n => joined[k + 1] = joined[k] \o parts[k + 1]
    BY <1>4, <1>7, Zenon DEF Joins
  <1> DEFINE P == {k \in Nat : k <= n => \E places : Places(places, joined[k], entries, filter, k)}
  <1>10. 0 \in P
    <2> DEFINE none == << >>
    <2>1. none \in [1..0 -> 1..0] /\ Len(none) = 0 /\ \A i \in 1..0 : FALSE
      OBVIOUS
    <2> HIDE DEF none
    <2>2. Places(none, none, entries, filter, 0)
      BY <2>1 DEF Places
    <2>3. joined[0] = none
      BY <1>9 DEF none
    <2> QED
      BY <2>2, <2>3
  <1>11. ASSUME NEW k \in Nat, k < n, k \in P PROVE k + 1 \in P
    <2> DEFINE found == joined[k]
               entry == entries[k + 1]
    <2>1. k \in 0..n /\ k + 1 \in 1..n /\ k <= n
      BY <1>1, <1>11
    <2>2. PICK places : Places(places, found, entries, filter, k)
      BY <1>11, <2>1
    <2>3. found \in Seq(S) /\ entry \in S /\ joined[k + 1] = found \o parts[k + 1]
      BY <1>1, <1>9, <1>11, <2>1
    <2>4. parts[k + 1] = IF F(k + 1) THEN <<entry>> ELSE << >>
      BY <1>4, <2>1 DEF one
    <2> HIDE DEF found, entry
    <2>5. found \o << >> = found /\ found \o <<entry>> = Append(found, entry) /\ Len(found) \in Nat
      BY <2>3
    <2>6. CASE F(k + 1)
      <3>1. joined[k + 1] = Append(found, entry)
        BY <2>3, <2>4, <2>5, <2>6
      <3>2. \E more : Places(more, Append(found, entry), entries, filter, k + 1)
        <4>1. entries[k + 1] \in S /\ Finds(entries[k + 1].verb, filter)
          BY <2>3, <2>6 DEF entry, F
        <4>2. \E more : Places(more, Append(found, entries[k + 1]), entries, filter, k + 1)
          BY <2>2, <2>3, <4>1, PlacesMore, Zenon
        <4> QED
          BY <4>2 DEF entry
      <3>3. \E more : Places(more, joined[k + 1], entries, filter, k + 1)
        BY <3>1, <3>2
      <3> QED
        BY <3>3
    <2>7. CASE ~ F(k + 1)
      <3>1. joined[k + 1] = found
        BY <2>3, <2>4, <2>5, <2>7
      <3>2. Places(places, found, entries, filter, k + 1)
        BY <2>2, <2>5, <2>7, PlacesSame DEF F
      <3> QED
        BY <3>1, <3>2
    <2> QED
      BY <2>6, <2>7
  <1>12. n \in P
    <2> HIDE DEF P
    <2> QED
      BY <1>1, <1>10, <1>11, Induction
  <1>13. \E places : Places(places, FlattenSeq(parts), entries, filter, n)
    BY <1>1, <1>8, <1>12
  <1> QED
    BY <1>2, <1>6, <1>13, Zenon DEF n

\* A list of players of the game is read as what it lists.
LEMMA ListIsRead ==
    ASSUME NEW players \in PlayerLists, players # << >>, NEW list \in PlayerList(players)
    PROVE  ListRead(players, list)
  <1> DEFINE S == Range(players)
  <1>1. players \in Seq(S) /\ \A i \in DOMAIN players : IsWord(players[i].id) /\ IsWhole(players[i].name)
    BY InputsAssumption, Zenon
  <1>2. \A p \in S : IsWord(p.id) /\ IsWhole(p.name)
    BY <1>1, Zenon DEF Range
  <1> HIDE DEF S
  <1>3. list = FlattenSeq([i \in DOMAIN players |-> PlayerRow(players[i])])
    BY DEF PlayerList
  <1> QED
    BY <1>1, <1>2, <1>3, PlayersRead

\* A client finds the commands that match, each once and in their order.
CatalogueRead(of, answer) ==
    LET lines == Split(answer.rows, Newline)
    IN  /\ Len(lines) = answer.matched + 1 /\ Last(lines) = << >>
        /\ \E places \in [1..answer.matched -> DOMAIN of.entries] :
            /\ \A i, k \in 1..answer.matched : i < k => places[i] < places[k]
            /\ \A e \in DOMAIN of.entries :
                Finds(of.entries[e].verb, of.filter)
                <=> \E i \in 1..answer.matched : places[i] = e
            /\ \A i \in 1..answer.matched :
                LET columns == Split(lines[i], Bar) command == of.entries[places[i]]
                IN  /\ Len(columns) = 3 /\ columns[3] = <<Char(command.unsupported)>>
                    /\ Shown(columns[1], command.verb)
        /\ answer.total = Len(of.entries)

LEMMA CatalogueIsRead ==
    ASSUME NEW of \in CatalogueInputs
    PROVE  CatalogueRead(of, Catalogue(of.entries, of.filter))
  <1> DEFINE entries == of.entries
             filter == of.filter
             S == Range(entries)
             commands == Matching(entries, filter)
             list == FlattenSeq([i \in DOMAIN commands |-> CommandRow(commands[i])])
             n == Len(commands)
             answer == Catalogue(entries, filter)
  <1>1. /\ entries \in Seq(S)
        /\ \A i \in DOMAIN entries : IsWord(entries[i].unsupported) /\ IsWhole(entries[i].verb)
    BY InputsAssumption, Zenon
  <1>2. answer = [rows |-> list, matched |-> n, total |-> Len(entries)]
    BY Zenon DEF Catalogue
  <1>3. \A c \in S : IsWord(c.unsupported) /\ IsWhole(c.verb)
    BY <1>1, Zenon DEF Range
  <1>4. DOMAIN entries = 1..Len(entries)
    <2> HIDE DEF S, entries
    <2> QED
      BY <1>1
  <1> HIDE DEF entries, filter, S
  <1>5. commands \in Seq(S)
    BY <1>1, MatchingIs
  <1>6. PICK places : Places(places, commands, entries, filter, Len(entries))
    BY <1>1, MatchingIs
  <1> HIDE DEF commands
  <1>7. CommandsIn(commands, list)
    BY <1>3, <1>5, CommandsRead, Zenon
  <1> HIDE DEF list, n
  <1>8. /\ Len(Split(list, Newline)) = n + 1 /\ Last(Split(list, Newline)) = << >>
        /\ \A i \in 1..n : CommandRead(commands[i], Split(list, Newline)[i])
    BY <1>7, Zenon DEF CommandsIn, n
  <1>9. /\ places \in [1..n -> DOMAIN entries]
        /\ \A i, k \in 1..n : i < k => places[i] < places[k]
        /\ \A e \in DOMAIN entries :
            Finds(entries[e].verb, filter) <=> \E i \in 1..n : places[i] = e
        /\ \A i \in 1..n : commands[i] = entries[places[i]]
    BY <1>4, <1>6, Zenon DEF Places, n
  <1>10. ASSUME NEW i \in 1..n
         PROVE  LET columns == Split(Split(list, Newline)[i], Bar)
                    command == entries[places[i]]
                IN  /\ Len(columns) = 3 /\ columns[3] = <<Char(command.unsupported)>>
                    /\ Shown(columns[1], command.verb)
    <2>1. CommandRead(entries[places[i]], Split(list, Newline)[i])
      BY <1>8, <1>9
    <2> QED
      BY <2>1, Zenon DEF CommandRead
  <1> HIDE DEF answer
  <1>11. answer.rows = list /\ answer.matched = n /\ answer.total = Len(entries)
    BY <1>2
  <1>12. CatalogueRead(of, answer)
    BY <1>8, <1>9, <1>10, <1>11, Zenon DEF CatalogueRead, entries, filter
  <1> QED
    BY <1>12 DEF answer, entries, filter

-----------------------------------------------------------------------------
(* The sweep of the disassembler *)

\* What an instruction refers to, and the lines of a sweep.
Operands == [relative : BOOLEAN, value : Int]
Lines == [offset : Nat, length : Nat, operands : Seq(Operands)]

\* Before the limit the disassembler sees at most one instruction at a place, of
\* at least a byte and at most those up to the limit.
Disassembles(bytes, limit) ==
    \A o \in Nat : o < limit => \A x \in Decode(bytes, o, limit) :
        /\ Decode(bytes, o, limit) = {x}
        /\ x.length \in Nat /\ x.length # 0 /\ o + x.length <= limit
        /\ x.operands \in Seq(Operands)

\* The line for an instruction.
LineOf(o, x) == [offset |-> o, length |-> x.length, operands |-> x.operands]

\* from lists what a sweep finds from each place of some on: nothing behind the
\* limit, and what it finds further on, behind the instruction if there is one.
Sweeps(from, bytes, first, last, limit) ==
    /\ \A o \in first..last : from[o] \in Seq(Lines)
    /\ \A o \in first..last : o >= limit => from[o] = << >>
    /\ \A o \in first..last : o < limit /\ Decode(bytes, o, limit) = {} => from[o] = from[o + 1]
    /\ \A o \in first..last : o < limit => \A x \in Decode(bytes, o, limit) :
        from[o] = <<LineOf(o, x)>> \o from[o + x.length]

\* The sweep is such a list.
LEMMA SweepRun ==
    ASSUME NEW bytes, Len(bytes) \in Nat, NEW first \in Nat, NEW limit \in Nat,
           limit <= Len(bytes), Disassembles(bytes, limit)
    PROVE  \E from : /\ Sweeps(from, bytes, first, first + Len(bytes), limit)
                     /\ Sweep(bytes, first, limit) = from[first]
  <1> DEFINE m == Len(bytes)
             top == first + m
             New(f, o) ==
                IF o >= limit THEN << >>
                ELSE IF Decode(bytes, o, limit) = {} THEN f[o + 1]
                ELSE LET i == CHOOSE x \in Decode(bytes, o, limit) : TRUE
                     IN  <<[offset |-> o, length |-> i.length, operands |-> i.operands]>>
                         \o f[o + i.length]
             Recurs(f) == f = [o \in first..top |-> New(f, o)]
             from == CHOOSE f : Recurs(f)
  <1>1. Sweep(bytes, first, limit) = from[first]
    BY DEF Sweep
  <1>2. m \in Nat /\ top \in Nat /\ limit <= m /\ top = first + m
    OBVIOUS
  <1>3. ASSUME NEW f, NEW o \in Nat
        PROVE  /\ o >= limit => New(f, o) = << >>
               /\ o < limit /\ Decode(bytes, o, limit) = {} => New(f, o) = f[o + 1]
               /\ o < limit => \A x \in Decode(bytes, o, limit) :
                    New(f, o) = <<LineOf(o, x)>> \o f[o + x.length]
    <2>1. o >= limit => New(f, o) = << >>
      OBVIOUS
    <2>2. o < limit /\ Decode(bytes, o, limit) = {} => New(f, o) = f[o + 1]
      BY <1>3
    <2>3. ASSUME o < limit, NEW x \in Decode(bytes, o, limit)
          PROVE  New(f, o) = <<LineOf(o, x)>> \o f[o + x.length]
      <3>1. Decode(bytes, o, limit) = {x}
        BY <1>3, <2>3 DEF Disassembles
      <3> DEFINE i == CHOOSE y \in Decode(bytes, o, limit) : TRUE
      <3>2. i = x
        BY <3>1
      <3>3. New(f, o) = <<LineOf(o, i)>> \o f[o + i.length]
        BY <1>3, <2>3 DEF LineOf
      <3> QED
        BY <3>2, <3>3
    <2> QED
      BY <2>1, <2>2, <2>3
  <1> HIDE DEF New, m, top
  <1>4. ASSUME NEW f, NEW o \in Nat, o <= top, o >= limit \/ o < top,
               \A p \in Nat : o < p /\ p <= top => f[p] \in Seq(Lines)
        PROVE  New(f, o) \in Seq(Lines)
    <2>1. CASE o >= limit
      <3>1. New(f, o) = << >>
        BY <1>3, <2>1
      <3>2. << >> \in Seq(Lines)
        OBVIOUS
      <3> QED
        BY <3>1, <3>2
    <2>2. CASE o < limit /\ Decode(bytes, o, limit) = {}
      <3>1. f[o + 1] \in Seq(Lines)
        BY <1>2, <1>4, <2>2
      <3> QED
        BY <1>3, <2>2, <3>1
    <2>3. CASE o < limit /\ Decode(bytes, o, limit) # {}
      <3>1. PICK x \in Decode(bytes, o, limit) : TRUE
        BY <2>3
      <3>2. x.length \in Nat /\ x.length # 0 /\ o + x.length <= limit /\ x.operands \in Seq(Operands)
        BY <1>4, <2>3, <3>1 DEF Disassembles
      <3>3. f[o + x.length] \in Seq(Lines)
        BY <1>2, <1>4, <3>2
      <3>4. LineOf(o, x) \in Lines
        BY <1>4, <3>2 DEF Lines, LineOf
      <3> DEFINE line == LineOf(o, x)
                 rest == f[o + x.length]
      <3>5. New(f, o) = <<line>> \o rest
        BY <1>3, <2>3, <3>1
      <3> HIDE DEF line, rest
      <3>6. <<line>> \o rest \in Seq(Lines)
        BY <3>3, <3>4 DEF line, rest
      <3> QED
        BY <3>5, <3>6
    <2> QED
      BY <1>4, <2>1, <2>2, <2>3
  <1>5. ASSUME NEW f, NEW g, NEW o \in Nat, o <= top,
               \A p \in Nat : o < p /\ p <= top => f[p] = g[p]
        PROVE  New(f, o) = New(g, o)
    <2>1. CASE o >= limit
      BY <1>3, <2>1
    <2>2. CASE o < limit /\ Decode(bytes, o, limit) = {}
      <3>1. f[o + 1] = g[o + 1]
        BY <1>2, <1>5, <2>2
      <3> QED
        BY <1>3, <2>2, <3>1
    <2>3. CASE o < limit /\ Decode(bytes, o, limit) # {}
      <3>1. PICK x \in Decode(bytes, o, limit) : TRUE
        BY <2>3
      <3>2. x.length \in Nat /\ x.length # 0 /\ o + x.length <= limit
        BY <1>5, <2>3, <3>1 DEF Disassembles
      <3>3. f[o + x.length] = g[o + x.length]
        BY <1>2, <1>5, <3>2
      <3> QED
        BY <1>3, <2>3, <3>1, <3>3
    <2> QED
      BY <1>5, <2>1, <2>2, <2>3
  <1> DEFINE Part(f, d) ==
                /\ f \in [(top - d)..top -> Seq(Lines)]
                /\ \A o \in (top - d)..top : f[o] = New(f, o)
             P == {d \in Nat : d <= m => \E f : Part(f, d)}
  <1>6. 0 \in P
    <2> DEFINE f == [o \in top..top |-> << >>]
    <2>1. f \in [(top - 0)..top -> Seq(Lines)]
      BY <1>2
    <2>2. ASSUME NEW o \in (top - 0)..top PROVE f[o] = New(f, o)
      <3>1. o = top /\ o >= limit /\ f[o] = << >>
        BY <1>2, <2>2
      <3> HIDE DEF f
      <3> QED
        BY <1>2, <1>3, <3>1
    <2>3. Part(f, 0)
      BY <2>1, <2>2
    <2> QED
      BY <2>3
  <1>7. ASSUME NEW d \in Nat, d < m, d \in P PROVE d + 1 \in P
    <2>1. PICK f : Part(f, d)
      BY <1>2, <1>7
    <2> DEFINE o == top - (d + 1)
               g == [p \in o..top |-> IF p = o THEN New(f, o) ELSE f[p]]
    <2>2. o \in Nat /\ o < top /\ o + 1 = top - d /\ top \in Nat
      BY <1>2, <1>7
    <2>3. \A p \in Nat : o < p /\ p <= top => f[p] \in Seq(Lines) /\ f[p] = New(f, p)
      BY <2>1, <2>2
    <2>4. New(f, o) \in Seq(Lines)
      BY <1>4, <2>2, <2>3
    <2> HIDE DEF o
    <2>5. g \in [o..top -> Seq(Lines)] /\ g[o] = New(f, o)
      BY <2>2, <2>3, <2>4
    <2>6. \A p \in Nat : o < p /\ p <= top => f[p] = g[p]
      BY <2>2
    <2> HIDE DEF g
    <2>7. ASSUME NEW p \in o..top PROVE g[p] = New(g, p)
      <3>1. p \in Nat /\ p <= top /\ \A q \in Nat : p < q /\ q <= top => f[q] = g[q]
        BY <2>2, <2>6, <2>7
      <3>2. New(f, p) = New(g, p)
        BY <1>5, <3>1
      <3>3. CASE p = o
        BY <2>5, <3>2, <3>3
      <3>4. CASE p # o
        BY <2>2, <2>3, <2>6, <2>7, <3>1, <3>2, <3>4
      <3> QED
        BY <3>3, <3>4
    <2>8. Part(g, d + 1)
      BY <2>5, <2>7 DEF o
    <2> HIDE DEF Part
    <2> QED
      BY <2>8
  <1>8. m \in P
    <2> HIDE DEF P
    <2> QED
      BY <1>2, <1>6, <1>7, Induction
  <1>9. PICK f : Part(f, m)
    BY <1>2, <1>8
  <1>10. top - m = first
    BY <1>2
  <1>11. Recurs(f)
    BY <1>9, <1>10
  <1>12. Recurs(from)
    <2> HIDE DEF Recurs
    <2> QED
      BY <1>11
  <1>13. \A o \in first..top : from[o] = New(from, o)
    BY <1>12
  <1> HIDE DEF from
  <1>14. ASSUME NEW o \in first..top PROVE from[o] \in Seq(Lines)
    <2> DEFINE Q == {d \in Nat : d <= m => \A p \in (top - d)..top : from[p] \in Seq(Lines)}
    <2>1. 0 \in Q
      <3>1. from[top] = New(from, top) /\ top >= limit
        BY <1>2, <1>13
      <3>2. from[top] = << >>
        BY <1>2, <1>3, <3>1
      <3>3. \A p \in (top - 0)..top : p = top
        BY <1>2
      <3>4. << >> \in Seq(Lines)
        OBVIOUS
      <3>5. \A p \in (top - 0)..top : from[p] \in Seq(Lines)
        BY <3>2, <3>3, <3>4
      <3> QED
        BY <3>5
    <2>2. ASSUME NEW d \in Nat, d < m, d \in Q PROVE d + 1 \in Q
      <3> DEFINE p == top - (d + 1)
      <3>1. p \in Nat /\ p < top /\ p \in first..top /\ p + 1 = top - d
        BY <1>2, <2>2
      <3>2. \A q \in Nat : p < q /\ q <= top => from[q] \in Seq(Lines)
        BY <1>2, <2>2, <3>1
      <3> HIDE DEF p
      <3>3. from[p] \in Seq(Lines)
        BY <1>4, <1>13, <3>1, <3>2
      <3>4. \A q \in p..top : q = p \/ (q \in Nat /\ p < q /\ q <= top)
        BY <1>2, <3>1
      <3>5. \A q \in p..top : from[q] \in Seq(Lines)
        BY <3>2, <3>3, <3>4
      <3> QED
        BY <3>5 DEF p
    <2>3. m \in Q
      <3> HIDE DEF Q
      <3> QED
        BY <1>2, <2>1, <2>2, Induction
    <2> QED
      BY <1>2, <1>10, <2>3
  <1>15. Sweeps(from, bytes, first, top, limit)
    <2>1. first..top \subseteq Nat
      BY <1>2
    <2> QED
      BY <1>3, <1>13, <1>14, <2>1 DEF Sweeps
  <1> QED
    BY <1>1, <1>15 DEF top, m

\* What a line consists of.
LEMMA LineFields ==
    ASSUME NEW lines \in Seq(Lines), NEW k \in 1..Len(lines)
    PROVE  /\ lines[k] \in Lines /\ lines[k].offset \in Nat /\ lines[k].length \in Nat
           /\ lines[k].operands \in Seq(Operands)
  <1>1. lines[k] \in Lines
    OBVIOUS
  <1>2. \A line \in Lines : line.offset \in Nat /\ line.length \in Nat /\ line.operands \in Seq(Operands)
    BY DEF Lines
  <1> QED
    BY <1>1, <1>2

\* The lines of a sweep from a place on are instructions one behind the other, and
\* there is no instruction between them.
InStep(lines, o, bytes, limit) ==
    /\ \A k \in 1..Len(lines) :
        /\ o <= lines[k].offset /\ lines[k].offset < limit
        /\ \E x \in Decode(bytes, lines[k].offset, limit) : lines[k] = LineOf(lines[k].offset, x)
    /\ \A k, l \in 1..Len(lines) : k < l => lines[k].offset + lines[k].length <= lines[l].offset
    /\ \A p \in o..(limit - 1) : Decode(bytes, p, limit) # {} =>
        \E k \in 1..Len(lines) : p \in lines[k].offset..(lines[k].offset + lines[k].length - 1)

\* Where there is no instruction the lines are those from the next place on.
LEMMA NoneInStep ==
    ASSUME NEW lines \in Seq(Lines), NEW o \in Nat, NEW bytes, NEW limit \in Nat,
           o < limit, Decode(bytes, o, limit) = {}, InStep(lines, o + 1, bytes, limit)
    PROVE  InStep(lines, o, bytes, limit)
  <1>1. \A k \in 1..Len(lines) : lines[k] \in Lines /\ lines[k].offset \in Nat
    BY LineFields
  <1>2. \A k \in 1..Len(lines) : o <= lines[k].offset
    BY <1>1 DEF InStep
  <1>3. ASSUME NEW p \in o..(limit - 1), Decode(bytes, p, limit) # {}
        PROVE  p \in (o + 1)..(limit - 1)
    BY <1>3
  <1> QED
    BY <1>2, <1>3 DEF InStep

\* An instruction stands before the lines from behind it on.
LEMMA OneInStep ==
    ASSUME NEW lines \in Seq(Lines), NEW o \in Nat, NEW bytes, NEW limit \in Nat, o < limit,
           Disassembles(bytes, limit), NEW x \in Decode(bytes, o, limit),
           InStep(lines, o + x.length, bytes, limit)
    PROVE  InStep(<<LineOf(o, x)>> \o lines, o, bytes, limit)
  <1> DEFINE line == LineOf(o, x)
             all == <<line>> \o lines
             n == x.length
  <1>1. n \in Nat /\ n # 0 /\ o + n <= limit /\ line \in Lines
    BY DEF Disassembles, LineOf, Lines
  <1>2. line.offset = o /\ line.length = n
    BY DEF LineOf
  <1>3. \A k \in 1..Len(lines) : lines[k] \in Lines /\ lines[k].offset \in Nat /\ lines[k].length \in Nat
    BY LineFields
  <1>4. line = LineOf(o, x)
    OBVIOUS
  <1> HIDE DEF line
  <1>5. /\ Len(all) = Len(lines) + 1 /\ all[1] = line /\ Len(lines) \in Nat
        /\ \A k \in 1..Len(lines) : all[k + 1] = lines[k]
    BY <1>1
  <1>6. \A k \in 1..Len(all) : k = 1 \/ (k - 1 \in 1..Len(lines) /\ all[k] = lines[k - 1])
    BY <1>5
  <1> HIDE DEF all
  <1>7. ASSUME NEW k \in 1..Len(lines)
        PROVE  /\ o + n <= lines[k].offset /\ lines[k].offset < limit
               /\ \E y \in Decode(bytes, lines[k].offset, limit) : lines[k] = LineOf(lines[k].offset, y)
    BY <1>7 DEF InStep
  <1>8. ASSUME NEW k \in 1..Len(all)
        PROVE  /\ o <= all[k].offset /\ all[k].offset < limit
               /\ \E y \in Decode(bytes, all[k].offset, limit) : all[k] = LineOf(all[k].offset, y)
    <2>1. CASE k = 1
      BY <1>2, <1>4, <1>5, <2>1
    <2>2. CASE k # 1
      <3>1. k - 1 \in 1..Len(lines) /\ all[k] = lines[k - 1] /\ lines[k - 1].offset \in Nat
        BY <1>3, <1>6, <2>2
      <3>2. o + n <= all[k].offset
        BY <1>7, <3>1
      <3> QED
        BY <1>1, <1>7, <3>1, <3>2
    <2> QED
      BY <2>1, <2>2
  <1>9. ASSUME NEW k \in 1..Len(all), NEW l \in 1..Len(all), k < l
        PROVE  all[k].offset + all[k].length <= all[l].offset
    <2>1. l - 1 \in 1..Len(lines) /\ all[l] = lines[l - 1]
      BY <1>5, <1>6, <1>9
    <2>2. CASE k = 1
      <3>1. o + n <= all[l].offset
        BY <1>7, <2>1
      <3> QED
        BY <1>2, <1>5, <2>2, <3>1
    <2>3. CASE k # 1
      <3>1. k - 1 \in 1..Len(lines) /\ all[k] = lines[k - 1] /\ k - 1 < l - 1
        BY <1>6, <1>9, <2>3
      <3> QED
        BY <2>1, <3>1 DEF InStep
    <2> QED
      BY <2>2, <2>3
  <1>10. ASSUME NEW p \in o..(limit - 1), Decode(bytes, p, limit) # {}
         PROVE  \E k \in 1..Len(all) : p \in all[k].offset..(all[k].offset + all[k].length - 1)
    <2>1. CASE p < o + n
      <3>1. p \in line.offset..(line.offset + line.length - 1)
        BY <1>1, <1>2, <2>1
      <3>2. 1 \in 1..Len(all)
        BY <1>5
      <3> QED
        BY <1>5, <3>1, <3>2
    <2>2. CASE p >= o + n
      <3>1. p \in (o + n)..(limit - 1)
        BY <1>1, <2>2
      <3>2. PICK k \in 1..Len(lines) : p \in lines[k].offset..(lines[k].offset + lines[k].length - 1)
        BY <1>10, <3>1 DEF InStep
      <3>3. k + 1 \in 1..Len(all) /\ all[k + 1] = lines[k]
        BY <1>5
      <3> QED
        BY <3>2, <3>3
    <2> QED
      BY <1>1, <2>1, <2>2
  <1> HIDE DEF n
  <1>11. InStep(all, o, bytes, limit)
    BY <1>8, <1>9, <1>10 DEF InStep
  <1> QED
    BY <1>11 DEF all, line

\* What holds behind the limit, and at a place if it does so at those behind it,
\* holds everywhere.
LEMMA Downwards ==
    ASSUME NEW first \in Nat, NEW last \in Nat, first <= last, NEW S, last \in S,
           \A o \in first..last : o < last /\ (\A p \in first..last : o < p => p \in S) => o \in S
    PROVE  first..last \subseteq S
  <1> DEFINE P == {d \in Nat : d <= last - first => \A p \in (last - d)..last : p \in S}
             n == last - first
  <1>1. n \in Nat
    OBVIOUS
  <1>2. 0 \in P
    <2>1. \A p \in (last - 0)..last : p = last
      OBVIOUS
    <2> QED
      BY <2>1
  <1>3. ASSUME NEW d \in Nat, d < n, d \in P PROVE d + 1 \in P
    <2> DEFINE o == last - (d + 1)
    <2>1. o \in first..last /\ o < last
      BY <1>1, <1>3
    <2>2. \A p \in first..last : o < p => p \in S
      BY <1>1, <1>3
    <2>3. o \in S
      BY <2>1, <2>2
    <2>4. \A p \in o..last : p = o \/ (p \in first..last /\ o < p)
      BY <2>1
    <2> HIDE DEF o
    <2>5. \A p \in o..last : p \in S
      BY <2>2, <2>3, <2>4
    <2> QED
      BY <2>5 DEF o
  <1>4. n \in P
    <2> HIDE DEF P, n
    <2> QED
      BY <1>1, <1>2, <1>3, Induction
  <1>5. \A p \in (last - n)..last : p \in S
    BY <1>1, <1>4
  <1> QED
    BY <1>5

\* Every sweep is in step.
LEMMA SweepInStep ==
    ASSUME NEW bytes, Len(bytes) \in Nat, NEW first \in Nat, NEW limit \in Nat,
           limit <= Len(bytes), Disassembles(bytes, limit)
    PROVE  /\ Sweep(bytes, first, limit) \in Seq(Lines)
           /\ InStep(Sweep(bytes, first, limit), first, bytes, limit)
  <1> DEFINE last == first + Len(bytes)
  <1>1. PICK from : /\ Sweeps(from, bytes, first, last, limit)
                    /\ Sweep(bytes, first, limit) = from[first]
    BY SweepRun
  <1>2. last \in Nat /\ first <= last /\ limit <= last /\ first \in first..last /\ last \in first..last
    OBVIOUS
  <1> HIDE DEF last
  <1> DEFINE S == {o \in first..last : InStep(from[o], o, bytes, limit)}
  <1>3. ASSUME NEW o \in first..last, o >= limit PROVE o \in S
    <2>1. from[o] = << >>
      BY <1>1, <1>3 DEF Sweeps
    <2>2. 1..Len(from[o]) = {}
      BY <2>1
    <2>3. o..(limit - 1) = {}
      BY <1>2, <1>3
    <2>4. InStep(from[o], o, bytes, limit)
      BY <2>2, <2>3 DEF InStep
    <2> QED
      BY <2>4
  <1>4. ASSUME NEW o \in first..last, o < last, \A p \in first..last : o < p => p \in S
        PROVE  o \in S
    <2>1. o \in Nat
      BY <1>2
    <2>2. CASE o < limit /\ Decode(bytes, o, limit) = {}
      <3>1. o + 1 \in first..last /\ o < o + 1
        BY <1>2, <1>4, <2>1
      <3>2. from[o] = from[o + 1] /\ from[o + 1] \in Seq(Lines)
        BY <1>1, <2>2, <3>1 DEF Sweeps
      <3>3. InStep(from[o + 1], o + 1, bytes, limit)
        BY <1>4, <3>1
      <3>4. InStep(from[o], o, bytes, limit)
        BY <2>1, <2>2, <3>2, <3>3, NoneInStep
      <3> QED
        BY <3>4
    <2>3. CASE o < limit /\ Decode(bytes, o, limit) # {}
      <3>1. PICK x \in Decode(bytes, o, limit) : TRUE
        BY <2>3
      <3>2. x.length \in Nat /\ x.length # 0 /\ o + x.length <= limit
        BY <2>1, <2>3, <3>1 DEF Disassembles
      <3>3. o + x.length \in first..last /\ o < o + x.length
        BY <1>2, <2>1, <3>2
      <3>4. from[o] = <<LineOf(o, x)>> \o from[o + x.length] /\ from[o + x.length] \in Seq(Lines)
        BY <1>1, <2>3, <3>1, <3>3 DEF Sweeps
      <3>5. InStep(from[o + x.length], o + x.length, bytes, limit)
        BY <1>4, <3>3
      <3>6. InStep(<<LineOf(o, x)>> \o from[o + x.length], o, bytes, limit)
        BY <2>1, <2>3, <3>1, <3>4, <3>5, OneInStep
      <3>7. InStep(from[o], o, bytes, limit)
        BY <3>4, <3>6
      <3> QED
        BY <3>7
    <2> QED
      BY <1>2, <1>3, <1>4, <2>1, <2>2, <2>3
  <1>5. first..last \subseteq S
    <2>1. last \in S
      BY <1>2, <1>3
    <2> HIDE DEF S
    <2> QED
      BY <1>2, <1>4, <2>1, Downwards
  <1>6. InStep(from[first], first, bytes, limit) /\ from[first] \in Seq(Lines)
    BY <1>1, <1>2, <1>5 DEF Sweeps
  <1> QED
    BY <1>1, <1>6

\* Where a sweep goes on behind a place.
Onward(bytes, o, limit) ==
    IF Decode(bytes, o, limit) = {} THEN {o + 1} ELSE {o + x.length : x \in Decode(bytes, o, limit)}

\* A place that every set has which has the start and goes on as the sweep does.
Reached(bytes, first, limit, o) ==
    \A S \in SUBSET (first..limit) :
        first \in S /\ (\A p \in S : p < limit => Onward(bytes, p, limit) \subseteq S) => o \in S

\* A line is there for each instruction the sweep comes to.
LineAt(lines, o) == \E k \in 1..Len(lines) : lines[k].offset = o

\* The places of the lines are those of instructions that a sweep comes to.
LEMMA SweepPlaces ==
    ASSUME NEW bytes, Len(bytes) \in Nat, NEW first \in Nat, NEW limit \in Nat,
           limit <= Len(bytes), first <= limit, Disassembles(bytes, limit), NEW o \in first..(limit - 1)
    PROVE  LineAt(Sweep(bytes, first, limit), o)
           <=> Decode(bytes, o, limit) # {} /\ Reached(bytes, first, limit, o)
  <1> DEFINE last == first + Len(bytes)
             swept == Sweep(bytes, first, limit)
             Closed(S) == first \in S /\ \A p \in S : p < limit => Onward(bytes, p, limit) \subseteq S
  <1>1. PICK from : Sweeps(from, bytes, first, last, limit) /\ swept = from[first]
    BY SweepRun
  <1>2. last \in Nat /\ first <= last /\ limit <= last /\ first \in first..last /\ last \in first..last
    OBVIOUS
  <1>3. swept \in Seq(Lines) /\ InStep(swept, first, bytes, limit)
    BY SweepInStep
  <1> HIDE DEF last, swept
  <1>4. ASSUME NEW p \in first..last, p < limit
        PROVE  /\ p \in Nat
               /\ Decode(bytes, p, limit) = {} =>
                    /\ Onward(bytes, p, limit) = {p + 1} /\ p + 1 \in first..limit
                    /\ p + 1 \in first..last /\ from[p] = from[p + 1]
               /\ \A x \in Decode(bytes, p, limit) :
                    /\ Onward(bytes, p, limit) = {p + x.length} /\ p + x.length \in first..limit
                    /\ p + x.length \in first..last /\ p < p + x.length
                    /\ from[p] = <<LineOf(p, x)>> \o from[p + x.length]
                    /\ LineOf(p, x) \in Lines /\ from[p + x.length] \in Seq(Lines)
    <2>1. p \in Nat
      BY <1>2
    <2>2. ASSUME Decode(bytes, p, limit) = {}
          PROVE  /\ Onward(bytes, p, limit) = {p + 1} /\ p + 1 \in first..limit
                 /\ p + 1 \in first..last /\ from[p] = from[p + 1]
      <3>1. p + 1 \in first..limit /\ p + 1 \in first..last
        BY <1>2, <1>4, <2>1
      <3> QED
        BY <1>1, <1>4, <2>2, <3>1 DEF Onward, Sweeps
    <2>3. ASSUME NEW x \in Decode(bytes, p, limit)
          PROVE  /\ Onward(bytes, p, limit) = {p + x.length} /\ p + x.length \in first..limit
                 /\ p + x.length \in first..last /\ p < p + x.length
                 /\ from[p] = <<LineOf(p, x)>> \o from[p + x.length]
                 /\ LineOf(p, x) \in Lines /\ from[p + x.length] \in Seq(Lines)
      <3>1. /\ Decode(bytes, p, limit) = {x} /\ x.length \in Nat /\ x.length # 0
            /\ p + x.length <= limit /\ x.operands \in Seq(Operands)
        BY <1>4, <2>1, <2>3 DEF Disassembles
      <3>2. p + x.length \in first..limit /\ p + x.length \in first..last /\ p < p + x.length
        BY <1>2, <1>4, <2>1, <3>1
      <3>3. Onward(bytes, p, limit) = {p + x.length}
        BY <3>1 DEF Onward
      <3>4. LineOf(p, x) \in Lines
        BY <2>1, <3>1 DEF LineOf, Lines
      <3>5. from[p] = <<LineOf(p, x)>> \o from[p + x.length] /\ from[p + x.length] \in Seq(Lines)
        BY <1>1, <1>4, <2>3, <3>2 DEF Sweeps
      <3> QED
        BY <3>2, <3>3, <3>4, <3>5
    <2> QED
      BY <2>1, <2>2, <2>3
  <1>5. ASSUME NEW p \in first..last, p >= limit PROVE 1..Len(from[p]) = {}
    <2>1. from[p] = << >>
      BY <1>1, <1>5 DEF Sweeps
    <2> QED
      BY <2>1
  <1>6. ASSUME NEW S \in SUBSET (first..limit), Closed(S), NEW k \in 1..Len(swept)
        PROVE  swept[k].offset \in S
    <2> DEFINE T == {p \in first..last : p \in S => \A i \in 1..Len(from[p]) : from[p][i].offset \in S}
    <2>1. last \in T
      BY <1>2, <1>5
    <2>2. ASSUME NEW p \in first..last, p < last, \A q \in first..last : p < q => q \in T
          PROVE  p \in T
      <3> SUFFICES ASSUME p \in S, p < limit, NEW i \in 1..Len(from[p])
                   PROVE  from[p][i].offset \in S
        BY <1>2, <1>5, <2>2
      <3>1. CASE Decode(bytes, p, limit) = {}
        <4>1. p + 1 \in S /\ p + 1 \in T /\ from[p] = from[p + 1]
          BY <1>4, <1>6, <2>2, <3>1
        <4> QED
          BY <4>1
      <3>2. CASE Decode(bytes, p, limit) # {}
        <4>1. PICK x \in Decode(bytes, p, limit) : TRUE
          BY <3>2
        <4> DEFINE rest == from[p + x.length]
                   line == LineOf(p, x)
        <4>2. /\ p + x.length \in S /\ p + x.length \in T /\ line \in Lines /\ rest \in Seq(Lines)
              /\ from[p] = <<line>> \o rest
          BY <1>4, <1>6, <2>2, <4>1
        <4>3. \A j \in 1..Len(rest) : rest[j].offset \in S
          BY <4>2
        <4>4. line.offset = p
          BY DEF LineOf
        <4> HIDE DEF line, rest, T
        <4>5. from[p][i] = line \/ \E j \in 1..Len(rest) : from[p][i] = rest[j]
          BY <4>2
        <4> QED
          BY <4>3, <4>4, <4>5
      <3> QED
        BY <3>1, <3>2
    <2>3. first..last \subseteq T
      <3> HIDE DEF T
      <3> QED
        BY <1>2, <2>1, <2>2, Downwards
    <2>4. first \in T /\ first \in S
      BY <1>2, <1>6, <2>3
    <2> QED
      BY <1>1, <1>6, <2>4
  <1> DEFINE Known(p) == \A i \in 1..Len(from[p]) : \E k \in 1..Len(swept) : from[p][i] = swept[k]
             V == {p \in first..limit : Known(p)}
  <1>7. Closed(V)
    <2>1. first \in V
      BY <1>1
    <2>2. ASSUME NEW p \in V, p < limit PROVE Onward(bytes, p, limit) \subseteq V
      <3>1. p \in first..last
        BY <1>2, <2>2
      <3>2. CASE Decode(bytes, p, limit) = {}
        <4>1. Onward(bytes, p, limit) = {p + 1} /\ p + 1 \in first..limit /\ from[p] = from[p + 1]
          BY <1>4, <2>2, <3>1, <3>2
        <4>2. Known(p + 1)
          BY <2>2, <4>1
        <4> QED
          BY <4>1, <4>2
      <3>3. CASE Decode(bytes, p, limit) # {}
        <4>1. PICK x \in Decode(bytes, p, limit) : TRUE
          BY <3>3
        <4> DEFINE rest == from[p + x.length]
                   line == LineOf(p, x)
        <4>2. /\ Onward(bytes, p, limit) = {p + x.length} /\ p + x.length \in first..limit
              /\ line \in Lines /\ rest \in Seq(Lines) /\ from[p] = <<line>> \o rest
          BY <1>4, <2>2, <3>1, <4>1
        <4> HIDE DEF line
        <4>3. ASSUME NEW i \in 1..Len(rest) PROVE \E k \in 1..Len(swept) : rest[i] = swept[k]
          <5> HIDE DEF rest
          <5>1. i + 1 \in 1..Len(from[p]) /\ from[p][i + 1] = rest[i]
            BY <4>2, <4>3
          <5> QED
            BY <2>2, <5>1
        <4>4. p + x.length \in V
          BY <4>2, <4>3
        <4> QED
          BY <4>2, <4>4
      <3> QED
        BY <3>2, <3>3
    <2> QED
      BY <2>1, <2>2
  <1>8. ASSUME Decode(bytes, o, limit) # {}, o \in V PROVE \E k \in 1..Len(swept) : swept[k].offset = o
    <2>1. PICK x \in Decode(bytes, o, limit) : TRUE
      BY <1>8
    <2> DEFINE rest == from[o + x.length]
               line == LineOf(o, x)
    <2>2. o \in first..last /\ o < limit
      BY <1>2
    <2>3. line \in Lines /\ rest \in Seq(Lines) /\ from[o] = <<line>> \o rest
      BY <1>4, <2>1, <2>2
    <2>4. line.offset = o
      BY DEF LineOf
    <2> HIDE DEF line, rest
    <2>5. 1 \in 1..Len(from[o]) /\ from[o][1] = line
      BY <2>3
    <2> QED
      BY <1>8, <2>4, <2>5
  <1>9. ASSUME NEW k \in 1..Len(swept) PROVE Decode(bytes, swept[k].offset, limit) # {}
    BY <1>3 DEF InStep
  <1>10. V \in SUBSET (first..limit)
    OBVIOUS
  <1> HIDE DEF V, Closed
  <1>11. (\E k \in 1..Len(swept) : swept[k].offset = o)
         <=> Decode(bytes, o, limit) # {} /\ \A S \in SUBSET (first..limit) : Closed(S) => o \in S
    BY <1>6, <1>7, <1>8, <1>9, <1>10
  <1> QED
    BY <1>11 DEF Closed, swept, Reached, LineAt

-----------------------------------------------------------------------------
(* The sections of an image *)

\* The entries of the section table.
Sections == [va : Nat, size : Nat, raw : Nat, rawSize : Nat, executable : BOOLEAN]

\* What an image is made of.
LEMMA ImageParts ==
    ASSUME NEW of, IsImage(of)
    PROVE  /\ of.image.base \in Nat /\ of.maxBytes \in Nat /\ of.va \in Nat /\ of.functions \subseteq Nat
           /\ Len(of.image.bytes) \in Nat /\ of.image.bytes \in Seq(Nat)
           /\ of.needle \in Seq(Nat) /\ of.wide \in Seq(Nat) /\ of.pointer \in Seq(Nat)
           /\ Len(of.image.sections) \in Nat
           /\ \A i \in 1..Len(of.image.sections) :
                LET s == of.image.sections[i]
                IN  s.va \in Nat /\ s.size \in Nat /\ s.raw \in Nat /\ s.rawSize \in Nat
  <1> DEFINE sections == of.image.sections
  <1>1. /\ of.image.base \in Nat /\ of.maxBytes \in Nat /\ of.va \in Nat /\ of.functions \subseteq Nat
        /\ {of.image.bytes, of.needle, of.wide, of.pointer} \subseteq Seq(Nat)
        /\ sections \in Seq(Sections)
    BY DEF IsImage, Sections
  <1>2. \A s \in Sections : s.va \in Nat /\ s.size \in Nat /\ s.raw \in Nat /\ s.rawSize \in Nat
    BY DEF Sections
  <1> HIDE DEF sections
  <1>3. Len(sections) \in Nat /\ \A i \in 1..Len(sections) : sections[i] \in Sections
    BY <1>1
  <1>4. Len(of.image.bytes) \in Nat
    BY <1>1
  <1> QED
    BY <1>1, <1>2, <1>3, <1>4 DEF sections

\* Ranges of which one begins behind the other share nothing.
LEMMA Apart ==
    ASSUME NEW a \in Nat, NEW b \in Nat, NEW c \in Nat, NEW d \in Nat, a + b <= c \/ c + d <= a
    PROVE  \A o \in a..(a + b - 1) : o \notin c..(c + d - 1)
  <1> SUFFICES ASSUME NEW o \in a..(a + b - 1), o \in c..(c + d - 1) PROVE FALSE
    OBVIOUS
  <1>1. o \in Int /\ a <= o /\ o < a + b /\ c <= o /\ o < c + d
    OBVIOUS
  <1> QED
    BY <1>1

\* No two sections share bytes of the file or addresses.
LEMMA OneSection ==
    ASSUME NEW of, IsImage(of), NEW i \in 1..Len(of.image.sections), NEW k \in 1..Len(of.image.sections),
           i # k
    PROVE  LET s == of.image.sections[i]
               t == of.image.sections[k]
           IN  /\ \A o \in s.raw..(s.raw + s.rawSize - 1) : o \notin t.raw..(t.raw + t.rawSize - 1)
               /\ \A a \in s.va..(s.va + s.rawSize - 1) : a \notin t.va..(t.va + t.size - 1)
  <1> DEFINE s == of.image.sections[i]
             t == of.image.sections[k]
  <1>1. /\ s.va \in Nat /\ s.size \in Nat /\ s.raw \in Nat /\ s.rawSize \in Nat
        /\ t.va \in Nat /\ t.size \in Nat /\ t.raw \in Nat /\ t.rawSize \in Nat
    BY ImageParts
  <1>2. DOMAIN of.image.sections = 1..Len(of.image.sections)
    BY DEF IsImage
  <1>3. /\ s.raw + s.rawSize <= t.raw \/ t.raw + t.rawSize <= s.raw
        /\ \/ s.va + s.size <= t.va /\ s.va + s.rawSize <= t.va
           \/ t.va + t.size <= s.va /\ t.va + t.rawSize <= s.va
    <2>1. CASE i < k
      BY <1>2, <2>1 DEF IsImage
    <2>2. CASE k < i
      BY <1>2, <2>2 DEF IsImage
    <2> QED
      BY <2>1, <2>2
  <1> HIDE DEF s, t
  <1>4. s.raw + s.rawSize <= t.raw \/ t.raw + t.rawSize <= s.raw
    BY <1>3
  <1>5. s.va + s.rawSize <= t.va \/ t.va + t.size <= s.va
    BY <1>3
  <1>6. /\ \A o \in s.raw..(s.raw + s.rawSize - 1) : o \notin t.raw..(t.raw + t.rawSize - 1)
        /\ \A a \in s.va..(s.va + s.rawSize - 1) : a \notin t.va..(t.va + t.size - 1)
    BY <1>1, <1>4, <1>5, Apart
  <1> QED
    BY <1>6 DEF s, t

\* A place of the file that a section is loaded from is at one address, the one
\* the scanner says; any other is at none.
LEMMA FromFile ==
    ASSUME NEW of, IsImage(of), NEW o \in Nat
    PROVE  \/ /\ FileOffsetToRva(of.image, o) = NotFound /\ FileOffsetToVa(of.image, o) = 0
              /\ \A va : ~ LoadedFrom(of.image, o, va)
           \/ /\ FileOffsetToRva(of.image, o) # NotFound
              /\ FileOffsetToVa(of.image, o) \in Nat
              /\ \A va : LoadedFrom(of.image, o, va) <=> va = FileOffsetToVa(of.image, o)
              /\ \E i \in 1..Len(of.image.sections) :
                    LET s == of.image.sections[i]
                    IN  /\ o \in s.raw..(s.raw + s.rawSize - 1)
                        /\ FileOffsetToVa(of.image, o) = of.image.base + s.va + (o - s.raw)
  <1> DEFINE image == of.image
             sections == of.image.sections
             n == Len(sections)
             I == {i \in 1..n : o \in sections[i].raw..(sections[i].raw + sections[i].rawSize - 1)}
             at == IF I # {} THEN Min(I) ELSE 0
  <1>1. /\ FileOffsetToRva(image, o) =
                IF at = 0 THEN NotFound ELSE sections[at].va + (o - sections[at].raw)
        /\ FileOffsetToVa(image, o) =
                IF FileOffsetToRva(image, o) = NotFound THEN 0 ELSE image.base + FileOffsetToRva(image, o)
    BY DEF FileOffsetToRva, FileOffsetToVa, SelectInSeq
  <1>2. DOMAIN sections = 1..n
    BY DEF IsImage
  <1>3. /\ image.base \in Nat /\ n \in Nat
        /\ \A i \in 1..n : sections[i].va \in Nat /\ sections[i].raw \in Nat /\ sections[i].rawSize \in Nat
    BY ImageParts
  <1>4. \A i, k \in I : i = k
    BY OneSection
  <1>5. \A va : LoadedFrom(image, o, va) <=>
            \E i \in I : va = image.base + sections[i].va + (o - sections[i].raw)
    BY <1>2 DEF LoadedFrom
  <1>6. CASE I = {}
    BY <1>1, <1>5, <1>6
  <1>7. CASE I # {}
    <2>1. PICK i \in I : TRUE
      BY <1>7
    <2>2. I = {i} /\ i \in 1..n
      BY <1>4, <2>1
    <2>3. i \in Int /\ i # 0
      BY <2>2
    <2>4. at = i
      BY <2>2, <2>3 DEF Min
    <2> DEFINE s == sections[i]
    <2>5. /\ s.va \in Nat /\ s.raw \in Nat /\ s.rawSize \in Nat
          /\ o \in s.raw..(s.raw + s.rawSize - 1)
      BY <1>3, <2>1, <2>2
    <2> HIDE DEF at, I
    <2>6. FileOffsetToRva(image, o) = s.va + (o - s.raw)
      BY <1>1, <2>3, <2>4
    <2>7. FileOffsetToRva(image, o) \in Nat /\ FileOffsetToRva(image, o) # NotFound
      BY <2>5, <2>6 DEF NotFound
    <2>8. /\ FileOffsetToVa(image, o) = image.base + s.va + (o - s.raw)
          /\ FileOffsetToVa(image, o) \in Nat
      <3> DEFINE base == image.base
      <3>1. FileOffsetToVa(image, o) = base + FileOffsetToRva(image, o) /\ base \in Nat
        BY <1>1, <1>3, <2>7
      <3> HIDE DEF base, s
      <3>2. /\ FileOffsetToVa(image, o) = base + s.va + (o - s.raw)
            /\ FileOffsetToVa(image, o) \in Nat
        BY <2>5, <2>6, <2>7, <3>1
      <3> QED
        BY <3>2 DEF base
    <2>9. \A va : LoadedFrom(image, o, va) <=> va = FileOffsetToVa(image, o)
      BY <1>5, <2>2, <2>8
    <2> QED
      BY <2>2, <2>5, <2>7, <2>8, <2>9
  <1> QED
    BY <1>6, <1>7

\* An address that a section is loaded to, from the file, comes from that place.
LEMMA ToFile ==
    ASSUME NEW of, IsImage(of), NEW rva \in Nat, NEW i \in 1..Len(of.image.sections),
           LET s == of.image.sections[i] IN rva \in s.va..(s.va + s.rawSize - 1)
    PROVE  \/ RvaToFileOffset(of.image, rva) = NotFound
           \/ LET s == of.image.sections[i]
              IN  /\ RvaToFileOffset(of.image, rva) = s.raw + (rva - s.va)
                  /\ RvaToFileOffset(of.image, rva) \in Nat
  <1> DEFINE image == of.image
             sections == of.image.sections
             n == Len(sections)
             I == {k \in 1..n : rva \in sections[k].va..(sections[k].va + sections[k].size - 1)}
             at == IF I # {} THEN Min(I) ELSE 0
             s == sections[i]
  <1>1. RvaToFileOffset(image, rva) =
            IF at = 0 THEN NotFound ELSE sections[at].raw + (rva - sections[at].va)
    BY DEF RvaToFileOffset, SelectInSeq
  <1>2. s.va \in Nat /\ s.raw \in Nat /\ s.rawSize \in Nat
    BY ImageParts
  <1>3. \A k \in I : k = i
    BY OneSection
  <1>4. CASE I = {}
    BY <1>1, <1>4
  <1>5. CASE I # {}
    <2>1. I = {i} /\ i \in Int /\ i # 0
      BY <1>3, <1>5
    <2>2. at = i
      BY <2>1 DEF Min
    <2>3. RvaToFileOffset(image, rva) = s.raw + (rva - s.va)
      BY <1>1, <2>1, <2>2
    <2> QED
      BY <1>2, <2>3
  <1> QED
    BY <1>4, <1>5

\* The executable section is one of them.
LEMMA TextIs ==
    ASSUME NEW of, IsImage(of), TextSection(of.image) # 0
    PROVE  TextSection(of.image) \in 1..Len(of.image.sections)
  <1> DEFINE n == Len(of.image.sections)
             I == {i \in 1..n : of.image.sections[i].executable}
  <1>1. TextSection(of.image) = IF I # {} THEN Min(I) ELSE 0
    BY DEF TextSection, SelectInSeq
  <1>2. I \subseteq 1..n /\ n \in Nat /\ I # {}
    BY <1>1, ImageParts
  <1> HIDE DEF I, n
  <1>3. IsFiniteSet(I)
    <2>1. IsFiniteSet(1..n)
      BY <1>2, FS_Interval
    <2> QED
      BY <1>2, <2>1, FS_Subset
  <1>4. \A i \in I : i \in Nat
    BY <1>2
  <1>5. Min(I) \in I
    BY <1>2, <1>3, <1>4, LeastAndGreatest
  <1> QED
    BY <1>1, <1>2, <1>5 DEF n

\* No sweep goes on behind the end of the file.
LEMMA LimitWithin ==
    ASSUME NEW of, IsImage(of), NEW o \in Nat
    PROVE  Limit(of.image, o) \in 0..Len(of.image.bytes) /\ Limit(of.image, o) <= o
  <1>1. Len(of.image.bytes) \in Nat
    BY ImageParts
  <1> QED
    BY <1>1 DEF Limit

\* An instruction is the same wherever the bytes end that are seen.
Settled(bytes, o, x) ==
    /\ x.length <= MaxInstruction
    /\ \A l \in (o + x.length)..Len(bytes) : Decode(bytes, o, l) = {x}

\* The disassembler of an image.
LEMMA ImageDisassembles ==
    ASSUME NEW of, IsImage(of), NEW limit \in 0..Len(of.image.bytes)
    PROVE  /\ Disassembles(of.image.bytes, limit)
           /\ \A o \in Nat : o < limit =>
                \A x \in Decode(of.image.bytes, o, limit) : Settled(of.image.bytes, o, x)
  <1> DEFINE bytes == of.image.bytes
  <1>1. Len(bytes) \in Nat /\ MaxInstruction \in Nat
    BY ImageParts, ScannerAssumption
  <1>2. ASSUME NEW o \in Nat, o < limit, NEW x \in Decode(bytes, o, limit)
        PROVE  /\ x.length \in 1..MaxInstruction /\ o + x.length <= limit
               /\ x.operands \in Seq([relative : BOOLEAN, value : Int])
               /\ \A l \in (o + x.length)..Len(bytes) : Decode(bytes, o, l) = {x}
    <2>1. o \in 0..(Len(bytes) - 1)
      BY <1>1, <1>2
    <2> QED
      BY <1>2, <2>1 DEF IsImage
  <1> HIDE DEF bytes
  <1>3. ASSUME NEW o \in Nat, o < limit, NEW x \in Decode(bytes, o, limit)
        PROVE  /\ Decode(bytes, o, limit) = {x} /\ x.length <= MaxInstruction
               /\ x.length \in Nat /\ x.length # 0 /\ o + x.length <= limit
               /\ x.operands \in Seq(Operands)
    <2>1. /\ x.length \in 1..MaxInstruction /\ o + x.length <= limit
          /\ x.operands \in Seq([relative : BOOLEAN, value : Int])
          /\ \A l \in (o + x.length)..Len(bytes) : Decode(bytes, o, l) = {x}
      BY <1>2, <1>3
    <2>2. limit \in (o + x.length)..Len(bytes)
      BY <1>1, <2>1 DEF bytes
    <2>3. Decode(bytes, o, limit) = {x}
      BY <2>1, <2>2
    <2> QED
      BY <1>1, <2>1, <2>3 DEF Operands
  <1>4. Disassembles(bytes, limit)
    BY <1>3 DEF Disassembles
  <1>5. ASSUME NEW o \in Nat, o < limit, NEW x \in Decode(bytes, o, limit) PROVE Settled(bytes, o, x)
    BY <1>2, <1>3, <1>5 DEF Settled
  <1> QED
    BY <1>4, <1>5 DEF bytes

\* A listing has the lines of a sweep, each with its address.
Lists(listing, swept, first, address) ==
    /\ Len(listing) = Len(swept) /\ DOMAIN listing = 1..Len(swept)
    /\ listing \in Seq([line : Lines, address : Int])
    /\ \A k \in 1..Len(swept) :
        /\ listing[k].line = swept[k]
        /\ listing[k].address = address + (swept[k].offset - first)

\* The lines of a listing.
LEMMA ListingLines ==
    ASSUME NEW of, IsImage(of), NEW first \in Nat, NEW limit \in 0..Len(of.image.bytes),
           NEW address \in Int
    PROVE  /\ Sweep(of.image.bytes, first, limit) \in Seq(Lines)
           /\ InStep(Sweep(of.image.bytes, first, limit), first, of.image.bytes, limit)
           /\ Lists(Listing(of.image.bytes, first, limit, address),
                    Sweep(of.image.bytes, first, limit), first, address)
  <1> DEFINE swept == Sweep(of.image.bytes, first, limit)
             listing == Listing(of.image.bytes, first, limit, address)
  <1>1. swept \in Seq(Lines) /\ InStep(swept, first, of.image.bytes, limit)
    <2>1. Disassembles(of.image.bytes, limit)
      BY ImageDisassembles
    <2>2. Len(of.image.bytes) \in Nat
      BY ImageParts
    <2> QED
      BY <2>1, <2>2, SweepInStep
  <1>2. listing = [i \in DOMAIN swept |->
                    [line |-> swept[i], address |-> address + (swept[i].offset - first)]]
    BY DEF Listing
  <1> HIDE DEF swept, listing
  <1>3. DOMAIN swept = 1..Len(swept) /\ Len(swept) \in Nat
    BY <1>1
  <1>4. \A k \in 1..Len(swept) : swept[k] \in Lines /\ swept[k].offset \in Nat
    BY <1>1, LineFields
  <1>5. listing = [i \in 1..Len(swept) |->
                    [line |-> swept[i], address |-> address + (swept[i].offset - first)]]
    BY <1>2, <1>3
  <1>6. \A k \in 1..Len(swept) : [line |-> swept[k], address |-> address + (swept[k].offset - first)]
                                    \in [line : Lines, address : Int]
    BY <1>4
  <1>7. listing \in Seq([line : Lines, address : Int]) /\ Len(listing) = Len(swept)
    BY <1>3, <1>5, <1>6
  <1> QED
    BY <1>1, <1>3, <1>5, <1>7 DEF swept, listing, Lists

\* A value stands somewhere in a sequence.
Among(v, s) == \E k \in 1..Len(s) : s[k] = v

\* What the parts of a sequence have, and nothing else, is in the whole.
LEMMA FlattenHas ==
    ASSUME NEW T, NEW parts \in Seq(Seq(T)), NEW v
    PROVE  Among(v, FlattenSeq(parts)) <=> \E i \in 1..Len(parts) : Among(v, parts[i])
  <1> DEFINE n == Len(parts)
             Has(s) == \E k \in 1..Len(s) : s[k] = v
  <1>1. n \in Nat /\ \A i \in 1..n : parts[i] \in Seq(T)
    OBVIOUS
  <1>2. PICK joined : Joins(joined, parts, n, T)
    BY JoinsExist
  <1>3. FlattenSeq(parts) = joined[n]
    BY <1>2, FlattenJoins
  <1>4. /\ joined[0] = << >> /\ \A i \in 0..n : joined[i] \in Seq(T)
        /\ \A i \in Nat : i < n => joined[i + 1] = joined[i] \o parts[i + 1]
    BY <1>2, Zenon DEF Joins
  <1> HIDE DEF n
  <1>5. ASSUME NEW a \in Seq(T), NEW b \in Seq(T) PROVE Has(a \o b) <=> Has(a) \/ Has(b)
    <2>1. /\ Len(a) \in Nat /\ Len(b) \in Nat /\ Len(a \o b) = Len(a) + Len(b)
          /\ \A i \in 1..Len(a) : (a \o b)[i] = a[i]
          /\ \A i \in 1..Len(b) : (a \o b)[Len(a) + i] = b[i]
      BY ConcatParts
    <2>2. ASSUME NEW i \in 1..Len(a) PROVE i \in 1..Len(a \o b)
      BY <2>1
    <2>3. ASSUME NEW i \in 1..Len(b) PROVE Len(a) + i \in 1..Len(a \o b)
      BY <2>1
    <2>4. ASSUME NEW i \in 1..Len(a \o b), i \notin 1..Len(a)
          PROVE  i - Len(a) \in 1..Len(b) /\ Len(a) + (i - Len(a)) = i
      BY <2>1, <2>4
    <2> DEFINE c == a \o b
    <2>5. Has(a) => Has(c)
      BY <2>1, <2>2
    <2>6. Has(b) => Has(c)
      BY <2>1, <2>3
    <2>7. ASSUME NEW i \in 1..Len(c), c[i] = v PROVE Has(a) \/ Has(b)
      <3>1. CASE i \in 1..Len(a)
        BY <2>1, <2>7, <3>1
      <3>2. CASE i \notin 1..Len(a)
        <4>1. i - Len(a) \in 1..Len(b) /\ b[i - Len(a)] = c[i]
          BY <2>1, <2>4, <3>2
        <4> QED
          BY <2>7, <4>1
      <3> QED
        BY <3>1, <3>2
    <2> QED
      BY <2>5, <2>6, <2>7
  <1> DEFINE P == {i \in Nat : i <= n => (Has(joined[i]) <=> \E j \in 1..i : Has(parts[j]))}
  <1>6. 0 \in P
    <2>1. ~ Has(joined[0])
      BY <1>4
    <2>2. 1..0 = {}
      OBVIOUS
    <2> QED
      BY <2>1, <2>2
  <1>7. ASSUME NEW i \in Nat, i < n, i \in P PROVE i + 1 \in P
    <2> DEFINE a == joined[i]
               b == parts[i + 1]
    <2>1. i \in 0..n /\ i + 1 \in 1..n
      BY <1>1, <1>7
    <2>2. a \in Seq(T) /\ b \in Seq(T) /\ joined[i + 1] = a \o b
      BY <1>1, <1>4, <1>7, <2>1
    <2>3. Has(joined[i + 1]) <=> Has(joined[i]) \/ Has(parts[i + 1])
      <3>1. Has(a \o b) <=> Has(a) \/ Has(b)
        <4> HIDE DEF a, b, Has
        <4> QED
          BY <1>5, <2>2
      <3> HIDE DEF Has
      <3> QED
        BY <2>2, <3>1
    <2>4. Has(joined[i]) <=> \E j \in 1..i : Has(parts[j])
      BY <1>1, <1>7
    <2>5. 1..(i + 1) = (1..i) \cup {i + 1}
      OBVIOUS
    <2> HIDE DEF Has
    <2> QED
      BY <2>3, <2>4, <2>5
  <1>8. n \in P
    <2> HIDE DEF P
    <2> QED
      BY <1>1, <1>6, <1>7, Induction
  <1> QED
    BY <1>1, <1>3, <1>8 DEF n, Among

-----------------------------------------------------------------------------
(* The references *)

\* A string stands at a place of the file.
StandsAt(of, o) ==
    \E s \in {of.needle, of.wide} :
        IsPrefix(s, SubSeq(of.image.bytes, o + 1, Len(of.image.bytes)))

\* The first symbols of a sequence.
LEMMA HeadParts ==
    ASSUME NEW s \in Seq(Nat), NEW n \in Nat, n <= Len(s)
    PROVE  /\ SubSeq(s, 1, n) \in Seq(Nat) /\ Len(SubSeq(s, 1, n)) = n
           /\ \A j \in 1..n : SubSeq(s, 1, n)[j] = s[j]
  OBVIOUS

\* The symbols of a sequence behind a place, as many as asked for.
LEMMA PieceParts ==
    ASSUME NEW s \in Seq(Nat), NEW o \in Nat, NEW n \in Nat, o + n <= Len(s)
    PROVE  /\ SubSeq(s, o + 1, o + n) \in Seq(Nat) /\ Len(SubSeq(s, o + 1, o + n)) = n
           /\ \A j \in 1..n : SubSeq(s, o + 1, o + n)[j] = s[o + j]
  <1> DEFINE piece == SubSeq(s, o + 1, o + n)
  <1>1. piece \in Seq(Nat)
    OBVIOUS
  <1>2. Len(piece) = n
    OBVIOUS
  <1>3. ASSUME NEW j \in 1..n PROVE piece[j] = s[o + j]
    BY <1>2, <1>3
  <1> QED
    BY <1>1, <1>2, <1>3

\* A string is found where what is left of the bytes begins with it.
LEMMA FindPrefix ==
    ASSUME NEW bytes \in Seq(Nat), NEW needle \in Seq(Nat), NEW o
    PROVE  o \in FindAll(bytes, needle)
           <=> o \in 0..Len(bytes) /\ IsPrefix(needle, SubSeq(bytes, o + 1, Len(bytes)))
  <1> DEFINE n == Len(needle)
             m == Len(bytes)
             rest == SubSeq(bytes, o + 1, m)
             here == SubSeq(bytes, o + 1, o + n)
             head == SubSeq(rest, 1, n)
  <1>1. n \in Nat /\ m \in Nat /\ SubSeq(needle, 1, n) = needle
    OBVIOUS
  <1>2. o \in FindAll(bytes, needle) <=> o \in 0..(m - n) /\ here = needle
    BY DEF FindAll
  <1>3. IsPrefix(needle, rest) <=> n <= Len(rest) /\ needle = head
    BY <1>1 DEF IsPrefix
  <1>4. ASSUME o \in 0..m PROVE rest \in Seq(Nat) /\ Len(rest) = m - o
    BY <1>1, <1>4
  <1>5. ASSUME o \in 0..m, n <= m - o PROVE here = head
    <2>1. /\ here \in Seq(Nat) /\ Len(here) = n
          /\ \A j \in 1..n : here[j] = bytes[o + j]
      <3>1. o \in Nat /\ o + n <= Len(bytes)
        BY <1>1, <1>5
      <3> HIDE DEF n
      <3> QED
        BY <1>1, <3>1, PieceParts
    <2>2. /\ rest \in Seq(Nat) /\ Len(rest) = m - o
          /\ \A j \in 1..(m - o) : rest[j] = bytes[o + j]
      <3> DEFINE l == m - o
      <3>1. o \in Nat /\ l \in Nat /\ o + l <= Len(bytes) /\ o + l = m
        BY <1>1, <1>5
      <3>2. rest = SubSeq(bytes, o + 1, o + l)
        BY <3>1
      <3> HIDE DEF l, rest
      <3>3. /\ rest \in Seq(Nat) /\ Len(rest) = l
            /\ \A j \in 1..l : rest[j] = bytes[o + j]
        BY <3>1, <3>2, PieceParts
      <3> QED
        BY <3>3 DEF l
    <2> HIDE DEF rest, m, n
    <2>3. /\ head \in Seq(Nat) /\ Len(head) = n
          /\ \A j \in 1..n : head[j] = rest[j]
      BY <1>1, <1>5, <2>2, HeadParts
    <2> HIDE DEF here, head
    <2>4. \A j \in 1..n : j \in 1..(m - o)
      BY <1>1, <1>5
    <2>5. \A j \in 1..n : here[j] = head[j]
      BY <2>1, <2>2, <2>3, <2>4
    <2> QED
      BY <1>1, <2>1, <2>3, <2>5
  <1> HIDE DEF n, m, rest, here, head
  <1>6. o \in 0..(m - n) <=> o \in 0..m /\ n <= m - o
    BY <1>1
  <1> QED
    BY <1>2, <1>3, <1>4, <1>5, <1>6 DEF m, rest

\* A target is matched if it is within the window of a string at its address, or a
\* function asked for.
LEMMA MatchesWanted ==
    ASSUME NEW of, IsImage(of), NEW target \in Int
    PROVE  Matches(of.image, target, of.needle, of.wide, of.functions)
           <=> \/ target \in of.functions
               \/ \E o \in 0..Len(of.image.bytes), d \in 0..(StringWindow - 1) :
                    StandsAt(of, o) /\ LoadedFrom(of.image, o, target - d)
  <1> DEFINE image == of.image
             bytes == image.bytes
             Hits == StringHits(image, of.needle, of.wide)
             n == StringWindow
  <1>1. bytes \in Seq(Nat) /\ of.needle \in Seq(Nat) /\ of.wide \in Seq(Nat) /\ Len(bytes) \in Nat
    BY ImageParts
  <1>2. n \in Nat
    BY ScannerAssumption
  <1>3. \A o : o \in FindAll(bytes, of.needle) \cup FindAll(bytes, of.wide)
               <=> o \in 0..Len(bytes) /\ StandsAt(of, o)
    BY <1>1, FindPrefix DEF StandsAt
  <1>4. \A va : va \in Hits <=> \E o \in 0..Len(bytes) :
            StandsAt(of, o) /\ FileOffsetToRva(image, o) # NotFound /\ va = FileOffsetToVa(image, o)
    BY <1>3 DEF StringHits
  <1>5. \A va : va \in Hits <=> \E o \in 0..Len(bytes) : StandsAt(of, o) /\ LoadedFrom(image, o, va)
    <2>1. ASSUME NEW va, NEW o \in 0..Len(bytes)
          PROVE  LoadedFrom(image, o, va)
                 <=> FileOffsetToRva(image, o) # NotFound /\ va = FileOffsetToVa(image, o)
      <3>1. o \in Nat
        BY <1>1
      <3> QED
        BY <3>1, FromFile
    <2> QED
      BY <1>4, <2>1
  <1>6. \A o \in 0..Len(bytes) : \A va : LoadedFrom(image, o, va) => va \in Int
    <2>1. ASSUME NEW o \in 0..Len(bytes), NEW va, LoadedFrom(image, o, va) PROVE va \in Int
      <3>1. o \in Nat
        BY <1>1
      <3>2. FileOffsetToVa(image, o) \in Int
        BY <3>1, FromFile
      <3>3. va = FileOffsetToVa(image, o)
        BY <2>1, <3>1, FromFile
      <3> QED
        BY <3>2, <3>3
    <2> QED
      BY <2>1
  <1>7. Matches(image, target, of.needle, of.wide, of.functions)
        <=> target \in of.functions \/ \E va \in Hits : target \in va..(va + n - 1)
    BY DEF Matches
  <1> HIDE DEF Hits, n, bytes, image
  <1>8. ASSUME NEW va \in Hits, target \in va..(va + n - 1)
        PROVE  \E o \in 0..Len(bytes), d \in 0..(n - 1) : StandsAt(of, o) /\ LoadedFrom(image, o, target - d)
    <2>1. PICK o \in 0..Len(bytes) : StandsAt(of, o) /\ LoadedFrom(image, o, va)
      BY <1>5, <1>8
    <2>2. va \in Int
      BY <1>6, <2>1
    <2>3. target - va \in 0..(n - 1) /\ target - (target - va) = va
      BY <1>2, <1>8, <2>2
    <2> QED
      BY <2>1, <2>3
  <1>9. ASSUME NEW o \in 0..Len(bytes), NEW d \in 0..(n - 1),
               StandsAt(of, o), LoadedFrom(image, o, target - d)
        PROVE  \E va \in Hits : target \in va..(va + n - 1)
    <2>1. target - d \in Hits
      BY <1>5, <1>9
    <2>2. target \in (target - d)..((target - d) + n - 1)
      BY <1>2
    <2> QED
      BY <2>1, <2>2
  <1> QED
    BY <1>7, <1>8, <1>9 DEF image, bytes, n

\* What refers to something wanted, of the instructions of a sweep.
Hitting(of, entry) ==
    {n \in DOMAIN entry.line.operands :
        Matches(of.image, Target(entry, entry.line.operands[n]), of.needle, of.wide, of.functions)}

\* The references are the entries of the listing that refer to something.
LEMMA XrefsListed ==
    ASSUME NEW of, IsImage(of), TextSection(of.image) # 0,
           NEW text, text = of.image.sections[TextSection(of.image)],
           NEW listing, listing = Listing(of.image.bytes, text.raw,
                Limit(of.image, text.raw + text.rawSize), of.image.base + text.va)
    PROVE  LET xrefs == Xrefs(of.image, of.needle, of.wide, of.functions)
           IN  /\ xrefs \in Seq([line : Lines, address : Int])
               /\ \A v : Among(v, xrefs)
                    <=> \E k \in 1..Len(listing) : listing[k] = v /\ Hitting(of, v) # {}
  <1> DEFINE xrefs == Xrefs(of.image, of.needle, of.wide, of.functions)
             T == [line : Lines, address : Int]
             Part(entry) == [n \in 1..Cardinality(Hitting(of, entry)) |-> entry]
             parts == [k \in DOMAIN listing |-> Part(listing[k])]
  <1>1. xrefs = FlattenSeq(parts)
    BY DEF Xrefs, Hitting
  <1>2. /\ of.image.base \in Nat /\ text.va \in Nat /\ text.raw \in Nat /\ text.rawSize \in Nat
        /\ Len(of.image.bytes) \in Nat
    <2> DEFINE i == TextSection(of.image)
    <2>1. i \in 1..Len(of.image.sections) /\ text = of.image.sections[i]
      BY TextIs
    <2>2. of.image.base \in Nat /\ Len(of.image.bytes) \in Nat
      BY ImageParts
    <2> HIDE DEF i
    <2>3. text.va \in Nat /\ text.raw \in Nat /\ text.rawSize \in Nat
      BY <2>1, ImageParts
    <2> QED
      BY <2>2, <2>3
  <1>3. Limit(of.image, text.raw + text.rawSize) \in 0..Len(of.image.bytes)
    <2>1. text.raw + text.rawSize \in Nat
      BY <1>2
    <2> QED
      BY <2>1, LimitWithin
  <1>4. listing \in Seq(T)
    <2>1. of.image.base + text.va \in Int
      BY <1>2
    <2> QED
      BY <1>2, <1>3, <2>1, ListingLines DEF Lists
  <1> DEFINE m == Len(listing)
  <1>5. m \in Nat /\ DOMAIN listing = 1..m /\ \A k \in 1..m : listing[k] \in T
    <2> HIDE DEF T
    <2> QED
      BY <1>4
  <1>6. ASSUME NEW entry \in T
        PROVE  /\ Cardinality(Hitting(of, entry)) \in Nat
               /\ Cardinality(Hitting(of, entry)) = 0 <=> Hitting(of, entry) = {}
    <2> DEFINE l == Len(entry.line.operands)
               H == Hitting(of, entry)
    <2>1. entry.line \in Lines
      BY <1>6
    <2>2. entry.line.operands \in Seq(Operands)
      BY <2>1 DEF Lines
    <2>3. l \in Nat /\ DOMAIN entry.line.operands = 1..l
      BY <2>2
    <2>4. H \subseteq 1..l
      BY <2>3 DEF Hitting
    <2> HIDE DEF l, H
    <2>5. IsFiniteSet(1..l)
      BY <2>3, FS_Interval
    <2>6. IsFiniteSet(H)
      BY <2>4, <2>5, FS_Subset
    <2>7. Cardinality(H) \in Nat /\ (Cardinality(H) = 0 <=> H = {})
      BY <2>6, FS_CardinalityType, FS_EmptySet
    <2> QED
      BY <2>7 DEF H
  <1>7. ASSUME NEW entry \in T
        PROVE  /\ Part(entry) \in Seq(T)
               /\ \A v : Among(v, Part(entry))
                         <=> v = entry /\ Hitting(of, entry) # {}
    <2> DEFINE c == Cardinality(Hitting(of, entry))
    <2>1. c \in Nat /\ (c = 0 <=> Hitting(of, entry) = {})
      BY <1>6
    <2>2. Part(entry) = [n \in 1..c |-> entry]
      OBVIOUS
    <2> HIDE DEF c, Part, T
    <2>3. /\ Part(entry) \in Seq(T) /\ Len(Part(entry)) = c
          /\ \A n \in 1..c : Part(entry)[n] = entry
      BY <1>7, <2>1, <2>2
    <2>4. ASSUME c # 0 PROVE 1 \in 1..c
      BY <2>1, <2>4
    <2>5. ASSUME c = 0 PROVE 1..c = {}
      BY <2>5
    <2> QED
      BY <2>1, <2>3, <2>4, <2>5 DEF Among
  <1> HIDE DEF Part, T
  <1>8. parts = [k \in 1..m |-> Part(listing[k])]
    BY <1>5
  <1>9. /\ parts \in Seq(Seq(T)) /\ Len(parts) = m
        /\ \A k \in 1..m : parts[k] = Part(listing[k])
    <2>1. \A k \in 1..m : Part(listing[k]) \in Seq(T)
      BY <1>5, <1>7
    <2> HIDE DEF m, parts
    <2>2. parts \in [1..m -> Seq(T)] /\ \A k \in 1..m : parts[k] = Part(listing[k])
      BY <1>8, <2>1
    <2>3. parts \in Seq(Seq(T)) /\ Len(parts) = m
      <3> DEFINE U == Seq(T)
      <3>1. m \in Nat /\ parts \in [1..m -> U]
        BY <1>5, <2>2
      <3> HIDE DEF U
      <3>2. parts \in Seq(U) /\ Len(parts) = m
        BY <3>1
      <3> QED
        BY <3>2 DEF U
    <2> QED
      BY <2>2, <2>3
  <1> HIDE DEF parts, m, xrefs
  <1>10. xrefs \in Seq(T)
    BY <1>1, <1>9, FlattenType
  <1>11. ASSUME NEW v
         PROVE  Among(v, xrefs) <=> \E k \in 1..m : listing[k] = v /\ Hitting(of, v) # {}
    <2>1. Among(v, xrefs) <=> \E i \in 1..Len(parts) : Among(v, parts[i])
      BY <1>1, <1>9, FlattenHas, Zenon
    <2>2. ASSUME NEW k \in 1..m
          PROVE  Among(v, parts[k]) <=> v = listing[k] /\ Hitting(of, listing[k]) # {}
      <3> DEFINE entry == listing[k]
      <3>1. entry \in T /\ parts[k] = Part(entry)
        BY <1>5, <1>9
      <3> HIDE DEF entry
      <3>2. Among(v, Part(entry)) <=> v = entry /\ Hitting(of, entry) # {}
        BY <1>7, <3>1
      <3> QED
        BY <3>1, <3>2 DEF entry
    <2> QED
      BY <1>9, <2>1, <2>2, Zenon
  <1> QED
    BY <1>10, <1>11 DEF xrefs, T, m

\* The executable section, the end of the sweep and its listing.
TextListing(of) ==
    LET text == of.image.sections[TextSection(of.image)]
    IN  Listing(of.image.bytes, text.raw, Limit(of.image, text.raw + text.rawSize),
                of.image.base + text.va)

\* The address a place of the section is loaded to, which is the one the scanner
\* says.
TextAddress(of, text, o) == of.image.base + text.va + (o - text.raw)
AtItsAddress(of, text, o) ==
    /\ LoadedFrom(of.image, o, TextAddress(of, text, o))
    /\ FileOffsetToVa(of.image, o) = TextAddress(of, text, o)

\* An entry is an instruction of the section, at the address it is loaded to.
TextInstruction(of, text, last, entry) ==
    /\ entry.line.offset \in Nat
    /\ text.raw <= entry.line.offset /\ entry.line.offset < last
    /\ entry.address = TextAddress(of, text, entry.line.offset)
    /\ \E x \in Decode(of.image.bytes, entry.line.offset, last) :
            entry.line = LineOf(entry.line.offset, x)

\* Each entry of the listing is such an instruction.
LEMMA TextEntry ==
    ASSUME NEW of, IsImage(of), TextSection(of.image) # 0,
           NEW text, text = of.image.sections[TextSection(of.image)],
           NEW last, last = Limit(of.image, text.raw + text.rawSize)
    PROVE  /\ text.raw \in Nat /\ text.va \in Nat /\ of.image.base \in Nat
           /\ last \in 0..Len(of.image.bytes) /\ Len(of.image.bytes) \in Nat
           /\ \A o \in Nat : text.raw <= o /\ o < last => AtItsAddress(of, text, o)
           /\ TextListing(of) \in Seq([line : Lines, address : Int])
           /\ Len(TextListing(of)) = Len(Sweep(of.image.bytes, text.raw, last))
           /\ \A k \in 1..Len(TextListing(of)) :
                /\ TextListing(of)[k].line = Sweep(of.image.bytes, text.raw, last)[k]
                /\ TextInstruction(of, text, last, TextListing(of)[k])
  <1> DEFINE i == TextSection(of.image)
             image == of.image
             base == image.base
             bytes == image.bytes
             listing == TextListing(of)
             swept == Sweep(bytes, text.raw, last)
  <1>1. i \in 1..Len(image.sections) /\ text = image.sections[i]
    BY TextIs
  <1>2. base \in Nat /\ Len(bytes) \in Nat
    BY ImageParts
  <1>3. text.va \in Nat /\ text.raw \in Nat /\ text.rawSize \in Nat
    <2> HIDE DEF i
    <2> QED
      BY <1>1, ImageParts
  <1>4. last \in 0..Len(bytes) /\ last <= text.raw + text.rawSize
    <2>1. text.raw + text.rawSize \in Nat
      BY <1>3
    <2> QED
      BY <2>1, LimitWithin
  <1>5. ASSUME NEW o \in Nat, text.raw <= o, o < last PROVE AtItsAddress(of, text, o)
    <2>1. o \in text.raw..(text.raw + text.rawSize - 1)
      BY <1>2, <1>3, <1>4, <1>5
    <2>2. DOMAIN image.sections = 1..Len(image.sections)
      BY DEF IsImage
    <2> HIDE DEF i
    <2>3. LoadedFrom(image, o, base + text.va + (o - text.raw))
      BY <1>1, <2>1, <2>2 DEF LoadedFrom
    <2>4. FileOffsetToVa(image, o) = base + text.va + (o - text.raw)
      BY <2>3, FromFile
    <2> QED
      BY <2>3, <2>4 DEF AtItsAddress, TextAddress
  <1>6. listing = Listing(bytes, text.raw, last, base + text.va)
    BY DEF TextListing
  <1>7. base + text.va \in Int
    BY <1>2, <1>3
  <1>8. /\ swept \in Seq(Lines) /\ InStep(swept, text.raw, bytes, last)
        /\ Len(listing) = Len(swept)
        /\ listing \in Seq([line : Lines, address : Int])
        /\ \A k \in 1..Len(swept) :
            /\ listing[k].line = swept[k]
            /\ listing[k].address = base + text.va + (swept[k].offset - text.raw)
    <2> DEFINE address == base + text.va
    <2>1. address \in Int /\ text.raw \in Nat /\ last \in 0..Len(bytes)
      BY <1>3, <1>4, <1>7
    <2> HIDE DEF address
    <2>2. /\ swept \in Seq(Lines) /\ InStep(swept, text.raw, bytes, last)
          /\ Lists(Listing(bytes, text.raw, last, address), swept, text.raw, address)
      BY <2>1, ListingLines, Zenon
    <2>3. Lists(listing, swept, text.raw, address)
      BY <1>6, <2>2 DEF address
    <2> HIDE DEF listing, swept
    <2> QED
      BY <2>2, <2>3 DEF address, Lists
  <1> HIDE DEF listing, swept, base, bytes, image
  <1>9. ASSUME NEW k \in 1..Len(listing)
        PROVE  /\ listing[k].line = swept[k] /\ listing[k].line.offset \in Nat
               /\ text.raw <= listing[k].line.offset /\ listing[k].line.offset < last
               /\ listing[k].address = base + text.va + (listing[k].line.offset - text.raw)
               /\ \E x \in Decode(bytes, listing[k].line.offset, last) :
                    listing[k].line = LineOf(listing[k].line.offset, x)
    <2>1. k \in 1..Len(swept) /\ swept[k].offset \in Nat
      BY <1>8, LineFields
    <2>2. /\ text.raw <= swept[k].offset /\ swept[k].offset < last
          /\ \E x \in Decode(bytes, swept[k].offset, last) : swept[k] = LineOf(swept[k].offset, x)
      BY <1>8, <2>1 DEF InStep
    <2>3. /\ listing[k].line = swept[k]
          /\ listing[k].address = base + text.va + (swept[k].offset - text.raw)
      BY <1>8, <2>1
    <2> QED
      BY <2>1, <2>2, <2>3
  <1>10. \A k \in 1..Len(listing) : TextInstruction(of, text, last, listing[k])
    BY <1>9 DEF TextInstruction, TextAddress, base, bytes, image
  <1> QED
    BY <1>2, <1>3, <1>4, <1>5, <1>8, <1>9, <1>10 DEF listing, swept, base, bytes, image

\* An instruction refers to something wanted, by the address it is loaded to.
Refers(of, o, text, last) ==
    \E x \in Decode(of.image.bytes, o, last) : \E k \in DOMAIN x.operands :
        LET target == x.operands[k].value +
                IF x.operands[k].relative
                THEN of.image.base + text.va + (o - text.raw) + x.length ELSE 0
        IN  \/ target \in of.functions
            \/ \E p \in 0..Len(of.image.bytes), d \in 0..(StringWindow - 1) :
                StandsAt(of, p) /\ LoadedFrom(of.image, p, target - d)

\* The entries of the listing that refer to something are those instructions.
LEMMA HittingRefers ==
    ASSUME NEW of, IsImage(of), TextSection(of.image) # 0,
           NEW text, text = of.image.sections[TextSection(of.image)],
           NEW last, last = Limit(of.image, text.raw + text.rawSize),
           NEW k \in 1..Len(TextListing(of))
    PROVE  Hitting(of, TextListing(of)[k]) # {}
           <=> Refers(of, TextListing(of)[k].line.offset, text, last)
  <1> DEFINE entry == TextListing(of)[k]
             o == entry.line.offset
             bytes == of.image.bytes
             address == of.image.base + text.va + (o - text.raw)
             Wanted(target) ==
                \/ target \in of.functions
                \/ \E p \in 0..Len(bytes), d \in 0..(StringWindow - 1) :
                    StandsAt(of, p) /\ LoadedFrom(of.image, p, target - d)
             RefOf(x, n) == x.operands[n].value + IF x.operands[n].relative THEN address + x.length ELSE 0
  <1>1. /\ o \in Nat /\ o < last /\ last \in 0..Len(bytes)
        /\ entry.address = address /\ address \in Int
        /\ \E x \in Decode(bytes, o, last) : entry.line = LineOf(o, x)
    <2>1. /\ text.raw \in Nat /\ text.va \in Nat /\ of.image.base \in Nat /\ last \in 0..Len(bytes)
      BY TextEntry
    <2>2. /\ o \in Nat /\ o < last /\ entry.address = address
          /\ \E x \in Decode(bytes, o, last) : entry.line = LineOf(o, x)
      <3>1. TextInstruction(of, text, last, entry)
        BY TextEntry, Zenon
      <3> QED
        BY <3>1, Zenon DEF TextInstruction, TextAddress
    <2> HIDE DEF o, entry
    <2>3. address \in Int
      <3> DEFINE base == of.image.base
               va == text.va
               raw == text.raw
      <3>1. base \in Nat /\ va \in Nat /\ raw \in Nat /\ o \in Nat
        BY <2>1, <2>2
      <3> HIDE DEF base, va, raw
      <3>2. base + va + (o - raw) \in Int
        BY <3>1
      <3> QED
        BY <3>2 DEF base, va, raw
    <2> QED
      BY <2>1, <2>2, <2>3
  <1>2. PICK x \in Decode(bytes, o, last) : entry.line = LineOf(o, x)
    BY <1>1
  <1>3. /\ Decode(bytes, o, last) = {x} /\ x.length \in Nat /\ x.operands \in Seq(Operands)
    <2>1. Disassembles(bytes, last)
      BY <1>1, ImageDisassembles
    <2> HIDE DEF o, bytes
    <2> QED
      BY <1>1, <1>2, <2>1 DEF Disassembles
  <1>4. entry.line.length = x.length /\ entry.line.operands = x.operands
    BY <1>2 DEF LineOf
  <1> HIDE DEF entry, o, bytes, address
  <1>5. ASSUME NEW n \in DOMAIN x.operands
        PROVE  Target(entry, x.operands[n]) = RefOf(x, n) /\ RefOf(x, n) \in Int
    <2> DEFINE operand == x.operands[n]
    <2>1. operand \in Operands
      BY <1>3
    <2>2. operand.value \in Int
      BY <2>1 DEF Operands
    <2>3. Target(entry, operand) = IF operand.relative THEN address + x.length + operand.value
                                   ELSE operand.value
      BY <1>1, <1>4 DEF Target
    <2> HIDE DEF operand
    <2>4. CASE operand.relative
      <3>1. address + x.length + operand.value = operand.value + (address + x.length)
            /\ operand.value + (address + x.length) \in Int
        BY <1>1, <1>3, <2>2
      <3> QED
        BY <2>3, <2>4, <3>1 DEF operand
    <2>5. CASE ~ operand.relative
      <3>1. operand.value = operand.value + 0
        BY <2>2
      <3> QED
        BY <2>2, <2>3, <2>5, <3>1 DEF operand
    <2> QED
      BY <2>4, <2>5
  <1> HIDE DEF RefOf
  <1>6. ASSUME NEW n \in DOMAIN x.operands
        PROVE  Matches(of.image, Target(entry, x.operands[n]), of.needle, of.wide, of.functions)
               <=> Wanted(RefOf(x, n))
    <2> DEFINE target == RefOf(x, n)
    <2>1. Target(entry, x.operands[n]) = target /\ target \in Int
      BY <1>5
    <2> HIDE DEF target
    <2>2. Matches(of.image, target, of.needle, of.wide, of.functions) <=> Wanted(target)
      BY <2>1, MatchesWanted DEF bytes
    <2> QED
      BY <2>1, <2>2 DEF target
  <1> HIDE DEF Wanted
  <1>7. Hitting(of, entry) # {} <=> \E n \in DOMAIN x.operands : Wanted(RefOf(x, n))
    BY <1>4, <1>6 DEF Hitting
  <1>8. Refers(of, o, text, last) <=> \E n \in DOMAIN x.operands : Wanted(RefOf(x, n))
    <2>1. Refers(of, o, text, last)
          <=> \E y \in Decode(bytes, o, last) : \E n \in DOMAIN y.operands : Wanted(RefOf(y, n))
      BY DEF Refers, Wanted, RefOf, address, bytes
    <2> QED
      BY <1>3, <2>1
  <1> QED
    BY <1>7, <1>8 DEF entry, o

\* What is swept, by the way a sweep goes on.
LEMMA SweptIs ==
    ASSUME NEW of, IsImage(of), TextSection(of.image) # 0,
           NEW text, text = of.image.sections[TextSection(of.image)],
           NEW last, last = Limit(of.image, text.raw + text.rawSize), NEW o
    PROVE  o \in Swept(of.image)
           <=> o \in text.raw..(last - 1) /\ Reached(of.image.bytes, text.raw, last, o)
  BY DEF Swept, Onward, Reached

\* There is an entry for an instruction.
EntryAt(listing, o) == \E k \in 1..Len(listing) : listing[k].line.offset = o

\* An instruction that is swept is in the listing, and the other way round.
LEMMA SweptListed ==
    ASSUME NEW of, IsImage(of), TextSection(of.image) # 0,
           NEW text, text = of.image.sections[TextSection(of.image)],
           NEW last, last = Limit(of.image, text.raw + text.rawSize), NEW o
    PROVE  EntryAt(TextListing(of), o)
           <=> o \in Swept(of.image) /\ Decode(of.image.bytes, o, last) # {}
  <1> DEFINE bytes == of.image.bytes
             raw == text.raw
             swept == Sweep(bytes, raw, last)
             listing == TextListing(of)
  <1>1. /\ raw \in Nat /\ last \in 0..Len(bytes) /\ Len(bytes) \in Nat
        /\ Len(listing) = Len(swept)
        /\ \A k \in 1..Len(listing) :
            /\ listing[k].line = swept[k]
            /\ listing[k].line.offset \in Nat
            /\ raw <= listing[k].line.offset /\ listing[k].line.offset < last
    <2>1. /\ raw \in Nat /\ last \in 0..Len(bytes) /\ Len(bytes) \in Nat
          /\ Len(listing) = Len(swept)
      BY TextEntry
    <2>2. ASSUME NEW k \in 1..Len(listing)
          PROVE  listing[k].line = swept[k] /\ TextInstruction(of, text, last, listing[k])
      <3>1. TextInstruction(of, text, last, listing[k])
        BY TextEntry, Zenon
      <3>2. listing[k].line = swept[k]
        BY TextEntry
      <3> QED
        BY <3>1, <3>2
    <2> QED
      BY <2>1, <2>2, Zenon DEF TextInstruction
  <1>2. o \in Swept(of.image) <=> o \in raw..(last - 1) /\ Reached(bytes, raw, last, o)
    BY SweptIs, Zenon
  <1>3. Disassembles(bytes, last)
    BY <1>1, ImageDisassembles
  <1> HIDE DEF listing, swept, bytes, raw
  <1>4. ASSUME o \in raw..(last - 1)
        PROVE  LineAt(swept, o) <=> Decode(bytes, o, last) # {} /\ Reached(bytes, raw, last, o)
    <2>1. last \in Nat /\ last <= Len(bytes) /\ raw <= last
      BY <1>1, <1>4
    <2> QED
      BY <1>1, <1>3, <1>4, <2>1, SweepPlaces DEF swept
  <1>5. \A k \in 1..Len(listing) : listing[k].line.offset \in raw..(last - 1)
    BY <1>1
  <1>6. (\E k \in 1..Len(listing) : listing[k].line.offset = o)
        <=> o \in raw..(last - 1) /\ LineAt(swept, o)
    BY <1>1, <1>5 DEF LineAt
  <1>7. (\E k \in 1..Len(listing) : listing[k].line.offset = o)
        <=> o \in Swept(of.image) /\ Decode(bytes, o, last) # {}
    BY <1>2, <1>4, <1>6
  <1> QED
    BY <1>7 DEF listing, bytes, EntryAt

\* The references are those instructions swept that refer to something wanted, at
\* the addresses they are loaded to.
Exactly(of, text, last, xrefs) ==
    /\ {xrefs[i].line.offset : i \in DOMAIN xrefs} = {o \in Swept(of.image) : Refers(of, o, text, last)}
    /\ \A i \in DOMAIN xrefs : LoadedFrom(of.image, xrefs[i].line.offset, xrefs[i].address)

\* So they are in the report.
LEMMA XrefsRight ==
    ASSUME NEW of, IsImage(of),
           NEW text, text = of.image.sections[TextSection(of.image)],
           NEW last, last = Limit(of.image, text.raw + text.rawSize),
           NEW xrefs, xrefs = Xrefs(of.image, of.needle, of.wide, of.functions)
    PROVE  Exactly(of, text, last, xrefs)
  <1>1. CASE TextSection(of.image) = 0
    <2>1. xrefs = << >>
      BY <1>1 DEF Xrefs
    <2>2. Swept(of.image) = {}
      BY <1>1 DEF Swept
    <2>3. DOMAIN xrefs = {}
      BY <2>1
    <2> HIDE DEF Refers
    <2> QED
      BY <2>2, <2>3 DEF Exactly
  <1>2. CASE TextSection(of.image) # 0
    <2> DEFINE listing == TextListing(of)
               m == Len(listing)
    <2>1. /\ xrefs \in Seq([line : Lines, address : Int])
          /\ \A v : Among(v, xrefs) <=> \E k \in 1..m : listing[k] = v /\ Hitting(of, v) # {}
      BY <1>2, XrefsListed DEF TextListing
    <2>2. ASSUME NEW k \in 1..m
          PROVE  Hitting(of, listing[k]) # {} <=> Refers(of, listing[k].line.offset, text, last)
      BY <1>2, HittingRefers
    <2>3. ASSUME NEW o
          PROVE  EntryAt(listing, o) <=> o \in Swept(of.image) /\ Decode(of.image.bytes, o, last) # {}
      BY <1>2, SweptListed, Zenon
    <2>4. ASSUME NEW k \in 1..m
          PROVE  LoadedFrom(of.image, listing[k].line.offset, listing[k].address)
      <3> DEFINE entry == listing[k]
      <3>1. TextInstruction(of, text, last, entry)
        BY <1>2, TextEntry, Zenon
      <3>2. /\ entry.line.offset \in Nat /\ text.raw <= entry.line.offset /\ entry.line.offset < last
            /\ entry.address = TextAddress(of, text, entry.line.offset)
        BY <3>1, Zenon DEF TextInstruction
      <3>3. AtItsAddress(of, text, entry.line.offset)
        BY <1>2, <3>2, TextEntry, Zenon
      <3> QED
        BY <3>2, <3>3, Zenon DEF AtItsAddress
    <2>5. DOMAIN xrefs = 1..Len(xrefs)
      BY <2>1
    <2>6. ASSUME NEW o, Refers(of, o, text, last) PROVE Decode(of.image.bytes, o, last) # {}
      BY <2>6 DEF Refers
    <2> HIDE DEF listing, m
    <2>7. ASSUME NEW i \in 1..Len(xrefs)
          PROVE  \E k \in 1..m : listing[k] = xrefs[i] /\ Hitting(of, listing[k]) # {}
      <3>1. Among(xrefs[i], xrefs)
        BY DEF Among
      <3> QED
        BY <2>1, <3>1
    <2>8. ASSUME NEW k \in 1..m, Hitting(of, listing[k]) # {}
          PROVE  \E i \in 1..Len(xrefs) : xrefs[i] = listing[k]
      <3>1. Among(listing[k], xrefs)
        BY <2>1, <2>8
      <3> QED
        BY <3>1 DEF Among
    <2>9. ASSUME NEW i \in 1..Len(xrefs)
          PROVE  /\ xrefs[i].line.offset \in Swept(of.image)
                 /\ Refers(of, xrefs[i].line.offset, text, last)
                 /\ LoadedFrom(of.image, xrefs[i].line.offset, xrefs[i].address)
      <3>1. PICK k \in 1..m : listing[k] = xrefs[i] /\ Hitting(of, listing[k]) # {}
        BY <2>7
      <3> QED
        <4>1. EntryAt(listing, xrefs[i].line.offset)
          BY <3>1 DEF EntryAt, m
        <4> QED
          BY <2>2, <2>3, <2>4, <3>1, <4>1
    <2>10. ASSUME NEW o \in Swept(of.image), Refers(of, o, text, last)
           PROVE  \E i \in 1..Len(xrefs) : xrefs[i].line.offset = o
      <3>1. PICK k \in 1..m : listing[k].line.offset = o
        BY <2>3, <2>6, <2>10 DEF EntryAt, m
      <3>2. Hitting(of, listing[k]) # {}
        BY <2>2, <2>10, <3>1
      <3> QED
        BY <2>8, <3>1, <3>2
    <2> QED
      BY <2>5, <2>9, <2>10 DEF Exactly
  <1> QED
    BY <1>1, <1>2

-----------------------------------------------------------------------------
(* The dumps *)

\* One entry of a listing is marked, at or before the place, at its address.
MarksOne(listing, o, first, address) ==
    LET marked == {k \in DOMAIN listing : Marked(listing[k], o)}
    IN  /\ Cardinality(marked) = 1
        /\ \A k \in marked : /\ listing[k].line.offset \in first..o
                             /\ listing[k].address = address + (listing[k].line.offset - first)

\* A sweep has one line over the first byte of an instruction that is seen.
LEMMA OneMarked ==
    ASSUME NEW of, IsImage(of), NEW first \in Nat, NEW limit \in 0..Len(of.image.bytes),
           NEW address \in Int, NEW o \in Nat, first <= o, o < limit,
           Decode(of.image.bytes, o, limit) # {}
    PROVE  MarksOne(Listing(of.image.bytes, first, limit, address), o, first, address)
  <1> DEFINE bytes == of.image.bytes
             swept == Sweep(bytes, first, limit)
             listing == Listing(bytes, first, limit, address)
             marked == {k \in DOMAIN listing : Marked(listing[k], o)}
             Over(k) == o \in swept[k].offset..(swept[k].offset + swept[k].length - 1)
  <1>1. /\ swept \in Seq(Lines) /\ InStep(swept, first, bytes, limit)
        /\ Lists(listing, swept, first, address)
    BY ListingLines, Zenon
  <1> HIDE DEF listing, swept
  <1>2. \A k \in 1..Len(swept) : swept[k].offset \in Nat /\ swept[k].length \in Nat
    BY <1>1, LineFields
  <1>3. /\ DOMAIN listing = 1..Len(swept)
        /\ \A k \in 1..Len(swept) : /\ listing[k].line = swept[k]
                                    /\ listing[k].address = address + (swept[k].offset - first)
    BY <1>1 DEF Lists
  <1>4. marked = {k \in 1..Len(swept) : Over(k)}
    BY <1>3 DEF Marked
  <1>5. PICK k \in 1..Len(swept) : Over(k)
    <2>1. o \in first..(limit - 1)
      OBVIOUS
    <2> QED
      BY <1>1, <2>1 DEF InStep
  <1>6. ASSUME NEW l \in 1..Len(swept), Over(l) PROVE l = k
    <2>1. \A i, j \in 1..Len(swept) : i < j => swept[i].offset + swept[i].length <= swept[j].offset
      BY <1>1 DEF InStep
    <2>2. ASSUME NEW i \in 1..Len(swept), NEW j \in 1..Len(swept), Over(i), Over(j), i < j PROVE FALSE
      <3>1. swept[i].offset + swept[i].length <= swept[j].offset
        BY <2>1, <2>2
      <3>2. o < swept[i].offset + swept[i].length /\ swept[j].offset <= o
        <4>1. \A a, b \in Nat : o \in a..(a + b - 1) => a <= o /\ o < a + b
          OBVIOUS
        <4>2. o \in swept[i].offset..(swept[i].offset + swept[i].length - 1)
              /\ o \in swept[j].offset..(swept[j].offset + swept[j].length - 1)
          BY <2>2
        <4> QED
          BY <1>2, <4>1, <4>2
      <3> QED
        BY <1>2, <3>1, <3>2
    <2>3. k < l \/ l < k \/ l = k
      OBVIOUS
    <2> QED
      BY <1>5, <1>6, <2>2, <2>3
  <1>7. marked = {k}
    BY <1>4, <1>5, <1>6
  <1>8. Cardinality(marked) = 1
    BY <1>7, FS_Singleton
  <1>9. swept[k].offset \in first..o
    <2>1. first <= swept[k].offset
      BY <1>1 DEF InStep
    <2> QED
      BY <1>2, <1>5, <2>1
  <1>10. /\ listing[k].line.offset \in first..o
         /\ listing[k].address = address + (listing[k].line.offset - first)
    BY <1>3, <1>5, <1>9
  <1> QED
    BY <1>7, <1>8, <1>10 DEF listing, MarksOne

\* The dump around a place of the section has one mark, at the address it is
\* loaded to unless the window begins before the section.
TrueContext(image, text, context, o) ==
    LET marked == {k \in DOMAIN context : Marked(context[k], o)}
    IN  /\ Cardinality(marked) = 1
        /\ WindowStart(o) >= text.raw => \A k \in marked :
                LoadedFrom(image, context[k].line.offset, context[k].address)

\* So it is around every instruction of the sweep: the window ends no sooner than
\* the instruction, which is therefore seen in it.
LEMMA ContextTrue ==
    ASSUME NEW of, IsImage(of), TextSection(of.image) # 0,
           NEW text, text = of.image.sections[TextSection(of.image)],
           NEW last, last = Limit(of.image, text.raw + text.rawSize),
           NEW o \in Nat, text.raw <= o, o < last, Decode(of.image.bytes, o, last) # {}
    PROVE  TrueContext(of.image, text, DumpContext(of.image, o), o)
  <1> DEFINE image == of.image
             bytes == image.bytes
             n == Len(bytes)
             first == WindowStart(o)
             limit == Limit(image, o + WindowAfter)
             address == FileOffsetToVa(image, first)
             listing == Listing(bytes, first, limit, address)
             VaOf(q) == image.base + text.va + (q - text.raw)
  <1>1. /\ text.raw \in Nat /\ text.va \in Nat /\ image.base \in Nat /\ last \in 0..n /\ n \in Nat
        /\ \A q \in Nat : text.raw <= q /\ q < last =>
                LoadedFrom(image, q, VaOf(q)) /\ FileOffsetToVa(image, q) = VaOf(q)
    <2>1. ASSUME NEW q \in Nat, text.raw <= q, q < last
          PROVE  LoadedFrom(image, q, VaOf(q)) /\ FileOffsetToVa(image, q) = VaOf(q)
      <3>1. AtItsAddress(of, text, q)
        BY <2>1, TextEntry, Zenon
      <3> QED
        BY <3>1, Zenon DEF AtItsAddress, TextAddress
    <2>2. /\ text.raw \in Nat /\ text.va \in Nat /\ image.base \in Nat /\ last \in 0..n /\ n \in Nat
      BY TextEntry
    <2> QED
      BY <2>1, <2>2
  <1>2. first \in Nat /\ first <= o
    BY ScannerAssumption DEF WindowStart
  <1>3. o < limit /\ limit \in 0..n /\ Decode(bytes, o, limit) # {}
    <2>1. PICK x \in Decode(bytes, o, last) : TRUE
      OBVIOUS
    <2>2. /\ x.length \in Nat /\ x.length # 0 /\ o + x.length <= last
          /\ x.length <= MaxInstruction
          /\ \A l \in (o + x.length)..n : Decode(bytes, o, l) = {x}
      <3>1. Disassembles(bytes, last)
        BY <1>1, ImageDisassembles
      <3>2. Settled(bytes, o, x)
        BY <1>1, <2>1, ImageDisassembles
      <3> HIDE DEF bytes, n
      <3> QED
        BY <2>1, <3>1, <3>2 DEF Disassembles, Settled, n
    <2>3. MaxInstruction <= WindowAfter /\ WindowAfter \in Nat /\ MaxInstruction \in Nat
      BY ScannerAssumption
    <2>4. limit = IF o + WindowAfter < n THEN o + WindowAfter ELSE n
      BY DEF Limit
    <2> HIDE DEF limit, bytes, n
    <2>5. limit \in (o + x.length)..n
      BY <1>1, <2>2, <2>3, <2>4
    <2> QED
      BY <1>1, <2>2, <2>5
  <1>4. address \in Int
    BY <1>2, FromFile
  <1>5. MarksOne(listing, o, first, address)
    BY <1>2, <1>3, <1>4, OneMarked
  <1>6. listing = DumpContext(image, o)
    BY DEF DumpContext
  <1> HIDE DEF listing, address, first, limit
  <1>7. ASSUME first >= text.raw, NEW k \in {m \in DOMAIN listing : Marked(listing[m], o)}
        PROVE  LoadedFrom(image, listing[k].line.offset, listing[k].address)
    <2> DEFINE q == listing[k].line.offset
               base == image.base
               va == text.va
               raw == text.raw
    <2>1. q \in first..o /\ listing[k].address = address + (q - first)
      BY <1>5, <1>7 DEF MarksOne
    <2>2. q \in Nat /\ raw <= q /\ q < last /\ first < last /\ raw <= first
      <3> HIDE DEF q
      <3> QED
        BY <1>1, <1>2, <1>7, <2>1
    <2>3. address = VaOf(first)
      BY <1>1, <1>2, <2>2 DEF address
    <2>4. address + (q - first) = VaOf(q)
      <3>1. base \in Nat /\ va \in Nat /\ raw \in Nat /\ address = base + va + (first - raw)
        BY <1>1, <2>3
      <3>2. VaOf(q) = base + va + (q - raw)
        OBVIOUS
      <3> HIDE DEF base, va, raw, q, VaOf
      <3> QED
        BY <1>2, <2>2, <3>1, <3>2
    <2> QED
      BY <1>1, <2>1, <2>2, <2>4
  <1>8. Cardinality({m \in DOMAIN listing : Marked(listing[m], o)}) = 1
    BY <1>5 DEF MarksOne
  <1> QED
    BY <1>6, <1>7, <1>8 DEF TrueContext, first

\* The dump of a function shows what is loaded at its addresses, as long as they
\* are within the part of the section that the file holds.
LEMMA FunctionDumpTrue ==
    ASSUME NEW of, IsImage(of), NEW i \in 1..Len(of.image.sections), NEW s, s = of.image.sections[i],
           of.va - of.image.base \in s.va..(s.va + s.rawSize - 1),
           NEW dump, dump = DumpFunctionAt(of.image, of.va, of.maxBytes), NEW k \in DOMAIN dump,
           dump[k].line.offset < s.raw + s.rawSize
    PROVE  LoadedFrom(of.image, dump[k].line.offset, dump[k].address)
  <1> DEFINE image == of.image
             base == image.base
             rva == of.va - base
             offset == RvaToFileOffset(image, rva)
             limit == Limit(image, offset + of.maxBytes)
             swept == Sweep(image.bytes, offset, limit)
             q == dump[k].line.offset
             sva == s.va
             raw == s.raw
             size == s.rawSize
             va == of.va
  <1>1. base \in Nat /\ of.maxBytes \in Nat /\ va \in Nat /\ sva \in Nat /\ raw \in Nat /\ size \in Nat
    BY ImageParts
  <1>2. rva \in Nat /\ ~ va < base
    <2>1. rva \in sva..(sva + size - 1) /\ rva = va - base
      OBVIOUS
    <2> HIDE DEF rva, va, base, sva, size
    <2> QED
      BY <1>1, <2>1
  <1>3. offset # NotFound
    <2> SUFFICES ASSUME offset = NotFound PROVE FALSE
      OBVIOUS
    <2>1. dump = << >>
      BY <1>2 DEF DumpFunctionAt
    <2> QED
      BY <2>1
  <1>4. offset = raw + (rva - sva) /\ offset \in Nat
    BY <1>2, <1>3, ToFile
  <1>5. dump = Listing(image.bytes, offset, limit, va)
    BY <1>2, <1>3 DEF DumpFunctionAt
  <1>6. limit \in 0..Len(image.bytes)
    <2> DEFINE maxBytes == of.maxBytes
    <2>1. offset + maxBytes \in Nat
      <3>1. offset \in Nat /\ maxBytes \in Nat
        BY <1>1, <1>4
      <3> HIDE DEF offset, maxBytes
      <3> QED
        BY <3>1
    <2> HIDE DEF offset, maxBytes
    <2> QED
      BY <2>1, LimitWithin DEF maxBytes
  <1>7. /\ swept \in Seq(Lines) /\ InStep(swept, offset, image.bytes, limit)
        /\ Lists(dump, swept, offset, va)
    BY <1>1, <1>4, <1>5, <1>6, ListingLines
  <1> HIDE DEF swept, limit, offset
  <1>8. /\ k \in 1..Len(swept) /\ dump[k].line = swept[k]
        /\ dump[k].address = va + (swept[k].offset - offset)
    BY <1>7 DEF Lists
  <1>9. swept[k].offset \in Nat /\ offset <= swept[k].offset
    BY <1>7, <1>8, LineFields DEF InStep
  <1>10. q \in Nat /\ offset <= q /\ q < raw + size /\ dump[k].address = va + (q - offset)
    BY <1>8, <1>9
  <1>11. q \in raw..(raw + size - 1) /\ dump[k].address = base + sva + (q - raw)
    <2>1. rva \in sva..(sva + size - 1) /\ rva = va - base
      OBVIOUS
    <2> DEFINE address == dump[k].address
    <2>2. address = va + (q - offset)
      BY <1>10
    <2> HIDE DEF rva, va, base, sva, size, raw, q, address
    <2>3. q \in raw..(raw + size - 1) /\ address = base + sva + (q - raw)
      BY <1>1, <1>2, <1>4, <1>10, <2>1, <2>2
    <2> QED
      BY <2>3 DEF address
  <1>12. i \in DOMAIN image.sections
    BY DEF IsImage
  <1> QED
    BY <1>11, <1>12 DEF LoadedFrom

\* A pointer is found where it is loaded, or is said to be loaded nowhere.
LEMMA PointersTrue ==
    ASSUME NEW of, IsImage(of), NEW p \in PointerSearch(of.image, of.pointer)
    PROVE  p.va = 0 \/ LoadedFrom(of.image, p.offset, p.va)
  <1>1. PICK o \in FindAll(of.image.bytes, of.pointer) :
            p = [offset |-> o, va |-> FileOffsetToVa(of.image, o)]
    BY DEF PointerSearch
  <1>2. o \in Nat
    BY ImageParts, <1>1 DEF FindAll
  <1>3. p.offset = o /\ p.va = FileOffsetToVa(of.image, o)
    BY <1>1
  <1> QED
    BY <1>2, <1>3, FromFile

-----------------------------------------------------------------------------
(* The behaviours *)

\* What is computed of an input of any kind is what the functions say of it.
Computed ==
    /\ input.kind = "text" =>
        /\ input.of \in Texts
        /\ output # Pending => output.is = ParseRequest(input.of)
    /\ input.kind = "arguments" =>
        /\ input.of \in ArgumentLists
        /\ output # Pending => output.is = ParseRequest(Rendered(input.of))
    /\ input.kind = "config" =>
        /\ input.of \in ConfigInputs
        /\ output # Pending =>
            output.is = LoadConfig(Written(input.of.settings, input.of.before, input.of.note))
    /\ input.kind = "weather" =>
        /\ input.of \in WeatherInputs
        /\ output # Pending =>
            output.is = Weather(input.of.supported, input.of.controllers, input.of.time_only)
    /\ input.kind = "players" =>
        /\ input.of \in PlayerLists
        /\ output # Pending => output.is = PlayerList(input.of)
    /\ input.kind = "catalogue" =>
        /\ input.of \in CatalogueInputs
        /\ output # Pending => output.is = Catalogue(input.of.entries, input.of.filter)
    /\ input.kind = "image" =>
        /\ input.of \in ImageInputs
        /\ output # Pending => output.is = ScanReport(input.of)

\* Nothing has been computed at the start.
LEMMA ComputedInit == Init => Computed
  <1> SUFFICES ASSUME Init PROVE Computed
    OBVIOUS
  <1>1. output = Pending
    BY DEF Init
  <1>2. input.kind = "arguments" => input.of \in ArgumentLists
    BY DEF Init
  <1>3. input.kind = "weather" => input.of \in WeatherInputs
    BY DEF Init
  <1>4. input.kind = "text" => input.of \in Texts
    BY DEF Init
  <1>5. input.kind = "config" => input.of \in ConfigInputs
    BY DEF Init
  <1>6. input.kind = "image" => input.of \in ImageInputs
    BY DEF Init
  <1>7. input.kind = "players" => input.of \in PlayerLists
    BY DEF Init
  <1>8. input.kind = "catalogue" => input.of \in CatalogueInputs
    BY DEF Init
  <1> QED
    BY <1>1, <1>2, <1>3, <1>4, <1>5, <1>6, <1>7, <1>8, Zenon DEF Computed

\* One step computes the output, from an input that stays.
LEMMA ComputedNext == Computed /\ [Next]_vars => Computed'
  <1> SUFFICES ASSUME Computed, [Next]_vars PROVE Computed'
    OBVIOUS
  <1>1. ASSUME Compute("arguments", ParseRequest(Rendered(input.of)))
       PROVE  Computed'
    <2> DEFINE value == ParseRequest(Rendered(input.of))
    <2>1. input.kind = "arguments" /\ output' = [kind |-> "arguments", is |-> value] /\ input' = input
      BY <1>1, Zenon DEF Compute
    <2> HIDE DEF value
    <2>2. output'.is = value
      BY <2>1
    <2>3. input.of \in ArgumentLists
      BY <2>1, Zenon DEF Computed
    <2>4. /\ input.kind # "weather" /\ input.kind # "text" /\ input.kind # "config"
          /\ input.kind # "players" /\ input.kind # "catalogue" /\ input.kind # "image"
      BY <2>1
    <2> QED
      BY <2>1, <2>2, <2>3, <2>4, Zenon DEF Computed, value
  <1>2. ASSUME Compute("weather", Weather(input.of.supported, input.of.controllers, input.of.time_only))
       PROVE  Computed'
    <2> DEFINE value == Weather(input.of.supported, input.of.controllers, input.of.time_only)
    <2>1. input.kind = "weather" /\ output' = [kind |-> "weather", is |-> value] /\ input' = input
      BY <1>2, Zenon DEF Compute
    <2> HIDE DEF value
    <2>2. output'.is = value
      BY <2>1
    <2>3. input.of \in WeatherInputs
      BY <2>1, Zenon DEF Computed
    <2>4. /\ input.kind # "arguments" /\ input.kind # "text" /\ input.kind # "config"
          /\ input.kind # "players" /\ input.kind # "catalogue" /\ input.kind # "image"
      BY <2>1
    <2> QED
      BY <2>1, <2>2, <2>3, <2>4, Zenon DEF Computed, value
  <1>3. ASSUME Compute("text", ParseRequest(input.of))
       PROVE  Computed'
    <2> DEFINE value == ParseRequest(input.of)
    <2>1. input.kind = "text" /\ output' = [kind |-> "text", is |-> value] /\ input' = input
      BY <1>3, Zenon DEF Compute
    <2> HIDE DEF value
    <2>2. output'.is = value
      BY <2>1
    <2>3. input.of \in Texts
      BY <2>1, Zenon DEF Computed
    <2>4. /\ input.kind # "arguments" /\ input.kind # "weather" /\ input.kind # "config"
          /\ input.kind # "players" /\ input.kind # "catalogue" /\ input.kind # "image"
      BY <2>1
    <2> QED
      BY <2>1, <2>2, <2>3, <2>4, Zenon DEF Computed, value
  <1>4. ASSUME Compute("config", LoadConfig(Written(input.of.settings, input.of.before, input.of.note)))
       PROVE  Computed'
    <2> DEFINE value == LoadConfig(Written(input.of.settings, input.of.before, input.of.note))
    <2>1. input.kind = "config" /\ output' = [kind |-> "config", is |-> value] /\ input' = input
      BY <1>4, Zenon DEF Compute
    <2> HIDE DEF value
    <2>2. output'.is = value
      BY <2>1
    <2>3. input.of \in ConfigInputs
      BY <2>1, Zenon DEF Computed
    <2>4. /\ input.kind # "arguments" /\ input.kind # "weather" /\ input.kind # "text"
          /\ input.kind # "players" /\ input.kind # "catalogue" /\ input.kind # "image"
      BY <2>1
    <2> QED
      BY <2>1, <2>2, <2>3, <2>4, Zenon DEF Computed, value
  <1>5. ASSUME Compute("players", PlayerList(input.of))
       PROVE  Computed'
    <2> DEFINE value == PlayerList(input.of)
    <2>1. input.kind = "players" /\ output' = [kind |-> "players", is |-> value] /\ input' = input
      BY <1>5, Zenon DEF Compute
    <2> HIDE DEF value
    <2>2. output'.is = value
      BY <2>1
    <2>3. input.of \in PlayerLists
      BY <2>1, Zenon DEF Computed
    <2>4. /\ input.kind # "arguments" /\ input.kind # "weather" /\ input.kind # "text"
          /\ input.kind # "config" /\ input.kind # "catalogue" /\ input.kind # "image"
      BY <2>1
    <2> QED
      BY <2>1, <2>2, <2>3, <2>4, Zenon DEF Computed, value
  <1>6. ASSUME Compute("catalogue", Catalogue(input.of.entries, input.of.filter))
       PROVE  Computed'
    <2> DEFINE value == Catalogue(input.of.entries, input.of.filter)
    <2>1. input.kind = "catalogue" /\ output' = [kind |-> "catalogue", is |-> value] /\ input' = input
      BY <1>6, Zenon DEF Compute
    <2> HIDE DEF value
    <2>2. output'.is = value
      BY <2>1
    <2>3. input.of \in CatalogueInputs
      BY <2>1, Zenon DEF Computed
    <2>4. /\ input.kind # "arguments" /\ input.kind # "weather" /\ input.kind # "text"
          /\ input.kind # "config" /\ input.kind # "players" /\ input.kind # "image"
      BY <2>1
    <2> QED
      BY <2>1, <2>2, <2>3, <2>4, Zenon DEF Computed, value
  <1>7. ASSUME Compute("image", ScanReport(input.of))
       PROVE  Computed'
    <2> DEFINE value == ScanReport(input.of)
    <2>1. input.kind = "image" /\ output' = [kind |-> "image", is |-> value] /\ input' = input
      BY <1>7, Zenon DEF Compute
    <2> HIDE DEF value
    <2>2. output'.is = value
      BY <2>1
    <2>3. input.of \in ImageInputs
      BY <2>1, Zenon DEF Computed
    <2>4. /\ input.kind # "arguments" /\ input.kind # "weather" /\ input.kind # "text"
          /\ input.kind # "config" /\ input.kind # "players" /\ input.kind # "catalogue"
      BY <2>1
    <2> QED
      BY <2>1, <2>2, <2>3, <2>4, Zenon DEF Computed, value
  <1>8. ASSUME UNCHANGED vars PROVE Computed'
    BY <1>8, Zenon DEF vars, Computed
  <1> QED
    BY <1>1, <1>2, <1>3, <1>4, <1>5, <1>6, <1>7, <1>8, Zenon DEF Next

\* An output is that of the functions for its input.
LEMMA ComputedAlways == Spec => []Computed
  <1>1. Init => Computed
    BY ComputedInit
  <1>2. Computed /\ [Next]_vars => Computed'
    BY ComputedNext
  <1> QED
    BY <1>1, <1>2, PTL DEF Spec

\* Any arguments rendered as the documentation says, empty ones and ones with
\* blanks, quotes, backslashes and tabs in them, come back as they were if the
\* text, their number and each of them are within the limits, whatever those
\* are, and are refused beyond them (RoundTrip; request_parser.cpp).
THEOREM RoundTrips == Spec => []RoundTrip
  <1>1. Computed => RoundTrip
    <2> SUFFICES ASSUME Computed, input.kind = "arguments", output # Pending PROVE RoundTrip
      BY Zenon DEF RoundTrip, Done
    <2> DEFINE args == input.of
               answer == output.is
    <2>1. args \in Seq(Seq(Uncontrolled))
      BY InputsAssumption, Zenon DEF Computed, Uncontrolled
    <2>2. answer = ParseRequest(Rendered(args))
      BY Zenon DEF Computed
    <2> HIDE DEF args, answer
    <2>3. ParseRequest(Rendered(args)) =
                IF Len(Rendered(args)) <= MaxText /\ Within(args)
                THEN Result("exec", <<"id">>, <<"a">>, args) ELSE Invalid
      BY <2>1, ParseRendered
    <2>4. IF /\ Len(Rendered(args)) <= MaxText
             /\ Len(args) + 3 <= MaxTokens
             /\ \A i \in DOMAIN args : Len(args[i]) <= MaxToken
          THEN answer = Result("exec", <<"id">>, <<"a">>, args)
          ELSE answer = Invalid
      BY <2>2, <2>3, Zenon DEF Within
    <2> QED
      BY <2>4, Zenon DEF RoundTrip, args, answer
  <1> QED
    BY <1>1, ComputedAlways, PTL

\* Any text, under any limits: an !exec is taken only if no control but tabs
\* stands inside, and its steam id, its verb and its arguments behind one another
\* are, letter for letter and in order, what the text has behind the word exec;
\* a SetGodMode is taken only from its three words and nothing else
\* (ExecIsClean; request_parser.cpp, godmode_request.hpp).
THEOREM ExecClean == Spec => []ExecIsClean
  <1>1. Computed => ExecIsClean
    <2> SUFFICES ASSUME Computed, input.kind = "text", output # Pending PROVE ExecIsClean
      BY Zenon DEF ExecIsClean, Done
    <2> DEFINE text == input.of
               answer == output.is
    <2>1. text \in Seq(Symbols)
      <3>1. text \in Texts /\ Texts \subseteq Seq(Symbols)
        BY InputsAssumption, Zenon DEF Computed
      <3> QED
        BY <3>1, Zenon
    <2>2. answer = ParseRequest(text)
      BY Zenon DEF Computed
    <2> HIDE DEF text, answer
    <2>3. CASE answer.action = "exec"
      <3>1. answer = DispatchParse(text)
        BY <2>2, <2>3, OneParser
      <3>2. /\ \A i \in DOMAIN Trimmed(text) : Trimmed(text)[i] \notin Controls
            /\ Only(text, Letters) =
                 <<"exec">> \o Only(FlattenSeq(<<answer.id, answer.verb>> \o answer.args), Letters)
        BY <2>1, <2>3, <3>1, ExecText
      <3>3. answer.action # "set"
        BY <2>3
      <3> QED
        BY <3>2, <3>3, Zenon DEF ExecIsClean, text, answer
    <2>4. CASE answer.action = "set"
      <3>1. answer = GodModeParse(text)
        BY <2>2, <2>4, OneParser
      <3>2. Unhashed(Only(text, Symbols \ Space)) \in {<<"god", "true", "id">>, <<"god", "false", "id">>}
        BY <2>1, <2>4, <3>1, SetText, Zenon DEF Solid
      <3>3. answer.action # "exec"
        BY <2>4
      <3> QED
        BY <3>2, <3>3, Zenon DEF ExecIsClean, text, answer
    <2>5. CASE answer.action # "exec" /\ answer.action # "set"
      BY <2>5, Zenon DEF ExecIsClean, answer
    <2> QED
      BY <2>3, <2>4, <2>5
  <1> QED
    BY <1>1, ComputedAlways, PTL

\* Any settings written as in config.example.ini, with any comments and earlier
\* settings around them, are read back as they were written: a host and a
\* password exactly if no comment sign is in them and no blank at their ends, a
\* port exactly if it fits 16 bits; a setting that is left out has its default,
\* and the loading ends with a port that is no number and only then
\* (ConfigReadBack; load_config in dllmain.cpp).
THEOREM ConfigReturned == Spec => []ConfigReadBack
  <1>1. Computed => ConfigReadBack
    <2> SUFFICES ASSUME Computed, input.kind = "config", output # Pending PROVE ConfigReadBack
      BY SMT DEF ConfigReadBack, Done
    <2> DEFINE c == input.of
               written == c.settings
               configs == output.is
               ports == IF "port" \in DOMAIN written THEN Stoi(Trimmed(written["port"]))
                        ELSE {Defaults.port}
    <2>1. IsConfig(c)
      BY InputsAssumption, Zenon DEF Computed
    <2>2. configs = LoadConfig(Written(c.settings, c.before, c.note))
      BY Zenon DEF Computed
    <2> HIDE DEF configs, c
    <2>3. /\ \A x \in configs, key \in Keys :
               IF key \notin DOMAIN written THEN x[key] = Defaults[key] ELSE HasValue(c, x, key)
          /\ configs = {} <=> "port" \in DOMAIN written /\ Stoi(Read(written["port"], c.note)) = {}
      BY <2>1, <2>2, LoadWritten
    <2>4. /\ DOMAIN written \subseteq Keys /\ IsNote(c.note)
          /\ \A key \in DOMAIN written : written[key] \in Seq(FileSymbols)
      BY <2>1, KeysKnown DEF IsConfig, IsNote
    <2>5. "port" \in DOMAIN written => Stoi(Read(written["port"], c.note)) = ports
      BY <2>4, ReadNumber
    <2>6. Defaults["port"] = 28016 /\ {"bind_host", "port", "password"} = Keys
      BY DEF Defaults, Keys
    <2>7. configs = {} <=> ports = {}
      BY <2>3, <2>5
    <2>8. ASSUME NEW x \in configs, NEW key \in {"bind_host", "password"}
          PROVE  IF key \in DOMAIN written
                 THEN x[key] = written[key] <=> Plain(written[key])
                 ELSE x[key] = Defaults[key]
      <3>1. key \in Keys /\ key # "port"
        BY <2>6
      <3>2. CASE key \in DOMAIN written
        <4>1. x[key] = Read(written[key], c.note)
          BY <2>3, <3>1, <3>2 DEF HasValue
        <4>2. Read(written[key], c.note) = written[key] <=> Plain(written[key])
          BY <2>4, <3>2, ReadPlain
        <4> QED
          BY <3>2, <4>1, <4>2
      <3>3. CASE key \notin DOMAIN written
        BY <2>3, <3>1, <3>3
      <3> QED
        BY <3>2, <3>3
    <2>9. ASSUME NEW x \in configs, NEW port \in ports
          PROVE  x.port = port <=> 0 <= port /\ port <= 65535
      <3>1. CASE "port" \in DOMAIN written
        <4>1. PICK p \in Stoi(Read(written["port"], c.note)) : x["port"] = p % 65536
          BY <2>3, <2>6, <3>1 DEF HasValue
        <4>2. Stoi(Read(written["port"], c.note)) = ports
          BY <2>5, <3>1
        <4>3. ports = {} \/ \E q \in Int : ports = {q}
          <5>1. Read(written["port"], c.note) \in Seq(FileSymbols)
            BY <2>4, <3>1, ReadNumber
          <5> QED
            BY <4>2, <5>1, StoiNumber
        <4> HIDE DEF ports
        <4>4. p \in ports /\ port \in ports
          BY <2>9, <4>1, <4>2
        <4>5. p = port /\ port \in Int
          BY <4>3, <4>4
        <4>6. port % 65536 = port <=> 0 <= port /\ port <= 65535
          BY <4>5, Sixteen
        <4> QED
          BY <4>1, <4>5, <4>6
      <3>2. CASE "port" \notin DOMAIN written
        <4>1. "port" \in Keys
          BY <2>6
        <4>2. x["port"] = Defaults["port"]
          BY <2>3, <2>9, <3>2, <4>1
        <4>3. ports = {Defaults["port"]}
          BY <3>2
        <4> HIDE DEF ports
        <4>4. x["port"] = 28016 /\ port = 28016
          BY <2>6, <2>9, <4>2, <4>3
        <4> QED
          BY <4>4
      <3> QED
        BY <3>1, <3>2
    <2> HIDE DEF ports, written
    <2>10. /\ configs = {} <=> ports = {}
           /\ \A config \in configs :
                /\ \A key \in {"bind_host", "password"} :
                    IF key \in DOMAIN written
                    THEN config[key] = written[key] <=> Plain(written[key])
                    ELSE config[key] = Defaults[key]
                /\ \A port \in ports : config.port = port <=> 0 <= port /\ port <= 65535
      BY <2>7, <2>8, <2>9
    <2> QED
      BY <2>10, SMT DEF ConfigReadBack, configs, c, ports, written
  <1> QED
    BY <1>1, ComputedAlways, PTL

\* On every build, with any controllers and any resolution of the clock: a query
\* is answered exactly if the build is supported and there is one controller,
\* with a time of the day and the required fields readable; an optional field
\* is null where it cannot be read, and the clock shows the minute of the day
\* that the time is in (WeatherIsTrue; live_query_format.hpp).
THEOREM WeatherTrue == Spec => []WeatherIsTrue
  <1>1. Computed => WeatherIsTrue
    <2> SUFFICES ASSUME Computed, input.kind = "weather", output # Pending PROVE WeatherIsTrue
      BY Zenon DEF WeatherIsTrue, Done
    <2> DEFINE supported == input.of.supported
               C == input.of.controllers
               time_only == input.of.time_only
               answers == output.is
    <2>1. IsFiniteSet(C)
      BY InputsAssumption, Zenon DEF Computed
    <2>2. answers = Weather(supported, C, time_only)
      BY Zenon DEF Computed
    <2> HIDE DEF supported, C, time_only, answers
    <2>3. answers # {} <=>
            /\ supported /\ Cardinality(C) = 1
            /\ \A c \in C :
                /\ c.time \in 0..Day
                /\ LiveFloat(c, "timeOfDay")
                /\ time_only \/ \A name \in RequiredWeather : LiveFloat(c, name)
      BY <2>1, <2>2, WeatherExists
    <2>4. ASSUME NEW answer \in answers, NEW c \in C
          PROVE  /\ \A name \in DOMAIN answer.fields :
                    answer.fields[name] =
                        IF name # "windSpeedKph" /\ LiveFloat(c, name) THEN c.fields[name] ELSE "null"
                 /\ time_only => DOMAIN answer.fields \cap RequiredWeather = {}
                 /\ answer.text[1] \in 0..23 /\ answer.text[2] \in 0..59
                 /\ LET shown == (answer.text[1] * 60 + answer.text[2]) * PartsOfMinute
                    IN  c.time % Day \in shown..(shown + PartsOfMinute - 1)
      <3>1. answer \in WeatherJson(c, time_only)
        BY <2>2, WeatherOfOne, Zenon
      <3>2. answer.text \in InGameClock(c.time)
        BY <3>1, JsonShape
      <3>3. /\ \A name \in DOMAIN answer.fields :
                    answer.fields[name] =
                        IF name # "windSpeedKph" /\ LiveFloat(c, name) THEN c.fields[name] ELSE "null"
            /\ time_only => DOMAIN answer.fields \cap RequiredWeather = {}
        BY <3>1, JsonShape
      <3>4. /\ answer.text[1] \in 0..23 /\ answer.text[2] \in 0..59
            /\ LET shown == (answer.text[1] * 60 + answer.text[2]) * PartsOfMinute
               IN  c.time % Day \in shown..(shown + PartsOfMinute - 1)
        BY <3>2, TimeShown, Zenon
      <3> QED
        BY <3>3, <3>4, Zenon
    <2> QED
      BY <2>3, <2>4, Zenon DEF WeatherIsTrue, supported, C, time_only, answers
  <1> QED
    BY <1>1, ComputedAlways, PTL

\* A client that reads the answers of ListPlayers and of the command catalogue
\* line by line and column by column finds every player in order, each with its
\* SteamID, its name up to the last whole character within the limit, and its
\* address once or that it is missing, or the sentence that nobody is there; and
\* exactly the commands that match, each once and in order, whatever is in their
\* names and whatever the limit is (RowsReadBack; registry_dispatch.cpp).
THEOREM RowsReturned == Spec => []RowsReadBack
  <1>1. Computed => RowsReadBack
    <2> SUFFICES ASSUME Computed PROVE RowsReadBack
      OBVIOUS
    <2> DEFINE of == input.of
               answer == output.is
    <2>1. ASSUME Done("players") PROVE of \in PlayerLists /\ answer = PlayerList(of)
      BY <2>1, Zenon DEF Computed, Done
    <2>2. ASSUME Done("catalogue") PROVE of \in CatalogueInputs /\ answer = Catalogue(of.entries, of.filter)
      BY <2>2, Zenon DEF Computed, Done
    <2> HIDE DEF of, answer
    <2>3. ASSUME Done("players"), of # << >>, NEW list \in answer PROVE ListRead(of, list)
      BY <2>1, <2>3, ListIsRead
    <2>4. ASSUME Done("players")
          PROVE  /\ of = << >> => answer = {Nobody}
                 /\ answer = {} <=> \E i \in DOMAIN of : ~ of[i].readable
      <3>1. answer = PlayerList(of)
        BY <2>1, <2>4
      <3>2. of = << >> => DOMAIN of = {}
        OBVIOUS
      <3> QED
        BY <3>1, <3>2 DEF PlayerList
    <2>5. ASSUME Done("catalogue") PROVE CatalogueRead(of, answer)
      BY <2>2, <2>5, CatalogueIsRead
    <2>6. ASSUME Done("players"), of # << >>, NEW list \in answer
          PROVE  LET lines == Split(list, Newline)
                 IN  /\ Len(lines) = Len(of) + 1 /\ Last(lines) = << >>
                     /\ \A i \in DOMAIN of :
                        LET columns == Split(lines[i], Bar) player == of[i]
                        IN  /\ Len(columns) = 3 /\ columns[3] = << >>
                            /\ columns[1][2] = Char(player.id)
                            /\ \E k \in DOMAIN columns[1] : \A l \in DOMAIN columns[1] :
                                columns[1][l] \in {Char("ip"), Char("ipStatus=unavailable")} <=> l = k
                            /\ Shown(columns[2], player.name)
      BY <2>3, <2>6, Zenon DEF ListRead, PlayerRead, IpWords
    <2>7. ASSUME Done("catalogue")
          PROVE  LET lines == Split(answer.rows, Newline)
                 IN  /\ Len(lines) = answer.matched + 1 /\ Last(lines) = << >>
                     /\ \E places \in [1..answer.matched -> DOMAIN of.entries] :
                        /\ \A i, k \in 1..answer.matched : i < k => places[i] < places[k]
                        /\ \A e \in DOMAIN of.entries :
                            Finds(of.entries[e].verb, of.filter)
                            <=> \E i \in 1..answer.matched : places[i] = e
                        /\ \A i \in 1..answer.matched :
                            LET columns == Split(lines[i], Bar) command == of.entries[places[i]]
                            IN  /\ Len(columns) = 3 /\ columns[3] = <<Char(command.unsupported)>>
                                /\ Shown(columns[1], command.verb)
                     /\ answer.total = Len(of.entries)
      BY <2>5, <2>7, Zenon DEF CatalogueRead
    <2> QED
      BY <2>4, <2>6, <2>7, Zenon DEF RowsReadBack, of, answer
  <1> QED
    BY <1>1, ComputedAlways, PTL

\* Of any image of which no two sections share bytes or addresses the reports are
\* exactly the instructions that a sweep of its executable section comes to and
\* that refer into the window of one of its strings, in either encoding, or to a
\* function asked for, each at the address it is loaded to (XrefsExact; main.cpp
\* of pe_xref_scanner).
THEOREM XrefsFound == Spec => []XrefsExact
  <1>1. Computed => XrefsExact
    <2> SUFFICES ASSUME Computed, input.kind = "image", output # Pending PROVE XrefsExact
      BY Zenon DEF XrefsExact, Done
    <2> DEFINE of == input.of
               answer == output.is
               text == of.image.sections[TextSection(of.image)]
               last == Limit(of.image, text.raw + text.rawSize)
               xrefs == Xrefs(of.image, of.needle, of.wide, of.functions)
    <2>1. IsImage(of)
      BY InputsAssumption, Zenon DEF Computed
    <2>2. answer = ScanReport(of)
      BY Zenon DEF Computed
    <2> HIDE DEF of, answer
    <2>3. answer.xrefs = xrefs
      BY <2>2 DEF ScanReport, NoReport, Xrefs
    <2>4. /\ {xrefs[i].line.offset : i \in DOMAIN xrefs} = {o \in Swept(of.image) : Refers(of, o, text, last)}
          /\ \A i \in DOMAIN xrefs : LoadedFrom(of.image, xrefs[i].line.offset, xrefs[i].address)
      <3>1. Exactly(of, text, last, xrefs)
        BY <2>1, XrefsRight, Zenon
      <3> QED
        BY <3>1, Zenon DEF Exactly
    <2> HIDE DEF xrefs
    <2>5. /\ {answer.xrefs[i].line.offset : i \in DOMAIN answer.xrefs}
                = {o \in Swept(of.image) : Refers(of, o, text, last)}
          /\ \A i \in DOMAIN answer.xrefs :
                LoadedFrom(of.image, answer.xrefs[i].line.offset, answer.xrefs[i].address)
      BY <2>3, <2>4, Zenon
    <2> QED
      BY <2>5, Zenon DEF XrefsExact, Refers, StandsAt, of, answer
  <1> QED
    BY <1>1, ComputedAlways, PTL

\* Of any such image the dump around a reference marks one instruction, at the
\* address it is loaded to unless the window begins before the section; the dump
\* of a function shows what is loaded at its addresses as long as the file holds
\* it; and a pointer is found where it is loaded (DumpsAreTrue; main.cpp of
\* pe_xref_scanner).
THEOREM DumpsTrue == Spec => []DumpsAreTrue
  <1>1. Computed => DumpsAreTrue
    <2> SUFFICES ASSUME Computed, input.kind = "image", output # Pending PROVE DumpsAreTrue
      BY Zenon DEF DumpsAreTrue, Done
    <2> DEFINE of == input.of
               answer == output.is
               image == of.image
               text == image.sections[TextSection(image)]
               last == Limit(image, text.raw + text.rawSize)
               xrefs == Xrefs(image, of.needle, of.wide, of.functions)
               dump == DumpFunctionAt(image, of.va, of.maxBytes)
    <2>1. IsImage(of)
      BY InputsAssumption, Zenon DEF Computed
    <2>2. answer = ScanReport(of)
      BY Zenon DEF Computed
    <2> HIDE DEF of, answer
    <2>0. CASE TextSection(image) = 0
      <3>1. answer.xrefs = << >> /\ answer.dump = << >> /\ answer.pointers = {}
        BY <2>0, <2>2 DEF ScanReport, NoReport
      <3>2. DOMAIN answer.xrefs = {} /\ DOMAIN answer.dump = {}
        BY <3>1
      <3> QED
        BY <3>1, <3>2, Zenon DEF DumpsAreTrue, of, answer
    <2> SUFFICES ASSUME TextSection(image) # 0 PROVE DumpsAreTrue
      BY <2>0
    <2>3. /\ answer.xrefs = xrefs /\ answer.dump = dump
          /\ answer.contexts = [i \in DOMAIN xrefs |-> DumpContext(image, xrefs[i].line.offset)]
          /\ answer.pointers = PointerSearch(image, of.pointer)
      BY <2>2 DEF ScanReport
    <2>4. ASSUME NEW i \in DOMAIN xrefs
          PROVE  TrueContext(image, text, DumpContext(image, xrefs[i].line.offset), xrefs[i].line.offset)
      <3> DEFINE o == xrefs[i].line.offset
      <3>1. o \in Swept(image) /\ Refers(of, o, text, last)
        <4>1. Exactly(of, text, last, xrefs)
          BY <2>1, XrefsRight, Zenon
        <4>2. o \in {xrefs[j].line.offset : j \in DOMAIN xrefs}
          OBVIOUS
        <4> HIDE DEF o
        <4> QED
          BY <4>1, <4>2, Zenon DEF Exactly
      <3> HIDE DEF o
      <3>2. TextSection(image) # 0
        BY <3>1 DEF Swept
      <3>3. text.raw \in Nat /\ last \in Nat
        BY <2>1, <3>2, TextEntry
      <3>4. o \in text.raw..(last - 1)
        BY <2>1, <3>1, <3>2, SweptIs
      <3>5. Decode(image.bytes, o, last) # {}
        BY <3>1 DEF Refers
      <3> HIDE DEF text, last
      <3>6. o \in Nat /\ text.raw <= o /\ o < last
        BY <3>3, <3>4
      <3> QED
        BY <2>1, <3>2, <3>5, <3>6, ContextTrue DEF o, text, last
    <2>5. ASSUME NEW k \in DOMAIN dump, NEW i \in DOMAIN image.sections,
                 of.va - image.base \in image.sections[i].va..
                    (image.sections[i].va + image.sections[i].rawSize - 1),
                 dump[k].line.offset < image.sections[i].raw + image.sections[i].rawSize
          PROVE  LoadedFrom(image, dump[k].line.offset, dump[k].address)
      <3>1. image.sections \in Seq(Sections)
        BY <2>1 DEF IsImage, Sections
      <3> DEFINE sections == image.sections
      <3>2. i \in 1..Len(sections)
        <4>1. i \in DOMAIN sections
          OBVIOUS
        <4> HIDE DEF sections
        <4> QED
          BY <3>1, <4>1 DEF sections
      <3> QED
        BY <2>1, <2>5, <3>2, FunctionDumpTrue
    <2>6. \A p \in PointerSearch(image, of.pointer) : p.va = 0 \/ LoadedFrom(image, p.offset, p.va)
      BY <2>1, PointersTrue
    <2> HIDE DEF xrefs, dump
    <2>7. \A i \in DOMAIN answer.xrefs :
            TrueContext(image, text, answer.contexts[i], answer.xrefs[i].line.offset)
      BY <2>3, <2>4, Zenon
    <2> QED
      BY <2>3, <2>5, <2>6, <2>7, Zenon DEF DumpsAreTrue, TrueContext, of, answer
  <1> QED
    BY <1>1, ComputedAlways, PTL

=============================================================================
