--------------------------- MODULE Utf8TextProofs ---------------------------
(***************************************************************************)
(* What the proofs about texts need: induction, sequences put together,    *)
(* and the longest prefix of whole characters.                             *)
(***************************************************************************)
EXTENDS Utf8Text, FiniteSetTheorems, TLAPS

-----------------------------------------------------------------------------
(* Induction up to a number, over a set: the provers instantiate no operator. *)

\* Of sets of parts of a finite set one has no smaller one.
LEMMA SmallestPart ==
    ASSUME NEW S, IsFiniteSet(S), NEW T, T \subseteq SUBSET S, T # {}
    PROVE  \E x \in T : \A y \in T : y \subseteq x => y = x
  <1> DEFINE R == StrictSubsetOrdering(S)
             P == SUBSET S
  <1>1. IsWellFoundedOn(R, P)
    <2>1. FiniteSubsetsOf(S) = P
      BY FS_FiniteSubsetsOfFinite
    <2> QED
      BY <2>1, FS_StrictSubsetOrderingWellFounded
  <1>2. PICK x \in T : \A y \in T : ~ (<<y, x>> \in R)
    <2>1. T \subseteq P
      OBVIOUS
    <2> HIDE DEF R, P
    <2> QED
      BY <1>1, <2>1, WFMin, Zenon
  <1>3. \A y \in T : y \subseteq x => y = x
    BY <1>2, Zenon DEF StrictSubsetOrdering
  <1> QED
    BY <1>3

\* A set with 0 in it, and with every number the successor up to n, has n in it.
LEMMA Induction ==
    ASSUME NEW n \in Nat, NEW S, 0 \in S,
           \A k \in Nat : k < n /\ k \in S => k + 1 \in S
    PROVE  n \in S
  <1> SUFFICES ASSUME n \notin S PROVE FALSE
    OBVIOUS
  <1> DEFINE all == 0..n
             T == {0..k : k \in {j \in 0..n : j \notin S}}
  <1>1. PICK least \in T : \A y \in T : y \subseteq least => y = least
    <2>1. 0..n \in T /\ \A k \in 0..n : 0..k \subseteq 0..n
      OBVIOUS
    <2>2. T \subseteq SUBSET all /\ T # {}
      BY <2>1
    <2>3. IsFiniteSet(all)
      BY FS_Interval
    <2> HIDE DEF T, all
    <2> QED
      BY <2>2, <2>3, SmallestPart
  <1>2. PICK k \in 0..n : k \notin S /\ least = 0..k
    BY <1>1
  <1>3. k # 0 /\ k - 1 \in 0..n
    BY <1>2
  <1>4. CASE k - 1 \in S
    BY <1>2, <1>3, <1>4
  <1>5. CASE k - 1 \notin S
    <2>1. 0..(k - 1) \in T /\ 0..(k - 1) \subseteq least
      BY <1>2, <1>3, <1>5
    <2>2. k \in least /\ k \notin 0..(k - 1)
      BY <1>2, <1>3
    <2> QED
      BY <1>1, <2>1, <2>2
  <1> QED
    BY <1>4, <1>5

\* run lists what a recursion comes to, step by step, up to the n-th.
Runs(run, start, step, n, S) ==
    /\ run \in [0..n -> S]
    /\ run[0] = start
    /\ \A i \in Nat : i < n => run[i + 1] = step[<<run[i], i + 1>>]

\* A recursion whose steps stay in a set comes to something.
LEMMA RunExists ==
    ASSUME NEW S, NEW start \in S, NEW n \in Nat, NEW step \in [S \X (1..n) -> S]
    PROVE  \E run : Runs(run, start, step, n, S)
  <1> DEFINE P == {k \in Nat : k <= n => \E g : Runs(g, start, step, k, S)}
  <1>1. 0 \in P
    <2> DEFINE g == [i \in 0..0 |-> start]
    <2>1. g[0] = start /\ g \in [0..0 -> S]
      OBVIOUS
    <2>2. \A i \in Nat : ~ i < 0
      OBVIOUS
    <2> HIDE DEF g
    <2>3. Runs(g, start, step, 0, S)
      BY <2>1, <2>2, Zenon DEF Runs
    <2> QED
      BY <2>3
  <1>2. ASSUME NEW k \in Nat, k < n, NEW g, Runs(g, start, step, k, S)
        PROVE  \E h : Runs(h, start, step, k + 1, S)
    <2> DEFINE next == step[<<g[k], k + 1>>]
               h == [i \in 0..(k + 1) |-> IF i = k + 1 THEN next ELSE g[i]]
    <2>1. g \in [0..k -> S] /\ g[0] = start
      BY <1>2, Zenon DEF Runs
    <2>2. next \in S
      <3>1. <<g[k], k + 1>> \in S \X (1..n)
        BY <1>2, <2>1
      <3> QED
        BY <3>1
    <2> HIDE DEF next
    <2>3. h \in [0..(k + 1) -> S] /\ h[k + 1] = next /\ \A i \in 0..k : h[i] = g[i]
      BY <2>1, <2>2
    <2> HIDE DEF h
    <2>4. ASSUME NEW i \in Nat, i < k + 1 PROVE h[i + 1] = step[<<h[i], i + 1>>]
      <3>1. CASE i = k
        <4>1. k \in 0..k
          OBVIOUS
        <4> QED
          BY <2>3, <3>1, <4>1, Zenon DEF next
      <3>2. CASE i # k
        <4>1. i < k /\ i \in 0..k /\ i + 1 \in 0..k
          BY <2>4, <3>2
        <4>2. g[i + 1] = step[<<g[i], i + 1>>]
          BY <1>2, <4>1, Zenon DEF Runs
        <4> QED
          BY <2>3, <4>1, <4>2, Zenon
      <3> QED
        BY <3>1, <3>2
    <2>5. h[0] = start
      BY <2>1, <2>3
    <2>6. Runs(h, start, step, k + 1, S)
      BY <2>3, <2>4, <2>5, Zenon DEF Runs
    <2> QED
      BY <2>6
  <1>3. n \in P
    <2>1. \A k \in Nat : k < n /\ k \in P => k + 1 \in P
      BY <1>2
    <2> HIDE DEF P
    <2> QED
      BY <1>1, <2>1, Induction
  <1> QED
    BY <1>3

-----------------------------------------------------------------------------
(* Sequences put together *)

\* Putting sequences together, in any order, and with nothing.
LEMMA Concat ==
    ASSUME NEW T, NEW a \in Seq(T), NEW b \in Seq(T), NEW c \in Seq(T)
    PROVE  /\ a \o b \in Seq(T)
           /\ (a \o b) \o c = a \o (b \o c)
           /\ a \o << >> = a /\ << >> \o a = a
  OBVIOUS

\* The places of two sequences in the one put together.
LEMMA ConcatParts ==
    ASSUME NEW T, NEW a \in Seq(T), NEW b \in Seq(T)
    PROVE  /\ Len(a) \in Nat /\ Len(b) \in Nat
           /\ a \o b \in Seq(T) /\ Len(a \o b) = Len(a) + Len(b)
           /\ \A i \in 1..Len(a) : (a \o b)[i] = a[i]
           /\ \A i \in 1..Len(b) : (a \o b)[Len(a) + i] = b[i]
  OBVIOUS

\* A sequence with those places is the two put together.
LEMMA ConcatIs ==
    ASSUME NEW T, NEW a \in Seq(T), NEW b \in Seq(T),
           NEW c \in Seq(T), Len(c) = Len(a) + Len(b),
           \A i \in 1..Len(a) : c[i] = a[i],
           \A i \in 1..Len(b) : c[Len(a) + i] = b[i]
    PROVE  c = a \o b
  OBVIOUS

\* The places of a part of a sequence.
LEMMA SubSeqParts ==
    ASSUME NEW T, NEW s \in Seq(T), NEW m \in Nat, NEW n \in Nat,
           1 <= m, m <= n + 1, n <= Len(s)
    PROVE  /\ SubSeq(s, m, n) \in Seq(T) /\ Len(SubSeq(s, m, n)) = (n - m) + 1
           /\ \A j \in 1..((n - m) + 1) : SubSeq(s, m, n)[j] = s[(m + j) - 1]
  OBVIOUS

\* joined lists what the first parts come to, up to the n-th.
Joins(joined, parts, n, T) ==
    /\ joined \in [0..n -> Seq(T)]
    /\ joined[0] = << >>
    /\ \A i \in Nat : i < n => joined[i + 1] = joined[i] \o parts[i + 1]

\* The sequences it lists.
LEMMA JoinsType ==
    ASSUME NEW T, NEW parts, NEW joined, NEW n \in Nat, Joins(joined, parts, n, T)
    PROVE  /\ joined[0] = << >>
           /\ \A i \in 0..n : joined[i] \in Seq(T)
  BY Zenon DEF Joins

\* There is such a list for any number of parts.
LEMMA JoinsExist ==
    ASSUME NEW T, NEW parts \in Seq(Seq(T))
    PROVE  \E joined : Joins(joined, parts, Len(parts), T)
  <1> DEFINE n == Len(parts)
             S == Seq(T)
             step == [x \in S \X (1..n) |-> x[1] \o parts[x[2]]]
  <1>1. n \in Nat /\ \A i \in 1..n : parts[i] \in Seq(T)
    OBVIOUS
  <1>2. step \in [S \X (1..n) -> S]
    <2>1. ASSUME NEW x \in S \X (1..n) PROVE x[1] \o parts[x[2]] \in S
      <3>1. x[1] \in Seq(T) /\ parts[x[2]] \in Seq(T)
        BY <1>1
      <3> QED
        BY <3>1
    <2> QED
      BY <2>1
  <1>3. << >> \in S
    OBVIOUS
  <1>4. ASSUME NEW s \in S, NEW i \in 1..n PROVE step[<<s, i>>] = s \o parts[i]
    OBVIOUS
  <1> HIDE DEF step, S, n
  <1>5. PICK joined : Runs(joined, << >>, step, n, S)
    BY <1>1, <1>2, <1>3, RunExists
  <1>6. ASSUME NEW i \in Nat, i < n PROVE joined[i + 1] = joined[i] \o parts[i + 1]
    <2>1. i \in 0..n /\ i + 1 \in 1..n
      BY <1>1, <1>6
    <2>2. joined[i] \in S /\ joined[i + 1] = step[<<joined[i], i + 1>>]
      BY <1>5, <1>6, <2>1, Zenon DEF Runs
    <2> QED
      BY <1>4, <2>1, <2>2
  <1>7. Joins(joined, parts, n, T)
    BY <1>5, <1>6, Zenon DEF Runs, Joins, S
  <1> QED
    BY <1>7 DEF n

\* Two of them agree as far as their parts do.
LEMMA JoinsAgree ==
    ASSUME NEW T, NEW s, NEW t, NEW n \in Nat, NEW m \in Nat,
           NEW f, Joins(f, s, n, T), NEW g, Joins(g, t, m, T),
           n <= m, \A i \in 1..n : s[i] = t[i]
    PROVE  f[n] = g[n]
  <1> DEFINE S == {k \in Nat : f[k] = g[k]}
  <1>1. 0 \in S
    BY JoinsType
  <1>2. ASSUME NEW k \in Nat, k < n, f[k] = g[k] PROVE f[k + 1] = g[k + 1]
    <2>1. k < m /\ s[k + 1] = t[k + 1]
      BY <1>2
    <2>2. f[k + 1] = f[k] \o s[k + 1]
      BY <1>2, Zenon DEF Joins
    <2>3. g[k + 1] = g[k] \o t[k + 1]
      BY <2>1, Zenon DEF Joins
    <2> QED
      BY <1>2, <2>1, <2>2, <2>3, Zenon
  <1>3. n \in S
    <2>1. \A k \in Nat : k < n /\ k \in S => k + 1 \in S
      BY <1>2
    <2> HIDE DEF S
    <2> QED
      BY <1>1, <2>1, Induction
  <1> QED
    BY <1>3

\* FlattenSeq comes to what all parts together come to.
LEMMA FlattenJoins ==
    ASSUME NEW T, NEW parts \in Seq(Seq(T)), NEW joined,
           Joins(joined, parts, Len(parts), T)
    PROVE  FlattenSeq(parts) = joined[Len(parts)]
  <1> DEFINE n == Len(parts)
  <1>1. n \in Nat
    OBVIOUS
  <1>2. CASE n = 0
    <2>1. parts = << >>
      BY <1>2
    <2>2. joined[0] = << >>
      BY Zenon DEF Joins
    <2> QED
      BY <1>2, <2>1, <2>2 DEF FlattenSeq
  <1>3. CASE n # 0
    <2> DEFINE Recurs(g) == g = [i \in 1..n |-> IF i = 1 THEN parts[i] ELSE g[i - 1] \o parts[i]]
               flatten == CHOOSE g : Recurs(g)
               g0 == [i \in 1..n |-> joined[i]]
    <2>1. joined[1] = parts[1]
      <3>1. joined[0 + 1] = joined[0] \o parts[0 + 1] /\ joined[0] = << >>
        <4>1. 0 \in Nat /\ 0 < n
          BY <1>1, <1>3
        <4> HIDE DEF n
        <4> QED
          BY <1>1, <4>1, Zenon DEF Joins, n
      <3>2. parts[1] \in Seq(T)
        BY <1>1, <1>3
      <3> QED
        BY <3>1, <3>2
    <2>2. ASSUME NEW i \in 1..n, i # 1 PROVE joined[i] = g0[i - 1] \o parts[i]
      <3>1. i - 1 \in Nat /\ i - 1 < n /\ i - 1 \in 1..n /\ (i - 1) + 1 = i
        BY <1>1, <2>2
      <3>2. joined[(i - 1) + 1] = joined[i - 1] \o parts[(i - 1) + 1]
        BY <1>1, <3>1, Zenon DEF Joins
      <3>3. g0[i - 1] = joined[i - 1]
        BY <3>1
      <3> HIDE DEF g0
      <3> QED
        BY <3>1, <3>2, <3>3
    <2>3. Recurs(g0)
      <3>1. \A i \in 1..n : joined[i] = IF i = 1 THEN parts[i] ELSE g0[i - 1] \o parts[i]
        BY <2>1, <2>2
      <3> QED
        BY <3>1
    <2>4. Recurs(flatten)
      <3> HIDE DEF Recurs, g0
      <3> QED
        BY <2>3
    <2>5. FlattenSeq(parts) = flatten[n]
      BY <1>3 DEF FlattenSeq
    <2> HIDE DEF flatten
    <2> DEFINE S == {k \in Nat : k = 0 \/ flatten[k] = joined[k]}
    <2>6. ASSUME NEW k \in Nat, k < n, k = 0 \/ flatten[k] = joined[k]
          PROVE  flatten[k + 1] = joined[k + 1]
      <3>1. k + 1 \in 1..n
        BY <1>1, <2>6
      <3>2. flatten[k + 1] = IF k + 1 = 1 THEN parts[k + 1] ELSE flatten[(k + 1) - 1] \o parts[k + 1]
        BY <2>4, <3>1
      <3>3. CASE k = 0
        BY <2>1, <3>2, <3>3
      <3>4. CASE k # 0
        <4>1. joined[k + 1] = joined[k] \o parts[k + 1]
          BY <1>1, <2>6, Zenon DEF Joins
        <4>2. k + 1 # 1 /\ (k + 1) - 1 = k
          BY <3>4
        <4>3. flatten[k + 1] = flatten[k] \o parts[k + 1]
          BY <3>2, <4>2
        <4> QED
          BY <2>6, <3>4, <4>1, <4>3, Zenon
      <3> QED
        BY <3>3, <3>4
    <2>7. n \in S
      <3>1. 0 \in S /\ \A k \in Nat : k < n /\ k \in S => k + 1 \in S
        BY <2>6
      <3> HIDE DEF S, n
      <3> QED
        BY <1>1, <3>1, Induction
    <2> QED
      BY <1>3, <2>5, <2>7
  <1> QED
    BY <1>2, <1>3

\* What it comes to is of the type of its parts.
LEMMA FlattenType ==
    ASSUME NEW T, NEW parts \in Seq(Seq(T))
    PROVE  FlattenSeq(parts) \in Seq(T)
  <1>1. PICK joined : Joins(joined, parts, Len(parts), T)
    BY JoinsExist
  <1>2. Len(parts) \in Nat /\ Len(parts) \in 0..Len(parts)
    OBVIOUS
  <1>3. joined[Len(parts)] \in Seq(T)
    BY <1>1, <1>2, JoinsType
  <1> QED
    BY <1>1, <1>3, FlattenJoins

\* What two lists of parts come to, one behind the other.
LEMMA FlattenConcat ==
    ASSUME NEW T, NEW s \in Seq(Seq(T)), NEW t \in Seq(Seq(T))
    PROVE  FlattenSeq(s \o t) = FlattenSeq(s) \o FlattenSeq(t)
  <1> DEFINE l == Len(s)
             m == Len(t)
             u == s \o t
  <1>1. /\ l \in Nat /\ m \in Nat
        /\ u \in Seq(Seq(T)) /\ Len(u) = l + m
        /\ \A i \in 1..l : u[i] = s[i]
        /\ \A i \in 1..m : u[l + i] = t[i]
        /\ \A i \in 1..m : t[i] \in Seq(T)
    OBVIOUS
  <1> HIDE DEF l, m, u
  <1>2. PICK f : Joins(f, s, l, T)
    BY JoinsExist DEF l
  <1>3. PICK g : Joins(g, t, m, T)
    BY JoinsExist DEF m
  <1>4. PICK h : Joins(h, u, l + m, T)
    BY <1>1, JoinsExist
  <1>5. f[l] = h[l]
    <2>1. /\ l \in Nat /\ l + m \in Nat /\ l <= l + m
          /\ \A i \in 1..l : s[i] = u[i]
      BY <1>1
    <2> QED
      BY <1>2, <1>4, <2>1, JoinsAgree
  <1> DEFINE Holds(k) == h[l + k] = f[l] \o g[k]
             S == {k \in Nat : Holds(k)}
  <1>6. f[l] \in Seq(T) /\ \A k \in 0..m : g[k] \in Seq(T)
    <2>1. l \in 0..l
      BY <1>1
    <2> QED
      BY <1>1, <1>2, <1>3, <2>1, JoinsType, Zenon
  <1>7. 0 \in S
    <2>1. g[0] = << >> /\ l + 0 = l
      BY <1>1, <1>3, JoinsType
    <2>2. f[l] \o << >> = f[l]
      BY <1>6
    <2> QED
      BY <1>5, <2>1, <2>2
  <1>8. ASSUME NEW k \in Nat, k < m, Holds(k) PROVE Holds(k + 1)
    <2>1. /\ l + k \in Nat /\ l + k < l + m /\ (l + k) + 1 = l + (k + 1)
          /\ k \in 0..m /\ k + 1 \in 1..m
      BY <1>1, <1>8
    <2>2. h[(l + k) + 1] = h[l + k] \o u[(l + k) + 1]
      BY <1>4, <2>1, Zenon DEF Joins
    <2>3. g[k + 1] = g[k] \o t[k + 1]
      BY <1>3, <1>8, Zenon DEF Joins
    <2>4. u[(l + k) + 1] = t[k + 1] /\ t[k + 1] \in Seq(T)
      BY <1>1, <2>1
    <2>5. (f[l] \o g[k]) \o t[k + 1] = f[l] \o (g[k] \o t[k + 1])
      <3>1. f[l] \in Seq(T) /\ g[k] \in Seq(T) /\ t[k + 1] \in Seq(T)
        BY <1>6, <2>1, <2>4
      <3> DEFINE a == f[l]
                 b == g[k]
                 c == t[k + 1]
      <3>2. a \in Seq(T) /\ b \in Seq(T) /\ c \in Seq(T)
        BY <3>1
      <3> HIDE DEF a, b, c
      <3>3. (a \o b) \o c = a \o (b \o c)
        BY <3>2
      <3> QED
        BY <3>3 DEF a, b, c
    <2> QED
      BY <1>8, <2>1, <2>2, <2>3, <2>4, <2>5, Zenon
  <1>9. m \in S
    <2>1. \A k \in Nat : k < m /\ k \in S => k + 1 \in S
      <3> HIDE DEF Holds
      <3> QED
        BY <1>8
    <2> HIDE DEF S
    <2> QED
      BY <1>1, <1>7, <2>1, Induction
  <1>10. FlattenSeq(s) = f[l] /\ FlattenSeq(t) = g[m] /\ FlattenSeq(u) = h[l + m]
    <2>1. FlattenSeq(s) = f[l]
      BY <1>2, FlattenJoins DEF l
    <2>2. FlattenSeq(t) = g[m]
      BY <1>3, FlattenJoins DEF m
    <2>3. FlattenSeq(u) = h[l + m]
      BY <1>1, <1>4, FlattenJoins
    <2> QED
      BY <2>1, <2>2, <2>3
  <1> QED
    BY <1>9, <1>10 DEF u

\* A list of one part comes to that part.
LEMMA FlattenOne ==
    ASSUME NEW T, NEW part \in Seq(T)
    PROVE  FlattenSeq(<<part>>) = part
  <1> DEFINE parts == <<part>>
             joined == [i \in 0..1 |-> IF i = 0 THEN << >> ELSE part]
  <1>1. parts \in Seq(Seq(T)) /\ Len(parts) = 1 /\ parts[1] = part
    OBVIOUS
  <1>2. /\ joined \in [0..1 -> Seq(T)] /\ joined[0] = << >> /\ joined[1] = part
    OBVIOUS
  <1> HIDE DEF parts, joined
  <1>3. \A i \in Nat : i < 1 => joined[i + 1] = joined[i] \o parts[i + 1]
    <2>1. joined[1] = joined[0] \o parts[1]
      BY <1>1, <1>2
    <2>2. \A i \in Nat : i < 1 => i = 0
      OBVIOUS
    <2>3. 0 + 1 = 1
      OBVIOUS
    <2> QED
      BY <2>1, <2>2, <2>3, Zenon
  <1>4. Joins(joined, parts, Len(parts), T)
    BY <1>1, <1>2, <1>3, Zenon DEF Joins
  <1> QED
    BY <1>1, <1>2, <1>4, FlattenJoins DEF parts

\* Empty parts come to nothing.
LEMMA FlattenNothing ==
    ASSUME NEW T, NEW parts \in Seq(Seq(T)), \A i \in 1..Len(parts) : parts[i] = << >>
    PROVE  FlattenSeq(parts) = << >>
  <1> DEFINE n == Len(parts)
             joined == [i \in 0..n |-> << >>]
  <1>1. n \in Nat
    OBVIOUS
  <1>2. /\ joined \in [0..n -> Seq(T)] /\ \A i \in 0..n : joined[i] = << >>
    OBVIOUS
  <1> HIDE DEF joined
  <1>3. ASSUME NEW i \in Nat, i < n PROVE joined[i + 1] = joined[i] \o parts[i + 1]
    <2>1. joined[i] = << >> /\ joined[i + 1] = << >> /\ parts[i + 1] = << >>
      BY <1>1, <1>2, <1>3
    <2>2. << >> \o << >> = << >>
      OBVIOUS
    <2> QED
      BY <2>1, <2>2, Zenon
  <1>4. joined[0] = << >> /\ joined[n] = << >>
    BY <1>1, <1>2
  <1>5. Joins(joined, parts, n, T)
    BY <1>2, <1>3, <1>4, Zenon DEF Joins
  <1> QED
    BY <1>4, <1>5, FlattenJoins

\* The part behind the first k stands behind them in the whole.
Placed(joined, parts, n, k) ==
    /\ Len(joined[k + 1]) = Len(joined[k]) + Len(parts[k + 1])
    /\ Len(joined[k + 1]) <= Len(joined[n])
    /\ \A i \in 1..Len(parts[k + 1]) : joined[n][Len(joined[k]) + i] = parts[k + 1][i]

\* Every part stands in the whole.
LEMMA JoinsPlaces ==
    ASSUME NEW T, NEW parts \in Seq(Seq(T)), NEW joined,
           NEW n, n = Len(parts), NEW k \in Nat, k < n,
           Joins(joined, parts, n, T)
    PROVE  Placed(joined, parts, n, k)
  <1> DEFINE all == joined[k + 1]
             Whole(m) == /\ Len(all) <= Len(joined[m])
                         /\ \A i \in 1..Len(all) : joined[m][i] = all[i]
             S == {m \in Nat : m <= k \/ Whole(m)}
  <1>1. n \in Nat /\ \A i \in 1..n : parts[i] \in Seq(T)
    OBVIOUS
  <1>2. \A i \in 0..n : joined[i] \in Seq(T)
    BY <1>1, JoinsType
  <1>3. /\ joined[k] \in Seq(T) /\ parts[k + 1] \in Seq(T) /\ all \in Seq(T)
        /\ all = joined[k] \o parts[k + 1]
    <2>1. k \in 0..n /\ k + 1 \in 0..n /\ k + 1 \in 1..n
      BY <1>1
    <2>2. all = joined[k] \o parts[k + 1]
      BY Zenon DEF Joins
    <2> QED
      BY <1>1, <1>2, <2>1, <2>2
  <1>4. /\ Len(all) = Len(joined[k]) + Len(parts[k + 1])
        /\ Len(all) \in Nat /\ Len(joined[k]) \in Nat /\ Len(parts[k + 1]) \in Nat
        /\ \A i \in 1..Len(parts[k + 1]) : all[Len(joined[k]) + i] = parts[k + 1][i]
    <2> DEFINE a == joined[k]
               b == parts[k + 1]
    <2>1. a \in Seq(T) /\ b \in Seq(T) /\ all = a \o b
      BY <1>3
    <2> HIDE DEF a, b, all
    <2>2. /\ Len(all) = Len(a) + Len(b)
          /\ Len(all) \in Nat /\ Len(a) \in Nat /\ Len(b) \in Nat
          /\ \A i \in 1..Len(b) : all[Len(a) + i] = b[i]
      BY <2>1
    <2> QED
      BY <2>2 DEF a, b
  <1> HIDE DEF all
  <1>5. 0 \in S
    <2> HIDE DEF Whole
    <2> QED
      OBVIOUS
  <1>6. ASSUME NEW m \in Nat, m \in S, m < n PROVE m + 1 \in S
    <2>1. CASE m < k
      BY <2>1
    <2>2. CASE m = k
      <3>1. joined[m + 1] = all /\ Len(all) \in Nat
        BY <1>4, <2>2 DEF all
      <3> QED
        BY <3>1
    <2>3. CASE m > k
      <3> DEFINE a == joined[m]
                 b == parts[m + 1]
                 c == joined[m + 1]
      <3>1. m \in 0..n /\ m + 1 \in 1..n
        BY <1>1, <1>6
      <3>2. a \in Seq(T) /\ b \in Seq(T) /\ c = a \o b
        <4>1. c = a \o b
          BY <1>6, Zenon DEF Joins
        <4> QED
          BY <1>1, <1>2, <3>1, <4>1
      <3>3. Len(all) <= Len(a) /\ \A i \in 1..Len(all) : a[i] = all[i]
        <4>1. ~ m <= k
          BY <2>3
        <4>2. Whole(m)
          <5> HIDE DEF Whole
          <5> QED
            BY <1>6, <4>1
        <4> QED
          BY <4>2
      <3> HIDE DEF a, b, c
      <3>4. Len(all) <= Len(c) /\ \A i \in 1..Len(all) : c[i] = all[i]
        <4>1. /\ Len(c) = Len(a) + Len(b) /\ Len(a) \in Nat /\ Len(b) \in Nat /\ Len(all) \in Nat
              /\ \A i \in 1..Len(a) : c[i] = a[i]
          <5>1. /\ Len(c) = Len(a) + Len(b) /\ Len(a) \in Nat /\ Len(b) \in Nat
                /\ \A i \in 1..Len(a) : c[i] = a[i]
            BY <3>2
          <5>2. Len(all) \in Nat
            BY <1>4
          <5> QED
            BY <5>1, <5>2
        <4>2. \A i \in 1..Len(all) : i \in 1..Len(a)
          BY <3>3, <4>1
        <4> QED
          BY <3>3, <4>1, <4>2
      <3> QED
        BY <3>4 DEF c
    <2> QED
      BY <2>1, <2>2, <2>3
  <1>7. n \in S
    <2>1. \A m \in Nat : m < n /\ m \in S => m + 1 \in S
      BY <1>6
    <2> HIDE DEF S
    <2> QED
      BY <1>1, <1>5, <2>1, Induction
  <1>8. /\ Len(all) <= Len(joined[n])
        /\ \A i \in 1..Len(all) : joined[n][i] = all[i]
    <2>1. ~ n <= k
      BY <1>1
    <2> QED
      BY <1>7, <2>1
  <1>9. ASSUME NEW i \in 1..Len(parts[k + 1])
        PROVE  joined[n][Len(joined[k]) + i] = parts[k + 1][i]
    <2>1. Len(joined[k]) + i \in 1..Len(all)
      <3> DEFINE la == Len(joined[k])
                 lb == Len(parts[k + 1])
                 lc == Len(all)
      <3>1. la \in Nat /\ lb \in Nat /\ lc = la + lb /\ i \in 1..lb
        BY <1>4
      <3> HIDE DEF la, lb, lc
      <3>2. la + i \in 1..lc
        BY <3>1
      <3> QED
        BY <3>2 DEF la, lc
    <2> QED
      BY <1>4, <1>8, <2>1
  <1> QED
    BY <1>4, <1>8, <1>9 DEF all, Placed

-----------------------------------------------------------------------------
(* utf8_prefix_size *)

\* The longest prefix exists, and is what Utf8PrefixSize finds.
LEMMA LongestPrefix ==
    ASSUME NEW T, NEW bytes \in Seq(T), NEW limit \in Nat
    PROVE  LET n == Utf8PrefixSize(bytes, limit)
               m == Smaller(Len(bytes), limit)
           IN  /\ n \in 0..m
               /\ n = 0 \/ n = Len(bytes) \/ ~ Continuation(bytes[n + 1])
               /\ \A k \in (n + 1)..m : k < Len(bytes) /\ Continuation(bytes[k + 1])
  <1> DEFINE l == Len(bytes)
             m == Smaller(l, limit)
             Cut(n) == n = 0 \/ n = l \/ ~ Continuation(bytes[n + 1])
             Longest(n, k) == Cut(n) /\ \A j \in (n + 1)..k : ~ Cut(j)
             S == {k \in 0..m : \E n \in 0..k : Longest(n, k)}
  <1>1. l \in Nat /\ m \in Nat /\ m <= l
    BY DEF Smaller
  <1>2. 0 \in S
    BY <1>1
  <1>3. ASSUME NEW k \in Nat, k < m, k \in S
        PROVE  k + 1 \in S
    <2>1. PICK n \in 0..k : Longest(n, k)
      BY <1>3
    <2>2. CASE Cut(k + 1)
      <3>1. Longest(k + 1, k + 1)
        BY <2>2
      <3> QED
        BY <1>1, <1>3, <3>1
    <2>3. CASE ~ Cut(k + 1)
      <3>1. Longest(n, k + 1)
        <4> SUFFICES ASSUME NEW j \in (n + 1)..(k + 1) PROVE ~ Cut(j)
          BY <2>1
        <4>1. j = k + 1 \/ j \in (n + 1)..k
          OBVIOUS
        <4> QED
          BY <2>1, <2>3, <4>1
      <3> HIDE DEF Longest
      <3> QED
        BY <1>1, <1>3, <3>1
    <2> QED
      BY <2>2, <2>3
  <1>4. m \in S
    <2> HIDE DEF S, m
    <2> QED
      BY <1>1, <1>2, <1>3, Induction
  <1>5. PICK n \in 0..m : Longest(n, m)
    BY <1>4
  <1>6. \A k \in (n + 1)..m : k < l /\ Continuation(bytes[k + 1])
    <2> SUFFICES ASSUME NEW k \in (n + 1)..m PROVE k < l /\ Continuation(bytes[k + 1])
      OBVIOUS
    <2>1. k \in Nat /\ k <= l /\ k # 0
      BY <1>1
    <2>2. ~ Cut(k)
      BY <1>5
    <2> QED
      BY <1>1, <2>1, <2>2
  <1> HIDE DEF l, m
  <1>7. \E k \in 0..m :
            /\ k = 0 \/ k = l \/ ~ Continuation(bytes[k + 1])
            /\ \A j \in (k + 1)..m : j < l /\ Continuation(bytes[j + 1])
    BY <1>5, <1>6, Zenon
  <1>8. Utf8PrefixSize(bytes, limit) =
          CHOOSE k \in 0..m :
            /\ k = 0 \/ k = l \/ ~ Continuation(bytes[k + 1])
            /\ \A j \in (k + 1)..m : j < l /\ Continuation(bytes[j + 1])
    BY DEF Utf8PrefixSize, l, m
  <1>9. LET c == CHOOSE k \in 0..m :
            /\ k = 0 \/ k = l \/ ~ Continuation(bytes[k + 1])
            /\ \A j \in (k + 1)..m : j < l /\ Continuation(bytes[j + 1])
        IN  /\ c \in 0..m
            /\ c = 0 \/ c = l \/ ~ Continuation(bytes[c + 1])
            /\ \A j \in (c + 1)..m : j < l /\ Continuation(bytes[j + 1])
    BY <1>7, Zenon
  <1> QED
    BY <1>8, <1>9, Zenon DEF l, m

\* It is within the text and the limit, and at its ends or before a byte that
\* begins a code point.
LEMMA PrefixSize ==
    ASSUME NEW T, NEW text \in Seq(T), NEW limit \in Nat
    PROVE  /\ Utf8PrefixSize(text, limit) \in 0..Len(text)
           /\ Utf8PrefixSize(text, limit) <= limit
           /\ \/ Utf8PrefixSize(text, limit) \in {0, Len(text)}
              \/ ~ Continuation(text[Utf8PrefixSize(text, limit) + 1])
  <1> DEFINE n == Utf8PrefixSize(text, limit)
             m == Smaller(Len(text), limit)
  <1>1. n \in 0..m /\ (n = 0 \/ n = Len(text) \/ ~ Continuation(text[n + 1]))
    BY LongestPrefix
  <1>2. m \in Nat /\ m <= Len(text) /\ m <= limit /\ Len(text) \in Nat
    BY DEF Smaller
  <1> HIDE DEF n, m
  <1>3. n \in 0..Len(text) /\ n <= limit /\ (n \in {0, Len(text)} \/ ~ Continuation(text[n + 1]))
    BY <1>1, <1>2
  <1> QED
    BY <1>3 DEF n

=============================================================================
