------------------------- MODULE TransformerProofs -------------------------
(***************************************************************************)
(* Theorems about the transforms that cut the bytes of a socket into       *)
(* messages: LengthBasedSplitter, for every layout, any number of frames   *)
(* of any length and any chunks; the decoder of the web inspector;         *)
(* DTXDecoder; and SyslogDecoder.                                          *)
(***************************************************************************)
EXTENDS LengthBasedSplitter, DTXDecoder, WebInspector, Syslog, WellFoundedInduction,
        SequenceTheorems, FiniteSetTheorems, TLAPS

---------------------------------------------------------------------------
(* Induction over numbers, of a set of numbers.                            *)

\* A set with 0 and the successor of each of its numbers has all numbers.
LEMMA Induction ==
  ASSUME NEW T, 0 \in T, \A n \in Nat : n \in T => n + 1 \in T
  PROVE  \A n \in Nat : n \in T
<1> DEFINE R == OpToRel(<, Nat)
<1> DEFINE U == Nat \ T
<1>1. IsWellFoundedOn(R, Nat)
  BY NatLessThanWellFounded
<1>2. \A x, y \in Nat : x < y => <<x, y>> \in R
  BY SMT DEF OpToRel
<1>3. ASSUME U # {} PROVE FALSE
  <2> HIDE DEF R, U
  <2>0. U \subseteq Nat
    BY DEF U
  <2>1. PICK x \in U : \A y \in U : ~ (<<y, x>> \in R)
    BY <1>1, <1>3, WFMin, <2>0
  <2>2. x \in Nat /\ x # 0 /\ x \notin T
    BY <2>0, <2>1 DEF U
  <2>3. x - 1 \in Nat /\ x - 1 < x /\ x = (x - 1) + 1
    BY <2>2
  <2>4. x - 1 \notin U
    BY <1>2, <2>1, <2>2, <2>3
  <2>5. x - 1 \in T
    BY <2>4, <2>3 DEF U
  <2> QED
    BY <2>2, <2>3, <2>5
<1> QED
  BY <1>3

---------------------------------------------------------------------------
(* What FlattenSeq returns.                                                *)

\* The concatenations of the first sequences of a sequence, as FlattenSeq makes them.
Flattening(s, n, g) == g = [i \in 1 .. n |-> IF i = 1 THEN s[i] ELSE g[i - 1] \o s[i]]

\* There are such concatenations.
LEMMA FlatteningExists ==
  ASSUME NEW s
  PROVE  \A n \in Nat : \E g : Flattening(s, n, g)
<1> DEFINE T == {n \in Nat : \E g : Flattening(s, n, g)}
<1>1. 0 \in T
  <2>1. [i \in 1 .. 0 |-> s[i]] = [i \in 1 .. 0 |-> IF i = 1 THEN s[i] ELSE [j \in 1 .. 0 |-> s[j]][i - 1] \o s[i]]
    OBVIOUS
  <2> QED
    BY <2>1 DEF Flattening
<1>2. ASSUME NEW n \in Nat, n \in T
      PROVE  n + 1 \in T
  <2>1. PICK g : Flattening(s, n, g)
    BY <1>2
  <2> DEFINE last == IF n = 0 THEN s[1] ELSE g[n] \o s[n + 1]
             h == [i \in 1 .. n + 1 |-> IF i = n + 1 THEN last ELSE g[i]]
  <2>2. ASSUME NEW i \in 1 .. n + 1
        PROVE  h[i] = IF i = 1 THEN s[i] ELSE h[i - 1] \o s[i]
    <3>1. CASE i = n + 1 /\ n = 0
      BY <3>1
    <3>2. CASE i = n + 1 /\ n # 0
      <4>0. h[i] = last /\ n \in 1 .. n + 1 /\ n # n + 1
        <5> HIDE DEF last
        <5> QED
          BY <3>2
      <4>1. h[i] = g[n] \o s[n + 1] /\ n \in 1 .. n + 1 /\ n # n + 1
        BY <4>0, <3>2
      <4>2. h[n] = g[n]
        BY <4>1
      <4>3. i - 1 = n /\ i # 1
        BY <3>2
      <4> QED
        BY <4>1, <4>2, <4>3, <3>2
    <3>3. CASE i # n + 1
      <4>1. i \in 1 .. n /\ h[i] = g[i]
        BY <3>3
      <4>2. g[i] = IF i = 1 THEN s[i] ELSE g[i - 1] \o s[i]
        BY <4>1, <2>1 DEF Flattening
      <4>3. i # 1 => h[i - 1] = g[i - 1]
        BY <4>1
      <4> QED
        BY <4>1, <4>2, <4>3
    <3> QED
      BY <3>1, <3>2, <3>3
  <2> HIDE DEF last
  <2>3. h = [i \in 1 .. n + 1 |-> IF i = 1 THEN s[i] ELSE h[i - 1] \o s[i]]
    <3>1. h = [i \in 1 .. n + 1 |-> h[i]]
      OBVIOUS
    <3> HIDE DEF h
    <3> QED
      BY <2>2, <3>1
  <2> HIDE DEF h
  <2>4. \E f : Flattening(s, n + 1, f)
    BY <2>3 DEF Flattening
  <2> QED
    BY <2>4
<1>3. \A n \in Nat : n \in T
  <2> HIDE DEF T
  <2> QED
    BY <1>1, <1>2, Induction
<1> QED
  BY <1>3

\* FlattenSeq returns the last of those concatenations.
LEMMA FlattenByPrefixes ==
  ASSUME NEW s, Len(s) \in Nat \ {0}
  PROVE  \E g : Flattening(s, Len(s), g) /\ FlattenSeq(s) = g[Len(s)]
<1>1. FlattenSeq(s) = (CHOOSE g : Flattening(s, Len(s), g))[Len(s)]
  BY DEF FlattenSeq, Flattening
<1>2. \E g : Flattening(s, Len(s), g)
  BY FlatteningExists
<1> QED
  BY <1>1, <1>2

\* Two such concatenations agree where they are of the same sequences.
LEMMA FlatteningUnique ==
  ASSUME NEW s, NEW t, NEW m \in Nat, NEW n \in Nat,
         NEW g, Flattening(s, m, g), NEW h, Flattening(t, n, h)
  PROVE  \A k \in Nat : k \in 1 .. m /\ k \in 1 .. n /\ (\A i \in 1 .. k : s[i] = t[i]) => g[k] = h[k]
<1> DEFINE T == {k \in Nat : k \in 1 .. m /\ k \in 1 .. n /\ (\A i \in 1 .. k : s[i] = t[i]) => g[k] = h[k]}
<1>1. 0 \in T
  OBVIOUS
<1>2. ASSUME NEW i \in Nat, i \in T
      PROVE  i + 1 \in T
  <2> DEFINE j == i + 1
  <2>0. j \in Nat /\ j - 1 = i /\ (j # 1 => i # 0) /\ j \in 1 .. j /\ \A l \in 1 .. i : l \in 1 .. j
    OBVIOUS
  <2> SUFFICES ASSUME j \in 1 .. m, j \in 1 .. n, \A l \in 1 .. j : s[l] = t[l]
               PROVE  g[j] = h[j]
    OBVIOUS
  <2>1. j \in 1 .. m /\ j \in 1 .. n /\ s[j] = t[j] /\ (i # 0 => i \in 1 .. m /\ i \in 1 .. n)
    OBVIOUS
  <2>2. g[j] = IF j = 1 THEN s[j] ELSE g[j - 1] \o s[j]
    BY <2>1 DEF Flattening
  <2>3. h[j] = IF j = 1 THEN t[j] ELSE h[j - 1] \o t[j]
    BY <2>1 DEF Flattening
  <2> HIDE DEF j
  <2>5. j # 1 => g[i] = h[i]
    BY <1>2, <2>0, <2>1
  <2>6. g[j] = h[j]
    BY <2>0, <2>1, <2>2, <2>3, <2>5
  <2> QED
    BY <2>6
<1>3. \A i \in Nat : i \in T
  <2> HIDE DEF T
  <2> QED
    BY <1>1, <1>2, Induction
<1> QED
  BY <1>3

\* FlattenSeq appends what is appended.
LEMMA FlattenAppend ==
  ASSUME NEW S, NEW s \in Seq(Seq(S)), NEW e \in Seq(S)
  PROVE  FlattenSeq(Append(s, e)) = FlattenSeq(s) \o e
<1> DEFINE t == Append(s, e)
           n == Len(s)
           m == n + 1
<1>1. n \in Nat /\ Len(t) = m /\ t[m] = e /\ \A i \in 1 .. n : t[i] = s[i]
  BY AppendProperties, LenProperties
<1>2. m \in Nat \ {0} /\ m \in Nat /\ m - 1 = n /\ n <= m /\ n <= n /\ m \in 1 .. m /\ (m = 1 <=> n = 0)
  BY <1>1
<1>0. n = 0 => s = <<>>
  BY EmptySeq
<1>7. n = 0 => FlattenSeq(s) = s
  BY DEF FlattenSeq
<1>8. <<>> \o e = e
  BY ConcatEmptySeq
<1>9. Len(s) = n /\ Append(s, e) = t
  OBVIOUS
<1> HIDE DEF n, m, t
<1>3. PICK g : Flattening(t, m, g) /\ FlattenSeq(t) = g[m]
  BY <1>1, <1>2, FlattenByPrefixes
<1>4. g[m] = IF m = 1 THEN t[m] ELSE g[m - 1] \o t[m]
  BY <1>2, <1>3 DEF Flattening
<1>5. CASE n = 0
  BY <1>0, <1>1, <1>2, <1>3, <1>4, <1>5, <1>7, <1>8, <1>9
<1>6. CASE n # 0
  <2>0. Len(s) \in Nat \ {0} /\ n \in 1 .. n
    BY <1>1, <1>6, <1>9
  <2>1. PICK h : Flattening(s, n, h) /\ FlattenSeq(s) = h[n]
    BY <1>9, <2>0, FlattenByPrefixes
  <2>2. n \in 1 .. m /\ n \in Nat /\ m \in Nat
    BY <1>1, <1>2, <1>6
  <2>3. g[n] = h[n]
    <3>1. \A i \in 1 .. n : t[i] = s[i]
      BY <1>1
    <3>2. \A k \in Nat : k \in 1 .. m /\ k \in 1 .. n /\ (\A i \in 1 .. k : t[i] = s[i]) => g[k] = h[k]
      BY <1>3, <2>1, <2>2, FlatteningUnique
    <3> QED
      BY <2>0, <2>2, <3>1, <3>2
  <2> QED
    BY <1>1, <1>2, <1>3, <1>4, <1>6, <1>9, <2>0, <2>1, <2>3
<1> QED
  BY <1>5, <1>6

\* FlattenSeq of sequences over a set is a sequence over it.
LEMMA FlattenType ==
  ASSUME NEW S, NEW s \in Seq(Seq(S))
  PROVE  FlattenSeq(s) \in Seq(S)
<1> DEFINE T == {n \in Nat : \A t \in Seq(Seq(S)) : Len(t) = n => FlattenSeq(t) \in Seq(S)}
<1>1. 0 \in T
  <2>1. \A t \in Seq(Seq(S)) : Len(t) = 0 => FlattenSeq(t) = t /\ t = <<>>
    BY EmptySeq DEF FlattenSeq
  <2> QED
    BY <2>1, EmptySeq
<1>2. ASSUME NEW n \in Nat, n \in T
      PROVE  n + 1 \in T
  <2> SUFFICES ASSUME NEW t \in Seq(Seq(S)), Len(t) = n + 1
               PROVE  FlattenSeq(t) \in Seq(S)
    OBVIOUS
  <2>1. t # <<>>
    BY EmptySeq
  <2>2. PICK u \in Seq(Seq(S)), e \in Seq(S) : t = Append(u, e)
    BY <2>1, SequenceEmptyOrAppend
  <2>3. Len(t) = Len(u) + 1 /\ Len(u) \in Nat
    BY <2>2, AppendProperties, LenProperties
  <2>4. Len(u) = n
    BY <2>3
  <2>5. FlattenSeq(u) \in Seq(S)
    BY <1>2, <2>4
  <2>6. FlattenSeq(t) = FlattenSeq(u) \o e
    BY <2>2, FlattenAppend
  <2> QED
    BY <2>5, <2>6, ConcatProperties
<1>3. \A n \in Nat : n \in T
  <2> HIDE DEF T
  <2> QED
    BY <1>1, <1>2, Induction
<1> QED
  BY <1>3, LenProperties

\* The first i of some sequences, one after the other.
Joined(s, i) == FlattenSeq(SubSeq(s, 1, i))

\* What is joined grows by one sequence at a time, and ends with all.
LEMMA JoinedStep ==
  ASSUME NEW S, NEW s \in Seq(Seq(S))
  PROVE  /\ Joined(s, 0) = <<>>
         /\ Joined(s, Len(s)) = FlattenSeq(s)
         /\ \A i \in 0 .. Len(s) : Joined(s, i) \in Seq(S)
         /\ \A i \in Nat : i < Len(s) => Joined(s, i + 1) = Joined(s, i) \o s[i + 1]
<1>0. Len(s) \in Nat /\ \A i \in 1 .. Len(s) : s[i] \in Seq(S)
  BY LenProperties
<1>1. Joined(s, 0) = <<>>
  <2>1. SubSeq(s, 1, 0) = <<>>
    BY SubSeqEmpty
  <2>2. FlattenSeq(<<>>) = <<>>
    BY DEF FlattenSeq
  <2> QED
    BY <2>1, <2>2 DEF Joined
<1>2. Joined(s, Len(s)) = FlattenSeq(s)
  BY SubSeqFull DEF Joined
<1>3. ASSUME NEW i \in 0 .. Len(s)
      PROVE  SubSeq(s, 1, i) \in Seq(Seq(S)) /\ Len(SubSeq(s, 1, i)) = i
  BY <1>0, <1>3, SubSeqProperties
<1>4. \A i \in 0 .. Len(s) : Joined(s, i) \in Seq(S)
  BY <1>3, FlattenType DEF Joined
<1>5. ASSUME NEW i \in Nat, i < Len(s)
      PROVE  Joined(s, i + 1) = Joined(s, i) \o s[i + 1]
  <2>1. i + 1 \in 1 .. Len(s) /\ 1 \in 1 .. Len(s) /\ i + 1 \in 1 .. Len(s) /\ (i + 1) - 1 = i /\ i \in 0 .. Len(s)
    BY <1>0, <1>5
  <2>2. SubSeq(s, 1, i + 1) = SubSeq(s, 1, i) \o <<s[i + 1]>>
    BY <2>1, SubSeqRecursiveSecond
  <2>3. SubSeq(s, 1, i + 1) = Append(SubSeq(s, 1, i), s[i + 1])
    BY <2>1, <2>2, <1>0, <1>3, AppendIsConcat
  <2> QED
    BY <2>1, <2>3, <1>0, <1>3, FlattenAppend DEF Joined
<1> QED
  BY <1>1, <1>2, <1>4, <1>5

\* What is joined later begins with what was joined before.
LEMMA JoinedPrefix ==
  ASSUME NEW S, NEW s \in Seq(Seq(S))
  PROVE  \A j \in Nat : \A i \in Nat : i <= j /\ j <= Len(s) =>
           /\ Len(Joined(s, i)) <= Len(Joined(s, j))
           /\ \A m \in 1 .. Len(Joined(s, i)) : Joined(s, j)[m] = Joined(s, i)[m]
<1> DEFINE Prefix(i, j) == /\ Len(Joined(s, i)) <= Len(Joined(s, j))
                           /\ \A m \in 1 .. Len(Joined(s, i)) : Joined(s, j)[m] = Joined(s, i)[m]
           T == {j \in Nat : \A i \in Nat : i <= j /\ j <= Len(s) => Prefix(i, j)}
<1>0. Len(s) \in Nat /\ \A i \in 1 .. Len(s) : s[i] \in Seq(S)
  BY LenProperties
<1>1. \A i \in Nat : i <= Len(s) => Joined(s, i) \in Seq(S) /\ Len(Joined(s, i)) \in Nat
  BY <1>0, JoinedStep, LenProperties
<1>2. \A i \in Nat : i <= Len(s) => Prefix(i, i)
  BY <1>1
<1>3. 0 \in T
  BY <1>2
<1>4. ASSUME NEW j \in Nat, j \in T
      PROVE  j + 1 \in T
  <2> SUFFICES ASSUME j + 1 <= Len(s), NEW i \in Nat, i <= j + 1
               PROVE  Prefix(i, j + 1)
    OBVIOUS
  <2>1. CASE i = j + 1
    BY <1>2, <2>1
  <2>2. CASE i # j + 1
    <3>1. i <= j /\ j < Len(s) /\ j <= Len(s) /\ j + 1 \in 1 .. Len(s) /\ j + 1 \in Nat /\ i <= Len(s)
      BY <1>0, <2>2
    <3>2. Prefix(i, j)
      BY <1>4, <3>1
    <3>3. Joined(s, j + 1) = Joined(s, j) \o s[j + 1]
      BY <3>1, JoinedStep
    <3>4. /\ Len(Joined(s, j + 1)) = Len(Joined(s, j)) + Len(s[j + 1])
          /\ \A m \in 1 .. Len(Joined(s, j)) + Len(s[j + 1]) :
               Joined(s, j + 1)[m] = IF m <= Len(Joined(s, j)) THEN Joined(s, j)[m] ELSE s[j + 1][m - Len(Joined(s, j))]
      <4>1. s[j + 1] \in Seq(S) /\ Joined(s, j) \in Seq(S)
        BY <1>0, <1>1, <3>1
      <4> QED
        BY <3>3, <4>1, ConcatProperties
    <3>5. Len(s[j + 1]) \in Nat
      BY <1>0, <3>1, LenProperties
    <3>6. Len(Joined(s, j)) \in Nat /\ Len(Joined(s, i)) \in Nat
      BY <1>1, <3>1
    <3> DEFINE a == Len(Joined(s, j))
               b == Len(s[j + 1])
               c == Len(Joined(s, i))
    <3>7. c <= a /\ a \in Nat /\ b \in Nat /\ c \in Nat
      BY <3>2, <3>5, <3>6
    <3>8. /\ Len(Joined(s, j + 1)) = a + b
          /\ \A m \in 1 .. a + b : m <= a => Joined(s, j + 1)[m] = Joined(s, j)[m]
          /\ \A m \in 1 .. c : Joined(s, j)[m] = Joined(s, i)[m]
      BY <3>2, <3>4
    <3>9. c <= Len(Joined(s, j + 1)) /\ \A m \in 1 .. c : Joined(s, j + 1)[m] = Joined(s, i)[m]
      <4> HIDE DEF a, b, c
      <4> QED
        BY <3>7, <3>8
    <3> QED
      BY <3>9
  <2> QED
    BY <2>1, <2>2
<1>5. \A j \in Nat : j \in T
  <2> HIDE DEF T
  <2> QED
    BY <1>3, <1>4, Induction
<1> QED
  BY <1>5

\* Where an element of one of the sequences is when all are joined.
LEMMA JoinedElement ==
  ASSUME NEW S, NEW s \in Seq(Seq(S)), NEW i \in Nat, i < Len(s)
  PROVE  /\ Len(Joined(s, i + 1)) = Len(Joined(s, i)) + Len(s[i + 1])
         /\ Len(Joined(s, i + 1)) <= Len(FlattenSeq(s))
         /\ \A j \in 1 .. Len(s[i + 1]) : FlattenSeq(s)[Len(Joined(s, i)) + j] = s[i + 1][j]
<1>0. Len(s) \in Nat /\ \A m \in 1 .. Len(s) : s[m] \in Seq(S)
  BY LenProperties
<1>1. i + 1 \in 1 .. Len(s) /\ i \in 0 .. Len(s) /\ i + 1 \in Nat /\ i + 1 <= Len(s)
  BY <1>0
<1>2. s[i + 1] \in Seq(S) /\ Joined(s, i) \in Seq(S) /\ Joined(s, i + 1) = Joined(s, i) \o s[i + 1]
  BY <1>0, <1>1, JoinedStep
<1> DEFINE a == Len(Joined(s, i))
           b == Len(s[i + 1])
           J == Joined(s, i + 1)
<1>3. a \in Nat /\ b \in Nat
  BY <1>2, LenProperties
<1>4. Len(J) = a + b /\ \A m \in 1 .. a + b : J[m] = IF m <= a THEN Joined(s, i)[m] ELSE s[i + 1][m - a]
  BY <1>2, ConcatProperties
<1>5. Len(J) <= Len(FlattenSeq(s)) /\ \A m \in 1 .. Len(J) : FlattenSeq(s)[m] = J[m]
  <2>1. Len(s) <= Len(s) /\ Joined(s, Len(s)) = FlattenSeq(s)
    BY <1>0, JoinedStep
  <2> QED
    BY <1>0, <1>1, <2>1, JoinedPrefix
<1>6. \A j \in 1 .. b : a + j \in 1 .. a + b /\ ~(a + j <= a) /\ (a + j) - a = j
  <2> HIDE DEF a, b
  <2> QED
    BY <1>3
<1>7. \A j \in 1 .. b : FlattenSeq(s)[a + j] = s[i + 1][j]
  <2> HIDE DEF a, b, J
  <2> QED
    BY <1>4, <1>5, <1>6
<1> QED
  BY <1>4, <1>5, <1>7

\* Concatenation is associative.
LEMMA Associative ==
  ASSUME NEW S, NEW u, NEW v, NEW w, u \in Seq(S), v \in Seq(S), w \in Seq(S),
         NEW x, x = u \o v, NEW y, y = v \o w, NEW z, z = x \o w
  PROVE  z = u \o y
  BY ConcatAssociative

\* Those behind the first k, up to the n-th, one after the other.
Behind(s, k, n) == FlattenSeq(SubSeq(s, k + 1, n))

\* What is behind the first k sequences is the others, joined.
LEMMA JoinedSuffix ==
  ASSUME NEW S, NEW s \in Seq(Seq(S)), NEW k \in 0 .. Len(s)
  PROVE  FlattenSeq(s) = Joined(s, k) \o FlattenSeq(SubSeq(s, k + 1, Len(s)))
<1> DEFINE T == {n \in Nat : k + n <= Len(s) => Joined(s, k + n) = Joined(s, k) \o Behind(s, k, k + n)}
<1>0. Len(s) \in Nat /\ k \in Nat /\ \A m \in 1 .. Len(s) : s[m] \in Seq(S)
  BY LenProperties
<1>1. 0 \in T
  <2>1. SubSeq(s, k + 1, k + 0) = <<>>
    BY <1>0, SubSeqEmpty
  <2>2. Behind(s, k, k + 0) = <<>>
    BY <2>1 DEF FlattenSeq, Behind
  <2>3. Joined(s, k) \o <<>> = Joined(s, k) /\ k + 0 = k
    BY <1>0, JoinedStep, ConcatEmptySeq
  <2> QED
    BY <2>2, <2>3
<1>2. ASSUME NEW n \in Nat, n \in T
      PROVE  n + 1 \in T
  <2> SUFFICES ASSUME k + (n + 1) <= Len(s)
               PROVE  Joined(s, k + (n + 1)) = Joined(s, k) \o Behind(s, k, k + (n + 1))
    OBVIOUS
  <2> DEFINE j == k + n
  <2>1. /\ j \in Nat /\ j < Len(s) /\ k + (n + 1) = j + 1 /\ j + 1 \in 1 .. Len(s) /\ (j + 1) - 1 = j
        /\ k + 1 \in 1 .. Len(s) /\ j + 1 \in k + 1 .. Len(s) /\ k \in 0 .. Len(s) /\ j <= Len(s)
    BY <1>0
  <2>2. Joined(s, j) = Joined(s, k) \o Behind(s, k, j)
    BY <1>2, <2>1
  <2>3. SubSeq(s, k + 1, j + 1) = SubSeq(s, k + 1, j) \o <<s[j + 1]>>
    <3> HIDE DEF j
    <3> QED
      BY <2>1, SubSeqRecursiveSecond
  <2>4. SubSeq(s, k + 1, j) \in Seq(Seq(S))
    <3>1. \A i \in k + 1 .. j : s[i] \in Seq(S)
      BY <1>0, <2>1
    <3> HIDE DEF j
    <3> QED
      BY <1>0, <2>1, <3>1, SubSeqProperties
  <2>5. s[j + 1] \in Seq(S)
    BY <1>0, <2>1
  <2>6. SubSeq(s, k + 1, j + 1) = Append(SubSeq(s, k + 1, j), s[j + 1])
    <3> HIDE DEF j
    <3> QED
      BY <2>3, <2>4, <2>5, AppendIsConcat
  <2>7. Behind(s, k, j + 1) = Behind(s, k, j) \o s[j + 1] /\ Behind(s, k, j) \in Seq(S)
    <3> HIDE DEF j
    <3> QED
      BY <2>4, <2>5, <2>6, FlattenAppend, FlattenType DEF Behind
  <2>8. Joined(s, j + 1) = Joined(s, j) \o s[j + 1] /\ Joined(s, k) \in Seq(S)
    <3> HIDE DEF j
    <3> QED
      BY <2>1, JoinedStep
  <2>9. Joined(s, j + 1) = Joined(s, k) \o Behind(s, k, j + 1)
    <3> HIDE DEF j
    <3>1. PICK e, x, y, z, u, v : /\ e = s[j + 1] /\ x = Joined(s, j) /\ y = Behind(s, k, j + 1)
                                  /\ z = Joined(s, j + 1) /\ u = Joined(s, k) /\ v = Behind(s, k, j)
      OBVIOUS
    <3>2. /\ u \in Seq(S) /\ v \in Seq(S) /\ e \in Seq(S)
          /\ x = u \o v /\ y = v \o e /\ z = x \o e
      BY <2>2, <2>5, <2>7, <2>8, <3>1
    <3>3. z = u \o y
      BY <3>2, Associative, SMTT(60)
    <3> QED
      BY <3>1, <3>3
  <2> QED
    BY <2>1, <2>9
<1>3. \A n \in Nat : n \in T
  <2> HIDE DEF T
  <2> QED
    BY <1>1, <1>2, Induction
<1>4. Len(s) - k \in Nat /\ k + (Len(s) - k) = Len(s)
  BY <1>0
<1>5. Joined(s, Len(s)) = Joined(s, k) \o Behind(s, k, Len(s))
  <2>1. Len(s) - k \in T
    <3> HIDE DEF T
    <3> QED
      BY <1>3, <1>4
  <2>2. k + (Len(s) - k) <= Len(s)
    BY <1>0
  <2>3. Joined(s, k + (Len(s) - k)) = Joined(s, k) \o Behind(s, k, k + (Len(s) - k))
    BY <2>1, <2>2
  <2> QED
    BY <1>4, <2>3
<1> QED
  BY <1>5, JoinedStep DEF Behind

---------------------------------------------------------------------------
(* Numbers and their digits.                                               *)

\* A function whose first value is c and each other value F of the one before.
Iterates(c, F, n, f) ==
  f \in [0 .. n -> Nat] /\ f[0] = c /\ \A i \in 1 .. n : f[i] = F[<<f[i - 1], i>>]

\* There is one.
LEMMA IterationExists ==
  ASSUME NEW c \in Nat, NEW F, \A v \in Nat, i \in Nat : F[<<v, i>>] \in Nat
  PROVE  \A k \in Nat : \E f : Iterates(c, F, k, f)
<1> DEFINE T == {n \in Nat : \E f : Iterates(c, F, n, f)}
<1>1. 0 \in T
  <2>1. Iterates(c, F, 0, [i \in 0 .. 0 |-> c])
    BY DEF Iterates
  <2> QED
    BY <2>1
<1>2. ASSUME NEW n \in Nat, n \in T
      PROVE  n + 1 \in T
  <2>1. PICK f : Iterates(c, F, n, f)
    BY <1>2
  <2> DEFINE last == F[<<f[n], n + 1>>]
             h == [i \in 0 .. n + 1 |-> IF i = n + 1 THEN last ELSE f[i]]
  <2>2. last \in Nat
    BY <2>1 DEF Iterates
  <2>3. h \in [0 .. n + 1 -> Nat] /\ h[0] = c /\ h[n + 1] = last /\ \A i \in 0 .. n : h[i] = f[i]
    <3> HIDE DEF last
    <3> QED
      BY <2>1, <2>2 DEF Iterates
  <2>4. ASSUME NEW i \in 1 .. n + 1
        PROVE  h[i] = F[<<h[i - 1], i>>]
    <3> HIDE DEF h
    <3>1. CASE i = n + 1
      <4>1. n \in 0 .. n /\ i - 1 = n
        BY <3>1
      <4> QED
        BY <2>3, <3>1, <4>1
    <3>2. CASE i # n + 1
      <4>1. i \in 1 .. n /\ i \in 0 .. n /\ i - 1 \in 0 .. n
        BY <3>2
      <4> QED
        BY <2>1, <2>3, <4>1 DEF Iterates
    <3> QED
      BY <3>1, <3>2
  <2> HIDE DEF h
  <2>5. Iterates(c, F, n + 1, h)
    BY <2>3, <2>4 DEF Iterates
  <2> QED
    BY <2>5
<1>3. \A n \in Nat : n \in T
  <2> HIDE DEF T
  <2> QED
    BY <1>1, <1>2, Induction
<1> QED
  BY <1>3

\* Every element of HigherDigits is the one before without its last digit.
LEMMA HigherDigitsStep ==
  ASSUME NEW n \in Nat
  PROVE  /\ HigherDigits(n)[0] = n
         /\ \A i \in 0 .. FieldLength : HigherDigits(n)[i] \in Nat
         /\ \A i \in 1 .. FieldLength : HigherDigits(n)[i] = HigherDigits(n)[i - 1] \div Base
<1>0. Base \in Nat \ {0, 1} /\ FieldLength \in Nat \ {0}
  BY SplitterAssumption
<1> DEFINE Is(g) == g = [i \in 0 .. FieldLength |-> IF i = 0 THEN n ELSE g[i - 1] \div Base]
           F == [p \in Nat \X Nat |-> p[1] \div Base]
           h == HigherDigits(n)
<1>1. \A v \in Nat, i \in Nat : F[<<v, i>>] = v \div Base /\ v \div Base \in Nat
  BY <1>0
<1>2. \E f : Is(f)
  <2>0. PICK G : G = F
    OBVIOUS
  <2> HIDE DEF F
  <2>1. \A v \in Nat, i \in Nat : G[<<v, i>>] \in Nat
    BY <1>1, <2>0
  <2>2. PICK f : f \in [0 .. FieldLength -> Nat] /\ f[0] = n /\ \A i \in 1 .. FieldLength : f[i] = G[<<f[i - 1], i>>]
    <3>1. \E f : Iterates(n, G, FieldLength, f)
      BY <1>0, <2>1, IterationExists
    <3> QED
      BY <3>1 DEF Iterates
  <2>3. ASSUME NEW i \in 0 .. FieldLength
        PROVE  f[i] = IF i = 0 THEN n ELSE f[i - 1] \div Base
    <3>1. CASE i = 0
      BY <2>2, <3>1
    <3>2. CASE i # 0
      <4>1. i \in 1 .. FieldLength /\ i - 1 \in 0 .. FieldLength /\ i \in Nat
        BY <1>0, <3>2
      <4> QED
        BY <1>1, <2>0, <2>2, <3>2, <4>1
    <3> QED
      BY <3>1, <3>2
  <2>4. f = [i \in 0 .. FieldLength |-> f[i]]
    BY <2>2
  <2>5. Is(f)
    BY <2>3, <2>4
  <2> QED
    BY <2>5
<1>3. h = CHOOSE g : Is(g)
  BY DEF HigherDigits
<1>4. Is(h)
  <2> HIDE DEF Is, h
  <2> QED
    BY <1>2, <1>3
<1>5. h[0] = n /\ \A i \in 1 .. FieldLength : h[i] = h[i - 1] \div Base
  <2> HIDE DEF h
  <2> QED
    BY <1>0, <1>4
<1>6. \A i \in 0 .. FieldLength : h[i] \in Nat
  <2> HIDE DEF h
  <2> DEFINE T == {i \in Nat : i \in 0 .. FieldLength => h[i] \in Nat}
  <2>1. 0 \in T
    BY <1>5
  <2>2. ASSUME NEW i \in Nat, i \in T
        PROVE  i + 1 \in T
    <3> SUFFICES ASSUME i + 1 \in 0 .. FieldLength
                 PROVE  h[i + 1] \in Nat
      OBVIOUS
    <3>1. i + 1 \in 1 .. FieldLength /\ (i + 1) - 1 = i /\ i \in 0 .. FieldLength
      BY <1>0
    <3>2. h[i + 1] = h[i] \div Base /\ h[i] \in Nat
      BY <1>5, <2>2, <3>1
    <3> QED
      BY <1>0, <3>2
  <2>3. \A i \in Nat : i \in T
    <3> HIDE DEF T
    <3> QED
      BY <2>1, <2>2, Induction
  <2> QED
    BY <2>3
<1> QED
  BY <1>5, <1>6

\* What _readLength takes for the i-th digit.
Digit(bytes, i) == IF LittleEndian THEN bytes[Offset + FieldLength - i] ELSE bytes[Offset + i - 1]

\* A quotient and a remainder give back the number divided.
LEMMA DivisionTheorem ==
  ASSUME NEW m \in Nat, NEW b \in Nat \ {0}
  PROVE  (m \div b) * b + (m % b) = m
  OBVIOUS

\* A number that fits the field is read back from its digits.
LEMMA ReadLengthOfDigits ==
  ASSUME NEW n \in Nat, HigherDigits(n)[FieldLength] = 0, NEW bytes,
         \A i \in 1 .. FieldLength : Digit(bytes, i) = HigherDigits(n)[FieldLength - i] % Base
  PROVE  ReadLength(bytes) = n
<1>0. Base \in Nat \ {0, 1} /\ FieldLength \in Nat \ {0}
  BY SplitterAssumption
<1> DEFINE d(i) == Digit(bytes, i)
           Is(g) == g = [i \in 0 .. FieldLength |-> IF i = 0 THEN 0 ELSE g[i - 1] * Base + d(i)]
           F == [p \in Nat \X Nat |-> IF p[2] \in 1 .. FieldLength THEN p[1] * Base + d(p[2]) ELSE 0]
           h == HigherDigits(n)
<1>1. \A i \in 1 .. FieldLength : d(i) \in Nat /\ d(i) = h[FieldLength - i] % Base
  <2>1. ASSUME NEW i \in 1 .. FieldLength
        PROVE  h[FieldLength - i] % Base \in Nat
    <3>1. FieldLength - i \in 0 .. FieldLength
      BY <1>0
    <3>2. h[FieldLength - i] \in Nat
      BY <3>1, HigherDigitsStep
    <3> HIDE DEF h
    <3> QED
      BY <1>0, <3>2
  <2> HIDE DEF h
  <2> QED
    BY <2>1 DEF h
<1> HIDE DEF d
<1>2. \A v \in Nat, i \in Nat : /\ F[<<v, i>>] \in Nat
                                /\ i \in 1 .. FieldLength => F[<<v, i>>] = v * Base + d(i)
  <2> HIDE DEF h
  <2> QED
    BY <1>0, <1>1
<1>3. \E f : Is(f)
  <2>0. PICK G : G = F
    OBVIOUS
  <2> HIDE DEF F
  <2>1. \A v \in Nat, i \in Nat : G[<<v, i>>] \in Nat
    BY <1>2, <2>0
  <2>2. PICK f : f \in [0 .. FieldLength -> Nat] /\ f[0] = 0 /\ \A i \in 1 .. FieldLength : f[i] = G[<<f[i - 1], i>>]
    <3> HIDE DEF Is, h
    <3>1. \A k \in Nat : \E f : Iterates(0, G, k, f)
      <4>1. 0 \in Nat
        OBVIOUS
      <4> QED
        BY <4>1, <2>1, IterationExists
    <3>2. \E f : Iterates(0, G, FieldLength, f)
      BY <1>0, <3>1
    <3> QED
      BY <3>2 DEF Iterates
  <2>3. ASSUME NEW i \in 0 .. FieldLength
        PROVE  f[i] = IF i = 0 THEN 0 ELSE f[i - 1] * Base + d(i)
    <3>1. CASE i = 0
      BY <2>2, <3>1
    <3>2. CASE i # 0
      <4>1. i \in 1 .. FieldLength /\ i - 1 \in 0 .. FieldLength /\ i \in Nat
        BY <1>0, <3>2
      <4>2. f[i - 1] \in Nat /\ f[i] = F[<<f[i - 1], i>>]
        BY <2>0, <2>2, <4>1
      <4>3. F[<<f[i - 1], i>>] = f[i - 1] * Base + d(i)
        BY <1>2, <4>1, <4>2
      <4> QED
        BY <3>2, <4>2, <4>3
    <3> QED
      BY <3>1, <3>2
  <2>4. f = [i \in 0 .. FieldLength |-> f[i]]
    BY <2>2
  <2>5. Is(f)
    BY <2>3, <2>4
  <2> QED
    BY <2>5
<1>4. PICK g : Is(g) /\ ReadLength(bytes) = g[FieldLength]
  <2>1. ReadLength(bytes) = (CHOOSE g : Is(g))[FieldLength]
    BY DEF ReadLength, d, Digit
  <2> HIDE DEF Is
  <2> QED
    BY <1>3, <2>1
<1>5. g[0] = 0 /\ \A i \in 1 .. FieldLength : g[i] = g[i - 1] * Base + d(i)
  BY <1>0, <1>4
<1> DEFINE T == {i \in Nat : i \in 0 .. FieldLength => g[i] = h[FieldLength - i]}
<1>6. 0 \in T
  BY <1>0, <1>5
<1>7. ASSUME NEW i \in Nat, i \in T
      PROVE  i + 1 \in T
  <2> SUFFICES ASSUME i + 1 \in 0 .. FieldLength
               PROVE  g[i + 1] = h[FieldLength - (i + 1)]
    OBVIOUS
  <2> DEFINE k == FieldLength - (i + 1)
  <2>1. /\ i + 1 \in 1 .. FieldLength /\ (i + 1) - 1 = i /\ i \in 0 .. FieldLength
        /\ k \in 0 .. FieldLength /\ FieldLength - i \in 1 .. FieldLength /\ (FieldLength - i) - 1 = k
    BY <1>0
  <2> HIDE DEF k, h
  <2>2. g[i + 1] = g[i] * Base + d(i + 1) /\ g[i] = h[FieldLength - i] /\ d(i + 1) = h[k] % Base
    BY <1>1, <1>5, <1>7, <2>1 DEF k
  <2>3. h[FieldLength - i] = h[k] \div Base /\ h[k] \in Nat
    BY <2>1, HigherDigitsStep DEF h
  <2>4. (h[k] \div Base) * Base + (h[k] % Base) = h[k]
    BY <1>0, <2>3, DivisionTheorem
  <2> QED
    BY <2>2, <2>3, <2>4 DEF k
<1>8. \A i \in Nat : i \in T
  <2> HIDE DEF T
  <2> QED
    BY <1>6, <1>7, Induction
<1>9. FieldLength \in 0 .. FieldLength /\ FieldLength - FieldLength = 0
  BY <1>0
<1> HIDE DEF h
<1>10. g[FieldLength] = h[0]
  BY <1>0, <1>8, <1>9
<1> QED
  BY <1>4, <1>10, HigherDigitsStep DEF h

---------------------------------------------------------------------------
(* The splitter, of chunks that end outside of length fields.              *)

\* All that is sent, where in it the i-th frame ends, and how much has arrived.
Sent == FlattenSeq(frames)
End(i) == Len(Joined(frames, i))
Arrived == Len(Sent) - Len(wire)

\* How many bytes of a frame end inside of its length field.
InField == (Offset .. HeaderLength - 1) \ {0}

SplitterTypes ==
  /\ layout \in Layouts
  /\ frames \in Seq(Seq(Nat))
  /\ \A i \in 1 .. Len(frames) : \E n \in layout.lengths : frames[i] = Frame(n)
  /\ wire \in Seq(Nat) /\ data \in Seq(Nat) /\ leftover \in Seq(Nat)
  /\ frameBuffer \in [0 .. MaxFrameLength - 1 -> Nat]
  /\ index \in Nat /\ pos \in Nat /\ pos <= Len(data)
  /\ isShutdown \in BOOLEAN /\ error \in BOOLEAN
  /\ out \in Seq(Seq(Nat))

\* Where in the bytes sent those that wait on the wire, those of the chunk and those
\* put back are.
Stream ==
  /\ Len(wire) + Len(data) + Len(leftover) <= Len(Sent)
  /\ \A m \in 1 .. Len(wire) : wire[m] = Sent[Arrived + m]
  /\ \A m \in 1 .. Len(data) : data[m] = Sent[Arrived - Len(data) + m]
  /\ \A m \in 1 .. Len(leftover) : leftover[m] = Sent[Arrived - Len(leftover) + m]

Modes ==
  /\ data # <<>> \/ ~isShutdown => leftover = <<>>
  /\ data = <<>> => pos = 0
  /\ error => ~isShutdown

\* Where the splitter is: index bytes into the frame after those pushed, which are in
\* the frame buffer.
Place ==
  /\ Len(out) <= Len(frames)
  /\ End(Len(out)) + index = Arrived - Len(leftover) - (Len(data) - pos)
  /\ Len(out) = Len(frames) => index = 0
  /\ Len(out) < Len(frames) =>
       /\ index < Len(frames[Len(out) + 1])
       /\ \A j \in 0 .. MaxFrameLength - 1 : j < index => frameBuffer[j] = frames[Len(out) + 1][j + 1]
  /\ index \notin InField
  /\ isShutdown => index = 0
  /\ data # <<>> => \A i \in 0 .. Len(frames) - 1 : Arrived - End(i) \notin InField

SplitterInv ==
  /\ SplitterTypes /\ Stream /\ Modes /\ MessagesAreFrames /\ ErrorMeansLargeFrame
  /\ ~error => Place

\* The numbers of a layout.
LEMMA LayoutNumbers ==
  ASSUME layout \in Layouts
  PROVE  /\ Base \in Nat \ {0, 1} /\ FieldLength \in Nat \ {0}
         /\ LittleEndian \in BOOLEAN
         /\ Offset \in Nat /\ Adjustment \in Int /\ MaxFrameLength \in Nat
         /\ HeaderLength = Offset + FieldLength /\ HeaderLength \in Nat \ {0}
         /\ HeaderLength <= MaxFrameLength
         /\ \A n \in layout.lengths :
              /\ n \in Nat
              /\ FrameLength(n) = n + Adjustment + Offset /\ CompleteLength(n) = FrameLength(n)
              /\ FrameLength(n) \in Nat /\ FrameLength(n) >= HeaderLength
              /\ HigherDigits(n)[FieldLength] = 0
<1>1. /\ Base \in Nat \ {0, 1} /\ FieldLength \in Nat \ {0}
      /\ LittleEndian \in BOOLEAN
      /\ Offset \in Nat /\ Adjustment \in Int /\ MaxFrameLength \in Nat
      /\ MaxFrameLength >= Offset + FieldLength
      /\ \A n \in layout.lengths : n \in Nat /\ n + Adjustment >= FieldLength
  BY SplitterAssumption DEF LittleEndian, Offset, Adjustment, MaxFrameLength
<1>2. \A n \in layout.lengths : HigherDigits(n)[FieldLength] = 0
  BY FieldAssumption
<1>3. HeaderLength = Offset + FieldLength /\ HeaderLength \in Nat \ {0} /\ HeaderLength <= MaxFrameLength
  BY <1>1 DEF HeaderLength
<1>4. \A n \in layout.lengths : FrameLength(n) = n + Adjustment + Offset /\ CompleteLength(n) = n + Adjustment + Offset
  BY DEF FrameLength, CompleteLength
<1>5. \A n \in layout.lengths : FrameLength(n) \in Nat /\ FrameLength(n) >= HeaderLength
  <2> HIDE DEF Offset, Adjustment
  <2> QED
    BY <1>1, <1>3, <1>4
<1> QED
  BY <1>1, <1>2, <1>3, <1>4, <1>5

\* A frame is a sequence as long as its length field says.
LEMMA FrameType ==
  ASSUME layout \in Layouts, NEW n \in layout.lengths
  PROVE  Frame(n) \in Seq(Nat) /\ Len(Frame(n)) = FrameLength(n)
<1>0. /\ Base \in Nat \ {0, 1} /\ FieldLength \in Nat \ {0}
      /\ Offset \in Nat /\ HeaderLength = Offset + FieldLength
      /\ n \in Nat /\ FrameLength(n) \in Nat
  BY LayoutNumbers
<1> DEFINE power(i) == IF LittleEndian THEN i - 1 ELSE FieldLength - i
           byte(j) == IF j <= Offset THEN 0
                      ELSE IF j <= HeaderLength THEN HigherDigits(n)[power(j - Offset)] % Base
                      ELSE j % Base
<1>1. Frame(n) = [j \in 1 .. FrameLength(n) |-> byte(j)]
  BY DEF Frame
<1>2. \A j \in 1 .. FrameLength(n) : byte(j) \in Nat
  <2> SUFFICES ASSUME NEW j \in 1 .. FrameLength(n)
               PROVE  byte(j) \in Nat
    OBVIOUS
  <2>1. j % Base \in Nat
    BY <1>0
  <2>2. ASSUME ~ (j <= Offset), j <= HeaderLength
        PROVE  HigherDigits(n)[power(j - Offset)] % Base \in Nat
    <3>1. power(j - Offset) \in 0 .. FieldLength
      BY <1>0, <2>2
    <3>2. HigherDigits(n)[power(j - Offset)] \in Nat
      BY <1>0, <3>1, HigherDigitsStep
    <3> QED
      BY <1>0, <3>2
  <2> QED
    BY <2>1, <2>2
<1> HIDE DEF byte
<1> QED
  BY <1>0, <1>1, <1>2

\* The length is read back from a buffer that begins with the frame.
LEMMA FrameRead ==
  ASSUME layout \in Layouts, NEW n \in layout.lengths, NEW bytes,
         \A j \in 0 .. HeaderLength - 1 : bytes[j] = Frame(n)[j + 1]
  PROVE  ReadLength(bytes) = n
<1>0. /\ Base \in Nat \ {0, 1} /\ FieldLength \in Nat \ {0}
      /\ Offset \in Nat /\ HeaderLength = Offset + FieldLength
      /\ n \in Nat /\ FrameLength(n) \in Nat /\ FrameLength(n) >= HeaderLength
      /\ HigherDigits(n)[FieldLength] = 0 /\ LittleEndian \in BOOLEAN
  BY LayoutNumbers
<1> DEFINE power(i) == IF LittleEndian THEN i - 1 ELSE FieldLength - i
<1>1. \A j \in 1 .. FrameLength(n) : j > Offset /\ j <= HeaderLength =>
        Frame(n)[j] = HigherDigits(n)[power(j - Offset)] % Base
  BY <1>0 DEF Frame
<1>2. ASSUME NEW i \in 1 .. FieldLength
      PROVE  Digit(bytes, i) = HigherDigits(n)[FieldLength - i] % Base
  <2> DEFINE at == IF LittleEndian THEN Offset + FieldLength - i ELSE Offset + i - 1
  <2>1. /\ at \in 0 .. HeaderLength - 1 /\ at + 1 \in 1 .. FrameLength(n) /\ at + 1 > Offset /\ at + 1 <= HeaderLength
        /\ power((at + 1) - Offset) = FieldLength - i
    BY <1>0
  <2>2. Digit(bytes, i) = bytes[at]
    BY DEF Digit
  <2> HIDE DEF at, power
  <2> QED
    BY <1>1, <2>1, <2>2
<1> QED
  BY <1>0, <1>2, ReadLengthOfDigits

\* The frames, and where each ends.
LEMMA Ends ==
  ASSUME SplitterTypes
  PROVE  /\ Len(frames) \in Nat /\ Sent \in Seq(Nat) /\ Len(Sent) \in Nat
         /\ End(0) = 0 /\ End(Len(frames)) = Len(Sent)
         /\ \A i \in 0 .. Len(frames) : End(i) \in Nat
         /\ \A i \in 1 .. Len(frames) : /\ frames[i] \in Seq(Nat) /\ Len(frames[i]) \in Nat
                                        /\ Len(frames[i]) >= HeaderLength
         /\ \A i \in 0 .. Len(frames) - 1 :
              /\ End(i + 1) = End(i) + Len(frames[i + 1]) /\ End(i + 1) <= Len(Sent)
              /\ \A j \in 1 .. Len(frames[i + 1]) : Sent[End(i) + j] = frames[i + 1][j]
         /\ \A i, j \in 0 .. Len(frames) : i <= j => End(i) <= End(j)
<1>0. frames \in Seq(Seq(Nat)) /\ layout \in Layouts
  BY DEF SplitterTypes
<1>1. Len(frames) \in Nat /\ \A i \in 1 .. Len(frames) : frames[i] \in Seq(Nat) /\ Len(frames[i]) \in Nat
  BY <1>0, LenProperties
<1>2. Sent \in Seq(Nat) /\ Len(Sent) \in Nat
  BY <1>0, FlattenType, LenProperties DEF Sent
<1>3. End(0) = 0 /\ End(Len(frames)) = Len(Sent) /\ \A i \in 0 .. Len(frames) : End(i) \in Nat
  BY <1>0, <1>1, JoinedStep, LenProperties DEF End, Sent
<1>4. ASSUME NEW i \in 1 .. Len(frames)
      PROVE  Len(frames[i]) >= HeaderLength
  <2>1. PICK n \in layout.lengths : frames[i] = Frame(n)
    BY DEF SplitterTypes
  <2> QED
    BY <1>0, <2>1, FrameType, LayoutNumbers
<1>5. ASSUME NEW i \in 0 .. Len(frames) - 1
      PROVE  /\ End(i + 1) = End(i) + Len(frames[i + 1]) /\ End(i + 1) <= Len(Sent)
             /\ \A j \in 1 .. Len(frames[i + 1]) : Sent[End(i) + j] = frames[i + 1][j]
  <2>1. i \in Nat /\ i < Len(frames)
    BY <1>1
  <2> QED
    BY <1>0, <2>1, JoinedElement DEF End, Sent
<1>6. ASSUME NEW i \in 0 .. Len(frames), NEW j \in 0 .. Len(frames), i <= j
      PROVE  End(i) <= End(j)
  <2>1. i \in Nat /\ j \in Nat /\ j <= Len(frames)
    BY <1>1
  <2> QED
    BY <1>0, <1>6, <2>1, JoinedPrefix DEF End
<1> QED
  BY <1>1, <1>2, <1>3, <1>4, <1>5, <1>6

\* The invariant holds before any chunk arrives.
LEMMA SplitterInit ==
  ASSUME Init
  PROVE  SplitterInv
<1>1. PICK n \in 1 .. MaxFrames : frames \in [1 .. n -> {Frame(l) : l \in layout.lengths}]
  BY DEF Init
<1>2. layout \in Layouts /\ n \in Nat \ {0}
  BY SplitterAssumption DEF Init
<1>3. \A l \in layout.lengths : Frame(l) \in Seq(Nat) /\ Len(Frame(l)) >= HeaderLength
  BY <1>2, FrameType, LayoutNumbers
<1>4. /\ frames \in Seq(Seq(Nat)) /\ Len(frames) = n
      /\ \A i \in 1 .. Len(frames) : \E l \in layout.lengths : frames[i] = Frame(l)
  <2>1. \A i \in 1 .. n : \E l \in layout.lengths : frames[i] = Frame(l)
    BY <1>1
  <2>2. \A i \in 1 .. n : frames[i] \in Seq(Nat)
    BY <1>3, <2>1
  <2>3. frames = [i \in 1 .. n |-> frames[i]]
    BY <1>1
  <2>4. frames \in [1 .. n -> Seq(Nat)]
    BY <2>2, <2>3
  <2> QED
    BY <1>2, <2>1, <2>4
<1>5. /\ data = <<>> /\ leftover = <<>> /\ out = <<>> /\ index = 0 /\ pos = 0
      /\ isShutdown = FALSE /\ error = FALSE /\ wire = Sent
  BY DEF Init, Sent
<1>6. Sent \in Seq(Nat)
  BY <1>4, FlattenType DEF Sent
<1>7. frameBuffer \in [0 .. MaxFrameLength - 1 -> Nat]
  <2>1. PICK field \in [0 .. FieldLength - 1 -> Byte] :
          frameBuffer = [i \in 0 .. MaxFrameLength - 1 |-> IF i \in Offset .. HeaderLength - 1 THEN field[i - Offset] ELSE 0]
    BY DEF Init
  <2>2. /\ Offset \in Nat /\ HeaderLength = Offset + FieldLength /\ FieldLength \in Nat /\ Base \in Nat
        /\ MaxFrameLength \in Nat
    BY <1>2, LayoutNumbers
  <2>3. \A i \in Offset .. HeaderLength - 1 : i - Offset \in 0 .. FieldLength - 1
    BY <2>2
  <2>4. \A i \in 0 .. FieldLength - 1 : field[i] \in Nat
    BY <2>2 DEF Byte
  <2> QED
    BY <2>1, <2>3, <2>4
<1>8. SplitterTypes
  <2>1. <<>> \in Seq(Nat) /\ <<>> \in Seq(Seq(Nat)) /\ Len(<<>>) = 0
    OBVIOUS
  <2>2. data \in Seq(Nat) /\ leftover \in Seq(Nat) /\ out \in Seq(Seq(Nat)) /\ pos <= Len(data) /\ index \in Nat /\ pos \in Nat
    BY <1>5, <2>1
  <2>3. wire \in Seq(Nat) /\ isShutdown \in BOOLEAN /\ error \in BOOLEAN
    BY <1>5, <1>6
  <2> QED
    BY <1>2, <1>4, <1>7, <2>2, <2>3 DEF SplitterTypes
<1>9. Len(Sent) \in Nat /\ Arrived = 0 /\ Len(wire) = Len(Sent) /\ Len(leftover) = 0 /\ Len(data) = 0 /\ Len(out) = 0
  BY <1>5, <1>6, LenProperties DEF Arrived
<1>10. Stream
  BY <1>5, <1>6, <1>9 DEF Stream
<1>11. Modes
  BY <1>5 DEF Modes
<1>12. MessagesAreFrames /\ ErrorMeansLargeFrame
  BY <1>2, <1>4, <1>5, <1>9 DEF MessagesAreFrames, ErrorMeansLargeFrame
<1>13. Place
  <2>1. End(0) = 0 /\ HeaderLength \in Nat \ {0} /\ \A i \in 1 .. Len(frames) : Len(frames[i]) \in Nat /\ Len(frames[i]) >= HeaderLength
    BY <1>2, <1>8, Ends, LayoutNumbers
  <2>2. index \notin InField
    BY <1>5 DEF InField
  <2>3. 1 \in 1 .. Len(frames) /\ \A j \in 0 .. MaxFrameLength - 1 : ~ (j < 0)
    BY <1>2, <1>4, LayoutNumbers
  <2> QED
    BY <1>2, <1>4, <1>5, <1>9, <2>1, <2>2, <2>3 DEF Place
<1> QED
  BY <1>8, <1>10, <1>11, <1>12, <1>13 DEF SplitterInv

\* A chunk that has arrived ends outside of every length field.
LEMMA ArriveOutside ==
  ASSUME SplitterTypes, ~SplitsFields, NEW n \in 1 .. Len(wire), Len(wire) <= Len(Sent),
         Progress(Len(wire) - n) \notin InField
  PROVE  \A i \in 0 .. Len(frames) - 1 : (Arrived + n) - End(i) \notin InField
<1> DEFINE total == Len(Sent) - (Len(wire) - n)
           ends == {End(i) : i \in 0 .. Len(frames)}
           Final(e) == e <= total /\ \A f \in ends : f <= total => f <= e
<1>1. Progress(Len(wire) - n) = total - (CHOOSE e \in ends : Final(e))
  BY DEF Progress, Sent, End, Joined
<1>2. Len(wire) \in Nat /\ Len(Sent) \in Nat /\ total \in Nat /\ Arrived + n = total
  BY Ends, LenProperties DEF SplitterTypes, Arrived
<1>3. /\ Offset \in Nat /\ HeaderLength \in Nat /\ \A i \in 0 .. Len(frames) : End(i) \in Nat
      /\ Len(frames) \in Nat
      /\ \A i \in 0 .. Len(frames) - 1 : /\ End(i + 1) = End(i) + Len(frames[i + 1])
                                         /\ Len(frames[i + 1]) \in Nat /\ Len(frames[i + 1]) >= HeaderLength
      /\ \A i, j \in 0 .. Len(frames) : i <= j => End(i) <= End(j)
  <2>1. layout \in Layouts
    BY DEF SplitterTypes
  <2>2. Len(frames) \in Nat
    BY Ends
  <2>3. \A i \in 0 .. Len(frames) - 1 : i + 1 \in 1 .. Len(frames)
    BY <2>2
  <2> QED
    BY <2>1, <2>2, <2>3, Ends, LayoutNumbers
<1> SUFFICES ASSUME NEW i \in 0 .. Len(frames) - 1, total - End(i) \in InField
             PROVE  FALSE
  BY <1>2
<1>4. i \in 0 .. Len(frames) /\ i + 1 \in 0 .. Len(frames) /\ i \in Nat
  BY <1>3
<1>5. End(i) <= total /\ total < End(i + 1)
  <2> HIDE DEF total
  <2>1. total - End(i) \in Offset .. HeaderLength - 1
    BY DEF InField
  <2>0. Offset \in Nat /\ HeaderLength \in Nat /\ total \in Nat /\ End(i) \in Nat
    BY <1>2, <1>3, <1>4
  <2>2. End(i) \in Nat /\ End(i + 1) = End(i) + Len(frames[i + 1]) /\ Len(frames[i + 1]) \in Nat /\ Len(frames[i + 1]) >= HeaderLength
    BY <1>3, <1>4
  <2>3. End(i) <= total /\ total < End(i) + HeaderLength
    <3> HIDE DEF Offset, HeaderLength, End
    <3> QED
      BY <2>0, <2>1
  <2>4. End(i) + HeaderLength <= End(i + 1)
    <3> HIDE DEF HeaderLength, End
    <3>1. PICK l \in Nat : l = Len(frames[i + 1])
      BY <2>2
    <3>2. End(i + 1) = End(i) + l /\ l >= HeaderLength
      BY <2>2, <3>1
    <3> QED
      BY <2>0, <3>2
  <2> HIDE DEF HeaderLength, End
  <2> QED
    BY <2>0, <2>2, <2>3, <2>4
<1>6. ASSUME NEW j \in 0 .. Len(frames), End(j) <= total
      PROVE  End(j) <= End(i)
  <2> HIDE DEF total
  <2>1. j \in Int /\ End(j) \in Nat /\ End(i) \in Nat /\ End(i + 1) \in Nat
    BY <1>3, <1>4
  <2>2. j <= i \/ i + 1 <= j
    BY <1>4, <2>1
  <2>3. CASE j <= i
    BY <1>3, <1>4, <2>3
  <2>4. CASE i + 1 <= j
    <3>1. End(i + 1) <= End(j)
      BY <1>3, <1>4, <2>4
    <3> QED
      BY <1>2, <1>5, <1>6, <2>1, <3>1
  <2> QED
    BY <2>2, <2>3, <2>4
<1>7. End(i) \in ends /\ Final(End(i))
  BY <1>4, <1>5, <1>6
<1> DEFINE e == CHOOSE e \in ends : Final(e)
<1>8. e \in ends /\ Final(e)
  <2> HIDE DEF Last, ends
  <2> QED
    BY <1>7
<1>9. \A f \in ends : f \in Nat
  BY <1>3
<1>10. e = End(i)
  <2>1. e <= End(i) /\ End(i) <= e
    <3> HIDE DEF e, ends, total
    <3> QED
      BY <1>7, <1>8
  <2>2. e \in Nat /\ End(i) \in Nat
    BY <1>7, <1>8, <1>9
  <2> HIDE DEF e
  <2> QED
    BY <2>1, <2>2
<1> QED
  BY <1>1, <1>10

\* No step changes what is sent, nor how it is laid out.
LEMMA SplitterConstants ==
  ASSUME layout' = layout, frames' = frames
  PROVE  /\ Sent' = Sent /\ InField' = InField /\ MaxFrameLength' = MaxFrameLength
         /\ \A i \in Int : End(i)' = End(i)
         /\ \A n \in layout.lengths : Frame(n)' = Frame(n)
  BY DEF Sent, End, Joined, InField, MaxFrameLength, Frame, FrameLength, Adjustment, Offset, HeaderLength,
         LittleEndian, HigherDigits

\* A chunk that arrives preserves the invariant.
LEMMA SplitterArrive ==
  ASSUME SplitterInv, ~SplitsFields, Arrive
  PROVE  SplitterInv'
<1>1. PICK n \in 1 .. Len(wire) :
        /\ Progress(Len(wire) - n) \notin InField
        /\ data' = SubSeq(wire, 1, n)
        /\ wire' = SubSeq(wire, n + 1, Len(wire))
  BY DEF Arrive, InField
<1>2. /\ data = <<>> /\ ~error /\ ~isShutdown /\ pos' = 0
      /\ layout' = layout /\ frames' = frames /\ frameBuffer' = frameBuffer /\ index' = index
      /\ isShutdown' = isShutdown /\ out' = out /\ leftover' = leftover /\ error' = error
  BY DEF Arrive
<1>3. SplitterTypes /\ Stream /\ Modes /\ MessagesAreFrames /\ ErrorMeansLargeFrame /\ Place
  BY <1>2 DEF SplitterInv
<1>4. leftover = <<>> /\ pos = 0 /\ wire \in Seq(Nat) /\ Len(wire) \in Nat
  BY <1>2, <1>3, LenProperties DEF Modes, SplitterTypes
<1>5. Len(<<>>) = 0
  OBVIOUS
<1>6. /\ data' \in Seq(Nat) /\ Len(data') = n /\ \A m \in 1 .. n : data'[m] = wire[m]
      /\ wire' \in Seq(Nat) /\ Len(wire') = Len(wire) - n /\ \A m \in 1 .. Len(wire) - n : wire'[m] = wire[n + m]
  <2>1. \A i \in 1 .. Len(wire) : wire[i] \in Nat
    BY <1>4
  <2>2. data' \in Seq(Nat) /\ Len(data') = n /\ \A m \in 1 .. n : data'[m] = wire[m]
    BY <1>1, <1>4, <2>1
  <2>3. wire' \in Seq(Nat) /\ Len(wire') = Len(wire) - n /\ \A m \in 1 .. Len(wire) - n : wire'[m] = wire[n + m]
    BY <1>1, <1>4, <2>1
  <2> QED
    BY <2>2, <2>3
<1>7. /\ Sent' = Sent /\ InField' = InField /\ MaxFrameLength' = MaxFrameLength
      /\ \A i \in Int : End(i)' = End(i)
      /\ \A l \in layout.lengths : Frame(l)' = Frame(l)
  BY <1>2, SplitterConstants
<1>8. Len(Sent) \in Nat /\ Len(wire) <= Len(Sent) /\ Arrived \in Nat /\ Arrived' = Arrived + n /\ Len(frames) \in Nat
  <2>1. Len(Sent) \in Nat /\ Len(wire) <= Len(Sent) /\ Len(frames) \in Nat
    BY <1>2, <1>3, <1>4, <1>5, Ends DEF Stream
  <2>2. Arrived' = Len(Sent) - (Len(wire) - n)
    BY <1>6, <1>7 DEF Arrived
  <2> QED
    BY <1>4, <2>1, <2>2 DEF Arrived
<1>9. SplitterTypes'
  <2>1. pos' \in Nat /\ pos' <= Len(data')
    BY <1>2, <1>6
  <2> QED
    BY <1>2, <1>3, <1>6, <1>7, <2>1 DEF SplitterTypes
<1>10. Stream'
  <2>1. Len(wire') + Len(data') + Len(leftover') <= Len(Sent')
    BY <1>2, <1>4, <1>5, <1>6, <1>7, <1>8
  <2>2. \A m \in 1 .. Len(wire) : wire[m] = Sent[Arrived + m]
    BY <1>3 DEF Stream
  <2>3. \A m \in 1 .. Len(wire) - n : wire'[m] = Sent[(Arrived + n) + m]
    <3> SUFFICES ASSUME NEW m \in 1 .. Len(wire) - n
                 PROVE  wire'[m] = Sent[(Arrived + n) + m]
      OBVIOUS
    <3>1. n + m \in 1 .. Len(wire) /\ Arrived + (n + m) = (Arrived + n) + m
      BY <1>4, <1>8
    <3>2. wire'[m] = wire[n + m] /\ wire[n + m] = Sent[Arrived + (n + m)]
      BY <1>6, <2>2, <3>1
    <3> QED
      BY <3>1, <3>2
  <2>4. \A m \in 1 .. n : data'[m] = Sent[((Arrived + n) - n) + m]
    <3>1. (Arrived + n) - n = Arrived /\ \A m \in 1 .. n : m \in 1 .. Len(wire)
      BY <1>4, <1>8
    <3> QED
      BY <1>6, <2>2, <3>1
  <2>5. \A m \in 1 .. Len(leftover') : leftover'[m] = (Sent[Arrived - Len(leftover) + m])'
    BY <1>2, <1>4, <1>5
  <2> QED
    BY <1>6, <1>7, <1>8, <2>1, <2>3, <2>4, <2>5 DEF Stream
<1>11. Modes'
  BY <1>1, <1>2, <1>4, <1>6 DEF Modes
<1>12. MessagesAreFrames' /\ ErrorMeansLargeFrame'
  BY <1>2, <1>3, <1>7 DEF MessagesAreFrames, ErrorMeansLargeFrame
<1>13. Place'
  <2>1. Len(out) \in Nat /\ Len(out') = Len(out)
    BY <1>2, <1>3, LenProperties DEF SplitterTypes
  <2>2. \A i \in 0 .. Len(frames) - 1 : (Arrived + n) - End(i) \notin InField
    BY <1>1, <1>3, <1>8, ArriveOutside
  <2>3. \A i \in 0 .. Len(frames') - 1 : (Arrived - End(i) \notin InField)'
    BY <1>2, <1>7, <1>8, <2>2
  <2>4. (End(Len(out)))' = End(Len(out))
    BY <1>2, <2>1 DEF End, Joined
  <2>5. /\ Len(out) <= Len(frames)
        /\ End(Len(out)) + index = Arrived
        /\ Len(out) = Len(frames) => index = 0
        /\ Len(out) < Len(frames) =>
             /\ index < Len(frames[Len(out) + 1])
             /\ \A j \in 0 .. MaxFrameLength - 1 : j < index => frameBuffer[j] = frames[Len(out) + 1][j + 1]
        /\ index \notin InField
    BY <1>2, <1>3, <1>4, <1>5, <1>8 DEF Place
  <2>6. (End(Len(out)) + index = Arrived - Len(leftover) - (Len(data) - pos))'
    <3>1. Arrived + n - 0 - (n - 0) = Arrived
      BY <1>8
    <3> QED
      BY <1>2, <1>4, <1>5, <1>6, <1>8, <2>4, <2>5, <3>1
  <2> QED
    BY <1>2, <1>7, <2>1, <2>3, <2>5, <2>6 DEF Place
<1> QED
  BY <1>9, <1>10, <1>11, <1>12, <1>13 DEF SplitterInv

\* A step that takes nothing off the wire and pushes nothing.
LEMMA SplitterKeeps ==
  ASSUME SplitterInv, UNCHANGED <<layout, frames, wire, frameBuffer, index, isShutdown, out, error>>
  PROVE  /\ Arrived' = Arrived /\ Sent' = Sent /\ InField' = InField /\ MaxFrameLength' = MaxFrameLength
         /\ \A l \in layout.lengths : Frame(l)' = Frame(l)
         /\ Len(out) \in Nat /\ (End(Len(out)))' = End(Len(out))
         /\ MessagesAreFrames' /\ ErrorMeansLargeFrame'
<1>1. layout' = layout /\ frames' = frames
  OBVIOUS
<1>2. /\ Sent' = Sent /\ InField' = InField /\ MaxFrameLength' = MaxFrameLength
      /\ \A l \in layout.lengths : Frame(l)' = Frame(l)
  BY <1>1, SplitterConstants
<1>3. Arrived' = Arrived
  BY <1>2 DEF Arrived
<1>4. Len(out) \in Nat
  BY LenProperties DEF SplitterInv, SplitterTypes
<1>5. (End(Len(out)))' = End(Len(out))
  BY <1>1 DEF End, Joined
<1>6. MessagesAreFrames' /\ ErrorMeansLargeFrame'
  BY <1>2 DEF SplitterInv, MessagesAreFrames, ErrorMeansLargeFrame
<1> QED
  BY <1>2, <1>3, <1>4, <1>5, <1>6

\* A step that changes nothing preserves the invariant.
LEMMA SplitterStutters ==
  ASSUME SplitterInv, UNCHANGED vars
  PROVE  SplitterInv'
<1>1. UNCHANGED <<layout, frames, wire, frameBuffer, index, isShutdown, data, pos, out, leftover, error>>
  BY DEF vars
<1>2. /\ Arrived' = Arrived /\ Sent' = Sent /\ InField' = InField /\ MaxFrameLength' = MaxFrameLength
      /\ \A l \in layout.lengths : Frame(l)' = Frame(l)
      /\ Len(out) \in Nat /\ (End(Len(out)))' = End(Len(out))
      /\ MessagesAreFrames' /\ ErrorMeansLargeFrame'
  BY <1>1, SplitterKeeps
<1>3. \A i \in Int : End(i)' = End(i)
  BY <1>1, SplitterConstants
<1>4. SplitterTypes'
  BY <1>1, <1>2 DEF SplitterInv, SplitterTypes
<1>5. Stream'
  BY <1>1, <1>2 DEF SplitterInv, Stream
<1>6. Modes'
  BY <1>1 DEF SplitterInv, Modes
<1>7. ASSUME Place PROVE Place'
  BY <1>1, <1>2, <1>3, <1>7 DEF Place
<1> QED
  BY <1>1, <1>2, <1>4, <1>5, <1>6, <1>7 DEF SplitterInv

\* A chunk decoded to its end preserves the invariant.
LEMMA SplitterChunkDone ==
  ASSUME SplitterInv, ChunkDone
  PROVE  SplitterInv'
<1>1. /\ data # <<>> /\ pos = Len(data) /\ ~error /\ data' = <<>> /\ pos' = 0
      /\ UNCHANGED <<layout, frames, wire, frameBuffer, index, isShutdown, out, error>> /\ leftover' = leftover
  BY DEF ChunkDone
<1>2. SplitterTypes /\ Stream /\ Modes /\ Place
  BY <1>1 DEF SplitterInv
<1>3. leftover = <<>> /\ data \in Seq(Nat) /\ Len(data) \in Nat
  BY <1>1, <1>2, LenProperties DEF Modes, SplitterTypes
<1>4. /\ Arrived' = Arrived /\ Sent' = Sent /\ InField' = InField /\ MaxFrameLength' = MaxFrameLength
      /\ \A l \in layout.lengths : Frame(l)' = Frame(l)
      /\ Len(out) \in Nat /\ (End(Len(out)))' = End(Len(out))
      /\ MessagesAreFrames' /\ ErrorMeansLargeFrame'
  BY <1>1, SplitterKeeps
<1>5. <<>> \in Seq(Nat) /\ Len(<<>>) = 0
  OBVIOUS
<1>6. SplitterTypes'
  <2>1. data' \in Seq(Nat) /\ pos' \in Nat /\ pos' <= Len(data')
    BY <1>1, <1>5
  <2> QED
    BY <1>1, <1>2, <1>4, <2>1 DEF SplitterTypes
<1>7. Len(wire) \in Nat /\ Len(Sent) \in Nat /\ Arrived \in Int
  BY <1>2, Ends, LenProperties DEF SplitterTypes, Arrived
<1>8. Stream'
  <2>1. Len(wire') + Len(data') + Len(leftover') <= Len(Sent')
    BY <1>1, <1>2, <1>3, <1>4, <1>5, <1>7 DEF Stream
  <2>2. \A m \in 1 .. Len(data') : FALSE
    BY <1>1, <1>5
  <2>3. \A m \in 1 .. Len(leftover') : FALSE
    BY <1>1, <1>3, <1>5
  <2>4. \A m \in 1 .. Len(wire) : wire[m] = Sent[Arrived + m]
    BY <1>2 DEF Stream
  <2> QED
    BY <1>1, <1>4, <2>1, <2>2, <2>3, <2>4 DEF Stream
<1>9. Modes'
  BY <1>1, <1>2, <1>3 DEF Modes
<1>10. Place'
  <2>1. End(Len(out)) + index = Arrived - Len(leftover) - (Len(data) - pos)
    BY <1>2 DEF Place
  <2>2. (End(Len(out)) + index = Arrived - Len(leftover) - (Len(data) - pos))'
    <3>1. Arrived - 0 - (Len(data) - Len(data)) = Arrived /\ Arrived - 0 - (0 - 0) = Arrived
      BY <1>3, <1>7
    <3> QED
      BY <1>1, <1>3, <1>4, <1>5, <2>1, <3>1
  <2> QED
    BY <1>1, <1>2, <1>4, <2>2 DEF Place
<1> QED
  BY <1>4, <1>6, <1>8, <1>9, <1>10 DEF SplitterInv

\* The rest of a chunk put back at shutdown preserves the invariant.
LEMMA SplitterPushBack ==
  ASSUME SplitterInv, PushBack
  PROVE  SplitterInv'
<1>1. /\ isShutdown /\ pos < Len(data) /\ leftover' = SubSeq(data, pos + 1, Len(data)) /\ data' = <<>> /\ pos' = 0
      /\ UNCHANGED <<layout, frames, wire, frameBuffer, index, isShutdown, out, error>>
  BY DEF PushBack
<1>2. ~error
  BY <1>1 DEF SplitterInv, Modes
<1>3. SplitterTypes /\ Stream /\ Modes /\ Place
  BY <1>2 DEF SplitterInv
<1>4. Len(<<>>) = 0 /\ <<>> \in Seq(Nat)
  OBVIOUS
<1>5. data \in Seq(Nat) /\ Len(data) \in Nat /\ pos \in Nat
  BY <1>3, LenProperties DEF SplitterTypes
<1>6. leftover = <<>>
  BY <1>1, <1>3, <1>4, <1>5 DEF Modes
<1>7. /\ leftover' \in Seq(Nat) /\ Len(leftover') = Len(data) - pos
      /\ \A m \in 1 .. Len(data) - pos : leftover'[m] = data[pos + m]
  <2>1. \A i \in 1 .. Len(data) : data[i] \in Nat
    BY <1>5
  <2> QED
    BY <1>1, <1>5, <2>1
<1>8. /\ Arrived' = Arrived /\ Sent' = Sent /\ InField' = InField /\ MaxFrameLength' = MaxFrameLength
      /\ \A l \in layout.lengths : Frame(l)' = Frame(l)
      /\ Len(out) \in Nat /\ (End(Len(out)))' = End(Len(out))
      /\ MessagesAreFrames' /\ ErrorMeansLargeFrame'
  BY <1>1, SplitterKeeps
<1>9. SplitterTypes'
  <2>1. data' \in Seq(Nat) /\ pos' \in Nat /\ pos' <= Len(data')
    BY <1>1, <1>4
  <2> QED
    BY <1>1, <1>3, <1>7, <1>8, <2>1 DEF SplitterTypes
<1>10. Len(wire) \in Nat /\ Len(Sent) \in Nat /\ Arrived \in Int
  BY <1>3, Ends, LenProperties DEF SplitterTypes, Arrived
<1>11. Stream'
  <2>1. Len(wire) + Len(data) + 0 <= Len(Sent)
    BY <1>3, <1>4, <1>6 DEF Stream
  <2>2. Len(wire') + Len(data') + Len(leftover') <= Len(Sent')
    <3>1. Len(wire) + 0 + (Len(data) - pos) <= Len(Sent)
      BY <1>5, <1>10, <2>1
    <3> QED
      BY <1>1, <1>4, <1>7, <1>8, <3>1
  <2>3. \A m \in 1 .. Len(data') : FALSE
    BY <1>1, <1>4
  <2>4. \A m \in 1 .. Len(wire) : wire[m] = Sent[Arrived + m]
    BY <1>3 DEF Stream
  <2>5. ASSUME NEW m \in 1 .. Len(data) - pos
        PROVE  leftover'[m] = Sent[Arrived - (Len(data) - pos) + m]
    <3>1. pos + m \in 1 .. Len(data) /\ Arrived - Len(data) + (pos + m) = Arrived - (Len(data) - pos) + m
      BY <1>5, <1>10
    <3>2. data[pos + m] = Sent[Arrived - Len(data) + (pos + m)]
      BY <1>3, <3>1 DEF Stream
    <3> QED
      BY <1>7, <3>1, <3>2
  <2> QED
    BY <1>1, <1>7, <1>8, <2>2, <2>3, <2>4, <2>5 DEF Stream
<1>12. Modes'
  BY <1>1, <1>2 DEF Modes
<1>13. Place'
  <2>1. End(Len(out)) + index = Arrived - Len(leftover) - (Len(data) - pos)
    BY <1>3 DEF Place
  <2>2. (End(Len(out)) + index = Arrived - Len(leftover) - (Len(data) - pos))'
    <3>1. Arrived - 0 - (Len(data) - pos) = Arrived - (Len(data) - pos) - (0 - 0)
      BY <1>5, <1>10
    <3> QED
      BY <1>1, <1>4, <1>6, <1>7, <1>8, <2>1, <3>1
  <2> QED
    BY <1>1, <1>3, <1>8, <2>2 DEF Place
<1> QED
  BY <1>8, <1>9, <1>11, <1>12, <1>13 DEF SplitterInv

\* The first at bytes of a frame are in a buffer; the next n are in the chunk behind p.
Holds(b, f, at) ==
  /\ b \in [0 .. MaxFrameLength - 1 -> Nat]
  /\ \A j \in 0 .. MaxFrameLength - 1 : j < at => b[j] = f[j + 1]
GoesOn(p, f, at, n) == p + n <= Len(data) /\ \A m \in 1 .. n : data[p + m] = f[at + m]

\* What is copied from a chunk behind the beginning of a frame is more of the frame.
LEMMA CopiedMatches ==
  ASSUME SplitterTypes, NEW f, NEW b, NEW at, NEW p, NEW n, at \in Nat, p \in Nat, n \in Nat,
         Holds(b, f, at), GoesOn(p, f, at, n),
         NEW c, c = Copied(b, at, p, n), NEW i, i = at + n
  PROVE  Holds(c, f, i)
<1>0. /\ b \in [0 .. MaxFrameLength - 1 -> Nat]
      /\ \A j \in 0 .. MaxFrameLength - 1 : j < at => b[j] = f[j + 1]
      /\ p + n <= Len(data) /\ \A m \in 1 .. n : data[p + m] = f[at + m]
  BY DEF Holds, GoesOn
<1>1. MaxFrameLength \in Nat /\ data \in Seq(Nat) /\ Len(data) \in Nat /\ \A m \in 1 .. Len(data) : data[m] \in Nat
  <2>1. layout \in Layouts /\ data \in Seq(Nat)
    BY DEF SplitterTypes
  <2>2. MaxFrameLength \in Nat
    BY <2>1, LayoutNumbers
  <2> QED
    BY <2>1, <2>2
<1>2. \A j \in 0 .. MaxFrameLength - 1 : Copied(b, at, p, n)[j] = IF at <= j /\ j < at + n THEN data[p + j - at + 1] ELSE b[j]
  BY DEF Copied
<1>3. ASSUME NEW j \in 0 .. MaxFrameLength - 1, at <= j, j < at + n
      PROVE  data[p + j - at + 1] = f[j + 1] /\ data[p + j - at + 1] \in Nat
  <2>1. /\ (j - at) + 1 \in 1 .. n /\ p + ((j - at) + 1) = p + j - at + 1 /\ at + ((j - at) + 1) = j + 1
        /\ p + j - at + 1 \in 1 .. Len(data)
    BY <1>0, <1>1, <1>3
  <2>2. data[p + ((j - at) + 1)] = f[at + ((j - at) + 1)]
    BY <1>0, <2>1
  <2> QED
    BY <1>1, <2>1, <2>2
<1>4. Copied(b, at, p, n) \in [0 .. MaxFrameLength - 1 -> Nat]
  <2>1. \A j \in 0 .. MaxFrameLength - 1 : (IF at <= j /\ j < at + n THEN data[p + j - at + 1] ELSE b[j]) \in Nat
    BY <1>0, <1>3
  <2> QED
    BY <2>1 DEF Copied
<1>5. ASSUME NEW j \in 0 .. MaxFrameLength - 1, j < at + n
      PROVE  Copied(b, at, p, n)[j] = f[j + 1]
  <2>1. CASE at <= j
    BY <1>2, <1>3, <1>5, <2>1
  <2>2. CASE ~ (at <= j)
    <3>1. j < at
      BY <1>1, <2>2
    <3> QED
      BY <1>0, <1>2, <2>2, <3>1
  <2> QED
    BY <2>1, <2>2
<1> QED
  BY <1>4, <1>5 DEF Holds

\* Where a step of _decode is in the stream.
LEMMA DecodePlace ==
  ASSUME SplitterInv, ~error, ~isShutdown, pos < Len(data)
  PROVE  /\ leftover = <<>> /\ Len(out) \in Nat /\ Len(out) < Len(frames) /\ Len(out) + 1 \in 1 .. Len(frames)
         /\ pos \in Nat /\ Len(data) \in Nat /\ Arrived \in Nat /\ Len(Sent) \in Nat /\ End(Len(out)) \in Nat
         /\ index \in Nat /\ index < Len(frames[Len(out) + 1])
         /\ End(Len(out)) + index = Arrived - (Len(data) - pos)
         /\ \A m \in 1 .. Len(data) - pos : index + m <= Len(frames[Len(out) + 1]) =>
              data[pos + m] = frames[Len(out) + 1][index + m]
         /\ Arrived - End(Len(out)) \notin InField
<1>1. SplitterTypes /\ Stream /\ Modes /\ Place
  BY DEF SplitterInv
<1>2. /\ leftover = <<>> /\ Len(out) \in Nat /\ pos \in Nat /\ Len(data) \in Nat /\ Len(wire) \in Nat /\ index \in Nat
  BY <1>1, LenProperties DEF SplitterTypes, Modes
<1>3. Len(<<>>) = 0 /\ data # <<>>
  <2>1. Len(<<>>) = 0
    OBVIOUS
  <2> QED
    BY <1>2, <2>1
<1>4. /\ Len(frames) \in Nat /\ Len(Sent) \in Nat /\ End(Len(frames)) = Len(Sent)
      /\ \A i \in 0 .. Len(frames) : End(i) \in Nat
  BY <1>1, Ends
<1>5. Len(wire) + Len(data) <= Len(Sent) /\ Arrived = Len(Sent) - Len(wire)
  BY <1>1, <1>2, <1>3, <1>4 DEF Stream, Arrived
<1>6. End(Len(out)) + index = Arrived - (Len(data) - pos) /\ Len(out) <= Len(frames) /\ (Len(out) = Len(frames) => index = 0)
  <2>1. Arrived - 0 - (Len(data) - pos) = Arrived - (Len(data) - pos)
    BY <1>2, <1>4, <1>5
  <2> QED
    BY <1>1, <1>2, <1>3, <2>1 DEF Place
<1>7. Len(out) < Len(frames) /\ Len(out) + 1 \in 1 .. Len(frames) /\ Len(out) \in 0 .. Len(frames) - 1
  <2>1. Len(out) # Len(frames)
    <3> SUFFICES ASSUME Len(out) = Len(frames)
                 PROVE  FALSE
      OBVIOUS
    <3>1. Len(Sent) + 0 = (Len(Sent) - Len(wire)) - (Len(data) - pos)
      BY <1>4, <1>5, <1>6
    <3> QED
      BY <1>2, <1>4, <1>5, <3>1
  <2> QED
    BY <1>2, <1>4, <1>6, <2>1
<1>8. Arrived \in Nat /\ End(Len(out)) \in Nat
  <2>1. Len(out) \in 0 .. Len(frames)
    BY <1>4, <1>7
  <2> QED
    BY <1>2, <1>4, <1>5, <2>1
<1>9. index < Len(frames[Len(out) + 1]) /\ Arrived - End(Len(out)) \notin InField
  BY <1>1, <1>3, <1>7 DEF Place
<1>10. ASSUME NEW m \in 1 .. Len(data) - pos, index + m <= Len(frames[Len(out) + 1])
       PROVE  data[pos + m] = frames[Len(out) + 1][index + m]
  <2>1. \A j \in 1 .. Len(frames[Len(out) + 1]) : Sent[End(Len(out)) + j] = frames[Len(out) + 1][j]
    BY <1>1, <1>7, Ends
  <2>2. Len(frames[Len(out) + 1]) \in Nat
    BY <1>1, <1>7, Ends
  <2>3. index + m \in 1 .. Len(frames[Len(out) + 1]) /\ pos + m \in 1 .. Len(data)
    BY <1>2, <1>10, <2>2
  <2>4. data[pos + m] = Sent[Arrived - Len(data) + (pos + m)]
    BY <1>1, <2>3 DEF Stream
  <2>5. End(Len(out)) + (index + m) = Arrived - Len(data) + (pos + m)
    BY <1>2, <1>6, <1>8
  <2> QED
    BY <2>1, <2>3, <2>4, <2>5
<1> QED
  BY <1>2, <1>4, <1>6, <1>7, <1>8, <1>9, <1>10

\* What _readBytes takes of a chunk of e bytes at p, of those from i to goal.
Wants(i, goal, p, e, n) ==
  /\ i \in Nat /\ goal \in Nat /\ i <= goal /\ p \in Nat /\ e \in Nat /\ p <= e
  /\ n = IF goal - i < e - p THEN goal - i ELSE e - p
Takes(i, goal, p, e, n) ==
  /\ n \in Nat /\ p + n \in Nat /\ p + n <= e /\ i + n \in Nat /\ i + n <= goal
  /\ i + n < goal => p + n = e
  /\ \A m \in 1 .. n : m \in 1 .. e - p /\ i + m <= goal

\* The smaller of what is wanted and what is there stays within both.
LEMMA TakesWanted ==
  ASSUME NEW i, NEW goal, NEW p, NEW e, NEW n, Wants(i, goal, p, e, n)
  PROVE  Takes(i, goal, p, e, n)
  BY DEF Wants, Takes

\* The first bytes that _decode reads, those up to the end of the length field.
LEMMA DecodeReads ==
  ASSUME SplitterInv, ~error, ~isShutdown, pos < Len(data),
         NEW n1, n1 = Available(IF index < HeaderLength THEN HeaderLength - index ELSE 0, pos),
         NEW buffer1, buffer1 = Copied(frameBuffer, index, pos, n1),
         NEW n \in layout.lengths, frames[Len(out) + 1] = Frame(n)
  PROVE  /\ n1 \in Nat /\ pos + n1 \in Nat /\ pos + n1 <= Len(data) /\ index + n1 \in Nat
         /\ index + n1 <= FrameLength(n)
         /\ Holds(buffer1, Frame(n), index + n1)
         /\ ~BeforeField(index + n1) => index + n1 >= HeaderLength /\ ReadLength(buffer1) = n
<1>0. SplitterTypes /\ Place
  BY DEF SplitterInv
<1>1. PICK i, p, e, f, l, h, a, s :
        /\ i = index /\ p = pos /\ e = Len(data) /\ f = Frame(n) /\ l = FrameLength(n)
        /\ h = HeaderLength /\ a = Arrived /\ s = End(Len(out))
  OBVIOUS
<1>2. /\ i \in Nat /\ p \in Nat /\ e \in Nat /\ l \in Nat /\ h \in Nat /\ a \in Nat /\ s \in Nat
      /\ p < e /\ i < l /\ h <= l /\ s + i = a - (e - p) /\ a - s \notin InField
      /\ Offset \in Nat /\ h = Offset + FieldLength /\ FieldLength \in Nat \ {0}
      /\ MaxFrameLength \in Nat /\ h <= MaxFrameLength
  <2>1. layout \in Layouts
    BY <1>0 DEF SplitterTypes
  <2>2. Len(Frame(n)) = FrameLength(n)
    BY <2>1, FrameType
  <2> QED
    BY <1>1, <2>1, <2>2, DecodePlace, LayoutNumbers
<1>3. \A m \in 1 .. e - p : i + m <= l => data[p + m] = f[i + m]
  <2>1. layout \in Layouts
    BY <1>0 DEF SplitterTypes
  <2>2. Len(Frame(n)) = FrameLength(n)
    BY <2>1, FrameType
  <2> QED
    BY <1>1, <2>2, DecodePlace
<1>4. Holds(frameBuffer, f, i)
  BY <1>0, <1>1, DecodePlace DEF SplitterTypes, Place, Holds
<1>5. PICK goal : goal = IF i < h THEN h ELSE i
  OBVIOUS
<1> DEFINE toHeader == IF index < HeaderLength THEN HeaderLength - index ELSE 0
<1>6. n1 = IF goal - i < e - p THEN goal - i ELSE e - p
  <2>1. i \in Nat /\ h \in Nat
    BY <1>2
  <2>2. toHeader = goal - i
    BY <1>1, <1>5, <2>1
  <2>3. n1 = Available(toHeader, p) /\ e = Len(data)
    BY <1>1
  <2> HIDE DEF toHeader
  <2> QED
    BY <2>2, <2>3 DEF Available
<1>7. goal \in Nat /\ i <= goal /\ goal <= l /\ goal >= h
  <2>1. i \in Nat /\ h \in Nat /\ l \in Nat /\ i < l /\ h <= l
    BY <1>2
  <2> QED
    BY <1>5, <2>1
<1>8. /\ n1 \in Nat /\ p + n1 \in Nat /\ p + n1 <= e /\ i + n1 \in Nat /\ i + n1 <= goal
      /\ i + n1 < goal => p + n1 = e
      /\ \A m \in 1 .. n1 : m \in 1 .. e - p /\ i + m <= goal
  <2>0. i \in Nat /\ p \in Nat /\ e \in Nat /\ p < e
    BY <1>2
  <2>1. Wants(i, goal, p, e, n1)
    BY <1>6, <1>7, <2>0 DEF Wants
  <2> QED
    BY <2>1, TakesWanted DEF Takes
<1>9. i + n1 <= l
  BY <1>2, <1>7, <1>8
<1>10. ASSUME NEW m \in 1 .. n1
       PROVE  data[p + m] = f[i + m]
  <2>1. m \in 1 .. e - p /\ i + m <= goal
    BY <1>8
  <2>2. i + m <= l
    <3>1. i \in Nat /\ goal \in Nat /\ l \in Nat /\ goal <= l /\ m \in Nat /\ i + m <= goal
      BY <1>2, <1>7, <2>1
    <3> QED
      BY <3>1
  <2> QED
    BY <1>3, <2>1, <2>2
<1>11. Holds(buffer1, f, i + n1)
  <2>1. buffer1 = Copied(frameBuffer, i, p, n1)
    BY <1>1
  <2>2. GoesOn(p, f, i, n1)
    BY <1>1, <1>8, <1>10 DEF GoesOn
  <2>3. i \in Nat /\ p \in Nat /\ n1 \in Nat
    BY <1>2, <1>8
  <2> QED
    BY <1>0, <1>4, <2>1, <2>2, <2>3, CopiedMatches
<1>12. ASSUME ~BeforeField(i + n1)
       PROVE  i + n1 >= h /\ ReadLength(buffer1) = n
  <2>1. i + n1 >= Offset
    BY <1>2, <1>8, <1>12 DEF BeforeField
  <2>2. i + n1 >= h
    <3> SUFFICES ASSUME i + n1 < h
                 PROVE  FALSE
      BY <1>2, <1>8
    <3>1. p + n1 = e
      BY <1>2, <1>7, <1>8
    <3>2. a - s = i + n1
      <4>1. s + i = a - (e - p) /\ s \in Nat /\ i \in Nat /\ a \in Nat /\ e \in Nat /\ p \in Nat /\ n1 \in Nat
        BY <1>2, <1>8
      <4>2. e - p = n1
        BY <3>1, <4>1
      <4>3. s + i = a - n1
        BY <4>1, <4>2
      <4> QED
        BY <4>1, <4>3
    <3>3. i + n1 # 0
      BY <1>2, <1>8, <3>1
    <3>4. i + n1 \in InField
      <4>1. i + n1 \in Nat /\ h \in Nat /\ Offset \in Nat
        BY <1>2, <1>8
      <4>2. i + n1 \in Offset .. h - 1
        BY <2>1, <4>1
      <4> QED
        BY <1>1, <3>3, <4>2 DEF InField
    <3> QED
      BY <1>2, <3>2, <3>4
  <2>3. \A j \in 0 .. h - 1 : buffer1[j] = f[j + 1]
    <3>1. \A j \in 0 .. h - 1 : j \in 0 .. MaxFrameLength - 1 /\ j < i + n1
      BY <1>2, <1>8, <2>2
    <3> QED
      BY <1>11, <3>1 DEF Holds
  <2>4. ReadLength(buffer1) = n
    BY <1>0, <1>1, <2>3, FrameRead DEF SplitterTypes
  <2> QED
    BY <2>2, <2>4
<1> QED
  BY <1>1, <1>8, <1>9, <1>11, <1>12

\* The bytes that _decode reads next, those up to the end of the frame.
LEMMA DecodeFills ==
  ASSUME SplitterInv, ~error, ~isShutdown, pos < Len(data),
         NEW n \in layout.lengths, frames[Len(out) + 1] = Frame(n),
         NEW n1 \in Nat, pos + n1 <= Len(data), index + n1 <= FrameLength(n),
         NEW buffer1, Holds(buffer1, Frame(n), index + n1),
         NEW n2, n2 = Available(FrameLength(n) - (index + n1), pos + n1),
         NEW buffer2, buffer2 = Copied(buffer1, index + n1, pos + n1, n2)
  PROVE  /\ n2 \in Nat /\ pos + n1 + n2 \in Nat /\ pos + n1 + n2 <= Len(data) /\ index + n1 + n2 \in Nat
         /\ index + n1 + n2 <= FrameLength(n)
         /\ Holds(buffer2, Frame(n), index + n1 + n2)
<1>0. SplitterTypes
  BY DEF SplitterInv
<1>1. PICK i, p, e, f, l :
        i = index + n1 /\ p = pos + n1 /\ e = Len(data) /\ f = Frame(n) /\ l = FrameLength(n)
  OBVIOUS
<1>2. index \in Nat /\ pos \in Nat /\ Len(data) \in Nat /\ l \in Nat
  BY <1>0, <1>1, DecodePlace, LayoutNumbers DEF SplitterTypes
<1>3. i \in Nat /\ p \in Nat /\ e \in Nat /\ p <= e /\ i <= l
  BY <1>1, <1>2
<1>4. ASSUME NEW m \in 1 .. e - p, i + m <= l
      PROVE  data[p + m] = f[i + m]
  <2>1. Len(Frame(n)) = FrameLength(n)
    BY <1>0, FrameType DEF SplitterTypes
  <2>2. n1 + m \in 1 .. Len(data) - pos /\ index + (n1 + m) <= l /\ pos + (n1 + m) = p + m /\ index + (n1 + m) = i + m
    BY <1>1, <1>2, <1>3, <1>4
  <2>3. data[pos + (n1 + m)] = f[index + (n1 + m)]
    BY <1>1, <2>1, <2>2, DecodePlace
  <2> QED
    BY <2>2, <2>3
<1>5. n2 = IF l - i < e - p THEN l - i ELSE e - p
  BY <1>1 DEF Available
<1>6. /\ n2 \in Nat /\ p + n2 \in Nat /\ p + n2 <= e /\ i + n2 \in Nat /\ i + n2 <= l
      /\ \A m \in 1 .. n2 : m \in 1 .. e - p /\ i + m <= l
  <2>1. Wants(i, l, p, e, n2)
    BY <1>2, <1>3, <1>5 DEF Wants
  <2> QED
    BY <2>1, TakesWanted DEF Takes
<1>7. \A m \in 1 .. n2 : data[p + m] = f[i + m]
  BY <1>4, <1>6
<1>8. Holds(buffer2, f, i + n2)
  <2>1. buffer2 = Copied(buffer1, i, p, n2) /\ Holds(buffer1, f, i)
    BY <1>1
  <2>2. GoesOn(p, f, i, n2)
    BY <1>1, <1>6, <1>7 DEF GoesOn
  <2> QED
    BY <1>0, <1>3, <1>6, <2>1, <2>2, CopiedMatches
<1> QED
  BY <1>1, <1>6, <1>8

\* The place of the splitter after a step of _decode, which is i bytes into the frame
\* after k pushed frames, at p in the chunk.
LEMMA DecodePlaced ==
  ASSUME SplitterInv, ~error, ~isShutdown, pos < Len(data), UNCHANGED <<layout, frames, wire, data, leftover>>,
         NEW n \in layout.lengths, frames[Len(out) + 1] = Frame(n),
         NEW d \in Nat, NEW b, Holds(b, Frame(n), index + d),
         index + d < FrameLength(n), index + d \notin InField,
         index' = index + d, pos' = pos + d, frameBuffer' = b, isShutdown' = isShutdown, out' = out
  PROVE  Place'
<1>1. /\ leftover = <<>> /\ Len(out) \in Nat /\ Len(out) < Len(frames)
      /\ pos \in Nat /\ Len(data) \in Nat /\ Arrived \in Nat /\ End(Len(out)) \in Nat
      /\ index \in Nat /\ End(Len(out)) + index = Arrived - (Len(data) - pos)
      /\ Len(frames) \in Nat
  BY DecodePlace, Ends DEF SplitterInv
<1>2. /\ Arrived' = Arrived /\ InField' = InField /\ MaxFrameLength' = MaxFrameLength
      /\ \A i \in Int : End(i)' = End(i)
  BY SplitterConstants DEF Arrived
<1>3. (End(Len(out)))' = End(Len(out))
  BY DEF End, Joined
<1>4. Len(frames[Len(out) + 1]) = FrameLength(n)
  BY FrameType DEF SplitterInv, SplitterTypes
<1>5. (End(Len(out)) + index = Arrived - Len(leftover) - (Len(data) - pos))'
  <2>1. End(Len(out)) + (index + d) = Arrived - 0 - (Len(data) - (pos + d))
    <3>1. PICK e, i, a, l, p : e = End(Len(out)) /\ i = index /\ a = Arrived /\ l = Len(data) /\ p = pos
      OBVIOUS
    <3>2. e \in Nat /\ i \in Nat /\ a \in Nat /\ l \in Nat /\ p \in Nat /\ e + i = a - (l - p)
      BY <1>1, <3>1
    <3>3. a - (l - p) + d = a - 0 - (l - (p + d)) /\ e + i + d = e + (i + d)
      BY <3>2
    <3> QED
      BY <3>1, <3>2, <3>3
  <2>2. Len(leftover') = 0
    BY <1>1
  <2> QED
    BY <1>2, <1>3, <2>1, <2>2
<1>6. (\A i \in 0 .. Len(frames) - 1 : Arrived - End(i) \notin InField)'
  <2>1. data # <<>>
    BY <1>1
  <2>2. \A i \in 0 .. Len(frames) - 1 : Arrived - End(i) \notin InField
    BY <2>1 DEF SplitterInv, Place
  <2> QED
    BY <1>2, <2>2
<1>7. \A j \in 0 .. MaxFrameLength - 1 : j < index + d => b[j] = frames[Len(out) + 1][j + 1]
  BY DEF Holds
<1>8. (Len(out) = Len(frames))' => FALSE
  BY <1>1
<1>9. (Len(out) < Len(frames) =>
         /\ index < Len(frames[Len(out) + 1])
         /\ \A j \in 0 .. MaxFrameLength - 1 : j < index => frameBuffer[j] = frames[Len(out) + 1][j + 1])'
  BY <1>2, <1>4, <1>7
<1>10. (Len(out) <= Len(frames))' /\ (index \notin InField)' /\ (~isShutdown)'
  BY <1>1, <1>2
<1> QED
  BY <1>5, <1>6, <1>8, <1>9, <1>10 DEF Place

\* Where a frame begins at s and i of its l bytes are read, it is read d bytes later.
LEMMA FrameIsRead ==
  ASSUME NEW a \in Nat, NEW s \in Nat, NEW e \in Nat, NEW p \in Nat, NEW i \in Nat, NEW d \in Nat, NEW l \in Nat,
         s + i = a - (e - p), i + d = l
  PROVE  (s + l) + 0 = a - 0 - (e - (p + d))
  OBVIOUS

\* The place of the splitter after a frame has been pushed.
LEMMA EmitPlaced ==
  ASSUME SplitterInv, ~error, ~isShutdown, pos < Len(data), UNCHANGED <<layout, frames, wire, data, leftover>>,
         NEW n \in layout.lengths, frames[Len(out) + 1] = Frame(n),
         NEW d \in Nat, index + d = FrameLength(n), pos' = pos + d,
         Len(out') = Len(out) + 1, index' = 0
  PROVE  Place'
<1>1. /\ leftover = <<>> /\ Len(out) \in Nat /\ Len(out) < Len(frames)
      /\ pos \in Nat /\ Len(data) \in Nat /\ Arrived \in Nat /\ End(Len(out)) \in Nat
      /\ index \in Nat /\ End(Len(out)) + index = Arrived - (Len(data) - pos)
  BY DecodePlace
<1>2. /\ Arrived' = Arrived /\ InField' = InField /\ MaxFrameLength' = MaxFrameLength
      /\ \A i \in Int : End(i)' = End(i)
  BY SplitterConstants DEF Arrived
<1>3. (End(Len(out)))' = End(Len(out) + 1)
  BY DEF End, Joined
<1>4. Len(frames[Len(out) + 1]) = FrameLength(n) /\ FrameLength(n) \in Nat
  BY FrameType, LayoutNumbers DEF SplitterInv, SplitterTypes
<1>5. /\ Len(frames) \in Nat /\ HeaderLength \in Nat \ {0}
      /\ \A i \in 1 .. Len(frames) : Len(frames[i]) \in Nat /\ Len(frames[i]) >= HeaderLength
      /\ End(Len(out) + 1) = End(Len(out)) + FrameLength(n)
  <2>1. Len(frames) \in Nat
    BY Ends DEF SplitterInv
  <2>2. Len(out) \in 0 .. Len(frames) - 1
    BY <1>1, <2>1
  <2>3. SplitterTypes /\ layout \in Layouts
    BY DEF SplitterInv, SplitterTypes
  <2>4. \A i \in 1 .. Len(frames) : Len(frames[i]) \in Nat /\ Len(frames[i]) >= HeaderLength
    BY <2>3, Ends
  <2>5. End(Len(out) + 1) = End(Len(out)) + Len(frames[Len(out) + 1])
    BY <2>2, <2>3, Ends
  <2>6. HeaderLength \in Nat \ {0}
    BY <2>3, LayoutNumbers
  <2> QED
    BY <1>4, <2>1, <2>4, <2>5, <2>6
<1>6. (End(Len(out)) + index = Arrived - Len(leftover) - (Len(data) - pos))'
  <2>1. (End(Len(out)) + FrameLength(n)) + 0 = Arrived - 0 - (Len(data) - (pos + d))
    <3>1. PICK a, e, l, f : a = Arrived /\ e = End(Len(out)) /\ l = Len(data) /\ f = FrameLength(n)
      OBVIOUS
    <3>2. /\ a \in Nat /\ e \in Nat /\ l \in Nat /\ f \in Nat /\ index \in Nat /\ pos \in Nat /\ d \in Nat
          /\ e + index = a - (l - pos) /\ index + d = f
      BY <1>1, <1>4, <3>1
    <3>3. (e + f) + 0 = a - 0 - (l - (pos + d))
      BY <3>2, FrameIsRead
    <3> QED
      BY <3>1, <3>3
  <2>2. Len(leftover') = 0
    BY <1>1
  <2> QED
    BY <1>2, <1>3, <1>5, <2>1, <2>2
<1>7. (\A i \in 0 .. Len(frames) - 1 : Arrived - End(i) \notin InField)'
  <2>1. data # <<>>
    BY <1>1
  <2>2. \A i \in 0 .. Len(frames) - 1 : Arrived - End(i) \notin InField
    BY <2>1 DEF SplitterInv, Place
  <2> QED
    BY <1>2, <2>2
<1>8. (Len(out) <= Len(frames))'
  BY <1>1, <1>5
<1>9. (Len(out) < Len(frames))' => (index < Len(frames[Len(out) + 1]))'
  <2> SUFFICES ASSUME (Len(out) < Len(frames))'
               PROVE  (index < Len(frames[Len(out) + 1]))'
    OBVIOUS
  <2>1. Len(out) + 1 < Len(frames)
    OBVIOUS
  <2>2. (Len(out) + 1) + 1 \in 1 .. Len(frames)
    BY <1>1, <1>5, <2>1
  <2>3. 0 < Len(frames[(Len(out) + 1) + 1])
    BY <1>5, <2>2
  <2> QED
    BY <2>3
<1>10. (\A j \in 0 .. MaxFrameLength - 1 : j < index => frameBuffer[j] = frames[Len(out) + 1][j + 1])'
  OBVIOUS
<1>11. (index \notin InField)'
  BY <1>2 DEF InField
<1> QED
  BY <1>6, <1>7, <1>8, <1>9, <1>10, <1>11 DEF Place

\* A call of _decode preserves the invariant.
LEMMA SplitterDecode ==
  ASSUME SplitterInv, Decode
  PROVE  SplitterInv'
<1> DEFINE toHeader == IF index < HeaderLength THEN HeaderLength - index ELSE 0
           n1 == Available(toHeader, pos)
           buffer1 == Copied(frameBuffer, index, pos, n1)
           index1 == index + n1
           pos1 == pos + n1
           length == ReadLength(buffer1)
           complete == CompleteLength(length)
           n2 == Available(complete - index1, pos1)
           buffer2 == Copied(buffer1, index1, pos1, n2)
           index2 == index1 + n2
           pos2 == pos1 + n2
           Waits == /\ BeforeField(index1)
                    /\ frameBuffer' = buffer1 /\ index' = index1 /\ pos' = pos1
                    /\ UNCHANGED <<isShutdown, out, error>>
           Rejects == /\ ~BeforeField(index1) /\ TooLong(length)
                      /\ error' = TRUE
                      /\ frameBuffer' = buffer1 /\ index' = index1
                      /\ UNCHANGED <<isShutdown, pos, out>>
           Fills == /\ ~BeforeField(index1) /\ ~TooLong(length)
                    /\ frameBuffer' = buffer2 /\ pos' = pos2
                    /\ IF Incomplete(index2, complete)
                       THEN index' = index2 /\ UNCHANGED <<isShutdown, out>>
                       ELSE Emit(buffer2, index2)
                    /\ UNCHANGED error
<1>1. ~error /\ ~isShutdown /\ pos < Len(data) /\ UNCHANGED <<layout, frames, wire, data, leftover>>
  BY DEF Decode
<1>2. Waits \/ Rejects \/ Fills
  BY DEF Decode
<1>3. SplitterTypes /\ Stream /\ Modes /\ Place /\ MessagesAreFrames /\ ErrorMeansLargeFrame
  BY <1>1 DEF SplitterInv
<1>4. /\ leftover = <<>> /\ Len(out) \in Nat /\ Len(out) < Len(frames) /\ Len(out) + 1 \in 1 .. Len(frames)
      /\ pos \in Nat /\ Len(data) \in Nat /\ index \in Nat
  BY <1>1, DecodePlace
<1>5. PICK n \in layout.lengths : frames[Len(out) + 1] = Frame(n)
  BY <1>3, <1>4 DEF SplitterTypes
<1>6. /\ Offset \in Nat /\ HeaderLength = Offset + FieldLength /\ FieldLength \in Nat /\ MaxFrameLength \in Nat
      /\ n \in Nat /\ FrameLength(n) \in Nat /\ FrameLength(n) >= HeaderLength /\ CompleteLength(n) = FrameLength(n)
  BY <1>3, LayoutNumbers DEF SplitterTypes
<1>7. /\ n1 \in Nat /\ pos1 \in Nat /\ pos1 <= Len(data) /\ index1 \in Nat /\ index1 <= FrameLength(n)
      /\ Holds(buffer1, Frame(n), index1)
      /\ ~BeforeField(index1) => index1 >= HeaderLength /\ length = n
  BY <1>1, <1>5, DecodeReads
<1>8. /\ Arrived' = Arrived /\ Sent' = Sent /\ InField' = InField /\ MaxFrameLength' = MaxFrameLength
      /\ \A l \in layout.lengths : Frame(l)' = Frame(l)
  BY <1>1, SplitterConstants DEF Arrived
<1>9. Stream'
  BY <1>1, <1>3, <1>8 DEF Stream
<1>10. ASSUME NEW b, NEW i, Holds(b, Frame(n), i), frameBuffer' = b,
              index' \in Nat, pos' \in Nat, pos' <= Len(data), out' \in Seq(Seq(Nat)),
              isShutdown' \in BOOLEAN, error' \in BOOLEAN
       PROVE  SplitterTypes'
  <2>1. frameBuffer' \in [0 .. MaxFrameLength - 1 -> Nat]
    BY <1>10 DEF Holds
  <2>2. (\A l \in 1 .. Len(frames) : \E m \in layout.lengths : frames[l] = Frame(m))'
    BY <1>1, <1>3, <1>8 DEF SplitterTypes
  <2> QED
    BY <1>1, <1>3, <1>8, <1>10, <2>1, <2>2 DEF SplitterTypes
<1>11. out \in Seq(Seq(Nat)) /\ isShutdown \in BOOLEAN /\ error \in BOOLEAN /\ pos <= Len(data)
  BY <1>3 DEF SplitterTypes
<1>12. ASSUME out' = out
       PROVE  MessagesAreFrames'
  BY <1>1, <1>3, <1>8, <1>12 DEF MessagesAreFrames
<1>13. ASSUME error' = error
       PROVE  ErrorMeansLargeFrame'
  BY <1>1, <1>13 DEF ErrorMeansLargeFrame
<1>14. data' # <<>>
  BY <1>1, <1>4
<1>15. CASE Waits
  <2>1. index1 < Offset
    BY <1>15 DEF BeforeField
  <2>2. index1 < FrameLength(n) /\ index1 \notin InField
    <3> HIDE DEF n1
    <3>1. index1 < FrameLength(n) /\ index1 \notin Offset .. HeaderLength - 1
      BY <1>6, <1>7, <2>1
    <3> QED
      BY <3>1 DEF InField
  <2>3. SplitterTypes'
    BY <1>1, <1>7, <1>10, <1>11, <1>15
  <2>4. Modes'
    BY <1>1, <1>3, <1>4, <1>14, <1>15 DEF Modes
  <2>5. Place'
    <3> HIDE DEF n1, buffer1
    <3> QED
      BY <1>1, <1>5, <1>7, <1>15, <2>2, DecodePlaced
  <2> QED
    BY <1>9, <1>12, <1>13, <1>15, <2>3, <2>4, <2>5 DEF SplitterInv
<1>16. CASE Rejects
  <2>1. n > MaxFrameLength
    BY <1>7, <1>16 DEF TooLong
  <2>2. Frame(n) \in ToSet(frames)
    BY <1>4, <1>5 DEF ToSet
  <2>3. ErrorMeansLargeFrame'
    BY <1>1, <1>8, <2>1, <2>2 DEF ErrorMeansLargeFrame, ToSet
  <2>4. SplitterTypes'
    BY <1>1, <1>4, <1>7, <1>10, <1>11, <1>16
  <2>5. Modes'
    BY <1>1, <1>4, <1>14, <1>16 DEF Modes
  <2> QED
    BY <1>9, <1>12, <1>16, <2>3, <2>4, <2>5 DEF SplitterInv
<1>17. CASE Fills
  <2>1. index1 >= HeaderLength /\ length = n /\ complete = FrameLength(n)
    BY <1>6, <1>7, <1>17
  <2>2. n2 = Available(FrameLength(n) - index1, pos1)
    <3> HIDE DEF index1, pos1, length, complete
    <3> QED
      BY <2>1 DEF complete
  <2>3. /\ n2 \in Nat /\ pos2 \in Nat /\ pos2 <= Len(data) /\ index2 \in Nat /\ index2 <= FrameLength(n)
        /\ Holds(buffer2, Frame(n), index2)
    <3> HIDE DEF n1, buffer1, n2
    <3> QED
      BY <1>1, <1>5, <1>7, <2>2, DecodeFills
  <2>4. /\ ~TooLong(n) /\ frameBuffer' = buffer2 /\ pos' = pos2 /\ error' = error
        /\ IF index2 < FrameLength(n)
           THEN index' = index2 /\ UNCHANGED <<isShutdown, out>>
           ELSE Emit(buffer2, index2)
    <3> HIDE DEF n1, buffer1, n2, buffer2, complete, length
    <3> QED
      BY <1>17, <2>1 DEF Incomplete
  <2> HIDE DEF n1, buffer1, n2, buffer2, complete, length
  <2>5. PICK d : d = n1 + n2
    OBVIOUS
  <2>6. d \in Nat /\ pos2 = pos + d /\ index2 = index + d
    BY <1>4, <1>7, <2>3, <2>5
  <2>7. CASE index2 < FrameLength(n)
    <3>1. index2 \notin InField
      <4>1. index2 \notin Offset .. HeaderLength - 1
        BY <1>6, <1>7, <2>1, <2>3
      <4> QED
        BY <4>1 DEF InField
    <3>2. index' = index2 /\ UNCHANGED <<isShutdown, out>>
      BY <2>4, <2>7
    <3>3. SplitterTypes'
      BY <1>1, <1>10, <1>11, <2>3, <2>4, <3>2
    <3>4. Modes'
      BY <1>1, <1>3, <1>4, <1>14, <2>4, <3>2 DEF Modes
    <3>5. Place'
      BY <1>1, <1>5, <2>3, <2>4, <2>6, <2>7, <3>1, <3>2, DecodePlaced
    <3> QED
      BY <1>9, <1>12, <1>13, <2>4, <3>2, <3>3, <3>4, <3>5 DEF SplitterInv
  <2>8. CASE ~ (index2 < FrameLength(n))
    <3>1. index2 = FrameLength(n)
      BY <1>6, <2>3, <2>8
    <3>2. Emit(buffer2, index2)
      BY <2>4, <2>8
    <3> DEFINE message == [j \in 1 .. index2 |-> IF j <= MaxFrameLength THEN buffer2[j - 1] ELSE Junk]
    <3>3. out' = Append(out, message) /\ index' = 0 /\ isShutdown' \in BOOLEAN
      BY <1>11, <3>2 DEF Emit
    <3>4. /\ message \in Seq(Nat) /\ Len(message) = FrameLength(n)
          /\ \A j \in 1 .. FrameLength(n) : j <= MaxFrameLength => message[j] = Frame(n)[j]
      <4>1. Junk \in Nat
        BY SplitterAssumption DEF Junk
      <4>2. /\ buffer2 \in [0 .. MaxFrameLength - 1 -> Nat]
            /\ \A j \in 0 .. MaxFrameLength - 1 : j < index2 => buffer2[j] = Frame(n)[j + 1]
        BY <2>3 DEF Holds
      <4>3. PICK l : l = FrameLength(n) /\ l = index2
        BY <3>1
      <4> HIDE DEF index2
      <4>4. l \in Nat /\ message = [j \in 1 .. l |-> IF j <= MaxFrameLength THEN buffer2[j - 1] ELSE Junk]
        BY <1>6, <4>3
      <4> HIDE DEF message
      <4>5. \A j \in 1 .. l : j <= MaxFrameLength => j - 1 \in 0 .. MaxFrameLength - 1 /\ j - 1 < l /\ (j - 1) + 1 = j
        BY <1>6, <4>4
      <4>6. \A j \in 1 .. l : message[j] \in Nat
        BY <4>1, <4>2, <4>4, <4>5
      <4>7. message \in Seq(Nat) /\ Len(message) = l
        BY <4>4, <4>6
      <4>8. \A j \in 1 .. l : j <= MaxFrameLength => message[j] = Frame(n)[j]
        BY <4>2, <4>3, <4>4, <4>5
      <4> QED
        BY <4>3, <4>7, <4>8
    <3> HIDE DEF message
    <3>5. /\ out' \in Seq(Seq(Nat)) /\ Len(out') = Len(out) + 1
          /\ out'[Len(out) + 1] = message /\ \A i \in 1 .. Len(out) : out'[i] = out[i]
      BY <1>11, <3>3, <3>4, AppendProperties
    <3>6. SplitterTypes'
      <4>1. error' \in BOOLEAN /\ index' \in Nat
        BY <1>3, <2>4, <3>3 DEF SplitterTypes
      <4> QED
        BY <1>10, <2>3, <2>4, <3>3, <3>5, <4>1
    <3>7. Modes'
      BY <1>1, <1>4, <1>14, <2>4, <3>3 DEF Modes
    <3>8. MessagesAreFrames'
      <4>1. \A i \in 1 .. Len(out) : /\ Len(out[i]) = Len(frames[i])
                                     /\ \A j \in DOMAIN out[i] : j <= MaxFrameLength => out[i][j] = frames[i][j]
        <5>1. DOMAIN out = 1 .. Len(out)
          BY <1>11
        <5> QED
          BY <1>3, <5>1 DEF MessagesAreFrames
      <4>2. Len(Frame(n)) = FrameLength(n)
        BY <1>3, FrameType DEF SplitterTypes
      <4>3. DOMAIN message = 1 .. FrameLength(n)
        BY <3>4
      <4>4. DOMAIN out' = 1 .. Len(out) + 1
        BY <3>5
      <4>5. ASSUME NEW i \in 1 .. Len(out) + 1
            PROVE  /\ Len(out'[i]) = Len(frames[i])
                   /\ \A j \in DOMAIN out'[i] : j <= MaxFrameLength => out'[i][j] = frames[i][j]
        <5>1. CASE i \in 1 .. Len(out)
          BY <3>5, <4>1, <5>1
        <5>2. CASE i = Len(out) + 1
          BY <1>5, <3>4, <3>5, <4>2, <4>3, <5>2
        <5> QED
          BY <1>4, <5>1, <5>2
      <4>6. Len(out') <= Len(frames)
        <5>1. Len(frames) \in Nat
          BY <1>3, Ends
        <5> QED
          BY <1>4, <3>5, <5>1
      <4> QED
        BY <1>1, <1>8, <4>4, <4>5, <4>6 DEF MessagesAreFrames
    <3>9. Place'
      BY <1>1, <1>5, <2>4, <2>6, <3>1, <3>3, <3>5, EmitPlaced
    <3> QED
      BY <1>9, <1>13, <2>4, <3>6, <3>7, <3>8, <3>9 DEF SplitterInv
  <2> QED
    BY <2>7, <2>8
<1> QED
  BY <1>2, <1>15, <1>16, <1>17

\* The invariant, when chunks end outside of length fields.
THEOREM SplitterInvHolds ==
  ASSUME ~SplitsFields
  PROVE  Spec => []SplitterInv
<1>1. Init => SplitterInv
  BY SplitterInit
<1>2. SplitterInv /\ [Next]_vars => SplitterInv'
  <2> SUFFICES ASSUME SplitterInv, [Next]_vars
               PROVE  SplitterInv'
    OBVIOUS
  <2>1. CASE Arrive
    BY <2>1, SplitterArrive
  <2>2. CASE Decode
    BY <2>2, SplitterDecode
  <2>3. CASE ChunkDone
    BY <2>3, SplitterChunkDone
  <2>4. CASE PushBack
    BY <2>4, SplitterPushBack
  <2>5. CASE UNCHANGED vars
    BY <2>5, SplitterStutters
  <2> QED
    BY <2>1, <2>2, <2>3, <2>4, <2>5 DEF Next
<1> QED
  BY <1>1, <1>2, PTL DEF Spec

\* Whatever the chunks, as long as none ends inside of a length field, the messages
\* pushed are the frames sent, in order and byte for byte (_decode, _extractFrame).
THEOREM FramesArePushed ==
  ASSUME ~SplitsFields
  PROVE  Spec => []MessagesAreFrames
<1>1. SplitterInv => MessagesAreFrames
  BY DEF SplitterInv
<1> QED
  BY <1>1, SplitterInvHolds, PTL

\* What was not pushed when the splitter was shut down is back in the socket to the
\* last byte, and starts at a frame boundary (shutdown, _pushBack).
THEOREM NothingIsLostAtShutdown ==
  ASSUME ~SplitsFields
  PROVE  Spec => []NothingLostAtShutdown
<1>1. SplitterInv => NothingLostAtShutdown
  <2> SUFFICES ASSUME SplitterInv, isShutdown, data = <<>>
               PROVE  leftover \o wire = FlattenSeq(SubSeq(frames, Len(out) + 1, Len(frames)))
    BY DEF NothingLostAtShutdown
  <2>1. ~error
    BY DEF SplitterInv, Modes
  <2>2. SplitterTypes /\ Stream /\ Modes /\ Place
    BY <2>1 DEF SplitterInv
  <2>3. Len(<<>>) = 0
    OBVIOUS
  <2>4. /\ leftover \in Seq(Nat) /\ Len(leftover) \in Nat /\ wire \in Seq(Nat) /\ Len(wire) \in Nat
        /\ frames \in Seq(Seq(Nat)) /\ Len(out) \in Nat /\ Len(frames) \in Nat /\ Len(Sent) \in Nat /\ pos = 0
    BY <2>2, Ends, LenProperties DEF SplitterTypes, Modes
  <2>5. Len(out) <= Len(frames) /\ index = 0 /\ End(Len(out)) + 0 = Arrived - Len(leftover) - (0 - 0)
    BY <2>2, <2>3, <2>4 DEF Place
  <2>6. Len(out) \in 0 .. Len(frames)
    BY <2>4, <2>5
  <2> DEFINE rest == FlattenSeq(SubSeq(frames, Len(out) + 1, Len(frames)))
  <2>7. Sent = Joined(frames, Len(out)) \o rest
    BY <2>4, <2>6, JoinedSuffix DEF Sent
  <2>8. Joined(frames, Len(out)) \in Seq(Nat)
    BY <2>4, <2>6, JoinedStep
  <2>9. rest \in Seq(Nat)
    <3>1. \A i \in Len(out) + 1 .. Len(frames) : frames[i] \in Seq(Nat)
      BY <2>4, <2>5
    <3>2. SubSeq(frames, Len(out) + 1, Len(frames)) \in Seq(Seq(Nat))
      BY <2>4, <2>5, <3>1
    <3> QED
      BY <3>2, FlattenType
  <2> HIDE DEF rest
  <2>10. PICK e, l, w, r : e = End(Len(out)) /\ l = Len(leftover) /\ w = Len(wire) /\ r = Len(rest)
    OBVIOUS
  <2>11. e \in Nat /\ l \in Nat /\ w \in Nat /\ r \in Nat
    BY <2>2, <2>4, <2>6, <2>9, <2>10, Ends, LenProperties
  <2>12. Len(Sent) = e + r /\ \A m \in 1 .. r : Sent[e + m] = rest[m]
    <3>1. e = Len(Joined(frames, Len(out)))
      BY <2>10 DEF End
    <3>2. PICK j : j = Joined(frames, Len(out))
      OBVIOUS
    <3>3. Len(Sent) = e + r /\ \A m \in 1 .. e + r : Sent[m] = IF m <= e THEN j[m] ELSE rest[m - e]
      BY <2>7, <2>8, <2>9, <2>10, <3>1, <3>2, ConcatProperties
    <3>4. \A m \in 1 .. r : e + m \in 1 .. e + r /\ ~ (e + m <= e) /\ (e + m) - e = m
      BY <2>11
    <3> QED
      BY <3>3, <3>4
  <2>13. e = (e + r) - w - l
    BY <2>4, <2>5, <2>10, <2>11, <2>12 DEF Arrived
  <2>14. r = l + w
    BY <2>11, <2>13
  <2>15. ASSUME NEW m \in 1 .. l
         PROVE  leftover[m] = rest[m]
    <3>1. Arrived - l + m = e + m /\ m \in 1 .. r
      BY <2>4, <2>10, <2>11, <2>12, <2>13, <2>14 DEF Arrived
    <3> QED
      BY <2>2, <2>10, <2>12, <3>1 DEF Stream
  <2>16. ASSUME NEW m \in 1 .. w
         PROVE  wire[m] = rest[l + m]
    <3>1. Arrived = (e + r) - w
      BY <2>10, <2>12 DEF Arrived
    <3>2. Arrived + m = e + (l + m) /\ l + m \in 1 .. r
      BY <2>11, <2>14, <3>1
    <3> QED
      BY <2>2, <2>10, <2>12, <3>2 DEF Stream
  <2> DEFINE both == leftover \o wire
  <2>17. both \in Seq(Nat) /\ Len(both) = l + w /\ \A m \in 1 .. l + w : both[m] = IF m <= l THEN leftover[m] ELSE wire[m - l]
    BY <2>4, <2>10, ConcatProperties
  <2> HIDE DEF both
  <2>18. ASSUME NEW m \in 1 .. l + w
         PROVE  both[m] = rest[m]
    <3>1. CASE m <= l
      BY <2>11, <2>15, <2>17, <3>1
    <3>2. CASE ~ (m <= l)
      <4>1. m - l \in 1 .. w /\ l + (m - l) = m
        BY <2>11, <3>2
      <4> QED
        BY <2>16, <2>17, <3>2, <4>1
    <3> QED
      BY <3>1, <3>2
  <2>19. both = rest
    BY <2>9, <2>10, <2>14, <2>17, <2>18, SeqEqual
  <2> QED
    BY <2>19 DEF both, rest
<1> QED
  BY <1>1, SplitterInvHolds, PTL

\* "The frame is bigger than expected" is only thrown of a frame over the limit, when no
\* chunk ends inside of a length field (_makeFrameSizeError; the run of the split fields
\* shows that it is not so without that condition).
THEOREM OnlyLargeFramesAreRejected ==
  ASSUME ~SplitsFields
  PROVE  Spec => []ErrorMeansLargeFrame
<1>1. SplitterInv => ErrorMeansLargeFrame
  BY DEF SplitterInv
<1> QED
  BY <1>1, SplitterInvHolds, PTL

---------------------------------------------------------------------------
(* WebInspectorDecoder.                                                    *)

\* The smaller of what was sent of a message and what the buffer holds.
Held(sent) == IF sent <= FrameBuffer THEN sent ELSE FrameBuffer

\* The messages with the first n numbers.
Numbered(n) == [m \in 1 .. n |-> m]

\* The first n messages of the device fit the buffer.
AllFit(n) == \A m \in 1 .. n : completed[m] <= FrameBuffer

\* Until a message was too long, every message was pushed and the buffer holds what
\* was sent of the next one, as far as it fits; then nothing more is pushed.
DecoderPlaced ==
  /\ arriving \in [length : Nat, sent : Nat] /\ arriving.sent <= arriving.length
  /\ completed \in Seq(Nat)
  /\ broken \in BOOLEAN
  /\ ~broken => /\ AllFit(Len(completed))
                /\ decoded = Numbered(Len(completed))
                /\ inspectorBufferIndex = arriving.sent
                /\ inspectorBuffer = Bytes(Len(completed) + 1, Held(arriving.sent))
  /\ broken => \E n \in Nat : /\ n + 1 \in 1 .. Len(completed)
                              /\ AllFit(n) /\ completed[n + 1] > FrameBuffer
                              /\ decoded = Numbered(n)

\* The buffer with the bytes up to s of a message of l bytes, and the n bytes behind them.
Filled(m, l, s, n) == UpTo(FrameBuffer, Bytes(m, Held(s)) \o SubSeq(Bytes(m, l), s + 1, s + n))

\* What follows the bytes of a message that are in the buffer, as far as it fits.
LEMMA BytesGoOn ==
  ASSUME NEW m \in Nat, NEW l \in Nat, NEW s \in Nat, NEW n \in Nat, s + n <= l
  PROVE  Filled(m, l, s, n) = Bytes(m, Held(s + n))
<1>0. FrameBuffer \in Nat
  BY WebInspectorAssumption
<1> DEFINE a == Bytes(m, Held(s))
           d == SubSeq(Bytes(m, l), s + 1, s + n)
           b == Bytes(m, Held(s + n))
<1>1. Held(s) \in Nat /\ Held(s + n) \in Nat /\ Held(s) <= s /\ Held(s + n) <= s + n
  BY <1>0 DEF Held
<1>2. a \in Seq({m} \X Nat) /\ Len(a) = Held(s) /\ \A i \in 1 .. Held(s) : a[i] = <<m, i>>
  BY <1>1 DEF Bytes
<1>3. b \in Seq({m} \X Nat) /\ Len(b) = Held(s + n) /\ \A i \in 1 .. Held(s + n) : b[i] = <<m, i>>
  BY <1>1 DEF Bytes
<1>4. Bytes(m, l) \in Seq({m} \X Nat) /\ Len(Bytes(m, l)) = l /\ \A i \in 1 .. l : Bytes(m, l)[i] = <<m, i>>
  BY DEF Bytes
<1>5. d \in Seq({m} \X Nat) /\ Len(d) = n /\ \A i \in 1 .. n : d[i] = <<m, s + i>>
  <2> DEFINE w == Bytes(m, l)
  <2> HIDE DEF w
  <2>1. w \in Seq({m} \X Nat) /\ Len(w) = l /\ \A i \in 1 .. l : w[i] = <<m, i>>
    BY <1>4 DEF w
  <2>2. SubSeq(w, s + 1, s + n) \in Seq({m} \X Nat) /\ Len(SubSeq(w, s + 1, s + n)) = n
    BY <2>1
  <2>3. \A i \in 1 .. n : SubSeq(w, s + 1, s + n)[i] = w[s + i] /\ s + i \in 1 .. l
    BY <2>1, <2>2
  <2> QED
    BY <2>1, <2>2, <2>3 DEF w
<1> HIDE DEF a, d, b
<1> DEFINE c == a \o d
<1>6. /\ c \in Seq({m} \X Nat) /\ Len(c) = Held(s) + n
      /\ \A i \in 1 .. Held(s) : c[i] = a[i]
      /\ \A i \in Held(s) + 1 .. Held(s) + n : c[i] = d[i - Held(s)]
  <2>1. /\ a \o d \in Seq({m} \X Nat) /\ Len(a \o d) = Len(a) + Len(d)
        /\ \A i \in 1 .. Len(a) + Len(d) : (a \o d)[i] = IF i <= Len(a) THEN a[i] ELSE d[i - Len(a)]
    BY <1>2, <1>5, ConcatProperties
  <2> HIDE DEF c
  <2>2. /\ c \in Seq({m} \X Nat) /\ Len(c) = Held(s) + n
        /\ \A i \in 1 .. Held(s) + n : c[i] = IF i <= Held(s) THEN a[i] ELSE d[i - Held(s)]
    BY <2>1, <1>2, <1>5 DEF c
  <2>3. \A i \in 1 .. Held(s) : i \in 1 .. Held(s) + n /\ i <= Held(s)
    BY <1>1
  <2>4. \A i \in Held(s) + 1 .. Held(s) + n : i \in 1 .. Held(s) + n /\ ~(i <= Held(s))
    BY <1>1
  <2> QED
    BY <2>2, <2>3, <2>4
<1> HIDE DEF c
<1>7. CASE s <= FrameBuffer
  <2>1. Held(s) = s
    BY <1>7 DEF Held
  <2>2. \A i \in 1 .. s + n : c[i] = <<m, i>>
    <3>1. TAKE i \in 1 .. s + n
    <3>2. CASE i \in 1 .. s
      BY <3>2, <2>1, <1>6, <1>2
    <3>3. CASE i \notin 1 .. s
      <4>1. i \in s + 1 .. s + n /\ i - s \in 1 .. n /\ s + (i - s) = i
        BY <3>1, <3>3
      <4>2. c[i] = d[i - s]
        BY <4>1, <2>1, <1>6
      <4> QED
        BY <4>1, <4>2, <1>5
    <3> QED
      BY <3>2, <3>3
  <2>3. Len(c) = s + n
    BY <1>6, <2>1
  <2>4. UpTo(FrameBuffer, c) \in Seq({m} \X Nat) /\ Len(UpTo(FrameBuffer, c)) = Held(s + n)
    BY <2>3, <1>6, <1>0 DEF UpTo, Held
  <2>5. \A i \in 1 .. Held(s + n) : UpTo(FrameBuffer, c)[i] = <<m, i>>
    <3>1. TAKE i \in 1 .. Held(s + n)
    <3>2. i \in 1 .. s + n
      BY <1>1
    <3>3. UpTo(FrameBuffer, c)[i] = c[i]
      BY <2>3, <1>6, <1>0 DEF UpTo, Held
    <3> QED
      BY <3>2, <3>3, <2>2
  <2>6. Len(UpTo(FrameBuffer, c)) = Len(b) /\ \A i \in 1 .. Len(UpTo(FrameBuffer, c)) : UpTo(FrameBuffer, c)[i] = b[i]
    BY <2>4, <2>5, <1>3
  <2>7. UpTo(FrameBuffer, c) = b
    BY <2>4, <2>6, <1>3, SeqEqual
  <2> QED
    BY <2>7 DEF a, b, c, d, Filled
<1>8. CASE s > FrameBuffer
  <2>1. Held(s) = FrameBuffer /\ Held(s + n) = FrameBuffer
    BY <1>8, <1>0 DEF Held
  <2>0. Len(c) \in Nat /\ FrameBuffer <= Len(c)
    BY <2>1, <1>6, <1>0
  <2>2. UpTo(FrameBuffer, c) \in Seq({m} \X Nat) /\ Len(UpTo(FrameBuffer, c)) = FrameBuffer
    <3>1. UpTo(FrameBuffer, c) = SubSeq(c, 1, FrameBuffer)
      BY <2>0 DEF UpTo
    <3>2. SubSeq(c, 1, FrameBuffer) \in Seq({m} \X Nat) /\ Len(SubSeq(c, 1, FrameBuffer)) = FrameBuffer
      BY <2>0, <1>0, <1>6
    <3> QED
      BY <3>1, <3>2
  <2>3. \A i \in 1 .. FrameBuffer : UpTo(FrameBuffer, c)[i] = c[i]
    BY <2>1, <1>6, <1>0 DEF UpTo
  <2>4. \A i \in 1 .. FrameBuffer : c[i] = <<m, i>>
    BY <2>1, <1>6, <1>2
  <2>6. Len(UpTo(FrameBuffer, c)) = Len(b) /\ \A i \in 1 .. Len(UpTo(FrameBuffer, c)) : UpTo(FrameBuffer, c)[i] = b[i]
    BY <2>1, <2>2, <2>3, <2>4, <1>3
  <2>7. UpTo(FrameBuffer, c) = b
    BY <2>2, <2>6, <1>3, SeqEqual
  <2> QED
    BY <2>7 DEF a, b, c, d, Filled
<1> QED
  BY <1>7, <1>8, <1>0

\* The first bytes of a message.
LEMMA BytesUpTo ==
  ASSUME NEW m \in Nat, NEW k \in Nat, NEW n \in Nat
  PROVE  /\ k <= n => UpTo(n, Bytes(m, k)) = Bytes(m, k)
         /\ UpTo(0, Bytes(m, k)) = Bytes(m + 1, 0)
<1>1. Bytes(m, k) \in Seq({m} \X Nat) /\ Len(Bytes(m, k)) = k
  BY DEF Bytes
<1>2. Bytes(m + 1, 0) = <<>>
  BY DEF Bytes
<1>3. SubSeq(Bytes(m, k), 1, 0) = <<>>
  BY <1>1
<1>4. SubSeq(Bytes(m, k), 1, k) = Bytes(m, k)
  BY <1>1
<1>5. UpTo(0, Bytes(m, k)) = <<>>
  BY <1>1, <1>3 DEF UpTo
<1>6. k <= n => UpTo(n, Bytes(m, k)) = Bytes(m, k)
  <2> HAVE k <= n
  <2>1. k = n \/ ~(n <= k)
    OBVIOUS
  <2> QED
    BY <1>1, <1>4, <2>1 DEF UpTo
<1> QED
  BY <1>2, <1>5, <1>6

\* The bytes of the beginnings of a message tell their lengths.
LEMMA BytesEqual ==
  ASSUME NEW m \in Nat, NEW k \in Nat, NEW n \in Nat
  PROVE  (Bytes(m, k) = Bytes(m, n)) <=> k = n
<1>1. Len(Bytes(m, k)) = k /\ Len(Bytes(m, n)) = n
  BY DEF Bytes
<1> QED
  BY <1>1

\* One more message has arrived.
LEMMA NumberedAppend ==
  ASSUME NEW n \in Nat
  PROVE  Append(Numbered(n), n + 1) = Numbered(n + 1)
<1>1. Numbered(n) \in Seq(Nat) /\ Len(Numbered(n)) = n /\ \A m \in 1 .. n : Numbered(n)[m] = m
  BY DEF Numbered
<1>2. Numbered(n + 1) \in Seq(Nat) /\ Len(Numbered(n + 1)) = n + 1 /\ \A m \in 1 .. n + 1 : Numbered(n + 1)[m] = m
  BY DEF Numbered
<1>3. /\ Append(Numbered(n), n + 1) \in Seq(Nat) /\ Len(Append(Numbered(n), n + 1)) = n + 1
      /\ \A m \in 1 .. n : Append(Numbered(n), n + 1)[m] = m
      /\ Append(Numbered(n), n + 1)[n + 1] = n + 1
  BY <1>1, AppendProperties
<1>4. \A m \in 1 .. n + 1 : m \in 1 .. n \/ m = n + 1
  OBVIOUS
<1>5. \A m \in 1 .. n + 1 : Append(Numbered(n), n + 1)[m] = Numbered(n + 1)[m]
  BY <1>2, <1>3, <1>4
<1> QED
  BY <1>2, <1>3, <1>5, SeqEqual

\* The decoder starts in place.
LEMMA InspectorStarts == InspectorInit => DecoderPlaced
<1> SUFFICES ASSUME InspectorInit PROVE DecoderPlaced
  OBVIOUS
<1>1. Held(0) = 0 /\ Bytes(1, 0) = <<>> /\ Numbered(0) = <<>>
  BY WebInspectorAssumption DEF Held, Bytes, Numbered
<1>2. /\ arriving = [length |-> 0, sent |-> 0] /\ inspectorBuffer = <<>> /\ inspectorBufferIndex = 0
      /\ completed = <<>> /\ decoded = <<>> /\ broken = FALSE
  BY DEF InspectorInit, Idle
<1>3. Len(completed) = 0 /\ completed \in Seq(Nat) /\ Len(completed) + 1 = 1 /\ arriving.sent = 0 /\ arriving.length = 0
  BY <1>2, EmptySeq
<1>4. AllFit(Len(completed))
  BY <1>3 DEF AllFit
<1>5. arriving \in [length : Nat, sent : Nat] /\ arriving.sent <= arriving.length
  BY <1>2
<1>6. decoded = Numbered(Len(completed)) /\ inspectorBuffer = Bytes(Len(completed) + 1, Held(arriving.sent))
  BY <1>1, <1>2, <1>3
<1> QED
  BY <1>2, <1>3, <1>4, <1>5, <1>6 DEF DecoderPlaced

\* What the client sends leaves the decoder as it is.
LEMMA ReceivingUnchanged ==
  ASSUME DecoderPlaced, UNCHANGED receiving
  PROVE  DecoderPlaced'
BY DEF DecoderPlaced, receiving, AllFit, Numbered, Bytes, Held

\* A part of a message arrives.
LEMMA InspectorDecodes ==
  ASSUME DecoderPlaced, NEW length \in PayloadLengths, NEW n \in 1 .. length, InspectorDecode(length, n)
  PROVE  DecoderPlaced'
<1> DEFINE message == IF arriving = Idle THEN [length |-> length, sent |-> 0] ELSE arriving
           m == Len(completed) + 1
           next == SubSeq(Bytes(m, message.length), message.sent + 1, message.sent + n)
           filled == UpTo(FrameBuffer, inspectorBuffer \o next)
           end == inspectorBufferIndex + Len(next)
           isLast == message.sent + n = message.length
           whole == Parsed(filled, end) = Bytes(m, message.length)
<1>1. /\ n \in 1 .. message.length - message.sent
      /\ arriving' = IF isLast THEN Idle ELSE [message EXCEPT !.sent = @ + n]
      /\ completed' = IF isLast THEN Append(completed, message.length) ELSE completed
      /\ broken => UNCHANGED <<inspectorBuffer, inspectorBufferIndex, decoded, broken>>
      /\ ~broken => /\ decoded' = IF isLast /\ whole THEN Append(decoded, m) ELSE decoded
                    /\ broken' = (isLast /\ ~whole)
                    /\ inspectorBufferIndex' = IF isLast /\ whole THEN 0 ELSE end
                    /\ inspectorBuffer' = UpTo(inspectorBufferIndex', filled)
  BY DEF InspectorDecode, Reset
<1>2. /\ length \in Nat /\ FrameBuffer \in Nat
      /\ arriving \in [length : Nat, sent : Nat] /\ arriving.sent <= arriving.length
      /\ completed \in Seq(Nat) /\ Len(completed) \in Nat /\ broken \in BOOLEAN
  BY WebInspectorAssumption DEF DecoderPlaced
<1>3. /\ message \in [length : Nat, sent : Nat] /\ message.sent <= message.length
      /\ message.sent = arriving.sent
  BY <1>2 DEF Idle
<1>4. PICK l \in Nat, s \in Nat : message = [length |-> l, sent |-> s] /\ l = message.length /\ s = message.sent
  BY <1>3
<1>5. n \in Nat /\ s + n \in Nat /\ s + n <= l /\ m \in Nat
  BY <1>1, <1>2, <1>4
<1>6. next = SubSeq(Bytes(m, l), s + 1, s + n) /\ Len(next) = n
  <2>1. Bytes(m, l) \in Seq({m} \X Nat) /\ Len(Bytes(m, l)) = l
    BY DEF Bytes
  <2>2. PICK w : w = Bytes(m, l)
    OBVIOUS
  <2>3. Len(SubSeq(w, s + 1, s + n)) = n
    BY <2>1, <2>2, <1>5
  <2>4. next = SubSeq(Bytes(m, l), s + 1, s + n)
    BY <1>4
  <2> QED
    BY <2>2, <2>3, <2>4
<1>7. [message EXCEPT !.sent = @ + n] = [length |-> l, sent |-> s + n]
  BY <1>4
<1> HIDE DEF message
<1>8. isLast <=> s + n = l
  BY <1>4
<1> DEFINE fits == whole
<1>9. arriving' \in [length : Nat, sent : Nat] /\ arriving'.sent <= arriving'.length
  BY <1>1, <1>5, <1>7, <1>8 DEF Idle
<1>10. completed' \in Seq(Nat)
  BY <1>1, <1>2, <1>4
<1>11. arriving'.sent = IF isLast THEN 0 ELSE s + n
  BY <1>1, <1>7 DEF Idle
<1>12. /\ isLast => Len(completed') = m /\ completed'[m] = l
       /\ ~isLast => completed' = completed
       /\ \A k \in 1 .. Len(completed) : completed'[k] = completed[k]
  BY <1>1, <1>2, <1>4
<1>13. CASE broken
  <2>1. PICK k \in Nat : /\ k + 1 \in 1 .. Len(completed) /\ AllFit(k) /\ completed[k + 1] > FrameBuffer
                          /\ decoded = Numbered(k)
    BY <1>13 DEF DecoderPlaced
  <2>2. \A j \in 1 .. k + 1 : completed'[j] = completed[j]
    BY <2>1, <1>12, <1>2
  <2>3. k + 1 \in 1 .. Len(completed)'
    BY <2>1, <1>12, <1>2
  <2>4. AllFit(k)'
    BY <2>1, <2>2 DEF AllFit
  <2>5. completed'[k + 1] > FrameBuffer
    BY <2>1, <2>2
  <2>6. broken' /\ decoded' = Numbered(k)
    BY <1>1, <1>13, <2>1
  <2>7. Numbered(k)' = Numbered(k)
    BY DEF Numbered
  <2> QED
    BY <2>3, <2>4, <2>5, <2>6, <2>7, <1>9, <1>10 DEF DecoderPlaced
<1>14. CASE ~broken
  <2>1. /\ AllFit(Len(completed)) /\ decoded = Numbered(Len(completed))
        /\ inspectorBufferIndex = s
        /\ inspectorBuffer = Bytes(m, Held(s))
    BY <1>14, <1>3, <1>4 DEF DecoderPlaced
  <2>2. filled = Bytes(m, Held(s + n)) /\ end = s + n
    <3>1. filled = UpTo(FrameBuffer, Bytes(m, Held(s)) \o SubSeq(Bytes(m, l), s + 1, s + n))
      BY <2>1, <1>6
    <3>2. end = s + n
      BY <2>1, <1>6
    <3> HIDE DEF filled, end, next, m
    <3>3. Filled(m, l, s, n) = Bytes(m, Held(s + n))
      BY <1>5, BytesGoOn
    <3> QED
      BY <3>1, <3>2, <3>3 DEF Filled
  <2>3. Held(s + n) \in Nat /\ Held(s + n) <= s + n
    BY <1>2, <1>5 DEF Held
  <2>4. Parsed(filled, end) = filled /\ UpTo(end, filled) = filled
    <3>1. PICK k \in Nat : k = Held(s + n)
      BY <2>3
    <3>2. UpTo(s + n, Bytes(m, k)) = Bytes(m, k)
      BY <3>1, <2>3, <1>5, BytesUpTo
    <3> HIDE DEF filled, end
    <3> QED
      BY <2>2, <3>1, <3>2 DEF Parsed
  <2>5. whole <=> Held(s + n) = l
    BY <2>2, <2>3, <2>4, <1>4, <1>5, BytesEqual
  <2>6. UpTo(0, filled) = Bytes(m + 1, 0)
    BY <2>2, <2>3, <1>5, BytesUpTo
  <2> HIDE DEF filled, end, whole
  <2>7. CASE isLast /\ whole
    <3>1. l <= FrameBuffer
      BY <2>7, <2>5, <1>8, <1>2, <1>5 DEF Held
    <3>2. broken' = FALSE /\ inspectorBufferIndex' = 0 /\ inspectorBuffer' = Bytes(m + 1, 0)
      BY <1>1, <1>14, <2>6, <2>7
    <3>3. decoded' = Numbered(m)
      BY <1>1, <1>2, <1>14, <2>1, <2>7, NumberedAppend
    <3>4. arriving'.sent = 0 /\ Held(0) = 0 /\ Len(completed') = m
      BY <2>7, <1>2, <1>11, <1>12 DEF Held
    <3>5. PICK k \in Nat : k = m
      BY <1>5
    <3>6. AllFit(k)'
      <4>1. \A j \in 1 .. k : j \in 1 .. Len(completed) \/ j = k
        BY <1>2, <3>5
      <4>2. \A j \in 1 .. Len(completed) : completed'[j] <= FrameBuffer
        BY <2>1, <1>12 DEF AllFit
      <4>3. completed'[k] <= FrameBuffer
        BY <3>1, <3>5, <2>7, <1>12
      <4> HIDE DEF m
      <4> QED
        BY <4>1, <4>2, <4>3 DEF AllFit
    <3>7. /\ decoded' = Numbered(k) /\ inspectorBuffer' = Bytes(k + 1, 0) /\ Len(completed') = k
      BY <3>2, <3>3, <3>4, <3>5
    <3> QED
      BY <3>2, <3>4, <3>6, <3>7, <1>9, <1>10 DEF DecoderPlaced, Numbered, Bytes, Held
  <2>8. CASE isLast /\ ~whole
    <3>1. l > FrameBuffer
      BY <2>8, <2>5, <1>8, <1>2, <1>5 DEF Held
    <3>2. broken' /\ decoded' = Numbered(Len(completed))
      BY <1>1, <1>14, <2>1, <2>8
    <3>3. AllFit(Len(completed))' <=> \A j \in 1 .. Len(completed') : completed'[j] <= FrameBuffer
      BY DEF AllFit
    <3>4. PICK k \in Nat : k = Len(completed)
      BY <1>2
    <3>5. k + 1 \in 1 .. Len(completed') /\ completed'[k + 1] > FrameBuffer
      BY <3>1, <3>4, <2>8, <1>12
    <3>6. AllFit(k)'
      BY <3>4, <2>1, <1>12 DEF AllFit
    <3>7. decoded' = Numbered(k)
      BY <3>2, <3>4
    <3> QED
      BY <3>2, <3>5, <3>6, <3>7, <1>9, <1>10 DEF DecoderPlaced, Numbered
  <2>9. CASE ~isLast
    <3>1. broken' = FALSE /\ inspectorBufferIndex' = s + n /\ inspectorBuffer' = Bytes(m, Held(s + n))
      BY <1>1, <1>14, <2>2, <2>4, <2>9
    <3>2. decoded' = decoded /\ completed' = completed /\ arriving'.sent = s + n
      BY <1>1, <1>11, <1>12, <1>14, <2>9
    <3> QED
      BY <3>1, <3>2, <2>1, <1>9, <1>10 DEF DecoderPlaced, AllFit, Numbered, Bytes, Held
  <2> QED
    BY <2>7, <2>8, <2>9
<1> QED
  BY <1>2, <1>13, <1>14

\* The longest beginning of the device's messages that fit the buffer.
LEMMA LongestFitting ==
  ASSUME NEW n \in 0 .. Len(completed), completed \in Seq(Nat), AllFit(n),
         n = Len(completed) \/ completed[n + 1] > FrameBuffer
  PROVE  LET fits == {k \in 0 .. Len(completed) : \A m \in 1 .. k : completed[m] <= FrameBuffer}
         IN  n = CHOOSE k \in fits : \A j \in fits : j <= k
<1> DEFINE fits == {k \in 0 .. Len(completed) : \A m \in 1 .. k : completed[m] <= FrameBuffer}
<1>0. Len(completed) \in Nat /\ FrameBuffer \in Nat
  BY WebInspectorAssumption
<1>1. n \in fits
  BY DEF AllFit
<1>2. ASSUME NEW j \in fits PROVE j <= n
  <2> SUFFICES ASSUME j > n PROVE FALSE
    BY <1>0
  <2>1. n + 1 \in 1 .. j /\ n # Len(completed) /\ n + 1 \in 1 .. Len(completed)
    BY <1>0, <1>2
  <2>2. completed[n + 1] <= FrameBuffer /\ completed[n + 1] \in Nat
    BY <2>1, <1>2
  <2> QED
    BY <2>1, <2>2, <1>0
<1>3. \A k \in fits : (\A j \in fits : j <= k) => k = n
  <2> TAKE k \in fits
  <2> HAVE \A j \in fits : j <= k
  <2>1. n <= k /\ k <= n /\ k \in Nat /\ n \in Nat
    BY <1>0, <1>1, <1>2
  <2> QED
    BY <2>1
<1> HIDE DEF fits
<1>4. n = CHOOSE k \in fits : \A j \in fits : j <= k
  BY <1>1, <1>2, <1>3
<1> QED
  BY <1>4 DEF fits

\* Every step keeps the decoder in place.
THEOREM InspectorPlaced == InspectorSpec => []DecoderPlaced
<1>1. InspectorInit => DecoderPlaced
  BY InspectorStarts
<1>2. DecoderPlaced /\ [InspectorNext]_inspectorVars => DecoderPlaced'
  <2> SUFFICES ASSUME DecoderPlaced, [InspectorNext]_inspectorVars PROVE DecoderPlaced'
    OBVIOUS
  <2>1. CASE UNCHANGED inspectorVars
    BY <2>1, ReceivingUnchanged DEF inspectorVars
  <2>2. ASSUME NEW kind \in {"partial", "full", "simulator"}, Construct(kind) PROVE DecoderPlaced'
    BY <2>2, ReceivingUnchanged DEF Construct
  <2>3. ASSUME NEW kind \in {"plain", "nullish", "unencodable"}, NEW length \in PayloadLengths,
               SendMessage(kind, length)
        PROVE  DecoderPlaced'
    BY <2>3, ReceivingUnchanged DEF SendMessage
  <2>4. ASSUME NEW length \in PayloadLengths, NEW n \in 1 .. length, InspectorDecode(length, n)
        PROVE  DecoderPlaced'
    BY <2>4, InspectorDecodes
  <2> QED
    BY <2>1, <2>2, <2>3, <2>4 DEF InspectorNext
<1> QED
  BY <1>1, <1>2, PTL DEF InspectorSpec

\* DecodedUpToTooLong, for any plists, any cuts and any length of the decoder's buffer:
\* what it pushes are the device's messages up to the first that is too long.
THEOREM DecodedInOrder == InspectorSpec => []DecodedUpToTooLong
<1>1. DecoderPlaced => DecodedUpToTooLong
  <2> SUFFICES ASSUME DecoderPlaced PROVE DecodedUpToTooLong
    OBVIOUS
  <2>0. completed \in Seq(Nat) /\ Len(completed) \in Nat /\ broken \in BOOLEAN
    BY DEF DecoderPlaced
  <2>1. CASE ~broken
    <3>1. AllFit(Len(completed)) /\ decoded = Numbered(Len(completed)) /\ Len(completed) \in 0 .. Len(completed)
      BY <2>0, <2>1 DEF DecoderPlaced
    <3> QED
      BY <3>1, <2>0, LongestFitting DEF DecodedUpToTooLong, Numbered
  <2>2. CASE broken
    <3>1. PICK n \in Nat : /\ n + 1 \in 1 .. Len(completed) /\ AllFit(n) /\ completed[n + 1] > FrameBuffer
                            /\ decoded = Numbered(n)
      BY <2>2 DEF DecoderPlaced
    <3>2. n \in 0 .. Len(completed)
      BY <3>1, <2>0
    <3> QED
      BY <3>1, <3>2, <2>0, LongestFitting DEF DecodedUpToTooLong, Numbered
  <2> QED
    BY <2>0, <2>1, <2>2
<1> QED
  BY <1>1, InspectorPlaced, PTL

---------------------------------------------------------------------------
(* DTXDecoder.                                                             *)

\* No fragment on the channel of f behind f, up to the k-th.
NoneSince(f, k) == \A g \in f + 1 .. k : fragments[g].channel # fragments[f].channel

\* The f-th fragment begins a message or goes on with the one its channel is in.
Legal(f) ==
  /\ fragments[f] \in [channel : Channels, payloadLength : Nat, parses : BOOLEAN, fragmentId : Nat, fragmentCount : Nat]
  /\ fragments[f].fragmentId < fragments[f].fragmentCount
  /\ fragments[f].fragmentId = 0 =>
       \A p \in 1 .. f - 1 : fragments[p].channel = fragments[f].channel /\ NoneSince(p, f - 1) => IsLast(fragments[p])
  /\ fragments[f].fragmentId # 0 =>
       \E p \in 1 .. f - 1 : /\ fragments[p].channel = fragments[f].channel /\ NoneSince(p, f - 1)
                             /\ fragments[f].fragmentId = fragments[p].fragmentId + 1
                             /\ fragments[f].fragmentCount = fragments[p].fragmentCount

\* The bytes of all fragments, and those of the ones behind the h-th.
Wires == [f \in 1 .. Len(fragments) |-> BytesOf(f, fragments[f])]
Ahead(h) == Behind(Wires, h, Len(fragments))

\* The bytes behind the at-th of the buffer, and those that the decoder has not used.
RestAt(at) == SubSeq(buffer, at + 1, Len(buffer)) \o incoming
Rest == RestAt(cursor)

\* The messages that are not complete with the k-th fragment, by their latest one.
OpenAt(k) == {f \in 1 .. k : ~IsLast(fragments[f]) /\ NoneSince(f, k)}

\* The last fragments of what can be parsed among the first k.
Done(k) == {g \in Completed : g <= k}

\* The payloads in entries and those in sent are the ones of the first k fragments.
PutTogether(k, entries, sent) ==
  /\ DOMAIN entries = {fragments[f].channel : f \in OpenAt(k)}
  /\ \A f \in OpenAt(k) : entries[fragments[f].channel] = Payload(f)
  /\ Len(sent) = Cardinality(Done(k))
  /\ \A f \in Done(k) : sent[Cardinality(Done(f))] = Payload(f)

DTXBytes == [fragment : Nat, place : Nat]

DecoderTypes ==
  /\ fragments \in Seq([channel : Channels, payloadLength : Nat, parses : BOOLEAN, fragmentId : Nat, fragmentCount : Nat])
  /\ \A f \in 1 .. Len(fragments) : Legal(f)
  /\ incoming \in Seq(DTXBytes) /\ buffer \in Seq(DTXBytes)
  /\ cursor \in 0 .. Len(buffer)
  /\ header \in 0 .. Len(fragments)
  /\ busy \in BOOLEAN
  /\ pushed \in Seq(Seq(DTXBytes))

\* The loop stopped for lack of these many bytes.
Lacks(n) == ~busy => Len(buffer) - cursor < n

\* The last header was all of its fragment, or its body has been used.
AtFragment ==
  /\ Rest = Ahead(header)
  /\ PutTogether(header, manager, pushed)
  /\ Lacks(DTXHeaderLength)

\* The body of the last header is still to come.
AtBody ==
  /\ header # 0 /\ HasBody(fragments[header]) /\ fragments[header].payloadLength # 0
  /\ Rest = BodyOf(header) \o Ahead(header)
  /\ \E entries : /\ PutTogether(header - 1, entries, pushed)
                  /\ manager = WithEntryOf(fragments[header], entries)
  /\ Lacks(MagicLength) \/ Lacks(fragments[header].payloadLength)

DecoderInv == DecoderTypes /\ (AtFragment \/ AtBody)

\* Empty sequences at the end do not matter.
LEMMA FlattenEmptyTail ==
  ASSUME NEW S, NEW s \in Seq(Seq(S)), NEW k \in 0 .. Len(s), \A i \in k + 1 .. Len(s) : s[i] = <<>>
  PROVE  FlattenSeq(s) = Joined(s, k)
<1>0. Len(s) \in Nat /\ k \in Nat
  OBVIOUS
<1> DEFINE T == {n \in Nat : k + n <= Len(s) => Joined(s, k + n) = Joined(s, k)}
<1>1. 0 \in T
  BY <1>0
<1>2. ASSUME NEW n \in Nat, n \in T
      PROVE  n + 1 \in T
  <2> SUFFICES ASSUME k + (n + 1) <= Len(s)
               PROVE  Joined(s, k + (n + 1)) = Joined(s, k)
    OBVIOUS
  <2>1. PICK i \in Nat : i = k + n /\ i < Len(s) /\ i + 1 = k + (n + 1) /\ i \in 0 .. Len(s) /\ i + 1 \in k + 1 .. Len(s)
    BY <1>0
  <2>2. Joined(s, i + 1) = Joined(s, i) \o s[i + 1] /\ Joined(s, i) \in Seq(S)
    BY <2>1, JoinedStep
  <2>3. s[i + 1] = <<>>
    BY <2>1
  <2>4. Joined(s, i) \o <<>> = Joined(s, i)
    BY <2>2
  <2>5. Joined(s, i) = Joined(s, k)
    BY <1>2, <2>1, <1>0
  <2> QED
    BY <2>1, <2>2, <2>3, <2>4, <2>5
<1>3. \A n \in Nat : n \in T
  <2> HIDE DEF T
  <2> QED
    BY <1>1, <1>2, Induction
<1>4. PICK n \in Nat : k + n = Len(s) /\ k + n <= Len(s)
  <2>1. PICK a \in Nat : a = Len(s)
    BY <1>0
  <2>2. k <= a
    BY <2>1
  <2>3. a - k \in Nat /\ k + (a - k) = a
    BY <2>2, <1>0
  <2>4. k + (a - k) <= Len(s)
    BY <2>1, <2>3
  <2> QED
    BY <2>1, <2>3, <2>4
<1>5. Joined(s, Len(s)) = Joined(s, k)
  <2>1. n \in T
    BY <1>3
  <2>2. Joined(s, k + n) = Joined(s, k)
    BY <2>1, <1>4
  <2> QED
    BY <2>2, <1>4
<1> QED
  BY <1>5, JoinedStep

\* The first sequence comes first.
LEMMA FlattenHead ==
  ASSUME NEW S, NEW s \in Seq(Seq(S)), Len(s) # 0
  PROVE  FlattenSeq(s) = s[1] \o FlattenSeq(SubSeq(s, 2, Len(s)))
<1>1. Len(s) \in Nat /\ 1 \in 0 .. Len(s) /\ 0 < Len(s) /\ s[1] \in Seq(S)
  BY LenProperties
<1>2. FlattenSeq(s) = Joined(s, 1) \o FlattenSeq(SubSeq(s, 2, Len(s)))
  <2>1. PICK k : k \in 0 .. Len(s) /\ k = 1 /\ k + 1 = 2
    BY <1>1
  <2>2. FlattenSeq(s) = Joined(s, k) \o FlattenSeq(SubSeq(s, k + 1, Len(s)))
    BY <2>1, JoinedSuffix
  <2> QED
    BY <2>1, <2>2
<1>3. Joined(s, 1) = Joined(s, 0) \o s[1] /\ Joined(s, 0) = <<>>
  <2>1. PICK i : i \in Nat /\ i = 0 /\ i + 1 = 1 /\ i < Len(s)
    BY <1>1
  <2>2. Joined(s, i + 1) = Joined(s, i) \o s[i + 1] /\ Joined(s, 0) = <<>>
    BY <2>1, JoinedStep
  <2> QED
    BY <2>1, <2>2
<1>4. <<>> \o s[1] = s[1]
  BY <1>1
<1> QED
  BY <1>2, <1>3, <1>4

\* The bytes of a fragment.
LEMMA BytesOfFragment ==
  ASSUME DecoderTypes, NEW f \in 1 .. Len(fragments)
  PROVE  /\ BytesOf(f, fragments[f]) \in Seq(DTXBytes) /\ BodyOf(f) \in Seq(DTXBytes)
         /\ Len(BytesOf(f, fragments[f])) = DTXHeaderLength + Len(BodyOf(f))
         /\ Len(BodyOf(f)) = (IF HasBody(fragments[f]) THEN fragments[f].payloadLength ELSE 0)
         /\ \A j \in 1 .. DTXHeaderLength + Len(BodyOf(f)) : BytesOf(f, fragments[f])[j] = [fragment |-> f, place |-> j]
         /\ \A j \in 1 .. Len(BodyOf(f)) : BodyOf(f)[j] = [fragment |-> f, place |-> DTXHeaderLength + j]
<1> DEFINE l == IF HasBody(fragments[f]) THEN fragments[f].payloadLength ELSE 0
           b == BytesOf(f, fragments[f])
<1>1. DTXHeaderLength \in Nat /\ f \in Nat
  BY DTXDecoderAssumption
<1>2. l \in Nat
  <2>1. Legal(f)
    BY DEF DecoderTypes
  <2> QED
    BY <2>1 DEF Legal
<1>3. b = [j \in 1 .. DTXHeaderLength + l |-> [fragment |-> f, place |-> j]]
  BY DEF BytesOf
<1>4. BodyOf(f) = SubSeq(b, DTXHeaderLength + 1, Len(b))
  BY DEF BodyOf
<1> HIDE DEF l, b
<1>5. /\ b \in Seq(DTXBytes) /\ Len(b) = DTXHeaderLength + l
      /\ \A j \in 1 .. DTXHeaderLength + l : b[j] = [fragment |-> f, place |-> j]
  BY <1>1, <1>2, <1>3 DEF DTXBytes
<1>6. /\ BodyOf(f) \in Seq(DTXBytes) /\ Len(BodyOf(f)) = l
      /\ \A j \in 1 .. l : BodyOf(f)[j] = [fragment |-> f, place |-> DTXHeaderLength + j]
  <2>1. \A i \in DTXHeaderLength + 1 .. DTXHeaderLength + l : b[i] \in DTXBytes
    BY <1>1, <1>2, <1>5
  <2>2. /\ BodyOf(f) \in Seq(DTXBytes) /\ Len(BodyOf(f)) = l
        /\ \A j \in 1 .. l : BodyOf(f)[j] = b[DTXHeaderLength + j]
    <3>1. PICK m \in Nat, n \in Nat : m = DTXHeaderLength + 1 /\ n = DTXHeaderLength + l
      BY <1>1, <1>2
    <3>0. m \in Int /\ n \in Int /\ \A i \in m .. n : b[i] \in DTXBytes
      BY <2>1, <3>1
    <3>2. /\ SubSeq(b, m, n) \in Seq(DTXBytes)
          /\ Len(SubSeq(b, m, n)) = IF m <= n THEN n - m + 1 ELSE 0
          /\ \A i \in 1 .. n - m + 1 : SubSeq(b, m, n)[i] = b[m + i - 1]
      BY <3>0, SubSeqProperties
    <3>3. \A i \in 1 .. n - m + 1 : SubSeq(b, m, n)[i] = b[m + i - 1]
      BY <3>2
    <3>4. BodyOf(f) = SubSeq(b, m, n)
      BY <1>4, <1>5, <3>1
    <3>5. n - m + 1 = l /\ (~(m <= n) => l = 0) /\ \A i \in 1 .. l : m + i - 1 = DTXHeaderLength + i
      BY <3>1, <1>1, <1>2
    <3> QED
      BY <3>2, <3>3, <3>4, <3>5
  <2>3. \A j \in 1 .. l : DTXHeaderLength + j \in 1 .. DTXHeaderLength + l
    BY <1>1, <1>2
  <2> QED
    BY <2>2, <2>3, <1>5
<1> QED
  BY <1>5, <1>6 DEF l, b

\* What is behind the h-th fragment is the next fragment and what is behind that.
LEMMA AheadStep ==
  ASSUME DecoderTypes, NEW h \in 0 .. Len(fragments)
  PROVE  /\ Wires \in Seq(Seq(DTXBytes)) /\ Len(Wires) = Len(fragments)
         /\ Ahead(h) \in Seq(DTXBytes)
         /\ h = Len(fragments) => Ahead(h) = <<>>
         /\ h # Len(fragments) => Ahead(h) = BytesOf(h + 1, fragments[h + 1]) \o Ahead(h + 1)
<1>1. Len(fragments) \in Nat
  BY DEF DecoderTypes
<1>2. Wires \in Seq(Seq(DTXBytes)) /\ Len(Wires) = Len(fragments) /\ \A f \in 1 .. Len(fragments) : Wires[f] = BytesOf(f, fragments[f])
  BY <1>1, BytesOfFragment DEF Wires
<1> DEFINE n == Len(fragments)
           t == SubSeq(Wires, h + 1, n)
<1>3. t \in Seq(Seq(DTXBytes)) /\ Len(t) = n - h /\ Ahead(h) = FlattenSeq(t)
  <2> HIDE DEF Wires
  <2> QED
    BY <1>1, <1>2 DEF Ahead, Behind
<1>4. Ahead(h) \in Seq(DTXBytes)
  BY <1>3, FlattenType
<1>5. h = n => Ahead(h) = <<>>
  <2> HAVE h = n
  <2>1. Len(t) = 0
    BY <1>1, <1>3
  <2>2. t = <<>>
    BY <1>3, <2>1, EmptySeq
  <2>3. FlattenSeq(<<>>) = <<>>
    BY DEF FlattenSeq
  <2> QED
    BY <1>3, <2>2, <2>3
<1>6. h # n => Ahead(h) = BytesOf(h + 1, fragments[h + 1]) \o Ahead(h + 1)
  <2> HAVE h # n
  <2>1. Len(t) # 0 /\ h + 1 \in 1 .. n /\ h \in Nat
    BY <1>1, <1>3
  <2>2. FlattenSeq(t) = t[1] \o FlattenSeq(SubSeq(t, 2, Len(t)))
    BY <1>3, <2>1, FlattenHead
  <2>3. t[1] = Wires[h + 1]
    <3> HIDE DEF Wires
    <3> QED
      BY <1>1, <1>2, <2>1
  <2>4. SubSeq(t, 2, Len(t)) = SubSeq(Wires, (h + 1) + 1, n)
    <3> HIDE DEF Wires
    <3>1. PICK u : u = SubSeq(Wires, (h + 1) + 1, n)
      OBVIOUS
    <3>2. PICK v : v = SubSeq(t, 2, Len(t))
      OBVIOUS
    <3>3. u \in Seq(Seq(DTXBytes)) /\ Len(u) = n - (h + 1) /\ \A i \in 1 .. n - (h + 1) : u[i] = Wires[h + 1 + i]
      BY <3>1, <1>1, <1>2, <2>1
    <3>4. \A i \in 1 .. n - h : t[i] = Wires[h + i]
      <4>1. PICK m \in Nat : m = h + 1 /\ m <= n
        BY <1>1, <2>1
      <4>2. \A i \in 1 .. n - m + 1 : SubSeq(Wires, m, n)[i] = Wires[m + i - 1]
        BY <4>1, <1>1, <1>2
      <4>3. \A i \in 1 .. n - h : i \in 1 .. n - m + 1 /\ m + i - 1 = h + i
        BY <4>1, <1>1, <2>1
      <4> QED
        BY <4>1, <4>2, <4>3
    <3> HIDE DEF t
    <3>5. v \in Seq(Seq(DTXBytes)) /\ Len(v) = n - h - 1 /\ \A i \in 1 .. n - h - 1 : v[i] = t[i + 1]
      BY <3>2, <1>1, <1>3, <2>1
    <3>6. \A i \in 1 .. n - h - 1 : v[i] = u[i]
      <4> TAKE i \in 1 .. n - h - 1
      <4>1. i + 1 \in 1 .. n - h /\ h + (i + 1) = h + 1 + i /\ i \in 1 .. n - (h + 1)
        BY <1>1, <2>1
      <4> QED
        BY <4>1, <3>3, <3>4, <3>5
    <3>7. Len(u) = Len(v) /\ Len(v) = n - h - 1
      BY <3>3, <3>5, <1>1, <2>1
    <3> QED
      BY <3>1, <3>2, <3>3, <3>5, <3>6, <3>7, SeqEqual
  <2> QED
    BY <1>2, <1>3, <2>1, <2>2, <2>3, <2>4 DEF Ahead, Behind
<1> QED
  BY <1>2, <1>4, <1>5, <1>6

\* What the first f fragments have of the message of the f-th.
Parts(f) == [g \in 1 .. f |-> IF SameMessage(g, f) THEN BodyOf(g) ELSE <<>>]

\* A payload is what the message had before, if anything, and the body of its latest
\* fragment.
LEMMA PayloadGrows ==
  ASSUME DecoderTypes, NEW f \in 1 .. Len(fragments)
  PROVE  /\ Payload(f) \in Seq(DTXBytes)
         /\ fragments[f].fragmentId = 0 => Payload(f) = BodyOf(f)
         /\ fragments[f].fragmentId # 0 =>
              \A p \in 1 .. f - 1 : fragments[p].channel = fragments[f].channel /\ NoneSince(p, f - 1) =>
                Payload(f) = Payload(p) \o BodyOf(f)
<1>0. Len(fragments) \in Nat /\ f \in Nat /\ \A g \in 1 .. f : g \in 1 .. Len(fragments)
  <2>1. Len(fragments) \in Nat
    BY LenProperties DEF DecoderTypes
  <2> QED
    BY <2>1
<1>1. \A g \in 1 .. Len(fragments) : BodyOf(g) \in Seq(DTXBytes)
  BY BytesOfFragment
<1>2. Parts(f) \in Seq(Seq(DTXBytes)) /\ Len(Parts(f)) = f /\ Payload(f) = FlattenSeq(Parts(f))
  <2>1. <<>> \in Seq(DTXBytes)
    OBVIOUS
  <2>2. Parts(f) \in [1 .. f -> Seq(DTXBytes)]
    BY <1>0, <1>1, <2>1 DEF Parts
  <2> QED
    BY <1>0, <2>2 DEF Parts, Payload
<1>3. Payload(f) \in Seq(DTXBytes)
  BY <1>2, FlattenType
<1>4. SameMessage(f, f)
  BY <1>0 DEF SameMessage
<1>5. PICK b \in Nat : b = f - 1 /\ b + 1 = f /\ b <= f
  BY <1>0
<1>6. PICK e \in Seq(Seq(DTXBytes)) : Len(e) = b /\ Parts(f) = Append(e, BodyOf(f)) /\ \A g \in 1 .. b : e[g] = Parts(f)[g]
  <2>1. PICK w : w = Parts(f)
    OBVIOUS
  <2>2. w \in Seq(Seq(DTXBytes)) /\ Len(w) = b + 1
    BY <2>1, <1>2, <1>5
  <2>3. PICK e : e = SubSeq(w, 1, b)
    OBVIOUS
  <2>4. e \in Seq(Seq(DTXBytes)) /\ Len(e) = b /\ \A g \in 1 .. b : e[g] = w[g]
    BY <2>2, <2>3
  <2>5. w[f] = BodyOf(f) /\ BodyOf(f) \in Seq(DTXBytes)
    BY <1>0, <1>1, <1>4, <2>1 DEF Parts
  <2>6. /\ Append(e, w[f]) \in Seq(Seq(DTXBytes)) /\ Len(Append(e, w[f])) = b + 1
        /\ \A g \in 1 .. b : Append(e, w[f])[g] = w[g]
        /\ Append(e, w[f])[b + 1] = w[f]
    BY <2>4, <2>5, AppendProperties
  <2>7. \A g \in 1 .. b + 1 : Append(e, w[f])[g] = w[g]
    BY <2>6, <1>5
  <2>8. Append(e, w[f]) = w
    BY <2>2, <2>6, <2>7, SeqEqual
  <2> QED
    BY <2>1, <2>4, <2>5, <2>8
<1>7. Payload(f) = FlattenSeq(e) \o BodyOf(f) /\ FlattenSeq(e) \in Seq(DTXBytes)
  <2>1. BodyOf(f) \in Seq(DTXBytes)
    BY <1>1
  <2> QED
    BY <1>2, <1>6, <2>1, FlattenAppend, FlattenType
<1>8. ASSUME fragments[f].fragmentId = 0
      PROVE  Payload(f) = BodyOf(f)
  <2>1. ASSUME NEW g \in 1 .. b PROVE e[g] = <<>>
    <3>1. g \in 1 .. f /\ f \in g + 1 .. f
      BY <1>5, <1>0
    <3>2. ~SameMessage(g, f)
      BY <3>1, <1>8 DEF SameMessage
    <3> QED
      BY <3>1, <3>2, <1>6 DEF Parts
  <2>2. PICK k : k \in 0 .. Len(e) /\ k = 0 /\ k + 1 = 1
    BY <1>6
  <2>3. FlattenSeq(e) = Joined(e, 0)
    BY <2>1, <2>2, <1>6, FlattenEmptyTail
  <2>4. FlattenSeq(e) = <<>>
    BY <2>3, <1>6, JoinedStep
  <2> QED
    BY <2>4, <1>7, <1>1
<1>9. ASSUME fragments[f].fragmentId # 0, NEW p \in 1 .. f - 1,
             fragments[p].channel = fragments[f].channel, NoneSince(p, f - 1)
      PROVE  Payload(f) = Payload(p) \o BodyOf(f)
  <2>1. p \in Nat /\ p \in 1 .. b /\ p \in 0 .. Len(e) /\ p <= b
    BY <1>5, <1>6
  <2>2. ASSUME NEW g \in p + 1 .. b PROVE e[g] = <<>>
    <3>1. g \in 1 .. f /\ g \in 1 .. b /\ g \in p + 1 .. f - 1
      BY <2>1, <1>5, <1>0
    <3>2. ~SameMessage(g, f)
      BY <3>1, <1>9 DEF SameMessage, NoneSince
    <3> QED
      BY <3>1, <3>2, <1>6 DEF Parts
  <2>3. FlattenSeq(e) = Joined(e, p)
    BY <2>1, <2>2, <1>6, FlattenEmptyTail
  <2>4. SubSeq(e, 1, p) = Parts(p)
    <3>1. PICK u : u = SubSeq(e, 1, p)
      OBVIOUS
    <3>2. u \in Seq(Seq(DTXBytes)) /\ Len(u) = p /\ \A g \in 1 .. p : u[g] = e[g]
      BY <3>1, <2>1, <1>6
    <3>3. ASSUME NEW g \in 1 .. p PROVE e[g] = Parts(p)[g]
      <4>1. g \in 1 .. b /\ g \in 1 .. f /\ e[g] = Parts(f)[g]
        BY <2>1, <1>5, <1>6
      <4>2. SameMessage(g, f) <=> SameMessage(g, p)
        <5>1. \A h \in g + 1 .. f : h \in g + 1 .. p \/ h \in p + 1 .. f - 1 \/ h = f
          BY <2>1, <1>0
        <5>2. \A h \in g + 1 .. p : h \in g + 1 .. f
          BY <2>1, <1>0, <1>5
        <5>3. \A h \in p + 1 .. f - 1 : fragments[h].channel # fragments[f].channel
          BY <1>9 DEF NoneSince
        <5> QED
          BY <5>1, <5>2, <5>3, <1>9 DEF SameMessage
      <4> QED
        BY <4>1, <4>2 DEF Parts
    <3>4. Parts(p) \in Seq(Seq(DTXBytes)) /\ Len(Parts(p)) = p
      <4>1. <<>> \in Seq(DTXBytes)
        OBVIOUS
      <4>2. \A g \in 1 .. p : g \in 1 .. Len(fragments)
        BY <2>1, <1>0, <1>5
      <4>3. Parts(p) \in [1 .. p -> Seq(DTXBytes)]
        BY <4>2, <1>1, <4>1 DEF Parts
      <4> QED
        BY <2>1, <4>3 DEF Parts
    <3>5. u = Parts(p)
      BY <3>2, <3>3, <3>4, SeqEqual
    <3> QED
      BY <3>1, <3>5
  <2>5. Payload(p) = FlattenSeq(Parts(p))
    BY DEF Payload, Parts
  <2> QED
    BY <2>3, <2>4, <2>5, <1>7 DEF Joined
<1> QED
  BY <1>3, <1>8, <1>9

\* A payload is what it was when more is sent.
LEMMA PayloadLasts ==
  ASSUME NEW f \in Nat, \A g \in 1 .. f : fragments'[g] = fragments[g]
  PROVE  /\ Payload(f)' = Payload(f)
         /\ f # 0 => BodyOf(f)' = BodyOf(f)
<1>1. \A g \in 1 .. f : BodyOf(g)' = BodyOf(g)
  BY DEF BodyOf, BytesOf, HasBody
<1>2. ASSUME NEW g \in 1 .. f PROVE SameMessage(g, f)' <=> SameMessage(g, f)
  <2>1. f \in 1 .. f /\ \A h \in g + 1 .. f : h \in 1 .. f
    OBVIOUS
  <2> QED
    BY <2>1 DEF SameMessage
<1>3. Payload(f)' = Payload(f)
  <2>1. [g \in 1 .. f |-> IF SameMessage(g, f) THEN BodyOf(g) ELSE <<>>]'
           = [g \in 1 .. f |-> IF SameMessage(g, f) THEN BodyOf(g) ELSE <<>>]
    BY <1>1, <1>2
  <2> QED
    BY <2>1 DEF Payload
<1>4. f # 0 => f \in 1 .. f
  OBVIOUS
<1> QED
  BY <1>1, <1>3, <1>4

\* How many messages are complete with each fragment.
LEMMA DoneCounts ==
  ASSUME DecoderTypes
  PROVE  /\ Done(0) = {} /\ Cardinality(Done(0)) = 0 /\ Done(Len(fragments)) = Completed
         /\ \A k \in 0 .. Len(fragments) : IsFiniteSet(Done(k)) /\ Cardinality(Done(k)) \in Nat
         /\ \A k \in 1 .. Len(fragments) :
              /\ Done(k) = Done(k - 1) \cup (IF Delivers(fragments[k]) THEN {k} ELSE {})
              /\ k \notin Done(k - 1)
              /\ Cardinality(Done(k)) = Cardinality(Done(k - 1)) + (IF Delivers(fragments[k]) THEN 1 ELSE 0)
         /\ \A j, k \in 0 .. Len(fragments) : j <= k => Cardinality(Done(j)) <= Cardinality(Done(k))
<1>0. Len(fragments) \in Nat /\ DOMAIN fragments = 1 .. Len(fragments)
  BY DEF DecoderTypes
<1>1. Completed \subseteq 1 .. Len(fragments)
  BY <1>0 DEF Completed
<1>2. Done(0) = {} /\ Done(Len(fragments)) = Completed
  <2>1. \A g \in Completed : ~(g <= 0) /\ g <= Len(fragments)
    BY <1>0, <1>1
  <2> QED
    BY <2>1 DEF Done
<1>3. Cardinality(Done(0)) = 0
  BY <1>2, FS_EmptySet
<1>4. \A k \in 0 .. Len(fragments) : IsFiniteSet(Done(k)) /\ Cardinality(Done(k)) \in Nat
  <2>1. IsFiniteSet(1 .. Len(fragments))
    BY <1>0, FS_Interval
  <2>2. \A k \in 0 .. Len(fragments) : Done(k) \subseteq 1 .. Len(fragments)
    BY <1>1 DEF Done
  <2> QED
    BY <2>1, <2>2, FS_Subset, FS_CardinalityType
<1>5. ASSUME NEW k \in 1 .. Len(fragments)
      PROVE  /\ Done(k) = Done(k - 1) \cup (IF Delivers(fragments[k]) THEN {k} ELSE {})
             /\ k \notin Done(k - 1)
             /\ Cardinality(Done(k)) = Cardinality(Done(k - 1)) + (IF Delivers(fragments[k]) THEN 1 ELSE 0)
  <2>0. k \in Nat /\ k - 1 \in Nat /\ k - 1 \in 0 .. Len(fragments) /\ k \in DOMAIN fragments
    BY <1>0
  <2>1. \A g \in Nat : g <= k <=> g <= k - 1 \/ g = k
    BY <2>0
  <2>2. k \notin Done(k - 1)
    BY <2>0 DEF Done
  <2>3. Done(k) = Done(k - 1) \cup (IF Delivers(fragments[k]) THEN {k} ELSE {})
    <3>1. k \in Completed <=> Delivers(fragments[k])
      BY <2>0 DEF Completed
    <3>2. \A g \in Completed : g \in Nat
      BY <1>0, <1>1
    <3> QED
      BY <2>0, <2>1, <3>1, <3>2 DEF Done
  <2>4. Cardinality(Done(k - 1) \cup {k}) = Cardinality(Done(k - 1)) + 1
    BY <1>4, <2>0, <2>2, FS_AddElement
  <2>5. Done(k - 1) \cup {} = Done(k - 1) /\ Cardinality(Done(k - 1)) + 0 = Cardinality(Done(k - 1))
    BY <1>4, <2>0
  <2> QED
    BY <2>2, <2>3, <2>4, <2>5
<1>6. ASSUME NEW j \in 0 .. Len(fragments), NEW k \in 0 .. Len(fragments), j <= k
      PROVE  Cardinality(Done(j)) <= Cardinality(Done(k))
  <2>0. \A g \in Completed : g \in Nat
    BY <1>0, <1>1
  <2>1. Done(j) \subseteq Done(k)
    BY <1>6, <1>0, <2>0 DEF Done
  <2> QED
    BY <1>4, <2>1, FS_Subset
<1> QED
  BY <1>2, <1>3, <1>4, <1>5, <1>6

\* Which messages are open after the h-th fragment.
LEMMA OpenStep ==
  ASSUME DecoderTypes, NEW h \in 1 .. Len(fragments)
  PROVE  OpenAt(h) = {f \in OpenAt(h - 1) : fragments[f].channel # fragments[h].channel}
                       \cup (IF IsLast(fragments[h]) THEN {} ELSE {h})
<1>0. h \in Nat /\ h - 1 \in Nat
  BY DEF DecoderTypes
<1>1. ASSUME NEW f \in 1 .. h - 1
      PROVE  NoneSince(f, h) <=> NoneSince(f, h - 1) /\ fragments[f].channel # fragments[h].channel
  <2>1. h \in f + 1 .. h /\ (\A g \in f + 1 .. h : g \in f + 1 .. h - 1 \/ g = h) /\ (\A g \in f + 1 .. h - 1 : g \in f + 1 .. h)
    BY <1>0
  <2> QED
    BY <2>1 DEF NoneSince
<1>2. NoneSince(h, h)
  BY <1>0 DEF NoneSince
<1>3. \A f \in 1 .. h : f \in 1 .. h - 1 \/ f = h
  BY <1>0
<1>4. h \in 1 .. h /\ \A f \in 1 .. h - 1 : f \in 1 .. h
  BY <1>0
<1> QED
  BY <1>1, <1>2, <1>3, <1>4 DEF OpenAt

\* The entry that the body of the h-th fragment is added to.
HasEntry(h, e, entries) ==
  /\ DOMAIN entries = DOMAIN e \cup {fragments[h].channel}
  /\ \A d \in DOMAIN e : d # fragments[h].channel => entries[d] = e[d]
  /\ entries[fragments[h].channel] \o BodyOf(h) = Payload(h)
  /\ entries[fragments[h].channel] \in Seq(DTXBytes)
  /\ Continues(fragments[h]) => entries[fragments[h].channel] = Payload(h)
  /\ HasBody(fragments[h]) <=> ~Continues(fragments[h])

\* A header finds or makes it.
LEMMA EntryOf ==
  ASSUME DecoderTypes, NEW h \in 1 .. Len(fragments), NEW e, NEW s, PutTogether(h - 1, e, s),
         NEW entries, entries = WithEntryOf(fragments[h], e)
  PROVE  HasEntry(h, e, entries)
<1> DEFINE c == fragments[h].channel
<1>0. /\ h \in Nat /\ Legal(h) /\ BodyOf(h) \in Seq(DTXBytes)
      /\ DOMAIN e = {fragments[f].channel : f \in OpenAt(h - 1)}
      /\ \A f \in OpenAt(h - 1) : e[fragments[f].channel] = Payload(f)
  BY BytesOfFragment DEF DecoderTypes, PutTogether
<1>1. fragments[h].fragmentId \in Nat /\ fragments[h].fragmentCount \in Nat /\ fragments[h].fragmentId < fragments[h].fragmentCount
  BY <1>0 DEF Legal
<1>2. HasBody(fragments[h]) <=> ~Continues(fragments[h])
  BY <1>1 DEF HasBody, Continues
<1>3. CASE fragments[h].fragmentId = 0
  <2>1. c \notin DOMAIN e
    <3> SUFFICES ASSUME NEW f \in OpenAt(h - 1), fragments[f].channel = c PROVE FALSE
      BY <1>0
    <3> QED
      BY <1>0, <1>3 DEF OpenAt, Legal
  <2>2. DOMAIN entries = DOMAIN e \cup {c} /\ \A d \in DOMAIN entries : entries[d] = IF d \in DOMAIN e THEN e[d] ELSE <<>>
    BY <1>3 DEF WithEntryOf
  <2>3. entries[c] = <<>> /\ \A d \in DOMAIN e : d # c => entries[d] = e[d]
    BY <2>1, <2>2
  <2>4. Payload(h) = BodyOf(h)
    BY <1>3, PayloadGrows
  <2>5. <<>> \o BodyOf(h) = BodyOf(h) /\ <<>> \in Seq(DTXBytes)
    BY <1>0
  <2>6. Continues(fragments[h]) => Payload(h) = <<>>
    <3> HAVE Continues(fragments[h])
    <3>1. Len(BodyOf(h)) = 0
      BY <1>2, BytesOfFragment
    <3> QED
      BY <1>0, <2>4, <3>1, EmptySeq
  <2> QED
    BY <1>2, <2>2, <2>3, <2>4, <2>5, <2>6 DEF HasEntry
<1>4. CASE fragments[h].fragmentId # 0
  <2>1. PICK p \in 1 .. h - 1 : /\ fragments[p].channel = c /\ NoneSince(p, h - 1)
                                /\ fragments[h].fragmentId = fragments[p].fragmentId + 1
                                /\ fragments[h].fragmentCount = fragments[p].fragmentCount
    BY <1>0, <1>4 DEF Legal
  <2>2. ~IsLast(fragments[p])
    <3>1. p \in 1 .. Len(fragments)
      BY DEF DecoderTypes
    <3>2. fragments[p].fragmentId \in Nat
      BY <3>1 DEF DecoderTypes, Legal
    <3> QED
      BY <2>1, <3>2, <1>1 DEF IsLast
  <2>3. p \in OpenAt(h - 1)
    BY <2>1, <2>2 DEF OpenAt
  <2>4. c \in DOMAIN e /\ e[c] = Payload(p)
    BY <1>0, <2>1, <2>3
  <2>5. entries = e
    BY <1>4 DEF WithEntryOf
  <2>6. Payload(h) = Payload(p) \o BodyOf(h)
    BY <1>4, <2>1, PayloadGrows
  <2>7. Payload(p) \in Seq(DTXBytes)
    <3>1. p \in 1 .. Len(fragments)
      BY DEF DecoderTypes
    <3> QED
      BY <3>1, PayloadGrows
  <2>8. ~Continues(fragments[h])
    BY <1>4 DEF Continues
  <2> QED
    BY <1>2, <2>4, <2>5, <2>6, <2>7, <2>8 DEF HasEntry
<1> QED
  BY <1>3, <1>4

\* A header alone, and a body, are put together with what came before.
LEMMA FragmentTaken ==
  ASSUME DecoderTypes, NEW h \in 1 .. Len(fragments), NEW e, NEW s, s \in Seq(Seq(DTXBytes)), PutTogether(h - 1, e, s),
         NEW entries, entries = WithEntryOf(fragments[h], e),
         NEW x, x = [entries EXCEPT ![fragments[h].channel] = @ \o BodyOf(h)]
  PROVE  /\ Continues(fragments[h]) => PutTogether(h, entries, s)
         /\ HasBody(fragments[h]) /\ ~IsLast(fragments[h]) => PutTogether(h, x, s)
         /\ IsLast(fragments[h]) =>
              /\ x[fragments[h].channel] \in Seq(DTXBytes)
              /\ PutTogether(h, Without(fragments[h].channel, x),
                             IF fragments[h].parses THEN Append(s, x[fragments[h].channel]) ELSE s)
<1> DEFINE c == fragments[h].channel
<1>0. /\ DOMAIN e = {fragments[f].channel : f \in OpenAt(h - 1)}
      /\ \A f \in OpenAt(h - 1) : e[fragments[f].channel] = Payload(f)
      /\ Len(s) = Cardinality(Done(h - 1))
      /\ \A f \in Done(h - 1) : s[Cardinality(Done(f))] = Payload(f)
  BY DEF PutTogether
<1>1. /\ DOMAIN entries = DOMAIN e \cup {c}
      /\ \A d \in DOMAIN e : d # c => entries[d] = e[d]
      /\ entries[c] \o BodyOf(h) = Payload(h)
      /\ Continues(fragments[h]) => entries[c] = Payload(h)
  <2>1. HasEntry(h, e, entries)
    BY EntryOf
  <2> QED
    BY <2>1 DEF HasEntry
<1>2. /\ DOMAIN x = DOMAIN e \cup {c}
      /\ \A d \in DOMAIN e : d # c => x[d] = e[d]
      /\ x[c] = Payload(h) /\ Payload(h) \in Seq(DTXBytes)
  BY <1>1, PayloadGrows
<1>3. OpenAt(h) = {f \in OpenAt(h - 1) : fragments[f].channel # c} \cup (IF IsLast(fragments[h]) THEN {} ELSE {h})
  BY OpenStep
<1>4. ASSUME NEW t, DOMAIN t = DOMAIN e \cup {c}, \A d \in DOMAIN e : d # c => t[d] = e[d], t[c] = Payload(h),
             ~IsLast(fragments[h])
      PROVE  PutTogether(h, t, s)
  <2>1. Done(h) = Done(h - 1)
    <3>1. Done(h) = Done(h - 1) \cup (IF Delivers(fragments[h]) THEN {h} ELSE {})
      BY DoneCounts
    <3> QED
      BY <3>1, <1>4 DEF Delivers
  <2>2. DOMAIN t = {fragments[f].channel : f \in OpenAt(h)}
    BY <1>0, <1>3, <1>4
  <2>3. \A f \in OpenAt(h) : t[fragments[f].channel] = Payload(f)
    BY <1>0, <1>3, <1>4
  <2> QED
    BY <2>1, <2>2, <2>3, <1>0 DEF PutTogether
<1>5. ASSUME Continues(fragments[h]) PROVE ~IsLast(fragments[h])
  <2>1. Legal(h)
    BY DEF DecoderTypes
  <2> QED
    BY <1>5, <2>1 DEF Continues, IsLast, Legal
<1>6. ASSUME IsLast(fragments[h])
      PROVE  /\ DOMAIN Without(c, x) = {fragments[f].channel : f \in OpenAt(h)}
             /\ \A f \in OpenAt(h) : Without(c, x)[fragments[f].channel] = Payload(f)
  <2>1. DOMAIN Without(c, x) = {fragments[f].channel : f \in OpenAt(h)}
    <3>1. DOMAIN Without(c, x) = DOMAIN e \ {c}
      BY <1>2 DEF Without
    <3>2. OpenAt(h) = {f \in OpenAt(h - 1) : fragments[f].channel # c}
      BY <1>3, <1>6
    <3> QED
      BY <3>1, <3>2, <1>0
  <2>2. \A f \in OpenAt(h) : Without(c, x)[fragments[f].channel] = Payload(f)
    BY <1>0, <1>2, <1>3, <1>6, <2>1 DEF Without
  <2> QED
    BY <2>1, <2>2
<1>7. ASSUME Delivers(fragments[h])
      PROVE  PutTogether(h, Without(c, x), Append(s, x[c]))
  <2>1. Done(h) = Done(h - 1) \cup {h} /\ Cardinality(Done(h)) = Cardinality(Done(h - 1)) + 1
    BY <1>7, DoneCounts
  <2>2. /\ Len(Append(s, x[c])) = Len(s) + 1 /\ Append(s, x[c])[Len(s) + 1] = Payload(h)
        /\ \A i \in 1 .. Len(s) : Append(s, x[c])[i] = s[i]
    BY <1>2, AppendProperties
  <2>3. ASSUME NEW f \in Done(h) PROVE Append(s, x[c])[Cardinality(Done(f))] = Payload(f)
    <3>1. CASE f = h
      BY <3>1, <2>1, <2>2, <1>0
    <3>2. CASE f # h
      <4>1. f \in Done(h - 1)
        BY <3>2, <2>1
      <4>2. f \in 1 .. Len(fragments) /\ f <= h - 1 /\ h - 1 \in 0 .. Len(fragments) /\ f \in 0 .. Len(fragments)
        <5>1. Len(fragments) \in Nat /\ DOMAIN fragments = 1 .. Len(fragments)
          BY DEF DecoderTypes
        <5>2. f \in DOMAIN fragments /\ f <= h - 1
          BY <4>1 DEF Done, Completed
        <5> QED
          BY <5>1, <5>2
      <4>3. Cardinality(Done(f)) \in Nat /\ Cardinality(Done(f)) <= Len(s)
        BY <4>2, <1>0, DoneCounts
      <4>4. Cardinality(Done(f)) # 0
        <5>1. f \in Done(f)
          BY <4>1, <4>2 DEF Done
        <5>2. IsFiniteSet(Done(f))
          BY <4>2, DoneCounts
        <5> QED
          BY <5>1, <5>2, FS_EmptySet
      <4>5. Cardinality(Done(f)) \in 1 .. Len(s)
        BY <4>3, <4>4
      <4> QED
        BY <4>1, <4>5, <2>2, <1>0
    <3> QED
      BY <3>1, <3>2
  <2> QED
    BY <2>1, <2>2, <2>3, <1>0, <1>6, <1>7 DEF PutTogether, Delivers
<1>8. ASSUME IsLast(fragments[h]), ~Delivers(fragments[h])
      PROVE  PutTogether(h, Without(c, x), s)
  <2>1. Done(h) = Done(h - 1)
    <3>1. Done(h) = Done(h - 1) \cup (IF Delivers(fragments[h]) THEN {h} ELSE {})
      BY DoneCounts
    <3> QED
      BY <3>1, <1>8
  <2> QED
    BY <2>1, <1>0, <1>6, <1>8 DEF PutTogether
<1> QED
  BY <1>1, <1>2, <1>4, <1>5, <1>7, <1>8 DEF Delivers

\* What was put together of some fragments is so when more is sent.
LEMMA AssembledLasts ==
  ASSUME DecoderTypes, NEW k \in 0 .. Len(fragments), NEW e, NEW s,
         Len(fragments') \in Nat, DOMAIN fragments' = 1 .. Len(fragments'), Len(fragments) <= Len(fragments'),
         \A g \in 1 .. Len(fragments) : fragments'[g] = fragments[g]
  PROVE  PutTogether(k, e, s)' <=> PutTogether(k, e, s)
<1>0. /\ Len(fragments) \in Nat /\ DOMAIN fragments = 1 .. Len(fragments) /\ k \in Nat
      /\ \A f \in 1 .. k : f \in Nat /\ f \in 1 .. Len(fragments) /\ f \in 1 .. Len(fragments')
  <2>1. Len(fragments) \in Nat /\ DOMAIN fragments = 1 .. Len(fragments)
    BY DEF DecoderTypes
  <2>2. PICK m \in Nat, n \in Nat : m = Len(fragments) /\ n = Len(fragments') /\ m <= n
    BY <2>1
  <2>3. k \in 0 .. m
    BY <2>2
  <2>4. k \in Nat /\ \A f \in 1 .. k : f \in Nat /\ f \in 1 .. m /\ f \in 1 .. n
    BY <2>2, <2>3
  <2> QED
    BY <2>1, <2>2, <2>4
<1>1. \A f \in 1 .. Len(fragments) : /\ IsLast(fragments'[f]) <=> IsLast(fragments[f])
                                     /\ Delivers(fragments'[f]) <=> Delivers(fragments[f])
  OBVIOUS
<1>2. ASSUME NEW f \in 1 .. k PROVE NoneSince(f, k)' <=> NoneSince(f, k)
  <2>1. \A g \in f + 1 .. k : g \in 1 .. Len(fragments)
    BY <1>0
  <2>2. f \in 1 .. Len(fragments)
    BY <1>0
  <2> QED
    BY <2>1, <2>2 DEF NoneSince
<1>3. OpenAt(k)' = OpenAt(k)
  BY <1>0, <1>1, <1>2 DEF OpenAt
<1>4. ASSUME NEW j \in 0 .. k PROVE Done(j)' = Done(j)
  <2>1. Done(j) = {g \in 1 .. j : Delivers(fragments[g])}
    <3>1. \A g : g \in 1 .. Len(fragments) /\ g <= j <=> g \in 1 .. j
      BY <1>0
    <3> QED
      BY <3>1, <1>0 DEF Done, Completed
  <2>2. Done(j)' = {g \in 1 .. j : Delivers(fragments'[g])}
    <3>1. \A g : g \in 1 .. Len(fragments') /\ g <= j <=> g \in 1 .. j
      BY <1>0
    <3>2. Completed' = {g \in 1 .. Len(fragments') : Delivers(fragments'[g])}
      BY DEF Completed
    <3>3. Done(j)' = {g \in Completed' : g <= j}
      BY DEF Done
    <3> QED
      BY <3>1, <3>2, <3>3
  <2>3. \A g \in 1 .. j : g \in 1 .. Len(fragments)
    BY <1>0
  <2> QED
    BY <2>1, <2>2, <2>3, <1>1
<1>5. ASSUME NEW f \in 1 .. k PROVE Payload(f)' = Payload(f) /\ Done(f)' = Done(f)
  <2>1. f \in Nat /\ f \in 0 .. k /\ \A g \in 1 .. f : g \in 1 .. Len(fragments)
    BY <1>0
  <2> QED
    BY <2>1, <1>4, PayloadLasts
<1>6. OpenAt(k) \subseteq 1 .. k /\ \A f \in OpenAt(k) : f \in 1 .. Len(fragments)
  BY <1>0 DEF OpenAt
<1>7. Done(k) \subseteq 1 .. k /\ Done(k)' = Done(k)
  <2>1. k \in 0 .. k
    BY <1>0
  <2> QED
    BY <2>1, <1>0, <1>4 DEF Done, Completed
<1>8. {fragments[f].channel : f \in OpenAt(k)}' = {fragments[f].channel : f \in OpenAt(k)}
  BY <1>3, <1>6
<1>9. (\A f \in OpenAt(k) : e[fragments[f].channel] = Payload(f))' <=> \A f \in OpenAt(k) : e[fragments[f].channel] = Payload(f)
  BY <1>3, <1>5, <1>6
<1>10. (\A f \in Done(k) : s[Cardinality(Done(f))] = Payload(f))' <=> \A f \in Done(k) : s[Cardinality(Done(f))] = Payload(f)
  BY <1>5, <1>7
<1> QED
  BY <1>7, <1>8, <1>9, <1>10 DEF PutTogether

\* The decoder starts where the first fragment will.
LEMMA DecoderStarts ==
  ASSUME DecoderInit
  PROVE  DecoderInv
<1>1. /\ fragments = <<>> /\ incoming = <<>> /\ buffer = <<>> /\ cursor = 0 /\ header = 0
      /\ manager = <<>> /\ busy = FALSE /\ pushed = <<>>
      /\ Len(fragments) = 0 /\ Len(buffer) = 0 /\ Len(pushed) = 0
  BY DEF DecoderInit
<1>2. DecoderTypes
  <2>1. \A f \in 1 .. Len(fragments) : Legal(f)
    BY <1>1
  <2>2. /\ fragments \in Seq([channel : Channels, payloadLength : Nat, parses : BOOLEAN, fragmentId : Nat, fragmentCount : Nat])
        /\ incoming \in Seq(DTXBytes) /\ buffer \in Seq(DTXBytes) /\ pushed \in Seq(Seq(DTXBytes))
    BY <1>1
  <2>3. cursor \in 0 .. Len(buffer) /\ header \in 0 .. Len(fragments) /\ busy \in BOOLEAN
    <3>1. 0 \in 0 .. 0
      OBVIOUS
    <3> QED
      BY <3>1, <1>1
  <2> QED
    BY <2>1, <2>2, <2>3 DEF DecoderTypes
<1>3. Rest = <<>>
  <2>1. SubSeq(<<>>, 0 + 1, 0) = <<>> /\ <<>> \o <<>> = <<>>
    OBVIOUS
  <2> QED
    BY <2>1, <1>1 DEF Rest, RestAt
<1>4. Ahead(0) = <<>>
  BY <1>1, <1>2, AheadStep
<1>5. PutTogether(0, manager, pushed)
  <2>1. OpenAt(0) = {}
    BY DEF OpenAt
  <2>2. Done(0) = {} /\ Cardinality(Done(0)) = 0
    BY <1>2, DoneCounts
  <2>3. DOMAIN manager = {}
    BY <1>1
  <2> QED
    BY <1>1, <2>1, <2>2, <2>3 DEF PutTogether
<1>6. Lacks(DTXHeaderLength)
  BY <1>1, DTXDecoderAssumption DEF Lacks
<1> QED
  BY <1>1, <1>2, <1>3, <1>4, <1>5, <1>6 DEF DecoderInv, AtFragment

\* A part of a sequence, and two sequences one behind the other.
Within(S, b, a, n) == b \in Seq(S) /\ a \in Nat /\ n \in Nat /\ a + n <= Len(b)
Part(S, b, a, n, w) == w \in Seq(S) /\ Len(w) = n /\ \A j \in 1 .. n : w[j] = b[a + j]
Measured(S, u, v, c, d) == u \in Seq(S) /\ v \in Seq(S) /\ c = Len(u) /\ d = Len(v)
Chained(u, v, c, d, w) ==
  /\ Len(w) = c + d
  /\ \A j \in 1 .. c : w[j] = u[j]
  /\ \A j \in 1 .. d : w[c + j] = v[j]

\* SubSeq returns that part of a sequence.
LEMMA PartOf ==
  ASSUME NEW S, NEW b, NEW a, NEW n, Within(S, b, a, n)
  PROVE  Part(S, b, a, n, SubSeq(b, a + 1, a + n))
<1> USE DEF Within
<1> DEFINE m == a + 1
           k == a + n
<1>1. m \in Int /\ k \in Int /\ \A i \in m .. k : b[i] \in S
  <2>1. Len(b) \in Nat /\ \A i \in m .. k : i \in 1 .. Len(b)
    OBVIOUS
  <2> QED
    BY <2>1
<1>2. /\ SubSeq(b, m, k) \in Seq(S)
      /\ Len(SubSeq(b, m, k)) = IF m <= k THEN k - m + 1 ELSE 0
      /\ \A i \in 1 .. k - m + 1 : SubSeq(b, m, k)[i] = b[m + i - 1]
  BY <1>1, SubSeqProperties
<1>3. k - m + 1 = n /\ (~(m <= k) => n = 0) /\ \A i \in 1 .. n : m + i - 1 = a + i
  OBVIOUS
<1> QED
  BY <1>2, <1>3 DEF Part

\* A concatenation is the one sequence and behind it the other.
LEMMA Concatenated ==
  ASSUME NEW S, NEW u, NEW v, NEW c, NEW d, Measured(S, u, v, c, d), NEW w, w = u \o v
  PROVE  Chained(u, v, c, d, w) /\ w \in Seq(S)
<1> USE DEF Measured
<1>1. c \in Nat /\ d \in Nat
  OBVIOUS
<1>2. /\ w \in Seq(S) /\ Len(w) = c + d
      /\ \A j \in 1 .. c + d : w[j] = IF j <= c THEN u[j] ELSE v[j - c]
  BY ConcatProperties
<1>3. \A j \in 1 .. c : j \in 1 .. c + d /\ j <= c
  BY <1>1
<1>4. \A j \in 1 .. d : c + j \in 1 .. c + d /\ ~(c + j <= c) /\ (c + j) - c = j
  BY <1>1
<1>5. \A j \in 1 .. c : w[j] = u[j]
  BY <1>2, <1>3
<1>6. \A j \in 1 .. d : w[c + j] = v[j]
  BY <1>2, <1>4
<1> QED
  BY <1>1, <1>2, <1>5, <1>6 DEF Chained

\* The buffer has n bytes behind the at-th, and they and what follows are u and v.
Comes(at, n, u, v) ==
  /\ at \in Nat /\ n \in Nat /\ at + n <= Len(buffer)
  /\ u \in Seq(DTXBytes) /\ v \in Seq(DTXBytes) /\ n <= Len(u) /\ RestAt(at) = u \o v
Used(at, n, u, v) ==
  /\ \A j \in 1 .. n : buffer[at + j] = u[j]
  /\ n = Len(u) => SubSeq(buffer, at + 1, at + n) = u /\ RestAt(at + n) = v

Grouped(S, a, b, c, x, y, z) ==
  a \in Seq(S) /\ b \in Seq(S) /\ c \in Seq(S) /\ x = a \o b /\ y = b \o c /\ z = x \o c

\* It does not matter which are concatenated first.
LEMMA Regrouped ==
  ASSUME NEW S, NEW a, NEW b, NEW c, NEW x, NEW y, NEW z, Grouped(S, a, b, c, x, y, z)
  PROVE  z = a \o y
BY Associative DEF Grouped

\* Some bytes are used.
LEMMA Consumed ==
  ASSUME DecoderTypes, NEW at, NEW n, NEW u, NEW v, Comes(at, n, u, v)
  PROVE  Used(at, n, u, v)
<1> USE DEF Comes
<1>0. buffer \in Seq(DTXBytes) /\ incoming \in Seq(DTXBytes) /\ Len(buffer) \in Nat /\ Len(incoming) \in Nat
  BY DEF DecoderTypes
<1>1. PICK l \in Nat, o \in Nat, p \in Nat : l = Len(buffer) /\ l = (at + n) + o /\ p = n + o /\ l = at + p
  <2>1. Len(buffer) - (at + n) \in Nat /\ Len(buffer) = (at + n) + (Len(buffer) - (at + n))
    BY <1>0
  <2>2. PICK o \in Nat : Len(buffer) = (at + n) + o
    BY <2>1
  <2>3. n + o \in Nat /\ Len(buffer) = at + (n + o)
    BY <2>2
  <2> QED
    BY <2>2, <2>3, <1>0
<1>2. PICK a : a = SubSeq(buffer, at + 1, l) /\ a \in Seq(DTXBytes) /\ Len(a) = p /\ \A j \in 1 .. p : a[j] = buffer[at + j]
  <2>1. Within(DTXBytes, buffer, at, p) /\ at + p = l
    BY <1>0, <1>1 DEF Within
  <2>2. PICK a : a = SubSeq(buffer, at + 1, at + p) /\ Part(DTXBytes, buffer, at, p, a)
    BY <2>1, PartOf
  <2> QED
    BY <2>1, <2>2 DEF Part
<1>3. PICK b : b = SubSeq(buffer, (at + n) + 1, l) /\ b \in Seq(DTXBytes) /\ Len(b) = o /\ \A j \in 1 .. o : b[j] = buffer[(at + n) + j]
  <2>1. PICK m : m = at + n /\ m + o = l /\ Within(DTXBytes, buffer, m, o)
    BY <1>0, <1>1 DEF Within
  <2>2. PICK b : b = SubSeq(buffer, m + 1, m + o) /\ Part(DTXBytes, buffer, m, o, b)
    BY <2>1, PartOf
  <2> QED
    BY <2>1, <2>2 DEF Part
<1>4. PICK q \in Nat, c \in Nat, d \in Nat : q = Len(incoming) /\ c = Len(u) /\ d = Len(v) /\ n <= c
  BY <1>0
<1>5. PICK r : r = RestAt(at) /\ r = a \o incoming /\ r = u \o v
  BY <1>1, <1>2 DEF RestAt
<1>6. Len(r) = p + q /\ (\A j \in 1 .. p : r[j] = a[j]) /\ \A j \in 1 .. q : r[p + j] = incoming[j]
  <2>1. Measured(DTXBytes, a, incoming, p, q)
    BY <1>0, <1>2, <1>4 DEF Measured
  <2>2. Chained(a, incoming, p, q, r)
    BY <2>1, <1>5, Concatenated
  <2> QED
    BY <2>2 DEF Chained
<1>7. Len(r) = c + d /\ (\A j \in 1 .. c : r[j] = u[j]) /\ \A j \in 1 .. d : r[c + j] = v[j]
  <2>1. Measured(DTXBytes, u, v, c, d)
    BY <1>4 DEF Measured
  <2>2. Chained(u, v, c, d, r)
    BY <2>1, <1>5, Concatenated
  <2> QED
    BY <2>2 DEF Chained
<1>8. ASSUME NEW j \in 1 .. n PROVE buffer[at + j] = u[j]
  <2>1. j \in 1 .. p /\ j \in 1 .. c
    BY <1>1, <1>4
  <2> QED
    BY <2>1, <1>2, <1>6, <1>7
<1>9. ASSUME n = Len(u)
      PROVE  SubSeq(buffer, at + 1, at + n) = u /\ RestAt(at + n) = v
  <2>1. n = c /\ d = o + q
    <3>1. n = c /\ c + d = p + q /\ p = n + o
      BY <1>9, <1>1, <1>4, <1>6, <1>7
    <3>2. c \in Nat /\ d \in Nat /\ o \in Nat /\ p \in Nat /\ q \in Nat
      OBVIOUS
    <3> QED
      BY <3>1, <3>2
  <2>2. SubSeq(buffer, at + 1, at + n) = u
    <3>1. PICK w : w = SubSeq(buffer, at + 1, at + n) /\ w \in Seq(DTXBytes) /\ Len(w) = n /\ \A j \in 1 .. n : w[j] = buffer[at + j]
      <4>1. Within(DTXBytes, buffer, at, n)
        BY <1>0 DEF Within
      <4>2. PICK w : w = SubSeq(buffer, at + 1, at + n) /\ Part(DTXBytes, buffer, at, n, w)
        BY <4>1, PartOf
      <4> QED
        BY <4>2 DEF Part
    <3>2. \A j \in 1 .. Len(w) : w[j] = u[j]
      BY <3>1, <1>8
    <3> QED
      BY <3>1, <3>2, <1>9, SeqEqual
  <2>3. PICK w : w = RestAt(at + n) /\ w = b \o incoming
    BY <1>1, <1>3 DEF RestAt
  <2>4. w \in Seq(DTXBytes) /\ Len(w) = o + q /\ (\A j \in 1 .. o : w[j] = b[j]) /\ \A j \in 1 .. q : w[o + j] = incoming[j]
    <3>1. Measured(DTXBytes, b, incoming, o, q)
      BY <1>0, <1>3, <1>4 DEF Measured
    <3>2. Chained(b, incoming, o, q, w) /\ w \in Seq(DTXBytes)
      BY <3>1, <2>3, Concatenated
    <3> QED
      BY <3>2 DEF Chained
  <2>5. ASSUME NEW j \in 1 .. o PROVE w[j] = v[j]
    <3>1. n + j \in 1 .. p /\ j \in 1 .. d /\ at + (n + j) = (at + n) + j
      BY <1>1, <2>1
    <3>2. PICK i : i = n + j
      OBVIOUS
    <3>3. a[i] = buffer[at + i] /\ r[i] = a[i] /\ at + i = (at + n) + j
      BY <3>1, <3>2, <1>2, <1>6
    <3>4. r[i] = v[j]
      BY <3>1, <3>2, <1>7, <2>1
    <3> QED
      BY <3>3, <3>4, <2>4, <1>3
  <2>6. ASSUME NEW j \in 1 .. q PROVE w[o + j] = v[o + j]
    <3>1. PICK i : i = o + j /\ i \in 1 .. d /\ c + i = p + j
      BY <1>1, <2>1
    <3>2. r[c + i] = v[i]
      BY <3>1, <1>7
    <3>3. r[p + j] = incoming[j] /\ w[o + j] = incoming[j]
      BY <1>6, <2>4
    <3> QED
      BY <3>1, <3>2, <3>3
  <2>7. ASSUME NEW i \in 1 .. o + q PROVE w[i] = v[i]
    <3>1. CASE i <= o
      <4>1. i \in 1 .. o
        BY <3>1
      <4> QED
        BY <4>1, <2>5
    <3>2. CASE ~(i <= o)
      <4>1. PICK j : j \in 1 .. q /\ i = o + j
        <5>1. i - o \in 1 .. q /\ i = o + (i - o)
          BY <3>2
        <5> QED
          BY <5>1
      <4> QED
        BY <4>1, <2>6
    <3> QED
      BY <3>1, <3>2
  <2>8. w = v
    BY <2>1, <2>4, <2>7, <1>4, SeqEqual
  <2> QED
    BY <2>2, <2>3, <2>8
<1> QED
  BY <1>8, <1>9 DEF Used

\* The types of what does not change while the decoder reads.
LEMMA ReadingKeeps ==
  ASSUME DecoderTypes, UNCHANGED <<fragments, incoming, buffer>>,
         cursor' \in 0 .. Len(buffer), header' \in 0 .. Len(fragments), busy' \in BOOLEAN, pushed' \in Seq(Seq(DTXBytes))
  PROVE  /\ DecoderTypes'
         /\ \A h \in 0 .. Len(fragments) : Ahead(h)' = Ahead(h)
         /\ \A h \in 1 .. Len(fragments) : BodyOf(h)' = BodyOf(h)
         /\ \A at \in Nat : RestAt(at)' = RestAt(at)
<1>1. DecoderTypes'
  <2>1. (\A f \in 1 .. Len(fragments) : Legal(f))'
    <3>1. fragments' = fragments /\ \A f \in 1 .. Len(fragments) : Legal(f)
      BY DEF DecoderTypes
    <3>2. \A f : Legal(f)' <=> Legal(f)
      BY <3>1 DEF Legal, NoneSince, IsLast
    <3> QED
      BY <3>1, <3>2
  <2> QED
    BY <2>1 DEF DecoderTypes
<1>2. \A h \in 0 .. Len(fragments) : Ahead(h)' = Ahead(h)
  BY DEF Ahead, Wires, Behind, BytesOf, HasBody
<1>3. \A h \in 1 .. Len(fragments) : BodyOf(h)' = BodyOf(h)
  BY DEF BodyOf, BytesOf, HasBody
<1>4. \A at \in Nat : RestAt(at)' = RestAt(at)
  BY DEF RestAt
<1> QED
  BY <1>1, <1>2, <1>3, <1>4

\* What has been put together is not touched by other variables.
LEMMA AssembledKept ==
  ASSUME DecoderTypes, UNCHANGED fragments, NEW k \in 0 .. Len(fragments), NEW e, NEW s, PutTogether(k, e, s)
  PROVE  PutTogether(k, e, s)'
<1>1. /\ Len(fragments') \in Nat /\ DOMAIN fragments' = 1 .. Len(fragments') /\ Len(fragments) <= Len(fragments')
      /\ \A g \in 1 .. Len(fragments) : fragments'[g] = fragments[g]
  BY DEF DecoderTypes
<1> QED
  BY <1>1, AssembledLasts

\* The next header, or the next body, is in place.
ReadyForHeader(h, e, s, at) == RestAt(at) = Ahead(h) /\ PutTogether(h, e, s)
ReadyForBody(h, e, s, at) ==
  /\ h # 0 /\ HasBody(fragments[h])
  /\ RestAt(at) = BodyOf(h) \o Ahead(h)
  /\ \E entries : PutTogether(h - 1, entries, s) /\ e = WithEntryOf(fragments[h], entries)

\* What is in place stays in place while fragments, input and buffer stay.
LEMMA ReadyKept ==
  ASSUME DecoderTypes, UNCHANGED <<fragments, incoming, buffer>>,
         NEW h \in 0 .. Len(fragments), NEW e, NEW s, NEW at \in Nat
  PROVE  /\ ReadyForHeader(h, e, s, at) => ReadyForHeader(h, e, s, at)'
         /\ ReadyForBody(h, e, s, at) => ReadyForBody(h, e, s, at)'
<1>0. UNCHANGED fragments /\ Len(fragments) \in Nat
  BY DEF DecoderTypes
<1>1. RestAt(at)' = RestAt(at) /\ Ahead(h)' = Ahead(h) /\ (h # 0 => BodyOf(h)' = BodyOf(h))
  BY DEF RestAt, Ahead, Wires, Behind, BytesOf, HasBody, BodyOf
<1>2. ReadyForHeader(h, e, s, at) => ReadyForHeader(h, e, s, at)'
  BY <1>0, <1>1, AssembledKept DEF ReadyForHeader
<1>3. ASSUME ReadyForBody(h, e, s, at) PROVE ReadyForBody(h, e, s, at)'
  <2>1. PICK entries : PutTogether(h - 1, entries, s) /\ e = WithEntryOf(fragments[h], entries)
    BY <1>3 DEF ReadyForBody
  <2>2. h - 1 \in 0 .. Len(fragments)
    BY <1>0, <1>3 DEF ReadyForBody
  <2>3. PICK k \in 0 .. Len(fragments) : k = h - 1
    BY <2>2
  <2>4. PutTogether(k, entries, s)
    BY <2>1, <2>3
  <2>5. PutTogether(k, entries, s)'
    BY <1>0, <2>4, AssembledKept
  <2>6. (WithEntryOf(fragments[h], entries))' = WithEntryOf(fragments[h], entries)
    BY <1>0 DEF WithEntryOf
  <2>7. HasBody(fragments[h])'
    BY <1>0, <1>3 DEF ReadyForBody, HasBody
  <2>8. \E f : PutTogether(h - 1, f, s)' /\ e = (WithEntryOf(fragments[h], f))'
    BY <2>1, <2>3, <2>5, <2>6
  <2> QED
    BY <1>1, <1>3, <2>7, <2>8 DEF ReadyForBody
<1> QED
  BY <1>2, <1>3

\* The body of the h-th fragment is taken from place at on, or waits.
LEMMA BodyTaken ==
  ASSUME DecoderTypes, busy, NEW h \in 1 .. Len(fragments), NEW at, at \in 0 .. Len(buffer), NEW e,
         ReadyForBody(h, e, pushed, at), UNCHANGED <<fragments, incoming, buffer>>, header' = h,
         NEW f, f = fragments[h], Body(at, e, f)
  PROVE  DecoderInv'
<1> DEFINE end == at + f.payloadLength
           extended == [e EXCEPT ![f.channel] = @ \o SubSeq(buffer, at + 1, end)]
<1>0. /\ Len(buffer) \in Nat /\ Len(fragments) \in Nat /\ f.payloadLength \in Nat /\ h \in Nat /\ h # 0
      /\ pushed \in Seq(Seq(DTXBytes))
  <2>1. Legal(h)
    BY DEF DecoderTypes
  <2>2. f.payloadLength \in Nat
    BY <2>1 DEF Legal
  <2>3. Len(fragments) \in Nat
    BY DEF DecoderTypes
  <2>4. Len(buffer) \in Nat /\ pushed \in Seq(Seq(DTXBytes))
    BY DEF DecoderTypes
  <2> QED
    BY <2>2, <2>3, <2>4
<1>1. PICK entries : PutTogether(h - 1, entries, pushed) /\ e = WithEntryOf(f, entries)
  BY DEF ReadyForBody
<1>2. HasBody(f) /\ RestAt(at) = BodyOf(h) \o Ahead(h)
  BY DEF ReadyForBody
<1>3. HasEntry(h, entries, e)
  BY <1>1, EntryOf
<1>4. f.channel \in DOMAIN e /\ h \in 0 .. Len(fragments)
  BY <1>3, <1>0 DEF HasEntry
<1>5. CASE ~Has(end)
  <2>1. cursor' = at /\ manager' = e /\ busy' = FALSE /\ pushed' = pushed
    BY <1>5 DEF Body
  <2>2. f.payloadLength # 0 /\ Len(buffer) - at < f.payloadLength
    BY <1>0, <1>5 DEF Has
  <2>3. DecoderTypes'
    <3>1. cursor' \in 0 .. Len(buffer) /\ header' \in 0 .. Len(fragments) /\ busy' \in BOOLEAN /\ pushed' \in Seq(Seq(DTXBytes))
      BY <2>1, <1>0, <1>4
    <3> QED
      BY <3>1, ReadingKeeps
  <2>4. PICK s : s = pushed
    OBVIOUS
  <2>5. ReadyForBody(h, e, s, at)'
    <3>1. at \in Nat /\ ReadyForBody(h, e, s, at)
      BY <1>0, <2>4
    <3> QED
      BY <3>1, <1>4, ReadyKept
  <2>6. header' = h /\ manager' = e /\ pushed' = s /\ cursor' = at /\ fragments' = fragments /\ buffer' = buffer
    BY <2>1, <2>4
  <2>7. (Lacks(fragments[header].payloadLength))'
    BY <2>2, <2>6 DEF Lacks
  <2>8. AtBody'
    BY <2>2, <2>5, <2>6, <2>7 DEF AtBody, ReadyForBody, Rest
  <2> QED
    BY <2>3, <2>8 DEF DecoderInv
<1>6. CASE Has(end)
  <2>0. /\ BodyOf(h) \in Seq(DTXBytes) /\ Ahead(h) \in Seq(DTXBytes) /\ Len(BodyOf(h)) = f.payloadLength
    BY <1>2, <1>4, BytesOfFragment, AheadStep
  <2>1. SubSeq(buffer, at + 1, end) = BodyOf(h) /\ RestAt(end) = Ahead(h)
    <3>1. PICK u, v : u = BodyOf(h) /\ v = Ahead(h)
      OBVIOUS
    <3>2. PICK n : n = f.payloadLength
      OBVIOUS
    <3>3. /\ at \in Nat /\ n \in Nat /\ at + n <= Len(buffer) /\ u \in Seq(DTXBytes) /\ v \in Seq(DTXBytes)
          /\ n = Len(u) /\ n <= Len(u) /\ RestAt(at) = u \o v
      BY <3>1, <3>2, <2>0, <1>0, <1>2, <1>6 DEF Has
    <3>4. Comes(at, n, u, v)
      BY <3>3 DEF Comes
    <3>5. Used(at, n, u, v)
      BY <3>4, Consumed
    <3> QED
      BY <3>1, <3>2, <3>3, <3>5 DEF Used
  <2>2. /\ cursor' = end /\ busy'
        /\ IsLast(f) => /\ manager' = Without(f.channel, extended)
                        /\ pushed' = IF f.parses THEN Append(pushed, extended[f.channel]) ELSE pushed
        /\ ~IsLast(f) => manager' = extended /\ pushed' = pushed
    BY <1>4, <1>6 DEF Body
  <2>3. PICK x : x = [e EXCEPT ![fragments[h].channel] = @ \o BodyOf(h)] /\ x = extended
    BY <2>1
  <2>4. PICK s : s = pushed /\ s \in Seq(Seq(DTXBytes)) /\ PutTogether(h - 1, entries, s)
    BY <1>0, <1>1
  <2>5. /\ ~IsLast(f) => PutTogether(h, x, s)
        /\ IsLast(f) => /\ x[f.channel] \in Seq(DTXBytes)
                        /\ PutTogether(h, Without(f.channel, x), IF f.parses THEN Append(s, x[f.channel]) ELSE s)
    BY <1>1, <1>2, <2>3, <2>4, FragmentTaken
  <2>6. PICK m, t : /\ manager' = m /\ pushed' = t /\ PutTogether(h, m, t) /\ t \in Seq(Seq(DTXBytes))
    <3>1. IsLast(f) => Append(s, x[f.channel]) \in Seq(Seq(DTXBytes))
      BY <2>4, <2>5
    <3> QED
      BY <3>1, <2>2, <2>3, <2>4, <2>5
  <2>7. end \in Nat /\ end \in 0 .. Len(buffer)
    BY <1>0, <1>6 DEF Has
  <2>8. PICK c : c = end /\ c \in Nat /\ cursor' = c /\ RestAt(c) = Ahead(h) /\ c \in 0 .. Len(buffer)
    BY <2>1, <2>2, <2>7
  <2>9. DecoderTypes'
    <3>1. cursor' \in 0 .. Len(buffer) /\ header' \in 0 .. Len(fragments) /\ busy' \in BOOLEAN /\ pushed' \in Seq(Seq(DTXBytes))
      BY <2>2, <2>6, <2>8, <1>0, <1>4
    <3> QED
      BY <3>1, ReadingKeeps
  <2>10. ReadyForHeader(h, m, t, c)'
    <3>1. ReadyForHeader(h, m, t, c)
      BY <2>6, <2>8 DEF ReadyForHeader
    <3> QED
      BY <3>1, <2>8, <1>4, ReadyKept
  <2>11. AtFragment'
    BY <2>2, <2>6, <2>8, <2>10 DEF AtFragment, ReadyForHeader, Rest, Lacks
  <2> QED
    BY <2>9, <2>11 DEF DecoderInv
<1> QED
  BY <1>5, <1>6

\* What the decoder has in front of it.
LEMMA InFront ==
  ASSUME DecoderInv
  PROVE  /\ DecoderTypes /\ cursor \in Nat /\ Len(buffer) \in Nat /\ header \in Nat /\ Len(fragments) \in Nat
         /\ AtFragment => ReadyForHeader(header, manager, pushed, cursor)
         /\ AtBody => ReadyForBody(header, manager, pushed, cursor)
         /\ AtFragment /\ cursor < Len(buffer) =>
              /\ header # Len(fragments) /\ header + 1 \in 1 .. Len(fragments)
              /\ \A j \in 1 .. DTXHeaderLength : cursor + j <= Len(buffer) =>
                   buffer[cursor + j] = [fragment |-> header + 1, place |-> j]
              /\ Has(cursor + DTXHeaderLength) =>
                   RestAt(cursor + DTXHeaderLength) = BodyOf(header + 1) \o Ahead(header + 1)
         /\ AtBody /\ cursor < Len(buffer) => buffer[cursor + 1].place # 1
<1>0. /\ DecoderTypes /\ cursor \in Nat /\ Len(buffer) \in Nat /\ header \in Nat /\ Len(fragments) \in Nat
      /\ cursor \in 0 .. Len(buffer) /\ header \in 0 .. Len(fragments)
      /\ DTXHeaderLength \in Nat
  BY DTXDecoderAssumption DEF DecoderInv, DecoderTypes
<1>1. AtFragment => ReadyForHeader(header, manager, pushed, cursor)
  BY DEF AtFragment, ReadyForHeader, Rest
<1>2. AtBody => ReadyForBody(header, manager, pushed, cursor)
  BY DEF AtBody, ReadyForBody, Rest
<1>3. ASSUME AtFragment, cursor < Len(buffer)
      PROVE  /\ header # Len(fragments) /\ header + 1 \in 1 .. Len(fragments)
             /\ \A j \in 1 .. DTXHeaderLength : cursor + j <= Len(buffer) =>
                  buffer[cursor + j] = [fragment |-> header + 1, place |-> j]
             /\ Has(cursor + DTXHeaderLength) =>
                  RestAt(cursor + DTXHeaderLength) = BodyOf(header + 1) \o Ahead(header + 1)
  <2>1. RestAt(cursor) = Ahead(header)
    BY <1>3 DEF AtFragment, Rest
  <2>2. header # Len(fragments)
    <3> SUFFICES ASSUME header = Len(fragments) PROVE FALSE
      OBVIOUS
    <3>1. RestAt(cursor) = <<>>
      BY <2>1, <1>0, AheadStep
    <3>2. PICK a : a = SubSeq(buffer, cursor + 1, Len(buffer)) /\ a \in Seq(DTXBytes) /\ Len(a) # 0
      <4>1. PICK n : n \in Nat /\ n # 0 /\ cursor + n = Len(buffer)
        <5>1. Len(buffer) - cursor \in Nat /\ Len(buffer) - cursor # 0 /\ cursor + (Len(buffer) - cursor) = Len(buffer)
          BY <1>0, <1>3
        <5> QED
          BY <5>1
      <4>2. Within(DTXBytes, buffer, cursor, n)
        BY <1>0, <4>1 DEF Within, DecoderTypes
      <4>3. PICK w : w = SubSeq(buffer, cursor + 1, cursor + n) /\ Part(DTXBytes, buffer, cursor, n, w)
        BY <4>2, PartOf
      <4> QED
        BY <4>1, <4>3 DEF Part
    <3>3. incoming \in Seq(DTXBytes) /\ a \o incoming = <<>>
      BY <1>0, <3>1, <3>2 DEF DecoderTypes, RestAt
    <3>4. Len(a \o incoming) = Len(a) + Len(incoming) /\ Len(a) \in Nat /\ Len(incoming) \in Nat
      BY <3>2, <3>3, LenProperties
    <3>5. Len(a \o incoming) = 0
      BY <3>3
    <3> QED
      BY <3>2, <3>4, <3>5
  <2>3. header + 1 \in 1 .. Len(fragments) /\ header + 1 \in 0 .. Len(fragments)
    BY <1>0, <2>2
  <2>4. PICK h : h = header + 1 /\ h \in 1 .. Len(fragments) /\ h \in 0 .. Len(fragments)
    BY <2>3
  <2>5. Ahead(header) = BytesOf(h, fragments[h]) \o Ahead(h)
    BY <1>0, <2>2, <2>4, AheadStep
  <2>6. /\ BytesOf(h, fragments[h]) \in Seq(DTXBytes) /\ BodyOf(h) \in Seq(DTXBytes) /\ Ahead(h) \in Seq(DTXBytes)
        /\ Len(BytesOf(h, fragments[h])) = DTXHeaderLength + Len(BodyOf(h))
        /\ \A j \in 1 .. DTXHeaderLength + Len(BodyOf(h)) : BytesOf(h, fragments[h])[j] = [fragment |-> h, place |-> j]
    BY <1>0, <2>4, BytesOfFragment, AheadStep
  <2>7. PICK u, b, v : u = BytesOf(h, fragments[h]) /\ b = BodyOf(h) /\ v = Ahead(h)
    OBVIOUS
  <2>8. ASSUME NEW j \in 1 .. DTXHeaderLength, cursor + j <= Len(buffer)
        PROVE  buffer[cursor + j] = [fragment |-> h, place |-> j]
    <3>1. Len(b) \in Nat /\ j \in Nat /\ j <= Len(u) /\ j \in 1 .. DTXHeaderLength + Len(b) /\ j \in 1 .. j
      BY <1>0, <2>6, <2>7
    <3>2. \A i \in 1 .. j : buffer[cursor + i] = u[i]
      <4>1. Comes(cursor, j, u, v)
        BY <1>0, <2>1, <2>5, <2>6, <2>7, <2>8, <3>1 DEF Comes
      <4>2. Used(cursor, j, u, v)
        BY <1>0, <4>1, Consumed
      <4> QED
        BY <4>2 DEF Used
    <3> QED
      BY <3>1, <3>2, <2>6, <2>7
  <2>9. ASSUME Has(cursor + DTXHeaderLength)
        PROVE  RestAt(cursor + DTXHeaderLength) = b \o v
    <3>0. SubSeq(u, DTXHeaderLength + 1, DTXHeaderLength + Len(b)) = b
      BY <2>6, <2>7 DEF BodyOf
    <3>1. PICK a : a = SubSeq(u, 1, DTXHeaderLength) /\ a \in Seq(DTXBytes) /\ Len(a) = DTXHeaderLength
                   /\ u = a \o b
      <4>1. PICK a : a = SubSeq(u, 1, DTXHeaderLength)
        OBVIOUS
      <4>2. PICK n : n \in Nat /\ n = Len(b) /\ Len(u) = DTXHeaderLength + n
        BY <2>6, <2>7
      <4>3. a \in Seq(DTXBytes) /\ Len(a) = DTXHeaderLength /\ \A j \in 1 .. DTXHeaderLength : a[j] = u[j]
        <5>1. Within(DTXBytes, u, 0, DTXHeaderLength)
          BY <1>0, <2>6, <2>7, <4>2 DEF Within
        <5>2. PICK w : w = SubSeq(u, 0 + 1, 0 + DTXHeaderLength) /\ Part(DTXBytes, u, 0, DTXHeaderLength, w)
          BY <5>1, PartOf
        <5>3. 0 + 1 = 1 /\ 0 + DTXHeaderLength = DTXHeaderLength /\ \A j \in 1 .. DTXHeaderLength : 0 + j = j
          BY <1>0
        <5> QED
          BY <4>1, <5>2, <5>3 DEF Part
      <4>4. \A j \in 1 .. n : b[j] = u[DTXHeaderLength + j]
        <5>1. Within(DTXBytes, u, DTXHeaderLength, n)
          BY <1>0, <2>6, <2>7, <4>2 DEF Within
        <5>2. Part(DTXBytes, u, DTXHeaderLength, n, SubSeq(u, DTXHeaderLength + 1, DTXHeaderLength + n))
          BY <5>1, PartOf
        <5> QED
          BY <3>0, <4>2, <5>2 DEF Part
      <4>5. PICK w : w = a \o b
        OBVIOUS
      <4>6. Chained(a, b, DTXHeaderLength, n, w) /\ w \in Seq(DTXBytes)
        <5>1. Measured(DTXBytes, a, b, DTXHeaderLength, n)
          BY <2>6, <2>7, <4>2, <4>3 DEF Measured
        <5> QED
          BY <4>5, <5>1, Concatenated
      <4>7. ASSUME NEW i \in 1 .. DTXHeaderLength + n PROVE w[i] = u[i]
        <5>1. CASE i <= DTXHeaderLength
          <6>1. i \in 1 .. DTXHeaderLength
            BY <5>1, <1>0
          <6> QED
            BY <6>1, <4>3, <4>6 DEF Chained
        <5>2. CASE ~(i <= DTXHeaderLength)
          <6>1. PICK j : j \in 1 .. n /\ i = DTXHeaderLength + j
            <7>1. i - DTXHeaderLength \in 1 .. n /\ i = DTXHeaderLength + (i - DTXHeaderLength)
              BY <5>2, <1>0, <4>2
            <7> QED
              BY <7>1
          <6> QED
            BY <6>1, <4>4, <4>6 DEF Chained
        <5> QED
          BY <5>1, <5>2
      <4>8. w = u
        BY <4>2, <4>6, <4>7, <2>6, <2>7, SeqEqual DEF Chained
      <4> QED
        BY <4>1, <4>3, <4>5, <4>8
    <3>2. PICK y : y = b \o v
      OBVIOUS
    <3>3. y \in Seq(DTXBytes)
      BY <3>2, <2>6, <2>7
    <3>4. RestAt(cursor) = a \o y
      <4>1. b \in Seq(DTXBytes) /\ v \in Seq(DTXBytes)
        BY <2>6, <2>7
      <4>2. PICK z : z = u \o v
        OBVIOUS
      <4>3. Grouped(DTXBytes, a, b, v, u, y, z)
        BY <3>1, <3>2, <4>1, <4>2 DEF Grouped
      <4>4. z = a \o y
        BY <4>3, Regrouped
      <4> QED
        BY <2>1, <2>5, <2>7, <4>2, <4>4
    <3>5. /\ cursor + DTXHeaderLength <= Len(buffer) /\ DTXHeaderLength <= Len(a) /\ DTXHeaderLength = Len(a)
      BY <2>9, <1>0, <3>1 DEF Has
    <3>6. Comes(cursor, DTXHeaderLength, a, y)
      BY <1>0, <3>1, <3>3, <3>4, <3>5 DEF Comes
    <3>7. Used(cursor, DTXHeaderLength, a, y)
      BY <1>0, <3>6, Consumed
    <3> QED
      BY <3>2, <3>5, <3>7 DEF Used
  <2> QED
    BY <2>2, <2>3, <2>4, <2>7, <2>8, <2>9
<1>4. ASSUME AtBody, cursor < Len(buffer)
      PROVE  buffer[cursor + 1].place # 1
  <2>1. /\ header \in 1 .. Len(fragments) /\ HasBody(fragments[header]) /\ fragments[header].payloadLength # 0
        /\ RestAt(cursor) = BodyOf(header) \o Ahead(header)
    BY <1>0, <1>4 DEF AtBody, Rest
  <2>2. PICK u, v : u = BodyOf(header) /\ v = Ahead(header)
    OBVIOUS
  <2>3. /\ u \in Seq(DTXBytes) /\ v \in Seq(DTXBytes) /\ Len(u) = fragments[header].payloadLength
        /\ \A j \in 1 .. Len(u) : u[j] = [fragment |-> header, place |-> DTXHeaderLength + j]
    BY <1>0, <2>1, <2>2, BytesOfFragment, AheadStep
  <2>4. Len(u) \in Nat /\ 1 <= Len(u) /\ 1 \in 1 .. Len(u) /\ 1 \in 1 .. 1 /\ 1 \in Nat
    BY <2>1, <2>3, LenProperties
  <2>5. \A j \in 1 .. 1 : buffer[cursor + j] = u[j]
    <3>1. cursor + 1 <= Len(buffer) /\ RestAt(cursor) = u \o v
      BY <1>0, <1>4, <2>1, <2>2
    <3>2. Comes(cursor, 1, u, v)
      BY <1>0, <2>3, <2>4, <3>1 DEF Comes
    <3>3. Used(cursor, 1, u, v)
      BY <1>0, <3>2, Consumed
    <3> QED
      BY <3>3 DEF Used
  <2>6. buffer[cursor + 1] = [fragment |-> header, place |-> DTXHeaderLength + 1]
    BY <2>3, <2>4, <2>5
  <2>7. DTXHeaderLength + 1 # 1
    BY DTXDecoderAssumption
  <2> QED
    BY <2>6, <2>7
<1> QED
  BY <1>0, <1>1, <1>2, <1>3, <1>4

\* A pass of the loop.
LEMMA DecoderPass ==
  ASSUME DecoderInv, Pass
  PROVE  DecoderInv'
<1>0. /\ DecoderTypes /\ cursor \in Nat /\ Len(buffer) \in Nat /\ header \in Nat /\ Len(fragments) \in Nat
      /\ cursor \in 0 .. Len(buffer) /\ header \in 0 .. Len(fragments) /\ pushed \in Seq(Seq(DTXBytes))
      /\ DTXHeaderLength \in Nat \ {0} /\ MagicLength \in Nat \ {0} /\ MagicLength <= DTXHeaderLength
  <2>1. DecoderTypes /\ cursor \in Nat /\ Len(buffer) \in Nat /\ header \in Nat /\ Len(fragments) \in Nat
    BY InFront
  <2>2. DTXHeaderLength \in Nat \ {0} /\ MagicLength \in Nat \ {0} /\ MagicLength <= DTXHeaderLength
    BY DTXDecoderAssumption
  <2> QED
    BY <2>1, <2>2 DEF DecoderTypes
<1>1. /\ busy /\ cursor < Len(buffer) /\ UNCHANGED <<fragments, incoming, buffer>>
  BY DEF Pass
<1>2. ASSUME UNCHANGED <<cursor, header, manager, pushed>>, busy' = FALSE,
             Len(buffer) - cursor < MagicLength \/ (AtFragment /\ Len(buffer) - cursor < DTXHeaderLength)
      PROVE  DecoderInv'
  <2>1. DecoderTypes'
    BY <1>0, <1>1, <1>2, ReadingKeeps
  <2>2. PICK h, e, s, at : h = header /\ e = manager /\ s = pushed /\ at = cursor /\ h \in 0 .. Len(fragments) /\ at \in Nat
    BY <1>0
  <2>3. header' = h /\ manager' = e /\ pushed' = s /\ cursor' = at /\ buffer' = buffer /\ fragments' = fragments
    BY <1>1, <1>2, <2>2
  <2>4. CASE AtFragment
    <3>1. ReadyForHeader(h, e, s, at)
      BY <2>2, <2>4, InFront
    <3>2. ReadyForHeader(h, e, s, at)'
      BY <3>1, <2>2, <1>0, <1>1, ReadyKept
    <3>3. Lacks(DTXHeaderLength)'
      BY <1>0, <1>2, <2>2, <2>3 DEF Lacks
    <3>4. AtFragment'
      BY <3>2, <3>3, <2>3 DEF AtFragment, ReadyForHeader, Rest
    <3> QED
      BY <2>1, <3>4 DEF DecoderInv
  <2>5. CASE AtBody /\ Len(buffer) - cursor < MagicLength
    <3>1. ReadyForBody(h, e, s, at)
      BY <2>2, <2>5, InFront
    <3>2. ReadyForBody(h, e, s, at)'
      BY <3>1, <2>2, <1>0, <1>1, ReadyKept
    <3>3. Lacks(MagicLength)'
      BY <2>5, <2>2, <2>3 DEF Lacks
    <3>4. fragments'[header'].payloadLength # 0
      BY <2>2, <2>3, <2>5 DEF AtBody
    <3>5. AtBody'
      BY <3>2, <3>3, <3>4, <2>3 DEF AtBody, ReadyForBody, Rest
    <3> QED
      BY <2>1, <3>5 DEF DecoderInv
  <2> QED
    BY <1>2, <2>4, <2>5 DEF DecoderInv
<1>3. Has(cursor + MagicLength) /\ AtBody => ~AtMagic
  <2> HAVE Has(cursor + MagicLength) /\ AtBody
  <2>1. buffer[cursor + 1].place # 1
    BY <1>1, InFront
  <2>2. 1 \in 1 .. MagicLength
    BY <1>0
  <2> QED
    BY <2>1, <2>2 DEF AtMagic
<1>4. Has(cursor + MagicLength) /\ AtFragment => AtMagic
  <2> HAVE Has(cursor + MagicLength) /\ AtFragment
  <2>1. \A j \in 1 .. DTXHeaderLength : cursor + j <= Len(buffer) => buffer[cursor + j] = [fragment |-> header + 1, place |-> j]
    BY <1>1, InFront
  <2>2. \A j \in 1 .. MagicLength : j \in 1 .. DTXHeaderLength /\ cursor + j <= Len(buffer)
    BY <1>0 DEF Has
  <2>3. \A j \in 1 .. MagicLength : buffer[cursor + j] = [fragment |-> header + 1, place |-> j]
    BY <2>1, <2>2
  <2>4. ASSUME NEW j \in 1 .. MagicLength PROVE buffer[cursor + j].place = j
    <3>1. buffer[cursor + j] = [fragment |-> header + 1, place |-> j]
      BY <2>3
    <3>2. PICK byte : byte = buffer[cursor + j]
      OBVIOUS
    <3>3. byte.place = j
      BY <3>1, <3>2
    <3> QED
      BY <3>2, <3>3
  <2> QED
    BY <2>4 DEF AtMagic
<1>5. CASE ~Has(cursor + MagicLength) /\ busy' = FALSE /\ UNCHANGED <<cursor, header, manager, pushed>>
  <2>1. Len(buffer) - cursor < MagicLength
    BY <1>0, <1>5 DEF Has
  <2> QED
    BY <2>1, <1>2, <1>5
<1>6. CASE /\ Has(cursor + MagicLength) /\ AtMagic /\ ~Has(cursor + DTXHeaderLength)
           /\ busy' = FALSE /\ UNCHANGED <<cursor, header, manager, pushed>>
  <2>1. Len(buffer) - cursor < DTXHeaderLength /\ AtFragment
    BY <1>0, <1>3, <1>6 DEF Has, DecoderInv
  <2> QED
    BY <2>1, <1>2, <1>6
<1>7. CASE /\ Has(cursor + DTXHeaderLength) /\ AtMagic
           /\ header' = buffer[cursor + 1].fragment
           /\ LET fragment == fragments[header']
                  at == cursor + DTXHeaderLength
                  entries == WithEntryOf(fragment, manager)
              IN  IF Continues(fragment)
                  THEN cursor' = at /\ manager' = entries /\ UNCHANGED <<busy, pushed>>
                  ELSE Body(at, entries, fragment)
  <2>1. AtFragment
    <3>1. Has(cursor + MagicLength)
      BY <1>0, <1>7 DEF Has
    <3> QED
      BY <3>1, <1>3, <1>7 DEF DecoderInv
  <2>2. PICK h, at : /\ h = header + 1 /\ h \in 1 .. Len(fragments) /\ at = cursor + DTXHeaderLength
                    /\ at \in 0 .. Len(buffer) /\ at \in Nat
    <3>1. header + 1 \in 1 .. Len(fragments)
      BY <1>1, <2>1, InFront
    <3>2. cursor + DTXHeaderLength \in 0 .. Len(buffer) /\ cursor + DTXHeaderLength \in Nat
      BY <1>0, <1>7 DEF Has
    <3> QED
      BY <3>1, <3>2
  <2>3. header' = h
    <3>1. \A j \in 1 .. DTXHeaderLength : cursor + j <= Len(buffer) => buffer[cursor + j] = [fragment |-> header + 1, place |-> j]
      BY <1>1, <2>1, InFront
    <3>2. 1 \in 1 .. DTXHeaderLength /\ cursor + 1 <= Len(buffer)
      BY <1>0, <1>1
    <3>3. buffer[cursor + 1] = [fragment |-> h, place |-> 1]
      BY <3>1, <3>2, <2>2
    <3> QED
      BY <3>3, <1>7
  <2>4. PICK f, e : f = fragments[h] /\ e = WithEntryOf(f, manager)
    OBVIOUS
  <2>5. RestAt(at) = BodyOf(h) \o Ahead(h)
    BY <1>1, <1>7, <2>1, <2>2, InFront
  <2>6. h # 0 /\ h - 1 = header /\ h \in 0 .. Len(fragments)
    BY <1>0, <2>2
  <2>7. PutTogether(h - 1, manager, pushed)
    BY <2>1, <2>6 DEF AtFragment
  <2>8. HasEntry(h, manager, e)
    BY <1>0, <2>2, <2>4, <2>7, EntryOf
  <2>9. CASE Continues(f)
    <3>1. cursor' = at /\ manager' = e /\ busy' = busy /\ pushed' = pushed
      BY <1>7, <2>2, <2>3, <2>4, <2>9
    <3>2. BodyOf(h) \in Seq(DTXBytes) /\ Ahead(h) \in Seq(DTXBytes) /\ Len(BodyOf(h)) = 0
      BY <1>0, <2>2, <2>4, <2>6, <2>8, <2>9, BytesOfFragment, AheadStep DEF HasEntry
    <3>3. BodyOf(h) = <<>>
      BY <3>2, EmptySeq
    <3>4. RestAt(at) = Ahead(h)
      BY <3>2, <3>3, <2>5
    <3>5. PICK s : s = pushed /\ s \in Seq(Seq(DTXBytes)) /\ PutTogether(h - 1, manager, s)
      BY <1>0, <2>7
    <3>6. PutTogether(h, e, s)
      BY <1>0, <2>2, <2>4, <2>9, <3>5, FragmentTaken
    <3>7. ReadyForHeader(h, e, s, at)
      BY <3>4, <3>6 DEF ReadyForHeader
    <3>8. ReadyForHeader(h, e, s, at)'
      BY <3>7, <1>0, <1>1, <2>2, <2>6, ReadyKept
    <3>9. DecoderTypes'
      BY <1>0, <1>1, <2>2, <2>3, <2>6, <3>1, ReadingKeeps
    <3>10. AtFragment'
      BY <1>1, <2>3, <3>1, <3>5, <3>8 DEF AtFragment, ReadyForHeader, Rest, Lacks
    <3> QED
      BY <3>9, <3>10 DEF DecoderInv
  <2>10. CASE ~Continues(f)
    <3>1. Body(at, e, f)
      BY <1>7, <2>2, <2>3, <2>4, <2>10
    <3>2. HasBody(f)
      BY <2>4, <2>8, <2>10 DEF HasEntry
    <3>3. ReadyForBody(h, e, pushed, at)
      BY <3>2, <2>4, <2>5, <2>6, <2>7 DEF ReadyForBody
    <3> QED
      BY <1>0, <1>1, <2>2, <2>3, <2>4, <3>1, <3>3, BodyTaken
  <2> QED
    BY <2>9, <2>10
<1>8. CASE /\ Has(cursor + MagicLength) /\ ~AtMagic
           /\ Body(cursor, manager, fragments[header])
           /\ UNCHANGED header
  <2>1. AtBody
    BY <1>4, <1>8 DEF DecoderInv
  <2>2. PICK h : h = header /\ h \in 1 .. Len(fragments)
    BY <1>0, <2>1 DEF AtBody
  <2>3. ReadyForBody(h, manager, pushed, cursor)
    BY <2>1, <2>2, InFront
  <2>4. PICK f, e, at : f = fragments[h] /\ e = manager /\ at = cursor /\ at \in 0 .. Len(buffer)
    BY <1>0
  <2>5. Body(at, e, f) /\ ReadyForBody(h, e, pushed, at) /\ header' = h
    BY <1>8, <2>2, <2>3, <2>4
  <2> QED
    BY <1>0, <1>1, <2>2, <2>4, <2>5, BodyTaken
<1> QED
  BY <1>5, <1>6, <1>7, <1>8 DEF Pass

\* The buffer is used up.
LEMMA DecoderLoopEnds ==
  ASSUME DecoderInv, LoopEnds
  PROVE  DecoderInv'
<1>0. /\ DecoderTypes /\ cursor \in 0 .. Len(buffer) /\ Len(buffer) \in Nat /\ buffer \in Seq(DTXBytes)
      /\ incoming \in Seq(DTXBytes) /\ Len(fragments) \in Nat
  BY DEF DecoderInv, DecoderTypes
<1>1. /\ cursor = Len(buffer) /\ cursor' = 0 /\ buffer' = <<>> /\ busy' = FALSE
      /\ fragments' = fragments /\ incoming' = incoming /\ header' = header /\ manager' = manager /\ pushed' = pushed
  BY <1>0 DEF LoopEnds
<1>2. Len(buffer') = 0
  BY <1>1
<1>3. Rest' = Rest
  <2>1. PICK l \in Nat : l = Len(buffer)
    BY <1>0
  <2>2. SubSeq(buffer, l + 1, l) = <<>>
    BY <2>1, SubSeqEmpty
  <2>3. SubSeq(<<>>, 0 + 1, 0) = <<>>
    BY SubSeqEmpty
  <2> QED
    BY <1>1, <1>2, <2>1, <2>2, <2>3 DEF Rest, RestAt
<1>4. DecoderTypes'
  <2>1. fragments' = fragments /\ \A f \in 1 .. Len(fragments) : Legal(f)
    BY <1>0, <1>1 DEF DecoderTypes
  <2>2. \A f : Legal(f)' <=> Legal(f)
    BY <2>1 DEF Legal, NoneSince, IsLast
  <2>3. (\A f \in 1 .. Len(fragments) : Legal(f))'
    BY <2>1, <2>2
  <2>4. buffer' \in Seq(DTXBytes) /\ cursor' \in 0 .. Len(buffer') /\ busy' \in BOOLEAN
    <3>1. 0 \in 0 .. 0 /\ <<>> \in Seq(DTXBytes)
      OBVIOUS
    <3> QED
      BY <1>1, <1>2, <3>1
  <2> QED
    BY <1>0, <1>1, <2>3, <2>4 DEF DecoderTypes
<1>5. PICK h, e, s : h = header /\ e = manager /\ s = pushed /\ h \in 0 .. Len(fragments) /\ h \in Nat
  BY <1>0 DEF DecoderTypes
<1>6. Ahead(h)' = Ahead(h) /\ BodyOf(h)' = BodyOf(h)
  BY <1>1 DEF Ahead, Wires, Behind, BytesOf, HasBody, BodyOf
<1>7. UNCHANGED fragments
  BY <1>1
<1>8. CASE AtFragment
  <2>1. Rest = Ahead(h) /\ PutTogether(h, e, s)
    BY <1>5, <1>8 DEF AtFragment
  <2>2. PutTogether(h, e, s)'
    BY <2>1, <1>0, <1>5, <1>7, AssembledKept
  <2>3. Lacks(DTXHeaderLength)'
    BY <1>1, <1>2, DTXDecoderAssumption DEF Lacks
  <2>4. AtFragment'
    BY <2>1, <2>2, <2>3, <1>1, <1>3, <1>5, <1>6 DEF AtFragment
  <2> QED
    BY <2>4, <1>4 DEF DecoderInv
<1>9. CASE AtBody
  <2>1. /\ h # 0 /\ HasBody(fragments[h]) /\ fragments[h].payloadLength # 0 /\ Rest = BodyOf(h) \o Ahead(h)
    BY <1>5, <1>9 DEF AtBody
  <2>2. PICK entries : PutTogether(h - 1, entries, s) /\ e = WithEntryOf(fragments[h], entries)
    BY <1>5, <1>9 DEF AtBody
  <2>3. PICK k : k = h - 1 /\ k \in 0 .. Len(fragments)
    BY <1>0, <1>5, <2>1
  <2>4. PutTogether(k, entries, s)'
    BY <2>2, <2>3, <1>0, <1>7, AssembledKept
  <2>5. fragments[h].payloadLength \in Nat
    <3>1. Legal(h)
      BY <1>0, <1>5, <2>1 DEF DecoderTypes
    <3> QED
      BY <3>1 DEF Legal
  <2>6. Lacks(fragments[header].payloadLength)'
    BY <1>1, <1>2, <1>5, <2>1, <2>5 DEF Lacks
  <2>7. (\E f : /\ PutTogether(header - 1, f, pushed)
                /\ manager = WithEntryOf(fragments[header], f))'
    <3>1. WithEntryOf(fragments[h], entries)' = WithEntryOf(fragments[h], entries)
      BY <1>1 DEF WithEntryOf
    <3>2. PutTogether(header - 1, entries, pushed)'
      BY <2>3, <2>4, <1>1, <1>5
    <3>3. (manager = WithEntryOf(fragments[header], entries))'
      BY <3>1, <2>2, <1>1, <1>5
    <3> QED
      BY <3>2, <3>3
  <2>8. HasBody(fragments[h])'
    BY <2>1, <1>1 DEF HasBody
  <2>9. AtBody'
    BY <2>1, <2>6, <2>7, <2>8, <1>1, <1>3, <1>5, <1>6 DEF AtBody
  <2> QED
    BY <2>9, <1>4 DEF DecoderInv
<1> QED
  BY <1>8, <1>9 DEF DecoderInv

\* A chunk arrives behind what is left of the buffer.
LEMMA DecoderReceives ==
  ASSUME DecoderInv, NEW n \in 1 .. Len(incoming), ChunkArrives(n)
  PROVE  DecoderInv'
<1>0. /\ DecoderTypes /\ cursor \in 0 .. Len(buffer) /\ Len(buffer) \in Nat /\ buffer \in Seq(DTXBytes)
      /\ incoming \in Seq(DTXBytes) /\ Len(incoming) \in Nat /\ Len(fragments) \in Nat /\ cursor \in Nat
  BY DEF DecoderInv, DecoderTypes
<1>1. PICK a, b, c : /\ a = SubSeq(buffer, cursor + 1, Len(buffer)) /\ b = SubSeq(incoming, 1, n)
                     /\ c = SubSeq(incoming, n + 1, Len(incoming))
  OBVIOUS
<1>2. a \in Seq(DTXBytes)
  <2>1. PICK m : m = Len(buffer) - cursor /\ cursor + m = Len(buffer) /\ m \in Nat
    <3>1. Len(buffer) - cursor \in Nat /\ cursor + (Len(buffer) - cursor) = Len(buffer)
      BY <1>0
    <3> QED
      BY <3>1
  <2>2. Within(DTXBytes, buffer, cursor, m)
    BY <1>0, <2>1 DEF Within
  <2>3. Part(DTXBytes, buffer, cursor, m, SubSeq(buffer, cursor + 1, cursor + m))
    BY <2>2, PartOf
  <2> QED
    BY <1>1, <2>1, <2>3 DEF Part
<1>3. b \in Seq(DTXBytes) /\ c \in Seq(DTXBytes) /\ incoming = b \o c
  <2>1. PICK q, o : q = Len(incoming) /\ q \in Nat /\ o \in Nat /\ n + o = q
    <3>1. Len(incoming) - n \in Nat /\ n + (Len(incoming) - n) = Len(incoming)
      BY <1>0
    <3> QED
      BY <3>1, <1>0
  <2>2. b \in Seq(DTXBytes) /\ Len(b) = n /\ \A j \in 1 .. n : b[j] = incoming[j]
    <3>1. Within(DTXBytes, incoming, 0, n)
      BY <1>0 DEF Within
    <3>2. PICK w : w = SubSeq(incoming, 0 + 1, 0 + n) /\ Part(DTXBytes, incoming, 0, n, w)
      BY <3>1, PartOf
    <3>3. 0 + 1 = 1 /\ 0 + n = n /\ \A j \in 1 .. n : 0 + j = j
      OBVIOUS
    <3> QED
      BY <1>1, <3>2, <3>3 DEF Part
  <2>3. c \in Seq(DTXBytes) /\ Len(c) = o /\ \A j \in 1 .. o : c[j] = incoming[n + j]
    <3>1. Within(DTXBytes, incoming, n, o)
      BY <1>0, <2>1 DEF Within
    <3>2. PICK w : w = SubSeq(incoming, n + 1, n + o) /\ Part(DTXBytes, incoming, n, o, w)
      BY <3>1, PartOf
    <3> QED
      BY <1>1, <2>1, <3>2 DEF Part
  <2>4. PICK w : w = b \o c
    OBVIOUS
  <2>5. Chained(b, c, n, o, w) /\ w \in Seq(DTXBytes)
    <3>1. Measured(DTXBytes, b, c, n, o)
      BY <2>2, <2>3 DEF Measured
    <3> QED
      BY <2>4, <3>1, Concatenated
  <2>6. ASSUME NEW i \in 1 .. q PROVE w[i] = incoming[i]
    <3>1. CASE i <= n
      <4>1. i \in 1 .. n
        BY <3>1
      <4> QED
        BY <4>1, <2>2, <2>5 DEF Chained
    <3>2. CASE ~(i <= n)
      <4>1. PICK j : j \in 1 .. o /\ i = n + j
        <5>1. i - n \in 1 .. o /\ i = n + (i - n)
          BY <3>2, <2>1
        <5> QED
          BY <5>1
      <4> QED
        BY <4>1, <2>3, <2>5 DEF Chained
    <3> QED
      BY <3>1, <3>2
  <2>7. w = incoming
    BY <1>0, <2>1, <2>5, <2>6, SeqEqual DEF Chained
  <2> QED
    BY <2>2, <2>3, <2>4, <2>7
<1>4. /\ buffer' = a \o b /\ incoming' = c /\ cursor' = 0 /\ busy' = TRUE
      /\ fragments' = fragments /\ header' = header /\ manager' = manager /\ pushed' = pushed
  BY <1>1 DEF ChunkArrives
<1>5. PICK x : x = a \o b /\ x \in Seq(DTXBytes) /\ Len(x) \in Nat
  <2>1. a \in Seq(DTXBytes) /\ b \in Seq(DTXBytes)
    BY <1>2, <1>3
  <2>2. PICK x : x = a \o b /\ x \in Seq(DTXBytes)
    BY <2>1, ConcatProperties
  <2>3. Len(x) \in Nat
    BY <2>2, LenProperties
  <2> QED
    BY <2>2, <2>3
<1>6. Rest' = Rest
  <2>1. Rest = a \o incoming
    BY <1>1 DEF Rest, RestAt
  <2>2. SubSeq(x, 1, Len(x)) = x
    BY <1>5
  <2>3. 0 + 1 = 1
    OBVIOUS
  <2>4. Rest' = x \o c
    BY <1>4, <1>5, <2>2, <2>3 DEF Rest, RestAt
  <2>5. PICK z : z = x \o c
    OBVIOUS
  <2>6. Grouped(DTXBytes, a, b, c, x, incoming, z)
    BY <1>2, <1>3, <1>5, <2>5 DEF Grouped
  <2>7. z = a \o incoming
    BY <2>6, Regrouped
  <2> QED
    BY <2>1, <2>4, <2>5, <2>7
<1>7. DecoderTypes'
  <2>1. fragments' = fragments /\ \A f \in 1 .. Len(fragments) : Legal(f)
    BY <1>0, <1>4 DEF DecoderTypes
  <2>2. \A f : Legal(f)' <=> Legal(f)
    BY <2>1 DEF Legal, NoneSince, IsLast
  <2>3. (\A f \in 1 .. Len(fragments) : Legal(f))'
    BY <2>1, <2>2
  <2>4. 0 \in 0 .. Len(x)
    BY <1>5
  <2> QED
    BY <1>0, <1>3, <1>4, <1>5, <2>3, <2>4 DEF DecoderTypes
<1>8. PICK h, e, s : h = header /\ e = manager /\ s = pushed /\ h \in 0 .. Len(fragments) /\ h \in Nat
  BY <1>0 DEF DecoderTypes
<1>9. Ahead(h)' = Ahead(h) /\ BodyOf(h)' = BodyOf(h)
  BY <1>4 DEF Ahead, Wires, Behind, BytesOf, HasBody, BodyOf
<1>10. UNCHANGED fragments
  BY <1>4
<1>12. CASE AtFragment
  <2>1. Rest = Ahead(h) /\ PutTogether(h, e, s)
    BY <1>8, <1>12 DEF AtFragment
  <2>2. PutTogether(h, e, s)'
    BY <2>1, <1>0, <1>8, <1>10, AssembledKept
  <2>3. Lacks(DTXHeaderLength)'
    BY <1>4 DEF Lacks
  <2>4. AtFragment'
    BY <2>1, <2>2, <2>3, <1>4, <1>6, <1>8, <1>9 DEF AtFragment
  <2> QED
    BY <2>4, <1>7 DEF DecoderInv
<1>13. CASE AtBody
  <2>1. /\ h # 0 /\ HasBody(fragments[h]) /\ fragments[h].payloadLength # 0 /\ Rest = BodyOf(h) \o Ahead(h)
    BY <1>8, <1>13 DEF AtBody
  <2>2. PICK entries : PutTogether(h - 1, entries, s) /\ e = WithEntryOf(fragments[h], entries)
    BY <1>8, <1>13 DEF AtBody
  <2>3. PICK k : k = h - 1 /\ k \in 0 .. Len(fragments)
    BY <1>0, <1>8, <2>1
  <2>4. PutTogether(k, entries, s)'
    BY <2>2, <2>3, <1>0, <1>10, AssembledKept
  <2>5. Lacks(fragments[header].payloadLength)'
    BY <1>4 DEF Lacks
  <2>6. (\E f : /\ PutTogether(header - 1, f, pushed)
                /\ manager = WithEntryOf(fragments[header], f))'
    <3>1. WithEntryOf(fragments[h], entries)' = WithEntryOf(fragments[h], entries)
      BY <1>4 DEF WithEntryOf
    <3>2. PutTogether(header - 1, entries, pushed)'
      BY <2>3, <2>4, <1>4, <1>8
    <3>3. (manager = WithEntryOf(fragments[header], entries))'
      BY <3>1, <2>2, <1>4, <1>8
    <3> QED
      BY <3>2, <3>3
  <2>7. HasBody(fragments[h])'
    BY <2>1, <1>4 DEF HasBody
  <2>8. AtBody'
    BY <2>1, <2>5, <2>6, <2>7, <1>4, <1>6, <1>8, <1>9 DEF AtBody
  <2> QED
    BY <2>8, <1>7 DEF DecoderInv
<1> QED
  BY <1>12, <1>13 DEF DecoderInv

\* The device goes on with the message of a channel, or begins one.
LEMMA DeviceSendsLegal ==
  ASSUME DecoderTypes, NEW c \in Channels, NEW n \in 1 .. MaxCount, NEW l \in BodyLengths, NEW u \in BOOLEAN,
         DeviceSends(c, n, l, u)
  PROVE  \E F : /\ F \in [channel : Channels, payloadLength : Nat, parses : BOOLEAN, fragmentId : Nat, fragmentCount : Nat]
                /\ fragments' = Append(fragments, F)
                /\ incoming' = incoming \o BytesOf(Len(fragments) + 1, F)
                /\ \A f \in 1 .. Len(fragments) + 1 : Legal(f)'
<1> DEFINE open == {f \in Latest(c) : ~IsLast(fragments[f])}
           previous == fragments[CHOOSE f \in open : TRUE]
           F == [channel |-> c, payloadLength |-> l, parses |-> u,
                 fragmentId |-> IF open = {} THEN 0 ELSE previous.fragmentId + 1,
                 fragmentCount |-> IF open = {} THEN n ELSE previous.fragmentCount]
           Fragment == [channel : Channels, payloadLength : Nat, parses : BOOLEAN, fragmentId : Nat, fragmentCount : Nat]
<1>0. /\ Len(fragments) \in Nat /\ DOMAIN fragments = 1 .. Len(fragments) /\ fragments \in Seq(Fragment)
      /\ l \in Nat /\ n \in Nat /\ 0 < n
  BY DTXDecoderAssumption DEF DecoderTypes
<1>1. fragments' = Append(fragments, F) /\ incoming' = incoming \o BytesOf(Len(fragments) + 1, F)
  BY DEF DeviceSends
<1>2. PICK N \in Nat : N = Len(fragments)
  BY <1>0
<1>3. \A f \in Latest(c) : /\ f \in 1 .. N /\ fragments[f].channel = c /\ NoneSince(f, N)
  BY <1>0, <1>2 DEF Latest, NoneSince
<1>4. \A f \in 1 .. N : fragments[f].channel = c /\ NoneSince(f, N) => f \in Latest(c)
  BY <1>0, <1>2 DEF Latest, NoneSince
<1>5. \A f \in 1 .. N : /\ fragments[f].fragmentId \in Nat /\ fragments[f].fragmentCount \in Nat
                        /\ fragments[f].fragmentId < fragments[f].fragmentCount
  BY <1>2 DEF DecoderTypes, Legal
<1>6. \/ open = {} /\ F = [channel |-> c, payloadLength |-> l, parses |-> u, fragmentId |-> 0, fragmentCount |-> n]
      \/ \E p \in open : F = [channel |-> c, payloadLength |-> l, parses |-> u, fragmentId |-> fragments[p].fragmentId + 1,
                              fragmentCount |-> fragments[p].fragmentCount]
  <2>1. CASE open = {}
    BY <2>1
  <2>2. CASE open # {}
    <3>1. PICK p : p = (CHOOSE f \in open : TRUE) /\ p \in open
      BY <2>2
    <3>2. previous = fragments[p]
      BY <3>1
    <3>3. F = [channel |-> c, payloadLength |-> l, parses |-> u, fragmentId |-> previous.fragmentId + 1,
               fragmentCount |-> previous.fragmentCount]
      BY <2>2
    <3> HIDE DEF F, previous, open
    <3> QED
      BY <3>1, <3>2, <3>3
  <2> QED
    BY <2>1, <2>2
<1> HIDE DEF F, previous
<1>7. F \in Fragment /\ F.fragmentId < F.fragmentCount /\ F.channel = c
  <2>1. CASE open = {} /\ F = [channel |-> c, payloadLength |-> l, parses |-> u, fragmentId |-> 0, fragmentCount |-> n]
    BY <1>0, <2>1
  <2>2. ASSUME NEW p \in open, F = [channel |-> c, payloadLength |-> l, parses |-> u, fragmentId |-> fragments[p].fragmentId + 1,
                                    fragmentCount |-> fragments[p].fragmentCount]
        PROVE  F \in Fragment /\ F.fragmentId < F.fragmentCount /\ F.channel = c
    <3>1. PICK a \in Nat, b \in Nat : a = fragments[p].fragmentId /\ b = fragments[p].fragmentCount /\ a < b /\ a # b - 1
      BY <1>3, <1>5 DEF IsLast
    <3>2. a + 1 < b /\ a + 1 \in Nat
      BY <3>1
    <3>3. F = [channel |-> c, payloadLength |-> l, parses |-> u, fragmentId |-> a + 1, fragmentCount |-> b]
      BY <2>2, <3>1
    <3> QED
      BY <3>2, <3>3, <1>0
  <2> QED
    BY <1>6, <2>1, <2>2
<1>8. /\ Len(fragments') = N + 1 /\ fragments'[N + 1] = F
      /\ \A g \in 1 .. N : fragments'[g] = fragments[g]
  BY <1>0, <1>1, <1>2, <1>7, AppendProperties
<1>9. ASSUME NEW f \in 1 .. N PROVE Legal(f)'
  <2>1. Legal(f)
    BY <1>2 DEF DecoderTypes
  <2>2. \A p \in 1 .. f - 1 : p \in 1 .. N /\ \A g \in p + 1 .. f - 1 : g \in 1 .. N
    BY <1>2
  <2>3. \A p \in 1 .. f - 1 : NoneSince(p, f - 1)' <=> NoneSince(p, f - 1)
    BY <2>2, <1>8 DEF NoneSince
  <2>4. \A p \in 1 .. N : IsLast(fragments[p])' <=> IsLast(fragments[p])
    BY <1>8 DEF IsLast
  <2> QED
    BY <2>1, <2>2, <2>3, <2>4, <1>8 DEF Legal
<1>10. Legal(N + 1)'
  <2>0. /\ (N + 1) - 1 = N
        /\ \A p \in 1 .. N : \A g \in p + 1 .. N : g \in 1 .. N
    BY <1>2
  <2>1. \A p \in 1 .. N : NoneSince(p, N)' <=> NoneSince(p, N)
    BY <2>0, <1>8 DEF NoneSince
  <2>2. PICK k : k = N + 1 /\ k - 1 = N /\ fragments'[k] = F
    BY <2>0, <1>8
  <2>3. \A p \in 1 .. N : IsLast(fragments'[p]) <=> IsLast(fragments[p])
    BY <1>8
  <2>4. CASE open = {} /\ F = [channel |-> c, payloadLength |-> l, parses |-> u, fragmentId |-> 0, fragmentCount |-> n]
    <3>1. ASSUME NEW p \in 1 .. N, fragments'[p].channel = c, NoneSince(p, N)' PROVE IsLast(fragments'[p])
      <4>1. p \in Latest(c)
        BY <3>1, <2>1, <1>4, <1>8
      <4> QED
        BY <4>1, <2>3, <2>4
    <3>2. F.fragmentId = 0
      BY <2>4
    <3>3. Legal(k)'
      BY <3>1, <3>2, <2>2, <1>7 DEF Legal
    <3> QED
      BY <3>3, <2>2
  <2>5. ASSUME NEW p \in open, F = [channel |-> c, payloadLength |-> l, parses |-> u, fragmentId |-> fragments[p].fragmentId + 1,
                                    fragmentCount |-> fragments[p].fragmentCount]
        PROVE  Legal(N + 1)'
    <3>1. /\ p \in 1 .. N /\ fragments[p].channel = c /\ NoneSince(p, N)' /\ fragments'[p] = fragments[p]
          /\ fragments[p].fragmentId \in Nat
      BY <1>3, <1>5, <1>8, <2>1
    <3>2. F.fragmentId = fragments'[p].fragmentId + 1 /\ F.fragmentCount = fragments'[p].fragmentCount /\ F.fragmentId # 0
      <4>1. PICK a, b : a \in Nat /\ a = fragments[p].fragmentId /\ b = fragments[p].fragmentCount
        BY <3>1
      <4>2. F = [channel |-> c, payloadLength |-> l, parses |-> u, fragmentId |-> a + 1, fragmentCount |-> b] /\ a + 1 # 0
        BY <2>5, <4>1
      <4> QED
        BY <3>1, <4>1, <4>2
    <3>3. Legal(k)'
      <4>1. fragments'[k] = F /\ F \in Fragment /\ F.fragmentId < F.fragmentCount /\ F.channel = c
        BY <2>2, <1>7
      <4>2. \E q \in 1 .. k - 1 : /\ fragments'[q].channel = F.channel /\ NoneSince(q, k - 1)'
                                   /\ F.fragmentId = fragments'[q].fragmentId + 1
                                   /\ F.fragmentCount = fragments'[q].fragmentCount
        BY <2>2, <3>1, <3>2, <1>7
      <4> QED
        BY <4>1, <4>2, <3>2 DEF Legal
    <3> QED
      BY <3>3, <2>2
  <2> QED
    BY <1>6, <2>4, <2>5
<1>11. \A f \in 1 .. Len(fragments) + 1 : f \in 1 .. N \/ f = N + 1
  BY <1>2
<1>12. \A f \in 1 .. Len(fragments) + 1 : Legal(f)'
  BY <1>9, <1>10, <1>11
<1> QED
  BY <1>1, <1>7, <1>12

\* One more.
LEMMA OneMore ==
  ASSUME NEW h \in Nat, NEW d \in Nat
  PROVE  /\ d + 1 \in Nat /\ h + (d + 1) = (h + d) + 1
         /\ \A j \in 1 .. d + 1 : j \in 1 .. d \/ j = d + 1
OBVIOUS

\* A fragment that is sent comes behind all others.
LEMMA AheadGrows ==
  ASSUME DecoderTypes, NEW h \in 0 .. Len(fragments), NEW F,
         F \in [channel : Channels, payloadLength : Nat, parses : BOOLEAN, fragmentId : Nat, fragmentCount : Nat],
         fragments' = Append(fragments, F), NEW B, B = BytesOf(Len(fragments) + 1, F)
  PROVE  Ahead(h)' = Ahead(h) \o B /\ B \in Seq(DTXBytes) /\ Ahead(h) \in Seq(DTXBytes)
<1>0. PICK n \in Nat : n = Len(fragments) /\ h \in 0 .. n /\ h \in Nat
  BY DEF DecoderTypes
<1>1. /\ Len(fragments') = n + 1 /\ fragments'[n + 1] = F
      /\ \A f \in 1 .. n : fragments'[f] = fragments[f]
  BY <1>0, AppendProperties DEF DecoderTypes
<1>2. Wires \in Seq(Seq(DTXBytes)) /\ Len(Wires) = n /\ Ahead(h) \in Seq(DTXBytes)
  BY <1>0, AheadStep
<1>3. B \in Seq(DTXBytes)
  <2>1. PICK l \in Nat : l = DTXHeaderLength + (IF HasBody(F) THEN F.payloadLength ELSE 0)
    BY DTXDecoderAssumption
  <2>2. B = [j \in 1 .. l |-> [fragment |-> n + 1, place |-> j]]
    BY <1>0, <2>1 DEF BytesOf
  <2>3. \A j \in 1 .. l : [fragment |-> n + 1, place |-> j] \in DTXBytes
    BY DEF DTXBytes
  <2>4. B \in [1 .. l -> DTXBytes]
    BY <2>2, <2>3
  <2> QED
    BY <2>4
<1>4. PICK w : w = Wires'
  OBVIOUS
<1>5. PICK v : v = Wires
  OBVIOUS
<1>6. \A f \in 1 .. n : v[f] = BytesOf(f, fragments[f])
  BY <1>0, <1>5 DEF Wires
<1>7. w = [f \in 1 .. n + 1 |-> BytesOf(f, fragments'[f])]
  BY <1>1, <1>4 DEF Wires, BytesOf, HasBody
<1>8. w \in Seq(Seq(DTXBytes)) /\ Len(w) = n + 1 /\ w[n + 1] = B /\ \A f \in 1 .. n : w[f] = v[f]
  <2>1. \A f \in 1 .. n + 1 : f \in 1 .. n \/ f = n + 1
    OBVIOUS
  <2>2. \A f \in 1 .. n : w[f] = v[f] /\ v[f] \in Seq(DTXBytes)
    BY <1>1, <1>2, <1>5, <1>6, <1>7
  <2>3. w[n + 1] = B
    BY <1>0, <1>1, <1>7
  <2>4. \A f \in 1 .. n + 1 : w[f] \in Seq(DTXBytes)
    BY <2>1, <2>2, <2>3, <1>3
  <2>5. w \in [1 .. n + 1 -> Seq(DTXBytes)]
    BY <1>7, <2>4
  <2> QED
    BY <2>2, <2>3, <2>5
<1>9. PICK s, t, d : s = SubSeq(v, h + 1, n) /\ t = SubSeq(w, h + 1, n + 1) /\ d \in Nat /\ h + d = n
                      /\ d + 1 \in Nat /\ h + (d + 1) = n + 1
                      /\ \A j \in 1 .. d + 1 : j \in 1 .. d \/ j = d + 1
  <2>1. PICK d \in Nat : h + d = n
    <3>1. n - h \in Nat /\ h + (n - h) = n
      BY <1>0
    <3> QED
      BY <3>1
  <2>2. d + 1 \in Nat /\ h + (d + 1) = n + 1 /\ \A j \in 1 .. d + 1 : j \in 1 .. d \/ j = d + 1
    BY <1>0, <2>1, OneMore
  <2> QED
    BY <2>1, <2>2
<1>10. s \in Seq(Seq(DTXBytes)) /\ Len(s) = d /\ \A j \in 1 .. d : s[j] = v[h + j]
  <2>1. Within(Seq(DTXBytes), v, h, d)
    BY <1>0, <1>2, <1>5, <1>9 DEF Within
  <2>2. Part(Seq(DTXBytes), v, h, d, SubSeq(v, h + 1, h + d))
    BY <2>1, PartOf
  <2> QED
    BY <2>2, <1>9 DEF Part
<1>11. t \in Seq(Seq(DTXBytes)) /\ Len(t) = d + 1 /\ \A j \in 1 .. d + 1 : t[j] = w[h + j]
  <2>1. PICK q : q = d + 1 /\ q \in Nat /\ h + q = n + 1
    BY <1>9
  <2>2. Within(Seq(DTXBytes), w, h, q)
    BY <1>0, <1>8, <2>1 DEF Within
  <2>3. Part(Seq(DTXBytes), w, h, q, SubSeq(w, h + 1, h + q))
    BY <2>2, PartOf
  <2> QED
    BY <2>1, <2>3, <1>9 DEF Part
<1>12. t = Append(s, B)
  <2>1. PICK u : u = Append(s, B)
    OBVIOUS
  <2>2. u \in Seq(Seq(DTXBytes)) /\ Len(u) = d + 1 /\ u[d + 1] = B /\ \A j \in 1 .. d : u[j] = s[j]
    BY <2>1, <1>3, <1>10, AppendProperties
  <2>3. ASSUME NEW j \in 1 .. d + 1 PROVE t[j] = u[j]
    <3>1. CASE j \in 1 .. d
      <4>1. h + j \in 1 .. n
        BY <3>1, <1>0, <1>9
      <4> QED
        BY <3>1, <4>1, <2>2, <1>8, <1>10, <1>11
    <3>2. CASE j = d + 1
      <4>1. h + j = n + 1
        BY <3>2, <1>9
      <4> QED
        BY <3>2, <4>1, <2>2, <1>8, <1>11
    <3> QED
      BY <3>1, <3>2, <1>9
  <2> QED
    BY <2>1, <2>2, <2>3, <1>11, SeqEqual
<1>13. FlattenSeq(t) = FlattenSeq(s) \o B
  BY <1>3, <1>10, <1>12, FlattenAppend
<1>14. Ahead(h) = FlattenSeq(s)
  BY <1>0, <1>5, <1>9 DEF Ahead, Behind
<1>15. Ahead(h)' = FlattenSeq(t)
  BY <1>1, <1>4, <1>9 DEF Ahead, Behind
<1> QED
  BY <1>2, <1>3, <1>13, <1>14, <1>15

\* What is sent comes behind all that has not been used.
LEMMA DecoderSends ==
  ASSUME DecoderInv, NEW c \in Channels, NEW n \in 1 .. MaxCount, NEW l \in BodyLengths, NEW u \in BOOLEAN,
         DeviceSends(c, n, l, u)
  PROVE  DecoderInv'
<1>0. /\ DecoderTypes /\ cursor \in 0 .. Len(buffer) /\ Len(buffer) \in Nat /\ buffer \in Seq(DTXBytes)
      /\ incoming \in Seq(DTXBytes) /\ Len(fragments) \in Nat /\ DOMAIN fragments = 1 .. Len(fragments)
  BY DEF DecoderInv, DecoderTypes
<1>1. PICK F : /\ F \in [channel : Channels, payloadLength : Nat, parses : BOOLEAN, fragmentId : Nat, fragmentCount : Nat]
               /\ fragments' = Append(fragments, F)
               /\ incoming' = incoming \o BytesOf(Len(fragments) + 1, F)
               /\ \A f \in 1 .. Len(fragments) + 1 : Legal(f)'
  BY <1>0, DeviceSendsLegal
<1>2. PICK B : B = BytesOf(Len(fragments) + 1, F)
  OBVIOUS
<1>3. PICK h, e, s : h = header /\ e = manager /\ s = pushed /\ h \in 0 .. Len(fragments) /\ h \in Nat
  BY <1>0 DEF DecoderTypes
<1>4. UNCHANGED <<buffer, cursor, header, manager, busy, pushed>>
  BY DEF DeviceSends
<1>5. PICK N \in Nat : N = Len(fragments)
  BY <1>0
<1>6. /\ Len(fragments') = N + 1 /\ DOMAIN fragments' = 1 .. N + 1
      /\ fragments' \in Seq([channel : Channels, payloadLength : Nat, parses : BOOLEAN, fragmentId : Nat, fragmentCount : Nat])
      /\ \A f \in 1 .. N : fragments'[f] = fragments[f]
  BY <1>1, <1>5, AppendProperties DEF DecoderInv, DecoderTypes
<1>7. Ahead(h)' = Ahead(h) \o B /\ B \in Seq(DTXBytes) /\ Ahead(h) \in Seq(DTXBytes)
  BY <1>0, <1>1, <1>2, <1>3, AheadGrows
<1>8. PICK a : a = SubSeq(buffer, cursor + 1, Len(buffer)) /\ a \in Seq(DTXBytes)
  <2>1. PICK m : m = Len(buffer) - cursor /\ cursor + m = Len(buffer) /\ m \in Nat /\ cursor \in Nat
    <3>1. Len(buffer) - cursor \in Nat /\ cursor + (Len(buffer) - cursor) = Len(buffer)
      BY <1>0
    <3> QED
      BY <3>1, <1>0
  <2>2. Within(DTXBytes, buffer, cursor, m)
    BY <1>0, <2>1 DEF Within
  <2>3. Part(DTXBytes, buffer, cursor, m, SubSeq(buffer, cursor + 1, cursor + m))
    BY <2>2, PartOf
  <2> QED
    BY <2>1, <2>3 DEF Part
<1>9. PICK x : x = Rest /\ x \in Seq(DTXBytes) /\ Rest' = x \o B
  <2>1. Rest = a \o incoming
    BY <1>8 DEF Rest, RestAt
  <2>2. a \o incoming \in Seq(DTXBytes)
    BY <1>0, <1>8, ConcatProperties
  <2>3. PICK x, y : x = a \o incoming /\ y = incoming \o B
    OBVIOUS
  <2>4. PICK z : z = x \o B
    OBVIOUS
  <2>5. Grouped(DTXBytes, a, incoming, B, x, y, z)
    BY <1>0, <1>7, <1>8, <2>3, <2>4 DEF Grouped
  <2>6. z = a \o y
    BY <2>5, Regrouped
  <2>7. Rest' = a \o y
    BY <1>1, <1>2, <1>4, <1>8, <2>3 DEF Rest, RestAt
  <2> QED
    BY <2>1, <2>2, <2>3, <2>4, <2>6, <2>7
<1>10. DecoderTypes'
  <2>1. (\A f \in 1 .. Len(fragments) : Legal(f))'
    BY <1>1, <1>5, <1>6
  <2>2. header' \in 0 .. Len(fragments')
    <3>1. h \in 0 .. N + 1
      BY <1>3, <1>5
    <3> QED
      BY <3>1, <1>3, <1>4, <1>6
  <2>3. incoming' \in Seq(DTXBytes)
    BY <1>0, <1>1, <1>2, <1>7, ConcatProperties
  <2> QED
    BY <1>0, <1>4, <1>6, <2>1, <2>2, <2>3 DEF DecoderTypes
<1>11. ASSUME NEW k \in 0 .. Len(fragments), NEW f, PutTogether(k, f, s) PROVE PutTogether(k, f, s)'
  <2>1. Len(fragments') \in Nat /\ DOMAIN fragments' = 1 .. Len(fragments') /\ Len(fragments) <= Len(fragments')
    BY <1>5, <1>6
  <2> QED
    BY <1>0, <1>5, <1>6, <1>11, <2>1, AssembledLasts
<1>12. CASE AtFragment
  <2>1. x = Ahead(h) /\ PutTogether(h, e, s)
    BY <1>3, <1>9, <1>12 DEF AtFragment
  <2>2. PutTogether(h, e, s)'
    BY <2>1, <1>3, <1>11
  <2>3. Lacks(DTXHeaderLength)'
    BY <1>4, <1>12 DEF AtFragment, Lacks
  <2>4. AtFragment'
    BY <2>1, <2>2, <2>3, <1>3, <1>4, <1>7, <1>9 DEF AtFragment
  <2> QED
    BY <2>4, <1>10 DEF DecoderInv
<1>13. CASE AtBody
  <2>1. /\ h # 0 /\ HasBody(fragments[h]) /\ fragments[h].payloadLength # 0 /\ x = BodyOf(h) \o Ahead(h)
    BY <1>3, <1>9, <1>13 DEF AtBody
  <2>2. PICK entries : PutTogether(h - 1, entries, s) /\ e = WithEntryOf(fragments[h], entries)
    BY <1>3, <1>13 DEF AtBody
  <2>3. PICK k : k = h - 1 /\ k \in 0 .. Len(fragments)
    BY <1>0, <1>3, <2>1
  <2>4. PutTogether(k, entries, s)'
    BY <2>2, <2>3, <1>11
  <2>5. h \in 1 .. Len(fragments) /\ h \in 1 .. N /\ fragments'[h] = fragments[h]
    <3>1. h \in 1 .. Len(fragments)
      BY <1>3, <2>1
    <3>2. h \in 1 .. N
      BY <1>5, <3>1
    <3> QED
      BY <1>6, <3>1, <3>2
  <2>6. (Lacks(MagicLength) \/ Lacks(fragments[header].payloadLength))'
    BY <1>3, <1>4, <1>13, <2>5 DEF AtBody, Lacks
  <2>7. (\E f : /\ PutTogether(header - 1, f, pushed)
                /\ manager = WithEntryOf(fragments[header], f))'
    <3>1. WithEntryOf(fragments[h], entries)' = WithEntryOf(fragments[h], entries)
      BY <2>5 DEF WithEntryOf
    <3>2. PutTogether(header - 1, entries, pushed)'
      BY <2>3, <2>4, <1>3, <1>4
    <3>3. (manager = WithEntryOf(fragments[header], entries))'
      BY <3>1, <2>2, <1>3, <1>4
    <3> QED
      BY <3>2, <3>3
  <2>8. HasBody(fragments[h])' /\ fragments'[h].payloadLength # 0
    BY <2>1, <2>5 DEF HasBody
  <2>9. Rest' = BodyOf(h)' \o Ahead(h)'
    <3>1. BodyOf(h)' = BodyOf(h)
      <4>1. \A g \in 1 .. h : g \in 1 .. N
        BY <2>5
      <4> QED
        BY <4>1, <1>3, <1>6, <2>1, PayloadLasts
    <3>2. BodyOf(h) \in Seq(DTXBytes)
      BY <1>0, <2>5, BytesOfFragment
    <3>3. PICK y, z : y = Ahead(h) \o B /\ z = x \o B
      OBVIOUS
    <3>4. Grouped(DTXBytes, BodyOf(h), Ahead(h), B, x, y, z)
      BY <1>7, <2>1, <3>2, <3>3 DEF Grouped
    <3>5. z = BodyOf(h) \o y
      BY <3>4, Regrouped
    <3> QED
      BY <1>7, <1>9, <3>1, <3>3, <3>5
  <2>10. AtBody'
    BY <2>1, <2>6, <2>7, <2>8, <2>9, <1>3, <1>4 DEF AtBody
  <2> QED
    BY <2>10, <1>10 DEF DecoderInv
<1> QED
  BY <1>12, <1>13 DEF DecoderInv

\* Nothing changes where nothing happens.
LEMMA DecoderStutters ==
  ASSUME DecoderInv, UNCHANGED decoderVars
  PROVE  DecoderInv'
<1>1. UNCHANGED <<fragments, incoming, buffer, cursor, header, manager, busy, pushed>> /\ UNCHANGED fragments
  BY DEF decoderVars
<1>2. DecoderTypes
  BY DEF DecoderInv
<1>3. DecoderTypes'
  <2>1. \A f : Legal(f)' <=> Legal(f)
    BY <1>1 DEF Legal, NoneSince, IsLast
  <2>2. (\A f \in 1 .. Len(fragments) : Legal(f))'
    BY <1>1, <1>2, <2>1 DEF DecoderTypes
  <2> QED
    BY <1>1, <1>2, <2>2 DEF DecoderTypes
<1>4. PICK h, e, s : h = header /\ e = manager /\ s = pushed /\ h \in 0 .. Len(fragments) /\ Len(fragments) \in Nat
  BY <1>2 DEF DecoderTypes
<1>5. Ahead(h)' = Ahead(h) /\ BodyOf(h)' = BodyOf(h) /\ Rest' = Rest
  BY <1>1 DEF Ahead, Wires, Behind, BytesOf, HasBody, BodyOf, Rest, RestAt
<1>6. CASE AtFragment
  <2>1. PutTogether(h, e, s)
    BY <1>4, <1>6 DEF AtFragment
  <2>2. PutTogether(h, e, s)'
    BY <2>1, <1>1, <1>2, <1>4, AssembledKept
  <2>3. AtFragment'
    BY <2>2, <1>1, <1>4, <1>5, <1>6 DEF AtFragment, Lacks
  <2> QED
    BY <2>3, <1>3 DEF DecoderInv
<1>7. CASE AtBody
  <2>1. PICK f : PutTogether(h - 1, f, s) /\ e = WithEntryOf(fragments[h], f)
    BY <1>4, <1>7 DEF AtBody
  <2>2. PICK k : k = h - 1 /\ k \in 0 .. Len(fragments)
    BY <1>4, <1>7 DEF AtBody
  <2>3. PutTogether(k, f, s)'
    BY <2>1, <2>2, <1>1, <1>2, <1>4, AssembledKept
  <2>4. (\E g : /\ PutTogether(header - 1, g, pushed)
                /\ manager = WithEntryOf(fragments[header], g))'
    <3>1. WithEntryOf(fragments[h], f)' = WithEntryOf(fragments[h], f)
      BY <1>1 DEF WithEntryOf
    <3>2. PutTogether(header - 1, f, pushed)'
      BY <2>2, <2>3, <1>1, <1>4
    <3>3. (manager = WithEntryOf(fragments[header], f))'
      BY <3>1, <2>1, <1>1, <1>4
    <3> QED
      BY <3>2, <3>3
  <2>5. AtBody'
    BY <2>4, <1>1, <1>4, <1>5, <1>7 DEF AtBody, Lacks, HasBody
  <2> QED
    BY <2>5, <1>3 DEF DecoderInv
<1> QED
  BY <1>6, <1>7 DEF DecoderInv

\* What is read, and what waits to be read, is always that of whole fragments.
THEOREM DecoderInvHolds == DecoderSpec => []DecoderInv
<1>1. DecoderInit => DecoderInv
  BY DecoderStarts
<1>2. DecoderInv /\ [DecoderNext]_decoderVars => DecoderInv'
  <2> SUFFICES ASSUME DecoderInv, [DecoderNext]_decoderVars PROVE DecoderInv'
    OBVIOUS
  <2>1. ASSUME NEW c \in Channels, NEW n \in 1 .. MaxCount, NEW l \in BodyLengths, NEW u \in BOOLEAN,
               DeviceSends(c, n, l, u)
        PROVE  DecoderInv'
    BY <2>1, DecoderSends
  <2>2. ASSUME NEW n \in 1 .. Len(incoming), ChunkArrives(n) PROVE DecoderInv'
    BY <2>2, DecoderReceives
  <2>3. CASE Pass
    BY <2>3, DecoderPass
  <2>4. CASE LoopEnds
    BY <2>4, DecoderLoopEnds
  <2>5. CASE UNCHANGED decoderVars
    BY <2>5, DecoderStutters
  <2> QED
    BY <2>1, <2>2, <2>3, <2>4, <2>5 DEF DecoderNext
<1> QED
  BY <1>1, <1>2, PTL DEF DecoderSpec

\* The invariant says which messages have been pushed.
LEMMA DecoderPushed ==
  ASSUME DecoderInv
  PROVE  MessagesAreWhole
<1>0. /\ DecoderTypes /\ Len(fragments) \in Nat /\ DOMAIN fragments = 1 .. Len(fragments) /\ header \in 0 .. Len(fragments)
      /\ cursor \in 0 .. Len(buffer) /\ Len(buffer) \in Nat /\ buffer \in Seq(DTXBytes) /\ incoming \in Seq(DTXBytes)
  BY DEF DecoderInv, DecoderTypes
<1>1. PICK k, e : /\ k \in 0 .. Len(fragments) /\ PutTogether(k, e, pushed)
                  /\ \/ AtFragment /\ k = header
                     \/ AtBody /\ k = header - 1
  <2>1. CASE AtFragment
    BY <2>1, <1>0 DEF AtFragment
  <2>2. CASE AtBody
    <3>1. PICK e : PutTogether(header - 1, e, pushed)
      BY <2>2 DEF AtBody
    <3>2. header # 0
      BY <2>2 DEF AtBody
    <3>3. header - 1 \in 0 .. Len(fragments)
      BY <3>2, <1>0
    <3> QED
      BY <2>2, <3>1, <3>3
  <2> QED
    BY <2>1, <2>2 DEF DecoderInv
<1>2. PICK d, m : d = Cardinality(Done(k)) /\ m = Cardinality(Completed) /\ d \in Nat /\ m \in Nat /\ d <= m
  <2>1. Len(fragments) \in 0 .. Len(fragments) /\ k <= Len(fragments) /\ Done(Len(fragments)) = Completed
    BY <1>0, <1>1, DoneCounts
  <2>2. Cardinality(Done(k)) <= Cardinality(Done(Len(fragments)))
    BY <1>0, <1>1, <2>1, DoneCounts
  <2>3. Cardinality(Done(k)) \in Nat /\ Cardinality(Done(Len(fragments))) \in Nat
    BY <1>0, <1>1, <2>1, DoneCounts
  <2> QED
    BY <2>1, <2>2, <2>3
<1>3. Len(pushed) = d /\ \A f \in Done(k) : pushed[Cardinality(Done(f))] = Payload(f)
  BY <1>1, <1>2 DEF PutTogether
<1>4. \A f \in Completed : Number(f) = Cardinality(Done(f))
  BY DEF Number, Done
<1>5. ASSUME NEW f \in Completed, Number(f) <= Len(pushed) PROVE pushed[Number(f)] = Payload(f)
  <2>1. f \in 1 .. Len(fragments) /\ Delivers(fragments[f]) /\ f \in 0 .. Len(fragments) /\ f \in Nat /\ f - 1 \in 0 .. Len(fragments)
    BY <1>0 DEF Completed
  <2>2. CASE f <= k
    BY <2>2, <1>3, <1>4 DEF Done
  <2>3. CASE ~(f <= k)
    <3>1. k <= f - 1
      BY <2>1, <2>3, <1>0, <1>1
    <3>2. Cardinality(Done(k)) <= Cardinality(Done(f - 1))
      BY <1>0, <1>1, <2>1, <3>1, DoneCounts
    <3>3. Cardinality(Done(f)) = Cardinality(Done(f - 1)) + 1
      BY <1>0, <2>1, DoneCounts
    <3>4. Cardinality(Done(f - 1)) \in Nat
      BY <1>0, <2>1, DoneCounts
    <3> QED
      BY <1>2, <1>3, <1>4, <1>5, <3>2, <3>3, <3>4
  <2> QED
    BY <2>2, <2>3
<1>6. ASSUME incoming = <<>>, ~busy
      PROVE  \/ Len(pushed) = m
             \/ /\ Len(pushed) = m - 1
                /\ fragments[Len(fragments)].payloadLength < MagicLength
                /\ header = Len(fragments) /\ Delivers(fragments[header])
  <2>1. PICK r \in Nat : r = Len(Rest) /\ r = Len(buffer) - cursor /\ Rest \in Seq(DTXBytes)
    <3>1. PICK q : q = Len(buffer) - cursor /\ cursor + q = Len(buffer) /\ q \in Nat /\ cursor \in Nat
      <4>1. Len(buffer) - cursor \in Nat /\ cursor + (Len(buffer) - cursor) = Len(buffer)
        BY <1>0
      <4> QED
        BY <4>1, <1>0
    <3>2. Within(DTXBytes, buffer, cursor, q)
      BY <1>0, <3>1 DEF Within
    <3>3. PICK w : w = SubSeq(buffer, cursor + 1, Len(buffer)) /\ w \in Seq(DTXBytes) /\ Len(w) = q
      <4>1. Part(DTXBytes, buffer, cursor, q, SubSeq(buffer, cursor + 1, cursor + q))
        BY <3>2, PartOf
      <4> QED
        BY <3>1, <4>1 DEF Part
    <3>4. Rest = w \o <<>>
      BY <1>6, <3>3 DEF Rest, RestAt
    <3>5. w \o <<>> = w
      BY <3>3
    <3> QED
      BY <3>1, <3>3, <3>4, <3>5
  <2>2. \A h \in 0 .. Len(fragments) : Len(Ahead(h)) < DTXHeaderLength => h = Len(fragments)
    <3> SUFFICES ASSUME NEW h \in 0 .. Len(fragments), h # Len(fragments) PROVE ~(Len(Ahead(h)) < DTXHeaderLength)
      OBVIOUS
    <3>1. PICK g : g = h + 1 /\ g \in 1 .. Len(fragments) /\ g \in 0 .. Len(fragments)
      <4>1. PICK n \in Nat : n = Len(fragments)
        BY <1>0
      <4>2. h \in 0 .. n /\ h # n
        BY <4>1
      <4>3. h + 1 \in 1 .. n /\ h + 1 \in 0 .. n
        BY <4>2
      <4> QED
        BY <4>1, <4>3
    <3>2. Ahead(h) = BytesOf(g, fragments[g]) \o Ahead(g) /\ Ahead(g) \in Seq(DTXBytes)
      BY <1>0, <3>1, AheadStep
    <3>3. BytesOf(g, fragments[g]) \in Seq(DTXBytes) /\ Len(BytesOf(g, fragments[g])) = DTXHeaderLength + Len(BodyOf(g))
           /\ BodyOf(g) \in Seq(DTXBytes)
      BY <1>0, <3>1, BytesOfFragment
    <3>4. Len(Ahead(h)) = Len(BytesOf(g, fragments[g])) + Len(Ahead(g))
      BY <3>2, <3>3, ConcatProperties
    <3>5. Len(BodyOf(g)) \in Nat /\ Len(Ahead(g)) \in Nat
      BY <3>2, <3>3, LenProperties
    <3> QED
      BY <3>3, <3>4, <3>5, DTXDecoderAssumption
  <2>3. CASE AtFragment /\ k = header
    <3>1. Len(Ahead(header)) < DTXHeaderLength
      BY <1>6, <2>1, <2>3 DEF AtFragment, Lacks
    <3>2. k = Len(fragments)
      BY <1>0, <2>2, <2>3, <3>1
    <3>3. Done(k) = Completed
      BY <1>0, <3>2, DoneCounts
    <3> QED
      BY <1>2, <1>3, <3>3
  <2>4. CASE AtBody /\ k = header - 1
    <3>1. PICK h : h = header /\ h \in 1 .. Len(fragments) /\ h \in 0 .. Len(fragments) /\ h - 1 = k /\ HasBody(fragments[h])
      BY <1>0, <2>4 DEF AtBody
    <3>2. Rest = BodyOf(h) \o Ahead(h) /\ Ahead(h) \in Seq(DTXBytes) /\ BodyOf(h) \in Seq(DTXBytes)
          /\ Len(BodyOf(h)) = fragments[h].payloadLength
      BY <1>0, <2>4, <3>1, AheadStep, BytesOfFragment DEF AtBody
    <3>3. PICK p \in Nat, a \in Nat : p = fragments[h].payloadLength /\ a = Len(Ahead(h)) /\ r = p + a
      <4>1. Len(BodyOf(h)) \in Nat /\ Len(Ahead(h)) \in Nat /\ Len(Rest) = Len(BodyOf(h)) + Len(Ahead(h))
        BY <3>2, ConcatProperties, LenProperties
      <4> QED
        BY <2>1, <3>2, <4>1
    <3>4. r < MagicLength \/ r < p
      BY <1>6, <2>1, <2>4, <3>1, <3>3 DEF AtBody, Lacks
    <3>5. r < MagicLength /\ p < MagicLength /\ a < DTXHeaderLength
      BY <3>3, <3>4, DTXDecoderAssumption
    <3>6. h = Len(fragments)
      BY <2>2, <3>1, <3>3, <3>5
    <3>7. Done(h) = Completed /\ Cardinality(Done(h)) = Cardinality(Done(k)) + (IF Delivers(fragments[h]) THEN 1 ELSE 0)
      BY <1>0, <3>1, <3>6, DoneCounts
    <3>8. CASE Delivers(fragments[h])
      <4>1. m = d + 1
        BY <3>7, <3>8, <1>2
      <4>2. Len(pushed) = m - 1
        BY <4>1, <1>2, <1>3
      <4> QED
        BY <4>2, <3>1, <3>3, <3>5, <3>6, <3>8
    <3>9. CASE ~Delivers(fragments[h])
      <4>1. m = d
        BY <3>7, <3>9, <1>2
      <4> QED
        BY <4>1, <1>3
    <3> QED
      BY <3>8, <3>9
  <2> QED
    BY <2>3, <2>4, <1>1
<1> QED
  BY <1>2, <1>3, <1>5, <1>6 DEF MessagesAreWhole

\* However fragments of several channels alternate and wherever the socket cuts
\* the bytes, the payloads pushed are the messages sent that can be parsed, whole and
\* in the order in which they were completed (DTXDecoder._decode).
THEOREM MessagesArePutTogether == DecoderSpec => []MessagesAreWhole
<1>1. DecoderInv => MessagesAreWhole
  BY DecoderPushed
<1> QED
  BY <1>1, DecoderInvHolds, PTL

---------------------------------------------------------------------------
(* Syslog: lines are unescaped.                                            *)

\* A function of places of a sequence of n elements, each value made by G of the
\* next one and of the fourth from there, and d behind the end.
FromTheEnd(n, V, d, G, f) ==
  /\ f \in [1 .. n + 4 -> V]
  /\ \A i \in 1 .. n + 4 : f[i] = IF i > n THEN d ELSE G[<<i, f[i + 1], f[i + 4]>>]

\* There is one.
LEMMA FromTheEndExists ==
  ASSUME NEW n \in Nat, NEW V, NEW d \in V, NEW G, \A i \in 1 .. n, v \in V, w \in V : G[<<i, v, w>>] \in V
  PROVE  \E f : FromTheEnd(n, V, d, G, f)
<1> DEFINE From(k, f) == /\ f \in [1 .. n + 4 -> V]
                         /\ \A i \in 1 .. n + 4 : i > k => f[i] = IF i > n THEN d ELSE G[<<i, f[i + 1], f[i + 4]>>]
           T == {m \in Nat : \A k \in Nat : k + m = n => \E f : From(k, f)}
<1>1. 0 \in T
  <2>1. From(n, [i \in 1 .. n + 4 |-> d])
    OBVIOUS
  <2>2. \A k \in Nat : k + 0 = n => k = n
    OBVIOUS
  <2> HIDE DEF From
  <2> QED
    BY <2>1, <2>2
<1>2. ASSUME NEW m \in Nat, m \in T PROVE m + 1 \in T
  <2> SUFFICES ASSUME NEW k \in Nat, k + (m + 1) = n PROVE \E f : From(k, f)
    OBVIOUS
  <2>1. PICK j \in Nat : j = k + 1 /\ j + m = n /\ j \in 1 .. n
    <3>1. k + 1 \in Nat /\ (k + 1) + m = n /\ k + 1 \in 1 .. n
      OBVIOUS
    <3> QED
      BY <3>1
  <2>2. PICK f : From(j, f)
    <3> HIDE DEF From
    <3> QED
      BY <1>2, <2>1
  <2>3. PICK v \in V : v = G[<<j, f[j + 1], f[j + 4]>>]
    <3>1. j + 1 \in 1 .. n + 4 /\ j + 4 \in 1 .. n + 4
      BY <2>1
    <3> QED
      BY <2>1, <2>2, <3>1
  <2>4. PICK g : g = [f EXCEPT ![j] = v]
    OBVIOUS
  <2>5. g \in [1 .. n + 4 -> V] /\ g[j] = v /\ \A i \in 1 .. n + 4 : i > j => g[i] = f[i]
    BY <2>1, <2>2, <2>4
  <2>6. ASSUME NEW i \in 1 .. n + 4, i > k PROVE g[i] = IF i > n THEN d ELSE G[<<i, g[i + 1], g[i + 4]>>]
    <3>1. CASE i > n
      <4>1. i > j
        BY <2>1, <3>1
      <4> QED
        BY <2>2, <2>5, <3>1, <4>1
    <3>2. CASE ~(i > n)
      <4>1. i + 1 \in 1 .. n + 4 /\ i + 4 \in 1 .. n + 4 /\ i + 1 > j /\ i + 4 > j
        BY <2>1, <2>6, <3>2
      <4>2. g[i + 1] = f[i + 1] /\ g[i + 4] = f[i + 4]
        BY <2>5, <4>1
      <4>3. i = j \/ i > j
        BY <2>1, <2>6
      <4> QED
        BY <2>2, <2>3, <2>5, <3>2, <4>2, <4>3
    <3> QED
      BY <3>1, <3>2
  <2>7. From(k, g)
    BY <2>5, <2>6
  <2> QED
    BY <2>7
<1>3. n \in T
  <2> HIDE DEF T
  <2> QED
    BY <1>1, <1>2, Induction
<1>4. PICK f : From(0, f)
  <2>1. 0 \in Nat /\ 0 + n = n
    OBVIOUS
  <2> HIDE DEF From
  <2> QED
    BY <1>3, <2>1
<1>5. FromTheEnd(n, V, d, G, f)
  BY <1>4 DEF FromTheEnd
<1> QED
  BY <1>5

\* What text is made of.
Characters == Seq(Text \cup {"DASH_SHIFT", "ARROW_SHIFT"})

\* What toUtf8String makes of the bytes from each place on, within an escape sequence
\* or not; and what is to be made of them.
UnescapedFrom(b, f) ==
  f = [i \in 1 .. Len(b) + TokenLength |->
        [escaping \in BOOLEAN |->
           IF i > Len(b) THEN <<>>
           ELSE IF (escaping \/ b[i] = "\\") /\ TokenAt(b, i)
           THEN <<Shifted(b, i)>> \o f[i + TokenLength][TRUE]
           ELSE <<<<b[i]>>>> \o f[i + 1][FALSE]]]
WantedFrom(b, f) ==
  f = [i \in 1 .. Len(b) + TokenLength |->
        IF i > Len(b) THEN <<>>
        ELSE IF EscapeAt(b, i) THEN <<Shifted(b, i)>> \o f[i + TokenLength]
        ELSE <<<<b[i]>>>> \o f[i + 1]]

\* The bytes at a place give characters.
LEMMA CharactersAt ==
  ASSUME NEW b \in Seq(Text), NEW i \in 1 .. Len(b)
  PROVE  /\ <<b[i]>> \in Characters
         /\ TokenAt(b, i) \/ EscapeAt(b, i) => Shifted(b, i) \in Characters
<1>1. b[i] \in Text \cup {"DASH_SHIFT", "ARROW_SHIFT"}
  OBVIOUS
<1>2. i + TokenLength <= Len(b) + 1 => i + 3 \in 1 .. Len(b)
  BY DEF TokenLength
<1> QED
  BY <1>1, <1>2 DEF Characters, TokenAt, EscapeAt, Shifted

\* A character in front of text is text.
LEMMA InFrontOfText ==
  ASSUME NEW S, NEW c \in S, NEW y \in Seq(S)
  PROVE  <<c>> \o y \in Seq(S)
OBVIOUS

\* The two functions are defined.
LEMMA UnescapedExists ==
  ASSUME NEW b \in Seq(Text)
  PROVE  \E f : UnescapedFrom(b, f)
<1> DEFINE n == Len(b)
           V == [BOOLEAN -> Seq(Characters)]
           d == [escaping \in BOOLEAN |-> <<>>]
           Value(i, v, w) == [escaping \in BOOLEAN |->
                                IF (escaping \/ b[i] = "\\") /\ TokenAt(b, i) THEN <<Shifted(b, i)>> \o w[TRUE]
                                ELSE <<<<b[i]>>>> \o v[FALSE]]
           G == [t \in (1 .. n) \X V \X V |-> Value(t[1], t[2], t[3])]
<1>1. n \in Nat /\ d \in V
  OBVIOUS
<1>2. ASSUME NEW i \in 1 .. n, NEW v \in V, NEW w \in V PROVE G[<<i, v, w>>] = Value(i, v, w) /\ Value(i, v, w) \in V
  <2>1. G[<<i, v, w>>] = Value(i, v, w)
    <3> HIDE DEF Value, V
    <3> QED
      OBVIOUS
  <2>2. <<b[i]>> \in Characters /\ (TokenAt(b, i) => Shifted(b, i) \in Characters)
    BY CharactersAt
  <2>3. v[FALSE] \in Seq(Characters) /\ w[TRUE] \in Seq(Characters)
    OBVIOUS
  <2>4. <<<<b[i]>>>> \o v[FALSE] \in Seq(Characters) /\ (TokenAt(b, i) => <<Shifted(b, i)>> \o w[TRUE] \in Seq(Characters))
    BY <2>2, <2>3, InFrontOfText
  <2>5. Value(i, v, w) \in V
    BY <2>4
  <2> QED
    BY <2>1, <2>5
<1>3. PICK H : H = G
  OBVIOUS
<1>4. PICK f : FromTheEnd(n, V, d, H, f)
  <2>1. \A i \in 1 .. n, v \in V, w \in V : H[<<i, v, w>>] \in V
    <3> HIDE DEF G, V, Value
    <3> QED
      BY <1>2, <1>3
  <2> HIDE DEF G, V, d, n
  <2> QED
    BY <1>1, <2>1, FromTheEndExists
<1>5. f \in [1 .. n + 4 -> V] /\ \A i \in 1 .. n + 4 : f[i] = IF i > n THEN d ELSE H[<<i, f[i + 1], f[i + 4]>>]
  BY <1>4 DEF FromTheEnd
<1>6. ASSUME NEW i \in 1 .. n + 4
      PROVE  f[i] = [escaping \in BOOLEAN |->
                       IF i > n THEN <<>>
                       ELSE IF (escaping \/ b[i] = "\\") /\ TokenAt(b, i)
                       THEN <<Shifted(b, i)>> \o f[i + 4][TRUE]
                       ELSE <<<<b[i]>>>> \o f[i + 1][FALSE]]
  <2>1. CASE i > n
    BY <1>5, <2>1
  <2>2. CASE ~(i > n)
    <3>1. i \in 1 .. n /\ i + 1 \in 1 .. n + 4 /\ i + 4 \in 1 .. n + 4
      BY <2>2, <1>1
    <3>2. f[i] = Value(i, f[i + 1], f[i + 4])
      <4>1. f[i + 1] \in V /\ f[i + 4] \in V
        BY <1>5, <3>1
      <4> HIDE DEF G, V, Value
      <4> QED
        BY <1>2, <1>3, <1>5, <2>2, <3>1, <4>1
    <3> QED
      BY <2>2, <3>2
  <2> QED
    BY <2>1, <2>2
<1>7. UnescapedFrom(b, f)
  BY <1>5, <1>6 DEF UnescapedFrom, TokenLength
<1> QED
  BY <1>7

\* There is the function that replaces the escapes of a line from each place on.
LEMMA WantedExists ==
  ASSUME NEW b \in Seq(Text)
  PROVE  \E f : WantedFrom(b, f)
<1> DEFINE n == Len(b)
           V == Seq(Characters)
           Value(i, v, w) == IF EscapeAt(b, i) THEN <<Shifted(b, i)>> \o w ELSE <<<<b[i]>>>> \o v
           G == [t \in (1 .. n) \X V \X V |-> Value(t[1], t[2], t[3])]
<1>1. n \in Nat /\ <<>> \in V
  OBVIOUS
<1>2. ASSUME NEW i \in 1 .. n, NEW v \in V, NEW w \in V PROVE G[<<i, v, w>>] = Value(i, v, w) /\ Value(i, v, w) \in V
  <2>1. G[<<i, v, w>>] = Value(i, v, w)
    <3> HIDE DEF Value, V
    <3> QED
      OBVIOUS
  <2>2. <<b[i]>> \in Characters /\ (EscapeAt(b, i) => Shifted(b, i) \in Characters)
    BY CharactersAt
  <2>3. Value(i, v, w) \in V
    BY <2>2
  <2> QED
    BY <2>1, <2>3
<1>3. PICK H : H = G
  OBVIOUS
<1>4. PICK f : FromTheEnd(n, V, <<>>, H, f)
  <2>1. \A i \in 1 .. n, v \in V, w \in V : H[<<i, v, w>>] \in V
    <3> HIDE DEF G, V, Value
    <3> QED
      BY <1>2, <1>3
  <2> HIDE DEF G, V, n
  <2> QED
    BY <1>1, <2>1, FromTheEndExists
<1>5. f \in [1 .. n + 4 -> V] /\ \A i \in 1 .. n + 4 : f[i] = IF i > n THEN <<>> ELSE H[<<i, f[i + 1], f[i + 4]>>]
  BY <1>4 DEF FromTheEnd
<1>6. ASSUME NEW i \in 1 .. n + 4
      PROVE  f[i] = IF i > n THEN <<>>
                    ELSE IF EscapeAt(b, i) THEN <<Shifted(b, i)>> \o f[i + 4]
                    ELSE <<<<b[i]>>>> \o f[i + 1]
  <2>1. CASE i > n
    BY <1>5, <2>1
  <2>2. CASE ~(i > n)
    <3>1. i \in 1 .. n /\ i + 1 \in 1 .. n + 4 /\ i + 4 \in 1 .. n + 4
      BY <2>2, <1>1
    <3>2. f[i] = Value(i, f[i + 1], f[i + 4])
      <4>1. f[i + 1] \in V /\ f[i + 4] \in V
        BY <1>5, <3>1
      <4> HIDE DEF G, V, Value
      <4> QED
        BY <1>2, <1>3, <1>5, <2>2, <3>1, <4>1
    <3> QED
      BY <2>2, <3>2
  <2> QED
    BY <2>1, <2>2
<1>7. WantedFrom(b, f)
  BY <1>5, <1>6 DEF WantedFrom, TokenLength
<1> QED
  BY <1>7

\* Where nothing merely looks like an escape, toUtf8String undoes them.
LEMMA EscapesUndone ==
  ASSUME NEW b \in Seq(Text), ~Lookalike(b)
  PROVE  toUtf8String(b) = Unescaped(b)
<1> DEFINE U == CHOOSE f : UnescapedFrom(b, f)
           W == CHOOSE f : WantedFrom(b, f)
<1>1. UnescapedFrom(b, U) /\ toUtf8String(b) = U[1][FALSE]
  BY UnescapedExists DEF toUtf8String, UnescapedFrom
<1>2. WantedFrom(b, W) /\ Unescaped(b) = W[1]
  BY WantedExists DEF Unescaped, WantedFrom
<1> HIDE DEF U, W
<1>3. PICK n \in Nat : n = Len(b)
  OBVIOUS
<1>4. PICK u, w : u = U /\ w = W
  OBVIOUS
<1>5. \A i \in 1 .. n + 4, e \in BOOLEAN :
        u[i][e] = IF i > n THEN <<>>
                  ELSE IF (e \/ b[i] = "\\") /\ TokenAt(b, i) THEN <<Shifted(b, i)>> \o u[i + 4][TRUE]
                  ELSE <<<<b[i]>>>> \o u[i + 1][FALSE]
  <2>1. u = [i \in 1 .. n + 4 |->
              [escaping \in BOOLEAN |->
                 IF i > n THEN <<>>
                 ELSE IF (escaping \/ b[i] = "\\") /\ TokenAt(b, i)
                 THEN <<Shifted(b, i)>> \o u[i + 4][TRUE]
                 ELSE <<<<b[i]>>>> \o u[i + 1][FALSE]]]
    BY <1>1, <1>3, <1>4 DEF UnescapedFrom, TokenLength
  <2>2. ASSUME NEW i \in 1 .. n + 4, NEW e \in BOOLEAN
        PROVE  u[i][e] = IF i > n THEN <<>>
                         ELSE IF (e \/ b[i] = "\\") /\ TokenAt(b, i) THEN <<Shifted(b, i)>> \o u[i + 4][TRUE]
                         ELSE <<<<b[i]>>>> \o u[i + 1][FALSE]
    <3>1. PICK x, y : x = u[i + 4][TRUE] /\ y = u[i + 1][FALSE]
      OBVIOUS
    <3>2. u[i] = [escaping \in BOOLEAN |->
                    IF i > n THEN <<>>
                    ELSE IF (escaping \/ b[i] = "\\") /\ TokenAt(b, i) THEN <<Shifted(b, i)>> \o x
                    ELSE <<<<b[i]>>>> \o y]
      <4>1. u[i] = [escaping \in BOOLEAN |->
                      IF i > n THEN <<>>
                      ELSE IF (escaping \/ b[i] = "\\") /\ TokenAt(b, i) THEN <<Shifted(b, i)>> \o u[i + 4][TRUE]
                      ELSE <<<<b[i]>>>> \o u[i + 1][FALSE]]
        BY <2>1
      <4> QED
        BY <3>1, <4>1
    <3>3. u[i][e] = IF i > n THEN <<>>
                    ELSE IF (e \/ b[i] = "\\") /\ TokenAt(b, i) THEN <<Shifted(b, i)>> \o x
                    ELSE <<<<b[i]>>>> \o y
      BY <3>2
    <3> QED
      BY <3>1, <3>3
  <2> QED
    BY <2>2
<1>6. \A i \in 1 .. n + 4 :
        w[i] = IF i > n THEN <<>>
               ELSE IF EscapeAt(b, i) THEN <<Shifted(b, i)>> \o w[i + 4]
               ELSE <<<<b[i]>>>> \o w[i + 1]
  BY <1>2, <1>3, <1>4 DEF WantedFrom, TokenLength
<1>7. \A i \in 1 .. n : EscapeAt(b, i) => TokenAt(b, i) /\ b[i] = "\\"
  BY DEF EscapeAt, TokenAt
<1>8. \A i \in 1 .. n : TokenAt(b, i) /\ (b[i] = "\\" \/ (i > 4 /\ EscapeAt(b, i - 4))) => EscapeAt(b, i)
  <2>1. \A i \in 1 .. n : TokenAt(b, i) => i \in 1 .. Len(b) - TokenLength + 1
    BY <1>3 DEF TokenAt, TokenLength
  <2> QED
    BY <2>1 DEF Lookalike, TokenLength
<1> DEFINE Alike(i) == u[i][FALSE] = w[i] /\ (i > n \/ (i > 4 /\ EscapeAt(b, i - 4)) => u[i][TRUE] = w[i])
           T == {m \in Nat : \A i \in 1 .. n + 4 : n < i + m => Alike(i)}
<1>9. 0 \in T
  <2>1. ASSUME NEW i \in 1 .. n + 4, n < i + 0 PROVE Alike(i)
    <3>1. i > n
      BY <2>1
    <3>2. u[i][FALSE] = <<>> /\ u[i][TRUE] = <<>> /\ w[i] = <<>>
      BY <3>1, <1>5, <1>6
    <3> QED
      BY <3>2
  <2> QED
    BY <2>1
<1>10. ASSUME NEW m \in Nat, m \in T PROVE m + 1 \in T
  <2> SUFFICES ASSUME NEW i \in 1 .. n + 4, n < i + (m + 1) PROVE Alike(i)
    <3> HIDE DEF Alike
    <3> QED
      OBVIOUS
  <2>1. CASE i > n
    <3>1. u[i][FALSE] = <<>> /\ u[i][TRUE] = <<>> /\ w[i] = <<>>
      BY <2>1, <1>5, <1>6
    <3> QED
      BY <3>1
  <2>2. CASE ~(i > n)
    <3>1. i \in 1 .. n /\ i + 1 \in 1 .. n + 4 /\ i + 4 \in 1 .. n + 4 /\ n < (i + 1) + m /\ n < (i + 4) + m
      BY <2>2
    <3>2. Alike(i + 1) /\ Alike(i + 4)
      <4> HIDE DEF Alike
      <4> QED
        BY <1>10, <3>1
    <3>3. u[i + 1][FALSE] = w[i + 1]
      BY <3>2
    <3>4. EscapeAt(b, i) => u[i + 4][TRUE] = w[i + 4]
      <4>1. i + 4 > 4 /\ (i + 4) - 4 = i
        BY <3>1
      <4> QED
        BY <3>2, <4>1
    <3>5. u[i][FALSE] = w[i]
      BY <1>5, <1>6, <1>7, <1>8, <2>2, <3>1, <3>3, <3>4
    <3>6. ASSUME i > 4, EscapeAt(b, i - 4) PROVE u[i][TRUE] = w[i]
      BY <1>5, <1>6, <1>7, <1>8, <2>2, <3>1, <3>3, <3>4, <3>6
    <3> QED
      BY <2>2, <3>5, <3>6
  <2> QED
    BY <2>1, <2>2
<1>11. n \in T
  <2> HIDE DEF T
  <2> QED
    BY <1>9, <1>10, Induction
<1>12. 1 \in 1 .. n + 4 /\ n < 1 + n
  OBVIOUS
<1>13. Alike(1)
  <2> HIDE DEF Alike
  <2> QED
    BY <1>11, <1>12
<1> QED
  BY <1>1, <1>2, <1>4, <1>13

\* The buffer holds the line while that fits, and what was pushed was unescaped.
SyslogInv ==
  /\ line \in Seq(Text) /\ bufferIndex = Len(line)
  /\ Len(line) <= LineBuffer => lineBuffer = line
  /\ LinesUnescaped

\* A line that fits the buffer is pushed with its escapes undone, and all else as it
\* came, if nothing in it merely looks like an escape (SyslogDecoder._decode,
\* toUtf8String).
THEOREM LinesComeUnescaped == SyslogSpec => []LinesUnescaped
<1>0. Len(Nothing.line) = 0
  BY DEF Nothing
<1>1. SyslogInit => SyslogInv
  BY <1>0 DEF SyslogInit, SyslogInv, LinesUnescaped
<1>2. SyslogInv /\ [SyslogNext]_syslogVars => SyslogInv'
  <2> SUFFICES ASSUME SyslogInv, [SyslogNext]_syslogVars PROVE SyslogInv'
    OBVIOUS
  <2>0. line \in Seq(Text) /\ bufferIndex = Len(line) /\ (Len(line) <= LineBuffer => lineBuffer = line) /\ Len(line) \in Nat
    BY DEF SyslogInv
  <2>1. ASSUME NEW byte \in Text, Store(byte) PROVE SyslogInv'
    <3>1. line' \in Seq(Text) /\ bufferIndex' = Len(line') /\ Len(line') = Len(line) + 1
      BY <2>0, <2>1 DEF Store
    <3>2. Len(line') <= LineBuffer => lineBuffer' = line'
      <4>1. LineBuffer \in Nat
        BY SyslogAssumption
      <4>2. Len(line) + 1 <= LineBuffer => Len(line) < LineBuffer /\ Len(line) <= LineBuffer
        BY <2>0, <4>1
      <4> QED
        BY <2>0, <2>1, <3>1, <4>2 DEF Store
    <3>3. LinesUnescaped'
      BY <2>1, <1>0 DEF Store, LinesUnescaped
    <3> QED
      BY <3>1, <3>2, <3>3 DEF SyslogInv
  <2>2. CASE SkipNull
    <3>1. LinesUnescaped'
      BY <2>2, <1>0 DEF SkipNull, LinesUnescaped
    <3> QED
      BY <2>0, <2>2, <3>1 DEF SkipNull, SyslogInv
  <2>3. CASE NewLine
    <3>1. LinesUnescaped'
      <4>1. CASE bufferIndex > 0
        <5>1. PICK l : l = line /\ l \in Seq(Text)
          BY <2>0
        <5>2. pushedLine' = [line |-> l, text |-> toUtf8String(CopiedLine)]
          BY <2>3, <4>1, <5>1 DEF NewLine
        <5>3. Len(l) <= LineBuffer => CopiedLine = l
          <6> HAVE Len(l) <= LineBuffer
          <6>1. lineBuffer = l /\ bufferIndex - Len(lineBuffer) = 0
            BY <2>0, <5>1
          <6>2. [i \in 1 .. 0 |-> "junk"] = <<>>
            OBVIOUS
          <6>3. l \o <<>> = l
            BY <5>1
          <6> QED
            BY <6>1, <6>2, <6>3 DEF CopiedLine
        <5>4. Len(l) <= LineBuffer /\ ~Lookalike(l) => toUtf8String(CopiedLine) = Unescaped(l)
          BY <5>1, <5>3, EscapesUndone
        <5>5. pushedLine'.line = l /\ pushedLine'.text = toUtf8String(CopiedLine)
          BY <5>2
        <5>6. Len(l) \in 1 .. LineBuffer => Len(l) <= LineBuffer
          BY SyslogAssumption
        <5>7. Lookalike(pushedLine.line)' <=> Lookalike(l)
          BY <5>5 DEF Lookalike, EscapeAt, TokenAt
        <5>8. Unescaped(pushedLine.line)' = Unescaped(l)
          BY <5>5 DEF Unescaped, EscapeAt, Shifted
        <5> QED
          BY <5>4, <5>5, <5>6, <5>7, <5>8 DEF LinesUnescaped
      <4>2. CASE ~(bufferIndex > 0)
        BY <2>3, <4>2, <1>0 DEF NewLine, LinesUnescaped
      <4> QED
        BY <4>1, <4>2
    <3>2. line' \in Seq(Text) /\ bufferIndex' = Len(line') /\ lineBuffer' = line'
      BY <2>3 DEF NewLine
    <3> QED
      BY <3>1, <3>2 DEF SyslogInv
  <2>4. CASE UNCHANGED syslogVars
    BY <2>4 DEF syslogVars, SyslogInv, LinesUnescaped
  <2> QED
    BY <2>1, <2>2, <2>3, <2>4 DEF SyslogNext
<1>3. SyslogInv => LinesUnescaped
  BY DEF SyslogInv
<1> QED
  BY <1>1, <1>2, <1>3, PTL DEF SyslogSpec

---------------------------------------------------------------------------
(* WebInspector: what is sent arrives.                                     *)

MessageBytes == Nat \X Nat
WrittenChunks == [bytes : Seq(MessageBytes), final : BOOLEAN]

\* How a length that is no multiple of the chunk size is divided into chunks.
Divided(length, q, r) ==
  /\ q \in Nat /\ r \in Nat /\ 0 < r /\ r < ChunkSize
  /\ length = q * ChunkSize + r
  /\ (length + ChunkSize - 1) \div ChunkSize = q + 1

\* There is such a division where the length is no multiple.
LEMMA LengthsDivide ==
  ASSUME NEW length \in Nat, length % ChunkSize # 0
  PROVE  \E q, r : Divided(length, q, r)
<1>1. PICK c \in Nat \ {0} : c = ChunkSize
  BY WebInspectorAssumption
<1>2. PICK q, r : q = length \div c /\ r = length % c
  OBVIOUS
<1>3. q \in Nat /\ r \in Nat /\ r < c /\ r # 0 /\ q * c + r = length
  <2>1. (length \div c) * c + (length % c) = length
    BY DivisionTheorem
  <2> QED
    BY <1>1, <1>2, <2>1
<1>4. (length + c - 1) \div c = q + 1
  <2>1. PICK x, d, e : x = length + c - 1 /\ d = x \div c /\ e = x % c
    OBVIOUS
  <2>2. x \in Nat /\ d \in Nat /\ e \in Nat /\ e < c /\ d * c + e = x
    <3>1. x \in Nat
      BY <1>1, <2>1
    <3>2. (x \div c) * c + (x % c) = x
      BY <1>1, <3>1, DivisionTheorem
    <3> QED
      BY <1>1, <2>1, <3>1, <3>2
  <2>3. d * c + e = q * c + c + (r - 1) /\ 0 <= r - 1 /\ r - 1 < c
    BY <1>1, <1>3, <2>1, <2>2
  <2>4. ~(d < q + 1)
    <3> SUFFICES ASSUME d < q + 1 PROVE FALSE
      OBVIOUS
    <3>1. d * c <= q * c
      BY <1>1, <1>3, <2>2
    <3>2. PICK u \in Nat, v \in Nat : u = d * c /\ v = q * c
      BY <1>1, <1>3, <2>2
    <3> QED
      BY <1>3, <2>2, <2>3, <3>1, <3>2
  <2>5. ~(d > q + 1)
    <3> SUFFICES ASSUME d > q + 1 PROVE FALSE
      OBVIOUS
    <3>1. (q + 2) * c <= d * c
      BY <1>1, <1>3, <2>2
    <3>2. (q + 2) * c = q * c + c + c
      BY <1>1, <1>3
    <3>3. PICK u \in Nat, v \in Nat : u = d * c /\ v = q * c
      BY <1>1, <1>3, <2>2
    <3> QED
      BY <1>3, <2>2, <2>3, <3>1, <3>2, <3>3
  <2> QED
    BY <1>3, <2>1, <2>2, <2>4, <2>5
<1>5. r < c /\ 0 < r /\ length = q * c + r /\ (length + c - 1) \div c = q + 1
  BY <1>3, <1>4
<1>6. Divided(length, q, r)
  BY <1>1, <1>3, <1>5 DEF Divided
<1> QED
  BY <1>6

\* The chunks of a payload: full ones up to the last, which is not full and is final.
Chunked(S, b, q, r, w) ==
  /\ w \in Seq([bytes : Seq(S), final : BOOLEAN]) /\ Len(w) = q + 1
  /\ \A i \in 1 .. q : /\ ~w[i].final /\ w[i].bytes \in Seq(S) /\ Len(w[i].bytes) = ChunkSize
                       /\ \A j \in 1 .. ChunkSize : w[i].bytes[j] = b[(i - 1) * ChunkSize + j]
  /\ w[q + 1].final /\ w[q + 1].bytes \in Seq(S) /\ Len(w[q + 1].bytes) = r
  /\ \A j \in 1 .. r : w[q + 1].bytes[j] = b[q * ChunkSize + j]

\* A function on the first n numbers is a sequence.
LEMMA SequenceOf ==
  ASSUME NEW R, NEW n \in Nat, NEW w \in [1 .. n -> R]
  PROVE  w \in Seq(R) /\ Len(w) = n
OBVIOUS

\* What WebInspectorEncoder makes of a payload is its chunks.
LEMMA ChunksOf ==
  ASSUME NEW S, NEW b \in Seq(S), NEW q, NEW r, Divided(Len(b), q, r), NEW w, w = Chunks(b)
  PROVE  Chunked(S, b, q, r, w)
<1>1. PICK c \in Nat \ {0} : c = ChunkSize
  BY WebInspectorAssumption
<1>2. PICK l \in Nat : l = Len(b)
  OBVIOUS
<1>3. /\ q \in Nat /\ r \in Nat /\ 0 < r /\ r < c /\ l = q * c + r
      /\ (l + c - 1) \div c = q + 1
  BY <1>1, <1>2 DEF Divided
<1> DEFINE Chunk(i) == UpTo(c, SubSeq(b, (i - 1) * c + 1, l))
<1>4. w = [i \in 1 .. q + 1 |-> [bytes |-> Chunk(i), final |-> IsFinal(Len(Chunk(i)))]]
  BY <1>1, <1>2, <1>3 DEF Chunks
<1>5. ASSUME NEW i \in 1 .. q + 1, NEW p \in Nat, p = (i - 1) * c, NEW n \in Nat, p + n <= l,
             n = c \/ (n < c /\ p + n = l)
      PROVE  /\ Chunk(i) \in Seq(S) /\ Len(Chunk(i)) = n
             /\ \A j \in 1 .. n : Chunk(i)[j] = b[p + j]
  <2>1. PICK m \in Nat : p + m = l
    <3>1. l - p \in Nat /\ p + (l - p) = l
      BY <1>5
    <3> QED
      BY <3>1
  <2>2. PICK t : t = SubSeq(b, p + 1, p + m)
    OBVIOUS
  <2>3. t \in Seq(S) /\ Len(t) = m /\ \A j \in 1 .. m : t[j] = b[p + j]
    <3>1. Within(S, b, p, m)
      BY <1>2, <2>1 DEF Within
    <3>2. Part(S, b, p, m, SubSeq(b, p + 1, p + m))
      BY <3>1, PartOf
    <3> QED
      BY <2>2, <3>2 DEF Part
  <2>4. n <= m /\ n = IF c <= m THEN c ELSE m
    BY <1>5, <2>1
  <2>5. Chunk(i) = SubSeq(t, 1, n)
    BY <1>5, <2>1, <2>2, <2>3, <2>4 DEF UpTo
  <2>6. Part(S, t, 0, n, SubSeq(t, 0 + 1, 0 + n))
    <3>1. Within(S, t, 0, n)
      BY <2>3, <2>4 DEF Within
    <3> QED
      BY <3>1, PartOf
  <2>7. 0 + 1 = 1 /\ 0 + n = n /\ \A j \in 1 .. n : 0 + j = j /\ j \in 1 .. m
    BY <2>4
  <2> HIDE DEF Chunk
  <2> QED
    BY <2>3, <2>5, <2>6, <2>7 DEF Part
<1> HIDE DEF Chunk
<1>6. ASSUME NEW i \in 1 .. q
      PROVE  /\ Chunk(i) \in Seq(S) /\ Len(Chunk(i)) = c
             /\ \A j \in 1 .. c : Chunk(i)[j] = b[(i - 1) * c + j]
  <2>1. PICK p \in Nat : p = (i - 1) * c
    BY <1>1
  <2>2. p + c <= q * c
    <3>1. (i - 1) * c + c = i * c
      BY <1>1, <1>3
    <3>2. i * c <= q * c
      BY <1>1, <1>3
    <3> QED
      BY <2>1, <3>1, <3>2
  <2>3. p + c <= l
    <3>1. q * c \in Nat
      BY <1>1, <1>3
    <3> QED
      BY <1>3, <2>1, <2>2, <3>1
  <2>4. i \in 1 .. q + 1
    BY <1>3
  <2> QED
    BY <1>1, <1>5, <2>1, <2>3, <2>4
<1>7. /\ Chunk(q + 1) \in Seq(S) /\ Len(Chunk(q + 1)) = r
      /\ \A j \in 1 .. r : Chunk(q + 1)[j] = b[q * c + j]
  <2>1. PICK p \in Nat : p = q * c
    BY <1>1, <1>3
  <2>2. p = ((q + 1) - 1) * c /\ q + 1 \in 1 .. q + 1 /\ p + r = l
    BY <1>3, <2>1
  <2>3. p + r <= l
    BY <1>2, <2>2
  <2> QED
    BY <1>3, <1>5, <2>1, <2>2, <2>3
<1>8. \A i \in 1 .. q + 1 : i \in 1 .. q \/ i = q + 1
  BY <1>3
<1>9. \A i \in 1 .. q + 1 : w[i].bytes = Chunk(i) /\ (w[i].final <=> Len(Chunk(i)) < c)
  <2> TAKE i \in 1 .. q + 1
  <2>1. w[i] = [bytes |-> Chunk(i), final |-> IsFinal(Len(Chunk(i)))]
    BY <1>4
  <2>2. PICK u : u = IsFinal(Len(Chunk(i)))
    OBVIOUS
  <2>3. w[i].bytes = Chunk(i) /\ w[i].final = u
    BY <2>1, <2>2
  <2> QED
    BY <1>1, <2>2, <2>3 DEF IsFinal
<1>10. w \in Seq([bytes : Seq(S), final : BOOLEAN]) /\ Len(w) = q + 1
  <2>1. \A i \in 1 .. q + 1 : Chunk(i) \in Seq(S) /\ IsFinal(Len(Chunk(i))) \in BOOLEAN
    BY <1>6, <1>7, <1>8 DEF IsFinal
  <2>2. w \in [1 .. q + 1 -> [bytes : Seq(S), final : BOOLEAN]]
    BY <1>4, <2>1
  <2>3. PICK n \in Nat : n = q + 1
    BY <1>3
  <2>4. PICK R : R = [bytes : Seq(S), final : BOOLEAN]
    OBVIOUS
  <2>5. w \in [1 .. n -> R]
    BY <2>2, <2>3, <2>4
  <2>6. w \in Seq(R) /\ Len(w) = n
    BY <2>5, SequenceOf
  <2> QED
    BY <2>3, <2>4, <2>6
<1>11. q + 1 \in 1 .. q + 1 /\ \A i \in 1 .. q : i \in 1 .. q + 1
  BY <1>3
<1> QED
  <2>1. \A i \in 1 .. q : ~w[i].final /\ w[i].bytes = Chunk(i)
    BY <1>1, <1>3, <1>6, <1>9, <1>11
  <2>2. w[q + 1].final /\ w[q + 1].bytes = Chunk(q + 1)
    BY <1>3, <1>7, <1>9, <1>11
  <2> QED
    BY <1>1, <1>6, <1>7, <1>10, <2>1, <2>2 DEF Chunked

\* Put together, they are the payload.
LEMMA ChunksTogether ==
  ASSUME NEW S, NEW b \in Seq(S), NEW q, NEW r, Divided(Len(b), q, r),
         NEW s, s = [k \in 1 .. q + 1 |-> Chunks(b)[k].bytes]
  PROVE  FlattenSeq(s) = b
<1>1. PICK c \in Nat \ {0} : c = ChunkSize
  BY WebInspectorAssumption
<1>2. PICK l \in Nat : l = Len(b)
  OBVIOUS
<1>3. q \in Nat /\ r \in Nat /\ l = q * c + r
  BY <1>1, <1>2 DEF Divided
<1>4. PICK w : w = Chunks(b)
  OBVIOUS
<1>5. /\ \A i \in 1 .. q : /\ w[i].bytes \in Seq(S) /\ Len(w[i].bytes) = c
                           /\ \A j \in 1 .. c : w[i].bytes[j] = b[(i - 1) * c + j]
      /\ w[q + 1].bytes \in Seq(S) /\ Len(w[q + 1].bytes) = r
      /\ \A j \in 1 .. r : w[q + 1].bytes[j] = b[q * c + j]
  <2>1. Chunked(S, b, q, r, w)
    BY <1>4, ChunksOf
  <2> QED
    BY <1>1, <2>1 DEF Chunked
<1>6. /\ s \in Seq(Seq(S)) /\ Len(s) = q + 1 /\ \A i \in 1 .. q + 1 : s[i] = w[i].bytes /\ s[i] \in Seq(S)
  <2>1. \A i \in 1 .. q + 1 : w[i].bytes \in Seq(S)
    <3>1. \A i \in 1 .. q + 1 : i \in 1 .. q \/ i = q + 1
      BY <1>3
    <3> QED
      BY <1>5, <3>1
  <2>2. s \in [1 .. q + 1 -> Seq(S)] /\ \A i \in 1 .. q + 1 : s[i] = w[i].bytes
    BY <1>4, <2>1
  <2>3. PICK n \in Nat : n = q + 1
    BY <1>3
  <2>4. s \in Seq(Seq(S)) /\ Len(s) = n
    BY <2>2, <2>3, SequenceOf
  <2> QED
    BY <2>1, <2>2, <2>3, <2>4
<1> DEFINE Begins(n, t) == t \in Seq(S) /\ Len(t) = n /\ \A j \in 1 .. n : t[j] = b[j]
           T == {k \in Nat : k <= q => Begins(k * c, Joined(s, k))}
<1>7. ASSUME NEW n \in Nat, NEW m \in Nat, NEW t, Begins(n, t), NEW u \in Seq(S), Len(u) = m,
             \A j \in 1 .. m : u[j] = b[n + j]
      PROVE  Begins(n + m, t \o u)
  <2>1. PICK v : v = t \o u
    OBVIOUS
  <2>2. Measured(S, t, u, n, m)
    BY <1>7 DEF Measured
  <2>3. Chained(t, u, n, m, v) /\ v \in Seq(S)
    BY <2>1, <2>2, Concatenated
  <2>4. ASSUME NEW j \in 1 .. n + m PROVE v[j] = b[j]
    <3>1. CASE j <= n
      <4>1. j \in 1 .. n
        BY <3>1
      <4> QED
        BY <1>7, <2>3, <4>1 DEF Chained
    <3>2. CASE ~(j <= n)
      <4>1. PICK i : i \in 1 .. m /\ j = n + i
        <5>1. j - n \in 1 .. m /\ j = n + (j - n)
          BY <3>2
        <5> QED
          BY <5>1
      <4> QED
        BY <1>7, <2>3, <4>1 DEF Chained
    <3> QED
      BY <3>1, <3>2
  <2> QED
    BY <2>1, <2>3, <2>4 DEF Chained
<1>8. 0 \in T
  <2>1. Joined(s, 0) = <<>> /\ 0 * c = 0
    BY <1>1, <1>6, JoinedStep
  <2>2. Begins(0, <<>>)
    OBVIOUS
  <2> HIDE DEF Begins
  <2> QED
    BY <2>1, <2>2
<1> HIDE DEF Begins
<1>9. ASSUME NEW k \in Nat, k \in T PROVE k + 1 \in T
  <2> SUFFICES ASSUME k + 1 <= q PROVE Begins((k + 1) * c, Joined(s, k + 1))
    OBVIOUS
  <2>1. PICK i : i = k + 1 /\ i \in 1 .. q /\ i \in 1 .. q + 1 /\ i - 1 = k /\ k < q + 1 /\ k <= q
    <3>1. k + 1 \in 1 .. q /\ k + 1 \in 1 .. q + 1 /\ (k + 1) - 1 = k /\ k < q + 1 /\ k <= q
      BY <1>3
    <3> QED
      BY <3>1
  <2>2. PICK n \in Nat : n = k * c /\ n + c = (k + 1) * c
    <3>1. k * c \in Nat /\ k * c + c = (k + 1) * c
      BY <1>1
    <3> QED
      BY <3>1
  <2>3. Joined(s, k + 1) = Joined(s, k) \o s[i]
    BY <1>6, <2>1, JoinedStep
  <2>4. s[i] \in Seq(S) /\ Len(s[i]) = c /\ \A j \in 1 .. c : s[i][j] = b[n + j]
    <3>1. n = (i - 1) * c /\ s[i] = w[i].bytes
      BY <1>6, <2>1, <2>2
    <3>2. w[i].bytes \in Seq(S) /\ Len(w[i].bytes) = c /\ \A j \in 1 .. c : w[i].bytes[j] = b[(i - 1) * c + j]
      BY <1>5, <2>1
    <3> QED
      BY <3>1, <3>2
  <2>5. Begins(n, Joined(s, k))
    BY <1>9, <2>1, <2>2
  <2>6. Begins(n + c, Joined(s, k) \o s[i])
    BY <1>1, <1>7, <2>2, <2>4, <2>5
  <2> QED
    BY <2>2, <2>3, <2>6
<1>10. \A k \in Nat : k \in T
  <2> HIDE DEF T
  <2> QED
    BY <1>8, <1>9, Induction
<1>11. PICK n \in Nat : n = q * c
  BY <1>1, <1>3
<1>12. Begins(n, Joined(s, q))
  BY <1>3, <1>10, <1>11
<1>13. Joined(s, q + 1) = Joined(s, q) \o s[q + 1] /\ Joined(s, q + 1) = FlattenSeq(s)
  <2>1. q < Len(s) /\ Len(s) = q + 1
    BY <1>3, <1>6
  <2> QED
    BY <1>3, <1>6, <2>1, JoinedStep
<1>14. Begins(n + r, FlattenSeq(s))
  <2>1. q + 1 \in 1 .. q + 1
    BY <1>3
  <2>2. s[q + 1] \in Seq(S) /\ Len(s[q + 1]) = r /\ \A j \in 1 .. r : s[q + 1][j] = b[n + j]
    BY <1>5, <1>6, <1>11, <2>1
  <2>3. Begins(n + r, Joined(s, q) \o s[q + 1])
    BY <1>3, <1>7, <1>12, <2>2
  <2> QED
    BY <1>13, <2>3
<1>15. Begins(l, FlattenSeq(s))
  BY <1>3, <1>11, <1>14
<1> QED
  BY <1>2, <1>15, SeqEqual DEF Begins

\* The state of the sender, for WrittenInv.
InspectorKinds == {"partial", "full", "simulator"}
Sendings == [kind : {"plain", "nullish", "unencodable"}, length : PayloadLengths]

\* Bytes that are put together from what was written.
Amid(W, i, j, b) ==
  /\ i \in 1 .. Len(W) /\ j \in 1 .. Len(W) /\ i <= j /\ (i = 1 \/ W[i - 1].final)
  /\ W[j].final /\ \A k \in i .. j - 1 : ~W[k].final
  /\ FlattenSeq([k \in 1 .. j - i + 1 |-> W[i + k - 1].bytes]) = b

\* The sender: each message before the one it is stuck at stands among the chunks,
\* unless a full chunk before it or at its end joins it with another, and what was
\* written last is final, unless that is such a message.
WrittenInv ==
  /\ support \in InspectorKinds \cup {"none"} /\ (support = "none" => messages = <<>>)
  /\ messages \in Seq(Sendings) /\ returned \subseteq 1 .. Len(messages) /\ stuck \in 0 .. Len(messages)
  /\ written \in Seq(WrittenChunks)
  /\ \A m \in 1 .. Len(messages) :
       (stuck = Blank \/ m < stuck) /\ ~Unfinished(m) /\ (m = 1 \/ ~Unfinished(m - 1))
         => \E i, j : Amid(written, i, j, Bytes(m, messages[m].length))
  /\ stuck = Blank =>
       IF messages = <<>> THEN written = <<>>
       ELSE Unfinished(Len(messages)) \/ (written # <<>> /\ written[Len(written)].final)

\* The chunks of one payload, the last of which is final.
PutInChunks(X, b) ==
  /\ Len(X) >= 1 /\ X[Len(X)].final /\ \A k \in 1 .. Len(X) - 1 : ~X[k].final
  /\ FlattenSeq([k \in 1 .. Len(X) |-> X[k].bytes]) = b

\* What stands there stays when more is written.
LEMMA AmidLasts ==
  ASSUME NEW R, NEW W \in Seq(R), NEW X \in Seq(R), NEW i, NEW j, NEW b, Amid(W, i, j, b)
  PROVE  Amid(W \o X, i, j, b)
<1>0. PICK n \in Nat, m \in Nat : n = Len(W) /\ m = Len(X)
  OBVIOUS
<1>1. PICK V : V = W \o X
  OBVIOUS
<1>2. Len(V) = n + m /\ \A k \in 1 .. n : V[k] = W[k]
  <2>1. Measured(R, W, X, n, m)
    BY <1>0, <1>1 DEF Measured
  <2> QED
    BY <1>0, <1>1, <2>1, Concatenated DEF Chained
<1>3. /\ i \in 1 .. n /\ j \in 1 .. n /\ i <= j /\ (i = 1 \/ W[i - 1].final)
      /\ W[j].final /\ \A k \in i .. j - 1 : ~W[k].final
      /\ FlattenSeq([k \in 1 .. j - i + 1 |-> W[i + k - 1].bytes]) = b
  BY <1>0, <1>1 DEF Amid
<1>4. i \in 1 .. n + m /\ j \in 1 .. n + m
  BY <1>3
<1>5. i = 1 \/ V[i - 1] = W[i - 1]
  <2>1. i = 1 \/ i - 1 \in 1 .. n
    BY <1>3
  <2> QED
    BY <1>2, <2>1
<1>6. V[j] = W[j] /\ \A k \in i .. j - 1 : V[k] = W[k]
  <2>1. \A k \in i .. j - 1 : k \in 1 .. n
    BY <1>3
  <2> QED
    BY <1>2, <1>3, <2>1
<1>7. [k \in 1 .. j - i + 1 |-> V[i + k - 1].bytes] = [k \in 1 .. j - i + 1 |-> W[i + k - 1].bytes]
  <2>1. \A k \in 1 .. j - i + 1 : i + k - 1 \in 1 .. n
    BY <1>3
  <2>2. \A k \in 1 .. j - i + 1 : V[i + k - 1] = W[i + k - 1]
    BY <1>2, <2>1
  <2> QED
    BY <2>2
<1>8. FlattenSeq([k \in 1 .. j - i + 1 |-> V[i + k - 1].bytes]) = b
  BY <1>3, <1>7
<1>9. /\ i = 1 \/ V[i - 1].final
      /\ V[j].final /\ \A k \in i .. j - 1 : ~V[k].final
  BY <1>3, <1>5, <1>6
<1> QED
  BY <1>0, <1>1, <1>2, <1>3, <1>4, <1>8, <1>9 DEF Amid

\* A payload that is written behind a final chunk stands there.
LEMMA AmidWritten ==
  ASSUME NEW R, NEW W \in Seq(R), NEW X \in Seq(R), NEW b, PutInChunks(X, b),
         W = <<>> \/ W[Len(W)].final
  PROVE  Amid(W \o X, Len(W) + 1, Len(W) + Len(X), b)
<1>0. PICK n \in Nat, m \in Nat : n = Len(W) /\ m = Len(X)
  OBVIOUS
<1>1. PICK V : V = W \o X
  OBVIOUS
<1>2. Len(V) = n + m /\ (\A k \in 1 .. n : V[k] = W[k]) /\ (\A k \in 1 .. m : V[n + k] = X[k])
  <2>1. Measured(R, W, X, n, m)
    BY <1>0, <1>1 DEF Measured
  <2> QED
    BY <1>0, <1>1, <2>1, Concatenated DEF Chained
<1>3. /\ m >= 1 /\ X[m].final /\ \A k \in 1 .. m - 1 : ~X[k].final
      /\ FlattenSeq([k \in 1 .. m |-> X[k].bytes]) = b
  BY <1>0, <1>1 DEF PutInChunks
<1>4. PICK i, j : i = n + 1 /\ j = n + m
  OBVIOUS
<1>5. i \in 1 .. n + m /\ j \in 1 .. n + m /\ i <= j /\ j - i + 1 = m
  BY <1>3, <1>4
<1>6. i = 1 \/ V[i - 1].final
  <2>1. CASE n = 0
    BY <1>4, <2>1
  <2>2. CASE n # 0
    <3>1. W # <<>> /\ n \in 1 .. n /\ i - 1 = n
      BY <1>0, <1>1, <1>4, <2>2
    <3> QED
      BY <1>0, <1>1, <1>2, <3>1
  <2> QED
    BY <2>1, <2>2
<1>7. V[j].final
  <2>1. m \in 1 .. m
    BY <1>3
  <2> QED
    BY <1>2, <1>3, <1>4, <2>1
<1>8. \A k \in i .. j - 1 : ~V[k].final
  <2> SUFFICES ASSUME NEW k \in i .. j - 1 PROVE ~V[k].final
    OBVIOUS
  <2>1. PICK l : l = k - n
    OBVIOUS
  <2>2. l \in 1 .. m - 1 /\ l \in 1 .. m /\ k = n + l
    BY <1>4, <2>1
  <2> QED
    BY <1>2, <1>3, <2>2
<1>9. FlattenSeq([k \in 1 .. j - i + 1 |-> V[i + k - 1].bytes]) = b
  <2>1. \A k \in 1 .. m : i + k - 1 = n + k
    BY <1>4
  <2>2. \A k \in 1 .. m : V[i + k - 1] = X[k]
    BY <1>2, <2>1
  <2>3. [k \in 1 .. m |-> V[i + k - 1].bytes] = [k \in 1 .. m |-> X[k].bytes]
    BY <2>2
  <2> QED
    BY <1>3, <1>5, <2>3
<1> QED
  BY <1>0, <1>1, <1>2, <1>4, <1>5, <1>6, <1>7, <1>8, <1>9 DEF Amid

\* The bytes of a message are as many as its length.
LEMMA MessageBytesOf ==
  ASSUME NEW m \in Nat, NEW length \in Nat
  PROVE  Bytes(m, length) \in Seq(MessageBytes) /\ Len(Bytes(m, length)) = length
<1>1. Bytes(m, length) \in [1 .. length -> MessageBytes]
  BY DEF Bytes, MessageBytes
<1> QED
  BY <1>1, SequenceOf

\* What the encoder makes of a payload.
LEMMA ChunksType ==
  ASSUME NEW b \in Seq(MessageBytes)
  PROVE  Chunks(b) \in Seq(WrittenChunks)
<1>1. PICK c \in Nat \ {0} : c = ChunkSize
  BY WebInspectorAssumption
<1>2. PICK l \in Nat : l = Len(b)
  OBVIOUS
<1>3. PICK n \in Nat : n = (l + c - 1) \div c
  <2>1. (l + c - 1) \in Nat
    BY <1>1
  <2>2. (l + c - 1) \div c \in Nat
    BY <2>1
  <2> QED
    BY <2>2
<1> DEFINE Chunk(i) == UpTo(c, SubSeq(b, (i - 1) * c + 1, l))
<1>4. ASSUME NEW i \in 1 .. n PROVE Chunk(i) \in Seq(MessageBytes)
  <2>1. PICK p \in Nat \ {0} : p = (i - 1) * c + 1
    <3>1. (i - 1) * c \in Nat
      BY <1>1
    <3> QED
      BY <3>1
  <2>2. PICK t : t = SubSeq(b, p, l)
    OBVIOUS
  <2>3. t \in Seq(MessageBytes)
    BY <1>2, <2>1, <2>2, SubSeqProperties
  <2>4. UpTo(c, t) \in Seq(MessageBytes)
    <3>1. PICK u \in Nat : u = (IF c <= Len(t) THEN c ELSE Len(t)) /\ u <= Len(t)
      BY <2>3
    <3>2. SubSeq(t, 1, u) \in Seq(MessageBytes)
      BY <2>3, <3>1, SubSeqProperties
    <3> QED
      BY <3>1, <3>2 DEF UpTo
  <2> QED
    BY <2>1, <2>2, <2>4
<1>5. Chunks(b) = [i \in 1 .. n |-> [bytes |-> Chunk(i), final |-> IsFinal(Len(Chunk(i)))]]
  BY <1>1, <1>2, <1>3 DEF Chunks
<1> HIDE DEF Chunk
<1>6. \A i \in 1 .. n : IsFinal(Len(Chunk(i))) \in BOOLEAN
  BY DEF IsFinal
<1>7. Chunks(b) \in [1 .. n -> [bytes : Seq(MessageBytes), final : BOOLEAN]]
  BY <1>4, <1>5, <1>6
<1> QED
  BY <1>7, SequenceOf DEF WrittenChunks

\* The chunks of a body put together are the body.
LEMMA ChunksPut ==
  ASSUME NEW b \in Seq(MessageBytes), Len(b) % ChunkSize # 0
  PROVE  PutInChunks(Chunks(b), b)
<1>1. PICK q, r : Divided(Len(b), q, r)
  BY LengthsDivide
<1>2. PICK w : w = Chunks(b)
  OBVIOUS
<1>3. Chunked(MessageBytes, b, q, r, w)
  BY <1>1, <1>2, ChunksOf
<1>4. Len(w) = q + 1 /\ w[q + 1].final /\ q \in Nat /\ \A i \in 1 .. q : ~w[i].final
  BY <1>1, <1>3 DEF Chunked, Divided
<1>5. FlattenSeq([k \in 1 .. q + 1 |-> w[k].bytes]) = b
  BY <1>1, <1>2, ChunksTogether
<1>6. Len(w) >= 1 /\ Len(w) - 1 = q
  BY <1>4
<1> QED
  BY <1>2, <1>4, <1>5, <1>6 DEF PutInChunks

\* A payload written as one message.
LEMMA OneChunk ==
  ASSUME NEW b \in Seq(MessageBytes), NEW X, X = <<[bytes |-> b, final |-> TRUE]>>
  PROVE  X \in Seq(WrittenChunks) /\ PutInChunks(X, b)
<1>1. PICK x : x = [bytes |-> b, final |-> TRUE]
  OBVIOUS
<1>2. x \in WrittenChunks /\ x.bytes = b /\ x.final
  <2>1. x.final = TRUE
    BY <1>1
  <2> QED
    BY <1>1, <2>1 DEF WrittenChunks
<1>3. X = <<x>> /\ X \in Seq(WrittenChunks) /\ Len(X) = 1 /\ X[1] = x
  BY <1>1, <1>2
<1>4. PICK s : s = [k \in 1 .. 1 |-> X[k].bytes]
  OBVIOUS
<1>5. s = <<b>>
  BY <1>2, <1>3, <1>4
<1>6. FlattenSeq(s) = b
  <2>1. s = Append(<<>>, b) /\ <<>> \in Seq(Seq(MessageBytes))
    BY <1>5
  <2>2. FlattenSeq(<<>>) = <<>>
    <3>1. PICK e : e = <<>>
      OBVIOUS
    <3>2. Len(e) = 0
      BY <3>1
    <3> QED
      BY <3>1, <3>2 DEF FlattenSeq
  <2>3. FlattenSeq(s) = FlattenSeq(<<>>) \o b
    BY <2>1, FlattenAppend
  <2> QED
    BY <2>2, <2>3
<1> QED
  BY <1>2, <1>3, <1>4, <1>6 DEF PutInChunks

\* What is written for a message is its payload in chunks, the last one final.
LEMMA EncodedPut ==
  ASSUME NEW m \in Nat, NEW length \in PayloadLengths, NEW b, b = Bytes(m, length),
         NEW X, X = Encoded(m, length)
  PROVE  /\ X \in Seq(WrittenChunks)
         /\ ~(support = "partial" /\ length % ChunkSize = 0) => PutInChunks(X, b)
<1>1. length \in Nat
  BY WebInspectorAssumption
<1>2. b \in Seq(MessageBytes) /\ Len(b) = length
  BY <1>1, MessageBytesOf
<1>3. CASE support = "partial"
  <2>1. X = Chunks(b)
    BY <1>3 DEF Encoded
  <2>2. X \in Seq(WrittenChunks)
    BY <1>2, <2>1, ChunksType
  <2>3. length % ChunkSize # 0 => PutInChunks(X, b)
    BY <1>2, <2>1, ChunksPut
  <2> QED
    BY <1>3, <2>2, <2>3
<1>4. CASE support # "partial"
  <2>1. X = <<[bytes |-> b, final |-> TRUE]>>
    BY <1>4 DEF Encoded
  <2> QED
    BY <1>2, <2>1, OneChunk
<1> QED
  BY <1>3, <1>4

\* The empty message is final, where it is sent at all.
LEMMA EmptyIsFinal ==
  /\ Empty \in Seq(WrittenChunks)
  /\ Empty = <<>> \/ (support = "full" /\ Len(Empty) >= 1 /\ Empty[Len(Empty)].final)
<1>1. CASE support = "full"
  <2>1. PICK b : b = Bytes(Blank, 1)
    OBVIOUS
  <2>2. b \in Seq(MessageBytes)
    BY <2>1, MessageBytesOf DEF Blank
  <2>3. Empty = <<[bytes |-> b, final |-> TRUE]>>
    BY <1>1, <2>1 DEF Empty
  <2>4. PICK X : X = Empty
    OBVIOUS
  <2>5. X \in Seq(WrittenChunks) /\ PutInChunks(X, b)
    BY <2>2, <2>3, <2>4, OneChunk
  <2> QED
    BY <1>1, <2>4, <2>5 DEF PutInChunks
<1>2. CASE support # "full"
  BY <1>2 DEF Empty
<1> QED
  BY <1>1, <1>2

\* Where one message ends, another begins.
LEMMA SendingKeeps ==
  ASSUME WrittenInv, NEW kind \in {"plain", "nullish", "unencodable"}, NEW length \in PayloadLengths,
         SendMessage(kind, length)
  PROVE  WrittenInv'
<1>1. PICK n \in Nat, m \in Nat \ {0} : n = Len(messages) /\ m = n + 1
  BY DEF WrittenInv
<1>2. PICK e : e = [kind |-> kind, length |-> length]
  OBVIOUS
<1>3. /\ support # "none" /\ messages' = Append(messages, e) /\ support' = support
      /\ stuck # Blank => returned' = returned \cup {m} /\ stuck' = stuck /\ written' = written
      /\ stuck = Blank =>
           /\ returned' \in {returned, returned \cup {m}}
           /\ kind # "plain" => stuck' = m /\ written' = written
           /\ kind = "plain" => stuck' = Blank /\ written' = written \o Encoded(m, length) \o Empty
  BY <1>1, <1>2 DEF SendMessage
<1>4. /\ support \in InspectorKinds \cup {"none"} /\ messages \in Seq(Sendings) /\ returned \subseteq 1 .. n
      /\ stuck \in 0 .. n /\ written \in Seq(WrittenChunks)
  BY <1>1 DEF WrittenInv
<1>5. /\ messages' \in Seq(Sendings) /\ Len(messages') = m /\ messages'[m] = e /\ messages' # <<>>
      /\ \A k \in 1 .. n : messages'[k] = messages[k]
  <2>1. e \in Sendings /\ e.length = length
    BY <1>2 DEF Sendings
  <2>2. PICK M : M = Append(messages, e)
    OBVIOUS
  <2>3. M \in Seq(Sendings) /\ Len(M) = m /\ M[m] = e /\ \A k \in 1 .. n : M[k] = messages[k]
    BY <1>1, <1>4, <2>1, <2>2, AppendProperties
  <2>4. M # <<>>
    BY <1>1, <2>3
  <2> QED
    BY <1>3, <2>2, <2>3, <2>4
<1>6. e.length = length
  BY <1>2
<1>7. /\ support' \in InspectorKinds \cup {"none"} /\ support' # "none"
      /\ returned' \subseteq 1 .. m /\ stuck' \in 0 .. m
  <2>1. returned \cup {m} \subseteq 1 .. m /\ returned \subseteq 1 .. m
    <3>1. 1 .. n \subseteq 1 .. m /\ m \in 1 .. m
      BY <1>1
    <3> QED
      BY <1>4, <3>1
  <2> QED
    BY <1>1, <1>3, <1>4, <2>1 DEF Blank
<1>8. PICK X, Y : X = Encoded(m, length) /\ Y = Empty
  OBVIOUS
<1>9. /\ X \in Seq(WrittenChunks) /\ Y \in Seq(WrittenChunks)
      /\ Y = <<>> \/ (support = "full" /\ Len(Y) >= 1 /\ Y[Len(Y)].final)
  BY <1>1, <1>8, EncodedPut, EmptyIsFinal
<1>10. written' \in Seq(WrittenChunks)
  <2>1. (written \o X) \o Y \in Seq(WrittenChunks)
    BY <1>4, <1>9, ConcatProperties
  <2> QED
    BY <1>3, <1>4, <1>8, <2>1
<1>11. \A k \in 1 .. n : (Unfinished(k)' <=> Unfinished(k))
  BY <1>3, <1>5 DEF Unfinished
<1>12. Unfinished(m)' <=> (support = "partial" /\ length % ChunkSize = 0)
  BY <1>3, <1>5, <1>6 DEF Unfinished
<1>13. ASSUME NEW k \in 1 .. n, stuck' = Blank \/ k < stuck', ~Unfinished(k)', k = 1 \/ ~Unfinished(k - 1)'
       PROVE  \E i, j : Amid(written', i, j, Bytes(k, messages'[k].length))
  <2>1. stuck = Blank \/ k < stuck
    BY <1>3, <1>13
  <2>2. ~Unfinished(k)
    BY <1>11, <1>13
  <2>3. k = 1 \/ ~Unfinished(k - 1)
    <3>1. k = 1 \/ k - 1 \in 1 .. n
      BY <1>1
    <3> QED
      BY <1>11, <1>13, <3>1
  <2>4. PICK i, j : Amid(written, i, j, Bytes(k, messages[k].length))
    BY <1>1, <2>1, <2>2, <2>3 DEF WrittenInv
  <2>5. PICK b : b = Bytes(k, messages[k].length) /\ b = Bytes(k, messages'[k].length)
    BY <1>5
  <2>6. Amid((written \o X) \o Y, i, j, b)
    <3>1. Amid(written \o X, i, j, b)
      BY <1>4, <1>9, <2>4, <2>5, AmidLasts
    <3>2. written \o X \in Seq(WrittenChunks)
      BY <1>4, <1>9, ConcatProperties
    <3> QED
      BY <1>9, <3>1, <3>2, AmidLasts
  <2>7. written' = written \/ written' = (written \o X) \o Y
    BY <1>3, <1>8
  <2> QED
    BY <2>4, <2>5, <2>6, <2>7
<1>14. ASSUME stuck' = Blank
       PROVE  /\ stuck = Blank /\ kind = "plain" /\ written' = (written \o X) \o Y
  <2>1. m # Blank
    BY <1>1 DEF Blank
  <2>2. stuck = Blank
    BY <1>3, <1>14
  <2>3. kind = "plain"
    BY <1>3, <1>14, <2>1, <2>2
  <2> QED
    BY <1>3, <1>8, <2>2, <2>3
<1>15. ASSUME stuck' = Blank, ~Unfinished(m)'
       PROVE  /\ PutInChunks(X, Bytes(m, length)) /\ Len(X) >= 1 /\ X[Len(X)].final
  <2>1. PICK b : b = Bytes(m, length)
    OBVIOUS
  <2>2. PutInChunks(X, b)
    BY <1>1, <1>8, <1>12, <1>15, <2>1, EncodedPut
  <2> QED
    BY <2>1, <2>2 DEF PutInChunks
<1>16. ASSUME stuck' = Blank \/ m < stuck', ~Unfinished(m)', m = 1 \/ ~Unfinished(m - 1)'
       PROVE  \E i, j : Amid(written', i, j, Bytes(m, messages'[m].length))
  <2>1. stuck' = Blank
    BY <1>1, <1>3, <1>4, <1>16 DEF Blank
  <2>2. written = <<>> \/ written[Len(written)].final
    <3>1. CASE n = 0
      <4>1. messages = <<>>
        <5>1. Len(messages) = 0
          BY <1>1, <3>1
        <5> QED
          BY <1>4, <5>1, EmptySeq
      <4> QED
        BY <1>14, <2>1, <4>1 DEF WrittenInv
    <3>2. CASE n # 0
      <4>1. m # 1 /\ m - 1 = n /\ n \in 1 .. n /\ messages # <<>>
        BY <1>1, <3>2
      <4>2. ~Unfinished(n)
        BY <1>11, <1>16, <4>1
      <4> QED
        BY <1>1, <1>14, <2>1, <4>1, <4>2 DEF WrittenInv
    <3> QED
      BY <3>1, <3>2
  <2>3. PICK b : b = Bytes(m, length)
    OBVIOUS
  <2>4. PICK i, j : Amid(written \o X, i, j, b)
    BY <1>4, <1>9, <1>15, <1>16, <2>1, <2>2, <2>3, AmidWritten
  <2>5. Amid((written \o X) \o Y, i, j, b)
    <3>1. written \o X \in Seq(WrittenChunks)
      BY <1>4, <1>9, ConcatProperties
    <3> QED
      BY <1>9, <2>4, <3>1, AmidLasts
  <2> QED
    BY <1>5, <1>6, <1>14, <2>1, <2>3, <2>5
<1>17. ASSUME stuck' = Blank, ~Unfinished(m)'
       PROVE  written' # <<>> /\ written'[Len(written')].final
  <2>1. PICK R, V, u, v, W : /\ R = WrittenChunks /\ V = written \o X /\ u = Len(written) /\ v = Len(X)
                             /\ W = V \o Y
    OBVIOUS
  <2>2. V \in Seq(R) /\ Len(V) = u + v /\ v >= 1 /\ u \in Nat /\ v \in Nat /\ V[u + v] = X[v] /\ X[v].final
    <3>1. Measured(R, written, X, u, v) /\ u \in Nat /\ v \in Nat
      BY <1>4, <1>9, <2>1 DEF Measured
    <3>2. Chained(written, X, u, v, V) /\ V \in Seq(R)
      BY <2>1, <3>1, Concatenated
    <3>3. v >= 1 /\ X[v].final /\ v \in 1 .. v
      BY <1>15, <1>17, <2>1, <3>1
    <3> QED
      BY <3>1, <3>2, <3>3 DEF Chained
  <2>3. CASE Y = <<>>
    <3>1. W = V
      BY <2>1, <2>2, <2>3, ConcatEmptySeq
    <3>2. W[Len(W)] = X[v] /\ W # <<>>
      BY <2>2, <3>1
    <3> QED
      BY <1>14, <1>17, <2>1, <2>2, <3>2
  <2>4. CASE Y # <<>>
    <3>1. PICK d : d = Len(Y) /\ d \in Nat /\ d >= 1 /\ Y[d].final
      BY <1>9, <2>4
    <3>2. PICK s : s = u + v /\ s \in Nat /\ s = Len(V)
      BY <2>2
    <3>3. Measured(R, V, Y, s, d)
      BY <1>9, <2>1, <2>2, <3>1, <3>2 DEF Measured
    <3>4. Chained(V, Y, s, d, W) /\ W \in Seq(R)
      BY <2>1, <3>3, Concatenated
    <3>5. d \in 1 .. d
      BY <3>1
    <3>6. Len(W) = s + d /\ W[s + d] = Y[d]
      BY <3>4, <3>5 DEF Chained
    <3>7. W # <<>>
      BY <3>1, <3>2, <3>4, <3>6
    <3> QED
      BY <1>14, <1>17, <2>1, <3>1, <3>6, <3>7
  <2> QED
    BY <2>3, <2>4
<1>18. \A k \in 1 .. Len(messages') :
         (stuck' = Blank \/ k < stuck') /\ ~Unfinished(k)' /\ (k = 1 \/ ~Unfinished(k - 1)')
           => \E i, j : Amid(written', i, j, Bytes(k, messages'[k].length))
  <2>1. \A k \in 1 .. Len(messages') : k \in 1 .. n \/ k = m
    BY <1>1, <1>5
  <2> QED
    BY <1>13, <1>16, <2>1
<1>19. stuck' = Blank =>
         IF messages' = <<>> THEN written' = <<>>
         ELSE Unfinished(Len(messages))' \/ (written' # <<>> /\ written'[Len(written')].final)
  <2>1. Unfinished(Len(messages))' <=> Unfinished(m)'
    BY <1>5 DEF Unfinished
  <2> QED
    BY <1>5, <1>17, <2>1
<1> QED
  BY <1>5, <1>7, <1>10, <1>18, <1>19 DEF WrittenInv

\* Nothing else touches what is written.
LEMMA SendingUnchanged ==
  ASSUME WrittenInv, UNCHANGED <<support, sending>>
  PROVE  WrittenInv'
<1>1. support' = support /\ messages' = messages /\ returned' = returned /\ stuck' = stuck /\ written' = written
  BY DEF sending
<1> QED
  BY <1>1 DEF WrittenInv, Unfinished

\* WrittenInv holds throughout.
THEOREM WrittenInvHolds == InspectorSpec => []WrittenInv
<1>1. InspectorInit => WrittenInv
  <2> SUFFICES ASSUME InspectorInit PROVE WrittenInv
    OBVIOUS
  <2>1. support = "none" /\ messages = <<>> /\ returned = {} /\ stuck = Blank /\ written = <<>> /\ Len(messages) = 0
    BY DEF InspectorInit
  <2>2. 1 .. Len(messages) = {} /\ stuck \in 0 .. Len(messages)
    BY <2>1 DEF Blank
  <2> QED
    BY <2>1, <2>2 DEF WrittenInv
<1>2. WrittenInv /\ [InspectorNext]_inspectorVars => WrittenInv'
  <2> SUFFICES ASSUME WrittenInv, [InspectorNext]_inspectorVars PROVE WrittenInv'
    OBVIOUS
  <2>1. CASE UNCHANGED inspectorVars
    BY <2>1, SendingUnchanged DEF inspectorVars
  <2>2. ASSUME NEW kind \in {"partial", "full", "simulator"}, Construct(kind) PROVE WrittenInv'
    <3>1. /\ support' = kind /\ messages' = messages /\ returned' = returned /\ stuck' = stuck
          /\ written' = written /\ messages = <<>> /\ Len(messages) = 0
      BY <2>2 DEF Construct, sending, WrittenInv
    <3>2. 1 .. Len(messages) = {}
      BY <3>1
    <3>3. kind \in InspectorKinds /\ kind # "none"
      BY DEF InspectorKinds
    <3> QED
      BY <3>1, <3>2, <3>3 DEF WrittenInv
  <2>3. ASSUME NEW kind \in {"plain", "nullish", "unencodable"}, NEW length \in PayloadLengths,
               SendMessage(kind, length)
        PROVE  WrittenInv'
    BY <2>3, SendingKeeps
  <2>4. ASSUME NEW length \in PayloadLengths, NEW n \in 1 .. length, InspectorDecode(length, n)
        PROVE  WrittenInv'
    BY <2>4, SendingUnchanged DEF InspectorDecode
  <2> QED
    BY <2>1, <2>2, <2>3, <2>4 DEF InspectorNext
<1> QED
  BY <1>1, <1>2, PTL DEF InspectorSpec

\* ReturnedArrives, for any plists and any chunk size: a message for which sendMessage
\* returned is put together by the device from the chunks of that message and of no
\* other, unless it or the one before it is a multiple of the chunk size or the encoder
\* has thrown.
THEOREM WhatReturnsArrives == InspectorSpec => []ReturnedArrives
<1>1. WrittenInv => ReturnedArrives
  <2> SUFFICES ASSUME WrittenInv, NEW m \in returned, stuck = Blank \/ m < stuck, ~Unfinished(m),
                      m = 1 \/ ~Unfinished(m - 1)
               PROVE  Arrives(m)
    BY DEF ReturnedArrives
  <2>1. m \in 1 .. Len(messages)
    BY DEF WrittenInv
  <2>2. PICK i, j : Amid(written, i, j, Bytes(m, messages[m].length))
    BY <2>1 DEF WrittenInv
  <2>3. DOMAIN written = 1 .. Len(written)
    BY DEF WrittenInv
  <2> QED
    BY <2>2, <2>3 DEF Arrives, Together, Amid
<1> QED
  BY <1>1, WrittenInvHolds, PTL
=============================================================================
