-------------------------- MODULE Flattening_proofs -------------------------
(***************************************************************************)
(* What FlattenSeq makes of a sequence of sequences.  It is defined by a   *)
(* recursive function that is chosen; where the argument goes along a      *)
(* sequence it takes the least element of a set of numbers in place of an  *)
(* induction: a set with 1 that has i + 1 with every i is all of 1 .. n    *)
(* (Reaches).                                                              *)
(***************************************************************************)
EXTENDS Integers, Sequences, SequencesExt, SequenceTheorems, WellFoundedInduction, TLAPS

\* A set of natural numbers has a least element.
LEMMA Least ==
  ASSUME NEW T \in SUBSET Nat, T # {}
  PROVE  \E x \in T : \A y \in T : x <= y
<1> DEFINE R == {ss \in Nat \X Nat : ss[1] < ss[2]}
<1>1. IsWellFoundedOn(R, Nat)
  BY NatLessThanWellFounded, Zenon DEF OpToRel
<1>2. \A x, y \in Nat : x < y => <<x, y>> \in R
  OBVIOUS
<1> HIDE DEF R
<1>3. PICK x \in T : \A y \in T : ~ (<<y, x>> \in R)
  BY <1>1, WFMin
<1>4. \A y \in T : ~ (y < x)
  BY <1>2, <1>3
<1> QED
  BY <1>3, <1>4

\* In place of an induction from 1 to n.
LEMMA Reaches ==
  ASSUME NEW n \in Nat, NEW T \in SUBSET (1 .. n),
         1 <= n => 1 \in T,
         \A i \in T : i < n => i + 1 \in T
  PROVE  T = 1 .. n
<1> DEFINE B == (1 .. n) \ T
<1>1. SUFFICES ASSUME B # {} PROVE FALSE
  OBVIOUS
<1>2. B \in SUBSET Nat
  OBVIOUS
<1>3. PICK x \in B : \A y \in B : x <= y
  BY <1>1, <1>2, Least
<1>4. x # 1
  BY <1>3
<1>5. x - 1 \in 1 .. n /\ ~ (x <= x - 1) /\ x - 1 < n
  BY <1>3, <1>4
<1>6. x - 1 \in T
  BY <1>3, <1>5
<1>7. (x - 1) + 1 \in T
  BY <1>5, <1>6
<1> QED
  BY <1>3, <1>7

\* h[i] is what the first i sequences of ss are, one behind the other.
Adds(h, ss) ==
  /\ h[1] = ss[1]
  /\ \A i \in 2 .. Len(ss) : h[i] = h[i - 1] \o ss[i]

\* FlattenSeq chooses a function by its recursion: there is only one.
LEMMA FlatIs ==
  ASSUME NEW S, NEW ss \in Seq(Seq(S)), ss # <<>>,
         NEW h \in [1 .. Len(ss) -> Seq(S)], Adds(h, ss)
  PROVE  FlattenSeq(ss) = h[Len(ss)]
<1> DEFINE n == Len(ss)
           Rec(g) == [i \in 1 .. n |-> IF i = 1 THEN ss[i] ELSE g[i - 1] \o ss[i]]
           f == CHOOSE g : g = Rec(g)
           T == {i \in 1 .. n : f[i] = h[i]}
<1>1. n \in Nat /\ n # 0
  BY EmptySeq
<1>2. h = Rec(h)
  <2>1. ASSUME NEW i \in 1 .. n
        PROVE  h[i] = IF i = 1 THEN ss[i] ELSE h[i - 1] \o ss[i]
    <3>1. CASE i = 1
      BY <3>1 DEF Adds
    <3>2. CASE i # 1
      <4>1. i \in 2 .. Len(ss)
        BY <1>1, <3>2
      <4> QED
        BY <3>2, <4>1 DEF Adds
    <3> QED
      BY <3>1, <3>2
  <2>2. h = [i \in 1 .. n |-> h[i]]
    OBVIOUS
  <2> QED
    BY <2>1, <2>2, Zenon
<1>3. f = Rec(f)
  BY <1>2, Zenon
<1>4. FlattenSeq(ss) = f[n]
  BY <1>1, Zenon DEF FlattenSeq
<1> HIDE DEF f
<1>5. \A i \in 1 .. n : f[i] = IF i = 1 THEN ss[i] ELSE f[i - 1] \o ss[i]
  BY <1>3, Zenon
<1> HIDE DEF n
<1>6. 1 \in T
  BY <1>1, <1>5 DEF Adds, n
<1>7. ASSUME NEW i \in T, i < n PROVE i + 1 \in T
  <2>1. i \in 1 .. n /\ f[i] = h[i]
    OBVIOUS
  <2>2. i + 1 \in 2 .. n /\ i + 1 \in 1 .. n /\ (i + 1) - 1 = i /\ i + 1 # 1
    BY <1>1, <1>7, <2>1
  <2>3. f[i + 1] = f[i] \o ss[i + 1]
    BY <1>5, <2>2
  <2>4. h[i + 1] = h[i] \o ss[i + 1]
    BY <2>2 DEF Adds, n
  <2> QED
    BY <2>1, <2>2, <2>3, <2>4
<1>8. T = 1 .. n
  <2> HIDE DEF T
  <2>1. T \in SUBSET (1 .. n)
    BY DEF T
  <2> QED
    BY <1>1, <1>6, <1>7, <2>1, Reaches
<1>9. f[n] = h[n]
  <2>1. n \in 1 .. n
    BY <1>1
  <2> HIDE DEF T
  <2>2. n \in T
    BY <1>8, <2>1
  <2> QED
    BY <2>2 DEF T
<1> QED
  BY <1>4, <1>9 DEF n

\* A function on one number more.
LEMMA Extended ==
  ASSUME NEW A, NEW k \in Nat, NEW h \in [1 .. k -> A], NEW y \in A
  PROVE  [i \in 1 .. k + 1 |-> IF i = k + 1 THEN y ELSE h[i]] \in [1 .. k + 1 -> A]
<1>1. \A i \in 1 .. k + 1 : i = k + 1 \/ i \in 1 .. k
  OBVIOUS
<1> QED
  BY <1>1

Associates(a, b, c) == (a \o b) \o c = a \o (b \o c)

LEMMA Regroup ==
  ASSUME NEW S, NEW a \in Seq(S), NEW b \in Seq(S), NEW c \in Seq(S)
  PROVE  Associates(a, b, c)
BY ConcatAssociative DEF Associates

\* There is one, so FlattenSeq makes a sequence of a sequence of them.
LEMMA FlatExists ==
  ASSUME NEW S, NEW ss \in Seq(Seq(S)), ss # <<>>
  PROVE  \E h \in [1 .. Len(ss) -> Seq(S)] : Adds(h, ss)
<1> DEFINE n == Len(ss)
           Up(k) == \E h \in [1 .. k -> Seq(S)] :
                      h[1] = ss[1] /\ \A i \in 2 .. k : h[i] = h[i - 1] \o ss[i]
           T == {k \in 1 .. n : Up(k)}
<1>1. n \in Nat /\ n # 0
  BY EmptySeq
<1>2. \A i \in 1 .. n : ss[i] \in Seq(S)
  OBVIOUS
<1>3. 1 \in T
  <2> DEFINE h == [i \in 1 .. 1 |-> ss[1]]
  <2>1. h \in [1 .. 1 -> Seq(S)] /\ h[1] = ss[1] /\ \A i \in 2 .. 1 : FALSE
    BY <1>1, <1>2
  <2>2. Up(1)
    <3> HIDE DEF h
    <3> QED
      BY <2>1
  <2>3. 1 \in 1 .. n
    BY <1>1
  <2> HIDE DEF Up
  <2> QED
    BY <2>2, <2>3
<1>4. ASSUME NEW k \in T, k < n PROVE k + 1 \in T
  <2>1. k \in 1 .. n /\ Up(k)
    OBVIOUS
  <2>2. PICK h \in [1 .. k -> Seq(S)] :
           h[1] = ss[1] /\ \A i \in 2 .. k : h[i] = h[i - 1] \o ss[i]
    BY <2>1
  <2> DEFINE g == [i \in 1 .. k + 1 |-> IF i = k + 1 THEN h[k] \o ss[k + 1] ELSE h[i]]
  <2>3. k \in Nat /\ k >= 1 /\ k + 1 \in 1 .. n /\ k \in 1 .. k
    BY <1>1, <1>4, <2>1
  <2>4. h[k] \in Seq(S) /\ ss[k + 1] \in Seq(S)
    BY <1>2, <2>3
  <2>5. h[k] \o ss[k + 1] \in Seq(S)
    BY <2>4, ConcatProperties
  <2>6. g \in [1 .. k + 1 -> Seq(S)]
    <3> DEFINE A == Seq(S)
               y == h[k] \o ss[k + 1]
    <3>1. y \in A /\ h \in [1 .. k -> A] /\ k \in Nat
      BY <2>3, <2>5
    <3> HIDE DEF A, y
    <3>2. [i \in 1 .. k + 1 |-> IF i = k + 1 THEN y ELSE h[i]] \in [1 .. k + 1 -> A]
      BY <3>1, Extended
    <3> QED
      BY <3>2 DEF A, y
  <2>7. g[1] = ss[1]
    <3> HIDE DEF g
    <3>1. 1 \in 1 .. k + 1 /\ 1 # k + 1
      BY <2>3
    <3> QED
      BY <2>2, <3>1, Zenon DEF g
  <2>8. ASSUME NEW i \in 2 .. k + 1 PROVE g[i] = g[i - 1] \o ss[i]
    <3>1. CASE i = k + 1
      <4>1. i - 1 = k /\ i - 1 \in 1 .. k + 1 /\ k # k + 1 /\ i \in 1 .. k + 1
        BY <2>3, <3>1
      <4> QED
        BY <3>1, <4>1
    <3>2. CASE i # k + 1
      <4>1. i \in 2 .. k /\ i \in 1 .. k + 1 /\ i - 1 \in 1 .. k + 1 /\ i - 1 # k + 1
        BY <2>3, <3>2
      <4> QED
        BY <2>2, <3>2, <4>1
    <3> QED
      BY <3>1, <3>2
  <2> HIDE DEF g
  <2> QED
    BY <2>3, <2>6, <2>7, <2>8
<1>5. n \in T
  <2> HIDE DEF T
  <2>1. T \in SUBSET (1 .. n)
    BY DEF T
  <2>2. T = 1 .. n
    BY <1>1, <1>3, <1>4, <2>1, Reaches
  <2> QED
    BY <1>1, <2>2
<1> QED
  BY <1>5 DEF Adds

LEMMA FlatNone == FlattenSeq(<<>>) = <<>>
  BY DEF FlattenSeq

LEMMA FlatType ==
  ASSUME NEW S, NEW ss \in Seq(Seq(S))
  PROVE  FlattenSeq(ss) \in Seq(S)
<1>1. CASE ss = <<>>
  <2>1. <<>> \in Seq(S)
    OBVIOUS
  <2> QED
    BY <1>1, <2>1, FlatNone
<1>2. CASE ss # <<>>
  <2>1. PICK h \in [1 .. Len(ss) -> Seq(S)] : Adds(h, ss)
    BY <1>2, FlatExists
  <2>2. FlattenSeq(ss) = h[Len(ss)]
    BY <1>2, <2>1, FlatIs
  <2>3. Len(ss) \in 1 .. Len(ss)
    BY <1>2, EmptySeq
  <2> QED
    BY <2>2, <2>3
<1> QED
  BY <1>1, <1>2

\* A sequence at the end of ss, and one at its beginning.
LEMMA FlatAppend ==
  ASSUME NEW S, NEW ss \in Seq(Seq(S)), NEW x \in Seq(S)
  PROVE  FlattenSeq(Append(ss, x)) = FlattenSeq(ss) \o x
<1> DEFINE n == Len(ss)
           tt == Append(ss, x)
<1>1. tt \in Seq(Seq(S)) /\ Len(tt) = n + 1 /\ n \in Nat /\ tt # <<>>
      /\ (\A i \in 1 .. n : tt[i] = ss[i]) /\ tt[n + 1] = x
  BY AppendProperties
<1>2. CASE ss = <<>>
  <2> DEFINE h == [i \in 1 .. 1 |-> x]
  <2>1. n = 0
    BY <1>2
  <2>2. Len(tt) = 1 /\ tt[1] = x
    BY <1>1, <2>1
  <2>3. h \in [1 .. Len(tt) -> Seq(S)] /\ h[1] = tt[1] /\ \A i \in 2 .. Len(tt) : FALSE
    BY <2>2
  <2> HIDE DEF tt, n
  <2>4. FlattenSeq(tt) = x
    <3>1. Adds(h, tt)
      BY <2>3 DEF Adds
    <3> HIDE DEF h
    <3>2. FlattenSeq(tt) = h[Len(tt)]
      BY <1>1, <2>3, <3>1, FlatIs
    <3> QED
      BY <2>2, <2>3, <3>2
  <2>5. <<>> \o x = x
    BY ConcatEmptySeq
  <2> QED
    BY <1>2, <2>4, <2>5, FlatNone DEF tt
<1>3. CASE ss # <<>>
  <2>1. PICK h \in [1 .. n -> Seq(S)] : Adds(h, ss)
    BY <1>3, FlatExists
  <2>2. FlattenSeq(ss) = h[n]
    BY <1>3, <2>1, FlatIs
  <2>3. n # 0
    BY <1>3, EmptySeq
  <2> DEFINE g == [i \in 1 .. n + 1 |-> IF i = n + 1 THEN h[n] \o x ELSE h[i]]
  <2> HIDE DEF tt, n
  <2>4. n \in 1 .. n /\ h[n] \in Seq(S) /\ h[n] \o x \in Seq(S)
    BY <1>1, <2>1, <2>3, ConcatProperties
  <2>5. g \in [1 .. n + 1 -> Seq(S)]
    <3> DEFINE A == Seq(S)
               y == h[n] \o x
    <3>1. y \in A /\ h \in [1 .. n -> A] /\ n \in Nat
      BY <1>1, <2>1, <2>4
    <3> HIDE DEF A, y
    <3>2. [i \in 1 .. n + 1 |-> IF i = n + 1 THEN y ELSE h[i]] \in [1 .. n + 1 -> A]
      BY <3>1, Extended
    <3> QED
      BY <3>2 DEF A, y
  <2>6. g[1] = tt[1]
    <3> HIDE DEF g
    <3>1. 1 \in 1 .. n + 1 /\ 1 # n + 1 /\ tt[1] = ss[1]
      BY <1>1, <2>3
    <3>2. h[1] = ss[1]
      BY <2>1 DEF Adds
    <3> QED
      BY <3>1, <3>2, Zenon DEF g
  <2>7. ASSUME NEW i \in 2 .. n + 1 PROVE g[i] = g[i - 1] \o tt[i]
    <3>1. CASE i = n + 1
      <4>1. i - 1 = n /\ n \in 1 .. n + 1 /\ n # n + 1 /\ i \in 1 .. n + 1
        BY <1>1, <2>3, <3>1
      <4> QED
        BY <1>1, <3>1, <4>1
    <3>2. CASE i # n + 1
      <4>1. i \in 2 .. n /\ i \in 1 .. n /\ i \in 1 .. n + 1 /\ i - 1 \in 1 .. n + 1 /\ i - 1 # n + 1
        BY <1>1, <3>2
      <4>2. h[i] = h[i - 1] \o ss[i]
        BY <2>1, <4>1 DEF Adds, n
      <4>3. g[i] = h[i] /\ g[i - 1] = h[i - 1]
        BY <3>2, <4>1
      <4>4. tt[i] = ss[i]
        BY <1>1, <4>1
      <4> HIDE DEF g
      <4> QED
        BY <4>2, <4>3, <4>4
    <3> QED
      BY <3>1, <3>2
  <2>8. g[n + 1] = h[n] \o x
    <3>1. n + 1 \in 1 .. n + 1
      BY <1>1
    <3> QED
      BY <3>1, Zenon
  <2> HIDE DEF g
  <2>9. Adds(g, tt)
    BY <1>1, <2>6, <2>7 DEF Adds
  <2>10. FlattenSeq(tt) = g[n + 1]
    BY <1>1, <2>5, <2>9, FlatIs
  <2> QED
    BY <2>2, <2>8, <2>10 DEF tt, n
<1> QED
  BY <1>2, <1>3

LEMMA FlatCons ==
  ASSUME NEW S, NEW x \in Seq(S), NEW ss \in Seq(Seq(S))
  PROVE  FlattenSeq(<<x>> \o ss) = x \o FlattenSeq(ss)
<1> DEFINE n == Len(ss)
           tt == <<x>> \o ss
<1>1. <<x>> \in Seq(Seq(S)) /\ Len(<<x>>) = 1 /\ <<x>>[1] = x
  OBVIOUS
<1>2. tt \in Seq(Seq(S)) /\ Len(tt) = n + 1 /\ n \in Nat /\ tt # <<>> /\ tt[1] = x
      /\ \A i \in 1 .. n : tt[i + 1] = ss[i]
  <2>1. /\ tt \in Seq(Seq(S)) /\ Len(tt) = Len(<<x>>) + n
        /\ \A i \in 1 .. Len(<<x>>) + n : tt[i] = IF i <= Len(<<x>>) THEN <<x>>[i] ELSE ss[i - Len(<<x>>)]
    BY <1>1, ConcatProperties
  <2>2. n \in Nat
    OBVIOUS
  <2> HIDE DEF tt, n
  <2>3. Len(tt) = n + 1 /\ tt # <<>>
    BY <1>1, <2>1, <2>2, EmptySeq
  <2>4. tt[1] = x
    BY <1>1, <2>1, <2>2
  <2>5. ASSUME NEW i \in 1 .. n PROVE tt[i + 1] = ss[i]
    <3>1. i + 1 \in 1 .. 1 + n /\ ~ (i + 1 <= 1) /\ (i + 1) - 1 = i
      BY <2>2
    <3> QED
      BY <1>1, <2>1, <3>1
  <2> QED
    BY <2>1, <2>2, <2>3, <2>4, <2>5
<1>3. CASE ss = <<>>
  <2>1. tt = <<x>>
    BY <1>1, <1>3, ConcatEmptySeq
  <2>2. <<x>> = Append(<<>>, x) /\ <<>> \in Seq(Seq(S))
    OBVIOUS
  <2>3. FlattenSeq(Append(<<>>, x)) = FlattenSeq(<<>>) \o x
    BY <2>2, FlatAppend
  <2>4. <<>> \o x = x /\ x \o <<>> = x
    BY ConcatEmptySeq
  <2> QED
    BY <1>3, <2>1, <2>2, <2>3, <2>4, FlatNone
<1>4. CASE ss # <<>>
  <2>1. PICK h \in [1 .. n -> Seq(S)] : Adds(h, ss)
    BY <1>4, FlatExists
  <2>2. FlattenSeq(ss) = h[n]
    BY <1>4, <2>1, FlatIs
  <2>3. n # 0
    BY <1>4, EmptySeq
  <2> DEFINE g == [i \in 1 .. n + 1 |-> IF i = 1 THEN x ELSE x \o h[i - 1]]
  <2> HIDE DEF tt, n
  <2>4. \A i \in 1 .. n : h[i] \in Seq(S) /\ ss[i] \in Seq(S) /\ x \o h[i] \in Seq(S)
    <3>1. \A i \in 1 .. n : ss[i] \in Seq(S)
      BY DEF n
    <3> QED
      BY <2>1, <3>1, ConcatProperties
  <2>5. g \in [1 .. n + 1 -> Seq(S)]
    <3>1. \A i \in 1 .. n + 1 : i = 1 \/ i - 1 \in 1 .. n
      BY <1>2
    <3> QED
      BY <2>4, <3>1
  <2>6. g[1] = tt[1]
    BY <1>2
  <2>7. ASSUME NEW i \in 2 .. n + 1 PROVE g[i] = g[i - 1] \o tt[i]
    <3> DEFINE j == i - 1
    <3>1. j \in 1 .. n /\ i = j + 1 /\ i # 1 /\ i \in 1 .. n + 1 /\ j \in 1 .. n + 1
      BY <1>2
    <3>2. tt[i] = ss[j] /\ g[i] = x \o h[j]
      BY <1>2, <3>1
    <3>3. CASE j = 1
      BY <2>1, <3>1, <3>2, <3>3 DEF Adds
    <3>4. CASE j # 1
      <4>1. j \in 2 .. n /\ j - 1 \in 1 .. n
        BY <1>2, <3>1, <3>4
      <4>2. h[j] = h[j - 1] \o ss[j]
        BY <2>1, <4>1 DEF Adds, n
      <4>3. g[j] = x \o h[j - 1]
        BY <3>1, <3>4
      <4>4. x \o (h[j - 1] \o ss[j]) = (x \o h[j - 1]) \o ss[j]
        <5>1. h[j - 1] \in Seq(S) /\ ss[j] \in Seq(S)
          BY <2>4, <3>1, <4>1
        <5> DEFINE a == h[j - 1]
                   b == ss[j]
        <5> HIDE DEF a, b
        <5>2. a \in Seq(S) /\ b \in Seq(S)
          BY <5>1 DEF a, b
        <5>3. Associates(x, a, b)
          BY <5>2, Regroup
        <5> QED
          BY <5>3 DEF Associates, a, b
      <4> QED
        BY <3>2, <4>2, <4>3, <4>4
    <3> QED
      BY <3>3, <3>4
  <2>8. g[n + 1] = x \o h[n]
    <3>1. n + 1 \in 1 .. n + 1 /\ n + 1 # 1 /\ (n + 1) - 1 = n
      BY <1>2, <2>3
    <3> QED
      BY <3>1
  <2> HIDE DEF g
  <2>9. Adds(g, tt)
    BY <1>2, <2>6, <2>7 DEF Adds
  <2>10. FlattenSeq(tt) = g[n + 1]
    BY <1>2, <2>5, <2>9, FlatIs
  <2> QED
    BY <2>2, <2>8, <2>10 DEF tt
<1> QED
  BY <1>3, <1>4
=============================================================================
