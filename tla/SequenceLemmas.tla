--------------------------- MODULE SequenceLemmas ---------------------------
(***************************************************************************)
(* Lemmas about the operators on sequences that the models are built from. *)
(* What a recursive function computes is shown by induction over a set of  *)
(* numbers (Induction): the function is shown to exist up to each number,  *)
(* with what is to be said of it.                                          *)
(***************************************************************************)
EXTENDS SequencesExt, FiniteSetTheorems, TLAPS

\* A set of numbers that is not empty has a least element.
LEMMA LeastElement ==
    ASSUME NEW X \in SUBSET Nat, X # {}
    PROVE  \E n \in X : \A m \in X : n <= m
<1> DEFINE Below(n) == 0 .. n
           T == {Below(n) : n \in X}
           R == StrictSubsetOrdering(Nat)
<1>1. IsWellFoundedOn(R, FiniteSubsetsOf(Nat))
  BY FS_StrictSubsetOrderingWellFounded
<1>2. T \subseteq FiniteSubsetsOf(Nat)
  <2> SUFFICES ASSUME NEW n \in X PROVE Below(n) \in FiniteSubsetsOf(Nat)
    OBVIOUS
  <2>1. IsFiniteSet(Below(n))
    BY FS_Interval
  <2> QED BY <2>1 DEF FiniteSubsetsOf
<1>3. T # {}
  OBVIOUS
<1>4. PICK x \in T : \A y \in T : <<y, x>> \notin R
  <2> HIDE DEF T, R
  <2> QED BY <1>1, <1>2, <1>3, WFMin
<1>5. PICK n \in X : x = Below(n)
  BY DEF T
<1>6. ASSUME NEW m \in X, m < n PROVE FALSE
  <2>1. Below(m) \in T
    BY DEF T
  <2>2. <<Below(m), x>> \notin R
    BY <1>4, <2>1
  <2>3. Below(m) \subseteq Below(n) /\ n \in Below(n) /\ n \notin Below(m)
    BY <1>6
  <2>4. Below(m) \in SUBSET Nat /\ Below(n) \in SUBSET Nat
    BY <1>6
  <2>5. Below(m) # Below(n)
    BY <2>3
  <2> HIDE DEF Below
  <2> QED BY <2>2, <2>3, <2>4, <2>5, <1>5 DEF R, StrictSubsetOrdering
<1> QED BY <1>6

\* Induction over the numbers of a set.
LEMMA Induction ==
    ASSUME NEW X, 0 \in X, \A n \in Nat : n \in X => n + 1 \in X
    PROVE  Nat \subseteq X
<1> SUFFICES ASSUME Nat \ X # {} PROVE FALSE
  OBVIOUS
<1>1. PICK n \in Nat \ X : \A m \in Nat \ X : n <= m
  BY LeastElement
<1> QED BY <1>1

\* A function on the first n numbers is a sequence.
LEMMA SequenceOf ==
    ASSUME NEW S, NEW n \in Nat, NEW s \in [1 .. n -> S]
    PROVE  s \in Seq(S) /\ Len(s) = n
OBVIOUS

-----------------------------------------------------------------------------
(* Sequences whose elements are in a relation to those behind them. *)

Ordered(R, s) == \A i, j \in DOMAIN s : i < j => <<s[i], s[j]>> \in R

\* What two sequences hold together, and when it is ordered.
LEMMA Concatenation ==
    ASSUME NEW S, NEW s \in Seq(S), NEW t \in Seq(S), NEW R
    PROVE  /\ s \o t \in Seq(S) /\ Range(s \o t) = Range(s) \cup Range(t)
           /\ Ordered(R, s) /\ Ordered(R, t) /\ (\A x \in Range(s), y \in Range(t) : <<x, y>> \in R)
                <=> Ordered(R, s \o t)
<1>1. s \o t \in Seq(S) /\ Len(s \o t) = Len(s) + Len(t)
  OBVIOUS
<1>2. \A i \in 1 .. Len(s) : (s \o t)[i] = s[i]
  OBVIOUS
<1>3. \A i \in 1 .. Len(t) : (s \o t)[Len(s) + i] = t[i]
  OBVIOUS
<1>4. /\ DOMAIN s = 1 .. Len(s) /\ DOMAIN t = 1 .. Len(t) /\ Len(s) \in Nat /\ Len(t) \in Nat
      /\ DOMAIN (s \o t) = 1 .. (Len(s) + Len(t))
  BY <1>1
<1> DEFINE u == s \o t
<1>5. u \in Seq(S) /\ DOMAIN u = 1 .. (Len(s) + Len(t))
      /\ (\A i \in 1 .. Len(s) : u[i] = s[i]) /\ (\A i \in 1 .. Len(t) : u[Len(s) + i] = t[i])
  BY <1>1, <1>2, <1>3, <1>4
<1> HIDE DEF u
<1>6. \A i \in DOMAIN u : \/ i \in DOMAIN s /\ u[i] = s[i]
                          \/ i - Len(s) \in DOMAIN t /\ u[i] = t[i - Len(s)] /\ i \notin DOMAIN s
  <2> SUFFICES ASSUME NEW i \in DOMAIN u, i \notin DOMAIN s
               PROVE  i - Len(s) \in DOMAIN t /\ u[i] = t[i - Len(s)]
    BY <1>4, <1>5
  <2>1. i - Len(s) \in 1 .. Len(t) /\ Len(s) + (i - Len(s)) = i
    BY <1>4, <1>5
  <2> QED BY <1>4, <1>5, <2>1
<1>7. \A i \in DOMAIN s : i \in DOMAIN u /\ u[i] = s[i]
  BY <1>4, <1>5
<1>8. \A i \in DOMAIN t : Len(s) + i \in DOMAIN u /\ u[Len(s) + i] = t[i]
  BY <1>4, <1>5
<1>9. Range(u) = Range(s) \cup Range(t)
  BY <1>6, <1>7, <1>8 DEF Range
<1>10. ASSUME Ordered(R, s), Ordered(R, t), \A x \in Range(s), y \in Range(t) : <<x, y>> \in R
       PROVE  Ordered(R, u)
  <2> SUFFICES ASSUME NEW i \in DOMAIN u, NEW j \in DOMAIN u, i < j PROVE <<u[i], u[j]>> \in R
    BY DEF Ordered
  <2>1. CASE j \in DOMAIN s
    <3>1. i \in DOMAIN s
      BY <1>4, <1>5, <2>1
    <3> QED BY <1>7, <1>10, <2>1, <3>1 DEF Ordered
  <2>2. CASE i \notin DOMAIN s
    <3>1. j \notin DOMAIN s
      BY <1>4, <1>5, <2>2
    <3>2. /\ i - Len(s) \in DOMAIN t /\ j - Len(s) \in DOMAIN t /\ i - Len(s) < j - Len(s)
          /\ u[i] = t[i - Len(s)] /\ u[j] = t[j - Len(s)]
      BY <1>4, <1>5, <1>6, <2>2, <3>1
    <3> QED BY <1>10, <3>2 DEF Ordered
  <2>3. CASE i \in DOMAIN s /\ j \notin DOMAIN s
    <3>1. u[i] \in Range(s) /\ u[j] \in Range(t)
      BY <1>6, <2>3 DEF Range
    <3> QED BY <1>10, <3>1
  <2> QED BY <2>1, <2>2, <2>3
<1>11. ASSUME Ordered(R, u)
       PROVE  Ordered(R, s) /\ Ordered(R, t) /\ (\A x \in Range(s), y \in Range(t) : <<x, y>> \in R)
  <2>1. Ordered(R, s)
    BY <1>7, <1>11 DEF Ordered
  <2>2. Ordered(R, t)
    <3> SUFFICES ASSUME NEW i \in DOMAIN t, NEW j \in DOMAIN t, i < j PROVE <<t[i], t[j]>> \in R
      BY DEF Ordered
    <3>1. Len(s) + i < Len(s) + j
      BY <1>4
    <3> QED BY <1>8, <1>11, <3>1 DEF Ordered
  <2>3. ASSUME NEW x \in Range(s), NEW y \in Range(t) PROVE <<x, y>> \in R
    <3>1. PICK i \in DOMAIN s : x = s[i]
      BY DEF Range
    <3>2. PICK j \in DOMAIN t : y = t[j]
      BY DEF Range
    <3>3. i < Len(s) + j
      BY <1>4
    <3> QED BY <1>7, <1>8, <1>11, <3>1, <3>2, <3>3 DEF Ordered
  <2> QED BY <2>1, <2>2, <2>3
<1> QED BY <1>5, <1>9, <1>10, <1>11 DEF u

\* One element more at the end.
LEMMA OneMore ==
    ASSUME NEW S, NEW s \in Seq(S), NEW e \in S, NEW R
    PROVE  /\ Append(s, e) \in Seq(S) /\ Range(Append(s, e)) = Range(s) \cup {e}
           /\ Ordered(R, s) /\ (\A x \in Range(s) : <<x, e>> \in R) <=> Ordered(R, Append(s, e))
<1> DEFINE t == <<e>>
<1>1. t \in Seq(S) /\ Range(t) = {e} /\ Ordered(R, t)
  BY DEF Range, Ordered
<1>2. Append(s, e) = s \o t
  OBVIOUS
<1> HIDE DEF t
<1> QED BY <1>1, <1>2, Concatenation

\* A sequence that is not empty is its first element and the rest.
LEMMA FirstAndRest ==
    ASSUME NEW S, NEW s \in Seq(S), s # <<>>, NEW R
    PROVE  /\ Head(s) \in S /\ Tail(s) \in Seq(S) /\ Range(s) = {Head(s)} \cup Range(Tail(s))
           /\ Ordered(R, Tail(s)) /\ (\A y \in Range(Tail(s)) : <<Head(s), y>> \in R)
                <=> Ordered(R, s)
<1> DEFINE t == <<Head(s)>>
<1>1. Head(s) \in S /\ Tail(s) \in Seq(S)
  OBVIOUS
<1>2. t \in Seq(S) /\ Range(t) = {Head(s)} /\ Ordered(R, t)
  BY <1>1 DEF Range, Ordered
<1>3. s = t \o Tail(s)
  BY <1>1
<1> HIDE DEF t
<1>4. /\ Range(t \o Tail(s)) = Range(t) \cup Range(Tail(s))
      /\ Ordered(R, t) /\ Ordered(R, Tail(s)) /\ (\A x \in Range(t), y \in Range(Tail(s)) : <<x, y>> \in R)
           <=> Ordered(R, t \o Tail(s))
  BY <1>1, <1>2, Concatenation
<1> QED BY <1>1, <1>2, <1>3, <1>4

\* The sequences of a sequence, one behind the other, are put together one by one.
LEMMA FlattenSteps ==
    ASSUME NEW S, NEW seqs \in Seq(Seq(S)), Len(seqs) # 0
    PROVE  \E flat : /\ flat[Len(seqs)] = FlattenSeq(seqs) /\ flat[1] = seqs[1]
                     /\ \A i \in 2 .. Len(seqs) : flat[i] = flat[i - 1] \o seqs[i]
<1> DEFINE N == Len(seqs)
           Step(f, i) == IF i = 1 THEN seqs[i] ELSE f[i - 1] \o seqs[i]
           Flattens(f, n) == f = [i \in 1 .. n |-> Step(f, i)]
           X == {n \in Nat : \E f : Flattens(f, n)}
           flat == CHOOSE f : Flattens(f, N)
<1>1. N \in Nat /\ DOMAIN seqs = 1 .. N
  OBVIOUS
<1>2. 0 \in X
  <2>1. Flattens([i \in 1 .. 0 |-> <<>>], 0)
    OBVIOUS
  <2> QED BY <2>1
<1>3. ASSUME NEW n \in Nat, n \in X PROVE n + 1 \in X
  <2>1. PICK f : Flattens(f, n)
    BY <1>3
  <2> DEFINE g == [i \in 1 .. n + 1 |-> Step(f, i)]
  <2>2. \A i \in 1 .. n : g[i] = f[i]
    <3> HIDE DEF Step
    <3>1. \A i \in 1 .. n : f[i] = Step(f, i)
      BY <2>1
    <3>2. \A i \in 1 .. n : i \in 1 .. n + 1
      BY <1>3
    <3> QED BY <3>1, <3>2
  <2>3. \A i \in 1 .. n + 1 : Step(g, i) = Step(f, i)
    <3> HIDE DEF g
    <3> SUFFICES ASSUME NEW i \in 1 .. n + 1 PROVE Step(g, i) = Step(f, i)
      OBVIOUS
    <3>1. CASE i = 1
      BY <3>1
    <3>2. CASE i # 1
      <4>1. i - 1 \in 1 .. n
        BY <3>2
      <4>2. g[i - 1] = f[i - 1]
        BY <2>2, <4>1
      <4> QED BY <3>2, <4>2
    <3> QED BY <3>1, <3>2
  <2>4. Flattens(g, n + 1)
    <3>1. [i \in 1 .. n + 1 |-> Step(f, i)] = [i \in 1 .. n + 1 |-> Step(g, i)]
      <4> HIDE DEF Step, g
      <4> QED BY <2>3
    <3>2. g = [i \in 1 .. n + 1 |-> Step(f, i)]
      OBVIOUS
    <3> HIDE DEF Step, g
    <3> QED BY <3>1, <3>2
  <2> HIDE DEF g, Flattens
  <2> QED BY <2>4
<1>4. Flattens(flat, N)
  <2>1. Nat \subseteq X
    <3> HIDE DEF X
    <3> QED BY <1>2, <1>3, Induction
  <2> QED BY <1>1, <2>1
<1>5. FlattenSeq(seqs) = flat[N]
  BY DEF FlattenSeq
<1>6. \A i \in 1 .. N : flat[i] = Step(flat, i)
  <2> HIDE DEF Step, flat
  <2>1. flat = [i \in 1 .. N |-> Step(flat, i)]
    BY <1>4
  <2> QED BY <2>1
<1>7. flat[1] = seqs[1] /\ \A i \in 2 .. N : flat[i] = flat[i - 1] \o seqs[i]
  <2> HIDE DEF flat
  <2>1. 1 \in 1 .. N /\ \A i \in 2 .. N : i \in 1 .. N /\ i # 1
    BY <1>1
  <2> QED BY <1>6, <2>1
<1> HIDE DEF flat
<1> QED BY <1>5, <1>7

\* A set of sequences that has what two of its members make together has what
\* any number of them make.
LEMMA FlattenStays ==
    ASSUME NEW S, NEW G \in SUBSET Seq(S), NEW seqs \in Seq(G),
           <<>> \in G, \A s, t \in G : s \o t \in G
    PROVE  FlattenSeq(seqs) \in G
<1>1. CASE Len(seqs) = 0
  <2>1. FlattenSeq(seqs) = seqs /\ seqs = <<>>
    BY <1>1 DEF FlattenSeq
  <2> QED BY <2>1
<1>2. CASE Len(seqs) # 0
  <2>1. seqs \in Seq(Seq(S)) /\ DOMAIN seqs = 1 .. Len(seqs) /\ \A i \in 1 .. Len(seqs) : seqs[i] \in G
    OBVIOUS
  <2>2. PICK flat : /\ flat[Len(seqs)] = FlattenSeq(seqs) /\ flat[1] = seqs[1]
                    /\ \A i \in 2 .. Len(seqs) : flat[i] = flat[i - 1] \o seqs[i]
    BY <1>2, <2>1, FlattenSteps
  <2> DEFINE Y == {n \in Nat : n + 1 \in 1 .. Len(seqs) => flat[n + 1] \in G}
  <2>3. 0 \in Y
    BY <1>2, <2>1, <2>2
  <2>4. ASSUME NEW n \in Nat, n \in Y PROVE n + 1 \in Y
    <3>1. SUFFICES ASSUME n + 2 \in 1 .. Len(seqs) PROVE flat[n + 2] \in G
      OBVIOUS
    <3>2. flat[n + 2] = flat[n + 1] \o seqs[n + 2] /\ flat[n + 1] \in G
      <4>1. n + 2 \in 2 .. Len(seqs) /\ (n + 2) - 1 = n + 1 /\ n + 1 \in 1 .. Len(seqs)
        BY <3>1
      <4>2. flat[n + 2] = flat[(n + 2) - 1] \o seqs[n + 2]
        BY <2>2, <4>1
      <4> QED BY <2>4, <4>1, <4>2
    <3> QED BY <2>1, <3>1, <3>2
  <2>5. Len(seqs) - 1 \in Y
    <3> HIDE DEF Y
    <3>1. Nat \subseteq Y
      BY <2>3, <2>4, Induction
    <3> QED BY <1>2, <3>1
  <2> QED BY <1>2, <2>2, <2>5
<1> QED BY <1>1, <1>2

\* The sequences of a sequence, one behind the other: all that they hold, in
\* order when each is and each comes before the next ones.
LEMMA FlattenInOrder ==
    ASSUME NEW S, NEW seqs \in Seq(Seq(S)), NEW R,
           \A i \in DOMAIN seqs : Ordered(R, seqs[i]),
           \A i, j \in DOMAIN seqs : i < j =>
               \A x \in Range(seqs[i]), y \in Range(seqs[j]) : <<x, y>> \in R
    PROVE  /\ FlattenSeq(seqs) \in Seq(S) /\ Ordered(R, FlattenSeq(seqs))
           /\ Range(FlattenSeq(seqs)) = UNION {Range(seqs[i]) : i \in DOMAIN seqs}
<1> DEFINE N == Len(seqs)
<1>1. N \in Nat /\ DOMAIN seqs = 1 .. N /\ \A i \in 1 .. N : seqs[i] \in Seq(S)
  OBVIOUS
<1>2. CASE N = 0
  <2>1. FlattenSeq(seqs) = seqs /\ seqs = <<>>
    BY <1>2 DEF FlattenSeq
  <2> QED BY <2>1 DEF Range, Ordered
<1>3. CASE N # 0
  <2>1. PICK flat : /\ flat[N] = FlattenSeq(seqs) /\ flat[1] = seqs[1]
                    /\ \A i \in 2 .. N : flat[i] = flat[i - 1] \o seqs[i]
    BY <1>3, FlattenSteps
  <2> DEFINE Good(n) == /\ flat[n] \in Seq(S) /\ Ordered(R, flat[n])
                        /\ Range(flat[n]) = UNION {Range(seqs[i]) : i \in 1 .. n}
             Y == {n \in Nat : n \in 1 .. N => Good(n)}
  <2>2. 0 \in Y
    OBVIOUS
  <2>3. ASSUME NEW n \in Nat, n \in Y PROVE n + 1 \in Y
    <3> SUFFICES ASSUME n + 1 \in 1 .. N PROVE Good(n + 1)
      OBVIOUS
    <3>1. CASE n = 0
      <4>1. flat[1] = seqs[1] /\ 1 \in 1 .. N /\ 1 .. (n + 1) = {1}
        BY <1>1, <2>1, <3>1
      <4>2. UNION {Range(seqs[i]) : i \in 1 .. (n + 1)} = Range(seqs[1])
        BY <4>1
      <4> QED BY <1>1, <3>1, <4>1, <4>2
    <3>2. CASE n # 0
      <4>1. n \in 1 .. N /\ (n + 1) - 1 = n /\ n + 1 # 1
        BY <1>1, <3>2
      <4>2. Good(n)
        BY <2>3, <4>1
      <4>3. flat[n + 1] = flat[n] \o seqs[n + 1]
        <5>1. n + 1 \in 2 .. N
          BY <3>2
        <5> QED BY <2>1, <4>1, <5>1
      <4>4. \A x \in Range(flat[n]), y \in Range(seqs[n + 1]) : <<x, y>> \in R
        <5> SUFFICES ASSUME NEW x \in Range(flat[n]), NEW y \in Range(seqs[n + 1])
                     PROVE  <<x, y>> \in R
          OBVIOUS
        <5>1. PICK i \in 1 .. n : x \in Range(seqs[i])
          BY <4>2
        <5>2. i \in DOMAIN seqs /\ n + 1 \in DOMAIN seqs /\ i < n + 1
          BY <1>1, <4>1
        <5> QED BY <5>1, <5>2
      <4>5. seqs[n + 1] \in Seq(S) /\ Ordered(R, seqs[n + 1])
        BY <1>1
      <4>6. flat[n + 1] \in Seq(S) /\ Ordered(R, flat[n + 1])
            /\ Range(flat[n + 1]) = Range(flat[n]) \cup Range(seqs[n + 1])
        <5> HIDE DEF Good
        <5>1. flat[n] \in Seq(S) /\ Ordered(R, flat[n])
          BY <4>2 DEF Good
        <5> QED BY <4>3, <4>4, <4>5, <5>1, Concatenation
      <4>7. 1 .. (n + 1) = (1 .. n) \cup {n + 1}
        OBVIOUS
      <4>8. UNION {Range(seqs[i]) : i \in 1 .. (n + 1)}
              = (UNION {Range(seqs[i]) : i \in 1 .. n}) \cup Range(seqs[n + 1])
        BY <4>7
      <4> QED BY <4>2, <4>6, <4>8
    <3> QED BY <3>1, <3>2
  <2>5. N \in Y
    <3> HIDE DEF Y
    <3> QED BY <1>1, <2>2, <2>3, Induction
  <2>4. Good(N)
    BY <1>1, <1>3, <2>5
  <2> QED BY <1>1, <2>1, <2>4
<1> QED BY <1>2, <1>3

-----------------------------------------------------------------------------
(* A fold takes the positions of a sequence from the last to the first. *)

\* Without its last position a set of positions is one shorter.
LEMMA LastPosition ==
    ASSUME NEW n \in Nat
    PROVE  /\ Max(1 .. n + 1) = n + 1 /\ (1 .. n + 1) \ {n + 1} = 1 .. n
           /\ \A S \in SUBSET (1 .. n + 1) : S # {} => S \ {Max(S)} \in SUBSET (1 .. n)
<1>1. ASSUME NEW S \in SUBSET (1 .. n + 1), n + 1 \in S
      PROVE  Max(S) = n + 1
  <2>1. \A y \in S : n + 1 >= y
    OBVIOUS
  <2>2. Max(S) \in S /\ \A y \in S : Max(S) >= y
    <3>1. \E x \in S : \A y \in S : x >= y
      BY <1>1, <2>1
    <3> QED BY <3>1 DEF Max
  <2>3. Max(S) >= n + 1 /\ Max(S) \in 1 .. n + 1
    BY <1>1, <2>2
  <2> HIDE DEF Max
  <2> QED BY <2>3
<1>2. ASSUME NEW S \in SUBSET (1 .. n + 1), n + 1 \notin S
      PROVE  S \subseteq 1 .. n
  BY <1>2
<1>3. (1 .. n + 1) \ {n + 1} = 1 .. n /\ n + 1 \in 1 .. n + 1
  OBVIOUS
<1>4. ASSUME NEW S \in SUBSET (1 .. n + 1)
      PROVE  S \ {Max(S)} \in SUBSET (1 .. n)
  <2>1. CASE n + 1 \in S
    BY <1>1, <1>3, <2>1
  <2>2. CASE n + 1 \notin S
    BY <1>2, <2>2
  <2> QED BY <2>1, <2>2
<1> QED BY <1>1, <1>3, <1>4
=============================================================================
