---------------------------- MODULE SequenceLemmas ----------------------------
(***************************************************************************)
(* Lemmas that proofs about several components need: the least and the      *)
(* greatest of some numbers, by which an induction is one over a least      *)
(* counterexample, and sequences of sequences.                             *)
(***************************************************************************)
EXTENDS Integers, Sequences, SequencesExt, SequenceTheorems, WellFoundedInduction, TLAPS

----------------------------------------------------------------------------
(* Numbers.                                                                *)

LEMMA LeastNatural ==
  ASSUME NEW T \in SUBSET Nat, T # {}
  PROVE  \E x \in T : \A y \in T : x <= y
<1> DEFINE R == {ss \in Nat \X Nat : ss[1] < ss[2]}
<1>1. OpToRel(<, Nat) = R
  BY Zenon DEF OpToRel
<1>2. IsWellFoundedOn(R, Nat)
  BY <1>1, NatLessThanWellFounded
<1>3. PICK x \in T : \A y \in T : ~ (<<y, x>> \in R)
  <2> HIDE DEF R
  <2> QED BY <1>2, WFMin
<1>4. ASSUME NEW y \in T PROVE x <= y
  <2>1. <<y, x>> \notin R /\ y \in Nat /\ x \in Nat
    BY <1>3
  <2>2. <<y, x>> \in R <=> y < x
    BY <2>1
  <2> QED BY <2>1, <2>2
<1> QED BY <1>4

LEMMA GreatestNatural ==
  ASSUME NEW T \in SUBSET Nat, NEW n \in Nat, \A x \in T : x <= n, T # {}
  PROVE  \E x \in T : \A y \in T : y <= x
<1> DEFINE U == {n - x : x \in T}
<1>1. U \in SUBSET Nat /\ U # {}
  <2>1. \A x \in T : n - x \in Nat
    OBVIOUS
  <2> QED BY <2>1
<1>2. PICK u \in U : \A v \in U : u <= v
  <2> HIDE DEF U
  <2> QED BY <1>1, LeastNatural
<1>3. PICK x \in T : u = n - x
  OBVIOUS
<1>4. ASSUME NEW y \in T PROVE y <= x
  <2>1. n - y \in U
    OBVIOUS
  <2>2. n - x <= n - y
    BY <1>2, <1>3, <2>1
  <2> QED BY <2>2
<1> QED BY <1>4

----------------------------------------------------------------------------
(* Sequences of sequences, one after the other.                            *)

\* The function FlattenSeq is defined by, over the sequences up to n.
Flattens(f, seqs, n) == f = [i \in 1 .. n |-> IF i = 1 THEN seqs[i] ELSE f[i - 1] \o seqs[i]]

LEMMA FlattenExists ==
  ASSUME NEW seqs, NEW n \in Nat
  PROVE  \E f : Flattens(f, seqs, n)
<1> DEFINE T == {m \in Nat : ~(\E f : Flattens(f, seqs, m))}
<1>1. SUFFICES T = {}
  OBVIOUS
<1>2. SUFFICES ASSUME T # {} PROVE FALSE
  OBVIOUS
<1>3. PICK m \in T : \A k \in T : m <= k
  <2>1. T \in SUBSET Nat
    OBVIOUS
  <2> HIDE DEF T
  <2> QED BY <1>2, <2>1, LeastNatural
<1>4. m \in Nat /\ ~(\E f : Flattens(f, seqs, m))
  OBVIOUS
<1>5. m # 0
  <2>1. Flattens([i \in {} |-> {}], seqs, 0)
    BY DEF Flattens
  <2> QED BY <1>4, <2>1
<1>6. PICK f : Flattens(f, seqs, m - 1)
  <2>1. m - 1 \in Nat /\ m - 1 \notin T
    <3> HIDE DEF T
    <3> QED BY <1>3, <1>4, <1>5
  <2> QED BY <2>1
<1> DEFINE g == [i \in 1 .. m |-> IF i = m THEN (IF m = 1 THEN seqs[m] ELSE f[m - 1] \o seqs[m]) ELSE f[i]]
<1>7. \A i \in 1 .. m : g[i] = IF i = 1 THEN seqs[i] ELSE g[i - 1] \o seqs[i]
  <2> TAKE i \in 1 .. m
  <2>1. \A k \in 1 .. m - 1 : f[k] = IF k = 1 THEN seqs[k] ELSE f[k - 1] \o seqs[k]
    BY <1>6 DEF Flattens
  <2>2. i # 1 => i - 1 \in 1 .. m - 1 /\ g[i - 1] = f[i - 1]
    BY <1>4
  <2>3. i # m => i \in 1 .. m - 1 /\ g[i] = f[i]
    BY <1>4
  <2>4. g[m] = IF m = 1 THEN seqs[m] ELSE f[m - 1] \o seqs[m]
    BY <1>4, <1>5
  <2> HIDE DEF g, T
  <2> QED BY <2>1, <2>2, <2>3, <2>4
<1>8. Flattens(g, seqs, m)
  <2>1. g = [i \in 1 .. m |-> g[i]]
    OBVIOUS
  <2> HIDE DEF g, T
  <2> QED BY <1>7, <2>1 DEF Flattens
<1> QED BY <1>4, <1>8

\* It is the function itself that gives the last one.
LEMMA FlattenIs ==
  ASSUME NEW seqs, NEW n \in Nat \ {0}, Len(seqs) = n
  PROVE  \E f : Flattens(f, seqs, n) /\ FlattenSeq(seqs) = f[n]
<1> DEFINE f == CHOOSE g : Flattens(g, seqs, n)
<1>1. FlattenSeq(seqs) = f[n]
  BY DEF FlattenSeq, Flattens
<1>2. Flattens(f, seqs, n)
  BY FlattenExists
<1> QED BY <1>1, <1>2

LEMMA FlattenNothing == FlattenSeq(<<>>) = <<>>
BY DEF FlattenSeq

LEMMA FlattenAppend ==
  ASSUME NEW S, NEW seqs \in Seq(Seq(S)), NEW s \in Seq(S)
  PROVE  FlattenSeq(Append(seqs, s)) = FlattenSeq(seqs) \o s
<1> DEFINE n == Len(seqs)
           more == Append(seqs, s)
<1>1. /\ n \in Nat /\ Len(more) = n + 1 /\ more[n + 1] = s
      /\ \A i \in 1 .. n : more[i] = seqs[i]
  OBVIOUS
<1>2. PICK g : Flattens(g, more, n + 1) /\ FlattenSeq(more) = g[n + 1]
  <2> HIDE DEF more, n
  <2> QED BY <1>1, FlattenIs
<1>3. g[n + 1] = IF n = 0 THEN s ELSE g[n] \o s
  <2>1. n + 1 \in 1 .. n + 1 /\ (n + 1 = 1 <=> n = 0) /\ n + 1 - 1 = n
    BY <1>1
  <2>2. \A i \in 1 .. n + 1 : g[i] = IF i = 1 THEN more[i] ELSE g[i - 1] \o more[i]
    <3> HIDE DEF more, n
    <3> QED BY <1>2 DEF Flattens
  <2> HIDE DEF more, n
  <2> QED BY <1>1, <2>1, <2>2
<1>4. CASE n = 0
  <2>1. seqs = <<>>
    BY <1>4
  <2> QED BY <1>2, <1>3, <1>4, <2>1, FlattenNothing
<1>5. CASE n # 0
  <2>1. PICK f : Flattens(f, seqs, n) /\ FlattenSeq(seqs) = f[n]
    <3> HIDE DEF n
    <3>1. Len(seqs) = n /\ n \in Nat \ {0}
      BY <1>1, <1>5 DEF n
    <3> QED BY <3>1, FlattenIs
  <2> DEFINE T == {i \in 1 .. n : f[i] # g[i]}
  <2>2. T = {}
    <3>1. SUFFICES ASSUME T # {} PROVE FALSE
      OBVIOUS
    <3>2. PICK m \in T : \A k \in T : m <= k
      <4>1. T \in SUBSET Nat
        OBVIOUS
      <4> HIDE DEF T
      <4> QED BY <3>1, <4>1, LeastNatural
    <3>3. m \in 1 .. n /\ f[m] # g[m]
      OBVIOUS
    <3>4. m # 1 => m - 1 \in 1 .. n /\ f[m - 1] = g[m - 1]
      <4>1. m # 1 => m - 1 \in 1 .. n /\ m - 1 < m /\ m - 1 \in Nat
        BY <1>1, <3>3
      <4>2. m # 1 => m - 1 \notin T
        <5> HIDE DEF T, n
        <5> QED BY <3>2, <3>3, <4>1
      <4> HIDE DEF n
      <4> QED BY <4>1, <4>2
    <3> HIDE DEF T, more, n
    <3>5. f[m] = IF m = 1 THEN seqs[m] ELSE f[m - 1] \o seqs[m]
      BY <2>1, <3>3 DEF Flattens
    <3>6. g[m] = IF m = 1 THEN more[m] ELSE g[m - 1] \o more[m]
      <4>1. m \in 1 .. n + 1
        BY <1>1, <3>3
      <4> QED BY <1>2, <4>1 DEF Flattens
    <3> QED BY <1>1, <3>3, <3>4, <3>5, <3>6
  <2>3. f[n] = g[n]
    BY <1>1, <1>5, <2>2
  <2> HIDE DEF n, more
  <2> QED BY <1>2, <1>3, <1>5, <2>1, <2>3 DEF more
<1> QED BY <1>4, <1>5

LEMMA FlattenType ==
  ASSUME NEW S, NEW seqs \in Seq(Seq(S))
  PROVE  FlattenSeq(seqs) \in Seq(S)
<1>1. CASE Len(seqs) = 0
  <2>1. seqs = <<>>
    BY <1>1
  <2> QED BY <1>1, <2>1 DEF FlattenSeq
<1>2. CASE Len(seqs) # 0
  <2> DEFINE n == Len(seqs)
  <2>1. n \in Nat \ {0} /\ Len(seqs) = n
    BY <1>2
  <2>2. PICK f : Flattens(f, seqs, n) /\ FlattenSeq(seqs) = f[n]
    <3> HIDE DEF n
    <3> QED BY <2>1, FlattenIs
  <2> DEFINE T == {i \in 1 .. n : f[i] \notin Seq(S)}
  <2>3. T = {}
    <3>1. SUFFICES ASSUME T # {} PROVE FALSE
      OBVIOUS
    <3>2. PICK m \in T : \A k \in T : m <= k
      <4>1. T \in SUBSET Nat
        OBVIOUS
      <4> HIDE DEF T
      <4> QED BY <3>1, <4>1, LeastNatural
    <3>3. m \in 1 .. n /\ f[m] \notin Seq(S) /\ seqs[m] \in Seq(S)
      OBVIOUS
    <3>4. f[m] = IF m = 1 THEN seqs[m] ELSE f[m - 1] \o seqs[m]
      BY <2>2, <3>3 DEF Flattens
    <3>5. m # 1 /\ m - 1 \in 1 .. n /\ m - 1 \notin T
      <4> HIDE DEF T
      <4> QED BY <2>1, <3>2, <3>3, <3>4
    <3>6. f[m - 1] \in Seq(S)
      BY <3>5
    <3> QED BY <3>3, <3>4, <3>5, <3>6
  <2>4. f[n] \in Seq(S)
    BY <2>1, <2>3
  <2> QED BY <2>2, <2>4
<1> QED BY <1>1, <1>2

LEMMA FlattenOne ==
  ASSUME NEW S, NEW a \in Seq(S)
  PROVE  FlattenSeq(<<a>>) = a
<1>1. <<>> \in Seq(Seq(S)) /\ Append(<<>>, a) = <<a>>
  OBVIOUS
<1>2. FlattenSeq(Append(<<>>, a)) = FlattenSeq(<<>>) \o a
  BY <1>1, FlattenAppend
<1>3. <<>> \o a = a
  OBVIOUS
<1> QED BY <1>1, <1>2, <1>3, FlattenNothing
===============================================================================
