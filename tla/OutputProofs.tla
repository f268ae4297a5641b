----------------------------- MODULE OutputProofs ------------------------------
(***************************************************************************)
(* The files read back: for any number of sections of any length, whatever  *)
(* fresh memory holds.  And what the converter makes of a LOD file is what   *)
(* the assembler writes itself, for all sections and symbols: each line of   *)
(* the LOD file stands for words of the embedded one, and a function f gives *)
(* how many words the lines above a line stand for.                         *)
(***************************************************************************)
EXTENDS OutputSpec, SequenceLemmas, FiniteSetTheorems

----------------------------------------------------------------------------
(* Reading blocks from a sequence of words.                                *)

BlockOf == [mem : Nat, pc : Nat, words : Seq(Nat)]

\* The blocks from place i on, given those from later places.
FromPlace(f, ws, i) ==
  IF i + 2 > Len(ws) THEN <<>>
  ELSE LET last == i + 2 + ws[i + 2]
       IN IF last > Len(ws) THEN << [mem |-> ws[i], pc |-> ws[i + 1], words |-> SubSeq(ws, i + 3, Len(ws))] >>
          ELSE << [mem |-> ws[i], pc |-> ws[i + 1], words |-> SubSeq(ws, i + 3, last)] >> \o f[last + 1]

\* The function ParsedFrom is defined by, from place n on.
Parses(f, ws, n) == f = [i \in n .. Len(ws) + 3 |-> FromPlace(f, ws, i)]

LEMMA ParseExists ==
  ASSUME NEW ws \in Seq(Nat)
  PROVE  \E f : Parses(f, ws, 1)
<1> DEFINE len == Len(ws) + 4
           T == {m \in Nat : m < len /\ ~(\E f : Parses(f, ws, len - m))}
<1>0. len \in Nat /\ Len(ws) + 3 = len - 1 /\ len - 1 \in Nat /\ len >= 4
  OBVIOUS
<1>1. SUFFICES T = {}
  <2>1. len - 1 \notin T
    BY <1>1
  <2>2. len - (len - 1) = 1 /\ len - 1 < len
    BY <1>0
  <2> HIDE DEF len
  <2> QED BY <1>0, <2>1, <2>2
<1>2. SUFFICES ASSUME T # {} PROVE FALSE
  OBVIOUS
<1>3. PICK m \in T : \A k \in T : m <= k
  <2>1. T \in SUBSET Nat
    OBVIOUS
  <2> HIDE DEF T
  <2> QED BY <1>2, <2>1, LeastNatural
<1>4. m \in Nat /\ m < len /\ ~(\E f : Parses(f, ws, len - m))
  OBVIOUS
<1>5. m # 0
  <2>1. Parses([i \in {} |-> {}], ws, len)
    <3>1. len .. Len(ws) + 3 = {}
      BY <1>0
    <3> HIDE DEF len
    <3> QED BY <3>1 DEF Parses
  <2>2. len - 0 = len
    BY <1>0
  <2> HIDE DEF len
  <2> QED BY <1>4, <2>1, <2>2
<1> DEFINE n == len - m
<1>6. PICK f : Parses(f, ws, n + 1)
  <2>1. m - 1 \in Nat /\ m - 1 \notin T /\ m - 1 < len /\ len - (m - 1) = n + 1
    <3>1. m - 1 \in Nat /\ m - 1 < len /\ len - (m - 1) = n + 1 /\ ~(m <= m - 1)
      BY <1>0, <1>4, <1>5
    <3> HIDE DEF T, n, len
    <3> QED BY <1>3, <3>1
  <2> HIDE DEF n
  <2> QED BY <2>1
<1> DEFINE g == [i \in n .. Len(ws) + 3 |-> IF i = n THEN FromPlace(f, ws, n) ELSE f[i]]
<1>7. n \in Nat /\ n >= 1 /\ n <= Len(ws) + 3
  BY <1>0, <1>4, <1>5
<1>8. \A i \in n .. Len(ws) + 3 : g[i] = FromPlace(g, ws, i)
  <2> TAKE i \in n .. Len(ws) + 3
  <2> HIDE DEF n, T, len
  <2>1. \A k \in n + 1 .. Len(ws) + 3 : f[k] = FromPlace(f, ws, k) /\ g[k] = f[k]
    <3>1. \A k \in n + 1 .. Len(ws) + 3 : k \in n .. Len(ws) + 3 /\ k # n
      BY <1>7
    <3> QED BY <1>6, <3>1 DEF Parses
  <2>2. FromPlace(g, ws, i) = FromPlace(f, ws, i)
    <3>1. CASE i + 2 > Len(ws)
      BY <3>1 DEF FromPlace
    <3>2. CASE ~(i + 2 > Len(ws))
      <4> DEFINE last == i + 2 + ws[i + 2]
      <4>1. i \in Nat /\ i >= n /\ ws[i + 2] \in Nat
        BY <1>7, <3>2
      <4>2. last \in Nat /\ (~(last > Len(ws)) => last + 1 \in n + 1 .. Len(ws) + 3)
        <5> DEFINE w == ws[i + 2]
        <5>1. w \in Nat
          BY <4>1
        <5> HIDE DEF w
        <5>2. \A l \in Nat : i + 2 + w \in Nat /\ (~(i + 2 + w > l) => i + 2 + w + 1 \in n + 1 .. l + 3)
          BY <1>7, <4>1, <5>1
        <5>3. Len(ws) \in Nat
          OBVIOUS
        <5> QED BY <5>2, <5>3 DEF w
      <4>3. ~(last > Len(ws)) => g[last + 1] = f[last + 1]
        <5> HIDE DEF last, g
        <5> QED BY <4>2, <2>1
      <4> HIDE DEF g
      <4> QED BY <4>3 DEF FromPlace
    <3> QED BY <3>1, <3>2
  <2>3. CASE i = n
    BY <1>7, <2>2, <2>3
  <2>4. CASE i # n
    <3>1. i \in n + 1 .. Len(ws) + 3
      BY <1>7, <2>4
    <3> HIDE DEF g
    <3> QED BY <2>1, <2>2, <3>1
  <2> QED BY <2>3, <2>4
<1>9. Parses(g, ws, n)
  <2>1. g = [i \in n .. Len(ws) + 3 |-> g[i]]
    OBVIOUS
  <2> HIDE DEF g, T, n
  <2> QED BY <1>8, <2>1 DEF Parses
<1> HIDE DEF g
<1> QED BY <1>4, <1>9

LEMMA ParseIs ==
  ASSUME NEW ws \in Seq(Nat)
  PROVE  \E f : Parses(f, ws, 1) /\ ParsedFrom(ws) = f[1]
<1> DEFINE f == CHOOSE g : Parses(g, ws, 1)
<1>1. ParsedFrom(ws) = f[1]
  BY DEF ParsedFrom, Parses, FromPlace
<1>2. Parses(f, ws, 1)
  BY ParseExists
<1> QED BY <1>1, <1>2

\* From every place on there are blocks.
LEMMA ParseType ==
  ASSUME NEW ws \in Seq(Nat), NEW f, Parses(f, ws, 1)
  PROVE  \A i \in 1 .. Len(ws) + 3 : f[i] \in Seq(BlockOf)
<1> DEFINE T == {i \in 1 .. Len(ws) + 3 : f[i] \notin Seq(BlockOf)}
<1>1. SUFFICES ASSUME T # {} PROVE FALSE
  OBVIOUS
<1>2. PICK m \in T : \A k \in T : k <= m
  <2>1. T \in SUBSET Nat /\ Len(ws) + 3 \in Nat /\ \A x \in T : x <= Len(ws) + 3
    OBVIOUS
  <2> HIDE DEF T
  <2> QED BY <1>1, <2>1, GreatestNatural
<1>3. m \in 1 .. Len(ws) + 3 /\ f[m] \notin Seq(BlockOf)
  OBVIOUS
<1>4. f[m] = FromPlace(f, ws, m)
  BY <1>3 DEF Parses
<1>5. \A k \in 1 .. Len(ws) + 3 : k > m => f[k] \in Seq(BlockOf)
  <2> TAKE k \in 1 .. Len(ws) + 3
  <2>1. k > m => ~(k <= m)
    BY <1>3
  <2> QED BY <1>2, <2>1
<1>6. ~(m + 2 > Len(ws))
  <2>1. <<>> \in Seq(BlockOf)
    OBVIOUS
  <2> QED BY <1>3, <1>4, <2>1 DEF FromPlace
<1> DEFINE last == m + 2 + ws[m + 2]
<1>7. m \in Nat /\ m >= 1 /\ ws[m] \in Nat /\ ws[m + 1] \in Nat /\ ws[m + 2] \in Nat /\ last \in Nat /\ last >= m + 2
  BY <1>3, <1>6
<1>8. CASE last > Len(ws)
  <2>1. SubSeq(ws, m + 3, Len(ws)) \in Seq(Nat)
    <3>1. \A i \in m + 3 .. Len(ws) : i \in 1 .. Len(ws)
      <4> HIDE DEF T, last
      <4> QED BY <1>7
    <3>2. \A i \in 1 .. Len(ws) : ws[i] \in Nat
      OBVIOUS
    <3>3. \A i \in m + 3 .. Len(ws) : ws[i] \in Nat
      <4> HIDE DEF T
      <4> QED BY <3>1, <3>2
    <3> HIDE DEF T
    <3> QED BY <1>7, <3>3, SubSeqProperties
  <2> DEFINE b == [mem |-> ws[m], pc |-> ws[m + 1], words |-> SubSeq(ws, m + 3, Len(ws))]
  <2>2. b \in BlockOf
    BY <1>7, <2>1 DEF BlockOf
  <2>3. <<b>> \in Seq(BlockOf)
    <3> HIDE DEF b
    <3> QED BY <2>2
  <2>4. f[m] = <<b>>
    BY <1>4, <1>6, <1>8 DEF FromPlace
  <2> QED BY <1>3, <2>3, <2>4
<1>9. CASE ~(last > Len(ws))
  <2>1. SubSeq(ws, m + 3, last) \in Seq(Nat)
    <3> HIDE DEF T, last
    <3>1. \A i \in m + 3 .. last : i \in 1 .. Len(ws)
      BY <1>7, <1>9
    <3>3. \A i \in 1 .. Len(ws) : ws[i] \in Nat
      OBVIOUS
    <3>4. \A i \in m + 3 .. last : ws[i] \in Nat
      BY <3>1, <3>3
    <3>2. m + 3 \in Int /\ last \in Int
      BY <1>7
    <3> QED BY <3>4, <3>2, SubSeqProperties
  <2> DEFINE b == [mem |-> ws[m], pc |-> ws[m + 1], words |-> SubSeq(ws, m + 3, last)]
  <2>2. b \in BlockOf
    BY <1>7, <2>1 DEF BlockOf
  <2>3. last + 1 \in 1 .. Len(ws) + 3 /\ last + 1 > m
    <3> HIDE DEF last
    <3> QED BY <1>7, <1>9
  <2>4. f[last + 1] \in Seq(BlockOf)
    BY <1>5, <2>3
  <2>5. <<b>> \o f[last + 1] \in Seq(BlockOf)
    <3> HIDE DEF b, last
    <3> QED BY <2>2, <2>4
  <2>6. f[m] = <<b>> \o f[last + 1]
    BY <1>4, <1>6, <1>9 DEF FromPlace
  <2> QED BY <1>3, <2>5, <2>6
<1> QED BY <1>8, <1>9

\* The words of a block, and where the blocks bs stand in ws.
Coded(b) == <<b.mem, b.pc, Len(b.words)>> \o b.words

Stands(ws, i, b) ==
  /\ ws[i] = b.mem /\ ws[i + 1] = b.pc /\ ws[i + 2] = Len(b.words)
  /\ SubSeq(ws, i + 3, i + 2 + Len(b.words)) = b.words

Laid(at, ws, bs) ==
  /\ at \in [1 .. Len(bs) + 1 -> Nat \ {0}] /\ at[1] = 1
  /\ \A k \in 1 .. Len(bs) : /\ at[k + 1] = at[k] + 3 + Len(bs[k].words)
                             /\ at[k + 1] <= Len(ws) + 1
                             /\ Stands(ws, at[k], bs[k])

Reads(ws, bs, end) == \E at : Laid(at, ws, bs) /\ at[Len(bs) + 1] = end

LEMMA BlockParts ==
  ASSUME NEW b \in BlockOf
  PROVE  /\ b.mem \in Nat /\ b.pc \in Nat /\ b.words \in Seq(Nat) /\ Len(b.words) \in Nat
         /\ b = [mem |-> b.mem, pc |-> b.pc, words |-> b.words]
BY DEF BlockOf

LEMMA JoinedType == ASSUME NEW S, NEW s \in Seq(S), NEW t \in Seq(S) PROVE s \o t \in Seq(S)
OBVIOUS

LEMMA JoinedLen == ASSUME NEW S, NEW s \in Seq(S), NEW t \in Seq(S) PROVE Len(s \o t) = Len(s) + Len(t)
OBVIOUS

LEMMA JoinedFront ==
  ASSUME NEW S, NEW s \in Seq(S), NEW t \in Seq(S), NEW k \in 1 .. Len(s)
  PROVE  (s \o t)[k] = s[k]
OBVIOUS

LEMMA JoinedBack ==
  ASSUME NEW S, NEW s \in Seq(S), NEW t \in Seq(S), NEW k \in 1 .. Len(t)
  PROVE  (s \o t)[Len(s) + k] = t[k]
OBVIOUS

LEMMA JoinedTwice ==
  ASSUME NEW S, NEW s \in Seq(S), NEW t \in Seq(S), NEW u \in Seq(S)
  PROVE  s \o (t \o u) = (s \o t) \o u
BY ConcatAssociative

LEMMA WordsTwice ==
  \A s, t, u \in Seq(Nat) : s \o (t \o u) = (s \o t) \o u
BY JoinedTwice

LEMMA WordsBack ==
  \A s, t \in Seq(Nat) : \A k \in 1 .. Len(t) : (s \o t)[Len(s) + k] = t[k]
BY JoinedBack

LEMMA JoinedSecond ==
  ASSUME NEW S, NEW s \in Seq(S), NEW t \in Seq(S), t # <<>>, NEW x \in Nat, NEW y \in Nat, NEW l \in Nat,
         l = Len(s), x = l + 1, y = l + Len(t)
  PROVE  SubSeq(s \o t, x, y) = t
<1>1. Len(t) \in Nat \ {0}
  OBVIOUS
<1>2. x \in Len(s) + 1 .. Len(s) + Len(t) /\ y \in Len(s) + 1 .. Len(s) + Len(t)
  BY <1>1
<1>3. SubSeq(s \o t, x, y) = SubSeq(t, x - Len(s), y - Len(s))
  BY <1>2, SubSeqOfConcat2
<1>4. x - l = 1 /\ y - l = Len(t)
  BY <1>1
<1>5. SubSeq(t, 1, Len(t)) = t
  BY SubSeqFull
<1> QED BY <1>3, <1>4, <1>5

LEMMA SameSequence ==
  ASSUME NEW S, NEW s \in Seq(S), NEW t \in Seq(S), Len(s) = Len(t), \A i \in 1 .. Len(s) : s[i] = t[i]
  PROVE  s = t
OBVIOUS

LEMMA AppendToOne ==
  ASSUME NEW T, NEW a \in T, NEW b \in T
  PROVE  Append(<<a>>, b) = <<a, b>>
<1>1. <<a>> \in Seq(T) /\ <<a, b>> \in Seq(T)
  OBVIOUS
<1>2. Append(<<a>>, b) \in Seq(T) /\ Len(Append(<<a>>, b)) = 2
  BY <1>1
<1>3. Append(<<a>>, b)[1] = a /\ Append(<<a>>, b)[2] = b
  BY <1>1
<1>4. PICK s \in Seq(T), t \in Seq(T) : s = Append(<<a>>, b) /\ t = <<a, b>>
  BY <1>1, <1>2
<1>5. Len(s) = 2 /\ Len(t) = 2 /\ s[1] = t[1] /\ s[2] = t[2]
  BY <1>2, <1>3, <1>4
<1>6. Len(s) = Len(t) /\ \A i \in 1 .. Len(s) : s[i] = t[i]
  BY <1>5
<1>7. s = t
  BY <1>6, SameSequence
<1> QED BY <1>4, <1>7

LEMMA LenNat == ASSUME NEW S, NEW s \in Seq(S) PROVE Len(s) \in Nat
OBVIOUS

LEMMA CodedType ==
  ASSUME NEW b \in BlockOf
  PROVE  Coded(b) \in Seq(Nat) /\ Len(Coded(b)) = 3 + Len(b.words)
<1> DEFINE ws == b.words
           h == <<b.mem, b.pc, Len(ws)>>
<1>1. ws \in Seq(Nat) /\ h \in Seq(Nat) /\ Len(h) = 3
  BY BlockParts
<1> HIDE DEF ws, h
<1>2. h \o ws \in Seq(Nat) /\ Len(h \o ws) = 3 + Len(ws)
  <2>1. h \o ws \in Seq(Nat)
    BY <1>1, JoinedType
  <2>2. Len(h \o ws) = Len(h) + Len(ws)
    BY <1>1, JoinedLen
  <2> QED BY <1>1, <2>1, <2>2
<1> QED BY <1>2 DEF Coded, ws, h

LEMMA ReadsNothing == Reads(<<>>, <<>>, 1)
<1> DEFINE at == [k \in 1 .. 1 |-> 1]
<1>1. Laid(at, <<>>, <<>>) /\ at[Len(<<>>) + 1] = 1
  BY DEF Laid
<1> QED BY <1>1 DEF Reads

LEMMA StandsMore ==
  ASSUME NEW ws \in Seq(Nat), NEW more \in Seq(Nat), NEW b \in BlockOf, NEW i \in Nat \ {0},
         i + 3 + Len(b.words) <= Len(ws) + 1, Stands(ws, i, b)
  PROVE  Stands(ws \o more, i, b)
<1> DEFINE all == ws \o more
           n == Len(b.words)
<1>1. n \in Nat
  BY BlockParts
<1>2. \A k \in 1 .. Len(ws) : all[k] = ws[k]
  OBVIOUS
<1>3. i \in 1 .. Len(ws) /\ i + 1 \in 1 .. Len(ws) /\ i + 2 \in 1 .. Len(ws) /\ i + 3 + n <= Len(ws) + 1
  <2>1. i + 3 + n <= Len(ws) + 1
    BY Zenon
  <2>2. Len(ws) \in Nat
    OBVIOUS
  <2> HIDE DEF all, n
  <2> QED BY <1>1, <2>1, <2>2
<1>4. SubSeq(all, i + 3, i + 2 + n) = SubSeq(ws, i + 3, i + 2 + n)
  <2>1. CASE n = 0
    <3>1. i + 3 \in Int /\ i + 2 + n \in Int /\ i + 2 + n < i + 3
      BY <2>1
    <3> HIDE DEF n, all
    <3> QED BY <3>1, SubSeqEmpty
  <2>2. CASE n # 0
    <3> HIDE DEF n, all
    <3>1. i + 3 \in 1 .. Len(ws) /\ i + 2 + n \in 1 .. Len(ws)
      BY <1>1, <1>3, <2>2
    <3> QED BY <3>1, SubSeqOfConcat1 DEF all
  <2> QED BY <2>1, <2>2
<1>5. all[i] = b.mem /\ all[i + 1] = b.pc /\ all[i + 2] = Len(b.words)
  <2> HIDE DEF all
  <2> QED BY <1>2, <1>3 DEF Stands
<1> HIDE DEF all
<1> QED BY <1>4, <1>5 DEF Stands, all, n

LEMMA ReadsMore ==
  ASSUME NEW ws \in Seq(Nat), NEW more \in Seq(Nat), NEW bs \in Seq(BlockOf), NEW end, Reads(ws, bs, end)
  PROVE  Reads(ws \o more, bs, end)
<1>1. PICK at : Laid(at, ws, bs) /\ at[Len(bs) + 1] = end
  BY DEF Reads
<1>2. Len(ws \o more) = Len(ws) + Len(more) /\ Len(ws) \in Nat /\ Len(more) \in Nat
  OBVIOUS
<1>3. ASSUME NEW k \in 1 .. Len(bs)
      PROVE  /\ at[k + 1] = at[k] + 3 + Len(bs[k].words)
             /\ at[k + 1] <= Len(ws \o more) + 1
             /\ Stands(ws \o more, at[k], bs[k])
  <2>1. /\ at[k + 1] = at[k] + 3 + Len(bs[k].words) /\ at[k + 1] <= Len(ws) + 1 /\ Stands(ws, at[k], bs[k])
        /\ at[k] \in Nat \ {0} /\ at[k + 1] \in Nat
    <3>1. k \in 1 .. Len(bs) + 1 /\ k + 1 \in 1 .. Len(bs) + 1
      OBVIOUS
    <3> QED BY <1>1, <3>1 DEF Laid
  <2>2. bs[k] \in BlockOf
    OBVIOUS
  <2>3. Stands(ws \o more, at[k], bs[k])
    BY <2>1, <2>2, StandsMore
  <2> QED BY <1>2, <2>1, <2>3
<1>4. Laid(at, ws \o more, bs)
  <2> DEFINE all == ws \o more
  <2>1. at \in [1 .. Len(bs) + 1 -> Nat \ {0}] /\ at[1] = 1
    BY <1>1 DEF Laid
  <2> HIDE DEF all
  <2> QED BY <1>3, <2>1 DEF Laid, all
<1> QED BY <1>1, <1>4 DEF Reads

LEMMA StandsLast ==
  ASSUME NEW ws \in Seq(Nat), NEW b \in BlockOf
  PROVE  Stands(ws \o Coded(b), Len(ws) + 1, b)
<1>1. b.mem \in Nat /\ b.pc \in Nat /\ b.words \in Seq(Nat) /\ Len(b.words) \in Nat
  BY BlockParts
<1>2. PICK h \in Seq(Nat) : h = <<b.mem, b.pc, Len(b.words)>>
  <2>1. <<b.mem, b.pc, Len(b.words)>> \in Seq(Nat)
    BY <1>1
  <2> QED BY <2>1
<1>3. Len(h) = 3 /\ h[1] = b.mem /\ h[2] = b.pc /\ h[3] = Len(b.words)
  BY <1>2
<1>4. PICK w \in Seq(Nat), i \in Nat : w = b.words /\ i = Len(ws) + 1
  BY <1>1, LenNat
<1>11. PICK pre \in Seq(Nat) : pre = ws \o h
  BY JoinedType
<1>12. PICK all \in Seq(Nat) : all = ws \o (h \o w)
  <2>1. h \o w \in Seq(Nat)
    BY JoinedType
  <2> QED BY <2>1, JoinedType
<1>13. all = pre \o w
  <2>1. ws \o (h \o w) = (ws \o h) \o w
    BY WordsTwice
  <2> QED BY <1>11, <1>12, <2>1
<1>14. Len(ws) \in Nat /\ Len(w) \in Nat /\ Len(pre) = Len(ws) + 3
  <2>1. Len(pre) = Len(ws) + Len(h)
    BY <1>11, JoinedLen
  <2> QED BY <1>3, <2>1
<1>15. \A k \in 1 .. Len(pre) : all[k] = pre[k]
  BY <1>13, JoinedFront
<1>16. pre[Len(ws) + 1] = h[1] /\ pre[Len(ws) + 2] = h[2] /\ pre[Len(ws) + 3] = h[3]
  <2>1. \A k \in 1 .. Len(h) : pre[Len(ws) + k] = h[k]
    BY <1>11, WordsBack
  <2>2. 1 \in 1 .. Len(h) /\ 2 \in 1 .. Len(h) /\ 3 \in 1 .. Len(h)
    BY <1>3
  <2> QED BY <2>1, <2>2
<1>17. all[i] = h[1] /\ all[i + 1] = h[2] /\ all[i + 2] = h[3]
  <2>1. i = Len(ws) + 1 /\ i + 1 = Len(ws) + 2 /\ i + 2 = Len(ws) + 3
    BY <1>4, <1>14
  <2>2. i \in 1 .. Len(pre) /\ i + 1 \in 1 .. Len(pre) /\ i + 2 \in 1 .. Len(pre)
    BY <1>14, <2>1
  <2> QED BY <1>15, <1>16, <2>1, <2>2
<1>18. SubSeq(all, i + 3, i + 2 + Len(w)) = w
  <2>1. CASE w = <<>>
    <3>1. i + 3 \in Int /\ i + 2 + Len(w) \in Int /\ i + 2 + Len(w) < i + 3
      BY <2>1
    <3>2. SubSeq(all, i + 3, i + 2 + Len(w)) = <<>>
      BY <3>1, SubSeqEmpty
    <3> QED BY <2>1, <3>2
  <2>2. CASE w # <<>>
    <3>1. PICK x \in Nat, y \in Nat : x = i + 3 /\ y = i + 2 + Len(w)
      <4>1. i + 3 \in Nat /\ i + 2 + Len(w) \in Nat
        BY <1>14
      <4> QED BY <4>1
    <3>2. x = Len(pre) + 1 /\ y = Len(pre) + Len(w) /\ Len(pre) \in Nat
      BY <1>4, <1>14, <3>1
    <3>3. SubSeq(pre \o w, x, y) = w
      BY <2>2, <3>2, JoinedSecond
    <3> QED BY <1>13, <3>1, <3>3
  <2> QED BY <2>1, <2>2
<1>5. Coded(b) = h \o w
  BY <1>2, <1>4 DEF Coded
<1>6. Stands(all, i, b)
  BY <1>3, <1>4, <1>17, <1>18 DEF Stands
<1> QED BY <1>4, <1>5, <1>6, <1>12

LEMMA ReadsBlock ==
  ASSUME NEW ws \in Seq(Nat), NEW bs \in Seq(BlockOf), NEW b \in BlockOf, Reads(ws, bs, Len(ws) + 1)
  PROVE  LET all == ws \o Coded(b) IN Reads(all, Append(bs, b), Len(all) + 1)
<1> DEFINE all == ws \o Coded(b)
           more == Append(bs, b)
           n == Len(bs)
           d == Len(b.words)
<1>0. n \in Nat /\ Len(more) = n + 1 /\ more[n + 1] = b /\ \A k \in 1 .. n : more[k] = bs[k]
  OBVIOUS
<1>1. d \in Nat /\ Len(ws) \in Nat /\ Len(all) = Len(ws) + 3 + d
  <2> DEFINE c == Coded(b)
  <2>1. c \in Seq(Nat) /\ Len(c) = 3 + d /\ d \in Nat
    BY CodedType, BlockParts
  <2> HIDE DEF c, d
  <2>2. Len(ws \o c) = Len(ws) + (3 + d) /\ Len(ws) \in Nat
    <3>1. Len(ws \o c) = Len(ws) + Len(c)
      BY <2>1, JoinedLen
    <3> QED BY <2>1, <3>1
  <2> QED BY <2>1, <2>2 DEF c
<1>2. PICK at : Laid(at, all, bs) /\ at[n + 1] = Len(ws) + 1
  <2>1. Reads(all, bs, Len(ws) + 1)
    BY CodedType, ReadsMore
  <2> HIDE DEF all
  <2> QED BY <2>1 DEF Reads
<1> DEFINE to == [k \in 1 .. n + 2 |-> IF k = n + 2 THEN Len(all) + 1 ELSE at[k]]
<1>3. at \in [1 .. n + 1 -> Nat \ {0}] /\ at[1] = 1
  <2> HIDE DEF all
  <2> QED BY <1>2 DEF Laid
<1>4. to \in [1 .. n + 2 -> Nat \ {0}] /\ to[1] = 1 /\ to[n + 2] = Len(all) + 1 /\ \A k \in 1 .. n + 1 : to[k] = at[k]
  <2> HIDE DEF all, n, d
  <2>1. \A k \in 1 .. n + 2 : k # n + 2 => k \in 1 .. n + 1
    BY <1>0
  <2>2. Len(all) + 1 \in Nat \ {0}
    BY <1>1
  <2>3. 1 \in 1 .. n + 2 /\ n + 2 \in 1 .. n + 2 /\ n + 2 # 1
    BY <1>0
  <2>4. \A k \in 1 .. n + 1 : k \in 1 .. n + 2 /\ k # n + 2
    BY <1>0
  <2> QED BY <1>3, <2>1, <2>2, <2>3, <2>4
<1>5. Stands(all, Len(ws) + 1, b)
  BY StandsLast
<1>6. ASSUME NEW k \in 1 .. n + 1
      PROVE  to[k + 1] = to[k] + 3 + Len(more[k].words) /\ to[k + 1] <= Len(all) + 1 /\ Stands(all, to[k], more[k])
  <2> HIDE DEF all, more, n, to
  <2>1. CASE k = n + 1
    <3>1. to[n + 1] = Len(ws) + 1 /\ to[n + 2] = Len(all) + 1 /\ k + 1 = n + 2
      BY <1>0, <1>2, <1>4, <2>1
    <3>2. to[k + 1] = to[k] + 3 + d /\ to[k + 1] <= Len(all) + 1
      <4> DEFINE la == Len(all)
      <4>1. la \in Nat /\ la = Len(ws) + 3 + d
        <5>1. la = Len(ws) + 3 + d
          BY <1>1, Zenon
        <5> HIDE DEF la, d
        <5> QED BY <1>1, <5>1
      <4>2. to[k] = Len(ws) + 1 /\ to[k + 1] = la + 1
        BY <2>1, <3>1
      <4> HIDE DEF la, d
      <4>3. to[k + 1] = to[k] + 3 + d /\ to[k + 1] <= la + 1
        BY <1>1, <4>1, <4>2
      <4> QED BY <4>3 DEF la
    <3> QED BY <1>0, <1>5, <2>1, <3>1, <3>2 DEF d
  <2>2. CASE k # n + 1
    <3>1. k \in 1 .. n /\ k + 1 \in 1 .. n + 1
      BY <1>0, <2>2
    <3>2. to[k] = at[k] /\ to[k + 1] = at[k + 1] /\ more[k] = bs[k]
      BY <1>0, <1>4, <3>1
    <3> QED BY <1>2, <3>1, <3>2 DEF Laid, n
  <2> QED BY <2>1, <2>2
<1>7. Laid(to, all, more)
  <2> HIDE DEF all, more, n, to
  <2>1. Len(more) = n + 1 /\ n + 1 + 1 = n + 2
    BY <1>0
  <2> QED BY <1>4, <1>6, <2>1 DEF Laid
<1>8. to[Len(more) + 1] = Len(all) + 1
  <2> HIDE DEF all, more, n, to
  <2> QED BY <1>0, <1>4
<1> HIDE DEF all, more, to
<1> QED BY <1>7, <1>8 DEF Reads, all, more

\* A block that stands at a place is read there, and then what follows it.
LEMMA BlockFits ==
  \A i \in Nat \ {0}, d, j, l \in Nat : j = i + 3 + d /\ j <= l + 1 =>
     i >= 1 /\ i <= l + 3 /\ ~(i + 2 > l) /\ ~(i + 2 + d > l) /\ i + 2 + d + 1 = j
OBVIOUS

Between(ws, i, j, b) == j = i + 3 + Len(b.words) /\ j <= Len(ws) + 1 /\ Stands(ws, i, b)

LEMMA ReadHere ==
  ASSUME NEW ws \in Seq(Nat), NEW b \in BlockOf, NEW f, Parses(f, ws, 1), NEW i \in Nat \ {0}, NEW j \in Nat,
         Between(ws, i, j, b)
  PROVE  f[i] = <<b>> \o f[j]
<1>1. PICK d \in Nat : d = Len(b.words)
  BY BlockParts
<1>2. Len(ws) \in Nat /\ j = i + 3 + d /\ j <= Len(ws) + 1
  <2>1. Len(ws) \in Nat
    OBVIOUS
  <2> QED BY <1>1, <2>1 DEF Between
<1>5. i >= 1 /\ i <= Len(ws) + 3 /\ ~(i + 2 > Len(ws)) /\ ~(i + 2 + d > Len(ws)) /\ i + 2 + d + 1 = j
  <2>1. PICK l \in Nat : l = Len(ws)
    BY <1>2
  <2>2. j = i + 3 + d /\ j <= l + 1
    BY <1>2, <2>1
  <2>3. i >= 1 /\ i <= l + 3 /\ ~(i + 2 > l) /\ ~(i + 2 + d > l) /\ i + 2 + d + 1 = j
    BY <2>2, BlockFits
  <2> QED BY <2>1, <2>3
<1>3. f[i] = FromPlace(f, ws, i)
  <2>1. i \in 1 .. Len(ws) + 3
    BY <1>2, <1>5
  <2> QED BY <2>1 DEF Parses
<1>4. ws[i] = b.mem /\ ws[i + 1] = b.pc /\ ws[i + 2] = d /\ SubSeq(ws, i + 3, i + 2 + d) = b.words
  BY <1>1 DEF Stands, Between
<1>6. b = [mem |-> b.mem, pc |-> b.pc, words |-> b.words]
  BY BlockParts
<1> QED BY <1>3, <1>4, <1>5, <1>6 DEF FromPlace

LEMMA ReadsParse ==
  ASSUME NEW ws \in Seq(Nat), NEW bs \in Seq(BlockOf), NEW end, Reads(ws, bs, end)
  PROVE  \E t \in Seq(BlockOf) : ParsedFrom(ws) = bs \o t /\ (end = Len(ws) + 1 => t = <<>>)
<1>1. PICK f : Parses(f, ws, 1) /\ ParsedFrom(ws) = f[1]
  BY ParseIs
<1>2. PICK at : Laid(at, ws, bs) /\ at[Len(bs) + 1] = end
  BY DEF Reads
<1>3. PICK n \in Nat : n = Len(bs)
  OBVIOUS
<1>4. \A k \in 1 .. n + 1 : at[k] \in 1 .. Len(ws) + 1
  <2> TAKE k \in 1 .. n + 1
  <2>1. at[k] \in Nat \ {0} /\ at[1] = 1
    BY <1>2, <1>3 DEF Laid
  <2>2. CASE k = 1
    BY <2>1, <2>2
  <2>3. CASE k # 1
    <3>1. PICK h \in 1 .. n : k = h + 1
      <4>1. k - 1 \in 1 .. n /\ k = k - 1 + 1
        BY <2>3
      <4> QED BY <4>1
    <3>2. at[k] <= Len(ws) + 1
      BY <1>2, <1>3, <3>1 DEF Laid
    <3> QED BY <2>1, <3>2
  <2> QED BY <2>2, <2>3
<1>5. PICK t \in Seq(BlockOf) : t = f[at[n + 1]]
  <2>1. at[n + 1] \in 1 .. Len(ws) + 3
    BY <1>4
  <2> QED BY <1>1, <2>1, ParseType
<1> DEFINE T == {k \in 1 .. n + 1 : f[at[k]] # SubSeq(bs, k, n) \o t}
<1>6. T = {}
  <2>1. SUFFICES ASSUME T # {} PROVE FALSE
    OBVIOUS
  <2>2. PICK m \in T : \A k \in T : k <= m
    <3>1. T \in SUBSET Nat /\ n + 1 \in Nat /\ \A x \in T : x <= n + 1
      OBVIOUS
    <3> HIDE DEF T
    <3> QED BY <2>1, <3>1, GreatestNatural
  <2>3. m \in 1 .. n + 1 /\ f[at[m]] # SubSeq(bs, m, n) \o t
    OBVIOUS
  <2>4. m # n + 1
    <3>1. SubSeq(bs, n + 1, n) = <<>>
      <4>1. n + 1 \in Int /\ n \in Int /\ n < n + 1
        OBVIOUS
      <4> QED BY <4>1, SubSeqEmpty
    <3>2. <<>> \o t = t
      OBVIOUS
    <3> HIDE DEF T
    <3> QED BY <1>5, <2>3, <3>1, <3>2
  <2>5. m \in 1 .. n /\ m + 1 \in 1 .. n + 1
    BY <2>3, <2>4
  <2>6. f[at[m + 1]] = SubSeq(bs, m + 1, n) \o t
    <3>1. m + 1 \notin T
      <4>1. ~(m + 1 <= m)
        BY <2>5
      <4> HIDE DEF T
      <4> QED BY <2>2, <4>1
    <3> QED BY <2>5, <3>1
  <2> HIDE DEF T
  <2>7. PICK b \in BlockOf : b = bs[m]
    BY <1>3, <2>5
  <2>8. PICK i \in Nat \ {0}, j \in Nat : i = at[m] /\ j = at[m + 1]
    <3>1. at[m] \in Nat \ {0} /\ at[m + 1] \in Nat
      <4>1. m \in 1 .. n + 1
        BY <2>5
      <4> QED BY <1>4, <2>5, <4>1
    <3> QED BY <3>1
  <2>9. j = i + 3 + Len(b.words) /\ j <= Len(ws) + 1 /\ Stands(ws, i, b)
    BY <1>2, <1>3, <2>5, <2>7, <2>8 DEF Laid
  <2>10. f[i] = <<b>> \o f[j]
    <3>1. Parses(f, ws, 1)
      BY <1>1
    <3>2. Between(ws, i, j, b)
      BY <2>9 DEF Between
    <3> QED BY <3>1, <3>2, ReadHere
  <2>11. SubSeq(bs, m, n) = <<b>> \o SubSeq(bs, m + 1, n)
    <3>1. m \in 1 .. Len(bs) /\ n \in m .. Len(bs)
      BY <1>3, <2>5
    <3> QED BY <2>7, <3>1, SubSeqRecursiveFirst
  <2>12. PICK s \in Seq(BlockOf) : s = SubSeq(bs, m + 1, n)
    <3>1. \A k \in m + 1 .. n : bs[k] \in BlockOf
      <4>1. \A k \in m + 1 .. n : k \in 1 .. n
        BY <2>5
      <4> QED BY <1>3, <4>1
    <3>2. m + 1 \in Int /\ n \in Int
      BY <2>5
    <3> QED BY <3>1, <3>2, SubSeqProperties
  <2>13. (<<b>> \o s) \o t = <<b>> \o (s \o t)
    <3>1. <<b>> \in Seq(BlockOf)
      OBVIOUS
    <3> QED BY <3>1, ConcatAssociative
  <2> QED BY <2>3, <2>6, <2>8, <2>10, <2>11, <2>12, <2>13
<1>7. ParsedFrom(ws) = bs \o t
  <2>1. 1 \in 1 .. n + 1 /\ 1 \notin T
    <3>1. 1 \in 1 .. n + 1
      OBVIOUS
    <3> HIDE DEF T
    <3> QED BY <1>6, <3>1
  <2>2. f[at[1]] = SubSeq(bs, 1, n) \o t
    BY <2>1
  <2>3. SubSeq(bs, 1, n) = bs
    BY <1>3, SubSeqFull
  <2> HIDE DEF T
  <2> QED BY <1>1, <1>2, <2>2, <2>3 DEF Laid
<1>8. end = Len(ws) + 1 => t = <<>>
  <2>1. SUFFICES ASSUME end = Len(ws) + 1 PROVE t = <<>>
    OBVIOUS
  <2>2. at[n + 1] = Len(ws) + 1
    BY <1>2, <1>3, <2>1
  <2>3. Len(ws) + 1 \in 1 .. Len(ws) + 3 /\ Len(ws) + 1 + 2 > Len(ws)
    OBVIOUS
  <2>4. f[Len(ws) + 1] = <<>>
    BY <1>1, <2>3 DEF Parses, FromPlace
  <2> QED BY <1>5, <2>2, <2>4
<1> QED BY <1>7, <1>8

----------------------------------------------------------------------------
(* What one section becomes.                                               *)

LEMMA FlattenTwo ==
  ASSUME NEW S, NEW a \in Seq(S), NEW b \in Seq(S)
  PROVE  FlattenSeq(<<a, b>>) = a \o b
<1>1. <<a>> \in Seq(Seq(S)) /\ Append(<<a>>, b) = <<a, b>>
  <2> DEFINE T == Seq(S)
  <2>1. a \in T /\ b \in T
    OBVIOUS
  <2> HIDE DEF T
  <2>2. <<a>> \in Seq(T)
    BY <2>1
  <2>3. Append(<<a>>, b) = <<a, b>>
    BY <2>1, AppendToOne
  <2> QED BY <2>2, <2>3 DEF T
<1>2. FlattenSeq(Append(<<a>>, b)) = FlattenSeq(<<a>>) \o b
  BY <1>1, FlattenAppend
<1> QED BY <1>1, <1>2, FlattenOne

\* A block of a section with the address its header tells.
Told(b) == [mem |-> b.mem, pc |-> Address(b.pc), words |-> b.words]

LEMMA AddressType == \A n \in Nat : Address(n) \in Nat
BY OutputAssumption DEF Address

LEMMA ChunkParts ==
  ASSUME NEW c \in Chunks
  PROVE  c.pc \in Nat /\ c.mem_type \in {P_MEM, X_MEM, Y_MEM, L_MEM} /\ c.words \in Seq(Nat) /\ Len(c.words) \in Nat
BY DEF Chunks, P_MEM, X_MEM, Y_MEM, L_MEM

LEMMA Half == \A n \in Nat : n \div 2 \in Nat /\ n \div 2 <= n /\ 2 * (n \div 2) <= n
OBVIOUS

LEMMA HalfWords ==
  ASSUME NEW w \in Seq(Nat), NEW d \in {0, 1}
  PROVE  [i \in 1 .. Len(w) \div 2 |-> w[2 * i - 1 + d]] \in Seq(Nat)
<1>1. PICK n \in Nat : n = Len(w) \div 2 /\ 2 * n <= Len(w)
  OBVIOUS
<1>2. \A i \in 1 .. n : w[2 * i - 1 + d] \in Nat
  <2> TAKE i \in 1 .. n
  <2>1. 2 * i - 1 + d \in 1 .. Len(w)
    BY <1>1
  <2> QED BY <2>1
<1>3. [i \in 1 .. n |-> w[2 * i - 1 + d]] \in [1 .. n -> Nat]
  BY <1>2
<1>4. [i \in 1 .. n |-> w[2 * i - 1 + d]] \in Seq(Nat)
  <2> DEFINE g == [i \in 1 .. n |-> w[2 * i - 1 + d]]
  <2>1. g \in [1 .. n -> Nat]
    BY <1>3
  <2> HIDE DEF g
  <2>2. g \in Seq(Nat)
    BY <2>1
  <2> QED BY <2>2 DEF g
<1> QED BY <1>1, <1>4

\* The two halves of a section of L: memory.
LEMMA LBlocks ==
  ASSUME NEW c \in Chunks, c.mem_type = L_MEM
  PROVE  \E x, y \in BlockOf : /\ BlocksOf(c) = <<x, y>> /\ Told(x) \in BlockOf /\ Told(y) \in BlockOf
                               /\ Kept(c) => ExpectedOf(c) = <<Told(x), Told(y)>>
                               /\ Len(x.words) <= Len(c.words) /\ Len(y.words) <= Len(c.words)
                               /\ (c.words = <<>> => Len(x.words) = 0 /\ Len(y.words) = 0)
<1> DEFINE w == c.words
           x == Block(c, X_MEM, 1, 1)
           y == Block(c, Y_MEM, 0, 1)
<1>1. c.pc \in Nat /\ w \in Seq(Nat) /\ Len(w) \in Nat /\ Len(w) \div 2 \in Nat /\ Len(w) \div 2 <= Len(w)
      /\ Address(c.pc) \in Nat
  <2>1. c.pc \in Nat /\ c.words \in Seq(Nat) /\ Len(c.words) \in Nat
    BY ChunkParts
  <2>2. Address(c.pc) \in Nat
    BY <2>1, AddressType
  <2>3. Len(c.words) \div 2 \in Nat /\ Len(c.words) \div 2 <= Len(c.words)
    BY <2>1, Half
  <2> QED BY <2>1, <2>2, <2>3
<1>2. x.words = [i \in 1 .. Len(w) \div 2 |-> w[2 * i]] /\ y.words = [i \in 1 .. Len(w) \div 2 |-> w[2 * i - 1]]
  BY DEF Block, Taken
<1>3. x.words \in Seq(Nat) /\ y.words \in Seq(Nat)
  <2> HIDE DEF w
  <2>1. [i \in 1 .. Len(w) \div 2 |-> w[2 * i - 1 + 1]] \in Seq(Nat) /\ [i \in 1 .. Len(w) \div 2 |-> w[2 * i - 1 + 0]] \in Seq(Nat)
    BY <1>1, HalfWords
  <2>2. 1 # 0
    OBVIOUS
  <2>3. Taken(c, 1, 1) = [i \in 1 .. Len(w) \div 2 |-> w[2 * i - 1 + 1]]
    BY <2>2, Zenon DEF Taken, w
  <2>4. Taken(c, 0, 1) = [i \in 1 .. Len(w) \div 2 |-> w[2 * i - 1 + 0]]
    BY <2>2, Zenon DEF Taken, w
  <2>5. x.words = Taken(c, 1, 1) /\ y.words = Taken(c, 0, 1)
    BY DEF Block
  <2> QED BY <2>1, <2>3, <2>4, <2>5
<1>4. Len(x.words) = Len(w) \div 2 /\ Len(y.words) = Len(w) \div 2
  <2> DEFINE n == Len(w) \div 2
  <2>1. n \in Nat
    BY <1>1
  <2> HIDE DEF n
  <2>2. Len([i \in 1 .. n |-> w[2 * i]]) = n /\ Len([i \in 1 .. n |-> w[2 * i - 1]]) = n
    BY <2>1
  <2> QED BY <1>2, <2>2 DEF n
<1>5. x = [mem |-> X_MEM, pc |-> c.pc, words |-> x.words] /\ y = [mem |-> Y_MEM, pc |-> c.pc, words |-> y.words]
  BY DEF Block
<1>6. x \in BlockOf /\ y \in BlockOf /\ Told(x) \in BlockOf /\ Told(y) \in BlockOf
  <2> HIDE DEF x, y, w
  <2> QED BY <1>1, <1>3, <1>5 DEF BlockOf, Told, X_MEM, Y_MEM
<1>7. BlocksOf(c) = <<x, y>>
  BY DEF BlocksOf
<1>8. Kept(c) => ExpectedOf(c) = <<Told(x), Told(y)>>
  <2>1. Kept(c) => ExpectedOf(c) =
          <<[mem |-> X_MEM, pc |-> Address(c.pc), words |-> [k \in 1 .. Len(w) \div 2 |-> w[2 * k]]],
            [mem |-> Y_MEM, pc |-> Address(c.pc), words |-> [k \in 1 .. Len(w) \div 2 |-> w[2 * k - 1]]]>>
    BY DEF Kept, AllZero, ExpectedOf
  <2> HIDE DEF x, y, w
  <2>2. Told(x) = [mem |-> X_MEM, pc |-> Address(c.pc), words |-> x.words] /\ Told(y) = [mem |-> Y_MEM, pc |-> Address(c.pc), words |-> y.words]
    BY <1>5 DEF Told
  <2> QED BY <1>2, <2>1, <2>2
<1>9. c.words = <<>> => Len(x.words) = 0 /\ Len(y.words) = 0
  <2>1. c.words = <<>> => Len(w) \div 2 = 0
    OBVIOUS
  <2> HIDE DEF x, y
  <2> QED BY <1>4, <2>1
<1> HIDE DEF x, y
<1> QED BY <1>1, <1>4, <1>6, <1>7, <1>8, <1>9

\* A section of another memory is one block.
LEMMA PlainBlock ==
  ASSUME NEW c \in Chunks, c.mem_type # L_MEM
  PROVE  \E b \in BlockOf : /\ BlocksOf(c) = <<b>> /\ Told(b) \in BlockOf /\ b.words = c.words
                            /\ Kept(c) => ExpectedOf(c) = <<Told(b)>>
<1> DEFINE b == Block(c, c.mem_type, 0, 0)
<1>1. c.pc \in Nat /\ c.mem_type \in Nat /\ c.words \in Seq(Nat) /\ Address(c.pc) \in Nat
  <2>1. c.pc \in Nat /\ c.mem_type \in Nat /\ c.words \in Seq(Nat)
    BY ChunkParts DEF P_MEM, X_MEM, Y_MEM, L_MEM
  <2> QED BY <2>1, AddressType
<1>2. b = [mem |-> c.mem_type, pc |-> c.pc, words |-> c.words]
  BY DEF Block, Taken
<1> HIDE DEF b
<1>3. b \in BlockOf /\ Told(b) \in BlockOf /\ b.words = c.words
  BY <1>1, <1>2 DEF BlockOf, Told
<1>4. BlocksOf(c) = <<b>>
  BY DEF BlocksOf, b
<1>5. Kept(c) => ExpectedOf(c) = <<Told(b)>>
  BY <1>2 DEF Kept, AllZero, ExpectedOf, Told
<1> QED BY <1>3, <1>4, <1>5

LEMMA Dropped ==
  ASSUME NEW c \in Chunks, ~Kept(c)
  PROVE  ExpectedOf(c) = <<>> /\ Embedded(c) = <<>>
BY DEF Kept, AllZero, ExpectedOf, Embedded

LEMMA EmbededCodes ==
  ASSUME NEW b \in BlockOf
  PROVE  SaveDataEmbeded(b) = Coded(Told(b))
BY DEF SaveDataEmbeded, Coded, Told

\* The words of an embedded file are those of the blocks.
LEMMA EmbeddedOfL ==
  ASSUME NEW c \in Chunks, c.mem_type = L_MEM, Kept(c)
  PROVE  \E x, y \in BlockOf : ExpectedOf(c) = <<x, y>> /\ Embedded(c) = Coded(x) \o Coded(y)
<1>1. PICK x \in BlockOf, y \in BlockOf :
         BlocksOf(c) = <<x, y>> /\ Told(x) \in BlockOf /\ Told(y) \in BlockOf /\ ExpectedOf(c) = <<Told(x), Told(y)>>
  BY LBlocks
<1>2. Embedded(c) = FlattenSeq([i \in DOMAIN <<x, y>> |-> SaveDataEmbeded(<<x, y>>[i])])
  BY <1>1 DEF Embedded
<1>3. [i \in DOMAIN <<x, y>> |-> SaveDataEmbeded(<<x, y>>[i])] = <<Coded(Told(x)), Coded(Told(y))>>
  <2>1. SaveDataEmbeded(x) = Coded(Told(x)) /\ SaveDataEmbeded(y) = Coded(Told(y))
    BY EmbededCodes
  <2> QED BY <2>1
<1>4. Coded(Told(x)) \in Seq(Nat) /\ Coded(Told(y)) \in Seq(Nat)
  BY <1>1, CodedType
<1>5. FlattenSeq(<<Coded(Told(x)), Coded(Told(y))>>) = Coded(Told(x)) \o Coded(Told(y))
  BY <1>4, FlattenTwo
<1> QED BY <1>1, <1>2, <1>3, <1>5

LEMMA EmbeddedOfPlain ==
  ASSUME NEW c \in Chunks, c.mem_type # L_MEM, Kept(c)
  PROVE  \E b \in BlockOf : ExpectedOf(c) = <<b>> /\ Embedded(c) = Coded(b)
<1>1. PICK b \in BlockOf : BlocksOf(c) = <<b>> /\ Told(b) \in BlockOf /\ ExpectedOf(c) = <<Told(b)>>
  BY PlainBlock
<1>2. Embedded(c) = FlattenSeq([i \in DOMAIN <<b>> |-> SaveDataEmbeded(<<b>>[i])])
  BY <1>1 DEF Embedded
<1>3. [i \in DOMAIN <<b>> |-> SaveDataEmbeded(<<b>>[i])] = <<Coded(Told(b))>>
  <2>1. SaveDataEmbeded(b) = Coded(Told(b))
    BY EmbededCodes
  <2> QED BY <2>1
<1>4. FlattenSeq(<<Coded(Told(b))>>) = Coded(Told(b))
  BY <1>1, CodedType, FlattenOne
<1> QED BY <1>1, <1>2, <1>3, <1>4

LEMMA SectionTypes ==
  ASSUME NEW c \in Chunks
  PROVE  ExpectedOf(c) \in Seq(BlockOf) /\ Embedded(c) \in Seq(Nat)
<1>1. CASE ~Kept(c)
  <2>1. <<>> \in Seq(BlockOf) /\ <<>> \in Seq(Nat)
    OBVIOUS
  <2> QED BY <1>1, <2>1, Dropped
<1>2. CASE Kept(c) /\ c.mem_type = L_MEM
  <2>1. PICK x \in BlockOf, y \in BlockOf : ExpectedOf(c) = <<x, y>> /\ Embedded(c) = Coded(x) \o Coded(y)
    BY <1>2, EmbeddedOfL
  <2>2. <<x, y>> \in Seq(BlockOf)
    OBVIOUS
  <2>3. Coded(x) \in Seq(Nat) /\ Coded(y) \in Seq(Nat)
    BY CodedType
  <2> QED BY <2>1, <2>2, <2>3, JoinedType
<1>3. CASE Kept(c) /\ c.mem_type # L_MEM
  <2>1. PICK b \in BlockOf : ExpectedOf(c) = <<b>> /\ Embedded(c) = Coded(b)
    BY <1>3, EmbeddedOfPlain
  <2>2. <<b>> \in Seq(BlockOf)
    OBVIOUS
  <2> QED BY <2>1, <2>2, CodedType
<1> QED BY <1>1, <1>2, <1>3

\* The blocks of a section, read behind others.
LEMMA SectionReads ==
  ASSUME NEW c \in Chunks, NEW ws \in Seq(Nat), NEW bs \in Seq(BlockOf), Reads(ws, bs, Len(ws) + 1)
  PROVE  \E all \in Seq(Nat) : all = ws \o Embedded(c) /\ Reads(all, bs \o ExpectedOf(c), Len(all) + 1)
<1>1. CASE ~Kept(c)
  <2>1. ws \o <<>> = ws /\ bs \o <<>> = bs
    OBVIOUS
  <2> QED BY <1>1, <2>1, Dropped
<1>2. CASE Kept(c) /\ c.mem_type = L_MEM
  <2>1. PICK x \in BlockOf, y \in BlockOf : ExpectedOf(c) = <<x, y>> /\ Embedded(c) = Coded(x) \o Coded(y)
    BY <1>2, EmbeddedOfL
  <2>2. Coded(x) \in Seq(Nat) /\ Coded(y) \in Seq(Nat)
    BY CodedType
  <2>3. PICK one \in Seq(Nat), once \in Seq(BlockOf) :
           one = ws \o Coded(x) /\ once = Append(bs, x) /\ Reads(one, once, Len(one) + 1)
    <3>1. ws \o Coded(x) \in Seq(Nat) /\ Append(bs, x) \in Seq(BlockOf)
      BY <2>2, JoinedType
    <3> QED BY <3>1, ReadsBlock
  <2>4. PICK two \in Seq(Nat), twice \in Seq(BlockOf) :
           two = one \o Coded(y) /\ twice = Append(once, y) /\ Reads(two, twice, Len(two) + 1)
    <3>1. one \o Coded(y) \in Seq(Nat) /\ Append(once, y) \in Seq(BlockOf)
      BY <2>2, JoinedType
    <3> QED BY <2>3, <3>1, ReadsBlock
  <2>5. two = ws \o Embedded(c)
    <3>1. ws \o (Coded(x) \o Coded(y)) = (ws \o Coded(x)) \o Coded(y)
      BY <2>2, WordsTwice
    <3> QED BY <2>1, <2>3, <2>4, <3>1
  <2>6. twice = bs \o ExpectedOf(c)
    <3>1. Append(bs, x) = bs \o <<x>> /\ Append(once, y) = once \o <<y>>
      BY AppendIsConcat
    <3>2. <<x>> \in Seq(BlockOf) /\ <<y>> \in Seq(BlockOf)
      OBVIOUS
    <3>3. bs \o (<<x>> \o <<y>>) = (bs \o <<x>>) \o <<y>>
      BY <3>2, JoinedTwice
    <3>4. <<x>> \o <<y>> = <<x, y>>
      <4>1. Append(<<x>>, y) = <<x, y>>
        BY AppendToOne
      <4>2. Append(<<x>>, y) = <<x>> \o <<y>>
        BY <3>2, AppendIsConcat
      <4> QED BY <4>1, <4>2
    <3> QED BY <2>1, <2>3, <2>4, <3>1, <3>3, <3>4
  <2> QED BY <2>4, <2>5, <2>6
<1>3. CASE Kept(c) /\ c.mem_type # L_MEM
  <2>1. PICK b \in BlockOf : ExpectedOf(c) = <<b>> /\ Embedded(c) = Coded(b)
    BY <1>3, EmbeddedOfPlain
  <2>2. ws \o Coded(b) \in Seq(Nat)
    BY CodedType, JoinedType
  <2>3. Append(bs, b) = bs \o <<b>>
    BY AppendIsConcat
  <2>4. PICK all \in Seq(Nat) : all = ws \o Coded(b) /\ Reads(all, Append(bs, b), Len(all) + 1)
    BY <2>2, ReadsBlock
  <2> QED BY <2>1, <2>3, <2>4
<1> QED BY <1>1, <1>2, <1>3

----------------------------------------------------------------------------
(* What the sections up to the n-th become.                                *)

WordsUpTo(n) == FlattenSeq([i \in 1 .. n |-> Embedded(chunks[i])])

LEMMA UpToTypes ==
  ASSUME chunks \in Seq(Chunks), NEW n \in 0 .. Len(chunks)
  PROVE  /\ [i \in 1 .. n |-> ExpectedOf(chunks[i])] \in Seq(Seq(BlockOf))
         /\ [i \in 1 .. n |-> Embedded(chunks[i])] \in Seq(Seq(Nat))
         /\ ExpectedUpTo(n) \in Seq(BlockOf) /\ WordsUpTo(n) \in Seq(Nat)
<1> DEFINE e == [i \in 1 .. n |-> ExpectedOf(chunks[i])]
           w == [i \in 1 .. n |-> Embedded(chunks[i])]
           E == Seq(BlockOf)
           W == Seq(Nat)
<1>1. \A i \in 1 .. n : ExpectedOf(chunks[i]) \in E /\ Embedded(chunks[i]) \in W
  <2> TAKE i \in 1 .. n
  <2>1. chunks[i] \in Chunks
    OBVIOUS
  <2> QED BY <2>1, SectionTypes
<1>2. e \in Seq(E) /\ w \in Seq(W)
  <2>1. n \in Nat
    OBVIOUS
  <2> HIDE DEF E, W
  <2>2. e \in [1 .. n -> E] /\ w \in [1 .. n -> W]
    BY <1>1
  <2> HIDE DEF e, w
  <2> QED BY <2>1, <2>2
<1>3. FlattenSeq(e) \in Seq(BlockOf) /\ FlattenSeq(w) \in Seq(Nat)
  <2> HIDE DEF e, w
  <2> QED BY <1>2, FlattenType
<1> HIDE DEF e, w
<1> QED BY <1>2, <1>3 DEF e, w, ExpectedUpTo, WordsUpTo

LEMMA UpToZero == ExpectedUpTo(0) = <<>> /\ WordsUpTo(0) = <<>>
<1>1. [i \in 1 .. 0 |-> ExpectedOf(chunks[i])] = <<>> /\ [i \in 1 .. 0 |-> Embedded(chunks[i])] = <<>>
  OBVIOUS
<1> QED BY <1>1, FlattenNothing DEF ExpectedUpTo, WordsUpTo

LEMMA FunctionAppend ==
  ASSUME NEW S, NEW n \in Nat, NEW f \in [1 .. n + 1 -> S], NEW g \in [1 .. n -> S], \A i \in 1 .. n : g[i] = f[i]
  PROVE  f = Append(g, f[n + 1])
<1>1. g \in Seq(S) /\ Len(g) = n /\ f \in Seq(S) /\ Len(f) = n + 1 /\ f[n + 1] \in S
  OBVIOUS
<1>2. PICK t \in Seq(S) : t = Append(g, f[n + 1])
  BY <1>1
<1>3. Len(t) = n + 1 /\ t[n + 1] = f[n + 1] /\ \A i \in 1 .. n : t[i] = g[i]
  BY <1>1, <1>2
<1>4. \A i \in 1 .. Len(f) : f[i] = t[i]
  BY <1>1, <1>3
<1>5. f = t
  BY <1>1, <1>3, <1>4, SameSequence
<1> QED BY <1>2, <1>5

LEMMA UpToNext ==
  ASSUME chunks \in Seq(Chunks), NEW n \in Nat, n + 1 <= Len(chunks)
  PROVE  /\ ExpectedUpTo(n + 1) = ExpectedUpTo(n) \o ExpectedOf(chunks[n + 1])
         /\ WordsUpTo(n + 1) = WordsUpTo(n) \o Embedded(chunks[n + 1])
<1> DEFINE e(k) == [i \in 1 .. k |-> ExpectedOf(chunks[i])]
           w(k) == [i \in 1 .. k |-> Embedded(chunks[i])]
           E == Seq(BlockOf)
           W == Seq(Nat)
<1>1. n \in 0 .. Len(chunks) /\ n + 1 \in 1 .. Len(chunks)
  OBVIOUS
<1>2. \A i \in 1 .. n + 1 : ExpectedOf(chunks[i]) \in E /\ Embedded(chunks[i]) \in W
  <2> TAKE i \in 1 .. n + 1
  <2>1. chunks[i] \in Chunks
    BY <1>1
  <2> QED BY <2>1, SectionTypes
<1>3. e(n + 1) = Append(e(n), ExpectedOf(chunks[n + 1])) /\ w(n + 1) = Append(w(n), Embedded(chunks[n + 1]))
  <2> HIDE DEF E, W
  <2>1. e(n + 1) \in [1 .. n + 1 -> E] /\ e(n) \in [1 .. n -> E] /\ \A i \in 1 .. n : e(n)[i] = e(n + 1)[i]
    BY <1>2
  <2>2. w(n + 1) \in [1 .. n + 1 -> W] /\ w(n) \in [1 .. n -> W] /\ \A i \in 1 .. n : w(n)[i] = w(n + 1)[i]
    BY <1>2
  <2>3. e(n + 1)[n + 1] = ExpectedOf(chunks[n + 1]) /\ w(n + 1)[n + 1] = Embedded(chunks[n + 1])
    OBVIOUS
  <2> HIDE DEF e, w
  <2>4. e(n + 1) = Append(e(n), e(n + 1)[n + 1])
    BY <2>1, FunctionAppend
  <2>5. w(n + 1) = Append(w(n), w(n + 1)[n + 1])
    BY <2>2, FunctionAppend
  <2> QED BY <2>3, <2>4, <2>5
<1>4. e(n) \in Seq(Seq(BlockOf)) /\ w(n) \in Seq(Seq(Nat))
  BY <1>1, UpToTypes
<1>5. FlattenSeq(Append(e(n), ExpectedOf(chunks[n + 1]))) = FlattenSeq(e(n)) \o ExpectedOf(chunks[n + 1])
  <2>1. ExpectedOf(chunks[n + 1]) \in Seq(BlockOf)
    BY <1>2
  <2> HIDE DEF e
  <2> QED BY <1>4, <2>1, FlattenAppend
<1>6. FlattenSeq(Append(w(n), Embedded(chunks[n + 1]))) = FlattenSeq(w(n)) \o Embedded(chunks[n + 1])
  <2>1. Embedded(chunks[n + 1]) \in Seq(Nat)
    BY <1>2
  <2> HIDE DEF w
  <2> QED BY <1>4, <2>1, FlattenAppend
<1>7. \A k \in Nat : ExpectedUpTo(k) = FlattenSeq(e(k)) /\ WordsUpTo(k) = FlattenSeq(w(k))
  BY DEF ExpectedUpTo, WordsUpTo
<1>8. n + 1 \in Nat
  OBVIOUS
<1> HIDE DEF e, w
<1> QED BY <1>3, <1>5, <1>6, <1>7, <1>8

\* The words of the sections read back as their blocks.
LEMMA UpToReads ==
  ASSUME chunks \in Seq(Chunks), NEW n \in 0 .. Len(chunks)
  PROVE  Reads(WordsUpTo(n), ExpectedUpTo(n), Len(WordsUpTo(n)) + 1)
<1> DEFINE R(k) == Reads(WordsUpTo(k), ExpectedUpTo(k), Len(WordsUpTo(k)) + 1)
           T == {k \in 0 .. Len(chunks) : ~R(k)}
<1>1. SUFFICES ASSUME T # {} PROVE FALSE
  <2>1. T = {} => R(n)
    <3> HIDE DEF R
    <3> QED OBVIOUS
  <2> HIDE DEF T
  <2> QED BY <1>1, <2>1
<1>2. PICK m \in T : \A k \in T : m <= k
  <2>1. T \in SUBSET Nat
    OBVIOUS
  <2> HIDE DEF T
  <2> QED BY <1>1, <2>1, LeastNatural
<1>3. m \in 0 .. Len(chunks) /\ ~R(m)
  <2> HIDE DEF R
  <2> QED OBVIOUS
<1>4. m # 0
  <2>1. Len(<<>>) + 1 = 1
    OBVIOUS
  <2>2. R(0)
    BY <2>1, UpToZero, ReadsNothing
  <2> HIDE DEF R, T
  <2> QED BY <1>3, <2>2
<1>5. PICK k \in Nat : m = k + 1 /\ k + 1 <= Len(chunks)
  <2>1. m - 1 \in Nat /\ m = m - 1 + 1 /\ m - 1 + 1 <= Len(chunks)
    BY <1>3, <1>4
  <2> QED BY <2>1
<1>6. R(k)
  <2>1. k \in 0 .. Len(chunks) /\ ~(m <= k)
    BY <1>5
  <2> HIDE DEF R
  <2>2. k \notin T
    <3> HIDE DEF T
    <3> QED BY <1>2, <2>1
  <2> QED BY <2>1, <2>2
<1>7. R(k + 1)
  <2>1. k \in 0 .. Len(chunks) /\ chunks[k + 1] \in Chunks
    BY <1>5
  <2>2. PICK ws \in Seq(Nat), bs \in Seq(BlockOf) : ws = WordsUpTo(k) /\ bs = ExpectedUpTo(k)
    BY <2>1, UpToTypes
  <2>3. Reads(ws, bs, Len(ws) + 1)
    BY <1>6, <2>2
  <2>4. PICK all \in Seq(Nat) : all = ws \o Embedded(chunks[k + 1]) /\ Reads(all, bs \o ExpectedOf(chunks[k + 1]), Len(all) + 1)
    BY <2>1, <2>3, SectionReads
  <2>5. WordsUpTo(k + 1) = all /\ ExpectedUpTo(k + 1) = bs \o ExpectedOf(chunks[k + 1])
    BY <1>5, <2>2, <2>4, UpToNext
  <2> QED BY <2>4, <2>5
<1> HIDE DEF R, T
<1> QED BY <1>3, <1>5, <1>7

----------------------------------------------------------------------------
(* The P56 file of a section.                                              *)

P56Piece(c, junk) == FlattenSeq([i \in DOMAIN BlocksOf(c) |-> P56_SaveData(c, BlocksOf(c)[i], junk[i])])

\* A block and the rest of the buffer it was built in.
LEMMA BufferWritten ==
  ASSUME NEW c \in Chunks, NEW b \in BlockOf, NEW j \in Junk, Told(b) \in BlockOf, Len(b.words) <= Len(c.words)
  PROVE  \E rest \in Seq(Nat) : /\ P56_SaveData(c, b, j) = Coded(Told(b)) \o rest
                                /\ Len(b.words) = Len(c.words) => rest = <<>>
<1>1. PICK n \in Nat : n = Len(c.words) - Len(b.words)
  <2>1. Len(c.words) \in Nat /\ Len(b.words) \in Nat
    BY ChunkParts, BlockParts
  <2>2. PICK x \in Nat, y \in Nat : x = Len(c.words) /\ y = Len(b.words)
    BY <2>1
  <2>3. y <= x
    BY <2>2
  <2>4. x - y \in Nat
    BY <2>3
  <2> QED BY <2>2, <2>4
<1> DEFINE rest == [i \in 1 .. n |-> j]
<1>2. rest \in Seq(Nat)
  BY OutputAssumption
<1>3. n = 0 => rest = <<>>
  OBVIOUS
<1>4. Len(b.words) = Len(c.words) => n = 0
  <2>1. Len(c.words) \in Nat
    BY ChunkParts
  <2> QED BY <1>1, <2>1
<1>5. P56_SaveData(c, b, j) = Coded(Told(b)) \o rest
  BY <1>1, EmbededCodes DEF P56_SaveData
<1> HIDE DEF rest
<1> QED BY <1>2, <1>3, <1>4, <1>5

\* A section that is written in one piece, or has no words, leaves nothing behind.
LEMMA PieceWhole ==
  ASSUME NEW c \in Chunks, Kept(c), c.mem_type # L_MEM \/ c.words = <<>>, NEW junk \in [DOMAIN BlocksOf(c) -> Junk]
  PROVE  P56Piece(c, junk) = Embedded(c)
<1>1. CASE c.mem_type # L_MEM
  <2>1. PICK b \in BlockOf : BlocksOf(c) = <<b>> /\ Told(b) \in BlockOf /\ b.words = c.words
    BY <1>1, PlainBlock
  <2>2. junk[1] \in Junk
    BY <2>1
  <2>3. PICK rest \in Seq(Nat) : P56_SaveData(c, b, junk[1]) = Coded(Told(b)) \o rest /\ rest = <<>>
    <3>1. Len(b.words) <= Len(c.words) /\ Len(b.words) = Len(c.words)
      BY <2>1, ChunkParts
    <3> QED BY <2>1, <2>2, <3>1, BufferWritten
  <2>4. P56_SaveData(c, b, junk[1]) = SaveDataEmbeded(b)
    <3>1. Coded(Told(b)) \o <<>> = Coded(Told(b))
      BY <2>1, CodedType, ConcatEmptySeq
    <3> QED BY <2>3, <3>1, EmbededCodes
  <2>5. [i \in DOMAIN <<b>> |-> P56_SaveData(c, <<b>>[i], junk[i])] = [i \in DOMAIN <<b>> |-> SaveDataEmbeded(<<b>>[i])]
    <3>1. \A i \in DOMAIN <<b>> : i = 1 /\ <<b>>[i] = b
      OBVIOUS
    <3> QED BY <2>4, <3>1
  <2> QED BY <2>1, <2>5 DEF P56Piece, Embedded
<1>2. CASE c.mem_type = L_MEM /\ c.words = <<>>
  <2>1. PICK x \in BlockOf, y \in BlockOf :
           /\ BlocksOf(c) = <<x, y>> /\ Told(x) \in BlockOf /\ Told(y) \in BlockOf
           /\ Len(x.words) = 0 /\ Len(y.words) = 0
    BY <1>2, LBlocks
  <2>2. junk[1] \in Junk /\ junk[2] \in Junk
    BY <2>1
  <2>3. Len(c.words) = 0
    BY <1>2
  <2>4. ASSUME NEW b \in {x, y}, NEW j \in Junk PROVE P56_SaveData(c, b, j) = SaveDataEmbeded(b)
    <3>1. b \in BlockOf /\ Told(b) \in BlockOf /\ Len(b.words) <= Len(c.words) /\ Len(b.words) = Len(c.words)
      BY <2>1, <2>3
    <3>2. PICK rest \in Seq(Nat) : P56_SaveData(c, b, j) = Coded(Told(b)) \o rest /\ rest = <<>>
      BY <3>1, BufferWritten
    <3>3. Coded(Told(b)) \o <<>> = Coded(Told(b))
      BY <3>1, CodedType, ConcatEmptySeq
    <3> QED BY <3>1, <3>2, <3>3, EmbededCodes
  <2>5. [i \in DOMAIN <<x, y>> |-> P56_SaveData(c, <<x, y>>[i], junk[i])] = [i \in DOMAIN <<x, y>> |-> SaveDataEmbeded(<<x, y>>[i])]
    <3>1. \A i \in DOMAIN <<x, y>> : <<x, y>>[i] \in {x, y} /\ junk[i] \in Junk
      BY <2>2
    <3>2. \A i \in DOMAIN <<x, y>> : P56_SaveData(c, <<x, y>>[i], junk[i]) = SaveDataEmbeded(<<x, y>>[i])
      BY <2>4, <3>1
    <3> QED BY <3>2
  <2> QED BY <2>1, <2>5 DEF P56Piece, Embedded
<1> QED BY <1>1, <1>2

\* A section of L: memory begins with its X: block.
LEMMA PieceHalved ==
  ASSUME NEW c \in Chunks, Kept(c), c.mem_type = L_MEM, NEW junk \in [DOMAIN BlocksOf(c) -> Junk]
  PROVE  \E b \in BlockOf, rest \in Seq(Nat) : ExpectedOf(c)[1] = b /\ P56Piece(c, junk) = Coded(b) \o rest
<1>1. PICK x \in BlockOf, y \in BlockOf :
         /\ BlocksOf(c) = <<x, y>> /\ Told(x) \in BlockOf /\ Told(y) \in BlockOf
         /\ ExpectedOf(c) = <<Told(x), Told(y)>>
         /\ Len(x.words) <= Len(c.words) /\ Len(y.words) <= Len(c.words)
  BY LBlocks
<1>2. junk[1] \in Junk /\ junk[2] \in Junk
  BY <1>1
<1>3. PICK r \in Seq(Nat) : P56_SaveData(c, x, junk[1]) = Coded(Told(x)) \o r
  BY <1>1, <1>2, BufferWritten
<1>4. PICK q \in Seq(Nat) : P56_SaveData(c, y, junk[2]) = Coded(Told(y)) \o q
  BY <1>1, <1>2, BufferWritten
<1>5. PICK h \in Seq(Nat), k \in Seq(Nat) : h = Coded(Told(x)) /\ k = Coded(Told(y))
  BY <1>1, CodedType
<1>6. PICK s \in Seq(Nat) : s = k \o q
  BY JoinedType
<1>7. PICK rest \in Seq(Nat) : rest = r \o s
  BY JoinedType
<1>8. [i \in DOMAIN <<x, y>> |-> P56_SaveData(c, <<x, y>>[i], junk[i])] = <<h \o r, s>>
  <2>1. P56_SaveData(c, x, junk[1]) = h \o r /\ P56_SaveData(c, y, junk[2]) = s
    BY <1>3, <1>4, <1>5, <1>6
  <2>2. PICK a, b : a = P56_SaveData(c, x, junk[1]) /\ b = P56_SaveData(c, y, junk[2])
    OBVIOUS
  <2>3. [i \in DOMAIN <<x, y>> |-> P56_SaveData(c, <<x, y>>[i], junk[i])] = <<a, b>>
    BY <2>2
  <2> QED BY <2>1, <2>2, <2>3
<1>9. P56Piece(c, junk) = (h \o r) \o s
  <2>1. h \o r \in Seq(Nat)
    BY JoinedType
  <2>2. FlattenSeq(<<h \o r, s>>) = (h \o r) \o s
    BY <2>1, FlattenTwo
  <2> QED BY <1>1, <1>8, <2>2 DEF P56Piece
<1>10. (h \o r) \o s = h \o rest
  <2>1. h \o (r \o s) = (h \o r) \o s
    BY WordsTwice
  <2> QED BY <1>7, <2>1
<1>11. ExpectedOf(c)[1] = Told(x)
  BY <1>1
<1> QED BY <1>1, <1>5, <1>9, <1>10, <1>11

LEMMA PieceType ==
  ASSUME NEW c \in Chunks, Kept(c), NEW junk \in [DOMAIN BlocksOf(c) -> Junk]
  PROVE  P56Piece(c, junk) \in Seq(Nat)
<1>1. CASE c.mem_type # L_MEM
  BY <1>1, PieceWhole, SectionTypes
<1>2. CASE c.mem_type = L_MEM
  <2>1. PICK b \in BlockOf, rest \in Seq(Nat) : P56Piece(c, junk) = Coded(b) \o rest
    BY <1>2, PieceHalved
  <2>2. Coded(b) \in Seq(Nat)
    BY CodedType
  <2> QED BY <2>1, <2>2, JoinedType
<1> QED BY <1>1, <1>2

----------------------------------------------------------------------------
(* The files while they are written.                                       *)

\* How many sections the file of w holds, before those of later writers.
Done(w, earlier) ==
  IF writer \in earlier THEN 0 ELSE IF writer # w THEN Len(chunks) ELSE IF chunk = 0 THEN 0 ELSE chunk - 1
P56Done == Done("p56", {"lod"})
AsmDone == Done("asm", {"lod", "p56"})
CDone == Done("c", {"lod", "p56", "asm"})

\* A P56 file p of the sections up to n: they are in it up to the first that is halved.
P56Holds(p, n) ==
  /\ (\A i \in 1 .. n : i \notin Halved) => p = WordsUpTo(n)
  /\ \A h \in Halved : h <= n /\ (\A i \in Halved : h <= i) =>
        \E rest \in Seq(Nat) : p = (WordsUpTo(h - 1) \o Coded(ExpectedOf(chunks[h])[1])) \o rest

At ==
  /\ chunks \in Seq(Chunks) /\ g_write_zero_sections \in BOOLEAN
  /\ writer \in {"lod", "p56", "asm", "c", "saved"} /\ chunk \in 0 .. Len(chunks) + 1
  /\ chunk # 0 => writer # "saved" /\ chunks # <<>>
P56File == p56 \in Seq(Nat) /\ P56Holds(p56, P56Done)
EmbeddedFiles ==
  /\ embAsm = WordsUpTo(AsmDone)
  /\ embC = IF writer = "saved" /\ chunks # <<>> THEN Append(WordsUpTo(Len(chunks)), 3) ELSE WordsUpTo(CDone)
Files == At /\ P56File /\ EmbeddedFiles

LEMMA P56Dropped ==
  ASSUME chunks \in Seq(Chunks), NEW n \in Nat, n + 1 <= Len(chunks), NEW p, P56Holds(p, n), ~Kept(chunks[n + 1])
  PROVE  P56Holds(p, n + 1)
<1>1. n + 1 \in 1 .. Len(chunks) /\ n \in 0 .. Len(chunks) /\ chunks[n + 1] \in Chunks
  OBVIOUS
<1>2. ExpectedOf(chunks[n + 1]) = <<>> /\ Embedded(chunks[n + 1]) = <<>>
  BY <1>1, Dropped
<1>3. n + 1 \notin Halved
  BY <1>2 DEF Halved
<1>4. WordsUpTo(n + 1) = WordsUpTo(n)
  <2>1. PICK ws \in Seq(Nat) : ws = WordsUpTo(n)
    BY <1>1, UpToTypes
  <2>2. WordsUpTo(n + 1) = ws \o <<>>
    BY <1>2, <2>1, UpToNext
  <2> QED BY <2>1, <2>2, ConcatEmptySeq
<1>5. \A i \in 1 .. n : i \in 1 .. n + 1
  OBVIOUS
<1>6. \A h \in Halved : h <= n + 1 => h <= n
  <2> TAKE h \in Halved
  <2>1. h \in Nat /\ h # n + 1
    BY <1>3 DEF Halved
  <2> QED BY <2>1
<1> QED BY <1>4, <1>5, <1>6 DEF P56Holds

LEMMA P56Written ==
  ASSUME chunks \in Seq(Chunks), NEW n \in Nat, n + 1 <= Len(chunks), NEW p \in Seq(Nat), P56Holds(p, n),
         Kept(chunks[n + 1]), NEW junk \in [DOMAIN BlocksOf(chunks[n + 1]) -> Junk]
  PROVE  P56Holds(p \o P56Piece(chunks[n + 1], junk), n + 1)
<1>1. n + 1 \in 1 .. Len(chunks) /\ n \in 0 .. Len(chunks)
  OBVIOUS
<1>2. PICK c \in Chunks : c = chunks[n + 1]
  BY <1>1
<1>3. PICK piece \in Seq(Nat) : piece = P56Piece(c, junk)
  BY <1>2, PieceType
<1>4. PICK q \in Seq(Nat) : q = p \o piece
  BY JoinedType
<1>5. \A i \in 1 .. n : i \in 1 .. n + 1
  OBVIOUS
<1>6. ASSUME NEW h \in Halved, h <= n, \A i \in Halved : h <= i
      PROVE  \E rest \in Seq(Nat) : q = (WordsUpTo(h - 1) \o Coded(ExpectedOf(chunks[h])[1])) \o rest
  <2>1. PICK rest \in Seq(Nat) : p = (WordsUpTo(h - 1) \o Coded(ExpectedOf(chunks[h])[1])) \o rest
    BY <1>6 DEF P56Holds
  <2>2. PICK front \in Seq(Nat) : front = WordsUpTo(h - 1) \o Coded(ExpectedOf(chunks[h])[1])
    <3>1. h \in 1 .. Len(chunks) /\ h - 1 \in 0 .. Len(chunks) /\ chunks[h] \in Chunks
      BY DEF Halved
    <3>2. WordsUpTo(h - 1) \in Seq(Nat)
      BY <3>1, UpToTypes
    <3>3. ExpectedOf(chunks[h]) \in Seq(BlockOf) /\ ExpectedOf(chunks[h]) # <<>>
      BY <3>1, SectionTypes DEF Halved
    <3>4. ExpectedOf(chunks[h])[1] \in BlockOf
      BY <3>3
    <3>5. Coded(ExpectedOf(chunks[h])[1]) \in Seq(Nat)
      BY <3>4, CodedType
    <3> QED BY <3>2, <3>5, JoinedType
  <2>3. PICK more \in Seq(Nat) : more = rest \o piece
    BY JoinedType
  <2>4. front \o (rest \o piece) = (front \o rest) \o piece
    BY WordsTwice
  <2> QED BY <1>4, <2>1, <2>2, <2>3, <2>4
<1>7. WordsUpTo(n + 1) = WordsUpTo(n) \o Embedded(c)
  BY <1>2, UpToNext
<1>8. CASE c.mem_type # L_MEM \/ c.words = <<>>
  <2>1. piece = Embedded(c)
    BY <1>2, <1>3, <1>8, PieceWhole
  <2>2. n + 1 \notin Halved
    BY <1>2, <1>8 DEF Halved
  <2>3. \A h \in Halved : h <= n + 1 => h <= n
    <3> TAKE h \in Halved
    <3>1. h \in Nat /\ h # n + 1
      BY <2>2 DEF Halved
    <3> QED BY <3>1
  <2>4. (\A i \in 1 .. n + 1 : i \notin Halved) => q = WordsUpTo(n + 1)
    BY <1>4, <1>5, <1>7, <2>1 DEF P56Holds
  <2>5. P56Holds(q, n + 1)
    BY <1>6, <2>3, <2>4 DEF P56Holds
  <2> QED BY <1>2, <1>3, <1>4, <2>5
<1>9. CASE c.mem_type = L_MEM /\ c.words # <<>>
  <2>1. PICK b \in BlockOf, rest \in Seq(Nat) : ExpectedOf(c)[1] = b /\ piece = Coded(b) \o rest
    BY <1>2, <1>3, <1>9, PieceHalved
  <2>2. ExpectedOf(c) # <<>>
    <3>1. PICK x \in BlockOf, y \in BlockOf : ExpectedOf(c) = <<Told(x), Told(y)>>
      BY <1>2, <1>9, LBlocks
    <3> QED BY <3>1
  <2>3. n + 1 \in Halved
    BY <1>1, <1>2, <1>9, <2>2 DEF Halved
  <2>4. ASSUME \A i \in Halved : n + 1 <= i
        PROVE  \E r \in Seq(Nat) : q = (WordsUpTo(n) \o Coded(ExpectedOf(c)[1])) \o r
    <3>1. \A i \in 1 .. n : i \notin Halved
      <4>1. \A i \in 1 .. n : ~(n + 1 <= i)
        OBVIOUS
      <4> QED BY <2>4, <4>1
    <3>2. PICK ws \in Seq(Nat) : ws = WordsUpTo(n) /\ ws = p
      BY <3>1 DEF P56Holds
    <3>3. PICK k \in Seq(Nat) : k = Coded(b)
      BY CodedType
    <3>4. ws \o (k \o rest) = (ws \o k) \o rest
      BY WordsTwice
    <3> QED BY <1>4, <2>1, <3>2, <3>3, <3>4
  <2>5. ASSUME NEW h \in Halved, h <= n + 1, \A i \in Halved : h <= i
        PROVE  \E r \in Seq(Nat) : q = (WordsUpTo(h - 1) \o Coded(ExpectedOf(chunks[h])[1])) \o r
    <3>1. h \in Nat
      BY DEF Halved
    <3>2. CASE h <= n
      BY <1>6, <2>5, <3>2
    <3>3. CASE h = n + 1
      <4>1. h - 1 = n
        BY <3>3
      <4> QED BY <1>2, <2>4, <2>5, <3>3, <4>1
    <3>4. h <= n \/ h = n + 1
      <4>1. h <= n + 1
        BY <2>5
      <4> QED BY <3>1, <4>1
    <3> QED BY <3>2, <3>3, <3>4
  <2>6. ~(\A i \in 1 .. n + 1 : i \notin Halved)
    BY <2>3
  <2>7. P56Holds(q, n + 1)
    BY <2>5, <2>6 DEF P56Holds
  <2> QED BY <1>2, <1>3, <1>4, <2>7
<1> QED BY <1>8, <1>9

LEMMA FilesInit == SpecInit => Files
<1>1. SUFFICES ASSUME SpecInit PROVE Files
  OBVIOUS
<1>2. /\ chunks \in Seq(Chunks) /\ g_write_zero_sections \in BOOLEAN
      /\ writer = "lod" /\ chunk = 0 /\ p56 = <<>> /\ embAsm = <<>> /\ embC = <<>>
  BY <1>1, SourcesAssumption DEF SpecInit, Init
<1>3. At
  BY <1>2 DEF At
<1>4. P56Done = 0 /\ AsmDone = 0 /\ CDone = 0
  BY <1>2 DEF P56Done, AsmDone, CDone, Done
<1>5. P56Holds(p56, 0)
  <2>1. \A h \in Halved : ~(h <= 0)
    BY DEF Halved
  <2> QED BY <1>2, <2>1, UpToZero DEF P56Holds
<1>6. p56 \in Seq(Nat)
  BY <1>2
<1>7. EmbeddedFiles
  BY <1>2, <1>4, UpToZero DEF EmbeddedFiles
<1> QED BY <1>3, <1>4, <1>5, <1>6, <1>7 DEF Files, P56File

\* What no step changes.
LEMMA SameSections ==
  ASSUME UNCHANGED Source
  PROVE  /\ Halved' = Halved /\ \A n : ExpectedUpTo(n)' = ExpectedUpTo(n) /\ WordsUpTo(n)' = WordsUpTo(n)
         /\ \A p, n : P56Holds(p, n)' = P56Holds(p, n)
         /\ \A c : ExpectedOf(c)' = ExpectedOf(c) /\ Kept(c)' = Kept(c)
<1>1. UNCHANGED <<chunks, g_write_zero_sections>>
  BY DEF Source
<1>2. \A c : ExpectedOf(c)' = ExpectedOf(c) /\ Kept(c)' = Kept(c) /\ Embedded(c)' = Embedded(c)
  BY <1>1 DEF ExpectedOf, Kept, Embedded
<1>3. Halved' = Halved
  BY <1>1, <1>2 DEF Halved
<1>4. \A n : ExpectedUpTo(n)' = ExpectedUpTo(n)
  BY <1>1, <1>2 DEF ExpectedUpTo
<1>5. \A n : WordsUpTo(n)' = WordsUpTo(n)
  BY <1>1, <1>2 DEF WordsUpTo
<1>6. \A p, n : P56Holds(p, n)' = P56Holds(p, n)
  BY <1>1, <1>2, <1>3, <1>5 DEF P56Holds
<1> QED BY <1>2, <1>3, <1>4, <1>5, <1>6

\* A P56 file of n sections, in the next state.
LEMMA P56FileNext ==
  ASSUME UNCHANGED Source, NEW p \in Seq(Nat), NEW n \in Nat, p56' = p, P56Done' = n, P56Holds(p, n)
  PROVE  P56File'
<1>1. /\ (\A i \in 1 .. n : i \notin Halved) => p = WordsUpTo(n)
      /\ \A h \in Halved : h <= n /\ (\A i \in Halved : h <= i) =>
            \E rest \in Seq(Nat) : p = (WordsUpTo(h - 1) \o Coded(ExpectedOf(chunks[h])[1])) \o rest
  BY DEF P56Holds
<1>2. /\ Halved' = Halved /\ \A k : WordsUpTo(k)' = WordsUpTo(k)
      /\ \A h : Coded(ExpectedOf(chunks[h])[1])' = Coded(ExpectedOf(chunks[h])[1])
  <2>1. chunks' = chunks
    BY DEF Source
  <2>2. \A h : ExpectedOf(chunks[h])' = ExpectedOf(chunks[h])
    BY <2>1, SameSections DEF ExpectedOf, Source
  <2> QED BY <2>2, SameSections
<1>3. P56Holds(p56, P56Done)'
  <2>1. /\ (\A i \in 1 .. P56Done' : i \notin Halved') => p56' = WordsUpTo(n)'
        /\ \A h \in Halved' : h <= P56Done' /\ (\A i \in Halved' : h <= i) =>
             \E rest \in Seq(Nat) : p56' = (WordsUpTo(h - 1)' \o Coded(ExpectedOf(chunks[h])[1])') \o rest
    BY <1>1, <1>2
  <2> QED BY <2>1 DEF P56Holds
<1> QED BY <1>3 DEF P56File

LEMMA EmbeddedNext ==
  ASSUME UNCHANGED Source, NEW a, NEW c, AsmDone' = a, CDone' = c, embAsm' = WordsUpTo(a),
         embC' = IF writer' = "saved" /\ chunks # <<>> THEN Append(WordsUpTo(Len(chunks)), 3) ELSE WordsUpTo(c)
  PROVE  EmbeddedFiles'
<1>1. chunks' = chunks /\ \A k : WordsUpTo(k)' = WordsUpTo(k)
  BY SameSections DEF Source
<1>2. WordsUpTo(AsmDone)' = WordsUpTo(a) /\ WordsUpTo(CDone)' = WordsUpTo(c) /\ WordsUpTo(Len(chunks))' = WordsUpTo(Len(chunks))
  BY <1>1 DEF WordsUpTo
<1> QED BY <1>1, <1>2 DEF EmbeddedFiles

\* Where the writers are.
LEMMA DoneBounds ==
  ASSUME At
  PROVE  P56Done \in 0 .. Len(chunks) /\ AsmDone \in 0 .. Len(chunks) /\ CDone \in 0 .. Len(chunks)
<1>1. Len(chunks) \in Nat
  BY DEF At
<1>2. chunk \in 0 .. Len(chunks) + 1
  BY DEF At
<1> QED BY <1>1, <1>2 DEF P56Done, AsmDone, CDone, Done

\* A step that writes none of the three files and leaves what is done of them.
Quiet ==
  /\ UNCHANGED <<Source, p56, embAsm, embC>> /\ At'
  /\ P56Done' = P56Done /\ AsmDone' = AsmDone /\ CDone' = CDone
  /\ (writer' = "saved" /\ chunks # <<>>) <=> (writer = "saved" /\ chunks # <<>>)

LEMMA QuietKeeps ==
  ASSUME Files, Quiet
  PROVE  Files'
<1>1. UNCHANGED Source /\ At' /\ p56' = p56 /\ embAsm' = embAsm /\ embC' = embC
  BY DEF Quiet
<1>2. PICK n \in Nat, p \in Seq(Nat) : n = P56Done /\ p = p56 /\ P56Holds(p, n)
  <2>1. P56Done \in Nat
    BY DoneBounds DEF Files, At
  <2> QED BY <2>1 DEF Files, P56File
<1>3. P56File'
  BY <1>1, <1>2, P56FileNext DEF Quiet
<1>4. PICK a, c : a = AsmDone /\ c = CDone
  OBVIOUS
<1>5. EmbeddedFiles'
  BY <1>1, <1>4, EmbeddedNext DEF Quiet, Files, EmbeddedFiles
<1> QED BY <1>1, <1>3, <1>5 DEF Files

LEMMA HeadersQuiet ==
  ASSUME Files, SaveFileLod \/ SaveFileP56 \/ SaveFileEmbeded \/ SaveFileEmbededC
  PROVE  Quiet
<1>1. Len(chunks) \in Nat /\ (Len(chunks) = 0 <=> chunks = <<>>) /\ At
  BY DEF Files, At
<1> DEFINE n == Len(chunks)
<1>2. CASE SaveFileLod
  BY <1>1, <1>2 DEF SaveFileLod, Go, Quiet, At, Source, P56Done, AsmDone, CDone, Done
<1>3. CASE SaveFileP56
  BY <1>1, <1>3 DEF SaveFileP56, Go, Quiet, At, Source, P56Done, AsmDone, CDone, Done
<1>4. CASE SaveFileEmbeded
  BY <1>1, <1>4 DEF SaveFileEmbeded, Go, Quiet, At, Source, P56Done, AsmDone, CDone, Done
<1>5. CASE SaveFileEmbededC
  BY <1>1, <1>5 DEF SaveFileEmbededC, Go, Quiet, At, Source, P56Done, AsmDone, CDone, Done
<1> QED BY <1>2, <1>3, <1>4, <1>5

LEMMA EndsQuiet ==
  ASSUME Files, LodChunk \/ LodEnd \/ P56End \/ AsmEnd
  PROVE  Quiet
<1>1. Len(chunks) \in Nat /\ (Len(chunks) = 0 <=> chunks = <<>>) /\ At
  BY DEF Files, At
<1>2. CASE LodChunk
  BY <1>1, <1>2 DEF LodChunk, AtChunk, Quiet, At, Source, P56Done, AsmDone, CDone, Done
<1>3. CASE LodEnd
  BY <1>1, <1>3 DEF LodEnd, AtEnd, Go, Quiet, At, Source, P56Done, AsmDone, CDone, Done
<1>4. CASE P56End
  BY <1>1, <1>4 DEF P56End, AtEnd, Go, Quiet, At, Source, P56Done, AsmDone, CDone, Done
<1>5. CASE AsmEnd
  BY <1>1, <1>5 DEF AsmEnd, AtEnd, Go, Quiet, At, Source, P56Done, AsmDone, CDone, Done
<1> QED BY <1>2, <1>3, <1>4, <1>5

LEMMA OthersQuiet ==
  ASSUME Files, UNCHANGED outputVars
  PROVE  Quiet
BY DEF outputVars, Files, Quiet, At, Source, P56Done, AsmDone, CDone, Done

LEMMA P56ChunkKeeps ==
  ASSUME Files, P56Chunk
  PROVE  Files'
<1>1. /\ chunks \in Seq(Chunks) /\ writer = "p56" /\ chunk \in 1 .. Len(chunks) /\ chunk' = chunk + 1
      /\ UNCHANGED <<Source, writer, lod, embAsm, embC>> /\ Len(chunks) \in Nat
  BY DEF Files, At, P56Chunk, AtChunk
<1>2. PICK n \in Nat : n = chunk - 1 /\ chunk = n + 1 /\ n + 1 <= Len(chunks)
  <2>1. chunk - 1 \in Nat /\ chunk = chunk - 1 + 1 /\ chunk - 1 + 1 <= Len(chunks)
    BY <1>1
  <2> QED BY <2>1
<1>3. P56Done = n /\ P56Done' = n + 1 /\ AsmDone' = AsmDone /\ CDone' = CDone
  BY <1>1, <1>2 DEF P56Done, AsmDone, CDone, Done
<1>4. At'
  BY <1>1 DEF At, Source, Files
<1>5. p56 \in Seq(Nat) /\ P56Holds(p56, n)
  BY <1>3 DEF Files, P56File
<1>6. \E q \in Seq(Nat) : p56' = q /\ P56Holds(q, n + 1)
  <2>1. CASE ~Kept(chunks[n + 1])
    <3>1. p56' = p56
      BY <1>2, <2>1 DEF P56Chunk
    <3>2. P56Holds(p56, n + 1)
      BY <1>1, <1>2, <1>5, <2>1, P56Dropped
    <3> QED BY <1>5, <3>1, <3>2
  <2>2. CASE Kept(chunks[n + 1])
    <3>1. PICK junk \in [DOMAIN BlocksOf(chunks[n + 1]) -> Junk] : p56' = p56 \o P56Piece(chunks[n + 1], junk)
      BY <1>2, <2>2 DEF P56Chunk, P56Piece
    <3>2. chunks[n + 1] \in Chunks
      BY <1>1, <1>2
    <3>3. p56 \o P56Piece(chunks[n + 1], junk) \in Seq(Nat)
      BY <1>5, <2>2, <3>2, PieceType, JoinedType
    <3>4. P56Holds(p56 \o P56Piece(chunks[n + 1], junk), n + 1)
      BY <1>1, <1>2, <1>5, <2>2, P56Written
    <3> QED BY <3>1, <3>3, <3>4
  <2> QED BY <2>1, <2>2
<1>7. P56File'
  <2>1. PICK q \in Seq(Nat), k \in Nat : k = n + 1 /\ p56' = q /\ P56Holds(q, k)
    BY <1>6
  <2> QED BY <1>1, <1>3, <2>1, P56FileNext
<1>8. EmbeddedFiles'
  <2>1. PICK a, c : a = AsmDone /\ c = CDone
    OBVIOUS
  <2> QED BY <1>1, <1>3, <2>1, EmbeddedNext DEF Files, EmbeddedFiles
<1> QED BY <1>4, <1>7, <1>8 DEF Files

LEMMA EmbeddedChunkKeeps ==
  ASSUME Files, AsmChunk \/ CChunk
  PROVE  Files'
<1>1. /\ chunks \in Seq(Chunks) /\ chunk \in 1 .. Len(chunks) /\ chunk' = chunk + 1
      /\ UNCHANGED <<Source, writer, lod, p56>> /\ Len(chunks) \in Nat /\ writer \in {"asm", "c"}
  BY DEF Files, At, AsmChunk, CChunk, AtChunk
<1>2. PICK n \in Nat : n = chunk - 1 /\ chunk = n + 1 /\ n + 1 <= Len(chunks)
  <2>1. chunk - 1 \in Nat /\ chunk = chunk - 1 + 1 /\ chunk - 1 + 1 <= Len(chunks)
    BY <1>1
  <2> QED BY <2>1
<1>3. P56Done' = P56Done
  BY <1>1 DEF P56Done, Done, Source
<1>4. At'
  BY <1>1 DEF At, Source, Files
<1>5. P56File'
  <2>1. PICK k \in Nat, p \in Seq(Nat) : k = P56Done /\ p = p56 /\ P56Holds(p, k)
    <3>1. P56Done \in Nat
      BY DoneBounds DEF Files, At
    <3> QED BY <3>1 DEF Files, P56File
  <2> QED BY <1>1, <1>3, <2>1, P56FileNext
<1>6. WordsUpTo(n + 1) = WordsUpTo(n) \o Embedded(chunks[n + 1])
  BY <1>1, <1>2, UpToNext
<1>7. PICK m : m = n + 1
  OBVIOUS
<1>8. CASE AsmChunk
  <2>1. writer = "asm" /\ embAsm' = embAsm \o Embedded(chunks[n + 1]) /\ embC' = embC
    BY <1>2, <1>8 DEF AsmChunk, AtChunk
  <2>2. AsmDone = n /\ AsmDone' = m /\ CDone = 0 /\ CDone' = 0
    BY <1>1, <1>2, <1>7, <2>1 DEF AsmDone, CDone, Done
  <2>3. embAsm' = WordsUpTo(m) /\ embC' = WordsUpTo(0) /\ writer' # "saved"
    BY <1>1, <1>6, <1>7, <2>1, <2>2 DEF Files, EmbeddedFiles
  <2>4. EmbeddedFiles'
    BY <1>1, <2>2, <2>3, EmbeddedNext
  <2> QED BY <1>4, <1>5, <2>4 DEF Files
<1>9. CASE CChunk
  <2>1. writer = "c" /\ embC' = embC \o Embedded(chunks[n + 1]) /\ embAsm' = embAsm
    BY <1>2, <1>9 DEF CChunk, AtChunk
  <2>2. CDone = n /\ CDone' = m /\ AsmDone' = AsmDone
    BY <1>1, <1>2, <1>7, <2>1 DEF AsmDone, CDone, Done, Source
  <2>3. PICK a : a = AsmDone
    OBVIOUS
  <2>4. embAsm' = WordsUpTo(a) /\ embC' = WordsUpTo(m) /\ writer' # "saved"
    BY <1>1, <1>6, <1>7, <2>1, <2>2, <2>3 DEF Files, EmbeddedFiles
  <2>5. EmbeddedFiles'
    BY <1>1, <2>2, <2>3, <2>4, EmbeddedNext
  <2> QED BY <1>4, <1>5, <2>5 DEF Files
<1> QED BY <1>8, <1>9

LEMMA CEndKeeps ==
  ASSUME Files, CEnd
  PROVE  Files'
<1>1. /\ chunks \in Seq(Chunks) /\ chunk = Len(chunks) + 1 /\ chunk' = 0 /\ writer = "c" /\ writer' = "saved"
      /\ UNCHANGED <<Source, lod, p56, embAsm>> /\ Len(chunks) \in Nat /\ chunks # <<>> /\ embC' = Append(embC, 3)
  BY DEF Files, At, CEnd, AtEnd, Go
<1>2. PICK n \in Nat : n = Len(chunks)
  BY <1>1
<1>3. /\ P56Done' = P56Done /\ CDone = n /\ CDone' = n /\ AsmDone = n /\ AsmDone' = n
  BY <1>1, <1>2 DEF P56Done, AsmDone, CDone, Done, Source
<1>4. At'
  BY <1>1 DEF At, Source, Files
<1>5. P56File'
  <2>1. PICK k \in Nat, p \in Seq(Nat) : k = P56Done /\ p = p56 /\ P56Holds(p, k)
    <3>1. P56Done \in Nat
      BY DoneBounds DEF Files, At
    <3> QED BY <3>1 DEF Files, P56File
  <2> QED BY <1>1, <1>3, <2>1, P56FileNext
<1>6. embAsm' = WordsUpTo(n) /\ embC' = Append(WordsUpTo(Len(chunks)), 3)
  BY <1>1, <1>2, <1>3 DEF Files, EmbeddedFiles
<1>7. EmbeddedFiles'
  BY <1>1, <1>3, <1>6, EmbeddedNext
<1> QED BY <1>4, <1>5, <1>7 DEF Files

LEMMA FilesNext == Files /\ [Next]_vars => Files'
<1> SUFFICES ASSUME Files, [Next]_vars PROVE Files'
  OBVIOUS
<1>1. CASE SaveFileLod \/ SaveFileP56 \/ SaveFileEmbeded \/ SaveFileEmbededC
  BY <1>1, HeadersQuiet, QuietKeeps
<1>2. CASE LodChunk \/ LodEnd \/ P56End \/ AsmEnd
  BY <1>2, EndsQuiet, QuietKeeps
<1>3. CASE P56Chunk
  BY <1>3, P56ChunkKeeps
<1>4. CASE AsmChunk \/ CChunk
  BY <1>4, EmbeddedChunkKeeps
<1>5. CASE CEnd
  BY <1>5, CEndKeeps
<1>6. CASE UNCHANGED outputVars
  BY <1>6, OthersQuiet, QuietKeeps
<1>7. ConvertFile => UNCHANGED outputVars
  BY DEF ConvertFile, Seek, OtherToken, EndToken, DataToken, Convert, Misread, Overread
<1>8. UNCHANGED vars => UNCHANGED outputVars
  BY DEF vars
<1> QED BY <1>1, <1>2, <1>3, <1>4, <1>5, <1>6, <1>7, <1>8 DEF Next, Saving, Save

LEMMA FilesAlways == Spec => []Files
<1>1. SpecInit => Files
  BY FilesInit
<1>2. Files /\ [Next]_vars => Files'
  BY FilesNext
<1> QED BY <1>1, <1>2, PTL DEF Spec

----------------------------------------------------------------------------
(* The files that are finished.                                            *)

LEMMA WordsParsed ==
  ASSUME chunks \in Seq(Chunks), NEW n \in 0 .. Len(chunks)
  PROVE  ParsedFrom(WordsUpTo(n)) = ExpectedUpTo(n)
<1>1. PICK ws \in Seq(Nat), bs \in Seq(BlockOf) : ws = WordsUpTo(n) /\ bs = ExpectedUpTo(n)
  BY UpToTypes
<1>2. Reads(ws, bs, Len(ws) + 1)
  BY <1>1, UpToReads
<1>3. PICK t \in Seq(BlockOf) : ParsedFrom(ws) = bs \o t /\ t = <<>>
  <2>1. PICK end : end = Len(ws) + 1 /\ Reads(ws, bs, end)
    BY <1>2
  <2> QED BY <2>1, ReadsParse
<1>4. bs \o <<>> = bs
  BY ConcatEmptySeq
<1> QED BY <1>1, <1>3, <1>4

LEMMA EmbeddedExact == Files => EmbeddedReadsBack
<1> SUFFICES ASSUME Files, Finished PROVE /\ ParsedFrom(embAsm) = Expected
                                          /\ IF chunks = <<>> THEN embC = <<>> ELSE embC = Append(embAsm, 3)
  BY DEF EmbeddedReadsBack
<1>1. writer = "saved" /\ chunks \in Seq(Chunks) /\ Len(chunks) \in 0 .. Len(chunks)
  BY DEF Finished, Files, At
<1>2. AsmDone = Len(chunks) /\ CDone = Len(chunks)
  BY <1>1 DEF AsmDone, CDone, Done
<1>3. embAsm = WordsUpTo(Len(chunks))
  BY <1>2 DEF Files, EmbeddedFiles
<1>4. ParsedFrom(embAsm) = Expected
  BY <1>1, <1>3, WordsParsed DEF Expected
<1>5. CASE chunks = <<>>
  <2>1. embC = WordsUpTo(0)
    BY <1>2, <1>5 DEF Files, EmbeddedFiles
  <2> QED BY <1>4, <1>5, <2>1, UpToZero
<1>6. CASE chunks # <<>>
  BY <1>1, <1>3, <1>4, <1>6 DEF Files, EmbeddedFiles
<1> QED BY <1>5, <1>6

\* The embedded files give the sections back, in their order (OutputEmbededAsm.c,
\* OutputEmbededC.c): every size in them is that of the data behind it.
THEOREM EmbeddedFilesRead == Spec => []EmbeddedReadsBack
BY FilesAlways, EmbeddedExact, PTL

LEMMA PrefixOf ==
  ASSUME NEW S, NEW s \in Seq(S), NEW t \in Seq(S)
  PROVE  IsPrefix(s, s \o t)
<1>1. PICK n \in Nat : n = Len(s)
  OBVIOUS
<1>2. PICK u \in Seq(S) : u = s \o t
  BY JoinedType
<1>3. Len(u) = Len(s) + Len(t)
  BY <1>2, JoinedLen
<1>4. Len(s) <= Len(u)
  BY <1>3
<1>5. SubSeq(s, 1, Len(s)) = SubSeq(u, 1, Len(s))
  <2>1. CASE n = 0
    BY <1>1, <2>1, SubSeqEmpty
  <2>2. CASE n # 0
    <3>1. 1 \in 1 .. Len(s) /\ n \in 1 .. Len(s)
      BY <1>1, <2>2
    <3>2. SubSeq(u, 1, n) = SubSeq(s, 1, n)
      BY <1>2, <3>1, SubSeqOfConcat1
    <3> QED BY <1>1, <3>2
  <2> QED BY <2>1, <2>2
<1> QED BY <1>2, <1>4, <1>5 DEF IsPrefix

LEMMA FirstHalved ==
  ASSUME chunks \in Seq(Chunks), Halved # {}
  PROVE  Min(Halved) \in Halved /\ \A i \in Halved : Min(Halved) <= i
<1>1. Halved \in SUBSET Nat
  BY DEF Halved
<1>2. PICK h \in Halved : \A i \in Halved : h <= i
  BY <1>1, LeastNatural
<1> QED BY <1>2 DEF Min

LEMMA P56Exact == Files => P56ReadsBack
<1> SUFFICES ASSUME Files, Finished
             PROVE  IF Halved = {} THEN ParsedFrom(p56) = Expected
                    ELSE IsPrefix(Append(ExpectedUpTo(Min(Halved) - 1), ExpectedOf(chunks[Min(Halved)])[1]), ParsedFrom(p56))
  BY DEF P56ReadsBack
<1>1. writer = "saved" /\ chunks \in Seq(Chunks) /\ Len(chunks) \in 0 .. Len(chunks) /\ p56 \in Seq(Nat)
  BY DEF Finished, Files, At, P56File
<1>2. P56Done = Len(chunks)
  BY <1>1 DEF P56Done, Done
<1>3. P56Holds(p56, Len(chunks))
  BY <1>2 DEF Files, P56File
<1>4. CASE Halved = {}
  <2>1. p56 = WordsUpTo(Len(chunks))
    BY <1>3, <1>4 DEF P56Holds
  <2>2. ParsedFrom(p56) = Expected
    BY <1>1, <2>1, WordsParsed DEF Expected
  <2> QED BY <1>4, <2>2
<1>5. CASE Halved # {}
  <2>1. PICK h \in Halved : h = Min(Halved) /\ \A i \in Halved : h <= i
    BY <1>1, <1>5, FirstHalved
  <2>2. h \in 1 .. Len(chunks) /\ h <= Len(chunks) /\ h - 1 \in 0 .. Len(chunks) /\ chunks[h] \in Chunks
    BY <1>1 DEF Halved
  <2>3. PICK b \in BlockOf : b = ExpectedOf(chunks[h])[1]
    <3>1. ExpectedOf(chunks[h]) \in Seq(BlockOf) /\ ExpectedOf(chunks[h]) # <<>>
      BY <2>2, SectionTypes DEF Halved
    <3> QED BY <3>1
  <2>4. PICK ws \in Seq(Nat), bs \in Seq(BlockOf) : ws = WordsUpTo(h - 1) /\ bs = ExpectedUpTo(h - 1)
    BY <1>1, <2>2, UpToTypes
  <2>5. Reads(ws, bs, Len(ws) + 1)
    BY <1>1, <2>2, <2>4, UpToReads
  <2>6. PICK all \in Seq(Nat) : all = ws \o Coded(b) /\ Reads(all, Append(bs, b), Len(all) + 1)
    <3>1. ws \o Coded(b) \in Seq(Nat)
      BY CodedType, JoinedType
    <3> QED BY <2>5, <3>1, ReadsBlock
  <2>7. PICK rest \in Seq(Nat) : p56 = all \o rest
    BY <1>3, <2>1, <2>2, <2>3, <2>4, <2>6 DEF P56Holds
  <2>8. PICK more \in Seq(BlockOf) : more = Append(bs, b)
    <3>1. Append(bs, b) \in Seq(BlockOf)
      OBVIOUS
    <3> QED BY <3>1
  <2>9. PICK end : Reads(all, more, end)
    BY <2>6, <2>8
  <2>10. Reads(p56, more, end)
    BY <2>7, <2>9, ReadsMore
  <2>11. PICK t \in Seq(BlockOf) : ParsedFrom(p56) = more \o t
    BY <1>1, <2>10, ReadsParse
  <2>12. IsPrefix(more, ParsedFrom(p56))
    BY <2>11, PrefixOf
  <2> QED BY <1>5, <2>1, <2>3, <2>4, <2>8, <2>12
<1> QED BY <1>4, <1>5

\* The P56 file of a program without L: sections gives them back; with one, it gives
\* the sections before the first, and the X: block that section begins with
\* (OutputP56.c).
THEOREM P56FileRead == Spec => []P56ReadsBack
BY FilesAlways, P56Exact, PTL

----------------------------------------------------------------------------
(* Loading blocks.                                                         *)

Zeros == [p \in Places |-> 0]

\* The function Loaded is defined by: what the blocks of a set of places load.
Loads(f, bs, n) ==
  f = [s \in SUBSET (1 .. n) |-> IF s = {} THEN Zeros ELSE Load(f[s \ {Max(s)}], bs[Max(s)])]

LEMMA MaxIs ==
  ASSUME NEW n \in Nat, NEW s \in SUBSET (1 .. n), s # {}
  PROVE  Max(s) \in s /\ \A y \in s : y <= Max(s)
<1>1. s \in SUBSET Nat /\ \A x \in s : x <= n
  OBVIOUS
<1>2. PICK m \in s : \A y \in s : y <= m
  BY <1>1, GreatestNatural
<1>3. \A y \in s : m >= y
  BY <1>2
<1>4. Max(s) \in s /\ \A y \in s : Max(s) >= y
  BY <1>3 DEF Max
<1> QED BY <1>1, <1>4

LEMMA LoadExists ==
  ASSUME NEW bs, NEW n \in Nat
  PROVE  \E f : Loads(f, bs, n)
<1> DEFINE T == {m \in Nat : ~(\E f : Loads(f, bs, m))}
<1>1. SUFFICES ASSUME T # {} PROVE FALSE
  OBVIOUS
<1>2. PICK m \in T : \A k \in T : m <= k
  <2>1. T \in SUBSET Nat
    OBVIOUS
  <2> HIDE DEF T
  <2> QED BY <1>1, <2>1, LeastNatural
<1>3. m \in Nat /\ ~(\E f : Loads(f, bs, m))
  OBVIOUS
<1>4. m # 0
  <2> DEFINE f == [s \in {{}} |-> Zeros]
  <2>1. SUBSET (1 .. 0) = {{}}
    OBVIOUS
  <2>2. Loads(f, bs, 0)
    BY <2>1 DEF Loads
  <2> QED BY <1>3, <2>2
<1>5. PICK n0 \in Nat : m = n0 + 1
  <2>1. m - 1 \in Nat /\ m = m - 1 + 1
    BY <1>3, <1>4
  <2> QED BY <2>1
<1>6. PICK f : Loads(f, bs, n0)
  <2>1. ~(m <= n0)
    BY <1>5
  <2>2. n0 \notin T
    <3> HIDE DEF T
    <3> QED BY <1>2, <2>1
  <2> QED BY <2>2
<1> DEFINE S == SUBSET (1 .. m)
           g == [s \in S |-> IF m \in s THEN Load(f[s \ {m}], bs[m]) ELSE f[s]]
<1>7. \A s \in S : g[s] = IF s = {} THEN Zeros ELSE Load(g[s \ {Max(s)}], bs[Max(s)])
  <2> TAKE s \in S
  <2>1. s \in SUBSET (1 .. m) /\ s \ {m} \in SUBSET (1 .. n0) /\ (m \notin s => s \in SUBSET (1 .. n0))
    <3>1. \A i \in 1 .. m : i # m => i \in 1 .. n0
      BY <1>5
    <3> QED BY <3>1
  <2>2. CASE m \in s
    <3>1. s # {} /\ Max(s) = m
      <4>1. Max(s) \in s /\ m <= Max(s)
        BY <1>3, <2>1, <2>2, MaxIs
      <4>2. Max(s) \in 1 .. m
        BY <2>1, <4>1
      <4> QED BY <1>3, <2>2, <4>1, <4>2
    <3>2. s \ {m} \in S /\ m \notin s \ {m} /\ g[s \ {m}] = f[s \ {m}]
      BY <2>1
    <3>3. g[s] = Load(f[s \ {m}], bs[m])
      BY <2>2
    <3> HIDE DEF g, S, T
    <3> QED BY <3>1, <3>2, <3>3
  <2>3. CASE m \notin s
    <3>1. s \in SUBSET (1 .. n0) /\ g[s] = f[s]
      BY <2>1, <2>3
    <3>2. f[s] = IF s = {} THEN Zeros ELSE Load(f[s \ {Max(s)}], bs[Max(s)])
      BY <1>6, <3>1 DEF Loads
    <3>3. g[s \ {Max(s)}] = f[s \ {Max(s)}]
      BY <2>1, <2>3
    <3> HIDE DEF g, S, T
    <3> QED BY <3>1, <3>2, <3>3
  <2> QED BY <2>2, <2>3
<1>8. Loads(g, bs, m)
  <2>1. g = [s \in SUBSET (1 .. m) |-> g[s]]
    OBVIOUS
  <2> HIDE DEF g, T
  <2> QED BY <1>7, <2>1 DEF Loads
<1> HIDE DEF g
<1> QED BY <1>3, <1>8

LEMMA LoadIs ==
  ASSUME NEW bs \in Seq(BlockOf)
  PROVE  \E f : Loads(f, bs, Len(bs)) /\ Loaded(bs) = f[1 .. Len(bs)]
<1> DEFINE n == Len(bs)
           f == CHOOSE g : Loads(g, bs, n)
<1>1. n \in Nat /\ DOMAIN bs = 1 .. n
  OBVIOUS
<1>2. Loaded(bs) = f[1 .. n]
  <2> HIDE DEF n
  <2> QED BY <1>1 DEF Loaded, FoldLeft, MapThenFoldSet, Loads, Zeros
<1>3. Loads(f, bs, n)
  <2>1. \E g : Loads(g, bs, n)
    BY <1>1, LoadExists
  <2> QED BY <2>1
<1> HIDE DEF f
<1> QED BY <1>2, <1>3

LEMMA LoadLast ==
  ASSUME NEW f, NEW bs, NEW n \in Nat, Loads(f, bs, n), NEW k \in Nat, k + 1 <= n
  PROVE  f[1 .. k + 1] = Load(f[1 .. k], bs[k + 1])
<1> DEFINE s == 1 .. k + 1
<1>1. s \in SUBSET (1 .. n) /\ s # {} /\ k + 1 \in s
  OBVIOUS
<1>2. Max(s) = k + 1
  <2>1. Max(s) \in s /\ k + 1 <= Max(s)
    <3> HIDE DEF s
    <3> QED BY <1>1, MaxIs
  <2> QED BY <2>1
<1>3. s \ {k + 1} = 1 .. k
  OBVIOUS
<1>4. f[s] = Load(f[s \ {Max(s)}], bs[Max(s)])
  <2> HIDE DEF s
  <2> QED BY <1>1 DEF Loads
<1> QED BY <1>2, <1>3, <1>4

LEMMA LoadNone ==
  ASSUME NEW f, NEW bs, NEW n \in Nat, Loads(f, bs, n)
  PROVE  f[1 .. 0] = Zeros
<1>1. 1 .. 0 = {} /\ {} \in SUBSET (1 .. n)
  OBVIOUS
<1> QED BY <1>1 DEF Loads

LEMMA LoadedNothing == Loaded(<<>>) = Zeros
<1>1. <<>> \in Seq(BlockOf) /\ Len(<<>>) = 0
  OBVIOUS
<1>2. PICK f : Loads(f, <<>>, 0) /\ Loaded(<<>>) = f[1 .. 0]
  BY <1>1, LoadIs
<1> QED BY <1>2, LoadNone

LEMMA LoadedAppend ==
  ASSUME NEW bs \in Seq(BlockOf), NEW b \in BlockOf
  PROVE  Loaded(Append(bs, b)) = Load(Loaded(bs), b)
<1>1. PICK n \in Nat : n = Len(bs)
  OBVIOUS
<1>2. PICK more \in Seq(BlockOf) : more = Append(bs, b)
  <2> DEFINE S == BlockOf
  <2> HIDE DEF S
  <2>1. \A q \in Seq(S), z \in S : Append(q, z) \in Seq(S)
    OBVIOUS
  <2> QED BY <2>1 DEF S
<1>3. Len(more) = n + 1 /\ more[n + 1] = b /\ \A k \in 1 .. n : more[k] = bs[k]
  BY <1>1, <1>2
<1>4. PICK f : Loads(f, bs, n) /\ Loaded(bs) = f[1 .. n]
  BY <1>1, LoadIs
<1>5. PICK g : Loads(g, more, n + 1) /\ Loaded(more) = g[1 .. n + 1]
  BY <1>3, LoadIs
<1> DEFINE T == {k \in 0 .. n : g[1 .. k] # f[1 .. k]}
<1>6. T = {}
  <2>1. SUFFICES ASSUME T # {} PROVE FALSE
    OBVIOUS
  <2>2. PICK m \in T : \A k \in T : m <= k
    <3>1. T \in SUBSET Nat
      OBVIOUS
    <3> HIDE DEF T
    <3> QED BY <2>1, <3>1, LeastNatural
  <2>3. m \in 0 .. n /\ g[1 .. m] # f[1 .. m]
    OBVIOUS
  <2>4. n + 1 \in Nat
    OBVIOUS
  <2>5. m # 0
    BY <1>4, <1>5, <2>3, <2>4, LoadNone
  <2>6. PICK k \in Nat : m = k + 1 /\ k + 1 <= n /\ k + 1 <= n + 1
    <3>1. m - 1 \in Nat /\ m = m - 1 + 1 /\ m - 1 + 1 <= n /\ m - 1 + 1 <= n + 1
      BY <2>3, <2>5
    <3> QED BY <3>1
  <2>7. g[1 .. k] = f[1 .. k]
    <3>1. ~(m <= k) /\ k \in 0 .. n
      BY <2>6
    <3>2. k \notin T
      <4> HIDE DEF T
      <4> QED BY <2>2, <3>1
    <3> QED BY <3>1, <3>2
  <2> HIDE DEF T
  <2>8. f[1 .. k + 1] = Load(f[1 .. k], bs[k + 1])
    BY <1>4, <2>6, LoadLast
  <2>9. g[1 .. k + 1] = Load(g[1 .. k], more[k + 1])
    BY <1>5, <2>4, <2>6, LoadLast
  <2>10. more[k + 1] = bs[k + 1]
    BY <1>3, <2>6
  <2> QED BY <2>3, <2>6, <2>7, <2>8, <2>9, <2>10
<1>7. g[1 .. n] = f[1 .. n]
  BY <1>6
<1> HIDE DEF T
<1>8. g[1 .. n + 1] = Load(g[1 .. n], more[n + 1])
  <2>1. n + 1 \in Nat /\ n + 1 <= n + 1
    OBVIOUS
  <2> QED BY <1>5, <2>1, LoadLast
<1> QED BY <1>2, <1>3, <1>4, <1>5, <1>7, <1>8

----------------------------------------------------------------------------
(* Leaving out sections of zeros.                                          *)

Images == [Places -> Nat]

LEMMA LoadType ==
  ASSUME NEW image \in Images, NEW b \in BlockOf
  PROVE  Load(image, b) \in Images
<1>1. ASSUME NEW p \in Places
      PROVE  (IF p[1] = b.mem /\ p[2] - b.pc + 1 \in DOMAIN b.words THEN b.words[p[2] - b.pc + 1] ELSE image[p]) \in Nat
  <2>1. image[p] \in Nat
    BY DEF Images
  <2>2. b.words \in Seq(Nat)
    BY BlockParts
  <2>3. \A i \in DOMAIN b.words : b.words[i] \in Nat
    BY <2>2
  <2> QED BY <2>1, <2>3
<1> QED BY <1>1 DEF Load, Images

LEMMA PlaceParts ==
  ASSUME chunks \in Seq(Chunks), NEW p \in Places
  PROVE  p = <<p[1], p[2]>> /\ p[2] \in Nat
<1>1. \A c \in ToSet(chunks), k \in 0 .. 8 : Address(c.pc + k) \in Nat
  <2> TAKE c \in ToSet(chunks), k \in 0 .. 8
  <2>1. c \in Chunks
    BY DEF ToSet
  <2>2. c.pc + k \in Nat
    BY <2>1, ChunkParts
  <2> QED BY <2>2, AddressType
<1> QED BY <1>1 DEF Places

\* A block loads the words of the places it covers.
LEMMA LoadCovers ==
  ASSUME chunks \in Seq(Chunks), NEW c \in Chunks, NEW b \in ToSet(BlocksOf(c)), NEW image \in Images, b \in BlockOf,
         Len(b.words) <= Len(c.words), b.pc = c.pc, NEW p \in Places, p \notin Covered(c)
  PROVE  Load(image, Told(b))[p] = image[p]
<1>1. p = <<p[1], p[2]>> /\ p[2] \in Nat
  BY PlaceParts
<1>2. Load(image, Told(b))[p] = IF p[1] = b.mem /\ p[2] - Address(b.pc) + 1 \in DOMAIN b.words
                                THEN b.words[p[2] - Address(b.pc) + 1] ELSE image[p]
  BY DEF Load, Told
<1>3. ~(p[1] = b.mem /\ p[2] - Address(b.pc) + 1 \in DOMAIN b.words)
  <2>1. SUFFICES ASSUME p[1] = b.mem, p[2] - Address(b.pc) + 1 \in DOMAIN b.words PROVE p \in Covered(c)
    OBVIOUS
  <2>2. b.words \in Seq(Nat) /\ Len(b.words) \in Nat /\ Len(c.words) \in Nat /\ c.pc \in Nat
    BY BlockParts, ChunkParts
  <2>3. Address(c.pc) \in Nat
    BY <2>2, AddressType
  <2>4. PICK a \in Nat, q \in Nat, l \in Nat, d \in Nat : a = Address(c.pc) /\ q = p[2] /\ l = Len(b.words) /\ d = Len(c.words)
    BY <1>1, <2>2, <2>3
  <2>5. q - a + 1 \in 1 .. l /\ l <= d
    BY <2>1, <2>2, <2>4
  <2>6. PICK k \in 0 .. d - 1 : q = a + k
    <3>1. q - a \in 0 .. d - 1 /\ q = a + (q - a)
      BY <2>5
    <3> QED BY <3>1
  <2>7. p = <<b.mem, Address(c.pc) + k>> /\ k \in 0 .. Len(c.words) - 1
    BY <1>1, <2>1, <2>4, <2>6
  <2> QED BY <2>7 DEF Covered
<1> QED BY <1>2, <1>3

\* A block of a section: at its address, of words of it.
Part(c, b) ==
    /\ b \in BlockOf /\ Told(b) \in BlockOf /\ b \in ToSet(BlocksOf(c))
    /\ b.pc = c.pc /\ Len(b.words) <= Len(c.words)
    /\ AllZero(c) => \A i \in DOMAIN b.words : b.words[i] = 0

LEMMA BlockWords ==
  ASSUME NEW c \in Chunks, NEW b \in ToSet(BlocksOf(c)), AllZero(c)
  PROVE  \A i \in DOMAIN b.words : b.words[i] = 0
<1>1. c.words \in Seq(Nat) /\ \A i \in DOMAIN c.words : c.words[i] = 0
  BY ChunkParts DEF AllZero
<1>2. \A o \in {0, 1} : \A i \in DOMAIN Taken(c, o, 1) : Taken(c, o, 1)[i] = 0
  <2> TAKE o \in {0, 1}
  <2> TAKE i \in DOMAIN Taken(c, o, 1)
  <2>1. PICK l \in Nat : l = Len(c.words) /\ DOMAIN c.words = 1 .. l
    BY <1>1
  <2>2. PICK n \in Nat : n = l \div 2 /\ 2 * n <= l
    BY Half
  <2>3. Taken(c, o, 1) = [k \in 1 .. n |-> c.words[2 * k - 1 + o]]
    BY <2>1, <2>2 DEF Taken
  <2>4. i \in 1 .. n /\ Taken(c, o, 1)[i] = c.words[2 * i - 1 + o]
    BY <2>3
  <2>5. 2 * i - 1 + o \in DOMAIN c.words
    <3>1. PICK k \in 1 .. n : k = i
      BY <2>4
    <3>2. 2 * k - 1 + o \in 1 .. l
      BY <2>2
    <3> QED BY <2>1, <3>1, <3>2
  <2> QED BY <1>1, <2>4, <2>5
<1>3. \A i \in DOMAIN Taken(c, 0, 0) : Taken(c, 0, 0)[i] = 0
  BY <1>1 DEF Taken
<1>4. b.words \in {Taken(c, 0, 0), Taken(c, 0, 1), Taken(c, 1, 1)}
  BY DEF ToSet, BlocksOf, Block
<1> QED BY <1>2, <1>3, <1>4

LEMMA BlockPlace ==
  ASSUME NEW c \in Chunks, NEW b \in ToSet(BlocksOf(c))
  PROVE  b.pc = c.pc
BY DEF ToSet, BlocksOf, Block

LEMMA AllTold ==
  ASSUME NEW x \in BlockOf
  PROVE  [x EXCEPT !.pc = Address(@)] = Told(x)
BY DEF Told, BlockOf

LEMMA TwoElements ==
  ASSUME NEW x, NEW y
  PROVE  x \in ToSet(<<x, y>>) /\ y \in ToSet(<<x, y>>)
<1>1. <<x, y>>[1] = x /\ <<x, y>>[2] = y /\ 1 \in DOMAIN <<x, y>> /\ 2 \in DOMAIN <<x, y>>
  OBVIOUS
<1> QED BY <1>1 DEF ToSet

LEMMA OneElement ==
  ASSUME NEW x
  PROVE  x \in ToSet(<<x>>)
<1>1. <<x>>[1] = x /\ 1 \in DOMAIN <<x>>
  OBVIOUS
<1> QED BY <1>1 DEF ToSet

LEMMA AllTwo ==
  ASSUME NEW c, NEW x \in BlockOf, NEW y \in BlockOf, BlocksOf(c) = <<x, y>>
  PROVE  AllOf(c) = <<Told(x), Told(y)>>
<1> DEFINE f(b) == [b EXCEPT !.pc = Address(@)]
<1>1. f(x) = Told(x) /\ f(y) = Told(y)
  BY AllTold
<1>2. AllOf(c) = [k \in DOMAIN <<x, y>> |-> f(<<x, y>>[k])]
  BY DEF AllOf
<1> HIDE DEF f
<1>3. [k \in DOMAIN <<x, y>> |-> f(<<x, y>>[k])] = <<f(x), f(y)>>
  OBVIOUS
<1> QED BY <1>1, <1>2, <1>3

LEMMA AllOne ==
  ASSUME NEW c, NEW x \in BlockOf, BlocksOf(c) = <<x>>
  PROVE  AllOf(c) = <<Told(x)>>
<1> DEFINE f(b) == [b EXCEPT !.pc = Address(@)]
<1>1. f(x) = Told(x)
  BY AllTold
<1>2. AllOf(c) = [k \in DOMAIN <<x>> |-> f(<<x>>[k])]
  BY DEF AllOf
<1> HIDE DEF f
<1>3. [k \in DOMAIN <<x>> |-> f(<<x>>[k])] = <<f(x)>>
  OBVIOUS
<1> QED BY <1>1, <1>2, <1>3

LEMMA AllParts ==
  ASSUME NEW c \in Chunks
  PROVE  \/ \E x, y \in BlockOf : /\ Part(c, x) /\ Part(c, y) /\ AllOf(c) = <<Told(x), Told(y)>>
                                  /\ (Kept(c) => ExpectedOf(c) = AllOf(c))
         \/ \E b \in BlockOf : /\ Part(c, b) /\ AllOf(c) = <<Told(b)>>
                               /\ (Kept(c) => ExpectedOf(c) = AllOf(c))
<1>1. CASE c.mem_type = L_MEM
  <2>1. PICK x, y \in BlockOf : /\ BlocksOf(c) = <<x, y>> /\ Told(x) \in BlockOf /\ Told(y) \in BlockOf
                                /\ (Kept(c) => ExpectedOf(c) = <<Told(x), Told(y)>>)
                                /\ Len(x.words) <= Len(c.words) /\ Len(y.words) <= Len(c.words)
    BY <1>1, LBlocks
  <2>2. x \in ToSet(BlocksOf(c)) /\ y \in ToSet(BlocksOf(c))
    BY <2>1, TwoElements
  <2>3. \A b \in ToSet(BlocksOf(c)) : b.pc = c.pc /\ (AllZero(c) => \A i \in DOMAIN b.words : b.words[i] = 0)
    BY BlockWords, BlockPlace
  <2>4. Part(c, x) /\ Part(c, y)
    BY <2>1, <2>2, <2>3 DEF Part
  <2>5. AllOf(c) = <<Told(x), Told(y)>>
    BY <2>1, AllTwo
  <2> QED BY <2>1, <2>4, <2>5
<1>2. CASE c.mem_type # L_MEM
  <2>1. PICK b \in BlockOf : /\ BlocksOf(c) = <<b>> /\ Told(b) \in BlockOf /\ b.words = c.words
                             /\ (Kept(c) => ExpectedOf(c) = <<Told(b)>>)
    BY <1>2, PlainBlock
  <2>2. b \in ToSet(BlocksOf(c))
    BY <2>1, OneElement
  <2>3. Len(b.words) <= Len(c.words)
    <3>1. Len(c.words) \in Nat
      BY ChunkParts
    <3>2. Len(b.words) = Len(c.words)
      BY <2>1
    <3> QED BY <3>1, <3>2
  <2>4. \A d \in ToSet(BlocksOf(c)) : d.pc = c.pc /\ (AllZero(c) => \A i \in DOMAIN d.words : d.words[i] = 0)
    BY BlockWords, BlockPlace
  <2>5. Part(c, b)
    BY <2>1, <2>2, <2>3, <2>4 DEF Part
  <2>6. AllOf(c) = <<Told(b)>>
    BY <2>1, AllOne
  <2> QED BY <2>1, <2>5, <2>6
<1> QED BY <1>1, <1>2

\* Zeros loaded where there are zeros change nothing.
LEMMA LoadZeros ==
  ASSUME chunks \in Seq(Chunks), NEW c \in Chunks, NEW b, Part(c, b), AllZero(c), NEW image \in Images,
         \A p \in Places : p \in Covered(c) => image[p] = 0
  PROVE  Load(image, Told(b)) = image
<1>1. Told(b) \in BlockOf /\ b \in BlockOf /\ \A i \in DOMAIN b.words : b.words[i] = 0
  BY DEF Part
<1>2. \A p \in Places : Load(image, Told(b))[p] = image[p]
  <2> TAKE p \in Places
  <2>1. CASE p \notin Covered(c)
    BY <2>1, LoadCovers DEF Part
  <2>2. CASE p \in Covered(c)
    <3>1. image[p] = 0
      BY <2>2
    <3>2. Load(image, Told(b))[p] = IF p[1] = b.mem /\ p[2] - Address(b.pc) + 1 \in DOMAIN b.words
                                    THEN b.words[p[2] - Address(b.pc) + 1] ELSE image[p]
      BY DEF Load, Told
    <3> QED BY <1>1, <3>1, <3>2
  <2> QED BY <2>1, <2>2
<1>3. Load(image, Told(b)) \in Images
  BY <1>1, LoadType
<1> QED BY <1>2, <1>3 DEF Images

LEMMA LoadedOne ==
  ASSUME NEW s \in Seq(BlockOf), NEW a \in BlockOf
  PROVE  Loaded(s \o <<a>>) = Load(Loaded(s), a)
<1> DEFINE S == BlockOf
<1> HIDE DEF S
<1>1. \A q \in Seq(S), z \in S : q \o <<z>> = Append(q, z)
  OBVIOUS
<1>2. s \o <<a>> = Append(s, a)
  BY <1>1 DEF S
<1> QED BY <1>2, LoadedAppend

LEMMA LoadedTwo ==
  ASSUME NEW s \in Seq(BlockOf), NEW a \in BlockOf, NEW b \in BlockOf
  PROVE  Loaded(s \o <<a, b>>) = Load(Load(Loaded(s), a), b)
<1> DEFINE S == BlockOf
<1> HIDE DEF S
<1>1. \A q \in Seq(S), y, z \in S : q \o <<y, z>> = Append(Append(q, y), z) /\ Append(q, y) \in Seq(S)
  OBVIOUS
<1>2. s \o <<a, b>> = Append(Append(s, a), b) /\ Append(s, a) \in Seq(BlockOf)
  BY <1>1 DEF S
<1> QED BY <1>2, LoadedAppend

\* What the blocks of a section do to memory: nothing outside of it.
LEMMA AllLoads ==
  ASSUME chunks \in Seq(Chunks), NEW c \in Chunks, NEW s \in Seq(BlockOf), Loaded(s) \in Images
  PROVE  /\ Loaded(s \o AllOf(c)) \in Images
         /\ \A p \in Places : p \notin Covered(c) => Loaded(s \o AllOf(c))[p] = Loaded(s)[p]
         /\ AllZero(c) /\ (\A p \in Places : p \in Covered(c) => Loaded(s)[p] = 0) => Loaded(s \o AllOf(c)) = Loaded(s)
<1> DEFINE before == Loaded(s)
<1>1. CASE \E x, y \in BlockOf : Part(c, x) /\ Part(c, y) /\ AllOf(c) = <<Told(x), Told(y)>>
  <2>1. PICK x \in BlockOf, y \in BlockOf : Part(c, x) /\ Part(c, y) /\ AllOf(c) = <<Told(x), Told(y)>>
    BY <1>1
  <2>2. Loaded(s \o AllOf(c)) = Load(Load(before, Told(x)), Told(y))
    BY <2>1, LoadedTwo DEF Part
  <2> HIDE DEF before
  <2>3. before \in Images
    BY DEF before
  <2>4. Load(before, Told(x)) \in Images /\ Load(Load(before, Told(x)), Told(y)) \in Images
    BY <2>1, <2>3, LoadType DEF Part
  <2>5. \A p \in Places : p \notin Covered(c) => Load(Load(before, Told(x)), Told(y))[p] = before[p]
    <3> TAKE p \in Places
    <3> HAVE p \notin Covered(c)
    <3>1. Load(before, Told(x))[p] = before[p]
      BY <2>1, <2>3, LoadCovers DEF Part
    <3>2. Load(Load(before, Told(x)), Told(y))[p] = Load(before, Told(x))[p]
      BY <2>1, <2>4, LoadCovers DEF Part
    <3> QED BY <3>1, <3>2
  <2>6. ASSUME AllZero(c), \A p \in Places : p \in Covered(c) => before[p] = 0
        PROVE  Load(Load(before, Told(x)), Told(y)) = before
    <3>1. Load(before, Told(x)) = before
      BY <2>1, <2>3, <2>6, LoadZeros
    <3>2. Load(before, Told(y)) = before
      BY <2>1, <2>3, <2>6, LoadZeros
    <3> QED BY <3>1, <3>2
  <2> QED BY <2>2, <2>4, <2>5, <2>6 DEF before
<1>2. CASE \E b \in BlockOf : Part(c, b) /\ AllOf(c) = <<Told(b)>>
  <2>1. PICK b \in BlockOf : Part(c, b) /\ AllOf(c) = <<Told(b)>>
    BY <1>2
  <2>2. Loaded(s \o AllOf(c)) = Load(before, Told(b))
    BY <2>1, LoadedOne DEF Part
  <2> HIDE DEF before
  <2>3. before \in Images
    BY DEF before
  <2>4. Load(before, Told(b)) \in Images
    BY <2>1, <2>3, LoadType DEF Part
  <2>5. \A p \in Places : p \notin Covered(c) => Load(before, Told(b))[p] = before[p]
    BY <2>1, <2>3, LoadCovers DEF Part
  <2>6. ASSUME AllZero(c), \A p \in Places : p \in Covered(c) => before[p] = 0
        PROVE  Load(before, Told(b)) = before
    BY <2>1, <2>3, <2>6, LoadZeros
  <2> QED BY <2>2, <2>4, <2>5, <2>6 DEF before
<1> QED BY <1>1, <1>2, AllParts

\* The same blocks, loaded behind what loads the same.
LEMMA LoadedAlike ==
  ASSUME NEW c \in Chunks, NEW s \in Seq(BlockOf), NEW t \in Seq(BlockOf), Loaded(s) = Loaded(t)
  PROVE  Loaded(s \o AllOf(c)) = Loaded(t \o AllOf(c))
<1>1. CASE \E x, y \in BlockOf : Part(c, x) /\ Part(c, y) /\ AllOf(c) = <<Told(x), Told(y)>>
  <2>1. PICK x \in BlockOf, y \in BlockOf : Part(c, x) /\ Part(c, y) /\ AllOf(c) = <<Told(x), Told(y)>>
    BY <1>1
  <2> QED BY <2>1, LoadedTwo DEF Part
<1>2. CASE \E b \in BlockOf : Part(c, b) /\ AllOf(c) = <<Told(b)>>
  <2>1. PICK b \in BlockOf : Part(c, b) /\ AllOf(c) = <<Told(b)>>
    BY <1>2
  <2> QED BY <2>1, LoadedOne DEF Part
<1> QED BY <1>1, <1>2, AllParts

LEMMA AllOfType ==
  ASSUME NEW c \in Chunks
  PROVE  AllOf(c) \in Seq(BlockOf)
<1>1. CASE \E x, y \in BlockOf : Part(c, x) /\ Part(c, y) /\ AllOf(c) = <<Told(x), Told(y)>>
  <2>1. PICK x \in BlockOf, y \in BlockOf : Part(c, x) /\ Part(c, y) /\ AllOf(c) = <<Told(x), Told(y)>>
    BY <1>1
  <2>2. PICK a \in BlockOf, b \in BlockOf : AllOf(c) = <<a, b>>
    BY <2>1 DEF Part
  <2> QED BY <2>2
<1>2. CASE \E b \in BlockOf : Part(c, b) /\ AllOf(c) = <<Told(b)>>
  <2>1. PICK b \in BlockOf : Part(c, b) /\ AllOf(c) = <<Told(b)>>
    BY <1>2
  <2>2. PICK a \in BlockOf : AllOf(c) = <<a>>
    BY <2>1 DEF Part
  <2> QED BY <2>2
<1> QED BY <1>1, <1>2, AllParts

\* The blocks of the first n sections, none left out.
AllUpTo(n) == FlattenSeq([i \in 1 .. n |-> AllOf(chunks[i])])

LEMMA AllUpToNext ==
  ASSUME chunks \in Seq(Chunks), NEW n \in Nat, n + 1 <= Len(chunks)
  PROVE  AllUpTo(n) \in Seq(BlockOf) /\ AllUpTo(n + 1) = AllUpTo(n) \o AllOf(chunks[n + 1])
<1> DEFINE e(k) == [i \in 1 .. k |-> AllOf(chunks[i])]
           E == Seq(BlockOf)
<1>1. \A i \in 1 .. n + 1 : AllOf(chunks[i]) \in E
  <2> TAKE i \in 1 .. n + 1
  <2>1. chunks[i] \in Chunks
    OBVIOUS
  <2> QED BY <2>1, AllOfType
<1>2. e(n + 1) = Append(e(n), AllOf(chunks[n + 1])) /\ e(n) \in Seq(E)
  <2> HIDE DEF E
  <2>1. e(n + 1) \in [1 .. n + 1 -> E] /\ e(n) \in [1 .. n -> E] /\ \A i \in 1 .. n : e(n)[i] = e(n + 1)[i]
    BY <1>1
  <2>2. e(n + 1)[n + 1] = AllOf(chunks[n + 1])
    OBVIOUS
  <2> HIDE DEF e
  <2>3. e(n + 1) = Append(e(n), e(n + 1)[n + 1])
    BY <2>1, FunctionAppend
  <2>4. e(n) \in Seq(E)
    BY <2>1
  <2> QED BY <2>2, <2>3, <2>4
<1>3. FlattenSeq(Append(e(n), AllOf(chunks[n + 1]))) = FlattenSeq(e(n)) \o AllOf(chunks[n + 1])
  <2>1. AllOf(chunks[n + 1]) \in Seq(BlockOf)
    BY <1>1
  <2> HIDE DEF e
  <2> QED BY <1>2, <2>1, FlattenAppend
<1>4. \A k \in Nat : AllUpTo(k) = FlattenSeq(e(k))
  BY DEF AllUpTo
<1>5. n + 1 \in Nat
  OBVIOUS
<1>6. FlattenSeq(e(n)) \in Seq(BlockOf)
  <2> HIDE DEF e
  <2> QED BY <1>2, FlattenType
<1> HIDE DEF e
<1> QED BY <1>2, <1>3, <1>4, <1>5, <1>6

\* Words that are not zero stand where a section is.
Spread(image, n) == \A p \in Places : image[p] # 0 => \E i \in 1 .. n : p \in Covered(chunks[i])
Alike(n) == /\ Loaded(AllUpTo(n)) \in Images /\ Loaded(ExpectedUpTo(n)) = Loaded(AllUpTo(n))
            /\ Spread(Loaded(AllUpTo(n)), n)

LEMMA AlikeNext ==
  ASSUME chunks \in Seq(Chunks), g_write_zero_sections \/ \A j \in DOMAIN chunks : ~Clears(j),
         NEW n \in Nat, n + 1 <= Len(chunks), Alike(n)
  PROVE  Alike(n + 1)
<1>1. n + 1 \in DOMAIN chunks /\ n \in 0 .. Len(chunks)
  OBVIOUS
<1>2. PICK c \in Chunks : c = chunks[n + 1]
  BY <1>1
<1>3. PICK a \in Seq(BlockOf), e \in Seq(BlockOf) : a = AllUpTo(n) /\ e = ExpectedUpTo(n)
  BY <1>1, UpToTypes, AllUpToNext
<1>4. Loaded(a) \in Images /\ Loaded(e) = Loaded(a) /\ Spread(Loaded(a), n)
  BY <1>3 DEF Alike
<1>5. AllUpTo(n + 1) = a \o AllOf(c) /\ ExpectedUpTo(n + 1) = e \o ExpectedOf(c)
  BY <1>2, <1>3, AllUpToNext, UpToNext
<1>6. /\ Loaded(a \o AllOf(c)) \in Images
      /\ \A p \in Places : p \notin Covered(c) => Loaded(a \o AllOf(c))[p] = Loaded(a)[p]
      /\ AllZero(c) /\ (\A p \in Places : p \in Covered(c) => Loaded(a)[p] = 0) => Loaded(a \o AllOf(c)) = Loaded(a)
  BY <1>4, AllLoads
<1>7. Spread(Loaded(a \o AllOf(c)), n + 1)
  <2> SUFFICES ASSUME NEW p \in Places, Loaded(a \o AllOf(c))[p] # 0
               PROVE  \E i \in 1 .. n + 1 : p \in Covered(chunks[i])
    BY DEF Spread
  <2>1. CASE p \in Covered(c)
    BY <1>2, <2>1
  <2>2. CASE p \notin Covered(c)
    <3>1. Loaded(a)[p] # 0
      BY <1>6, <2>2
    <3>2. PICK i \in 1 .. n : p \in Covered(chunks[i])
      BY <1>4, <3>1 DEF Spread
    <3>3. i \in 1 .. n + 1
      OBVIOUS
    <3> QED BY <3>2, <3>3
  <2> QED BY <2>1, <2>2
<1>8. Loaded(e \o ExpectedOf(c)) = Loaded(a \o AllOf(c))
  <2>1. CASE Kept(c)
    <3>1. ExpectedOf(c) = AllOf(c)
      BY <2>1, AllParts
    <3> QED BY <1>4, <3>1, LoadedAlike
  <2>2. CASE ~Kept(c)
    <3>1. AllZero(c) /\ ~g_write_zero_sections
      BY <2>2 DEF Kept
    <3>2. ~Clears(n + 1)
      BY <1>1, <3>1
    <3>3. \A i \in 1 .. n : Covered(c) \cap Covered(chunks[i]) = {}
      <4>1. \A i \in 1 .. n : i \in 1 .. n + 1 - 1
        OBVIOUS
      <4> QED BY <1>2, <3>1, <3>2, <4>1 DEF Clears
    <3>4. \A p \in Places : p \in Covered(c) => Loaded(a)[p] = 0
      BY <1>4, <3>3 DEF Spread
    <3>5. Loaded(a \o AllOf(c)) = Loaded(a)
      BY <1>6, <3>1, <3>4
    <3>6. e \o ExpectedOf(c) = e
      <4>1. ExpectedOf(c) = <<>>
        BY <2>2, Dropped
      <4> QED BY <4>1, ConcatEmptySeq
    <3> QED BY <1>4, <3>5, <3>6
  <2> QED BY <2>1, <2>2
<1> QED BY <1>5, <1>6, <1>7, <1>8 DEF Alike

LEMMA AlikeAlways ==
  ASSUME chunks \in Seq(Chunks), g_write_zero_sections \/ \A j \in DOMAIN chunks : ~Clears(j)
  PROVE  \A n \in 0 .. Len(chunks) : Alike(n)
<1> DEFINE T == {n \in 0 .. Len(chunks) : ~Alike(n)}
<1>1. SUFFICES ASSUME T # {} PROVE FALSE
  OBVIOUS
<1>2. PICK m \in T : \A k \in T : m <= k
  <2>1. T \in SUBSET Nat
    OBVIOUS
  <2> HIDE DEF T
  <2> QED BY <1>1, <2>1, LeastNatural
<1>3. m \in 0 .. Len(chunks) /\ ~Alike(m)
  OBVIOUS
<1>4. Alike(0)
  <2>1. [i \in 1 .. 0 |-> AllOf(chunks[i])] = <<>>
    OBVIOUS
  <2>2. AllUpTo(0) = <<>> /\ ExpectedUpTo(0) = <<>>
    BY <2>1, FlattenNothing, UpToZero DEF AllUpTo
  <2>3. Zeros \in Images /\ \A p \in Places : Zeros[p] = 0
    BY DEF Zeros, Images
  <2> QED BY <2>2, <2>3, LoadedNothing DEF Alike, Spread
<1>5. PICK n \in Nat : m = n + 1 /\ n + 1 <= Len(chunks)
  <2>1. m # 0
    BY <1>3, <1>4
  <2>2. m - 1 \in Nat /\ m = m - 1 + 1 /\ m - 1 + 1 <= Len(chunks)
    BY <1>3, <2>1
  <2> QED BY <2>2
<1>6. Alike(n)
  <2>1. ~(m <= n) /\ n \in 0 .. Len(chunks)
    BY <1>5
  <2>2. n \notin T
    <3> HIDE DEF T
    <3> QED BY <1>2, <2>1
  <2> QED BY <2>1, <2>2
<1> QED BY <1>3, <1>5, <1>6, AlikeNext

LEMMA ImageExact == Files => ImageKept
<1> SUFFICES ASSUME Files, Finished, g_write_zero_sections \/ \A j \in DOMAIN chunks : ~Clears(j)
             PROVE  Loaded(ParsedFrom(embAsm)) = Loaded(Everything)
  BY DEF ImageKept
<1>1. chunks \in Seq(Chunks) /\ Len(chunks) \in 0 .. Len(chunks)
  BY DEF Files, At
<1>2. ParsedFrom(embAsm) = ExpectedUpTo(Len(chunks))
  BY EmbeddedExact DEF EmbeddedReadsBack, Expected
<1>3. Everything = AllUpTo(Len(chunks))
  <2>1. DOMAIN chunks = 1 .. Len(chunks)
    BY <1>1
  <2> QED BY <2>1 DEF Everything, AllUpTo
<1> QED BY <1>1, <1>2, <1>3, AlikeAlways DEF Alike

\* Leaving the sections of zeros out of a file loads the same memory
\* (OutputEmbededAsm.c, g_write_zero_sections), unless one of them is meant to clear
\* words that an earlier section loads.
THEOREM ZerosLeftOut == Spec => []ImageKept
BY FilesAlways, ImageExact, PTL

----------------------------------------------------------------------------
(* Lines and the words they stand for.                                     *)

\* The lines behind line i are of words up to line j.
RowsBetween(L, i, j) == (\A k \in i + 1 .. j - 1 : L[k].kind = "words") /\ (j = Len(L) + 1 \/ L[j].kind # "words")

HeaderCounts(L, W, f, i) ==
    /\ f[i + 1] = f[i] + 3
    /\ W[f[i] + 1] = L[i].mem /\ W[f[i] + 2] = make_int(L[i].pc)
    /\ W[f[i] + 3] \in Nat /\ W[f[i] + 3] < Sizes
    /\ \A j \in i + 1 .. Len(L) + 1 : RowsBetween(L, i, j) => f[j] = f[i] + 3 + W[f[i] + 3]
RowCounts(L, W, f, i) ==
    /\ i > 1 /\ L[i - 1].kind \in {"_DATA", "words"}
    /\ L[i].words \in Seq(Nat) /\ f[i + 1] = f[i] + Len(L[i].words)
    /\ \A m \in 1 .. Len(L[i].words) : W[f[i] + m] = L[i].words[m]
LineCounts(L, W, f, i) ==
    /\ L[i].kind = "_DATA" => HeaderCounts(L, W, f, i)
    /\ L[i].kind = "words" => RowCounts(L, W, f, i)
    /\ L[i].kind \notin {"_DATA", "words"} => f[i + 1] = f[i]
CountsTo(f, p, q) == f \in [1 .. p + 1 -> Nat] /\ f[1] = 0 /\ f[p + 1] = q /\ \A i \in 1 .. p + 1 : f[i] <= q
Counting(L, W, f) ==
    /\ CountsTo(f, Len(L), Len(W))
    /\ \A i \in 1 .. Len(L) : LineCounts(L, W, f, i)

\* The counts of two files, one behind the other.
Joint(f, g, p, t, q) == [i \in 1 .. p + t + 1 |-> IF i <= p + 1 THEN f[i] ELSE q + g[i - p]]

Joins(f, g, h, p, t, q, v) ==
    /\ CountsTo(h, p + t, q + v)
    /\ \A i \in 1 .. p + 1 : h[i] = f[i]
    /\ \A i \in 1 .. t + 1 : h[p + i] = q + g[i]

LEMMA JointParts ==
  ASSUME NEW p \in Nat, NEW t \in Nat, NEW q \in Nat, NEW v \in Nat,
         NEW f, NEW g, CountsTo(f, p, q), CountsTo(g, t, v)
  PROVE  Joins(f, g, Joint(f, g, p, t, q), p, t, q, v)
<1> DEFINE h == Joint(f, g, p, t, q)
<1>0. /\ f \in [1 .. p + 1 -> Nat] /\ f[1] = 0 /\ f[p + 1] = q /\ \A i \in 1 .. p + 1 : f[i] <= q
      /\ g \in [1 .. t + 1 -> Nat] /\ g[1] = 0 /\ g[t + 1] = v /\ \A i \in 1 .. t + 1 : g[i] <= v
  BY DEF CountsTo
<1>1. \A i \in 1 .. p + t + 1 : h[i] = IF i <= p + 1 THEN f[i] ELSE q + g[i - p]
  BY DEF Joint
<1>2. \A i \in 1 .. p + t + 1 : (i <= p + 1 => i \in 1 .. p + 1) /\ (~(i <= p + 1) => i - p \in 1 .. t + 1)
  OBVIOUS
<1>3. \A i \in 1 .. p + 1 : i \in 1 .. p + t + 1 /\ i <= p + 1
  OBVIOUS
<1>4. \A i \in 1 .. p + 1 : h[i] = f[i]
  <2> HIDE DEF h
  <2> QED BY <1>1, <1>3
<1>5. \A i \in 1 .. t + 1 : h[p + i] = q + g[i]
  <2> HIDE DEF h
  <2> TAKE i \in 1 .. t + 1
  <2>1. p + i \in 1 .. p + t + 1 /\ p + i - p = i
    OBVIOUS
  <2>2. CASE i = 1
    <3>1. h[p + 1] = f[p + 1]
      BY <1>4
    <3> QED BY <1>0, <2>2, <3>1
  <2>3. CASE i # 1
    <3>1. ~(p + i <= p + 1)
      BY <2>3
    <3> QED BY <1>1, <2>1, <3>1
  <2> QED BY <2>2, <2>3
<1>6. \A i \in 1 .. p + t + 1 : h[i] \in Nat /\ h[i] <= q + v
  <2> HIDE DEF h
  <2> TAKE i \in 1 .. p + t + 1
  <2>1. CASE i <= p + 1
    BY <1>0, <1>1, <1>2, <2>1
  <2>2. CASE ~(i <= p + 1)
    <3>1. PICK k \in 1 .. t + 1 : k = i - p
      BY <1>2, <2>2
    <3>2. h[i] = q + g[k] /\ g[k] <= v /\ g[k] \in Nat
      BY <1>0, <1>1, <2>2, <3>1
    <3> QED BY <3>2
  <2> QED BY <2>1, <2>2
<1>7. h \in [1 .. p + t + 1 -> Nat]
  BY <1>6 DEF Joint
<1>8. h[1] = 0
  <2> HIDE DEF h
  <2>1. 1 \in 1 .. p + 1
    OBVIOUS
  <2> QED BY <1>0, <1>4, <2>1
<1>9. h[p + t + 1] = q + v
  <2> HIDE DEF h
  <2>1. t + 1 \in 1 .. t + 1 /\ p + (t + 1) = p + t + 1
    OBVIOUS
  <2> QED BY <1>0, <1>5, <2>1
<1> HIDE DEF h
<1>10. CountsTo(h, p + t, q + v)
  BY <1>6, <1>7, <1>8, <1>9 DEF CountsTo
<1> QED BY <1>4, <1>5, <1>10 DEF h, Joins

Sizing(L, M, p, t) == Len(L) = p /\ Len(M) = p + t
AsBefore(L, M, W, X, f, h, p, t, q) ==
    /\ \A k \in 1 .. p : M[k] = L[k]
    /\ t > 0 => M[p + 1].kind # "words"
    /\ \A k \in 1 .. q : X[k] = W[k]
    /\ \A k \in 1 .. p + 1 : h[k] = f[k] /\ f[k] \in Nat /\ f[k] <= q
AsBehind(T, M, V, X, g, h, p, t, q, v) ==
    /\ \A k \in 1 .. t : M[p + k] = T[k]
    /\ \A k \in 1 .. v : X[q + k] = V[k]
    /\ \A k \in 1 .. t + 1 : h[p + k] = q + g[k] /\ g[k] \in Nat /\ g[k] <= v

\* A line of the first file stands for the same words when more follows.
LEMMA CountsBefore ==
  ASSUME NEW p \in Nat, NEW t \in Nat, NEW q \in Nat,
         NEW L, NEW M, NEW W, NEW X, NEW f, NEW h, NEW i \in 1 .. p,
         Sizing(L, M, p, t), LineCounts(L, W, f, i), AsBefore(L, M, W, X, f, h, p, t, q)
  PROVE  LineCounts(M, X, h, i)
<1>1. i \in 1 .. p + 1 /\ i + 1 \in 1 .. p + 1 /\ M[i] = L[i] /\ h[i] = f[i] /\ h[i + 1] = f[i + 1]
      /\ f[i] \in Nat /\ f[i + 1] \in Nat /\ f[i + 1] <= q
  <2>1. i \in 1 .. p + 1 /\ i + 1 \in 1 .. p + 1
    OBVIOUS
  <2> QED BY <2>1 DEF AsBefore
<1>2. CASE L[i].kind = "_DATA"
  <2>1. /\ f[i + 1] = f[i] + 3
        /\ W[f[i] + 1] = L[i].mem /\ W[f[i] + 2] = make_int(L[i].pc) /\ W[f[i] + 3] \in Nat /\ W[f[i] + 3] < Sizes
        /\ \A j \in i + 1 .. p + 1 : RowsBetween(L, i, j) => f[j] = f[i] + 3 + W[f[i] + 3]
    BY <1>2 DEF LineCounts, HeaderCounts, Sizing
  <2>2. PICK n \in Nat : n = f[i]
    BY <1>1
  <2>3. X[n + 1] = W[n + 1] /\ X[n + 2] = W[n + 2] /\ X[n + 3] = W[n + 3]
    <3>1. n + 1 \in 1 .. q /\ n + 2 \in 1 .. q /\ n + 3 \in 1 .. q
      BY <1>1, <2>1, <2>2
    <3> QED BY <3>1 DEF AsBefore
  <2>4. ASSUME NEW j \in i + 1 .. p + t + 1, RowsBetween(M, i, j)
        PROVE  h[j] = h[i] + 3 + X[h[i] + 3]
    <3>1. j <= p + 1
      <4> SUFFICES ASSUME ~(j <= p + 1) PROVE FALSE
        OBVIOUS
      <4>1. p + 1 \in i + 1 .. j - 1 /\ t > 0
        OBVIOUS
      <4> QED BY <2>4, <4>1 DEF RowsBetween, AsBefore
    <3>2. j \in i + 1 .. p + 1 /\ j \in 1 .. p + 1
      BY <3>1
    <3>3. \A k \in i + 1 .. j - 1 : L[k].kind = "words"
      <4> TAKE k \in i + 1 .. j - 1
      <4>1. k \in 1 .. p
        BY <3>1
      <4> QED BY <2>4, <4>1 DEF RowsBetween, AsBefore
    <3>4. j = p + 1 \/ L[j].kind # "words"
      <4> SUFFICES ASSUME j # p + 1 PROVE L[j].kind # "words"
        OBVIOUS
      <4>1. j \in 1 .. p /\ j # p + t + 1
        BY <3>1
      <4> QED BY <2>4, <4>1 DEF RowsBetween, AsBefore, Sizing
    <3>5. RowsBetween(L, i, j)
      BY <3>3, <3>4 DEF RowsBetween, Sizing
    <3>6. f[j] = n + 3 + W[n + 3]
      BY <2>1, <2>2, <3>2, <3>5
    <3>7. h[j] = f[j]
      BY <3>2 DEF AsBefore
    <3> QED BY <1>1, <2>2, <2>3, <3>6, <3>7
  <2>5. /\ h[i + 1] = h[i] + 3
        /\ X[h[i] + 1] = M[i].mem /\ X[h[i] + 2] = make_int(M[i].pc) /\ X[h[i] + 3] \in Nat /\ X[h[i] + 3] < Sizes
    BY <1>1, <2>1, <2>2, <2>3
  <2>6. HeaderCounts(M, X, h, i)
    BY <2>4, <2>5 DEF HeaderCounts, Sizing
  <2> QED BY <1>1, <1>2, <2>6 DEF LineCounts
<1>3. CASE L[i].kind = "words"
  <2>1. /\ i > 1 /\ L[i - 1].kind \in {"_DATA", "words"}
        /\ L[i].words \in Seq(Nat) /\ f[i + 1] = f[i] + Len(L[i].words)
        /\ \A m \in 1 .. Len(L[i].words) : W[f[i] + m] = L[i].words[m]
    BY <1>3 DEF LineCounts, RowCounts
  <2>2. PICK ws \in Seq(Nat), n \in Nat, l \in Nat : ws = L[i].words /\ n = f[i] /\ l = Len(ws)
    BY <1>1, <2>1
  <2>3. \A m \in 1 .. l : X[n + m] = ws[m]
    <3> TAKE m \in 1 .. l
    <3>1. n + m \in 1 .. q
      <4>1. f[i + 1] = n + l
        BY <2>1, <2>2
      <4>2. n + l <= q
        BY <1>1, <4>1
      <4> QED BY <4>2
    <3> QED BY <2>1, <2>2, <3>1 DEF AsBefore
  <2>4. M[i - 1] = L[i - 1]
    <3>1. i > 1
      BY <2>1
    <3>2. i - 1 \in 1 .. p
      BY <3>1
    <3> QED BY <3>2 DEF AsBefore
  <2>5. RowCounts(M, X, h, i)
    BY <1>1, <2>1, <2>2, <2>3, <2>4 DEF RowCounts
  <2> QED BY <1>1, <1>3, <2>5 DEF LineCounts
<1>4. CASE L[i].kind \notin {"_DATA", "words"}
  BY <1>1, <1>4 DEF LineCounts
<1> QED BY <1>2, <1>3, <1>4

\* A line of the second file stands for the same words when others come before.
LEMMA CountsBehind ==
  ASSUME NEW p \in Nat, NEW t \in Nat, NEW q \in Nat, NEW v \in Nat,
         NEW T, NEW M, NEW V, NEW X, NEW g, NEW h, NEW i \in 1 .. t,
         Sizing(T, M, t, p), LineCounts(T, V, g, i), AsBehind(T, M, V, X, g, h, p, t, q, v)
  PROVE  LineCounts(M, X, h, p + i)
<1>1. i \in 1 .. t + 1 /\ i + 1 \in 1 .. t + 1 /\ M[p + i] = T[i] /\ h[p + i] = q + g[i]
      /\ g[i] \in Nat /\ g[i + 1] \in Nat /\ g[i + 1] <= v
  <2>1. i \in 1 .. t + 1 /\ i + 1 \in 1 .. t + 1
    OBVIOUS
  <2> QED BY <2>1 DEF AsBehind
<1>2. h[p + i + 1] = q + g[i + 1]
  <2>1. p + (i + 1) = p + i + 1
    OBVIOUS
  <2>2. h[p + (i + 1)] = q + g[i + 1]
    BY <1>1 DEF AsBehind
  <2> QED BY <2>1, <2>2
<1>3. CASE T[i].kind = "_DATA"
  <2>1. /\ g[i + 1] = g[i] + 3
        /\ V[g[i] + 1] = T[i].mem /\ V[g[i] + 2] = make_int(T[i].pc) /\ V[g[i] + 3] \in Nat /\ V[g[i] + 3] < Sizes
        /\ \A j \in i + 1 .. t + 1 : RowsBetween(T, i, j) => g[j] = g[i] + 3 + V[g[i] + 3]
    BY <1>3 DEF LineCounts, HeaderCounts, Sizing
  <2>2. PICK n \in Nat, z \in Nat : n = g[i] /\ z = q + n
    BY <1>1
  <2>3. X[z + 1] = V[n + 1] /\ X[z + 2] = V[n + 2] /\ X[z + 3] = V[n + 3]
    <3>1. n + 1 \in 1 .. v /\ n + 2 \in 1 .. v /\ n + 3 \in 1 .. v
      BY <1>1, <2>1, <2>2
    <3>2. q + (n + 1) = z + 1 /\ q + (n + 2) = z + 2 /\ q + (n + 3) = z + 3
      BY <2>2
    <3>3. X[q + (n + 1)] = V[n + 1] /\ X[q + (n + 2)] = V[n + 2] /\ X[q + (n + 3)] = V[n + 3]
      BY <3>1 DEF AsBehind
    <3> QED BY <3>2, <3>3
  <2>4. ASSUME NEW j \in p + i + 1 .. p + t + 1, RowsBetween(M, p + i, j)
        PROVE  h[j] = h[p + i] + 3 + X[h[p + i] + 3]
    <3>1. PICK d \in i + 1 .. t + 1 : j = p + d
      <4>1. j - p \in i + 1 .. t + 1 /\ j = p + (j - p)
        OBVIOUS
      <4> QED BY <4>1
    <3>2. \A k \in i + 1 .. d - 1 : T[k].kind = "words"
      <4> TAKE k \in i + 1 .. d - 1
      <4>1. k \in 1 .. t /\ p + k \in p + i + 1 .. j - 1
        BY <3>1
      <4>2. M[p + k].kind = "words" /\ M[p + k] = T[k]
        BY <2>4, <4>1 DEF RowsBetween, AsBehind
      <4> QED BY <4>2
    <3>3. d = t + 1 \/ T[d].kind # "words"
      <4> SUFFICES ASSUME d # t + 1 PROVE T[d].kind # "words"
        OBVIOUS
      <4>1. d \in 1 .. t /\ j # p + t + 1
        BY <3>1
      <4>2. M[j].kind # "words"
        BY <2>4, <4>1 DEF RowsBetween, Sizing
      <4>3. M[p + d] = T[d]
        BY <4>1 DEF AsBehind
      <4> QED BY <3>1, <4>2, <4>3
    <3>4. RowsBetween(T, i, d)
      BY <3>2, <3>3 DEF RowsBetween, Sizing
    <3>5. g[d] = n + 3 + V[n + 3]
      BY <2>1, <2>2, <3>4
    <3>6. h[p + d] = q + g[d] /\ g[d] \in Nat
      <4>1. d \in 1 .. t + 1
        OBVIOUS
      <4> QED BY <4>1 DEF AsBehind
    <3>7. h[p + d] = q + (n + 3 + V[n + 3]) /\ h[p + i] = z
      BY <1>1, <2>2, <3>5, <3>6
    <3>8. V[n + 3] \in Nat
      BY <2>1, <2>2
    <3>9. PICK w \in Nat : w = V[n + 3]
      BY <3>8
    <3>10. q + (n + 3 + w) = z + 3 + w
      BY <2>2
    <3> QED BY <2>3, <3>1, <3>7, <3>9, <3>10
  <2>5. /\ h[p + i + 1] = h[p + i] + 3
        /\ X[h[p + i] + 1] = M[p + i].mem /\ X[h[p + i] + 2] = make_int(M[p + i].pc) /\ X[h[p + i] + 3] \in Nat /\ X[h[p + i] + 3] < Sizes
    BY <1>1, <1>2, <2>1, <2>2, <2>3
  <2>6. HeaderCounts(M, X, h, p + i)
    BY <2>4, <2>5 DEF HeaderCounts, Sizing
  <2> QED BY <1>1, <1>3, <2>6 DEF LineCounts
<1>4. CASE T[i].kind = "words"
  <2>1. /\ i > 1 /\ T[i - 1].kind \in {"_DATA", "words"}
        /\ T[i].words \in Seq(Nat) /\ g[i + 1] = g[i] + Len(T[i].words)
        /\ \A m \in 1 .. Len(T[i].words) : V[g[i] + m] = T[i].words[m]
    BY <1>4 DEF LineCounts, RowCounts
  <2>2. PICK ws \in Seq(Nat), n \in Nat, l \in Nat, z \in Nat :
           ws = T[i].words /\ n = g[i] /\ l = Len(ws) /\ z = q + n
    <3>1. PICK ws \in Seq(Nat) : ws = T[i].words
      BY <2>1
    <3>2. PICK n \in Nat : n = g[i]
      BY <1>1
    <3>3. Len(ws) \in Nat /\ q + n \in Nat
      BY LenNat
    <3> QED BY <3>1, <3>2, <3>3
  <2>3. \A m \in 1 .. l : X[z + m] = ws[m]
    <3> TAKE m \in 1 .. l
    <3>1. n + m \in 1 .. v /\ q + (n + m) = z + m
      <4>1. g[i + 1] = n + l
        BY <2>1, <2>2
      <4>2. n + l <= v /\ z = q + n
        BY <1>1, <2>2, <4>1
      <4> QED BY <4>2
    <3>2. X[q + (n + m)] = V[n + m]
      BY <3>1 DEF AsBehind
    <3> QED BY <2>1, <2>2, <3>1, <3>2
  <2>4. M[p + i - 1] = T[i - 1]
    <3>1. i > 1
      BY <2>1
    <3>2. i - 1 \in 1 .. t /\ p + (i - 1) = p + i - 1
      BY <3>1
    <3>3. M[p + (i - 1)] = T[i - 1]
      BY <3>2 DEF AsBehind
    <3> QED BY <3>2, <3>3
  <2>5. p + i > 1 /\ h[p + i] = z /\ h[p + i + 1] = z + l
    <3>1. i > 1
      BY <2>1
    <3>2. g[i + 1] = n + l /\ z = q + n
      BY <2>1, <2>2
    <3>3. h[p + i + 1] = q + (n + l) /\ h[p + i] = z
      BY <1>1, <1>2, <2>2, <3>2
    <3> QED BY <3>1, <3>2, <3>3
  <2>6. /\ M[p + i - 1].kind \in {"_DATA", "words"} /\ M[p + i].words = ws
    BY <1>1, <2>1, <2>2, <2>4
  <2>7. RowCounts(M, X, h, p + i)
    BY <2>2, <2>3, <2>5, <2>6 DEF RowCounts
  <2> QED BY <1>1, <1>4, <2>7 DEF LineCounts
<1>5. CASE T[i].kind \notin {"_DATA", "words"}
  <2>1. g[i + 1] = g[i]
    BY <1>5 DEF LineCounts
  <2> QED BY <1>1, <1>2, <1>5, <2>1 DEF LineCounts
<1> QED BY <1>3, <1>4, <1>5

LEMMA FirstLine ==
  ASSUME NEW T, NEW W, NEW f, NEW t \in Nat, t > 0, Sizing(T, T, t, 0), Counting(T, W, f)
  PROVE  T[1].kind # "words"
<1>1. 1 \in 1 .. t /\ ~(1 > 1)
  OBVIOUS
<1> QED BY <1>1 DEF Sizing, Counting, LineCounts, RowCounts

LEMMA CountingJoined ==
  ASSUME NEW S, NEW L \in Seq(S), NEW T \in Seq(S), NEW W \in Seq(Nat), NEW V \in Seq(Nat),
         NEW f, NEW g, Counting(L, W, f), Counting(T, V, g)
  PROVE  Counting(L \o T, W \o V, Joint(f, g, Len(L), Len(T), Len(W)))
<1>1. PICK p \in Nat, t \in Nat, q \in Nat, v \in Nat : p = Len(L) /\ t = Len(T) /\ q = Len(W) /\ v = Len(V)
  <2>1. Len(L) \in Nat /\ Len(T) \in Nat /\ Len(W) \in Nat /\ Len(V) \in Nat
    BY LenNat
  <2> QED BY <2>1
<1>2. PICK M \in Seq(S), X \in Seq(Nat) : M = L \o T /\ X = W \o V
  BY JoinedType
<1>3. Len(M) = p + t /\ Len(X) = q + v
  <2>1. Len(L \o T) = Len(L) + Len(T) /\ Len(W \o V) = Len(W) + Len(V)
    BY JoinedLen
  <2> QED BY <1>1, <1>2, <2>1
<1>4. Sizing(L, M, p, t) /\ Sizing(T, M, t, p) /\ Sizing(T, T, t, 0)
  <2>1. p + t = t + p /\ t + 0 = t
    OBVIOUS
  <2> QED BY <1>1, <1>3, <2>1 DEF Sizing
<1>5. PICK h : h = Joint(f, g, p, t, q)
  OBVIOUS
<1>6. /\ CountsTo(f, p, q)
      /\ \A i \in 1 .. p : LineCounts(L, W, f, i)
  BY <1>1 DEF Counting
<1>7. /\ CountsTo(g, t, v)
      /\ \A i \in 1 .. t : LineCounts(T, V, g, i)
  BY <1>1 DEF Counting
<1>8. /\ CountsTo(h, p + t, q + v)
      /\ \A i \in 1 .. p + 1 : h[i] = f[i]
      /\ \A i \in 1 .. t + 1 : h[p + i] = q + g[i]
  <2>1. CountsTo(f, p, q) /\ CountsTo(g, t, v)
    BY <1>6, <1>7
  <2>2. Joins(f, g, Joint(f, g, p, t, q), p, t, q, v)
    BY <2>1, JointParts
  <2>3. Joins(f, g, h, p, t, q, v)
    BY <1>5, <2>2
  <2> QED BY <2>3 DEF Joins
<1>9. t > 0 => M[p + 1].kind # "words"
  <2> SUFFICES ASSUME t > 0 PROVE M[p + 1].kind # "words"
    OBVIOUS
  <2>1. 1 \in 1 .. Len(T)
    BY <1>1
  <2>2. M[p + 1] = T[1]
    BY <1>1, <1>2, <2>1, JoinedBack
  <2>3. T[1].kind # "words"
    BY <1>4, FirstLine
  <2> QED BY <2>2, <2>3
<1>10. AsBefore(L, M, W, X, f, h, p, t, q)
  <2>1. \A k \in 1 .. p : M[k] = L[k]
    BY <1>1, <1>2, JoinedFront
  <2>2. \A k \in 1 .. q : X[k] = W[k]
    BY <1>1, <1>2, JoinedFront
  <2> QED BY <1>6, <1>8, <1>9, <2>1, <2>2 DEF AsBefore, CountsTo
<1>11. AsBehind(T, M, V, X, g, h, p, t, q, v)
  <2>1. \A k \in 1 .. t : M[p + k] = T[k]
    BY <1>1, <1>2, JoinedBack
  <2>2. \A k \in 1 .. v : X[q + k] = V[k]
    BY <1>1, <1>2, WordsBack
  <2> QED BY <1>7, <1>8, <2>1, <2>2 DEF AsBehind, CountsTo
<1>12. \A i \in 1 .. p + t : LineCounts(M, X, h, i)
  <2> TAKE i \in 1 .. p + t
  <2>1. CASE i <= p
    <3>1. i \in 1 .. p
      BY <2>1
    <3> QED BY <1>4, <1>6, <1>10, <3>1, CountsBefore
  <2>2. CASE ~(i <= p)
    <3>1. PICK k \in 1 .. t : i = p + k
      <4>1. i - p \in 1 .. t /\ i = p + (i - p)
        BY <2>2
      <4> QED BY <4>1
    <3>2. LineCounts(M, X, h, p + k)
      BY <1>4, <1>7, <1>11, CountsBehind
    <3> QED BY <3>1, <3>2
  <2> QED BY <2>1, <2>2
<1>13. Counting(M, X, h)
  BY <1>3, <1>8, <1>12 DEF Counting
<1> QED BY <1>1, <1>2, <1>5, <1>13

\* A block stands for its words (OutputLod.c, LOD_SaveData).
LEMMA FewDigits ==
  ASSUME NEW n \in Nat, n < 16 ^ 4
  PROVE  make_int(n) = n /\ Address(n) = n
<1> DEFINE S == {k \in 0 .. 4 : n \div 16 ^ k < 16 ^ 4}
<1>1. 0 \in S
  <2>1. 16 ^ 0 = 1 /\ n \div 1 = n
    OBVIOUS
  <2> QED BY <2>1
<1>2. Min(S) = 0
  <2>1. S \in SUBSET Nat /\ \A k \in S : 0 <= k
    OBVIOUS
  <2> HIDE DEF S
  <2>2. Min(S) \in S /\ \A y \in S : Min(S) <= y
    BY <1>1, <2>1 DEF Min
  <2>3. Min(S) \in Nat
    BY <2>1, <2>2
  <2> QED BY <1>1, <2>2, <2>3
<1>3. make_int(n) = n \div 16 ^ 0
  BY <1>2 DEF make_int
<1>4. n % Addresses = n
  <2>1. PICK a \in Nat : a = Addresses /\ n < a
    BY OutputAssumption
  <2>2. n % a = n
    BY <2>1
  <2> QED BY <2>1, <2>2
<1> QED BY <1>3, <1>4 DEF Address

Small(b) == b.pc < 16 ^ 4 /\ Len(b.words) < Sizes
Least(m, n) == IF m < n THEN m ELSE n
BlockCount(n, r) == [i \in 1 .. r + 2 |-> IF i = 1 THEN 0 ELSE 3 + Least(8 * (i - 2), n)]

RowsOf(w, n, r) == n = Len(w) /\ r = (n + 7) \div 8

RowIs(w, n, i) ==
    /\ Rows(w)[i].kind = "words" /\ Rows(w)[i].words \in Seq(Nat)
    /\ 8 * (i - 1) \in Nat /\ Least(8 * (i - 1), n) = 8 * (i - 1)
    /\ 8 * (i - 1) + Len(Rows(w)[i].words) = Least(8 * i, n)
    /\ \A m \in 1 .. Len(Rows(w)[i].words) : Rows(w)[i].words[m] = w[8 * (i - 1) + m]

LEMMA RowsParts ==
  ASSUME NEW w \in Seq(Nat), NEW n \in Nat, NEW r \in Nat, RowsOf(w, n, r), NEW i \in 1 .. r
  PROVE  RowIs(w, n, i)
<1>1. PICK d \in Nat, e \in Nat : d = 8 * (i - 1) /\ e = Least(8 * i, n) /\ d < e /\ e <= n /\ d + 1 = 8 * i - 7
                                 /\ d < n
  <2>1. 8 * (i - 1) \in Nat /\ Least(8 * i, n) \in Nat
    BY DEF Least
  <2>2. 8 * (i - 1) < n
    BY DEF RowsOf
  <2>3. 8 * (i - 1) < Least(8 * i, n) /\ Least(8 * i, n) <= n /\ 8 * (i - 1) + 1 = 8 * i - 7
    BY <2>2 DEF Least
  <2> QED BY <2>1, <2>2, <2>3
<1>2. Rows(w)[i] = [kind |-> "words", words |-> SubSeq(w, d + 1, e)]
  <2>1. Rows(w)[i] = [kind |-> "words", words |-> SubSeq(w, 8 * i - 7, IF 8 * i < Len(w) THEN 8 * i ELSE Len(w))]
    BY DEF Rows, RowsOf
  <2>2. e = IF 8 * i < Len(w) THEN 8 * i ELSE Len(w)
    BY <1>1 DEF Least, RowsOf
  <2> QED BY <1>1, <2>1, <2>2
<1>3. PICK u \in Seq(Nat) : /\ u = SubSeq(w, d + 1, e) /\ Len(u) = e - d
                            /\ \A m \in 1 .. e - d : u[m] = w[d + m]
  <2>1. \A k \in d + 1 .. e : w[k] \in Nat
    BY <1>1 DEF RowsOf
  <2>2. PICK a \in Nat : a = d + 1 /\ a <= e /\ e - a + 1 = e - d
    BY <1>1
  <2>3. \A k \in a .. e : w[k] \in Nat
    BY <2>1, <2>2
  <2>4. /\ SubSeq(w, a, e) \in Seq(Nat)
        /\ Len(SubSeq(w, a, e)) = IF a <= e THEN e - a + 1 ELSE 0
        /\ \A m \in 1 .. e - a + 1 : SubSeq(w, a, e)[m] = w[a + m - 1]
    BY <2>3, SubSeqProperties
  <2>5. Len(SubSeq(w, a, e)) = e - d
    BY <2>2, <2>4
  <2>6. \A m \in 1 .. e - d : SubSeq(w, a, e)[m] = w[d + m]
    <3> TAKE m \in 1 .. e - d
    <3>1. a + m - 1 = d + m /\ m \in 1 .. e - a + 1
      BY <2>2
    <3>2. SubSeq(w, a, e)[m] = w[a + m - 1]
      BY <2>4, <3>1
    <3> QED BY <3>1, <3>2
  <2>7. SubSeq(w, a, e) = SubSeq(w, d + 1, e)
    BY <2>2
  <2> QED BY <2>4, <2>5, <2>6, <2>7
<1>4. Least(8 * (i - 1), n) = 8 * (i - 1)
  BY <1>1 DEF Least
<1>5. Rows(w)[i].kind = "words" /\ Rows(w)[i].words = u
  BY <1>2, <1>3
<1>6. d + Len(u) = e
  BY <1>1, <1>3
<1>7. \A m \in 1 .. Len(u) : u[m] = w[d + m]
  BY <1>3
<1> QED BY <1>1, <1>3, <1>4, <1>5, <1>6, <1>7 DEF RowIs

\* The lines of a LOD file.
LineOf(syms) ==
    {[kind |-> "_START"], [kind |-> "_END"]} \cup [kind : {"_DATA"}, mem : Nat, pc : Nat]
    \cup [kind : {"words"}, words : Seq(Nat)] \cup [kind : {"_SYMBOL"}, space : Int]
    \cup {SymbolLine(sym) : sym \in syms}
HeaderOf(b) == [kind |-> "_DATA", mem |-> b.mem, pc |-> b.pc]

LEMMA RowsType ==
  ASSUME NEW w \in Seq(Nat), NEW syms, NEW n \in Nat, NEW r \in Nat, RowsOf(w, n, r)
  PROVE  Rows(w) \in Seq(LineOf(syms)) /\ Len(Rows(w)) = r
<1> DEFINE S == LineOf(syms)
<1>1. DOMAIN Rows(w) = 1 .. r /\ Rows(w) = [i \in 1 .. r |-> Rows(w)[i]]
  BY DEF Rows, RowsOf
<1>2. \A i \in 1 .. r : Rows(w)[i] \in S
  <2> TAKE i \in 1 .. r
  <2>1. Rows(w)[i].words \in Seq(Nat) /\ Rows(w)[i].kind = "words"
    BY RowsParts DEF RowIs
  <2>2. Rows(w)[i] = [kind |-> "words", words |-> Rows(w)[i].words]
    <3>1. Rows(w)[i] = [kind |-> "words", words |-> SubSeq(w, 8 * i - 7, IF 8 * i < Len(w) THEN 8 * i ELSE Len(w))]
      BY DEF Rows, RowsOf
    <3> QED BY <3>1
  <2> QED BY <2>1, <2>2 DEF LineOf
<1> HIDE DEF S
<1>3. PICK f \in [1 .. r -> S] : f = Rows(w)
  BY <1>1, <1>2
<1>4. f \in Seq(S) /\ Len(f) = r
  OBVIOUS
<1> QED BY <1>3, <1>4 DEF S

LEMMA SaveDataParts ==
  ASSUME NEW b \in BlockOf, NEW syms, NEW n \in Nat, NEW r \in Nat, RowsOf(b.words, n, r)
  PROVE  /\ LOD_SaveData(b) \in Seq(LineOf(syms)) /\ Len(LOD_SaveData(b)) = r + 1
         /\ LOD_SaveData(b)[1] = HeaderOf(b)
         /\ \A i \in 1 .. r : LOD_SaveData(b)[i + 1] = Rows(b.words)[i]
<1> DEFINE S == LineOf(syms)
<1>1. b.words \in Seq(Nat) /\ b.mem \in Nat /\ b.pc \in Nat
  BY BlockParts
<1>2. Rows(b.words) \in Seq(S) /\ Len(Rows(b.words)) = r
  BY <1>1, RowsType
<1>3. HeaderOf(b) \in S
  BY <1>1 DEF HeaderOf, LineOf
<1>4. LOD_SaveData(b) = <<HeaderOf(b)>> \o Rows(b.words)
  BY DEF LOD_SaveData, HeaderOf
<1> HIDE DEF S
<1>5. <<HeaderOf(b)>> \in Seq(S) /\ Len(<<HeaderOf(b)>>) = 1 /\ <<HeaderOf(b)>>[1] = HeaderOf(b)
  BY <1>3
<1>6. PICK x \in Seq(S), rows \in Seq(S), l \in Seq(S) : x = <<HeaderOf(b)>> /\ rows = Rows(b.words) /\ l = x \o rows
  BY <1>2, <1>5, JoinedType
<1>7. Len(x) = 1 /\ Len(rows) = r /\ x[1] = HeaderOf(b) /\ l = LOD_SaveData(b)
  BY <1>2, <1>4, <1>5, <1>6
<1>8. Len(l) = r + 1 /\ l[1] = HeaderOf(b)
  <2>1. Len(l) = Len(x) + Len(rows)
    BY <1>6, JoinedLen
  <2>2. 1 \in 1 .. Len(x)
    BY <1>7
  <2>3. l[1] = x[1]
    BY <1>6, <2>2, JoinedFront
  <2>4. 1 + r = r + 1
    OBVIOUS
  <2> QED BY <1>7, <2>1, <2>3, <2>4
<1>9. \A i \in 1 .. r : l[i + 1] = rows[i]
  <2> TAKE i \in 1 .. r
  <2>1. i \in 1 .. Len(rows) /\ Len(x) + i = i + 1
    BY <1>7
  <2>2. l[Len(x) + i] = rows[i]
    BY <1>6, <2>1, JoinedBack
  <2> QED BY <2>1, <2>2
<1> QED BY <1>6, <1>7, <1>8, <1>9 DEF S

LEMMA BlockCounts ==
  ASSUME NEW b \in BlockOf, Told(b) \in BlockOf, Small(b), NEW n \in Nat, NEW r \in Nat, RowsOf(b.words, n, r)
  PROVE  Counting(LOD_SaveData(b), Coded(Told(b)), BlockCount(n, r))
<1>1. PICK w \in Seq(Nat) : w = b.words
  BY BlockParts
<1>2. n = Len(w) /\ r = (n + 7) \div 8 /\ n < Sizes /\ b.pc < 16 ^ 4 /\ b.pc \in Nat /\ b.mem \in Nat
  BY <1>1, BlockParts DEF RowsOf, Small
<1>3. PICK L, f, X : X \in Seq(Nat) /\ L = LOD_SaveData(b) /\ f = BlockCount(n, r) /\ X = Coded(Told(b))
  BY CodedType
<1>4. Len(L) = r + 1 /\ L[1] = HeaderOf(b) /\ \A i \in 1 .. r : L[i + 1] = Rows(w)[i]
  BY <1>1, <1>3, SaveDataParts
<1>5. Len(X) = n + 3 /\ X[1] = b.mem /\ X[2] = b.pc /\ X[3] = n /\ \A k \in 1 .. n : X[3 + k] = w[k]
  <2>1. X = <<b.mem, b.pc, n>> \o w
    <3>1. Told(b).mem = b.mem /\ Told(b).pc = b.pc /\ Told(b).words = w
      BY <1>1, <1>2, FewDigits DEF Told
    <3> QED BY <1>2, <1>3, <3>1 DEF Coded
  <2>2. PICK x \in Seq(Nat) : x = <<b.mem, b.pc, n>> /\ Len(x) = 3 /\ x[1] = b.mem /\ x[2] = b.pc /\ x[3] = n
    <3>1. b.pc \in Nat /\ b.mem \in Nat
      BY <1>2
    <3>2. <<b.mem, b.pc, n>> \in Seq(Nat)
      BY <3>1
    <3>3. Len(<<b.mem, b.pc, n>>) = 3
      OBVIOUS
    <3>4. <<b.mem, b.pc, n>>[1] = b.mem /\ <<b.mem, b.pc, n>>[2] = b.pc /\ <<b.mem, b.pc, n>>[3] = n
      OBVIOUS
    <3> QED BY <3>2, <3>3, <3>4
  <2>3. Len(X) = Len(x) + Len(w)
    BY <2>1, <2>2, JoinedLen
  <2>4. X[1] = x[1] /\ X[2] = x[2] /\ X[3] = x[3]
    <3>1. 1 \in 1 .. Len(x) /\ 2 \in 1 .. Len(x) /\ 3 \in 1 .. Len(x)
      BY <2>2
    <3> QED BY <2>1, <2>2, <3>1, JoinedFront
  <2>5. \A k \in 1 .. Len(w) : X[Len(x) + k] = w[k]
    BY <2>1, <2>2, WordsBack
  <2>6. 3 + n = n + 3
    OBVIOUS
  <2> QED BY <1>2, <2>2, <2>3, <2>4, <2>5, <2>6
<1>6. \A i \in 1 .. r + 2 : f[i] = (IF i = 1 THEN 0 ELSE 3 + Least(8 * (i - 2), n))
  BY <1>3 DEF BlockCount
<1>7. Least(8 * r, n) = n
  <2>1. r = (n + 7) \div 8
    BY DEF RowsOf
  <2>2. n <= 8 * r
    BY <2>1
  <2> QED BY <2>2 DEF Least
<1>8. CountsTo(f, r + 1, n + 3)
  <2>1. f \in [1 .. r + 2 -> Nat]
    <3>1. \A i \in 1 .. r + 2 : (IF i = 1 THEN 0 ELSE 3 + Least(8 * (i - 2), n)) \in Nat
      BY DEF Least
    <3> QED BY <1>3, <3>1 DEF BlockCount
  <2>2. \A i \in 1 .. r + 2 : f[i] <= n + 3
    <3> TAKE i \in 1 .. r + 2
    <3>1. Least(8 * (i - 2), n) <= n
      BY DEF Least
    <3>2. Least(8 * (i - 2), n) \in Int
      BY DEF Least
    <3> QED BY <1>6, <3>1, <3>2
  <2>3. f[1] = 0
    BY <1>6
  <2>4. f[r + 2] = n + 3
    <3>1. r + 2 \in 1 .. r + 2 /\ r + 2 # 1 /\ r + 2 - 2 = r
      OBVIOUS
    <3>2. f[r + 2] = 3 + Least(8 * r, n)
      BY <1>6, <3>1
    <3> QED BY <1>7, <3>2
  <2>5. r + 1 + 1 = r + 2
    OBVIOUS
  <2> QED BY <2>1, <2>2, <2>3, <2>4, <2>5 DEF CountsTo
<1>0. RowsOf(w, n, r)
  BY <1>1
<1>9. \A i \in 1 .. r : L[i + 1].kind = "words"
  <2>1. \A i \in 1 .. r : Rows(w)[i].kind = "words"
    BY <1>0, RowsParts DEF RowIs
  <2> QED BY <1>4, <2>1
<1>10. LineCounts(L, X, f, 1)
  <2>1. f[1] = 0 /\ f[2] = 3
    <3>1. Least(8 * 0, n) = 0
      BY DEF Least
    <3>2. 2 \in 1 .. r + 2 /\ 2 - 2 = 0 /\ 1 \in 1 .. r + 2
      OBVIOUS
    <3> QED BY <1>6, <3>1, <3>2
  <2>2. L[1].kind = "_DATA" /\ L[1].mem = b.mem /\ L[1].pc = b.pc
    BY <1>4 DEF HeaderOf
  <2>3. make_int(b.pc) = b.pc
    BY <1>2, FewDigits
  <2>4. ASSUME NEW j \in 2 .. r + 2, RowsBetween(L, 1, j)
        PROVE  f[j] = 3 + n
    <3>1. j = r + 2
      <4> SUFFICES ASSUME j # r + 2 PROVE FALSE
        OBVIOUS
      <4>1. PICK k \in 1 .. r : j = k + 1
        <5>1. j - 1 \in 1 .. r /\ j = j - 1 + 1
          OBVIOUS
        <5> QED BY <5>1
      <4>2. j # Len(L) + 1
        BY <1>4
      <4> QED BY <1>9, <2>4, <4>1, <4>2 DEF RowsBetween
    <3>2. f[r + 1 + 1] = n + 3 /\ r + 1 + 1 = r + 2 /\ n + 3 = 3 + n
      BY <1>8 DEF CountsTo
    <3> QED BY <3>1, <3>2
  <2>5. HeaderCounts(L, X, f, 1)
    <3>1. 1 + 1 = 2 /\ 0 + 3 = 3 /\ 0 + 1 = 1 /\ 0 + 2 = 2 /\ Len(L) + 1 = r + 2 /\ 0 + 3 + n = 3 + n
      BY <1>4
    <3>2. f[1 + 1] = f[1] + 3
      BY <2>1
    <3>3. X[f[1] + 1] = L[1].mem /\ X[f[1] + 2] = make_int(L[1].pc) /\ X[f[1] + 3] = n
      BY <1>5, <2>1, <2>2, <2>3, <3>1
    <3>4. \A j \in 1 + 1 .. Len(L) + 1 : RowsBetween(L, 1, j) => f[j] = f[1] + 3 + X[f[1] + 3]
      BY <2>1, <2>4, <3>1, <3>3
    <3> QED BY <1>2, <3>2, <3>3, <3>4 DEF HeaderCounts
  <2> QED BY <2>2, <2>5 DEF LineCounts
<1>11. \A i \in 1 .. r : LineCounts(L, X, f, i + 1)
  <2> TAKE i \in 1 .. r
  <2>1. PICK d \in Nat, e \in Nat, u \in Seq(Nat) :
           /\ d = 8 * (i - 1) /\ e = Least(8 * i, n) /\ u = Rows(w)[i].words
           /\ Least(8 * (i - 1), n) = d /\ d + Len(u) = e /\ e <= n
           /\ \A m \in 1 .. Len(u) : u[m] = w[d + m]
    <3>1. Least(8 * i, n) \in Nat /\ Least(8 * i, n) <= n
      BY DEF Least
    <3>2. /\ Rows(w)[i].words \in Seq(Nat)
          /\ 8 * (i - 1) \in Nat /\ Least(8 * (i - 1), n) = 8 * (i - 1)
          /\ 8 * (i - 1) + Len(Rows(w)[i].words) = Least(8 * i, n)
          /\ \A m \in 1 .. Len(Rows(w)[i].words) : Rows(w)[i].words[m] = w[8 * (i - 1) + m]
      <4>1. RowIs(w, n, i)
        BY <1>0, RowsParts
      <4> QED BY <4>1 DEF RowIs
    <3> QED BY <3>1, <3>2
  <2>2. f[i + 1] = 3 + d /\ f[i + 1 + 1] = 3 + e
    <3>1. i + 1 \in 1 .. r + 2 /\ i + 1 # 1 /\ i + 1 - 2 = i - 1 /\ i + 1 + 1 \in 1 .. r + 2 /\ i + 1 + 1 # 1 /\ i + 1 + 1 - 2 = i
      OBVIOUS
    <3> QED BY <1>6, <2>1, <3>1
  <2>3. L[i + 1].words = u /\ L[i + 1].kind = "words"
    BY <1>4, <1>9, <2>1
  <2>4. L[i + 1 - 1].kind \in {"_DATA", "words"}
    <3>1. CASE i = 1
      BY <1>4, <3>1 DEF HeaderOf
    <3>2. CASE i # 1
      <4>1. PICK k \in 1 .. r : k + 1 = i
        <5>1. i - 1 \in 1 .. r /\ i - 1 + 1 = i
          BY <3>2
        <5> QED BY <5>1
      <4>2. i + 1 - 1 = k + 1
        BY <4>1
      <4> QED BY <1>9, <4>2
    <3> QED BY <3>1, <3>2
  <2>5. PICK l \in Nat : l = Len(u) /\ d + l = e
    <3>1. Len(u) \in Nat
      BY LenNat
    <3>2. d + Len(u) = e
      BY <2>1
    <3> QED BY <3>1, <3>2
  <2>6. \A m \in 1 .. l : X[f[i + 1] + m] = u[m]
    <3> TAKE m \in 1 .. l
    <3>1. d + m \in 1 .. n /\ 3 + d + m = 3 + (d + m)
      <4>1. e <= n
        BY <2>1
      <4> QED BY <2>5, <4>1
    <3>2. X[3 + (d + m)] = w[d + m]
      BY <1>5, <3>1
    <3>3. u[m] = w[d + m]
      BY <2>1, <2>5
    <3> QED BY <2>2, <3>1, <3>2, <3>3
  <2>7. i + 1 > 1 /\ 3 + e = 3 + d + l
    <3>1. d + l = e
      BY <2>5
    <3> QED BY <3>1
  <2>8. RowCounts(L, X, f, i + 1)
    BY <2>2, <2>3, <2>4, <2>5, <2>6, <2>7 DEF RowCounts
  <2> QED BY <2>3, <2>8 DEF LineCounts
<1>12. \A i \in 1 .. Len(L) : LineCounts(L, X, f, i)
  <2> TAKE i \in 1 .. Len(L)
  <2>1. CASE i = 1
    BY <1>10, <2>1
  <2>2. CASE i # 1
    <3>1. PICK k \in 1 .. r : i = k + 1
      <4>1. i - 1 \in 1 .. r /\ i = i - 1 + 1
        BY <1>4, <2>2
      <4> QED BY <4>1
    <3> QED BY <1>11, <3>1
  <2> QED BY <2>1, <2>2
<1>13. CountsTo(f, Len(L), Len(X))
  BY <1>4, <1>5, <1>8
<1> QED BY <1>3, <1>12, <1>13 DEF Counting

\* A part of the file: rows of words stand behind their block's header, symbols behind
\* the header of their list.
Orderly(L) ==
    \A i \in 1 .. Len(L) :
        /\ L[i].kind = "words" => (i > 1 /\ L[i - 1].kind \in {"_DATA", "words"})
        /\ L[i].kind = "symbol" => (i > 1 /\ L[i - 1].kind \in {"_SYMBOL", "symbol"})
OfKinds(L, K) == \A i \in 1 .. Len(L) : L[i].kind \in K
Portion(L, K) == L \in Seq(LineOf(symbols)) /\ Orderly(L) /\ OfKinds(L, K)
BodyKinds == {"_START", "_DATA", "words"}
TailKinds == {"_SYMBOL", "symbol", "_END"}
Counted(L, W) == \E f : Counting(L, W, f)

LEMMA PartNothing ==
  ASSUME NEW K
  PROVE  Portion(<<>>, K)
<1>1. <<>> \in Seq(LineOf(symbols)) /\ Len(<<>>) = 0 /\ 1 .. 0 = {}
  OBVIOUS
<1> QED BY <1>1 DEF Portion, Orderly, OfKinds

LEMMA PartOne ==
  ASSUME NEW K, NEW x \in LineOf(symbols), x.kind \in K, x.kind \notin {"words", "symbol"}
  PROVE  Portion(<<x>>, K)
<1>1. <<x>> \in Seq(LineOf(symbols)) /\ Len(<<x>>) = 1 /\ 1 .. 1 = {1} /\ <<x>>[1] = x
  OBVIOUS
<1> QED BY <1>1 DEF Portion, Orderly, OfKinds

LEMMA PartJoined ==
  ASSUME NEW K, NEW L, NEW T, Portion(L, K), Portion(T, K)
  PROVE  Portion(L \o T, K)
<1> DEFINE S == LineOf(symbols)
<1>1. L \in Seq(S) /\ T \in Seq(S) /\ Orderly(L) /\ Orderly(T) /\ OfKinds(L, K) /\ OfKinds(T, K)
  BY DEF Portion
<1> HIDE DEF S
<1>2. PICK p \in Nat, t \in Nat, M \in Seq(S) : p = Len(L) /\ t = Len(T) /\ M = L \o T
  <2>1. Len(L) \in Nat /\ Len(T) \in Nat /\ L \o T \in Seq(S)
    BY <1>1, LenNat, JoinedType
  <2> QED BY <2>1
<1>3. Len(M) = p + t
  BY <1>1, <1>2, JoinedLen
<1>4. \A i \in 1 .. p : M[i] = L[i]
  BY <1>1, <1>2, JoinedFront
<1>5. \A i \in 1 .. t : M[p + i] = T[i]
  BY <1>1, <1>2, JoinedBack
<1>6. ASSUME NEW i \in 1 .. p + t
      PROVE  /\ M[i].kind \in K
             /\ M[i].kind = "words" => (i > 1 /\ M[i - 1].kind \in {"_DATA", "words"})
             /\ M[i].kind = "symbol" => (i > 1 /\ M[i - 1].kind \in {"_SYMBOL", "symbol"})
  <2>1. CASE i <= p
    <3>1. i \in 1 .. p /\ (i > 1 => i - 1 \in 1 .. p)
      BY <2>1
    <3>2. M[i] = L[i] /\ (i > 1 => M[i - 1] = L[i - 1])
      BY <1>4, <3>1
    <3> QED BY <1>1, <1>2, <3>1, <3>2 DEF Orderly, OfKinds
  <2>2. CASE ~(i <= p)
    <3>1. PICK k \in 1 .. t : i = p + k
      <4>1. i - p \in 1 .. t /\ i = p + (i - p)
        BY <2>2
      <4> QED BY <4>1
    <3>2. M[i] = T[k]
      BY <1>5, <3>1
    <3>3. k > 1 => (i > 1 /\ M[i - 1] = T[k - 1])
      <4> SUFFICES ASSUME k > 1 PROVE i > 1 /\ M[i - 1] = T[k - 1]
        OBVIOUS
      <4>1. k - 1 \in 1 .. t /\ p + (k - 1) = i - 1 /\ i > 1
        BY <3>1
      <4>2. M[p + (k - 1)] = T[k - 1]
        BY <1>5, <4>1
      <4> QED BY <4>1, <4>2
    <3>4. T[k].kind \in K
      BY <1>1, <1>2 DEF OfKinds
    <3>5. /\ T[k].kind = "words" => (k > 1 /\ T[k - 1].kind \in {"_DATA", "words"})
          /\ T[k].kind = "symbol" => (k > 1 /\ T[k - 1].kind \in {"_SYMBOL", "symbol"})
      BY <1>1, <1>2 DEF Orderly
    <3> QED BY <3>2, <3>3, <3>4, <3>5
  <2> QED BY <2>1, <2>2
<1>7. Orderly(M) /\ OfKinds(M, K)
  BY <1>3, <1>6 DEF Orderly, OfKinds
<1> QED BY <1>2, <1>7 DEF Portion, S

LEMMA PartWider ==
  ASSUME NEW K, NEW J, K \subseteq J, NEW L, Portion(L, K)
  PROVE  Portion(L, J)
BY DEF Portion, OfKinds

LEMMA CountedNothing == Counted(<<>>, <<>>)
<1> DEFINE f == [i \in 1 .. 1 |-> 0]
<1>1. CountsTo(f, 0, 0)
  BY DEF CountsTo
<1>2. Len(<<>>) = 0 /\ 1 .. 0 = {}
  OBVIOUS
<1> HIDE DEF f
<1> QED BY <1>1, <1>2 DEF Counting, Counted

LEMMA CountedJoined ==
  ASSUME NEW K, NEW L, NEW T, Portion(L, K), Portion(T, K), NEW W \in Seq(Nat), NEW V \in Seq(Nat),
         Counted(L, W), Counted(T, V)
  PROVE  Counted(L \o T, W \o V)
<1>1. L \in Seq(LineOf(symbols)) /\ T \in Seq(LineOf(symbols))
  BY DEF Portion
<1>2. PICK f : Counting(L, W, f)
  BY DEF Counted
<1>3. PICK g : Counting(T, V, g)
  BY DEF Counted
<1> QED BY <1>1, <1>2, <1>3, CountingJoined DEF Counted

LEMMA BlockPart ==
  ASSUME NEW b \in BlockOf
  PROVE  Portion(LOD_SaveData(b), BodyKinds)
<1>1. PICK w \in Seq(Nat), n \in Nat, r \in Nat : w = b.words /\ n = Len(w) /\ r = (n + 7) \div 8
  <2>1. PICK w \in Seq(Nat) : w = b.words
    BY BlockParts
  <2>2. PICK n \in Nat : n = Len(w)
    BY LenNat
  <2>3. (n + 7) \div 8 \in Nat
    OBVIOUS
  <2> QED BY <2>1, <2>2, <2>3
<1>2. RowsOf(w, n, r) /\ RowsOf(b.words, n, r)
  BY <1>1 DEF RowsOf
<1>3. PICK L : L = LOD_SaveData(b)
  OBVIOUS
<1>4. /\ L \in Seq(LineOf(symbols)) /\ Len(L) = r + 1 /\ L[1] = HeaderOf(b)
      /\ \A i \in 1 .. r : L[i + 1] = Rows(w)[i]
  BY <1>1, <1>2, <1>3, SaveDataParts
<1>5. \A i \in 1 .. r : L[i + 1].kind = "words"
  <2>1. \A i \in 1 .. r : Rows(w)[i].kind = "words"
    BY <1>2, RowsParts DEF RowIs
  <2> QED BY <1>4, <2>1
<1>6. L[1].kind = "_DATA"
  BY <1>4 DEF HeaderOf
<1>7. \A i \in 1 .. r + 1 : L[i].kind = (IF i = 1 THEN "_DATA" ELSE "words")
  <2> TAKE i \in 1 .. r + 1
  <2>1. CASE i # 1
    <3>1. PICK k \in 1 .. r : i = k + 1
      <4>1. i - 1 \in 1 .. r /\ i = i - 1 + 1
        BY <2>1
      <4> QED BY <4>1
    <3> QED BY <1>5, <2>1, <3>1
  <2> QED BY <1>6, <2>1
<1>8. \A i \in 1 .. r + 1 : i # 1 => (i > 1 /\ i - 1 \in 1 .. r + 1)
  OBVIOUS
<1>9. Orderly(L)
  BY <1>4, <1>7, <1>8 DEF Orderly
<1>10. OfKinds(L, BodyKinds)
  BY <1>4, <1>7 DEF OfKinds, BodyKinds
<1> QED BY <1>3, <1>4, <1>9, <1>10 DEF Portion

LEMMA BlockCounted ==
  ASSUME NEW b \in BlockOf, Told(b) \in BlockOf, Small(b)
  PROVE  Counted(LOD_SaveData(b), Coded(Told(b)))
<1>1. PICK n \in Nat, r \in Nat : n = Len(b.words) /\ r = (n + 7) \div 8
  <2>1. PICK n \in Nat : n = Len(b.words)
    BY BlockParts
  <2>2. (n + 7) \div 8 \in Nat
    OBVIOUS
  <2> QED BY <2>1, <2>2
<1>2. RowsOf(b.words, n, r)
  BY <1>1 DEF RowsOf
<1> QED BY <1>2, BlockCounts DEF Counted

\* A section stands for its words (OutputLod.c, SaveFileLod).
LodOf(c) == IF Kept(c) THEN FlattenSeq([i \in DOMAIN BlocksOf(c) |-> LOD_SaveData(BlocksOf(c)[i])]) ELSE <<>>
FewWords(c) == c.pc < 16 ^ 4 /\ Len(c.words) < Sizes

LEMMA LodOfPlain ==
  ASSUME NEW c \in Chunks, c.mem_type # L_MEM, Kept(c)
  PROVE  Portion(LodOf(c), BodyKinds) /\ (FewWords(c) => Counted(LodOf(c), Embedded(c)))
<1>1. PICK b \in BlockOf : BlocksOf(c) = <<b>> /\ Told(b) \in BlockOf /\ b.words = c.words
  BY PlainBlock
<1>2. Portion(LOD_SaveData(b), BodyKinds)
  BY BlockPart
<1>3. LodOf(c) = LOD_SaveData(b)
  <2>1. LodOf(c) = FlattenSeq([i \in DOMAIN <<b>> |-> LOD_SaveData(<<b>>[i])])
    BY <1>1 DEF LodOf
  <2>2. [i \in DOMAIN <<b>> |-> LOD_SaveData(<<b>>[i])] = <<LOD_SaveData(b)>>
    OBVIOUS
  <2>3. LOD_SaveData(b) \in Seq(LineOf(symbols))
    BY <1>2 DEF Portion
  <2>4. FlattenSeq(<<LOD_SaveData(b)>>) = LOD_SaveData(b)
    BY <2>3, FlattenOne
  <2> QED BY <2>1, <2>2, <2>4
<1>4. Embedded(c) = Coded(Told(b))
  <2>1. Embedded(c) = FlattenSeq([i \in DOMAIN <<b>> |-> SaveDataEmbeded(<<b>>[i])])
    BY <1>1 DEF Embedded
  <2>2. [i \in DOMAIN <<b>> |-> SaveDataEmbeded(<<b>>[i])] = <<Coded(Told(b))>>
    <3>1. SaveDataEmbeded(b) = Coded(Told(b))
      BY EmbededCodes
    <3> QED BY <3>1
  <2>3. FlattenSeq(<<Coded(Told(b))>>) = Coded(Told(b))
    BY <1>1, CodedType, FlattenOne
  <2> QED BY <2>1, <2>2, <2>3
<1>5. FewWords(c) => Small(b)
  <2>1. b = Block(c, c.mem_type, 0, 0)
    <3>1. BlocksOf(c) = <<Block(c, c.mem_type, 0, 0)>>
      BY DEF BlocksOf
    <3>2. <<b>>[1] = b /\ <<Block(c, c.mem_type, 0, 0)>>[1] = Block(c, c.mem_type, 0, 0)
      OBVIOUS
    <3> QED BY <1>1, <3>1, <3>2
  <2>2. b.pc = c.pc
    BY <2>1 DEF Block
  <2> QED BY <1>1, <2>2 DEF FewWords, Small
<1>6. FewWords(c) => Counted(LodOf(c), Embedded(c))
  <2> SUFFICES ASSUME FewWords(c) PROVE Counted(LodOf(c), Embedded(c))
    OBVIOUS
  <2>1. Counted(LOD_SaveData(b), Coded(Told(b)))
    BY <1>1, <1>5, BlockCounted
  <2> QED BY <1>3, <1>4, <2>1
<1> QED BY <1>2, <1>3, <1>6

LEMMA LodOfL ==
  ASSUME NEW c \in Chunks, c.mem_type = L_MEM, Kept(c)
  PROVE  Portion(LodOf(c), BodyKinds) /\ (FewWords(c) => Counted(LodOf(c), Embedded(c)))
<1>1. PICK x \in BlockOf, y \in BlockOf : /\ BlocksOf(c) = <<x, y>> /\ Told(x) \in BlockOf /\ Told(y) \in BlockOf
                                          /\ Len(x.words) <= Len(c.words) /\ Len(y.words) <= Len(c.words)
  BY LBlocks
<1>2. Portion(LOD_SaveData(x), BodyKinds) /\ Portion(LOD_SaveData(y), BodyKinds)
  BY BlockPart
<1>3. LodOf(c) = LOD_SaveData(x) \o LOD_SaveData(y)
  <2>1. LodOf(c) = FlattenSeq([i \in DOMAIN <<x, y>> |-> LOD_SaveData(<<x, y>>[i])])
    BY <1>1 DEF LodOf
  <2>2. [i \in DOMAIN <<x, y>> |-> LOD_SaveData(<<x, y>>[i])] = <<LOD_SaveData(x), LOD_SaveData(y)>>
    OBVIOUS
  <2>3. LOD_SaveData(x) \in Seq(LineOf(symbols)) /\ LOD_SaveData(y) \in Seq(LineOf(symbols))
    BY <1>2 DEF Portion
  <2>4. FlattenSeq(<<LOD_SaveData(x), LOD_SaveData(y)>>) = LOD_SaveData(x) \o LOD_SaveData(y)
    BY <2>3, FlattenTwo
  <2> QED BY <2>1, <2>2, <2>4
<1>4. Coded(Told(x)) \in Seq(Nat) /\ Coded(Told(y)) \in Seq(Nat)
  BY <1>1, CodedType
<1>5. Embedded(c) = Coded(Told(x)) \o Coded(Told(y))
  <2>1. Embedded(c) = FlattenSeq([i \in DOMAIN <<x, y>> |-> SaveDataEmbeded(<<x, y>>[i])])
    BY <1>1 DEF Embedded
  <2>2. [i \in DOMAIN <<x, y>> |-> SaveDataEmbeded(<<x, y>>[i])] = <<Coded(Told(x)), Coded(Told(y))>>
    <3>1. SaveDataEmbeded(x) = Coded(Told(x)) /\ SaveDataEmbeded(y) = Coded(Told(y))
      BY EmbededCodes
    <3> QED BY <3>1
  <2>3. FlattenSeq(<<Coded(Told(x)), Coded(Told(y))>>) = Coded(Told(x)) \o Coded(Told(y))
    BY <1>4, FlattenTwo
  <2> QED BY <2>1, <2>2, <2>3
<1>6. FewWords(c) => Small(x) /\ Small(y)
  <2> SUFFICES ASSUME FewWords(c) PROVE Small(x) /\ Small(y)
    OBVIOUS
  <2>1. x = Block(c, X_MEM, 1, 1) /\ y = Block(c, Y_MEM, 0, 1)
    <3>1. BlocksOf(c) = <<Block(c, X_MEM, 1, 1), Block(c, Y_MEM, 0, 1)>>
      BY DEF BlocksOf
    <3> QED BY <1>1, <3>1
  <2>2. x.pc = c.pc /\ y.pc = c.pc
    BY <2>1 DEF Block
  <2>3. \A k, l, m \in Nat : k <= l /\ l < m => k < m
    OBVIOUS
  <2>4. Len(x.words) \in Nat /\ Len(y.words) \in Nat /\ Len(c.words) \in Nat /\ Sizes \in Nat
    BY BlockParts, ChunkParts, ConverterAssumption
  <2>5. Len(x.words) < Sizes /\ Len(y.words) < Sizes
    BY <1>1, <2>3, <2>4 DEF FewWords
  <2> QED BY <2>2, <2>5 DEF FewWords, Small
<1>7. FewWords(c) => Counted(LodOf(c), Embedded(c))
  <2> SUFFICES ASSUME FewWords(c) PROVE Counted(LodOf(c), Embedded(c))
    OBVIOUS
  <2>1. Counted(LOD_SaveData(x), Coded(Told(x))) /\ Counted(LOD_SaveData(y), Coded(Told(y)))
    BY <1>1, <1>6, BlockCounted
  <2>2. Counted(LOD_SaveData(x) \o LOD_SaveData(y), Coded(Told(x)) \o Coded(Told(y)))
    BY <1>2, <1>4, <2>1, CountedJoined
  <2> QED BY <1>3, <1>5, <2>2
<1> QED BY <1>2, <1>3, <1>7, PartJoined

LEMMA LodOfAny ==
  ASSUME NEW c \in Chunks
  PROVE  Portion(LodOf(c), BodyKinds) /\ (FewWords(c) => Counted(LodOf(c), Embedded(c)))
<1>1. CASE ~Kept(c)
  <2>1. LodOf(c) = <<>> /\ Embedded(c) = <<>>
    BY <1>1 DEF LodOf, Embedded
  <2> QED BY <2>1, PartNothing, CountedNothing
<1>2. CASE Kept(c)
  BY <1>2, LodOfPlain, LodOfL
<1> QED BY <1>1, <1>2

\* The lists of symbols, and the end of the file (OutputLod.c, OutputSymbols).
LEMMA OrdersAre ==
  ASSUME NEW syms, IsFiniteSet(syms), NEW q \in Orders(syms)
  PROVE  \E k \in Nat : q \in [1 .. k -> syms]
<1>1. Cardinality(syms) \in Nat
  BY FS_CardinalityType
<1>2. q \in SetToSeqs(syms)
  BY DEF Orders
<1>3. q \in [1 .. Cardinality(syms) -> syms]
  BY <1>2 DEF SetToSeqs
<1> QED BY <1>1, <1>3

ListHeader(memspace) == [kind |-> "_SYMBOL", space |-> memspace]
SymbolLines(q) == [i \in DOMAIN q |-> SymbolLine(q[i])]

LEMMA ListPart ==
  ASSUME IsFiniteSet(symbols), NEW memspace \in Int, NEW T \in OutputSymbols(memspace)
  PROVE  Portion(T, TailKinds)
<1> DEFINE syms == {sym \in symbols : Listed(sym, memspace)}
           S == LineOf(symbols)
<1>1. CASE syms = {}
  <2>1. T = <<>>
    BY <1>1 DEF OutputSymbols
  <2> QED BY <2>1, PartNothing
<1>2. CASE syms # {}
  <2>1. PICK q \in Orders(syms) : T = <<ListHeader(memspace)>> \o SymbolLines(q)
    BY <1>2 DEF OutputSymbols, ListHeader, SymbolLines
  <2>2. IsFiniteSet(syms)
    BY FS_Subset
  <2>3. PICK k \in Nat : q \in [1 .. k -> syms]
    <3> HIDE DEF syms
    <3> QED BY <2>1, <2>2, OrdersAre
  <2>4. \A sym \in syms : SymbolLine(sym) \in S /\ SymbolLine(sym).kind = "symbol"
    BY DEF LineOf, SymbolLine
  <2>5. ListHeader(memspace) \in S /\ ListHeader(memspace).kind = "_SYMBOL"
    BY DEF LineOf, ListHeader
  <2> HIDE DEF S, syms
  <2>6. PICK t \in Seq(S) : t = SymbolLines(q) /\ Len(t) = k /\ \A i \in 1 .. k : t[i].kind = "symbol"
    <3>1. SymbolLines(q) \in [1 .. k -> S]
      BY <2>3, <2>4 DEF SymbolLines
    <3>2. \A i \in 1 .. k : SymbolLines(q)[i].kind = "symbol"
      BY <2>3, <2>4 DEF SymbolLines
    <3>3. PICK f \in [1 .. k -> S] : f = SymbolLines(q)
      BY <3>1
    <3>4. f \in Seq(S) /\ Len(f) = k
      OBVIOUS
    <3> QED BY <3>2, <3>3, <3>4
  <2>7. PICK h \in Seq(S) : h = <<ListHeader(memspace)>> /\ Len(h) = 1 /\ h[1] = ListHeader(memspace)
    <3>1. PICK x \in S : x = ListHeader(memspace)
      BY <2>5
    <3>2. <<x>> \in Seq(S) /\ Len(<<x>>) = 1 /\ <<x>>[1] = x
      OBVIOUS
    <3> QED BY <3>1, <3>2
  <2>8. T = h \o t /\ T \in Seq(S)
    BY <2>1, <2>6, <2>7, JoinedType
  <2>9. Len(T) = k + 1
    <3>1. Len(T) = Len(h) + Len(t)
      BY <2>6, <2>7, <2>8, JoinedLen
    <3>2. 1 + k = k + 1
      OBVIOUS
    <3> QED BY <2>6, <2>7, <3>1, <3>2
  <2>10. T[1].kind = "_SYMBOL"
    <3>1. 1 \in 1 .. Len(h)
      BY <2>7
    <3>2. T[1] = h[1]
      BY <2>6, <2>7, <2>8, <3>1, JoinedFront
    <3> QED BY <2>5, <2>7, <3>2
  <2>11. \A i \in 1 .. k : T[i + 1].kind = "symbol"
    <3> TAKE i \in 1 .. k
    <3>1. i \in 1 .. Len(t) /\ Len(h) + i = i + 1
      BY <2>6, <2>7
    <3>2. T[Len(h) + i] = t[i]
      BY <2>6, <2>7, <2>8, <3>1, JoinedBack
    <3> QED BY <2>6, <3>1, <3>2
  <2>12. \A i \in 1 .. k + 1 : T[i].kind = (IF i = 1 THEN "_SYMBOL" ELSE "symbol")
    <3> TAKE i \in 1 .. k + 1
    <3>1. CASE i # 1
      <4>1. PICK j \in 1 .. k : i = j + 1
        <5>1. i - 1 \in 1 .. k /\ i = i - 1 + 1
          BY <3>1
        <5> QED BY <5>1
      <4> QED BY <2>11, <3>1, <4>1
    <3> QED BY <2>10, <3>1
  <2>13. \A i \in 1 .. k + 1 : i # 1 => (i > 1 /\ i - 1 \in 1 .. k + 1)
    OBVIOUS
  <2>14. Orderly(T)
    BY <2>9, <2>12, <2>13 DEF Orderly
  <2>15. OfKinds(T, TailKinds)
    BY <2>9, <2>12 DEF OfKinds, TailKinds
  <2> QED BY <2>8, <2>14, <2>15 DEF Portion, S
<1> QED BY <1>1, <1>2

\* The tail stands for no words.
LEMMA TailCounted ==
  ASSUME NEW T, Portion(T, TailKinds)
  PROVE  Counted(T, <<>>)
<1>1. PICK t \in Nat : t = Len(T)
  BY LenNat DEF Portion
<1>2. PICK g : g = [i \in 1 .. t + 1 |-> 0]
  OBVIOUS
<1>3. CountsTo(g, t, 0)
  BY <1>2 DEF CountsTo
<1>4. \A i \in 1 .. t : LineCounts(T, <<>>, g, i)
  <2> TAKE i \in 1 .. t
  <2>1. T[i].kind \notin {"_DATA", "words"}
    BY <1>1 DEF Portion, OfKinds, TailKinds
  <2>2. i \in 1 .. t + 1 /\ i + 1 \in 1 .. t + 1
    OBVIOUS
  <2>3. g[i] = 0 /\ g[i + 1] = 0
    BY <1>2, <2>2
  <2> QED BY <2>1, <2>3 DEF LineCounts
<1>5. Len(<<>>) = 0
  OBVIOUS
<1> QED BY <1>1, <1>3, <1>4, <1>5 DEF Counting, Counted

\* The whole file: behind the sections all words are counted.
AllKinds == BodyKinds \cup TailKinds
Full(L, W, f) == Counting(L, W, f) /\ \A i \in 1 .. Len(L) : L[i].kind \in TailKinds => f[i] = Len(W)
Whole(L, W) == \E f : Full(L, W, f)

LEMMA BodyWhole ==
  ASSUME NEW L, NEW W, Portion(L, BodyKinds), Counted(L, W)
  PROVE  Whole(L, W)
<1>1. \A i \in 1 .. Len(L) : L[i].kind \notin TailKinds
  BY DEF Portion, OfKinds, BodyKinds, TailKinds
<1> QED BY <1>1 DEF Counted, Whole, Full

LEMMA TailJoined ==
  ASSUME NEW L, NEW T, NEW W \in Seq(Nat), Portion(L, AllKinds), Whole(L, W), Portion(T, TailKinds)
  PROVE  Whole(L \o T, W)
<1>1. PICK f : Counting(L, W, f) /\ \A i \in 1 .. Len(L) : L[i].kind \in TailKinds => f[i] = Len(W)
  BY DEF Whole, Full
<1>2. Counted(T, <<>>)
  BY TailCounted
<1>3. PICK g : Counting(T, <<>>, g)
  BY <1>2 DEF Counted
<1> DEFINE S == LineOf(symbols)
<1>4. L \in Seq(S) /\ T \in Seq(S)
  BY DEF Portion
<1> HIDE DEF S
<1>5. PICK h : h = Joint(f, g, Len(L), Len(T), Len(W))
  OBVIOUS
<1>6. W \o <<>> = W /\ <<>> \in Seq(Nat) /\ Len(<<>>) = 0
  OBVIOUS
<1>7. Counting(L \o T, W, h)
  <2>1. Counting(L \o T, W \o <<>>, h)
    BY <1>1, <1>3, <1>4, <1>5, <1>6, CountingJoined
  <2> QED BY <1>6, <2>1
<1>8. PICK p \in Nat, t \in Nat, q \in Nat : p = Len(L) /\ t = Len(T) /\ q = Len(W)
  BY <1>4, LenNat
<1>9. Joins(f, g, h, p, t, q, 0)
  <2>1. CountsTo(f, p, q) /\ CountsTo(g, t, 0)
    BY <1>1, <1>3, <1>6, <1>8 DEF Counting
  <2>2. h = Joint(f, g, p, t, q)
    BY <1>5, <1>8
  <2> QED BY <2>1, <2>2, JointParts
<1>10. \A i \in 1 .. t + 1 : g[i] = 0
  <2>1. /\ g \in [1 .. t + 1 -> Nat]
        /\ \A i \in 1 .. t + 1 : g[i] <= 0
    BY <1>3, <1>6, <1>8 DEF Counting, CountsTo
  <2> QED BY <2>1
<1>11. Len(L \o T) = p + t /\ \A i \in 1 .. p : (L \o T)[i] = L[i]
  BY <1>4, <1>8, JoinedLen, JoinedFront
<1>12. ASSUME NEW i \in 1 .. p + t, (L \o T)[i].kind \in TailKinds
       PROVE  h[i] = q
  <2>1. CASE i <= p
    <3>1. i \in 1 .. p /\ i \in 1 .. p + 1
      BY <2>1
    <3>2. L[i].kind \in TailKinds
      BY <1>11, <1>12, <3>1
    <3>3. f[i] = q
      BY <1>1, <1>8, <3>1, <3>2
    <3> QED BY <1>9, <3>1, <3>3 DEF Joins
  <2>2. CASE ~(i <= p)
    <3>1. PICK k \in 1 .. t + 1 : i = p + k
      <4>1. i - p \in 1 .. t + 1 /\ i = p + (i - p)
        BY <2>2
      <4> QED BY <4>1
    <3>2. h[i] = q + g[k]
      BY <1>9, <3>1 DEF Joins
    <3> QED BY <1>10, <3>2
  <2> QED BY <2>1, <2>2
<1>13. \A i \in 1 .. Len(L \o T) : (L \o T)[i].kind \in TailKinds => h[i] = Len(W)
  BY <1>8, <1>11, <1>12
<1> QED BY <1>7, <1>13 DEF Whole, Full

----------------------------------------------------------------------------
(* The LOD file as it is written.                                          *)

SmallSections == \A i \in DOMAIN chunks : FewWords(chunks[i])

LodBody(n) == Portion(lod, BodyKinds) /\ (SmallSections => Counted(lod, WordsUpTo(n)))
LodFile == Portion(lod, AllKinds) /\ (SmallSections => Whole(lod, WordsUpTo(Len(chunks))))
Listing ==
  /\ IsFiniteSet(symbols)
  /\ IF writer # "lod" THEN LodFile
     ELSE IF chunk = 0 THEN lod = <<>> ELSE LodBody(chunk - 1)

LEMMA ListingInit == SpecInit => Listing
BY SourcesAssumption DEF SpecInit, Init, Listing

\* What no step changes.
LEMMA SamePart ==
  ASSUME UNCHANGED Source
  PROVE  /\ \A L, K : Portion(L, K)' <=> Portion(L, K)
         /\ SmallSections' <=> SmallSections
         /\ \A c : LodOf(c)' = LodOf(c) /\ Embedded(c)' = Embedded(c)
<1>1. UNCHANGED <<symbols, chunks, g_write_zero_sections>>
  BY DEF Source
<1>2. \A L, K : Portion(L, K)' <=> Portion(L, K)
  BY <1>1 DEF Portion
<1>3. SmallSections' <=> SmallSections
  BY <1>1 DEF SmallSections
<1>4. \A c : LodOf(c)' = LodOf(c) /\ Embedded(c)' = Embedded(c)
  BY <1>1 DEF LodOf, Embedded, Kept
<1> QED BY <1>2, <1>3, <1>4

LEMMA StartCounted == Portion(<<[kind |-> "_START"]>>, BodyKinds) /\ Counted(<<[kind |-> "_START"]>>, <<>>)
<1>1. PICK x : x = [kind |-> "_START"]
  OBVIOUS
<1>2. x \in LineOf(symbols) /\ x.kind = "_START"
  BY <1>1 DEF LineOf
<1>3. Portion(<<x>>, BodyKinds)
  BY <1>2, PartOne DEF BodyKinds
<1>4. PICK f : f = [i \in 1 .. 2 |-> 0]
  OBVIOUS
<1>5. f[1] = 0 /\ f[2] = 0
  BY <1>4
<1>6. CountsTo(f, 1, 0)
  BY <1>4 DEF CountsTo
<1>7. Len(<<x>>) = 1 /\ <<x>>[1] = x /\ Len(<<>>) = 0
  OBVIOUS
<1>8. LineCounts(<<x>>, <<>>, f, 1)
  <2>1. f[1 + 1] = f[1]
    BY <1>5
  <2> QED BY <1>2, <1>7, <2>1 DEF LineCounts
<1>9. Counting(<<x>>, <<>>, f)
  <2>1. \A i \in 1 .. 1 : i = 1
    OBVIOUS
  <2> QED BY <1>6, <1>7, <1>8, <2>1 DEF Counting
<1> QED BY <1>1, <1>3, <1>9 DEF Counted

\* The sections of the program, in their order.
LEMMA BodyNext ==
  ASSUME chunks \in Seq(Chunks), NEW n \in Nat, n + 1 <= Len(chunks), LodBody(n)
  PROVE  /\ Portion(lod \o LodOf(chunks[n + 1]), BodyKinds)
         /\ SmallSections => Counted(lod \o LodOf(chunks[n + 1]), WordsUpTo(n + 1))
<1>1. PICK c \in Chunks : c = chunks[n + 1] /\ (SmallSections => FewWords(c))
  <2>1. n + 1 \in 1 .. Len(chunks)
    OBVIOUS
  <2>2. chunks[n + 1] \in Chunks /\ n + 1 \in DOMAIN chunks
    BY <2>1
  <2> QED BY <2>2 DEF SmallSections
<1>2. Portion(LodOf(c), BodyKinds) /\ (FewWords(c) => Counted(LodOf(c), Embedded(c)))
  BY LodOfAny
<1>3. Portion(lod \o LodOf(c), BodyKinds)
  BY <1>2, PartJoined DEF LodBody
<1>4. SmallSections => Counted(lod \o LodOf(c), WordsUpTo(n) \o Embedded(c))
  <2> SUFFICES ASSUME SmallSections PROVE Counted(lod \o LodOf(c), WordsUpTo(n) \o Embedded(c))
    OBVIOUS
  <2>1. WordsUpTo(n) \in Seq(Nat) /\ Embedded(c) \in Seq(Nat)
    BY UpToTypes, SectionTypes
  <2>2. Portion(lod, BodyKinds) /\ Counted(lod, WordsUpTo(n)) /\ Counted(LodOf(c), Embedded(c))
    BY <1>1, <1>2 DEF LodBody
  <2> QED BY <1>2, <2>1, <2>2, CountedJoined
<1> QED BY <1>1, <1>3, <1>4, UpToNext

\* And behind them the symbols.
LEMMA FileNext ==
  ASSUME NEW L, NEW T, NEW W \in Seq(Nat), Portion(L, AllKinds), Portion(T, TailKinds)
  PROVE  Portion(L \o T, AllKinds) /\ (Whole(L, W) => Whole(L \o T, W))
<1>1. Portion(T, AllKinds)
  BY PartWider DEF AllKinds
<1> QED BY <1>1, PartJoined, TailJoined

Goes(L, W) == Portion(L, AllKinds) /\ (SmallSections => Whole(L, W))

LEMMA GoesOn ==
  ASSUME NEW L, NEW T, NEW W \in Seq(Nat), Goes(L, W), Portion(T, TailKinds)
  PROVE  Goes(L \o T, W)
BY FileNext DEF Goes

LEMMA EndsFile ==
  ASSUME chunks \in Seq(Chunks), LodBody(Len(chunks)), IsFiniteSet(symbols), LodEnd
  PROVE  \E L : lod' = L /\ Goes(L, WordsUpTo(Len(chunks)))
<1>1. PICK W \in Seq(Nat) : W = WordsUpTo(Len(chunks))
  <2>1. Len(chunks) \in 0 .. Len(chunks)
    OBVIOUS
  <2> QED BY <2>1, UpToTypes
<1>2. Goes(lod, W)
  <2>1. Portion(lod, AllKinds)
    BY PartWider DEF LodBody, AllKinds
  <2>2. SmallSections => Whole(lod, W)
    BY <1>1, BodyWhole DEF LodBody
  <2> QED BY <2>1, <2>2 DEF Goes
<1>3. PICK e : e = <<[kind |-> "_END"]>> /\ Portion(e, TailKinds)
  <2>1. PICK x : x = [kind |-> "_END"]
    OBVIOUS
  <2>2. x \in LineOf(symbols) /\ x.kind = "_END"
    BY <2>1 DEF LineOf
  <2>3. Portion(<<x>>, TailKinds)
    BY <2>2, PartOne DEF TailKinds
  <2> QED BY <2>1, <2>3
<1>4. CASE g_output_symbols
  <2>1. PICK p \in OutputSymbols(P_MEM), x \in OutputSymbols(X_MEM), y \in OutputSymbols(Y_MEM),
             l \in OutputSymbols(L_MEM), n \in OutputSymbols(L_EQU) :
                lod' = lod \o p \o x \o y \o l \o n \o e
    BY <1>3, <1>4 DEF LodEnd
  <2>2. P_MEM \in Int /\ X_MEM \in Int /\ Y_MEM \in Int /\ L_MEM \in Int /\ L_EQU \in Int
    BY DEF P_MEM, X_MEM, Y_MEM, L_MEM, L_EQU
  <2>3. Portion(p, TailKinds) /\ Portion(x, TailKinds) /\ Portion(y, TailKinds) /\ Portion(l, TailKinds) /\ Portion(n, TailKinds)
    BY <2>1, <2>2, ListPart
  <2>4. Goes(lod \o p \o x, W)
    BY <1>2, <2>3, GoesOn
  <2>5. Goes(lod \o p \o x \o y \o l, W)
    BY <2>3, <2>4, GoesOn
  <2>6. Goes(lod \o p \o x \o y \o l \o n \o e, W)
    BY <1>3, <2>3, <2>5, GoesOn
  <2> QED BY <1>1, <2>1, <2>6
<1>5. CASE ~g_output_symbols
  <2>1. lod' = lod \o e
    BY <1>3, <1>5 DEF LodEnd
  <2> QED BY <1>1, <1>2, <1>3, <2>1, GoesOn
<1> QED BY <1>4, <1>5

LEMMA ListingNext ==
  ASSUME Files, Listing, [Next]_vars
  PROVE  Listing'
<1>1. chunks \in Seq(Chunks) /\ Len(chunks) \in Nat /\ At
  BY DEF Files, At
<1>2. CASE SaveFileLod
  <2>1. UNCHANGED Source /\ UNCHANGED <<chunks, symbols>> /\ lod' = <<[kind |-> "_START"]>>
    BY <1>2 DEF SaveFileLod, Source
  <2>2. PICK L : L = <<[kind |-> "_START"]>> /\ Portion(L, BodyKinds) /\ Counted(L, <<>>)
    BY StartCounted
  <2>3. WordsUpTo(0)' = <<>>
    BY <2>1, SameSections, UpToZero
  <2>4. CASE chunks = <<>>
    <3>1. writer' = "p56" /\ Len(chunks) = 0
      BY <1>2, <2>4 DEF SaveFileLod, Go
    <3>2. Portion(L, AllKinds) /\ Whole(L, <<>>)
      BY <2>2, BodyWhole, PartWider DEF AllKinds
    <3>3. Portion(L, AllKinds)'
      BY <2>1, <3>2, SamePart
    <3>4. WordsUpTo(Len(chunks))' = <<>>
      BY <2>1, <2>3, <3>1
    <3>5. LodFile'
      BY <2>1, <2>2, <3>2, <3>3, <3>4 DEF LodFile
    <3> QED BY <2>1, <3>1, <3>5 DEF Listing
  <2>5. CASE chunks # <<>>
    <3>1. writer' = "lod" /\ chunk' = 1
      BY <1>2, <2>5 DEF SaveFileLod
    <3>2. Portion(L, BodyKinds)'
      BY <2>1, <2>2, SamePart
    <3>3. LodBody(0)'
      BY <2>1, <2>2, <2>3, <3>2 DEF LodBody
    <3>4. LodBody(chunk - 1)'
      <4>1. (chunk - 1)' = 0
        BY <3>1
      <4> QED BY <3>3, <4>1 DEF LodBody
    <3> QED BY <2>1, <3>1, <3>4 DEF Listing
  <2> QED BY <2>4, <2>5
<1>3. CASE LodChunk
  <2>1. PICK n \in Nat : chunk = n + 1 /\ n = chunk - 1 /\ n + 1 <= Len(chunks)
    <3>1. chunk \in 1 .. Len(chunks)
      BY <1>3 DEF LodChunk, AtChunk
    <3> QED BY <1>1, <3>1
  <2>2. UNCHANGED Source /\ UNCHANGED <<chunks, symbols>> /\ writer' = "lod" /\ chunk' = n + 2 /\ writer = "lod"
    BY <1>3, <2>1 DEF LodChunk, AtChunk, Source
  <2>3. LodBody(n)
    BY <2>1, <2>2 DEF Listing
  <2>4. PICK L : /\ L = lod \o LodOf(chunks[n + 1]) /\ Portion(L, BodyKinds)
                 /\ SmallSections => Counted(L, WordsUpTo(n + 1))
    BY <1>1, <2>1, <2>3, BodyNext
  <2>5. lod' = L
    BY <1>3, <2>1, <2>4 DEF LodChunk, LodOf
  <2>6. Portion(L, BodyKinds)' /\ (SmallSections => Counted(L, WordsUpTo(n + 1)))'
    <3>1. WordsUpTo(n + 1)' = WordsUpTo(n + 1)
      BY <2>2, SameSections
    <3> QED BY <2>2, <2>4, <3>1, SamePart
  <2>7. LodBody(n + 1)'
    BY <2>5, <2>6 DEF LodBody
  <2>8. (chunk - 1)' = n + 1
    BY <2>2
  <2>9. LodBody(chunk - 1)'
    BY <2>7, <2>8 DEF LodBody
  <2> QED BY <2>2, <2>9 DEF Listing
<1>4. CASE LodEnd
  <2>1. UNCHANGED Source /\ UNCHANGED <<chunks, symbols>> /\ writer' = "p56" /\ writer = "lod" /\ chunk = Len(chunks) + 1
    BY <1>4 DEF LodEnd, AtEnd, Go, Source
  <2>2. chunk - 1 = Len(chunks) /\ chunk # 0
    BY <1>1, <2>1
  <2>3. LodBody(Len(chunks))
    BY <2>1, <2>2 DEF Listing
  <2>4. PICK L : lod' = L /\ Goes(L, WordsUpTo(Len(chunks)))
    BY <1>1, <1>4, <2>3, EndsFile DEF Listing
  <2>5. WordsUpTo(Len(chunks))' = WordsUpTo(Len(chunks))
    BY <2>1, SameSections
  <2>6. LodFile'
    <3>1. Portion(L, AllKinds)' /\ (SmallSections' => Whole(L, WordsUpTo(Len(chunks))))
      BY <2>1, <2>4, SamePart DEF Goes
    <3> QED BY <2>4, <2>5, <3>1 DEF LodFile
  <2> QED BY <2>1, <2>6 DEF Listing
<1>5. ASSUME UNCHANGED <<Source, lod>>, \/ writer # "lod" /\ writer' # "lod"
                                        \/ UNCHANGED <<writer, chunk>>
      PROVE  Listing'
  <2>1. UNCHANGED Source /\ UNCHANGED <<chunks, symbols>> /\ lod' = lod
    BY <1>5 DEF Source
  <2>2. PICK L : L = lod /\ L = lod'
    BY <2>1
  <2>3. \A n : WordsUpTo(n)' = WordsUpTo(n)
    BY <2>1, SameSections
  <2>4. \A K : Portion(L, K)' <=> Portion(L, K)
    BY <2>1, SamePart
  <2>5. SmallSections' <=> SmallSections
    BY <2>1, SamePart
  <2>6. LodFile => LodFile'
    <3>1. WordsUpTo(Len(chunks))' = WordsUpTo(Len(chunks))
      BY <2>1, <2>3
    <3> QED BY <2>2, <2>4, <2>5, <3>1 DEF LodFile
  <2>7. \A n : LodBody(n) => LodBody(n)'
    BY <2>2, <2>3, <2>4, <2>5 DEF LodBody
  <2>8. CASE writer # "lod" /\ writer' # "lod"
    BY <2>1, <2>6, <2>8 DEF Listing
  <2>9. CASE UNCHANGED <<writer, chunk>>
    <3>1. LodBody(chunk - 1) => LodBody(chunk - 1)'
      <4>1. PICK n : n = chunk - 1 /\ n = chunk' - 1
        BY <2>9
      <4>2. LodBody(n) => LodBody(n)'
        BY <2>7
      <4> QED BY <4>1, <4>2 DEF LodBody
    <3> QED BY <2>1, <2>6, <2>9, <3>1 DEF Listing
  <2> QED BY <1>5, <2>8, <2>9
<1>6. CASE SaveFileP56 \/ P56Chunk \/ P56End \/ SaveFileEmbeded \/ AsmChunk \/ AsmEnd \/ SaveFileEmbededC \/ CChunk \/ CEnd
  <2>1. writer # "lod" /\ writer' # "lod" /\ UNCHANGED <<Source, lod>>
    BY <1>6 DEF SaveFileP56, P56Chunk, P56End, SaveFileEmbeded, AsmChunk, AsmEnd, SaveFileEmbededC, CChunk, CEnd,
                AtChunk, AtEnd, Go
  <2> QED BY <1>5, <2>1
<1>7. CASE UNCHANGED outputVars
  BY <1>5, <1>7 DEF outputVars, Source
<1>8. CASE ConvertFile
  <2>1. UNCHANGED outputVars
    BY <1>8 DEF ConvertFile, Seek, OtherToken, EndToken, DataToken, Convert, Misread, Overread
  <2> QED BY <1>7, <2>1
<1>9. [Next]_vars => Save \/ ConvertFile \/ UNCHANGED outputVars
  BY DEF Next, Saving, vars
<1> QED BY <1>2, <1>3, <1>4, <1>6, <1>7, <1>8, <1>9 DEF Save

LEMMA ListingAlways == Spec => [](Files /\ Listing)
<1>1. Files /\ Listing /\ [Next]_vars => Listing'
  BY ListingNext
<1> QED BY <1>1, FilesAlways, ListingInit, PTL DEF Spec

----------------------------------------------------------------------------
(* The converter at a line of the file.                                    *)

LEMMA LineParts ==
  ASSUME NEW syms, NEW x \in LineOf(syms)
  PROVE  /\ x.kind \in {"_START", "_DATA", "words", "_SYMBOL", "symbol", "_END"}
         /\ x.kind = "_DATA" => x.mem \in Nat /\ x.pc \in Nat
         /\ x.kind = "words" => x.words \in Seq(Nat)
BY DEF LineOf, SymbolLine

LEMMA Tokens ==
  ASSUME NEW x, x.kind \in {"_START", "_DATA", "words", "_SYMBOL", "symbol", "_END"}
  PROVE  /\ x.kind = "words" => Token(x) = "none"
         /\ x.kind = "_DATA" => Token(x) = "_DATA"
         /\ Token(x) = "none" => x.kind \in {"words", "symbol"}
         /\ Token(x) = "_DATA" => x.kind = "_DATA" \/ (x.kind = "symbol" /\ x.name[1] \in DataNames)
         /\ Token(x) = "_END" => x.kind \in {"symbol", "_END"}
BY DEF Token

\* The lines are those of the formats, whoever writes.
LEMMA LodTyped ==
  ASSUME Listing
  PROVE  lod \in Seq(LineOf(symbols)) /\ Orderly(lod)
<1>1. lod = <<>> => Portion(lod, AllKinds)
  BY PartNothing
<1>2. Portion(lod, BodyKinds) => Portion(lod, AllKinds)
  BY PartWider DEF AllKinds
<1>3. Portion(lod, AllKinds)
  BY <1>1, <1>2 DEF Listing, LodBody, LodFile
<1> QED BY <1>3 DEF Portion

LEMMA LodLine ==
  ASSUME Listing, NEW i \in 1 .. Len(lod)
  PROVE  lod[i] \in LineOf(symbols) /\ lod[i].kind \in {"_START", "_DATA", "words", "_SYMBOL", "symbol", "_END"}
<1>1. lod[i] \in LineOf(symbols)
  BY LodTyped
<1> QED BY <1>1, LineParts

\* What binbuff may hold: an address of more than eight digits has no first four.
BinWord == Nat \cup {make_int(n) : n \in Nat}
ConverterTypes ==
  /\ mode \in {"seek", "token", "convert", "within", "done", "failed", "dead"}
  /\ curptr \in 1 .. Len(lod) + 1 /\ binbuff \in Seq(BinWord) /\ size_loc \in 0 .. Len(binbuff)
  /\ mode = "token" => curptr <= Len(lod)
  /\ mode \in {"convert", "within"} => size_loc # 0
  /\ writer # "saved" => ConverterInit

\* A row that the converter is at.
LEMMA RowHere ==
  ASSUME Listing, ConverterTypes, ~AtEof, Here.kind = "words"
  PROVE  Here.words \in Seq(Nat)
<1>1. curptr \in 1 .. Len(lod)
  <2>1. Len(lod) \in Nat
    BY LodTyped
  <2> QED BY <2>1 DEF AtEof, ConverterTypes
<1>2. Here \in LineOf(symbols)
  BY <1>1, LodLine DEF Here
<1> QED BY <1>2, LineParts

\* What a line of DATA may be read as.
LEMMA HeaderWords ==
  ASSUME Listing, NEW c \in 1 .. Len(lod), NEW h \in Headers(lod[c])
  PROVE  h[1] \in BinWord /\ h[2] \in BinWord
<1>1. CASE lod[c].kind = "_DATA"
  <2>1. lod[c].mem \in Nat /\ lod[c].pc \in Nat
    BY <1>1, LodLine, LineParts
  <2>2. h = <<lod[c].mem, make_int(lod[c].pc)>>
    BY <1>1 DEF Headers
  <2> QED BY <2>1, <2>2 DEF BinWord
<1>2. CASE lod[c].kind # "_DATA"
  <2>1. PICK mem \in NameMem(lod[c].name[1]), junk \in Junk : h = <<mem, junk>>
    BY <1>2 DEF Headers
  <2>2. mem \in {0, 1, 2}
    BY DEF NameMem, P_MEM, X_MEM, Y_MEM
  <2>3. mem \in Nat /\ junk \in Nat
    BY <2>2, OutputAssumption
  <2> QED BY <2>1, <2>3 DEF BinWord
<1> QED BY <1>1, <1>2

\* The end of a block keeps the types.
LEMMA SizeTyped ==
  ASSUME Listing, ConverterTypes, size_loc # 0,
         binbuff' = [binbuff EXCEPT ![size_loc] = (Len(binbuff) - size_loc) % Sizes]
  PROVE  binbuff' \in Seq(BinWord) /\ Len(binbuff') = Len(binbuff)
<1>1. binbuff \in Seq(BinWord) /\ size_loc \in 1 .. Len(binbuff) /\ Len(binbuff) \in Nat
  BY LenNat DEF ConverterTypes
<1>2. PICK x \in BinWord : x = (Len(binbuff) - size_loc) % Sizes
  <2>1. Sizes \in Nat \ {0} /\ Len(binbuff) - size_loc \in Int
    BY <1>1, ConverterAssumption
  <2>2. (Len(binbuff) - size_loc) % Sizes \in Nat
    BY <2>1
  <2> QED BY <2>2 DEF BinWord
<1>3. [binbuff EXCEPT ![size_loc] = x] \in Seq(BinWord) /\ Len([binbuff EXCEPT ![size_loc] = x]) = Len(binbuff)
  BY <1>1, ExceptSeq
<1> QED BY <1>2, <1>3

\* Words stored behind the others keep them.
LEMMA StoredTyped ==
  ASSUME ConverterTypes, NEW e \in Seq(BinWord), binbuff' = binbuff \o e
  PROVE  /\ binbuff' \in Seq(BinWord) /\ Len(binbuff') = Len(binbuff) + Len(e)
         /\ Len(binbuff) \in Nat /\ Len(e) \in Nat
<1>1. PICK b \in Seq(BinWord) : b = binbuff
  BY DEF ConverterTypes
<1>2. b \o e \in Seq(BinWord) /\ Len(b \o e) = Len(b) + Len(e)
  BY JoinedType, JoinedLen
<1> QED BY <1>1, <1>2, LenNat

LEMMA TypesNext ==
  ASSUME Listing, Listing', ConverterTypes, [Next]_vars
  PROVE  ConverterTypes'
<1>1. lod \in Seq(LineOf(symbols)) /\ Len(lod) \in Nat /\ Len(lod') \in Nat
  <2>1. lod \in Seq(LineOf(symbols)) /\ Len(lod) \in Nat
    BY LodTyped, LenNat
  <2>2. Listing => Len(lod) \in Nat
    BY LodTyped, LenNat
  <2>3. Listing' => Len(lod)' \in Nat
    BY LodTyped, LenNat
  <2> QED BY <2>1, <2>3
<1>2. /\ mode \in {"seek", "token", "convert", "within", "done", "failed", "dead"}
      /\ curptr \in 1 .. Len(lod) + 1 /\ binbuff \in Seq(BinWord) /\ size_loc \in 0 .. Len(binbuff)
  BY DEF ConverterTypes
<1>3. CASE Saving
  <2>1. UNCHANGED <<curptr, mode, binbuff, size_loc>>
    BY <1>3 DEF Saving, converterVars
  <2>2. writer # "saved"
    BY <1>3 DEF Saving, Save, SaveFileLod, LodChunk, LodEnd, SaveFileP56, P56Chunk, P56End, SaveFileEmbeded, AsmChunk,
                AsmEnd, SaveFileEmbededC, CChunk, CEnd, AtChunk, AtEnd
  <2>3. curptr = 1 /\ mode = "seek" /\ binbuff = <<>> /\ size_loc = 0
    BY <2>2 DEF ConverterTypes, ConverterInit
  <2>4. <<>> \in Seq(BinWord) /\ Len(<<>>) = 0 /\ 1 \in 1 .. Len(lod') + 1
    BY <1>1
  <2> QED BY <2>1, <2>3, <2>4 DEF ConverterTypes, ConverterInit
<1>4. CASE UNCHANGED vars
  BY <1>4 DEF vars, outputVars, converterVars, ConverterTypes, ConverterInit
<1>5. ASSUME UNCHANGED outputVars, writer = "saved"
      PROVE  writer' = "saved" /\ lod' = lod
  BY <1>5 DEF outputVars
<1>6. CASE Seek
  <2>1. writer' = "saved" /\ lod' = lod /\ mode = "seek" /\ binbuff' = binbuff /\ size_loc' = size_loc
    BY <1>5, <1>6 DEF Seek, Ready
  <2>2. \/ mode' = "done" /\ curptr' = curptr
        \/ mode' = "seek" /\ curptr' = curptr + 1 /\ curptr <= Len(lod)
        \/ mode' = "token" /\ curptr' = curptr /\ curptr <= Len(lod)
    BY <1>1, <1>2, <1>6, <2>1 DEF Seek, AtEof
  <2> QED BY <1>1, <1>2, <2>1, <2>2 DEF ConverterTypes
<1>7. CASE OtherToken
  <2>1. /\ writer' = "saved" /\ lod' = lod /\ mode = "token" /\ binbuff' = binbuff /\ size_loc' = size_loc
        /\ mode' = "seek" /\ curptr' = curptr + 1
    BY <1>5, <1>7 DEF OtherToken, Ready
  <2>2. curptr <= Len(lod)
    BY <2>1 DEF ConverterTypes
  <2> QED BY <1>1, <1>2, <2>1, <2>2 DEF ConverterTypes
<1>8. CASE EndToken
  <2>1. /\ writer' = "saved" /\ lod' = lod /\ binbuff' = binbuff /\ size_loc' = size_loc
        /\ mode' = "done" /\ curptr' = curptr
    BY <1>5, <1>8 DEF EndToken, Ready
  <2> QED BY <1>2, <2>1 DEF ConverterTypes
<1>9. CASE DataToken
  <2>1. writer' = "saved" /\ lod' = lod /\ mode = "token" /\ curptr <= Len(lod)
    BY <1>5, <1>9 DEF DataToken, Ready, ConverterTypes
  <2>2. CASE mode' = "failed" /\ UNCHANGED <<curptr, binbuff, size_loc>>
    BY <1>2, <2>1, <2>2 DEF ConverterTypes
  <2>3. ASSUME NEW h \in Headers(Here), binbuff' = binbuff \o <<h[1], h[2], 0>>,
               size_loc' = Len(binbuff'), curptr' = curptr + 1, Into("convert")
        PROVE  ConverterTypes'
    <3>1. curptr \in 1 .. Len(lod)
      BY <1>1, <1>2, <2>1
    <3>2. PICK e \in Seq(BinWord) : e = <<h[1], h[2], 0>> /\ Len(e) = 3
      <4>1. h[1] \in BinWord /\ h[2] \in BinWord /\ 0 \in BinWord
        BY <3>1, HeaderWords DEF Here, BinWord
      <4>2. <<h[1], h[2], 0>> \in Seq(BinWord) /\ Len(<<h[1], h[2], 0>>) = 3
        BY <4>1
      <4> QED BY <4>2
    <3>3. binbuff' \in Seq(BinWord) /\ Len(binbuff') = Len(binbuff) + 3 /\ Len(binbuff) \in Nat
      BY <2>3, <3>2, StoredTyped
    <3>4. mode' \in {"convert", "dead"}
      BY <2>3 DEF Into
    <3>5. size_loc' \in 0 .. Len(binbuff') /\ size_loc' # 0 /\ curptr' \in 1 .. Len(lod) + 1
      BY <1>1, <2>3, <3>1, <3>3
    <3> QED BY <2>1, <3>3, <3>4, <3>5 DEF ConverterTypes
  <2> QED BY <1>9, <2>2, <2>3 DEF DataToken
<1>10. ASSUME writer = "saved", UNCHANGED <<outputVars, size_loc>>, mode \in {"convert", "within"}, ~AtEof,
              NEW e \in Seq(BinWord), binbuff' = binbuff \o e, curptr' = curptr + 1,
              mode' \in {"convert", "within", "dead"}
       PROVE  ConverterTypes'
  <2>1. writer' = "saved" /\ lod' = lod /\ size_loc' = size_loc
    BY <1>5, <1>10
  <2>2. /\ binbuff' \in Seq(BinWord) /\ Len(binbuff') = Len(binbuff) + Len(e)
        /\ Len(binbuff) \in Nat /\ Len(e) \in Nat
    BY <1>10, StoredTyped
  <2>3. size_loc' \in 0 .. Len(binbuff') /\ size_loc' # 0
    <3>1. size_loc # 0
      BY <1>10 DEF ConverterTypes
    <3> QED BY <1>2, <2>1, <2>2, <3>1
  <2>4. curptr' \in 1 .. Len(lod) + 1
    BY <1>1, <1>2, <1>10 DEF AtEof
  <2> QED BY <1>10, <2>1, <2>2, <2>3, <2>4 DEF ConverterTypes
<1>11. CASE Convert
  <2>1. writer = "saved" /\ writer' = "saved" /\ lod' = lod /\ mode = "convert" /\ UNCHANGED <<outputVars, size_loc>>
    BY <1>5, <1>11 DEF Convert, Ready
  <2>2. CASE AtEof \/ Token(Here) # "none"
    <3>1. /\ binbuff' = [binbuff EXCEPT ![size_loc] = (Len(binbuff) - size_loc) % Sizes]
          /\ mode' = (IF AtEof THEN "done" ELSE "token") /\ curptr' = curptr
      BY <1>11, <2>2 DEF Convert
    <3>2. binbuff' \in Seq(BinWord) /\ Len(binbuff') = Len(binbuff)
      BY <2>1, <3>1, SizeTyped DEF ConverterTypes
    <3>3. mode' = "token" => curptr' <= Len(lod)
      BY <1>1, <1>2, <3>1 DEF AtEof
    <3> QED BY <1>2, <2>1, <3>1, <3>2, <3>3 DEF ConverterTypes
  <2>3. CASE ~(AtEof \/ Token(Here) # "none")
    <3>1. Here.kind = "words" /\ binbuff' = binbuff \o Here.words /\ curptr' = curptr + 1 /\ mode' \in {"convert", "dead"}
      BY <1>11, <2>3 DEF Convert, Into
    <3>2. Here.words \in Seq(BinWord)
      <4>1. Here.words \in Seq(Nat)
        BY <2>3, <3>1, RowHere
      <4> QED BY <4>1 DEF BinWord
    <3> QED BY <1>10, <2>1, <2>3, <3>1, <3>2
  <2> QED BY <2>2, <2>3
<1>12. CASE Misread
  <2>1. /\ writer = "saved" /\ UNCHANGED <<outputVars, size_loc>> /\ mode \in {"convert", "within"} /\ ~AtEof
        /\ curptr' = curptr + 1 /\ mode' \in {"convert", "within", "dead"}
    BY <1>12 DEF Misread, Ready, Into
  <2>2. PICK n \in 1 .. LineWords : \E ws \in [1 .. n -> Junk] : binbuff' = binbuff \o ws
    BY <1>12 DEF Misread
  <2>3. PICK ws \in [1 .. n -> Junk] : binbuff' = binbuff \o ws
    BY <2>2
  <2>4. ws \in Seq(BinWord)
    <3>1. Junk \subseteq BinWord /\ n \in Nat
      BY OutputAssumption, ConverterAssumption DEF BinWord
    <3>2. ws \in [1 .. n -> BinWord]
      BY <3>1
    <3> QED BY <3>1, <3>2
  <2> QED BY <1>10, <2>1, <2>3, <2>4
<1>13. CASE Overread
  <2>1. /\ writer' = "saved" /\ lod' = lod /\ mode = "within" /\ size_loc' = size_loc /\ curptr' = curptr
        /\ binbuff' = [binbuff EXCEPT ![size_loc] = (Len(binbuff) - size_loc) % Sizes] /\ mode' \in {"done", "dead"}
    BY <1>5, <1>13 DEF Overread, Ready
  <2>2. binbuff' \in Seq(BinWord) /\ Len(binbuff') = Len(binbuff)
    BY <2>1, SizeTyped DEF ConverterTypes
  <2> QED BY <1>2, <2>1, <2>2 DEF ConverterTypes
<1> QED BY <1>3, <1>4, <1>6, <1>7, <1>8, <1>9, <1>11, <1>12, <1>13 DEF Next, ConvertFile

LEMMA TypesInit == SpecInit => ConverterTypes
<1> SUFFICES ASSUME SpecInit PROVE ConverterTypes
  OBVIOUS
<1>1. lod = <<>> /\ curptr = 1 /\ mode = "seek" /\ binbuff = <<>> /\ size_loc = 0
  BY DEF SpecInit, Init, ConverterInit
<1>2. <<>> \in Seq(BinWord) /\ Len(<<>>) = 0
  OBVIOUS
<1> QED BY <1>1, <1>2 DEF ConverterTypes, ConverterInit

LEMMA TypesAlways == Spec => []ConverterTypes
BY TypesInit, TypesNext, ListingAlways, PTL DEF Spec

----------------------------------------------------------------------------
(* The converter and the embedded file.                                    *)

Convertible ==
  /\ SmallSections
  /\ \A i \in DOMAIN lod : lod[i].kind = "symbol" => lod[i].name[1] \notin DataNames
  /\ Len(embAsm) <= BinWords

\* The first n words are those of the embedded file.
Prefix(n) == Len(binbuff) = n /\ \A k \in 1 .. n : binbuff[k] = embAsm[k]
\* So are all but the size of the block that begins at line h.
InBlockAt(f, h) ==
  /\ h < curptr /\ lod[h].kind = "_DATA" /\ \A k \in h + 1 .. curptr - 1 : lod[k].kind = "words"
  /\ size_loc = f[h] + 3 /\ Len(binbuff) = f[curptr]
  /\ \A k \in 1 .. Len(binbuff) : k # size_loc => binbuff[k] = embAsm[k]
Progress(f) ==
  /\ mode \in {"seek", "token", "convert", "done"}
  /\ mode \in {"seek", "token"} => (Prefix(f[curptr]) /\ (curptr <= Len(lod) => lod[curptr].kind # "words"))
  /\ mode = "convert" => (\E h \in 1 .. Len(lod) : InBlockAt(f, h))
  /\ mode = "done" => binbuff = embAsm
Ground(f) == Listing /\ embAsm \in Seq(Nat) /\ ConverterTypes /\ Convertible /\ Full(lod, embAsm, f)

\* What the lines stand for.
LEMMA GroundParts ==
  ASSUME NEW f, Ground(f)
  PROVE  /\ Len(lod) \in Nat /\ Len(embAsm) \in Nat /\ f[1] = 0 /\ f[Len(lod) + 1] = Len(embAsm)
         /\ \A i \in 1 .. Len(lod) + 1 : f[i] \in Nat /\ f[i] <= Len(embAsm)
         /\ \A i \in 1 .. Len(lod) : /\ LineCounts(lod, embAsm, f, i)
                                     /\ lod[i].kind \in TailKinds => f[i] = Len(embAsm)
<1>1. lod \in Seq(LineOf(symbols)) /\ embAsm \in Seq(Nat)
  BY LodTyped DEF Ground
<1>2. Len(lod) \in Nat /\ Len(embAsm) \in Nat
  BY <1>1, LenNat
<1>3. /\ CountsTo(f, Len(lod), Len(embAsm))
      /\ \A i \in 1 .. Len(lod) : LineCounts(lod, embAsm, f, i)
      /\ \A i \in 1 .. Len(lod) : lod[i].kind \in TailKinds => f[i] = Len(embAsm)
  BY DEF Ground, Full, Counting
<1> QED BY <1>2, <1>3 DEF CountsTo

LEMMA NoRowBehind ==
  ASSUME NEW f, Ground(f), NEW i \in 1 .. Len(lod), lod[i].kind \notin {"_DATA", "words"}, i + 1 <= Len(lod)
  PROVE  lod[i + 1].kind # "words"
<1>1. Len(lod) \in Nat
  BY GroundParts
<1>2. i + 1 \in 1 .. Len(lod) /\ i + 1 - 1 = i
  BY <1>1
<1>3. lod[i + 1].kind = "words" => lod[i + 1 - 1].kind \in {"_DATA", "words"}
  BY <1>2, LodTyped DEF Ground, Orderly
<1> QED BY <1>2, <1>3

\* binbuff, when it holds all of the words.
LEMMA PrefixWhole ==
  ASSUME NEW b \in Seq(BinWord), embAsm \in Seq(Nat), Len(b) = Len(embAsm), \A k \in 1 .. Len(embAsm) : b[k] = embAsm[k]
  PROVE  b = embAsm
<1>1. embAsm \in Seq(BinWord)
  BY DEF BinWord
<1> QED BY <1>1, SameSequence

LEMMA SeekProgress ==
  ASSUME NEW f, Ground(f), Progress(f), Seek
  PROVE  Progress(f)'
<1>1. /\ mode = "seek" /\ binbuff' = binbuff /\ UNCHANGED <<lod, embAsm, size_loc>>
      /\ Prefix(f[curptr]) /\ (curptr <= Len(lod) => lod[curptr].kind # "words")
  BY DEF Seek, outputVars, Progress
<1>2. curptr \in 1 .. Len(lod) + 1 /\ binbuff \in Seq(BinWord) /\ embAsm \in Seq(Nat) /\ Len(lod) \in Nat
  BY GroundParts DEF Ground, ConverterTypes
<1>3. CASE AtEof
  <2>1. mode' = "done" /\ curptr = Len(lod) + 1
    BY <1>2, <1>3 DEF Seek, AtEof
  <2>2. f[curptr] = Len(embAsm)
    BY <2>1, GroundParts
  <2>3. binbuff = embAsm
    BY <1>1, <1>2, <2>2, PrefixWhole DEF Prefix
  <2> QED BY <1>1, <2>1, <2>3 DEF Progress
<1>4. CASE ~AtEof /\ Token(Here) = "none"
  <2>1. mode' = "seek" /\ curptr' = curptr + 1 /\ curptr \in 1 .. Len(lod)
    BY <1>2, <1>4 DEF Seek, AtEof
  <2>2. lod[curptr].kind = "symbol"
    <3>1. lod[curptr].kind \in {"_START", "_DATA", "words", "_SYMBOL", "symbol", "_END"}
      BY <2>1, LodLine DEF Ground
    <3>2. lod[curptr].kind \in {"words", "symbol"}
      BY <1>4, <3>1, Tokens DEF Here
    <3> QED BY <1>1, <2>1, <3>2
  <2>3. f[curptr + 1] = f[curptr]
    BY <2>1, <2>2, GroundParts DEF LineCounts
  <2>4. curptr + 1 <= Len(lod) => lod[curptr + 1].kind # "words"
    BY <2>1, <2>2, NoRowBehind
  <2> QED BY <1>1, <2>1, <2>3, <2>4 DEF Progress, Prefix
<1>5. CASE ~AtEof /\ Token(Here) # "none"
  <2>1. mode' = "token" /\ curptr' = curptr
    BY <1>5 DEF Seek
  <2> QED BY <1>1, <2>1 DEF Progress, Prefix
<1> QED BY <1>3, <1>4, <1>5

LEMMA OtherTokenProgress ==
  ASSUME NEW f, Ground(f), Progress(f), OtherToken
  PROVE  Progress(f)'
<1>1. /\ mode = "token" /\ binbuff' = binbuff /\ UNCHANGED <<lod, embAsm, size_loc>> /\ mode' = "seek"
      /\ curptr' = curptr + 1 /\ Token(Here) \notin {"_DATA", "_END"} /\ Prefix(f[curptr])
  BY DEF OtherToken, outputVars, Progress
<1>2. curptr \in 1 .. Len(lod)
  BY <1>1, GroundParts DEF Ground, ConverterTypes
<1>3. lod[curptr].kind \notin {"_DATA", "words"}
  <2>1. lod[curptr].kind \in {"_START", "_DATA", "words", "_SYMBOL", "symbol", "_END"}
    BY <1>2, LodLine DEF Ground
  <2>2. lod[curptr].kind # "_DATA"
    BY <1>1, <2>1, Tokens DEF Here
  <2>3. lod[curptr].kind # "words"
    BY <1>1, <1>2, GroundParts DEF Progress
  <2> QED BY <2>2, <2>3
<1>4. f[curptr + 1] = f[curptr]
  BY <1>2, <1>3, GroundParts DEF LineCounts
<1>5. curptr + 1 <= Len(lod) => lod[curptr + 1].kind # "words"
  BY <1>2, <1>3, NoRowBehind
<1> QED BY <1>1, <1>4, <1>5 DEF Progress, Prefix

LEMMA EndTokenProgress ==
  ASSUME NEW f, Ground(f), Progress(f), EndToken
  PROVE  Progress(f)'
<1>1. /\ mode = "token" /\ binbuff' = binbuff /\ UNCHANGED <<lod, embAsm>> /\ mode' = "done"
      /\ Token(Here) = "_END" /\ Prefix(f[curptr])
  BY DEF EndToken, outputVars, Progress
<1>2. curptr \in 1 .. Len(lod) /\ binbuff \in Seq(BinWord) /\ embAsm \in Seq(Nat)
  BY <1>1, GroundParts DEF Ground, ConverterTypes
<1>3. lod[curptr].kind \in TailKinds
  <2>1. lod[curptr].kind \in {"_START", "_DATA", "words", "_SYMBOL", "symbol", "_END"}
    BY <1>2, LodLine DEF Ground
  <2>2. lod[curptr].kind \in {"symbol", "_END"}
    BY <1>1, <2>1, Tokens DEF Here
  <2> QED BY <2>2 DEF TailKinds
<1>4. f[curptr] = Len(embAsm)
  BY <1>2, <1>3, GroundParts
<1>5. binbuff = embAsm
  BY <1>1, <1>2, <1>4, PrefixWhole DEF Prefix
<1> QED BY <1>1, <1>5 DEF Progress

\* Nothing is stored behind binbuff by a block that fits.
LEMMA NothingBehind ==
  ASSUME NEW m, Into(m), Len(binbuff') <= BinWords, Len(binbuff') \in Nat
  PROVE  mode' = m
BY ConverterAssumption DEF Into

\* The words behind those that are right.
Agrees(b, W, n, s) == b \in Seq(BinWord) /\ Len(b) = n /\ \A k \in 1 .. n : k # s => b[k] = W[k]
AgreesBehind(e, W, n, s) == \A m \in 1 .. Len(e) : n + m # s => e[m] = W[n + m]
LEMMA PrefixLonger ==
  ASSUME NEW b, NEW e \in Seq(BinWord), NEW W, NEW n \in Nat, NEW s, Agrees(b, W, n, s), AgreesBehind(e, W, n, s)
  PROVE  Agrees(b \o e, W, n + Len(e), s)
<1>1. b \in Seq(BinWord) /\ Len(b) = n
  BY DEF Agrees
<1>2. PICK c \in Seq(BinWord), d \in Nat : c = b \o e /\ d = Len(e) /\ Len(c) = n + d
  <2>1. b \o e \in Seq(BinWord)
    BY <1>1, JoinedType
  <2>2. Len(b \o e) = Len(b) + Len(e)
    BY <1>1, JoinedLen
  <2>3. Len(e) \in Nat
    BY LenNat
  <2> QED BY <1>1, <2>1, <2>2, <2>3
<1>3. ASSUME NEW k \in 1 .. n + d, k # s PROVE c[k] = W[k]
  <2>1. CASE k <= n
    <3>1. k \in 1 .. n /\ k \in 1 .. Len(b)
      BY <1>1, <2>1
    <3>2. c[k] = b[k]
      BY <1>1, <1>2, <3>1, JoinedFront
    <3> QED BY <1>3, <3>1, <3>2 DEF Agrees
  <2>2. CASE ~(k <= n)
    <3>1. PICK m \in 1 .. d : k = n + m
      <4>1. k - n \in 1 .. d /\ k = n + (k - n)
        BY <2>2
      <4> QED BY <4>1
    <3>2. c[Len(b) + m] = e[m]
      BY <1>1, <1>2, JoinedBack
    <3>3. e[m] = W[n + m]
      BY <1>2, <1>3, <3>1 DEF AgreesBehind
    <3> QED BY <1>1, <3>1, <3>2, <3>3
  <2> QED BY <2>1, <2>2
<1> QED BY <1>2, <1>3 DEF Agrees

LEMMA DataTokenProgress ==
  ASSUME NEW f, Ground(f), Progress(f), DataToken
  PROVE  Progress(f)'
<1>1. /\ mode = "token" /\ UNCHANGED <<lod, embAsm>> /\ Token(Here) = "_DATA" /\ Prefix(f[curptr])
  BY DEF DataToken, outputVars, Progress
<1>2. curptr \in 1 .. Len(lod) /\ binbuff \in Seq(BinWord) /\ embAsm \in Seq(Nat) /\ Len(lod) \in Nat
  BY <1>1, GroundParts DEF Ground, ConverterTypes
<1>3. Here.kind = "_DATA"
  <2>1. Here.kind \in {"_START", "_DATA", "words", "_SYMBOL", "symbol", "_END"}
    BY <1>2, LodLine DEF Ground, Here
  <2>2. ~(Here.kind = "symbol" /\ Here.name[1] \in DataNames)
    BY <1>2 DEF Ground, Convertible, Here
  <2> QED BY <1>1, <2>1, <2>2, Tokens
<1>4. /\ binbuff' = binbuff \o <<Here.mem, make_int(Here.pc), 0>> /\ size_loc' = Len(binbuff')
      /\ curptr' = curptr + 1 /\ Into("convert")
  <2>1. PICK x : x = <<Here.mem, make_int(Here.pc)>> /\ Headers(Here) = {x}
    <3>1. Headers(Here) = {<<Here.mem, make_int(Here.pc)>>}
      BY <1>3 DEF Headers
    <3>2. PICK x : x = <<Here.mem, make_int(Here.pc)>>
      OBVIOUS
    <3> QED BY <3>1, <3>2
  <2>2. /\ \E h \in Headers(Here) : binbuff' = binbuff \o <<h[1], h[2], 0>>
        /\ size_loc' = Len(binbuff') /\ curptr' = curptr + 1 /\ Into("convert")
    <3>1. Headers(Here) # {}
      BY <2>1
    <3> QED BY <3>1 DEF DataToken
  <2>3. binbuff' = binbuff \o <<x[1], x[2], 0>>
    BY <2>1, <2>2
  <2>4. x[1] = Here.mem /\ x[2] = make_int(Here.pc)
    BY <2>1
  <2> QED BY <2>2, <2>3, <2>4
<1>5. PICK c \in 1 .. Len(lod) : c = curptr
  BY <1>2
<1>6. f[c] \in Nat /\ f[c + 1] = f[c] + 3 /\ f[c + 1] <= Len(embAsm) /\ Len(embAsm) \in Nat
      /\ embAsm[f[c] + 1] = Here.mem /\ embAsm[f[c] + 2] = make_int(Here.pc)
  <2>1. LineCounts(lod, embAsm, f, c) /\ lod[c].kind = "_DATA" /\ lod[c] = Here
    BY <1>3, <1>5, GroundParts DEF Here
  <2>2. f[c] \in Nat /\ f[c + 1] <= Len(embAsm)
    <3>1. c \in 1 .. Len(lod) + 1 /\ c + 1 \in 1 .. Len(lod) + 1
      BY <1>2
    <3> QED BY <3>1, GroundParts
  <2> QED BY <2>1, <2>2, GroundParts DEF LineCounts, HeaderCounts
<1>7. PICK e \in Seq(BinWord) : /\ e = <<Here.mem, make_int(Here.pc), 0>> /\ Len(e) = 3
                                /\ e[1] = Here.mem /\ e[2] = make_int(Here.pc)
  <2>1. Here.mem \in Nat /\ Here.pc \in Nat
    BY <1>2, <1>3, LodLine, LineParts DEF Ground, Here
  <2>2. Here.mem \in BinWord /\ make_int(Here.pc) \in BinWord /\ 0 \in BinWord
    BY <2>1 DEF BinWord
  <2>3. <<Here.mem, make_int(Here.pc), 0>> \in Seq(BinWord)
    BY <2>2
  <2>4. Len(<<Here.mem, make_int(Here.pc), 0>>) = 3
    OBVIOUS
  <2> QED BY <2>3, <2>4
<1>8. PICK n \in Nat : n = f[c] /\ Len(binbuff) = n /\ \A k \in 1 .. n : binbuff[k] = embAsm[k]
  BY <1>1, <1>5, <1>6 DEF Prefix
<1>9. AgreesBehind(e, embAsm, n, n + 3)
  <2> SUFFICES \A m \in 1 .. Len(e) : n + m # n + 3 => e[m] = embAsm[n + m]
    BY DEF AgreesBehind
  <2> TAKE m \in 1 .. Len(e)
  <2>1. m \in {1, 2, 3} /\ (m = 3 => n + m = n + 3)
    BY <1>7
  <2>2. e[1] = embAsm[n + 1] /\ e[2] = embAsm[n + 2]
    BY <1>6, <1>7, <1>8
  <2> QED BY <2>1, <2>2
<1>10. /\ Len(binbuff') = n + 3
       /\ \A k \in 1 .. n + 3 : k # n + 3 => binbuff'[k] = embAsm[k]
  <2>1. Agrees(binbuff, embAsm, n, n + 3)
    BY <1>2, <1>8 DEF Agrees
  <2>2. Agrees(binbuff \o e, embAsm, n + Len(e), n + 3)
    BY <1>9, <2>1, PrefixLonger
  <2>3. binbuff' = binbuff \o e
    BY <1>4, <1>7
  <2> QED BY <1>7, <2>2, <2>3 DEF Agrees
<1>11. mode' = "convert"
  <2>1. n + 3 <= BinWords
    <3>1. Len(embAsm) <= BinWords
      BY DEF Ground, Convertible
    <3>2. n + 3 <= Len(embAsm)
      BY <1>6, <1>8
    <3> QED BY <1>6, <3>1, <3>2, ConverterAssumption
  <2> QED BY <1>4, <1>10, <2>1, NothingBehind
<1>12. InBlockAt(f, c)'
  <2>1. c < curptr' /\ lod'[c].kind = "_DATA" /\ \A k \in c + 1 .. curptr' - 1 : lod'[k].kind = "words"
    <3>1. c < curptr' /\ curptr' - 1 = c
      BY <1>4, <1>5
    <3>2. c + 1 .. c = {}
      OBVIOUS
    <3> QED BY <1>1, <1>3, <1>5, <3>1, <3>2 DEF Here
  <2>2. size_loc' = f[c] + 3 /\ Len(binbuff') = f[curptr']
    BY <1>4, <1>5, <1>6, <1>8, <1>10
  <2>3. \A k \in 1 .. Len(binbuff') : k # size_loc' => binbuff'[k] = embAsm'[k]
    BY <1>1, <1>8, <1>10, <2>2
  <2> QED BY <2>1, <2>2, <2>3 DEF InBlockAt
<1>13. c \in 1 .. Len(lod')
  BY <1>1
<1> QED BY <1>11, <1>12, <1>13 DEF Progress

\* The row that the converter is at.
LEMMA RowProgress ==
  ASSUME NEW f, Ground(f), Progress(f), Convert, ~AtEof, Token(Here) = "none"
  PROVE  Progress(f)'
<1>1. /\ mode = "convert" /\ UNCHANGED <<lod, embAsm, size_loc>> /\ Here.kind = "words"
      /\ binbuff' = binbuff \o Here.words /\ curptr' = curptr + 1 /\ Into("convert")
  BY DEF Convert, outputVars
<1>2. curptr \in 1 .. Len(lod) /\ binbuff \in Seq(BinWord) /\ embAsm \in Seq(Nat) /\ Len(lod) \in Nat
  BY GroundParts DEF Ground, ConverterTypes, AtEof
<1>3. Here.kind = "words" /\ Here.words \in Seq(Nat)
  BY <1>1, RowHere DEF Ground
<1>4. PICK h \in 1 .. Len(lod) : InBlockAt(f, h)
  BY <1>1 DEF Progress
<1>5. PICK c \in 1 .. Len(lod) : c = curptr
  BY <1>2
<1>6. PICK e \in Seq(BinWord) : e = Here.words
  <2>1. Here.words \in Seq(BinWord)
    BY <1>3 DEF BinWord
  <2> QED BY <2>1
<1>7. f[c] \in Nat /\ f[c + 1] = f[c] + Len(e) /\ f[c + 1] <= Len(embAsm) /\ Len(embAsm) \in Nat
      /\ \A m \in 1 .. Len(e) : embAsm[f[c] + m] = e[m]
  <2>1. LineCounts(lod, embAsm, f, c) /\ lod[c].kind = "words" /\ lod[c].words = e
    BY <1>3, <1>5, <1>6, GroundParts DEF Here
  <2>2. f[c] \in Nat /\ f[c + 1] <= Len(embAsm)
    <3>1. c \in 1 .. Len(lod) + 1 /\ c + 1 \in 1 .. Len(lod) + 1
      BY <1>2
    <3> QED BY <3>1, GroundParts
  <2> QED BY <2>1, <2>2, GroundParts DEF LineCounts, RowCounts
<1>8. PICK n \in Nat, l \in Nat : n = f[c] /\ l = Len(e)
  BY <1>7, LenNat
<1>9. PICK s : s = size_loc /\ Agrees(binbuff \o e, embAsm, n + Len(e), s)
  <2>0. PICK s : s = size_loc
    OBVIOUS
  <2>1. Agrees(binbuff, embAsm, n, s)
    BY <1>2, <1>4, <1>5, <1>8, <2>0 DEF InBlockAt, Agrees
  <2>2. AgreesBehind(e, embAsm, n, s)
    BY <1>7, <1>8 DEF AgreesBehind
  <2>3. Agrees(binbuff \o e, embAsm, n + Len(e), s)
    BY <2>1, <2>2, PrefixLonger
  <2> QED BY <2>0, <2>3
<1>10. /\ Len(binbuff') = n + l
       /\ \A k \in 1 .. n + l : k # size_loc => binbuff'[k] = embAsm[k]
  BY <1>1, <1>6, <1>8, <1>9 DEF Agrees
<1>11. mode' = "convert"
  <2>1. n + l <= BinWords
    <3>1. Len(embAsm) <= BinWords
      BY DEF Ground, Convertible
    <3>2. n + l <= Len(embAsm)
      BY <1>7, <1>8
    <3> QED BY <1>7, <3>1, <3>2, ConverterAssumption
  <2> QED BY <1>1, <1>10, <2>1, NothingBehind
<1>12. InBlockAt(f, h)'
  <2>1. h < curptr' /\ lod'[h].kind = "_DATA"
    BY <1>1, <1>2, <1>4 DEF InBlockAt
  <2>2. \A k \in h + 1 .. curptr' - 1 : lod'[k].kind = "words"
    <3> TAKE k \in h + 1 .. curptr' - 1
    <3>1. k \in h + 1 .. curptr - 1 \/ k = curptr
      BY <1>1, <1>2
    <3>2. \A i \in h + 1 .. curptr - 1 : lod[i].kind = "words"
      BY <1>4 DEF InBlockAt
    <3> QED BY <1>1, <1>3, <3>1, <3>2 DEF Here
  <2>3. size_loc' = f[h] + 3 /\ Len(binbuff') = f[curptr']
    <3>1. size_loc = f[h] + 3
      BY <1>4 DEF InBlockAt
    <3> QED BY <1>1, <1>5, <1>7, <1>8, <1>10, <3>1
  <2>4. \A k \in 1 .. Len(binbuff') : k # size_loc' => binbuff'[k] = embAsm'[k]
    BY <1>1, <1>10
  <2> QED BY <2>1, <2>2, <2>3, <2>4 DEF InBlockAt
<1>13. h \in 1 .. Len(lod')
  BY <1>1
<1> QED BY <1>11, <1>12, <1>13 DEF Progress

\* The end of a block: what is behind its size is as much as the size of the file says.
LEMMA BlockEndProgress ==
  ASSUME NEW f, Ground(f), Progress(f), Convert, AtEof \/ Token(Here) # "none"
  PROVE  Progress(f)'
<1>1. /\ mode = "convert" /\ UNCHANGED <<lod, embAsm, size_loc>> /\ curptr' = curptr
      /\ binbuff' = [binbuff EXCEPT ![size_loc] = (Len(binbuff) - size_loc) % Sizes]
      /\ mode' = IF AtEof THEN "done" ELSE "token"
  BY DEF Convert, outputVars
<1>2. curptr \in 1 .. Len(lod) + 1 /\ binbuff \in Seq(BinWord) /\ embAsm \in Seq(Nat) /\ Len(lod) \in Nat
  BY GroundParts DEF Ground, ConverterTypes
<1>3. PICK h \in 1 .. Len(lod) : InBlockAt(f, h)
  BY <1>1 DEF Progress
<1>4. PICK c \in 1 .. Len(lod) + 1 : c = curptr
  BY <1>2
<1>5. c = Len(lod) + 1 \/ lod[c].kind # "words"
  <2> SUFFICES ASSUME c # Len(lod) + 1 PROVE lod[c].kind # "words"
    OBVIOUS
  <2>1. c \in 1 .. Len(lod) /\ ~AtEof
    BY <1>2, <1>4 DEF AtEof
  <2>2. lod[c].kind \in {"_START", "_DATA", "words", "_SYMBOL", "symbol", "_END"} /\ Token(lod[c]) # "none"
    BY <1>4, <2>1, LodLine DEF Ground, Here
  <2> QED BY <2>2, Tokens
<1>6. RowsBetween(lod, h, c) /\ c \in h + 1 .. Len(lod) + 1
  <2>1. h < c /\ \A k \in h + 1 .. c - 1 : lod[k].kind = "words"
    BY <1>3, <1>4 DEF InBlockAt
  <2>2. c \in h + 1 .. Len(lod) + 1
    BY <1>2, <2>1
  <2> QED BY <1>5, <2>1, <2>2 DEF RowsBetween
<1>7. HeaderCounts(lod, embAsm, f, h)
  <2>1. LineCounts(lod, embAsm, f, h) /\ lod[h].kind = "_DATA"
    BY <1>3, GroundParts DEF InBlockAt
  <2> QED BY <2>1 DEF LineCounts
<1>8. f[c] = f[h] + 3 + embAsm[f[h] + 3] /\ embAsm[f[h] + 3] \in Nat /\ embAsm[f[h] + 3] < Sizes
  BY <1>6, <1>7 DEF HeaderCounts
<1>9. f[h] \in Nat /\ f[c] \in Nat /\ size_loc = f[h] + 3 /\ Len(binbuff) = f[c]
  BY <1>3, <1>4, GroundParts DEF InBlockAt
<1>10. PICK s \in Nat, x \in Nat : s = size_loc /\ x = embAsm[s] /\ x < Sizes /\ Len(binbuff) = s + x /\ s >= 3
  <2>1. PICK s \in Nat : s = f[h] + 3 /\ s >= 3
    BY <1>9
  <2> QED BY <1>8, <1>9, <2>1
<1>11. (Len(binbuff) - size_loc) % Sizes = x
  <2>1. Len(binbuff) - size_loc = x
    BY <1>10
  <2>2. x % Sizes = x
    <3>1. PICK a \in Nat : a = Sizes /\ x < a
      BY <1>10, ConverterAssumption
    <3>2. x % a = x
      BY <3>1
    <3> QED BY <3>1, <3>2
  <2> QED BY <2>1, <2>2
<1>12. PICK b \in Seq(BinWord) : b = binbuff' /\ Len(b) = f[c] /\ \A k \in 1 .. Len(b) : b[k] = embAsm[k]
  <2>1. x \in BinWord /\ s \in 1 .. Len(binbuff)
    BY <1>10 DEF BinWord
  <2>2. PICK b : b = [binbuff EXCEPT ![s] = x] /\ b = binbuff'
    BY <1>1, <1>10, <1>11
  <2>3. b \in Seq(BinWord) /\ Len(b) = Len(binbuff)
    BY <1>2, <2>1, <2>2, ExceptSeq
  <2>4. \A k \in 1 .. Len(binbuff) : b[k] = IF k = s THEN x ELSE binbuff[k]
    BY <1>2, <2>1, <2>2
  <2>5. \A k \in 1 .. Len(binbuff) : k # s => binbuff[k] = embAsm[k]
    BY <1>3, <1>10 DEF InBlockAt
  <2>6. \A k \in 1 .. Len(b) : b[k] = embAsm[k]
    BY <1>10, <2>3, <2>4, <2>5
  <2> QED BY <1>9, <2>2, <2>3, <2>6
<1>13. CASE AtEof
  <2>1. mode' = "done" /\ c = Len(lod) + 1
    BY <1>1, <1>2, <1>4, <1>13 DEF AtEof
  <2>2. f[c] = Len(embAsm)
    BY <2>1, GroundParts
  <2>3. b = embAsm
    BY <1>2, <1>12, <2>2, PrefixWhole
  <2> QED BY <1>1, <1>12, <2>1, <2>3 DEF Progress
<1>14. CASE ~AtEof
  <2>1. mode' = "token" /\ c <= Len(lod)
    BY <1>1, <1>2, <1>4, <1>14 DEF AtEof
  <2>2. lod[c].kind # "words"
    BY <1>2, <1>5, <2>1
  <2>3. Prefix(f[curptr])'
    BY <1>1, <1>4, <1>12 DEF Prefix
  <2>4. lod'[curptr'].kind # "words"
    BY <1>1, <1>4, <2>2
  <2> QED BY <1>1, <2>1, <2>3, <2>4 DEF Progress
<1> QED BY <1>13, <1>14

\* Of a block that its own line began, no line is one of a symbol.
LEMMA NothingMisread ==
  ASSUME NEW f, Ground(f), Progress(f)
  PROVE  ~Misread /\ ~Overread
<1>1. mode # "within"
  BY DEF Progress
<1>2. ASSUME mode = "convert", ~AtEof PROVE Here.kind # "symbol"
  <2>1. PICK h \in 1 .. Len(lod) : InBlockAt(f, h)
    BY <1>2 DEF Progress
  <2>2. curptr \in 1 .. Len(lod) /\ h < curptr /\ Len(lod) \in Nat
    BY <1>2, <2>1, GroundParts DEF Ground, ConverterTypes, AtEof, InBlockAt
  <2>3. lod[curptr - 1].kind \in {"_DATA", "words"}
    <3>1. curptr - 1 = h \/ curptr - 1 \in h + 1 .. curptr - 1
      BY <2>2
    <3> QED BY <2>1, <3>1 DEF InBlockAt
  <2>4. Here.kind = "symbol" => lod[curptr - 1].kind \in {"_SYMBOL", "symbol"}
    BY <2>2, LodTyped DEF Ground, Orderly, Here
  <2> QED BY <2>3, <2>4
<1> QED BY <1>1, <1>2 DEF Misread, Overread

LEMMA ConverterProgress ==
  ASSUME NEW f, Ground(f), Progress(f), ConvertFile
  PROVE  Progress(f)'
<1>1. CASE Convert
  BY <1>1, RowProgress, BlockEndProgress
<1> QED BY <1>1, NothingMisread, SeekProgress, OtherTokenProgress, EndTokenProgress, DataTokenProgress DEF ConvertFile

\* What the converter has done is right, if it can be.
Converting == writer = "saved" /\ Convertible => \E f : Full(lod, embAsm, f) /\ Progress(f)
Starts == writer = "saved" /\ ConverterInit

LEMMA SavedWords ==
  ASSUME Files, writer = "saved"
  PROVE  embAsm = WordsUpTo(Len(chunks)) /\ embAsm \in Seq(Nat)
<1>1. chunks \in Seq(Chunks) /\ Len(chunks) \in 0 .. Len(chunks)
  BY DEF Files, At
<1>2. AsmDone = Len(chunks)
  BY DEF AsmDone, Done
<1>3. embAsm = WordsUpTo(Len(chunks))
  BY <1>2 DEF Files, EmbeddedFiles
<1> QED BY <1>1, <1>3, UpToTypes

\* The converter begins.
LEMMA StartsRight == Files /\ Listing /\ ConverterTypes /\ Starts => Converting
<1> SUFFICES ASSUME Files, Listing, ConverterTypes, Starts, Convertible
             PROVE  \E f : Full(lod, embAsm, f) /\ Progress(f)
  BY DEF Converting
<1>1. writer = "saved" /\ curptr = 1 /\ mode = "seek" /\ binbuff = <<>>
  BY DEF Starts, ConverterInit
<1>2. LodFile /\ embAsm = WordsUpTo(Len(chunks)) /\ embAsm \in Seq(Nat)
  BY <1>1, SavedWords DEF Listing
<1>3. PICK f : Full(lod, embAsm, f)
  BY <1>2 DEF LodFile, Convertible, Whole
<1>4. f[1] = 0 /\ Len(lod) \in Nat
  BY <1>2, <1>3, GroundParts DEF Ground
<1>5. Prefix(f[curptr])
  <2>1. Len(<<>>) = 0 /\ 1 .. 0 = {}
    OBVIOUS
  <2> QED BY <1>1, <1>4, <2>1 DEF Prefix
<1>6. curptr <= Len(lod) => lod[curptr].kind # "words"
  <2> SUFFICES ASSUME 1 <= Len(lod) PROVE lod[1].kind # "words"
    BY <1>1
  <2>1. 1 \in 1 .. Len(lod) /\ ~(1 > 1)
    BY <1>4
  <2>2. Orderly(lod)
    BY LodTyped
  <2> QED BY <2>1, <2>2 DEF Orderly
<1> QED BY <1>1, <1>3, <1>5, <1>6 DEF Progress

LEMMA ConvertingNext ==
  ASSUME Files, Listing, ConverterTypes, Converting, [Next]_vars
  PROVE  Converting' \/ Starts'
<1>1. CASE Saving
  <2>1. writer # "saved" /\ UNCHANGED converterVars
    BY <1>1 DEF Saving, Save, SaveFileLod, LodChunk, LodEnd, SaveFileP56, P56Chunk, P56End, SaveFileEmbeded, AsmChunk,
                AsmEnd, SaveFileEmbededC, CChunk, CEnd, AtChunk, AtEnd
  <2>2. ConverterInit'
    BY <2>1 DEF ConverterTypes, ConverterInit, converterVars
  <2> QED BY <2>2 DEF Starts, Converting
<1>2. CASE UNCHANGED vars
  <2>1. UNCHANGED <<outputVars, converterVars>>
    BY <1>2 DEF vars
  <2>2. UNCHANGED <<writer, lod, embAsm, chunks, curptr, mode, binbuff, size_loc>>
    BY <2>1 DEF outputVars, converterVars
  <2>3. Convertible' <=> Convertible
    BY <2>2 DEF Convertible, SmallSections
  <2>4. \A f : Progress(f) => Progress(f)'
    BY <2>2 DEF Progress, Prefix, InBlockAt
  <2>5. \A f : Full(lod, embAsm, f) => Full(lod, embAsm, f)'
    BY <2>2
  <2> QED BY <2>2, <2>3, <2>4, <2>5 DEF Converting
<1>3. CASE ConvertFile
  <2>1. UNCHANGED outputVars /\ writer = "saved"
    BY <1>3 DEF ConvertFile, Seek, OtherToken, EndToken, DataToken, Convert, Misread, Overread, Ready
  <2>2. UNCHANGED <<writer, lod, embAsm, chunks>>
    BY <2>1 DEF outputVars
  <2>3. Convertible' <=> Convertible
    BY <2>2 DEF Convertible, SmallSections
  <2>4. ASSUME Convertible' PROVE \E f : Full(lod, embAsm, f)' /\ Progress(f)'
    <3>1. PICK f : Full(lod, embAsm, f) /\ Progress(f)
      BY <2>1, <2>3, <2>4 DEF Converting
    <3>2. Ground(f)
      BY <2>1, <2>3, <2>4, <3>1, SavedWords DEF Ground
    <3>3. Progress(f)'
      BY <1>3, <3>1, <3>2, ConverterProgress
    <3>4. Full(lod, embAsm, f)'
      BY <2>2, <3>1
    <3> QED BY <3>3, <3>4
  <2> QED BY <2>4 DEF Converting
<1> QED BY <1>1, <1>2, <1>3 DEF Next

LEMMA ConvertingAlways == Spec => [](Files /\ Listing /\ ConverterTypes /\ Converting)
<1>1. SpecInit => Converting
  BY DEF SpecInit, Init, Converting
<1>2. Files /\ Listing /\ ConverterTypes /\ Converting /\ [Next]_vars => Converting' \/ Starts'
  BY ConvertingNext
<1>3. Files /\ Listing /\ ConverterTypes /\ Starts => Converting
  BY StartsRight
<1> QED BY <1>1, <1>2, <1>3, ListingAlways, TypesAlways, PTL DEF Spec

LEMMA ConvertedExact == Files /\ Listing /\ ConverterTypes /\ Converting => LodConverts
<1> SUFFICES ASSUME Files, Listing, ConverterTypes, Converting, ConverterStopped,
                    \A i \in DOMAIN chunks : chunks[i].pc < 16 ^ 4 /\ Len(chunks[i].words) < Sizes,
                    \A i \in DOMAIN lod : lod[i].kind = "symbol" => lod[i].name[1] \notin DataNames,
                    Len(embAsm) <= BinWords
             PROVE  mode = "done" /\ binbuff = embAsm
  BY DEF LodConverts
<1>1. mode \in {"done", "failed", "dead"}
  BY DEF ConverterStopped
<1>2. writer = "saved"
  BY <1>1 DEF ConverterTypes, ConverterInit
<1>3. Convertible
  BY DEF Convertible, SmallSections, FewWords
<1>4. PICK f : Progress(f)
  BY <1>2, <1>3 DEF Converting
<1> QED BY <1>1, <1>4 DEF Progress

\* The converter makes of every LOD file the words of the embedded file, in the order
\* of the sections and with their sizes, and never stops short, while addresses have
\* four digits, blocks fit and no symbol is named like the token DATA
\* (tools/lod2p56.c, convert_file and do_convert; OutputLod.c, OutputEmbededAsm.c).
THEOREM LodFileConverts == Spec => []LodConverts
BY ConvertingAlways, ConvertedExact, PTL

----------------------------------------------------------------------------
(* The types of both programs.                                             *)

LEMMA OutputTyped == Files /\ Listing /\ ConverterTypes => TypeOK
<1> SUFFICES ASSUME Files, Listing, ConverterTypes PROVE TypeOK
  OBVIOUS
<1>1. writer \in {"lod", "p56", "asm", "c", "saved"} /\ chunk \in 0 .. Len(chunks) + 1
  BY DEF Files, At
<1>2. /\ mode \in {"seek", "token", "convert", "within", "done", "failed", "dead"}
      /\ curptr \in 1 .. Len(lod) + 1 /\ size_loc \in 0 .. Len(binbuff)
  BY DEF ConverterTypes
<1>3. mode \in {"convert", "within"} => size_loc # 0 /\ Finished
  BY DEF ConverterTypes, ConverterInit, Finished
<1>4. \A i \in DOMAIN lod : lod[i].kind \in {"_START", "_DATA", "words", "_SYMBOL", "symbol", "_END"}
  <2>1. DOMAIN lod = 1 .. Len(lod)
    BY LodTyped
  <2> QED BY <2>1, LodLine
<1> QED BY <1>1, <1>2, <1>3, <1>4 DEF TypeOK

\* The writers take the sections one by one and in turn, and the converter keeps its
\* place in the file and the place of a size in what it has made (OutputLod.c,
\* OutputP56.c, OutputEmbededAsm.c, OutputEmbededC.c, tools/lod2p56.c).
THEOREM OutputTypes == Spec => []TypeOK
BY ConvertingAlways, OutputTyped, PTL

----------------------------------------------------------------------------
(* The lists of symbols.                                                   *)

Valued(syms) == \A s \in syms : symbol_value(s) \in Int
Near(syms) == \A s, t \in syms : symbol_value(s) - symbol_value(t) < IntLimit

\* The comparison of qsort, where the difference does not overflow.
LEMMA NearCompared ==
  ASSUME NEW s, NEW t, symbol_value(s) \in Int, symbol_value(t) \in Int,
         symbol_value(s) - symbol_value(t) < IntLimit, symbol_value(t) - symbol_value(s) < IntLimit
  PROVE  symbol_cmp(s, t) <= 0 <=> symbol_value(s) <= symbol_value(t)
<1>1. PICK a \in Int, b \in Int, n \in Nat : /\ a = symbol_value(s) /\ b = symbol_value(t) /\ n = IntLimit
                                             /\ a - b < n /\ b - a < n /\ n > 0
  BY OutputAssumption
<1>2. PICK d \in Int : d = a - b
  OBVIOUS
<1>3. symbol_cmp(s, t) = (IF d % (2 * n) < n THEN d % (2 * n) ELSE (d % (2 * n)) - 2 * n)
  BY <1>1, <1>2 DEF symbol_cmp, AsInt
<1>4. CASE d >= 0
  <2>1. PICK m \in Nat : m = 2 * n /\ d < m
    BY <1>1, <1>2
  <2>2. d % m = d
    BY <1>4, <2>1
  <2>3. symbol_cmp(s, t) = d
    BY <1>1, <1>2, <1>3, <2>1, <2>2
  <2> QED BY <1>1, <1>2, <2>3
<1>5. CASE d < 0
  <2>1. PICK m \in Nat : m = 2 * n /\ d + m < m /\ d + m >= 0 /\ m > 0
    BY <1>1, <1>2, <1>5
  <2>2. d % m = d + m
    BY <2>1
  <2>3. symbol_cmp(s, t) = d
    BY <1>1, <1>2, <1>3, <1>5, <2>1, <2>2
  <2> QED BY <1>1, <1>2, <2>3
<1> QED BY <1>4, <1>5

Highest(m, syms) == m \in syms /\ \A s \in syms : symbol_value(s) <= symbol_value(m)

LEMMA SomeHighest ==
  ASSUME NEW syms, IsFiniteSet(syms), Valued(syms), syms # {}
  PROVE  \E m : Highest(m, syms)
<1> DEFINE Without(T) == T # {} /\ ~ \E m : Highest(m, T)
           Bad == {n \in Nat : \E T \in SUBSET syms : Cardinality(T) = n /\ Without(T)}
<1> SUFFICES ASSUME Without(syms) PROVE FALSE
  OBVIOUS
<1>1. \A T \in SUBSET syms : IsFiniteSet(T) /\ Cardinality(T) \in Nat
  BY FS_Subset, FS_CardinalityType
<1>2. Bad # {}
  BY <1>1
<1>3. PICK n \in Nat : n \in Bad /\ \A k \in Bad : n <= k
  <2>1. Bad \in SUBSET Nat
    OBVIOUS
  <2> HIDE DEF Bad
  <2> QED BY <1>2, <2>1, LeastNatural
<1>4. PICK T \in SUBSET syms : Cardinality(T) = n /\ Without(T)
  BY <1>3
<1>5. PICK x \in T : TRUE
  BY <1>4
<1>6. PICK U \in SUBSET syms : U = T \ {x}
  OBVIOUS
<1>7. Cardinality(U) = n - 1
  BY <1>1, <1>4, <1>5, <1>6, FS_RemoveElement
<1>8. ~Without(U)
  <2> SUFFICES ASSUME Without(U) PROVE FALSE
    OBVIOUS
  <2>1. n - 1 \in Nat
    BY <1>1, <1>7
  <2>2. n - 1 \in Bad
    BY <1>7, <2>1
  <2> HIDE DEF Bad
  <2>3. n <= n - 1
    BY <1>3, <2>2
  <2> QED BY <2>3
<1>9. CASE U = {}
  <2>1. Highest(x, T)
    BY <1>5, <1>6, <1>9 DEF Highest, Valued
  <2> QED BY <1>4, <2>1
<1>10. CASE U # {}
  <2>1. PICK m : Highest(m, U)
    BY <1>8, <1>10
  <2>2. symbol_value(m) \in Int /\ symbol_value(x) \in Int /\ m \in T
    BY <1>5, <1>6, <2>1 DEF Highest, Valued
  <2>3. \A s \in T : symbol_value(s) \in Int /\ (s = x \/ symbol_value(s) <= symbol_value(m))
    BY <1>6, <2>1 DEF Highest, Valued
  <2>4. Highest(m, T) \/ Highest(x, T)
    <3>1. CASE symbol_value(x) <= symbol_value(m)
      BY <2>2, <2>3, <3>1 DEF Highest
    <3>2. CASE symbol_value(m) <= symbol_value(x)
      BY <1>5, <2>2, <2>3, <3>2 DEF Highest
    <3> QED BY <2>2, <3>1, <3>2
  <2> QED BY <1>4, <2>4
<1> QED BY <1>9, <1>10

Rising(q, k) == \A i, j \in 1 .. k : i < j => symbol_value(q[i]) <= symbol_value(q[j])
Permutes(q, T, k) == k = Cardinality(T) /\ q \in [1 .. k -> T] /\ \A i, j \in 1 .. k : i # j => q[i] # q[j]

LEMMA SomeRising ==
  ASSUME NEW syms, IsFiniteSet(syms), Valued(syms)
  PROVE  \E q, k : Permutes(q, syms, k) /\ Rising(q, k)
<1> DEFINE Without(T) == ~ \E q, k : Permutes(q, T, k) /\ Rising(q, k)
           Bad == {n \in Nat : \E T \in SUBSET syms : Cardinality(T) = n /\ Without(T)}
<1> SUFFICES ASSUME Without(syms) PROVE FALSE
  OBVIOUS
<1>1. \A T \in SUBSET syms : IsFiniteSet(T) /\ Cardinality(T) \in Nat
  BY FS_Subset, FS_CardinalityType
<1>2. Bad # {}
  BY <1>1
<1>3. PICK n \in Nat : n \in Bad /\ \A k \in Bad : n <= k
  <2>1. Bad \in SUBSET Nat
    OBVIOUS
  <2> HIDE DEF Bad
  <2> QED BY <1>2, <2>1, LeastNatural
<1>4. PICK T \in SUBSET syms : Cardinality(T) = n /\ Without(T)
  BY <1>3
<1>5. CASE T = {}
  <2>1. n = 0
    BY <1>4, <1>5, FS_EmptySet
  <2>2. PICK q : q = [i \in 1 .. 0 |-> i]
    OBVIOUS
  <2>3. Permutes(q, T, 0) /\ Rising(q, 0)
    BY <1>4, <1>5, <2>1, <2>2 DEF Permutes, Rising
  <2> QED BY <1>4, <2>3
<1>6. CASE T # {}
  <2>1. PICK m : Highest(m, T)
    <3>1. Valued(T)
      BY DEF Valued
    <3> QED BY <1>1, <1>6, <3>1, SomeHighest
  <2>2. PICK U \in SUBSET syms : U = T \ {m}
    OBVIOUS
  <2>3. Cardinality(U) = n - 1
    BY <1>1, <1>4, <2>1, <2>2, FS_RemoveElement DEF Highest
  <2>4. n - 1 \in Nat
    BY <1>1, <2>3
  <2>5. ~Without(U)
    <3> SUFFICES ASSUME Without(U) PROVE FALSE
      OBVIOUS
    <3>1. n - 1 \in Bad
      BY <2>3, <2>4
    <3> HIDE DEF Bad
    <3>2. n <= n - 1
      BY <1>3, <3>1
    <3> QED BY <3>2
  <2>6. PICK q : Permutes(q, U, n - 1) /\ Rising(q, n - 1)
    BY <2>3, <2>5 DEF Permutes
  <2>7. PICK r : r = [i \in 1 .. n |-> IF i = n THEN m ELSE q[i]]
    OBVIOUS
  <2>8. \A i \in 1 .. n : i = n \/ i \in 1 .. n - 1
    OBVIOUS
  <2>9. \A i \in 1 .. n - 1 : q[i] \in U /\ q[i] \in T /\ q[i] # m /\ r[i] = q[i]
    BY <2>2, <2>4, <2>6, <2>7 DEF Permutes
  <2>10. r[n] = m /\ m \in T
    <3>1. n \in 1 .. n
      BY <2>4
    <3> QED BY <2>1, <2>7, <3>1 DEF Highest
  <2>11. r \in [1 .. n -> T]
    BY <2>7, <2>8, <2>9, <2>10
  <2>12. \A i, j \in 1 .. n : i # j => r[i] # r[j]
    <3> TAKE i, j \in 1 .. n
    <3> SUFFICES ASSUME i # j PROVE r[i] # r[j]
      OBVIOUS
    <3>1. CASE i = n
      <4>1. j \in 1 .. n - 1
        BY <2>8, <3>1
      <4> QED BY <2>9, <2>10, <3>1, <4>1
    <3>2. CASE j = n
      <4>1. i \in 1 .. n - 1
        BY <2>8, <3>2
      <4> QED BY <2>9, <2>10, <3>2, <4>1
    <3>3. CASE i # n /\ j # n
      <4>1. i \in 1 .. n - 1 /\ j \in 1 .. n - 1
        BY <2>8, <3>3
      <4> QED BY <2>6, <2>9, <4>1 DEF Permutes
    <3> QED BY <3>1, <3>2, <3>3
  <2>13. Rising(r, n)
    <3> SUFFICES ASSUME NEW i \in 1 .. n, NEW j \in 1 .. n, i < j PROVE symbol_value(r[i]) <= symbol_value(r[j])
      BY DEF Rising
    <3>1. i \in 1 .. n - 1
      OBVIOUS
    <3>2. CASE j = n
      BY <2>1, <2>9, <2>10, <3>1, <3>2 DEF Highest
    <3>3. CASE j # n
      <4>1. j \in 1 .. n - 1
        BY <2>8, <3>3
      <4> QED BY <2>6, <2>9, <3>1, <4>1 DEF Rising
    <3> QED BY <3>2, <3>3
  <2>14. Permutes(r, T, n)
    BY <1>4, <2>11, <2>12 DEF Permutes
  <2> QED BY <1>4, <2>13, <2>14
<1> QED BY <1>5, <1>6

\* Whatever order qsort leaves, every symbol is in it, and it rises unless values are
\* more than an int apart.
LEMMA OrderParts ==
  ASSUME NEW syms, IsFiniteSet(syms), Valued(syms), NEW q \in Orders(syms)
  PROVE  \E k \in Nat : /\ q \in [1 .. k -> syms]
                        /\ \A s \in syms : \E i \in 1 .. k : q[i] = s
                        /\ Near(syms) => Rising(q, k)
<1>1. PICK k \in Nat : k = Cardinality(syms)
  BY FS_CardinalityType
<1>2. \A r : r \in SetToSeqs(syms) <=> Permutes(r, syms, k)
  BY <1>1 DEF SetToSeqs, Permutes
<1> DEFINE Sorted(r) == \A i, j \in DOMAIN r : i < j => symbol_cmp(r[i], r[j]) <= 0
<1>3. Permutes(q, syms, k)
  BY <1>2 DEF Orders
<1>4. q \in [1 .. k -> syms]
  BY <1>3 DEF Permutes
<1>5. \A s \in syms : \E i \in 1 .. k : q[i] = s
  <2>1. q \in Injection(1 .. k, syms)
    BY <1>3 DEF Permutes, Injection, IsInjective
  <2>2. Cardinality(1 .. k) = k
    <3>1. IF 1 > k THEN k = 0 ELSE k - 1 + 1 = k
      OBVIOUS
    <3> QED BY <3>1, FS_Interval
  <2>3. q \in Surjection(1 .. k, syms)
    BY <1>1, <2>1, <2>2, FS_Injection
  <2> QED BY <2>3 DEF Surjection
<1>6. ASSUME Near(syms) PROVE Rising(q, k)
  <2>1. ASSUME NEW r \in [1 .. k -> syms]
        PROVE  Sorted(r) <=> Rising(r, k)
    <3>1. \A i, j \in 1 .. k : symbol_cmp(r[i], r[j]) <= 0 <=> symbol_value(r[i]) <= symbol_value(r[j])
      <4> TAKE i, j \in 1 .. k
      <4>1. r[i] \in syms /\ r[j] \in syms
        OBVIOUS
      <4> QED BY <1>6, <4>1, NearCompared DEF Near, Valued
    <3> QED BY <3>1 DEF Rising
  <2>2. PICK r : Permutes(r, syms, k) /\ Rising(r, k)
    <3>1. PICK r, l : Permutes(r, syms, l) /\ Rising(r, l)
      BY SomeRising
    <3>2. l = k
      BY <1>1, <3>1 DEF Permutes
    <3> QED BY <3>1, <3>2
  <2>3. r \in SetToSeqs(syms) /\ Sorted(r)
    BY <1>2, <2>1, <2>2 DEF Permutes
  <2>4. q \in {p \in SetToSeqs(syms) : Sorted(p)}
    BY <2>3 DEF Orders
  <2>5. Sorted(q)
    BY <2>4
  <2> QED BY <1>4, <2>1, <2>5
<1> QED BY <1>4, <1>5, <1>6

\* The line of a symbol stands under the header of its space, with symbols between.
Heads(L, h, i, space) ==
    h \in 1 .. i /\ L[h] = ListHeader(space) /\ \A m \in h + 1 .. i : L[m].kind = "symbol"
Under(L, i, space) == \E h : Heads(L, h, i, space)
IsOf(L, i, sym) == L[i] = SymbolLine(sym)
Ordered(L, i) == L[i - 1].kind = "symbol" => L[i - 1].value <= L[i].value \/ ~Near(symbols)
\* What is written once the first n spaces are.
Has(L, i, k) == Under(L, i, Spaces[k]) /\ \E sym \in symbols : Listed(sym, Spaces[k]) /\ IsOf(L, i, sym)
Placed(L, i, n) == L[i].kind = "symbol" => i > 1 /\ Ordered(L, i) /\ \E k \in 1 .. n : Has(L, i, k)
Shows(L, sym, k) == \E i \in 1 .. Len(L) : IsOf(L, i, sym) /\ Under(L, i, Spaces[k])
Lists(L, n) ==
    /\ L \in Seq(LineOf(symbols))
    /\ \A i \in 1 .. Len(L) : Placed(L, i, n)
    /\ \A k \in 1 .. n, sym \in symbols : Listed(sym, Spaces[k]) => Shows(L, sym, k)

LEMMA ListsNone ==
  ASSUME NEW L, Portion(L, BodyKinds)
  PROVE  Lists(L, 0)
<1>1. \A i \in 1 .. Len(L) : L[i].kind # "symbol"
  BY DEF Portion, OfKinds, BodyKinds
<1>2. L \in Seq(LineOf(symbols)) /\ 1 .. 0 = {}
  BY DEF Portion
<1> QED BY <1>1, <1>2 DEF Lists, Placed

\* A line keeps its place when more is written behind it.
LEMMA UnderBefore ==
  ASSUME NEW p \in Nat, NEW L, NEW M, \A j \in 1 .. p : M[j] = L[j], NEW i \in 1 .. p, NEW space
  PROVE  Under(L, i, space) => Under(M, i, space)
<1> SUFFICES ASSUME NEW h, Heads(L, h, i, space) PROVE Heads(M, h, i, space)
  BY DEF Under
<1>1. h \in 1 .. p /\ h \in 1 .. i
  BY DEF Heads
<1>2. \A m \in h + 1 .. i : m \in 1 .. p
  BY <1>1
<1>3. \A m \in h + 1 .. i : M[m].kind = "symbol"
  BY <1>2 DEF Heads
<1>4. M[h] = ListHeader(space)
  BY <1>1 DEF Heads
<1> QED BY <1>1, <1>3, <1>4 DEF Heads

Longer(M, T, p, t, n) ==
    /\ M \in Seq(LineOf(symbols)) /\ Len(M) = p + t
    /\ \A i \in 1 .. t : M[p + i] = T[i]
    /\ \A i \in 1 .. p : Placed(M, i, n)
    /\ \A k \in 1 .. n, sym \in symbols : Listed(sym, Spaces[k]) => Shows(M, sym, k)

LEMMA ListsBefore ==
  ASSUME NEW n \in Nat, NEW L, NEW T \in Seq(LineOf(symbols)), Lists(L, n),
         NEW M, M = L \o T, NEW p \in Nat, NEW t \in Nat, p = Len(L), t = Len(T)
  PROVE  Longer(M, T, p, t, n)
<1> DEFINE S == LineOf(symbols)
<1>1. L \in Seq(S)
  BY DEF Lists
<1> HIDE DEF S
<1>2. M \in Seq(S) /\ M = L \o T
  BY <1>1, JoinedType DEF S
<1>3. Len(M) = p + t
  BY <1>1, <1>2, JoinedLen DEF S
<1>4. \A i \in 1 .. p : M[i] = L[i]
  BY <1>1, <1>2, JoinedFront DEF S
<1>5. \A i \in 1 .. t : M[p + i] = T[i]
  BY <1>1, <1>2, JoinedBack DEF S
<1>6. ASSUME NEW i \in 1 .. p PROVE Placed(M, i, n)
  <2> SUFFICES ASSUME M[i].kind = "symbol" PROVE i > 1 /\ Ordered(M, i) /\ \E k \in 1 .. n : Has(M, i, k)
    BY DEF Placed
  <2>1. L[i].kind = "symbol"
    BY <1>4
  <2>2. i > 1 /\ Ordered(L, i) /\ \E k \in 1 .. n : Has(L, i, k)
    BY <2>1 DEF Lists, Placed
  <2>3. M[i] = L[i] /\ M[i - 1] = L[i - 1]
    <3>1. i - 1 \in 1 .. p
      BY <2>2
    <3> QED BY <1>4, <3>1
  <2>4. Ordered(M, i)
    BY <2>2, <2>3 DEF Ordered
  <2>5. PICK k \in 1 .. n : Has(L, i, k)
    BY <2>2
  <2>6. Under(M, i, Spaces[k])
    BY <1>4, <2>5, UnderBefore DEF Has
  <2>7. Has(M, i, k)
    BY <2>3, <2>5, <2>6 DEF Has, IsOf
  <2> QED BY <2>2, <2>4, <2>7
<1>7. ASSUME NEW k \in 1 .. n, NEW sym \in symbols, Listed(sym, Spaces[k]) PROVE Shows(M, sym, k)
  <2>1. PICK i \in 1 .. p : IsOf(L, i, sym) /\ Under(L, i, Spaces[k])
    BY <1>7 DEF Lists, Shows
  <2>2. IsOf(M, i, sym) /\ Under(M, i, Spaces[k])
    BY <1>4, <2>1, UnderBefore DEF IsOf
  <2>3. i \in 1 .. Len(M)
    BY <1>3
  <2> QED BY <2>2, <2>3 DEF Shows
<1> QED BY <1>2, <1>3, <1>5, <1>6, <1>7 DEF S, Longer

\* The end of the file, and a space without symbols.
LEMMA ListsWithout ==
  ASSUME NEW n \in Nat, NEW L, Lists(L, n), NEW T \in Seq(LineOf(symbols)), \A i \in 1 .. Len(T) : T[i].kind # "symbol"
  PROVE  Lists(L \o T, n)
<1>1. PICK p \in Nat, t \in Nat : p = Len(L) /\ t = Len(T)
  BY LenNat DEF Lists
<1>2. PICK M : M = L \o T
  OBVIOUS
<1>0. Longer(M, T, p, t, n)
  BY <1>1, <1>2, ListsBefore
<1>3. /\ M \in Seq(LineOf(symbols)) /\ Len(M) = p + t
      /\ \A i \in 1 .. t : M[p + i] = T[i]
      /\ \A i \in 1 .. p : Placed(M, i, n)
      /\ \A k \in 1 .. n, sym \in symbols : Listed(sym, Spaces[k]) => Shows(M, sym, k)
  BY <1>0 DEF Longer
<1>4. ASSUME NEW i \in 1 .. p + t PROVE Placed(M, i, n)
  <2>1. CASE i \in 1 .. p
    BY <1>3, <2>1
  <2>2. CASE i \notin 1 .. p
    <3>1. PICK j \in 1 .. t : i = p + j
      <4>1. i - p \in 1 .. t /\ i = p + (i - p)
        BY <2>2
      <4> QED BY <4>1
    <3>2. M[i].kind # "symbol"
      BY <1>1, <1>3, <3>1
    <3> QED BY <3>2 DEF Placed
  <2> QED BY <2>1, <2>2
<1> QED BY <1>2, <1>3, <1>4 DEF Lists

\* The lines of one space: its header, and its symbols as they are ordered.
Lines(T, q, k, space) ==
    /\ T \in Seq(LineOf(symbols)) /\ Len(T) = k + 1 /\ T[1] = ListHeader(space)
    /\ \A i \in 1 .. k : q[i] \in symbols /\ Listed(q[i], space) /\ IsOf(T, i + 1, q[i])
    /\ \A sym \in symbols : Listed(sym, space) => \E i \in 1 .. k : q[i] = sym
    /\ Near(symbols) => Rising(q, k)

LEMMA ListLines ==
  ASSUME IsFiniteSet(symbols), Valued(symbols), NEW space \in Int, NEW T \in OutputSymbols(space),
         {sym \in symbols : Listed(sym, space)} # {}
  PROVE  \E q : \E k \in Nat : Lines(T, q, k, space)
<1> DEFINE syms == {sym \in symbols : Listed(sym, space)}
           S == LineOf(symbols)
<1>1. PICK q \in Orders(syms) : T = <<ListHeader(space)>> \o SymbolLines(q)
  BY DEF OutputSymbols, ListHeader, SymbolLines
<1>2. IsFiniteSet(syms) /\ Valued(syms) /\ (Near(symbols) => Near(syms))
  BY FS_Subset DEF Valued, Near
<1>3. PICK k \in Nat : /\ q \in [1 .. k -> syms]
                       /\ \A s \in syms : \E i \in 1 .. k : q[i] = s
                       /\ Near(syms) => Rising(q, k)
  <2> HIDE DEF syms
  <2> QED BY <1>1, <1>2, OrderParts
<1>4. T \in Seq(S)
  BY ListPart DEF Portion
<1>5. \A sym \in symbols : SymbolLine(sym) \in S
  BY DEF LineOf, SymbolLine
<1>6. ListHeader(space) \in S
  BY DEF LineOf, ListHeader
<1>7. \A i \in 1 .. k : q[i] \in symbols /\ Listed(q[i], space)
  BY <1>3
<1>8. \A sym \in symbols : Listed(sym, space) => \E i \in 1 .. k : q[i] = sym
  BY <1>3
<1> HIDE DEF S, syms
<1>9. PICK t \in Seq(S) : t = SymbolLines(q) /\ Len(t) = k /\ \A i \in 1 .. k : t[i] = SymbolLine(q[i])
  <2>1. DOMAIN q = 1 .. k
    BY <1>3
  <2>2. SymbolLines(q) = [i \in 1 .. k |-> SymbolLine(q[i])]
    BY <2>1 DEF SymbolLines
  <2>3. PICK f \in [1 .. k -> S] : f = SymbolLines(q)
    BY <1>5, <1>7, <2>2
  <2>4. f \in Seq(S) /\ Len(f) = k
    OBVIOUS
  <2> QED BY <2>2, <2>3, <2>4
<1>10. PICK h \in Seq(S) : h = <<ListHeader(space)>> /\ Len(h) = 1 /\ h[1] = ListHeader(space)
  <2>1. PICK x \in S : x = ListHeader(space)
    BY <1>6
  <2>2. <<x>> \in Seq(S) /\ Len(<<x>>) = 1 /\ <<x>>[1] = x
    OBVIOUS
  <2> QED BY <2>1, <2>2
<1>11. T = h \o t
  BY <1>1, <1>9, <1>10
<1>12. Len(T) = k + 1
  <2>1. Len(T) = Len(h) + Len(t)
    BY <1>9, <1>10, <1>11, JoinedLen
  <2>2. 1 + k = k + 1
    OBVIOUS
  <2> QED BY <1>9, <1>10, <2>1, <2>2
<1>13. T[1] = ListHeader(space)
  <2>1. 1 \in 1 .. Len(h)
    BY <1>10
  <2>2. T[1] = h[1]
    BY <1>9, <1>10, <1>11, <2>1, JoinedFront
  <2> QED BY <1>10, <2>2
<1>14. \A i \in 1 .. k : IsOf(T, i + 1, q[i])
  <2> TAKE i \in 1 .. k
  <2>1. i \in 1 .. Len(t) /\ Len(h) + i = i + 1
    BY <1>9, <1>10
  <2>2. T[Len(h) + i] = t[i]
    BY <1>9, <1>10, <1>11, <2>1, JoinedBack
  <2> QED BY <1>9, <2>1, <2>2 DEF IsOf
<1>15. Near(symbols) => Rising(q, k)
  BY <1>2, <1>3
<1>16. Lines(T, q, k, space)
  BY <1>4, <1>7, <1>8, <1>12, <1>13, <1>14, <1>15 DEF S, Lines
<1> QED BY <1>16

LEMMA SymbolLineParts == \A sym : SymbolLine(sym).kind = "symbol" /\ SymbolLine(sym).value = symbol_value(sym)
                                  /\ SymbolLine(sym).name = sym.name
BY DEF SymbolLine

LEMMA ListsNext ==
  ASSUME IsFiniteSet(symbols), Valued(symbols), NEW n \in 0 .. 4, NEW space \in Int, space = Spaces[n + 1],
         NEW T \in OutputSymbols(space), NEW L, Lists(L, n)
  PROVE  Lists(L \o T, n + 1)
<1>1. n \in Nat /\ \A k \in 1 .. n + 1 : k \in 1 .. n \/ k = n + 1
  OBVIOUS
<1>2. CASE {sym \in symbols : Listed(sym, space)} = {}
  <2>0. T = <<>>
    BY <1>2 DEF OutputSymbols
  <2>1. T \in Seq(LineOf(symbols)) /\ Len(T) = 0 /\ 1 .. 0 = {}
    BY <2>0
  <2>2. PICK M : M = L \o T /\ Lists(M, n)
    BY <1>1, <2>1, ListsWithout
  <2>3. \A sym \in symbols : ~Listed(sym, space)
    BY <1>2
  <2>4. \A i \in 1 .. Len(M) : Placed(M, i, n + 1)
    BY <1>1, <2>2 DEF Lists, Placed
  <2>5. \A k \in 1 .. n + 1, sym \in symbols : Listed(sym, Spaces[k]) => Shows(M, sym, k)
    BY <1>1, <2>2, <2>3 DEF Lists
  <2> QED BY <2>2, <2>4, <2>5 DEF Lists
<1>3. CASE {sym \in symbols : Listed(sym, space)} # {}
  <2>0. PICK q : \E l \in Nat : Lines(T, q, l, space)
    BY <1>3, ListLines
  <2>1. PICK l \in Nat :
            /\ T \in Seq(LineOf(symbols)) /\ Len(T) = l + 1 /\ T[1] = ListHeader(space)
            /\ \A i \in 1 .. l : q[i] \in symbols /\ Listed(q[i], space) /\ IsOf(T, i + 1, q[i])
            /\ \A sym \in symbols : Listed(sym, space) => \E i \in 1 .. l : q[i] = sym
            /\ Near(symbols) => Rising(q, l)
    BY <2>0 DEF Lines
  <2>2. PICK p \in Nat : p = Len(L)
    BY LenNat DEF Lists
  <2>3. PICK M : M = L \o T
    OBVIOUS
  <2>4. /\ M \in Seq(LineOf(symbols)) /\ Len(M) = p + (l + 1)
        /\ \A i \in 1 .. l + 1 : M[p + i] = T[i]
        /\ \A i \in 1 .. p : Placed(M, i, n)
        /\ \A k \in 1 .. n, sym \in symbols : Listed(sym, Spaces[k]) => Shows(M, sym, k)
    <3>1. PICK t \in Nat : t = l + 1 /\ t = Len(T)
      BY <2>1
    <3>2. Longer(M, T, p, t, n)
      BY <1>1, <2>1, <2>2, <2>3, <3>1, ListsBefore
    <3> QED BY <3>1, <3>2 DEF Longer
  <2>5. M[p + 1] = ListHeader(space) /\ M[p + 1].kind = "_SYMBOL"
    <3>1. 1 \in 1 .. l + 1
      OBVIOUS
    <3> QED BY <2>1, <2>4, <3>1 DEF ListHeader
  <2>6. \A i \in 1 .. l : IsOf(M, p + (i + 1), q[i])
    <3> TAKE i \in 1 .. l
    <3>1. i + 1 \in 1 .. l + 1
      OBVIOUS
    <3> QED BY <2>1, <2>4, <3>1 DEF IsOf
  <2>7. \A m \in p + 2 .. p + (l + 1) : m - p - 1 \in 1 .. l /\ m = p + ((m - p - 1) + 1)
    OBVIOUS
  <2>8. \A m \in p + 2 .. p + (l + 1) : M[m].kind = "symbol"
    BY <2>6, <2>7, SymbolLineParts DEF IsOf
  <2>9. ASSUME NEW i \in 1 .. l PROVE Under(M, p + (i + 1), space)
    <3>1. p + 1 \in 1 .. p + (i + 1) /\ p + 1 + 1 = p + 2
      OBVIOUS
    <3>2. \A m \in p + 2 .. p + (i + 1) : m \in p + 2 .. p + (l + 1)
      OBVIOUS
    <3>3. Heads(M, p + 1, p + (i + 1), space)
      BY <2>5, <2>8, <3>1, <3>2 DEF Heads
    <3> QED BY <3>3 DEF Under
  <2>10. ASSUME NEW i \in 1 .. l PROVE Has(M, p + (i + 1), n + 1)
    BY <2>1, <2>6, <2>9, <2>10 DEF Has
  <2>11. ASSUME NEW i \in 1 .. l PROVE Ordered(M, p + (i + 1))
    <3>1. CASE i = 1
      <4>1. p + (1 + 1) - 1 = p + 1
        OBVIOUS
      <4> QED BY <2>5, <3>1, <4>1 DEF Ordered
    <3>2. CASE i # 1
      <4>1. PICK j \in 1 .. l : i = j + 1 /\ p + (i + 1) - 1 = p + (j + 1) /\ j < i
        <5>1. i - 1 \in 1 .. l /\ i = i - 1 + 1 /\ p + (i + 1) - 1 = p + (i - 1 + 1) /\ i - 1 < i
          BY <3>2
        <5> QED BY <5>1
      <4>2. M[p + (i + 1)].value = symbol_value(q[i]) /\ M[p + (j + 1)].value = symbol_value(q[j])
        BY <2>6, SymbolLineParts DEF IsOf
      <4>3. Near(symbols) => symbol_value(q[j]) <= symbol_value(q[i])
        BY <2>1, <4>1 DEF Rising
      <4> QED BY <4>1, <4>2, <4>3 DEF Ordered
    <3> QED BY <3>1, <3>2
  <2>12. ASSUME NEW i \in 1 .. p + (l + 1) PROVE Placed(M, i, n + 1)
    <3>1. CASE i \in 1 .. p
      <4>1. Placed(M, i, n)
        BY <2>4, <3>1
      <4> QED BY <1>1, <4>1 DEF Placed
    <3>2. CASE i = p + 1
      BY <2>5, <3>2 DEF Placed
    <3>3. CASE i \in p + 2 .. p + (l + 1)
      <4>1. PICK j \in 1 .. l : i = p + (j + 1) /\ i > 1
        <5>1. i > 1
          BY <3>3
        <5> QED BY <2>7, <3>3, <5>1
      <4>2. n + 1 \in 1 .. n + 1
        BY <1>1
      <4> QED BY <2>10, <2>11, <4>1, <4>2 DEF Placed
    <3> QED BY <3>1, <3>2, <3>3
  <2>13. ASSUME NEW k \in 1 .. n + 1, NEW sym \in symbols, Listed(sym, Spaces[k]) PROVE Shows(M, sym, k)
    <3>1. CASE k \in 1 .. n
      BY <2>4, <2>13, <3>1
    <3>2. CASE k = n + 1
      <4>1. PICK i \in 1 .. l : q[i] = sym
        BY <2>1, <2>13, <3>2
      <4>2. p + (i + 1) \in 1 .. Len(M)
        BY <2>4
      <4> QED BY <2>6, <2>9, <3>2, <4>1, <4>2 DEF Shows
    <3> QED BY <1>1, <3>1, <3>2
  <2> QED BY <2>3, <2>4, <2>12, <2>13 DEF Lists
<1> QED BY <1>2, <1>3

\* The file, once the symbols are written.
Table == IsFiniteSet(symbols) /\ Valued(symbols)
         /\ \A sym \in symbols : sym.type \in 0 .. 2 /\ sym.mem_space \in -1 .. 3
         /\ \A s, t \in symbols : s.name = t.name => s = t
AllListed == g_output_symbols /\ chunks # <<>> /\ writer # "lod" => Lists(lod, 5)
SymbolsInv == Table /\ AllListed

LEMMA SymbolsInit == SpecInit => SymbolsInv
<1> SUFFICES ASSUME SpecInit PROVE SymbolsInv
  OBVIOUS
<1>1. writer = "lod"
  BY DEF SpecInit, Init
<1>2. PICK s \in Sources : symbols = s.symbols
  BY DEF SpecInit, Init
<1>3. /\ IsFiniteSet(symbols)
      /\ \A sym \in symbols : /\ sym.type \in 0 .. 2 /\ sym.mem_space \in -1 .. 3
                              /\ sym.val[1] \in Int /\ sym.val[2] \in Nat \ {0}
      /\ \A s1, s2 \in symbols : s1.name = s2.name => s1 = s2
  BY <1>2, SourcesAssumption
<1>4. Valued(symbols)
  <2> SUFFICES ASSUME NEW sym \in symbols PROVE symbol_value(sym) \in Int
    BY DEF Valued
  <2>1. PICK a \in Int, b \in Nat \ {0}, n \in Nat \ {0} : a = sym.val[1] /\ b = sym.val[2] /\ n = IntLimit
    BY <1>3, OutputAssumption
  <2>2. Truncated(sym.val) \in Int
    <3>1. -a \div b \in Int /\ a \div b \in Int
      OBVIOUS
    <3> QED BY <2>1, <3>1 DEF Truncated
  <2>3. AsInt(sym.val[1]) \in Int
    <3>1. a % (2 * n) \in Int
      OBVIOUS
    <3> QED BY <2>1, <3>1 DEF AsInt
  <2> QED BY <2>1, <2>2, <2>3 DEF symbol_value
<1> QED BY <1>1, <1>3, <1>4 DEF SymbolsInv, Table, AllListed

Silent(T) == T \in Seq(LineOf(symbols)) /\ \A i \in 1 .. Len(T) : T[i].kind # "symbol"

LEMMA ListsEnd ==
  ASSUME Table, Portion(lod, BodyKinds), LodEnd, g_output_symbols
  PROVE  Lists(lod', 5)
<1>1. PICK e : e = <<[kind |-> "_END"]>> /\ Silent(e)
  <2>1. PICK x : x = [kind |-> "_END"]
    OBVIOUS
  <2>2. x \in LineOf(symbols) /\ x.kind = "_END"
    BY <2>1 DEF LineOf
  <2>3. <<x>> \in Seq(LineOf(symbols)) /\ Len(<<x>>) = 1 /\ <<x>>[1] = x
    BY <2>2
  <2>4. Silent(<<x>>)
    BY <2>2, <2>3 DEF Silent
  <2> QED BY <2>1, <2>4
<1>2. PICK p \in OutputSymbols(P_MEM), x \in OutputSymbols(X_MEM), y \in OutputSymbols(Y_MEM),
           l \in OutputSymbols(L_MEM), n \in OutputSymbols(L_EQU) :
              lod' = lod \o p \o x \o y \o l \o n \o e
  BY <1>1 DEF LodEnd
<1>3. IsFiniteSet(symbols) /\ Valued(symbols)
  BY DEF Table
<1>4. /\ P_MEM \in Int /\ X_MEM \in Int /\ Y_MEM \in Int /\ L_MEM \in Int /\ L_EQU \in Int
      /\ P_MEM = Spaces[0 + 1] /\ X_MEM = Spaces[1 + 1] /\ Y_MEM = Spaces[2 + 1]
      /\ L_MEM = Spaces[3 + 1] /\ L_EQU = Spaces[4 + 1]
  BY DEF P_MEM, X_MEM, Y_MEM, L_MEM, L_EQU, Spaces
<1>5. /\ 0 \in 0 .. 4 /\ 1 \in 0 .. 4 /\ 2 \in 0 .. 4 /\ 3 \in 0 .. 4 /\ 4 \in 0 .. 4
      /\ 0 + 1 = 1 /\ 1 + 1 = 2 /\ 2 + 1 = 3 /\ 3 + 1 = 4 /\ 4 + 1 = 5 /\ 5 \in Nat
  OBVIOUS
<1>6. Lists(lod \o p, 0 + 1)
  BY <1>2, <1>3, <1>4, <1>5, ListsNone, ListsNext
<1>7. Lists(lod \o p \o x, 1 + 1)
  BY <1>2, <1>3, <1>4, <1>5, <1>6, ListsNext
<1>8. Lists(lod \o p \o x \o y, 2 + 1)
  BY <1>2, <1>3, <1>4, <1>5, <1>7, ListsNext
<1>9. Lists(lod \o p \o x \o y \o l, 3 + 1)
  BY <1>2, <1>3, <1>4, <1>5, <1>8, ListsNext
<1>10. Lists(lod \o p \o x \o y \o l \o n, 4 + 1)
  BY <1>2, <1>3, <1>4, <1>5, <1>9, ListsNext
<1>11. Lists(lod \o p \o x \o y \o l \o n \o e, 5)
  BY <1>1, <1>5, <1>10, ListsWithout DEF Silent
<1> QED BY <1>2, <1>11

LEMMA SameLists ==
  ASSUME UNCHANGED symbols
  PROVE  (Table' <=> Table) /\ \A L, n : Lists(L, n)' <=> Lists(L, n)
<1>1. \A syms : (Valued(syms)' <=> Valued(syms)) /\ (Near(syms)' <=> Near(syms))
  BY DEF Valued, Near
<1>2. Table' <=> Table
  BY DEF Table, Valued
<1>3. \A L, n : Lists(L, n)' <=> Lists(L, n)
  BY DEF Lists, Placed, Shows, Has, Ordered, Near
<1> QED BY <1>2, <1>3

LEMMA SymbolsNext ==
  ASSUME Files, Listing, SymbolsInv, [Next]_vars
  PROVE  SymbolsInv'
<1>1. At /\ Len(chunks) \in Nat
  BY DEF Files, At
<1>2. CASE LodEnd
  <2>1. UNCHANGED Source /\ UNCHANGED <<symbols, g_output_symbols>> /\ writer = "lod" /\ chunk = Len(chunks) + 1
    BY <1>2 DEF LodEnd, AtEnd, Source
  <2>2. chunk - 1 = Len(chunks) /\ chunk # 0
    BY <1>1, <2>1
  <2>3. Portion(lod, BodyKinds)
    BY <2>1, <2>2 DEF Listing, LodBody
  <2>4. g_output_symbols => Lists(lod', 5)
    BY <1>2, <2>3, ListsEnd DEF SymbolsInv
  <2>5. PICK L : L = lod'
    OBVIOUS
  <2>6. g_output_symbols => Lists(L, 5)'
    BY <2>1, <2>4, <2>5, SameLists
  <2>7. Table'
    BY <2>1, SameLists DEF SymbolsInv
  <2>8. AllListed'
    BY <2>1, <2>5, <2>6 DEF AllListed
  <2> QED BY <2>7, <2>8 DEF SymbolsInv
<1>3. ASSUME UNCHANGED Source,
             \/ UNCHANGED lod /\ (writer = "lod" => writer' = "lod")
             \/ writer' = "lod" \/ chunks = <<>>
      PROVE  SymbolsInv'
  <2>1. UNCHANGED <<symbols, g_output_symbols, chunks>>
    BY <1>3 DEF Source
  <2>2. Table'
    BY <2>1, SameLists DEF SymbolsInv
  <2>3. ASSUME UNCHANGED lod, writer # "lod" PROVE AllListed'
    <3>1. PICK L : L = lod /\ L = lod'
      BY <2>3
    <3>2. Lists(L, 5)' <=> Lists(L, 5)
      BY <2>1, SameLists
    <3> QED BY <2>1, <2>3, <3>1, <3>2 DEF SymbolsInv, AllListed
  <2>4. ASSUME writer' = "lod" \/ chunks = <<>> PROVE AllListed'
    BY <2>1, <2>4 DEF AllListed
  <2>5. AllListed'
    BY <1>3, <2>3, <2>4
  <2> QED BY <2>2, <2>5 DEF SymbolsInv
<1>4. CASE SaveFileLod
  BY <1>3, <1>4 DEF SaveFileLod, Source
<1>5. CASE LodChunk
  BY <1>3, <1>5 DEF LodChunk, AtChunk, Source
<1>6. CASE SaveFileP56 \/ P56Chunk \/ P56End \/ SaveFileEmbeded \/ AsmChunk \/ AsmEnd \/ SaveFileEmbededC \/ CChunk \/ CEnd
  <2>1. writer # "lod" /\ UNCHANGED <<Source, lod>>
    BY <1>6 DEF SaveFileP56, P56Chunk, P56End, SaveFileEmbeded, AsmChunk, AsmEnd, SaveFileEmbededC, CChunk, CEnd,
                AtChunk, AtEnd, Go
  <2> QED BY <1>3, <2>1
<1>7. CASE UNCHANGED outputVars
  BY <1>3, <1>7 DEF outputVars, Source
<1>8. CASE ConvertFile
  <2>1. UNCHANGED outputVars
    BY <1>8 DEF ConvertFile, Seek, OtherToken, EndToken, DataToken, Convert, Misread, Overread
  <2> QED BY <1>7, <2>1
<1>9. [Next]_vars => Save \/ ConvertFile \/ UNCHANGED outputVars
  BY DEF Next, Saving, vars
<1> QED BY <1>2, <1>4, <1>5, <1>6, <1>7, <1>8, <1>9 DEF Save

\* A line is under one header.
LEMMA OneHeader ==
  ASSUME NEW L, NEW i \in Nat, NEW s, NEW t, Under(L, i, s), Under(L, i, t)
  PROVE  s = t
<1>1. PICK h : Heads(L, h, i, s)
  BY DEF Under
<1>2. PICK g : Heads(L, g, i, t)
  BY DEF Under
<1>3. ListHeader(s).kind = "_SYMBOL" /\ ListHeader(t).kind = "_SYMBOL" /\ ListHeader(s).space = s /\ ListHeader(t).space = t
  BY DEF ListHeader
<1>4. h \in 1 .. i /\ g \in 1 .. i /\ L[h].kind = "_SYMBOL" /\ L[g].kind = "_SYMBOL"
  BY <1>1, <1>2, <1>3 DEF Heads
<1>5. ~(h < g)
  <2> SUFFICES ASSUME h < g PROVE FALSE
    OBVIOUS
  <2>1. g \in h + 1 .. i
    BY <1>4
  <2> QED BY <1>1, <1>4, <2>1 DEF Heads
<1>6. ~(g < h)
  <2> SUFFICES ASSUME g < h PROVE FALSE
    OBVIOUS
  <2>1. h \in g + 1 .. i
    BY <1>4
  <2> QED BY <1>2, <1>4, <2>1 DEF Heads
<1>7. g = h
  BY <1>4, <1>5, <1>6
<1> QED BY <1>1, <1>2, <1>3, <1>7 DEF Heads

LEMMA UnderMeans ==
  ASSUME lod \in Seq(LineOf(symbols)), NEW space
  PROVE  SymbolsOf(space) = {lod[i] : i \in {k \in 1 .. Len(lod) : lod[k].kind = "symbol" /\ Under(lod, k, space)}}
<1>1. DOMAIN lod = 1 .. Len(lod)
  OBVIOUS
<1>2. \A k : Under(lod, k, space) <=> \E h \in 1 .. k : /\ lod[h] = [kind |-> "_SYMBOL", space |-> space]
                                                       /\ \A m \in h + 1 .. k : lod[m].kind = "symbol"
  BY DEF Under, Heads, ListHeader
<1> QED BY <1>1, <1>2 DEF SymbolsOf

Meant(sym) == IF sym.type = T_PTR THEN sym.mem_space ELSE IF sym.type = T_VALUE THEN L_EQU ELSE -1
LEMMA MeantListed ==
  ASSUME NEW sym, sym.type \in 0 .. 2, sym.mem_space \in -1 .. 3, NEW i \in 1 .. 5, Spaces[i] = L_MEM => sym.type = T_PTR
  PROVE  Listed(sym, Spaces[i]) <=> Spaces[i] = Meant(sym)
<1>1. \/ Spaces[i] = 0 \/ Spaces[i] = 1 \/ Spaces[i] = 2 \/ Spaces[i] = 3 \/ Spaces[i] = 4
  BY DEF Spaces, P_MEM, X_MEM, Y_MEM, L_MEM, L_EQU
<1> QED BY <1>1 DEF Listed, Meant, P_MEM, X_MEM, Y_MEM, L_MEM, L_EQU, T_PTR, T_VALUE

LEMMA ListedExact ==
  ASSUME Listing, SymbolsInv
  PROVE  SymbolsListed
<1> SUFFICES ASSUME Finished, g_output_symbols, chunks # <<>>
             PROVE  /\ \A sym \in symbols : \A i \in DOMAIN Spaces :
                          (Spaces[i] = L_MEM => sym.type = T_PTR) =>
                              (SymbolLine(sym) \in SymbolsOf(Spaces[i]) <=> Spaces[i] = Meant(sym))
                    /\ \A i \in DOMAIN lod : lod[i].kind = "symbol" /\ lod[i - 1].kind = "symbol" =>
                          \/ lod[i - 1].value <= lod[i].value
                          \/ \E s, t \in symbols : symbol_value(s) - symbol_value(t) >= IntLimit
  BY DEF SymbolsListed, SymbolLine, Meant
<1>1. Lists(lod, 5) /\ Table
  BY DEF SymbolsInv, AllListed, Finished
<1>2. lod \in Seq(LineOf(symbols)) /\ DOMAIN lod = 1 .. Len(lod) /\ DOMAIN Spaces = 1 .. 5
  BY <1>1 DEF Lists, Spaces
<1>3. ASSUME NEW sym \in symbols, NEW i \in 1 .. 5, Spaces[i] = L_MEM => sym.type = T_PTR
      PROVE  SymbolLine(sym) \in SymbolsOf(Spaces[i]) <=> Spaces[i] = Meant(sym)
  <2>1. Listed(sym, Spaces[i]) <=> Spaces[i] = Meant(sym)
    BY <1>1, <1>3, MeantListed DEF Table
  <2>2. SymbolsOf(Spaces[i]) = {lod[k] : k \in {j \in 1 .. Len(lod) : lod[j].kind = "symbol" /\ Under(lod, j, Spaces[i])}}
    BY <1>2, UnderMeans
  <2>3. ASSUME Listed(sym, Spaces[i]) PROVE SymbolLine(sym) \in SymbolsOf(Spaces[i])
    <3>1. PICK j \in 1 .. Len(lod) : IsOf(lod, j, sym) /\ Under(lod, j, Spaces[i])
      BY <1>1, <2>3 DEF Lists, Shows
    <3>2. lod[j] = SymbolLine(sym) /\ lod[j].kind = "symbol"
      BY <3>1, SymbolLineParts DEF IsOf
    <3> QED BY <2>2, <3>1, <3>2
  <2>4. ASSUME SymbolLine(sym) \in SymbolsOf(Spaces[i]) PROVE Listed(sym, Spaces[i])
    <3>1. PICK j \in 1 .. Len(lod) : SymbolLine(sym) = lod[j] /\ lod[j].kind = "symbol" /\ Under(lod, j, Spaces[i])
      BY <2>2, <2>4
    <3>2. PICK k \in 1 .. 5 : Has(lod, j, k)
      BY <1>1, <3>1 DEF Lists, Placed
    <3>3. PICK other \in symbols : Listed(other, Spaces[k]) /\ IsOf(lod, j, other) /\ Under(lod, j, Spaces[k])
      BY <3>2 DEF Has
    <3>4. lod[j].name = sym.name /\ lod[j].name = other.name
      BY <3>1, <3>3, SymbolLineParts DEF IsOf
    <3>5. other = sym
      BY <1>1, <3>4 DEF Table
    <3>6. Spaces[k] = Spaces[i]
      BY <3>1, <3>3, OneHeader
    <3> QED BY <3>3, <3>5, <3>6
  <2> QED BY <2>1, <2>3, <2>4
<1>4. ASSUME NEW i \in 1 .. Len(lod), lod[i].kind = "symbol", lod[i - 1].kind = "symbol",
             ~(lod[i - 1].value <= lod[i].value)
      PROVE  \E s, t \in symbols : symbol_value(s) - symbol_value(t) >= IntLimit
  <2>1. ~Near(symbols)
    BY <1>1, <1>4 DEF Lists, Placed, Ordered
  <2>2. PICK s \in symbols, t \in symbols : ~(symbol_value(s) - symbol_value(t) < IntLimit)
    BY <2>1 DEF Near
  <2>3. symbol_value(s) \in Int /\ symbol_value(t) \in Int /\ IntLimit \in Int
    BY <1>1, OutputAssumption DEF Table, Valued
  <2>4. symbol_value(s) - symbol_value(t) >= IntLimit
    BY <2>2, <2>3
  <2> QED BY <2>4
<1> QED BY <1>2, <1>3, <1>4

\* Every label is listed once, under its memory space, every value once under N, no macro
\* is, and each list rises, however many symbols there are and whatever qsort leaves of
\* equal ones: unless two values are more than an int apart (OutputLod.c, LOD_OutputSymbols).
THEOREM SymbolsInOrder == Spec => []SymbolsListed
<1>1. Files /\ Listing /\ SymbolsInv /\ [Next]_vars => SymbolsInv'
  BY SymbolsNext
<1>2. Listing /\ SymbolsInv => SymbolsListed
  BY ListedExact
<1> QED BY <1>1, <1>2, ListingAlways, SymbolsInit, PTL DEF Spec

================================================================================
