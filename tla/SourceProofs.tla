------------------------------ MODULE SourceProofs -----------------------------
(***************************************************************************)
(* Theorems about fetching: whatever the files hold and however they include *)
(* one another, the tokens that are stored are the text with the included   *)
(* files in their places (FetchExact), and the blocks, the files and the    *)
(* streams stay within their arrays (TypeOK).                              *)
(***************************************************************************)
EXTENDS SourceSpec, SequenceLemmas

Sequence(s) == \E S : s \in Seq(S)

Token == {<<"leave">>, <<"end">>} \cup Pieces \cup ({"eol"} \X Nat) \cup ({"enter"} \X Files)
         \cup ({"code"} \X BOOLEAN \X (Files \X Nat))

\* Every block but the last is full and ends in the pointer to the next.
Linked(b) == \E s \in Seq(Token) : Len(s) = TOKENS_BLOCK - 2 /\ b = Append(s, NewPtr)
Chained(bs) ==
    /\ Sequence(bs) /\ Len(bs) > 0
    /\ \A n \in 1 .. Len(bs) - 1 : Linked(bs[n])
    /\ bs[Len(bs)] \in Seq(Token) /\ Len(bs[Len(bs)]) <= TOKENS_BLOCK - 2

\* A file that is open has not been read beyond its end, or the END in it; and what
\* was last read of it is what has opened the next.
ReadTo(f, k) == k <= Len(source[f]) + 1 /\ \A j \in 1 .. k - 1 : source[f][j][1] # "end"
OpenedAt(f, k, g) == k > 1 /\ Opens(f, k - 1) /\ source[f][k - 1][2] = g
Reads(b) == ReadTo(b.file, b.at)
Includes(b, f) == OpenedAt(b.file, b.at, f)
Places == [file : Files, at : Nat \ {0}]
Nested(bs) ==
    /\ bs \in Seq(Places) /\ Len(bs) \in 1 .. MAX_INCLUDES_NESTED
    /\ bs[1].file = Main
    /\ \A i \in 1 .. Len(bs) : Reads(bs[i])
    /\ \A i \in 1 .. Len(bs) - 1 : Includes(bs[i], bs[i + 1].file)

\* What the pieces before the k-th bring; what has been stored of the files that are
\* open, of which all but the last wait for the one that they include.
Before(d, f, k) == FlattenSeq([j \in 1 .. k - 1 |-> Brings(UpTo, d, f, j)])
OfFile(bs, i, at) == (IF i = 1 THEN << >> ELSE << <<"enter", bs[i].file>> >>)
                   \o Before(MAX_INCLUDES_NESTED + 1 - i, bs[i].file, at)
Waiting(bs) == FlattenSeq([i \in 1 .. Len(bs) - 1 |-> OfFile(bs, i, bs[i].at - 1)])
Shown(bs) == Waiting(bs) \o OfFile(bs, Len(bs), bs[Len(bs)].at)

\* The lines of the files that wait, and the one that is read.
LinesKept(bs, lns, line) ==
    /\ lns \in [0 .. MAX_INCLUDES_NESTED - 1 -> Int]
    /\ \A i \in 1 .. Len(bs) - 1 : lns[i - 1] = LineOf(bs[i].file, bs[i].at)
    /\ line = LineOf(bs[Len(bs)].file, bs[Len(bs)].at)

Gets(bs, depth, lns, line, tokens) ==
    /\ Nested(bs) /\ Len(bs) = depth + 1
    /\ LinesKept(bs, lns, line)
    /\ tokens = Shown(bs)
Reading == phase = "fetch" => Gets(buffers, g_incStackDeepth, inc_lines, g_currentLine, Tokens)

Fetched ==
    phase = "parse" =>
        /\ Tokens = Expanded /\ buffers = << >>
        /\ Sequence(streamsStack) /\ Len(streamsStack) \in 1 .. MAX_INCLUDES_NESTED

Modes ==
    /\ phase \in {"fetch", "parse"} /\ g_passNum \in 0 .. 1 /\ g_errorCount \in BOOLEAN
    /\ status \in {"run", "done", "rejected", "aborted", "crashed", "overrun", "wild"}
    /\ mode \in {"line", "late", "macro", "args", "skipmacro", "skipcond", "skipline"} /\ nest \in Nat
    /\ IsLevel(g_incStackDeepth) /\ source \in Sources
    /\ phase = "fetch" => streamsStack = << >>

IInv == Modes /\ Chained(blocks) /\ Reading /\ Fetched
----------------------------------------------------------------------------
(* Blocks.                                                                 *)

LEMMA NoPointer == NewPtr \notin Token
<1>1. \A t \in Token : t[1] # "newptr"
  BY DEF Token, Pieces
<1> QED BY <1>1 DEF NewPtr

LEMMA AppendSequence ==
  ASSUME NEW s, Sequence(s), NEW x
  PROVE  /\ Sequence(Append(s, x)) /\ Len(Append(s, x)) = Len(s) + 1 /\ Len(s) \in Nat
         /\ \A n \in 1 .. Len(s) : Append(s, x)[n] = s[n]
         /\ Append(s, x)[Len(s) + 1] = x
<1>1. PICK S : s \in Seq(S)
  BY DEF Sequence
<1> DEFINE U == S \cup {x}
<1>2. s \in Seq(U) /\ x \in U
  <2>1. S \subseteq U
    OBVIOUS
  <2> HIDE DEF U
  <2> QED BY <1>1, <2>1, SeqMonotonic DEF U
<1>3. Append(s, x) \in Seq(U)
  <2> HIDE DEF U
  <2> QED BY <1>2
<1>4. Sequence(Append(s, x))
  <2> HIDE DEF U
  <2> QED BY <1>3 DEF Sequence
<1> QED BY <1>1, <1>4

Replaces(r, s, i, x) == r = [s EXCEPT ![i] = x]

LEMMA ExceptSequence ==
  ASSUME NEW s, Sequence(s), NEW i \in 1 .. Len(s), NEW x, NEW r, Replaces(r, s, i, x)
  PROVE  /\ Sequence(r) /\ Len(r) = Len(s) /\ Len(s) \in Nat
         /\ \A n \in 1 .. Len(s) : r[n] = IF n = i THEN x ELSE s[n]
<1>1. PICK S : s \in Seq(S)
  BY DEF Sequence
<1> DEFINE U == S \cup {x}
<1>2. s \in Seq(U) /\ x \in U
  <2>1. S \subseteq U
    OBVIOUS
  <2> HIDE DEF U
  <2> QED BY <1>1, <2>1, SeqMonotonic DEF U
<1>3. r \in Seq(U) /\ Len(r) = Len(s) /\ \A n \in 1 .. Len(s) : r[n] = IF n = i THEN x ELSE s[n]
  <2> HIDE DEF U
  <2> QED BY <1>2, ExceptSeq DEF Replaces
<1>4. Sequence(r)
  <2> QED BY <1>3 DEF Sequence
<1> QED BY <1>1, <1>3, <1>4

LEMMA FrontAppended ==
  ASSUME NEW S, NEW s \in Seq(S), NEW x
  PROVE  Front(Append(s, x)) = s /\ Last(Append(s, x)) = x
<1>1. PICK n \in Nat : n = Len(s)
  OBVIOUS
<1>2. Len(Append(s, x)) = n + 1 /\ Append(s, x)[n + 1] = x /\ \A i \in 1 .. n : Append(s, x)[i] = s[i]
  BY <1>1
<1>3. SubSeq(Append(s, x), 1, n) = s
  <2>1. \A i \in 1 .. n : Append(s, x)[i] \in S
    BY <1>1, <1>2
  <2> DEFINE r == SubSeq(Append(s, x), 1, n)
  <2>2. r \in Seq(S) /\ Len(r) = n /\ \A i \in 1 .. n : r[i] = Append(s, x)[i]
    <3>1. 1 \in Int /\ n \in Int
      OBVIOUS
    <3>2. r \in Seq(S)
      BY <2>1, <3>1, SubSeqProperties
    <3> QED BY <1>1, <1>2
  <2> HIDE DEF r
  <2>4. r = s
    BY <1>1, <1>2, <2>2, SeqEqual
  <2> QED BY <2>4 DEF r
<1> QED BY <1>2, <1>3 DEF Front, Last

LEMMA LinkedBlock ==
  ASSUME NEW b, Linked(b)
  PROVE  /\ Front(b) \in Seq(Token) /\ Len(b) = TOKENS_BLOCK - 1 /\ Last(b) = NewPtr
         /\ \A k \in 1 .. TOKENS_BLOCK - 2 : b[k] # NewPtr
<1>1. PICK s \in Seq(Token) : Len(s) = TOKENS_BLOCK - 2 /\ b = Append(s, NewPtr)
  BY DEF Linked
<1>2. TOKENS_BLOCK \in Nat /\ TOKENS_BLOCK > 2
  BY SourceAssumption
<1>3. Len(b) = TOKENS_BLOCK - 1 /\ \A k \in 1 .. TOKENS_BLOCK - 2 : b[k] = s[k] /\ s[k] \in Token
  BY <1>1, <1>2
<1> QED BY <1>1, <1>3, FrontAppended, NoPointer

\* The tokens of some blocks.
Held(bs) == [n \in DOMAIN bs |-> IF n < Len(bs) THEN Front(bs[n]) ELSE bs[n]]

LEMMA HeldTypes ==
  ASSUME NEW bs, Chained(bs)
  PROVE  /\ Held(bs) \in Seq(Seq(Token)) /\ Len(Held(bs)) = Len(bs) /\ Len(bs) \in Nat \ {0}
         /\ \A n \in 1 .. Len(bs) - 1 : Held(bs)[n] = Front(bs[n]) /\ Front(bs[n]) \in Seq(Token)
         /\ Held(bs)[Len(bs)] = bs[Len(bs)]
<1>1. PICK n \in Nat \ {0} : Len(bs) = n /\ DOMAIN bs = 1 .. n
  BY DEF Chained, Sequence
<1>2. \A i \in 1 .. n - 1 : Front(bs[i]) \in Seq(Token)
  BY <1>1, LinkedBlock DEF Chained
<1>3. bs[n] \in Seq(Token)
  BY <1>1 DEF Chained
<1>4. Held(bs) = [i \in 1 .. n |-> IF i < n THEN Front(bs[i]) ELSE bs[i]]
  BY <1>1 DEF Held
<1>5. \A i \in 1 .. n : (i < n => i \in 1 .. n - 1) /\ (~(i < n) => i = n)
  OBVIOUS
<1>6. \A i \in 1 .. n : Held(bs)[i] \in Seq(Token)
  BY <1>2, <1>3, <1>4, <1>5
<1>7. Held(bs) \in [1 .. n -> Seq(Token)]
  BY <1>4, <1>6
<1>8. Held(bs) \in Seq(Seq(Token)) /\ Len(Held(bs)) = n
  <2> DEFINE S == Seq(Token)
  <2>1. Held(bs) \in [1 .. n -> S]
    BY <1>7
  <2> HIDE DEF S
  <2>2. Held(bs) \in Seq(S)
    BY <2>1, SeqDef
  <2>3. Len(Held(bs)) = n
    BY <2>1
  <2> QED BY <2>2, <2>3 DEF S
<1> QED BY <1>1, <1>2, <1>4, <1>8

LEMMA TokensHeld == Tokens = FlattenSeq(Held(blocks))
BY DEF Tokens, Held

\* A token behind the others, in the last block or in a new one.
Extended(bs, t) ==
    IF Full(bs[Len(bs)]) THEN Append([bs EXCEPT ![Len(bs)] = Append(@, NewPtr)], <<t>>)
    ELSE [bs EXCEPT ![Len(bs)] = Append(@, t)]

LEMMA LowerHeld ==
  ASSUME NEW bs, Chained(bs)
  PROVE  \E l \in Seq(Seq(Token)) : /\ Len(l) = Len(bs) - 1 /\ Held(bs) = Append(l, bs[Len(bs)])
                                    /\ \A n \in 1 .. Len(bs) - 1 : l[n] = Front(bs[n])
<1> DEFINE S == Seq(Token)
<1> HIDE DEF S
<1>1. PICK n \in Nat \ {0}, h \in Seq(S) : /\ n = Len(bs) /\ h = Held(bs) /\ Len(h) = n /\ h[n] = bs[Len(bs)]
                                          /\ \A i \in 1 .. n - 1 : h[i] = Front(bs[i])
  BY HeldTypes DEF S
<1>2. h # <<>>
  BY <1>1
<1>3. PICK l \in Seq(S), e \in S : h = Append(l, e)
  BY <1>2, SequenceEmptyOrAppend
<1>4. PICK k \in Nat : k = Len(l)
  OBVIOUS
<1>5. Len(h) = k + 1 /\ h[k + 1] = e /\ \A i \in 1 .. k : h[i] = l[i]
  BY <1>3, <1>4
<1>6. k = n - 1 /\ e = bs[Len(bs)]
  BY <1>1, <1>5
<1> QED BY <1>1, <1>3, <1>4, <1>5, <1>6 DEF S

LEMMA HeldAgain ==
  ASSUME NEW bs, Chained(bs), NEW l \in Seq(Seq(Token)), Len(l) = Len(bs) - 1,
         \A n \in 1 .. Len(bs) - 1 : l[n] = Front(bs[n])
  PROVE  Held(bs) = Append(l, bs[Len(bs)])
<1> DEFINE S == Seq(Token)
<1>1. PICK k \in Seq(Seq(Token)) : /\ Len(k) = Len(bs) - 1 /\ Held(bs) = Append(k, bs[Len(bs)])
                                   /\ \A n \in 1 .. Len(bs) - 1 : k[n] = Front(bs[n])
  BY LowerHeld
<1>2. k \in Seq(S) /\ l \in Seq(S) /\ Len(k) = Len(l) /\ \A n \in 1 .. Len(k) : k[n] = l[n]
  BY <1>1
<1> HIDE DEF S
<1>3. k = l
  BY <1>2, SeqEqual
<1> QED BY <1>1, <1>3

LEMMA InBlock ==
  ASSUME NEW bs, Chained(bs), NEW t \in Token, ~Full(bs[Len(bs)])
  PROVE  Chained(Extended(bs, t)) /\ FlattenSeq(Held(Extended(bs, t))) = Append(FlattenSeq(Held(bs)), t)
<1> DEFINE S == Token
<1> HIDE DEF S
<1>0. PICK n \in Nat \ {0} : n = Len(bs)
  BY HeldTypes
<1>a. PICK b \in Seq(S) : b = bs[n] /\ Len(b) <= TOKENS_BLOCK - 2
  BY <1>0 DEF Chained, S
<1>b. PICK r : r = Extended(bs, t)
  OBVIOUS
<1>1. /\ n = Len(bs) /\ b = bs[n] /\ Len(b) <= TOKENS_BLOCK - 2
      /\ r = Extended(bs, t) /\ r = [bs EXCEPT ![n] = Append(b, t)]
  BY <1>0, <1>a, <1>b DEF Extended
<1>2. TOKENS_BLOCK \in Nat /\ Sequence(bs) /\ n \in 1 .. Len(bs)
  BY <1>1, SourceAssumption DEF Chained
<1>c. /\ Sequence(r) /\ Len(r) = n
      /\ \A i \in 1 .. n : r[i] = IF i = n THEN Append(b, t) ELSE bs[i]
  <2>1. PICK e : e = Append(b, t)
    OBVIOUS
  <2>2. Replaces(r, bs, n, e)
    BY <1>1, <2>1 DEF Replaces
  <2>3. /\ Sequence(r) /\ Len(r) = Len(bs)
        /\ \A i \in 1 .. Len(bs) : r[i] = IF i = n THEN e ELSE bs[i]
    BY <1>2, <2>2, ExceptSequence
  <2> QED BY <1>1, <2>1, <2>3
<1>3. /\ Sequence(r) /\ Len(r) = n /\ r[n] = Append(b, t)
      /\ \A i \in 1 .. n - 1 : r[i] = bs[i]
  BY <1>c
<1>4. Append(b, t) \in Seq(S) /\ Len(Append(b, t)) = Len(b) + 1 /\ Len(b) \in Nat /\ Len(b) # TOKENS_BLOCK - 2
  BY <1>1 DEF Full, S
<1>5. Len(Append(b, t)) <= TOKENS_BLOCK - 2
  BY <1>1, <1>2, <1>4
<1>6. Chained(r)
  BY <1>1, <1>3, <1>4, <1>5 DEF Chained, S
<1>7. PICK l \in Seq(Seq(S)) : /\ Len(l) = n - 1 /\ Held(bs) = Append(l, b)
                               /\ \A i \in 1 .. n - 1 : l[i] = Front(bs[i])
  BY <1>1, LowerHeld DEF S
<1>8. Held(r) = Append(l, Append(b, t))
  BY <1>3, <1>6, <1>7, HeldAgain DEF S
<1>9. FlattenSeq(Held(r)) = FlattenSeq(l) \o Append(b, t) /\ FlattenSeq(Held(bs)) = FlattenSeq(l) \o b
  BY <1>4, <1>7, <1>8, FlattenAppend
<1>10. PICK x \in Seq(S) : x = FlattenSeq(l)
  BY FlattenType
<1>11. x \o Append(b, t) = Append(x \o b, t)
  OBVIOUS
<1> QED BY <1>1, <1>6, <1>9, <1>10, <1>11

LEMMA BehindBlock ==
  ASSUME NEW bs, Chained(bs), NEW t \in Token, Full(bs[Len(bs)])
  PROVE  Chained(Extended(bs, t)) /\ FlattenSeq(Held(Extended(bs, t))) = Append(FlattenSeq(Held(bs)), t)
<1> DEFINE S == Token
<1> HIDE DEF S
<1>0. PICK n \in Nat \ {0} : n = Len(bs)
  BY HeldTypes
<1>a. PICK b \in Seq(S) : b = bs[n] /\ Len(b) = TOKENS_BLOCK - 2
  BY <1>0 DEF Chained, S, Full
<1>b. PICK c, r : c = [bs EXCEPT ![n] = Append(b, NewPtr)] /\ r = Extended(bs, t)
  OBVIOUS
<1>1. /\ n = Len(bs) /\ b = bs[n] /\ Len(b) = TOKENS_BLOCK - 2
      /\ c = [bs EXCEPT ![n] = Append(b, NewPtr)]
      /\ r = Extended(bs, t) /\ r = Append(c, <<t>>)
  BY <1>0, <1>a, <1>b DEF Extended
<1>2. TOKENS_BLOCK \in Nat /\ TOKENS_BLOCK > 2 /\ Sequence(bs) /\ n \in 1 .. Len(bs)
  BY <1>1, SourceAssumption DEF Chained
<1>c. /\ Sequence(c) /\ Len(c) = n
      /\ \A i \in 1 .. n : c[i] = IF i = n THEN Append(b, NewPtr) ELSE bs[i]
  <2>1. PICK e : e = Append(b, NewPtr)
    OBVIOUS
  <2>2. Replaces(c, bs, n, e)
    BY <1>1, <2>1 DEF Replaces
  <2>3. /\ Sequence(c) /\ Len(c) = Len(bs)
        /\ \A i \in 1 .. Len(bs) : c[i] = IF i = n THEN e ELSE bs[i]
    BY <1>2, <2>2, ExceptSequence
  <2> QED BY <1>1, <2>1, <2>3
<1>3. /\ Sequence(c) /\ Len(c) = n /\ c[n] = Append(b, NewPtr)
      /\ \A i \in 1 .. n - 1 : c[i] = bs[i]
  BY <1>c
<1>4. /\ Sequence(r) /\ Len(r) = n + 1 /\ r[n + 1] = <<t>>
      /\ \A i \in 1 .. n : r[i] = c[i]
  BY <1>1, <1>3, AppendSequence
<1>5. Linked(Append(b, NewPtr))
  BY <1>1 DEF Linked, S
<1>6. \A i \in 1 .. n : Linked(r[i])
  BY <1>1, <1>3, <1>4, <1>5 DEF Chained
<1>7. <<t>> \in Seq(S) /\ Len(<<t>>) = 1 /\ 1 <= TOKENS_BLOCK - 2
  BY <1>2 DEF S
<1>8. Chained(r)
  BY <1>4, <1>6, <1>7 DEF Chained, S
<1>9. PICK h \in Seq(Seq(S)) : /\ h = Held(bs) /\ Len(h) = n /\ h[n] = b
                               /\ \A i \in 1 .. n - 1 : h[i] = Front(bs[i])
  BY <1>1, HeldTypes DEF S
<1>10. \A i \in 1 .. n : h[i] = Front(r[i])
  <2>1. Front(r[n]) = b
    <3>1. r[n] = Append(b, NewPtr)
      BY <1>3, <1>4
    <3> QED BY <3>1, FrontAppended
  <2>2. \A i \in 1 .. n - 1 : r[i] = bs[i]
    BY <1>3, <1>4
  <2> QED BY <1>9, <2>1, <2>2
<1>11. Held(r) = Append(h, <<t>>)
  BY <1>4, <1>8, <1>9, <1>10, HeldAgain DEF S
<1>12. FlattenSeq(Held(r)) = FlattenSeq(h) \o <<t>>
  BY <1>7, <1>11, FlattenAppend
<1>13. FlattenSeq(h) \in Seq(S) /\ t \in S
  BY FlattenType DEF S
<1>14. FlattenSeq(h) \o <<t>> = Append(FlattenSeq(h), t)
  BY <1>13, AppendIsConcat
<1> QED BY <1>1, <1>8, <1>9, <1>12, <1>14

\* What is stored keeps the blocks, and comes behind all there is.
LEMMA StoredToken ==
  ASSUME Chained(blocks), NEW t \in Token
  PROVE  Chained(Stored(t)) /\ FlattenSeq(Held(Stored(t))) = Append(Tokens, t)
<1>1. Stored(t) = Extended(blocks, t)
  BY DEF Stored, Extended
<1> QED BY <1>1, InBlock, BehindBlock, TokensHeld

----------------------------------------------------------------------------
(* The text.                                                               *)

LEMMA SourceTyped ==
  ASSUME source \in Sources
  PROVE  /\ source \in [Files -> Seq(Pieces)]
         /\ \A f \in Files : source[f] \in Seq(Pieces) /\ Len(source[f]) \in Nat
         /\ \A f \in Files : \A k \in 1 .. Len(source[f]) : source[f][k] \in Pieces
<1>1. source \in [Files -> Seq(Pieces)]
  BY SourceAssumption
<1>2. \A f \in Files : source[f] \in Seq(Pieces)
  BY <1>1
<1> DEFINE S == Pieces
<1> HIDE DEF S
<1>3. \A f \in Files : source[f] \in Seq(S)
  BY <1>2 DEF S
<1>4. \A f \in Files : Len(source[f]) \in Nat /\ \A k \in 1 .. Len(source[f]) : source[f][k] \in S
  BY <1>3
<1> QED BY <1>1, <1>2, <1>4 DEF S

\* The lines of n places, each behind one piece of s.
Counts(l, s, n) == l = [j \in 1 .. n |-> IF j = 1 THEN 1 ELSE l[j - 1] + NewLines(s[j - 1])]

LEMMA CountExists ==
  ASSUME NEW s, NEW n \in Nat
  PROVE  \E l : Counts(l, s, n)
<1> DEFINE T == {m \in Nat : ~(\E l : Counts(l, s, m))}
<1>1. SUFFICES ASSUME T # {} PROVE FALSE
  OBVIOUS
<1>2. PICK m \in T : \A k \in T : m <= k
  <2>1. T \in SUBSET Nat
    OBVIOUS
  <2> HIDE DEF T
  <2> QED BY <1>1, <2>1, LeastNatural
<1>3. m \in Nat /\ ~(\E l : Counts(l, s, m))
  OBVIOUS
<1>4. m # 0
  <2>1. Counts([j \in {} |-> {}], s, 0)
    BY DEF Counts
  <2> QED BY <1>3, <2>1
<1>5. PICK l : Counts(l, s, m - 1)
  <2>1. m - 1 \in Nat /\ m - 1 \notin T
    <3> HIDE DEF T
    <3> QED BY <1>2, <1>3, <1>4
  <2> QED BY <2>1
<1> DEFINE g == [j \in 1 .. m |-> IF j = m THEN (IF m = 1 THEN 1 ELSE l[m - 1] + NewLines(s[m - 1])) ELSE l[j]]
<1>6. \A j \in 1 .. m : g[j] = IF j = 1 THEN 1 ELSE g[j - 1] + NewLines(s[j - 1])
  <2> TAKE j \in 1 .. m
  <2>1. \A k \in 1 .. m - 1 : l[k] = IF k = 1 THEN 1 ELSE l[k - 1] + NewLines(s[k - 1])
    BY <1>5 DEF Counts
  <2>2. j # 1 => j - 1 \in 1 .. m - 1 /\ g[j - 1] = l[j - 1]
    BY <1>3
  <2>3. j # m => j \in 1 .. m - 1 /\ g[j] = l[j]
    BY <1>3
  <2>4. g[m] = IF m = 1 THEN 1 ELSE l[m - 1] + NewLines(s[m - 1])
    BY <1>3, <1>4
  <2> HIDE DEF g, T
  <2> QED BY <2>1, <2>2, <2>3, <2>4
<1>7. Counts(g, s, m)
  <2>1. g = [j \in 1 .. m |-> g[j]]
    OBVIOUS
  <2> HIDE DEF g, T
  <2> QED BY <1>6, <2>1 DEF Counts
<1> QED BY <1>3, <1>7

LEMMA NewLinesNatural == ASSUME NEW p \in Pieces PROVE NewLines(p) \in Nat
BY DEF NewLines, Pieces

\* The first piece is on line 1, and every other behind the "\n"s of the one before.
LEMMA LineNext ==
  ASSUME source \in Sources, NEW f \in Files
  PROVE  /\ LineOf(f, 1) = 1
         /\ \A k \in 1 .. Len(source[f]) :
               LineOf(f, k) \in Nat /\ LineOf(f, k + 1) = LineOf(f, k) + NewLines(source[f][k])
<1> DEFINE s == source[f]
           l == CHOOSE g : Counts(g, s, Len(s) + 1)
<1>1. PICK n \in Nat : n = Len(s)
  BY SourceTyped
<1>2. Counts(l, s, n + 1)
  <2>1. n + 1 \in Nat
    OBVIOUS
  <2> HIDE DEF s
  <2>2. \E g : Counts(g, s, n + 1)
    BY <2>1, CountExists
  <2> QED BY <1>1, <2>2
<1>3. \A k : LineOf(f, k) = l[k]
  BY DEF LineOf, Counts
<1>4. \A k \in 1 .. n : s[k] \in Pieces
  BY <1>1, SourceTyped
<1>5. \A k \in 1 .. n : NewLines(s[k]) \in Nat
  BY <1>4, NewLinesNatural
<1> HIDE DEF l, s
<1>6. \A k \in 1 .. n + 1 : l[k] = IF k = 1 THEN 1 ELSE l[k - 1] + NewLines(s[k - 1])
  BY <1>2 DEF Counts
<1>7. l[1] = 1
  BY <1>6
<1>8. \A k \in 1 .. n : l[k + 1] = l[k] + NewLines(s[k])
  <2> TAKE k \in 1 .. n
  <2>1. k + 1 \in 1 .. n + 1 /\ k + 1 # 1 /\ k + 1 - 1 = k
    OBVIOUS
  <2> QED BY <1>6, <2>1
<1> DEFINE T == {k \in 1 .. n : l[k] \notin Nat}
<1>9. T = {}
  <2>1. SUFFICES ASSUME T # {} PROVE FALSE
    OBVIOUS
  <2>2. PICK m \in T : \A k \in T : m <= k
    <3>1. T \in SUBSET Nat
      OBVIOUS
    <3> HIDE DEF T
    <3> QED BY <2>1, <3>1, LeastNatural
  <2>3. m \in 1 .. n /\ l[m] \notin Nat
    OBVIOUS
  <2>4. m # 1 /\ m - 1 \in 1 .. n
    BY <1>7, <2>3
  <2>5. m - 1 \notin T
    <3> HIDE DEF T
    <3> QED BY <2>2, <2>3, <2>4
  <2>6. l[m - 1] \in Nat /\ m - 1 + 1 = m /\ NewLines(s[m - 1]) \in Nat
    BY <1>5, <2>4, <2>5
  <2>7. l[m] = l[m - 1] + NewLines(s[m - 1])
    <3> HIDE DEF T
    <3> QED BY <1>8, <2>4, <2>6
  <2> HIDE DEF T
  <2> QED BY <2>3, <2>6, <2>7
<1> QED BY <1>1, <1>3, <1>7, <1>8, <1>9 DEF s

\* What is used of a file ends before its first END.
LEMMA UsedIs ==
  ASSUME source \in Sources, NEW f \in Files, NEW n \in Nat, n <= Len(source[f]),
         \A k \in 1 .. n : source[f][k][1] # "end",
         n = Len(source[f]) \/ source[f][n + 1][1] = "end"
  PROVE  Used(f) = 1 .. n
<1> DEFINE s == source[f]
           T == {k \in 1 .. Len(s) : s[k][1] = "end"}
<1>1. PICK m \in Nat : m = Len(s) /\ DOMAIN s = 1 .. m
  BY SourceTyped
<1>2. Used(f) = IF T = {} THEN 1 .. m ELSE 1 .. Min(T) - 1
  BY <1>1 DEF Used
<1>3. CASE n = m
  <2>1. T = {}
    BY <1>1, <1>3
  <2> HIDE DEF T, s
  <2> QED BY <1>2, <1>3, <2>1
<1>4. CASE n # m
  <2>1. n + 1 \in T
    BY <1>1, <1>4
  <2>2. \A k \in T : n + 1 <= k /\ k \in Nat
    <3> TAKE k \in T
    <3>1. k \in 1 .. m /\ s[k][1] = "end"
      BY <1>1
    <3>2. ~(k \in 1 .. n)
      BY <3>1
    <3> HIDE DEF T, s
    <3> QED BY <3>1, <3>2
  <2> HIDE DEF T, s
  <2>3. Min(T) = n + 1
    BY <2>1, <2>2 DEF Min
  <2> QED BY <1>2, <2>1, <2>3
<1> QED BY <1>3, <1>4

\* Something of a file is used: a number of its pieces.
LEMMA UsedLength ==
  ASSUME source \in Sources, NEW f \in Files
  PROVE  \E n \in Nat : n <= Len(source[f]) /\ Used(f) = 1 .. n
<1> DEFINE s == source[f]
           T == {k \in 1 .. Len(s) : s[k][1] = "end"}
<1>1. PICK m \in Nat : m = Len(s) /\ DOMAIN s = 1 .. m
  BY SourceTyped
<1>2. Used(f) = IF T = {} THEN 1 .. m ELSE 1 .. Min(T) - 1
  BY <1>1 DEF Used
<1>3. CASE T = {}
  BY <1>1, <1>2, <1>3
<1>4. CASE T # {}
  <2>1. T \in SUBSET Nat /\ \A k \in T : k \in 1 .. m
    BY <1>1
  <2> HIDE DEF T, s
  <2>2. PICK k \in T : \A j \in T : k <= j
    BY <1>4, <2>1, LeastNatural
  <2>3. Min(T) \in T
    BY <2>2 DEF Min
  <2>4. PICK j \in 1 .. m : j = Min(T)
    BY <2>1, <2>3
  <2>5. j - 1 \in Nat /\ j - 1 <= m
    BY <2>4
  <2> QED BY <1>1, <1>2, <1>4, <2>4, <2>5 DEF s
<1> QED BY <1>3, <1>4

\* The function UpTo is defined by, for the levels up to m.
Unfolds(x, m) == x = [d \in 0 .. m |-> [f \in Files |-> FlattenSeq([k \in Used(f) |-> Brings(x, d, f, k)])]]

LEMMA BringsSame ==
  ASSUME NEW x, NEW y, NEW d, d = 0 \/ x[d - 1] = y[d - 1], NEW f, NEW k
  PROVE  Brings(x, d, f, k) = Brings(y, d, f, k)
BY DEF Brings

LEMMA UnfoldsExists ==
  ASSUME NEW n \in Nat
  PROVE  \E x : Unfolds(x, n)
<1> DEFINE T == {m \in Nat : ~(\E x : Unfolds(x, m))}
<1>1. SUFFICES ASSUME T # {} PROVE FALSE
  OBVIOUS
<1>2. PICK m \in T : \A k \in T : m <= k
  <2>1. T \in SUBSET Nat
    OBVIOUS
  <2> HIDE DEF T
  <2> QED BY <1>1, <2>1, LeastNatural
<1>3. m \in Nat /\ ~(\E x : Unfolds(x, m))
  OBVIOUS
<1> DEFINE All(x, d) == [f \in Files |-> FlattenSeq([k \in Used(f) |-> Brings(x, d, f, k)])]
<1>4. ASSUME NEW x, NEW y, NEW d, d = 0 \/ x[d - 1] = y[d - 1] PROVE All(x, d) = All(y, d)
  <2>1. \A f, k : Brings(x, d, f, k) = Brings(y, d, f, k)
    BY <1>4, BringsSame
  <2> QED BY <2>1
<1>5. CASE m = 0
  <2> DEFINE g == [d \in 0 .. 0 |-> All([e \in {} |-> {}], d)]
  <2>1. g = [d \in 0 .. 0 |-> All(g, d)]
    <3>1. \A d \in 0 .. 0 : d = 0
      OBVIOUS
    <3>2. \A d \in 0 .. 0 : g[d] = All(g, d)
      <4> TAKE d \in 0 .. 0
      <4>1. g[d] = All([e \in {} |-> {}], d)
        OBVIOUS
      <4> HIDE DEF g, All
      <4> QED BY <1>4, <3>1, <4>1
    <3>3. g = [d \in 0 .. 0 |-> g[d]]
      BY DEF g
    <3> HIDE DEF g, All
    <3> QED BY <3>2, <3>3
  <2>2. Unfolds(g, 0)
    <3> HIDE DEF g
    <3> QED BY <2>1 DEF Unfolds
  <2> QED BY <1>3, <1>5, <2>2
<1>6. CASE m # 0
  <2>1. PICK x : Unfolds(x, m - 1)
    <3>1. m - 1 \in Nat /\ m - 1 \notin T
      <4> HIDE DEF T
      <4> QED BY <1>2, <1>3, <1>6
    <3> QED BY <3>1
  <2>2. \A d \in 0 .. m - 1 : x[d] = All(x, d)
    BY <2>1 DEF Unfolds
  <2> DEFINE g == [d \in 0 .. m |-> IF d = m THEN All(x, d) ELSE x[d]]
  <2>3. \A d \in 0 .. m : g[d] = All(x, d)
    <3> HIDE DEF All
    <3> QED BY <1>3, <2>2
  <2>4. \A d \in 0 .. m : d = 0 \/ g[d - 1] = x[d - 1]
    <3>1. \A d \in 0 .. m : d = 0 \/ (d - 1 \in 0 .. m /\ d - 1 # m)
      BY <1>3
    <3> HIDE DEF All
    <3> QED BY <3>1
  <2> HIDE DEF All
  <2>5. \A d \in 0 .. m : g[d] = All(g, d)
    <3> HIDE DEF g
    <3>1. \A d \in 0 .. m : All(g, d) = All(x, d)
      BY <1>4, <2>4
    <3> QED BY <2>3, <3>1
  <2>6. g = [d \in 0 .. m |-> g[d]]
    BY DEF g
  <2>7. g = [d \in 0 .. m |-> All(g, d)]
    <3> HIDE DEF g
    <3> QED BY <2>5, <2>6
  <2>8. Unfolds(g, m)
    <3> HIDE DEF g
    <3> QED BY <2>7 DEF Unfolds, All
  <2> QED BY <1>3, <2>8
<1> QED BY <1>5, <1>6

LEMMA UpToIs ==
  /\ MAX_INCLUDES_NESTED \in Nat \ {0}
  /\ \A d \in 0 .. MAX_INCLUDES_NESTED : \A f \in Files :
        UpTo[d][f] = FlattenSeq([k \in Used(f) |-> Brings(UpTo, d, f, k)])
<1>1. MAX_INCLUDES_NESTED \in Nat \ {0}
  BY SourceAssumption
<1>2. UpTo = CHOOSE x : Unfolds(x, MAX_INCLUDES_NESTED)
  BY DEF UpTo, Unfolds
<1>3. \E x : Unfolds(x, MAX_INCLUDES_NESTED)
  BY <1>1, UnfoldsExists
<1>4. Unfolds(UpTo, MAX_INCLUDES_NESTED)
  BY <1>2, <1>3
<1>5. \A d \in 0 .. MAX_INCLUDES_NESTED :
         UpTo[d] = [f \in Files |-> FlattenSeq([k \in Used(f) |-> Brings(UpTo, d, f, k)])]
  <2> DEFINE m == MAX_INCLUDES_NESTED
             x == UpTo
  <2>1. Unfolds(x, m)
    BY <1>4
  <2> HIDE DEF x, m
  <2>2. \A d \in 0 .. m : x[d] = [f \in Files |-> FlattenSeq([k \in Used(f) |-> Brings(x, d, f, k)])]
    BY <2>1, Zenon DEF Unfolds
  <2> QED BY <2>2 DEF x, m
<1>6. ASSUME NEW d \in 0 .. MAX_INCLUDES_NESTED, NEW f \in Files
      PROVE  UpTo[d][f] = FlattenSeq([k \in Used(f) |-> Brings(UpTo, d, f, k)])
  <2> DEFINE All(g) == FlattenSeq([k \in Used(g) |-> Brings(UpTo, d, g, k)])
  <2>1. UpTo[d] = [g \in Files |-> All(g)]
    BY <1>5
  <2> HIDE DEF All
  <2>2. UpTo[d][f] = All(f)
    BY <2>1
  <2> QED BY <2>2 DEF All
<1> QED BY <1>1, <1>6

\* What a piece is, by its kind.
LEMMA PieceKinds ==
  ASSUME NEW p \in Pieces
  PROVE  /\ p \in Token
         /\ p[1] = "nl" => p = <<"nl">>
         /\ p[1] = "comment" => p[2] \in Nat
         /\ p[1] = "include" => p[2] \in Files \cup Missing
         /\ p[1] = "code" => \E b \in BOOLEAN : p = <<"code", b>>
         /\ p[1] \in {"nl", "comment", "code", "macro", "endm", "call", "if", "else", "endc", "include", "end"}
<1>1. p \in Token
  BY DEF Token
<1>2. CASE p \in {<<"nl">>, <<"endm">>, <<"if">>, <<"else">>, <<"endc">>, <<"end">>}
  BY <1>1, <1>2
<1>3. CASE p \in {"comment"} \X Nat
  BY <1>1, <1>3
<1>4. CASE p \in {"code"} \X BOOLEAN
  BY <1>1, <1>4
<1>5. CASE p \in {"macro", "call"} \X Macros
  BY <1>1, <1>5
<1>6. CASE p \in {"include"} \X (Files \cup Missing)
  BY <1>1, <1>6
<1> QED BY <1>2, <1>3, <1>4, <1>5, <1>6 DEF Pieces

LEMMA PairAndOne ==
  ASSUME NEW a, NEW b, NEW c
  PROVE  <<a, b>> \o <<c>> = <<a, b, c>>
<1> DEFINE S == {a, b, c}
           s == <<a, b>>
           t == <<c>>
           u == <<a, b, c>>
<1>1. s \in Seq(S) /\ t \in Seq(S) /\ u \in Seq(S) /\ Len(s) = 2 /\ Len(t) = 1 /\ Len(u) = 3
  OBVIOUS
<1>2. s[1] = a /\ s[2] = b /\ t[1] = c /\ u[1] = a /\ u[2] = b /\ u[3] = c
  OBVIOUS
<1> HIDE DEF s, t, u, S
<1>3. /\ s \o t \in Seq(S) /\ Len(s \o t) = 3
      /\ \A i \in 1 .. 3 : (s \o t)[i] = IF i <= 2 THEN s[i] ELSE t[i - 2]
  <2>1. /\ s \o t \in Seq(S) /\ Len(s \o t) = Len(s) + Len(t)
        /\ \A i \in 1 .. Len(s) + Len(t) : (s \o t)[i] = IF i <= Len(s) THEN s[i] ELSE t[i - Len(s)]
    BY <1>1, ConcatProperties
  <2>2. Len(s) + Len(t) = 3
    BY <1>1
  <2> QED BY <1>1, <2>1, <2>2
<1>4. (s \o t)[1] = a /\ (s \o t)[2] = b /\ (s \o t)[3] = c
  BY <1>2, <1>3
<1>5. \A i \in 1 .. 3 : i = 1 \/ i = 2 \/ i = 3
  OBVIOUS
<1>6. \A i \in 1 .. 3 : (s \o t)[i] = u[i]
  BY <1>2, <1>4, <1>5
<1>7. s \o t = u
  BY <1>1, <1>3, <1>6, SeqEqual
<1> QED BY <1>7 DEF s, t, u

LEMMA CodeToken ==
  ASSUME NEW p \in Pieces, p[1] = "code", NEW f \in Files, NEW k \in Nat
  PROVE  p \o << <<f, k>> >> \in Token
<1>1. PICK b \in BOOLEAN : p = <<"code", b>>
  BY PieceKinds
<1>2. p \o << <<f, k>> >> = <<"code", b, <<f, k>>>>
  BY <1>1, PairAndOne
<1>3. <<"code", b, <<f, k>>>> \in {"code"} \X BOOLEAN \X (Files \X Nat)
  OBVIOUS
<1> QED BY <1>2, <1>3 DEF Token

LEMMA OneToken == ASSUME NEW t \in Token PROVE <<t>> \in Seq(Token)
<1> DEFINE S == Token
<1>1. t \in S
  OBVIOUS
<1> HIDE DEF S
<1>2. <<t>> \in Seq(S)
  BY <1>1
<1> QED BY <1>2 DEF S

LEMMA BringsType ==
  ASSUME source \in Sources, NEW x, NEW d, NEW f \in Files, NEW k \in 1 .. Len(source[f]),
         d = 0 \/ \A g \in Files : x[d - 1][g] \in Seq(Token)
  PROVE  Brings(x, d, f, k) \in Seq(Token)
<1>1. PICK p \in Pieces : p = source[f][k]
  BY SourceTyped
<1>2. CASE p[1] \in {"nl", "comment"}
  <2>1. LineOf(f, k) + NewLines(p) \in Nat
    BY <1>1, LineNext, NewLinesNatural
  <2>2. <<"eol", LineOf(f, k) + NewLines(p)>> \in Token
    BY <2>1 DEF Token
  <2>3. Brings(x, d, f, k) = << <<"eol", LineOf(f, k) + NewLines(p)>> >>
    <3>1. ~Opens(f, k)
      BY <1>1, <1>2 DEF Opens
    <3>2. PICK l : l = LineOf(f, k) + NewLines(source[f][k])
      OBVIOUS
    <3>3. Brings(x, d, f, k) = << <<"eol", l>> >>
      BY <1>1, <1>2, <3>1, <3>2 DEF Brings
    <3> QED BY <1>1, <3>2, <3>3
  <2> QED BY <2>2, <2>3, OneToken
<1>3. CASE Opens(f, k)
  <2>1. p[1] = "include" /\ p[2] \in Files
    BY <1>1, <1>3 DEF Opens
  <2>2. Brings(x, d, f, k) = IF d = 0 THEN <<>> ELSE << <<"enter", p[2]>> >> \o x[d - 1][p[2]] \o << <<"leave">> >>
    BY <1>1, <1>3, <2>1 DEF Brings
  <2>3. << <<"enter", p[2]>> >> \in Seq(Token) /\ << <<"leave">> >> \in Seq(Token)
    <3>1. <<"enter", p[2]>> \in Token /\ <<"leave">> \in Token
      BY <2>1 DEF Token
    <3> QED BY <3>1, OneToken
  <2>4. CASE d = 0
    BY <2>2, <2>4
  <2>5. CASE d # 0
    <3>1. x[d - 1][p[2]] \in Seq(Token)
      BY <2>1, <2>5
    <3>2. << <<"enter", p[2]>> >> \o x[d - 1][p[2]] \in Seq(Token)
      BY <2>3, <3>1, ConcatProperties
    <3> QED BY <2>2, <2>3, <2>5, <3>2, ConcatProperties
  <2> QED BY <2>4, <2>5
<1>4. CASE p[1] = "include" /\ ~Opens(f, k)
  <2>1. Brings(x, d, f, k) = <<>>
    BY <1>1, <1>4 DEF Brings
  <2> QED BY <2>1
<1>5. CASE p[1] = "code"
  <2>1. ~Opens(f, k)
    BY <1>1, <1>5 DEF Opens
  <2>2. Brings(x, d, f, k) = << p \o << <<f, k>> >> >>
    BY <1>1, <1>5, <2>1 DEF Brings
  <2>3. p \o << <<f, k>> >> \in Token
    <3>1. k \in Nat
      BY SourceTyped
    <3> QED BY <1>5, <3>1, CodeToken
  <2> QED BY <2>2, <2>3, OneToken
<1>6. CASE p[1] \notin {"nl", "comment", "include", "code"}
  <2>1. ~Opens(f, k)
    BY <1>1, <1>6 DEF Opens
  <2>2. Brings(x, d, f, k) = <<p>>
    BY <1>1, <1>6, <2>1 DEF Brings
  <2> QED BY <2>2, PieceKinds, OneToken
<1> QED BY <1>2, <1>3, <1>4, <1>5, <1>6

LEMMA UpToType ==
  ASSUME source \in Sources
  PROVE  \A d \in 0 .. MAX_INCLUDES_NESTED : \A f \in Files : UpTo[d][f] \in Seq(Token)
<1> DEFINE Typed(d) == \A f \in Files : UpTo[d][f] \in Seq(Token)
           T == {d \in 0 .. MAX_INCLUDES_NESTED : ~Typed(d)}
<1>1. SUFFICES ASSUME T # {} PROVE FALSE
  OBVIOUS
<1>2. PICK m \in Nat : m = MAX_INCLUDES_NESTED
  BY UpToIs
<1>3. PICK d \in T : \A k \in T : d <= k
  <2>1. T \in SUBSET Nat
    BY <1>2
  <2> HIDE DEF T
  <2> QED BY <1>1, <2>1, LeastNatural
<1>4. d \in 0 .. m /\ ~Typed(d)
  BY <1>2
<1>5. d = 0 \/ Typed(d - 1)
  <2>1. d # 0 => d - 1 \in 0 .. m /\ ~(d <= d - 1)
    BY <1>4
  <2>2. d # 0 => d - 1 \notin T
    <3> HIDE DEF T
    <3> QED BY <1>3, <2>1
  <2> QED BY <1>2, <2>1, <2>2
<1>6. ASSUME NEW f \in Files PROVE UpTo[d][f] \in Seq(Token)
  <2>1. UpTo[d][f] = FlattenSeq([k \in Used(f) |-> Brings(UpTo, d, f, k)])
    <3> HIDE DEF T
    <3> QED BY <1>2, <1>4, UpToIs
  <2>2. PICK n \in Nat : n <= Len(source[f]) /\ Used(f) = 1 .. n
    BY UsedLength
  <2>3. \A k \in 1 .. n : Brings(UpTo, d, f, k) \in Seq(Token)
    <3> TAKE k \in 1 .. n
    <3>1. k \in 1 .. Len(source[f])
      BY <2>2, SourceTyped
    <3> HIDE DEF T
    <3> QED BY <1>5, <3>1, BringsType
  <2> DEFINE S == Seq(Token)
             s == [k \in 1 .. n |-> Brings(UpTo, d, f, k)]
  <2>4. s \in Seq(S)
    <3> HIDE DEF T
    <3>1. s \in [1 .. n -> S]
      BY <2>3
    <3> HIDE DEF s, S
    <3> QED BY <3>1, SeqDef
  <2>5. FlattenSeq(s) \in Seq(Token)
    <3> HIDE DEF s
    <3> QED BY <2>4, FlattenType
  <2> QED BY <2>1, <2>2, <2>5
<1> QED BY <1>4, <1>6

\* What the pieces up to a place bring: no more to begin with, and piece by piece.
LEMMA BeforeTyped ==
  ASSUME source \in Sources, NEW d \in 0 .. MAX_INCLUDES_NESTED, NEW f \in Files,
         NEW k \in Nat \ {0}, k <= Len(source[f]) + 1
  PROVE  /\ [j \in 1 .. k - 1 |-> Brings(UpTo, d, f, j)] \in Seq(Seq(Token))
         /\ Before(d, f, k) \in Seq(Token)
<1> DEFINE S == Seq(Token)
           s == [j \in 1 .. k - 1 |-> Brings(UpTo, d, f, j)]
<1>1. d = 0 \/ \A g \in Files : UpTo[d - 1][g] \in Seq(Token)
  <2>1. d = 0 \/ d - 1 \in 0 .. MAX_INCLUDES_NESTED
    BY UpToIs
  <2> QED BY <2>1, UpToType
<1>2. \A j \in 1 .. k - 1 : Brings(UpTo, d, f, j) \in S
  <2> TAKE j \in 1 .. k - 1
  <2>1. j \in 1 .. Len(source[f])
    BY SourceTyped
  <2> QED BY <1>1, <2>1, BringsType
<1>3. s \in Seq(S)
  <2>1. s \in [1 .. k - 1 -> S] /\ k - 1 \in Nat
    BY <1>2
  <2> HIDE DEF s, S
  <2> QED BY <2>1, SeqDef
<1>4. FlattenSeq(s) \in Seq(Token)
  <2> HIDE DEF s
  <2> QED BY <1>3, FlattenType
<1> QED BY <1>3, <1>4 DEF Before

LEMMA BeforeNext ==
  ASSUME source \in Sources, NEW d \in 0 .. MAX_INCLUDES_NESTED, NEW f \in Files,
         NEW k \in 1 .. Len(source[f])
  PROVE  /\ Before(d, f, k + 1) = Before(d, f, k) \o Brings(UpTo, d, f, k)
         /\ Brings(UpTo, d, f, k) \in Seq(Token)
<1> DEFINE s == [j \in 1 .. k - 1 |-> Brings(UpTo, d, f, j)]
           t == [j \in 1 .. k |-> Brings(UpTo, d, f, j)]
           S == Seq(Token)
<1>1. k \in Nat \ {0} /\ k + 1 \in Nat \ {0} /\ k <= Len(source[f]) + 1 /\ k + 1 <= Len(source[f]) + 1 /\ k + 1 - 1 = k
  BY SourceTyped
<1>2. s \in Seq(S) /\ t \in Seq(S)
  <2>1. s \in Seq(S)
    BY <1>1, BeforeTyped
  <2>2. [j \in 1 .. k + 1 - 1 |-> Brings(UpTo, d, f, j)] \in Seq(S)
    <3> HIDE DEF s
    <3> QED BY <1>1, BeforeTyped
  <2> QED BY <1>1, <2>1, <2>2
<1>3. t[k] = Brings(UpTo, d, f, k) /\ t[k] \in S
  <2>1. k \in 1 .. k
    BY <1>1
  <2>2. t[k] = Brings(UpTo, d, f, k)
    BY <2>1
  <2>3. Len(t) = k
    BY <1>1
  <2> HIDE DEF t, S, s
  <2>4. t[k] \in S
    BY <1>2, <2>1, <2>3
  <2> QED BY <2>2, <2>4
<1>4. t = Append(s, t[k])
  <2>1. Len(s) = k - 1 /\ Len(t) = k
    BY <1>1
  <2>2. \A j \in 1 .. k - 1 : s[j] = t[j]
    BY <1>1
  <2> HIDE DEF s, t, S
  <2>3. Append(s, t[k]) \in Seq(S) /\ Len(Append(s, t[k])) = k
    BY <1>1, <1>2, <1>3, <2>1
  <2>4. \A j \in 1 .. k : Append(s, t[k])[j] = t[j]
    <3> TAKE j \in 1 .. k
    <3>1. CASE j = k
      BY <1>1, <1>2, <2>1, <3>1
    <3>2. CASE j # k
      <4>1. j \in 1 .. k - 1
        BY <1>1, <3>2
      <4> QED BY <1>2, <2>1, <2>2, <4>1
    <3> QED BY <3>1, <3>2
  <2> QED BY <1>2, <2>1, <2>3, <2>4, SeqEqual
<1>5. FlattenSeq(t) = FlattenSeq(s) \o Brings(UpTo, d, f, k)
  <2> HIDE DEF s, t
  <2> QED BY <1>2, <1>3, <1>4, FlattenAppend
<1>6. Before(d, f, k + 1) = FlattenSeq(t)
  <2>1. k + 1 - 1 = k
    BY <1>1
  <2>2. [j \in 1 .. k + 1 - 1 |-> Brings(UpTo, d, f, j)] = t
    BY <2>1
  <2> HIDE DEF t
  <2> QED BY <2>2 DEF Before
<1>7. Before(d, f, k) = FlattenSeq(s)
  BY DEF Before
<1> HIDE DEF s, t
<1> QED BY <1>3, <1>5, <1>6, <1>7

LEMMA BeforeFirst == \A d, f : Before(d, f, 1) = <<>>
<1>1. \A d, f : [j \in 1 .. 1 - 1 |-> Brings(UpTo, d, f, j)] = <<>>
  OBVIOUS
<1> QED BY <1>1, FlattenNothing DEF Before

\* A file that has been read to its end, or its END, has brought all it brings.
LEMMA WholeRead ==
  ASSUME source \in Sources, NEW d \in 0 .. MAX_INCLUDES_NESTED, NEW f \in Files, NEW k \in Nat \ {0},
         k <= Len(source[f]) + 1, \A j \in 1 .. k - 1 : source[f][j][1] # "end",
         k = Len(source[f]) + 1 \/ source[f][k][1] = "end"
  PROVE  UpTo[d][f] = Before(d, f, k)
<1>1. PICK n \in Nat : n = k - 1
  OBVIOUS
<1>2. n <= Len(source[f]) /\ k = n + 1 /\ (n = Len(source[f]) \/ source[f][n + 1][1] = "end")
  BY <1>1, SourceTyped
<1>3. Used(f) = 1 .. n
  BY <1>1, <1>2, UsedIs
<1> QED BY <1>1, <1>3, UpToIs DEF Before

----------------------------------------------------------------------------
(* The files that are open.                                                *)

LEMMA NestedTypes ==
  ASSUME source \in Sources, NEW bs, Nested(bs)
  PROVE  /\ Len(bs) \in Nat \ {0} /\ Len(bs) <= MAX_INCLUDES_NESTED
         /\ \A i \in 1 .. Len(bs) :
               /\ bs[i] \in Places /\ bs[i].file \in Files /\ bs[i].at \in Nat \ {0}
               /\ bs[i].at <= Len(source[bs[i].file]) + 1 /\ Len(source[bs[i].file]) \in Nat
               /\ MAX_INCLUDES_NESTED + 1 - i \in 1 .. MAX_INCLUDES_NESTED
<1>1. PICK m \in Nat \ {0} : m = MAX_INCLUDES_NESTED
  BY UpToIs
<1>2. PICK n \in 1 .. m : n = Len(bs)
  BY <1>1 DEF Nested
<1>3. \A i \in 1 .. n : bs[i] \in Places /\ bs[i].at <= Len(source[bs[i].file]) + 1
  <2> DEFINE S == Places
  <2>1. bs \in Seq(S)
    BY DEF Nested
  <2> HIDE DEF S
  <2>2. \A i \in 1 .. n : bs[i] \in S
    BY <1>2, <2>1
  <2> QED BY <1>2, <2>2 DEF Nested, Reads, ReadTo, S
<1>4. \A i \in 1 .. n : bs[i].file \in Files /\ bs[i].at \in Nat \ {0}
  BY <1>3 DEF Places
<1>5. \A i \in 1 .. n : m + 1 - i \in 1 .. m
  OBVIOUS
<1> QED BY <1>1, <1>2, <1>3, <1>4, <1>5, SourceTyped

LEMMA OfFileType ==
  ASSUME source \in Sources, NEW bs, Nested(bs), NEW i \in 1 .. Len(bs), NEW k \in Nat \ {0},
         k <= Len(source[bs[i].file]) + 1
  PROVE  OfFile(bs, i, k) \in Seq(Token)
<1>1. /\ bs[i].file \in Files
      /\ MAX_INCLUDES_NESTED + 1 - i \in 0 .. MAX_INCLUDES_NESTED
  BY NestedTypes
<1>2. Before(MAX_INCLUDES_NESTED + 1 - i, bs[i].file, k) \in Seq(Token)
  BY <1>1, BeforeTyped
<1>3. (IF i = 1 THEN << >> ELSE << <<"enter", bs[i].file>> >>) \in Seq(Token)
  <2>1. <<"enter", bs[i].file>> \in Token
    BY <1>1 DEF Token
  <2> QED BY <2>1, OneToken
<1> QED BY <1>2, <1>3, ConcatProperties DEF OfFile

SameFile(bs, cs, i) == bs[i].file = cs[i].file
LEMMA OfFileSame ==
  ASSUME NEW bs, NEW cs, NEW i, SameFile(bs, cs, i), NEW k
  PROVE  OfFile(bs, i, k) = OfFile(cs, i, k)
BY DEF OfFile, SameFile

Associates(a, b, c) == (a \o b) \o c = a \o (b \o c)
LEMMA JoinedInTurn ==
  ASSUME NEW S, NEW a \in Seq(S), NEW b \in Seq(S), NEW c \in Seq(S)
  PROVE  Associates(a, b, c)
BY ConcatAssociative DEF Associates

\* One piece more of a file.
LEMMA OfFileNext ==
  ASSUME source \in Sources, NEW bs, Nested(bs), NEW i \in 1 .. Len(bs), NEW k \in 1 .. Len(source[bs[i].file])
  PROVE  OfFile(bs, i, k + 1) = OfFile(bs, i, k) \o Brings(UpTo, MAX_INCLUDES_NESTED + 1 - i, bs[i].file, k)
<1> DEFINE lead == IF i = 1 THEN << >> ELSE << <<"enter", bs[i].file>> >>
           S == Token
<1>1. PICK f \in Files : f = bs[i].file
  BY NestedTypes
<1>2. PICK d \in 0 .. MAX_INCLUDES_NESTED : d = MAX_INCLUDES_NESTED + 1 - i
  BY NestedTypes
<1>3. k \in Nat \ {0} /\ k <= Len(source[f]) + 1 /\ k \in 1 .. Len(source[f])
  BY <1>1, SourceTyped
<1>4. /\ Before(d, f, k + 1) = Before(d, f, k) \o Brings(UpTo, d, f, k)
      /\ Brings(UpTo, d, f, k) \in Seq(S) /\ Before(d, f, k) \in Seq(S)
  BY <1>3, BeforeNext, BeforeTyped
<1>5. lead \in Seq(S)
  <2>1. <<"enter", bs[i].file>> \in Token
    BY <1>1 DEF Token
  <2> QED BY <2>1, OneToken
<1> HIDE DEF lead, S
<1>6. lead \o (Before(d, f, k) \o Brings(UpTo, d, f, k)) = (lead \o Before(d, f, k)) \o Brings(UpTo, d, f, k)
  <2>1. Associates(lead, Before(d, f, k), Brings(UpTo, d, f, k))
    BY <1>4, <1>5, JoinedInTurn
  <2> QED BY <2>1 DEF Associates
<1>7. OfFile(bs, i, k + 1) = lead \o Before(d, f, k + 1) /\ OfFile(bs, i, k) = lead \o Before(d, f, k)
  BY <1>1, <1>2 DEF OfFile, lead
<1> QED BY <1>1, <1>2, <1>4, <1>6, <1>7

\* What is shown of the files that wait.
Waits(bs) == [i \in 1 .. Len(bs) - 1 |-> OfFile(bs, i, bs[i].at - 1)]

LEMMA WaitsType ==
  ASSUME source \in Sources, NEW bs, Nested(bs)
  PROVE  /\ Waits(bs) \in Seq(Seq(Token)) /\ Len(Waits(bs)) = Len(bs) - 1
         /\ Waiting(bs) = FlattenSeq(Waits(bs)) /\ Waiting(bs) \in Seq(Token)
<1> DEFINE S == Seq(Token)
<1>1. PICK n \in Nat \ {0} : n = Len(bs)
  BY NestedTypes
<1>2. \A i \in 1 .. n - 1 : OfFile(bs, i, bs[i].at - 1) \in S
  <2> TAKE i \in 1 .. n - 1
  <2>1. i \in 1 .. Len(bs) /\ Includes(bs[i], bs[i + 1].file)
    BY <1>1 DEF Nested
  <2>2. PICK k \in Nat : k = bs[i].at /\ k > 1 /\ k <= Len(source[bs[i].file]) + 1 /\ Len(source[bs[i].file]) \in Nat
    BY <2>1, NestedTypes DEF Includes, OpenedAt
  <2>3. k - 1 \in Nat \ {0} /\ k - 1 <= Len(source[bs[i].file]) + 1
    BY <2>2
  <2> QED BY <2>1, <2>2, <2>3, OfFileType
<1>3. Waits(bs) \in [1 .. n - 1 -> S]
  BY <1>1, <1>2 DEF Waits
<1>4. n - 1 \in Nat
  BY <1>1
<1>5. Waits(bs) \in Seq(S) /\ Len(Waits(bs)) = n - 1
  <2> HIDE DEF S
  <2> QED BY <1>3, <1>4, SeqDef
<1>6. Waiting(bs) = FlattenSeq(Waits(bs))
  BY DEF Waiting, Waits
<1>7. FlattenSeq(Waits(bs)) \in Seq(Token)
  BY <1>5, FlattenType
<1> QED BY <1>1, <1>5, <1>6, <1>7

LEMMA WaitsSame ==
  ASSUME NEW bs, NEW cs, Len(cs) = Len(bs), \A i \in 1 .. Len(bs) - 1 : cs[i] = bs[i]
  PROVE  Waiting(cs) = Waiting(bs)
<1>1. \A i \in 1 .. Len(bs) - 1 : OfFile(cs, i, cs[i].at - 1) = OfFile(bs, i, bs[i].at - 1)
  <2> TAKE i \in 1 .. Len(bs) - 1
  <2>1. cs[i] = bs[i]
    OBVIOUS
  <2>2. OfFile(cs, i, bs[i].at - 1) = OfFile(bs, i, bs[i].at - 1)
    BY <2>1, OfFileSame DEF SameFile
  <2> QED BY <2>1, <2>2
<1> QED BY <1>1 DEF Waiting

LEMMA ShownType ==
  ASSUME source \in Sources, NEW bs, Nested(bs)
  PROVE  /\ Shown(bs) \in Seq(Token) /\ Waiting(bs) \in Seq(Token)
         /\ OfFile(bs, Len(bs), bs[Len(bs)].at) \in Seq(Token)
<1>1. Len(bs) \in 1 .. Len(bs)
  BY NestedTypes
<1>2. OfFile(bs, Len(bs), bs[Len(bs)].at) \in Seq(Token)
  BY <1>1, NestedTypes, OfFileType
<1> QED BY <1>2, WaitsType, ConcatProperties DEF Shown

\* Where the last of the files that are open is read.
At(bs, f, k) == f = bs[Len(bs)].file /\ k = bs[Len(bs)].at
Behind(ds, cs, g) == ds = Append(cs, [file |-> g, at |-> 1])

\* A piece more of the file that is read.
Advances(cs, bs) == cs = [bs EXCEPT ![Len(bs)].at = @ + 1]

LEMMA Advanced ==
  ASSUME source \in Sources, NEW bs, Nested(bs), NEW cs, Advances(cs, bs)
  PROVE  /\ cs \in Seq(Places) /\ Len(cs) = Len(bs)
         /\ \A i \in 1 .. Len(bs) - 1 : cs[i] = bs[i]
         /\ cs[Len(bs)].file = bs[Len(bs)].file /\ cs[Len(bs)].at = bs[Len(bs)].at + 1
<1>1. PICK n \in Nat \ {0} : n = Len(bs)
  BY NestedTypes
<1>2. bs \in Seq(Places)
  BY DEF Nested
<1>3. PICK b \in Places : b = bs[n]
  BY <1>1, NestedTypes
<1>4. PICK c : c = [b EXCEPT !.at = @ + 1]
  OBVIOUS
<1>5. c \in Places /\ c.file = b.file /\ c.at = b.at + 1
  BY <1>3, <1>4 DEF Places
<1>6. Replaces(cs, bs, n, c)
  BY <1>1, <1>3, <1>4 DEF Advances, Replaces
<1> DEFINE S == Places
<1> HIDE DEF S
<1>7. cs \in Seq(S) /\ Len(cs) = n
  <2>1. bs \in Seq(S) /\ c \in S /\ n \in 1 .. Len(bs)
    BY <1>1, <1>2, <1>5 DEF S
  <2>2. [bs EXCEPT ![n] = c] \in Seq(S) /\ Len([bs EXCEPT ![n] = c]) = Len(bs)
    BY <2>1, ExceptSeq
  <2> QED BY <1>1, <1>6, <2>2 DEF Replaces
<1>8. \A i \in 1 .. n : cs[i] = IF i = n THEN c ELSE bs[i]
  <2>1. DOMAIN bs = 1 .. n
    BY <1>1, <1>2
  <2> QED BY <1>6, <2>1 DEF Replaces
<1>9. cs[n] = c /\ \A i \in 1 .. n - 1 : cs[i] = bs[i]
  BY <1>8
<1> QED BY <1>1, <1>3, <1>5, <1>7, <1>9 DEF S

LEMMA ShownNext ==
  ASSUME source \in Sources, NEW bs, Nested(bs), NEW cs, Advances(cs, bs),
         NEW f, NEW k, At(bs, f, k), k <= Len(source[f]), source[f][k][1] # "end"
  PROVE  /\ Nested(cs)
         /\ Brings(UpTo, MAX_INCLUDES_NESTED + 1 - Len(bs), f, k) \in Seq(Token)
         /\ Shown(cs) = Shown(bs) \o Brings(UpTo, MAX_INCLUDES_NESTED + 1 - Len(bs), f, k)
<1>1. PICK n \in Nat \ {0} : n = Len(bs)
  BY NestedTypes
<1>2. /\ f \in Files /\ k \in Nat \ {0} /\ Len(source[f]) \in Nat /\ n \in 1 .. n
      /\ MAX_INCLUDES_NESTED + 1 - n \in 0 .. MAX_INCLUDES_NESTED
      /\ bs[n].file = f /\ bs[n].at = k
  BY <1>1, NestedTypes DEF At
<1>3. k \in 1 .. Len(source[f])
  BY <1>2
<1>4. /\ cs \in Seq(Places) /\ Len(cs) = n /\ cs[n].file = f /\ cs[n].at = k + 1
      /\ \A i \in 1 .. n - 1 : cs[i] = bs[i]
  BY <1>1, <1>2, Advanced
<1>5. Nested(cs)
  <2>1. Reads(cs[n])
    <3>1. \A j \in 1 .. k - 1 : source[f][j][1] # "end"
      BY <1>1, <1>2 DEF Nested, Reads, ReadTo
    <3>2. \A j \in 1 .. k + 1 - 1 : j \in 1 .. k - 1 \/ j = k
      BY <1>2
    <3>3. k + 1 <= Len(source[f]) + 1
      BY <1>2
    <3>4. ReadTo(f, k + 1)
      BY <1>2, <3>1, <3>2, <3>3 DEF ReadTo
    <3> QED BY <1>4, <3>4 DEF Reads
  <2>2. \A i \in 1 .. n : Reads(cs[i])
    <3>1. \A i \in 1 .. n : i = n \/ i \in 1 .. n - 1
      OBVIOUS
    <3> QED BY <1>1, <1>4, <2>1, <3>1 DEF Nested
  <2>3. \A i \in 1 .. n - 1 : Includes(cs[i], cs[i + 1].file)
    <3> TAKE i \in 1 .. n - 1
    <3>1. cs[i + 1].file = bs[i + 1].file
      <4>1. i + 1 = n \/ i + 1 \in 1 .. n - 1
        OBVIOUS
      <4> QED BY <1>2, <1>4, <4>1
    <3> QED BY <1>1, <1>4, <3>1 DEF Nested
  <2>4. cs[1].file = Main
    <3>1. n = 1 \/ 1 \in 1 .. n - 1
      OBVIOUS
    <3>2. bs[1].file = Main
      BY DEF Nested
    <3> QED BY <1>2, <1>4, <3>1, <3>2
  <2>5. n \in 1 .. MAX_INCLUDES_NESTED
    BY <1>1 DEF Nested
  <2> QED BY <1>4, <2>2, <2>3, <2>4, <2>5 DEF Nested
<1>6. Waiting(cs) = Waiting(bs)
  BY <1>1, <1>4, WaitsSame
<1> DEFINE w == Waiting(bs)
           r == OfFile(bs, n, k)
           t == Brings(UpTo, MAX_INCLUDES_NESTED + 1 - n, f, k)
<1>7. OfFile(bs, n, k + 1) = r \o t
  BY <1>1, <1>2, <1>3, OfFileNext
<1>8. OfFile(cs, n, k + 1) = OfFile(bs, n, k + 1)
  <2>1. SameFile(cs, bs, n)
    BY <1>2, <1>4 DEF SameFile
  <2> QED BY <2>1, OfFileSame
<1>9. w \in Seq(Token) /\ r \in Seq(Token) /\ t \in Seq(Token)
  <2>1. w \in Seq(Token) /\ r \in Seq(Token)
    BY <1>1, <1>2, ShownType
  <2>2. t \in Seq(Token)
    BY <1>2, <1>3, BeforeNext
  <2> QED BY <2>1, <2>2
<1>10. Shown(cs) = w \o (r \o t) /\ Shown(bs) = w \o r
  <2>1. Shown(cs) = Waiting(cs) \o OfFile(cs, n, k + 1)
    BY <1>4 DEF Shown
  <2>2. Shown(bs) = Waiting(bs) \o OfFile(bs, n, k)
    BY <1>1, <1>2 DEF Shown
  <2> QED BY <1>6, <1>7, <1>8, <2>1, <2>2
<1> HIDE DEF w, r, t
<1>11. Associates(w, r, t)
  BY <1>9, JoinedInTurn
<1>12. Shown(cs) = Shown(bs) \o t
  BY <1>10, <1>11 DEF Associates
<1> QED BY <1>1, <1>5, <1>9, <1>12 DEF t

\* The file that the last piece opens.
LEMMA ShownOpened ==
  ASSUME source \in Sources, NEW bs, Nested(bs), NEW cs, Advances(cs, bs), NEW g,
         NEW f, NEW k, At(bs, f, k), OpenedAt(f, k + 1, g), Len(bs) < MAX_INCLUDES_NESTED,
         NEW ds, Behind(ds, cs, g)
  PROVE  Nested(ds) /\ Len(ds) = Len(bs) + 1 /\ Shown(ds) = Append(Shown(bs), <<"enter", g>>)
<1>1. PICK n \in Nat \ {0} : n = Len(bs) /\ n < MAX_INCLUDES_NESTED
  BY NestedTypes
<1>2. /\ f \in Files /\ k \in Nat \ {0} /\ Len(source[f]) \in Nat /\ k < Len(source[f])
      /\ source[f][k][1] = "include" /\ g \in Files
      /\ bs[n].file = f /\ bs[n].at = k
  <2>1. /\ f \in Files /\ k \in Nat \ {0} /\ Len(source[f]) \in Nat
        /\ bs[n].file = f /\ bs[n].at = k
    BY <1>1, NestedTypes DEF At
  <2>2. k + 1 - 1 = k
    BY <2>1
  <2>3. Opens(f, k) /\ source[f][k][2] = g
    BY <2>1, <2>2 DEF OpenedAt
  <2> QED BY <2>1, <2>3 DEF Opens
<1>3. k <= Len(source[f]) /\ source[f][k][1] # "end"
  BY <1>2
<1>4. /\ cs \in Seq(Places) /\ Len(cs) = n /\ cs[n].file = f /\ cs[n].at = k + 1
      /\ \A i \in 1 .. n - 1 : cs[i] = bs[i]
  BY <1>1, <1>2, Advanced
<1>5. Nested(cs)
  BY <1>3, ShownNext
<1>6. PICK b \in Places : b = [file |-> g, at |-> 1]
  <2>1. [file |-> g, at |-> 1] \in [file : Files, at : Nat \ {0}]
    BY <1>2
  <2> QED BY <2>1 DEF Places
<1>7. /\ ds \in Seq(Places) /\ Len(ds) = n + 1 /\ ds[n + 1] = b
      /\ \A i \in 1 .. n : ds[i] = cs[i]
  <2> DEFINE S == Places
  <2>1. cs \in Seq(S) /\ b \in S /\ ds = Append(cs, b)
    BY <1>4, <1>6 DEF Behind
  <2> HIDE DEF S
  <2>2. ds \in Seq(S) /\ Len(ds) = n + 1 /\ ds[n + 1] = b /\ \A i \in 1 .. n : ds[i] = cs[i]
    BY <1>4, <2>1
  <2> QED BY <2>2 DEF S
<1>8. b.file = g /\ b.at = 1
  BY <1>6
<1>9. Nested(ds)
  <2>1. Reads(b)
    <3>1. Len(source[g]) \in Nat
      BY <1>2, SourceTyped
    <3>2. 1 <= Len(source[g]) + 1
      BY <3>1
    <3>3. \A j \in 1 .. 1 - 1 : FALSE
      OBVIOUS
    <3>4. ReadTo(g, 1)
      BY <3>2, <3>3 DEF ReadTo
    <3> QED BY <1>8, <3>4 DEF Reads
  <2>2. \A i \in 1 .. n + 1 : Reads(ds[i])
    <3>1. \A i \in 1 .. n + 1 : i = n + 1 \/ i \in 1 .. n
      OBVIOUS
    <3> QED BY <1>4, <1>5, <1>7, <2>1, <3>1 DEF Nested
  <2>3. Includes(cs[n], g)
    BY <1>4 DEF Includes
  <2>4. \A i \in 1 .. n + 1 - 1 : Includes(ds[i], ds[i + 1].file)
    <3> TAKE i \in 1 .. n + 1 - 1
    <3>1. CASE i = n
      <4>1. ds[i] = cs[n] /\ ds[i + 1].file = g
        BY <1>7, <1>8, <3>1
      <4> QED BY <2>3, <4>1
    <3>2. CASE i # n
      <4>1. i \in 1 .. n - 1 /\ i + 1 \in 1 .. n /\ i \in 1 .. n
        BY <3>2
      <4> QED BY <1>4, <1>5, <1>7, <4>1 DEF Nested
    <3> QED BY <3>1, <3>2
  <2>5. n + 1 \in 1 .. MAX_INCLUDES_NESTED
    BY <1>1, UpToIs
  <2>6. ds[1].file = Main
    <3>1. ds[1] = cs[1]
      BY <1>7
    <3> QED BY <1>5, <3>1 DEF Nested
  <2>7. n + 1 = Len(ds)
    BY <1>7
  <2> QED BY <1>7, <2>2, <2>4, <2>5, <2>6, <2>7 DEF Nested
<1> DEFINE w == Waiting(bs)
           r == OfFile(bs, n, k)
<1>10. w \in Seq(Token) /\ r \in Seq(Token) /\ Shown(bs) = w \o r
  BY <1>1, <1>2, ShownType DEF Shown
<1>11. Waiting(ds) = w \o r
  <2> DEFINE S == Seq(Token)
  <2>1. Waits(bs) \in Seq(S) /\ Len(Waits(bs)) = n - 1 /\ w = FlattenSeq(Waits(bs))
    BY <1>1, WaitsType
  <2>2. Waits(ds) \in Seq(S) /\ Len(Waits(ds)) = n /\ Waiting(ds) = FlattenSeq(Waits(ds))
    BY <1>7, <1>9, WaitsType
  <2>3. \A i \in 1 .. n - 1 : Waits(ds)[i] = Waits(bs)[i]
    <3> TAKE i \in 1 .. n - 1
    <3>1. Waits(bs)[i] = OfFile(bs, i, bs[i].at - 1)
      BY <1>1 DEF Waits
    <3>2. i \in 1 .. n + 1 - 1 /\ ds[i] = bs[i]
      BY <1>4, <1>7
    <3>3. Waits(ds)[i] = OfFile(ds, i, ds[i].at - 1)
      BY <1>7, <3>2 DEF Waits
    <3>4. OfFile(ds, i, bs[i].at - 1) = OfFile(bs, i, bs[i].at - 1)
      <4>1. SameFile(ds, bs, i)
        BY <3>2 DEF SameFile
      <4> QED BY <4>1, OfFileSame
    <3> QED BY <3>1, <3>2, <3>3, <3>4
  <2>4. Waits(ds)[n] = r
    <3>1. n \in 1 .. n + 1 - 1 /\ ds[n].at = k + 1 /\ ds[n].file = f /\ k + 1 - 1 = k
      BY <1>2, <1>4, <1>7
    <3>2. Waits(ds)[n] = OfFile(ds, n, ds[n].at - 1)
      BY <1>7, <3>1 DEF Waits
    <3>3. OfFile(ds, n, k) = OfFile(bs, n, k)
      <4>1. SameFile(ds, bs, n)
        BY <1>2, <3>1 DEF SameFile
      <4> QED BY <4>1, OfFileSame
    <3>4. ds[n].at - 1 = k
      BY <1>2, <3>1
    <3> QED BY <3>2, <3>3, <3>4
  <2> HIDE DEF r, w
  <2>5. Waits(ds) = Append(Waits(bs), r)
    <3> HIDE DEF S
    <3>1. r \in S
      BY <1>10 DEF S
    <3>2. /\ Append(Waits(bs), r) \in Seq(S) /\ Len(Append(Waits(bs), r)) = n
          /\ Append(Waits(bs), r)[n] = r
          /\ \A i \in 1 .. n - 1 : Append(Waits(bs), r)[i] = Waits(bs)[i]
      BY <2>1, <3>1
    <3>3. \A i \in 1 .. n : i = n \/ i \in 1 .. n - 1
      OBVIOUS
    <3>4. \A i \in 1 .. n : Append(Waits(bs), r)[i] = Waits(ds)[i]
      BY <2>3, <2>4, <3>2, <3>3
    <3> QED BY <2>2, <3>2, <3>4, SeqEqual
  <2>6. FlattenSeq(Append(Waits(bs), r)) = FlattenSeq(Waits(bs)) \o r
    BY <1>10, <2>1, FlattenAppend
  <2> QED BY <2>1, <2>2, <2>5, <2>6
<1>12. OfFile(ds, n + 1, 1) = << <<"enter", g>> >>
  <2>1. << <<"enter", g>> >> \o <<>> = << <<"enter", g>> >>
    OBVIOUS
  <2>2. n + 1 # 1 /\ ds[n + 1].file = g
    BY <1>7, <1>8
  <2> QED BY <2>1, <2>2, BeforeFirst DEF OfFile
<1>13. Shown(ds) = Shown(bs) \o << <<"enter", g>> >>
  BY <1>7, <1>8, <1>10, <1>11, <1>12 DEF Shown
<1>14. Shown(bs) \o << <<"enter", g>> >> = Append(Shown(bs), <<"enter", g>>)
  <2>1. <<"enter", g>> \in Token
    BY <1>2 DEF Token
  <2> QED BY <2>1, ShownType, AppendIsConcat
<1> QED BY <1>1, <1>7, <1>9, <1>13, <1>14

\* The last file is read to its end, or to the END in it.
AtItsEnd(f, k) == k = Len(source[f]) + 1 \/ source[f][k][1] = "end"

\* It is left for the one below.
LEMMA ShownClosed ==
  ASSUME source \in Sources, NEW bs, Nested(bs), Len(bs) > 1, NEW f, NEW k, At(bs, f, k), AtItsEnd(f, k)
  PROVE  Nested(Front(bs)) /\ Len(Front(bs)) = Len(bs) - 1 /\ Shown(Front(bs)) = Append(Shown(bs), <<"leave">>)
<1>1. PICK n \in Nat \ {0} : n + 1 = Len(bs)
  <2>1. PICK m \in Nat : m = Len(bs) /\ m > 1
    BY NestedTypes
  <2>2. m - 1 \in Nat \ {0} /\ m - 1 + 1 = m
    BY <2>1
  <2> QED BY <2>1, <2>2
<1>2. PICK cs : cs = Front(bs)
  OBVIOUS
<1>3. cs \in Seq(Places) /\ Len(cs) = n /\ \A i \in 1 .. n : cs[i] = bs[i]
  <2> DEFINE S == Places
  <2>1. bs \in Seq(S)
    BY DEF Nested
  <2> HIDE DEF S
  <2>2. cs = SubSeq(bs, 1, n)
    BY <1>1, <1>2 DEF Front
  <2>3. cs \in Seq(S) /\ Len(cs) = n /\ \A i \in 1 .. n : cs[i] = bs[i]
    BY <1>1, <2>1, <2>2
  <2> QED BY <2>3 DEF S
<1>4. Nested(cs)
  <2>1. n \in 1 .. MAX_INCLUDES_NESTED
    <3>1. n + 1 <= MAX_INCLUDES_NESTED
      BY <1>1, NestedTypes
    <3> QED BY <3>1, UpToIs
  <2>2. cs[1].file = Main
    BY <1>3 DEF Nested
  <2>3. \A i \in 1 .. n : i \in 1 .. n + 1 /\ i \in 1 .. n + 1 - 1
    OBVIOUS
  <2>4. \A i \in 1 .. n : Reads(cs[i])
    BY <1>1, <1>3, <2>3 DEF Nested
  <2>5. \A i \in 1 .. n - 1 : Includes(cs[i], cs[i + 1].file)
    <3> TAKE i \in 1 .. n - 1
    <3>1. i \in 1 .. n /\ i + 1 \in 1 .. n
      OBVIOUS
    <3>2. Includes(bs[i], bs[i + 1].file)
      BY <1>1, <2>3, <3>1 DEF Nested
    <3> QED BY <1>3, <3>1, <3>2
  <2> QED BY <1>3, <2>1, <2>2, <2>4, <2>5 DEF Nested
\* The file below has been read behind what opened this one.
<1>5. PICK g \in Files, j \in Nat \ {0} :
         /\ g = bs[n].file /\ j + 1 = bs[n].at /\ j \in 1 .. Len(source[g])
         /\ source[g][j][1] = "include" /\ source[g][j][2] = f /\ Opens(g, j)
  <2>1. n \in 1 .. Len(bs) - 1 /\ n \in 1 .. Len(bs)
    BY <1>1
  <2>2. Includes(bs[n], f)
    <3>1. Includes(bs[n], bs[n + 1].file)
      BY <2>1 DEF Nested
    <3> QED BY <1>1, <3>1 DEF At
  <2>3. PICK g \in Files, l \in Nat \ {0} : g = bs[n].file /\ l = bs[n].at /\ Len(source[g]) \in Nat
    BY <2>1, NestedTypes
  <2>4. OpenedAt(g, l, f)
    BY <2>2, <2>3 DEF Includes
  <2>5. l > 1 /\ Opens(g, l - 1) /\ source[g][l - 1][2] = f
    BY <2>4 DEF OpenedAt
  <2>6. PICK j \in Nat \ {0} : j = l - 1 /\ j + 1 = l
    BY <2>5
  <2>7. Opens(g, j) /\ source[g][j][2] = f
    BY <2>5, <2>6
  <2>8. j \in 1 .. Len(source[g]) /\ source[g][j][1] = "include"
    <3>1. j < Len(source[g]) /\ source[g][j][1] = "include"
      BY <2>7 DEF Opens
    <3>2. PICK m \in Nat : m = Len(source[g]) /\ j < m
      BY <2>3, <3>1
    <3>3. j \in 1 .. m
      BY <3>2
    <3> QED BY <3>1, <3>2, <3>3
  <2>9. g = bs[n].file /\ j + 1 = bs[n].at
    BY <2>3, <2>6
  <2> QED BY <2>7, <2>8, <2>9
<1>6. PICK d \in 0 .. MAX_INCLUDES_NESTED - 1 :
         d = MAX_INCLUDES_NESTED + 1 - (n + 1) /\ d + 1 = MAX_INCLUDES_NESTED + 1 - n /\ d + 1 # 0 /\ d + 1 - 1 = d
  <2>1. PICK m \in Nat : m = MAX_INCLUDES_NESTED
    BY UpToIs
  <2>2. n + 1 <= m
    BY <1>1, <2>1, NestedTypes
  <2>3. m - n \in 0 .. m - 1 /\ m - n = m + 1 - (n + 1) /\ m - n + 1 = m + 1 - n /\ m - n + 1 # 0 /\ m - n + 1 - 1 = m - n
    BY <2>2
  <2> QED BY <2>1, <2>3
<1>7. f \in Files /\ k \in Nat \ {0} /\ k <= Len(source[f]) + 1 /\ bs[n + 1].file = f /\ bs[n + 1].at = k
      /\ Reads(bs[n + 1]) /\ d \in 0 .. MAX_INCLUDES_NESTED
  <2>1. n + 1 \in 1 .. Len(bs)
    BY <1>1
  <2>2. bs[n + 1].file = f /\ bs[n + 1].at = k
    BY <1>1 DEF At
  <2>3. d \in 0 .. MAX_INCLUDES_NESTED
    BY <1>6, UpToIs
  <2> QED BY <2>1, <2>2, <2>3, NestedTypes DEF Nested
<1>8. UpTo[d][f] = Before(d, f, k) /\ UpTo[d][f] \in Seq(Token)
  <2>1. \A i \in 1 .. k - 1 : source[f][i][1] # "end"
    BY <1>7 DEF Reads, ReadTo
  <2>2. k = Len(source[f]) + 1 \/ source[f][k][1] = "end"
    BY DEF AtItsEnd
  <2> QED BY <1>7, <2>1, <2>2, WholeRead, UpToType
<1> DEFINE enter == << <<"enter", f>> >>
           leave == << <<"leave">> >>
           whole == UpTo[d][f]
           w == Waiting(cs)
           r == OfFile(cs, n, j)
<1>9. enter \in Seq(Token) /\ leave \in Seq(Token) /\ <<"leave">> \in Token
  <2>1. <<"enter", f>> \in Token /\ <<"leave">> \in Token
    BY <1>7 DEF Token
  <2> QED BY <2>1, OneToken
<1>10. Brings(UpTo, d + 1, g, j) = enter \o whole \o leave
  <2>1. PICK e : e = d + 1
    OBVIOUS
  <2>2. e # 0 /\ e - 1 = d
    BY <1>6, <2>1
  <2>3. Brings(UpTo, e, g, j) = << <<"enter", f>> >> \o UpTo[e - 1][f] \o << <<"leave">> >>
    BY <1>5, <2>2 DEF Brings
  <2> QED BY <2>1, <2>2, <2>3
<1>11. OfFile(bs, n + 1, k) = enter \o whole
  <2>1. n + 1 # 1
    BY <1>1
  <2> QED BY <1>6, <1>7, <1>8, <2>1 DEF OfFile
<1>12. w \in Seq(Token) /\ r \in Seq(Token)
  <2>1. n \in 1 .. Len(cs) /\ cs[n].file = g /\ j <= Len(source[g]) + 1
    BY <1>3, <1>5, SourceTyped
  <2> QED BY <1>4, <1>5, <2>1, WaitsType, OfFileType
<1>13. Waiting(bs) = w \o r
  <2> DEFINE S == Seq(Token)
  <2>1. Waits(bs) \in Seq(S) /\ Len(Waits(bs)) = n /\ Waiting(bs) = FlattenSeq(Waits(bs))
    BY <1>1, WaitsType
  <2>2. Waits(cs) \in Seq(S) /\ Len(Waits(cs)) = n - 1 /\ w = FlattenSeq(Waits(cs))
    BY <1>3, <1>4, WaitsType
  <2>3. \A i \in 1 .. n : Waits(bs)[i] = OfFile(bs, i, bs[i].at - 1)
    BY <1>1 DEF Waits
  <2>4. \A i \in 1 .. n - 1 : Waits(cs)[i] = OfFile(cs, i, cs[i].at - 1)
    BY <1>3 DEF Waits
  <2>5. \A i \in 1 .. n : \A l : OfFile(cs, i, l) = OfFile(bs, i, l)
    <3> TAKE i \in 1 .. n
    <3>1. SameFile(cs, bs, i)
      BY <1>3 DEF SameFile
    <3> QED BY <3>1, OfFileSame
  <2>6. \A i \in 1 .. n - 1 : Waits(bs)[i] = Waits(cs)[i]
    <3> TAKE i \in 1 .. n - 1
    <3>1. i \in 1 .. n /\ cs[i] = bs[i]
      BY <1>3
    <3> QED BY <2>3, <2>4, <2>5, <3>1
  <2>7. Waits(bs)[n] = r
    <3>1. n \in 1 .. n /\ bs[n].at - 1 = j
      <4>1. j + 1 - 1 = j
        OBVIOUS
      <4> QED BY <1>5, <4>1
    <3> QED BY <2>3, <2>5, <3>1
  <2> HIDE DEF r, w
  <2>8. Waits(bs) = Append(Waits(cs), r)
    <3> HIDE DEF S
    <3>1. r \in S
      BY <1>12 DEF S
    <3>2. /\ Append(Waits(cs), r) \in Seq(S) /\ Len(Append(Waits(cs), r)) = n
          /\ Append(Waits(cs), r)[n] = r
          /\ \A i \in 1 .. n - 1 : Append(Waits(cs), r)[i] = Waits(cs)[i]
      BY <2>2, <3>1
    <3>3. \A i \in 1 .. n : i = n \/ i \in 1 .. n - 1
      OBVIOUS
    <3>4. \A i \in 1 .. n : Append(Waits(cs), r)[i] = Waits(bs)[i]
      BY <2>6, <2>7, <3>2, <3>3
    <3> QED BY <2>1, <3>2, <3>4, SeqEqual
  <2>9. FlattenSeq(Append(Waits(cs), r)) = FlattenSeq(Waits(cs)) \o r
    BY <1>12, <2>2, FlattenAppend
  <2> QED BY <2>1, <2>2, <2>8, <2>9
<1>14. OfFile(cs, n, j + 1) = r \o (enter \o whole \o leave)
  <2>1. n \in 1 .. Len(cs) /\ cs[n].file = g
    BY <1>3, <1>5
  <2> HIDE DEF enter, whole, leave
  <2>2. OfFile(cs, n, j + 1) = OfFile(cs, n, j) \o Brings(UpTo, MAX_INCLUDES_NESTED + 1 - n, cs[n].file, j)
    BY <1>4, <1>5, <2>1, OfFileNext
  <2> QED BY <1>6, <1>10, <2>1, <2>2
<1>15. Shown(cs) = w \o (r \o (enter \o whole \o leave))
  <2>1. n = Len(cs) /\ cs[n].at = j + 1
    BY <1>3, <1>5
  <2>2. Shown(cs) = Waiting(cs) \o OfFile(cs, n, j + 1)
    BY <2>1 DEF Shown
  <2> HIDE DEF enter, whole, leave, r
  <2> QED BY <1>14, <2>2
<1>16. Shown(bs) = (w \o r) \o (enter \o whole)
  <2>1. Shown(bs) = Waiting(bs) \o OfFile(bs, n + 1, k)
    BY <1>1, <1>7 DEF Shown
  <2> HIDE DEF enter, whole, leave, r, w
  <2> QED BY <1>11, <1>13, <2>1
<1>17. whole \in Seq(Token)
  BY <1>8
<1> HIDE DEF enter, leave, whole, w, r
<1>18. Shown(cs) = Shown(bs) \o leave
  <2>1. PICK e, l : e = enter \o whole /\ l = e \o leave
    OBVIOUS
  <2>2. e \in Seq(Token) /\ l \in Seq(Token)
    BY <1>9, <1>17, <2>1, ConcatProperties
  <2>3. w \o r \in Seq(Token)
    BY <1>12, ConcatProperties
  <2>4. Associates(w, r, l) /\ Associates(w \o r, e, leave)
    BY <1>9, <1>12, <2>2, <2>3, JoinedInTurn
  <2>5. Shown(cs) = w \o (r \o l) /\ Shown(bs) = (w \o r) \o e
    BY <1>15, <1>16, <2>1
  <2>6. (w \o r) \o l = w \o (r \o l) /\ ((w \o r) \o e) \o leave = (w \o r) \o (e \o leave)
    BY <2>4 DEF Associates
  <2> QED BY <2>1, <2>5, <2>6
<1>19. Shown(bs) \o leave = Append(Shown(bs), <<"leave">>)
  BY <1>9, ShownType, AppendIsConcat DEF leave
<1> QED BY <1>1, <1>2, <1>3, <1>4, <1>18, <1>19

\* All is read, up to the end of the main file.
LEMMA ShownAtEnd ==
  ASSUME source \in Sources, NEW bs, Nested(bs), Len(bs) = 1, NEW f, NEW k, At(bs, f, k), AtItsEnd(f, k)
  PROVE  Append(Shown(bs), <<"end">>) = Expanded
<1>1. f = Main /\ bs[1].file = f /\ bs[1].at = k
  BY DEF At, Nested
<1>2. f \in Files /\ k \in Nat \ {0} /\ k <= Len(source[f]) + 1 /\ Reads(bs[1])
  BY <1>1, NestedTypes DEF Nested
<1>3. PICK d \in 0 .. MAX_INCLUDES_NESTED : d = MAX_INCLUDES_NESTED /\ d = MAX_INCLUDES_NESTED + 1 - 1
  BY UpToIs
<1>4. UpTo[d][f] = Before(d, f, k) /\ UpTo[d][f] \in Seq(Token)
  <2>1. \A i \in 1 .. k - 1 : source[f][i][1] # "end"
    BY <1>1, <1>2 DEF Reads, ReadTo
  <2>2. k = Len(source[f]) + 1 \/ source[f][k][1] = "end"
    BY DEF AtItsEnd
  <2> QED BY <1>2, <2>1, <2>2, WholeRead, UpToType
<1>5. OfFile(bs, 1, k) = <<>> \o Before(d, f, k)
  BY <1>1, <1>3 DEF OfFile
<1>6. Waiting(bs) = <<>>
  <2>1. [i \in 1 .. Len(bs) - 1 |-> OfFile(bs, i, bs[i].at - 1)] = <<>>
    OBVIOUS
  <2> QED BY <2>1, FlattenNothing DEF Waiting
<1>7. Shown(bs) = <<>> \o (<<>> \o Before(d, f, k))
  BY <1>1, <1>5, <1>6 DEF Shown
<1>8. Shown(bs) = UpTo[d][f]
  BY <1>4, <1>7, ConcatEmptySeq
<1> QED BY <1>1, <1>3, <1>8 DEF Expanded

----------------------------------------------------------------------------
(* What fetching has got, step by step.                                    *)

LEMMA GetsNext ==
  ASSUME source \in Sources, NEW bs, NEW depth, NEW lns, NEW line, NEW tokens, Gets(bs, depth, lns, line, tokens),
         NEW cs, Advances(cs, bs), NEW f, NEW k, At(bs, f, k), k <= Len(source[f]), source[f][k][1] # "end"
  PROVE  /\ Gets(cs, depth, lns, line + NewLines(source[f][k]),
                 tokens \o Brings(UpTo, MAX_INCLUDES_NESTED + 1 - Len(bs), f, k))
         /\ line = LineOf(f, k) /\ line \in Nat /\ k \in Nat \ {0}
<1>1. Nested(bs) /\ Len(bs) = depth + 1 /\ LinesKept(bs, lns, line) /\ tokens = Shown(bs)
  BY DEF Gets
<1>2. PICK n \in Nat \ {0} : n = Len(bs)
  BY <1>1, NestedTypes
<1>3. f \in Files /\ k \in Nat \ {0} /\ bs[n].file = f /\ bs[n].at = k /\ Len(source[f]) \in Nat
  BY <1>1, <1>2, NestedTypes DEF At
<1>4. k \in 1 .. Len(source[f])
  BY <1>3
<1>5. line = LineOf(f, k)
  BY <1>1, <1>2, <1>3 DEF LinesKept
<1>6. LineOf(f, k + 1) = line + NewLines(source[f][k]) /\ line \in Nat
  BY <1>3, <1>4, <1>5, LineNext
<1>7. Nested(cs) /\ Shown(cs) = tokens \o Brings(UpTo, MAX_INCLUDES_NESTED + 1 - Len(bs), f, k)
  BY <1>1, ShownNext
<1>8. Len(cs) = n /\ cs[n].file = f /\ cs[n].at = k + 1 /\ \A i \in 1 .. n - 1 : cs[i] = bs[i]
  BY <1>1, <1>2, <1>3, Advanced
<1>9. LinesKept(cs, lns, line + NewLines(source[f][k]))
  <2>1. lns \in [0 .. MAX_INCLUDES_NESTED - 1 -> Int] /\ \A i \in 1 .. n - 1 : lns[i - 1] = LineOf(cs[i].file, cs[i].at)
    BY <1>1, <1>2, <1>8 DEF LinesKept
  <2> QED BY <1>6, <1>8, <2>1 DEF LinesKept
<1> QED BY <1>1, <1>2, <1>3, <1>5, <1>6, <1>7, <1>8, <1>9 DEF Gets

\* A line that is noted for the file that is read itself.
Notes(mns, lns, depth, line) == mns = [lns EXCEPT ![depth] = line]

LEMMA LinesNoted ==
  ASSUME source \in Sources, NEW bs, Nested(bs), NEW lns, NEW line, LinesKept(bs, lns, line), line \in Nat,
         NEW n, n = Len(bs), NEW mns, Notes(mns, lns, n - 1, line)
  PROVE  LinesKept(bs, mns, line) /\ mns[n - 1] = line
<1>1. PICK m \in Nat \ {0} : m = MAX_INCLUDES_NESTED
  BY UpToIs
<1>2. n \in 1 .. m
  BY <1>1, NestedTypes
<1>3. lns \in [0 .. m - 1 -> Int] /\ \A i \in 1 .. n - 1 : lns[i - 1] = LineOf(bs[i].file, bs[i].at)
  BY <1>1 DEF LinesKept
<1>4. n - 1 \in 0 .. m - 1
  BY <1>1, <1>2
<1>5. mns \in [0 .. m - 1 -> Int] /\ mns[n - 1] = line /\ \A i \in 0 .. m - 1 : i # n - 1 => mns[i] = lns[i]
  BY <1>3, <1>4 DEF Notes
<1>6. \A i \in 1 .. n - 1 : mns[i - 1] = lns[i - 1]
  <2>1. \A i \in 1 .. n - 1 : i - 1 \in 0 .. m - 1 /\ i - 1 # n - 1
    BY <1>2
  <2> QED BY <1>5, <2>1
<1>7. line = LineOf(bs[n].file, bs[n].at)
  BY DEF LinesKept
<1> QED BY <1>1, <1>3, <1>5, <1>6, <1>7 DEF LinesKept

LEMMA GetsNoted ==
  ASSUME source \in Sources, NEW bs, NEW depth \in Nat, NEW lns, NEW line \in Nat, NEW tokens,
         Gets(bs, depth, lns, line, tokens), NEW mns, Notes(mns, lns, depth, line)
  PROVE  Gets(bs, depth, mns, line, tokens) /\ mns[depth] = line
<1>1. Nested(bs) /\ Len(bs) = depth + 1 /\ LinesKept(bs, lns, line) /\ tokens = Shown(bs)
  BY DEF Gets
<1>2. PICK n \in Nat : n = Len(bs) /\ n - 1 = depth
  BY <1>1
<1>3. LinesKept(bs, mns, line) /\ mns[n - 1] = line
  BY <1>1, <1>2, LinesNoted
<1> QED BY <1>1, <1>2, <1>3 DEF Gets

LEMMA GetsOpened ==
  ASSUME source \in Sources, NEW bs, NEW depth \in Nat, NEW lns, NEW line, NEW tokens,
         Gets(bs, depth, lns, line, tokens),
         NEW cs, Advances(cs, bs), NEW f, NEW k, At(bs, f, k), NEW g, OpenedAt(f, k + 1, g),
         depth + 1 < MAX_INCLUDES_NESTED, NEW ds, Behind(ds, cs, g), NEW mns, Notes(mns, lns, depth, line)
  PROVE  Gets(ds, depth + 1, mns, 1, Append(tokens, <<"enter", g>>)) /\ g \in Files
<1>1. Nested(bs) /\ Len(bs) = depth + 1 /\ LinesKept(bs, lns, line) /\ tokens = Shown(bs)
  BY DEF Gets
<1>2. PICK n \in Nat \ {0} : n = Len(bs) /\ n = depth + 1 /\ n - 1 = depth
  BY <1>1
<1>3. f \in Files /\ k \in Nat \ {0} /\ Len(source[f]) \in Nat /\ bs[n].file = f /\ bs[n].at = k
  BY <1>1, <1>2, NestedTypes DEF At
<1>4. Opens(f, k) /\ source[f][k][2] = g
  <2>1. k + 1 - 1 = k
    BY <1>3
  <2> QED BY <1>3, <2>1 DEF OpenedAt
<1>5. k < Len(source[f]) /\ source[f][k][1] = "include" /\ g \in Files
  BY <1>4 DEF Opens
<1>6. k <= Len(source[f]) /\ source[f][k][1] # "end" /\ NewLines(source[f][k]) = 0
  BY <1>3, <1>5 DEF NewLines
<1>7. /\ Gets(cs, depth, lns, line + 0, tokens \o Brings(UpTo, MAX_INCLUDES_NESTED + 1 - Len(bs), f, k))
      /\ line \in Nat
  BY <1>6, GetsNext
<1>8. PICK ts : Gets(cs, depth, lns, line, ts)
  <2>1. line + 0 = line
    BY <1>7
  <2> QED BY <1>7, <2>1
<1>9. Gets(cs, depth, mns, line, ts) /\ mns[depth] = line
  BY <1>7, <1>8, GetsNoted
<1>10. Len(cs) = n /\ LinesKept(cs, mns, line)
  BY <1>1, <1>2, <1>9, Advanced DEF Gets
<1>11. Nested(ds) /\ Len(ds) = n + 1 /\ Shown(ds) = Append(tokens, <<"enter", g>>)
  BY <1>1, <1>2, ShownOpened
<1>12. ds[n + 1].file = g /\ ds[n + 1].at = 1 /\ \A i \in 1 .. n : ds[i] = cs[i]
  <2>1. cs \in Seq(Places)
    BY <1>1, Advanced
  <2>2. PICK b : b = [file |-> g, at |-> 1]
    OBVIOUS
  <2>3. ds = Append(cs, b)
    BY <2>2 DEF Behind
  <2>4. ds[n + 1] = b /\ \A i \in 1 .. n : ds[i] = cs[i]
    BY <1>10, <2>1, <2>3
  <2> QED BY <2>2, <2>4
<1>13. LineOf(g, 1) = 1
  BY <1>5, LineNext
<1>14. LinesKept(ds, mns, 1)
  <2>1. /\ mns \in [0 .. MAX_INCLUDES_NESTED - 1 -> Int]
        /\ \A i \in 1 .. n - 1 : mns[i - 1] = LineOf(cs[i].file, cs[i].at)
        /\ line = LineOf(cs[n].file, cs[n].at)
    BY <1>10 DEF LinesKept
  <2>2. \A i \in 1 .. n + 1 - 1 : mns[i - 1] = LineOf(ds[i].file, ds[i].at)
    <3> TAKE i \in 1 .. n + 1 - 1
    <3>1. ds[i] = cs[i]
      BY <1>12
    <3>2. CASE i = n
      BY <1>2, <1>9, <2>1, <3>1, <3>2
    <3>3. CASE i # n
      <4>1. i \in 1 .. n - 1
        BY <3>3
      <4> QED BY <2>1, <3>1, <4>1
    <3> QED BY <3>2, <3>3
  <2> QED BY <1>11, <1>12, <1>13, <2>1, <2>2 DEF LinesKept
<1> QED BY <1>2, <1>5, <1>11, <1>14 DEF Gets

LEMMA GetsClosed ==
  ASSUME source \in Sources, NEW bs, NEW depth \in Nat \ {0}, NEW lns, NEW line, NEW tokens,
         Gets(bs, depth, lns, line, tokens), NEW f, NEW k, At(bs, f, k), AtItsEnd(f, k)
  PROVE  Gets(Front(bs), depth - 1, lns, lns[depth - 1], Append(tokens, <<"leave">>))
<1>1. Nested(bs) /\ Len(bs) = depth + 1 /\ LinesKept(bs, lns, line) /\ tokens = Shown(bs)
  BY DEF Gets
<1>2. PICK n \in Nat \ {0} : n = depth /\ Len(bs) = n + 1
  BY <1>1
<1>3. n + 1 > 1 /\ n + 1 - 1 = n /\ depth - 1 + 1 = n
  BY <1>2
<1>4. PICK cs : cs = Front(bs)
  OBVIOUS
<1>5. Nested(cs) /\ Len(cs) = n /\ Shown(cs) = Append(tokens, <<"leave">>)
  BY <1>1, <1>2, <1>3, <1>4, ShownClosed
<1>6. \A i \in 1 .. n : cs[i] = bs[i]
  <2> DEFINE S == Places
  <2>1. bs \in Seq(S)
    BY <1>1 DEF Nested
  <2> HIDE DEF S
  <2>2. cs = SubSeq(bs, 1, n)
    BY <1>2, <1>3, <1>4 DEF Front
  <2> QED BY <1>2, <2>1, <2>2
<1>7. /\ lns \in [0 .. MAX_INCLUDES_NESTED - 1 -> Int]
      /\ \A i \in 1 .. n : lns[i - 1] = LineOf(bs[i].file, bs[i].at)
  BY <1>1, <1>2, <1>3 DEF LinesKept
<1>8. \A i \in 1 .. n : lns[i - 1] = LineOf(cs[i].file, cs[i].at)
  BY <1>6, <1>7
<1>9. LinesKept(cs, lns, lns[n - 1])
  <2>1. \A i \in 1 .. n - 1 : i \in 1 .. n
    OBVIOUS
  <2>2. n \in 1 .. n
    OBVIOUS
  <2> QED BY <1>5, <1>7, <1>8, <2>1, <2>2 DEF LinesKept
<1> QED BY <1>2, <1>3, <1>4, <1>5, <1>9 DEF Gets

----------------------------------------------------------------------------
(* The source stays, and with it what it says of the rest.                 *)

LEMMA TextStays ==
  source' = source =>
     /\ \A f, k : LineOf(f, k)' = LineOf(f, k) /\ Opens(f, k)' = Opens(f, k)
     /\ Expanded' = Expanded /\ UpTo' = UpTo
     /\ \A d, f, k : Before(d, f, k)' = Before(d, f, k)
<1>1. source' = source => \A f, k : LineOf(f, k)' = LineOf(f, k) /\ Opens(f, k)' = Opens(f, k)
  BY DEF LineOf, Opens
<1>2. source' = source => UpTo' = UpTo
  BY DEF UpTo, Brings, LineOf, Used, Opens
<1>3. source' = source => Expanded' = Expanded
  BY <1>2 DEF Expanded
<1>4. source' = source => \A d, f, k : Before(d, f, k)' = Before(d, f, k)
  BY DEF Before, UpTo, Brings, LineOf, Used, Opens
<1> QED BY <1>1, <1>2, <1>3, <1>4

LEMMA GetsStays ==
  ASSUME source' = source
  PROVE  \A bs, depth, lns, line, tokens : Gets(bs, depth, lns, line, tokens) => Gets(bs, depth, lns, line, tokens)'
<1>1. \A bs : Nested(bs)' = Nested(bs)
  BY DEF Nested, Reads, ReadTo, Includes, OpenedAt, Opens
<1>2. \A bs, i, k : OfFile(bs, i, k)' = OfFile(bs, i, k)
  BY TextStays DEF OfFile
<1>3. \A bs : Shown(bs)' = Shown(bs)
  BY <1>2 DEF Shown, Waiting
<1>4. \A bs, lns, line : LinesKept(bs, lns, line)' = LinesKept(bs, lns, line)
  BY TextStays DEF LinesKept
<1> QED BY <1>1, <1>3, <1>4 DEF Gets

----------------------------------------------------------------------------
(* The steps of fetching.                                                  *)

LEMMA InitInv == Init => IInv
<1> SUFFICES ASSUME Init PROVE IInv
  OBVIOUS
<1>1. MAX_INCLUDES_NESTED \in Nat \ {0} /\ Main \in Files /\ TOKENS_BLOCK \in Nat /\ TOKENS_BLOCK > 2
  BY SourceAssumption
<1>2. Modes
  <2>1. IsLevel(0)
    BY <1>1 DEF IsLevel
  <2>2. /\ source \in Sources /\ phase = "fetch" /\ status = "run" /\ g_incStackDeepth = 0 /\ g_passNum = 0
        /\ streamsStack = << >> /\ mode = "line" /\ nest = 0
    BY DEF Init
  <2>3. g_errorCount \in BOOLEAN
    BY DEF Init
  <2>4. g_passNum \in 0 .. 1 /\ nest \in Nat /\ IsLevel(g_incStackDeepth)
    BY <2>1, <2>2
  <2>5. status \in {"run", "done", "rejected", "aborted", "crashed", "overrun", "wild"}
        /\ mode \in {"line", "late", "macro", "args", "skipmacro", "skipcond", "skipline"}
    BY <2>2
  <2> QED BY <2>2, <2>3, <2>4, <2>5 DEF Modes
<1>3. blocks = << << >> >> /\ source \in Sources
  BY DEF Init
<1>4. Chained(blocks)
  <2> DEFINE S == Seq(Token)
  <2>1. <<>> \in S
    OBVIOUS
  <2> HIDE DEF S
  <2>2. blocks \in Seq(S) /\ Len(blocks) = 1 /\ blocks[1] = <<>>
    BY <1>3, <2>1
  <2>3. Sequence(blocks)
    BY <2>2 DEF Sequence
  <2>4. Len(<<>>) = 0 /\ 0 <= TOKENS_BLOCK - 2
    BY <1>1
  <2>5. \A n \in 1 .. 1 - 1 : FALSE
    OBVIOUS
  <2> QED BY <2>1, <2>2, <2>3, <2>4, <2>5 DEF Chained, S
<1>5. PICK b \in Places : b = [file |-> Main, at |-> 1]
  <2>1. [file |-> Main, at |-> 1] \in [file : Files, at : Nat \ {0}]
    BY <1>1
  <2> QED BY <2>1 DEF Places
<1>6. buffers = <<b>> /\ b.file = Main /\ b.at = 1
  BY <1>5 DEF Init
<1>7. Nested(buffers)
  <2> DEFINE S == Places
  <2>1. b \in S
    BY <1>5
  <2> HIDE DEF S
  <2>2. buffers \in Seq(S) /\ Len(buffers) = 1 /\ buffers[1] = b
    BY <1>6, <2>1
  <2>3. 1 \in 1 .. MAX_INCLUDES_NESTED
    BY <1>1
  <2>4. Reads(b)
    <3>1. Len(source[Main]) \in Nat
      BY <1>1, <1>3, SourceTyped
    <3>2. 1 <= Len(source[Main]) + 1
      BY <3>1
    <3>3. \A j \in 1 .. 1 - 1 : FALSE
      OBVIOUS
    <3> QED BY <1>6, <3>2, <3>3 DEF Reads, ReadTo
  <2>5. \A i \in 1 .. 1 : i = 1
    OBVIOUS
  <2>6. \A i \in 1 .. 1 - 1 : FALSE
    OBVIOUS
  <2> QED BY <1>6, <2>2, <2>3, <2>4, <2>5, <2>6 DEF Nested, S
<1>8. LinesKept(buffers, inc_lines, 1)
  <2>1. LineOf(Main, 1) = 1
    BY <1>1, <1>3, LineNext
  <2>2. inc_lines \in [0 .. MAX_INCLUDES_NESTED - 1 -> Int]
    BY DEF Init
  <2>3. Len(buffers) = 1 /\ buffers[1] = b
    BY <1>6
  <2>4. \A i \in 1 .. 1 - 1 : FALSE
    OBVIOUS
  <2> QED BY <1>6, <2>1, <2>2, <2>3, <2>4 DEF LinesKept
<1>9. Tokens = <<>>
  <2>1. Held(blocks) = Append(<<>>, <<>>)
    BY <1>3 DEF Held
  <2>2. <<>> \in Seq(Seq(Token)) /\ <<>> \in Seq(Token)
    OBVIOUS
  <2>3. FlattenSeq(Append(<<>>, <<>>)) = FlattenSeq(<<>>) \o <<>>
    BY <2>2, FlattenAppend
  <2> QED BY <2>1, <2>3, TokensHeld, FlattenNothing
<1>10. Shown(buffers) = <<>>
  <2>1. Len(buffers) = 1 /\ buffers[1] = b
    BY <1>6
  <2>2. Waiting(buffers) = <<>>
    <3>1. [i \in 1 .. 1 - 1 |-> OfFile(buffers, i, buffers[i].at - 1)] = <<>>
      OBVIOUS
    <3> QED BY <2>1, <3>1, FlattenNothing DEF Waiting
  <2>3. OfFile(buffers, 1, 1) = <<>>
    BY BeforeFirst DEF OfFile
  <2> QED BY <1>6, <2>1, <2>2, <2>3 DEF Shown
<1>11. Len(buffers) = 0 + 1
  BY <1>6
<1>12. Reading
  BY <1>7, <1>8, <1>9, <1>10, <1>11 DEF Reading, Gets, Init
<1>13. Fetched
  BY DEF Fetched, Init
<1> QED BY <1>2, <1>4, <1>12, <1>13 DEF IInv

\* Where the file that is read stands.
LEMMA Standing ==
  ASSUME IInv, phase = "fetch"
  PROVE  /\ source \in Sources /\ Gets(buffers, g_incStackDeepth, inc_lines, g_currentLine, Tokens)
         /\ Chained(blocks) /\ g_incStackDeepth \in Nat /\ Len(buffers) = g_incStackDeepth + 1
         /\ \E f \in Files, k \in Nat \ {0} :
               /\ At(buffers, f, k) /\ Buffer.file = f /\ Buffer.at = k /\ k <= Len(source[f]) + 1
               /\ Len(source[f]) \in Nat
<1>1. /\ source \in Sources /\ Gets(buffers, g_incStackDeepth, inc_lines, g_currentLine, Tokens)
      /\ Chained(blocks) /\ IsLevel(g_incStackDeepth)
  BY DEF IInv, Modes, Reading
<1>2. PICK m \in Nat : m = MAX_INCLUDES_NESTED
  BY UpToIs
<1>3. g_incStackDeepth \in Nat
  BY <1>1, <1>2 DEF IsLevel
<1>4. Nested(buffers) /\ Len(buffers) = g_incStackDeepth + 1
  BY <1>1 DEF Gets
<1>5. Len(buffers) \in 1 .. Len(buffers)
  BY <1>3, <1>4
<1>6. PICK b : b = buffers[Len(buffers)]
  OBVIOUS
<1>7. b.file \in Files /\ b.at \in Nat \ {0} /\ b.at <= Len(source[b.file]) + 1 /\ Len(source[b.file]) \in Nat
  BY <1>1, <1>4, <1>5, <1>6, NestedTypes
<1>8. At(buffers, b.file, b.at) /\ Buffer = b
  BY <1>6 DEF At, Buffer
<1> QED BY <1>1, <1>3, <1>4, <1>7, <1>8

LEMMA Lexed ==
  ASSUME NEW kinds, Lexes(kinds), NEW f \in Files, NEW k \in Nat \ {0}, Buffer.file = f, Buffer.at = k,
         Len(source[f]) \in Nat
  PROVE  k <= Len(source[f]) /\ Piece = source[f][k] /\ Text = source[f] /\ source[f][k][1] \in kinds
<1>1. Text = source[f] /\ Piece = source[f][k]
  BY DEF Text, Piece
<1>2. ~(k > Len(source[f]))
  BY <1>1 DEF Lexes, AtEof
<1> QED BY <1>1, <1>2 DEF Lexes

LEMMA ConsumedAdvances == Advances(Consumed, buffers)
BY DEF Advances, Consumed

LEMMA TokensNow == Tokens' = FlattenSeq(Held(blocks'))
BY DEF Tokens, Held

GotNext == Gets(buffers', g_incStackDeepth', inc_lines', g_currentLine', Tokens')
FetchingOn ==
    /\ source' = source /\ phase' = phase /\ status' = status /\ g_passNum' = g_passNum
    /\ g_errorCount' \in BOOLEAN /\ UNCHANGED parser

LEMMA FetchesOn ==
  ASSUME IInv, phase = "fetch", FetchingOn, GotNext, Chained(blocks'), IsLevel(g_incStackDeepth')
  PROVE  IInv'
<1>1. Reading'
  <2>1. Gets(buffers, g_incStackDeepth, inc_lines, g_currentLine, Tokens)'
    <3>1. source' = source
      BY DEF FetchingOn
    <3>2. \A bs, depth, lns, line, tokens : Gets(bs, depth, lns, line, tokens) => Gets(bs, depth, lns, line, tokens)'
      BY <3>1, GetsStays
    <3> QED BY <3>2 DEF GotNext
  <2> QED BY <2>1 DEF Reading
<1>2. Fetched'
  BY DEF FetchingOn, Fetched
<1>3. Modes'
  BY DEF FetchingOn, Modes, IInv, parser, IsLevel
<1>4. Chained(blocks)'
  BY DEF Chained, Linked, Sequence
<1> QED BY <1>1, <1>2, <1>3, <1>4 DEF IInv

LEMMA StepEndOfLine == ASSUME IInv, EndOfLine PROVE IInv'
<1>1. /\ Lexes({"nl", "comment"}) /\ phase = "fetch"
      /\ g_currentLine' = g_currentLine + NewLines(Piece) /\ blocks' = Stored(<<"eol", g_currentLine'>>)
      /\ buffers' = Consumed /\ g_incStackDeepth' = g_incStackDeepth /\ inc_lines' = inc_lines
  BY DEF EndOfLine, Lexes, Fetching, levels
<1>2. FetchingOn
  <2>1. g_errorCount \in BOOLEAN
    BY DEF IInv, Modes
  <2> QED BY <2>1 DEF EndOfLine, FetchingOn
<1>3. PICK f \in Files, k \in Nat \ {0} :
         At(buffers, f, k) /\ Buffer.file = f /\ Buffer.at = k /\ k <= Len(source[f]) + 1 /\ Len(source[f]) \in Nat
  BY <1>1, Standing
<1>4. PICK p : p = source[f][k]
  OBVIOUS
<1>5. k <= Len(source[f]) /\ Piece = p /\ p[1] \in {"nl", "comment"}
  BY <1>1, <1>3, <1>4, Lexed
<1>6. Gets(buffers, g_incStackDeepth, inc_lines, g_currentLine, Tokens) /\ source \in Sources /\ Chained(blocks)
  BY <1>1, Standing
<1>7. /\ Gets(Consumed, g_incStackDeepth, inc_lines, g_currentLine + NewLines(p),
              Tokens \o Brings(UpTo, MAX_INCLUDES_NESTED + 1 - Len(buffers), f, k))
      /\ g_currentLine = LineOf(f, k) /\ g_currentLine \in Nat
  BY <1>3, <1>4, <1>5, <1>6, ConsumedAdvances, GetsNext
<1>8. PICK t : t = <<"eol", g_currentLine'>>
  OBVIOUS
<1>9. Brings(UpTo, MAX_INCLUDES_NESTED + 1 - Len(buffers), f, k) = <<t>>
  <2>1. ~Opens(f, k)
    BY <1>4, <1>5 DEF Opens
  <2>2. t = <<"eol", LineOf(f, k) + NewLines(source[f][k])>>
    BY <1>1, <1>4, <1>5, <1>7, <1>8
  <2>3. source[f][k][1] \in {"nl", "comment"}
    BY <1>4, <1>5
  <2> QED BY <2>1, <2>2, <2>3 DEF Brings
<1>10. t \in Token
  <2>1. p \in Pieces
    <3>1. k \in 1 .. Len(source[f])
      BY <1>5
    <3> QED BY <1>4, <1>6, <3>1, SourceTyped
  <2>2. NewLines(p) \in Nat
    BY <2>1, NewLinesNatural
  <2>3. g_currentLine' \in Nat
    BY <1>1, <1>5, <1>7, <2>2
  <2> QED BY <1>8, <2>3 DEF Token
<1>11. Chained(blocks') /\ Tokens' = Append(Tokens, t)
  BY <1>1, <1>6, <1>8, <1>10, StoredToken, TokensNow
<1>12. Tokens' = Tokens \o <<t>>
  BY <1>6, <1>10, <1>11, ShownType, AppendIsConcat DEF Gets
<1>13. GotNext
  BY <1>1, <1>5, <1>7, <1>9, <1>12 DEF GotNext
<1>14. IsLevel(g_incStackDeepth')
  BY <1>1 DEF IInv, Modes
<1> QED BY <1>1, <1>2, <1>11, <1>13, <1>14, FetchesOn

LEMMA StepStatement == ASSUME IInv, Statement PROVE IInv'
<1> DEFINE kinds == {"code", "macro", "endm", "call", "if", "else", "endc"}
<1>1. /\ Lexes(kinds) /\ phase = "fetch"
      /\ blocks' = Stored(IF Piece[1] = "code" THEN Piece \o << <<Buffer.file, Buffer.at>> >> ELSE Piece)
      /\ buffers' = Consumed /\ g_incStackDeepth' = g_incStackDeepth /\ inc_lines' = inc_lines
      /\ g_currentLine' = g_currentLine
  BY DEF Statement, Lexes, Fetching, levels, lines
<1>2. FetchingOn
  <2>1. g_errorCount \in BOOLEAN
    BY DEF IInv, Modes
  <2> QED BY <2>1 DEF Statement, FetchingOn
<1>3. PICK f \in Files, k \in Nat \ {0} :
         At(buffers, f, k) /\ Buffer.file = f /\ Buffer.at = k /\ k <= Len(source[f]) + 1 /\ Len(source[f]) \in Nat
  BY <1>1, Standing
<1>4. PICK p : p = source[f][k]
  OBVIOUS
<1>5. k <= Len(source[f]) /\ Piece = p /\ p[1] \in kinds
  <2> HIDE DEF kinds
  <2> QED BY <1>1, <1>3, <1>4, Lexed
<1>6. Gets(buffers, g_incStackDeepth, inc_lines, g_currentLine, Tokens) /\ source \in Sources /\ Chained(blocks)
  BY <1>1, Standing
<1>7. /\ Gets(Consumed, g_incStackDeepth, inc_lines, g_currentLine + NewLines(p),
              Tokens \o Brings(UpTo, MAX_INCLUDES_NESTED + 1 - Len(buffers), f, k))
      /\ g_currentLine \in Nat
  <2>1. p[1] # "end"
    BY <1>5
  <2> QED BY <1>3, <1>4, <1>5, <1>6, <2>1, ConsumedAdvances, GetsNext
<1>8. g_currentLine + NewLines(p) = g_currentLine
  <2>1. NewLines(p) = 0
    BY <1>5 DEF NewLines
  <2> QED BY <1>7, <2>1
<1>9. PICK t : t = IF p[1] = "code" THEN p \o << <<f, k>> >> ELSE p
  OBVIOUS
<1>10. Brings(UpTo, MAX_INCLUDES_NESTED + 1 - Len(buffers), f, k) = <<t>>
  <2>1. ~Opens(f, k)
    BY <1>4, <1>5 DEF Opens
  <2> QED BY <1>4, <1>5, <1>9, <2>1 DEF Brings
<1>11. t \in Token
  <2>1. p \in Pieces
    <3>1. k \in 1 .. Len(source[f])
      BY <1>5
    <3> QED BY <1>4, <1>6, <3>1, SourceTyped
  <2> QED BY <1>9, <2>1, PieceKinds, CodeToken
<1>12. Chained(blocks') /\ Tokens' = Append(Tokens, t)
  <2>1. blocks' = Stored(t)
    BY <1>1, <1>3, <1>5, <1>9
  <2> QED BY <1>6, <1>11, <2>1, StoredToken, TokensNow
<1>13. Tokens' = Tokens \o <<t>>
  BY <1>6, <1>11, <1>12, ShownType, AppendIsConcat DEF Gets
<1>14. GotNext
  BY <1>1, <1>7, <1>8, <1>10, <1>13 DEF GotNext
<1>15. IsLevel(g_incStackDeepth')
  BY <1>1 DEF IInv, Modes
<1> QED BY <1>1, <1>2, <1>12, <1>14, <1>15, FetchesOn

LEMMA StepCannotInclude == ASSUME IInv, CannotInclude PROVE IInv'
<1>1. /\ Lexes({"include"}) /\ phase = "fetch"
      /\ Buffer.at = Len(Text) \/ Piece[2] \in Missing
      /\ blocks' = blocks
      /\ inc_lines' = IF Buffer.at = Len(Text) THEN inc_lines ELSE [inc_lines EXCEPT ![g_incStackDeepth] = g_currentLine]
      /\ buffers' = Consumed /\ g_incStackDeepth' = g_incStackDeepth
      /\ g_currentLine' = g_currentLine
  BY DEF CannotInclude, Lexes, Fetching, lines
<1>2. FetchingOn
  BY DEF CannotInclude, FetchingOn
<1>3. PICK f \in Files, k \in Nat \ {0} :
         At(buffers, f, k) /\ Buffer.file = f /\ Buffer.at = k /\ k <= Len(source[f]) + 1 /\ Len(source[f]) \in Nat
  BY <1>1, Standing
<1>4. PICK p : p = source[f][k]
  OBVIOUS
<1>5. k <= Len(source[f]) /\ Piece = p /\ p[1] = "include" /\ Text = source[f]
  <2>1. p[1] \in {"include"}
    BY <1>1, <1>3, <1>4, Lexed
  <2> QED BY <1>1, <1>3, <1>4, <2>1, Lexed
<1>6. /\ Gets(buffers, g_incStackDeepth, inc_lines, g_currentLine, Tokens) /\ source \in Sources /\ Chained(blocks)
      /\ g_incStackDeepth \in Nat
  BY <1>1, Standing
<1>7. /\ Gets(Consumed, g_incStackDeepth, inc_lines, g_currentLine + NewLines(p),
              Tokens \o Brings(UpTo, MAX_INCLUDES_NESTED + 1 - Len(buffers), f, k))
      /\ g_currentLine \in Nat
  <2>1. p[1] # "end"
    BY <1>5
  <2> QED BY <1>3, <1>4, <1>5, <1>6, <2>1, ConsumedAdvances, GetsNext
<1>8. g_currentLine + NewLines(p) = g_currentLine
  <2>1. NewLines(p) = 0
    BY <1>5 DEF NewLines
  <2> QED BY <1>7, <2>1
<1>9. ~Opens(f, k)
  <2>1. k = Len(source[f]) => ~(k < Len(source[f]))
    BY <1>3
  <2>2. Missing \cap Files = {}
    BY SourceAssumption
  <2> QED BY <1>1, <1>3, <1>4, <1>5, <2>1, <2>2 DEF Opens
<1>10. Brings(UpTo, MAX_INCLUDES_NESTED + 1 - Len(buffers), f, k) = <<>>
  BY <1>4, <1>5, <1>9 DEF Brings
<1>11. Tokens' = Tokens /\ Tokens \o <<>> = Tokens
  <2>1. Tokens \in Seq(Token)
    BY <1>6, ShownType DEF Gets
  <2>2. Tokens \o <<>> = Tokens
    BY <2>1, ConcatEmptySeq
  <2> QED BY <1>1, <2>2, TokensHeld, TokensNow
<1>12. Gets(Consumed, g_incStackDeepth, inc_lines, g_currentLine, Tokens)
  BY <1>7, <1>8, <1>10, <1>11
<1>13. GotNext
  <2>1. inc_lines' = inc_lines \/ Notes(inc_lines', inc_lines, g_incStackDeepth, g_currentLine)
    BY <1>1 DEF Notes
  <2>2. Gets(Consumed, g_incStackDeepth, inc_lines', g_currentLine, Tokens)
    BY <1>6, <1>7, <1>12, <2>1, GetsNoted
  <2> QED BY <1>1, <1>11, <2>2 DEF GotNext
<1>14. IsLevel(g_incStackDeepth') /\ Chained(blocks')
  BY <1>1, <1>6 DEF IInv, Modes
<1> QED BY <1>1, <1>2, <1>13, <1>14, FetchesOn

\* A run that ends where it stands.
LEMMA StepDies ==
  ASSUME IInv, NEW how \in {"aborted", "crashed", "overrun", "wild"}, Dies(how)
  PROVE  IInv'
<1>1. /\ source' = source /\ phase' = phase /\ buffers' = buffers /\ blocks' = blocks
      /\ g_incStackDeepth' = g_incStackDeepth /\ inc_lines' = inc_lines /\ g_currentLine' = g_currentLine
      /\ g_passNum' = g_passNum /\ g_errorCount' = g_errorCount /\ UNCHANGED parser /\ status' = how
  BY DEF Dies, levels, lines
<1>2. Modes'
  BY <1>1 DEF Modes, IInv, parser, IsLevel
<1>3. Chained(blocks)'
  BY <1>1 DEF Chained, Linked, Sequence, IInv
<1>4. Tokens' = Tokens
  BY <1>1, TokensHeld, TokensNow
<1>5. Reading'
  <2>1. phase = "fetch" => GotNext
    BY <1>1, <1>4 DEF IInv, Reading, GotNext
  <2>2. \A bs, depth, lns, line, tokens : Gets(bs, depth, lns, line, tokens) => Gets(bs, depth, lns, line, tokens)'
    BY <1>1, GetsStays
  <2>3. phase = "fetch" => Gets(buffers, g_incStackDeepth, inc_lines, g_currentLine, Tokens)'
    BY <2>1, <2>2 DEF GotNext
  <2> QED BY <1>1, <2>3 DEF Reading
<1>6. Fetched'
  <2>1. Expanded' = Expanded
    BY <1>1, TextStays
  <2>2. streamsStack' = streamsStack
    BY <1>1 DEF parser
  <2> QED BY <1>1, <1>4, <2>1, <2>2 DEF Fetched, IInv, Sequence
<1> QED BY <1>2, <1>3, <1>5, <1>6 DEF IInv

LEMMA StepIncludeFile == ASSUME IInv, IncludeFile PROVE IInv'
<1>1. CASE ~IsLevel(g_incStackDeepth + 1)
  <2>1. Dies("wild")
    BY <1>1 DEF IncludeFile
  <2> QED BY <2>1, StepDies
<1>2. CASE IsLevel(g_incStackDeepth + 1)
  <2>1. /\ Lexes({"include"}) /\ phase = "fetch"
        /\ Buffer.at < Len(Text) /\ Piece[2] \in Files
        /\ inc_lines' = [inc_lines EXCEPT ![g_incStackDeepth] = g_currentLine]
        /\ g_incStackDeepth' = g_incStackDeepth + 1 /\ g_currentLine' = 1
        /\ blocks' = Stored(<<"enter", Piece[2]>>)
        /\ buffers' = Append(Consumed, [file |-> Piece[2], at |-> 1])
    BY <1>2 DEF IncludeFile, Lexes, Fetching
  <2>2. FetchingOn
    <3>1. g_errorCount \in BOOLEAN
      BY DEF IInv, Modes
    <3> QED BY <1>2, <3>1 DEF IncludeFile, FetchingOn
  <2>3. PICK f \in Files, k \in Nat \ {0} :
           At(buffers, f, k) /\ Buffer.file = f /\ Buffer.at = k /\ k <= Len(source[f]) + 1 /\ Len(source[f]) \in Nat
    BY <2>1, Standing
  <2>4. PICK p : p = source[f][k]
    OBVIOUS
  <2>5. Piece = p /\ p[1] = "include" /\ Text = source[f] /\ k < Len(source[f])
    <3>1. p[1] \in {"include"}
      BY <2>1, <2>3, <2>4, Lexed
    <3> QED BY <2>1, <2>3, <2>4, <3>1, Lexed
  <2>6. PICK g \in Files : g = p[2]
    BY <2>1, <2>5
  <2>7. OpenedAt(f, k + 1, g)
    <3>1. k + 1 - 1 = k /\ k + 1 > 1
      BY <2>3
    <3>2. Opens(f, k)
      BY <2>4, <2>5, <2>6 DEF Opens
    <3> QED BY <2>4, <2>6, <3>1, <3>2 DEF OpenedAt
  <2>8. /\ Gets(buffers, g_incStackDeepth, inc_lines, g_currentLine, Tokens) /\ source \in Sources /\ Chained(blocks)
        /\ g_incStackDeepth \in Nat
    BY <2>1, Standing
  <2>9. g_incStackDeepth + 1 < MAX_INCLUDES_NESTED
    BY <1>2, <2>8, UpToIs DEF IsLevel
  <2>10. Behind(buffers', Consumed, g) /\ Notes(inc_lines', inc_lines, g_incStackDeepth, g_currentLine)
    BY <2>1, <2>5, <2>6 DEF Behind, Notes
  <2>11. PICK t : t = <<"enter", g>>
    OBVIOUS
  <2>12. Gets(buffers', g_incStackDeepth + 1, inc_lines', 1, Append(Tokens, t))
    BY <2>3, <2>7, <2>8, <2>9, <2>10, <2>11, ConsumedAdvances, GetsOpened
  <2>13. t \in Token
    BY <2>11 DEF Token
  <2>14. Chained(blocks') /\ Tokens' = Append(Tokens, t)
    <3>1. blocks' = Stored(t)
      BY <2>1, <2>5, <2>6, <2>11
    <3> QED BY <2>8, <2>13, <3>1, StoredToken, TokensNow
  <2>15. GotNext
    BY <2>1, <2>12, <2>14 DEF GotNext
  <2>16. IsLevel(g_incStackDeepth')
    BY <1>2, <2>1
  <2> QED BY <2>1, <2>2, <2>14, <2>15, <2>16, FetchesOn
<1> QED BY <1>1, <1>2

\* The file that is read has come to its end.
LEMMA EndIsReached ==
  ASSUME AtEnd, NEW f \in Files, NEW k \in Nat \ {0}, Buffer.file = f, Buffer.at = k,
         k <= Len(source[f]) + 1, Len(source[f]) \in Nat
  PROVE  AtItsEnd(f, k)
<1>1. Text = source[f] /\ Piece = source[f][k]
  BY DEF Text, Piece
<1>2. CASE k > Len(source[f])
  <2>1. k = Len(source[f]) + 1
    BY <1>2
  <2> QED BY <2>1 DEF AtItsEnd
<1>3. CASE ~(k > Len(source[f]))
  BY <1>1, <1>3 DEF AtEnd, AtEof, AtItsEnd
<1> QED BY <1>2, <1>3

LEMMA StepPopFile == ASSUME IInv, PopFile PROVE IInv'
<1>1. /\ AtEnd /\ phase = "fetch" /\ g_incStackDeepth > 0 /\ g_incStackDeepth' = g_incStackDeepth - 1
      /\ g_currentLine' = inc_lines[g_incStackDeepth - 1] /\ inc_lines' = inc_lines
      /\ blocks' = Stored(<<"leave">>) /\ buffers' = Front(buffers)
  BY DEF PopFile, Fetching, Resumed
<1>2. FetchingOn
  <2>1. g_errorCount \in BOOLEAN
    BY DEF IInv, Modes
  <2> QED BY <2>1 DEF PopFile, FetchingOn
<1>3. PICK f \in Files, k \in Nat \ {0} :
         At(buffers, f, k) /\ Buffer.file = f /\ Buffer.at = k /\ k <= Len(source[f]) + 1 /\ Len(source[f]) \in Nat
  BY <1>1, Standing
<1>4. AtItsEnd(f, k)
  BY <1>1, <1>3, EndIsReached
<1>5. /\ Gets(buffers, g_incStackDeepth, inc_lines, g_currentLine, Tokens) /\ source \in Sources /\ Chained(blocks)
      /\ g_incStackDeepth \in Nat \ {0}
  <2>1. g_incStackDeepth \in Nat
    BY <1>1, Standing
  <2>2. g_incStackDeepth # 0
    BY <1>1, <2>1
  <2> QED BY <1>1, <2>1, <2>2, Standing
<1>6. Gets(Front(buffers), g_incStackDeepth - 1, inc_lines, inc_lines[g_incStackDeepth - 1], Append(Tokens, <<"leave">>))
  BY <1>3, <1>4, <1>5, GetsClosed
<1>7. <<"leave">> \in Token
  BY DEF Token
<1>8. Chained(blocks') /\ Tokens' = Append(Tokens, <<"leave">>)
  BY <1>1, <1>5, <1>7, StoredToken, TokensNow
<1>9. GotNext
  BY <1>1, <1>6, <1>8 DEF GotNext
<1>10. IsLevel(g_incStackDeepth')
  <2>1. IsLevel(g_incStackDeepth) /\ MAX_INCLUDES_NESTED \in Nat
    BY UpToIs DEF IInv, Modes
  <2> QED BY <1>1, <1>5, <2>1 DEF IsLevel
<1> QED BY <1>1, <1>2, <1>8, <1>9, <1>10, FetchesOn

LEMMA OneStream == \A x : Sequence(<<x>>) /\ Len(<<x>>) = 1
<1> TAKE x
<1>1. <<x>> \in Seq({x}) /\ Len(<<x>>) = 1
  OBVIOUS
<1> QED BY <1>1 DEF Sequence

LEMMA StepEndOfFetch == ASSUME IInv, EndOfFetch PROVE IInv'
<1>1. /\ AtEnd /\ phase = "fetch" /\ g_incStackDeepth = 0 /\ g_incStackDeepth' = 0
      /\ source' = source /\ phase' = "parse" /\ status' = status /\ g_passNum' = g_passNum
      /\ mode' = mode /\ nest' = nest /\ blocks' = Stored(<<"end">>) /\ buffers' = << >>
  BY DEF EndOfFetch, Fetching, Restart
<1>2. g_errorCount' = g_errorCount
  BY DEF EndOfFetch
<1>3. PICK f \in Files, k \in Nat \ {0} :
         At(buffers, f, k) /\ Buffer.file = f /\ Buffer.at = k /\ k <= Len(source[f]) + 1 /\ Len(source[f]) \in Nat
  BY <1>1, Standing
<1>4. AtItsEnd(f, k)
  BY <1>1, <1>3, EndIsReached
<1>5. Nested(buffers) /\ Len(buffers) = 1 /\ Tokens = Shown(buffers) /\ source \in Sources /\ Chained(blocks)
  <2>1. Gets(buffers, g_incStackDeepth, inc_lines, g_currentLine, Tokens) /\ source \in Sources /\ Chained(blocks)
    BY <1>1, Standing
  <2>2. Len(buffers) = 0 + 1
    BY <1>1, <2>1 DEF Gets
  <2>3. Len(buffers) = 1
    BY <2>2
  <2> QED BY <2>1, <2>3 DEF Gets
<1>6. Append(Tokens, <<"end">>) = Expanded
  BY <1>3, <1>4, <1>5, ShownAtEnd
<1>7. <<"end">> \in Token
  BY DEF Token
<1>8. Chained(blocks') /\ Tokens' = Append(Tokens, <<"end">>)
  BY <1>1, <1>5, <1>7, StoredToken, TokensNow
<1>9. Tokens' = Expanded'
  BY <1>1, <1>6, <1>8, TextStays
<1>10. Sequence(streamsStack') /\ Len(streamsStack') = 1
  BY OneStream DEF EndOfFetch, Restart
<1>11. Fetched'
  <2>1. 1 \in 1 .. MAX_INCLUDES_NESTED
    BY UpToIs
  <2> QED BY <1>1, <1>9, <1>10, <2>1 DEF Fetched, Sequence
<1>12. Modes'
  <2>1. IsLevel(0)
    BY UpToIs DEF IsLevel
  <2>2. g_errorCount' \in BOOLEAN
    BY <1>2 DEF IInv, Modes
  <2>3. IsLevel(g_incStackDeepth)'
    BY <1>1, <2>1 DEF IsLevel
  <2>4. (phase \in {"fetch", "parse"})' /\ ~(phase = "fetch")'
    BY <1>1
  <2> QED BY <1>1, <2>2, <2>3, <2>4 DEF IInv, Modes
<1>13. Chained(blocks)'
  BY <1>8 DEF Chained, Linked, Sequence
<1>14. Reading'
  BY <1>1 DEF Reading
<1> QED BY <1>11, <1>12, <1>13, <1>14 DEF IInv

----------------------------------------------------------------------------
(* The passes leave what has been fetched, and keep to the levels.          *)

Stream(s) == Sequence(s) /\ Len(s) \in 1 .. MAX_INCLUDES_NESTED

ParsingOn ==
    /\ source' = source /\ phase' = phase /\ buffers' = buffers /\ blocks' = blocks
    /\ status' \in {"run", "done", "rejected", "aborted", "crashed", "overrun", "wild"}
    /\ g_passNum' \in 0 .. 1 /\ g_errorCount' \in BOOLEAN
    /\ mode' \in {"line", "late", "macro", "args", "skipmacro", "skipcond", "skipline"} /\ nest' \in Nat

LEMMA ParsesOn ==
  ASSUME IInv, phase = "parse", ParsingOn, IsLevel(g_incStackDeepth'), Stream(streamsStack')
  PROVE  IInv'
<1>1. Modes'
  <2>1. IsLevel(g_incStackDeepth)'
    BY DEF IsLevel
  <2> QED BY <2>1 DEF ParsingOn, Modes, IInv
<1>2. Chained(blocks)'
  BY DEF ParsingOn, Chained, Linked, Sequence, IInv
<1>3. Tokens' = Tokens
  BY TokensHeld, TokensNow DEF ParsingOn
<1>4. Reading'
  BY DEF ParsingOn, Reading
<1>5. Fetched'
  <2>1. Expanded' = Expanded
    BY TextStays DEF ParsingOn
  <2>2. Tokens = Expanded /\ buffers = << >>
    BY DEF IInv, Fetched
  <2>3. Tokens' = Expanded' /\ buffers' = << >>
    BY <1>3, <2>1, <2>2 DEF ParsingOn
  <2>4. Sequence(streamsStack)' /\ (Len(streamsStack) \in 1 .. MAX_INCLUDES_NESTED)'
    BY DEF Stream, Sequence
  <2> QED BY <2>3, <2>4 DEF Fetched
<1> QED BY <1>1, <1>2, <1>4, <1>5 DEF IInv

\* What holds as long as the parser reads.
LEMMA ParsingFacts ==
  ASSUME IInv, phase = "parse"
  PROVE  /\ Stream(streamsStack) /\ IsLevel(g_incStackDeepth) /\ nest \in Nat /\ g_passNum \in 0 .. 1
         /\ g_errorCount \in BOOLEAN
         /\ status \in {"run", "done", "rejected", "aborted", "crashed", "overrun", "wild"}
         /\ mode \in {"line", "late", "macro", "args", "skipmacro", "skipcond", "skipline"}
         /\ MAX_INCLUDES_NESTED \in Nat \ {0}
         /\ Len(streamsStack) \in Nat
<1>1. Stream(streamsStack) /\ MAX_INCLUDES_NESTED \in Nat \ {0}
  BY UpToIs DEF IInv, Fetched, Stream
<1>2. Len(streamsStack) \in Nat
  BY <1>1 DEF Stream
<1> QED BY <1>1, <1>2 DEF IInv, Modes

LEMMA TakenStream ==
  ASSUME Stream(streamsStack)
  PROVE  Stream(Taken) /\ Len(Taken) = Len(streamsStack)
<1>1. PICK n : n = Len(streamsStack)
  OBVIOUS
<1>2. PICK x : x = [streamsStack[n] EXCEPT !.macro_ptr = <<Place[1], Place[2] + 1>>]
  OBVIOUS
<1>3. Replaces(Taken, streamsStack, n, x)
  BY <1>1, <1>2 DEF Taken, Replaces
<1>4. MAX_INCLUDES_NESTED \in Nat
  BY UpToIs
<1>5. n \in 1 .. Len(streamsStack) /\ Sequence(streamsStack)
  BY <1>1, <1>4 DEF Stream
<1>6. Sequence(Taken) /\ Len(Taken) = Len(streamsStack)
  BY <1>3, <1>5, ExceptSequence
<1> QED BY <1>6 DEF Stream

LEMMA FrontStream ==
  ASSUME Stream(streamsStack), Len(streamsStack) # 1
  PROVE  Stream(Front(streamsStack)) /\ Len(streamsStack) - 2 \in 0 .. MAX_INCLUDES_NESTED - 1
<1>1. PICK m \in Nat : m = MAX_INCLUDES_NESTED
  BY UpToIs
<1>2. PICK n \in 1 .. m : n = Len(streamsStack) /\ n # 1
  BY <1>1 DEF Stream
<1>3. PICK S : streamsStack \in Seq(S)
  BY DEF Stream, Sequence
<1>4. Front(streamsStack) = SubSeq(streamsStack, 1, n - 1)
  BY <1>2 DEF Front
<1>5. SubSeq(streamsStack, 1, n - 1) \in Seq(S) /\ Len(SubSeq(streamsStack, 1, n - 1)) = n - 1
  BY <1>2, <1>3
<1>6. n - 1 \in 1 .. m /\ n - 2 \in 0 .. m - 1
  BY <1>2
<1> QED BY <1>1, <1>2, <1>4, <1>5, <1>6 DEF Stream, Sequence

\* The parser reads a token and goes on in some mode.
LEMMA WhenGoing ==
  ASSUME IInv, phase = "parse", NEW m, NEW errorLine, Goes(m, errorLine),
         m \in {"line", "late", "macro", "args", "skipmacro", "skipcond", "skipline"},
         status' = status, g_errorCount' \in BOOLEAN, nest' \in Nat
  PROVE  IInv'
<1>1. /\ source' = source /\ phase' = phase /\ buffers' = buffers /\ blocks' = blocks
      /\ g_passNum' = g_passNum /\ g_incStackDeepth' = g_incStackDeepth /\ mode' = m
      /\ streamsStack' = Taken
  BY DEF Goes, levels
<1>2. ParsingOn
  BY <1>1, ParsingFacts DEF ParsingOn
<1>3. IsLevel(g_incStackDeepth') /\ Stream(streamsStack')
  BY <1>1, ParsingFacts, TakenStream
<1> QED BY <1>2, <1>3, ParsesOn

LEMMA StepParse ==
  ASSUME IInv, Code \/ LateCode \/ EmptyLine \/ Opening \/ If \/ GenElse \/ MacroCall
               \/ SkipMacro \/ SkipConditional \/ SkipLine
  PROVE  IInv'
<1>1. CASE Code
  BY <1>1, ParsingFacts, WhenGoing DEF Code, Parses, Parsing, Goes
<1>2. CASE LateCode
  BY <1>2, ParsingFacts, WhenGoing DEF LateCode, Parses, Parsing, Goes
<1>3. CASE EmptyLine
  BY <1>3, ParsingFacts, WhenGoing DEF EmptyLine, Parses, Parsing, Goes
<1>4. CASE Opening
  BY <1>4, ParsingFacts, WhenGoing DEF Opening, Parses, Parsing, Goes
<1>5. CASE If
  BY <1>5, ParsingFacts, WhenGoing DEF If, Parses, Parsing, Goes
<1>6. CASE GenElse
  BY <1>6, ParsingFacts, WhenGoing DEF GenElse, Parses, Parsing, Goes
<1>7. CASE MacroCall
  BY <1>7, ParsingFacts, WhenGoing DEF MacroCall, Parses, Parsing, Goes
<1>8. CASE SkipMacro
  BY <1>8, ParsingFacts, WhenGoing DEF SkipMacro, Skips, Parsing, Goes
<1>9. CASE SkipConditional
  BY <1>9, ParsingFacts, WhenGoing DEF SkipConditional, Skips, Parsing, Goes
<1>10. CASE SkipLine
  BY <1>10, ParsingFacts, WhenGoing DEF SkipLine, Skips, Parsing, Goes
<1> QED BY <1>1, <1>2, <1>3, <1>4, <1>5, <1>6, <1>7, <1>8, <1>9, <1>10

LEMMA StepMacroRecord == ASSUME IInv, MacroRecord PROVE IInv'
<1>1. phase = "parse"
  BY DEF MacroRecord, Parses, Parsing
<1>2. CASE g_passNum = 0 /\ macros[pending[2]] # NoMacro
  <2>1. Dies("crashed")
    BY <1>2 DEF MacroRecord
  <2> QED BY <2>1, StepDies
<1>3. CASE ~(g_passNum = 0 /\ macros[pending[2]] # NoMacro)
  <2>1. Goes("skipmacro", ErrorLineRead) /\ g_errorCount' = g_errorCount /\ nest' = nest
    BY <1>3 DEF MacroRecord
  <2>2. status' = status
    BY <2>1 DEF Goes
  <2> QED BY <1>1, <2>1, <2>2, ParsingFacts, WhenGoing
<1> QED BY <1>2, <1>3

LEMMA StepReplayMacro == ASSUME IInv, ReplayMacro PROVE IInv'
<1>1. phase = "parse"
  BY DEF ReplayMacro, Parses, Parsing
<1>2. CASE ~IsLevel(Len(streamsStack))
  <2>1. Dies("wild")
    BY <1>2 DEF ReplayMacro
  <2> QED BY <2>1, StepDies
<1>3. CASE IsLevel(Len(streamsStack))
  <2>1. /\ streamsStack' = Append(Taken, [macro_ptr |-> macros[pending[2]].ptr, line_num |-> LineRead])
        /\ g_incStackDeepth' = Len(streamsStack) /\ mode' = "line"
        /\ source' = source /\ phase' = phase /\ status' = status /\ buffers' = buffers /\ blocks' = blocks
        /\ g_passNum' = g_passNum /\ g_errorCount' = g_errorCount /\ nest' = nest
    BY <1>3 DEF ReplayMacro
  <2>2. ParsingOn
    BY <1>1, <2>1, ParsingFacts DEF ParsingOn
  <2>3. Stream(Taken) /\ Len(Taken) = Len(streamsStack)
    BY <1>1, ParsingFacts, TakenStream
  <2>4. Stream(streamsStack')
    <3>1. Sequence(streamsStack') /\ Len(streamsStack') = Len(Taken) + 1
      BY <2>1, <2>3, AppendSequence DEF Stream
    <3>2. Len(Taken) \in Nat /\ Len(Taken) <= MAX_INCLUDES_NESTED - 1 /\ MAX_INCLUDES_NESTED \in Nat
      BY <1>1, <1>3, <2>3, ParsingFacts DEF IsLevel
    <3>3. Len(Taken) + 1 \in 1 .. MAX_INCLUDES_NESTED
      BY <3>2
    <3> QED BY <3>1, <3>3 DEF Stream
  <2> QED BY <1>1, <1>3, <2>1, <2>2, <2>4, ParsesOn
<1> QED BY <1>2, <1>3

LEMMA StepEnterFile == ASSUME IInv, EnterFile PROVE IInv'
<1>1. phase = "parse"
  BY DEF EnterFile, Yylex, Parsing
<1>2. CASE ~IsLevel(g_incStackDeepth + 1)
  <2>1. Dies("wild")
    BY <1>2 DEF EnterFile
  <2> QED BY <2>1, StepDies
<1>3. CASE IsLevel(g_incStackDeepth + 1)
  <2>1. /\ streamsStack' = Taken /\ g_incStackDeepth' = g_incStackDeepth + 1 /\ mode' = mode
        /\ source' = source /\ phase' = phase /\ status' = status /\ buffers' = buffers /\ blocks' = blocks
        /\ g_passNum' = g_passNum /\ g_errorCount' = g_errorCount /\ nest' = nest
    BY <1>3 DEF EnterFile
  <2>2. ParsingOn
    BY <1>1, <2>1, ParsingFacts DEF ParsingOn
  <2>3. Stream(streamsStack')
    BY <1>1, <2>1, ParsingFacts, TakenStream
  <2> QED BY <1>1, <1>3, <2>1, <2>2, <2>3, ParsesOn
<1> QED BY <1>2, <1>3

LEMMA StepLeaveFile == ASSUME IInv, LeaveFile PROVE IInv'
<1>1. phase = "parse"
  BY DEF LeaveFile, Yylex, Parsing
<1>2. CASE ~IsLevel(g_incStackDeepth - 1)
  <2>1. Dies("wild")
    BY <1>2 DEF LeaveFile
  <2> QED BY <2>1, StepDies
<1>3. CASE IsLevel(g_incStackDeepth - 1)
  <2>1. /\ streamsStack' = Taken /\ g_incStackDeepth' = g_incStackDeepth - 1 /\ mode' = mode
        /\ source' = source /\ phase' = phase /\ status' = status /\ buffers' = buffers /\ blocks' = blocks
        /\ g_passNum' = g_passNum /\ g_errorCount' = g_errorCount /\ nest' = nest
    BY <1>3 DEF LeaveFile
  <2>2. ParsingOn
    BY <1>1, <2>1, ParsingFacts DEF ParsingOn
  <2>3. Stream(streamsStack')
    BY <1>1, <2>1, ParsingFacts, TakenStream
  <2> QED BY <1>1, <1>3, <2>1, <2>2, <2>3, ParsesOn
<1> QED BY <1>2, <1>3

LEMMA StepPopStream == ASSUME IInv, PopStream PROVE IInv'
<1>1. phase = "parse"
  BY DEF PopStream, Yylex, Parsing
<1>2. CASE TopLevel
  <2>1. Dies("aborted")
    BY <1>2 DEF PopStream
  <2> QED BY <2>1, StepDies
<1>3. CASE ~TopLevel
  <2>1. /\ streamsStack' = Front(streamsStack) /\ g_incStackDeepth' = Len(streamsStack) - 2 /\ mode' = mode
        /\ source' = source /\ phase' = phase /\ status' = status /\ buffers' = buffers /\ blocks' = blocks
        /\ g_passNum' = g_passNum /\ g_errorCount' = g_errorCount /\ nest' = nest
    BY <1>3 DEF PopStream
  <2>2. ParsingOn
    BY <1>1, <2>1, ParsingFacts DEF ParsingOn
  <2>3. Len(streamsStack) # 1
    BY <1>3 DEF TopLevel
  <2>4. Stream(streamsStack') /\ IsLevel(g_incStackDeepth')
    BY <1>1, <2>1, <2>3, ParsingFacts, FrontStream DEF IsLevel
  <2> QED BY <1>1, <2>2, <2>4, ParsesOn
<1> QED BY <1>2, <1>3

LEMMA StepEndTooEarly == ASSUME IInv, EndTooEarly PROVE IInv'
<1>1. Dies("aborted") \/ Dies("overrun")
  BY DEF EndTooEarly
<1> QED BY <1>1, StepDies

LEMMA StepEndOfPass == ASSUME IInv, EndOfPass PROVE IInv'
<1>1. /\ phase = "parse" /\ mode' = "line"
      /\ source' = source /\ phase' = phase /\ buffers' = buffers /\ blocks' = blocks
      /\ g_errorCount' = g_errorCount /\ nest' = nest
  BY DEF EndOfPass, Parsing
<1>2. CASE g_passNum = 0 /\ ~g_errorCount
  <2>1. g_passNum' = 1 /\ Restart /\ status' = status
    BY <1>2 DEF EndOfPass
  <2>2. ParsingOn
    BY <1>1, <2>1, ParsingFacts DEF ParsingOn
  <2>3. IsLevel(g_incStackDeepth') /\ Stream(streamsStack')
    <3>1. IsLevel(0) /\ 1 \in 1 .. MAX_INCLUDES_NESTED
      BY UpToIs DEF IsLevel
    <3>2. g_incStackDeepth' = 0
      BY <2>1 DEF Restart
    <3>3. Sequence(streamsStack') /\ Len(streamsStack') = 1
      BY <2>1, OneStream DEF Restart
    <3> QED BY <3>1, <3>2, <3>3 DEF Stream
  <2> QED BY <1>1, <2>2, <2>3, ParsesOn
<1>3. CASE ~(g_passNum = 0 /\ ~g_errorCount)
  <2>1. /\ status' \in {"rejected", "done"} /\ g_passNum' = g_passNum /\ streamsStack' = streamsStack
        /\ g_incStackDeepth' = g_incStackDeepth
    BY <1>3 DEF EndOfPass
  <2>2. ParsingOn
    BY <1>1, <2>1, ParsingFacts DEF ParsingOn
  <2> QED BY <1>1, <2>1, <2>2, ParsingFacts, ParsesOn
<1> QED BY <1>2, <1>3

LEMMA StepStutter == ASSUME IInv, UNCHANGED vars PROVE IInv'
<1>1. /\ source' = source /\ phase' = phase /\ buffers' = buffers /\ blocks' = blocks /\ status' = status
      /\ g_incStackDeepth' = g_incStackDeepth /\ inc_lines' = inc_lines /\ g_currentLine' = g_currentLine
      /\ g_passNum' = g_passNum /\ g_errorCount' = g_errorCount /\ UNCHANGED parser
  BY DEF vars, levels, lines
<1>2. CASE phase = "fetch"
  <2>1. FetchingOn
    <3>1. g_errorCount \in BOOLEAN
      BY DEF IInv, Modes
    <3> QED BY <1>1, <3>1 DEF FetchingOn
  <2>2. Tokens' = Tokens
    BY <1>1, TokensHeld, TokensNow
  <2>3. GotNext
    BY <1>1, <1>2, <2>2, Standing DEF GotNext
  <2>4. Chained(blocks') /\ IsLevel(g_incStackDeepth')
    BY <1>1 DEF IInv, Modes
  <2> QED BY <1>2, <2>1, <2>3, <2>4, FetchesOn
<1>3. CASE phase = "parse"
  <2>1. ParsingOn
    BY <1>1, <1>3, ParsingFacts DEF ParsingOn, parser
  <2>2. streamsStack' = streamsStack
    BY <1>1 DEF parser
  <2> QED BY <1>1, <1>3, <2>1, <2>2, ParsingFacts, ParsesOn
<1> QED BY <1>2, <1>3 DEF IInv, Modes

LEMMA NextInv == IInv /\ [Next]_vars => IInv'
<1> SUFFICES ASSUME IInv, [Next]_vars PROVE IInv'
  OBVIOUS
<1>1. CASE Fetch
  BY <1>1, StepEndOfLine, StepStatement, StepCannotInclude, StepIncludeFile, StepPopFile, StepEndOfFetch DEF Fetch
<1>2. CASE Read
  BY <1>2, StepEnterFile, StepLeaveFile, StepPopStream DEF Read
<1>3. CASE Parse
  BY <1>3, StepParse, StepMacroRecord, StepReplayMacro DEF Parse
<1>4. CASE Skip
  BY <1>4, StepParse DEF Skip
<1>5. CASE EndTooEarly \/ EndOfPass
  BY <1>5, StepEndTooEarly, StepEndOfPass
<1>6. CASE UNCHANGED vars
  BY <1>6, StepStutter
<1> QED BY <1>1, <1>2, <1>3, <1>4, <1>5, <1>6 DEF Next

LEMMA FetchInv == Spec => []IInv
BY InitInv, NextInv, PTL DEF Spec

LEMMA Typed == IInv => TypeOK
<1> SUFFICES ASSUME IInv PROVE TypeOK
  OBVIOUS
<1>1. Modes /\ Chained(blocks) /\ Reading /\ Fetched
  BY DEF IInv
<1>2. TOKENS_BLOCK \in Nat /\ TOKENS_BLOCK > 2 /\ MAX_INCLUDES_NESTED \in Nat \ {0}
  BY SourceAssumption
<1>3. Len(streamsStack) <= MAX_INCLUDES_NESTED
  <2>1. CASE phase = "fetch"
    <3>1. Len(streamsStack) = 0
      BY <1>1, <2>1 DEF Modes
    <3> QED BY <1>2, <3>1
  <2>2. CASE phase = "parse"
    BY <1>1, <1>2, <2>2 DEF Fetched
  <2> QED BY <1>1, <2>1, <2>2 DEF Modes
<1>4. phase = "fetch" => Len(buffers) = g_incStackDeepth + 1
  BY <1>1 DEF Reading, Gets
<1>5. phase = "parse" => buffers = << >> /\ streamsStack # << >>
  <2> SUFFICES ASSUME phase = "parse" PROVE buffers = << >> /\ streamsStack # << >>
    OBVIOUS
  <2>1. buffers = << >> /\ Len(streamsStack) \in 1 .. MAX_INCLUDES_NESTED
    BY <1>1 DEF Fetched
  <2>2. Len(streamsStack) # 0
    BY <1>2, <2>1
  <2> QED BY <2>1, <2>2
<1>6. ASSUME NEW n \in DOMAIN blocks
      PROVE  /\ Len(blocks[n]) < TOKENS_BLOCK
             /\ n < Len(blocks) => Len(blocks[n]) = TOKENS_BLOCK - 1 /\ Last(blocks[n]) = NewPtr
             /\ \A k \in 1 .. TOKENS_BLOCK - 2 : k \in DOMAIN blocks[n] => blocks[n][k] # NewPtr
  <2>1. PICK l \in Nat : l = Len(blocks) /\ DOMAIN blocks = 1 .. l
    BY <1>1, HeldTypes DEF Chained, Sequence
  <2>2. CASE n < l
    <3>1. Linked(blocks[n])
      <4>1. n \in 1 .. Len(blocks) - 1
        BY <2>1, <2>2
      <4> QED BY <1>1, <4>1 DEF Chained
    <3>2. /\ Len(blocks[n]) = TOKENS_BLOCK - 1 /\ Last(blocks[n]) = NewPtr
          /\ \A k \in 1 .. TOKENS_BLOCK - 2 : blocks[n][k] # NewPtr
      BY <3>1, LinkedBlock
    <3> QED BY <1>2, <3>2
  <2>3. CASE ~(n < l)
    <3>1. n = Len(blocks)
      BY <2>1, <2>3
    <3>2. PICK b \in Seq(Token) : b = blocks[n] /\ Len(b) <= TOKENS_BLOCK - 2
      BY <1>1, <3>1 DEF Chained
    <3>3. \A k \in DOMAIN b : b[k] # NewPtr
      <4> DEFINE S == Token
      <4>1. b \in Seq(S)
        BY <3>2
      <4> HIDE DEF S
      <4>2. \A k \in DOMAIN b : b[k] \in S
        BY <4>1
      <4> QED BY <4>2, NoPointer DEF S
    <3>4. Len(b) \in Nat
      BY <3>2
    <3> QED BY <1>2, <2>1, <2>3, <3>2, <3>3, <3>4
  <2> QED BY <2>2, <2>3
<1> QED BY <1>1, <1>3, <1>4, <1>5, <1>6 DEF TypeOK, Modes

----------------------------------------------------------------------------
(* The theorems.                                                           *)

\* The levels of files and streams stay within their arrays, every block of tokens
\* but the last is full and ends in the pointer to the next, and no token looks like
\* one: PushNewFile, PopFile, ReplayMacro, PopStream, StoreToken, whatever the files
\* hold, however they include one another and whatever macros they call.
THEOREM SourceTypeCorrect == Spec => []TypeOK
<1>1. IInv => TypeOK
  BY Typed
<1> QED BY <1>1, FetchInv, PTL

\* What PrefetchTokens stores is the text of the main file with every file in the
\* place that it is included at, up to an END, each end of a line with its number; no
\* file is left open, and neither pass changes it.
THEOREM FetchedAsWritten == Spec => []FetchExact
<1>1. IInv => FetchExact
  BY DEF IInv, Fetched, FetchExact
<1> QED BY <1>1, FetchInv, PTL
===============================================================================
