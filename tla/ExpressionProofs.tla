--------------------------- MODULE ExpressionProofs ----------------------------
(***************************************************************************)
(* The two passes agree: a line whose values do not depend on what stands   *)
(* below it gives its name the same value, and has the same answer, in both. *)
(*                                                                         *)
(* An expression is determined by the values its names are read with, as     *)
(* long as none of them is unresolved and no error is reported; and, by      *)
(* SymbolProofs, a name is read with the value of the nearest line above.   *)
(* So the passes agree on a line when they agree on the lines above it.      *)
(*                                                                         *)
(* The values are the numbers they stand for, through every operator: an IF  *)
(* answers as the numbers compare, and a DC reads back as what it denotes.   *)
(***************************************************************************)
EXTENDS SymbolProofs, FiniteSetTheorems

----------------------------------------------------------------------------
(* The outcomes of an operator.                                            *)

Resolved == Types \ {"kUnresolved"}

\* Outcomes have a type, and all that report no error are one value.
Typed(out) == \A o \in out : o.val.type \in Types /\ o.err \in BOOLEAN
OneValue(out, other) ==
  \A o \in out, r \in other : ~o.err /\ ~r.err => o.val = r.val /\ o.val.type \in Resolved

LEMMA ValTypes ==
  /\ \A n : Val_CreateInt(n).type = "kInt"
  /\ \A type, q : Val(type, q).type = type
  /\ Val_CreateUnresolved.type = "kUnresolved"
BY DEF Val_CreateInt, Val, Val_CreateUnresolved

LEMMA GivesOne ==
  ASSUME NEW v, v.type \in Resolved
  PROVE  /\ Typed(Gives(v)) /\ OneValue(Gives(v), Gives(v))
         /\ Typed(Fails(v)) /\ OneValue(Fails(v), Gives(v)) /\ OneValue(Gives(v), Fails(v)) /\ OneValue(Fails(v), Fails(v))
BY DEF Typed, OneValue, Gives, Fails, Resolved

LEMMA GivesTyped == ASSUME NEW v, v.type \in Types PROVE Typed(Gives(v))
<1>1. \A o \in Gives(v) : o.val = v /\ o.err = FALSE
  BY DEF Gives
<1> QED BY <1>1 DEF Typed

LEMMA GivesUnresolved == Typed(Gives(Val_CreateUnresolved))
<1>1. Val_CreateUnresolved.type \in Types
  BY ValTypes DEF Types
<1> QED BY <1>1, GivesTyped

LEMMA UninitialisedTypes ==
  ASSUME NEW type \in Types, NEW err \in BOOLEAN
  PROVE  Typed(Uninitialised(type, err)) /\ (err => OneValue(Uninitialised(type, err), Uninitialised(type, err)))
<1>1. \A o \in Uninitialised(type, err) : o.val.type = type /\ o.err = err
  <2> TAKE o \in Uninitialised(type, err)
  <2>1. PICK g \in Leftovers : o = [val |-> Val(type, <<g, 1>>), err |-> err]
    BY DEF Uninitialised
  <2> QED BY <2>1, ValTypes
<1> QED BY <1>1 DEF Typed, OneValue

LEMMA AddTypes ==
  ASSUME NEW v, NEW w, v.type \in Types, w.type \in Types
  PROVE  /\ Typed(Val_Add(v, w))
         /\ v.type \in Resolved /\ w.type \in Resolved => OneValue(Val_Add(v, w), Val_Add(v, w))
<1>1. CASE Val_CheckResolved2(v, w)
  BY <1>1, GivesUnresolved DEF Val_Add, Val_CheckResolved2, Val_CheckResolved, Resolved
<1>2. CASE ~Val_CheckResolved2(v, w)
  <2>1. v.type \in Resolved /\ w.type \in Resolved
    BY <1>2 DEF Val_CheckResolved2, Val_CheckResolved, Resolved
  <2>2. CASE v.type = w.type
    <3> DEFINE x == IF IsReal(v) THEN Val(v.type, Plus(v.q, w.q)) ELSE Val_CreateInt(v.q[1] + w.q[1])
    <3>1. x.type \in Resolved
      BY <2>1, ValTypes DEF Resolved, Types
    <3>2. Val_Add(v, w) = Gives(x)
      BY <1>2, <2>2 DEF Val_Add
    <3> HIDE DEF x
    <3> QED BY <3>1, <3>2, GivesOne
  <2>3. CASE v.type # w.type /\ IsReal(v) /\ IsReal(w)
    <3> DEFINE x == Val(v.type, Plus(v.q, w.q))
    <3>1. x.type \in Resolved
      BY <2>1, ValTypes
    <3>2. Val_Add(v, w) = Fails(x)
      BY <1>2, <2>3 DEF Val_Add
    <3> HIDE DEF x
    <3> QED BY <3>1, <3>2, GivesOne
  <2>4. CASE v.type # w.type /\ ~(IsReal(v) /\ IsReal(w))
    <3>1. Val_Add(v, w) = Uninitialised(v.type, TRUE)
      BY <1>2, <2>4 DEF Val_Add
    <3> QED BY <3>1, UninitialisedTypes
  <2> QED BY <2>2, <2>3, <2>4
<1> QED BY <1>1, <1>2

LEMMA MulTypes ==
  ASSUME NEW v, NEW w, v.type \in Types, w.type \in Types
  PROVE  /\ Typed(Val_Mul(v, w))
         /\ v.type \in Resolved /\ w.type \in Resolved => OneValue(Val_Mul(v, w), Val_Mul(v, w))
<1>1. CASE Val_CheckResolved2(v, w)
  BY <1>1, GivesUnresolved DEF Val_Mul, Val_CheckResolved2, Val_CheckResolved, Resolved
<1>2. CASE ~Val_CheckResolved2(v, w)
  <2> DEFINE x == IF IsReal(v) \/ IsReal(w) THEN Val(RealType(v), Times(v.q, w.q)) ELSE Val_CreateInt(v.q[1] * w.q[1])
  <2>1. x.type \in Resolved
    BY <1>2, ValTypes DEF RealType, IsReal, Resolved, Types
  <2>2. Val_Mul(v, w) = Gives(x)
    BY <1>2 DEF Val_Mul
  <2> HIDE DEF x
  <2> QED BY <2>1, <2>2, GivesOne
<1> QED BY <1>1, <1>2

\* A division by zero is the only one that tells the passes apart.
LEMMA DivTypes ==
  ASSUME NEW v, NEW w, v.type \in Types, w.type \in Types
  PROVE  /\ \A p \in {1, 2} : Typed(Val_Div(v, w, p))
         /\ v.type \in Resolved /\ w.type \in Resolved => \A p, r \in {1, 2} : OneValue(Val_Div(v, w, p), Val_Div(v, w, r))
<1>1. CASE Val_CheckResolved2(v, w)
  BY <1>1, GivesUnresolved DEF Val_Div, Val_CheckResolved2, Val_CheckResolved, Resolved
<1>2. CASE ~Val_CheckResolved2(v, w)
  <2> DEFINE real == IsReal(v) \/ IsReal(w)
             one == Val(IF real THEN RealType(v) ELSE "kInt", <<1, 1>>)
             x == IF real THEN Val(RealType(v), Over(v.q, w.q)) ELSE Val_CreateInt(v.q[1] \div w.q[1])
  <2>1. x.type \in Resolved /\ one.type \in Resolved
    BY <1>2, ValTypes DEF RealType, IsReal, Resolved, Types
  <2>2. \A p \in {1, 2} : Val_Div(v, w, p) = IF w.q[1] = 0 THEN (IF p = 2 THEN Fails(one) ELSE Gives(one)) ELSE Gives(x)
    BY <1>2 DEF Val_Div
  <2> HIDE DEF x, one, real
  <2> QED BY <2>1, <2>2, GivesOne
<1> QED BY <1>1, <1>2

LEMMA NegTypes ==
  ASSUME NEW v, v.type \in Types
  PROVE  /\ Val_Neg(v).type \in Types /\ Val_Not(v).type \in Types
         /\ v.type \in Resolved => Val_Neg(v).type \in Resolved /\ Val_Not(v).type \in Resolved
BY ValTypes DEF Val_Neg, Val_Not, Val_CheckResolved, Resolved, Types

LEMMA BitsTypes ==
  ASSUME NEW v, NEW w, v.type \in Types, w.type \in Types, NEW n
  PROVE  /\ Typed(Bitwise2(v, w, n))
         /\ v.type \in Resolved /\ w.type \in Resolved => OneValue(Bitwise2(v, w, n), Bitwise2(v, w, n))
<1>1. CASE Val_CheckResolved2(v, w)
  BY <1>1, GivesUnresolved DEF Bitwise2, Val_CheckResolved2, Val_CheckResolved, Resolved
<1>2. CASE ~Val_CheckResolved2(v, w)
  <2> DEFINE zero == Val(v.type, <<0, 1>>)
             x == Val_CreateInt(n)
  <2>1. x.type \in Resolved /\ zero.type \in Resolved
    BY <1>2, ValTypes DEF Val_CheckResolved2, Val_CheckResolved, Resolved, Types
  <2>2. Bitwise2(v, w, n) = IF IsReal(v) \/ IsReal(w) THEN Fails(zero) ELSE Gives(x)
    BY <1>2 DEF Bitwise2
  <2> HIDE DEF x, zero
  <2> QED BY <2>1, <2>2, GivesOne
<1> QED BY <1>1, <1>2

LEMMA Apply2Types ==
  ASSUME NEW v, NEW w, v.type \in Types, w.type \in Types, NEW o \in Binary
  PROVE  /\ \A p \in {1, 2} : Typed(Apply2(o, v, w, p))
         /\ v.type \in Resolved /\ w.type \in Resolved =>
               \A p, r \in {1, 2} : OneValue(Apply2(o, v, w, p), Apply2(o, v, w, r))
<1>1. CASE o \in {"&", "|", "^", "<<", ">>"}
  <2>1. \E n : \A p : Apply2(o, v, w, p) = Bitwise2(v, w, n)
    BY <1>1 DEF Apply2, Val_And, Val_Or, Val_Xor, Val_Lsl, Val_Lsr
  <2> QED BY <2>1, BitsTypes
<1>2. CASE o = "+"
  <2>1. \A p : Apply2(o, v, w, p) = Val_Add(v, w)
    BY <1>2 DEF Apply2
  <2> QED BY <2>1, AddTypes
<1>3. CASE o = "-"
  <2>1. \A p : Apply2(o, v, w, p) = Val_Add(v, Val_Neg(w))
    BY <1>3 DEF Apply2
  <2> QED BY <2>1, AddTypes, NegTypes
<1>4. CASE o = "*"
  <2>1. \A p : Apply2(o, v, w, p) = Val_Mul(v, w)
    BY <1>4 DEF Apply2
  <2> QED BY <2>1, MulTypes
<1>5. CASE o = "/"
  <2>1. \A p : Apply2(o, v, w, p) = Val_Div(v, w, p)
    BY <1>5 DEF Apply2
  <2> QED BY <2>1, DivTypes
<1> QED BY <1>1, <1>2, <1>3, <1>4, <1>5 DEF Binary

LEMMA CastTypes ==
  ASSUME NEW v, v.type \in Types
  PROVE  /\ Typed(Val_CastToInt(v)) /\ Typed(Val_CastToFloat(v)) /\ Typed(Val_CastToFract(v)) /\ Typed(Val_BinNot(v))
         /\ v.type \in Resolved => /\ OneValue(Val_CastToInt(v), Val_CastToInt(v))
                                   /\ OneValue(Val_CastToFloat(v), Val_CastToFloat(v))
                                   /\ OneValue(Val_CastToFract(v), Val_CastToFract(v))
                                   /\ OneValue(Val_BinNot(v), Val_BinNot(v))
<1>1. CASE Val_CheckResolved(v)
  <2>1. "kInt" \in Types /\ "kFloat" \in Types /\ "kFract" \in Types /\ v.type \notin Resolved
    BY <1>1 DEF Types, Resolved, Val_CheckResolved
  <2> QED BY <1>1, <2>1, UninitialisedTypes, GivesUnresolved DEF Val_CastToInt, Val_CastToFloat, Val_CastToFract, Val_BinNot
<1>2. CASE ~Val_CheckResolved(v)
  <2>1. CastToInt(v).type \in Resolved
    BY <1>2, ValTypes DEF CastToInt, Resolved, Types, Val_CheckResolved
  <2>2. CastToReal(v, "kFloat").type \in Resolved /\ CastToReal(v, "kFract").type \in Resolved
    BY <1>2, ValTypes DEF CastToReal, Resolved, Types, Val_CheckResolved
  <2> DEFINE zero == Val(v.type, <<0, 1>>)
             x == Val_CreateInt(Pow2[LongBits] - 1 - v.q[1])
  <2>3. x.type \in Resolved /\ zero.type \in Resolved
    BY <1>2, ValTypes DEF Val_CheckResolved, Resolved, Types
  <2>4. Val_BinNot(v) = IF IsReal(v) THEN Fails(zero) ELSE Gives(x)
    BY <1>2 DEF Val_BinNot
  <2> HIDE DEF x, zero
  <2> QED BY <1>2, <2>1, <2>2, <2>3, <2>4, GivesOne DEF Val_CastToInt, Val_CastToFloat, Val_CastToFract
<1> QED BY <1>1, <1>2

LEMMA Apply1Types ==
  ASSUME NEW v, v.type \in Types, NEW o \in Unary
  PROVE  /\ Typed(Apply1(o, v))
         /\ v.type \in Resolved => OneValue(Apply1(o, v), Apply1(o, v))
<1>1. CASE o \in {"neg", "!"}
  <2> DEFINE x == IF o = "neg" THEN Val_Neg(v) ELSE Val_Not(v)
  <2>1. x.type \in Types /\ (v.type \in Resolved => x.type \in Resolved)
    BY NegTypes
  <2>2. Apply1(o, v) = Gives(x)
    BY <1>1 DEF Apply1
  <2> HIDE DEF x
  <2>3. Typed(Gives(x))
    BY <2>1, GivesTyped
  <2> QED BY <2>1, <2>2, <2>3, GivesOne
<1>2. CASE o \in {"~", "fract", "float", "int"}
  BY <1>2, CastTypes DEF Apply1
<1> QED BY <1>1, <1>2 DEF Unary

----------------------------------------------------------------------------
(* An evaluation, token by token.                                          *)

Start == [stack |-> <<>>, err |-> FALSE]
After(states, t) == UNION {Reduce(s, t) : s \in states}

\* The function Evaluate is defined by, over the sets of the first tokens.
Folds(g, ts, S) ==
  g = [s \in SUBSET S |-> IF s = {} THEN {Start} ELSE After(g[s \ {Max(s)}], ts[Max(s)])]

LEMMA EvaluateFolds ==
  ASSUME NEW exps
  PROVE  LET ts == FlattenSeq(exps) IN Evaluate(exps) = (CHOOSE g : Folds(g, ts, DOMAIN ts))[DOMAIN ts]
BY DEF Evaluate, FoldLeft, MapThenFoldSet, Folds, Start, After

LEMMA MaxOfFirst ==
  ASSUME NEW n \in Nat, NEW s \in SUBSET (1 .. n), s # {}
  PROVE  Max(s) \in s /\ (n \in s => Max(s) = n) /\ Max(s) \in Nat
<1>1. s \in SUBSET Nat /\ \A x \in s : x <= n
  OBVIOUS
<1>2. Max(s) \in s /\ \A y \in s : y <= Max(s)
  BY <1>1, MaxOf
<1>3. Max(s) \in Nat /\ Max(s) <= n
  BY <1>1, <1>2
<1> QED BY <1>2, <1>3

LEMMA FoldsExist ==
  ASSUME NEW ts, NEW n \in Nat
  PROVE  \E g : Folds(g, ts, 1 .. n)
<1> DEFINE T == {m \in Nat : ~(\E g : Folds(g, ts, 1 .. m))}
<1>1. SUFFICES ASSUME T # {} PROVE FALSE
  OBVIOUS
<1>2. PICK m \in T : \A k \in T : m <= k
  <2>1. T \in SUBSET Nat
    OBVIOUS
  <2> HIDE DEF T
  <2> QED BY <1>1, <2>1, LeastNatural
<1>3. m \in Nat /\ ~(\E g : Folds(g, ts, 1 .. m))
  OBVIOUS
<1>4. m # 0
  <2> SUFFICES ASSUME m = 0 PROVE FALSE
    OBVIOUS
  <2> DEFINE g == [s \in SUBSET (1 .. 0) |-> {Start}]
  <2>1. \A s \in SUBSET (1 .. 0) : s = {}
    OBVIOUS
  <2>2. g = [s \in SUBSET (1 .. 0) |-> IF s = {} THEN {Start} ELSE After(g[s \ {Max(s)}], ts[Max(s)])]
    BY <2>1
  <2>3. Folds(g, ts, 1 .. 0)
    <3> HIDE DEF g
    <3> QED BY <2>2 DEF Folds
  <2> QED BY <1>3, <2>3
<1>5. PICK g : Folds(g, ts, 1 .. m - 1)
  <2>1. m - 1 \in Nat /\ m - 1 \notin T
    <3> HIDE DEF T
    <3> QED BY <1>2, <1>3, <1>4
  <2> QED BY <2>1
<1> HIDE DEF T
<1> DEFINE h == [s \in SUBSET (1 .. m) |-> IF m \in s THEN After(g[s \ {m}], ts[m]) ELSE g[s]]
<1>6. \A s \in SUBSET (1 .. m - 1) : /\ h[s] = g[s]
                                     /\ g[s] = IF s = {} THEN {Start} ELSE After(g[s \ {Max(s)}], ts[Max(s)])
  <2> TAKE s \in SUBSET (1 .. m - 1)
  <2>1. s \in SUBSET (1 .. m) /\ m \notin s
    BY <1>3, <1>4
  <2>2. g[s] = IF s = {} THEN {Start} ELSE After(g[s \ {Max(s)}], ts[Max(s)])
    BY <1>5 DEF Folds
  <2> QED BY <2>1, <2>2
<1>7. \A s \in SUBSET (1 .. m) : h[s] = IF s = {} THEN {Start} ELSE After(h[s \ {Max(s)}], ts[Max(s)])
  <2> TAKE s \in SUBSET (1 .. m)
  <2>1. CASE m \in s
    <3>1. Max(s) = m /\ s # {} /\ s \ {m} \in SUBSET (1 .. m - 1)
      BY <1>3, <2>1, MaxOfFirst
    <3>2. h[s] = After(g[s \ {m}], ts[m])
      BY <2>1
    <3>3. h[s \ {m}] = g[s \ {m}]
      BY <1>6, <3>1
    <3> HIDE DEF h
    <3> QED BY <3>1, <3>2, <3>3
  <2>2. CASE m \notin s
    <3>1. s \in SUBSET (1 .. m - 1)
      BY <1>3, <2>2
    <3>2. s \ {Max(s)} \in SUBSET (1 .. m - 1)
      BY <3>1
    <3> HIDE DEF h
    <3> QED BY <1>6, <3>1, <3>2
  <2> QED BY <2>1, <2>2
<1>8. Folds(h, ts, 1 .. m)
  <2>1. h = [s \in SUBSET (1 .. m) |-> h[s]]
    OBVIOUS
  <2> HIDE DEF h
  <2> QED BY <1>7, <2>1 DEF Folds
<1> QED BY <1>3, <1>8

\* The states an evaluation goes through.
Run(ts, n, f) == f[0] = Start /\ \A i \in 1 .. n : f[i] \in Reduce(f[i - 1], ts[i])

RunsTo(ts, n, e) == \E f : Run(ts, n, f) /\ f[n] = e

LEMMA RunLonger ==
  ASSUME NEW ts, NEW n \in Nat, NEW m, m = n + 1, NEW s, RunsTo(ts, n, s), NEW e \in Reduce(s, ts[m])
  PROVE  RunsTo(ts, m, e)
<1>0. PICK f : Run(ts, n, f) /\ f[n] = s
  BY DEF RunsTo
<1> DEFINE h == [i \in 0 .. n + 1 |-> IF i = n + 1 THEN e ELSE f[i]]
<1>1. h[n + 1] = e /\ \A i \in 0 .. n : h[i] = f[i]
  OBVIOUS
<1> HIDE DEF h
<1>2. h[0] = Start
  BY <1>0, <1>1 DEF Run
<1>3. ASSUME NEW i \in 1 .. n + 1 PROVE h[i] \in Reduce(h[i - 1], ts[i])
  <2>1. CASE i = n + 1
    <3>1. h[i - 1] = f[n] /\ h[i] = e /\ ts[i] = ts[n + 1]
      BY <1>1, <2>1
    <3> QED BY <1>0, <3>1
  <2>2. CASE i # n + 1
    <3>1. i \in 1 .. n /\ h[i] = f[i] /\ h[i - 1] = f[i - 1]
      BY <1>1, <2>2
    <3> QED BY <1>0, <3>1 DEF Run
  <2> QED BY <2>1, <2>2
<1> QED BY <1>1, <1>2, <1>3 DEF Run, RunsTo

\* What an evaluation may come to, it comes to in such a run.
LEMMA EvaluateRuns ==
  ASSUME NEW exps, FlattenSeq(exps) \in Seq(Token), NEW e \in Evaluate(exps)
  PROVE  RunsTo(FlattenSeq(exps), Len(FlattenSeq(exps)), e)
<1>1. PICK ts : ts = FlattenSeq(exps)
  OBVIOUS
<1>2. PICK n : n = Len(ts)
  OBVIOUS
<1>3. n \in Nat /\ DOMAIN ts = 1 .. n
  BY <1>1, <1>2
<1> DEFINE g == CHOOSE r : Folds(r, ts, DOMAIN ts)
<1>4. Evaluate(exps) = g[1 .. n]
  BY <1>1, <1>3, EvaluateFolds
<1>5. Folds(g, ts, 1 .. n)
  BY <1>3, FoldsExist
<1> HIDE DEF g
<1>6. \A s \in SUBSET (1 .. n) : g[s] = IF s = {} THEN {Start} ELSE After(g[s \ {Max(s)}], ts[Max(s)])
  BY <1>5 DEF Folds
<1>7. g[1 .. 0] = {Start}
  <2>1. 1 .. 0 = {}
    OBVIOUS
  <2> QED BY <1>6, <2>1
<1>8. \A i \in 1 .. n : g[1 .. i] = After(g[1 .. i - 1], ts[i])
  <2> TAKE i \in 1 .. n
  <2>0. i \in Nat /\ i >= 1 /\ i <= n
    BY <1>3
  <2>a. \A j \in 1 .. i : j \in 1 .. n
    BY <1>3, <2>0
  <2>b. i \in 1 .. i
    BY <2>0
  <2>1. 1 .. i \in SUBSET (1 .. n) /\ 1 .. i # {} /\ i \in 1 .. i
    BY <2>a, <2>b
  <2>2. Max(1 .. i) = i
    BY <2>0, <2>1, MaxOfFirst
  <2>3. (1 .. i) \ {i} = 1 .. i - 1
    <3>1. \A j \in Int : j \in (1 .. i) \ {i} <=> j \in 1 .. i - 1
      BY <2>0
    <3> QED BY <3>1
  <2> QED BY <1>6, <2>1, <2>2, <2>3
<1> DEFINE Good(i) == \A d \in g[1 .. i] : RunsTo(ts, i, d)
           T == {i \in 0 .. n : ~Good(i)}
<1>9. T = {}
  <2>1. SUFFICES ASSUME T # {} PROVE FALSE
    OBVIOUS
  <2>2. PICK m \in T : \A k \in T : m <= k
    <3>1. T \in SUBSET Nat
      BY <1>3
    <3> HIDE DEF T
    <3> QED BY <2>1, <3>1, LeastNatural
  <2>3. m \in 0 .. n /\ ~Good(m)
    OBVIOUS
  <2>4. m # 0
    <3>1. RunsTo(ts, 0, Start)
      <4> DEFINE f == [i \in {0} |-> Start]
      <4>1. f[0] = Start /\ \A i \in 1 .. 0 : FALSE
        OBVIOUS
      <4> HIDE DEF f
      <4> QED BY <4>1 DEF Run, RunsTo
    <3>2. Good(0)
      BY <1>7, <3>1
    <3> QED BY <2>3, <3>2
  <2>5. PICK k : k = m - 1
    OBVIOUS
  <2>6. k \in Nat /\ k + 1 = m /\ k \in 0 .. n /\ m \in 1 .. n
    BY <1>3, <2>3, <2>4, <2>5
  <2>7. Good(k)
    <3>1. k \notin T
      <4> HIDE DEF T
      <4> QED BY <2>2, <2>6
    <3> QED BY <2>6, <3>1
  <2>8. ASSUME NEW d \in g[1 .. m] PROVE RunsTo(ts, m, d)
    <3>1. d \in After(g[1 .. k], ts[m])
      BY <1>8, <2>5, <2>6
    <3>2. PICK s \in g[1 .. k] : d \in Reduce(s, ts[m])
      BY <3>1 DEF After
    <3>3. RunsTo(ts, k, s) /\ k \in Nat /\ m = k + 1
      BY <2>6, <2>7
    <3> HIDE DEF Good, T
    <3> QED BY <3>2, <3>3, RunLonger
  <2> QED BY <2>3, <2>8
<1>10. Good(n)
  BY <1>3, <1>9
<1> QED BY <1>1, <1>2, <1>4, <1>10

----------------------------------------------------------------------------
(* Stacks, and their height behind the first tokens.                       *)

Stack(s, T) == \E S : s \in Seq(S) /\ \A v \in S : v.type \in T

LEMMA StackTop ==
  ASSUME NEW T, NEW s, Stack(s, T)
  PROVE  Len(s) \in Nat /\ \A j \in 1 .. Len(s) : s[j].type \in T
BY DEF Stack

LEMMA StackRest ==
  ASSUME NEW T, NEW s, Stack(s, T), NEW n \in 0 .. Len(s)
  PROVE  Stack(SubSeq(s, 1, n), T) /\ Len(SubSeq(s, 1, n)) = n
<1>1. PICK S : s \in Seq(S) /\ \A v \in S : v.type \in T
  BY DEF Stack
<1>2. SubSeq(s, 1, n) \in Seq(S) /\ Len(SubSeq(s, 1, n)) = n
  BY <1>1
<1> QED BY <1>1, <1>2 DEF Stack

LEMMA StackPush ==
  ASSUME NEW T, NEW s, Stack(s, T), NEW v, v.type \in T
  PROVE  Stack(Append(s, v), T) /\ Len(Append(s, v)) = Len(s) + 1
<1>1. PICK S : s \in Seq(S) /\ \A w \in S : w.type \in T
  BY DEF Stack
<1>2. Append(s, v) \in Seq(S \cup {v}) /\ Len(Append(s, v)) = Len(s) + 1
  <2>1. s \in Seq(S \cup {v}) /\ v \in S \cup {v}
    BY <1>1
  <2> QED BY <2>1
<1>3. \A w \in S \cup {v} : w.type \in T
  BY <1>1
<1> QED BY <1>2, <1>3 DEF Stack

LEMMA StackEmpty == ASSUME NEW T PROVE Stack(<<>>, T) /\ Len(<<>>) = 0
<1>1. PICK S : S = {}
  OBVIOUS
<1>2. <<>> \in Seq(S) /\ Len(<<>>) = 0 /\ \A v \in S : v.type \in T
  BY <1>1
<1> QED BY <1>2 DEF Stack

\* One more index that is in a set, or is not.
LEMMA CountNext ==
  ASSUME NEW n \in Nat, NEW D, NEW m, m = n + 1
  PROVE  /\ Cardinality((1 .. n) \cap D) \in Nat
         /\ m \in D => Cardinality((1 .. m) \cap D) = Cardinality((1 .. n) \cap D) + 1
         /\ m \notin D => Cardinality((1 .. m) \cap D) = Cardinality((1 .. n) \cap D)
<1> DEFINE A == (1 .. n) \cap D
           B == (1 .. m) \cap D
<1>1. IsFiniteSet(A) /\ m \notin A
  <2>1. IsFiniteSet(1 .. n)
    BY FS_Interval
  <2>2. A \subseteq 1 .. n
    OBVIOUS
  <2>3. m \notin 1 .. n
    OBVIOUS
  <2> QED BY <2>1, <2>2, <2>3, FS_Subset
<1>2. Cardinality(A) \in Nat
  <2> HIDE DEF A
  <2> QED BY <1>1, FS_CardinalityType
<1>3. Cardinality(A \cup {m}) = Cardinality(A) + 1
  <2> HIDE DEF A
  <2> QED BY <1>1, FS_AddElement
<1>4. m \in D => B = A \cup {m}
  OBVIOUS
<1>5. m \notin D => B = A
  OBVIOUS
<1> HIDE DEF A, B
<1>6. m \in D => Cardinality(B) = Cardinality(A) + 1
  BY <1>3, <1>4
<1>7. m \notin D => Cardinality(B) = Cardinality(A)
  BY <1>5
<1> QED BY <1>2, <1>6, <1>7 DEF A, B

LEMMA ArityOf == ASSUME NEW t PROVE Arity(t) \in {0, 1, 2}
BY DEF Arity

LEMMA DepthNext ==
  ASSUME NEW ts, NEW n \in Nat, NEW m, m = n + 1
  PROVE  Depth(ts, n) \in Int /\ Depth(ts, m) = Depth(ts, n) + 1 - Arity(ts[m])
<1> DEFINE Leaves == {i \in Nat : Arity(ts[i]) = 0}
           Pairs == {i \in Nat : Arity(ts[i]) = 2}
<1>1. \A k \in Nat : Depth(ts, k) = Cardinality((1 .. k) \cap Leaves) - Cardinality((1 .. k) \cap Pairs)
  <2> TAKE k \in Nat
  <2>1. {i \in 1 .. k : Arity(ts[i]) = 0} = (1 .. k) \cap Leaves /\ {i \in 1 .. k : Arity(ts[i]) = 2} = (1 .. k) \cap Pairs
    OBVIOUS
  <2> HIDE DEF Leaves, Pairs
  <2> QED BY <2>1 DEF Depth
<1>2. m \in Nat /\ (m \in Leaves <=> Arity(ts[m]) = 0) /\ (m \in Pairs <=> Arity(ts[m]) = 2)
  OBVIOUS
<1> HIDE DEF Leaves, Pairs
<1> DEFINE a == Cardinality((1 .. n) \cap Leaves)
           b == Cardinality((1 .. n) \cap Pairs)
           c == Cardinality((1 .. m) \cap Leaves)
           d == Cardinality((1 .. m) \cap Pairs)
<1>3. a \in Nat /\ (m \in Leaves => c = a + 1) /\ (m \notin Leaves => c = a)
  BY CountNext
<1>4. b \in Nat /\ (m \in Pairs => d = b + 1) /\ (m \notin Pairs => d = b)
  BY CountNext
<1>5. Depth(ts, n) = a - b /\ Depth(ts, m) = c - d
  BY <1>1, <1>2
<1> HIDE DEF a, b, c, d
<1>6. Arity(ts[m]) \in {0, 1, 2}
  BY ArityOf
<1> QED BY <1>2, <1>3, <1>4, <1>5, <1>6

LEMMA DepthNone == ASSUME NEW ts PROVE Depth(ts, 0) = 0
<1>1. {i \in 1 .. 0 : Arity(ts[i]) = 0} = {} /\ {i \in 1 .. 0 : Arity(ts[i]) = 2} = {}
  OBVIOUS
<1> QED BY <1>1, FS_EmptySet DEF Depth

----------------------------------------------------------------------------
(* What an expression comes to, from the values its names are read with and  *)
(* the address of its line, without an error.                              *)

Outcomes(t, s, read, at, p) ==
  IF Arity(t) = 2 THEN Apply2(t.op, s[Len(s) - 1], s[Len(s)], p)
  ELSE IF Arity(t) = 1 THEN Apply1(t.op, s[Len(s)])
  ELSE IF t.k = "sym" THEN Gives(read[t.name])
  ELSE IF t.k = "here" THEN Gives(Val_CreateInt(at))
  ELSE IF t.k = "num" THEN Gives(t.num)
  ELSE IF t.k = "bin" THEN Gives(Val_CreateInt(atobin(t.digits).int))
  ELSE Gives(Val_CreateInt(StrToInt(t.chars)))

Rest(t, s) == SubSeq(s, 1, Len(s) - Arity(t))

StepOf(t, s, read, at, r) ==
  \E p \in {1, 2} : \E o \in Outcomes(t, s, read, at, p) : ~o.err /\ r = Append(Rest(t, s), o.val)

Computes(ts, n, read, at, f) == f[0] = <<>> /\ \A i \in 1 .. n : StepOf(ts[i], f[i - 1], read, at, f[i])

Yields(ts, read, at, s) == \E f : Computes(ts, Len(ts), read, at, f) /\ s = f[Len(ts)]

SymbolsOf(ts) == {t.name : t \in {u \in ToSet(ts) : u.k = "sym"}}

\* A token finds its operands, and leaves one value in their place.
Grown(t, s, r, T) == Stack(r, T) /\ Len(r) = Len(s) + 1 - Arity(t)

LEMMA RestGrown ==
  ASSUME NEW T, NEW t, NEW s, Stack(s, T), Arity(t) <= Len(s), NEW v, v.type \in T
  PROVE  Grown(t, s, Append(Rest(t, s), v), T)
<1> DEFINE n == Len(s) - Arity(t)
<1>1. Len(s) \in Nat
  BY StackTop
<1>2. n \in 0 .. Len(s) /\ Arity(t) \in {0, 1, 2}
  BY <1>1, ArityOf
<1>3. Stack(Rest(t, s), T) /\ Len(Rest(t, s)) = n
  <2> HIDE DEF n
  <2>1. Stack(SubSeq(s, 1, n), T) /\ Len(SubSeq(s, 1, n)) = n
    BY <1>2, StackRest
  <2> QED BY <2>1 DEF Rest, n
<1>4. Stack(Append(Rest(t, s), v), T) /\ Len(Append(Rest(t, s), v)) = n + 1
  <2> HIDE DEF n
  <2> QED BY <1>3, StackPush
<1> QED BY <1>1, <1>2, <1>4 DEF Grown

\* Tokens and their operands.
Operands(t, s, T) == /\ Arity(t) = 2 => t.op \in Binary /\ s[Len(s) - 1].type \in T /\ s[Len(s)].type \in T
                     /\ Arity(t) = 1 => t.op \in Unary /\ s[Len(s)].type \in T

LEMMA FindsOperands ==
  ASSUME NEW T, NEW t \in Token, NEW s, Stack(s, T), Arity(t) <= Len(s)
  PROVE  Operands(t, s, T)
<1>1. Len(s) \in Nat /\ \A j \in 1 .. Len(s) : s[j].type \in T
  BY StackTop
<1>2. Arity(t) = 2 => t.op \in Binary
  BY DEF Arity
<1>3. Arity(t) = 1 => t.op \in Unary
  <2>1. t.k = "op" => t.op \in Binary \cup Unary
    BY DEF Token
  <2> QED BY <2>1 DEF Arity
<1>4. Arity(t) = 2 => Len(s) - 1 \in 1 .. Len(s) /\ Len(s) \in 1 .. Len(s)
  BY <1>1
<1>5. Arity(t) = 1 => Len(s) \in 1 .. Len(s)
  BY <1>1
<1> QED BY <1>1, <1>2, <1>3, <1>4, <1>5 DEF Operands

\* One token has one value, if its name has.
\* The numbers of the text and of the command line are resolved.
LEMMA NumTypes == \A v \in Value : v.type \in Resolved
<1> DEFINE S == 0 .. Pow2[LongBits] - 1
           R == {q \in Int \X (Nat \ {0}) : GCD[<<Abs(q[1]), q[2]>>] = 1}
<1>1. Value = [type : {"kInt"}, q : S \X {1}] \cup [type : {"kFract", "kFloat"}, q : R]
  BY DEF Value
<1> HIDE DEF S, R
<1> QED BY <1>1 DEF Resolved, Types

LEMMA OneOutcome ==
  ASSUME NEW t \in Token, NEW s, Operands(t, s, Resolved), NEW read, NEW other, NEW at,
         t.k = "sym" => read[t.name] = other[t.name] /\ read[t.name].type \in Resolved
  PROVE  \A p, r \in {1, 2} : OneValue(Outcomes(t, s, read, at, p), Outcomes(t, s, other, at, r))
<1>1. CASE Arity(t) = 2
  <2> DEFINE v == s[Len(s) - 1]
             w == s[Len(s)]
  <2>1. t.op \in Binary /\ v.type \in Resolved /\ w.type \in Resolved /\ v.type \in Types /\ w.type \in Types
    BY <1>1 DEF Operands, Resolved
  <2>2. \A p, r \in {1, 2} : OneValue(Apply2(t.op, v, w, p), Apply2(t.op, v, w, r))
    <3> HIDE DEF v, w
    <3> QED BY <2>1, Apply2Types
  <2> QED BY <1>1, <2>2 DEF Outcomes
<1>2. CASE Arity(t) = 1
  <2> DEFINE v == s[Len(s)]
  <2>1. t.op \in Unary /\ v.type \in Resolved /\ v.type \in Types
    BY <1>2 DEF Operands, Resolved
  <2>2. OneValue(Apply1(t.op, v), Apply1(t.op, v))
    <3> HIDE DEF v
    <3> QED BY <2>1, Apply1Types
  <2> QED BY <1>2, <2>2 DEF Outcomes
<1>3. CASE Arity(t) = 0
  <2>1. PICK v : v.type \in Resolved /\ \A p : Outcomes(t, s, read, at, p) = Gives(v) /\ Outcomes(t, s, other, at, p) = Gives(v)
    <3>1. \A n : Val_CreateInt(n).type \in Resolved
      BY ValTypes DEF Resolved, Types
    <3>2. t.k = "num" => t.num.type \in Resolved
      BY NumTypes DEF Token
    <3>3. t.k \in {"num", "sym", "bin", "chars", "op", "here"} /\ t.k # "op"
      <4>1. t.k \in {"num", "sym", "bin", "chars", "op", "here"}
        BY DEF Token
      <4> QED BY <1>3, <4>1 DEF Arity
    <3>4. CASE t.k = "sym"
      BY <1>3, <3>4 DEF Outcomes
    <3>5. CASE t.k = "here"
      BY <1>3, <3>1, <3>5 DEF Outcomes
    <3>6. CASE t.k = "num"
      BY <1>3, <3>2, <3>6 DEF Outcomes
    <3>7. CASE t.k = "bin"
      BY <1>3, <3>1, <3>7 DEF Outcomes
    <3>8. CASE t.k = "chars"
      BY <1>3, <3>1, <3>8 DEF Outcomes
    <3> QED BY <3>3, <3>4, <3>5, <3>6, <3>7, <3>8
  <2> QED BY <2>1, GivesOne
<1> QED BY <1>1, <1>2, <1>3, ArityOf

LEMMA OneStep ==
  ASSUME NEW t \in Token, NEW s, Stack(s, Resolved), Arity(t) <= Len(s), NEW read, NEW other, NEW at,
         t.k = "sym" => read[t.name] = other[t.name] /\ read[t.name].type \in Resolved,
         NEW q, StepOf(t, s, read, at, q), NEW r, StepOf(t, s, other, at, r)
  PROVE  q = r /\ Grown(t, s, q, Resolved)
<1>1. PICK p1 \in {1, 2} : \E o \in Outcomes(t, s, read, at, p1) : ~o.err /\ q = Append(Rest(t, s), o.val)
  BY DEF StepOf
<1>2. PICK o1 \in Outcomes(t, s, read, at, p1) : ~o1.err /\ q = Append(Rest(t, s), o1.val)
  BY <1>1
<1>3. PICK p2 \in {1, 2} : \E o \in Outcomes(t, s, other, at, p2) : ~o.err /\ r = Append(Rest(t, s), o.val)
  BY DEF StepOf
<1>4. PICK o2 \in Outcomes(t, s, other, at, p2) : ~o2.err /\ r = Append(Rest(t, s), o2.val)
  BY <1>3
<1>5. Operands(t, s, Resolved)
  BY FindsOperands
<1>6. OneValue(Outcomes(t, s, read, at, p1), Outcomes(t, s, other, at, p2))
  BY <1>5, OneOutcome
<1>7. o1.val = o2.val /\ o1.val.type \in Resolved
  BY <1>2, <1>4, <1>6 DEF OneValue
<1> QED BY <1>2, <1>4, <1>7, RestGrown

\* So an expression has one value, for one address and the same resolved values of
\* its names.
LEMMA Deterministic ==
  ASSUME NEW ts \in Seq(Token), Reducible(ts), NEW read, NEW other, NEW at,
         \A n \in SymbolsOf(ts) : read[n] = other[n] /\ read[n].type \in Resolved,
         NEW q, Yields(ts, read, at, q), NEW r, Yields(ts, other, at, r)
  PROVE  q = r
<1>1. PICK f : Computes(ts, Len(ts), read, at, f) /\ q = f[Len(ts)]
  BY DEF Yields
<1>2. PICK g : Computes(ts, Len(ts), other, at, g) /\ r = g[Len(ts)]
  BY DEF Yields
<1>3. PICK n : n = Len(ts)
  OBVIOUS
<1>4. n \in Nat /\ DOMAIN ts = 1 .. n
  BY <1>3
<1> DEFINE Good(i) == f[i] = g[i] /\ Stack(f[i], Resolved) /\ Len(f[i]) = Depth(ts, i)
           T == {i \in 0 .. n : ~Good(i)}
<1>5. T = {}
  <2>1. SUFFICES ASSUME T # {} PROVE FALSE
    OBVIOUS
  <2>2. PICK m \in T : \A k \in T : m <= k
    <3>1. T \in SUBSET Nat
      BY <1>4
    <3> HIDE DEF T
    <3> QED BY <2>1, <3>1, LeastNatural
  <2>3. m \in 0 .. n /\ ~Good(m)
    OBVIOUS
  <2>4. m # 0
    <3>1. f[0] = <<>> /\ g[0] = <<>>
      BY <1>1, <1>2 DEF Computes
    <3>2. Good(0)
      BY <3>1, StackEmpty, DepthNone
    <3> QED BY <2>3, <3>2
  <2>5. PICK k : k = m - 1
    OBVIOUS
  <2>6. k \in Nat /\ m = k + 1 /\ k \in 0 .. n /\ m \in 1 .. n /\ k < m
    BY <1>4, <2>3, <2>4, <2>5
  <2>7. Good(k)
    <3>1. k \notin T
      <4> HIDE DEF T
      <4> QED BY <2>2, <2>6
    <3> QED BY <2>6, <3>1
  <2>8. PICK t \in Token : t = ts[m]
    BY <1>3, <2>6
  <2>9. Arity(t) <= Len(f[k])
    <3>1. Arity(ts[m]) <= Depth(ts, m - 1)
      BY <1>4, <2>6 DEF Reducible
    <3> QED BY <2>5, <2>7, <2>8, <3>1
  <2>10. t.k = "sym" => read[t.name] = other[t.name] /\ read[t.name].type \in Resolved
    <3>1. t \in ToSet(ts)
      BY <1>4, <2>6, <2>8 DEF ToSet
    <3>2. t.k = "sym" => t.name \in SymbolsOf(ts)
      BY <3>1 DEF SymbolsOf
    <3> QED BY <3>2
  <2>11. StepOf(t, f[k], read, at, f[m]) /\ StepOf(t, f[k], other, at, g[m])
    <3>1. StepOf(ts[m], f[m - 1], read, at, f[m]) /\ StepOf(ts[m], g[m - 1], other, at, g[m])
      BY <1>1, <1>2, <1>3, <2>6 DEF Computes
    <3> QED BY <2>5, <2>7, <2>8, <3>1
  <2>12. f[m] = g[m] /\ Grown(t, f[k], f[m], Resolved)
    <3>1. Stack(f[k], Resolved)
      BY <2>7
    <3> HIDE DEF Good, T
    <3> QED BY <2>9, <2>10, <2>11, <3>1, OneStep
  <2>13. Len(f[m]) = Depth(ts, m)
    <3>1. Len(f[m]) = Len(f[k]) + 1 - Arity(t) /\ Len(f[k]) = Depth(ts, k)
      BY <2>7, <2>12 DEF Grown
    <3>2. Depth(ts, m) = Depth(ts, k) + 1 - Arity(ts[m])
      <4> HIDE DEF Good, T
      <4> QED BY <2>6, DepthNext
    <3> QED BY <2>8, <3>1, <3>2
  <2>14. Good(m)
    BY <2>12, <2>13 DEF Grown
  <2> QED BY <2>3, <2>14
<1>6. Good(n)
  BY <1>4, <1>5
<1> QED BY <1>1, <1>2, <1>3, <1>6

\* The table holds resolved values, and what its names are read with.
Valued == \A a \in DOMAIN slots : slots[a].val.type \in Resolved
ReadNow == [n \in Names |-> ValueOf(n)]

LEMMA ReadTypes ==
  ASSUME Table, Valued, NEW n \in Names
  PROVE  GetSym(n).val = ReadNow[n] /\ GetSym(n).val.type \in Types /\ GetSym(n).err \in BOOLEAN
<1>1. GetSym(n).val = ReadNow[n]
  BY GetSymValue DEF ReadNow
<1>2. CASE Defined(n)
  <2>1. FindSymbol(n) \in DOMAIN slots
    BY <1>2, GetSymValue
  <2> QED BY <1>1, <1>2, <2>1 DEF GetSym, Valued, Resolved
<1>3. CASE ~Defined(n)
  <2>1. GetSym(n).val.type = "kUnresolved"
    BY <1>3, ValTypes DEF GetSym
  <2> QED BY <1>1, <1>3, <2>1 DEF GetSym, Types
<1> QED BY <1>2, <1>3

\* The outcomes of a token in the state of the table.
OutcomesNow(t, s) ==
  IF Arity(t) = 0 THEN Leaf(t)
  ELSE IF Arity(t) = 2 THEN Apply2(t.op, s[Len(s) - 1], s[Len(s)], g_passNum + 1)
  ELSE Apply1(t.op, s[Len(s)])

LEMMA OutcomesOfNow ==
  ASSUME Table, Valued, g_passNum \in {0, 1}, NEW t \in Token, NEW s, Operands(t, s, Types)
  PROVE  /\ Typed(OutcomesNow(t, s))
         /\ \A o \in OutcomesNow(t, s) :
               ~o.err => \E p \in {1, 2} : \E r \in Outcomes(t, s, ReadNow, pc, p) : ~r.err /\ r.val = o.val
<1>1. CASE Arity(t) = 2
  <2> DEFINE v == s[Len(s) - 1]
             w == s[Len(s)]
             p == g_passNum + 1
  <2>1. t.op \in Binary /\ v.type \in Types /\ w.type \in Types /\ p \in {1, 2}
    BY <1>1 DEF Operands
  <2>2. Typed(Apply2(t.op, v, w, p))
    <3> HIDE DEF v, w, p
    <3> QED BY <2>1, Apply2Types
  <2>3. OutcomesNow(t, s) = Apply2(t.op, v, w, p) /\ Outcomes(t, s, ReadNow, pc, p) = Apply2(t.op, v, w, p)
    BY <1>1 DEF OutcomesNow, Outcomes
  <2> HIDE DEF v, w, p
  <2> QED BY <2>1, <2>2, <2>3
<1>2. CASE Arity(t) = 1
  <2> DEFINE v == s[Len(s)]
  <2>1. t.op \in Unary /\ v.type \in Types
    BY <1>2 DEF Operands
  <2>2. Typed(Apply1(t.op, v))
    <3> HIDE DEF v
    <3> QED BY <2>1, Apply1Types
  <2>3. OutcomesNow(t, s) = Apply1(t.op, v) /\ Outcomes(t, s, ReadNow, pc, 1) = Apply1(t.op, v)
    BY <1>2 DEF OutcomesNow, Outcomes
  <2> HIDE DEF v
  <2> QED BY <2>2, <2>3
<1>3. CASE Arity(t) = 0
  <2>1. t.k \in {"num", "sym", "bin", "chars", "op", "here"} /\ t.k # "op"
    <3>1. t.k \in {"num", "sym", "bin", "chars", "op", "here"}
      BY DEF Token
    <3> QED BY <1>3, <3>1 DEF Arity
  <2>2. OutcomesNow(t, s) = Leaf(t)
    BY <1>3 DEF OutcomesNow
  <2>3. CASE t.k = "sym"
    <3>1. PICK n \in Names : n = t.name
      BY <2>3, SymbolName
    <3>2. Leaf(t) = {GetSym(n)}
      BY <2>3, <3>1 DEF Leaf
    <3>3. GetSym(n).val = ReadNow[n] /\ GetSym(n).val.type \in Types /\ GetSym(n).err \in BOOLEAN
      BY ReadTypes
    <3>4. Outcomes(t, s, ReadNow, pc, 1) = Gives(ReadNow[n])
      BY <1>3, <2>3, <3>1 DEF Outcomes
    <3>5. \E r \in Gives(ReadNow[n]) : ~r.err /\ r.val = ReadNow[n]
      BY DEF Gives
    <3>6. \A o \in OutcomesNow(t, s) : o = GetSym(n)
      BY <2>2, <3>2
    <3> QED BY <3>3, <3>4, <3>5, <3>6 DEF Typed
  <2>4. CASE t.k # "sym"
    <3>1. PICK v : v.type \in Types /\ Leaf(t) = Gives(v) /\ Outcomes(t, s, ReadNow, pc, 1) = Gives(v)
      <4>1. \A n : Val_CreateInt(n).type \in Types
        BY ValTypes DEF Types
      <4>2. t.k = "num" => t.num.type \in Types
        BY NumTypes DEF Token, Resolved
      <4>3. CASE t.k = "here"
        BY <1>3, <4>1, <4>3 DEF Outcomes, Leaf, GetCurrentPC
      <4>4. CASE t.k = "num"
        BY <1>3, <4>2, <4>4 DEF Outcomes, Leaf
      <4>5. CASE t.k = "bin"
        BY <1>3, <4>1, <4>5 DEF Outcomes, Leaf
      <4>6. CASE t.k = "chars"
        BY <1>3, <4>1, <4>6 DEF Outcomes, Leaf
      <4> QED BY <2>1, <2>4, <4>3, <4>4, <4>5, <4>6
    <3>2. Typed(Gives(v))
      BY <3>1, GivesTyped
    <3> QED BY <2>2, <3>1, <3>2
  <2> QED BY <2>3, <2>4
<1> QED BY <1>1, <1>2, <1>3, ArityOf

LEMMA ReduceStep ==
  ASSUME Table, Valued, g_passNum \in {0, 1}, NEW t \in Token,
         NEW s, Stack(s.stack, Types), s.err \in BOOLEAN, Arity(t) <= Len(s.stack), NEW e \in Reduce(s, t)
  PROVE  /\ Grown(t, s.stack, e.stack, Types) /\ e.err \in BOOLEAN /\ (s.err => e.err)
         /\ ~e.err => StepOf(t, s.stack, ReadNow, pc, e.stack)
<1>1. t.k = "op" => t.op \in Binary \cup Unary
  BY DEF Token
<1>2. PICK o \in OutcomesNow(t, s.stack) : e = [stack |-> Append(Rest(t, s.stack), o.val), err |-> s.err \/ o.err]
  <2>1. CASE Arity(t) = 0
    <3>1. t.k # "op"
      BY <2>1 DEF Arity
    <3>2. PICK o \in Leaf(t) : e = [stack |-> Append(s.stack, o.val), err |-> s.err \/ o.err]
      BY <3>1 DEF Reduce
    <3>3. Rest(t, s.stack) = s.stack
      <4>1. PICK S : s.stack \in Seq(S)
        BY DEF Stack
      <4> QED BY <2>1, <4>1 DEF Rest
    <3> QED BY <2>1, <3>2, <3>3 DEF OutcomesNow
  <2>2. CASE Arity(t) = 2
    <3>1. t.k = "op" /\ t.op \in Binary
      BY <2>2 DEF Arity
    <3>2. PICK o \in Apply2(t.op, s.stack[Len(s.stack) - 1], s.stack[Len(s.stack)], g_passNum + 1) :
             e = [stack |-> Append(SubSeq(s.stack, 1, Len(s.stack) - 2), o.val), err |-> s.err \/ o.err]
      BY <3>1 DEF Reduce
    <3>3. Rest(t, s.stack) = SubSeq(s.stack, 1, Len(s.stack) - 2)
      BY <2>2 DEF Rest
    <3>4. o \in OutcomesNow(t, s.stack)
      BY <2>2, <3>2 DEF OutcomesNow
    <3> QED BY <3>2, <3>3, <3>4
  <2>3. CASE Arity(t) = 1
    <3>1. t.k = "op" /\ t.op \notin Binary
      BY <2>3 DEF Arity
    <3>2. PICK o \in Apply1(t.op, s.stack[Len(s.stack)]) :
             e = [stack |-> Append(SubSeq(s.stack, 1, Len(s.stack) - 1), o.val), err |-> s.err \/ o.err]
      BY <3>1 DEF Reduce
    <3>3. Rest(t, s.stack) = SubSeq(s.stack, 1, Len(s.stack) - 1)
      BY <2>3 DEF Rest
    <3>4. o \in OutcomesNow(t, s.stack)
      BY <2>3, <3>2 DEF OutcomesNow
    <3> QED BY <3>2, <3>3, <3>4
  <2> QED BY <2>1, <2>2, <2>3, ArityOf
<1>3. Operands(t, s.stack, Types)
  BY FindsOperands
<1>4. /\ Typed(OutcomesNow(t, s.stack))
      /\ ~o.err => \E p \in {1, 2} : \E r \in Outcomes(t, s.stack, ReadNow, pc, p) : ~r.err /\ r.val = o.val
  BY <1>3, OutcomesOfNow
<1>5. o.val.type \in Types /\ o.err \in BOOLEAN
  BY <1>4 DEF Typed
<1>6. e.stack = Append(Rest(t, s.stack), o.val) /\ e.err = (s.err \/ o.err)
  BY <1>2
<1>7. Grown(t, s.stack, e.stack, Types)
  BY <1>5, <1>6, RestGrown
<1>8. ~e.err => StepOf(t, s.stack, ReadNow, pc, e.stack)
  BY <1>4, <1>6 DEF StepOf
<1> QED BY <1>5, <1>6, <1>7, <1>8

\* An evaluation leaves what the expressions come to.
LEMMA EvaluateYields ==
  ASSUME Table, Valued, g_passNum \in {0, 1}, NEW exps, NEW ts \in Seq(Token), ts = FlattenSeq(exps), Reducible(ts),
         NEW e \in Evaluate(exps)
  PROVE  /\ Stack(e.stack, Types) /\ Len(e.stack) = Depth(ts, Len(ts)) /\ e.err \in BOOLEAN
         /\ ~e.err => Yields(ts, ReadNow, pc, e.stack)
<1>1. PICK n : n = Len(ts)
  OBVIOUS
<1>2. n \in Nat /\ DOMAIN ts = 1 .. n
  BY <1>1
<1>3. PICK f : Run(ts, n, f) /\ f[n] = e
  BY <1>1, EvaluateRuns DEF RunsTo
<1> DEFINE Reach(i) == Stack(f[i].stack, Types) /\ Len(f[i].stack) = Depth(ts, i) /\ f[i].err \in BOOLEAN
           Step(i) == StepOf(ts[i], f[i - 1].stack, ReadNow, pc, f[i].stack)
           Good(i) == Reach(i) /\ (~f[i].err => \A j \in 1 .. i : Step(j))
           T == {i \in 0 .. n : ~Good(i)}
<1>4. T = {}
  <2>1. SUFFICES ASSUME T # {} PROVE FALSE
    OBVIOUS
  <2>2. PICK m \in T : \A k \in T : m <= k
    <3>1. T \in SUBSET Nat
      BY <1>2
    <3> HIDE DEF T
    <3> QED BY <2>1, <3>1, LeastNatural
  <2>3. m \in 0 .. n /\ ~Good(m)
    OBVIOUS
  <2>4. m # 0
    <3>1. f[0].stack = <<>> /\ f[0].err = FALSE
      BY <1>3 DEF Run, Start
    <3>2. Reach(0)
      BY <3>1, StackEmpty, DepthNone
    <3>3. Good(0)
      <4>1. \A j \in 1 .. 0 : FALSE
        OBVIOUS
      <4> HIDE DEF Reach, Step
      <4> QED BY <3>2, <4>1
    <3> QED BY <2>3, <3>3
  <2>5. PICK k : k = m - 1
    OBVIOUS
  <2>6. k \in Nat /\ m = k + 1 /\ k \in 0 .. n /\ m \in 1 .. n /\ k < m
    BY <1>2, <2>3, <2>4, <2>5
  <2>7. Good(k)
    <3>1. k \notin T
      <4> HIDE DEF T
      <4> QED BY <2>2, <2>6
    <3> QED BY <2>6, <3>1
  <2>8. PICK t \in Token : t = ts[m]
    BY <1>1, <2>6
  <2>9. Arity(t) <= Len(f[k].stack)
    <3>1. Arity(ts[m]) <= Depth(ts, m - 1)
      BY <1>2, <2>6 DEF Reducible
    <3> QED BY <2>5, <2>7, <2>8, <3>1
  <2>10. f[m] \in Reduce(f[k], t)
    BY <1>3, <2>5, <2>6, <2>8 DEF Run
  <2>11. PICK s, r : s = f[k] /\ r = f[m]
    OBVIOUS
  <2>12. /\ Grown(t, s.stack, r.stack, Types) /\ r.err \in BOOLEAN /\ (s.err => r.err)
         /\ ~r.err => StepOf(t, s.stack, ReadNow, pc, r.stack)
    <3>1. Stack(s.stack, Types) /\ s.err \in BOOLEAN /\ Arity(t) <= Len(s.stack) /\ r \in Reduce(s, t)
      BY <2>7, <2>9, <2>10, <2>11
    <3> HIDE DEF Good, T
    <3> QED BY <3>1, ReduceStep
  <2>13. Reach(m)
    <3>1. Len(r.stack) = Len(s.stack) + 1 - Arity(t) /\ Len(s.stack) = Depth(ts, k)
      BY <2>7, <2>11, <2>12 DEF Grown
    <3>2. Depth(ts, m) = Depth(ts, k) + 1 - Arity(ts[m])
      <4> HIDE DEF Good, T
      <4> QED BY <2>6, DepthNext
    <3>3. Len(r.stack) = Depth(ts, m)
      BY <2>8, <3>1, <3>2
    <3> QED BY <2>11, <2>12, <3>3 DEF Grown
  <2>14. ~f[m].err => \A j \in 1 .. m : Step(j)
    <3> SUFFICES ASSUME ~f[m].err, NEW j \in 1 .. m PROVE Step(j)
      OBVIOUS
    <3>1. CASE j = m
      BY <2>5, <2>8, <2>11, <2>12, <3>1
    <3>2. CASE j # m
      <4>1. j \in 1 .. k /\ ~f[k].err
        BY <2>6, <2>11, <2>12, <3>2
      <4> HIDE DEF Step, Reach
      <4> QED BY <2>7, <4>1
    <3> QED BY <3>1, <3>2
  <2> QED BY <2>3, <2>13, <2>14
<1>5. Good(n)
  BY <1>2, <1>4
<1>6. ~e.err => Yields(ts, ReadNow, pc, e.stack)
  <2> SUFFICES ASSUME ~e.err PROVE Yields(ts, ReadNow, pc, e.stack)
    OBVIOUS
  <2> DEFINE g == [i \in 0 .. n |-> f[i].stack]
  <2>1. \A i \in 0 .. n : g[i] = f[i].stack
    OBVIOUS
  <2>2. g[0] = <<>>
    BY <1>2, <1>3, <2>1 DEF Run, Start
  <2>3. \A i \in 1 .. n : StepOf(ts[i], g[i - 1], ReadNow, pc, g[i])
    <3> TAKE i \in 1 .. n
    <3>1. Step(i)
      BY <1>3, <1>5
    <3>2. i \in 0 .. n /\ i - 1 \in 0 .. n
      BY <1>2
    <3> HIDE DEF g
    <3> QED BY <2>1, <3>1, <3>2
  <2>4. g[n] = e.stack
    BY <1>2, <1>3, <2>1
  <2> HIDE DEF g
  <2> QED BY <1>1, <2>2, <2>3, <2>4 DEF Computes, Yields
<1> QED BY <1>1, <1>3, <1>5, <1>6

----------------------------------------------------------------------------
(* The inductive invariant: what the passes leave behind them.             *)

\* The tokens of a line, and its address.
TokensAt(i) == FlattenSeq(program[i].exps)
PcAt(i) == (IF mem = L_MEM THEN 2 ELSE 1) * Cardinality((1 .. i - 1) \cap {j \in Lines : program[j].op = "dc"})

Evaluated == {"equ", "set", "dc", "if", "ifcc"}
Grammar(i) ==
  /\ TokensAt(i) \in Seq(Token) /\ Reducible(TokensAt(i)) /\ Depth(TokensAt(i), Len(TokensAt(i))) \in Nat \ {0}
  /\ program[i].op = "if" => Depth(TokensAt(i), Len(TokensAt(i))) = 2
Machine ==
  /\ mem \in {P_MEM, L_MEM} /\ errors \in BOOLEAN /\ pc = PcAt(line)
  /\ phase \in {"options", "parse", "failed", "saved", "dead"} /\ (phase = "options" => answers = {})
  /\ \A i \in Lines : program[i].op \in Evaluated => Grammar(i)

Entry(e) == e.type \in {T_PTR, T_MACRO, T_VALUE} /\ e.mem_space \in {-1, P_MEM, L_MEM} /\ e.val.type \in Resolved
Entries == \A a \in DOMAIN slots : Entry(slots[a])

\* A name in the table has been an option or a label; so the first line that gives it a
\* value is no SET.
DefinedBy == \A n \in DOMAIN Bar : \E k \in Givers(n) : k = 0 \/ (HasLabel(program[k]) /\ LabelPast(0, k))
SetsAfter == ~errors => \A j \in Lines : program[j].op = "set" /\ Past(0, j) => \E k \in Givers(program[j].name) : k < j

\* The stack a line comes to in a pass, with what it has read.
Comes(p, i, s) ==
  \E read : /\ \A n \in SymbolsOf(TokensAt(i)) : [pass |-> p, line |-> i, name |-> n, val |-> read[n]] \in reads
            /\ Yields(TokensAt(i), read, PcAt(i), s)

GoodGiven(g) ==
  /\ g = [pass |-> g.pass, line |-> g.line, by |-> g.by, name |-> g.name, val |-> g.val] /\ g.val.type \in Resolved
  /\ ~errors /\ g.by \in {"equ", "set"} => \E s : Comes(g.pass, g.line, s) /\ g.val = s[1]

AnswerFrom(a, st) ==
  /\ st.op = "if" => Comes(a.pass, a.line, a.vals) /\ a.answer = EvalCondition(st.cond, a.vals[1], a.vals[2])
  /\ st.op = "ifcc" => Comes(a.pass, a.line, a.vals) /\ a.answer = EvalIfOneArg(st.cond, Val_GetAsInt(a.vals[1]).int)
  /\ st.op = "ifdef" => /\ a.vals = <<>>
                        /\ (\A j \in Givers(st.name) : j < a.line) => a.answer = (Givers(st.name) # {})
GoodAnswer(a) ==
  /\ a = [pass |-> a.pass, line |-> a.line, vals |-> a.vals, answer |-> a.answer]
  /\ a.pass \in {0, 1} /\ a.line \in Lines /\ Past(a.pass, a.line) /\ program[a.line].op \in {"if", "ifcc", "ifdef"}
  /\ ~errors => AnswerFrom(a, program[a.line])

\* Every line behind the parser has given its name a value, or has its answer.
Done(p, i) ==
  /\ program[i].op \in {"equ", "set"} => \E g \in given : g.pass = p /\ g.line = i /\ g.by = program[i].op
  /\ program[i].op \in {"if", "ifcc", "ifdef"} => \E a \in answers : a.pass = p /\ a.line = i
DoneLines == ~errors => \A p \in {0, 1}, i \in Lines : Past(p, i) => Done(p, i)

HInv == /\ Machine /\ Entries /\ DefinedBy /\ SetsAfter /\ DoneLines
        /\ (\A g \in given : GoodGiven(g)) /\ (\A a \in answers : GoodAnswer(a))

\* What no step takes back.
Grows ==
  /\ program' = program /\ mem' = mem /\ reads \subseteq reads' /\ (errors => errors')
  /\ \A p \in {0, 1}, i \in Lines : Past(p, i) => Past(p, i)'

LEMMA SameText ==
  ASSUME program' = program, mem' = mem
  PROVE  /\ Lines' = Lines /\ \A i : TokensAt(i)' = TokensAt(i) /\ PcAt(i)' = PcAt(i) /\ OpGives(i)' = OpGives(i)
         /\ \A i : Grammar(i) => Grammar(i)'
BY DEF Lines, TokensAt, PcAt, OpGives, Grammar

LEMMA ComesKept ==
  ASSUME program' = program, mem' = mem, reads \subseteq reads', NEW p, NEW i, NEW s, Comes(p, i, s)
  PROVE  Comes(p, i, s)'
<1>1. PICK read : /\ \A n \in SymbolsOf(TokensAt(i)) : [pass |-> p, line |-> i, name |-> n, val |-> read[n]] \in reads
                  /\ Yields(TokensAt(i), read, PcAt(i), s)
  BY DEF Comes
<1>2. TokensAt(i)' = TokensAt(i) /\ PcAt(i)' = PcAt(i)
  BY SameText
<1> QED BY <1>1, <1>2 DEF Comes

LEMMA GivenKept ==
  ASSUME Grows, NEW g, GoodGiven(g)
  PROVE  GoodGiven(g)'
<1>1. \A s : Comes(g.pass, g.line, s) => Comes(g.pass, g.line, s)'
  BY ComesKept DEF Grows
<1> QED BY <1>1 DEF GoodGiven, Grows

LEMMA AnswerKept ==
  ASSUME Grows, \A n : Givers(n)' = Givers(n), NEW a, GoodAnswer(a)
  PROVE  GoodAnswer(a)'
<1>1. Comes(a.pass, a.line, a.vals) => Comes(a.pass, a.line, a.vals)'
  BY ComesKept DEF Grows
<1>2. Past(a.pass, a.line)' /\ Lines' = Lines /\ program' = program
  BY SameText DEF GoodAnswer, Grows
<1>3. AnswerFrom(a, program[a.line]) => AnswerFrom(a, program[a.line])'
  BY <1>1, <1>2 DEF AnswerFrom
<1> QED BY <1>2, <1>3 DEF GoodAnswer, Grows

----------------------------------------------------------------------------
(* The end of a line.                                                      *)

LineStep ==
  /\ LabelDone /\ NextLine /\ UNCHANGED <<program, mem, phase, g_passNum>>
  /\ (errors => errors') /\ errors' \in BOOLEAN /\ reads \subseteq reads' /\ given \subseteq given' /\ answers \subseteq answers'
  /\ pc' = IF Current.op = "dc" THEN IF mem = L_MEM THEN pc + 2 ELSE pc + 1 ELSE pc
  /\ Entries' /\ DOMAIN Bar' = DOMAIN Bar
  /\ \A g \in given' \ given : g.by # "option" /\ GoodGiven(g)'
  /\ \A a \in answers' \ answers : GoodAnswer(a)'
  /\ ~errors' => (\A p \in {g_passNum}, i \in {line} : Done(p, i)') /\ (Current.op = "set" => Current.name \in DOMAIN Bar)

LEMMA LineGrows ==
  ASSUME IInv, RInv, LineStep
  PROVE  /\ Grows /\ line \in Lines /\ line \in Nat /\ \A n : Givers(n)' = Givers(n)
         /\ \A p \in {0, 1}, i \in Lines : Past(p, i)' => Past(p, i) \/ (p = g_passNum /\ i = line)
         /\ \A i \in Lines : LabelPast(0, i) => LabelPast(0, i)'
<1>1. line \in Nat /\ line \in Lines /\ line' = line + 1 /\ g_passNum \in {0, 1} /\ Lines \in SUBSET Nat /\ g_passNum' = g_passNum
  BY DEF LineStep, LabelDone, Parsing, NextLine, IInv, Texts, Lines, RInv, Position
<1>2. \A p \in {0, 1}, i \in Lines : /\ Past(p, i) => Past(p, i)'
                                     /\ Past(p, i)' => Past(p, i) \/ (p = g_passNum /\ i = line)
                                     /\ (p = g_passNum /\ i = line) => Past(p, i)'
  BY <1>1 DEF Past
<1>3. \A i \in Lines : LabelPast(0, i) => LabelPast(0, i)'
  <2> SUFFICES ASSUME NEW i \in Lines, LabelPast(0, i) PROVE LabelPast(0, i)'
    OBVIOUS
  <2>1. Past(0, i) \/ (0 = g_passNum /\ i = line)
    BY DEF LabelPast
  <2>2. Past(0, i)'
    BY <1>2, <2>1
  <2> QED BY <2>2 DEF LabelPast
<1>4. \A n : Givers(n)' = Givers(n)
  BY GiversKept DEF LineStep
<1>5. Grows
  BY <1>2 DEF Grows, LineStep
<1> QED BY <1>1, <1>2, <1>3, <1>4, <1>5

LEMMA PcNext ==
  ASSUME NEW i \in Lines, mem \in {P_MEM, L_MEM}, Len(program) \in Nat
  PROVE  PcAt(i + 1) = IF program[i].op = "dc" THEN IF mem = L_MEM THEN PcAt(i) + 2 ELSE PcAt(i) + 1 ELSE PcAt(i)
<1> DEFINE D == {j \in Lines : program[j].op = "dc"}
           k == IF mem = L_MEM THEN 2 ELSE 1
           n == i - 1
           a == Cardinality((1 .. n) \cap D)
           b == Cardinality((1 .. i) \cap D)
<1>1. n \in Nat /\ i = n + 1 /\ (i \in D <=> program[i].op = "dc") /\ (i + 1) - 1 = i
  BY DEF Lines
<1>2. a \in Nat /\ (i \in D => b = a + 1) /\ (i \notin D => b = a)
  <2> HIDE DEF D, n
  <2> QED BY <1>1, CountNext
<1>3. PcAt(i) = k * a /\ PcAt(i + 1) = k * b
  BY <1>1 DEF PcAt
<1>4. k \in {1, 2}
  OBVIOUS
<1> HIDE DEF a, b, D, n
<1>5. CASE i \in D
  <2>1. k * b = k * a + k
    <3> HIDE DEF k
    <3> QED BY <1>2, <1>4, <1>5
  <2> QED BY <1>1, <1>3, <1>5, <2>1
<1>6. CASE i \notin D
  <2>1. k * b = k * a /\ k * a \in Nat
    <3> HIDE DEF k
    <3> QED BY <1>2, <1>4, <1>6
  <2> QED BY <1>1, <1>3, <1>6, <2>1
<1> QED BY <1>5, <1>6

LEMMA DoneKept ==
  ASSUME program' = program, given \subseteq given', answers \subseteq answers', NEW p, NEW i, Done(p, i)
  PROVE  Done(p, i)'
BY DEF Done

LEMMA LineHistory ==
  ASSUME IInv, RInv, HInv, LineStep
  PROVE  HInv'
<1>1. /\ Grows /\ line \in Lines /\ line \in Nat /\ \A n : Givers(n)' = Givers(n)
      /\ \A p \in {0, 1}, i \in Lines : Past(p, i)' => Past(p, i) \/ (p = g_passNum /\ i = line)
      /\ \A i \in Lines : LabelPast(0, i) => LabelPast(0, i)'
  BY LineGrows
<1>2. /\ Lines' = Lines /\ program' = program /\ mem' = mem /\ (errors => errors') /\ phase' = phase
      /\ line' = line + 1 /\ Current = program[line] /\ g_passNum \in {0, 1} /\ phase = "parse"
  BY SameText DEF LineStep, NextLine, Current, RInv, Position, LabelDone, Parsing
<1>3. Machine'
  <2>1. pc' = PcAt(line)'
    <3>1. PcAt(line + 1) = IF program[line].op = "dc" THEN IF mem = L_MEM THEN PcAt(line) + 2 ELSE PcAt(line) + 1 ELSE PcAt(line)
      BY <1>1, PcNext DEF HInv, Machine, IInv, Texts
    <3>2. PcAt(line)' = PcAt(line + 1)
      BY <1>2, SameText DEF PcAt
    <3> QED BY <1>2, <3>1, <3>2 DEF LineStep, HInv, Machine
  <2>2. \A i \in Lines : program[i].op \in Evaluated => Grammar(i)'
    BY <1>2, SameText DEF HInv, Machine
  <2> QED BY <1>2, <2>1, <2>2 DEF HInv, Machine, LineStep
<1>4. Entries'
  BY DEF LineStep
<1>5. DefinedBy'
  <2> SUFFICES ASSUME NEW n \in DOMAIN Bar' PROVE \E k \in Givers(n)' : k = 0 \/ (HasLabel(program'[k]) /\ LabelPast(0, k)')
    BY DEF DefinedBy, HasLabel
  <2>1. PICK k \in Givers(n) : k = 0 \/ (HasLabel(program[k]) /\ LabelPast(0, k))
    BY DEF LineStep, HInv, DefinedBy
  <2>2. k # 0 => k \in Lines
    BY <2>1, GiversBounded DEF IInv, RInv
  <2> QED BY <1>1, <1>2, <2>1, <2>2
<1>6. SetsAfter'
  <2> SUFFICES ASSUME ~errors', NEW j \in Lines, program[j].op = "set", Past(0, j)'
               PROVE  \E k \in Givers(program[j].name) : k < j
    BY <1>1, <1>2 DEF SetsAfter
  <2>1. CASE Past(0, j)
    BY <1>2, <2>1 DEF HInv, SetsAfter
  <2>2. CASE ~Past(0, j)
    <3>1. g_passNum = 0 /\ j = line
      BY <1>1, <2>2
    <3>2. Current.name \in DOMAIN Bar
      BY <1>2, <3>1 DEF LineStep
    <3>3. PICK k \in Givers(Current.name) : k = 0 \/ (HasLabel(program[k]) /\ LabelPast(0, k))
      BY <3>2 DEF HInv, DefinedBy
    <3>4. k < line
      <4>1. k # line
        BY <1>1, <1>2, <3>1, <3>3 DEF HasLabel, Lines
      <4>2. k \in Nat
        BY GiversBounded DEF IInv, RInv
      <4> QED BY <1>1, <3>1, <3>3, <4>1, <4>2 DEF LabelPast, Past, Lines
    <3> QED BY <1>2, <3>1, <3>3, <3>4
  <2> QED BY <2>1, <2>2
<1>7. DoneLines'
  <2> SUFFICES ASSUME ~errors', NEW p \in {0, 1}, NEW i \in Lines, Past(p, i)' PROVE Done(p, i)'
    BY <1>2 DEF DoneLines
  <2>1. CASE Past(p, i)
    <3>1. Done(p, i)
      BY <1>2, <2>1 DEF HInv, DoneLines
    <3> QED BY <1>2, <3>1, DoneKept DEF LineStep
  <2>2. CASE p = g_passNum /\ i = line
    BY <2>2 DEF LineStep
  <2> QED BY <1>1, <2>1, <2>2
<1>8. \A g \in given' : GoodGiven(g)'
  <2>1. \A g \in given : GoodGiven(g)'
    BY <1>1, GivenKept DEF HInv
  <2> QED BY <2>1 DEF LineStep
<1>9. \A a \in answers' : GoodAnswer(a)'
  <2>1. \A a \in answers : GoodAnswer(a)'
    BY <1>1, AnswerKept DEF HInv
  <2> QED BY <2>1 DEF LineStep
<1> QED BY <1>3, <1>4, <1>5, <1>6, <1>7, <1>8, <1>9 DEF HInv

----------------------------------------------------------------------------
(* The statements.                                                         *)

\* What the line comes to in this pass, with what it reads.
ComesHere(s) == \A p \in {g_passNum}, i \in {line} : Comes(p, i, s)'
Value1(e) == /\ e.err \in BOOLEAN /\ Len(e.stack) \in Nat \ {0} /\ e.stack[1].type \in Types
             /\ Current.op = "if" => Len(e.stack) = 2 /\ e.stack[2].type \in Types
             /\ ~e.err => ComesHere(e.stack)

LEMMA ReadsNow ==
  ASSUME IInv, Parsing, Reads(Current.exps)
  PROVE  \A n \in SymbolsOf(TokensAt(line)) : [pass |-> g_passNum, line |-> line, name |-> n, val |-> ReadNow[n]] \in reads'
<1> DEFINE symbols == {u \in ToSet(FlattenSeq(Current.exps)) : u.k = "sym"}
           At(t) == [pass |-> g_passNum, line |-> line, name |-> t.name, val |-> GetSym(t.name).val]
<1>1. line \in DOMAIN program /\ program[line] \in Statements
  BY DEF IInv, Texts, Parsing
<1>2. FlattenSeq(Current.exps) \in Seq(Token)
  <2>1. Current.exps \in Seq(Seq(Token))
    BY <1>1 DEF Current, Statements
  <2> QED BY <2>1, FlattenType
<1>3. ASSUME NEW t \in symbols PROVE t.name \in Names
  <2>1. ToSet(FlattenSeq(Current.exps)) \subseteq Token
    <3> DEFINE flat == FlattenSeq(Current.exps)
               T == Token
    <3>1. flat \in Seq(T)
      BY <1>2
    <3> HIDE DEF flat, T
    <3>2. ToSet(flat) \subseteq T
      BY <3>1 DEF ToSet
    <3> QED BY <3>2 DEF flat, T
  <2> QED BY <2>1, SymbolName
<1>4. ASSUME NEW t \in symbols PROVE At(t) = [pass |-> g_passNum, line |-> line, name |-> t.name, val |-> ReadNow[t.name]]
  BY <1>3, GetSymValue DEF IInv, ReadNow
<1>5. reads' = reads \cup {At(t) : t \in symbols}
  BY DEF Reads
<1>6. SymbolsOf(TokensAt(line)) = {t.name : t \in symbols}
  BY DEF SymbolsOf, TokensAt, Current
<1> HIDE DEF At, symbols
<1> QED BY <1>4, <1>5, <1>6

LEMMA EvaluateNow ==
  ASSUME IInv, RInv, HInv, Parsing, UNCHANGED <<program, mem>>, Reads(Current.exps), Current.op \in Evaluated,
         NEW e \in Evaluate(Current.exps)
  PROVE  Value1(e)
<1> DEFINE ts == TokensAt(line)
<1>1. line \in Lines /\ Current = program[line] /\ g_passNum \in {0, 1}
  BY DEF Parsing, Lines, Current, IInv, Texts, RInv, Position
<1>2. Grammar(line) /\ Table /\ Valued /\ pc = PcAt(line)
  BY <1>1 DEF HInv, Machine, IInv, Entries, Entry, Valued
<1>3. ts \in Seq(Token) /\ Reducible(ts) /\ Depth(ts, Len(ts)) \in Nat \ {0} /\ (Current.op = "if" => Depth(ts, Len(ts)) = 2)
  BY <1>1, <1>2 DEF Grammar
<1>4. ts = FlattenSeq(Current.exps)
  BY DEF TokensAt, Current
<1>5. /\ Stack(e.stack, Types) /\ Len(e.stack) = Depth(ts, Len(ts)) /\ e.err \in BOOLEAN
      /\ ~e.err => Yields(ts, ReadNow, pc, e.stack)
  <2> HIDE DEF ts
  <2> QED BY <1>1, <1>2, <1>3, <1>4, EvaluateYields
<1>6. \A j \in 1 .. Len(e.stack) : e.stack[j].type \in Types
  BY <1>5, StackTop
<1>7. ~e.err => ComesHere(e.stack)
  <2> SUFFICES ASSUME ~e.err, NEW p \in {g_passNum}, NEW i \in {line} PROVE Comes(p, i, e.stack)'
    BY DEF ComesHere
  <2>1. Yields(TokensAt(i), ReadNow, PcAt(i), e.stack)
    BY <1>2, <1>5
  <2>2. \A n \in SymbolsOf(TokensAt(i)) : [pass |-> p, line |-> i, name |-> n, val |-> ReadNow[n]] \in reads'
    BY ReadsNow
  <2>3. TokensAt(i)' = TokensAt(i) /\ PcAt(i)' = PcAt(i)
    BY SameText
  <2>4. PICK read : read = ReadNow
    OBVIOUS
  <2> QED BY <2>1, <2>2, <2>3, <2>4 DEF Comes
<1> QED BY <1>3, <1>5, <1>6, <1>7 DEF Value1

\* What no statement but SET and EQU, or MACRO, does to the table.
LEMMA SameEntries == ASSUME Entries, UNCHANGED tableVars PROVE Entries' /\ DOMAIN Bar' = DOMAIN Bar
BY SameGives DEF Entries, Entry, tableVars

LEMMA SetEntries ==
  ASSUME Table, Entries, NEW a, NEW val, val.type \in Resolved, SymSetValue(a, T_VALUE, val)
  PROVE  Entries'
<1>1. slots' = [slots EXCEPT ![a].type = T_VALUE, ![a].val = val]
  BY DEF SymSetValue
<1>2. DOMAIN slots' = DOMAIN slots /\ \A b \in DOMAIN slots : b # a => slots'[b] = slots[b]
  BY <1>1
<1>3. a \in DOMAIN slots => Entry(slots'[a])
  <2> SUFFICES ASSUME a \in DOMAIN slots PROVE Entry(slots'[a])
    OBVIOUS
  <2> DEFINE s == slots[a]
             m == [s EXCEPT !.type = T_VALUE]
  <2>1. slots'[a] = [m EXCEPT !.val = val]
    BY <1>1
  <2>2. s = [pString |-> s.pString, pNext |-> s.pNext, type |-> s.type, val |-> s.val, mem_space |-> s.mem_space] /\ Entry(s)
    BY DEF Table, Allocated, Filled, Entries
  <2>3. m = [pString |-> s.pString, pNext |-> s.pNext, type |-> T_VALUE, val |-> s.val, mem_space |-> s.mem_space]
    <3> HIDE DEF s
    <3> QED BY <2>2
  <2> HIDE DEF m
  <2>4. slots'[a] = [pString |-> s.pString, pNext |-> s.pNext, type |-> T_VALUE, val |-> val, mem_space |-> s.mem_space]
    BY <2>1, <2>3
  <2>5. slots'[a].type = T_VALUE /\ slots'[a].val = val /\ slots'[a].mem_space = s.mem_space
    <3> HIDE DEF s
    <3> QED BY <2>4
  <2> HIDE DEF s
  <2> QED BY <2>2, <2>5 DEF Entry
<1> QED BY <1>2, <1>3 DEF Entries

LEMMA RetypeEntries ==
  ASSUME Table, Entries, NEW a,
         SymSetValueMacro(a, T_MACRO) \/ (mem \in {P_MEM, L_MEM} /\ SymbolSetMemSpace(a, mem))
  PROVE  Entries'
<1>1. \A b \in DOMAIN slots : Filled(slots[b]) /\ Entry(slots[b])
  BY DEF Table, Allocated, Entries
<1>2. CASE SymSetValueMacro(a, T_MACRO)
  <2>1. slots' = [slots EXCEPT ![a].type = T_MACRO]
    BY <1>2 DEF SymSetValueMacro
  <2> QED BY <1>1, <2>1 DEF Entries, Entry, Filled
<1>3. CASE mem \in {P_MEM, L_MEM} /\ SymbolSetMemSpace(a, mem)
  <2>1. slots' = [slots EXCEPT ![a].mem_space = mem]
    BY <1>3 DEF SymbolSetMemSpace
  <2> QED BY <1>1, <1>3, <2>1 DEF Entries, Entry, Filled
<1> QED BY <1>2, <1>3

LEMMA AddEntries ==
  ASSUME Table, Entries, NEW name \in Names, NEW type \in {T_PTR, T_VALUE}, NEW val, val.type \in Resolved,
         NEW mem_space \in {-1, P_MEM, L_MEM}, AddSymbol(name, type, val, mem_space)
  PROVE  Entries'
<1>1. /\ DOMAIN slots' = DOMAIN slots \cup {NewEntry}
      /\ slots'[NewEntry] = [pString |-> name, pNext |-> Null, type |-> type, val |-> val, mem_space |-> mem_space]
      /\ \A a \in DOMAIN slots :
           /\ slots'[a].type = slots[a].type /\ slots'[a].val = slots[a].val /\ slots'[a].mem_space = slots[a].mem_space
  BY AddedEntry
<1>2. Entry(slots'[NewEntry])
  BY <1>1 DEF Entry
<1> QED BY <1>1, <1>2 DEF Entries, Entry

LEMMA PcType == ASSUME NEW i \in Nat \ {0}, mem \in {P_MEM, L_MEM} PROVE PcAt(i) \in Nat
<1> DEFINE D == {j \in Lines : program[j].op = "dc"}
           n == i - 1
           a == Cardinality((1 .. n) \cap D)
<1>1. n \in Nat
  OBVIOUS
<1>2. a \in Nat
  <2>1. PICK m : m = n + 1
    OBVIOUS
  <2> HIDE DEF n, D
  <2> QED BY <1>1, <2>1, CountNext
<1>3. PcAt(i) = (IF mem = L_MEM THEN 2 ELSE 1) * a
  BY DEF PcAt
<1> HIDE DEF a
<1> QED BY <1>2, <1>3

\* What all statements have in common.
Statement1 == LabelDone /\ NextLine /\ UNCHANGED <<program, mem, phase, g_passNum>>

LEMMA PlainStep ==
  ASSUME IInv, RInv, HInv, BarExact', NoStatement \/ MacroRecord
  PROVE  LineStep
<1>1. Statement1 /\ UNCHANGED <<reads, given, answers, errors, pc>> /\ Current.op \in {"none", "macro"}
  BY DEF NoStatement, MacroRecord, Statement1, Unchanged, seen
<1>2. Entries' /\ DOMAIN Bar' = DOMAIN Bar
  <2>1. CASE NoStatement
    BY <2>1, SameEntries DEF NoStatement, HInv
  <2>2. CASE MacroRecord
    <3>1. SymSetValueMacro(FindSymbol(Current.name), T_MACRO)
      BY <2>2 DEF MacroRecord
    <3> QED BY <3>1, RetypeEntries, RetypeGives DEF HInv, IInv
  <2> QED BY <2>1, <2>2
<1>3. \A p \in {g_passNum}, i \in {line} : Done(p, i)'
  BY <1>1 DEF Done, Current, Statement1
<1> QED BY <1>1, <1>2, <1>3 DEF LineStep, Statement1, HInv, Machine

LEMMA DcStep ==
  ASSUME IInv, RInv, HInv, GenDc
  PROVE  LineStep
<1>1. Statement1 /\ UNCHANGED <<given, answers>> /\ Current.op = "dc" /\ Parsing /\ Reads(Current.exps)
      /\ pc' = IF mem = L_MEM THEN pc + 2 ELSE pc + 1
  BY DEF GenDc, Statement1, Unchanged, LabelDone
<1>2. Entries' /\ DOMAIN Bar' = DOMAIN Bar
  BY SameEntries DEF GenDc, HInv
<1>3. \A p \in {g_passNum}, i \in {line} : Done(p, i)'
  BY <1>1 DEF Done, Current, Statement1
<1>4. reads \subseteq reads'
  BY <1>1 DEF Reads
<1>5. (errors => errors') /\ errors' \in BOOLEAN
  <2>1. PICK e \in Evaluate(Current.exps) : errors' = (errors \/ e.err)
    BY DEF GenDc
  <2> QED BY <2>1
<1> QED BY <1>1, <1>2, <1>3, <1>4, <1>5 DEF LineStep, Statement1

LEMMA SetStep ==
  ASSUME IInv, RInv, HInv, BarExact', SymSet
  PROVE  LineStep
<1>1. Statement1 /\ UNCHANGED <<answers, pc>> /\ Current.op \in {"equ", "set"} /\ Parsing /\ Reads(Current.exps) /\ line # 0
  BY DEF SymSet, Statement1, Unchanged, LabelDone, IInv, Texts
<1>2. PICK name \in Names : name = Current.name
  BY <1>1, CurrentName DEF IInv
<1>3. PICK e \in Evaluate(Current.exps) : \E val :
         /\ val = e.stack[1]
         /\ errors' = (errors \/ e.err \/ (~Defined(name) \/ Val_CheckResolved(val)))
         /\ IF ~Defined(name) \/ Val_CheckResolved(val) THEN UNCHANGED <<tableVars, given>>
            ELSE SymSetValue(FindSymbol(name), T_VALUE, val) /\ Given(line, Current.op, name, val)
  BY <1>2 DEF SymSet
<1>4. PICK val :
         /\ val = e.stack[1]
         /\ errors' = (errors \/ e.err \/ (~Defined(name) \/ Val_CheckResolved(val)))
         /\ IF ~Defined(name) \/ Val_CheckResolved(val) THEN UNCHANGED <<tableVars, given>>
            ELSE SymSetValue(FindSymbol(name), T_VALUE, val) /\ Given(line, Current.op, name, val)
  BY <1>3
<1>5. Value1(e)
  BY <1>1, EvaluateNow DEF Statement1, Evaluated
<1>6. (errors => errors') /\ errors' \in BOOLEAN /\ reads \subseteq reads'
  BY <1>1, <1>4 DEF Reads
<1>7. CASE ~Defined(name) \/ Val_CheckResolved(val)
  <2>1. errors' /\ UNCHANGED <<tableVars, given>>
    BY <1>4, <1>7
  <2>2. Entries' /\ DOMAIN Bar' = DOMAIN Bar
    BY <2>1, SameEntries DEF HInv
  <2> QED BY <1>1, <1>6, <2>1, <2>2 DEF LineStep, Statement1
<1>8. CASE Defined(name) /\ ~Val_CheckResolved(val)
  <2>1. SymSetValue(FindSymbol(name), T_VALUE, val) /\ Given(line, Current.op, name, val) /\ errors' = (errors \/ e.err)
    BY <1>4, <1>8
  <2>2. name \in DOMAIN Bar
    BY <1>8, GetSymValue DEF IInv
  <2>3. val.type \in Resolved
    BY <1>4, <1>5, <1>8 DEF Value1, Resolved, Val_CheckResolved
  <2>4. Entries' /\ DOMAIN Bar' = DOMAIN Bar
    BY <2>1, <2>2, <2>3, SetEntries, SetGives DEF HInv, IInv
  <2>5. PICK g : /\ g = [pass |-> g_passNum, line |-> line, by |-> Current.op, name |-> name, val |-> val]
                 /\ given' = given \cup {g}
    BY <2>1 DEF Given
  <2>6. g.pass = g_passNum /\ g.line = line /\ g.by = Current.op /\ g.name = name /\ g.val = val
    BY <2>5
  <2>7. GoodGiven(g)'
    <3>1. g = [pass |-> g.pass, line |-> g.line, by |-> g.by, name |-> g.name, val |-> g.val]
      BY <2>5, <2>6
    <3>2. ~errors' => Comes(g.pass, g.line, e.stack)' /\ g.val = e.stack[1]
      <4>1. \A p \in {g_passNum}, i \in {line} : ~e.err => Comes(p, i, e.stack)'
        BY <1>5 DEF Value1, ComesHere
      <4> QED BY <1>4, <1>5, <2>1, <2>6, <4>1 DEF Value1
    <3> QED BY <2>3, <2>6, <3>1, <3>2 DEF GoodGiven
  <2>8. \A p \in {g_passNum}, i \in {line} : Done(p, i)'
    <3>1. g \in given' /\ program' = program /\ Current = program[line]
      BY <1>1, <2>5 DEF Statement1, Current
    <3> QED BY <1>1, <2>6, <3>1 DEF Done
  <2>9. given \subseteq given' /\ \A h \in given' \ given : h = g
    BY <2>5
  <2>10. g.by # "option"
    BY <1>1, <2>6
  <2> QED BY <1>1, <1>2, <1>6, <2>2, <2>4, <2>7, <2>8, <2>9, <2>10 DEF LineStep, Statement1
<1> QED BY <1>7, <1>8

\* The first line that gives a name a value is no SET.
LEMMA FirstGiver ==
  ASSUME IInv, RInv, HInv, ~errors, NEW n \in Names, NEW j \in Givers(n), j = 0 \/ Past(0, j)
  PROVE  \E k \in Givers(n) : k <= j /\ (k = 0 \/ (k \in Lines /\ HasLabel(program[k]) /\ program[k].name = n /\ LabelPast(0, k)))
<1>1. Givers(n) \in SUBSET Nat /\ \A i \in Givers(n) : i = 0 \/ (i \in Lines /\ program[i].name = n /\ program[i].op # "ifdef")
  BY GiversBounded DEF IInv, RInv
<1>2. PICK k \in Givers(n) : \A i \in Givers(n) : k <= i
  BY <1>1, LeastNatural
<1>3. k \in Nat /\ j \in Nat /\ k <= j
  BY <1>1, <1>2
<1>4. CASE k # 0
  <2>1. k \in Lines /\ program[k].name = n /\ program[k].op # "ifdef" /\ n # NoName
    BY <1>1, <1>4, NameAssumption
  <2>2. Past(0, k)
    <3>1. j # 0 /\ Past(0, j) /\ line \in Nat /\ g_passNum \in {0, 1}
      BY <1>3, <1>4 DEF IInv, Texts, RInv, Position
    <3> QED BY <1>3, <3>1 DEF Past
  <2>3. program[k].op # "set"
    <3> SUFFICES ASSUME program[k].op = "set" PROVE FALSE
      OBVIOUS
    <3>1. PICK i \in Givers(n) : i < k
      BY <2>1, <2>2 DEF HInv, SetsAfter
    <3>2. k <= i /\ i \in Nat
      BY <1>1, <1>2
    <3> QED BY <1>3, <3>1, <3>2
  <2> QED BY <1>3, <2>1, <2>2, <2>3 DEF HasLabel, LabelPast
<1> QED BY <1>3, <1>4

LEMMA DefinedByGiver ==
  ASSUME IInv, RInv, HInv, ~errors, NEW n \in Names, \A j \in Givers(n) : j < line
  PROVE  n \in DOMAIN Bar <=> Givers(n) # {}
<1>1. n \in DOMAIN Bar => Givers(n) # {}
  BY DEF HInv, DefinedBy
<1>2. ASSUME Givers(n) # {} PROVE n \in DOMAIN Bar
  <2>1. PICK j \in Givers(n) : j < line
    BY <1>2
  <2>2. j \in Nat
    BY GiversBounded DEF IInv, RInv
  <2>3. j = 0 \/ Past(0, j)
    <3>1. g_passNum \in {0, 1}
      BY DEF RInv, Position
    <3> QED BY <2>1, <2>2, <3>1 DEF Past
  <2>4. PICK k \in Givers(n) : k = 0 \/ (k \in Lines /\ HasLabel(program[k]) /\ program[k].name = n /\ LabelPast(0, k))
    BY <2>3, FirstGiver
  <2>5. CASE k = 0
    <3>1. PICK g \in given : g.name = n
      BY <2>4, <2>5, GiversBounded DEF IInv, RInv
    <3> QED BY <3>1 DEF RInv, Givens
  <2>6. CASE k # 0
    BY <2>4, <2>6 DEF RInv, LabelsOnce
  <2> QED BY <2>5, <2>6
<1> QED BY <1>1, <1>2

\* An answer that is given ends its line.
Answered(a) ==
  /\ a = [pass |-> g_passNum, line |-> line, vals |-> a.vals, answer |-> a.answer] /\ answers' = answers \cup {a}
  /\ Current.op \in {"if", "ifcc", "ifdef"}
  /\ \A st \in {Current} : ~errors' => AnswerFrom(a, st)'

LEMMA AnsweredGood ==
  ASSUME IInv, RInv, Statement1, NEW a, Answered(a)
  PROVE  /\ GoodAnswer(a)' /\ \A b \in answers' \ answers : b = a
         /\ \A p \in {g_passNum}, i \in {line} : Done(p, i)'
<1>1. a.pass = g_passNum /\ a.line = line /\ a \in answers' /\ a = [pass |-> a.pass, line |-> a.line, vals |-> a.vals, answer |-> a.answer]
  BY DEF Answered
<1>2. line \in Lines /\ Lines' = Lines /\ program' = program /\ g_passNum' = g_passNum /\ line' = line + 1 /\ Current = program[line]
      /\ line \in Nat /\ g_passNum \in {0, 1}
  BY SameText DEF Statement1, LabelDone, Parsing, NextLine, IInv, Texts, Lines, Current, RInv, Position
<1>3. Past(a.pass, a.line)'
  BY <1>1, <1>2 DEF Past
<1>4. ~errors' => AnswerFrom(a, program[a.line])'
  BY <1>1, <1>2 DEF Answered, AnswerFrom
<1>5. GoodAnswer(a)'
  BY <1>1, <1>2, <1>3, <1>4 DEF GoodAnswer, Answered
<1>6. \A p \in {g_passNum}, i \in {line} : Done(p, i)'
  <2>1. program[line].op \in {"if", "ifcc", "ifdef"}
    BY <1>2 DEF Answered
  <2> QED BY <1>1, <1>2, <2>1 DEF Done
<1> QED BY <1>5, <1>6 DEF Answered

LEMMA IfStep ==
  ASSUME IInv, RInv, HInv, EvalIf \/ EvalIfcc
  PROVE  LineStep
<1>1. Statement1 /\ UNCHANGED <<given, pc, tableVars>> /\ Current.op \in {"if", "ifcc"} /\ Parsing /\ Reads(Current.exps)
  BY DEF EvalIf, EvalIfcc, Statement1, Unchanged, LabelDone
<1>2. Entries' /\ DOMAIN Bar' = DOMAIN Bar /\ reads \subseteq reads'
  BY <1>1, SameEntries DEF HInv, Reads
<1>3. CASE EvalIf
  <2>1. PICK e \in Evaluate(Current.exps) :
          IF Val_CheckResolved2(e.stack[1], e.stack[2]) THEN errors' = TRUE /\ UNCHANGED answers
          ELSE errors' = (errors \/ e.err) /\ Answer(e.stack, EvalCondition(Current.cond, e.stack[1], e.stack[2]))
    BY <1>3 DEF EvalIf
  <2>2. CASE Val_CheckResolved2(e.stack[1], e.stack[2])
    BY <1>1, <1>2, <2>1, <2>2 DEF LineStep, Statement1
  <2>3. CASE ~Val_CheckResolved2(e.stack[1], e.stack[2])
    <3>1. errors' = (errors \/ e.err) /\ Current.op = "if"
      BY <1>3, <2>1, <2>3 DEF EvalIf
    <3>2. PICK a : /\ a = [pass |-> g_passNum, line |-> line, vals |-> e.stack, answer |-> EvalCondition(Current.cond, e.stack[1], e.stack[2])]
                   /\ answers' = answers \cup {a}
      BY <2>1, <2>3 DEF Answer
    <3>3. Value1(e)
      BY <1>1, EvaluateNow DEF Statement1, Evaluated
    <3>4. a.pass = g_passNum /\ a.line = line /\ a.vals = e.stack /\ a.answer = EvalCondition(Current.cond, e.stack[1], e.stack[2])
      BY <3>2
    <3>5. \A st \in {Current} : ~errors' => AnswerFrom(a, st)'
      <4>1. \A p \in {g_passNum}, i \in {line} : ~e.err => Comes(p, i, e.stack)'
        BY <3>3 DEF Value1, ComesHere
      <4>2. ~errors' => Comes(a.pass, a.line, a.vals)'
        BY <3>1, <3>3, <3>4, <4>1 DEF Value1
      <4> QED BY <3>1, <3>4, <4>2 DEF AnswerFrom
    <3>6. Answered(a)
      BY <3>1, <3>2, <3>4, <3>5 DEF Answered
    <3> QED BY <1>1, <1>2, <3>1, <3>2, <3>3, <3>6, AnsweredGood DEF LineStep, Statement1, Value1
  <2> QED BY <2>2, <2>3
<1>4. CASE EvalIfcc
  <2>1. PICK e \in Evaluate(Current.exps) : \E val :
          /\ val = e.stack[1]
          /\ IF Val_CheckResolved(val) \/ Current.cond \notin IfCodes THEN errors' = TRUE /\ UNCHANGED answers
             ELSE /\ errors' = (errors \/ e.err \/ Val_GetAsInt(val).err)
                  /\ Answer(e.stack, EvalIfOneArg(Current.cond, Val_GetAsInt(val).int))
    BY <1>4 DEF EvalIfcc
  <2>2. PICK val :
          /\ val = e.stack[1]
          /\ IF Val_CheckResolved(val) \/ Current.cond \notin IfCodes THEN errors' = TRUE /\ UNCHANGED answers
             ELSE /\ errors' = (errors \/ e.err \/ Val_GetAsInt(val).err)
                  /\ Answer(e.stack, EvalIfOneArg(Current.cond, Val_GetAsInt(val).int))
    BY <2>1
  <2>3. CASE Val_CheckResolved(val) \/ Current.cond \notin IfCodes
    BY <1>1, <1>2, <2>2, <2>3 DEF LineStep, Statement1
  <2>4. CASE ~(Val_CheckResolved(val) \/ Current.cond \notin IfCodes)
    <3>1. errors' = (errors \/ e.err \/ Val_GetAsInt(val).err) /\ Current.op = "ifcc"
      BY <1>4, <2>2, <2>4 DEF EvalIfcc
    <3>2. PICK a : /\ a = [pass |-> g_passNum, line |-> line, vals |-> e.stack, answer |-> EvalIfOneArg(Current.cond, Val_GetAsInt(val).int)]
                   /\ answers' = answers \cup {a}
      BY <2>2, <2>4 DEF Answer
    <3>3. Value1(e)
      BY <1>1, EvaluateNow DEF Statement1, Evaluated
    <3>4. a.pass = g_passNum /\ a.line = line /\ a.vals = e.stack /\ a.answer = EvalIfOneArg(Current.cond, Val_GetAsInt(e.stack[1]).int)
      BY <2>2, <3>2
    <3>5. \A st \in {Current} : ~errors' => AnswerFrom(a, st)'
      <4>1. \A p \in {g_passNum}, i \in {line} : ~e.err => Comes(p, i, e.stack)'
        BY <3>3 DEF Value1, ComesHere
      <4>2. ~errors' => Comes(a.pass, a.line, a.vals)'
        BY <3>1, <3>3, <3>4, <4>1 DEF Value1
      <4> QED BY <3>1, <3>4, <4>2 DEF AnswerFrom
    <3>6. Answered(a)
      BY <3>1, <3>2, <3>4, <3>5 DEF Answered
    <3>7. (errors => errors') /\ errors' \in BOOLEAN /\ answers \subseteq answers'
      BY <3>1, <3>2
    <3> QED BY <1>1, <1>2, <3>6, <3>7, AnsweredGood DEF LineStep, Statement1
  <2> QED BY <2>3, <2>4
<1> QED BY <1>1, <1>3, <1>4

LEMMA DefinedStep ==
  ASSUME IInv, RInv, HInv, EvalDefined
  PROVE  LineStep
<1>1. Statement1 /\ UNCHANGED <<reads, given, pc, errors, tableVars>> /\ Current.op = "ifdef" /\ Parsing
  BY DEF EvalDefined, Statement1, Unchanged, LabelDone
<1>2. Entries' /\ DOMAIN Bar' = DOMAIN Bar /\ (errors => errors') /\ errors' \in BOOLEAN
  BY <1>1, SameEntries DEF HInv, Machine
<1>3. PICK n \in Names : n = Current.name
  BY <1>1, CurrentName DEF IInv
<1>4. PICK a : a = [pass |-> g_passNum, line |-> line, vals |-> <<>>, answer |-> Defined(n)] /\ answers' = answers \cup {a}
  BY <1>3 DEF EvalDefined, Answer
<1>5. a.pass = g_passNum /\ a.line = line /\ a.vals = <<>> /\ a.answer = Defined(n)
  BY <1>4
<1>6. Givers(n)' = Givers(n)
  BY <1>1, GiversKept DEF Statement1
<1>7. ~errors /\ (\A j \in Givers(n) : j < line) => Defined(n) = (Givers(n) # {})
  <2> SUFFICES ASSUME ~errors, \A j \in Givers(n) : j < line PROVE Defined(n) = (Givers(n) # {})
    OBVIOUS
  <2>1. Defined(n) <=> Givers(n) # {}
    BY DefinedByGiver, GetSymValue DEF IInv
  <2> QED BY <2>1 DEF Defined
<1>8. \A st \in {Current} : ~errors' => AnswerFrom(a, st)'
  <2> SUFFICES ASSUME NEW st \in {Current}, ~errors' PROVE AnswerFrom(a, st)'
    OBVIOUS
  <2>1. st.op = "ifdef" /\ st.name = n /\ ~errors
    BY <1>1, <1>3
  <2> QED BY <1>5, <1>6, <1>7, <2>1 DEF AnswerFrom
<1>9. Answered(a)
  BY <1>1, <1>4, <1>5, <1>8 DEF Answered
<1> QED BY <1>1, <1>2, <1>4, <1>9, AnsweredGood DEF LineStep, Statement1

----------------------------------------------------------------------------
(* The other steps.                                                        *)

LEMMA LabelHistory ==
  ASSUME IInv, RInv, HInv, BarExact', AddLabel
  PROVE  HInv'
<1>1. /\ Parsing /\ ~labelled /\ HasLabel(Current) /\ labelled' = TRUE /\ Current = program[line] /\ line \in Lines /\ line \in Nat
      /\ UNCHANGED <<program, mem, g_passNum, line, pc, reads, answers>> /\ g_passNum \in {0, 1}
  BY DEF AddLabel, Parsing, Lines, IInv, Texts, RInv, Position, Current
<1>2. PICK name \in Names : name = Current.name
  BY <1>1, CurrentName DEF IInv
<1>3. /\ Lines' = Lines /\ \A p, i : Past(p, i)' = Past(p, i)
      /\ \A i : (LabelPast(0, i) => LabelPast(0, i)') /\ (g_passNum = 0 => LabelPast(0, line)')
  BY <1>1, SameText DEF Past, LabelPast
<1>4. /\ Entries' /\ phase' \in {phase, "dead"} /\ (errors => errors') /\ errors' \in BOOLEAN /\ given \subseteq given'
      /\ \A g \in given' \ given : g.by = "label" /\ g.val.type \in Resolved
                                   /\ g = [pass |-> g.pass, line |-> g.line, by |-> g.by, name |-> g.name, val |-> g.val]
      /\ DOMAIN Bar' = DOMAIN Bar \/ (g_passNum = 0 /\ DOMAIN Bar' = DOMAIN Bar \cup {name})
  <2>1. CASE g_passNum = 0 /\ Defined(name)
    <3>1. errors' = TRUE /\ UNCHANGED <<tableVars, given>> /\ phase' \in {"dead", phase}
      BY <1>2, <2>1 DEF AddLabel
    <3> QED BY <3>1, SameEntries DEF HInv
  <2>2. CASE g_passNum = 0 /\ ~Defined(name)
    <3>1. PICK val : val = Val_CreateInt(AddressOfLabel)
      OBVIOUS
    <3>2. AddSymbol(name, T_PTR, val, mem) /\ MayEnd /\ Given(line, "label", name, val) /\ errors' = errors
      BY <1>2, <2>2, <3>1 DEF AddLabel
    <3>3. PICK g : /\ g = [pass |-> g_passNum, line |-> line, by |-> "label", name |-> name, val |-> val]
                   /\ given' = given \cup {g}
      BY <3>2 DEF Given
    <3>4. g.pass = g_passNum /\ g.line = line /\ g.by = "label" /\ g.name = name /\ g.val = val
      BY <3>3
    <3>5. val.type \in Resolved
      BY <3>1, ValTypes DEF Resolved, Types
    <3>6. DOMAIN Bar' = DOMAIN Bar \cup {name}
      BY <3>2, AddGives DEF IInv
    <3>7. Entries'
      BY <3>2, <3>5, AddEntries DEF HInv, Machine, IInv
    <3>8. phase' \in {phase, "dead"} /\ errors' \in BOOLEAN
      BY <3>2 DEF MayEnd, HInv, Machine
    <3> QED BY <2>2, <3>2, <3>3, <3>4, <3>5, <3>6, <3>7, <3>8
  <2>3. CASE g_passNum = 1
    <3>1. SymbolSetMemSpace(FindSymbol(Current.name), mem) /\ UNCHANGED <<phase, errors, given>>
      BY <2>3 DEF AddLabel
    <3>2. DOMAIN Bar' = DOMAIN Bar
      BY <3>1, RetypeGives DEF IInv
    <3>3. Entries'
      BY <3>1, RetypeEntries DEF HInv, Machine, IInv
    <3> QED BY <3>1, <3>2, <3>3 DEF HInv, Machine
  <2> QED BY <1>1, <2>1, <2>2, <2>3
<1>5. Grows /\ \A n : Givers(n)' = Givers(n)
  <2>1. \A g \in given' \ given : g.by # "option"
    BY <1>4
  <2> QED BY <1>1, <1>3, <1>4, <2>1, GiversKept DEF Grows
<1>6. Machine'
  <2>1. pc' = PcAt(line)' /\ \A i : Grammar(i) => Grammar(i)'
    BY <1>1, SameText DEF HInv, Machine, PcAt, Lines
  <2>2. phase = "parse"
    BY <1>1 DEF Parsing
  <2> QED BY <1>1, <1>3, <1>4, <2>1, <2>2 DEF HInv, Machine
<1>7. DefinedBy'
  <2> SUFFICES ASSUME NEW n \in DOMAIN Bar' PROVE \E k \in Givers(n) : k = 0 \/ (HasLabel(program[k]) /\ LabelPast(0, k)')
    BY <1>1, <1>5 DEF DefinedBy, HasLabel
  <2>1. CASE n \in DOMAIN Bar
    <3>1. PICK k \in Givers(n) : k = 0 \/ (HasLabel(program[k]) /\ LabelPast(0, k))
      BY <2>1 DEF HInv, DefinedBy
    <3> QED BY <1>3, <3>1
  <2>2. CASE n \notin DOMAIN Bar
    <3>1. g_passNum = 0 /\ n = name
      BY <1>4, <2>2
    <3>2. line \in Givers(name)
      BY <1>1, <1>2, GiversBounded DEF HasLabel, IInv, RInv
    <3>3. \A k : k = line => LabelPast(0, k)'
      BY <1>1, <3>1 DEF LabelPast
    <3> QED BY <1>1, <3>1, <3>2, <3>3
  <2> QED BY <2>1, <2>2
<1>8. SetsAfter'
  BY <1>1, <1>3, <1>4, <1>5 DEF HInv, SetsAfter
<1>9. DoneLines'
  <2>1. \A p, i : Done(p, i) => Done(p, i)'
    BY <1>1, <1>4, DoneKept
  <2> QED BY <1>3, <1>4, <2>1 DEF HInv, DoneLines
<1>10. \A g \in given' : GoodGiven(g)'
  <2>1. \A g \in given : GoodGiven(g)'
    BY <1>5, GivenKept DEF HInv
  <2>2. \A g \in given' \ given : GoodGiven(g)'
    BY <1>4 DEF GoodGiven
  <2> QED BY <2>1, <2>2
<1>11. \A a \in answers' : GoodAnswer(a)'
  BY <1>1, <1>5, AnswerKept DEF HInv
<1> QED BY <1>4, <1>6, <1>7, <1>8, <1>9, <1>10, <1>11 DEF HInv

LEMMA OptionHistory ==
  ASSUME IInv, RInv, HInv, BarExact', DefineSymbol
  PROVE  HInv'
<1> DEFINE o == Head(options)
<1>1. PICK name, val : name = o.name /\ val = o.value
  OBVIOUS
<1>2. name \in Names /\ val.type \in Resolved
  <2> DEFINE R == [name : Names, value : Value]
  <2>1. o \in R
    <3>1. options \in Seq(R) /\ options # <<>>
      BY DEF IInv, Texts, DefineSymbol
    <3> HIDE DEF R
    <3> QED BY <3>1
  <2>2. val \in Value /\ name \in Names
    BY <1>1, <2>1
  <2> QED BY <2>2, NumTypes
<1>3. /\ UNCHANGED <<program, mem, g_passNum, line, labelled, pc, reads, answers>>
      /\ g_passNum = 0 /\ line = 1 /\ ~labelled /\ answers = {} /\ phase = "options"
      /\ given' = given \cup {[pass |-> 0, line |-> 0, by |-> "option", name |-> name, val |-> val]}
  BY <1>1 DEF DefineSymbol, Given, RInv, Position, HInv, Machine
<1>4. Entries' /\ phase' \in {phase, "dead"} /\ (errors => errors') /\ errors' \in BOOLEAN /\ DOMAIN Bar' = DOMAIN Bar \cup {name}
  <2>1. CASE Defined(name)
    <3>1. SymSetValue(FindSymbol(name), T_VALUE, val) /\ errors' = TRUE /\ phase' = phase
      BY <1>1, <2>1 DEF DefineSymbol
    <3>2. name \in DOMAIN Bar
      BY <1>2, <2>1, GetSymValue DEF IInv
    <3>3. DOMAIN Bar' = DOMAIN Bar
      BY <1>2, <3>1, <3>2, SetGives DEF IInv
    <3>4. Entries'
      BY <1>2, <3>1, SetEntries DEF HInv, IInv
    <3> QED BY <3>1, <3>2, <3>3, <3>4
  <2>2. CASE ~Defined(name)
    <3>1. AddSymbol(name, T_VALUE, val, -1) /\ MayEnd /\ errors' = errors
      BY <1>1, <2>2 DEF DefineSymbol
    <3>2. Entries'
      BY <1>2, <3>1, AddEntries DEF HInv, IInv
    <3>3. DOMAIN Bar' = DOMAIN Bar \cup {name}
      BY <1>2, <3>1, AddGives DEF IInv
    <3> QED BY <3>1, <3>2, <3>3 DEF MayEnd, HInv, Machine
  <2> QED BY <2>1, <2>2
<1>5. /\ Lines' = Lines /\ \A p \in {0, 1}, i \in Lines : ~Past(p, i) /\ ~Past(p, i)'
      /\ \A i \in Lines : ~LabelPast(0, i)
  <2>1. Lines' = Lines /\ \A i \in Lines : i \in Nat /\ i >= 1
    BY <1>3 DEF Lines
  <2> QED BY <1>3, <2>1 DEF Past, LabelPast
<1>6. Grows
  BY <1>3, <1>4, <1>5 DEF Grows
<1>7. Machine'
  <2>1. pc' = PcAt(line)' /\ \A i : Grammar(i) => Grammar(i)'
    BY <1>3, SameText DEF HInv, Machine, PcAt, Lines
  <2> QED BY <1>3, <1>4, <1>5, <2>1 DEF HInv, Machine
<1>8. PICK g : g = [pass |-> 0, line |-> 0, by |-> "option", name |-> name, val |-> val] /\ given' = given \cup {g}
  BY <1>3
<1>9. g.pass = 0 /\ g.line = 0 /\ g.by = "option" /\ g.name = name /\ g.val = val
  BY <1>8
<1>10. DefinedBy'
  <2> SUFFICES ASSUME NEW n \in DOMAIN Bar' PROVE 0 \in Givers(n)'
    BY DEF DefinedBy
  <2>1. CASE n = name
    BY <1>8, <1>9, <2>1 DEF Givers
  <2>2. CASE n # name
    <3>1. PICK k \in Givers(n) : k = 0 \/ (HasLabel(program[k]) /\ LabelPast(0, k))
      BY <1>4, <2>2 DEF HInv, DefinedBy
    <3>2. k = 0
      BY <1>5, <3>1, GiversBounded DEF IInv, RInv
    <3>3. PICK h \in given : h.name = n /\ h.by = "option" /\ h.line = 0
      <4>1. \E h \in given : h.name = n /\ h.by = "option"
        BY <3>1, <3>2, GiversBounded DEF IInv, RInv
      <4> QED BY <4>1 DEF RInv, Givens, Giver, ByOption, ByLabel, ByOp
    <3>4. h \in given'
      BY <1>8, <3>3
    <3> QED BY <3>3, <3>4 DEF Givers
  <2> QED BY <2>1, <2>2
<1>11. SetsAfter' /\ DoneLines'
  BY <1>5 DEF SetsAfter, DoneLines
<1>12. \A h \in given' : GoodGiven(h)'
  <2>1. \A h \in given : GoodGiven(h)'
    BY <1>6, GivenKept DEF HInv
  <2>2. GoodGiven(g)'
    BY <1>2, <1>8, <1>9 DEF GoodGiven
  <2> QED BY <1>8, <2>1, <2>2
<1> QED BY <1>3, <1>4, <1>7, <1>10, <1>11, <1>12 DEF HInv

LEMMA RestHistory ==
  ASSUME IInv, RInv, HInv, PrefetchToken \/ InitParserPass1 \/ EndPass \/ UNCHANGED vars
  PROVE  HInv'
<1>1. /\ UNCHANGED <<program, mem, given, reads, answers, labelled, tableVars>> /\ (errors => errors') /\ errors' \in BOOLEAN
      /\ phase' \in {"options", "parse", "failed", "saved", "dead"} /\ (phase' = "options" => phase = "options")
  <2>1. CASE PrefetchToken
    BY <2>1 DEF PrefetchToken, seen, HInv, Machine
  <2>2. CASE InitParserPass1
    BY <2>2 DEF InitParserPass1, seen, HInv, Machine
  <2>3. CASE EndPass
    BY <2>3 DEF EndPass, seen, HInv, Machine
  <2>4. CASE UNCHANGED vars
    BY <2>4 DEF vars, machine, seen, HInv, Machine
  <2> QED BY <2>1, <2>2, <2>3, <2>4
<1>2. /\ \A p \in {0, 1}, i \in Lines : Past(p, i)' = Past(p, i)
      /\ \A i \in Lines : LabelPast(0, i) => LabelPast(0, i)'
      /\ pc' = PcAt(line)'
  <2>1. CASE UNCHANGED <<g_passNum, line, pc>>
    BY <1>1, <2>1, SameText DEF Past, LabelPast, HInv, Machine, PcAt, Lines
  <2>2. CASE ~UNCHANGED <<g_passNum, line, pc>>
    <3>1. g_passNum = 0 /\ g_passNum' = 1 /\ line' = 1 /\ pc' = 0 /\ line > Len(program)
      BY <2>2 DEF PrefetchToken, InitParserPass1, EndPass, vars, machine
    <3>2. \A i \in Lines : i \in Nat /\ i >= 1 /\ i < line
      BY <3>1 DEF Lines, IInv, Texts
    <3>3. PcAt(line)' = 0
      <4>1. (1 .. line' - 1) \cap {j \in Lines : program[j].op = "dc"}' = {}
        BY <3>1
      <4>2. Cardinality((1 .. line' - 1) \cap {j \in Lines : program[j].op = "dc"}') = 0
        BY <4>1, FS_EmptySet
      <4> QED BY <4>2 DEF PcAt
    <3> QED BY <3>1, <3>2, <3>3 DEF Past, LabelPast
  <2> QED BY <2>1, <2>2
<1>3. Lines' = Lines /\ Grows /\ \A n : Givers(n)' = Givers(n)
  BY <1>1, <1>2, SameText, GiversKept DEF Grows
<1>4. Entries' /\ DOMAIN Bar' = DOMAIN Bar
  BY <1>1, SameEntries DEF HInv
<1>5. Machine'
  BY <1>1, <1>2, <1>3, SameText DEF HInv, Machine
<1>6. DefinedBy'
  <2> SUFFICES ASSUME NEW n \in DOMAIN Bar' PROVE \E k \in Givers(n) : k = 0 \/ (HasLabel(program[k]) /\ LabelPast(0, k)')
    BY <1>1, <1>3 DEF DefinedBy, HasLabel
  <2>1. PICK k \in Givers(n) : k = 0 \/ (HasLabel(program[k]) /\ LabelPast(0, k))
    BY <1>4 DEF HInv, DefinedBy
  <2>2. k # 0 => k \in Lines
    BY GiversBounded DEF IInv, RInv
  <2> QED BY <1>2, <2>1, <2>2
<1>7. SetsAfter'
  BY <1>1, <1>2, <1>3 DEF HInv, SetsAfter
<1>8. DoneLines'
  <2>1. \A p, i : Done(p, i) => Done(p, i)'
    BY <1>1, DoneKept
  <2> QED BY <1>1, <1>2, <1>3, <2>1 DEF HInv, DoneLines
<1>9. \A g \in given' : GoodGiven(g)'
  BY <1>1, <1>3, GivenKept DEF HInv
<1>10. \A a \in answers' : GoodAnswer(a)'
  BY <1>1, <1>3, AnswerKept DEF HInv
<1> QED BY <1>4, <1>5, <1>6, <1>7, <1>8, <1>9, <1>10 DEF HInv

LEMMA NextHistory == IInv /\ IInv' /\ RInv /\ HInv /\ [Next]_vars => HInv'
<1> SUFFICES ASSUME IInv, IInv', RInv, HInv, [Next]_vars PROVE HInv'
  OBVIOUS
<1>1. BarExact'
  <2>1. Table' => BarExact'
    BY BarOfTable, PTL
  <2> QED BY <2>1 DEF IInv
<1>2. CASE DefineSymbol
  BY <1>1, <1>2, OptionHistory
<1>3. CASE PrefetchToken \/ InitParserPass1 \/ EndPass \/ UNCHANGED vars
  BY <1>3, RestHistory
<1>4. CASE AddLabel
  BY <1>1, <1>4, LabelHistory
<1>5. CASE NoStatement \/ MacroRecord
  BY <1>1, <1>5, PlainStep, LineHistory
<1>6. CASE SymSet
  BY <1>1, <1>6, SetStep, LineHistory
<1>7. CASE GenDc
  BY <1>7, DcStep, LineHistory
<1>8. CASE EvalIf \/ EvalIfcc
  BY <1>8, IfStep, LineHistory
<1>9. CASE EvalDefined
  BY <1>9, DefinedStep, LineHistory
<1> QED BY <1>2, <1>3, <1>4, <1>5, <1>6, <1>7, <1>8, <1>9 DEF Next

LEMMA InitHistory == Init => HInv
<1> SUFFICES ASSUME Init PROVE HInv
  OBVIOUS
<1>1. /\ given = {} /\ reads = {} /\ answers = {} /\ g_passNum = 0 /\ line = 1 /\ labelled = FALSE /\ errors = FALSE
      /\ pc = 0 /\ phase = "options" /\ mem \in {P_MEM, L_MEM} /\ DOMAIN slots = {} /\ IInv
  BY InitInv DEF Init, InitSymbolTable
<1>2. Len(program) \in Nat /\ Lines = 1 .. Len(program) /\ DOMAIN program = 1 .. Len(program)
  BY <1>1 DEF IInv, Texts, Lines
<1>3. \A i \in Lines : ~Past(0, i) /\ ~Past(1, i) /\ ~LabelPast(0, i)
  BY <1>1, <1>2 DEF LabelPast, Past
<1>4. pc = PcAt(line)
  <2>1. (1 .. line - 1) \cap {j \in Lines : program[j].op = "dc"} = {}
    BY <1>1
  <2> QED BY <1>1, <2>1, FS_EmptySet DEF PcAt
<1>5. ASSUME NEW i \in Lines, program[i].op \in Evaluated PROVE Grammar(i)
  <2>1. PICK p \in Programs : program = p.lines
    BY DEF Init
  <2>2. program \in Seq(Statements) /\ i \in DOMAIN program
    BY <1>1, <1>2 DEF IInv, Texts
  <2>3. program[i].exps \in Seq(Seq(Token))
    <3>1. program[i] \in Statements
      BY <2>2
    <3> QED BY <3>1 DEF Statements
  <2>4. TokensAt(i) \in Seq(Token)
    BY <2>3, FlattenType DEF TokensAt
  <2>5. /\ program[i].exps # <<>> /\ Reducible(TokensAt(i)) /\ Depth(TokensAt(i), Len(TokensAt(i))) = Len(program[i].exps)
        /\ program[i].op = "if" => Len(program[i].exps) = 2
    BY <1>5, <2>1, <2>2, ProgramsAssumption DEF TokensAt, Evaluated
  <2>6. Len(program[i].exps) \in Nat \ {0}
    <3> DEFINE S == Seq(Token)
    <3>1. program[i].exps \in Seq(S) /\ program[i].exps # <<>>
      BY <2>3, <2>5
    <3> HIDE DEF S
    <3> QED BY <3>1
  <2> QED BY <2>4, <2>5, <2>6 DEF Grammar
<1>6. Machine
  BY <1>1, <1>4, <1>5 DEF Machine
<1>7. DefinedBy
  <2>1. DOMAIN Bar = {}
    BY <1>1, BarOfTable DEF IInv, BarExact
  <2> QED BY <2>1 DEF DefinedBy
<1>8. SetsAfter /\ DoneLines
  BY <1>3 DEF SetsAfter, DoneLines
<1> QED BY <1>1, <1>6, <1>7, <1>8 DEF HInv, Entries

\* The invariant of the whole history.
LEMMA History == Spec => [](IInv /\ RInv /\ HInv)
<1>1. Init => IInv /\ RInv /\ HInv
  BY InitInv, InitReads, InitHistory
<1>2. (IInv /\ RInv /\ HInv) /\ [Next]_vars => (IInv /\ RInv /\ HInv)'
  BY NextInv, NextReads, NextHistory
<1> QED BY <1>1, <1>2, PTL DEF Spec

----------------------------------------------------------------------------
(* Every state is one the declarations allow.                              *)

LEMMA HistoryTypes == IInv /\ RInv /\ HInv => TypeOK
<1> SUFFICES ASSUME IInv, RInv, HInv PROVE TypeOK
  OBVIOUS
<1>1. phase \in {"options", "parse", "failed", "saved", "dead"} /\ errors \in BOOLEAN /\ pc = PcAt(line) /\ mem \in {P_MEM, L_MEM}
  BY DEF HInv, Machine
<1>2. g_passNum \in {0, 1} /\ labelled \in BOOLEAN /\ line \in Nat \ {0}
  BY DEF RInv, Position, IInv, Texts
<1>3. pc \in Nat
  BY <1>1, <1>2, PcType
<1>4. ASSUME NEW a \in DOMAIN slots
      PROVE  /\ slots[a].pString \in Names /\ slots[a].type \in {T_PTR, T_MACRO, T_VALUE}
             /\ slots[a].mem_space \in {-1, P_MEM, L_MEM} /\ slots[a].val.type \in Types \ {"kUnresolved"}
  <2>1. Entry(slots[a])
    BY DEF HInv, Entries
  <2>2. slots[a].pString \in Names
    BY BarOfTable DEF IInv, BarExact
  <2> QED BY <2>1, <2>2 DEF Entry, Resolved
<1> QED BY <1>1, <1>2, <1>3, <1>4 DEF TypeOK

\* Whatever a program of the grammar does, the passes stay where the declarations of
\* the code allow, and no name in the table has an unresolved value (AddSym and SymSet).
THEOREM PassesTyped == Spec => []TypeOK
BY History, HistoryTypes, PTL

----------------------------------------------------------------------------
(* The two passes agree.                                                   *)

\* What pass 1 did, pass 2 did not do otherwise.
Repeated(g) == [g EXCEPT !.pass = 0] \in given

\* A name that a line above gives a value is not the line's own label.
LEMMA NotOwn ==
  ASSUME IInv, RInv, HInv, ~errors, NEW n \in Names, NEW i \in Lines, Past(0, i), NEW j \in Givers(n), j < i, NEW p
  PROVE  ~Own(n, p, i)
<1> SUFFICES ASSUME HasLabel(program[i]), program[i].name = n PROVE FALSE
  BY DEF Own
<1>1. i \in Nat /\ j \in Nat /\ line \in Nat /\ g_passNum \in {0, 1}
  BY GiversBounded DEF IInv, Texts, RInv, Position, Lines
<1>2. Past(0, j)
  BY <1>1 DEF Past
<1>3. PICK k \in Givers(n) : k <= j /\ (k = 0 \/ (k \in Lines /\ HasLabel(program[k]) /\ program[k].name = n /\ LabelPast(0, k)))
  BY <1>2, FirstGiver
<1>4. LabelPast(0, i)
  BY DEF LabelPast
<1>5. k # 0
  <2> SUFFICES ASSUME k = 0 PROVE FALSE
    OBVIOUS
  <2>1. PICK g \in given : g.name = n /\ g.by = "option"
    BY <1>3, GiversBounded DEF IInv, RInv
  <2> QED BY <1>4, <2>1 DEF RInv, LabelsOnce
<1>6. i = k
  BY <1>3, <1>4, <1>5 DEF RInv, LabelsOnce
<1>7. k \in Nat
  BY <1>1, <1>6
<1> QED BY <1>1, <1>3, <1>6, <1>7

LEMMA SameReads ==
  ASSUME IInv, RInv, HInv, ~errors, NEW i \in Lines, \A g \in given : g.line < i => Repeated(g),
         NEW n, ~Stale(n), NEW j \in Givers(n), j < i,
         NEW r \in reads, r.pass = 0, r.line = i, r.name = n,
         NEW q \in reads, q.pass = 1, q.line = i, q.name = n
  PROVE  r.val = q.val /\ r.val.type \in Resolved
<1>1. n \in Names /\ Past(0, i) /\ i \in Nat
  BY DEF RInv, ReadsPast, Lines
<1>2. ~Own(n, 0, i) /\ ~Own(n, 1, i)
  BY <1>1, NotOwn
<1>3. AboveLine(n, i) # {}
  BY DEF AboveLine
<1>4. PICK m : m = Max(AboveLine(n, i))
  OBVIOUS
<1>5. m \in Givers(n) /\ m < i
  <2>1. m \in AboveLine(n, i)
    BY <1>1, <1>3, <1>4, LastGiver DEF IInv, RInv
  <2> QED BY <2>1 DEF AboveLine
<1>6. {r.val} = GivenAt(m, n, 0) /\ {q.val} = GivenAt(m, n, 1)
  BY <1>2, <1>3, <1>4 DEF RInv, ReadsExpected, Nearest
<1>7. PICK g \in given : g.line = m /\ g.name = n /\ g.val = q.val /\ IF OpGives(m) THEN g.by # "label" /\ g.pass = 1 ELSE g.pass = 0
  <2>1. q.val \in GivenAt(m, n, 1)
    BY <1>6
  <2> QED BY <2>1 DEF GivenAt
<1>8. g = [pass |-> g.pass, line |-> g.line, by |-> g.by, name |-> g.name, val |-> g.val] /\ g.val.type \in Resolved
  BY DEF HInv, GoodGiven
<1>9. PICK h \in given : h.line = m /\ h.name = n /\ h.by = g.by /\ h.val = q.val /\ h.pass = 0
  <2>1. CASE g.pass = 0
    BY <1>7, <2>1
  <2>2. CASE g.pass # 0
    <3>1. Repeated(g)
      BY <1>5, <1>7
    <3>2. PICK h : h = [g EXCEPT !.pass = 0]
      OBVIOUS
    <3>3. h.line = g.line /\ h.name = g.name /\ h.by = g.by /\ h.val = g.val /\ h.pass = 0
      BY <1>8, <3>2
    <3> QED BY <1>7, <3>1, <3>2, <3>3 DEF Repeated
  <2> QED BY <2>1, <2>2
<1>10. h.val \in GivenAt(m, n, 0)
  BY <1>7, <1>9 DEF GivenAt
<1> QED BY <1>6, <1>7, <1>8, <1>9, <1>10

\* A line comes to the same in both passes.
SameAt(i) == \A s, t : Comes(0, i, s) /\ Comes(1, i, t) => s = t

LEMMA SameStacks ==
  ASSUME IInv, RInv, HInv, ~errors, Regular, NEW i \in Lines, \A g \in given : g.line < i => Repeated(g),
         program[i].op \in {"equ", "set", "if", "ifcc"}
  PROVE  SameAt(i)
<1> SUFFICES ASSUME NEW s, NEW t, Comes(0, i, s), Comes(1, i, t) PROVE s = t
  BY DEF SameAt
<1> DEFINE ts == TokensAt(i)
<1>1. PICK read : /\ \A n \in SymbolsOf(ts) : [pass |-> 0, line |-> i, name |-> n, val |-> read[n]] \in reads
                  /\ Yields(ts, read, PcAt(i), s)
  BY DEF Comes
<1>2. PICK other : /\ \A n \in SymbolsOf(ts) : [pass |-> 1, line |-> i, name |-> n, val |-> other[n]] \in reads
                   /\ Yields(ts, other, PcAt(i), t)
  BY DEF Comes
<1>3. ASSUME NEW n \in SymbolsOf(ts) PROVE read[n] = other[n] /\ read[n].type \in Resolved
  <2>1. n \in Symbols(i)
    BY DEF SymbolsOf, Symbols, TokensAt
  <2>2. PICK j \in Givers(n) : j < i /\ ~Stale(n)
    BY <2>1 DEF Regular
  <2>3. PICK v, w : v = read[n] /\ w = other[n]
    OBVIOUS
  <2>4. PICK r \in reads : r = [pass |-> 0, line |-> i, name |-> n, val |-> v]
    BY <1>1, <2>3
  <2>5. PICK q \in reads : q = [pass |-> 1, line |-> i, name |-> n, val |-> w]
    BY <1>2, <2>3
  <2>6. r.pass = 0 /\ r.line = i /\ r.name = n /\ r.val = v /\ q.pass = 1 /\ q.line = i /\ q.name = n /\ q.val = w
    BY <2>4, <2>5
  <2>7. r.val = q.val /\ r.val.type \in Resolved
    BY <2>2, <2>6, SameReads
  <2> QED BY <2>3, <2>6, <2>7
<1>4. ts \in Seq(Token) /\ Reducible(ts)
  BY DEF HInv, Machine, Grammar, Evaluated
<1> HIDE DEF ts
<1> QED BY <1>1, <1>2, <1>3, <1>4, Deterministic

\* The passes give a name the same value on every line: on the first line that told
\* them apart, both would have come to the same.
LEMMA GivenRepeated ==
  ASSUME IInv, RInv, HInv, ~errors, Regular
  PROVE  \A g \in given : Repeated(g)
<1> DEFINE Bad == {i \in Lines : \E g \in given : g.line = i /\ ~Repeated(g)}
<1>1. ASSUME NEW g \in given, ~Repeated(g) PROVE g.pass = 1 /\ g.line \in Lines /\ program[g.line].name = g.name /\ ByOp(g)
  <2>1. g = [pass |-> g.pass, line |-> g.line, by |-> g.by, name |-> g.name, val |-> g.val]
    BY DEF HInv, GoodGiven
  <2>2. g.pass # 0
    <3> SUFFICES ASSUME g.pass = 0 PROVE FALSE
      OBVIOUS
    <3>1. [g EXCEPT !.pass = 0] = g
      BY <2>1
    <3> QED BY <1>1, <3>1 DEF Repeated
  <2>3. Giver(g)
    BY DEF RInv, Givens
  <2> QED BY <2>2, <2>3 DEF Giver, ByOption, ByLabel, ByOp
<1> SUFFICES ASSUME NEW b \in given, ~Repeated(b) PROVE FALSE
  OBVIOUS
<1>2. PICK i \in Bad : \A k \in Bad : i <= k
  <2>1. Bad \in SUBSET Nat /\ Bad # {}
    BY <1>1 DEF Lines
  <2> HIDE DEF Bad
  <2> QED BY <2>1, LeastNatural
<1>3. i \in Lines /\ i \in Nat
  BY DEF Lines
<1>4. PICK g \in given : g.line = i /\ ~Repeated(g)
  BY <1>2
<1>5. \A h \in given : h.line < i => Repeated(h)
  <2> SUFFICES ASSUME NEW h \in given, h.line < i, ~Repeated(h) PROVE FALSE
    OBVIOUS
  <2>1. h.line \in Bad
    BY <1>1
  <2>2. h.line \in Nat /\ i <= h.line
    BY <1>2, <2>1 DEF Lines
  <2> QED BY <1>3, <2>2
<1>6. g.pass = 1 /\ program[i].name = g.name /\ g.by = program[i].op /\ g.by \in {"equ", "set"} /\ Past(1, i)
  BY <1>1, <1>4 DEF ByOp
<1>7. Past(0, i)
  BY <1>6 DEF Past, RInv, Position
<1>8. PICK h \in given : h.pass = 0 /\ h.line = i /\ h.by = program[i].op
  BY <1>3, <1>6, <1>7 DEF HInv, DoneLines, Done
<1>9. h.name = g.name
  <2>1. Giver(h) /\ h.line # 0
    BY <1>3, <1>8 DEF RInv, Givens, Lines
  <2> QED BY <1>6, <1>8, <2>1 DEF Giver, ByOption
<1>10. SameAt(i)
  BY <1>3, <1>5, <1>6, SameStacks
<1>11. PICK s : Comes(1, i, s) /\ g.val = s[1]
  BY <1>4, <1>6 DEF HInv, GoodGiven
<1>12. PICK t : Comes(0, i, t) /\ h.val = t[1]
  BY <1>6, <1>8 DEF HInv, GoodGiven
<1>13. h.val = g.val
  BY <1>10, <1>11, <1>12 DEF SameAt
<1>14. /\ g = [pass |-> g.pass, line |-> g.line, by |-> g.by, name |-> g.name, val |-> g.val]
       /\ h = [pass |-> h.pass, line |-> h.line, by |-> h.by, name |-> h.name, val |-> h.val]
  BY DEF HInv, GoodGiven
<1>15. [g EXCEPT !.pass = 0] = [pass |-> 0, line |-> g.line, by |-> g.by, name |-> g.name, val |-> g.val]
  BY <1>14
<1>16. h = [pass |-> 0, line |-> g.line, by |-> g.by, name |-> g.name, val |-> g.val]
  BY <1>4, <1>6, <1>8, <1>9, <1>13, <1>14
<1> QED BY <1>4, <1>15, <1>16 DEF Repeated

\* So an IF has the same answer, and an IFDEF that looks at lines above it.
LEMMA AnswersRepeated ==
  ASSUME IInv, RInv, HInv, ~errors, Regular, NEW a \in answers
  PROVE  [a EXCEPT !.pass = 0] \in answers
<1> DEFINE i == a.line
           st == program[i]
<1>1. /\ a = [pass |-> a.pass, line |-> i, vals |-> a.vals, answer |-> a.answer]
      /\ a.pass \in {0, 1} /\ i \in Lines /\ Past(a.pass, i) /\ st.op \in {"if", "ifcc", "ifdef"} /\ AnswerFrom(a, st)
  BY DEF HInv, GoodAnswer
<1>2. CASE a.pass = 0
  <2>1. [a EXCEPT !.pass = 0] = a
    BY <1>1, <1>2
  <2> QED BY <2>1
<1>3. CASE a.pass = 1
  <2>1. Past(0, i)
    BY <1>1, <1>3 DEF Past, RInv, Position
  <2>2. PICK b \in answers : b.pass = 0 /\ b.line = i
    BY <1>1, <2>1 DEF HInv, DoneLines, Done
  <2>3. b = [pass |-> b.pass, line |-> b.line, vals |-> b.vals, answer |-> b.answer] /\ AnswerFrom(b, st)
    BY <2>2 DEF HInv, GoodAnswer
  <2>4. b.vals = a.vals /\ b.answer = a.answer
    <3>1. CASE st.op \in {"if", "ifcc"}
      <4>1. SameAt(i)
        <5>1. \A g \in given : Repeated(g)
          BY GivenRepeated
        <5> QED BY <1>1, <3>1, <5>1, SameStacks
      <4>2. Comes(0, i, b.vals) /\ Comes(1, i, a.vals)
        BY <1>1, <1>3, <2>2, <2>3, <3>1 DEF AnswerFrom
      <4>3. b.vals = a.vals
        BY <4>1, <4>2 DEF SameAt
      <4> QED BY <1>1, <2>3, <3>1, <4>3 DEF AnswerFrom
    <3>2. CASE st.op = "ifdef"
      <4>1. \A j \in Givers(st.name) : j < i
        BY <1>1, <3>2 DEF Regular
      <4> QED BY <1>1, <2>2, <2>3, <3>2, <4>1 DEF AnswerFrom
    <3> QED BY <1>1, <3>1, <3>2
  <2>5. [a EXCEPT !.pass = 0] = [pass |-> 0, line |-> i, vals |-> a.vals, answer |-> a.answer]
    BY <1>1
  <2> QED BY <2>2, <2>3, <2>4, <2>5
<1> QED BY <1>1, <1>2, <1>3

\* In a program without errors whose expressions read, and whose IFDEFs ask for, names
\* that lines above them give, pass 2 gives every name the value pass 1 gave it on that
\* line, and answers every IF as pass 1 did (SymSet, Value.c, over the two passes).
THEOREM PassesGiveSame == Spec => []PassesAgree
<1>1. IInv /\ RInv /\ HInv => PassesAgree
  BY GivenRepeated, AnswersRepeated DEF PassesAgree, Repeated
<1> QED BY <1>1, History, PTL

----------------------------------------------------------------------------
(* Arithmetic: quotients, recursion over a range, and powers of two.       *)

LEMMA DivMod ==
  ASSUME NEW a \in Int, NEW b \in Nat \ {0}
  PROVE  a = b * (a \div b) + (a % b) /\ a % b \in Nat /\ a % b < b /\ a \div b \in Int
OBVIOUS

LEMMA DivModIs ==
  ASSUME NEW a \in Int, NEW b \in Nat \ {0}, NEW k \in Int, NEW r \in Nat, r < b, a = k * b + r
  PROVE  a % b = r /\ a \div b = k
OBVIOUS

LEMMA ModShift ==
  ASSUME NEW a \in Int, NEW c \in Int, NEW b \in Nat \ {0}, NEW k \in Int, a = c + k * b
  PROVE  a % b = c % b
<1>1. PICK q : q = c \div b
  OBVIOUS
<1>2. PICK r : r = c % b
  OBVIOUS
<1>3. c = b * q + r /\ r \in Nat /\ r < b /\ q \in Int
  BY <1>1, <1>2, DivMod
<1>4. q + k \in Int /\ a = (q + k) * b + r
  BY <1>3
<1> QED BY <1>2, <1>3, <1>4, DivModIs

----------------------------------------------------------------------------
(* Functions defined along the numbers.                                    *)

\* f follows the steps g from b up to n.
Climbs(f, g, b, n) == f[0] = b /\ \A i \in 1 .. n : f[i] = g[<<i, f[i - 1]>>]

Climbed(g, b, n, S) == \E f \in [0 .. n -> S] : Climbs(f, g, b, n)

LEMMA RecursionExists ==
  ASSUME NEW S, NEW b \in S, NEW g, NEW n \in Nat, \A i \in 1 .. n, x \in S : g[<<i, x>>] \in S
  PROVE  Climbed(g, b, n, S)
<1> DEFINE T == {m \in 0 .. n : ~ Climbed(g, b, m, S)}
<1>1. SUFFICES ASSUME T # {} PROVE FALSE
  OBVIOUS
<1>2. PICK m \in T : \A k \in T : m <= k
  <2>1. T \in SUBSET Nat
    OBVIOUS
  <2> HIDE DEF T
  <2> QED BY <1>1, <2>1, LeastNatural
<1>3. m \in 0 .. n /\ ~ Climbed(g, b, m, S)
  OBVIOUS
<1>4. m # 0
  <2> DEFINE f == [i \in 0 .. 0 |-> b]
  <2>1. f \in [0 .. 0 -> S] /\ f[0] = b /\ \A i \in 1 .. 0 : FALSE
    OBVIOUS
  <2> HIDE DEF f
  <2>2. Climbs(f, g, b, 0)
    BY <2>1 DEF Climbs
  <2> QED BY <1>3, <2>1, <2>2 DEF Climbed
<1>5. PICK f \in [0 .. m - 1 -> S] : Climbs(f, g, b, m - 1)
  <2>1. m - 1 \in 0 .. n /\ m - 1 \notin T
    <3>1. m - 1 \in 0 .. n
      BY <1>3, <1>4
    <3> HIDE DEF T
    <3> QED BY <1>2, <1>3, <3>1
  <2> QED BY <2>1 DEF Climbed
<1> HIDE DEF T
<1> DEFINE h == [i \in 0 .. m |-> IF i = m THEN g[<<m, f[m - 1]>>] ELSE f[i]]
<1>6. \A i \in 0 .. m - 1 : h[i] = f[i] /\ f[i] \in S
  BY <1>3
<1>7. h[m] = g[<<m, f[m - 1]>>] /\ m - 1 \in 0 .. m - 1
  BY <1>3, <1>4
<1>8. h \in [0 .. m -> S]
  <2>1. h[m] \in S /\ m \in 1 .. n
    BY <1>3, <1>4, <1>6, <1>7
  <2>2. \A i \in 0 .. m : h[i] \in S
    <3> HIDE DEF h
    <3>1. \A i \in 0 .. m : i = m \/ i \in 0 .. m - 1
      BY <1>3
    <3> QED BY <2>1, <1>6, <3>1
  <2>3. h = [i \in 0 .. m |-> h[i]]
    OBVIOUS
  <2> HIDE DEF h
  <2> QED BY <2>2, <2>3
<1> HIDE DEF h
<1>9. Climbs(h, g, b, m)
  <2>1. h[0] = b
    BY <1>3, <1>4, <1>5, <1>6 DEF Climbs
  <2>2. ASSUME NEW i \in 1 .. m PROVE h[i] = g[<<i, h[i - 1]>>]
    <3>1. CASE i = m
      BY <1>6, <1>7, <3>1
    <3>2. CASE i # m
      <4>1. i \in 1 .. m - 1 /\ i \in 0 .. m - 1 /\ i - 1 \in 0 .. m - 1
        BY <1>3, <3>2
      <4>2. f[i] = g[<<i, f[i - 1]>>]
        BY <1>5, <4>1 DEF Climbs
      <4> QED BY <1>6, <4>1, <4>2
    <3> QED BY <3>1, <3>2
  <2> QED BY <2>1, <2>2 DEF Climbs
<1> QED BY <1>3, <1>8, <1>9 DEF Climbed

\* What holds of the first and passes on, holds.
LEMMA PassesOn ==
  ASSUME NEW n \in Nat, NEW T \in SUBSET (0 .. n), 0 \in T, \A i \in 1 .. n : i - 1 \in T => i \in T
  PROVE  T = 0 .. n
<1>1. SUFFICES ASSUME (0 .. n) \ T # {} PROVE FALSE
  OBVIOUS
<1>2. PICK m \in (0 .. n) \ T : \A k \in (0 .. n) \ T : m <= k
  <2>1. (0 .. n) \ T \in SUBSET Nat
    OBVIOUS
  <2> QED BY <1>1, <2>1, LeastNatural
<1>3. m \in 1 .. n /\ m - 1 \in 0 .. n
  BY <1>2
<1>4. m - 1 \in T
  BY <1>2, <1>3
<1> QED BY <1>2, <1>3, <1>4

LEMMA ClimbsOne ==
  ASSUME NEW g, NEW b, NEW n \in Nat, NEW f, NEW h, Climbs(f, g, b, n), Climbs(h, g, b, n)
  PROVE  \A i \in 0 .. n : f[i] = h[i]
<1> DEFINE T == {i \in 0 .. n : f[i] = h[i]}
<1>1. 0 \in T
  BY DEF Climbs
<1>2. ASSUME NEW i \in 1 .. n, i - 1 \in T PROVE i \in T
  <2>1. f[i - 1] = h[i - 1] /\ f[i] = g[<<i, f[i - 1]>>] /\ h[i] = g[<<i, h[i - 1]>>]
    BY <1>2 DEF Climbs
  <2> QED BY <2>1
<1>3. T = 0 .. n
  <2>1. T \in SUBSET (0 .. n)
    OBVIOUS
  <2> HIDE DEF T
  <2> QED BY <1>1, <1>2, <2>1, PassesOn
<1> QED BY <1>3

LEMMA PowersExist == \E f : f = [n \in Nat |-> IF n = 0 THEN 1 ELSE 2 * f[n - 1]]
<1> DEFINE g == [p \in Nat \X Nat |-> 2 * p[2]]
<1>1. \A i, x \in Nat : g[<<i, x>>] = 2 * x
  OBVIOUS
<1> HIDE DEF g
<1> DEFINE Good(f, n) == f \in [0 .. n -> Nat] /\ Climbs(f, g, 1, n)
           At(n) == CHOOSE f : Good(f, n)
           h == [n \in Nat |-> At(n)[n]]
<1>2. ASSUME NEW n \in Nat PROVE Good(At(n), n)
  <2>1. \A i \in 1 .. n, x \in Nat : g[<<i, x>>] \in Nat
    <3> TAKE i \in 1 .. n, x \in Nat
    <3>1. g[<<i, x>>] = 2 * x
      BY <1>1
    <3> QED BY <3>1
  <2>2. \E f : Good(f, n)
    BY <2>1, RecursionExists DEF Climbed
  <2> HIDE DEF Good
  <2> QED BY <2>2
<1>3. h[0] = 1
  <2>1. At(0)[0] = 1
    <3> HIDE DEF At
    <3> QED BY <1>2 DEF Climbs
  <2> HIDE DEF At
  <2> QED BY <2>1
<1>4. ASSUME NEW n \in Nat, n # 0 PROVE h[n] = 2 * h[n - 1]
  <2>1. PICK a : a = At(n)
    OBVIOUS
  <2>2. PICK c : c = At(n - 1)
    OBVIOUS
  <2>3. n - 1 \in Nat /\ h[n] = a[n] /\ h[n - 1] = c[n - 1]
    <3> HIDE DEF At
    <3> QED BY <1>4, <2>1, <2>2
  <2>4. Good(a, n) /\ Good(c, n - 1)
    <3> HIDE DEF At, Good
    <3> QED BY <1>2, <2>1, <2>2, <2>3
  <2> HIDE DEF At, h
  <2>5. Climbs(a, g, 1, n - 1)
    BY <1>4, <2>4 DEF Climbs
  <2>6. a[n - 1] = c[n - 1]
    BY <2>3, <2>4, <2>5, ClimbsOne
  <2>7. a[n] = g[<<n, a[n - 1]>>] /\ a[n - 1] \in Nat
    BY <1>4, <2>4 DEF Climbs
  <2> QED BY <1>1, <2>3, <2>6, <2>7
<1>5. h = [n \in Nat |-> IF n = 0 THEN 1 ELSE 2 * h[n - 1]]
  <2>1. h = [n \in Nat |-> h[n]]
    OBVIOUS
  <2> HIDE DEF h
  <2> QED BY <1>3, <1>4, <2>1
<1> HIDE DEF h
<1> QED BY <1>5

LEMMA Powers == Pow2[0] = 1 /\ \A n \in Nat \ {0} : Pow2[n] = 2 * Pow2[n - 1]
<1>1. Pow2 = [n \in Nat |-> IF n = 0 THEN 1 ELSE 2 * Pow2[n - 1]]
  BY PowersExist DEF Pow2
<1> QED BY <1>1

LEMMA PowerType == ASSUME NEW n \in Nat PROVE Pow2[n] \in Nat \ {0}
<1> DEFINE T == {i \in 0 .. n : Pow2[i] \in Nat \ {0}}
<1>1. 0 \in T
  BY Powers
<1>2. ASSUME NEW i \in 1 .. n, i - 1 \in T PROVE i \in T
  <2>1. Pow2[i] = 2 * Pow2[i - 1] /\ Pow2[i - 1] \in Nat \ {0}
    BY <1>2, Powers
  <2> QED BY <2>1
<1>3. T = 0 .. n
  <2>1. T \in SUBSET (0 .. n)
    OBVIOUS
  <2> HIDE DEF T
  <2> QED BY <1>1, <1>2, <2>1, PassesOn
<1> QED BY <1>3

LEMMA PowerSum == ASSUME NEW m \in Nat, NEW n \in Nat PROVE Pow2[m + n] = Pow2[m] * Pow2[n]
<1> DEFINE T == {i \in 0 .. n : Pow2[m + i] = Pow2[m] * Pow2[i]}
<1>1. 0 \in T
  BY Powers, PowerType
<1>2. ASSUME NEW i \in 1 .. n, i - 1 \in T PROVE i \in T
  <2>1. Pow2[i] = 2 * Pow2[i - 1] /\ Pow2[m + i] = 2 * Pow2[m + (i - 1)] /\ Pow2[m + (i - 1)] = Pow2[m] * Pow2[i - 1]
    <3>1. m + i \in Nat \ {0} /\ m + i - 1 = m + (i - 1)
      OBVIOUS
    <3> QED BY <1>2, <3>1, Powers
  <2>2. Pow2[m] \in Nat /\ Pow2[i - 1] \in Nat
    BY PowerType
  <2>3. Pow2[m + i] = Pow2[m] * Pow2[i]
    BY <2>1, <2>2
  <2> QED BY <2>3
<1>3. T = 0 .. n
  <2>1. T \in SUBSET (0 .. n)
    OBVIOUS
  <2> HIDE DEF T
  <2> QED BY <1>1, <1>2, <2>1, PassesOn
<1> QED BY <1>3

----------------------------------------------------------------------------
(* Quotients in lowest terms.                                              *)

\* d divides a and b, and is a sum of multiples of theirs.
IsGcd(d, a, b) ==
  /\ d \in Nat /\ (\E m \in Int : a = m * d) /\ (\E n \in Int : b = n * d)
  /\ \E x, y \in Int : d = x * a + y * b

LEMMA GcdZero == ASSUME NEW a \in Nat PROVE IsGcd(a, a, 0)
<1>1. a = 1 * a /\ 0 = 0 * a /\ a = 1 * a + 0 * 0
  OBVIOUS
<1> QED BY <1>1 DEF IsGcd

LEMMA GcdOne ==
  ASSUME NEW a \in Int, NEW b \in Int, NEW d, NEW e, IsGcd(d, a, b), IsGcd(e, a, b)
  PROVE  d = e
<1>1. PICK m \in Int, n \in Int, x \in Int, y \in Int : a = m * d /\ b = n * d /\ d = x * a + y * b
  BY DEF IsGcd
<1>2. PICK i \in Int, j \in Int, u \in Int, v \in Int : a = i * e /\ b = j * e /\ e = u * a + v * b
  BY DEF IsGcd
<1>3. d \in Nat /\ e \in Nat
  BY DEF IsGcd
<1>4. d = (x * i + y * j) * e /\ e = (u * m + v * n) * d
  <2>1. d = x * (i * e) + y * (j * e)
    BY <1>1, <1>2
  <2>2. e = u * (m * d) + v * (n * d)
    BY <1>1, <1>2
  <2> QED BY <1>3, <2>1, <2>2
<1>5. PICK p \in Int, q \in Int : d = p * e /\ e = q * d
  BY <1>4
<1>6. CASE d = 0
  BY <1>3, <1>5, <1>6
<1>7. CASE e = 0
  BY <1>3, <1>5, <1>7
<1>8. CASE d # 0 /\ e # 0
  <2>1. p > 0 /\ q > 0
    BY <1>3, <1>5, <1>8
  <2>2. p * e >= e /\ q * d >= d
    BY <1>3, <2>1
  <2> QED BY <1>3, <1>5, <2>2
<1> QED BY <1>3, <1>6, <1>7, <1>8

LEMMA GcdStep ==
  ASSUME NEW a \in Nat, NEW b \in Nat \ {0}, NEW d, IsGcd(d, b, a % b)
  PROVE  IsGcd(d, a, b)
<1>1. PICK r : r = a % b
  OBVIOUS
<1>2. PICK q : q = a \div b
  OBVIOUS
<1>3. a = b * q + r /\ q \in Int /\ r \in Nat
  BY <1>1, <1>2, DivMod
<1>4. PICK m \in Int, n \in Int, x \in Int, y \in Int : b = m * d /\ r = n * d /\ d = x * b + y * r
  BY <1>1 DEF IsGcd
<1>5. d \in Nat
  BY DEF IsGcd
<1>6. a = (m * q + n) * d
  <2>1. a = (m * d) * q + n * d
    BY <1>3, <1>4
  <2> QED BY <1>5, <1>3, <2>1
<1>7. d = y * a + (x - y * q) * b
  <2>1. r = a - b * q
    BY <1>3
  <2>2. d = x * b + y * (a - b * q)
    BY <1>4, <2>1
  <2> QED BY <1>3, <2>2
<1>8. m * q + n \in Int /\ x - y * q \in Int
  BY <1>3
<1> QED BY <1>4, <1>5, <1>6, <1>7, <1>8 DEF IsGcd

HasGcd(b) == \A a \in Nat : \E d : IsGcd(d, a, b)

LEMMA GcdExists == \A b \in Nat : HasGcd(b)
<1> DEFINE T == {b \in Nat : ~ HasGcd(b)}
<1>1. SUFFICES ASSUME T # {} PROVE FALSE
  OBVIOUS
<1>2. PICK b \in T : \A c \in T : b <= c
  <2>1. T \in SUBSET Nat
    OBVIOUS
  <2> HIDE DEF T
  <2> QED BY <1>1, <2>1, LeastNatural
<1>3. b \in Nat /\ ~ HasGcd(b)
  OBVIOUS
<1>4. b # 0
  BY <1>3, GcdZero DEF HasGcd
<1>5. ASSUME NEW a \in Nat PROVE \E d : IsGcd(d, a, b)
  <2>1. a % b \in Nat /\ a % b < b
    BY <1>3, <1>4
  <2>2. HasGcd(a % b)
    <3>1. a % b \notin T
      <4> HIDE DEF T
      <4> QED BY <1>2, <1>3, <2>1
    <3> QED BY <2>1, <3>1
  <2>3. PICK d : IsGcd(d, b, a % b)
    BY <1>3, <2>2 DEF HasGcd
  <2> QED BY <1>3, <1>4, <2>3, GcdStep
<1> QED BY <1>3, <1>5 DEF HasGcd

LEMMA GcdFunction == \E f : f = [p \in Nat \X Nat |-> IF p[2] = 0 THEN p[1] ELSE f[<<p[2], p[1] % p[2]>>]]
<1> DEFINE h == [p \in Nat \X Nat |-> CHOOSE d : IsGcd(d, p[1], p[2])]
<1>1. ASSUME NEW a \in Nat, NEW b \in Nat PROVE IsGcd(h[<<a, b>>], a, b)
  <2>1. PICK d : IsGcd(d, a, b)
    BY GcdExists DEF HasGcd
  <2>2. h[<<a, b>>] = CHOOSE e : IsGcd(e, a, b)
    BY DEF IsGcd
  <2> HIDE DEF h
  <2> QED BY <2>1, <2>2
<1> HIDE DEF h
<1>2. ASSUME NEW p \in Nat \X Nat PROVE h[p] = IF p[2] = 0 THEN p[1] ELSE h[<<p[2], p[1] % p[2]>>]
  <2>1. PICK a \in Nat, b \in Nat : p = <<a, b>>
    OBVIOUS
  <2>2. CASE b = 0
    BY <1>1, <2>1, <2>2, GcdZero, GcdOne
  <2>3. CASE b # 0
    <3>1. a % b \in Nat
      BY <2>3
    <3>2. IsGcd(h[<<b, a % b>>], a, b)
      BY <1>1, <2>3, <3>1, GcdStep
    <3>3. h[<<b, a % b>>] = h[<<a, b>>]
      BY <1>1, <3>2, GcdOne
    <3> QED BY <2>1, <2>3, <3>3
  <2> QED BY <2>2, <2>3
<1>3. h = [p \in Nat \X Nat |-> IF p[2] = 0 THEN p[1] ELSE h[<<p[2], p[1] % p[2]>>]]
  <2>1. h = [p \in Nat \X Nat |-> h[p]]
    BY DEF h
  <2> QED BY <1>2, <2>1
<1> QED BY <1>3

LEMMA GcdRecursion ==
  ASSUME NEW a \in Nat, NEW b \in Nat
  PROVE  GCD[<<a, b>>] = IF b = 0 THEN a ELSE GCD[<<b, a % b>>]
<1>1. GCD = [p \in Nat \X Nat |-> IF p[2] = 0 THEN p[1] ELSE GCD[<<p[2], p[1] % p[2]>>]]
  BY GcdFunction DEF GCD
<1>2. <<a, b>> \in Nat \X Nat /\ <<a, b>>[1] = a /\ <<a, b>>[2] = b
  OBVIOUS
<1>3. \A p \in Nat \X Nat : GCD[p] = IF p[2] = 0 THEN p[1] ELSE GCD[<<p[2], p[1] % p[2]>>]
  BY <1>1
<1> QED BY <1>2, <1>3

GcdRight(b) == \A a \in Nat : IsGcd(GCD[<<a, b>>], a, b)

LEMMA GcdIs == \A b \in Nat : GcdRight(b)
<1> DEFINE T == {b \in Nat : ~ GcdRight(b)}
<1>1. SUFFICES ASSUME T # {} PROVE FALSE
  OBVIOUS
<1>2. PICK b \in T : \A c \in T : b <= c
  <2>1. T \in SUBSET Nat
    OBVIOUS
  <2> HIDE DEF T
  <2> QED BY <1>1, <2>1, LeastNatural
<1>3. b \in Nat /\ ~ GcdRight(b)
  OBVIOUS
<1>4. b # 0
  <2> SUFFICES ASSUME b = 0 PROVE FALSE
    OBVIOUS
  <2>1. ASSUME NEW a \in Nat PROVE IsGcd(GCD[<<a, 0>>], a, 0)
    BY GcdRecursion, GcdZero
  <2> QED BY <1>3, <2>1 DEF GcdRight
<1>5. ASSUME NEW a \in Nat PROVE IsGcd(GCD[<<a, b>>], a, b)
  <2>1. a % b \in Nat /\ a % b < b
    BY <1>3, <1>4
  <2>2. GcdRight(a % b)
    <3>1. a % b \notin T
      <4> HIDE DEF T
      <4> QED BY <1>2, <1>3, <2>1
    <3> QED BY <2>1, <3>1
  <2>3. IsGcd(GCD[<<b, a % b>>], b, a % b)
    BY <1>3, <2>2 DEF GcdRight
  <2>4. GCD[<<a, b>>] = GCD[<<b, a % b>>]
    BY <1>3, <1>4, GcdRecursion
  <2> QED BY <1>3, <1>4, <2>3, <2>4, GcdStep
<1> QED BY <1>3, <1>5 DEF GcdRight

Lowest(q) == q \in Int \X (Nat \ {0}) /\ \E x, y \in Int : x * q[1] + y * q[2] = 1

LEMMA AbsIs == ASSUME NEW a \in Int PROVE Abs(a) \in Nat /\ (a >= 0 => Abs(a) = a) /\ (a < 0 => Abs(a) = -a)
BY DEF Abs

LEMMA LowestPair ==
  ASSUME NEW a \in Int, NEW b \in Nat \ {0}, NEW x \in Int, NEW y \in Int, x * a + y * b = 1
  PROVE  Lowest(<<a, b>>)
BY DEF Lowest

LEMMA LowestInt == ASSUME NEW n \in Int PROVE Lowest(<<n, 1>>)
<1>1. 0 * n + 1 * 1 = 1
  OBVIOUS
<1> QED BY <1>1 DEF Lowest

LEMMA LowestGcd ==
  ASSUME NEW q \in Int \X (Nat \ {0}), GCD[<<Abs(q[1]), q[2]>>] = 1
  PROVE  Lowest(q)
<1>1. PICK a \in Int, b \in Nat \ {0} : q = <<a, b>>
  OBVIOUS
<1>2. IsGcd(1, Abs(a), b)
  BY <1>1, AbsIs, GcdIs DEF GcdRight
<1>3. PICK x \in Int, y \in Int : 1 = x * Abs(a) + y * b
  BY <1>2 DEF IsGcd
<1>4. PICK z \in Int : z * a + y * b = 1
  <2>1. CASE a >= 0
    BY <1>3, <2>1, AbsIs
  <2>2. CASE a < 0
    <3>1. PICK w \in Int : w = -x
      OBVIOUS
    <3>2. w * a = x * Abs(a)
      BY <2>2, <3>1, AbsIs
    <3> QED BY <1>3, <3>2
  <2> QED BY <2>1, <2>2
<1> QED BY <1>1, <1>4, LowestPair

LEMMA LowestUnique ==
  ASSUME NEW p, NEW q, Lowest(p), Lowest(q), p[1] * q[2] = q[1] * p[2]
  PROVE  p = q
<1>1. PICK a \in Int, b \in Nat \ {0} : p = <<a, b>>
  BY DEF Lowest
<1>2. PICK c \in Int, d \in Nat \ {0} : q = <<c, d>>
  BY DEF Lowest
<1>3. PICK x \in Int, y \in Int : x * a + y * b = 1
  BY <1>1 DEF Lowest
<1>4. PICK u \in Int, v \in Int : u * c + v * d = 1
  BY <1>2 DEF Lowest
<1>5. a * d = c * b
  BY <1>1, <1>2
<1>6. d = b * (x * c + y * d)
  <2>1. d = d * (x * a + y * b)
    BY <1>3
  <2>2. d = x * (a * d) + y * b * d
    BY <2>1
  <2>3. d = x * (c * b) + y * b * d
    BY <1>5, <2>2
  <2> QED BY <2>3
<1>7. b = d * (u * a + v * b)
  <2>1. b = b * (u * c + v * d)
    BY <1>4
  <2>2. b = u * (c * b) + v * d * b
    BY <2>1
  <2>3. b = u * (a * d) + v * d * b
    BY <1>5, <2>2
  <2> QED BY <2>3
<1>8. PICK m \in Int, n \in Int : d = b * m /\ b = d * n
  BY <1>6, <1>7
<1>9. b = d
  <2>1. m > 0 /\ n > 0
    BY <1>8
  <2>2. b * m >= b /\ d * n >= d
    BY <2>1
  <2> QED BY <1>8, <2>2
<1>10. a = c
  BY <1>5, <1>9
<1> QED BY <1>1, <1>2, <1>9, <1>10

LEMMA RatioLowest ==
  ASSUME NEW n \in Int, NEW d \in Int \ {0}
  PROVE  Lowest(Ratio(n, d)) /\ Ratio(n, d)[1] * d = n * Ratio(n, d)[2]
<1>1. PICK g : g = GCD[<<Abs(n), Abs(d)>>]
  OBVIOUS
<1>2. PICK s \in {-1, 1} : s = IF d < 0 THEN -1 ELSE 1
  OBVIOUS
<1>3. Ratio(n, d) = <<(s * n) \div g, Abs(d) \div g>>
  BY <1>1, <1>2 DEF Ratio
<1>4. PICK a \in Nat, b \in Nat \ {0} : a = Abs(n) /\ b = Abs(d)
  BY AbsIs
<1>5. IsGcd(g, a, b)
  BY <1>1, <1>4, GcdIs DEF GcdRight
<1>6. PICK i \in Int, j \in Int, x \in Int, y \in Int : a = i * g /\ b = j * g /\ g = x * a + y * b
  BY <1>5 DEF IsGcd
<1>7. g \in Nat \ {0} /\ j \in Nat \ {0} /\ i \in Nat
  <2>1. g \in Nat
    BY <1>5 DEF IsGcd
  <2>2. g # 0
    BY <1>6
  <2> QED BY <1>6, <2>1, <2>2
<1>8. b \div g = j
  BY <1>6, <1>7, DivModIs
<1>9. PICK e \in Int : e \in {i, -i} /\ s * n = e * g
  <2>1. s * n = i * g \/ s * n = (-i) * g
    <3>1. n = a \/ n = -a
      BY <1>4, AbsIs
    <3>2. s * n = a \/ s * n = -a
      BY <3>1, <1>4
    <3>3. -(i * g) = (-i) * g
      BY <1>7
    <3> QED BY <1>6, <3>2, <3>3
  <2> QED BY <1>7, <2>1
<1>10. (s * n) \div g = e
  <2>1. s * n \in Int /\ s * n = e * g + 0
    BY <1>7, <1>9
  <2> QED BY <1>7, <2>1, DivModIs
<1>11. Ratio(n, d) = <<e, j>>
  BY <1>3, <1>4, <1>8, <1>10
<1>12. x * i + y * j = 1
  <2>1. g = x * (i * g) + y * (j * g)
    BY <1>6
  <2>2. g * (x * i + y * j) = g * 1
    BY <1>7, <2>1
  <2>3. PICK z \in Int : z = x * i + y * j
    OBVIOUS
  <2>4. g * z = g
    BY <1>7, <2>2, <2>3
  <2>5. z = 1
    BY <1>7, <2>4
  <2> QED BY <2>3, <2>5
<1>13. Lowest(<<e, j>>)
  <2>1. PICK z \in Int : z * e + y * j = 1
    <3>1. CASE e = i
      BY <1>12, <3>1
    <3>2. CASE e = -i
      <4>1. PICK w \in Int : w = -x
        OBVIOUS
      <4>2. w * e = x * i
        BY <1>7, <3>2, <4>1
      <4> QED BY <1>12, <4>2
    <3> QED BY <1>9, <3>1, <3>2
  <2> QED BY <1>7, <2>1, LowestPair
<1>14. e * d = n * j
  <2>1. d = s * b
    BY <1>2, <1>4, AbsIs
  <2>2. e * d = e * (s * (j * g)) /\ n * j = n * j
    BY <1>6, <2>1
  <2>3. e * (s * (j * g)) = s * j * (e * g)
    BY <1>7
  <2>4. s * j * (s * n) = n * j
    BY <1>7
  <2> QED BY <1>9, <2>2, <2>3, <2>4
<1> QED BY <1>11, <1>13, <1>14

----------------------------------------------------------------------------
(* Numbers of a width, with and without a sign.                            *)

LEMMA WidthTypes ==
  /\ LongBits \in Nat \ {0} /\ IntBits \in Nat \ {0} /\ WordBits \in Nat \ {0} /\ CharBits \in Nat \ {0}
  /\ CharBits < WordBits /\ WordBits < IntBits /\ IntBits <= LongBits /\ 3 * CharBits < IntBits /\ 2 * WordBits <= LongBits
BY WidthsAssumption

\* A width takes the narrower ones as many times as what is left of it.
LEMMA PowerOf ==
  ASSUME NEW m \in Nat, NEW n \in Nat, m <= n
  PROVE  \E k \in Nat \ {0} : Pow2[n] = k * Pow2[m]
<1>1. PICK d \in Nat : n = m + d
  <2>1. n - m \in Nat /\ n = m + (n - m)
    OBVIOUS
  <2> QED BY <2>1
<1>2. Pow2[n] = Pow2[m] * Pow2[d] /\ Pow2[d] \in Nat \ {0} /\ Pow2[m] \in Nat
  BY <1>1, PowerSum, PowerType
<1>3. Pow2[n] = Pow2[d] * Pow2[m]
  BY <1>2
<1> QED BY <1>2, <1>3

LEMMA PowerHalf == ASSUME NEW n \in Nat \ {0} PROVE Pow2[n] = 2 * Pow2[n - 1] /\ Pow2[n - 1] \in Nat \ {0}
<1>1. n - 1 \in Nat
  OBVIOUS
<1> QED BY <1>1, Powers, PowerType

LEMMA LongIs == ASSUME NEW n \in Int PROVE Long(n) \in Nat /\ Long(n) < Pow2[LongBits] /\ \E k \in Int : n = Long(n) + k * Pow2[LongBits]
<1>1. PICK l \in Nat \ {0} : l = Pow2[LongBits]
  BY WidthTypes, PowerType
<1>2. Long(n) = n % l
  BY <1>1 DEF Long
<1>3. PICK q \in Int : n = l * q + (n % l)
  BY DivMod
<1>4. n % l \in Nat /\ n % l < l
  BY DivMod
<1>5. n = (n % l) + q * l
  BY <1>3, <1>4
<1> QED BY <1>1, <1>2, <1>4, <1>5

LEMMA LongOf ==
  ASSUME NEW n \in Int, NEW r \in Nat, r < Pow2[LongBits], NEW k \in Int, n = r + k * Pow2[LongBits]
  PROVE  Long(n) = r
<1>1. PICK l \in Nat \ {0} : l = Pow2[LongBits]
  BY WidthTypes, PowerType
<1>2. n = k * l + r /\ r < l
  BY <1>1
<1> QED BY <1>1, <1>2, DivModIs DEF Long

LEMMA SignedIs ==
  ASSUME NEW bits \in Nat \ {0}, NEW s \in Int, -Pow2[bits - 1] <= s, s < Pow2[bits - 1],
         NEW x \in Int, NEW k \in Int, x = s + k * Pow2[bits]
  PROVE  Signed(x, bits) = s
<1>1. PICK h \in Nat \ {0} : h = Pow2[bits - 1]
  BY PowerHalf
<1>2. PICK w \in Nat \ {0} : w = Pow2[bits] /\ w = 2 * h
  BY <1>1, PowerHalf
<1>3. Signed(x, bits) = IF (x % w) < h THEN (x % w) ELSE (x % w) - w
  BY <1>1, <1>2 DEF Signed
<1>4. -h <= s /\ s < h /\ x = k * w + s
  BY <1>1, <1>2
<1>5. CASE s >= 0
  <2>1. s \in Nat /\ s < w
    BY <1>2, <1>4, <1>5
  <2>2. x % w = s
    BY <1>4, <2>1, DivModIs
  <2> QED BY <1>3, <1>4, <2>2
<1>6. CASE s < 0
  <2>1. PICK r \in Nat : r = s + w /\ r < w /\ r >= h
    BY <1>2, <1>4, <1>6
  <2>2. PICK j \in Int : j = k - 1
    OBVIOUS
  <2>3. x = j * w + r
    BY <1>4, <2>1, <2>2
  <2>4. x % w = r
    BY <2>1, <2>3, DivModIs
  <2> QED BY <1>3, <2>1, <2>4
<1> QED BY <1>5, <1>6

\* What is signed is the number itself, or that less the width.
LEMMA SignedOf ==
  ASSUME NEW bits \in Nat \ {0}, NEW x \in Int
  PROVE  /\ Signed(x, bits) \in Int /\ -Pow2[bits - 1] <= Signed(x, bits) /\ Signed(x, bits) < Pow2[bits - 1]
         /\ \E k \in Int : x = Signed(x, bits) + k * Pow2[bits]
<1>1. PICK h \in Nat \ {0} : h = Pow2[bits - 1]
  BY PowerHalf
<1>2. PICK w \in Nat \ {0} : w = Pow2[bits] /\ w = 2 * h
  BY <1>1, PowerHalf
<1>3. PICK r : r = x % w
  OBVIOUS
<1>4. PICK q \in Int : x = w * q + r /\ r \in Nat /\ r < w
  BY <1>3, DivMod
<1>5. Signed(x, bits) = IF r < h THEN r ELSE r - w
  BY <1>1, <1>2, <1>3 DEF Signed
<1>6. CASE r < h
  <2>1. Signed(x, bits) = r /\ x = r + q * w
    BY <1>4, <1>5, <1>6
  <2> QED BY <1>1, <1>2, <1>4, <1>6, <2>1
<1>7. CASE ~(r < h)
  <2>1. Signed(x, bits) = r - w /\ x = (r - w) + (q + 1) * w /\ q + 1 \in Int
    BY <1>4, <1>5, <1>7
  <2> QED BY <1>1, <1>2, <1>4, <1>7, <2>1
<1> QED BY <1>6, <1>7

\* What fits an int is one.
LEMMA WithinIs ==
  ASSUME NEW m \in Nat, m < Pow2[LongBits], NEW s, s = Signed(m, LongBits),
         s \in -Pow2[IntBits - 1] .. Pow2[IntBits - 1] - 1
  PROVE  AsInt(m) = s /\ Long(s) = m /\ (s >= 0 => m = s) /\ (s < 0 => m = s + Pow2[LongBits])
<1>1. PICK l \in Nat \ {0} : l = Pow2[LongBits]
  BY WidthTypes, PowerType
<1>2. PICK i \in Nat \ {0} : i = Pow2[IntBits]
  BY WidthTypes, PowerType
<1>3. PICK c \in Nat \ {0} : l = c * i
  BY <1>1, <1>2, WidthTypes, PowerOf
<1>4. PICK k \in Int : m = s + k * l
  BY <1>1, SignedOf, WidthTypes
<1>5. PICK h \in Nat \ {0} : h = Pow2[IntBits - 1] /\ i = 2 * h
  BY <1>2, PowerHalf, WidthTypes
<1>6. -h <= s /\ s < h /\ s \in Int
  BY <1>5
<1>7. AsInt(m) = s
  <2>1. PICK j \in Int : j = k * c
    OBVIOUS
  <2>2. m = s + j * i
    BY <1>3, <1>4, <2>1
  <2>3. m = s + j * Pow2[IntBits] /\ -Pow2[IntBits - 1] <= s /\ s < Pow2[IntBits - 1]
    BY <1>2, <1>5, <1>6, <2>2
  <2> QED BY <1>6, <2>3, WidthTypes, SignedIs DEF AsInt
<1>8. Long(s) = m
  <2>1. s = m + (-k) * l /\ -k \in Int
    BY <1>4, <1>6
  <2> QED BY <1>1, <1>6, <2>1, LongOf
<1>9. k = 0 \/ k = 1
  <2>1. -l < m - s /\ m - s < 2 * l
    <3>1. h < l
      BY <1>3, <1>5
    <3> QED BY <1>1, <1>6, <3>1
  <2> QED BY <1>1, <1>4, <1>6, <2>1
<1>10. (s >= 0 => k = 0) /\ (s < 0 => k = 1)
  BY <1>1, <1>4, <1>6, <1>9
<1> QED BY <1>1, <1>4, <1>6, <1>7, <1>8, <1>10

----------------------------------------------------------------------------
(* The values there are: integers of the width, and quotients in lowest     *)
(* terms.                                                                   *)

Numbers == {q \in Int \X (Nat \ {0}) : Lowest(q)}
Whole(q) == q[2] = 1 /\ 0 <= q[1] /\ q[1] < Pow2[LongBits]
Vals == {v \in [type : Types, q : Numbers] : v.type = "kInt" => Whole(v.q)}
AllVals(out) == \A o \in out : o.val \in Vals

LEMMA NumberIs == ASSUME NEW q PROVE q \in Numbers <=> Lowest(q)
BY DEF Numbers, Lowest

LEMMA NumberParts ==
  ASSUME NEW q \in Numbers
  PROVE  q[1] \in Int /\ q[2] \in Nat \ {0} /\ q = <<q[1], q[2]>>
BY DEF Numbers

LEMMA IntNumber == ASSUME NEW n \in Int PROVE <<n, 1>> \in Numbers /\ <<n, 1>>[1] = n /\ <<n, 1>>[2] = 1
BY LowestInt, NumberIs

LEMMA RatioNumber == ASSUME NEW n \in Int, NEW d \in Int \ {0} PROVE Ratio(n, d) \in Numbers
BY RatioLowest, NumberIs

LEMMA PlusNumber == ASSUME NEW p \in Numbers, NEW q \in Numbers PROVE Plus(p, q) \in Numbers
<1>1. p[1] * q[2] + q[1] * p[2] \in Int /\ p[2] * q[2] \in Int \ {0}
  BY NumberParts
<1> QED BY <1>1, RatioNumber DEF Plus

LEMMA TimesNumber == ASSUME NEW p \in Numbers, NEW q \in Numbers PROVE Times(p, q) \in Numbers
<1>1. p[1] * q[1] \in Int /\ p[2] * q[2] \in Int \ {0}
  BY NumberParts
<1> QED BY <1>1, RatioNumber DEF Times

LEMMA OverNumber == ASSUME NEW p \in Numbers, NEW q \in Numbers, q[1] # 0 PROVE Over(p, q) \in Numbers
<1>1. p[1] * q[2] \in Int /\ p[2] * q[1] \in Int \ {0}
  BY NumberParts
<1> QED BY <1>1, RatioNumber DEF Over

LEMMA MinusNumber == ASSUME NEW q \in Numbers PROVE <<-q[1], q[2]>> \in Numbers
<1>1. PICK a \in Int, b \in Nat \ {0} : q = <<a, b>>
  BY DEF Numbers
<1>2. PICK x \in Int, y \in Int : x * a + y * b = 1
  BY <1>1 DEF Numbers, Lowest
<1>3. PICK z \in Int : z = -x
  OBVIOUS
<1>4. PICK c \in Int : c = -a
  OBVIOUS
<1>5. z * c + y * b = 1
  <2>1. z * c = x * a
    BY <1>3, <1>4
  <2> QED BY <1>2, <2>1
<1>6. Lowest(<<c, b>>)
  BY <1>5, LowestPair
<1> QED BY <1>1, <1>4, <1>6, NumberIs

LEMMA ValParts ==
  ASSUME NEW v \in Vals
  PROVE  v.type \in Types /\ v.q \in Numbers /\ v.q[1] \in Int /\ v.q[2] \in Nat \ {0} /\ (v.type = "kInt" => Whole(v.q))
BY NumberParts DEF Vals

LEMMA RealVal == ASSUME NEW type \in Types \ {"kInt"}, NEW q \in Numbers PROVE Val(type, q) \in Vals
BY DEF Val, Vals

LEMMA IntVal == ASSUME NEW n \in Int PROVE Val_CreateInt(n) \in Vals
<1>1. Long(n) \in Nat /\ Long(n) < Pow2[LongBits]
  BY LongIs
<1>2. PICK m \in Nat : m = Long(n)
  BY <1>1
<1>3. <<m, 1>> \in Numbers /\ Whole(<<m, 1>>)
  BY <1>1, <1>2, IntNumber DEF Whole
<1>4. Val("kInt", <<m, 1>>) \in Vals
  BY <1>3 DEF Val, Vals, Types
<1> QED BY <1>2, <1>4 DEF Val_CreateInt

LEMMA NoVal == Val_CreateUnresolved \in Vals
<1>1. <<0, 1>> \in Numbers
  BY IntNumber
<1> QED BY <1>1, RealVal DEF Val_CreateUnresolved, Types

LEMMA GivesVals == ASSUME NEW v \in Vals PROVE AllVals(Gives(v)) /\ AllVals(Fails(v))
BY DEF AllVals, Gives, Fails

LEMMA LeftoverVals == ASSUME NEW type \in Types, NEW err PROVE AllVals(Uninitialised(type, err))
<1>1. ASSUME NEW g \in Leftovers PROVE Val(type, <<g, 1>>) \in Vals
  <2>1. PICK l \in Nat \ {0} : l = Pow2[LongBits]
    BY WidthTypes, PowerType
  <2>2. PICK i \in Nat \ {0} : i = Pow2[IntBits]
    BY WidthTypes, PowerType
  <2>3. PICK k \in Nat \ {0} : l = k * i
    BY <2>1, <2>2, WidthTypes, PowerOf
  <2>4. i <= l
    BY <2>3
  <2>5. g \in Nat /\ g < i
    BY <2>2, WidthsAssumption
  <2>6. <<g, 1>> \in Numbers /\ Whole(<<g, 1>>)
    BY <2>1, <2>4, <2>5, IntNumber DEF Whole
  <2> QED BY <2>6 DEF Val, Vals
<1>2. ASSUME NEW o \in Uninitialised(type, err) PROVE o.val \in Vals
  <2>1. PICK g \in Leftovers : o = [val |-> Val(type, <<g, 1>>), err |-> err]
    BY DEF Uninitialised
  <2>2. o.val = Val(type, <<g, 1>>)
    BY <2>1
  <2> QED BY <1>1, <2>2
<1> QED BY <1>2 DEF AllVals

LEMMA RealTypes == ASSUME NEW v \in Vals PROVE RealType(v) \in Types \ {"kInt"} /\ (IsReal(v) => v.type \in Types \ {"kInt"})
BY ValParts DEF RealType, IsReal, Types

LEMMA WholeParts ==
  ASSUME NEW v \in Vals, ~IsReal(v), ~Val_CheckResolved(v)
  PROVE  v.type = "kInt" /\ v.q = <<v.q[1], 1>> /\ v.q[1] \in Nat /\ v.q[1] < Pow2[LongBits]
<1>1. v.type = "kInt"
  BY ValParts DEF IsReal, Val_CheckResolved, Types
<1>2. v.q = <<v.q[1], v.q[2]>> /\ v.q[1] \in Int
  BY ValParts, NumberParts
<1> QED BY <1>1, <1>2, ValParts DEF Whole

LEMMA NegVals == ASSUME NEW v \in Vals PROVE Val_Neg(v) \in Vals
<1>1. CASE Val_CheckResolved(v)
  BY <1>1, NoVal DEF Val_Neg
<1>2. CASE ~Val_CheckResolved(v) /\ IsReal(v)
  <2>1. Val_Neg(v) = Val(v.type, <<-v.q[1], v.q[2]>>)
    BY <1>2 DEF Val_Neg
  <2>2. <<-v.q[1], v.q[2]>> \in Numbers
    BY ValParts, MinusNumber
  <2> QED BY <1>2, <2>1, <2>2, RealTypes, RealVal
<1>3. CASE ~Val_CheckResolved(v) /\ ~IsReal(v)
  <2>1. Val_Neg(v) = Val_CreateInt(-v.q[1]) /\ -v.q[1] \in Int
    BY <1>3, ValParts DEF Val_Neg
  <2> QED BY <2>1, IntVal
<1> QED BY <1>1, <1>2, <1>3

LEMMA AddVals == ASSUME NEW v \in Vals, NEW w \in Vals PROVE AllVals(Val_Add(v, w))
<1>1. CASE Val_CheckResolved2(v, w)
  BY <1>1, NoVal, GivesVals DEF Val_Add
<1>2. CASE ~Val_CheckResolved2(v, w) /\ v.type = w.type
  <2>1. CASE IsReal(v)
    <3>1. Plus(v.q, w.q) \in Numbers
      BY ValParts, PlusNumber
    <3>2. Val(v.type, Plus(v.q, w.q)) \in Vals
      BY <2>1, <3>1, RealTypes, RealVal
    <3> QED BY <1>2, <2>1, <3>2, GivesVals DEF Val_Add
  <2>2. CASE ~IsReal(v)
    <3>1. v.q[1] + w.q[1] \in Int
      BY ValParts
    <3>2. Val_CreateInt(v.q[1] + w.q[1]) \in Vals
      BY <3>1, IntVal
    <3> QED BY <1>2, <2>2, <3>2, GivesVals DEF Val_Add
  <2> QED BY <2>1, <2>2
<1>3. CASE ~Val_CheckResolved2(v, w) /\ v.type # w.type
  <2>1. CASE IsReal(v) /\ IsReal(w)
    <3>1. Plus(v.q, w.q) \in Numbers
      BY ValParts, PlusNumber
    <3>2. Val(v.type, Plus(v.q, w.q)) \in Vals
      BY <2>1, <3>1, RealTypes, RealVal
    <3> QED BY <1>3, <2>1, <3>2, GivesVals DEF Val_Add
  <2>2. CASE ~(IsReal(v) /\ IsReal(w))
    BY <1>3, <2>2, ValParts, LeftoverVals DEF Val_Add
  <2> QED BY <2>1, <2>2
<1> QED BY <1>1, <1>2, <1>3

LEMMA MulVals == ASSUME NEW v \in Vals, NEW w \in Vals PROVE AllVals(Val_Mul(v, w))
<1>1. CASE Val_CheckResolved2(v, w)
  BY <1>1, NoVal, GivesVals DEF Val_Mul
<1>2. CASE ~Val_CheckResolved2(v, w) /\ (IsReal(v) \/ IsReal(w))
  <2>1. Times(v.q, w.q) \in Numbers
    BY ValParts, TimesNumber
  <2>2. Val(RealType(v), Times(v.q, w.q)) \in Vals
    BY <2>1, RealTypes, RealVal
  <2> QED BY <1>2, <2>2, GivesVals DEF Val_Mul
<1>3. CASE ~Val_CheckResolved2(v, w) /\ ~(IsReal(v) \/ IsReal(w))
  <2>1. v.q[1] * w.q[1] \in Int
    BY ValParts
  <2>2. Val_CreateInt(v.q[1] * w.q[1]) \in Vals
    BY <2>1, IntVal
  <2> QED BY <1>3, <2>2, GivesVals DEF Val_Mul
<1> QED BY <1>1, <1>2, <1>3

LEMMA OneVal == ASSUME NEW type \in Types PROVE Val(type, <<1, 1>>) \in Vals /\ Val(type, <<0, 1>>) \in Vals
<1>1. PICK l \in Nat \ {0} : l = 2 * Pow2[LongBits - 1] /\ l = Pow2[LongBits] /\ l > 1
  BY WidthTypes, PowerHalf
<1>2. ASSUME NEW n \in {0, 1} PROVE Val(type, <<n, 1>>) \in Vals
  <2>1. <<n, 1>> \in Numbers /\ Whole(<<n, 1>>)
    BY <1>1, IntNumber DEF Whole
  <2> QED BY <2>1 DEF Val, Vals
<1> QED BY <1>2

LEMMA DivVals == ASSUME NEW v \in Vals, NEW w \in Vals, NEW pass PROVE AllVals(Val_Div(v, w, pass))
<1>1. CASE Val_CheckResolved2(v, w)
  BY <1>1, NoVal, GivesVals DEF Val_Div
<1>2. CASE ~Val_CheckResolved2(v, w) /\ w.q[1] = 0
  <2>1. PICK type \in Types : type = IF IsReal(v) \/ IsReal(w) THEN RealType(v) ELSE "kInt"
    BY RealTypes DEF Types
  <2>2. PICK one : one = Val(type, <<1, 1>>)
    OBVIOUS
  <2>3. one \in Vals
    BY <2>2, OneVal
  <2>4. Val_Div(v, w, pass) = IF pass = 2 THEN Fails(one) ELSE Gives(one)
    BY <1>2, <2>1, <2>2 DEF Val_Div
  <2> QED BY <2>3, <2>4, GivesVals
<1>3. CASE ~Val_CheckResolved2(v, w) /\ w.q[1] # 0 /\ (IsReal(v) \/ IsReal(w))
  <2>1. Over(v.q, w.q) \in Numbers
    BY <1>3, ValParts, OverNumber
  <2>2. Val(RealType(v), Over(v.q, w.q)) \in Vals
    BY <2>1, RealTypes, RealVal
  <2> QED BY <1>3, <2>2, GivesVals DEF Val_Div
<1>4. CASE ~Val_CheckResolved2(v, w) /\ w.q[1] # 0 /\ ~(IsReal(v) \/ IsReal(w))
  <2>1. v.q[1] \in Nat /\ w.q[1] \in Nat \ {0}
    BY <1>4, WholeParts DEF Val_CheckResolved2
  <2>2. v.q[1] \div w.q[1] \in Int
    BY <2>1
  <2>3. Val_CreateInt(v.q[1] \div w.q[1]) \in Vals
    BY <2>2, IntVal
  <2> QED BY <1>4, <2>3, GivesVals DEF Val_Div
<1> QED BY <1>1, <1>2, <1>3, <1>4

\* The sums FromBits is defined by.
SumsBits(f, bits) ==
  f = [k \in 0 .. LongBits |-> IF k = 0 THEN 0 ELSE f[k - 1] + (IF k - 1 \in bits THEN Pow2[k - 1] ELSE 0)]

LEMMA FromBitsSums ==
  ASSUME NEW bits
  PROVE  \E f \in [0 .. LongBits -> Nat] : SumsBits(f, bits) /\ FromBits(bits) = f[LongBits]
<1> DEFINE g == [p \in (1 .. LongBits) \X Nat |-> p[2] + (IF p[1] - 1 \in bits THEN Pow2[p[1] - 1] ELSE 0)]
<1>1. \A i \in 1 .. LongBits, x \in Nat : g[<<i, x>>] = x + (IF i - 1 \in bits THEN Pow2[i - 1] ELSE 0)
  OBVIOUS
<1> HIDE DEF g
<1>2. \A i \in 1 .. LongBits, x \in Nat : g[<<i, x>>] \in Nat
  <2> TAKE i \in 1 .. LongBits, x \in Nat
  <2>1. i - 1 \in Nat
    BY WidthTypes
  <2>2. Pow2[i - 1] \in Nat
    BY <2>1, PowerType
  <2> QED BY <1>1, <2>2
<1>3. PICK f \in [0 .. LongBits -> Nat] : Climbs(f, g, 0, LongBits)
  BY <1>2, WidthTypes, RecursionExists DEF Climbed
<1>4. ASSUME NEW k \in 0 .. LongBits
      PROVE  f[k] = IF k = 0 THEN 0 ELSE f[k - 1] + (IF k - 1 \in bits THEN Pow2[k - 1] ELSE 0)
  <2>1. CASE k = 0
    BY <1>3, <2>1 DEF Climbs
  <2>2. CASE k # 0
    <3>1. k \in 1 .. LongBits /\ k - 1 \in 0 .. LongBits
      BY <2>2, WidthTypes
    <3>2. f[k] = g[<<k, f[k - 1]>>] /\ f[k - 1] \in Nat
      BY <1>3, <3>1 DEF Climbs
    <3> QED BY <1>1, <2>2, <3>1, <3>2
  <2> QED BY <2>1, <2>2
<1>5. SumsBits(f, bits)
  <2>1. f = [k \in 0 .. LongBits |-> f[k]]
    OBVIOUS
  <2> QED BY <1>4, <2>1 DEF SumsBits
<1> DEFINE c == CHOOSE h : SumsBits(h, bits)
<1>6. FromBits(bits) = c[LongBits]
  BY DEF FromBits, SumsBits
<1>7. SumsBits(c, bits)
  BY <1>5
<1> HIDE DEF c
<1>8. \A k \in 0 .. LongBits : c[k] = f[k]
  <2> DEFINE T == {k \in 0 .. LongBits : c[k] = f[k]}
  <2>0. \A k \in 0 .. LongBits : /\ c[k] = IF k = 0 THEN 0 ELSE c[k - 1] + (IF k - 1 \in bits THEN Pow2[k - 1] ELSE 0)
                                 /\ f[k] = IF k = 0 THEN 0 ELSE f[k - 1] + (IF k - 1 \in bits THEN Pow2[k - 1] ELSE 0)
    BY <1>4, <1>7 DEF SumsBits
  <2>1. 0 \in T
    BY <2>0, WidthTypes
  <2>2. ASSUME NEW k \in 1 .. LongBits, k - 1 \in T PROVE k \in T
    BY <2>0, <2>2
  <2>3. T = 0 .. LongBits
    <3>1. T \in SUBSET (0 .. LongBits)
      OBVIOUS
    <3> HIDE DEF T
    <3> QED BY <2>1, <2>2, <3>1, WidthTypes, PassesOn
  <2> QED BY <2>3
<1> QED BY <1>3, <1>5, <1>6, <1>8, WidthTypes

LEMMA FromBitsType == ASSUME NEW bits PROVE FromBits(bits) \in Nat
BY FromBitsSums, WidthTypes

LEMMA BitwiseVals == ASSUME NEW v \in Vals, NEW w \in Vals, NEW n \in Int PROVE AllVals(Bitwise2(v, w, n))
<1>1. Val_CreateInt(n) \in Vals
  BY IntVal
<1>2. CASE Val_CheckResolved2(v, w)
  BY <1>2, NoVal, GivesVals DEF Bitwise2
<1>3. CASE ~Val_CheckResolved2(v, w) /\ (IsReal(v) \/ IsReal(w))
  BY <1>3, ValParts, OneVal, GivesVals DEF Bitwise2
<1>4. CASE ~Val_CheckResolved2(v, w) /\ ~(IsReal(v) \/ IsReal(w))
  BY <1>1, <1>4, GivesVals DEF Bitwise2
<1> QED BY <1>2, <1>3, <1>4

LEMMA ShiftVals == ASSUME NEW v \in Vals, NEW w \in Vals PROVE AllVals(Val_Lsl(v, w)) /\ AllVals(Val_Lsr(v, w))
<1>1. PICK n \in Nat : n = w.q[1] % LongBits
  BY ValParts, WidthTypes, DivMod
<1>2. PICK p \in Nat \ {0} : p = Pow2[n]
  BY PowerType
<1>3. v.q[1] * p \in Int /\ v.q[1] \div p \in Int
  BY ValParts, DivMod
<1> QED BY <1>1, <1>2, <1>3, BitwiseVals DEF Val_Lsl, Val_Lsr

LEMMA Apply2Vals ==
  ASSUME NEW o \in Binary, NEW v \in Vals, NEW w \in Vals, NEW pass
  PROVE  AllVals(Apply2(o, v, w, pass))
<1>1. CASE o = "&"
  BY <1>1, FromBitsType, BitwiseVals DEF Apply2, Val_And
<1>2. CASE o = "|"
  BY <1>2, FromBitsType, BitwiseVals DEF Apply2, Val_Or, Or
<1>3. CASE o = "^"
  BY <1>3, FromBitsType, BitwiseVals DEF Apply2, Val_Xor
<1>4. CASE o = "<<"
  BY <1>4, ShiftVals DEF Apply2
<1>5. CASE o = ">>"
  BY <1>5, ShiftVals DEF Apply2
<1>6. CASE o = "+"
  BY <1>6, AddVals DEF Apply2
<1>7. CASE o = "-"
  BY <1>7, AddVals, NegVals DEF Apply2
<1>8. CASE o = "*"
  BY <1>8, MulVals DEF Apply2
<1>9. CASE o = "/"
  BY <1>9, DivVals DEF Apply2
<1> QED BY <1>1, <1>2, <1>3, <1>4, <1>5, <1>6, <1>7, <1>8, <1>9 DEF Binary

LEMMA CastVals ==
  ASSUME NEW v \in Vals
  PROVE  AllVals(Val_CastToInt(v)) /\ AllVals(Val_CastToFloat(v)) /\ AllVals(Val_CastToFract(v))
<1>1. AllVals(Val_CastToInt(v))
  <2>1. CASE Val_CheckResolved(v)
    BY <2>1, LeftoverVals DEF Val_CastToInt, Types
  <2>2. CASE ~Val_CheckResolved(v) /\ IsReal(v)
    <3>1. IntOf(v.q) \in Int
      <4>1. PICK t \in Int : t = Trunc(v.q)
        <5>1. PICK a \in Int, d \in Nat \ {0} : v.q[1] = a /\ v.q[2] = d
          BY ValParts
        <5>2. Abs(a) \div d \in Int /\ a \div d \in Int
          BY DivMod, AbsIs
        <5> QED BY <5>1, <5>2 DEF Trunc
      <4>2. PICK h \in Nat : h = Pow2[IntBits - 1]
        BY WidthTypes, PowerHalf
      <4> QED BY <4>1, <4>2 DEF IntOf
    <3>2. CastToInt(v) \in Vals
      BY <2>2, <3>1, IntVal DEF CastToInt
    <3> QED BY <2>2, <3>2, GivesVals DEF Val_CastToInt
  <2>3. CASE ~Val_CheckResolved(v) /\ ~IsReal(v)
    BY <2>3, GivesVals DEF Val_CastToInt, CastToInt
  <2> QED BY <2>1, <2>2, <2>3
<1>2. ASSUME NEW type \in {"kFloat", "kFract"} PROVE CastToReal(v, type) \in Vals
  BY ValParts, RealVal DEF CastToReal, Types
<1>3. CASE Val_CheckResolved(v)
  BY <1>1, <1>3, LeftoverVals DEF Val_CastToFloat, Val_CastToFract, Types
<1>4. CASE ~Val_CheckResolved(v)
  <2>1. CastToReal(v, "kFloat") \in Vals /\ CastToReal(v, "kFract") \in Vals
    BY <1>2
  <2> QED BY <1>1, <1>4, <2>1, GivesVals DEF Val_CastToFloat, Val_CastToFract
<1> QED BY <1>3, <1>4

LEMMA NotVals == ASSUME NEW v \in Vals PROVE Val_Not(v) \in Vals /\ AllVals(Val_BinNot(v))
<1>1. Val_Not(v) \in Vals
  BY NoVal, OneVal, ValParts DEF Val_Not
<1>2. CASE Val_CheckResolved(v)
  BY <1>1, <1>2, NoVal, GivesVals DEF Val_BinNot
<1>3. CASE ~Val_CheckResolved(v) /\ IsReal(v)
  BY <1>1, <1>3, OneVal, ValParts, GivesVals DEF Val_BinNot
<1>4. CASE ~Val_CheckResolved(v) /\ ~IsReal(v)
  <2>1. Pow2[LongBits] \in Nat
    BY WidthTypes, PowerType
  <2>2. Pow2[LongBits] - 1 - v.q[1] \in Int
    BY <2>1, ValParts
  <2> QED BY <1>1, <1>4, <2>2, IntVal, GivesVals DEF Val_BinNot
<1> QED BY <1>2, <1>3, <1>4

LEMMA Apply1Vals == ASSUME NEW o \in Unary, NEW v \in Vals PROVE AllVals(Apply1(o, v))
<1>1. CASE o = "neg"
  BY <1>1, NegVals, GivesVals DEF Apply1
<1>2. CASE o = "!"
  BY <1>2, NotVals, GivesVals DEF Apply1
<1>3. CASE o = "~"
  BY <1>3, NotVals DEF Apply1
<1>4. CASE o \in {"fract", "float", "int"}
  BY <1>4, CastVals DEF Apply1
<1> QED BY <1>1, <1>2, <1>3, <1>4 DEF Unary

----------------------------------------------------------------------------
(* Constants.                                                              *)

BinDigits(f, digits, n) == f = [i \in 0 .. n |-> IF i = 0 THEN 0 ELSE 2 * f[i - 1] + digits[i]]

LEMMA BinIs ==
  ASSUME NEW digits \in Seq({0, 1})
  PROVE  \E n \in Nat : \E f : /\ n <= Len(digits) /\ (Len(digits) < WordBits => n = Len(digits))
                                /\ BinDigits(f, digits, n) /\ atobin(digits).int = AsInt(f[n])
<1>0. PICK l \in Nat : l = Len(digits)
  OBVIOUS
<1>1. PICK n \in Nat : n = Min({l, WordBits}) /\ n <= l /\ (l < WordBits => n = l)
  <2>1. PICK n \in {l, WordBits} : \A y \in {l, WordBits} : n <= y
    BY WidthTypes
  <2>2. Min({l, WordBits}) = n
    BY <2>1, WidthTypes DEF Min
  <2> QED BY <2>1, <2>2, WidthTypes
<1> DEFINE g == [p \in (1 .. n) \X Nat |-> 2 * p[2] + digits[p[1]]]
<1>2. \A i \in 1 .. n, x \in Nat : g[<<i, x>>] = 2 * x + digits[i] /\ digits[i] \in Nat
  BY <1>0, <1>1
<1> HIDE DEF g
<1>3. \A i \in 1 .. n, x \in Nat : g[<<i, x>>] \in Nat
  <2> TAKE i \in 1 .. n, x \in Nat
  <2> QED BY <1>2
<1>4. PICK f \in [0 .. n -> Nat] : Climbs(f, g, 0, n)
  BY <1>3, RecursionExists DEF Climbed
<1>5. BinDigits(f, digits, n)
  <2>1. f = [i \in 0 .. n |-> f[i]]
    OBVIOUS
  <2>2. \A i \in 0 .. n : f[i] = IF i = 0 THEN 0 ELSE 2 * f[i - 1] + digits[i]
    <3> TAKE i \in 0 .. n
    <3>1. CASE i = 0
      BY <1>4, <3>1 DEF Climbs
    <3>2. CASE i # 0
      <4>1. i \in 1 .. n /\ i - 1 \in 0 .. n
        BY <3>2
      <4>2. f[i] = g[<<i, f[i - 1]>>] /\ f[i - 1] \in Nat
        BY <1>4, <4>1 DEF Climbs
      <4> QED BY <1>2, <3>2, <4>1, <4>2
    <3> QED BY <3>1, <3>2
  <2> QED BY <2>1, <2>2 DEF BinDigits
<1> DEFINE c == CHOOSE h : BinDigits(h, digits, n)
<1>6. BinDigits(c, digits, n)
  BY <1>5
<1>7. atobin(digits).int = AsInt(c[n])
  BY <1>0, <1>1 DEF atobin, BinDigits
<1> HIDE DEF c
<1> QED BY <1>0, <1>1, <1>6, <1>7

LEMMA BinDigitsOf ==
  ASSUME NEW digits \in Seq({0, 1}), NEW n \in Nat, n <= Len(digits), NEW f, BinDigits(f, digits, n)
  PROVE  \A i \in 0 .. n : f[i] \in Nat /\ f[i] < Pow2[i]
<1>0. \A i \in 0 .. n : f[i] = IF i = 0 THEN 0 ELSE 2 * f[i - 1] + digits[i]
  BY DEF BinDigits
<1> DEFINE T == {i \in 0 .. n : f[i] \in Nat /\ f[i] < Pow2[i]}
<1>1. 0 \in T
  BY <1>0, Powers
<1>2. ASSUME NEW i \in 1 .. n, i - 1 \in T PROVE i \in T
  <2>1. f[i] = 2 * f[i - 1] + digits[i] /\ digits[i] \in {0, 1} /\ i \in Nat \ {0}
    BY <1>0
  <2>2. PICK x \in Nat : x = f[i - 1] /\ x < Pow2[i - 1]
    BY <1>2
  <2>3. PICK p \in Nat \ {0} : p = Pow2[i - 1] /\ Pow2[i] = 2 * p
    BY <2>1, PowerHalf
  <2>4. PICK d \in {0, 1} : d = digits[i]
    BY <2>1
  <2>5. f[i] = 2 * x + d
    BY <2>1, <2>2, <2>4
  <2>6. 2 * x + d \in Nat /\ 2 * x + d < 2 * p
    <3>1. x < p
      BY <2>2, <2>3
    <3> QED BY <3>1
  <2> QED BY <2>3, <2>5, <2>6
<1>3. T = 0 .. n
  <2>1. T \in SUBSET (0 .. n)
    OBVIOUS
  <2> HIDE DEF T
  <2> QED BY <1>1, <1>2, <2>1, PassesOn
<1> QED BY <1>3

Taken(chars) == IF Len(chars) > 3 THEN SubSeq(chars, 1, 3) ELSE chars
NextChar(x, c) == AsInt(Or(Long(x * Pow2[CharBits]), Long(Signed(c, CharBits))))
CharCodes(f, chars) == f = [i \in 0 .. Len(chars) |-> IF i = 0 THEN 0 ELSE NextChar(f[i - 1], chars[i])]
Codes == Seq(0 .. Pow2[CharBits] - 1)

LEMMA NextCharType == ASSUME NEW x, NEW c PROVE NextChar(x, c) \in Int
<1>1. Or(Long(x * Pow2[CharBits]), Long(Signed(c, CharBits))) \in Int
  BY FromBitsType DEF Or
<1> QED BY <1>1, SignedOf, WidthTypes DEF NextChar, AsInt

LEMMA CharsIs ==
  ASSUME NEW chars \in Codes
  PROVE  /\ Taken(chars) \in Codes /\ (Len(chars) <= 3 => Taken(chars) = chars)
         /\ \E f : CharCodes(f, Taken(chars)) /\ StrToInt(chars) = f[Len(Taken(chars))]
<1> DEFINE S == 0 .. Pow2[CharBits] - 1
           s == Taken(chars)
<1>1. s \in Seq(S) /\ (Len(chars) <= 3 => s = chars)
  <2>1. chars \in Seq(S)
    BY DEF Codes
  <2> HIDE DEF S
  <2>2. Len(chars) \in Nat /\ (Len(chars) > 3 => SubSeq(chars, 1, 3) \in Seq(S))
    BY <2>1
  <2> QED BY <2>1, <2>2 DEF Taken
<1>2. PICK n \in Nat : n = Len(s)
  <2> HIDE DEF S, s
  <2> QED BY <1>1
<1> DEFINE g == [p \in (1 .. n) \X Int |-> NextChar(p[2], s[p[1]])]
<1>3. \A i \in 1 .. n, x \in Int : g[<<i, x>>] = NextChar(x, s[i])
  OBVIOUS
<1> HIDE DEF g, s
<1>4. \A i \in 1 .. n, x \in Int : g[<<i, x>>] \in Int
  <2> TAKE i \in 1 .. n, x \in Int
  <2>1. NextChar(x, s[i]) \in Int
    BY NextCharType
  <2> QED BY <1>3, <2>1
<1>5. PICK f \in [0 .. n -> Int] : Climbs(f, g, 0, n)
  <2>1. 0 \in Int
    OBVIOUS
  <2>2. Climbed(g, 0, n, Int)
    BY <1>4, <2>1, RecursionExists
  <2> QED BY <2>2 DEF Climbed
<1>6. CharCodes(f, s)
  <2>1. f = [i \in 0 .. n |-> f[i]]
    OBVIOUS
  <2>2. \A i \in 0 .. n : f[i] = IF i = 0 THEN 0 ELSE NextChar(f[i - 1], s[i])
    <3> TAKE i \in 0 .. n
    <3>1. CASE i = 0
      BY <1>5, <3>1 DEF Climbs
    <3>2. CASE i # 0
      <4>1. i \in 1 .. n /\ i - 1 \in 0 .. n
        BY <3>2
      <4>2. f[i] = g[<<i, f[i - 1]>>] /\ f[i - 1] \in Int
        BY <1>5, <4>1 DEF Climbs
      <4> QED BY <1>3, <3>2, <4>1, <4>2
    <3> QED BY <3>1, <3>2
  <2> QED BY <1>2, <2>1, <2>2 DEF CharCodes
<1> DEFINE c == CHOOSE h : CharCodes(h, s)
<1>7. CharCodes(c, s)
  BY <1>6
<1>8. StrToInt(chars) = c[Len(s)]
  BY DEF StrToInt, CharCodes, NextChar, Taken, s
<1> HIDE DEF c
<1> QED BY <1>1, <1>7, <1>8 DEF s, Codes

LEMMA CharsType == ASSUME NEW chars \in Codes PROVE StrToInt(chars) \in Int
<1> DEFINE s == Taken(chars)
<1>1. PICK f : CharCodes(f, s) /\ StrToInt(chars) = f[Len(s)]
  BY CharsIs
<1>2. PICK n \in Nat : n = Len(s)
  BY CharsIs DEF Codes
<1>3. f[n] = IF n = 0 THEN 0 ELSE NextChar(f[n - 1], s[n])
  <2> HIDE DEF s
  <2> QED BY <1>1, <1>2 DEF CharCodes
<1> QED BY <1>1, <1>2, <1>3, NextCharType

LEMMA ValueVals == Value \subseteq Vals /\ \A v \in Value : v.type \in Resolved
<1>1. ASSUME NEW v \in Value PROVE v \in Vals /\ v.type \in Resolved
  <2>1. CASE v \in [type : {"kInt"}, q : (0 .. Pow2[LongBits] - 1) \X {1}]
    <3>1. PICK n \in Nat : v = [type |-> "kInt", q |-> <<n, 1>>] /\ n < Pow2[LongBits]
      <4>1. Pow2[LongBits] \in Nat
        BY WidthTypes, PowerType
      <4>2. PICK n \in 0 .. Pow2[LongBits] - 1 : v = [type |-> "kInt", q |-> <<n, 1>>]
        BY <2>1
      <4> QED BY <4>1, <4>2
    <3>2. <<n, 1>> \in Numbers /\ Whole(<<n, 1>>)
      BY <3>1, IntNumber DEF Whole
    <3> QED BY <3>1, <3>2 DEF Vals, Types, Resolved
  <2>2. CASE v \in [type : {"kFract", "kFloat"}, q : {q \in Int \X (Nat \ {0}) : GCD[<<Abs(q[1]), q[2]>>] = 1}]
    <3>1. PICK type \in {"kFract", "kFloat"}, q \in Int \X (Nat \ {0}) : v = [type |-> type, q |-> q] /\ GCD[<<Abs(q[1]), q[2]>>] = 1
      BY <2>2
    <3>2. q \in Numbers
      BY <3>1, LowestGcd, NumberIs
    <3> QED BY <3>1, <3>2 DEF Vals, Types, Resolved
  <2> QED BY <2>1, <2>2 DEF Value
<1> QED BY <1>1

\* The table keeps such values, and an expression leaves them on its stack.
KeptVals == \A a \in DOMAIN slots : slots[a].val \in Vals

LEMMA ReadVals == ASSUME Table, KeptVals, NEW n \in Names PROVE GetSym(n).val \in Vals
<1>1. CASE Defined(n)
  <2>1. FindSymbol(n) \in DOMAIN slots
    BY <1>1, GetSymValue
  <2> QED BY <1>1, <2>1 DEF GetSym, KeptVals
<1>2. CASE ~Defined(n)
  BY <1>2, NoVal DEF GetSym
<1> QED BY <1>1, <1>2

LEMMA LeafVals ==
  ASSUME Table, KeptVals, pc \in Nat, NEW t \in Token, t.k # "op"
  PROVE  AllVals(Leaf(t))
<1>1. t.k \in {"num", "sym", "bin", "chars", "here"}
  BY DEF Token
<1>2. CASE t.k = "num"
  <2>1. t.num \in Vals
    BY <1>2, ValueVals DEF Token
  <2> QED BY <1>2, <2>1, GivesVals DEF Leaf
<1>3. CASE t.k = "sym"
  <2>1. PICK n \in Names : n = t.name
    BY <1>3, SymbolName
  <2>2. Leaf(t) = {GetSym(n)}
    BY <1>3, <2>1 DEF Leaf
  <2> QED BY <2>2, ReadVals DEF AllVals
<1>4. CASE t.k = "bin"
  <2>1. t.digits \in Seq({0, 1})
    BY <1>4 DEF Token
  <2>2. PICK n \in Nat : \E f : n <= Len(t.digits) /\ BinDigits(f, t.digits, n) /\ atobin(t.digits).int = AsInt(f[n])
    BY <2>1, BinIs
  <2>3. PICK f : n <= Len(t.digits) /\ BinDigits(f, t.digits, n) /\ atobin(t.digits).int = AsInt(f[n])
    BY <2>2
  <2>4. f[n] \in Nat
    <3>1. n \in 0 .. n
      BY <2>3
    <3> QED BY <2>1, <2>3, <3>1, BinDigitsOf
  <2>5. AsInt(f[n]) \in Int
    BY <2>4, SignedOf, WidthTypes DEF AsInt
  <2>6. Val_CreateInt(atobin(t.digits).int) \in Vals
    BY <2>3, <2>5, IntVal
  <2> QED BY <1>4, <2>6, GivesVals DEF Leaf
<1>5. CASE t.k = "chars"
  <2>1. t.chars \in Codes
    BY <1>5 DEF Token, Codes
  <2>2. Val_CreateInt(StrToInt(t.chars)) \in Vals
    BY <2>1, CharsType, IntVal
  <2> QED BY <1>5, <2>2, GivesVals DEF Leaf
<1>6. CASE t.k = "here"
  <2>1. Val_CreateInt(pc) \in Vals
    BY IntVal
  <2> QED BY <1>6, <2>1, GivesVals DEF Leaf, GetCurrentPC
<1> QED BY <1>1, <1>2, <1>3, <1>4, <1>5, <1>6

LEMMA ReduceVals ==
  ASSUME Table, KeptVals, pc \in Nat, NEW t \in Token,
         NEW s, s.stack \in Seq(Vals), Arity(t) <= Len(s.stack), NEW e \in Reduce(s, t)
  PROVE  e.stack \in Seq(Vals) /\ Len(e.stack) = Len(s.stack) + 1 - Arity(t)
<1>1. t.k = "op" => t.op \in Binary \cup Unary
  BY DEF Token
<1>2. PICK n \in Nat : n = Len(s.stack)
  OBVIOUS
<1>3. ASSUME NEW o, o.val \in Vals, NEW k \in 0 .. n, e.stack = Append(SubSeq(s.stack, 1, k), o.val)
      PROVE  e.stack \in Seq(Vals) /\ Len(e.stack) = k + 1
  <2>1. SubSeq(s.stack, 1, k) \in Seq(Vals) /\ Len(SubSeq(s.stack, 1, k)) = k
    BY <1>2
  <2> QED BY <1>3, <2>1
<1>4. CASE t.k # "op"
  <2>1. PICK o \in Leaf(t) : e = [stack |-> Append(s.stack, o.val), err |-> s.err \/ o.err]
    BY <1>4 DEF Reduce
  <2>2. o.val \in Vals
    BY <1>4, <2>1, LeafVals DEF AllVals
  <2>3. e.stack = Append(s.stack, o.val) /\ Arity(t) = 0
    BY <1>4, <2>1 DEF Arity
  <2> QED BY <2>2, <2>3
<1>5. CASE t.k = "op" /\ t.op \in Binary
  <2>0. Arity(t) = 2 /\ n >= 2
    BY <1>2, <1>5 DEF Arity
  <2>1. PICK o \in Apply2(t.op, s.stack[n - 1], s.stack[n], g_passNum + 1) :
           e = [stack |-> Append(SubSeq(s.stack, 1, n - 2), o.val), err |-> s.err \/ o.err]
    BY <1>2, <1>5 DEF Reduce
  <2>2. s.stack[n - 1] \in Vals /\ s.stack[n] \in Vals
    BY <1>2, <2>0
  <2>3. o.val \in Vals
    BY <1>5, <2>1, <2>2, Apply2Vals DEF AllVals
  <2>4. e.stack = Append(SubSeq(s.stack, 1, n - 2), o.val) /\ n - 2 \in 0 .. n
    BY <2>0, <2>1
  <2>5. e.stack \in Seq(Vals) /\ Len(e.stack) = n - 2 + 1
    BY <1>3, <2>3, <2>4
  <2> QED BY <1>2, <2>0, <2>5
<1>6. CASE t.k = "op" /\ t.op \notin Binary
  <2>0. Arity(t) = 1 /\ n >= 1 /\ t.op \in Unary
    BY <1>1, <1>2, <1>6 DEF Arity
  <2>1. PICK o \in Apply1(t.op, s.stack[n]) :
           e = [stack |-> Append(SubSeq(s.stack, 1, n - 1), o.val), err |-> s.err \/ o.err]
    BY <1>2, <1>6 DEF Reduce
  <2>2. s.stack[n] \in Vals
    BY <1>2, <2>0
  <2>3. o.val \in Vals
    BY <2>0, <2>1, <2>2, Apply1Vals DEF AllVals
  <2>4. e.stack = Append(SubSeq(s.stack, 1, n - 1), o.val) /\ n - 1 \in 0 .. n
    BY <2>0, <2>1
  <2>5. e.stack \in Seq(Vals) /\ Len(e.stack) = n - 1 + 1
    BY <1>3, <2>3, <2>4
  <2> QED BY <1>2, <2>0, <2>5
<1> QED BY <1>4, <1>5, <1>6

LEMMA EvaluateVals ==
  ASSUME Table, KeptVals, pc \in Nat, NEW exps, NEW ts \in Seq(Token), ts = FlattenSeq(exps), Reducible(ts),
         NEW e \in Evaluate(exps)
  PROVE  e.stack \in Seq(Vals) /\ Len(e.stack) = Depth(ts, Len(ts))
<1>1. PICK n : n = Len(ts)
  OBVIOUS
<1>2. n \in Nat /\ DOMAIN ts = 1 .. n
  BY <1>1
<1>3. PICK f : Run(ts, n, f) /\ f[n] = e
  BY <1>1, EvaluateRuns DEF RunsTo
<1> DEFINE Good(i) == f[i].stack \in Seq(Vals) /\ Len(f[i].stack) = Depth(ts, i)
           T == {i \in 0 .. n : Good(i)}
<1>4. 0 \in T
  <2>1. f[0].stack = <<>>
    BY <1>3 DEF Run, Start
  <2>2. <<>> \in Seq(Vals) /\ Len(<<>>) = 0
    OBVIOUS
  <2>3. Depth(ts, 0) = 0
    <3> HIDE DEF Good, T
    <3> QED BY DepthNone
  <2>4. f[0].stack \in Seq(Vals) /\ Len(f[0].stack) = Depth(ts, 0) /\ 0 \in 0 .. n
    <3> HIDE DEF Good, T
    <3> QED BY <1>2, <2>1, <2>2, <2>3
  <2> QED BY <2>4
<1>5. ASSUME NEW i \in 1 .. n, i - 1 \in T PROVE i \in T
  <2>1. PICK k \in 0 .. n : k = i - 1 /\ i = k + 1
    BY <1>2
  <2>2. PICK t \in Token : t = ts[i]
    BY <1>1
  <2>3. f[i] \in Reduce(f[k], t) /\ f[k].stack \in Seq(Vals) /\ Len(f[k].stack) = Depth(ts, k)
    BY <1>3, <1>5, <2>1, <2>2 DEF Run
  <2>4. Arity(t) <= Len(f[k].stack)
    BY <1>2, <2>1, <2>2, <2>3 DEF Reducible
  <2>5. f[i].stack \in Seq(Vals) /\ Len(f[i].stack) = Len(f[k].stack) + 1 - Arity(t)
    <3> HIDE DEF Good, T
    <3> QED BY <2>3, <2>4, ReduceVals
  <2>6. Depth(ts, i) = Depth(ts, k) + 1 - Arity(ts[i])
    <3>1. k \in Nat /\ i = k + 1
      BY <1>2, <2>1
    <3> HIDE DEF Good, T
    <3> QED BY <3>1, DepthNext
  <2> QED BY <2>2, <2>3, <2>5, <2>6
<1>6. T = 0 .. n
  <2>1. T \in SUBSET (0 .. n)
    OBVIOUS
  <2> HIDE DEF T
  <2> QED BY <1>2, <1>4, <1>5, <2>1, PassesOn
<1>7. Good(n)
  BY <1>2, <1>6
<1> QED BY <1>1, <1>3, <1>7

----------------------------------------------------------------------------
(* Comparisons.                                                            *)

LEMMA LessTotal ==
  ASSUME NEW p \in Numbers, NEW q \in Numbers
  PROVE  /\ Less(p, q) \/ Less(q, p) \/ p = q
         /\ ~(Less(p, q) /\ Less(q, p)) /\ ~Less(p, p)
<1>1. PICK a, b, c, d : a = p[1] /\ b = p[2] /\ c = q[1] /\ d = q[2]
  OBVIOUS
<1>2. a \in Int /\ b \in Int /\ c \in Int /\ d \in Int
  BY <1>1, NumberParts
<1>3. Less(p, q) <=> a * d < c * b
  BY <1>1 DEF Less
<1>4. Less(q, p) <=> c * b < a * d
  BY <1>1 DEF Less
<1>5. a * d = c * b => p = q
  BY <1>1, NumberIs, LowestUnique
<1>6. ~Less(p, p)
  BY <1>1, <1>2 DEF Less
<1>7. PICK x \in Int, y \in Int : x = a * d /\ y = c * b
  BY <1>2
<1> QED BY <1>3, <1>4, <1>5, <1>6, <1>7

LEMMA LessInts ==
  ASSUME NEW m \in Int, NEW n \in Int
  PROVE  (Less(<<m, 1>>, <<n, 1>>) <=> m < n) /\ (<<m, 1>> = <<n, 1>> <=> m = n)
BY DEF Less

\* The answer is that of two numbers.
LEMMA AnswersHold ==
  ASSUME NEW cond \in Comparisons, NEW v, NEW w, NEW p \in Numbers, NEW q \in Numbers,
         Val_Eq(v, w) <=> p = q, Val_Ls(v, w) <=> Less(p, q), Val_Ls(w, v) <=> Less(q, p)
  PROVE  EvalCondition(cond, v, w) <=> Holds(cond, p, q)
<1>1. /\ Less(p, q) \/ Less(q, p) \/ p = q
      /\ ~(Less(p, q) /\ Less(q, p)) /\ ~Less(p, p) /\ ~Less(q, q)
  BY LessTotal
<1>2. (p = q => ~Less(p, q) /\ ~Less(q, p)) /\ (p = q <=> q = p)
  BY <1>1
<1>a. CASE cond = "="
  BY <1>a DEF EvalCondition, Holds
<1>b. CASE cond = "!="
  BY <1>b DEF EvalCondition, Holds
<1>c. CASE cond = "<"
  BY <1>c DEF EvalCondition, Holds
<1>d. CASE cond = ">"
  BY <1>d DEF EvalCondition, Holds
<1>e. CASE cond = "<="
  BY <1>1, <1>2, <1>e DEF EvalCondition, Holds
<1>f. CASE cond = ">="
  BY <1>1, <1>2, <1>f DEF EvalCondition, Holds
<1> QED BY <1>a, <1>b, <1>c, <1>d, <1>e, <1>f DEF Comparisons

\* The two operands of an IF that compares numbers, and the one of an IFcc.
LEMMA IntParts ==
  ASSUME NEW v \in Vals, ~IsReal(v), ~Val_CheckResolved(v), WithinInt(v)
  PROVE  \E m \in Nat, s \in Int :
            /\ v.q = <<m, 1>> /\ v.type = "kInt" /\ Number(v) = <<s, 1>>
            /\ AsInt(m) = s /\ Long(s) = m
            /\ (s >= 0 => m = s) /\ (s < 0 => m = s + Pow2[LongBits])
<1>1. v.type = "kInt" /\ v.q = <<v.q[1], 1>> /\ v.q[1] \in Nat /\ v.q[1] < Pow2[LongBits]
  BY WholeParts
<1>2. PICK m \in Nat : m = v.q[1]
  BY <1>1
<1>3. PICK s \in Int : s = Signed(m, LongBits)
  BY SignedOf, WidthTypes
<1>4. v.q = <<m, 1>> /\ m < Pow2[LongBits]
  BY <1>1, <1>2
<1>5. Number(v) = <<s, 1>>
  BY <1>2, <1>3 DEF Number
<1>6. s \in -Pow2[IntBits - 1] .. Pow2[IntBits - 1] - 1
  <2>1. Number(v)[1] = s
    BY <1>5
  <2> QED BY <2>1 DEF WithinInt
<1>7. AsInt(m) = s /\ Long(s) = m /\ (s >= 0 => m = s) /\ (s < 0 => m = s + Pow2[LongBits])
  BY <1>3, <1>4, <1>6, WithinIs
<1> QED BY <1>1, <1>4, <1>5, <1>7

LEMMA CompareExact ==
  ASSUME NEW cond \in Comparisons, NEW v \in Vals, NEW w \in Vals, ~Val_CheckResolved2(v, w), Comparable(v, w)
  PROVE  EvalCondition(cond, v, w) <=> Holds(cond, Number(v), Number(w))
<1>1. CASE IsReal(v) /\ IsReal(w)
  <2>1. PICK p \in Numbers, q \in Numbers : p = v.q /\ q = w.q
    BY ValParts
  <2>2. Number(v) = p /\ Number(w) = q
    BY <1>1, <2>1 DEF Number
  <2>3. CastToReal(w, v.type).q = q /\ CastToReal(v, w.type).q = p
    BY <2>1 DEF CastToReal, Val
  <2>4. Rhs(v, w) = q /\ Rhs(w, v) = p
    BY <1>1, <2>3 DEF Rhs
  <2>5. (Val_Eq(v, w) <=> p = q) /\ (Val_Ls(v, w) <=> Less(p, q)) /\ (Val_Ls(w, v) <=> Less(q, p))
    BY <2>1, <2>4 DEF Val_Eq, Val_Ls
  <2> QED BY <2>2, <2>5, AnswersHold
<1>2. CASE ~(IsReal(v) /\ IsReal(w))
  <2>1. ~IsReal(v) /\ ~IsReal(w) /\ WithinInt(v) /\ WithinInt(w) /\ (Number(v)[1] < 0 <=> Number(w)[1] < 0)
    BY <1>2 DEF Comparable
  <2>2. ~Val_CheckResolved(v) /\ ~Val_CheckResolved(w)
    BY DEF Val_CheckResolved2
  <2>3. PICK m \in Nat, s \in Int :
            /\ v.q = <<m, 1>> /\ v.type = "kInt" /\ Number(v) = <<s, 1>>
            /\ AsInt(m) = s /\ Long(s) = m
            /\ (s >= 0 => m = s) /\ (s < 0 => m = s + Pow2[LongBits])
    BY <2>1, <2>2, IntParts
  <2>4. PICK n \in Nat, t \in Int :
            /\ w.q = <<n, 1>> /\ w.type = "kInt" /\ Number(w) = <<t, 1>>
            /\ AsInt(n) = t /\ Long(t) = n
            /\ (t >= 0 => n = t) /\ (t < 0 => n = t + Pow2[LongBits])
    BY <2>1, <2>2, IntParts
  <2>5. s < 0 <=> t < 0
    <3>1. Number(v)[1] = s /\ Number(w)[1] = t
      BY <2>3, <2>4
    <3> QED BY <2>1, <3>1
  <2>6. Rhs(v, w) = <<n, 1>> /\ Rhs(w, v) = <<m, 1>>
    <3>1. CastToInt(v) = v /\ CastToInt(w) = w
      BY <2>1 DEF CastToInt
    <3>2. v.q[1] = m /\ w.q[1] = n
      BY <2>3, <2>4
    <3> QED BY <2>1, <2>3, <2>4, <3>1, <3>2 DEF Rhs
  <2>7. PICK l \in Nat \ {0} : l = Pow2[LongBits]
    BY WidthTypes, PowerType
  <2>8. (m = n <=> s = t) /\ (m < n <=> s < t) /\ (n < m <=> t < s)
    BY <2>3, <2>4, <2>5, <2>7
  <2>9. (<<m, 1>> = <<n, 1>> <=> <<s, 1>> = <<t, 1>>)
    BY <2>8
  <2>10. /\ Less(<<m, 1>>, <<n, 1>>) <=> Less(<<s, 1>>, <<t, 1>>)
         /\ Less(<<n, 1>>, <<m, 1>>) <=> Less(<<t, 1>>, <<s, 1>>)
    BY <2>8, LessInts
  <2>11. PICK p \in Numbers, q \in Numbers : p = <<s, 1>> /\ q = <<t, 1>>
    BY IntNumber
  <2>12. (Val_Eq(v, w) <=> p = q) /\ (Val_Ls(v, w) <=> Less(p, q)) /\ (Val_Ls(w, v) <=> Less(q, p))
    BY <2>3, <2>4, <2>6, <2>9, <2>10, <2>11 DEF Val_Eq, Val_Ls
  <2> QED BY <2>3, <2>4, <2>11, <2>12, AnswersHold
<1> QED BY <1>1, <1>2

LEMMA SignExact ==
  ASSUME NEW cond \in IfCodes, NEW v \in Vals, ~Val_CheckResolved(v), ~IsReal(v), WithinInt(v)
  PROVE  EvalIfOneArg(cond, Val_GetAsInt(v).int) <=> Holds(cond, Number(v), <<0, 1>>)
<1>1. PICK m \in Nat, s \in Int : v.q = <<m, 1>> /\ v.type = "kInt" /\ Number(v) = <<s, 1>> /\ AsInt(m) = s
  BY IntParts
<1>2. Val_GetAsInt(v).int = s
  <2>1. v.q[1] = m
    BY <1>1
  <2> QED BY <1>1, <2>1 DEF Val_GetAsInt
<1>3. PICK p, q : p = <<s, 1>> /\ q = <<0, 1>>
  OBVIOUS
<1>4. (Less(p, q) <=> s < 0) /\ (Less(q, p) <=> 0 < s) /\ (p = q <=> s = 0)
  BY <1>3, LessInts
<1>5. EvalIfOneArg(cond, s) <=> Holds(cond, p, q)
  <2>a. CASE cond = "ge"
    BY <1>4, <2>a DEF EvalIfOneArg, Holds
  <2>b. CASE cond = "ne"
    BY <1>4, <2>b DEF EvalIfOneArg, Holds
  <2>c. CASE cond = "pl"
    BY <1>4, <2>c DEF EvalIfOneArg, Holds
  <2>d. CASE cond = "gt"
    BY <1>4, <2>d DEF EvalIfOneArg, Holds
  <2>e. CASE cond = "lt"
    BY <1>4, <2>e DEF EvalIfOneArg, Holds
  <2>f. CASE cond = "eq"
    BY <1>4, <2>f DEF EvalIfOneArg, Holds
  <2>g. CASE cond = "le"
    BY <1>4, <2>g DEF EvalIfOneArg, Holds
  <2> QED BY <2>a, <2>b, <2>c, <2>d, <2>e, <2>f, <2>g DEF IfCodes
<1> QED BY <1>1, <1>2, <1>3, <1>5

----------------------------------------------------------------------------
(* The invariant of the values: those of the table, and the answers.       *)

\* An IF compares, and other statements have one expression.
Form(i) == /\ program[i].op = "if" => program[i].cond \in Comparisons
           /\ program[i].op \in {"equ", "set", "dc", "ifcc"} => Depth(TokensAt(i), Len(TokensAt(i))) = 1
Exact(a, cond) ==
  CASE Len(a.vals) = 2 -> Comparable(a.vals[1], a.vals[2]) => (a.answer <=> Holds(cond, Number(a.vals[1]), Number(a.vals[2])))
    [] Len(a.vals) = 1 -> ~IsReal(a.vals[1]) /\ WithinInt(a.vals[1]) => (a.answer <=> Holds(cond, Number(a.vals[1]), <<0, 1>>))
    [] OTHER -> TRUE
VInv == /\ KeptVals /\ \A i \in Lines : Form(i)
        /\ \A a \in answers : Exact(a, program[a.line].cond)

LEMMA KeptSet ==
  ASSUME Table, KeptVals, NEW a, NEW val \in Vals, SymSetValue(a, T_VALUE, val)
  PROVE  KeptVals'
<1>1. slots' = [slots EXCEPT ![a].type = T_VALUE, ![a].val = val]
  BY DEF SymSetValue
<1>2. DOMAIN slots' = DOMAIN slots /\ \A b \in DOMAIN slots : b # a => slots'[b] = slots[b]
  BY <1>1
<1>3. a \in DOMAIN slots => slots'[a].val = val
  <2> SUFFICES ASSUME a \in DOMAIN slots PROVE slots'[a].val = val
    OBVIOUS
  <2> DEFINE s == slots[a]
             m == [s EXCEPT !.type = T_VALUE]
  <2>1. slots'[a] = [m EXCEPT !.val = val]
    BY <1>1
  <2>2. s = [pString |-> s.pString, pNext |-> s.pNext, type |-> s.type, val |-> s.val, mem_space |-> s.mem_space]
    BY DEF Table, Allocated, Filled
  <2>3. m = [pString |-> s.pString, pNext |-> s.pNext, type |-> T_VALUE, val |-> s.val, mem_space |-> s.mem_space]
    <3> HIDE DEF s
    <3> QED BY <2>2
  <2> HIDE DEF m
  <2>4. slots'[a] = [pString |-> s.pString, pNext |-> s.pNext, type |-> T_VALUE, val |-> val, mem_space |-> s.mem_space]
    BY <2>1, <2>3
  <2> HIDE DEF s
  <2> QED BY <2>4
<1> QED BY <1>2, <1>3 DEF KeptVals

LEMMA KeptRetyped ==
  ASSUME Table, KeptVals, NEW a, SymSetValueMacro(a, T_MACRO) \/ SymbolSetMemSpace(a, mem)
  PROVE  KeptVals'
<1>1. \A b \in DOMAIN slots : Filled(slots[b]) /\ slots[b].val \in Vals
  BY DEF Table, Allocated, KeptVals
<1>2. CASE SymSetValueMacro(a, T_MACRO)
  <2>1. slots' = [slots EXCEPT ![a].type = T_MACRO]
    BY <1>2 DEF SymSetValueMacro
  <2> QED BY <1>1, <2>1 DEF KeptVals, Filled
<1>3. CASE SymbolSetMemSpace(a, mem)
  <2>1. slots' = [slots EXCEPT ![a].mem_space = mem]
    BY <1>3 DEF SymbolSetMemSpace
  <2> QED BY <1>1, <2>1 DEF KeptVals, Filled
<1> QED BY <1>2, <1>3

LEMMA KeptAdded ==
  ASSUME Table, KeptVals, NEW name \in Names, NEW type, NEW val \in Vals, NEW mem_space,
         AddSymbol(name, type, val, mem_space)
  PROVE  KeptVals'
<1>1. /\ DOMAIN slots' = DOMAIN slots \cup {NewEntry}
      /\ slots'[NewEntry] = [pString |-> name, pNext |-> Null, type |-> type, val |-> val, mem_space |-> mem_space]
      /\ \A a \in DOMAIN slots : slots'[a].val = slots[a].val
  BY AddedEntry
<1>2. slots'[NewEntry].val = val
  BY <1>1
<1> QED BY <1>1, <1>2 DEF KeptVals

LEMMA KeptSame == ASSUME KeptVals, UNCHANGED tableVars PROVE KeptVals'
BY DEF KeptVals, tableVars

LEMMA FormKept == ASSUME \A i \in Lines : Form(i), UNCHANGED program PROVE (\A i \in Lines : Form(i))' /\ Lines' = Lines
BY DEF Form, Lines, TokensAt

\* The expressions of a line have such values.
LEMMA EvaluateHere ==
  ASSUME IInv, HInv, VInv, Parsing, Current.op \in Evaluated, NEW e \in Evaluate(Current.exps)
  PROVE  e.stack \in Seq(Vals) /\ Len(e.stack) = IF Current.op = "if" THEN 2 ELSE 1
<1> DEFINE ts == TokensAt(line)
<1>1. line \in Lines /\ Current = program[line] /\ line \in Nat \ {0}
  BY DEF Parsing, Lines, Current, IInv, Texts
<1>2. Grammar(line) /\ Table /\ KeptVals /\ pc = PcAt(line) /\ mem \in {P_MEM, L_MEM} /\ Form(line)
  BY <1>1 DEF HInv, Machine, IInv, VInv
<1>3. ts \in Seq(Token) /\ Reducible(ts) /\ Depth(ts, Len(ts)) = IF Current.op = "if" THEN 2 ELSE 1
  BY <1>1, <1>2 DEF Grammar, Form, Evaluated
<1>4. ts = FlattenSeq(Current.exps)
  BY DEF TokensAt, Current
<1>5. pc \in Nat
  BY <1>1, <1>2, PcType
<1> HIDE DEF ts
<1>6. e.stack \in Seq(Vals) /\ Len(e.stack) = Depth(ts, Len(ts))
  BY <1>2, <1>3, <1>4, <1>5, EvaluateVals
<1> QED BY <1>3, <1>6

\* A new answer is exact.
LEMMA AnswerExact ==
  ASSUME VInv, Parsing, NEW vals, NEW answer, Answer(vals, answer), UNCHANGED <<program, tableVars>>,
         NEW cond, cond = Current.cond,
         \A a : a.vals = vals /\ a.answer = answer => Exact(a, cond)
  PROVE  VInv'
<1>1. PICK a : a = [pass |-> g_passNum, line |-> line, vals |-> vals, answer |-> answer] /\ answers' = answers \cup {a}
  BY DEF Answer
<1>2. a.line = line /\ a.vals = vals /\ a.answer = answer
  BY <1>1
<1>3. Exact(a, program[a.line].cond)
  BY <1>2 DEF Current
<1>4. \A b \in answers' : Exact(b, program[b.line].cond)
  BY <1>1, <1>3 DEF VInv
<1>5. \A b : Exact(b, program[b.line].cond) => Exact(b, program[b.line].cond)'
  BY DEF Exact
<1> QED BY <1>4, <1>5, KeptSame, FormKept DEF VInv

LEMMA IfExact == ASSUME IInv, HInv, VInv, EvalIf PROVE VInv'
<1>1. Parsing /\ Current.op = "if" /\ UNCHANGED <<program, tableVars>>
  BY DEF EvalIf, LabelDone, Unchanged
<1>2. PICK e \in Evaluate(Current.exps) :
        IF Val_CheckResolved2(e.stack[1], e.stack[2]) THEN errors' = TRUE /\ UNCHANGED answers
        ELSE Answer(e.stack, EvalCondition(Current.cond, e.stack[1], e.stack[2]))
  BY DEF EvalIf
<1>3. e.stack \in Seq(Vals) /\ Len(e.stack) = 2
  BY <1>1, EvaluateHere DEF Evaluated
<1>4. PICK v \in Vals, w \in Vals : v = e.stack[1] /\ w = e.stack[2]
  BY <1>3
<1>5. PICK cond \in Comparisons : cond = Current.cond
  BY <1>1 DEF VInv, Form, Lines, Parsing, Current, IInv, Texts
<1>6. CASE Val_CheckResolved2(v, w)
  BY <1>1, <1>2, <1>4, <1>6, KeptSame, FormKept DEF VInv, Exact
<1>7. CASE ~Val_CheckResolved2(v, w)
  <2>1. Answer(e.stack, EvalCondition(cond, v, w))
    BY <1>2, <1>4, <1>5, <1>7
  <2>2. Comparable(v, w) => (EvalCondition(cond, v, w) <=> Holds(cond, Number(v), Number(w)))
    BY <1>7, CompareExact
  <2>3. \A a : a.vals = e.stack /\ a.answer = EvalCondition(cond, v, w) => Exact(a, cond)
    BY <1>3, <1>4, <2>2 DEF Exact
  <2> QED BY <1>1, <1>5, <2>1, <2>3, AnswerExact
<1> QED BY <1>6, <1>7

LEMMA IfccExact == ASSUME IInv, HInv, VInv, EvalIfcc PROVE VInv'
<1>1. Parsing /\ Current.op = "ifcc" /\ UNCHANGED <<program, tableVars>>
  BY DEF EvalIfcc, LabelDone, Unchanged
<1>2. PICK e \in Evaluate(Current.exps) : \E val : val = e.stack[1] /\
        IF Val_CheckResolved(val) \/ Current.cond \notin IfCodes THEN errors' = TRUE /\ UNCHANGED answers
        ELSE Answer(e.stack, EvalIfOneArg(Current.cond, Val_GetAsInt(val).int))
  BY DEF EvalIfcc
<1>3. e.stack \in Seq(Vals) /\ Len(e.stack) = 1
  BY <1>1, EvaluateHere DEF Evaluated
<1>4. PICK v \in Vals : v = e.stack[1]
  BY <1>3
<1>5. CASE Val_CheckResolved(v) \/ Current.cond \notin IfCodes
  BY <1>1, <1>2, <1>4, <1>5, KeptSame, FormKept DEF VInv, Exact
<1>6. CASE ~(Val_CheckResolved(v) \/ Current.cond \notin IfCodes)
  <2>1. PICK cond \in IfCodes : cond = Current.cond
    BY <1>6
  <2>2. Answer(e.stack, EvalIfOneArg(cond, Val_GetAsInt(v).int))
    BY <1>2, <1>4, <1>6, <2>1
  <2>3. ~IsReal(v) /\ WithinInt(v) => (EvalIfOneArg(cond, Val_GetAsInt(v).int) <=> Holds(cond, Number(v), <<0, 1>>))
    BY <1>6, <2>1, SignExact
  <2>4. \A a : a.vals = e.stack /\ a.answer = EvalIfOneArg(cond, Val_GetAsInt(v).int) => Exact(a, cond)
    BY <1>3, <1>4, <2>3 DEF Exact
  <2> QED BY <1>1, <2>1, <2>2, <2>4, AnswerExact
<1> QED BY <1>5, <1>6

LEMMA IfdefExact == ASSUME VInv, EvalDefined PROVE VInv'
<1>1. Parsing /\ UNCHANGED <<program, tableVars>> /\ Answer(<<>>, Defined(Current.name))
  BY DEF EvalDefined, LabelDone, Unchanged
<1>2. Len(<<>>) = 0
  OBVIOUS
<1>3. \A a, cond : a.vals = <<>> => Exact(a, cond)
  BY <1>2 DEF Exact
<1> QED BY <1>1, <1>3, AnswerExact

\* The other steps give no answer.
LEMMA NoAnswer == ASSUME VInv, UNCHANGED <<program, answers>>, KeptVals' PROVE VInv'
BY FormKept DEF VInv, Exact

LEMMA SetVals == ASSUME IInv, HInv, VInv, SymSet PROVE VInv'
<1>1. Parsing /\ Current.op \in {"equ", "set"} /\ UNCHANGED <<program, answers>>
  BY DEF SymSet, LabelDone, Unchanged
<1>2. PICK e \in Evaluate(Current.exps) : \E val : val = e.stack[1] /\
        (UNCHANGED tableVars \/ SymSetValue(FindSymbol(Current.name), T_VALUE, val))
  BY DEF SymSet
<1>3. e.stack \in Seq(Vals) /\ Len(e.stack) = 1
  BY <1>1, EvaluateHere DEF Evaluated
<1>4. PICK val \in Vals : UNCHANGED tableVars \/ SymSetValue(FindSymbol(Current.name), T_VALUE, val)
  BY <1>2, <1>3
<1>5. KeptVals'
  BY <1>4, KeptSame, KeptSet DEF VInv, IInv
<1> QED BY <1>1, <1>5, NoAnswer

LEMMA LabelVals == ASSUME IInv, HInv, VInv, AddLabel PROVE VInv'
<1>1. Parsing /\ HasLabel(Current) /\ UNCHANGED <<program, answers>> /\ line \in Nat \ {0}
  BY DEF AddLabel, IInv, Texts
<1>2. PICK name \in Names : name = Current.name
  BY <1>1, CurrentName DEF IInv
<1>3. pc \in Nat
  BY <1>1, PcType DEF HInv, Machine
<1>4. PICK val \in Vals : val = Val_CreateInt(AddressOfLabel)
  <2>1. AddressOfLabel \in Int
    BY <1>3 DEF AddressOfLabel
  <2> QED BY <2>1, IntVal
<1>5. UNCHANGED tableVars \/ AddSymbol(name, T_PTR, val, mem) \/ SymbolSetMemSpace(FindSymbol(name), mem)
  BY <1>2, <1>4 DEF AddLabel
<1>6. KeptVals'
  BY <1>5, KeptSame, KeptAdded, KeptRetyped DEF VInv, IInv
<1> QED BY <1>1, <1>6, NoAnswer

LEMMA OptionVals == ASSUME IInv, VInv, DefineSymbol PROVE VInv'
<1> DEFINE R == [name : Names, value : Value]
<1>1. PICK o \in R : o = Head(options)
  <2>1. options \in Seq(R) /\ options # <<>>
    BY DEF IInv, Texts, DefineSymbol
  <2> HIDE DEF R
  <2> QED BY <2>1
<1>2. PICK name \in Names, val \in Vals : name = o.name /\ val = o.value
  BY <1>1, ValueVals
<1>3. /\ SymSetValue(FindSymbol(name), T_VALUE, val) \/ AddSymbol(name, T_VALUE, val, -1)
      /\ UNCHANGED <<program, answers>>
  BY <1>1, <1>2 DEF DefineSymbol
<1>4. KeptVals'
  BY <1>3, KeptSet, KeptAdded DEF VInv, IInv
<1> QED BY <1>3, <1>4, NoAnswer

LEMMA NextVals == IInv /\ HInv /\ VInv /\ [Next]_vars => VInv'
<1> SUFFICES ASSUME IInv, HInv, VInv, [Next]_vars PROVE VInv'
  OBVIOUS
<1>1. CASE DefineSymbol
  BY <1>1, OptionVals
<1>2. CASE PrefetchToken \/ InitParserPass1 \/ EndPass \/ NoStatement \/ GenDc
  <2>1. UNCHANGED <<program, answers, tableVars>>
    BY <1>2 DEF PrefetchToken, InitParserPass1, EndPass, NoStatement, GenDc, Unchanged, seen
  <2> QED BY <2>1, KeptSame, NoAnswer DEF VInv
<1>3. CASE AddLabel
  BY <1>3, LabelVals
<1>4. CASE MacroRecord
  <2>1. UNCHANGED <<program, answers>> /\ SymSetValueMacro(FindSymbol(Current.name), T_MACRO)
    BY <1>4 DEF MacroRecord, Unchanged, seen
  <2> QED BY <2>1, KeptRetyped, NoAnswer DEF VInv, IInv
<1>5. CASE SymSet
  BY <1>5, SetVals
<1>6. CASE EvalIf
  BY <1>6, IfExact
<1>7. CASE EvalIfcc
  BY <1>7, IfccExact
<1>8. CASE EvalDefined
  BY <1>8, IfdefExact
<1>9. CASE UNCHANGED vars
  BY <1>9, KeptSame, NoAnswer DEF VInv, vars, machine, seen
<1> QED BY <1>1, <1>2, <1>3, <1>4, <1>5, <1>6, <1>7, <1>8, <1>9 DEF Next

LEMMA InitVals == Init => VInv
<1> SUFFICES ASSUME Init PROVE VInv
  OBVIOUS
<1>1. answers = {} /\ DOMAIN slots = {} /\ IInv
  BY InitInv DEF Init, InitSymbolTable
<1>2. ASSUME NEW i \in Lines PROVE Form(i)
  <2>1. PICK p \in Programs : program = p.lines
    BY DEF Init
  <2>2. i \in DOMAIN program
    BY <1>1 DEF IInv, Texts, Lines
  <2> QED BY <2>1, <2>2, ProgramsAssumption DEF TokensAt, Form
<1> QED BY <1>1, <1>2 DEF VInv, KeptVals

\* An IF answers as the numbers compare, and an IFcc as the sign of the number
\* (EvalCondition and EvalIfOneArg of Value.c): for every program, number and width.
THEOREM AnswersExact == Spec => []ConditionsExact
<1>1. IInv /\ RInv /\ HInv /\ VInv /\ [Next]_vars => VInv'
  BY NextVals
<1>2. VInv => ConditionsExact
  BY DEF VInv, Exact, ConditionsExact
<1> QED BY <1>1, <1>2, InitVals, History, PTL DEF Spec

----------------------------------------------------------------------------
(* What an expression denotes, and the value that stands for it.           *)

LEMMA Cancel == ASSUME NEW a \in Int, NEW b \in Int, NEW d \in Int \ {0}, a * d = b * d PROVE a = b
OBVIOUS

\* A quotient is the one number in lowest terms that it is equal to.
LEMMA RatioIs ==
  ASSUME NEW n \in Int, NEW d \in Int \ {0}, NEW p \in Numbers, p[1] * d = n * p[2]
  PROVE  Ratio(n, d) = p
<1>1. PICK q : q = Ratio(n, d)
  OBVIOUS
<1>2. q \in Numbers /\ Lowest(q) /\ Lowest(p) /\ q[1] * d = n * q[2]
  BY <1>1, RatioNumber, RatioLowest, NumberIs
<1>3. PICK a \in Int, b \in Nat \ {0}, x \in Int, y \in Nat \ {0} : q = <<a, b>> /\ p = <<x, y>>
  BY <1>2, NumberParts
<1>4. a * d = n * b /\ x * d = n * y
  BY <1>2, <1>3
<1>5. (a * y) * d = (a * d) * y /\ (x * b) * d = (x * d) * b /\ (n * b) * y = (n * y) * b
  OBVIOUS
<1>6. (a * y) * d = (x * b) * d
  BY <1>4, <1>5
<1>7. a * y = x * b
  BY <1>6, Cancel
<1>8. q[1] * p[2] = p[1] * q[2]
  BY <1>3, <1>7
<1> QED BY <1>1, <1>2, <1>8, LowestUnique

LEMMA RatioInt == ASSUME NEW n \in Int PROVE Ratio(n, 1) = <<n, 1>>
<1>1. PICK p \in Numbers : p = <<n, 1>>
  BY IntNumber
<1>2. p[1] * 1 = n * p[2]
  BY <1>1
<1> QED BY <1>1, <1>2, RatioIs

LEMMA IntSums ==
  ASSUME NEW m \in Int, NEW n \in Int
  PROVE  Plus(<<m, 1>>, <<n, 1>>) = <<m + n, 1>> /\ Times(<<m, 1>>, <<n, 1>>) = <<m * n, 1>>
<1>1. Plus(<<m, 1>>, <<n, 1>>) = Ratio(m + n, 1)
  BY DEF Plus
<1>2. Times(<<m, 1>>, <<n, 1>>) = Ratio(m * n, 1)
  BY DEF Times
<1>3. m + n \in Int /\ m * n \in Int
  OBVIOUS
<1> QED BY <1>1, <1>2, <1>3, RatioInt

LEMMA MinusIs == ASSUME NEW q \in Numbers PROVE Times(<<-1, 1>>, q) = <<-q[1], q[2]>>
<1>1. PICK a \in Int, b \in Nat \ {0} : q = <<a, b>>
  BY NumberParts
<1>2. PICK c \in Int : c = -a
  OBVIOUS
<1>3. PICK p \in Numbers : p = <<c, b>>
  BY <1>1, <1>2, MinusNumber
<1>4. Times(<<-1, 1>>, q) = Ratio(c, b)
  <2>1. PICK u \in Int : u = -1
    OBVIOUS
  <2>2. Times(<<u, 1>>, q) = Ratio(u * a, 1 * b)
    BY <1>1 DEF Times
  <2>3. u * a = c /\ 1 * b = b
    BY <1>1, <1>2, <2>1
  <2> QED BY <2>1, <2>2, <2>3
<1>5. p[1] * b = c * p[2]
  BY <1>3
<1>6. Ratio(c, b) = p
  BY <1>5, RatioIs
<1> QED BY <1>1, <1>2, <1>3, <1>4, <1>6

\* Integers modulo the width.
LEMMA LongSums ==
  ASSUME NEW x \in Int, NEW y \in Int
  PROVE  /\ Long(Long(x) + Long(y)) = Long(x + y) /\ Long(Long(x) * Long(y)) = Long(x * y)
         /\ Long(-Long(x)) = Long(-x) /\ Long(x + Long(y)) = Long(x + y)
<1>1. PICK l \in Nat \ {0} : l = Pow2[LongBits]
  BY WidthTypes, PowerType
<1>2. PICK a \in Nat, j \in Int : a = Long(x) /\ x = a + j * l
  BY <1>1, LongIs
<1>3. PICK b \in Nat, k \in Int : b = Long(y) /\ y = b + k * l
  BY <1>1, LongIs
<1>4. ASSUME NEW m \in Int, NEW n \in Int, NEW i \in Int, m = n + i * l PROVE Long(m) = Long(n)
  BY <1>1, <1>4, ModShift DEF Long
<1>5. Long(x + y) = Long(a + b)
  <2>1. x + y = (a + b) + (j + k) * l /\ x + y \in Int /\ a + b \in Int /\ j + k \in Int
    BY <1>2, <1>3
  <2> QED BY <1>4, <2>1
<1>6. Long(x * y) = Long(a * b)
  <2>1. PICK i \in Int : i = a * k + j * b + j * (k * l)
    OBVIOUS
  <2>2. x * y = a * b + i * l
    <3>1. x * y = (a + j * l) * (b + k * l)
      BY <1>2, <1>3
    <3>2. (a + j * l) * (b + k * l) = a * b + (a * k + j * b + j * (k * l)) * l
      OBVIOUS
    <3> QED BY <2>1, <3>1, <3>2
  <2>3. x * y \in Int /\ a * b \in Int
    OBVIOUS
  <2> QED BY <1>4, <2>2, <2>3
<1>7. Long(-x) = Long(-a)
  <2>1. PICK m \in Int, n \in Int, i \in Int : m = -x /\ n = -a /\ i = -j
    OBVIOUS
  <2>2. i * l = -(j * l) /\ x = a + j * l
    BY <1>2, <2>1
  <2>3. m = n + i * l
    BY <2>1, <2>2
  <2>4. Long(m) = Long(n)
    BY <1>4, <2>3
  <2> QED BY <2>1, <2>4
<1>8. Long(x + y) = Long(x + b)
  <2>1. x + y = (x + b) + k * l /\ x + y \in Int /\ x + b \in Int
    BY <1>3
  <2> QED BY <1>4, <2>1
<1> QED BY <1>2, <1>3, <1>5, <1>6, <1>7, <1>8

\* Numbers of an int.
Half == Pow2[IntBits - 1]
LEMMA LongSmall ==
  ASSUME NEW n \in Int, -Half < n, n < Half
  PROVE  (n >= 0 => Long(n) = n) /\ (Long(n) = 0 <=> n = 0)
<1>1. PICK l \in Nat \ {0} : l = Pow2[LongBits]
  BY WidthTypes, PowerType
<1>2. PICK h \in Nat \ {0} : h = Half /\ 2 * h = Pow2[IntBits]
  BY WidthTypes, PowerHalf DEF Half
<1>3. PICK c \in Nat \ {0} : l = c * (2 * h)
  <2>1. PICK c \in Nat \ {0} : Pow2[LongBits] = c * Pow2[IntBits]
    BY WidthTypes, PowerOf
  <2> QED BY <1>1, <1>2, <2>1
<1>4. l >= 2 * h
  BY <1>3
<1>5. -h < n /\ n < h
  BY <1>2
<1>6. CASE n >= 0
  <2>1. n \in Nat /\ n < l /\ n = n + 0 * l
    BY <1>4, <1>5, <1>6
  <2>2. Long(n) = n
    BY <1>1, <2>1, LongOf
  <2> QED BY <2>2
<1>7. CASE n < 0
  <2>1. PICK r \in Nat : r = n + l
    BY <1>4, <1>5, <1>7
  <2>2. r < l /\ r # 0
    BY <1>4, <1>5, <1>7, <2>1
  <2>3. PICK k \in Int : k = -1
    OBVIOUS
  <2>4. n = r + k * l
    BY <2>1, <2>3
  <2>5. Long(n) = r
    BY <1>1, <2>2, <2>4, LongOf
  <2> QED BY <1>7, <2>2, <2>5
<1> QED BY <1>6, <1>7

\* The value is the number that is meant: a real is that number, and an integer is it
\* modulo the width.
Small(n) == n \in Int /\ -Half < n /\ n < Half
Stands(v, m) ==
  /\ m.real \in BOOLEAN /\ ~Val_CheckResolved(v) /\ (IsReal(v) <=> m.real)
  /\ m.real => v.q = m.q
  /\ ~m.real => \E n \in Int : Small(n) /\ m.q = <<n, 1>> /\ v.q = <<Long(n), 1>>

LEMMA DenotesIs ==
  ASSUME NEW real, NEW q, NEW fair, NEW m, m = Denotes(real, q, fair)
  PROVE  m.real = real /\ m.q = q /\ (m.fair => fair /\ (real \/ Abs(q[1]) < Half))
BY DEF Denotes, Half

LEMMA SmallAbs == ASSUME NEW n \in Int, Abs(n) < Half PROVE Small(n)
<1>1. Half \in Nat
  BY WidthTypes, PowerHalf DEF Half
<1> QED BY <1>1 DEF Small, Abs

LEMMA IntStands ==
  ASSUME NEW n \in Int, NEW real, real = FALSE, NEW m, NEW fair, m = Denotes(real, <<n, 1>>, fair), m.fair
  PROVE  Stands(Val_CreateInt(n), m)
<1>1. m.real = FALSE /\ m.q = <<n, 1>> /\ Abs(n) < Half
  BY DEF Denotes, Half
<1>2. Small(n)
  BY <1>1, SmallAbs
<1>3. Val_CreateInt(n).type = "kInt" /\ Val_CreateInt(n).q = <<Long(n), 1>>
  BY DEF Val_CreateInt, Val
<1> QED BY <1>1, <1>2, <1>3 DEF Stands, Val_CheckResolved, IsReal

LEMMA RealStands ==
  ASSUME NEW type \in {"kFract", "kFloat"}, NEW q, NEW real, real = TRUE, NEW m, NEW fair, m = Denotes(real, q, fair)
  PROVE  Stands(Val(type, q), m)
<1>1. m.real = TRUE /\ m.q = q
  BY DEF Denotes
<1>2. Val(type, q).type = type /\ Val(type, q).q = q
  BY DEF Val
<1> QED BY <1>1, <1>2 DEF Stands, Val_CheckResolved, IsReal

\* What an integer stands for, and what is the same as a real.
LEMMA StandsInt ==
  ASSUME NEW v \in Vals, NEW m, Stands(v, m), ~IsReal(v)
  PROVE  m.real = FALSE /\ v.type = "kInt" /\ \E n \in Int : Small(n) /\ m.q = <<n, 1>> /\ v.q = <<Long(n), 1>>
<1>1. v.type = "kInt"
  BY WholeParts DEF Stands
<1> QED BY <1>1 DEF Stands

LEMMA StandsReal ==
  ASSUME NEW v \in Vals, NEW m, Stands(v, m), IsReal(v)
  PROVE  m.real = TRUE /\ v.q = m.q /\ v.type \in {"kFract", "kFloat"}
BY DEF Stands, IsReal

LEMMA StandsSame ==
  ASSUME NEW v \in Vals, NEW m, Stands(v, m), ~m.real => m.q[1] >= 0
  PROVE  v.q = m.q
<1>1. CASE IsReal(v)
  BY <1>1, StandsReal
<1>2. CASE ~IsReal(v)
  <2>1. PICK n \in Int : Small(n) /\ m.q = <<n, 1>> /\ v.q = <<Long(n), 1>> /\ m.real = FALSE
    BY <1>2, StandsInt
  <2>2. n >= 0
    BY <2>1
  <2>3. Long(n) = n
    BY <2>1, <2>2, LongSmall DEF Small
  <2> QED BY <2>1, <2>3
<1> QED BY <1>1, <1>2

LEMMA GivesIs == ASSUME NEW v, NEW o, o \in Gives(v) PROVE o.val = v /\ o.err = FALSE
BY DEF Gives

LEMMA FailsIs ==
  ASSUME NEW v, NEW type, NEW o, o \in Fails(v) \/ o \in Uninitialised(type, TRUE)
  PROVE  o.err = TRUE
<1>1. CASE o \in Fails(v)
  BY <1>1 DEF Fails
<1>2. CASE o \in Uninitialised(type, TRUE)
  <2>1. PICK g \in Leftovers : o = [val |-> Val(type, <<g, 1>>), err |-> TRUE]
    BY <1>2 DEF Uninitialised
  <2> QED BY <2>1
<1> QED BY <1>1, <1>2

LEMMA HalfType == Half \in Nat \ {0}
<1>1. PICK h \in Nat \ {0} : h = Pow2[IntBits - 1]
  BY WidthTypes, PowerHalf
<1> QED BY <1>1 DEF Half

LEMMA SumStands ==
  ASSUME NEW v \in Vals, NEW w \in Vals, NEW a, NEW b, Stands(v, a), Stands(w, b),
         NEW real, real = (a.real \/ b.real), NEW fair, NEW m, m = Denotes(real, Plus(a.q, b.q), fair), m.fair,
         NEW o \in Val_Add(v, w), ~o.err
  PROVE  Stands(o.val, m)
<1>1. ~Val_CheckResolved2(v, w)
  BY DEF Stands, Val_CheckResolved2
<1>2. CASE ~IsReal(v) /\ ~IsReal(w)
  <2>1. PICK x \in Int : Small(x) /\ a.q = <<x, 1>> /\ v.q = <<Long(x), 1>> /\ a.real = FALSE /\ v.type = "kInt"
    BY <1>2, StandsInt
  <2>2. PICK y \in Int : Small(y) /\ b.q = <<y, 1>> /\ w.q = <<Long(y), 1>> /\ b.real = FALSE /\ w.type = "kInt"
    BY <1>2, StandsInt
  <2>3. Val_Add(v, w) = Gives(Val_CreateInt(Long(x) + Long(y)))
    <3>1. v.q[1] = Long(x) /\ w.q[1] = Long(y)
      BY <2>1, <2>2
    <3> QED BY <1>1, <1>2, <2>1, <2>2, <3>1 DEF Val_Add
  <2>4. o.val = Val_CreateInt(Long(x) + Long(y))
    BY <2>3, GivesIs
  <2>5. o.val = Val_CreateInt(x + y)
    BY <2>4, LongSums DEF Val_CreateInt
  <2>6. real = FALSE
    BY <2>1, <2>2
  <2>7. Plus(<<x, 1>>, <<y, 1>>) = <<x + y, 1>>
    BY IntSums
  <2>8. m = Denotes(real, <<x + y, 1>>, fair) /\ x + y \in Int
    BY <2>1, <2>2, <2>7
  <2> QED BY <2>5, <2>6, <2>8, IntStands
<1>3. CASE IsReal(v) /\ IsReal(w)
  <2>1. a.real = TRUE /\ v.q = a.q /\ v.type \in {"kFract", "kFloat"} /\ w.q = b.q
    BY <1>3, StandsReal
  <2>2. v.type = w.type
    <3> SUFFICES ASSUME v.type # w.type PROVE FALSE
      OBVIOUS
    <3>1. Val_Add(v, w) = Fails(Val(v.type, Plus(v.q, w.q)))
      BY <1>1, <1>3 DEF Val_Add
    <3> QED BY <3>1, FailsIs
  <2>3. Val_Add(v, w) = Gives(Val(v.type, Plus(v.q, w.q)))
    BY <1>1, <1>3, <2>2 DEF Val_Add
  <2>4. o.val = Val(v.type, Plus(a.q, b.q))
    BY <2>1, <2>3, GivesIs
  <2>5. real = TRUE
    BY <2>1
  <2> QED BY <2>1, <2>4, <2>5, RealStands
<1>4. CASE ~(IsReal(v) <=> IsReal(w))
  <2>1. v.type # w.type
    BY <1>4 DEF IsReal
  <2>2. Val_Add(v, w) = Uninitialised(v.type, TRUE)
    BY <1>1, <1>4, <2>1 DEF Val_Add
  <2> QED BY <2>2, FailsIs
<1> QED BY <1>2, <1>3, <1>4

LEMMA NegStands ==
  ASSUME NEW v \in Vals, NEW a, Stands(v, a), NEW m, m.real = a.real, m.q = Times(<<-1, 1>>, a.q)
  PROVE  Stands(Val_Neg(v), m)
<1>1. ~Val_CheckResolved(v)
  BY DEF Stands
<1>2. CASE IsReal(v)
  <2>1. a.real = TRUE /\ v.q = a.q /\ v.type \in {"kFract", "kFloat"} /\ v.q \in Numbers
    BY <1>2, StandsReal, ValParts
  <2>2. m.q = <<-v.q[1], v.q[2]>>
    BY <2>1, MinusIs
  <2>3. Val_Neg(v) = Val(v.type, m.q)
    BY <1>1, <1>2, <2>2 DEF Val_Neg
  <2>4. Val_Neg(v).type = v.type /\ Val_Neg(v).q = m.q
    BY <2>3 DEF Val
  <2> QED BY <2>1, <2>4 DEF Stands, IsReal, Val_CheckResolved
<1>3. CASE ~IsReal(v)
  <2>1. PICK x \in Int : Small(x) /\ a.q = <<x, 1>> /\ v.q = <<Long(x), 1>> /\ a.real = FALSE /\ v.type = "kInt"
    BY <1>3, StandsInt
  <2>2. PICK y \in Int : y = -x /\ Small(y)
    <3>1. Half \in Int
      BY HalfType
    <3>2. -x \in Int /\ Small(-x)
      BY <2>1, <3>1 DEF Small
    <3> QED BY <3>2
  <2>3. m.q = <<y, 1>>
    <3>1. a.q \in Numbers
      BY <2>1, IntNumber
    <3>2. a.q[1] = x /\ a.q[2] = 1
      BY <2>1
    <3> QED BY <2>2, <3>1, <3>2, MinusIs
  <2>4. Val_Neg(v) = Val_CreateInt(-Long(x))
    <3>1. v.q[1] = Long(x)
      BY <2>1
    <3> QED BY <1>1, <1>3, <3>1 DEF Val_Neg
  <2>5. Val_Neg(v).type = "kInt" /\ Val_Neg(v).q = <<Long(y), 1>>
    <3>1. Long(-Long(x)) = Long(y)
      BY <2>2, LongSums
    <3> QED BY <2>4, <3>1 DEF Val_CreateInt, Val
  <2> QED BY <2>1, <2>2, <2>3, <2>5 DEF Stands, IsReal, Val_CheckResolved
<1> QED BY <1>2, <1>3

\* A real and a whole number that is not negative are multiplied and divided as they are.
LEMMA ConvertsSame ==
  ASSUME NEW v \in Vals, NEW w \in Vals, NEW a, NEW b, Stands(v, a), Stands(w, b), Converts(a, b), a.real \/ b.real
  PROVE  v.q = a.q /\ w.q = b.q
<1>1. a.real \in BOOLEAN /\ b.real \in BOOLEAN
  BY DEF Stands
<1>2. (~a.real => a.q[1] >= 0) /\ (~b.real => b.q[1] >= 0)
  BY <1>1 DEF Converts
<1> QED BY <1>2, StandsSame

LEMMA RealTypeIs == ASSUME NEW v PROVE RealType(v) \in {"kFract", "kFloat"}
BY DEF RealType, IsReal

LEMMA ProductStands ==
  ASSUME NEW v \in Vals, NEW w \in Vals, NEW a, NEW b, Stands(v, a), Stands(w, b), Converts(a, b),
         NEW real, real = (a.real \/ b.real), NEW fair, NEW m, m = Denotes(real, Times(a.q, b.q), fair), m.fair,
         NEW o \in Val_Mul(v, w)
  PROVE  Stands(o.val, m)
<1>1. ~Val_CheckResolved2(v, w) /\ (IsReal(v) <=> a.real) /\ (IsReal(w) <=> b.real)
  BY DEF Stands, Val_CheckResolved2
<1>2. CASE ~IsReal(v) /\ ~IsReal(w)
  <2>1. PICK x \in Int : Small(x) /\ a.q = <<x, 1>> /\ v.q = <<Long(x), 1>> /\ a.real = FALSE
    BY <1>2, StandsInt
  <2>2. PICK y \in Int : Small(y) /\ b.q = <<y, 1>> /\ w.q = <<Long(y), 1>> /\ b.real = FALSE
    BY <1>2, StandsInt
  <2>3. Val_Mul(v, w) = Gives(Val_CreateInt(Long(x) * Long(y)))
    <3>1. v.q[1] = Long(x) /\ w.q[1] = Long(y)
      BY <2>1, <2>2
    <3> QED BY <1>1, <1>2, <3>1 DEF Val_Mul
  <2>4. o.val = Val_CreateInt(Long(x) * Long(y))
    BY <2>3, GivesIs
  <2>5. o.val = Val_CreateInt(x * y)
    BY <2>4, LongSums DEF Val_CreateInt
  <2>6. real = FALSE
    BY <2>1, <2>2
  <2>7. PICK z \in Int : z = x * y
    OBVIOUS
  <2>8. m = Denotes(real, <<z, 1>>, fair)
    <3>1. Times(<<x, 1>>, <<y, 1>>) = <<z, 1>>
      BY <2>7, IntSums
    <3> QED BY <2>1, <2>2, <3>1
  <2> QED BY <2>5, <2>6, <2>7, <2>8, IntStands
<1>3. CASE IsReal(v) \/ IsReal(w)
  <2>1. v.q = a.q /\ w.q = b.q
    BY <1>1, <1>3, ConvertsSame
  <2>2. Val_Mul(v, w) = Gives(Val(RealType(v), Times(a.q, b.q)))
    BY <1>1, <1>3, <2>1 DEF Val_Mul
  <2>3. o.val = Val(RealType(v), Times(a.q, b.q))
    BY <2>2, GivesIs
  <2>4. real = TRUE
    BY <1>1, <1>3
  <2> QED BY <2>3, <2>4, RealTypeIs, RealStands
<1> QED BY <1>2, <1>3

LEMMA QuotientStands ==
  ASSUME NEW v \in Vals, NEW w \in Vals, NEW a, NEW b, Stands(v, a), Stands(w, b), b.q[1] # 0, NEW pass,
         NEW real, real = (a.real \/ b.real), NEW fair, NEW m, m.fair, NEW o \in Val_Div(v, w, pass),
         real => m = Denotes(real, Over(a.q, b.q), fair) /\ Converts(a, b),
         ~real => m = Denotes(real, <<a.q[1] \div Abs(b.q[1]), 1>>, fair) /\ a.q[1] >= 0 /\ b.q[1] > 0
  PROVE  Stands(o.val, m)
<1>1. ~Val_CheckResolved2(v, w) /\ (IsReal(v) <=> a.real) /\ (IsReal(w) <=> b.real)
  BY DEF Stands, Val_CheckResolved2
<1>2. CASE ~IsReal(v) /\ ~IsReal(w)
  <2>1. PICK x \in Int : Small(x) /\ a.q = <<x, 1>> /\ v.q = <<Long(x), 1>>
    BY <1>2, StandsInt
  <2>2. PICK y \in Int : Small(y) /\ b.q = <<y, 1>> /\ w.q = <<Long(y), 1>>
    BY <1>2, StandsInt
  <2>3. x >= 0 /\ y > 0 /\ m = Denotes(real, <<x \div Abs(y), 1>>, fair) /\ real = FALSE
    <3>1. a.q[1] = x /\ b.q[1] = y
      BY <2>1, <2>2
    <3>2. real = FALSE
      BY <1>1, <1>2
    <3> QED BY <3>1, <3>2
  <2>4. Long(x) = x /\ Long(y) = y /\ Abs(y) = y
    BY <2>1, <2>2, <2>3, LongSmall, AbsIs DEF Small
  <2>5. v.q[1] = x /\ w.q[1] = y /\ y # 0
    BY <2>1, <2>2, <2>3, <2>4
  <2>6. Val_Div(v, w, pass) = Gives(Val_CreateInt(x \div y))
    BY <1>1, <1>2, <2>5 DEF Val_Div
  <2>7. o.val = Val_CreateInt(x \div y)
    BY <2>6, GivesIs
  <2>8. x \div y \in Int
    BY <2>3, DivMod
  <2>9. m = Denotes(real, <<x \div y, 1>>, fair)
    BY <2>3, <2>4
  <2> QED BY <2>3, <2>7, <2>8, <2>9, IntStands
<1>3. CASE IsReal(v) \/ IsReal(w)
  <2>0. real = TRUE
    BY <1>1, <1>3
  <2>1. v.q = a.q /\ w.q = b.q /\ m = Denotes(real, Over(a.q, b.q), fair)
    <3>1. (a.real \/ b.real) /\ real
      BY <1>1, <1>3
    <3>2. Converts(a, b) /\ m = Denotes(real, Over(a.q, b.q), fair)
      BY <3>1
    <3>3. v.q = a.q /\ w.q = b.q
      BY <3>1, <3>2, ConvertsSame
    <3> QED BY <3>2, <3>3
  <2>2. Val_Div(v, w, pass) = Gives(Val(RealType(v), Over(a.q, b.q)))
    BY <1>1, <1>3, <2>1 DEF Val_Div
  <2>3. o.val = Val(RealType(v), Over(a.q, b.q))
    BY <2>2, GivesIs
  <2>4. PICK type \in {"kFract", "kFloat"} : type = RealType(v)
    BY RealTypeIs
  <2>5. PICK q : q = Over(a.q, b.q)
    OBVIOUS
  <2>6. Stands(Val(type, q), m)
    BY <2>0, <2>1, <2>5, RealStands
  <2> QED BY <2>3, <2>4, <2>5, <2>6
<1> QED BY <1>2, <1>3

\* What is fair.
LEMMA DenotesFair == ASSUME NEW real, NEW q, NEW fair, NEW m, m = Denotes(real, q, fair), m.fair PROVE fair
BY DenotesIs

LEMMA Meaning2Stands ==
  ASSUME NEW op \in Binary, NEW v \in Vals, NEW w \in Vals, NEW a, NEW b, NEW pass,
         NEW m, m = Meaning2(op, a, b), m.fair, a.fair => Stands(v, a), b.fair => Stands(w, b),
         NEW o \in Apply2(op, v, w, pass), ~o.err
  PROVE  Stands(o.val, m)
<1>1. PICK fair : fair = (a.fair /\ b.fair)
  OBVIOUS
<1>2. PICK real : real = (a.real \/ b.real)
  OBVIOUS
<1>3. CASE op = "+"
  <2>1. m = Denotes(real, Plus(a.q, b.q), fair) /\ o \in Val_Add(v, w)
    BY <1>1, <1>2, <1>3 DEF Meaning2, Apply2
  <2>2. fair
    BY <2>1, DenotesFair
  <2>3. Stands(v, a) /\ Stands(w, b)
    BY <1>1, <2>2
  <2> QED BY <1>2, <2>1, <2>3, SumStands
<1>4. CASE op = "-"
  <2>1. m = Denotes(real, Plus(a.q, Times(<<-1, 1>>, b.q)), fair) /\ o \in Val_Add(v, Val_Neg(w))
    BY <1>1, <1>2, <1>4 DEF Meaning2, Apply2
  <2>2. fair
    BY <2>1, DenotesFair
  <2>3. Stands(v, a) /\ Stands(w, b)
    BY <1>1, <2>2
  <2>4. PICK c : c = [real |-> b.real, q |-> Times(<<-1, 1>>, b.q)]
    OBVIOUS
  <2>5. c.real = b.real /\ c.q = Times(<<-1, 1>>, b.q)
    BY <2>4
  <2>6. Stands(Val_Neg(w), c) /\ Val_Neg(w) \in Vals
    BY <2>3, <2>5, NegStands, NegVals
  <2>7. m = Denotes(real, Plus(a.q, c.q), fair) /\ real = (a.real \/ c.real)
    BY <1>2, <2>1, <2>5
  <2> QED BY <2>1, <2>3, <2>6, <2>7, SumStands
<1>5. CASE op = "*"
  <2>1. PICK g : g = (fair /\ Converts(a, b))
    OBVIOUS
  <2>2. m = Denotes(real, Times(a.q, b.q), g) /\ o \in Val_Mul(v, w)
    BY <1>1, <1>2, <1>5, <2>1 DEF Meaning2, Apply2
  <2>3. g
    BY <2>2, DenotesFair
  <2>4. Stands(v, a) /\ Stands(w, b) /\ Converts(a, b)
    BY <1>1, <2>1, <2>3
  <2> QED BY <1>2, <2>2, <2>4, ProductStands
<1>6. CASE op = "/" /\ b.q[1] # 0 /\ real
  <2>1. PICK g : g = (fair /\ Converts(a, b))
    OBVIOUS
  <2>2. m = Denotes(real, Over(a.q, b.q), g) /\ o \in Val_Div(v, w, pass)
    <3>1. real = TRUE
      BY <1>2, <1>6
    <3>2. m = Denotes(TRUE, Over(a.q, b.q), g) /\ o \in Val_Div(v, w, pass)
      BY <1>1, <1>2, <1>6, <2>1 DEF Meaning2, Apply2
    <3> QED BY <3>1, <3>2
  <2>3. g
    BY <2>2, DenotesFair
  <2>4. Stands(v, a) /\ Stands(w, b) /\ Converts(a, b)
    BY <1>1, <2>1, <2>3
  <2> QED BY <1>2, <1>6, <2>2, <2>4, QuotientStands
<1>7. CASE op = "/" /\ b.q[1] # 0 /\ ~real
  <2>1. PICK g : g = (fair /\ a.q[1] >= 0 /\ b.q[1] > 0)
    OBVIOUS
  <2>2. m = Denotes(real, <<a.q[1] \div Abs(b.q[1]), 1>>, g) /\ o \in Val_Div(v, w, pass)
    <3>1. real = FALSE
      BY <1>2, <1>7
    <3>2. m = Denotes(FALSE, <<a.q[1] \div Abs(b.q[1]), 1>>, g) /\ o \in Val_Div(v, w, pass)
      BY <1>1, <1>2, <1>7, <2>1 DEF Meaning2, Apply2
    <3> QED BY <3>1, <3>2
  <2>3. g
    BY <2>2, DenotesFair
  <2>4. Stands(v, a) /\ Stands(w, b) /\ a.q[1] >= 0 /\ b.q[1] > 0
    BY <1>1, <2>1, <2>3
  <2> QED BY <1>2, <1>7, <2>2, <2>4, QuotientStands
<1>8. CASE op \notin {"+", "-", "*"} /\ ~(op = "/" /\ b.q[1] # 0)
  <2>1. m = Denotes(TRUE, <<0, 1>>, FALSE)
    BY <1>8 DEF Meaning2
  <2> QED BY <2>1, DenotesFair
<1> QED BY <1>3, <1>4, <1>5, <1>6, <1>7, <1>8

LEMMA NotStands ==
  ASSUME NEW v \in Vals, NEW a, Stands(v, a),
         NEW fair, NEW m, m = Denotes(a.real, IF a.q[1] = 0 THEN <<1, 1>> ELSE <<0, 1>>, fair), m.fair
  PROVE  Stands(Val_Not(v), m)
<1>1. PICK n \in {0, 1} : n = IF a.q[1] = 0 THEN 1 ELSE 0
  OBVIOUS
<1>2. m = Denotes(a.real, <<n, 1>>, fair)
  BY <1>1
<1>3. v.q[1] = 0 <=> a.q[1] = 0
  <2>1. CASE IsReal(v)
    BY <2>1, StandsReal
  <2>2. CASE ~IsReal(v)
    <3>1. PICK x \in Int : Small(x) /\ a.q = <<x, 1>> /\ v.q = <<Long(x), 1>>
      BY <2>2, StandsInt
    <3>2. Long(x) = 0 <=> x = 0
      BY <3>1, LongSmall DEF Small
    <3> QED BY <3>1, <3>2
  <2> QED BY <2>1, <2>2
<1>4. Val_Not(v) = Val(v.type, <<n, 1>>)
  BY <1>1, <1>3 DEF Val_Not, Stands
<1>5. PICK real : real = a.real
  OBVIOUS
<1>6. CASE IsReal(v)
  <2>1. real = TRUE /\ v.type \in {"kFract", "kFloat"}
    BY <1>5, <1>6, StandsReal
  <2>2. m = Denotes(real, <<n, 1>>, fair)
    BY <1>2, <1>5
  <2> QED BY <1>4, <2>1, <2>2, RealStands
<1>7. CASE ~IsReal(v)
  <2>1. real = FALSE /\ v.type = "kInt"
    BY <1>5, <1>7, StandsInt
  <2>2. m = Denotes(real, <<n, 1>>, fair) /\ n \in Int
    BY <1>2, <1>5
  <2>3. Val_Not(v) = Val_CreateInt(n)
    <3>1. Long(n) = n
      <4>1. PICK l \in Nat \ {0} : l = 2 * Pow2[LongBits - 1] /\ l = Pow2[LongBits] /\ l > 1
        BY WidthTypes, PowerHalf
      <4>2. n \in Nat /\ n < l /\ n = n + 0 * l
        BY <4>1
      <4> QED BY <4>1, <4>2, LongOf
    <3> QED BY <1>4, <2>1, <3>1 DEF Val_CreateInt
  <2> QED BY <2>1, <2>2, <2>3, IntStands
<1> QED BY <1>6, <1>7

LEMMA RealCastStands ==
  ASSUME NEW v \in Vals, NEW a, Stands(v, a), a.real \/ a.q[1] >= 0, NEW type \in {"kFract", "kFloat"},
         NEW m, NEW fair, m = Denotes(TRUE, a.q, fair)
  PROVE  Stands(CastToReal(v, type), m)
<1>1. v.q = a.q
  BY StandsSame
<1>2. CastToReal(v, type).type = type /\ CastToReal(v, type).q = v.q
  BY DEF CastToReal, Val
<1>3. m.real = TRUE /\ m.q = a.q
  BY DEF Denotes
<1> QED BY <1>1, <1>2, <1>3 DEF Stands, IsReal, Val_CheckResolved

LEMMA TruncIs ==
  ASSUME NEW q \in Numbers
  PROVE  Trunc(q) \in Int /\ (q[2] = 1 => Trunc(q) = q[1])
<1>1. PICK a \in Int, d \in Nat \ {0} : q = <<a, d>>
  BY NumberParts
<1>2. PICK b \in Nat : b = Abs(a) /\ (a < 0 => a = -b)
  BY AbsIs
<1>3. Trunc(q) = IF a < 0 THEN -(b \div d) ELSE a \div d
  BY <1>1, <1>2 DEF Trunc
<1>4. b \div d \in Int /\ a \div d \in Int
  BY DivMod
<1>5. d = 1 => b \div d = b /\ a \div d = a
  BY <1>2
<1> QED BY <1>1, <1>2, <1>3, <1>4, <1>5

LEMMA IntCastStands ==
  ASSUME NEW v \in Vals, NEW a, Stands(v, a), NEW m, NEW fair, m = Denotes(FALSE, <<Trunc(a.q), 1>>, fair), m.fair
  PROVE  Stands(CastToInt(v), m)
<1>1. PICK real : real = FALSE
  OBVIOUS
<1>2. CASE IsReal(v)
  <2>1. v.q = a.q /\ v.q \in Numbers
    BY <1>2, StandsReal, ValParts
  <2>2. PICK t \in Int : t = Trunc(a.q)
    BY <2>1, TruncIs
  <2>3. m = Denotes(real, <<t, 1>>, fair)
    BY <1>1, <2>2
  <2>4. Small(t)
    <3>1. Abs(t) < Half
      BY <2>2 DEF Denotes, Half
    <3> QED BY <3>1, SmallAbs
  <2>5. IntOf(v.q) = t
    <3>1. Half \in Int
      BY HalfType
    <3>2. t \in -Half .. Half - 1
      BY <2>4, <3>1 DEF Small
    <3> QED BY <2>1, <2>2, <3>2 DEF IntOf, Half
  <2>6. CastToInt(v) = Val_CreateInt(t)
    BY <1>2, <2>5 DEF CastToInt
  <2> QED BY <1>1, <2>3, <2>6, IntStands
<1>3. CASE ~IsReal(v)
  <2>1. PICK x \in Int : Small(x) /\ a.q = <<x, 1>> /\ v.q = <<Long(x), 1>> /\ v.type = "kInt"
    BY <1>3, StandsInt
  <2>2. Trunc(a.q) = x
    <3>1. a.q \in Numbers /\ a.q[1] = x /\ a.q[2] = 1
      BY <2>1, IntNumber
    <3> QED BY <3>1, TruncIs
  <2>3. m.real = FALSE /\ m.q = <<x, 1>>
    BY <2>2 DEF Denotes
  <2>4. CastToInt(v) = v
    BY <1>3 DEF CastToInt
  <2> QED BY <2>1, <2>3, <2>4 DEF Stands, IsReal, Val_CheckResolved
<1> QED BY <1>2, <1>3

LEMMA Meaning1Stands ==
  ASSUME NEW op \in Unary, NEW v \in Vals, NEW a, NEW m, m = Meaning1(op, a), m.fair, a.fair => Stands(v, a),
         NEW o \in Apply1(op, v)
  PROVE  Stands(o.val, m)
<1>1. PICK real, fair : real = a.real /\ fair = a.fair
  OBVIOUS
<1>2. CASE op = "neg"
  <2>1. m = Denotes(real, Times(<<-1, 1>>, a.q), fair) /\ o \in Gives(Val_Neg(v))
    BY <1>1, <1>2 DEF Meaning1, Apply1
  <2>2. fair
    BY <2>1, DenotesFair
  <2>3. Stands(v, a) /\ o.val = Val_Neg(v)
    BY <1>1, <2>1, <2>2, GivesIs
  <2>4. m.real = a.real /\ m.q = Times(<<-1, 1>>, a.q)
    BY <1>1, <2>1, DenotesIs
  <2> QED BY <2>3, <2>4, NegStands
<1>3. CASE op = "!"
  <2>1. m = Denotes(real, IF a.q[1] = 0 THEN <<1, 1>> ELSE <<0, 1>>, fair) /\ o \in Gives(Val_Not(v))
    BY <1>1, <1>3 DEF Meaning1, Apply1
  <2>2. fair
    BY <2>1, DenotesFair
  <2>3. Stands(v, a) /\ o.val = Val_Not(v)
    BY <1>1, <2>1, <2>2, GivesIs
  <2>4. m = Denotes(a.real, IF a.q[1] = 0 THEN <<1, 1>> ELSE <<0, 1>>, fair)
    BY <1>1, <2>1
  <2> QED BY <2>3, <2>4, NotStands
<1>4. CASE op \in {"fract", "float"}
  <2>1. PICK g : g = (fair /\ (real \/ a.q[1] >= 0))
    OBVIOUS
  <2>2. m = Denotes(TRUE, a.q, g)
    BY <1>1, <1>4, <2>1 DEF Meaning1
  <2>3. g
    <3>1. PICK yes : yes = TRUE
      OBVIOUS
    <3>2. m = Denotes(yes, a.q, g)
      BY <2>2, <3>1
    <3> QED BY <3>2, DenotesFair
  <2>4. Stands(v, a) /\ (a.real \/ a.q[1] >= 0)
    BY <1>1, <2>1, <2>3
  <2>5. PICK type \in {"kFract", "kFloat"} : o \in Gives(CastToReal(v, type))
    BY <1>4, <2>4 DEF Apply1, Val_CastToFract, Val_CastToFloat, Stands
  <2>6. o.val = CastToReal(v, type)
    BY <2>5, GivesIs
  <2> QED BY <2>2, <2>4, <2>6, RealCastStands
<1>5. CASE op = "int"
  <2>1. m = Denotes(FALSE, <<Trunc(a.q), 1>>, fair)
    BY <1>1, <1>5 DEF Meaning1
  <2>2. fair
    <3>1. PICK no : no = FALSE
      OBVIOUS
    <3>2. m = Denotes(no, <<Trunc(a.q), 1>>, fair)
      BY <2>1, <3>1
    <3> QED BY <3>2, DenotesFair
  <2>3. Stands(v, a)
    BY <1>1, <2>2
  <2>4. o \in Gives(CastToInt(v))
    BY <1>5, <2>3 DEF Apply1, Val_CastToInt, Stands
  <2>5. o.val = CastToInt(v)
    BY <2>4, GivesIs
  <2> QED BY <2>1, <2>3, <2>5, IntCastStands
<1>6. CASE op = "~"
  <2>1. m = Denotes(TRUE, <<0, 1>>, FALSE)
    BY <1>6 DEF Meaning1
  <2>2. PICK yes, no : yes = TRUE /\ no = FALSE
    OBVIOUS
  <2>3. m = Denotes(yes, <<0, 1>>, no)
    BY <2>1, <2>2
  <2>4. no
    BY <2>3, DenotesFair
  <2> QED BY <2>2, <2>4
<1> QED BY <1>2, <1>3, <1>4, <1>5, <1>6 DEF Unary

----------------------------------------------------------------------------
(* The meaning of an expression, token by token.                           *)

\* The function Meaning is defined by, over the sets of the first tokens.
Means(g, ts, S) ==
  g = [s \in SUBSET S |-> IF s = {} THEN <<>> ELSE MeaningStep(g[s \ {Max(s)}], ts[Max(s)])]

LEMMA MeaningMeans ==
  ASSUME NEW exp
  PROVE  Meaning(exp) = ((CHOOSE g : Means(g, exp, DOMAIN exp))[DOMAIN exp])[1]
BY DEF Meaning, FoldLeft, MapThenFoldSet, Means

LEMMA MeansExist ==
  ASSUME NEW ts, NEW n \in Nat
  PROVE  \E g : Means(g, ts, 1 .. n)
<1> DEFINE Good(m) == \E g : Means(g, ts, 1 .. m)
           T == {m \in 0 .. n : Good(m)}
<1>1. 0 \in T
  <2> DEFINE g == [s \in SUBSET (1 .. 0) |-> <<>>]
  <2>1. \A s \in SUBSET (1 .. 0) : s = {}
    OBVIOUS
  <2>2. g = [s \in SUBSET (1 .. 0) |-> IF s = {} THEN <<>> ELSE MeaningStep(g[s \ {Max(s)}], ts[Max(s)])]
    BY <2>1
  <2>3. Means(g, ts, 1 .. 0)
    <3> HIDE DEF g
    <3> QED BY <2>2 DEF Means
  <2> QED BY <2>3
<1>2. ASSUME NEW m \in 1 .. n, m - 1 \in T PROVE m \in T
  <2>1. PICK g : Means(g, ts, 1 .. m - 1)
    BY <1>2
  <2>2. m \in Nat /\ m # 0 /\ m \in 0 .. n
    OBVIOUS
  <2> HIDE DEF T
  <2> DEFINE h == [s \in SUBSET (1 .. m) |-> IF m \in s THEN MeaningStep(g[s \ {m}], ts[m]) ELSE g[s]]
  <2>3. \A s \in SUBSET (1 .. m - 1) : /\ h[s] = g[s]
                                       /\ g[s] = IF s = {} THEN <<>> ELSE MeaningStep(g[s \ {Max(s)}], ts[Max(s)])
    <3> TAKE s \in SUBSET (1 .. m - 1)
    <3>1. s \in SUBSET (1 .. m) /\ m \notin s
      BY <2>2
    <3>2. g[s] = IF s = {} THEN <<>> ELSE MeaningStep(g[s \ {Max(s)}], ts[Max(s)])
      BY <2>1 DEF Means
    <3> QED BY <3>1, <3>2
  <2>4. \A s \in SUBSET (1 .. m) : h[s] = IF s = {} THEN <<>> ELSE MeaningStep(h[s \ {Max(s)}], ts[Max(s)])
    <3> TAKE s \in SUBSET (1 .. m)
    <3>1. CASE m \in s
      <4>1. Max(s) = m /\ s # {} /\ s \ {m} \in SUBSET (1 .. m - 1)
        BY <2>2, <3>1, MaxOfFirst
      <4>2. h[s] = MeaningStep(g[s \ {m}], ts[m])
        BY <3>1
      <4>3. h[s \ {m}] = g[s \ {m}]
        BY <2>3, <4>1
      <4> HIDE DEF h
      <4> QED BY <4>1, <4>2, <4>3
    <3>2. CASE m \notin s
      <4>1. s \in SUBSET (1 .. m - 1)
        BY <2>2, <3>2
      <4>2. s \ {Max(s)} \in SUBSET (1 .. m - 1)
        BY <4>1
      <4> HIDE DEF h
      <4> QED BY <2>3, <4>1, <4>2
    <3> QED BY <3>1, <3>2
  <2>5. Means(h, ts, 1 .. m)
    <3>1. h = [s \in SUBSET (1 .. m) |-> h[s]]
      OBVIOUS
    <3> HIDE DEF h
    <3> QED BY <2>4, <3>1 DEF Means
  <2>6. Good(m)
    BY <2>5
  <2> QED BY <2>2, <2>6 DEF T
<1>3. T = 0 .. n
  <2>1. T \in SUBSET (0 .. n)
    OBVIOUS
  <2> HIDE DEF T
  <2> QED BY <1>1, <1>2, <2>1, PassesOn
<1> QED BY <1>3

\* The stacks the meaning goes through.
Sense(ts, n, f) == f[0] = <<>> /\ \A i \in 1 .. n : f[i] = MeaningStep(f[i - 1], ts[i])

LEMMA MeaningSense ==
  ASSUME NEW ts \in Seq(Token)
  PROVE  \E f : Sense(ts, Len(ts), f) /\ Meaning(ts) = f[Len(ts)][1]
<1>1. PICK n \in Nat : n = Len(ts) /\ DOMAIN ts = 1 .. n
  OBVIOUS
<1> DEFINE g == CHOOSE r : Means(r, ts, DOMAIN ts)
<1>2. Meaning(ts) = g[1 .. n][1]
  BY <1>1, MeaningMeans
<1>3. Means(g, ts, 1 .. n)
  BY <1>1, MeansExist
<1> HIDE DEF g
<1>4. \A s \in SUBSET (1 .. n) : g[s] = IF s = {} THEN <<>> ELSE MeaningStep(g[s \ {Max(s)}], ts[Max(s)])
  BY <1>3 DEF Means
<1> DEFINE f == [i \in 0 .. n |-> g[1 .. i]]
<1>5. f[0] = <<>>
  <2>1. 1 .. 0 = {} /\ f[0] = g[1 .. 0]
    OBVIOUS
  <2> HIDE DEF f
  <2> QED BY <1>4, <2>1
<1>6. \A i \in 1 .. n : f[i] = MeaningStep(f[i - 1], ts[i])
  <2> TAKE i \in 1 .. n
  <2>0. i \in Nat /\ i >= 1 /\ i <= n
    OBVIOUS
  <2>1. 1 .. i \in SUBSET (1 .. n) /\ 1 .. i # {} /\ i \in 1 .. i
    BY <2>0
  <2>2. Max(1 .. i) = i
    BY <2>0, <2>1, MaxOfFirst
  <2>3. (1 .. i) \ {i} = 1 .. i - 1
    <3>1. \A j \in Int : j \in (1 .. i) \ {i} <=> j \in 1 .. i - 1
      BY <2>0
    <3> QED BY <3>1
  <2>4. g[1 .. i] = MeaningStep(g[1 .. i - 1], ts[i])
    BY <1>4, <2>1, <2>2, <2>3
  <2>5. f[i] = g[1 .. i] /\ f[i - 1] = g[1 .. i - 1]
    BY <2>0
  <2> HIDE DEF f
  <2> QED BY <2>4, <2>5
<1>7. f[n] = g[1 .. n]
  OBVIOUS
<1> HIDE DEF f
<1>8. Sense(ts, n, f)
  BY <1>5, <1>6 DEF Sense
<1> QED BY <1>1, <1>2, <1>7, <1>8

----------------------------------------------------------------------------
(* Constants stand for the numbers of their digits.                        *)

LEMMA DivModHas ==
  ASSUME NEW a \in Nat, NEW b \in Nat \ {0}
  PROVE  \E q \in Int, r \in Nat : q = a \div b /\ a = b * q + r /\ r < b
<1>1. a = b * (a \div b) + (a % b) /\ a % b \in Nat /\ a % b < b /\ a \div b \in Int
  BY DivMod
<1> QED BY <1>1

LEMMA NatInt == ASSUME NEW n \in Nat PROVE n \in Int
OBVIOUS

LEMMA AsIntSmall == ASSUME NEW n \in Nat, n < Half PROVE AsInt(n) = n /\ n < Pow2[LongBits]
<1>1. PICK h \in Nat \ {0} : h = Half /\ 2 * h = Pow2[IntBits] /\ h = Pow2[IntBits - 1]
  BY WidthTypes, PowerHalf DEF Half
<1>2. PICK c \in Nat \ {0} : Pow2[LongBits] = c * Pow2[IntBits]
  BY WidthTypes, PowerOf
<1>3. PICK l \in Nat \ {0} : l = Pow2[LongBits] /\ l = c * (2 * h)
  BY <1>1, <1>2, WidthTypes, PowerType
<1>4. l >= 2 * h
  BY <1>3
<1>5. n = n + 0 * Pow2[IntBits] /\ -h <= n /\ n < h
  BY <1>1
<1>6. AsInt(n) = n
  BY <1>1, <1>5, WidthTypes, SignedIs DEF AsInt
<1> QED BY <1>1, <1>3, <1>4, <1>6

\* The numbers Positional is defined by.
PlaceValues(f, base, digits) == f = [i \in 0 .. Len(digits) |-> IF i = 0 THEN 0 ELSE base * f[i - 1] + digits[i]]

LEMMA PositionalIs ==
  ASSUME NEW base \in Nat, NEW S, S \subseteq Nat, NEW digits \in Seq(S)
  PROVE  \E f : /\ Positional(base, digits) = f[Len(digits)] /\ f[0] = 0
                /\ \A i \in 1 .. Len(digits) : f[i] = base * f[i - 1] + digits[i]
<1>1. PICK n \in Nat : n = Len(digits)
  OBVIOUS
<1> DEFINE g == [p \in (1 .. n) \X Nat |-> base * p[2] + digits[p[1]]]
<1>2. \A i \in 1 .. n, x \in Nat : g[<<i, x>>] = base * x + digits[i] /\ digits[i] \in Nat
  <2> TAKE i \in 1 .. n, x \in Nat
  <2>1. digits[i] \in S
    BY <1>1
  <2>2. g[<<i, x>>] = base * x + digits[i]
    OBVIOUS
  <2> HIDE DEF g
  <2> QED BY <2>1, <2>2
<1> HIDE DEF g
<1>3. \A i \in 1 .. n, x \in Nat : g[<<i, x>>] \in Nat
  <2> TAKE i \in 1 .. n, x \in Nat
  <2>0. base * x \in Nat
    OBVIOUS
  <2>1. PICK y \in Nat, d \in Nat : y = base * x /\ d = digits[i]
    BY <1>2, <2>0
  <2>2. g[<<i, x>>] = y + d
    BY <1>2, <2>1
  <2> QED BY <2>2
<1>4. PICK f \in [0 .. n -> Nat] : Climbs(f, g, 0, n)
  BY <1>3, RecursionExists DEF Climbed
<1>5. PlaceValues(f, base, digits)
  <2>1. f = [i \in 0 .. n |-> f[i]]
    OBVIOUS
  <2>2. \A i \in 0 .. n : f[i] = IF i = 0 THEN 0 ELSE base * f[i - 1] + digits[i]
    <3> TAKE i \in 0 .. n
    <3>1. CASE i = 0
      BY <1>4, <3>1 DEF Climbs
    <3>2. CASE i # 0
      <4>1. i \in 1 .. n /\ i - 1 \in 0 .. n
        BY <3>2
      <4>2. f[i] = g[<<i, f[i - 1]>>] /\ f[i - 1] \in Nat
        BY <1>4, <4>1 DEF Climbs
      <4> QED BY <1>2, <3>2, <4>1, <4>2
    <3> QED BY <3>1, <3>2
  <2> QED BY <1>1, <2>1, <2>2 DEF PlaceValues
<1> DEFINE c == CHOOSE h : PlaceValues(h, base, digits)
<1>6. Positional(base, digits) = c[Len(digits)]
  BY DEF Positional, PlaceValues
<1>7. PlaceValues(c, base, digits)
  BY <1>5
<1> HIDE DEF c
<1>8. \A i \in 0 .. n : c[i] = IF i = 0 THEN 0 ELSE base * c[i - 1] + digits[i]
  BY <1>1, <1>7 DEF PlaceValues
<1>9. c[0] = 0 /\ \A i \in 1 .. n : c[i] = base * c[i - 1] + digits[i]
  BY <1>8
<1> QED BY <1>1, <1>6, <1>9

LEMMA BinPositional ==
  ASSUME NEW digits \in Seq({0, 1}), Len(digits) < WordBits
  PROVE  atobin(digits).int = Positional(2, digits) /\ Positional(2, digits) \in Nat
<1>1. PICK n \in Nat : n = Len(digits)
  OBVIOUS
<1>2. PICK f : BinDigits(f, digits, n) /\ atobin(digits).int = AsInt(f[n])
  BY <1>1, BinIs
<1>3. PICK g : Positional(2, digits) = g[n] /\ g[0] = 0 /\ \A i \in 1 .. n : g[i] = 2 * g[i - 1] + digits[i]
  <2>1. {0, 1} \subseteq Nat
    OBVIOUS
  <2> QED BY <1>1, <2>1, PositionalIs
<1> DEFINE T == {i \in 0 .. n : f[i] = g[i]}
<1>4. \A i \in 0 .. n : f[i] = IF i = 0 THEN 0 ELSE 2 * f[i - 1] + digits[i]
  BY <1>2 DEF BinDigits
<1>5. 0 \in T
  BY <1>3, <1>4
<1>6. ASSUME NEW i \in 1 .. n, i - 1 \in T PROVE i \in T
  BY <1>3, <1>4, <1>6
<1>7. T = 0 .. n
  <2>1. T \in SUBSET (0 .. n)
    OBVIOUS
  <2> HIDE DEF T
  <2> QED BY <1>5, <1>6, <2>1, PassesOn
<1>8. f[n] = g[n]
  BY <1>7
<1>9. f[n] \in Nat /\ f[n] < Pow2[n]
  BY <1>1, <1>2, BinDigitsOf
<1>10. Pow2[n] <= Half
  <2>1. PICK k \in Nat \ {0} : Pow2[IntBits - 1] = k * Pow2[n]
    <3>1. n <= IntBits - 1 /\ IntBits - 1 \in Nat
      BY <1>1, WidthTypes
    <3> QED BY <3>1, PowerOf
  <2>2. PICK p \in Nat \ {0} : p = Pow2[n]
    BY PowerType
  <2>3. k * p >= p
    OBVIOUS
  <2> QED BY <2>1, <2>2, <2>3 DEF Half
<1>11. AsInt(f[n]) = f[n]
  <2>1. PICK x \in Nat, p \in Nat, h \in Nat : x = f[n] /\ p = Pow2[n] /\ h = Half /\ x < p /\ p <= h
    BY <1>9, <1>10, PowerType, HalfType
  <2>2. x < Half
    BY <2>1
  <2> QED BY <2>1, <2>2, AsIntSmall
<1> QED BY <1>2, <1>3, <1>8, <1>9, <1>11

\* The bits of a number make it up.
LEMMA BitsMake ==
  ASSUME NEW y \in Nat, y < Pow2[LongBits]
  PROVE  FromBits(Bits(y)) = y
<1>1. PICK f \in [0 .. LongBits -> Nat] : SumsBits(f, Bits(y)) /\ FromBits(Bits(y)) = f[LongBits]
  BY FromBitsSums
<1>2. \A k \in 0 .. LongBits : f[k] = IF k = 0 THEN 0 ELSE f[k - 1] + (IF k - 1 \in Bits(y) THEN Pow2[k - 1] ELSE 0)
  BY <1>1 DEF SumsBits
<1> DEFINE T == {k \in 0 .. LongBits : f[k] = y % Pow2[k]}
<1>3. 0 \in T
  <2>1. y % 1 = 0 /\ Pow2[0] = 1
    BY Powers
  <2> QED BY <1>2, <2>1, WidthTypes
<1>4. ASSUME NEW k \in 1 .. LongBits, k - 1 \in T PROVE k \in T
  <2>1. PICK j \in Nat : j = k - 1 /\ j \in 0 .. LongBits - 1 /\ k \in Nat \ {0}
    BY WidthTypes
  <2>2. PICK p \in Nat \ {0} : p = Pow2[j] /\ Pow2[k] = 2 * p
    BY <2>1, PowerHalf
  <2>3. f[k] = f[j] + (IF j \in Bits(y) THEN p ELSE 0) /\ f[j] = y % p
    BY <1>2, <1>4, <2>1, <2>2
  <2>4. j \in Bits(y) <=> (y \div p) % 2 = 1
    BY <2>1, <2>2 DEF Bits
  <2>5. PICK q \in Int, r \in Nat : q = y \div p /\ r = y % p /\ y = p * q + r /\ r < p
    BY DivMod
  <2>6. PICK h \in Int, b \in Nat : h = q \div 2 /\ b = q % 2 /\ q = 2 * h + b /\ b < 2
    BY DivMod
  <2>7. PICK d \in Nat \ {0} : d = 2 * p
    OBVIOUS
  <2>a. f[k] = r + (IF b = 1 THEN p ELSE 0)
    BY <2>3, <2>4, <2>5, <2>6
  <2> HIDE DEF T
  <2>8. CASE b = 0
    <3>1. y = h * d + r /\ r < d
      <4>1. p * q = h * d
        BY <2>6, <2>7, <2>8
      <4> QED BY <2>5, <2>7, <4>1
    <3>2. y % d = r
      BY <3>1, NatInt, DivModIs, Zenon
    <3>3. f[k] = r
      BY <2>8, <2>a
    <3> QED BY <2>1, <2>2, <2>7, <3>2, <3>3 DEF T
  <2>9. CASE b = 1
    <3>1. PICK s \in Nat : s = p + r
      OBVIOUS
    <3>2. y = h * d + s /\ s < d
      <4>1. p * q = h * d + p
        BY <2>6, <2>7, <2>9
      <4> QED BY <2>5, <2>7, <3>1, <4>1
    <3>3. y % d = s
      BY <3>2, NatInt, DivModIs, Zenon
    <3>4. f[k] = s
      BY <2>9, <2>a, <3>1
    <3> QED BY <2>1, <2>2, <2>7, <3>3, <3>4 DEF T
  <2> QED BY <2>6, <2>8, <2>9
<1>5. T = 0 .. LongBits
  <2>1. T \in SUBSET (0 .. LongBits)
    OBVIOUS
  <2> HIDE DEF T
  <2> QED BY <1>3, <1>4, <2>1, WidthTypes, PassesOn
<1>6. f[LongBits] = y % Pow2[LongBits]
  BY <1>5, WidthTypes
<1>7. y % Pow2[LongBits] = y
  <2>1. PICK l \in Nat \ {0} : l = Pow2[LongBits]
    BY WidthTypes, PowerType
  <2>2. y = 0 * l + y /\ y < l
    BY <2>1
  <2>3. y % l = y
    BY <2>2, DivModIs
  <2> QED BY <2>1, <2>3
<1> QED BY <1>1, <1>6, <1>7

\* Bits above a place, and below it.
LEMMA BitsApart ==
  ASSUME NEW m \in Nat, NEW p, p = Pow2[m], NEW x \in Nat, NEW c \in Nat, c < p
  PROVE  Bits(x * p + c) = Bits(x * p) \cup Bits(c)
<1>0. p \in Nat \ {0}
  BY PowerType
<1> SUFFICES ASSUME NEW k \in 0 .. LongBits - 1
             PROVE  k \in Bits(x * p + c) <=> k \in Bits(x * p) \/ k \in Bits(c)
  BY DEF Bits
<1>1. k \in Nat
  OBVIOUS
<1>2. PICK w \in Nat \ {0} : w = Pow2[k]
  BY <1>1, PowerType
<1>3. \A n : k \in Bits(n) <=> (n \div w) % 2 = 1
  BY <1>2 DEF Bits
<1>4. PICK a \in Nat, b \in Nat : a = x * p + c /\ b = x * p
  BY <1>0
<1>5. CASE k < m
  <2>1. PICK i \in Nat \ {0} : m = k + i
    BY <1>5
  <2>2. PICK u \in Nat \ {0} : Pow2[i] = 2 * u
    BY <2>1, PowerHalf
  <2>3. p = w * (2 * u)
    BY <1>1, <1>2, <2>1, <2>2, PowerSum
  <2>4. PICK q \in Int, r \in Nat : q = c \div w /\ c = w * q + r /\ r < w
    BY DivModHas
  <2>5. PICK y \in Int : y = x * u
    OBVIOUS
  <2>6. b = (2 * y) * w + 0 /\ a = (2 * y + q) * w + r
    <3>1. b = (2 * y) * w
      BY <1>4, <2>3, <2>5
    <3>2. (2 * y + q) * w = (2 * y) * w + w * q
      OBVIOUS
    <3>3. PICK e \in Int, g \in Int : e = (2 * y) * w /\ g = w * q
      OBVIOUS
    <3>4. a = b + c /\ c = g + r
      BY <1>4, <2>4, <3>3
    <3> QED BY <3>1, <3>2, <3>3, <3>4
  <2>7. b \div w = 2 * y /\ a \div w = 2 * y + q
    <3>1. PICK e \in Int, g \in Int : e = 2 * y /\ g = 2 * y + q
      OBVIOUS
    <3>2. b = e * w + 0 /\ a = g * w + r /\ 0 < w
      BY <2>6, <3>1
    <3>3. b \div w = e
      BY <3>2, DivModIs
    <3>4. a \div w = g
      BY <2>4, <3>2, DivModIs
    <3> QED BY <3>1, <3>3, <3>4
  <2>8. (2 * y) % 2 = 0 /\ (2 * y + q) % 2 = q % 2
    OBVIOUS
  <2> QED BY <1>3, <1>4, <2>4, <2>7, <2>8
<1>6. CASE ~(k < m)
  <2>1. PICK u \in Nat \ {0} : w = u * p
    BY <1>1, <1>2, <1>6, PowerOf
  <2>2. PICK q \in Int, r \in Nat : x = u * q + r /\ r < u
    BY DivModHas
  <2>3. PICK s \in Nat : s = r * p + c
    BY <1>0
  <2>4. s < w
    <3>1. r + 1 <= u
      BY <2>2
    <3>2. (r + 1) * p <= u * p
      BY <1>0, <3>1
    <3>3. (r + 1) * p = r * p + p
      BY <1>0
    <3>4. PICK e \in Int : e = r * p
      BY <1>0
    <3> QED BY <1>0, <2>1, <2>3, <3>2, <3>3, <3>4
  <2>5. b = q * w + r * p /\ a = q * w + s
    <3>1. x * p = (u * q) * p + r * p
      BY <1>0, <2>2
    <3>2. (u * q) * p = q * w
      BY <1>0, <2>1
    <3> QED BY <1>0, <1>4, <2>3, <3>1, <3>2
  <2>6. PICK t \in Nat : t = r * p /\ t < w
    <3>1. PICK t \in Nat : t = r * p
      BY <1>0
    <3> QED BY <2>3, <2>4, <3>1
  <2>7. b \div w = q
    <3>1. b = q * w + t
      BY <2>5, <2>6
    <3> QED BY <2>6, <3>1, NatInt, DivModIs, Zenon
  <2>8. a \div w = q
    BY <2>4, <2>5, DivModIs
  <2>9. c \div w = 0
    <3>1. c < w /\ c = 0 * w + c
      <4>1. PICK e \in Int : e = r * p /\ e >= 0
        BY <2>6
      <4> QED BY <2>3, <2>4, <4>1
    <3> QED BY <3>1, DivModIs
  <2> QED BY <1>3, <1>4, <2>7, <2>8, <2>9
<1> QED BY <1>5, <1>6

LEMMA OrAdds ==
  ASSUME NEW m \in Nat, NEW p, p = Pow2[m], NEW x \in Nat, NEW c \in Nat, c < p,
         NEW y \in Nat, y = x * p + c, y < Pow2[LongBits]
  PROVE  Or(x * p, c) = y
<1>1. Bits(y) = Bits(x * p) \cup Bits(c)
  BY BitsApart
<1> QED BY <1>1, BitsMake DEF Or

LEMMA NextCharAdds ==
  ASSUME NEW x \in Nat, NEW c \in Nat, c < Pow2[CharBits - 1], NEW y \in Nat, y = Pow2[CharBits] * x + c, y < Half
  PROVE  NextChar(x, c) = y
<1>1. PICK h \in Nat \ {0} : h = Pow2[CharBits - 1] /\ Pow2[CharBits] = 2 * h
  BY WidthTypes, PowerHalf
<1>2. PICK p \in Nat \ {0} : p = Pow2[CharBits] /\ p = 2 * h
  BY <1>1, WidthTypes, PowerType
<1>3. PICK z \in Nat : z = x * p /\ y = z + c
  <2>1. PICK z \in Nat : z = x * p
    OBVIOUS
  <2> QED BY <1>2, <2>1
<1>4. PICK k \in Nat : k = Half /\ y < k
  BY HalfType
<1>5. c < h /\ c < p /\ z < k /\ c < k
  BY <1>1, <1>2, <1>3, <1>4
<1>6. Long(z) = z /\ Long(c) = c
  <2>1. -k < z /\ -k < c /\ z >= 0 /\ c >= 0
    BY <1>4, <1>5
  <2> QED BY <1>4, <1>5, <2>1, LongSmall
<1>7. Signed(c, CharBits) = c
  <2>1. c = c + 0 * p /\ -h <= c
    BY <1>1
  <2> QED BY <1>1, <1>2, <1>5, <2>1, WidthTypes, SignedIs
<1>8. AsInt(y) = y /\ y < Pow2[LongBits]
  BY AsIntSmall
<1>9. Or(z, c) = y
  <2>1. CharBits \in Nat /\ y = x * p + c
    BY <1>3, WidthTypes
  <2>2. Or(x * p, c) = y
    BY <1>2, <1>5, <1>8, <2>1, OrAdds
  <2> QED BY <1>3, <2>2
<1> QED BY <1>2, <1>3, <1>6, <1>7, <1>8, <1>9 DEF NextChar

LEMMA CharPlaces ==
  ASSUME NEW i \in 1 .. 3
  PROVE  /\ CharBits * i \in Nat /\ CharBits * (i - 1) \in Nat /\ Pow2[CharBits * i] <= Half
         /\ Pow2[CharBits * i] = Pow2[CharBits * (i - 1)] * Pow2[CharBits]
<1>1. PICK c \in Nat \ {0} : c = CharBits /\ 3 * c < IntBits
  BY WidthTypes
<1>2. PICK m \in Nat, n \in Nat : m = c * (i - 1) /\ n = c * i
  OBVIOUS
<1>3. n = m + c /\ n <= 3 * c
  BY <1>2
<1>4. Pow2[n] = Pow2[m] * Pow2[c]
  BY <1>3, PowerSum
<1>5. PICK k \in Nat \ {0} : Pow2[IntBits - 1] = k * Pow2[n]
  <2>1. IntBits - 1 \in Nat /\ n <= IntBits - 1
    BY <1>1, <1>3, WidthTypes
  <2> QED BY <2>1, PowerOf
<1>6. PICK p \in Nat \ {0} : p = Pow2[n]
  BY PowerType
<1>7. k * p >= p
  OBVIOUS
<1> QED BY <1>1, <1>2, <1>4, <1>5, <1>6, <1>7 DEF Half

LEMMA CharsPositional ==
  ASSUME NEW chars \in Codes, Len(chars) <= 3, \A i \in DOMAIN chars : chars[i] < Pow2[CharBits - 1]
  PROVE  StrToInt(chars) = Positional(Pow2[CharBits], chars) /\ Positional(Pow2[CharBits], chars) \in Nat
<1>0. PICK b \in Nat \ {0} : b = Pow2[CharBits] /\ chars \in Seq(0 .. b - 1)
  BY WidthTypes, PowerType DEF Codes
<1>a. PICK S : S = 0 .. b - 1 /\ chars \in Seq(S) /\ S \subseteq Nat
  BY <1>0
<1>1. PICK n \in 0 .. 3 : n = Len(chars) /\ DOMAIN chars = 1 .. n
  <2>1. Len(chars) \in Nat /\ DOMAIN chars = 1 .. Len(chars)
    BY <1>a
  <2>2. Len(chars) \in 0 .. 3
    BY <2>1
  <2> QED BY <2>1, <2>2
<1>2. PICK f : CharCodes(f, chars) /\ StrToInt(chars) = f[n]
  BY <1>1, CharsIs
<1>3. PICK g : Positional(b, chars) = g[n] /\ g[0] = 0 /\ \A i \in 1 .. n : g[i] = b * g[i - 1] + chars[i]
  <2>1. b \in Nat
    OBVIOUS
  <2> QED BY <1>1, <1>a, <2>1, PositionalIs
<1>4. \A i \in 0 .. n : f[i] = IF i = 0 THEN 0 ELSE NextChar(f[i - 1], chars[i])
  BY <1>1, <1>2 DEF CharCodes
<1> DEFINE T == {i \in 0 .. n : f[i] = g[i] /\ f[i] \in Nat /\ f[i] < Pow2[CharBits * i]}
<1>5. 0 \in T
  <2>1. CharBits * 0 = 0 /\ f[0] = 0
    BY <1>4, WidthTypes
  <2> QED BY <1>3, <2>1, Powers
<1>6. ASSUME NEW i \in 1 .. n, i - 1 \in T PROVE i \in T
  <2>1. i \in 1 .. 3 /\ i - 1 \in 0 .. n
    OBVIOUS
  <2>2. PICK x \in Nat, q \in Nat \ {0} : x = f[i - 1] /\ x = g[i - 1] /\ q = Pow2[CharBits * (i - 1)] /\ x < q
    BY <1>6, <2>1, CharPlaces, PowerType
  <2>3. PICK c \in Nat : c = chars[i] /\ c < b /\ c < Pow2[CharBits - 1]
    <3>1. chars[i] \in 0 .. b - 1
      BY <1>1, <1>a
    <3>2. chars[i] < Pow2[CharBits - 1]
      BY <1>1
    <3> QED BY <3>1, <3>2
  <2>4. PICK y \in Nat : y = b * x + c
    OBVIOUS
  <2>5. PICK h \in Nat : h = Half /\ q * b <= h /\ Pow2[CharBits * i] = q * b
    BY <1>0, <2>1, <2>2, CharPlaces, HalfType
  <2>6. y < q * b
    <3>0. x + 1 <= q
      BY <2>2
    <3>1. (x + 1) * b <= q * b
      BY <3>0
    <3>2. (x + 1) * b = b * x + b
      OBVIOUS
    <3>3. PICK u \in Int, w \in Int : u = q * b /\ w = b * x
      OBVIOUS
    <3>4. w + b <= u
      BY <3>1, <3>2, <3>3
    <3>5. y = w + c
      BY <2>4, <3>3
    <3>6. w + c < w + b
      BY <2>3
    <3>7. y < u
      BY <3>4, <3>5, <3>6
    <3> QED BY <3>3, <3>7
  <2>7. y < Half
    <3>1. PICK u \in Int : u = q * b
      OBVIOUS
    <3> QED BY <2>5, <2>6, <3>1
  <2>8. NextChar(x, c) = y
    BY <1>0, <2>3, <2>4, <2>7, NextCharAdds
  <2>a. g[i] = b * g[i - 1] + chars[i]
    BY <1>3
  <2>b. f[i] = NextChar(f[i - 1], chars[i])
    <3>1. i \in 0 .. n /\ i # 0
      OBVIOUS
    <3> QED BY <1>4, <3>1
  <2>9. f[i] = y /\ g[i] = y
    BY <2>2, <2>3, <2>4, <2>8, <2>a, <2>b
  <2> QED BY <2>5, <2>6, <2>9
<1>7. T = 0 .. n
  <2>1. T \in SUBSET (0 .. n) /\ n \in Nat
    OBVIOUS
  <2> HIDE DEF T
  <2> QED BY <1>5, <1>6, <2>1, PassesOn
<1>8. f[n] = g[n] /\ f[n] \in Nat
  BY <1>7
<1> QED BY <1>0, <1>2, <1>3, <1>8

\* A literal stands for what it denotes.
LEMMA NumStands ==
  ASSUME NEW v \in Value, NEW m, m = Denotes(IsReal(v), IF IsReal(v) THEN v.q ELSE <<Signed(v.q[1], LongBits), 1>>, TRUE), m.fair
  PROVE  Stands(v, m)
<1>1. v.type \in Resolved /\ ~Val_CheckResolved(v)
  BY ValueVals DEF Resolved, Val_CheckResolved
<1>a. PICK real : real = IsReal(v)
  OBVIOUS
<1>2. real = IsReal(v) /\ real \in BOOLEAN
  BY <1>a DEF IsReal
<1>3. m.real = real
  BY <1>2 DEF Denotes
<1>4. CASE real
  <2>1. m.q = v.q
    BY <1>2, <1>4 DEF Denotes
  <2> QED BY <1>1, <1>2, <1>3, <1>4, <2>1 DEF Stands
<1>5. CASE ~real
  <2>1. v.q \in (0 .. Pow2[LongBits] - 1) \X {1}
    BY <1>2, <1>5 DEF Value, IsReal
  <2>2. PICK n : n \in 0 .. Pow2[LongBits] - 1 /\ v.q = <<n, 1>>
    BY <2>1
  <2>3. n \in Nat /\ n < Pow2[LongBits]
    <3>1. PICK l \in Nat \ {0} : l = Pow2[LongBits]
      BY WidthTypes, PowerType
    <3> QED BY <2>2, <3>1
  <2>4. PICK s \in Int : s = Signed(n, LongBits) /\ \E k \in Int : n = s + k * Pow2[LongBits]
    BY <2>3, WidthTypes, SignedOf
  <2>5. m.q = <<s, 1>> /\ Abs(s) < Half
    BY <1>2, <1>5, <2>2, <2>4 DEF Denotes, Half
  <2>6. Long(s) = n
    <3>1. PICK l \in Nat \ {0} : l = Pow2[LongBits] /\ n < l
      BY <2>3, WidthTypes, PowerType
    <3>2. PICK k \in Int : n = s + k * l
      BY <2>4, <3>1
    <3>3. PICK j \in Int : j = -k
      OBVIOUS
    <3>4. j * l = -(k * l)
      BY <3>3
    <3>5. s = n + j * l
      BY <3>2, <3>4
    <3> QED BY <2>3, <3>1, <3>5, LongOf
  <2>7. Small(s)
    BY <2>5, SmallAbs
  <2> QED BY <1>1, <1>2, <1>3, <1>5, <2>2, <2>5, <2>6, <2>7 DEF Stands
<1> QED BY <1>4, <1>5

LEMMA LeafStands ==
  ASSUME NEW t \in Token, t.k # "op", NEW o \in Leaf(t), NEW m, m = MeaningOf(t), m.fair
  PROVE  Stands(o.val, m)
<1>1. t.k \in {"num", "sym", "bin", "chars", "here"}
  BY DEF Token
<1>2. CASE t.k = "num"
  <2>1. t.num \in Value /\ o.val = t.num
    BY <1>2 DEF Token, Leaf, Gives
  <2>2. m = Denotes(IsReal(t.num), IF IsReal(t.num) THEN t.num.q ELSE <<Signed(t.num.q[1], LongBits), 1>>, TRUE)
    BY <1>2 DEF MeaningOf
  <2> QED BY <2>1, <2>2, NumStands
<1>3. CASE t.k = "bin"
  <2>1. t.digits \in Seq({0, 1}) /\ o.val = Val_CreateInt(atobin(t.digits).int)
    BY <1>3 DEF Token, Leaf, Gives
  <2>2. PICK real : real = FALSE
    OBVIOUS
  <2>3. PICK fair : fair = (Len(t.digits) < WordBits)
    OBVIOUS
  <2>4. m = Denotes(real, <<Positional(2, t.digits), 1>>, fair)
    BY <1>3, <2>2, <2>3 DEF MeaningOf
  <2>5. fair
    BY <2>4, DenotesFair
  <2>6. PICK n \in Int : n = Positional(2, t.digits) /\ n = atobin(t.digits).int
    <3>1. Len(t.digits) < WordBits
      BY <2>3, <2>5
    <3>2. atobin(t.digits).int = Positional(2, t.digits) /\ Positional(2, t.digits) \in Nat
      BY <2>1, <3>1, BinPositional
    <3> QED BY <3>2
  <2> QED BY <2>1, <2>2, <2>4, <2>6, IntStands
<1>4. CASE t.k = "chars"
  <2>1. t.chars \in Codes /\ o.val = Val_CreateInt(StrToInt(t.chars))
    BY <1>4 DEF Token, Leaf, Gives, Codes
  <2>2. PICK real : real = FALSE
    OBVIOUS
  <2>3. PICK fair : fair = (Len(t.chars) <= 3 /\ \A i \in DOMAIN t.chars : t.chars[i] < Pow2[CharBits - 1])
    OBVIOUS
  <2>4. m = Denotes(real, <<Positional(Pow2[CharBits], t.chars), 1>>, fair)
    BY <1>4, <2>2, <2>3 DEF MeaningOf
  <2>5. fair
    BY <2>4, DenotesFair
  <2>6. PICK n \in Int : n = Positional(Pow2[CharBits], t.chars) /\ n = StrToInt(t.chars)
    <3>1. Len(t.chars) <= 3 /\ \A i \in DOMAIN t.chars : t.chars[i] < Pow2[CharBits - 1]
      BY <2>3, <2>5
    <3>2. StrToInt(t.chars) = Positional(Pow2[CharBits], t.chars) /\ Positional(Pow2[CharBits], t.chars) \in Nat
      BY <2>1, <3>1, CharsPositional
    <3> QED BY <3>2
  <2> QED BY <2>1, <2>2, <2>4, <2>6, IntStands
<1>5. CASE t.k \in {"sym", "here"}
  BY <1>5 DEF MeaningOf, Denotes
<1> QED BY <1>1, <1>2, <1>3, <1>4, <1>5

\* The values of a stack stand for what is meant.
Match(stack, ms) == /\ \E S : ms \in Seq(S)
                    /\ Len(stack) = Len(ms)
                    /\ \A j \in 1 .. Len(ms) : ms[j].fair => Stands(stack[j], ms[j])

\* The first values of a stack, and one more.
LEMMA Pushed ==
  ASSUME NEW S, NEW s \in Seq(S), NEW k \in 0 .. Len(s), NEW x
  PROVE  LET r == Append(SubSeq(s, 1, k), x)
         IN /\ Len(r) = k + 1 /\ r[k + 1] = x /\ \A j \in 1 .. k : r[j] = s[j]
            /\ \A U : S \subseteq U /\ x \in U => r \in Seq(U)
<1>1. k \in Nat /\ Len(s) \in Nat
  OBVIOUS
<1>2. PICK a : a = SubSeq(s, 1, k)
  OBVIOUS
<1>3. a \in Seq(S) /\ Len(a) = k /\ \A j \in 1 .. k : a[j] = s[j]
  <2>1. a \in Seq(S) /\ Len(a) = IF 1 <= k THEN k - 1 + 1 ELSE 0
    <3>1. \A i \in 1 .. k : i \in DOMAIN s
      OBVIOUS
    <3> QED BY <1>1, <1>2, <3>1, SubSeqProperties
  <2>2. \A j \in 1 .. k : a[j] = s[j]
    BY <1>1, <1>2
  <2> QED BY <1>1, <2>1, <2>2
<1>4. PICK r : r = Append(a, x)
  OBVIOUS
<1>5. Len(r) = k + 1 /\ r[k + 1] = x /\ \A j \in 1 .. k : r[j] = a[j]
  <2>1. a \in Seq(S \cup {x}) /\ x \in S \cup {x}
    BY <1>3
  <2>2. Len(r) = Len(a) + 1 /\ r[Len(a) + 1] = x /\ \A j \in 1 .. Len(a) : r[j] = a[j]
    BY <1>4, <2>1, AppendProperties
  <2> QED BY <1>3, <2>2
<1>6. ASSUME NEW U, S \subseteq U, x \in U PROVE r \in Seq(U)
  <2>1. a \in Seq(U)
    BY <1>3, <1>6
  <2> QED BY <1>4, <1>6, <2>1
<1> QED BY <1>2, <1>3, <1>4, <1>5, <1>6

LEMMA MatchPushed ==
  ASSUME NEW stack \in Seq(Vals), NEW ms, Match(stack, ms), NEW k \in 0 .. Len(stack),
         NEW v \in Vals, NEW m, m.fair => Stands(v, m)
  PROVE  Match(Append(SubSeq(stack, 1, k), v), Append(SubSeq(ms, 1, k), m))
<1>1. PICK S : ms \in Seq(S)
  BY DEF Match
<1>2. PICK n \in Nat : n = Len(stack) /\ n = Len(ms)
  BY DEF Match
<1>3. PICK c : c = Append(SubSeq(stack, 1, k), v)
  OBVIOUS
<1>4. Len(c) = k + 1 /\ c[k + 1] = v /\ \A j \in 1 .. k : c[j] = stack[j]
  BY <1>3, Pushed
<1>5. PICK d : d = Append(SubSeq(ms, 1, k), m)
  OBVIOUS
<1>6. k \in 0 .. Len(ms)
  BY <1>2
<1>7. Len(d) = k + 1 /\ d[k + 1] = m /\ \A j \in 1 .. k : d[j] = ms[j]
  BY <1>1, <1>5, <1>6, Pushed
<1>8. PICK U : d \in Seq(U)
  <2>1. S \subseteq S \cup {m} /\ m \in S \cup {m}
    OBVIOUS
  <2>2. d \in Seq(S \cup {m})
    BY <1>1, <1>5, <1>6, <2>1, Pushed
  <2> QED BY <2>2
<1>9. \A j \in 1 .. k : ms[j].fair => Stands(stack[j], ms[j])
  BY <1>2 DEF Match
<1>10. ASSUME NEW j \in 1 .. k + 1, d[j].fair PROVE Stands(c[j], d[j])
  <2>1. CASE j = k + 1
    BY <1>4, <1>7, <1>10, <2>1
  <2>2. CASE j # k + 1
    <3>1. j \in 1 .. k
      BY <2>2
    <3> QED BY <1>4, <1>7, <1>9, <1>10, <3>1
  <2> QED BY <2>1, <2>2
<1>11. Match(c, d)
  BY <1>4, <1>7, <1>8, <1>10 DEF Match
<1> QED BY <1>3, <1>5, <1>11

LEMMA ReduceErr == ASSUME NEW s, NEW t, NEW e \in Reduce(s, t), ~e.err PROVE ~s.err
<1>1. PICK o, stack : e = [stack |-> stack, err |-> s.err \/ o.err]
  BY DEF Reduce
<1> QED BY <1>1

LEMMA ReduceStands ==
  ASSUME Table, KeptVals, pc \in Nat, NEW t \in Token,
         NEW s, s.stack \in Seq(Vals), Arity(t) <= Len(s.stack), NEW e \in Reduce(s, t), ~e.err,
         NEW ms, Match(s.stack, ms)
  PROVE  ~s.err /\ Match(e.stack, MeaningStep(ms, t))
<1>1. t.k = "op" => t.op \in Binary \cup Unary
  BY DEF Token
<1>2. PICK n \in Nat : n = Len(s.stack) /\ n = Len(ms)
  BY DEF Match
<1>3. \A j \in 1 .. n : s.stack[j] \in Vals /\ (ms[j].fair => Stands(s.stack[j], ms[j]))
  BY <1>2 DEF Match
<1>4. CASE t.k # "op"
  <2>1. PICK o \in Leaf(t) : e = [stack |-> Append(s.stack, o.val), err |-> s.err \/ o.err]
    BY <1>4 DEF Reduce
  <2>2. o.val \in Vals
    BY <1>4, <2>1, LeafVals DEF AllVals
  <2>3. PICK m : m = MeaningOf(t)
    OBVIOUS
  <2>4. m.fair => Stands(o.val, m)
    BY <1>4, <2>3, LeafStands
  <2>5. e.stack = Append(SubSeq(s.stack, 1, n), o.val) /\ MeaningStep(ms, t) = Append(SubSeq(ms, 1, n), m)
    <3>0. PICK S : ms \in Seq(S)
      BY DEF Match
    <3>1. SubSeq(s.stack, 1, n) = s.stack
      BY <1>2, SubSeqFull
    <3>2. SubSeq(ms, 1, n) = ms
      BY <1>2, <3>0, SubSeqFull
    <3> QED BY <1>4, <2>1, <2>3, <3>1, <3>2 DEF MeaningStep
  <2>6. n \in 0 .. Len(s.stack)
    BY <1>2
  <2>7. ~s.err
    BY <2>1
  <2> QED BY <2>2, <2>4, <2>5, <2>6, <2>7, MatchPushed
<1>5. CASE t.k = "op" /\ t.op \in Binary
  <2>0. Arity(t) = 2 /\ n >= 2
    BY <1>2, <1>5 DEF Arity
  <2>1. PICK o \in Apply2(t.op, s.stack[n - 1], s.stack[n], g_passNum + 1) :
           e = [stack |-> Append(SubSeq(s.stack, 1, n - 2), o.val), err |-> s.err \/ o.err]
    BY <1>2, <1>5 DEF Reduce
  <2>2. PICK v \in Vals, w \in Vals : v = s.stack[n - 1] /\ w = s.stack[n]
    BY <1>3, <2>0
  <2>3. PICK a, b : a = ms[n - 1] /\ b = ms[n] /\ (a.fair => Stands(v, a)) /\ (b.fair => Stands(w, b))
    BY <1>3, <2>0, <2>2
  <2>4. PICK op \in Binary : op = t.op
    BY <1>5
  <2>p. PICK pass : pass = g_passNum + 1
    OBVIOUS
  <2>5. o \in Apply2(op, v, w, pass)
    BY <2>1, <2>2, <2>4, <2>p
  <2>6. o.val \in Vals
    BY <2>5, Apply2Vals DEF AllVals
  <2>7. ~s.err /\ ~o.err
    BY <2>1
  <2>8. PICK m : m = Meaning2(op, a, b)
    OBVIOUS
  <2>9. m.fair => Stands(o.val, m)
    BY <2>3, <2>5, <2>7, <2>8, Meaning2Stands
  <2>10. e.stack = Append(SubSeq(s.stack, 1, n - 2), o.val) /\ MeaningStep(ms, t) = Append(SubSeq(ms, 1, n - 2), m)
    BY <1>2, <1>5, <2>1, <2>3, <2>4, <2>8 DEF MeaningStep
  <2>11. n - 2 \in 0 .. Len(s.stack)
    BY <1>2, <2>0
  <2> QED BY <2>6, <2>7, <2>9, <2>10, <2>11, MatchPushed
<1>6. CASE t.k = "op" /\ t.op \notin Binary
  <2>0. Arity(t) = 1 /\ n >= 1 /\ t.op \in Unary
    BY <1>1, <1>2, <1>6 DEF Arity
  <2>1. PICK o \in Apply1(t.op, s.stack[n]) :
           e = [stack |-> Append(SubSeq(s.stack, 1, n - 1), o.val), err |-> s.err \/ o.err]
    BY <1>2, <1>6 DEF Reduce
  <2>2. PICK v \in Vals : v = s.stack[n]
    BY <1>3, <2>0
  <2>3. PICK a : a = ms[n] /\ (a.fair => Stands(v, a))
    BY <1>3, <2>0, <2>2
  <2>4. PICK op \in Unary : op = t.op
    BY <2>0
  <2>5. o \in Apply1(op, v)
    BY <2>1, <2>2, <2>4
  <2>6. o.val \in Vals
    BY <2>5, Apply1Vals DEF AllVals
  <2>7. ~s.err
    BY <2>1
  <2>8. PICK m : m = Meaning1(op, a)
    OBVIOUS
  <2>9. m.fair => Stands(o.val, m)
    BY <2>3, <2>5, <2>8, Meaning1Stands
  <2>10. e.stack = Append(SubSeq(s.stack, 1, n - 1), o.val) /\ MeaningStep(ms, t) = Append(SubSeq(ms, 1, n - 1), m)
    BY <1>2, <1>6, <2>1, <2>3, <2>4, <2>8 DEF MeaningStep
  <2>11. n - 1 \in 0 .. Len(s.stack)
    BY <1>2, <2>0
  <2> QED BY <2>6, <2>7, <2>9, <2>10, <2>11, MatchPushed
<1> QED BY <1>4, <1>5, <1>6

\* What an expression comes to stands for what it denotes.
LEMMA EvaluateStands ==
  ASSUME Table, KeptVals, pc \in Nat, NEW exps, NEW ts \in Seq(Token), ts = FlattenSeq(exps), Reducible(ts),
         Depth(ts, Len(ts)) = 1, NEW e \in Evaluate(exps), ~e.err, NEW m, m = Meaning(ts), m.fair
  PROVE  e.stack[1] \in Vals /\ Stands(e.stack[1], m)
<1>1. PICK n : n = Len(ts)
  OBVIOUS
<1>2. n \in Nat /\ DOMAIN ts = 1 .. n
  BY <1>1
<1>3. PICK f : Run(ts, n, f) /\ f[n] = e
  BY <1>1, EvaluateRuns DEF RunsTo
<1>a. PICK g : Sense(ts, n, g) /\ m = g[n][1]
  BY <1>1, MeaningSense
<1> DEFINE Good(i) == /\ f[i].stack \in Seq(Vals) /\ Len(f[i].stack) = Depth(ts, i)
                      /\ ~f[i].err => Match(f[i].stack, g[i])
           T == {i \in 0 .. n : Good(i)}
<1>4. 0 \in T
  <2>1. f[0].stack = <<>> /\ g[0] = <<>>
    BY <1>3, <1>a DEF Run, Start, Sense
  <2>2. <<>> \in Seq(Vals) /\ Len(<<>>) = 0
    OBVIOUS
  <2>3. Depth(ts, 0) = 0
    <3> HIDE DEF Good, T
    <3> QED BY DepthNone
  <2>4. Match(<<>>, <<>>)
    <3> HIDE DEF Good, T
    <3>1. <<>> \in Seq({})
      OBVIOUS
    <3> QED BY <2>2, <3>1 DEF Match
  <2>5. f[0].stack \in Seq(Vals) /\ Len(f[0].stack) = Depth(ts, 0) /\ Match(f[0].stack, g[0]) /\ 0 \in 0 .. n
    <3> HIDE DEF Good, T
    <3> QED BY <1>2, <2>1, <2>2, <2>3, <2>4
  <2> QED BY <2>5
<1>5. ASSUME NEW i \in 1 .. n, i - 1 \in T PROVE i \in T
  <2>1. PICK k \in 0 .. n : k = i - 1 /\ i = k + 1
    BY <1>2
  <2>2. PICK t \in Token : t = ts[i]
    BY <1>1
  <2>3. /\ f[i] \in Reduce(f[k], t) /\ f[k].stack \in Seq(Vals) /\ Len(f[k].stack) = Depth(ts, k)
        /\ ~f[k].err => Match(f[k].stack, g[k])
    BY <1>3, <1>5, <2>1, <2>2 DEF Run
  <2>4. Arity(t) <= Len(f[k].stack)
    BY <1>2, <2>1, <2>2, <2>3 DEF Reducible
  <2>5. f[i].stack \in Seq(Vals) /\ Len(f[i].stack) = Len(f[k].stack) + 1 - Arity(t)
    <3> HIDE DEF Good, T
    <3> QED BY <2>3, <2>4, ReduceVals
  <2>6. Depth(ts, i) = Depth(ts, k) + 1 - Arity(ts[i])
    <3>1. k \in Nat /\ i = k + 1
      BY <1>2, <2>1
    <3> HIDE DEF Good, T
    <3> QED BY <3>1, DepthNext
  <2>7. g[i] = MeaningStep(g[k], t)
    BY <1>a, <2>1, <2>2 DEF Sense
  <2>8. ~f[i].err => ~f[k].err
    BY <2>3, ReduceErr
  <2>9. ~f[i].err => Match(f[i].stack, g[i])
    <3> HIDE DEF Good, T
    <3> QED BY <2>3, <2>4, <2>7, <2>8, ReduceStands
  <2> QED BY <2>2, <2>3, <2>5, <2>6, <2>9
<1>6. T = 0 .. n
  <2>1. T \in SUBSET (0 .. n)
    OBVIOUS
  <2> HIDE DEF T
  <2> QED BY <1>2, <1>4, <1>5, <2>1, PassesOn
<1>7. Good(n)
  BY <1>2, <1>6
<1>8. e.stack \in Seq(Vals) /\ Len(e.stack) = 1 /\ Match(e.stack, g[n])
  BY <1>1, <1>3, <1>7
<1>9. e.stack[1] \in Vals
  BY <1>8
<1>10. 1 \in 1 .. Len(g[n])
  BY <1>8 DEF Match
<1> QED BY <1>8, <1>9, <1>10, <1>a DEF Match

----------------------------------------------------------------------------
(* The words of a value read back as the number it stands for.             *)

\* A narrower width cuts what a wider one has left.
LEMMA ModDown ==
  ASSUME NEW x \in Int, NEW a \in Nat, NEW b \in Nat, a <= b
  PROVE  (x % Pow2[b]) \in Nat /\ (x % Pow2[b]) % Pow2[a] = x % Pow2[a]
<1>1. PICK p \in Nat \ {0}, w \in Nat \ {0} : p = Pow2[a] /\ w = Pow2[b]
  BY PowerType
<1>2. PICK k \in Nat \ {0} : w = k * p
  BY <1>1, PowerOf
<1>3. PICK r \in Nat : r = x % w
  BY DivMod
<1>4. PICK q \in Int : x = w * q + r
  BY <1>3, DivMod
<1>5. PICK j \in Int : j = k * q
  OBVIOUS
<1>6. x = r + j * p
  <2>1. w * q = j * p
    BY <1>2, <1>5
  <2> QED BY <1>4, <2>1
<1>7. x % p = r % p
  <2>1. r \in Int
    OBVIOUS
  <2>2. PICK h \in Int, s \in Nat : h = r \div p /\ s = r % p /\ r = p * h + s /\ s < p
    BY <2>1, DivMod
  <2>3. PICK i \in Int : i = h + j
    OBVIOUS
  <2>4. x = i * p + s
    <3>1. i * p = p * h + j * p
      BY <2>3
    <3> QED BY <1>6, <2>2, <3>1
  <2>5. x % p = s
    BY <2>2, <2>4, DivModIs, Zenon
  <2> QED BY <2>2, <2>5
<1> QED BY <1>1, <1>3, <1>7

\* A number of two digits.
LEMMA ModTwo ==
  ASSUME NEW x \in Nat, NEW p \in Nat \ {0}
  PROVE  (x % p) + p * ((x \div p) % p) = x % (p * p)
<1>1. PICK q \in Int, r \in Nat : q = x \div p /\ r = x % p /\ x = p * q + r /\ r < p
  BY DivMod
<1>2. PICK h \in Int, s \in Nat : h = q \div p /\ s = q % p /\ q = p * h + s /\ s < p
  BY DivMod
<1>3. PICK w \in Nat \ {0} : w = p * p
  OBVIOUS
<1>4. PICK y \in Nat : y = r + p * s
  OBVIOUS
<1>5. x = h * w + y
  <2>1. p * q = h * w + p * s
    <3>1. p * q = p * (p * h + s)
      BY <1>2
    <3>2. p * (p * h + s) = h * (p * p) + p * s
      OBVIOUS
    <3> QED BY <1>3, <3>1, <3>2
  <2> QED BY <1>1, <1>4, <2>1
<1>6. y < w
  <2>1. s + 1 <= p
    BY <1>2
  <2>2. p * (s + 1) <= p * p
    BY <2>1
  <2>3. p * (s + 1) = p * s + p
    OBVIOUS
  <2>4. PICK u \in Int : u = p * s
    OBVIOUS
  <2> QED BY <1>1, <1>3, <1>4, <2>2, <2>3, <2>4
<1>7. x % w = y
  BY <1>5, <1>6, NatInt, DivModIs, Zenon
<1> QED BY <1>1, <1>2, <1>3, <1>4, <1>7

\* The words a line in P: or in L: memory has of a number.
WordP(n) == n % Pow2[IntBits]
WordsL(n) == <<Long(n) % Pow2[WordBits], (Long(n) \div Pow2[WordBits]) % Pow2[IntBits]>>

LEMMA WordIs ==
  ASSUME NEW n \in Int
  PROVE  WordP(Long(n)) % Pow2[WordBits] = n % Pow2[WordBits]
<1>1. Long(n) \in Int /\ Long(n) % Pow2[WordBits] = n % Pow2[WordBits]
  BY WidthTypes, ModDown DEF Long
<1>2. WordP(Long(n)) % Pow2[WordBits] = Long(n) % Pow2[WordBits]
  BY <1>1, WidthTypes, ModDown DEF WordP
<1> QED BY <1>1, <1>2

LEMMA LongWordsAre ==
  ASSUME NEW n \in Int
  PROVE  WordsL(Long(n))[1] + Pow2[WordBits] * (WordsL(Long(n))[2] % Pow2[WordBits]) = n % Pow2[2 * WordBits]
<1>1. PICK p \in Nat \ {0} : p = Pow2[WordBits] /\ Pow2[2 * WordBits] = p * p
  <2>1. 2 * WordBits = WordBits + WordBits
    BY WidthTypes
  <2>2. Pow2[2 * WordBits] = Pow2[WordBits] * Pow2[WordBits]
    BY <2>1, WidthTypes, PowerSum
  <2> QED BY <2>2, WidthTypes, PowerType
<1>2. PICK g \in Nat : g = Long(n) /\ Long(g) = g /\ g % Pow2[2 * WordBits] = n % Pow2[2 * WordBits]
  <2>1. PICK g \in Nat : g = Long(n)
    BY LongIs
  <2>2. Long(g) = g
    BY <2>1, WidthTypes, ModDown DEF Long
  <2>3. 2 * WordBits \in Nat
    BY WidthTypes
  <2>4. g % Pow2[2 * WordBits] = n % Pow2[2 * WordBits]
    BY <2>1, <2>3, WidthTypes, ModDown DEF Long
  <2> QED BY <2>1, <2>2, <2>4
<1>3. PICK q \in Int : q = g \div p
  BY DivMod
<1>4. (q % Pow2[IntBits]) % p = q % p
  BY <1>1, WidthTypes, ModDown
<1>5. (g % p) + p * (q % p) = g % (p * p)
  BY <1>3, ModTwo
<1>6. WordsL(Long(n)) = <<g % p, q % Pow2[IntBits]>>
  BY <1>1, <1>2, <1>3 DEF WordsL
<1> QED BY <1>1, <1>2, <1>4, <1>5, <1>6

\* A number is rounded to the nearest.
LEMMA RoundIs ==
  ASSUME NEW a \in Int, NEW b \in Nat \ {0}, NEW r, r = Round(<<a, b>>)
  PROVE  r \in Int /\ -b <= 2 * (r * b - a) /\ 2 * (r * b - a) <= b
<1>1. PICK c \in Nat \ {0} : c = 2 * b
  OBVIOUS
<1>2. CASE a >= 0
  <2>1. PICK y \in Nat : y = 2 * a + b
    BY <1>2
  <2>2. PICK q \in Int, s \in Nat : q = y \div c /\ y = c * q + s /\ s < c
    BY DivModHas
  <2>3. r = q
    BY <1>1, <1>2, <2>1, <2>2 DEF Round
  <2>4. PICK z \in Int : z = r * b /\ c * q = 2 * z
    BY <1>1, <2>3
  <2> QED BY <1>1, <2>1, <2>2, <2>3, <2>4
<1>3. CASE a < 0
  <2>1. PICK y \in Nat : y = 2 * (-a) + b /\ y = 2 * Abs(a) + b
    BY <1>3, AbsIs
  <2>2. PICK q \in Int, s \in Nat : q = y \div c /\ y = c * q + s /\ s < c
    BY DivModHas
  <2>3. r = -q
    BY <1>1, <1>3, <2>1, <2>2 DEF Round
  <2>4. PICK z \in Int : z = r * b /\ c * q = -(2 * z)
    <3>1. PICK u \in Int : u = q * b
      OBVIOUS
    <3>2. c * q = 2 * u
      BY <1>1, <3>1
    <3>3. r * b = -u
      BY <2>3, <3>1
    <3> QED BY <3>2, <3>3
  <2> QED BY <1>1, <2>1, <2>2, <2>3, <2>4
<1> QED BY <1>2, <1>3

\* Factors that may be left out.
LEMMA LessFactor == ASSUME NEW x \in Int, NEW y \in Int, NEW d \in Nat \ {0} PROVE (x * d < y * d <=> x < y) /\ (x * d <= y * d <=> x <= y)
OBVIOUS

\* A fraction of a width is the nearest to the number.
Near(x, d, h, r, a, b) == /\ <<a, b>> \in Numbers /\ a * d = (x * h) * b
                          /\ r \in Int /\ -b <= 2 * (r * b - a) /\ 2 * (r * b - a) <= b
LEMMA ScaledIs ==
  ASSUME NEW x \in Int, NEW d \in Nat \ {0}, NEW h \in Nat \ {0}, NEW r, r = Round(Times(<<x, d>>, <<h, 1>>))
  PROVE  \E a \in Int, b \in Nat \ {0} : Near(x, d, h, r, a, b)
<1>1. PICK n \in Int : n = x * h
  OBVIOUS
<1>2. PICK t \in Numbers : t = Ratio(n, d) /\ t[1] * d = n * t[2]
  BY RatioNumber, RatioLowest
<1>3. PICK a \in Int, b \in Nat \ {0} : t = <<a, b>>
  BY NumberParts
<1>4. Times(<<x, d>>, <<h, 1>>) = Ratio(n, d)
  <2>1. <<x, d>>[1] = x /\ <<x, d>>[2] = d /\ <<h, 1>>[1] = h /\ <<h, 1>>[2] = 1 /\ d * 1 = d
    OBVIOUS
  <2> QED BY <1>1, <2>1 DEF Times
<1>5. r = Round(<<a, b>>)
  BY <1>2, <1>3, <1>4
<1>6. r \in Int /\ -b <= 2 * (r * b - a) /\ 2 * (r * b - a) <= b
  BY <1>5, RoundIs
<1>7. a * d = (x * h) * b
  BY <1>1, <1>2, <1>3
<1>8. Near(x, d, h, r, a, b)
  BY <1>2, <1>3, <1>6, <1>7 DEF Near
<1> QED BY <1>8

\* It is at most a half away from it.
LEMMA ErrorSmall ==
  ASSUME NEW x \in Int, NEW d \in Nat \ {0}, NEW h \in Nat \ {0}, NEW a \in Int, NEW b \in Nat \ {0}, NEW r \in Int,
         <<a, b>> \in Numbers, a * d = (x * h) * b, -b <= 2 * (r * b - a), 2 * (r * b - a) <= b,
         NEW g \in Int, g = -h, NEW e, e = Plus(<<r, 1>>, Times(<<g, 1>>, <<x, d>>))
  PROVE  2 * Abs(e[1]) <= e[2]
<1>1. PICK c \in Int : c = -a
  OBVIOUS
<1>2. PICK p \in Numbers : p = <<c, b>>
  <2>1. <<a, b>>[1] = a /\ <<a, b>>[2] = b
    OBVIOUS
  <2> QED BY <1>1, <2>1, MinusNumber
<1>3. PICK n \in Int : n = g * x
  OBVIOUS
<1>4. Times(<<g, 1>>, <<x, d>>) = Ratio(n, d)
  <2>1. <<x, d>>[1] = x /\ <<x, d>>[2] = d /\ <<g, 1>>[1] = g /\ <<g, 1>>[2] = 1 /\ 1 * d = d
    OBVIOUS
  <2> QED BY <1>3, <2>1 DEF Times
<1>5. c * d = n * b
  <2>1. PICK m \in Int : m = x * h
    OBVIOUS
  <2>2. n = -m
    BY <1>3, <2>1
  <2>3. a * d = m * b
    BY <2>1
  <2>4. c * d = -(a * d) /\ n * b = -(m * b)
    BY <1>1, <2>2
  <2> QED BY <2>3, <2>4
<1>6. Ratio(n, d) = p
  <2>1. p[1] * d = n * p[2]
    BY <1>2, <1>5
  <2> QED BY <2>1, RatioIs
<1>7. PICK s \in Int : s = r * b - a /\ -b <= 2 * s /\ 2 * s <= b
  <2>1. r * b - a \in Int
    OBVIOUS
  <2> QED BY <2>1
<1>8. e = Ratio(s, b)
  <2>1. <<r, 1>>[1] = r /\ <<r, 1>>[2] = 1 /\ <<c, b>>[1] = c /\ <<c, b>>[2] = b
    OBVIOUS
  <2>2. r * b + c * 1 = s /\ 1 * b = b
    BY <1>1, <1>7
  <2> QED BY <1>2, <1>4, <1>6, <2>1, <2>2 DEF Plus
<1>9. e \in Numbers /\ e[1] * b = s * e[2]
  BY <1>8, RatioNumber, RatioLowest
<1>10. PICK u \in Int, v \in Nat \ {0} : e = <<u, v>>
  BY <1>9, NumberParts
<1>11. u * b = s * v
  BY <1>9, <1>10
<1>12. (2 * s) * v <= b * v /\ (-b) * v <= (2 * s) * v
  <2>1. PICK y \in Int, z \in Int : y = 2 * s /\ z = -b /\ y <= b /\ z <= y
    BY <1>7
  <2>2. y * v <= b * v /\ z * v <= y * v
    BY <2>1, LessFactor
  <2> QED BY <2>1, <2>2
<1>13. 2 * u <= v /\ -v <= 2 * u
  <2>1. PICK y \in Int, z \in Int : y = 2 * u /\ z = -v
    OBVIOUS
  <2>2. y * b = (2 * s) * v /\ z * b = (-b) * v
    <3>1. y * b = 2 * (u * b)
      BY <2>1
    <3>2. (2 * s) * v = 2 * (s * v)
      OBVIOUS
    <3>3. z * b = (-b) * v
      BY <2>1
    <3> QED BY <1>11, <3>1, <3>2, <3>3
  <2>3. y * b <= v * b /\ z * b <= y * b
    <3>1. b * v = v * b
      OBVIOUS
    <3> QED BY <1>12, <2>2, <3>1
  <2>4. y <= v /\ z <= y
    BY <2>3, LessFactor
  <2> QED BY <2>1, <2>4
<1>14. 2 * Abs(u) <= v
  BY <1>13, AbsIs
<1> QED BY <1>10, <1>14

\* And it is within the width.
LEMMA FractionWithin ==
  ASSUME NEW x \in Int, NEW d \in Nat \ {0}, NEW h \in Nat \ {0}, NEW a \in Int, NEW b \in Nat \ {0}, NEW r \in Int,
         a * d = (x * h) * b, -b <= 2 * (r * b - a), 2 * (r * b - a) <= b,
         NEW w \in Nat \ {0}, w = 2 * h, -d <= x, x * w < (w - 1) * d
  PROVE  -h <= r /\ r < h
<1>1. PICK n \in Int : n = h * b
  OBVIOUS
<1>2. -n <= a
  <2>1. PICK y \in Int, z \in Int : y = -d /\ z = -n
    OBVIOUS
  <2>2. PICK m \in Nat \ {0} : m = h * b
    OBVIOUS
  <2>3. y * m <= x * m
    BY <2>1, LessFactor
  <2>4. x * m = a * d
    BY <2>2
  <2>5. y * m = z * d
    BY <1>1, <2>1, <2>2
  <2>6. z * d <= a * d
    BY <2>3, <2>4, <2>5
  <2>7. z <= a
    BY <2>6, LessFactor
  <2> QED BY <2>1, <2>7
<1>3. 2 * a < 2 * n - b
  <2>1. PICK y \in Int, z \in Int : y = x * w /\ z = (w - 1) * d /\ y < z
    OBVIOUS
  <2>2. y * b < z * b
    BY <2>1, LessFactor
  <2>a. 2 * a \in Int /\ 2 * n - b \in Int
    OBVIOUS
  <2>3. PICK u \in Int, v \in Int : u = 2 * a /\ v = 2 * n - b
    BY <2>a, Zenon
  <2>4. y * b = u * d
    <3>1. y = 2 * (x * h)
      BY <2>1
    <3>2. y * b = 2 * ((x * h) * b)
      BY <3>1
    <3>3. u * d = 2 * (a * d)
      BY <2>3
    <3> QED BY <3>2, <3>3
  <2>5. z * b = v * d
    <3>1. z = 2 * (h * d) - d
      BY <2>1
    <3>2. z * b = 2 * ((h * d) * b) - d * b
      BY <3>1
    <3>3. v * d = 2 * (n * d) - b * d
      BY <2>3
    <3>4. n * d = (h * d) * b
      BY <1>1
    <3> QED BY <3>2, <3>3, <3>4
  <2>6. u * d < v * d
    BY <2>2, <2>4, <2>5
  <2>7. u < v
    BY <2>6, LessFactor
  <2> QED BY <2>3, <2>7
<1>4. PICK k \in Int : k = r * b /\ -b <= 2 * (k - a) /\ 2 * (k - a) <= b
  OBVIOUS
<1>5. k < n
  BY <1>3, <1>4
<1>6. -n - b < k
  BY <1>2, <1>4
<1>7. r < h
  BY <1>1, <1>4, <1>5, LessFactor
<1>8. -h - 1 < r
  <2>1. PICK g \in Int : g = -h - 1
    OBVIOUS
  <2>2. g * b = -n - b
    BY <1>1, <2>1
  <2>3. g * b < r * b
    BY <1>4, <1>6, <2>2
  <2>4. g < r
    BY <2>3, LessFactor
  <2> QED BY <2>1, <2>4
<1> QED BY <1>7, <1>8

LEMMA WordSigned ==
  ASSUME NEW r \in Int, -Pow2[WordBits - 1] <= r, r < Pow2[WordBits - 1]
  PROVE  Signed(WordP(r), WordBits) = r
<1>1. PICK w \in Nat \ {0}, l \in Nat \ {0} : w = Pow2[WordBits] /\ l = Pow2[IntBits]
  BY WidthTypes, PowerType
<1>2. PICK c \in Nat \ {0} : l = c * w
  BY <1>1, WidthTypes, PowerOf
<1>3. PICK y \in Nat, q \in Int : y = WordP(r) /\ r = l * q + y
  <2>1. PICK y \in Nat : y = r % l
    BY DivMod
  <2>2. PICK q \in Int : r = l * q + y
    BY <2>1, DivMod
  <2> QED BY <1>1, <2>1, <2>2 DEF WordP
<1>4. PICK k \in Int : k = -(c * q)
  OBVIOUS
<1>5. y = r + k * w
  <2>1. l * q = (c * q) * w
    BY <1>2
  <2>2. k * w = -((c * q) * w)
    BY <1>4
  <2> QED BY <1>3, <2>1, <2>2
<1>6. y = r + k * Pow2[WordBits] /\ y \in Int
  BY <1>1, <1>5
<1> QED BY <1>3, <1>6, WidthTypes, SignedIs

ReadBack(ws, m) ==
  IF ~m.real
  THEN IF mem = L_MEM
       THEN ws[1] + Pow2[WordBits] * (ws[2] % Pow2[WordBits]) = m.q[1] % Pow2[2 * WordBits]
       ELSE ws[1] % Pow2[WordBits] = m.q[1] % Pow2[WordBits]
  ELSE mem # L_MEM /\ ~Less(m.q, <<-1, 1>>) /\ Less(m.q, <<Pow2[WordBits] - 1, Pow2[WordBits]>>) =>
       LET err == Plus(<<Signed(ws[1], WordBits), 1>>, Times(<<-Pow2[WordBits - 1], 1>>, m.q))
       IN 2 * Abs(err[1]) <= err[2]

LEMMA IntReadsBack ==
  ASSUME NEW v \in Vals, NEW m, Stands(v, m), ~m.real
  PROVE  ReadBack(WordsOf(v), m)
<1>1. ~IsReal(v)
  BY DEF Stands
<1>2. PICK n \in Int : m.q = <<n, 1>> /\ v.q = <<Long(n), 1>>
  BY <1>1, StandsInt
<1>3. Val_GetAsFract24(v) = Long(n) /\ Val_GetAsFract48(v) = Long(Long(n))
  BY <1>1, <1>2 DEF Val_GetAsFract24, Val_GetAsFract48
<1>4. CASE mem = L_MEM
  <2>1. WordsOf(v) = WordsL(Long(n))
    BY <1>3, <1>4 DEF WordsOf, WordsL
  <2>2. WordsL(Long(n))[1] + Pow2[WordBits] * (WordsL(Long(n))[2] % Pow2[WordBits]) = n % Pow2[2 * WordBits]
    BY LongWordsAre
  <2> QED BY <1>2, <1>4, <2>1, <2>2 DEF ReadBack
<1>5. CASE mem # L_MEM
  <2>1. WordsOf(v)[1] = WordP(Long(n))
    BY <1>3, <1>5 DEF WordsOf, WordP
  <2>2. WordP(Long(n)) % Pow2[WordBits] = n % Pow2[WordBits]
    BY WordIs
  <2> QED BY <1>2, <1>5, <2>1, <2>2 DEF ReadBack
<1> QED BY <1>4, <1>5

LEMMA RealReadsBack ==
  ASSUME NEW v \in Vals, NEW m, Stands(v, m), m.real
  PROVE  ReadBack(WordsOf(v), m)
<1> SUFFICES ASSUME mem # L_MEM, ~Less(m.q, <<-1, 1>>), Less(m.q, <<Pow2[WordBits] - 1, Pow2[WordBits]>>)
             PROVE  LET err == Plus(<<Signed(WordsOf(v)[1], WordBits), 1>>, Times(<<-Pow2[WordBits - 1], 1>>, m.q))
                    IN 2 * Abs(err[1]) <= err[2]
  BY DEF ReadBack
<1>1. IsReal(v) /\ v.q = m.q /\ m.q \in Numbers
  BY ValParts DEF Stands
<1>2. PICK x \in Int, d \in Nat \ {0} : m.q = <<x, d>>
  BY <1>1, NumberParts
<1>3. PICK h \in Nat \ {0}, w \in Nat \ {0} : h = Pow2[WordBits - 1] /\ w = Pow2[WordBits] /\ w = 2 * h
  <2>1. PICK h \in Nat \ {0} : h = Pow2[WordBits - 1] /\ Pow2[WordBits] = 2 * h
    BY WidthTypes, PowerHalf
  <2> QED BY <2>1
<1>4. PICK r : r = Round(Times(<<x, d>>, <<h, 1>>))
  OBVIOUS
<1>a. PICK a \in Int, b \in Nat \ {0} : Near(x, d, h, r, a, b)
  BY <1>4, ScaledIs
<1>5. /\ <<a, b>> \in Numbers /\ a * d = (x * h) * b
      /\ r \in Int /\ -b <= 2 * (r * b - a) /\ 2 * (r * b - a) <= b
  BY <1>a DEF Near
<1>6. WordsOf(v)[1] = WordP(r)
  BY <1>1, <1>2, <1>3, <1>4 DEF WordsOf, WordP, Val_GetAsFract24, Scaled
<1>7. -d <= x /\ x * w < (w - 1) * d
  <2>1. PICK g \in Int, c \in Int : g = -1 /\ c = w - 1
    OBVIOUS
  <2>2. ~Less(<<x, d>>, <<g, 1>>) /\ Less(<<x, d>>, <<c, w>>)
    BY <1>2, <1>3, <2>1
  <2>3. ~(x * 1 < g * d) /\ x * w < c * d
    BY <2>2 DEF Less
  <2>4. x * 1 = x /\ g * d = -d
    BY <2>1
  <2> QED BY <2>1, <2>3, <2>4
<1>8. -h <= r /\ r < h
  BY <1>3, <1>5, <1>7, FractionWithin
<1>9. Signed(WordP(r), WordBits) = r
  BY <1>3, <1>5, <1>8, WordSigned
<1>10. PICK g \in Int : g = -h
  OBVIOUS
<1>11. PICK e : e = Plus(<<r, 1>>, Times(<<g, 1>>, <<x, d>>))
  OBVIOUS
<1>12. 2 * Abs(e[1]) <= e[2]
  BY <1>5, <1>10, <1>11, ErrorSmall
<1> QED BY <1>2, <1>3, <1>6, <1>9, <1>10, <1>11, <1>12

\* A DC has one expression.
OneExpression == \A i \in Lines : program[i].op = "dc" => Len(program[i].exps) = 1

LEMMA DcWord ==
  ASSUME IInv, HInv, VInv, OneExpression, Parsing, Current.op = "dc", NEW e \in Evaluate(Current.exps), ~e.err,
         NEW m, m = Meaning(program[line].exps[1]), m.fair
  PROVE  ReadBack(WordsOf(e.stack[1]), m)
<1> DEFINE ts == TokensAt(line)
<1>1. line \in Lines /\ Current = program[line] /\ line \in Nat \ {0}
  BY DEF Parsing, Lines, Current, IInv, Texts
<1>2. Grammar(line) /\ Table /\ KeptVals /\ pc = PcAt(line) /\ mem \in {P_MEM, L_MEM} /\ Form(line)
  <2>1. Grammar(line)
    <3>1. program[line].op \in Evaluated
      BY <1>1 DEF Evaluated
    <3> QED BY <1>1, <3>1 DEF HInv, Machine
  <2>2. Table
    BY DEF IInv
  <2>3. KeptVals /\ Form(line)
    BY <1>1 DEF VInv
  <2>4. pc = PcAt(line) /\ mem \in {P_MEM, L_MEM}
    BY DEF HInv, Machine
  <2> QED BY <2>1, <2>2, <2>3, <2>4
<1>3. ts \in Seq(Token) /\ Reducible(ts) /\ Depth(ts, Len(ts)) = 1
  BY <1>1, <1>2 DEF Grammar, Form, Evaluated
<1>4. ts = FlattenSeq(Current.exps)
  BY DEF TokensAt, Current
<1>5. pc \in Nat
  BY <1>1, <1>2, PcType
<1>6. ts = Current.exps[1]
  <2>1. Current.exps \in Seq(Seq(Token)) /\ Len(Current.exps) = 1
    <3>1. program[line] \in Statements
      BY <1>1 DEF IInv, Texts, Lines
    <3> QED BY <1>1, <3>1 DEF Statements, OneExpression
  <2>2. PICK exp \in Seq(Token) : exp = Current.exps[1]
    BY <2>1
  <2>3. Current.exps = <<exp>>
    BY <2>1, <2>2
  <2> HIDE DEF ts
  <2> QED BY <1>4, <2>2, <2>3, FlattenOne
<1> HIDE DEF ts
<1>7. m = Meaning(ts)
  BY <1>1, <1>6
<1>8. PICK v \in Vals : v = e.stack[1] /\ Stands(v, m)
  BY <1>2, <1>3, <1>4, <1>5, <1>7, EvaluateStands
<1>9. m.real \in BOOLEAN
  BY <1>8 DEF Stands
<1> QED BY <1>8, <1>9, IntReadsBack, RealReadsBack

ReadsBack(w, exp) == LET m == Meaning(exp) IN m.fair /\ ~w.err => ReadBack(w.words, m)
LEMMA DcIs == DcReadsBack <=> \A w \in words : ReadsBack(w, program[w.line].exps[1])
BY DEF DcReadsBack, ReadsBack, ReadBack

LEMMA DcReads == ASSUME IInv, HInv, VInv, OneExpression, DcReadsBack, GenDc PROVE DcReadsBack'
<1>1. Parsing /\ Current.op = "dc" /\ UNCHANGED <<program, mem>>
  BY DEF GenDc, LabelDone, Unchanged
<1>2. PICK e \in Evaluate(Current.exps) :
        words' = IF g_passNum = 0 THEN words
                 ELSE words \cup {[line |-> line, err |-> e.err, words |-> WordsOf(e.stack[1])]}
  BY DEF GenDc
<1>3. PICK w : w = [line |-> line, err |-> e.err, words |-> WordsOf(e.stack[1])]
  OBVIOUS
<1>4. w.line = line /\ w.words = WordsOf(e.stack[1]) /\ (~w.err => ~e.err)
  BY <1>3
<1>5. ReadsBack(w, program[w.line].exps[1])
  <2>1. PICK m : m = Meaning(program[line].exps[1])
    OBVIOUS
  <2>2. m.fair /\ ~w.err => ReadBack(WordsOf(e.stack[1]), m)
    BY <1>1, <1>4, <2>1, DcWord
  <2> QED BY <1>4, <2>1, <2>2 DEF ReadsBack
<1>6. \A u \in words' : ReadsBack(u, program[u.line].exps[1])
  BY <1>2, <1>3, <1>5, DcIs
<1>7. DcReadsBack' <=> \A u \in words' : ReadsBack(u, program[u.line].exps[1])
  BY <1>1 DEF DcReadsBack, ReadsBack, ReadBack
<1> QED BY <1>6, <1>7

\* The words so far read back.
DInv == OneExpression /\ DcReadsBack

LEMMA NextDc == IInv /\ HInv /\ VInv /\ DInv /\ [Next]_vars => DInv'
<1> SUFFICES ASSUME IInv, HInv, VInv, DInv, [Next]_vars PROVE DInv'
  OBVIOUS
<1>1. UNCHANGED <<program, mem>> /\ (GenDc \/ UNCHANGED words)
  BY DEF Next, vars, machine, seen, DefineSymbol, PrefetchToken, InitParserPass1, AddLabel, NoStatement, MacroRecord,
         SymSet, GenDc, EvalIf, EvalIfcc, EvalDefined, EndPass, Unchanged
<1>2. OneExpression'
  BY <1>1 DEF DInv, OneExpression, Lines
<1>3. CASE GenDc
  BY <1>2, <1>3, DcReads DEF DInv
<1>4. CASE UNCHANGED words
  <2>1. DcReadsBack'
    BY <1>1, <1>4 DEF DInv, DcReadsBack
  <2> QED BY <1>2, <2>1 DEF DInv
<1> QED BY <1>1, <1>3, <1>4

LEMMA InitDc == Init => DInv
<1> SUFFICES ASSUME Init PROVE DInv
  OBVIOUS
<1>1. words = {} /\ IInv
  BY InitInv DEF Init
<1>2. ASSUME NEW i \in Lines, program[i].op = "dc" PROVE Len(program[i].exps) = 1
  <2>1. PICK p \in Programs : program = p.lines
    BY DEF Init
  <2>2. i \in DOMAIN program
    BY <1>1 DEF IInv, Texts, Lines
  <2> QED BY <1>2, <2>1, <2>2, ProgramsAssumption
<1>3. DcReadsBack
  BY <1>1 DEF DcReadsBack
<1> QED BY <1>2, <1>3 DEF DInv, OneExpression

\* What a DC leaves in the memory reads back as the number its expression denotes, an
\* integer modulo the width and a fraction to the nearest (Val_GetAsFract24 and
\* Val_GetAsFract48 of Value.c and the operators before them): for every program and width.
THEOREM WordsReadBack == Spec => []DcReadsBack
<1>1. IInv /\ RInv /\ HInv /\ VInv /\ DInv /\ [Next]_vars => DInv'
  BY NextDc
<1>2. IInv /\ RInv /\ HInv /\ VInv /\ [Next]_vars => VInv'
  BY NextVals
<1>3. DInv => DcReadsBack
  BY DEF DInv
<1> QED BY <1>1, <1>2, <1>3, InitVals, InitDc, History, PTL DEF Spec
===============================================================================
