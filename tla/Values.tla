-------------------------------- MODULE Values --------------------------------
(***************************************************************************)
(* The values of expressions (Value.c), the numbers of Lexer.l, and the     *)
(* words a value is stored as.                                             *)
(*                                                                         *)
(* A value has a type and a number: a numerator and a denominator, the      *)
(* latter 1 in an integer, which is kept modulo 2 ^ LongBits (u64).  The    *)
(* precision of a double is left out.  An operator gives a set of outcomes, *)
(* each with the value and whether an error is reported: there are several  *)
(* where the C code leaves the number uninitialised.                        *)
(***************************************************************************)
EXTENDS Integers, Sequences, FiniteSetsExt

CONSTANTS LongBits,            \* 64: the width of an integer value
          IntBits,             \* 32: the width of int
          WordBits,            \* 24: the width of a word
          CharBits,            \* 8: the width of a character
          LongFractBits,       \* 55: the scale of a fraction in L: memory
          Leftovers            \* uninitialised numbers that are tried

\* Powers of two, as a function that proofs can unfold.
Pow2[n \in Nat] == IF n = 0 THEN 1 ELSE 2 * Pow2[n - 1]

ASSUME WidthsAssumption ==
    /\ CharBits \in Nat \ {0} /\ WordBits \in Nat /\ IntBits \in Nat /\ LongBits \in Nat
    /\ CharBits < WordBits /\ WordBits < IntBits /\ 3 * CharBits < IntBits
    /\ IntBits <= LongBits /\ 2 * WordBits <= LongBits /\ LongFractBits < LongBits
    /\ Leftovers \subseteq 0 .. Pow2[IntBits] - 1 /\ Leftovers # {}

Types == {"kUnresolved", "kInt", "kFract", "kFloat"}

Long(n) == n % Pow2[LongBits]
Signed(n, bits) == LET m == n % Pow2[bits] IN IF m < Pow2[bits - 1] THEN m ELSE m - Pow2[bits]
AsInt(n) == Signed(n, IntBits)

Abs(n) == IF n < 0 THEN -n ELSE n
\* A quotient in lowest terms; d is not 0.
GCD[p \in Nat \X Nat] == IF p[2] = 0 THEN p[1] ELSE GCD[<<p[2], p[1] % p[2]>>]
Ratio(n, d) == LET g == GCD[<<Abs(n), Abs(d)>>]
                   s == IF d < 0 THEN -1 ELSE 1
               IN <<(s * n) \div g, Abs(d) \div g>>
Plus(p, q) == Ratio(p[1] * q[2] + q[1] * p[2], p[2] * q[2])
Times(p, q) == Ratio(p[1] * q[1], p[2] * q[2])
Over(p, q) == Ratio(p[1] * q[2], p[2] * q[1])
Less(p, q) == p[1] * q[2] < q[1] * p[2]
\* Towards 0, and to the nearest with halves away from 0.
Trunc(q) == IF q[1] < 0 THEN -(Abs(q[1]) \div q[2]) ELSE q[1] \div q[2]
Round(q) == IF q[1] < 0 THEN -((2 * Abs(q[1]) + q[2]) \div (2 * q[2])) ELSE (2 * q[1] + q[2]) \div (2 * q[2])

Val(type, q) == [type |-> type, q |-> q]
Val_CreateInt(n) == Val("kInt", <<Long(n), 1>>)
Val_CreateFract(q) == Val("kFract", q)
Val_CreateFloat(q) == Val("kFloat", q)
Val_CreateUnresolved == Val("kUnresolved", <<0, 1>>)

IsReal(v) == v.type \in {"kFract", "kFloat"}
Val_CheckResolved(v) == v.type = "kUnresolved"
Val_CheckResolved2(v, w) == Val_CheckResolved(v) \/ Val_CheckResolved(w)

Gives(v) == {[val |-> v, err |-> FALSE]}
Fails(v) == {[val |-> v, err |-> TRUE]}
Uninitialised(type, err) == {[val |-> Val(type, <<g, 1>>), err |-> err] : g \in Leftovers}

-------------------------------------------------------------------------------
(* Casts.  An unresolved value becomes a resolved one, whatever it holds.   *)

\* A double outside the range of int gives the least one.
IntOf(q) == LET t == Trunc(q) IN IF t \in -Pow2[IntBits - 1] .. Pow2[IntBits - 1] - 1 THEN t ELSE -Pow2[IntBits - 1]
CastToInt(v) == IF IsReal(v) THEN Val_CreateInt(IntOf(v.q)) ELSE v
CastToReal(v, type) == IF v.type = type THEN v ELSE Val(type, v.q)

Val_CastToInt(v) == IF Val_CheckResolved(v) THEN Uninitialised("kInt", FALSE) ELSE Gives(CastToInt(v))
Val_CastToFloat(v) == IF Val_CheckResolved(v) THEN Uninitialised("kFloat", FALSE) ELSE Gives(CastToReal(v, "kFloat"))
Val_CastToFract(v) == IF Val_CheckResolved(v) THEN Uninitialised("kFract", FALSE) ELSE Gives(CastToReal(v, "kFract"))

\* Of a resolved value: the int, and whether it is one.
Val_GetAsInt(v) == [int |-> IF v.type = "kInt" THEN AsInt(v.q[1]) ELSE 0, err |-> v.type # "kInt"]

(* Words of WordBits bits, of a fraction or of an integer. *)
\* Mutant: the fraction is cut, not rounded.
MutScaled(q, bits) == Trunc(Times(q, <<Pow2[bits], 1>>))
Scaled(q, bits) == Round(Times(q, <<Pow2[bits], 1>>))
Val_GetAsFract24(v) == IF IsReal(v) THEN Scaled(v.q, WordBits - 1) ELSE v.q[1]
Val_GetAsFract48(v) == Long(IF IsReal(v) THEN Scaled(v.q, LongFractBits) ELSE v.q[1])

-------------------------------------------------------------------------------
(* Arithmetic. *)

Val_Add(v, w) ==
    IF Val_CheckResolved2(v, w) THEN Gives(Val_CreateUnresolved)
    ELSE IF v.type = w.type
    THEN Gives(IF IsReal(v) THEN Val(v.type, Plus(v.q, w.q)) ELSE Val_CreateInt(v.q[1] + w.q[1]))
    ELSE IF IsReal(v) /\ IsReal(w) THEN Fails(Val(v.type, Plus(v.q, w.q)))
    ELSE Uninitialised(v.type, TRUE)

\* The type of a product or quotient: that of a real first operand, or float.
RealType(v) == IF IsReal(v) THEN v.type ELSE "kFloat"
Val_Mul(v, w) ==
    IF Val_CheckResolved2(v, w) THEN Gives(Val_CreateUnresolved)
    ELSE IF IsReal(v) \/ IsReal(w) THEN Gives(Val(RealType(v), Times(v.q, w.q)))
    ELSE Gives(Val_CreateInt(v.q[1] * w.q[1]))
\* Division by zero gives 1, and an error in pass 2 only.
Val_Div(v, w, pass) ==
    IF Val_CheckResolved2(v, w) THEN Gives(Val_CreateUnresolved)
    ELSE LET real == IsReal(v) \/ IsReal(w)
             one == Val(IF real THEN RealType(v) ELSE "kInt", <<1, 1>>)
         IN IF w.q[1] = 0 THEN IF pass = 2 THEN Fails(one) ELSE Gives(one)
            ELSE Gives(IF real THEN Val(RealType(v), Over(v.q, w.q)) ELSE Val_CreateInt(v.q[1] \div w.q[1]))
Val_Neg(v) ==
    IF Val_CheckResolved(v) THEN Val_CreateUnresolved
    ELSE IF IsReal(v) THEN Val(v.type, <<-v.q[1], v.q[2]>>) ELSE Val_CreateInt(-v.q[1])
Val_Not(v) ==
    IF Val_CheckResolved(v) THEN Val_CreateUnresolved
    ELSE Val(v.type, IF v.q[1] = 0 THEN <<1, 1>> ELSE <<0, 1>>)

(* Bits, of integers only: otherwise an error, and 0. *)
Bits(n) == {k \in 0 .. LongBits - 1 : (n \div Pow2[k]) % 2 = 1}
FromBits(bits) ==
    LET below[k \in 0 .. LongBits] ==
            IF k = 0 THEN 0 ELSE below[k - 1] + (IF k - 1 \in bits THEN Pow2[k - 1] ELSE 0)
    IN below[LongBits]
Or(m, n) == FromBits(Bits(m) \cup Bits(n))

Val_BinNot(v) == IF Val_CheckResolved(v) THEN Gives(Val_CreateUnresolved)
                 ELSE IF IsReal(v) THEN Fails(Val(v.type, <<0, 1>>))
                 ELSE Gives(Val_CreateInt(Pow2[LongBits] - 1 - v.q[1]))
Bitwise2(v, w, n) == IF Val_CheckResolved2(v, w) THEN Gives(Val_CreateUnresolved)
                     ELSE IF IsReal(v) \/ IsReal(w) THEN Fails(Val(v.type, <<0, 1>>))
                     ELSE Gives(Val_CreateInt(n))
Val_And(v, w) == Bitwise2(v, w, FromBits(Bits(v.q[1]) \cap Bits(w.q[1])))
Val_Or(v, w) == Bitwise2(v, w, Or(v.q[1], w.q[1]))
Val_Xor(v, w) == LET b == Bits(v.q[1])  c == Bits(w.q[1]) IN Bitwise2(v, w, FromBits((b \ c) \cup (c \ b)))
\* The processor shifts by the count modulo the width.
Val_Lsl(v, w) == Bitwise2(v, w, v.q[1] * Pow2[w.q[1] % LongBits])
Val_Lsr(v, w) == Bitwise2(v, w, v.q[1] \div Pow2[w.q[1] % LongBits])

-------------------------------------------------------------------------------
(* Conditions.  The second operand is converted to the type of the first,   *)
(* an integer to an int, which is then extended to the width of the first   *)
(* and compared without a sign.                                            *)
Rhs(v, w) == IF IsReal(v) THEN CastToReal(w, v.type).q ELSE <<Long(AsInt(CastToInt(w).q[1])), 1>>
Val_Eq(v, w) == v.q = Rhs(v, w)
Val_Ls(v, w) == Less(v.q, Rhs(v, w))

Comparisons == {"=", "!=", "<", ">", "<=", ">="}
\* Mutant: "<=" without the equality.
MutEvalCondition(condition, v, w) ==
    CASE condition = "=" -> Val_Eq(v, w)
      [] condition = "!=" -> ~Val_Eq(v, w)
      [] condition \in {"<", "<="} -> Val_Ls(v, w)
      [] condition = ">" -> Val_Ls(w, v)
      [] condition = ">=" -> Val_Ls(w, v) \/ Val_Eq(v, w)
\* The answer for two resolved values.
EvalCondition(condition, v, w) ==
    CASE condition = "=" -> Val_Eq(v, w)
      [] condition = "!=" -> ~Val_Eq(v, w)
      [] condition = "<" -> Val_Ls(v, w)
      [] condition = ">" -> Val_Ls(w, v)
      [] condition = "<=" -> Val_Ls(v, w) \/ Val_Eq(v, w)
      [] condition = ">=" -> Val_Ls(w, v) \/ Val_Eq(v, w)

\* IFcc of one value: conditions it knows, and their answer.
IfCodes == {"ge", "ne", "pl", "gt", "lt", "eq", "le"}
EvalIfOneArg(cond, n) ==
    CASE cond \in {"ge", "pl"} -> n >= 0
      [] cond = "ne" -> n # 0
      [] cond = "gt" -> n > 0
      [] cond = "lt" -> n < 0
      [] cond = "eq" -> n = 0
      [] cond = "le" -> n <= 0

-------------------------------------------------------------------------------
(* Constants.  Characters are signed and at most three are taken; a binary  *)
(* constant of WordBits digits is already refused.                          *)
StrToInt(chars) ==
    LET taken == IF Len(chars) > 3 THEN SubSeq(chars, 1, 3) ELSE chars
        val[i \in 0 .. Len(taken)] ==
            IF i = 0 THEN 0
            ELSE AsInt(Or(Long(val[i - 1] * Pow2[CharBits]), Long(Signed(taken[i], CharBits))))
    IN val[Len(taken)]
atobin(digits) ==
    LET n == Min({Len(digits), WordBits})
        val[i \in 0 .. n] == IF i = 0 THEN 0 ELSE 2 * val[i - 1] + digits[i]
    IN [int |-> AsInt(val[n]), err |-> Len(digits) >= WordBits]
===============================================================================
