---------------------------- MODULE ExpressionSpec -----------------------------
(***************************************************************************)
(* What Expressions promises: a table of names, one meaning of a name in    *)
(* the order of the source, the same in both passes, and arithmetic and      *)
(* comparisons that agree with the numbers the source denotes.              *)
(***************************************************************************)
EXTENDS Expressions

Lines == 1 .. Len(program)
Symbols(i) == {t.name : t \in {u \in ToSet(FlattenSeq(program[i].exps)) : u.k = "sym"}}

(* Every state of the program is one the declarations of the code allow. *)
TypeOK ==
    /\ phase \in {"options", "parse", "failed", "saved", "dead"}
    /\ g_passNum \in {0, 1} /\ line \in Nat \ {0} /\ pc \in Nat
    /\ {labelled, errors} \subseteq BOOLEAN
    /\ \A a \in DOMAIN slots : /\ slots[a].pString \in Names
                               /\ slots[a].type \in {T_PTR, T_MACRO, T_VALUE}
                               /\ slots[a].mem_space \in {-1, P_MEM, L_MEM}
                               /\ slots[a].val.type \in Types \ {"kUnresolved"}

(* The hash table of SymbolTable.c is a table of names: AddSymbol defines a    *)
(* name once, SymSetValue changes the meaning of one, and no step loses a name *)
(* or the meaning of another, whatever block its descriptor is in.             *)
NT == INSTANCE NameTable WITH table <- [n \in {m \in Names : Defined(m)} |->
          LET a == slots[FindSymbol(n)] IN [type |-> a.type, val |-> a.val, mem_space |-> a.mem_space]]
Refines == NT!Spec

-------------------------------------------------------------------------------
\* The lines that give a name a value; line 0 is the command line.
Givers(name) == {i \in Lines : program[i].name = name /\ program[i].op # "ifdef"}
                \cup {g.line : g \in {h \in given : h.name = name /\ h.by = "option"}}
OpGives(i) == i # 0 /\ program[i].op \in {"equ", "set"}
\* A label without a value of its own that a SET changes: pass 2 does not set it
\* to its address again (AddSym only looks it up).
Stale(name) == /\ \E i \in Givers(name) : i # 0 /\ program[i].op = "set"
               /\ \E i \in Givers(name) : ~OpGives(i)
GivenAt(i, name, pass) ==
    {g.val : g \in {h \in given : /\ h.line = i /\ h.name = name
                                  /\ IF OpGives(i) THEN h.by # "label" /\ h.pass = pass ELSE h.pass = 0}}
\* A label is defined before its line is evaluated: a line of pass 1, or one whose
\* label keeps the address, reads it.
OwnLabel(r) == /\ HasLabel(program[r.line]) /\ program[r.line].name = r.name
               /\ (r.pass = 0 \/ ~OpGives(r.line))
Above(r) == {i \in Givers(r.name) : i < r.line}

\* A name read in an expression has the value of the nearest line above that gives
\* it one, in this pass; of the last line of pass 1 when pass 2 reads it first; and
\* none when pass 1 does (GetSym, SymSet and AddSym over the two passes).
ReadsExact ==
    ~errors => \A r \in reads : ~Stale(r.name) =>
      {r.val} = IF OwnLabel(r)
                THEN {g.val : g \in {h \in given : h.line = r.line /\ h.name = r.name /\ h.by = "label"}}
                ELSE IF Above(r) # {} THEN GivenAt(Max(Above(r)), r.name, r.pass)
                ELSE IF r.pass = 1 /\ Givers(r.name) # {} THEN GivenAt(Max(Givers(r.name)), r.name, 0)
                ELSE {Val_CreateUnresolved}

\* A program whose values do not depend on what stands below them.
Regular ==
    \A i \in Lines :
        /\ program[i].op \in {"equ", "set", "if", "ifcc"} =>
              \A n \in Symbols(i) : ~Stale(n) /\ \E j \in Givers(n) : j < i
        /\ program[i].op = "ifdef" => \A j \in Givers(program[i].name) : j < i
\* Then a line gives its name the same value and an IF has the same answer in both
\* passes.  (Otherwise an IFDEF of a later name, a cast of one, which has a number
\* before it has a value, or "a equ a+1" tell the passes apart.)
PassesAgree ==
    Regular /\ ~errors =>
        /\ \A g \in given : [g EXCEPT !.pass = 0] \in given
        /\ \A a \in answers : [a EXCEPT !.pass = 0] \in answers

-------------------------------------------------------------------------------
\* The number an expression of literals denotes; fair tells those on which the
\* code's own rules are not in question: no negative integer is divided, shifted or
\* made a real (integers are unsigned there), none is wider than an int.
Denotes(real, q, fair) == [real |-> real, q |-> q, fair |-> fair /\ (real \/ Abs(q[1]) < Pow2[IntBits - 1])]
Converts(a, b) == (a.real /\ ~b.real => b.q[1] >= 0) /\ (b.real /\ ~a.real => a.q[1] >= 0)
Meaning2(o, a, b) ==
    LET fair == a.fair /\ b.fair
        real == a.real \/ b.real
    IN CASE o = "+" -> Denotes(real, Plus(a.q, b.q), fair)
         [] o = "-" -> Denotes(real, Plus(a.q, Times(<<-1, 1>>, b.q)), fair)
         [] o = "*" -> Denotes(real, Times(a.q, b.q), fair /\ Converts(a, b))
         [] o = "/" /\ b.q[1] # 0 -> IF real THEN Denotes(TRUE, Over(a.q, b.q), fair /\ Converts(a, b))
                                     ELSE Denotes(FALSE, <<a.q[1] \div Abs(b.q[1]), 1>>, fair /\ a.q[1] >= 0 /\ b.q[1] > 0)
         [] OTHER -> Denotes(TRUE, <<0, 1>>, FALSE)
Meaning1(o, a) ==
    CASE o = "neg" -> Denotes(a.real, Times(<<-1, 1>>, a.q), a.fair)
      [] o = "!" -> Denotes(a.real, IF a.q[1] = 0 THEN <<1, 1>> ELSE <<0, 1>>, a.fair)
      [] o \in {"fract", "float"} -> Denotes(TRUE, a.q, a.fair /\ (a.real \/ a.q[1] >= 0))
      [] o = "int" -> Denotes(FALSE, <<Trunc(a.q), 1>>, a.fair)
      [] OTHER -> Denotes(TRUE, <<0, 1>>, FALSE)
\* The number that digits denote in a base.
Positional(base, digits) ==
    LET n[i \in 0 .. Len(digits)] == IF i = 0 THEN 0 ELSE base * n[i - 1] + digits[i]
    IN n[Len(digits)]
MeaningOf(t) ==
    CASE t.k = "num" -> Denotes(IsReal(t.num), IF IsReal(t.num) THEN t.num.q ELSE <<Signed(t.num.q[1], LongBits), 1>>, TRUE)
      [] t.k = "bin" -> Denotes(FALSE, <<Positional(2, t.digits), 1>>, Len(t.digits) < WordBits)
      [] t.k = "chars" -> Denotes(FALSE, <<Positional(Pow2[CharBits], t.chars), 1>>,
                                  Len(t.chars) <= 3 /\ \A i \in DOMAIN t.chars : t.chars[i] < Pow2[CharBits - 1])
      [] OTHER -> Denotes(TRUE, <<0, 1>>, FALSE)
MeaningStep(st, t) ==
    IF t.k # "op" THEN Append(st, MeaningOf(t))
    ELSE IF t.op \in Binary
    THEN Append(SubSeq(st, 1, Len(st) - 2), Meaning2(t.op, st[Len(st) - 1], st[Len(st)]))
    ELSE Append(SubSeq(st, 1, Len(st) - 1), Meaning1(t.op, st[Len(st)]))
Meaning(exp) == FoldLeft(MeaningStep, <<>>, exp)[1]

\* The word or long word a DC leaves reads back as the number its expression
\* denotes: an integer modulo the width, a fraction of [-1, 1) to the nearest (one
\* that rounds up to 1 becomes -1; fractions in L: memory are scaled by 2^55 where
\* 2^47 is meant, Value.c:158, and left out).
DcReadsBack ==
    \A w \in words :
        LET m == Meaning(program[w.line].exps[1])
        IN m.fair /\ ~w.err =>
           IF ~m.real
           THEN IF mem = L_MEM
                THEN w.words[1] + Pow2[WordBits] * (w.words[2] % Pow2[WordBits]) = m.q[1] % Pow2[2 * WordBits]
                ELSE w.words[1] % Pow2[WordBits] = m.q[1] % Pow2[WordBits]
           ELSE mem # L_MEM /\ ~Less(m.q, <<-1, 1>>) /\ Less(m.q, <<Pow2[WordBits] - 1, Pow2[WordBits]>>) =>
                LET err == Plus(<<Signed(w.words[1], WordBits), 1>>, Times(<<-Pow2[WordBits - 1], 1>>, m.q))
                IN 2 * Abs(err[1]) <= err[2]

\* An IF answers as the numbers compare, for two reals or two integers of one sign
\* within an int, and an IFcc as the sign of an int.  (Integers of two signs are
\* compared without them, and a real is cut to an integer when it comes second.)
Number(v) == IF IsReal(v) THEN v.q ELSE <<Signed(v.q[1], LongBits), 1>>
WithinInt(v) == Number(v)[1] \in -Pow2[IntBits - 1] .. Pow2[IntBits - 1] - 1
Comparable(v, w) == \/ IsReal(v) /\ IsReal(w)
                    \/ ~IsReal(v) /\ ~IsReal(w) /\ WithinInt(v) /\ WithinInt(w) /\ (Number(v)[1] < 0 <=> Number(w)[1] < 0)
Holds(cond, p, q) ==
    CASE cond \in {"=", "eq"} -> p = q
      [] cond \in {"!=", "ne"} -> p # q
      [] cond \in {"<", "lt"} -> Less(p, q)
      [] cond \in {">", "gt"} -> Less(q, p)
      [] cond \in {"<=", "le"} -> ~Less(q, p)
      [] cond \in {">=", "ge", "pl"} -> ~Less(p, q)
ConditionsExact ==
    \A a \in answers :
        LET cond == program[a.line].cond
        IN CASE Len(a.vals) = 2 -> Comparable(a.vals[1], a.vals[2]) =>
                                       (a.answer <=> Holds(cond, Number(a.vals[1]), Number(a.vals[2])))
             [] Len(a.vals) = 1 -> ~IsReal(a.vals[1]) /\ WithinInt(a.vals[1]) =>
                                       (a.answer <=> Holds(cond, Number(a.vals[1]), <<0, 1>>))
             [] OTHER -> TRUE
===============================================================================
