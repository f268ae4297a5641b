---------------------------- MODULE MCExpressions ------------------------------
(***************************************************************************)
(* Expressions on words of 5 bits, ints of 7 and integers of 13, with       *)
(* blocks of two descriptors and of eight characters, and three families of  *)
(* programs: an expression or a condition of literals, three lines about     *)
(* two symbols, and five labels in every order.                             *)
(***************************************************************************)
EXTENDS ExpressionSpec

MCHash == [n \in Names |-> IF n \in {"a", "b", "c"} THEN 0 ELSE 1]
MCNameLen == [n \in Names |-> IF n \in {"b", "e"} THEN 2 ELSE IF n = "c" THEN 3 ELSE 1]

I(n) == Num(Val_CreateInt(n))
F(n, d) == Num(Val_CreateFract(<<n, d>>))
R(n, d) == Num(Val_CreateFloat(<<n, d>>))

(* Literals, their operators to a depth of two, and longer constants. *)
Literals == {I(0), I(1), I(3), I(9), F(1, 4), F(31, 32), R(5, 2), R(1, 1)}
Few == {I(1), I(6), F(1, 4), R(5, 2)}
Constants == {Chars(<<>>), Chars(<<1, 0>>), Chars(<<1, 2>>), Chars(<<1, 1, 1, 3>>),
              Bin(<<1, 0, 1>>), Bin(<<1, 0, 1, 1>>), Bin(<<1, 0, 1, 1, 0>>)}
UnaryExps == {<<x, Op(o)>> : x \in Literals, o \in Unary}
BinaryExps == {<<x, y, Op(o)>> : x, y \in Literals, o \in Binary}
NestedExps == {<<x, y, Op(o), Op(u)>> : x, y \in Few, o \in {"+", "-", "/"}, u \in {"neg", "int", "fract"}}
              \cup {<<x, Op("neg"), y, Op(o)>> : x, y \in Few, o \in {"+", "-", "*", "/", "&", ">>"}}
LiteralExps == {<<x>> : x \in Literals \cup Constants} \cup UnaryExps \cup BinaryExps \cup NestedExps

Line(op, exps, cond) == Statement(op, NoName, exps, cond)
Dc(exp) == Line("dc", <<exp>>, "")
Compared == {<<x>> : x \in Literals} \cup {<<x, Op("neg")>> : x \in {I(1), I(3), F(1, 4), R(5, 2)}}
Conditions == {Line("if", <<x, y>>, c) : x, y \in Compared, c \in {"=", "!=", "<", ">", "<=", ">="}}
              \cup {Line("ifcc", <<x>>, c) : x \in Compared, c \in IfCodes \cup {"cc"}}

(* Two symbols: every way a line gives or reads one. *)
S(op, name, exps) == Statement(op, name, exps, "=")
Plain == {S("none", "a", <<>>), S("dc", NoName, <<<<Sym("a")>>>>), S("dc", "b", <<<<Sym("a")>>>>),
          S("equ", "a", <<<<I(1)>>>>), S("equ", "a", <<<<Sym("b")>>>>), S("equ", "a", <<<<Sym("a"), I(1), Op("+")>>>>),
          S("equ", "b", <<<<Sym("a"), Op("int")>>>>), S("equ", "b", <<<<Here>>>>),
          S("set", "a", <<<<I(2)>>>>), S("set", "a", <<<<Sym("a"), Sym("b"), Op("+")>>>>),
          S("if", NoName, <<<<Sym("a")>>, <<I(1)>>>>), S("ifdef", "b", <<>>), S("macro", "a", <<>>)}
ThreeLines == {<<x, y, z>> : x, y, z \in Plain}
Counter == S("set", "a", <<<<Sym("a"), I(1), Op("+")>>>>)
DcA == S("dc", NoName, <<<<Sym("a")>>>>)
Longer == {<<first, DcA, Counter, DcA, last>> : first \in {S("equ", "a", <<<<I(1)>>>>), S("none", "a", <<>>)},
                                               last \in {Counter, S("ifdef", "b", <<>>), S("none", "b", <<>>)}}

(* Labels: the five names in every order, and three that may repeat. *)
Label(n) == S("none", n, <<>>)
AllOrders == {q \in [1 .. 5 -> Names] : \A i, j \in 1 .. 5 : q[i] = q[j] => i = j}
Labels == {[i \in 1 .. 6 |-> IF i = 6 THEN DcA ELSE Label(q[i])] : q \in AllOrders}
          \cup {[i \in 1 .. 3 |-> Label(q[i])] : q \in [1 .. 3 -> Names]}

Five == Val_CreateInt(5)
Sources == {<<Dc(e)>> : e \in LiteralExps} \cup {<<c>> : c \in Conditions} \cup ThreeLines \cup Longer \cup Labels
Options == {<<[name |-> "a", value |-> Five]>>,
            <<[name |-> "b", value |-> Five], [name |-> "a", value |-> Five]>>,
            <<[name |-> "a", value |-> Five], [name |-> "a", value |-> Val_CreateInt(1)]>>}
AllNames == [i \in 1 .. 5 |-> [name |-> <<"a", "b", "c", "d", "e">>[i], value |-> Five]]
MCPrograms == {[lines |-> l, options |-> <<>>] : l \in Sources}
              \cup {[lines |-> <<DcA>>, options |-> AllNames]}
              \cup {[lines |-> l, options |-> o] : l \in Longer \cup {<<x, y>> : x, y \in Plain}, o \in Options}
===============================================================================
