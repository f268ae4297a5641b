------------------------------- MODULE MCOutput --------------------------------
(***************************************************************************)
(* Up to two sections of every memory at addresses of four and five digits,  *)
(* single ones of up to seventeen words, and symbols of every kind; blocks   *)
(* whose size has three bits, a buffer of twenty words.                      *)
(***************************************************************************)
EXTENDS OutputSpec

Mems == {P_MEM, X_MEM, Y_MEM, L_MEM}
Chunk(pc, m, words) == [pc |-> pc, mem_type |-> m, words |-> words]
Codes == {<<>>, <<0>>, <<7>>, <<5, 0>>, <<0, 0>>, <<1, 2, 3>>, <<1, 2, 3, 4>>}
Pairs == {<<Chunk(p, m, w), Chunk(q, n, v)>> :
              p \in {0}, q \in {0, 2}, m, n \in Mems, w \in Codes, v \in {<<0>>, <<6, 5>>, <<0, 0, 0, 0>>}}
Ones == {<<Chunk(p, m, w)>> : p \in {1, 16 ^ 4 - 1, 16 ^ 4, 16 ^ 5 + 1}, m \in Mems, w \in Codes}
Long == {<<Chunk(0, m, [k \in 1 .. n |-> k % 5])>> : m \in Mems, n \in {6, 7, 8, 9, 16, 17}}
Three == {<<Chunk(0, a, <<1, 2>>), Chunk(1, b, <<0, 0>>), Chunk(1, a, <<4>>)>> : a, b \in Mems}

Symbol(name, type, space, val) ==
    [name |-> name, type |-> type, mem_space |-> space, val |-> val, real |-> FALSE]
Real(name, space, val) == [Symbol(name, T_VALUE, space, val) EXCEPT !.real = TRUE]
Plain(k) == <<"", k>>
SomeSymbols == {Symbol(Plain(1), T_PTR, P_MEM, <<3, 1>>), Symbol(Plain(2), T_PTR, P_MEM, <<1, 1>>),
                Real(Plain(3), P_MEM, <<5, 2>>), Symbol(Plain(4), T_VALUE, -1, <<-1, 1>>),
                Symbol(Plain(5), T_PTR, Y_MEM, <<3, 1>>), Symbol(Plain(6), T_MACRO, X_MEM, <<0, 1>>)}
InL == {Symbol(Plain(1), T_PTR, L_MEM, <<2, 1>>), Symbol(Plain(2), T_VALUE, L_MEM, <<1, 1>>),
        Symbol(Plain(3), T_MACRO, L_MEM, <<0, 1>>)}
Far == {Symbol(Plain(1), T_VALUE, P_MEM, <<127, 1>>), Symbol(Plain(2), T_VALUE, P_MEM, <<-100, 1>>)}
\* Values that are no int: two longer ints and three reals.
Beyond == {Symbol(Plain(1), T_VALUE, P_MEM, <<200, 1>>), Symbol(Plain(2), T_VALUE, P_MEM, <<257, 1>>),
           Real(Plain(3), P_MEM, <<-7, 2>>), Real(Plain(4), P_MEM, <<300, 1>>), Real(Plain(5), P_MEM, <<1, 2>>)}
Named(class) == {Symbol(<<class, 1>>, T_PTR, P_MEM, <<3, 1>>), Symbol(Plain(2), T_PTR, P_MEM, <<4, 1>>),
                 Symbol(Plain(3), T_PTR, X_MEM, <<1, 1>>)}
Tables == {SomeSymbols, InL, Far, Beyond, Named("_")} \cup {Named(c) : c \in DataNames} \cup {Named("_end"), {}}

Saved(c, syms, zero, listed) == [chunks |-> c, symbols |-> syms, zero |-> zero, listed |-> listed]
MCSources == {Saved(c, {}, z, FALSE) : c \in Pairs \cup Ones \cup Long \cup Three \cup {<<>>}, z \in BOOLEAN}
             \cup {Saved(c, t, FALSE, TRUE) : c \in {<<>>, <<Chunk(0, P_MEM, <<1, 2>>)>>, <<Chunk(0, P_MEM, <<0>>)>>},
                                              t \in Tables}
===============================================================================
