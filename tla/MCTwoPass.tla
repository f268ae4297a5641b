----------------------------- MODULE MCTwoPass -----------------------------
(* Small programs for TwoPass: two symbols, sections in P: and L: memory.  *)
EXTENDS TwoPass

CONSTANTS a, b

MCNames == {a, b}
MCDefs  == {b}

Blank == EndStmt

Org(m, x)   == [Blank EXCEPT !.op = "org", !.mem = m, !.arg = x]
Op(x, u, v) == [Blank EXCEPT !.op = "code", !.arg = x, !.n1 = u, !.n2 = v]
Dc(x)       == [Blank EXCEPT !.op = "dc", !.arg = x]
Ds(x)       == [Blank EXCEPT !.op = "ds", !.arg = x]
Align(x)    == [Blank EXCEPT !.op = "align", !.arg = x]
Dsm(n, x)   == [Blank EXCEPT !.op = "dsm", !.name = n, !.arg = x]
Str(len)    == [Blank EXCEPT !.op = "str", !.n1 = len]
At(n)       == [Blank EXCEPT !.op = "label", !.name = n]
Define(n, x) == [Blank EXCEPT !.op = "equ", !.name = n, !.arg = x]
Assign(n, x) == [Blank EXCEPT !.op = "set", !.name = n, !.arg = x]

\* Every kind of statement, the irregular forms included: ORG at a symbol that
\* may be defined below, an instruction of two words then one (lra with a
\* register), a negative DS, an empty string, SET of a label or a -D symbol.
MCStmts ==
  {Org(P_MEM, 5), Org(L_MEM, 2), Org(P_MEM, a),
   Op(a, 2, 2), Op(Star, 2, 1), Dc(a), Ds(a), Ds(-1), Align(2), Align(0),
   Dsm(a, 3), Str(0), Str(3), At(a), Define(b, a), Assign(b, 3)}

\* Programs with strings, the empty one included.
StringStmts == {Org(P_MEM, 5), Dc(1), Str(0), Str(1), Str(3), At(a)}

\* Programs in L: memory.
LongStmts == {Org(L_MEM, 2), Dc(a), Ds(1), Dsm(a, 3), At(b), Dc(b)}
=============================================================================
