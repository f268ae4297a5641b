------------------------------- MODULE MCCodeGen -------------------------------
(***************************************************************************)
(* Instruction lines for CodeGen: every rule of the grammar and every       *)
(* mnemonic, every register where one register is the point, and for the    *)
(* others registers of each kind and values on both sides of each limit.    *)
(* Lines with an error are among them.                                     *)
(***************************************************************************)
EXTENDS CodeGen

MCHere == 512

Conds == 0 .. 14
Regs == 0 .. 56
\* One or two of each kind: X0 X1 Y0 Y1 A0 A2 A1 A B R0 N0 A10 X Y M0 EP SR SSH.
Kinds == {0, 1, 2, 3, 4, 5, 6, 10, 11, 12, 20, 28, 30, 31, 38, 46, 50, 53}
Alu == {0, 1, 2, 3, 4, 5, 6, 8, 10, 11, 12, 30, 31}
Data == {0, 10, 11}
Imm == {-1, 0, 2, 3, 16, 17, 23, 24, 63, 64, 255, 256, 4095, 4096}
\* Addresses: short, in the two ranges of I/O by all and by fewer of their bits.
Addrs == {5, 63, 64, 453, 4095, 4096, 65413, 65477, 16777093, 16777157}

Indirect == {<<"-N", 1, 1>>, <<"-N", 1, 2>>, <<"+N", 5, 5>>, <<"-", 3>>, <<"+", 4>>, <<"R", 0>>, <<"R", 5>>,
             <<"R+N", 6, 6>>, <<"-R", 7>>}
Absolute == {<<"abs", a>> : a \in Addrs} \cup {<<"short", a>> : a \in Addrs}
Eas == Indirect \cup Absolute
FewEas == {<<"+", 4>>, <<"-N", 1, 1>>, <<"abs", 5>>, <<"short", 5>>, <<"abs", 16777157>>}
Update == {<<"-N", 1, 1>>, <<"+N", 1, 2>>, <<"-", 3>>, <<"+", 4>>}
Rels == {<<"rel", 600>>, <<"rel", 400>>, <<"relshort", 517>>, <<"relshort", 480>>, <<"relshort", 600>>,
         <<"relshort", 900>>, <<"relreg", 3>>}
FewRels == {<<"rel", 600>>, <<"relshort", 517>>, <<"relreg", 3>>}

Pairs4 == (0 .. 3) \X (0 .. 3)
NoMove == <<"">>
FewMoves == {<<"">>, <<"ea", <<"+", 1>>>>, <<"X:,R", <<"abs", 4660>>, 0>>, <<"R,R", 0, 20>>, <<"ifcc", 5>>}

Moves ==
    {<<"">>}
    \cup {<<f, c>> : f \in {"ifcc", "ifcc.u"}, c \in Conds}
    \cup {<<f, v, r>> : f \in {"#,R", "#<,R"}, v \in {0, 255}, r \in Regs}
    \cup {<<f, v, 0>> : f \in {"#,R", "#<,R"}, v \in Imm}
    \cup {<<"R,R", s, d>> : s \in Kinds, d \in Kinds}
    \cup {<<"ea", e>> : e \in Update}
    \cup {<<f, e, r>> : f \in {"X:,R", "Y:,R", "L:,R"}, e \in FewEas, r \in Kinds}
    \cup {<<f, e, 28>> : f \in {"X:,R", "Y:,R", "L:,R"}, e \in Eas}
    \cup {<<f, e, 0>> : f \in {"X:,R", "Y:,R"}, e \in Eas}
    \cup {<<f, r, e>> : f \in {"R,X:", "R,Y:", "R,L:"}, e \in FewEas, r \in Kinds}
    \cup {<<f, 31, e>> : f \in {"R,X:", "R,Y:", "R,L:"}, e \in Eas}
    \cup {<<"#,R R,R", 100, d1, s2, d2>> : d1 \in Data, s2 \in Data, d2 \in {2, 10, 12}}
    \cup {<<"X:,R R,R", e, d1, s2, d2>> : e \in {<<"+", 4>>, <<"abs", 5>>}, d1 \in {0, 1, 2, 10}, s2 \in Data, d2 \in {2, 3, 10}}
    \cup {<<"R,X: R,R", s1, e, s2, d2>> : e \in {<<"+", 4>>, <<"abs", 5>>}, s1 \in Data, s2 \in {0, 4, 10, 11}, d2 \in {2, 10, 11}}
    \cup {<<"R,R #,R", s1, d1, 100, d2>> : s1 \in Data, d1 \in Data, d2 \in {0, 2, 10}}
    \cup {<<"R,R Y:,R", s1, d1, e, d2>> : e \in {<<"+", 4>>, <<"short", 5>>}, s1 \in Data, d1 \in {0, 1, 10}, d2 \in {0, 2, 10}}
    \cup {<<"R,R R,Y:", s1, d1, s2, e>> : e \in {<<"+", 4>>, <<"abs", 5>>}, s1 \in {2, 6, 10, 11}, d1 \in Data, s2 \in {0, 2, 10}}
    \cup {<<"X:,R Y:,R", e1, 0, e2, 2>> : e1 \in Indirect, e2 \in Indirect}
    \cup {<<f, <<"+", 4>>, r1, <<"R", 0>>, r2>> : f \in {"X:,R Y:,R"}, r1 \in {0, 1, 2, 10, 11}, r2 \in {0, 2, 3, 10, 11}}
    \cup {<<"X:,R R,Y:", <<"+", 4>>, r1, r2, e>> : r1 \in {0, 10}, r2 \in {2, 11}, e \in {<<"R", 0>>, <<"-", 3>>, <<"abs", 5>>}}
    \cup {<<"R,X: Y:,R", r1, <<"+", 4>>, e, r2>> : r1 \in {0, 10}, r2 \in {2, 11}, e \in {<<"R", 0>>, <<"-", 3>>}}
    \cup {<<"R,X: R,Y:", r1, <<"+", 4>>, r2, e>> : r1 \in {0, 10}, r2 \in {2, 11}, e \in {<<"R", 0>>, <<"-", 3>>}}

Names(table) == DOMAIN table
\* Lines s,d pm of a rule: all registers without a move, two with each move.
Beside(f, names, ss, ds) ==
    {<<f, m, s, d, NoMove>> : m \in names, s \in ss, d \in ds}
    \cup {<<f, m, s, 10, pm>> : m \in names, s \in {0, 11}, pm \in FewMoves}

ArithLines ==
    {<<"ONE_PAR d pm", m, d, NoMove>> : m \in Names(OnePar), d \in Data}
    \cup {<<"ONE_PAR d pm", "tst", 10, pm>> : pm \in FewMoves}
    \cup {<<f, m, d, pm>> : f \in {"ASX d pm"}, m \in Names(Asx), d \in Data, pm \in {NoMove, <<"ea", <<"+", 1>>>>}}
    \cup {<<f, m, d, pm>> : f \in {"LSX d pm"}, m \in Names(Lsx), d \in Data, pm \in {NoMove, <<"ea", <<"+", 1>>>>}}
    \cup Beside("AND_EOR_OR s,d pm", Names(AndEorOr), Alu, Data)
    \cup Beside("ADC_SBC s,d pm", Names(AdcSbc), Alu, Data)
    \cup Beside("ADD_SUB s,d pm", Names(AddSub), Alu, Data)
    \cup Beside("ADDx_SUBx s,d pm", Names(AddxSubx), Data, Data)
    \cup Beside("CMP s,d pm", {"cmp"}, Alu, Data) \cup Beside("CMPM s,d pm", {"cmpm"}, Alu, Data)
    \cup Beside("TFR s,d pm", {"tfr"}, Alu, Data)
    \cup Beside("MAX s,d pm", {"max"}, Data, Data) \cup Beside("MAXM s,d pm", {"maxm"}, Data, Data)
    \cup {<<"AND_EOR_OR #,d", m, v, d>> : m \in Names(AndEorOr), v \in {-1, 5, 100000}, d \in Data}
    \cup {<<"AND_EOR_OR #<,d", m, v, d>> : m \in Names(AndEorOr), v \in {-1, 5, 63, 64}, d \in Data}
    \cup {<<"ADD_SUB #,d", m, v, d>> : m \in Names(AddSub), v \in {-1, 5, 100000}, d \in Data}
    \cup {<<"ADD_SUB #<,d", m, v, d>> : m \in Names(AddSub), v \in {-1, 5, 63, 64}, d \in Data}
    \cup {<<"ANDI_ORI #,d", m, v, d>> : m \in Names(AndiOri), v \in {0, 255, 256}, d \in {34, 35, 36, 37, 50, 51}}
    \cup {<<"ASX #,s,d", m, v, s, d>> : m \in Names(Asx), v \in {0, 63, 64}, s \in Data, d \in Data}
    \cup {<<"ASX r,s,d", m, r, s, d>> : m \in Names(Asx), r \in Alu, s \in {10, 11}, d \in {10, 11}}
    \cup {<<"LSX #,d", m, v, d>> : m \in Names(Lsx), v \in {-1, 0, 5, 16, 17}, d \in Data}
    \cup {<<"LSX s,d", m, s, d>> : m \in Names(Lsx), s \in Alu, d \in Data}
    \cup {<<f, "", s, d>> : f \in {"CMPU s,d", "DIV s,d", "CLB s,d", "MERGE s,d"}, s \in Alu, d \in Data}
    \cup {<<"NORM s,d", "", s, d>> : s \in Kinds, d \in Data}
    \cup {<<f, "", d>> : f \in {"INC d", "DEC d"}, d \in Data}
    \cup {<<"DMAC q,d", m, n, q[1], q[2], 11>> : m \in Names(DmacModifier), n \in 0 .. 1, q \in Pairs4}
    \cup {<<"MUL q,d pm", m, n, q[1], q[2], 11, NoMove>> : m \in Names(Multiply), n \in 0 .. 1, q \in Pairs4}
    \cup {<<"MUL q,d pm", "mac", 0, 0, 1, d, pm>> : d \in Data, pm \in FewMoves}
    \cup {<<"MUL s,#,d", m, n, s, v, 10>> : m \in Names(Multiply), n \in 0 .. 1, s \in {0, 1, 2, 3, 4}, v \in {1, 2, 4194304}}
    \cup {<<"MULI #,s,d", m, n, v, s, 10>> : m \in {"mac", "macr"}, n \in 0 .. 1, v \in {-1, 77}, s \in {0, 1, 2, 3, 4}}
    \cup {<<"MULxx q,d", m, x, n, q[1], q[2], 11>> : m \in {"mac", "mpy"}, x \in Names(MulSigns), n \in 0 .. 1, q \in Pairs4}
    \cup {<<f, "", r, s, d>> : f \in {"EXTRACT r,s,d", "EXTRACTU r,s,d", "INSERT r,s,d"}, r \in {0, 3, 5, 12}, s \in {10, 11}, d \in {10, 11}}
    \cup {<<f, "", v, s, d>> : f \in {"EXTRACT #,s,d", "EXTRACTU #,s,d", "INSERT #,s,d"}, v \in {5}, s \in Data, d \in {10, 11}}

BitLines ==
    {<<"BIT_XXX #,ea", m, v, y, <<"short", 5>>>> : m \in Names(BitXXX), v \in {-1, 0, 23, 24}, y \in 0 .. 1}
    \cup {<<"BIT_XXX #,ea", m, 7, 0, e>> : m \in Names(BitXXX), e \in Eas}
    \cup {<<"BIT_XXX #,d", m, 7, r>> : m \in Names(BitXXX), r \in Kinds}
    \cup {<<"BIT_XXX #,d", "bset", v, 0>> : v \in {-1, 0, 23, 24}}
    \cup {<<"R_BIT #,ea,rel", m, 7, 1, e, <<"rel", 600>>>> : m \in Names(RBitXXX), e \in Eas}
    \cup {<<"R_BIT #,ea,rel", "brset", v, 0, <<"R", 5>>, r>> : v \in {0, 23, 24}, r \in Rels}
    \cup {<<"R_BIT #,d,rel", m, 7, d, r>> : m \in Names(RBitXXX), d \in {0, 38, 30}, r \in FewRels}
    \cup {<<"J_BIT #,ea,rel", m, 7, 1, e, <<"rel", 600>>>> : m \in Names(JBitXXX), e \in Eas}
    \cup {<<"J_BIT #,ea,rel", "jset", v, 0, <<"R", 5>>, r>> : v \in {0, 23, 24}, r \in Rels}
    \cup {<<"J_BIT #,d,rel", m, 7, d, r>> : m \in Names(JBitXXX), d \in {0, 38, 30}, r \in FewRels}

ControlLines ==
    {<<f, c, r>> : f \in {"BCC", "BSCC"}, c \in {"cc", "hs", "gt", "cs", "ls"}, r \in Rels}
    \cup {<<f, c>> : f \in {"BRKCC", "DEBUGCC"}, c \in Names(Conditions)}
    \cup {<<"TRAPCC", c>> : c \in Names(ConditionsLE)}
    \cup {<<f, "">> : f \in {"DEBUG", "ENDDO", "ILLEGAL"}}
    \cup {<<f, "", r>> : f \in {"BRA", "BSR", "DO forever", "DOR forever"}, r \in Rels}
    \cup {<<f, c, e>> : f \in {"JCC", "JSCC"}, c \in {"cc", "le"}, e \in Eas}
    \cup {<<f, "", e>> : f \in {"JMP", "JSR"}, e \in Eas}
    \cup {<<f, "", y, e, <<"rel", 600>>>> : f \in {"DO ea", "DOR ea"}, y \in 0 .. 1, e \in Eas}
    \cup {<<f, "", 0, <<"R", 5>>, r>> : f \in {"DO ea", "DOR ea"}, r \in Rels}
    \cup {<<f, "", v, r>> : f \in {"DO #", "DOR #"}, v \in {-1, 0, 100, 4095, 4096}, r \in FewRels}
    \cup {<<f, "", d, r>> : f \in {"DO d", "DOR d"}, d \in {0, 12, 30}, r \in FewRels}
    \cup {<<"NONE_PAR", m>> : m \in Names(NoArg)}
    \cup {<<"REP ea", "", y, e>> : y \in 0 .. 1, e \in Eas}
    \cup {<<"REP #", "", v>> : v \in Imm} \cup {<<"REP d", "", d>> : d \in Kinds}
    \cup {<<"PLOCK", m, e>> : m \in Names(Plock), e \in FewEas} \cup {<<"PLOCKR", m, r>> : m \in Names(Plockr), r \in Rels}
    \cup {<<"LRA", "", r, d>> : r \in Rels, d \in {0, 12, 38}}
    \cup {<<"LUA ea", "", e, d>> : e \in Update, d \in {12, 20, 0}}
    \cup {<<"LUA R+#", "", 3, v, 20>> : v \in {-64, -63, -1, 0, 15, 16, 63, 64}}
    \cup {<<"TCC s,d", "ne", s, d>> : s \in Kinds, d \in {10, 11, 12, 0}} \cup {<<"TCC s,d", c, 0, 10>> : c \in Names(ConditionsLE)}
    \cup {<<"TCC s,d s,d", "ne", s, d, 12, r>> : s \in Alu, d \in {10, 11}, r \in {13, 20}}
    \cup {<<"VSL", "", d, v, e>> : d \in Data, v \in 0 .. 2, e \in FewEas}

MoveLines ==
    {<<"MOVE", "", pm>> : pm \in Moves}
    \cup {<<"MOVEC ea,d", "", y, e, 50>> : y \in 0 .. 1, e \in Eas} \cup {<<"MOVEC ea,d", "", 0, <<"R", 5>>, r>> : r \in Regs}
    \cup {<<"MOVEC d,ea", "", r, y, e>> : r \in {38, 50}, y \in 0 .. 1, e \in FewEas}
    \cup {<<"MOVEC s,d", "", s, d>> : s \in Kinds, d \in Kinds}
    \cup {<<"MOVEC #,d", "", h, v, r>> : h \in 0 .. 1, v \in {0, 255, 256}, r \in {38, 50, 12}}
    \cup {<<"MOVEM d,P:", "", r, e>> : r \in {0, 12, 30}, e \in Eas} \cup {<<"MOVEM P:,d", "", e, r>> : r \in {0, 12, 30}, e \in Eas}
    \cup {<<"MOVEP ea,ea", "", 0, e, y, f>> : e \in FewEas, y \in 0 .. 1, f \in Eas}
    \cup {<<"MOVEP ea,ea", "", 1, e, 0, f>> : e \in Eas, f \in FewEas}
    \cup {<<"MOVEP P:,ea", "", e, y, f>> : e \in FewEas, y \in 0 .. 1, f \in Absolute}
    \cup {<<"MOVEP ea,P:", "", y, f, e>> : e \in FewEas, y \in 0 .. 1, f \in Absolute}
    \cup {<<"MOVEP #,ea", "", 77, y, f>> : y \in 0 .. 1, f \in Absolute}
    \cup {<<"MOVEP ea,d", "", y, f, 0>> : y \in 0 .. 1, f \in Eas} \cup {<<"MOVEP d,ea", "", r, y, f>> : r \in {0, 30}, y \in 0 .. 1, f \in Absolute}

\* Lines that load, store or use R4, N1 or M0, do two of these or none.
LoadR4 == <<"MOVE", "", <<"#,R", 5, 16>>>>
UseN1 == <<"MOVE", "", <<"X:,R", <<"-N", 1, 1>>, 0>>>>
PipeLines == {LoadR4, UseN1, <<"MOVE", "", <<"R,R", 16, 21>>>>, <<"MOVE", "", <<"X:,R", <<"+", 4>>, 16>>>>,
              <<"ADD_SUB s,d pm", "add", 0, 10, <<"R,R", 0, 20>>>>, <<"MOVEC #,d", "", 1, 0, 38>>, <<"MOVEC s,d", "", 38, 0>>,
              <<"MOVEC d,ea", "", 38, 0, <<"+", 4>>>>, <<"MOVE", "", <<"R,X:", 16, <<"R", 0>>>>>>, <<"NONE_PAR", "nop">>}
Pipe == PipeLines \cup {Org, Dc}

MCStatements == ArithLines \cup BitLines \cup ControlLines \cup MoveLines \cup PipeLines
MCPrograms ==
    {<<t>> : t \in MCStatements}
    \cup {<<LoadR4, t>> : t \in MoveLines} \cup {<<t, UseN1>> : t \in MoveLines}
    \cup {<<p, q, r>> : p \in Pipe, q \in Pipe, r \in Pipe}
================================================================================
