----------------------------- MODULE GenParMoves ------------------------------
(***************************************************************************)
(* The parallel moves (GenParMoves.c, the rule par_move of Parser.y): the   *)
(* upper two thirds of a word, to which the generator of the operation adds *)
(* the rest.  Registers are grammar numbers (ConvertFields).                *)
(*                                                                         *)
(* The arguments a generator compares with < 0 are unsigned: those          *)
(* comparisons never report anything, and are left out below.               *)
(***************************************************************************)
EXTENDS Operands

\* The address registers PipeLineNewSrcEA looks at for an effective address.
PipeLineNewSrcEA(e) ==
    LET mode == Mode(e.w0)  reg == e.w0 % 8
    IN IF mode \in {0, 1, 5} THEN {12 + reg, 20 + reg}
       ELSE IF mode = 6 THEN {} ELSE {12 + reg}

Noting(src, dst, move) ==
    [move EXCEPT !.src = {r \in src : isAguReg(r)}, !.dst = {r \in dst : isAguReg(r)}]

xmem_reg == <<\h408000, \h40c000, \h400000, \h404000>>
ymem_reg == <<\h488000, \h48c000, \h480000, \h484000>>
XRegYReg_pattern == <<\hc08000, \h808000, \hc00000, \h800000>>

GenParIFcc(condition, opcode) == Ext({2}, One(TRUE, condition | At(opcode, 8)))
RegField(field) == At(field \div 8, 20) | At(field % 8, 16)
GenParExpReg(val, reg) ==
    LET d == ddddd_2_ddddd[reg]
    IN Noting({}, {reg}, Two(Legal({d}), \h40f400 | RegField(d), val))
\* Mutant: pass 1 counts the long form.
MutGenParExpRegShort(val, reg) ==
    LET d == ddddd_2_ddddd[reg]
    IN Noting({}, {reg}, Insn(2, 1, Legal({d}) /\ val \in 0 .. 255, \h200000 | At(val % 256, 8) | At(d, 16), 0))
GenParExpRegShort(val, reg) ==
    LET d == ddddd_2_ddddd[reg]
    IN Noting({}, {reg}, One(Legal({d}) /\ val \in 0 .. 255, \h200000 | At(val % 256, 8) | At(d, 16)))
GenParRegReg(src_reg, dst_reg) ==
    LET s == ddddd_2_ddddd[src_reg]  d == ddddd_2_ddddd[dst_reg]
    IN Noting({src_reg}, {dst_reg}, One(Legal({s, d}), \h200000 | At(s, 13) | At(d, 8)))
GenParUpdate(e) == One(e.ok, \h204000 | At(e.w0, 8))

\* The registers of a store are told to the pipeline as if they were loaded.
GenMemReg(short, long, e, reg) ==
    LET d == ddddd_2_ddddd[reg]
    IN Noting(PipeLineNewSrcEA(e), {reg},
              IF e.sflag = 2
              THEN One(e.ok /\ Legal({d}) /\ e.w1 \in 0 .. 63, short | RegField(d) | At(e.w1 % 64, 8))
              ELSE Sized(e.sflag, e.ok /\ Legal({d}), long | RegField(d) | At(e.w0, 8), e.w1))
GenLMemReg(short, long, e, reg) ==
    LET d == ddddd_2_LLL[reg]
        field == At((d \div 4) % 2, 19) | At(d % 4, 16)
    IN Noting(PipeLineNewSrcEA(e), {},
              IF e.sflag = 2
              THEN One(e.ok /\ e.w1 \in 0 .. 63, short | field | At(e.w1 % 64, 8))
              ELSE Sized(e.sflag, e.ok, long | field | At(e.w0, 8), e.w1))

GenParEaRegRegReg(e, dst_reg1, src_reg2, dst_reg2) ==
    LET d1 == ddddd_2_ff[dst_reg1]  s2 == ddddd_2_d[src_reg2]  d2 == ddddd_2_yff[dst_reg2]
    IN Noting(PipeLineNewSrcEA(e), {},
              Sized(e.sflag, e.ok /\ Legal({d1, s2}) /\ d2 \in 0 .. 1,
                    \h108000 | At(e.w0, 8) | At(d2, 16) | At(s2, 17) | At(d1, 18), e.w1))
Immediate(val) == EA(1, TRUE, \h34, Word(val))
\* Its registers are told to the pipeline before the pass is looked at.
GenParExpRegRegReg(val, dst_reg1, src_reg2, dst_reg2) ==
    [Noting({src_reg2}, {dst_reg1, dst_reg2},
            GenParEaRegRegReg(Immediate(val), dst_reg1, src_reg2, dst_reg2)) EXCEPT !.both = TRUE]

\* The numbers 4 and 6 are A0 and A2; the fields of X0 and Y0 are compared
\* with them before they are looked up.
GenParRegEaRegReg(src_reg1, e, src_reg2, dst_reg2) ==
    LET class1 == src_reg1 # dst_reg2 /\ src_reg2 # 4
        s1 == ddddd_2_ff[src_reg1]  s2 == ddddd_2_d[src_reg2]  d2 == ddddd_2_yff[dst_reg2]
    IN Noting(PipeLineNewSrcEA(e), {},
              IF class1
              THEN Sized(e.sflag, e.ok /\ Legal({s1, s2, d2}),
                         \h100000 | At(e.w0, 8) | At(d2, 16) | At(s2, 17) | At(s1, 18), e.w1)
              ELSE Sized(e.sflag, e.ok /\ ddddd_2_ff[src_reg2] = 0,
                         \h080000 | At(ddddd_2_d[src_reg1], 16) | At(e.w0, 8), e.w1))
GenParRegRegEaReg(src_reg1, dst_reg1, e, dst_reg2) ==
    LET s1 == ddddd_2_d[src_reg1]  d1 == ddddd_2_ff[dst_reg1]  d2 == ddddd_2_yff[dst_reg2]
    IN Noting(PipeLineNewSrcEA(e), {},
              Sized(e.sflag, e.ok /\ Legal({s1, d2}) /\ d1 \in 0 .. 1,
                    \h10c000 | At(e.w0, 8) | At(d2, 16) | At(d1, 18) | At(s1, 19), e.w1))
GenParRegRegRegEa(src_reg1, dst_reg1, dst_reg2, e) ==
    LET class1 == dst_reg1 # dst_reg2 /\ src_reg1 # 6
        s1 == ddddd_2_d[src_reg1]  d1 == ddddd_2_ff[dst_reg1]  d2 == ddddd_2_yff[dst_reg2]
    IN Noting(PipeLineNewSrcEA(e), {},
              IF class1
              THEN Sized(e.sflag, e.ok /\ d1 \in 0 .. 1,
                         \h104000 | At(e.w0, 8) | At(d2, 16) | At(d1, 18) | At(s1, 19), e.w1)
              ELSE Sized(e.sflag, e.ok /\ ddddd_2_yff[src_reg1] = 0,
                         \h088000 | At(ddddd_2_d[dst_reg1], 16) | At(e.w0, 8), e.w1))

GenParXRegYReg(opcode, e1, reg1, e2, reg2) ==
    LET x == ea_2_MMRRR(e1.w0)
        y == ea_2_mmrr(e2.w0, IF x = -1 THEN 0 ELSE x)
        r1 == ddddd_2_ff[reg1]  r2 == ddddd_2_yff[reg2]
    IN Noting(PipeLineNewSrcEA(e1) \cup PipeLineNewSrcEA(e2), {},
              One(e1.ok /\ e2.ok /\ Legal({x, y, r1, r2}) /\ y # -2,
                  opcode | At((y \div 4) % 4, 20) | At(r1, 18) | At(r2, 16) | At(y % 4, 13) | At(x, 8)))
GenParEmpty == One(TRUE, \h200000)

-------------------------------------------------------------------------------
\* A parallel move as the grammar reads it: its form, then its operands.
par_move(t) ==
    CASE t[1] = "" -> GenParEmpty
      [] t[1] = "ifcc" -> GenParIFcc(\h20200, t[2])
      [] t[1] = "ifcc.u" -> GenParIFcc(\h20300, t[2])
      [] t[1] = "#,R" -> GenParExpReg(t[2], t[3])
      [] t[1] = "#<,R" -> GenParExpRegShort(t[2], t[3])
      [] t[1] = "R,R" -> GenParRegReg(t[2], t[3])
      [] t[1] = "ea" -> GenParUpdate(ea(t[2]))
      [] t[1] = "X:,R" -> GenMemReg(xmem_reg[1], xmem_reg[2], ea(t[2]), t[3])
      [] t[1] = "R,X:" -> GenMemReg(xmem_reg[3], xmem_reg[4], ea(t[3]), t[2])
      [] t[1] = "Y:,R" -> GenMemReg(ymem_reg[1], ymem_reg[2], ea(t[2]), t[3])
      [] t[1] = "R,Y:" -> GenMemReg(ymem_reg[3], ymem_reg[4], ea(t[3]), t[2])
      [] t[1] = "L:,R" -> GenLMemReg(xmem_reg[1], xmem_reg[2], ea(t[2]), t[3])
      [] t[1] = "R,L:" -> GenLMemReg(xmem_reg[3], xmem_reg[4], ea(t[3]), t[2])
      [] t[1] = "#,R R,R" -> GenParExpRegRegReg(t[2], t[3], t[4], t[5])
      [] t[1] = "X:,R R,R" -> GenParEaRegRegReg(ea(t[2]), t[3], t[4], t[5])
      [] t[1] = "R,X: R,R" -> GenParRegEaRegReg(t[2], ea(t[3]), t[4], t[5])
      [] t[1] = "R,R #,R" -> GenParRegRegEaReg(t[2], t[3], Immediate(t[4]), t[5])
      [] t[1] = "R,R Y:,R" -> GenParRegRegEaReg(t[2], t[3], ea(t[4]), t[5])
      [] t[1] = "R,R R,Y:" -> GenParRegRegRegEa(t[2], t[3], t[4], ea(t[5]))
      [] t[1] = "X:,R Y:,R" -> GenParXRegYReg(XRegYReg_pattern[1], ea(t[2]), t[3], ea(t[4]), t[5])
      [] t[1] = "X:,R R,Y:" -> GenParXRegYReg(XRegYReg_pattern[2], ea(t[2]), t[3], ea(t[5]), t[4])
      [] t[1] = "R,X: Y:,R" -> GenParXRegYReg(XRegYReg_pattern[3], ea(t[3]), t[2], ea(t[4]), t[5])
      [] t[1] = "R,X: R,Y:" -> GenParXRegYReg(XRegYReg_pattern[4], ea(t[3]), t[2], ea(t[5]), t[4])
===============================================================================
