------------------------------- MODULE GenMisc --------------------------------
(***************************************************************************)
(* The other generators of GenMisc.c: branches, jumps, loops, control       *)
(* registers, program memory and peripheral moves, conditional transfers.   *)
(***************************************************************************)
EXTENDS GenArith, GenBitOps

jmp_pattern == <<\hc0000, \hac080>>
jcc_pattern == <<\he0000, \hac0a0>>
jscc_pattern == <<\hf0000, \hbc0a0>>
jsr_pattern == <<\hd0000, \hbc080>>
movec_pattern1 == <<\h58020, \h5c020>>
movec_pattern2 == <<\h50020, \h54020>>
movem_pattern1 == <<\h70000, \h74080>>
movem_pattern2 == <<\h78000, \h7c080>>

GenOneParamParMove(patt, reg, move) ==
    LET d == ddddd_2_d[reg] IN With(move, Legal({d}), patt | At(d, 3))
GenTfr(src, dst, move) ==
    LET s == ddddd_2_JJJ2[src]  d == ddddd_2_d[dst]
    IN With(move, src # dst /\ Legal({s, d}), 1 | At(s, 4) | At(d, 3))

-------------------------------------------------------------------------------
\* Branches: four bits of the distance beside a condition, five below.
Distance(value) == At((value \div 32) % 16, 11) | At(value % 32, 0)
Branch(rel, long, short, reg) ==
    CASE rel.type = "T_LONG" -> Two(rel.ok, long, rel.value)
      [] rel.type = "T_SHORT" -> One(rel.ok, short | Distance(rel.value))
      [] rel.type = "T_REGISTER" -> One(rel.ok, reg | At(rel.value, 8))
GenBccRelTarger(cc, rel) ==
    Ext({1, 2}, Branch(rel, \hd0104 | cc, \h50400 | At(cc, 11), \hd1840 | cc))
GenBscc(cc, rel) == Ext({1, 2}, Branch(rel, \hb1000 | cc, \h50000 | At(cc, 12), \hd1800 | cc))
GenBraRelTarger(rel) == Ext({1, 2}, Branch(rel, \hb10c0, \h50c00, \hd18c0))
GenBsr(rel) == Ext({1}, Branch(rel, \hd1080, \h50800, \hd1880))
\* Pass 1 does not know yet that the target is a register.
GenLra(rel, reg) ==
    LET d == ddddd_2_ddddd[reg]  byReg == rel.type = "T_REGISTER"
    IN Insn(2, IF byReg THEN 1 ELSE 2, rel.ok /\ Legal({d}),
            (IF byReg THEN \h4c000 | At(rel.value, 8) ELSE \h44040) | At(d, 0), rel.value)
GenJmpJsrJsccJcc(patt, cc, e) ==
    IF e.sflag = 2 THEN One(e.ok /\ e.w1 <= 4095, patt[1] | At(cc, 12) | e.w1)
    ELSE Sized(e.sflag, e.ok, patt[2] | At(e.w0, 8) | cc, e.w1)

\* Loops: the second word is the last address (DO) or the way to it (DOR).
DoEnd(rel, ok, w0) == Two(ok /\ rel.ok /\ rel.type # "T_REGISTER", w0, rel.abs_value - 1)
DorEnd(rel, ok, w0) == Two(ok /\ rel.ok /\ rel.type = "T_LONG", w0, rel.value - 1)
Count(e, xory, short, indirect) ==
    At(xory, 6) | (IF e.sflag = 2 THEN short | At(e.w1, 8) ELSE indirect | At(e.w0, 8))
GenDo1(xory, e, rel) ==
    DoEnd(rel, e.ok /\ e.sflag # 1 /\ e.w1 <= 63, Count(e, xory, \h60000, \h64000))
\* The test of a short address is the wrong way round.
GenDor1(xory, e, rel) ==
    DorEnd(rel, e.ok /\ e.sflag # 1 /\ (e.sflag = 2 => e.w1 > 63), Count(e, xory, \h60010, \h64010))
Count12(val) == At(val % 256, 8) | At((val \div 256) % 16, 0)
GenDo2(val, rel) == DoEnd(rel, val \in 0 .. 4095, \h60080 | Count12(val))
GenDo3(reg, rel) ==
    LET d == ddddd_2_DDDDDD[reg] IN DoEnd(rel, Legal({d}), \h6c000 | At(d, 8))
GenDor3(reg, rel) ==
    LET d == ddddd_2_DDDDDD[reg] IN DorEnd(rel, Legal({d}), \h6c010 | At(d, 8))
GenDoForever(rel) == DoEnd(rel, TRUE, \h203)
GenDorForever(rel) == DorEnd(rel, TRUE, \h202)
GenRep1(xory, e) ==
    One(e.ok /\ (e.w0 = 48 => e.sflag = 2 /\ e.w1 <= 63), Count(e, xory, \h60020, \h64020))
\* Only the upper end of the count is checked.
GenRep2(exp) == One(exp <= 4095, \h600a0 | At(exp \div 256, 0) | At(exp % 256, 8))
GenRep3(reg) == LET d == ddddd_2_DDDDDD[reg] IN One(Legal({d}), \h6c020 | At(d, 8))

-------------------------------------------------------------------------------
GenClb(src, dst) == One(LegalSrcDst(src, dst), \hc1e00 | SrcDst(src, dst, 1))
GenMerge(src, dst) ==
    LET s == ddddd_2_sss[src]  d == ddddd_2_d[dst]
    IN Ext({1, 2}, One(Legal({s, d}), \hc1b800 | At(s, 1) | At(d, 0)))
GenLua1(e, dst) ==
    LET d == ddddd_2_dddd[dst] IN One(e.ok /\ Legal({d}), \h44010 | At(e.w0, 8) | At(d, 0))
GenLua2(reg, val, dst) ==
    LET d == ddddd_2_dddd[dst]
    IN Ext({1, 2}, One(val \in -63 .. 63 /\ Legal({d}),
                       \h40000 | At((val \div 16) % 8, 11) | At(reg, 8) | At(val % 16, 4) | At(d, 0)))
GenVsl(reg, val, e) ==
    LET r == ddddd_2_d[reg]
    IN Sized(e.sflag, e.ok /\ Legal({r}) /\ val \in 0 .. 1,
             \hac0c0 | At(r, 16) | At(e.w0, 8) | At(val, 4), 0)

\* A short address below 64, or an effective address.
ShortOrEA(patt, e, ok, field) ==
    IF e.sflag = 2 THEN One(ok /\ e.ok /\ e.w1 <= 63, patt[1] | At(e.w1, 8) | field)
    ELSE Sized(e.sflag, ok /\ e.ok, patt[2] | At(e.w0, 8) | field, e.w1)
GenMovec1(patt, xory, e, reg) ==
    LET d == ddddd_2_ddddd2[reg]
    IN Noting({}, {reg}, ShortOrEA(patt, e, Legal({d}), At(xory, 6) | At(d, 0)))
GenMovec2(src, dst) ==
    LET fromControl == Legal({ddddd_2_ddddd2[src], ddddd_2_eeeeee[dst]})
        toControl == Legal({ddddd_2_eeeeee[src], ddddd_2_ddddd2[dst]})
    IN Noting({src}, {dst},
              One(fromControl \/ toControl,
                  IF fromControl THEN \h440a0 | At(ddddd_2_eeeeee[dst], 8) | At(ddddd_2_ddddd2[src], 0)
                  ELSE \h4c0a0 | At(ddddd_2_eeeeee[src], 8) | At(ddddd_2_ddddd2[dst], 0)))
GenMovec3(sh, val, reg) ==
    LET d == ddddd_2_ddddd2[reg]
    IN Noting({}, {reg}, IF sh = 1 THEN Two(Legal({d}), \h5f420 | At(d, 0), val)
                         ELSE One(Legal({d}) /\ val \in 0 .. 255, \h500a0 | At(val, 8) | At(d, 0)))
GenMovem(patt, e, reg) ==
    LET d == ddddd_2_DDDDDD[reg] IN ShortOrEA(patt, e, Legal({d}), At(d, 0))

\* The peripheral address of a MOVEP: among the last 64 words, or the 64 before.
Peripheral(e) == e.w1 | \hffff00
IsIO(e) == Peripheral(e) >= \hffffc0
IsLow(e) == Peripheral(e) \in \hffff80 .. \hffffbf
IOAddr(e) == Peripheral(e) % 64
\* Between two memories.  Pass 1 counts the second word of either operand,
\* pass 2 the one of the operand it takes not to be the peripheral.
GenMovep(src_xory, src_ea, dst_xory, dst_ea) ==
    LET dir == IF src_ea.sflag # 2 THEN 1 ELSE 0
        io == IF dir = 1 THEN dst_ea ELSE src_ea      other == IF dir = 1 THEN src_ea ELSE dst_ea
        x == IF dir = 1 THEN dst_xory ELSE src_xory   y == IF dir = 1 THEN src_xory ELSE dst_xory
        rest == At(dir, 15) | At(other.w0, 8) | At(y, 6) | IOAddr(io)
    IN Insn(IF src_ea.sflag # dst_ea.sflag /\ 1 \in {src_ea.sflag, dst_ea.sflag} THEN 2 ELSE 1,
            Size(other.sflag),
            src_ea.ok /\ dst_ea.ok /\ src_ea.sflag # dst_ea.sflag /\ (IsIO(io) \/ IsLow(io)),
            rest | (IF IsIO(io) THEN \h84080 | At(x, 16) ELSE IF x = 0 THEN \h74000 ELSE \h70080),
            other.w1)
PeripheralOk(e) == e.ok /\ e.sflag = 2 /\ (IsIO(e) \/ IsLow(e))
GenMovep2(rw, e, xory, io) ==
    Sized(e.sflag, e.ok /\ PeripheralOk(io),
          At(e.w0, 8) | IOAddr(io)
          | (IF IsIO(io) THEN \h84040 | At(xory, 16) | At(rw, 15) ELSE \h08000 | At(rw, 14) | At(xory, 6)),
          e.w1)
GenMovep3(val, xory, io) ==
    LET low == \h7f400 | IOAddr(io)
    IN Two(PeripheralOk(io),
           IF IsIO(io) THEN \h8f480 | At(xory, 16) | IOAddr(io)
           ELSE IF xory = 1 THEN low ^^ \h4080 ELSE low, val)
GenMovep4(rw, xory, io, reg) ==
    LET d == ddddd_2_DDDDDD[reg]
        low == \h44080 | At(rw, 15) | At(d, 8) | At(IOAddr(io) \div 32, 6) | At(IOAddr(io) % 32, 0)
    IN One(PeripheralOk(io) /\ Legal({d}),
           IF IsIO(io) THEN \h84000 | At(xory, 16) | At(rw, 15) | At(d, 8) | IOAddr(io)
           ELSE IF xory = 1 THEN low ^^ \ha ELSE low)

-------------------------------------------------------------------------------
GenPlockPunloc(opcode, e) == Ext({1, 2}, Sized(e.sflag, e.ok, opcode | At(e.w0, 8), e.w1))
GenPlockrPunlockr(opcode, rel) ==
    Ext({1, 2}, Sized(rel.sflag, rel.ok /\ rel.type # "T_REGISTER", opcode, rel.value))

TccSource(src) == IF src \in {10, 11} THEN 0 ELSE ddddd_2_JJJ[src]
GenTcc1(cc, src, dst) ==
    LET s == TccSource(src)  d == ddddd_2_d[dst]
        rs == ddddd_2_RRR[src]  rd == ddddd_2_RRR[dst]
    IN IF s # -1
       THEN One(Legal({d}) /\ src # dst /\ s \notin {4, 6}, \h20000 | At(cc, 12) | At(s, 3) | At(d, 3))
       ELSE Ext({2}, One(Legal({rs, rd}), \h20800 | At(cc, 12) | At(rs, 8) | At(rd, 0)))
GenTcc2(cc, src1, dst1, src2, dst2) ==
    LET s1 == TccSource(src1)     d1 == ddddd_2_d[dst1]
        s2 == ddddd_2_RRR[src2]   d2 == ddddd_2_RRR[dst2]
    IN One(Legal({s1, d1, s2, d2}) /\ src1 # dst1 /\ s1 \notin {4, 6},
           \h30000 | At(cc, 12) | At(s1, 3) | At(d1, 3) | At(s2, 8) | At(d2, 0))

GenBrkCC(cc) == One(TRUE, \h210 | cc)
GenDebug(patt, cc) == One(TRUE, patt | cc)
GenTrapcc(cc) == One(TRUE, \h10 | cc)
GenNoArgOpcode(opcode) == One(TRUE, opcode)
GenEnddo == One(TRUE, \h8c)
GenIllegal == One(TRUE, 5)
GenMove(move) == move
===============================================================================
