----------------------------- MODULE Instructions -----------------------------
(***************************************************************************)
(* What an instruction line assembles to: the mnemonics of Lexer.l with the *)
(* value each carries, and the rule code of Parser.y, which hands the       *)
(* operands to a generator.                                                *)
(*                                                                         *)
(* A line is a tuple: the rule (named by its token, then the shape of its   *)
(* operands), the mnemonic where a token has several, and the operands in   *)
(* the order of the text.  Spelling is left out: letter case, spaces, and   *)
(* the expressions operands come from.                                      *)
(***************************************************************************)
EXTENDS GenMisc

Conditions == [cc |-> 0, hs |-> 0, ge |-> 1, ne |-> 2, pl |-> 3, nn |-> 4, ec |-> 5, lc |-> 6,
               gt |-> 7, cs |-> 8, lo |-> 8, lt |-> 9, eq |-> 10, mi |-> 11, nr |-> 12, es |-> 13, ls |-> 14]
\* Some families of mnemonics have one more condition, some do not.
ConditionsLE == Conditions @@ [le |-> 15]
Bcc == Conditions
BScc == Conditions
BRKcc == Conditions
DEBUGcc == Conditions
Jcc == ConditionsLE
JScc == ConditionsLE
Tcc == ConditionsLE
TRAPcc == ConditionsLE

OnePar == [abs |-> \h26, clr |-> \h13, neg |-> \h36, not |-> \h17, rnd |-> \h11, rol |-> \h37,
           ror |-> \h27, tst |-> \h3]
AdcSbc == [adc |-> \h21, sbc |-> \h25]
AddxSubx == [addl |-> \h12, addr |-> \h2, subl |-> \h16, subr |-> \h6]
AndiOri == [andi |-> \hb8, ori |-> \hf8]
DmacModifier == [dmacss |-> 0, dmacsu |-> 2, dmacuu |-> 3]
MulSigns == [su |-> 0, uu |-> 1]
NoArg == [nop |-> 0, pflush |-> 3, pflushun |-> 1, pfree |-> 2, reset |-> \h84, rti |-> 4, rts |-> \hc,
          stop |-> \h87, swi |-> \hc, trap |-> 6, wait |-> \h86]
Plock == [plock |-> \hbc081, punlock |-> \hac081]
Plockr == [plockr |-> \hf, punlockr |-> \he]

AndEorOr == [and |-> and_patterns, eor |-> eor_patterns, or |-> or_patterns]
AddSub == [add |-> add_patterns, sub |-> sub_patterns]
Asx == [asl |-> asl_patterns, asr |-> asr_patterns]
Lsx == [lsl |-> lsl_patterns, lsr |-> lsr_patterns]
BitXXX == [bchg |-> bchg_patterns, bclr |-> bclr_patterns, bset |-> bset_patterns, btst |-> btst_patterns]
RBitXXX == [brclr |-> brclr_patterns, brset |-> brset_patterns, bsclr |-> bsclr_patterns, bsset |-> bsset_patterns]
JBitXXX == [jclr |-> jclr_patterns, jset |-> jset_patterns, jsclr |-> jsclr_patterns, jsset |-> jsset_patterns]
Multiply == [mac |-> mac_pattern, mpy |-> mpy_pattern, macr |-> macr_pattern, mpyr |-> mpyr_pattern]

-------------------------------------------------------------------------------
(* Program control, then moves. *)
ControlCode(t) ==
    LET m == t[2] IN
    CASE t[1] = "BCC" -> GenBccRelTarger(Bcc[m], rel_target(t[3]))
      [] t[1] = "BSCC" -> GenBscc(BScc[m], rel_target(t[3]))
      [] t[1] = "BRKCC" -> GenBrkCC(BRKcc[m])
      [] t[1] = "DEBUGCC" -> GenDebug(\h300, DEBUGcc[m])
      [] t[1] = "DEBUG" -> GenDebug(\h200, 0)
      [] t[1] = "TRAPCC" -> GenTrapcc(TRAPcc[m])
      [] t[1] = "BRA" -> GenBraRelTarger(rel_target(t[3]))
      [] t[1] = "BSR" -> GenBsr(rel_target(t[3]))
      [] t[1] = "JCC" -> GenJmpJsrJsccJcc(jcc_pattern, Jcc[m], ea(t[3]))
      [] t[1] = "JSCC" -> GenJmpJsrJsccJcc(jscc_pattern, JScc[m], ea(t[3]))
      [] t[1] = "JMP" -> GenJmpJsrJsccJcc(jmp_pattern, 0, ea(t[3]))
      [] t[1] = "JSR" -> GenJmpJsrJsccJcc(jsr_pattern, 0, ea(t[3]))
      [] t[1] = "DO ea" -> GenDo1(t[3], ea(t[4]), rel_target(t[5]))
      [] t[1] = "DO #" -> GenDo2(t[3], rel_target(t[4]))
      [] t[1] = "DO d" -> GenDo3(t[3], rel_target(t[4]))
      [] t[1] = "DO forever" -> GenDoForever(rel_target(t[3]))
      [] t[1] = "DOR ea" -> GenDor1(t[3], ea(t[4]), rel_target(t[5]))
      [] t[1] = "DOR #" -> GenDo2(t[3], rel_target(t[4]))
      [] t[1] = "DOR d" -> GenDor3(t[3], rel_target(t[4]))
      [] t[1] = "DOR forever" -> GenDorForever(rel_target(t[3]))
      [] t[1] = "ENDDO" -> GenEnddo
      [] t[1] = "ILLEGAL" -> GenIllegal
      [] t[1] = "NONE_PAR" -> GenNoArgOpcode(NoArg[m])
      [] t[1] = "REP ea" -> GenRep1(t[3], ea(t[4]))
      [] t[1] = "REP #" -> GenRep2(t[3])
      [] t[1] = "REP d" -> GenRep3(t[3])
      [] t[1] = "PLOCK" -> GenPlockPunloc(Plock[m], ea(t[3]))
      [] t[1] = "PLOCKR" -> GenPlockrPunlockr(Plockr[m], rel_target(t[3]))
      [] t[1] = "LRA" -> GenLra(rel_target(t[3]), t[4])
      [] t[1] = "LUA ea" -> GenLua1(ea(t[3]), t[4])
      [] t[1] = "LUA R+#" -> GenLua2(t[3], t[4], t[5])
      [] t[1] = "TCC s,d" -> GenTcc1(Tcc[m], t[3], t[4])
      [] t[1] = "TCC s,d s,d" -> GenTcc2(Tcc[m], t[3], t[4], t[5], t[6])
      [] t[1] = "VSL" -> GenVsl(t[3], t[4], ea(t[5]))
      [] t[1] = "MOVEC ea,d" -> GenMovec1(movec_pattern1, t[3], ea(t[4]), t[5])
      [] t[1] = "MOVEC d,ea" -> GenMovec1(movec_pattern2, t[4], ea(t[5]), t[3])
      [] t[1] = "MOVEC s,d" -> GenMovec2(t[3], t[4])
      [] t[1] = "MOVEC #,d" -> GenMovec3(t[3], t[4], t[5])
      [] t[1] = "MOVEM d,P:" -> GenMovem(movem_pattern1, ea(t[4]), t[3])
      [] t[1] = "MOVEM P:,d" -> GenMovem(movem_pattern2, ea(t[3]), t[4])
      [] t[1] = "MOVEP ea,ea" -> GenMovep(t[3], ea(t[4]), t[5], ea(t[6]))
      [] t[1] = "MOVEP P:,ea" -> GenMovep2(1, ea(t[3]), t[4], ea(t[5]))
      [] t[1] = "MOVEP ea,P:" -> GenMovep2(0, ea(t[5]), t[3], ea(t[4]))
      [] t[1] = "MOVEP #,ea" -> GenMovep3(t[3], t[4], ea(t[5]))
      [] t[1] = "MOVEP ea,d" -> GenMovep4(0, t[3], ea(t[4]), t[5])
      [] t[1] = "MOVEP d,ea" -> GenMovep4(1, t[4], ea(t[5]), t[3])

(* The rules that end in a parallel move. *)
Parallel == {"MOVE", "ONE_PAR d pm", "AND_EOR_OR s,d pm", "ADC_SBC s,d pm", "ADD_SUB s,d pm", "CMP s,d pm",
             "ADDx_SUBx s,d pm", "ASX d pm", "LSX d pm", "CMPM s,d pm", "MUL q,d pm", "MAX s,d pm", "MAXM s,d pm",
             "TFR s,d pm"}
Moved(t) == t[Len(t)]
ParallelCode(t, pm) ==
    LET m == t[2] IN
    CASE t[1] = "MOVE" -> GenMove(pm)
      [] t[1] = "ONE_PAR d pm" -> GenOneParamParMove(OnePar[m], t[3], pm)
      [] t[1] = "AND_EOR_OR s,d pm" -> GenAndEorOr(AndEorOr[m][1], t[3], t[4], pm)
      [] t[1] = "ADC_SBC s,d pm" -> GenAdcSbc(AdcSbc[m], t[3], t[4], pm)
      [] t[1] = "ADD_SUB s,d pm" -> GenAddSub(AddSub[m][1], t[3], t[4], pm)
      [] t[1] = "CMP s,d pm" -> GenCmp(cmp_patterns[1], t[3], t[4], pm)
      [] t[1] = "ADDx_SUBx s,d pm" -> GenAddxSubx(AddxSubx[m], t[3], t[4], pm)
      [] t[1] = "ASX d pm" -> GenOneParamParMove(Asx[m][1], t[3], pm)
      [] t[1] = "LSX d pm" -> GenOneParamParMove(Lsx[m][1], t[3], pm)
      [] t[1] = "CMPM s,d pm" -> GenCmpm(t[3], t[4], pm)
      [] t[1] = "MUL q,d pm" -> GenMul1(Multiply[m], t[3], GetQQQ(t[4], t[5]), t[6], pm)
      [] t[1] = "MAX s,d pm" -> GenMax(max_pattern[1], t[3], t[4], pm)
      [] t[1] = "MAXM s,d pm" -> GenMax(max_pattern[2], t[3], t[4], pm)
      [] t[1] = "TFR s,d pm" -> GenTfr(t[3], t[4], pm)

(* The rule code: data operations and bits here, the rest above. *)
code(t) ==
    LET m == t[2] IN
    CASE t[1] \in Parallel -> ParallelCode(t, par_move(Moved(t)))
      [] t[1] = "AND_EOR_OR #,d" -> GenAddSubEorOrLong(AndEorOr[m][3], t[3], t[4])
      [] t[1] = "AND_EOR_OR #<,d" -> GenAddSubEorOrShort(AndEorOr[m][2], t[3], t[4])
      [] t[1] = "ADD_SUB #,d" -> GenAddSubEorOrLong(AddSub[m][3], t[3], t[4])
      [] t[1] = "ADD_SUB #<,d" -> GenAddSubEorOrShort(AddSub[m][2], t[3], t[4])
      [] t[1] = "ANDI_ORI #,d" -> GenAndiOri(AndiOri[m], t[3], t[4])
      [] t[1] = "ASX #,s,d" -> GenAsxImmediate(Asx[m][2], t[3], t[4], t[5])
      [] t[1] = "ASX r,s,d" -> GenAsxReg(Asx[m][3], t[3], t[4], t[5])
      [] t[1] = "LSX #,d" -> GenLsxImmediate(Lsx[m], t[3], t[4])
      [] t[1] = "LSX s,d" -> GenLsxReg(Lsx[m], t[3], t[4])
      [] t[1] = "CMPU s,d" -> GenCmpu(t[3], t[4])
      [] t[1] = "DEC d" -> GenIncDec(incdec_patterns[2], t[3])
      [] t[1] = "INC d" -> GenIncDec(incdec_patterns[1], t[3])
      [] t[1] = "DIV s,d" -> GenDiv(t[3], t[4])
      [] t[1] = "DMAC q,d" -> GenDMac(DmacModifier[m], t[3], GetQQQQ(t[4], t[5]), t[6])
      [] t[1] = "MUL s,#,d" -> GenMul2(Multiply[m], t[3], t[4], t[5], t[6])
      [] t[1] = "MULI #,s,d" -> GenMuli(Multiply[m], t[3], t[4], t[5], t[6])
      [] t[1] = "MULxx q,d" -> GenMulxx(Multiply[m], MulSigns[t[3]], t[4], GetQQQQ(t[5], t[6]), t[7])
      [] t[1] = "NORM s,d" -> GenNorm(t[3], t[4])
      [] t[1] = "CLB s,d" -> GenClb(t[3], t[4])
      [] t[1] = "MERGE s,d" -> GenMerge(t[3], t[4])
      [] t[1] = "BIT_XXX #,ea" -> GenBitOp(BitXXX[m], t[3], t[4], ea(t[5]))
      [] t[1] = "BIT_XXX #,d" -> GenBitOpReg(BitXXX[m][6], t[3], t[4])
      [] t[1] = "R_BIT #,ea,rel" -> GenJccBitRel(RBitXXX[m], t[3], t[4], ea(t[5]), rel_target(t[6]))
      [] t[1] = "R_BIT #,d,rel" -> GenJccBitRelReg(RBitXXX[m][6], t[3], t[4], rel_target(t[5]))
      [] t[1] = "J_BIT #,ea,rel" -> GenJccBitAbs(JBitXXX[m], t[3], t[4], ea(t[5]), rel_target(t[6]))
      [] t[1] = "J_BIT #,d,rel" -> GenJccBitAbsReg(JBitXXX[m][6], t[3], t[4], rel_target(t[5]))
      [] t[1] = "EXTRACT r,s,d" -> GenInsExt1(extract_patterns[1], t[3], t[4], t[5])
      [] t[1] = "EXTRACT #,s,d" -> GenInsExt2(extract_patterns[2], t[3], t[4], t[5])
      [] t[1] = "EXTRACTU r,s,d" -> GenInsExt1(extract_patterns[3], t[3], t[4], t[5])
      [] t[1] = "EXTRACTU #,s,d" -> GenInsExt2(extract_patterns[4], t[3], t[4], t[5])
      [] t[1] = "INSERT r,s,d" -> GenInsExt1(extract_patterns[5], t[3], t[4], t[5])
      [] t[1] = "INSERT #,s,d" -> GenInsExt2(extract_patterns[6], t[3], t[4], t[5])
      [] OTHER -> ControlCode(t)
===============================================================================
