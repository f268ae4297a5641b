-------------------------------- MODULE CodeGen -------------------------------
(***************************************************************************)
(* The two passes over instruction lines: pass 1 counts the words of each   *)
(* line, pass 2 writes them, and PipeLineRestriction.c warns of an address  *)
(* register used by the instruction after the one that loads it.            *)
(*                                                                         *)
(* A program is a sequence of lines; a line is an instruction (a tuple of   *)
(* Instructions), ORG, or DC.  What ORG, DC and labels do to sections and   *)
(* symbols is TwoPass; here ORG only forgets the registers and DC leaves    *)
(* them alone.                                                             *)
(***************************************************************************)
EXTENDS Instructions, FiniteSets

CONSTANTS Statements,          \* the instruction lines considered
          Programs,            \* the programs: sequences of lines
          Org, Dc              \* the two other lines

Lines == Statements \cup {Org, Dc}

ASSUME ProgramsAssumption ==
    /\ Org \notin Statements /\ Dc \notin Statements
    /\ \A p \in Programs : \A i \in DOMAIN p : p[i] \in Lines

VARIABLES program,             \* the source
          cpu,                 \* g_dsp_cpu, option -c
          pass, at,            \* the pass, and the next line
          status,              \* "run", "done", or "refused": errors stop the run after their pass
          errors,              \* an error has been reported in this pass
          sizes,               \* the words pass 1 counted for each line
          words,               \* the words pass 2 wrote for each line
          prevInstrRegs,       \* g_prevInstrRegs, as a set: loaded by the last instruction
          warnings             \* <<pass, line, register>> warned of

vars == <<program, cpu, pass, at, status, errors, sizes, words, prevInstrRegs, warnings>>

Cpus == {56001, 56301}
AguRegs == {r \in RegCodes : isAguReg(r)}

\* Every line's result, computed once.
Code == [t \in Statements |-> code(t)]
Words(insn) == IF insn.size2 = 1 THEN <<insn.w0>> ELSE <<insn.w0, insn.w1>>

-------------------------------------------------------------------------------
Init == /\ program \in Programs /\ cpu \in Cpus
        /\ pass = 1 /\ at = 1 /\ status = "run" /\ errors = FALSE
        /\ sizes = <<>> /\ words = <<>> /\ prevInstrRegs = {} /\ warnings = {}

\* The line read next is done with at the end of the step.
Line == status = "run" /\ at <= Len(program) /\ at' = at + 1 /\ UNCHANGED <<program, cpu, pass, status>>

\* What the generator tells PipeLineRestriction.c in this pass.
Told(insn, regs) == IF pass = 2 \/ insn.both THEN regs ELSE {}
PipeLineNewSrcAguReg(insn) ==
    warnings' = warnings \cup {<<pass, at, r>> : r \in Told(insn, insn.src) \cap prevInstrRegs}
PipeLineNewInst(insn) == prevInstrRegs' = Told(insn, insn.dst)
\* Mutant: the reset keeps what the last instruction loaded.
MutPipeLineReset == prevInstrRegs' = prevInstrRegs
PipeLineReset == prevInstrRegs' = {}

\* Mutant: the size is recorded in both passes.
MutCounted(size) == sizes' = Append(sizes, size)
Counted(size) == sizes' = IF pass = 1 THEN Append(sizes, size) ELSE sizes
Written(ws) == words' = IF pass = 2 THEN Append(words, ws) ELSE words

\* An instruction: what it adds to the image, then what the pipeline keeps.
Generated(insn) ==
    /\ Counted(insn.size1) /\ Written(Words(insn))
    /\ errors' = (\/ errors \/ (pass = 2 /\ ~insn.ok)
                  \/ (cpu # 56301 /\ pass \in insn.ext))
    /\ PipeLineNewSrcAguReg(insn) /\ PipeLineNewInst(insn)
Instruction == /\ Line /\ program[at] \notin {Org, Dc}
               /\ Generated(Code[program[at]])

\* Their words are left out: no property here is about them.
GenOrg == /\ Line /\ program[at] = Org
          /\ PipeLineReset /\ Counted(0) /\ Written(<<>>) /\ UNCHANGED <<errors, warnings>>
GenDc == /\ Line /\ program[at] = Dc
         /\ Counted(0) /\ Written(<<>>) /\ UNCHANGED <<errors, warnings, prevInstrRegs>>

\* InitParserPass2 forgets the registers; errors of pass 1 end the run.
EndPass1 == /\ status = "run" /\ pass = 1 /\ at > Len(program)
            /\ status' = IF errors THEN "refused" ELSE "run"
            /\ IF errors THEN UNCHANGED <<pass, at, prevInstrRegs>>
               ELSE pass' = 2 /\ at' = 1 /\ PipeLineReset
            /\ UNCHANGED <<program, cpu, errors, sizes, words, warnings>>
EndPass2 == /\ status = "run" /\ pass = 2 /\ at > Len(program)
            /\ status' = IF errors THEN "refused" ELSE "done"
            /\ UNCHANGED <<program, cpu, pass, at, errors, sizes, words, prevInstrRegs, warnings>>

Next == Instruction \/ GenOrg \/ GenDc \/ EndPass1 \/ EndPass2

Spec == Init /\ [][Next]_vars
-------------------------------------------------------------------------------
\* The types; PipeLineRestriction.c has eight places for registers and writes
\* to the next one before it looks whether that is the last.
TypeOK ==
    /\ program \in Seq(Lines) /\ cpu \in Cpus /\ pass \in 1 .. 2
    /\ at \in 1 .. Len(program) + 1 /\ status \in {"run", "done", "refused"} /\ errors \in BOOLEAN
    /\ Len(sizes) = (IF pass = 1 THEN at - 1 ELSE Len(program))
    /\ Len(words) = (IF pass = 1 THEN 0 ELSE at - 1)
    /\ prevInstrRegs \subseteq AguRegs /\ Cardinality(prevInstrRegs) < 8
    /\ warnings \subseteq (1 .. 2) \X (1 .. Len(program)) \X AguRegs

Done == status = "done"

\* The lines whose two sizes differ.  MOVEP between two operands looks at one
\* in pass 1 and at the other in pass 2; LRA Rn is two words in pass 1 only.
TwoSizes(t) == t[1] = "MOVEP ea,ea" \/ (t[1] = "LRA" /\ t[3][1] = "relreg")

\* Pass 2 writes for each line as many words as pass 1 counted for it: every
\* label below is where the code is.  The passes decide this in two places of
\* every generator.
SizesAgree ==
    Done => \A i \in DOMAIN program :
                program[i] \in {Org, Dc} \/ TwoSizes(program[i]) \/ Len(words[i]) = sizes[i]

-------------------------------------------------------------------------------
(* What the image tells: a line that is alone in its program is compared    *)
(* with every other that is accepted.                                      *)
Reading(t, insn) == [line |-> t, accepted |-> insn.ok, words |-> Words(insn)]
Readings == {r \in {Reading(t, Code[t]) : t \in Statements} : r.accepted}
Clashing == {r.line : r \in {s \in Readings : s.words = words[1] /\ s.line # program[1]}}

\* Conditions with two names.
SameMnemonic(m, n) == m = n \/ {m, n} \in {{"cc", "hs"}, {"cs", "lo"}}
\* A short branch backwards fills the condition's field and the bits above.
Backward(t) == t[1] \in {"BCC", "BSCC", "BRA", "BSR"} /\ t[Len(t)][1] = "relshort" /\ t[Len(t)][2] < Here
\* So does a negative bit or shift or repeat count, which is not refused.
Negative(t) == t[1] \in {"REP #", "LSX #,d", "BIT_XXX #,d", "BIT_XXX #,ea"} /\ t[3] < 0
\* DOR # is coded as DO #; EXTRACT with a register has one pattern for three
\* instructions; SWI is RTS; ADDR and SUBR b,a are ADDL and SUBL b,a; JSSET of
\* a short I/O address is JSET.
OneRule == {"EXTRACT r,s,d", "EXTRACTU r,s,d", "INSERT r,s,d"}
OneCode(t, u) == \/ {t[1], u[1]} = {"DO #", "DOR #"} \/ {t[1], u[1]} \subseteq OneRule
                 \/ t[1] = u[1] /\ {t[2], u[2]} \in {{"rts", "swi"}, {"addl", "addr"}, {"subl", "subr"}, {"jset", "jsset"}}

\* No two instructions have the same words, whatever their operands, other
\* than those named above: no operand reaches the bits of an opcode.
OpcodesApart(t, u) ==
    \/ t[1] = u[1] /\ SameMnemonic(t[2], u[2])
    \/ (Backward(t) /\ Backward(u)) \/ (Negative(t) /\ Negative(u)) \/ OneCode(t, u)

\* Rules with an address or a branch target of their own: one place has several
\* spellings, and I/O addresses are cut to their low bits.
Addressed == {"BCC", "BSCC", "BRA", "BSR", "JCC", "JSCC", "JMP", "JSR", "DO ea", "DO #", "DO d", "DO forever",
              "DOR ea", "DOR #", "DOR d", "DOR forever", "REP ea", "PLOCK", "PLOCKR", "LRA", "LUA ea", "VSL",
              "BIT_XXX #,ea", "R_BIT #,ea,rel", "R_BIT #,d,rel", "J_BIT #,ea,rel", "J_BIT #,d,rel", "MOVEC ea,d",
              "MOVEC d,ea", "MOVEM d,P:", "MOVEM P:,d", "MOVEP ea,ea", "MOVEP P:,ea", "MOVEP ea,P:", "MOVEP #,ea",
              "MOVEP ea,d", "MOVEP d,ea"}
\* COM is OMR's lower half; a product is that of its factors in either order.
SameOperands(t, u) == \/ t[1] = "ANDI_ORI #,d" /\ t[3] = u[3] /\ {t[4], u[4]} = {36, 51}
                      \/ t[1] = "MUL q,d pm" /\ {t[4], t[5]} = {u[4], u[5]} /\ t[3] = u[3] /\ t[6] = u[6] /\ t[7] = u[7]
\* The field of a register L: memory or class I has none for is -1 and is not
\* noticed; CMPU takes A1 and B1 for the other accumulator; IFcc's condition is
\* added to a pattern that already has bits of it.
Overlapping(t) == \/ t[1] = "CMPU s,d"
                  \/ t[1] = "MOVE" /\ t[3][1] \in {"L:,R", "R,L:", "R,X: R,R", "ifcc", "ifcc.u"}

\* Two accepted lines of one instruction have the same words only if their
\* registers and numbers are the same.
OperandsKept(t, u) ==
    t[1] = u[1] /\ t[2] = u[2] /\ t[1] \notin Addressed =>
        \/ SameOperands(t, u) \/ (Overlapping(t) /\ Overlapping(u)) \/ (Negative(t) /\ Negative(u))

\* The words the generators of codegen/ put together tell the accepted lines
\* apart: two lines with the same words have one mnemonic and one set of operands.
WordsApart ==
    Done /\ Len(program) = 1 =>
        \A u \in Clashing : OpcodesApart(program[1], u) /\ OperandsKept(program[1], u)

-------------------------------------------------------------------------------
(* What the text of a move says of address registers.                       *)
EaRegs(e) == IF e[1] \in {"-N", "+N", "R+N"} THEN {12 + e[2], 20 + e[3]}
             ELSE IF e[1] \in {"-", "+", "R", "-R"} THEN {12 + e[2]} ELSE {}

MoveUses(m) ==
    CASE m[1] = "R,R" -> {m[2]}
      [] m[1] \in {"X:,R", "Y:,R", "L:,R", "X:,R R,R"} -> EaRegs(m[2])
      [] m[1] \in {"R,X:", "R,Y:", "R,L:", "R,X: R,R"} -> EaRegs(m[3])
      [] m[1] = "R,R Y:,R" -> EaRegs(m[4])
      [] m[1] = "R,R R,Y:" -> EaRegs(m[5])
      [] m[1] = "X:,R Y:,R" -> EaRegs(m[2]) \cup EaRegs(m[4])
      [] m[1] = "X:,R R,Y:" -> EaRegs(m[2]) \cup EaRegs(m[5])
      [] m[1] = "R,X: Y:,R" -> EaRegs(m[3]) \cup EaRegs(m[4])
      [] m[1] = "R,X: R,Y:" -> EaRegs(m[3]) \cup EaRegs(m[5])
      [] OTHER -> {}
\* A register stored to X or Y is taken for one that is loaded, and not for one
\* that is used.
MoveLoads(m) ==
    CASE m[1] \in {"R,R", "#,R", "#<,R", "X:,R", "Y:,R"} -> {m[Len(m)]}
      [] m[1] \in {"R,X:", "R,Y:"} -> {m[2]}
      [] OTHER -> {}

\* The lines PipeLineRestriction.c hears of: parallel moves (L: and two memories:
\* only their addresses) and MOVEC (only its registers, and one it stores is
\* taken for one it loads).
Uses(t) == IF t[1] \in Parallel THEN MoveUses(Moved(t)) ELSE IF t[1] = "MOVEC s,d" THEN {t[3]} ELSE {}
Loads(t) == IF t[1] \in Parallel THEN MoveLoads(Moved(t))
            ELSE IF t[1] \in {"MOVEC s,d", "MOVEC ea,d", "MOVEC #,d"} THEN {Moved(t)}
            ELSE IF t[1] = "MOVEC d,ea" THEN {t[3]} ELSE {}

\* The instruction right before line i: DC has no registers, ORG begins anew.
Before(i) == {j \in 1 .. i - 1 : /\ program[j] \notin {Org, Dc}
                                 /\ \A k \in j + 1 .. i - 1 : program[k] = Dc}

\* The assembler warns just of the address registers that an instruction uses
\* and the instruction before it loads, once, in pass 2: not across an ORG, not
\* across the passes, and with data between them.
WarningsExact ==
    Done => warnings = UNION {{<<2, i, r>> : r \in AguRegs \cap Uses(program[i]) \cap
                                                   UNION {Loads(program[j]) : j \in Before(i)}} :
                              i \in {k \in DOMAIN program : program[k] \notin {Org, Dc}}}
===============================================================================
