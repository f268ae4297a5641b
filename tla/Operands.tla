------------------------------- MODULE Operands -------------------------------
(***************************************************************************)
(* Operands of an instruction, as the grammar builds them (GenMisc.c from   *)
(* GenEA1 on, and the rules ea, MMRRR and rel_target of Parser.y), and the  *)
(* record a generator hands to the code buffer (bcode).                     *)
(*                                                                         *)
(* An operand is a tuple headed by its form; an effective address becomes   *)
(*   sflag  0: no second word, 1: the second word w1, 2: a short address w1 *)
(*   ok     no error was reported for it                                    *)
(* and a branch target also has a type and both its distance and address.   *)
(***************************************************************************)
EXTENDS ConvertFields, Bitwise

CONSTANT Here                      \* the pc of the instruction

ASSUME HereAssumption == Here \in 0 .. 2 ^ 24 - 1

\* A field k bits up in a word; a negative value fills the bits above.
At(field, k) == (field % 2 ^ (24 - k)) * 2 ^ k
Word(value) == value % 2 ^ 24

(***************************************************************************)
(* The result of a generator: the words the line takes in pass 1 and writes *)
(* in pass 2, whether pass 2 accepts it, the passes in which the line is    *)
(* refused unless the CPU is a 56301, and the address registers it reads    *)
(* (src) and loads (dst) as far as it tells PipeLineRestriction.c, in pass  *)
(* 2 or in both passes.                                                     *)
(***************************************************************************)
Insn(size1, size2, ok, w0, w1) ==
    [size1 |-> size1, size2 |-> size2, ok |-> ok, w0 |-> Word(w0), w1 |-> Word(w1),
     ext |-> {}, src |-> {}, dst |-> {}, both |-> FALSE]
One(ok, w0) == Insn(1, 1, ok, w0, 0)
Two(ok, w0, w1) == Insn(2, 2, ok, w0, w1)
Size(sflag) == IF sflag = 0 THEN 1 ELSE 2
Sized(sflag, ok, w0, w1) == Insn(Size(sflag), Size(sflag), ok, w0, w1)
With(move, ok, w0) == [move EXCEPT !.ok = @ /\ ok, !.w0 = @ | w0]
Ext(passes, insn) == [insn EXCEPT !.ext = @ \cup passes]

-------------------------------------------------------------------------------
EA(sflag, ok, w0, w1) == [sflag |-> sflag, ok |-> ok, w0 |-> w0, w1 |-> w1]
GenEA1(opcode, reg, offs) == EA(0, reg = offs, IF reg = offs THEN opcode | reg ELSE 0, 0)
GenEA2(opcode, reg) == EA(0, TRUE, opcode | reg, 0)
GenImmLong(opcode, addr) == EA(1, TRUE, opcode, Word(addr))
GenImmShort(opcode, addr) == EA(2, TRUE, opcode, Word(addr))

\* (Rn)-Nn  (Rn)+Nn  (Rn)-  (Rn)+  (Rn)  (Rn+Nn)  -(Rn)  addr  <<addr  <addr
ea(o) == CASE o[1] = "-N" -> GenEA1(0, o[2], o[3])
           [] o[1] = "+N" -> GenEA1(8, o[2], o[3])
           [] o[1] = "-" -> GenEA2(16, o[2])
           [] o[1] = "+" -> GenEA2(24, o[2])
           [] o[1] = "R" -> GenEA2(32, o[2])
           [] o[1] = "R+N" -> GenEA1(40, o[2], o[3])
           [] o[1] = "-R" -> GenEA2(56, o[2])
           [] o[1] = "abs" -> GenImmLong(48, o[2])
           [] o[1] \in {"io", "short"} -> GenImmShort(48, o[2])

-------------------------------------------------------------------------------
Target(sflag, type, ok, value, abs_value) ==
    [sflag |-> sflag, type |-> type, ok |-> ok, value |-> value, abs_value |-> abs_value]
GenRelAddrLong(addr) == Target(1, "T_LONG", TRUE, addr - Here, addr)
GenRelAddrShort(addr) == Target(0, "T_SHORT", addr - Here \in -255 .. 255, addr - Here, addr)
GenRelAddrReg(reg) == Target(0, "T_REGISTER", TRUE, reg, 0)
rel_target(o) == CASE o[1] = "rel" -> GenRelAddrLong(o[2])
                   [] o[1] = "relshort" -> GenRelAddrShort(o[2])
                   [] o[1] = "relreg" -> GenRelAddrReg(o[2])
===============================================================================
