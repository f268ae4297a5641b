------------------------------ MODULE GenBitOps -------------------------------
(***************************************************************************)
(* Bit instructions, and the jumps and branches on a bit (GenBitOps.c and   *)
(* the Bit generators of GenMisc.c).  A pattern has six words: for an       *)
(* address below 64, one in the last 64 words of memory (I/O), one in the   *)
(* 64 words before (56301 only), one for no address, an indirect one, and a *)
(* register.                                                               *)
(***************************************************************************)
EXTENDS GenParMoves

bchg_patterns == <<\hb0000, \hb8000, \h14000, \hb8000, \hb4000, \hbc040>>
bclr_patterns == <<\ha0000, \ha8000, \h10000, \ha8000, \ha4000, \hac040>>
bset_patterns == <<\ha0020, \ha8020, \h10020, \ha8020, \ha4020, \hac060>>
btst_patterns == <<\hb0020, \hb8020, \h14020, \hb8020, \hb4060, \hbc060>>
brclr_patterns == <<\hc8080, \hcc000, \h48000, \hcc000, \hc8000, \hcc080>>
brset_patterns == <<\hc80a0, \hcc020, \h48020, \hcc020, \hc8020, \hcc0a0>>
bsclr_patterns == <<\hd8080, \hdc000, \h48080, \hdc000, \hd8000, \hdc080>>
bsset_patterns == <<\hd80a0, \hdc020, \h480a0, \hdc020, \hd8020, \hdc0a0>>
jclr_patterns == <<\ha0080, \ha8080, \h18080, \ha8080, \ha4080, \hac000>>
jset_patterns == <<\ha00a0, \ha80a0, \h180a0, \ha80a0, \ha40a0, \hac020>>
jsclr_patterns == <<\hb0080, \hb8080, \h1c080, \hb8080, \hb4080, \hbc000>>
jsset_patterns == <<\hb00a0, \hb80a0, \h1c0a0, \hb80a0, \ha40a0, \hbc020>>
extract_patterns == <<\hc1a00, \hc1800, \hc1a80, \hc1880, \hc1b00, \hc1900>>

\* The bits set in an address of 64 or more before its range is looked at.
WithHigh(address, high) == address | high

\* A short address in one of the three ranges; FALSE when it is in none.
BitAddressOk(addr, high) == addr < 64 \/ WithHigh(addr, high) >= \hffff80
BitAddress(patt, addr, high) ==
    LET full == WithHigh(addr, high)
    IN IF addr < 64 THEN patt[1] | At(addr, 8)
       ELSE IF full >= \hffffc0 THEN patt[2] | At(full - \hffffc0, 8)
       ELSE IF full >= \hffff80 THEN patt[3] | At(full - \hffff80, 8) ELSE patt[4]

\* Only the upper end of the bit number is checked.
BitOk(val) == val <= 23
Bit(val, xory) == At(val, 0) | At(xory, 6)

GenBitOp(patt, val, xory, e) ==
    IF e.sflag = 2
    THEN One(e.ok /\ BitOk(val) /\ BitAddressOk(e.w1, \hff0000),
             BitAddress(patt, e.w1, \hff0000) | Bit(val, xory))
    ELSE Sized(e.sflag, e.ok /\ BitOk(val), patt[5] | Bit(val, xory) | At(e.w0, 8), e.w1)
GenBitOpReg(patt, val, reg) ==
    LET d == ddddd_2_DDDDDD[reg]
    IN One(BitOk(val) /\ Legal({d}), patt | At(val, 0) | At(d, 8))

\* A bit in memory and a target: the word of the bit, and the second word.
BitTarget(patt, val, xory, e, high, ok, w1) ==
    Two(ok /\ e.ok /\ BitOk(val) /\ e.sflag # 1 /\ (e.sflag = 2 => BitAddressOk(e.w1, high)),
        Bit(val, xory) | (IF e.sflag = 2 THEN BitAddress(patt, e.w1, high) ELSE patt[5] | At(e.w0, 8)), w1)
GenJccBitRel(patt, val, xory, e, rel) ==
    BitTarget(patt, val, xory, e, 0, rel.ok /\ rel.type = "T_LONG", rel.value)
GenJccBitAbs(patt, val, xory, e, rel) ==
    BitTarget(patt, val, xory, e, \hffff00, rel.ok, rel.abs_value)
GenJccBitRelReg(patt, val, reg, rel) ==
    LET d == ddddd_2_DDDDDD[reg]
    IN Two(BitOk(val) /\ Legal({d}) /\ rel.ok /\ rel.type = "T_LONG",
           patt | At(val, 0) | At(d, 8), rel.value)
GenJccBitAbsReg(patt, val, reg, rel) ==
    LET d == ddddd_2_DDDDDD[reg]
    IN Two(BitOk(val) /\ Legal({d}) /\ rel.ok, patt | At(val, 0) | At(d, 8), rel.abs_value)

\* The pattern of the instruction is not used by the first.
GenInsExt1(patt, reg, src, dst) ==
    LET r == ddddd_2_sss[reg]  s == ddddd_2_d[src]  d == ddddd_2_d[dst]
    IN Ext({1, 2}, One(Legal({r, s, d}), \hc1a00 | At(s, 4) | At(r, 1) | At(d, 0)))
GenInsExt2(patt, val, src, dst) ==
    LET s == ddddd_2_d[src]  d == ddddd_2_d[dst]
    IN Ext({1, 2}, Two(Legal({s, d}), patt | At(s, 4) | At(d, 0), val))
===============================================================================
