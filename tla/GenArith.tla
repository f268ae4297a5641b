------------------------------- MODULE GenArith -------------------------------
(***************************************************************************)
(* The generators of GenArith.c: arithmetic, logic, shifts and              *)
(* multiplications.  Pattern arrays are sequences, so [1] is the C [0].     *)
(* A generator of a 56301 instruction wraps its result in Ext({1, 2}, _).   *)
(***************************************************************************)
EXTENDS GenParMoves

add_patterns == <<\h0, \h14080, \h140c0>>
sub_patterns == <<\h4, \h14084, \h140c4>>
cmp_patterns == <<\h5, \h14085, \h140c5>>
and_patterns == <<\h46, \h14086, \h140c6>>
eor_patterns == <<\h43, \h14083, \h140c3>>
or_patterns == <<\h42, \h14082, \h140c2>>
asl_patterns == <<\h32, \hc1d00, \hc1e40>>
asr_patterns == <<\h22, \hc1c00, \hc1e60>>
lsl_patterns == <<\h33, \hc1e80, \hc1e10>>
lsr_patterns == <<\h23, \hc1ec0, \hc1e30>>
incdec_patterns == <<\h8, \ha>>
mac_pattern == <<\h82, \h100c2, \h141c2, \h12680>>
mpy_pattern == <<\h80, \h100c0, \h141c0, \h12780>>
macr_pattern == <<\h83, \h100c3, \h141c3>>
mpyr_pattern == <<\h81, \h100c1, \h141c1>>
max_pattern == <<\h1d, \h15>>

\* A source field s and a destination d beside a parallel move.
BesideMove(patt, s, dst, shift, ok, move) ==
    LET d == ddddd_2_d[dst]
    IN With(move, ok /\ Legal({s, d}), patt | At(s, shift) | At(d, 3))

GenAndEorOr(patt, src, dst, move) ==
    BesideMove(patt, ddddd_2_JJ[src], dst, 4, src # dst, move)
GenAdcSbc(patt, src, dst, move) ==
    BesideMove(patt, IF src = 30 THEN 0 ELSE IF src = 31 THEN 1 ELSE -1, dst, 4, TRUE, move)
GenAddSub(patt, src, dst, move) ==
    BesideMove(patt, ddddd_2_JJJ[src], dst, 3, src # dst, move)
GenCmp(patt, src, dst, move) ==
    BesideMove(patt, ddddd_2_JJJ2[src], dst, 4, src # dst, move)
GenCmpm(src, dst, move) ==
    LET s == IF src = 10 THEN 1 ELSE IF src = 11 THEN 0 ELSE ddddd_2_JJJ[src]
    IN BesideMove(\h7, s, dst, 3, src # dst /\ s \notin {4, 6}, move)
GenMul1(patt, minus, pair, dst, move) ==
    BesideMove(patt[1] | At(minus, 2), pair, dst, 4, TRUE, move)
\* Only A -> B and B -> A.
GenAddxSubx(patt, src, dst, move) ==
    LET s == ddddd_2_d[src]  d == ddddd_2_d[dst]
    IN With(move, Legal({s, d}) /\ s # d, patt | At(s, 4) | At(d, 3))
GenMax(patt, src, dst, move) == With(move, src = 10 /\ dst = 11, patt)

GenAddSubEorOrLong(patt, val, dst) ==
    LET d == ddddd_2_d[dst] IN Two(Legal({d}), patt | At(d, 3), val)
GenAddSubEorOrShort(patt, val, dst) ==
    LET d == ddddd_2_d[dst] IN One(Legal({d}) /\ val \in 0 .. 63, patt | At(d, 3) | At(val, 8))
GenAndiOri(patt, val, dst) ==
    LET e == ddddd_2_EE[dst] IN One(Legal({e}) /\ val \in 0 .. 255, patt | At(e, 0) | At(val, 8))

\* The two registers of the shifts and the bit-field instructions.
SrcDst(src, dst, shift) == At(ddddd_2_d[src], shift) | At(ddddd_2_d[dst], 0)
LegalSrcDst(src, dst) == Legal({ddddd_2_d[src], ddddd_2_d[dst]})

GenAsxImmediate(patt, val, src, dst) ==
    One(LegalSrcDst(src, dst) /\ val \in 0 .. 63, patt | SrcDst(src, dst, 7) | At(val, 1))
GenAsxReg(patt, count, src, dst) ==
    LET s == ddddd_2_sss[count]
    IN One(LegalSrcDst(src, dst) /\ Legal({s}), patt | SrcDst(src, dst, 4) | At(s, 1))
\* The upper end is 16 and there is no lower end.
GenLsxImmediate(patt, val, dst) ==
    LET d == ddddd_2_d[dst]
    IN Ext({1, 2}, One(Legal({d}) /\ val <= 16, patt[2] | At(val, 1) | At(d, 0)))
GenLsxReg(patt, src, dst) ==
    LET s == ddddd_2_sss[src]  d == ddddd_2_d[dst]
    IN Ext({1, 2}, One(Legal({s, d}), patt[3] | At(s, 1) | At(d, 0)))

GenCmpu(src, dst) ==
    LET s == ddddd_2_ggg[src]  d == ddddd_2_d[dst]
    IN One(Legal({s, d}) /\ src # dst, \hc1ff0 | At(s, 1) | At(d, 0))
\* Mutant: one pattern for both.
MutGenIncDec(patt, dst) == LET d == ddddd_2_d[dst] IN One(Legal({d}), \h8 | At(d, 0))
GenIncDec(patt, dst) == LET d == ddddd_2_d[dst] IN One(Legal({d}), patt | At(d, 0))
GenDiv(src, dst) ==
    LET s == ddddd_2_JJ[src]  d == ddddd_2_d[dst]
    IN One(Legal({s, d}), \h18040 | At(s, 4) | At(d, 3))
GenNorm(src, dst) ==
    LET s == ddddd_2_RRR[src]  d == ddddd_2_d[dst]
    IN One(Legal({s, d}), \h1d815 | At(s, 8) | At(d, 3))

\* modifier: 0 ss, 2 su, 3 uu.
GenDMac(modifier, minus, pair, dst) ==
    LET d == ddddd_2_d[dst]
    IN Ext({1, 2}, One(Legal({d}), \h12480 | At(modifier \div 2, 8) | At(modifier % 2, 6)
                                   | At(d, 5) | At(minus, 4) | At(pair, 0)))
GenMul2(patt, minus, src, val, dst) ==
    LET s == ddddd_2_QQ[src]  n == exp_2_ssss(val)  d == ddddd_2_d[dst]
    IN One(Legal({s, n, d}), patt[2] | At(n, 8) | At(s, 4) | At(d, 3) | At(minus, 2))
GenMuli(patt, minus, val, src, dst) ==
    LET s == ddddd_2_qq[src]  d == ddddd_2_d[dst]
    IN Two(Legal({s, d}), patt[3] | At(s, 4) | At(d, 3) | At(minus, 2), val)
GenMulxx(patt, code, minus, pair, dst) ==
    LET d == ddddd_2_d[dst]
    IN One(Legal({pair, d}), patt[4] | At(code, 6) | At(d, 5) | At(minus, 4) | At(pair, 0))
===============================================================================
