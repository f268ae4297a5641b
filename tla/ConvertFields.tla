---------------------------- MODULE ConvertFields ----------------------------
(***************************************************************************)
(* The number of a register as the grammar counts them (rule ddddd of      *)
(* Parser.y, 0 .. 56) turned into the fields of an instruction word         *)
(* (ConvertFields.c).  Each table has one entry per number and -1 where     *)
(* the field cannot name the register; a generator that meets a -1 reports  *)
(* an error.  The fields of a pair of registers, of an addressing mode of   *)
(* an X:Y: move and of a power of two are functions of their operands.      *)
(***************************************************************************)
EXTENDS Integers, Sequences, TLC

(* The tables have 64 entries each, one per value of a 6-bit number. *)
RegCodes == 0 .. 63

Row(first, fields) == [c \in first .. first + Len(fields) - 1 |-> fields[c - first + 1]]
Rising(first, count, field) == [c \in first .. first + count - 1 |-> field + c - first]
Table(rows) == [c \in RegCodes |-> IF c \in DOMAIN rows THEN rows[c] ELSE -1]

(* What a generator requires of the fields it looked up. *)
Legal(fields) == -1 \notin fields

(* X0 X1 Y0 Y1 A0 A1 A2 B0 B1 B2 A B, then R0-7 and N0-7. *)
DataAlu == Row(0, <<4, 5, 6, 7, 8, 12, 10, 9, 13, 11, 14, 15>>)

ddddd_2_ddddd == Table(DataAlu @@ Rising(12, 16, 16))
ddddd_2_d == Table(Row(10, <<0, 1>>))
ddddd_2_ff == Table(Row(0, <<0, 1>>) @@ Row(10, <<2, 3>>))
ddddd_2_LLL == Table(Row(10, <<4, 5>>) @@ Row(28, <<0, 1, 2, 3, 6, 7>>))
ddddd_2_sss == Table(Row(0, <<4, 6, 5, 7>>) @@ Row(5, <<2>>) @@ Row(8, <<3>>))
ddddd_2_EE == Table(Rising(34, 4, 0) @@ Row(51, <<2>>))
ddddd_2_JJ == Table(Row(0, <<0, 2, 1, 3>>))
ddddd_2_DDDDDD == Table(DataAlu @@ Rising(12, 16, 16) @@ Rising(38, 8, 32)
                        @@ Row(46, <<42, 48, 49>>) @@ Rising(49, 8, 56))
ddddd_2_ggg == Table(Row(0, <<4, 6, 5, 7>>) @@ Row(5, <<0>>) @@ Row(8, <<0>>)
                     @@ Row(10, <<0, 0>>))
ddddd_2_dddd == Table(Rising(12, 16, 0))
ddddd_2_QQ == Table(Row(0, <<1, 3, 2, 0>>))
ddddd_2_qq == Table(Row(0, <<0, 2, 1, 3>>))
ddddd_2_RRR == Table(Rising(12, 8, 0))
ddddd_2_yff == Table(Row(2, <<0, 1>>) @@ Row(10, <<2, 3>>))
ddddd_2_JJJ == Table(Row(0, <<8, 12, 10, 14>>) @@ Row(10, <<2, 2>>) @@ Row(30, <<4, 6>>))
ddddd_2_JJJ2 == Table(Row(0, <<4, 6, 5, 7>>) @@ Row(10, <<0, 0>>))
ddddd_2_ddddd2 == Table(Rising(38, 8, 0) @@ Rising(50, 7, 25))
(* Here the places of A1 and A2, and of B1 and B2, are not those of ddddd. *)
ddddd_2_eeeeee == Table(Row(0, <<4, 5, 6, 7, 8, 10, 12, 9, 11, 13, 14, 15>>)
                        @@ Rising(12, 16, 16) @@ Rising(38, 8, 32) @@ Rising(50, 7, 57))

(* The modes an X:Y: move may use: (Rn)+Nn, (Rn)-, (Rn)+ and (Rn). *)
Mode(ea) == (ea % 64) \div 8
ea_2_MMRRR(ea) == IF Mode(ea) \in 1 .. 3 THEN ea
                  ELSE IF Mode(ea) = 4 THEN ea % 8 ELSE -1
(* -2: both moves use address registers of the same bank. *)
ea_2_mmrr(ea, other) ==
    IF (ea % 8) \div 4 = (other % 8) \div 4 THEN -2
    ELSE IF Mode(ea) \in 1 .. 4 THEN 4 * (Mode(ea) % 4) + (ea % 4) ELSE -1

exp_2_ssss(value) ==
    LET n == {k \in 1 .. 22 : value = 2 ^ (23 - k)}
    IN IF n = {} THEN -1 ELSE CHOOSE k \in n : TRUE

(* The pairs of X0 X1 Y0 Y1 (0 .. 3) a multiplication has a code for; the    *)
(* second clause tries the pair the other way round.                        *)
Pairs == (<<0, 0>> :> 0) @@ (<<1, 0>> :> 2) @@ (<<0, 3>> :> 4) @@ (<<1, 2>> :> 6)
         @@ (<<2, 0>> :> 5) @@ (<<3, 1>> :> 7) @@ (<<2, 2>> :> 1) @@ (<<3, 2>> :> 3)
GetQQQ(first, second) ==
    IF <<first, second>> \in DOMAIN Pairs THEN Pairs[<<first, second>>]
    ELSE IF <<second, first>> \in DOMAIN Pairs THEN Pairs[<<second, first>>] ELSE -1

(* Sixteen codes for the sixteen ordered pairs: X,X  X,Y  Y,X and Y,Y. *)
GetQQQQ(first, second) ==
    LET codes == <<0, 10, 2, 8,  13, 4, 6, 15,  5, 14, 12, 7,  1, 11, 3, 9>>
    IN codes[8 * (first \div 2) + 4 * (second \div 2) + 2 * (first % 2) + (second % 2) + 1]

isAguReg(reg) == reg \in 12 .. 27 \/ reg \in 38 .. 45
==============================================================================
