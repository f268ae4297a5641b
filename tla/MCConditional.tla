--------------------------- MODULE MCConditional ---------------------------
(* Small texts for Conditional: a symbol that is true, one that is 0, a    *)
(* label.                                                                  *)
EXTENDS Conditional

CONSTANTS one, zero, lab

MCNames == {one, zero, lab}
MCTrue  == {one}
MCDefs  == {one, zero}

L(op, n) == [op |-> op, name |-> n]

MCLines == {L("if", one), L("if", zero), L("if", lab), L("ifbad", one),
            L("ifdef", lab), L("ifndef", lab), L("else", one), L("endc", one),
            L("plain", one), L("condmove", one), L("label", lab)}
=============================================================================
