---------------------------- MODULE Conditional ----------------------------
(***************************************************************************)
(* Conditional assembly: the directives of Value.c and the scanner         *)
(* SkipConditional of TokenStream.c, over the two passes.                  *)
(*                                                                         *)
(* When a condition is false, or an ELSE ends a live block, the parser     *)
(* calls SkipConditional, which reads tokens until an ELSE or ENDC at      *)
(* nesting 0; it counts IF and IFcc, not IFDEF and IFNDEF, and counts the  *)
(* IFcc that an instruction carries as a parallel move.  No stack tells    *)
(* which blocks are open (if_stack_l is only ever incremented and          *)
(* decremented), so an ELSE or ENDC without IF goes unnoticed.             *)
(*                                                                         *)
(* A line is what the scanner and the parser tell apart; the text is       *)
(* chosen while pass 1 reads it and read again in pass 2.                  *)
(***************************************************************************)
EXTENDS Naturals, Sequences

CONSTANTS
  Names,      \* symbols
  True,       \* those whose value is not 0
  Defs,       \* those the command line defines with -D
  Lines,      \* the lines a text is written with
  MaxLines,   \* bound: lines of a text
  MaxNest     \* nesting the scanner accepts (1024 in the code)

\* "if": IF name, and the IFcc directives; "ifbad": an IF that is no condition;
\* "plain": any line that is no directive; "condmove": an instruction with an
\* IFcc as its parallel move; "label": a line that defines name.
Ops == {"if", "ifbad", "ifdef", "ifndef", "else", "endc", "plain", "condmove", "label"}

ASSUME ConditionalAssumption ==
  /\ True \subseteq Names
  /\ Defs \subseteq Names
  /\ Lines \subseteq [op : Ops, name : Names]
  /\ MaxLines \in Nat
  /\ MaxNest \in Nat

VARIABLES
  g_passNum,   \* 0 in pass 1, 1 in pass 2
  skipping,    \* SkipConditional runs: "no", "yes", or "bad": for GenIfError
  nest,        \* its counter
  table,       \* symbols in the symbol table
  errors,      \* g_errorCount # 0
  status,      \* "run" or how the assembly ended
  line,        \* line about to be read
  text,        \* the lines read in pass 1, with the scanner's state before each
  blocks,      \* auxiliary: the blocks open by the text
  out,         \* auxiliary: the lines assembled in this pass
  legal,       \* auxiliary: no ELSE or ENDC without IF so far
  counted      \* auxiliary: no line of skipped text so far that the counter gets wrong

scanner   == <<skipping, nest>>
auxiliary == <<line, blocks, out, legal, counted>>
vars      == <<g_passNum, scanner, table, errors, status, text, auxiliary>>

AllLive(bs) == \A i \in 1 .. Len(bs) : bs[i] = "live"

----------------------------------------------------------------------------
(* Reading a line, and what it means for the blocks of the text.           *)

Reads(l) ==
  /\ status = "run"
  /\ IF g_passNum = 0 THEN Len(text) < MaxLines
                      ELSE line <= Len(text) /\ text[line].l = l
  /\ line' = line + 1
  /\ text' = IF g_passNum = 0
             THEN Append(text, [l |-> l, skipping |-> skipping, nest |-> nest, table |-> table])
             ELSE text
  /\ UNCHANGED g_passNum

Opens(b) == blocks' = Append(blocks, b) /\ UNCHANGED <<out, legal>>

Flips ==
  IF blocks = << >>
  THEN legal' = FALSE /\ UNCHANGED <<blocks, out>>
  ELSE /\ blocks' = [blocks EXCEPT ![Len(blocks)] = IF @ = "dead" THEN "live" ELSE "dead"]
       /\ UNCHANGED <<out, legal>>

Closes ==
  IF blocks = << >>
  THEN legal' = FALSE /\ UNCHANGED <<blocks, out>>
  ELSE blocks' = SubSeq(blocks, 1, Len(blocks) - 1) /\ UNCHANGED <<out, legal>>

Assembles == out' = Append(out, line) /\ UNCHANGED <<blocks, legal>>

SkipConditional(how) == skipping' = how /\ nest' = 0

Condition(holds) ==
  /\ Opens(IF holds THEN "live" ELSE "dead")
  /\ IF holds THEN UNCHANGED scanner ELSE SkipConditional("yes")

----------------------------------------------------------------------------
(* The parser.                                                             *)

Parses(l) == skipping = "no" /\ Reads(l) /\ UNCHANGED counted

\* IF name, IFcc name: a symbol that is not known (or a condition code that
\* EvalIfOneArg does not know) is an error, and nothing is skipped.
EvalCondition(l) ==
  /\ l.op = "if"
  /\ Parses(l)
  /\ IF l.name \in table
     THEN Condition(l.name \in True) /\ UNCHANGED errors
     ELSE Opens("live") /\ UNCHANGED scanner /\ errors' = TRUE
  /\ UNCHANGED <<table, status>>

\* Mutant: IFNDEF is read as IFDEF.
MutIsDefined(l) == l.name \in table

IsDefined(l) == (l.name \in table) = (l.op = "ifdef")

EvalDefined(l) ==
  /\ l.op \in {"ifdef", "ifndef"}
  /\ Parses(l)
  /\ Condition(IsDefined(l))
  /\ UNCHANGED <<table, errors, status>>

GenIfError(l) ==
  /\ l.op = "ifbad"
  /\ Parses(l)
  /\ Opens("never")
  /\ SkipConditional("bad")
  /\ errors' = TRUE
  /\ UNCHANGED <<table, status>>

GenElse(l) ==
  /\ l.op = "else"
  /\ Parses(l)
  /\ Flips
  /\ SkipConditional("yes")
  /\ UNCHANGED <<table, errors, status>>

Endc(l) ==
  /\ l.op = "endc"
  /\ Parses(l)
  /\ Closes
  /\ UNCHANGED <<scanner, table, errors, status>>

\* A line that is assembled; a label may be defined once.
Assemble(l) ==
  /\ l.op \in {"plain", "condmove", "label"}
  /\ Parses(l)
  /\ Assembles
  /\ IF l.op = "label" /\ g_passNum = 0
     THEN table' = table \cup {l.name} /\ errors' = (errors \/ l.name \in table)
     ELSE UNCHANGED <<table, errors>>
  /\ UNCHANGED <<scanner, status>>

----------------------------------------------------------------------------
(* The scanner.                                                            *)

\* Mutant: a nested IF is not counted.
MutCounts(l) == l.op = "condmove"

Counts(l) == l.op \in {"if", "ifbad", "condmove"}

\* Mutant: the scanner stops at ELSE only.
MutStops(l) == l.op = "else" /\ nest = 0

Stops(l) == l.op \in {"else", "endc"} /\ nest = 0

\* Mutant: GenIfError does not skip the ELSE part.
MutAfterStop(l) == "no"

\* GenIfError calls SkipConditional again at an ELSE.
AfterStop(l) == IF skipping = "bad" /\ l.op = "else" THEN "yes" ELSE "no"

\* What a line of skipped text is to the blocks.
Shapes(l) == CASE l.op \in {"if", "ifbad", "ifdef", "ifndef"} -> Opens("dead")
               [] l.op = "else" -> Flips
               [] l.op = "endc" -> Closes
               [] OTHER         -> UNCHANGED <<blocks, out, legal>>

\* The lines the counter gets wrong in skipped text: IFDEF and IFNDEF open a
\* block and are not counted, a conditional move opens none and is.
Miscounted == {"ifdef", "ifndef", "condmove"}

\* A token of SkipConditional's loop.
Skip(l) ==
  /\ skipping # "no"
  /\ Reads(l)
  /\ Shapes(l)
  /\ nest' = IF Counts(l) THEN nest + 1
             ELSE IF l.op = "endc" /\ ~Stops(l) THEN nest - 1
             ELSE nest
  /\ skipping' = IF Stops(l) THEN AfterStop(l) ELSE skipping
  /\ IF nest' > MaxNest THEN status' = "aborted" /\ errors' = TRUE
                        ELSE UNCHANGED <<status, errors>>
  /\ counted' = (counted /\ l.op \notin Miscounted)
  /\ UNCHANGED table

\* Mutant: the symbol table is set up again for pass 2.
MutKept == Defs

\* The symbols pass 2 starts with.
Kept == table

\* The end of the text: an error while skipping, else the next pass or the end.
EndOfText ==
  /\ status = "run"
  /\ g_passNum = 1 => line = Len(text) + 1
  /\ IF skipping = "no" /\ g_passNum = 0 /\ ~errors
     THEN /\ g_passNum' = 1
          /\ table' = Kept
          /\ line' = 1
          /\ blocks' = << >>
          /\ out' = << >>
          /\ UNCHANGED <<scanner, errors, status, text, legal, counted>>
     ELSE /\ status' = IF skipping # "no" THEN "aborted" ELSE IF errors THEN "rejected" ELSE "accepted"
          /\ errors' = (errors \/ skipping # "no")
          /\ UNCHANGED <<g_passNum, scanner, table, text, auxiliary>>

Init ==
  /\ g_passNum = 0
  /\ skipping = "no"
  /\ nest = 0
  /\ table = Defs
  /\ errors = FALSE
  /\ status = "run"
  /\ line = 1
  /\ text = << >>
  /\ blocks = << >>
  /\ out = << >>
  /\ legal = TRUE
  /\ counted = TRUE

Next ==
  \/ \E l \in Lines : \/ EvalCondition(l) \/ EvalDefined(l) \/ GenIfError(l)
                      \/ GenElse(l) \/ Endc(l) \/ Assemble(l)
                      \/ Skip(l)
  \/ EndOfText

Spec == Init /\ [][Next]_vars

----------------------------------------------------------------------------
(* Properties.                                                             *)

Block == {"live", "dead", "never"}

Seen == [l : Lines, skipping : {"no", "yes", "bad"}, nest : Nat, table : SUBSET Names]

\* Types of the variables.
TypeOK ==
  /\ g_passNum \in {0, 1}
  /\ skipping \in {"no", "yes", "bad"}
  /\ nest \in 0 .. MaxNest + 1
  /\ table \subseteq Names
  /\ errors \in BOOLEAN
  /\ status \in {"run", "accepted", "rejected", "aborted"}
  /\ line \in Nat
  /\ text \in Seq(Seen)
  /\ blocks \in Seq(Block)
  /\ out \in Seq(Nat)
  /\ legal \in BOOLEAN
  /\ counted \in BOOLEAN

\* What the readme says of IF: the code up until its ENDC (or ELSE) is removed
\* when the condition does not hold, and nothing else is.
RemovedUpToEndc == legal /\ status = "run" => (skipping # "no" <=> ~AllLive(blocks))

\* What the scanner does of it: it removes exactly the dead blocks until it has
\* read, in text it skipped, the first line that its counter gets wrong.
RemovedWhileCounted == counted => RemovedUpToEndc

\* Until then, conditional assembly by counting implements nested blocks, step
\* by step.
Nested == INSTANCE Blocks
ImplementsBlocks == Nested!Init /\ [][counted' => Nested!Next]_(Nested!vars)

\* No IFDEF or IFNDEF that the parser saw asks for a symbol defined below it.
Foreseen ==
  \A k \in 1 .. Len(text) :
    text[k].l.op \in {"ifdef", "ifndef"} /\ text[k].skipping = "no" =>
      text[k].l.name \in text[k].table \/ text[k].l.name \notin table

\* Unless an IFDEF asks for a symbol defined below it, pass 2 assembles and
\* skips the lines that pass 1 did.
SamePath ==
  g_passNum = 1 /\ status = "run" /\ line <= Len(text) /\ Foreseen =>
    skipping = text[line].skipping /\ nest = text[line].nest

\* And pass 2 of such a text does not run into its end while skipping.
SecondPassEnds == g_passNum = 1 /\ Foreseen => status # "aborted"
=============================================================================
