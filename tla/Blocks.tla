------------------------------- MODULE Blocks -------------------------------
(***************************************************************************)
(* What conditional assembly promises: IF, ELSE and ENDC delimit nested    *)
(* blocks, and a line is assembled when every block around it is live.     *)
(* This is the reading of docs/readme.txt, "it will remove or not the code *)
(* that follows up until ENDC"; Conditional shows that a scanner with one  *)
(* counter gives the same text.                                            *)
(***************************************************************************)
EXTENDS Naturals, Sequences

VARIABLES
  line,     \* number of the line about to be read
  blocks,   \* the open blocks, innermost last
  out,      \* numbers of the lines assembled in this pass
  legal     \* every ELSE and ENDC so far has had its IF

vars == <<line, blocks, out, legal>>

\* "never": the condition is in error, and so is its ELSE part removed.
Block == {"live", "dead", "never"}

AllLive(bs) == \A i \in 1 .. Len(bs) : bs[i] = "live"

Flipped(b) == IF b = "dead" THEN "live" ELSE "dead"

Init == line = 1 /\ blocks = << >> /\ out = << >> /\ legal = TRUE

If ==
  /\ line' = line + 1
  /\ \E b \in Block : blocks' = Append(blocks, b)
  /\ UNCHANGED <<out, legal>>

Else ==
  /\ blocks # << >>
  /\ line' = line + 1
  /\ blocks' = [blocks EXCEPT ![Len(blocks)] = Flipped(@)]
  /\ UNCHANGED <<out, legal>>

Endc ==
  /\ blocks # << >>
  /\ line' = line + 1
  /\ blocks' = SubSeq(blocks, 1, Len(blocks) - 1)
  /\ UNCHANGED <<out, legal>>

\* Any other line.
Line ==
  /\ line' = line + 1
  /\ out' = IF AllLive(blocks) THEN Append(out, line) ELSE out
  /\ UNCHANGED <<blocks, legal>>

\* The second pass reads the text again.
Again == line' = 1 /\ blocks' = << >> /\ out' = << >> /\ UNCHANGED legal

\* Nothing is promised from an ELSE or ENDC without IF on.
Stray == (legal => blocks = << >>) /\ legal' = FALSE

Next == (legal /\ (If \/ Else \/ Endc \/ Line \/ Again)) \/ Stray

Spec == Init /\ [][Next]_vars
=============================================================================
