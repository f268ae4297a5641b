------------------------- MODULE ConditionalProofs -------------------------
(* The scanner's counter is enough: conditional assembly implements nested *)
(* blocks, for every text of any length, until the scanner has skipped a   *)
(* line that the counter gets wrong; and the types hold after it too.      *)
(* Both passes take the same path, for every text.                         *)
EXTENDS Conditional, TLAPS

\* While the scanner runs, and has counted right, the block nest levels above
\* the innermost one is the first that is not live.
Dead(d) ==
  /\ d \in 1 .. Len(blocks)
  /\ \A i \in 1 .. d - 1 : blocks[i] = "live"
  /\ blocks[d] = IF skipping = "bad" THEN "never" ELSE "dead"

Located ==
  legal /\ counted => IF skipping = "no" THEN AllLive(blocks) ELSE Dead(Len(blocks) - nest)

IInv ==
  /\ TypeOK
  /\ status = "run" => nest <= MaxNest
  /\ status = "run" => Located

\* Reading a line keeps the types of what it writes.
LEMMA ReadsType ==
  ASSUME TypeOK, NEW l \in Lines, Reads(l)
  PROVE  /\ status = "run"
         /\ g_passNum' \in {0, 1}
         /\ line' \in Nat /\ line' = line + 1
         /\ text' \in Seq(Seen)
<1>1. nest \in Nat
  BY ConditionalAssumption DEF TypeOK
<1>2. [l |-> l, skipping |-> skipping, nest |-> nest, table |-> table] \in Seen
  BY <1>1 DEF TypeOK, Seen
<1>3. text' \in Seq(Seen)
  BY <1>2 DEF TypeOK, Reads
<1>4. status = "run" /\ g_passNum' \in {0, 1} /\ line' \in Nat /\ line' = line + 1
  BY DEF TypeOK, Reads
<1> QED BY <1>3, <1>4

\* What a line does to the blocks keeps their types.
LEMMA OpensType ==
  ASSUME TypeOK, NEW b \in Block, Opens(b)
  PROVE  /\ blocks' \in Seq(Block) /\ out' \in Seq(Nat) /\ legal' \in BOOLEAN
         /\ legal' = legal /\ blocks' = Append(blocks, b)
BY DEF TypeOK, Opens

LEMMA FlipsType ==
  ASSUME TypeOK, Flips
  PROVE  /\ blocks' \in Seq(Block) /\ out' \in Seq(Nat) /\ legal' \in BOOLEAN
         /\ legal' => legal
         /\ legal' => blocks # << >>
         /\ blocks # << >> => /\ Len(blocks') = Len(blocks)
                              /\ \A i \in 1 .. Len(blocks) - 1 : blocks'[i] = blocks[i]
                              /\ blocks'[Len(blocks)] = IF blocks[Len(blocks)] = "dead" THEN "live" ELSE "dead"
<1>1. CASE blocks = << >>
  BY <1>1 DEF TypeOK, Flips
<1>2. CASE blocks # << >>
  <2>1. Len(blocks) \in 1 .. Len(blocks) /\ Len(blocks) \in Nat
    BY <1>2 DEF TypeOK
  <2>2. blocks' = [blocks EXCEPT ![Len(blocks)] = IF @ = "dead" THEN "live" ELSE "dead"]
        /\ UNCHANGED <<out, legal>>
    BY <1>2 DEF Flips
  <2>3. blocks' \in Seq(Block) /\ Len(blocks') = Len(blocks)
    BY <2>1, <2>2 DEF TypeOK, Block
  <2>4. out' \in Seq(Nat) /\ legal' \in BOOLEAN /\ legal' = legal
    BY <2>2 DEF TypeOK
  <2>5. \A i \in 1 .. Len(blocks) - 1 : blocks'[i] = blocks[i]
    BY <2>1, <2>2 DEF TypeOK
  <2>6. blocks'[Len(blocks)] = IF blocks[Len(blocks)] = "dead" THEN "live" ELSE "dead"
    BY <2>1, <2>2 DEF TypeOK
  <2> QED BY <1>2, <2>3, <2>4, <2>5, <2>6
<1> QED BY <1>1, <1>2

\* A sequence without its last element.
LEMMA FrontType ==
  ASSUME NEW S, NEW seq \in Seq(S), seq # << >>
  PROVE  /\ SubSeq(seq, 1, Len(seq) - 1) \in Seq(S)
         /\ Len(SubSeq(seq, 1, Len(seq) - 1)) = Len(seq) - 1
<1>1. SubSeq(seq, 1, Len(seq) - 1) \in Seq(S)
  OBVIOUS
<1>2. PICK n \in Nat : n = Len(seq)
  OBVIOUS
<1>3. n # 0
  BY <1>2
<1>4. Len(SubSeq(seq, 1, n - 1)) = n - 1
  BY <1>2, <1>3
<1> QED BY <1>1, <1>2, <1>4

LEMMA ClosesType ==
  ASSUME TypeOK, Closes
  PROVE  /\ blocks' \in Seq(Block) /\ out' \in Seq(Nat) /\ legal' \in BOOLEAN
         /\ legal' => legal
         /\ legal' => blocks # << >>
         /\ blocks # << >> => /\ Len(blocks') = Len(blocks) - 1
                              /\ \A i \in 1 .. Len(blocks) - 1 : blocks'[i] = blocks[i]
<1>1. CASE blocks = << >>
  BY <1>1 DEF TypeOK, Closes
<1>2. CASE blocks # << >>
  <2>1. Len(blocks) \in 1 .. Len(blocks) /\ Len(blocks) \in Nat
    BY <1>2 DEF TypeOK
  <2>2. blocks' = SubSeq(blocks, 1, Len(blocks) - 1) /\ UNCHANGED <<out, legal>>
    BY <1>2 DEF Closes
  <2>3. blocks' \in Seq(Block) /\ Len(blocks') = Len(blocks) - 1
    BY <1>2, <2>2, FrontType DEF TypeOK
  <2>4. out' \in Seq(Nat) /\ legal' \in BOOLEAN /\ legal' = legal
    BY <2>2 DEF TypeOK
  <2>5. \A i \in 1 .. Len(blocks) - 1 : blocks'[i] = blocks[i]
    BY <2>1, <2>2 DEF TypeOK
  <2> QED BY <1>2, <2>3, <2>4, <2>5
<1> QED BY <1>1, <1>2

\* Each kind of line of the parser, then the scanner, keeps the invariant.
LEMMA ConditionInv ==
  ASSUME IInv, NEW l \in Lines, Parses(l), NEW holds \in BOOLEAN, Condition(holds),
         UNCHANGED <<table, status>>, errors' \in BOOLEAN
  PROVE  IInv'
<1>1. Reads(l) /\ skipping = "no" /\ TypeOK /\ counted' = counted
  BY DEF Parses, IInv
<1>2. /\ status = "run" /\ g_passNum' \in {0, 1} /\ line' \in Nat /\ text' \in Seq(Seen)
  BY <1>1, ReadsType
<1>3. nest \in Nat /\ nest <= MaxNest /\ MaxNest \in Nat /\ blocks \in Seq(Block)
  BY <1>2, ConditionalAssumption DEF IInv, TypeOK
<1>4. PICK b \in Block : Opens(b) /\ b = IF holds THEN "live" ELSE "dead"
  BY DEF Condition, Block
<1>5. /\ blocks' \in Seq(Block) /\ out' \in Seq(Nat) /\ legal' \in BOOLEAN
      /\ legal' = legal /\ blocks' = Append(blocks, b)
  BY <1>1, <1>4, OpensType
<1>6. (holds /\ skipping' = "no" /\ nest' = nest) \/ (~holds /\ skipping' = "yes" /\ nest' = 0)
  BY <1>1 DEF Condition, SkipConditional, scanner
<1>7. TypeOK'
  BY <1>1, <1>2, <1>3, <1>5, <1>6 DEF TypeOK
<1>8. (status = "run" => nest <= MaxNest)'
  BY <1>3, <1>6
<1>9. Located'
  <2> SUFFICES ASSUME legal', counted' PROVE Located'
    BY DEF Located
  <2>1. AllLive(blocks)
    BY <1>1, <1>2, <1>5 DEF IInv, Located
  <2>2. CASE holds
    BY <1>3, <1>4, <1>5, <1>6, <2>1, <2>2 DEF Located, AllLive
  <2>3. CASE ~holds
    <3>1. Len(blocks') = Len(blocks) + 1 /\ blocks'[Len(blocks) + 1] = "dead"
          /\ \A i \in 1 .. Len(blocks) : blocks'[i] = blocks[i]
      BY <1>3, <1>4, <1>5, <2>3
    <3>2. Len(blocks') - nest' = Len(blocks) + 1
      BY <1>3, <1>6, <2>3, <3>1
    <3>3. Dead(Len(blocks) - nest)'
      BY <1>3, <1>6, <2>1, <2>3, <3>1, <3>2 DEF Dead, AllLive
    <3> QED BY <1>6, <2>3, <3>3 DEF Located
  <2> QED BY <2>2, <2>3
<1> QED BY <1>7, <1>8, <1>9 DEF IInv

LEMMA EvalConditionInv ==
  ASSUME IInv, NEW l \in Lines, EvalCondition(l)
  PROVE  IInv'
<1>1. Parses(l) /\ UNCHANGED <<table, status>>
  BY DEF EvalCondition
<1>2. CASE l.name \in table
  <2>1. Condition(l.name \in True) /\ errors' = errors
    BY <1>2 DEF EvalCondition
  <2>2. errors' \in BOOLEAN
    BY <2>1 DEF IInv, TypeOK
  <2>3. (l.name \in True) \in BOOLEAN
    OBVIOUS
  <2> QED BY <1>1, <2>1, <2>2, <2>3, ConditionInv
<1>3. CASE l.name \notin table
  <2>1. Opens("live") /\ UNCHANGED scanner /\ errors' = TRUE
    BY <1>3 DEF EvalCondition
  <2>2. Condition(TRUE)
    BY <2>1 DEF Condition
  <2> QED BY <1>1, <2>1, <2>2, ConditionInv
<1> QED BY <1>2, <1>3

LEMMA EvalDefinedInv ==
  ASSUME IInv, NEW l \in Lines, EvalDefined(l)
  PROVE  IInv'
<1>1. Parses(l) /\ UNCHANGED <<table, status>> /\ errors' \in BOOLEAN
  BY DEF EvalDefined, IInv, TypeOK
<1>2. Condition(IsDefined(l)) /\ IsDefined(l) \in BOOLEAN
  BY DEF EvalDefined, IsDefined
<1> QED BY <1>1, <1>2, ConditionInv

\* What reading a line of the parser leaves to prove.
LEMMA ParsesType ==
  ASSUME IInv, NEW l \in Lines, Parses(l), UNCHANGED status
  PROVE  /\ TypeOK /\ skipping = "no" /\ status = "run" /\ status' = "run"
         /\ g_passNum' \in {0, 1} /\ line' \in Nat /\ text' \in Seq(Seen)
         /\ nest \in Nat /\ nest <= MaxNest /\ MaxNest \in Nat
         /\ blocks \in Seq(Block) /\ Len(blocks) \in Nat
         /\ counted' = counted
         /\ legal /\ counted => AllLive(blocks)
<1>1. Reads(l) /\ skipping = "no" /\ TypeOK /\ counted' = counted
  BY DEF Parses, IInv
<1>2. /\ status = "run" /\ g_passNum' \in {0, 1} /\ line' \in Nat /\ text' \in Seq(Seen)
  BY <1>1, ReadsType
<1>3. nest \in Nat /\ nest <= MaxNest /\ MaxNest \in Nat /\ blocks \in Seq(Block) /\ Len(blocks) \in Nat
  BY <1>2, ConditionalAssumption DEF IInv, TypeOK
<1>4. legal /\ counted => AllLive(blocks)
  BY <1>1, <1>2 DEF IInv, Located
<1> QED BY <1>1, <1>2, <1>3, <1>4

LEMMA GenIfErrorInv ==
  ASSUME IInv, NEW l \in Lines, GenIfError(l)
  PROVE  IInv'
<1>1. Parses(l) /\ Opens("never") /\ skipping' = "bad" /\ nest' = 0 /\ errors' = TRUE
      /\ UNCHANGED <<table, status>>
  BY DEF GenIfError, SkipConditional
<1>2. /\ TypeOK /\ status' = "run" /\ MaxNest \in Nat /\ blocks \in Seq(Block)
      /\ g_passNum' \in {0, 1} /\ line' \in Nat /\ text' \in Seq(Seen)
      /\ Len(blocks) \in Nat /\ counted' = counted /\ (legal /\ counted => AllLive(blocks))
  BY <1>1, ParsesType
<1>3. "never" \in Block
  BY DEF Block
<1>4. /\ blocks' \in Seq(Block) /\ out' \in Seq(Nat) /\ legal' \in BOOLEAN
      /\ legal' = legal /\ blocks' = Append(blocks, "never")
  BY <1>1, <1>2, <1>3, OpensType
<1>5. TypeOK'
  BY <1>1, <1>2, <1>4 DEF TypeOK
<1>6. Located'
  <2>1. Len(blocks') = Len(blocks) + 1 /\ blocks'[Len(blocks) + 1] = "never"
        /\ \A i \in 1 .. Len(blocks) : blocks'[i] = blocks[i]
    BY <1>2, <1>4
  <2>2. Len(blocks') - nest' = Len(blocks) + 1
    BY <1>1, <1>2, <2>1
  <2>3. legal' /\ counted' => Dead(Len(blocks) - nest)'
    BY <1>1, <1>2, <1>4, <2>1, <2>2 DEF Dead, AllLive
  <2> QED BY <1>1, <2>3 DEF Located
<1> QED BY <1>1, <1>2, <1>5, <1>6 DEF IInv

LEMMA GenElseInv ==
  ASSUME IInv, NEW l \in Lines, GenElse(l)
  PROVE  IInv'
<1>1. Parses(l) /\ Flips /\ skipping' = "yes" /\ nest' = 0 /\ UNCHANGED <<table, errors, status>>
  BY DEF GenElse, SkipConditional
<1>2. /\ TypeOK /\ status' = "run" /\ MaxNest \in Nat /\ blocks \in Seq(Block)
      /\ g_passNum' \in {0, 1} /\ line' \in Nat /\ text' \in Seq(Seen)
      /\ Len(blocks) \in Nat /\ counted' = counted /\ (legal /\ counted => AllLive(blocks))
  BY <1>1, ParsesType
<1>3. /\ blocks' \in Seq(Block) /\ out' \in Seq(Nat) /\ legal' \in BOOLEAN
      /\ legal' => legal
      /\ legal' => blocks # << >>
      /\ blocks # << >> => /\ Len(blocks') = Len(blocks)
                           /\ \A i \in 1 .. Len(blocks) - 1 : blocks'[i] = blocks[i]
                           /\ blocks'[Len(blocks)] = IF blocks[Len(blocks)] = "dead" THEN "live" ELSE "dead"
  BY <1>1, <1>2, FlipsType
<1>4. TypeOK'
  BY <1>1, <1>2, <1>3 DEF TypeOK
<1>5. legal' /\ counted' => Dead(Len(blocks) - nest)'
  <2> SUFFICES ASSUME legal', counted' PROVE Dead(Len(blocks) - nest)'
    OBVIOUS
  <2>1. AllLive(blocks) /\ Len(blocks) \in 1 .. Len(blocks)
    BY <1>2, <1>3
  <2>2. Len(blocks') - nest' = Len(blocks) /\ Len(blocks') = Len(blocks)
    BY <1>1, <1>2, <1>3
  <2>3. blocks'[Len(blocks)] = "dead"
    BY <1>3, <2>1 DEF AllLive
  <2>4. \A i \in 1 .. Len(blocks) - 1 : blocks'[i] = "live"
    BY <1>3, <2>1 DEF AllLive
  <2> QED BY <1>1, <2>1, <2>2, <2>3, <2>4 DEF Dead
<1>6. Located'
  BY <1>1, <1>5 DEF Located
<1> QED BY <1>1, <1>2, <1>4, <1>6 DEF IInv

LEMMA EndcInv ==
  ASSUME IInv, NEW l \in Lines, Endc(l)
  PROVE  IInv'
<1>1. Parses(l) /\ Closes /\ UNCHANGED <<skipping, nest>> /\ UNCHANGED <<table, errors, status>>
  BY DEF Endc, scanner
<1>2. /\ TypeOK /\ status' = "run" /\ nest <= MaxNest /\ blocks \in Seq(Block) /\ skipping = "no"
      /\ g_passNum' \in {0, 1} /\ line' \in Nat /\ text' \in Seq(Seen)
      /\ Len(blocks) \in Nat /\ counted' = counted /\ (legal /\ counted => AllLive(blocks))
  BY <1>1, ParsesType
<1>3. /\ blocks' \in Seq(Block) /\ out' \in Seq(Nat) /\ legal' \in BOOLEAN
      /\ legal' => legal
      /\ legal' => blocks # << >>
      /\ blocks # << >> => /\ Len(blocks') = Len(blocks) - 1
                           /\ \A i \in 1 .. Len(blocks) - 1 : blocks'[i] = blocks[i]
  BY <1>1, <1>2, ClosesType
<1>4. TypeOK'
  BY <1>1, <1>2, <1>3 DEF TypeOK
<1>5. legal' /\ counted' => AllLive(blocks)'
  BY <1>2, <1>3 DEF AllLive
<1> QED BY <1>1, <1>2, <1>4, <1>5 DEF IInv, Located

LEMMA AssembleInv ==
  ASSUME IInv, NEW l \in Lines, Assemble(l)
  PROVE  IInv'
<1>1. Parses(l) /\ UNCHANGED <<skipping, nest>> /\ UNCHANGED <<status, blocks, legal>>
      /\ out' = Append(out, line)
  BY DEF Assemble, Assembles, scanner
<1>2. /\ TypeOK /\ status' = "run" /\ nest <= MaxNest /\ blocks \in Seq(Block) /\ skipping = "no"
      /\ g_passNum' \in {0, 1} /\ line' \in Nat /\ text' \in Seq(Seen)
      /\ Len(blocks) \in Nat /\ counted' = counted /\ (legal /\ counted => AllLive(blocks))
  BY <1>1, ParsesType
<1>3. l.name \in Names
  BY ConditionalAssumption
<1>4. table' \subseteq Names
  BY <1>2, <1>3 DEF Assemble, TypeOK
<1>5. errors' \in BOOLEAN
  BY <1>2 DEF Assemble, TypeOK
<1>6. out' \in Seq(Nat)
  BY <1>1, <1>2 DEF TypeOK
<1>7. TypeOK'
  BY <1>1, <1>2, <1>4, <1>5, <1>6 DEF TypeOK
<1> QED BY <1>1, <1>2, <1>7 DEF IInv, Located, AllLive

\* A line of skipped text: its effect on the blocks, when the scanner counts it
\* right, moves the place of the dead block as the counter moves.  When it does
\* not, only the types are left to show.
LEMMA SkipInv ==
  ASSUME IInv, NEW l \in Lines, Skip(l)
  PROVE  IInv'
<1>1. /\ Reads(l) /\ TypeOK /\ Shapes(l) /\ table' = table
      /\ skipping \in {"yes", "bad"} /\ l.op \in Ops
      /\ counted' \in BOOLEAN /\ (counted' => counted /\ l.op \notin Miscounted)
  BY ConditionalAssumption DEF Skip, IInv, TypeOK
<1>2. /\ status = "run" /\ g_passNum' \in {0, 1} /\ line' \in Nat /\ text' \in Seq(Seen)
  BY <1>1, ReadsType
<1>3. nest \in Nat /\ nest <= MaxNest /\ MaxNest \in Nat /\ blocks \in Seq(Block) /\ Len(blocks) \in Nat
  BY <1>2, ConditionalAssumption DEF IInv, TypeOK
<1>4. (nest' > MaxNest /\ status' = "aborted" /\ errors' = TRUE)
      \/ (~(nest' > MaxNest) /\ status' = status /\ errors' = errors)
  BY DEF Skip
<1>5. status' \in {"run", "aborted"} /\ errors' \in BOOLEAN
  BY <1>1, <1>2, <1>4 DEF TypeOK
<1>6. legal /\ counted => Dead(Len(blocks) - nest)
  BY <1>1, <1>2 DEF IInv, Located
<1>7. CASE l.op \in {"if", "ifbad"}
  <2>1. nest' = nest + 1 /\ skipping' = skipping
    BY <1>7 DEF Skip, Counts, Stops
  <2>2. Opens("dead") /\ "dead" \in Block
    BY <1>1, <1>7 DEF Shapes, Block
  <2>3. /\ blocks' \in Seq(Block) /\ out' \in Seq(Nat) /\ legal' \in BOOLEAN
        /\ legal' = legal /\ blocks' = Append(blocks, "dead")
    BY <1>1, <2>2, OpensType
  <2>4. nest' \in 0 .. MaxNest + 1 /\ (status' = "run" => nest' <= MaxNest)
    BY <1>3, <1>4, <1>5, <2>1
  <2>5. TypeOK'
    BY <1>1, <1>2, <1>5, <2>1, <2>3, <2>4 DEF TypeOK
  <2>6. Len(blocks') = Len(blocks) + 1 /\ \A i \in 1 .. Len(blocks) : blocks'[i] = blocks[i]
    BY <1>3, <2>3
  <2>7. Len(blocks') - nest' = Len(blocks) - nest
    BY <1>3, <2>1, <2>6
  <2>8. legal' /\ counted' => Dead(Len(blocks) - nest)'
    BY <1>1, <1>3, <1>6, <2>1, <2>3, <2>6, <2>7 DEF Dead
  <2> QED BY <1>1, <2>1, <2>4, <2>5, <2>8 DEF IInv, Located
<1>8. CASE l.op = "else"
  <2>1. nest' = nest /\ skipping' = IF nest = 0 THEN (IF skipping = "bad" THEN "yes" ELSE "no") ELSE skipping
    BY <1>8 DEF Skip, Counts, Stops, AfterStop
  <2>2. Flips
    BY <1>1, <1>8 DEF Shapes
  <2>3. /\ blocks' \in Seq(Block) /\ out' \in Seq(Nat) /\ legal' \in BOOLEAN
        /\ legal' => legal
        /\ legal' => blocks # << >>
        /\ blocks # << >> => /\ Len(blocks') = Len(blocks)
                             /\ \A i \in 1 .. Len(blocks) - 1 : blocks'[i] = blocks[i]
                             /\ blocks'[Len(blocks)] = IF blocks[Len(blocks)] = "dead" THEN "live" ELSE "dead"
    BY <1>1, <2>2, FlipsType
  <2>4. nest' \in 0 .. MaxNest + 1 /\ nest' <= MaxNest
    BY <1>3, <2>1
  <2>5. TypeOK'
    BY <1>1, <1>2, <1>5, <2>1, <2>3, <2>4 DEF TypeOK
  <2>6. Located'
    <3> SUFFICES ASSUME legal', counted' PROVE Located'
      BY DEF Located
    <3>1. Dead(Len(blocks) - nest) /\ blocks # << >>
      BY <1>1, <1>6, <2>3
    <3>2. /\ Len(blocks') = Len(blocks)
          /\ \A i \in 1 .. Len(blocks) - 1 : blocks'[i] = blocks[i]
          /\ blocks'[Len(blocks)] = IF blocks[Len(blocks)] = "dead" THEN "live" ELSE "dead"
      BY <2>3, <3>1
    <3>3. CASE nest = 0 /\ skipping = "bad"
      BY <1>3, <2>1, <3>1, <3>2, <3>3 DEF Dead, Located
    <3>4. CASE nest = 0 /\ skipping # "bad"
      BY <1>3, <2>1, <3>1, <3>2, <3>4 DEF Dead, Located, AllLive
    <3>5. CASE nest # 0
      <4>1. nest' = nest /\ skipping' = skipping /\ skipping # "no"
        BY <1>1, <2>1, <3>5
      <4>2. Len(blocks) - nest \in 1 .. Len(blocks) - 1 /\ Len(blocks') - nest' = Len(blocks) - nest
        BY <1>3, <3>1, <3>2, <3>5, <4>1 DEF Dead
      <4>3. Dead(Len(blocks) - nest)'
        <5> DEFINE d == Len(blocks) - nest
        <5>1. d \in 1 .. Len(blocks) - 1 /\ d = Len(blocks') - nest'
          BY <4>2
        <5>2. blocks'[d] = blocks[d] /\ \A i \in 1 .. d - 1 : blocks'[i] = blocks[i]
          BY <1>3, <3>2, <5>1
        <5>3. d \in 1 .. Len(blocks')
          BY <1>3, <3>2, <5>1
        <5> HIDE DEF d
        <5> QED BY <3>1, <4>1, <5>1, <5>2, <5>3 DEF Dead, d
      <4> QED BY <4>1, <4>3 DEF Located
    <3> QED BY <3>3, <3>4, <3>5
  <2> QED BY <2>4, <2>5, <2>6 DEF IInv
<1>9. CASE l.op = "endc"
  <2>1. /\ nest' = IF nest = 0 THEN nest ELSE nest - 1
        /\ skipping' = IF nest = 0 THEN "no" ELSE skipping
    BY <1>9 DEF Skip, Counts, Stops, AfterStop
  <2>2. Closes
    BY <1>1, <1>9 DEF Shapes
  <2>3. /\ blocks' \in Seq(Block) /\ out' \in Seq(Nat) /\ legal' \in BOOLEAN
        /\ legal' => legal
        /\ legal' => blocks # << >>
        /\ blocks # << >> => /\ Len(blocks') = Len(blocks) - 1
                             /\ \A i \in 1 .. Len(blocks) - 1 : blocks'[i] = blocks[i]
    BY <1>1, <2>2, ClosesType
  <2>4. nest' \in 0 .. MaxNest + 1 /\ nest' <= MaxNest
    BY <1>3, <2>1
  <2>5. TypeOK'
    BY <1>1, <1>2, <1>5, <2>1, <2>3, <2>4 DEF TypeOK
  <2>6. Located'
    <3> SUFFICES ASSUME legal', counted' PROVE Located'
      BY DEF Located
    <3>1. Dead(Len(blocks) - nest) /\ blocks # << >>
      BY <1>1, <1>6, <2>3
    <3>2. Len(blocks') = Len(blocks) - 1 /\ \A i \in 1 .. Len(blocks) - 1 : blocks'[i] = blocks[i]
      BY <2>3, <3>1
    <3>3. CASE nest = 0
      BY <1>3, <2>1, <3>1, <3>2, <3>3 DEF Dead, Located, AllLive
    <3>4. CASE nest # 0
      <4>1. nest' = nest - 1 /\ skipping' = skipping /\ skipping # "no"
        BY <1>1, <2>1, <3>4
      <4>2. Len(blocks) - nest \in 1 .. Len(blocks) - 1 /\ Len(blocks') - nest' = Len(blocks) - nest
        BY <1>3, <3>1, <3>2, <3>4, <4>1 DEF Dead
      <4> QED BY <1>3, <3>1, <3>2, <4>1, <4>2 DEF Dead, Located
    <3> QED BY <3>3, <3>4
  <2> QED BY <2>4, <2>5, <2>6 DEF IInv
<1>10. CASE l.op \in {"plain", "label"}
  <2>1. nest' = nest /\ skipping' = skipping
    BY <1>10 DEF Skip, Counts, Stops
  <2>2. UNCHANGED <<blocks, out, legal>>
    BY <1>1, <1>10 DEF Shapes
  <2>3. TypeOK'
    BY <1>1, <1>2, <1>5, <2>1, <2>2 DEF TypeOK
  <2>4. Located'
    BY <1>1, <1>6, <2>1, <2>2 DEF Located, Dead
  <2> QED BY <1>3, <2>1, <2>3, <2>4 DEF IInv
<1>11. CASE l.op \in {"ifdef", "ifndef"}
  <2>1. nest' = nest /\ skipping' = skipping
    BY <1>11 DEF Skip, Counts, Stops
  <2>2. Opens("dead") /\ "dead" \in Block
    BY <1>1, <1>11 DEF Shapes, Block
  <2>3. blocks' \in Seq(Block) /\ out' \in Seq(Nat) /\ legal' \in BOOLEAN
    BY <1>1, <2>2, OpensType
  <2>4. TypeOK'
    BY <1>1, <1>2, <1>5, <2>1, <2>3 DEF TypeOK
  <2>5. Located'
    BY <1>1, <1>11 DEF Located, Miscounted
  <2> QED BY <1>3, <2>1, <2>4, <2>5 DEF IInv
<1>12. CASE l.op = "condmove"
  <2>1. nest' = nest + 1 /\ skipping' = skipping
    BY <1>12 DEF Skip, Counts, Stops
  <2>2. UNCHANGED <<blocks, out, legal>>
    BY <1>1, <1>12 DEF Shapes
  <2>3. nest' \in 0 .. MaxNest + 1 /\ (status' = "run" => nest' <= MaxNest)
    BY <1>3, <1>4, <1>5, <2>1
  <2>4. TypeOK'
    BY <1>1, <1>2, <1>5, <2>1, <2>2, <2>3 DEF TypeOK
  <2>5. Located'
    BY <1>1, <1>12 DEF Located, Miscounted
  <2> QED BY <2>3, <2>4, <2>5 DEF IInv
<1> QED BY <1>1, <1>7, <1>8, <1>9, <1>10, <1>11, <1>12 DEF Ops

LEMMA EndOfTextInv ==
  ASSUME IInv, EndOfText
  PROVE  IInv'
<1>1. status = "run" /\ TypeOK /\ nest <= MaxNest /\ Located
  BY DEF EndOfText, IInv
<1>2. CASE skipping = "no" /\ g_passNum = 0 /\ ~errors
  <2>1. /\ g_passNum' = 1 /\ table' = table /\ line' = 1 /\ blocks' = << >> /\ out' = << >>
        /\ skipping' = skipping /\ nest' = nest
        /\ UNCHANGED <<errors, status, text, legal, counted>>
    BY <1>2 DEF EndOfText, Kept, scanner
  <2>2. TypeOK'
    BY <1>1, <2>1 DEF TypeOK
  <2>3. Located'
    BY <1>2, <2>1 DEF Located, AllLive
  <2> QED BY <1>1, <2>1, <2>2, <2>3 DEF IInv
<1>3. CASE ~(skipping = "no" /\ g_passNum = 0 /\ ~errors)
  <2>1. /\ status' \in {"accepted", "rejected", "aborted"} /\ errors' \in BOOLEAN
        /\ UNCHANGED <<g_passNum, skipping, nest, table, text, line, blocks, out, legal, counted>>
    BY <1>1, <1>3 DEF EndOfText, scanner, auxiliary, TypeOK
  <2>2. TypeOK'
    BY <1>1, <2>1 DEF TypeOK
  <2> QED BY <2>1, <2>2 DEF IInv
<1> QED BY <1>2, <1>3

LEMMA InitInv == Init => IInv
<1> SUFFICES ASSUME Init PROVE IInv
  OBVIOUS
<1>1. MaxNest \in Nat /\ Defs \subseteq Names
  BY ConditionalAssumption
<1>2. << >> \in Seq(Seen) /\ << >> \in Seq(Block) /\ << >> \in Seq(Nat)
  OBVIOUS
<1>3. TypeOK
  <2>1. /\ g_passNum \in {0, 1} /\ skipping \in {"no", "yes", "bad"} /\ nest \in 0 .. MaxNest + 1
        /\ line \in Nat
    BY <1>1 DEF Init
  <2>2. table \subseteq Names /\ status \in {"run", "accepted", "rejected", "aborted"}
    BY <1>1 DEF Init
  <2>3. errors \in BOOLEAN /\ legal \in BOOLEAN /\ counted \in BOOLEAN
    BY DEF Init
  <2>4. text \in Seq(Seen) /\ blocks \in Seq(Block) /\ out \in Seq(Nat)
    BY <1>2 DEF Init
  <2> QED BY <2>1, <2>2, <2>3, <2>4 DEF TypeOK
<1>4. AllLive(blocks)
  BY DEF Init, AllLive
<1> QED BY <1>1, <1>3, <1>4 DEF Init, IInv, Located

LEMMA NextInv == IInv /\ [Next]_vars => IInv'
<1> SUFFICES ASSUME IInv, [Next]_vars PROVE IInv'
  OBVIOUS
<1>1. CASE Next
  <2>1. ASSUME NEW l \in Lines, EvalCondition(l) PROVE IInv'
    BY <2>1, EvalConditionInv
  <2>2. ASSUME NEW l \in Lines, EvalDefined(l) PROVE IInv'
    BY <2>2, EvalDefinedInv
  <2>3. ASSUME NEW l \in Lines, GenIfError(l) PROVE IInv'
    BY <2>3, GenIfErrorInv
  <2>4. ASSUME NEW l \in Lines, GenElse(l) PROVE IInv'
    BY <2>4, GenElseInv
  <2>5. ASSUME NEW l \in Lines, Endc(l) PROVE IInv'
    BY <2>5, EndcInv
  <2>6. ASSUME NEW l \in Lines, Assemble(l) PROVE IInv'
    BY <2>6, AssembleInv
  <2>7. ASSUME NEW l \in Lines, Skip(l) PROVE IInv'
    BY <2>7, SkipInv
  <2>8. CASE EndOfText
    BY <2>8, EndOfTextInv
  <2> QED BY <1>1, <2>1, <2>2, <2>3, <2>4, <2>5, <2>6, <2>7, <2>8 DEF Next
<1>2. CASE UNCHANGED vars
  BY <1>2 DEF vars, scanner, auxiliary, IInv, TypeOK, Located, AllLive, Dead
<1> QED BY <1>1, <1>2

\* The invariant holds in every state.
LEMMA Inductive == Spec => []IInv
BY InitInv, NextInv, PTL DEF Spec

----------------------------------------------------------------------------
(* The theorems.                                                           *)

\* Every variable of conditional assembly keeps its type, whatever a skipped
\* block holds: the counter stays within one of its limit and above 0.
THEOREM ConditionalTypes == Spec => []TypeOK
<1>1. IInv => TypeOK
  BY DEF IInv
<1> QED BY <1>1, Inductive, PTL

\* Of every text, exactly the lines within a dead block are removed, up to the
\* first IFDEF, IFNDEF or conditional move that the scanner skips; what it
\* removes ends at the ENDC (or ELSE) of the IF that began it.
THEOREM Removal == Spec => []RemovedWhileCounted
<1>1. IInv => RemovedWhileCounted
  <2> SUFFICES ASSUME IInv, counted, legal, status = "run"
               PROVE  skipping # "no" <=> ~AllLive(blocks)
    BY DEF RemovedWhileCounted, RemovedUpToEndc
  <2>1. Located
    BY DEF IInv
  <2>2. CASE skipping = "no"
    BY <2>1, <2>2 DEF Located
  <2>3. CASE skipping # "no"
    BY <2>1, <2>3 DEF Located, Dead, AllLive
  <2> QED BY <2>2, <2>3
<1> QED BY <1>1, Inductive, PTL

LEMMA InitMap == Init => Nested!Init
BY DEF Init, Nested!Init

LEMMA Same == ASSUME NEW bs PROVE AllLive(bs) = Nested!AllLive(bs)
BY DEF AllLive, Nested!AllLive

\* A line the counter gets wrong stays one: counted is never set again.
LEMMA CountedKept == [Next]_vars /\ counted' => counted
<1> SUFFICES ASSUME [Next]_vars, counted' PROVE counted
  OBVIOUS
<1>1. ASSUME NEW l \in Lines, Parses(l) PROVE counted' = counted
  BY <1>1 DEF Parses
<1>2. ASSUME NEW l \in Lines, Skip(l) PROVE counted
  BY <1>2 DEF Skip
<1>3. CASE EndOfText
  BY <1>3 DEF EndOfText, auxiliary
<1>4. CASE UNCHANGED vars
  BY <1>4 DEF vars, auxiliary
<1> QED BY <1>1, <1>2, <1>3, <1>4
        DEF Next, EvalCondition, EvalDefined, GenIfError, GenElse, Endc, Assemble

\* While the scanner has counted right, every step is a step of Blocks, or
\* changes nothing that Blocks sees.
LEMMA NextMap == IInv /\ [Next]_vars => [counted' => Nested!Next]_(Nested!vars)
<1> SUFFICES ASSUME IInv, [Next]_vars, counted' PROVE [Nested!Next]_(Nested!vars)
  OBVIOUS
<1>c. counted
  BY CountedKept
<1>a. TypeOK /\ blocks \in Seq(Block)
  BY DEF IInv, TypeOK
<1>1. ASSUME NEW b \in Block, Opens(b), line' = line + 1, legal PROVE Nested!Next
  BY <1>1 DEF Opens, Block, Nested!Next, Nested!If, Nested!Block
<1>2. ASSUME Flips, line' = line + 1, legal PROVE Nested!Next
  <2>1. CASE blocks = << >>
    BY <1>2, <2>1 DEF Flips, Nested!Next, Nested!Stray
  <2>2. CASE blocks # << >>
    BY <1>2, <2>2 DEF Flips, Nested!Next, Nested!Else, Nested!Flipped
  <2> QED BY <2>1, <2>2
<1>3. ASSUME Closes, line' = line + 1, legal PROVE Nested!Next
  <2>1. CASE blocks = << >>
    BY <1>3, <2>1 DEF Closes, Nested!Next, Nested!Stray
  <2>2. CASE blocks # << >>
    BY <1>3, <2>2 DEF Closes, Nested!Next, Nested!Endc
  <2> QED BY <2>1, <2>2
<1>4. CASE legal /\ Next
  <2>1. ASSUME NEW l \in Lines, EvalCondition(l) PROVE Nested!Next
    <3>1. line' = line + 1
      BY <2>1 DEF EvalCondition, Parses, Reads
    <3>2. \E b \in Block : Opens(b)
      BY <2>1 DEF EvalCondition, Condition, Block
    <3> QED BY <1>1, <1>4, <3>1, <3>2
  <2>2. ASSUME NEW l \in Lines, EvalDefined(l) PROVE Nested!Next
    <3>1. line' = line + 1
      BY <2>2 DEF EvalDefined, Parses, Reads
    <3>2. \E b \in Block : Opens(b)
      BY <2>2 DEF EvalDefined, Condition, Block
    <3> QED BY <1>1, <1>4, <3>1, <3>2
  <2>3. ASSUME NEW l \in Lines, GenIfError(l) PROVE Nested!Next
    BY <1>1, <1>4, <2>3 DEF GenIfError, Parses, Reads, Block
  <2>4. ASSUME NEW l \in Lines, GenElse(l) PROVE Nested!Next
    BY <1>2, <1>4, <2>4 DEF GenElse, Parses, Reads
  <2>5. ASSUME NEW l \in Lines, Endc(l) PROVE Nested!Next
    BY <1>3, <1>4, <2>5 DEF Endc, Parses, Reads
  <2>6. ASSUME NEW l \in Lines, Assemble(l) PROVE Nested!Next
    <3>1. line' = line + 1 /\ status = "run" /\ skipping = "no" /\ UNCHANGED <<blocks, legal>>
          /\ out' = Append(out, line)
      BY <2>6 DEF Assemble, Assembles, Parses, Reads
    <3>2. AllLive(blocks)
      BY <1>4, <1>c, <3>1 DEF IInv, Located
    <3> QED BY <1>4, <3>1, <3>2, Same DEF Nested!Next, Nested!Line
  <2>7. ASSUME NEW l \in Lines, Skip(l) PROVE Nested!Next
    <3>1. /\ line' = line + 1 /\ status = "run" /\ skipping # "no" /\ Shapes(l)
      BY <2>7 DEF Skip, Reads
    <3>2. CASE l.op \in {"if", "ifbad", "ifdef", "ifndef"}
      BY <1>1, <1>4, <3>1, <3>2 DEF Shapes, Block
    <3>3. CASE l.op = "else"
      BY <1>2, <1>4, <3>1, <3>3 DEF Shapes
    <3>4. CASE l.op = "endc"
      BY <1>3, <1>4, <3>1, <3>4 DEF Shapes
    <3>5. CASE l.op \notin {"if", "ifbad", "ifdef", "ifndef", "else", "endc"}
      <4>1. UNCHANGED <<blocks, out, legal>>
        BY <3>1, <3>5 DEF Shapes
      <4>2. ~AllLive(blocks)
        BY <1>4, <1>c, <3>1 DEF IInv, Located, Dead, AllLive
      <4> QED BY <1>4, <3>1, <4>1, <4>2, Same DEF Nested!Next, Nested!Line
    <3> QED BY <3>2, <3>3, <3>4, <3>5
  <2>8. CASE EndOfText
    BY <1>4, <2>8 DEF EndOfText, auxiliary, Nested!Next, Nested!Again, Nested!vars
  <2> QED BY <1>4, <2>1, <2>2, <2>3, <2>4, <2>5, <2>6, <2>7, <2>8 DEF Next
<1>5. CASE ~legal /\ Next
  <2>1. legal' = FALSE
    BY <1>5, <1>a DEF Next, EvalCondition, EvalDefined, GenIfError, GenElse, Endc, Assemble, Skip,
              EndOfText, Condition, Opens, Flips, Closes, Assembles, Shapes, auxiliary, TypeOK
  <2> QED BY <1>5, <2>1 DEF Nested!Next, Nested!Stray
<1>6. CASE UNCHANGED vars
  BY <1>6 DEF vars, auxiliary, Nested!vars
<1> QED BY <1>4, <1>5, <1>6

\* Conditional assembly, with one counter and no stack, implements nested
\* blocks step by step, in every text up to the first line of skipped text that
\* the counter gets wrong: the lines it assembles are those Blocks assembles.
THEOREM Refinement == Spec => ImplementsBlocks
BY NextMap, InitMap, Inductive, PTL DEF Spec, ImplementsBlocks

\* And when the whole text has no such line, it implements Blocks.
THEOREM WholeRefinement == Spec /\ []counted => Nested!Spec
<1>1. [counted' => Nested!Next]_(Nested!vars) /\ counted' => [Nested!Next]_(Nested!vars)
  OBVIOUS
<1> QED BY <1>1, Refinement, PTL DEF ImplementsBlocks, Nested!Spec

----------------------------------------------------------------------------
(* The path.  Both passes take the same path through a text of any length,  *)
(* whatever its skipped blocks hold: where the scanner is after a line      *)
(* depends on the line, on where it was and on the symbols the condition    *)
(* asks for.                                                                *)

\* Where the scanner is after line l, read at <<sk, n>> with the symbols tab.
Jump(l, sk, n, tab) ==
  IF sk = "no"
  THEN IF l.op = "if"
       THEN IF l.name \in tab /\ l.name \notin True THEN <<"yes", 0>> ELSE <<"no", n>>
       ELSE IF l.op \in {"ifdef", "ifndef"}
       THEN IF (l.name \in tab) = (l.op = "ifdef") THEN <<"no", n>> ELSE <<"yes", 0>>
       ELSE IF l.op = "ifbad" THEN <<"bad", 0>>
       ELSE IF l.op = "else" THEN <<"yes", 0>>
       ELSE <<"no", n>>
  ELSE IF l.op \in {"else", "endc"} /\ n = 0
       THEN <<IF sk = "bad" /\ l.op = "else" THEN "yes" ELSE "no", 0>>
       ELSE IF l.op = "endc" THEN <<sk, n - 1>>
       ELSE IF l.op \in {"if", "ifbad", "condmove"} THEN <<sk, n + 1>>
       ELSE <<sk, n>>

After(k) == Jump(text[k].l, text[k].skipping, text[k].nest, text[k].table)

Types ==
  /\ g_passNum \in {0, 1} /\ nest \in Nat /\ line \in Nat
  /\ skipping \in {"no", "yes", "bad"}
  /\ status \in {"run", "accepted", "rejected", "aborted"}
  /\ table \subseteq Names
  /\ errors \in BOOLEAN
  /\ text \in Seq(Seen)

\* What pass 1 wrote down of its own path.
Recorded ==
  /\ \A k \in 1 .. Len(text) : text[k].table \subseteq table /\ text[k].nest <= MaxNest
  /\ text # << >> => text[1].skipping = "no" /\ text[1].nest = 0
  /\ \A k \in 1 .. Len(text) - 1 : <<text[k + 1].skipping, text[k + 1].nest>> = After(k)
  /\ g_passNum = 1 \/ ~errors =>
       \A k \in 1 .. Len(text) :
         text[k].skipping = "no" /\ text[k].l.op = "if" => text[k].l.name \in text[k].table

\* The scanner is at rest with its counter at 0, and below its limit.
AtRest == status = "run" => (skipping = "no" => nest = 0) /\ nest <= MaxNest

FirstPass ==
  g_passNum = 0 /\ status = "run" =>
    /\ line = Len(text) + 1
    /\ <<skipping, nest>> = IF text = << >> THEN <<"no", 0>> ELSE After(Len(text))

SecondPass ==
  g_passNum = 1 =>
    /\ line \in 1 .. Len(text) + 1
    /\ text # << >> => After(Len(text)) = <<"no", 0>>
    /\ Foreseen =>
         /\ status # "aborted"
         /\ status = "run" =>
              <<skipping, nest>> = IF line <= Len(text) THEN <<text[line].skipping, text[line].nest>>
                                                        ELSE <<"no", 0>>

PathInv == Types /\ Recorded /\ AtRest /\ FirstPass /\ SecondPass

\* An action on a line.
OnLine(l) == \/ EvalCondition(l) \/ EvalDefined(l) \/ GenIfError(l)
             \/ GenElse(l) \/ Endc(l) \/ Assemble(l)
             \/ Skip(l)

\* Every action on a line reads it and moves the scanner as Jump says.
LEMMA Jumps ==
  ASSUME Types, AtRest, NEW l \in Lines, OnLine(l)
  PROVE  /\ Reads(l)
         /\ <<skipping', nest'>> = Jump(l, skipping, nest, table)
         /\ table \subseteq table' /\ table' \subseteq Names
         /\ g_passNum = 1 => table' = table
         /\ nest' \in Nat /\ skipping' \in {"no", "yes", "bad"}
         /\ errors' \in BOOLEAN /\ (errors => errors')
         /\ ~errors' /\ skipping = "no" /\ l.op = "if" => l.name \in table
         /\ \/ status' = "run" /\ nest' <= MaxNest
            \/ status' = "aborted" /\ nest' > MaxNest
<1>1. l.op \in Ops /\ l.name \in Names /\ MaxNest \in Nat
  BY ConditionalAssumption
<1>2. Reads(l) /\ status = "run" /\ nest <= MaxNest /\ nest \in Nat /\ (skipping = "no" => nest = 0)
  BY DEF OnLine, EvalCondition, EvalDefined, GenIfError, GenElse, Endc, Assemble, Skip, Parses, Reads,
         AtRest, Types
<1>3. CASE EvalCondition(l)
  BY <1>1, <1>2, <1>3 DEF EvalCondition, Parses, Condition, SkipConditional, scanner, Jump, Types
<1>4. CASE EvalDefined(l)
  BY <1>1, <1>2, <1>4 DEF EvalDefined, IsDefined, Parses, Condition, SkipConditional, scanner, Jump, Types
<1>5. CASE GenIfError(l)
  BY <1>1, <1>2, <1>5 DEF GenIfError, Parses, SkipConditional, Jump, Types
<1>6. CASE GenElse(l)
  BY <1>1, <1>2, <1>6 DEF GenElse, Parses, SkipConditional, Jump, Types
<1>7. CASE Endc(l)
  BY <1>1, <1>2, <1>7 DEF Endc, Parses, scanner, Jump, Types
<1>8. CASE Assemble(l)
  <2>1. /\ l.op \in {"plain", "condmove", "label"} /\ skipping = "no"
        /\ UNCHANGED <<skipping, nest>> /\ UNCHANGED status
    BY <1>8 DEF Assemble, Parses, scanner
  <2>2. <<skipping', nest'>> = Jump(l, skipping, nest, table)
    BY <2>1 DEF Jump
  <2>3. (table' = table \cup {l.name} /\ g_passNum = 0 /\ errors' = (errors \/ l.name \in table))
        \/ (table' = table /\ errors' = errors)
    BY <1>8 DEF Assemble
  <2>4. errors' \in BOOLEAN /\ (errors => errors')
    BY <2>3 DEF Types
  <2>5. table \subseteq table' /\ table' \subseteq Names /\ (g_passNum = 1 => table' = table)
    BY <1>1, <2>3 DEF Types
  <2> QED BY <1>1, <1>2, <2>1, <2>2, <2>4, <2>5 DEF Types
<1>9. CASE Skip(l)
  <2>1. /\ skipping \in {"yes", "bad"} /\ table' = table
        /\ nest' = IF Counts(l) THEN nest + 1
                   ELSE IF l.op = "endc" /\ ~Stops(l) THEN nest - 1 ELSE nest
        /\ skipping' = IF Stops(l) THEN AfterStop(l) ELSE skipping
    BY <1>9 DEF Skip, Types
  <2>2. nest' \in Nat /\ skipping' \in {"no", "yes", "bad"}
    BY <1>2, <2>1 DEF Counts, Stops, AfterStop
  <2>3. <<skipping', nest'>> = Jump(l, skipping, nest, table)
    BY <1>2, <2>1 DEF Counts, Stops, AfterStop, Jump
  <2>4. (nest' > MaxNest /\ status' = "aborted" /\ errors' = TRUE)
        \/ (~(nest' > MaxNest) /\ status' = status /\ errors' = errors)
    BY <1>9 DEF Skip
  <2>5. errors' \in BOOLEAN /\ (errors => errors')
    BY <2>4 DEF Types
  <2>6. (status' = "run" /\ nest' <= MaxNest) \/ (status' = "aborted" /\ nest' > MaxNest)
    BY <1>1, <1>2, <2>2, <2>4
  <2> QED BY <1>2, <2>1, <2>2, <2>3, <2>5, <2>6 DEF Types
<1> QED BY <1>3, <1>4, <1>5, <1>6, <1>7, <1>8, <1>9 DEF OnLine

\* What pass 1 writes down when it reads a line.
LEMMA FirstPassReads ==
  ASSUME PathInv, g_passNum = 0, NEW l \in Lines, OnLine(l)
  PROVE  PathInv'
<1>1. /\ Types /\ Recorded /\ AtRest /\ FirstPass
  BY DEF PathInv
<1>2. /\ Reads(l)
      /\ <<skipping', nest'>> = Jump(l, skipping, nest, table)
      /\ table \subseteq table' /\ table' \subseteq Names
      /\ nest' \in Nat /\ skipping' \in {"no", "yes", "bad"}
      /\ errors' \in BOOLEAN /\ (errors => errors')
      /\ ~errors' /\ skipping = "no" /\ l.op = "if" => l.name \in table
      /\ (status' = "run" /\ nest' <= MaxNest) \/ (status' = "aborted" /\ nest' > MaxNest)
  BY <1>1, Jumps
<1>3. /\ status = "run" /\ g_passNum' = 0 /\ line' = line + 1
      /\ text' = Append(text, [l |-> l, skipping |-> skipping, nest |-> nest, table |-> table])
  BY <1>2 DEF Reads
<1>4. /\ text \in Seq(Seen) /\ Len(text) \in Nat /\ nest \in Nat /\ line \in Nat
      /\ line = Len(text) + 1 /\ nest <= MaxNest /\ (skipping = "no" => nest = 0)
      /\ <<skipping, nest>> = IF text = << >> THEN <<"no", 0>> ELSE After(Len(text))
  BY <1>1, <1>3 DEF Types, FirstPass, AtRest
<1>5. [l |-> l, skipping |-> skipping, nest |-> nest, table |-> table] \in Seen
  BY <1>1 DEF Types, Seen
<1>6. /\ text' \in Seq(Seen) /\ Len(text') = Len(text) + 1 /\ text' # << >>
      /\ \A k \in 1 .. Len(text) : text'[k] = text[k]
      /\ text'[Len(text) + 1] = [l |-> l, skipping |-> skipping, nest |-> nest, table |-> table]
  BY <1>3, <1>4, <1>5
<1>7. Types'
  BY <1>1, <1>2, <1>3, <1>4, <1>6 DEF Types
<1>8. AtRest'
  <2>1. skipping' = "no" => nest' = 0
    BY <1>1, <1>2, <1>4 DEF Jump, Types
  <2> QED BY <1>2, <2>1 DEF AtRest
<1>9. ASSUME NEW k \in 1 .. Len(text) PROVE After(k)' = After(k)
  <2>1. text'[k] = text[k]
    BY <1>6
  <2> QED BY <2>1 DEF After
<1>10. FirstPass'
  <2>1. After(Len(text))' = Jump(l, skipping, nest, table)
    BY <1>4, <1>6 DEF After
  <2>2. line' = Len(text') + 1
    BY <1>3, <1>4, <1>6
  <2> QED BY <1>2, <1>6, <2>1, <2>2 DEF FirstPass
<1>11. SecondPass'
  BY <1>3 DEF SecondPass
<1>12. Recorded'
  <2>1. ASSUME NEW k \in 1 .. Len(text')
        PROVE  text'[k].table \subseteq table' /\ text'[k].nest <= MaxNest
    <3>1. CASE k = Len(text) + 1
      BY <1>2, <1>4, <1>6, <3>1
    <3>2. CASE k # Len(text) + 1
      <4>1. k \in 1 .. Len(text) /\ text'[k] = text[k]
        BY <1>4, <1>6, <3>2
      <4> QED BY <1>1, <1>2, <4>1 DEF Recorded
    <3> QED BY <3>1, <3>2
  <2>2. text'[1].skipping = "no" /\ text'[1].nest = 0
    <3>1. CASE text = << >>
      BY <1>4, <1>6, <3>1
    <3>2. CASE text # << >>
      BY <1>1, <1>4, <1>6, <3>2 DEF Recorded
    <3> QED BY <3>1, <3>2
  <2>3. ASSUME NEW k \in 1 .. Len(text') - 1
        PROVE  <<text'[k + 1].skipping, text'[k + 1].nest>> = After(k)'
    <3>1. k \in 1 .. Len(text) /\ After(k)' = After(k)
      BY <1>4, <1>6, <1>9, <2>3
    <3>2. CASE k = Len(text)
      BY <1>4, <1>6, <3>1, <3>2
    <3>3. CASE k # Len(text)
      BY <1>1, <1>4, <1>6, <3>1, <3>3 DEF Recorded
    <3> QED BY <3>2, <3>3
  <2>4. ASSUME ~errors', NEW k \in 1 .. Len(text'), text'[k].skipping = "no", text'[k].l.op = "if"
        PROVE  text'[k].l.name \in text'[k].table
    <3>1. CASE k = Len(text) + 1
      BY <1>2, <1>6, <2>4, <3>1
    <3>2. CASE k # Len(text) + 1
      <4>1. k \in 1 .. Len(text) /\ text'[k] = text[k]
        BY <1>4, <1>6, <3>2
      <4>2. ~errors
        BY <1>2, <2>4
      <4> QED BY <1>1, <2>4, <4>1, <4>2 DEF Recorded
    <3> QED BY <3>1, <3>2
  <2> QED BY <1>3, <2>1, <2>2, <2>3, <2>4 DEF Recorded
<1> QED BY <1>7, <1>8, <1>10, <1>11, <1>12 DEF PathInv

\* Pass 2 follows the record.
LEMMA SecondPassReads ==
  ASSUME PathInv, g_passNum = 1, NEW l \in Lines, OnLine(l)
  PROVE  PathInv'
<1>1. /\ Types /\ Recorded /\ AtRest /\ SecondPass
  BY DEF PathInv
<1>2. /\ Reads(l)
      /\ <<skipping', nest'>> = Jump(l, skipping, nest, table)
      /\ table' = table
      /\ nest' \in Nat /\ skipping' \in {"no", "yes", "bad"}
      /\ errors' \in BOOLEAN
      /\ (status' = "run" /\ nest' <= MaxNest) \/ (status' = "aborted" /\ nest' > MaxNest)
  BY <1>1, Jumps
<1>3. /\ status = "run" /\ g_passNum' = 1 /\ line' = line + 1 /\ text' = text
      /\ line <= Len(text) /\ text[line].l = l
  BY <1>2 DEF Reads
<1>4. /\ text \in Seq(Seen) /\ Len(text) \in Nat /\ nest \in Nat /\ line \in 1 .. Len(text) /\ MaxNest \in Nat
  BY <1>1, <1>3, ConditionalAssumption DEF Types, SecondPass
<1>5. Types'
  BY <1>1, <1>2, <1>3, <1>4 DEF Types
<1>6. AtRest'
  <2>1. skipping' = "no" => nest' = 0
    BY <1>1, <1>2, <1>3 DEF Jump, Types, AtRest
  <2> QED BY <1>2, <2>1 DEF AtRest
<1>7. Recorded'
  BY <1>1, <1>2, <1>3 DEF Recorded, After
<1>8. FirstPass'
  BY <1>3 DEF FirstPass
<1>9. SecondPass'
  <2>1. line' \in 1 .. Len(text') + 1
    BY <1>3, <1>4
  <2>2. text' # << >> => After(Len(text))' = <<"no", 0>>
    BY <1>1, <1>3 DEF SecondPass, After
  <2>3. ASSUME Foreseen'
        PROVE  <<skipping', nest'>> = IF line' <= Len(text) THEN <<text[line + 1].skipping, text[line + 1].nest>>
                                                            ELSE <<"no", 0>>
    <3>1. Foreseen
      BY <1>2, <1>3, <2>3 DEF Foreseen
    <3>2. skipping = text[line].skipping /\ nest = text[line].nest
      BY <1>1, <1>3, <1>4, <3>1 DEF SecondPass
    <3>3. text[line].table \subseteq table
      BY <1>1, <1>4 DEF Recorded
    <3>4. text[line].skipping = "no" /\ l.op = "if" => l.name \in text[line].table
      BY <1>1, <1>3, <1>4 DEF Recorded
    <3>5. text[line].skipping = "no" /\ l.op \in {"ifdef", "ifndef"} =>
            l.name \in text[line].table \/ l.name \notin table
      BY <1>3, <1>4, <3>1 DEF Foreseen
    <3>6. Jump(l, skipping, nest, table) = After(line)
      BY <1>3, <3>2, <3>3, <3>4, <3>5 DEF Jump, After
    <3>7. CASE line < Len(text)
      BY <1>1, <1>2, <1>3, <1>4, <3>6, <3>7 DEF Recorded
    <3>8. CASE line = Len(text)
      BY <1>1, <1>2, <1>3, <1>4, <3>6, <3>8 DEF SecondPass
    <3> QED BY <1>4, <3>7, <3>8
  <2>4. ASSUME Foreseen' PROVE status' = "run"
    <3>1. nest' <= MaxNest
      <4>1. CASE line' <= Len(text)
        BY <1>1, <1>3, <1>4, <2>3, <2>4, <4>1 DEF Recorded
      <4>2. CASE ~(line' <= Len(text))
        BY <1>4, <2>3, <2>4, <4>2
      <4> QED BY <4>1, <4>2
    <3> QED BY <1>2, <1>4, <3>1
  <2> QED BY <1>3, <2>1, <2>2, <2>3, <2>4 DEF SecondPass
<1> QED BY <1>5, <1>6, <1>7, <1>8, <1>9 DEF PathInv

\* Between the passes, and at the end.
LEMMA EndOfTextPath ==
  ASSUME PathInv, EndOfText
  PROVE  PathInv'
<1>1. /\ Types /\ Recorded /\ AtRest /\ FirstPass /\ SecondPass /\ status = "run"
      /\ text \in Seq(Seen) /\ Len(text) \in Nat
  BY DEF PathInv, EndOfText, Types
<1>2. CASE skipping = "no" /\ g_passNum = 0 /\ ~errors
  <2>1. /\ g_passNum' = 1 /\ table' = table /\ line' = 1 /\ skipping' = skipping /\ nest' = nest
        /\ UNCHANGED <<errors, status, text>>
    BY <1>2 DEF EndOfText, Kept, scanner
  <2>2. Types' /\ AtRest' /\ FirstPass'
    BY <1>1, <2>1 DEF Types, AtRest, FirstPass
  <2>3. Recorded'
    BY <1>1, <1>2, <2>1 DEF Recorded, After
  <2>4. SecondPass'
    <3>1. nest = 0
      BY <1>1, <1>2 DEF AtRest
    <3>2. text # << >> => After(Len(text)) = <<"no", 0>>
      BY <1>1, <1>2, <3>1 DEF FirstPass
    <3>3. After(Len(text))' = After(Len(text))
      BY <2>1 DEF After
    <3>4. text = << >> => Len(text) = 0
      BY <1>1
    <3>5. text # << >> => Len(text) >= 1
      BY <1>1
    <3>6. text # << >> => text[1].skipping = "no" /\ text[1].nest = 0
      BY <1>1 DEF Recorded
    <3>7. line' \in 1 .. Len(text') + 1
      BY <1>1, <2>1
    <3>8. <<skipping', nest'>> = IF line' <= Len(text') THEN <<text'[line'].skipping, text'[line'].nest>>
                                                        ELSE <<"no", 0>>
      BY <1>1, <1>2, <2>1, <3>1, <3>4, <3>5, <3>6
    <3> QED BY <1>1, <2>1, <3>2, <3>3, <3>7, <3>8 DEF SecondPass
  <2> QED BY <2>2, <2>3, <2>4 DEF PathInv
<1>3. CASE ~(skipping = "no" /\ g_passNum = 0 /\ ~errors)
  <2>1. /\ status' = IF skipping # "no" THEN "aborted" ELSE IF errors THEN "rejected" ELSE "accepted"
        /\ errors' = (errors \/ skipping # "no")
        /\ UNCHANGED <<g_passNum, skipping, nest, table, text, line>>
    BY <1>3 DEF EndOfText, scanner, auxiliary
  <2>2. status' \in {"accepted", "rejected", "aborted"} /\ errors' \in BOOLEAN /\ (errors => errors')
    BY <1>1, <2>1 DEF Types
  <2>3. Types' /\ AtRest' /\ FirstPass'
    BY <1>1, <2>1, <2>2 DEF Types, AtRest, FirstPass
  <2>4. Recorded'
    BY <1>1, <2>1, <2>2 DEF Recorded, After, Types
  <2>5. SecondPass'
    <3>1. After(Len(text))' = After(Len(text)) /\ (Foreseen' <=> Foreseen)
      BY <2>1 DEF After, Foreseen
    <3>2. g_passNum = 1 => line = Len(text) + 1
      BY DEF EndOfText
    <3>3. g_passNum = 1 /\ Foreseen => skipping = "no"
      BY <1>1, <3>2 DEF SecondPass
    <3> QED BY <1>1, <2>1, <2>2, <3>1, <3>3 DEF SecondPass
  <2> QED BY <2>3, <2>4, <2>5 DEF PathInv
<1> QED BY <1>2, <1>3

LEMMA PathInit == Init => PathInv
<1> SUFFICES ASSUME Init PROVE PathInv
  OBVIOUS
<1>1. MaxNest \in Nat /\ Defs \subseteq Names
  BY ConditionalAssumption
<1>2. << >> \in Seq(Seen) /\ Len(<< >>) = 0
  OBVIOUS
<1>3. Types
  BY <1>1, <1>2 DEF Init, Types
<1>4. Recorded /\ AtRest /\ FirstPass /\ SecondPass
  BY <1>1, <1>2 DEF Init, Recorded, AtRest, FirstPass, SecondPass
<1> QED BY <1>3, <1>4 DEF PathInv

LEMMA PathNext == PathInv /\ [Next]_vars => PathInv'
<1> SUFFICES ASSUME PathInv, [Next]_vars PROVE PathInv'
  OBVIOUS
<1>1. CASE \E l \in Lines : OnLine(l)
  <2>1. g_passNum \in {0, 1}
    BY DEF PathInv, Types
  <2> QED BY <1>1, <2>1, FirstPassReads, SecondPassReads
<1>2. CASE EndOfText
  BY <1>2, EndOfTextPath
<1>3. CASE UNCHANGED vars
  BY <1>3 DEF vars, scanner, auxiliary, PathInv, Types, Recorded, AtRest, FirstPass, SecondPass, After, Foreseen
<1> QED BY <1>1, <1>2, <1>3 DEF Next, OnLine

\* Pass 2 skips and assembles the lines that pass 1 did, unless an IFDEF or
\* IFNDEF asks for a symbol that is defined below it.
THEOREM SamePathTheorem == Spec => []SamePath
<1>1. PathInv => SamePath
  BY DEF PathInv, SecondPass, SamePath
<1> QED BY <1>1, PathInit, PathNext, PTL DEF Spec

\* Pass 2 of such a text is never aborted: not by the end of the text inside a
\* skipped block, and not by the limit on nesting.
THEOREM SecondPassEndsTheorem == Spec => []SecondPassEnds
<1>1. PathInv => SecondPassEnds
  BY DEF PathInv, SecondPass, SecondPassEnds
<1> QED BY <1>1, PathInit, PathNext, PTL DEF Spec
=============================================================================
