--------------------------- MODULE TwoPassProofs ---------------------------
(***************************************************************************)
(* Proofs about TwoPass, for every program and every bound: the types, and *)
(* that the two passes agree on every regular program.  Pass 2 reaches     *)
(* each line where pass 1 did, stores inside its blocks, and the           *)
(* references it stores are the places of their labels.                    *)
(*                                                                         *)
(* In pass 1 an accepted line takes the place and the symbols recorded     *)
(* before it to those recorded before the next one by a function of the    *)
(* record alone (NextPos, NextSyms).  Pass 2 follows the same function: a  *)
(* value it reads is the one pass 1 read, because a symbol that no EQU     *)
(* defines never changes, and one that an EQU defines is set anew before   *)
(* it is read.                                                             *)
(***************************************************************************)
EXTENDS TwoPass, TLAPS

\* The shape of a run: in pass 1 hist holds the lines above the current one
\* and the second chunk counter is idle; in pass 2 hist ends with the END line
\* and the line being read is one of hist.
Shape ==
  /\ g_passNum = 0 => /\ line = Len(hist) + 1
                      /\ num_chunks2 = 0
                      /\ \A k \in 1 .. Len(hist) : hist[k].stmt \in Stmts
  /\ g_passNum = 1 => /\ Len(hist) > 0
                      /\ hist[Len(hist)].stmt = EndStmt
                      /\ \A k \in 1 .. Len(hist) - 1 : hist[k].stmt \in Stmts
                      /\ status = "run" => line <= Len(hist)
  /\ status = "run" => GetCurrentChunkIndex < MaxChunks

TypeInv == TypeOK /\ Shape

\* The smallest power of two that holds a DSM buffer is one of Powers.
LEMMA DsmAlignType ==
  ASSUME NEW val \in Int, DsmLegal(val)
  PROVE  DsmAlign(val) \in Powers /\ DsmAlign(val) \in Int /\ DsmAlign(val) > 0
<1> DEFINE P(p) == val <= p /\ p < 2 * val
<1>1. \E p \in Powers : P(p)
  <2>0. 0 < val /\ val < 65536
    BY DEF DsmLegal
  <2>1. CASE 0 < val /\ val <= 16
    <3>1. P(1) \/ P(2) \/ P(4) \/ P(8) \/ P(16)
      BY <2>0, <2>1
    <3> QED BY <3>1 DEF Powers
  <2>2. CASE 16 < val /\ val <= 256
    <3>1. P(32) \/ P(64) \/ P(128) \/ P(256)
      BY <2>0, <2>2
    <3> QED BY <3>1 DEF Powers
  <2>3. CASE 256 < val /\ val <= 4096
    <3>1. P(512) \/ P(1024) \/ P(2048) \/ P(4096)
      BY <2>0, <2>3
    <3> QED BY <3>1 DEF Powers
  <2>4. CASE 4096 < val /\ val <= 65536
    <3>1. P(8192) \/ P(16384) \/ P(32768) \/ P(65536)
      BY <2>0, <2>4
    <3> QED BY <3>1 DEF Powers
  <2> QED BY <2>0, <2>1, <2>2, <2>3, <2>4
<1>2. DsmAlign(val) = CHOOSE p \in Powers : P(p)
  BY DEF DsmAlign
<1>3. DsmAlign(val) \in Powers
  BY <1>1, <1>2
<1> QED BY <1>3 DEF Powers

\* What a statement reads has its type while the assembler runs.
LEMMA ReadTypes ==
  ASSUME TypeInv, status = "run"
  PROVE  /\ GetCurrentChunkIndex \in 0 .. MaxChunks - 1
         /\ GetCurrentMemType \in Mems
         /\ GetCurrentChunkBegin \in Int
         /\ Width \in {1, 2}
         /\ LabelAddress \in Int
         /\ Pos \in Place
         /\ \A off \in Int : ImageAddress(off) \in Int
<1> USE DEF TypeInv, TypeOK, Shape
<1>1. GetCurrentChunkIndex \in 0 .. MaxChunks - 1
  BY BoundAssumption DEF GetCurrentChunkIndex
<1>2. chunks[GetCurrentChunkIndex] \in Chunk
  BY <1>1
<1>3. GetCurrentMemType \in Mems /\ GetCurrentChunkBegin \in Int
  BY <1>2 DEF GetCurrentMemType, GetCurrentChunkBegin, Chunk
<1>4. Width \in {1, 2}
  BY DEF Width
<1>5. LabelAddress \in Int
  BY <1>3 DEF LabelAddress
<1>6. Pos \in Place
  BY <1>1, <1>3 DEF Pos, Place
<1>7. ASSUME NEW off \in Int
      PROVE  ImageAddress(off) \in Int
  <2>1. off \div (3 * Width) \in Int
    BY <1>4
  <2> QED BY <2>1, <1>3 DEF ImageAddress
<1> QED BY <1>1, <1>3, <1>4, <1>5, <1>6, <1>7

\* An expression of a statement is an integer or unresolved.
LEMMA ExpType ==
  ASSUME TypeInv, NEW s \in Stmts
  PROVE  Exp(s.arg) \in Value
<1>1. s.arg \in Operands
  BY StmtsAssumption DEF Statement
<1> QED BY <1>1, NamesAssumption DEF Exp, Operands, TypeInv, TypeOK, Value

\* A line is read, its effects have their types: the invariant is kept.
LEMMA NextLineInv ==
  ASSUME TypeInv, NEW s \in Stmts, Reading(s), NextLine(s),
         pc' \in Int, c_ptr' \in Int,
         in_section' \in BOOLEAN, errors' \in BOOLEAN,
         num_chunks' \in 0 .. MaxChunks, num_chunks2' \in 0 .. MaxChunks,
         g_passNum = 0 => num_chunks2' = 0,
         GetCurrentChunkIndex' < MaxChunks,
         chunks' \in [0 .. MaxChunks - 1 -> Chunk],
         m_val' \in [Names -> Value], mem_space' \in [Names -> Mems \cup {-1}],
         refs' \subseteq Names \X Value, placed' \in [Names -> Value]
  PROVE  TypeInv'
<1> USE DEF TypeInv, TypeOK, Shape
<1> DEFINE h == [stmt |-> s, val |-> Exp(s.arg), pos |-> Pos, syms |-> m_val]
<1>1. h \in Line
  BY ReadTypes, ExpType DEF Reading, Line
<1>2. g_passNum' = g_passNum /\ status' = status /\ status = "run" /\ line' = line + 1
  BY DEF NextLine, Reading
<1>3. CASE g_passNum = 0
  <2>1. hist' = Append(hist, h)
    BY <1>3 DEF NextLine
  <2>2. hist' \in Seq(Line) /\ Len(hist') = Len(hist) + 1
    BY <1>1, <2>1
  <2>3. \A k \in 1 .. Len(hist') : hist'[k].stmt \in Stmts
    BY <1>1, <1>3, <2>1
  <2> QED BY <1>2, <1>3, <2>2, <2>3
<1>4. CASE g_passNum = 1
  <2>1. hist' = hist /\ hist[line].stmt = s /\ line \in 1 .. Len(hist)
    BY <1>2, <1>4 DEF NextLine, Reading
  <2>2. line # Len(hist)
    BY <1>4, <2>1, StmtsAssumption DEF EndStmt
  <2>3. line' \in 1 .. Len(hist') + 1 /\ line' <= Len(hist')
    BY <1>2, <2>1, <2>2
  <2>4. Shape'
    BY <1>2, <1>4, <2>1, <2>3
  <2> QED BY <1>2, <1>4, <2>1, <2>3, <2>4
<1> QED BY <1>3, <1>4

\* Dying keeps the invariant.
LEMMA DiesInv ==
  ASSUME TypeInv, NEW how \in {"rejected", "aborted", "crashed", "wild"}, Dies(how)
  PROVE  TypeInv'
BY DEF TypeInv, TypeOK, Shape, Dies, layout, symbols, history

\* So does a line that only reports an error.
LEMMA RejectsInv ==
  ASSUME TypeInv, NEW s \in Stmts, Reading(s), Rejects(s)
  PROVE  TypeInv'
<1>1. GetCurrentChunkIndex' = GetCurrentChunkIndex /\ GetCurrentChunkIndex < MaxChunks
  BY DEF TypeInv, Shape, GetCurrentChunkIndex, Rejects, NextLine, layout, Reading
<1>2. NextLine(s) /\ errors' = TRUE /\ UNCHANGED <<layout, symbols, history>>
  BY DEF Rejects, yyerror
<1> QED BY <1>1, <1>2, NextLineInv DEF TypeInv, TypeOK, Shape, layout, symbols, history

\* Storing keeps the types and the current chunk.
LEMMA StoreTypes ==
  ASSUME TypeInv, status = "run", g_passNum' = g_passNum,
         NEW words \in Int, NEW bytes \in Int, NEW data \in BOOLEAN,
         Store(words, bytes, data)
  PROVE  /\ pc' \in Int /\ c_ptr' \in Int
         /\ chunks' \in [0 .. MaxChunks - 1 -> Chunk]
         /\ in_section' = in_section
         /\ num_chunks' = num_chunks
         /\ num_chunks2' = num_chunks2
         /\ GetCurrentChunkIndex' = GetCurrentChunkIndex
         /\ GetCurrentChunkIndex < MaxChunks
<1> USE DEF TypeInv, TypeOK, Shape
<1>1. GetCurrentChunkIndex \in 0 .. MaxChunks - 1
  BY ReadTypes
<1>2. [chunks EXCEPT ![GetCurrentChunkIndex].hasdata = TRUE] \in [0 .. MaxChunks - 1 -> Chunk]
  BY <1>1 DEF Chunk
<1> QED BY <1>1, <1>2 DEF Store, GetCurrentChunkIndex

\* A statement that stores and leaves the symbols alone.
LEMMA StoreLineInv ==
  ASSUME TypeInv, NEW s \in Stmts, Reading(s), NextLine(s),
         NEW words \in Int, NEW bytes \in Int, NEW data \in BOOLEAN,
         Store(words, bytes, data),
         errors' \in BOOLEAN, refs' \subseteq Names \X Value,
         m_val' \in [Names -> Value], mem_space' \in [Names -> Mems \cup {-1}],
         placed' \in [Names -> Value]
  PROVE  TypeInv'
<1>1. status = "run" /\ g_passNum' = g_passNum
  BY DEF Reading, NextLine
<1>2. TypeOK /\ Shape
  BY DEF TypeInv
<1>3. g_passNum = 0 => num_chunks2 = 0
  BY <1>2 DEF Shape
<1>4. num_chunks \in 0 .. MaxChunks /\ num_chunks2 \in 0 .. MaxChunks /\ in_section \in BOOLEAN
  BY <1>2 DEF TypeOK
<1> QED BY <1>1, <1>3, <1>4, StoreTypes, NextLineInv

LEMMA InsertCodeInv ==
  ASSUME TypeInv, NEW s \in Stmts, Reading(s),
         NEW words \in Nat, NEW isCode \in BOOLEAN, InsertCode(s, words, isCode)
  PROVE  TypeInv'
<1>1. CASE Dies("aborted") \/ Dies("wild")
  BY <1>1, DiesInv
<1>2. CASE ~(Dies("aborted") \/ Dies("wild"))
  <2>1. /\ NextLine(s) /\ Store(words, 3 * words, TRUE) /\ Refer(s.arg)
        /\ errors' = (errors \/ Undefined(s.arg) \/ (isCode /\ GetCurrentMemType = L_MEM))
        /\ UNCHANGED <<symbols, placed>>
    BY <1>2 DEF InsertCode
  <2>2. refs' \subseteq Names \X Value
    BY <2>1 DEF Refer, TypeInv, TypeOK
  <2>3. /\ errors' \in BOOLEAN /\ m_val' \in [Names -> Value]
        /\ mem_space' \in [Names -> Mems \cup {-1}] /\ placed' \in [Names -> Value]
    BY <2>1 DEF TypeInv, TypeOK, symbols
  <2>4. 3 * words \in Int /\ words \in Int
    OBVIOUS
  <2> QED BY <2>1, <2>2, <2>3, <2>4, StoreLineInv
<1> QED BY <1>1, <1>2

LEMMA CodeInv == ASSUME TypeInv, NEW s \in Stmts, Code(s) PROVE TypeInv'
<1>1. s.n1 \in Nat /\ s.n2 \in Nat
  BY StmtsAssumption DEF Statement
<1> QED BY <1>1, InsertCodeInv DEF Code

LEMMA GenDcInv == ASSUME TypeInv, NEW s \in Stmts, GenDc(s) PROVE TypeInv'
<1>1. status = "run"
  BY DEF GenDc, Reading
<1>2. Width \in {1, 2}
  BY <1>1, ReadTypes
<1>3. Width \in Nat
  BY <1>2
<1> QED BY <1>3, InsertCodeInv DEF GenDc

\* Both passes give a string the same bytes, unless it is empty.
LEMMA StringBytesSame ==
  ASSUME NEW len \in Nat
  PROVE  /\ StringWords(len) \in Nat
         /\ StringBytes(0, len) = 3 * StringWords(len)
         /\ StringBytes(1, len) \in Nat
         /\ len > 0 => StringBytes(1, len) = StringBytes(0, len)
<1> DEFINE w == StringWords(len)
<1>1. w \in Nat /\ 3 * w >= len + 1 /\ 3 * w <= len + 3
  BY DEF StringWords
<1>2. (3 * w) % (len + 1) \in Nat
  BY <1>1
<1>3. ASSUME len > 0
      PROVE  (3 * w) % (len + 1) = 3 * w - (len + 1)
  <2>1. 3 * w = 1 * (len + 1) + (3 * w - (len + 1))
    BY <1>1
  <2>2. 3 * w - (len + 1) \in 0 .. len
    <3>1. CASE len = 1
      BY <3>1 DEF StringWords
    <3>2. CASE len > 1
      BY <1>1, <3>2
    <3> QED BY <1>3, <3>1, <3>2
  <2> HIDE DEF w
  <2>3. \A x \in Nat : x - (len + 1) \in 0 .. len => x % (len + 1) = x - (len + 1)
    OBVIOUS
  <2> QED BY <1>1, <2>2, <2>3
<1> QED BY <1>1, <1>2, <1>3 DEF StringBytes

LEMMA InsertStringInv == ASSUME TypeInv, NEW s \in Stmts, InsertString(s) PROVE TypeInv'
<1>1. s.n1 \in Nat
  BY StmtsAssumption DEF Statement
<1>2. StringWords(s.n1) \in Int /\ StringBytes(g_passNum, s.n1) \in Int
  <2>1. StringWords(s.n1) \in Nat
    BY <1>1, StringBytesSame
  <2>2. StringBytes(0, s.n1) \in Int /\ StringBytes(1, s.n1) \in Int
    BY <1>1, <2>1, StringBytesSame
  <2>3. g_passNum = 0 \/ g_passNum = 1
    BY DEF TypeInv, TypeOK
  <2> QED BY <2>1, <2>2, <2>3
<1>3. CASE Dies("wild")
  BY <1>3, DiesInv
<1>4. CASE ~Dies("wild")
  <2>1. /\ Reading(s) /\ NextLine(s)
        /\ Store(StringWords(s.n1), StringBytes(g_passNum, s.n1), TRUE)
        /\ UNCHANGED <<symbols, errors, history>>
    BY <1>4 DEF InsertString
  <2> QED BY <1>2, <2>1, StoreLineInv DEF TypeInv, TypeOK, symbols, history
<1> QED BY <1>3, <1>4

LEMMA PaddingType ==
  ASSUME TypeInv, status = "run", NEW val \in Int, val # 0
  PROVE  Padding(val) \in Nat
<1>1. Width \in {1, 2}
  BY ReadTypes
<1>2. Abs(val * Width) \in Nat /\ Abs(val * Width) > 0
  BY <1>1 DEF Abs
<1>3. -pc \in Int
  BY DEF TypeInv, TypeOK
<1> QED BY <1>2, <1>3 DEF Padding

LEMMA GenDSInv == ASSUME TypeInv, NEW s \in Stmts, GenDS(s) PROVE TypeInv'
<1> DEFINE val   == Exp(s.arg)
           words == val * Width
<1>1. CASE Rejects(s) \/ Dies("wild")
  BY <1>1, DiesInv, RejectsInv DEF GenDS
<1>2. CASE ~(Rejects(s) \/ Dies("wild"))
  <2>1. /\ Reading(s) /\ NextLine(s) /\ val # Undef
        /\ Store(words, Zeros(3 * words), FALSE)
        /\ UNCHANGED <<symbols, errors, history>>
    BY <1>2 DEF GenDS
  <2>2. val \in Int
    BY <2>1, ExpType DEF Value
  <2>3. Width \in {1, 2}
    BY <2>1, ReadTypes DEF Reading
  <2>4. words \in Int /\ Zeros(3 * words) \in Int
    BY <2>2, <2>3 DEF Zeros
  <2> HIDE DEF val, words
  <2> QED BY <2>1, <2>4, StoreLineInv DEF TypeInv, TypeOK, symbols, history
<1> QED BY <1>1, <1>2

LEMMA GenAlignInv == ASSUME TypeInv, NEW s \in Stmts, GenAlign(s) PROVE TypeInv'
<1> DEFINE val == Exp(s.arg)
<1>1. CASE Rejects(s) \/ Dies("wild") \/ Dies("crashed")
  BY <1>1, DiesInv, RejectsInv DEF GenAlign
<1>2. CASE ~(Rejects(s) \/ Dies("wild") \/ Dies("crashed"))
  <2>1. /\ Reading(s) /\ NextLine(s) /\ val \notin {Undef, 0}
        /\ Store(Padding(val), 3 * Padding(val), FALSE)
        /\ UNCHANGED <<symbols, errors, history>>
    BY <1>2 DEF GenAlign
  <2>2. val \in Int /\ val # 0 /\ status = "run"
    BY <2>1, ExpType DEF Value, Reading
  <2> HIDE DEF val
  <2>3. Padding(val) \in Int /\ 3 * Padding(val) \in Int
    BY <2>2, PaddingType
  <2> QED BY <2>1, <2>3, StoreLineInv DEF TypeInv, TypeOK, symbols, history
<1> QED BY <1>1, <1>2

\* A symbol gets a value or keeps its own.
LEMMA AddLabelTypes ==
  ASSUME TypeInv, status = "run", NEW n \in Names, AddLabel(n)
  PROVE  m_val' \in [Names -> Value] /\ mem_space' \in [Names -> Mems \cup {-1}]
BY ReadTypes DEF AddLabel, TypeInv, TypeOK, Value

LEMMA PlacedTypes ==
  ASSUME TypeInv, status = "run", NEW n \in Names, NEW off \in Int, Placed(n, off)
  PROVE  placed' \in [Names -> Value]
<1>1. ImageAddress(off) \in Value
  BY ReadTypes DEF Value
<1> QED BY <1>1 DEF Placed, TypeInv, TypeOK

LEMMA SameChunk ==
  ASSUME TypeInv, status = "run", g_passNum' = g_passNum, UNCHANGED layout
  PROVE  GetCurrentChunkIndex' < MaxChunks
BY DEF TypeInv, Shape, GetCurrentChunkIndex, layout

LEMMA LabelInv == ASSUME TypeInv, NEW s \in Stmts, Label(s) PROVE TypeInv'
<1>1. CASE Rejects(s)
  BY <1>1, RejectsInv DEF Label
<1>2. CASE ~Rejects(s)
  <2>1. /\ Reading(s) /\ NextLine(s) /\ AddLabel(s.name) /\ Placed(s.name, c_ptr)
        /\ UNCHANGED <<layout, errors, refs>>
    BY <1>2 DEF Label
  <2>2. s.name \in Names /\ status = "run" /\ g_passNum' = g_passNum /\ c_ptr \in Int
    BY <2>1, StmtsAssumption DEF Statement, Label, Reading, NextLine, TypeInv, TypeOK
  <2>3. /\ m_val' \in [Names -> Value] /\ mem_space' \in [Names -> Mems \cup {-1}]
        /\ placed' \in [Names -> Value]
    BY <2>1, <2>2, AddLabelTypes, PlacedTypes
  <2>4. GetCurrentChunkIndex' < MaxChunks
    BY <2>1, <2>2, SameChunk
  <2> QED BY <2>1, <2>2, <2>3, <2>4, NextLineInv DEF TypeInv, TypeOK, Shape, layout
<1> QED BY <1>1, <1>2

LEMMA EquInv == ASSUME TypeInv, NEW s \in Stmts, Equ(s) PROVE TypeInv'
<1>1. CASE Dies("crashed")
  BY <1>1, DiesInv
<1>2. CASE ~Dies("crashed")
  <2>1. /\ Reading(s) /\ NextLine(s) /\ UNCHANGED <<layout, history>>
        /\ mem_space' = [mem_space EXCEPT ![s.name] = GetCurrentMemType]
    BY <1>2 DEF Equ
  <2>2. s.name \in Names /\ status = "run" /\ g_passNum' = g_passNum
    BY <2>1, StmtsAssumption DEF Statement, Equ, Reading, NextLine
  <2>3. Exp(s.arg) \in Value /\ LabelAddress \in Value /\ GetCurrentMemType \in Mems
    BY <2>2, ExpType, ReadTypes DEF Value
  <2>4. mem_space' \in [Names -> Mems \cup {-1}]
    BY <2>1, <2>3 DEF TypeInv, TypeOK
  <2>5. m_val' \in [Names -> Value] /\ errors' \in BOOLEAN
    <3>1. CASE Exp(s.arg) = Undef
      BY <1>2, <2>2, <2>3, <3>1 DEF Equ, TypeInv, TypeOK, yyerror
    <3>2. CASE Exp(s.arg) # Undef
      BY <1>2, <2>2, <2>3, <3>2 DEF Equ, TypeInv, TypeOK
    <3> QED BY <3>1, <3>2
  <2>6. GetCurrentChunkIndex' < MaxChunks
    BY <2>1, <2>2, SameChunk
  <2> QED BY <2>1, <2>4, <2>5, <2>6, NextLineInv DEF TypeInv, TypeOK, Shape, layout, history
<1> QED BY <1>1, <1>2

LEMMA SymSetInv == ASSUME TypeInv, NEW s \in Stmts, SymSet(s) PROVE TypeInv'
<1>1. CASE Rejects(s)
  BY <1>1, RejectsInv DEF SymSet
<1>2. CASE ~Rejects(s)
  <2>1. /\ Reading(s) /\ NextLine(s) /\ UNCHANGED <<layout, mem_space, errors, history>>
        /\ m_val' = [m_val EXCEPT ![s.name] = Exp(s.arg)]
    BY <1>2 DEF SymSet
  <2>2. status = "run" /\ g_passNum' = g_passNum
    BY <2>1 DEF Reading, NextLine
  <2>3. m_val' \in [Names -> Value]
    BY <2>1, ExpType DEF TypeInv, TypeOK
  <2>4. GetCurrentChunkIndex' < MaxChunks
    BY <2>1, <2>2, SameChunk
  <2> QED BY <2>1, <2>3, <2>4, NextLineInv DEF TypeInv, TypeOK, Shape, layout, history
<1> QED BY <1>1, <1>2

LEMMA GenDSMInv == ASSUME TypeInv, NEW s \in Stmts, GenDSM(s) PROVE TypeInv'
<1> DEFINE val   == Exp(s.arg)
           named == s.name # None /\ ~Duplicate(s.name)
           skip  == DsmSkip(val)
           words == skip + val * Width
<1>0. Reading(s) /\ status = "run" /\ s.name \in Names \cup {None}
  BY StmtsAssumption DEF GenDSM, Reading, Statement
<1>1. CASE Dies("wild")
  BY <1>1, DiesInv
<1>2. CASE /\ NextLine(s) /\ yyerror
           /\ IF named THEN AddLabel(s.name) /\ Placed(s.name, c_ptr)
                       ELSE UNCHANGED <<symbols, placed>>
           /\ UNCHANGED <<layout, refs>>
  <2>1. g_passNum' = g_passNum /\ c_ptr \in Int
    BY <1>2 DEF NextLine, TypeInv, TypeOK
  <2>2. /\ m_val' \in [Names -> Value] /\ mem_space' \in [Names -> Mems \cup {-1}]
        /\ placed' \in [Names -> Value]
    <3>1. CASE named
      <4>1. s.name \in Names /\ AddLabel(s.name) /\ Placed(s.name, c_ptr)
        BY <1>0, <1>2, <3>1
      <4> QED BY <4>1, <1>0, <2>1, AddLabelTypes, PlacedTypes
    <3>2. CASE ~named
      BY <1>2, <3>2 DEF TypeInv, TypeOK, symbols
    <3> QED BY <3>1, <3>2
  <2>3. GetCurrentChunkIndex' < MaxChunks
    BY <1>0, <1>2, <2>1, SameChunk
  <2> QED BY <1>0, <1>2, <2>2, <2>3, NextLineInv DEF TypeInv, TypeOK, Shape, layout, yyerror
<1>3. CASE /\ val # Undef /\ DsmLegal(val)
           /\ NextLine(s)
           /\ Store(words, 3 * words, FALSE)
           /\ errors' = (errors \/ (s.name # None /\ ~named))
           /\ IF named
              THEN /\ mem_space' = [mem_space EXCEPT ![s.name] = GetCurrentMemType]
                   /\ m_val' = IF pc % DsmAlign(val) # 0
                               THEN [m_val EXCEPT ![s.name] = pc + skip]
                               ELSE IF g_passNum = 0 THEN [m_val EXCEPT ![s.name] = LabelAddress] ELSE m_val
                   /\ Placed(s.name, c_ptr + 3 * skip)
              ELSE UNCHANGED <<symbols, placed>>
           /\ UNCHANGED refs
  <2>1. val \in Int /\ Width \in {1, 2} /\ pc \in Int /\ c_ptr \in Int
    BY <1>0, <1>3, ExpType, ReadTypes DEF Value, TypeInv, TypeOK
  <2>2. DsmAlign(val) \in Int /\ DsmAlign(val) # 0
    BY <1>3, <2>1, DsmAlignType
  <2>3. skip \in Nat
    <3>1. Padding(DsmAlign(val)) \in Nat
      BY <1>0, <2>2, PaddingType
    <3> QED BY <3>1 DEF DsmSkip
  <2> HIDE DEF val, skip
  <2>4. words \in Int /\ 3 * words \in Int /\ c_ptr + 3 * skip \in Int /\ pc + skip \in Int
    BY <2>1, <2>3
  <2> HIDE DEF words
  <2>5. /\ m_val' \in [Names -> Value] /\ mem_space' \in [Names -> Mems \cup {-1}]
        /\ placed' \in [Names -> Value]
    <3>1. CASE named
      <4>1. s.name \in Names /\ Placed(s.name, c_ptr + 3 * skip)
        BY <1>0, <1>3, <3>1
      <4>2. placed' \in [Names -> Value]
        BY <4>1, <1>0, <2>4, PlacedTypes
      <4>3. LabelAddress \in Value /\ pc + skip \in Value /\ GetCurrentMemType \in Mems
        BY <1>0, <2>4, ReadTypes DEF Value
      <4>4. mem_space' \in [Names -> Mems \cup {-1}]
        BY <1>3, <3>1, <4>3 DEF TypeInv, TypeOK
      <4>5. m_val' \in [Names -> Value]
        BY <1>3, <3>1, <4>3 DEF TypeInv, TypeOK
      <4> QED BY <4>2, <4>4, <4>5
    <3>2. CASE ~named
      BY <1>3, <3>2 DEF TypeInv, TypeOK, symbols
    <3> QED BY <3>1, <3>2
  <2>6. errors' \in BOOLEAN /\ refs' \subseteq Names \X Value
    BY <1>3 DEF TypeInv, TypeOK
  <2> QED BY <1>0, <1>3, <2>4, <2>5, <2>6, StoreLineInv
<1> QED BY <1>1, <1>2, <1>3 DEF GenDSM

LEMMA GenOrgInv == ASSUME TypeInv, NEW s \in Stmts, GenOrg(s) PROVE TypeInv'
<1>0. Reading(s) /\ status = "run" /\ s.mem \in Mems
  BY StmtsAssumption DEF GenOrg, Reading, Statement
<1>1. CASE Dies("wild") \/ Dies("aborted")
  BY <1>1, DiesInv
<1>2. CASE ~(Dies("wild") \/ Dies("aborted"))
  <2>1. PICK address \in OrgAddresses(s) :
          /\ NextChunk < MaxChunks
          /\ NextLine(s)
          /\ pc' = address /\ c_ptr' = 0 /\ in_section' = TRUE
          /\ IF g_passNum = 0
             THEN /\ num_chunks' = NextChunk /\ UNCHANGED num_chunks2
                  /\ chunks' = Opened(IF in_section THEN [chunks EXCEPT ![num_chunks].code_len = c_ptr]
                                                    ELSE chunks, s.mem, address)
             ELSE /\ num_chunks2' = NextChunk /\ UNCHANGED num_chunks
                  /\ chunks' = Opened(IF in_section THEN [chunks EXCEPT ![num_chunks2].code_len2 = c_ptr]
                                                    ELSE chunks, s.mem, address)
          /\ errors' = (errors \/ Undefined(s.arg))
          /\ UNCHANGED <<symbols, history>>
    BY <1>2 DEF GenOrg
  <2>2. address \in Int
    <3>1. CASE Exp(s.arg) # Undef
      BY <2>1, <3>1, ExpType DEF OrgAddresses, Value
    <3>2. CASE Exp(s.arg) = Undef
      BY <2>1, <3>2, BoundAssumption DEF OrgAddresses
    <3> QED BY <3>1, <3>2
  <2>3. GetCurrentChunkIndex \in 0 .. MaxChunks - 1 /\ NextChunk \in 0 .. MaxChunks - 1
    BY <1>0, <2>1, ReadTypes, BoundAssumption DEF NextChunk
  <2>4. ASSUME NEW ch \in [0 .. MaxChunks - 1 -> Chunk]
        PROVE  Opened(ch, s.mem, address) \in [0 .. MaxChunks - 1 -> Chunk]
    <3>1. [ch[NextChunk] EXCEPT !.mem_type = s.mem, !.pc = address, !.hasdata = FALSE] \in Chunk
      BY <1>0, <2>2, <2>3 DEF Chunk
    <3> QED BY <2>3, <3>1 DEF Opened
  <2>5. /\ [chunks EXCEPT ![num_chunks].code_len = c_ptr] \in [0 .. MaxChunks - 1 -> Chunk]
        /\ [chunks EXCEPT ![num_chunks2].code_len2 = c_ptr] \in [0 .. MaxChunks - 1 -> Chunk]
        /\ chunks \in [0 .. MaxChunks - 1 -> Chunk]
    BY DEF TypeInv, TypeOK, Chunk
  <2>6. chunks' \in [0 .. MaxChunks - 1 -> Chunk]
    BY <2>1, <2>4, <2>5
  <2>7. GetCurrentChunkIndex' < MaxChunks
    BY <2>1, <2>3 DEF GetCurrentChunkIndex, NextLine
  <2>8. /\ num_chunks' \in 0 .. MaxChunks /\ num_chunks2' \in 0 .. MaxChunks
        /\ g_passNum = 0 => num_chunks2' = 0
    <3>1. NextChunk \in 0 .. MaxChunks
      BY <2>3, BoundAssumption
    <3>2. /\ num_chunks \in 0 .. MaxChunks /\ num_chunks2 \in 0 .. MaxChunks
          /\ g_passNum = 0 => num_chunks2 = 0
      BY DEF TypeInv, TypeOK, Shape
    <3> QED BY <2>1, <3>1, <3>2
  <2>9. errors' \in BOOLEAN
    BY <2>1 DEF TypeInv, TypeOK, Undefined
  <2>10. /\ m_val' \in [Names -> Value] /\ mem_space' \in [Names -> Mems \cup {-1}]
         /\ refs' \subseteq Names \X Value /\ placed' \in [Names -> Value]
    BY <2>1 DEF TypeInv, TypeOK, symbols, history
  <2>11. pc' \in Int /\ c_ptr' \in Int /\ in_section' \in BOOLEAN
    BY <2>1, <2>2
  <2>12. NextLine(s)
    BY <2>1
  <2> QED BY <1>0, <2>6, <2>7, <2>8, <2>9, <2>10, <2>11, <2>12, NextLineInv
<1> QED BY <1>1, <1>2

LEMMA EndPass1Inv == ASSUME TypeInv, EndPass1 PROVE TypeInv'
<1>1. CASE errors
  <2>1. Dies("rejected")
    BY <1>1 DEF EndPass1
  <2> QED BY <2>1, DiesInv
<1>2. CASE ~errors
  <2> DEFINE h == [stmt |-> EndStmt, val |-> 0, pos |-> Pos, syms |-> m_val]
  <2>1. /\ chunks' = ClosedV
        /\ num_chunks' = NextChunk /\ in_section' = FALSE /\ g_passNum' = 1 /\ pc' = 0 /\ line' = 1
        /\ hist' = Append(hist, h)
        /\ UNCHANGED <<c_ptr, num_chunks2, symbols, errors, status, history>>
        /\ status = "run" /\ g_passNum = 0
    BY <1>2 DEF EndPass1
  <2>2. h \in Line
    BY <2>1, ReadTypes DEF Line, Value, TypeInv, TypeOK
  <2>3. /\ hist' \in Seq(Line) /\ Len(hist') = Len(hist) + 1
        /\ hist'[Len(hist')].stmt = EndStmt
        /\ \A k \in 1 .. Len(hist') - 1 : hist'[k].stmt \in Stmts
    BY <2>1, <2>2 DEF TypeInv, TypeOK, Shape
  <2>4. chunks' \in [0 .. MaxChunks - 1 -> Chunk]
    <3>1. chunks \in [0 .. MaxChunks - 1 -> Chunk] /\ c_ptr \in Int
      BY DEF TypeInv, TypeOK
    <3>2. [chunks EXCEPT ![num_chunks].code_len = c_ptr] \in [0 .. MaxChunks - 1 -> Chunk]
      BY <3>1 DEF Chunk
    <3> QED BY <2>1, <3>1, <3>2 DEF ClosedV
  <2>5. GetCurrentChunkIndex \in 0 .. MaxChunks - 1
    BY <2>1, ReadTypes
  <2>6. num_chunks' \in 0 .. MaxChunks
    BY <2>1, <2>5, BoundAssumption DEF NextChunk
  <2>7. GetCurrentChunkIndex' = 0
    BY <2>1 DEF GetCurrentChunkIndex, TypeInv, Shape
  <2>8. TypeOK'
    <3>1. /\ c_ptr' \in Int /\ num_chunks2' \in 0 .. MaxChunks /\ errors' \in BOOLEAN
          /\ m_val' \in [Names -> Value] /\ mem_space' \in [Names -> Mems \cup {-1}]
          /\ status' = "run" /\ refs' \subseteq Names \X Value /\ placed' \in [Names -> Value]
      BY <2>1 DEF TypeInv, TypeOK, symbols, history
    <3>2. g_passNum' \in {0, 1} /\ in_section' \in BOOLEAN
      BY <2>1, Zenon
    <3>4. pc' \in Int
      BY <2>1
    <3>3. line' \in 1 .. Len(hist') + 1
      BY <2>1, <2>3 DEF TypeInv, TypeOK
    <3> QED BY <2>3, <2>4, <2>6, <3>1, <3>2, <3>3, <3>4 DEF TypeOK
  <2>9. Len(hist') > 0 /\ line' <= Len(hist')
    BY <2>1, <2>3 DEF TypeInv, TypeOK
  <2>10. Shape'
    BY <2>1, <2>3, <2>7, <2>9, BoundAssumption DEF Shape
  <2> QED BY <2>8, <2>10 DEF TypeInv
<1> QED BY <1>1, <1>2

LEMMA EndPass2Inv == ASSUME TypeInv, EndPass2 PROVE TypeInv'
<1>1. Closed \in [0 .. MaxChunks - 1 -> Chunk]
  BY DEF Closed, TypeInv, TypeOK, Chunk
<1>2. NextChunk \in 0 .. MaxChunks
  BY ReadTypes, BoundAssumption DEF NextChunk, EndPass2
<1>3. errors' \in BOOLEAN /\ status' \in {"accepted", "rejected"}
  BY DEF EndPass2, TypeInv, TypeOK, Verified
<1> QED BY <1>1, <1>2, <1>3 DEF EndPass2, TypeInv, TypeOK, Shape, symbols, history

LEMMA StutterInv == ASSUME TypeInv, UNCHANGED vars PROVE TypeInv'
BY DEF TypeInv, TypeOK, Shape, GetCurrentChunkIndex, vars, layout, symbols, history

LEMMA InitInv == Init => TypeInv
<1> SUFFICES ASSUME Init PROVE TypeInv
  OBVIOUS
<1>1. chunks \in [0 .. MaxChunks - 1 -> Chunk]
  BY BoundAssumption DEF Init, Chunk, Mems, P_MEM, L_MEM
<1>2. m_val \in [Names -> Value] /\ placed \in [Names -> Value] /\ mem_space \in [Names -> Mems \cup {-1}]
  BY DEF Init, Value
<1>3. hist \in Seq(Line) /\ Len(hist) = 0 /\ line = 1
  BY DEF Init
<1>4. TypeOK
  <2>1. /\ g_passNum \in {0, 1} /\ in_section \in BOOLEAN
        /\ errors \in BOOLEAN /\ status = "run" /\ refs \subseteq Names \X Value
    BY Zenon DEF Init
  <2>4. pc \in Int /\ c_ptr \in Int /\ num_chunks = 0 /\ num_chunks2 = 0
    BY DEF Init
  <2>2. num_chunks \in 0 .. MaxChunks /\ num_chunks2 \in 0 .. MaxChunks
    BY <2>4, BoundAssumption
  <2>3. line \in 1 .. Len(hist) + 1
    BY <1>3
  <2> QED BY <1>1, <1>2, <1>3, <2>1, <2>2, <2>3, <2>4 DEF TypeOK
<1>5. Shape
  BY <1>3, BoundAssumption DEF Init, Shape, GetCurrentChunkIndex
<1> QED BY <1>4, <1>5 DEF TypeInv

LEMMA NextInv == TypeInv /\ [Next]_vars => TypeInv'
BY CodeInv, GenDcInv, InsertStringInv, GenDSInv, GenAlignInv, GenDSMInv, LabelInv, EquInv,
   SymSetInv, GenOrgInv, EndPass1Inv, EndPass2Inv, StutterInv DEF Next

\* Type correctness, for every program: the counters, the chunk table and the
\* symbol table keep their types and no index leaves chunks[] while the
\* assembler runs (CodeUtils.c, SymbolTable.c).
THEOREM TypeCorrect == Spec => []TypeOK
<1>1. TypeInv => TypeOK
  BY DEF TypeInv
<1> QED BY <1>1, InitInv, NextInv, PTL DEF Spec

----------------------------------------------------------------------------
(* A line as a function of what pass 1 recorded of it.                     *)

WidthAt(p)        == IF p.mem = L_MEM THEN 2 ELSE 1
AddressAt(p)      == IF p.mem = L_MEM THEN p.begin + ((p.pc - p.begin) \div 2) ELSE p.pc
PaddingAt(p, val) == (-p.pc) % Abs(val * WidthAt(p))
SkipAt(p, val)    == IF p.pc % DsmAlign(val) = 0 THEN 0 ELSE PaddingAt(p, DsmAlign(val))

ValueAt(h) == CASE h.stmt.arg = Star    -> h.pos.pc
                [] h.stmt.arg \in Names -> h.syms[h.stmt.arg]
                [] OTHER                -> h.stmt.arg

\* The words a line takes.
WordsOf(h) == CASE h.stmt.op = "code"  -> h.stmt.n1
                [] h.stmt.op = "dc"    -> WidthAt(h.pos)
                [] h.stmt.op = "str"   -> StringWords(h.stmt.n1)
                [] h.stmt.op = "ds"    -> h.val * WidthAt(h.pos)
                [] h.stmt.op = "align" -> PaddingAt(h.pos, h.val)
                [] h.stmt.op = "dsm"   -> SkipAt(h.pos, h.val) + h.val * WidthAt(h.pos)
                [] OTHER               -> 0

Moved(p, words) ==
  [pc |-> p.pc + words, c_ptr |-> p.c_ptr + 3 * words, in_section |-> p.in_section,
   chunk |-> p.chunk, mem |-> p.mem, begin |-> p.begin]

Section(p, mem, address) ==
  [pc |-> address, c_ptr |-> 0, in_section |-> TRUE,
   chunk |-> IF p.in_section THEN p.chunk + 1 ELSE p.chunk,
   mem |-> mem, begin |-> address]

NextPos(h) == IF h.stmt.op = "org" THEN Section(h.pos, h.stmt.mem, h.val)
                                   ELSE Moved(h.pos, WordsOf(h))

\* Whether a line gives its name an address, and what address.
Labels(s)  == s.op = "label" \/ (s.op = "dsm" /\ s.name # None)
LabelAt(h) == IF h.stmt.op = "dsm" /\ h.pos.pc % DsmAlign(h.val) # 0
              THEN h.pos.pc + SkipAt(h.pos, h.val) ELSE AddressAt(h.pos)

NextSyms(h) == IF Labels(h.stmt) THEN [h.syms EXCEPT ![h.stmt.name] = LabelAt(h)]
               ELSE IF h.stmt.op \in {"equ", "set"} THEN [h.syms EXCEPT ![h.stmt.name] = h.val]
               ELSE h.syms

\* What is true of a line that is regular and that pass 1 accepted.
Good(h) ==
  /\ h.stmt.op \in {"code", "dc", "str", "ds", "align", "dsm"} => h.pos.in_section
  /\ h.stmt.op = "code" => h.stmt.n1 = h.stmt.n2
  /\ h.stmt.op = "str" => h.stmt.n1 > 0
  /\ h.stmt.op \in {"org", "ds", "align", "dsm", "equ", "set"} => h.val \in Int
  /\ h.stmt.op = "ds" => h.val >= 0
  /\ h.stmt.op = "align" => h.val # 0
  /\ h.stmt.op = "dsm" => DsmLegal(h.val)
  /\ Labels(h.stmt) \/ h.stmt.op = "equ" => h.syms[h.stmt.name] = Undef
  /\ h.stmt.op = "set" => h.syms[h.stmt.name] # Undef
  /\ WordsOf(h) \in Nat

----------------------------------------------------------------------------
(* The inductive invariant.                                                *)

\* No error in pass 1 and no irregular line so far.
Clean == Regular /\ (g_passNum = 0 => ~errors)

\* No EQU defines the symbol.
Fixed(n) == \A k \in 1 .. Len(hist) : ~(hist[k].stmt.op = "equ" /\ hist[k].stmt.name = n)

\* The current line, as pass 1 will record it.
Before(s) == [stmt |-> s, val |-> Exp(s.arg), pos |-> Pos, syms |-> m_val]

\* What pass 1 recorded, whatever the program is.
Recorded ==
  \A k \in 1 .. Len(hist) :
    LET h == hist[k] IN
    /\ h.val = ValueAt(h)
    /\ h.pos.chunk \in 0 .. MaxChunks - 1
    /\ h.pos.in_section => 3 * (h.pos.pc - h.pos.begin) = h.pos.c_ptr
    /\ h.stmt.op = "equ" => \A j \in 1 .. k : hist[j].syms[h.stmt.name] = Undef

\* Symbols are added, and those a line defines are in the table behind it.
Added ==
  g_passNum = 0 =>
    \A k \in 1 .. Len(hist) :
      /\ \A n \in Names : hist[k].syms[n] # Undef => m_val[n] # Undef
      /\ Labels(hist[k].stmt) \/ hist[k].stmt.op = "equ" => m_val[hist[k].stmt.name] # Undef

\* In pass 1 the address counts the words of the section.
Counting ==
  g_passNum = 0 /\ status = "run" /\ in_section => 3 * (pc - GetCurrentChunkBegin) = c_ptr

\* Each record follows from the one before it.
Linked ==
  /\ Len(hist) > 0 => hist[1].pos.pc = 0 /\ ~hist[1].pos.in_section /\ hist[1].pos.chunk = 0
  /\ \A k \in 1 .. Len(hist) - 1 : /\ Good(hist[k])
                                   /\ hist[k + 1].pos = NextPos(hist[k])
                                   /\ hist[k + 1].syms = NextSyms(hist[k])

\* A label is not the name of an EQU, and a symbol that none defines keeps its
\* value.
Steady ==
  /\ \A k \in 1 .. Len(hist) : Labels(hist[k].stmt) => Fixed(hist[k].stmt.name)
  /\ \A n \in Names : Fixed(n) =>
       \A k \in 1 .. Len(hist) : \A j \in 1 .. k :
         hist[j].syms[n] # Undef => hist[k].syms[n] = hist[j].syms[n]

\* The place of a line lies in its block, of which a new section or the end of
\* the source leaves nothing; ends is said of the last line.
InBlock(k) ==
  LET p == hist[k].pos IN
  p.in_section => p.chunk < num_chunks /\ p.c_ptr <= chunks[p.chunk].code_len
EndsBlock(k) ==
  LET p == hist[k].pos IN
  p.in_section /\ hist[k].stmt.op \in {"org", "end"} => chunks[p.chunk].code_len = p.c_ptr

\* The places of the lines so far stay inside their sections.
PlacesIn ==
  \A k \in 1 .. Len(hist) :
    /\ hist[k].pos.in_section =>
         /\ in_section
         /\ InBlock(k) \/ (hist[k].pos.chunk = num_chunks /\ hist[k].pos.c_ptr <= c_ptr)
    /\ EndsBlock(k)
    /\ hist[k].pos.in_section /\ hist[k].stmt.op = "org" => hist[k].pos.chunk < num_chunks

\* Pass 1, while it runs without an error.
FirstPass ==
  /\ IF Len(hist) = 0
     THEN pc = 0 /\ ~in_section /\ num_chunks = 0
     ELSE LET h == hist[Len(hist)] IN Good(h) /\ Pos = NextPos(h) /\ m_val = NextSyms(h)
  /\ \A n \in Names : Fixed(n) =>
       \A k \in 1 .. Len(hist) : hist[k].syms[n] # Undef => m_val[n] = hist[k].syms[n]
  /\ PlacesIn
  /\ refs = {} /\ \A n \in Names : placed[n] = Undef

Last == hist[Len(hist)]

\* Pass 2: the blocks have the sizes of pass 1, and it is where pass 1 was.
Blocks2 ==
  /\ num_chunks = IF Last.pos.in_section THEN Last.pos.chunk + 1 ELSE Last.pos.chunk
  /\ \A k \in 1 .. Len(hist) : InBlock(k) /\ EndsBlock(k)

Followed ==
  /\ SamePlace(line)
  /\ SameSymbols(line)
  /\ \A n \in Names : Fixed(n) => m_val[n] = Last.syms[n]
  /\ \A a \in 0 .. num_chunks2 - 1 : chunks[a].code_len = chunks[a].code_len2

\* What the output holds: the final values of labels, which are their places.
Referred ==
  /\ \A r \in refs : Fixed(r[1]) => r[2] = Last.syms[r[1]]
  /\ \A n \in Names : placed[n] # Undef => Fixed(n) /\ (DsmLabelInL(n) \/ placed[n] = Last.syms[n])

SecondPass ==
  /\ Blocks2
  /\ status \in {"run", "accepted", "rejected"}
  /\ status = "run" => Followed
  /\ status # "run" => Verified(chunks, num_chunks2)
  /\ Referred

\* Only pass 2 accepts a program.
Accepting == status = "accepted" => g_passNum = 1

Agreeing ==
  Clean => /\ Linked /\ Steady
           /\ g_passNum = 0 /\ status = "run" => FirstPass
           /\ g_passNum = 1 => SecondPass

IInv == TypeInv /\ Recorded /\ Added /\ Counting /\ Accepting /\ Agreeing

----------------------------------------------------------------------------
(* The record of a line says what the line reads.                          *)

LEMMA BeforeReads ==
  ASSUME TypeInv, status = "run", NEW s \in Stmts
  PROVE  /\ Before(s).val = ValueAt(Before(s))
         /\ Width = WidthAt(Pos)
         /\ LabelAddress = AddressAt(Pos)
         /\ \A val \in Int : Padding(val) = PaddingAt(Pos, val)
         /\ \A val \in Int : DsmSkip(val) = SkipAt(Pos, val)
<1>1. Pos.pc = pc /\ Pos.mem = GetCurrentMemType /\ Pos.begin = GetCurrentChunkBegin
  BY DEF Pos
<1>2. Width = WidthAt(Pos)
  BY <1>1 DEF Width, WidthAt
<1>3. \A val : Padding(val) = PaddingAt(Pos, val)
  BY <1>1, <1>2 DEF Padding, PaddingAt
<1>4. \A val : DsmSkip(val) = SkipAt(Pos, val)
  BY <1>1, <1>3 DEF DsmSkip, SkipAt
<1>5. LabelAddress = AddressAt(Pos)
  BY <1>1 DEF LabelAddress, AddressAt
<1>6. Before(s).val = ValueAt(Before(s))
  BY <1>1 DEF Before, ValueAt, Exp
<1> QED BY <1>2, <1>3, <1>4, <1>5, <1>6

\* What is said of a record p in a section, pass 2 reads when it is there.
LEMMA PlaceReads ==
  ASSUME TypeInv, status = "run", NEW k, SamePlace(k), in_section
  PROVE  /\ Width = WidthAt(hist[k].pos)
         /\ LabelAddress = AddressAt(hist[k].pos)
         /\ \A val \in Int : Padding(val) = PaddingAt(hist[k].pos, val)
         /\ \A val \in Int : DsmSkip(val) = SkipAt(hist[k].pos, val)
<1> DEFINE p == hist[k].pos
<1>1. p.pc = pc /\ p.mem = GetCurrentMemType /\ p.begin = GetCurrentChunkBegin
  BY DEF SamePlace
<1>2. Width = WidthAt(p)
  BY <1>1 DEF Width, WidthAt
<1>3. \A val : Padding(val) = PaddingAt(p, val)
  BY <1>1, <1>2 DEF Padding, PaddingAt
<1>4. \A val : DsmSkip(val) = SkipAt(p, val)
  BY <1>1, <1>3 DEF DsmSkip, SkipAt
<1>5. LabelAddress = AddressAt(p)
  BY <1>1 DEF LabelAddress, AddressAt
<1> QED BY <1>2, <1>3, <1>4, <1>5

----------------------------------------------------------------------------
(* What a line does in pass 1.                                             *)

\* A regular line, apart from what RegularLine says of SET.
Plain(h) ==
  /\ h.stmt.op = "org" => h.val # Undef
  /\ h.stmt.op \in {"ds", "align", "dsm", "str"} => h.pos.in_section
  /\ h.stmt.op = "ds" /\ h.val # Undef => h.val >= 0
  /\ h.stmt.op = "str" => h.stmt.n1 > 0
  /\ h.stmt.op = "code" => h.stmt.n1 = h.stmt.n2

Opens(s, ch, address) ==
  /\ pc' = address /\ c_ptr' = 0 /\ in_section' = TRUE
  /\ NextChunk < MaxChunks
  /\ chunks' = Opened(ch, s.mem, address)

Moves(words) ==
  /\ Pos' = Moved(Pos, words)
  /\ UNCHANGED <<in_section, num_chunks, num_chunks2>>
  /\ \A a \in 0 .. MaxChunks - 1 : /\ chunks'[a].code_len = chunks[a].code_len
                                   /\ chunks'[a].code_len2 = chunks[a].code_len2

\* The layout: a new section, or words counted in the current one.
Lays1(s) ==
  LET b == Before(s) IN
  \/ /\ s.op = "org" /\ num_chunks' = NextChunk
     /\ \E address \in Int : Opens(s, ClosedV, address) /\ (b.val # Undef => address = b.val)
  \/ /\ s.op # "org"
     /\ \E words \in Int : Moves(words) /\ (~errors' /\ Plain(b) => words = WordsOf(b))

\* The symbols: they are added, or set when they are there.
Defines1(s) ==
  LET b == Before(s) IN
  /\ \A n \in Names : m_val[n] # Undef => m_val'[n] # Undef
  /\ s.op = "equ" => m_val[s.name] = Undef
  /\ Labels(s) \/ s.op = "equ" => m_val'[s.name] # Undef
  /\ ~errors' /\ Plain(b) => m_val' = NextSyms(b)

Step1(s) ==
  /\ NextLine(s)
  /\ errors => errors'
  /\ UNCHANGED <<num_chunks2, history>>
  /\ Lays1(s)
  /\ Defines1(s)
  /\ ~errors' /\ Plain(Before(s)) => Good(Before(s))

\* A line that stores words moves the place by them.
LEMMA StoreMoves ==
  ASSUME TypeInv, status = "run", g_passNum' = g_passNum,
         NEW words \in Int, NEW data \in BOOLEAN, Store(words, 3 * words, data)
  PROVE  Moves(words)
<1>1. GetCurrentChunkIndex' = GetCurrentChunkIndex /\ GetCurrentChunkIndex \in 0 .. MaxChunks - 1
  BY StoreTypes, ReadTypes DEF Store, GetCurrentChunkIndex
<1>2. chunks \in [0 .. MaxChunks - 1 -> Chunk]
  BY DEF TypeInv, TypeOK
<1>3. ASSUME NEW a \in 0 .. MaxChunks - 1
      PROVE  /\ chunks'[a].code_len = chunks[a].code_len
             /\ chunks'[a].code_len2 = chunks[a].code_len2
             /\ chunks'[a].pc = chunks[a].pc
             /\ chunks'[a].mem_type = chunks[a].mem_type
  BY <1>1, <1>2 DEF Store, Chunk
<1>4. GetCurrentMemType' = GetCurrentMemType /\ GetCurrentChunkBegin' = GetCurrentChunkBegin
  BY <1>1, <1>3 DEF GetCurrentMemType, GetCurrentChunkBegin
<1>5. /\ pc' = pc + words /\ c_ptr' = c_ptr + 3 * words
      /\ UNCHANGED <<in_section, num_chunks, num_chunks2>>
  BY DEF Store
<1>6. Pos' = Moved(Pos, words)
  BY <1>1, <1>4, <1>5 DEF Pos, Moved
<1> QED BY <1>3, <1>5, <1>6 DEF Moves

\* A line that leaves the layout alone moves by none.
LEMMA NothingMoves ==
  ASSUME TypeInv, status = "run", g_passNum' = g_passNum, UNCHANGED layout
  PROVE  Moves(0)
<1>1. UNCHANGED <<pc, c_ptr, in_section, num_chunks, num_chunks2, chunks>>
  BY DEF layout
<1>2. pc + 0 = pc /\ c_ptr + 3 * 0 = c_ptr
  BY DEF TypeInv, TypeOK
<1>3. Pos' = Moved(Pos, 0)
  BY <1>1, <1>2 DEF Pos, Moved, GetCurrentChunkIndex, GetCurrentMemType, GetCurrentChunkBegin
<1> QED BY <1>1, <1>3 DEF Moves

LEMMA WordsLaid ==
  ASSUME NEW s, s.op # "org", NEW words \in Int, Moves(words),
         ~errors' /\ Plain(Before(s)) => words = WordsOf(Before(s))
  PROVE  Lays1(s)
BY DEF Lays1

\* A section that opens is one more, or the first; the sizes written in ch stay.
LEMMA OpenMoves ==
  ASSUME TypeInv, status = "run", NEW s \in Stmts, NEW address \in Int,
         NEW ch \in [0 .. MaxChunks - 1 -> Chunk], Opens(s, ch, address),
         GetCurrentChunkIndex' = NextChunk
  PROVE  /\ Pos' = Section(Pos, s.mem, address)
         /\ NextChunk \in 0 .. MaxChunks - 1
         /\ chunks' \in [0 .. MaxChunks - 1 -> Chunk]
         /\ \A a \in 0 .. MaxChunks - 1 :
              /\ chunks'[a].code_len = ch[a].code_len
              /\ chunks'[a].code_len2 = ch[a].code_len2
<1>1. NextChunk \in 0 .. MaxChunks - 1
  <2>1. GetCurrentChunkIndex \in 0 .. MaxChunks - 1 /\ MaxChunks \in Nat
    BY ReadTypes, BoundAssumption
  <2>2. NextChunk = GetCurrentChunkIndex \/ NextChunk = GetCurrentChunkIndex + 1
    BY DEF NextChunk
  <2>3. NextChunk < MaxChunks
    BY DEF Opens
  <2> QED BY <2>1, <2>2, <2>3
<1>2. s.mem \in Mems
  BY StmtsAssumption DEF Statement
<1>3. chunks' = [ch EXCEPT ![NextChunk] = [ch[NextChunk] EXCEPT !.mem_type = s.mem, !.pc = address,
                                                                !.hasdata = FALSE]]
  BY DEF Opens, Opened
<1>4. ASSUME NEW a \in 0 .. MaxChunks - 1
      PROVE  /\ chunks'[a].code_len = ch[a].code_len
             /\ chunks'[a].code_len2 = ch[a].code_len2
             /\ chunks'[a] \in Chunk
             /\ a = NextChunk => chunks'[a].mem_type = s.mem /\ chunks'[a].pc = address
  <2>1. CASE a = NextChunk
    <3>1. chunks'[a] = [ch[a] EXCEPT !.mem_type = s.mem, !.pc = address, !.hasdata = FALSE]
      BY <1>1, <1>3, <2>1
    <3> QED BY <1>2, <3>1 DEF Chunk
  <2>2. CASE a # NextChunk
    BY <1>1, <1>3, <2>2
  <2> QED BY <2>1, <2>2
<1>5. chunks' \in [0 .. MaxChunks - 1 -> Chunk]
  BY <1>3, <1>4
<1>6. GetCurrentMemType' = s.mem /\ GetCurrentChunkBegin' = address
  BY <1>1, <1>4 DEF GetCurrentMemType, GetCurrentChunkBegin
<1>7. Pos' = [pc |-> address, c_ptr |-> 0, in_section |-> TRUE, chunk |-> NextChunk,
              mem |-> s.mem, begin |-> address]
  BY <1>6 DEF Pos, Opens
<1>8. Pos.in_section = in_section /\ Pos.chunk = GetCurrentChunkIndex
  BY DEF Pos
<1>9. Section(Pos, s.mem, address) =
        [pc |-> address, c_ptr |-> 0, in_section |-> TRUE, chunk |-> NextChunk,
         mem |-> s.mem, begin |-> address]
  BY <1>8 DEF Section, NextChunk
<1> QED BY <1>1, <1>4, <1>5, <1>7, <1>9

\* A line that only reports an error.
LEMMA Rejects1 ==
  ASSUME TypeInv, g_passNum = 0, NEW s \in Stmts, Reading(s), Rejects(s),
         s.op \notin {"org", "equ"}, Labels(s) => m_val[s.name] # Undef
  PROVE  Step1(s)
<1>1. NextLine(s) /\ errors' = TRUE /\ UNCHANGED <<layout, symbols, history>>
  BY DEF Rejects, yyerror
<1>2. Moves(0)
  BY <1>1, NothingMoves DEF Reading, NextLine
<1>3. Lays1(s)
  BY <1>1, <1>2, WordsLaid
<1>4. Defines1(s)
  BY <1>1 DEF Defines1, symbols
<1> QED BY <1>1, <1>3, <1>4 DEF Step1, layout

LEMMA InsertCode1 ==
  ASSUME TypeInv, g_passNum = 0, NEW s \in Stmts, Reading(s), s.op \in {"code", "dc"},
         NEW words \in Nat, NEW isCode \in BOOLEAN, InsertCode(s, words, isCode),
         ~Dies("aborted"), words = WordsOf(Before(s))
  PROVE  Step1(s)
<1>1. /\ in_section /\ NextLine(s) /\ Store(words, 3 * words, TRUE) /\ Refer(s.arg)
      /\ errors' = (errors \/ Undefined(s.arg) \/ (isCode /\ GetCurrentMemType = L_MEM))
      /\ UNCHANGED <<symbols, placed>>
  BY DEF InsertCode, Fits
<1>2. refs' = refs
  BY <1>1 DEF Refer
<1>3. Lays1(s)
  <2>0. words \in Int /\ status = "run" /\ g_passNum' = g_passNum
    BY <1>1 DEF Reading, NextLine
  <2>1. Moves(words)
    BY <1>1, <2>0, StoreMoves
  <2> QED BY <2>1, WordsLaid
<1>4. ~Labels(s) /\ s.op \notin {"equ", "set", "org", "ds", "align", "dsm", "str"}
  BY DEF Labels
<1>5. Before(s).stmt = s /\ Before(s).syms = m_val /\ Before(s).pos.in_section = in_section
  BY DEF Before, Pos
<1>6. Defines1(s)
  BY <1>1, <1>4, <1>5 DEF Defines1, NextSyms, symbols
<1>7. Plain(Before(s)) => Good(Before(s))
  BY <1>1, <1>4, <1>5 DEF Plain, Good
<1>8. num_chunks2' = num_chunks2 /\ (errors => errors') /\ UNCHANGED history
  BY <1>1, <1>2 DEF Store, history
<1> QED BY <1>1, <1>3, <1>6, <1>7, <1>8 DEF Step1

Survives == \A how \in {"rejected", "aborted", "crashed", "wild"} : ~Dies(how)

LEMMA BeforeFields ==
  ASSUME NEW s
  PROVE  /\ Before(s).stmt = s /\ Before(s).val = Exp(s.arg)
         /\ Before(s).pos = Pos /\ Before(s).syms = m_val
         /\ Pos.in_section = in_section /\ Pos.pc = pc /\ Pos.mem = GetCurrentMemType
BY DEF Before, Pos

LEMMA Code1 ==
  ASSUME TypeInv, g_passNum = 0, NEW s \in Stmts, Code(s), Survives
  PROVE  Step1(s)
<1>1. s.n1 \in Nat /\ s.op = "code" /\ Reading(s) /\ InsertCode(s, s.n1, TRUE)
  BY StmtsAssumption DEF Statement, Code
<1>2. WordsOf(Before(s)) = s.n1
  BY <1>1, BeforeFields DEF WordsOf
<1> QED BY <1>1, <1>2, InsertCode1 DEF Survives

LEMMA GenDc1 ==
  ASSUME TypeInv, g_passNum = 0, NEW s \in Stmts, GenDc(s), Survives
  PROVE  Step1(s)
<1>1. s.op = "dc" /\ Reading(s) /\ InsertCode(s, Width, FALSE)
  BY DEF GenDc
<1>2. Width \in {1, 2}
  BY <1>1, ReadTypes DEF Reading
<1>3. WordsOf(Before(s)) = Width /\ Width \in Nat
  BY <1>1, <1>2, BeforeFields, BeforeReads DEF WordsOf, Reading
<1> QED BY <1>1, <1>3, InsertCode1 DEF Survives

\* A statement that stores and neither reports an error nor touches a symbol.
LEMMA StoreLine1 ==
  ASSUME TypeInv, g_passNum = 0, NEW s \in Stmts, Reading(s), NextLine(s),
         s.op \in {"str", "ds", "align"},
         NEW words \in Int, NEW data \in BOOLEAN, Store(words, 3 * words, data),
         UNCHANGED <<symbols, errors, history>>,
         words = WordsOf(Before(s)), Plain(Before(s)) => Good(Before(s))
  PROVE  Step1(s)
<1>1. status = "run" /\ g_passNum' = g_passNum
  BY DEF Reading, NextLine
<1>2. Moves(words)
  BY <1>1, StoreMoves
<1>3. Lays1(s)
  BY <1>2, WordsLaid
<1>4. Defines1(s)
  BY BeforeFields DEF Defines1, NextSyms, Labels, symbols
<1> QED BY <1>3, <1>4 DEF Step1, Store

LEMMA InsertString1 ==
  ASSUME TypeInv, g_passNum = 0, NEW s \in Stmts, InsertString(s), Survives
  PROVE  Step1(s)
<1> DEFINE words == StringWords(s.n1)
<1>1. s.n1 \in Nat /\ s.op = "str" /\ Reading(s)
  BY StmtsAssumption DEF Statement, InsertString
<1>2. words \in Nat /\ StringBytes(0, s.n1) = 3 * words
  BY <1>1, StringBytesSame
<1>3. /\ NextLine(s) /\ Store(words, StringBytes(0, s.n1), TRUE)
      /\ UNCHANGED <<symbols, errors, history>>
  BY DEF InsertString, Survives
<1>4. WordsOf(Before(s)) = words
  BY <1>1, BeforeFields DEF WordsOf
<1>5. Plain(Before(s)) => Good(Before(s))
  BY <1>1, <1>2, <1>4, BeforeFields DEF Plain, Good, Labels
<1> HIDE DEF words
<1>6. words \in Int /\ Store(words, 3 * words, TRUE)
  BY <1>2, <1>3 DEF Store
<1> QED BY <1>1, <1>3, <1>4, <1>5, <1>6, StoreLine1

LEMMA GenDS1 ==
  ASSUME TypeInv, g_passNum = 0, NEW s \in Stmts, GenDS(s), Survives
  PROVE  Step1(s)
<1> DEFINE val   == Exp(s.arg)
           words == val * Width
<1>1. s.op = "ds" /\ Reading(s) /\ status = "run"
  BY DEF GenDS, Reading
<1>2. CASE Rejects(s)
  BY <1>1, <1>2, Rejects1 DEF Labels
<1>3. CASE ~Rejects(s)
  <2>1. /\ NextLine(s) /\ val # Undef /\ Store(words, 3 * words, FALSE)
        /\ UNCHANGED <<symbols, errors, history>>
    BY <1>3 DEF GenDS, Survives, Zeros
  <2>2. val \in Int /\ Width \in {1, 2}
    BY <1>1, <2>1, ExpType, ReadTypes DEF Value
  <2>3. WordsOf(Before(s)) = words
    BY <1>1, BeforeFields, BeforeReads DEF WordsOf
  <2>4. words \in Int /\ (val >= 0 => words \in Nat)
    BY <2>2
  <2>5. Plain(Before(s)) => Good(Before(s))
    BY <1>1, <2>2, <2>3, <2>4, BeforeFields, NamesAssumption DEF Plain, Good, Labels
  <2> HIDE DEF words
  <2> QED BY <1>1, <2>1, <2>3, <2>4, <2>5, StoreLine1
<1> QED BY <1>2, <1>3

LEMMA GenAlign1 ==
  ASSUME TypeInv, g_passNum = 0, NEW s \in Stmts, GenAlign(s), Survives
  PROVE  Step1(s)
<1> DEFINE val   == Exp(s.arg)
           words == Padding(val)
<1>1. s.op = "align" /\ Reading(s) /\ status = "run"
  BY DEF GenAlign, Reading
<1>2. CASE Rejects(s)
  BY <1>1, <1>2, Rejects1 DEF Labels
<1>3. CASE ~Rejects(s)
  <2>1. /\ NextLine(s) /\ val \notin {Undef, 0} /\ Store(words, 3 * words, FALSE)
        /\ UNCHANGED <<symbols, errors, history>>
    BY <1>3 DEF GenAlign, Survives
  <2>2. val \in Int /\ val # 0
    BY <1>1, <2>1, ExpType DEF Value
  <2>3. words \in Nat /\ words \in Int
    BY <1>1, <2>2, PaddingType
  <2>4. WordsOf(Before(s)) = words
    BY <1>1, <2>2, BeforeFields, BeforeReads DEF WordsOf
  <2>5. Plain(Before(s)) => Good(Before(s))
    BY <1>1, <2>2, <2>3, <2>4, BeforeFields DEF Plain, Good, Labels
  <2> HIDE DEF words
  <2> QED BY <1>1, <2>1, <2>3, <2>4, <2>5, StoreLine1
<1> QED BY <1>2, <1>3

LEMMA Label1 ==
  ASSUME TypeInv, g_passNum = 0, NEW s \in Stmts, Label(s)
  PROVE  Step1(s)
<1>1. s.op = "label" /\ Reading(s) /\ status = "run" /\ s.name \in Names
  BY StmtsAssumption DEF Label, Reading, Statement
<1>2. CASE Duplicate(s.name)
  BY <1>1, <1>2, Rejects1 DEF Label, Duplicate
<1>3. CASE ~Duplicate(s.name)
  <2>1. /\ NextLine(s) /\ AddLabel(s.name) /\ Placed(s.name, c_ptr)
        /\ UNCHANGED <<layout, errors, refs>> /\ m_val[s.name] = Undef
    BY <1>1, <1>3 DEF Label, Duplicate
  <2>2. m_val' = [m_val EXCEPT ![s.name] = LabelAddress] /\ placed' = placed
    BY <2>1 DEF AddLabel, Placed
  <2>3. Moves(0)
    BY <1>1, <2>1, NothingMoves DEF NextLine
  <2>4. WordsOf(Before(s)) = 0
    BY <1>1, BeforeFields DEF WordsOf
  <2>5. Lays1(s)
    BY <1>1, <2>3, <2>4, WordsLaid
  <2>6. LabelAt(Before(s)) = LabelAddress /\ LabelAddress \in Int
    BY <1>1, BeforeFields, BeforeReads, ReadTypes DEF LabelAt
  <2>7. m_val \in [Names -> Value]
    BY DEF TypeInv, TypeOK
  <2>8. Defines1(s)
    BY <1>1, <2>1, <2>2, <2>6, <2>7, BeforeFields, NamesAssumption DEF Defines1, NextSyms, Labels
  <2>9. Good(Before(s))
    BY <1>1, <2>1, <2>4, BeforeFields DEF Good, Labels
  <2> QED BY <2>1, <2>2, <2>5, <2>8, <2>9 DEF Step1, layout, history
<1> QED BY <1>2, <1>3

LEMMA Equ1 ==
  ASSUME TypeInv, g_passNum = 0, NEW s \in Stmts, Equ(s), Survives
  PROVE  Step1(s)
<1> DEFINE val == Exp(s.arg)
<1>1. s.op = "equ" /\ Reading(s) /\ status = "run" /\ s.name \in Names
  BY StmtsAssumption DEF Equ, Reading, Statement
<1>2. /\ NextLine(s) /\ m_val[s.name] = Undef /\ UNCHANGED <<layout, history>>
      /\ IF val = Undef
         THEN errors' = TRUE /\ m_val' = [m_val EXCEPT ![s.name] = LabelAddress]
         ELSE errors' = errors /\ m_val' = [m_val EXCEPT ![s.name] = val]
  BY DEF Equ, Survives, Duplicate, yyerror
<1>3. WordsOf(Before(s)) = 0
  BY <1>1, BeforeFields DEF WordsOf
<1>4. Moves(0)
  BY <1>1, <1>2, NothingMoves DEF NextLine
<1>5. Lays1(s)
  BY <1>1, <1>3, <1>4, WordsLaid
<1>6. /\ LabelAddress \in Int /\ m_val \in [Names -> Value] /\ val \in Value
  BY <1>1, ReadTypes, ExpType DEF TypeInv, TypeOK
<1> HIDE DEF val
<1>7. m_val' = [m_val EXCEPT ![s.name] = IF val = Undef THEN LabelAddress ELSE val]
  BY <1>2
<1>8. Before(s).val = val
  BY BeforeFields DEF val
<1>9. Defines1(s)
  BY <1>1, <1>2, <1>6, <1>7, <1>8, BeforeFields, NamesAssumption DEF Defines1, NextSyms, Labels
<1>10. ~errors' => Good(Before(s))
  BY <1>1, <1>2, <1>3, <1>6, <1>8, BeforeFields DEF Good, Labels, Value
<1> QED BY <1>2, <1>5, <1>9, <1>10 DEF Step1, layout, history

LEMMA SymSet1 ==
  ASSUME TypeInv, g_passNum = 0, NEW s \in Stmts, SymSet(s)
  PROVE  Step1(s)
<1> DEFINE val == Exp(s.arg)
<1>1. s.op = "set" /\ Reading(s) /\ status = "run" /\ s.name \in Names
  BY StmtsAssumption DEF SymSet, Reading, Statement
<1>2. CASE Rejects(s)
  BY <1>1, <1>2, Rejects1 DEF Labels
<1>3. CASE ~Rejects(s)
  <2>1. /\ NextLine(s) /\ m_val[s.name] # Undef /\ val # Undef
        /\ m_val' = [m_val EXCEPT ![s.name] = val]
        /\ UNCHANGED <<layout, mem_space, errors, history>>
    BY <1>3 DEF SymSet
  <2>2. WordsOf(Before(s)) = 0
    BY <1>1, BeforeFields DEF WordsOf
  <2>3. Moves(0)
    BY <1>1, <2>1, NothingMoves DEF NextLine
  <2>4. Lays1(s)
    BY <1>1, <2>2, <2>3, WordsLaid
  <2>5. m_val \in [Names -> Value] /\ val \in Int
    BY <1>1, <2>1, ExpType DEF TypeInv, TypeOK, Value
  <2>6. Defines1(s)
    BY <1>1, <2>1, <2>5, BeforeFields, NamesAssumption DEF Defines1, NextSyms, Labels
  <2>7. Good(Before(s))
    BY <1>1, <2>1, <2>2, <2>5, BeforeFields DEF Good, Labels
  <2> QED BY <2>1, <2>4, <2>6, <2>7 DEF Step1, layout, history
<1> QED BY <1>2, <1>3

\* A DSM line that is in error, but gives its name an address.
LEMMA GenDSMBad1 ==
  ASSUME TypeInv, g_passNum = 0, NEW s \in Stmts, Reading(s), s.op = "dsm",
         NextLine(s), errors' = TRUE, UNCHANGED <<layout, refs>>,
         IF s.name # None /\ ~Duplicate(s.name)
         THEN AddLabel(s.name) /\ Placed(s.name, c_ptr)
         ELSE UNCHANGED <<symbols, placed>>
  PROVE  Step1(s)
<1>1. status = "run" /\ g_passNum' = g_passNum /\ s.name \in Names \cup {None}
  BY StmtsAssumption DEF Reading, NextLine, Statement
<1>2. Moves(0)
  BY <1>1, NothingMoves
<1>3. Lays1(s)
  BY <1>2, WordsLaid
<1>4. m_val \in [Names -> Value] /\ LabelAddress \in Int /\ LabelAddress # Undef
  BY <1>1, ReadTypes, NamesAssumption DEF TypeInv, TypeOK
<1>5. Defines1(s) /\ placed' = placed
  <2>1. CASE s.name # None /\ ~Duplicate(s.name)
    <3>1. s.name \in Names /\ placed' = placed /\ m_val' = [m_val EXCEPT ![s.name] = LabelAddress]
      BY <1>1, <2>1 DEF AddLabel, Placed
    <3> QED BY <1>4, <3>1 DEF Defines1, Labels
  <2>2. CASE ~(s.name # None /\ ~Duplicate(s.name))
    <3>1. m_val' = m_val /\ placed' = placed /\ (s.name # None => m_val[s.name] # Undef)
      BY <2>2 DEF Duplicate, symbols
    <3> QED BY <3>1 DEF Defines1, Labels
  <2> QED BY <2>1, <2>2
<1> QED BY <1>3, <1>5 DEF Step1, layout, history

\* A DSM line that reserves its buffer.
LEMMA GenDSMGood1 ==
  ASSUME TypeInv, g_passNum = 0, NEW s \in Stmts, Reading(s), s.op = "dsm", NextLine(s),
         NEW val, val = Exp(s.arg), val # Undef, DsmLegal(val),
         NEW skip, skip = DsmSkip(val), NEW words, words = skip + val * Width,
         Store(words, 3 * words, FALSE), UNCHANGED refs,
         NEW named \in BOOLEAN, named <=> s.name # None /\ ~Duplicate(s.name),
         errors' = (errors \/ (s.name # None /\ ~named)),
         IF named
         THEN /\ m_val' = IF pc % DsmAlign(val) # 0
                          THEN [m_val EXCEPT ![s.name] = pc + skip]
                          ELSE [m_val EXCEPT ![s.name] = LabelAddress]
              /\ Placed(s.name, c_ptr + 3 * skip)
         ELSE UNCHANGED <<symbols, placed>>
  PROVE  Step1(s)
<1>1. status = "run" /\ g_passNum' = g_passNum /\ s.name \in Names \cup {None}
  BY StmtsAssumption DEF Reading, NextLine, Statement
<1>2. /\ val \in Int /\ Width \in {1, 2} /\ LabelAddress \in Int
      /\ m_val \in [Names -> Value] /\ pc \in Int
  BY <1>1, ExpType, ReadTypes DEF Value, TypeInv, TypeOK
<1>3. DsmAlign(val) \in Int /\ DsmAlign(val) # 0
  BY <1>2, DsmAlignType
<1>4. skip \in Nat
  <2>1. Padding(DsmAlign(val)) \in Nat
    BY <1>1, <1>3, PaddingType
  <2> QED BY <2>1 DEF DsmSkip
<1>5. words \in Nat /\ words \in Int
  BY <1>2, <1>4 DEF DsmLegal
<1>6. Moves(words)
  BY <1>1, <1>5, StoreMoves
<1>7. Before(s).val = val /\ Before(s).stmt = s /\ Before(s).pos = Pos /\ Before(s).syms = m_val
  BY BeforeFields
<1>8. SkipAt(Pos, val) = skip /\ WidthAt(Pos) = Width /\ AddressAt(Pos) = LabelAddress
  BY <1>1, <1>2, BeforeReads
<1>9. WordsOf(Before(s)) = words
  BY <1>7, <1>8 DEF WordsOf
<1>10. Lays1(s)
  BY <1>5, <1>6, <1>9, WordsLaid
<1>11. LabelAt(Before(s)) = IF pc % DsmAlign(val) # 0 THEN pc + skip ELSE LabelAddress
  BY <1>7, <1>8 DEF LabelAt, Pos
<1>12. LabelAt(Before(s)) \in Int /\ LabelAt(Before(s)) # Undef
  BY <1>2, <1>4, <1>11, NamesAssumption
<1>13. placed' = placed
  BY DEF Placed
<1>14. Defines1(s)
  <2>1. CASE named
    <3>1. s.name \in Names /\ m_val' = [m_val EXCEPT ![s.name] = LabelAt(Before(s))]
      BY <1>1, <1>11, <2>1
    <3>2. Labels(s)
      BY <1>1, <2>1 DEF Labels
    <3>3. NextSyms(Before(s)) = m_val'
      BY <1>7, <3>1, <3>2 DEF NextSyms
    <3> QED BY <1>2, <1>12, <3>1, <3>3 DEF Defines1
  <2>2. CASE ~named
    <3>1. m_val' = m_val /\ (s.name # None => m_val[s.name] # Undef /\ errors')
      BY <2>2 DEF Duplicate, symbols
    <3>2. ~errors' => ~Labels(s)
      BY <3>1 DEF Labels
    <3>3. ~errors' => NextSyms(Before(s)) = m_val
      BY <1>7, <3>2 DEF NextSyms
    <3> QED BY <3>1, <3>3 DEF Defines1, Labels
  <2> QED BY <2>1, <2>2
<1>15. ~errors' /\ Plain(Before(s)) => Good(Before(s))
  <2>1. ~errors' /\ s.name # None => m_val[s.name] = Undef
    BY DEF Duplicate
  <2> QED BY <1>2, <1>5, <1>7, <1>9, <2>1 DEF Plain, Good, Labels
<1> QED BY <1>10, <1>13, <1>14, <1>15 DEF Step1, Store, history

LEMMA GenDSM1 ==
  ASSUME TypeInv, g_passNum = 0, NEW s \in Stmts, GenDSM(s), Survives
  PROVE  Step1(s)
<1> DEFINE val   == Exp(s.arg)
           named == s.name # None /\ ~Duplicate(s.name)
           skip  == DsmSkip(val)
           words == skip + val * Width
<1>1. Reading(s) /\ s.op = "dsm"
  BY DEF GenDSM
<1>2. CASE /\ NextLine(s) /\ yyerror
           /\ IF named THEN AddLabel(s.name) /\ Placed(s.name, c_ptr)
                       ELSE UNCHANGED <<symbols, placed>>
           /\ UNCHANGED <<layout, refs>>
  BY <1>1, <1>2, GenDSMBad1 DEF yyerror
<1>3. CASE /\ val # Undef /\ DsmLegal(val)
           /\ NextLine(s)
           /\ Store(words, 3 * words, FALSE)
           /\ errors' = (errors \/ (s.name # None /\ ~named))
           /\ IF named
              THEN /\ mem_space' = [mem_space EXCEPT ![s.name] = GetCurrentMemType]
                   /\ m_val' = IF pc % DsmAlign(val) # 0
                               THEN [m_val EXCEPT ![s.name] = pc + skip]
                               ELSE IF g_passNum = 0 THEN [m_val EXCEPT ![s.name] = LabelAddress] ELSE m_val
                   /\ Placed(s.name, c_ptr + 3 * skip)
              ELSE UNCHANGED <<symbols, placed>>
           /\ UNCHANGED refs
  <2>1. named \in BOOLEAN
    OBVIOUS
  <2>2. IF named
        THEN /\ m_val' = IF pc % DsmAlign(val) # 0
                         THEN [m_val EXCEPT ![s.name] = pc + skip]
                         ELSE [m_val EXCEPT ![s.name] = LabelAddress]
             /\ Placed(s.name, c_ptr + 3 * skip)
        ELSE UNCHANGED <<symbols, placed>>
    BY <1>3
  <2> HIDE DEF val, skip, words
  <2> QED BY <1>1, <1>3, <2>1, <2>2, GenDSMGood1 DEF val, skip, words
<1> QED BY <1>2, <1>3 DEF GenDSM, Survives

LEMMA GenOrg1 ==
  ASSUME TypeInv, g_passNum = 0, NEW s \in Stmts, GenOrg(s), Survives
  PROVE  Step1(s)
<1> DEFINE val == Exp(s.arg)
<1>1. s.op = "org" /\ Reading(s) /\ status = "run"
  BY DEF GenOrg, Reading
<1>2. PICK address \in OrgAddresses(s) :
        /\ NextChunk < MaxChunks
        /\ NextLine(s)
        /\ pc' = address /\ c_ptr' = 0 /\ in_section' = TRUE
        /\ num_chunks' = NextChunk /\ UNCHANGED num_chunks2
        /\ chunks' = Opened(ClosedV, s.mem, address)
        /\ errors' = (errors \/ Undefined(s.arg))
        /\ UNCHANGED <<symbols, history>>
  BY DEF GenOrg, Survives, ClosedV
<1>3. address \in Int /\ (val # Undef => address = val)
  <2>1. CASE val # Undef
    BY <1>2, <2>1, ExpType DEF OrgAddresses, Value
  <2>2. CASE val = Undef
    <3>1. address \in Garbage \/ address = 0
      BY <1>2, <2>2 DEF OrgAddresses
    <3>2. Garbage \subseteq Int /\ 0 \in Int
      BY BoundAssumption
    <3>3. address \in Int
      BY <3>1, <3>2
    <3> QED BY <2>2, <3>3
  <2> QED BY <2>1, <2>2
<1>4. Opens(s, ClosedV, address)
  BY <1>2 DEF Opens
<1>5. Before(s).val = val /\ Before(s).stmt = s /\ Before(s).syms = m_val
  BY BeforeFields
<1>6. Lays1(s)
  BY <1>1, <1>2, <1>3, <1>4, <1>5 DEF Lays1
<1>7. m_val' = m_val
  BY <1>2 DEF symbols
<1>8. Defines1(s)
  BY <1>1, <1>5, <1>7 DEF Defines1, NextSyms, Labels
<1>9. Plain(Before(s)) => Good(Before(s))
  <2>1. WordsOf(Before(s)) = 0
    BY <1>1, <1>5 DEF WordsOf
  <2> QED BY <1>1, <1>5, <2>1, ExpType DEF Plain, Good, Labels, Value
<1> QED BY <1>2, <1>6, <1>8, <1>9 DEF Step1

----------------------------------------------------------------------------
(* Pass 1 keeps the invariant.                                             *)

LEMMA RegularPlain ==
  ASSUME NEW k, RegularLine(k)
  PROVE  Plain(hist[k])
BY DEF RegularLine, Plain

\* The record of pass 1 grows by b.
LEMMA Extends ==
  ASSUME TypeInv, NEW b, hist' = Append(hist, b)
  PROVE  /\ Len(hist) \in Nat
         /\ Len(hist') = Len(hist) + 1
         /\ \A k \in 1 .. Len(hist) : hist'[k] = hist[k]
         /\ hist'[Len(hist) + 1] = b
         /\ Regular' => Regular /\ \A k \in 1 .. Len(hist) + 1 : RegularLine(k)'
         /\ \A n : Fixed(n)' <=> Fixed(n) /\ ~(b.stmt.op = "equ" /\ b.stmt.name = n)
<1>1. hist \in Seq(Line)
  BY DEF TypeInv, TypeOK
<1>2. Len(hist) \in Nat /\ Len(hist') = Len(hist) + 1
  BY <1>1
<1>3. \A k \in 1 .. Len(hist) : hist'[k] = hist[k]
  BY <1>1
<1>4. hist'[Len(hist) + 1] = b
  BY <1>1
<1>5. ASSUME Regular' PROVE Regular /\ \A k \in 1 .. Len(hist) + 1 : RegularLine(k)'
  <2>1. \A k \in 1 .. Len(hist) + 1 : RegularLine(k)'
    BY <1>2, <1>5 DEF Regular
  <2>2. ASSUME NEW k \in 1 .. Len(hist) PROVE RegularLine(k)
    <3>1. RegularLine(k)'
      BY <1>2, <2>1
    <3>2. hist'[k] = hist[k] /\ \A j \in 1 .. k - 1 : hist'[j] = hist[j]
      BY <1>2, <1>3
    <3> QED BY <3>1, <3>2 DEF RegularLine
  <2>3. Regular
    BY <2>2 DEF Regular
  <2> QED BY <2>1, <2>3
<1>6. ASSUME NEW n
      PROVE  Fixed(n)' <=> Fixed(n) /\ ~(b.stmt.op = "equ" /\ b.stmt.name = n)
  <2>1. 1 .. Len(hist') = (1 .. Len(hist)) \cup {Len(hist) + 1}
    BY <1>2
  <2> QED BY <1>3, <1>4, <2>1 DEF Fixed
<1> QED BY <1>2, <1>3, <1>4, <1>5, <1>6

\* A record that says what pass 1 saw keeps Recorded, Linked and Steady.
LEMMA RecordKept ==
  ASSUME IInv, g_passNum = 0, status = "run", NEW b, hist' = Append(hist, b),
         b.val = ValueAt(b), b.pos = Pos, b.syms = m_val,
         b.stmt.op = "equ" => b.stmt.name \in Names /\ m_val[b.stmt.name] = Undef
  PROVE  Recorded'
<1>1. /\ Len(hist) \in Nat /\ Len(hist') = Len(hist) + 1
      /\ \A k \in 1 .. Len(hist) : hist'[k] = hist[k]
      /\ hist'[Len(hist) + 1] = b
  BY Extends DEF IInv
<1>2. /\ Pos.chunk \in 0 .. MaxChunks - 1 /\ Pos.in_section = in_section /\ Pos.c_ptr = c_ptr
      /\ Pos.pc = pc /\ Pos.begin = GetCurrentChunkBegin
  BY ReadTypes DEF IInv, Pos
<1>3. ASSUME NEW k \in 1 .. Len(hist')
      PROVE  /\ hist'[k].val = ValueAt(hist'[k])
             /\ hist'[k].pos.chunk \in 0 .. MaxChunks - 1
             /\ hist'[k].pos.in_section =>
                  3 * (hist'[k].pos.pc - hist'[k].pos.begin) = hist'[k].pos.c_ptr
             /\ hist'[k].stmt.op = "equ" =>
                  \A j \in 1 .. k : hist'[j].syms[hist'[k].stmt.name] = Undef
  <2>1. CASE k \in 1 .. Len(hist)
    <3>1. hist'[k] = hist[k] /\ \A j \in 1 .. k : hist'[j] = hist[j]
      BY <1>1, <2>1
    <3> QED BY <2>1, <3>1 DEF IInv, Recorded
  <2>2. CASE k = Len(hist) + 1
    <3>1. hist'[k] = b
      BY <1>1, <2>2
    <3>2. b.pos.in_section => 3 * (b.pos.pc - b.pos.begin) = b.pos.c_ptr
      BY <1>2 DEF IInv, Counting
    <3>3. ASSUME b.stmt.op = "equ", NEW j \in 1 .. k
          PROVE  hist'[j].syms[b.stmt.name] = Undef
      <4>1. CASE j = k
        BY <3>1, <3>3, <4>1
      <4>2. CASE j # k
        <5>1. j \in 1 .. Len(hist) /\ hist'[j] = hist[j]
          BY <1>1, <2>2, <4>2
        <5> QED BY <3>3, <5>1 DEF IInv, Added
      <4> QED BY <4>1, <4>2
    <3> QED BY <1>2, <3>1, <3>2, <3>3
  <2> QED BY <1>1, <2>1, <2>2
<1>4. Recorded' <=> \A k \in 1 .. Len(hist') :
                      /\ hist'[k].val = ValueAt(hist'[k])
                      /\ hist'[k].pos.chunk \in 0 .. MaxChunks - 1
                      /\ hist'[k].pos.in_section =>
                           3 * (hist'[k].pos.pc - hist'[k].pos.begin) = hist'[k].pos.c_ptr
                      /\ hist'[k].stmt.op = "equ" =>
                           \A j \in 1 .. k : hist'[j].syms[hist'[k].stmt.name] = Undef
  BY DEF Recorded
<1> QED BY <1>3, <1>4

LEMMA FirstPassHolds ==
  ASSUME IInv, g_passNum = 0, status = "run", Clean
  PROVE  Linked /\ Steady /\ FirstPass /\ Added /\ Recorded /\ Counting /\ TypeInv
BY DEF IInv, Agreeing

LEMMA LinkedKept ==
  ASSUME IInv, g_passNum = 0, status = "run", Clean, NEW b, hist' = Append(hist, b),
         b.pos = Pos, b.syms = m_val
  PROVE  Linked'
<1>1. /\ Len(hist) \in Nat /\ Len(hist') = Len(hist) + 1
      /\ \A k \in 1 .. Len(hist) : hist'[k] = hist[k]
      /\ hist'[Len(hist) + 1] = b
  BY Extends DEF IInv
<1>2. Linked /\ FirstPass
  BY FirstPassHolds
<1>3. hist'[1].pos.pc = 0 /\ ~hist'[1].pos.in_section /\ hist'[1].pos.chunk = 0
  <2>1. CASE Len(hist) = 0
    <3>1. pc = 0 /\ ~in_section /\ num_chunks = 0
      BY <1>2, <2>1 DEF FirstPass
    <3>2. Pos.pc = 0 /\ ~Pos.in_section /\ Pos.chunk = 0
      BY <3>1 DEF Pos, GetCurrentChunkIndex
    <3> QED BY <1>1, <2>1, <3>2
  <2>2. CASE Len(hist) # 0
    <3>1. hist'[1] = hist[1]
      BY <1>1, <2>2
    <3> QED BY <1>1, <1>2, <2>2, <3>1 DEF Linked
  <2> QED BY <2>1, <2>2
<1>4. ASSUME NEW k \in 1 .. Len(hist') - 1
      PROVE  /\ Good(hist'[k])
             /\ hist'[k + 1].pos = NextPos(hist'[k])
             /\ hist'[k + 1].syms = NextSyms(hist'[k])
  <2>1. k \in 1 .. Len(hist) /\ hist'[k] = hist[k]
    BY <1>1
  <2>2. CASE k = Len(hist)
    <3>1. Good(hist[k]) /\ Pos = NextPos(hist[k]) /\ m_val = NextSyms(hist[k])
      BY <1>1, <1>2, <2>1, <2>2 DEF FirstPass
    <3>2. hist'[k + 1] = b
      BY <1>1, <2>2
    <3> QED BY <2>1, <3>1, <3>2
  <2>3. CASE k # Len(hist)
    <3>1. k \in 1 .. Len(hist) - 1 /\ hist'[k + 1] = hist[k + 1]
      BY <1>1, <2>1, <2>3
    <3> QED BY <1>2, <2>1, <3>1 DEF Linked
  <2> QED BY <2>2, <2>3
<1>5. Linked' <=> /\ Len(hist') > 0 => /\ hist'[1].pos.pc = 0 /\ ~hist'[1].pos.in_section
                                       /\ hist'[1].pos.chunk = 0
                  /\ \A k \in 1 .. Len(hist') - 1 : /\ Good(hist'[k])
                                                    /\ hist'[k + 1].pos = NextPos(hist'[k])
                                                    /\ hist'[k + 1].syms = NextSyms(hist'[k])
  BY DEF Linked
<1> QED BY <1>3, <1>4, <1>5

LEMMA SteadyKept ==
  ASSUME IInv, g_passNum = 0, status = "run", Clean, NEW b, hist' = Append(hist, b),
         b.syms = m_val,
         Labels(b.stmt) \/ b.stmt.op = "equ" => b.stmt.name \in Names /\ m_val[b.stmt.name] = Undef
  PROVE  Steady'
<1>1. /\ Len(hist) \in Nat /\ Len(hist') = Len(hist) + 1
      /\ \A k \in 1 .. Len(hist) : hist'[k] = hist[k]
      /\ hist'[Len(hist) + 1] = b
      /\ \A n : Fixed(n)' <=> Fixed(n) /\ ~(b.stmt.op = "equ" /\ b.stmt.name = n)
  BY Extends DEF IInv
<1>2. Steady /\ FirstPass /\ Added
  BY FirstPassHolds
<1>3. ASSUME NEW k \in 1 .. Len(hist'), Labels(hist'[k].stmt)
      PROVE  Fixed(hist[k].stmt.name)'
  <2>1. CASE k \in 1 .. Len(hist)
    <3>1. hist'[k] = hist[k] /\ Fixed(hist[k].stmt.name) /\ m_val[hist[k].stmt.name] # Undef
      BY <1>1, <1>2, <1>3, <2>1 DEF Steady, Added
    <3>2. ~(b.stmt.op = "equ" /\ b.stmt.name = hist[k].stmt.name)
      BY <3>1
    <3>3. PICK n : n = hist[k].stmt.name
      OBVIOUS
    <3>4. Fixed(n)'
      BY <1>1, <3>1, <3>2, <3>3
    <3> QED BY <3>1, <3>3, <3>4 DEF Fixed
  <2>2. CASE k = Len(hist) + 1
    <3>1. hist'[k] = b /\ m_val[b.stmt.name] = Undef /\ b.stmt.op # "equ"
      BY <1>1, <1>3, <2>2 DEF Labels
    <3>2. Fixed(b.stmt.name)
      BY <1>2, <3>1 DEF Added, Fixed
    <3>3. PICK n : n = b.stmt.name
      OBVIOUS
    <3>4. Fixed(n)'
      BY <1>1, <3>1, <3>2, <3>3
    <3> QED BY <3>1, <3>3, <3>4 DEF Fixed
  <2> QED BY <1>1, <2>1, <2>2
<1>4. ASSUME NEW n \in Names, Fixed(n)', NEW k \in 1 .. Len(hist'), NEW j \in 1 .. k,
             hist'[j].syms[n] # Undef
      PROVE  hist'[k].syms[n] = hist'[j].syms[n]
  <2>1. Fixed(n)
    BY <1>1, <1>4
  <2>2. CASE k \in 1 .. Len(hist)
    <3>1. hist'[k] = hist[k] /\ hist'[j] = hist[j]
      BY <1>1, <2>2
    <3> QED BY <1>2, <1>4, <2>1, <2>2, <3>1 DEF Steady
  <2>3. CASE k = Len(hist) + 1 /\ j \in 1 .. Len(hist)
    <3>1. hist'[k] = b /\ hist'[j] = hist[j]
      BY <1>1, <2>3
    <3> QED BY <1>2, <1>4, <2>1, <2>3, <3>1 DEF FirstPass
  <2>4. CASE k = j
    BY <2>4
  <2> QED BY <1>1, <2>2, <2>3, <2>4
<1>5. Steady' <=> /\ \A k \in 1 .. Len(hist') : Labels(hist'[k].stmt) => Fixed(hist[k].stmt.name)'
                  /\ \A n \in Names : Fixed(n)' =>
                       \A k \in 1 .. Len(hist') : \A j \in 1 .. k :
                         hist'[j].syms[n] # Undef => hist'[k].syms[n] = hist'[j].syms[n]
  BY DEF Steady, Fixed
<1> QED BY <1>3, <1>4, <1>5

\* The layout behind a line of pass 1.
LEMMA Laid1 ==
  ASSUME TypeInv, g_passNum = 0, status = "run", NEW s \in Stmts, NextLine(s), Lays1(s)
  PROVE  \/ /\ s.op # "org" /\ in_section' = in_section /\ num_chunks' = num_chunks
            /\ \A a \in 0 .. MaxChunks - 1 : chunks'[a].code_len = chunks[a].code_len
            /\ \E words \in Int :
                 /\ pc' = pc + words /\ c_ptr' = c_ptr + 3 * words
                 /\ GetCurrentChunkBegin' = GetCurrentChunkBegin
                 /\ ~errors' /\ Plain(Before(s)) =>
                      words = WordsOf(Before(s)) /\ Pos' = NextPos(Before(s))
         \/ /\ s.op = "org" /\ in_section' = TRUE /\ c_ptr' = 0 /\ pc' = GetCurrentChunkBegin'
            /\ num_chunks' = IF in_section THEN num_chunks + 1 ELSE num_chunks
            /\ num_chunks' < MaxChunks
            /\ \A a \in 0 .. MaxChunks - 1 :
                 chunks'[a].code_len = IF in_section /\ a = num_chunks THEN c_ptr ELSE chunks[a].code_len
            /\ Plain(Before(s)) => Pos' = NextPos(Before(s))
<1>1. g_passNum' = 0 /\ GetCurrentChunkIndex = num_chunks
  BY DEF NextLine, GetCurrentChunkIndex
<1>2. Before(s).stmt = s /\ Before(s).pos = Pos
  BY BeforeFields
<1>3. CASE s.op = "org"
  <2>1. PICK address \in Int : /\ Opens(s, ClosedV, address)
                               /\ Before(s).val # Undef => address = Before(s).val
    BY <1>3 DEF Lays1
  <2>2. num_chunks' = NextChunk /\ GetCurrentChunkIndex' = NextChunk
    BY <1>1, <1>3 DEF Lays1, GetCurrentChunkIndex
  <2>3. /\ ClosedV \in [0 .. MaxChunks - 1 -> Chunk]
        /\ \A a \in 0 .. MaxChunks - 1 :
             ClosedV[a].code_len = IF in_section /\ a = num_chunks THEN c_ptr ELSE chunks[a].code_len
    <3>1. chunks \in [0 .. MaxChunks - 1 -> Chunk] /\ c_ptr \in Int /\ num_chunks \in 0 .. MaxChunks - 1
      BY <1>1, ReadTypes DEF TypeInv, TypeOK
    <3>2. CASE in_section
      BY <3>1, <3>2 DEF ClosedV, Chunk
    <3>3. CASE ~in_section
      BY <3>1, <3>3 DEF ClosedV
    <3> QED BY <3>2, <3>3
  <2>4. /\ Pos' = Section(Pos, s.mem, address)
        /\ \A a \in 0 .. MaxChunks - 1 : chunks'[a].code_len = ClosedV[a].code_len
    BY <2>1, <2>2, <2>3, OpenMoves
  <2>5. Pos'.begin = GetCurrentChunkBegin' /\ Pos'.begin = address /\ pc' = address
    BY <2>1, <2>4 DEF Pos, Section, Opens
  <2>6. Plain(Before(s)) => Pos' = NextPos(Before(s))
    BY <1>2, <1>3, <2>1, <2>4 DEF Plain, NextPos
  <2>7. in_section' = TRUE /\ c_ptr' = 0 /\ NextChunk < MaxChunks
    BY <2>1 DEF Opens
  <2>8. NextChunk = IF in_section THEN num_chunks + 1 ELSE num_chunks
    BY <1>1 DEF NextChunk
  <2> QED BY <1>3, <2>2, <2>3, <2>4, <2>5, <2>6, <2>7, <2>8
<1>4. CASE s.op # "org"
  <2>1. PICK words \in Int : /\ Moves(words)
                             /\ ~errors' /\ Plain(Before(s)) => words = WordsOf(Before(s))
    BY <1>4 DEF Lays1
  <2>2. /\ Pos' = Moved(Pos, words) /\ in_section' = in_section /\ num_chunks' = num_chunks
        /\ \A a \in 0 .. MaxChunks - 1 : chunks'[a].code_len = chunks[a].code_len
    BY <2>1 DEF Moves
  <2>3. Pos'.pc = pc' /\ Pos'.c_ptr = c_ptr' /\ Pos'.begin = GetCurrentChunkBegin'
    BY DEF Pos
  <2>4. Pos.pc = pc /\ Pos.c_ptr = c_ptr /\ Pos.begin = GetCurrentChunkBegin
    BY DEF Pos
  <2>5. /\ Moved(Pos, words).pc = Pos.pc + words
        /\ Moved(Pos, words).c_ptr = Pos.c_ptr + 3 * words
        /\ Moved(Pos, words).begin = Pos.begin
    BY DEF Moved
  <2>6. /\ pc' = pc + words /\ c_ptr' = c_ptr + 3 * words
        /\ GetCurrentChunkBegin' = GetCurrentChunkBegin
    BY <2>2, <2>3, <2>4, <2>5
  <2>7. words = WordsOf(Before(s)) => Pos' = NextPos(Before(s))
    BY <1>2, <1>4, <2>2 DEF NextPos
  <2> QED BY <1>4, <2>1, <2>2, <2>6, <2>7
<1> QED BY <1>3, <1>4

LEMMA CountingKept ==
  ASSUME TypeInv, TypeInv', Counting, g_passNum = 0, status = "run", NEW s \in Stmts, NextLine(s),
         Lays1(s)
  PROVE  Counting'
<1>1. GetCurrentChunkBegin \in Int /\ pc \in Int /\ c_ptr \in Int
  BY ReadTypes DEF TypeInv, TypeOK
<1>2. in_section => 3 * (pc - GetCurrentChunkBegin) = c_ptr
  BY DEF Counting
<1>3. in_section' => 3 * (pc' - GetCurrentChunkBegin') = c_ptr'
  <2>1. CASE s.op # "org"
    <3>1. PICK words \in Int : /\ pc' = pc + words /\ c_ptr' = c_ptr + 3 * words
                               /\ GetCurrentChunkBegin' = GetCurrentChunkBegin
      BY <2>1, Laid1
    <3>2. in_section' = in_section
      BY <2>1, Laid1
    <3> QED BY <1>1, <1>2, <3>1, <3>2
  <2>2. CASE s.op = "org"
    <3>1. c_ptr' = 0 /\ pc' = GetCurrentChunkBegin'
      BY <2>2, Laid1
    <3>2. pc' \in Int
      BY DEF TypeInv, TypeOK
    <3>3. \A x \in Int : 3 * (x - x) = 0
      OBVIOUS
    <3>4. 3 * (pc' - pc') = 0
      BY <3>2, <3>3
    <3> QED BY <3>1, <3>4
  <2> QED BY <2>1, <2>2
<1> QED BY <1>3 DEF Counting

LEMMA AddedKept ==
  ASSUME TypeInv, Added, g_passNum = 0, NEW s \in Stmts, NextLine(s), Defines1(s)
  PROVE  Added'
<1>1. hist' = Append(hist, Before(s)) /\ g_passNum' = 0
  BY DEF NextLine, Before
<1>2. /\ Len(hist) \in Nat /\ Len(hist') = Len(hist) + 1
      /\ \A k \in 1 .. Len(hist) : hist'[k] = hist[k]
      /\ hist'[Len(hist) + 1] = Before(s)
  BY <1>1, Extends
<1>3. ASSUME NEW k \in 1 .. Len(hist')
      PROVE  /\ \A n \in Names : hist'[k].syms[n] # Undef => m_val'[n] # Undef
             /\ Labels(hist'[k].stmt) \/ hist'[k].stmt.op = "equ" => m_val'[hist'[k].stmt.name] # Undef
  <2>1. CASE k \in 1 .. Len(hist)
    <3>1. hist'[k] = hist[k] /\ hist[k] \in Line
      BY <1>2, <2>1 DEF TypeInv, TypeOK
    <3>2. /\ \A n \in Names : hist[k].syms[n] # Undef => m_val[n] # Undef
          /\ Labels(hist[k].stmt) \/ hist[k].stmt.op = "equ" => m_val[hist[k].stmt.name] # Undef
      BY <2>1 DEF Added
    <3>3. Labels(hist[k].stmt) \/ hist[k].stmt.op = "equ" => hist[k].stmt.name \in Names
      BY <3>1, StmtsAssumption DEF Line, Labels, Statement, EndStmt
    <3> QED BY <3>1, <3>2, <3>3 DEF Defines1
  <2>2. CASE k = Len(hist) + 1
    BY <1>2, <2>2, BeforeFields DEF Defines1
  <2> QED BY <1>2, <2>1, <2>2
<1>4. Added' <=> (g_passNum' = 0 =>
        \A k \in 1 .. Len(hist') :
          /\ \A n \in Names : hist'[k].syms[n] # Undef => m_val'[n] # Undef
          /\ Labels(hist'[k].stmt) \/ hist'[k].stmt.op = "equ" => m_val'[hist'[k].stmt.name] # Undef)
  BY DEF Added
<1> QED BY <1>3, <1>4

LEMMA PlacesKept ==
  ASSUME TypeInv, TypeInv', Recorded, PlacesIn, g_passNum = 0, status = "run",
         NEW s \in Stmts, NextLine(s), Lays1(s),
         ~errors', Plain(Before(s)), Good(Before(s))
  PROVE  PlacesIn'
<1>1. hist' = Append(hist, Before(s)) /\ g_passNum' = 0
  BY DEF NextLine, Before
<1>2. /\ Len(hist) \in Nat /\ Len(hist') = Len(hist) + 1
      /\ \A k \in 1 .. Len(hist) : hist'[k] = hist[k]
      /\ hist'[Len(hist) + 1] = Before(s)
  BY <1>1, Extends
<1>3. /\ c_ptr \in Int /\ num_chunks \in 0 .. MaxChunks - 1
      /\ chunks \in [0 .. MaxChunks - 1 -> Chunk] /\ GetCurrentChunkIndex = num_chunks
      /\ in_section \in BOOLEAN
  BY ReadTypes DEF TypeInv, TypeOK, GetCurrentChunkIndex
<1> DEFINE In(p)   == \/ p.chunk < num_chunks' /\ p.c_ptr <= chunks'[p.chunk].code_len
                      \/ p.chunk = num_chunks' /\ p.c_ptr <= c_ptr'
           Ends(h) == h.stmt.op \in {"org", "end"} => chunks'[h.pos.chunk].code_len = h.pos.c_ptr
           Left(h) == h.stmt.op = "org" => h.pos.chunk < num_chunks'
<1>4. ASSUME NEW h, h.pos.in_section, h.pos.c_ptr \in Int, h.pos.chunk \in 0 .. MaxChunks - 1,
             in_section,
             \/ h.pos.chunk < num_chunks /\ h.pos.c_ptr <= chunks[h.pos.chunk].code_len
             \/ h.pos.chunk = num_chunks /\ h.pos.c_ptr <= c_ptr
      PROVE  /\ In(h.pos) /\ in_section'
             /\ h.pos.chunk < num_chunks => chunks'[h.pos.chunk].code_len = chunks[h.pos.chunk].code_len
             /\ num_chunks <= num_chunks'
  <2>1. CASE s.op # "org"
    <3>1. PICK words \in Int : c_ptr' = c_ptr + 3 * words /\ words = WordsOf(Before(s))
      BY <2>1, Laid1
    <3>2. words \in Nat
      BY <3>1 DEF Good
    <3>3. /\ in_section' = in_section /\ num_chunks' = num_chunks
          /\ chunks'[h.pos.chunk].code_len = chunks[h.pos.chunk].code_len
      BY <1>4, <2>1, Laid1
    <3>4. c_ptr <= c_ptr'
      BY <1>3, <3>1, <3>2
    <3>5. c_ptr' \in Int
      BY <1>3, <3>1
    <3> QED BY <1>3, <1>4, <3>3, <3>4, <3>5
  <2>2. CASE s.op = "org"
    <3>1. /\ in_section' = TRUE /\ num_chunks' = num_chunks + 1
          /\ chunks'[h.pos.chunk].code_len =
               IF h.pos.chunk = num_chunks THEN c_ptr ELSE chunks[h.pos.chunk].code_len
      BY <1>4, <2>2, Laid1
    <3> QED BY <1>3, <1>4, <3>1
  <2> QED BY <2>1, <2>2
<1>5. ASSUME NEW k \in 1 .. Len(hist'), hist'[k].pos.in_section
      PROVE  in_section' /\ In(hist'[k].pos) /\ Ends(hist'[k]) /\ Left(hist'[k])
  <2>1. CASE k \in 1 .. Len(hist)
    <3> DEFINE h == hist[k]
    <3>1. hist'[k] = h /\ h \in Line
      BY <1>2, <2>1 DEF TypeInv, TypeOK
    <3>2. h.pos.c_ptr \in Int /\ h.pos.chunk \in 0 .. MaxChunks - 1 /\ h.pos.in_section
      BY <1>5, <2>1, <3>1 DEF Line, Place, Recorded
    <3>3. /\ in_section
          /\ \/ h.pos.chunk < num_chunks /\ h.pos.c_ptr <= chunks[h.pos.chunk].code_len
             \/ h.pos.chunk = num_chunks /\ h.pos.c_ptr <= c_ptr
          /\ h.stmt.op \in {"org", "end"} => chunks[h.pos.chunk].code_len = h.pos.c_ptr
          /\ h.stmt.op = "org" => h.pos.chunk < num_chunks
      BY <2>1, <3>2 DEF PlacesIn, InBlock, EndsBlock
    <3>4. h.stmt.op # "end"
      BY <2>1, StmtsAssumption DEF TypeInv, Shape
    <3>5. /\ In(h.pos) /\ in_section'
          /\ h.pos.chunk < num_chunks => chunks'[h.pos.chunk].code_len = chunks[h.pos.chunk].code_len
          /\ num_chunks <= num_chunks'
      BY <1>4, <3>2, <3>3
    <3>6. Ends(h)
      BY <3>3, <3>4, <3>5
    <3>7. num_chunks' \in Int
      BY DEF TypeInv, TypeOK
    <3>8. Left(h)
      BY <1>3, <3>2, <3>3, <3>5, <3>7
    <3> QED BY <3>1, <3>5, <3>6, <3>8
  <2>2. CASE k = Len(hist) + 1
    <3> DEFINE h == Before(s)
    <3>1. hist'[k] = h /\ h.stmt = s /\ h.pos = Pos
      BY <1>2, <2>2, BeforeFields
    <3>2. Pos.in_section = in_section /\ Pos.c_ptr = c_ptr /\ Pos.chunk = num_chunks
      BY <1>3 DEF Pos
    <3>3. in_section
      BY <1>5, <3>1, <3>2
    <3>4. In(h.pos) /\ in_section'
      BY <1>3, <1>4, <1>5, <3>1, <3>2, <3>3
    <3>5. s.op # "end"
      BY StmtsAssumption
    <3>6. s.op = "org" => num_chunks' = num_chunks + 1 /\ chunks'[num_chunks].code_len = c_ptr
      BY <1>3, <3>3, Laid1
    <3>7. Ends(h) /\ Left(h)
      BY <1>3, <3>1, <3>2, <3>5, <3>6
    <3> QED BY <3>1, <3>4, <3>7
  <2> QED BY <1>2, <2>1, <2>2
<1>6. PlacesIn' <=> \A k \in 1 .. Len(hist') :
        /\ hist'[k].pos.in_section =>
             /\ in_section'
             /\ \/ hist'[k].pos.in_section => /\ hist'[k].pos.chunk < num_chunks'
                                              /\ hist'[k].pos.c_ptr <= chunks'[hist'[k].pos.chunk].code_len
                \/ hist'[k].pos.chunk = num_chunks' /\ hist'[k].pos.c_ptr <= c_ptr'
        /\ hist'[k].pos.in_section /\ hist'[k].stmt.op \in {"org", "end"} =>
             chunks'[hist'[k].pos.chunk].code_len = hist'[k].pos.c_ptr
        /\ hist'[k].pos.in_section /\ hist'[k].stmt.op = "org" => hist'[k].pos.chunk < num_chunks'
  BY DEF PlacesIn, InBlock, EndsBlock
<1> QED BY <1>5, <1>6

\* A line behind which everything is clean is good, and nothing was wrong above.
LEMMA CleanLine ==
  ASSUME TypeInv, g_passNum = 0, NEW s \in Stmts, Step1(s), Clean'
  PROVE  /\ Clean /\ ~errors' /\ Plain(Before(s)) /\ Good(Before(s))
         /\ s.op = "set" => ~Fixed(s.name)
<1>1. hist' = Append(hist, Before(s)) /\ g_passNum' = 0
  BY DEF Step1, NextLine, Before
<1>2. /\ Len(hist) \in Nat /\ Len(hist') = Len(hist) + 1
      /\ \A k \in 1 .. Len(hist) : hist'[k] = hist[k]
      /\ hist'[Len(hist) + 1] = Before(s)
      /\ Regular' => Regular /\ \A k \in 1 .. Len(hist) + 1 : RegularLine(k)'
  BY <1>1, Extends
<1>3. Regular' /\ ~errors' /\ ~errors
  BY <1>1 DEF Clean, Step1
<1>4. Clean
  BY <1>2, <1>3 DEF Clean
<1>5. PICK k \in 1 .. Len(hist) + 1 : k = Len(hist) + 1
  BY <1>2
<1>6. RegularLine(k)' /\ hist'[k] = Before(s)
  BY <1>2, <1>3, <1>5
<1>7. Plain(Before(s))
  BY <1>6 DEF RegularLine, Plain
<1>8. s.op = "set" => ~Fixed(s.name)
  <2>1. Before(s).stmt = s
    BY BeforeFields
  <2>2. s.op = "set" => \E j \in 1 .. k - 1 : hist'[j].stmt.op = "equ" /\ hist'[j].stmt.name = s.name
    BY <1>6, <2>1 DEF RegularLine
  <2>3. \A j \in 1 .. k - 1 : j \in 1 .. Len(hist) /\ hist'[j] = hist[j]
    BY <1>2, <1>5
  <2> QED BY <2>2, <2>3 DEF Fixed
<1> QED BY <1>3, <1>4, <1>7, <1>8 DEF Step1

LEMMA FirstPassKept ==
  ASSUME IInv, TypeInv', g_passNum = 0, status = "run", NEW s \in Stmts, Step1(s), Clean'
  PROVE  FirstPass'
<1>1. hist' = Append(hist, Before(s)) /\ g_passNum' = 0
  BY DEF Step1, NextLine, Before
<1>2. /\ Len(hist) \in Nat /\ Len(hist') = Len(hist) + 1
      /\ \A k \in 1 .. Len(hist) : hist'[k] = hist[k]
      /\ hist'[Len(hist) + 1] = Before(s)
      /\ \A n : Fixed(n)' <=> Fixed(n) /\ ~(Before(s).stmt.op = "equ" /\ Before(s).stmt.name = n)
  BY <1>1, Extends DEF IInv
<1>3. /\ Clean /\ ~errors' /\ Plain(Before(s)) /\ Good(Before(s))
      /\ s.op = "set" => ~Fixed(s.name)
  BY CleanLine DEF IInv
<1>4. FirstPass /\ TypeInv /\ Recorded
  BY <1>3, FirstPassHolds
<1>5. Pos' = NextPos(Before(s)) /\ m_val' = NextSyms(Before(s))
  BY <1>3, <1>4, Laid1, BeforeFields DEF Step1, Defines1, Lays1
<1>6. Before(s).stmt = s /\ Before(s).syms = m_val
  BY BeforeFields
<1>7. ASSUME NEW n \in Names, Fixed(n)', m_val[n] # Undef
      PROVE  m_val'[n] = m_val[n]
  <2>1. Fixed(n) /\ ~(s.op = "equ" /\ s.name = n) /\ ~(s.op = "set" /\ s.name = n)
    BY <1>2, <1>3, <1>6, <1>7
  <2>2. ~(Labels(s) /\ s.name = n)
    BY <1>3, <1>6, <1>7 DEF Good
  <2>3. m_val \in [Names -> Value]
    BY <1>4 DEF TypeInv, TypeOK
  <2> QED BY <1>5, <1>6, <2>1, <2>2, <2>3 DEF NextSyms
<1>8. ASSUME NEW n \in Names, Fixed(n)', NEW k \in 1 .. Len(hist'), hist'[k].syms[n] # Undef
      PROVE  m_val'[n] = hist'[k].syms[n]
  <2>1. CASE k \in 1 .. Len(hist)
    <3>1. hist'[k] = hist[k] /\ Fixed(n)
      BY <1>2, <1>8, <2>1
    <3>2. m_val[n] = hist[k].syms[n]
      BY <1>4, <1>8, <2>1, <3>1 DEF FirstPass
    <3> QED BY <1>7, <1>8, <3>1, <3>2
  <2>2. CASE k = Len(hist) + 1
    BY <1>2, <1>6, <1>7, <1>8, <2>2
  <2> QED BY <1>2, <2>1, <2>2
<1>9. PlacesIn'
  <2>1. PlacesIn
    BY <1>4 DEF FirstPass
  <2> QED BY <1>3, <1>4, <2>1, PlacesKept DEF Step1
<1>10. refs' = {} /\ \A n \in Names : placed'[n] = Undef
  BY <1>4 DEF FirstPass, Step1, history
<1>11. hist'[Len(hist')] = Before(s) /\ Len(hist') # 0
  BY <1>2
<1>12. FirstPass' <=>
         /\ IF Len(hist') = 0
            THEN pc' = 0 /\ ~in_section' /\ num_chunks' = 0
            ELSE /\ Good(hist'[Len(hist')])
                 /\ Pos' = NextPos(hist'[Len(hist')]) /\ m_val' = NextSyms(hist'[Len(hist')])
         /\ \A n \in Names : Fixed(n)' =>
              \A k \in 1 .. Len(hist') : hist'[k].syms[n] # Undef => m_val'[n] = hist'[k].syms[n]
         /\ PlacesIn'
         /\ refs' = {} /\ \A n \in Names : placed'[n] = Undef
  BY DEF FirstPass
<1> QED BY <1>3, <1>5, <1>8, <1>9, <1>10, <1>11, <1>12

LEMMA Step1Kept ==
  ASSUME IInv, TypeInv', g_passNum = 0, NEW s \in Stmts, Reading(s), Step1(s)
  PROVE  IInv'
<1>1. /\ status = "run" /\ status' = "run" /\ g_passNum' = 0
      /\ hist' = Append(hist, Before(s)) /\ NextLine(s)
  BY DEF Reading, Step1, NextLine, Before
<1>2. TypeInv /\ Added /\ Counting
  BY DEF IInv
<1>3. /\ Before(s).stmt = s /\ Before(s).pos = Pos /\ Before(s).syms = m_val
      /\ Before(s).val = ValueAt(Before(s))
  BY <1>1, <1>2, BeforeFields, BeforeReads
<1>4. s.op = "equ" => s.name \in Names /\ m_val[s.name] = Undef
  BY StmtsAssumption DEF Step1, Defines1, Statement
<1>5. Recorded'
  BY <1>1, <1>3, <1>4, RecordKept
<1>6. Added'
  BY <1>1, <1>2, AddedKept DEF Step1
<1>7. Counting'
  BY <1>1, <1>2, CountingKept DEF Step1
<1>8. Agreeing'
  <2> SUFFICES ASSUME Clean' PROVE Linked' /\ Steady' /\ FirstPass'
    BY <1>1 DEF Agreeing
  <2>1. Clean /\ Good(Before(s))
    BY <1>2, CleanLine
  <2>2. Labels(s) \/ s.op = "equ" => s.name \in Names /\ m_val[s.name] = Undef
    BY <1>3, <1>4, <2>1, StmtsAssumption DEF Good, Labels, Statement
  <2>3. Linked'
    BY <1>1, <1>3, <2>1, LinkedKept
  <2>4. Steady'
    BY <1>1, <1>3, <2>1, <2>2, SteadyKept
  <2>5. FirstPass'
    BY <1>1, FirstPassKept
  <2> QED BY <2>3, <2>4, <2>5
<1>9. Accepting'
  BY <1>1 DEF Accepting
<1> QED BY <1>5, <1>6, <1>7, <1>8, <1>9 DEF IInv

\* An assembly that ends early has nothing more to agree on, unless it is
\* pass 2 of a clean program.
LEMMA DiesKept ==
  ASSUME IInv, TypeInv', NEW how \in {"rejected", "aborted", "crashed", "wild"}, Dies(how),
         g_passNum = 0 \/ ~Clean
  PROVE  IInv'
<1>1. /\ status' = how /\ g_passNum' = g_passNum /\ hist' = hist /\ m_val' = m_val
      /\ errors => errors'
  BY DEF Dies, symbols
<1>2. status' # "run" /\ status' # "accepted"
  BY <1>1
<1>3. Recorded'
  BY <1>1 DEF IInv, Recorded
<1>4. Added'
  BY <1>1 DEF IInv, Added
<1>5. Counting' /\ Accepting'
  BY <1>2 DEF Counting, Accepting
<1>6. Clean' => Clean
  <2>1. Regular' <=> Regular
    BY <1>1 DEF Regular, RegularLine
  <2> QED BY <1>1, <2>1 DEF Clean
<1>7. Agreeing'
  <2> SUFFICES ASSUME Clean' PROVE Linked' /\ Steady' /\ g_passNum' = 0
    BY <1>2 DEF Agreeing
  <2>1. Clean /\ g_passNum = 0 /\ Linked /\ Steady
    BY <1>6 DEF IInv, Agreeing
  <2>2. Linked'
    BY <1>1, <2>1 DEF Linked
  <2>3. Steady'
    BY <1>1, <2>1 DEF Steady, Fixed
  <2> QED BY <1>1, <2>1, <2>2, <2>3
<1> QED BY <1>3, <1>4, <1>5, <1>7 DEF IInv

\* The end of pass 1 leaves the blocks as pass 2 needs them.
LEMMA BlocksLeft ==
  ASSUME TypeInv, Recorded, PlacesIn, g_passNum = 0, status = "run",
         NEW b, hist' = Append(hist, b), b.pos = Pos,
         chunks' = ClosedV, num_chunks' = NextChunk
  PROVE  Blocks2'
<1>1. /\ Len(hist) \in Nat /\ Len(hist') = Len(hist) + 1
      /\ \A k \in 1 .. Len(hist) : hist'[k] = hist[k]
      /\ hist'[Len(hist) + 1] = b
  BY Extends
<1>2. /\ c_ptr \in Int /\ num_chunks \in 0 .. MaxChunks - 1
      /\ chunks \in [0 .. MaxChunks - 1 -> Chunk] /\ GetCurrentChunkIndex = num_chunks
      /\ in_section \in BOOLEAN
  BY ReadTypes DEF TypeInv, TypeOK, GetCurrentChunkIndex
<1>3. \A a \in 0 .. MaxChunks - 1 :
        chunks'[a].code_len = IF in_section /\ a = num_chunks THEN c_ptr ELSE chunks[a].code_len
  <2>1. CASE in_section
    BY <1>2, <2>1 DEF ClosedV, Chunk
  <2>2. CASE ~in_section
    BY <1>2, <2>2 DEF ClosedV
  <2> QED BY <2>1, <2>2
<1>4. num_chunks' = IF in_section THEN num_chunks + 1 ELSE num_chunks
  BY <1>2 DEF NextChunk
<1>5. Pos.in_section = in_section /\ Pos.c_ptr = c_ptr /\ Pos.chunk = num_chunks
  BY <1>2 DEF Pos
<1>6. ASSUME NEW k \in 1 .. Len(hist'), hist'[k].pos.in_section
      PROVE  /\ hist'[k].pos.chunk < num_chunks'
             /\ hist'[k].pos.c_ptr <= chunks'[hist'[k].pos.chunk].code_len
             /\ hist'[k].stmt.op \in {"org", "end"} =>
                  chunks'[hist'[k].pos.chunk].code_len = hist'[k].pos.c_ptr
  <2>1. CASE k \in 1 .. Len(hist)
    <3> DEFINE h == hist[k]
    <3>1. hist'[k] = h /\ h \in Line
      BY <1>1, <2>1 DEF TypeInv, TypeOK
    <3>2. h.pos.c_ptr \in Int /\ h.pos.chunk \in 0 .. MaxChunks - 1 /\ h.pos.in_section
      BY <1>6, <2>1, <3>1 DEF Line, Place, Recorded
    <3>3. /\ in_section
          /\ \/ h.pos.chunk < num_chunks /\ h.pos.c_ptr <= chunks[h.pos.chunk].code_len
             \/ h.pos.chunk = num_chunks /\ h.pos.c_ptr <= c_ptr
          /\ h.stmt.op \in {"org", "end"} => chunks[h.pos.chunk].code_len = h.pos.c_ptr
          /\ h.stmt.op = "org" => h.pos.chunk < num_chunks
      BY <2>1, <3>2 DEF PlacesIn, InBlock, EndsBlock
    <3>4. h.stmt.op # "end"
      BY <2>1, StmtsAssumption DEF TypeInv, Shape
    <3>5. chunks'[h.pos.chunk].code_len =
            IF h.pos.chunk = num_chunks THEN c_ptr ELSE chunks[h.pos.chunk].code_len
      BY <1>3, <3>2, <3>3
    <3> HIDE DEF h
    <3>6. h.pos.chunk < num_chunks' /\ h.pos.c_ptr <= chunks'[h.pos.chunk].code_len
      BY <1>2, <1>4, <3>2, <3>3, <3>5
    <3>7. h.stmt.op \in {"org", "end"} => chunks'[h.pos.chunk].code_len = h.pos.c_ptr
      BY <1>2, <3>2, <3>3, <3>4, <3>5
    <3> QED BY <3>1, <3>6, <3>7
  <2>2. CASE k = Len(hist) + 1
    <3>1. hist'[k].pos = Pos
      BY <1>1, <2>2
    <3> QED BY <1>2, <1>3, <1>4, <1>5, <1>6, <3>1
  <2> QED BY <1>1, <2>1, <2>2
<1>7. hist'[Len(hist')] = b
  BY <1>1
<1>8. Blocks2' <=>
        /\ num_chunks' = IF hist'[Len(hist')].pos.in_section THEN hist'[Len(hist')].pos.chunk + 1
                                                              ELSE hist'[Len(hist')].pos.chunk
        /\ \A k \in 1 .. Len(hist') :
             /\ hist'[k].pos.in_section => /\ hist'[k].pos.chunk < num_chunks'
                                           /\ hist'[k].pos.c_ptr <= chunks'[hist'[k].pos.chunk].code_len
             /\ hist'[k].pos.in_section /\ hist'[k].stmt.op \in {"org", "end"} =>
                  chunks'[hist'[k].pos.chunk].code_len = hist'[k].pos.c_ptr
  BY DEF Blocks2, Last, InBlock, EndsBlock
<1> QED BY <1>4, <1>5, <1>6, <1>7, <1>8

LEMMA EndPass1Kept ==
  ASSUME IInv, TypeInv', EndPass1
  PROVE  IInv'
<1>0. status = "run" /\ g_passNum = 0
  BY DEF EndPass1
<1>1. CASE errors
  BY <1>0, <1>1, DiesKept DEF EndPass1
<1>2. CASE ~errors
  <2> DEFINE b == [stmt |-> EndStmt, val |-> 0, pos |-> Pos, syms |-> m_val]
  <2>1. /\ chunks' = ClosedV /\ num_chunks' = NextChunk /\ in_section' = FALSE
        /\ g_passNum' = 1 /\ pc' = 0 /\ line' = 1 /\ hist' = Append(hist, b)
        /\ UNCHANGED <<c_ptr, num_chunks2, symbols, errors, status, history>>
    BY <1>2 DEF EndPass1
  <2>2. b.pos = Pos /\ b.syms = m_val /\ b.stmt = EndStmt /\ b.val = 0
    OBVIOUS
  <2>3. EndStmt.op = "end" /\ EndStmt.arg = 0
    BY DEF EndStmt
  <2> HIDE DEF b
  <2>4. b.val = ValueAt(b)
    BY <2>2, <2>3, NamesAssumption DEF ValueAt
  <2>5. Recorded'
    BY <1>0, <2>1, <2>2, <2>3, <2>4, RecordKept
  <2>6. Added' /\ Counting' /\ Accepting'
    BY <2>1 DEF Added, Counting, Accepting
  <2>7. /\ Len(hist) \in Nat /\ Len(hist') = Len(hist) + 1
        /\ \A k \in 1 .. Len(hist) : hist'[k] = hist[k]
        /\ hist'[Len(hist) + 1] = b
        /\ Regular' => Regular
        /\ \A n : Fixed(n)' <=> Fixed(n) /\ ~(b.stmt.op = "equ" /\ b.stmt.name = n)
    BY <2>1, Extends DEF IInv
  <2>8. Agreeing'
    <3> SUFFICES ASSUME Clean' PROVE Linked' /\ Steady' /\ SecondPass'
      BY <2>1 DEF Agreeing
    <3>1. Clean
      BY <1>2, <2>7 DEF Clean
    <3>2. FirstPass /\ Recorded /\ TypeInv
      BY <1>0, <3>1, FirstPassHolds
    <3>3. Linked'
      BY <1>0, <2>1, <2>2, <3>1, LinkedKept
    <3>4. Steady'
      BY <1>0, <2>1, <2>2, <2>3, <3>1, SteadyKept DEF Labels
    <3>5. Blocks2'
      BY <1>0, <2>1, <2>2, <3>2, BlocksLeft DEF FirstPass
    <3>6. hist'[Len(hist')] = b /\ Last' = b
      BY <2>7 DEF Last
    <3>7. m_val' = m_val /\ num_chunks2' = 0 /\ refs' = {} /\ \A n \in Names : placed'[n] = Undef
      BY <1>0, <2>1, <3>2 DEF symbols, history, FirstPass, TypeInv, Shape
    <3>8. SamePlace(1)'
      <4>1. hist'[1].pos.pc = 0 /\ ~hist'[1].pos.in_section /\ hist'[1].pos.chunk = 0
        BY <2>7, <3>3 DEF Linked
      <4>2. hist'[1].pos.in_section \in BOOLEAN
        <5>1. hist' \in Seq(Line) /\ 1 \in 1 .. Len(hist')
          BY <2>7 DEF TypeInv, TypeOK
        <5>2. hist'[1] \in Line
          BY <5>1
        <5> QED BY <5>2 DEF Line, Place
      <4>3. GetCurrentChunkIndex' = 0
        BY <2>1, <3>7 DEF GetCurrentChunkIndex
      <4> QED BY <2>1, <4>1, <4>2, <4>3 DEF SamePlace
    <3>9. \A n \in Names : Fixed(n)' => m_val'[n] = hist'[Len(hist')].syms[n]
      BY <2>2, <3>6, <3>7
    <3>10. ASSUME NEW n \in Names, hist'[1].syms[n] # Undef
           PROVE  m_val'[n] = hist'[1].syms[n]
      <4>1. CASE Fixed(n)'
        <5>1. \A k \in 1 .. Len(hist') : \A j \in 1 .. k :
                hist'[j].syms[n] # Undef => hist'[k].syms[n] = hist'[j].syms[n]
          BY <3>4, <4>1 DEF Steady
        <5>2. Len(hist') \in 1 .. Len(hist') /\ 1 \in 1 .. Len(hist')
          BY <2>7
        <5>3. hist'[Len(hist')].syms[n] = hist'[1].syms[n]
          BY <3>10, <5>1, <5>2
        <5> QED BY <3>9, <4>1, <5>3
      <4>2. CASE ~Fixed(n)'
        <5>1. PICK k \in 1 .. Len(hist') : hist'[k].stmt.op = "equ" /\ hist'[k].stmt.name = n
          BY <4>2 DEF Fixed
        <5>2. 1 \in 1 .. k
          BY <2>7, <5>1
        <5> QED BY <2>5, <3>10, <5>1, <5>2 DEF Recorded
      <4> QED BY <4>1, <4>2
    <3>11. SameSymbols(1)'
      BY <3>10 DEF SameSymbols
    <3>12. Followed'
      <4>1. \A a \in 0 .. num_chunks2' - 1 : chunks'[a].code_len = chunks'[a].code_len2
        BY <3>7
      <4>2. SamePlace(line)' /\ SameSymbols(line)'
        BY <2>1, <3>8, <3>11 DEF SamePlace, SameSymbols
      <4> QED BY <3>9, <4>1, <4>2 DEF Followed, Last
    <3>13. Referred'
      BY <3>7 DEF Referred
    <3>14. status' = "run"
      BY <1>0, <2>1
    <3> QED BY <3>3, <3>4, <3>5, <3>12, <3>13, <3>14 DEF SecondPass
  <2> QED BY <2>5, <2>6, <2>8 DEF IInv
<1> QED BY <1>1, <1>2

----------------------------------------------------------------------------
(* What a line does in pass 2, when the program is regular.                *)

\* Pass 2 is about to read s where pass 1 recorded it.
Following(s) ==
  LET h == hist[line] IN
  /\ line \in 1 .. Len(hist) - 1
  /\ h \in Line /\ h.stmt = s /\ Good(h)
  /\ SamePlace(line) /\ SameSymbols(line)
  /\ hist[line + 1].pos = NextPos(h) /\ hist[line + 1].syms = NextSyms(h)
  /\ h.val # Undef => Exp(s.arg) = h.val
  /\ in_section => 3 * (pc - GetCurrentChunkBegin) = c_ptr
  /\ InBlock(line + 1) /\ EndsBlock(line)
  /\ hist[line + 1].pos.chunk \in 0 .. MaxChunks - 1
  /\ GetCurrentChunkIndex = num_chunks2

LEMMA FollowingHolds ==
  ASSUME IInv, g_passNum = 1, status = "run", Clean, NEW s \in Stmts, Reading(s)
  PROVE  Following(s)
<1>1. TypeInv /\ Recorded /\ Linked /\ Steady /\ SecondPass /\ Followed /\ Blocks2
  BY DEF IInv, Agreeing, SecondPass
<1> DEFINE h == hist[line]
<1>2. h.stmt = s /\ line \in 1 .. Len(hist) /\ Len(hist) \in Nat
  BY <1>1 DEF Reading, TypeInv, TypeOK, Shape
<1>3. line # Len(hist)
  BY <1>1, <1>2, StmtsAssumption DEF TypeInv, Shape, EndStmt
<1>4. line \in 1 .. Len(hist) - 1 /\ line + 1 \in 1 .. Len(hist)
  BY <1>2, <1>3
<1>5. h \in Line
  BY <1>1, <1>2 DEF TypeInv, TypeOK
<1>6. Good(h) /\ hist[line + 1].pos = NextPos(h) /\ hist[line + 1].syms = NextSyms(h)
  BY <1>1, <1>4 DEF Linked
<1>7. SamePlace(line) /\ SameSymbols(line)
  BY <1>1 DEF Followed
<1>8. ASSUME h.val # Undef PROVE Exp(s.arg) = h.val
  <2>1. h.val = ValueAt(h)
    BY <1>1, <1>2 DEF Recorded
  <2>2. CASE s.arg = Star
    BY <1>2, <1>7, <2>1, <2>2 DEF ValueAt, Exp, SamePlace
  <2>3. CASE s.arg # Star /\ s.arg \in Names
    <3>1. h.val = h.syms[s.arg] /\ Exp(s.arg) = m_val[s.arg]
      BY <1>2, <2>1, <2>3 DEF ValueAt, Exp
    <3> QED BY <1>7, <1>8, <2>3, <3>1 DEF SameSymbols
  <2>4. CASE s.arg # Star /\ s.arg \notin Names
    BY <1>2, <2>1, <2>4 DEF ValueAt, Exp
  <2> QED BY <2>2, <2>3, <2>4
<1>9. in_section => 3 * (pc - GetCurrentChunkBegin) = c_ptr
  BY <1>1, <1>2, <1>7 DEF Recorded, SamePlace
<1>10. InBlock(line + 1) /\ EndsBlock(line)
  BY <1>1, <1>2, <1>4 DEF Blocks2
<1>11. hist[line + 1].pos.chunk \in 0 .. MaxChunks - 1
  BY <1>1, <1>4 DEF Recorded
<1>12. GetCurrentChunkIndex = num_chunks2
  BY DEF GetCurrentChunkIndex
<1> QED BY <1>2, <1>4, <1>5, <1>6, <1>7, <1>8, <1>9, <1>10, <1>11, <1>12 DEF Following

\* What a line stores in pass 2 fits the block.
LEMMA FitsBlock ==
  ASSUME TypeInv, g_passNum = 1, status = "run", NEW s \in Stmts, Following(s),
         s.op \in {"code", "dc", "str", "ds", "align", "dsm"}
  PROVE  in_section /\ WordsOf(hist[line]) \in Nat /\ Fits(3 * WordsOf(hist[line]))
<1> DEFINE h == hist[line]
           n == hist[line + 1].pos
<1>1. /\ h.stmt = s /\ Good(h) /\ SamePlace(line) /\ n = NextPos(h) /\ InBlock(line + 1)
      /\ GetCurrentChunkIndex = num_chunks2
  BY DEF Following
<1>2. h.pos.in_section /\ in_section /\ WordsOf(h) \in Nat
  BY <1>1 DEF Good, SamePlace
<1>3. n = Moved(h.pos, WordsOf(h))
  BY <1>1 DEF NextPos
<1>4. n.in_section = h.pos.in_section /\ n.chunk = h.pos.chunk /\ n.c_ptr = h.pos.c_ptr + 3 * WordsOf(h)
  BY <1>3 DEF Moved
<1>5. h.pos.chunk = num_chunks2 /\ h.pos.c_ptr = c_ptr
  BY <1>1, <1>2 DEF SamePlace
<1>6. n.c_ptr <= chunks[n.chunk].code_len
  BY <1>1, <1>2, <1>4 DEF InBlock
<1> HIDE DEF h, n
<1>7. c_ptr + 3 * WordsOf(h) <= chunks[num_chunks2].code_len
  BY <1>4, <1>5, <1>6
<1>8. Fits(3 * WordsOf(h))
  BY <1>2, <1>7 DEF Fits
<1> QED BY <1>2, <1>8 DEF h

\* The layout.
Lays2(s) ==
  \/ s.op = "org" /\ num_chunks2' = NextChunk /\ Opens(s, Closed, hist[line].val)
  \/ s.op # "org" /\ Moves(WordsOf(hist[line]))

\* The symbols: an EQU or SET sets its own, a label has its value already.
Defines2(s) ==
  LET h == hist[line] IN
  IF s.op \in {"equ", "set"} THEN m_val' = [m_val EXCEPT ![s.name] = h.val]
  ELSE m_val' = m_val \/ (Labels(s) /\ m_val' = [m_val EXCEPT ![s.name] = LabelAt(h)])

\* The output: a reference as the symbol is now, a label where the image is.
Outputs2(s) ==
  LET h == hist[line] IN
  /\ refs' = refs \/ (s.arg \in Names /\ refs' = refs \cup {<<s.arg, m_val[s.arg]>>})
  /\ \/ placed' = placed
     \/ /\ Labels(s)
        /\ \E a \in Int : /\ placed' = [placed EXCEPT ![s.name] = a]
                          /\ a = LabelAt(h) \/ (s.op = "dsm" /\ h.pos.mem = L_MEM)

Step2(s) ==
  /\ NextLine(s)
  /\ num_chunks' = num_chunks
  /\ Lays2(s)
  /\ Defines2(s)
  /\ Outputs2(s)

LEMMA InsertCode2 ==
  ASSUME TypeInv, g_passNum = 1, NEW s \in Stmts, Reading(s), Following(s), s.op \in {"code", "dc"},
         NEW words \in Nat, NEW isCode \in BOOLEAN, InsertCode(s, words, isCode),
         words = WordsOf(hist[line])
  PROVE  Step2(s)
<1>1. in_section /\ Fits(3 * words)
  BY FitsBlock DEF Reading
<1>2. NextLine(s) /\ Store(words, 3 * words, TRUE) /\ Refer(s.arg) /\ UNCHANGED <<symbols, placed>>
  BY <1>1 DEF InsertCode
<1>3. words \in Int /\ status = "run" /\ g_passNum' = g_passNum
  BY <1>2 DEF Reading, NextLine
<1>4. Moves(words)
  BY <1>2, <1>3, StoreMoves
<1>5. Lays2(s)
  BY <1>4 DEF Lays2
<1>6. Defines2(s)
  BY <1>2 DEF Defines2, symbols
<1>7. Outputs2(s)
  BY <1>2 DEF Outputs2, Refer
<1> QED BY <1>2, <1>5, <1>6, <1>7 DEF Step2, Store

LEMMA Code2 ==
  ASSUME TypeInv, g_passNum = 1, NEW s \in Stmts, Following(s), Code(s)
  PROVE  Step2(s)
<1>0. (IF g_passNum = 0 THEN s.n1 ELSE s.n2) = s.n2
  OBVIOUS
<1>1. s.n2 \in Nat /\ s.op = "code" /\ Reading(s)
  BY StmtsAssumption DEF Statement, Code
<1>3. InsertCode(s, s.n2, TRUE)
  BY <1>0, Zenon DEF Code
<1>2. WordsOf(hist[line]) = s.n2
  BY <1>1 DEF WordsOf, Following, Good
<1> QED BY <1>1, <1>2, <1>3, InsertCode2

LEMMA GenDc2 ==
  ASSUME TypeInv, g_passNum = 1, NEW s \in Stmts, Following(s), GenDc(s)
  PROVE  Step2(s)
<1>1. s.op = "dc" /\ Reading(s) /\ InsertCode(s, Width, FALSE) /\ status = "run"
  BY DEF GenDc, Reading
<1>2. Width \in {1, 2}
  BY <1>1, ReadTypes
<1>3. in_section /\ SamePlace(line) /\ hist[line].stmt = s
  BY <1>1, FitsBlock DEF Following
<1>4. Width = WidthAt(hist[line].pos)
  BY <1>1, <1>3, PlaceReads
<1>5. WordsOf(hist[line]) = Width /\ Width \in Nat
  BY <1>1, <1>2, <1>3, <1>4 DEF WordsOf
<1> QED BY <1>1, <1>5, InsertCode2

LEMMA StoreLine2 ==
  ASSUME TypeInv, g_passNum = 1, NEW s \in Stmts, Reading(s), NextLine(s),
         s.op \in {"str", "ds", "align"},
         NEW words \in Int, NEW data \in BOOLEAN, Store(words, 3 * words, data),
         UNCHANGED <<symbols, errors, history>>, words = WordsOf(hist[line])
  PROVE  Step2(s)
<1>1. status = "run" /\ g_passNum' = g_passNum
  BY DEF Reading, NextLine
<1>2. Moves(words)
  BY <1>1, StoreMoves
<1>3. Lays2(s)
  BY <1>2 DEF Lays2
<1>4. Defines2(s) /\ Outputs2(s)
  BY DEF Defines2, Outputs2, symbols, history
<1> QED BY <1>3, <1>4 DEF Step2, Store

LEMMA InsertString2 ==
  ASSUME TypeInv, g_passNum = 1, NEW s \in Stmts, Following(s), InsertString(s)
  PROVE  Step2(s)
<1> DEFINE words == StringWords(s.n1)
<1>1. s.n1 \in Nat /\ s.op = "str" /\ Reading(s) /\ status = "run"
  BY StmtsAssumption DEF Statement, InsertString, Reading
<1>2. hist[line].stmt = s /\ s.n1 > 0
  BY <1>1 DEF Following, Good
<1>3. words \in Nat /\ StringBytes(1, s.n1) = 3 * words
  BY <1>1, <1>2, StringBytesSame
<1>4. WordsOf(hist[line]) = words
  BY <1>1, <1>2 DEF WordsOf
<1>5. Fits(StringBytes(1, s.n1))
  BY <1>1, <1>3, <1>4, FitsBlock
<1>6. /\ NextLine(s) /\ Store(words, StringBytes(1, s.n1), TRUE)
      /\ UNCHANGED <<symbols, errors, history>>
  BY <1>5 DEF InsertString
<1> HIDE DEF words
<1>7. words \in Int /\ Store(words, 3 * words, TRUE)
  BY <1>3, <1>6 DEF Store
<1> QED BY <1>1, <1>4, <1>6, <1>7, StoreLine2

LEMMA GenDS2 ==
  ASSUME TypeInv, g_passNum = 1, NEW s \in Stmts, Following(s), GenDS(s)
  PROVE  Step2(s)
<1> DEFINE val   == Exp(s.arg)
           words == val * Width
<1>1. s.op = "ds" /\ Reading(s) /\ status = "run"
  BY DEF GenDS, Reading
<1>2. in_section /\ SamePlace(line) /\ WordsOf(hist[line]) \in Nat /\ Fits(3 * WordsOf(hist[line]))
  BY <1>1, FitsBlock DEF Following
<1>3. hist[line].stmt = s /\ val = hist[line].val /\ val \in Int /\ val # Undef
  BY <1>1, NamesAssumption DEF Following, Good
<1>4. WordsOf(hist[line]) = words /\ words \in Nat
  BY <1>1, <1>2, <1>3, PlaceReads DEF WordsOf
<1>5. Zeros(3 * words) = 3 * words
  BY <1>4 DEF Zeros
<1>6. NextLine(s) /\ Store(words, 3 * words, FALSE) /\ UNCHANGED <<symbols, errors, history>>
  BY <1>2, <1>3, <1>4, <1>5 DEF GenDS
<1> HIDE DEF words
<1>7. words \in Int
  BY <1>4
<1> QED BY <1>1, <1>4, <1>6, <1>7, StoreLine2

LEMMA GenAlign2 ==
  ASSUME TypeInv, g_passNum = 1, NEW s \in Stmts, Following(s), GenAlign(s)
  PROVE  Step2(s)
<1> DEFINE val   == Exp(s.arg)
           words == Padding(val)
<1>1. s.op = "align" /\ Reading(s) /\ status = "run"
  BY DEF GenAlign, Reading
<1>2. in_section /\ SamePlace(line) /\ WordsOf(hist[line]) \in Nat /\ Fits(3 * WordsOf(hist[line]))
  BY <1>1, FitsBlock DEF Following
<1>3. hist[line].stmt = s /\ val = hist[line].val /\ val \in Int /\ val \notin {Undef, 0}
  BY <1>1, NamesAssumption DEF Following, Good
<1>4. WordsOf(hist[line]) = words /\ words \in Nat
  BY <1>1, <1>2, <1>3, PlaceReads DEF WordsOf
<1>5. NextLine(s) /\ Store(words, 3 * words, FALSE) /\ UNCHANGED <<symbols, errors, history>>
  BY <1>2, <1>3, <1>4 DEF GenAlign
<1> HIDE DEF words
<1>6. words \in Int
  BY <1>4
<1> QED BY <1>1, <1>4, <1>5, <1>6, StoreLine2

\* A label of pass 2 stands where the image has it.
LEMMA PlaceOfLabel ==
  ASSUME TypeInv, status = "run", in_section, 3 * (pc - GetCurrentChunkBegin) = c_ptr
  PROVE  /\ ImageAddress(c_ptr) = LabelAddress
         /\ Width = 1 => \A skip \in Nat : ImageAddress(c_ptr + 3 * skip) = pc + skip
<1> DEFINE x == pc - GetCurrentChunkBegin
<1>1. /\ pc \in Int /\ c_ptr \in Int /\ GetCurrentChunkBegin \in Int /\ x \in Int
  BY ReadTypes DEF TypeInv, TypeOK
<1>2. c_ptr = 3 * x /\ pc = GetCurrentChunkBegin + x
  BY <1>1
<1> HIDE DEF x
<1>3. CASE GetCurrentMemType = L_MEM
  <2>1. Width = 2 /\ 3 * Width = 6
    BY <1>3 DEF Width
  <2>2. (3 * x) \div 6 = x \div 2
    BY <1>1
  <2>3. LabelAddress = GetCurrentChunkBegin + (x \div 2)
    BY <1>3 DEF LabelAddress, x
  <2> QED BY <1>2, <2>1, <2>2, <2>3 DEF ImageAddress
<1>4. CASE GetCurrentMemType # L_MEM
  <2>1. Width = 1 /\ 3 * Width = 3 /\ LabelAddress = pc
    BY <1>4 DEF Width, LabelAddress
  <2>2. (3 * x) \div 3 = x
    BY <1>1
  <2>3. ASSUME NEW skip \in Nat PROVE ImageAddress(c_ptr + 3 * skip) = pc + skip
    <3>1. (3 * x + 3 * skip) \div 3 = x + skip
      BY <1>1
    <3>2. ImageAddress(c_ptr + 3 * skip) = GetCurrentChunkBegin + ((3 * x + 3 * skip) \div 3)
      BY <1>2, <2>1 DEF ImageAddress
    <3> QED BY <1>1, <1>2, <3>1, <3>2
  <2> QED BY <1>2, <2>1, <2>2, <2>3 DEF ImageAddress
<1> QED BY <1>3, <1>4

LEMMA Label2 ==
  ASSUME TypeInv, g_passNum = 1, NEW s \in Stmts, Following(s), Label(s)
  PROVE  Step2(s)
<1>1. s.op = "label" /\ Reading(s) /\ status = "run" /\ hist[line].stmt = s /\ SamePlace(line)
  BY DEF Label, Reading, Following
<1>2. /\ NextLine(s) /\ AddLabel(s.name) /\ Placed(s.name, c_ptr)
      /\ UNCHANGED <<layout, errors, refs>>
  BY DEF Label, Duplicate
<1>3. m_val' = m_val
  BY <1>2 DEF AddLabel
<1>4. WordsOf(hist[line]) = 0 /\ Moves(0)
  BY <1>1, <1>2, NothingMoves DEF WordsOf, NextLine
<1>5. Lays2(s)
  BY <1>1, <1>4 DEF Lays2
<1>6. Labels(s)
  BY <1>1 DEF Labels
<1>7. placed' = placed \/ \E a \in Int : /\ placed' = [placed EXCEPT ![s.name] = a]
                                         /\ a = LabelAt(hist[line])
  <2>1. CASE in_section
    <3>1. ImageAddress(c_ptr) = LabelAddress
      BY <1>1, <2>1, PlaceOfLabel DEF Following
    <3>2. LabelAddress = AddressAt(hist[line].pos) /\ LabelAddress \in Int
      BY <1>1, <2>1, PlaceReads, ReadTypes
    <3>3. LabelAt(hist[line]) = AddressAt(hist[line].pos)
      BY <1>1 DEF LabelAt
    <3>4. placed' = [placed EXCEPT ![s.name] = LabelAddress]
      BY <1>2, <2>1, <3>1 DEF Placed
    <3> QED BY <3>2, <3>3, <3>4
  <2>2. CASE ~in_section
    BY <1>2, <2>2 DEF Placed
  <2> QED BY <2>1, <2>2
<1>8. Defines2(s) /\ Outputs2(s)
  BY <1>1, <1>2, <1>3, <1>6, <1>7 DEF Defines2, Outputs2
<1> QED BY <1>2, <1>5, <1>8 DEF Step2, layout

LEMMA Equ2 ==
  ASSUME TypeInv, g_passNum = 1, NEW s \in Stmts, Following(s), Equ(s)
  PROVE  Step2(s)
<1>1. s.op = "equ" /\ Reading(s) /\ status = "run" /\ hist[line].stmt = s
  BY DEF Equ, Reading, Following
<1>2. Exp(s.arg) = hist[line].val /\ Exp(s.arg) # Undef
  BY <1>1, NamesAssumption DEF Following, Good
<1>3. /\ NextLine(s) /\ m_val' = [m_val EXCEPT ![s.name] = hist[line].val]
      /\ UNCHANGED <<layout, history>>
  BY <1>2 DEF Equ, Duplicate
<1>4. WordsOf(hist[line]) = 0 /\ Moves(0)
  BY <1>1, <1>3, NothingMoves DEF WordsOf, NextLine
<1>5. Lays2(s) /\ Defines2(s) /\ Outputs2(s)
  BY <1>1, <1>3, <1>4 DEF Lays2, Defines2, Outputs2, history
<1> QED BY <1>3, <1>5 DEF Step2, layout

LEMMA SymSet2 ==
  ASSUME TypeInv, g_passNum = 1, NEW s \in Stmts, Following(s), SymSet(s)
  PROVE  Step2(s)
<1>1. s.op = "set" /\ Reading(s) /\ status = "run" /\ hist[line].stmt = s /\ s.name \in Names
  BY StmtsAssumption DEF SymSet, Reading, Following, Statement
<1>2. Exp(s.arg) = hist[line].val /\ Exp(s.arg) # Undef
  BY <1>1, NamesAssumption DEF Following, Good
<1>3. m_val[s.name] # Undef
  BY <1>1 DEF Following, Good, SameSymbols
<1>4. /\ NextLine(s) /\ m_val' = [m_val EXCEPT ![s.name] = hist[line].val]
      /\ UNCHANGED <<layout, mem_space, errors, history>>
  BY <1>2, <1>3 DEF SymSet
<1>5. WordsOf(hist[line]) = 0 /\ Moves(0)
  BY <1>1, <1>4, NothingMoves DEF WordsOf, NextLine
<1>6. Lays2(s) /\ Defines2(s) /\ Outputs2(s)
  BY <1>1, <1>4, <1>5 DEF Lays2, Defines2, Outputs2, history
<1> QED BY <1>4, <1>6 DEF Step2, layout

LEMMA GenOrg2 ==
  ASSUME TypeInv, g_passNum = 1, NEW s \in Stmts, Following(s), GenOrg(s)
  PROVE  Step2(s)
<1> DEFINE h == hist[line]
           n == hist[line + 1].pos
<1>1. s.op = "org" /\ Reading(s) /\ status = "run" /\ h.stmt = s /\ SamePlace(line)
  BY DEF GenOrg, Reading, Following
<1>2. Exp(s.arg) = h.val /\ Exp(s.arg) # Undef
  BY <1>1, NamesAssumption DEF Following, Good
<1>3. OrgAddresses(s) = {h.val}
  BY <1>2 DEF OrgAddresses
<1>4. n = Section(h.pos, s.mem, h.val) /\ InBlock(line + 1) /\ n.chunk \in 0 .. MaxChunks - 1
  BY <1>1 DEF Following, NextPos
<1>5. n.chunk = NextChunk /\ n.in_section = TRUE /\ n.c_ptr = 0
  BY <1>1, <1>4 DEF Section, SamePlace, NextChunk
<1>6. NextChunk < MaxChunks /\ 0 <= chunks[NextChunk].code_len
  BY <1>4, <1>5, BoundAssumption DEF InBlock
<1>7. chunks[NextChunk].code_len \in Int
  BY <1>4, <1>5 DEF TypeInv, TypeOK, Chunk
<1>8. ~(chunks[NextChunk].code_len < 0)
  BY <1>6, <1>7
<1> HIDE DEF h, n
<1>9. /\ NextLine(s) /\ pc' = h.val /\ c_ptr' = 0 /\ in_section' = TRUE
      /\ num_chunks2' = NextChunk /\ UNCHANGED num_chunks
      /\ chunks' = Opened(Closed, s.mem, h.val)
      /\ UNCHANGED <<symbols, history>>
  <2>1. PICK address \in OrgAddresses(s) :
          /\ NextLine(s) /\ pc' = address /\ c_ptr' = 0 /\ in_section' = TRUE
          /\ num_chunks2' = NextChunk /\ UNCHANGED num_chunks
          /\ chunks' = Opened(IF in_section THEN [chunks EXCEPT ![num_chunks2].code_len2 = c_ptr]
                                            ELSE chunks, s.mem, address)
          /\ UNCHANGED <<symbols, history>>
    <3>1. g_passNum # 0 /\ ~(NextChunk >= MaxChunks)
      BY <1>4, <1>5, BoundAssumption
    <3> QED BY <1>8, <3>1 DEF GenOrg
  <2>2. address = h.val
    BY <1>3, <2>1
  <2> QED BY <2>1, <2>2 DEF Closed
<1>10. Lays2(s)
  BY <1>1, <1>6, <1>9 DEF Lays2, Opens, h
<1>11. Defines2(s) /\ Outputs2(s)
  BY <1>1, <1>9 DEF Defines2, Outputs2, symbols, history
<1> QED BY <1>9, <1>10, <1>11 DEF Step2

LEMMA GenDSM2 ==
  ASSUME TypeInv, g_passNum = 1, NEW s \in Stmts, Following(s), GenDSM(s)
  PROVE  Step2(s)
<1> DEFINE h     == hist[line]
           val   == Exp(s.arg)
           named == s.name # None /\ ~Duplicate(s.name)
           skip  == DsmSkip(val)
           words == skip + val * Width
<1>1. s.op = "dsm" /\ Reading(s) /\ status = "run" /\ h.stmt = s /\ SamePlace(line)
  BY DEF GenDSM, Reading, Following
<1>2. in_section /\ WordsOf(h) \in Nat /\ Fits(3 * WordsOf(h))
  BY <1>1, FitsBlock
<1>3. val = h.val /\ val \in Int /\ val # Undef /\ DsmLegal(val)
  BY <1>1, NamesAssumption DEF Following, Good
<1>4. Width = WidthAt(h.pos) /\ skip = SkipAt(h.pos, val) /\ LabelAddress = AddressAt(h.pos)
  BY <1>1, <1>2, <1>3, PlaceReads
<1>5. WordsOf(h) = words
  BY <1>1, <1>3, <1>4 DEF WordsOf
<1>6. named <=> s.name # None
  BY DEF Duplicate
<1>7. skip \in Nat
  <2>1. DsmAlign(val) \in Int /\ DsmAlign(val) # 0
    BY <1>3, DsmAlignType
  <2>2. Padding(DsmAlign(val)) \in Nat
    BY <1>1, <2>1, PaddingType
  <2> QED BY <2>2 DEF DsmSkip
<1>8. LabelAt(h) = IF pc % DsmAlign(val) # 0 THEN pc + skip ELSE LabelAddress
  BY <1>1, <1>3, <1>4 DEF LabelAt, SamePlace
<1>9. pc % DsmAlign(val) = 0 => skip = 0
  BY DEF DsmSkip
<1>10. /\ NextLine(s)
       /\ Store(words, 3 * words, FALSE)
       /\ IF named
          THEN /\ m_val' = IF pc % DsmAlign(val) # 0
                           THEN [m_val EXCEPT ![s.name] = pc + skip] ELSE m_val
               /\ Placed(s.name, c_ptr + 3 * skip)
          ELSE UNCHANGED <<symbols, placed>>
       /\ UNCHANGED refs
  <2>1. Fits(3 * words)
    BY <1>2, <1>5
  <2>2. /\ NextLine(s)
        /\ Store(words, 3 * words, FALSE)
        /\ IF named
           THEN /\ mem_space' = [mem_space EXCEPT ![s.name] = GetCurrentMemType]
                /\ m_val' = IF pc % DsmAlign(val) # 0
                            THEN [m_val EXCEPT ![s.name] = pc + skip]
                            ELSE IF g_passNum = 0 THEN [m_val EXCEPT ![s.name] = LabelAddress] ELSE m_val
                /\ Placed(s.name, c_ptr + 3 * skip)
           ELSE UNCHANGED <<symbols, placed>>
        /\ UNCHANGED refs
    BY <1>3, <2>1 DEF GenDSM
  <2>3. (IF g_passNum = 0 THEN [m_val EXCEPT ![s.name] = LabelAddress] ELSE m_val) = m_val
    OBVIOUS
  <2> QED BY <2>2, <2>3, Zenon
<1> HIDE DEF val, skip, words, h
<1>11. words \in Int
  BY <1>2, <1>5
<1>12. Moves(words)
  <2>1. g_passNum' = g_passNum
    BY <1>10 DEF NextLine
  <2> QED BY <1>1, <1>10, <1>11, <2>1, StoreMoves
<1>13. Lays2(s)
  BY <1>1, <1>5, <1>12 DEF Lays2, h
<1>14. Defines2(s) /\ Outputs2(s)
  <2>1. CASE named
    <3>1. Labels(s)
      BY <1>1, <1>6, <2>1 DEF Labels
    <3>2. m_val' = m_val \/ m_val' = [m_val EXCEPT ![s.name] = LabelAt(h)]
      BY <1>8, <1>10, <2>1
    <3>3. placed' = [placed EXCEPT ![s.name] = ImageAddress(c_ptr + 3 * skip)]
      BY <1>2, <1>10, <2>1 DEF Placed
    <3>4. ImageAddress(c_ptr + 3 * skip) \in Int
      BY <1>1, <1>7, ReadTypes DEF TypeInv, TypeOK
    <3>5. h.pos.mem # L_MEM => ImageAddress(c_ptr + 3 * skip) = LabelAt(h)
      <4> SUFFICES ASSUME h.pos.mem # L_MEM PROVE ImageAddress(c_ptr + 3 * skip) = LabelAt(h)
        OBVIOUS
      <4>1. Width = 1
        BY <1>4 DEF WidthAt
      <4>2. LabelAddress = pc
        BY <4>1 DEF Width, LabelAddress
      <4>3. 3 * (pc - GetCurrentChunkBegin) = c_ptr
        BY <1>2 DEF Following
      <4>4. ImageAddress(c_ptr + 3 * skip) = pc + skip
        BY <1>1, <1>2, <1>7, <4>1, <4>3, PlaceOfLabel
      <4>5. pc \in Int
        BY DEF TypeInv, TypeOK
      <4>6. LabelAt(h) = pc + skip
        BY <1>8, <1>9, <4>2, <4>5
      <4> QED BY <4>4, <4>6
    <3>6. \E a \in Int : /\ placed' = [placed EXCEPT ![s.name] = a]
                         /\ a = LabelAt(h) \/ (s.op = "dsm" /\ h.pos.mem = L_MEM)
      BY <1>1, <3>3, <3>4, <3>5
    <3> QED BY <1>1, <1>10, <3>1, <3>2, <3>6 DEF Defines2, Outputs2, h
  <2>2. CASE ~named
    BY <1>1, <1>10, <2>2 DEF Defines2, Outputs2, symbols
  <2> QED BY <2>1, <2>2
<1> QED BY <1>10, <1>13, <1>14 DEF Step2, Store

----------------------------------------------------------------------------
(* Pass 2 keeps the invariant.                                             *)

\* Pass 2 stands where the next record says; the sizes of pass 1 stay, and the
\* section a line leaves has the size it had in pass 1.
LEMMA Laid2 ==
  ASSUME TypeInv, TypeInv', g_passNum = 1, status = "run", NEW s \in Stmts,
         Following(s), NextLine(s), Lays2(s)
  PROVE  /\ SamePlace(line)'
         /\ \A a \in 0 .. MaxChunks - 1 : chunks'[a].code_len = chunks[a].code_len
         /\ \/ /\ num_chunks2' = num_chunks2
               /\ \A a \in 0 .. MaxChunks - 1 : chunks'[a].code_len2 = chunks[a].code_len2
            \/ /\ num_chunks2' = IF in_section THEN num_chunks2 + 1 ELSE num_chunks2
               /\ num_chunks2 \in 0 .. MaxChunks - 1
               /\ \A a \in 0 .. MaxChunks - 1 : a # num_chunks2 => chunks'[a].code_len2 = chunks[a].code_len2
               /\ in_section => chunks'[num_chunks2].code_len2 = chunks[num_chunks2].code_len
<1> DEFINE h == hist[line]
           n == hist[line + 1].pos
<1>1. g_passNum' = 1 /\ hist' = hist
  BY DEF NextLine
<1>2. /\ h \in Line /\ h.stmt = s /\ SamePlace(line) /\ n = NextPos(h) /\ Good(h)
      /\ GetCurrentChunkIndex = num_chunks2 /\ EndsBlock(line)
  BY DEF Following
<1>3. /\ Pos.pc = pc /\ Pos.c_ptr = c_ptr /\ Pos.in_section = in_section
      /\ Pos.chunk = GetCurrentChunkIndex /\ Pos.mem = GetCurrentMemType
      /\ Pos.begin = GetCurrentChunkBegin
  BY DEF Pos
<1>4. /\ Pos'.pc = pc' /\ Pos'.c_ptr = c_ptr' /\ Pos'.in_section = in_section'
      /\ Pos'.chunk = GetCurrentChunkIndex' /\ Pos'.mem = GetCurrentMemType'
      /\ Pos'.begin = GetCurrentChunkBegin'
  BY DEF Pos
<1>5. SamePlace(line)' <=>
        /\ pc' = n.pc /\ in_section' = n.in_section /\ GetCurrentChunkIndex' = n.chunk
        /\ in_section' => /\ c_ptr' = n.c_ptr /\ GetCurrentMemType' = n.mem
                          /\ GetCurrentChunkBegin' = n.begin
  <2>1. line' = line + 1
    BY DEF NextLine
  <2> QED BY <1>1, <2>1 DEF SamePlace
<1>6. CASE s.op # "org"
  <2>1. /\ Pos' = Moved(Pos, WordsOf(h)) /\ num_chunks2' = num_chunks2
        /\ \A a \in 0 .. MaxChunks - 1 : /\ chunks'[a].code_len = chunks[a].code_len
                                         /\ chunks'[a].code_len2 = chunks[a].code_len2
    BY <1>6 DEF Lays2, Moves
  <2>2. n = Moved(h.pos, WordsOf(h))
    BY <1>2, <1>6 DEF NextPos
  <2>3. SamePlace(line)'
    BY <1>2, <1>3, <1>4, <1>5, <2>1, <2>2 DEF Moved, SamePlace
  <2> QED BY <2>1, <2>3
<1>7. CASE s.op = "org"
  <2>1. num_chunks2' = NextChunk /\ Opens(s, Closed, h.val) /\ h.val \in Int
    BY <1>2, <1>7 DEF Lays2, Good
  <2>2. /\ chunks \in [0 .. MaxChunks - 1 -> Chunk] /\ c_ptr \in Int
        /\ num_chunks2 \in 0 .. MaxChunks - 1
    BY <1>2, ReadTypes DEF TypeInv, TypeOK
  <2>3. /\ Closed \in [0 .. MaxChunks - 1 -> Chunk]
        /\ \A a \in 0 .. MaxChunks - 1 :
             /\ Closed[a].code_len = chunks[a].code_len
             /\ Closed[a].code_len2 = IF in_section /\ a = num_chunks2 THEN c_ptr ELSE chunks[a].code_len2
    <3>1. CASE in_section
      BY <2>2, <3>1 DEF Closed, Chunk
    <3>2. CASE ~in_section
      BY <2>2, <3>2 DEF Closed
    <3> QED BY <3>1, <3>2
  <2>4. GetCurrentChunkIndex' = NextChunk
    BY <1>1, <2>1 DEF GetCurrentChunkIndex
  <2>5. /\ Pos' = Section(Pos, s.mem, h.val)
        /\ \A a \in 0 .. MaxChunks - 1 : /\ chunks'[a].code_len = Closed[a].code_len
                                         /\ chunks'[a].code_len2 = Closed[a].code_len2
    BY <2>1, <2>3, <2>4, OpenMoves
  <2>6. n = Section(h.pos, s.mem, h.val)
    BY <1>2, <1>7 DEF NextPos
  <2>7. SamePlace(line)'
    BY <1>2, <1>3, <1>4, <1>5, <2>5, <2>6 DEF Section, SamePlace
  <2>8. in_section => chunks[num_chunks2].code_len = c_ptr
    BY <1>2, <1>7 DEF EndsBlock, SamePlace
  <2>9. NextChunk = IF in_section THEN num_chunks2 + 1 ELSE num_chunks2
    BY <1>2 DEF NextChunk
  <2>10. in_section => chunks'[num_chunks2].code_len2 = chunks[num_chunks2].code_len
    BY <2>2, <2>3, <2>5, <2>8
  <2> QED BY <2>1, <2>2, <2>3, <2>5, <2>7, <2>9, <2>10
<1> QED BY <1>6, <1>7

\* The symbols of pass 2 are those of the next record.
LEMMA Defined2 ==
  ASSUME IInv, Clean, g_passNum = 1, status = "run", NEW s \in Stmts,
         Following(s), NextLine(s), Defines2(s)
  PROVE  /\ SameSymbols(line)'
         /\ \A n \in Names : Fixed(n) => m_val'[n] = Last.syms[n]
         /\ Labels(s) => /\ s.name \in Names /\ Fixed(s.name)
                         /\ Last.syms[s.name] = LabelAt(hist[line])
<1> DEFINE h == hist[line]
<1>1. TypeInv /\ Steady /\ Followed /\ Regular
  BY DEF IInv, Agreeing, SecondPass, Clean
<1>2. /\ h \in Line /\ h.stmt = s /\ Good(h) /\ SameSymbols(line)
      /\ hist[line + 1].syms = NextSyms(h) /\ line \in 1 .. Len(hist) - 1
  BY DEF Following
<1>3. hist' = hist /\ line' = line + 1
  BY DEF NextLine
<1>4. m_val \in [Names -> Value] /\ h.syms \in [Names -> Value] /\ Len(hist) \in Nat
  BY <1>1, <1>2 DEF TypeInv, TypeOK, Line
<1>5. ASSUME Labels(s)
      PROVE  /\ s.name \in Names /\ Fixed(s.name) /\ LabelAt(h) # Undef
             /\ Last.syms[s.name] = LabelAt(h) /\ m_val[s.name] = LabelAt(h)
  <2>1. s.name \in Names
    BY <1>5, StmtsAssumption DEF Labels, Statement
  <2>2. Fixed(s.name)
    BY <1>1, <1>2, <1>5 DEF Steady
  <2>3. LabelAt(h) \in Int
    <3>1. h.pos.pc \in Int /\ h.pos.begin \in Int
      BY <1>2 DEF Line, Place
    <3>2. AddressAt(h.pos) \in Int
      BY <3>1 DEF AddressAt
    <3>3. s.op = "dsm" => SkipAt(h.pos, h.val) \in Int
      <4> SUFFICES ASSUME s.op = "dsm" PROVE SkipAt(h.pos, h.val) \in Int
        OBVIOUS
      <4>1. h.val \in Int /\ DsmLegal(h.val)
        BY <1>2 DEF Good
      <4>2. DsmAlign(h.val) \in Int /\ DsmAlign(h.val) > 0
        BY <4>1, DsmAlignType
      <4>3. WidthAt(h.pos) \in {1, 2}
        BY DEF WidthAt
      <4>4. Abs(DsmAlign(h.val) * WidthAt(h.pos)) \in Nat /\ Abs(DsmAlign(h.val) * WidthAt(h.pos)) > 0
        BY <4>2, <4>3 DEF Abs
      <4>5. PaddingAt(h.pos, DsmAlign(h.val)) \in Int
        BY <3>1, <4>4 DEF PaddingAt
      <4> QED BY <4>5 DEF SkipAt
    <3> QED BY <1>2, <3>1, <3>2, <3>3 DEF LabelAt
  <2>4. hist[line + 1].syms[s.name] = LabelAt(h)
    BY <1>2, <1>4, <1>5, <2>1 DEF NextSyms
  <2>5. LabelAt(h) # Undef
    BY <2>3, NamesAssumption
  <2>6. Len(hist) \in 1 .. Len(hist) /\ line + 1 \in 1 .. Len(hist)
    BY <1>2, <1>4
  <2>7. Last.syms[s.name] = LabelAt(h)
    BY <1>1, <2>1, <2>2, <2>4, <2>5, <2>6 DEF Steady, Last
  <2>8. m_val[s.name] = Last.syms[s.name]
    BY <1>1, <2>1, <2>2 DEF Followed
  <2> QED BY <2>1, <2>2, <2>5, <2>7, <2>8
<1>6. ASSUME s.op \in {"equ", "set"}
      PROVE  s.name \in Names /\ ~Fixed(s.name)
  <2>1. s.name \in Names
    BY <1>6, StmtsAssumption DEF Statement
  <2>2. s.op = "equ" => ~Fixed(s.name)
    BY <1>2, <1>4 DEF Fixed
  <2>3. s.op = "set" => ~Fixed(s.name)
    <3>1. RegularLine(line)
      BY <1>1, <1>2, <1>4 DEF Regular
    <3>2. s.op = "set" => \E j \in 1 .. line - 1 : hist[j].stmt.op = "equ" /\ hist[j].stmt.name = s.name
      BY <1>2, <3>1 DEF RegularLine
    <3> QED BY <1>2, <1>4, <3>2 DEF Fixed
  <2> QED BY <1>6, <2>1, <2>2, <2>3
<1>7. ~(Labels(s) /\ s.op \in {"equ", "set"})
  BY DEF Labels
<1>8. ASSUME NEW n \in Names
      PROVE  /\ ~(n = s.name /\ (Labels(s) \/ s.op \in {"equ", "set"})) =>
                  m_val'[n] = m_val[n] /\ NextSyms(h)[n] = h.syms[n]
             /\ n = s.name /\ Labels(s) => m_val'[n] = LabelAt(h) /\ NextSyms(h)[n] = LabelAt(h)
             /\ n = s.name /\ s.op \in {"equ", "set"} => m_val'[n] = h.val /\ NextSyms(h)[n] = h.val
  <2>1. CASE s.op \in {"equ", "set"}
    <3>1. m_val' = [m_val EXCEPT ![s.name] = h.val] /\ NextSyms(h) = [h.syms EXCEPT ![s.name] = h.val]
      BY <1>2, <1>7, <2>1 DEF Defines2, NextSyms
    <3> QED BY <1>4, <1>7, <2>1, <3>1
  <2>2. CASE Labels(s)
    <3>1. NextSyms(h) = [h.syms EXCEPT ![s.name] = LabelAt(h)]
      BY <1>2, <2>2 DEF NextSyms
    <3>2. m_val' = m_val \/ m_val' = [m_val EXCEPT ![s.name] = LabelAt(h)]
      BY <1>7, <2>2 DEF Defines2
    <3> QED BY <1>4, <1>5, <1>7, <2>2, <3>1, <3>2
  <2>3. CASE ~Labels(s) /\ s.op \notin {"equ", "set"}
    <3>1. NextSyms(h) = h.syms /\ m_val' = m_val
      BY <1>2, <2>3 DEF NextSyms, Defines2
    <3> QED BY <2>3, <3>1
  <2> QED BY <2>1, <2>2, <2>3
<1>9. ASSUME NEW n \in Names, NextSyms(h)[n] # Undef
      PROVE  m_val'[n] = NextSyms(h)[n]
  BY <1>2, <1>8, <1>9 DEF SameSymbols
<1>10. SameSymbols(line)'
  BY <1>2, <1>3, <1>9 DEF SameSymbols
<1>11. ASSUME NEW n \in Names, Fixed(n)
       PROVE  m_val'[n] = Last.syms[n]
  <2>1. m_val[n] = Last.syms[n]
    BY <1>1, <1>11 DEF Followed
  <2>2. n = s.name /\ Labels(s) => m_val'[n] = Last.syms[n]
    BY <1>5, <1>8
  <2> QED BY <1>6, <1>8, <1>11, <2>1, <2>2
<1> QED BY <1>5, <1>10, <1>11

\* What the output gets is final.
LEMMA Outputs2Kept ==
  ASSUME IInv, Clean, g_passNum = 1, status = "run", NEW s \in Stmts,
         Following(s), NextLine(s), Defines2(s), Outputs2(s)
  PROVE  Referred'
<1> DEFINE h == hist[line]
<1>1. TypeInv /\ Followed /\ Referred
  BY DEF IInv, Agreeing, SecondPass
<1>2. h.stmt = s /\ line \in 1 .. Len(hist) - 1 /\ hist' = hist /\ Len(hist) \in Nat
  BY <1>1 DEF Following, NextLine, TypeInv, TypeOK
<1>3. ASSUME NEW r \in refs', Fixed(r[1])
      PROVE  r[2] = Last.syms[r[1]]
  <2>1. CASE r \in refs
    BY <1>1, <1>3, <2>1 DEF Referred
  <2>2. CASE s.arg \in Names /\ r = <<s.arg, m_val[s.arg]>>
    BY <1>1, <1>3, <2>2 DEF Followed
  <2> QED BY <1>3, <2>1, <2>2 DEF Outputs2
<1>4. ASSUME NEW n \in Names, placed'[n] # Undef
      PROVE  Fixed(n) /\ (DsmLabelInL(n) \/ placed'[n] = Last.syms[n])
  <2>1. CASE placed'[n] = placed[n]
    BY <1>1, <1>4, <2>1 DEF Referred
  <2>2. CASE placed'[n] # placed[n]
    <3>1. placed \in [Names -> Value]
      BY <1>1 DEF TypeInv, TypeOK
    <3>2. PICK a \in Int : /\ placed' = [placed EXCEPT ![s.name] = a] /\ Labels(s)
                           /\ a = LabelAt(h) \/ (s.op = "dsm" /\ h.pos.mem = L_MEM)
      BY <2>2 DEF Outputs2
    <3>3. n = s.name /\ placed'[n] = a
      BY <2>2, <3>1, <3>2
    <3>4. Fixed(s.name) /\ Last.syms[s.name] = LabelAt(h)
      BY <3>2, Defined2
    <3>5. s.op = "dsm" /\ h.pos.mem = L_MEM => DsmLabelInL(n)
      BY <1>2, <3>3 DEF DsmLabelInL
    <3> QED BY <3>2, <3>3, <3>4, <3>5
  <2> QED BY <2>1, <2>2
<1>5. Referred' <=> /\ \A r \in refs' : Fixed(r[1]) => r[2] = Last.syms[r[1]]
                    /\ \A n \in Names : placed'[n] # Undef =>
                         Fixed(n) /\ (DsmLabelInL(n) \/ placed'[n] = Last.syms[n])
  BY <1>2 DEF Referred, Fixed, DsmLabelInL, Last
<1> QED BY <1>3, <1>4, <1>5

\* Nothing of what pass 1 recorded changes in pass 2.
LEMMA HistoryKept ==
  ASSUME IInv, g_passNum = 1, g_passNum' = 1, hist' = hist
  PROVE  /\ Recorded' /\ Added' /\ Counting' /\ Accepting'
         /\ Clean' <=> Clean
         /\ Linked' <=> Linked
         /\ Steady' <=> Steady
<1>1. Recorded'
  BY DEF IInv, Recorded
<1>2. Added' /\ Counting' /\ Accepting'
  BY DEF Added, Counting, Accepting
<1>3. Clean' <=> Clean
  BY DEF Clean, Regular, RegularLine
<1>4. Linked' <=> Linked
  BY DEF Linked
<1>5. Steady' <=> Steady
  BY DEF Steady, Fixed
<1> QED BY <1>1, <1>2, <1>3, <1>4, <1>5

LEMMA Step2Kept ==
  ASSUME IInv, TypeInv', g_passNum = 1, NEW s \in Stmts, Reading(s), Clean, Step2(s)
  PROVE  IInv'
<1>1. /\ status = "run" /\ status' = "run" /\ g_passNum' = 1 /\ hist' = hist /\ NextLine(s)
      /\ line' = line + 1 /\ num_chunks' = num_chunks
  BY DEF Reading, Step2, NextLine
<1>2. TypeInv /\ Linked /\ Steady /\ SecondPass /\ Followed /\ Blocks2 /\ Recorded
  BY <1>1 DEF IInv, Agreeing, SecondPass
<1>3. Following(s)
  BY <1>1, FollowingHolds
<1>4. /\ SamePlace(line)'
      /\ \A a \in 0 .. MaxChunks - 1 : chunks'[a].code_len = chunks[a].code_len
      /\ \/ /\ num_chunks2' = num_chunks2
            /\ \A a \in 0 .. MaxChunks - 1 : chunks'[a].code_len2 = chunks[a].code_len2
         \/ /\ num_chunks2' = IF in_section THEN num_chunks2 + 1 ELSE num_chunks2
            /\ num_chunks2 \in 0 .. MaxChunks - 1
            /\ \A a \in 0 .. MaxChunks - 1 : a # num_chunks2 => chunks'[a].code_len2 = chunks[a].code_len2
            /\ in_section => chunks'[num_chunks2].code_len2 = chunks[num_chunks2].code_len
  BY <1>1, <1>2, <1>3, Laid2 DEF Step2
<1>5. SameSymbols(line)' /\ \A n \in Names : Fixed(n) => m_val'[n] = Last.syms[n]
  BY <1>1, <1>3, Defined2 DEF Step2
<1>6. Blocks2'
  <2>1. \A k \in 1 .. Len(hist) : hist[k].pos.chunk \in 0 .. MaxChunks - 1
    BY <1>2 DEF Recorded
  <2>2. ASSUME NEW k \in 1 .. Len(hist)
        PROVE  InBlock(k)' /\ EndsBlock(k)'
    <3>1. InBlock(k) /\ EndsBlock(k)
      BY <1>2 DEF Blocks2
    <3>2. chunks'[hist[k].pos.chunk].code_len = chunks[hist[k].pos.chunk].code_len
      BY <1>4, <2>1
    <3> QED BY <1>1, <3>1, <3>2 DEF InBlock, EndsBlock
  <2>3. num_chunks' = IF Last'.pos.in_section THEN Last'.pos.chunk + 1 ELSE Last'.pos.chunk
    BY <1>1, <1>2 DEF Blocks2, Last
  <2> QED BY <1>1, <2>2, <2>3 DEF Blocks2
<1>7. Followed'
  <2>1. ASSUME NEW a \in 0 .. num_chunks2' - 1
        PROVE  chunks'[a].code_len = chunks'[a].code_len2
    <3>1. \A c \in 0 .. num_chunks2 - 1 : chunks[c].code_len = chunks[c].code_len2
      BY <1>2 DEF Followed
    <3>2. /\ num_chunks2 \in 0 .. MaxChunks - 1
          /\ num_chunks2' \in 0 .. MaxChunks
      BY <1>1, <1>2, ReadTypes DEF TypeInv, TypeOK, GetCurrentChunkIndex
    <3>3. CASE num_chunks2' = num_chunks2 /\ \A c \in 0 .. MaxChunks - 1 :
                 chunks'[c].code_len2 = chunks[c].code_len2
      <4>1. a \in 0 .. num_chunks2 - 1 /\ a \in 0 .. MaxChunks - 1
        BY <3>2, <3>3, BoundAssumption
      <4> QED BY <1>4, <3>1, <3>3, <4>1
    <3>4. CASE /\ num_chunks2' = IF in_section THEN num_chunks2 + 1 ELSE num_chunks2
               /\ \A c \in 0 .. MaxChunks - 1 : c # num_chunks2 => chunks'[c].code_len2 = chunks[c].code_len2
               /\ in_section => chunks'[num_chunks2].code_len2 = chunks[num_chunks2].code_len
      <4>1. CASE a = num_chunks2
        BY <1>4, <3>2, <3>4, <4>1
      <4>2. CASE a # num_chunks2
        <5>1. a \in 0 .. num_chunks2 - 1 /\ a \in 0 .. MaxChunks - 1
          BY <3>2, <3>4, <4>2, BoundAssumption
        <5> QED BY <1>4, <3>1, <3>4, <4>2, <5>1
      <4> QED BY <4>1, <4>2
    <3> QED BY <1>4, <3>3, <3>4
  <2>2. \A n \in Names : Fixed(n)' => m_val'[n] = Last'.syms[n]
    BY <1>1, <1>5 DEF Fixed, Last
  <2> QED BY <1>4, <1>5, <2>1, <2>2 DEF Followed
<1>8. Referred'
  BY <1>1, <1>3, Outputs2Kept DEF Step2
<1>9. SecondPass'
  BY <1>1, <1>6, <1>7, <1>8 DEF SecondPass
<1>10. /\ Recorded' /\ Added' /\ Counting' /\ Accepting' /\ Linked' /\ Steady'
  BY <1>1, <1>2, HistoryKept
<1>11. Agreeing'
  BY <1>1, <1>9, <1>10 DEF Agreeing
<1> QED BY <1>10, <1>11 DEF IInv

\* The end of pass 2: every section has the size of pass 1.
LEMMA EndPass2Kept ==
  ASSUME IInv, TypeInv', EndPass2
  PROVE  IInv'
<1>1. /\ status = "run" /\ g_passNum = 1 /\ g_passNum' = 1 /\ hist' = hist
      /\ hist[line].stmt = EndStmt /\ chunks' = Closed /\ num_chunks2' = NextChunk
      /\ UNCHANGED <<pc, num_chunks, symbols, line, history>>
      /\ status' \in {"accepted", "rejected"}
  BY DEF EndPass2
<1>2. /\ Recorded' /\ Added' /\ Counting' /\ Accepting' /\ (Clean' <=> Clean)
      /\ (Linked' <=> Linked) /\ (Steady' <=> Steady)
  BY <1>1, HistoryKept
<1>3. Agreeing'
  <2> SUFFICES ASSUME Clean' PROVE Linked' /\ Steady' /\ SecondPass'
    BY <1>1 DEF Agreeing
  <2>1. /\ Clean /\ TypeInv /\ Linked /\ Steady /\ SecondPass /\ Followed /\ Blocks2 /\ Recorded
        /\ Referred
    BY <1>1, <1>2 DEF IInv, Agreeing, SecondPass
  <2>2. line = Len(hist) /\ Len(hist) \in Nat /\ Len(hist) > 0
    BY <1>1, <2>1, StmtsAssumption DEF TypeInv, TypeOK, Shape, EndStmt
  <2>3. /\ GetCurrentChunkIndex = num_chunks2 /\ num_chunks2 \in 0 .. MaxChunks - 1
        /\ chunks \in [0 .. MaxChunks - 1 -> Chunk] /\ c_ptr \in Int
    BY <1>1, <2>1, ReadTypes DEF TypeInv, TypeOK, GetCurrentChunkIndex
  <2>4. /\ in_section = Last.pos.in_section /\ num_chunks2 = Last.pos.chunk
        /\ in_section => chunks[num_chunks2].code_len = c_ptr
    <3>1. SamePlace(line) /\ EndsBlock(line)
      BY <2>1, <2>2 DEF Followed, Blocks2
    <3>2. EndStmt.op = "end"
      BY DEF EndStmt
    <3> QED BY <1>1, <2>2, <2>3, <3>1, <3>2 DEF SamePlace, EndsBlock, Last
  <2>5. NextChunk = IF in_section THEN num_chunks2 + 1 ELSE num_chunks2
    BY <2>3 DEF NextChunk
  <2>6. num_chunks = NextChunk
    BY <2>1, <2>4, <2>5 DEF Blocks2
  <2>7. \A a \in 0 .. MaxChunks - 1 :
          /\ chunks'[a].code_len = chunks[a].code_len
          /\ chunks'[a].code_len2 = IF in_section /\ a = num_chunks2 THEN c_ptr ELSE chunks[a].code_len2
    <3>1. CASE in_section
      BY <1>1, <2>3, <3>1 DEF Closed, Chunk
    <3>2. CASE ~in_section
      BY <1>1, <2>3, <3>2 DEF Closed
    <3> QED BY <3>1, <3>2
  <2>8. ASSUME NEW a \in 0 .. num_chunks - 1
        PROVE  chunks'[a].code_len = chunks'[a].code_len2
    <3>1. \A c \in 0 .. num_chunks2 - 1 : chunks[c].code_len = chunks[c].code_len2
      BY <2>1 DEF Followed
    <3>2. CASE in_section /\ a = num_chunks2
      BY <2>3, <2>4, <2>7, <3>2
    <3>3. CASE ~(in_section /\ a = num_chunks2)
      <4>1. a \in 0 .. num_chunks2 - 1 /\ a \in 0 .. MaxChunks - 1
        BY <2>3, <2>5, <2>6, <3>3, BoundAssumption
      <4> QED BY <2>7, <3>1, <3>3, <4>1
    <3> QED BY <3>2, <3>3
  <2>9. Verified(chunks, num_chunks2)'
    BY <1>1, <2>6, <2>8 DEF Verified
  <2>10. Blocks2'
    <3>1. \A k \in 1 .. Len(hist) : hist[k].pos.chunk \in 0 .. MaxChunks - 1
      BY <2>1 DEF Recorded
    <3>2. ASSUME NEW k \in 1 .. Len(hist)
          PROVE  InBlock(k)' /\ EndsBlock(k)'
      <4>1. InBlock(k) /\ EndsBlock(k)
        BY <2>1 DEF Blocks2
      <4>2. chunks'[hist[k].pos.chunk].code_len = chunks[hist[k].pos.chunk].code_len
        BY <2>7, <3>1
      <4> QED BY <1>1, <4>1, <4>2 DEF InBlock, EndsBlock
    <3>3. num_chunks' = IF Last'.pos.in_section THEN Last'.pos.chunk + 1 ELSE Last'.pos.chunk
      BY <1>1, <2>1 DEF Blocks2, Last
    <3> QED BY <1>1, <3>2, <3>3 DEF Blocks2
  <2>11. Referred'
    BY <1>1, <2>1 DEF Referred, Fixed, DsmLabelInL, Last, history
  <2>12. SecondPass'
    BY <1>1, <2>9, <2>10, <2>11 DEF SecondPass
  <2> QED BY <1>2, <2>1, <2>12
<1> QED BY <1>2, <1>3 DEF IInv

----------------------------------------------------------------------------
(* The invariant of the specification.                                     *)

ReadsLine(s) == \/ Code(s) \/ GenDc(s) \/ InsertString(s)
            \/ GenDS(s) \/ GenAlign(s) \/ GenDSM(s)
            \/ Label(s) \/ Equ(s) \/ SymSet(s)
            \/ GenOrg(s)

LEMMA LinesRead ==
  ASSUME NEW s, ReadsLine(s)
  PROVE  Reading(s) /\ g_passNum' = g_passNum /\ (g_passNum = 1 => hist' = hist)
<1>1. Reading(s)
  BY DEF ReadsLine, Code, GenDc, InsertString, GenDS, GenAlign, GenDSM, Label, Equ, SymSet, GenOrg
<1>2. NextLine(s) \/ \E how : Dies(how)
  BY DEF ReadsLine, Code, GenDc, InsertCode, InsertString, GenDS, GenAlign, GenDSM, Label, Equ,
         SymSet, GenOrg, Rejects
<1>3. NextLine(s) => g_passNum' = g_passNum /\ (g_passNum = 1 => hist' = hist)
  BY DEF NextLine
<1>4. ASSUME NEW how, Dies(how) PROVE g_passNum' = g_passNum /\ hist' = hist
  BY <1>4 DEF Dies
<1> QED BY <1>1, <1>2, <1>3, <1>4

LEMMA ReadsLineKept ==
  ASSUME IInv, TypeInv', NEW s \in Stmts, ReadsLine(s)
  PROVE  IInv'
<1>1. TypeInv /\ Reading(s) /\ status = "run" /\ g_passNum' = g_passNum
      /\ (g_passNum = 1 => hist' = hist)
  BY LinesRead DEF IInv, Reading
<1>2. CASE g_passNum = 0 /\ Survives
  <2>1. Step1(s)
    BY <1>1, <1>2, Code1, GenDc1, InsertString1, GenDS1, GenAlign1, GenDSM1, Label1, Equ1, SymSet1,
       GenOrg1 DEF ReadsLine
  <2> QED BY <1>1, <1>2, <2>1, Step1Kept
<1>3. CASE g_passNum = 0 /\ ~Survives
  BY <1>3, DiesKept DEF Survives
<1>4. CASE g_passNum = 1 /\ Clean
  <2>1. Following(s)
    BY <1>1, <1>4, FollowingHolds
  <2>2. Step2(s)
    BY <1>1, <1>4, <2>1, Code2, GenDc2, InsertString2, GenDS2, GenAlign2, GenDSM2, Label2, Equ2,
       SymSet2, GenOrg2 DEF ReadsLine
  <2> QED BY <1>1, <1>4, <2>2, Step2Kept
<1>5. CASE g_passNum = 1 /\ ~Clean
  <2>1. Recorded' /\ Added' /\ Counting' /\ Accepting' /\ ~Clean'
    BY <1>1, <1>5, HistoryKept
  <2>2. Agreeing'
    BY <2>1 DEF Agreeing
  <2> QED BY <2>1, <2>2 DEF IInv
<1> QED BY <1>1, <1>2, <1>3, <1>4, <1>5 DEF TypeInv, TypeOK

LEMMA StutterKept ==
  ASSUME IInv, TypeInv', UNCHANGED vars
  PROVE  IInv'
<1>1. /\ g_passNum' = g_passNum /\ pc' = pc /\ c_ptr' = c_ptr /\ in_section' = in_section
      /\ num_chunks' = num_chunks /\ num_chunks2' = num_chunks2 /\ chunks' = chunks
      /\ m_val' = m_val /\ errors' = errors /\ status' = status /\ line' = line /\ hist' = hist
      /\ refs' = refs /\ placed' = placed
  BY DEF vars, layout, symbols, history
<1>2. Recorded' /\ Added' /\ Counting' /\ Accepting'
  BY <1>1 DEF IInv, Recorded, Added, Counting, Accepting, GetCurrentChunkBegin, GetCurrentChunkIndex
<1>3. (Clean' <=> Clean) /\ (Linked' <=> Linked) /\ (Steady' <=> Steady)
  BY <1>1 DEF Clean, Regular, RegularLine, Linked, Steady, Fixed
<1>4. FirstPass' <=> FirstPass
  <2>1. Pos' = Pos
    BY <1>1 DEF Pos, GetCurrentChunkBegin, GetCurrentChunkIndex, GetCurrentMemType
  <2>2. PlacesIn' <=> PlacesIn
    BY <1>1 DEF PlacesIn, InBlock, EndsBlock
  <2> QED BY <1>1, <2>1, <2>2 DEF FirstPass, Fixed
<1>5. SecondPass' <=> SecondPass
  <2>1. Blocks2' <=> Blocks2
    BY <1>1 DEF Blocks2, InBlock, EndsBlock, Last
  <2>2. Followed' <=> Followed
    BY <1>1 DEF Followed, SamePlace, SameSymbols, Fixed, Last, GetCurrentChunkBegin,
                GetCurrentChunkIndex, GetCurrentMemType
  <2>3. Referred' <=> Referred
    BY <1>1 DEF Referred, Fixed, DsmLabelInL, Last
  <2>4. Verified(chunks, num_chunks2)' <=> Verified(chunks, num_chunks2)
    BY <1>1 DEF Verified
  <2> QED BY <1>1, <2>1, <2>2, <2>3, <2>4 DEF SecondPass
<1>6. Agreeing'
  BY <1>1, <1>3, <1>4, <1>5 DEF IInv, Agreeing
<1> QED BY <1>2, <1>6 DEF IInv

LEMMA InitIInv == Init => IInv
<1> SUFFICES ASSUME Init PROVE IInv
  OBVIOUS
<1>1. /\ hist = << >> /\ Len(hist) = 0 /\ 1 .. Len(hist) = {} /\ g_passNum = 0 /\ status = "run"
      /\ ~in_section /\ pc = 0 /\ num_chunks = 0 /\ refs = {}
  BY DEF Init
<1>2. \A n \in Names : placed[n] = Undef
  BY DEF Init
<1>3. Recorded /\ Added /\ Counting /\ Accepting
  BY <1>1 DEF Recorded, Added, Counting, Accepting
<1>4. Linked /\ Steady
  <2>1. 1 .. Len(hist) - 1 = {}
    BY <1>1
  <2> QED BY <1>1, <2>1 DEF Linked, Steady
<1>5. FirstPass
  BY <1>1, <1>2 DEF FirstPass, PlacesIn
<1>6. Agreeing
  BY <1>1, <1>4, <1>5 DEF Agreeing
<1> QED BY <1>3, <1>6, InitInv DEF IInv

LEMMA NextIInv == IInv /\ [Next]_vars => IInv'
<1> SUFFICES ASSUME IInv, [Next]_vars PROVE IInv'
  OBVIOUS
<1>1. TypeInv'
  BY NextInv DEF IInv
<1>2. ASSUME NEW s \in Stmts, ReadsLine(s) PROVE IInv'
  BY <1>1, <1>2, ReadsLineKept
<1>3. CASE EndPass1
  BY <1>1, <1>3, EndPass1Kept
<1>4. CASE EndPass2
  BY <1>1, <1>4, EndPass2Kept
<1>5. CASE UNCHANGED vars
  BY <1>1, <1>5, StutterKept
<1> QED BY <1>2, <1>3, <1>4, <1>5 DEF Next, ReadsLine

LEMMA Invariance == Spec => []IInv
BY InitIInv, NextIInv, PTL DEF Spec

\* What the invariant says of pass 2 of a regular program.
LEMMA InSecondPass ==
  ASSUME IInv, g_passNum = 1, Regular
  PROVE  SecondPass
BY DEF IInv, Agreeing, Clean

----------------------------------------------------------------------------
(* The theorems.                                                           *)

\* No phase error: in a regular program every line of pass 2 is read at the
\* address, in the section and with the symbol values pass 1 gave it
\* (CodeUtils.c, SymbolTable.c).
THEOREM NoPhaseError == Spec => []PhaseAgreement
<1>1. ASSUME IInv PROVE PhaseAgreement
  BY <1>1, InSecondPass DEF PhaseAgreement, SecondPass, Followed
<1> QED BY <1>1, Invariance, PTL

\* Pass 2 of a regular program stores only inside the blocks that
\* allocate_chunk took for the sizes of pass 1, and opens no further section.
THEOREM BoundedStores == Spec => []StoresInBounds
<1>1. ASSUME IInv PROVE StoresInBounds
  BY <1>1, InSecondPass DEF StoresInBounds, SecondPass
<1> QED BY <1>1, Invariance, PTL

\* In a section pc and c_ptr move together, three bytes to a word.
THEOREM WordsCounted == Spec => []PcCountsWords
<1>1. ASSUME IInv PROVE PcCountsWords
  <2> SUFFICES ASSUME in_section, status = "run", g_passNum = 0 \/ Regular
               PROVE  3 * (pc - GetCurrentChunkBegin) = c_ptr
    BY DEF PcCountsWords
  <2>1. TypeInv /\ Recorded /\ Counting
    BY <1>1 DEF IInv
  <2>2. CASE g_passNum = 0
    BY <2>1, <2>2 DEF Counting
  <2>3. CASE g_passNum = 1
    <3>1. SamePlace(line)
      BY <1>1, <2>3, InSecondPass DEF SecondPass, Followed
    <3>2. line \in 1 .. Len(hist)
      BY <2>1, <2>3 DEF TypeInv, TypeOK, Shape
    <3> QED BY <2>1, <3>1, <3>2 DEF SamePlace, Recorded
  <2> QED BY <2>1, <2>2, <2>3 DEF TypeInv, TypeOK
<1> QED BY <1>1, Invariance, PTL

\* verify_code finds nothing to report in a regular program.
THEOREM VerifiedAlways == Spec => []VerifyNeverFires
<1>1. ASSUME IInv PROVE VerifyNeverFires
  BY <1>1, InSecondPass DEF VerifyNeverFires, SecondPass
<1> QED BY <1>1, Invariance, PTL

\* A reference in the output of an accepted regular program is the place of
\* its label in the image.
THEOREM ExactReferences == Spec => []ReferencesExact
<1>1. ASSUME IInv PROVE ReferencesExact
  <2> SUFFICES ASSUME status = "accepted", Regular, NEW r \in refs, placed[r[1]] # Undef,
                      ~DsmLabelInL(r[1])
               PROVE  r[2] = placed[r[1]]
    BY DEF ReferencesExact
  <2>1. g_passNum = 1 /\ r \in Names \X Value
    BY <1>1 DEF IInv, Accepting, TypeInv, TypeOK
  <2>2. Referred
    BY <1>1, <2>1, InSecondPass DEF SecondPass
  <2>3. r[1] \in Names
    BY <2>1
  <2>4. Fixed(r[1]) /\ placed[r[1]] = Last.syms[r[1]]
    BY <2>2, <2>3 DEF Referred
  <2> QED BY <2>2, <2>4 DEF Referred
<1> QED BY <1>1, Invariance, PTL
=============================================================================
