------------------------------ MODULE TwoPass ------------------------------
(***************************************************************************)
(* The two passes of asm56k over one source program.                       *)
(*                                                                         *)
(* Pass 1 parses the program to lay out the sections ("chunks") and to     *)
(* give every label its address; pass 2 parses the same program again,     *)
(* stores the words and resolves the references with the addresses that    *)
(* pass 1 left in the symbol table.  Nothing but the counters of           *)
(* CodeUtils.c ties the passes together: pass 2 stores through c_ptr into  *)
(* a block whose size pass 1 computed, and only verify_code compares the   *)
(* lengths, when everything has been stored.                               *)
(*                                                                         *)
(* A statement stands for one line of the grammar in Parser.y.  The        *)
(* program is chosen line by line while pass 1 reads it (every program of  *)
(* at most MaxLines lines over Stmts is reached) and hist remembers it,    *)
(* with what pass 1 saw on each line; pass 2 reads hist.                   *)
(***************************************************************************)
EXTENDS Integers, Sequences

CONSTANTS
  Names,      \* symbols of the program
  None,       \* no symbol
  Undef,      \* kUnresolved: the value of a symbol that is not defined yet
  Star,       \* the operand '*', the current pc
  Stmts,      \* the statements a program is written with
  Defs,       \* symbols the command line may define with -D
  Garbage,    \* what an unresolved value holds when read as an integer
  MaxLines,   \* bound: lines of a program
  MaxChunks   \* entries of chunks[] (1024 in the code)

P_MEM == 0
X_MEM == 1
Y_MEM == 2
L_MEM == 3
Mems  == P_MEM .. L_MEM

Operands == Int \cup Names \cup {Star}

\* op: the statement; name: its label or symbol; arg: its expression;
\* mem: the space of ORG; n1, n2: words of an instruction in pass 1 and 2, or
\* n1: bytes of a string, or n1 = 1: the operand of ORG is written '>exp'.
Statement == [op   : {"org", "code", "dc", "ds", "align", "dsm", "str",
                      "label", "equ", "set", "end"},
              name : Names \cup {None},
              arg  : Operands,
              mem  : Mems,
              n1   : Nat,
              n2   : Nat]

EndStmt == [op |-> "end", name |-> None, arg |-> 0, mem |-> P_MEM, n1 |-> 0, n2 |-> 0]

ASSUME NamesAssumption ==
  /\ Names \cap Int = {}
  /\ None \notin Names
  /\ Undef \notin Int \cup Names
  /\ Star \notin Int \cup Names
  /\ Defs \subseteq Names

ASSUME BoundAssumption ==
  /\ MaxLines \in Nat
  /\ MaxChunks \in Nat \ {0}
  /\ Garbage \subseteq Int

\* A symbol is not defined in terms of itself; every name a statement needs is
\* there.
ASSUME StmtsAssumption ==
  /\ Stmts \subseteq Statement
  /\ \A s \in Stmts : /\ s.op # "end"
                      /\ s.arg # s.name
                      /\ s.op \in {"label", "equ", "set"} => s.name # None

VARIABLES
  g_passNum,     \* 0 in pass 1, 1 in pass 2
  pc,            \* runtime address, in words
  c_ptr,         \* bytes stored so far in the current chunk
  in_section,    \* an ORG has been seen
  num_chunks,    \* current chunk in pass 1, then their number
  num_chunks2,   \* current chunk in pass 2
  chunks,        \* chunks[]
  m_val,         \* value of every symbol, Undef when not in the table
  mem_space,     \* hs.mem_space of every symbol, -1 at first
  errors,        \* g_errorCount # 0
  status,        \* "run" or how the assembly ended
  line,          \* line about to be parsed
  hist,          \* the lines parsed in pass 1 and what pass 1 saw there
  refs,          \* history: <<symbol, value>> stored into the output
  placed         \* history: address in the image of every label of pass 2

layout  == <<pc, c_ptr, in_section, num_chunks, num_chunks2, chunks>>
symbols == <<m_val, mem_space>>
history == <<refs, placed>>
vars    == <<g_passNum, layout, symbols, errors, status, line, hist, history>>

----------------------------------------------------------------------------
(* What the statements read.                                               *)

GetCurrentChunkIndex == IF g_passNum # 0 THEN num_chunks2 ELSE num_chunks
GetCurrentMemType    == chunks[GetCurrentChunkIndex].mem_type
GetCurrentChunkBegin == chunks[GetCurrentChunkIndex].pc

\* Mutant: pass 1 counts one word for a datum in L: memory.
MutWidth == IF g_passNum # 0 /\ GetCurrentMemType = L_MEM THEN 2 ELSE 1

\* Words a datum takes in the current section.
Width == IF GetCurrentMemType = L_MEM THEN 2 ELSE 1

\* The value of an expression.
Exp(arg) == CASE arg = Star     -> pc
              [] arg \in Names  -> m_val[arg]
              [] OTHER          -> arg

\* In pass 2 an expression with an undefined symbol is an error of its own.
Undefined(arg) == g_passNum # 0 /\ Exp(arg) = Undef

\* Mutant: no correction of the address in L: memory.
MutLabelAddress == pc

\* The address AddSym gives a label: L: words are counted twice in pc.
LabelAddress == IF GetCurrentMemType = L_MEM
                THEN GetCurrentChunkBegin + ((pc - GetCurrentChunkBegin) \div 2)
                ELSE pc

\* The address at which a loader puts what is stored at byte off.
ImageAddress(off) == GetCurrentChunkBegin + (off \div (3 * Width))

\* What pass 1 saw before a line.
Pos == [pc         |-> pc,
        c_ptr      |-> c_ptr,
        in_section |-> in_section,
        chunk      |-> GetCurrentChunkIndex,
        mem        |-> GetCurrentMemType,
        begin      |-> GetCurrentChunkBegin]

\* Statement s is the next one.
Reading(s) ==
  /\ status = "run"
  /\ IF g_passNum = 0 THEN Len(hist) < MaxLines ELSE hist[line].stmt = s

NextLine(s) ==
  /\ line' = line + 1
  /\ hist' = IF g_passNum = 0
             THEN Append(hist, [stmt |-> s, val |-> Exp(s.arg), pos |-> Pos, syms |-> m_val])
             ELSE hist
  /\ UNCHANGED <<g_passNum, status>>

yyerror == errors' = TRUE

\* The assembler ends in the middle of a statement: "aborted" by asm_abort,
\* "crashed" by an illegal operation, "wild" when it stores outside the block
\* or the array (what follows is undefined).
Dies(how) ==
  /\ status' = how
  /\ errors' = (errors \/ how = "aborted")
  /\ UNCHANGED <<g_passNum, layout, symbols, line, hist, history>>

\* A statement that only reports an error.
Rejects(s) ==
  /\ NextLine(s)
  /\ yyerror
  /\ UNCHANGED <<layout, symbols, history>>

----------------------------------------------------------------------------
(* Storing.  Pass 1 only counts; pass 2 writes into the chunk's block.     *)

Fits(bytes) ==
  \/ g_passNum = 0
  \/ bytes = 0
  \/ in_section /\ c_ptr + bytes <= chunks[num_chunks2].code_len

\* Mutant: an instruction of two words moves pc by one.
MutStore(words, bytes, data) ==
  /\ pc' = pc + (IF data THEN 1 ELSE words)
  /\ c_ptr' = c_ptr + bytes
  /\ chunks' = IF data THEN [chunks EXCEPT ![GetCurrentChunkIndex].hasdata = TRUE]
                       ELSE chunks
  /\ UNCHANGED <<in_section, num_chunks, num_chunks2>>

Store(words, bytes, data) ==
  /\ pc' = pc + words
  /\ c_ptr' = c_ptr + bytes
  /\ chunks' = IF data THEN [chunks EXCEPT ![GetCurrentChunkIndex].hasdata = TRUE]
                       ELSE chunks
  /\ UNCHANGED <<in_section, num_chunks, num_chunks2>>

\* A reference to a symbol that ends up in the output.
Refer(arg) ==
  refs' = IF g_passNum # 0 /\ arg \in Names THEN refs \cup {<<arg, m_val[arg]>>} ELSE refs

\* insert_vcode_w in pass 1, insert_code_w in pass 2, for an expression arg.
\* L: memory takes no instruction.
InsertCode(s, words, isCode) ==
  IF g_passNum = 0 /\ ~in_section
  THEN Dies("aborted")
  ELSE IF ~Fits(3 * words)
  THEN Dies("wild")
  ELSE /\ NextLine(s)
       /\ Store(words, 3 * words, TRUE)
       /\ Refer(s.arg)
       /\ errors' = (errors \/ Undefined(s.arg) \/ (isCode /\ GetCurrentMemType = L_MEM))
       /\ UNCHANGED <<symbols, placed>>

\* An instruction of n1 words in pass 1 and n2 words in pass 2.
Code(s) ==
  /\ s.op = "code"
  /\ Reading(s)
  /\ InsertCode(s, IF g_passNum = 0 THEN s.n1 ELSE s.n2, TRUE)

GenDc(s) ==
  /\ s.op = "dc"
  /\ Reading(s)
  /\ InsertCode(s, Width, FALSE)

\* DC "string": the text, its terminator and padding up to a whole word.
StringWords(len) == (len + 3) \div 3
StringBytes(pass, len) ==
  IF pass = 0 THEN 3 * StringWords(len)
              ELSE (len + 1) + ((3 * StringWords(len)) % (len + 1))

InsertString(s) ==
  /\ s.op = "str"
  /\ Reading(s)
  /\ LET bytes == StringBytes(g_passNum, s.n1)
     IN  IF ~Fits(bytes)
         THEN Dies("wild")
         ELSE /\ NextLine(s)
              /\ Store(StringWords(s.n1), bytes, TRUE)
              /\ UNCHANGED <<symbols, errors, history>>

\* Bytes a loop of n rounds writes: pass 2 writes none when n is negative.
Zeros(n) == IF g_passNum # 0 /\ n < 0 THEN 0 ELSE n

GenDS(s) ==
  /\ s.op = "ds"
  /\ Reading(s)
  /\ LET val   == Exp(s.arg)
         words == val * Width
     IN  \/ val = Undef /\ Rejects(s)
         \/ val # Undef /\ ~Fits(Zeros(3 * words)) /\ Dies("wild")
         \/ /\ val # Undef /\ Fits(Zeros(3 * words))
            /\ NextLine(s)
            /\ Store(words, Zeros(3 * words), FALSE)
            /\ UNCHANGED <<symbols, errors, history>>

\* Words GenAlign skips to make pc a multiple of val (doubled in L: memory).
Abs(n) == IF n < 0 THEN -n ELSE n
Padding(val) == (-pc) % Abs(val * Width)

GenAlign(s) ==
  /\ s.op = "align"
  /\ Reading(s)
  /\ LET val == Exp(s.arg)
     IN  \/ val = Undef /\ Rejects(s)
         \/ val = 0 /\ Dies("crashed")                        \* pc % 0
         \/ val \notin {Undef, 0} /\ ~Fits(3 * Padding(val)) /\ Dies("wild")
         \/ /\ val \notin {Undef, 0} /\ Fits(3 * Padding(val))
            /\ NextLine(s)
            /\ Store(Padding(val), 3 * Padding(val), FALSE)
            /\ UNCHANGED <<symbols, errors, history>>

----------------------------------------------------------------------------
(* Symbols.                                                                *)

\* AddLabel and AddSym: pass 1 enters the symbol once, pass 2 finds it.
Duplicate(name) == g_passNum = 0 /\ m_val[name] # Undef

AddLabel(name) ==
  /\ m_val' = IF g_passNum = 0 THEN [m_val EXCEPT ![name] = LabelAddress] ELSE m_val
  /\ mem_space' = [mem_space EXCEPT ![name] = GetCurrentMemType]

Placed(name, off) ==
  placed' = IF g_passNum # 0 /\ in_section THEN [placed EXCEPT ![name] = ImageAddress(off)] ELSE placed

Label(s) ==
  /\ s.op = "label"
  /\ Reading(s)
  /\ IF Duplicate(s.name)
     THEN Rejects(s)
     ELSE /\ NextLine(s)
          /\ AddLabel(s.name)
          /\ Placed(s.name, c_ptr)
          /\ UNCHANGED <<layout, errors, refs>>

\* label EQU exp: the label is added first; a duplicate is a NULL symbol.
Equ(s) ==
  /\ s.op = "equ"
  /\ Reading(s)
  /\ \/ Duplicate(s.name) /\ Dies("crashed")                  \* $1->pString
     \/ /\ ~Duplicate(s.name)
        /\ NextLine(s)
        /\ mem_space' = [mem_space EXCEPT ![s.name] = GetCurrentMemType]
        /\ IF Exp(s.arg) = Undef
           THEN yyerror /\ m_val' = [m_val EXCEPT ![s.name] = IF g_passNum = 0 THEN LabelAddress ELSE @]
           ELSE UNCHANGED errors /\ m_val' = [m_val EXCEPT ![s.name] = Exp(s.arg)]
        /\ UNCHANGED <<layout, history>>

\* SET name, exp
SymSet(s) ==
  /\ s.op = "set"
  /\ Reading(s)
  /\ IF m_val[s.name] = Undef \/ Exp(s.arg) = Undef
     THEN Rejects(s)
     ELSE /\ NextLine(s)
          /\ m_val' = [m_val EXCEPT ![s.name] = Exp(s.arg)]
          /\ UNCHANGED <<layout, mem_space, errors, history>>

\* [label] DSM exp: align to the smallest power of two that holds the buffer,
\* then reserve it.
Powers == {1, 2, 4, 8, 16, 32, 64, 128, 256, 512, 1024, 2048, 4096, 8192, 16384, 32768, 65536}
DsmAlign(val) == CHOOSE p \in Powers : val <= p /\ p < 2 * val
DsmSkip(val)  == IF pc % DsmAlign(val) = 0 THEN 0 ELSE Padding(DsmAlign(val))
DsmLegal(val) == 0 < val /\ val < 65536

GenDSM(s) ==
  /\ s.op = "dsm"
  /\ Reading(s)
  /\ LET val   == Exp(s.arg)
         named == s.name # None /\ ~Duplicate(s.name)
         skip  == DsmSkip(val)
         words == skip + val * Width
     IN  \/ /\ ~(val # Undef /\ DsmLegal(val))
            /\ NextLine(s)
            /\ yyerror
            /\ IF named THEN AddLabel(s.name) /\ Placed(s.name, c_ptr)
                        ELSE UNCHANGED <<symbols, placed>>
            /\ UNCHANGED <<layout, refs>>
         \/ val # Undef /\ DsmLegal(val) /\ ~Fits(3 * words) /\ Dies("wild")
         \/ /\ val # Undef /\ DsmLegal(val) /\ Fits(3 * words)
            /\ NextLine(s)
            /\ Store(words, 3 * words, FALSE)
            /\ errors' = (errors \/ (s.name # None /\ ~named))
            /\ IF named
               THEN /\ mem_space' = [mem_space EXCEPT ![s.name] = GetCurrentMemType]
                    /\ m_val' = IF pc % DsmAlign(val) # 0
                                THEN [m_val EXCEPT ![s.name] = pc + skip]
                                ELSE IF g_passNum = 0 THEN [m_val EXCEPT ![s.name] = LabelAddress] ELSE m_val
                    /\ Placed(s.name, c_ptr + 3 * skip)
               ELSE UNCHANGED <<symbols, placed>>
            /\ UNCHANGED refs

----------------------------------------------------------------------------
(* Sections and passes.                                                    *)

\* exp_int: an unresolved expression reads as 0, or with '>' as whatever the
\* value's uninitialised field holds.
OrgAddresses(s) ==
  IF Exp(s.arg) # Undef THEN {Exp(s.arg)} ELSE IF s.n1 = 1 THEN Garbage ELSE {0}

NextChunk == IF in_section THEN GetCurrentChunkIndex + 1 ELSE GetCurrentChunkIndex

\* Mutant: the arguments of GenOrg swapped.
MutOpened(ch, mem, address) ==
  [ch EXCEPT ![NextChunk] = [@ EXCEPT !.mem_type = address, !.pc = mem, !.hasdata = FALSE]]

Opened(ch, mem, address) ==
  [ch EXCEPT ![NextChunk] = [@ EXCEPT !.mem_type = mem, !.pc = address, !.hasdata = FALSE]]

\* ORG: allocate_vchunk in pass 1, allocate_chunk in pass 2.
GenOrg(s) ==
  /\ s.op = "org"
  /\ Reading(s)
  /\ \E address \in OrgAddresses(s) :
       \/ NextChunk >= MaxChunks /\ Dies("wild")
       \/ /\ NextChunk < MaxChunks
          /\ g_passNum # 0 /\ chunks[NextChunk].code_len < 0    \* malloc fails
          /\ Dies("aborted")
       \/ /\ NextChunk < MaxChunks
          /\ g_passNum # 0 => chunks[NextChunk].code_len >= 0
          /\ NextLine(s)
          /\ pc' = address
          /\ c_ptr' = 0
          /\ in_section' = TRUE
          /\ IF g_passNum = 0
             THEN /\ num_chunks' = NextChunk
                  /\ UNCHANGED num_chunks2
                  /\ chunks' = Opened(IF in_section THEN [chunks EXCEPT ![num_chunks].code_len = c_ptr]
                                                    ELSE chunks, s.mem, address)
             ELSE /\ num_chunks2' = NextChunk
                  /\ UNCHANGED num_chunks
                  /\ chunks' = Opened(IF in_section THEN [chunks EXCEPT ![num_chunks2].code_len2 = c_ptr]
                                                    ELSE chunks, s.mem, address)
          /\ errors' = (errors \/ Undefined(s.arg))
          /\ UNCHANGED <<symbols, history>>

\* The chunk table when close_vchunk has run (mutant: it is not called).
MutClosedV == chunks
ClosedV == IF in_section THEN [chunks EXCEPT ![num_chunks].code_len = c_ptr] ELSE chunks

\* END or the end of the source in pass 1: close_vchunk and InitParserPass2,
\* unless there was an error.
EndPass1 ==
  /\ status = "run" /\ g_passNum = 0
  /\ IF errors
     THEN Dies("rejected")
     ELSE /\ chunks' = ClosedV
          /\ num_chunks' = NextChunk
          /\ in_section' = FALSE
          /\ g_passNum' = 1
          /\ pc' = 0
          /\ line' = 1
          /\ hist' = Append(hist, [stmt |-> EndStmt, val |-> 0, pos |-> Pos, syms |-> m_val])
          /\ UNCHANGED <<c_ptr, num_chunks2, symbols, errors, status, history>>

\* The end of pass 2: close_chunk and verify_code, then the output is written
\* if no error was reported.
MutClosed == chunks
Closed == IF in_section THEN [chunks EXCEPT ![num_chunks2].code_len2 = c_ptr] ELSE chunks

Verified(ch, n2) ==
  /\ num_chunks = n2
  /\ \A a \in 0 .. num_chunks - 1 : ch[a].code_len = ch[a].code_len2

EndPass2 ==
  /\ status = "run" /\ g_passNum = 1
  /\ hist[line].stmt = EndStmt
  /\ chunks' = Closed
  /\ num_chunks2' = NextChunk
  /\ errors' = (errors \/ ~Verified(Closed, NextChunk))
  /\ status' = IF errors' THEN "rejected" ELSE "accepted"
  /\ UNCHANGED <<g_passNum, pc, c_ptr, in_section, num_chunks, symbols, line, hist, history>>

Init ==
  /\ g_passNum = 0
  /\ pc = 0
  /\ c_ptr = 0
  /\ in_section = FALSE
  /\ num_chunks = 0
  /\ num_chunks2 = 0
  /\ chunks = [i \in 0 .. MaxChunks - 1 |->
                 [pc |-> 0, mem_type |-> P_MEM, code_len |-> 0, code_len2 |-> 0, hasdata |-> FALSE]]
  /\ \E D \in SUBSET Defs : m_val = [n \in Names |-> IF n \in D THEN 1 ELSE Undef]
  /\ mem_space = [n \in Names |-> -1]
  /\ errors = FALSE
  /\ status = "run"
  /\ line = 1
  /\ hist = << >>
  /\ refs = {}
  /\ placed = [n \in Names |-> Undef]

Next ==
  \/ \E s \in Stmts :
       \/ Code(s) \/ GenDc(s) \/ InsertString(s)
       \/ GenDS(s) \/ GenAlign(s) \/ GenDSM(s)
       \/ Label(s) \/ Equ(s) \/ SymSet(s)
       \/ GenOrg(s)
  \/ EndPass1
  \/ EndPass2

Spec == Init /\ [][Next]_vars

----------------------------------------------------------------------------
(* Properties.                                                             *)

Chunk == [pc : Int, mem_type : Mems, code_len : Int, code_len2 : Int, hasdata : BOOLEAN]
Value == Int \cup {Undef}
Place == [pc : Int, c_ptr : Int, in_section : BOOLEAN, chunk : Nat, mem : Mems, begin : Int]
Line  == [stmt : Stmts \cup {EndStmt}, val : Value, pos : Place, syms : [Names -> Value]]

\* Types of the variables.
TypeOK ==
  /\ g_passNum \in {0, 1}
  /\ pc \in Int /\ c_ptr \in Int
  /\ in_section \in BOOLEAN /\ errors \in BOOLEAN
  /\ num_chunks \in 0 .. MaxChunks /\ num_chunks2 \in 0 .. MaxChunks
  /\ chunks \in [0 .. MaxChunks - 1 -> Chunk]
  /\ m_val \in [Names -> Value] /\ mem_space \in [Names -> Mems \cup {-1}]
  /\ status \in {"run", "accepted", "rejected", "aborted", "crashed", "wild"}
  /\ hist \in Seq(Line) /\ line \in 1 .. Len(hist) + 1
  /\ refs \subseteq Names \X Value /\ placed \in [Names -> Value]

\* What a line may not do if the two passes are to agree: open a section at a
\* forward reference, reserve a negative space, store an empty string, store
\* before any section is open, have another size in pass 2, or set a symbol
\* that no EQU above it defines (a label, or a symbol of the command line).
RegularLine(k) ==
  LET h == hist[k] IN
  /\ h.stmt.op = "org" => h.val # Undef
  /\ h.stmt.op \in {"ds", "align", "dsm", "str"} => h.pos.in_section
  /\ h.stmt.op = "ds" /\ h.val # Undef => h.val >= 0
  /\ h.stmt.op = "str" => h.stmt.n1 > 0
  /\ h.stmt.op = "code" => h.stmt.n1 = h.stmt.n2
  /\ h.stmt.op = "set" =>
       \E j \in 1 .. k - 1 : hist[j].stmt.op = "equ" /\ hist[j].stmt.name = h.stmt.name

Regular == \A k \in 1 .. Len(hist) : RegularLine(k)

\* The pass-2 state agrees with what pass 1 saw before line k.
SamePlace(k) ==
  /\ pc = hist[k].pos.pc
  /\ in_section = hist[k].pos.in_section
  /\ GetCurrentChunkIndex = hist[k].pos.chunk
  /\ in_section => /\ c_ptr = hist[k].pos.c_ptr
                   /\ GetCurrentMemType = hist[k].pos.mem
                   /\ GetCurrentChunkBegin = hist[k].pos.begin

SameSymbols(k) ==
  \A n \in Names : hist[k].syms[n] # Undef => m_val[n] = hist[k].syms[n]

\* In a regular program pass 2 reaches every line with the pc, the position in
\* the section and the symbol values pass 1 had there: no phase error.
PhaseAgreement ==
  g_passNum = 1 /\ status = "run" /\ Regular => SamePlace(line) /\ SameSymbols(line)

\* In a regular program pass 2 never stores outside the block pass 1 sized,
\* never opens a section beyond those of pass 1 and never fails half-way.
StoresInBounds ==
  g_passNum = 1 /\ Regular => status \in {"run", "accepted", "rejected"}

\* Inside a section the address counts the words stored since its start, as
\* long as no line is irregular; in pass 1 always.
PcCountsWords ==
  in_section /\ status = "run" /\ (g_passNum = 0 \/ Regular) =>
    3 * (pc - GetCurrentChunkBegin) = c_ptr

\* A regular program pass 2 rejects has an undefined symbol: verify_code's
\* "Internal error" is never the reason.
VerifyNeverFires ==
  g_passNum = 1 /\ status \in {"accepted", "rejected"} /\ Regular =>
    Verified(chunks, num_chunks2)

\* DSM in L: memory gives its label the raw pc (SymSetValue in GenDSM).
DsmLabelInL(n) ==
  \E k \in 1 .. Len(hist) : /\ hist[k].stmt.op = "dsm" /\ hist[k].stmt.name = n
                            /\ hist[k].pos.mem = L_MEM

\* Every reference stored in the output of an accepted regular program is the
\* address at which the image holds the label it names.
ReferencesExact ==
  status = "accepted" /\ Regular =>
    \A r \in refs : placed[r[1]] # Undef /\ ~DsmLabelInL(r[1]) => r[2] = placed[r[1]]

\* What the readme says of a reference: it names the place of its label.  In
\* an accepted program, whatever its lines.
ReferencesResolved ==
  status = "accepted" => \A r \in refs : placed[r[1]] # Undef => r[2] = placed[r[1]]

\* What the comment in InsertString says: a string is padded to whole words.
WholeWords == in_section /\ status = "run" => c_ptr % 3 = 0
=============================================================================
