-------------------------------- MODULE Output ---------------------------------
(***************************************************************************)
(* The files asm56k writes once a program is assembled without an error:    *)
(* OutputLod.c, OutputP56.c, OutputEmbededAsm.c and OutputEmbededC.c, in     *)
(* that order.  Every writer goes over the same sections; a section of L:    *)
(* memory is written as an X: and a Y: block of every other word.           *)
(*                                                                         *)
(* A LOD file is a sequence of lines, the others are sequences of words,     *)
(* the text of the embedded ones being left out.                            *)
(***************************************************************************)
EXTENDS Integers, Sequences, SequencesExt

CONSTANTS IntLimit,            \* 2 ^ 31: an int is less
          Addresses,           \* 2 ^ 24: how many addresses the header of a block tells apart
          Junk,                \* what fresh memory may hold, or letters be read as
          Sources              \* what is saved: chunks, symbols and the two options

T_PTR == 0
T_MACRO == 1
T_VALUE == 2

Chunks == [pc : Nat, mem_type : {0, 1, 2, 3}, words : Seq(Nat)]
ASSUME OutputAssumption ==
    IntLimit \in Nat \ {0} /\ Addresses \in Nat /\ Addresses >= 16 ^ 4 /\ Junk # {} /\ Junk \subseteq Nat
ASSUME SourcesAssumption ==
    \A s \in Sources : /\ s.chunks \in Seq(Chunks) /\ IsFiniteSet(s.symbols)
                       /\ s.zero \in BOOLEAN /\ s.listed \in BOOLEAN
                       /\ \A sym \in s.symbols : /\ sym.type \in 0 .. 2 /\ sym.mem_space \in -1 .. 3
                                                 /\ sym.val[1] \in Int /\ sym.val[2] \in Nat \ {0}
                                                 /\ sym.real \in BOOLEAN /\ (sym.real => sym.type = T_VALUE)
                       /\ \A s1, s2 \in s.symbols : s1.name = s2.name => s1 = s2

VARIABLES chunks,              \* the sections: pc, mem_type, words
          symbols,             \* the symbol table: name, type, mem_space, val, whether it is real
          g_write_zero_sections, g_output_symbols,
          writer, chunk,       \* the file being written, the section it is at
          lod, p56, embAsm, embC

outputVars == <<chunks, symbols, g_write_zero_sections, g_output_symbols, writer, chunk, lod, p56, embAsm, embC>>

P_MEM == 0
X_MEM == 1
Y_MEM == 2
L_MEM == 3
L_EQU == L_MEM + 1
Spaces == <<P_MEM, X_MEM, Y_MEM, L_MEM, L_EQU>>

Address(n) == n % Addresses
AllZero(c) == \A i \in DOMAIN c.words : c.words[i] = 0
\* Mutant: a section is kept when none of its words is zero.
MutKept(c) == g_write_zero_sections \/ \A i \in DOMAIN c.words : c.words[i] # 0
Kept(c) == g_write_zero_sections \/ ~AllZero(c)

\* The words of a section from offset on, all of them or every other one: as many
\* as the section has, or half of it.
Taken(c, offset, skip) ==
    IF skip = 0 THEN c.words ELSE [i \in 1 .. Len(c.words) \div 2 |-> c.words[2 * i - 1 + offset]]
Block(c, mem_type, offset, skip) == [mem |-> mem_type, pc |-> c.pc, words |-> Taken(c, offset, skip)]

\* Mutant: the halves of L: memory are swapped.
MutBlocksOf(c) == IF c.mem_type = L_MEM
                  THEN <<Block(c, X_MEM, 0, 1), Block(c, Y_MEM, 1, 1)>>
                  ELSE <<Block(c, c.mem_type, 0, 0)>>
BlocksOf(c) == IF c.mem_type = L_MEM
               THEN <<Block(c, X_MEM, 1, 1), Block(c, Y_MEM, 0, 1)>>
               ELSE <<Block(c, c.mem_type, 0, 0)>>

-------------------------------------------------------------------------------
(* The symbols of a LOD file. *)
\* What an int keeps of a longer one.
AsInt(n) == LET m == n % (2 * IntLimit) IN IF m < IntLimit THEN m ELSE m - 2 * IntLimit
Truncated(q) == IF q[1] < 0 THEN -(-q[1] \div q[2]) ELSE q[1] \div q[2]
\* A double outside the range of int gives the least one.
symbol_value(sym) ==
    LET t == Truncated(sym.val)
    IN IF ~sym.real THEN AsInt(sym.val[1])
       ELSE IF t \in -IntLimit .. IntLimit - 1 THEN t ELSE -IntLimit
symbol_cmp(s1, s2) == AsInt(symbol_value(s1) - symbol_value(s2))

\* Mutant: every symbol of the space is listed, whatever it is.
MutListed(sym, memspace) ==
    sym.mem_space = memspace \/ (memspace = L_EQU /\ sym.type = T_VALUE)
Listed(sym, memspace) ==
    \/ sym.mem_space = memspace /\ (sym.type = T_PTR \/ memspace = L_MEM)
    \/ memspace = L_EQU /\ sym.type = T_VALUE

\* qsort: an order in which none stands before a smaller one, or any if there is none.
Orders(syms) ==
    LET all == SetToSeqs(syms)
        sorted == {q \in all : \A i, j \in DOMAIN q : i < j => symbol_cmp(q[i], q[j]) <= 0}
    IN IF sorted = {} THEN all ELSE sorted

SymbolLine(sym) == [kind |-> "symbol", name |-> sym.name, value |-> symbol_value(sym)]
\* The ways a space's symbols may be listed.
OutputSymbols(memspace) ==
    LET syms == {sym \in symbols : Listed(sym, memspace)}
    IN IF syms = {} THEN {<<>>}
       ELSE {<<[kind |-> "_SYMBOL", space |-> memspace]>> \o [i \in DOMAIN q |-> SymbolLine(q[i])] : q \in Orders(syms)}

-------------------------------------------------------------------------------
(* One block in every format. *)
\* Lines of eight words, the last one shorter.
Rows(words) == [r \in 1 .. (Len(words) + 7) \div 8 |->
                   [kind |-> "words",
                    words |-> SubSeq(words, 8 * r - 7, IF 8 * r < Len(words) THEN 8 * r ELSE Len(words))]]
LOD_SaveData(b) == <<[kind |-> "_DATA", mem |-> b.mem, pc |-> b.pc]>> \o Rows(b.words)
SaveDataEmbeded(b) == <<b.mem, Address(b.pc), Len(b.words)>> \o b.words
\* Mutant: the file is as long as the section, without the header.
MutP56_SaveData(c, b, junk) ==
    SubSeq(SaveDataEmbeded(b) \o [i \in 1 .. Len(c.words) - Len(b.words) |-> junk], 1, Len(c.words))
\* The buffer has room for the whole section and is written whole.
P56_SaveData(c, b, junk) ==
    SaveDataEmbeded(b) \o [i \in 1 .. Len(c.words) - Len(b.words) |-> junk]

-------------------------------------------------------------------------------
Init ==
    /\ \E s \in Sources : /\ chunks = s.chunks /\ symbols = s.symbols
                          /\ g_write_zero_sections = s.zero /\ g_output_symbols = s.listed
    /\ writer = "lod" /\ chunk = 0
    /\ lod = <<>> /\ p56 = <<>> /\ embAsm = <<>> /\ embC = <<>>

Source == <<chunks, symbols, g_write_zero_sections, g_output_symbols>>
AtChunk(w) == writer = w /\ chunk \in 1 .. Len(chunks)
AtEnd(w) == writer = w /\ chunk = Len(chunks) + 1 /\ chunks # <<>>
Go(w) == writer' = w /\ chunk' = 0

\* The header; without sections nothing follows it, not even the end.
SaveFileLod ==
    /\ writer = "lod" /\ chunk = 0
    /\ lod' = <<[kind |-> "_START"]>>
    /\ IF chunks = <<>> THEN Go("p56") ELSE chunk' = 1 /\ UNCHANGED writer
    /\ UNCHANGED <<Source, p56, embAsm, embC>>
LodChunk ==
    /\ AtChunk("lod")
    /\ lod' = lod \o IF Kept(chunks[chunk])
                     THEN FlattenSeq([i \in DOMAIN BlocksOf(chunks[chunk]) |-> LOD_SaveData(BlocksOf(chunks[chunk])[i])])
                     ELSE <<>>
    /\ chunk' = chunk + 1
    /\ UNCHANGED <<Source, writer, p56, embAsm, embC>>
LodEnd ==
    /\ AtEnd("lod")
    /\ IF g_output_symbols
       THEN \E p \in OutputSymbols(P_MEM), x \in OutputSymbols(X_MEM), y \in OutputSymbols(Y_MEM),
               l \in OutputSymbols(L_MEM), n \in OutputSymbols(L_EQU) :
                lod' = lod \o p \o x \o y \o l \o n \o <<[kind |-> "_END"]>>
       ELSE lod' = lod \o <<[kind |-> "_END"]>>
    /\ Go("p56")
    /\ UNCHANGED <<Source, p56, embAsm, embC>>

\* No P56 file is written without sections.
SaveFileP56 ==
    /\ writer = "p56" /\ chunk = 0
    /\ IF chunks = <<>> THEN Go("asm") ELSE chunk' = 1 /\ UNCHANGED writer
    /\ UNCHANGED <<Source, lod, p56, embAsm, embC>>
P56Chunk ==
    /\ AtChunk("p56")
    /\ LET c == chunks[chunk]
           blocks == BlocksOf(c)
       IN IF Kept(c)
          THEN \E junk \in [DOMAIN blocks -> Junk] :
                  p56' = p56 \o FlattenSeq([i \in DOMAIN blocks |-> P56_SaveData(c, blocks[i], junk[i])])
          ELSE UNCHANGED p56
    /\ chunk' = chunk + 1
    /\ UNCHANGED <<Source, writer, lod, embAsm, embC>>
P56End == AtEnd("p56") /\ Go("asm") /\ UNCHANGED <<Source, lod, p56, embAsm, embC>>

\* The two embedded files differ in the word 3 that ends the C one.
Embedded(c) == IF Kept(c)
               THEN FlattenSeq([i \in DOMAIN BlocksOf(c) |-> SaveDataEmbeded(BlocksOf(c)[i])])
               ELSE <<>>
SaveFileEmbeded ==
    /\ writer = "asm" /\ chunk = 0
    /\ IF chunks = <<>> THEN Go("c") ELSE chunk' = 1 /\ UNCHANGED writer
    /\ UNCHANGED <<Source, lod, p56, embAsm, embC>>
AsmChunk ==
    /\ AtChunk("asm")
    /\ embAsm' = embAsm \o Embedded(chunks[chunk])
    /\ chunk' = chunk + 1
    /\ UNCHANGED <<Source, writer, lod, p56, embC>>
AsmEnd == AtEnd("asm") /\ Go("c") /\ UNCHANGED <<Source, lod, p56, embAsm, embC>>
SaveFileEmbededC ==
    /\ writer = "c" /\ chunk = 0
    /\ IF chunks = <<>> THEN Go("saved") ELSE chunk' = 1 /\ UNCHANGED writer
    /\ UNCHANGED <<Source, lod, p56, embAsm, embC>>
CChunk ==
    /\ AtChunk("c")
    /\ embC' = embC \o Embedded(chunks[chunk])
    /\ chunk' = chunk + 1
    /\ UNCHANGED <<Source, writer, lod, p56, embAsm>>
CEnd ==
    /\ AtEnd("c")
    /\ embC' = Append(embC, 3)
    /\ Go("saved")
    /\ UNCHANGED <<Source, lod, p56, embAsm>>

Save == \/ SaveFileLod \/ LodChunk \/ LodEnd
        \/ SaveFileP56 \/ P56Chunk \/ P56End
        \/ SaveFileEmbeded \/ AsmChunk \/ AsmEnd
        \/ SaveFileEmbededC \/ CChunk \/ CEnd
===============================================================================
