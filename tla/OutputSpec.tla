------------------------------ MODULE OutputSpec -------------------------------
(***************************************************************************)
(* What the output files promise: each of them, read by the format that     *)
(* OutputP56.c describes, gives the sections back, they load the same        *)
(* memory, and the converter makes of the LOD file what the assembler        *)
(* writes itself.                                                           *)
(***************************************************************************)
EXTENDS Lod2P56

Finished == writer = "saved"
ConverterStopped == mode \in {"done", "failed", "dead"}

(* The files hold words and lines of the formats, and no writer skips a section. *)
TypeOK ==
    /\ writer \in {"lod", "p56", "asm", "c", "saved"} /\ chunk \in 0 .. Len(chunks) + 1
    /\ mode \in {"seek", "token", "convert", "within", "done", "failed", "dead"}
    /\ curptr \in 1 .. Len(lod) + 1
    /\ size_loc \in 0 .. Len(binbuff)
    /\ mode \in {"convert", "within"} => size_loc # 0 /\ Finished
    /\ \A i \in DOMAIN lod : lod[i].kind \in {"_START", "_DATA", "words", "_SYMBOL", "symbol", "_END"}

\* The blocks in a sequence of words: memory, address, size, data (OutputP56.c:8-17);
\* a block that claims more words than there are is cut.
ParsedFrom(ws) ==
    LET from[i \in 1 .. Len(ws) + 3] ==
            IF i + 2 > Len(ws) THEN <<>>
            ELSE LET last == i + 2 + ws[i + 2]
                 IN IF last > Len(ws) THEN << [mem |-> ws[i], pc |-> ws[i + 1], words |-> SubSeq(ws, i + 3, Len(ws))] >>
                    ELSE << [mem |-> ws[i], pc |-> ws[i + 1], words |-> SubSeq(ws, i + 3, last)] >> \o from[last + 1]
    IN from[1]

\* The blocks a section is: an L: section of 2n words is n words of X: and of Y:,
\* one of an odd number of words loses the last.
ExpectedOf(c) ==
    LET n == Len(c.words) \div 2
        block(m, ws) == [mem |-> m, pc |-> Address(c.pc), words |-> ws]
    IN IF (\A k \in DOMAIN c.words : c.words[k] = 0) /\ ~g_write_zero_sections THEN <<>>
       ELSE IF c.mem_type = L_MEM
       THEN <<block(X_MEM, [k \in 1 .. n |-> c.words[2 * k]]), block(Y_MEM, [k \in 1 .. n |-> c.words[2 * k - 1]])>>
       ELSE <<block(c.mem_type, c.words)>>
ExpectedUpTo(n) == FlattenSeq([i \in 1 .. n |-> ExpectedOf(chunks[i])])
Expected == ExpectedUpTo(Len(chunks))

\* The embedded files read back as the sections, in their order: the sizes in the
\* blocks are those of the data that follows.  The C one ends in a word more.
EmbeddedReadsBack ==
    Finished => /\ ParsedFrom(embAsm) = Expected
                /\ IF chunks = <<>> THEN embC = <<>> ELSE embC = Append(embAsm, 3)

\* So does the P56 file of a program without L: sections; a block of an L: section is
\* followed by the rest of the buffer it was built in (OutputP56.c:59), and what
\* comes after the first of them is not found where its size says.
Halved == {i \in DOMAIN chunks : chunks[i].mem_type = L_MEM /\ ExpectedOf(chunks[i]) # <<>> /\ chunks[i].words # <<>>}
P56ReadsBack ==
    Finished => IF Halved = {} THEN ParsedFrom(p56) = Expected
                ELSE LET h == Min(Halved)
                     IN IsPrefix(Append(ExpectedUpTo(h - 1), ExpectedOf(chunks[h])[1]), ParsedFrom(p56))

\* The converter makes of the LOD file the blocks of the sections, whatever symbols
\* it lists: unless an address has more than four digits, a block more words than
\* fit its size or binbuff, or a symbol is named like the token DATA.
LodConverts ==
    ConverterStopped /\ (\A i \in DOMAIN chunks : /\ chunks[i].pc < 16 ^ 4
                                                   /\ Len(chunks[i].words) < Sizes)
                     /\ (\A i \in DOMAIN lod : lod[i].kind = "symbol" => lod[i].name[1] \notin DataNames)
                     /\ Len(embAsm) <= BinWords =>
        mode = "done" /\ binbuff = embAsm

\* Loading blocks, one after the other, into memory of zeros.
Places == {X_MEM, Y_MEM, P_MEM} \X {Address(c.pc + k) : c \in ToSet(chunks), k \in 0 .. 8}
Load(image, b) == [p \in Places |-> IF p[1] = b.mem /\ p[2] - b.pc + 1 \in DOMAIN b.words
                                    THEN b.words[p[2] - b.pc + 1] ELSE image[p]]
Loaded(blocks) == FoldLeft(Load, [p \in Places |-> 0], blocks)
AllOf(c) == [k \in DOMAIN BlocksOf(c) |-> [BlocksOf(c)[k] EXCEPT !.pc = Address(@)]]
Everything == FlattenSeq([i \in DOMAIN chunks |-> AllOf(chunks[i])])
\* Sections whose zeros go over words that an earlier section put there.
Covered(c) == {<<b.mem, Address(c.pc) + k>> : b \in ToSet(BlocksOf(c)), k \in 0 .. Len(c.words) - 1}
Clears(j) == AllZero(chunks[j]) /\ \E i \in 1 .. j - 1 : Covered(chunks[j]) \cap Covered(chunks[i]) # {}
\* Leaving out the sections of zeros changes nothing that is loaded, unless such a
\* section is meant to clear what an earlier one loads.
ImageKept ==
    Finished /\ (g_write_zero_sections \/ \A j \in DOMAIN chunks : ~Clears(j)) =>
        Loaded(ParsedFrom(embAsm)) = Loaded(Everything)

\* The sections of symbols that are read back: space and names, in their order.
SymbolsOf(space) ==
    {lod[i] : i \in {k \in DOMAIN lod : /\ lod[k].kind = "symbol"
                                        /\ \E h \in 1 .. k : /\ lod[h] = [kind |-> "_SYMBOL", space |-> space]
                                                             /\ \A m \in h + 1 .. k : lod[m].kind = "symbol"}}
\* Every label is listed once, with its space, every value once under N, no macro is,
\* and a list rises (whatever of L: memory is a value or a macro is listed with its
\* labels, and values more than an int apart may stand in any order).
SymbolsListed ==
    Finished /\ g_output_symbols /\ chunks # <<>> =>
        /\ \A sym \in symbols : \A i \in DOMAIN Spaces :
              LET line == [kind |-> "symbol", name |-> sym.name, value |-> symbol_value(sym)]
                  meant == IF sym.type = T_PTR THEN sym.mem_space ELSE IF sym.type = T_VALUE THEN L_EQU ELSE -1
              IN (Spaces[i] = L_MEM => sym.type = T_PTR) =>
                 (line \in SymbolsOf(Spaces[i]) <=> Spaces[i] = meant)
        /\ \A i \in DOMAIN lod : lod[i].kind = "symbol" /\ lod[i - 1].kind = "symbol" =>
              \/ lod[i - 1].value <= lod[i].value
              \/ \E s, t \in symbols : symbol_value(s) - symbol_value(t) >= IntLimit

\* The converter comes to an end on every file the assembler writes.
Converts == <>ConverterStopped
===============================================================================
