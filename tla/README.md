# asm56k: a verification project

asm56k is a two-pass assembler for the Motorola DSP56001. This directory
holds TLA+ models of its core logic, the TLC configurations that check them on
small instances, and TLAPS proofs of what holds for every instance. Paths are
relative to the repository; line numbers are those of the commit modelled.

    tlc -workers 2 -config MCTwoPass.cfg MCTwoPass
    tlapm TwoPassProofs.tla

## 1. The system

One process, one thread. A flex lexer hands lines of tokens to a token stream;
`yylex` (MacroProxy.c) filters them (macros, local labels, include files); a
bison grammar (Parser.y) calls one function per statement; those functions move
`pc` and `c_ptr` and, in pass 2, store words. The whole source is parsed twice.

What makes the program hard is not concurrency but *two runs of one parser over
shared global state*: pass 2 stores without a check into blocks pass 1 sized,
takes label addresses pass 1 left, and must follow exactly the path of pass 1
through the conditionals, macros and include files. Every component's
correctness is, in the end, "what pass 2 does on a line is what pass 1 did".

### Inventory

| component | state | operations | interacts with | what is hard | what makes it correct |
|---|---|---|---|---|---|
| Driver, `main.c` | `g_passNum`, `g_errorCount` | two passes, the reset between them, the end (verify, write) | calls everything | what is *not* reset: symbol table, `num_chunks2` | output only for a program without errors, of agreeing passes |
| Sections and storage, `CodeUtils.c` | `pc`, `c_ptr`, `in_section`, `num_chunks`, `num_chunks2`, `chunks[1024]` | ORG, DC, DS, ALIGN, DSM, strings, `insert_(v)code_w`, open and close of a chunk, `verify_code` | symbols, `*`, output | unchecked stores; sizes computed twice by different code; L: memory counts words twice | equal layouts in both passes; stores inside the block; `pc` counts the words |
| Statements, `Parser.y` | – | one rule per statement | all generators | rules that go on after an error | – |
| Symbol table, `SymbolTable.c` | blocks of descriptors, `free_slot`, `node_len`, hash chains | AddSymbol, FindSymbol, AddSym, AddLabel, SymSet, GetSym | values | defined once, read in both passes; SET changes it in both | a reference is the place of its label; the table grows without loss |
| Conditionals, `Value.c`, `SkipConditional` | `if_stack_l` (never read), the scanner's `nest` | IF, IFcc, IFDEF, IFNDEF, ELSE, ENDC | token stream, symbols | one counter in place of a stack; conditions that differ between passes | nested blocks; same lines in both passes |
| Macros, `MacroProxy.c` | two pools of arguments, instance counter, frames on the stream stack | MACRO, call, ENDM, parameters, local labels | token stream, symbols | nested calls share pools; labels decorated with an instance number | frames' arguments intact; same names in both passes |
| Token stream, `TokenStream.c` | blocks of 4096 tokens, stream stack (64), `inc_names[32]`, `inc_lines` | push, pop, prefetch, include, skip | lexer, macros | include depth and macro depth are one variable | file and line reported right; bounds |
| Values, `Value.c` | – | arithmetic, casts and comparisons of integers, fractions, reals and unresolved values | statements, storage | a cast gives an unresolved value a number; unsigned division; rounding up to 1.0 | the word a DC leaves is the number its expression denotes; one answer of a condition in both passes |
| Instruction generators, `codegen/`, field tables `ConvertFields.c` | – | some hundred functions: encode, or in pass 1 only count | storage, pipeline | the size is decided twice; fields are added to a pattern unmasked | same size in both passes; no two lines with the same words |
| Pipeline restrictions, `PipeLineRestriction.c` | registers the last instruction loads | NewInst, NewSrc…, NewDst…, Reset | generators | spans two lines; reset | every address register loaded and used at once is warned of, none across ORG or the passes |
| String buffer, `StringBuffer.c` | the block being filled | insert | lexer, macros | the byte that ends a string | no two strings share a byte |
| Output, `OutputP56.c`, `OutputLod.c`, `OutputEmbeded*.c` | – | write the sections and the symbols | chunks, symbols | L: sections become two blocks; sections of zeros are dropped | every file reads back as the sections |
| Lexer, `Lexer.l` | start conditions, `g_currentLine` | tokens; END and the end of a file | token stream | comments of several lines | every line keeps its number |
| Converter, `tools/lod2p56.c` | the place read, the block being built | LOD to P56 | the LOD file | tokens looked for in symbol names; end of the file | the P56 the assembler writes |
| Other `tools/` | – | vendored COFF and S-record programs | – | – | – |

PROJECT.json lists the same components with their status, and the hazards of
each at the line where it bites.

## 2. Modules

| module | models | kind |
|---|---|---|
| `TwoPass` | storage, labels, EQU, SET and both passes | component |
| `MCTwoPass` | small programs for it | TLC |
| `TwoPassProofs` | type correctness, for all programs; what the passes agree on, for all regular ones | TLAPS |
| `Blocks` | what conditional assembly promises: nested blocks | abstract |
| `Conditional` | the directives and the scanner, over both passes | component |
| `MCConditional` | small texts for it | TLC |
| `ConditionalProofs` | types, what is removed, refinement of `Blocks`, both passes take the same path | TLAPS |
| `SourceLines` | files, blocks of tokens, lines; the levels of files and streams in both passes | component, composes include files, macros and conditionals |
| `SourceSpec` | what it promises: the text with its includes in place, what of it is assembled, the line of a message | properties |
| `SourceProofs` | types and bounds, and that what is fetched is the text, for all files | TLAPS |
| `MCSourceLines` | small files for it | TLC |
| `ConvertFields` | the tables of register and field codes | operators |
| `Operands` | words and fields, and the addressing modes | operators |
| `GenParMoves`, `GenArith`, `GenBitOps`, `GenMisc` | the generators of `codegen/` | operators |
| `Instructions` | mnemonics and the grammar's rule `code`: a line to its words and sizes | operators |
| `CodeGen` | the two passes over instruction lines, with the pipeline's registers; properties | component |
| `MCCodeGen` | lines for it: every rule and every mnemonic | TLC |
| `Values` | the values of Value.c, words, conditions | operators |
| `StringBuffer`, `SymbolTable` | the two stores | components |
| `NameTable` | what a symbol table promises: a map from names to meanings | abstract |
| `Expressions` | statements that define or read names, over both passes | component, composes the three above |
| `ExpressionSpec` | what it promises; the refinement of `NameTable` | properties |
| `SymbolProofs` | the chains, the characters, the refinement and what a name reads, for all programs | TLAPS |
| `ExpressionProofs` | types; that both passes give a name one value and an IF one answer; that answers are those of the numbers, and the words of a DC the number denoted; for all programs and widths | TLAPS |
| `MCExpressions` | small programs for it | TLC |
| `Output` | the four files | component |
| `Lod2P56` | the converter, reading what `Output` wrote | component, composes with `Output` |
| `OutputSpec` | the files read back | properties |
| `OutputProofs` | the embedded files, the P56 file, the memory loaded and the lists of symbols and what the converter makes of the LOD file, for all sections and symbols | TLAPS |
| `MCOutput` | small sets of sections and symbols | TLC |
| `MacroStream` | yylex's filter, macro calls and arguments, local labels, include files, over both passes | component |
| `MacroStreamProofs` | types and bounds, calls that give the pools back, arguments that stay as given, labels of expansions kept apart, for all sources | TLAPS |
| `MCMacroStream` | small sources for it | TLC |
| `SequenceLemmas` | least and greatest numbers, sequences of sequences | lemmas, TLAPS |

### TwoPass

A statement is a record: its kind, its symbol, its expression, and what only
one kind has (the space of ORG; the words of an instruction in pass 1 and in
pass 2; the bytes of a string). The program is not a constant: pass 1 chooses
it line by line and `hist` remembers it, with what pass 1 saw before each line;
pass 2 reads `hist`. So one run covers all programs up to the bound.

| code | model |
|---|---|
| `pc`, `in_section`, `num_chunks`, `num_chunks2`, `g_passNum` | the same names |
| `c_ptr` (a counter in pass 1, a pointer into the block in pass 2) | bytes since the start of the chunk in both; in pass 2 a store beyond `code_len` ends the model as `wild` |
| `chunks[]` | a function to records; the words themselves are not kept |
| symbol table | `m_val`, `Undef` when absent; `mem_space` is `hs.mem_space` |
| an expression | a number, a symbol or `*` |
| `GenOrg`, `GenDc`, `GenDS`, `GenAlign`, `GenDSM`, `InsertString` | actions of the same names, each with both passes |
| every instruction rule | `Code`, with a size per pass: the generators that decide differently in the two passes (GenLra with a register, GenMovep) are sizes 2 and 1 |
| label, EQU, SET | `Label`, `Equ`, `SymSet` |
| end of the source | `EndPass1` (close_vchunk, InitParserPass2), `EndPass2` (close_chunk, verify_code) |
| `asm_abort`, division by zero, NULL symbol, store out of the block | `status` = aborted, crashed, crashed, wild |

`refs` and `placed` are history variables: which symbol values reached the
output, and where the image really holds each label.

Left out: the encodings (`CodeGen`), pass 1's size of an expression, messages. An ORG with
the operand `>exp` reads an uninitialised field when `exp` is unresolved; the
model takes any value of `Garbage`.

`Regular` names the lines for which the passes may disagree, each a defect or a
limit of the code: an ORG at a forward reference (accepted, with address 0 in
pass 1 and the real one in pass 2: every label below misses its place), a negative DS, an empty
string, DS/ALIGN/DSM/strings before any ORG, an instruction whose two sizes
differ, SET of a symbol no EQU above defines. The properties are about the
programs without them, and the runs for which they are the point keep them.

### Blocks and Conditional

A line is what the scanner and the parser tell apart: the directives, a line
with an IFcc as parallel move (`condmove`), a label, any other line.
`skipping` says whether the parser runs ("no"), SkipConditional runs ("yes"),
or it runs for GenIfError, which calls it once more at an ELSE ("bad"). `nest`
is the scanner's counter. `if_stack_l` is left out because nothing reads it.
One step of SkipConditional's loop is one line of skipped text; the tokens of a
line that are no directive do nothing there.

`blocks`, `out` and `legal` are auxiliary: the blocks the text opens, the lines
assembled, and whether every ELSE and ENDC so far had its IF. They are what the
abstract module `Blocks` speaks of, so `Nested == INSTANCE Blocks` needs no
substitution, and `Nested!Next` says the lines that reach the parser are those
all of whose blocks are live.

Any line may stand in skipped text, in every run and every theorem. `counted` is
auxiliary too: it becomes FALSE when the scanner skips the first line its counter
gets wrong (`Miscounted`: an IFDEF or IFNDEF, or a conditional move), and stays
FALSE. Up to that line the scanner is right, in every text: `RemovedWhileCounted`
says it removes exactly the dead blocks, `ImplementsBlocks` that each of its steps is
a step of `Blocks`. After it, it is not: the readme's claim without that limit,
`RemovedUpToEndc`, is what `nested_ifdef` refutes. The types, and what the two
passes have in common (`SamePath`, `SecondPassEnds`), hold after it as well.

### MacroStream

One step is one token. `mode` says who asks for it: the grammar (`line`) or
Replay_Macro's loop over the arguments (`args`), both through yylex, or the loops
of Skip_line (`skip`, which returns to `after`) and Skip_Macro (`skipmacro`)
through SkipToken. A source is one array of tokens, fetched once, as in the
code; the lexer that fills it is in `SourceLines`. Only the tokens some action tells
apart are kept: a code line is the symbols it refers to and the strings it holds,
line numbers are left out. yylex decorates a string that begins with `@`, `.` or
`_` as it does a local label, so `DC ".x"` assembles `.x(0)`; the model does so too
(`Decorated`, `InsertString`), and `SamePasses` shows that pass 2 meets the text of
pass 1. What the buffer of 128 bytes in yylex cuts off a decorated text is left out.
MACRO is a token of its own: after it the grammar (mode `macro`) wants the
end of the line, and at another token bison discards what it has and looks for an
EOL (mode `error`).

| code | model |
|---|---|
| `streamsStack[0..g_streamsStrackIndex]` | `stack`, a sequence of frames with the code's fields |
| `macros_params`, `params_pointers` and the pointers into them | functions on `0 .. Tokens-1`, `0 .. Pointers-1`, and offsets |
| the locals of Replay_Macro, live across tokens | `call` |
| the text of a decorated symbol or string, `name(%i)` | the name and the sequence of its `stamps` |
| decorating in place, in the token array, in pass 1 | `Rewritten` |
| PopStream, MACRO_PARAM, ENTER/LEAVE of a file, END in a macro | `EndMacro`, `MacroParam`, `EnterFile`, `LeaveFile`, `EndInMacro` |
| label, symbol, string, MACRO, the name of a macro | `AddLabel`, `GetSym`, `InsertString`, `MacroDirective`, then `MacroRecord` / `MacroError`, `MacroCall` |
| bison's recovery: the error, the tokens up to an EOL | `SyntaxError`, `Discard` |
| Replay_Macro per token | `TooHeavy`, `StoreArgument`, `NextArgument`, `ReplayMacro` |
| InitMacroProxy, InitParserPass2 and the end | `EndOfPass` |

`g_incStackDeepth`, `inc_names` and `g_CurrentFile` are as in the code: one
depth for include files and for streams. `status` names how a run ends:
aborted (asm_abort), crashed (NULL), overflow (a store beyond a pool), wild
(another array out of bounds), overrun (tokens read beyond END). Auxiliary:
`given` and `id` of a frame (its arguments as they were given, its call),
`scope` of a token, `seen` (the labels, references and strings the parser met
in each pass), `made`.

### SourceLines

A file is a sequence of pieces, one for each token the lexer makes: ends of
line, comments with the newlines in them, statements. A statement is what the
reading tells apart: `code`, with a message of its own (`late` when the parser
needs the token behind it first), a macro and its end, a call, IF, ELSE, ENDC,
INCLUDE, END. What a macro's arguments and labels do is `MacroStream`; here a
condition is always false.

| code | model |
|---|---|
| `inc_buffers` and the lexer's place in each | `buffers`, the open files |
| `g_tokens`, a chain of malloc'ed blocks | `blocks`; a full one ends in `NewPtr` (`Stored`) |
| `g_incStackDeepth`, `inc_names`, `inc_lines`, `g_currentLine`, `g_errorLine` | the same names; a step that would use an entry outside the arrays ends the run as `wild` |
| `streamsStack` | the place of each stream and its `line_num` |
| who calls GetToken or SkipToken | `mode`; `pending` is the statement that waits for the end of its line |
| a macro's `m_data1`, `m_data2`, `m_data3` | `macros[m].ptr`, `.file`, `.line` |
| the pointer field of `TOKEN_NEW_PTR` read as a line number (GetToken, SkipToken) | `Garbage` |
| yymessage | `Message`: the file and line it would print, with the place in the text it is about |

Fetch, then pass 1, then pass 2, one token a step. `SourceSpec` has its own
reading of the text: `Expanded` puts the files in their places, `Walk` expands
macros and leaves out dead parts in one go, with a stack.

What the code does, and the properties exclude by name: an end of line that is
the first token of a block gets a number read from a pointer (`Told`); a
statement that waits for the token behind it is reported one line early when
that token is a comment, and at the INCLUDE when an included file ends without
a newline (`Told`); a macro called in an included file loses the place in the
stack of files (`Balanced`, and the run `macro_files`); a conditional open
across the end of a macro or a file (`Balanced`); a macro call as a last line
without a newline is read beyond END (`Ended`); 32 levels of files and streams
are never noticed as too many, because the entry behind the array is written
first (`Fits`). A file that is included in a dead part is fetched all the same
(docs/readme.txt:82 says so).

### Instructions and CodeGen

Operators, one for each generator, give the words, the size in each pass, what
is refused and what the pipeline is told. `Instructions!code` dispatches a line
(a tuple: rule, mnemonic, operands) to its generator as the grammar does.
`CodeGen` runs programs of such lines, ORG and DC through the two passes.
A register or a condition is the code's own number, a missing field code is -1
and goes into the word as it does in C.

What the code does, and the properties exclude by name: `MOVEP ea,ea` and
`LRA Rn` have two sizes (`TwoSizes`); a short branch backwards and a negative
count or bit fill more than their field (`Backward`, `Negative`); `DOR #` is
coded as `DO #`, EXTRACT, EXTRACTU and INSERT with a register have one pattern,
SWI is RTS, `ADDR b,a` is ADDL and `SUBR b,a` SUBL, JSSET of a short I/O address
is JSET (`OneCode`); L: moves and `R,X: R,R` moves add the -1 of a missing
field, `CMPU` and IFcc overlap their patterns (`Overlapping`); a register that
is stored by a parallel move or MOVEC is taken by the pipeline for one that is
loaded, and no instruction but parallel moves and MOVEC tells it anything
(`Uses`, `Loads`).

### Values, SymbolTable, StringBuffer and Expressions

A value is a type and a quotient; an integer is kept modulo 2 ^ `LongBits`, so
overflow, the cast to int and the sign are as in C. The precision of a double is
left out. `ProgramsAssumption` says what the lexer and the grammar give: lines of
its kinds, with a name where the statement has one and the expressions it needs.
`WidthsAssumption` orders the widths as 8, 24, 32, 55 and 64 are. Where C leaves a number uninitialised an operator has several
outcomes. The symbol table has the code's blocks, chains and counters, a
descriptor is its block and index. `Expressions` reads a program's names into
the string buffer, applies the -D options and parses the lines twice. Auxiliary:
`reads` (each name read, with what it gave), `given` (each definition),
`answers` (each condition), `words` (what DC left).

`Refines` (`NT!Spec`): through the chains the table is a map from names to
meanings; a step changes one name's meaning or adds one name.

What the code does, and the properties exclude by name: a label that a later SET
changes keeps that value in pass 2 (`Stale`, SymbolTable.c:223); a cast of a
forward reference has a number before it has a value, `a equ a+1` counts twice,
IFDEF of a later name answers differently (`Regular`); integers are unsigned
when divided, shifted or made a real, and comparisons of an integer with a real
or of opposite signs are wrong (`fair`); a fraction that rounds up to 1.0
becomes -1; a fraction in L: memory is scaled by 2^55 for 2^47; every block of
descriptors but the first takes an entry too many (`EntriesInBlock`); EQU or
MACRO at a name defined already reads through NULL (`dead`).

### Output and Lod2P56

One writer after the other goes over the sections as main.c calls them; a step
is a header, a section or an end. A LOD file is a sequence of lines of words and
symbols, the others are sequences of words. The converter reads the lines of the
LOD file that was written, step by step: looking for a token, a token it does not
convert, a block of data. A symbol's name matters to it only by its beginning:
one that begins with "_data" and a letter that names a memory (`DataNames`) begins
a block at whatever address its letters are read as, and the lines of symbols that
follow are read as words, six characters each, until one begins a token (`Misread`,
`Overread`; mode "within" is a line entered behind its first character). What
letters are read as is `Junk`, and `LineWords` bounds how many words such a line is
taken for; `Converts` covers these files too. A symbol's value is listed as an int
(`symbol_value`): of a longer one its low bits, of a real what the cast keeps, the
least int when it is out of range.
`Addresses` (2^24) and `Sizes` (2^16) are how many addresses the header of a block
and sizes the converter tell apart.

What the code does, and the properties exclude by name: an L: section is written
to a P56 file as two blocks, each followed by the rest of the buffer, so what
follows is not found and the file reads back only up to the X: block of the first
such section (`Halved`); an odd last word of an L: section is in no file;
a section of zeros that should clear words of an earlier one is dropped
(`Clears`); values and macros of L: memory are listed with its labels; the
difference by which symbols are sorted overflows; without sections a LOD file has
no end and there is no P56 file; the converter takes four digits of an address,
16 bits of a size, `binbuff` words, and a symbol that begins with "_data" for the
token (`LodConverts` is about the files without one).

## 3. Runs

| run | shows | bounds |
|---|---|---|
| `two_pass` | on every regular program: pass 2 reaches each line with pass 1's pc, place and symbols (`PhaseAgreement`); stores stay in their block (`StoresInBounds`); pc counts the words stored (`PcCountsWords`); verify_code's internal error is unreachable (`VerifyNeverFires`); every reference in the output is its label's place in the image (`ReferencesExact`) | 4 lines over 16 statements, 2 symbols, 2 chunks |
| `empty_string` | violation: `DC ""` is three bytes in pass 1, one in pass 2 | 4 lines |
| `long_dsm` | violation: an aligned DSM buffer in L: memory has a wrong address | 4 lines |
| `conditional` | up to the first skipped IFDEF, IFNDEF or conditional move the scanner implements nested blocks (`ImplementsBlocks`) and removes exactly the dead ones (`RemovedWhileCounted`); both passes take the same path unless an IFDEF looks ahead; pass 2 of such a text is not aborted | every text of 5 lines over 11 kinds, in skipped text too; nesting 2 |
| `nested_ifdef` | violation: an IFDEF in skipped text ends the skipping early | 5 lines |
| `macro_stream` | no store leaves the pools (`PoolsInBounds`); an open call's arguments stay as given (`ArgumentsIntact`); calls in a row do not use the pools up (`PoolsReturned`); expansions do not share local labels (`LocalsApart`); both passes see the same names and strings unless a call came before its macro (`SamePasses`) | 8269 sources: two macros, one of which calls the other or itself, up to 2 lines; strings; pools of 5 tokens and 4 pointers, 5 streams, 4 file names |
| `macro_locals` | violation: a local label of the source and one of an expansion get one name when serial and instance number meet | the same pools, 1198 sources |
| `source_lines` | what is fetched is the text with every file in its place and every line numbered (`FetchExact`); both passes assemble the lines that are not left out, macros expanded (`LinesParsed`); a message names its file and line (`ReportsExact`) | 6,214 sources: three lines of 14 kinds and an included file of 9, two macros in two files, conditionals around macros and files; blocks of 4 tokens, 3 levels |
| `macro_files` | violation: after a macro call in an included file, messages about the rest of it name the main file | 268 of these sources, every line ended |
| `code_gen` | pass 2 writes as many words as pass 1 counted (`SizesAgree`); two lines with the same words are one instruction with one set of operands (`WordsApart`); a pipeline warning is given just for a register loaded by the instruction before (`WarningsExact`) | every rule and mnemonic with registers of each kind and numbers on both sides of each limit, both processors; sequences of up to three lines around ORG and DC |
| `symbols` | the chains hold every name once, within its block (`ChainsExact`), and implement a table (`Refines`); names keep their bytes (`StringsApart`); a name read has the value the order of the source gives it (`ReadsExact`), the same in both passes (`PassesAgree`); DC leaves the number denoted (`DcReadsBack`); conditions compare the numbers denoted (`ConditionsExact`) | words of 5 bits, int 7, long 13; blocks of 2 descriptors and 8 characters, 5 names in 2 chains; literal expressions, three-line programs over 13 statements, counters of five lines, labels in every order |
| `output` | the embedded files and the P56 file read back as the sections (`EmbeddedReadsBack`, `P56ReadsBack`); leaving out zeros keeps the memory loaded (`ImageKept`); symbols are listed once and in order (`SymbolsListed`); the converter ends (`Converts`) and makes the same P56 (`LodConverts`) | three sections, 17 words, eleven symbol tables; int 8 bits, sizes 3 bits, `binbuff` 20 words, two words of a symbol's line |

Why the bounds are enough. A disagreement of the passes needs a line that the
passes treat differently and one line after it that shows it: with an ORG and a
label, four lines. Two chunks reach the closing of one by the next and, with a
third ORG, the end of the array. A text of five lines has IF, nested IF, ELSE
and both ENDCs, and nesting 2 has the scanner's limit within it. In `MacroStream` pools of 5 and 4 entries are large enough for a
call with two arguments inside a call and small enough that recursion ends at
each of the limits: tokens, pointers, streams and file names, the last smaller
than the one before as in the code (32 and 64). In `SourceLines` a block of four
tokens ends at every place of a line within three lines, and three levels have an
include in an include and its overflow. In `CodeGen` a property of one line needs
one line, of the pipeline two and the ORG or DC between. In `Expressions` five
names fill three blocks of descriptors, two in each chain on the way; words of 5
bits have every edge of a width that 24 bits have, and no expression combines more
than two roundings. In `Output` two sections show whatever follows the first, and
17 words have two full lines of eight and the start of a third.

CHECK_DEADLOCK is FALSE everywhere: the assembly ends.

Fairness is assumed once: `Lod2P56!FairSpec` says weak fairness of the next step.
The converter, and the assembler before it, are single programs that run until
they return; nothing else can take their turn. `Converts` then means that none of
its loops stays where it is. The other models need no liveness: each of their
steps reads a token, a line or a section.

## 4. Proofs

`TwoPassProofs!TypeCorrect`: `Spec => []TypeOK`, for all statements, symbols
and bounds. `TypeOK` alone is not inductive: an ORG in pass 2 needs the next
chunk to be in range, and the reader of `hist` needs a line to be there. The
invariant `TypeInv` adds the shape of a run (`Shape`): in pass 1 `hist` holds
just the lines above the current one and pass 2's counter is idle; in pass 2
`hist` ends with END and the current line is one of it; while the assembler
runs the current chunk is inside the array.

`ConditionalProofs`, with no assumption on the text: `ConditionalTypes`,
`Removal` (`RemovedWhileCounted`) and `Refinement` (`ImplementsBlocks`); and
`WholeRefinement`: a behaviour in which `counted` is never lost implements
`Blocks` as a whole. The inductive
invariant `IInv` locates the block that made the scanner start: while it runs,
as long as the text is legal and the scanner has counted right, the block `nest`
levels outside the innermost one is dead (in error, in a scan of GenIfError's)
and every block around it is live (`Located`). That is what one counter can stand
for, and why the code needs no stack. When a line is skipped that the counter
gets wrong, `Located` is lost and with it `counted`; the types, among them the
limits of the counter, are all that is left, and `IInv` keeps them.

Also there: `SamePathTheorem` and `SecondPassEndsTheorem`, for every
text without a look-ahead IFDEF, whatever it skips: even where the
scanner skips the wrong lines it skips the same in both passes. Their invariant
`PathInv` records each line's scanner state and table as a pure function of the one
before it (`After`, `Jump`), and that symbols are only added: pass 2's table
contains pass 1's at each line, and `Foreseen` makes every condition equal.

Also there: what the two passes agree on, for every regular program of any
length (`NoPhaseError`, `BoundedStores`, `WordsCounted`, `VerifiedAlways`,
`ExactReferences`, one for each safety property of `two_pass`). The idea is that
the place behind a line (`NextPos`) and the table behind it (`NextSyms`) are
functions of what `hist` recorded before the line. The invariant
`IInv == TypeInv /\ Recorded /\ Added /\ Counting /\ Accepting /\ Agreeing` says
that pass 1 makes each record from the one before it by these functions
(`Linked`), that a name which no EQU defines has one value from its definition on
(`Steady`), that each recorded place lies in its block and fills it at the
section's end (`InBlock`, `EndsBlock`), and that pass 2 stands where pass 1 did on
the same line with a table that has the final values (`Followed`). `Added` is
needed because pass 2 starts with pass 1's table: a symbol that is not there yet
in pass 1 must be absent by its own line only, and never lost. No store outside a
block and no failure of verify_code is then a case of `InBlock` and `EndsBlock`.

`MacroStreamProofs`: `TypeCorrect`, `PoolsBounded` and `PoolsGivenBack`, for every
source and every size of the pools and stacks. The invariant says that the frames'
arguments begin in the order of the stack, below the pools' tops, that a call being
read stores behind them, and that the stream at the bottom has saved the pools
empty. Two more properties need a hypothesis about the source, stated in the
theorem:

- `ArgumentsKept`: `Spec /\ OwnLines => []ArgumentsIntact`. `OwnLines` says that
  every ENDM begins its line. Without it the code really loses arguments: a call
  with the ENDM on its own line pops the frame while Replay_Macro still reads, and
  stores over the caller's. (The sources of the run keep to it, and TLC evaluates
  the property there.)
- `LabelsApart`: `Spec /\ NoAtLabels => []LocalsApart`. A label that itself begins
  with '@' is decorated and starts a scope of its own; the property is about the
  scopes of other labels and of calls.

`SymbolProofs`, for all programs, names, sizes of a block and hash functions:
the invariant `Table` says that each descriptor of a block is in the chain of its
name's hash, links rise in the order in which descriptors were taken, and a name
is in one descriptor. From it `FindSymbol`'s walk, a recursive function, is shown
to be determined from the end of the chain backwards (`LookupExact`), each step
adds one descriptor or changes one (`TableRefines`, with the table of names `Bar`
as refinement mapping), and `EntriesInBlock` holds (`ChainsLinked`). `Store` gives
each string of the string buffer its own bytes (`StringsKept`). `ReadsKeepOrder`
is the property of the two passes: its invariant `RInv` says who may have given a
name a value at which place (`Givens`), that no two labels behind the parser have
one name (`LabelsOnce`), and that the table holds, at the parser's place, what the
order of the source says (`ValuesExact`); what was read stays right because all
that is given later is given behind it.

`ExpressionProofs`, for all programs and widths: `PassesTyped` (`TypeOK`) and
`PassesGiveSame` (`PassesAgree`). Agreement needs no arithmetic: an
operator that reports no error has one outcome, determined by its operands, as long
as none of them is unresolved. So an expression is determined by the values its names
are read with (`Typed` and `OneValue`, lemma by lemma through the operators), and by
`ReadsKeepOrder` those are given by the nearest line above. The passes agree on a
line when they agree on the lines above it: a least line on which they differ
contradicts itself.

`AnswersExact` (`ConditionsExact`) is about the arithmetic itself. Its invariant `VInv`
says that every value of the table is in `Vals`: an integer is one of the width and a
real is in lowest terms, so that two numbers are equal when they are the same
quotient. Every operator keeps `Vals` (`Apply2Vals`, `Apply1Vals`), and so does an
expression (`EvaluateVals`). The provers know no powers, no Euclid's algorithm
and no remainder by a variable: the section "Arithmetic" gives `PowersExist`, `GcdIs`
and `RatioLowest`, each an argument about a least counterexample or a function that
satisfies its recursion, and what `Long` and `Signed` do to a number (`WithinIs`).

`WordsReadBack` (`DcReadsBack`) compares two evaluations of an expression, the code's
(`Evaluate`) and the one in plain numbers (`Meaning`), token by token on their stacks:
each value `Stands` for what is meant, a real by being that quotient, an integer by
being it modulo the width (`Meaning2Stands`, `Meaning1Stands`, `LeafStands`,
`EvaluateStands`). For characters that needs the bits of a sum of two numbers without
common places to be those of the two (`BitsApart`, `BitsMake`). What stands for a
number reads back as it from the words: an integer is cut from 64 bits to an int and
to a word (`ModDown`, `ModTwo`), a fraction is rounded to the nearest and stays within
the width (`RoundIs`, `ErrorSmall`, `FractionWithin`). The theorem says nothing where
`Meaning` is not `fair` (names and addresses, `&`, `|`, `^`, `~`, shifts, a division
by zero, a negative integer that is divided or made a real, an integer wider than an
int) nor of fractions in L: memory or outside [-1, 1).

`SourceProofs`, for all files, macros, sizes of a block and depths of includes:
`SourceTypeCorrect` (`TypeOK`) and `FetchedAsWritten` (`FetchExact`). The invariant
`IInv == Modes /\ Chained(blocks) /\ Reading /\ Fetched` says that blocks but the
last are full and end in a pointer, which no token looks like (`Chained`), and, while
files are fetched, that the tokens so far are `Shown` of the open files: of each that
waits what stands above its INCLUDE, then what was read of the innermost
(`Reading`). It also says that each file was opened by the last piece read of the one
around it, that none was read beyond its END, and that the line each resumes with is
the one it has in the text. An INCLUDE adds an empty part; the end of a
file folds its part into that of the file around it, by the definition of
`UpTo` one level of includes deeper; at the end of the main file `Shown` is `Expanded`.
`UpTo` and `LineOf` are recursive functions: that they satisfy their
equations, and what a concatenation of sequences is, comes from `SequenceLemmas`,
where an induction is an argument about a least counterexample
(`LeastNatural`), because the library's induction theorems cannot be instantiated.
`SourceAssumption` says what the lexer gives: a file is a sequence of its pieces,
with the end of a line between statements.

`OutputProofs`, for all sections, options and contents of the buffer: the
invariant `Files` says that each file is the concatenation of the blocks of the
sections written so far. The rest is about reading: a block laid at an offset is
parsed there and the reader goes on behind it (`Stands`, `Laid`, `Reads`), so
a file of such blocks reads back (`EmbeddedFilesRead`), and so does the P56 file up
to its first L: section (`P56FileRead`). For `ZerosLeftOut` the words that are not
zero lie where some section covers them (`Spread`), so a section of zeros that
covers no earlier one changes nothing. `SourcesAssumption` gives what main.c
hands the writers: sections with an address, a memory space and words that are not
negative, and finitely many symbols, each with a name of its own and a number.

Also there, for all sections, symbols, orders in which symbols may be listed,
sizes of `binbuff` and numbers of addresses (at least `16 ^ 4`, the four digits the
converter reads): `LodFileConverts`, under the conditions `LodConverts` itself
states. The invariant `Listing` says that the lines written so far stand for the
words of the embedded file of the same sections: there is a function (`Counting`)
from lines to how many words the lines above stand for, 3 more behind a `_DATA` line
and the row's length behind a row, and the sizes in the words are those of the rows
up to the next line that is none. `Converting` says that the converter's `binbuff`
is the words up to the number of its line but for the one size it has yet to fill
in (`InBlockAt`), so that the lists of symbols, whose lines stand for no words, change nothing
(`TailJoined`) and a symbol's name that looks like `_END` ends a file that has no
words left. `OutputTypes` is the type invariant of the writers and the converter.
`SymbolsInOrder` (`SymbolsListed`), for all symbol tables: the invariant `Lists` says
of the spaces written so far that each line of a symbol stands under the header of a
space that lists it, and each symbol a space lists has its line there. A finite set
of symbols has an order in which values rise (`SomeRising`), and where no two values
are more than an int apart it is the one that qsort's comparison makes
(`NearCompared`).

Only model-checked:

- `SamePasses` (macros), which needs pass 2 to follow pass 1 token by token through
  decorated text, calls and skipped parts;
- `LinesParsed` and `ReportsExact`: what the text is with its macros expanded and
  its dead parts left out is itself computed over the tokens (`Walk`), so that it is
  what the passes read asks for induction over the text, two passes at once;
- all of `CodeGen`: the generators mask with the operators of `Bitwise`, which no
  module with a theorem can use;
- the counterexamples of the runs that expect a violation, and the termination
  `Converts`.

Out of the prover's reach, and not claimed: liveness, ENABLED, induction over
data.

## 5. Plan

Done: all components modelled and composed; the proofs of section 4. Left, in
this order:

1. `SamePasses`, with the sources whose calls come behind their macros.
2. `LinesParsed`, from `FetchedAsWritten` and a walk over the tokens.
3. `TwoPass` with the sizes of `CodeGen` as its statements.

## 6. Not modelled

The lexer's regular expressions and start conditions: the models begin at tokens
and at the values tokens carry. The command line and include directories, which
only choose a file. The wording of messages, the layout of the embedded files
and the names made from their file names. The precision of a double. The
utilities but `lod2p56`: vendored programs for COFF and S-record files, which the
assembler neither calls nor shares code with.
