------------------------------ MODULE SourceLines ------------------------------
(***************************************************************************)
(* From files to messages: PrefetchTokens reads the source and every file   *)
(* it includes into blocks of tokens (TokenStream.c, Lexer.l); the passes   *)
(* read the blocks, with the macros and the conditionals in them, and a     *)
(* message names a file and a line (yymessage in main.c).                   *)
(*                                                                         *)
(* A file is a sequence of pieces, of which the lexer makes one token each: *)
(*   <<"nl">>, <<"comment", n>>   the end of a line; a comment of n newlines *)
(*   <<"code", late>>   a statement with something to report, which happens  *)
(*                      when the token behind it has been read, or before    *)
(*   <<"macro", m>>, <<"endm">>, <<"call", m>>                               *)
(*   <<"if">>, <<"else">>, <<"endc">>   the condition is false               *)
(*   <<"include", f>>, <<"end">>                                             *)
(* A line holds one statement at most.                                     *)
(* What a macro's arguments and labels do is MacroStream, what a condition   *)
(* is worth Conditional and Expressions.  A run stops as "wild" where an     *)
(* array is used outside its bounds; so "nested too deep" is never said:     *)
(* the entry behind inc_names is written first, by an include and by a call. *)
(***************************************************************************)
EXTENDS Integers, Sequences, SequencesExt

CONSTANTS Files, Main, Missing,  \* the files, and names that are none
          Macros,
          TOKENS_BLOCK,          \* 4096
          MAX_INCLUDES_NESTED,   \* 32
          Garbage,               \* the number a pointer is read as
          Sources                \* what the files may hold: functions from Files

Pieces == {<<"nl">>, <<"endm">>, <<"if">>, <<"else">>, <<"endc">>, <<"end">>}
          \cup ({"comment"} \X Nat) \cup ({"code"} \X BOOLEAN)
          \cup ({"macro", "call"} \X Macros) \cup ({"include"} \X (Files \cup Missing))

ASSUME SourceAssumption ==
    /\ Main \in Files /\ Missing \cap Files = {}
    /\ TOKENS_BLOCK \in Nat /\ TOKENS_BLOCK > 2 /\ MAX_INCLUDES_NESTED \in Nat \ {0}
    /\ Garbage \in Int
    /\ \A s \in Sources : s \in [Files -> Seq(Pieces)] /\ \A f \in Files : \A k \in 1 .. Len(s[f]) - 1 :
           s[f][k][1] \in {"nl", "comment"} \/ s[f][k + 1][1] \in {"nl", "comment"}

VARIABLES source,
          phase, status,         \* "fetch" or "parse"; how the run ends
          buffers,               \* inc_buffers: the files open, and where each is read
          blocks,                \* g_tokens
          g_incStackDeepth, inc_names, inc_lines,
          g_currentLine, g_errorLine,
          g_passNum, g_errorCount,         \* the latter as a Boolean
          streamsStack,          \* where each stream is read, and line_num
          macros,                \* the names that are macros: m_data1, m_data2, m_data3
          mode, pending, nest,   \* who reads the next token; the token it is for
          reports                \* auxiliary: [pass, src, file, line] of every message, pass -1 when fetching

levels == <<g_incStackDeepth, inc_names, inc_lines>>
lines == <<g_currentLine, g_errorLine>>
parser == <<streamsStack, macros, mode, pending, nest>>
vars == <<source, phase, status, buffers, blocks, levels, lines, g_passNum, g_errorCount, parser, reports>>

NoMacro == [ptr |-> <<0, 0>>, file |-> Main, line |-> 0]
NewPtr == <<"newptr">>
IsLevel(d) == d \in 0 .. MAX_INCLUDES_NESTED - 1

Message(src, line) ==
    reports' = Append(reports, [pass |-> IF phase = "fetch" THEN -1 ELSE g_passNum, src |-> src,
                                file |-> inc_names[g_incStackDeepth], line |-> line])

Dies(how) ==
    /\ status' = how
    /\ UNCHANGED <<source, phase, buffers, blocks, levels, lines, g_passNum, g_errorCount, parser, reports>>

-------------------------------------------------------------------------------
(* PrefetchTokens. *)
Buffer == buffers[Len(buffers)]
Text == source[Buffer.file]
AtEof == Buffer.at > Len(Text)
Piece == Text[Buffer.at]
AtEnd == IF AtEof THEN TRUE ELSE Piece[1] = "end"
Fetching == status = "run" /\ phase = "fetch"
Lexes(kinds) == Fetching /\ ~AtEof /\ Piece[1] \in kinds
Consumed == [buffers EXCEPT ![Len(buffers)].at = @ + 1]

\* Mutant: a block is filled to its end, and the pointer comes behind it.
MutFull(b) == Len(b) = TOKENS_BLOCK
Full(b) == Len(b) = TOKENS_BLOCK - 2

\* A full block ends in a pointer to the next.
Stored(token) ==
    LET n == Len(blocks)
    IN IF Full(blocks[n]) THEN Append([blocks EXCEPT ![n] = Append(@, NewPtr)], <<token>>)
       ELSE [blocks EXCEPT ![n] = Append(@, token)]

NewLines(p) == CASE p[1] = "nl" -> 1 [] p[1] = "comment" -> p[2] [] OTHER -> 0

EndOfLine ==
    /\ Lexes({"nl", "comment"})
    /\ g_currentLine' = g_currentLine + NewLines(Piece)
    /\ blocks' = Stored(<<"eol", g_currentLine'>>)
    /\ buffers' = Consumed
    /\ UNCHANGED <<source, phase, status, levels, g_errorLine, g_passNum, g_errorCount, parser, reports>>

\* A statement's token; src is where it stands.
Statement ==
    /\ Lexes({"code", "macro", "endm", "call", "if", "else", "endc"})
    /\ blocks' = Stored(IF Piece[1] = "code" THEN Piece \o << <<Buffer.file, Buffer.at>> >> ELSE Piece)
    /\ buffers' = Consumed
    /\ UNCHANGED <<source, phase, status, levels, lines, g_passNum, g_errorCount, parser, reports>>

\* IncludeFile when it fails: nothing stands behind the name, or there is no such file.
CannotInclude ==
    /\ Lexes({"include"})
    /\ Buffer.at = Len(Text) \/ Piece[2] \in Missing
    /\ g_errorCount' = TRUE
    /\ Message(<<Buffer.file, Buffer.at>>, g_errorLine)
    /\ inc_lines' = IF Buffer.at = Len(Text) THEN inc_lines ELSE [inc_lines EXCEPT ![g_incStackDeepth] = g_currentLine]
    /\ buffers' = Consumed
    /\ UNCHANGED <<source, phase, status, blocks, g_incStackDeepth, inc_names, lines, g_passNum, parser>>

\* IncludeFile, PushNewFile, CreateNewLexBuffer.
IncludeFile ==
    /\ Lexes({"include"})
    /\ Buffer.at < Len(Text) /\ Piece[2] \in Files
    /\ IF ~IsLevel(g_incStackDeepth + 1) THEN Dies("wild")
       ELSE /\ inc_lines' = [inc_lines EXCEPT ![g_incStackDeepth] = g_currentLine]
            /\ g_incStackDeepth' = g_incStackDeepth + 1
            /\ inc_names' = [inc_names EXCEPT ![g_incStackDeepth + 1] = Piece[2]]
            /\ g_currentLine' = 1 /\ g_errorLine' = 1
            /\ blocks' = Stored(<<"enter", Piece[2]>>)
            /\ buffers' = Append(Consumed, [file |-> Piece[2], at |-> 1])
            /\ UNCHANGED <<source, phase, status, g_passNum, g_errorCount, parser, reports>>

\* Mutant: PopFile goes on counting.
MutResumed == g_currentLine
Resumed == inc_lines[g_incStackDeepth - 1]

\* PopFile, at END or at the end of a file that is included.
PopFile ==
    /\ Fetching /\ AtEnd /\ g_incStackDeepth > 0
    /\ g_incStackDeepth' = g_incStackDeepth - 1
    /\ g_currentLine' = Resumed /\ g_errorLine' = Resumed
    /\ blocks' = Stored(<<"leave">>)
    /\ buffers' = Front(buffers)
    /\ UNCHANGED <<source, phase, status, inc_names, inc_lines, g_passNum, g_errorCount, parser, reports>>

\* InitParserPass1 and InitParserPass2.
Restart ==
    /\ streamsStack' = <<[macro_ptr |-> <<1, 1>>, line_num |-> 1]>>
    /\ g_incStackDeepth' = 0
    /\ g_currentLine' = 1 /\ g_errorLine' = 1

\* The end of the source: all is fetched, and pass 1 begins.
EndOfFetch ==
    /\ Fetching /\ AtEnd /\ g_incStackDeepth = 0
    /\ blocks' = Stored(<<"end">>)
    /\ buffers' = << >>
    /\ phase' = "parse"
    /\ Restart
    /\ UNCHANGED <<source, status, inc_names, inc_lines, g_passNum, g_errorCount, macros, mode, pending, nest, reports>>

-------------------------------------------------------------------------------
(* GetToken and SkipToken: the next token, found behind the pointer to the  *)
(* next block.  Where that happens, the line an EOL brings is read from the *)
(* token that held the pointer.                                            *)
Top == streamsStack[Len(streamsStack)]
TopLevel == Len(streamsStack) = 1
Crosses == blocks[Top.macro_ptr[1]][Top.macro_ptr[2]] = NewPtr
Place == IF Crosses THEN <<Top.macro_ptr[1] + 1, 1>> ELSE Top.macro_ptr
Ahead == blocks[Place[1]][Place[2]]
Taken == [streamsStack EXCEPT ![Len(streamsStack)].macro_ptr = <<Place[1], Place[2] + 1>>]
IsEol == Ahead[1] = "eol"
LineRead == IF ~IsEol THEN g_currentLine ELSE IF Crosses THEN Garbage ELSE Ahead[2]
ErrorLineRead == IF IsEol THEN LineRead - 1 ELSE g_errorLine

Parsing == status = "run" /\ phase = "parse"
\* In these modes tokens come through yylex, in the others from SkipToken.
Yylex == Parsing /\ mode \in {"line", "late", "macro", "args"}
Skips == Parsing /\ mode \in {"skipmacro", "skipcond", "skipline"}

\* The parser goes on in mode m, with the error line it has set.
Goes(m, errorLine) ==
    /\ mode' = m
    /\ streamsStack' = Taken
    /\ g_currentLine' = LineRead /\ g_errorLine' = errorLine
    /\ UNCHANGED <<source, phase, status, buffers, blocks, levels, g_passNum>>

EnterFile ==
    /\ Yylex /\ Ahead[1] = "enter"
    /\ IF ~IsLevel(g_incStackDeepth + 1) THEN Dies("wild")
       ELSE /\ inc_lines' = [inc_lines EXCEPT ![g_incStackDeepth] = g_currentLine]
            /\ g_incStackDeepth' = g_incStackDeepth + 1
            /\ inc_names' = [inc_names EXCEPT ![g_incStackDeepth + 1] = Ahead[2]]
            /\ g_currentLine' = 1 /\ g_errorLine' = 1
            /\ streamsStack' = Taken
            /\ UNCHANGED <<source, phase, status, buffers, blocks, g_passNum, g_errorCount, macros, mode, pending, nest, reports>>

LeaveFile ==
    /\ Yylex /\ Ahead[1] = "leave"
    /\ IF ~IsLevel(g_incStackDeepth - 1) THEN Dies("wild")
       ELSE /\ g_incStackDeepth' = g_incStackDeepth - 1
            /\ g_currentLine' = inc_lines[g_incStackDeepth - 1]
            /\ g_errorLine' = inc_lines[g_incStackDeepth - 1]
            /\ streamsStack' = Taken
            /\ UNCHANGED <<source, phase, status, buffers, blocks, inc_names, inc_lines, g_passNum, g_errorCount,
                           macros, mode, pending, nest, reports>>

\* OP_ENDM: PopStream, which takes the depth of the streams for that of the files.
PopStream ==
    /\ Yylex /\ Ahead[1] = "endm"
    /\ IF TopLevel THEN Dies("aborted")
       ELSE /\ streamsStack' = Front(streamsStack)
            /\ g_incStackDeepth' = Len(streamsStack) - 2
            /\ g_currentLine' = Top.line_num /\ g_errorLine' = Top.line_num
            /\ UNCHANGED <<source, phase, status, buffers, blocks, inc_names, inc_lines, g_passNum, g_errorCount,
                           macros, mode, pending, nest, reports>>

-------------------------------------------------------------------------------
(* The grammar.  A statement that is not complete without the token behind  *)
(* it is "late"; a line ends with g_errorLine = g_currentLine.              *)
Parses(m, kind) == Parsing /\ mode = m /\ Ahead[1] = kind

Code ==
    /\ Parses("line", "code")
    /\ IF Ahead[2] THEN pending' = Ahead /\ UNCHANGED reports
                   ELSE Message(Ahead[3], g_errorLine) /\ UNCHANGED pending
    /\ Goes(IF Ahead[2] THEN "late" ELSE "line", g_errorLine)
    /\ UNCHANGED <<g_errorCount, macros, nest>>

LateCode ==
    /\ Parses("late", "eol") /\ pending[1] = "code"
    /\ Message(pending[3], ErrorLineRead)
    /\ pending' = << >>
    /\ Goes("line", LineRead)
    /\ UNCHANGED <<g_errorCount, macros, nest>>

EmptyLine ==
    /\ Parses("line", "eol") \/ Parses("line", "endc")
    /\ Goes("line", IF IsEol THEN LineRead ELSE g_errorLine)
    /\ UNCHANGED <<g_errorCount, macros, pending, nest, reports>>

\* IF exp, MACRO: what they do is done when the EOL behind them has been read.
Opening ==
    /\ Parses("line", "if") \/ Parses("line", "macro")
    /\ pending' = Ahead
    /\ Goes(IF Ahead[1] = "if" THEN "late" ELSE "macro", g_errorLine)
    /\ UNCHANGED <<g_errorCount, macros, nest, reports>>

\* EvalCondition; GenElse when a part that was assembled ends.
If ==
    /\ Parses("late", "eol") /\ pending[1] = "if"
    /\ nest' = 0
    /\ Goes("skipcond", ErrorLineRead)
    /\ UNCHANGED <<g_errorCount, macros, pending, reports>>
GenElse ==
    /\ Parses("line", "else")
    /\ nest' = 0
    /\ Goes("skipcond", g_errorLine)
    /\ UNCHANGED <<g_errorCount, macros, pending, reports>>

\* MacroRecord: the name of a macro that is defined already has no label.
MacroRecord ==
    /\ Parses("macro", "eol")
    /\ IF g_passNum = 0 /\ macros[pending[2]] # NoMacro THEN Dies("crashed")
       ELSE /\ macros' = IF g_passNum # 0 THEN macros
                         ELSE [macros EXCEPT ![pending[2]] = [ptr |-> <<Place[1], Place[2] + 1>>,
                                                              file |-> inc_names[g_incStackDeepth], line |-> LineRead]]
            /\ Goes("skipmacro", ErrorLineRead)
            /\ UNCHANGED <<g_errorCount, pending, nest, reports>>

\* MacroCall: the rest of the line is skipped, or holds the arguments.
MacroCall ==
    /\ Parses("line", "call")
    /\ g_errorCount' = (g_errorCount \/ (g_passNum # 0 /\ macros[Ahead[2]] = NoMacro))
    /\ pending' = IF macros[Ahead[2]] = NoMacro THEN pending ELSE Ahead
    /\ Goes(IF macros[Ahead[2]] = NoMacro THEN "skipline" ELSE "args", g_errorLine)
    /\ UNCHANGED <<macros, nest, reports>>

\* Mutant: the lines go on from the call.
MutBodyLine == LineRead
BodyLine == macros[pending[2]].line

\* Replay_Macro, at the end of its line: PushStream, and the macro's line.
ReplayMacro ==
    /\ Parses("args", "eol")
    /\ IF ~IsLevel(Len(streamsStack)) THEN Dies("wild")
       ELSE /\ streamsStack' = Append(Taken, [macro_ptr |-> macros[pending[2]].ptr, line_num |-> LineRead])
            /\ g_incStackDeepth' = Len(streamsStack)
            /\ inc_names' = [inc_names EXCEPT ![Len(streamsStack)] = macros[pending[2]].file]
            /\ g_currentLine' = BodyLine /\ g_errorLine' = BodyLine
            /\ mode' = "line" /\ pending' = << >>
            /\ UNCHANGED <<source, phase, status, buffers, blocks, inc_lines, g_passNum, g_errorCount, macros, nest, reports>>

\* Skip_Macro; the line of the definition ends where its body does.
SkipMacro ==
    /\ Skips /\ mode = "skipmacro" /\ Ahead[1] # "end"
    /\ pending' = IF Ahead[1] = "endm" THEN << >> ELSE pending
    /\ IF Ahead[1] = "endm" THEN Goes("line", g_currentLine) ELSE Goes("skipmacro", ErrorLineRead)
    /\ UNCHANGED <<g_errorCount, macros, nest, reports>>

\* Mutant: an ELSE of an inner conditional ends the skipping.
MutStops == Ahead[1] = "else" \/ (Ahead[1] = "endc" /\ nest = 0)
Stops == Ahead[1] \in {"else", "endc"} /\ nest = 0

\* SkipConditional; an IF's line ends where the part that is left out does.
SkipConditional ==
    /\ Skips /\ mode = "skipcond" /\ Ahead[1] # "end"
    /\ nest' = CASE Ahead[1] = "if" -> nest + 1
                 [] Ahead[1] = "endc" /\ nest > 0 -> nest - 1
                 [] OTHER -> nest
    /\ pending' = IF Stops THEN << >> ELSE pending
    /\ IF Stops THEN Goes("line", IF pending = << >> THEN g_errorLine ELSE g_currentLine)
       ELSE Goes("skipcond", ErrorLineRead)
    /\ UNCHANGED <<g_errorCount, macros, reports>>

SkipLine ==
    /\ Skips /\ mode = "skipline" /\ Ahead[1] # "end"
    /\ Goes(IF IsEol THEN "line" ELSE "skipline", ErrorLineRead)
    /\ UNCHANGED <<g_errorCount, macros, pending, nest, reports>>

\* The end of the source in a macro or in a skipped part, and where it is taken
\* for the end of a line: the parser reads on behind it.
EndTooEarly ==
    /\ Parsing /\ Ahead[1] = "end"
    /\ \/ (mode \in {"skipmacro", "skipcond"} \/ (~TopLevel /\ mode # "skipline")) /\ Dies("aborted")
       \/ mode = "skipline" /\ Dies("overrun")
       \/ TopLevel /\ (mode \in {"macro", "args"} \/ (mode = "late" /\ pending[1] = "if")) /\ Dies("overrun")

\* YYACCEPT, with or without a last line that has no EOL.
EndOfPass ==
    /\ Parsing /\ Ahead[1] = "end" /\ TopLevel
    /\ mode = "line" \/ (mode = "late" /\ pending[1] = "code")
    /\ IF mode = "late" THEN Message(pending[3], g_errorLine) ELSE UNCHANGED reports
    /\ mode' = "line" /\ pending' = << >>
    /\ IF g_passNum = 0 /\ ~g_errorCount THEN g_passNum' = 1 /\ Restart /\ UNCHANGED status
       ELSE /\ status' = IF g_errorCount THEN "rejected" ELSE "done"
            /\ UNCHANGED <<g_passNum, streamsStack, g_incStackDeepth, lines>>
    /\ UNCHANGED <<source, phase, buffers, blocks, inc_names, inc_lines, g_errorCount, macros, nest>>

Init ==
    /\ source \in Sources
    /\ phase = "fetch" /\ status = "run"
    /\ buffers = <<[file |-> Main, at |-> 1]>>
    /\ blocks = << << >> >>
    /\ g_incStackDeepth = 0
    /\ inc_names = [d \in 0 .. MAX_INCLUDES_NESTED - 1 |-> Main]
    /\ inc_lines = [d \in 0 .. MAX_INCLUDES_NESTED - 1 |-> 0]
    /\ g_currentLine = 1 /\ g_errorLine = 1
    /\ g_passNum = 0 /\ g_errorCount = FALSE
    /\ streamsStack = << >> /\ macros = [m \in Macros |-> NoMacro]
    /\ mode = "line" /\ pending = << >> /\ nest = 0
    /\ reports = << >>

Fetch == EndOfLine \/ Statement \/ CannotInclude \/ IncludeFile \/ PopFile \/ EndOfFetch
Read == EnterFile \/ LeaveFile \/ PopStream
Parse == Code \/ LateCode \/ EmptyLine \/ Opening \/ If \/ GenElse \/ MacroRecord \/ MacroCall \/ ReplayMacro
Skip == SkipMacro \/ SkipConditional \/ SkipLine
Next == Fetch \/ Read \/ Parse \/ Skip \/ EndTooEarly \/ EndOfPass

Spec == Init /\ [][Next]_vars
===============================================================================
