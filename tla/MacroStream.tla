---------------------------- MODULE MacroStream ----------------------------
(***************************************************************************)
(* The token stream of asm56k: macros, their arguments, local labels and   *)
(* include files, over the two passes (MacroProxy.c, TokenStream.c).       *)
(*                                                                         *)
(* The source is fetched into an array of tokens once.  A stack of streams *)
(* tells where the next token comes from: the source, the body of a macro  *)
(* (a place in the source), or an argument (a place in the pool            *)
(* macros_params).  yylex() takes the next token, and before the parser    *)
(* sees it pops a stream at ENDM, pushes one at a parameter, keeps track   *)
(* of the file and decorates local labels.                                 *)
(*                                                                         *)
(* One step is one token.  mode says who asks for it: the grammar ("line") *)
(* or Replay_Macro ("args") through yylex, or the loops of Skip_line and   *)
(* Skip_Macro through SkipToken.  Tokens that none of them tells apart are *)
(* left out: a code line is the symbols it refers to.                      *)
(***************************************************************************)
EXTENDS Integers, Sequences

CONSTANTS
  Names,     \* labels, macros and strings, as they are written
  Locals,    \* those that begin with '.', '_' or '@'
  Ats,       \* those that begin with '@'
  Files,
  Main,      \* the main file
  None,
  Null,      \* the symbol AddLabel returns when it fails
  Texts,     \* the sources
  Depth,     \* MACRO_NEST_DEPTH: entries of streamsStack (64 in the code)
  IncNames,  \* MAX_INCLUDES_NESTED: entries of inc_names (32)
  Tokens,    \* MACRO_PARAMS_TOKEN_BUFFER: entries of macros_params (2048)
  Pointers   \* MACRO_PARAMS_POINTER_BUFFER: entries of params_pointers (2048)

\* "sym2" is a label, "sym" a symbol in a line or an argument, "string" a text in
\* quotes, "call" the name of a macro that is called, "macro" the directive.
Kinds == {"sym2", "sym", "string", "call", "macro", "endm", "eol", "comma", "param", "enter", "leave", "end"}

\* The scope a local label is written in.
Scope == [kind : {"none", "top", "macro"}, n : Int]

NoScope == [kind |-> "none", n |-> 0]

\* t: the token; name: its text as written; stamps: the "(%i)" suffixes it has
\* got since; n: the number of a parameter; file: the file of "enter".
\* scope is auxiliary: where the text was first decorated.
Token == [t : Kinds, name : Names \cup {None}, stamps : Seq(Int), n : Nat,
          file : Files \cup {None}, scope : Scope]

Tok(t) == [t |-> t, name |-> None, stamps |-> << >>, n |-> 0, file |-> None, scope |-> NoScope]

ASSUME NamesAssumption ==
  /\ Ats \subseteq Locals /\ Locals \subseteq Names
  /\ Main \in Files
  /\ None \notin Names \cup Files
  /\ Null # None

\* What the lexer hands over has its text: a symbol its name, a string what it
\* says (texts are told apart as names are), "enter" its file.
Written(tok) ==
  /\ tok \in Token
  /\ tok.t \in {"sym", "sym2", "string", "call"} => tok.name \in Names
  /\ tok.t = "enter" => tok.file \in Files

\* The lexer has decorated nothing and ends a source with END.  (A macro with a
\* local label for its name can never be called: the name is not decorated.)
ASSUME TextsAssumption ==
  \A x \in Texts : /\ x \in Seq(Token) /\ x # << >> /\ x[Len(x)] = Tok("end")
                   /\ \A i \in 1 .. Len(x) : /\ Written(x[i])
                                             /\ x[i].stamps = << >> /\ x[i].scope = NoScope
                                             /\ x[i].name \in Locals => x[i].t # "call"

ASSUME BoundAssumption ==
  /\ Depth \in Nat \ {0} /\ IncNames \in Nat \ {0}
  /\ Tokens \in Nat \ {0} /\ Pointers \in Nat \ {0}

VARIABLES
  g_passNum,          \* 0 in pass 1, 1 in pass 2
  text,               \* g_tokens: the source; pass 1 decorates its local labels in place
  stack,              \* streamsStack[0 .. g_streamsStrackIndex]
  g_pParamsPool,      \* first free entry of macros_params
  g_pParamsArrayPool, \* first free entry of params_pointers
  macros_params,      \* tokens of the arguments of all open calls
  params_pointers,    \* where each argument begins in macros_params
  g_MacroNumInstances,
  g_LocalSerial,
  table,              \* the symbols: pairs of a name and its stamps
  macros,             \* the place and file of every macro, place 0: not recorded
  g_incStackDeepth,
  inc_names,
  g_CurrentFile,
  mode,               \* "line", "macro" (behind MACRO), "error", "args", "skip" (Skip_line) or "skipmacro"
  after,              \* the mode Skip_line returns to
  label,              \* the symbol of the label on this line
  call,               \* the local variables of Replay_Macro
  errors,             \* g_errorCount # 0
  status,             \* "run" or how the assembly ended
  seen,               \* history: the labels, references and strings of each pass
  made                \* history: calls made, global labels so far, calls skipped

pools   == <<g_pParamsPool, g_pParamsArrayPool, macros_params, params_pointers, g_MacroNumInstances>>
symbols == <<g_LocalSerial, table, macros>>
files   == <<g_incStackDeepth, inc_names, g_CurrentFile>>
history == <<seen, made>>
parser  == <<mode, after, label, call>>
vars    == <<g_passNum, text, stack, pools, symbols, files, parser, errors, status, history>>

----------------------------------------------------------------------------
(* Streams.                                                                *)

\* The stream of index g_streamsStrackIndex.
Top      == stack[Len(stack)]
TopLevel == Len(stack) = 1

\* A stream reads the source or the pool of arguments.
Holds(src, ptr) == IF src = "text" THEN ptr \in 1 .. Len(text) ELSE ptr \in 0 .. Tokens - 1
Ahead           == IF Top.src = "text" THEN text[Top.macro_ptr] ELSE macros_params[Top.macro_ptr]

\* The token t is next (of a source that has not ended).
Reads(t) == /\ status = "run"
            /\ Holds(Top.src, Top.macro_ptr)
            /\ Ahead.t = t

\* GetToken and SkipToken: the stack when the token has been taken.
Taken == [stack EXCEPT ![Len(stack)].macro_ptr = @ + 1]

\* The assembler ends in the middle of a line: "aborted" by asm_abort,
\* "crashed" by a NULL pointer, "overflow" when it stores beyond the pools,
\* "wild" when it uses another array beyond its bounds, "overrun" when it reads tokens beyond the end of the source.
Dies(how) ==
  /\ status' = how
  /\ errors' = (errors \/ how = "aborted")
  /\ UNCHANGED <<g_passNum, text, stack, pools, symbols, files, parser, history>>

\* A new stream on top of st.  It remembers the pools as they are.
Stream(st, src, ptr, count, instance, given, id) ==
  Append(st, [src |-> src, macro_ptr |-> ptr,
              params_array |-> g_pParamsArrayPool, pParamsPool |-> g_pParamsPool,
              params_count |-> count, instancesNumber |-> instance,
              given |-> given, id |-> id])       \* auxiliary: its arguments, its call

\* Where PushStream ends the assembly: it checks the depth of streamsStack,
\* and not that of inc_names.
CannotPush ==
  \/ Len(stack) >= Depth /\ Dies("aborted")
  \/ Len(stack) < Depth /\ Len(stack) >= IncNames /\ Dies("wild")

\* Mutant: both limits are off by one.
MutCanPush == Len(stack) <= Depth /\ Len(stack) <= IncNames

CanPush == Len(stack) < Depth /\ Len(stack) < IncNames

PushFile(file) ==
  /\ g_incStackDeepth' = Len(stack)
  /\ inc_names' = [inc_names EXCEPT ![Len(stack)] = file]

\* inc_names[d] is an entry.
IsName(d) == d \in 0 .. IncNames - 1

----------------------------------------------------------------------------
(* yylex: the tokens the parser does not see.                              *)

Lexes == mode \in {"line", "macro", "error", "args"}

\* Mutant: PopStream does not give the space for tokens back.
MutRestored == [tokens |-> g_pParamsPool, pointers |-> Top.params_array]

\* The pools PopStream returns to.
Restored == [tokens |-> Top.pParamsPool, pointers |-> Top.params_array]

\* OP_ENDM: PopStream.
EndMacro ==
  /\ Lexes
  /\ Reads("endm")
  /\ IF TopLevel
     THEN Dies("aborted")
     ELSE /\ stack' = SubSeq(stack, 1, Len(stack) - 1)
          /\ g_pParamsPool' = Restored.tokens
          /\ g_pParamsArrayPool' = Restored.pointers
          /\ g_incStackDeepth' = Len(stack) - 2
          /\ UNCHANGED <<g_passNum, text, macros_params, params_pointers, g_MacroNumInstances,
                         symbols, inc_names, g_CurrentFile, parser, errors, status, history>>

\* MACRO_PARAM: the argument becomes a stream of its own.
MacroParam ==
  /\ Lexes
  /\ Reads("param")
  /\ LET i == Ahead.n
         p == Top.params_array + i - 1
     IN  \/ /\ TopLevel
            /\ stack' = Taken
            /\ mode' = "skip"
            /\ after' = mode
            /\ errors' = TRUE
            /\ UNCHANGED <<g_passNum, text, pools, symbols, files, label, call, status, history>>
         \/ ~TopLevel /\ i > Top.params_count /\ Dies("aborted")
         \/ ~TopLevel /\ i <= Top.params_count /\ (i = 0 \/ ~IsName(g_incStackDeepth)) /\ Dies("wild")
         \/ ~TopLevel /\ i \in 1 .. Top.params_count /\ IsName(g_incStackDeepth) /\ CannotPush
         \/ /\ ~TopLevel /\ i \in 1 .. Top.params_count /\ IsName(g_incStackDeepth) /\ CanPush
            /\ stack' = Stream(Taken, "pool", params_pointers[p], -1, 0, << >>, 0)
            /\ PushFile(inc_names[g_incStackDeepth])
            /\ UNCHANGED <<g_passNum, text, pools, symbols, g_CurrentFile, parser, errors, status, history>>

EnterFile ==
  /\ Lexes
  /\ Reads("enter")
  /\ IF ~IsName(g_incStackDeepth) \/ ~IsName(g_incStackDeepth + 1)
     THEN Dies("wild")
     ELSE /\ stack' = Taken
          /\ g_incStackDeepth' = g_incStackDeepth + 1
          /\ inc_names' = [inc_names EXCEPT ![g_incStackDeepth + 1] = Ahead.file]
          /\ g_CurrentFile' = Ahead.file
          /\ UNCHANGED <<g_passNum, text, pools, symbols, parser, errors, status, history>>

LeaveFile ==
  /\ Lexes
  /\ Reads("leave")
  /\ IF ~IsName(g_incStackDeepth - 1)
     THEN Dies("wild")
     ELSE /\ stack' = Taken
          /\ g_incStackDeepth' = g_incStackDeepth - 1
          /\ g_CurrentFile' = inc_names[g_incStackDeepth - 1]
          /\ UNCHANGED <<g_passNum, text, pools, symbols, inc_names, parser, errors, status, history>>

\* OP_END inside a macro.
EndInMacro ==
  /\ Lexes
  /\ Reads("end")
  /\ ~TopLevel
  /\ Dies("aborted")

\* The number in the decoration of a local label.
Stamp == IF TopLevel THEN g_LocalSerial ELSE Top.instancesNumber

\* The scope of the readme: the lines between two global labels, or one
\* expansion of a macro.
Here == IF TopLevel THEN [kind |-> "top", n |-> made.globals] ELSE [kind |-> "macro", n |-> Top.id]

\* Mutant: the labels of the source are decorated in both passes.
MutDecorated(tok) ==
  IF tok.name \notin Locals
  THEN tok
  ELSE [tok EXCEPT !.stamps = Append(@, Stamp), !.scope = IF @ = NoScope THEN Here ELSE @]

\* SYM, SYM2, OP_STRING: what begins as a local label is decorated, a string
\* too; in the source it is in pass 1 only.
Decorated(tok) ==
  IF tok.name \notin Locals \/ (TopLevel /\ g_passNum # 0)
  THEN tok
  ELSE [tok EXCEPT !.stamps = Append(@, Stamp), !.scope = IF @ = NoScope THEN Here ELSE @]

\* The source with it: pass 2 will read the decorated label.
Rewritten ==
  IF TopLevel /\ g_passNum = 0 THEN [text EXCEPT ![Top.macro_ptr] = Decorated(@)] ELSE text

----------------------------------------------------------------------------
(* The grammar.                                                            *)

\* The next token is tok, for the parser.
Parses(t) == mode = "line" /\ Reads(t)

Name(tok) == <<tok.name, tok.stamps>>

See(kind, tok) ==
  seen' = [seen EXCEPT ![g_passNum] =
             Append(@, [kind |-> kind, name |-> tok.name, stamps |-> tok.stamps, scope |-> tok.scope])]

\* ResetLocalLabel: '.' and '_' begin a local label, here '@' does not.
Serial(name) ==
  IF TopLevel /\ name \notin Locals \ Ats THEN g_LocalSerial + 1 ELSE g_LocalSerial

\* label: AddLabel.  In pass 1 a symbol may be defined once.
AddLabel ==
  /\ Parses("sym2")
  /\ LET tok  == Decorated(Ahead)
         fail == (Name(tok) \in table) = (g_passNum = 0)
     IN  /\ label' = IF fail THEN Null ELSE tok.name
         /\ table' = IF g_passNum = 0 THEN table \cup {Name(tok)} ELSE table
         /\ errors' = (errors \/ (fail /\ g_passNum = 0))
         /\ g_LocalSerial' = Serial(tok.name)
         /\ See("label", tok)
         /\ made' = IF TopLevel /\ tok.name \notin Locals THEN [made EXCEPT !.globals = @ + 1] ELSE made
  /\ stack' = Taken
  /\ text' = Rewritten
  /\ UNCHANGED <<g_passNum, pools, macros, files, mode, after, call, status>>

\* A symbol in a line: GetSym.
GetSym ==
  /\ Parses("sym")
  /\ LET tok == Decorated(Ahead)
     IN  /\ errors' = (errors \/ (g_passNum # 0 /\ Name(tok) \notin table))
         /\ See("ref", tok)
         /\ UNCHANGED made
  /\ stack' = Taken
  /\ text' = Rewritten
  /\ UNCHANGED <<g_passNum, pools, symbols, files, parser, status>>

\* A string in a line, to be assembled (InsertString) or shown, as yylex left it.
InsertString ==
  /\ Parses("string")
  /\ See("string", Decorated(Ahead))
  /\ stack' = Taken
  /\ text' = Rewritten
  /\ UNCHANGED <<g_passNum, pools, symbols, files, parser, errors, status, made>>

\* A comma between operands, and the end of a line.
Separator ==
  /\ Parses("comma") \/ Parses("eol")
  /\ stack' = Taken
  /\ label' = IF Ahead.t = "eol" THEN None ELSE label
  /\ UNCHANGED <<g_passNum, text, pools, symbols, files, mode, after, call, errors, status, history>>

\* MACRO: the rules want the end of the line behind it.
MacroDirective ==
  /\ Parses("macro")
  /\ stack' = Taken
  /\ mode' = "macro"
  /\ UNCHANGED <<g_passNum, text, pools, symbols, files, after, label, call, errors, status, history>>

\* EOL or OP_END, where yylex lets it through to the grammar or Replay_Macro.
LineEnds == Reads("eol") \/ (TopLevel /\ Reads("end"))

\* label MACRO EOL: pass 1 records the place behind it, then the body is skipped.
MacroRecord ==
  /\ mode = "macro"
  /\ LineEnds
  /\ label # None
  /\ \/ label = Null /\ Dies("crashed")
     \/ label # Null /\ g_passNum = 0 /\ ~IsName(g_incStackDeepth) /\ Dies("wild")
     \/ /\ label # Null /\ (g_passNum = 0 => IsName(g_incStackDeepth))
        /\ macros' = IF g_passNum = 0
                     THEN [macros EXCEPT ![label] = [ptr  |-> Top.macro_ptr + 1,
                                                     file |-> inc_names[g_incStackDeepth]]]
                     ELSE macros
        /\ stack' = Taken
        /\ mode' = "skipmacro"
        /\ label' = None
        /\ UNCHANGED <<g_passNum, text, pools, g_LocalSerial, table, files, after, call, errors, status, history>>

\* MACRO EOL without a label.
MacroError ==
  /\ mode = "macro"
  /\ LineEnds
  /\ label = None
  /\ stack' = Taken
  /\ mode' = "skipmacro"
  /\ errors' = (errors \/ g_passNum = 0)
  /\ UNCHANGED <<g_passNum, text, pools, symbols, files, after, label, call, status, history>>

\* A token that a line may hold, and no line may hold behind MACRO.
InLine == \E t \in {"sym", "sym2", "string", "call", "macro", "comma"} : Reads(t)

\* A syntax error: the rest of the line is thrown away, but yylex has seen it.
SyntaxError ==
  /\ mode = "macro"
  /\ InLine
  /\ stack' = Taken
  /\ text' = Rewritten
  /\ mode' = "error"
  /\ label' = None
  /\ errors' = TRUE
  /\ UNCHANGED <<g_passNum, pools, symbols, files, after, call, status, history>>

\* error EOL.  END is thrown away too.
Discard ==
  /\ mode = "error"
  /\ InLine \/ LineEnds
  /\ stack' = Taken
  /\ text' = Rewritten
  /\ mode' = IF Ahead.t = "eol" THEN "line" ELSE mode
  /\ UNCHANGED <<g_passNum, pools, symbols, files, after, label, call, errors, status, history>>

IsMacro(name) == macros[name].ptr # 0

\* The name of a macro: Replay_Macro begins to read its arguments.  A name
\* that is not one is an error in pass 2; the line is skipped in both.
MacroCall ==
  /\ Parses("call")
  /\ LET name == Ahead.name IN
     \/ /\ ~IsMacro(name)
        /\ mode' = "skip"
        /\ after' = "line"
        /\ errors' = (errors \/ g_passNum # 0)
        /\ stack' = Taken
        /\ label' = None
        /\ made' = [made EXCEPT !.skipped = TRUE]
        /\ UNCHANGED <<g_passNum, text, pools, symbols, files, call, status, seen>>
     \/ IsMacro(name) /\ g_pParamsArrayPool >= Pointers /\ Dies("overflow")
     \/ /\ IsMacro(name) /\ g_pParamsArrayPool < Pointers
        /\ params_pointers' = [params_pointers EXCEPT ![g_pParamsArrayPool] = g_pParamsPool]
        /\ call' = [name |-> name, pParamArray |-> g_pParamsArrayPool + 1, pStoreParam |-> g_pParamsPool,
                    pFirst |-> g_pParamsPool, params_count |-> 0, commas |-> 0, given |-> << << >> >>]
        /\ mode' = "args"
        /\ stack' = Taken
        /\ label' = None
        /\ UNCHANGED <<g_passNum, text, g_pParamsPool, g_pParamsArrayPool, macros_params, g_MacroNumInstances,
                       symbols, files, after, errors, status, history>>

----------------------------------------------------------------------------
(* Replay_Macro: the loop over the arguments.                              *)

\* Mutant: the check of the space for tokens is off by one.
MutFull == call.pParamArray >= Pointers \/ call.pStoreParam > Tokens

Full == call.pParamArray >= Pointers \/ call.pStoreParam >= Tokens

\* Full is checked when a token has been read, whatever it is.
TooHeavy ==
  /\ mode = "args"
  /\ InLine \/ LineEnds
  /\ Full
  /\ Dies("aborted")

\* The store through pStoreParam is in macros_params, and that through
\* pParamArray in params_pointers.
InPool  == call.pStoreParam < Tokens
InArray == call.pParamArray < Pointers

Put(tok) == macros_params' = [macros_params EXCEPT ![call.pStoreParam] = tok]

\* Void: the first argument is empty and another one follows (pFirst stays at
\* the first, so a later empty argument goes unnoticed).
Void == call.pFirst = call.pStoreParam

\* Auxiliary: the arguments of the call when tok belongs to the last one.
Given(tok) == [call.given EXCEPT ![Len(call.given)] = Append(@, tok)]

\* A token of an argument is copied.
StoreArgument ==
  /\ mode = "args"
  /\ \E t \in {"sym", "sym2", "string", "call", "macro"} : Reads(t)
  /\ ~Full
  /\ IF ~InPool
     THEN Dies("overflow")
     ELSE LET tok == Decorated(Ahead) IN
          /\ Put(tok)
          /\ call' = [call EXCEPT !.pStoreParam = @ + 1,
                                  !.given = Given(tok)]
          /\ stack' = Taken
          /\ text' = Rewritten
          /\ UNCHANGED <<g_passNum, g_pParamsPool, g_pParamsArrayPool, params_pointers, g_MacroNumInstances,
                         symbols, files, mode, after, label, errors, status, history>>

\* ',' ends an argument.
NextArgument ==
  /\ mode = "args"
  /\ Reads("comma")
  /\ ~Full
  /\ IF ~InPool \/ ~InArray
     THEN Dies("overflow")
     ELSE /\ Put(Tok("endm"))
          /\ params_pointers' = [params_pointers EXCEPT ![call.pParamArray] = call.pStoreParam + 1]
          /\ call' = [call EXCEPT !.pStoreParam = @ + 1,
                                  !.pParamArray = @ + 1,
                                  !.params_count = IF Void THEN @ ELSE @ + 1,
                                  !.commas = IF Void THEN @ ELSE @ + 1,
                                  !.given = Append(@, << >>)]
          /\ stack' = Taken
          /\ errors' = (errors \/ Void)
          /\ UNCHANGED <<g_passNum, text, g_pParamsPool, g_pParamsArrayPool, g_MacroNumInstances,
                         symbols, files, mode, after, label, status, history>>

\* Mutant: the instance number counts the open calls.
MutInstance == Len(stack)

\* The instance number of the call.
Instance == g_MacroNumInstances + 1

\* Mutant: the ENDM behind the last argument is not counted.
MutUsed == call.pStoreParam

\* The space for tokens in use when the call is made.
Used == call.pStoreParam + 1

\* The end of the line (or END) ends the arguments, and the body is next.
ReplayMacro ==
  /\ mode = "args"
  /\ LineEnds
  /\ ~Full
  /\ LET count == IF Void /\ call.commas > 0 THEN call.params_count ELSE call.params_count + 1
         macro == macros[call.name]
     IN  \/ ~InPool /\ Dies("overflow")
         \/ InPool /\ CannotPush
         \/ /\ InPool /\ CanPush
            /\ Put(Tok("endm"))
            /\ g_MacroNumInstances' = g_MacroNumInstances + 1
            /\ stack' = Stream(Taken, "text", macro.ptr, count, Instance, call.given, made.calls + 1)
            /\ PushFile(macro.file)
            /\ g_CurrentFile' = macro.file
            /\ g_pParamsPool' = Used
            /\ g_pParamsArrayPool' = call.pParamArray
            /\ errors' = (errors \/ (Void /\ call.commas > 0))
            /\ mode' = "line"
            /\ made' = [made EXCEPT !.calls = @ + 1]
            /\ UNCHANGED <<g_passNum, text, params_pointers, symbols, after, label, call, status, seen>>

----------------------------------------------------------------------------
(* Skip_line and Skip_Macro, and the ends of the source.                   *)

SkipLine ==
  /\ mode = "skip"
  /\ \E t \in Kinds : Reads(t)
  /\ stack' = Taken
  /\ mode' = IF Ahead.t \in {"eol", "end"} THEN after ELSE mode
  /\ UNCHANGED <<g_passNum, text, pools, symbols, files, after, label, call, errors, status, history>>

SkipMacro ==
  /\ mode = "skipmacro"
  /\ \E t \in Kinds : Reads(t)
  /\ IF Ahead.t = "end"
     THEN Dies("aborted")
     ELSE /\ stack' = Taken
          /\ mode' = IF Ahead.t = "endm" THEN "line" ELSE mode
          /\ UNCHANGED <<g_passNum, text, pools, symbols, files, after, label, call, errors, status, history>>

\* An END that Skip_line or Replay_Macro has taken is missed.
Overrun ==
  /\ status = "run"
  /\ ~Holds(Top.src, Top.macro_ptr)
  /\ Dies("overrun")

MainStream == [src |-> "text", macro_ptr |-> 1, params_array |-> 0, pParamsPool |-> 0,
               params_count |-> -1, instancesNumber |-> 0, given |-> << >>, id |-> 0]

\* Mutant: pass 2 goes on with the instance numbers of pass 1.
MutKeptInstances == g_MacroNumInstances

\* InitMacroProxy, for pass 2.
KeptInstances == 0

\* END at the top level: the second pass (InitMacroProxy, InitParserPass2), or
\* the end.
EndOfPass ==
  /\ Parses("end")
  /\ TopLevel
  /\ IF g_passNum = 0 /\ ~errors
     THEN /\ g_passNum' = 1
          /\ stack' = <<MainStream>>
          /\ g_pParamsPool' = 0
          /\ g_pParamsArrayPool' = 0
          /\ g_MacroNumInstances' = KeptInstances
          /\ g_LocalSerial' = 0
          /\ g_incStackDeepth' = 0
          /\ label' = None
          /\ made' = [made EXCEPT !.calls = 0, !.globals = 0]
          /\ UNCHANGED <<text, macros_params, params_pointers, table, macros, inc_names, g_CurrentFile,
                         mode, after, call, errors, status, seen>>
     ELSE /\ status' = IF errors THEN "rejected" ELSE "accepted"
          /\ UNCHANGED <<g_passNum, text, stack, pools, symbols, files, parser, errors, history>>

NoCall == [name |-> None, pParamArray |-> 0, pStoreParam |-> 0, pFirst |-> 0,
           params_count |-> 0, commas |-> 0, given |-> << >>]

Init ==
  /\ g_passNum = 0
  /\ text \in Texts
  /\ stack = <<MainStream>>
  /\ g_pParamsPool = 0
  /\ g_pParamsArrayPool = 0
  /\ macros_params = [i \in 0 .. Tokens - 1 |-> Tok("endm")]
  /\ params_pointers = [i \in 0 .. Pointers - 1 |-> 0]
  /\ g_MacroNumInstances = 0
  /\ g_LocalSerial = 0
  /\ table = {}
  /\ macros = [n \in Names |-> [ptr |-> 0, file |-> Main]]
  /\ g_incStackDeepth = 0
  /\ inc_names = [i \in 0 .. IncNames - 1 |-> Main]
  /\ g_CurrentFile = Main
  /\ mode = "line"
  /\ after = "line"
  /\ label = None
  /\ call = NoCall
  /\ errors = FALSE
  /\ status = "run"
  /\ seen = [p \in 0 .. 1 |-> << >>]
  /\ made = [calls |-> 0, globals |-> 0, skipped |-> FALSE]

Next ==
  \/ EndMacro \/ MacroParam \/ EnterFile \/ LeaveFile \/ EndInMacro
  \/ AddLabel \/ GetSym \/ InsertString \/ Separator \/ MacroCall
  \/ MacroDirective \/ MacroRecord \/ MacroError \/ SyntaxError \/ Discard
  \/ TooHeavy \/ StoreArgument \/ NextArgument \/ ReplayMacro
  \/ SkipLine \/ SkipMacro \/ Overrun \/ EndOfPass

Spec == Init /\ [][Next]_vars

----------------------------------------------------------------------------
(* Properties.                                                             *)

Event == [kind : {"label", "ref", "string"}, name : Names, stamps : Seq(Int), scope : Scope]

Frame == [src : {"text", "pool"}, macro_ptr : Nat, params_array : 0 .. Pointers, pParamsPool : 0 .. Tokens,
          params_count : Int, instancesNumber : Nat, given : Seq(Seq(Token)), id : Nat]

\* Types of the variables.
TypeOK ==
  /\ g_passNum \in {0, 1}
  /\ text \in Seq(Token)
  /\ stack \in Seq(Frame) /\ Len(stack) \in 1 .. Depth
  /\ g_pParamsPool \in 0 .. Tokens /\ g_pParamsArrayPool \in 0 .. Pointers
  /\ macros_params \in [0 .. Tokens - 1 -> Token]
  /\ params_pointers \in [0 .. Pointers - 1 -> 0 .. Tokens]
  /\ g_MacroNumInstances \in Nat /\ g_LocalSerial \in Nat
  /\ table \subseteq Names \X Seq(Int)
  /\ macros \in [Names -> [ptr : Nat, file : Files]]
  /\ g_incStackDeepth \in 0 .. IncNames - 1
  /\ inc_names \in [0 .. IncNames - 1 -> Files]
  /\ g_CurrentFile \in Files
  /\ mode \in {"line", "macro", "error", "args", "skip", "skipmacro"}
  /\ after \in {"line", "macro", "error", "args"}
  /\ label \in Names \cup {None, Null}
  /\ call.pStoreParam \in 0 .. Tokens /\ call.pParamArray \in 0 .. Pointers
  /\ errors \in BOOLEAN
  /\ status \in {"run", "accepted", "rejected", "aborted", "crashed", "overflow", "wild", "overrun"}
  /\ seen \in [0 .. 1 -> Seq(Event)]

\* "Too heavy usage of macros" is noticed in time: no token or pointer of an
\* argument is stored beyond the pools, though MacroCall stores the first
\* pointer without a check.
PoolsInBounds == status # "overflow"

\* The arguments of a call are in the pool as they were given until its ENDM,
\* whatever calls the body makes.
ArgumentsIntact ==
  status = "run" =>
    \A i \in 1 .. Len(stack) : \A k \in 1 .. Len(stack[i].given) :
      LET arg   == stack[i].given[k]
          start == params_pointers[stack[i].params_array + k - 1]
      IN  /\ \A j \in 1 .. Len(arg) : macros_params[start + j - 1] = arg[j]
          /\ macros_params[start + Len(arg)] = Tok("endm")

\* When the outermost call has ended the pools are empty: calls in a row do
\* not use them up.
PoolsReturned ==
  TopLevel /\ mode = "line" => g_pParamsPool = 0 /\ g_pParamsArrayPool = 0

\* An occurrence of a local label, and one that was not an argument.
IsLocal(e) == e.kind # "string" /\ e.name \in Locals
Direct(e)  == IsLocal(e) /\ Len(e.stamps) = 1

SameLabel(e1, e2) == e1.name = e2.name /\ e1.stamps = e2.stamps

SameScope(e1, e2) == e1.name = e2.name /\ e1.scope = e2.scope

\* Two expansions of a macro do not share a local label, and one expansion has
\* one; the same of the lines between two global labels.  (A label of an
\* expansion and one of the source are another matter: see LocalScopes.)
LocalsApart ==
  \A p \in 0 .. 1 : \A i, j \in 1 .. Len(seen[p]) :
    LET e1 == seen[p][i]
        e2 == seen[p][j]
    IN  Direct(e1) /\ Direct(e2) /\ e1.scope.kind = e2.scope.kind =>
          (SameLabel(e1, e2) <=> SameScope(e1, e2))

\* When no call was skipped (because its macro is not known, or defined below
\* it), pass 2 sees the labels and references of pass 1 by the same names, and
\* its strings with the same text: a string has one length in both.
SamePasses ==
  g_passNum = 1 /\ ~made.skipped =>
    /\ Len(seen[1]) <= Len(seen[0])
    /\ \A i \in 1 .. Len(seen[1]) : SameLabel(seen[1][i], seen[0][i])
    /\ status \in {"accepted", "rejected"} => Len(seen[1]) = Len(seen[0])

\* What the readme says of local labels, and the todo of 'every context': two
\* occurrences name one label if they stand in one scope, and only then.
LocalScopes ==
  \A p \in 0 .. 1 : \A i, j \in 1 .. Len(seen[p]) :
    IsLocal(seen[p][i]) /\ IsLocal(seen[p][j]) =>
      (SameLabel(seen[p][i], seen[p][j]) <=> SameScope(seen[p][i], seen[p][j]))
=============================================================================
