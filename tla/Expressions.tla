----------------------------- MODULE Expressions -------------------------------
(***************************************************************************)
(* Symbols and expressions over the two passes: the statements of Parser.y  *)
(* that give names a value or read one, with the symbol table, the store of *)
(* the names and the values they work on.                                  *)
(*                                                                         *)
(* The whole program is read into tokens first (PrefetchTokens), which      *)
(* stores its names; pass 1 and pass 2 then parse it, line by line: the     *)
(* label is defined before the expressions of its line are evaluated.  An   *)
(* expression is the sequence of its tokens in the order the parser reduces *)
(* them.  All lines are in one section, in P: or in L: memory, that begins  *)
(* at address 0.                                                           *)
(***************************************************************************)
EXTENDS Values, SymbolTable, StringBuffer, SequencesExt, FiniteSets

CONSTANTS NoName, NameLen,     \* the length of every name
          Programs             \* what is tried: the lines of a program, and its -D options
                               \* [name, value], in their order

ASSUME NameAssumption == NoName \notin Names /\ NameLen \in [Names -> Nat]

VARIABLES program, mem, phase,
          options,             \* the -D options still to come
          tokens,              \* the tokens still to read
          g_passNum, line, labelled,
          pc, errors,
          reads, given, answers, words    \* what the passes did, by line

machine == <<program, mem, phase, options, tokens, g_passNum, line, labelled, pc, errors>>
seen == <<reads, given, answers, words>>
vars == <<machine, seen, tableVars, strVars>>

-------------------------------------------------------------------------------
(* Tokens of expressions, and statements. *)
Num(v) == [k |-> "num", num |-> v]
Sym(n) == [k |-> "sym", name |-> n]
Bin(digits) == [k |-> "bin", digits |-> digits]
Chars(chars) == [k |-> "chars", chars |-> chars]
Op(o) == [k |-> "op", op |-> o]
Here == [k |-> "here"]

\* op: none, equ, set, macro, dc, if, ifcc, ifdef; name: the label, or the name SET and
\* IFDEF are about; exps: its expressions; cond: the condition of an IF.
Statement(op, name, exps, cond) == [op |-> op, name |-> name, exps |-> exps, cond |-> cond]
HasLabel(s) == s.op \notin {"set", "ifdef"} /\ s.name # NoName
TokensOf(s) == (IF s.name = NoName THEN <<>> ELSE <<Sym(s.name)>>) \o FlattenSeq(s.exps)
TokensOfLines(lines) == FlattenSeq([i \in DOMAIN lines |-> TokensOf(lines[i])])

Binary == {"&", "|", "^", "<<", ">>", "+", "-", "*", "/"}
Unary == {"neg", "!", "~", "fract", "float", "int"}
\* The numbers of the text and of the command line: integers of the width, and
\* quotients in lowest terms.
Value == [type : {"kInt"}, q : (0 .. Pow2[LongBits] - 1) \X {1}]
         \cup [type : {"kFract", "kFloat"}, q : {q \in Int \X (Nat \ {0}) : GCD[<<Abs(q[1]), q[2]>>] = 1}]
Token == [k : {"num"}, num : Value] \cup [k : {"sym"}, name : Names]
         \cup [k : {"bin"}, digits : Seq({0, 1})] \cup [k : {"chars"}, chars : Seq(0 .. Pow2[CharBits] - 1)]
         \cup [k : {"op"}, op : Binary \cup Unary] \cup [k : {"here"}]
Statements == [op : {"none", "equ", "set", "macro", "dc", "if", "ifcc", "ifdef"}, name : Names \cup {NoName},
               exps : Seq(Seq(Token)), cond : STRING]

\* The values on the stack behind the first n tokens; every operator finds its operands.
Arity(t) == IF t.k # "op" THEN 0 ELSE IF t.op \in Binary THEN 2 ELSE 1
Depth(ts, n) == Cardinality({i \in 1 .. n : Arity(ts[i]) = 0}) - Cardinality({i \in 1 .. n : Arity(ts[i]) = 2})
Reducible(ts) == \A i \in DOMAIN ts : Arity(ts[i]) <= Depth(ts, i - 1)

\* What the grammar lets through: an EQU, SET, MACRO or IFDEF has a name, a statement
\* the expressions it needs, and these their operands; an IF compares.  (A DC of several
\* expressions is as many.)
ASSUME ProgramsAssumption ==
    \A p \in Programs :
        /\ p.lines \in Seq(Statements) /\ p.options \in Seq([name : Names, value : Value])
        /\ \A i \in DOMAIN p.lines : LET s == p.lines[i]  ts == FlattenSeq(s.exps) IN
              /\ s.op \in {"equ", "set", "macro", "ifdef"} => s.name # NoName
              /\ s.op \in {"equ", "set", "dc", "if", "ifcc"} => s.exps # <<>> /\ Reducible(ts) /\ Depth(ts, Len(ts)) = Len(s.exps)
              /\ s.op = "if" => Len(s.exps) = 2 /\ s.cond \in Comparisons
              /\ s.op \in {"equ", "set", "dc", "ifcc"} => Len(s.exps) = 1

GetCurrentPC == pc
AddressOfLabel == IF mem = L_MEM THEN pc \div 2 ELSE pc

GetSym(name) == IF Defined(name)
                THEN [val |-> slots[FindSymbol(name)].val, err |-> FALSE]
                ELSE [val |-> Val_CreateUnresolved, err |-> g_passNum # 0]

\* The outcomes of an operator for the operands on the top of the stack.
Apply2(o, v, w, pass) ==
    CASE o = "&" -> Val_And(v, w)
      [] o = "|" -> Val_Or(v, w)
      [] o = "^" -> Val_Xor(v, w)
      [] o = "<<" -> Val_Lsl(v, w)
      [] o = ">>" -> Val_Lsr(v, w)
      [] o = "+" -> Val_Add(v, w)
      [] o = "-" -> Val_Add(v, Val_Neg(w))
      [] o = "*" -> Val_Mul(v, w)
      [] o = "/" -> Val_Div(v, w, pass)
Apply1(o, v) ==
    CASE o = "neg" -> Gives(Val_Neg(v))
      [] o = "!" -> Gives(Val_Not(v))
      [] o = "~" -> Val_BinNot(v)
      [] o = "fract" -> Val_CastToFract(v)
      [] o = "float" -> Val_CastToFloat(v)
      [] o = "int" -> Val_CastToInt(v)
Leaf(t) ==
    CASE t.k = "num" -> Gives(t.num)
      [] t.k = "bin" -> Gives(Val_CreateInt(atobin(t.digits).int))
      [] t.k = "chars" -> Gives(Val_CreateInt(StrToInt(t.chars)))
      [] t.k = "here" -> Gives(Val_CreateInt(GetCurrentPC))
      [] t.k = "sym" -> {GetSym(t.name)}

\* One reduction: every value on the stack it may leave, from one stack.
Reduce(s, t) ==
    LET n == Len(s.stack)
        out == IF t.k # "op" THEN Leaf(t)
               ELSE IF t.op \in Binary THEN Apply2(t.op, s.stack[n - 1], s.stack[n], g_passNum + 1)
               ELSE Apply1(t.op, s.stack[n])
        rest == IF t.k # "op" THEN s.stack
                ELSE IF t.op \in Binary THEN SubSeq(s.stack, 1, n - 2) ELSE SubSeq(s.stack, 1, n - 1)
    IN {[stack |-> Append(rest, o.val), err |-> s.err \/ o.err] : o \in out}
\* The values expressions may have, one after the other, and whether an error was reported.
Evaluate(exps) ==
    FoldLeft(LAMBDA states, t : UNION {Reduce(s, t) : s \in states},
             {[stack |-> <<>>, err |-> FALSE]}, FlattenSeq(exps))

-------------------------------------------------------------------------------
Init ==
    /\ \E p \in Programs : program = p.lines /\ options = p.options
    /\ mem \in {P_MEM, L_MEM} /\ phase = "options"
    /\ tokens = TokensOfLines(program)
    /\ g_passNum = 0 /\ line = 1 /\ labelled = FALSE /\ pc = 0 /\ errors = FALSE
    /\ reads = {} /\ given = {} /\ answers = {} /\ words = {}
    /\ InitSymbolTable /\ StringBufferInit

\* An entry behind its block is not the table's memory: the program may end there.
MayEnd == \/ ~PastBlock(NewEntry) /\ phase' = phase
          \/ PastBlock(NewEntry) /\ phase' \in {phase, "dead"}

\* What gave a name a value, on which line: line 0 is the command line.
Given(where, by, name, val) ==
    given' = given \cup {[pass |-> g_passNum, line |-> where, by |-> by, name |-> name, val |-> val]}

\* -D name=value: the name is copied, and given the address 0 and then the value.
DefineSymbol ==
    /\ phase = "options" /\ options # <<>>
    /\ LET o == Head(options)
       IN /\ Given(0, "option", o.name, o.value)
          /\ IF Defined(o.name)
             THEN /\ errors' = TRUE /\ UNCHANGED <<strVars, phase>>
                  /\ SymSetValue(FindSymbol(o.name), T_VALUE, o.value)
             ELSE /\ AddSymbol(o.name, T_VALUE, o.value, -1) /\ MayEnd
                  /\ StringBufferInsert(NameLen[o.name]) /\ UNCHANGED errors
    /\ options' = Tail(options)
    /\ UNCHANGED <<program, mem, tokens, g_passNum, line, labelled, pc, reads, answers, words>>

\* A token is read: a name is stored, a binary constant may be refused.
PrefetchToken ==
    /\ phase = "options" /\ options = <<>> /\ tokens # <<>>
    /\ IF Head(tokens).k = "sym" THEN StringBufferInsert(NameLen[Head(tokens).name]) ELSE UNCHANGED strVars
    /\ errors' = (errors \/ (Head(tokens).k = "bin" /\ atobin(Head(tokens).digits).err))
    /\ tokens' = Tail(tokens)
    /\ UNCHANGED <<program, mem, phase, options, g_passNum, line, labelled, pc, seen, tableVars>>

InitParserPass1 ==
    /\ phase = "options" /\ options = <<>> /\ tokens = <<>>
    /\ phase' = "parse"
    /\ UNCHANGED <<program, mem, options, tokens, g_passNum, line, labelled, pc, errors, seen, tableVars, strVars>>

Parsing == phase = "parse" /\ line <= Len(program)
Current == program[line]

\* AddLabel: in pass 1 a new name gets the address; a second label of that name is an
\* error, and a crash where the statement uses the entry; pass 2 sets the space only.
AddLabel ==
    /\ Parsing /\ ~labelled /\ HasLabel(Current)
    /\ labelled' = TRUE
    /\ IF g_passNum = 0
       THEN LET here == Val_CreateInt(AddressOfLabel)
            IN IF Defined(Current.name)
               THEN /\ errors' = TRUE /\ UNCHANGED <<tableVars, given>>
                    /\ phase' = IF Current.op \in {"equ", "macro"} THEN "dead" ELSE phase
               ELSE AddSymbol(Current.name, T_PTR, here, mem) /\ MayEnd /\ Given(line, "label", Current.name, here) /\ UNCHANGED errors
       ELSE SymbolSetMemSpace(FindSymbol(Current.name), mem) /\ UNCHANGED <<phase, errors, given>>
    /\ UNCHANGED <<program, mem, options, tokens, g_passNum, line, pc, reads, answers, words, strVars>>

\* The rest of a line: what its expressions read is noted, and parsing goes on.
LabelDone == Parsing /\ (labelled \/ ~HasLabel(Current))
Reads(exps) ==
    reads' = reads \cup {[pass |-> g_passNum, line |-> line, name |-> t.name, val |-> GetSym(t.name).val] :
                            t \in {u \in ToSet(FlattenSeq(exps)) : u.k = "sym"}}
NextLine == line' = line + 1 /\ labelled' = FALSE
Unchanged == UNCHANGED <<program, mem, phase, options, tokens, g_passNum, strVars>>

\* A label alone.
NoStatement ==
    /\ LabelDone /\ Current.op = "none"
    /\ NextLine /\ Unchanged /\ UNCHANGED <<pc, errors, seen, tableVars>>

\* An empty macro: its name, which has an address already, becomes that of a macro.
MacroRecord ==
    /\ LabelDone /\ Current.op = "macro"
    /\ SymSetValueMacro(FindSymbol(Current.name), T_MACRO)
    /\ NextLine /\ Unchanged /\ UNCHANGED <<pc, errors, seen>>

\* Mutant: the value is stored whether it is resolved or not.
MutSymSetUnchecked ==
    /\ LabelDone /\ Current.op \in {"equ", "set"}
    /\ \E e \in Evaluate(Current.exps) :
          /\ errors' = (errors \/ e.err \/ ~Defined(Current.name))
          /\ IF ~Defined(Current.name) THEN UNCHANGED <<tableVars, given>>
             ELSE SymSetValue(FindSymbol(Current.name), T_VALUE, e.stack[1]) /\ Given(line, Current.op, Current.name, e.stack[1])
    /\ Reads(Current.exps)
    /\ NextLine /\ Unchanged /\ UNCHANGED <<pc, answers, words>>
\* Mutant: pass 2 takes a SET for done.
MutSymSet ==
    /\ LabelDone /\ Current.op \in {"equ", "set"}
    /\ \E e \in Evaluate(Current.exps) :
          LET val == e.stack[1]
              fails == ~Defined(Current.name) \/ Val_CheckResolved(val)
          IN /\ errors' = (errors \/ e.err \/ fails)
             /\ IF fails \/ (g_passNum = 1 /\ Current.op = "set") THEN UNCHANGED <<tableVars, given>>
                ELSE SymSetValue(FindSymbol(Current.name), T_VALUE, val) /\ Given(line, Current.op, Current.name, val)
    /\ Reads(Current.exps)
    /\ NextLine /\ Unchanged /\ UNCHANGED <<pc, answers, words>>
\* EQU and SET: an unresolved value is refused and the name keeps what it has.
SymSet ==
    /\ LabelDone /\ Current.op \in {"equ", "set"}
    /\ \E e \in Evaluate(Current.exps) :
          LET val == e.stack[1]
              fails == ~Defined(Current.name) \/ Val_CheckResolved(val)
          IN /\ errors' = (errors \/ e.err \/ fails)
             /\ IF fails THEN UNCHANGED <<tableVars, given>>
                ELSE SymSetValue(FindSymbol(Current.name), T_VALUE, val) /\ Given(line, Current.op, Current.name, val)
    /\ Reads(Current.exps)
    /\ NextLine /\ Unchanged /\ UNCHANGED <<pc, answers, words>>

\* DC: a word, or the two of a long word with the low one first, stored in pass 2.
WordsOf(val) == IF mem = L_MEM
                THEN <<Val_GetAsFract48(val) % Pow2[WordBits], (Val_GetAsFract48(val) \div Pow2[WordBits]) % Pow2[IntBits]>>
                ELSE <<Val_GetAsFract24(val) % Pow2[IntBits]>>
GenDc ==
    /\ LabelDone /\ Current.op = "dc"
    /\ \E e \in Evaluate(Current.exps) :
          /\ errors' = (errors \/ e.err)
          /\ words' = IF g_passNum = 0 THEN words
                      ELSE words \cup {[line |-> line, err |-> e.err, words |-> WordsOf(e.stack[1])]}
    /\ pc' = IF mem = L_MEM THEN pc + 2 ELSE pc + 1
    /\ Reads(Current.exps)
    /\ NextLine /\ Unchanged /\ UNCHANGED <<given, answers, tableVars>>

\* IF and IFDEF, whose lines are all the program has of the conditional: the answer.
Answer(vals, answer) ==
    answers' = answers \cup {[pass |-> g_passNum, line |-> line, vals |-> vals, answer |-> answer]}
EvalIf ==
    /\ LabelDone /\ Current.op = "if"
    /\ \E e \in Evaluate(Current.exps) :
          IF Val_CheckResolved2(e.stack[1], e.stack[2])
          THEN errors' = TRUE /\ UNCHANGED answers
          ELSE errors' = (errors \/ e.err) /\ Answer(e.stack, EvalCondition(Current.cond, e.stack[1], e.stack[2]))
    /\ Reads(Current.exps)
    /\ NextLine /\ Unchanged /\ UNCHANGED <<pc, given, words, tableVars>>
EvalIfcc ==
    /\ LabelDone /\ Current.op = "ifcc"
    /\ \E e \in Evaluate(Current.exps) :
          LET val == e.stack[1]
              refused == Val_CheckResolved(val) \/ Current.cond \notin IfCodes
          IN IF refused THEN errors' = TRUE /\ UNCHANGED answers
             ELSE /\ errors' = (errors \/ e.err \/ Val_GetAsInt(val).err)
                  /\ Answer(e.stack, EvalIfOneArg(Current.cond, Val_GetAsInt(val).int))
    /\ Reads(Current.exps)
    /\ NextLine /\ Unchanged /\ UNCHANGED <<pc, given, words, tableVars>>
EvalDefined ==
    /\ LabelDone /\ Current.op = "ifdef"
    /\ Answer(<<>>, Defined(Current.name))
    /\ NextLine /\ Unchanged /\ UNCHANGED <<pc, errors, reads, given, words, tableVars>>

\* Mutant: pass 2 goes on counting words where pass 1 stopped.
MutEndPass ==
    /\ phase = "parse" /\ line > Len(program)
    /\ IF g_passNum = 0 /\ ~errors
       THEN g_passNum' = 1 /\ line' = 1 /\ UNCHANGED <<phase, pc>>
       ELSE phase' = (IF errors THEN "failed" ELSE "saved") /\ UNCHANGED <<g_passNum, line, pc>>
    /\ UNCHANGED <<program, mem, options, tokens, labelled, errors, seen, tableVars, strVars>>
\* Pass 2 follows pass 1 when no error was reported; the program ends after it.
EndPass ==
    /\ phase = "parse" /\ line > Len(program)
    /\ IF g_passNum = 0 /\ ~errors
       THEN g_passNum' = 1 /\ line' = 1 /\ pc' = 0 /\ UNCHANGED phase
       ELSE phase' = (IF errors THEN "failed" ELSE "saved") /\ UNCHANGED <<g_passNum, line, pc>>
    /\ UNCHANGED <<program, mem, options, tokens, labelled, errors, seen, tableVars, strVars>>

Next == \/ DefineSymbol \/ PrefetchToken \/ InitParserPass1
        \/ AddLabel \/ NoStatement \/ MacroRecord \/ SymSet \/ GenDc
        \/ EvalIf \/ EvalIfcc \/ EvalDefined \/ EndPass

Spec == Init /\ [][Next]_vars
===============================================================================
