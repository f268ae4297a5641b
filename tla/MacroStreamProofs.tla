------------------------- MODULE MacroStreamProofs -------------------------
(***************************************************************************)
(* Proofs about MacroStream, for sources of any length and macros that     *)
(* call each other in any way.  The pools of macro arguments are never     *)
(* overrun nor used up; the arguments of a call are kept until its ENDM    *)
(* when every ENDM begins its line; and the local labels of expansions are *)
(* kept apart when no label of the source begins with '@'.                 *)
(***************************************************************************)
EXTENDS MacroStream, SequenceTheorems, TLAPS

----------------------------------------------------------------------------
(* The inductive invariant of the streams and the pools.                   *)

\* The tokens an argument is made of, and the ENDM behind it.
Stored == {"sym", "sym2", "string", "call", "macro", "endm"}

\* The source, and the arguments that have been copied.
Sources ==
  /\ text \in Seq(Token)
  /\ \A i \in 1 .. Len(text) : Written(text[i])
  /\ macros_params \in [0 .. Tokens - 1 -> Token]
  /\ \A i \in 0 .. Tokens - 1 : Written(macros_params[i]) /\ macros_params[i].t \in Stored
  /\ params_pointers \in [0 .. Pointers - 1 -> 0 .. Tokens]

\* The streams: what each has saved is at most what the next has saved, and
\* the outermost call has saved empty pools.
Streams ==
  /\ stack \in Seq(Frame)
  /\ Len(stack) \in 1 .. Depth /\ Len(stack) <= IncNames
  /\ g_pParamsPool \in 0 .. Tokens /\ g_pParamsArrayPool \in 0 .. Pointers - 1
  /\ \A i \in 1 .. Len(stack) : /\ stack[i].params_array <= g_pParamsArrayPool
                                /\ stack[i].pParamsPool <= g_pParamsPool
                                /\ stack[i].params_array + stack[i].params_count <= Pointers
  /\ \A i, j \in 1 .. Len(stack) : i <= j => /\ stack[i].params_array <= stack[j].params_array
                                             /\ stack[i].pParamsPool <= stack[j].pParamsPool
  /\ stack[1].src = "text"
  /\ Len(stack) = 1 => g_pParamsPool = 0 /\ g_pParamsArrayPool = 0
  /\ Len(stack) > 1 => stack[2].pParamsPool = 0 /\ stack[2].params_array = 0

\* Replay_Macro reads arguments, or Skip_line skips a line for it.
Calling == mode = "args" \/ (mode = "skip" /\ after = "args")

Call == [name : Names, pParamArray : 0 .. Pointers, pStoreParam : 0 .. Tokens, pFirst : 0 .. Tokens,
         params_count : Nat, commas : Nat, given : Seq(Seq(Token))]

\* The local variables of Replay_Macro.
CallTypes ==
  /\ call \in Call \cup {NoCall}
  /\ Calling => /\ call \in Call
                /\ call.given # << >>
                /\ g_pParamsPool <= call.pStoreParam
                /\ g_pParamsArrayPool + Len(call.given) <= call.pParamArray
                /\ g_pParamsArrayPool + call.params_count + 1 <= call.pParamArray

FileTypes ==
  /\ g_incStackDeepth \in 0 .. IncNames - 1
  /\ inc_names \in [0 .. IncNames - 1 -> Files]
  /\ g_CurrentFile \in Files
  /\ macros \in [Names -> [ptr : Nat, file : Files]]

Rest ==
  /\ g_passNum \in {0, 1}
  /\ g_MacroNumInstances \in Nat /\ g_LocalSerial \in Nat
  /\ table \subseteq Names \X Seq(Int)
  /\ mode \in {"line", "macro", "error", "args", "skip", "skipmacro"}
  /\ after \in {"line", "macro", "error", "args"}
  /\ label \in Names \cup {None, Null}
  /\ errors \in BOOLEAN
  /\ status \in {"run", "accepted", "rejected", "aborted", "crashed", "wild", "overrun"}
  /\ seen \in [0 .. 1 -> Seq(Event)]
  /\ made \in [calls : Nat, globals : Nat, skipped : BOOLEAN]

IInv == Sources /\ Streams /\ CallTypes /\ FileTypes /\ Rest

----------------------------------------------------------------------------
(* Facts about the next token and the stack.                               *)

\* The stream on top is typed, and so is its next token.
LEMMA TopFacts ==
  ASSUME Streams
  PROVE  /\ Top \in Frame /\ Len(stack) \in Nat \ {0} /\ Len(stack) \in 1 .. Len(stack)
         /\ Top.macro_ptr \in Nat /\ Top.params_array \in 0 .. Pointers - 1 /\ Top.pParamsPool \in 0 .. Tokens
         /\ Top.params_count \in Int /\ Top.instancesNumber \in Nat /\ Top.id \in Nat
         /\ Top.src \in {"text", "pool"}
         /\ TopLevel => Top.src = "text"
         /\ ~TopLevel => Len(stack) >= 2
<1> DEFINE n == Len(stack)
<1>1. n \in Nat \ {0} /\ n \in 1 .. n /\ stack \in Seq(Frame)
  BY BoundAssumption DEF Streams
<1>2. stack[n] \in Frame
  BY <1>1
<1>3. stack[n].params_array <= g_pParamsArrayPool /\ g_pParamsArrayPool \in 0 .. Pointers - 1
  BY <1>1 DEF Streams
<1>4. TopLevel => stack[n].src = "text"
  BY <1>1 DEF TopLevel, Streams
<1> HIDE DEF n
<1>5. /\ stack[n].macro_ptr \in Nat /\ stack[n].params_array \in 0 .. Pointers /\ stack[n].pParamsPool \in 0 .. Tokens
      /\ stack[n].params_count \in Int /\ stack[n].instancesNumber \in Nat /\ stack[n].id \in Nat
      /\ stack[n].src \in {"text", "pool"}
  BY <1>2 DEF Frame
<1>6. stack[n].params_array \in 0 .. Pointers - 1
  BY <1>3, <1>5, BoundAssumption
<1>7. n = 1 \/ n >= 2
  BY <1>1
<1>8. TopLevel <=> n = 1
  BY DEF TopLevel, n
<1> QED BY <1>1, <1>2, <1>4, <1>5, <1>6, <1>7, <1>8 DEF Top, n

LEMMA AheadFacts ==
  ASSUME IInv, Holds(Top.src, Top.macro_ptr)
  PROVE  /\ Ahead \in Token /\ Written(Ahead)
         /\ Top.src = "text" => Top.macro_ptr \in 1 .. Len(text) /\ Ahead = text[Top.macro_ptr]
         /\ Top.src = "pool" => Ahead.t \in Stored
<1>1. Top \in Frame /\ Top.src \in {"text", "pool"}
  BY TopFacts DEF IInv
<1>2. CASE Top.src = "text"
  BY <1>2 DEF IInv, Sources, Holds, Ahead
<1>3. CASE Top.src = "pool"
  BY <1>3 DEF IInv, Sources, Holds, Ahead
<1> QED BY <1>1, <1>2, <1>3

\* A frame whose pointer moves.
LEMMA Advanced ==
  ASSUME NEW t \in Frame
  PROVE  LET u == [t EXCEPT !.macro_ptr = @ + 1] IN
         /\ u \in Frame
         /\ u.src = t.src /\ u.params_array = t.params_array /\ u.pParamsPool = t.pParamsPool
         /\ u.params_count = t.params_count /\ u.instancesNumber = t.instancesNumber
         /\ u.given = t.given /\ u.id = t.id /\ u.macro_ptr = t.macro_ptr + 1
<1> DEFINE P == 0 .. Pointers
           Q == 0 .. Tokens
           G == Seq(Seq(Token))
           F == [src : {"text", "pool"}, macro_ptr : Nat, params_array : P, pParamsPool : Q,
                 params_count : Int, instancesNumber : Nat, given : G, id : Nat]
<1>1. F = Frame
  BY DEF Frame
<1>2. t \in F
  BY <1>1
<1> HIDE DEF P, Q, G
<1>3. [t EXCEPT !.macro_ptr = @ + 1] \in F
  BY <1>2
<1>4. LET u == [t EXCEPT !.macro_ptr = @ + 1] IN
      /\ u.src = t.src /\ u.params_array = t.params_array /\ u.pParamsPool = t.pParamsPool
      /\ u.params_count = t.params_count /\ u.instancesNumber = t.instancesNumber
      /\ u.given = t.given /\ u.id = t.id /\ u.macro_ptr = t.macro_ptr + 1
  BY <1>2
<1> QED BY <1>1, <1>3, <1>4

\* Taking a token moves the stream on top and nothing else.
LEMMA TakenFacts ==
  ASSUME Streams
  PROVE  /\ Taken \in Seq(Frame) /\ Len(Taken) = Len(stack)
         /\ \A i \in 1 .. Len(stack) :
              /\ i # Len(stack) => Taken[i] = stack[i]
              /\ Taken[i] \in Frame
              /\ Taken[i].src = stack[i].src
              /\ Taken[i].params_array = stack[i].params_array
              /\ Taken[i].pParamsPool = stack[i].pParamsPool
              /\ Taken[i].params_count = stack[i].params_count
              /\ Taken[i].instancesNumber = stack[i].instancesNumber
              /\ Taken[i].given = stack[i].given
              /\ Taken[i].id = stack[i].id
         /\ Taken[Len(stack)].macro_ptr = Top.macro_ptr + 1
<1> DEFINE n == Len(stack)
           f == [stack[n] EXCEPT !.macro_ptr = @ + 1]
<1>1. n \in 1 .. Len(stack) /\ n \in Nat /\ stack \in Seq(Frame) /\ stack[n] \in Frame
  BY TopFacts DEF Top, Streams
<1>2. /\ f \in Frame /\ f.src = stack[n].src /\ f.params_array = stack[n].params_array
      /\ f.pParamsPool = stack[n].pParamsPool /\ f.params_count = stack[n].params_count
      /\ f.instancesNumber = stack[n].instancesNumber /\ f.given = stack[n].given /\ f.id = stack[n].id
      /\ f.macro_ptr = stack[n].macro_ptr + 1
  <2> DEFINE t == stack[n]
  <2>1. t \in Frame
    BY <1>1
  <2>2. f = [t EXCEPT !.macro_ptr = @ + 1]
    OBVIOUS
  <2> HIDE DEF t, f
  <2>3. /\ f \in Frame /\ f.src = t.src /\ f.params_array = t.params_array
        /\ f.pParamsPool = t.pParamsPool /\ f.params_count = t.params_count
        /\ f.instancesNumber = t.instancesNumber /\ f.given = t.given /\ f.id = t.id
        /\ f.macro_ptr = t.macro_ptr + 1
    BY <2>1, <2>2, Advanced
  <2> QED BY <2>3 DEF t
<1>3. Taken = [stack EXCEPT ![n] = f]
  BY <1>1 DEF Taken
<1> HIDE DEF f
<1>4. /\ Taken \in Seq(Frame) /\ Len(Taken) = Len(stack)
      /\ \A i \in 1 .. Len(stack) : Taken[i] = IF i = n THEN f ELSE stack[i]
  BY <1>1, <1>2, <1>3, ExceptSeq
<1>5. \A i \in 1 .. Len(stack) : Taken[i] \in Frame
  BY <1>1, <1>2, <1>4
<1> QED BY <1>1, <1>2, <1>4, <1>5 DEF Top

\* A token is taken, or nothing happens to the streams.
LEMMA Moves ==
  ASSUME Streams, stack' = Taken, UNCHANGED <<g_pParamsPool, g_pParamsArrayPool>>
  PROVE  Streams'
BY TakenFacts DEF Streams

LEMMA Stays ==
  ASSUME Streams, UNCHANGED <<stack, g_pParamsPool, g_pParamsArrayPool>>
  PROVE  Streams'
BY DEF Streams

\* ENDM: the pools fall to what the stream had found.
LEMMA Pops ==
  ASSUME Streams, ~TopLevel,
         stack' = SubSeq(stack, 1, Len(stack) - 1),
         g_pParamsPool' = Top.pParamsPool, g_pParamsArrayPool' = Top.params_array
  PROVE  /\ Streams'
         /\ Len(stack') = Len(stack) - 1
         /\ \A i \in 1 .. Len(stack) - 1 : stack'[i] = stack[i]
<1> DEFINE n == Len(stack)
<1>1. n \in Nat /\ n >= 2 /\ n \in 1 .. n /\ Top \in Frame
  BY TopFacts
<1>2. stack' \in Seq(Frame) /\ Len(stack') = n - 1 /\ \A i \in 1 .. n - 1 : stack'[i] = stack[i]
  BY <1>1 DEF Streams
<1>3. \A i \in 1 .. n - 1 : stack[i].params_array <= Top.params_array /\ stack[i].pParamsPool <= Top.pParamsPool
  BY <1>1 DEF Streams, Top
<1>4. n = 2 => Top.params_array = 0 /\ Top.pParamsPool = 0
  BY <1>1 DEF Streams, Top
<1>5. Top.pParamsPool \in 0 .. Tokens /\ Top.params_array \in 0 .. Pointers - 1
  BY TopFacts
<1>6. \A i, j \in 1 .. n - 1 : i <= j => /\ stack'[i].params_array <= stack'[j].params_array
                                         /\ stack'[i].pParamsPool <= stack'[j].pParamsPool
  BY <1>1, <1>2 DEF Streams
<1>7. \A i \in 1 .. n - 1 : /\ stack'[i].params_array <= Top.params_array
                            /\ stack'[i].pParamsPool <= Top.pParamsPool
                            /\ stack'[i].params_array + stack'[i].params_count <= Pointers
  BY <1>1, <1>2, <1>3 DEF Streams
<1>8. n - 1 \in 1 .. Depth /\ n - 1 <= IncNames /\ stack'[1].src = "text"
  BY <1>1, <1>2, BoundAssumption DEF Streams
<1>9. n - 1 > 1 => stack'[2].pParamsPool = 0 /\ stack'[2].params_array = 0
  BY <1>1, <1>2 DEF Streams
<1>10. n - 1 = 1 => g_pParamsPool' = 0 /\ g_pParamsArrayPool' = 0
  BY <1>1, <1>4
<1> HIDE DEF n
<1>11. Streams'
  BY <1>2, <1>5, <1>6, <1>7, <1>8, <1>9, <1>10 DEF Streams
<1> QED BY <1>2, <1>11 DEF n

\* A new stream saves the pools, which grow or stay.
LEMMA Pushes ==
  ASSUME Streams, CanPush,
         NEW src \in {"text", "pool"}, NEW ptr \in Nat, NEW count \in Int, NEW instance \in Nat,
         NEW given \in Seq(Seq(Token)), NEW id \in Nat,
         stack' = Stream(Taken, src, ptr, count, instance, given, id),
         g_pParamsArrayPool + count <= Pointers,
         g_pParamsPool' \in g_pParamsPool .. Tokens,
         g_pParamsArrayPool' \in g_pParamsArrayPool .. Pointers - 1
  PROVE  /\ Streams'
         /\ Len(stack') = Len(stack) + 1
         /\ \A i \in 1 .. Len(stack) : stack'[i] = Taken[i]
         /\ stack'[Len(stack) + 1] =
              [src |-> src, macro_ptr |-> ptr,
               params_array |-> g_pParamsArrayPool, pParamsPool |-> g_pParamsPool,
               params_count |-> count, instancesNumber |-> instance,
               given |-> given, id |-> id]
<1> DEFINE n == Len(stack)
           f == [src |-> src, macro_ptr |-> ptr,
                 params_array |-> g_pParamsArrayPool, pParamsPool |-> g_pParamsPool,
                 params_count |-> count, instancesNumber |-> instance,
                 given |-> given, id |-> id]
<1>1. n \in Nat /\ n >= 1 /\ Taken \in Seq(Frame) /\ Len(Taken) = n
  BY TopFacts, TakenFacts
<1>2. /\ f \in Frame /\ f.params_array = g_pParamsArrayPool /\ f.pParamsPool = g_pParamsPool
      /\ f.params_count = count
  BY BoundAssumption DEF Frame, Streams
<1>3. stack' = Append(Taken, f)
  BY DEF Stream
<1> HIDE DEF f
<1>4. stack' \in Seq(Frame) /\ Len(stack') = n + 1 /\ stack'[n + 1] = f /\ \A i \in 1 .. n : stack'[i] = Taken[i]
  BY <1>1, <1>2, <1>3, AppendProperties
<1>5. n + 1 <= Depth /\ n + 1 <= IncNames
  BY <1>1, BoundAssumption DEF CanPush
<1>6. /\ g_pParamsPool \in Nat /\ g_pParamsArrayPool \in Nat
      /\ g_pParamsPool' >= g_pParamsPool /\ g_pParamsArrayPool' >= g_pParamsArrayPool
      /\ g_pParamsPool' \in 0 .. Tokens /\ g_pParamsArrayPool' \in 0 .. Pointers - 1
  BY BoundAssumption DEF Streams
<1>7. \A i \in 1 .. n + 1 : /\ stack'[i].params_array <= g_pParamsArrayPool
                            /\ stack'[i].pParamsPool <= g_pParamsPool
                            /\ stack'[i].params_array + stack'[i].params_count <= Pointers
                            /\ stack'[i].params_array \in Nat /\ stack'[i].pParamsPool \in Nat
  <2> TAKE i \in 1 .. n + 1
  <2>1. CASE i = n + 1
    BY <2>1, <1>2, <1>4, <1>6
  <2>2. CASE i \in 1 .. n
    <3>1. /\ Taken[i] \in Frame /\ Taken[i].params_array = stack[i].params_array
          /\ Taken[i].pParamsPool = stack[i].pParamsPool /\ Taken[i].params_count = stack[i].params_count
      BY <2>2, TakenFacts
    <3>2. /\ stack[i].params_array <= g_pParamsArrayPool /\ stack[i].pParamsPool <= g_pParamsPool
          /\ stack[i].params_array + stack[i].params_count <= Pointers
      BY <2>2 DEF Streams
    <3>3. Taken[i].params_array \in Nat /\ Taken[i].pParamsPool \in Nat
      <4>1. Taken[i].params_array \in 0 .. Pointers /\ Taken[i].pParamsPool \in 0 .. Tokens
        BY <3>1 DEF Frame
      <4> QED BY <4>1, BoundAssumption
    <3>4. stack'[i] = Taken[i]
      BY <2>2, <1>4
    <3> QED BY <3>1, <3>2, <3>3, <3>4
  <2> QED BY <1>1, <2>1, <2>2
<1>8. \A i, j \in 1 .. n + 1 : i <= j => /\ stack'[i].params_array <= stack'[j].params_array
                                         /\ stack'[i].pParamsPool <= stack'[j].pParamsPool
  <2> SUFFICES ASSUME NEW i \in 1 .. n + 1, NEW j \in 1 .. n + 1, i <= j
               PROVE  stack'[i].params_array <= stack'[j].params_array /\ stack'[i].pParamsPool <= stack'[j].pParamsPool
    OBVIOUS
  <2>1. CASE j = n + 1
    BY <2>1, <1>2, <1>4, <1>7
  <2>2. CASE j \in 1 .. n /\ i \in 1 .. n
    <3>1. /\ Taken[i].params_array = stack[i].params_array /\ Taken[i].pParamsPool = stack[i].pParamsPool
          /\ Taken[j].params_array = stack[j].params_array /\ Taken[j].pParamsPool = stack[j].pParamsPool
      BY <2>2, TakenFacts
    <3> QED BY <2>2, <3>1, <1>4 DEF Streams
  <2> QED BY <1>1, <2>1, <2>2
<1>9. stack'[1].src = "text"
  BY <1>1, <1>4, TakenFacts DEF Streams
<1>10. Len(stack') > 1 /\ stack'[2].pParamsPool = 0 /\ stack'[2].params_array = 0
  <2>1. CASE n = 1
    BY <2>1, <1>2, <1>4 DEF Streams
  <2>2. CASE n > 1
    <3>1. stack'[2] = Taken[2] /\ 2 \in 1 .. Len(stack)
      BY <2>2, <1>1, <1>4
    <3>2. Taken[2].params_array = stack[2].params_array /\ Taken[2].pParamsPool = stack[2].pParamsPool
      BY <3>1, TakenFacts
    <3>3. stack[2].pParamsPool = 0 /\ stack[2].params_array = 0
      BY <2>2 DEF Streams
    <3> QED BY <2>2, <1>1, <1>4, <3>1, <3>2, <3>3
  <2> QED BY <1>1, <2>1, <2>2
<1>11. \A i \in 1 .. n + 1 : stack'[i].params_array <= g_pParamsArrayPool' /\ stack'[i].pParamsPool <= g_pParamsPool'
  <2> TAKE i \in 1 .. n + 1
  <2>1. PICK a, p \in Nat : a = stack'[i].params_array /\ p = stack'[i].pParamsPool
    BY <1>7
  <2>2. a <= g_pParamsArrayPool /\ p <= g_pParamsPool
    BY <1>7, <2>1
  <2>3. g_pParamsPool' \in Nat /\ g_pParamsArrayPool' \in Nat
    BY <1>6, BoundAssumption
  <2>4. a <= g_pParamsArrayPool'
    BY <1>6, <2>2, <2>3
  <2>5. p <= g_pParamsPool'
    BY <1>6, <2>2, <2>3
  <2> QED BY <2>1, <2>4, <2>5
<1>12. n + 1 \in 1 .. Depth /\ n + 1 <= IncNames
  BY <1>1, <1>5, BoundAssumption
<1> HIDE DEF n
<1>13. Streams'
  BY <1>4, <1>6, <1>7, <1>8, <1>9, <1>10, <1>11, <1>12 DEF Streams
<1> QED BY <1>4, <1>13 DEF f, n

\* Decoration keeps what a token is.
LEMMA DecoratedFacts ==
  ASSUME IInv, NEW tok \in Token, Written(tok)
  PROVE  /\ Decorated(tok) \in Token /\ Written(Decorated(tok))
         /\ Decorated(tok).t = tok.t /\ Decorated(tok).name = tok.name
         /\ Decorated(tok).stamps \in Seq(Int) /\ Decorated(tok).scope \in Scope
<1> DEFINE N == Names \cup {None}
           S == Seq(Int)
           F == Files \cup {None}
           T == [t : Kinds, name : N, stamps : S, n : Nat, file : F, scope : Scope]
           e == [tok EXCEPT !.stamps = Append(@, Stamp), !.scope = IF @ = NoScope THEN Here ELSE @]
<1>1. T = Token
  BY DEF Token
<1>2. Stamp \in Int /\ Here \in Scope
  <2>1. Stamp \in Int
    BY TopFacts DEF Stamp, IInv, Rest
  <2>2. Here \in Scope
    BY TopFacts DEF Here, IInv, Rest, Scope
  <2> QED BY <2>1, <2>2
<1>3. tok \in T /\ Append(tok.stamps, Stamp) \in S /\ tok.stamps \in S /\ tok.scope \in Scope
  <2>1. tok \in T /\ tok.stamps \in S /\ tok.scope \in Scope
    BY <1>1
  <2> QED BY <2>1, <1>2
<1> HIDE DEF N, S, F
<1>4. /\ e \in T /\ e.t = tok.t /\ e.name = tok.name /\ e.file = tok.file
      /\ e.stamps = Append(tok.stamps, Stamp) /\ e.scope = IF tok.scope = NoScope THEN Here ELSE tok.scope
  BY <1>2, <1>3
<1>5. e.stamps \in S /\ e.scope \in Scope
  BY <1>2, <1>3, <1>4
<1>6. Decorated(tok) = tok \/ Decorated(tok) = e
  BY DEF Decorated
<1>7. Written(e)
  BY <1>1, <1>4 DEF Written
<1> HIDE DEF e, T
<1> QED BY <1>1, <1>3, <1>4, <1>5, <1>6, <1>7 DEF S

\* The source with a decorated label in it.
LEMMA RewrittenFacts ==
  ASSUME IInv, Holds(Top.src, Top.macro_ptr)
  PROVE  /\ Rewritten \in Seq(Token) /\ Len(Rewritten) = Len(text)
         /\ \A i \in 1 .. Len(text) : /\ Written(Rewritten[i])
                                      /\ Rewritten[i].t = text[i].t /\ Rewritten[i].name = text[i].name
                                      /\ Rewritten[i] = text[i] \/ (TopLevel /\ g_passNum = 0 /\ i = Top.macro_ptr /\ Rewritten[i] = Decorated(text[i]))
<1>1. text \in Seq(Token) /\ \A i \in 1 .. Len(text) : Written(text[i])
  BY DEF IInv, Sources
<1>2. CASE TopLevel /\ g_passNum = 0
  <2> DEFINE i == Top.macro_ptr
             d == Decorated(text[i])
  <2>1. i \in 1 .. Len(text) /\ Rewritten = [text EXCEPT ![i] = d]
    BY <1>2, TopFacts DEF IInv, Holds, Rewritten
  <2>2. text[i] \in Token /\ Written(text[i])
    BY <1>1, <2>1
  <2>3. d \in Token /\ Written(d) /\ d.t = text[i].t /\ d.name = text[i].name
    BY <2>2, DecoratedFacts
  <2> HIDE DEF d, i
  <2>4. Rewritten \in Seq(Token) /\ Len(Rewritten) = Len(text)
        /\ \A j \in 1 .. Len(text) : Rewritten[j] = IF j = i THEN d ELSE text[j]
    BY <1>1, <2>1, <2>3, ExceptSeq
  <2> QED BY <1>1, <1>2, <2>3, <2>4 DEF d, i
<1>3. CASE ~(TopLevel /\ g_passNum = 0)
  BY <1>1, <1>3 DEF Rewritten
<1> QED BY <1>2, <1>3

\* What a step does to the parts of the invariant when it leaves them alone.
LEMMA SourcesStay ==
  ASSUME Sources, UNCHANGED <<text, macros_params, params_pointers>>
  PROVE  Sources'
BY DEF Sources

LEMMA SourcesRewritten ==
  ASSUME IInv, Holds(Top.src, Top.macro_ptr), text' = Rewritten, UNCHANGED <<macros_params, params_pointers>>
  PROVE  Sources'
BY RewrittenFacts DEF IInv, Sources

\* The pools fall at most while the arguments of a call are read.
LEMMA CallStays ==
  ASSUME IInv, UNCHANGED call, Calling' => Calling,
         g_pParamsPool' \in 0 .. g_pParamsPool, g_pParamsArrayPool' \in 0 .. g_pParamsArrayPool
  PROVE  CallTypes'
<1>1. CASE Calling'
  <2>1. Calling /\ call \in Call
    BY <1>1 DEF IInv, CallTypes
  <2>2. Len(call.given) \in Nat /\ call.params_count \in Nat /\ call.pStoreParam \in Nat /\ call.pParamArray \in Nat
    <3>1. call.given \in Seq(Seq(Token)) /\ call.params_count \in Nat /\ call.pStoreParam \in 0 .. Tokens /\ call.pParamArray \in 0 .. Pointers
      BY <2>1 DEF Call
    <3> QED BY <3>1, BoundAssumption
  <2>3. /\ g_pParamsPool \in Nat /\ g_pParamsArrayPool \in Nat
        /\ g_pParamsPool <= call.pStoreParam
        /\ g_pParamsArrayPool + Len(call.given) <= call.pParamArray
        /\ g_pParamsArrayPool + call.params_count + 1 <= call.pParamArray
        /\ call.given # << >>
    BY <2>1, BoundAssumption DEF IInv, CallTypes, Streams
  <2>4. /\ g_pParamsPool' <= call.pStoreParam
        /\ g_pParamsArrayPool' + Len(call.given) <= call.pParamArray
        /\ g_pParamsArrayPool' + call.params_count + 1 <= call.pParamArray
    <3>1. /\ g_pParamsPool' \in Nat /\ g_pParamsPool' <= g_pParamsPool
          /\ g_pParamsArrayPool' \in Nat /\ g_pParamsArrayPool' <= g_pParamsArrayPool
      BY <2>3
    <3>2. PICK m \in Nat : m = Len(call.given)
      BY <2>2
    <3>3. PICK k \in Nat : k = call.params_count
      BY <2>2
    <3>4. PICK s \in Nat : s = call.pStoreParam
      BY <2>2
    <3>5. PICK a \in Nat : a = call.pParamArray
      BY <2>2
    <3>6. PICK p \in Nat : p = g_pParamsPool /\ g_pParamsPool' <= p /\ p <= s
      BY <2>3, <3>1, <3>4
    <3>7. PICK q \in Nat : q = g_pParamsArrayPool /\ g_pParamsArrayPool' <= q
      BY <2>3, <3>1
    <3>8. PICK r \in Nat : r = g_pParamsArrayPool'
      BY <3>1
    <3>9. r <= q /\ q + m <= a /\ q + k + 1 <= a
      BY <2>3, <3>2, <3>3, <3>5, <3>7, <3>8
    <3>10. r + m <= a /\ r + k + 1 <= a
      BY <3>9
    <3>11. g_pParamsPool' <= s
      BY <3>1, <3>6
    <3> QED BY <3>2, <3>3, <3>4, <3>5, <3>8, <3>10, <3>11
  <2> QED BY <2>1, <2>3, <2>4 DEF CallTypes
<1>2. CASE ~Calling'
  BY <1>2 DEF IInv, CallTypes
<1> QED BY <1>1, <1>2

\* The same when no pool changes.
LEMMA CallSame ==
  ASSUME IInv, UNCHANGED <<call, g_pParamsPool, g_pParamsArrayPool>>, Calling' => Calling
  PROVE  CallTypes'
<1>1. g_pParamsPool \in 0 .. g_pParamsPool /\ g_pParamsArrayPool \in 0 .. g_pParamsArrayPool
  BY BoundAssumption DEF IInv, Streams
<1> QED BY <1>1, CallStays

LEMMA FilesStay ==
  ASSUME FileTypes, UNCHANGED <<files, macros>>
  PROVE  FileTypes'
BY DEF FileTypes, files

\* inc_names with the name of a file in an entry.
LEMMA NameStored ==
  ASSUME FileTypes, NEW d \in Int, IsName(d), NEW file \in Files
  PROVE  [inc_names EXCEPT ![d] = file] \in [0 .. IncNames - 1 -> Files]
BY DEF FileTypes, IsName

\* The end of the assembly changes nothing else.
LEMMA DiesKept ==
  ASSUME IInv, NEW how \in {"aborted", "crashed", "wild", "overrun"}, Dies(how)
  PROVE  IInv'
<1>1. /\ UNCHANGED <<text, macros_params, params_pointers, stack, g_pParamsPool, g_pParamsArrayPool>>
      /\ UNCHANGED <<call, mode, after, label, g_passNum, g_MacroNumInstances, g_LocalSerial, table, macros>>
      /\ UNCHANGED <<g_incStackDeepth, inc_names, g_CurrentFile, seen, made>>
      /\ status' = how /\ errors' = (errors \/ how = "aborted")
  BY DEF Dies, pools, symbols, files, parser, history
<1>2. Sources' /\ Streams'
  BY <1>1, SourcesStay, Stays DEF IInv
<1>3. CallTypes'
  BY <1>1, CallSame DEF Calling
<1>4. FileTypes'
  BY <1>1, FilesStay DEF IInv, files
<1>5. Rest'
  BY <1>1 DEF IInv, Rest
<1> QED BY <1>2, <1>3, <1>4, <1>5 DEF IInv

\* A token is taken and no pool, file or macro changes; it is decorated or not.
LEMMA TokenTaken ==
  ASSUME IInv, Holds(Top.src, Top.macro_ptr), stack' = Taken,
         text' \in {text, Rewritten},
         UNCHANGED <<pools, macros, files, call>>, Calling' => Calling, Rest'
  PROVE  IInv'
<1>1. UNCHANGED <<g_pParamsPool, g_pParamsArrayPool, macros_params, params_pointers>>
  BY DEF pools
<1>2. Sources'
  BY <1>1, SourcesStay, SourcesRewritten DEF IInv
<1>3. Streams'
  BY <1>1, Moves DEF IInv
<1>4. CallTypes'
  BY <1>1, CallSame
<1>5. FileTypes'
  BY FilesStay DEF IInv
<1> QED BY <1>2, <1>3, <1>4, <1>5 DEF IInv

----------------------------------------------------------------------------
(* The steps of yylex keep the invariant.                                  *)

LEMMA EndMacroKept ==
  ASSUME IInv, EndMacro
  PROVE  IInv'
<1>1. CASE TopLevel
  BY <1>1, DiesKept DEF EndMacro
<1>2. CASE ~TopLevel
  <2>1. /\ stack' = SubSeq(stack, 1, Len(stack) - 1)
        /\ g_pParamsPool' = Top.pParamsPool /\ g_pParamsArrayPool' = Top.params_array
        /\ g_incStackDeepth' = Len(stack) - 2
        /\ UNCHANGED <<text, macros_params, params_pointers, call, mode, after, label, g_passNum>>
        /\ UNCHANGED <<g_MacroNumInstances, g_LocalSerial, table, macros, inc_names, g_CurrentFile>>
        /\ UNCHANGED <<errors, status, seen, made>>
    BY <1>2 DEF EndMacro, Restored, symbols, parser, history
  <2>2. Streams'
    BY <1>2, <2>1, Pops DEF IInv
  <2>3. Sources'
    BY <2>1, SourcesStay DEF IInv
  <2>4. CallTypes'
    <3>1. Top = stack[Len(stack)] /\ Len(stack) \in 1 .. Len(stack)
      BY TopFacts DEF IInv, Top
    <3>2. Top.pParamsPool <= g_pParamsPool /\ Top.params_array <= g_pParamsArrayPool
      BY <3>1 DEF IInv, Streams
    <3>3. Top.pParamsPool \in 0 .. g_pParamsPool /\ Top.params_array \in 0 .. g_pParamsArrayPool
      <4>1. Top.pParamsPool \in 0 .. Tokens /\ Top.params_array \in 0 .. Pointers - 1
        BY TopFacts DEF IInv
      <4>2. g_pParamsPool \in 0 .. Tokens /\ g_pParamsArrayPool \in 0 .. Pointers - 1
        BY DEF IInv, Streams
      <4> QED BY <3>2, <4>1, <4>2, BoundAssumption
    <3> QED BY <2>1, <3>3, CallStays DEF Calling
  <2>5. FileTypes'
    <3>1. Len(stack) \in Nat /\ Len(stack) >= 2 /\ Len(stack) <= IncNames
      BY <1>2, TopFacts DEF IInv, Streams
    <3>2. g_incStackDeepth' \in 0 .. IncNames - 1
      BY <2>1, <3>1, BoundAssumption
    <3> QED BY <2>1, <3>2 DEF IInv, FileTypes
  <2>6. Rest'
    BY <2>1 DEF IInv, Rest
  <2> QED BY <2>2, <2>3, <2>4, <2>5, <2>6 DEF IInv
<1> QED BY <1>1, <1>2

LEMMA CannotPushKept ==
  ASSUME IInv, CannotPush
  PROVE  IInv'
BY DiesKept DEF CannotPush

\* PushStream stores a file name in an entry of inc_names.
LEMMA PushFileTypes ==
  ASSUME IInv, CanPush, NEW file \in Files, PushFile(file), g_CurrentFile' \in Files, UNCHANGED macros
  PROVE  FileTypes'
<1>1. Len(stack) \in Int /\ IsName(Len(stack)) /\ Len(stack) \in 0 .. IncNames - 1
  BY TopFacts, BoundAssumption DEF IInv, CanPush, IsName
<1>2. inc_names' \in [0 .. IncNames - 1 -> Files]
  BY <1>1, NameStored DEF IInv, PushFile
<1> QED BY <1>1, <1>2 DEF IInv, FileTypes, PushFile

LEMMA MacroParamKept ==
  ASSUME IInv, MacroParam
  PROVE  IInv'
<1> DEFINE i == Ahead.n
           p == Top.params_array + i - 1
<1>1. Lexes /\ Holds(Top.src, Top.macro_ptr) /\ status = "run"
  BY DEF MacroParam, Reads
<1>2. CASE /\ TopLevel
           /\ stack' = Taken
           /\ mode' = "skip"
           /\ after' = mode
           /\ errors' = TRUE
           /\ UNCHANGED <<g_passNum, text, pools, symbols, files, label, call, status, history>>
  <2>1. UNCHANGED <<text, pools, macros, files, call>>
    BY <1>2 DEF symbols
  <2>2. Calling' => Calling
    BY <1>2 DEF Calling
  <2>3. Rest'
    BY <1>1, <1>2 DEF IInv, Rest, Lexes, pools, symbols, history
  <2> QED BY <1>1, <1>2, <2>1, <2>2, <2>3, TokenTaken
<1>3. CASE \E how \in {"aborted", "wild"} : Dies(how)
  BY <1>3, DiesKept
<1>4. CASE CannotPush
  BY <1>4, CannotPushKept
<1>5. CASE /\ ~TopLevel /\ i \in 1 .. Top.params_count /\ IsName(g_incStackDeepth) /\ CanPush
           /\ stack' = Stream(Taken, "pool", params_pointers[p], -1, 0, << >>, 0)
           /\ PushFile(inc_names[g_incStackDeepth])
           /\ UNCHANGED <<g_passNum, text, pools, symbols, g_CurrentFile, parser, errors, status, history>>
  <2>1. /\ UNCHANGED <<text, macros_params, params_pointers, g_pParamsPool, g_pParamsArrayPool, call, macros>>
        /\ UNCHANGED <<g_passNum, g_MacroNumInstances, g_LocalSerial, table, mode, after, label>>
        /\ UNCHANGED <<g_CurrentFile, errors, status, seen, made>>
    BY <1>5 DEF pools, symbols, parser, history
  <2>2. g_pParamsPool \in 0 .. Tokens /\ g_pParamsArrayPool \in 0 .. Pointers - 1
    BY DEF IInv, Streams
  <2>3. params_pointers[p] \in Nat
    <3>1. Top.params_array \in Nat /\ Top.params_count \in Int /\ i \in 1 .. Top.params_count
      BY <1>5, TopFacts, BoundAssumption DEF IInv
    <3>2. Top.params_array + Top.params_count <= Pointers
      BY TopFacts DEF IInv, Streams, Top
    <3>3. p \in 0 .. Pointers - 1
      BY <3>1, <3>2, BoundAssumption
    <3> HIDE DEF p
    <3>4. params_pointers[p] \in 0 .. Tokens
      BY <3>3 DEF IInv, Sources
    <3> QED BY <3>4, BoundAssumption
  <2>4. Streams'
    <3> DEFINE ptr == params_pointers[p]
    <3>1. /\ g_pParamsArrayPool + (-1) <= Pointers
          /\ g_pParamsPool \in g_pParamsPool .. Tokens
          /\ g_pParamsArrayPool \in g_pParamsArrayPool .. Pointers - 1
      BY <2>2, BoundAssumption
    <3>2. << >> \in Seq(Seq(Token)) /\ -1 \in Int /\ 0 \in Nat /\ "pool" \in {"text", "pool"} /\ ptr \in Nat
      BY <2>3
    <3>3. stack' = Stream(Taken, "pool", ptr, -1, 0, << >>, 0)
      BY <1>5
    <3> HIDE DEF ptr
    <3> QED BY <1>5, <2>1, <3>1, <3>2, <3>3, Pushes DEF IInv
  <2>5. Sources'
    BY <2>1, SourcesStay DEF IInv
  <2>6. CallTypes'
    BY <2>1, CallSame DEF Calling
  <2>7. FileTypes'
    <3>1. inc_names[g_incStackDeepth] \in Files
      BY DEF IInv, FileTypes
    <3> QED BY <1>5, <2>1, <3>1, PushFileTypes DEF IInv, FileTypes
  <2>8. Rest'
    BY <2>1 DEF IInv, Rest
  <2> QED BY <2>4, <2>5, <2>6, <2>7, <2>8 DEF IInv
<1> QED BY <1>2, <1>3, <1>4, <1>5 DEF MacroParam

LEMMA EnterFileKept ==
  ASSUME IInv, EnterFile
  PROVE  IInv'
<1>1. Lexes /\ Holds(Top.src, Top.macro_ptr) /\ status = "run" /\ Ahead.t = "enter"
  BY DEF EnterFile, Reads
<1>2. CASE ~IsName(g_incStackDeepth) \/ ~IsName(g_incStackDeepth + 1)
  BY <1>2, DiesKept DEF EnterFile
<1>3. CASE IsName(g_incStackDeepth) /\ IsName(g_incStackDeepth + 1)
  <2>1. /\ stack' = Taken
        /\ g_incStackDeepth' = g_incStackDeepth + 1
        /\ inc_names' = [inc_names EXCEPT ![g_incStackDeepth + 1] = Ahead.file]
        /\ g_CurrentFile' = Ahead.file
        /\ UNCHANGED <<g_passNum, text, g_pParamsPool, g_pParamsArrayPool, macros_params, params_pointers>>
        /\ UNCHANGED <<g_MacroNumInstances, g_LocalSerial, table, macros, mode, after, label, call>>
        /\ UNCHANGED <<errors, status, seen, made>>
    BY <1>3 DEF EnterFile, pools, symbols, parser, history
  <2>2. Ahead.file \in Files
    BY <1>1, AheadFacts DEF Written
  <2>3. FileTypes'
    <3>1. g_incStackDeepth + 1 \in Int /\ g_incStackDeepth + 1 \in 0 .. IncNames - 1
      BY <1>3, BoundAssumption DEF IInv, FileTypes, IsName
    <3>2. inc_names' \in [0 .. IncNames - 1 -> Files]
      BY <1>3, <2>1, <2>2, <3>1, NameStored DEF IInv
    <3> QED BY <2>1, <2>2, <3>1, <3>2 DEF IInv, FileTypes
  <2>4. Sources' /\ Streams'
    BY <2>1, SourcesStay, Moves DEF IInv
  <2>5. CallTypes'
    BY <2>1, CallSame DEF Calling
  <2>6. Rest'
    BY <2>1 DEF IInv, Rest
  <2> QED BY <2>3, <2>4, <2>5, <2>6 DEF IInv
<1> QED BY <1>2, <1>3

LEMMA LeaveFileKept ==
  ASSUME IInv, LeaveFile
  PROVE  IInv'
<1>1. CASE ~IsName(g_incStackDeepth - 1)
  BY <1>1, DiesKept DEF LeaveFile
<1>2. CASE IsName(g_incStackDeepth - 1)
  <2>1. /\ stack' = Taken
        /\ g_incStackDeepth' = g_incStackDeepth - 1
        /\ g_CurrentFile' = inc_names[g_incStackDeepth - 1]
        /\ UNCHANGED <<g_passNum, text, g_pParamsPool, g_pParamsArrayPool, macros_params, params_pointers>>
        /\ UNCHANGED <<g_MacroNumInstances, g_LocalSerial, table, macros, mode, after, label, call>>
        /\ UNCHANGED <<inc_names, errors, status, seen, made>>
    BY <1>2 DEF LeaveFile, pools, symbols, parser, history
  <2>2. FileTypes'
    BY <1>2, <2>1 DEF IInv, FileTypes, IsName
  <2>3. Sources' /\ Streams'
    BY <2>1, SourcesStay, Moves DEF IInv
  <2>4. CallTypes'
    BY <2>1, CallSame DEF Calling
  <2>5. Rest'
    BY <2>1 DEF IInv, Rest
  <2> QED BY <2>2, <2>3, <2>4, <2>5 DEF IInv
<1> QED BY <1>1, <1>2

LEMMA EndInMacroKept ==
  ASSUME IInv, EndInMacro
  PROVE  IInv'
BY DiesKept DEF EndInMacro

----------------------------------------------------------------------------
(* The steps of the grammar.                                               *)

LEMMA SeeTypes ==
  ASSUME IInv, NEW kind \in {"label", "ref", "string"}, NEW tok, tok.name \in Names, tok.stamps \in Seq(Int), tok.scope \in Scope,
         See(kind, tok)
  PROVE  seen' \in [0 .. 1 -> Seq(Event)]
<1> DEFINE e == [kind |-> kind, name |-> tok.name, stamps |-> tok.stamps, scope |-> tok.scope]
<1>1. e \in Event
  BY DEF Event
<1>2. seen \in [0 .. 1 -> Seq(Event)] /\ g_passNum \in 0 .. 1
  BY DEF IInv, Rest
<1>3. seen' = [seen EXCEPT ![g_passNum] = Append(@, e)]
  BY DEF See
<1> HIDE DEF e
<1>4. Append(seen[g_passNum], e) \in Seq(Event)
  BY <1>1, <1>2
<1> QED BY <1>2, <1>3, <1>4

\* A symbol or string of the source, decorated.
LEMMA SymbolFacts ==
  ASSUME IInv, NEW t \in {"sym", "sym2", "string"}, Parses(t)
  PROVE  /\ Holds(Top.src, Top.macro_ptr) /\ status = "run" /\ mode = "line"
         /\ Decorated(Ahead).name \in Names /\ Decorated(Ahead).stamps \in Seq(Int) /\ Decorated(Ahead).scope \in Scope
<1>1. Holds(Top.src, Top.macro_ptr) /\ status = "run" /\ mode = "line" /\ Ahead.t = t
  BY DEF Parses, Reads
<1>2. Ahead \in Token /\ Written(Ahead) /\ Ahead.name \in Names
  BY <1>1, AheadFacts DEF Written
<1> QED BY <1>1, <1>2, DecoratedFacts

LEMMA AddLabelKept ==
  ASSUME IInv, AddLabel
  PROVE  IInv'
<1> DEFINE tok  == Decorated(Ahead)
           fail == (Name(tok) \in table) = (g_passNum = 0)
<1>1. /\ Holds(Top.src, Top.macro_ptr) /\ status = "run" /\ mode = "line"
      /\ tok.name \in Names /\ tok.stamps \in Seq(Int) /\ tok.scope \in Scope
  BY SymbolFacts DEF AddLabel
<1>2. /\ label' = IF fail THEN Null ELSE tok.name
      /\ table' = IF g_passNum = 0 THEN table \cup {Name(tok)} ELSE table
      /\ errors' = (errors \/ (fail /\ g_passNum = 0))
      /\ g_LocalSerial' = Serial(tok.name)
      /\ See("label", tok)
      /\ made' = IF TopLevel /\ tok.name \notin Locals THEN [made EXCEPT !.globals = @ + 1] ELSE made
      /\ stack' = Taken /\ text' = Rewritten
      /\ UNCHANGED <<g_passNum, pools, macros, files, mode, after, call, status>>
  BY DEF AddLabel
<1>3. seen' \in [0 .. 1 -> Seq(Event)]
  BY <1>1, <1>2, SeeTypes
<1>4. Name(tok) \in Names \X Seq(Int)
  BY <1>1 DEF Name
<1>5. g_LocalSerial' \in Nat
  BY <1>2 DEF Serial, IInv, Rest
<1>6. made' \in [calls : Nat, globals : Nat, skipped : BOOLEAN]
  BY <1>2 DEF IInv, Rest
<1> HIDE DEF tok
<1>7. table' \subseteq Names \X Seq(Int) /\ label' \in Names \cup {None, Null}
  BY <1>1, <1>2, <1>4 DEF IInv, Rest
<1>8. errors' \in BOOLEAN
  BY <1>2 DEF IInv, Rest
<1>9. Rest'
  BY <1>2, <1>3, <1>5, <1>6, <1>7, <1>8 DEF IInv, Rest, pools
<1> QED BY <1>1, <1>2, <1>9, TokenTaken DEF Calling

LEMMA GetSymKept ==
  ASSUME IInv, GetSym
  PROVE  IInv'
<1> DEFINE tok == Decorated(Ahead)
<1>1. /\ Holds(Top.src, Top.macro_ptr) /\ status = "run" /\ mode = "line"
      /\ tok.name \in Names /\ tok.stamps \in Seq(Int) /\ tok.scope \in Scope
  BY SymbolFacts DEF GetSym
<1>2. /\ errors' = (errors \/ (g_passNum # 0 /\ Name(tok) \notin table))
      /\ See("ref", tok) /\ UNCHANGED made
      /\ stack' = Taken /\ text' = Rewritten
      /\ UNCHANGED <<g_passNum, pools, symbols, files, parser, status>>
  BY DEF GetSym
<1>3. seen' \in [0 .. 1 -> Seq(Event)]
  BY <1>1, <1>2, SeeTypes
<1>4. errors' \in BOOLEAN
  BY <1>2 DEF IInv, Rest
<1>5. Rest'
  BY <1>2, <1>3, <1>4 DEF IInv, Rest, pools, symbols, parser
<1> QED BY <1>1, <1>2, <1>5, TokenTaken DEF Calling, symbols, parser

LEMMA InsertStringKept ==
  ASSUME IInv, InsertString
  PROVE  IInv'
<1> DEFINE tok == Decorated(Ahead)
<1>1. /\ Holds(Top.src, Top.macro_ptr)
      /\ tok.name \in Names /\ tok.stamps \in Seq(Int) /\ tok.scope \in Scope
  BY SymbolFacts DEF InsertString
<1>2. /\ See("string", tok) /\ stack' = Taken /\ text' = Rewritten
      /\ UNCHANGED <<g_passNum, pools, symbols, files, parser, errors, status, made>>
  BY DEF InsertString
<1>3. seen' \in [0 .. 1 -> Seq(Event)]
  BY <1>1, <1>2, SeeTypes
<1>4. Rest'
  BY <1>2, <1>3 DEF IInv, Rest, pools, symbols, parser
<1> QED BY <1>1, <1>2, <1>4, TokenTaken DEF Calling, symbols, parser

LEMMA SeparatorKept ==
  ASSUME IInv, Separator
  PROVE  IInv'
<1>1. Holds(Top.src, Top.macro_ptr)
  BY DEF Separator, Parses, Reads
<1>2. Rest'
  BY DEF Separator, IInv, Rest, pools, symbols, history
<1> QED BY <1>1, <1>2, TokenTaken DEF Separator, Calling, symbols

LEMMA MacroDirectiveKept ==
  ASSUME IInv, MacroDirective
  PROVE  IInv'
<1>1. Holds(Top.src, Top.macro_ptr)
  BY DEF MacroDirective, Parses, Reads
<1>2. Rest'
  BY DEF MacroDirective, IInv, Rest, pools, symbols, history
<1> QED BY <1>1, <1>2, TokenTaken DEF MacroDirective, Calling, symbols

LEMMA MacroRecordKept ==
  ASSUME IInv, MacroRecord
  PROVE  IInv'
<1>1. Holds(Top.src, Top.macro_ptr) /\ status = "run" /\ mode = "macro" /\ label # None
  BY DEF MacroRecord, LineEnds, Reads
<1>2. CASE \E how \in {"crashed", "wild"} : Dies(how)
  BY <1>2, DiesKept
<1>3. CASE /\ label # Null /\ (g_passNum = 0 => IsName(g_incStackDeepth))
           /\ macros' = IF g_passNum = 0
                        THEN [macros EXCEPT ![label] = [ptr  |-> Top.macro_ptr + 1,
                                                        file |-> inc_names[g_incStackDeepth]]]
                        ELSE macros
           /\ stack' = Taken
           /\ mode' = "skipmacro"
           /\ label' = None
           /\ UNCHANGED <<g_passNum, text, pools, g_LocalSerial, table, files, after, call, errors, status, history>>
  <2>1. Top.macro_ptr + 1 \in Nat /\ inc_names[g_incStackDeepth] \in Files
    BY TopFacts DEF IInv, FileTypes
  <2>2. macros' \in [Names -> [ptr : Nat, file : Files]]
    <3> DEFINE m == [ptr |-> Top.macro_ptr + 1, file |-> inc_names[g_incStackDeepth]]
    <3>1. m \in [ptr : Nat, file : Files] /\ macros \in [Names -> [ptr : Nat, file : Files]]
      BY <2>1 DEF IInv, FileTypes
    <3> HIDE DEF m
    <3>2. macros' = [macros EXCEPT ![label] = m] \/ macros' = macros
      BY <1>3 DEF m
    <3> QED BY <3>1, <3>2
  <2>3. FileTypes'
    BY <1>3, <2>2 DEF IInv, FileTypes, files
  <2>4. Sources' /\ Streams'
    BY <1>3, SourcesStay, Moves DEF IInv, pools
  <2>5. CallTypes'
    BY <1>3, CallSame DEF Calling, pools
  <2>6. Rest'
    BY <1>3 DEF IInv, Rest, pools, history
  <2> QED BY <2>3, <2>4, <2>5, <2>6 DEF IInv
<1> QED BY <1>2, <1>3 DEF MacroRecord

LEMMA MacroErrorKept ==
  ASSUME IInv, MacroError
  PROVE  IInv'
<1>1. Holds(Top.src, Top.macro_ptr)
  BY DEF MacroError, LineEnds, Reads
<1>2. Rest'
  BY DEF MacroError, IInv, Rest, pools, symbols, history
<1> QED BY <1>1, <1>2, TokenTaken DEF MacroError, Calling, symbols

LEMMA SyntaxErrorKept ==
  ASSUME IInv, SyntaxError
  PROVE  IInv'
<1>1. Holds(Top.src, Top.macro_ptr)
  BY DEF SyntaxError, InLine, Reads
<1>2. Rest'
  BY DEF SyntaxError, IInv, Rest, pools, symbols, history
<1> QED BY <1>1, <1>2, TokenTaken DEF SyntaxError, Calling, symbols

LEMMA DiscardKept ==
  ASSUME IInv, Discard
  PROVE  IInv'
<1>1. Holds(Top.src, Top.macro_ptr)
  BY DEF Discard, InLine, LineEnds, Reads
<1>2. Rest'
  BY DEF Discard, IInv, Rest, pools, symbols, history
<1> QED BY <1>1, <1>2, TokenTaken DEF Discard, Calling, symbols

LEMMA SkipLineKept ==
  ASSUME IInv, SkipLine
  PROVE  IInv'
<1>1. Holds(Top.src, Top.macro_ptr)
  BY DEF SkipLine, Reads
<1>2. Rest'
  BY DEF SkipLine, IInv, Rest, pools, symbols, history
<1> QED BY <1>1, <1>2, TokenTaken DEF SkipLine, Calling, symbols

LEMMA SkipMacroKept ==
  ASSUME IInv, SkipMacro
  PROVE  IInv'
<1>1. Holds(Top.src, Top.macro_ptr)
  BY DEF SkipMacro, Reads
<1>2. CASE Ahead.t = "end"
  BY <1>2, DiesKept DEF SkipMacro
<1>3. CASE Ahead.t # "end"
  <2>1. Rest'
    BY <1>3 DEF SkipMacro, IInv, Rest, pools, symbols, history
  <2> QED BY <1>1, <1>3, <2>1, TokenTaken DEF SkipMacro, Calling, symbols
<1> QED BY <1>2, <1>3

----------------------------------------------------------------------------
(* The steps of Replay_Macro, and the ends.                                *)

LEMMA CallFacts ==
  ASSUME IInv, Calling
  PROVE  /\ call \in Call /\ call.name \in Names /\ call.given \in Seq(Seq(Token)) /\ call.given # << >>
         /\ call.pParamArray \in Nat /\ call.pStoreParam \in Nat /\ call.params_count \in Nat /\ call.commas \in Nat
         /\ call.pParamArray <= Pointers /\ call.pStoreParam <= Tokens
         /\ Len(call.given) \in Nat \ {0} /\ Len(call.given) \in 1 .. Len(call.given)
         /\ g_pParamsPool \in Nat /\ g_pParamsArrayPool \in Nat
         /\ g_pParamsPool <= call.pStoreParam
         /\ g_pParamsArrayPool + Len(call.given) <= call.pParamArray
         /\ g_pParamsArrayPool + call.params_count + 1 <= call.pParamArray
<1>1. /\ call \in Call /\ call.given # << >>
      /\ g_pParamsPool <= call.pStoreParam
      /\ g_pParamsArrayPool + Len(call.given) <= call.pParamArray
      /\ g_pParamsArrayPool + call.params_count + 1 <= call.pParamArray
  BY DEF IInv, CallTypes
<1>2. /\ call.name \in Names /\ call.given \in Seq(Seq(Token))
      /\ call.pParamArray \in 0 .. Pointers /\ call.pStoreParam \in 0 .. Tokens
      /\ call.params_count \in Nat /\ call.commas \in Nat
  BY <1>1 DEF Call
<1>3. Len(call.given) \in Nat \ {0} /\ Len(call.given) \in 1 .. Len(call.given)
  BY <1>1, <1>2, EmptySeq
<1>4. g_pParamsPool \in Nat /\ g_pParamsArrayPool \in Nat
  BY BoundAssumption DEF IInv, Streams
<1>5. /\ call.pParamArray \in Nat /\ call.pStoreParam \in Nat
      /\ call.pParamArray <= Pointers /\ call.pStoreParam <= Tokens
  BY <1>2, BoundAssumption
<1> QED BY <1>1, <1>2, <1>3, <1>4, <1>5

\* Room for one more token and one more pointer.
LEMMA RoomFacts ==
  ASSUME IInv, mode = "args", ~Full
  PROVE  /\ InPool /\ InArray
         /\ call.pStoreParam \in 0 .. Tokens - 1 /\ call.pParamArray \in 0 .. Pointers - 1
<1>1. call.pParamArray \in Nat /\ call.pStoreParam \in Nat
  BY CallFacts DEF Calling
<1>2. call.pParamArray < Pointers /\ call.pStoreParam < Tokens
  BY <1>1, BoundAssumption DEF Full
<1> QED BY <1>1, <1>2, BoundAssumption DEF InPool, InArray

\* A token is stored in the pool.
LEMMA PutTypes ==
  ASSUME IInv, call.pStoreParam \in 0 .. Tokens - 1, NEW tok \in Token, Written(tok), tok.t \in Stored, Put(tok)
  PROVE  /\ macros_params' \in [0 .. Tokens - 1 -> Token]
         /\ \A i \in 0 .. Tokens - 1 : /\ macros_params'[i] = IF i = call.pStoreParam THEN tok ELSE macros_params[i]
                                       /\ Written(macros_params'[i]) /\ macros_params'[i].t \in Stored
BY DEF IInv, Sources, Put

LEMMA TokTypes ==
  ASSUME NEW t \in {"endm", "end"}
  PROVE  Tok(t) \in Token /\ Written(Tok(t)) /\ Tok(t).t = t
<1>1. NoScope \in Scope
  BY DEF NoScope, Scope
<1>2. << >> \in Seq(Int) /\ t \in Kinds
  BY DEF Kinds
<1>3. Tok(t) \in Token /\ Tok(t).t = t
  BY <1>1, <1>2 DEF Tok, Token
<1> QED BY <1>3 DEF Written

LEMMA MacroCallKept ==
  ASSUME IInv, MacroCall
  PROVE  IInv'
<1> DEFINE name == Ahead.name
<1>1. Holds(Top.src, Top.macro_ptr) /\ mode = "line" /\ status = "run" /\ Ahead.t = "call"
  BY DEF MacroCall, Parses, Reads
<1>2. name \in Names
  BY <1>1, AheadFacts DEF Written
<1>3. g_pParamsPool \in 0 .. Tokens /\ g_pParamsArrayPool \in 0 .. Pointers - 1
  BY DEF IInv, Streams
<1>4. CASE /\ mode' = "skip"
           /\ after' = "line"
           /\ errors' = (errors \/ g_passNum # 0)
           /\ stack' = Taken
           /\ label' = None
           /\ made' = [made EXCEPT !.skipped = TRUE]
           /\ UNCHANGED <<g_passNum, text, pools, symbols, files, call, status, seen>>
  <2>1. made' \in [calls : Nat, globals : Nat, skipped : BOOLEAN]
    BY <1>4 DEF IInv, Rest
  <2>2. Rest'
    BY <1>4, <2>1 DEF IInv, Rest, pools, symbols
  <2> QED BY <1>1, <1>4, <2>2, TokenTaken DEF Calling, symbols
<1>5. CASE /\ params_pointers' = [params_pointers EXCEPT ![g_pParamsArrayPool] = g_pParamsPool]
           /\ call' = [name |-> name, pParamArray |-> g_pParamsArrayPool + 1, pStoreParam |-> g_pParamsPool,
                       pFirst |-> g_pParamsPool, params_count |-> 0, commas |-> 0, given |-> << << >> >>]
           /\ mode' = "args"
           /\ stack' = Taken
           /\ label' = None
           /\ UNCHANGED <<g_passNum, text, g_pParamsPool, g_pParamsArrayPool, macros_params, g_MacroNumInstances,
                          symbols, files, after, errors, status, history>>
  <2>1. Sources'
    BY <1>3, <1>5, BoundAssumption DEF IInv, Sources
  <2>2. Streams'
    BY <1>5, Moves DEF IInv
  <2>3. CallTypes'
    <3>1. << << >> >> \in Seq(Seq(Token)) /\ Len(<< << >> >>) = 1 /\ << << >> >> # << >>
      OBVIOUS
    <3>2. g_pParamsArrayPool + 1 \in 0 .. Pointers /\ g_pParamsPool \in Int /\ g_pParamsArrayPool \in Int
      BY <1>3, BoundAssumption
    <3>3. call' \in Call
      BY <1>2, <1>3, <1>5, <3>1, <3>2 DEF Call
    <3>4. /\ call'.given = << << >> >> /\ call'.pStoreParam = g_pParamsPool /\ call'.params_count = 0
          /\ call'.pParamArray = g_pParamsArrayPool + 1
      BY <1>5
    <3>5. g_pParamsPool' = g_pParamsPool /\ g_pParamsArrayPool' = g_pParamsArrayPool
      BY <1>5
    <3> QED BY <3>1, <3>2, <3>3, <3>4, <3>5 DEF CallTypes
  <2>4. FileTypes'
    BY <1>5 DEF IInv, FileTypes, files, symbols
  <2>5. Rest'
    BY <1>5 DEF IInv, Rest, symbols, history
  <2> QED BY <2>1, <2>2, <2>3, <2>4, <2>5 DEF IInv
<1>6. g_pParamsArrayPool < Pointers /\ ~(g_pParamsArrayPool >= Pointers)
  BY <1>3, BoundAssumption
<1> QED BY <1>4, <1>5, <1>6 DEF MacroCall

LEMMA TooHeavyKept ==
  ASSUME IInv, TooHeavy
  PROVE  IInv'
BY DiesKept DEF TooHeavy

LEMMA StoreArgumentKept ==
  ASSUME IInv, StoreArgument
  PROVE  IInv'
<1> DEFINE tok == Decorated(Ahead)
           n == Len(call.given)
           last == Append(call.given[n], tok)
           g == [call.given EXCEPT ![n] = last]
<1>1. /\ Holds(Top.src, Top.macro_ptr) /\ mode = "args" /\ ~Full
      /\ Ahead.t \in {"sym", "sym2", "string", "call", "macro"}
  BY DEF StoreArgument, Reads
<1>2. InPool /\ call.pStoreParam \in 0 .. Tokens - 1
  BY <1>1, RoomFacts
<1>3. /\ Put(tok) /\ stack' = Taken /\ text' = Rewritten
      /\ call' = [call EXCEPT !.pStoreParam = @ + 1, !.given = g]
      /\ UNCHANGED <<g_passNum, g_pParamsPool, g_pParamsArrayPool, params_pointers, g_MacroNumInstances,
                     symbols, files, mode, after, label, errors, status, history>>
  BY <1>2 DEF StoreArgument, Given
<1>4. tok \in Token /\ Written(tok) /\ tok.t \in Stored
  BY <1>1, AheadFacts, DecoratedFacts DEF Stored
<1> HIDE DEF tok
<1>5. Sources'
  <2>1. /\ text' \in Seq(Token) /\ \A i \in 1 .. Len(text') : Written(text'[i])
    BY <1>1, <1>3, RewrittenFacts
  <2>2. /\ macros_params' \in [0 .. Tokens - 1 -> Token]
        /\ \A i \in 0 .. Tokens - 1 : Written(macros_params'[i]) /\ macros_params'[i].t \in Stored
    BY <1>2, <1>3, <1>4, PutTypes
  <2> QED BY <1>3, <2>1, <2>2 DEF IInv, Sources
<1>6. Streams'
  BY <1>3, Moves DEF IInv
<1>7. CallTypes'
  <2>1. /\ call \in Call /\ call.given \in Seq(Seq(Token)) /\ call.given # << >> /\ n \in 1 .. Len(call.given)
        /\ call.pStoreParam \in Nat /\ g_pParamsPool \in Nat /\ g_pParamsPool <= call.pStoreParam
        /\ g_pParamsArrayPool + n <= call.pParamArray
        /\ g_pParamsArrayPool + call.params_count + 1 <= call.pParamArray
    BY <1>1, CallFacts DEF Calling
  <2>2. call.given[n] \in Seq(Token)
    BY <2>1
  <2>3. last \in Seq(Token)
    BY <1>4, <2>2
  <2> HIDE DEF last
  <2>4. g \in Seq(Seq(Token)) /\ Len(g) = n
    BY <2>1, <2>3, ExceptSeq
  <2>5. g # << >>
    BY <2>1, <2>4, EmptySeq
  <2> HIDE DEF g
  <2> DEFINE G == Seq(Seq(Token))
  <2>6. call.pStoreParam + 1 \in 0 .. Tokens
    BY <1>2, BoundAssumption
  <2>7. call' \in Call
    <3> HIDE DEF G
    <3>1. g \in G
      BY <2>4 DEF G
    <3>2. Call = [name : Names, pParamArray : 0 .. Pointers, pStoreParam : 0 .. Tokens, pFirst : 0 .. Tokens,
                  params_count : Nat, commas : Nat, given : G]
      BY DEF Call, G
    <3> QED BY <1>3, <2>1, <2>6, <3>1, <3>2
  <2>8. /\ call'.given = g /\ call'.pStoreParam = call.pStoreParam + 1 /\ call'.params_count = call.params_count
        /\ call'.pParamArray = call.pParamArray
    BY <1>3, <2>1 DEF Call
  <2>9. g_pParamsPool <= call.pStoreParam + 1
    BY <2>1
  <2> HIDE DEF n
  <2> QED BY <1>3, <2>1, <2>4, <2>5, <2>7, <2>8, <2>9 DEF CallTypes
<1>8. FileTypes'
  BY <1>3 DEF IInv, FileTypes, files, symbols
<1>9. Rest'
  BY <1>3 DEF IInv, Rest, symbols, history
<1> QED BY <1>5, <1>6, <1>7, <1>8, <1>9 DEF IInv

LEMMA NextArgumentKept ==
  ASSUME IInv, NextArgument
  PROVE  IInv'
<1> DEFINE n == Len(call.given)
           g == Append(call.given, << >>)
           G == Seq(Seq(Token))
<1>1. Holds(Top.src, Top.macro_ptr) /\ mode = "args" /\ ~Full
  BY DEF NextArgument, Reads
<1>2. InPool /\ InArray /\ call.pStoreParam \in 0 .. Tokens - 1 /\ call.pParamArray \in 0 .. Pointers - 1
  BY <1>1, RoomFacts
<1>3. /\ Put(Tok("endm"))
      /\ params_pointers' = [params_pointers EXCEPT ![call.pParamArray] = call.pStoreParam + 1]
      /\ call' = [call EXCEPT !.pStoreParam = @ + 1,
                              !.pParamArray = @ + 1,
                              !.params_count = IF Void THEN @ ELSE @ + 1,
                              !.commas = IF Void THEN @ ELSE @ + 1,
                              !.given = g]
      /\ stack' = Taken
      /\ errors' = (errors \/ Void)
      /\ UNCHANGED <<g_passNum, text, g_pParamsPool, g_pParamsArrayPool, g_MacroNumInstances,
                     symbols, files, mode, after, label, status, history>>
  BY <1>2 DEF NextArgument
<1>4. /\ call \in Call /\ call.given \in G /\ n \in Nat /\ call.params_count \in Nat /\ call.commas \in Nat
      /\ call.pStoreParam \in Nat /\ call.pParamArray \in Nat /\ g_pParamsPool \in Nat /\ g_pParamsArrayPool \in Nat
      /\ g_pParamsPool <= call.pStoreParam
      /\ g_pParamsArrayPool + n <= call.pParamArray
      /\ g_pParamsArrayPool + call.params_count + 1 <= call.pParamArray
  BY <1>1, CallFacts DEF Calling
<1>5. call.pStoreParam + 1 \in 0 .. Tokens /\ call.pParamArray + 1 \in 0 .. Pointers
  BY <1>2, BoundAssumption
<1>6. Sources'
  <2>1. /\ macros_params' \in [0 .. Tokens - 1 -> Token]
        /\ \A i \in 0 .. Tokens - 1 : Written(macros_params'[i]) /\ macros_params'[i].t \in Stored
    <3>1. Tok("endm") \in Token /\ Written(Tok("endm")) /\ Tok("endm").t \in Stored
      BY TokTypes DEF Stored
    <3> QED BY <1>2, <1>3, <3>1, PutTypes
  <2>2. params_pointers' \in [0 .. Pointers - 1 -> 0 .. Tokens]
    BY <1>2, <1>3, <1>5 DEF IInv, Sources
  <2> QED BY <1>3, <2>1, <2>2 DEF IInv, Sources
<1>7. Streams'
  BY <1>3, Moves DEF IInv
<1>8. CallTypes'
  <2>1. << >> \in Seq(Token)
    OBVIOUS
  <2>2. g \in G /\ Len(g) = n + 1 /\ g # << >>
    <3>1. g \in Seq(Seq(Token)) /\ Len(g) = Len(call.given) + 1
      BY <1>4, <2>1
    <3>2. Len(g) # 0
      BY <1>4, <3>1
    <3> QED BY <3>1, <3>2
  <2>3. Call = [name : Names, pParamArray : 0 .. Pointers, pStoreParam : 0 .. Tokens, pFirst : 0 .. Tokens,
                params_count : Nat, commas : Nat, given : G]
    BY DEF Call
  <2> DEFINE c == IF Void THEN call.params_count ELSE call.params_count + 1
             d == IF Void THEN call.commas ELSE call.commas + 1
             s == call.pStoreParam + 1
             a == call.pParamArray + 1
  <2>4. call' = [call EXCEPT !.pStoreParam = s, !.pParamArray = a, !.params_count = c, !.commas = d, !.given = g]
    BY <1>3
  <2>7. c \in Nat /\ d \in Nat /\ c <= call.params_count + 1
    BY <1>4
  <2>8. s \in 0 .. Tokens /\ a \in 0 .. Pointers /\ s = call.pStoreParam + 1 /\ a = call.pParamArray + 1
    BY <1>5
  <2> HIDE DEF G, g, n, c, d, s, a
  <2>5. /\ call' \in Call
        /\ call'.given = g /\ call'.pStoreParam = call.pStoreParam + 1
        /\ call'.pParamArray = call.pParamArray + 1
        /\ call'.params_count = c
    <3>1. call' \in Call
      BY <1>4, <2>2, <2>3, <2>4, <2>7, <2>8
    <3>2. call'.given = g /\ call'.pStoreParam = s /\ call'.pParamArray = a /\ call'.params_count = c
      BY <1>4, <2>3, <2>4
    <3> QED BY <2>8, <3>1, <3>2
  <2>6. /\ g_pParamsPool <= call'.pStoreParam
        /\ g_pParamsArrayPool + Len(call'.given) <= call'.pParamArray
        /\ g_pParamsArrayPool + call'.params_count + 1 <= call'.pParamArray
    <3>1. call'.pStoreParam = call.pStoreParam + 1 /\ call'.pParamArray = call.pParamArray + 1
          /\ Len(call'.given) = n + 1 /\ call'.params_count \in Nat /\ call'.params_count <= call.params_count + 1
      BY <2>2, <2>5, <2>7
    <3>2. g_pParamsPool <= call.pStoreParam + 1 /\ g_pParamsArrayPool + (n + 1) <= call.pParamArray + 1
      BY <1>4
    <3>3. g_pParamsArrayPool + call'.params_count + 1 <= call.pParamArray + 1
      <4>1. PICK k \in Nat : k = call'.params_count
        BY <3>1
      <4>2. k <= call.params_count + 1
        BY <3>1, <4>1
      <4>3. g_pParamsArrayPool + k <= call.pParamArray
        <5> USE <4>2
        <5> QED BY <1>4
      <4>4. g_pParamsArrayPool + k + 1 <= call.pParamArray + 1
        BY <1>4, <4>3
      <4> QED BY <4>1, <4>4
    <3> QED BY <3>1, <3>2, <3>3
  <2> QED BY <1>3, <2>2, <2>5, <2>6 DEF CallTypes
<1>9. FileTypes'
  BY <1>3 DEF IInv, FileTypes, files, symbols
<1>10. Rest'
  <2>1. errors' \in BOOLEAN
    BY <1>3 DEF IInv, Rest, Void
  <2> QED BY <1>3, <2>1 DEF IInv, Rest, symbols, history
<1> QED BY <1>6, <1>7, <1>8, <1>9, <1>10 DEF IInv

LEMMA ReplayMacroKept ==
  ASSUME IInv, ReplayMacro
  PROVE  IInv'
<1> DEFINE count == IF Void /\ call.commas > 0 THEN call.params_count ELSE call.params_count + 1
           macro == macros[call.name]
<1>1. Holds(Top.src, Top.macro_ptr) /\ mode = "args" /\ ~Full
  BY DEF ReplayMacro, LineEnds, Reads
<1>2. InPool /\ call.pStoreParam \in 0 .. Tokens - 1 /\ call.pParamArray \in 0 .. Pointers - 1
  BY <1>1, RoomFacts
<1>3. CASE CannotPush
  BY <1>3, CannotPushKept
<1>4. CASE /\ InPool /\ CanPush
           /\ Put(Tok("endm"))
           /\ g_MacroNumInstances' = g_MacroNumInstances + 1
           /\ stack' = Stream(Taken, "text", macro.ptr, count, Instance, call.given, made.calls + 1)
           /\ PushFile(macro.file)
           /\ g_CurrentFile' = macro.file
           /\ g_pParamsPool' = Used
           /\ g_pParamsArrayPool' = call.pParamArray
           /\ errors' = (errors \/ (Void /\ call.commas > 0))
           /\ mode' = "line"
           /\ made' = [made EXCEPT !.calls = @ + 1]
           /\ UNCHANGED <<g_passNum, text, params_pointers, symbols, after, label, call, status, seen>>
  <2>1. /\ call \in Call /\ call.name \in Names /\ call.given \in Seq(Seq(Token))
        /\ call.params_count \in Nat /\ call.commas \in Nat
        /\ call.pStoreParam \in Nat /\ call.pParamArray \in Nat /\ g_pParamsPool \in Nat /\ g_pParamsArrayPool \in Nat
        /\ g_pParamsPool <= call.pStoreParam
        /\ g_pParamsArrayPool + call.params_count + 1 <= call.pParamArray
    BY <1>1, CallFacts DEF Calling
  <2>2. macro.ptr \in Nat /\ macro.file \in Files
    BY <2>1 DEF IInv, FileTypes
  <2>3. Instance \in Nat /\ made.calls + 1 \in Nat
    BY DEF Instance, IInv, Rest
  <2>4. count \in {call.params_count, call.params_count + 1}
    OBVIOUS
  <2>5. /\ count \in Int /\ g_pParamsArrayPool + count <= Pointers
        /\ g_pParamsPool' \in g_pParamsPool .. Tokens
        /\ g_pParamsArrayPool' \in g_pParamsArrayPool .. Pointers - 1
    <3>1. g_pParamsPool' = call.pStoreParam + 1 /\ g_pParamsArrayPool' = call.pParamArray
      BY <1>4 DEF Used
    <3> HIDE DEF count
    <3>2. count \in Nat /\ count <= call.params_count + 1
      BY <2>1, <2>4
    <3>3. count \in Int /\ g_pParamsArrayPool + count <= Pointers
      BY <2>1, <3>2, <1>2, BoundAssumption
    <3>4. g_pParamsPool' \in g_pParamsPool .. Tokens
      BY <1>2, <2>1, <3>1, BoundAssumption
    <3>5. g_pParamsArrayPool' \in g_pParamsArrayPool .. Pointers - 1
      BY <1>2, <2>1, <3>1, <3>2, BoundAssumption
    <3> QED BY <3>3, <3>4, <3>5
  <2>6. Streams'
    <3> HIDE DEF count, macro
    <3>1. "text" \in {"text", "pool"}
      OBVIOUS
    <3> QED BY <1>4, <2>1, <2>2, <2>3, <2>5, <3>1, Pushes DEF IInv
  <2>7. Sources'
    <3>1. Tok("endm") \in Token /\ Written(Tok("endm")) /\ Tok("endm").t \in Stored
      BY TokTypes DEF Stored
    <3>2. /\ macros_params' \in [0 .. Tokens - 1 -> Token]
          /\ \A i \in 0 .. Tokens - 1 : Written(macros_params'[i]) /\ macros_params'[i].t \in Stored
      BY <1>2, <1>4, <3>1, PutTypes
    <3> QED BY <1>4, <3>2 DEF IInv, Sources
  <2>8. CallTypes'
    BY <1>4 DEF IInv, CallTypes, Calling
  <2>9. FileTypes'
    <3>1. PushFile(macro.file) /\ g_CurrentFile' \in Files /\ UNCHANGED macros
      BY <1>4, <2>2 DEF symbols
    <3> HIDE DEF macro
    <3> QED BY <1>4, <2>2, <3>1, PushFileTypes
  <2>10. Rest'
    <3>1. made' \in [calls : Nat, globals : Nat, skipped : BOOLEAN]
      <4>1. made \in [calls : Nat, globals : Nat, skipped : BOOLEAN] /\ made' = [made EXCEPT !.calls = @ + 1]
        BY <1>4 DEF IInv, Rest
      <4> QED BY <4>1
    <3>2. errors' \in BOOLEAN
      BY <1>4 DEF IInv, Rest, Void
    <3> QED BY <1>4, <3>1, <3>2 DEF IInv, Rest, symbols
  <2> QED BY <2>6, <2>7, <2>8, <2>9, <2>10 DEF IInv
<1> QED BY <1>2, <1>3, <1>4 DEF ReplayMacro

LEMMA OverrunKept ==
  ASSUME IInv, Overrun
  PROVE  IInv'
BY DiesKept DEF Overrun

\* The stream of the main source.
LEMMA MainStreamTypes ==
  /\ MainStream \in Frame /\ <<MainStream>> \in Seq(Frame) /\ Len(<<MainStream>>) = 1
  /\ <<MainStream>>[1] = MainStream
  /\ MainStream.src = "text" /\ MainStream.params_array = 0 /\ MainStream.pParamsPool = 0
  /\ MainStream.params_count = -1
<1>1. MainStream \in Frame
  BY BoundAssumption DEF MainStream, Frame
<1>2. /\ MainStream.src = "text" /\ MainStream.params_array = 0 /\ MainStream.pParamsPool = 0
      /\ MainStream.params_count = -1
  BY DEF MainStream
<1> HIDE DEF MainStream
<1> QED BY <1>1, <1>2

LEMMA EndOfPassKept ==
  ASSUME IInv, EndOfPass
  PROVE  IInv'
<1>1. CASE g_passNum = 0 /\ ~errors
  <2>1. /\ g_passNum' = 1
        /\ stack' = <<MainStream>>
        /\ g_pParamsPool' = 0 /\ g_pParamsArrayPool' = 0 /\ g_MacroNumInstances' = 0
        /\ g_LocalSerial' = 0 /\ g_incStackDeepth' = 0 /\ label' = None
        /\ made' = [made EXCEPT !.calls = 0, !.globals = 0]
        /\ UNCHANGED <<text, macros_params, params_pointers, table, macros, inc_names, g_CurrentFile,
                       mode, after, call, errors, status, seen>>
    BY <1>1 DEF EndOfPass, KeptInstances
  <2>2. mode = "line"
    BY DEF EndOfPass, Parses
  <2>3. Streams'
    BY <2>1, MainStreamTypes, BoundAssumption DEF Streams
  <2>4. Sources'
    BY <2>1, SourcesStay DEF IInv
  <2>5. CallTypes'
    BY <2>1, <2>2 DEF IInv, CallTypes, Calling
  <2>6. FileTypes'
    BY <2>1, BoundAssumption DEF IInv, FileTypes
  <2>7. made' \in [calls : Nat, globals : Nat, skipped : BOOLEAN]
    BY <2>1 DEF IInv, Rest
  <2>8. Rest'
    BY <2>1, <2>7 DEF IInv, Rest
  <2> QED BY <2>3, <2>4, <2>5, <2>6, <2>8 DEF IInv
<1>2. CASE ~(g_passNum = 0 /\ ~errors)
  <2>1. /\ UNCHANGED <<text, macros_params, params_pointers, stack, g_pParamsPool, g_pParamsArrayPool>>
        /\ UNCHANGED <<call, mode, after, label, g_passNum, g_MacroNumInstances, g_LocalSerial, table, macros>>
        /\ UNCHANGED <<g_incStackDeepth, inc_names, g_CurrentFile, errors, seen, made>>
        /\ status' = IF errors THEN "rejected" ELSE "accepted"
    BY <1>2 DEF EndOfPass, pools, symbols, files, parser, history
  <2>2. Sources' /\ Streams'
    BY <2>1, SourcesStay, Stays DEF IInv
  <2>3. CallTypes'
    BY <2>1, CallSame DEF Calling
  <2>4. FileTypes'
    BY <2>1 DEF IInv, FileTypes
  <2>5. Rest'
    BY <2>1 DEF IInv, Rest
  <2> QED BY <2>2, <2>3, <2>4, <2>5 DEF IInv
<1> QED BY <1>1, <1>2

----------------------------------------------------------------------------
(* The theorems.                                                           *)

LEMMA InitIInv == Init => IInv
<1> SUFFICES ASSUME Init PROVE IInv
  OBVIOUS
<1>1. Sources
  <2>1. text \in Seq(Token) /\ \A i \in 1 .. Len(text) : Written(text[i])
    <3>1. text \in Texts
      BY DEF Init
    <3>2. text \in Seq(Token)
      BY <3>1, TextsAssumption
    <3>3. ASSUME NEW i \in 1 .. Len(text) PROVE Written(text[i])
      BY <3>1, TextsAssumption
    <3> QED BY <3>2, <3>3
  <2>2. Tok("endm") \in Token /\ Written(Tok("endm")) /\ Tok("endm").t \in Stored
    BY TokTypes DEF Stored
  <2>3. /\ macros_params \in [0 .. Tokens - 1 -> Token]
        /\ \A i \in 0 .. Tokens - 1 : Written(macros_params[i]) /\ macros_params[i].t \in Stored
    BY <2>2 DEF Init
  <2>4. params_pointers \in [0 .. Pointers - 1 -> 0 .. Tokens]
    BY BoundAssumption DEF Init
  <2> QED BY <2>1, <2>3, <2>4 DEF Sources
<1>2. Streams
  BY MainStreamTypes, BoundAssumption DEF Init, Streams
<1>3. CallTypes
  BY DEF Init, CallTypes, Calling
<1>4. FileTypes
  BY NamesAssumption, BoundAssumption DEF Init, FileTypes
<1>5. Rest
  <2>1. seen \in [0 .. 1 -> Seq(Event)]
    <3>1. << >> \in Seq(Event)
      OBVIOUS
    <3> QED BY <3>1 DEF Init
  <2>2. made \in [calls : Nat, globals : Nat, skipped : BOOLEAN]
    BY DEF Init
  <2> QED BY <2>1, <2>2 DEF Init, Rest
<1> QED BY <1>1, <1>2, <1>3, <1>4, <1>5 DEF IInv

LEMMA StutterKept ==
  ASSUME IInv, UNCHANGED vars
  PROVE  IInv'
<1>1. /\ UNCHANGED <<text, macros_params, params_pointers, stack, g_pParamsPool, g_pParamsArrayPool>>
      /\ UNCHANGED <<call, mode, after, label, g_passNum, g_MacroNumInstances, g_LocalSerial, table, macros>>
      /\ UNCHANGED <<g_incStackDeepth, inc_names, g_CurrentFile, errors, status, seen, made>>
  BY DEF vars, pools, symbols, files, parser, history
<1>2. Sources' /\ Streams'
  BY <1>1, SourcesStay, Stays DEF IInv
<1>3. CallTypes'
  BY <1>1, CallSame DEF Calling
<1>4. FileTypes'
  BY <1>1 DEF IInv, FileTypes
<1>5. Rest'
  BY <1>1 DEF IInv, Rest
<1> QED BY <1>2, <1>3, <1>4, <1>5 DEF IInv

LEMMA NextIInv == IInv /\ [Next]_vars => IInv'
<1> SUFFICES ASSUME IInv, [Next]_vars PROVE IInv'
  OBVIOUS
<1> USE DEF Next
<1>1. CASE EndMacro
  BY <1>1, EndMacroKept
<1>2. CASE MacroParam
  BY <1>2, MacroParamKept
<1>3. CASE EnterFile
  BY <1>3, EnterFileKept
<1>4. CASE LeaveFile
  BY <1>4, LeaveFileKept
<1>5. CASE EndInMacro
  BY <1>5, EndInMacroKept
<1>6. CASE AddLabel
  BY <1>6, AddLabelKept
<1>7. CASE GetSym
  BY <1>7, GetSymKept
<1>24. CASE InsertString
  BY <1>24, InsertStringKept
<1>8. CASE Separator
  BY <1>8, SeparatorKept
<1>9. CASE MacroCall
  BY <1>9, MacroCallKept
<1>10. CASE MacroDirective
  BY <1>10, MacroDirectiveKept
<1>11. CASE MacroRecord
  BY <1>11, MacroRecordKept
<1>12. CASE MacroError
  BY <1>12, MacroErrorKept
<1>13. CASE SyntaxError
  BY <1>13, SyntaxErrorKept
<1>14. CASE Discard
  BY <1>14, DiscardKept
<1>15. CASE TooHeavy
  BY <1>15, TooHeavyKept
<1>16. CASE StoreArgument
  BY <1>16, StoreArgumentKept
<1>17. CASE NextArgument
  BY <1>17, NextArgumentKept
<1>18. CASE ReplayMacro
  BY <1>18, ReplayMacroKept
<1>19. CASE SkipLine
  BY <1>19, SkipLineKept
<1>20. CASE SkipMacro
  BY <1>20, SkipMacroKept
<1>21. CASE Overrun
  BY <1>21, OverrunKept
<1>22. CASE EndOfPass
  BY <1>22, EndOfPassKept
<1>23. CASE UNCHANGED vars
  BY <1>23, StutterKept
<1> QED
  BY <1>1, <1>2, <1>3, <1>4, <1>5, <1>6, <1>7, <1>8, <1>9, <1>10, <1>11, <1>12, <1>13, <1>14, <1>15, <1>16,
     <1>17, <1>18, <1>19, <1>20, <1>21, <1>22, <1>23, <1>24

\* The invariant of the streams holds whatever the sources are.
THEOREM Invariance == Spec => []IInv
BY InitIInv, NextIInv, PTL DEF Spec

\* Every variable keeps its type: pointers stay in their arrays, whatever
\* macros call each other with whatever arguments.
THEOREM TypeCorrect == Spec => []TypeOK
<1>1. IInv => TypeOK
  <2> SUFFICES ASSUME IInv PROVE TypeOK
    OBVIOUS
  <2>1. call.pStoreParam \in 0 .. Tokens /\ call.pParamArray \in 0 .. Pointers
    BY BoundAssumption DEF IInv, CallTypes, Call, NoCall
  <2>2. g_pParamsArrayPool \in 0 .. Pointers
    BY BoundAssumption DEF IInv, Streams
  <2> QED BY <2>1, <2>2 DEF IInv, Sources, Streams, FileTypes, Rest, TypeOK
<1> QED BY <1>1, Invariance, PTL

\* Replay_Macro stores no token and no pointer beyond the pools, though the
\* first pointer of a call is stored without a check.
THEOREM PoolsBounded == Spec => []PoolsInBounds
<1>1. IInv => PoolsInBounds
  BY DEF IInv, Rest, PoolsInBounds
<1> QED BY <1>1, Invariance, PTL

\* PopStream gives all of the pools back: between the lines of the source they
\* are empty.
THEOREM PoolsGivenBack == Spec => []PoolsReturned
<1>1. IInv => PoolsReturned
  BY DEF IInv, Streams, PoolsReturned, TopLevel
<1> QED BY <1>1, Invariance, PTL

----------------------------------------------------------------------------
(* Arguments.                                                              *)

\* Every ENDM begins its line.
OwnLines == \A i \in 2 .. Len(text) : text[i].t = "endm" => text[i - 1].t = "eol"

\* Where the space of frame i ends.
TokensEnd(i)   == IF i = Len(stack) THEN g_pParamsPool ELSE stack[i + 1].pParamsPool
PointersEnd(i) == IF i = Len(stack) THEN g_pParamsArrayPool ELSE stack[i + 1].params_array

\* The tokens of an argument are in the pool from start on.
Copied(arg, start) == \A j \in 1 .. Len(arg) : macros_params[start + j - 1] = arg[j]

\* The arguments of frame i are in its space, each with its ENDM.
Kept(i) ==
  /\ stack[i].params_array + Len(stack[i].given) <= PointersEnd(i)
  /\ \A k \in 1 .. Len(stack[i].given) :
       LET arg   == stack[i].given[k]
           start == params_pointers[stack[i].params_array + k - 1]
       IN  /\ start + Len(arg) < TokensEnd(i)
           /\ Copied(arg, start)
           /\ macros_params[start + Len(arg)] = Tok("endm")

\* The last argument is not complete.
CallKept ==
  LET n == Len(call.given) IN
  /\ call.pParamArray = g_pParamsArrayPool + n
  /\ \A k \in 1 .. n :
       LET arg   == call.given[k]
           start == params_pointers[g_pParamsArrayPool + k - 1]
       IN  /\ Copied(arg, start)
           /\ k < n => start + Len(arg) < call.pStoreParam /\ macros_params[start + Len(arg)] = Tok("endm")
           /\ k = n => start + Len(arg) = call.pStoreParam

\* The token that was read last from stream i of the source.
Behind(i, S) == stack[i].macro_ptr \in 2 .. Len(text) + 1 /\ text[stack[i].macro_ptr - 1].t \in S

\* Only the stream on top is an argument, and it has saved the pools as they
\* are; Replay_Macro never reads at the beginning of a line, but in the source.
Places ==
  /\ OwnLines
  /\ \A i \in 1 .. Len(stack) - 1 : stack[i].src = "text"
  /\ Top.src = "pool" => /\ Top.pParamsPool = g_pParamsPool /\ Top.params_array = g_pParamsArrayPool
                         /\ Behind(Len(stack) - 1, {"param"})
                         /\ Top.given = << >>
  /\ mode = "args" /\ ~TopLevel /\ Top.src = "text" => Behind(Len(stack), Kinds \ {"eol"})
  /\ mode = "skip" /\ after = "args" => TopLevel

KeptInv ==
  /\ Places
  /\ \A i \in 1 .. Len(stack) : Kept(i)
  /\ Calling => CallKept

----------------------------------------------------------------------------
(* Local labels.                                                           *)

\* No label that the source defines begins with '@'.
NoAtLabels == \A i \in 1 .. Len(text) : text[i].t = "sym2" => text[i].name \notin Ats

\* The number in the first decoration is that of the scope.
Stamped(x) ==
  /\ x.stamps = << >> => x.scope = NoScope
  /\ Len(x.stamps) = 1 => x.scope.n = x.stamps[1]

ApartInv ==
  /\ NoAtLabels
  /\ \A i \in 1 .. Len(text) : Stamped(text[i])
  /\ \A i \in 0 .. Tokens - 1 : Stamped(macros_params[i])
  /\ \A p \in 0 .. 1 : \A i \in 1 .. Len(seen[p]) : Stamped(seen[p][i])
  /\ g_LocalSerial = made.globals
  /\ g_MacroNumInstances = made.calls
  /\ \A i \in 1 .. Len(stack) : stack[i].instancesNumber = stack[i].id

----------------------------------------------------------------------------
(* Facts about frames and their space.                                     *)

\* The space of a frame ends where the pools end, or before.
LEMMA EndsBelow ==
  ASSUME Streams, NEW i \in 1 .. Len(stack)
  PROVE  /\ PointersEnd(i) \in 0 .. g_pParamsArrayPool /\ TokensEnd(i) \in 0 .. g_pParamsPool
         /\ stack[i].params_array \in Nat /\ stack[i].given \in Seq(Seq(Token)) /\ Len(stack[i].given) \in Nat
         /\ g_pParamsArrayPool \in 0 .. Pointers - 1 /\ g_pParamsPool \in 0 .. Tokens
         /\ g_pParamsArrayPool \in Nat /\ g_pParamsPool \in Nat
<1>1. Len(stack) \in Nat /\ stack \in Seq(Frame)
  BY TopFacts DEF Streams
<1>2. ASSUME NEW j \in 1 .. Len(stack)
      PROVE  /\ stack[j].params_array \in 0 .. Pointers /\ stack[j].pParamsPool \in 0 .. Tokens
             /\ stack[j].given \in Seq(Seq(Token))
             /\ stack[j].params_array <= g_pParamsArrayPool /\ stack[j].pParamsPool <= g_pParamsPool
  <2>1. stack[j] \in Frame
    BY <1>1
  <2> QED BY <2>1 DEF Frame, Streams
<1>3. g_pParamsArrayPool \in 0 .. Pointers - 1 /\ g_pParamsPool \in 0 .. Tokens
  BY DEF Streams
<1>4. g_pParamsArrayPool \in Nat /\ g_pParamsPool \in Nat
  BY <1>3, BoundAssumption
<1>5. ASSUME NEW j \in 1 .. Len(stack)
      PROVE  stack[j].params_array \in 0 .. g_pParamsArrayPool /\ stack[j].pParamsPool \in 0 .. g_pParamsPool
  BY <1>2, <1>4, BoundAssumption
<1>6. PointersEnd(i) \in 0 .. g_pParamsArrayPool /\ TokensEnd(i) \in 0 .. g_pParamsPool
  <2>1. CASE i = Len(stack)
    BY <2>1, <1>4 DEF PointersEnd, TokensEnd
  <2>2. CASE i # Len(stack)
    <3>1. i + 1 \in 1 .. Len(stack)
      BY <1>1, <2>2
    <3> QED BY <2>2, <3>1, <1>5 DEF PointersEnd, TokensEnd
  <2> QED BY <2>1, <2>2
<1>7. stack[i].given \in Seq(Seq(Token)) /\ stack[i].params_array \in Nat
  BY <1>2, <1>5, <1>4
<1> QED BY <1>3, <1>4, <1>6, <1>7

\* A frame whose space stays as it is keeps its arguments.
LEMMA KeptStays ==
  ASSUME IInv, NEW i \in 1 .. Len(stack), Kept(i),
         stack'[i].given = stack[i].given, stack'[i].params_array = stack[i].params_array,
         PointersEnd(i)' = PointersEnd(i), TokensEnd(i)' = TokensEnd(i),
         \A q \in 0 .. PointersEnd(i) - 1 : params_pointers'[q] = params_pointers[q],
         \A q \in 0 .. TokensEnd(i) - 1 : macros_params'[q] = macros_params[q]
  PROVE  Kept(i)'
<1> DEFINE g == stack[i].given
           a == stack[i].params_array
           P == PointersEnd(i)
           T == TokensEnd(i)
<1>1. a \in Nat /\ g \in Seq(Seq(Token)) /\ Len(g) \in Nat /\ P \in Nat /\ T \in Nat /\ P <= Pointers - 1
  <2>1. /\ a \in Nat /\ g \in Seq(Seq(Token)) /\ Len(g) \in Nat
        /\ P \in 0 .. g_pParamsArrayPool /\ T \in 0 .. g_pParamsPool
        /\ g_pParamsArrayPool \in Nat /\ g_pParamsPool \in Nat /\ g_pParamsArrayPool \in 0 .. Pointers - 1
    BY EndsBelow DEF IInv
  <2> HIDE DEF P, T
  <2> QED BY <2>1, BoundAssumption
<1>2. a + Len(g) <= P
  BY DEF Kept
<1>3. ASSUME NEW k \in 1 .. Len(g)
      PROVE  LET arg   == g[k]
                 start == params_pointers'[a + k - 1]
             IN  /\ start + Len(arg) < T
                 /\ \A j \in 1 .. Len(arg) : macros_params'[start + j - 1] = arg[j]
                 /\ macros_params'[start + Len(arg)] = Tok("endm")
  <2> DEFINE arg == g[k]
             start == params_pointers[a + k - 1]
  <2>1. a + k - 1 \in 0 .. P - 1 /\ a + k - 1 \in 0 .. Pointers - 1
    <3> HIDE DEF P, T, a, g
    <3>1. PICK m \in Nat : m = Len(g)
      BY <1>1
    <3>2. k \in Nat /\ 1 <= k /\ k <= m /\ a + m <= P
      BY <1>2, <3>1
    <3>3. 0 <= a + k - 1 /\ a + k - 1 <= P - 1
      BY <1>1, <3>2
    <3> QED BY <1>1, <3>2, <3>3, BoundAssumption
  <2>2. params_pointers'[a + k - 1] = start
    BY <2>1
  <2>3. start \in 0 .. Tokens
    BY <2>1 DEF IInv, Sources
  <2>4. arg \in Seq(Token) /\ Len(arg) \in Nat
    BY <1>1
  <2>5. start + Len(arg) < T /\ Copied(arg, start) /\ macros_params[start + Len(arg)] = Tok("endm")
    BY DEF Kept
  <2> HIDE DEF P, T, start, arg
  <2>6. start \in Nat /\ start + Len(arg) \in 0 .. T - 1
    BY <1>1, <2>3, <2>4, <2>5, BoundAssumption
  <2>7. \A q \in 0 .. T - 1 : macros_params'[q] = macros_params[q]
    BY DEF T
  <2>8. macros_params'[start + Len(arg)] = Tok("endm")
    BY <2>5, <2>6, <2>7
  <2>10. \A j \in 1 .. Len(arg) : macros_params'[start + j - 1] = arg[j]
    <3>1. ASSUME NEW j \in 1 .. Len(arg) PROVE macros_params'[start + j - 1] = arg[j]
      <4>1. start + j - 1 \in 0 .. T - 1
        BY <1>1, <2>4, <2>5, <2>6
      <4>2. macros_params[start + j - 1] = arg[j]
        BY <2>5 DEF Copied
      <4> QED BY <4>1, <4>2, <2>7
    <3> QED BY <3>1
  <2> QED BY <2>2, <2>5, <2>8, <2>10 DEF start, arg, T
<1>4. stack'[i].given = g /\ stack'[i].params_array = a /\ PointersEnd(i)' = P /\ TokensEnd(i)' = T
  OBVIOUS
<1> HIDE DEF g, a, P, T
<1> QED BY <1>2, <1>3, <1>4 DEF Kept, Copied

\* The frames keep their arguments when the pools change in their free part.
LEMMA FramesStay ==
  ASSUME IInv, \A i \in 1 .. Len(stack) : Kept(i),
         stack' = Taken, UNCHANGED <<g_pParamsPool, g_pParamsArrayPool>>,
         \A q \in 0 .. g_pParamsArrayPool - 1 : params_pointers'[q] = params_pointers[q],
         \A q \in 0 .. g_pParamsPool - 1 : macros_params'[q] = macros_params[q]
  PROVE  \A i \in 1 .. Len(stack') : Kept(i)'
<1> SUFFICES ASSUME NEW i \in 1 .. Len(stack') PROVE Kept(i)'
  OBVIOUS
<1>1. Len(stack') = Len(stack) /\ Len(stack) \in Nat /\ i \in 1 .. Len(stack)
  BY TakenFacts, TopFacts DEF IInv
<1>2. ASSUME NEW j \in 1 .. Len(stack)
      PROVE  /\ stack'[j].given = stack[j].given /\ stack'[j].params_array = stack[j].params_array
             /\ stack'[j].pParamsPool = stack[j].pParamsPool
  BY TakenFacts DEF IInv
<1>3. PointersEnd(i)' = PointersEnd(i) /\ TokensEnd(i)' = TokensEnd(i)
  <2>1. CASE i = Len(stack)
    BY <1>1, <2>1 DEF PointersEnd, TokensEnd
  <2>2. CASE i # Len(stack)
    <3>1. i + 1 \in 1 .. Len(stack)
      BY <1>1, <2>2
    <3> QED BY <1>1, <1>2, <2>2, <3>1 DEF PointersEnd, TokensEnd
  <2> QED BY <2>1, <2>2
<1>4. /\ PointersEnd(i) \in 0 .. g_pParamsArrayPool /\ TokensEnd(i) \in 0 .. g_pParamsPool
      /\ g_pParamsArrayPool \in Nat /\ g_pParamsPool \in Nat
  BY <1>1, EndsBelow DEF IInv
<1>5. /\ \A q \in 0 .. PointersEnd(i) - 1 : params_pointers'[q] = params_pointers[q]
      /\ \A q \in 0 .. TokensEnd(i) - 1 : macros_params'[q] = macros_params[q]
  BY <1>4
<1> QED BY <1>1, <1>2, <1>3, <1>5, KeptStays

\* Decoration changes no token into another, and no place.
LEMMA KindsStay ==
  ASSUME IInv, Holds(Top.src, Top.macro_ptr), text' \in {text, Rewritten}
  PROVE  /\ Len(text') = Len(text)
         /\ \A i \in 1 .. Len(text) : text'[i].t = text[i].t /\ text'[i].name = text[i].name
<1>1. CASE text' = text
  BY <1>1
<1>2. CASE text' = Rewritten
  BY <1>2, RewrittenFacts
<1> QED BY <1>1, <1>2

\* The places when a token is taken.
LEMMA PlacesMoved ==
  ASSUME IInv, Places, Holds(Top.src, Top.macro_ptr), stack' = Taken, text' \in {text, Rewritten},
         UNCHANGED <<g_pParamsPool, g_pParamsArrayPool>>,
         mode' = "args" /\ ~TopLevel => Ahead.t # "eol",
         mode' = "skip" /\ after' = "args" => TopLevel
  PROVE  Places'
<1> DEFINE n == Len(stack)
<1>1. /\ n \in Nat \ {0} /\ Len(stack') = n /\ n \in 1 .. n
      /\ \A i \in 1 .. n : /\ i # n => stack'[i] = stack[i]
                           /\ stack'[i].src = stack[i].src /\ stack'[i].given = stack[i].given
                           /\ stack'[i].params_array = stack[i].params_array
                           /\ stack'[i].pParamsPool = stack[i].pParamsPool
      /\ stack'[n].macro_ptr = Top.macro_ptr + 1
  BY TakenFacts, TopFacts DEF IInv
<1>2. Len(text') = Len(text) /\ \A i \in 1 .. Len(text) : text'[i].t = text[i].t
  BY KindsStay
<1>3. OwnLines'
  BY <1>2 DEF OwnLines, Places
<1>4. (TopLevel' <=> TopLevel) /\ Top' = stack'[n] /\ Top = stack[n] /\ (TopLevel <=> n = 1)
  BY <1>1 DEF TopLevel, Top
<1>5. \A i \in 1 .. Len(stack') - 1 : stack'[i].src = "text"
  BY <1>1 DEF Places
<1>6. ASSUME stack'[n].src = "pool"
      PROVE  /\ stack'[n].pParamsPool = g_pParamsPool' /\ stack'[n].params_array = g_pParamsArrayPool'
             /\ stack'[n - 1].macro_ptr \in 2 .. Len(text') + 1 /\ text'[stack'[n - 1].macro_ptr - 1].t = "param"
             /\ stack'[n].given = << >>
  <2>1. /\ stack[n].pParamsPool = g_pParamsPool /\ stack[n].params_array = g_pParamsArrayPool
        /\ stack[n - 1].macro_ptr \in 2 .. Len(text) + 1 /\ text[stack[n - 1].macro_ptr - 1].t = "param"
        /\ stack[n].given = << >>
    BY <1>1, <1>4, <1>6 DEF Places, Behind
  <2>2. n >= 2
    BY <1>1, <1>4, <1>6, TopFacts DEF IInv
  <2>3. stack'[n - 1] = stack[n - 1]
    BY <1>1, <2>2
  <2>4. stack[n - 1].macro_ptr - 1 \in 1 .. Len(text)
    BY <2>1
  <2> QED BY <1>1, <1>2, <2>1, <2>3, <2>4
<1>7. ASSUME mode' = "args", n # 1, stack'[n].src = "text"
      PROVE  /\ stack'[n].macro_ptr \in 2 .. Len(text') + 1
             /\ text'[stack'[n].macro_ptr - 1].t \in Kinds \ {"eol"}
  <2>1. Ahead.t # "eol" /\ Top.src = "text"
    BY <1>1, <1>4, <1>7
  <2>2. Top.macro_ptr \in 1 .. Len(text) /\ Ahead = text[Top.macro_ptr] /\ Ahead \in Token
    BY <2>1, AheadFacts
  <2>3. Ahead.t \in Kinds \ {"eol"}
    BY <2>1, <2>2 DEF Token
  <2>4. stack'[n].macro_ptr - 1 = Top.macro_ptr /\ stack'[n].macro_ptr \in 2 .. Len(text) + 1
    BY <1>1, <2>2
  <2> QED BY <1>2, <2>2, <2>3, <2>4
<1>8. mode' = "skip" /\ after' = "args" => TopLevel'
  BY <1>4
<1>9. Len(stack') = n
  BY <1>1
<1> HIDE DEF n
<1> QED BY <1>3, <1>4, <1>5, <1>6, <1>7, <1>8, <1>9 DEF Places, Behind

\* A step that takes a token and leaves the pools and the call alone.
LEMMA Moved ==
  ASSUME IInv, KeptInv, Holds(Top.src, Top.macro_ptr), stack' = Taken, text' \in {text, Rewritten},
         UNCHANGED <<g_pParamsPool, g_pParamsArrayPool, macros_params, params_pointers, call>>,
         Calling' => Calling,
         mode' = "args" /\ ~TopLevel => Ahead.t # "eol",
         mode' = "skip" /\ after' = "args" => TopLevel
  PROVE  KeptInv'
<1>1. Places'
  BY PlacesMoved DEF KeptInv
<1>2. \A i \in 1 .. Len(stack') : Kept(i)'
  BY FramesStay DEF KeptInv
<1>3. Calling' => CallKept'
  BY DEF KeptInv, CallKept, Copied
<1> QED BY <1>1, <1>2, <1>3 DEF KeptInv

\* A step that leaves all of it alone.
LEMMA KeptSame ==
  ASSUME KeptInv, UNCHANGED <<text, stack, g_pParamsPool, g_pParamsArrayPool, macros_params, params_pointers, call, mode, after>>
  PROVE  KeptInv'
<1>1. Places'
  BY DEF KeptInv, Places, OwnLines, Behind, Top, TopLevel
<1>2. ASSUME NEW i \in 1 .. Len(stack') PROVE Kept(i)'
  BY DEF KeptInv, Kept, PointersEnd, TokensEnd, Copied
<1>3. Calling' => CallKept'
  BY DEF KeptInv, CallKept, Copied, Calling
<1> QED BY <1>1, <1>2, <1>3 DEF KeptInv

LEMMA DiesSame ==
  ASSUME KeptInv, NEW how, Dies(how)
  PROVE  KeptInv'
<1>1. UNCHANGED <<text, stack, g_pParamsPool, g_pParamsArrayPool, macros_params, params_pointers, call, mode, after>>
  BY DEF Dies, pools, parser
<1> QED BY <1>1, KeptSame

----------------------------------------------------------------------------
(* ENDM and the parameters.                                                *)

\* Replay_Macro reads no ENDM of the source: it would stand behind a call.
LEMMA EndMacroPlace ==
  ASSUME IInv, KeptInv, EndMacro, ~TopLevel, Top.src = "text"
  PROVE  ~Calling
<1> SUFFICES ASSUME Calling PROVE FALSE
  OBVIOUS
<1>1. mode = "args" /\ Holds(Top.src, Top.macro_ptr) /\ Ahead.t = "endm"
  BY DEF EndMacro, Lexes, Reads, Calling
<1>2. Top.macro_ptr \in 1 .. Len(text) /\ Ahead = text[Top.macro_ptr] /\ Top = stack[Len(stack)]
  BY <1>1, AheadFacts DEF Top
<1>3. Top.macro_ptr \in 2 .. Len(text) + 1 /\ text[Top.macro_ptr - 1].t # "eol"
  BY <1>1, <1>2 DEF KeptInv, Places, Behind
<1>4. Top.macro_ptr \in 2 .. Len(text)
  BY <1>2, <1>3
<1> QED BY <1>1, <1>2, <1>3, <1>4 DEF KeptInv, Places, OwnLines

LEMMA EndMacroArgs ==
  ASSUME IInv, KeptInv, EndMacro
  PROVE  KeptInv'
<1>1. CASE TopLevel
  BY <1>1, DiesSame DEF EndMacro
<1>2. CASE ~TopLevel
  <2> DEFINE n == Len(stack)
  <2>1. /\ stack' = SubSeq(stack, 1, Len(stack) - 1)
        /\ g_pParamsPool' = Top.pParamsPool /\ g_pParamsArrayPool' = Top.params_array
        /\ UNCHANGED <<text, macros_params, params_pointers, call, mode, after>>
    BY <1>2 DEF EndMacro, Restored, parser
  <2>2. /\ n \in Nat /\ n >= 2 /\ Len(stack') = n - 1 /\ \A i \in 1 .. n - 1 : stack'[i] = stack[i]
        /\ Top = stack[n]
    BY <1>2, <2>1, TopFacts, Pops DEF IInv, Top
  <2>3. \A i \in 1 .. n - 1 : stack'[i].src = "text"
    BY <2>2 DEF KeptInv, Places
  <2>4. ASSUME NEW i \in 1 .. Len(stack') PROVE Kept(i)'
    <3>1. i \in 1 .. n /\ i # n /\ i + 1 \in 1 .. n /\ Kept(i)
      BY <2>2 DEF KeptInv
    <3>2. PointersEnd(i)' = PointersEnd(i) /\ TokensEnd(i)' = TokensEnd(i)
      <4>1. CASE i = n - 1
        <5>1. i = Len(stack') /\ i + 1 = n
          BY <2>2, <4>1
        <5>2. stack[i + 1] = Top
          BY <2>2, <5>1
        <5> QED BY <2>1, <3>1, <5>1, <5>2 DEF PointersEnd, TokensEnd
      <4>2. CASE i # n - 1
        <5>1. i + 1 \in 1 .. n - 1 /\ i # Len(stack')
          BY <2>2, <3>1, <4>2
        <5>2. stack'[i + 1] = stack[i + 1]
          BY <2>2, <5>1
        <5> QED BY <3>1, <5>1, <5>2 DEF PointersEnd, TokensEnd
      <4> QED BY <4>1, <4>2
    <3>3. stack'[i] = stack[i]
      BY <2>2
    <3> QED BY <2>1, <3>1, <3>2, <3>3, KeptStays
  <2>5. Calling' => CallKept'
    <3>1. CASE Top.src = "pool"
      <4>1. g_pParamsArrayPool' = g_pParamsArrayPool
        BY <2>1, <3>1 DEF KeptInv, Places
      <4> QED BY <2>1, <4>1 DEF KeptInv, CallKept, Copied, Calling
    <3>2. CASE Top.src = "text"
      BY <1>2, <2>1, <3>2, EndMacroPlace DEF Calling
    <3> QED BY <3>1, <3>2, TopFacts DEF IInv
  <2>6. Places'
    <3>1. OwnLines'
      BY <2>1 DEF KeptInv, Places, OwnLines
    <3>2. mode # "skip"
      BY DEF EndMacro, Lexes
    <3>3. ASSUME mode = "args"
          PROVE  stack'[n - 1].macro_ptr \in 2 .. Len(text) + 1 /\ text[stack'[n - 1].macro_ptr - 1].t \in Kinds \ {"eol"}
      <4>1. Top.src = "pool"
        BY <1>2, <3>3, EndMacroPlace, TopFacts DEF IInv, Calling
      <4>2. stack[n - 1].macro_ptr \in 2 .. Len(text) + 1 /\ text[stack[n - 1].macro_ptr - 1].t = "param"
        BY <4>1 DEF KeptInv, Places, Behind
      <4> QED BY <2>2, <4>2 DEF Kinds
    <3>4. /\ Top' = stack'[n - 1] /\ Len(stack') = n - 1 /\ Top'.src = "text"
          /\ \A i \in 1 .. n - 1 : stack'[i].src = "text"
      BY <2>2, <2>3 DEF Top
    <3> HIDE DEF n
    <3> QED BY <2>1, <2>2, <3>1, <3>2, <3>3, <3>4 DEF Places, Behind
  <2> QED BY <2>4, <2>5, <2>6 DEF KeptInv
<1> QED BY <1>1, <1>2

\* A stream on top of the others keeps their arguments, when its given ones
\* are in the pools already.
LEMMA FramesPushed ==
  ASSUME IInv, \A i \in 1 .. Len(stack) : Kept(i),
         Len(stack') = Len(stack) + 1,
         \A i \in 1 .. Len(stack) : stack'[i] = Taken[i],
         stack'[Len(stack) + 1].params_array = g_pParamsArrayPool,
         stack'[Len(stack) + 1].pParamsPool = g_pParamsPool,
         \A q \in 0 .. g_pParamsArrayPool - 1 : params_pointers'[q] = params_pointers[q],
         \A q \in 0 .. g_pParamsPool - 1 : macros_params'[q] = macros_params[q]
  PROVE  \A i \in 1 .. Len(stack) : Kept(i)'
<1> SUFFICES ASSUME NEW i \in 1 .. Len(stack) PROVE Kept(i)'
  OBVIOUS
<1>1. Len(stack) \in Nat
  BY TopFacts DEF IInv
<1>2. ASSUME NEW j \in 1 .. Len(stack)
      PROVE  /\ stack'[j].given = stack[j].given /\ stack'[j].params_array = stack[j].params_array
             /\ stack'[j].pParamsPool = stack[j].pParamsPool
  BY TakenFacts DEF IInv
<1>3. PointersEnd(i)' = PointersEnd(i) /\ TokensEnd(i)' = TokensEnd(i)
  <2>1. i # Len(stack')
    BY <1>1
  <2>2. CASE i = Len(stack)
    BY <2>1, <2>2 DEF PointersEnd, TokensEnd
  <2>3. CASE i # Len(stack)
    <3>1. i + 1 \in 1 .. Len(stack)
      BY <1>1, <2>3
    <3> QED BY <1>2, <2>1, <2>3, <3>1 DEF PointersEnd, TokensEnd
  <2> QED BY <2>2, <2>3
<1>4. /\ PointersEnd(i) \in 0 .. g_pParamsArrayPool /\ TokensEnd(i) \in 0 .. g_pParamsPool
      /\ g_pParamsArrayPool \in Nat /\ g_pParamsPool \in Nat
  BY EndsBelow DEF IInv
<1>5. /\ \A q \in 0 .. PointersEnd(i) - 1 : params_pointers'[q] = params_pointers[q]
      /\ \A q \in 0 .. TokensEnd(i) - 1 : macros_params'[q] = macros_params[q]
  BY <1>4
<1> QED BY <1>2, <1>3, <1>5, KeptStays

\* An argument is never expanded within an argument.
LEMMA ParamPlace ==
  ASSUME IInv, Reads("param")
  PROVE  /\ Top.src = "text" /\ Holds(Top.src, Top.macro_ptr)
         /\ Top.macro_ptr \in 1 .. Len(text) /\ text[Top.macro_ptr].t = "param"
<1>1. Holds(Top.src, Top.macro_ptr) /\ Ahead.t = "param"
  BY DEF Reads
<1>2. Top.src = "text"
  BY <1>1, AheadFacts, TopFacts DEF IInv, Stored
<1> QED BY <1>1, <1>2, AheadFacts

LEMMA MacroParamArgs ==
  ASSUME IInv, KeptInv, MacroParam
  PROVE  KeptInv'
<1> DEFINE i == Ahead.n
           p == Top.params_array + i - 1
           n == Len(stack)
<1>1. /\ Top.src = "text" /\ Holds(Top.src, Top.macro_ptr) /\ Lexes
      /\ Top.macro_ptr \in 1 .. Len(text) /\ text[Top.macro_ptr].t = "param"
  BY ParamPlace DEF MacroParam
<1>2. CASE /\ TopLevel
           /\ stack' = Taken
           /\ mode' = "skip"
           /\ after' = mode
           /\ errors' = TRUE
           /\ UNCHANGED <<g_passNum, text, pools, symbols, files, label, call, status, history>>
  <2>1. UNCHANGED <<g_pParamsPool, g_pParamsArrayPool, macros_params, params_pointers, call>>
    BY <1>2 DEF pools
  <2>2. Calling' => Calling
    BY <1>2 DEF Calling
  <2> QED BY <1>1, <1>2, <2>1, <2>2, Moved
<1>3. CASE \E how \in {"aborted", "wild"} : Dies(how)
  BY <1>3, DiesSame
<1>4. CASE CannotPush
  BY <1>4, DiesSame DEF CannotPush
<1>5. CASE /\ ~TopLevel /\ i \in 1 .. Top.params_count /\ IsName(g_incStackDeepth) /\ CanPush
           /\ stack' = Stream(Taken, "pool", params_pointers[p], -1, 0, << >>, 0)
           /\ PushFile(inc_names[g_incStackDeepth])
           /\ UNCHANGED <<g_passNum, text, pools, symbols, g_CurrentFile, parser, errors, status, history>>
  <2> DEFINE f == [src |-> "pool", macro_ptr |-> params_pointers[p],
                   params_array |-> g_pParamsArrayPool, pParamsPool |-> g_pParamsPool,
                   params_count |-> -1, instancesNumber |-> 0,
                   given |-> << >>, id |-> 0]
  <2>1. UNCHANGED <<text, g_pParamsPool, g_pParamsArrayPool, macros_params, params_pointers, call, mode, after>>
    BY <1>5 DEF pools, parser
  <2>2. /\ n \in Nat \ {0} /\ Len(Taken) = n /\ Taken \in Seq(Frame)
        /\ Taken[n].macro_ptr = Top.macro_ptr + 1 /\ Taken[n].src = "text"
        /\ \A j \in 1 .. n : Taken[j].src = stack[j].src
        /\ Top = stack[n]
    BY <1>1, TakenFacts, TopFacts DEF IInv, Top
  <2>3. stack' = Append(Taken, f)
    BY <1>5 DEF Stream
  <2>4. /\ f.src = "pool" /\ f.params_array = g_pParamsArrayPool /\ f.pParamsPool = g_pParamsPool
        /\ f.given = << >>
    OBVIOUS
  <2> HIDE DEF f
  <2>5. Len(stack') = n + 1 /\ stack'[n + 1] = f /\ \A j \in 1 .. n : stack'[j] = Taken[j]
    BY <2>2, <2>3
  <2>6. ASSUME NEW j \in 1 .. n PROVE Kept(j)'
    BY <2>1, <2>4, <2>5, FramesPushed DEF KeptInv
  <2>7. ASSUME NEW j \in 1 .. Len(stack'), j = n + 1 PROVE Kept(j)'
    <3>1. stack'[j].given = << >> /\ stack'[j].params_array = g_pParamsArrayPool
      BY <2>4, <2>5, <2>7
    <3>2. PointersEnd(j)' = g_pParamsArrayPool
      BY <2>1, <2>5, <2>7 DEF PointersEnd
    <3>3. g_pParamsArrayPool \in Nat
      BY BoundAssumption DEF IInv, Streams
    <3> QED BY <3>1, <3>2, <3>3 DEF Kept
  <2>8. ASSUME NEW j \in 1 .. Len(stack') PROVE Kept(j)'
    <3>1. j \in 1 .. n \/ j = n + 1
      BY <2>2, <2>5
    <3> QED BY <2>6, <2>7, <3>1
  <2>9. Calling' => CallKept'
    BY <2>1 DEF KeptInv, CallKept, Copied, Calling
  <2>10. Places'
    <3>1. OwnLines'
      BY <2>1 DEF KeptInv, Places, OwnLines
    <3>2. \A j \in 1 .. n : stack'[j].src = "text"
      BY <1>1, <2>2, <2>5 DEF KeptInv, Places
    <3>3. Top' = f /\ Top'.src = "pool" /\ Len(stack') = n + 1 /\ Len(stack') - 1 = n
      BY <2>2, <2>4, <2>5 DEF Top
    <3>4. stack'[n].macro_ptr \in 2 .. Len(text) + 1 /\ text[stack'[n].macro_ptr - 1].t = "param"
      BY <1>1, <2>2, <2>5
    <3>5. mode # "skip"
      BY <1>1 DEF Lexes
    <3> HIDE DEF n
    <3> QED BY <2>1, <2>2, <2>4, <3>1, <3>2, <3>3, <3>4, <3>5 DEF Places, Behind
  <2> QED BY <2>8, <2>9, <2>10 DEF KeptInv
<1> QED BY <1>2, <1>3, <1>4, <1>5 DEF MacroParam

----------------------------------------------------------------------------
(* Replay_Macro.                                                           *)

\* Where the arguments of the call are.
LEMMA CallParts ==
  ASSUME IInv, Calling, CallKept, NEW k \in 1 .. Len(call.given)
  PROVE  /\ call.given[k] \in Seq(Token) /\ Len(call.given[k]) \in Nat
         /\ g_pParamsArrayPool + k - 1 \in g_pParamsArrayPool .. call.pParamArray - 1
         /\ g_pParamsArrayPool + k - 1 \in 0 .. Pointers - 1
         /\ params_pointers[g_pParamsArrayPool + k - 1] \in Nat
         /\ params_pointers[g_pParamsArrayPool + k - 1] + Len(call.given[k]) <= call.pStoreParam
         /\ \A j \in 1 .. Len(call.given[k]) :
              params_pointers[g_pParamsArrayPool + k - 1] + j - 1 \in 0 .. call.pStoreParam - 1
<1> DEFINE n == Len(call.given)
           q == g_pParamsArrayPool + k - 1
           arg == call.given[k]
           start == params_pointers[q]
<1>1. /\ call.given \in Seq(Seq(Token)) /\ n \in Nat /\ g_pParamsArrayPool \in Nat
      /\ call.pParamArray \in Nat /\ call.pStoreParam \in Nat /\ call.pParamArray <= Pointers
  BY CallFacts
<1>2. arg \in Seq(Token) /\ Len(arg) \in Nat
  BY <1>1
<1>3. call.pParamArray = g_pParamsArrayPool + n
  BY DEF CallKept
<1>4. q \in g_pParamsArrayPool .. call.pParamArray - 1 /\ q \in 0 .. Pointers - 1
  <2> HIDE DEF n
  <2>1. k \in 1 .. n
    BY DEF n
  <2> QED BY <1>1, <1>3, <2>1, BoundAssumption
<1>5. start \in 0 .. Tokens
  BY <1>4 DEF IInv, Sources
<1>6. start + Len(arg) <= call.pStoreParam
  <2>1. CASE k < n
    BY <1>1, <1>2, <1>5, <2>1, BoundAssumption DEF CallKept
  <2>2. CASE k = n
    <3>1. start + Len(arg) = call.pStoreParam
      BY <2>2 DEF CallKept
    <3> HIDE DEF start, arg
    <3> QED BY <1>1, <3>1
  <2> HIDE DEF n, start, arg
  <2>3. k \in 1 .. n
    BY DEF n
  <2> QED BY <1>1, <2>1, <2>2, <2>3
<1> HIDE DEF q, start, arg, n
<1>7. start \in Nat
  BY <1>5, BoundAssumption
<1>8. \A j \in 1 .. Len(arg) : start + j - 1 \in 0 .. call.pStoreParam - 1
  BY <1>1, <1>2, <1>6, <1>7
<1> QED BY <1>2, <1>4, <1>6, <1>7, <1>8 DEF q, start, arg

LEMMA MacroCallArgs ==
  ASSUME IInv, KeptInv, MacroCall
  PROVE  KeptInv'
<1> DEFINE name == Ahead.name
           P == g_pParamsArrayPool
<1>1. Holds(Top.src, Top.macro_ptr) /\ mode = "line" /\ Ahead.t = "call"
  BY DEF MacroCall, Parses, Reads
<1>2. P \in 0 .. Pointers - 1 /\ P \in Nat /\ g_pParamsPool \in Nat
  BY BoundAssumption DEF IInv, Streams
<1>3. CASE /\ mode' = "skip"
           /\ after' = "line"
           /\ stack' = Taken
           /\ UNCHANGED <<text, pools, call>>
  BY <1>1, <1>3, Moved DEF pools, Calling
<1>4. CASE /\ params_pointers' = [params_pointers EXCEPT ![P] = g_pParamsPool]
           /\ call' = [name |-> name, pParamArray |-> P + 1, pStoreParam |-> g_pParamsPool,
                       pFirst |-> g_pParamsPool, params_count |-> 0, commas |-> 0, given |-> << << >> >>]
           /\ mode' = "args"
           /\ stack' = Taken
           /\ UNCHANGED <<text, g_pParamsPool, g_pParamsArrayPool, macros_params, after>>
  <2>1. Places'
    BY <1>1, <1>4, PlacesMoved DEF KeptInv
  <2>2. params_pointers'[P] = g_pParamsPool /\ \A q \in 0 .. P - 1 : params_pointers'[q] = params_pointers[q]
    BY <1>2, <1>4 DEF IInv, Sources
  <2>3. \A i \in 1 .. Len(stack') : Kept(i)'
    BY <1>4, <2>2, FramesStay DEF KeptInv
  <2>4. CallKept'
    <3>1. /\ call'.given = << << >> >> /\ call'.pParamArray = P + 1 /\ call'.pStoreParam = g_pParamsPool
          /\ g_pParamsArrayPool' = P /\ macros_params' = macros_params
      BY <1>4
    <3>2. Len(<< << >> >>) = 1 /\ << << >> >>[1] = << >> /\ Len(<< >>) = 0
      OBVIOUS
    <3>3. P + 1 - 1 = P /\ g_pParamsPool + 0 = g_pParamsPool
      BY <1>2
    <3> HIDE DEF P
    <3> QED BY <2>2, <3>1, <3>2, <3>3 DEF CallKept, Copied
  <2> QED BY <2>1, <2>3, <2>4 DEF KeptInv
<1>5. CASE g_pParamsArrayPool >= Pointers
  BY <1>2, <1>5, BoundAssumption
<1> QED BY <1>3, <1>4, <1>5 DEF MacroCall, symbols, files, history

\* The part of the pools below the call is not stored to.
LEMMA BelowCall ==
  ASSUME IInv, Calling
  PROVE  /\ \A q \in 0 .. g_pParamsPool - 1 : q # call.pStoreParam
         /\ \A q \in 0 .. g_pParamsArrayPool - 1 : q # call.pParamArray
<1>1. /\ g_pParamsPool \in Nat /\ g_pParamsArrayPool \in Nat /\ call.pStoreParam \in Nat /\ call.pParamArray \in Nat
      /\ g_pParamsPool <= call.pStoreParam /\ call.params_count \in Nat
      /\ g_pParamsArrayPool + call.params_count + 1 <= call.pParamArray
  BY CallFacts
<1> QED BY <1>1

LEMMA StoreArgumentArgs ==
  ASSUME IInv, KeptInv, StoreArgument
  PROVE  KeptInv'
<1> DEFINE tok == Decorated(Ahead)
           n == Len(call.given)
           S == call.pStoreParam
           P == g_pParamsArrayPool
<1>1. /\ Holds(Top.src, Top.macro_ptr) /\ mode = "args" /\ ~Full
      /\ Ahead.t \in {"sym", "sym2", "string", "call", "macro"} /\ Calling
  BY DEF StoreArgument, Reads, Calling
<1>2. InPool /\ S \in 0 .. Tokens - 1
  BY <1>1, RoomFacts
<1>3. /\ Put(tok) /\ stack' = Taken /\ text' = Rewritten
      /\ call' = [call EXCEPT !.pStoreParam = @ + 1, !.given = Given(tok)]
      /\ UNCHANGED <<g_pParamsPool, g_pParamsArrayPool, params_pointers, mode, after>>
  BY <1>2 DEF StoreArgument
<1>4. tok \in Token /\ Written(tok) /\ tok.t \in Stored
  BY <1>1, AheadFacts, DecoratedFacts DEF Stored
<1> HIDE DEF tok
<1>5. \A q \in 0 .. Tokens - 1 : macros_params'[q] = IF q = S THEN tok ELSE macros_params[q]
  BY <1>2, <1>3, <1>4, PutTypes
<1>6. /\ call \in Call /\ call.given \in Seq(Seq(Token)) /\ n \in Nat \ {0} /\ n \in 1 .. n /\ S \in Nat
      /\ g_pParamsPool \in Nat /\ P \in Nat /\ g_pParamsPool <= S /\ S <= Tokens
  BY <1>1, CallFacts
<1>7. Places'
  BY <1>1, <1>3, PlacesMoved DEF KeptInv
<1>8. \A i \in 1 .. Len(stack') : Kept(i)'
  <2>1. \A q \in 0 .. g_pParamsPool - 1 : macros_params'[q] = macros_params[q]
    <3> TAKE q \in 0 .. g_pParamsPool - 1
    <3>1. q # S
      BY <1>1, BelowCall
    <3> HIDE DEF S
    <3>2. q \in 0 .. Tokens - 1
      BY <1>6, BoundAssumption
    <3> QED BY <1>5, <3>1, <3>2
  <2> QED BY <1>3, <2>1, FramesStay DEF KeptInv
<1>9. CallKept'
  <2> DEFINE last == Append(call.given[n], tok)
             g == Given(tok)
  <2>1. /\ call'.given = g /\ call'.pStoreParam = S + 1 /\ call'.pParamArray = call.pParamArray
    BY <1>3, <1>6 DEF Call
  <2>2. call.given[n] \in Seq(Token) /\ last \in Seq(Token) /\ Len(last) = Len(call.given[n]) + 1
        /\ (\A j \in 1 .. Len(call.given[n]) : last[j] = call.given[n][j])
        /\ last[Len(call.given[n]) + 1] = tok
    <3>1. call.given[n] \in Seq(Token)
      BY <1>6
    <3> DEFINE z == call.given[n]
    <3> HIDE DEF z
    <3>2. /\ Append(z, tok) \in Seq(Token) /\ Len(Append(z, tok)) = Len(z) + 1
          /\ (\A j \in 1 .. Len(z) : Append(z, tok)[j] = z[j])
          /\ Append(z, tok)[Len(z) + 1] = tok
      BY <1>4, <3>1, AppendProperties DEF z
    <3> QED BY <3>1, <3>2 DEF z
  <2>3. Len(g) = n /\ \A k \in 1 .. n : g[k] = IF k = n THEN last ELSE call.given[k]
    BY <1>6, <2>2, ExceptSeq DEF Given
  <2>4. call.pParamArray = P + n
    BY <1>1 DEF KeptInv, CallKept
  <2> HIDE DEF g, last
  <2>5. ASSUME NEW k \in 1 .. n
        PROVE  LET arg   == g[k]
                   start == params_pointers[P + k - 1]
               IN  /\ \A j \in 1 .. Len(arg) : macros_params'[start + j - 1] = arg[j]
                   /\ k < n => start + Len(arg) < S + 1 /\ macros_params'[start + Len(arg)] = Tok("endm")
                   /\ k = n => start + Len(arg) = S + 1
    <3> DEFINE arg   == call.given[k]
               start == params_pointers[P + k - 1]
    <3>1. /\ arg \in Seq(Token) /\ Len(arg) \in Nat /\ start \in Nat /\ start + Len(arg) <= S
          /\ \A j \in 1 .. Len(arg) : start + j - 1 \in 0 .. S - 1
      BY <1>1, CallParts DEF KeptInv
    <3>2. /\ Copied(arg, start)
          /\ k < n => start + Len(arg) < S /\ macros_params[start + Len(arg)] = Tok("endm")
          /\ k = n => start + Len(arg) = S
      BY <1>1 DEF KeptInv, CallKept
    <3> HIDE DEF n, S, P, arg, start
    <3>3. \A j \in 1 .. Len(arg) : macros_params'[start + j - 1] = arg[j]
      <4> TAKE j \in 1 .. Len(arg)
      <4>1. start + j - 1 \in 0 .. Tokens - 1 /\ start + j - 1 # S
        BY <1>6, <3>1, BoundAssumption
      <4>2. macros_params[start + j - 1] = arg[j]
        BY <3>2 DEF Copied
      <4> QED BY <1>5, <4>1, <4>2
    <3>4. CASE k < n
      <4>1. g[k] = arg
        BY <1>6, <2>3, <3>4 DEF arg
      <4>2. start + Len(arg) \in 0 .. Tokens - 1 /\ start + Len(arg) # S /\ start + Len(arg) < S + 1
        BY <1>6, <3>1, <3>2, <3>4, BoundAssumption
      <4>3. macros_params'[start + Len(arg)] = Tok("endm")
        BY <1>5, <3>2, <3>4, <4>2
      <4>4. k # n
        BY <1>6, <3>4
      <4> QED BY <3>3, <4>1, <4>2, <4>3, <4>4 DEF start
    <3>5. CASE k = n
      <4>1. g[k] = last /\ arg = call.given[n]
        BY <2>3, <3>5 DEF arg
      <4>2. Len(last) = Len(arg) + 1 /\ start + Len(arg) = S
        BY <2>2, <3>2, <3>5, <4>1
      <4>3. ASSUME NEW j \in 1 .. Len(last) PROVE macros_params'[start + j - 1] = last[j]
        <5>1. CASE j = Len(arg) + 1
          <6>1. start + j - 1 = S /\ last[j] = tok
            BY <2>2, <3>1, <4>1, <4>2, <5>1
          <6> QED BY <1>2, <1>5, <6>1 DEF S
        <5>2. CASE j \in 1 .. Len(arg)
          BY <2>2, <3>3, <4>1, <5>2
        <5> QED BY <3>1, <4>2, <5>1, <5>2
      <4>4. start + Len(last) = S + 1 /\ ~(k < n)
        <5>1. ~(k < n)
          BY <1>6, <3>5
        <5>2. start + Len(last) = S + 1
          <6>1. start \in Nat /\ Len(arg) \in Nat
            BY <3>1
          <6>2. start + (Len(arg) + 1) = (start + Len(arg)) + 1
            BY <6>1
          <6> QED BY <4>2, <6>2
        <5> QED BY <5>1, <5>2
      <4> QED BY <4>1, <4>3, <4>4 DEF start
    <3> QED BY <1>6, <3>4, <3>5
  <2>6. params_pointers' = params_pointers /\ g_pParamsArrayPool' = P
    BY <1>3
  <2> HIDE DEF n, S, P
  <2> QED BY <2>1, <2>3, <2>4, <2>5, <2>6 DEF CallKept, Copied
<1> QED BY <1>7, <1>8, <1>9 DEF KeptInv

LEMMA NextArgumentArgs ==
  ASSUME IInv, KeptInv, NextArgument
  PROVE  KeptInv'
<1> DEFINE n == Len(call.given)
           S == call.pStoreParam
           P == g_pParamsArrayPool
           g == Append(call.given, << >>)
<1>1. Holds(Top.src, Top.macro_ptr) /\ mode = "args" /\ ~Full /\ Ahead.t = "comma" /\ Calling
  BY DEF NextArgument, Reads, Calling
<1>2. InPool /\ InArray /\ S \in 0 .. Tokens - 1 /\ call.pParamArray \in 0 .. Pointers - 1
  BY <1>1, RoomFacts
<1>3. /\ Put(Tok("endm"))
      /\ params_pointers' = [params_pointers EXCEPT ![call.pParamArray] = S + 1]
      /\ call' = [call EXCEPT !.pStoreParam = @ + 1,
                              !.pParamArray = @ + 1,
                              !.params_count = IF Void THEN @ ELSE @ + 1,
                              !.commas = IF Void THEN @ ELSE @ + 1,
                              !.given = g]
      /\ stack' = Taken
      /\ UNCHANGED <<text, g_pParamsPool, g_pParamsArrayPool, mode, after>>
  BY <1>2 DEF NextArgument
<1>4. /\ call \in Call /\ call.given \in Seq(Seq(Token)) /\ n \in Nat \ {0} /\ S \in Nat
      /\ g_pParamsPool \in Nat /\ P \in Nat /\ g_pParamsPool <= S /\ S <= Tokens
      /\ call.pParamArray \in Nat
  BY <1>1, CallFacts
<1>5. \A q \in 0 .. Tokens - 1 : macros_params'[q] = IF q = S THEN Tok("endm") ELSE macros_params[q]
  <2>1. Tok("endm") \in Token /\ Written(Tok("endm")) /\ Tok("endm").t \in Stored
    BY TokTypes DEF Stored
  <2> QED BY <1>2, <1>3, <2>1, PutTypes
<1>6. \A q \in 0 .. Pointers - 1 : params_pointers'[q] = IF q = call.pParamArray THEN S + 1 ELSE params_pointers[q]
  BY <1>2, <1>3 DEF IInv, Sources
<1>7. Places'
  BY <1>1, <1>3, PlacesMoved DEF KeptInv
<1>8. \A i \in 1 .. Len(stack') : Kept(i)'
  <2>1. ASSUME NEW q \in 0 .. g_pParamsPool - 1 PROVE macros_params'[q] = macros_params[q]
    <3>1. q # S
      BY <1>1, BelowCall
    <3> HIDE DEF S
    <3>2. q \in 0 .. Tokens - 1
      BY <1>4, BoundAssumption
    <3> QED BY <1>5, <3>1, <3>2
  <2>2. ASSUME NEW q \in 0 .. g_pParamsArrayPool - 1 PROVE params_pointers'[q] = params_pointers[q]
    <3>1. q # call.pParamArray
      BY <1>1, BelowCall
    <3>2. q \in 0 .. Pointers - 1
      BY BoundAssumption DEF IInv, Streams
    <3> QED BY <1>6, <3>1, <3>2
  <2> QED BY <1>3, <2>1, <2>2, FramesStay DEF KeptInv
<1>9. CallKept'
  <2>1. call'.given = g /\ call'.pStoreParam = S + 1 /\ call'.pParamArray = call.pParamArray + 1
    BY <1>3, <1>4 DEF Call
  <2>2. call.pParamArray = P + n
    BY <1>1 DEF KeptInv, CallKept
  <2>3. Len(g) = n + 1 /\ (\A k \in 1 .. n : g[k] = call.given[k]) /\ g[n + 1] = << >>
    BY <1>4
  <2> HIDE DEF g
  <2>4. ASSUME NEW k \in 1 .. n
        PROVE  LET arg   == g[k]
                   start == params_pointers'[P + k - 1]
               IN  /\ \A j \in 1 .. Len(arg) : macros_params'[start + j - 1] = arg[j]
                   /\ start + Len(arg) < S + 1 /\ macros_params'[start + Len(arg)] = Tok("endm")
    <3> DEFINE arg   == call.given[k]
               start == params_pointers[P + k - 1]
    <3>1. /\ arg \in Seq(Token) /\ Len(arg) \in Nat /\ start \in Nat /\ start + Len(arg) <= S
          /\ \A j \in 1 .. Len(arg) : start + j - 1 \in 0 .. S - 1
          /\ P + k - 1 \in P .. call.pParamArray - 1 /\ P + k - 1 \in 0 .. Pointers - 1
      BY <1>1, CallParts DEF KeptInv
    <3>2. /\ Copied(arg, start)
          /\ k < n => start + Len(arg) < S /\ macros_params[start + Len(arg)] = Tok("endm")
          /\ k = n => start + Len(arg) = S
      BY <1>1 DEF KeptInv, CallKept
    <3> HIDE DEF n, S, P, arg, start
    <3>3. params_pointers'[P + k - 1] = start /\ g[k] = arg
      <4>1. P + k - 1 # call.pParamArray
        BY <1>4, <3>1
      <4> QED BY <1>6, <2>3, <3>1, <4>1 DEF start, arg
    <3>4. \A j \in 1 .. Len(arg) : macros_params'[start + j - 1] = arg[j]
      <4> TAKE j \in 1 .. Len(arg)
      <4>1. start + j - 1 \in 0 .. Tokens - 1 /\ start + j - 1 # S
        BY <1>4, <3>1, BoundAssumption
      <4>2. macros_params[start + j - 1] = arg[j]
        BY <3>2 DEF Copied
      <4> QED BY <1>5, <4>1, <4>2
    <3>5. start + Len(arg) < S + 1 /\ start + Len(arg) \in Nat
      BY <1>4, <3>1
    <3>6. macros_params'[start + Len(arg)] = Tok("endm")
      <4>1. CASE k < n
        <5>1. start + Len(arg) \in 0 .. Tokens - 1 /\ start + Len(arg) # S
          BY <1>4, <3>1, <3>2, <4>1, BoundAssumption
        <5> QED BY <1>5, <3>2, <4>1, <5>1
      <4>2. CASE k = n
        BY <1>2, <1>5, <3>2, <4>2 DEF S
      <4> QED BY <1>4, <4>1, <4>2
    <3> QED BY <3>3, <3>4, <3>5, <3>6
  <2>5. params_pointers'[P + (n + 1) - 1] = S + 1
    <3>1. P + (n + 1) - 1 = call.pParamArray
      BY <1>4, <2>2
    <3> QED BY <1>2, <1>6, <3>1
  <2>6. g_pParamsArrayPool' = P
    BY <1>3
  <2> HIDE DEF n, S, P
  <2>7. ASSUME NEW k \in 1 .. n + 1
        PROVE  LET arg   == g[k]
                   start == params_pointers'[P + k - 1]
               IN  /\ \A j \in 1 .. Len(arg) : macros_params'[start + j - 1] = arg[j]
                   /\ k < n + 1 => start + Len(arg) < S + 1 /\ macros_params'[start + Len(arg)] = Tok("endm")
                   /\ k = n + 1 => start + Len(arg) = S + 1
    <3>1. CASE k \in 1 .. n
      <4>1. k # n + 1
        BY <1>4, <3>1
      <4> QED BY <2>4, <3>1, <4>1
    <3>2. CASE k = n + 1
      <4>1. Len(g[k]) = 0 /\ params_pointers'[P + k - 1] = S + 1
        BY <2>3, <2>5, <3>2
      <4>2. ~(k < n + 1) /\ (S + 1) + 0 = S + 1
        BY <1>4, <3>2
      <4> QED BY <4>1, <4>2
    <3> QED BY <1>4, <3>1, <3>2
  <2>8. call.pParamArray + 1 = P + (n + 1)
    BY <1>4, <2>2
  <2> QED BY <2>1, <2>3, <2>6, <2>7, <2>8 DEF CallKept, Copied
<1> QED BY <1>7, <1>8, <1>9 DEF KeptInv

\* The end of a line is never in an argument.
LEMMA LineEndPlace ==
  ASSUME IInv, LineEnds
  PROVE  Top.src = "text" /\ Holds(Top.src, Top.macro_ptr)
<1>1. CASE Reads("eol")
  BY <1>1, AheadFacts, TopFacts DEF IInv, Reads, Stored
<1>2. CASE TopLevel /\ Reads("end")
  BY <1>2, TopFacts DEF IInv, Reads
<1> QED BY <1>1, <1>2 DEF LineEnds

LEMMA ReplayMacroArgs ==
  ASSUME IInv, KeptInv, ReplayMacro
  PROVE  KeptInv'
<1> DEFINE count == IF Void /\ call.commas > 0 THEN call.params_count ELSE call.params_count + 1
           macro == macros[call.name]
           n == Len(stack)
           m == Len(call.given)
           S == call.pStoreParam
           P == g_pParamsArrayPool
           f == [src |-> "text", macro_ptr |-> macro.ptr,
                 params_array |-> g_pParamsArrayPool, pParamsPool |-> g_pParamsPool,
                 params_count |-> count, instancesNumber |-> Instance,
                 given |-> call.given, id |-> made.calls + 1]
<1>1. Top.src = "text" /\ Holds(Top.src, Top.macro_ptr) /\ mode = "args" /\ ~Full /\ Calling
  BY LineEndPlace DEF ReplayMacro, Calling
<1>2. InPool /\ S \in 0 .. Tokens - 1
  BY <1>1, RoomFacts
<1>3. CASE CannotPush
  BY <1>3, DiesSame DEF CannotPush
<1>4. CASE /\ Put(Tok("endm"))
           /\ stack' = Stream(Taken, "text", macro.ptr, count, Instance, call.given, made.calls + 1)
           /\ g_pParamsPool' = Used
           /\ g_pParamsArrayPool' = call.pParamArray
           /\ mode' = "line"
           /\ UNCHANGED <<text, params_pointers, after, call>>
  <2>1. /\ call.given \in Seq(Seq(Token)) /\ m \in Nat \ {0} /\ S \in Nat
        /\ g_pParamsPool \in Nat /\ P \in Nat /\ g_pParamsPool <= S /\ S <= Tokens
    BY <1>1, CallFacts
  <2>2. \A q \in 0 .. Tokens - 1 : macros_params'[q] = IF q = S THEN Tok("endm") ELSE macros_params[q]
    <3>1. Tok("endm") \in Token /\ Written(Tok("endm")) /\ Tok("endm").t \in Stored
      BY TokTypes DEF Stored
    <3> QED BY <1>2, <1>4, <3>1, PutTypes
  <2>3. /\ n \in Nat \ {0} /\ Len(Taken) = n /\ Taken \in Seq(Frame)
        /\ \A j \in 1 .. n : Taken[j].src = stack[j].src
        /\ Top = stack[n]
    BY TakenFacts, TopFacts DEF IInv, Top
  <2>4. stack' = Append(Taken, f)
    BY <1>4 DEF Stream
  <2>5. /\ f.src = "text" /\ f.params_array = P /\ f.pParamsPool = g_pParamsPool
        /\ f.given = call.given
    OBVIOUS
  <2> HIDE DEF f
  <2>6. Len(stack') = n + 1 /\ stack'[n + 1] = f /\ \A j \in 1 .. n : stack'[j] = Taken[j]
    BY <2>3, <2>4
  <2>7. ASSUME NEW j \in 1 .. n PROVE Kept(j)'
    <3>1. ASSUME NEW q \in 0 .. g_pParamsPool - 1 PROVE macros_params'[q] = macros_params[q]
      <4>1. q # S
        BY <1>1, BelowCall
      <4> HIDE DEF S
      <4>2. q \in 0 .. Tokens - 1
        BY <2>1, BoundAssumption
      <4> QED BY <2>2, <4>1, <4>2
    <3>2. \A q \in 0 .. g_pParamsArrayPool - 1 : params_pointers'[q] = params_pointers[q]
      BY <1>4
    <3> QED BY <2>5, <2>6, <3>1, <3>2, FramesPushed DEF KeptInv
  <2>8. ASSUME NEW k \in 1 .. m
        PROVE  LET arg   == call.given[k]
                   start == params_pointers[P + k - 1]
               IN  /\ start + Len(arg) < S + 1
                   /\ \A j \in 1 .. Len(arg) : macros_params'[start + j - 1] = arg[j]
                   /\ macros_params'[start + Len(arg)] = Tok("endm")
    <3> DEFINE arg   == call.given[k]
               start == params_pointers[P + k - 1]
    <3>1. /\ arg \in Seq(Token) /\ Len(arg) \in Nat /\ start \in Nat /\ start + Len(arg) <= S
          /\ \A j \in 1 .. Len(arg) : start + j - 1 \in 0 .. S - 1
      BY <1>1, CallParts DEF KeptInv
    <3>2. /\ Copied(arg, start)
          /\ k < m => start + Len(arg) < S /\ macros_params[start + Len(arg)] = Tok("endm")
          /\ k = m => start + Len(arg) = S
      BY <1>1 DEF KeptInv, CallKept
    <3> HIDE DEF m, S, P, arg, start
    <3>3. \A j \in 1 .. Len(arg) : macros_params'[start + j - 1] = arg[j]
      <4> TAKE j \in 1 .. Len(arg)
      <4>1. start + j - 1 \in 0 .. Tokens - 1 /\ start + j - 1 # S
        BY <2>1, <3>1, BoundAssumption
      <4>2. macros_params[start + j - 1] = arg[j]
        BY <3>2 DEF Copied
      <4> QED BY <2>2, <4>1, <4>2
    <3>4. start + Len(arg) < S + 1 /\ start + Len(arg) \in Nat
      BY <2>1, <3>1
    <3>5. macros_params'[start + Len(arg)] = Tok("endm")
      <4>1. CASE k < m
        <5>1. start + Len(arg) \in 0 .. Tokens - 1 /\ start + Len(arg) # S
          BY <2>1, <3>1, <3>2, <4>1, BoundAssumption
        <5> QED BY <2>2, <3>2, <4>1, <5>1
      <4>2. CASE k = m
        BY <1>2, <2>2, <3>2, <4>2 DEF S
      <4> QED BY <2>1, <4>1, <4>2
    <3> QED BY <3>3, <3>4, <3>5 DEF start, arg
  <2>9. ASSUME NEW j \in 1 .. Len(stack'), j = n + 1 PROVE Kept(j)'
    <3>1. stack'[j].given = call.given /\ stack'[j].params_array = P
      BY <2>5, <2>6, <2>9
    <3>2. PointersEnd(j)' = call.pParamArray /\ TokensEnd(j)' = S + 1
      BY <1>4, <2>6, <2>9 DEF PointersEnd, TokensEnd, Used
    <3>3. call.pParamArray = P + m
      BY <1>1 DEF KeptInv, CallKept
    <3>4. params_pointers' = params_pointers /\ P + m <= P + m
      BY <1>4, <2>1
    <3> HIDE DEF n, S, P
    <3> QED BY <2>8, <3>1, <3>2, <3>3, <3>4 DEF Kept, Copied
  <2>10. ASSUME NEW j \in 1 .. Len(stack') PROVE Kept(j)'
    <3>1. j \in 1 .. n \/ j = n + 1
      BY <2>3, <2>6
    <3> QED BY <2>7, <2>9, <3>1
  <2>11. ~Calling'
    BY <1>4 DEF Calling
  <2>12. Places'
    <3>1. OwnLines'
      BY <1>4 DEF KeptInv, Places, OwnLines
    <3>2. \A j \in 1 .. n : stack'[j].src = "text"
      BY <1>1, <2>3, <2>6 DEF KeptInv, Places
    <3>3. Top' = f /\ Top'.src = "text" /\ Len(stack') = n + 1 /\ Len(stack') - 1 = n
      BY <2>3, <2>5, <2>6 DEF Top
    <3> HIDE DEF n
    <3> QED BY <1>4, <3>1, <3>2, <3>3 DEF Places
  <2> QED BY <2>10, <2>11, <2>12 DEF KeptInv
<1> QED BY <1>2, <1>3, <1>4 DEF ReplayMacro

LEMMA EndOfPassArgs ==
  ASSUME IInv, KeptInv, EndOfPass
  PROVE  KeptInv'
<1>1. CASE g_passNum = 0 /\ ~errors
  <2>1. /\ stack' = <<MainStream>> /\ g_pParamsPool' = 0 /\ g_pParamsArrayPool' = 0
        /\ UNCHANGED <<text, mode, after, call>> /\ mode = "line"
    BY <1>1 DEF EndOfPass, Parses
  <2>2. /\ Len(stack') = 1 /\ stack'[1].src = "text" /\ stack'[1].given = << >> /\ stack'[1].params_array = 0
        /\ Top' = stack'[1]
    BY <2>1 DEF MainStream, Top
  <2>3. ASSUME NEW i \in 1 .. Len(stack') PROVE Kept(i)'
    <3>1. i = 1
      BY <2>2
    <3>2. PointersEnd(i)' = 0
      BY <2>1, <2>2, <3>1 DEF PointersEnd
    <3> QED BY <2>2, <3>1, <3>2 DEF Kept
  <2>4. ~Calling'
    BY <2>1 DEF Calling
  <2>5. Places'
    BY <2>1, <2>2 DEF KeptInv, Places, OwnLines
  <2> QED BY <2>3, <2>4, <2>5 DEF KeptInv
<1>2. CASE ~(g_passNum = 0 /\ ~errors)
  <2>1. UNCHANGED <<text, stack, g_pParamsPool, g_pParamsArrayPool, macros_params, params_pointers, call, mode, after>>
    BY <1>2 DEF EndOfPass, pools, parser
  <2> QED BY <2>1, KeptSame
<1> QED BY <1>1, <1>2

----------------------------------------------------------------------------
(* The other steps, and the theorem of the arguments.                      *)

\* Steps of yylex that only move the stream.
LEMMA FileArgs ==
  ASSUME IInv, KeptInv, EnterFile \/ LeaveFile
  PROVE  KeptInv'
<1>1. /\ Holds(Top.src, Top.macro_ptr) /\ Lexes /\ Ahead.t # "eol"
  BY DEF EnterFile, LeaveFile, Reads
<1>2. CASE \E how \in {"wild"} : Dies(how)
  BY <1>2, DiesSame
<1>3. CASE stack' = Taken /\ UNCHANGED <<text, pools, mode, after, call>>
  <2>1. UNCHANGED <<g_pParamsPool, g_pParamsArrayPool, macros_params, params_pointers>>
    BY <1>3 DEF pools
  <2>2. mode # "skip"
    BY <1>1 DEF Lexes
  <2> QED BY <1>1, <1>3, <2>1, <2>2, Moved DEF Calling
<1>4. CASE EnterFile
  BY <1>2, <1>3, <1>4 DEF EnterFile, parser
<1>5. CASE LeaveFile
  BY <1>2, <1>3, <1>5 DEF LeaveFile, parser
<1> QED BY <1>4, <1>5

\* Steps of the grammar: Replay_Macro does not run.
LEMMA GrammarArgs ==
  ASSUME IInv, KeptInv,
         AddLabel \/ GetSym \/ InsertString \/ Separator \/ MacroDirective \/ MacroError \/ SyntaxError \/ Discard
  PROVE  KeptInv'
<1>1. /\ Holds(Top.src, Top.macro_ptr) /\ stack' = Taken /\ text' \in {text, Rewritten}
      /\ UNCHANGED <<pools, call>> /\ mode' \in {"line", "macro", "error", "skipmacro"}
  <2>1. CASE AddLabel
    BY <2>1 DEF AddLabel, Parses, Reads
  <2>2. CASE GetSym
    BY <2>2 DEF GetSym, Parses, Reads, parser
  <2>8. CASE InsertString
    BY <2>8 DEF InsertString, Parses, Reads, parser
  <2>3. CASE Separator
    BY <2>3 DEF Separator, Parses, Reads
  <2>4. CASE MacroDirective
    BY <2>4 DEF MacroDirective, Parses, Reads
  <2>5. CASE MacroError
    BY <2>5 DEF MacroError, LineEnds, Reads
  <2>6. CASE SyntaxError
    BY <2>6 DEF SyntaxError, InLine, Reads
  <2>7. CASE Discard
    BY <2>7 DEF Discard, LineEnds, InLine, Reads
  <2> QED BY <2>1, <2>2, <2>3, <2>4, <2>5, <2>6, <2>7, <2>8
<1>2. UNCHANGED <<g_pParamsPool, g_pParamsArrayPool, macros_params, params_pointers, call>>
  BY <1>1 DEF pools
<1> QED BY <1>1, <1>2, Moved DEF Calling

LEMMA MacroRecordArgs ==
  ASSUME IInv, KeptInv, MacroRecord
  PROVE  KeptInv'
<1>1. Holds(Top.src, Top.macro_ptr)
  BY DEF MacroRecord, LineEnds, Reads
<1>2. CASE \E how \in {"crashed", "wild"} : Dies(how)
  BY <1>2, DiesSame
<1>3. CASE stack' = Taken /\ mode' = "skipmacro" /\ UNCHANGED <<text, pools, call>>
  <2>1. UNCHANGED <<g_pParamsPool, g_pParamsArrayPool, macros_params, params_pointers>>
    BY <1>3 DEF pools
  <2> QED BY <1>1, <1>3, <2>1, Moved DEF Calling
<1> QED BY <1>2, <1>3 DEF MacroRecord

\* Skip_line returns to Replay_Macro in the source only.
LEMMA SkipArgs ==
  ASSUME IInv, KeptInv, SkipLine \/ SkipMacro
  PROVE  KeptInv'
<1>1. Holds(Top.src, Top.macro_ptr)
  BY DEF SkipLine, SkipMacro, Reads
<1>2. CASE SkipLine
  <2>1. /\ stack' = Taken /\ UNCHANGED <<text, pools, call, after>> /\ mode = "skip"
        /\ mode' \in {mode, after}
    BY <1>2 DEF SkipLine
  <2>2. UNCHANGED <<g_pParamsPool, g_pParamsArrayPool, macros_params, params_pointers>>
    BY <2>1 DEF pools
  <2>3. after # "skip"
    BY DEF IInv, Rest
  <2>4. Calling' => Calling
    BY <2>1, <2>3 DEF Calling
  <2>5. mode' = "args" => TopLevel
    BY <2>1, <2>3 DEF KeptInv, Places
  <2>6. mode' = "skip" /\ after' = "args" => TopLevel
    BY <2>1 DEF KeptInv, Places
  <2> QED BY <1>1, <2>1, <2>2, <2>4, <2>5, <2>6, Moved
<1>3. CASE SkipMacro /\ Ahead.t = "end"
  BY <1>3, DiesSame DEF SkipMacro
<1>4. CASE SkipMacro /\ Ahead.t # "end"
  <2>1. stack' = Taken /\ UNCHANGED <<text, pools, call, after>> /\ mode' \in {"line", "skipmacro"}
    BY <1>4 DEF SkipMacro
  <2>2. UNCHANGED <<g_pParamsPool, g_pParamsArrayPool, macros_params, params_pointers>>
    BY <2>1 DEF pools
  <2> QED BY <1>1, <2>1, <2>2, Moved DEF Calling
<1> QED BY <1>2, <1>3, <1>4

LEMMA InitArgs == Init /\ OwnLines => KeptInv
<1> SUFFICES ASSUME Init, OwnLines PROVE KeptInv
  OBVIOUS
<1>1. /\ stack = <<MainStream>> /\ g_pParamsPool = 0 /\ g_pParamsArrayPool = 0 /\ mode = "line"
      /\ Len(stack) = 1 /\ stack[1].src = "text" /\ stack[1].given = << >> /\ stack[1].params_array = 0
      /\ Top = stack[1]
  BY DEF Init, MainStream, Top
<1>2. ASSUME NEW i \in 1 .. Len(stack) PROVE Kept(i)
  BY <1>1 DEF Kept, PointersEnd
<1>3. Places
  BY <1>1 DEF Places
<1> QED BY <1>1, <1>2, <1>3 DEF KeptInv, Calling

LEMMA NextArgs == IInv /\ KeptInv /\ [Next]_vars => KeptInv'
<1> SUFFICES ASSUME IInv, KeptInv, [Next]_vars PROVE KeptInv'
  OBVIOUS
<1> USE DEF Next
<1>1. CASE EndMacro
  BY <1>1, EndMacroArgs
<1>2. CASE MacroParam
  BY <1>2, MacroParamArgs
<1>3. CASE EnterFile \/ LeaveFile
  BY <1>3, FileArgs
<1>4. CASE EndInMacro \/ TooHeavy \/ Overrun
  BY <1>4, DiesSame DEF EndInMacro, TooHeavy, Overrun
<1>5. CASE AddLabel \/ GetSym \/ InsertString \/ Separator \/ MacroDirective \/ MacroError \/ SyntaxError \/ Discard
  BY <1>5, GrammarArgs
<1>6. CASE MacroCall
  BY <1>6, MacroCallArgs
<1>7. CASE MacroRecord
  BY <1>7, MacroRecordArgs
<1>8. CASE StoreArgument
  BY <1>8, StoreArgumentArgs
<1>9. CASE NextArgument
  BY <1>9, NextArgumentArgs
<1>10. CASE ReplayMacro
  BY <1>10, ReplayMacroArgs
<1>11. CASE SkipLine \/ SkipMacro
  BY <1>11, SkipArgs
<1>12. CASE EndOfPass
  BY <1>12, EndOfPassArgs
<1>13. CASE UNCHANGED vars
  BY <1>13, KeptSame DEF vars, pools, parser
<1> QED BY <1>1, <1>2, <1>3, <1>4, <1>5, <1>6, <1>7, <1>8, <1>9, <1>10, <1>11, <1>12, <1>13

\* What the frames hold is what the property says of them.
LEMMA KeptIntact == KeptInv => ArgumentsIntact
<1> SUFFICES ASSUME KeptInv, NEW i \in 1 .. Len(stack), NEW k \in 1 .. Len(stack[i].given)
             PROVE  LET arg   == stack[i].given[k]
                        start == params_pointers[stack[i].params_array + k - 1]
                    IN  /\ \A j \in 1 .. Len(arg) : macros_params[start + j - 1] = arg[j]
                        /\ macros_params[start + Len(arg)] = Tok("endm")
  BY DEF ArgumentsIntact
<1>1. Kept(i)
  BY DEF KeptInv
<1> QED BY <1>1 DEF Kept, Copied

\* When every ENDM of the source begins its line, the arguments of a call stay
\* in the pools as they were given until its ENDM, whatever its body calls.
\* (An ENDM on the line of a call would end the body while Replay_Macro runs:
\* PopStream moves the pools below the arguments that are being stored.)
THEOREM ArgumentsKept == Spec /\ OwnLines => []ArgumentsIntact
<1>1. Init /\ OwnLines => KeptInv
  BY InitArgs
<1>2. IInv /\ KeptInv /\ [Next]_vars => KeptInv'
  BY NextArgs
<1>3. KeptInv => ArgumentsIntact
  BY KeptIntact
<1> QED BY <1>1, <1>2, <1>3, Invariance, PTL DEF Spec

----------------------------------------------------------------------------
(* Local labels: the first decoration of a token names its scope.          *)

LEMMA StampFacts ==
  ASSUME IInv, ApartInv
  PROVE  Stamp \in Int /\ Here \in Scope /\ Here.n = Stamp
<1>1. CASE TopLevel
  BY <1>1 DEF Stamp, Here, ApartInv, IInv, Rest, Scope
<1>2. CASE ~TopLevel
  <2>1. Top.instancesNumber = Top.id /\ Top.id \in Nat
    BY TopFacts DEF IInv, ApartInv, Top
  <2> QED BY <1>2, <2>1 DEF Stamp, Here, Scope
<1> QED BY <1>1, <1>2

\* A decoration is the first one of the scope it is made in, or a later one.
LEMMA DecoratedStamped ==
  ASSUME IInv, ApartInv, NEW tok \in Token, Stamped(tok)
  PROVE  Stamped(Decorated(tok))
<1> DEFINE e == [tok EXCEPT !.stamps = Append(@, Stamp), !.scope = IF @ = NoScope THEN Here ELSE @]
<1>1. Stamp \in Int /\ Here.n = Stamp
  BY StampFacts
<1>2. tok.stamps \in Seq(Int) /\ Len(tok.stamps) \in Nat
  BY DEF Token
<1>3. e.stamps = Append(tok.stamps, Stamp) /\ e.scope = IF tok.scope = NoScope THEN Here ELSE tok.scope
  BY DEF Token
<1>4. Len(e.stamps) = Len(tok.stamps) + 1 /\ e.stamps[Len(tok.stamps) + 1] = Stamp /\ e.stamps # << >>
  BY <1>1, <1>2, <1>3
<1>5. ASSUME Len(e.stamps) = 1 PROVE e.scope.n = e.stamps[1]
  <2>1. Len(tok.stamps) = 0
    BY <1>2, <1>4, <1>5
  <2>2. tok.stamps = << >>
    BY <1>2, <2>1
  <2> HIDE DEF e
  <2> QED BY <1>1, <1>3, <1>4, <2>1, <2>2 DEF Stamped
<1>6. Decorated(tok) = tok \/ Decorated(tok) = e
  BY DEF Decorated
<1> HIDE DEF e
<1> QED BY <1>4, <1>5, <1>6 DEF Stamped

\* The source when its label has been decorated.
LEMMA TextApart ==
  ASSUME IInv, ApartInv, Holds(Top.src, Top.macro_ptr), text' \in {text, Rewritten}
  PROVE  NoAtLabels' /\ \A i \in 1 .. Len(text') : Stamped(text'[i])
<1>1. Len(text') = Len(text) /\ \A i \in 1 .. Len(text) : text'[i].t = text[i].t /\ text'[i].name = text[i].name
  BY KindsStay
<1>2. NoAtLabels'
  BY <1>1 DEF ApartInv, NoAtLabels
<1>3. ASSUME NEW i \in 1 .. Len(text) PROVE Stamped(text'[i])
  <2>1. text[i] \in Token /\ Stamped(text[i])
    BY DEF IInv, Sources, ApartInv
  <2>2. text'[i] = text[i] \/ text'[i] = Decorated(text[i])
    BY RewrittenFacts
  <2> QED BY <2>1, <2>2, DecoratedStamped
<1> QED BY <1>1, <1>2, <1>3

\* The next token as it is decorated.
LEMMA AheadStamped ==
  ASSUME IInv, ApartInv, Holds(Top.src, Top.macro_ptr)
  PROVE  Ahead \in Token /\ Stamped(Ahead) /\ Stamped(Decorated(Ahead))
<1>1. Ahead \in Token /\ (Top.src = "text" => Top.macro_ptr \in 1 .. Len(text) /\ Ahead = text[Top.macro_ptr])
  BY AheadFacts
<1>2. Top.src \in {"text", "pool"}
  BY TopFacts DEF IInv
<1>3. Top.src = "pool" => Stamped(Ahead)
  BY DEF ApartInv, Holds, Ahead
<1>4. Stamped(Ahead)
  BY <1>1, <1>2, <1>3 DEF ApartInv
<1> QED BY <1>1, <1>4, DecoratedStamped

LEMMA TokStamped == \A t : Stamped(Tok(t))
<1> SUFFICES ASSUME NEW t PROVE Stamped(Tok(t))
  OBVIOUS
<1>1. Tok(t).stamps = << >> /\ Tok(t).scope = NoScope /\ Len(<< >>) = 0
  BY DEF Tok
<1> QED BY <1>1 DEF Stamped

\* A token of an argument, or the ENDM behind it, goes to the pool.
LEMMA PutStamped ==
  ASSUME IInv, ApartInv, NEW tok, Stamped(tok), Put(tok)
  PROVE  \A i \in 0 .. Tokens - 1 : Stamped(macros_params'[i])
BY DEF IInv, Sources, ApartInv, Put

\* The instance numbers of the streams when a token has been taken.
LEMMA TakenApart ==
  ASSUME IInv, ApartInv, stack' \in {stack, Taken}
  PROVE  \A i \in 1 .. Len(stack') : stack'[i].instancesNumber = stack'[i].id
<1>1. CASE stack' = stack
  BY <1>1 DEF ApartInv
<1>2. CASE stack' = Taken
  BY <1>2, TakenFacts DEF IInv, ApartInv
<1> QED BY <1>1, <1>2

\* A step that defines and calls nothing.
LEMMA ApartQuiet ==
  ASSUME IInv, ApartInv,
         text' = text \/ (text' = Rewritten /\ Holds(Top.src, Top.macro_ptr)), stack' \in {stack, Taken},
         \A i \in 0 .. Tokens - 1 : Stamped(macros_params'[i]),
         \A p \in 0 .. 1 : \A i \in 1 .. Len(seen'[p]) : Stamped(seen'[p][i]),
         g_LocalSerial' = made'.globals, g_MacroNumInstances' = made'.calls
  PROVE  ApartInv'
<1>1. NoAtLabels' /\ \A i \in 1 .. Len(text') : Stamped(text'[i])
  <2>1. CASE text' = text
    BY <2>1 DEF ApartInv, NoAtLabels
  <2>2. CASE text' = Rewritten /\ Holds(Top.src, Top.macro_ptr)
    BY <2>2, TextApart
  <2> QED BY <2>1, <2>2
<1>2. \A i \in 1 .. Len(stack') : stack'[i].instancesNumber = stack'[i].id
  BY TakenApart
<1> QED BY <1>1, <1>2 DEF ApartInv, Stamped

\* The same with the pool and the history as they are.
LEMMA ApartSame ==
  ASSUME IInv, ApartInv,
         text' = text \/ (text' = Rewritten /\ Holds(Top.src, Top.macro_ptr)), stack' \in {stack, Taken},
         UNCHANGED <<macros_params, seen, g_LocalSerial, g_MacroNumInstances>>,
         made'.globals = made.globals, made'.calls = made.calls
  PROVE  ApartInv'
<1>1. /\ \A i \in 0 .. Tokens - 1 : Stamped(macros_params'[i])
      /\ \A p \in 0 .. 1 : \A i \in 1 .. Len(seen'[p]) : Stamped(seen'[p][i])
      /\ g_LocalSerial' = made'.globals /\ g_MacroNumInstances' = made'.calls
  BY DEF ApartInv
<1> QED BY <1>1, ApartQuiet

LEMMA DiesApart ==
  ASSUME IInv, ApartInv, NEW how, Dies(how)
  PROVE  ApartInv'
BY ApartSame DEF Dies, pools, symbols, history

\* The history with one more label, reference or string.
LEMMA SeenStamped ==
  ASSUME IInv, ApartInv, Holds(Top.src, Top.macro_ptr), NEW kind, See(kind, Decorated(Ahead))
  PROVE  \A p \in 0 .. 1 : \A i \in 1 .. Len(seen'[p]) : Stamped(seen'[p][i])
<1> DEFINE tok == Decorated(Ahead)
           e == [kind |-> kind, name |-> tok.name, stamps |-> tok.stamps, scope |-> tok.scope]
<1>1. Stamped(tok)
  BY AheadStamped
<1>2. e.stamps = tok.stamps /\ e.scope = tok.scope
  OBVIOUS
<1> HIDE DEF tok
<1>3. Stamped(e)
  BY <1>1, <1>2 DEF Stamped
<1>4. seen \in [0 .. 1 -> Seq(Event)] /\ g_passNum \in 0 .. 1 /\ seen' = [seen EXCEPT ![g_passNum] = Append(@, e)]
  BY DEF IInv, Rest, See, tok
<1> HIDE DEF e
<1>5. ASSUME NEW p \in 0 .. 1, NEW i \in 1 .. Len(seen'[p]) PROVE Stamped(seen'[p][i])
  <2> DEFINE s == seen[p]
  <2>1. s \in Seq(Event) /\ Len(s) \in Nat /\ \A j \in 1 .. Len(s) : Stamped(s[j])
    BY <1>4 DEF ApartInv
  <2>2. CASE p = g_passNum
    <3>1. seen'[p] = Append(s, e)
      BY <1>4, <2>2
    <3> HIDE DEF s
    <3>2. Len(seen'[p]) = Len(s) + 1 /\ seen'[p][Len(s) + 1] = e /\ \A j \in 1 .. Len(s) : seen'[p][j] = s[j]
      BY <2>1, <3>1
    <3> QED BY <1>3, <1>5, <2>1, <3>2
  <2>3. CASE p # g_passNum
    <3>1. seen'[p] = s
      BY <1>4, <2>3
    <3> QED BY <1>5, <2>1, <3>1
  <2> QED BY <2>2, <2>3
<1> QED BY <1>5

\* ResetLocalLabel: without '@' every global label of the source counts.
LEMMA SerialCounts ==
  ASSUME IInv, ApartInv, AddLabel
  PROVE  g_LocalSerial' = made'.globals
<1> DEFINE name == Decorated(Ahead).name
<1>1. Holds(Top.src, Top.macro_ptr) /\ Ahead.t = "sym2"
  BY DEF AddLabel, Parses, Reads
<1>2. Ahead \in Token /\ Written(Ahead)
  BY <1>1, AheadFacts
<1>3. name = Ahead.name
  BY <1>2, DecoratedFacts
<1>4. /\ g_LocalSerial' = Serial(name)
      /\ made' = IF TopLevel /\ name \notin Locals THEN [made EXCEPT !.globals = @ + 1] ELSE made
      /\ g_LocalSerial = made.globals /\ made \in [calls : Nat, globals : Nat, skipped : BOOLEAN]
  BY DEF AddLabel, ApartInv, IInv, Rest
<1>5. TopLevel => name \notin Ats
  <2>1. TopLevel => Top.macro_ptr \in 1 .. Len(text) /\ Ahead = text[Top.macro_ptr]
    BY <1>1, AheadFacts, TopFacts DEF IInv
  <2> QED BY <1>1, <1>3, <2>1 DEF ApartInv, NoAtLabels
<1> HIDE DEF name
<1> QED BY <1>4, <1>5 DEF Serial

LEMMA AddLabelApart ==
  ASSUME IInv, ApartInv, AddLabel
  PROVE  ApartInv'
<1>1. /\ Holds(Top.src, Top.macro_ptr) /\ stack' = Taken /\ text' = Rewritten
      /\ See("label", Decorated(Ahead)) /\ UNCHANGED <<macros_params, g_MacroNumInstances>>
      /\ made' = IF TopLevel /\ Decorated(Ahead).name \notin Locals THEN [made EXCEPT !.globals = @ + 1] ELSE made
  BY DEF AddLabel, Parses, Reads, pools
<1>2. g_LocalSerial' = made'.globals
  BY SerialCounts
<1>3. made'.calls = made.calls
  BY <1>1 DEF IInv, Rest
<1>4. \A p \in 0 .. 1 : \A i \in 1 .. Len(seen'[p]) : Stamped(seen'[p][i])
  BY <1>1, SeenStamped
<1>5. /\ \A i \in 0 .. Tokens - 1 : Stamped(macros_params'[i])
      /\ g_MacroNumInstances' = made'.calls
  BY <1>1, <1>3 DEF ApartInv
<1> QED BY <1>1, <1>2, <1>4, <1>5, ApartQuiet

LEMMA GetSymApart ==
  ASSUME IInv, ApartInv, GetSym
  PROVE  ApartInv'
<1>1. /\ Holds(Top.src, Top.macro_ptr) /\ stack' = Taken /\ text' = Rewritten
      /\ See("ref", Decorated(Ahead)) /\ UNCHANGED <<macros_params, g_MacroNumInstances, g_LocalSerial, made>>
  BY DEF GetSym, Parses, Reads, pools, symbols
<1>2. \A p \in 0 .. 1 : \A i \in 1 .. Len(seen'[p]) : Stamped(seen'[p][i])
  BY <1>1, SeenStamped
<1>3. /\ \A i \in 0 .. Tokens - 1 : Stamped(macros_params'[i])
      /\ g_LocalSerial' = made'.globals /\ g_MacroNumInstances' = made'.calls
  BY <1>1 DEF ApartInv
<1> QED BY <1>1, <1>2, <1>3, ApartQuiet

LEMMA InsertStringApart ==
  ASSUME IInv, ApartInv, InsertString
  PROVE  ApartInv'
<1>1. /\ Holds(Top.src, Top.macro_ptr) /\ stack' = Taken /\ text' = Rewritten
      /\ See("string", Decorated(Ahead)) /\ UNCHANGED <<macros_params, g_MacroNumInstances, g_LocalSerial, made>>
  BY DEF InsertString, Parses, Reads, pools, symbols
<1>2. \A p \in 0 .. 1 : \A i \in 1 .. Len(seen'[p]) : Stamped(seen'[p][i])
  BY <1>1, SeenStamped
<1>3. /\ \A i \in 0 .. Tokens - 1 : Stamped(macros_params'[i])
      /\ g_LocalSerial' = made'.globals /\ g_MacroNumInstances' = made'.calls
  BY <1>1 DEF ApartInv
<1> QED BY <1>1, <1>2, <1>3, ApartQuiet

\* The arguments in the pool have been decorated where they are written.
LEMMA ArgumentApart ==
  ASSUME IInv, ApartInv, StoreArgument \/ NextArgument
  PROVE  ApartInv'
<1>1. Holds(Top.src, Top.macro_ptr)
  BY DEF StoreArgument, NextArgument, Reads
<1>2. CASE Dies("overflow")
  BY <1>2, DiesApart
<1>3. ASSUME NEW tok, Stamped(tok), Put(tok), stack' = Taken, text' \in {text, Rewritten},
             UNCHANGED <<g_MacroNumInstances, g_LocalSerial, seen, made>>
      PROVE  ApartInv'
  <2>1. \A i \in 0 .. Tokens - 1 : Stamped(macros_params'[i])
    BY <1>3, PutStamped
  <2>2. /\ \A p \in 0 .. 1 : \A i \in 1 .. Len(seen'[p]) : Stamped(seen'[p][i])
        /\ g_LocalSerial' = made'.globals /\ g_MacroNumInstances' = made'.calls
    BY <1>3 DEF ApartInv
  <2> QED BY <1>1, <1>3, <2>1, <2>2, ApartQuiet
<1>4. CASE StoreArgument
  <2>1. Stamped(Decorated(Ahead))
    BY <1>1, AheadStamped
  <2> QED BY <1>2, <1>3, <1>4, <2>1 DEF StoreArgument, symbols, history
<1>5. CASE NextArgument
  BY <1>2, <1>3, <1>5, TokStamped DEF NextArgument, symbols, history
<1> QED BY <1>4, <1>5

\* A call has an instance number of its own.
LEMMA ReplayMacroApart ==
  ASSUME IInv, ApartInv, ReplayMacro
  PROVE  ApartInv'
<1>1. CASE \E how \in {"overflow", "aborted", "wild"} : Dies(how)
  BY <1>1, DiesApart
<1>2. ASSUME NEW ptr, NEW count, Put(Tok("endm")), g_MacroNumInstances' = g_MacroNumInstances + 1,
             stack' = Stream(Taken, "text", ptr, count, Instance, call.given, made.calls + 1),
             made' = [made EXCEPT !.calls = @ + 1], UNCHANGED <<text, g_LocalSerial, seen>>
      PROVE  ApartInv'
  <2>1. /\ made \in [calls : Nat, globals : Nat, skipped : BOOLEAN]
        /\ g_LocalSerial = made.globals /\ g_MacroNumInstances = made.calls
    BY DEF ApartInv, IInv, Rest
  <2>2. g_LocalSerial' = made'.globals /\ g_MacroNumInstances' = made'.calls
    BY <1>2, <2>1
  <2>3. \A i \in 0 .. Tokens - 1 : Stamped(macros_params'[i])
    BY <1>2, TokStamped, PutStamped
  <2>4. ASSUME NEW i \in 1 .. Len(stack') PROVE stack'[i].instancesNumber = stack'[i].id
    <3> DEFINE n == Len(stack)
               f == [src |-> "text", macro_ptr |-> ptr,
                     params_array |-> g_pParamsArrayPool, pParamsPool |-> g_pParamsPool,
                     params_count |-> count, instancesNumber |-> Instance,
                     given |-> call.given, id |-> made.calls + 1]
    <3>1. f.instancesNumber = f.id
      BY <2>1 DEF Instance
    <3>2. n \in Nat /\ Taken \in Seq(Frame) /\ Len(Taken) = n /\ stack' = Append(Taken, f)
      BY <1>2, TakenFacts, TopFacts DEF IInv, Stream
    <3> HIDE DEF f, n
    <3>3. Len(stack') = n + 1 /\ stack'[n + 1] = f /\ \A j \in 1 .. n : stack'[j] = Taken[j]
      BY <3>2
    <3>4. \A j \in 1 .. n : Taken[j].instancesNumber = Taken[j].id
      BY TakenFacts DEF IInv, ApartInv, n
    <3> QED BY <2>4, <3>1, <3>2, <3>3, <3>4
  <2>5. /\ NoAtLabels' /\ \A i \in 1 .. Len(text') : Stamped(text'[i])
        /\ \A p \in 0 .. 1 : \A i \in 1 .. Len(seen'[p]) : Stamped(seen'[p][i])
    BY <1>2 DEF ApartInv, NoAtLabels
  <2> QED BY <2>2, <2>3, <2>4, <2>5 DEF ApartInv, Stamped
<1> QED BY <1>1, <1>2 DEF ReplayMacro, CannotPush, symbols

\* A parameter and ENDM: the numbers of the other streams stay.
LEMMA StreamsApart ==
  ASSUME IInv, ApartInv, MacroParam \/ EndMacro
  PROVE  ApartInv'
<1>1. CASE \E how \in {"aborted", "wild"} : Dies(how)
  BY <1>1, DiesApart
<1>2. ASSUME \A i \in 1 .. Len(stack') : stack'[i].instancesNumber = stack'[i].id,
             UNCHANGED <<text, macros_params, seen, g_LocalSerial, g_MacroNumInstances, made>>
      PROVE  ApartInv'
  BY <1>2 DEF ApartInv, NoAtLabels, Stamped
<1>3. CASE EndMacro
  <2>1. CASE TopLevel
    BY <1>1, <1>3, <2>1 DEF EndMacro
  <2>2. CASE ~TopLevel
    <3>1. /\ stack' = SubSeq(stack, 1, Len(stack) - 1)
          /\ g_pParamsPool' = Top.pParamsPool /\ g_pParamsArrayPool' = Top.params_array
          /\ UNCHANGED <<text, macros_params, seen, g_LocalSerial, g_MacroNumInstances, made>>
      BY <1>3, <2>2 DEF EndMacro, Restored, symbols, history
    <3>2. Len(stack') = Len(stack) - 1 /\ \A i \in 1 .. Len(stack) - 1 : stack'[i] = stack[i]
      BY <2>2, <3>1, Pops DEF IInv
    <3>3. \A i \in 1 .. Len(stack') : stack'[i].instancesNumber = stack'[i].id
      BY <3>2, TopFacts DEF IInv, ApartInv
    <3> QED BY <1>2, <3>1, <3>3
  <2> QED BY <2>1, <2>2
<1>4. CASE MacroParam /\ TopLevel
  <2>1. stack' = Taken /\ UNCHANGED <<text, macros_params, seen, g_LocalSerial, g_MacroNumInstances, made>>
    BY <1>4 DEF MacroParam, CannotPush, pools, symbols, history
  <2> QED BY <2>1, ApartSame
<1>5. CASE MacroParam /\ ~TopLevel
  <2>1. ASSUME NEW ptr, stack' = Stream(Taken, "pool", ptr, -1, 0, << >>, 0)
        PROVE  \A i \in 1 .. Len(stack') : stack'[i].instancesNumber = stack'[i].id
    <3> DEFINE n == Len(stack)
               f == [src |-> "pool", macro_ptr |-> ptr,
                     params_array |-> g_pParamsArrayPool, pParamsPool |-> g_pParamsPool,
                     params_count |-> -1, instancesNumber |-> 0, given |-> << >>, id |-> 0]
    <3>1. f.instancesNumber = f.id
      OBVIOUS
    <3>2. n \in Nat /\ Taken \in Seq(Frame) /\ Len(Taken) = n /\ stack' = Append(Taken, f)
      BY <2>1, TakenFacts, TopFacts DEF IInv, Stream
    <3> HIDE DEF f, n
    <3>3. Len(stack') = n + 1 /\ stack'[n + 1] = f /\ \A j \in 1 .. n : stack'[j] = Taken[j]
      BY <3>2
    <3>4. \A j \in 1 .. n : Taken[j].instancesNumber = Taken[j].id
      BY TakenFacts DEF IInv, ApartInv, n
    <3> QED BY <3>1, <3>2, <3>3, <3>4
  <2>2. \/ \E how \in {"aborted", "wild"} : Dies(how)
        \/ /\ \E ptr : stack' = Stream(Taken, "pool", ptr, -1, 0, << >>, 0)
           /\ UNCHANGED <<text, macros_params, seen, g_LocalSerial, g_MacroNumInstances, made>>
    BY <1>5 DEF MacroParam, CannotPush, pools, symbols, history
  <2> QED BY <1>1, <1>2, <2>1, <2>2
<1> QED BY <1>3, <1>4, <1>5

\* Pass 2 counts the labels and the calls from the beginning.
LEMMA EndOfPassApart ==
  ASSUME IInv, ApartInv, EndOfPass
  PROVE  ApartInv'
<1>1. CASE g_passNum = 0 /\ ~errors
  <2>1. /\ stack' = <<MainStream>> /\ g_MacroNumInstances' = 0 /\ g_LocalSerial' = 0
        /\ made' = [made EXCEPT !.calls = 0, !.globals = 0]
        /\ UNCHANGED <<text, macros_params, seen>>
    BY <1>1 DEF EndOfPass, KeptInstances
  <2>2. made'.calls = 0 /\ made'.globals = 0
    BY <2>1 DEF IInv, Rest
  <2>3. \A i \in 1 .. Len(stack') : stack'[i].instancesNumber = stack'[i].id
    BY <2>1, MainStreamTypes DEF MainStream
  <2> QED BY <2>1, <2>2, <2>3 DEF ApartInv, NoAtLabels, Stamped
<1>2. CASE ~(g_passNum = 0 /\ ~errors)
  BY <1>2, ApartSame DEF EndOfPass, pools, symbols, history
<1> QED BY <1>1, <1>2

\* The steps that decorate a token at most.
LEMMA OthersApart ==
  ASSUME IInv, ApartInv,
         \/ EnterFile \/ LeaveFile \/ EndInMacro \/ Separator \/ MacroCall \/ MacroDirective \/ MacroRecord
         \/ MacroError \/ SyntaxError \/ Discard \/ TooHeavy \/ SkipLine \/ SkipMacro \/ Overrun
  PROVE  ApartInv'
<1>1. CASE \E how : Dies(how)
  BY <1>1, DiesApart
<1>2. CASE /\ text' = text \/ (text' = Rewritten /\ Holds(Top.src, Top.macro_ptr))
           /\ stack' = Taken
           /\ UNCHANGED <<macros_params, seen, g_LocalSerial, g_MacroNumInstances>>
           /\ made' \in {made, [made EXCEPT !.skipped = TRUE]}
  <2>1. made \in [calls : Nat, globals : Nat, skipped : BOOLEAN]
    BY DEF IInv, Rest
  <2>2. made'.globals = made.globals /\ made'.calls = made.calls
    BY <1>2, <2>1
  <2> QED BY <1>2, <2>2, ApartSame
<1> USE DEF pools, symbols, history, LineEnds, InLine, Reads
<1>3. CASE EnterFile
  BY <1>1, <1>2, <1>3 DEF EnterFile
<1>4. CASE LeaveFile
  BY <1>1, <1>2, <1>4 DEF LeaveFile
<1>5. CASE EndInMacro \/ TooHeavy \/ Overrun
  BY <1>1, <1>5 DEF EndInMacro, TooHeavy, Overrun
<1>6. CASE Separator
  BY <1>2, <1>6 DEF Separator
<1>7. CASE MacroCall
  BY <1>1, <1>2, <1>7 DEF MacroCall
<1>8. CASE MacroDirective
  BY <1>2, <1>8 DEF MacroDirective
<1>9. CASE MacroRecord
  BY <1>1, <1>2, <1>9 DEF MacroRecord
<1>10. CASE MacroError
  BY <1>2, <1>10 DEF MacroError
<1>11. CASE SyntaxError
  BY <1>2, <1>11 DEF SyntaxError
<1>12. CASE Discard
  BY <1>2, <1>12 DEF Discard
<1>13. CASE SkipLine
  BY <1>2, <1>13 DEF SkipLine
<1>14. CASE SkipMacro
  BY <1>1, <1>2, <1>14 DEF SkipMacro
<1> QED BY <1>3, <1>4, <1>5, <1>6, <1>7, <1>8, <1>9, <1>10, <1>11, <1>12, <1>13, <1>14

LEMMA InitApart == Init /\ NoAtLabels => ApartInv
<1> SUFFICES ASSUME Init, NoAtLabels PROVE ApartInv
  OBVIOUS
<1>1. ASSUME NEW i \in 1 .. Len(text) PROVE Stamped(text[i])
  <2>1. text[i].stamps = << >> /\ text[i].scope = NoScope
    BY TextsAssumption DEF Init
  <2> QED BY <2>1 DEF Stamped
<1>2. \A i \in 0 .. Tokens - 1 : Stamped(macros_params[i])
  BY TokStamped DEF Init
<1>3. \A p \in 0 .. 1 : \A i \in 1 .. Len(seen[p]) : Stamped(seen[p][i])
  BY DEF Init
<1>4. \A i \in 1 .. Len(stack) : stack[i].instancesNumber = stack[i].id
  BY MainStreamTypes DEF Init, MainStream
<1>5. g_LocalSerial = made.globals /\ g_MacroNumInstances = made.calls
  BY DEF Init
<1> QED BY <1>1, <1>2, <1>3, <1>4, <1>5 DEF ApartInv

LEMMA NextApart == IInv /\ ApartInv /\ [Next]_vars => ApartInv'
<1> SUFFICES ASSUME IInv, ApartInv, [Next]_vars PROVE ApartInv'
  OBVIOUS
<1> USE DEF Next
<1>1. CASE MacroParam \/ EndMacro
  BY <1>1, StreamsApart
<1>2. CASE AddLabel
  BY <1>2, AddLabelApart
<1>3. CASE GetSym
  BY <1>3, GetSymApart
<1>9. CASE InsertString
  BY <1>9, InsertStringApart
<1>4. CASE StoreArgument \/ NextArgument
  BY <1>4, ArgumentApart
<1>5. CASE ReplayMacro
  BY <1>5, ReplayMacroApart
<1>6. CASE EndOfPass
  BY <1>6, EndOfPassApart
<1>7. CASE \/ EnterFile \/ LeaveFile \/ EndInMacro \/ Separator \/ MacroCall \/ MacroDirective \/ MacroRecord
           \/ MacroError \/ SyntaxError \/ Discard \/ TooHeavy \/ SkipLine \/ SkipMacro \/ Overrun
  BY <1>7, OthersApart
<1>8. CASE UNCHANGED vars
  BY <1>8, ApartSame DEF vars, pools, symbols, history
<1> QED BY <1>1, <1>2, <1>3, <1>4, <1>5, <1>6, <1>7, <1>8, <1>9

LEMMA SameRecord ==
  ASSUME NEW s \in Scope, NEW t \in Scope, s.kind = t.kind
  PROVE  s = t <=> s.n = t.n
BY DEF Scope

\* Of one kind of scope, the number of the decoration and that of the scope
\* are the same number.
LEMMA StampedApart == IInv /\ ApartInv => LocalsApart
<1> SUFFICES ASSUME IInv, ApartInv,
                    NEW p \in 0 .. 1, NEW i \in 1 .. Len(seen[p]), NEW j \in 1 .. Len(seen[p]),
                    Direct(seen[p][i]), Direct(seen[p][j]), seen[p][i].scope.kind = seen[p][j].scope.kind
             PROVE  SameLabel(seen[p][i], seen[p][j]) <=> SameScope(seen[p][i], seen[p][j])
  BY DEF LocalsApart
<1> DEFINE e1 == seen[p][i]
           e2 == seen[p][j]
<1>1. e1 \in Event /\ e2 \in Event
  BY DEF IInv, Rest
<1>2. Stamped(e1) /\ Stamped(e2)
  BY DEF ApartInv
<1> HIDE DEF e1, e2
<1>3. Len(e1.stamps) = 1 /\ Len(e2.stamps) = 1 /\ e1.scope.kind = e2.scope.kind
  BY DEF Direct, e1, e2
<1>4. e1.stamps \in Seq(Int) /\ e2.stamps \in Seq(Int) /\ e1.scope \in Scope /\ e2.scope \in Scope
  BY <1>1 DEF Event
<1>5. e1.scope.n = e1.stamps[1] /\ e2.scope.n = e2.stamps[1]
  BY <1>2, <1>3 DEF Stamped
<1>6. e1.scope = e2.scope <=> e1.scope.n = e2.scope.n
  BY <1>3, <1>4, SameRecord
<1>7. e1.stamps = e2.stamps <=> e1.stamps[1] = e2.stamps[1]
  <2>1. ASSUME e1.stamps[1] = e2.stamps[1] PROVE e1.stamps = e2.stamps
    BY <1>3, <1>4, <2>1, SeqEqual
  <2> QED BY <2>1
<1> QED BY <1>5, <1>6, <1>7 DEF SameLabel, SameScope, e1, e2

\* When the source defines no label that begins with '@', one scope has one
\* label of a name and two scopes have two, however many macros are expanded.
\* ('@' begins a local label for the lexer and a global one for
\* ResetLocalLabel: the scope would end in its middle.)
THEOREM LabelsApart == Spec /\ NoAtLabels => []LocalsApart
<1>1. Init /\ NoAtLabels => ApartInv
  BY InitApart
<1>2. IInv /\ ApartInv /\ [Next]_vars => ApartInv'
  BY NextApart
<1>3. IInv /\ ApartInv => LocalsApart
  BY StampedApart
<1> QED BY <1>1, <1>2, <1>3, Invariance, PTL DEF Spec
=============================================================================
