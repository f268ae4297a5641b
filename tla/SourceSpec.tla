------------------------------- MODULE SourceSpec ------------------------------
(***************************************************************************)
(* What SourceLines promises: the tokens are the text with the included     *)
(* files in their places, both passes parse what is left of it when macros   *)
(* are expanded and conditionals are removed, and a message names the file   *)
(* and the line it is about.                                               *)
(***************************************************************************)
EXTENDS SourceLines, FiniteSetsExt

\* The types; the levels of files and streams stay within their arrays, and
\* every block of tokens but the last is full.
TypeOK ==
    /\ phase \in {"fetch", "parse"} /\ g_passNum \in 0 .. 1 /\ g_errorCount \in BOOLEAN
    /\ status \in {"run", "done", "rejected", "aborted", "crashed", "overrun", "wild"}
    /\ IsLevel(g_incStackDeepth) /\ Len(streamsStack) <= MAX_INCLUDES_NESTED
    /\ phase = "fetch" => Len(buffers) = g_incStackDeepth + 1
    /\ phase = "parse" => buffers = << >> /\ streamsStack # << >>
    /\ \A n \in DOMAIN blocks :
          /\ Len(blocks[n]) < TOKENS_BLOCK
          /\ n < Len(blocks) => Len(blocks[n]) = TOKENS_BLOCK - 1 /\ Last(blocks[n]) = NewPtr
          /\ \A k \in 1 .. TOKENS_BLOCK - 2 : k \in DOMAIN blocks[n] => blocks[n][k] # NewPtr
    /\ mode \in {"line", "late", "macro", "args", "skipmacro", "skipcond", "skipline"} /\ nest \in Nat

-------------------------------------------------------------------------------
(* The text. *)
Stopped == status # "run"
\* The line that the k-th piece of a file begins on.
LineOf(file, k) ==
    LET line[j \in 1 .. Len(source[file]) + 1] == IF j = 1 THEN 1 ELSE line[j - 1] + NewLines(source[file][j - 1])
    IN line[k]

\* The pieces of a file before its END.
Used(file) == LET ends == {k \in DOMAIN source[file] : source[file][k][1] = "end"}
              IN IF ends = {} THEN 1 .. Len(source[file]) ELSE 1 .. Min(ends) - 1
Opens(file, k) == /\ source[file][k][1] = "include" /\ source[file][k][2] \in Files
                  /\ k < Len(source[file])

\* The tokens that a piece of a file brings, and those of every file, up to a depth
\* of includes.
Brings(upTo, d, f, k) ==
    LET p == source[f][k]
    IN CASE p[1] \in {"nl", "comment"} -> << <<"eol", LineOf(f, k) + NewLines(p)>> >>
         [] Opens(f, k) -> IF d = 0 THEN << >>
                           ELSE << <<"enter", p[2]>> >> \o upTo[d - 1][p[2]] \o << <<"leave">> >>
         [] p[1] = "include" /\ ~Opens(f, k) -> << >>
         [] p[1] = "code" -> << p \o << <<f, k>> >> >>
         [] OTHER -> <<p>>
UpTo == LET upTo[d \in 0 .. MAX_INCLUDES_NESTED] == [f \in Files |-> FlattenSeq([k \in Used(f) |-> Brings(upTo, d, f, k)])]
        IN upTo
Expanded == Append(UpTo[MAX_INCLUDES_NESTED][Main], <<"end">>)
\* The tokens of all blocks, without the pointers that end the full ones.
Tokens == FlattenSeq([n \in DOMAIN blocks |-> IF n < Len(blocks) THEN Front(blocks[n]) ELSE blocks[n]])

\* What is fetched is the text of the main file with every file in the place it is
\* included at, up to an END, each end of a line with the number of the line behind
\* it; and no file is left open.
FetchExact == Stopped /\ phase = "parse" => Tokens = Expanded /\ buffers = << >>

-------------------------------------------------------------------------------
(* What the text says is assembled: one walk over the tokens that knows the  *)
(* macros so far, which conditionals are open, and the levels of files and  *)
(* streams it takes.                                                       *)
Walk0 == [open |-> << >>,              \* what is open: "enter", "macro", or an IF's part
          name |-> "", outer |-> << >>, \* the macro being defined; the lines and levels before it
          bodies |-> [m \in {} |-> << >>],
          out |-> << >>, levels |-> 0, files |-> 0, fair |-> TRUE]
Live(w) == \A i \in DOMAIN w.open : w.open[i] # "dead"
Unfair(w) == [w EXCEPT !.fair = FALSE]
Opened(w, what) == [w EXCEPT !.open = Append(@, what)]
Closed(w, kinds) == IF w.open = << >> \/ Last(w.open) \notin kinds THEN Unfair(w) ELSE [w EXCEPT !.open = Front(@)]
\* The files open since position k.
FilesFrom(w, k) == Cardinality({i \in DOMAIN w.open : i > k /\ w.open[i] = "enter"})
Entered(w) ==
    LET v == Opened(w, "enter")
        start == Max({0} \cup {i \in DOMAIN v.open : v.open[i] = "macro"})
    IN [v EXCEPT !.files = Max({@, FilesFrom(v, 0)}), !.levels = Max({@, FilesFrom(v, start)})]
Defined(w, name) == name \in DOMAIN w.bodies
Defining(w, name) ==
    IF "macro" \in ToSet(w.open) \/ (Live(w) /\ Defined(w, name)) THEN Unfair(w)
    ELSE IF ~Live(w) THEN Opened(w, "macro")
    ELSE [Opened(w, "macro") EXCEPT !.name = name, !.outer = <<w.out, w.levels>>, !.out = << >>, !.levels = 0]
Recorded(w) ==
    LET v == Closed(w, {"macro"})
    IN IF ~v.fair \/ ~Live(w) THEN v
       ELSE [v EXCEPT !.bodies = [m \in DOMAIN @ \cup {w.name} |-> IF m = w.name THEN <<w.out, w.levels + 1>> ELSE @[m]],
                      !.out = w.outer[1], !.levels = w.outer[2]]
Called(w, name) ==
    IF ~Live(w) THEN w
    ELSE IF ~Defined(w, name) \/ "enter" \in ToSet(w.open) THEN Unfair(w)
    ELSE [w EXCEPT !.out = @ \o w.bodies[name][1], !.levels = Max({@, w.bodies[name][2]})]
Step(w, t) ==
    CASE ~w.fair -> w
      [] t[1] = "enter" -> Entered(w)
      [] t[1] = "leave" -> Closed(w, {"enter"})
      [] t[1] = "if" -> Opened(w, "dead")
      [] t[1] = "else" -> IF w.open = << >> THEN Unfair(w)
                          ELSE Opened(Closed(w, {"dead", "live"}), IF Last(w.open) = "dead" THEN "live" ELSE "dead")
      [] t[1] = "endc" -> Closed(w, {"dead", "live"})
      [] t[1] = "macro" -> Defining(w, t[2])
      [] t[1] = "endm" -> Recorded(w)
      [] t[1] = "call" -> Called(w, t[2])
      [] t[1] = "code" -> IF Live(w) THEN [w EXCEPT !.out = Append(@, t[3])] ELSE w
      [] OTHER -> w
Walk == FoldLeft(Step, Walk0, Expanded)

\* The programs that are read as they are written: what is opened is closed in the
\* same file and the same macro, macros are defined once, above their calls, and not
\* within one another, and none is called in an included file, where the return from
\* the macro loses the place in the stack of files.
Balanced == Walk.fair /\ Walk.open = << >>

Seen(pass) == SelectSeq(reports, LAMBDA r : r.pass = pass)
ParsedIn(pass) == LET seen == Seen(pass) IN [i \in DOMAIN seen |-> seen[i].src]
\* A macro is not called by a last line that has no end, and no array is too small.
Ended == Len(Expanded) < 2 \/ Expanded[Len(Expanded) - 1][1] # "call"
Fits == Walk.files < MAX_INCLUDES_NESTED /\ Walk.levels < MAX_INCLUDES_NESTED

\* Both passes assemble the lines of the text that are not left out, in its order,
\* with the body of each macro at its calls; and the run does not break off.
LinesParsed ==
    Stopped /\ phase = "parse" /\ Balanced /\ Ended /\ Fits =>
        /\ status \in {"done", "rejected"}
        /\ ParsedIn(0) = Walk.out
        /\ status = "done" => ParsedIn(1) = Walk.out

-------------------------------------------------------------------------------
\* Where a place of the text has its tokens, one for each time its file is included.
TokensOf(src) == {n \in DOMAIN Tokens : Tokens[n][1] = "code" /\ Tokens[n][3] = src}
\* The n-th token is the first of a block other than the first.
StartsBlock(n) == n > 1 /\ (n - 1) % (TOKENS_BLOCK - 2) = 0
LineBefore(n) == Max({0} \cup {k \in 1 .. n - 1 : Tokens[k][1] \in {"eol", "enter"}})

\* The statements whose line is told right: for a late one the token behind it is the
\* "\n" of its line, for the others the line before it has a number; an end of line
\* that starts a block has none.
Told(src) ==
    \A n \in TokensOf(src) :
        IF Tokens[n][2]
        THEN src[2] < Len(source[src[1]]) /\ source[src[1]][src[2] + 1] = <<"nl">> /\ ~StartsBlock(n + 1)
        ELSE LineBefore(n) = 0 \/ ~(StartsBlock(LineBefore(n)) /\ Tokens[LineBefore(n)][1] = "eol")

\* A message about a statement names the file and the line that it is in, in both
\* passes, in included files, in macros and behind them.
ReportsExact ==
    Stopped /\ phase = "parse" /\ Balanced =>
        \A i \in DOMAIN reports : LET r == reports[i] IN
            r.pass # -1 /\ Told(r.src) => r.file = r.src[1] /\ r.line = LineOf(r.src[1], r.src[2])

\* What the comment in CreateNewLexBuffer says of the tokens of files: they tell
\* which file a message is about.
RightFile == \A i \in DOMAIN reports : reports[i].file = reports[i].src[1]
===============================================================================
