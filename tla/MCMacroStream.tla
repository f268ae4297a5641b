--------------------------- MODULE MCMacroStream ---------------------------
(* Small sources for MacroStream: a macro m, a macro k that calls it, and a *)
(* few lines that call them.                                               *)
EXTENDS MacroStream

CONSTANTS m, k, g, l, at, inc

MCNames  == {m, k, g, l, at}
MCLocals == {l, at}
MCAts    == {at}
MCFiles  == {Main, inc}

Sym(n)   == [Tok("sym") EXCEPT !.name = n]
Str(n)   == [Tok("string") EXCEPT !.name = n]
Param(i) == [Tok("param") EXCEPT !.n = i]
Eol      == <<Tok("eol")>>

At(n)         == <<[Tok("sym2") EXCEPT !.name = n]>> \o Eol
Line(ops)     == ops \o Eol
Calls(n, ops) == <<[Tok("call") EXCEPT !.name = n]>> \o ops \o Eol
Two(x, y)     == <<x, Tok("comma"), y>>

Begin(n)        == <<[Tok("sym2") EXCEPT !.name = n], Tok("macro")>>
Macro(n, body) == Begin(n) \o Eol \o body \o <<Tok("endm")>> \o Eol
File(f, x)     == <<[Tok("enter") EXCEPT !.file = f]>> \o x \o <<Tok("leave")>> \o Eol
Source(x)      == x \o <<Tok("end")>>

Upto2(S) == {<< >>} \cup S \cup {x \o y : x \in S, y \in S}

\* Bodies of m, bodies of k that call m, lines behind or before the macros.
InM   == {At(l), Line(<<Sym(l)>>), Line(<<Param(1)>>), Line(<<Param(2)>>)}
Text  == {Line(<<Str(l)>>), Line(Two(Str(g), Str(l))), Calls(m, <<Str(l)>>)}
InK   == {At(l), Line(<<Sym(l)>>), Calls(m, <<Param(1)>>), Calls(m, Two(Sym(l), Param(1))), Calls(k, << >>)}
InSrc == {At(g), At(l), Line(<<Sym(l)>>), Calls(m, <<Sym(g)>>), Calls(k, <<Sym(l)>>), Calls(k, Two(Sym(g), Sym(g))),
          Calls(m, <<Tok("comma"), Sym(g)>>)}

\* Sources of the run: two macros that nest, one macro with lines before and
\* behind it, strings, included files, and sources with a mistake in them.
MCTexts ==
  {Source(Macro(m, b) \o Macro(k, c) \o x) : b \in InM, c \in Upto2(InK), x \in Upto2(InSrc)}
    \cup {Source(x \o Macro(m, b) \o y) : b \in Upto2(InM), x \in InSrc, y \in InSrc}
    \cup {Source(Macro(m, b) \o x \o y) : b \in InM \cup {Line(<<Str(l)>>)}, x \in Text \cup {At(g)}, y \in Text}
    \cup {Source(Macro(m, At(l)) \o Calls(m, << >>) \o x) : x \in InSrc}
    \cup {Source(File(inc, Macro(m, b)) \o x) : b \in InM, x \in InSrc}
    \cup {Source(File(inc, Macro(m, b) \o x)) : b \in InM, x \in InSrc}
    \cup {Source(Macro(k, << >>) \o Macro(k, b) \o x) : b \in InM, x \in InSrc}
    \cup {SubSeq(Source(x), 1, Len(x) - 1) \o <<Tok("end")>> : x \in {Macro(m, b) \o Calls(m, <<Sym(g)>>) : b \in InM}}
    \cup {Source(Calls(m, << >>) \o Macro(m, SubSeq(Calls(k, << >>), 1, 1)))}
    \cup {Source(<<Tok("macro")>> \o Eol \o Macro(m, At(l)) \o x) : x \in InSrc}
    \cup {Source(<<Tok("endm")>>), Source(<<Param(1)>> \o Eol), Source(Macro(m, << >>) \o Calls(m, <<Param(1)>>)),
          Source(At(m) \o <<Tok("macro")>>), Source(Begin(m)), Source(Begin(m) \o <<Sym(l)>>), Source(Begin(m) \o <<Str(l), Str(l)>>),
          Source(Begin(m) \o <<Sym(l), Tok("comma")>> \o At(l)),
          Source(Macro(m, Macro(k, At(l))) \o Calls(m, << >>))}

\* Sources with local labels in the source, in a macro and as an argument.
LocalTexts ==
  {Source(Macro(m, b) \o x) : b \in Upto2(InM), x \in Upto2(InSrc)}
    \cup {Source(At(at) \o Line(<<Sym(at)>>))}
=============================================================================
