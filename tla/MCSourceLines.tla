----------------------------- MODULE MCSourceLines -----------------------------
(***************************************************************************)
(* Blocks of four tokens, three levels of files and streams.  A main file    *)
(* of up to three lines with one included file, and longer ones with macros, *)
(* conditionals, several files and lines that are not ended by a "\n".      *)
(***************************************************************************)
EXTENDS SourceSpec

CONSTANTS fileF, fileG, macM, macN, missing

Nl == << <<"nl">> >>
OneLine(p) == <<p>> \o Nl
C == OneLine(<<"code", FALSE>>)
D == OneLine(<<"code", TRUE>>)
Note(k) == OneLine(<<"comment", k>>)
DWithNote(k) == << <<"code", TRUE>>, <<"comment", k>> >> \o Nl
IncludeLine(x) == OneLine(<<"include", x>>)
MacroLine(x) == OneLine(<<"macro", x>>)
EndmLine == OneLine(<<"endm">>)
CallLine(x) == OneLine(<<"call", x>>)
IfLine == OneLine(<<"if">>)
ElseLine == OneLine(<<"else">>)
EndcLine == OneLine(<<"endc">>)
EndLine == OneLine(<<"end">>)

AnyLine == {C, D, Nl, Note(1), DWithNote(0), IncludeLine(fileF), IncludeLine(missing), MacroLine(macM), EndmLine, CallLine(macM), IfLine, ElseLine, EndcLine, EndLine}
Bare == {<< >>, D, << <<"code", TRUE>> >>, IncludeLine(fileG) \o C, << <<"include", fileG>> >>, IncludeLine(fileF), MacroLine(macM), CallLine(macM), EndcLine, C \o EndLine \o D}

OnDisk(main, inF, inG) == (Main :> main) @@ (fileF :> inF) @@ (fileG :> inG)
Short == {OnDisk(a \o b \o c, x, D) : a, b \in AnyLine, c \in {D, CallLine(macM), IfLine}, x \in Bare}

\* A macro, its body any two lines, called twice; the same in an included file.
Body == {C, D, IncludeLine(fileF), CallLine(macN), IfLine, ElseLine, EndcLine, Nl}
WithMacros ==
    {OnDisk(MacroLine(macN) \o D \o EndmLine \o MacroLine(macM) \o a \o b \o EndmLine \o CallLine(macM) \o D \o CallLine(macM) \o C \o EndcLine \o D, D, D) : a, b \in Body}
    \cup {OnDisk(IncludeLine(fileF) \o CallLine(macM) \o a \o D, MacroLine(macM) \o b \o c \o EndmLine \o D, D \o D) :
              a \in {CallLine(macM), IncludeLine(fileG), C, Nl}, b, c \in {C, D, IncludeLine(fileG), DWithNote(1), CallLine(macM), IfLine, EndcLine}}
    \cup {OnDisk(IncludeLine(fileF) \o D, IncludeLine(fileG) \o a \o D, C \o b) : a \in {C, D, CallLine(macM), IncludeLine(fileG)}, b \in {D, MacroLine(macM) \o D \o EndmLine}}

\* Conditionals, nested and around files, macros and their calls.
Part == {C, D, IncludeLine(fileF), IfLine \o C \o ElseLine \o D \o EndcLine, MacroLine(macM) \o D \o EndmLine, CallLine(macM)}
WithConditionals == {OnDisk(IfLine \o a \o ElseLine \o b \o EndcLine \o D \o CallLine(macM), IfLine \o D \o EndcLine \o C, D) : a, b \in Part}

\* The end of the main file, in every kind of line.
AtTheEnd == {OnDisk(MacroLine(macM) \o D \o EndmLine \o l \o <<p>>, D, D) :
                l \in {<< >>, C, IfLine}, p \in {<<"code", TRUE>>, <<"code", FALSE>>, <<"call", macM>>, <<"call", macN>>, <<"macro", macN>>,
                                             <<"if">>, <<"endm">>, <<"include", fileF>>, <<"comment", 2>>}}
            \cup {OnDisk(MacroLine(macM) \o IfLine \o EndmLine \o CallLine(macM) \o p, D, D) : p \in {D, EndcLine \o D, EndcLine \o OneLine(<<"macro", macN>>)}}

MCSources == Short \cup WithMacros \cup WithConditionals \cup AtTheEnd
MCGarbage == -999
MCFiles == {Main, fileF, fileG}
================================================================================
