------------------------------- MODULE Lod2P56 ---------------------------------
(***************************************************************************)
(* The converter tools/lod2p56.c, reading the LOD file that Output writes.  *)
(* It takes a line that begins with "_" for a token, in either case, so a   *)
(* symbol's name may be one: a name is told by what it begins with, "_data"  *)
(* (and a letter that names a memory, or none that does), "_end", another    *)
(* "_" or none.  A LOD file has four digits of an address and more where it  *)
(* needs them; the converter reads four.                                    *)
(***************************************************************************)
EXTENDS Output

CONSTANTS Sizes,               \* 2 ^ 16: how many sizes of a block are told apart
          BinWords,            \* 32768: the words of binbuff
          LineWords            \* bound: words that a line of a symbol is read as

ASSUME ConverterAssumption == Sizes \in Nat \ {0} /\ BinWords \in Nat /\ LineWords \in Nat \ {0}

VARIABLES curptr,              \* the line, by number
          mode,                \* what the converter is doing
          binbuff, size_loc

converterVars == <<curptr, mode, binbuff, size_loc>>
vars == <<outputVars, converterVars>>

ConverterInit == curptr = 1 /\ mode = "seek" /\ binbuff = <<>> /\ size_loc = 0

\* The memory that the letter behind "_data" names, if it does.
NameMem(name) == CASE name = "_dataP" -> {P_MEM}
                   [] name = "_dataX" -> {X_MEM}
                   [] name = "_dataY" -> {Y_MEM}
                   [] OTHER           -> {}
DataNames == {"_data", "_dataP", "_dataX", "_dataY"}

\* The token a line begins with, or none.
Token(l) == CASE l.kind \in {"_START", "_SYMBOL", "_DATA", "_END"} -> l.kind
              [] l.kind = "symbol" /\ l.name[1] \in DataNames -> "_DATA"
              [] l.kind = "symbol" /\ l.name[1] = "_end" -> "_END"
              [] l.kind = "symbol" /\ l.name[1] = "_" -> "_"
              [] OTHER -> "none"
AtEof == curptr > Len(lod)
Here == lod[curptr]
Ready == writer = "saved"

\* The first four of the digits: of as many more than four as an address needs.
make_int(pc) == pc \div 16 ^ Min({k \in 0 .. 4 : pc \div 16 ^ k < 16 ^ 4})

\* A word more than binbuff has is stored behind it, and anything may follow.
Into(m) == \/ Len(binbuff') <= BinWords /\ mode' = m
           \/ Len(binbuff') > BinWords /\ mode' \in {m, "dead"}

\* Look for a line that begins a token.
Seek ==
    /\ Ready /\ mode = "seek"
    /\ IF AtEof THEN mode' = "done" /\ UNCHANGED curptr
       ELSE IF Token(Here) = "none" THEN curptr' = curptr + 1 /\ UNCHANGED mode
       ELSE mode' = "token" /\ UNCHANGED curptr
    /\ UNCHANGED <<outputVars, binbuff, size_loc>>

\* Mutant: a token that is not known is not passed over.
MutOtherToken ==
    /\ Ready /\ mode = "token" /\ Token(Here) \notin {"_DATA", "_END"}
    /\ mode' = "seek"
    /\ UNCHANGED <<outputVars, curptr, binbuff, size_loc>>
OtherToken ==
    /\ Ready /\ mode = "token" /\ Token(Here) \notin {"_DATA", "_END"}
    /\ mode' = "seek" /\ curptr' = curptr + 1
    /\ UNCHANGED <<outputVars, binbuff, size_loc>>
EndToken ==
    /\ Ready /\ mode = "token" /\ Token(Here) = "_END"
    /\ mode' = "done"
    /\ UNCHANGED <<outputVars, curptr, binbuff, size_loc>>

\* The memory and address that a line of DATA is read as naming: behind the name
\* of a symbol come letters, no address, and mostly no memory either.
Headers(l) == IF l.kind = "_DATA" THEN {<<l.mem, make_int(l.pc)>>}
              ELSE {<<mem, junk>> : mem \in NameMem(l.name[1]), junk \in Junk}

\* Mutant: the place of the size is not kept.
MutDataToken ==
    /\ Ready /\ mode = "token" /\ Token(Here) = "_DATA"
    /\ \/ /\ \E h \in Headers(Here) : binbuff' = binbuff \o <<h[1], h[2], 0>>
          /\ curptr' = curptr + 1
          /\ Into("convert")
       \/ Headers(Here) = {} /\ mode' = "failed" /\ UNCHANGED <<curptr, binbuff>>
    /\ UNCHANGED <<outputVars, size_loc>>
\* do_convert: the header of a block, or an error when no memory is named.
DataToken ==
    /\ Ready /\ mode = "token" /\ Token(Here) = "_DATA"
    /\ \/ /\ \E h \in Headers(Here) : binbuff' = binbuff \o <<h[1], h[2], 0>>
          /\ size_loc' = Len(binbuff')
          /\ curptr' = curptr + 1
          /\ Into("convert")
       \/ Headers(Here) = {} /\ mode' = "failed" /\ UNCHANGED <<curptr, binbuff, size_loc>>
    /\ UNCHANGED outputVars

\* Mutant: the size counts its own word.
MutConvert ==
    /\ Ready /\ mode = "convert"
    /\ IF AtEof \/ Token(Here) # "none"
       THEN /\ binbuff' = [binbuff EXCEPT ![size_loc] = (Len(binbuff) - size_loc + 1) % Sizes]
            /\ mode' = IF AtEof THEN "done" ELSE "token"
            /\ UNCHANGED curptr
       ELSE /\ Here.kind = "words"
            /\ binbuff' = binbuff \o Here.words
            /\ curptr' = curptr + 1
            /\ Into("convert")
    /\ UNCHANGED <<outputVars, size_loc>>
\* A line of words, or the end of the block, whose size is then known.
Convert ==
    /\ Ready /\ mode = "convert"
    /\ IF AtEof \/ Token(Here) # "none"
       THEN /\ binbuff' = [binbuff EXCEPT ![size_loc] = (Len(binbuff) - size_loc) % Sizes]
            /\ mode' = IF AtEof THEN "done" ELSE "token"
            /\ UNCHANGED curptr
       ELSE /\ Here.kind = "words"
            /\ binbuff' = binbuff \o Here.words
            /\ curptr' = curptr + 1
            /\ Into("convert")
    /\ UNCHANGED <<outputVars, size_loc>>

\* A symbol's line in a block that a symbol began: convert_line reads six
\* characters as a word, whatever they are, so that the last one may take the end
\* of the line and something of the next, which is then looked through for no token.
Misread ==
    /\ Ready /\ ~AtEof
    /\ mode = "within" \/ (mode = "convert" /\ Here.kind = "symbol" /\ Token(Here) = "none")
    /\ \E n \in 1 .. LineWords : \E ws \in [1 .. n -> Junk] : binbuff' = binbuff \o ws
    /\ curptr' = curptr + 1
    /\ Into("convert") \/ Into("within")
    /\ UNCHANGED <<outputVars, size_loc>>
\* Or the end of the file, and what lies behind it in memory.
Overread ==
    /\ Ready /\ mode = "within" /\ AtEof
    /\ binbuff' = [binbuff EXCEPT ![size_loc] = (Len(binbuff) - size_loc) % Sizes]
    /\ mode' \in {"done", "dead"}
    /\ UNCHANGED <<outputVars, curptr, size_loc>>

ConvertFile == Seek \/ OtherToken \/ EndToken \/ DataToken \/ Convert \/ Misread \/ Overread

SpecInit == Init /\ ConverterInit
Saving == Save /\ UNCHANGED converterVars
Next == Saving \/ ConvertFile
Spec == SpecInit /\ [][Next]_vars
\* Both programs run by themselves: one that can take a step takes one.
FairSpec == Spec /\ WF_vars(Next)
===============================================================================
