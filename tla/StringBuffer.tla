----------------------------- MODULE StringBuffer ------------------------------
(***************************************************************************)
(* The store of constant strings (StringBuffer.c): blocks filled one after  *)
(* the other and never freed.  A string is the place of its bytes, its      *)
(* terminating zero included.                                              *)
(***************************************************************************)
EXTENDS Integers, Sequences

CONSTANT StrBufBlockSize       \* 0x8000: bytes in a block

ASSUME BlockSizeAssumption == StrBufBlockSize \in Nat \ {0}

VARIABLES strBufPtr,           \* pStrBufPtr: the block, by number
          strBufCurrent,       \* pStrBufCurrent - pStrBufPtr
          strings              \* the strings handed out, in their order

strVars == <<strBufPtr, strBufCurrent, strings>>

StringBufferInit == strBufPtr = 1 /\ strBufCurrent = 0 /\ strings = <<>>

\* Mutant: the room for the zero is forgotten.
MutRoom(len) == strBufCurrent + len <= StrBufBlockSize
Room(len) == strBufCurrent + len + 1 <= StrBufBlockSize

StringBufferInsert(len) ==
    LET block == IF Room(len) THEN strBufPtr ELSE strBufPtr + 1
        first == IF Room(len) THEN strBufCurrent ELSE 0
    IN /\ strBufPtr' = block
       /\ strBufCurrent' = first + len + 1
       /\ strings' = Append(strings, [block |-> block, first |-> first, len |-> len])

Bytes(s) == {<<s.block, i>> : i \in s.first .. s.first + s.len}

\* Strings that fit a block stay in it, and no two share a byte: a name read
\* from the source keeps its spelling as long as the assembler runs.
StringsApart ==
    /\ \A i, j \in DOMAIN strings : i # j => Bytes(strings[i]) \cap Bytes(strings[j]) = {}
    /\ \A i \in DOMAIN strings : strings[i].len < StrBufBlockSize =>
           strings[i].first + strings[i].len < StrBufBlockSize
===============================================================================
