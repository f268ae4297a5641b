------------------------------ MODULE SymbolTable ------------------------------
(***************************************************************************)
(* The symbol table (SymbolTable.c): a hash table whose chains are made of  *)
(* descriptors taken one after the other from blocks of MAX_DESC, the        *)
(* blocks never freed.  A descriptor is known by its block and its index.    *)
(* Only the first block counts the entry that starts it: every later one     *)
(* is given MAX_DESC + 1, the last of them behind its end.                   *)
(***************************************************************************)
EXTENDS Integers

CONSTANTS Names, MAX_DESC,
          HASH_SIZE, hash      \* the chain of every name

ASSUME TableAssumption ==
    MAX_DESC \in Nat \ {0} /\ HASH_SIZE \in Nat \ {0} /\ hash \in [Names -> 0 .. HASH_SIZE - 1]

VARIABLES hash_tab, slots,
          free_slot, node_len

tableVars == <<hash_tab, slots, free_slot, node_len>>

Null == <<0, 0>>
T_PTR == 0
T_MACRO == 1
T_VALUE == 2
P_MEM == 0
L_MEM == 3

InitSymbolTable ==
    /\ hash_tab = [h \in 0 .. HASH_SIZE - 1 |-> [pHead |-> Null, pTail |-> Null]]
    /\ slots = [a \in {} |-> {}]
    /\ free_slot = <<1, 0>>
    /\ node_len = 0

FindSymbol(name) ==
    LET walk[a \in DOMAIN slots \cup {Null}] ==
            IF a = Null \/ slots[a].pString = name THEN a ELSE walk[slots[a].pNext]
    IN walk[hash_tab[hash[name]].pHead]
Defined(name) == FindSymbol(name) # Null

\* Where the next descriptor is taken.
NewEntry == IF node_len >= MAX_DESC THEN <<free_slot[1] + 1, 0>> ELSE free_slot
PastBlock(a) == a[2] >= MAX_DESC

\* Mutant: a chain is extended at its head, and the rest of it lost.
MutAddSymbol(name, type, val, mem_space) ==
    /\ ~Defined(name)
    /\ hash_tab' = [hash_tab EXCEPT ![hash[name]] = [pHead |-> NewEntry, pTail |-> NewEntry]]
    /\ slots' = [a \in DOMAIN slots \cup {NewEntry} |->
                    IF a = NewEntry
                    THEN [pString |-> name, pNext |-> Null, type |-> type, val |-> val, mem_space |-> mem_space]
                    ELSE slots[a]]
    /\ free_slot' = <<NewEntry[1], NewEntry[2] + 1>>
    /\ node_len' = IF node_len >= MAX_DESC THEN 0 ELSE node_len + 1

\* A new name goes to the end of its chain, and is given its first value.
AddSymbol(name, type, val, mem_space) ==
    LET chain == hash_tab[hash[name]]
        new == NewEntry
        linked == IF chain.pHead = Null THEN slots ELSE [slots EXCEPT ![chain.pTail].pNext = new]
    IN /\ ~Defined(name)
       /\ hash_tab' = [hash_tab EXCEPT ![hash[name]] =
                          [pHead |-> IF chain.pHead = Null THEN new ELSE chain.pHead, pTail |-> new]]
       /\ slots' = [a \in DOMAIN slots \cup {new} |->
                       IF a = new
                       THEN [pString |-> name, pNext |-> Null, type |-> type, val |-> val, mem_space |-> mem_space]
                       ELSE linked[a]]
       /\ free_slot' = <<new[1], new[2] + 1>>
       /\ node_len' = IF node_len >= MAX_DESC THEN 0 ELSE node_len + 1

\* SymSetValue of a resolved value.
SymSetValue(a, meaning, val) ==
    /\ slots' = [slots EXCEPT ![a].type = meaning, ![a].val = val]
    /\ UNCHANGED <<hash_tab, free_slot, node_len>>
SymSetValueMacro(a, meaning) ==
    /\ slots' = [slots EXCEPT ![a].type = meaning]
    /\ UNCHANGED <<hash_tab, free_slot, node_len>>
SymbolSetMemSpace(a, mem_space) ==
    /\ slots' = [slots EXCEPT ![a].mem_space = mem_space]
    /\ UNCHANGED <<hash_tab, free_slot, node_len>>

-------------------------------------------------------------------------------
\* Descriptors are handed out in the order of their addresses.
Before(a, b) == a[1] < b[1] \/ (a[1] = b[1] /\ a[2] < b[2])

\* No descriptor lies behind its block but the one that the count of the later
\* blocks misses (SymbolTable.c:68-78): the first block is never overrun, and
\* no other one by more than one entry.
EntriesInBlock ==
    \A a \in DOMAIN slots : a[2] < IF a[1] = 1 THEN MAX_DESC ELSE MAX_DESC + 1

\* Every descriptor is in the chain of its name and in no other, once: it is
\* the head of the chain or follows exactly one older entry of that chain, the
\* tail is the last one and no name has two (the links AddSymbol makes across
\* blocks; an entry that is not linked is a label nobody finds).
ChainsExact ==
    /\ EntriesInBlock
    /\ \A h \in DOMAIN hash_tab :
          LET chain == {a \in DOMAIN slots : hash[slots[a].pString] = h}
          IN IF chain = {} THEN hash_tab[h] = [pHead |-> Null, pTail |-> Null]
             ELSE /\ hash_tab[h].pHead \in chain /\ hash_tab[h].pTail \in chain
                  /\ \A a \in chain :
                        /\ IF a = hash_tab[h].pTail THEN slots[a].pNext = Null
                           ELSE slots[a].pNext \in chain /\ Before(a, slots[a].pNext)
                        /\ a # hash_tab[h].pHead => \E b \in chain : slots[b].pNext = a
                        /\ \A b \in chain \ {a} : slots[a].pNext = Null \/ slots[a].pNext # slots[b].pNext
    /\ \A a, b \in DOMAIN slots : slots[a].pString = slots[b].pString => a = b
===============================================================================
