------------------------------ MODULE NameTable -------------------------------
(***************************************************************************)
(* What a symbol table promises (abstract specification): a name is defined *)
(* at most once, may then be given other values, and is never lost.         *)
(***************************************************************************)
CONSTANT Names

VARIABLE table                 \* from the names defined to their meanings

Init == table = [n \in {} |-> {}]

\* The meanings of the other names are what they were.
OthersKept(name) == \A n \in DOMAIN table \ {name} : table'[n] = table[n]

Define(name) ==
    /\ name \notin DOMAIN table
    /\ DOMAIN table' = DOMAIN table \cup {name}
    /\ OthersKept(name)

Assign(name) ==
    /\ name \in DOMAIN table
    /\ DOMAIN table' = DOMAIN table
    /\ OthersKept(name)

Next == \E name \in Names : Define(name) \/ Assign(name)

Spec == Init /\ [][Next]_table
===============================================================================
