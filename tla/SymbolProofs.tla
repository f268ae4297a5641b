---------------------------- MODULE SymbolProofs -----------------------------
(* The symbol table implements a table of names, the stores of symbols and  *)
(* of strings hand out every place once, and a name read has the value the  *)
(* source gives it: for programs of any length, blocks of any size and any  *)
(* hash function.                                                          *)
EXTENDS ExpressionSpec, SequenceLemmas

----------------------------------------------------------------------------
(* The inductive invariant of the table.                                   *)

\* The fields of a descriptor.
Filled(e) ==
  /\ e = [pString |-> e.pString, pNext |-> e.pNext, type |-> e.type, val |-> e.val, mem_space |-> e.mem_space]
  /\ e.pString \in Names

\* Descriptors lie below the free one, and the first block alone counts its first entry.
Allocated ==
  /\ free_slot \in Nat \X Nat /\ free_slot[1] >= 1 /\ node_len \in 0 .. MAX_DESC
  /\ free_slot[2] = IF free_slot[1] = 1 THEN node_len ELSE node_len + 1
  /\ slots = [a \in DOMAIN slots |-> slots[a]]
  /\ \A a \in DOMAIN slots : /\ a \in Nat \X Nat /\ a[1] >= 1 /\ Before(a, free_slot)
                             /\ a[2] < IF a[1] = 1 THEN MAX_DESC ELSE MAX_DESC + 1
                             /\ Filled(slots[a])

Chain(h) == {a \in DOMAIN slots : hash[slots[a].pString] = h}

\* A chain is linked in the order of the addresses.
Follows(h, a) ==
  /\ a = hash_tab[h].pHead \/ Before(hash_tab[h].pHead, a)
  /\ a = hash_tab[h].pTail \/ Before(a, hash_tab[h].pTail)
  /\ a = hash_tab[h].pTail => slots[a].pNext = Null
  /\ a # hash_tab[h].pTail => /\ slots[a].pNext \in Chain(h) /\ Before(a, slots[a].pNext)
                              /\ \A b \in Chain(h) : ~(Before(a, b) /\ Before(b, slots[a].pNext))
  /\ a # hash_tab[h].pHead => \E b \in Chain(h) : slots[b].pNext = a

Linked(h) ==
  /\ hash_tab[h] = [pHead |-> hash_tab[h].pHead, pTail |-> hash_tab[h].pTail]
  /\ Chain(h) = {} => hash_tab[h] = [pHead |-> Null, pTail |-> Null]
  /\ Chain(h) # {} => hash_tab[h].pHead \in Chain(h) /\ hash_tab[h].pTail \in Chain(h)
  /\ \A a \in Chain(h) : Follows(h, a)

OneEach == \A a, b \in DOMAIN slots : slots[a].pString = slots[b].pString => a = b

Table ==
  /\ Allocated
  /\ hash_tab = [h \in 0 .. HASH_SIZE - 1 |-> hash_tab[h]]
  /\ \A h \in 0 .. HASH_SIZE - 1 : Linked(h)
  /\ OneEach

----------------------------------------------------------------------------
(* The order of the addresses.                                             *)

LEMMA BeforeOrder ==
  ASSUME NEW a \in Nat \X Nat, NEW b \in Nat \X Nat, NEW c \in Nat \X Nat
  PROVE  /\ ~Before(a, a)
         /\ Before(a, b) \/ a = b \/ Before(b, a)
         /\ ~(Before(a, b) /\ Before(b, a))
         /\ Before(a, b) /\ Before(b, c) => Before(a, c)
BY DEF Before

\* Of some descriptors one is the last.
LEMMA LastEntry ==
  ASSUME Allocated, NEW T \in SUBSET DOMAIN slots, T # {}
  PROVE  \E m \in T : \A a \in T : a = m \/ Before(a, m)
<1>1. \A a \in T : a \in Nat \X Nat /\ a[1] <= free_slot[1] /\ a[2] <= MAX_DESC /\ a[1] \in Nat /\ a[2] \in Nat
  BY TableAssumption DEF Allocated, Before
<1>2. MAX_DESC \in Nat /\ free_slot[1] \in Nat
  BY TableAssumption DEF Allocated
<1> DEFINE B == {a[1] : a \in T}
<1>3. PICK p \in B : \A q \in B : q <= p
  <2>1. B \in SUBSET Nat /\ B # {} /\ \A q \in B : q <= free_slot[1]
    BY <1>1
  <2> HIDE DEF B
  <2> QED BY <1>2, <2>1, GreatestNatural
<1> DEFINE C == {a[2] : a \in {b \in T : b[1] = p}}
<1>4. PICK c \in C : \A d \in C : d <= c
  <2>1. C \in SUBSET Nat /\ C # {} /\ \A d \in C : d <= MAX_DESC
    BY <1>1
  <2> HIDE DEF C
  <2> QED BY <1>2, <2>1, GreatestNatural
<1>5. PICK m \in T : m[1] = p /\ m[2] = c
  OBVIOUS
<1>6. ASSUME NEW a \in T PROVE a = m \/ Before(a, m)
  <2>1. a[1] \in B /\ a[1] <= m[1]
    BY <1>3, <1>5
  <2>2. a[1] = m[1] => a[2] <= m[2]
    BY <1>4, <1>5
  <2>3. a \in Nat \X Nat /\ m \in Nat \X Nat
    BY <1>1
  <2> QED BY <2>1, <2>2, <2>3 DEF Before
<1> QED BY <1>6

----------------------------------------------------------------------------
(* FindSymbol: what its walk along a chain comes to.                       *)

Walks(f, name) ==
  f = [a \in DOMAIN slots \cup {Null} |-> IF a = Null \/ slots[a].pString = name THEN a ELSE f[slots[a].pNext]]

\* The entry of the name that the walk finds from a on.
Ahead(a, name) == {b \in Chain(hash[name]) : /\ slots[b].pString = name /\ hash[slots[a].pString] = hash[name]
                                             /\ a = b \/ Before(a, b)}
Reached(name) ==
  [a \in DOMAIN slots \cup {Null} |-> IF a = Null \/ Ahead(a, name) = {} THEN Null ELSE CHOOSE b \in Ahead(a, name) : TRUE]

LEMMA Places ==
  ASSUME Table
  PROVE  /\ Null \notin DOMAIN slots
         /\ \A a \in DOMAIN slots : /\ a \in Nat \X Nat /\ slots[a].pString \in Names
                                    /\ hash[slots[a].pString] \in 0 .. HASH_SIZE - 1
                                    /\ a \in Chain(hash[slots[a].pString]) /\ Follows(hash[slots[a].pString], a)
<1>1. \A a \in DOMAIN slots : a \in Nat \X Nat /\ a[1] >= 1 /\ slots[a].pString \in Names
  BY DEF Table, Allocated, Filled
<1>2. Null \notin DOMAIN slots
  BY <1>1 DEF Null
<1>3. \A a \in DOMAIN slots : a \in Chain(hash[slots[a].pString]) /\ hash[slots[a].pString] \in 0 .. HASH_SIZE - 1
  BY <1>1, TableAssumption DEF Chain
<1>4. \A a \in DOMAIN slots : Follows(hash[slots[a].pString], a)
  BY <1>3 DEF Table, Linked
<1> QED BY <1>1, <1>2, <1>3, <1>4

\* What stands ahead of an entry of another name stands ahead of the next one.
LEMMA AheadOfNext ==
  ASSUME Table, NEW name \in Names, NEW a \in DOMAIN slots, slots[a].pString # name
  PROVE  /\ slots[a].pNext \in DOMAIN slots \cup {Null}
         /\ slots[a].pNext = Null => Ahead(a, name) = {}
         /\ slots[a].pNext # Null => Ahead(a, name) = Ahead(slots[a].pNext, name)
<1> DEFINE h == hash[slots[a].pString]
<1>1. /\ Follows(h, a) /\ \A b \in DOMAIN slots : b \in Nat \X Nat /\ Null \notin DOMAIN slots
      /\ \A b \in DOMAIN slots : Follows(hash[slots[b].pString], b)
  BY Places
<1>2. a \in Nat \X Nat
  BY <1>1
<1>3. CASE a = hash_tab[h].pTail
  <2>1. slots[a].pNext = Null
    BY <1>1, <1>3 DEF Follows
  <2>2. ASSUME NEW b \in Ahead(a, name) PROVE FALSE
    <3>1. b \in DOMAIN slots /\ b # a /\ Before(a, b) /\ hash[slots[b].pString] = h
      BY DEF Ahead, Chain
    <3>2. b = a \/ Before(b, a)
      BY <1>1, <1>3, <3>1 DEF Follows
    <3> QED BY <1>1, <1>2, <3>1, <3>2, BeforeOrder
  <2> QED BY <2>1, <2>2
<1>4. CASE a # hash_tab[h].pTail
  <2> DEFINE c == slots[a].pNext
  <2>1. c \in Chain(h) /\ Before(a, c) /\ \A b \in Chain(h) : ~(Before(a, b) /\ Before(b, c))
    BY <1>1, <1>4 DEF Follows
  <2>2. c \in DOMAIN slots /\ hash[slots[c].pString] = h /\ c \in Nat \X Nat
    BY <1>1, <2>1 DEF Chain
  <2>3. ASSUME NEW b \in Chain(h), slots[b].pString = name
        PROVE  (a = b \/ Before(a, b)) <=> (c = b \/ Before(c, b))
    <3>1. b \in Nat \X Nat /\ a # b
      BY <1>1, <2>3 DEF Chain
    <3>2. Before(a, b) => b = c \/ Before(c, b)
      BY <2>1, <2>2, <3>1, BeforeOrder
    <3>3. Before(c, b) => Before(a, b)
      BY <1>2, <2>1, <2>2, <3>1, BeforeOrder
    <3> HIDE DEF c
    <3> QED BY <2>1, <3>1, <3>2, <3>3
  <2>4. Ahead(a, name) = Ahead(c, name)
    <3> HIDE DEF c
    <3> QED BY <2>2, <2>3 DEF Ahead
  <2> QED BY <1>1, <2>2, <2>4
<1> QED BY <1>3, <1>4

LEMMA ReachedWalks ==
  ASSUME Table, NEW name \in Names
  PROVE  Walks(Reached(name), name)
<1> DEFINE W == Reached(name)
<1>1. ASSUME NEW a \in DOMAIN slots, slots[a].pString = name PROVE W[a] = a
  <2>1. a # Null /\ a \in Chain(hash[name])
    BY <1>1, Places
  <2>2. Ahead(a, name) = {a}
    <3>1. a \in Ahead(a, name)
      BY <1>1, <2>1 DEF Ahead
    <3>2. \A b \in Ahead(a, name) : b = a
      BY <1>1 DEF Ahead, Chain, Table, OneEach
    <3> QED BY <3>1, <3>2
  <2> QED BY <2>1, <2>2 DEF Reached
<1>2. ASSUME NEW a \in DOMAIN slots, slots[a].pString # name PROVE W[a] = W[slots[a].pNext]
  <2>1. a # Null
    BY Places
  <2>2. slots[a].pNext \in DOMAIN slots \cup {Null}
    BY <1>2, AheadOfNext
  <2>3. CASE slots[a].pNext = Null
    BY <1>2, <2>1, <2>3, AheadOfNext DEF Reached
  <2>4. CASE slots[a].pNext # Null
    <3>1. Ahead(a, name) = Ahead(slots[a].pNext, name)
      BY <1>2, <2>4, AheadOfNext
    <3> QED BY <2>1, <2>2, <2>4, <3>1 DEF Reached
  <2> QED BY <2>3, <2>4
<1>3. W[Null] = Null
  BY DEF Reached
<1>4. W = [a \in DOMAIN slots \cup {Null} |-> W[a]]
  BY DEF Reached
<1>5. W = [a \in DOMAIN slots \cup {Null} |-> IF a = Null \/ slots[a].pString = name THEN a ELSE W[slots[a].pNext]]
  <2> HIDE DEF W
  <2> QED BY <1>1, <1>2, <1>3, <1>4
<1> QED BY <1>5 DEF Walks

LEMMA OneWalk ==
  ASSUME Table, NEW name \in Names, NEW f, Walks(f, name), NEW g, Walks(g, name)
  PROVE  f = g
<1> DEFINE D == {a \in DOMAIN slots : f[a] # g[a]}
<1>1. /\ f = [a \in DOMAIN slots \cup {Null} |-> f[a]] /\ g = [a \in DOMAIN slots \cup {Null} |-> g[a]]
      /\ f[Null] = Null /\ g[Null] = Null
      /\ \A a \in DOMAIN slots : IF a = Null \/ slots[a].pString = name THEN f[a] = a /\ g[a] = a
                                 ELSE f[a] = f[slots[a].pNext] /\ g[a] = g[slots[a].pNext]
  BY DEF Walks
<1>2. D = {}
  <2>1. SUFFICES ASSUME D # {} PROVE FALSE
    OBVIOUS
  <2>2. PICK m \in D : \A a \in D : a = m \/ Before(a, m)
    <3>1. D \in SUBSET DOMAIN slots
      OBVIOUS
    <3> HIDE DEF D
    <3> QED BY <2>1, <3>1, LastEntry DEF Table
  <2>3. m \in DOMAIN slots /\ m # Null /\ slots[m].pString # name /\ f[slots[m].pNext] # g[slots[m].pNext]
    BY <1>1
  <2>4. slots[m].pNext # Null
    BY <1>1, <2>3
  <2>5. slots[m].pNext \in DOMAIN slots /\ Before(m, slots[m].pNext) /\ slots[m].pNext # m
    <3> DEFINE h == hash[slots[m].pString]
    <3>1. Follows(h, m) /\ m \in Nat \X Nat
      BY <2>3, Places
    <3>2. slots[m].pNext \in Chain(h) /\ Before(m, slots[m].pNext)
      BY <2>4, <3>1 DEF Follows
    <3>3. ~Before(m, m)
      BY <3>1 DEF Before
    <3> QED BY <3>2, <3>3 DEF Chain
  <2>6. slots[m].pNext \in D
    BY <2>3, <2>5
  <2>7. Before(slots[m].pNext, m)
    BY <2>2, <2>5, <2>6
  <2>8. m \in Nat \X Nat /\ slots[m].pNext \in Nat \X Nat
    BY <2>3, <2>5, Places
  <2> HIDE DEF D
  <2> QED BY <2>5, <2>7, <2>8, BeforeOrder
<1>3. \A a \in DOMAIN slots \cup {Null} : f[a] = g[a]
  BY <1>1, <1>2
<1> HIDE DEF D
<1> QED BY <1>1, <1>3

\* A name has one descriptor at most, and FindSymbol finds it when there is one.
LEMMA FindExact ==
  ASSUME Table, NEW name \in Names
  PROVE  /\ \A a \in DOMAIN slots : slots[a].pString = name => FindSymbol(name) = a
         /\ (\A a \in DOMAIN slots : slots[a].pString # name) => FindSymbol(name) = Null
<1> DEFINE head == hash_tab[hash[name]].pHead
<1>1. FindSymbol(name) = (CHOOSE f : Walks(f, name))[head]
  BY DEF FindSymbol, Walks
<1>2. Walks(CHOOSE f : Walks(f, name), name)
  BY ReachedWalks
<1>3. FindSymbol(name) = Reached(name)[head]
  BY <1>1, <1>2, ReachedWalks, OneWalk
<1>4. /\ hash[name] \in 0 .. HASH_SIZE - 1 /\ Linked(hash[name])
  BY TableAssumption DEF Table
<1>5. ASSUME NEW a \in DOMAIN slots, slots[a].pString = name PROVE FindSymbol(name) = a
  <2>1. a \in Chain(hash[name]) /\ head \in Chain(hash[name])
    BY <1>4, <1>5 DEF Linked, Chain
  <2>2. a \in Ahead(head, name)
    BY <1>4, <1>5, <2>1 DEF Linked, Follows, Ahead, Chain
  <2>3. Ahead(head, name) = {a}
    BY <1>5, <2>2 DEF Ahead, Chain, Table, OneEach
  <2>4. head # Null /\ head \in DOMAIN slots
    BY <2>1, Places DEF Chain
  <2> HIDE DEF head
  <2> QED BY <1>3, <2>3, <2>4 DEF Reached
<1>6. ASSUME \A a \in DOMAIN slots : slots[a].pString # name PROVE FindSymbol(name) = Null
  <2>1. Ahead(head, name) = {}
    BY <1>6 DEF Ahead, Chain
  <2>2. head \in DOMAIN slots \cup {Null}
    BY <1>4 DEF Linked, Chain
  <2> HIDE DEF head
  <2> QED BY <1>3, <2>1, <2>2 DEF Reached
<1> QED BY <1>5, <1>6

----------------------------------------------------------------------------
(* The steps of the table.                                                 *)

\* A new descriptor is behind all others, within its block or one behind it.
LEMMA NewPlace ==
  ASSUME Allocated
  PROVE  /\ NewEntry \in Nat \X Nat /\ NewEntry[1] >= 1 /\ NewEntry # Null /\ NewEntry \notin DOMAIN slots
         /\ \A a \in DOMAIN slots : Before(a, NewEntry)
         /\ NewEntry[2] < IF NewEntry[1] = 1 THEN MAX_DESC ELSE MAX_DESC + 1
<1> DEFINE new == NewEntry
<1>1. free_slot \in Nat \X Nat /\ free_slot[1] \in Nat /\ free_slot[2] \in Nat /\ MAX_DESC \in Nat \ {0} /\ node_len \in 0 .. MAX_DESC
  BY TableAssumption DEF Allocated
<1>2. free_slot[1] >= 1 /\ free_slot[2] = IF free_slot[1] = 1 THEN node_len ELSE node_len + 1
  BY DEF Allocated
<1>3. /\ new \in Nat \X Nat /\ new[1] >= 1 /\ (new = free_slot \/ Before(free_slot, new))
      /\ new[2] < IF new[1] = 1 THEN MAX_DESC ELSE MAX_DESC + 1
  <2>1. CASE node_len >= MAX_DESC
    <3>1. new = <<free_slot[1] + 1, 0>>
      BY <2>1 DEF NewEntry
    <3> HIDE DEF new
    <3> QED BY <1>1, <1>2, <3>1 DEF Before
  <2>2. CASE ~(node_len >= MAX_DESC)
    <3>1. new = free_slot
      BY <2>2 DEF NewEntry
    <3> HIDE DEF new
    <3> QED BY <1>1, <1>2, <2>2, <3>1 DEF Before
  <2> QED BY <2>1, <2>2
<1>4. ASSUME NEW a \in DOMAIN slots PROVE Before(a, new)
  <2>1. a \in Nat \X Nat /\ Before(a, free_slot)
    BY DEF Allocated
  <2> HIDE DEF new
  <2> QED BY <1>1, <1>3, <2>1, BeforeOrder
<1>5. new \notin DOMAIN slots
  <2> HIDE DEF new
  <2> QED BY <1>3, <1>4, BeforeOrder
<1>6. new # Null
  <2> HIDE DEF new
  <2> QED BY <1>3 DEF Null
<1> HIDE DEF new
<1> QED BY <1>3, <1>4, <1>5, <1>6 DEF new

\* What the new entry and its chain come to be.
LEMMA AddedEntry ==
  ASSUME Table, NEW name \in Names, NEW type, NEW val, NEW mem_space, AddSymbol(name, type, val, mem_space)
  PROVE  /\ DOMAIN slots' = DOMAIN slots \cup {NewEntry}
         /\ slots' = [a \in DOMAIN slots' |-> slots'[a]]
         /\ slots'[NewEntry] = [pString |-> name, pNext |-> Null, type |-> type, val |-> val, mem_space |-> mem_space]
         /\ \A a \in DOMAIN slots :
               slots'[a] = [pString |-> slots[a].pString,
                            pNext |-> IF Chain(hash[name]) # {} /\ a = hash_tab[hash[name]].pTail THEN NewEntry ELSE slots[a].pNext,
                            type |-> slots[a].type, val |-> slots[a].val, mem_space |-> slots[a].mem_space]
         /\ slots'[NewEntry].pString = name /\ slots'[NewEntry].pNext = Null
         /\ \A a \in DOMAIN slots :
               /\ slots'[a].pString = slots[a].pString
               /\ slots'[a].pNext = IF Chain(hash[name]) # {} /\ a = hash_tab[hash[name]].pTail THEN NewEntry ELSE slots[a].pNext
         /\ \A a \in DOMAIN slots :
               /\ slots'[a].type = slots[a].type /\ slots'[a].val = slots[a].val /\ slots'[a].mem_space = slots[a].mem_space
<1> DEFINE new == NewEntry
           chain == hash_tab[hash[name]]
           linked == IF chain.pHead = Null THEN slots ELSE [slots EXCEPT ![chain.pTail].pNext = new]
           entry == [pString |-> name, pNext |-> Null, type |-> type, val |-> val, mem_space |-> mem_space]
<1>1. slots' = [a \in DOMAIN slots \cup {new} |-> IF a = new THEN entry ELSE linked[a]]
  BY DEF AddSymbol
<1>2. new \notin DOMAIN slots
  BY NewPlace DEF Table
<1>3. Linked(hash[name]) /\ (chain.pHead = Null <=> Chain(hash[name]) = {})
  <2>1. Linked(hash[name])
    BY TableAssumption DEF Table
  <2>2. Chain(hash[name]) # {} => chain.pHead # Null
    BY <2>1, Places DEF Linked, Chain
  <2> QED BY <2>1, <2>2 DEF Linked
<1>4. ASSUME NEW a \in DOMAIN slots
      PROVE  slots'[a] = [pString |-> slots[a].pString,
                          pNext |-> IF Chain(hash[name]) # {} /\ a = chain.pTail THEN new ELSE slots[a].pNext,
                          type |-> slots[a].type, val |-> slots[a].val, mem_space |-> slots[a].mem_space]
  <2>1. slots'[a] = linked[a]
    BY <1>1, <1>2
  <2>2. slots[a] = [pString |-> slots[a].pString, pNext |-> slots[a].pNext, type |-> slots[a].type,
                    val |-> slots[a].val, mem_space |-> slots[a].mem_space]
    BY DEF Table, Allocated, Filled
  <2>3. linked[a] = IF chain.pHead # Null /\ a = chain.pTail THEN [slots[a] EXCEPT !.pNext = new] ELSE slots[a]
    BY Zenon
  <2>4. [slots[a] EXCEPT !.pNext = new] = [pString |-> slots[a].pString, pNext |-> new, type |-> slots[a].type,
                                           val |-> slots[a].val, mem_space |-> slots[a].mem_space]
    BY <2>2
  <2> HIDE DEF new, chain, linked
  <2> QED BY <1>3, <2>1, <2>2, <2>3, <2>4
<1>5. DOMAIN slots' = DOMAIN slots \cup {new} /\ slots'[new] = entry /\ slots' = [a \in DOMAIN slots' |-> slots'[a]]
  <2> HIDE DEF new, linked, entry
  <2> QED BY <1>1
<1>6. slots'[new].pString = name /\ slots'[new].pNext = Null
  <2> HIDE DEF new
  <2> QED BY <1>5
<1>7. ASSUME NEW a \in DOMAIN slots
      PROVE  /\ slots'[a].pString = slots[a].pString
             /\ slots'[a].pNext = IF Chain(hash[name]) # {} /\ a = chain.pTail THEN new ELSE slots[a].pNext
             /\ slots'[a].type = slots[a].type /\ slots'[a].val = slots[a].val /\ slots'[a].mem_space = slots[a].mem_space
  <2> DEFINE next == IF Chain(hash[name]) # {} /\ a = chain.pTail THEN new ELSE slots[a].pNext
  <2>1. slots'[a] = [pString |-> slots[a].pString, pNext |-> next,
                     type |-> slots[a].type, val |-> slots[a].val, mem_space |-> slots[a].mem_space]
    BY <1>4
  <2>2. /\ slots'[a].pString = slots[a].pString /\ slots'[a].pNext = next
        /\ slots'[a].type = slots[a].type /\ slots'[a].val = slots[a].val /\ slots'[a].mem_space = slots[a].mem_space
    <3> HIDE DEF next
    <3> QED BY <2>1
  <2> QED BY <2>2
<1> QED BY <1>4, <1>5, <1>6, <1>7

LEMMA AddedAllocated ==
  ASSUME Table, NEW name \in Names, NEW type, NEW val, NEW mem_space, AddSymbol(name, type, val, mem_space)
  PROVE  Allocated'
<1> DEFINE new == NewEntry
<1>1. /\ free_slot \in Nat \X Nat /\ free_slot[1] \in Nat /\ free_slot[2] \in Nat /\ MAX_DESC \in Nat \ {0} /\ node_len \in 0 .. MAX_DESC
      /\ free_slot[1] >= 1 /\ free_slot[2] = IF free_slot[1] = 1 THEN node_len ELSE node_len + 1
  BY TableAssumption DEF Table, Allocated
<1>0. /\ DOMAIN slots' = DOMAIN slots \cup {new} /\ slots' = [a \in DOMAIN slots' |-> slots'[a]]
      /\ slots'[new] = [pString |-> name, pNext |-> Null, type |-> type, val |-> val, mem_space |-> mem_space]
      /\ \A a \in DOMAIN slots :
            slots'[a] = [pString |-> slots[a].pString,
                         pNext |-> IF Chain(hash[name]) # {} /\ a = hash_tab[hash[name]].pTail THEN new ELSE slots[a].pNext,
                         type |-> slots[a].type, val |-> slots[a].val, mem_space |-> slots[a].mem_space]
  BY AddedEntry
<1>2. /\ new \in Nat \X Nat /\ new[1] >= 1 /\ \A a \in DOMAIN slots : Before(a, new)
      /\ new[2] < IF new[1] = 1 THEN MAX_DESC ELSE MAX_DESC + 1
  BY NewPlace DEF Table
<1>3. free_slot' = <<new[1], new[2] + 1>> /\ node_len' = IF node_len >= MAX_DESC THEN 0 ELSE node_len + 1
  BY DEF AddSymbol
<1>4. /\ free_slot' \in Nat \X Nat /\ free_slot'[1] >= 1 /\ node_len' \in 0 .. MAX_DESC
      /\ free_slot'[2] = IF free_slot'[1] = 1 THEN node_len' ELSE node_len' + 1
  <2>1. CASE node_len >= MAX_DESC
    <3>1. new = <<free_slot[1] + 1, 0>>
      BY <2>1 DEF NewEntry
    <3> HIDE DEF new
    <3> QED BY <1>1, <1>3, <2>1, <3>1
  <2>2. CASE ~(node_len >= MAX_DESC)
    <3>1. new = free_slot
      BY <2>2 DEF NewEntry
    <3> HIDE DEF new
    <3> QED BY <1>1, <1>3, <2>2, <3>1
  <2> QED BY <2>1, <2>2
<1>5. Before(new, free_slot')
  <2> HIDE DEF new
  <2> QED BY <1>2, <1>3 DEF Before
<1>6. ASSUME NEW a \in DOMAIN slots'
      PROVE  /\ a \in Nat \X Nat /\ a[1] >= 1 /\ Before(a, free_slot')
             /\ a[2] < IF a[1] = 1 THEN MAX_DESC ELSE MAX_DESC + 1
  <2>1. a \in DOMAIN slots \/ a = new
    BY <1>0
  <2>2. a \in DOMAIN slots => /\ a \in Nat \X Nat /\ a[1] >= 1
                              /\ a[2] < IF a[1] = 1 THEN MAX_DESC ELSE MAX_DESC + 1
    BY DEF Table, Allocated
  <2>3. a \in DOMAIN slots => Before(a, free_slot')
    <3> HIDE DEF new
    <3> QED BY <1>2, <1>4, <1>5, <2>2, BeforeOrder
  <2> HIDE DEF new
  <2> QED BY <1>2, <1>5, <2>1, <2>2, <2>3
<1>7. ASSUME NEW a \in DOMAIN slots'
      PROVE  /\ slots'[a] = [pString |-> slots'[a].pString, pNext |-> slots'[a].pNext, type |-> slots'[a].type,
                             val |-> slots'[a].val, mem_space |-> slots'[a].mem_space]
             /\ slots'[a].pString \in Names
  <2>1. a \in DOMAIN slots \/ a = new
    BY <1>0
  <2>2. CASE a \in DOMAIN slots
    <3>1. slots[a].pString \in Names
      BY <2>2 DEF Table, Allocated, Filled
    <3> QED BY <1>0, <2>2, <3>1
  <2>3. CASE a = new
    BY <1>0, <2>3
  <2> QED BY <2>1, <2>2, <2>3
<1>8. slots' = [a \in DOMAIN slots' |-> slots'[a]]
  BY <1>0
<1> HIDE DEF new
<1> QED BY <1>4, <1>6, <1>7, <1>8 DEF Allocated, Filled, Before

LEMMA AddedLinked ==
  ASSUME Table, NEW name \in Names, NEW type, NEW val, NEW mem_space, AddSymbol(name, type, val, mem_space),
         NEW h \in 0 .. HASH_SIZE - 1
  PROVE  Linked(h)'
<1> DEFINE new == NewEntry
           c == hash[name]
<1>1. new \in Nat \X Nat /\ new # Null /\ new \notin DOMAIN slots /\ \A a \in DOMAIN slots : Before(a, new)
  BY NewPlace DEF Table
<1>2. c \in 0 .. HASH_SIZE - 1 /\ Linked(h) /\ Linked(c) /\ hash_tab = [k \in 0 .. HASH_SIZE - 1 |-> hash_tab[k]]
  BY TableAssumption DEF Table
<1>3. /\ DOMAIN slots' = DOMAIN slots \cup {new} /\ slots'[new].pString = name /\ slots'[new].pNext = Null
      /\ \A a \in DOMAIN slots : /\ slots'[a].pString = slots[a].pString
                                 /\ slots'[a].pNext = IF Chain(c) # {} /\ a = hash_tab[c].pTail THEN new ELSE slots[a].pNext
  BY AddedEntry
<1>4. Chain(h)' = IF h = c THEN Chain(h) \cup {new} ELSE Chain(h)
  <2> HIDE DEF new
  <2> QED BY <1>1, <1>3 DEF Chain
<1>5. hash_tab[c].pHead = Null <=> Chain(c) = {}
  BY <1>2, Places DEF Linked, Chain
<1>6. hash_tab'[h] = IF h = c THEN [pHead |-> IF Chain(c) = {} THEN new ELSE hash_tab[c].pHead, pTail |-> new] ELSE hash_tab[h]
  <2>1. hash_tab' = [hash_tab EXCEPT ![c] = [pHead |-> IF hash_tab[c].pHead = Null THEN new ELSE hash_tab[c].pHead, pTail |-> new]]
    BY DEF AddSymbol
  <2> HIDE DEF new
  <2> QED BY <1>2, <1>5, <2>1
<1>7. \A a \in Chain(h) : a \in DOMAIN slots /\ a \in Nat \X Nat /\ Follows(h, a)
  BY <1>2, Places DEF Linked, Chain
<1>8. CASE h # c
  <2>1. Chain(h)' = Chain(h) /\ hash_tab'[h] = hash_tab[h]
    BY <1>4, <1>6, <1>8
  <2>2. \A a \in Chain(h) : slots'[a].pNext = slots[a].pNext
    <3>1. Chain(c) # {} => hash_tab[c].pTail \in Chain(c)
      BY <1>2 DEF Linked
    <3>2. \A a \in Chain(h) : a \notin Chain(c)
      BY <1>8 DEF Chain
    <3> QED BY <1>3, <1>7, <3>1, <3>2
  <2>3. ASSUME NEW a \in Chain(h) PROVE Follows(h, a)'
    <3>1. Follows(h, a)
      BY <1>7
    <3> QED BY <2>1, <2>2, <3>1 DEF Follows
  <2>4. \A a \in Chain(h)' : Follows(h, a)'
    BY <2>1, <2>3
  <2> QED BY <1>2, <2>1, <2>4 DEF Linked
<1>9. CASE h = c
  <2>1. Chain(h)' = Chain(h) \cup {new} /\ hash_tab'[h].pTail = new
    BY <1>4, <1>6, <1>9
  <2>2. CASE Chain(h) = {}
    <3>1. hash_tab'[h] = [pHead |-> new, pTail |-> new] /\ Chain(h)' = {new}
      BY <1>6, <1>9, <2>1, <2>2
    <3>2. ASSUME NEW a \in Chain(h)' PROVE Follows(h, a)'
      <4>1. a = new
        BY <3>1
      <4> HIDE DEF new
      <4> QED BY <1>3, <3>1, <4>1 DEF Follows
    <3> HIDE DEF new
    <3> QED BY <3>1, <3>2 DEF Linked
  <2>3. CASE Chain(h) # {}
    <3> DEFINE tail == hash_tab[h].pTail
    <3>1. hash_tab'[h] = [pHead |-> hash_tab[h].pHead, pTail |-> new] /\ tail \in Chain(h) /\ hash_tab[h].pHead \in Chain(h)
      BY <1>2, <1>6, <1>9, <2>3 DEF Linked
    <3>2. \A a \in Chain(h) : a # new /\ slots'[a].pNext = IF a = tail THEN new ELSE slots[a].pNext
      BY <1>1, <1>3, <1>7, <1>9, <2>3
    <3>3. \A b \in Chain(h) : b = tail \/ Before(b, tail)
      BY <1>7 DEF Follows
    <3>4. ASSUME NEW a \in {new} PROVE Follows(h, a)'
      <4>1. Before(hash_tab[h].pHead, new)
        BY <1>1, <1>7, <3>1
      <4>2. slots'[tail].pNext = new
        BY <3>1, <3>2
      <4>3. slots'[new].pNext = Null
        BY <1>3
      <4>4. tail \in Chain(h)'
        BY <2>1, <3>1
      <4>5. a = new
        OBVIOUS
      <4> HIDE DEF new, tail
      <4> QED BY <3>1, <4>1, <4>2, <4>3, <4>4, <4>5 DEF Follows
    <3>5. ASSUME NEW a \in Chain(h) PROVE Follows(h, a)'
      <4>1. Follows(h, a) /\ a \in Nat \X Nat /\ Before(a, new) /\ a # new
        BY <1>1, <1>7, <3>2
      <4>2. a = tail => /\ slots'[a].pNext = new
                        /\ \A b \in Chain(h)' : ~(Before(a, b) /\ Before(b, new))
        <5>1. \A b \in Chain(h) : a = tail => ~Before(a, b)
          BY <1>7, <3>3, <4>1, BeforeOrder
        <5>2. ~Before(new, new)
          BY <1>1, BeforeOrder
        <5> HIDE DEF new, tail
        <5> QED BY <2>1, <3>2, <5>1, <5>2
      <4>3. a # tail => /\ slots'[a].pNext = slots[a].pNext /\ slots[a].pNext \in Chain(h)' /\ Before(a, slots[a].pNext)
                        /\ \A b \in Chain(h)' : ~(Before(a, b) /\ Before(b, slots[a].pNext))
        <5>1. a # tail => /\ slots[a].pNext \in Chain(h) /\ Before(a, slots[a].pNext)
                          /\ \A b \in Chain(h) : ~(Before(a, b) /\ Before(b, slots[a].pNext))
          BY <4>1 DEF Follows
        <5>2. \A b \in Chain(h) : ~Before(new, b)
          BY <1>1, <1>7, BeforeOrder
        <5> HIDE DEF new, tail
        <5> QED BY <2>1, <3>2, <5>1, <5>2
      <4>4. a # hash_tab[h].pHead => \E b \in Chain(h)' : slots'[b].pNext = a
        <5>1. SUFFICES ASSUME a # hash_tab[h].pHead PROVE \E b \in Chain(h)' : slots'[b].pNext = a
          OBVIOUS
        <5>2. PICK b \in Chain(h) : slots[b].pNext = a
          BY <4>1, <5>1 DEF Follows
        <5>3. b # tail
          <6>1. slots[tail].pNext = Null /\ a # Null
            BY <1>7, <3>1, Places DEF Follows
          <6> QED BY <5>2, <6>1
        <5> HIDE DEF new, tail
        <5> QED BY <2>1, <3>2, <5>2, <5>3
      <4>5. new \in Chain(h)' /\ (a = hash_tab[h].pHead \/ Before(hash_tab[h].pHead, a))
        BY <2>1, <4>1 DEF Follows
      <4> HIDE DEF new, tail
      <4> QED BY <3>1, <4>1, <4>2, <4>3, <4>4, <4>5 DEF Follows
    <3>6. \A a \in Chain(h)' : Follows(h, a)'
      BY <2>1, <3>4, <3>5
    <3>7. hash_tab'[h].pHead \in Chain(h)' /\ hash_tab'[h].pTail \in Chain(h)' /\ Chain(h)' # {}
          /\ hash_tab'[h] = [pHead |-> hash_tab'[h].pHead, pTail |-> hash_tab'[h].pTail]
      BY <2>1, <3>1
    <3> HIDE DEF new, tail
    <3> QED BY <3>6, <3>7 DEF Linked
  <2> QED BY <2>2, <2>3
<1> QED BY <1>8, <1>9

LEMMA AddKeepsTable ==
  ASSUME Table, NEW name \in Names, NEW type, NEW val, NEW mem_space, AddSymbol(name, type, val, mem_space)
  PROVE  Table'
<1>1. Allocated' /\ \A h \in 0 .. HASH_SIZE - 1 : Linked(h)'
  BY AddedAllocated, AddedLinked
<1>2. hash_tab' = [h \in 0 .. HASH_SIZE - 1 |-> hash_tab'[h]]
  BY DEF Table, AddSymbol
<1>3. \A a \in DOMAIN slots : slots[a].pString # name
  <2>1. \A a \in DOMAIN slots : a # Null
    BY Places
  <2> QED BY <2>1, FindExact DEF AddSymbol, Defined
<1>4. OneEach'
  <2>1. /\ DOMAIN slots' = DOMAIN slots \cup {NewEntry} /\ slots'[NewEntry].pString = name
        /\ \A a \in DOMAIN slots : slots'[a].pString = slots[a].pString
    <3> DEFINE new == NewEntry
    <3> HIDE DEF new
    <3> QED BY AddedEntry DEF new
  <2>2. \A a, b \in DOMAIN slots : slots[a].pString = slots[b].pString => a = b
    BY DEF Table, OneEach
  <2> QED BY <1>3, <2>1, <2>2 DEF OneEach
<1> QED BY <1>1, <1>2, <1>4 DEF Table

\* The steps that change a meaning only.
LEMMA AssignKeepsTable ==
  ASSUME Table, UNCHANGED <<hash_tab, free_slot, node_len>>,
         slots' = [a \in DOMAIN slots |-> slots'[a]],
         \A a \in DOMAIN slots : /\ Filled(slots'[a])
                                 /\ slots'[a].pString = slots[a].pString /\ slots'[a].pNext = slots[a].pNext
  PROVE  Table'
<1>1. DOMAIN slots' = DOMAIN slots
  OBVIOUS
<1>2. Allocated'
  BY <1>1 DEF Table, Allocated, Filled, Before
<1>3. \A h : Chain(h)' = Chain(h)
  BY <1>1 DEF Chain
<1>4. ASSUME NEW h \in 0 .. HASH_SIZE - 1 PROVE Linked(h)'
  <2>1. \A a \in Chain(h) : slots'[a].pNext = slots[a].pNext
    BY DEF Chain
  <2>2. Linked(h) /\ Chain(h)' = Chain(h)
    BY <1>3 DEF Table
  <2>3. ASSUME NEW a \in Chain(h) PROVE Follows(h, a)'
    <3>1. Follows(h, a)
      BY <2>2 DEF Linked
    <3> QED BY <2>1, <2>2, <3>1 DEF Follows
  <2> QED BY <2>2, <2>3 DEF Linked
<1>5. OneEach'
  BY <1>1 DEF Table, OneEach
<1> QED BY <1>2, <1>4, <1>5 DEF Table

----------------------------------------------------------------------------
(* The tokens of a program have the names it may use.                      *)

LEMMA TokenTypes ==
  ASSUME NEW p \in Programs
  PROVE  TokensOfLines(p.lines) \in Seq(Token)
<1> DEFINE lines == p.lines
           parts == [i \in DOMAIN lines |-> TokensOf(lines[i])]
<1>1. lines \in Seq(Statements)
  BY ProgramsAssumption
<1>2. ASSUME NEW s \in Statements PROVE TokensOf(s) \in Seq(Token)
  <2>1. s.name \in Names \cup {NoName} /\ s.exps \in Seq(Seq(Token))
    BY DEF Statements
  <2>2. s.name # NoName => Sym(s.name) \in Token
    BY <2>1 DEF Token, Sym
  <2>3. FlattenSeq(s.exps) \in Seq(Token)
    BY <2>1, FlattenType
  <2> QED BY <2>2, <2>3 DEF TokensOf
<1>3. parts \in Seq(Seq(Token))
  <2>1. DOMAIN lines = 1 .. Len(lines) /\ Len(lines) \in Nat /\ \A i \in 1 .. Len(lines) : lines[i] \in Statements
    BY <1>1
  <2> HIDE DEF lines
  <2> QED BY <1>2, <2>1
<1>4. FlattenSeq(parts) \in Seq(Token)
  <2> HIDE DEF parts
  <2> QED BY <1>3, FlattenType
<1> QED BY <1>4 DEF TokensOfLines

LEMMA SymbolName == ASSUME NEW t \in Token, t.k = "sym" PROVE t.name \in Names
BY DEF Token

----------------------------------------------------------------------------
(* Every step of the assembler, as the table and the store see it.         *)

\* What is parsed and what is still to read.
Texts ==
  /\ program \in Seq(Statements) /\ line \in Nat \ {0}
  /\ \A i \in DOMAIN program : program[i].op \in {"equ", "set", "macro", "ifdef"} => program[i].name # NoName
  /\ options \in Seq([name : Names, value : Value]) /\ tokens \in Seq(Token)

Added == \E name \in Names : \E type, val, mem_space : AddSymbol(name, type, val, mem_space)

Changed(a) ==
  /\ UNCHANGED <<hash_tab, free_slot, node_len>> /\ slots' = [b \in DOMAIN slots |-> slots'[b]]
  /\ \A b \in DOMAIN slots : b # a => slots'[b] = slots[b]
  /\ Filled(slots'[a]) /\ slots'[a].pString = slots[a].pString /\ slots'[a].pNext = slots[a].pNext

TableStep == Added \/ (\E a \in DOMAIN slots : Changed(a)) \/ UNCHANGED tableVars
StoreStep == (\E len \in Nat : StringBufferInsert(len)) \/ UNCHANGED strVars

\* Setting the meaning of no descriptor changes none.
LEMMA SetSteps ==
  ASSUME Allocated, NEW a
  PROVE  /\ \A meaning, val : SymSetValue(a, meaning, val) => TableStep
         /\ \A meaning : SymSetValueMacro(a, meaning) => TableStep
         /\ \A mem_space : SymbolSetMemSpace(a, mem_space) => TableStep
<1>1. slots = [b \in DOMAIN slots |-> slots[b]] /\ \A b \in DOMAIN slots : Filled(slots[b])
  BY DEF Allocated
<1> DEFINE Kept == UNCHANGED <<hash_tab, free_slot, node_len>>
<1>2. ASSUME Kept, NEW e, Filled(e), a \in DOMAIN slots, e.pString = slots[a].pString, e.pNext = slots[a].pNext,
             slots' = [b \in DOMAIN slots |-> IF b = a THEN e ELSE slots[b]]
      PROVE  TableStep
  <2>1. Changed(a)
    BY <1>2 DEF Changed
  <2> QED BY <1>2, <2>1 DEF TableStep
<1>3. ASSUME Kept, a \notin DOMAIN slots, NEW e, slots' = [b \in DOMAIN slots |-> IF b = a THEN e ELSE slots[b]]
      PROVE  TableStep
  <2>1. slots' = slots
    BY <1>1, <1>3
  <2> QED BY <1>3, <2>1 DEF TableStep, tableVars
<1>4. \A meaning, val : SymSetValue(a, meaning, val) => TableStep
  <2> SUFFICES ASSUME NEW meaning, NEW val, SymSetValue(a, meaning, val) PROVE TableStep
    OBVIOUS
  <2> DEFINE e == [[slots[a] EXCEPT !.type = meaning] EXCEPT !.val = val]
  <2>1. Kept /\ slots' = [b \in DOMAIN slots |-> IF b = a THEN e ELSE slots[b]]
    <3>1. slots' = [slots EXCEPT ![a].type = meaning, ![a].val = val] /\ Kept
      BY DEF SymSetValue
    <3> QED BY <3>1
  <2>2. a \in DOMAIN slots => Filled(e) /\ e.pString = slots[a].pString /\ e.pNext = slots[a].pNext
    <3> SUFFICES ASSUME a \in DOMAIN slots PROVE Filled(e) /\ e.pString = slots[a].pString /\ e.pNext = slots[a].pNext
      OBVIOUS
    <3> DEFINE s == slots[a]
    <3>1. /\ s = [pString |-> s.pString, pNext |-> s.pNext, type |-> s.type, val |-> s.val, mem_space |-> s.mem_space]
          /\ s.pString \in Names
      BY <1>1 DEF Filled
    <3> HIDE DEF s
    <3>2. [[s EXCEPT !.type = meaning] EXCEPT !.val = val]
          = [pString |-> s.pString, pNext |-> s.pNext, type |-> meaning, val |-> val, mem_space |-> s.mem_space]
      <4> DEFINE m == [s EXCEPT !.type = meaning]
      <4>1. m = [pString |-> s.pString, pNext |-> s.pNext, type |-> meaning, val |-> s.val, mem_space |-> s.mem_space]
        BY <3>1
      <4> HIDE DEF m
      <4>2. [m EXCEPT !.val = val]
            = [pString |-> s.pString, pNext |-> s.pNext, type |-> meaning, val |-> val, mem_space |-> s.mem_space]
        BY <4>1
      <4> QED BY <4>2 DEF m
    <3>3. e = [pString |-> s.pString, pNext |-> s.pNext, type |-> meaning, val |-> val, mem_space |-> s.mem_space]
      BY <3>2 DEF s
    <3> HIDE DEF e
    <3>4. e.pString = s.pString /\ e.pNext = s.pNext /\ e.type = meaning /\ e.val = val /\ e.mem_space = s.mem_space
      BY <3>3
    <3> QED BY <3>1, <3>3, <3>4 DEF Filled, s
  <2> HIDE DEF e, Kept
  <2> QED BY <1>2, <1>3, <2>1, <2>2
<1>5. \A meaning : SymSetValueMacro(a, meaning) => TableStep
  <2> SUFFICES ASSUME NEW meaning, SymSetValueMacro(a, meaning) PROVE TableStep
    OBVIOUS
  <2> DEFINE e == [slots[a] EXCEPT !.type = meaning]
  <2>1. Kept /\ slots' = [b \in DOMAIN slots |-> IF b = a THEN e ELSE slots[b]]
    BY DEF SymSetValueMacro
  <2>2. a \in DOMAIN slots => Filled(e) /\ e.pString = slots[a].pString /\ e.pNext = slots[a].pNext
    BY <1>1 DEF Filled
  <2> HIDE DEF e, Kept
  <2> QED BY <1>2, <1>3, <2>1, <2>2
<1>6. \A mem_space : SymbolSetMemSpace(a, mem_space) => TableStep
  <2> SUFFICES ASSUME NEW mem_space, SymbolSetMemSpace(a, mem_space) PROVE TableStep
    OBVIOUS
  <2> DEFINE e == [slots[a] EXCEPT !.mem_space = mem_space]
  <2>1. Kept /\ slots' = [b \in DOMAIN slots |-> IF b = a THEN e ELSE slots[b]]
    BY DEF SymbolSetMemSpace
  <2>2. a \in DOMAIN slots => Filled(e) /\ e.pString = slots[a].pString /\ e.pNext = slots[a].pNext
    BY <1>1 DEF Filled
  <2> HIDE DEF e, Kept
  <2> QED BY <1>2, <1>3, <2>1, <2>2
<1> QED BY <1>4, <1>5, <1>6

LEMMA AddSteps ==
  /\ \A name \in Names : \A type, val, mem_space : AddSymbol(name, type, val, mem_space) => TableStep
  /\ \A len \in Nat : StringBufferInsert(len) => StoreStep
BY DEF TableStep, Added, StoreStep

LEMMA CurrentName ==
  ASSUME Texts, Parsing
  PROVE  /\ Current.name \in Names \cup {NoName}
         /\ (HasLabel(Current) \/ Current.op \in {"equ", "set", "macro", "ifdef"}) => Current.name \in Names
<1>1. line \in DOMAIN program /\ program[line] \in Statements
  BY DEF Texts, Parsing
<1> QED BY <1>1 DEF Texts, Current, HasLabel, Statements

LEMMA Steps ==
  ASSUME Table, Texts, [Next]_vars
  PROVE  TableStep /\ StoreStep /\ Texts'
<1>0. Allocated
  BY DEF Table
<1>1. ASSUME DefineSymbol PROVE TableStep /\ StoreStep /\ Texts'
  <2> DEFINE o == Head(options)
  <2>1. o \in [name : Names, value : Value] /\ Tail(options) \in Seq([name : Names, value : Value])
    <3> DEFINE R == [name : Names, value : Value]
    <3>1. options \in Seq(R) /\ options # <<>>
      BY <1>1 DEF DefineSymbol, Texts
    <3>2. Head(options) \in R /\ Tail(options) \in Seq(R)
      <4> HIDE DEF R
      <4> QED BY <3>1
    <3> QED BY <3>2
  <2>2. Texts'
    BY <1>1, <2>1 DEF DefineSymbol, Texts
  <2>3. o.name \in Names /\ NameLen[o.name] \in Nat
    BY <2>1, NameAssumption
  <2>4. CASE Defined(o.name)
    <3>1. SymSetValue(FindSymbol(o.name), T_VALUE, o.value) /\ UNCHANGED strVars
      BY <1>1, <2>4 DEF DefineSymbol
    <3> QED BY <1>0, <2>2, <3>1, SetSteps DEF StoreStep
  <2>5. CASE ~Defined(o.name)
    <3>1. AddSymbol(o.name, T_VALUE, o.value, -1) /\ StringBufferInsert(NameLen[o.name])
      BY <1>1, <2>5 DEF DefineSymbol
    <3> HIDE DEF o
    <3> QED BY <2>2, <2>3, <3>1, AddSteps
  <2> QED BY <2>2, <2>4, <2>5
<1>2. ASSUME PrefetchToken PROVE TableStep /\ StoreStep /\ Texts'
  <2> DEFINE t == Head(tokens)
  <2>1. t \in Token /\ Tail(tokens) \in Seq(Token)
    <3> HIDE DEF t
    <3> QED BY <1>2 DEF PrefetchToken, Texts, t
  <2>2. Texts'
    BY <1>2, <2>1 DEF PrefetchToken, Texts
  <2>3. StoreStep
    <3>1. t.k = "sym" => NameLen[t.name] \in Nat
      BY <2>1, SymbolName, NameAssumption
    <3>2. t.k = "sym" => StringBufferInsert(NameLen[t.name])
      BY <1>2 DEF PrefetchToken
    <3>3. t.k # "sym" => UNCHANGED strVars
      BY <1>2 DEF PrefetchToken
    <3> HIDE DEF t
    <3> QED BY <3>1, <3>2, <3>3 DEF StoreStep
  <2>4. TableStep
    BY <1>2 DEF PrefetchToken, TableStep
  <2> QED BY <2>2, <2>3, <2>4
<1>3. ASSUME AddLabel PROVE TableStep /\ StoreStep /\ Texts'
  <2>0. StoreStep /\ Texts'
    BY <1>3 DEF AddLabel, StoreStep, Texts
  <2>1. Current.name \in Names /\ Parsing
    BY <1>3, CurrentName DEF AddLabel
  <2>2. CASE g_passNum = 0
    <3>1. CASE Defined(Current.name)
      <4>1. UNCHANGED tableVars
        BY <1>3, <2>2, <3>1 DEF AddLabel
      <4> QED BY <2>0, <4>1 DEF TableStep
    <3>2. CASE ~Defined(Current.name)
      <4>1. AddSymbol(Current.name, T_PTR, Val_CreateInt(AddressOfLabel), mem)
        BY <1>3, <2>2, <3>2 DEF AddLabel
      <4> QED BY <2>0, <2>1, <4>1, AddSteps
    <3> QED BY <3>1, <3>2
  <2>3. CASE g_passNum # 0
    <3>1. SymbolSetMemSpace(FindSymbol(Current.name), mem)
      BY <1>3, <2>3 DEF AddLabel
    <3> QED BY <1>0, <2>0, <3>1, SetSteps
  <2> QED BY <2>2, <2>3
<1>4. ASSUME Parsing, NextLine, Unchanged, TableStep PROVE TableStep /\ StoreStep /\ Texts'
  BY <1>4 DEF NextLine, Unchanged, StoreStep, Texts
<1>5. ASSUME MacroRecord PROVE TableStep /\ StoreStep /\ Texts'
  <2>1. SymSetValueMacro(FindSymbol(Current.name), T_MACRO) /\ Parsing /\ NextLine /\ Unchanged
    BY <1>5 DEF MacroRecord, LabelDone
  <2> QED BY <1>0, <1>4, <2>1, SetSteps
<1>6. ASSUME SymSet PROVE TableStep /\ StoreStep /\ Texts'
  <2>1. Parsing /\ NextLine /\ Unchanged
    BY <1>6 DEF SymSet, LabelDone
  <2>2. UNCHANGED tableVars \/ \E val : SymSetValue(FindSymbol(Current.name), T_VALUE, val)
    BY <1>6 DEF SymSet
  <2>3. TableStep
    BY <1>0, <2>2, SetSteps DEF TableStep
  <2> QED BY <1>4, <2>1, <2>3
<1>7. ASSUME NoStatement \/ GenDc \/ EvalIf \/ EvalIfcc \/ EvalDefined PROVE TableStep /\ StoreStep /\ Texts'
  <2>1. Parsing /\ NextLine /\ Unchanged /\ UNCHANGED tableVars
    BY <1>7 DEF NoStatement, GenDc, EvalIf, EvalIfcc, EvalDefined, LabelDone
  <2> QED BY <1>4, <2>1 DEF TableStep
<1>8. ASSUME InitParserPass1 \/ EndPass \/ UNCHANGED vars PROVE TableStep /\ StoreStep /\ Texts'
  <2>1. UNCHANGED <<program, options, tokens, tableVars, strVars>> /\ line' \in {line, 1}
    BY <1>8 DEF InitParserPass1, EndPass, vars, machine
  <2> QED BY <2>1 DEF Texts, TableStep, StoreStep
<1> QED BY <1>1, <1>2, <1>3, <1>5, <1>6, <1>7, <1>8 DEF Next

----------------------------------------------------------------------------
(* The strings lie one behind the other.                                   *)

Behind(s, block, first) == s.block < block \/ (s.block = block /\ s.first + s.len < first)

Store ==
  /\ strBufPtr \in Nat /\ strBufCurrent \in Nat
  /\ strings \in Seq([block : Nat, first : Nat, len : Nat])
  /\ \A i \in DOMAIN strings : /\ Behind(strings[i], strBufPtr, strBufCurrent)
                               /\ strings[i].len < StrBufBlockSize => strings[i].first + strings[i].len < StrBufBlockSize
  /\ \A i, j \in DOMAIN strings : i < j => Behind(strings[i], strings[j].block, strings[j].first)

LEMMA BehindLater ==
  ASSUME NEW s, s.block \in Nat, s.first \in Nat, s.len \in Nat, NEW b \in Nat, NEW f \in Nat, Behind(s, b, f),
         NEW c \in Nat, NEW g \in Nat, c > b \/ (c = b /\ g >= f)
  PROVE  Behind(s, c, g)
BY DEF Behind

LEMMA StoreTypes ==
  ASSUME Store
  PROVE  \A i \in DOMAIN strings : strings[i].block \in Nat /\ strings[i].first \in Nat /\ strings[i].len \in Nat
<1> DEFINE Place == [block : Nat, first : Nat, len : Nat]
<1> TAKE i \in DOMAIN strings
<1>1. strings \in Seq(Place)
  BY DEF Store
<1>2. strings[i] \in Place
  <2> HIDE DEF Place
  <2> QED BY <1>1
<1> QED BY <1>2

LEMMA InsertKeepsStore ==
  ASSUME Store, NEW len \in Nat, StringBufferInsert(len)
  PROVE  Store'
<1> DEFINE block == IF Room(len) THEN strBufPtr ELSE strBufPtr + 1
           first == IF Room(len) THEN strBufCurrent ELSE 0
           Place == [block : Nat, first : Nat, len : Nat]
           new == [block |-> block, first |-> first, len |-> len]
           n == Len(strings)
<1>1. /\ strBufPtr \in Nat /\ strBufCurrent \in Nat /\ strings \in Seq(Place) /\ StrBufBlockSize \in Nat \ {0}
      /\ \A i \in DOMAIN strings : strings[i].block \in Nat /\ strings[i].first \in Nat /\ strings[i].len \in Nat
  BY BlockSizeAssumption, StoreTypes DEF Store
<1>2. strBufPtr' = block /\ strBufCurrent' = first + len + 1 /\ strings' = Append(strings, new)
  BY DEF StringBufferInsert
<1>3. block \in Nat /\ first \in Nat /\ (block > strBufPtr \/ (block = strBufPtr /\ first = strBufCurrent))
  BY <1>1
<1>4. len < StrBufBlockSize => first + len < StrBufBlockSize
  BY <1>1 DEF Room
<1>5. new \in Place /\ new.block = block /\ new.first = first /\ new.len = len
  BY <1>3
<1>6. n \in Nat /\ DOMAIN strings = 1 .. n
  BY <1>1
<1>7. /\ strings' \in Seq(Place) /\ DOMAIN strings' = 1 .. n + 1
      /\ \A i \in 1 .. n : strings'[i] = strings[i]
      /\ strings'[n + 1] = new
  <2> HIDE DEF new, Place
  <2> QED BY <1>1, <1>2, <1>5, <1>6
<1>8. \A i \in 1 .. n : /\ Behind(strings[i], block, first)
                        /\ strings[i].len < StrBufBlockSize => strings[i].first + strings[i].len < StrBufBlockSize
  <2> TAKE i \in 1 .. n
  <2>1. Behind(strings[i], strBufPtr, strBufCurrent)
    BY <1>6 DEF Store
  <2>2. strings[i].len < StrBufBlockSize => strings[i].first + strings[i].len < StrBufBlockSize
    BY <1>6 DEF Store
  <2>3. strings[i].block \in Nat /\ strings[i].first \in Nat /\ strings[i].len \in Nat
    BY <1>1, <1>6
  <2>4. Behind(strings[i], block, first)
    <3> HIDE DEF block, first
    <3> QED BY <1>1, <1>3, <2>1, <2>3, BehindLater
  <2> QED BY <2>2, <2>4
<1>9. \A i \in 1 .. n : Behind(strings[i], block, first + len + 1)
  <2> TAKE i \in 1 .. n
  <2>1. strings[i].block \in Nat /\ strings[i].first \in Nat /\ strings[i].len \in Nat /\ Behind(strings[i], block, first)
    BY <1>1, <1>6, <1>8
  <2>2. first + len + 1 \in Nat /\ first + len + 1 >= first
    <3> HIDE DEF first
    <3> QED BY <1>3
  <2> HIDE DEF block, first
  <2> QED BY <1>3, <2>1, <2>2, BehindLater
<1>10. \A i, j \in 1 .. n : i < j => Behind(strings[i], strings[j].block, strings[j].first)
  BY <1>6 DEF Store
<1>11. Behind(new, block, first + len + 1)
  <2> HIDE DEF block, first
  <2> QED BY <1>3 DEF Behind
<1>12. \A i \in DOMAIN strings' : /\ Behind(strings'[i], strBufPtr', strBufCurrent')
                                  /\ strings'[i].len < StrBufBlockSize => strings'[i].first + strings'[i].len < StrBufBlockSize
  <2> DEFINE next == first + len + 1
  <2> SUFFICES ASSUME NEW i \in 1 .. n + 1
               PROVE  /\ Behind(strings'[i], block, next)
                      /\ strings'[i].len < StrBufBlockSize => strings'[i].first + strings'[i].len < StrBufBlockSize
    BY <1>2, <1>7
  <2> HIDE DEF block, first, new, next
  <2>1. \A k \in 1 .. n : Behind(strings[k], block, next)
    BY <1>9 DEF next
  <2>2. Behind(new, block, next)
    BY <1>11 DEF next
  <2>3. CASE i \in 1 .. n
    <3>1. strings'[i] = strings[i]
      BY <1>7, <2>3
    <3> QED BY <1>8, <2>1, <2>3, <3>1
  <2>4. CASE i = n + 1
    <3>1. strings'[i] = new
      BY <1>7, <2>4
    <3> QED BY <1>4, <1>5, <2>2, <3>1
  <2>5. i \in 1 .. n \/ i = n + 1
    BY <1>6
  <2> QED BY <2>3, <2>4, <2>5
<1>13. \A i, j \in DOMAIN strings' : i < j => Behind(strings'[i], strings'[j].block, strings'[j].first)
  <2> SUFFICES ASSUME NEW i \in 1 .. n + 1, NEW j \in 1 .. n + 1, i < j
               PROVE  Behind(strings'[i], strings'[j].block, strings'[j].first)
    BY <1>7 DEF Behind
  <2>1. i \in 1 .. n /\ strings'[i] = strings[i]
    <3>1. i \in 1 .. n
      BY <1>6
    <3> QED BY <1>7, <3>1
  <2>2. CASE j \in 1 .. n
    BY <1>7, <1>10, <2>1, <2>2
  <2>3. CASE j = n + 1
    <3> HIDE DEF block, first, new
    <3> QED BY <1>5, <1>7, <1>8, <2>1, <2>3
  <2> QED BY <1>6, <2>2, <2>3
<1>14. strBufPtr' \in Nat /\ strBufCurrent' \in Nat
  <2> HIDE DEF block, first
  <2> QED BY <1>2, <1>3
<1> HIDE DEF block, first, new
<1> QED BY <1>7, <1>12, <1>13, <1>14 DEF Store, Behind

LEMMA StoreApart == Store => StringsApart
<1> SUFFICES ASSUME Store PROVE StringsApart
  OBVIOUS
<1>1. \A i \in DOMAIN strings : strings[i].block \in Nat /\ strings[i].first \in Nat /\ strings[i].len \in Nat
  BY StoreTypes
<1>2. ASSUME NEW i \in DOMAIN strings, NEW j \in DOMAIN strings, i < j
      PROVE  Bytes(strings[i]) \cap Bytes(strings[j]) = {}
  <2>1. Behind(strings[i], strings[j].block, strings[j].first)
    BY <1>2 DEF Store
  <2> QED BY <1>1, <2>1 DEF Behind, Bytes
<1>3. \A i, j \in DOMAIN strings : i # j => Bytes(strings[i]) \cap Bytes(strings[j]) = {}
  <2> TAKE i, j \in DOMAIN strings
  <2>1. i \in Nat /\ j \in Nat
    <3> DEFINE Place == [block : Nat, first : Nat, len : Nat]
    <3>1. strings \in Seq(Place)
      BY DEF Store
    <3> HIDE DEF Place
    <3> QED BY <3>1
  <2> QED BY <1>2, <2>1
<1> QED BY <1>3 DEF Store, StringsApart

----------------------------------------------------------------------------
(* The results.                                                            *)

IInv == Texts /\ Table /\ Store

LEMMA InitInv == Init => IInv
<1> SUFFICES ASSUME Init PROVE IInv
  OBVIOUS
<1>1. Texts
  <2>1. PICK p \in Programs : program = p.lines /\ options = p.options
    BY DEF Init
  <2>2. /\ program \in Seq(Statements) /\ options \in Seq([name : Names, value : Value])
        /\ \A i \in DOMAIN program : program[i].op \in {"equ", "set", "macro", "ifdef"} => program[i].name # NoName
    BY <2>1, ProgramsAssumption
  <2>3. tokens \in Seq(Token) /\ line \in Nat \ {0}
    BY <2>1, TokenTypes DEF Init
  <2> QED BY <2>2, <2>3 DEF Texts
<1>2. slots = [a \in {} |-> {}] /\ DOMAIN slots = {} /\ free_slot = <<1, 0>> /\ node_len = 0
      /\ hash_tab = [h \in 0 .. HASH_SIZE - 1 |-> [pHead |-> Null, pTail |-> Null]]
  BY DEF Init, InitSymbolTable
<1>3. Allocated
  BY <1>2, TableAssumption DEF Allocated
<1>4. ASSUME NEW h \in 0 .. HASH_SIZE - 1 PROVE Linked(h)
  BY <1>2 DEF Linked, Chain
<1>5. Table
  BY <1>2, <1>3, <1>4 DEF Table, OneEach
<1>6. Store
  BY DEF Init, StringBufferInit, Store
<1> QED BY <1>1, <1>5, <1>6 DEF IInv

LEMMA ChangeKeepsTable ==
  ASSUME Table, NEW a \in DOMAIN slots, Changed(a)
  PROVE  Table'
<1>1. \A b \in DOMAIN slots : Filled(slots[b])
  BY DEF Table, Allocated
<1>2. \A b \in DOMAIN slots : /\ Filled(slots'[b])
                              /\ slots'[b].pString = slots[b].pString /\ slots'[b].pNext = slots[b].pNext
  BY <1>1 DEF Changed, Filled
<1> QED BY <1>2, AssignKeepsTable DEF Changed

LEMMA NextInv == IInv /\ [Next]_vars => IInv'
<1> SUFFICES ASSUME IInv, [Next]_vars PROVE IInv'
  OBVIOUS
<1>1. TableStep /\ StoreStep /\ Texts'
  BY Steps DEF IInv
<1>2. Table'
  <2>1. CASE Added
    BY <2>1, AddKeepsTable DEF IInv, Added
  <2>2. CASE \E a \in DOMAIN slots : Changed(a)
    BY <2>2, ChangeKeepsTable DEF IInv
  <2>3. CASE UNCHANGED tableVars
    BY <2>3 DEF IInv, tableVars, Table, Allocated, Filled, Before, Linked, Follows, Chain, OneEach
  <2> QED BY <1>1, <2>1, <2>2, <2>3 DEF TableStep
<1>3. Store'
  <2>1. CASE \E len \in Nat : StringBufferInsert(len)
    BY <2>1, InsertKeepsStore DEF IInv
  <2>2. CASE UNCHANGED strVars
    BY <2>2 DEF IInv, strVars, Store, Behind
  <2> QED BY <1>1, <2>1, <2>2 DEF StoreStep
<1> QED BY <1>1, <1>2, <1>3 DEF IInv

LEMMA TableExact == Table => ChainsExact
<1> SUFFICES ASSUME Table PROVE ChainsExact
  OBVIOUS
<1>1. EntriesInBlock
  BY DEF Table, Allocated, EntriesInBlock
<1>2. ASSUME NEW h \in 0 .. HASH_SIZE - 1, Chain(h) # {}
      PROVE  /\ hash_tab[h].pHead \in Chain(h) /\ hash_tab[h].pTail \in Chain(h)
             /\ \A a \in Chain(h) :
                   /\ IF a = hash_tab[h].pTail THEN slots[a].pNext = Null
                      ELSE slots[a].pNext \in Chain(h) /\ Before(a, slots[a].pNext)
                   /\ a # hash_tab[h].pHead => \E b \in Chain(h) : slots[b].pNext = a
                   /\ \A b \in Chain(h) \ {a} : slots[a].pNext = Null \/ slots[a].pNext # slots[b].pNext
  <2>1. Linked(h)
    BY DEF Table
  <2>2. \A a \in Chain(h) : Follows(h, a) /\ a \in Nat \X Nat /\ a # Null
    BY <2>1, Places DEF Linked, Chain
  <2>3. ASSUME NEW a \in Chain(h), NEW b \in Chain(h), a # b, slots[a].pNext # Null, slots[a].pNext = slots[b].pNext
        PROVE  FALSE
    <3> DEFINE c == slots[a].pNext
    <3>1. \A d \in Chain(h) : ~(Before(a, d) /\ Before(d, c)) /\ ~(Before(b, d) /\ Before(d, c))
      BY <2>2, <2>3 DEF Follows
    <3>2. Before(a, c) /\ Before(b, c)
      BY <2>2, <2>3 DEF Follows
    <3> HIDE DEF c
    <3> QED BY <2>2, <2>3, <3>1, <3>2, BeforeOrder
  <2> QED BY <1>2, <2>1, <2>2, <2>3 DEF Linked, Follows
<1>3. \A h \in 0 .. HASH_SIZE - 1 : Chain(h) = {} => hash_tab[h] = [pHead |-> Null, pTail |-> Null]
  BY DEF Table, Linked
<1>4. DOMAIN hash_tab = 0 .. HASH_SIZE - 1
  BY DEF Table
<1>5. \A a, b \in DOMAIN slots : slots[a].pString = slots[b].pString => a = b
  BY DEF Table, OneEach
<1> QED BY <1>1, <1>2, <1>3, <1>4, <1>5 DEF ChainsExact, Chain

\* Every descriptor is linked once, in the chain of its name, whatever blocks and
\* chains the names of a program fall into (SymbolTable.c, AddSymbol).
THEOREM ChainsLinked == Spec => []ChainsExact
<1>1. IInv => ChainsExact
  BY TableExact DEF IInv
<1> QED BY <1>1, InitInv, NextInv, PTL DEF Spec

\* No two strings share a byte, and one that fits a block is in one, for names and
\* blocks of any length (StringBuffer.c, StringBufferInsert).
THEOREM StringsKept == Spec => []StringsApart
<1>1. IInv => StringsApart
  BY StoreApart DEF IInv
<1> QED BY <1>1, InitInv, NextInv, PTL DEF Spec

----------------------------------------------------------------------------
(* The table of names.                                                     *)

\* The table that the hash table implements.
Bar == [n \in {m \in Names : Defined(m)} |->
          LET a == slots[FindSymbol(n)] IN [type |-> a.type, val |-> a.val, mem_space |-> a.mem_space]]

MeaningOfEntry(a) == [type |-> slots[a].type, val |-> slots[a].val, mem_space |-> slots[a].mem_space]

BarExact ==
  /\ Bar = [n \in DOMAIN Bar |-> Bar[n]]
  /\ DOMAIN Bar = {slots[a].pString : a \in DOMAIN slots}
  /\ \A a \in DOMAIN slots : slots[a].pString \in Names /\ Bar[slots[a].pString] = MeaningOfEntry(a)

LEMMA BarOfTable == Table => BarExact
<1> SUFFICES ASSUME Table PROVE BarExact
  OBVIOUS
<1> DEFINE D == {m \in Names : Defined(m)}
           Of(e) == [type |-> e.type, val |-> e.val, mem_space |-> e.mem_space]
<1>1. Bar = [n \in D |-> Of(slots[FindSymbol(n)])]
  BY DEF Bar
<1>2. \A a \in DOMAIN slots : slots[a].pString \in Names /\ a # Null /\ FindSymbol(slots[a].pString) = a
  BY Places, FindExact
<1>3. D = {slots[a].pString : a \in DOMAIN slots}
  <2>1. ASSUME NEW n \in D PROVE \E a \in DOMAIN slots : n = slots[a].pString
    BY FindExact DEF Defined
  <2>2. ASSUME NEW a \in DOMAIN slots PROVE slots[a].pString \in D
    BY <1>2 DEF Defined
  <2> HIDE DEF D
  <2> QED BY <2>1, <2>2
<1>4. ASSUME NEW a \in DOMAIN slots PROVE Bar[slots[a].pString] = MeaningOfEntry(a)
  <2>1. slots[a].pString \in D
    BY <1>3
  <2>2. Bar[slots[a].pString] = Of(slots[FindSymbol(slots[a].pString)])
    <3> HIDE DEF D, Of
    <3> QED BY <1>1, <2>1
  <2> QED BY <1>2, <2>2 DEF MeaningOfEntry
<1>5. DOMAIN Bar = D /\ Bar = [n \in DOMAIN Bar |-> Bar[n]]
  <2> HIDE DEF D, Of
  <2> QED BY <1>1
<1> HIDE DEF D, Of
<1> QED BY <1>2, <1>3, <1>4, <1>5 DEF BarExact

\* A new entry defines its name.
LEMMA AddDefines ==
  ASSUME Table, BarExact', NEW name \in Names, NEW type, NEW val, NEW mem_space, AddSymbol(name, type, val, mem_space)
  PROVE  name \notin DOMAIN Bar /\ DOMAIN Bar' = DOMAIN Bar \cup {name} /\ \A n \in DOMAIN Bar \ {name} : Bar'[n] = Bar[n]
<1> DEFINE new == NewEntry
<1>1. /\ DOMAIN slots' = DOMAIN slots \cup {new} /\ slots'[new].pString = name
      /\ \A a \in DOMAIN slots : slots'[a].pString = slots[a].pString
  BY AddedEntry
<1>2. ASSUME NEW a \in DOMAIN slots PROVE slots[a].pString # name /\ MeaningOfEntry(a)' = MeaningOfEntry(a)
  <2>1. slots[a].pString # name
    BY Places, FindExact DEF AddSymbol, Defined
  <2>2. slots'[a].type = slots[a].type /\ slots'[a].val = slots[a].val /\ slots'[a].mem_space = slots[a].mem_space
    BY AddedEntry
  <2> QED BY <2>1, <2>2 DEF MeaningOfEntry
<1> HIDE DEF new
<1>3. BarExact
  BY BarOfTable
<1>4. name \notin DOMAIN Bar
  BY <1>2, <1>3 DEF BarExact
<1>5. DOMAIN Bar' = DOMAIN Bar \cup {name}
  <2>1. DOMAIN Bar = {slots[a].pString : a \in DOMAIN slots} /\ DOMAIN Bar' = {slots'[a].pString : a \in DOMAIN slots'}
    BY <1>3 DEF BarExact
  <2> QED BY <1>1, <2>1
<1>6. ASSUME NEW n \in DOMAIN Bar PROVE Bar'[n] = Bar[n]
  <2>1. PICK a \in DOMAIN slots : n = slots[a].pString
    BY <1>3 DEF BarExact
  <2>2. Bar[n] = MeaningOfEntry(a)
    BY <1>3, <2>1 DEF BarExact
  <2>3. a \in DOMAIN slots' /\ slots'[a].pString = n
    BY <1>1, <2>1
  <2>4. Bar'[n] = MeaningOfEntry(a)'
    BY <2>3 DEF BarExact, MeaningOfEntry
  <2> QED BY <1>2, <2>2, <2>4
<1> QED BY <1>4, <1>5, <1>6

\* A descriptor that changes assigns its name.
LEMMA ChangeAssigns ==
  ASSUME Table, BarExact', NEW a \in DOMAIN slots, Changed(a)
  PROVE  LET name == slots[a].pString
         IN  name \in DOMAIN Bar /\ DOMAIN Bar' = DOMAIN Bar /\ \A n \in DOMAIN Bar \ {name} : Bar'[n] = Bar[n]
<1> DEFINE name == slots[a].pString
<1>1. BarExact
  BY BarOfTable
<1>2. /\ DOMAIN slots' = DOMAIN slots /\ \A b \in DOMAIN slots : slots'[b].pString = slots[b].pString
      /\ \A b \in DOMAIN slots : b # a => slots'[b] = slots[b]
  BY DEF Changed
<1>3. name \in DOMAIN Bar
  BY <1>1 DEF BarExact
<1>4. DOMAIN Bar' = DOMAIN Bar
  <2>1. DOMAIN Bar = {slots[b].pString : b \in DOMAIN slots} /\ DOMAIN Bar' = {slots'[b].pString : b \in DOMAIN slots'}
    BY <1>1 DEF BarExact
  <2> QED BY <1>2, <2>1
<1>5. ASSUME NEW n \in DOMAIN Bar, n # name PROVE Bar'[n] = Bar[n]
  <2>1. PICK b \in DOMAIN slots : n = slots[b].pString
    BY <1>1 DEF BarExact
  <2>2. b # a /\ slots'[b] = slots[b] /\ b \in DOMAIN slots' /\ slots'[b].pString = n
    BY <1>2, <1>5, <2>1
  <2>3. Bar[n] = MeaningOfEntry(b) /\ Bar'[n] = MeaningOfEntry(b)'
    BY <1>1, <2>1, <2>2 DEF BarExact, MeaningOfEntry
  <2> QED BY <2>2, <2>3 DEF MeaningOfEntry
<1> QED BY <1>3, <1>4, <1>5

LEMMA StepRefines ==
  ASSUME IInv, IInv', [Next]_vars
  PROVE  [NT!Next]_Bar
<1>1. BarExact /\ BarExact'
  <2>1. Table => BarExact
    BY BarOfTable
  <2>2. Table' => BarExact'
    BY BarOfTable, PTL
  <2> QED BY <2>1, <2>2 DEF IInv
<1>2. TableStep
  BY Steps DEF IInv
<1>3. CASE Added
  <2>1. PICK name \in Names : \E type, val, mem_space : AddSymbol(name, type, val, mem_space)
    BY <1>3 DEF Added
  <2>2. name \notin DOMAIN Bar /\ DOMAIN Bar' = DOMAIN Bar \cup {name} /\ \A n \in DOMAIN Bar \ {name} : Bar'[n] = Bar[n]
    BY <1>1, <2>1, AddDefines DEF IInv
  <2>3. NT!Define(name)
    BY <2>2 DEF NT!Define, NT!OthersKept, Bar
  <2> QED BY <2>3 DEF NT!Next
<1>4. CASE \E a \in DOMAIN slots : Changed(a)
  <2>1. PICK a \in DOMAIN slots : Changed(a)
    BY <1>4
  <2>2. PICK name \in Names : name = slots[a].pString
    BY <1>1 DEF BarExact
  <2>3. name \in DOMAIN Bar /\ DOMAIN Bar' = DOMAIN Bar /\ \A n \in DOMAIN Bar \ {name} : Bar'[n] = Bar[n]
    BY <1>1, <2>1, <2>2, ChangeAssigns DEF IInv
  <2>4. NT!Assign(name)
    BY <2>3 DEF NT!Assign, NT!OthersKept, Bar
  <2> QED BY <2>4 DEF NT!Next
<1>5. CASE UNCHANGED tableVars
  BY <1>5 DEF tableVars, Bar, Defined, FindSymbol
<1> QED BY <1>2, <1>3, <1>4, <1>5 DEF TableStep

LEMMA InitRefines == Init => NT!Init
<1> SUFFICES ASSUME Init PROVE NT!Init
  OBVIOUS
<1>1. slots = [a \in {} |-> {}] /\ IInv
  BY InitInv DEF Init, InitSymbolTable
<1>2. BarExact
  BY <1>1, BarOfTable DEF IInv
<1>3. Bar = [n \in {} |-> {}]
  BY <1>1, <1>2 DEF BarExact
<1> QED BY <1>3 DEF NT!Init, Bar

\* The hash table is a table of names: a name is defined once, and each later step
\* changes the meaning of one name at most and loses none (SymbolTable.c).
THEOREM TableRefines == Spec => Refines
<1>1. IInv /\ IInv' /\ [Next]_vars => [NT!Next]_Bar
  BY StepRefines
<1> QED BY <1>1, InitInv, NextInv, InitRefines, PTL DEF Spec, Refines, NT!Spec, Bar

\* What FindSymbol promises.
Lookup ==
  \A name \in Names : /\ \A a \in DOMAIN slots : slots[a].pString = name => FindSymbol(name) = a
                      /\ (\A a \in DOMAIN slots : slots[a].pString # name) => FindSymbol(name) = Null

\* The walk along a chain ends, at the descriptor of the name or, when it has none, at
\* NULL, however many entries and blocks there are (SymbolTable.c, FindSymbol).
THEOREM LookupExact == Spec => []Lookup
<1>1. IInv => Lookup
  BY FindExact DEF IInv, Lookup
<1> QED BY <1>1, InitInv, NextInv, PTL DEF Spec

----------------------------------------------------------------------------
(* A name read in an expression has the value the order of the source       *)
(* gives it, in both passes.                                               *)

\* The value GetSym finds in the table of names.
ValueOf(n) == IF n \in DOMAIN Bar THEN Bar[n].val ELSE Val_CreateUnresolved

\* A line, or its label, that is behind the parser.
Past(p, i) == p < g_passNum \/ (p = g_passNum /\ i < line)
LabelPast(p, i) == Past(p, i) \/ (labelled /\ p = g_passNum /\ i = line)

\* What ReadsExact expects of a name on line i of pass p.
AboveLine(n, i) == {j \in Givers(n) : j < i}
LabelValue(n, i) == {g.val : g \in {h \in given : h.line = i /\ h.name = n /\ h.by = "label"}}
Nearest(n, p, i) ==
  IF AboveLine(n, i) # {} THEN GivenAt(Max(AboveLine(n, i)), n, p)
  ELSE IF p = 1 /\ Givers(n) # {} THEN GivenAt(Max(Givers(n)), n, 0)
  ELSE {Val_CreateUnresolved}
Own(n, p, i) == HasLabel(program[i]) /\ program[i].name = n /\ (p = 0 \/ ~OpGives(i))

----------------------------------------------------------------------------
(* The inductive invariant.                                                *)

Position ==
  /\ g_passNum \in {0, 1} /\ line <= Len(program) + 1 /\ labelled \in BOOLEAN
  /\ labelled => line \in Lines /\ HasLabel(program[line])
  /\ phase = "options" => /\ g_passNum = 0 /\ line = 1 /\ ~labelled /\ reads = {}
                          /\ \A g \in given : g.by = "option"

\* Who gives: an option, a label in pass 1, EQU and SET in both passes.
ByOption(g) == g.by = "option" /\ g.line = 0 /\ g.pass = 0
ByLabel(g) == g.by = "label" /\ g.pass = 0 /\ HasLabel(program[g.line]) /\ LabelPast(0, g.line)
ByOp(g) == g.by = program[g.line].op /\ g.by \in {"equ", "set"} /\ g.pass \in {0, 1} /\ Past(g.pass, g.line)
Giver(g) == \/ ByOption(g)
            \/ g.line \in Lines /\ program[g.line].name = g.name /\ (ByLabel(g) \/ ByOp(g))
Givens == \A g \in given : g.name \in DOMAIN Bar /\ Giver(g)

\* No label behind the parser has the name of another, or of an option.
LabelsOnce ==
  ~errors =>
    \A i \in Lines : HasLabel(program[i]) /\ LabelPast(0, i) =>
        /\ program[i].name \in DOMAIN Bar
        /\ \A g \in given : g.name = program[i].name => g.by # "option"
        /\ \A j \in Lines : HasLabel(program[j]) /\ LabelPast(0, j) /\ program[j].name = program[i].name => i = j

\* The table holds what is expected at the parser's place.
ValuesExact ==
  ~errors =>
    \A p \in {g_passNum}, i \in {line}, n \in Names : ~Stale(n) =>
        {ValueOf(n)} = IF labelled /\ Own(n, p, i) THEN LabelValue(n, i) ELSE Nearest(n, p, i)

\* And what was read is what was expected at its place, which is behind the parser.
ReadsPast == \A r \in reads : r.name \in Names /\ r.pass \in {0, 1} /\ r.line \in Lines /\ Past(r.pass, r.line)
ReadsExpected ==
  ~errors =>
    \A r \in reads : ~Stale(r.name) =>
        {r.val} = IF Own(r.name, r.pass, r.line) THEN LabelValue(r.name, r.line) ELSE Nearest(r.name, r.pass, r.line)

RInv == Position /\ Givens /\ LabelsOnce /\ ValuesExact /\ ReadsPast /\ ReadsExpected

----------------------------------------------------------------------------
(* Lines that give a name a value.                                         *)

LEMMA MaxOf ==
  ASSUME NEW S \in SUBSET Nat, NEW n \in Nat, \A x \in S : x <= n, S # {}
  PROVE  Max(S) \in S /\ \A y \in S : y <= Max(S)
<1>1. PICK m \in S : \A y \in S : y <= m
  BY GreatestNatural
<1>2. \A y \in S : m >= y
  BY <1>1
<1>3. Max(S) \in S /\ \A y \in S : Max(S) >= y
  BY <1>2 DEF Max
<1> QED BY <1>3

LEMMA MaxOfOne == ASSUME NEW i \in Nat PROVE Max({i}) = i
BY MaxOf

LEMMA GiversBounded ==
  ASSUME Texts, Givens, NEW n
  PROVE  /\ Givers(n) \in SUBSET Nat /\ \A i \in Givers(n) : i <= Len(program)
         /\ \A i \in Givers(n) : i = 0 \/ (i \in Lines /\ program[i].name = n /\ program[i].op # "ifdef")
         /\ 0 \in Givers(n) <=> \E g \in given : g.name = n /\ g.by = "option"
         /\ \A i \in Lines : program[i].name = n /\ program[i].op # "ifdef" => i \in Givers(n)
<1>1. Len(program) \in Nat /\ Lines = 1 .. Len(program) /\ DOMAIN program = 1 .. Len(program)
  BY DEF Texts, Lines
<1>2. \A g \in given : g.by = "option" => g.line = 0
  BY DEF Givens, Giver, ByOption, ByLabel, ByOp
<1> QED BY <1>1, <1>2 DEF Givers

LEMMA LastGiver ==
  ASSUME Texts, Givens, NEW n
  PROVE  /\ Givers(n) # {} => Max(Givers(n)) \in Givers(n) /\ \A j \in Givers(n) : j <= Max(Givers(n))
         /\ \A i \in Nat : AboveLine(n, i) # {} => /\ Max(AboveLine(n, i)) \in AboveLine(n, i)
                                                  /\ \A j \in AboveLine(n, i) : j <= Max(AboveLine(n, i))
<1>1. Givers(n) \in SUBSET Nat /\ (\A i \in Givers(n) : i <= Len(program)) /\ Len(program) \in Nat
  BY GiversBounded DEF Texts
<1>2. \A i \in Nat : AboveLine(n, i) \in SUBSET Nat /\ \A j \in AboveLine(n, i) : j <= Len(program)
  BY <1>1 DEF AboveLine
<1> QED BY <1>1, <1>2, MaxOf

LEMMA GiversKept ==
  ASSUME program' = program, given \subseteq given', \A g \in given' \ given : g.by # "option", NEW n
  PROVE  Givers(n)' = Givers(n) /\ Stale(n)' = Stale(n)
<1>1. {h \in given' : h.name = n /\ h.by = "option"} = {h \in given : h.name = n /\ h.by = "option"}
  OBVIOUS
<1>2. Givers(n)' = Givers(n)
  BY <1>1 DEF Givers, Lines
<1> QED BY <1>2 DEF Stale, OpGives

LEMMA GivenAtKept ==
  ASSUME program' = program, given \subseteq given', NEW n, NEW j, NEW p,
         \A g \in given' \ given : ~(g.name = n /\ g.line = j /\ g.pass \in {p, 0})
  PROVE  GivenAt(j, n, p)' = GivenAt(j, n, p)
<1> DEFINE C(h) == /\ h.line = j /\ h.name = n
                   /\ IF OpGives(j) THEN h.by # "label" /\ h.pass = p ELSE h.pass = 0
<1>1. OpGives(j)' = OpGives(j)
  BY DEF OpGives
<1>2. GivenAt(j, n, p) = {g.val : g \in {h \in given : C(h)}} /\ GivenAt(j, n, p)' = {g.val : g \in {h \in given' : C(h)}}
  BY <1>1 DEF GivenAt
<1>3. {h \in given' : C(h)} = {h \in given : C(h)}
  OBVIOUS
<1> QED BY <1>2, <1>3

\* What is given at the parser's place, or behind it, is not expected above it.
LEMMA NearestKept ==
  ASSUME Texts, Givens, program' = program, NEW n, Givers(n)' = Givers(n), given \subseteq given',
         NEW p \in {0, 1}, NEW i \in Nat,
         \A g \in given' \ given : g.name = n => (i <= g.line \/ p < g.pass) /\ (p = 1 => g.pass = 1),
         \A g \in given' \ given : g.line \in Nat /\ g.pass \in {0, 1}
  PROVE  Nearest(n, p, i)' = Nearest(n, p, i)
<1>1. AboveLine(n, i)' = AboveLine(n, i)
  BY DEF AboveLine
<1>2. CASE AboveLine(n, i) # {}
  <2> DEFINE m == Max(AboveLine(n, i))
  <2>1. m \in Nat /\ m < i
    BY <1>2, LastGiver, GiversBounded DEF AboveLine
  <2>2. GivenAt(m, n, p)' = GivenAt(m, n, p)
    <3>1. PICK k : k = m
      OBVIOUS
    <3>2. \A g \in given' \ given : ~(g.name = n /\ g.line = k /\ g.pass \in {p, 0})
      BY <2>1, <3>1
    <3>3. GivenAt(k, n, p)' = GivenAt(k, n, p)
      BY <3>2, GivenAtKept
    <3> QED BY <1>1, <3>1, <3>3
  <2> QED BY <1>1, <1>2, <2>2 DEF Nearest
<1>3. CASE AboveLine(n, i) = {} /\ p = 1 /\ Givers(n) # {}
  <2>1. PICK k : k = Max(Givers(n))
    OBVIOUS
  <2>2. \A g \in given' \ given : ~(g.name = n /\ g.line = k /\ g.pass \in {0, 0})
    BY <1>3
  <2>3. GivenAt(k, n, 0)' = GivenAt(k, n, 0)
    BY <2>2, GivenAtKept
  <2> QED BY <1>1, <1>3, <2>1, <2>3 DEF Nearest
<1>4. CASE AboveLine(n, i) = {} /\ ~(p = 1 /\ Givers(n) # {})
  BY <1>1, <1>4 DEF Nearest
<1> QED BY <1>2, <1>3, <1>4

LEMMA LabelValueKept ==
  ASSUME given \subseteq given', NEW n, NEW i, \A g \in given' \ given : ~(g.name = n /\ g.line = i /\ g.by = "label")
  PROVE  LabelValue(n, i)' = LabelValue(n, i)
<1>1. {h \in given' : h.line = i /\ h.name = n /\ h.by = "label"} = {h \in given : h.line = i /\ h.name = n /\ h.by = "label"}
  OBVIOUS
<1> QED BY <1>1 DEF LabelValue

----------------------------------------------------------------------------
(* What a step does to the values of the table.                            *)

LEMMA GetSymValue ==
  ASSUME Table, NEW n \in Names
  PROVE  /\ GetSym(n).val = ValueOf(n)
         /\ Defined(n) <=> n \in DOMAIN Bar
         /\ n \in DOMAIN Bar => FindSymbol(n) \in DOMAIN slots /\ slots[FindSymbol(n)].pString = n
<1>1. DOMAIN Bar = {m \in Names : Defined(m)}
  BY DEF Bar
<1>2. n \in DOMAIN Bar => Bar[n].val = slots[FindSymbol(n)].val
  <2> SUFFICES ASSUME n \in DOMAIN Bar PROVE Bar[n].val = slots[FindSymbol(n)].val
    OBVIOUS
  <2> DEFINE a == slots[FindSymbol(n)]
  <2>1. Bar[n] = [type |-> a.type, val |-> a.val, mem_space |-> a.mem_space]
    BY <1>1 DEF Bar
  <2> QED BY <2>1
<1>3. BarExact
  BY BarOfTable
<1>4. n \in DOMAIN Bar => FindSymbol(n) \in DOMAIN slots /\ slots[FindSymbol(n)].pString = n
  <2> SUFFICES ASSUME n \in DOMAIN Bar PROVE FindSymbol(n) \in DOMAIN slots /\ slots[FindSymbol(n)].pString = n
    OBVIOUS
  <2>1. PICK a \in DOMAIN slots : n = slots[a].pString
    BY <1>3 DEF BarExact
  <2> QED BY <2>1, FindExact
<1> QED BY <1>1, <1>2, <1>4 DEF GetSym, ValueOf

LEMMA AddGives ==
  ASSUME Table, BarExact', NEW name \in Names, NEW type, NEW val, NEW mem_space, AddSymbol(name, type, val, mem_space)
  PROVE  /\ name \notin DOMAIN Bar /\ DOMAIN Bar' = DOMAIN Bar \cup {name}
         /\ ValueOf(name)' = val
         /\ \A n \in Names : n # name => ValueOf(n)' = ValueOf(n)
<1>1. name \notin DOMAIN Bar /\ DOMAIN Bar' = DOMAIN Bar \cup {name} /\ \A n \in DOMAIN Bar \ {name} : Bar'[n] = Bar[n]
  BY AddDefines
<1>2. Bar'[name].val = val
  <2>1. PICK new : /\ new \in DOMAIN slots'
                   /\ slots'[new] = [pString |-> name, pNext |-> Null, type |-> type, val |-> val, mem_space |-> mem_space]
    BY AddedEntry
  <2>2. slots'[new].pString = name /\ slots'[new].val = val
    BY <2>1
  <2>3. Bar'[name] = MeaningOfEntry(new)'
    BY <2>1, <2>2 DEF BarExact, MeaningOfEntry
  <2> QED BY <2>2, <2>3 DEF MeaningOfEntry
<1> QED BY <1>1, <1>2 DEF ValueOf

\* Descriptors that keep their names keep the names of the table.
LEMMA SlotsGive ==
  ASSUME BarExact, BarExact', NEW a, DOMAIN slots' = DOMAIN slots,
         \A b \in DOMAIN slots : slots'[b].pString = slots[b].pString,
         \A b \in DOMAIN slots : b # a => slots'[b].val = slots[b].val
  PROVE  /\ DOMAIN Bar' = DOMAIN Bar
         /\ \A n \in Names : ~(a \in DOMAIN slots /\ n = slots[a].pString) => ValueOf(n)' = ValueOf(n)
         /\ a \in DOMAIN slots => ValueOf(slots[a].pString)' = slots'[a].val
         /\ a \in DOMAIN slots => ValueOf(slots[a].pString) = slots[a].val
<1>1. DOMAIN Bar' = DOMAIN Bar
  <2>1. DOMAIN Bar = {slots[b].pString : b \in DOMAIN slots} /\ DOMAIN Bar' = {slots'[b].pString : b \in DOMAIN slots'}
    BY DEF BarExact
  <2> QED BY <2>1
<1>2. ASSUME NEW b \in DOMAIN slots, NEW n, n = slots[b].pString
      PROVE  n \in DOMAIN Bar /\ Bar[n].val = slots[b].val /\ Bar'[n].val = slots'[b].val
  <2>1. n \in DOMAIN Bar /\ Bar[n] = MeaningOfEntry(b)
    BY <1>2 DEF BarExact
  <2>2. Bar'[n] = MeaningOfEntry(b)'
    BY <1>2 DEF BarExact, MeaningOfEntry
  <2> QED BY <2>1, <2>2 DEF MeaningOfEntry
<1>3. ASSUME NEW n \in Names, ~(a \in DOMAIN slots /\ n = slots[a].pString) PROVE ValueOf(n)' = ValueOf(n)
  <2>1. CASE n \in DOMAIN Bar
    <3>1. PICK b \in DOMAIN slots : n = slots[b].pString
      BY <2>1 DEF BarExact
    <3> QED BY <1>1, <1>2, <1>3, <2>1, <3>1 DEF ValueOf
  <2>2. CASE n \notin DOMAIN Bar
    BY <1>1, <2>2 DEF ValueOf
  <2> QED BY <2>1, <2>2
<1>4. ASSUME a \in DOMAIN slots
      PROVE  ValueOf(slots[a].pString)' = slots'[a].val /\ ValueOf(slots[a].pString) = slots[a].val
  <2>1. PICK n : n = slots[a].pString
    OBVIOUS
  <2>2. slots'[a].pString = n
    BY <1>4, <2>1
  <2>3. ValueOf(n) = slots[a].val /\ ValueOf(n)' = slots'[a].val
    BY <1>1, <1>2, <1>4, <2>1 DEF ValueOf
  <2> QED BY <1>4, <2>1, <2>2, <2>3 DEF ValueOf
<1> QED BY <1>1, <1>3, <1>4

LEMMA SetGives ==
  ASSUME Table, BarExact', NEW name \in Names, name \in DOMAIN Bar, NEW type, NEW val, SymSetValue(FindSymbol(name), type, val)
  PROVE  /\ DOMAIN Bar' = DOMAIN Bar
         /\ ValueOf(name)' = val
         /\ \A n \in Names : n # name => ValueOf(n)' = ValueOf(n)
<1> DEFINE a == FindSymbol(name)
<1>1. a \in DOMAIN slots /\ slots[a].pString = name /\ BarExact
  BY GetSymValue, BarOfTable
<1>2. Filled(slots[a]) /\ slots' = [slots EXCEPT ![a].type = type, ![a].val = val]
  BY <1>1 DEF Table, Allocated, SymSetValue
<1> HIDE DEF a
<1>3. DOMAIN slots' = DOMAIN slots /\ \A b \in DOMAIN slots : b # a => slots'[b] = slots[b]
  BY <1>1, <1>2
<1>4. slots'[a].pString = slots[a].pString /\ slots'[a].val = val
  <2> DEFINE s == slots[a]
             m == [s EXCEPT !.type = type]
  <2>1. slots'[a] = [m EXCEPT !.val = val]
    BY <1>1, <1>2
  <2>2. s = [pString |-> s.pString, pNext |-> s.pNext, type |-> s.type, val |-> s.val, mem_space |-> s.mem_space]
    BY <1>2 DEF Filled
  <2>3. m = [pString |-> s.pString, pNext |-> s.pNext, type |-> type, val |-> s.val, mem_space |-> s.mem_space]
    <3> HIDE DEF s
    <3> QED BY <2>2
  <2> HIDE DEF m
  <2>4. slots'[a].pString = m.pString /\ slots'[a].val = val
    BY <2>1, <2>3
  <2> QED BY <2>3, <2>4
<1>5. PICK b : b = a /\ b \in DOMAIN slots /\ slots[b].pString = name /\ slots'[b].val = val
  BY <1>1, <1>4
<1>6. ValueOf(slots[b].pString)' = slots'[b].val
  BY <1>1, <1>3, <1>4, <1>5, SlotsGive
<1>7. slots'[b].pString = name
  BY <1>1, <1>4, <1>5
<1>8. ValueOf(name)' = val
  BY <1>5, <1>6, <1>7 DEF ValueOf
<1> QED BY <1>1, <1>3, <1>4, <1>5, <1>8, SlotsGive

LEMMA RetypeGives ==
  ASSUME Table, BarExact', NEW a, NEW x, SymSetValueMacro(a, x) \/ SymbolSetMemSpace(a, x)
  PROVE  DOMAIN Bar' = DOMAIN Bar /\ \A n \in Names : ValueOf(n)' = ValueOf(n)
<1>1. BarExact /\ \A b \in DOMAIN slots : Filled(slots[b])
  BY BarOfTable DEF Table, Allocated
<1>2. DOMAIN slots' = DOMAIN slots /\ \A b \in DOMAIN slots : slots'[b].pString = slots[b].pString /\ slots'[b].val = slots[b].val
  BY <1>1 DEF SymSetValueMacro, SymbolSetMemSpace, Filled
<1>3. PICK c : c \notin DOMAIN slots
  <2>1. \A b \in DOMAIN slots : b # Null
    BY Places
  <2> QED BY <2>1
<1> QED BY <1>1, <1>2, <1>3, SlotsGive

LEMMA SameGives ==
  ASSUME UNCHANGED tableVars
  PROVE  DOMAIN Bar' = DOMAIN Bar /\ \A n \in Names : ValueOf(n)' = ValueOf(n)
<1>1. Bar' = Bar
  BY DEF Bar, tableVars, Defined, FindSymbol
<1> QED BY <1>1 DEF ValueOf

LEMMA ReadsByExpected == ReadsExact <=> ReadsExpected
BY DEF ReadsExact, ReadsExpected, OwnLabel, Own, Above, AboveLine, LabelValue, Nearest

----------------------------------------------------------------------------
(* What is expected on the next line.                                      *)

LEMMA AboveNext ==
  ASSUME Texts, Givens, NEW n, NEW i \in Nat
  PROVE  /\ i \in Givers(n) => AboveLine(n, i + 1) # {} /\ Max(AboveLine(n, i + 1)) = i
         /\ i \notin Givers(n) => AboveLine(n, i + 1) = AboveLine(n, i)
<1>1. Givers(n) \in SUBSET Nat
  BY GiversBounded
<1>2. i \in Givers(n) => i \in AboveLine(n, i + 1)
  BY DEF AboveLine
<1>3. \A j \in AboveLine(n, i + 1) : j <= i /\ j \in Nat
  BY <1>1 DEF AboveLine
<1>4. AboveLine(n, i + 1) # {} => /\ Max(AboveLine(n, i + 1)) \in AboveLine(n, i + 1)
                                  /\ \A j \in AboveLine(n, i + 1) : j <= Max(AboveLine(n, i + 1))
  <2>1. i + 1 \in Nat
    OBVIOUS
  <2> QED BY <2>1, LastGiver
<1>5. i \in Givers(n) => Max(AboveLine(n, i + 1)) = i
  <2> SUFFICES ASSUME i \in Givers(n) PROVE Max(AboveLine(n, i + 1)) = i
    OBVIOUS
  <2> DEFINE m == Max(AboveLine(n, i + 1))
  <2>1. i <= m /\ m <= i /\ m \in Nat
    BY <1>2, <1>3, <1>4
  <2> HIDE DEF m
  <2>2. m = i
    BY <2>1
  <2> QED BY <2>2 DEF m
<1>6. i \notin Givers(n) => AboveLine(n, i + 1) = AboveLine(n, i)
  BY <1>1 DEF AboveLine
<1> QED BY <1>2, <1>5, <1>6

LEMMA NearestNext ==
  ASSUME Texts, Givens, NEW n, NEW p, NEW i \in Nat
  PROVE  /\ i \in Givers(n) => Nearest(n, p, i + 1) = GivenAt(i, n, p)
         /\ i \notin Givers(n) => Nearest(n, p, i + 1) = Nearest(n, p, i)
BY AboveNext DEF Nearest

\* A line without EQU or SET gives what its label gives, in pass 1.
LEMMA LabelGives ==
  ASSUME Givens, NEW n, NEW p, NEW i \in Lines, ~OpGives(i)
  PROVE  GivenAt(i, n, p) = LabelValue(n, i)
<1>1. i # 0 /\ program[i].op \notin {"equ", "set"}
  BY DEF OpGives, Lines
<1>2. \A h \in given : h.line = i => (h.pass = 0 <=> h.by = "label")
  BY <1>1 DEF Givens, Giver, ByOption, ByLabel, ByOp
<1>3. {h \in given : h.line = i /\ h.name = n /\ h.pass = 0} = {h \in given : h.line = i /\ h.name = n /\ h.by = "label"}
  BY <1>2
<1> QED BY <1>3 DEF GivenAt, LabelValue

\* A label that no SET changes is all that gives its name, and so is an option.
LEMMA OneGiver ==
  ASSUME Texts, Givens, LabelsOnce, ~errors, NEW n \in Names, ~Stale(n), \A i \in Lines : LabelPast(0, i)
  PROVE  \A i \in Givers(n) : ~OpGives(i) => Givers(n) = {i}
<1> SUFFICES ASSUME NEW i \in Givers(n), ~OpGives(i), NEW j \in Givers(n) PROVE j = i
  OBVIOUS
<1>1. \A k \in Givers(n) : k = 0 \/ program[k].op # "set"
  BY DEF Stale
<1>2. \A k \in Givers(n) : k # 0 => k \in Lines /\ HasLabel(program[k]) /\ program[k].name = n /\ LabelPast(0, k)
  BY <1>1, GiversBounded, NameAssumption DEF HasLabel
<1>3. i # 0 /\ j # 0 => i = j
  BY <1>2 DEF LabelsOnce
<1>4. 0 \in Givers(n) => \E g \in given : g.name = n /\ g.by = "option"
  BY GiversBounded
<1>5. 0 \in Givers(n) => \A k \in Givers(n) : k = 0
  BY <1>2, <1>4 DEF LabelsOnce
<1> QED BY <1>3, <1>5

----------------------------------------------------------------------------
(* What stays behind the parser.                                           *)

\* The parser moves on.
Onward ==
  /\ program' = program /\ (errors => errors') /\ given \subseteq given' /\ DOMAIN Bar \subseteq DOMAIN Bar'
  /\ \A i \in Lines : /\ \A p \in {0, 1} : Past(p, i) => Past(p, i)'
                      /\ LabelPast(0, i) => LabelPast(0, i)'

LEMMA GivensKept ==
  ASSUME Givens, Onward, \A g \in given' \ given : g.name \in DOMAIN Bar' /\ Giver(g)'
  PROVE  Givens'
<1>1. ASSUME NEW g \in given PROVE Giver(g)'
  <2>1. CASE ByOption(g)
    BY <2>1 DEF Giver, ByOption
  <2>2. CASE g.line \in Lines /\ program[g.line].name = g.name /\ (ByLabel(g) \/ ByOp(g))
    <3>1. program' = program /\ g.line \in Lines' /\ program'[g.line].name = g.name
      BY <2>2 DEF Onward, Lines
    <3>2. PICK i \in Lines : i = g.line
      BY <2>2
    <3>3. ByLabel(g) => ByLabel(g)'
      BY <3>1, <3>2 DEF Onward, ByLabel, HasLabel
    <3>4. ByOp(g) => ByOp(g)'
      <4>1. ByOp(g) => g.pass \in {0, 1} /\ Past(g.pass, i)
        BY <3>2 DEF ByOp
      <4>2. ByOp(g) => Past(g.pass, i)'
        BY <4>1 DEF Onward
      <4> QED BY <3>1, <3>2, <4>2 DEF ByOp
    <3> QED BY <2>2, <3>1, <3>3, <3>4 DEF Giver
  <2> QED BY <2>1, <2>2 DEF Givens, Giver
<1> QED BY <1>1 DEF Givens, Onward

LEMMA LabelsKept ==
  ASSUME LabelsOnce, Onward, \A g \in given' \ given : g.by # "option",
         \A i \in Lines : HasLabel(program[i]) /\ LabelPast(0, i)' => LabelPast(0, i)
  PROVE  LabelsOnce'
<1>1. /\ program' = program /\ Lines' = Lines /\ DOMAIN Bar \subseteq DOMAIN Bar' /\ (~errors' => ~errors)
      /\ \A i \in Lines : HasLabel(program[i])' = HasLabel(program[i])
  BY DEF Onward, Lines, HasLabel
<1> SUFFICES ASSUME ~errors', NEW i \in Lines, HasLabel(program[i]), LabelPast(0, i)'
             PROVE  /\ program[i].name \in DOMAIN Bar'
                    /\ \A g \in given' : g.name = program[i].name => g.by # "option"
                    /\ \A j \in Lines : HasLabel(program[j]) /\ LabelPast(0, j)' /\ program[j].name = program[i].name => i = j
  BY <1>1 DEF LabelsOnce
<1>2. LabelPast(0, i) /\ \A j \in Lines : HasLabel(program[j]) /\ LabelPast(0, j)' => LabelPast(0, j)
  OBVIOUS
<1> QED BY <1>1, <1>2 DEF LabelsOnce

\* What a step gives it gives at the parser's place.
GivesHere == \A g \in given' \ given : g.line = line /\ g.pass = g_passNum /\ g.by # "option" /\ (g.pass = 1 => g.by # "label")

LEMMA ReadsKept ==
  ASSUME IInv, RInv, Onward, GivesHere, NEW r \in reads, ~errors', ~Stale(r.name)'
  PROVE  {r.val} = IF Own(r.name, r.pass, r.line)' THEN LabelValue(r.name, r.line)' ELSE Nearest(r.name, r.pass, r.line)'
<1>1. PICK n, p, i : n = r.name /\ p = r.pass /\ i = r.line
  OBVIOUS
<1>2. n \in Names /\ p \in {0, 1} /\ i \in Lines /\ i \in Nat /\ Past(p, i) /\ g_passNum \in {0, 1} /\ line \in Nat
  BY <1>1 DEF RInv, ReadsPast, Position, Lines, IInv, Texts
<1>3. program' = program /\ Own(n, p, i)' = Own(n, p, i) /\ Givers(n)' = Givers(n) /\ Stale(n)' = Stale(n) /\ ~errors
  BY GiversKept DEF Onward, GivesHere, Own, OpGives, HasLabel
<1>4. {r.val} = IF Own(n, p, i) THEN LabelValue(n, i) ELSE Nearest(n, p, i)
  BY <1>1, <1>3 DEF RInv, ReadsExpected
<1>5. Nearest(n, p, i)' = Nearest(n, p, i)
  <2>1. \A g \in given' \ given : g.line \in Nat /\ g.pass \in {0, 1} /\ (i <= g.line \/ p < g.pass) /\ (p = 1 => g.pass = 1)
    BY <1>2 DEF GivesHere, Past
  <2> QED BY <1>2, <1>3, <2>1, NearestKept DEF IInv, RInv, Onward
<1>6. LabelValue(n, i)' = LabelValue(n, i)
  <2>1. \A g \in given' \ given : ~(g.name = n /\ g.line = i /\ g.by = "label")
    BY <1>2 DEF GivesHere, Past
  <2> QED BY <2>1, LabelValueKept DEF Onward
<1> QED BY <1>1, <1>3, <1>4, <1>5, <1>6

\* And what is read there is what the table holds.
LEMMA ReadHere ==
  ASSUME IInv, RInv, Onward, GivesHere, LabelDone, \A g \in given' \ given : g.by # "label",
         NEW r, r.line = line, r.pass = g_passNum, r.name \in Names, r.val = ValueOf(r.name), ~errors', ~Stale(r.name)'
  PROVE  {r.val} = IF Own(r.name, r.pass, r.line)' THEN LabelValue(r.name, r.line)' ELSE Nearest(r.name, r.pass, r.line)'
<1>1. PICK n, p, i : n = r.name /\ p = r.pass /\ i = r.line
  OBVIOUS
<1>2. n \in Names /\ p \in {0, 1} /\ i \in Nat /\ p = g_passNum /\ i = line
  BY <1>1 DEF RInv, Position, IInv, Texts
<1>3. program' = program /\ Own(n, p, i)' = Own(n, p, i) /\ Givers(n)' = Givers(n) /\ Stale(n)' = Stale(n) /\ ~errors
  BY GiversKept DEF Onward, GivesHere, Own, OpGives, HasLabel
<1>4. {ValueOf(n)} = IF labelled /\ Own(n, p, i) THEN LabelValue(n, i) ELSE Nearest(n, p, i)
  BY <1>1, <1>2, <1>3 DEF RInv, ValuesExact
<1>5. Own(n, p, i) => labelled
  BY <1>2 DEF LabelDone, Current, Own
<1>6. Nearest(n, p, i)' = Nearest(n, p, i)
  <2>1. \A g \in given' \ given : g.line \in Nat /\ g.pass \in {0, 1} /\ (i <= g.line \/ p < g.pass) /\ (p = 1 => g.pass = 1)
    BY <1>2 DEF GivesHere
  <2> QED BY <1>2, <1>3, <2>1, NearestKept DEF IInv, RInv, Onward
<1>7. LabelValue(n, i)' = LabelValue(n, i)
  BY LabelValueKept DEF Onward
<1> QED BY <1>1, <1>3, <1>4, <1>5, <1>6, <1>7

----------------------------------------------------------------------------
(* The end of a line.                                                      *)

Advance ==
  /\ LabelDone /\ NextLine /\ UNCHANGED <<program, phase, g_passNum>>
  /\ (errors => errors') /\ DOMAIN Bar' = DOMAIN Bar
  /\ \A r \in reads' : r \in reads \/ (r.line = line /\ r.pass = g_passNum /\ r.name \in Names /\ r.val = ValueOf(r.name))

\* EQU or SET of a value, and any other line.
Assigned(val) ==
  /\ OpGives(line) /\ Current.name \in DOMAIN Bar
  /\ given' = given \cup {[pass |-> g_passNum, line |-> line, by |-> Current.op, name |-> Current.name, val |-> val]}
  /\ \A n \in Names : ValueOf(n)' = IF n = Current.name THEN val ELSE ValueOf(n)
Kept ==
  /\ given' = given /\ (errors' \/ ~OpGives(line))
  /\ \A n \in Names : ValueOf(n)' = ValueOf(n)

GivesLine ==
  /\ given \subseteq given'
  /\ \A g \in given' \ given : /\ g.line = line /\ g.pass = g_passNum /\ g.by = Current.op /\ g.name = Current.name
                               /\ Current.op \in {"equ", "set"} /\ Current.name \in DOMAIN Bar

LEMMA AssignedGives == ASSUME IInv, LabelDone, (\E val : Assigned(val)) \/ Kept PROVE GivesLine
<1>1. line # 0
  BY DEF IInv, Texts
<1>2. \A val : Assigned(val) => GivesLine
  <2> SUFFICES ASSUME NEW val, Assigned(val) PROVE GivesLine
    OBVIOUS
  <2> DEFINE h == [pass |-> g_passNum, line |-> line, by |-> Current.op, name |-> Current.name, val |-> val]
  <2>1. h.line = line /\ h.pass = g_passNum /\ h.by = Current.op /\ h.name = Current.name
    OBVIOUS
  <2>2. given' = given \cup {h} /\ Current.op \in {"equ", "set"} /\ Current.name \in DOMAIN Bar
    BY <1>1 DEF Assigned, OpGives, Current
  <2> HIDE DEF h
  <2> QED BY <2>1, <2>2 DEF GivesLine
<1> QED BY <1>2 DEF GivesLine, Kept

LEMMA AdvanceKeeps ==
  ASSUME IInv, RInv, Advance, GivesLine
  PROVE  Position' /\ Givens' /\ LabelsOnce' /\ ReadsPast' /\ ReadsExpected'
<1>1. /\ line \in Lines /\ Lines = 1 .. Len(program) /\ Len(program) \in Nat /\ g_passNum \in {0, 1}
      /\ line' = line + 1 /\ labelled' = FALSE /\ program' = program /\ g_passNum' = g_passNum
      /\ phase = "parse" /\ phase' = phase
  BY DEF IInv, RInv, Texts, Advance, LabelDone, Parsing, NextLine, Lines, Position
<1>2. Onward
  <2>1. ASSUME NEW i \in Lines, NEW p \in {0, 1} PROVE (Past(p, i) => Past(p, i)') /\ (LabelPast(0, i) => LabelPast(0, i)')
    BY <1>1 DEF Past, LabelPast
  <2> QED BY <1>1, <2>1 DEF Onward, Advance, GivesLine
<1>3. GivesHere /\ \A g \in given' \ given : g.by # "label"
  BY DEF GivesHere, GivesLine
<1>4. Position'
  <2>1. line' <= Len(program') + 1
    BY <1>1
  <2> QED BY <1>1, <2>1 DEF Position
<1>5. Givens'
  <2>1. ASSUME NEW g \in given' \ given PROVE g.name \in DOMAIN Bar' /\ Giver(g)'
    <3>1. /\ g.line = line /\ g.pass = g_passNum /\ g.by = Current.op /\ g.name = Current.name
          /\ Current.op \in {"equ", "set"} /\ Current.name \in DOMAIN Bar
      BY DEF GivesLine
    <3>2. ByOp(g)'
      <4>1. Past(g.pass, g.line)'
        BY <1>1, <3>1 DEF Past
      <4> QED BY <1>1, <3>1, <4>1 DEF ByOp, Current
    <3> QED BY <1>1, <3>1, <3>2 DEF Giver, Lines, Current, Advance
  <2> QED BY <1>2, <2>1, GivensKept DEF RInv
<1>6. LabelsOnce'
  <2>1. ASSUME NEW i \in Lines, HasLabel(program[i]), LabelPast(0, i)' PROVE LabelPast(0, i)
    BY <1>1, <2>1 DEF LabelPast, Past, Advance, LabelDone, Current
  <2> QED BY <1>2, <1>3, <2>1, LabelsKept DEF RInv, GivesHere
<1>7. ReadsPast'
  <2> SUFFICES ASSUME NEW r \in reads' PROVE r.name \in Names /\ r.pass \in {0, 1} /\ r.line \in Lines /\ Past(r.pass, r.line)'
    BY <1>1 DEF ReadsPast, Lines
  <2>1. CASE r \in reads
    <3>1. r.name \in Names /\ r.pass \in {0, 1} /\ r.line \in Lines /\ Past(r.pass, r.line)
      BY <2>1 DEF RInv, ReadsPast
    <3>2. PICK p \in {0, 1}, i \in Lines : p = r.pass /\ i = r.line
      BY <3>1
    <3>3. Past(p, i)'
      BY <1>2, <3>1, <3>2 DEF Onward
    <3> QED BY <3>1, <3>2, <3>3
  <2>2. CASE r \notin reads
    <3>1. r.line = line /\ r.pass = g_passNum /\ r.name \in Names
      BY <2>2 DEF Advance
    <3>2. PICK p \in {0, 1}, i \in Lines : p = r.pass /\ i = r.line
      BY <1>1, <3>1
    <3>3. Past(p, i)'
      BY <1>1, <3>1, <3>2 DEF Past
    <3> QED BY <3>1, <3>2, <3>3
  <2> QED BY <2>1, <2>2
<1>8. ReadsExpected'
  <2> SUFFICES ASSUME ~errors', NEW r \in reads', ~Stale(r.name)'
               PROVE  {r.val} = IF Own(r.name, r.pass, r.line)' THEN LabelValue(r.name, r.line)' ELSE Nearest(r.name, r.pass, r.line)'
    BY DEF ReadsExpected
  <2>1. CASE r \in reads
    BY <1>2, <1>3, <2>1, ReadsKept
  <2>2. CASE r \notin reads
    <3>1. r.line = line /\ r.pass = g_passNum /\ r.name \in Names /\ r.val = ValueOf(r.name) /\ LabelDone
      BY <2>2 DEF Advance
    <3> QED BY <1>2, <1>3, <3>1, ReadHere
  <2> QED BY <2>1, <2>2
<1> QED BY <1>4, <1>5, <1>6, <1>7, <1>8

\* A line that gives no value leaves the others as they are, and its label as it is given.
LEMMA KeptExact ==
  ASSUME IInv, RInv, Advance, Kept
  PROVE  ValuesExact'
<1>1. /\ line \in Lines /\ line \in Nat /\ g_passNum \in {0, 1} /\ line' = line + 1 /\ labelled' = FALSE
      /\ program' = program /\ g_passNum' = g_passNum /\ given' = given
  BY DEF IInv, RInv, Texts, Advance, LabelDone, Parsing, NextLine, Lines, Position, Kept
<1> SUFFICES ASSUME ~errors', NEW n \in Names, ~Stale(n)', NEW p, p = g_passNum, NEW k, k = line + 1
             PROVE  {ValueOf(n)'} = Nearest(n, p, k)'
  BY <1>1 DEF ValuesExact
<1>2. Givers(n)' = Givers(n) /\ ~Stale(n) /\ ~errors /\ ~OpGives(line)
  BY <1>1, GiversKept DEF Advance, Kept
<1>3. Nearest(n, p, k)' = Nearest(n, p, k)
  <2>1. k \in Nat /\ p \in {0, 1}
    BY <1>1
  <2> QED BY <1>1, <1>2, <2>1, NearestKept DEF IInv, RInv
<1>4. PICK i \in Lines : i = line
  BY <1>1
<1>5. {ValueOf(n)} = IF labelled /\ Own(n, p, i) THEN LabelValue(n, i) ELSE Nearest(n, p, i)
  BY <1>1, <1>2, <1>4 DEF RInv, ValuesExact
<1>6. i \in Givers(n) => labelled /\ Own(n, p, i)
  <2> SUFFICES ASSUME i \in Givers(n) PROVE labelled /\ Own(n, p, i)
    OBVIOUS
  <2>1. program[i].name = n /\ program[i].op # "ifdef" /\ i # 0
    BY GiversBounded DEF IInv, RInv, Lines
  <2>2. HasLabel(program[i])
    BY <1>2, <1>4, <2>1, NameAssumption DEF OpGives, HasLabel
  <2> QED BY <1>2, <1>4, <2>1, <2>2 DEF Own, Advance, LabelDone, Current
<1>7. i \notin Givers(n) => ~Own(n, p, i)
  BY GiversBounded DEF IInv, RInv, Own, HasLabel
<1>8. {ValueOf(n)} = Nearest(n, p, k)
  <2>1. k = i + 1 /\ i \in Nat
    BY <1>1, <1>4
  <2>2. CASE i \in Givers(n)
    <3>1. GivenAt(i, n, p) = LabelValue(n, i)
      BY <1>2, <1>4, LabelGives DEF RInv
    <3> QED BY <1>5, <1>6, <2>1, <2>2, <3>1, NearestNext DEF IInv, RInv
  <2>3. CASE i \notin Givers(n)
    BY <1>5, <1>7, <2>1, <2>3, NearestNext DEF IInv, RInv
  <2> QED BY <2>2, <2>3
<1>9. ValueOf(n)' = ValueOf(n)
  BY DEF Kept
<1> QED BY <1>3, <1>8, <1>9

LEMMA AssignedExact ==
  ASSUME IInv, RInv, Advance, NEW val, Assigned(val)
  PROVE  ValuesExact'
<1>1. /\ line \in Lines /\ line \in Nat /\ g_passNum \in {0, 1} /\ line' = line + 1 /\ labelled' = FALSE
      /\ program' = program /\ g_passNum' = g_passNum
  BY DEF IInv, RInv, Texts, Advance, LabelDone, Parsing, NextLine, Lines, Position
<1> SUFFICES ASSUME ~errors', NEW n \in Names, ~Stale(n)', NEW p, p = g_passNum, NEW k, k = line + 1
             PROVE  {ValueOf(n)'} = Nearest(n, p, k)'
  BY <1>1 DEF ValuesExact
<1> DEFINE h == [pass |-> g_passNum, line |-> line, by |-> Current.op, name |-> Current.name, val |-> val]
<1>2. /\ h.line = line /\ h.pass = p /\ h.by = Current.op /\ h.name = Current.name /\ h.val = val
      /\ given' = given \cup {h} /\ OpGives(line) /\ Current.op \in {"equ", "set"}
  BY <1>1 DEF Assigned, OpGives, Current, Lines
<1> HIDE DEF h
<1>3. Givers(n)' = Givers(n) /\ ~Stale(n) /\ ~errors
  BY <1>1, <1>2, GiversKept DEF Advance
<1>4. PICK i \in Lines : i = line
  BY <1>1
<1>5. k = i + 1 /\ i \in Nat /\ k \in Nat /\ p \in {0, 1}
  BY <1>1, <1>4
<1>6. CASE n = Current.name
  <2>1. i \in Givers(n)
    BY <1>2, <1>4, <1>6, GiversBounded DEF IInv, RInv, Current
  <2>2. AboveLine(n, k) # {} /\ Max(AboveLine(n, k)) = i /\ AboveLine(n, k)' = AboveLine(n, k)
    BY <1>3, <1>5, <2>1, AboveNext DEF IInv, RInv, AboveLine
  <2>3. Nearest(n, p, k)' = GivenAt(i, n, p)'
    BY <2>2 DEF Nearest
  <2>4. {g \in given' : g.line = i /\ g.name = n /\ g.by # "label" /\ g.pass = p} = {h}
    <3>1. \A g \in given : ~(g.line = i /\ g.by # "label" /\ g.pass = p)
      BY <1>1, <1>4, <1>5 DEF RInv, Givens, Giver, ByOption, ByLabel, ByOp, Past, Lines
    <3> QED BY <1>2, <1>4, <1>6, <3>1
  <2>5. GivenAt(i, n, p)' = {val}
    <3>1. OpGives(i)'
      BY <1>1, <1>2, <1>4 DEF OpGives
    <3>2. GivenAt(i, n, p)' = {g.val : g \in {h2 \in given' : h2.line = i /\ h2.name = n /\ h2.by # "label" /\ h2.pass = p}}
      BY <3>1 DEF GivenAt
    <3> QED BY <1>2, <2>4, <3>2
  <2> QED BY <1>6, <2>3, <2>5 DEF Assigned
<1>7. CASE n # Current.name
  <2>1. Nearest(n, p, k)' = Nearest(n, p, k)
    <3>1. \A g \in given' \ given : g.name # n /\ g.line \in Nat /\ g.pass \in {0, 1}
      BY <1>1, <1>2, <1>5, <1>7
    <3> QED BY <1>1, <1>2, <1>3, <1>5, <3>1, NearestKept DEF IInv, RInv
  <2>2. i \notin Givers(n) /\ ~Own(n, p, i)
    BY <1>4, <1>7, GiversBounded DEF IInv, RInv, Current, Own, Lines
  <2>3. {ValueOf(n)} = Nearest(n, p, i)
    BY <1>3, <1>4, <2>2 DEF RInv, ValuesExact
  <2> QED BY <1>5, <1>7, <2>1, <2>2, <2>3, NearestNext DEF IInv, RInv, Assigned
<1> QED BY <1>6, <1>7

----------------------------------------------------------------------------
(* A label.                                                                *)

LabelStep ==
  /\ Parsing /\ ~labelled /\ HasLabel(Current) /\ labelled' = TRUE
  /\ UNCHANGED <<program, g_passNum, line, reads>> /\ (errors => errors') /\ phase' # "options"

\* It is new, or it is not: an error in pass 1, and every label of pass 2.
Placed(val) ==
  /\ g_passNum = 0 /\ Current.name \in Names \ DOMAIN Bar /\ DOMAIN Bar' = DOMAIN Bar \cup {Current.name}
  /\ given' = given \cup {[pass |-> g_passNum, line |-> line, by |-> "label", name |-> Current.name, val |-> val]}
  /\ \A n \in Names : ValueOf(n)' = IF n = Current.name THEN val ELSE ValueOf(n)
Known ==
  /\ given' = given /\ DOMAIN Bar' = DOMAIN Bar
  /\ errors' \/ (g_passNum = 1 /\ \A n \in Names : ValueOf(n)' = ValueOf(n))

GivesLabel ==
  /\ given \subseteq given' /\ DOMAIN Bar \subseteq DOMAIN Bar'
  /\ \A g \in given' \ given : /\ g.line = line /\ g.pass = g_passNum /\ g.pass = 0 /\ g.by = "label"
                               /\ g.name = Current.name /\ g.name \in DOMAIN Bar'

LEMMA PlacedGives == ASSUME (\E val : Placed(val)) \/ Known PROVE GivesLabel
<1>1. \A val : Placed(val) => GivesLabel
  <2> SUFFICES ASSUME NEW val, Placed(val) PROVE GivesLabel
    OBVIOUS
  <2> DEFINE h == [pass |-> g_passNum, line |-> line, by |-> "label", name |-> Current.name, val |-> val]
  <2>1. h.line = line /\ h.pass = g_passNum /\ h.by = "label" /\ h.name = Current.name
    OBVIOUS
  <2>2. given' = given \cup {h} /\ g_passNum = 0 /\ DOMAIN Bar' = DOMAIN Bar \cup {Current.name}
    BY DEF Placed
  <2> HIDE DEF h
  <2> QED BY <2>1, <2>2 DEF GivesLabel
<1> QED BY <1>1 DEF GivesLabel, Known

LEMMA LabelKeeps ==
  ASSUME IInv, RInv, LabelStep, GivesLabel
  PROVE  Onward /\ Position' /\ Givens' /\ ReadsPast' /\ ReadsExpected'
<1>1. /\ line \in Lines /\ Lines = 1 .. Len(program) /\ Len(program) \in Nat /\ g_passNum \in {0, 1}
      /\ line' = line /\ program' = program /\ g_passNum' = g_passNum /\ reads' = reads
  BY DEF IInv, RInv, Texts, LabelStep, Parsing, Lines, Position
<1>2. Onward
  <2>1. ASSUME NEW i \in Lines, NEW p \in {0, 1} PROVE (Past(p, i) => Past(p, i)') /\ (LabelPast(0, i) => LabelPast(0, i)')
    BY <1>1 DEF Past, LabelPast, LabelStep
  <2> QED BY <1>1, <2>1 DEF Onward, LabelStep, GivesLabel
<1>3. GivesHere
  BY <1>1 DEF GivesHere, GivesLabel
<1>4. Position'
  <2>1. line' <= Len(program') + 1
    BY <1>1
  <2>2. line' \in Lines' /\ HasLabel(program[line])'
    BY <1>1 DEF Lines, LabelStep, Current, HasLabel
  <2> QED BY <1>1, <2>1, <2>2 DEF Position, LabelStep
<1>5. Givens'
  <2>1. ASSUME NEW g \in given' \ given PROVE g.name \in DOMAIN Bar' /\ Giver(g)'
    <3>1. /\ g.line = line /\ g.pass = 0 /\ g_passNum = 0 /\ g.by = "label" /\ g.name = Current.name /\ g.name \in DOMAIN Bar'
      BY DEF GivesLabel
    <3>2. LabelPast(0, g.line)' /\ HasLabel(program[g.line])'
      BY <1>1, <3>1 DEF LabelPast, LabelStep, Current, HasLabel
    <3> QED BY <1>1, <3>1, <3>2 DEF Giver, ByLabel, Lines, Current
  <2> QED BY <1>2, <2>1, GivensKept DEF RInv
<1>6. ReadsPast'
  BY <1>1 DEF RInv, ReadsPast, Past, Lines
<1>7. ReadsExpected'
  BY <1>1, <1>2, <1>3, ReadsKept DEF ReadsExpected
<1> QED BY <1>2, <1>4, <1>5, <1>6, <1>7

LEMMA PlacedKeeps ==
  ASSUME IInv, RInv, LabelStep, NEW val, Placed(val)
  PROVE  LabelsOnce' /\ ValuesExact'
<1> DEFINE h == [pass |-> g_passNum, line |-> line, by |-> "label", name |-> Current.name, val |-> val]
<1>1. /\ line \in Lines /\ line \in Nat /\ line' = line /\ labelled' = TRUE /\ g_passNum = 0 /\ g_passNum' = 0
      /\ program' = program /\ Lines' = Lines /\ \A i \in Lines : HasLabel(program[i])' = HasLabel(program[i])
  BY DEF IInv, Texts, LabelStep, Placed, Parsing, Lines, HasLabel
<1>2. /\ h.line = line /\ h.pass = 0 /\ h.by = "label" /\ h.name = Current.name /\ h.val = val
      /\ given' = given \cup {h}
  BY <1>1 DEF Placed
<1> HIDE DEF h
<1>3. /\ Current.name \in Names /\ Current.name \notin DOMAIN Bar /\ DOMAIN Bar' = DOMAIN Bar \cup {Current.name}
      /\ \A g \in given : g.name \in DOMAIN Bar
  BY DEF Placed, RInv, Givens
<1>4. LabelsOnce'
  <2> SUFFICES ASSUME ~errors', NEW i \in Lines, HasLabel(program[i]), LabelPast(0, i)'
               PROVE  /\ program[i].name \in DOMAIN Bar'
                      /\ \A g \in given' : g.name = program[i].name => g.by # "option"
                      /\ \A j \in Lines : HasLabel(program[j]) /\ LabelPast(0, j)' /\ program[j].name = program[i].name => i = j
    BY <1>1 DEF LabelsOnce
  <2>1. ~errors
    BY DEF LabelStep
  <2>2. \A j \in Lines : LabelPast(0, j)' => LabelPast(0, j) \/ j = line
    BY <1>1 DEF LabelPast, Past
  <2>3. \A j \in Lines : HasLabel(program[j]) /\ LabelPast(0, j) => program[j].name \in DOMAIN Bar
    BY <2>1 DEF RInv, LabelsOnce
  <2>4. CASE i = line
    <3>1. program[i].name = Current.name
      BY <2>4 DEF Current
    <3> QED BY <1>2, <1>3, <2>2, <2>3, <2>4, <3>1
  <2>5. CASE i # line
    <3>1. LabelPast(0, i) /\ program[i].name \in DOMAIN Bar
      BY <2>2, <2>3, <2>5
    <3>2. \A g \in given : g.name = program[i].name => g.by # "option"
      BY <2>1, <3>1 DEF RInv, LabelsOnce
    <3>3. \A j \in Lines : HasLabel(program[j]) /\ LabelPast(0, j)' /\ program[j].name = program[i].name => i = j
      <4> SUFFICES ASSUME NEW j \in Lines, HasLabel(program[j]), LabelPast(0, j)', program[j].name = program[i].name PROVE i = j
        OBVIOUS
      <4>1. j # line
        BY <1>3, <3>1 DEF Current
      <4> QED BY <2>1, <2>2, <3>1, <4>1 DEF RInv, LabelsOnce
    <3> QED BY <1>2, <1>3, <3>1, <3>2, <3>3
  <2> QED BY <2>4, <2>5
<1>5. ValuesExact'
  <2> SUFFICES ASSUME ~errors', NEW n \in Names, ~Stale(n)', NEW i, i = line
               PROVE  {ValueOf(n)'} = IF Own(n, 0, i)' THEN LabelValue(n, i)' ELSE Nearest(n, 0, i)'
    BY <1>1 DEF ValuesExact
  <2>1. Givers(n)' = Givers(n) /\ ~Stale(n) /\ ~errors
    BY <1>1, <1>2, GiversKept DEF LabelStep
  <2>2. Own(n, 0, i)' <=> n = Current.name
    BY <1>1 DEF Own, Current, LabelStep
  <2>3. CASE n = Current.name
    <3>1. \A g \in given : g.name # n
      BY <1>3, <2>3
    <3>2. {g \in given' : g.line = i /\ g.name = n /\ g.by = "label"} = {h}
      BY <1>2, <2>3, <3>1
    <3>3. LabelValue(n, i)' = {val}
      BY <1>2, <3>2 DEF LabelValue
    <3> QED BY <2>2, <2>3, <3>3 DEF Placed
  <2>4. CASE n # Current.name
    <3>1. Nearest(n, 0, i)' = Nearest(n, 0, i)
      <4>1. \A g \in given' \ given : g.name # n /\ g.line \in Nat /\ g.pass \in {0, 1}
        BY <1>1, <1>2, <2>4
      <4> QED BY <1>1, <1>2, <2>1, <4>1, NearestKept DEF IInv, RInv
    <3>2. {ValueOf(n)} = Nearest(n, 0, i)
      BY <1>1, <2>1 DEF RInv, ValuesExact, LabelStep
    <3> QED BY <2>2, <2>4, <3>1, <3>2 DEF Placed
  <2> QED BY <2>3, <2>4
<1> QED BY <1>4, <1>5

\* In pass 2 a label that no SET changes has its address already.
LEMMA KnownKeeps ==
  ASSUME IInv, RInv, LabelStep, Known, Onward
  PROVE  LabelsOnce' /\ ValuesExact'
<1>1. CASE errors'
  BY <1>1 DEF LabelsOnce, ValuesExact
<1>2. CASE ~errors'
  <2>1. /\ line \in Lines /\ line \in Nat /\ line' = line /\ labelled' = TRUE /\ g_passNum = 1 /\ g_passNum' = 1
        /\ program' = program /\ Lines' = Lines /\ given' = given /\ ~errors
    BY <1>2 DEF IInv, Texts, LabelStep, Known, Parsing, Lines
  <2>2. \A i \in Lines : LabelPast(0, i)
    BY <2>1 DEF LabelPast, Past
  <2>3. LabelsOnce'
    BY <2>1, <2>2, LabelsKept DEF RInv
  <2>4. ValuesExact'
    <3> SUFFICES ASSUME NEW n \in Names, ~Stale(n)', NEW i \in Lines, i = line
                 PROVE  {ValueOf(n)'} = IF Own(n, 1, i)' THEN LabelValue(n, i)' ELSE Nearest(n, 1, i)'
      BY <2>1 DEF ValuesExact
    <3>1. Givers(n)' = Givers(n) /\ ~Stale(n) /\ Own(n, 1, i)' = Own(n, 1, i)
      BY <2>1, GiversKept DEF Own, HasLabel, OpGives
    <3>2. LabelValue(n, i)' = LabelValue(n, i) /\ Nearest(n, 1, i)' = Nearest(n, 1, i)
      <4>1. LabelValue(n, i)' = LabelValue(n, i)
        BY <2>1, LabelValueKept
      <4>2. Nearest(n, 1, i)' = Nearest(n, 1, i)
        BY <2>1, <3>1, NearestKept DEF IInv, RInv
      <4> QED BY <4>1, <4>2
    <3>3. {ValueOf(n)} = Nearest(n, 1, i)
      BY <2>1, <3>1 DEF RInv, ValuesExact, LabelStep
    <3>4. Own(n, 1, i) => Nearest(n, 1, i) = LabelValue(n, i)
      <4> SUFFICES ASSUME Own(n, 1, i) PROVE Nearest(n, 1, i) = LabelValue(n, i)
        OBVIOUS
      <4>1. i \in Givers(n) /\ ~OpGives(i) /\ i \in Nat
        BY <2>1, GiversBounded DEF IInv, RInv, Own, HasLabel
      <4>2. Givers(n) = {i}
        BY <2>1, <2>2, <3>1, <4>1, OneGiver DEF IInv, RInv
      <4>3. AboveLine(n, i) = {}
        BY <4>1, <4>2 DEF AboveLine
      <4>4. Nearest(n, 1, i) = GivenAt(i, n, 0)
        BY <4>1, <4>2, <4>3, MaxOfOne DEF Nearest
      <4> QED BY <4>1, <4>4, LabelGives DEF RInv
    <3>5. ValueOf(n)' = ValueOf(n)
      BY <1>2 DEF Known
    <3> QED BY <3>1, <3>2, <3>3, <3>4, <3>5
  <2> QED BY <2>3, <2>4
<1> QED BY <1>1, <1>2

----------------------------------------------------------------------------
(* The command line, and the end of a pass.                                *)

\* An option defines its name, or it is an error and changes a value.
OptionStep(name, val) ==
  /\ phase = "options" /\ name \in Names
  /\ UNCHANGED <<program, g_passNum, line, labelled, reads>> /\ (errors => errors')
  /\ given' = given \cup {[pass |-> 0, line |-> 0, by |-> "option", name |-> name, val |-> val]}
  /\ DOMAIN Bar' = DOMAIN Bar \cup {name}
  /\ errors' \/ (/\ name \notin DOMAIN Bar
                 /\ \A n \in Names : ValueOf(n)' = IF n = name THEN val ELSE ValueOf(n))

LEMMA OptionKeeps ==
  ASSUME IInv, RInv, NEW name, NEW val, OptionStep(name, val)
  PROVE  RInv'
<1> DEFINE h == [pass |-> 0, line |-> 0, by |-> "option", name |-> name, val |-> val]
<1>1. h.pass = 0 /\ h.line = 0 /\ h.by = "option" /\ h.name = name /\ h.val = val /\ given' = given \cup {h}
  BY DEF OptionStep
<1> HIDE DEF h
<1>2. /\ g_passNum = 0 /\ line = 1 /\ ~labelled /\ reads = {} /\ \A g \in given : g.by = "option"
      /\ UNCHANGED <<program, g_passNum, line, labelled, reads>> /\ Len(program) \in Nat /\ Lines = 1 .. Len(program)
  BY DEF RInv, Position, OptionStep, IInv, Texts, Lines
<1>3. Position'
  <2>1. \A g \in given' : g.by = "option"
    BY <1>1, <1>2
  <2> QED BY <1>2, <2>1 DEF RInv, Position
<1>4. Onward
  <2>1. DOMAIN Bar \subseteq DOMAIN Bar'
    BY DEF OptionStep
  <2> QED BY <1>1, <1>2, <2>1 DEF Onward, OptionStep, Past, LabelPast
<1>5. Givens'
  <2>1. h.name \in DOMAIN Bar' /\ Giver(h)'
    BY <1>1 DEF OptionStep, Giver, ByOption
  <2> QED BY <1>1, <1>4, <2>1, GivensKept DEF RInv
<1>6. LabelsOnce'
  <2>1. \A i \in Lines' : ~LabelPast(0, i)'
    BY <1>2 DEF LabelPast, Past, Lines
  <2> QED BY <2>1 DEF LabelsOnce
<1>7. ValuesExact'
  <2> SUFFICES ASSUME ~errors', NEW n \in Names, ~Stale(n)' PROVE {ValueOf(n)'} = Nearest(n, 0, 1)'
    BY <1>2 DEF ValuesExact
  <2>1. name \notin DOMAIN Bar /\ ValueOf(n)' = (IF n = name THEN val ELSE ValueOf(n)) /\ ~errors
    BY DEF OptionStep
  <2>2. CASE n = name
    <3>1. \A g \in given : g.name # n
      BY <2>1, <2>2 DEF RInv, Givens
    <3>2. {g.line : g \in {k \in given' : k.name = n /\ k.by = "option"}} = {0}
      BY <1>1, <2>2, <3>1
    <3>3. AboveLine(n, 1)' = {0}
      <4> DEFINE lines == {i \in Lines' : program'[i].name = n /\ program'[i].op # "ifdef"}
      <4>1. Givers(n)' = lines \cup {0}
        BY <3>2 DEF Givers
      <4>2. \A i \in lines : i \in Nat /\ i >= 1
        BY <1>2 DEF Lines
      <4> HIDE DEF lines
      <4> QED BY <4>1, <4>2 DEF AboveLine
    <3>4. Nearest(n, 0, 1)' = GivenAt(0, n, 0)'
      BY <3>3, MaxOfOne DEF Nearest
    <3>5. {g \in given' : g.line = 0 /\ g.name = n /\ g.pass = 0} = {h}
      BY <1>1, <2>2, <3>1
    <3>6. GivenAt(0, n, 0)' = {val}
      BY <1>1, <3>5 DEF GivenAt, OpGives
    <3> QED BY <2>1, <2>2, <3>4, <3>6
  <2>3. CASE n # name
    <3>1. {k \in given' : k.name = n /\ k.by = "option"} = {k \in given : k.name = n /\ k.by = "option"}
      BY <1>1, <2>3
    <3>2. Givers(n)' = Givers(n) /\ Stale(n)' = Stale(n)
      BY <1>2, <3>1 DEF Givers, Stale, OpGives, Lines
    <3>3. Nearest(n, 0, 1)' = Nearest(n, 0, 1)
      <4>1. \A g \in given' \ given : g.name # n /\ g.line \in Nat /\ g.pass \in {0, 1}
        BY <1>1, <2>3
      <4> QED BY <1>1, <1>2, <3>2, <4>1, NearestKept DEF IInv, RInv
    <3>4. {ValueOf(n)} = Nearest(n, 0, 1)
      BY <1>2, <2>1, <3>2 DEF RInv, ValuesExact
    <3> QED BY <2>1, <2>3, <3>3, <3>4
  <2> QED BY <2>2, <2>3
<1>8. ReadsPast' /\ ReadsExpected'
  BY <1>2 DEF ReadsPast, ReadsExpected
<1> QED BY <1>3, <1>5, <1>6, <1>7, <1>8 DEF RInv

\* A step that gives and reads nothing.
IdleStep ==
  /\ UNCHANGED <<program, given, reads, g_passNum, line, labelled>> /\ (errors => errors')
  /\ phase' = "options" => phase = "options"
  /\ DOMAIN Bar' = DOMAIN Bar /\ \A n \in Names : ValueOf(n)' = ValueOf(n)

LEMMA IdleKeeps ==
  ASSUME IInv, RInv, IdleStep
  PROVE  RInv'
<1>1. UNCHANGED <<program, given, reads, g_passNum, line, labelled>> /\ (errors => errors') /\ DOMAIN Bar' = DOMAIN Bar
  BY DEF IdleStep
<1>2. /\ \A n : Givers(n)' = Givers(n) /\ Stale(n)' = Stale(n)
      /\ \A p, i : Past(p, i)' = Past(p, i) /\ LabelPast(p, i)' = LabelPast(p, i)
      /\ \A n, i : LabelValue(n, i)' = LabelValue(n, i)
      /\ \A n, p, i : Own(n, p, i)' = Own(n, p, i)
  BY <1>1 DEF Givers, Lines, Stale, OpGives, Past, LabelPast, LabelValue, Own, HasLabel
<1>3. \A n, p, i : Nearest(n, p, i)' = Nearest(n, p, i)
  BY <1>1 DEF Nearest, AboveLine, Givers, Lines, GivenAt, OpGives
<1>4. Position'
  BY <1>1 DEF RInv, Position, Lines, HasLabel, IdleStep
<1>5. Onward
  BY <1>1, <1>2 DEF Onward
<1>6. Givens'
  BY <1>1, <1>5, GivensKept DEF RInv
<1>7. LabelsOnce'
  BY <1>1, <1>2, <1>5, LabelsKept DEF RInv
<1>8. ValuesExact'
  BY <1>1, <1>2, <1>3 DEF RInv, ValuesExact, IdleStep
<1>9. ReadsPast'
  BY <1>1, <1>2 DEF RInv, ReadsPast, Lines
<1>10. ReadsExpected'
  BY <1>1, <1>2, <1>3 DEF RInv, ReadsExpected
<1> QED BY <1>4, <1>6, <1>7, <1>8, <1>9, <1>10 DEF RInv

\* Pass 2 begins with the values of the end of pass 1.
TurnStep ==
  /\ phase = "parse" /\ phase' = phase /\ line > Len(program) /\ g_passNum = 0 /\ g_passNum' = 1 /\ line' = 1
  /\ UNCHANGED <<program, given, reads, labelled, errors>>
  /\ DOMAIN Bar' = DOMAIN Bar /\ \A n \in Names : ValueOf(n)' = ValueOf(n)

LEMMA TurnKeeps ==
  ASSUME IInv, RInv, TurnStep
  PROVE  RInv'
<1>1. /\ UNCHANGED <<program, given, reads, labelled, errors>> /\ DOMAIN Bar' = DOMAIN Bar /\ Lines' = Lines
      /\ line \in Nat /\ Len(program) \in Nat /\ Lines = 1 .. Len(program) /\ ~labelled /\ line > Len(program)
      /\ g_passNum = 0 /\ g_passNum' = 1 /\ line' = 1
  BY DEF TurnStep, RInv, Position, IInv, Texts, Lines
<1>2. \A i \in Lines : Past(0, i) /\ LabelPast(0, i) /\ Past(0, i)' /\ ~Past(1, i)
  BY <1>1 DEF Past, LabelPast
<1>3. Onward
  BY <1>1, <1>2 DEF Onward, LabelPast
<1>4. Position'
  <2>1. line' <= Len(program') + 1
    BY <1>1
  <2>2. phase' # "options" /\ labelled' = FALSE
    BY <1>1 DEF TurnStep, RInv, Position
  <2> QED BY <1>1, <2>1, <2>2 DEF Position
<1>5. Givens'
  BY <1>1, <1>3, GivensKept DEF RInv
<1>6. LabelsOnce'
  BY <1>1, <1>2, <1>3, LabelsKept DEF RInv
<1>7. ReadsPast'
  <2> SUFFICES ASSUME NEW r \in reads PROVE r.name \in Names /\ r.pass \in {0, 1} /\ r.line \in Lines /\ Past(r.pass, r.line)'
    BY <1>1 DEF ReadsPast
  <2>1. r.name \in Names /\ r.pass \in {0, 1} /\ r.line \in Lines /\ Past(r.pass, r.line)
    BY DEF RInv, ReadsPast
  <2>2. PICK i \in Lines : i = r.line
    BY <2>1
  <2>3. r.pass = 0
    BY <1>2, <2>1
  <2>4. Past(0, i)'
    BY <1>2
  <2> QED BY <2>1, <2>2, <2>3, <2>4
<1>8. ReadsExpected'
  <2>1. /\ \A n : Givers(n)' = Givers(n) /\ Stale(n)' = Stale(n)
        /\ \A n, i : LabelValue(n, i)' = LabelValue(n, i)
        /\ \A n, p, i : Own(n, p, i)' = Own(n, p, i)
    BY <1>1 DEF Givers, Lines, Stale, OpGives, LabelValue, Own, HasLabel
  <2>2. \A n, p, i : Nearest(n, p, i)' = Nearest(n, p, i)
    BY <1>1 DEF Nearest, AboveLine, Givers, Lines, GivenAt, OpGives
  <2> QED BY <1>1, <2>1, <2>2 DEF RInv, ReadsExpected
<1>9. ValuesExact'
  <2> SUFFICES ASSUME ~errors', NEW n \in Names, ~Stale(n)' PROVE {ValueOf(n)'} = Nearest(n, 1, 1)'
    BY <1>1 DEF ValuesExact
  <2>1. Givers(n)' = Givers(n) /\ ~Stale(n) /\ ~errors
    BY <1>1 DEF Givers, Lines, Stale, OpGives
  <2>2. Nearest(n, 1, 1)' = Nearest(n, 1, 1)
    BY <1>1 DEF Nearest, AboveLine, Givers, Lines, GivenAt, OpGives
  <2>3. PICK k \in Nat : k = line
    BY <1>1
  <2>4. {ValueOf(n)} = Nearest(n, 0, k)
    BY <1>1, <2>1, <2>3 DEF RInv, ValuesExact
  <2>5. AboveLine(n, k) = Givers(n)
    BY <1>1, <2>3, GiversBounded DEF AboveLine, IInv, RInv
  <2>6. Nearest(n, 0, k) = IF Givers(n) # {} THEN GivenAt(Max(Givers(n)), n, 0) ELSE {Val_CreateUnresolved}
    BY <2>5 DEF Nearest
  <2>7. CASE 0 \in Givers(n)
    <3>1. Givers(n) = {0}
      BY <1>2, <2>1, <2>7, OneGiver DEF IInv, RInv, OpGives
    <3>2. AboveLine(n, 1) = {0}
      BY <3>1 DEF AboveLine
    <3>3. GivenAt(0, n, 1) = GivenAt(0, n, 0)
      BY DEF GivenAt, OpGives
    <3>4. Nearest(n, 1, 1) = GivenAt(0, n, 0) /\ Nearest(n, 0, k) = GivenAt(0, n, 0)
      BY <2>6, <3>1, <3>2, <3>3, MaxOfOne DEF Nearest
    <3> QED BY <2>2, <2>4, <3>4 DEF TurnStep
  <2>8. CASE 0 \notin Givers(n)
    <3>1. AboveLine(n, 1) = {}
      BY <2>8, GiversBounded DEF AboveLine, IInv, RInv
    <3>2. Nearest(n, 1, 1) = Nearest(n, 0, k)
      BY <2>6, <3>1 DEF Nearest
    <3> QED BY <2>2, <2>4, <3>2 DEF TurnStep
  <2> QED BY <2>7, <2>8
<1> QED BY <1>4, <1>5, <1>6, <1>7, <1>8, <1>9 DEF RInv

----------------------------------------------------------------------------
(* The result.                                                             *)

\* The names an expression reads have the values of the table.
LEMMA ReadsOfLine ==
  ASSUME IInv, Parsing, Reads(Current.exps)
  PROVE  \A r \in reads' : r \in reads \/ (r.line = line /\ r.pass = g_passNum /\ r.name \in Names /\ r.val = ValueOf(r.name))
<1> DEFINE symbols == {u \in ToSet(FlattenSeq(Current.exps)) : u.k = "sym"}
           At(t) == [pass |-> g_passNum, line |-> line, name |-> t.name, val |-> GetSym(t.name).val]
<1>1. line \in DOMAIN program /\ program[line] \in Statements
  BY DEF IInv, Texts, Parsing
<1>2. FlattenSeq(Current.exps) \in Seq(Token)
  <2>1. Current.exps \in Seq(Seq(Token))
    BY <1>1 DEF Current, Statements
  <2> QED BY <2>1, FlattenType
<1>3. ASSUME NEW t \in symbols PROVE t.name \in Names
  <2>1. ToSet(FlattenSeq(Current.exps)) \subseteq Token
    <3> DEFINE flat == FlattenSeq(Current.exps)
               T == Token
    <3>1. flat \in Seq(T)
      BY <1>2
    <3> HIDE DEF flat, T
    <3>2. ToSet(flat) \subseteq T
      BY <3>1 DEF ToSet
    <3> QED BY <3>2 DEF flat, T
  <2> QED BY <2>1, SymbolName
<1>4. ASSUME NEW t \in symbols PROVE /\ At(t).line = line /\ At(t).pass = g_passNum /\ At(t).name \in Names
                                     /\ At(t).val = ValueOf(At(t).name)
  BY <1>3, GetSymValue DEF IInv
<1>5. reads' = reads \cup {At(t) : t \in symbols}
  BY DEF Reads
<1> HIDE DEF At, symbols
<1> QED BY <1>4, <1>5

LEMMA DefineKeeps ==
  ASSUME IInv, RInv, BarExact', DefineSymbol
  PROVE  RInv'
<1> DEFINE o == Head(options)
<1>1. PICK name, val : name = o.name /\ val = o.value
  OBVIOUS
<1>2. name \in Names
  <2> DEFINE R == [name : Names, value : Value]
  <2>1. o \in R
    <3>1. options \in Seq(R) /\ options # <<>>
      BY DEF IInv, Texts, DefineSymbol
    <3> HIDE DEF R
    <3> QED BY <3>1
  <2> QED BY <1>1, <2>1
<1>3. /\ phase = "options" /\ UNCHANGED <<program, g_passNum, line, labelled, reads>> /\ g_passNum = 0
      /\ given' = given \cup {[pass |-> 0, line |-> 0, by |-> "option", name |-> name, val |-> val]}
  BY <1>1 DEF DefineSymbol, Given, RInv, Position
<1>4. CASE Defined(name)
  <2>1. SymSetValue(FindSymbol(name), T_VALUE, val) /\ errors' = TRUE
    BY <1>1, <1>4 DEF DefineSymbol
  <2>2. name \in DOMAIN Bar
    BY <1>2, <1>4, GetSymValue DEF IInv
  <2>3. DOMAIN Bar' = DOMAIN Bar
    BY <1>2, <2>1, <2>2, SetGives DEF IInv
  <2>4. OptionStep(name, val)
    BY <1>2, <1>3, <2>1, <2>2, <2>3 DEF OptionStep
  <2> QED BY <2>4, OptionKeeps
<1>5. CASE ~Defined(name)
  <2>1. AddSymbol(name, T_VALUE, val, -1) /\ errors' = errors
    BY <1>1, <1>5 DEF DefineSymbol
  <2>2. OptionStep(name, val)
    BY <1>2, <1>3, <2>1, AddGives DEF OptionStep, IInv
  <2> QED BY <2>2, OptionKeeps
<1> QED BY <1>4, <1>5

LEMMA AddLabelKeeps ==
  ASSUME IInv, RInv, BarExact', AddLabel
  PROVE  RInv'
<1>1. Parsing /\ ~labelled /\ HasLabel(Current) /\ labelled' = TRUE /\ UNCHANGED <<program, g_passNum, line, reads>>
  BY DEF AddLabel
<1>2. PICK name \in Names : name = Current.name
  BY <1>1, CurrentName DEF IInv
<1>3. phase = "parse" /\ g_passNum \in {0, 1}
  BY <1>1 DEF Parsing, RInv, Position
<1>4. LabelStep /\ ((\E val : Placed(val)) \/ Known)
  <2>1. CASE g_passNum = 0 /\ Defined(name)
    <3>1. errors' = TRUE /\ UNCHANGED <<tableVars, given>> /\ phase' \in {"dead", phase}
      BY <1>2, <2>1 DEF AddLabel
    <3>2. DOMAIN Bar' = DOMAIN Bar
      BY <3>1, SameGives
    <3> QED BY <1>1, <1>3, <3>1, <3>2 DEF LabelStep, Known
  <2>2. CASE g_passNum = 0 /\ ~Defined(name)
    <3>1. PICK val : val = Val_CreateInt(AddressOfLabel)
      OBVIOUS
    <3>2. /\ AddSymbol(name, T_PTR, val, mem) /\ MayEnd /\ Given(line, "label", name, val) /\ errors' = errors
      BY <1>2, <2>2, <3>1 DEF AddLabel
    <3>3. phase' # "options"
      BY <1>3, <3>2 DEF MayEnd
    <3>4. given' = given \cup {[pass |-> g_passNum, line |-> line, by |-> "label", name |-> name, val |-> val]}
      BY <3>2 DEF Given
    <3>5. /\ name \notin DOMAIN Bar /\ DOMAIN Bar' = DOMAIN Bar \cup {name} /\ ValueOf(name)' = val
          /\ \A n \in Names : n # name => ValueOf(n)' = ValueOf(n)
      BY <3>2, AddGives DEF IInv
    <3>6. Placed(val)
      BY <1>2, <2>2, <3>4, <3>5 DEF Placed
    <3>7. LabelStep
      BY <1>1, <3>2, <3>3 DEF LabelStep
    <3> QED BY <3>6, <3>7
  <2>3. CASE g_passNum = 1
    <3>1. SymbolSetMemSpace(FindSymbol(Current.name), mem) /\ UNCHANGED <<phase, errors, given>>
      BY <2>3 DEF AddLabel
    <3>2. DOMAIN Bar' = DOMAIN Bar /\ \A n \in Names : ValueOf(n)' = ValueOf(n)
      BY <3>1, RetypeGives DEF IInv
    <3> QED BY <1>1, <1>3, <2>3, <3>1, <3>2 DEF LabelStep, Known
  <2> QED BY <1>3, <2>1, <2>2, <2>3
<1>5. Onward /\ Position' /\ Givens' /\ ReadsPast' /\ ReadsExpected'
  BY <1>4, PlacedGives, LabelKeeps
<1>6. LabelsOnce' /\ ValuesExact'
  BY <1>4, <1>5, PlacedKeeps, KnownKeeps
<1> QED BY <1>5, <1>6 DEF RInv

LEMMA LineKeeps ==
  ASSUME IInv, RInv, Advance, (\E val : Assigned(val)) \/ Kept
  PROVE  RInv'
<1>1. Position' /\ Givens' /\ LabelsOnce' /\ ReadsPast' /\ ReadsExpected'
  <2>1. LabelDone
    BY DEF Advance
  <2> QED BY <2>1, AssignedGives, AdvanceKeeps
<1>2. ValuesExact'
  BY KeptExact, AssignedExact
<1> QED BY <1>1, <1>2 DEF RInv

LEMMA SymSetKeeps ==
  ASSUME IInv, RInv, BarExact', SymSet
  PROVE  RInv'
<1>1. /\ LabelDone /\ Parsing /\ NextLine /\ UNCHANGED <<program, phase, g_passNum>> /\ Reads(Current.exps)
      /\ Current.op \in {"equ", "set"} /\ line # 0
  BY DEF SymSet, LabelDone, Unchanged, IInv, Texts
<1>2. PICK name \in Names : name = Current.name
  BY <1>1, CurrentName DEF IInv
<1>3. \A r \in reads' : r \in reads \/ (r.line = line /\ r.pass = g_passNum /\ r.name \in Names /\ r.val = ValueOf(r.name))
  BY <1>1, ReadsOfLine
<1>3a. PICK e \in Evaluate(Current.exps) : \E val :
         /\ val = e.stack[1]
         /\ errors' = (errors \/ e.err \/ (~Defined(name) \/ Val_CheckResolved(val)))
         /\ IF ~Defined(name) \/ Val_CheckResolved(val) THEN UNCHANGED <<tableVars, given>>
            ELSE SymSetValue(FindSymbol(name), T_VALUE, val) /\ Given(line, Current.op, name, val)
  BY <1>2 DEF SymSet
<1>4. PICK val :
         /\ val = e.stack[1]
         /\ errors' = (errors \/ e.err \/ (~Defined(name) \/ Val_CheckResolved(val)))
         /\ IF ~Defined(name) \/ Val_CheckResolved(val) THEN UNCHANGED <<tableVars, given>>
            ELSE SymSetValue(FindSymbol(name), T_VALUE, val) /\ Given(line, Current.op, name, val)
  BY <1>3a
<1>5. errors => errors'
  BY <1>4
<1>6. CASE ~Defined(name) \/ Val_CheckResolved(val)
  <2>1. errors' /\ UNCHANGED <<tableVars, given>>
    BY <1>4, <1>6
  <2>2. DOMAIN Bar' = DOMAIN Bar /\ \A n \in Names : ValueOf(n)' = ValueOf(n)
    BY <2>1, SameGives
  <2>3. Advance /\ Kept
    BY <1>1, <1>3, <1>5, <2>1, <2>2 DEF Advance, Kept
  <2> QED BY <2>3, LineKeeps
<1>7. CASE Defined(name) /\ ~Val_CheckResolved(val)
  <2>1. SymSetValue(FindSymbol(name), T_VALUE, val) /\ Given(line, Current.op, name, val)
    BY <1>4, <1>7
  <2>2. name \in DOMAIN Bar
    BY <1>7, GetSymValue DEF IInv
  <2>3. DOMAIN Bar' = DOMAIN Bar /\ ValueOf(name)' = val /\ \A n \in Names : n # name => ValueOf(n)' = ValueOf(n)
    BY <2>1, <2>2, SetGives DEF IInv
  <2>4. given' = given \cup {[pass |-> g_passNum, line |-> line, by |-> Current.op, name |-> name, val |-> val]}
    BY <2>1 DEF Given
  <2>5. OpGives(line)
    BY <1>1 DEF OpGives, Current
  <2>6. Advance
    BY <1>1, <1>3, <1>5, <2>3 DEF Advance
  <2>7. Assigned(val)
    BY <1>2, <2>2, <2>3, <2>4, <2>5 DEF Assigned
  <2> QED BY <2>6, <2>7, LineKeeps
<1> QED BY <1>6, <1>7

LEMMA OtherKeeps ==
  ASSUME IInv, RInv, BarExact', NoStatement \/ MacroRecord \/ GenDc \/ EvalIf \/ EvalIfcc \/ EvalDefined
  PROVE  RInv'
<1>1. /\ LabelDone /\ Parsing /\ NextLine /\ UNCHANGED <<program, phase, g_passNum>> /\ given' = given
      /\ Current.op \notin {"equ", "set"}
  BY DEF NoStatement, MacroRecord, GenDc, EvalIf, EvalIfcc, EvalDefined, LabelDone, Unchanged, seen
<1>2. reads' = reads \/ Reads(Current.exps)
  BY DEF NoStatement, MacroRecord, GenDc, EvalIf, EvalIfcc, EvalDefined, seen
<1>3. \A r \in reads' : r \in reads \/ (r.line = line /\ r.pass = g_passNum /\ r.name \in Names /\ r.val = ValueOf(r.name))
  BY <1>1, <1>2, ReadsOfLine
<1>4. DOMAIN Bar' = DOMAIN Bar /\ \A n \in Names : ValueOf(n)' = ValueOf(n)
  <2>1. CASE MacroRecord
    <3>1. SymSetValueMacro(FindSymbol(Current.name), T_MACRO)
      BY <2>1 DEF MacroRecord
    <3> QED BY <3>1, RetypeGives DEF IInv
  <2>2. CASE NoStatement \/ GenDc \/ EvalIf \/ EvalIfcc \/ EvalDefined
    <3>1. UNCHANGED tableVars
      BY <2>2 DEF NoStatement, GenDc, EvalIf, EvalIfcc, EvalDefined
    <3> QED BY <3>1, SameGives
  <2> QED BY <2>1, <2>2
<1>5. errors => errors'
  <2>1. CASE NoStatement \/ MacroRecord \/ GenDc \/ EvalDefined
    BY <2>1 DEF NoStatement, MacroRecord, GenDc, EvalDefined
  <2>2. CASE EvalIf
    BY <2>2 DEF EvalIf
  <2>3. CASE EvalIfcc
    BY <2>3 DEF EvalIfcc
  <2> QED BY <2>1, <2>2, <2>3
<1>6. ~OpGives(line)
  BY <1>1 DEF OpGives, Current
<1>7. Advance /\ Kept
  BY <1>1, <1>3, <1>4, <1>5, <1>6 DEF Advance, Kept
<1> QED BY <1>7, LineKeeps

LEMMA RestKeeps ==
  ASSUME IInv, RInv, PrefetchToken \/ InitParserPass1 \/ EndPass \/ UNCHANGED vars
  PROVE  RInv'
<1>1. UNCHANGED <<program, given, reads, labelled, tableVars>> /\ (errors => errors') /\ (phase' = "options" => phase = "options")
  <2>1. CASE PrefetchToken
    BY <2>1 DEF PrefetchToken, seen
  <2>2. CASE InitParserPass1
    BY <2>2 DEF InitParserPass1, seen
  <2>3. CASE EndPass
    BY <2>3 DEF EndPass, seen
  <2>4. CASE UNCHANGED vars
    BY <2>4 DEF vars, machine, seen
  <2> QED BY <2>1, <2>2, <2>3, <2>4
<1>2. DOMAIN Bar' = DOMAIN Bar /\ \A n \in Names : ValueOf(n)' = ValueOf(n)
  BY <1>1, SameGives
<1>3. CASE UNCHANGED <<g_passNum, line>>
  <2>1. IdleStep
    BY <1>1, <1>2, <1>3 DEF IdleStep
  <2> QED BY <2>1, IdleKeeps
<1>4. CASE ~UNCHANGED <<g_passNum, line>>
  <2>1. EndPass /\ g_passNum = 0 /\ g_passNum' = 1 /\ line' = 1 /\ phase' = phase /\ errors' = errors
    BY <1>4 DEF PrefetchToken, InitParserPass1, EndPass, vars, machine
  <2>2. TurnStep
    BY <1>1, <1>2, <2>1 DEF TurnStep, EndPass
  <2> QED BY <2>2, TurnKeeps
<1> QED BY <1>3, <1>4

LEMMA NextReads == IInv /\ IInv' /\ RInv /\ [Next]_vars => RInv'
<1> SUFFICES ASSUME IInv, IInv', RInv, [Next]_vars PROVE RInv'
  OBVIOUS
<1>1. BarExact'
  <2>1. Table' => BarExact'
    BY BarOfTable, PTL
  <2> QED BY <2>1 DEF IInv
<1> QED BY <1>1, DefineKeeps, AddLabelKeeps, SymSetKeeps, OtherKeeps, RestKeeps DEF Next

LEMMA InitReads == Init => RInv
<1> SUFFICES ASSUME Init PROVE RInv
  OBVIOUS
<1>1. /\ given = {} /\ reads = {} /\ g_passNum = 0 /\ line = 1 /\ labelled = FALSE /\ errors = FALSE
      /\ IInv /\ DOMAIN slots = {}
  BY InitInv DEF Init, InitSymbolTable
<1>2. Len(program) \in Nat /\ Lines = 1 .. Len(program)
  BY <1>1 DEF IInv, Texts, Lines
<1>3. Position
  <2>1. line <= Len(program) + 1
    BY <1>1, <1>2
  <2> QED BY <1>1, <2>1 DEF Position
<1>4. LabelsOnce
  <2>1. \A i \in Lines : ~LabelPast(0, i)
    BY <1>1, <1>2 DEF LabelPast, Past
  <2> QED BY <2>1 DEF LabelsOnce
<1>5. ValuesExact
  <2> SUFFICES ASSUME NEW n \in Names PROVE {ValueOf(n)} = Nearest(n, 0, 1)
    BY <1>1 DEF ValuesExact
  <2>1. DOMAIN Bar = {}
    BY <1>1, BarOfTable DEF IInv, BarExact
  <2>2. AboveLine(n, 1) = {}
    BY <1>1, <1>2 DEF AboveLine, Givers
  <2> QED BY <2>1, <2>2 DEF ValueOf, Nearest
<1> QED BY <1>1, <1>3, <1>4, <1>5 DEF RInv, Givens, ReadsPast, ReadsExpected

\* A name read in an expression has the value of the nearest line above that gives it
\* one, in this pass; of the last line of pass 1 where pass 2 has met none; and none
\* where pass 1 has not: for every program without errors, in both passes, and every
\* name but those of labels that a SET changes (GetSym, SymSet and AddSym).
THEOREM ReadsKeepOrder == Spec => []ReadsExact
<1>1. Init => IInv /\ RInv
  BY InitInv, InitReads
<1>2. (IInv /\ RInv) /\ [Next]_vars => (IInv /\ RInv)'
  BY NextInv, NextReads
<1>3. RInv => ReadsExact
  BY ReadsByExpected DEF RInv
<1> QED BY <1>1, <1>2, <1>3, PTL DEF Spec
=============================================================================
