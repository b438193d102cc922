-------------------------- MODULE HashTableProofs --------------------------
(* Proofs about HashTable for every set of keys, every hash function and    *)
(* every list of sizes.                                                     *)
EXTENDS HashTable, FiniteSetTheorems, TLAPS

-----------------------------------------------------------------------------
(* The inductive invariant.                                                *)

\* The slots a probing loop that starts at h has gone past when it is at s.
Before(n, h, s) == IF h <= s THEN h..(s - 1) ELSE (h..(n - 1)) \cup (0..(s - 1))

\* What the caller wants is known exactly while it waits.
CallMatches ==
    /\ pc = "idle" <=> call = NoCall
    /\ pc \in {"load", "rehash", "graft"} => call \in Insertions
    /\ pc = "graft" => i < oldsz /\ old[i] # NIL
    /\ ~Growing => oldsz = 0

\* The hash kept in an entry is its key's.
HashesStored(t) == \A s \in DOMAIN t : t[s] # NIL => t[s].hash = hash[t[s].key]

NoDuplicates(t) ==
    \A s, r \in DOMAIN t : t[s] # NIL /\ t[r] # NIL /\ t[s].key = t[r].key => s = r

\* From the home of a key to its slot there is no free slot.
Chained ==
    \A s \in 0..(sz - 1) : table[s] # NIL =>
        \A q \in Before(sz, Home(hash[table[s].key]), s) : table[q] # NIL

\* The loop for key k has seen other keys only.
SeenOthers(k) ==
    \A q \in Before(sz, Home(hash[k]), pos) : table[q] # NIL /\ table[q].key # k

LoopsSeeOthers ==
    /\ pc = "probe" => SeenOthers(call.key)
    /\ pc = "graft" => SeenOthers(old[i].key)

\* A growing table has the entries of the old one moved so far, and no other.
Moved ==
    Growing =>
        /\ \A s \in 0..(sz - 1) : table[s] # NIL =>
              \E r \in 0..(i - 1) : old[r] # NIL /\ old[r] = table[s]
        /\ \A r \in 0..(i - 1) : old[r] # NIL => \E s \in 0..(sz - 1) : table[s] = old[r]

IInv ==
    /\ HashTypeOK
    /\ CallMatches
    /\ HashesStored(table) /\ HashesStored(old)
    /\ NoDuplicates(table) /\ NoDuplicates(old)
    /\ Chained
    /\ LoopsSeeOthers
    /\ Moved

-----------------------------------------------------------------------------
(* Slots and sizes.                                                        *)

LEMMA HomeInTable ==
    ASSUME NEW h \in Nat, NEW n \in Nat \ {0}
    PROVE  h % n \in 0..(n - 1)
OBVIOUS

\* prime_list and the formula of new_alloc_size give natural numbers.
LEMMA NewSizeIsNat ==
    ASSUME NEW n \in Nat
    PROVE  new_alloc_size(n) \in Nat
<1>1. CASE \E j \in 1..(Len(prime_list) - 1) : prime_list[j] = n
  <2> DEFINE j == CHOOSE j \in 1..(Len(prime_list) - 1) : prime_list[j] = n
  <2>1. j \in 1..(Len(prime_list) - 1)
    BY <1>1
  <2>2. new_alloc_size(n) = prime_list[1 + j]
    BY <1>1 DEF new_alloc_size
  <2>3. 1 + j \in 1..Len(prime_list) /\ prime_list \in Seq(Nat \ {0})
    BY <2>1, HashAssumption
  <2> HIDE DEF j
  <2> QED
    BY <2>2, <2>3
<1>2. CASE ~ \E j \in 1..(Len(prime_list) - 1) : prime_list[j] = n
  <2>1. UintRange \in Nat \ {0}
    BY HashAssumption
  <2> DEFINE a == (n + 16) % UintRange
             b == (a * 3) % UintRange
  <2>2. a \in Nat
    BY <2>1, HomeInTable
  <2>3. a * 3 \in Nat
    BY <2>2
  <2> HIDE DEF a
  <2>4. b \in Nat
    BY <2>1, <2>3, HomeInTable
  <2>5. new_alloc_size(n) = b \div 2
    BY <1>2 DEF new_alloc_size, a, b
  <2> HIDE DEF b
  <2> QED
    BY <2>4, <2>5
<1> QED
  BY <1>1, <1>2

\* Of two slots a probing loop passes one first.
LEMMA BeforeOrder ==
    ASSUME NEW n \in Nat, NEW h \in 0..(n - 1), NEW s \in 0..(n - 1), NEW p \in 0..(n - 1),
           s # p
    PROVE  s \in Before(n, h, p) \/ p \in Before(n, h, s)
BY DEF Before

LEMMA BeforeRange ==
    ASSUME NEW n \in Nat, NEW h \in 0..(n - 1), NEW s \in 0..(n - 1)
    PROVE  Before(n, h, s) \subseteq 0..(n - 1) /\ s \notin Before(n, h, s)
BY DEF Before

LEMMA BeforeHome ==
    ASSUME NEW n \in Nat, NEW h \in 0..(n - 1)
    PROVE  Before(n, h, h) = {}
BY DEF Before

\* One step of the loop adds the slot it leaves.
LEMMA BeforeNext ==
    ASSUME sz \in Nat \ {0}, NEW h \in 0..(sz - 1), NEW p \in 0..(sz - 1)
    PROVE  /\ NextPos(p) \in 0..(sz - 1)
           /\ Before(sz, h, NextPos(p)) \subseteq Before(sz, h, p) \cup {p}
BY DEF Before, NextPos


-----------------------------------------------------------------------------
(* Probing and storing.                                                    *)

\* A loop that stops at a free slot has shown that its key is nowhere.
LEMMA Absent ==
    ASSUME HashTypeOK, Chained, pos \in 0..(sz - 1), NEW k \in Key, SeenOthers(k),
           table[pos] = NIL, NEW s \in 0..(sz - 1), table[s] # NIL
    PROVE  table[s].key # k
<1> SUFFICES ASSUME table[s].key = k PROVE FALSE
  OBVIOUS
<1> DEFINE h == Home(hash[k])
<1>1. h \in 0..(sz - 1) /\ sz \in Nat
  BY HomeInTable DEF HashTypeOK, Home
<1> HIDE DEF h
<1>2. s \in Before(sz, h, pos) \/ pos \in Before(sz, h, s)
  BY <1>1, BeforeOrder
<1>3. s \notin Before(sz, h, pos)
  BY DEF SeenOthers, h
<1>4. pos \notin Before(sz, h, s)
  BY DEF Chained, h
<1> QED
  BY <1>2, <1>3, <1>4

\* A loop step keeps what the loop knows.
LEMMA LoopStep ==
    ASSUME HashTypeOK, pos \in 0..(sz - 1), NEW k \in Key, SeenOthers(k),
           HashesStored(table), GoesPast(hash[k], k),
           pos' = NextPos(pos), UNCHANGED <<hash, sz, table>>
    PROVE  SeenOthers(k)' /\ pos' \in 0..(sz - 1)
<1> DEFINE h == Home(hash[k])
<1>1. h \in 0..(sz - 1) /\ sz \in Nat \ {0} /\ h' = h
  BY HomeInTable DEF HashTypeOK, Home
<1> HIDE DEF h
<1>2. /\ NextPos(pos) \in 0..(sz - 1)
      /\ Before(sz, h, NextPos(pos)) \subseteq Before(sz, h, pos) \cup {pos}
  BY <1>1, BeforeNext
<1>3. table[pos] # NIL /\ table[pos].key # k
  BY DEF GoesPast, SameKey, HashesStored, HashTypeOK
<1>4. \A q \in Before(sz, h, pos) : table[q] # NIL /\ table[q].key # k
  BY DEF SeenOthers, h
<1>5. \A q \in Before(sz, h, pos') : table'[q] # NIL /\ table'[q].key # k
  BY <1>2, <1>3, <1>4
<1>6. SeenOthers(k)'
  BY <1>1, <1>5 DEF SeenOthers, h
<1> QED
  BY <1>2, <1>6

\* A loop that starts knows nothing, and that is true.
LEMMA LoopStart ==
    ASSUME HashTypeOK, NEW k \in Key, pos' = Home(hash[k]), UNCHANGED <<hash, sz, table>>
    PROVE  SeenOthers(k)' /\ pos' \in 0..(sz - 1)
<1>1. Home(hash[k]) \in 0..(sz - 1) /\ sz \in Nat
  BY HomeInTable DEF HashTypeOK, Home
<1>2. Before(sz, Home(hash[k]), pos') = {}
  BY <1>1, BeforeHome
<1>3. SeenOthers(k)'
  BY <1>2 DEF SeenOthers, Home
<1> QED
  BY <1>1, <1>3

\* An entry for k may be stored where the loop for k stops.
LEMMA Place ==
    ASSUME HashTypeOK, HashesStored(table), NoDuplicates(table), Chained,
           pos \in 0..(sz - 1), NEW k \in Key, SeenOthers(k), ~GoesPast(hash[k], k),
           NEW e \in Entry, e.key = k, e.hash = hash[k],
           table' = [table EXCEPT ![pos] = e], UNCHANGED <<hash, sz>>
    PROVE  /\ table' \in [0..(sz - 1) -> Slot]
           /\ HashesStored(table)' /\ NoDuplicates(table)' /\ Chained'
<1>1. /\ table \in [0..(sz - 1) -> Slot] /\ sz \in Nat \ {0}
      /\ e \in Slot /\ e # NIL
      /\ hash \in [Key -> Nat]
  BY HashAssumption DEF HashTypeOK, Slot, Entry
<1>2. /\ table' \in [0..(sz - 1) -> Slot]
      /\ table'[pos] = e
      /\ \A s \in 0..(sz - 1) : s # pos => table'[s] = table[s]
  BY <1>1
<1>3. DOMAIN table = 0..(sz - 1) /\ DOMAIN table' = 0..(sz - 1)
  BY <1>1, <1>2
<1>4. \A s \in 0..(sz - 1) : s # pos /\ table[s] # NIL => table[s].key # k
  <2> SUFFICES ASSUME NEW s \in 0..(sz - 1), s # pos, table[s] # NIL PROVE table[s].key # k
    OBVIOUS
  <2>1. CASE table[pos] = NIL
    BY <2>1, Absent
  <2>2. CASE table[pos] # NIL
    <3>1. table[pos].key = k
      BY <2>2 DEF GoesPast, SameKey
    <3> QED
      BY <1>3, <2>2, <3>1 DEF NoDuplicates
  <2> QED
    BY <2>1, <2>2
<1>5. HashesStored(table)'
  BY <1>2, <1>3 DEF HashesStored
<1>6. NoDuplicates(table)'
  BY <1>2, <1>3, <1>4 DEF NoDuplicates
<1>7. Chained'
  <2> SUFFICES ASSUME NEW s \in 0..(sz - 1), table'[s] # NIL,
                      NEW q \in Before(sz, Home(hash[table'[s].key]), s)
               PROVE  table'[q] # NIL
    BY DEF Chained, Home
  <2>1. table'[s].key \in Key
    BY <1>2, HashAssumption DEF Slot, Entry
  <2>2. Home(hash[table'[s].key]) \in 0..(sz - 1)
    BY <1>1, <2>1, HomeInTable DEF Home
  <2>3. q \in 0..(sz - 1)
    BY <1>1, <2>2, BeforeRange
  <2>4. table[q] # NIL \/ q = pos
    <3>1. CASE s # pos
      BY <1>2, <3>1 DEF Chained
    <3>2. CASE s = pos
      <4>1. table'[s].key = k
        BY <1>2, <3>2
      <4>2. table[q] # NIL
        BY <3>2, <4>1 DEF SeenOthers
      <4> QED
        BY <4>2
    <3> QED
      BY <3>1, <3>2
  <2> QED
    BY <1>1, <1>2, <2>3, <2>4
<1> QED
  BY <1>2, <1>5, <1>6, <1>7

-----------------------------------------------------------------------------
(* Every step preserves the invariant.                                     *)

LEMMA InitIInv == Init => IInv
<1> SUFFICES ASSUME Init PROVE IInv
  OBVIOUS
<1>1. /\ sz \in Nat \ {0} /\ hash \in [Key -> Nat]
      /\ table = [s \in 0..(sz - 1) |-> NIL]
      /\ oldsz = 0 /\ old = [s \in 0..(0 - 1) |-> NIL] /\ i = 0
      /\ pc = "idle" /\ call = NoCall
  BY HashAssumption DEF Init, Empty
<1>2. HashTypeOK
  <2>1. table \in [0..(sz - 1) -> Slot]
    BY <1>1 DEF Slot
  <2>2. old \in [0..(oldsz - 1) -> Slot]
    BY <1>1 DEF Slot
  <2>3. i \in 0..oldsz /\ oldsz \in Nat
    BY <1>1
  <2> QED
    BY <1>1, <2>1, <2>2, <2>3 DEF Init, HashTypeOK
<1>3. CallMatches
  BY <1>1 DEF CallMatches, Growing, NoCall
<1>4. \A s \in DOMAIN table : table[s] = NIL
  BY <1>1
<1>5. \A s \in DOMAIN old : old[s] = NIL
  BY <1>1
<1>6. /\ HashesStored(table) /\ HashesStored(old)
      /\ NoDuplicates(table) /\ NoDuplicates(old)
  BY <1>4, <1>5 DEF HashesStored, NoDuplicates
<1>7. Chained /\ LoopsSeeOthers /\ Moved
  BY <1>1, <1>4 DEF Chained, LoopsSeeOthers, Moved, Growing
<1> QED
  BY <1>2, <1>3, <1>6, <1>7 DEF IInv

\* A step that leaves both tables alone keeps what is said of them.
LEMMA TablesAlone ==
    ASSUME IInv, UNCHANGED <<type, hash, tableVars, oldVars>>
    PROVE  /\ HashesStored(table)' /\ HashesStored(old)'
           /\ NoDuplicates(table)' /\ NoDuplicates(old)'
           /\ Chained'
           /\ Growing' = Growing => Moved'
<1>1. /\ hash' = hash /\ table' = table /\ sz' = sz /\ nr' = nr
      /\ old' = old /\ oldsz' = oldsz /\ i' = i
  BY DEF tableVars, oldVars
<1>2. Growing' = Growing => Moved'
  BY <1>1 DEF IInv, Moved
<1> QED
  BY <1>1, <1>2 DEF IInv, HashesStored, NoDuplicates, Chained, Home

LEMMA InsertCallIInv ==
    ASSUME IInv, NEW k \in Key, NEW v \in Value, hash_insert(k, v)
    PROVE  IInv'
<1>1. /\ UNCHANGED <<type, hash, tableVars, oldVars>> /\ pc = "idle" /\ pc' = "load"
      /\ call' = [op |-> "insert", key |-> k, val |-> v] /\ answer' = {}
      /\ UNCHANGED <<type, hash, table, sz, nr, old, oldsz, i, pos>>
  BY DEF hash_insert, tableVars, oldVars
<1>2. call' \in Insertions /\ call' # NoCall
  BY <1>1 DEF Insertions, NoCall
<1>3. HashTypeOK'
  BY <1>1, <1>2 DEF IInv, HashTypeOK
<1>4. CallMatches'
  BY <1>1, <1>2 DEF IInv, CallMatches, Growing
<1>5. LoopsSeeOthers'
  BY <1>1 DEF LoopsSeeOthers
<1>6. Growing' = Growing
  BY <1>1 DEF Growing
<1> QED
  BY <1>1, <1>3, <1>4, <1>5, <1>6, TablesAlone DEF IInv

LEMMA SearchCallIInv ==
    ASSUME IInv, NEW k \in Key, hash_search(k)
    PROVE  IInv'
<1>1. /\ UNCHANGED <<type, hash, tableVars, oldVars>> /\ pc = "idle" /\ pc' = "probe"
      /\ call' = [op |-> "search", key |-> k] /\ answer' = {} /\ pos' = Home(hash[k])
      /\ UNCHANGED <<type, hash, table, sz, nr, old, oldsz, i>>
  BY DEF hash_search, tableVars, oldVars
<1>2. call' \in Searches /\ call' # NoCall /\ call'.key = k
  BY <1>1 DEF Searches, NoCall
<1>3. SeenOthers(k)' /\ pos' \in 0..(sz - 1)
  BY <1>1, LoopStart DEF IInv
<1>4. HashTypeOK'
  BY <1>1, <1>2, <1>3 DEF IInv, HashTypeOK
<1>5. CallMatches'
  BY <1>1, <1>2 DEF IInv, CallMatches, Growing
<1>6. LoopsSeeOthers'
  BY <1>1, <1>2, <1>3 DEF LoopsSeeOthers, SeenOthers
<1>7. Growing' = Growing
  BY <1>1 DEF Growing
<1> QED
  BY <1>1, <1>4, <1>5, <1>6, <1>7, TablesAlone DEF IInv

\* The values of any entries are values.
LEMMA AnswersAreValues ==
    ASSUME HashTypeOK
    PROVE  /\ UNION {table[s].vals : s \in {s \in DOMAIN table : table[s] # NIL}} \subseteq Value
           /\ \A s \in 0..(sz - 1) : Values(table[s]) \subseteq Value
BY DEF HashTypeOK, Slot, Entry, Values

LEMMA ListIInv ==
    ASSUME IInv, hash_to_list
    PROVE  IInv'
<1>1. /\ UNCHANGED <<type, hash, tableVars, oldVars>> /\ pc' = pc
      /\ UNCHANGED <<type, hash, table, sz, nr, old, oldsz, i, pos, call>> /\ pc = "idle"
  BY DEF hash_to_list, tableVars, oldVars
<1>2. answer' \subseteq Value
  BY AnswersAreValues DEF hash_to_list, IInv
<1>3. HashTypeOK'
  BY <1>1, <1>2 DEF IInv, HashTypeOK
<1>4. CallMatches' /\ Growing' = Growing
  BY <1>1 DEF IInv, CallMatches, Growing
<1>5. LoopsSeeOthers'
  BY <1>1 DEF LoopsSeeOthers
<1> QED
  BY <1>1, <1>3, <1>4, <1>5, TablesAlone DEF IInv

LEMMA HasRoomIInv ==
    ASSUME IInv, HasRoom
    PROVE  IInv'
<1>1. /\ UNCHANGED <<type, hash, tableVars, oldVars>> /\ pc = "load" /\ pc' = "probe"
      /\ pos' = Home(hash[call.key])
      /\ UNCHANGED <<type, hash, table, sz, nr, old, oldsz, i, call, answer>>
  BY DEF HasRoom, tableVars, oldVars
<1>2. call \in Insertions /\ call.key \in Key
  BY <1>1 DEF IInv, CallMatches, Insertions
<1>3. SeenOthers(call.key)' /\ pos' \in 0..(sz - 1)
  <2> DEFINE k == call.key
  <2>1. k \in Key /\ pos' = Home(hash[k])
    BY <1>1, <1>2
  <2>2. k' = k
    BY <1>1
  <2> HIDE DEF k
  <2>3. SeenOthers(k)' /\ pos' \in 0..(sz - 1)
    BY <1>1, <2>1, <2>2, LoopStart DEF IInv, SeenOthers
  <2> QED
    BY <2>3 DEF k
<1>4. HashTypeOK'
  BY <1>1, <1>3 DEF IInv, HashTypeOK
<1>5. CallMatches' /\ Growing' = Growing
  BY <1>1, <1>2 DEF IInv, CallMatches, Growing, Insertions, NoCall
<1>6. LoopsSeeOthers'
  BY <1>1, <1>3 DEF LoopsSeeOthers
<1> QED
  BY <1>1, <1>4, <1>5, <1>6, TablesAlone DEF IInv

LEMMA GrowthFailsIInv ==
    ASSUME IInv, GrowthFails
    PROVE  IInv'
<1>1. /\ UNCHANGED <<type, hash, tableVars, oldVars>> /\ pc = "load" /\ pc' = "idle"
      /\ UNCHANGED <<type, hash, table, sz, nr, old, oldsz, i, pos, answer>>
      /\ call' = NoCall
  BY DEF GrowthFails, tableVars, oldVars
<1>2. HashTypeOK'
  BY <1>1 DEF IInv, HashTypeOK
<1>3. CallMatches' /\ Growing' = Growing
  BY <1>1 DEF IInv, CallMatches, Growing
<1>4. LoopsSeeOthers'
  BY <1>1 DEF LoopsSeeOthers
<1> QED
  BY <1>1, <1>2, <1>3, <1>4, TablesAlone DEF IInv

LEMMA GrowIInv ==
    ASSUME IInv, Grow
    PROVE  IInv'
<1>1. /\ UNCHANGED <<type, hash, call, pos, answer>> /\ pc = "load" /\ pc' = "rehash"
      /\ sz' = new_alloc_size(sz) /\ new_alloc_size(sz) > sz
      /\ table' = [s \in 0..(sz' - 1) |-> NIL] /\ nr' = 0
      /\ old' = table /\ oldsz' = sz /\ i' = 0
  BY DEF Grow, CanGrow, Empty
<1>2. sz \in Nat \ {0} /\ sz' \in Nat \ {0}
  BY <1>1, NewSizeIsNat DEF IInv, HashTypeOK
<1>3. HashTypeOK'
  <2>1. table' \in [0..(sz' - 1) -> Slot]
    BY <1>1 DEF Slot
  <2>2. old' \in [0..(oldsz' - 1) -> Slot] /\ i' \in 0..oldsz'
    BY <1>1, <1>2 DEF IInv, HashTypeOK
  <2> QED
    BY <1>1, <1>2, <2>1, <2>2 DEF IInv, HashTypeOK
<1>4. CallMatches'
  BY <1>1 DEF IInv, CallMatches, Growing
<1>5. \A s \in DOMAIN table' : table'[s] = NIL
  BY <1>1
<1>6. \A s \in 0..(sz' - 1) : table'[s] = NIL
  BY <1>1
<1>7. HashesStored(old)' /\ NoDuplicates(old)'
  BY <1>1 DEF IInv, HashesStored, NoDuplicates
<1>8. HashesStored(table)' /\ NoDuplicates(table)'
  BY <1>5 DEF HashesStored, NoDuplicates
<1>9. Chained' /\ LoopsSeeOthers'
  BY <1>1, <1>6 DEF Chained, LoopsSeeOthers
<1>10. Moved'
  <2>1. 0..(i' - 1) = {}
    BY <1>1
  <2> QED
    BY <1>6, <2>1 DEF Moved
<1> QED
  BY <1>3, <1>4, <1>7, <1>8, <1>9, <1>10 DEF IInv

LEMMA SkipEmptySlotIInv ==
    ASSUME IInv, SkipEmptySlot
    PROVE  IInv'
<1>1. /\ UNCHANGED <<type, hash, table, sz, nr, old, oldsz, pc, call, pos, answer>>
      /\ pc = "rehash" /\ i < oldsz /\ old[i] = NIL /\ i' = i + 1
  BY DEF SkipEmptySlot, tableVars
<1>2. i \in Nat /\ oldsz \in Nat
  BY DEF IInv, HashTypeOK
<1>3. HashTypeOK'
  BY <1>1, <1>2 DEF IInv, HashTypeOK
<1>4. CallMatches' /\ Growing /\ Growing'
  BY <1>1 DEF IInv, CallMatches, Growing
<1>5. /\ HashesStored(table)' /\ HashesStored(old)'
      /\ NoDuplicates(table)' /\ NoDuplicates(old)'
      /\ Chained' /\ LoopsSeeOthers'
  BY <1>1 DEF IInv, HashesStored, NoDuplicates, Chained, Home, LoopsSeeOthers
<1>6. Moved'
  <2>1. 0..(i' - 1) = 0..(i - 1) \cup {i}
    BY <1>1, <1>2
  <2> QED
    BY <1>1, <1>4, <2>1 DEF IInv, Moved
<1> QED
  BY <1>3, <1>4, <1>5, <1>6 DEF IInv

\* The hash under which an entry is moved is its key's, for every type.
LEMMA RehashIsHash ==
    ASSUME IInv, NEW r \in 0..(oldsz - 1), old[r] # NIL
    PROVE  /\ old[r] \in Entry /\ old[r].key \in Key
           /\ Rehash(old[r]) = hash[old[r].key]
           /\ [old[r] EXCEPT !.hash = Rehash(old[r])] = old[r]
<1>1. old[r] \in Entry /\ DOMAIN old = 0..(oldsz - 1)
  BY DEF IInv, HashTypeOK, Slot
<1>2. old[r].hash = hash[old[r].key]
  BY <1>1 DEF IInv, HashesStored
<1>3. Rehash(old[r]) = hash[old[r].key]
  BY <1>2 DEF IInv, HashTypeOK, Types, Rehash,
     hash_grow_htable, hash_grow_vindex, hash_grow_bst, hash_grow_hmap
<1>4. [old[r] EXCEPT !.hash = old[r].hash] = old[r]
  BY <1>1 DEF Entry
<1> QED
  BY <1>1, <1>2, <1>3, <1>4 DEF Entry

LEMMA MoveEntryIInv ==
    ASSUME IInv, MoveEntry
    PROVE  IInv'
<1>1. /\ UNCHANGED <<type, hash, tableVars, oldVars>> /\ pc = "rehash" /\ pc' = "graft"
      /\ i < oldsz /\ old[i] # NIL /\ pos' = Home(Rehash(old[i]))
      /\ UNCHANGED <<type, hash, table, sz, nr, old, oldsz, i, call, answer>>
  BY DEF MoveEntry, tableVars, oldVars
<1>2. i \in 0..(oldsz - 1)
  BY <1>1 DEF IInv, HashTypeOK
<1>3. old[i].key \in Key /\ pos' = Home(hash[old[i].key])
  BY <1>1, <1>2, RehashIsHash
<1>4. SeenOthers(old[i].key)' /\ pos' \in 0..(sz - 1)
  <2> DEFINE k == old[i].key
  <2>1. k \in Key /\ pos' = Home(hash[k]) /\ k' = k
    BY <1>1, <1>3
  <2> HIDE DEF k
  <2>2. SeenOthers(k)' /\ pos' \in 0..(sz - 1)
    BY <1>1, <2>1, LoopStart DEF IInv, SeenOthers
  <2> QED
    BY <2>2 DEF k
<1>5. HashTypeOK'
  BY <1>1, <1>4 DEF IInv, HashTypeOK
<1>6. CallMatches' /\ Growing' = Growing
  BY <1>1 DEF IInv, CallMatches, Growing
<1>7. LoopsSeeOthers'
  BY <1>1, <1>4 DEF LoopsSeeOthers
<1> QED
  BY <1>1, <1>5, <1>6, <1>7, TablesAlone DEF IInv

LEMMA GraftProbeIInv ==
    ASSUME IInv, GraftProbe
    PROVE  IInv'
<1>1. /\ UNCHANGED <<type, hash, tableVars, oldVars>> /\ pc = "graft" /\ pc' = "graft"
      /\ GoesPast(Rehash(old[i]), old[i].key) /\ pos' = NextPos(pos)
      /\ UNCHANGED <<type, hash, table, sz, nr, old, oldsz, i, call, answer>>
  BY DEF GraftProbe, tableVars, oldVars
<1>2. i \in 0..(oldsz - 1) /\ old[i] # NIL /\ pos \in 0..(sz - 1)
  BY <1>1 DEF IInv, HashTypeOK, CallMatches
<1>3. old[i].key \in Key /\ GoesPast(hash[old[i].key], old[i].key)
  BY <1>1, <1>2, RehashIsHash
<1>4. SeenOthers(old[i].key)' /\ pos' \in 0..(sz - 1)
  <2> DEFINE k == old[i].key
  <2>1. k \in Key /\ k' = k /\ GoesPast(hash[k], k) /\ SeenOthers(k)
    BY <1>1, <1>3 DEF IInv, LoopsSeeOthers
  <2> HIDE DEF k
  <2>2. SeenOthers(k)' /\ pos' \in 0..(sz - 1)
    BY <1>1, <1>2, <2>1, LoopStep DEF IInv, SeenOthers
  <2> QED
    BY <2>2 DEF k
<1>5. HashTypeOK'
  BY <1>1, <1>4 DEF IInv, HashTypeOK
<1>6. CallMatches' /\ Growing' = Growing
  BY <1>1 DEF IInv, CallMatches, Growing
<1>7. LoopsSeeOthers'
  BY <1>1, <1>4 DEF LoopsSeeOthers
<1> QED
  BY <1>1, <1>5, <1>6, <1>7, TablesAlone DEF IInv

LEMMA ProbeIInv ==
    ASSUME IInv, Probe
    PROVE  IInv'
<1>1. /\ UNCHANGED <<type, hash, tableVars, oldVars>> /\ pc = "probe" /\ pc' = "probe"
      /\ GoesPast(hash[call.key], call.key) /\ pos' = NextPos(pos)
      /\ UNCHANGED <<type, hash, table, sz, nr, old, oldsz, i, call, answer>>
  BY DEF Probe, tableVars, oldVars
<1>2. call.key \in Key /\ pos \in 0..(sz - 1)
  BY <1>1 DEF IInv, HashTypeOK, CallMatches, Insertions, Searches
<1>3. SeenOthers(call.key)' /\ pos' \in 0..(sz - 1)
  <2> DEFINE k == call.key
  <2>1. k \in Key /\ k' = k /\ GoesPast(hash[k], k) /\ SeenOthers(k)
    BY <1>1, <1>2 DEF IInv, LoopsSeeOthers
  <2> HIDE DEF k
  <2>2. SeenOthers(k)' /\ pos' \in 0..(sz - 1)
    BY <1>1, <1>2, <2>1, LoopStep DEF IInv, SeenOthers
  <2> QED
    BY <2>2 DEF k
<1>4. HashTypeOK'
  BY <1>1, <1>3 DEF IInv, HashTypeOK
<1>5. CallMatches' /\ Growing' = Growing
  BY <1>1 DEF IInv, CallMatches, Growing
<1>6. LoopsSeeOthers'
  BY <1>1, <1>3 DEF LoopsSeeOthers
<1> QED
  BY <1>1, <1>4, <1>5, <1>6, TablesAlone DEF IInv

\* No key is moved twice, so every entry moved finds a free slot.
LEMMA GraftsToFreeSlot ==
    ASSUME IInv, Graft
    PROVE  table[pos] = NIL
<1> SUFFICES ASSUME table[pos] # NIL PROVE FALSE
  OBVIOUS
<1>1. /\ pc = "graft" /\ i \in 0..(oldsz - 1) /\ old[i] # NIL /\ pos \in 0..(sz - 1)
      /\ DOMAIN old = 0..(oldsz - 1) /\ oldsz \in Nat
  BY DEF Graft, IInv, HashTypeOK, CallMatches
<1>2. table[pos].key = old[i].key
  BY DEF Graft, GoesPast, SameKey
<1>3. PICK r \in 0..(i - 1) : old[r] # NIL /\ old[r] = table[pos]
  BY <1>1 DEF IInv, Moved, Growing
<1>4. r \in DOMAIN old /\ i \in DOMAIN old /\ r # i
  BY <1>1, <1>3
<1> QED
  BY <1>1, <1>2, <1>3, <1>4 DEF IInv, NoDuplicates

LEMMA GraftIInv ==
    ASSUME IInv, Graft
    PROVE  IInv'
<1> DEFINE e == old[i]
<1>1. /\ UNCHANGED <<type, hash, sz, old, oldsz, call, answer>>
      /\ pc = "graft" /\ pc' = "rehash" /\ i' = i + 1 /\ pos' = 0
      /\ ~GoesPast(Rehash(e), e.key)
      /\ table' = [table EXCEPT ![pos] = [e EXCEPT !.hash = Rehash(e)]]
      /\ nr' = nr + 1
  BY GraftsToFreeSlot DEF Graft
<1>2. i \in 0..(oldsz - 1) /\ e # NIL /\ pos \in 0..(sz - 1) /\ i \in Nat /\ nr \in Nat
  BY <1>1 DEF IInv, HashTypeOK, CallMatches
<1>3. /\ e \in Entry /\ e.key \in Key /\ e.hash = hash[e.key]
      /\ Rehash(e) = hash[e.key]
      /\ table' = [table EXCEPT ![pos] = e]
  BY <1>1, <1>2, RehashIsHash DEF IInv, HashesStored, HashTypeOK
<1>4. SeenOthers(e.key)
  BY <1>1 DEF IInv, LoopsSeeOthers
<1> HIDE DEF e
<1>5. /\ table' \in [0..(sz - 1) -> Slot]
      /\ HashesStored(table)' /\ NoDuplicates(table)' /\ Chained'
  <2> DEFINE k == e.key
  <2>1. k \in Key /\ e.key = k /\ e.hash = hash[k] /\ SeenOthers(k) /\ ~GoesPast(hash[k], k)
    BY <1>1, <1>3, <1>4
  <2> HIDE DEF k
  <2> QED
    BY <1>1, <1>2, <1>3, <2>1, Place DEF IInv
<1>6. HashTypeOK'
  BY <1>1, <1>2, <1>5 DEF IInv, HashTypeOK
<1>7. CallMatches'
  BY <1>1 DEF IInv, CallMatches, Growing
<1>8. HashesStored(old)' /\ NoDuplicates(old)' /\ LoopsSeeOthers'
  BY <1>1 DEF IInv, HashesStored, NoDuplicates, LoopsSeeOthers
<1>9. Moved'
  <2>1. 0..(i' - 1) = 0..(i - 1) \cup {i}
    BY <1>1, <1>2
  <2>2. /\ table \in [0..(sz - 1) -> Slot] /\ table[pos] = NIL
        /\ table'[pos] = e
        /\ \A s \in 0..(sz - 1) : s # pos => table'[s] = table[s]
    BY <1>2, <1>3, GraftsToFreeSlot DEF IInv, HashTypeOK
  <2>3. /\ \A s \in 0..(sz - 1) : table[s] # NIL =>
              \E r \in 0..(i - 1) : old[r] # NIL /\ old[r] = table[s]
        /\ \A r \in 0..(i - 1) : old[r] # NIL => \E s \in 0..(sz - 1) : table[s] = old[r]
    BY <1>1 DEF IInv, Moved, Growing
  <2>4. \A s \in 0..(sz - 1) : table'[s] # NIL =>
            \E r \in 0..(i' - 1) : old[r] # NIL /\ old[r] = table'[s]
    <3> SUFFICES ASSUME NEW s \in 0..(sz - 1), table'[s] # NIL
                 PROVE  \E r \in 0..(i' - 1) : old[r] # NIL /\ old[r] = table'[s]
      OBVIOUS
    <3>1. CASE s = pos
      BY <1>2, <2>1, <2>2, <3>1 DEF e
    <3>2. CASE s # pos
      BY <2>1, <2>2, <2>3, <3>2
    <3> QED
      BY <3>1, <3>2
  <2>5. \A r \in 0..(i' - 1) : old[r] # NIL => \E s \in 0..(sz - 1) : table'[s] = old[r]
    <3> SUFFICES ASSUME NEW r \in 0..(i' - 1), old[r] # NIL
                 PROVE  \E s \in 0..(sz - 1) : table'[s] = old[r]
      OBVIOUS
    <3>1. CASE r = i
      BY <1>2, <2>2, <3>1 DEF e
    <3>2. CASE r \in 0..(i - 1)
      <4>1. PICK s \in 0..(sz - 1) : table[s] = old[r]
        BY <2>3, <3>2
      <4>2. s # pos
        BY <2>2, <4>1
      <4> QED
        BY <2>2, <4>1, <4>2
    <3> QED
      BY <2>1, <3>1, <3>2
  <2>6. sz' = sz /\ old' = old
    BY <1>1
  <2> QED
    BY <2>4, <2>5, <2>6 DEF Moved
<1> QED
  BY <1>5, <1>6, <1>7, <1>8, <1>9 DEF IInv

LEMMA GrownIInv ==
    ASSUME IInv, Grown
    PROVE  IInv'
<1>1. /\ UNCHANGED <<type, hash, table, sz, nr, call, answer>> /\ pc = "rehash" /\ pc' = "probe"
      /\ old' = [s \in 0..(0 - 1) |-> NIL] /\ oldsz' = 0 /\ i' = 0
      /\ pos' = Home(hash[call.key])
  BY DEF Grown, tableVars, Empty
<1>2. call \in Insertions /\ call.key \in Key
  BY <1>1 DEF IInv, CallMatches, Insertions
<1>3. SeenOthers(call.key)' /\ pos' \in 0..(sz - 1)
  <2> DEFINE k == call.key
  <2>1. k \in Key /\ pos' = Home(hash[k]) /\ k' = k
    BY <1>1, <1>2
  <2> HIDE DEF k
  <2>2. SeenOthers(k)' /\ pos' \in 0..(sz - 1)
    BY <1>1, <2>1, LoopStart DEF IInv, SeenOthers
  <2> QED
    BY <2>2 DEF k
<1>4. \A s \in DOMAIN old' : old'[s] = NIL
  BY <1>1
<1>5. HashTypeOK'
  <2>1. old' \in [0..(oldsz' - 1) -> Slot] /\ i' \in 0..oldsz'
    BY <1>1 DEF Slot
  <2> QED
    BY <1>1, <1>3, <2>1 DEF IInv, HashTypeOK
<1>6. CallMatches'
  BY <1>1, <1>2 DEF IInv, CallMatches, Growing, Insertions, NoCall
<1>7. HashesStored(old)' /\ NoDuplicates(old)'
  BY <1>4 DEF HashesStored, NoDuplicates
<1>8. HashesStored(table)' /\ NoDuplicates(table)' /\ Chained'
  BY <1>1 DEF IInv, HashesStored, NoDuplicates, Chained, Home
<1>9. LoopsSeeOthers' /\ Moved'
  BY <1>1, <1>3 DEF LoopsSeeOthers, Moved, Growing
<1> QED
  BY <1>5, <1>6, <1>7, <1>8, <1>9 DEF IInv

\* Whatever the type, what an insertion stores are values.
LEMMA StoredIsValues ==
    ASSUME type \in Types, NEW S \in SUBSET Value, NEW v \in Value
    PROVE  /\ Stored(S, v) \in SUBSET Value
           /\ Stored(S, v) = IF S = {} \/ type = "HASH_BST" THEN S \cup {v} ELSE S
BY DEF Types, Stored, hash_insert_htable, hash_insert_vindex, hash_insert_bst, hashbst_bst_insert, hash_insert_hmap

\* What InsertHere does, spelled out.
LEMMA InsertHereFacts ==
    ASSUME IInv, InsertHere
    PROVE  LET k == call.key
               e == [hash |-> hash[k], key |-> k, vals |-> Stored(Values(table[pos]), call.val)]
           IN  /\ UNCHANGED <<type, hash, sz, old, oldsz, i, answer>>
               /\ pc = "probe" /\ pc' = "idle" /\ call \in Insertions /\ call' = NoCall
               /\ k \in Key /\ call.val \in Value /\ pos \in 0..(sz - 1)
               /\ e \in Entry
               /\ SeenOthers(k) /\ ~GoesPast(hash[k], k)
               /\ table' = [table EXCEPT ![pos] = e]
<1>1. /\ UNCHANGED <<type, hash, sz, old, oldsz, i, answer>>
      /\ pc = "probe" /\ pc' = "idle" /\ call.op = "insert" /\ call' = NoCall
      /\ ~GoesPast(hash[call.key], call.key)
      /\ table' = [table EXCEPT ![pos] =
              [hash |-> hash[call.key], key |-> call.key,
               vals |-> Stored(Values(table[pos]), call.val)]]
  BY DEF InsertHere, oldVars
<1>2. call \in Insertions
  BY <1>1 DEF IInv, HashTypeOK, CallMatches, Insertions, Searches
<1>3. call.key \in Key /\ call.val \in Value /\ pos \in 0..(sz - 1) /\ hash[call.key] \in Nat
  BY <1>1, <1>2 DEF Insertions, IInv, HashTypeOK
<1>4. Stored(Values(table[pos]), call.val) \in SUBSET Value
  BY <1>3, AnswersAreValues, StoredIsValues DEF IInv, HashTypeOK
<1>5. SeenOthers(call.key)
  BY <1>1 DEF IInv, LoopsSeeOthers
<1> QED
  BY <1>1, <1>2, <1>3, <1>4, <1>5 DEF Entry

LEMMA InsertHereIInv ==
    ASSUME IInv, InsertHere
    PROVE  IInv'
<1> DEFINE k == call.key
           e == [hash |-> hash[k], key |-> k, vals |-> Stored(Values(table[pos]), call.val)]
<1>1. /\ UNCHANGED <<type, hash, sz, old, oldsz, i, answer>>
      /\ pc = "probe" /\ pc' = "idle" /\ call' = NoCall
      /\ k \in Key /\ pos \in 0..(sz - 1)
      /\ e \in Entry /\ e.key = k /\ e.hash = hash[k]
      /\ SeenOthers(k) /\ ~GoesPast(hash[k], k)
      /\ table' = [table EXCEPT ![pos] = e]
  BY InsertHereFacts
<1>2. nr' \in Nat
  BY DEF InsertHere, IInv, HashTypeOK
<1> HIDE DEF k, e
<1>3. /\ table' \in [0..(sz - 1) -> Slot]
      /\ HashesStored(table)' /\ NoDuplicates(table)' /\ Chained'
  BY <1>1, Place DEF IInv
<1>4. HashTypeOK'
  BY <1>1, <1>2, <1>3 DEF IInv, HashTypeOK
<1>5. CallMatches'
  BY <1>1 DEF IInv, CallMatches, Growing
<1>6. HashesStored(old)' /\ NoDuplicates(old)' /\ LoopsSeeOthers' /\ Moved'
  BY <1>1 DEF IInv, HashesStored, NoDuplicates, LoopsSeeOthers, Moved, Growing
<1> QED
  BY <1>3, <1>4, <1>5, <1>6 DEF IInv

LEMMA AnswerHereIInv ==
    ASSUME IInv, AnswerHere
    PROVE  IInv'
<1>1. /\ UNCHANGED <<type, hash, tableVars, oldVars>> /\ pc = "probe" /\ pc' = "idle"
      /\ UNCHANGED <<type, hash, table, sz, nr, old, oldsz, i>> /\ call' = NoCall /\ pos' = 0
      /\ answer' = Values(table[pos])
  BY DEF AnswerHere, tableVars, oldVars
<1>2. answer' \subseteq Value
  BY <1>1, AnswersAreValues DEF IInv, HashTypeOK
<1>3. HashTypeOK'
  BY <1>1, <1>2 DEF IInv, HashTypeOK
<1>4. CallMatches' /\ Growing' = Growing
  BY <1>1 DEF IInv, CallMatches, Growing
<1>5. LoopsSeeOthers'
  BY <1>1 DEF LoopsSeeOthers
<1> QED
  BY <1>1, <1>3, <1>4, <1>5, TablesAlone DEF IInv

-----------------------------------------------------------------------------
(* The theorems.                                                           *)

LEMMA NextIInv == IInv /\ [Next]_vars => IInv'
<1> SUFFICES ASSUME IInv, [Next]_vars PROVE IInv'
  OBVIOUS
<1>1. CASE \E k \in Key, v \in Value : hash_insert(k, v)
  BY <1>1, InsertCallIInv
<1>2. CASE \E k \in Key : hash_search(k)
  BY <1>2, SearchCallIInv
<1>3. CASE hash_to_list
  BY <1>3, ListIInv
<1>4. CASE Work
  BY <1>4, HasRoomIInv, GrowthFailsIInv, GrowIInv, SkipEmptySlotIInv, MoveEntryIInv,
     GraftProbeIInv, GraftIInv, GrownIInv, ProbeIInv, InsertHereIInv, AnswerHereIInv DEF Work
<1>5. CASE UNCHANGED vars
  <2>1. UNCHANGED <<type, hash, tableVars, oldVars>>
    BY <1>5 DEF vars, tableVars, oldVars
  <2>2. HashTypeOK' /\ CallMatches' /\ LoopsSeeOthers' /\ Growing' = Growing
    BY <1>5 DEF vars, IInv, HashTypeOK, CallMatches, LoopsSeeOthers, SeenOthers, Growing, Home
  <2> QED
    BY <2>1, <2>2, TablesAlone DEF IInv
<1> QED
  BY <1>1, <1>2, <1>3, <1>4, <1>5 DEF Next

\* Every entry can be reached from the home of its key without a free slot on
\* the way, no key has two entries, and a table that grows loses none.
THEOREM TableInvariant == Spec => []IInv
BY InitIInv, NextIInv, PTL DEF Spec

\* No probing loop leaves its table, whatever the hash function and the sizes.
THEOREM TypeCorrect == Spec => []HashTypeOK
<1>1. IInv => HashTypeOK
  BY DEF IInv
<1> QED
  BY <1>1, TableInvariant, PTL

-----------------------------------------------------------------------------
(* The contents of a table.                                                *)

LEMMA HeldFound ==
    ASSUME NEW t, NEW k, NEW s \in DOMAIN t, t[s] # NIL, t[s].key = k, NoDuplicates(t)
    PROVE  Held(t, k) = t[s].vals
<1>1. {r \in DOMAIN t : t[r] # NIL /\ t[r].key = k} = {s}
  BY DEF NoDuplicates
<1> QED
  BY <1>1 DEF Held

LEMMA HeldAbsent ==
    ASSUME NEW t, NEW k, \A s \in DOMAIN t : t[s] # NIL => t[s].key # k
    PROVE  Held(t, k) = {}
<1>1. {r \in DOMAIN t : t[r] # NIL /\ t[r].key = k} = {}
  OBVIOUS
<1> QED
  BY <1>1 DEF Held

\* Where a loop for key k stops are the values of k.
LEMMA LoopFindsHeld ==
    ASSUME IInv, pos \in 0..(sz - 1), NEW k \in Key, SeenOthers(k), ~GoesPast(hash[k], k)
    PROVE  Values(table[pos]) = Held(table, k)
<1>1. DOMAIN table = 0..(sz - 1)
  BY DEF IInv, HashTypeOK
<1>2. CASE table[pos] = NIL
  <2>1. \A s \in DOMAIN table : table[s] # NIL => table[s].key # k
    BY <1>1, <1>2, Absent DEF IInv
  <2> QED
    BY <1>2, <2>1, HeldAbsent DEF Values
<1>3. CASE table[pos] # NIL
  <2>1. table[pos].key = k
    BY <1>3 DEF GoesPast, SameKey
  <2> QED
    BY <1>1, <1>3, <2>1, HeldFound DEF Values, IInv
<1> QED
  BY <1>2, <1>3

\* After an entry for k is stored there, k has its values, and other keys have
\* theirs.
LEMMA PlaceHeld ==
    ASSUME IInv, pos \in 0..(sz - 1), NEW k \in Key, SeenOthers(k), ~GoesPast(hash[k], k),
           NEW e \in Entry, e.key = k, e.hash = hash[k],
           table' = [table EXCEPT ![pos] = e], UNCHANGED <<hash, sz>>
    PROVE  /\ Held(table', k) = e.vals
           /\ \A j \in Key : j # k => Held(table', j) = Held(table, j)
<1>1. /\ NoDuplicates(table)' /\ table' \in [0..(sz - 1) -> Slot] /\ sz \in Nat \ {0}
      /\ table \in [0..(sz - 1) -> Slot] /\ e # NIL
  BY Place, HashAssumption DEF IInv, HashTypeOK, Entry
<1>2. /\ DOMAIN table' = 0..(sz - 1) /\ DOMAIN table = 0..(sz - 1) /\ table'[pos] = e
      /\ \A s \in 0..(sz - 1) : s # pos => table'[s] = table[s]
  BY <1>1
<1>3. NoDuplicates(table')
  BY <1>1 DEF NoDuplicates
<1>4. Held(table', k) = e.vals
  <2>1. pos \in DOMAIN table' /\ table'[pos] # NIL /\ table'[pos].key = k
    BY <1>1, <1>2
  <2>2. Held(table', k) = table'[pos].vals
    BY <1>3, <2>1, HeldFound
  <2> QED
    BY <1>2, <2>2
<1>5. ASSUME NEW j \in Key, j # k PROVE Held(table', j) = Held(table, j)
  <2>1. table[pos] # NIL => table[pos].key # j
    BY <1>5 DEF GoesPast, SameKey
  <2>2. \A s \in 0..(sz - 1) :
           (table'[s] # NIL /\ table'[s].key = j) <=> (table[s] # NIL /\ table[s].key = j)
    BY <1>1, <1>2, <1>5, <2>1
  <2>3. {s \in DOMAIN table' : table'[s] # NIL /\ table'[s].key = j}
            = {s \in DOMAIN table : table[s] # NIL /\ table[s].key = j}
    BY <1>2, <2>2
  <2>4. \A s \in {s \in DOMAIN table : table[s] # NIL /\ table[s].key = j} :
            table'[s].vals = table[s].vals
    BY <1>2, <2>1
  <2> QED
    BY <2>3, <2>4 DEF Held
<1> QED
  BY <1>4, <1>5

\* A table fully grown holds what the old one held.
LEMMA GrownHeld ==
    ASSUME IInv, pc = "rehash", i = oldsz, NEW k \in Key
    PROVE  Held(table, k) = Held(old, k)
<1>1. /\ DOMAIN table = 0..(sz - 1) /\ DOMAIN old = 0..(oldsz - 1)
      /\ NoDuplicates(table) /\ NoDuplicates(old)
  BY DEF IInv, HashTypeOK
<1>2. /\ \A s \in DOMAIN table : table[s] # NIL =>
            \E r \in DOMAIN old : old[r] # NIL /\ old[r] = table[s]
      /\ \A r \in DOMAIN old : old[r] # NIL => \E s \in DOMAIN table : table[s] = old[r]
  BY <1>1 DEF IInv, Moved, Growing
<1>3. CASE \E r \in DOMAIN old : old[r] # NIL /\ old[r].key = k
  <2>1. PICK r \in DOMAIN old : old[r] # NIL /\ old[r].key = k
    BY <1>3
  <2>2. PICK s \in DOMAIN table : table[s] = old[r]
    BY <1>2, <2>1
  <2>3. Held(old, k) = old[r].vals
    BY <1>1, <2>1, HeldFound
  <2>4. Held(table, k) = table[s].vals
    BY <1>1, <2>1, <2>2, HeldFound
  <2> QED
    BY <2>2, <2>3, <2>4
<1>4. CASE ~ \E r \in DOMAIN old : old[r] # NIL /\ old[r].key = k
  <2>1. \A s \in DOMAIN table : table[s] # NIL => table[s].key # k
    BY <1>2, <1>4
  <2> QED
    BY <1>4, <2>1, HeldAbsent
<1> QED
  BY <1>3, <1>4

-----------------------------------------------------------------------------
(* HashTable implements FirstMap.                                          *)

LEMMA AbstractInit == Init => Abstract!Init
<1> SUFFICES ASSUME Init PROVE Abstract!Init
  OBVIOUS
<1>1. \A s \in DOMAIN table : table[s] = NIL
  BY DEF Init, Empty
<1>2. \A k \in Key : Held(table, k) = {}
  BY <1>1, HeldAbsent
<1>3. Contents = [k \in Key |-> {}]
  BY <1>2 DEF Init, Contents, Growing
<1>4. Full \in BOOLEAN
  BY DEF Full
<1> QED
  BY <1>3, <1>4 DEF Init, Abstract!Init, Types, Abstract!Types, NoCall, Abstract!NoCall

\* A table that can grow no more stays so.
LEMMA FullStays ==
    ASSUME IInv, [Next]_vars
    PROVE  Abstract!StaysFull
<1>1. nr \in Nat /\ sz \in Nat \ {0}
  BY DEF IInv, HashTypeOK
<1>2. \/ sz' = sz /\ nr' \in Nat /\ nr' >= nr
      \/ CanGrow
  <2>1. CASE Grow
    BY <2>1 DEF Grow
  <2>2. CASE Graft \/ InsertHere
    BY <1>1, <2>2 DEF Graft, InsertHere
  <2>3. CASE (\E k \in Key, v \in Value : hash_insert(k, v)) \/ (\E k \in Key : hash_search(k))
             \/ hash_to_list \/ HasRoom \/ GrowthFails \/ SkipEmptySlot \/ MoveEntry
             \/ GraftProbe \/ Grown \/ Probe \/ AnswerHere \/ UNCHANGED vars
    <3>1. sz' = sz /\ nr' = nr
      BY <2>3 DEF hash_insert, hash_search, hash_to_list, HasRoom, GrowthFails, SkipEmptySlot,
         MoveEntry, GraftProbe, Grown, Probe, AnswerHere, vars, tableVars
    <3> QED
      BY <1>1, <3>1
  <2> QED
    BY <2>1, <2>2, <2>3 DEF Next, Work
<1>3. ASSUME sz' = sz, nr' \in Nat, nr' >= nr PROVE Full => Full'
  <2>1. CanGrow' <=> CanGrow
    BY <1>3 DEF CanGrow, new_alloc_size
  <2>2. Loaded => Loaded'
    BY <1>1, <1>3 DEF Loaded
  <2> QED
    BY <2>1, <2>2 DEF Full
<1>4. Full => Full'
  BY <1>2, <1>3 DEF Full
<1>5. Full' \in BOOLEAN
  BY DEF Full
<1> QED
  BY <1>4, <1>5 DEF Abstract!StaysFull

\* What a step must leave alone to be invisible to a user of the table.
LEMMA ContentsAlone ==
    ASSUME UNCHANGED <<table, old>>, Growing' = Growing
    PROVE  Contents' = Contents
BY DEF Contents, Held

LEMMA CallAbstract ==
    ASSUME IInv, [Next]_vars,
           \/ \E k \in Key, v \in Value : hash_insert(k, v)
           \/ \E k \in Key : hash_search(k)
    PROVE  Abstract!Next
<1>1. Abstract!StaysFull
  BY FullStays
<1>2. /\ pc = "idle" /\ pc' \in {"load", "probe"}
      /\ call' \in Insertions \cup Searches /\ answer' = {}
      /\ UNCHANGED <<type, table, old>>
  BY DEF hash_insert, hash_search, tableVars, oldVars, Insertions, Searches
<1>3. call = NoCall
  BY <1>2 DEF IInv, CallMatches
<1>4. Contents' = Contents
  BY <1>2, ContentsAlone DEF Growing
<1>5. Abstract!Begin(call')
  BY <1>1, <1>2, <1>3, <1>4 DEF Abstract!Begin, NoCall, Abstract!NoCall
<1> QED
  BY <1>2, <1>5 DEF Abstract!Next, Insertions, Searches, Abstract!Insertions, Abstract!Searches

LEMMA ListAbstract ==
    ASSUME IInv, [Next]_vars, hash_to_list
    PROVE  Abstract!List
<1>1. Abstract!StaysFull
  BY FullStays
<1>2. /\ pc = "idle" /\ type = "HASH_TABLE" /\ UNCHANGED <<type, table, old, pc, call>>
      /\ answer' = UNION {table[s].vals : s \in {s \in DOMAIN table : table[s] # NIL}}
  BY DEF hash_to_list, tableVars, oldVars
<1>3. call = NoCall
  BY <1>2 DEF IInv, CallMatches
<1>4. Contents' = Contents
  BY <1>2, ContentsAlone DEF Growing
<1>5. answer' = UNION {Contents[k] : k \in Key}
  <2>1. \A k \in Key : Contents[k] = Held(table, k)
    BY <1>2 DEF Contents, Growing
  <2>2. \A s \in DOMAIN table : table[s] # NIL => table[s].key \in Key
    BY DEF IInv, HashTypeOK, Slot, Entry
  <2>3. \A v : v \in answer' <=> \E s \in DOMAIN table : table[s] # NIL /\ v \in table[s].vals
    BY <1>2
  <2>4. \A v : (\E k \in Key : v \in Held(table, k)) <=>
               \E s \in DOMAIN table : table[s] # NIL /\ v \in table[s].vals
    BY <2>2 DEF Held
  <2>5. \A v : v \in UNION {Contents[k] : k \in Key} <=> \E k \in Key : v \in Held(table, k)
    BY <2>1
  <2> QED
    BY <2>3, <2>4, <2>5
<1> QED
  BY <1>1, <1>2, <1>3, <1>4, <1>5 DEF Abstract!List, NoCall, Abstract!NoCall

\* Growing and probing change nothing a user of the table can see.
LEMMA InternalAbstract ==
    ASSUME IInv, [Next]_vars,
           HasRoom \/ Grow \/ SkipEmptySlot \/ MoveEntry \/ GraftProbe \/ Graft \/ Grown \/ Probe
    PROVE  Abstract!Internal
<1>1. Abstract!StaysFull
  BY FullStays
<1>2. UNCHANGED <<type, call, answer>>
  BY DEF HasRoom, Grow, SkipEmptySlot, MoveEntry, GraftProbe, Graft, Grown, Probe
<1>3. Contents' = Contents
  <2>1. CASE HasRoom \/ SkipEmptySlot \/ MoveEntry \/ GraftProbe \/ Probe
    <3>1. UNCHANGED <<table, old>> /\ Growing' = Growing
      BY <2>1 DEF HasRoom, SkipEmptySlot, MoveEntry, GraftProbe, Probe, tableVars, oldVars, Growing
    <3> QED
      BY <3>1, ContentsAlone
  <2>2. CASE Grow
    <3>1. ~Growing /\ Growing' /\ old' = table
      BY <2>2 DEF Grow, Growing
    <3> QED
      BY <3>1 DEF Contents, Held
  <2>3. CASE Graft
    <3>1. Growing /\ Growing' /\ old' = old
      BY <2>3 DEF Graft, Growing
    <3> QED
      BY <3>1 DEF Contents, Held
  <2>4. CASE Grown
    <3>1. /\ Growing /\ ~Growing' /\ table' = table /\ pc = "rehash" /\ i = oldsz
      BY <2>4 DEF Grown, Growing, tableVars
    <3>2. \A k \in Key : Held(table, k) = Held(old, k)
      BY <3>1, GrownHeld
    <3>3. Contents' = [k \in Key |-> Held(table, k)]
      BY <3>1 DEF Contents, Held
    <3>4. Contents = [k \in Key |-> Held(old, k)]
      BY <3>1 DEF Contents
    <3> QED
      BY <3>2, <3>3, <3>4
  <2> QED
    BY <2>1, <2>2, <2>3, <2>4
<1> QED
  BY <1>1, <1>2, <1>3 DEF Abstract!Internal

LEMMA GrowthFailsAbstract ==
    ASSUME IInv, [Next]_vars, GrowthFails
    PROVE  Abstract!Ignore
<1>1. Abstract!StaysFull
  BY FullStays
<1>2. /\ pc = "load" /\ pc' = "idle" /\ Full /\ call' = NoCall
      /\ UNCHANGED <<type, table, old, answer>>
  BY DEF GrowthFails, Full, tableVars, oldVars
<1>3. call \in Insertions
  BY <1>2 DEF IInv, CallMatches
<1>4. Contents' = Contents
  BY <1>2, ContentsAlone DEF Growing
<1> QED
  BY <1>1, <1>2, <1>3, <1>4
     DEF Abstract!Ignore, NoCall, Abstract!NoCall, Insertions, Abstract!Insertions

LEMMA InsertHereAbstract ==
    ASSUME IInv, [Next]_vars, InsertHere
    PROVE  Abstract!Put
<1> DEFINE k == call.key
           e == [hash |-> hash[k], key |-> k, vals |-> Stored(Values(table[pos]), call.val)]
<1>1. /\ UNCHANGED <<type, hash, sz, old, answer>>
      /\ pc = "probe" /\ pc' = "idle" /\ call \in Insertions /\ call' = NoCall
      /\ k \in Key /\ call.val \in Value /\ pos \in 0..(sz - 1)
      /\ e \in Entry /\ e.key = k /\ e.hash = hash[k]
      /\ SeenOthers(k) /\ ~GoesPast(hash[k], k)
      /\ table' = [table EXCEPT ![pos] = e]
  BY InsertHereFacts
<1>2. e.vals = Stored(Values(table[pos]), call.val)
  OBVIOUS
<1> HIDE DEF k, e
<1>3. Values(table[pos]) = Held(table, k)
  BY <1>1, LoopFindsHeld
<1>4. /\ Held(table', k) = e.vals
      /\ \A j \in Key : j # k => Held(table', j) = Held(table, j)
  BY <1>1, PlaceHeld
<1>5. Values(table[pos]) \in SUBSET Value /\ type \in Types
  BY <1>1, AnswersAreValues DEF IInv, HashTypeOK
<1>6. e.vals = IF Held(table, k) = {} \/ type = "HASH_BST"
               THEN Held(table, k) \cup {call.val} ELSE Held(table, k)
  BY <1>1, <1>2, <1>3, <1>5, StoredIsValues
<1>7. Contents = [j \in Key |-> Held(table, j)]
  BY <1>1 DEF Contents, Growing
<1>8. Contents' = [j \in Key |-> Held(table', j)]
  BY <1>1 DEF Contents, Growing, Held
<1>9. Contents' = [Contents EXCEPT ![k] =
                      IF @ = {} \/ type = "HASH_BST" THEN @ \cup {call.val} ELSE @]
  BY <1>1, <1>4, <1>6, <1>7, <1>8
<1>10. Abstract!StaysFull
  BY FullStays
<1> QED
  BY <1>1, <1>9, <1>10
     DEF Abstract!Put, NoCall, Abstract!NoCall, Insertions, Abstract!Insertions, k

LEMMA AnswerHereAbstract ==
    ASSUME IInv, [Next]_vars, AnswerHere
    PROVE  Abstract!Get
<1>1. /\ pc = "probe" /\ pc' = "idle" /\ call.op = "search" /\ call' = NoCall
      /\ ~GoesPast(hash[call.key], call.key) /\ answer' = Values(table[pos])
      /\ UNCHANGED <<type, table, old>>
  BY DEF AnswerHere, tableVars, oldVars
<1>2. call \in Searches /\ call.key \in Key /\ pos \in 0..(sz - 1)
  BY <1>1 DEF IInv, HashTypeOK, CallMatches, Insertions, Searches
<1>3. SeenOthers(call.key)
  BY <1>1 DEF IInv, LoopsSeeOthers
<1>4. answer' = Contents[call.key]
  BY <1>1, <1>2, <1>3, LoopFindsHeld DEF Contents, Growing
<1>5. Contents' = Contents
  BY <1>1, ContentsAlone DEF Growing
<1>6. Abstract!StaysFull
  BY FullStays
<1> QED
  BY <1>1, <1>2, <1>4, <1>5, <1>6
     DEF Abstract!Get, NoCall, Abstract!NoCall, Searches, Abstract!Searches

LEMMA NextAbstract == IInv /\ [Next]_vars => [Abstract!Next]_(Abstract!vars)
<1> SUFFICES ASSUME IInv, [Next]_vars PROVE [Abstract!Next]_(Abstract!vars)
  OBVIOUS
<1>1. CASE (\E k \in Key, v \in Value : hash_insert(k, v)) \/ (\E k \in Key : hash_search(k))
  BY <1>1, CallAbstract
<1>2. CASE hash_to_list
  BY <1>2, ListAbstract DEF Abstract!Next
<1>3. CASE HasRoom \/ Grow \/ SkipEmptySlot \/ MoveEntry \/ GraftProbe \/ Graft \/ Grown \/ Probe
  BY <1>3, InternalAbstract DEF Abstract!Next
<1>4. CASE GrowthFails
  BY <1>4, GrowthFailsAbstract DEF Abstract!Next
<1>5. CASE InsertHere
  BY <1>5, InsertHereAbstract DEF Abstract!Next
<1>6. CASE AnswerHere
  BY <1>6, AnswerHereAbstract DEF Abstract!Next
<1>7. CASE UNCHANGED vars
  <2>1. UNCHANGED <<type, table, sz, nr, old, pc, call, answer>>
    BY <1>7 DEF vars
  <2>2. Contents' = Contents
    BY <2>1, ContentsAlone DEF Growing
  <2>3. Full' = Full
    BY <2>1 DEF Full, Loaded, CanGrow, new_alloc_size
  <2> QED
    BY <2>1, <2>2, <2>3 DEF Abstract!vars
<1> QED
  BY <1>1, <1>2, <1>3, <1>4, <1>5, <1>6, <1>7 DEF Next, Work

\* For every hash function, however bad, and every list of sizes, the tables of
\* hash.c are maps in which the first insertion for a key wins (HASH_BST: in
\* which all are kept): growth loses nothing and a search finds what is there.
THEOREM Implements == Spec => ImplementsFirstMap
BY AbstractInit, NextAbstract, TableInvariant, PTL DEF Spec, ImplementsFirstMap, Abstract!Spec

-----------------------------------------------------------------------------
(* The count and the free slot.                                            *)

\* The entries of the old table that were moved.
MovedSlots == {r \in 0..(i - 1) : old[r] # NIL}

\* A growing table gets fewer entries than the old one had slots, and the
\* insertion that follows, or that found room, leaves a slot free.
CInv ==
    /\ CountIsExact
    /\ Growing =>
          /\ oldsz < sz
          /\ nr = Cardinality(MovedSlots)
          /\ Cardinality({r \in 0..(oldsz - 1) : old[r] # NIL}) < oldsz
    /\ pc = "probe" /\ call.op = "insert" => nr + 1 < sz

LEMMA OccupiedFinite ==
    ASSUME NEW n \in Nat, NEW t
    PROVE  /\ IsFiniteSet({s \in 0..(n - 1) : t[s] # NIL})
           /\ Cardinality({s \in 0..(n - 1) : t[s] # NIL}) \in Nat
<1>1. IsFiniteSet(0..(n - 1))
  BY FS_Interval
<1> QED
  BY <1>1, FS_Subset, FS_CardinalityType

\* An entry stored in a free slot counts for one, one that is replaced for none.
LEMMA StoreCounts ==
    ASSUME HashTypeOK, pos \in 0..(sz - 1), NEW e, e # NIL,
           table' = [table EXCEPT ![pos] = e], sz' = sz
    PROVE  Cardinality(Occupied') =
               IF table[pos] = NIL THEN Cardinality(Occupied) + 1 ELSE Cardinality(Occupied)
<1>1. Occupied' = Occupied \cup {pos}
  BY DEF Occupied, HashTypeOK
<1>2. IsFiniteSet(Occupied)
  BY OccupiedFinite DEF Occupied, HashTypeOK
<1>3. pos \in Occupied <=> table[pos] # NIL
  BY DEF Occupied
<1> HIDE DEF Occupied
<1> QED
  BY <1>1, <1>2, <1>3, FS_AddElement

LEMMA NoneOccupied ==
    ASSUME NEW n
    PROVE  Cardinality({s \in 0..(n - 1) : Empty(n)[s] # NIL}) = 0
<1>1. {s \in 0..(n - 1) : Empty(n)[s] # NIL} = {}
  BY DEF Empty
<1> QED
  BY <1>1, FS_EmptySet

LEMMA InitCInv == Init => CInv
<1> SUFFICES ASSUME Init PROVE CInv
  OBVIOUS
<1>1. sz \in Nat \ {0}
  BY HashAssumption DEF Init
<1>2. Cardinality(Occupied) = 0
  BY NoneOccupied DEF Init, Occupied
<1> QED
  BY <1>1, <1>2 DEF Init, CInv, CountIsExact, Growing

LEMMA HasRoomCInv ==
    ASSUME IInv, CInv, HasRoom
    PROVE  CInv'
<1>1. /\ UNCHANGED <<table, sz, nr, old, oldsz, i>> /\ pc' = "probe"
      /\ sz \in Nat \ {0} /\ nr \in Nat
  BY DEF HasRoom, tableVars, oldVars, IInv, HashTypeOK
<1>2. nr < sz \div 2
  BY <1>1 DEF HasRoom, Loaded
<1>3. nr + 1 < sz
  BY <1>1, <1>2
<1> QED
  BY <1>1, <1>3 DEF CInv, CountIsExact, Occupied, Growing

LEMMA GrowCInv ==
    ASSUME IInv, CInv, Grow
    PROVE  CInv'
<1>1. /\ sz' = new_alloc_size(sz) /\ new_alloc_size(sz) > sz /\ sz \in Nat \ {0}
      /\ table' = Empty(sz') /\ nr' = 0 /\ old' = table /\ oldsz' = sz /\ i' = 0
      /\ pc = "load" /\ pc' = "rehash"
  BY DEF Grow, CanGrow, IInv, HashTypeOK
<1>2. sz' \in Nat \ {0}
  BY <1>1, NewSizeIsNat
<1>3. Cardinality(Occupied') = 0
  BY <1>1, NoneOccupied DEF Occupied
<1>4. MovedSlots' = {}
  BY <1>1 DEF MovedSlots
<1>5. Cardinality(MovedSlots') = 0
  BY <1>4, FS_EmptySet
<1>6. Cardinality({r \in 0..(oldsz' - 1) : old'[r] # NIL}) < oldsz'
  <2>1. {r \in 0..(oldsz' - 1) : old'[r] # NIL} = Occupied
    BY <1>1 DEF Occupied
  <2> QED
    BY <1>1, <2>1 DEF CInv, CountIsExact
<1> QED
  BY <1>1, <1>2, <1>3, <1>5, <1>6 DEF CInv, CountIsExact

\* Moving on by one slot adds it to the moved ones if it is in use.
LEMMA MovedSlotsNext ==
    ASSUME HashTypeOK, i < oldsz, i' = i + 1, old' = old
    PROVE  Cardinality(MovedSlots') =
               IF old[i] = NIL THEN Cardinality(MovedSlots) ELSE Cardinality(MovedSlots) + 1
<1>1. i \in Nat
  BY DEF HashTypeOK
<1>2. IsFiniteSet(MovedSlots)
  BY <1>1, OccupiedFinite DEF MovedSlots
<1>3. i \notin MovedSlots
  BY <1>1 DEF MovedSlots
<1>4. MovedSlots' = IF old[i] = NIL THEN MovedSlots ELSE MovedSlots \cup {i}
  BY <1>1 DEF MovedSlots
<1> HIDE DEF MovedSlots
<1> QED
  BY <1>2, <1>3, <1>4, FS_AddElement

LEMMA SkipEmptySlotCInv ==
    ASSUME IInv, CInv, SkipEmptySlot
    PROVE  CInv'
<1>1. /\ UNCHANGED <<table, sz, nr, old, oldsz, pc, call>> /\ pc = "rehash"
      /\ i' = i + 1 /\ i < oldsz /\ old[i] = NIL
  BY DEF SkipEmptySlot, tableVars
<1>2. Cardinality(MovedSlots') = Cardinality(MovedSlots)
  BY <1>1, MovedSlotsNext DEF IInv
<1> QED
  BY <1>1, <1>2 DEF CInv, CountIsExact, Occupied, Growing

LEMMA GraftCInv ==
    ASSUME IInv, CInv, Graft
    PROVE  CInv'
<1> DEFINE e == [old[i] EXCEPT !.hash = Rehash(old[i])]
<1>1. /\ UNCHANGED <<sz, old, oldsz>> /\ pc = "graft" /\ pc' = "rehash"
      /\ i' = i + 1 /\ table[pos] = NIL /\ nr' = nr + 1
      /\ table' = [table EXCEPT ![pos] = e]
  BY GraftsToFreeSlot DEF Graft
<1>2. /\ pos \in 0..(sz - 1) /\ i \in 0..oldsz /\ i < oldsz /\ old[i] # NIL
      /\ sz \in Nat /\ oldsz \in Nat /\ nr \in Nat
      /\ old[i] \in Entry
  BY <1>1 DEF IInv, HashTypeOK, CallMatches, Slot
<1>3. e # NIL
  <2>1. old[i].key \in Key /\ hash[old[i].key] \in Nat
    BY <1>2 DEF IInv, HashTypeOK, Entry
  <2>2. Rehash(old[i]) = hash[old[i].key]
    BY <1>1, <1>2, RehashIsHash DEF IInv, HashesStored, HashTypeOK
  <2>3. e \in Entry
    BY <1>2, <2>1, <2>2 DEF Entry
  <2> QED
    BY <2>3, HashAssumption DEF Entry
<1> HIDE DEF e
<1>4. Cardinality(Occupied') = nr'
  BY <1>1, <1>2, <1>3, StoreCounts DEF IInv, CInv, CountIsExact
<1>5. Cardinality(MovedSlots') = nr'
  BY <1>1, <1>2, MovedSlotsNext DEF IInv, CInv, Growing
<1>6. nr' < sz
  <2> DEFINE all == {r \in 0..(oldsz - 1) : old[r] # NIL}
  <2>1. oldsz < sz /\ Cardinality(all) < oldsz
    BY <1>1 DEF CInv, Growing
  <2>2. IsFiniteSet(all) /\ Cardinality(all) \in Nat
    BY <1>2, OccupiedFinite
  <2>3. MovedSlots' \subseteq all
    BY <1>1, <1>2 DEF MovedSlots
  <2> HIDE DEF all
  <2>4. nr' <= Cardinality(all)
    BY <1>5, <2>2, <2>3, FS_Subset
  <2> QED
    BY <1>1, <1>2, <2>1, <2>2, <2>4
<1> QED
  BY <1>1, <1>4, <1>5, <1>6 DEF CInv, CountIsExact, Growing

LEMMA GrownCInv ==
    ASSUME IInv, CInv, Grown
    PROVE  CInv'
<1>1. /\ UNCHANGED <<table, sz, nr, call>> /\ pc = "rehash" /\ pc' = "probe"
      /\ i = oldsz /\ sz \in Nat /\ oldsz \in Nat /\ nr \in Nat
  BY DEF Grown, tableVars, IInv, HashTypeOK
<1>2. nr = Cardinality(MovedSlots) /\ oldsz < sz /\ Cardinality(MovedSlots) < oldsz
  BY <1>1 DEF CInv, Growing, MovedSlots
<1>3. nr + 1 < sz
  BY <1>1, <1>2
<1> QED
  BY <1>1, <1>3 DEF CInv, CountIsExact, Occupied, Growing

LEMMA InsertHereCInv ==
    ASSUME IInv, CInv, InsertHere
    PROVE  CInv'
<1> DEFINE e == [hash |-> hash[call.key], key |-> call.key,
                 vals |-> Stored(Values(table[pos]), call.val)]
<1>1. /\ UNCHANGED <<sz>> /\ pc = "probe" /\ call.op = "insert" /\ pc' = "idle"
      /\ nr' = (IF table[pos] = NIL THEN nr + 1 ELSE nr)
      /\ table' = [table EXCEPT ![pos] = e]
      /\ pos \in 0..(sz - 1) /\ sz \in Nat /\ nr \in Nat
  BY DEF InsertHere, IInv, HashTypeOK
<1>2. e \in Entry
  BY InsertHereFacts
<1>3. e # NIL
  BY <1>2, HashAssumption DEF Entry
<1> HIDE DEF e
<1>4. Cardinality(Occupied') = nr'
  BY <1>1, <1>3, StoreCounts DEF IInv, CInv, CountIsExact
<1>5. nr' < sz
  BY <1>1 DEF CInv
<1> QED
  BY <1>1, <1>4, <1>5 DEF CInv, CountIsExact, Growing

\* A step that touches neither the tables nor the count.
LEMMA UntouchedCInv ==
    ASSUME CInv, UNCHANGED <<table, sz, nr, old, oldsz, i>>, Growing' = Growing,
           pc' = "probe" => call'.op = "search" \/ (pc = "probe" /\ call' = call)
    PROVE  CInv'
BY DEF CInv, CountIsExact, Occupied, MovedSlots

LEMMA NextCInv == IInv /\ CInv /\ [Next]_vars => CInv'
<1> SUFFICES ASSUME IInv, CInv, [Next]_vars PROVE CInv'
  OBVIOUS
<1> USE DEF tableVars, oldVars
<1>1. ASSUME NEW k \in Key, NEW v \in Value, hash_insert(k, v) PROVE CInv'
  BY <1>1, UntouchedCInv DEF hash_insert, Growing
<1>2. ASSUME NEW k \in Key, hash_search(k) PROVE CInv'
  BY <1>2, UntouchedCInv DEF hash_search, Growing
<1>3. CASE hash_to_list
  BY <1>3, UntouchedCInv DEF hash_to_list, Growing
<1>4. CASE HasRoom
  BY <1>4, HasRoomCInv
<1>5. CASE GrowthFails
  BY <1>5, UntouchedCInv DEF GrowthFails, Growing
<1>6. CASE Grow
  BY <1>6, GrowCInv
<1>7. CASE SkipEmptySlot
  BY <1>7, SkipEmptySlotCInv
<1>8. CASE MoveEntry
  BY <1>8, UntouchedCInv DEF MoveEntry, Growing
<1>9. CASE GraftProbe
  BY <1>9, UntouchedCInv DEF GraftProbe, Growing
<1>10. CASE Graft
  BY <1>10, GraftCInv
<1>11. CASE Grown
  BY <1>11, GrownCInv
<1>12. CASE Probe
  BY <1>12, UntouchedCInv DEF Probe, Growing
<1>13. CASE InsertHere
  BY <1>13, InsertHereCInv
<1>14. CASE AnswerHere
  BY <1>14, UntouchedCInv DEF AnswerHere, Growing
<1>15. CASE UNCHANGED vars
  BY <1>15, UntouchedCInv DEF vars, Growing
<1> QED
  BY <1>1, <1>2, <1>3, <1>4, <1>5, <1>6, <1>7, <1>8, <1>9, <1>10, <1>11, <1>12,
     <1>13, <1>14, <1>15 DEF Next, Work

\* The count of entries is exact and a slot is free at all times (hash.c:309),
\* whatever the sizes and the hash functions: every probing loop meets its key
\* or a free slot.
THEOREM CountCorrect == Spec => []CountIsExact
<1>1. Spec => []IInv
  BY TableInvariant
<1>2. CInv => CountIsExact
  BY DEF CInv
<1> QED
  BY <1>1, <1>2, InitCInv, NextCInv, PTL DEF Spec
=============================================================================
