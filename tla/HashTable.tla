----------------------------- MODULE HashTable -----------------------------
(***************************************************************************)
(* src/hash.c: the open-addressing tables under every database of powaur,  *)
(* the graph's index of vertices and the resolver's sets.  The four types  *)
(* (HASH_TABLE, VINDEX, HASH_BST, HASH_MAP) repeat the same code on their  *)
(* own entries; here an entry holds the set of its values, of which all    *)
(* but HASH_BST keep one, and each type has its line in Stored and Rehash. *)
(*                                                                         *)
(* A step is one turn of a probing loop or of the loop that moves the      *)
(* entries of a table that grows.                                          *)
(***************************************************************************)
EXTENDS Naturals, Sequences, FiniteSets

CONSTANTS
    Key, Value,
    NIL,                \* the null pointer of an entry never used
    Hashes,             \* hash functions hash_new may be given
    prime_list,         \* the sizes a table goes through first
    UintRange           \* an unsigned int is computed modulo UintRange

ASSUME HashAssumption ==
    /\ Hashes \subseteq [Key -> Nat]
    /\ prime_list \in Seq(Nat \ {0})
    /\ Len(prime_list) > 0
    /\ UintRange \in Nat \ {0}
    /\ NIL \notin [hash : Nat, key : Key, vals : SUBSET Value]

VARIABLES
    type, hash,         \* set by hash_new, never changed
    table, sz, nr,      \* struct hash_table
    old, oldsz, i,      \* hash_grow_*: the table before, and how far it is moved
    pc,                 \* "idle", "load", "rehash", "graft", "probe"
    call,               \* what the caller asked for
    pos,                \* the slot a probing loop looks at, 0 outside of one
    answer              \* the values found, {} for a null pointer, until the next call

vars == <<type, hash, table, sz, nr, old, oldsz, i, pc, call, pos, answer>>

Types == {"HASH_TABLE", "VINDEX", "HASH_BST", "HASH_MAP"}
NoCall == [op |-> "none"]
Insertions == [op : {"insert"}, key : Key, val : Value]
Searches == [op : {"search"}, key : Key]

-----------------------------------------------------------------------------
Empty(n) == [s \in 0..(n - 1) |-> NIL]

new_alloc_size(size) ==
    IF \E j \in 1..(Len(prime_list) - 1) : prime_list[j] = size
    THEN prime_list[1 + CHOOSE j \in 1..(Len(prime_list) - 1) : prime_list[j] = size]
    ELSE ((((size + 16) % UintRange) * 3) % UintRange) \div 2

\* A load factor of 1/2.
Loaded == nr >= sz \div 2
CanGrow == new_alloc_size(sz) > sz

Home(h) == h % sz

\* ++pos, back to the first slot after the last.  Mutant: pos is not advanced.
NextPosStuck(p) == p
NextPos(p) == IF p + 1 >= sz THEN 0 ELSE p + 1

\* The key of entry e is k: cmp is called only when the hashes are equal.
\* Mutant: cmp is not called at all.
SameHash(e, h, k) == e.hash = h
SameKey(e, h, k) == e.hash = h /\ e.key = k

\* A probing loop for k goes past the slot.
GoesPast(h, k) == table[pos] # NIL /\ ~SameKey(table[pos], h, k)

\* What hash_insert_* leaves at a key that had the values S.
hash_insert_htable(S, v) == IF S = {} THEN {v} ELSE S
hash_insert_vindex(S, v) == IF S = {} THEN {v} ELSE S
hashbst_bst_insert(S, v) == S \cup {v}
hash_insert_bst(S, v) == hashbst_bst_insert(S, v)
hash_insert_hmap(S, v) == IF S = {} THEN {v} ELSE S
Stored(S, v) ==
    CASE type = "HASH_TABLE" -> hash_insert_htable(S, v)
      [] type = "VINDEX" -> hash_insert_vindex(S, v)
      [] type = "HASH_BST" -> hash_insert_bst(S, v)
      [] type = "HASH_MAP" -> hash_insert_hmap(S, v)

\* The hash under which hash_grow_* moves entry e.
hash_grow_htable(e) == hash[e.key]
hash_grow_vindex(e) == e.hash
hash_grow_bst(e) == e.hash
hash_grow_hmap(e) == hash[e.key]
Rehash(e) ==
    CASE type = "HASH_TABLE" -> hash_grow_htable(e)
      [] type = "VINDEX" -> hash_grow_vindex(e)
      [] type = "HASH_BST" -> hash_grow_bst(e)
      [] type = "HASH_MAP" -> hash_grow_hmap(e)

-----------------------------------------------------------------------------
\* hash_new
Init ==
    /\ type \in Types
    /\ hash \in Hashes
    /\ sz = prime_list[1]
    /\ table = Empty(sz)
    /\ nr = 0
    /\ oldsz = 0
    /\ old = Empty(0)
    /\ i = 0
    /\ pc = "idle"
    /\ call = NoCall
    /\ pos = 0
    /\ answer = {}

tableVars == <<table, sz, nr>>
oldVars == <<old, oldsz, i>>

hash_insert(k, v) ==
    /\ pc = "idle"
    /\ call' = [op |-> "insert", key |-> k, val |-> v]
    /\ pc' = "load"
    /\ answer' = {}
    /\ UNCHANGED <<type, hash, tableVars, oldVars, pos>>

\* hash_search; for VINDEX hash_pos, which returns the index kept there.
hash_search(k) ==
    /\ pc = "idle"
    /\ call' = [op |-> "search", key |-> k]
    /\ pc' = "probe"
    /\ pos' = Home(hash[k])
    /\ answer' = {}
    /\ UNCHANGED <<type, hash, tableVars, oldVars>>

hash_to_list ==
    /\ pc = "idle"
    /\ type = "HASH_TABLE"
    /\ answer' = UNION {table[s].vals : s \in {s \in DOMAIN table : table[s] # NIL}}
    /\ UNCHANGED <<type, hash, tableVars, oldVars, pc, call, pos>>

HasRoom ==
    /\ pc = "load"
    /\ ~Loaded
    /\ pc' = "probe"
    /\ pos' = Home(hash[call.key])
    /\ UNCHANGED <<type, hash, tableVars, oldVars, call, answer>>

\* The insertion is given up without a word to the caller.
GrowthFails ==
    /\ pc = "load"
    /\ Loaded
    /\ ~CanGrow
    /\ pc' = "idle"
    /\ call' = NoCall
    /\ UNCHANGED <<type, hash, tableVars, oldVars, pos, answer>>

\* Mutant: the count of the old table is kept.
GrowKeepsCount ==
    /\ pc = "load"
    /\ Loaded
    /\ CanGrow
    /\ sz' = new_alloc_size(sz)
    /\ table' = Empty(sz')
    /\ old' = table
    /\ oldsz' = sz
    /\ i' = 0
    /\ pc' = "rehash"
    /\ UNCHANGED <<type, hash, nr, call, pos, answer>>

Grow ==
    /\ pc = "load"
    /\ Loaded
    /\ CanGrow
    /\ sz' = new_alloc_size(sz)
    /\ table' = Empty(sz')
    /\ nr' = 0
    /\ old' = table
    /\ oldsz' = sz
    /\ i' = 0
    /\ pc' = "rehash"
    /\ UNCHANGED <<type, hash, call, pos, answer>>

SkipEmptySlot ==
    /\ pc = "rehash"
    /\ i < oldsz
    /\ old[i] = NIL
    /\ i' = i + 1
    /\ UNCHANGED <<type, hash, tableVars, old, oldsz, pc, call, pos, answer>>

MoveEntry ==
    /\ pc = "rehash"
    /\ i < oldsz
    /\ old[i] # NIL
    /\ pos' = Home(Rehash(old[i]))
    /\ pc' = "graft"
    /\ UNCHANGED <<type, hash, tableVars, oldVars, call, answer>>

\* hash_entry_insert_*, hash_entry_graft_tree: the probing loop, then the
\* entry unless its key is there.
GraftProbe ==
    /\ pc = "graft"
    /\ GoesPast(Rehash(old[i]), old[i].key)
    /\ pos' = NextPos(pos)
    /\ UNCHANGED <<type, hash, tableVars, oldVars, pc, call, answer>>

Graft ==
    /\ pc = "graft"
    /\ ~GoesPast(Rehash(old[i]), old[i].key)
    /\ table' = IF table[pos] = NIL
                THEN [table EXCEPT ![pos] = [old[i] EXCEPT !.hash = Rehash(old[i])]]
                ELSE table
    /\ nr' = IF table[pos] = NIL THEN nr + 1 ELSE nr
    /\ i' = i + 1
    /\ pc' = "rehash"
    /\ pos' = 0
    /\ UNCHANGED <<type, hash, sz, old, oldsz, call, answer>>

\* The old table is freed and the insertion goes on in the new one.
Grown ==
    /\ pc = "rehash"
    /\ i = oldsz
    /\ old' = Empty(0)
    /\ oldsz' = 0
    /\ i' = 0
    /\ pc' = "probe"
    /\ pos' = Home(hash[call.key])
    /\ UNCHANGED <<type, hash, tableVars, call, answer>>

Probe ==
    /\ pc = "probe"
    /\ GoesPast(hash[call.key], call.key)
    /\ pos' = NextPos(pos)
    /\ UNCHANGED <<type, hash, tableVars, oldVars, pc, call, answer>>

Values(e) == IF e = NIL THEN {} ELSE e.vals

InsertHere ==
    /\ pc = "probe"
    /\ call.op = "insert"
    /\ ~GoesPast(hash[call.key], call.key)
    /\ table' = [table EXCEPT ![pos] =
                    [hash |-> hash[call.key], key |-> call.key,
                     vals |-> Stored(Values(table[pos]), call.val)]]
    /\ nr' = IF table[pos] = NIL THEN nr + 1 ELSE nr
    /\ pc' = "idle"
    /\ call' = NoCall
    /\ pos' = 0
    /\ UNCHANGED <<type, hash, sz, oldVars, answer>>

AnswerHere ==
    /\ pc = "probe"
    /\ call.op = "search"
    /\ ~GoesPast(hash[call.key], call.key)
    /\ answer' = Values(table[pos])
    /\ pc' = "idle"
    /\ call' = NoCall
    /\ pos' = 0
    /\ UNCHANGED <<type, hash, tableVars, oldVars>>

\* A step of the operation that was called.
Work ==
    \/ HasRoom
    \/ GrowthFails
    \/ Grow
    \/ SkipEmptySlot
    \/ MoveEntry
    \/ GraftProbe
    \/ Graft
    \/ Grown
    \/ Probe
    \/ InsertHere
    \/ AnswerHere

Next ==
    \/ \E k \in Key, v \in Value : hash_insert(k, v)
    \/ \E k \in Key : hash_search(k)
    \/ hash_to_list
    \/ Work

Spec == Init /\ [][Next]_vars

\* One thread executes the operation: its next step is taken.
FairSpec == Spec /\ WF_vars(Work)

-----------------------------------------------------------------------------
Entry == [hash : Nat, key : Key, vals : SUBSET Value]
Slot == Entry \cup {NIL}

\* Every variable has its type; in particular pos is a slot of the table.
HashTypeOK ==
    /\ type \in Types
    /\ hash \in [Key -> Nat]
    /\ sz \in Nat \ {0}
    /\ table \in [0..(sz - 1) -> Slot]
    /\ nr \in Nat
    /\ oldsz \in Nat
    /\ old \in [0..(oldsz - 1) -> Slot]
    /\ i \in 0..oldsz
    /\ pc \in {"idle", "load", "rehash", "graft", "probe"}
    /\ call \in Insertions \cup Searches \cup {NoCall}
    /\ pc \in {"graft", "probe"} => pos \in 0..(sz - 1)
    /\ answer \subseteq Value

Occupied == {s \in 0..(sz - 1) : table[s] # NIL}

\* nr counts the entries of the table, which has a free slot at all times:
\* without one a search for a key that is not there would not end.
CountIsExact == nr = Cardinality(Occupied) /\ nr < sz

\* Every insertion and every search ends (hash.c:216, 240: the loops have no
\* other end than a free slot or the key).
CallsEnd == pc # "idle" ~> pc = "idle"

\* While the table grows, its contents are those of the old one.
Growing == pc \in {"rehash", "graft"}
Held(t, k) == UNION {t[s].vals : s \in {s \in DOMAIN t : t[s] # NIL /\ t[s].key = k}}
Contents == [k \in Key |-> IF Growing THEN Held(old, k) ELSE Held(table, k)]

\* The next insertion will be ignored.
Full == Loaded /\ ~CanGrow

Abstract == INSTANCE FirstMap WITH map <- Contents, full <- Full

\* Through collisions, wrapped probes and growth, a search answers what the
\* first insertion for its key stored (HASH_BST: what all of them stored), and
\* an insertion is ignored only by a table that can grow no more.
ImplementsFirstMap == Abstract!Spec
=============================================================================
