------------------------------ MODULE FirstMap ------------------------------
(***************************************************************************)
(* What src/hash.h promises the rest of powaur, without slots or hashes:   *)
(* a map from keys to values in which the first insertion for a key wins,  *)
(* or, for HASH_BST, one in which each key collects a set of values.       *)
(*                                                                         *)
(* hash_insert has no result.  A table that is full, because it can grow   *)
(* no further, ignores insertions; it stays full, and it answers searches. *)
(***************************************************************************)
CONSTANTS Key, Value

VARIABLES
    type,           \* enum hash_type, never changed
    map,            \* the values of each key; {} if it was never inserted
    full,
    call,           \* the operation being executed
    answer          \* of the last search: what the key maps to

vars == <<type, map, full, call, answer>>

Types == {"HASH_TABLE", "VINDEX", "HASH_BST", "HASH_MAP"}
NoCall == [op |-> "none"]
Insertions == [op : {"insert"}, key : Key, val : Value]
Searches == [op : {"search"}, key : Key]

Init ==
    /\ type \in Types
    /\ map = [k \in Key |-> {}]
    /\ full \in BOOLEAN
    /\ call = NoCall
    /\ answer = {}

StaysFull == full' \in BOOLEAN /\ (full => full')

Begin(c) ==
    /\ call = NoCall
    /\ call' = c
    /\ answer' = {}
    /\ StaysFull
    /\ UNCHANGED <<type, map>>

Put ==
    /\ call \in Insertions
    /\ map' = [map EXCEPT ![call.key] =
                   IF @ = {} \/ type = "HASH_BST" THEN @ \cup {call.val} ELSE @]
    /\ call' = NoCall
    /\ StaysFull
    /\ UNCHANGED <<type, answer>>

Ignore ==
    /\ call \in Insertions
    /\ full
    /\ call' = NoCall
    /\ StaysFull
    /\ UNCHANGED <<type, map, answer>>

Get ==
    /\ call \in Searches
    /\ answer' = map[call.key]
    /\ call' = NoCall
    /\ StaysFull
    /\ UNCHANGED <<type, map>>

\* hash_to_list, for HASH_TABLE only.
List ==
    /\ call = NoCall
    /\ type = "HASH_TABLE"
    /\ answer' = UNION {map[k] : k \in Key}
    /\ StaysFull
    /\ UNCHANGED <<type, map, call>>

Internal == StaysFull /\ UNCHANGED <<type, map, call, answer>>

Next ==
    \/ \E c \in Insertions \cup Searches : Begin(c)
    \/ Put
    \/ Ignore
    \/ Get
    \/ List
    \/ Internal

Spec == Init /\ [][Next]_vars
=============================================================================
