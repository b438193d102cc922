---------------------------- MODULE MCHashTable ----------------------------
(* Four keys, of which any number collide, in a table of two slots that may *)
(* grow to three and to five and, with unsigned integers this short, no     *)
(* further.                                                                 *)
EXTENDS HashTable

CONSTANTS k1, k2, k3, k4, v1, v2

MCKey == {k1, k2, k3, k4}
MCValue == {v1, v2}
\* One function for each number of keys with the same hash.
MCHashes == {[k \in MCKey |-> IF k \in S THEN 5 ELSE 1] :
                S \in {{}, {k1}, {k1, k2}, {k1, k2, k3}, MCKey}}
MCPrimes == <<2, 3, 5>>
=============================================================================
