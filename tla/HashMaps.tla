------------------------------ MODULE HashMaps ------------------------------
(* std::collections::HashMap as a function on the set of its keys.         *)

EmptyMap == [k \in {} |-> k]

\* insert: adds the key or overwrites its value.
Put(map, key, value) ==
    [k \in DOMAIN map \cup {key} |-> IF k = key THEN value ELSE map[k]]

\* remove: no effect when the key is absent.
Drop(map, key) == [k \in DOMAIN map \ {key} |-> map[k]]

\* The maps from some of the keys to values.
MapsFrom(keys, values) == UNION {[some -> values] : some \in SUBSET keys}
=============================================================================
