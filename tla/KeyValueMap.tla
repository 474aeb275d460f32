----------------------------- MODULE KeyValueMap -----------------------------
(***************************************************************************)
(* What a map promises: an association of values to keys, in which a value *)
(* is written under one key at a time, or deleted with its key.            *)
(***************************************************************************)
CONSTANTS Key, Value

VARIABLE map

Bind(k, v) == map' = [x \in DOMAIN map \cup {k} |->
                          IF x = k THEN v ELSE map[x]]

Delete(k) == map' = [x \in DOMAIN map \ {k} |-> map[x]]

Init == map = [x \in {} |-> x]

Next == \E k \in Key : Delete(k) \/ \E v \in Value : Bind(k, v)

Spec == Init /\ [][Next]_map
=============================================================================
