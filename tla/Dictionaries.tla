------------------------------ MODULE Dictionaries ------------------------------
(* A Python dictionary as a function. *)

\* d[k] = v, of a key that is there or not.
Put(d, k, v) == [x \in DOMAIN d \cup {k} |-> IF x = k THEN v ELSE d[x]]
=============================================================================
