-------------------------------- MODULE Maps --------------------------------
(***************************************************************************)
(* Go maps as functions whose domain is the set of keys present.  A map    *)
(* keyed by K with values in T is any f with IsMap(f, K, T).               *)
(***************************************************************************)
EXTENDS Functions

\* The map with no keys: make(map[K]T).
EmptyMap == [k \in {} |-> k]

\* m[k] = v, for a key that may or may not be present.
Put(m, k, v) == [x \in DOMAIN m \cup {k} |-> IF x = k THEN v ELSE m[x]]

\* delete(m, k).
Drop(m, k) == Restrict(m, DOMAIN m \ {k})

\* f is a map with keys in K and values in T.
IsMap(f, K, T) == DOMAIN f \subseteq K /\ f \in [DOMAIN f -> T]
=============================================================================
