--------------------------- MODULE AtomicDatabase ---------------------------
(***************************************************************************)
(* What ovn-sim promises of its database: a transaction does all of its    *)
(* operations at once, or none of them.                                    *)
(***************************************************************************)
EXTENDS OvsdbRuns

CONSTANTS
    Tables,    \* the tables of the schema
    Uuids,     \* row ids
    Requests   \* transactions: sequences of operations

VARIABLE db    \* table -> rows

Init == db = [t \in Tables |-> EmptyMap]

Commit(ops, ids) ==
    /\ \A k \in DOMAIN ops :
          Succeeds(Run(db, ops, ids, k - 1), ops[k], ids[k])
    /\ db' = Run(db, ops, ids, Len(ops)).db

Next ==
    /\ db' # db
    /\ \E ops \in Requests : \E ids \in [DOMAIN ops -> Uuids] :
           Commit(ops, ids)

Spec == Init /\ [][Next]_db
=============================================================================
