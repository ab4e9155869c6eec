------------------------------ MODULE OvsdbRuns ------------------------------
(***************************************************************************)
(* Transactions as a whole: what a list of operations makes of a database  *)
(* that nothing else touches.  A database maps tables to rows; half way, a *)
(* transaction is a database and the names of the rows it has inserted.    *)
(***************************************************************************)
EXTENDS OvsdbRows

Begun(d) == [db |-> d, named |-> EmptyMap]

\* A table after an operation that inserts its row as u.
Effect(rows, op, u) ==
    CASE op.op = "insert" -> Inserted(rows, u, op.row)
      [] op.op = "update" -> Updated(rows, op.where, op.row)
      [] op.op = "delete" -> Deleted(rows, op.where)
      [] op.op = "mutate" -> Mutated(rows, Matching(rows, op.where),
                                     op.mutations)
      [] op.op = "select" -> rows

\* The names after an operation that inserts its row as u.
Named(named, op, u) ==
    IF op.op = "insert" /\ op.name # "" THEN Put(named, op.name, u) ELSE named

Performed(s, op, u) ==
    [db |-> [s.db EXCEPT ![op.table] = Effect(@, Resolve(op, s.named), u)],
     named |-> Named(s.named, op, u)]

\* The operation succeeds on the table it names.
Succeeds(s, op, u) ==
    LET rows == s.db[op.table]
    IN  /\ op.op \in Operations
        /\ op.table \in DOMAIN s.db
        /\ op.op = "insert" => u \notin DOMAIN rows
        /\ op.op = "mutate" =>
              \A x \in Matching(rows, Resolve(op, s.named).where) :
                  ~Fails(rows[x], op.mutations)

\* After the first k operations of a transaction on d.
Run(d, ops, ids, k) ==
    LET f[i \in 0..Len(ops)] ==
            IF i = 0 THEN Begun(d) ELSE Performed(f[i - 1], ops[i], ids[i])
    IN  f[k]
=============================================================================
