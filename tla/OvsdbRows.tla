----------------------------- MODULE OvsdbRows -----------------------------
(***************************************************************************)
(* The rows of ovn-sim's OVSDB tables (ovn-sim/internal/ovsdb/store.go):   *)
(* where conditions, mutations and what an operation does to one table.    *)
(*                                                                         *)
(* A value is a pair of a tag and a content, as in the protocol:           *)
(* <<"num", 3>>, <<"uuid", u>>, <<"named-uuid", name>> or a set written as *)
(* <<"set", <<v1, v2>>>>.  A row is a map from columns to values, "_uuid"  *)
(* among them, and a table a map from UUIDs to rows.  Numbers are          *)
(* integers, Booleans are 0 and 1; strings and fractions are left out.     *)
(***************************************************************************)
EXTENDS Integers, Sequences, Maps

Operations == {"insert", "select", "update", "delete", "mutate"}

IsNum(v) == v[1] = "num"
IsSet(v) == v[1] = "set"

Elements(v) == {v[2][i] : i \in DOMAIN v[2]}

\* A set includes its elements, any other value itself.
SetIncludes(actual, expected) ==
    IF IsSet(actual) THEN expected \in Elements(actual) ELSE actual = expected

\* Only the order of numbers is modelled; that of other values is the one of
\* their printed forms, which no condition of the model asks for.
Less(a, b) == IsNum(a) /\ IsNum(b) /\ a[2] < b[2]

EvalCondition(actual, fn, expected) ==
    \/ fn = "==" /\ actual = expected
    \/ fn = "!=" /\ actual # expected
    \/ fn = "<"  /\ Less(actual, expected)
    \/ fn = ">"  /\ Less(expected, actual)
    \/ fn = "<=" /\ (Less(actual, expected) \/ actual = expected)
    \/ fn = ">=" /\ (Less(expected, actual) \/ actual = expected)
    \/ fn = "includes" /\ SetIncludes(actual, expected)
    \/ fn = "excludes" /\ ~SetIncludes(actual, expected)

\* A where clause is a set of conditions <<column, function, value>>; only
\* "!=" holds of a column the row does not have.
MatchWhere(row, where) ==
    \A c \in where : IF c[1] \in DOMAIN row
                     THEN EvalCondition(row[c[1]], c[2], c[3])
                     ELSE c[2] = "!="

Matching(rows, where) == {u \in DOMAIN rows : MatchWhere(rows[u], where)}

-----------------------------------------------------------------------------
(* What Insert, Update and Delete make of a table.                         *)

\* Mutant: keeps the row as the client wrote it.
InsertedAsGiven(rows, u, values) == Put(rows, u, values)

Inserted(rows, u, values) == Put(rows, u, Put(values, "_uuid", <<"uuid", u>>))

Merge(row, values) ==
    [c \in DOMAIN row \cup DOMAIN values |->
        IF c \in DOMAIN values THEN values[c] ELSE row[c]]

Updated(rows, where, values) ==
    [u \in DOMAIN rows |-> IF MatchWhere(rows[u], where)
                           THEN Merge(rows[u], values) ELSE rows[u]]

Deleted(rows, where) == Restrict(rows, DOMAIN rows \ Matching(rows, where))

-----------------------------------------------------------------------------
(* Mutations <<column, operator, value>>.                                  *)

Numeric(row, m) == m[1] \in DOMAIN row /\ IsNum(row[m[1]]) /\ IsNum(m[3])

\* Only numbers are multiplied and divided, and not divided by zero.
MutationFails(row, m) ==
    \/ m[2] \notin {"+=", "-=", "*=", "/=", "%=", "insert", "delete"}
    \/ m[2] \in {"*=", "/=", "%="} /\ ~Numeric(row, m)
    \/ m[2] \in {"/=", "%="} /\ m[3][2] = 0

\* The value of a column with one more element; it need not be a set yet.
SetInsert(row, col, v) ==
    IF col \notin DOMAIN row THEN <<"set", <<v>>>>
    ELSE IF IsSet(row[col]) THEN <<"set", Append(row[col][2], v)>>
    ELSE <<"set", <<row[col], v>>>>

SetDelete(current, v) == <<"set", SelectSeq(current[2], LAMBDA e : e # v)>>

\* The column m writes, or the row as it is when there is nothing to delete
\* from.  Quotients and remainders are those of natural numbers that divide.
ApplyMutation(row, m) ==
    LET col == m[1]
        n == row[col][2]
        Num(k) == Put(row, col, <<"num", k>>)
    IN  CASE m[2] = "+=" /\ Numeric(row, m) -> Num(n + m[3][2])
          [] m[2] = "-=" /\ Numeric(row, m) -> Num(n - m[3][2])
          [] m[2] = "*=" -> Num(n * m[3][2])
          [] m[2] = "/=" -> Num(n \div m[3][2])
          [] m[2] = "%=" -> Num(n % m[3][2])
          [] m[2] = "insert" \/ (m[2] = "+=" /\ ~Numeric(row, m)) ->
                 Put(row, col, SetInsert(row, col, m[3]))
          [] m[2] = "delete" \/ (m[2] = "-=" /\ ~Numeric(row, m)) ->
                 IF col \in DOMAIN row /\ IsSet(row[col])
                 THEN Put(row, col, SetDelete(row[col], m[3])) ELSE row

\* A row after the first k mutations of a list.
After(row, ms, k) ==
    LET f[i \in 0..Len(ms)] ==
            IF i = 0 THEN row ELSE ApplyMutation(f[i - 1], ms[i])
    IN  f[k]

\* The k-th mutation of the list is the first that fails.
FailsAt(row, ms, k) ==
    /\ MutationFails(After(row, ms, k - 1), ms[k])
    /\ \A i \in 1..(k - 1) : ~MutationFails(After(row, ms, i - 1), ms[i])

Fails(row, ms) == \E k \in DOMAIN ms : FailsAt(row, ms, k)

\* The rows us of a table after the whole list.
Mutated(rows, us, ms) ==
    [u \in DOMAIN rows |-> IF u \in us THEN After(rows[u], ms, Len(ms))
                                       ELSE rows[u]]

\* What Mutate can leave behind when it meets a row that fails: Go visits
\* the rows in any order, has done those before and stops inside that row.
HalfMutated(rows, where, ms) ==
    LET hit == Matching(rows, where)
        good == {u \in hit : ~Fails(rows[u], ms)}
    IN  UNION {{[Mutated(rows, done, ms) EXCEPT ![bad] =
                     After(rows[bad], ms, k - 1)] :
                    done \in SUBSET good,
                    k \in {i \in DOMAIN ms : FailsAt(rows[bad], ms, i)}} :
                  bad \in hit}

-----------------------------------------------------------------------------
(* Names of rows inserted by the same transaction.                         *)

ResolveAtom(v, named) ==
    IF v[1] = "named-uuid" /\ v[2] \in DOMAIN named
    THEN <<"uuid", named[v[2]]>> ELSE v

ResolveValue(v, named) ==
    IF IsSet(v) THEN <<"set", [i \in DOMAIN v[2] |->
                                  ResolveAtom(v[2][i], named)]>>
    ELSE ResolveAtom(v, named)

\* Rows and conditions are resolved, mutations are not.
Resolve(op, named) ==
    [op EXCEPT !.row = [c \in DOMAIN @ |-> ResolveValue(@[c], named)],
               !.where = {<<c[1], c[2], ResolveValue(c[3], named)>> : c \in @}]

\* The columns a monitor asks for; none stands for all.
FilterColumns(row, columns) ==
    IF columns = {} THEN row
    ELSE Restrict(row, DOMAIN row \cap (columns \cup {"_uuid"}))
=============================================================================
