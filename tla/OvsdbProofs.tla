---------------------------- MODULE OvsdbProofs ----------------------------
(***************************************************************************)
(* The OVSDB server under clients that keep out of each other's way:       *)
(* types, the convergence of monitors and the atomicity of transactions,   *)
(* for any tables, clients, transactions and monitor requests.             *)
(***************************************************************************)
EXTENDS OvsdbTables, OvsdbRuns, MapProofs, FiniteSetTheorems, SequenceTheorems,
        WellFoundedInduction

-----------------------------------------------------------------------------
(***************************************************************************)
(* The invariant.  Its parts take the state they speak of as parameters.   *)
(***************************************************************************)
IsSeq(s) == \E S : s \in Seq(S)

IsFunction(f) == f = [x \in DOMAIN f |-> f[x]]

RightOps(ops) ==
    /\ Len(ops) \in Nat /\ Len(ops) > 0 /\ DOMAIN ops = 1..Len(ops)
    /\ \A k \in DOMAIN ops : WellFormed(ops[k])

HasId(row, u) == "_uuid" \in DOMAIN row /\ row["_uuid"] = <<"uuid", u>>

\* A change is of a table the transaction names and carries its row.
RightChange(ch, ts) ==
    /\ ch.table \in ts /\ ch.table \in Tables /\ ch.uuid \in Uuids
    /\ ch.gone \in BOOLEAN
    /\ ~ch.gone => HasId(ch.row, ch.uuid)

\* The table a writer is at.
TableOf(w) == w.ops[w.k].table

OpOf(w) == Resolve(w.ops[w.k], w.named)

\* Where a transaction that may fail is not through, it has copies of all
\* its tables, or of those it is past.
SnapsWhole(w) ==
    /\ DOMAIN w.snaps \subseteq TablesOf(w.ops) \cap Tables
    /\ \A t \in DOMAIN w.snaps : Keyed(w.snaps[t])
    /\ w.pc = "snapshot" => \A i \in 1..(w.k - 1) :
          w.ops[i].table \in Tables => w.ops[i].table \in DOMAIN w.snaps
    /\ MayFail(w.ops) /\ w.pc # "snapshot" =>
          TablesOf(w.ops) \cap Tables \subseteq DOMAIN w.snaps

RightWriter(w) ==
    /\ DOMAIN w = {"ops", "k", "pc", "snaps", "named", "old", "changes",
                   "todo"}
    /\ w.pc \in Phases
    /\ RightOps(w.ops)
    /\ w.k \in Nat
    /\ w.pc # "notify" => w.k \in DOMAIN w.ops
    /\ IsSeq(w.changes)
    /\ \A i \in DOMAIN w.changes : RightChange(w.changes[i], TablesOf(w.ops))
    /\ w.pc = "snapshot" => Len(w.changes) = 0
    /\ w.pc \in {"write", "reread"} => /\ TableOf(w) \in Tables
                                       /\ w.ops[w.k].op \in Operations
    /\ w.pc = "rollback" => MayFail(w.ops)
    /\ w.todo # {} => w.pc = "notify" /\ Len(w.changes) > 0
    /\ SnapsWhole(w)

\* The rows read for an operation are those it is going to write, or has
\* written and not yet read again.
RightRows(w, rows) ==
    /\ w.pc = "write" => DOMAIN w.old = Matching(rows, OpOf(w).where)
    /\ w.pc = "reread" => DOMAIN w.old \subseteq DOMAIN rows

\* The row has been written and its change is not listed yet, or the writer
\* has a change of it after the n-th.
Unlisted(w, t, u) ==
    \/ w.pc = "reread" /\ TableOf(w) = t /\ u \in DOMAIN w.old
    \/ w.pc = "rollback" /\ t \in TablesOf(w.ops)

ChangeOf(ch, t, u) == ch.table = t /\ ch.uuid = u

Pending(w, n, t, u) ==
    \/ Unlisted(w, t, u)
    \/ \E i \in DOMAIN w.changes : i > n /\ ChangeOf(w.changes[i], t, u)

\* Whom the writer has told of its first change already.
Past(w, m) == IF w.todo # {} /\ m \notin w.todo THEN 1 ELSE 0

\* The last change of a row that is listed shows it as it is.
ChangeAgrees(ch, rows) ==
    IF ch.gone THEN ch.uuid \notin DOMAIN rows
    ELSE ch.uuid \in DOMAIN rows /\ rows[ch.uuid] = ch.row

LastAgrees(w, tabs) ==
    \A i \in DOMAIN w.changes :
        LET ch == w.changes[i]
        IN  ~Pending(w, i, ch.table, ch.uuid) => ChangeAgrees(ch, tabs[ch.table])

RowAgrees(view, rows, columns, u) ==
    /\ u \in DOMAIN view <=> u \in DOMAIN rows
    /\ u \in DOMAIN rows => view[u] = FilterColumns(rows[u], columns)

\* The tables of a monitor whose initial rows have been read.
Shown(r) == IF r.refused THEN {} ELSE DOMAIN r.request \ r.left

RightMonitor(r) ==
    /\ DOMAIN r = {"request", "left", "view", "refused"}
    /\ r.refused \in BOOLEAN
    /\ ~r.refused => DOMAIN r.request \subseteq Tables
    /\ DOMAIN r.view = DOMAIN r.request
    /\ r.left \subseteq DOMAIN r.request
    /\ \A t \in DOMAIN r.view : IsFunction(r.view[t]) /\ Keyed(r.view[t])

\* A row of which nobody has a change in store looks like the one stored.
ViewAgrees(m, r, t, tabs, wr) ==
    \A u : (\A p \in DOMAIN wr : ~Pending(wr[p], Past(wr[p], m), t, u)) =>
               RowAgrees(r.view[t], tabs[t], r.request[t], u)

\* Monitors have seen nothing of a transaction that may still be undone.
NothingSeen(w, r) ==
    MayFail(w.ops) /\ w.pc # "notify" =>
        \A t \in Shown(r) \cap DOMAIN w.snaps : \A u :
            RowAgrees(r.view[t], w.snaps[t], r.request[t], u)

Disjoint(v, w) == TablesOf(v.ops) \cap TablesOf(w.ops) = {}

\* Who is about to be told of a change watches its table.
Watching(w, ms) ==
    \A m \in w.todo : /\ m \in DOMAIN ms
                      /\ w.changes[1].table \in DOMAIN ms[m].request

\* The initial rows of a table are not read while what may fail is at work.
Undisturbed(w, r) ==
    MayFail(w.ops) /\ r.left # {} => DOMAIN r.request \cap TablesOf(w.ops) = {}

TablesInv ==
    /\ DOMAIN tables = Tables
    /\ \A t \in Tables : Keyed(tables[t])
    /\ DOMAIN writers \subseteq Clients \cup PortCalls
    /\ \A p \in DOMAIN writers : RightWriter(writers[p])
    /\ \A p \in DOMAIN writers :
          /\ RightRows(writers[p], tables[TableOf(writers[p])])
          /\ LastAgrees(writers[p], tables)
          /\ Watching(writers[p], monitors)
    /\ \A p, q \in DOMAIN writers : p # q => Disjoint(writers[p], writers[q])
    /\ DOMAIN monitors \subseteq Clients \X MonitorIds
    /\ \A m \in DOMAIN monitors : RightMonitor(monitors[m])
    /\ \A m \in DOMAIN monitors : \A t \in Shown(monitors[m]) :
          ViewAgrees(m, monitors[m], t, tables, writers)
    /\ \A m \in DOMAIN monitors : \A p \in DOMAIN writers :
          /\ NothingSeen(writers[p], monitors[m])
          /\ Undisturbed(writers[p], monitors[m])

-----------------------------------------------------------------------------
(* What mutations make of a row.                                           *)

\* g[i] is the row after the first i mutations.
IsRun(g, row, ms, n) ==
    g = [i \in 0..n |-> IF i = 0 THEN row ELSE ApplyMutation(g[i - 1], ms[i])]

\* Such a run exists for any row, list and length.
LEMMA AfterExists ==
    ASSUME NEW row, NEW ms, NEW n \in Nat
    PROVE  \E g : IsRun(g, row, ms, n)
<1> DEFINE T == {k \in Nat : ~\E g : IsRun(g, row, ms, k)}
<1>1. SUFFICES ASSUME T # {} PROVE FALSE
  OBVIOUS
<1>2. PICK k \in T : \A m \in T : k <= m
  <2>1. T \in SUBSET Nat
    OBVIOUS
  <2> HIDE DEF T
  <2> QED BY <1>1, <2>1, LeastNumber
<1>3. k # 0
  <2>1. ASSUME k = 0 PROVE FALSE
   <3> DEFINE g == [i \in 0..0 |-> row]
   <3>1. IsRun(g, row, ms, 0)
     BY DEF IsRun
   <3> QED BY <2>1, <3>1
  <2> QED BY <2>1
<1>4. k \in Nat /\ ~\E g : IsRun(g, row, ms, k)
  OBVIOUS
<1>5. k - 1 \in Nat /\ ~(k <= k - 1)
  BY <1>3, <1>4
<1>6. PICK g : IsRun(g, row, ms, k - 1)
  BY <1>2, <1>5
<1>7. /\ \A i \in 0..(k - 1) :
            g[i] = IF i = 0 THEN row ELSE ApplyMutation(g[i - 1], ms[i])
  BY <1>5, <1>6 DEF IsRun
<1> DEFINE h == [i \in 0..k |-> IF i = k THEN ApplyMutation(g[k - 1], ms[k]) ELSE g[i]]
<1>8. \A i \in 0..k : h[i] = IF i = 0 THEN row ELSE ApplyMutation(h[i - 1], ms[i])
  <2> SUFFICES ASSUME NEW i \in 0..k
       PROVE h[i] = IF i = 0 THEN row ELSE ApplyMutation(h[i - 1], ms[i])
    OBVIOUS
  <2>1. CASE i = k
    <3>1. h[i - 1] = g[k - 1]
      BY <1>3, <1>4, <2>1
    <3> QED BY <1>3, <1>4, <2>1, <3>1
  <2>2. CASE i # k
    <3>1. h[i] = g[i] /\ i \in 0..(k-1)
      BY <1>4, <2>2
    <3>2. i # 0 => h[i - 1] = g[i - 1]
      BY <1>4, <2>2
    <3> QED BY <1>7, <3>1, <3>2
  <2> QED BY <2>1, <2>2
<1>9. IsRun(h, row, ms, k)
  BY <1>8 DEF IsRun
<1> QED BY <1>4, <1>9

\* A row after k mutations is the row after k - 1, mutated once more.
LEMMA AfterUnfolds ==
    ASSUME NEW row, NEW ms, Len(ms) \in Nat
    PROVE  /\ After(row, ms, 0) = row
           /\ \A k \in 1..Len(ms) :
                 After(row, ms, k) =
                     ApplyMutation(After(row, ms, k - 1), ms[k])
<1> DEFINE f[i \in 0..Len(ms)] ==
            IF i = 0 THEN row ELSE ApplyMutation(f[i - 1], ms[i])
<1>1. PICK n \in Nat : n = Len(ms)
  OBVIOUS
<1>2. \E g : IsRun(g, row, ms, n)
  BY AfterExists
<1>3. f = [i \in 0..n |-> IF i = 0 THEN row ELSE ApplyMutation(f[i - 1], ms[i])]
  BY <1>1, <1>2 DEF IsRun
<1>4. PICK g : g = f
  OBVIOUS
<1>5. g = [i \in 0..n |-> IF i = 0 THEN row ELSE ApplyMutation(g[i - 1], ms[i])]
  BY <1>3, <1>4
<1>6. \A k : After(row, ms, k) = g[k]
  BY <1>4 DEF After
<1> HIDE DEF f
<1>7. \A i \in 0..n :
         g[i] = IF i = 0 THEN row ELSE ApplyMutation(g[i - 1], ms[i])
  BY <1>5
<1>8. g[0] = row
  BY <1>7
<1>9. \A k \in 1..n : g[k] = ApplyMutation(g[k - 1], ms[k])
  BY <1>7
<1> QED BY <1>1, <1>6, <1>8, <1>9

\* A mutation of another column keeps the id (ApplyMutation).
LEMMA ApplyKeepsId ==
    ASSUME NEW row, NEW u, NEW m, HasId(row, u), m[1] # "_uuid",
           ~MutationFails(row, m)
    PROVE  HasId(ApplyMutation(row, m), u)
<1>1. \A v : HasId(Put(row, m[1], v), u)
  BY DEF HasId, Put
<1>2. m[2] \in {"+=", "-=", "*=", "/=", "%=", "insert", "delete"}
  BY DEF MutationFails
<1> QED BY <1>1, <1>2 DEF ApplyMutation

\* The mutations of a list that do not fail leave the id of a row alone.
LEMMA AfterKeepsId ==
    ASSUME NEW row, NEW u, HasId(row, u), NEW ms, Len(ms) \in Nat,
           DOMAIN ms = 1..Len(ms), \A i \in DOMAIN ms : ms[i][1] # "_uuid",
           NEW n \in 0..Len(ms),
           \A i \in 1..n : ~MutationFails(After(row, ms, i - 1), ms[i])
    PROVE  HasId(After(row, ms, n), u)
<1> DEFINE T == {k \in 0..n : ~HasId(After(row, ms, k), u)}
<1>1. SUFFICES ASSUME T # {} PROVE FALSE
  OBVIOUS
<1>2. PICK k \in T : \A m \in T : k <= m
  <2>1. T \in SUBSET Nat
    OBVIOUS
  <2> HIDE DEF T
  <2> QED BY <1>1, <2>1, LeastNumber
<1>3. After(row, ms, 0) = row
  BY AfterUnfolds
<1>4. k # 0
  BY <1>2, <1>3
<1>5. k - 1 \in 0..n /\ k \in 1..n /\ k \in DOMAIN ms
  BY <1>2, <1>4
<1>6. HasId(After(row, ms, k - 1), u)
  BY <1>2, <1>5
<1>7. HasId(ApplyMutation(After(row, ms, k - 1), ms[k]), u)
  BY <1>5, <1>6, ApplyKeepsId
<1>8. After(row, ms, k) = ApplyMutation(After(row, ms, k - 1), ms[k])
  BY <1>5, AfterUnfolds
<1> QED BY <1>2, <1>7, <1>8

\* If no mutation is the first to fail, none fails.
LEMMA NoneFails ==
    ASSUME NEW row, NEW ms, Len(ms) \in Nat, DOMAIN ms = 1..Len(ms),
           ~Fails(row, ms)
    PROVE  \A i \in 1..Len(ms) : ~MutationFails(After(row, ms, i - 1), ms[i])
<1> DEFINE T == {i \in 1..Len(ms) : MutationFails(After(row, ms, i - 1), ms[i])}
<1>1. SUFFICES ASSUME T # {} PROVE FALSE
  OBVIOUS
<1>2. PICK k \in T : \A m \in T : k <= m
  <2>1. T \in SUBSET Nat
    OBVIOUS
  <2> HIDE DEF T
  <2> QED BY <1>1, <2>1, LeastNumber
<1>3. \A i \in 1..(k - 1) : i \in 1..Len(ms) /\ i \notin T
  BY <1>2
<1>4. FailsAt(row, ms, k)
  BY <1>2, <1>3 DEF FailsAt
<1> QED BY <1>2, <1>4 DEF Fails

-----------------------------------------------------------------------------
(* What the operations make of a table, and of its ids.                    *)

\* Resolving names leaves the rest of an operation alone.
LEMMA ResolveKeeps ==
    ASSUME NEW op, NEW named, WellFormed(op)
    PROVE  LET o == Resolve(op, named)
           IN  /\ o.op = op.op /\ o.table = op.table /\ o.name = op.name
               /\ o.mutations = op.mutations
               /\ DOMAIN o.row = DOMAIN op.row
  BY DEF Resolve, WellFormed

\* Keyed in terms of the rows.
LEMMA KeyedRows == \A rows : Keyed(rows) <=>
    DOMAIN rows \subseteq Uuids /\ \A u \in DOMAIN rows : HasId(rows[u], u)
  BY DEF Keyed, HasId

\* A table without rows is keyed.
LEMMA NoRowsKeyed == Keyed(EmptyMap)
  BY DEF Keyed, EmptyMap

\* The columns a client asks for include the id.
LEMMA FilterKeepsId ==
    ASSUME NEW row, NEW u, NEW columns, HasId(row, u)
    PROVE  HasId(FilterColumns(row, columns), u)
  BY DEF HasId, FilterColumns, Restrict

\* What Insert makes of a table.
LEMMA InsertedKeyed ==
    ASSUME NEW rows, Keyed(rows), NEW u \in Uuids, NEW values
    PROVE  /\ Keyed(Inserted(rows, u, values))
           /\ DOMAIN Inserted(rows, u, values) = DOMAIN rows \cup {u}
           /\ \A v \in DOMAIN rows : v # u => Inserted(rows, u, values)[v] = rows[v]
<1>1. HasId(Put(values, "_uuid", <<"uuid", u>>), u)
  BY DEF HasId, Put
<1>2. /\ DOMAIN Inserted(rows, u, values) = DOMAIN rows \cup {u}
      /\ Inserted(rows, u, values)[u] = Put(values, "_uuid", <<"uuid", u>>)
      /\ \A v \in DOMAIN rows : v # u => Inserted(rows, u, values)[v] = rows[v]
  <2> DEFINE r == Put(values, "_uuid", <<"uuid", u>>)
  <2> HIDE DEF r
  <2>1. /\ DOMAIN Put(rows, u, r) = DOMAIN rows \cup {u}
        /\ Put(rows, u, r)[u] = r
        /\ \A v \in DOMAIN rows : v # u => Put(rows, u, r)[v] = rows[v]
    BY DEF Put
  <2> QED BY <2>1 DEF Inserted, r
<1>3. \A v \in DOMAIN Inserted(rows, u, values) : HasId(Inserted(rows, u, values)[v], v)
  BY <1>1, <1>2, KeyedRows
<1> QED BY <1>2, <1>3, KeyedRows

\* What Update makes of a table: it changes only the rows that match.
LEMMA UpdatedKeyed ==
    ASSUME NEW rows, Keyed(rows), NEW where, NEW values, "_uuid" \notin DOMAIN values
    PROVE  /\ Keyed(Updated(rows, where, values))
           /\ DOMAIN Updated(rows, where, values) = DOMAIN rows
           /\ \A u \in DOMAIN rows \ Matching(rows, where) :
                 Updated(rows, where, values)[u] = rows[u]
<1>1. \A u \in DOMAIN rows : HasId(Merge(rows[u], values), u)
  BY DEF Keyed, HasId, Merge
<1>2. DOMAIN Updated(rows, where, values) = DOMAIN rows
  BY DEF Updated
<1>3. \A u \in DOMAIN rows : Updated(rows, where, values)[u] =
          IF MatchWhere(rows[u], where) THEN Merge(rows[u], values) ELSE rows[u]
  BY DEF Updated
<1>4. \A u \in DOMAIN rows : HasId(Updated(rows, where, values)[u], u)
  BY <1>1, <1>3, KeyedRows
<1>5. Keyed(Updated(rows, where, values))
  BY <1>2, <1>4, KeyedRows
<1> QED BY <1>2, <1>3, <1>5 DEF Matching

\* What Delete makes of a table.
LEMMA DeletedKeyed ==
    ASSUME NEW rows, Keyed(rows), NEW where
    PROVE  /\ Keyed(Deleted(rows, where))
           /\ DOMAIN Deleted(rows, where) = DOMAIN rows \ Matching(rows, where)
           /\ \A u \in DOMAIN rows \ Matching(rows, where) :
                 Deleted(rows, where)[u] = rows[u]
<1>1. /\ DOMAIN Deleted(rows, where) = DOMAIN rows \ Matching(rows, where)
      /\ \A u \in DOMAIN rows \ Matching(rows, where) :
                 Deleted(rows, where)[u] = rows[u]
  BY DEF Deleted, Restrict
<1>2. Keyed(Deleted(rows, where))
  BY <1>1, KeyedRows
<1> QED BY <1>1, <1>2

\* What Mutate makes of a table.
LEMMA MutatedKeyed ==
    ASSUME NEW rows, Keyed(rows), NEW us, NEW op, WellFormed(op),
           \A u \in us : ~Fails(rows[u], op.mutations)
    PROVE  /\ Keyed(Mutated(rows, us, op.mutations))
           /\ DOMAIN Mutated(rows, us, op.mutations) = DOMAIN rows
           /\ \A u \in DOMAIN rows \ us :
                 Mutated(rows, us, op.mutations)[u] = rows[u]
<1> DEFINE ms == op.mutations
<1>1. /\ Len(ms) \in Nat /\ DOMAIN ms = 1..Len(ms)
      /\ \A i \in DOMAIN ms : ms[i][1] # "_uuid"
  BY DEF WellFormed
<1> HIDE DEF ms
<1>2. \A u \in DOMAIN rows \cap us : HasId(After(rows[u], ms, Len(ms)), u)
  <2> SUFFICES ASSUME NEW u \in DOMAIN rows, u \in us
               PROVE  HasId(After(rows[u], ms, Len(ms)), u)
    OBVIOUS
  <2>1. HasId(rows[u], u)
    BY KeyedRows
  <2>2. ~Fails(rows[u], ms)
    BY DEF ms
  <2>3. \A i \in 1..Len(ms) : ~MutationFails(After(rows[u], ms, i - 1), ms[i])
    BY <1>1, <2>2, NoneFails
  <2>4. Len(ms) \in 0..Len(ms)
    BY <1>1
  <2> QED BY <1>1, <2>1, <2>3, <2>4, AfterKeepsId
<1>3. /\ DOMAIN Mutated(rows, us, ms) = DOMAIN rows
      /\ \A u \in DOMAIN rows : Mutated(rows, us, ms)[u] =
             IF u \in us THEN After(rows[u], ms, Len(ms)) ELSE rows[u]
  BY DEF Mutated
<1>4. \A u \in DOMAIN rows : HasId(Mutated(rows, us, ms)[u], u)
  BY <1>2, <1>3, KeyedRows
<1>5. Keyed(Mutated(rows, us, ms))
  BY <1>3, <1>4, KeyedRows
<1> QED BY <1>3, <1>5 DEF ms

\* A mutate that fails half way changes rows, and none of their ids.
LEMMA HalfMutatedKeyed ==
    ASSUME NEW rows, Keyed(rows), NEW where, NEW op, WellFormed(op),
           NEW half \in HalfMutated(rows, where, op.mutations)
    PROVE  Keyed(half)
<1> DEFINE ms == op.mutations
<1>1. /\ Len(ms) \in Nat /\ DOMAIN ms = 1..Len(ms)
      /\ \A i \in DOMAIN ms : ms[i][1] # "_uuid"
  BY DEF WellFormed
<1> HIDE DEF ms
<1> DEFINE good == {u \in Matching(rows, where) : ~Fails(rows[u], ms)}
<1>2. half \in HalfMutated(rows, where, ms)
  BY DEF ms
<1>3. PICK bad \in Matching(rows, where), done \in SUBSET good,
           k \in DOMAIN ms :
          /\ FailsAt(rows[bad], ms, k)
          /\ half = [Mutated(rows, done, ms) EXCEPT
                        ![bad] = After(rows[bad], ms, k - 1)]
  BY <1>2 DEF HalfMutated
<1>4. /\ Keyed(Mutated(rows, done, ms))
      /\ DOMAIN Mutated(rows, done, ms) = DOMAIN rows
  BY MutatedKeyed DEF ms
<1>5. HasId(rows[bad], bad) /\ bad \in DOMAIN rows
  BY KeyedRows DEF Matching
<1>6. k - 1 \in 0..Len(ms)
  BY <1>1
<1>7. HasId(After(rows[bad], ms, k - 1), bad)
  BY <1>1, <1>3, <1>5, <1>6, AfterKeepsId DEF FailsAt
<1>8. /\ DOMAIN half = DOMAIN rows
      /\ half[bad] = After(rows[bad], ms, k - 1)
      /\ \A u \in DOMAIN rows : u # bad => half[u] = Mutated(rows, done, ms)[u]
  BY <1>3, <1>4, <1>5
<1>9. \A u \in DOMAIN rows : HasId(half[u], u)
  BY <1>4, <1>7, <1>8, KeyedRows
<1> QED BY <1>4, <1>8, <1>9, KeyedRows

-----------------------------------------------------------------------------
(* Lists of changes.                                                       *)

\* The provers know sequences by their length and domain.
LEMMA SeqIsList ==
    ASSUME NEW s, IsSeq(s)
    PROVE  /\ Len(s) \in Nat /\ DOMAIN s = 1..Len(s)
           /\ s = <<>> <=> Len(s) = 0
<1>1. PICK S : s \in Seq(S)
  BY DEF IsSeq
<1>2. Len(s) \in Nat /\ DOMAIN s = 1..Len(s)
  BY <1>1, LenProperties
<1>3. /\ s # <<>> => Len(s) # 0
      /\ Len(<<>>) = 0
  BY <1>1, EmptySeq
<1> QED BY <1>2, <1>3

\* No changes.
LEMMA EmptyList == IsSeq(<<>>) /\ Len(<<>>) = 0 /\ DOMAIN <<>> = {}
<1>1. <<>> \in Seq({})
  BY EmptySeq
<1> QED BY <1>1 DEF IsSeq

\* One change more.
LEMMA AppendList ==
    ASSUME NEW s, IsSeq(s), NEW e
    PROVE  /\ IsSeq(Append(s, e))
           /\ Len(Append(s, e)) = Len(s) + 1
           /\ DOMAIN Append(s, e) = 1..(Len(s) + 1)
           /\ \A i \in DOMAIN s : Append(s, e)[i] = s[i]
           /\ Append(s, e)[Len(s) + 1] = e
<1>1. PICK S : s \in Seq(S)
  BY DEF IsSeq
<1>2. PICK T : T = S \cup {e}
  OBVIOUS
<1>3. s \in Seq(T) /\ e \in T
  BY <1>1, <1>2, SeqMonotonic
<1>4. Append(s, e) \in Seq(T)
  BY <1>3
<1>5. /\ Len(Append(s, e)) = Len(s) + 1
      /\ \A i \in 1..Len(s) : Append(s, e)[i] = s[i]
      /\ Append(s, e)[Len(s) + 1] = e
  BY <1>3
<1>6. Len(s) \in Nat /\ DOMAIN s = 1..Len(s)
  BY <1>3, LenProperties
<1>7. DOMAIN Append(s, e) = 1..(Len(s) + 1)
  BY <1>4, <1>5, LenProperties
<1> QED BY <1>4, <1>5, <1>6, <1>7 DEF IsSeq

\* The changes after the first.
LEMMA TailList ==
    ASSUME NEW s, IsSeq(s), Len(s) > 0
    PROVE  /\ IsSeq(Tail(s))
           /\ Len(Tail(s)) = Len(s) - 1
           /\ DOMAIN Tail(s) = 1..(Len(s) - 1)
           /\ \A i \in DOMAIN Tail(s) : i + 1 \in DOMAIN s /\ Tail(s)[i] = s[i + 1]
           /\ Head(s) = s[1] /\ 1 \in DOMAIN s
<1>1. PICK S : s \in Seq(S)
  BY DEF IsSeq
<1>2. Len(s) \in Nat /\ DOMAIN s = 1..Len(s) /\ s # <<>>
  BY SeqIsList
<1>3. /\ Tail(s) \in Seq(S) /\ Len(Tail(s)) = Len(s) - 1
      /\ \A i \in 1..Len(Tail(s)) : Tail(s)[i] = s[i + 1]
  BY <1>1, <1>2, HeadTailProperties
<1>4. DOMAIN Tail(s) = 1..(Len(s) - 1)
  BY <1>3, LenProperties
<1>5. Head(s) = s[1]
  BY <1>1, <1>2
<1> QED BY <1>2, <1>3, <1>4, <1>5 DEF IsSeq

IsJoin(r, s, g) == r = s \o g

IsListOf(n, g) == DOMAIN g = 1..n /\ IsFunction(g)

\* The changes of a delete after those there are.
LEMMA ConcatList ==
    ASSUME NEW s, IsSeq(s), NEW g, NEW n \in Nat, IsListOf(n, g), NEW r,
           IsJoin(r, s, g)
    PROVE  /\ IsSeq(r)
           /\ DOMAIN r = 1..(Len(s) + n)
           /\ \A i \in DOMAIN s : r[i] = s[i]
           /\ \A i \in 1..n : r[Len(s) + i] = g[i]
<1>1. PICK S : s \in Seq(S)
  BY DEF IsSeq
<1>2. PICK T : T = S \cup {g[i] : i \in 1..n}
  OBVIOUS
<1>3. s \in Seq(T)
  BY <1>1, <1>2, SeqMonotonic
<1>4. g \in [1..n -> T]
  BY <1>2 DEF IsFunction, IsListOf
<1>5. g \in Seq(T)
  BY <1>4, SeqDef
<1>6. Len(g) = n
  BY <1>4, <1>5, LenProperties
<1>7. /\ s \o g \in Seq(T)
      /\ Len(s \o g) = Len(s) + n
      /\ \A i \in 1..Len(s) + n :
            (s \o g)[i] = IF i <= Len(s) THEN s[i] ELSE g[i - Len(s)]
  BY <1>3, <1>5, <1>6, ConcatProperties
<1>8. Len(s) \in Nat /\ DOMAIN s = 1..Len(s)
  BY <1>3, LenProperties
<1>9. DOMAIN (s \o g) = 1..(Len(s) + n)
  BY <1>7, LenProperties
<1>10. \A i \in DOMAIN s : (s \o g)[i] = s[i]
  BY <1>7, <1>8
<1>11. \A i \in 1..n : (s \o g)[Len(s) + i] = g[i]
  BY <1>7, <1>8
<1> QED BY <1>7, <1>9, <1>10, <1>11 DEF IsSeq, IsJoin

\* Every order of a finite set lists all its elements.
LEMMA OrdersListAll ==
    ASSUME NEW S, IsFiniteSet(S), NEW us \in SetToSeqs(S)
    PROVE  /\ Cardinality(S) \in Nat /\ DOMAIN us = 1..Cardinality(S)
           /\ \A i \in DOMAIN us : us[i] \in S
           /\ \A u \in S : \E i \in DOMAIN us : us[i] = u
<1>1. PICK n \in Nat : n = Cardinality(S)
  BY FS_CardinalityType
<1>2. us \in [1..n -> S] /\ \A i, j \in 1..n : i # j => us[i] # us[j]
  BY <1>1 DEF SetToSeqs
<1>3. us \in Injection(1..n, S)
  BY <1>2 DEF Injection, IsInjective
<1>4. Cardinality(1..n) = n
  <2>1. 1 \in Int /\ n \in Int
    OBVIOUS
  <2>2. Cardinality(1..n) = IF 1 > n THEN 0 ELSE n - 1 + 1
    BY <2>1, FS_Interval
  <2> QED BY <2>2
<1>5. us \in Surjection(1..n, S)
  BY <1>1, <1>3, <1>4, FS_Injection
<1> QED BY <1>1, <1>2, <1>5 DEF Surjection

-----------------------------------------------------------------------------
(***************************************************************************)
(* Frames: a writer concerns only the tables its operations name, and the  *)
(* others name none of them.                                               *)
(***************************************************************************)
TablesKept(ts, tabs, more) ==
    /\ DOMAIN more = Tables
    /\ \A t \in Tables : Keyed(more[t])
    /\ \A t \in Tables \ ts : more[t] = tabs[t]

MonitorKept(ts, r, s) ==
    /\ RightMonitor(s)
    /\ s.request = r.request /\ s.left = r.left /\ s.refused = r.refused
    /\ \A t \in DOMAIN r.request \ ts : s.view[t] = r.view[t]

\* What the monitor shows of the writer's tables it will correct.
Informed(m, r, w, tabs) ==
    \A t \in Shown(r) \cap TablesOf(w.ops) : \A u :
        ~Pending(w, Past(w, m), t, u) =>
            RowAgrees(r.view[t], tabs[t], r.request[t], u)

\* A writer has changes in store for the tables it names only.
LEMMA PendingNamed ==
    ASSUME NEW w, RightWriter(w), NEW n, NEW t, NEW u, Pending(w, n, t, u)
    PROVE  t \in TablesOf(w.ops)
<1>1. CASE w.pc = "reread" /\ TableOf(w) = t
  BY <1>1 DEF RightWriter, TableOf, TablesOf
<1>2. CASE \E i \in DOMAIN w.changes : ChangeOf(w.changes[i], t, u)
  BY <1>2 DEF RightWriter, RightChange, ChangeOf
<1> QED BY <1>1, <1>2 DEF Pending, Unlisted

\* A writer whose tables are left alone stays right.
LEMMA RowsKept ==
    ASSUME NEW w, RightWriter(w), NEW tabs, NEW more,
           \A t \in TablesOf(w.ops) \cap Tables : more[t] = tabs[t],
           RightRows(w, tabs[TableOf(w)]), LastAgrees(w, tabs)
    PROVE  RightRows(w, more[TableOf(w)]) /\ LastAgrees(w, more)
<1>1. w.pc \in {"write", "reread"} => more[TableOf(w)] = tabs[TableOf(w)]
  BY DEF RightWriter, TableOf, TablesOf, Phases
<1>2. \A i \in DOMAIN w.changes :
          more[w.changes[i].table] = tabs[w.changes[i].table]
  BY DEF RightWriter, RightChange
<1>3. RightRows(w, more[TableOf(w)])
  BY <1>1 DEF RightRows
<1>4. LastAgrees(w, more)
  BY <1>2 DEF LastAgrees
<1> QED BY <1>3, <1>4

\* What a writer announces is all that keeps a monitor from its tables.
LEMMA OwnTables ==
    ASSUME TablesInv, NEW p \in DOMAIN writers, NEW m \in DOMAIN monitors
    PROVE  Informed(m, monitors[m], writers[p], tables)
<1> SUFFICES ASSUME NEW t \in Shown(monitors[m]) \cap TablesOf(writers[p].ops),
                    NEW u, ~Pending(writers[p], Past(writers[p], m), t, u)
             PROVE  RowAgrees(monitors[m].view[t], tables[t],
                              monitors[m].request[t], u)
  BY DEF Informed
<1>1. \A q \in DOMAIN writers : ~Pending(writers[q], Past(writers[q], m), t, u)
  <2> SUFFICES ASSUME NEW q \in DOMAIN writers, q # p
               PROVE  ~Pending(writers[q], Past(writers[q], m), t, u)
    OBVIOUS
  <2>1. RightWriter(writers[q]) /\ Disjoint(writers[p], writers[q])
    BY DEF TablesInv
  <2> QED BY <2>1, PendingNamed DEF Disjoint
<1>2. ViewAgrees(m, monitors[m], t, tables, writers)
  BY DEF TablesInv
<1> QED BY <1>1, <1>2 DEF ViewAgrees

\* A change of views shows the same tables.
LEMMA ShownKept ==
    ASSUME NEW ts, NEW r, NEW s, MonitorKept(ts, r, s)
    PROVE  Shown(s) = Shown(r) /\ \A t \in Shown(r) \ ts : s.view[t] = r.view[t]
  BY DEF MonitorKept, Shown

\* A step of one writer.
LEMMA WriterMoves ==
    ASSUME TablesInv, NEW p \in DOMAIN writers, NEW w,
           writers' = [writers EXCEPT ![p] = w],
           w.ops = writers[p].ops, RightWriter(w),
           TablesKept(TablesOf(w.ops), tables, tables'),
           RightRows(w, tables'[TableOf(w)]), LastAgrees(w, tables'),
           Watching(w, monitors),
           DOMAIN monitors' = DOMAIN monitors,
           \A m \in DOMAIN monitors :
               /\ MonitorKept(TablesOf(w.ops), monitors[m], monitors'[m])
               /\ Informed(m, monitors'[m], w, tables')
               /\ NothingSeen(w, monitors'[m])
    PROVE  TablesInv'
<1>1. /\ DOMAIN writers' = DOMAIN writers /\ writers'[p] = w
      /\ \A q \in DOMAIN writers : q # p => writers'[q] = writers[q]
  OBVIOUS
<1>2. DOMAIN tables' = Tables /\ \A t \in Tables : Keyed(tables'[t])
  BY DEF TablesKept
<1>3. \A q \in DOMAIN writers : q # p => Disjoint(writers[q], w)
  BY DEF TablesInv, Disjoint
<1>4. \A q \in DOMAIN writers' : RightWriter(writers'[q])
  BY <1>1 DEF TablesInv
<1>5. \A q \in DOMAIN writers' : RightRows(writers'[q], tables'[TableOf(writers'[q])])
                               /\ LastAgrees(writers'[q], tables')
  <2> SUFFICES ASSUME NEW q \in DOMAIN writers, q # p
               PROVE  /\ RightRows(writers[q], tables'[TableOf(writers[q])])
                      /\ LastAgrees(writers[q], tables')
    BY <1>1
  <2>1. RightWriter(writers[q]) /\ RightRows(writers[q], tables[TableOf(writers[q])])
        /\ LastAgrees(writers[q], tables)
    BY DEF TablesInv
  <2>2. \A t \in TablesOf(writers[q].ops) \cap Tables : tables'[t] = tables[t]
    BY <1>3 DEF TablesKept, Disjoint
  <2> QED BY <2>1, <2>2, RowsKept
<1>6. \A q \in DOMAIN writers' : Watching(writers'[q], monitors')
  <2>1. \A q \in DOMAIN writers' : Watching(writers'[q], monitors)
    BY <1>1 DEF TablesInv
  <2>2. \A m \in DOMAIN monitors : monitors'[m].request = monitors[m].request
    BY DEF MonitorKept
  <2> QED BY <2>1, <2>2 DEF Watching
<1>7. \A q, r \in DOMAIN writers' : q # r => Disjoint(writers'[q], writers'[r])
  BY <1>1 DEF TablesInv, Disjoint
<1>8. \A m \in DOMAIN monitors' : RightMonitor(monitors'[m])
  BY DEF MonitorKept
<1>9. \A m \in DOMAIN monitors' : \A t \in Shown(monitors'[m]) :
          ViewAgrees(m, monitors'[m], t, tables', writers')
  <2> SUFFICES ASSUME NEW m \in DOMAIN monitors, NEW t \in Shown(monitors'[m]), NEW u,
                      \A q \in DOMAIN writers :
                          ~Pending(writers'[q], Past(writers'[q], m), t, u)
               PROVE  RowAgrees(monitors'[m].view[t], tables'[t],
                                monitors'[m].request[t], u)
    BY <1>1 DEF ViewAgrees
  <2>1. ~Pending(w, Past(w, m), t, u)
    BY <1>1
  <2>2. CASE t \in TablesOf(w.ops)
    <3>1. Informed(m, monitors'[m], w, tables')
      OBVIOUS
    <3> QED BY <2>1, <2>2, <3>1 DEF Informed
  <2>3. CASE t \notin TablesOf(w.ops)
    <3>1. /\ t \in Shown(monitors[m]) /\ monitors'[m].view[t] = monitors[m].view[t]
          /\ monitors'[m].request = monitors[m].request
      <4>1. MonitorKept(TablesOf(w.ops), monitors[m], monitors'[m])
        OBVIOUS
      <4>2. /\ Shown(monitors'[m]) = Shown(monitors[m])
            /\ \A s \in Shown(monitors[m]) \ TablesOf(w.ops) :
                  monitors'[m].view[s] = monitors[m].view[s]
        BY <4>1, ShownKept
      <4>3. monitors'[m].request = monitors[m].request
        BY <4>1 DEF MonitorKept
      <4> QED BY <2>3, <4>2, <4>3
    <3>2. t \in Tables
      BY <3>1 DEF TablesInv, RightMonitor, Shown
    <3>3. tables'[t] = tables[t]
      BY <2>3, <3>2 DEF TablesKept
    <3>4. ~Pending(writers[p], Past(writers[p], m), t, u)
      BY <2>3, PendingNamed DEF TablesInv
    <3>5. \A q \in DOMAIN writers : ~Pending(writers[q], Past(writers[q], m), t, u)
      BY <1>1, <3>4
    <3>6. ViewAgrees(m, monitors[m], t, tables, writers)
      BY <3>1 DEF TablesInv
    <3>7. RowAgrees(monitors[m].view[t], tables[t], monitors[m].request[t], u)
      BY <3>5, <3>6 DEF ViewAgrees
    <3> QED BY <3>1, <3>3, <3>7
  <2> QED BY <2>2, <2>3
<1>10. \A m \in DOMAIN monitors' : \A q \in DOMAIN writers' :
          NothingSeen(writers'[q], monitors'[m])
  <2> SUFFICES ASSUME NEW m \in DOMAIN monitors, NEW q \in DOMAIN writers, q # p
               PROVE  NothingSeen(writers[q], monitors'[m])
    BY <1>1
  <2>1. NothingSeen(writers[q], monitors[m])
        /\ DOMAIN writers[q].snaps \subseteq TablesOf(writers[q].ops)
    BY DEF TablesInv, RightWriter, SnapsWhole
  <2>2. DOMAIN writers[q].snaps \cap TablesOf(w.ops) = {}
    BY <1>3, <2>1 DEF Disjoint
  <2>3. MonitorKept(TablesOf(w.ops), monitors[m], monitors'[m])
    OBVIOUS
  <2>4. /\ Shown(monitors'[m]) = Shown(monitors[m])
        /\ \A t \in Shown(monitors[m]) \ TablesOf(w.ops) :
              monitors'[m].view[t] = monitors[m].view[t]
    BY <2>3, ShownKept
  <2>5. monitors'[m].request = monitors[m].request
    BY <2>3 DEF MonitorKept
  <2> QED BY <2>1, <2>2, <2>4, <2>5 DEF NothingSeen
<1>11. \A m \in DOMAIN monitors' : \A q \in DOMAIN writers' :
          Undisturbed(writers'[q], monitors'[m])
  <2>1. \A m \in DOMAIN monitors : monitors'[m].request = monitors[m].request
                                   /\ monitors'[m].left = monitors[m].left
    BY DEF MonitorKept
  <2>2. \A q \in DOMAIN writers : writers'[q].ops = writers[q].ops
    BY <1>1
  <2>3. \A m \in DOMAIN monitors : \A q \in DOMAIN writers :
          Undisturbed(writers[q], monitors[m])
    BY DEF TablesInv
  <2> QED BY <1>1, <2>1, <2>2, <2>3 DEF Undisturbed
<1>12. DOMAIN writers' \subseteq Clients \cup PortCalls
       /\ DOMAIN monitors' \subseteq Clients \X MonitorIds
  BY <1>1 DEF TablesInv
<1> QED BY <1>2, <1>4, <1>5, <1>6, <1>7, <1>8, <1>9, <1>10, <1>11, <1>12 DEF TablesInv

\* A writer ends: its tables look to every monitor as they are now.
LEMMA WriterEnds ==
    ASSUME TablesInv, NEW p \in DOMAIN writers,
           writers' = Drop(writers, p), monitors' = monitors,
           TablesKept(TablesOf(writers[p].ops), tables, tables'),
           \A m \in DOMAIN monitors :
               \A t \in Shown(monitors[m]) \cap TablesOf(writers[p].ops) : \A u :
                   RowAgrees(monitors[m].view[t], tables'[t],
                             monitors[m].request[t], u)
    PROVE  TablesInv'
<1>1. /\ DOMAIN writers' = DOMAIN writers \ {p}
      /\ \A q \in DOMAIN writers \ {p} : writers'[q] = writers[q]
  BY DEF Drop, Restrict
<1>2. DOMAIN tables' = Tables /\ \A t \in Tables : Keyed(tables'[t])
  BY DEF TablesKept
<1>3. \A q \in DOMAIN writers' : Disjoint(writers[q], writers[p])
  BY <1>1 DEF TablesInv, Disjoint
<1>4. \A q \in DOMAIN writers' : /\ RightWriter(writers'[q])
                                 /\ Watching(writers'[q], monitors')
  BY <1>1 DEF TablesInv
<1>5. \A q \in DOMAIN writers' : RightRows(writers'[q], tables'[TableOf(writers'[q])])
                               /\ LastAgrees(writers'[q], tables')
  <2> SUFFICES ASSUME NEW q \in DOMAIN writers'
               PROVE  /\ RightRows(writers[q], tables'[TableOf(writers[q])])
                      /\ LastAgrees(writers[q], tables')
    BY <1>1
  <2>1. RightWriter(writers[q]) /\ RightRows(writers[q], tables[TableOf(writers[q])])
        /\ LastAgrees(writers[q], tables)
    BY <1>1 DEF TablesInv
  <2>2. \A t \in TablesOf(writers[q].ops) \cap Tables : tables'[t] = tables[t]
    BY <1>3 DEF TablesKept, Disjoint
  <2> QED BY <2>1, <2>2, RowsKept
<1>6. \A q, r \in DOMAIN writers' : q # r => Disjoint(writers'[q], writers'[r])
  BY <1>1 DEF TablesInv
<1>7. \A m \in DOMAIN monitors' : \A t \in Shown(monitors'[m]) :
          ViewAgrees(m, monitors'[m], t, tables', writers')
  <2> SUFFICES ASSUME NEW m \in DOMAIN monitors, NEW t \in Shown(monitors[m]), NEW u,
                      \A q \in DOMAIN writers' :
                          ~Pending(writers'[q], Past(writers'[q], m), t, u)
               PROVE  RowAgrees(monitors[m].view[t], tables'[t],
                                monitors[m].request[t], u)
    BY DEF ViewAgrees
  <2>1. CASE t \notin TablesOf(writers[p].ops)
    <3>1. t \in Tables
      BY DEF TablesInv, RightMonitor, Shown
    <3>2. tables'[t] = tables[t]
      BY <2>1, <3>1 DEF TablesKept
    <3>3. ~Pending(writers[p], Past(writers[p], m), t, u)
      BY <2>1, PendingNamed DEF TablesInv
    <3>4. \A q \in DOMAIN writers : ~Pending(writers[q], Past(writers[q], m), t, u)
      BY <1>1, <3>3
    <3>5. ViewAgrees(m, monitors[m], t, tables, writers)
      BY DEF TablesInv
    <3> QED BY <3>2, <3>4, <3>5 DEF ViewAgrees
  <2> QED BY <2>1
<1>8. \A m \in DOMAIN monitors' : \A q \in DOMAIN writers' :
          /\ NothingSeen(writers'[q], monitors'[m])
          /\ Undisturbed(writers'[q], monitors'[m])
  BY <1>1 DEF TablesInv
<1>9. /\ DOMAIN writers' \subseteq Clients \cup PortCalls
      /\ DOMAIN monitors' \subseteq Clients \X MonitorIds
      /\ \A m \in DOMAIN monitors' : RightMonitor(monitors'[m])
  BY <1>1 DEF TablesInv
<1> QED BY <1>2, <1>4, <1>5, <1>6, <1>7, <1>8, <1>9 DEF TablesInv

\* A writer that has changed nothing yet begins.
LEMMA WriterBegins ==
    ASSUME TablesInv, NEW c \in Clients \cup PortCalls, c \notin DOMAIN writers,
           NEW w, writers' = Put(writers, c, w),
           tables' = tables, monitors' = monitors,
           RightWriter(w), RightRows(w, tables[TableOf(w)]),
           w.changes = <<>>, w.todo = {}, w.pc \in {"snapshot", "write"},
           Free(TablesOf(w.ops)),
           \A m \in DOMAIN monitors : /\ NothingSeen(w, monitors[m])
                                      /\ Undisturbed(w, monitors[m])
    PROVE  TablesInv'
<1>1. /\ DOMAIN writers' = DOMAIN writers \cup {c} /\ writers'[c] = w
      /\ \A q \in DOMAIN writers : writers'[q] = writers[q]
  BY DEF Put
<1>2. \A q \in DOMAIN writers : Disjoint(w, writers[q]) /\ Disjoint(writers[q], w)
  BY DEF Free, Writers, Disjoint
<1>3. DOMAIN w.changes = {}
  BY EmptyList
<1>4. LastAgrees(w, tables) /\ Watching(w, monitors)
  BY <1>3 DEF LastAgrees, Watching
<1>5. \A q \in DOMAIN writers' : RightWriter(writers'[q])
  BY <1>1 DEF TablesInv
<1>6. \A q \in DOMAIN writers' :
          /\ RightRows(writers'[q], tables'[TableOf(writers'[q])])
          /\ LastAgrees(writers'[q], tables')
          /\ Watching(writers'[q], monitors')
  BY <1>1, <1>4 DEF TablesInv
<1>7. \A q, r \in DOMAIN writers' : q # r => Disjoint(writers'[q], writers'[r])
  BY <1>1, <1>2 DEF TablesInv
<1>8. \A m \in DOMAIN monitors' : \A t \in Shown(monitors'[m]) :
          ViewAgrees(m, monitors'[m], t, tables', writers')
  BY <1>1 DEF TablesInv, ViewAgrees
<1>9. \A m \in DOMAIN monitors' : \A q \in DOMAIN writers' :
          /\ NothingSeen(writers'[q], monitors'[m])
          /\ Undisturbed(writers'[q], monitors'[m])
  BY <1>1 DEF TablesInv
<1>10. /\ DOMAIN writers' \subseteq Clients \cup PortCalls
       /\ DOMAIN monitors' \subseteq Clients \X MonitorIds
       /\ \A m \in DOMAIN monitors' : RightMonitor(monitors'[m])
       /\ DOMAIN tables' = Tables /\ \A t \in Tables : Keyed(tables'[t])
  BY <1>1 DEF TablesInv
<1> QED BY <1>5, <1>6, <1>7, <1>8, <1>9, <1>10 DEF TablesInv

\* A step of monitors only.
LEMMA MonitorsMove ==
    ASSUME TablesInv, tables' = tables, writers' = writers,
           DOMAIN monitors' \subseteq Clients \X MonitorIds,
           \A p \in DOMAIN writers : Watching(writers[p], monitors'),
           \A m \in DOMAIN monitors' :
               \/ m \in DOMAIN monitors /\ monitors'[m] = monitors[m]
               \/ /\ RightMonitor(monitors'[m])
                  /\ \A t \in Shown(monitors'[m]) :
                        ViewAgrees(m, monitors'[m], t, tables, writers)
                  /\ \A p \in DOMAIN writers :
                        /\ NothingSeen(writers[p], monitors'[m])
                        /\ Undisturbed(writers[p], monitors'[m])
    PROVE  TablesInv'
<1>1. \A m \in DOMAIN monitors' : RightMonitor(monitors'[m])
  BY DEF TablesInv
<1>2. \A m \in DOMAIN monitors' : \A t \in Shown(monitors'[m]) :
          ViewAgrees(m, monitors'[m], t, tables', writers')
  BY DEF TablesInv
<1>3. \A m \in DOMAIN monitors' : \A q \in DOMAIN writers' :
          /\ NothingSeen(writers'[q], monitors'[m])
          /\ Undisturbed(writers'[q], monitors'[m])
  BY DEF TablesInv
<1> QED BY <1>1, <1>2, <1>3 DEF TablesInv
SameRow(rows, more, u) ==
    /\ u \in DOMAIN rows <=> u \in DOMAIN more
    /\ u \in DOMAIN rows => more[u] = rows[u]

\* What w did not have in store, and v has not either, is as it was.
Covers(w, v, tabs, more) ==
    \A n \in 0..Len(w.changes) : \A t \in TablesOf(w.ops) \cap Tables : \A u :
        ~Pending(v, n, t, u) => ~Pending(w, n, t, u) /\ SameRow(tabs[t], more[t], u)

\* A step of a writer that announces nothing yet.
LEMMA OperationMoves ==
    ASSUME TablesInv, NEW p \in DOMAIN writers, NEW v,
           writers' = [writers EXCEPT ![p] = v], monitors' = monitors,
           v.ops = writers[p].ops, RightWriter(v),
           writers[p].todo = {}, v.todo = {},
           TablesKept(TablesOf(v.ops), tables, tables'),
           RightRows(v, tables'[TableOf(v)]),
           Covers(writers[p], v, tables, tables'),
           \A i \in DOMAIN v.changes :
               \/ i \in DOMAIN writers[p].changes /\ v.changes[i] = writers[p].changes[i]
               \/ ChangeAgrees(v.changes[i], tables'[v.changes[i].table]),
           \A m \in DOMAIN monitors : NothingSeen(v, monitors[m])
    PROVE  TablesInv'
<1> DEFINE w == writers[p]
<1>1. RightWriter(w) /\ LastAgrees(w, tables)
  BY DEF TablesInv
<1>2. \A m : Past(w, m) = 0 /\ Past(v, m) = 0
  BY DEF Past
<1>3. Len(w.changes) \in Nat /\ DOMAIN w.changes = 1..Len(w.changes)
  BY <1>1, SeqIsList DEF RightWriter
<1>4. LastAgrees(v, tables')
  <2> SUFFICES ASSUME NEW i \in DOMAIN v.changes, NEW ch, ch = v.changes[i],
                      ~Pending(v, i, ch.table, ch.uuid)
               PROVE  ChangeAgrees(ch, tables'[ch.table])
    BY DEF LastAgrees
  <2>1. CASE i \in DOMAIN w.changes /\ v.changes[i] = w.changes[i]
    <3>1. ch.table \in TablesOf(w.ops) \cap Tables
      BY <1>1, <2>1 DEF RightWriter, RightChange
    <3>2. i \in 0..Len(w.changes)
      BY <1>3, <2>1
    <3>3. ~Pending(w, i, ch.table, ch.uuid)
          /\ SameRow(tables[ch.table], tables'[ch.table], ch.uuid)
      BY <3>1, <3>2 DEF Covers
    <3>4. ChangeAgrees(ch, tables[ch.table])
      BY <1>1, <2>1, <3>3 DEF LastAgrees
    <3> QED BY <3>3, <3>4 DEF ChangeAgrees, SameRow
  <2> QED BY <2>1
<1>5. Watching(v, monitors)
  BY DEF Watching
<1>6. \A m \in DOMAIN monitors : Informed(m, monitors'[m], v, tables')
  <2> SUFFICES ASSUME NEW m \in DOMAIN monitors,
                      NEW t \in Shown(monitors[m]) \cap TablesOf(v.ops), NEW u,
                      ~Pending(v, 0, t, u)
               PROVE  RowAgrees(monitors[m].view[t], tables'[t],
                                monitors[m].request[t], u)
    BY <1>2 DEF Informed
  <2>1. t \in Tables
    BY DEF TablesInv, RightMonitor, Shown
  <2>2. 0 \in 0..Len(w.changes)
    BY <1>3
  <2>3. ~Pending(w, 0, t, u) /\ SameRow(tables[t], tables'[t], u)
    BY <2>1, <2>2 DEF Covers
  <2>4. Informed(m, monitors[m], w, tables)
    BY OwnTables
  <2>5. RowAgrees(monitors[m].view[t], tables[t], monitors[m].request[t], u)
    BY <1>2, <2>3, <2>4 DEF Informed
  <2> QED BY <2>3, <2>5 DEF RowAgrees, SameRow
<1>7. \A m \in DOMAIN monitors :
          MonitorKept(TablesOf(v.ops), monitors[m], monitors'[m])
  BY DEF MonitorKept, TablesInv
<1>8. DOMAIN monitors' = DOMAIN monitors
  OBVIOUS
<1>9. \A m \in DOMAIN monitors :
           /\ MonitorKept(TablesOf(v.ops), monitors[m], monitors'[m])
           /\ Informed(m, monitors'[m], v, tables')
           /\ NothingSeen(v, monitors'[m])
  BY <1>6, <1>7
<1> HIDE DEF w
<1> QED BY <1>4, <1>5, <1>8, <1>9, WriterMoves

\* A writer that has done an operation.
LEMMA AdvanceRight ==
    ASSUME NEW v, RightWriter(v), v.pc \in {"op", "write", "reread"}
    PROVE  LET a == Advance(v)
           IN  /\ RightWriter(a) /\ a.pc \in {"op", "notify"}
               /\ a.ops = v.ops /\ a.changes = v.changes /\ a.snaps = v.snaps
               /\ a.todo = {} /\ v.todo = {}
               /\ \A rows : RightRows(a, rows)
<1>1. PICK a : a = Advance(v)
  OBVIOUS
<1>2. v.todo = {} /\ v.k \in DOMAIN v.ops /\ DOMAIN v.ops = 1..Len(v.ops)
      /\ Len(v.ops) \in Nat
  BY DEF RightWriter, RightOps
<1>3. DOMAIN v = {"ops", "k", "pc", "snaps", "named", "old", "changes", "todo"}
  BY DEF RightWriter
<1>4. /\ DOMAIN a = DOMAIN v /\ a.ops = v.ops /\ a.changes = v.changes
      /\ a.snaps = v.snaps /\ a.todo = v.todo /\ a.k = v.k + 1
      /\ a.pc = IF v.k = Len(v.ops) THEN "notify" ELSE "op"
  BY <1>1, <1>3 DEF Advance
<1>5. a.pc # "notify" => a.k \in DOMAIN a.ops
  BY <1>2, <1>4
<1>6. SnapsWhole(a)
  BY <1>4 DEF RightWriter, SnapsWhole
<1>7. a.k \in Nat /\ a.pc \in {"op", "notify"} /\ a.pc \in Phases
  BY <1>2, <1>4 DEF Phases
<1>8. RightWriter(a)
  BY <1>2, <1>3, <1>4, <1>5, <1>6, <1>7 DEF RightWriter
<1>9. \A rows : RightRows(a, rows)
  BY <1>7 DEF RightRows
<1> QED BY <1>1, <1>2, <1>4, <1>7, <1>8, <1>9

-----------------------------------------------------------------------------
(* The operations of a transaction, one by one.                            *)

\* The operation a writer is at.
LEMMA OpFacts ==
    ASSUME TablesInv, NEW p \in DOMAIN writers, ~At(p, "notify")
    PROVE  LET w == writers[p]
               op == w.ops[w.k]
           IN  /\ WellFormed(op) /\ w.k \in DOMAIN w.ops
               /\ Op(p) = OpOf(w)
               /\ Op(p).op = op.op /\ Op(p).table = TableOf(w)
               /\ Op(p).name = op.name /\ Op(p).mutations = op.mutations
               /\ DOMAIN Op(p).row = DOMAIN op.row
               /\ TableOf(w) \in TablesOf(w.ops)
               /\ w.todo = {}
<1>1. RightWriter(writers[p])
  BY DEF TablesInv
<1>2. /\ writers[p].k \in DOMAIN writers[p].ops /\ writers[p].todo = {}
      /\ WellFormed(writers[p].ops[writers[p].k])
  BY <1>1 DEF RightWriter, RightOps, At
<1>3. Op(p) = Resolve(writers[p].ops[writers[p].k], writers[p].named)
  BY DEF Op
<1>4. PICK op : op = writers[p].ops[writers[p].k]
  OBVIOUS
<1>5. /\ Op(p).op = op.op /\ Op(p).table = op.table
      /\ Op(p).name = op.name /\ Op(p).mutations = op.mutations
      /\ DOMAIN Op(p).row = DOMAIN op.row
  BY <1>2, <1>3, <1>4, ResolveKeeps
<1> QED BY <1>2, <1>3, <1>4, <1>5 DEF OpOf, TableOf, TablesOf

\* Nothing that a monitor could see has changed.
LEMMA NothingNew ==
    ASSUME NEW w, NEW v, v.ops = w.ops, v.snaps = w.snaps, w.pc # "notify",
           NEW r, NothingSeen(w, r)
    PROVE  NothingSeen(v, r)
  BY DEF NothingSeen

\* Tables nobody writes are kept.
LEMMA SameTables ==
    ASSUME TablesInv, tables' = tables, NEW ts
    PROVE  TablesKept(ts, tables, tables')
  BY DEF TablesKept, TablesInv

\* The writer after it has copied one table.
Copied(w, rows) ==
    [w EXCEPT !.snaps = IF TableOf(w) \in Tables \ DOMAIN w.snaps
                        THEN Put(@, TableOf(w), rows) ELSE @,
              !.k = IF w.k = Len(w.ops) THEN 1 ELSE @ + 1,
              !.pc = IF w.k = Len(w.ops) THEN "op" ELSE @]

\* Copying the next table leaves the writer right.
LEMMA SnapshotRight ==
    ASSUME NEW w, RightWriter(w), w.pc = "snapshot", NEW rows,
           TableOf(w) \in Tables => Keyed(rows), NEW v, v = Copied(w, rows)
    PROVE  /\ RightWriter(v) /\ v.ops = w.ops /\ v.changes = w.changes
           /\ v.todo = {} /\ v.pc \in {"snapshot", "op"}
           /\ \A t \in DOMAIN v.snaps :
                 \/ t \in DOMAIN w.snaps /\ v.snaps[t] = w.snaps[t]
                 \/ t = TableOf(w) /\ v.snaps[t] = rows
<1>1. DOMAIN w = {"ops", "k", "pc", "snaps", "named", "old", "changes", "todo"}
  BY DEF RightWriter
<1>2. /\ w.k \in DOMAIN w.ops /\ DOMAIN w.ops = 1..Len(w.ops)
      /\ Len(w.ops) \in Nat /\ w.todo = {}
  BY DEF RightWriter, RightOps
<1>3. /\ DOMAIN v = DOMAIN w /\ v.ops = w.ops /\ v.changes = w.changes
      /\ v.todo = w.todo
      /\ v.snaps = IF TableOf(w) \in Tables \ DOMAIN w.snaps
                   THEN Put(w.snaps, TableOf(w), rows) ELSE w.snaps
      /\ v.k = IF w.k = Len(w.ops) THEN 1 ELSE w.k + 1
      /\ v.pc = IF w.k = Len(w.ops) THEN "op" ELSE w.pc
  BY <1>1 DEF Copied
<1>4. \A t \in DOMAIN v.snaps :
                 \/ t \in DOMAIN w.snaps /\ v.snaps[t] = w.snaps[t]
                 \/ t = TableOf(w) /\ v.snaps[t] = rows
  BY <1>3 DEF Put
<1>5. /\ DOMAIN w.snaps \subseteq DOMAIN v.snaps
      /\ TableOf(w) \in Tables => TableOf(w) \in DOMAIN v.snaps
  BY <1>3 DEF Put
<1>6. TableOf(w) \in TablesOf(w.ops)
  BY <1>2 DEF TableOf, TablesOf
<1>7. SnapsWhole(v)
  <2>1. SnapsWhole(w)
    BY DEF RightWriter
  <2>2. DOMAIN v.snaps \subseteq TablesOf(v.ops) \cap Tables
    <3>1. CASE TableOf(w) \in Tables \ DOMAIN w.snaps
      <4>1. DOMAIN v.snaps = DOMAIN w.snaps \cup {TableOf(w)}
        BY <1>3, <3>1 DEF Put
      <4> QED BY <1>3, <1>6, <2>1, <3>1, <4>1 DEF SnapsWhole
    <3>2. CASE TableOf(w) \notin Tables \ DOMAIN w.snaps
      BY <1>3, <2>1, <3>2 DEF SnapsWhole
    <3> QED BY <3>1, <3>2
  <2>3. \A t \in DOMAIN v.snaps : Keyed(v.snaps[t])
    BY <1>4, <2>1, <2>2 DEF SnapsWhole
  <2>4. \A i \in 1..w.k : w.ops[i].table \in Tables => w.ops[i].table \in DOMAIN v.snaps
    <3>1. \A i \in 1..(w.k - 1) :
             w.ops[i].table \in Tables => w.ops[i].table \in DOMAIN w.snaps
      BY <2>1 DEF SnapsWhole
    <3>2. \A i \in 1..w.k : i = w.k \/ i \in 1..(w.k - 1)
      BY <1>2
    <3> QED BY <1>5, <3>1, <3>2 DEF TableOf
  <2>5. CASE w.k = Len(w.ops)
    <3>1. v.pc = "op" /\ \A t \in TablesOf(w.ops) \cap Tables : t \in DOMAIN v.snaps
      BY <1>2, <1>3, <2>4, <2>5 DEF TablesOf
    <3> QED BY <1>3, <2>2, <2>3, <3>1 DEF SnapsWhole
  <2>6. CASE w.k # Len(w.ops)
    <3>1. v.pc = "snapshot" /\ v.k - 1 = w.k
      BY <1>2, <1>3, <2>6
    <3> QED BY <1>3, <2>2, <2>3, <2>4, <3>1 DEF SnapsWhole
  <2> QED BY <2>5, <2>6
<1>8. /\ v.k \in DOMAIN v.ops /\ v.k \in Nat /\ v.pc \in {"snapshot", "op"}
      /\ v.pc \in Phases
  BY <1>2, <1>3 DEF Phases
<1>9. RightWriter(v)
  BY <1>2, <1>3, <1>7, <1>8 DEF RightWriter
<1> QED BY <1>2, <1>3, <1>4, <1>8, <1>9

\* Transact: the copy of one table.
LEMMA SnapshotKeeps ==
    ASSUME TablesInv, NEW p \in DOMAIN writers, Snapshot(p)
    PROVE  TablesInv'
<1> DEFINE w == writers[p]
<1>1. PICK v : /\ v = Copied(w, tables[TableOf(w)])
               /\ writers' = [writers EXCEPT ![p] = v]
  BY DEF Snapshot, TableOf, Copied
<1>2. w.pc = "snapshot" /\ tables' = tables /\ monitors' = monitors
  BY DEF Snapshot, At
<1>3. RightWriter(w) /\ w.todo = {} /\ DOMAIN w.changes = {} /\ Len(w.changes) = 0
  <2>1. RightWriter(w)
    BY DEF TablesInv
  <2>2. IsSeq(w.changes) /\ Len(w.changes) = 0 /\ w.todo = {}
    BY <1>2, <2>1 DEF RightWriter
  <2>3. DOMAIN w.changes = 1..0
    BY <2>2, SeqIsList
  <2> QED BY <2>1, <2>2, <2>3
<1>4. /\ RightWriter(v) /\ v.ops = w.ops /\ v.changes = w.changes
      /\ v.todo = {} /\ v.pc \in {"snapshot", "op"}
      /\ \A t \in DOMAIN v.snaps :
                 \/ t \in DOMAIN w.snaps /\ v.snaps[t] = w.snaps[t]
                 \/ t = TableOf(w) /\ v.snaps[t] = tables[TableOf(w)]
  <2>1. TableOf(w) \in Tables => Keyed(tables[TableOf(w)])
    BY DEF TablesInv
  <2> HIDE DEF w
  <2> QED BY <1>1, <1>2, <1>3, <2>1, SnapshotRight
<1>5. \A n, t, u : ~Pending(v, n, t, u) /\ ~Pending(w, n, t, u)
  BY <1>2, <1>3, <1>4 DEF Pending, Unlisted
<1>6. Covers(w, v, tables, tables')
  BY <1>2, <1>5 DEF Covers, SameRow
<1>7. RightRows(v, tables'[TableOf(v)])
  BY <1>4 DEF RightRows
<1>8. \A m \in DOMAIN monitors : NothingSeen(v, monitors[m])
  <2> SUFFICES ASSUME NEW m \in DOMAIN monitors, MayFail(v.ops),
                      NEW t \in Shown(monitors[m]) \cap DOMAIN v.snaps, NEW u
               PROVE  RowAgrees(monitors[m].view[t], v.snaps[t],
                                monitors[m].request[t], u)
    BY DEF NothingSeen
  <2>1. CASE t \in DOMAIN w.snaps /\ v.snaps[t] = w.snaps[t]
    <3>1. NothingSeen(w, monitors[m])
      BY DEF TablesInv
    <3> QED BY <1>2, <1>4, <2>1, <3>1 DEF NothingSeen
  <2>2. CASE t = TableOf(w) /\ v.snaps[t] = tables[TableOf(w)]
    <3>1. t \in TablesOf(w.ops)
      BY <1>4 DEF RightWriter, SnapsWhole
    <3>2. Informed(m, monitors[m], w, tables)
      BY OwnTables
    <3> QED BY <1>5, <2>2, <3>1, <3>2 DEF Informed
  <2> QED BY <1>4, <2>1, <2>2
<1>9. TablesKept(TablesOf(v.ops), tables, tables')
  BY <1>2, SameTables
<1>10. \A i \in DOMAIN v.changes :
               \/ i \in DOMAIN w.changes /\ v.changes[i] = w.changes[i]
               \/ ChangeAgrees(v.changes[i], tables'[v.changes[i].table])
  BY <1>4
<1> QED BY <1>1, <1>2, <1>3, <1>4, <1>6, <1>7, <1>8, <1>9, <1>10, OperationMoves

\* An operation on one table leaves the others alone.
LEMMA TableWritten ==
    ASSUME TablesInv, NEW t \in Tables, NEW ts, t \in ts, NEW rows, Keyed(rows),
           tables' = [tables EXCEPT ![t] = rows]
    PROVE  /\ TablesKept(ts, tables, tables')
           /\ tables'[t] = rows
           /\ \A s \in Tables \ {t} : tables'[s] = tables[s]
<1>1. DOMAIN tables = Tables /\ \A s \in Tables : Keyed(tables[s])
  BY DEF TablesInv
<1>2. DOMAIN tables' = Tables /\ tables'[t] = rows
      /\ \A s \in Tables \ {t} : tables'[s] = tables[s]
  BY <1>1
<1> QED BY <1>1, <1>2 DEF TablesKept

\* A writer that goes on with the same operation.
LEMMA PhaseRight ==
    ASSUME NEW w, RightWriter(w), w.pc \in {"op", "write", "reread"}, NEW v,
           DOMAIN v = DOMAIN w, v.ops = w.ops, v.k = w.k, v.changes = w.changes,
           v.snaps = w.snaps, v.todo = w.todo,
           v.pc \in {"write", "reread", "rollback"},
           TableOf(w) \in Tables, w.ops[w.k].op \in Operations,
           v.pc = "rollback" => MayFail(w.ops)
    PROVE  RightWriter(v) /\ v.todo = {} /\ TableOf(v) = TableOf(w)
<1>1. SnapsWhole(v)
  BY DEF SnapsWhole, RightWriter
<1>2. w.todo = {} /\ v.pc \in Phases
  BY DEF RightWriter, Phases
<1> QED BY <1>1, <1>2 DEF RightWriter, TableOf

\* Transact: a select.
LEMMA SelectKeeps ==
    ASSUME TablesInv, NEW p \in DOMAIN writers, Select(p)
    PROVE  TablesInv'
<1> DEFINE w == writers[p]
<1>1. PICK v : v = Advance(w)
  OBVIOUS
<1>2. writers' = [writers EXCEPT ![p] = v] /\ w.pc = "op" /\ tables' = tables
      /\ monitors' = monitors
  BY <1>1 DEF Select, At
<1>3. RightWriter(w)
  BY DEF TablesInv
<1>4. /\ RightWriter(v) /\ v.pc \in {"op", "notify"} /\ v.ops = w.ops
      /\ v.changes = w.changes /\ v.snaps = w.snaps /\ v.todo = {} /\ w.todo = {}
      /\ \A rows : RightRows(v, rows)
  <2> HIDE DEF w
  <2> QED BY <1>1, <1>2, <1>3, AdvanceRight
<1>5. Covers(w, v, tables, tables')
  BY <1>2, <1>4 DEF Covers, SameRow, Pending, Unlisted
<1>6. \A m \in DOMAIN monitors : NothingSeen(v, monitors[m])
  BY <1>2, <1>4, NothingNew DEF TablesInv
<1>7. TablesKept(TablesOf(v.ops), tables, tables')
  BY <1>2, SameTables
<1>8. \A i \in DOMAIN v.changes :
               \/ i \in DOMAIN w.changes /\ v.changes[i] = w.changes[i]
               \/ ChangeAgrees(v.changes[i], tables'[v.changes[i].table])
  BY <1>4
<1>9. RightRows(v, tables'[TableOf(v)])
  BY <1>4
<1> QED BY <1>2, <1>4, <1>5, <1>6, <1>7, <1>8, <1>9, OperationMoves

\* Transact: the rows an update, delete or mutate reads first.
LEMMA SelectOldKeeps ==
    ASSUME TablesInv, NEW p \in DOMAIN writers, SelectOld(p)
    PROVE  TablesInv'
<1> DEFINE w == writers[p]
           t == TableOf(w)
<1>1. w.pc = "op" /\ tables' = tables /\ monitors' = monitors /\ Known(p)
  BY DEF SelectOld, At
<1>2. RightWriter(w)
  BY DEF TablesInv
<1>3. /\ Op(p) = OpOf(w) /\ Op(p).op = w.ops[w.k].op /\ Op(p).table = t
      /\ w.todo = {}
  BY <1>1, OpFacts DEF At
<1>4. PICK v : /\ v = [w EXCEPT !.pc = "write",
                                !.old = Restrict(tables[t],
                                            Matching(tables[t], OpOf(w).where))]
               /\ writers' = [writers EXCEPT ![p] = v]
  BY <1>3 DEF SelectOld, Rows
<1>5. DOMAIN w = {"ops", "k", "pc", "snaps", "named", "old", "changes", "todo"}
  BY <1>2 DEF RightWriter
<1>6. /\ DOMAIN v = DOMAIN w /\ v.ops = w.ops /\ v.k = w.k
      /\ v.changes = w.changes /\ v.snaps = w.snaps /\ v.todo = w.todo
      /\ v.named = w.named /\ v.pc = "write"
      /\ v.old = Restrict(tables[t], Matching(tables[t], OpOf(w).where))
  BY <1>4, <1>5
<1>7. t \in Tables /\ w.ops[w.k].op \in Operations
  BY <1>1, <1>3 DEF Known
<1>8. RightWriter(v) /\ v.todo = {} /\ TableOf(v) = t
  <2> HIDE DEF w
  <2> QED BY <1>1, <1>2, <1>6, <1>7, PhaseRight
<1>9. RightRows(v, tables'[TableOf(v)])
  <2>1. OpOf(v) = OpOf(w)
    BY <1>6 DEF OpOf
  <2>2. DOMAIN v.old = Matching(tables[t], OpOf(w).where)
    BY <1>6 DEF Restrict
  <2> QED BY <1>1, <1>6, <1>8, <2>1, <2>2 DEF RightRows
<1>10. Covers(w, v, tables, tables')
  BY <1>1, <1>6 DEF Covers, SameRow, Pending, Unlisted
<1>11. \A m \in DOMAIN monitors : NothingSeen(v, monitors[m])
  BY <1>1, <1>6, NothingNew DEF TablesInv
<1>12. TablesKept(TablesOf(v.ops), tables, tables')
  BY <1>1, SameTables
<1>13. \A i \in DOMAIN v.changes :
               \/ i \in DOMAIN w.changes /\ v.changes[i] = w.changes[i]
               \/ ChangeAgrees(v.changes[i], tables'[v.changes[i].table])
  BY <1>6
<1> QED BY <1>1, <1>3, <1>4, <1>6, <1>8, <1>9, <1>10, <1>11, <1>12, <1>13, OperationMoves

\* Transact: an insert.  Nobody knows its UUID yet.
LEMMA InsertKeeps ==
    ASSUME TablesInv, NEW p \in DOMAIN writers, NEW u \in Uuids, Insert(p, u)
    PROVE  TablesInv'
<1> DEFINE w == writers[p]
           t == TableOf(w)
<1>1. w.pc = "op" /\ monitors' = monitors /\ Known(p)
  BY DEF Insert, At
<1>2. RightWriter(w)
  BY DEF TablesInv
<1>3. /\ Op(p) = OpOf(w) /\ Op(p).op = w.ops[w.k].op /\ Op(p).table = t
      /\ w.todo = {} /\ t \in TablesOf(w.ops)
  BY <1>1, OpFacts DEF At
<1>4. PICK named, v :
        /\ v = [w EXCEPT !.pc = "reread", !.old = Put(EmptyMap, u, EmptyMap),
                         !.named = named]
        /\ writers' = [writers EXCEPT ![p] = v]
  BY <1>3 DEF Insert
<1>5. DOMAIN w = {"ops", "k", "pc", "snaps", "named", "old", "changes", "todo"}
  BY <1>2 DEF RightWriter
<1>6. /\ DOMAIN v = DOMAIN w /\ v.ops = w.ops /\ v.k = w.k
      /\ v.changes = w.changes /\ v.snaps = w.snaps /\ v.todo = w.todo
      /\ v.pc = "reread" /\ v.old = Put(EmptyMap, u, EmptyMap)
  BY <1>4, <1>5
<1>7. t \in Tables /\ w.ops[w.k].op \in Operations
  BY <1>1, <1>3 DEF Known
<1>8. RightWriter(v) /\ v.todo = {} /\ TableOf(v) = t
  <2> HIDE DEF w
  <2> QED BY <1>1, <1>2, <1>6, <1>7, PhaseRight
<1>9. PICK rows : rows = Inserted(tables[t], u, Op(p).row)
  OBVIOUS
<1>10. tables' = [tables EXCEPT ![t] = rows]
  BY <1>3, <1>9 DEF Insert
<1>11. Keyed(tables[t])
  BY <1>7 DEF TablesInv
<1>12. /\ Keyed(rows) /\ DOMAIN rows = DOMAIN tables[t] \cup {u}
       /\ \A v1 \in DOMAIN tables[t] : v1 # u => rows[v1] = tables[t][v1]
  BY <1>9, <1>11, InsertedKeyed
<1>13. /\ TablesKept(TablesOf(v.ops), tables, tables')
       /\ tables'[t] = rows
       /\ \A s \in Tables \ {t} : tables'[s] = tables[s]
  BY <1>3, <1>6, <1>7, <1>10, <1>12, TableWritten
<1>14. DOMAIN v.old = {u}
  BY <1>6 DEF Put, EmptyMap
<1>15. RightRows(v, tables'[TableOf(v)])
  BY <1>6, <1>8, <1>12, <1>13, <1>14 DEF RightRows
<1>16. Covers(w, v, tables, tables')
  <2> SUFFICES ASSUME NEW n, NEW s \in Tables, NEW x, ~Pending(v, n, s, x)
               PROVE  ~Pending(w, n, s, x) /\ SameRow(tables[s], tables'[s], x)
    BY DEF Covers
  <2>1. ~Pending(w, n, s, x)
    BY <1>1, <1>6 DEF Pending, Unlisted
  <2>2. s # t \/ x # u
    BY <1>6, <1>8, <1>14 DEF Pending, Unlisted
  <2>3. SameRow(tables[s], tables'[s], x)
    BY <1>12, <1>13, <2>2 DEF SameRow
  <2> QED BY <2>1, <2>3
<1>17. \A m \in DOMAIN monitors : NothingSeen(v, monitors[m])
  BY <1>1, <1>6, NothingNew DEF TablesInv
<1>18. \A i \in DOMAIN v.changes :
               \/ i \in DOMAIN w.changes /\ v.changes[i] = w.changes[i]
               \/ ChangeAgrees(v.changes[i], tables'[v.changes[i].table])
  BY <1>6
<1> HIDE DEF t
<1> QED BY <1>1, <1>3, <1>4, <1>6, <1>8, <1>13, <1>15, <1>16, <1>17, <1>18, OperationMoves

\* A writer rewrites the rows it has read, and will read them again.
LEMMA WriteKeeps ==
    ASSUME TablesInv, NEW p \in DOMAIN writers, At(p, "write"), ThenReread(p),
           monitors' = monitors, NEW t, t = TableOf(writers[p]), NEW rows,
           tables' = [tables EXCEPT ![t] = rows], Keyed(rows),
           DOMAIN rows = DOMAIN tables[t],
           \A u \in DOMAIN rows \ DOMAIN writers[p].old : rows[u] = tables[t][u]
    PROVE  TablesInv'
<1> DEFINE w == writers[p]
<1>1. w.pc = "write"
  BY DEF At
<1>2. RightWriter(w) /\ RightRows(w, tables[t])
  BY DEF TablesInv
<1>3. w.todo = {} /\ t \in TablesOf(w.ops) /\ t \in Tables /\ w.ops[w.k].op \in Operations
      /\ DOMAIN w.old \subseteq DOMAIN tables[t]
  <2>1. w.todo = {} /\ t \in TablesOf(w.ops)
    BY <1>1, OpFacts DEF At
  <2>2. t \in Tables /\ w.ops[w.k].op \in Operations
    BY <1>1, <1>2 DEF RightWriter
  <2>3. DOMAIN w.old \subseteq DOMAIN tables[t]
    BY <1>1, <1>2 DEF RightRows, Matching
  <2> QED BY <2>1, <2>2, <2>3
<1>4. PICK v : /\ v = IF w.old = EmptyMap THEN Advance(w)
                      ELSE [w EXCEPT !.pc = "reread"]
               /\ writers' = [writers EXCEPT ![p] = v]
  BY DEF ThenReread
<1>5. /\ RightWriter(v) /\ v.ops = w.ops /\ v.changes = w.changes /\ v.todo = {}
      /\ v.snaps = w.snaps
      /\ RightRows(v, rows)
      /\ \/ v.pc \in {"op", "notify"} /\ DOMAIN w.old = {}
         \/ v.pc = "reread" /\ v.old = w.old
      /\ v.pc \in {"write", "reread"} => TableOf(v) = t
  <2>1. CASE w.old = EmptyMap
    <3>1. v = Advance(w) /\ DOMAIN w.old = {}
      BY <1>4, <2>1 DEF EmptyMap
    <3>2. /\ RightWriter(v) /\ v.pc \in {"op", "notify"} /\ v.ops = w.ops
          /\ v.changes = w.changes /\ v.snaps = w.snaps /\ v.todo = {}
          /\ \A r : RightRows(v, r)
      <4> HIDE DEF w
      <4> QED BY <1>1, <1>2, <3>1, AdvanceRight
    <3> QED BY <3>1, <3>2
  <2>2. CASE w.old # EmptyMap
    <3>1. DOMAIN w = {"ops", "k", "pc", "snaps", "named", "old", "changes", "todo"}
      BY <1>2 DEF RightWriter
    <3>2. /\ DOMAIN v = DOMAIN w /\ v.ops = w.ops /\ v.k = w.k
          /\ v.changes = w.changes /\ v.snaps = w.snaps /\ v.todo = w.todo
          /\ v.pc = "reread" /\ v.old = w.old
      BY <1>4, <2>2, <3>1
    <3>3. RightWriter(v) /\ v.todo = {} /\ TableOf(v) = t
      <4> HIDE DEF w
      <4>1. t = TableOf(w)
        BY DEF w
      <4> QED BY <1>1, <1>2, <1>3, <3>2, <4>1, PhaseRight
    <3>4. RightRows(v, rows)
      BY <1>3, <3>2 DEF RightRows
    <3> QED BY <3>2, <3>3, <3>4
  <2> QED BY <2>1, <2>2
<1>6. /\ TablesKept(TablesOf(v.ops), tables, tables')
      /\ tables'[t] = rows
      /\ \A s \in Tables \ {t} : tables'[s] = tables[s]
  BY <1>3, <1>5, TableWritten
<1>7. RightRows(v, tables'[TableOf(v)])
  BY <1>5, <1>6 DEF RightRows
<1>8. Covers(w, v, tables, tables')
  <2> SUFFICES ASSUME NEW n, NEW s \in Tables, NEW x, ~Pending(v, n, s, x)
               PROVE  ~Pending(w, n, s, x) /\ SameRow(tables[s], tables'[s], x)
    BY DEF Covers
  <2>1. ~Pending(w, n, s, x)
    BY <1>1, <1>5 DEF Pending, Unlisted
  <2>2. s # t \/ x \notin DOMAIN w.old
    BY <1>5 DEF Pending, Unlisted
  <2>3. SameRow(tables[s], tables'[s], x)
    BY <1>6, <2>2 DEF SameRow
  <2> QED BY <2>1, <2>3
<1>9. \A m \in DOMAIN monitors : NothingSeen(v, monitors[m])
  BY <1>1, <1>5, NothingNew DEF TablesInv
<1>10. \A i \in DOMAIN v.changes :
               \/ i \in DOMAIN w.changes /\ v.changes[i] = w.changes[i]
               \/ ChangeAgrees(v.changes[i], tables'[v.changes[i].table])
  BY <1>5
<1> QED BY <1>3, <1>4, <1>5, <1>6, <1>7, <1>8, <1>9, <1>10, OperationMoves

\* The facts about a writer that is going to write.
LEMMA WriterWrites ==
    ASSUME TablesInv, NEW p \in DOMAIN writers, At(p, "write")
    PROVE  LET w == writers[p]
               t == TableOf(w)
           IN  /\ Op(p).table = t /\ t \in Tables /\ t \in TablesOf(w.ops)
               /\ Keyed(tables[t])
               /\ DOMAIN w.old = Matching(tables[t], Op(p).where)
               /\ Op(p).op = w.ops[w.k].op /\ Op(p).op \in Operations
               /\ WellFormed(w.ops[w.k])
               /\ Op(p).mutations = w.ops[w.k].mutations
               /\ DOMAIN Op(p).row = DOMAIN w.ops[w.k].row
               /\ w.todo = {} /\ RightWriter(w) /\ w.k \in DOMAIN w.ops
<1>1. /\ WellFormed(writers[p].ops[writers[p].k])
      /\ Op(p) = OpOf(writers[p])
      /\ Op(p).op = writers[p].ops[writers[p].k].op
      /\ Op(p).table = TableOf(writers[p])
      /\ Op(p).mutations = writers[p].ops[writers[p].k].mutations
      /\ DOMAIN Op(p).row = DOMAIN writers[p].ops[writers[p].k].row
      /\ TableOf(writers[p]) \in TablesOf(writers[p].ops)
      /\ writers[p].todo = {} /\ writers[p].k \in DOMAIN writers[p].ops
  BY OpFacts DEF At
<1>2. RightWriter(writers[p]) /\ RightRows(writers[p], tables[TableOf(writers[p])])
  BY DEF TablesInv
<1>3. TableOf(writers[p]) \in Tables /\ writers[p].ops[writers[p].k].op \in Operations
  BY <1>2 DEF RightWriter, At
<1>4. DOMAIN writers[p].old = Matching(tables[TableOf(writers[p])], Op(p).where)
  BY <1>1, <1>2 DEF RightRows, At
<1>5. Keyed(tables[TableOf(writers[p])])
  BY <1>3 DEF TablesInv
<1> QED BY <1>1, <1>2, <1>3, <1>4, <1>5

\* Transact: an update writes the rows it has read.
LEMMA UpdateKeeps ==
    ASSUME TablesInv, NEW p \in DOMAIN writers, Update(p)
    PROVE  TablesInv'
<1>1. At(p, "write") /\ ThenReread(p) /\ monitors' = monitors /\ Op(p).op = "update"
  BY DEF Update
<1>2. PICK t : t = TableOf(writers[p])
  OBVIOUS
<1>3. /\ Op(p).table = t /\ t \in Tables /\ Keyed(tables[t])
      /\ DOMAIN writers[p].old = Matching(tables[t], Op(p).where)
      /\ WellFormed(writers[p].ops[writers[p].k])
      /\ Op(p).op = writers[p].ops[writers[p].k].op
      /\ DOMAIN Op(p).row = DOMAIN writers[p].ops[writers[p].k].row
  BY <1>1, <1>2, WriterWrites
<1>4. PICK rows : rows = Updated(tables[t], Op(p).where, Op(p).row)
  OBVIOUS
<1>5. tables' = [tables EXCEPT ![t] = rows]
  BY <1>3, <1>4 DEF Update
<1>6. "_uuid" \notin DOMAIN Op(p).row
  BY <1>1, <1>3 DEF WellFormed
<1>7. /\ Keyed(rows) /\ DOMAIN rows = DOMAIN tables[t]
      /\ \A u \in DOMAIN tables[t] \ Matching(tables[t], Op(p).where) :
            rows[u] = tables[t][u]
  BY <1>3, <1>4, <1>6, UpdatedKeyed
<1>8. \A u \in DOMAIN rows \ DOMAIN writers[p].old : rows[u] = tables[t][u]
  BY <1>3, <1>7
<1> QED BY <1>1, <1>2, <1>5, <1>7, <1>8, WriteKeeps

\* Transact: a mutate that succeeds.
LEMMA MutateKeeps ==
    ASSUME TablesInv, NEW p \in DOMAIN writers, Mutate(p)
    PROVE  TablesInv'
<1>1. At(p, "write") /\ ThenReread(p) /\ monitors' = monitors
  BY DEF Mutate
<1>2. PICK t, op : t = TableOf(writers[p]) /\ op = writers[p].ops[writers[p].k]
  OBVIOUS
<1>3. /\ Op(p).table = t /\ t \in Tables /\ Keyed(tables[t])
      /\ DOMAIN writers[p].old = Matching(tables[t], Op(p).where)
      /\ WellFormed(op) /\ Op(p).mutations = op.mutations
  BY <1>1, <1>2, WriterWrites
<1>4. PICK us : us = Matching(tables[t], Op(p).where)
  OBVIOUS
<1>5. PICK rows : rows = Mutated(tables[t], us, op.mutations)
  OBVIOUS
<1>6. /\ tables' = [tables EXCEPT ![t] = rows]
      /\ \A u \in us : ~Fails(tables[t][u], op.mutations)
  BY <1>3, <1>4, <1>5 DEF Mutate, Rows
<1>7. /\ Keyed(rows) /\ DOMAIN rows = DOMAIN tables[t]
      /\ \A u \in DOMAIN tables[t] \ us : rows[u] = tables[t][u]
  BY <1>3, <1>5, <1>6, MutatedKeyed
<1>8. \A u \in DOMAIN rows \ DOMAIN writers[p].old : rows[u] = tables[t][u]
  BY <1>3, <1>4, <1>7
<1> QED BY <1>1, <1>2, <1>6, <1>7, <1>8, WriteKeeps

\* Transact: a mutate that stops half way; all its tables are to be undone.
LEMMA MutateFailsKeeps ==
    ASSUME TablesInv, NEW p \in DOMAIN writers, MutateFails(p)
    PROVE  TablesInv'
<1> DEFINE w == writers[p]
<1>1. At(p, "write") /\ monitors' = monitors /\ Op(p).op = "mutate" /\ w.pc = "write"
  BY DEF MutateFails, At
<1>2. PICK t, op : t = TableOf(w) /\ op = w.ops[w.k]
  OBVIOUS
<1>3. /\ Op(p).table = t /\ t \in Tables /\ Keyed(tables[t]) /\ t \in TablesOf(w.ops)
      /\ WellFormed(op) /\ Op(p).mutations = op.mutations /\ op.op = "mutate"
      /\ w.todo = {} /\ RightWriter(w) /\ w.k \in DOMAIN w.ops /\ op.op \in Operations
  BY <1>1, <1>2, WriterWrites
<1>4. PICK where : where = Op(p).where
  OBVIOUS
<1>5. PICK rows \in HalfMutated(tables[t], where, op.mutations) :
          tables' = [tables EXCEPT ![t] = rows]
  BY <1>3, <1>4 DEF MutateFails, Rows
<1>6. Keyed(rows)
  BY <1>3, <1>5, HalfMutatedKeyed
<1>7. PICK v : /\ v = [w EXCEPT !.pc = "rollback"]
               /\ writers' = [writers EXCEPT ![p] = v]
  BY DEF MutateFails
<1>8. DOMAIN w = {"ops", "k", "pc", "snaps", "named", "old", "changes", "todo"}
  BY <1>3 DEF RightWriter
<1>9. /\ DOMAIN v = DOMAIN w /\ v.ops = w.ops /\ v.k = w.k
      /\ v.changes = w.changes /\ v.snaps = w.snaps /\ v.todo = w.todo
      /\ v.pc = "rollback"
  BY <1>7, <1>8
<1>10. MayFail(w.ops)
  BY <1>2, <1>3 DEF MayFail
<1>11. RightWriter(v) /\ v.todo = {}
  <2> HIDE DEF w
  <2> QED BY <1>1, <1>2, <1>3, <1>9, <1>10, PhaseRight
<1>12. TablesKept(TablesOf(v.ops), tables, tables')
  BY <1>3, <1>5, <1>6, <1>9, TableWritten
<1>13. Covers(w, v, tables, tables')
  BY <1>9 DEF Covers, Pending, Unlisted
<1>14. \A m \in DOMAIN monitors : NothingSeen(v, monitors[m])
  BY <1>1, <1>9, NothingNew DEF TablesInv
<1>15. RightRows(v, tables'[TableOf(v)])
  BY <1>9 DEF RightRows
<1>16. \A i \in DOMAIN v.changes :
               \/ i \in DOMAIN w.changes /\ v.changes[i] = w.changes[i]
               \/ ChangeAgrees(v.changes[i], tables'[v.changes[i].table])
  BY <1>9
<1> QED BY <1>1, <1>3, <1>7, <1>9, <1>11, <1>12, <1>13, <1>14, <1>15, <1>16, OperationMoves

\* A writer with more changes, of rows of its table.
LEMMA ChangesRight ==
    ASSUME NEW w, RightWriter(w), w.pc \in {"write", "reread"}, NEW v,
           DOMAIN v = DOMAIN w, v.ops = w.ops, v.k = w.k, v.pc = w.pc,
           v.snaps = w.snaps, v.todo = w.todo, IsSeq(v.changes),
           \A i \in DOMAIN v.changes :
               \/ i \in DOMAIN w.changes /\ v.changes[i] = w.changes[i]
               \/ RightChange(v.changes[i], TablesOf(w.ops))
    PROVE  RightWriter(v)
<1>1. SnapsWhole(v)
  BY DEF SnapsWhole, RightWriter
<1>2. \A i \in DOMAIN v.changes : RightChange(v.changes[i], TablesOf(v.ops))
  BY DEF RightWriter
<1>3. w.todo = {}
  BY DEF RightWriter
<1> QED BY <1>1, <1>2, <1>3 DEF RightWriter, TableOf

\* Transact: a delete lists the rows it has read, in any order.
LEMMA DeleteKeeps ==
    ASSUME TablesInv, NEW p \in DOMAIN writers, Delete(p)
    PROVE  TablesInv'
<1> DEFINE w == writers[p]
<1>1. At(p, "write") /\ monitors' = monitors /\ w.pc = "write"
  BY DEF Delete, At
<1>2. PICK t : t = TableOf(w)
  OBVIOUS
<1>3. /\ Op(p).table = t /\ t \in Tables /\ Keyed(tables[t]) /\ t \in TablesOf(w.ops)
      /\ DOMAIN w.old = Matching(tables[t], Op(p).where)
      /\ w.todo = {} /\ RightWriter(w)
  BY <1>1, <1>2, WriterWrites
<1>4. PICK rows : rows = Deleted(tables[t], Op(p).where)
  OBVIOUS
<1>5. tables' = [tables EXCEPT ![t] = rows]
  BY <1>3, <1>4 DEF Delete
<1>6. /\ Keyed(rows) /\ DOMAIN rows = DOMAIN tables[t] \ DOMAIN w.old
      /\ \A u \in DOMAIN tables[t] \ DOMAIN w.old : rows[u] = tables[t][u]
  <2>1. PICK where : where = Op(p).where
    OBVIOUS
  <2>2. /\ Keyed(rows) /\ DOMAIN rows = DOMAIN tables[t] \ Matching(tables[t], where)
        /\ \A u \in DOMAIN tables[t] \ Matching(tables[t], where) :
              rows[u] = tables[t][u]
    BY <1>3, <1>4, <2>1, DeletedKeyed
  <2> QED BY <1>3, <2>1, <2>2
<1>7. PICK us \in SetToSeqs(DOMAIN w.old) :
          writers' = [writers EXCEPT ![p] = Advance(
              [w EXCEPT !.changes =
                  @ \o [i \in DOMAIN us |-> Change(t, us[i], w.old[us[i]], TRUE)]])]
  BY <1>3 DEF Delete
<1>8. DOMAIN w.old \subseteq Uuids /\ DOMAIN w.old \subseteq DOMAIN tables[t]
  BY <1>3 DEF Keyed, Matching
<1>9. /\ Cardinality(DOMAIN w.old) \in Nat
      /\ DOMAIN us = 1..Cardinality(DOMAIN w.old)
      /\ \A i \in DOMAIN us : us[i] \in DOMAIN w.old
      /\ \A u \in DOMAIN w.old : \E i \in DOMAIN us : us[i] = u
  <2>1. IsFiniteSet(DOMAIN w.old)
    BY <1>8, FS_Subset, TablesAssumption
  <2> HIDE DEF w
  <2> QED BY <2>1, OrdersListAll
<1>10. PICK n \in Nat : DOMAIN us = 1..n
  BY <1>9
<1>11. PICK g : g = [i \in 1..n |-> Change(t, us[i], w.old[us[i]], TRUE)]
  OBVIOUS
<1>12. /\ DOMAIN g = 1..n /\ IsFunction(g)
       /\ \A i \in 1..n : /\ g[i].table = t /\ g[i].uuid = us[i] /\ g[i].gone = TRUE
  BY <1>11 DEF IsFunction, Change
<1>13. PICK l \in Nat : l = Len(w.changes) /\ DOMAIN w.changes = 1..l
  BY <1>3, SeqIsList DEF RightWriter
<1>14. PICK s : s = w.changes \o g
  OBVIOUS
<1>15. /\ IsSeq(s) /\ DOMAIN s = 1..(l + n)
       /\ \A i \in 1..l : s[i] = w.changes[i]
       /\ \A i \in 1..n : s[l + i] = g[i]
  <2>1. IsSeq(w.changes)
    BY <1>3 DEF RightWriter
  <2>2. PICK old : old = w.changes
    OBVIOUS
  <2>3. IsListOf(n, g) /\ IsJoin(s, old, g) /\ IsSeq(old)
    BY <1>12, <1>14, <2>1, <2>2 DEF IsListOf, IsJoin
  <2>4. /\ IsSeq(s)
        /\ DOMAIN s = 1..(Len(old) + n)
        /\ \A i \in DOMAIN old : s[i] = old[i]
        /\ \A i \in 1..n : s[Len(old) + i] = g[i]
    BY <2>3, ConcatList
  <2> QED BY <1>13, <2>2, <2>4
<1>16. PICK v : v = [w EXCEPT !.changes = s]
  OBVIOUS
<1>17. writers' = [writers EXCEPT ![p] = Advance(v)]
  BY <1>7, <1>10, <1>11, <1>14, <1>16
<1>18. DOMAIN w = {"ops", "k", "pc", "snaps", "named", "old", "changes", "todo"}
  BY <1>3 DEF RightWriter
<1>19. /\ DOMAIN v = DOMAIN w /\ v.ops = w.ops /\ v.k = w.k /\ v.pc = w.pc
       /\ v.snaps = w.snaps /\ v.todo = w.todo /\ v.changes = s
  BY <1>16, <1>18
<1>20. \A i \in DOMAIN s : \/ i \in DOMAIN w.changes /\ s[i] = w.changes[i]
                           \/ \E j \in 1..n : s[i] = g[j]
  <2> SUFFICES ASSUME NEW i \in 1..(l + n), i \notin 1..l
               PROVE  \E j \in 1..n : s[i] = g[j]
    BY <1>13, <1>15
  <2>1. i - l \in 1..n /\ l + (i - l) = i
    OBVIOUS
  <2> QED BY <1>15, <2>1
<1>21. \A j \in 1..n : RightChange(g[j], TablesOf(w.ops)) /\ ChangeAgrees(g[j], rows)
  <2> SUFFICES ASSUME NEW j \in 1..n
               PROVE  RightChange(g[j], TablesOf(w.ops)) /\ ChangeAgrees(g[j], rows)
    OBVIOUS
  <2>1. us[j] \in DOMAIN w.old /\ g[j].uuid = us[j] /\ g[j].table = t /\ g[j].gone = TRUE
    BY <1>9, <1>10, <1>12
  <2>2. g[j].uuid \in Uuids /\ g[j].uuid \notin DOMAIN rows
    BY <1>6, <1>8, <2>1
  <2> QED BY <1>3, <2>1, <2>2 DEF RightChange, ChangeAgrees
<1>22. RightWriter(v)
  <2>1. \A i \in DOMAIN v.changes :
               \/ i \in DOMAIN w.changes /\ v.changes[i] = w.changes[i]
               \/ RightChange(v.changes[i], TablesOf(w.ops))
    BY <1>19, <1>20, <1>21
  <2> HIDE DEF w
  <2> QED BY <1>1, <1>3, <1>15, <1>19, <2>1, ChangesRight
<1>23. PICK a : a = Advance(v)
  OBVIOUS
<1>24. /\ RightWriter(a) /\ a.pc \in {"op", "notify"} /\ a.ops = v.ops
       /\ a.changes = s /\ a.snaps = v.snaps /\ a.todo = {}
       /\ \A r : RightRows(a, r)
  BY <1>1, <1>19, <1>22, <1>23, AdvanceRight
<1>25. /\ TablesKept(TablesOf(a.ops), tables, tables')
       /\ tables'[t] = rows
       /\ \A x \in Tables \ {t} : tables'[x] = tables[x]
  BY <1>3, <1>5, <1>6, <1>19, <1>24, TableWritten
<1>26. Covers(w, a, tables, tables')
  <2> SUFFICES ASSUME NEW k \in 0..Len(w.changes), NEW x \in Tables, NEW u,
                      ~Pending(a, k, x, u)
               PROVE  ~Pending(w, k, x, u) /\ SameRow(tables[x], tables'[x], u)
    BY DEF Covers
  <2>1. \A i \in 1..(l + n) : i > k => ~ChangeOf(s[i], x, u)
    BY <1>15, <1>24 DEF Pending
  <2>2. ~Pending(w, k, x, u)
    BY <1>1, <1>13, <1>15, <2>1 DEF Pending, Unlisted
  <2>3. x # t \/ u \notin DOMAIN w.old
    <3> SUFFICES ASSUME x = t, u \in DOMAIN w.old PROVE FALSE
      OBVIOUS
    <3>1. PICK j \in 1..n : us[j] = u
      BY <1>9, <1>10
    <3>2. k \in 0..l
      BY <1>13
    <3>3. l + j \in 1..(l + n) /\ l + j > k
      BY <3>2
    <3>4. s[l + j] = g[j]
      BY <1>15
    <3> QED BY <1>12, <2>1, <3>1, <3>3, <3>4 DEF ChangeOf
  <2>4. SameRow(tables[x], tables'[x], u)
    BY <1>6, <1>25, <2>3 DEF SameRow
  <2> QED BY <2>2, <2>4
<1>27. \A m \in DOMAIN monitors : NothingSeen(a, monitors[m])
  BY <1>1, <1>19, <1>24, NothingNew DEF TablesInv
<1>28. \A i \in DOMAIN a.changes :
               \/ i \in DOMAIN w.changes /\ a.changes[i] = w.changes[i]
               \/ ChangeAgrees(a.changes[i], tables'[a.changes[i].table])
  BY <1>12, <1>20, <1>21, <1>24, <1>25
<1>29. RightRows(a, tables'[TableOf(a)])
  BY <1>24
<1> QED BY <1>1, <1>3, <1>17, <1>19, <1>23, <1>24, <1>25, <1>26, <1>27, <1>28, <1>29, OperationMoves

\* Transact: the row read again is what will be announced.
LEMMA RereadKeeps ==
    ASSUME TablesInv, NEW p \in DOMAIN writers, NEW u \in Uuids, Reread(p, u)
    PROVE  TablesInv'
<1> DEFINE w == writers[p]
<1>1. w.pc = "reread" /\ u \in DOMAIN w.old /\ tables' = tables /\ monitors' = monitors
  BY DEF Reread, At
<1>2. PICK t : t = TableOf(w)
  OBVIOUS
<1>3. RightWriter(w) /\ RightRows(w, tables[t])
  BY <1>2 DEF TablesInv
<1>4. /\ Op(p).table = t /\ t \in TablesOf(w.ops) /\ w.todo = {}
  BY <1>1, <1>2, OpFacts DEF At
<1>5. /\ t \in Tables /\ DOMAIN w.old \subseteq DOMAIN tables[t]
  BY <1>1, <1>2, <1>3 DEF RightWriter, RightRows
<1>6. Keyed(tables[t])
  BY <1>5 DEF TablesInv
<1>7. PICK ch : ch = Change(t, u, tables[t][u], FALSE)
  OBVIOUS
<1>8. /\ ch.table = t /\ ch.uuid = u /\ ch.row = tables[t][u] /\ ch.gone = FALSE
  BY <1>7 DEF Change
<1>9. RightChange(ch, TablesOf(w.ops)) /\ ChangeAgrees(ch, tables[t])
  <2>1. HasId(tables[t][u], u)
    BY <1>1, <1>5, <1>6, KeyedRows
  <2> QED BY <1>1, <1>4, <1>5, <1>8, <2>1 DEF RightChange, ChangeAgrees
<1>10. PICK l \in Nat : l = Len(w.changes) /\ DOMAIN w.changes = 1..l
  BY <1>3, SeqIsList DEF RightWriter
<1>11. PICK s : s = Append(w.changes, ch)
  OBVIOUS
<1>12. /\ IsSeq(s) /\ DOMAIN s = 1..(l + 1)
       /\ \A i \in 1..l : s[i] = w.changes[i]
       /\ s[l + 1] = ch
  <2>1. IsSeq(w.changes)
    BY <1>3 DEF RightWriter
  <2>2. PICK old : old = w.changes
    OBVIOUS
  <2>3. /\ IsSeq(Append(old, ch))
        /\ DOMAIN Append(old, ch) = 1..(Len(old) + 1)
        /\ \A i \in DOMAIN old : Append(old, ch)[i] = old[i]
        /\ Append(old, ch)[Len(old) + 1] = ch
    BY <2>1, <2>2, AppendList
  <2> QED BY <1>10, <1>11, <2>2, <2>3
<1>13. PICK v : v = [w EXCEPT !.changes = s, !.old = Drop(@, u)]
  OBVIOUS
<1>14. writers' = [writers EXCEPT
                     ![p] = IF v.old = EmptyMap THEN Advance(v) ELSE v]
  <2>1. GetRow(Op(p).table, u) = tables[t][u]
    BY <1>1, <1>4, <1>5 DEF GetRow
  <2>2. v = [w EXCEPT !.changes = Append(@, Change(Op(p).table, u,
                                             GetRow(Op(p).table, u), FALSE)),
                       !.old = Drop(@, u)]
    BY <1>4, <1>7, <1>11, <1>13, <2>1
  <2> QED BY <2>2 DEF Reread
<1>15. DOMAIN w = {"ops", "k", "pc", "snaps", "named", "old", "changes", "todo"}
  BY <1>3 DEF RightWriter
<1>16. /\ DOMAIN v = DOMAIN w /\ v.ops = w.ops /\ v.k = w.k /\ v.pc = w.pc
       /\ v.snaps = w.snaps /\ v.todo = w.todo /\ v.changes = s
       /\ v.old = Drop(w.old, u)
  BY <1>13, <1>15
<1>17. DOMAIN v.old = DOMAIN w.old \ {u}
  BY <1>16 DEF Drop, Restrict
<1>18. \A i \in DOMAIN s : \/ i \in DOMAIN w.changes /\ s[i] = w.changes[i]
                           \/ s[i] = ch
  BY <1>10, <1>12
<1>19. RightWriter(v)
  <2>1. \A i \in DOMAIN v.changes :
               \/ i \in DOMAIN w.changes /\ v.changes[i] = w.changes[i]
               \/ RightChange(v.changes[i], TablesOf(w.ops))
    BY <1>9, <1>16, <1>18
  <2> HIDE DEF w
  <2> QED BY <1>1, <1>3, <1>12, <1>16, <2>1, ChangesRight
<1>20. PICK a : a = IF v.old = EmptyMap THEN Advance(v) ELSE v
  OBVIOUS
<1>21. /\ RightWriter(a) /\ a.ops = w.ops
       /\ a.changes = s /\ a.snaps = w.snaps /\ a.todo = {}
       /\ RightRows(a, tables[TableOf(a)])
       /\ \/ a.pc \in {"op", "notify"} /\ DOMAIN v.old = {}
          \/ a.pc = "reread" /\ a.old = v.old /\ TableOf(a) = t
  <2>1. CASE v.old = EmptyMap
    <3>1. a = Advance(v) /\ DOMAIN v.old = {}
      BY <1>20, <2>1 DEF EmptyMap
    <3>2. /\ RightWriter(a) /\ a.pc \in {"op", "notify"} /\ a.ops = v.ops
          /\ a.changes = v.changes /\ a.snaps = v.snaps /\ a.todo = {}
          /\ \A r : RightRows(a, r)
      BY <1>1, <1>16, <1>19, <3>1, AdvanceRight
    <3> QED BY <1>16, <3>1, <3>2
  <2>2. CASE v.old # EmptyMap
    <3>1. a = v
      BY <1>20, <2>2
    <3>2. TableOf(v) = t
      BY <1>2, <1>16 DEF TableOf
    <3>3. RightRows(v, tables[TableOf(v)])
      BY <1>1, <1>5, <1>16, <1>17, <3>2 DEF RightRows
    <3> QED BY <1>1, <1>4, <1>16, <1>19, <3>1, <3>2, <3>3
  <2> QED BY <2>1, <2>2
<1>22. Covers(w, a, tables, tables')
  <2> SUFFICES ASSUME NEW k \in 0..Len(w.changes), NEW x \in Tables, NEW y,
                      ~Pending(a, k, x, y)
               PROVE  ~Pending(w, k, x, y) /\ SameRow(tables[x], tables'[x], y)
    BY DEF Covers
  <2>1. \A i \in 1..(l + 1) : i > k => ~ChangeOf(s[i], x, y)
    BY <1>12, <1>21 DEF Pending
  <2>2. l + 1 \in 1..(l + 1) /\ l + 1 > k
    BY <1>10
  <2>3. x # t \/ y # u
    BY <1>8, <1>12, <2>1, <2>2 DEF ChangeOf
  <2>4. x # t \/ y \notin DOMAIN w.old
    BY <1>17, <1>21, <2>3 DEF Pending, Unlisted
  <2>5. ~Unlisted(w, x, y)
    BY <1>1, <1>2, <2>4 DEF Unlisted
  <2>6. ~Pending(w, k, x, y)
    BY <1>10, <1>12, <2>1, <2>5 DEF Pending
  <2> QED BY <1>1, <2>6 DEF SameRow
<1>23. \A m \in DOMAIN monitors : NothingSeen(a, monitors[m])
  BY <1>1, <1>21, NothingNew DEF TablesInv
<1>24. \A i \in DOMAIN a.changes :
               \/ i \in DOMAIN w.changes /\ a.changes[i] = w.changes[i]
               \/ ChangeAgrees(a.changes[i], tables'[a.changes[i].table])
  BY <1>1, <1>8, <1>9, <1>18, <1>21
<1>25. TablesKept(TablesOf(a.ops), tables, tables')
  BY <1>1, SameTables
<1>26. writers' = [writers EXCEPT ![p] = a] /\ RightRows(a, tables'[TableOf(a)])
  BY <1>1, <1>14, <1>20, <1>21
<1> QED BY <1>1, <1>4, <1>21, <1>22, <1>23, <1>24, <1>25, <1>26, OperationMoves

\* Transact: the copies are written back; every monitor still shows them.
LEMMA RollbackKeeps ==
    ASSUME TablesInv, NEW p \in DOMAIN writers, Rollback(p)
    PROVE  TablesInv'
<1> DEFINE w == writers[p]
<1>1. /\ w.pc = "rollback" \/ (w.pc = "op" /\ ~Known(p))
      /\ writers' = Drop(writers, p) /\ monitors' = monitors
      /\ tables' = [t \in Tables |-> IF t \in DOMAIN w.snaps
                                     THEN w.snaps[t] ELSE tables[t]]
  BY DEF Rollback, At
<1>2. RightWriter(w)
  BY DEF TablesInv
<1>3. MayFail(w.ops)
  <2>1. CASE w.pc = "rollback"
    BY <1>2, <2>1 DEF RightWriter
  <2>2. CASE w.pc = "op" /\ ~Known(p)
    <3>1. /\ w.k \in DOMAIN w.ops /\ Op(p).op = w.ops[w.k].op
          /\ Op(p).table = TableOf(w)
      BY <2>2, OpFacts DEF At
    <3> QED BY <2>2, <3>1 DEF Known, MayFail, TableOf
  <2> QED BY <1>1, <2>1, <2>2
<1>4. /\ DOMAIN w.snaps = TablesOf(w.ops) \cap Tables
      /\ \A t \in DOMAIN w.snaps : Keyed(w.snaps[t])
  BY <1>1, <1>2, <1>3 DEF RightWriter, SnapsWhole
<1>5. TablesKept(TablesOf(w.ops), tables, tables')
  BY <1>1, <1>4 DEF TablesKept, TablesInv
<1>6. \A m \in DOMAIN monitors :
          \A t \in Shown(monitors[m]) \cap TablesOf(w.ops) : \A u :
              RowAgrees(monitors[m].view[t], tables'[t], monitors[m].request[t], u)
  <2> SUFFICES ASSUME NEW m \in DOMAIN monitors,
                      NEW t \in Shown(monitors[m]) \cap TablesOf(w.ops), NEW u
               PROVE  RowAgrees(monitors[m].view[t], tables'[t],
                                monitors[m].request[t], u)
    OBVIOUS
  <2>1. t \in Tables
    BY DEF TablesInv, RightMonitor, Shown
  <2>2. t \in DOMAIN w.snaps /\ tables'[t] = w.snaps[t]
    BY <1>1, <1>4, <2>1
  <2>3. NothingSeen(w, monitors[m])
    BY DEF TablesInv
  <2> QED BY <1>1, <1>3, <2>2, <2>3 DEF NothingSeen
<1> QED BY <1>1, <1>5, <1>6, WriterEnds

\* Transact: the reply, when everything is announced.
LEMMA ReplyKeeps ==
    ASSUME TablesInv, NEW p \in DOMAIN writers, Reply(p)
    PROVE  TablesInv'
<1> DEFINE w == writers[p]
<1>1. /\ w.pc = "notify" /\ w.changes = <<>>
      /\ writers' = Drop(writers, p) /\ monitors' = monitors /\ tables' = tables
  BY DEF Reply, At
<1>2. DOMAIN w.changes = {}
  BY <1>1, EmptyList
<1>3. \A n, t, u : ~Pending(w, n, t, u)
  BY <1>1, <1>2 DEF Pending, Unlisted
<1>4. TablesKept(TablesOf(w.ops), tables, tables')
  BY <1>1, SameTables
<1>5. \A m \in DOMAIN monitors : Informed(m, monitors[m], w, tables)
  BY OwnTables
<1>6. \A m \in DOMAIN monitors :
          \A t \in Shown(monitors[m]) \cap TablesOf(w.ops) : \A u :
              RowAgrees(monitors[m].view[t], tables'[t], monitors[m].request[t], u)
  BY <1>1, <1>3, <1>5 DEF Informed
<1> QED BY <1>1, <1>4, <1>6, WriterEnds

-----------------------------------------------------------------------------
(* Announcements.                                                          *)

\* A writer that has told everybody of its first change.
LEMMA AnnouncedRight ==
    ASSUME NEW w, RightWriter(w), w.pc = "notify", Len(w.changes) > 0,
           NEW tabs, LastAgrees(w, tabs), NEW a, a = Announced(w)
    PROVE  /\ RightWriter(a) /\ LastAgrees(a, tabs)
           /\ a.ops = w.ops /\ a.pc = "notify" /\ a.todo = {}
           /\ \A t, u : Pending(w, 1, t, u) => Pending(a, 0, t, u)
<1>1. DOMAIN w = {"ops", "k", "pc", "snaps", "named", "old", "changes", "todo"}
      /\ IsSeq(w.changes)
  BY DEF RightWriter
<1>2. PICK s, b : s = w.changes /\ b = Tail(s)
  OBVIOUS
<1>3. /\ DOMAIN a = DOMAIN w /\ a.ops = w.ops /\ a.k = w.k /\ a.pc = w.pc
      /\ a.snaps = w.snaps /\ a.changes = b /\ a.todo = {}
  BY <1>1, <1>2 DEF Announced
<1>4. PICK l \in Nat : l = Len(s) /\ DOMAIN s = 1..l /\ l > 0
  BY <1>1, <1>2, SeqIsList
<1>5. /\ IsSeq(b) /\ DOMAIN b = 1..(l - 1)
      /\ \A i \in 1..(l - 1) : b[i] = s[i + 1]
  BY <1>1, <1>2, <1>4, TailList
<1>6. \A i \in 1..(l - 1) : i + 1 \in DOMAIN s
  BY <1>4
<1>7. SnapsWhole(a)
  BY <1>3 DEF RightWriter, SnapsWhole
<1>8. \A i \in DOMAIN s : RightChange(s[i], TablesOf(w.ops))
  BY <1>2 DEF RightWriter
<1>9. \A i \in DOMAIN a.changes : RightChange(a.changes[i], TablesOf(a.ops))
  BY <1>3, <1>5, <1>6, <1>8
<1>10. RightWriter(a)
  BY <1>3, <1>5, <1>7, <1>9 DEF RightWriter
<1>11. \A n \in Nat : \A t, u : Pending(w, n + 1, t, u) => Pending(a, n, t, u)
  <2> SUFFICES ASSUME NEW n \in Nat, NEW t, NEW u, Pending(w, n + 1, t, u)
               PROVE  Pending(a, n, t, u)
    OBVIOUS
  <2>1. PICK i \in 1..l : i > n + 1 /\ ChangeOf(s[i], t, u)
    BY <1>2, <1>4 DEF Pending, Unlisted
  <2>2. i - 1 \in 1..(l - 1) /\ i - 1 > n /\ (i - 1) + 1 = i
    BY <2>1
  <2>3. b[i - 1] = s[i]
    BY <1>5, <2>2
  <2> QED BY <1>3, <1>5, <2>1, <2>2, <2>3 DEF Pending
<1>12. LastAgrees(a, tabs)
  <2> SUFFICES ASSUME NEW i \in 1..(l - 1), NEW ch, ch = b[i],
                      ~Pending(a, i, ch.table, ch.uuid)
               PROVE  ChangeAgrees(ch, tabs[ch.table])
    BY <1>3, <1>5 DEF LastAgrees
  <2>1. ~Pending(w, i + 1, ch.table, ch.uuid)
    BY <1>11
  <2>2. ch = s[i + 1] /\ i + 1 \in DOMAIN s
    BY <1>5, <1>6
  <2> QED BY <1>2, <2>1, <2>2 DEF LastAgrees
<1>13. \A t, u : Pending(w, 1, t, u) => Pending(a, 0, t, u)
  BY <1>11
<1> QED BY <1>3, <1>10, <1>12, <1>13

\* A writer that has begun, or gone on, to tell of its first change.
Telling(w, todo) == [w EXCEPT !.todo = todo]

\* A writer that begins to tell of its first change.
LEMMA TellingRight ==
    ASSUME NEW w, RightWriter(w), w.pc = "notify", Len(w.changes) > 0,
           NEW tabs, LastAgrees(w, tabs), NEW todo, NEW v, v = Telling(w, todo)
    PROVE  /\ RightWriter(v) /\ LastAgrees(v, tabs)
           /\ v.ops = w.ops /\ v.pc = "notify" /\ v.todo = todo
           /\ v.changes = w.changes
           /\ \A n, t, u : Pending(v, n, t, u) <=> Pending(w, n, t, u)
<1>1. DOMAIN w = {"ops", "k", "pc", "snaps", "named", "old", "changes", "todo"}
  BY DEF RightWriter
<1>2. /\ DOMAIN v = DOMAIN w /\ v.ops = w.ops /\ v.k = w.k /\ v.pc = w.pc
      /\ v.snaps = w.snaps /\ v.changes = w.changes /\ v.todo = todo
  BY <1>1 DEF Telling
<1>3. SnapsWhole(v)
  BY <1>2 DEF RightWriter, SnapsWhole
<1>4. RightWriter(v)
  BY <1>2, <1>3 DEF RightWriter
<1>5. \A n, t, u : Pending(v, n, t, u) <=> Pending(w, n, t, u)
  BY <1>2 DEF Pending, Unlisted
<1>6. LastAgrees(v, tabs)
  BY <1>2, <1>5 DEF LastAgrees
<1> QED BY <1>2, <1>4, <1>5, <1>6

\* The first change is of no concern to a monitor that does not watch its
\* table.
LEMMA FirstUnwatched ==
    ASSUME NEW w, RightWriter(w), w.pc = "notify", NEW t, w.changes[1].table # t,
           NEW u, Pending(w, 0, t, u)
    PROVE  Pending(w, 1, t, u)
<1>1. DOMAIN w.changes = 1..Len(w.changes) /\ Len(w.changes) \in Nat
  BY SeqIsList DEF RightWriter
<1>2. PICK i \in DOMAIN w.changes : ChangeOf(w.changes[i], t, u)
  BY DEF Pending, Unlisted
<1>3. i # 1
  BY <1>2 DEF ChangeOf
<1>4. i > 1
  BY <1>1, <1>3
<1> QED BY <1>2, <1>4 DEF Pending

\* NotifyChange: whom to tell of the first change, if anyone.
LEMMA NotifyKeeps ==
    ASSUME TablesInv, NEW p \in DOMAIN writers, Notify(p)
    PROVE  TablesInv'
<1> DEFINE w == writers[p]
<1>1. /\ w.pc = "notify" /\ w.changes # <<>> /\ w.todo = {}
      /\ tables' = tables /\ monitors' = monitors
  BY DEF Notify, At
<1>2. RightWriter(w) /\ LastAgrees(w, tables)
  BY DEF TablesInv
<1>3. IsSeq(w.changes)
  BY <1>2 DEF RightWriter
<1>4. Len(w.changes) > 0
  BY <1>1, <1>3, SeqIsList
<1>5. Head(w.changes) = w.changes[1]
  BY <1>3, <1>4, TailList
<1>6. PICK told : told = {m \in DOMAIN monitors :
                             w.changes[1].table \in DOMAIN monitors[m].request}
  OBVIOUS
<1>7. PICK v : /\ v = IF told = {} THEN Announced(w) ELSE [w EXCEPT !.todo = told]
               /\ writers' = [writers EXCEPT ![p] = v]
  BY <1>5, <1>6 DEF Notify, Told
<1>8. \A m \in DOMAIN monitors : \A t \in Shown(monitors[m]) : \A u :
          m \notin told /\ Pending(w, 0, t, u) => Pending(w, 1, t, u)
  <2> SUFFICES ASSUME NEW m \in DOMAIN monitors, NEW t \in Shown(monitors[m]), NEW u,
                      m \notin told, Pending(w, 0, t, u)
               PROVE  Pending(w, 1, t, u)
    OBVIOUS
  <2>1. w.changes[1].table # t
    BY <1>6 DEF Shown
  <2> HIDE DEF w
  <2> QED BY <1>1, <1>2, <2>1, FirstUnwatched
<1>9. /\ RightWriter(v) /\ LastAgrees(v, tables) /\ v.ops = w.ops /\ v.pc = "notify"
      /\ Watching(v, monitors)
      /\ \A m \in DOMAIN monitors : \A t \in Shown(monitors[m]) : \A u :
            Pending(w, 0, t, u) => Pending(v, Past(v, m), t, u)
  <2>1. CASE told = {}
    <3>1. v = Announced(w)
      BY <1>7, <2>1
    <3>2. /\ RightWriter(v) /\ LastAgrees(v, tables)
          /\ v.ops = w.ops /\ v.pc = "notify" /\ v.todo = {}
          /\ \A t, u : Pending(w, 1, t, u) => Pending(v, 0, t, u)
      <4> HIDE DEF w
      <4> QED BY <1>1, <1>2, <1>4, <3>1, AnnouncedRight
    <3>3. \A m : Past(v, m) = 0
      BY <3>2 DEF Past
    <3>4. Watching(v, monitors)
      BY <3>2 DEF Watching
    <3> QED BY <1>8, <2>1, <3>2, <3>3, <3>4
  <2>2. CASE told # {}
    <3>1. v = Telling(w, told)
      BY <1>7, <2>2 DEF Telling
    <3>2. /\ RightWriter(v) /\ LastAgrees(v, tables)
          /\ v.ops = w.ops /\ v.pc = "notify" /\ v.todo = told
          /\ v.changes = w.changes
          /\ \A n, t, u : Pending(v, n, t, u) <=> Pending(w, n, t, u)
      <4> HIDE DEF w
      <4> QED BY <1>1, <1>2, <1>4, <3>1, TellingRight
    <3>3. \A m : Past(v, m) = IF m \notin told THEN 1 ELSE 0
      BY <2>2, <3>2 DEF Past
    <3>4. Watching(v, monitors)
      BY <1>6, <3>2 DEF Watching
    <3> QED BY <1>8, <3>2, <3>3, <3>4
  <2> QED BY <2>1, <2>2
<1>10. \A m \in DOMAIN monitors : Informed(m, monitors'[m], v, tables')
  <2>1. \A m : Past(w, m) = 0
    BY <1>1 DEF Past
  <2>2. \A m \in DOMAIN monitors : Informed(m, monitors[m], w, tables)
    BY OwnTables
  <2> QED BY <1>1, <1>9, <2>1, <2>2 DEF Informed
<1>11. TablesKept(TablesOf(v.ops), tables, tables')
  BY <1>1, SameTables
<1>12. \A m \in DOMAIN monitors :
          MonitorKept(TablesOf(v.ops), monitors[m], monitors'[m])
  BY <1>1 DEF MonitorKept, TablesInv
<1>13. \A m \in DOMAIN monitors : NothingSeen(v, monitors'[m])
  BY <1>9 DEF NothingSeen
<1>14. RightRows(v, tables'[TableOf(v)])
  BY <1>9 DEF RightRows
<1>15. LastAgrees(v, tables') /\ DOMAIN monitors' = DOMAIN monitors
  BY <1>1, <1>9
<1>16. \A m \in DOMAIN monitors :
               /\ MonitorKept(TablesOf(v.ops), monitors[m], monitors'[m])
               /\ Informed(m, monitors'[m], v, tables')
               /\ NothingSeen(v, monitors'[m])
  BY <1>10, <1>12, <1>13
<1> QED BY <1>7, <1>9, <1>11, <1>14, <1>15, <1>16, WriterMoves

\* What a client makes of a change.
LEMMA AppliedRight ==
    ASSUME NEW view, Keyed(view), NEW ch, NEW ts, RightChange(ch, ts), NEW columns,
           NEW more, more = Applied(view, ch, columns)
    PROVE  /\ IsFunction(more) /\ Keyed(more)
           /\ \A u : u # ch.uuid => /\ u \in DOMAIN more <=> u \in DOMAIN view
                                    /\ u \in DOMAIN view => more[u] = view[u]
           /\ \A rows : ChangeAgrees(ch, rows) =>
                 RowAgrees(more, rows, columns, ch.uuid)
<1>1. ch.gone \in BOOLEAN /\ ch.uuid \in Uuids
      /\ (~ch.gone => HasId(ch.row, ch.uuid))
  BY DEF RightChange
<1>2. DOMAIN view \subseteq Uuids /\ \A u \in DOMAIN view : HasId(view[u], u)
  BY KeyedRows
<1>3. CASE ch.gone
  <2>1. more = [x \in DOMAIN view \ {ch.uuid} |-> view[x]]
    BY <1>3 DEF Applied, Drop, Restrict
  <2>2. DOMAIN more = DOMAIN view \ {ch.uuid}
        /\ \A u \in DOMAIN more : more[u] = view[u]
    BY <2>1
  <2>3. IsFunction(more)
    BY <2>1 DEF IsFunction
  <2>4. Keyed(more)
    BY <1>2, <2>2, KeyedRows
  <2>5. \A rows : ChangeAgrees(ch, rows) => RowAgrees(more, rows, columns, ch.uuid)
    BY <1>3, <2>2 DEF ChangeAgrees, RowAgrees
  <2> QED BY <2>2, <2>3, <2>4, <2>5
<1>4. CASE ~ch.gone
  <2>1. PICK row : row = FilterColumns(ch.row, columns)
    OBVIOUS
  <2>2. more = [x \in DOMAIN view \cup {ch.uuid} |->
                   IF x = ch.uuid THEN row ELSE view[x]]
    BY <1>4, <2>1 DEF Applied, Put
  <2>3. DOMAIN more = DOMAIN view \cup {ch.uuid} /\ more[ch.uuid] = row
        /\ \A u \in DOMAIN view \ {ch.uuid} : more[u] = view[u]
    BY <2>2
  <2>4. IsFunction(more)
    BY <2>2 DEF IsFunction
  <2>5. HasId(row, ch.uuid)
    BY <1>1, <1>4, <2>1, FilterKeepsId
  <2>6. \A u \in DOMAIN more : HasId(more[u], u)
    BY <1>2, <2>3, <2>5
  <2>7. Keyed(more)
    BY <1>1, <1>2, <2>3, <2>6, KeyedRows
  <2>8. \A rows : ChangeAgrees(ch, rows) => RowAgrees(more, rows, columns, ch.uuid)
    BY <1>4, <2>1, <2>3 DEF ChangeAgrees, RowAgrees
  <2> QED BY <2>3, <2>4, <2>7, <2>8
<1> QED BY <1>1, <1>3, <1>4

\* The monitor that is told of a change.
Informing(r, ch) ==
    [r EXCEPT !.view[ch.table] = Applied(@, ch, r.request[ch.table])]

\* A monitor that is told of a change shows the row as it was announced.
LEMMA ToldRight ==
    ASSUME NEW r, RightMonitor(r), NEW ch, NEW ts, RightChange(ch, ts),
           ch.table \in DOMAIN r.request, NEW s, s = Informing(r, ch)
    PROVE  /\ MonitorKept(ts, r, s)
           /\ \A t \in DOMAIN r.request : \A u :
                 t # ch.table \/ u # ch.uuid =>
                     /\ u \in DOMAIN s.view[t] <=> u \in DOMAIN r.view[t]
                     /\ u \in DOMAIN r.view[t] => s.view[t][u] = r.view[t][u]
           /\ \A rows : ChangeAgrees(ch, rows) =>
                 RowAgrees(s.view[ch.table], rows, r.request[ch.table], ch.uuid)
<1>1. /\ DOMAIN r = {"request", "left", "view", "refused"}
      /\ DOMAIN r.view = DOMAIN r.request
      /\ \A t \in DOMAIN r.view : IsFunction(r.view[t]) /\ Keyed(r.view[t])
  BY DEF RightMonitor
<1>2. PICK more : more = Applied(r.view[ch.table], ch, r.request[ch.table])
  OBVIOUS
<1>3. /\ IsFunction(more) /\ Keyed(more)
      /\ \A u : u # ch.uuid => /\ u \in DOMAIN more <=> u \in DOMAIN r.view[ch.table]
                               /\ u \in DOMAIN r.view[ch.table] =>
                                     more[u] = r.view[ch.table][u]
      /\ \A rows : ChangeAgrees(ch, rows) =>
                 RowAgrees(more, rows, r.request[ch.table], ch.uuid)
  <2>1. PICK view, columns : view = r.view[ch.table] /\ columns = r.request[ch.table]
    OBVIOUS
  <2>2. Keyed(view) /\ more = Applied(view, ch, columns)
    BY <1>1, <1>2, <2>1
  <2>3. /\ IsFunction(more) /\ Keyed(more)
        /\ \A u : u # ch.uuid => /\ u \in DOMAIN more <=> u \in DOMAIN view
                                 /\ u \in DOMAIN view => more[u] = view[u]
        /\ \A rows : ChangeAgrees(ch, rows) => RowAgrees(more, rows, columns, ch.uuid)
    BY <2>2, AppliedRight
  <2> QED BY <2>1, <2>3
<1>4. s = [r EXCEPT !.view = [r.view EXCEPT ![ch.table] = more]]
  BY <1>2 DEF Informing
<1>5. /\ DOMAIN s = DOMAIN r /\ s.request = r.request /\ s.left = r.left
      /\ s.refused = r.refused /\ s.view = [r.view EXCEPT ![ch.table] = more]
  BY <1>1, <1>4
<1>6. /\ DOMAIN s.view = DOMAIN r.request /\ s.view[ch.table] = more
      /\ \A t \in DOMAIN r.request \ {ch.table} : s.view[t] = r.view[t]
  BY <1>1, <1>5
<1>7. \A t \in DOMAIN s.view : IsFunction(s.view[t]) /\ Keyed(s.view[t])
  BY <1>1, <1>3, <1>6
<1>8. RightMonitor(s)
  BY <1>5, <1>6, <1>7 DEF RightMonitor
<1>9. ch.table \in ts
  BY DEF RightChange
<1>10. MonitorKept(ts, r, s)
  BY <1>5, <1>6, <1>8, <1>9 DEF MonitorKept
<1> QED BY <1>3, <1>6, <1>10

\* NotifyChange: one notification.
LEMMA SendNotificationKeeps ==
    ASSUME TablesInv, NEW p \in DOMAIN writers, NEW m \in DOMAIN monitors,
           SendNotification(p, m)
    PROVE  TablesInv'
<1> DEFINE w == writers[p]
<1>1. m \in w.todo /\ tables' = tables
  BY DEF SendNotification
<1>2. RightWriter(w) /\ LastAgrees(w, tables) /\ Watching(w, monitors)
  BY DEF TablesInv
<1>3. w.pc = "notify" /\ Len(w.changes) > 0 /\ IsSeq(w.changes)
  BY <1>1, <1>2 DEF RightWriter
<1>4. PICK ch : ch = w.changes[1]
  OBVIOUS
<1>5. Head(w.changes) = ch /\ 1 \in DOMAIN w.changes
  BY <1>3, <1>4, TailList
<1>6. RightChange(ch, TablesOf(w.ops)) /\ ch.table \in DOMAIN monitors[m].request
  BY <1>1, <1>2, <1>4, <1>5 DEF RightWriter, Watching
<1>7. PICK r : r = monitors[m]
  OBVIOUS
<1>8. PICK s : s = Informing(r, ch)
  OBVIOUS
<1>9. monitors' = [monitors EXCEPT ![m] = s]
  BY <1>5, <1>7, <1>8 DEF SendNotification, Informing
<1>10. /\ DOMAIN monitors' = DOMAIN monitors /\ monitors'[m] = s
       /\ \A x \in DOMAIN monitors : x # m => monitors'[x] = monitors[x]
  BY <1>9
<1>11. RightMonitor(r) /\ ch.table \in DOMAIN r.request
  BY <1>6, <1>7 DEF TablesInv
<1>12. /\ MonitorKept(TablesOf(w.ops), r, s)
       /\ \A t \in DOMAIN r.request : \A u :
             t # ch.table \/ u # ch.uuid =>
                     /\ u \in DOMAIN s.view[t] <=> u \in DOMAIN r.view[t]
                     /\ u \in DOMAIN r.view[t] => s.view[t][u] = r.view[t][u]
       /\ \A rows : ChangeAgrees(ch, rows) =>
                 RowAgrees(s.view[ch.table], rows, r.request[ch.table], ch.uuid)
  <2> HIDE DEF w
  <2> QED BY <1>6, <1>8, <1>11, ToldRight
<1>13. PICK v : /\ v = IF w.todo = {m} THEN Announced(w) ELSE Telling(w, w.todo \ {m})
                /\ writers' = [writers EXCEPT ![p] = v]
  BY DEF SendNotification, Telling
<1>14. /\ RightWriter(v) /\ LastAgrees(v, tables) /\ v.ops = w.ops /\ v.pc = "notify"
       /\ Watching(v, monitors)
       /\ \A t, u : Pending(w, 1, t, u) => Pending(v, Past(v, m), t, u)
       /\ \A x : x # m => \A t, u :
             Pending(w, Past(w, x), t, u) => Pending(v, Past(v, x), t, u)
  <2>1. CASE w.todo = {m}
    <3>1. v = Announced(w)
      BY <1>13, <2>1
    <3>2. /\ RightWriter(v) /\ LastAgrees(v, tables)
          /\ v.ops = w.ops /\ v.pc = "notify" /\ v.todo = {}
          /\ \A t, u : Pending(w, 1, t, u) => Pending(v, 0, t, u)
      <4> HIDE DEF w
      <4> QED BY <1>2, <1>3, <3>1, AnnouncedRight
    <3>3. \A x : Past(v, x) = 0
      BY <3>2 DEF Past
    <3>4. \A x : x # m => Past(w, x) = 1
      BY <2>1 DEF Past
    <3>5. Watching(v, monitors)
      BY <3>2 DEF Watching
    <3> QED BY <3>2, <3>3, <3>4, <3>5
  <2>2. CASE w.todo # {m}
    <3>1. PICK todo : todo = w.todo \ {m}
      OBVIOUS
    <3>2. v = Telling(w, todo)
      BY <1>13, <2>2, <3>1
    <3>3. /\ RightWriter(v) /\ LastAgrees(v, tables)
          /\ v.ops = w.ops /\ v.pc = "notify" /\ v.todo = todo
          /\ v.changes = w.changes
          /\ \A n, t, u : Pending(v, n, t, u) <=> Pending(w, n, t, u)
      <4> HIDE DEF w
      <4> QED BY <1>2, <1>3, <3>2, TellingRight
    <3>4. todo # {} /\ m \notin todo
      BY <1>1, <2>2, <3>1
    <3>5. Past(v, m) = 1
      BY <3>3, <3>4 DEF Past
    <3>6. \A x : x # m => Past(v, x) = Past(w, x)
      BY <1>1, <3>1, <3>3, <3>4 DEF Past
    <3>7. Watching(v, monitors)
      BY <1>2, <3>1, <3>3 DEF Watching
    <3> QED BY <3>3, <3>5, <3>6, <3>7
  <2> QED BY <2>1, <2>2
<1>15. \A x \in DOMAIN monitors :
          MonitorKept(TablesOf(v.ops), monitors[x], monitors'[x])
  <2>1. \A x \in DOMAIN monitors :
          MonitorKept(TablesOf(v.ops), monitors[x], monitors[x])
    BY DEF MonitorKept, TablesInv
  <2> QED BY <1>7, <1>10, <1>12, <1>14, <2>1
<1>16. \A x \in DOMAIN monitors : Informed(x, monitors[x], w, tables)
  BY OwnTables
<1>17. Informed(m, s, v, tables)
  <2> SUFFICES ASSUME NEW t \in Shown(s) \cap TablesOf(w.ops), NEW u,
                      ~Pending(v, Past(v, m), t, u)
               PROVE  RowAgrees(s.view[t], tables[t], s.request[t], u)
    BY <1>14 DEF Informed
  <2>1. ~Pending(w, 1, t, u)
    BY <1>14
  <2>2. s.request = r.request /\ t \in Shown(r) /\ t \in DOMAIN r.request
    BY <1>12 DEF MonitorKept, Shown
  <2>3. CASE t = ch.table /\ u = ch.uuid
    <3>1. ChangeAgrees(ch, tables[ch.table])
      BY <1>2, <1>4, <1>5, <2>1, <2>3 DEF LastAgrees
    <3> QED BY <1>12, <2>2, <2>3, <3>1
  <2>4. CASE t # ch.table \/ u # ch.uuid
    <3>1. ~Pending(w, 0, t, u)
      <4>1. DOMAIN w.changes = 1..Len(w.changes) /\ Len(w.changes) \in Nat
        BY <1>3, SeqIsList
      <4>2. ~ChangeOf(w.changes[1], t, u)
        BY <1>4, <2>4 DEF ChangeOf
      <4>3. \A i \in DOMAIN w.changes : i = 1 \/ i > 1
        BY <4>1
      <4> QED BY <2>1, <4>2, <4>3 DEF Pending
    <3>2. Past(w, m) = 0
      BY <1>1 DEF Past
    <3>3. RowAgrees(r.view[t], tables[t], r.request[t], u)
      BY <1>7, <1>16, <2>2, <3>1, <3>2 DEF Informed
    <3>4. /\ u \in DOMAIN s.view[t] <=> u \in DOMAIN r.view[t]
          /\ u \in DOMAIN r.view[t] => s.view[t][u] = r.view[t][u]
      BY <1>12, <2>2, <2>4
    <3> QED BY <2>2, <3>3, <3>4 DEF RowAgrees
  <2> QED BY <2>3, <2>4
<1>18. \A x \in DOMAIN monitors : Informed(x, monitors'[x], v, tables')
  <2> SUFFICES ASSUME NEW x \in DOMAIN monitors, x # m
               PROVE  Informed(x, monitors[x], v, tables)
    BY <1>1, <1>10, <1>17
  <2> QED BY <1>14, <1>16 DEF Informed
<1>19. TablesKept(TablesOf(v.ops), tables, tables')
  BY <1>1, SameTables
<1>20. \A x \in DOMAIN monitors : NothingSeen(v, monitors'[x])
  BY <1>14 DEF NothingSeen
<1>21. RightRows(v, tables'[TableOf(v)])
  BY <1>14 DEF RightRows
<1>22. LastAgrees(v, tables') /\ DOMAIN monitors' = DOMAIN monitors
  BY <1>1, <1>10, <1>14
<1>23. \A x \in DOMAIN monitors :
               /\ MonitorKept(TablesOf(v.ops), monitors[x], monitors'[x])
               /\ Informed(x, monitors'[x], v, tables')
               /\ NothingSeen(v, monitors'[x])
  BY <1>15, <1>18, <1>20
<1> QED BY <1>13, <1>14, <1>19, <1>21, <1>22, <1>23, WriterMoves

-----------------------------------------------------------------------------
(* Requests that begin, and monitors.                                      *)

\* A transaction begins.
LEMMA TransactKeeps ==
    ASSUME TablesInv, NEW c \in Clients, NEW ops \in Requests,
           Free(TablesOf(ops)), MayFail(ops) => Unseen(TablesOf(ops)),
           Transact(c, ops)
    PROVE  TablesInv'
<1>1. PICK w : w = NewWriter(ops, "snapshot")
  OBVIOUS
<1>2. /\ c \notin DOMAIN writers /\ writers' = Put(writers, c, w)
      /\ tables' = tables /\ monitors' = monitors
  BY <1>1 DEF Transact, Idle
<1>3. /\ DOMAIN w = {"ops", "k", "pc", "snaps", "named", "old", "changes", "todo"}
      /\ w.ops = ops /\ w.k = 1 /\ w.pc = "snapshot" /\ w.snaps = EmptyMap
      /\ w.changes = <<>> /\ w.todo = {}
  BY <1>1 DEF NewWriter
<1>4. RightOps(ops)
  BY TablesAssumption, OvsdbAssumption DEF RightOps
<1>5. DOMAIN w.snaps = {}
  BY <1>3 DEF EmptyMap
<1>6. SnapsWhole(w)
  BY <1>3, <1>5 DEF SnapsWhole
<1>7. IsSeq(w.changes) /\ Len(w.changes) = 0 /\ DOMAIN w.changes = {}
  BY <1>3, EmptyList
<1>8. w.k \in DOMAIN w.ops /\ w.k \in Nat /\ w.pc \in Phases
  BY <1>3, <1>4 DEF RightOps, Phases
<1>9. RightWriter(w)
  BY <1>3, <1>4, <1>6, <1>7, <1>8 DEF RightWriter
<1>10. RightRows(w, tables[TableOf(w)])
  BY <1>3 DEF RightRows
<1>11. \A m \in DOMAIN monitors : NothingSeen(w, monitors[m])
  BY <1>5 DEF NothingSeen
<1>12. \A m \in DOMAIN monitors : Undisturbed(w, monitors[m])
  BY <1>3 DEF Undisturbed, Unseen, Registering
<1>13. Free(TablesOf(w.ops)) /\ w.pc \in {"snapshot", "write"}
       /\ c \in Clients \cup PortCalls
  BY <1>3
<1>14. \A m \in DOMAIN monitors : NothingSeen(w, monitors[m])
                                  /\ Undisturbed(w, monitors[m])
  BY <1>11, <1>12
<1> QED BY <1>2, <1>3, <1>9, <1>10, <1>13, <1>14, WriterBegins

\* The port call finds the row of the port and no other.
LEMMA PortRow ==
    ASSUME NEW rows, Keyed(rows), NEW u \in DOMAIN rows
    PROVE  Matching(rows, {<<"_uuid", "==", <<"uuid", u>>>>}) = {u}
<1>1. \A x \in DOMAIN rows : HasId(rows[x], x)
  BY KeyedRows
<1>2. \A x \in DOMAIN rows :
          MatchWhere(rows[x], {<<"_uuid", "==", <<"uuid", u>>>>}) <=>
              rows[x]["_uuid"] = <<"uuid", u>>
  BY <1>1 DEF MatchWhere, EvalCondition, HasId
<1>3. \A x : <<"uuid", x>> = <<"uuid", u>> <=> x = u
  OBVIOUS
<1> QED BY <1>1, <1>2, <1>3 DEF Matching, HasId

\* The update a port call makes; it cannot fail.
LEMMA PortOps ==
    ASSUME NEW u, NEW up, NEW ops, ops = PortUpdate(u, up)
    PROVE  /\ RightOps(ops) /\ TablesOf(ops) = {PortTable} /\ ~MayFail(ops)
           /\ 1 \in DOMAIN ops /\ ops[1].table = PortTable /\ ops[1].op = "update"
           /\ Resolve(ops[1], EmptyMap).where = {<<"_uuid", "==", <<"uuid", u>>>>}
<1>1. PICK op : op = [op |-> "update", table |-> PortTable, name |-> "",
                      row |-> Put(EmptyMap, "up", <<"num", up>>),
                      where |-> {<<"_uuid", "==", <<"uuid", u>>>>},
                      mutations |-> <<>>]
  OBVIOUS
<1>2. ops = <<op>>
  BY <1>1 DEF PortUpdate
<1>3. Len(ops) = 1 /\ DOMAIN ops = 1..1 /\ ops[1] = op
  BY <1>2
<1>4. DOMAIN ops = {1}
  BY <1>3
<1>5. /\ DOMAIN op = {"op", "table", "name", "row", "where", "mutations"}
      /\ op.op = "update" /\ op.table = PortTable
      /\ op.row = Put(EmptyMap, "up", <<"num", up>>)
      /\ op.where = {<<"_uuid", "==", <<"uuid", u>>>>} /\ op.mutations = <<>>
  BY <1>1
<1>6. DOMAIN op.row = {"up"}
  BY <1>5 DEF Put, EmptyMap
<1>7. Len(op.mutations) = 0 /\ DOMAIN op.mutations = {}
  BY <1>5, EmptyList
<1>8. WellFormed(op)
  BY <1>5, <1>6, <1>7 DEF WellFormed
<1>9. RightOps(ops)
  BY <1>3, <1>4, <1>8 DEF RightOps
<1>10. TablesOf(ops) = {PortTable}
  BY <1>3, <1>4, <1>5 DEF TablesOf
<1>11. ~MayFail(ops)
  BY <1>3, <1>4, <1>5, OvsdbAssumption DEF MayFail, Operations
<1>12. Resolve(op, EmptyMap).where = {<<"_uuid", "==", <<"uuid", u>>>>}
  <2>1. Resolve(op, EmptyMap).where =
            {<<c[1], c[2], ResolveValue(c[3], EmptyMap)>> : c \in op.where}
    BY <1>5 DEF Resolve
  <2>2. ResolveValue(<<"uuid", u>>, EmptyMap) = <<"uuid", u>>
    BY DEF ResolveValue, ResolveAtom, IsSet
  <2> QED BY <1>5, <2>1, <2>2
<1> QED BY <1>3, <1>4, <1>5, <1>9, <1>10, <1>11, <1>12

\* A port call begins.
LEMMA SetPortStateKeeps ==
    ASSUME TablesInv, NEW c \in PortCalls, NEW u \in Uuids, NEW up \in {0, 1},
           Free({PortTable}), SetPortState(c, u, up)
    PROVE  TablesInv'
<1>1. PICK ops : ops = PortUpdate(u, up)
  OBVIOUS
<1>2. PICK rows : rows = tables[PortTable]
  OBVIOUS
<1>3. PICK w : w = [NewWriter(ops, "write") EXCEPT !.old = Put(@, u, rows[u])]
  OBVIOUS
<1>4. /\ c \notin DOMAIN writers /\ writers' = Put(writers, c, w) /\ u \in DOMAIN rows
      /\ tables' = tables /\ monitors' = monitors
  BY <1>1, <1>2, <1>3 DEF SetPortState
<1>5. /\ DOMAIN w = {"ops", "k", "pc", "snaps", "named", "old", "changes", "todo"}
      /\ w.ops = ops /\ w.k = 1 /\ w.pc = "write" /\ w.snaps = EmptyMap
      /\ w.changes = <<>> /\ w.todo = {} /\ w.named = EmptyMap
      /\ w.old = Put(EmptyMap, u, rows[u])
  BY <1>3 DEF NewWriter
<1>6. /\ RightOps(ops) /\ TablesOf(ops) = {PortTable} /\ ~MayFail(ops)
      /\ 1 \in DOMAIN ops /\ ops[1].table = PortTable /\ ops[1].op = "update"
      /\ Resolve(ops[1], EmptyMap).where = {<<"_uuid", "==", <<"uuid", u>>>>}
  BY <1>1, PortOps
<1>7. DOMAIN w.snaps = {} /\ DOMAIN w.old = {u}
  BY <1>5 DEF EmptyMap, Put
<1>8. SnapsWhole(w)
  BY <1>5, <1>6, <1>7 DEF SnapsWhole
<1>9. IsSeq(w.changes) /\ Len(w.changes) = 0 /\ DOMAIN w.changes = {}
  BY <1>5, EmptyList
<1>10. TableOf(w) = PortTable /\ PortTable \in Tables /\ w.ops[w.k].op \in Operations
  BY <1>5, <1>6, OvsdbAssumption DEF TableOf, Operations
<1>11. RightWriter(w)
  BY <1>5, <1>6, <1>8, <1>9, <1>10 DEF RightWriter, Phases
<1>12. Keyed(rows)
  BY <1>2, <1>10 DEF TablesInv
<1>13. Matching(rows, {<<"_uuid", "==", <<"uuid", u>>>>}) = {u}
  BY <1>4, <1>12, PortRow
<1>14. OpOf(w).where = {<<"_uuid", "==", <<"uuid", u>>>>}
  BY <1>5, <1>6 DEF OpOf
<1>15. RightRows(w, tables[TableOf(w)])
  BY <1>2, <1>5, <1>7, <1>10, <1>13, <1>14 DEF RightRows
<1>16. \A m \in DOMAIN monitors : NothingSeen(w, monitors[m])
                                  /\ Undisturbed(w, monitors[m])
  BY <1>5, <1>6 DEF NothingSeen, Undisturbed
<1>17. Free(TablesOf(w.ops)) /\ w.pc \in {"snapshot", "write"}
       /\ c \in Clients \cup PortCalls
  BY <1>5, <1>6
<1> QED BY <1>4, <1>5, <1>11, <1>15, <1>16, <1>17, WriterBegins

\* Nobody is being told of anything.
LEMMA NobodyTold ==
    ASSUME Unlocked, NEW ms
    PROVE  \A p \in DOMAIN writers : Watching(writers[p], ms)
  BY DEF Unlocked, Watching

\* A new monitor has read nothing, or never will.
FreshMonitor(request, left, refused) ==
    [request |-> request, left |-> left,
     view |-> [t \in DOMAIN request |-> EmptyMap], refused |-> refused]

\* A new monitor shows no table yet.
LEMMA NewMonitor ==
    ASSUME NEW request, NEW left, NEW refused, refused \in BOOLEAN,
           left \subseteq DOMAIN request,
           refused \/ (DOMAIN request \subseteq Tables /\ left = DOMAIN request),
           NEW r, r = FreshMonitor(request, left, refused)
    PROVE  RightMonitor(r) /\ Shown(r) = {} /\ r.request = request
<1>1. /\ DOMAIN r = {"request", "left", "view", "refused"} /\ r.request = request
      /\ r.left = left /\ r.refused = refused
      /\ r.view = [t \in DOMAIN request |-> EmptyMap]
  BY DEF FreshMonitor
<1>2. DOMAIN r.view = DOMAIN request /\ \A t \in DOMAIN request : r.view[t] = EmptyMap
  BY <1>1
<1>3. IsFunction(EmptyMap)
  BY DEF IsFunction, EmptyMap
<1>4. RightMonitor(r)
  BY <1>1, <1>2, <1>3, NoRowsKeyed DEF RightMonitor
<1>5. Shown(r) = {}
  BY <1>1 DEF Shown
<1> QED BY <1>1, <1>4, <1>5

\* Register: a request for known tables, or one that is refused.
LEMMA MonitorKeeps ==
    ASSUME TablesInv, NEW c \in Clients, NEW id \in MonitorIds, NEW request,
           Calm(request),
           Monitor(c, id, request) \/ MonitorRefused(c, id, request)
    PROVE  TablesInv'
<1>1. PICK r : /\ monitors' = Put(monitors, <<c, id>>, r)
               /\ RightMonitor(r) /\ Shown(r) = {} /\ r.request = request
  <2>1. CASE Monitor(c, id, request)
    <3>1. PICK refused, left : refused = FALSE /\ left = DOMAIN request
      OBVIOUS
    <3>2. PICK r : r = FreshMonitor(request, left, refused)
      OBVIOUS
    <3>3. DOMAIN request \subseteq Tables /\ monitors' = Put(monitors, <<c, id>>, r)
      BY <2>1, <3>1, <3>2 DEF Monitor, FreshMonitor
    <3>4. refused \in BOOLEAN /\ left \subseteq DOMAIN request
      BY <3>1
    <3>5. RightMonitor(r) /\ Shown(r) = {} /\ r.request = request
      BY <3>1, <3>2, <3>3, <3>4, NewMonitor
    <3> QED BY <3>3, <3>5
  <2>2. CASE MonitorRefused(c, id, request)
    <3>1. PICK refused, left : refused = TRUE /\ left = {}
      OBVIOUS
    <3>2. PICK r : r = FreshMonitor(request, left, refused)
      OBVIOUS
    <3>3. monitors' = Put(monitors, <<c, id>>, r)
      BY <2>2, <3>1, <3>2 DEF MonitorRefused, FreshMonitor
    <3>4. refused \in BOOLEAN /\ left \subseteq DOMAIN request /\ refused
      BY <3>1
    <3>5. RightMonitor(r) /\ Shown(r) = {} /\ r.request = request
      BY <3>2, <3>4, NewMonitor
    <3> QED BY <3>3, <3>5
  <2> QED BY <2>1, <2>2
<1>2. Unlocked /\ tables' = tables /\ writers' = writers
  BY DEF Monitor, MonitorRefused
<1>3. PICK n \in Clients \X MonitorIds : n = <<c, id>>
  OBVIOUS
<1>4. /\ DOMAIN monitors' = DOMAIN monitors \cup {n} /\ monitors'[n] = r
      /\ \A m \in DOMAIN monitors : m # n => monitors'[m] = monitors[m]
  BY <1>1, <1>3 DEF Put
<1>5. \A p \in DOMAIN writers : NothingSeen(writers[p], r)
  BY <1>1 DEF NothingSeen
<1>6. \A p \in DOMAIN writers : Undisturbed(writers[p], r)
  BY <1>1 DEF Undisturbed, Calm, Writers
<1>7. \A m \in DOMAIN monitors' :
               \/ m \in DOMAIN monitors /\ monitors'[m] = monitors[m]
               \/ /\ RightMonitor(monitors'[m])
                  /\ \A t \in Shown(monitors'[m]) :
                        ViewAgrees(m, monitors'[m], t, tables, writers)
                  /\ \A p \in DOMAIN writers :
                        /\ NothingSeen(writers[p], monitors'[m])
                        /\ Undisturbed(writers[p], monitors'[m])
  BY <1>1, <1>4, <1>5, <1>6
<1>8. DOMAIN monitors' \subseteq Clients \X MonitorIds
  BY <1>4 DEF TablesInv
<1>9. \A p \in DOMAIN writers : Watching(writers[p], monitors')
  BY <1>2, NobodyTold
<1> QED BY <1>2, <1>7, <1>8, <1>9, MonitorsMove

\* A monitor whose client has been given the initial rows of a table.
Dumped(r, t, rows) ==
    [r EXCEPT !.left = @ \ {t},
              !.view[t] = [u \in DOMAIN rows |->
                              FilterColumns(rows[u], r.request[t])]]

\* What the client is given of a table agrees with it.
LEMMA InitialRows ==
    ASSUME NEW r, RightMonitor(r), NEW t, t \in r.left, NEW rows, Keyed(rows),
           NEW s, s = Dumped(r, t, rows)
    PROVE  /\ RightMonitor(s) /\ s.request = r.request
           /\ Shown(s) \subseteq Shown(r) \cup {t}
           /\ \A u : RowAgrees(s.view[t], rows, s.request[t], u)
           /\ \A x \in Shown(r) : x # t => s.view[x] = r.view[x]
<1>1. PICK seen : seen = [u \in DOMAIN rows |-> FilterColumns(rows[u], r.request[t])]
  OBVIOUS
<1>2. s = [r EXCEPT !.left = @ \ {t}, !.view[t] = seen]
  BY <1>1 DEF Dumped
<1>3. /\ DOMAIN r = {"request", "left", "view", "refused"}
      /\ DOMAIN r.view = DOMAIN r.request /\ t \in DOMAIN r.request
  BY DEF RightMonitor
<1>4. /\ DOMAIN s = {"request", "left", "view", "refused"}
      /\ s.request = r.request /\ s.left = r.left \ {t} /\ s.refused = r.refused
      /\ s.view = [r.view EXCEPT ![t] = seen]
  BY <1>2, <1>3
<1>5. /\ DOMAIN s.view = DOMAIN r.view /\ s.view[t] = seen
      /\ \A x \in DOMAIN r.view : x # t => s.view[x] = r.view[x]
  BY <1>3, <1>4
<1>6. DOMAIN seen = DOMAIN rows /\ \A u \in DOMAIN rows :
          seen[u] = FilterColumns(rows[u], r.request[t])
  BY <1>1
<1>7. IsFunction(seen)
  BY <1>1 DEF IsFunction
<1>8. Keyed(seen)
  <2>1. \A u \in DOMAIN rows : HasId(rows[u], u)
    BY KeyedRows
  <2>2. \A u \in DOMAIN rows : HasId(seen[u], u)
    BY <1>6, <2>1, FilterKeepsId
  <2>3. DOMAIN seen \subseteq Uuids
    BY <1>6, KeyedRows
  <2> QED BY <1>6, <2>2, <2>3, KeyedRows
<1>9. RightMonitor(s)
  BY <1>3, <1>4, <1>5, <1>7, <1>8 DEF RightMonitor
<1>10. Shown(s) \subseteq Shown(r) \cup {t}
  BY <1>4 DEF Shown
<1>11. \A u : RowAgrees(s.view[t], rows, s.request[t], u)
  BY <1>4, <1>5, <1>6 DEF RowAgrees
<1>12. \A x \in Shown(r) : x \in DOMAIN r.view
  BY <1>3 DEF Shown
<1> QED BY <1>4, <1>5, <1>9, <1>10, <1>11, <1>12

\* Register: the initial rows of one table.
LEMMA DumpKeeps ==
    ASSUME TablesInv, NEW m \in DOMAIN monitors, NEW t \in Tables, Dump(m, t)
    PROVE  TablesInv'
<1>1. PICK r, rows : r = monitors[m] /\ rows = tables[t]
  OBVIOUS
<1>2. PICK s : s = Dumped(r, t, rows)
  OBVIOUS
<1>3. /\ t \in r.left /\ tables' = tables /\ writers' = writers
      /\ monitors' = [monitors EXCEPT ![m] = s]
  BY <1>1, <1>2 DEF Dump, Dumped
<1>4. RightMonitor(r) /\ Keyed(rows)
  BY <1>1 DEF TablesInv
<1>5. /\ RightMonitor(s) /\ s.request = r.request
      /\ Shown(s) \subseteq Shown(r) \cup {t}
      /\ \A u : RowAgrees(s.view[t], rows, s.request[t], u)
      /\ \A x \in Shown(r) : x # t => s.view[x] = r.view[x]
  BY <1>2, <1>3, <1>4, InitialRows, SMTT(30)
<1>6. /\ DOMAIN monitors' = DOMAIN monitors /\ monitors'[m] = s
      /\ \A x \in DOMAIN monitors : x # m => monitors'[x] = monitors[x]
  BY <1>3
<1>7. \A x \in Shown(s) : ViewAgrees(m, s, x, tables, writers)
  <2> SUFFICES ASSUME NEW x \in Shown(s)
               PROVE  ViewAgrees(m, s, x, tables, writers)
    OBVIOUS
  <2>1. CASE x = t
    BY <1>1, <1>5, <2>1 DEF ViewAgrees
  <2>2. CASE x # t
    <3>1. x \in Shown(r) /\ s.view[x] = r.view[x]
      BY <1>5, <2>2
    <3>2. ViewAgrees(m, r, x, tables, writers)
      BY <1>1, <3>1 DEF TablesInv
    <3> QED BY <1>5, <3>1, <3>2 DEF ViewAgrees
  <2> QED BY <2>1, <2>2
<1>8. \A p \in DOMAIN writers :
          MayFail(writers[p].ops) => DOMAIN r.request \cap TablesOf(writers[p].ops) = {}
  BY <1>1, <1>3 DEF TablesInv, Undisturbed
<1>9. \A p \in DOMAIN writers : Undisturbed(writers[p], s)
  BY <1>5, <1>8 DEF Undisturbed
<1>10. \A p \in DOMAIN writers : NothingSeen(writers[p], s)
  <2> SUFFICES ASSUME NEW p \in DOMAIN writers, MayFail(writers[p].ops),
                      NEW x \in Shown(s) \cap DOMAIN writers[p].snaps
               PROVE  FALSE
    BY DEF NothingSeen
  <2>1. x \in DOMAIN r.request
    BY <1>5 DEF Shown
  <2>2. x \in TablesOf(writers[p].ops)
    BY DEF TablesInv, RightWriter, SnapsWhole
  <2> QED BY <1>8, <2>1, <2>2
<1>11. \A p \in DOMAIN writers : Watching(writers[p], monitors')
  <2>1. \A n \in DOMAIN monitors : monitors'[n].request = monitors[n].request
    BY <1>1, <1>5, <1>6
  <2> QED BY <1>6, <2>1 DEF TablesInv, Watching
<1>12. DOMAIN monitors' \subseteq Clients \X MonitorIds
  BY <1>6 DEF TablesInv
<1>13. \A n \in DOMAIN monitors' :
               \/ n \in DOMAIN monitors /\ monitors'[n] = monitors[n]
               \/ /\ RightMonitor(monitors'[n])
                  /\ \A x \in Shown(monitors'[n]) :
                        ViewAgrees(n, monitors'[n], x, tables, writers)
                  /\ \A p \in DOMAIN writers :
                        /\ NothingSeen(writers[p], monitors'[n])
                        /\ Undisturbed(writers[p], monitors'[n])
  BY <1>5, <1>6, <1>7, <1>9, <1>10
<1> QED BY <1>3, <1>11, <1>12, <1>13, MonitorsMove

\* Monitors that go leave the others as they are.
LEMMA MonitorsGo ==
    ASSUME TablesInv, Unlocked, tables' = tables, writers' = writers,
           DOMAIN monitors' \subseteq DOMAIN monitors,
           \A m \in DOMAIN monitors' : monitors'[m] = monitors[m]
    PROVE  TablesInv'
<1>1. DOMAIN monitors' \subseteq Clients \X MonitorIds
  BY DEF TablesInv
<1>2. \A p \in DOMAIN writers : Watching(writers[p], monitors')
  BY NobodyTold
<1>3. \A m \in DOMAIN monitors' : m \in DOMAIN monitors /\ monitors'[m] = monitors[m]
  OBVIOUS
<1> QED BY <1>1, <1>2, <1>3, MonitorsMove

\* Cancel.
LEMMA MonitorCancelKeeps ==
    ASSUME TablesInv, NEW c, NEW id, MonitorCancel(c, id)
    PROVE  TablesInv'
<1>1. /\ DOMAIN monitors' \subseteq DOMAIN monitors
      /\ \A m \in DOMAIN monitors' : monitors'[m] = monitors[m]
  BY DEF MonitorCancel, Drop, Restrict
<1> QED BY <1>1, MonitorsGo DEF MonitorCancel

\* RemoveClient.
LEMMA DisconnectKeeps ==
    ASSUME TablesInv, NEW c, Disconnect(c)
    PROVE  TablesInv'
<1>1. /\ DOMAIN monitors' \subseteq DOMAIN monitors
      /\ \A m \in DOMAIN monitors' : monitors'[m] = monitors[m]
  BY DEF Disconnect, Restrict
<1> QED BY <1>1, MonitorsGo DEF Disconnect

-----------------------------------------------------------------------------
(* Types and convergence.                                                  *)

\* The invariant holds of an empty server.
LEMMA TablesStart == Init => TablesInv
<1> SUFFICES ASSUME Init PROVE TablesInv
  OBVIOUS
<1>1. DOMAIN writers = {} /\ DOMAIN monitors = {}
  BY DEF Init, EmptyMap
<1>2. DOMAIN tables = Tables /\ \A t \in Tables : tables[t] = EmptyMap
  BY DEF Init
<1> QED BY <1>1, <1>2, NoRowsKeyed DEF TablesInv

\* Every step of a transaction or port call keeps the invariant.
LEMMA WriterKeeps ==
    ASSUME TablesInv, NEW p \in DOMAIN writers, WriterStep(p)
    PROVE  TablesInv'
<1>1. CASE Snapshot(p)
  BY <1>1, SnapshotKeeps
<1>2. CASE \E u \in Uuids : Insert(p, u)
  BY <1>2, InsertKeeps
<1>3. CASE Select(p)
  BY <1>3, SelectKeeps
<1>4. CASE SelectOld(p)
  BY <1>4, SelectOldKeeps
<1>5. CASE Update(p)
  BY <1>5, UpdateKeeps
<1>6. CASE Mutate(p)
  BY <1>6, MutateKeeps
<1>7. CASE MutateFails(p)
  BY <1>7, MutateFailsKeeps
<1>8. CASE Delete(p)
  BY <1>8, DeleteKeeps
<1>9. CASE \E u \in Uuids : Reread(p, u)
  BY <1>9, RereadKeeps
<1>10. CASE Rollback(p)
  BY <1>10, RollbackKeeps
<1>11. CASE Notify(p)
  BY <1>11, NotifyKeeps
<1>12. CASE \E m \in DOMAIN monitors : SendNotification(p, m)
  BY <1>12, SendNotificationKeeps
<1>13. CASE Reply(p)
  BY <1>13, ReplyKeeps
<1> QED BY <1>1, <1>2, <1>3, <1>4, <1>5, <1>6, <1>7, <1>8, <1>9, <1>10, <1>11,
           <1>12, <1>13 DEF WriterStep

\* Every step keeps the invariant.
LEMMA TablesStep == TablesInv /\ [TablesNext]_vars => TablesInv'
<1> SUFFICES ASSUME TablesInv, [TablesNext]_vars PROVE TablesInv'
  OBVIOUS
<1>1. CASE \E p \in DOMAIN writers : WriterStep(p)
  BY <1>1, WriterKeeps
<1>2. CASE \E m \in DOMAIN monitors : \E t \in Tables : Dump(m, t)
  BY <1>2, DumpKeeps
<1>3. CASE \E c \in Clients : Disconnect(c)
  BY <1>3, DisconnectKeeps
<1>4. CASE \E c \in Clients, id \in MonitorIds : MonitorCancel(c, id)
  BY <1>4, MonitorCancelKeeps
<1>5. CASE \E c \in Clients, ops \in Requests :
               /\ Free(TablesOf(ops))
               /\ MayFail(ops) => Unseen(TablesOf(ops))
               /\ Transact(c, ops)
  BY <1>5, TransactKeeps
<1>6. CASE \E c \in PortCalls, u \in Uuids, up \in {0, 1} :
               Free({PortTable}) /\ SetPortState(c, u, up)
  BY <1>6, SetPortStateKeeps
<1>7. CASE \E c \in Clients, id \in MonitorIds, request \in Watches :
               /\ Calm(request)
               /\ Monitor(c, id, request) \/ MonitorRefused(c, id, request)
  BY <1>7, MonitorKeeps
<1>8. CASE UNCHANGED vars
  BY <1>8, MonitorsMove DEF vars, TablesInv
<1> QED BY <1>1, <1>2, <1>3, <1>4, <1>5, <1>6, <1>7, <1>8
        DEF TablesNext, Server, MonitorStep

\* The invariant holds in every reachable state.
LEMMA TablesInvariant == TablesSpec => []TablesInv
  BY TablesStart, TablesStep, PTL DEF TablesSpec

\* Types: every row of every table, of every copy a transaction has made and
\* of every view a client has built is stored under the UUID it carries, and
\* who is still to be told of a change is a registered monitor (store.go,
\* transact.go, monitor.go).
THEOREM TablesTypeCorrect == TablesSpec => []TypeOK
<1>1. TablesInv => TypeOK
  BY DEF TablesInv, TypeOK, RightWriter, SnapsWhole, RightMonitor, Watching
<1> QED BY <1>1, TablesInvariant, PTL

\* Monitors converge: whatever transactions, port calls, monitor requests,
\* initial rows and notifications overlapped, and in whatever order the rows
\* of one operation were announced, a client that applies what it was sent
\* has the rows of a table when nothing is writing to it (Transact's rollback
\* and NotifyChange).
THEOREM MonitorsConverge == TablesSpec => []Converged
<1>1. TablesInv => Converged
  <2> SUFFICES ASSUME TablesInv, NEW m \in DOMAIN monitors \ Registering,
                      ~monitors[m].refused, NEW t \in DOMAIN monitors[m].request,
                      Writers(t) = {}
               PROVE  monitors[m].view[t] =
                          [u \in DOMAIN tables[t] |->
                              FilterColumns(tables[t][u], monitors[m].request[t])]
    BY DEF Converged
  <2>1. t \in Shown(monitors[m])
    BY DEF Shown, Registering
  <2>2. \A p \in DOMAIN writers : \A u :
            ~Pending(writers[p], Past(writers[p], m), t, u)
    <3>1. \A p \in DOMAIN writers : /\ RightWriter(writers[p])
                                    /\ t \notin TablesOf(writers[p].ops)
      BY DEF TablesInv, Writers
    <3> QED BY <3>1, PendingNamed
  <2>3. ViewAgrees(m, monitors[m], t, tables, writers)
    BY <2>1 DEF TablesInv
  <2>4. PICK view, rows, columns : /\ view = monitors[m].view[t]
                                   /\ rows = tables[t]
                                   /\ columns = monitors[m].request[t]
    OBVIOUS
  <2>5. \A u : RowAgrees(view, rows, columns, u)
    BY <2>2, <2>3, <2>4 DEF ViewAgrees
  <2>6. RightMonitor(monitors[m])
    BY DEF TablesInv
  <2>7. IsFunction(view)
    BY <2>4, <2>6 DEF RightMonitor
  <2>8. view = [u \in DOMAIN rows |-> FilterColumns(rows[u], columns)]
    <3>1. DOMAIN view = DOMAIN rows
      BY <2>5 DEF RowAgrees
    <3>2. \A u \in DOMAIN rows : view[u] = FilterColumns(rows[u], columns)
      BY <2>5 DEF RowAgrees
    <3> QED BY <2>7, <3>1, <3>2 DEF IsFunction
  <2> QED BY <2>4, <2>8
<1> QED BY <1>1, TablesInvariant, PTL

-----------------------------------------------------------------------------
(* Transactions as a whole.                                                *)

\* g lists the transaction after 0, 1, .. n operations.
IsTrace(g, d, ops, ids, n) ==
    g = [i \in 0..n |-> IF i = 0 THEN Begun(d)
                        ELSE Performed(g[i - 1], ops[i], ids[i])]

\* Any list of operations can be run.
LEMMA TraceExists ==
    ASSUME NEW d, NEW ops, NEW ids, NEW n \in Nat
    PROVE  \E g : IsTrace(g, d, ops, ids, n)
<1> DEFINE T == {k \in Nat : ~\E g : IsTrace(g, d, ops, ids, k)}
<1>1. SUFFICES ASSUME T # {} PROVE FALSE
  OBVIOUS
<1>2. PICK k \in T : \A m \in T : k <= m
  <2>1. T \in SUBSET Nat
    OBVIOUS
  <2> HIDE DEF T
  <2> QED BY <1>1, <2>1, LeastNumber
<1>3. k # 0
  <2>1. ASSUME k = 0 PROVE FALSE
   <3> DEFINE g == [i \in 0..0 |-> Begun(d)]
   <3>1. IsTrace(g, d, ops, ids, 0)
     BY DEF IsTrace
   <3> QED BY <2>1, <3>1
  <2> QED BY <2>1
<1>4. k \in Nat /\ ~\E g : IsTrace(g, d, ops, ids, k)
  OBVIOUS
<1>5. k - 1 \in Nat /\ ~(k <= k - 1)
  BY <1>3, <1>4
<1>6. PICK g : IsTrace(g, d, ops, ids, k - 1)
  BY <1>2, <1>5
<1>7. \A i \in 0..(k - 1) :
          g[i] = IF i = 0 THEN Begun(d) ELSE Performed(g[i - 1], ops[i], ids[i])
  BY <1>5, <1>6 DEF IsTrace
<1> DEFINE h == [i \in 0..k |-> IF i = k THEN Performed(g[k - 1], ops[k], ids[k])
                                ELSE g[i]]
<1>8. \A i \in 0..k :
          h[i] = IF i = 0 THEN Begun(d) ELSE Performed(h[i - 1], ops[i], ids[i])
  <2> SUFFICES ASSUME NEW i \in 0..k
       PROVE h[i] = IF i = 0 THEN Begun(d)
                    ELSE Performed(h[i - 1], ops[i], ids[i])
    OBVIOUS
  <2>1. CASE i = k
    <3>1. h[i - 1] = g[k - 1]
      BY <1>3, <1>4, <2>1
    <3> QED BY <1>3, <1>4, <2>1, <3>1
  <2>2. CASE i # k
    <3>1. h[i] = g[i] /\ i \in 0..(k-1)
      BY <1>4, <2>2
    <3>2. i # 0 => h[i - 1] = g[i - 1]
      BY <1>4, <2>2
    <3> QED BY <1>7, <3>1, <3>2
  <2> QED BY <2>1, <2>2
<1>9. IsTrace(h, d, ops, ids, k)
  BY <1>8 DEF IsTrace
<1> QED BY <1>4, <1>9

\* Run takes one operation after the other.
LEMMA RunUnfolds ==
    ASSUME NEW d, NEW ops, NEW ids, Len(ops) \in Nat
    PROVE  /\ Run(d, ops, ids, 0) = Begun(d)
           /\ \A k \in 1..Len(ops) :
                 Run(d, ops, ids, k) =
                     Performed(Run(d, ops, ids, k - 1), ops[k], ids[k])
<1> DEFINE f[i \in 0..Len(ops)] ==
            IF i = 0 THEN Begun(d)
            ELSE Performed(f[i - 1], ops[i], ids[i])
<1>1. PICK n \in Nat : n = Len(ops)
  OBVIOUS
<1>2. \E g : IsTrace(g, d, ops, ids, n)
  BY TraceExists
<1>3. f = [i \in 0..n |-> IF i = 0 THEN Begun(d)
                          ELSE Performed(f[i - 1], ops[i], ids[i])]
  BY <1>1, <1>2 DEF IsTrace
<1>4. PICK g : g = f
  OBVIOUS
<1>5. g = [i \in 0..n |-> IF i = 0 THEN Begun(d)
                          ELSE Performed(g[i - 1], ops[i], ids[i])]
  BY <1>3, <1>4
<1>6. \A k : Run(d, ops, ids, k) = g[k]
  BY <1>4 DEF Run
<1> HIDE DEF f
<1>7. \A i \in 0..n : g[i] = IF i = 0 THEN Begun(d)
                             ELSE Performed(g[i - 1], ops[i], ids[i])
  BY <1>5
<1>8. g[0] = Begun(d)
  BY <1>7
<1>9. \A k \in 1..n : g[k] = Performed(g[k - 1], ops[k], ids[k])
  BY <1>7
<1> QED BY <1>1, <1>6, <1>8, <1>9

\* k is the place of an operation and i the one before.
Follows(ops, i, k) == Len(ops) \in Nat /\ k \in 1..Len(ops) /\ i = k - 1

\* What Run does at one operation.
LEMMA RunGoesOn ==
    ASSUME NEW d, NEW ops, NEW ids, NEW i, NEW k, Follows(ops, i, k)
    PROVE  Run(d, ops, ids, k) = Performed(Run(d, ops, ids, i), ops[k], ids[k])
  BY RunUnfolds DEF Follows

\* Ids of operations that are not reached make no difference.
LEMMA SameIds ==
    ASSUME NEW d, NEW ops, Len(ops) \in Nat, NEW ids, NEW idz,
           NEW n \in 0..Len(ops), \A i \in 1..n : ids[i] = idz[i]
    PROVE  \A i \in 0..n : Run(d, ops, ids, i) = Run(d, ops, idz, i)
<1> DEFINE T == {k \in 0..n : Run(d, ops, ids, k) # Run(d, ops, idz, k)}
<1>1. SUFFICES ASSUME T # {} PROVE FALSE
  OBVIOUS
<1>2. PICK k \in T : \A m \in T : k <= m
  <2>1. T \in SUBSET Nat
    OBVIOUS
  <2> HIDE DEF T
  <2> QED BY <1>1, <2>1, LeastNumber
<1>3. k # 0
  BY <1>2, RunUnfolds
<1>4. k - 1 \in 0..n /\ k \in 1..Len(ops) /\ k \in 1..n /\ ~(k <= k - 1)
  BY <1>2, <1>3
<1>5. PICK j : j = k - 1
  OBVIOUS
<1>6. Run(d, ops, ids, j) = Run(d, ops, idz, j)
  BY <1>2, <1>4, <1>5
<1>7. Run(d, ops, ids, k) # Run(d, ops, idz, k) /\ ids[k] = idz[k]
  BY <1>2, <1>4
<1>8. Follows(ops, j, k)
  BY <1>4, <1>5 DEF Follows
<1>9. /\ Run(d, ops, ids, k) = Performed(Run(d, ops, ids, j), ops[k], ids[k])
      /\ Run(d, ops, idz, k) = Performed(Run(d, ops, idz, j), ops[k], idz[k])
  BY <1>8, RunGoesOn
<1> QED BY <1>6, <1>7, <1>9

\* s is a transaction on the database d and z the same on e, a part of d.
Frames(s, z, d, e) ==
    /\ s.named = z.named
    /\ DOMAIN s.db = DOMAIN d /\ DOMAIN z.db = DOMAIN e
    /\ \A t \in DOMAIN e : s.db[t] = z.db[t]
    /\ \A t \in DOMAIN d \ DOMAIN e : s.db[t] = d[t]

\* An operation writes one table.
LEMMA PerformFacts ==
    ASSUME NEW s, NEW op, NEW u, NEW q, q = Performed(s, op, u)
    PROVE  /\ DOMAIN q.db = DOMAIN s.db
           /\ \A t \in DOMAIN s.db : t # op.table => q.db[t] = s.db[t]
           /\ op.table \in DOMAIN s.db =>
                 q.db[op.table] = Effect(s.db[op.table], Resolve(op, s.named), u)
           /\ q.named = Named(s.named, op, u)
           /\ IsFunction(q.db)
<1>1. PICK e : e = [s.db EXCEPT ![op.table] =
                      Effect(s.db[op.table], Resolve(op, s.named), u)]
  OBVIOUS
<1>2. q.db = e /\ q.named = Named(s.named, op, u)
  BY <1>1 DEF Performed
<1>3. IsFunction(e)
  BY <1>1 DEF IsFunction
<1> QED BY <1>1, <1>2, <1>3

\* An operation on the part does the same to the whole.
LEMMA PerformFrames ==
    ASSUME NEW s, NEW z, NEW d, NEW e, Frames(s, z, d, e), DOMAIN e \subseteq DOMAIN d,
           NEW op, op.table \in DOMAIN e, NEW u
    PROVE  Frames(Performed(s, op, u), Performed(z, op, u), d, e)
<1>1. PICK q, x : q = Performed(s, op, u) /\ x = Performed(z, op, u)
  OBVIOUS
<1>2. /\ DOMAIN q.db = DOMAIN s.db
      /\ \A t \in DOMAIN s.db : t # op.table => q.db[t] = s.db[t]
      /\ op.table \in DOMAIN s.db =>
            q.db[op.table] = Effect(s.db[op.table], Resolve(op, s.named), u)
      /\ q.named = Named(s.named, op, u)
  BY <1>1, PerformFacts
<1>3. /\ DOMAIN x.db = DOMAIN z.db
      /\ \A t \in DOMAIN z.db : t # op.table => x.db[t] = z.db[t]
      /\ op.table \in DOMAIN z.db =>
            x.db[op.table] = Effect(z.db[op.table], Resolve(op, z.named), u)
      /\ x.named = Named(z.named, op, u)
  BY <1>1, PerformFacts
<1>4. q.named = x.named
  BY <1>2, <1>3 DEF Frames
<1>5. q.db[op.table] = x.db[op.table]
  BY <1>2, <1>3 DEF Frames
<1>6. /\ DOMAIN q.db = DOMAIN d /\ DOMAIN x.db = DOMAIN e
      /\ \A t \in DOMAIN e : q.db[t] = x.db[t]
      /\ \A t \in DOMAIN d \ DOMAIN e : q.db[t] = d[t]
  BY <1>2, <1>3, <1>5 DEF Frames
<1> QED BY <1>1, <1>4, <1>6 DEF Frames

\* An operation succeeds on the part if and only if it does on the whole.
LEMMA SucceedFrames ==
    ASSUME NEW s, NEW z, NEW d, NEW e, Frames(s, z, d, e),
           DOMAIN e \subseteq DOMAIN d, NEW op, op.table \in DOMAIN e, NEW u, Succeeds(z, op, u)
    PROVE  Succeeds(s, op, u)
<1>1. s.db[op.table] = z.db[op.table] /\ s.named = z.named
      /\ op.table \in DOMAIN s.db
  BY DEF Frames
<1> QED BY <1>1 DEF Succeeds

\* A transaction on a part of a database does the same to the whole.
LEMMA RunFrames ==
    ASSUME NEW d, NEW e, DOMAIN e \subseteq DOMAIN d, \A t \in DOMAIN e : d[t] = e[t],
           NEW ops, Len(ops) \in Nat, NEW ids,
           \A i \in 1..Len(ops) : ops[i].table \in DOMAIN e
    PROVE  \A i \in 0..Len(ops) :
               Frames(Run(d, ops, ids, i), Run(e, ops, ids, i), d, e)
<1> DEFINE T == {k \in 0..Len(ops) :
                    ~Frames(Run(d, ops, ids, k), Run(e, ops, ids, k), d, e)}
<1>1. SUFFICES ASSUME T # {} PROVE FALSE
  OBVIOUS
<1>2. PICK k \in T : \A m \in T : k <= m
  <2>1. T \in SUBSET Nat
    OBVIOUS
  <2> HIDE DEF T
  <2> QED BY <1>1, <2>1, LeastNumber
<1>3. k # 0
  <2>1. Frames(Begun(d), Begun(e), d, e)
    BY DEF Frames, Begun
  <2> QED BY <1>2, <2>1, RunUnfolds
<1>4. k - 1 \in 0..Len(ops) /\ k \in 1..Len(ops) /\ ~(k <= k - 1)
  BY <1>2, <1>3
<1>5. PICK j, s, z : j = k - 1 /\ s = Run(d, ops, ids, j) /\ z = Run(e, ops, ids, j)
  OBVIOUS
<1>6. Frames(s, z, d, e)
  BY <1>2, <1>4, <1>5
<1>11. Follows(ops, j, k)
  BY <1>4, <1>5 DEF Follows
<1>10. ~Frames(Run(d, ops, ids, k), Run(e, ops, ids, k), d, e)
  BY <1>2
<1> HIDE DEF T
<1>7. /\ Run(d, ops, ids, k) = Performed(s, ops[k], ids[k])
      /\ Run(e, ops, ids, k) = Performed(z, ops[k], ids[k])
  BY <1>5, <1>11, RunGoesOn
<1>8. PICK op, u : op = ops[k] /\ u = ids[k]
  OBVIOUS
<1>9. Frames(Performed(s, op, u), Performed(z, op, u), d, e)
  BY <1>4, <1>6, <1>8, PerformFrames
<1> QED BY <1>7, <1>8, <1>9, <1>10

-----------------------------------------------------------------------------
(* What transactions in progress have made of their copies.                *)

\* The tables are what the first n operations make of the copies.
Ran(w, ids, n, tabs) ==
    LET s == Run(w.snaps, w.ops, ids, n)
    IN  /\ ids \in [DOMAIN w.ops -> Uuids]
        /\ \A i \in 1..n :
              Succeeds(Run(w.snaps, w.ops, ids, i - 1), w.ops[i], ids[i])
        /\ w.named = s.named
        /\ \A t \in DOMAIN w.snaps : tabs[t] = s.db[t]

\* How many operations have written: the one being read again has.
Done(w) == IF w.pc = "reread" THEN w.k ELSE w.k - 1

\* A transaction at work has run what it is past.
HasRun(w, tabs) ==
    w.pc \in {"op", "write", "reread"} => \E ids : Ran(w, ids, Done(w), tabs)

\* A transaction has copies of all its tables before it writes any.
RightClient(w, tabs) ==
    /\ w.ops \in Requests
    /\ w.pc = "snapshot" => /\ w.named = EmptyMap
                            /\ \A t \in DOMAIN w.snaps : tabs[t] = w.snaps[t]
    /\ w.pc # "snapshot" => TablesOf(w.ops) \cap Tables \subseteq DOMAIN w.snaps
    /\ HasRun(w, tabs)

\* A port call makes one update and has no copies.
RightPort(w) ==
    /\ w.snaps = EmptyMap /\ w.named = EmptyMap
    /\ w.pc \in {"write", "reread", "notify"}
    /\ w.pc = "write" => w.k = 1
    /\ \E u \in Uuids, up \in {0, 1} : w.ops = PortUpdate(u, up)

\* What every step of the server keeps.
AtomicInv ==
    \A p \in DOMAIN writers :
        /\ p \in Clients => RightClient(writers[p], tables)
        /\ p \in PortCalls => RightPort(writers[p])

\* A transaction whose tables are left alone stays right.
LEMMA ClientKept ==
    ASSUME NEW w, RightWriter(w), NEW tabs, NEW more,
           \A t \in TablesOf(w.ops) \cap Tables : more[t] = tabs[t],
           RightClient(w, tabs)
    PROVE  RightClient(w, more)
<1>1. \A t \in DOMAIN w.snaps : more[t] = tabs[t]
  BY DEF RightWriter, SnapsWhole
<1>2. \A ids, n : Ran(w, ids, n, tabs) => Ran(w, ids, n, more)
  BY <1>1 DEF Ran
<1>3. HasRun(w, more)
  BY <1>2 DEF RightClient, HasRun
<1>4. w.pc = "snapshot" => \A t \in DOMAIN w.snaps : more[t] = w.snaps[t]
  BY <1>1 DEF RightClient
<1> QED BY <1>3, <1>4 DEF RightClient

\* A step of one writer.
LEMMA AtomicMoves ==
    ASSUME TablesInv, AtomicInv, NEW p \in DOMAIN writers, NEW w,
           writers' = [writers EXCEPT ![p] = w],
           \A t \in Tables \ TablesOf(writers[p].ops) : tables'[t] = tables[t],
           p \in Clients => RightClient(w, tables'),
           p \in PortCalls => RightPort(w)
    PROVE  AtomicInv'
<1>1. DOMAIN writers' = DOMAIN writers /\ writers'[p] = w
      /\ \A q \in DOMAIN writers : q # p => writers'[q] = writers[q]
  OBVIOUS
<1> SUFFICES ASSUME NEW q \in DOMAIN writers
             PROVE  /\ q \in Clients => RightClient(writers'[q], tables')
                    /\ q \in PortCalls => RightPort(writers'[q])
  BY <1>1 DEF AtomicInv
<1>2. CASE q = p
  BY <1>1, <1>2
<1>3. CASE q # p
  <2>1. RightWriter(writers[q]) /\ Disjoint(writers[q], writers[p])
    BY <1>3 DEF TablesInv
  <2>2. \A t \in TablesOf(writers[q].ops) \cap Tables : tables'[t] = tables[t]
    BY <2>1 DEF Disjoint
  <2>3. /\ q \in Clients => RightClient(writers[q], tables)
        /\ q \in PortCalls => RightPort(writers[q])
    BY DEF AtomicInv
  <2>4. q \in Clients => RightClient(writers[q], tables')
    BY <2>1, <2>2, <2>3, ClientKept
  <2> QED BY <1>1, <1>3, <2>3, <2>4
<1> QED BY <1>2, <1>3

\* A writer ends.
LEMMA AtomicEnds ==
    ASSUME TablesInv, AtomicInv, NEW p \in DOMAIN writers,
           writers' = Drop(writers, p),
           \A t \in Tables \ TablesOf(writers[p].ops) : tables'[t] = tables[t]
    PROVE  AtomicInv'
<1>1. /\ DOMAIN writers' = DOMAIN writers \ {p}
      /\ \A q \in DOMAIN writers \ {p} : writers'[q] = writers[q]
  BY DEF Drop, Restrict
<1> SUFFICES ASSUME NEW q \in DOMAIN writers \ {p}
             PROVE  /\ q \in Clients => RightClient(writers[q], tables')
                    /\ q \in PortCalls => RightPort(writers[q])
  BY <1>1 DEF AtomicInv
<1>2. RightWriter(writers[q]) /\ Disjoint(writers[q], writers[p])
  BY DEF TablesInv
<1>3. \A t \in TablesOf(writers[q].ops) \cap Tables : tables'[t] = tables[t]
  BY <1>2 DEF Disjoint
<1>4. /\ q \in Clients => RightClient(writers[q], tables)
      /\ q \in PortCalls => RightPort(writers[q])
  BY DEF AtomicInv
<1> QED BY <1>2, <1>3, <1>4, ClientKept

\* A writer begins.
LEMMA AtomicBegins ==
    ASSUME AtomicInv, NEW c, c \notin DOMAIN writers, NEW w,
           writers' = Put(writers, c, w), tables' = tables,
           c \in Clients => RightClient(w, tables),
           c \in PortCalls => RightPort(w)
    PROVE  AtomicInv'
<1>1. /\ DOMAIN writers' = DOMAIN writers \cup {c} /\ writers'[c] = w
      /\ \A q \in DOMAIN writers : writers'[q] = writers[q]
  BY DEF Put
<1> SUFFICES ASSUME NEW q \in DOMAIN writers \cup {c}
             PROVE  /\ q \in Clients => RightClient(writers'[q], tables)
                    /\ q \in PortCalls => RightPort(writers'[q])
  BY <1>1 DEF AtomicInv
<1>2. CASE q = c
  BY <1>1, <1>2
<1>3. CASE q # c
  BY <1>1, <1>3 DEF AtomicInv
<1> QED BY <1>2, <1>3

-----------------------------------------------------------------------------
(* The committed database.                                                 *)

\* Committed, of any writers and tables.
CommittedOf(wr, tabs) ==
    [t \in Tables |->
        LET open == {p \in {q \in DOMAIN wr : t \in TablesOf(wr[q].ops)} :
                        /\ ~(wr[p].pc = "notify")
                        /\ t \in DOMAIN wr[p].snaps}
        IN  IF open = {} THEN tabs[t]
            ELSE wr[CHOOSE p \in open : TRUE].snaps[t]]

\* Committed is CommittedOf, before a step and after it.
LEMMA CommittedIs == /\ Committed = CommittedOf(writers, tables)
                     /\ Committed' = CommittedOf(writers', tables')
<1>1. Committed = CommittedOf(writers, tables)
  BY DEF Committed, CommittedOf, Writers, At
<1>2. Committed' = CommittedOf(writers', tables')
  BY DEF Committed, CommittedOf, Writers, At
<1> QED BY <1>1, <1>2

\* The transaction has a copy of the table that is to be restored.
Holds(w, t) == w.pc # "notify" /\ t \in DOMAIN w.snaps

\* Writers have copies of the tables they name only, and share none.
Apart(wr) ==
    /\ \A p \in DOMAIN wr : DOMAIN wr[p].snaps \subseteq TablesOf(wr[p].ops)
    /\ \A p, q \in DOMAIN wr : p # q => Disjoint(wr[p], wr[q])

\* d is what is committed.
IsCommitted(d, wr, tabs) ==
    /\ IsFunction(d) /\ DOMAIN d = Tables
    /\ \A t \in Tables :
          /\ \A p \in DOMAIN wr : Holds(wr[p], t) => d[t] = wr[p].snaps[t]
          /\ (\A p \in DOMAIN wr : ~Holds(wr[p], t)) => d[t] = tabs[t]

\* A table that a transaction holds is committed as its copy, any other as it
\* is stored.
LEMMA CommittedFacts ==
    ASSUME NEW wr, Apart(wr), NEW tabs, NEW d, d = CommittedOf(wr, tabs)
    PROVE  IsCommitted(d, wr, tabs)
<1>1. IsFunction(d) /\ DOMAIN d = Tables
  BY DEF CommittedOf, IsFunction
<1> SUFFICES ASSUME NEW t \in Tables
             PROVE /\ \A p \in DOMAIN wr : Holds(wr[p], t) => d[t] = wr[p].snaps[t]
                   /\ (\A p \in DOMAIN wr : ~Holds(wr[p], t)) => d[t] = tabs[t]
  BY <1>1 DEF IsCommitted
<1>2. PICK open : open = {p \in {q \in DOMAIN wr : t \in TablesOf(wr[q].ops)} :
                            ~(wr[p].pc = "notify") /\ t \in DOMAIN wr[p].snaps}
  OBVIOUS
<1>3. d[t] = IF open = {} THEN tabs[t] ELSE wr[CHOOSE p \in open : TRUE].snaps[t]
  BY <1>2 DEF CommittedOf
<1>4. \A p : p \in open <=> p \in DOMAIN wr /\ Holds(wr[p], t)
  BY <1>2 DEF Holds, Apart
<1>5. ASSUME NEW p \in DOMAIN wr, Holds(wr[p], t)
      PROVE  d[t] = wr[p].snaps[t]
  <2>1. p \in open
    BY <1>4, <1>5
  <2>2. \A q \in open : q = p
    BY <1>2, <2>1 DEF Apart, Disjoint
  <2>3. PICK c : c = CHOOSE q \in open : TRUE
    OBVIOUS
  <2>4. c \in open
    BY <2>1, <2>3
  <2>5. c = p
    BY <2>2, <2>4
  <2> QED BY <1>3, <2>1, <2>3, <2>5
<1>6. ASSUME \A p \in DOMAIN wr : ~Holds(wr[p], t)
      PROVE  d[t] = tabs[t]
  <2>1. open = {}
    BY <1>4, <1>6
  <2> QED BY <1>3, <2>1
<1> QED BY <1>5, <1>6

\* Writers do not share tables.
LEMMA WritersApart == (TablesInv => Apart(writers)) /\ (TablesInv' => Apart(writers'))
<1>1. TablesInv => Apart(writers)
  BY DEF TablesInv, Apart, RightWriter, SnapsWhole
<1>2. TablesInv' => Apart(writers')
  BY DEF TablesInv, Apart, RightWriter, SnapsWhole
<1> QED BY <1>1, <1>2

\* What is committed, before a step and after it.
LEMMA CommittedBoth ==
    ASSUME TablesInv, TablesInv'
    PROVE  \E d, e : /\ d = Committed /\ e = Committed'
                     /\ IsCommitted(d, writers, tables)
                     /\ IsCommitted(e, writers', tables')
<1>1. PICK wr, tabs, d : wr = writers /\ tabs = tables /\ d = CommittedOf(wr, tabs)
  OBVIOUS
<1>2. PICK ws, tabz, e : ws = writers' /\ tabz = tables' /\ e = CommittedOf(ws, tabz)
  OBVIOUS
<1>3. d = Committed /\ e = Committed'
  BY <1>1, <1>2, CommittedIs
<1>4. Apart(wr) /\ Apart(ws)
  BY <1>1, <1>2, WritersApart
<1>5. IsCommitted(d, wr, tabs) /\ IsCommitted(e, ws, tabz)
  BY <1>1, <1>2, <1>4, CommittedFacts
<1> QED BY <1>1, <1>2, <1>3, <1>5

\* Functions that agree are equal.
LEMMA SameFunction ==
    ASSUME NEW d, NEW e, NEW T, IsFunction(d), IsFunction(e), DOMAIN d = T, DOMAIN e = T,
           \A t \in T : d[t] = e[t]
    PROVE  d = e
  BY DEF IsFunction

\* Two writers do not hold the same table.
LEMMA OneHolder ==
    ASSUME TablesInv, NEW p \in DOMAIN writers, NEW q \in DOMAIN writers,
           NEW t, t \in TablesOf(writers[p].ops), Holds(writers[q], t)
    PROVE  q = p
  BY WritersApart DEF Apart, Disjoint, Holds

\* The table looks the same to the committed database after a step of p.
Steady(w, v, rows, more, t) ==
    \/ Holds(w, t) /\ Holds(v, t) /\ v.snaps[t] = w.snaps[t]
    \/ /\ ~Holds(w, t) /\ Holds(v, t) /\ v.snaps[t] = rows
       /\ t \in TablesOf(w.ops)
    \/ ~Holds(w, t) /\ ~Holds(v, t) /\ more = rows

\* A step of a writer that commits nothing.
LEMMA CommittedStays ==
    ASSUME TablesInv, TablesInv', NEW p \in DOMAIN writers, NEW v,
           writers' = [writers EXCEPT ![p] = v],
           \A t \in Tables : Steady(writers[p], v, tables[t], tables'[t], t)
    PROVE  Committed' = Committed
<1>1. DOMAIN writers' = DOMAIN writers /\ writers'[p] = v
      /\ \A q \in DOMAIN writers : q # p => writers'[q] = writers[q]
  OBVIOUS
<1>2. PICK d, e : /\ d = Committed /\ e = Committed'
                  /\ IsCommitted(d, writers, tables)
                  /\ IsCommitted(e, writers', tables')
  BY CommittedBoth
<1>3. \A t \in Tables : d[t] = e[t]
  <2> SUFFICES ASSUME NEW t \in Tables PROVE d[t] = e[t]
    OBVIOUS
  <2>0. Steady(writers[p], v, tables[t], tables'[t], t)
    OBVIOUS
  <2>1. CASE Holds(writers[p], t) /\ Holds(v, t) /\ v.snaps[t] = writers[p].snaps[t]
    <3>1. d[t] = writers[p].snaps[t]
      BY <1>2, <2>1 DEF IsCommitted
    <3>2. e[t] = v.snaps[t]
      BY <1>1, <1>2, <2>1 DEF IsCommitted
    <3> QED BY <2>1, <3>1, <3>2
  <2>2. CASE /\ ~Holds(writers[p], t) /\ Holds(v, t) /\ v.snaps[t] = tables[t]
             /\ t \in TablesOf(writers[p].ops)
    <3>1. \A q \in DOMAIN writers : ~Holds(writers[q], t)
      BY <2>2, OneHolder
    <3>2. d[t] = tables[t]
      BY <1>2, <3>1 DEF IsCommitted
    <3>3. e[t] = v.snaps[t]
      BY <1>1, <1>2, <2>2 DEF IsCommitted
    <3> QED BY <2>2, <3>2, <3>3
  <2>3. CASE ~Holds(writers[p], t) /\ ~Holds(v, t) /\ tables'[t] = tables[t]
    <3>1. CASE \E q \in DOMAIN writers : Holds(writers[q], t)
      <4>1. PICK q \in DOMAIN writers : Holds(writers[q], t)
        BY <3>1
      <4>2. q # p /\ writers'[q] = writers[q] /\ q \in DOMAIN writers'
        BY <1>1, <2>3, <4>1
      <4>3. d[t] = writers[q].snaps[t]
        BY <1>2, <4>1 DEF IsCommitted
      <4>4. e[t] = writers'[q].snaps[t]
        BY <1>2, <4>1, <4>2 DEF IsCommitted
      <4> QED BY <4>2, <4>3, <4>4
    <3>2. CASE \A q \in DOMAIN writers : ~Holds(writers[q], t)
      <4>1. \A q \in DOMAIN writers' : ~Holds(writers'[q], t)
        BY <1>1, <2>3, <3>2
      <4>2. d[t] = tables[t]
        BY <1>2, <3>2 DEF IsCommitted
      <4>3. e[t] = tables'[t]
        BY <1>2, <4>1 DEF IsCommitted
      <4> QED BY <2>3, <4>2, <4>3
    <3> QED BY <3>1, <3>2
  <2> QED BY <2>0, <2>1, <2>2, <2>3 DEF Steady
<1>4. d = e
  BY <1>2, <1>3, SameFunction DEF IsCommitted
<1> QED BY <1>2, <1>4 DEF IsCommitted

\* A writer ends: the tables it held are as they were.
LEMMA CommittedEnds ==
    ASSUME TablesInv, TablesInv', NEW p \in DOMAIN writers,
           writers' = Drop(writers, p),
           \A t \in Tables :
               tables'[t] = IF Holds(writers[p], t) THEN writers[p].snaps[t]
                            ELSE tables[t]
    PROVE  Committed' = Committed
<1>1. /\ DOMAIN writers' = DOMAIN writers \ {p}
      /\ \A q \in DOMAIN writers \ {p} : writers'[q] = writers[q]
  BY DEF Drop, Restrict
<1>2. PICK d, e : /\ d = Committed /\ e = Committed'
                  /\ IsCommitted(d, writers, tables)
                  /\ IsCommitted(e, writers', tables')
  BY CommittedBoth
<1>3. \A t \in Tables : d[t] = e[t]
  <2> SUFFICES ASSUME NEW t \in Tables PROVE d[t] = e[t]
    OBVIOUS
  <2>1. CASE \E q \in DOMAIN writers \ {p} : Holds(writers[q], t)
    <3>1. PICK q \in DOMAIN writers \ {p} : Holds(writers[q], t)
      BY <2>1
    <3>2. writers'[q] = writers[q] /\ q \in DOMAIN writers'
      BY <1>1
    <3>3. d[t] = writers[q].snaps[t]
      BY <1>2, <3>1 DEF IsCommitted
    <3>4. e[t] = writers'[q].snaps[t]
      BY <1>2, <3>1, <3>2 DEF IsCommitted
    <3> QED BY <3>2, <3>3, <3>4
  <2>2. CASE \A q \in DOMAIN writers \ {p} : ~Holds(writers[q], t)
    <3>1. \A q \in DOMAIN writers' : ~Holds(writers'[q], t)
      BY <1>1, <2>2
    <3>2. e[t] = tables'[t]
      BY <1>2, <3>1 DEF IsCommitted
    <3>3. CASE Holds(writers[p], t)
      <4>1. d[t] = writers[p].snaps[t]
        BY <1>2, <3>3 DEF IsCommitted
      <4> QED BY <3>2, <3>3, <4>1
    <3>4. CASE ~Holds(writers[p], t)
      <4>1. \A q \in DOMAIN writers : ~Holds(writers[q], t)
        BY <2>2, <3>4
      <4>2. d[t] = tables[t]
        BY <1>2, <4>1 DEF IsCommitted
      <4> QED BY <3>2, <3>4, <4>2
    <3> QED BY <3>3, <3>4
  <2> QED BY <2>1, <2>2
<1>4. d = e
  BY <1>2, <1>3, SameFunction DEF IsCommitted
<1> QED BY <1>2, <1>4

\* A writer without copies begins.
LEMMA CommittedBegins ==
    ASSUME TablesInv, TablesInv', NEW c, c \notin DOMAIN writers, NEW w,
           writers' = Put(writers, c, w), tables' = tables, w.snaps = EmptyMap
    PROVE  Committed' = Committed
<1>1. /\ DOMAIN writers' = DOMAIN writers \cup {c} /\ writers'[c] = w
      /\ \A q \in DOMAIN writers : writers'[q] = writers[q]
  BY DEF Put
<1>2. PICK d, e : /\ d = Committed /\ e = Committed'
                  /\ IsCommitted(d, writers, tables)
                  /\ IsCommitted(e, writers', tables')
  BY CommittedBoth
<1>3. \A t : ~Holds(w, t)
  BY DEF Holds, EmptyMap
<1>4. \A t \in Tables : d[t] = e[t]
  <2> SUFFICES ASSUME NEW t \in Tables PROVE d[t] = e[t]
    OBVIOUS
  <2>1. CASE \E q \in DOMAIN writers : Holds(writers[q], t)
    <3>1. PICK q \in DOMAIN writers : Holds(writers[q], t)
      BY <2>1
    <3>2. writers'[q] = writers[q] /\ q \in DOMAIN writers'
      BY <1>1
    <3>3. d[t] = writers[q].snaps[t]
      BY <1>2, <3>1 DEF IsCommitted
    <3>4. e[t] = writers'[q].snaps[t]
      BY <1>2, <3>1, <3>2 DEF IsCommitted
    <3> QED BY <3>2, <3>3, <3>4
  <2>2. CASE \A q \in DOMAIN writers : ~Holds(writers[q], t)
    <3>1. \A q \in DOMAIN writers' : ~Holds(writers'[q], t)
      BY <1>1, <1>3, <2>2
    <3>2. e[t] = tables[t]
      BY <1>2, <3>1 DEF IsCommitted
    <3>3. d[t] = tables[t]
      BY <1>2, <2>2 DEF IsCommitted
    <3> QED BY <3>2, <3>3
  <2> QED BY <2>1, <2>2
<1>5. d = e
  BY <1>2, <1>4, SameFunction DEF IsCommitted
<1> QED BY <1>2, <1>5

\* A step that changes neither writers nor tables commits nothing.
LEMMA CommittedSame ==
    ASSUME writers' = writers, tables' = tables
    PROVE  Committed' = Committed
  BY CommittedIs

\* The names of the abstract specification stand for the ones of OvsdbRuns.
LEMMA AtomicSteps ==
    /\ \A d : Atomic!Begun(d) = Begun(d)
    /\ \A s, op, u : Atomic!Performed(s, op, u) = Performed(s, op, u)
    /\ \A s, op, u : Atomic!Succeeds(s, op, u) <=> Succeeds(s, op, u)
<1>1. ASSUME NEW rows, NEW op, NEW u
      PROVE  Atomic!Effect(rows, op, u) = Effect(rows, op, u)
  BY DEF Atomic!Effect, Effect,
         Atomic!Inserted, Inserted, Atomic!Updated, Updated, Atomic!Deleted, Deleted,
         Atomic!Mutated, Mutated, Atomic!Matching, Matching, Atomic!Merge, Merge,
         Atomic!Restrict, Restrict, Atomic!Put, Put,
         Atomic!IsSet, IsSet, Atomic!MatchWhere, MatchWhere, Atomic!EvalCondition,
         EvalCondition, Atomic!Less, Less, Atomic!SetIncludes, SetIncludes,
         Atomic!Elements, Elements, Atomic!IsNum, IsNum, Atomic!After, After,
         Atomic!ApplyMutation, ApplyMutation, Atomic!Numeric, Numeric,
         Atomic!SetInsert, SetInsert, Atomic!SetDelete, SetDelete
<1>2. ASSUME NEW op, NEW named
      PROVE  Atomic!Resolve(op, named) = Resolve(op, named)
  BY DEF Atomic!Resolve, Resolve, Atomic!ResolveValue, ResolveValue,
         Atomic!ResolveAtom, ResolveAtom, Atomic!IsSet, IsSet
<1>3. ASSUME NEW named, NEW op, NEW u
      PROVE  Atomic!Named(named, op, u) = Named(named, op, u)
  BY DEF Atomic!Named, Named, Atomic!Put, Put
<1>4. ASSUME NEW s, NEW op, NEW u
      PROVE  Atomic!Performed(s, op, u) = Performed(s, op, u)
  BY <1>1, <1>2, <1>3 DEF Atomic!Performed, Performed
<1>5. ASSUME NEW s, NEW op, NEW u
      PROVE  Atomic!Succeeds(s, op, u) <=> Succeeds(s, op, u)
  BY DEF Atomic!Succeeds, Succeeds, Atomic!Operations, Operations, Atomic!Matching,
         Matching, Atomic!Fails, Fails, Atomic!FailsAt, FailsAt, Atomic!MutationFails,
         MutationFails, Atomic!Put, Put, Atomic!Resolve, Resolve,
         Atomic!ResolveValue, ResolveValue, Atomic!ResolveAtom, ResolveAtom,
         Atomic!IsSet, IsSet, Atomic!MatchWhere, MatchWhere, Atomic!EvalCondition,
         EvalCondition, Atomic!Less, Less, Atomic!SetIncludes, SetIncludes,
         Atomic!Elements, Elements, Atomic!IsNum, IsNum, Atomic!After, After,
         Atomic!ApplyMutation, ApplyMutation, Atomic!Numeric, Numeric,
         Atomic!SetInsert, SetInsert, Atomic!SetDelete, SetDelete
<1>6. \A d : Atomic!Begun(d) = Begun(d)
  BY DEF Atomic!Begun, Begun, Atomic!EmptyMap, EmptyMap
<1> QED BY <1>4, <1>5, <1>6

\* The same in the names of the abstract specification.
IsAtomicTrace(g, d, ops, ids, n) ==
    g = [i \in 0..n |-> IF i = 0 THEN Atomic!Begun(d)
                        ELSE Atomic!Performed(g[i - 1], ops[i], ids[i])]

\* A trace of the abstract specification is one of OvsdbRuns.
LEMMA AtomicTrace ==
    ASSUME NEW g, NEW d, NEW ops, NEW ids, NEW n
    PROVE  IsAtomicTrace(g, d, ops, ids, n) <=> IsTrace(g, d, ops, ids, n)
<1>1. [i \in 0..n |-> IF i = 0 THEN Atomic!Begun(d)
                      ELSE Atomic!Performed(g[i - 1], ops[i], ids[i])]
    = [i \in 0..n |-> IF i = 0 THEN Begun(d)
                      ELSE Performed(g[i - 1], ops[i], ids[i])]
  BY AtomicSteps
<1> QED BY <1>1 DEF IsAtomicTrace, IsTrace

\* Run of the abstract specification is that of OvsdbRuns.
LEMMA AtomicRun ==
    ASSUME NEW d, NEW ops, NEW ids, Len(ops) \in Nat
    PROVE  \A k \in 0..Len(ops) : Atomic!Run(d, ops, ids, k) = Run(d, ops, ids, k)
<1> DEFINE f[i \in 0..Len(ops)] ==
            IF i = 0 THEN Atomic!Begun(d)
            ELSE Atomic!Performed(f[i - 1], ops[i], ids[i])
<1>1. PICK n \in Nat : n = Len(ops)
  OBVIOUS
<1>2. \E h : IsAtomicTrace(h, d, ops, ids, n)
  BY TraceExists, AtomicTrace
<1>3. f = [i \in 0..n |-> IF i = 0 THEN Atomic!Begun(d)
                          ELSE Atomic!Performed(f[i - 1], ops[i], ids[i])]
  BY <1>1, <1>2 DEF IsAtomicTrace
<1>4. PICK g : g = f
  OBVIOUS
<1>5. IsAtomicTrace(g, d, ops, ids, n)
  BY <1>3, <1>4 DEF IsAtomicTrace
<1>6. \A k : Atomic!Run(d, ops, ids, k) = g[k]
  BY <1>4 DEF Atomic!Run
<1> HIDE DEF f
<1>7. IsTrace(g, d, ops, ids, n)
  BY <1>5, AtomicTrace
<1>8. \A i \in 0..n : g[i] = IF i = 0 THEN Begun(d)
                             ELSE Performed(g[i - 1], ops[i], ids[i])
  BY <1>7 DEF IsTrace
<1>9. \A k \in 0..n : g[k] = Run(d, ops, ids, k)
  <2> DEFINE T == {k \in 0..n : g[k] # Run(d, ops, ids, k)}
  <2>1. SUFFICES ASSUME T # {} PROVE FALSE
    OBVIOUS
  <2>2. PICK k \in T : \A m \in T : k <= m
    <3>1. T \in SUBSET Nat
      OBVIOUS
    <3> HIDE DEF T
    <3> QED BY <2>1, <3>1, LeastNumber
  <2>3. k # 0
    BY <1>1, <1>8, <2>2, RunUnfolds
  <2>4. PICK j : j = k - 1
    OBVIOUS
  <2>5. j \in 0..n /\ k \in 1..n /\ ~(k <= j)
    BY <2>2, <2>3, <2>4
  <2>6. g[j] = Run(d, ops, ids, j) /\ g[k] # Run(d, ops, ids, k)
    BY <2>2, <2>5
  <2>7. g[k] = Performed(g[j], ops[k], ids[k])
    BY <1>8, <2>4, <2>5
  <2>8. Follows(ops, j, k)
    BY <1>1, <2>4, <2>5 DEF Follows
  <2>9. Run(d, ops, ids, k) = Performed(Run(d, ops, ids, j), ops[k], ids[k])
    BY <2>8, RunGoesOn
  <2> QED BY <2>6, <2>7, <2>9
<1> QED BY <1>1, <1>6, <1>9

\* What the abstract database does in one step.
Commits(d, e, ops, ids) ==
    /\ \A k \in DOMAIN ops : Succeeds(Run(d, ops, ids, k - 1), ops[k], ids[k])
    /\ e = Run(d, ops, ids, Len(ops)).db

\* A commit is a step of the abstract specification, or changes nothing.
LEMMA CommitIs ==
    ASSUME NEW ops, \/ ops \in Requests
                    \/ \E u \in Uuids, up \in {0, 1} : ops = PortUpdate(u, up),
           RightOps(ops),
           NEW ids \in [DOMAIN ops -> Uuids], Commits(Committed, Committed', ops, ids)
    PROVE  [Atomic!Next]_Committed
<1>1. ops \in Requests \cup {PortUpdate(u, up) : u \in Uuids, up \in {0, 1}}
  OBVIOUS
<1>2. Atomic!Commit(ops, ids)
  <2>1. \A k \in DOMAIN ops : k - 1 \in 0..Len(ops)
    BY DEF RightOps
  <2>2. Len(ops) \in Nat /\ Len(ops) \in 0..Len(ops)
    BY DEF RightOps
  <2>3. \A k \in 0..Len(ops) :
            Atomic!Run(Committed, ops, ids, k) = Run(Committed, ops, ids, k)
    BY <2>2, AtomicRun
  <2>4. \A k \in DOMAIN ops :
            Atomic!Succeeds(Atomic!Run(Committed, ops, ids, k - 1), ops[k], ids[k])
    BY <2>1, <2>3, AtomicSteps DEF Commits
  <2>5. Committed' = Atomic!Run(Committed, ops, ids, Len(ops)).db
    BY <2>2, <2>3 DEF Commits
  <2> QED BY <2>4, <2>5 DEF Atomic!Commit
<1>3. CASE Committed' = Committed
  BY <1>3
<1>4. CASE Committed' # Committed
  BY <1>1, <1>2, <1>4 DEF Atomic!Next
<1> QED BY <1>3, <1>4

-----------------------------------------------------------------------------
(* Transactions that go on and transactions that commit.                   *)

\* No operation adds or removes a table.
LEMMA RunDomain ==
    ASSUME NEW d, NEW ops, Len(ops) \in Nat, NEW ids
    PROVE  \A i \in 0..Len(ops) : DOMAIN Run(d, ops, ids, i).db = DOMAIN d
<1> DEFINE T == {k \in 0..Len(ops) : DOMAIN Run(d, ops, ids, k).db # DOMAIN d}
<1>1. SUFFICES ASSUME T # {} PROVE FALSE
  OBVIOUS
<1>2. PICK k \in T : \A m \in T : k <= m
  <2>1. T \in SUBSET Nat
    OBVIOUS
  <2> HIDE DEF T
  <2> QED BY <1>1, <2>1, LeastNumber
<1>3. k # 0
  <2>1. Run(d, ops, ids, 0) = Begun(d)
    BY RunUnfolds
  <2> QED BY <1>2, <2>1 DEF Begun
<1>4. PICK j : j = k - 1
  OBVIOUS
<1>5. j \in 0..Len(ops) /\ k \in 1..Len(ops) /\ ~(k <= j)
  BY <1>2, <1>3, <1>4
<1>6. DOMAIN Run(d, ops, ids, j).db = DOMAIN d
  BY <1>2, <1>5
<1>7. DOMAIN Run(d, ops, ids, k).db # DOMAIN d
  BY <1>2
<1>8. Follows(ops, j, k)
  BY <1>4, <1>5 DEF Follows
<1>9. PICK s, op, u, q : /\ s = Run(d, ops, ids, j) /\ op = ops[k] /\ u = ids[k]
                         /\ q = Performed(s, op, u)
  OBVIOUS
<1>10. Run(d, ops, ids, k) = q
  BY <1>8, <1>9, RunGoesOn
<1>11. DOMAIN q.db = DOMAIN s.db
  BY <1>9, PerformFacts
<1> QED BY <1>6, <1>7, <1>9, <1>10, <1>11

\* The operation a transaction is at can be done on the tables.
Doable(w, rows, u) ==
    /\ w.ops[w.k].op \in Operations
    /\ w.ops[w.k].table \in DOMAIN w.snaps
    /\ w.ops[w.k].op = "insert" => u \notin DOMAIN rows
    /\ w.ops[w.k].op = "mutate" => \A x \in Matching(rows, OpOf(w).where) :
                                       ~Fails(rows[x], w.ops[w.k].mutations)

\* v is w with the operation done.
Doing(w, v, u, tabs, more) ==
    /\ v.ops = w.ops /\ v.snaps = w.snaps
    /\ v.named = Named(w.named, w.ops[w.k], u)
    /\ more[TableOf(w)] = Effect(tabs[TableOf(w)], OpOf(w), u)
    /\ \A t \in DOMAIN w.snaps : t # TableOf(w) => more[t] = tabs[t]

\* The operation a transaction is at extends what it has run.
LEMMA OperationRuns ==
    ASSUME NEW w, RightOps(w.ops), w.k \in DOMAIN w.ops, NEW u \in Uuids,
           NEW tabs, NEW more, NEW ids, Ran(w, ids, w.k - 1, tabs),
           Doable(w, tabs[TableOf(w)], u), NEW v, Doing(w, v, u, tabs, more)
    PROVE  \E idz : Ran(v, idz, w.k, more)
<1>1. PICK k, j, ops, op, snaps : /\ k = w.k /\ j = k - 1 /\ ops = w.ops
                                  /\ op = ops[k] /\ snaps = w.snaps
  OBVIOUS
<1>2. Len(ops) \in Nat /\ DOMAIN ops = 1..Len(ops) /\ k \in 1..Len(ops)
      /\ j \in 0..Len(ops) /\ k \in DOMAIN ops
  BY <1>1 DEF RightOps
<1>3. ids \in [DOMAIN ops -> Uuids]
  BY <1>1 DEF Ran
<1>4. PICK idz : idz = [ids EXCEPT ![k] = u]
  OBVIOUS
<1>5. idz \in [DOMAIN ops -> Uuids] /\ idz[k] = u
  BY <1>2, <1>3, <1>4
<1>6. \A i \in 1..j : i \in DOMAIN ops /\ i # k
  BY <1>1, <1>2
<1>7. \A i \in 1..j : ids[i] = idz[i]
  BY <1>3, <1>4, <1>6
<1>8. \A i \in 0..j : Run(snaps, ops, ids, i) = Run(snaps, ops, idz, i)
  BY <1>2, <1>7, SameIds
<1>9. PICK s : s = Run(snaps, ops, ids, j)
  OBVIOUS
<1>10. s = Run(snaps, ops, idz, j)
  BY <1>2, <1>8, <1>9
<1>11. DOMAIN s.db = DOMAIN snaps
  BY <1>2, <1>9, RunDomain
<1>12. w.named = s.named /\ \A t \in DOMAIN snaps : tabs[t] = s.db[t]
  BY <1>1, <1>9 DEF Ran
<1>13. PICK q : q = Performed(s, op, u)
  OBVIOUS
<1>14. Run(snaps, ops, idz, k) = q
  <2>1. Follows(ops, j, k)
    BY <1>1, <1>2 DEF Follows
  <2>2. Run(snaps, ops, idz, k) = Performed(Run(snaps, ops, idz, j), ops[k], idz[k])
    BY <2>1, RunGoesOn
  <2> QED BY <1>1, <1>5, <1>10, <1>13, <2>2
<1>15. /\ \A t \in DOMAIN s.db : t # op.table => q.db[t] = s.db[t]
       /\ op.table \in DOMAIN s.db =>
             q.db[op.table] = Effect(s.db[op.table], Resolve(op, s.named), u)
       /\ q.named = Named(s.named, op, u)
  BY <1>13, PerformFacts
<1>16. OpOf(w) = Resolve(op, s.named) /\ TableOf(w) = op.table
       /\ op.table \in DOMAIN snaps
  BY <1>1, <1>12 DEF OpOf, TableOf, Doable
<1>17. \A t \in DOMAIN snaps : more[t] = q.db[t]
  <2> SUFFICES ASSUME NEW t \in DOMAIN snaps PROVE more[t] = q.db[t]
    OBVIOUS
  <2>1. CASE t = op.table
    <3>1. more[t] = Effect(tabs[op.table], OpOf(w), u)
      BY <1>16, <2>1 DEF Doing
    <3>2. q.db[t] = Effect(s.db[op.table], Resolve(op, s.named), u)
      BY <1>11, <1>15, <1>16, <2>1
    <3>3. tabs[op.table] = s.db[op.table]
      BY <1>12, <1>16
    <3> QED BY <1>16, <3>1, <3>2, <3>3
  <2>2. CASE t # op.table
    BY <1>1, <1>11, <1>12, <1>15, <1>16, <2>2 DEF Doing
  <2> QED BY <2>1, <2>2
<1>18. Succeeds(s, op, u)
  <2>1. s.db[op.table] = tabs[TableOf(w)]
    BY <1>12, <1>16
  <2>2. /\ op.op \in Operations
        /\ op.op = "insert" => u \notin DOMAIN s.db[op.table]
        /\ op.op = "mutate" =>
              \A x \in Matching(s.db[op.table], Resolve(op, s.named).where) :
                  ~Fails(s.db[op.table][x], op.mutations)
    BY <1>1, <1>16, <2>1 DEF Doable
  <2> QED BY <1>11, <1>16, <2>2 DEF Succeeds
<1>19. \A i \in 1..k : Succeeds(Run(snaps, ops, idz, i - 1), ops[i], idz[i])
  <2> SUFFICES ASSUME NEW i \in 1..k
               PROVE  Succeeds(Run(snaps, ops, idz, i - 1), ops[i], idz[i])
    OBVIOUS
  <2>1. CASE i = k
    BY <1>1, <1>5, <1>10, <1>18, <2>1
  <2>2. CASE i # k
    <3>1. i \in 1..j /\ i - 1 \in 0..j
      BY <1>1, <1>2, <2>2
    <3>2. Succeeds(Run(snaps, ops, ids, i - 1), ops[i], ids[i])
      BY <1>1, <3>1 DEF Ran
    <3> QED BY <1>7, <1>8, <3>1, <3>2
  <2> QED BY <2>1, <2>2
<1>20. v.ops = ops /\ v.snaps = snaps /\ v.named = q.named
  BY <1>1, <1>12, <1>15 DEF Doing
<1>21. Ran(v, idz, k, more)
  BY <1>5, <1>14, <1>17, <1>19, <1>20 DEF Ran
<1> QED BY <1>1, <1>21

\* The first n operations of the transaction have been done.
Reached(w, n, tabs) == \E ids : Ran(w, ids, n, tabs)

\* Every operation of a transaction that has run is on a table it has copied.
LEMMA RanTables ==
    ASSUME NEW w, RightOps(w.ops), NEW ids, NEW tabs, Ran(w, ids, Len(w.ops), tabs)
    PROVE  \A i \in 1..Len(w.ops) : w.ops[i].table \in DOMAIN w.snaps
<1>1. PICK ops, snaps : ops = w.ops /\ snaps = w.snaps
  OBVIOUS
<1>2. Len(ops) \in Nat
  BY <1>1 DEF RightOps
<1>3. \A i \in 0..Len(ops) : DOMAIN Run(snaps, ops, ids, i).db = DOMAIN snaps
  BY <1>2, RunDomain
<1> SUFFICES ASSUME NEW i \in 1..Len(ops) PROVE ops[i].table \in DOMAIN snaps
  BY <1>1
<1>4. Succeeds(Run(snaps, ops, ids, i - 1), ops[i], ids[i])
  BY <1>1 DEF Ran
<1>5. i - 1 \in 0..Len(ops)
  BY <1>2
<1>6. ops[i].table \in DOMAIN Run(snaps, ops, ids, i - 1).db
  BY <1>4 DEF Succeeds
<1> QED BY <1>3, <1>5, <1>6

\* The same transaction on a database of which the copies are a part.
LEMMA CommitsWhole ==
    ASSUME NEW w, RightOps(w.ops), NEW ids, NEW tabs, Ran(w, ids, Len(w.ops), tabs),
           NEW d, NEW e, IsFunction(e), DOMAIN e = DOMAIN d,
           DOMAIN w.snaps \subseteq DOMAIN d, \A t \in DOMAIN w.snaps : d[t] = w.snaps[t],
           \A t \in DOMAIN w.snaps : e[t] = tabs[t],
           \A t \in DOMAIN d \ DOMAIN w.snaps : e[t] = d[t]
    PROVE  Commits(d, e, w.ops, ids)
<1>1. PICK ops, snaps, n : ops = w.ops /\ snaps = w.snaps /\ n = Len(ops)
  OBVIOUS
<1>2. n \in Nat /\ n > 0 /\ DOMAIN ops = 1..n /\ Len(ops) \in Nat
  BY <1>1 DEF RightOps
<1>3. \A i \in 1..n : ops[i].table \in DOMAIN snaps
  BY <1>1, RanTables
<1>4. \A i \in 0..n : Frames(Run(d, ops, ids, i), Run(snaps, ops, ids, i), d, snaps)
  BY <1>1, <1>2, <1>3, RunFrames
<1>5. \A k \in DOMAIN ops : Succeeds(Run(d, ops, ids, k - 1), ops[k], ids[k])
  <2> SUFFICES ASSUME NEW k \in DOMAIN ops
               PROVE  Succeeds(Run(d, ops, ids, k - 1), ops[k], ids[k])
    OBVIOUS
  <2>1. PICK j, s, z, op, u : /\ j = k - 1 /\ s = Run(d, ops, ids, j)
                              /\ z = Run(snaps, ops, ids, j) /\ op = ops[k] /\ u = ids[k]
    OBVIOUS
  <2>2. j \in 0..n /\ k \in 1..n
    BY <1>2, <2>1
  <2>3. Frames(s, z, d, snaps)
    BY <1>4, <2>1, <2>2
  <2>4. Succeeds(z, op, u)
    BY <1>1, <2>1, <2>2 DEF Ran
  <2>5. op.table \in DOMAIN snaps /\ DOMAIN snaps \subseteq DOMAIN d
    BY <1>1, <1>3, <2>1, <2>2
  <2>6. Succeeds(s, op, u)
    BY <2>3, <2>4, <2>5, SucceedFrames
  <2> QED BY <2>1, <2>6
<1>6. PICK q : q = Run(d, ops, ids, n)
  OBVIOUS
<1>7. IsFunction(q.db)
  <2>1. PICK j, s, op, u : /\ j = n - 1 /\ s = Run(d, ops, ids, j)
                           /\ op = ops[n] /\ u = ids[n]
    OBVIOUS
  <2>2. Follows(ops, j, n)
    BY <1>1, <1>2, <2>1 DEF Follows
  <2>3. q = Performed(s, op, u)
    BY <1>6, <2>1, <2>2, RunGoesOn
  <2> QED BY <2>3, PerformFacts
<1>8. PICK z : z = Run(snaps, ops, ids, n)
  OBVIOUS
<1>9. Frames(q, z, d, snaps)
  BY <1>2, <1>4, <1>6, <1>8
<1>10. \A t \in DOMAIN snaps : tabs[t] = z.db[t]
  BY <1>1, <1>8 DEF Ran
<1>11. DOMAIN q.db = DOMAIN d /\ \A t \in DOMAIN d : e[t] = q.db[t]
  BY <1>1, <1>9, <1>10 DEF Frames
<1>12. PICK b : b = q.db
  OBVIOUS
<1>13. e = b
  BY <1>7, <1>11, <1>12, SameFunction
<1> QED BY <1>1, <1>5, <1>6, <1>12, <1>13 DEF Commits

\* A transaction that has done its last operation commits.
LEMMA CommitStep ==
    ASSUME TablesInv, TablesInv', NEW p \in DOMAIN writers, NEW v,
           writers' = [writers EXCEPT ![p] = v],
           writers[p].pc # "notify", v.pc = "notify",
           v.ops = writers[p].ops, v.snaps = writers[p].snaps, v.ops \in Requests,
           \A t \in Tables \ DOMAIN v.snaps : tables'[t] = tables[t],
           Reached(v, Len(v.ops), tables')
    PROVE  [Atomic!Next]_Committed
<1>1. DOMAIN writers' = DOMAIN writers /\ writers'[p] = v
      /\ \A q \in DOMAIN writers : q # p => writers'[q] = writers[q]
  OBVIOUS
<1>2. PICK d, e : /\ d = Committed /\ e = Committed'
                  /\ IsCommitted(d, writers, tables)
                  /\ IsCommitted(e, writers', tables')
  BY CommittedBoth
<1>3. RightWriter(writers[p])
  BY DEF TablesInv
<1>4. RightOps(v.ops) /\ DOMAIN v.snaps \subseteq TablesOf(v.ops) \cap Tables
  BY <1>3 DEF RightWriter, SnapsWhole
<1>5. PICK ids : Ran(v, ids, Len(v.ops), tables')
  BY DEF Reached
<1>6. ids \in [DOMAIN v.ops -> Uuids]
  BY <1>5 DEF Ran
<1>7. \A t \in DOMAIN v.snaps : d[t] = v.snaps[t]
  <2> SUFFICES ASSUME NEW t \in DOMAIN v.snaps PROVE d[t] = v.snaps[t]
    OBVIOUS
  <2>1. Holds(writers[p], t) /\ t \in Tables
    BY <1>4 DEF Holds
  <2> QED BY <1>2, <2>1 DEF IsCommitted
<1>8. ASSUME NEW q \in DOMAIN writers, NEW t, Holds(writers[q], t), q # p
      PROVE  t \notin TablesOf(v.ops)
  BY <1>8, OneHolder
<1>9. \A t : ~Holds(v, t)
  BY DEF Holds
<1>10. \A t \in DOMAIN v.snaps : e[t] = tables'[t]
  <2> SUFFICES ASSUME NEW t \in DOMAIN v.snaps PROVE e[t] = tables'[t]
    OBVIOUS
  <2>1. \A q \in DOMAIN writers' : ~Holds(writers'[q], t)
    BY <1>1, <1>4, <1>8, <1>9
  <2>2. t \in Tables
    BY <1>4
  <2> QED BY <1>2, <2>1, <2>2 DEF IsCommitted
<1>11. \A t \in Tables \ DOMAIN v.snaps : e[t] = d[t]
  <2> SUFFICES ASSUME NEW t \in Tables \ DOMAIN v.snaps PROVE e[t] = d[t]
    OBVIOUS
  <2>1. ~Holds(writers[p], t)
    BY DEF Holds
  <2>2. CASE \E q \in DOMAIN writers : Holds(writers[q], t)
    <3>1. PICK q \in DOMAIN writers : Holds(writers[q], t)
      BY <2>2
    <3>2. q \in DOMAIN writers' /\ writers'[q] = writers[q]
      BY <1>1, <2>1, <3>1
    <3>3. d[t] = writers[q].snaps[t]
      BY <1>2, <3>1 DEF IsCommitted
    <3>4. e[t] = writers'[q].snaps[t]
      BY <1>2, <3>1, <3>2 DEF IsCommitted
    <3> QED BY <3>2, <3>3, <3>4
  <2>3. CASE \A q \in DOMAIN writers : ~Holds(writers[q], t)
    <3>1. \A q \in DOMAIN writers' : ~Holds(writers'[q], t)
      BY <1>1, <1>9, <2>3
    <3>2. e[t] = tables'[t] /\ d[t] = tables[t]
      BY <1>2, <2>3, <3>1 DEF IsCommitted
    <3> QED BY <3>2
  <2> QED BY <2>2, <2>3
<1>12. IsFunction(e) /\ DOMAIN e = Tables /\ DOMAIN d = Tables
  BY <1>2 DEF IsCommitted
<1>13. PICK tabs, ops : tabs = tables' /\ ops = v.ops
  OBVIOUS
<1>14. Commits(d, e, v.ops, ids)
  BY <1>4, <1>5, <1>7, <1>10, <1>11, <1>12, <1>13, CommitsWhole
<1>15. Commits(Committed, Committed', ops, ids)
  BY <1>2, <1>13, <1>14
<1> QED BY <1>4, <1>6, <1>13, <1>15, CommitIs

\* What a step has to show.
AtomicMove == AtomicInv' /\ [Atomic!Next]_Committed

\* The operations of the transaction are done as far as it has come.
Goes(v, tabs) ==
    /\ HasRun(v, tabs)
    /\ v.pc = "notify" => Reached(v, Len(v.ops), tabs)

\* A transaction that has its copies goes on.
LEMMA ClientMoves ==
    ASSUME TablesInv, TablesInv', AtomicInv, NEW p \in DOMAIN writers, p \in Clients,
           NEW v, writers' = [writers EXCEPT ![p] = v],
           writers[p].pc \notin {"snapshot", "notify"}, v.pc # "snapshot",
           v.ops = writers[p].ops, v.snaps = writers[p].snaps,
           \A t \in Tables \ TablesOf(v.ops) : tables'[t] = tables[t],
           Goes(v, tables')
    PROVE  AtomicMove
<1>1. RightClient(writers[p], tables) /\ p \notin PortCalls
  BY OvsdbAssumption DEF AtomicInv
<1>2. v.ops \in Requests /\ TablesOf(v.ops) \cap Tables \subseteq DOMAIN v.snaps
  BY <1>1 DEF RightClient
<1>3. DOMAIN v.snaps \subseteq TablesOf(v.ops) \cap Tables
  BY DEF TablesInv, RightWriter, SnapsWhole
<1>4. RightClient(v, tables')
  BY <1>2 DEF RightClient, Goes
<1>5. AtomicInv'
  BY <1>1, <1>4, AtomicMoves
<1>6. \A t \in Tables \ DOMAIN v.snaps : tables'[t] = tables[t]
  BY <1>2
<1>7. CASE v.pc = "notify"
  <2>1. Reached(v, Len(v.ops), tables')
    BY <1>7 DEF Goes
  <2>2. [Atomic!Next]_Committed
    BY <1>2, <1>6, <1>7, <2>1, CommitStep
  <2> QED BY <1>5, <2>2 DEF AtomicMove
<1>8. CASE v.pc # "notify"
  <2>1. \A t \in Tables : Steady(writers[p], v, tables[t], tables'[t], t)
    BY <1>6, <1>8 DEF Steady, Holds
  <2>2. Committed' = Committed
    BY <2>1, CommittedStays
  <2> QED BY <1>5, <2>2 DEF AtomicMove
<1> QED BY <1>7, <1>8

\* A step after which the committed database looks the same.
LEMMA QuietMoves ==
    ASSUME TablesInv, TablesInv', AtomicInv, NEW p \in DOMAIN writers, NEW v,
           writers' = [writers EXCEPT ![p] = v], tables' = tables,
           v.snaps = writers[p].snaps, v.pc = "notify" <=> writers[p].pc = "notify",
           p \in Clients => RightClient(v, tables),
           p \in PortCalls => RightPort(v)
    PROVE  AtomicMove
<1>1. \A t \in Tables \ TablesOf(writers[p].ops) : tables'[t] = tables[t]
  OBVIOUS
<1>2. AtomicInv'
  BY <1>1, AtomicMoves
<1>3. \A t \in Tables : Steady(writers[p], v, tables[t], tables'[t], t)
  BY DEF Steady, Holds
<1>4. Committed' = Committed
  BY <1>3, CommittedStays
<1> QED BY <1>2, <1>4 DEF AtomicMove

\* What has run depends on the operations, the copies and the names only.
LEMMA RanSame ==
    ASSUME NEW w, NEW v, v.ops = w.ops, v.snaps = w.snaps, v.named = w.named,
           NEW n, NEW tabs, Reached(w, n, tabs)
    PROVE  Reached(v, n, tabs)
  BY DEF Reached, Ran

\* v is w after its operation: it has rows to read again, or is past it.
IsPast(w, v) ==
    \/ v.pc = "reread" /\ v.k = w.k
    \/ v.k = w.k + 1 /\ v.pc = IF w.k = Len(w.ops) THEN "notify" ELSE "op"

\* A transaction past an operation has run it.
LEMMA PastGoes ==
    ASSUME NEW w, RightOps(w.ops), w.k \in DOMAIN w.ops, NEW v, v.ops = w.ops,
           IsPast(w, v), NEW tabs, Reached(v, w.k, tabs)
    PROVE  Goes(v, tabs) /\ v.pc \in {"op", "reread", "notify"}
<1>1. w.k \in Nat
  BY DEF RightOps
<1>2. CASE v.pc = "reread" /\ v.k = w.k
  BY <1>2 DEF Goes, HasRun, Done, Reached
<1>3. CASE v.k = w.k + 1 /\ v.pc = "op"
  <2>1. Done(v) = w.k
    BY <1>1, <1>3 DEF Done
  <2> QED BY <1>3, <2>1 DEF Goes, HasRun, Reached
<1>4. CASE v.pc = "notify" /\ w.k = Len(w.ops)
  BY <1>4 DEF Goes, HasRun
<1> QED BY <1>2, <1>3, <1>4 DEF IsPast

\* The operation a writer is at succeeds.
CanDo(w, rows, u) ==
    /\ TableOf(w) \in Tables /\ w.ops[w.k].op \in Operations
    /\ w.ops[w.k].op = "insert" => u \notin DOMAIN rows
    /\ w.ops[w.k].op = "mutate" => \A x \in Matching(rows, OpOf(w).where) :
                                       ~Fails(rows[x], w.ops[w.k].mutations)

\* v is w with the operation done, and no other table has changed.
Does(w, v, u, tabs, more) ==
    /\ IsPast(w, v)
    /\ v.ops = w.ops /\ v.snaps = w.snaps
    /\ v.named = Named(w.named, w.ops[w.k], u)
    /\ more[TableOf(w)] = Effect(tabs[TableOf(w)], OpOf(w), u)
    /\ \A t \in Tables : t # TableOf(w) => more[t] = tabs[t]

\* A client does the operation it is at.
LEMMA ClientOperates ==
    ASSUME TablesInv, TablesInv', AtomicInv, NEW p \in DOMAIN writers, p \in Clients,
           NEW w, w = writers[p], w.pc \in {"op", "write"}, NEW v,
           writers' = [writers EXCEPT ![p] = v], NEW u \in Uuids,
           CanDo(w, tables[TableOf(w)], u), Does(w, v, u, tables, tables')
    PROVE  AtomicMove
<1>1. RightClient(w, tables)
  BY DEF AtomicInv
<1>2. RightWriter(w)
  BY DEF TablesInv
<1>3. RightOps(w.ops) /\ w.k \in DOMAIN w.ops
  BY <1>2 DEF RightWriter
<1>4. TableOf(w) \in TablesOf(w.ops)
  BY <1>3 DEF TableOf, TablesOf
<1>5. TableOf(w) \in DOMAIN w.snaps
  BY <1>1, <1>4 DEF RightClient, CanDo
<1>6. PICK ids : Ran(w, ids, w.k - 1, tables)
  BY <1>1 DEF RightClient, HasRun, Done
<1>7. Doable(w, tables[TableOf(w)], u)
  BY <1>5 DEF Doable, TableOf, CanDo
<1>8. DOMAIN w.snaps \subseteq Tables
  BY <1>2 DEF RightWriter, SnapsWhole
<1>9. Doing(w, v, u, tables, tables')
  BY <1>8 DEF Doing, Does
<1>10. PICK tabs, more : tabs = tables /\ more = tables'
  OBVIOUS
<1>11. Reached(v, w.k, more)
  BY <1>3, <1>6, <1>7, <1>9, <1>10, OperationRuns DEF Reached
<1>12. Goes(v, more) /\ v.pc \in {"op", "reread", "notify"}
  BY <1>3, <1>11, PastGoes DEF Does
<1>13. \A t \in Tables \ TablesOf(v.ops) : tables'[t] = tables[t]
  BY <1>4 DEF Does
<1>14. v.ops = w.ops /\ v.snaps = w.snaps
  BY DEF Does
<1> QED BY <1>10, <1>12, <1>13, <1>14, ClientMoves

-----------------------------------------------------------------------------
(* One step of each writer.                                                *)

\* A transaction that has done nothing yet.
LEMMA NothingRan ==
    ASSUME NEW v, RightOps(v.ops), v.named = EmptyMap, NEW tabs,
           \A t \in DOMAIN v.snaps : tabs[t] = v.snaps[t]
    PROVE  Reached(v, 0, tabs)
<1>1. PICK u \in Uuids : TRUE
  BY TablesAssumption
<1>2. PICK ids : ids = [i \in DOMAIN v.ops |-> u]
  OBVIOUS
<1>3. ids \in [DOMAIN v.ops -> Uuids]
  BY <1>2
<1>4. PICK snaps, ops : snaps = v.snaps /\ ops = v.ops
  OBVIOUS
<1>5. Len(ops) \in Nat
  BY <1>4 DEF RightOps
<1>6. Run(snaps, ops, ids, 0) = Begun(snaps)
  BY <1>5, RunUnfolds
<1>7. Begun(snaps).named = EmptyMap /\ Begun(snaps).db = snaps
  BY DEF Begun
<1>8. \A i \in 1..0 : FALSE
  OBVIOUS
<1>9. Ran(v, ids, 0, tabs)
  BY <1>3, <1>4, <1>6, <1>7, <1>8 DEF Ran
<1> QED BY <1>9 DEF Reached

\* Clients and port calls.
LEMMA WhoWrites ==
    ASSUME TablesInv, AtomicInv, NEW p \in DOMAIN writers
    PROVE  /\ RightWriter(writers[p])
           /\ \/ p \in Clients /\ p \notin PortCalls /\ RightClient(writers[p], tables)
              \/ p \in PortCalls /\ p \notin Clients /\ RightPort(writers[p])
  BY OvsdbAssumption DEF TablesInv, AtomicInv

\* Transact: a copy.
LEMMA SnapshotAtomic ==
    ASSUME TablesInv, TablesInv', AtomicInv, NEW p \in DOMAIN writers, Snapshot(p)
    PROVE  AtomicMove
<1>1. PICK w, rows : w = writers[p] /\ rows = tables[TableOf(w)]
  OBVIOUS
<1>2. PICK v : v = Copied(w, rows) /\ writers' = [writers EXCEPT ![p] = v]
  BY <1>1 DEF Snapshot, TableOf, Copied
<1>3. w.pc = "snapshot" /\ tables' = tables
  BY <1>1 DEF Snapshot, At
<1>4. /\ RightWriter(w) /\ p \in Clients /\ p \notin PortCalls
      /\ RightClient(w, tables)
  BY <1>1, <1>3, WhoWrites DEF RightPort
<1>5. DOMAIN w = {"ops", "k", "pc", "snaps", "named", "old", "changes", "todo"}
  BY <1>4 DEF RightWriter
<1>6. /\ w.k \in DOMAIN w.ops /\ DOMAIN w.ops = 1..Len(w.ops) /\ Len(w.ops) \in Nat
      /\ RightOps(w.ops)
  BY <1>3, <1>4 DEF RightWriter, RightOps
<1>7. /\ v.ops = w.ops /\ v.named = w.named
      /\ v.snaps = IF TableOf(w) \in Tables \ DOMAIN w.snaps
                   THEN Put(w.snaps, TableOf(w), rows) ELSE w.snaps
      /\ v.k = IF w.k = Len(w.ops) THEN 1 ELSE w.k + 1
      /\ v.pc = IF w.k = Len(w.ops) THEN "op" ELSE "snapshot"
  BY <1>2, <1>3, <1>5 DEF Copied
<1>8. /\ DOMAIN w.snaps \subseteq DOMAIN v.snaps
      /\ \A t \in DOMAIN w.snaps : v.snaps[t] = w.snaps[t]
      /\ \A t \in DOMAIN v.snaps \ DOMAIN w.snaps : t = TableOf(w) /\ v.snaps[t] = rows
      /\ TableOf(w) \in Tables => TableOf(w) \in DOMAIN v.snaps
  BY <1>7 DEF Put
<1>9. \A t \in DOMAIN v.snaps : tables[t] = v.snaps[t]
  <2>1. \A t \in DOMAIN w.snaps : tables[t] = w.snaps[t]
    BY <1>3, <1>4 DEF RightClient
  <2> QED BY <1>1, <1>8, <2>1
<1>10. w.named = EmptyMap /\ w.ops \in Requests
  BY <1>3, <1>4 DEF RightClient
<1>11. v.pc = "op" => TablesOf(v.ops) \cap Tables \subseteq DOMAIN v.snaps
  <2> SUFFICES ASSUME v.pc = "op", NEW t \in TablesOf(w.ops) \cap Tables
               PROVE  t \in DOMAIN v.snaps
    BY <1>7
  <2>1. w.k = Len(w.ops)
    BY <1>7
  <2>2. PICK i \in DOMAIN w.ops : t = w.ops[i].table
    BY DEF TablesOf
  <2>3. CASE i = w.k
    BY <1>8, <2>2, <2>3 DEF TableOf
  <2>4. CASE i # w.k
    <3>1. i \in 1..(w.k - 1)
      BY <1>6, <2>1, <2>4
    <3>2. t \in DOMAIN w.snaps
      BY <1>3, <1>4, <2>2, <3>1 DEF RightWriter, SnapsWhole
    <3> QED BY <1>8, <3>2
  <2> QED BY <2>3, <2>4
<1>12. HasRun(v, tables)
  <2>1. Reached(v, 0, tables)
    BY <1>6, <1>7, <1>9, <1>10, NothingRan
  <2>2. v.pc = "op" => Done(v) = 0
    BY <1>7 DEF Done
  <2> QED BY <1>7, <2>1, <2>2 DEF HasRun, Reached
<1>13. RightClient(v, tables)
  BY <1>7, <1>9, <1>10, <1>11, <1>12 DEF RightClient
<1>14. AtomicInv'
  BY <1>1, <1>2, <1>3, <1>4, <1>13, AtomicMoves
<1>15. TableOf(w) \in TablesOf(w.ops)
  BY <1>6 DEF TableOf, TablesOf
<1>16. \A t \in Tables : Steady(w, v, tables[t], tables'[t], t)
  BY <1>1, <1>3, <1>7, <1>8, <1>15 DEF Steady, Holds
<1>17. Committed' = Committed
  BY <1>1, <1>2, <1>16, CommittedStays
<1> QED BY <1>14, <1>17 DEF AtomicMove

\* An operation other than an insert names nothing.
LEMMA NotNamed ==
    ASSUME NEW named, NEW op, op.op # "insert", NEW u
    PROVE  Named(named, op, u) = named
  BY Zenon DEF Named

\* What an operation does to its table.
LEMMA EffectIs ==
    ASSUME NEW rows, NEW op, NEW u
    PROVE  /\ op.op = "insert" => Effect(rows, op, u) = Inserted(rows, u, op.row)
           /\ op.op = "update" => Effect(rows, op, u) = Updated(rows, op.where, op.row)
           /\ op.op = "delete" => Effect(rows, op, u) = Deleted(rows, op.where)
           /\ op.op = "mutate" => Effect(rows, op, u) =
                  Mutated(rows, Matching(rows, op.where), op.mutations)
           /\ op.op = "select" => Effect(rows, op, u) = rows
  BY DEF Effect

\* A writer that is done with an operation.
LEMMA AdvanceIs ==
    ASSUME NEW w, RightWriter(w), NEW v, v = Advance(w)
    PROVE  /\ v.ops = w.ops /\ v.snaps = w.snaps /\ v.named = w.named
           /\ IsPast(w, v)
<1>1. DOMAIN w = {"ops", "k", "pc", "snaps", "named", "old", "changes", "todo"}
  BY DEF RightWriter
<1> QED BY <1>1 DEF Advance, IsPast

\* Transact: a select.
LEMMA SelectAtomic ==
    ASSUME TablesInv, TablesInv', AtomicInv, NEW p \in DOMAIN writers, Select(p)
    PROVE  AtomicMove
<1>1. PICK w, op : w = writers[p] /\ op = w.ops[w.k]
  OBVIOUS
<1>2. PICK v : v = Advance(w) /\ writers' = [writers EXCEPT ![p] = v]
  BY <1>1 DEF Select
<1>3. w.pc = "op" /\ tables' = tables /\ Known(p) /\ Op(p).op = "select"
  BY <1>1 DEF Select, At
<1>4. /\ RightWriter(w) /\ p \in Clients
  BY <1>1, <1>3, WhoWrites DEF RightPort
<1>5. Op(p) = OpOf(w) /\ Op(p).op = op.op /\ Op(p).table = TableOf(w)
  BY <1>1, <1>3, OpFacts DEF At
<1>6. PICK u \in Uuids : TRUE
  BY TablesAssumption
<1>7. v.ops = w.ops /\ v.snaps = w.snaps /\ v.named = w.named /\ IsPast(w, v)
  BY <1>2, <1>4, AdvanceIs
<1>8. Named(w.named, op, u) = w.named
  <2>1. op.op # "insert"
    BY <1>3, <1>5
  <2> QED BY <2>1, NotNamed
<1>9. Effect(tables[TableOf(w)], OpOf(w), u) = tables[TableOf(w)]
  BY <1>3, <1>5, EffectIs
<1>10. TableOf(w) \in Tables /\ op.op \in Operations /\ op.op # "insert" /\ op.op # "mutate"
  BY <1>3, <1>5 DEF Known
<1>11. CanDo(w, tables[TableOf(w)], u)
  BY <1>1, <1>10 DEF CanDo
<1>12. Does(w, v, u, tables, tables')
  BY <1>1, <1>3, <1>7, <1>8, <1>9 DEF Does
<1> QED BY <1>1, <1>2, <1>3, <1>4, <1>11, <1>12, ClientOperates

\* Transact: an insert.
LEMMA InsertAtomic ==
    ASSUME TablesInv, TablesInv', AtomicInv, NEW p \in DOMAIN writers, NEW u \in Uuids,
           Insert(p, u)
    PROVE  AtomicMove
<1>1. PICK w, op, t : w = writers[p] /\ op = w.ops[w.k] /\ t = TableOf(w)
  OBVIOUS
<1>2. w.pc = "op" /\ Known(p) /\ Op(p).op = "insert" /\ Fresh(u)
  BY <1>1 DEF Insert, At
<1>3. RightWriter(w) /\ p \in Clients
  BY <1>1, <1>2, WhoWrites DEF RightPort
<1>4. /\ Op(p) = OpOf(w) /\ Op(p).op = op.op /\ Op(p).table = t
      /\ Op(p).name = op.name
  BY <1>1, <1>2, OpFacts DEF At
<1>5. PICK named : named = Named(w.named, op, u)
  OBVIOUS
<1>6. named = IF Op(p).name = "" THEN w.named ELSE Put(w.named, Op(p).name, u)
  BY <1>2, <1>4, <1>5, Zenon DEF Named
<1>7. PICK v : /\ v = [w EXCEPT !.pc = "reread", !.old = Put(EmptyMap, u, EmptyMap),
                                !.named = named]
               /\ writers' = [writers EXCEPT ![p] = v]
  <2>1. writers' = [writers EXCEPT
                      ![p].pc = "reread",
                      ![p].old = Put(EmptyMap, u, EmptyMap),
                      ![p].named = IF Op(p).name = "" THEN w.named
                                   ELSE Put(w.named, Op(p).name, u)]
    BY <1>1 DEF Insert
  <2>2. writers' = [writers EXCEPT
                      ![p].pc = "reread",
                      ![p].old = Put(EmptyMap, u, EmptyMap),
                      ![p].named = named]
    BY <1>6, <2>1, Zenon
  <2> QED BY <1>1, <2>2
<1>8. DOMAIN w = {"ops", "k", "pc", "snaps", "named", "old", "changes", "todo"}
  BY <1>3 DEF RightWriter
<1>9. /\ v.ops = w.ops /\ v.k = w.k /\ v.snaps = w.snaps /\ v.pc = "reread"
      /\ v.named = named
  BY <1>7, <1>8
<1>10. tables' = [tables EXCEPT ![t] = Inserted(tables[t], u, OpOf(w).row)]
  BY <1>4 DEF Insert
<1>11. Effect(tables[t], OpOf(w), u) = Inserted(tables[t], u, OpOf(w).row)
  BY <1>2, <1>4, EffectIs
<1>12. t \in Tables /\ op.op \in Operations /\ op.op # "mutate" /\ DOMAIN tables = Tables
  BY <1>2, <1>4 DEF Known, TablesInv
<1>13. /\ tables'[t] = Effect(tables[t], OpOf(w), u)
       /\ \A s \in Tables : s # t => tables'[s] = tables[s]
  BY <1>10, <1>11, <1>12
<1>14. u \notin DOMAIN tables[t]
  BY <1>2, <1>12 DEF Fresh
<1>15. IsPast(w, v)
  BY <1>9 DEF IsPast
<1>16. CanDo(w, tables[t], u)
  BY <1>1, <1>12, <1>14 DEF CanDo
<1>17. Does(w, v, u, tables, tables')
  BY <1>1, <1>5, <1>9, <1>13, <1>15 DEF Does
<1> QED BY <1>1, <1>2, <1>3, <1>7, <1>16, <1>17, ClientOperates

\* Transact: the rows an update, delete or mutate reads first.
LEMMA SelectOldAtomic ==
    ASSUME TablesInv, TablesInv', AtomicInv, NEW p \in DOMAIN writers, SelectOld(p)
    PROVE  AtomicMove
<1>1. PICK w : w = writers[p]
  OBVIOUS
<1>2. w.pc = "op" /\ tables' = tables
  BY <1>1 DEF SelectOld, At
<1>3. RightWriter(w) /\ p \in Clients /\ p \notin PortCalls /\ RightClient(w, tables)
  BY <1>1, <1>2, WhoWrites DEF RightPort
<1>4. PICK old, v : /\ v = [w EXCEPT !.pc = "write", !.old = old]
                    /\ writers' = [writers EXCEPT ![p] = v]
  BY <1>1 DEF SelectOld
<1>5. DOMAIN w = {"ops", "k", "pc", "snaps", "named", "old", "changes", "todo"}
  BY <1>3 DEF RightWriter
<1>6. /\ v.ops = w.ops /\ v.k = w.k /\ v.snaps = w.snaps /\ v.pc = "write"
      /\ v.named = w.named
  BY <1>4, <1>5
<1>7. Reached(w, Done(w), tables) /\ Done(v) = Done(w)
  BY <1>2, <1>3, <1>6 DEF RightClient, HasRun, Reached, Done
<1>8. PICK n : n = Done(w)
  OBVIOUS
<1>9. Reached(v, n, tables)
  BY <1>6, <1>7, <1>8, RanSame
<1>10. HasRun(v, tables)
  BY <1>7, <1>8, <1>9 DEF HasRun, Reached
<1>11. RightClient(v, tables)
  BY <1>2, <1>3, <1>6, <1>10 DEF RightClient
<1> QED BY <1>1, <1>2, <1>3, <1>4, <1>6, <1>11, QuietMoves

\* A writer that has rewritten its rows.
LEMMA RereadIs ==
    ASSUME NEW p \in DOMAIN writers, NEW w, w = writers[p], RightWriter(w), ThenReread(p)
    PROVE  \E v : /\ writers' = [writers EXCEPT ![p] = v] /\ IsPast(w, v)
                  /\ v.ops = w.ops /\ v.snaps = w.snaps /\ v.named = w.named
<1>1. PICK v : /\ v = IF w.old = EmptyMap THEN Advance(w) ELSE [w EXCEPT !.pc = "reread"]
               /\ writers' = [writers EXCEPT ![p] = v]
  BY DEF ThenReread
<1>2. CASE w.old = EmptyMap
  BY <1>1, <1>2, AdvanceIs
<1>3. CASE w.old # EmptyMap
  <2>1. DOMAIN w = {"ops", "k", "pc", "snaps", "named", "old", "changes", "todo"}
    BY DEF RightWriter
  <2>2. /\ v.ops = w.ops /\ v.k = w.k /\ v.snaps = w.snaps /\ v.pc = "reread"
        /\ v.named = w.named
    BY <1>1, <1>3, <2>1
  <2> QED BY <1>1, <2>2 DEF IsPast
<1> QED BY <1>2, <1>3

\* A client rewrites the table of the operation it is at.
LEMMA ClientWrites ==
    ASSUME TablesInv, TablesInv', AtomicInv, NEW p \in DOMAIN writers, p \in Clients,
           NEW w, w = writers[p], w.pc = "write", NEW v,
           writers' = [writers EXCEPT ![p] = v], IsPast(w, v), v.ops = w.ops,
           v.snaps = w.snaps, v.named = w.named, NEW u \in Uuids,
           w.ops[w.k].op # "insert",
           w.ops[w.k].op = "mutate" =>
               \A x \in Matching(tables[TableOf(w)], OpOf(w).where) :
                   ~Fails(tables[TableOf(w)][x], w.ops[w.k].mutations),
           tables' = [tables EXCEPT ![TableOf(w)] =
                         Effect(tables[TableOf(w)], OpOf(w), u)]
    PROVE  AtomicMove
<1>1. RightWriter(w) /\ DOMAIN tables = Tables
  BY DEF TablesInv
<1>2. TableOf(w) \in Tables /\ w.ops[w.k].op \in Operations
  BY <1>1 DEF RightWriter
<1>3. PICK op : op = w.ops[w.k]
  OBVIOUS
<1>4. w.named = Named(w.named, op, u)
  BY <1>3, NotNamed
<1>5. /\ tables'[TableOf(w)] = Effect(tables[TableOf(w)], OpOf(w), u)
      /\ \A t \in Tables : t # TableOf(w) => tables'[t] = tables[t]
  BY <1>1, <1>2
<1>6. CanDo(w, tables[TableOf(w)], u)
  BY <1>2 DEF CanDo
<1>7. Does(w, v, u, tables, tables')
  BY <1>3, <1>4, <1>5 DEF Does
<1> QED BY <1>6, <1>7, ClientOperates

\* Transact: an update by a client.
LEMMA UpdateAtomic ==
    ASSUME TablesInv, TablesInv', AtomicInv, NEW p \in DOMAIN writers, p \in Clients,
           Update(p)
    PROVE  AtomicMove
<1>1. PICK w : w = writers[p]
  OBVIOUS
<1>2. w.pc = "write" /\ ThenReread(p) /\ Op(p).op = "update"
  BY <1>1 DEF Update, At
<1>3. RightWriter(w)
  BY <1>1 DEF TablesInv
<1>4. /\ Op(p) = OpOf(w) /\ Op(p).op = w.ops[w.k].op /\ Op(p).table = TableOf(w)
  BY <1>1, <1>2, OpFacts DEF At
<1>5. PICK u \in Uuids : TRUE
  BY TablesAssumption
<1>6. PICK v : /\ writers' = [writers EXCEPT ![p] = v] /\ IsPast(w, v)
               /\ v.ops = w.ops /\ v.snaps = w.snaps /\ v.named = w.named
  BY <1>1, <1>2, <1>3, RereadIs
<1>7. Effect(tables[TableOf(w)], OpOf(w), u) =
          Updated(tables[TableOf(w)], OpOf(w).where, OpOf(w).row)
  BY <1>2, <1>4, EffectIs
<1>8. tables' = [tables EXCEPT ![TableOf(w)] =
                    Effect(tables[TableOf(w)], OpOf(w), u)]
  BY <1>4, <1>7 DEF Update
<1>9. w.ops[w.k].op # "insert" /\ w.ops[w.k].op # "mutate"
  BY <1>2, <1>4
<1> QED BY <1>1, <1>2, <1>6, <1>8, <1>9, ClientWrites

\* Transact: a mutate that succeeds.
LEMMA MutateAtomic ==
    ASSUME TablesInv, TablesInv', AtomicInv, NEW p \in DOMAIN writers, p \in Clients,
           Mutate(p)
    PROVE  AtomicMove
<1>1. PICK w : w = writers[p]
  OBVIOUS
<1>2. w.pc = "write" /\ ThenReread(p) /\ Op(p).op = "mutate"
  BY <1>1 DEF Mutate, At
<1>3. RightWriter(w)
  BY <1>1 DEF TablesInv
<1>4. /\ Op(p) = OpOf(w) /\ Op(p).op = w.ops[w.k].op /\ Op(p).table = TableOf(w)
      /\ Op(p).mutations = w.ops[w.k].mutations
  BY <1>1, <1>2, OpFacts DEF At
<1>5. PICK u \in Uuids : TRUE
  BY TablesAssumption
<1>6. PICK v : /\ writers' = [writers EXCEPT ![p] = v] /\ IsPast(w, v)
               /\ v.ops = w.ops /\ v.snaps = w.snaps /\ v.named = w.named
  BY <1>1, <1>2, <1>3, RereadIs
<1>7. Effect(tables[TableOf(w)], OpOf(w), u) =
          Mutated(tables[TableOf(w)],
                  Matching(tables[TableOf(w)], OpOf(w).where), OpOf(w).mutations)
  BY <1>2, <1>4, EffectIs
<1>8. tables' = [tables EXCEPT ![TableOf(w)] =
                    Effect(tables[TableOf(w)], OpOf(w), u)]
  BY <1>4, <1>7 DEF Mutate
<1>9. w.ops[w.k].op # "insert"
  BY <1>2, <1>4
<1>10. \A x \in Matching(tables[TableOf(w)], OpOf(w).where) :
           ~Fails(tables[TableOf(w)][x], w.ops[w.k].mutations)
  BY <1>4 DEF Mutate, Rows
<1> QED BY <1>1, <1>2, <1>6, <1>8, <1>9, <1>10, ClientWrites

\* A port call in progress is at its one update.
LEMMA PortAt ==
    ASSUME NEW w, RightWriter(w), RightPort(w), w.pc # "notify"
    PROVE  /\ w.k = 1 /\ Len(w.ops) = 1 /\ RightOps(w.ops)
           /\ w.ops[w.k].op = "update" /\ TableOf(w) = PortTable
           /\ TablesOf(w.ops) = {PortTable} /\ w.snaps = EmptyMap /\ w.named = EmptyMap
           /\ \E u \in Uuids, up \in {0, 1} : w.ops = PortUpdate(u, up)
<1>1. PICK u \in Uuids, up \in {0, 1} : w.ops = PortUpdate(u, up)
  BY DEF RightPort
<1>2. PICK ops : ops = w.ops
  OBVIOUS
<1>3. /\ RightOps(ops) /\ TablesOf(ops) = {PortTable} /\ ops[1].table = PortTable
      /\ ops[1].op = "update"
  BY <1>1, <1>2, PortOps
<1>4. Len(ops) = 1
  <2>1. \E op : PortUpdate(u, up) = <<op>>
    BY Zenon DEF PortUpdate
  <2> QED BY <1>1, <1>2, <2>1
<1>5. w.k \in 1..1
  BY <1>2, <1>3, <1>4 DEF RightWriter, RightOps
<1>6. w.k = 1
  BY <1>5
<1> QED BY <1>1, <1>2, <1>3, <1>4, <1>6 DEF RightPort, TableOf

\* Transact: a delete.
LEMMA DeleteAtomic ==
    ASSUME TablesInv, TablesInv', AtomicInv, NEW p \in DOMAIN writers, p \in Clients,
           Delete(p)
    PROVE  AtomicMove
<1>1. PICK w : w = writers[p]
  OBVIOUS
<1>2. w.pc = "write" /\ Op(p).op = "delete"
  BY <1>1 DEF Delete, At
<1>3. RightWriter(w)
  BY <1>1 DEF TablesInv
<1>4. /\ Op(p) = OpOf(w) /\ Op(p).op = w.ops[w.k].op /\ Op(p).table = TableOf(w)
  BY <1>1, <1>2, OpFacts DEF At
<1>5. PICK u \in Uuids : TRUE
  BY TablesAssumption
<1>6. PICK changes, v : /\ v = Advance([w EXCEPT !.changes = changes])
                        /\ writers' = [writers EXCEPT ![p] = v]
  BY <1>1 DEF Delete
<1>7. DOMAIN w = {"ops", "k", "pc", "snaps", "named", "old", "changes", "todo"}
  BY <1>3 DEF RightWriter
<1>8. v.ops = w.ops /\ v.snaps = w.snaps /\ v.named = w.named /\ IsPast(w, v)
  BY <1>6, <1>7 DEF Advance, IsPast
<1>9. Effect(tables[TableOf(w)], OpOf(w), u) =
          Deleted(tables[TableOf(w)], OpOf(w).where)
  BY <1>2, <1>4, EffectIs
<1>10. tables' = [tables EXCEPT ![TableOf(w)] =
                    Effect(tables[TableOf(w)], OpOf(w), u)]
  BY <1>4, <1>9 DEF Delete
<1>11. w.ops[w.k].op # "insert" /\ w.ops[w.k].op # "mutate"
  BY <1>2, <1>4
<1> QED BY <1>1, <1>2, <1>6, <1>8, <1>10, <1>11, ClientWrites

\* Transact: a mutate that stops half way.
LEMMA MutateFailsAtomic ==
    ASSUME TablesInv, TablesInv', AtomicInv, NEW p \in DOMAIN writers, p \in Clients,
           MutateFails(p)
    PROVE  AtomicMove
<1>1. PICK w : w = writers[p]
  OBVIOUS
<1>2. w.pc = "write"
  BY <1>1 DEF MutateFails, At
<1>3. RightWriter(w) /\ DOMAIN tables = Tables
  BY <1>1 DEF TablesInv
<1>4. Op(p).table = TableOf(w) /\ TableOf(w) \in TablesOf(w.ops)
  BY <1>1, <1>2, OpFacts DEF At
<1>5. PICK v : /\ v = [w EXCEPT !.pc = "rollback"]
               /\ writers' = [writers EXCEPT ![p] = v]
  BY <1>1 DEF MutateFails
<1>6. DOMAIN w = {"ops", "k", "pc", "snaps", "named", "old", "changes", "todo"}
  BY <1>3 DEF RightWriter
<1>7. v.ops = w.ops /\ v.snaps = w.snaps /\ v.pc = "rollback"
  BY <1>5, <1>6
<1>8. PICK rows : tables' = [tables EXCEPT ![TableOf(w)] = rows]
  BY <1>4 DEF MutateFails
<1>9. \A t \in Tables \ TablesOf(v.ops) : tables'[t] = tables[t]
  BY <1>3, <1>4, <1>7, <1>8
<1>10. Goes(v, tables')
  BY <1>7 DEF Goes, HasRun
<1> QED BY <1>1, <1>2, <1>5, <1>7, <1>9, <1>10, ClientMoves

\* The writer after it has read one row again.
LEMMA RereadGoes ==
    ASSUME NEW p \in DOMAIN writers, NEW w, w = writers[p], RightWriter(w), NEW u,
           Reread(p, u)
    PROVE  \E v : /\ writers' = [writers EXCEPT ![p] = v] /\ IsPast(w, v)
                  /\ v.ops = w.ops /\ v.snaps = w.snaps /\ v.named = w.named
<1>1. w.pc = "reread"
  BY DEF Reread, At
<1>2. DOMAIN w = {"ops", "k", "pc", "snaps", "named", "old", "changes", "todo"}
  BY DEF RightWriter
<1>3. PICK changes, x, v : /\ x = [w EXCEPT !.changes = changes, !.old = Drop(@, u)]
                           /\ v = IF x.old = EmptyMap THEN Advance(x) ELSE x
                           /\ writers' = [writers EXCEPT ![p] = v]
  BY DEF Reread
<1>4. /\ DOMAIN x = DOMAIN w /\ x.ops = w.ops /\ x.k = w.k /\ x.snaps = w.snaps
      /\ x.pc = "reread" /\ x.named = w.named
  BY <1>1, <1>2, <1>3
<1>5. CASE x.old = EmptyMap
  <2>1. v = Advance(x)
    BY <1>3, <1>5
  <2>2. /\ v.ops = w.ops /\ v.snaps = w.snaps /\ v.named = w.named /\ v.k = w.k + 1
        /\ v.pc = IF w.k = Len(w.ops) THEN "notify" ELSE "op"
    BY <1>2, <1>4, <2>1 DEF Advance
  <2> QED BY <1>3, <2>2 DEF IsPast
<1>6. CASE x.old # EmptyMap
  BY <1>3, <1>4, <1>6 DEF IsPast
<1> QED BY <1>5, <1>6

\* Transact: a row that was written is read again.
LEMMA RereadAtomic ==
    ASSUME TablesInv, TablesInv', AtomicInv, NEW p \in DOMAIN writers, p \in Clients,
           NEW u, Reread(p, u)
    PROVE  AtomicMove
<1>1. PICK w : w = writers[p]
  OBVIOUS
<1>2. w.pc = "reread" /\ tables' = tables
  BY <1>1 DEF Reread, At
<1>3. RightWriter(w) /\ RightClient(w, tables)
  BY <1>1 DEF TablesInv, AtomicInv
<1>4. PICK v : /\ writers' = [writers EXCEPT ![p] = v] /\ IsPast(w, v)
               /\ v.ops = w.ops /\ v.snaps = w.snaps /\ v.named = w.named
  BY <1>1, <1>3, RereadGoes
<1>5. RightOps(w.ops) /\ w.k \in DOMAIN w.ops
  BY <1>2, <1>3 DEF RightWriter
<1>6. PICK n, tabs : n = w.k /\ tabs = tables
  OBVIOUS
<1>7. Reached(w, n, tabs)
  BY <1>2, <1>3, <1>6 DEF RightClient, HasRun, Done, Reached
<1>8. Reached(v, n, tabs)
  BY <1>4, <1>7, RanSame
<1>9. Goes(v, tabs) /\ v.pc \in {"op", "reread", "notify"}
  BY <1>4, <1>5, <1>6, <1>8, PastGoes
<1>10. \A t \in Tables \ TablesOf(v.ops) : tables'[t] = tables[t]
  BY <1>2
<1> QED BY <1>1, <1>2, <1>4, <1>6, <1>9, <1>10, ClientMoves

\* The update of a port call as a transaction of its own, with a copy of the
\* one table.
PortCopy(w, rows) ==
    [ops |-> w.ops, k |-> 1, snaps |-> [t \in {PortTable} |-> rows],
     named |-> EmptyMap]

\* The update of a port call has run when it has written.
LEMMA PortRan ==
    ASSUME NEW w, RightWriter(w), RightPort(w), w.pc = "write", NEW tabs, NEW more,
           NEW u \in Uuids,
           more[PortTable] = Effect(tabs[PortTable], OpOf(w), u),
           NEW x, x = PortCopy(w, tabs[PortTable])
    PROVE  Reached(x, Len(x.ops), more)
<1>1. /\ w.k = 1 /\ Len(w.ops) = 1 /\ RightOps(w.ops) /\ w.ops[w.k].op = "update"
      /\ TableOf(w) = PortTable /\ w.named = EmptyMap
  BY PortAt
<1>2. /\ x.ops = w.ops /\ x.k = w.k /\ x.named = w.named /\ DOMAIN x.snaps = {PortTable}
      /\ x.snaps[PortTable] = tabs[PortTable]
  BY <1>1 DEF PortCopy
<1>3. OpOf(x) = OpOf(w) /\ TableOf(x) = PortTable /\ x.ops[x.k].op = "update"
  BY <1>1, <1>2 DEF OpOf, TableOf
<1>4. RightOps(x.ops) /\ x.k = 1 /\ x.k \in DOMAIN x.ops /\ Len(x.ops) = 1
  BY <1>1, <1>2 DEF RightOps
<1>5. Reached(x, 0, tabs)
  BY <1>1, <1>2, <1>4, NothingRan
<1>6. x.k - 1 = 0
  BY <1>4
<1>7. PICK ids : Ran(x, ids, x.k - 1, tabs)
  BY <1>5, <1>6 DEF Reached
<1>8. Doable(x, tabs[TableOf(x)], u)
  BY <1>2, <1>3 DEF Doable, Operations, TableOf
<1>9. PICK op : op = x.ops[x.k]
  OBVIOUS
<1>10. Named(x.named, op, u) = x.named
  BY <1>3, <1>9, NotNamed
<1>11. Doing(x, x, u, tabs, more)
  BY <1>2, <1>3, <1>9, <1>10 DEF Doing
<1>12. \E idz : Ran(x, idz, x.k, more)
  BY <1>4, <1>7, <1>8, <1>11, OperationRuns
<1> QED BY <1>4, <1>12 DEF Reached

\* setPortState: the update.
LEMMA PortUpdates ==
    ASSUME TablesInv, TablesInv', AtomicInv, NEW p \in DOMAIN writers, p \in PortCalls,
           Update(p)
    PROVE  AtomicMove
<1>1. PICK w, rows : w = writers[p] /\ rows = tables[PortTable]
  OBVIOUS
<1>2. w.pc = "write" /\ ThenReread(p) /\ Op(p).op = "update"
  BY <1>1 DEF Update, At
<1>3. RightWriter(w) /\ RightPort(w) /\ p \notin Clients
  BY <1>1, WhoWrites
<1>4. /\ w.k = 1 /\ Len(w.ops) = 1 /\ RightOps(w.ops) /\ TableOf(w) = PortTable
      /\ TablesOf(w.ops) = {PortTable} /\ w.snaps = EmptyMap /\ w.named = EmptyMap
      /\ \E u \in Uuids, up \in {0, 1} : w.ops = PortUpdate(u, up)
  BY <1>2, <1>3, PortAt
<1>5. Op(p) = OpOf(w) /\ Op(p).table = PortTable
  BY <1>1, <1>2, <1>4, OpFacts DEF At
<1>6. PICK u \in Uuids : TRUE
  BY TablesAssumption
<1>7. PICK v : /\ writers' = [writers EXCEPT ![p] = v] /\ IsPast(w, v)
               /\ v.ops = w.ops /\ v.snaps = w.snaps /\ v.named = w.named
  BY <1>1, <1>2, <1>3, RereadIs
<1>8. Effect(rows, OpOf(w), u) = Updated(rows, OpOf(w).where, OpOf(w).row)
  BY <1>2, <1>5, EffectIs
<1>9. PortTable \in Tables /\ DOMAIN tables = Tables
  BY OvsdbAssumption DEF TablesInv
<1>10. tables' = [tables EXCEPT ![PortTable] = Effect(rows, OpOf(w), u)]
  BY <1>1, <1>5, <1>8 DEF Update
<1>11. /\ tables'[PortTable] = Effect(rows, OpOf(w), u)
       /\ \A t \in Tables \ {PortTable} : tables'[t] = tables[t]
  BY <1>9, <1>10
<1>12. RightPort(v)
  BY <1>4, <1>7 DEF RightPort, IsPast
<1>13. AtomicInv'
  BY <1>1, <1>3, <1>4, <1>7, <1>11, <1>12, AtomicMoves
<1>14. /\ DOMAIN writers' = DOMAIN writers /\ writers'[p] = v
       /\ \A q \in DOMAIN writers : q # p => writers'[q] = writers[q]
  BY <1>7
<1>15. \A t : ~Holds(w, t) /\ ~Holds(v, t)
  BY <1>4, <1>7 DEF Holds, EmptyMap
<1>16. PICK d, e : /\ d = Committed /\ e = Committed'
                   /\ IsCommitted(d, writers, tables)
                   /\ IsCommitted(e, writers', tables')
  BY CommittedBoth
<1>17. d[PortTable] = rows /\ e[PortTable] = tables'[PortTable]
  <2>1. \A q \in DOMAIN writers : ~Holds(writers[q], PortTable)
    BY <1>1, <1>4, <1>15, OneHolder
  <2>2. \A q \in DOMAIN writers' : ~Holds(writers'[q], PortTable)
    BY <1>14, <1>15, <2>1
  <2> QED BY <1>1, <1>9, <1>16, <2>1, <2>2 DEF IsCommitted
<1>18. \A t \in Tables \ {PortTable} : e[t] = d[t]
  <2> SUFFICES ASSUME NEW t \in Tables \ {PortTable} PROVE e[t] = d[t]
    OBVIOUS
  <2>1. CASE \E q \in DOMAIN writers : Holds(writers[q], t)
    <3>1. PICK q \in DOMAIN writers : Holds(writers[q], t)
      BY <2>1
    <3>2. q \in DOMAIN writers' /\ writers'[q] = writers[q]
      BY <1>1, <1>14, <1>15, <3>1
    <3>3. d[t] = writers[q].snaps[t]
      BY <1>16, <3>1 DEF IsCommitted
    <3>4. e[t] = writers'[q].snaps[t]
      BY <1>16, <3>1, <3>2 DEF IsCommitted
    <3> QED BY <3>2, <3>3, <3>4
  <2>2. CASE \A q \in DOMAIN writers : ~Holds(writers[q], t)
    <3>1. \A q \in DOMAIN writers' : ~Holds(writers'[q], t)
      BY <1>14, <1>15, <2>2
    <3>2. e[t] = tables'[t] /\ d[t] = tables[t]
      BY <1>16, <2>2, <3>1 DEF IsCommitted
    <3> QED BY <1>11, <3>2
  <2> QED BY <2>1, <2>2
<1>19. IsFunction(e) /\ DOMAIN e = DOMAIN d /\ DOMAIN d = Tables
  BY <1>16 DEF IsCommitted
<1>20. PICK x, tabs, more, ops : /\ x = PortCopy(w, tabs[PortTable]) /\ tabs = tables
                                 /\ more = tables' /\ ops = x.ops
  OBVIOUS
<1>21. /\ x.ops = w.ops /\ DOMAIN x.snaps = {PortTable} /\ x.snaps[PortTable] = rows
  BY <1>1, <1>20 DEF PortCopy
<1>22. Reached(x, Len(x.ops), more)
  BY <1>1, <1>2, <1>3, <1>11, <1>20, PortRan
<1>23. PICK ids : Ran(x, ids, Len(x.ops), more)
  BY <1>22 DEF Reached
<1>24. /\ RightOps(x.ops) /\ DOMAIN x.snaps \subseteq DOMAIN d
       /\ \A t \in DOMAIN x.snaps : d[t] = x.snaps[t]
       /\ \A t \in DOMAIN x.snaps : e[t] = more[t]
       /\ \A t \in DOMAIN d \ DOMAIN x.snaps : e[t] = d[t]
  BY <1>4, <1>9, <1>17, <1>18, <1>19, <1>20, <1>21
<1>25. Commits(d, e, x.ops, ids)
  BY <1>19, <1>23, <1>24, CommitsWhole
<1>26. Commits(Committed, Committed', ops, ids) /\ RightOps(ops)
  BY <1>16, <1>20, <1>24, <1>25
<1>27. ids \in [DOMAIN ops -> Uuids]
  BY <1>20, <1>23 DEF Ran
<1>28. \E y \in Uuids, up \in {0, 1} : ops = PortUpdate(y, up)
  BY <1>4, <1>20, <1>21
<1>29. [Atomic!Next]_Committed
  BY <1>26, <1>27, <1>28, CommitIs
<1> QED BY <1>13, <1>29 DEF AtomicMove

\* setPortState: the row is read again.
LEMMA PortRereads ==
    ASSUME TablesInv, TablesInv', AtomicInv, NEW p \in DOMAIN writers, p \in PortCalls,
           NEW u, Reread(p, u)
    PROVE  AtomicMove
<1>1. PICK w : w = writers[p]
  OBVIOUS
<1>2. w.pc = "reread" /\ tables' = tables
  BY <1>1 DEF Reread, At
<1>3. RightWriter(w) /\ RightPort(w) /\ p \notin Clients
  BY <1>1, WhoWrites
<1>4. w.k = 1 /\ Len(w.ops) = 1 /\ w.snaps = EmptyMap
  BY <1>2, <1>3, PortAt
<1>5. PICK v : /\ writers' = [writers EXCEPT ![p] = v] /\ IsPast(w, v)
               /\ v.ops = w.ops /\ v.snaps = w.snaps /\ v.named = w.named
  BY <1>1, <1>3, RereadGoes
<1>6. RightPort(v)
  BY <1>3, <1>4, <1>5 DEF RightPort, IsPast
<1>7. AtomicInv'
  BY <1>1, <1>2, <1>3, <1>5, <1>6, AtomicMoves
<1>8. \A t \in Tables : Steady(w, v, tables[t], tables'[t], t)
  BY <1>2, <1>4, <1>5 DEF Steady, Holds, EmptyMap
<1>9. Committed' = Committed
  BY <1>1, <1>5, <1>8, CommittedStays
<1> QED BY <1>7, <1>9 DEF AtomicMove

\* Transact: an operation has failed, and the copies are written back.
LEMMA RollbackAtomic ==
    ASSUME TablesInv, TablesInv', AtomicInv, NEW p \in DOMAIN writers, Rollback(p)
    PROVE  AtomicMove
<1>1. PICK w : w = writers[p]
  OBVIOUS
<1>2. /\ w.pc \in {"rollback", "op"} /\ writers' = Drop(writers, p)
      /\ \A t \in Tables : tables'[t] = IF t \in DOMAIN w.snaps THEN w.snaps[t]
                                        ELSE tables[t]
  BY <1>1 DEF Rollback, At
<1>3. RightWriter(w)
  BY <1>1 DEF TablesInv
<1>4. DOMAIN w.snaps \subseteq TablesOf(w.ops)
  BY <1>3 DEF RightWriter, SnapsWhole
<1>5. \A t \in Tables \ TablesOf(w.ops) : tables'[t] = tables[t]
  BY <1>2, <1>4
<1>6. AtomicInv'
  BY <1>1, <1>2, <1>5, AtomicEnds
<1>7. \A t \in Tables : tables'[t] = IF Holds(w, t) THEN w.snaps[t] ELSE tables[t]
  BY <1>2 DEF Holds
<1>8. Committed' = Committed
  BY <1>1, <1>2, <1>7, CommittedEnds
<1> QED BY <1>6, <1>8 DEF AtomicMove

\* The reply.
LEMMA ReplyAtomic ==
    ASSUME TablesInv, TablesInv', AtomicInv, NEW p \in DOMAIN writers, Reply(p)
    PROVE  AtomicMove
<1>1. PICK w : w = writers[p]
  OBVIOUS
<1>2. w.pc = "notify" /\ writers' = Drop(writers, p) /\ tables' = tables
  BY <1>1 DEF Reply, At
<1>3. AtomicInv'
  BY <1>2, AtomicEnds
<1>4. \A t \in Tables : tables'[t] = IF Holds(w, t) THEN w.snaps[t] ELSE tables[t]
  BY <1>2 DEF Holds
<1>5. Committed' = Committed
  BY <1>1, <1>2, <1>4, CommittedEnds
<1> QED BY <1>3, <1>5 DEF AtomicMove

\* Announcements.
LEMMA AnnouncingAtomic ==
    ASSUME TablesInv, TablesInv', AtomicInv, NEW p \in DOMAIN writers, NEW w,
           w = writers[p], w.pc = "notify", tables' = tables, NEW v,
           writers' = [writers EXCEPT ![p] = v], v.pc = "notify", v.ops = w.ops,
           v.snaps = w.snaps, v.named = w.named
    PROVE  AtomicMove
<1>1. p \in Clients => RightClient(v, tables)
  <2>1. HasRun(v, tables)
    BY DEF HasRun
  <2>2. p \in Clients => RightClient(w, tables)
    BY DEF AtomicInv
  <2> QED BY <2>1, <2>2 DEF RightClient
<1>2. p \in PortCalls => RightPort(v)
  <2>1. p \in PortCalls => RightPort(w)
    BY DEF AtomicInv
  <2> QED BY <2>1 DEF RightPort
<1> QED BY <1>1, <1>2, QuietMoves

\* What an announcement leaves alone.
LEMMA AnnouncedIs ==
    ASSUME NEW w, RightWriter(w), NEW todo, NEW v,
           v = Announced(w) \/ v = [w EXCEPT !.todo = todo]
    PROVE  v.pc = w.pc /\ v.ops = w.ops /\ v.snaps = w.snaps /\ v.named = w.named
<1>1. DOMAIN w = {"ops", "k", "pc", "snaps", "named", "old", "changes", "todo"}
  BY DEF RightWriter
<1>2. PICK changes : changes = Tail(w.changes)
  OBVIOUS
<1>3. Announced(w) = [w EXCEPT !.changes = changes, !.todo = {}]
  BY <1>2 DEF Announced
<1>4. CASE v = [w EXCEPT !.changes = changes, !.todo = {}]
  BY <1>1, <1>4
<1>5. CASE v = [w EXCEPT !.todo = todo]
  BY <1>1, <1>5
<1> QED BY <1>3, <1>4, <1>5

\* NotifyChange: the first change is taken up.
LEMMA NotifyAtomic ==
    ASSUME TablesInv, TablesInv', AtomicInv, NEW p \in DOMAIN writers, Notify(p)
    PROVE  AtomicMove
<1>1. PICK w : w = writers[p]
  OBVIOUS
<1>2. w.pc = "notify" /\ tables' = tables
  BY <1>1 DEF Notify, At
<1>3. PICK todo, v : /\ v = Announced(w) \/ v = [w EXCEPT !.todo = todo]
                     /\ writers' = [writers EXCEPT ![p] = v]
  BY <1>1 DEF Notify
<1>4. RightWriter(w)
  BY <1>1 DEF TablesInv
<1>5. v.pc = w.pc /\ v.ops = w.ops /\ v.snaps = w.snaps /\ v.named = w.named
  BY <1>3, <1>4, AnnouncedIs
<1> QED BY <1>1, <1>2, <1>3, <1>5, AnnouncingAtomic

\* NotifyChange: one client is told.
LEMMA SendNotificationAtomic ==
    ASSUME TablesInv, TablesInv', AtomicInv, NEW p \in DOMAIN writers, NEW m,
           SendNotification(p, m)
    PROVE  AtomicMove
<1>1. PICK w : w = writers[p]
  OBVIOUS
<1>2. m \in w.todo /\ tables' = tables
  BY <1>1 DEF SendNotification
<1>3. RightWriter(w)
  BY <1>1 DEF TablesInv
<1>4. w.pc = "notify"
  BY <1>2, <1>3 DEF RightWriter
<1>5. PICK todo, v : /\ v = Announced(w) \/ v = [w EXCEPT !.todo = todo]
                     /\ writers' = [writers EXCEPT ![p] = v]
  BY <1>1 DEF SendNotification
<1>6. v.pc = w.pc /\ v.ops = w.ops /\ v.snaps = w.snaps /\ v.named = w.named
  BY <1>3, <1>5, AnnouncedIs
<1> QED BY <1>1, <1>2, <1>4, <1>5, <1>6, AnnouncingAtomic

\* A transaction begins.
LEMMA TransactAtomic ==
    ASSUME TablesInv, TablesInv', AtomicInv, NEW c \in Clients, NEW ops \in Requests,
           Transact(c, ops)
    PROVE  AtomicMove
<1>1. PICK w : w = NewWriter(ops, "snapshot")
  OBVIOUS
<1>2. c \notin DOMAIN writers /\ writers' = Put(writers, c, w) /\ tables' = tables
  BY <1>1 DEF Transact, Idle
<1>3. /\ w.ops = ops /\ w.pc = "snapshot" /\ w.snaps = EmptyMap /\ w.named = EmptyMap
  BY <1>1 DEF NewWriter
<1>4. RightClient(w, tables)
  BY <1>3 DEF RightClient, HasRun, EmptyMap
<1>5. c \notin PortCalls
  BY OvsdbAssumption
<1>6. AtomicInv'
  BY <1>2, <1>4, <1>5, AtomicBegins
<1>7. Committed' = Committed
  BY <1>2, <1>3, CommittedBegins
<1> QED BY <1>6, <1>7 DEF AtomicMove

\* A port call begins.
LEMMA SetPortStateAtomic ==
    ASSUME TablesInv, TablesInv', AtomicInv, NEW c \in PortCalls, NEW u \in Uuids,
           NEW up \in {0, 1}, SetPortState(c, u, up)
    PROVE  AtomicMove
<1>1. PICK ops, old : ops = PortUpdate(u, up) /\ old = Put(EmptyMap, u, tables[PortTable][u])
  OBVIOUS
<1>2. PICK w : w = [NewWriter(ops, "write") EXCEPT !.old = old]
  OBVIOUS
<1>3. c \notin DOMAIN writers /\ writers' = Put(writers, c, w) /\ tables' = tables
  <2>1. NewWriter(ops, "write").old = EmptyMap
    BY DEF NewWriter
  <2> QED BY <1>1, <1>2, <2>1 DEF SetPortState
<1>4. /\ w.ops = ops /\ w.pc = "write" /\ w.snaps = EmptyMap /\ w.named = EmptyMap
      /\ w.k = 1
  BY <1>2 DEF NewWriter
<1>5. RightPort(w)
  BY <1>1, <1>4 DEF RightPort
<1>6. c \notin Clients
  BY OvsdbAssumption
<1>7. AtomicInv'
  BY <1>3, <1>5, <1>6, AtomicBegins
<1>8. Committed' = Committed
  BY <1>3, <1>4, CommittedBegins
<1> QED BY <1>7, <1>8 DEF AtomicMove

\* Monitor requests change no table.
LEMMA StillAtomic ==
    ASSUME AtomicInv, writers' = writers, tables' = tables
    PROVE  AtomicMove
<1>1. Committed' = Committed
  BY CommittedSame
<1>2. AtomicInv'
  BY DEF AtomicInv
<1> QED BY <1>1, <1>2 DEF AtomicMove

\* What writes and is not an update is a client.
LEMMA ClientAt ==
    ASSUME TablesInv, AtomicInv, NEW p \in DOMAIN writers, ~At(p, "notify"),
           Op(p).op # "update"
    PROVE  p \in Clients
<1>1. PICK w : w = writers[p]
  OBVIOUS
<1>2. Op(p).op = w.ops[w.k].op
  BY <1>1, OpFacts
<1>3. w.pc # "notify"
  BY <1>1 DEF At
<1>4. ~RightPort(w)
  BY <1>1, <1>2, <1>3, WhoWrites, PortAt
<1> QED BY <1>1, <1>4, WhoWrites

\* Every step of a transaction or port call is a step of the atomic database.
LEMMA WriterAtomic ==
    ASSUME TablesInv, TablesInv', AtomicInv, NEW p \in DOMAIN writers, WriterStep(p)
    PROVE  AtomicMove
<1>1. CASE Snapshot(p)
  BY <1>1, SnapshotAtomic
<1>2. CASE \E u \in Uuids : Insert(p, u)
  BY <1>2, InsertAtomic
<1>3. CASE Select(p)
  BY <1>3, SelectAtomic
<1>4. CASE SelectOld(p)
  BY <1>4, SelectOldAtomic
<1>5. CASE Update(p)
  BY <1>5, WhoWrites, UpdateAtomic, PortUpdates
<1>6. CASE Mutate(p)
  <2>1. p \in Clients
    BY <1>6, ClientAt DEF Mutate, At
  <2> QED BY <1>6, <2>1, MutateAtomic
<1>7. CASE MutateFails(p)
  <2>1. p \in Clients
    BY <1>7, ClientAt DEF MutateFails, At
  <2> QED BY <1>7, <2>1, MutateFailsAtomic
<1>8. CASE Delete(p)
  <2>1. p \in Clients
    BY <1>8, ClientAt DEF Delete, At
  <2> QED BY <1>8, <2>1, DeleteAtomic
<1>9. CASE \E u \in Uuids : Reread(p, u)
  BY <1>9, WhoWrites, RereadAtomic, PortRereads
<1>10. CASE Rollback(p)
  BY <1>10, RollbackAtomic
<1>11. CASE Notify(p)
  BY <1>11, NotifyAtomic
<1>12. CASE \E m \in DOMAIN monitors : SendNotification(p, m)
  BY <1>12, SendNotificationAtomic
<1>13. CASE Reply(p)
  BY <1>13, ReplyAtomic
<1> QED BY <1>1, <1>2, <1>3, <1>4, <1>5, <1>6, <1>7, <1>8, <1>9, <1>10, <1>11,
           <1>12, <1>13 DEF WriterStep

\* Every step is a step of the atomic database.
LEMMA AtomicStep ==
    ASSUME TablesInv, AtomicInv, [TablesNext]_vars
    PROVE  AtomicMove
<1>0. TablesInv'
  BY TablesStep
<1>1. CASE \E p \in DOMAIN writers : WriterStep(p)
  BY <1>0, <1>1, WriterAtomic
<1>2. CASE \E c \in Clients, ops \in Requests : Transact(c, ops)
  BY <1>0, <1>2, TransactAtomic
<1>3. CASE \E c \in PortCalls, u \in Uuids, up \in {0, 1} : SetPortState(c, u, up)
  BY <1>0, <1>3, SetPortStateAtomic
<1>4. CASE writers' = writers /\ tables' = tables
  BY <1>4, StillAtomic
<1> QED BY <1>1, <1>2, <1>3, <1>4
        DEF TablesNext, Server, MonitorStep, Dump, Disconnect, MonitorCancel, Monitor,
            MonitorRefused, vars

\* An empty server is an empty database.
LEMMA AtomicStart == Init => AtomicInv /\ Atomic!Init
<1> SUFFICES ASSUME Init PROVE AtomicInv /\ Atomic!Init
  OBVIOUS
<1>1. DOMAIN writers = {}
  BY DEF Init, EmptyMap
<1>2. AtomicInv
  BY <1>1 DEF AtomicInv
<1>3. \A t \in Tables : Writers(t) = {}
  BY <1>1 DEF Writers
<1>4. Committed = [t \in Tables |-> tables[t]]
  BY <1>3 DEF Committed
<1>5. Committed = [t \in Tables |-> EmptyMap]
  BY <1>4 DEF Init
<1>6. Atomic!EmptyMap = EmptyMap
  BY DEF Atomic!EmptyMap, EmptyMap
<1> QED BY <1>2, <1>5, <1>6 DEF Atomic!Init

\* Transactions are atomic: the server with its operations interleaved, its
\* copies, half-done mutations and rollbacks implements a database that does
\* all operations of a transaction in one step or none of them (Transact and
\* rollback in transact.go, setPortState in cluster.go).
THEOREM TransactionsAtomic == TablesSpec => AtomicTransactions
<1>1. Init => AtomicInv /\ Atomic!Init
  BY AtomicStart
<1>2. TablesInv /\ AtomicInv /\ [TablesNext]_vars =>
          AtomicInv' /\ [Atomic!Next]_Committed
  BY AtomicStep DEF AtomicMove
<1> QED BY <1>1, <1>2, TablesInvariant, PTL
        DEF TablesSpec, AtomicTransactions, Atomic!Spec
=============================================================================
