------------------------------ MODULE OvsdbSim ------------------------------
(***************************************************************************)
(* One OVSDB server of ovn-sim (ovn-sim/internal/ovsdb and, for the state  *)
(* of ports, internal/state/cluster.go): transactions, monitors and the    *)
(* notifications a change sends to them.                                   *)
(*                                                                         *)
(* Store.mu is held for one call on the store, not for a transaction: a    *)
(* transaction copies the tables it names, runs its operations, each in    *)
(* one to three critical sections, and writes the copies back when one     *)
(* fails.  Then, without the lock, it announces its changes one by one     *)
(* under the read lock of the monitor manager.                             *)
(***************************************************************************)
EXTENDS OvsdbRows, SequencesExt

CONSTANTS
    Tables,     \* the tables of the schema
    PortTable,  \* Logical_Switch_Port
    Uuids,      \* row ids
    Clients,    \* connections: each handles one request at a time
    PortCalls,  \* management calls that set the state of a port
    MonitorIds, \* monitor ids a client uses
    Requests,   \* the transactions clients send, as sequences of operations
    Watches     \* the monitor requests clients send: table -> columns

ASSUME OvsdbAssumption ==
    /\ PortTable \in Tables
    /\ Clients \cap PortCalls = {}
    /\ \A ops \in Requests : Len(ops) > 0

VARIABLES
    tables,     \* Store.tables: table -> rows
    writers,    \* transactions and port calls in progress
    monitors    \* MonitorManager.monitors, by client and monitor id

vars == <<tables, writers, monitors>>

-----------------------------------------------------------------------------
(***************************************************************************)
(* A writer is at its k-th operation.  snaps: the copies of the tables.    *)
(* named: UUIDs of the rows it has inserted under a name.  old: the rows   *)
(* it has read for the operation.  changes: what it will announce.  todo:  *)
(* the monitors it has still to tell of the first change; it holds the     *)
(* read lock of the monitor manager while there are any.                   *)
(***************************************************************************)
Phases == {"snapshot", "op", "write", "reread", "rollback", "notify"}

NewWriter(ops, pc) ==
    [ops |-> ops, k |-> 1, pc |-> pc, snaps |-> EmptyMap, named |-> EmptyMap,
     old |-> EmptyMap, changes |-> <<>>, todo |-> {}]

Change(t, u, row, gone) == [table |-> t, uuid |-> u, row |-> row,
                            gone |-> gone]

\* The operation a writer is at, with its names resolved.
Op(p) == Resolve(writers[p].ops[writers[p].k], writers[p].named)

Rows(p) == tables[Op(p).table]

Known(p) == Op(p).op \in Operations /\ Op(p).table \in Tables

At(p, pc) == writers[p].pc = pc

\* A writer that has finished an operation: at the next, or at the end.
Advance(w) ==
    [w EXCEPT !.k = @ + 1, !.old = EmptyMap,
              !.pc = IF w.k = Len(w.ops) THEN "notify" ELSE "op"]

\* GetRow, with an empty row for none.
GetRow(t, u) == IF u \in DOMAIN tables[t] THEN tables[t][u] ELSE EmptyMap

\* uuid.New: an id that no row, copy, announcement or view goes by.
Fresh(u) ==
    /\ \A t \in Tables : u \notin DOMAIN tables[t]
    /\ \A p \in DOMAIN writers :
          /\ \A t \in DOMAIN writers[p].snaps :
                u \notin DOMAIN writers[p].snaps[t]
          /\ u \notin DOMAIN writers[p].old
          /\ \A i \in DOMAIN writers[p].changes :
                writers[p].changes[i].uuid # u
    /\ \A m \in DOMAIN monitors : \A t \in DOMAIN monitors[m].view :
          u \notin DOMAIN monitors[m].view[t]

\* A client handles one request at a time; Register holds its lock while it
\* has tables left to read.
Registering == {m \in DOMAIN monitors : monitors[m].left # {}}

Idle(c) == c \notin DOMAIN writers /\ \A m \in Registering : m[1] # c

\* The write lock of the monitor manager is free, and so is the read lock.
Unlocked == Registering = {} /\ \A p \in DOMAIN writers : writers[p].todo = {}

Init ==
    /\ tables = [t \in Tables |-> EmptyMap]
    /\ writers = EmptyMap
    /\ monitors = EmptyMap

-----------------------------------------------------------------------------
(* Transact: the copies of the tables.                                     *)

Transact(c, ops) ==
    /\ Idle(c)
    /\ writers' = Put(writers, c, NewWriter(ops, "snapshot"))
    /\ UNCHANGED <<tables, monitors>>

\* One AllRows per table; an unknown table is skipped.
Snapshot(p) ==
    LET w == writers[p]
        t == w.ops[w.k].table
    IN  /\ At(p, "snapshot")
        /\ writers' = [writers EXCEPT ![p] =
               [w EXCEPT !.snaps = IF t \in Tables \ DOMAIN w.snaps
                                   THEN Put(@, t, tables[t]) ELSE @,
                         !.k = IF w.k = Len(w.ops) THEN 1 ELSE @ + 1,
                         !.pc = IF w.k = Len(w.ops) THEN "op" ELSE @]]
        /\ UNCHANGED <<tables, monitors>>

-----------------------------------------------------------------------------
(* The operations of a transaction, one action per critical section.       *)

Insert(p, u) ==
    /\ At(p, "op") /\ Known(p) /\ Op(p).op = "insert"
    /\ Fresh(u)
    /\ tables' = [tables EXCEPT ![Op(p).table] = Inserted(@, u, Op(p).row)]
    /\ writers' = [writers EXCEPT
                      ![p].pc = "reread",
                      ![p].old = Put(EmptyMap, u, EmptyMap),
                      ![p].named = IF Op(p).name = "" THEN @
                                   ELSE Put(@, Op(p).name, u)]
    /\ UNCHANGED monitors

Select(p) ==
    /\ At(p, "op") /\ Known(p) /\ Op(p).op = "select"
    /\ writers' = [writers EXCEPT ![p] = Advance(@)]
    /\ UNCHANGED <<tables, monitors>>

\* The rows an update, delete or mutate reads before it writes.
SelectOld(p) ==
    /\ At(p, "op") /\ Known(p) /\ Op(p).op \in {"update", "delete", "mutate"}
    /\ writers' = [writers EXCEPT
                      ![p].pc = "write",
                      ![p].old = Restrict(Rows(p),
                                          Matching(Rows(p), Op(p).where))]
    /\ UNCHANGED <<tables, monitors>>

\* What an update or mutate does after it has written.
ThenReread(p) ==
    writers' = [writers EXCEPT
                   ![p] = IF @.old = EmptyMap THEN Advance(@)
                          ELSE [@ EXCEPT !.pc = "reread"]]

Update(p) ==
    /\ At(p, "write") /\ Op(p).op = "update"
    /\ tables' = [tables EXCEPT
                     ![Op(p).table] = Updated(@, Op(p).where, Op(p).row)]
    /\ ThenReread(p)
    /\ UNCHANGED monitors

Mutate(p) ==
    /\ At(p, "write") /\ Op(p).op = "mutate"
    /\ \A u \in Matching(Rows(p), Op(p).where) :
          ~Fails(Rows(p)[u], Op(p).mutations)
    /\ tables' = [tables EXCEPT
                     ![Op(p).table] = Mutated(@, Matching(@, Op(p).where),
                                              Op(p).mutations)]
    /\ ThenReread(p)
    /\ UNCHANGED monitors

MutateFails(p) ==
    /\ At(p, "write") /\ Op(p).op = "mutate"
    /\ \E rows \in HalfMutated(Rows(p), Op(p).where, Op(p).mutations) :
          tables' = [tables EXCEPT ![Op(p).table] = rows]
    /\ writers' = [writers EXCEPT ![p].pc = "rollback"]
    /\ UNCHANGED monitors

\* Go lists the rows it has read, and will announce, in any order.
Delete(p) ==
    LET w == writers[p]
        Gone(u) == Change(Op(p).table, u, w.old[u], TRUE)
    IN  /\ At(p, "write") /\ Op(p).op = "delete"
        /\ tables' = [tables EXCEPT
                         ![Op(p).table] = Deleted(@, Op(p).where)]
        /\ \E us \in SetToSeqs(DOMAIN w.old) :
               writers' = [writers EXCEPT ![p] = Advance(
                   [w EXCEPT !.changes =
                       @ \o [i \in DOMAIN us |-> Gone(us[i])]])]
        /\ UNCHANGED monitors

\* GetRow of a row that was inserted, updated or mutated.
Reread(p, u) ==
    LET w == writers[p]
        v == [w EXCEPT !.changes = Append(@, Change(Op(p).table, u,
                                             GetRow(Op(p).table, u), FALSE)),
                       !.old = Drop(@, u)]
    IN  /\ At(p, "reread") /\ u \in DOMAIN w.old
        /\ writers' = [writers EXCEPT
                          ![p] = IF v.old = EmptyMap THEN Advance(v) ELSE v]
        /\ UNCHANGED <<tables, monitors>>

\* Mutant: writes back the table of the failed operation only.
RollbackOne(p) ==
    /\ At(p, "rollback") \/ (At(p, "op") /\ ~Known(p))
    /\ tables' = [t \in Tables |->
                     IF t \in DOMAIN writers[p].snaps \cap {Op(p).table}
                     THEN writers[p].snaps[t] ELSE tables[t]]
    /\ writers' = Drop(writers, p)
    /\ UNCHANGED monitors

\* An operation has failed: write the copies back and answer with the error.
Rollback(p) ==
    /\ At(p, "rollback") \/ (At(p, "op") /\ ~Known(p))
    /\ tables' = [t \in Tables |-> IF t \in DOMAIN writers[p].snaps
                                   THEN writers[p].snaps[t] ELSE tables[t]]
    /\ writers' = Drop(writers, p)
    /\ UNCHANGED monitors

-----------------------------------------------------------------------------
(* The announcements, and the reply after them.                            *)

Told(ch) == {m \in DOMAIN monitors : ch.table \in DOMAIN monitors[m].request}

\* Mutant: forgets the changes after the first.
AnnouncedOne(w) == [w EXCEPT !.changes = <<>>, !.todo = {}]

\* The writer has told everybody of its first change.
Announced(w) == [w EXCEPT !.changes = Tail(@), !.todo = {}]

Notify(p) ==
    LET w == writers[p]
        told == Told(Head(w.changes))
    IN  /\ At(p, "notify") /\ w.changes # <<>> /\ w.todo = {}
        /\ Registering = {}
        /\ writers' = [writers EXCEPT
                          ![p] = IF told = {} THEN Announced(w)
                                 ELSE [w EXCEPT !.todo = told]]
        /\ UNCHANGED <<tables, monitors>>

\* What a client does to its view of a table on a change.
Applied(view, ch, columns) ==
    IF ch.gone THEN Drop(view, ch.uuid)
    ELSE Put(view, ch.uuid, FilterColumns(ch.row, columns))

SendNotification(p, m) ==
    LET w == writers[p]
        ch == Head(w.changes)
    IN  /\ m \in w.todo
        /\ monitors' = [monitors EXCEPT
               ![m].view[ch.table] = Applied(@, ch,
                                          monitors[m].request[ch.table])]
        /\ writers' = [writers EXCEPT
                          ![p] = IF @.todo = {m} THEN Announced(@)
                                 ELSE [@ EXCEPT !.todo = w.todo \ {m}]]
        /\ UNCHANGED tables

Reply(p) ==
    /\ At(p, "notify") /\ writers[p].changes = <<>>
    /\ writers' = Drop(writers, p)
    /\ UNCHANGED <<tables, monitors>>

-----------------------------------------------------------------------------
(* setPortState: reads the row, updates it, reads it again and announces   *)
(* the change, like a transaction of one update without copies.            *)

PortUpdate(u, up) ==
    <<[op |-> "update", table |-> PortTable, name |-> "",
       row |-> Put(EmptyMap, "up", <<"num", up>>),
       where |-> {<<"_uuid", "==", <<"uuid", u>>>>}, mutations |-> <<>>]>>

SetPortState(c, u, up) ==
    /\ c \notin DOMAIN writers
    /\ u \in DOMAIN tables[PortTable]
    /\ writers' = Put(writers, c,
                      [NewWriter(PortUpdate(u, up), "write") EXCEPT
                          !.old = Put(@, u, tables[PortTable][u])])
    /\ UNCHANGED <<tables, monitors>>

-----------------------------------------------------------------------------
(***************************************************************************)
(* Monitors.  view is what the client has made of the initial rows and the *)
(* changes sent to it; a change that overtakes the reply with the initial  *)
(* rows is applied after them.                                             *)
(***************************************************************************)
Monitor(c, id, request) ==
    /\ Idle(c) /\ Unlocked
    /\ DOMAIN request \subseteq Tables
    /\ monitors' = Put(monitors, <<c, id>>,
                       [request |-> request, left |-> DOMAIN request,
                        view |-> [t \in DOMAIN request |-> EmptyMap],
                        refused |-> FALSE])
    /\ UNCHANGED <<tables, writers>>

\* A request that names an unknown table is answered with an error, but the
\* monitor stays registered.
MonitorRefused(c, id, request) ==
    /\ Idle(c) /\ Unlocked
    /\ ~(DOMAIN request \subseteq Tables)
    /\ monitors' = Put(monitors, <<c, id>>,
                       [request |-> request, left |-> {},
                        view |-> [t \in DOMAIN request |-> EmptyMap],
                        refused |-> TRUE])
    /\ UNCHANGED <<tables, writers>>

\* AllRows of one table of the request.
Dump(m, t) ==
    /\ t \in monitors[m].left
    /\ monitors' = [monitors EXCEPT
                       ![m].left = @ \ {t},
                       ![m].view[t] = [u \in DOMAIN tables[t] |->
                           FilterColumns(tables[t][u],
                                         monitors[m].request[t])]]
    /\ UNCHANGED <<tables, writers>>

MonitorCancel(c, id) ==
    /\ Idle(c) /\ Unlocked
    /\ <<c, id>> \in DOMAIN monitors
    /\ monitors' = Drop(monitors, <<c, id>>)
    /\ UNCHANGED <<tables, writers>>

\* The connection is closed between two requests: RemoveClient.
Disconnect(c) ==
    /\ Idle(c) /\ Unlocked
    /\ monitors' = Restrict(monitors, {m \in DOMAIN monitors : m[1] # c})
    /\ UNCHANGED <<tables, writers>>

-----------------------------------------------------------------------------
WriterStep(p) ==
    \/ Snapshot(p)
    \/ \E u \in Uuids : Insert(p, u)
    \/ Select(p)
    \/ SelectOld(p)
    \/ Update(p)
    \/ Mutate(p)
    \/ MutateFails(p)
    \/ Delete(p)
    \/ \E u \in Uuids : Reread(p, u)
    \/ Rollback(p)
    \/ Notify(p)
    \/ \E m \in DOMAIN monitors : SendNotification(p, m)
    \/ Reply(p)

MonitorStep ==
    \/ \E m \in DOMAIN monitors : \E t \in Tables : Dump(m, t)
    \/ \E c \in Clients : Disconnect(c)
    \/ \E c \in Clients, id \in MonitorIds : MonitorCancel(c, id)

Server == (\E p \in DOMAIN writers : WriterStep(p)) \/ MonitorStep

Next ==
    \/ Server
    \/ \E c \in Clients, ops \in Requests : Transact(c, ops)
    \/ \E c \in PortCalls, u \in Uuids, up \in {0, 1} : SetPortState(c, u, up)
    \/ \E c \in Clients, id \in MonitorIds, request \in Watches :
           Monitor(c, id, request) \/ MonitorRefused(c, id, request)

Spec == Init /\ [][Next]_vars
=============================================================================
