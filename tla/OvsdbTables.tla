---------------------------- MODULE OvsdbTables ----------------------------
(***************************************************************************)
(* ovn-sim's OVSDB server under clients that keep out of each other's way: *)
(* transactions and port calls in progress at the same time name different *)
(* tables, and nobody asks for a monitor of a table while a transaction    *)
(* that may fail is at work on it.  The server enforces none of this; this *)
(* module says what it guarantees to clients that do it.                   *)
(***************************************************************************)
EXTENDS OvsdbSim

\* An operation as clients send it.  They leave "_uuid", which is not among
\* the columns of the schema, to the server.
WellFormed(op) ==
    /\ DOMAIN op = {"op", "table", "name", "row", "where", "mutations"}
    /\ op.op = "update" => "_uuid" \notin DOMAIN op.row
    /\ Len(op.mutations) \in Nat
    /\ DOMAIN op.mutations = 1..Len(op.mutations)
    /\ \A i \in DOMAIN op.mutations : op.mutations[i][1] # "_uuid"

ASSUME TablesAssumption ==
    /\ IsFiniteSet(Uuids) /\ Uuids # {}
    /\ \A ops \in Requests : /\ Len(ops) \in Nat /\ DOMAIN ops = 1..Len(ops)
                             /\ \A k \in DOMAIN ops : WellFormed(ops[k])

TablesOf(ops) == {ops[k].table : k \in DOMAIN ops}

Writers(t) == {p \in DOMAIN writers : t \in TablesOf(writers[p].ops)}

\* No transaction or port call in progress names one of the tables.
Free(ts) == \A t \in ts : Writers(t) = {}

\* A transaction that may fail: it mutates, or names an operation or a table
\* there is not.
MayFail(ops) == \E k \in DOMAIN ops : \/ ops[k].op \notin Operations \ {"mutate"}
                                      \/ ops[k].table \notin Tables

\* A monitor request may overlap a transaction on its tables, but not one
\* that may fail: its initial rows would show what is going to be undone.
Calm(request) ==
    \A t \in DOMAIN request : \A p \in Writers(t) : ~MayFail(writers[p].ops)

Unseen(ts) == \A m \in Registering : DOMAIN monitors[m].request \cap ts = {}

TablesNext ==
    \/ Server
    \/ \E c \in Clients, ops \in Requests :
           /\ Free(TablesOf(ops))
           /\ MayFail(ops) => Unseen(TablesOf(ops))
           /\ Transact(c, ops)
    \/ \E c \in PortCalls, u \in Uuids, up \in {0, 1} :
           Free({PortTable}) /\ SetPortState(c, u, up)
    \/ \E c \in Clients, id \in MonitorIds, request \in Watches :
           /\ Calm(request)
           /\ Monitor(c, id, request) \/ MonitorRefused(c, id, request)

TablesSpec == Init /\ [][TablesNext]_vars

-----------------------------------------------------------------------------
(* Properties.                                                             *)

\* Tables are keyed by the UUIDs their rows carry, and so are the changes to
\* be announced and what the clients have made of them.
Keyed(rows) == /\ DOMAIN rows \subseteq Uuids
               /\ \A u \in DOMAIN rows : "_uuid" \in DOMAIN rows[u]
               /\ \A u \in DOMAIN rows : rows[u]["_uuid"] = <<"uuid", u>>

TypeOK ==
    /\ DOMAIN tables = Tables
    /\ \A t \in Tables : Keyed(tables[t])
    /\ DOMAIN writers \subseteq Clients \cup PortCalls
    /\ \A p \in DOMAIN writers :
          /\ writers[p].pc \in Phases
          /\ writers[p].todo \subseteq DOMAIN monitors
          /\ \A t \in DOMAIN writers[p].snaps : Keyed(writers[p].snaps[t])
    /\ DOMAIN monitors \subseteq Clients \X MonitorIds
    /\ \A m \in DOMAIN monitors :
          \A t \in DOMAIN monitors[m].view : Keyed(monitors[m].view[t])

\* The database without the operations of transactions that are not through.
Committed ==
    [t \in Tables |->
        LET open == {p \in Writers(t) : /\ ~At(p, "notify")
                                        /\ t \in DOMAIN writers[p].snaps}
        IN  IF open = {} THEN tables[t]
            ELSE writers[CHOOSE p \in open : TRUE].snaps[t]]

Atomic == INSTANCE AtomicDatabase WITH
    db <- Committed,
    Requests <- Requests \cup {PortUpdate(u, up) : u \in Uuids, up \in {0, 1}}

\* Transactions are atomic: their operations, run one by one between those
\* on other tables, take effect together or, when one fails half way, not
\* at all.
AtomicTransactions == Atomic!Spec

\* Monitors converge: a client that applies the changes it is sent to the
\* initial rows has the rows of the database, whatever changes, monitors and
\* notifications overlapped, once nothing writes to the table.
Converged ==
    \A m \in DOMAIN monitors \ Registering :
        ~monitors[m].refused =>
            \A t \in DOMAIN monitors[m].request :
                Writers(t) = {} =>
                    monitors[m].view[t] =
                        [u \in DOMAIN tables[t] |->
                            FilterColumns(tables[t][u],
                                          monitors[m].request[t])]
=============================================================================
