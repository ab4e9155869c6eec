----------------------------- MODULE OvnClusters -----------------------------
(***************************************************************************)
(* The cluster manager of ovn-sim (ovn-sim/internal/state/cluster.go), the *)
(* listener and the connections of each cluster's OVSDB server             *)
(* (ovsdb/server.go) and the shutdown of the simulator (app.go).           *)
(*                                                                         *)
(* Reset holds Manager.mu while it stops one server after the other and    *)
(* waits for its goroutines.  The goroutine of an accepted connection      *)
(* lists itself in Server.clients under Server.mu only once it runs.       *)
(***************************************************************************)
EXTENDS Integers, FiniteSets, Maps

CONSTANTS
    ClusterIds,   \* ids of clusters
    Ports,        \* ports that requests ask for
    Conns,        \* slots for client connections
    MaxServers    \* bound: servers created

ASSUME OvnAssumption == MaxServers \in Nat

VARIABLES
    clusters,   \* Manager.clusters: id -> number of its server
    servers,    \* every ovsdb.Server created so far
    conns,      \* accepted connections and their goroutines
    manager,    \* the Reset call that holds Manager.mu, if any
    phase       \* of the process: see Shutdown

ovnVars == <<clusters, servers, conns, manager, phase>>

-----------------------------------------------------------------------------
(***************************************************************************)
(* A server: its listener is open, its accept loop runs.  A connection:    *)
(* "accepted" until its goroutine has listed it, then "listed"; closed by  *)
(* the server, left by the client; late if it was listed after StopAll.    *)
(***************************************************************************)
OvsdbServer == [port : Ports, schema : {"nb", "ic"}, open : BOOLEAN,
                accepting : BOOLEAN]

Conn == [server : 1..MaxServers, state : {"accepted", "listed"},
         closed : BOOLEAN, left : BOOLEAN, late : BOOLEAN]

\* A Reset call: the clusters it has still to stop, and the one it waits for.
ManagerCall == [by : {"nobody", "reset", "shutdown"},
                todo : SUBSET ClusterIds, at : SUBSET ClusterIds]

Idle == [by |-> "nobody", todo |-> {}, at |-> {}]

OvnInit ==
    /\ clusters = EmptyMap
    /\ servers = EmptyMap
    /\ conns = EmptyMap
    /\ manager = Idle
    /\ phase = "up"

-----------------------------------------------------------------------------
(* Creating clusters.                                                      *)

PortInUse(port) ==
    \E s \in DOMAIN servers : servers[s].open /\ servers[s].port = port

\* Listen, with the accept loop it starts; it fails when the port is in use.
Listen(id, port, schema) ==
    LET s == Cardinality(DOMAIN servers) + 1
    IN /\ s <= MaxServers
       /\ ~PortInUse(port)
       /\ servers' = Put(servers, s, [port |-> port, schema |-> schema,
                                      open |-> TRUE, accepting |-> TRUE])
       /\ clusters' = Put(clusters, id, s)

CreateCluster(id, port) ==
    /\ phase # "down" /\ manager = Idle
    /\ id \notin DOMAIN clusters
    /\ Listen(id, port, "nb")
    /\ UNCHANGED <<conns, manager, phase>>

CreateICCluster(id, port) ==
    /\ phase # "down" /\ manager = Idle
    /\ id \notin DOMAIN clusters
    /\ Listen(id, port, "ic")
    /\ UNCHANGED <<conns, manager, phase>>

-----------------------------------------------------------------------------
(* Connections.                                                            *)

Accept(c, s) ==
    /\ c \notin DOMAIN conns
    /\ servers[s].open /\ servers[s].accepting
    /\ conns' = Put(conns, c, [server |-> s, state |-> "accepted",
                               closed |-> FALSE, left |-> FALSE,
                               late |-> FALSE])
    /\ UNCHANGED <<clusters, servers, manager, phase>>

\* Accept returns an error once the listener is closed.
AcceptLoopEnds(s) ==
    /\ servers[s].accepting /\ ~servers[s].open
    /\ servers' = [servers EXCEPT ![s].accepting = FALSE]
    /\ UNCHANGED <<clusters, conns, manager, phase>>

\* Mutant: does not look at the context.
ListConnAlways(c) ==
    /\ conns[c].state = "accepted"
    /\ conns' = [conns EXCEPT ![c].state = "listed",
                             ![c].late = ~servers[conns[c].server].open]
    /\ UNCHANGED <<clusters, servers, manager, phase>>

\* The first critical section of handleConn, and the look at the context
\* that follows it: after a cancellation the goroutine returns at once.
ListConn(c) ==
    /\ conns[c].state = "accepted"
    /\ conns' = IF phase = "up"
                THEN [conns EXCEPT ![c].state = "listed",
                                   ![c].late = ~servers[conns[c].server].open]
                ELSE Drop(conns, c)
    /\ UNCHANGED <<clusters, servers, manager, phase>>

ClientLeaves(c) ==
    /\ ~conns[c].left
    /\ conns' = [conns EXCEPT ![c].left = TRUE]
    /\ UNCHANGED <<clusters, servers, manager, phase>>

\* Decode returns an error: the goroutine takes itself off the list and ends.
ConnEnds(c) ==
    /\ conns[c].state = "listed"
    /\ conns[c].closed \/ conns[c].left
    /\ conns' = Drop(conns, c)
    /\ UNCHANGED <<clusters, servers, manager, phase>>

\* After a request the loop looks at the context again.
RequestEnds(c) ==
    /\ conns[c].state = "listed"
    /\ phase # "up"
    /\ conns' = Drop(conns, c)
    /\ UNCHANGED <<clusters, servers, manager, phase>>

-----------------------------------------------------------------------------
(* Reset and Shutdown.                                                     *)

ResetClusters ==
    /\ phase # "down" /\ manager = Idle
    /\ manager' = [by |-> "reset", todo |-> DOMAIN clusters, at |-> {}]
    /\ UNCHANGED <<clusters, servers, conns, phase>>

\* Mutant: closes the listener and leaves the connections alone.
StopListener(id) ==
    /\ id \in manager.todo /\ manager.at = {}
    /\ manager' = [manager EXCEPT !.at = {id}]
    /\ servers' = [servers EXCEPT ![clusters[id]].open = FALSE]
    /\ UNCHANGED <<clusters, conns, phase>>

\* StopAll, under Server.mu.
StopAll(id) ==
    /\ id \in manager.todo /\ manager.at = {}
    /\ manager' = [manager EXCEPT !.at = {id}]
    /\ servers' = [servers EXCEPT ![clusters[id]].open = FALSE]
    /\ conns' = [c \in DOMAIN conns |->
                    IF /\ conns[c].server = clusters[id]
                       /\ conns[c].state = "listed"
                    THEN [conns[c] EXCEPT !.closed = TRUE] ELSE conns[c]]
    /\ UNCHANGED <<clusters, phase>>

\* Mutant: does not wait.
DropCluster(id) ==
    /\ id \in manager.at
    /\ clusters' = Drop(clusters, id)
    /\ manager' = [manager EXCEPT !.todo = @ \ {id}, !.at = {}]
    /\ UNCHANGED <<servers, conns, phase>>

\* Wait returns, and the cluster is deleted.
Waited(id) ==
    /\ id \in manager.at
    /\ ~servers[clusters[id]].accepting
    /\ \A c \in DOMAIN conns : conns[c].server # clusters[id]
    /\ clusters' = Drop(clusters, id)
    /\ manager' = [manager EXCEPT !.todo = @ \ {id}, !.at = {}]
    /\ UNCHANGED <<servers, conns, phase>>

ResetEnds ==
    /\ manager.by # "nobody" /\ manager.todo = {}
    /\ phase' = IF manager.by = "shutdown" THEN "draining" ELSE phase
    /\ manager' = Idle
    /\ UNCHANGED <<clusters, servers, conns>>

\* Shutdown cancels the context, resets the manager, then drains the HTTP
\* server, which serves requests until then.
Cancel ==
    /\ phase = "up"
    /\ phase' = "cancelled"
    /\ UNCHANGED <<clusters, servers, conns, manager>>

ShutdownReset ==
    /\ phase = "cancelled" /\ manager = Idle
    /\ manager' = [by |-> "shutdown", todo |-> DOMAIN clusters, at |-> {}]
    /\ UNCHANGED <<clusters, servers, conns, phase>>

HttpDown ==
    /\ phase = "draining"
    /\ phase' = "down"
    /\ UNCHANGED <<clusters, servers, conns, manager>>

-----------------------------------------------------------------------------
ConnStep(c) == c \in DOMAIN conns /\ (ListConn(c) \/ ConnEnds(c))

ManagerStep ==
    \/ \E id \in ClusterIds : StopAll(id) \/ Waited(id)
    \/ ResetEnds \/ ShutdownReset

OvnNext ==
    \/ \E id \in ClusterIds, port \in Ports :
           CreateCluster(id, port) \/ CreateICCluster(id, port)
    \/ \E c \in Conns : \E s \in DOMAIN servers : Accept(c, s)
    \/ \E c \in DOMAIN conns : ClientLeaves(c) \/ RequestEnds(c)
    \/ \E s \in DOMAIN servers : AcceptLoopEnds(s)
    \/ \E c \in Conns : ConnStep(c)
    \/ ResetClusters \/ Cancel \/ ManagerStep \/ HttpDown

OvnSpec == OvnInit /\ [][OvnNext]_ovnVars

\* Goroutines that can run do; clients need not connect, ask or leave.
OvnFairness ==
    /\ \A c \in Conns : WF_ovnVars(ConnStep(c))
    /\ \A s \in 1..MaxServers :
          WF_ovnVars(s \in DOMAIN servers /\ AcceptLoopEnds(s))
    /\ WF_ovnVars(ManagerStep) /\ WF_ovnVars(HttpDown)

-----------------------------------------------------------------------------
(* Properties.                                                             *)

\* The records are well formed and the clusters have servers of their own.
OvnTypeOK ==
    /\ IsMap(clusters, ClusterIds, DOMAIN servers)
    /\ IsMap(servers, 1..MaxServers, OvsdbServer)
    /\ IsMap(conns, Conns, Conn)
    /\ manager \in ManagerCall
    /\ manager.at \subseteq manager.todo
    /\ manager.todo \subseteq DOMAIN clusters
    /\ phase \in {"up", "cancelled", "draining", "down"}

\* Nothing of a cluster outlives it: a listener, an accept loop or a
\* connection belongs to the server of a cluster the manager still knows, so
\* that a cluster created again under the same id or port meets no leftovers.
NoSurvivors ==
    \A s \in DOMAIN servers :
        (\/ servers[s].open \/ servers[s].accepting
         \/ \E c \in DOMAIN conns : conns[c].server = s)
        => \E id \in DOMAIN clusters : clusters[id] = s

\* The client of a connection that was accepted before StopAll, was listed
\* after it, and has not left.
LateClient == \E c \in DOMAIN conns : conns[c].late /\ ~conns[c].left

\* A reset, which keeps every other management request waiting, ends, unless
\* a late client keeps it: no client whose connection was listed in time, and
\* nothing among the servers themselves, can hold it up.
ResetsEnd == (manager.by = "reset") ~> (manager.by # "reset" \/ LateClient)

\* Once a shutdown has the manager's lock it comes to its end, late clients
\* or not, because their goroutines see the cancelled context.
ShutdownEnds == (manager.by = "shutdown") ~> (phase = "down")
=============================================================================
