---------------------------- MODULE LibvirtEvents ----------------------------
(***************************************************************************)
(* The event bus of libvirt-sim (rpc/events.go), the connections           *)
(* (rpc/server.go) and the RPC handlers that announce what they change     *)
(* (rpc/handlers.go, rpc/handlers_migration.go), over the domains of       *)
(* LibvirtSim.                                                             *)
(*                                                                         *)
(* The goroutine of a connection serves one call after the other.  A call  *)
(* changes the domain under the lock of the host and afterwards writes its *)
(* events, one by one, to the connections of all subscribers of the host,  *)
(* each event under the read lock of the bus.  Of an event the model keeps *)
(* its type; the hosts are registered when the first client connects, and  *)
(* stay.                                                                   *)
(***************************************************************************)
EXTENDS LibvirtSim, Sequences

CONSTANTS
    Conns,        \* slots for connections
    EventIDs,     \* event ids clients register for, "lifecycle" among them
    MaxCallbacks  \* bound: callbacks registered over one connection

\* There is a port for every host.
ASSUME EventsAssumption ==
    MaxCallbacks \in Nat /\ Injection(Hosts, Ports) # {}

VARIABLES
    conns,   \* EventBus.clients: the connections and their callbacks
    calls    \* the call that each connection's goroutine is serving

evars == <<vars, conns, calls>>

-----------------------------------------------------------------------------
(***************************************************************************)
(* callbacks: callbackID -> event id.  left: the client has closed the     *)
(* connection.  Clients read what is written to them.                      *)
(***************************************************************************)
NewConn(h) == [host |-> h, callbacks |-> EmptyMap, nextCBID |-> 1,
               left |-> FALSE]

GetCallbacksForEvent(k) ==
    {<<k, cb>> : cb \in {b \in DOMAIN conns[k].callbacks :
                            conns[k].callbacks[b] = "lifecycle"}}

ClientsOf(h) == {k \in DOMAIN conns : conns[k].host = h}

(***************************************************************************)
(* A call that has changed the domain at place.  events: to be announced,  *)
(* sending: the read lock is held for the first of them, clients: those it *)
(* has not come to yet, cbs: callbacks to write to before the next client. *)
(* For the properties, audience: the callbacks registered ever since the   *)
(* change, as long as no other call on this domain overlaps with it; told: *)
(* the last event about the domain that was written to each of them since. *)
(***************************************************************************)
NewCall(p, events, pc) ==
    [place |-> p, pc |-> pc, events |-> events, sending |-> FALSE,
     clients |-> {}, cbs |-> {},
     audience |-> IF \E k \in DOMAIN calls : calls[k].place = p THEN {}
                  ELSE UNION {GetCallbacksForEvent(k) : k \in ClientsOf(p[1])},
     told |-> EmptyMap]

\* The calls on the domain at p once another one changes it.
Overlapped(p) ==
    [j \in DOMAIN calls |->
        IF calls[j].place = p
        THEN [calls[j] EXCEPT !.audience = {}, !.told = EmptyMap]
        ELSE calls[j]]

EventsInit ==
    /\ \E at \in {CHOOSE f \in Injection(Hosts, Ports) : TRUE},
         profile \in Profiles :
          /\ hosts = [h \in Hosts |->
                        [port |-> at[h], cpus |-> profile.cpus,
                         memoryMB |-> profile.memoryMB, cpuRatio |-> 100,
                         memRatio |-> 100, state |-> "online"]]
          /\ ports = AntiFunction(at)
          /\ listeners = at
    /\ creating = EmptyMap /\ resetting = {}
    /\ domains = EmptyMap /\ nextDomainID = 1 /\ preparing = EmptyMap
    /\ conns = EmptyMap
    /\ calls = EmptyMap

-----------------------------------------------------------------------------
(* Connections and subscriptions.                                          *)

\* The write lock of the bus is to be had.
BusFree == \A k \in DOMAIN calls : ~calls[k].sending

RegisterClient(k, h) ==
    /\ k \notin DOMAIN conns
    /\ h \in DOMAIN listeners
    /\ BusFree
    /\ conns' = Put(conns, k, NewConn(h))
    /\ UNCHANGED <<vars, calls>>

\* The callbacks of connection k leave every audience.
Unheard(k) ==
    [j \in DOMAIN calls |->
        LET rest == {cb \in calls[j].audience : cb[1] # k}
        IN [calls[j] EXCEPT !.audience = rest,
                            !.told = Restrict(@, rest \cap DOMAIN @)]]

\* Mutant: does not wait for the emissions to end.
UnregisterAtOnce(k) ==
    /\ k \in DOMAIN conns \ DOMAIN calls
    /\ conns[k].left
    /\ conns' = Drop(conns, k)
    /\ calls' = Unheard(k)
    /\ UNCHANGED vars

\* Reading the next message fails, and handleConnection returns.
UnregisterClient(k) ==
    /\ k \in DOMAIN conns \ DOMAIN calls
    /\ conns[k].left
    /\ BusFree
    /\ conns' = Drop(conns, k)
    /\ calls' = Unheard(k)
    /\ UNCHANGED vars

ClientLeaves(k) ==
    /\ ~conns[k].left
    /\ conns' = [conns EXCEPT ![k].left = TRUE]
    /\ UNCHANGED <<vars, calls>>

\* The goroutine of the connection reads the client's next message.
Serves(k) == k \in DOMAIN conns \ DOMAIN calls /\ ~conns[k].left

Register(k, event) ==
    /\ Serves(k)
    /\ conns[k].nextCBID <= MaxCallbacks
    /\ conns' = [conns EXCEPT
                    ![k].callbacks = Put(@, conns[k].nextCBID, event),
                    ![k].nextCBID = @ + 1]
    /\ UNCHANGED <<vars, calls>>

\* Removes every callback of the event, whatever number the client was given.
DeregisterByEventID(k, event) ==
    /\ Serves(k)
    /\ event \in Range(conns[k].callbacks)
    /\ conns' = [conns EXCEPT ![k].callbacks =
                    Restrict(@, {b \in DOMAIN @ : @[b] # event})]
    /\ calls' = IF event = "lifecycle" THEN Unheard(k) ELSE calls
    /\ UNCHANGED vars

-----------------------------------------------------------------------------
(* The change that a call makes.  A call that the store refuses is         *)
(* answered with an error and changes and announces nothing.               *)

Changes(k, p, events, pc) ==
    calls' = Put(Overlapped(p), k, NewCall(p, events, pc))

\* Mutant: the events of a start in the other order.
StartOrFinishResumedFirst(k, p) ==
    /\ StartDomain(p) \/ MigrateFinish(p)
    /\ Changes(k, p, <<"resumed", "started">>, "emit")

StartOrFinish(k, p) ==
    /\ StartDomain(p) \/ MigrateFinish(p)
    /\ Changes(k, p, <<"started", "resumed">>, "emit")

Define(k, p) ==
    /\ \E f \in Flavors : DefineDomain(p[1], p[2], f)
    /\ Changes(k, p, <<"defined">>, "emit")

Stop(k, p) ==
    /\ DestroyDomain(p) \/ ShutdownDomain(p) \/ MigrateConfirm(p)
    /\ Changes(k, p, <<"stopped">>, "emit")

Suspend(k, p) ==
    /\ SuspendDomain(p)
    /\ Changes(k, p, <<"suspended">>, "emit")

Resume(k, p) ==
    /\ ResumeDomain(p)
    /\ Changes(k, p, <<"resumed">>, "emit")

Undefine(k, p) ==
    /\ UndefineDomain(p)
    /\ Changes(k, p, <<"undefined">>, "emit")

\* The source is marked, then looked up for the length of the transfer; the
\* event follows the transfer.  A source that is gone by then has no event.
Perform(k, p) ==
    /\ MigratePerform(p)
    /\ Changes(k, p, <<>>, "lookup")

PerformLookup(k) ==
    /\ calls[k].pc = "lookup"
    /\ calls' = [calls EXCEPT
                    ![k].pc = "emit",
                    ![k].events = IF calls[k].place \in DOMAIN domains
                                  THEN <<"suspended">> ELSE <<>>]
    /\ UNCHANGED <<vars, conns>>

\* Prepare announces nothing; it comes over connections of its own.
Prepare ==
    /\ \/ \E c \in RpcCalls, h \in Hosts, p \in DOMAIN domains :
              PrepareLookup(c, h, p)
       \/ \E c \in DOMAIN preparing : PrepareRefused(c)
    /\ UNCHANGED <<conns, calls>>

Prepared(c) ==
    LET p == <<preparing[c].host, preparing[c].uuid>>
    IN /\ MigratePrepare(c)
       /\ calls' = Overlapped(p)
       /\ UNCHANGED conns

-----------------------------------------------------------------------------
(* EmitDomainLifecycleEvent, and the reply.                                *)

BeginEmit(k) ==
    /\ calls[k].pc = "emit" /\ calls[k].events # <<>> /\ ~calls[k].sending
    /\ calls' = [calls EXCEPT ![k].sending = TRUE,
                              ![k].clients = ClientsOf(calls[k].place[1])]
    /\ UNCHANGED <<vars, conns>>

Visit(k, j) ==
    /\ calls[k].cbs = {} /\ j \in calls[k].clients
    /\ calls' = [calls EXCEPT ![k].clients = @ \ {j},
                              ![k].cbs = GetCallbacksForEvent(j)]
    /\ UNCHANGED <<vars, conns>>

\* What the calls on the domain at p know after an event for cb.
Told(p, cb, event) ==
    [j \in DOMAIN calls |->
        IF calls[j].place = p /\ cb \in calls[j].audience
        THEN [calls[j] EXCEPT !.told = Put(@, cb, event)] ELSE calls[j]]

\* Errors are ignored: a client that has left hears nothing.
Write(k, cb) ==
    /\ cb \in calls[k].cbs
    /\ calls' = [IF conns[cb[1]].left THEN calls
                 ELSE Told(calls[k].place, cb, Head(calls[k].events))
                     EXCEPT ![k].cbs = @ \ {cb}]
    /\ UNCHANGED <<vars, conns>>

EndEmit(k) ==
    /\ calls[k].sending /\ calls[k].clients = {} /\ calls[k].cbs = {}
    /\ calls' = [calls EXCEPT ![k].sending = FALSE, ![k].events = Tail(@)]
    /\ UNCHANGED <<vars, conns>>

Announced(k) == calls[k].pc = "emit" /\ calls[k].events = <<>>

Reply(k) ==
    /\ Announced(k)
    /\ calls' = Drop(calls, k)
    /\ UNCHANGED <<vars, conns>>

-----------------------------------------------------------------------------
Call(k) ==
    \E u \in Uuids :
        LET p == <<conns[k].host, u>>
        IN \/ Define(k, p)
           \/ /\ p \in DOMAIN domains
              /\ \/ StartOrFinish(k, p) \/ Stop(k, p) \/ Suspend(k, p)
                 \/ Resume(k, p) \/ Undefine(k, p) \/ Perform(k, p)

CallStep(k) ==
    /\ k \in DOMAIN calls
    /\ \/ PerformLookup(k) \/ BeginEmit(k) \/ EndEmit(k) \/ Reply(k)
       \/ \E j \in Conns : Visit(k, j)
       \/ \E cb \in Conns \X (1..MaxCallbacks) : Write(k, cb)

EventsNext ==
    \/ \E k \in Conns, h \in Hosts : RegisterClient(k, h)
    \/ \E k \in DOMAIN conns : ClientLeaves(k)
    \/ \E k \in Conns : UnregisterClient(k)
    \/ \E k \in DOMAIN conns, e \in EventIDs :
           Register(k, e) \/ DeregisterByEventID(k, e)
    \/ \E k \in DOMAIN conns : Serves(k) /\ Call(k) /\ UNCHANGED conns
    \/ Prepare
    \/ \E c \in DOMAIN preparing : Prepared(c)
    \/ \E k \in Conns : CallStep(k)

EventsSpec == EventsInit /\ [][EventsNext]_evars

-----------------------------------------------------------------------------
(* Properties.                                                             *)

\* The event says of the domain at p what the store says.  The source of a
\* migration is announced as suspended although the store lets it run, and
\* as stopped when the store removes it.
Agrees(event, p) ==
    IF p \notin DOMAIN domains THEN event \in {"undefined", "stopped"}
    ELSE CASE domains[p].state = "shutoff" -> event \in {"defined", "stopped"}
           [] domains[p].state = "paused"  -> event = "suspended"
           [] domains[p].state = "running" ->
                 \/ event = "resumed"
                 \/ event = "suspended" /\ domains[p].migration = "performing"

\* When a call that no other call on the same domain overlaps has announced
\* its change, the last event of every callback that was registered
\* throughout agrees with the domain, unless its client has left: whoever
\* connects, registers or leaves meanwhile, and whatever happens to the
\* other domains.
EventsAgree ==
    \A k \in DOMAIN calls :
        Announced(k) =>
            \A cb \in calls[k].audience :
                \/ conns[cb[1]].left
                \/ /\ cb \in DOMAIN calls[k].told
                   /\ Agrees(calls[k].told[cb], calls[k].place)

\* While an event is sent, every connection that it will still be written
\* to is on the bus and belongs to the host of the domain, although clients
\* leave and others take their place: nobody hears of the domains of a host
\* that it is not connected to.
EmissionsAimed ==
    \A k \in DOMAIN calls :
        calls[k].clients \cup {cb[1] : cb \in calls[k].cbs}
            \subseteq ClientsOf(calls[k].place[1])
=============================================================================
