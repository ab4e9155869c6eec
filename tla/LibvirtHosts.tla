---------------------------- MODULE LibvirtHosts ----------------------------
(***************************************************************************)
(* The host registry of libvirt-sim: Store.hosts and Store.ports           *)
(* (libvirt-sim/internal/state/store.go), the TCP listener of every host   *)
(* (rpc/server.go) and the management calls that keep the two in step      *)
(* (handler/management.go).                                                *)
(*                                                                         *)
(* Each Store method holds Store.mu and each Server method holds Server.mu,*)
(* so each is one step; a management call that makes several of them is    *)
(* several steps, and other calls run in between.                          *)
(***************************************************************************)
EXTENDS Integers, FiniteSets, Maps

CONSTANTS
    Hosts,        \* host_id values
    Ports,        \* libvirt_port values
    HttpCalls,    \* slots for management calls in progress at the same time
    Profiles,     \* [cpus, memoryMB] of the hosts a client registers
    Ratios,       \* overcommit ratios a client sends, in percent
    StateInputs   \* the states a client asks for, valid or not

ASSUME HostsAssumption ==
    /\ Profiles \subseteq [cpus : Nat, memoryMB : Nat]
    /\ Ratios \subseteq Nat

VARIABLES
    hosts,        \* Store.hosts: host_id -> Host
    ports,        \* Store.ports: port -> host_id
    listeners,    \* Server.listeners: host_id -> the port listened on
    creating,     \* handleCreateHost calls between two of their steps
    resetting     \* handleReset calls between StopAll and Store.Reset

hostVars == <<hosts, ports, listeners, creating, resetting>>

-----------------------------------------------------------------------------
HostStates == {"online", "offline", "maintenance"}

\* The topology, NUMA nodes and GPUs only matter through the number of cpus.
Host == [port : Ports, cpus : Nat, memoryMB : Nat, cpuRatio : Nat,
         memRatio : Nat, state : HostStates]

Creation == [host : Hosts, port : Ports, pc : {"listen", "rollback"}]

AvailableVCPUs(h) == (hosts[h].cpus * hosts[h].cpuRatio) \div 100

AvailableMemoryMB(h) == (hosts[h].memoryMB * hosts[h].memRatio) \div 100

OrDefault(ratio) == IF ratio = 0 THEN 100 ELSE ratio

HostsInit ==
    /\ hosts = EmptyMap
    /\ ports = EmptyMap
    /\ listeners = EmptyMap
    /\ creating = EmptyMap
    /\ resetting = {}

Idle(c) == c \notin DOMAIN creating \cup resetting

-----------------------------------------------------------------------------
(* POST /sim/hosts: AddHost, StartListener and, if that fails, RemoveHost. *)

\* Mutant: does not look whether the port is taken.
AddHostOnAnyPort(c, h, p, profile, cpuRatio, memRatio) ==
    /\ Idle(c)
    /\ h \notin DOMAIN hosts
    /\ hosts' = Put(hosts, h, [port |-> p, cpus |-> profile.cpus,
                               memoryMB |-> profile.memoryMB,
                               cpuRatio |-> OrDefault(cpuRatio),
                               memRatio |-> OrDefault(memRatio),
                               state |-> "online"])
    /\ ports' = Put(ports, p, h)
    /\ creating' = Put(creating, c, [host |-> h, port |-> p, pc |-> "listen"])
    /\ UNCHANGED <<listeners, resetting>>

AddHost(c, h, p, profile, cpuRatio, memRatio) ==
    /\ Idle(c)
    /\ h \notin DOMAIN hosts
    /\ p \notin DOMAIN ports
    /\ hosts' = Put(hosts, h, [port |-> p, cpus |-> profile.cpus,
                               memoryMB |-> profile.memoryMB,
                               cpuRatio |-> OrDefault(cpuRatio),
                               memRatio |-> OrDefault(memRatio),
                               state |-> "online"])
    /\ ports' = Put(ports, p, h)
    /\ creating' = Put(creating, c, [host |-> h, port |-> p, pc |-> "listen"])
    /\ UNCHANGED <<listeners, resetting>>

StartListener(c) ==
    LET call == creating[c]
    IN  /\ call.pc = "listen"
        /\ call.host \notin DOMAIN listeners
        /\ \A h \in DOMAIN listeners : listeners[h] # call.port
        /\ listeners' = Put(listeners, call.host, call.port)
        /\ creating' = Drop(creating, c)
        /\ UNCHANGED <<hosts, ports, resetting>>

\* The host already has a listener, or net.Listen fails: another process
\* may hold the port, so that is possible at any time.
StartListenerFails(c) ==
    /\ creating[c].pc = "listen"
    /\ creating' = [creating EXCEPT ![c].pc = "rollback"]
    /\ UNCHANGED <<hosts, ports, listeners, resetting>>

\* Mutant: gives up without removing the host.
NoRollback(c) ==
    /\ creating[c].pc = "rollback"
    /\ creating' = Drop(creating, c)
    /\ UNCHANGED <<hosts, ports, listeners, resetting>>

\* RemoveHost removes whatever host has the id by now, if any.
RemoveHost(c) ==
    LET h == creating[c].host
    IN  /\ creating[c].pc = "rollback"
        /\ hosts' = Drop(hosts, h)
        /\ ports' = IF h \in DOMAIN hosts THEN Drop(ports, hosts[h].port)
                                          ELSE ports
        /\ creating' = Drop(creating, c)
        /\ UNCHANGED <<listeners, resetting>>

-----------------------------------------------------------------------------
(* POST /sim/reset: StopAll, then Store.Reset.  Connections stay open.     *)

StopAll(c) ==
    /\ Idle(c)
    /\ listeners' = EmptyMap
    /\ resetting' = resetting \cup {c}
    /\ UNCHANGED <<hosts, ports, creating>>

ResetHosts(c) ==
    /\ c \in resetting
    /\ hosts' = EmptyMap
    /\ ports' = EmptyMap
    /\ resetting' = resetting \ {c}
    /\ UNCHANGED <<listeners, creating>>

-----------------------------------------------------------------------------
(* PUT /sim/hosts/{host_id}/state and POST /sim/hosts/{host_id}/config.    *)

\* Mutant: stores whatever state is sent.
UpdateHostStateUnchecked(h, st) ==
    /\ h \in DOMAIN hosts
    /\ hosts' = [hosts EXCEPT ![h].state = st]
    /\ UNCHANGED <<ports, listeners, creating, resetting>>

UpdateHostState(h, st) ==
    /\ h \in DOMAIN hosts
    /\ st \in HostStates
    /\ hosts' = [hosts EXCEPT ![h].state = st]
    /\ UNCHANGED <<ports, listeners, creating, resetting>>

\* A ratio that is not sent is kept; a zero ratio is stored as it is.
UpdateHostConfig(h) ==
    /\ h \in DOMAIN hosts
    /\ \E cpuRatio \in Ratios \cup {hosts[h].cpuRatio},
          memRatio \in Ratios \cup {hosts[h].memRatio} :
             hosts' = [hosts EXCEPT ![h].cpuRatio = cpuRatio,
                                    ![h].memRatio = memRatio]
    /\ UNCHANGED <<ports, listeners, creating, resetting>>

-----------------------------------------------------------------------------
CreateHostCall(c) ==
    \/ \E h \in Hosts, p \in Ports, profile \in Profiles,
          cpuRatio \in Ratios, memRatio \in Ratios :
             AddHost(c, h, p, profile, cpuRatio, memRatio)
    \/ /\ c \in DOMAIN creating
       /\ StartListener(c) \/ StartListenerFails(c)

RollbackCall(c) == c \in DOMAIN creating /\ RemoveHost(c)

UpdateHostCall(h) ==
    UpdateHostConfig(h) \/ \E st \in StateInputs : UpdateHostState(h, st)

HostsNext ==
    \/ \E c \in HttpCalls :
           CreateHostCall(c) \/ RollbackCall(c) \/ StopAll(c) \/ ResetHosts(c)
    \/ \E h \in Hosts : UpdateHostCall(h)

HostsSpec == HostsInit /\ [][HostsNext]_hostVars

-----------------------------------------------------------------------------
(* Properties.                                                             *)

\* The registry holds records of the declared types; the handler lets a
\* client set only the three known host states.
HostsTypeOK ==
    /\ IsMap(hosts, Hosts, Host)
    /\ IsMap(ports, Ports, Hosts)
    /\ IsMap(listeners, Hosts, Ports)
    /\ IsMap(creating, HttpCalls, Creation)
    /\ resetting \subseteq HttpCalls

\* The port table is the inverse of the hosts' ports: no two hosts share a
\* port and no port stays taken by a host that is gone, although the
\* rollback of one call may remove the host another call has registered.
PortsExact ==
    /\ \A h \in DOMAIN hosts :
          /\ hosts[h].port \in DOMAIN ports
          /\ ports[hosts[h].port] = h
    /\ \A p \in DOMAIN ports :
          /\ ports[p] \in DOMAIN hosts
          /\ hosts[ports[p]].port = p

\* A registered host can be reached on its port: it has its listener, unless
\* a call that registers it on that port, or a reset that will remove it, has
\* not ended.  Creations and resets interleave freely here.
Registers(c, h) == creating[c].host = h /\ creating[c].port = hosts[h].port

HostsReachable ==
    \A h \in DOMAIN hosts :
        \/ h \in DOMAIN listeners /\ listeners[h] = hosts[h].port
        \/ \E c \in DOMAIN creating : Registers(c, h)
        \/ resetting # {}
=============================================================================
