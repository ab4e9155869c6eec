---------------------------- MODULE LibvirtProofs ----------------------------
(***************************************************************************)
(* libvirt-sim: its host registry stays consistent for every set of hosts  *)
(* and ports and every number of concurrent management calls, and its      *)
(* domains, which implement that registry, are well typed and get every    *)
(* domain id once, for every set of hosts, domains and calls.              *)
(***************************************************************************)
EXTENDS LibvirtSim, MapProofs

-----------------------------------------------------------------------------
(* The host registry.                                                      *)

\* Every management step keeps the registry well typed.
LEMMA HostsTypeStep == HostsTypeOK /\ [HostsNext]_hostVars => HostsTypeOK'
<1> USE HostsAssumption DEF HostsAssumption
<1> SUFFICES ASSUME HostsTypeOK, [HostsNext]_hostVars PROVE HostsTypeOK'
    OBVIOUS
<1> USE DEF HostsTypeOK
<1>1. ASSUME NEW c \in HttpCalls, NEW h \in Hosts, NEW p \in Ports,
             NEW profile \in Profiles, NEW cpuRatio \in Ratios,
             NEW memRatio \in Ratios,
             AddHost(c, h, p, profile, cpuRatio, memRatio)
      PROVE  HostsTypeOK'
  <2> DEFINE r == [port |-> p, cpus |-> profile.cpus,
                   memoryMB |-> profile.memoryMB,
                   cpuRatio |-> OrDefault(cpuRatio),
                   memRatio |-> OrDefault(memRatio), state |-> "online"]
  <2>1. OrDefault(cpuRatio) \in Nat /\ OrDefault(memRatio) \in Nat
    BY DEF OrDefault
  <2>2. r \in Host
    BY <2>1 DEF Host, HostStates
  <2>3. [host |-> h, port |-> p, pc |-> "listen"] \in Creation
    BY DEF Creation
  <2> HIDE DEF r
  <2>4. IsMap(Put(hosts, h, r), Hosts, Host)
    BY <2>2, PutIsMap
  <2>5. IsMap(ports', Ports, Hosts)
    BY <1>1, PutIsMap DEF AddHost
  <2>6. IsMap(creating', HttpCalls, Creation)
    BY <1>1, <2>3, PutIsMap DEF AddHost
  <2> QED BY <1>1, <2>4, <2>5, <2>6 DEF AddHost, r
<1>2. ASSUME NEW c \in DOMAIN creating, StartListener(c)
      PROVE  HostsTypeOK'
  <2>1. creating[c] \in Creation
    BY MapValue
  <2>2. IsMap(listeners', Hosts, Ports)
    BY <1>2, <2>1, PutIsMap DEF StartListener, Creation
  <2>3. IsMap(creating', HttpCalls, Creation)
    BY <1>2, DropIsMap DEF StartListener
  <2> QED BY <1>2, <2>2, <2>3 DEF StartListener
<1>3. ASSUME NEW c \in DOMAIN creating, StartListenerFails(c)
      PROVE  HostsTypeOK'
  <2>1. IsMap(creating', HttpCalls, Creation)
    BY <1>3 DEF StartListenerFails, IsMap, Creation
  <2> QED BY <1>3, <2>1 DEF StartListenerFails
<1>4. ASSUME NEW c \in DOMAIN creating, RemoveHost(c)
      PROVE  HostsTypeOK'
  <2>1. IsMap(hosts', Hosts, Host) /\ IsMap(creating', HttpCalls, Creation)
    BY <1>4, DropIsMap DEF RemoveHost
  <2>2. IsMap(ports', Ports, Hosts)
    BY <1>4, DropIsMap DEF RemoveHost
  <2> QED BY <1>4, <2>1, <2>2 DEF RemoveHost
<1>5. ASSUME NEW c \in HttpCalls, StopAll(c) \/ ResetHosts(c)
      PROVE  HostsTypeOK'
  BY <1>5, EmptyIsMap DEF StopAll, ResetHosts
<1>6. ASSUME NEW h \in Hosts, NEW st \in StateInputs, UpdateHostState(h, st)
      PROVE  HostsTypeOK'
  <2>1. IsMap(hosts', Hosts, Host)
    BY <1>6 DEF UpdateHostState, IsMap, Host, HostStates
  <2> QED BY <1>6, <2>1 DEF UpdateHostState
<1>7. ASSUME NEW h \in Hosts, UpdateHostConfig(h)
      PROVE  HostsTypeOK'
  <2>1. h \in DOMAIN hosts
    BY <1>7 DEF UpdateHostConfig
  <2>2. hosts[h] \in Host
    BY <2>1, MapValue
  <2>3. PICK x \in Ratios \cup {hosts[h].cpuRatio},
             y \in Ratios \cup {hosts[h].memRatio} :
             hosts' = [hosts EXCEPT ![h].cpuRatio = x, ![h].memRatio = y]
    BY <1>7 DEF UpdateHostConfig
  <2> DEFINE r == [hosts[h] EXCEPT !.cpuRatio = x, !.memRatio = y]
  <2>4. x \in Nat /\ y \in Nat
    BY <2>2 DEF Host
  <2>5. r \in Host
    BY <2>2, <2>4 DEF Host
  <2>6. hosts' = [hosts EXCEPT ![h] = r]
    BY <2>1, <2>3
  <2> HIDE DEF r
  <2>7. IsMap(hosts', Hosts, Host)
    BY <2>1, <2>5, <2>6, UpdateIsMap
  <2> QED BY <1>7, <2>7 DEF UpdateHostConfig
<1>8. CASE UNCHANGED hostVars
  BY <1>8 DEF hostVars
<1> QED BY <1>1, <1>2, <1>3, <1>4, <1>5, <1>6, <1>7, <1>8
        DEF HostsNext, CreateHostCall, RollbackCall, UpdateHostCall

\* The registry is well typed in every behaviour.
THEOREM HostsTypeCorrect == HostsSpec => []HostsTypeOK
<1>1. HostsInit => HostsTypeOK
  BY EmptyIsMap DEF HostsInit, HostsTypeOK
<1> QED BY <1>1, HostsTypeStep, PTL DEF HostsSpec

-----------------------------------------------------------------------------
\* A change of state or ratios keeps the hosts and their ports.
LEMMA UpdateKeepsPorts ==
    ASSUME HostsTypeOK, NEW h \in Hosts, UpdateHostCall(h)
    PROVE  /\ DOMAIN hosts' = DOMAIN hosts
           /\ \A k \in DOMAIN hosts : hosts'[k].port = hosts[k].port
           /\ UNCHANGED <<ports, listeners, creating, resetting>>
<1>1. \A k \in DOMAIN hosts : hosts[k] \in Host
  BY MapValue DEF HostsTypeOK
<1>2. CASE UpdateHostConfig(h)
  BY <1>1, <1>2 DEF UpdateHostConfig, Host
<1>3. CASE \E st \in StateInputs : UpdateHostState(h, st)
  BY <1>1, <1>3 DEF UpdateHostState, Host
<1> QED BY <1>2, <1>3 DEF UpdateHostCall

\* Every step keeps the port table the inverse of the hosts' ports.
LEMMA PortsStep ==
    HostsTypeOK /\ PortsExact /\ [HostsNext]_hostVars => PortsExact'
<1> SUFFICES ASSUME HostsTypeOK, PortsExact, [HostsNext]_hostVars
             PROVE  PortsExact'
    OBVIOUS
<1> USE DEF PortsExact
<1>1. ASSUME NEW c \in HttpCalls, NEW h \in Hosts, NEW p \in Ports,
             NEW profile \in Profiles, NEW cpuRatio \in Ratios,
             NEW memRatio \in Ratios,
             AddHost(c, h, p, profile, cpuRatio, memRatio)
      PROVE  PortsExact'
  BY <1>1 DEF AddHost, Put
<1>2. ASSUME NEW c \in DOMAIN creating, RemoveHost(c)
      PROVE  PortsExact'
  BY <1>2 DEF RemoveHost, Drop, Restrict
<1>3. ASSUME NEW c \in HttpCalls, ResetHosts(c)
      PROVE  PortsExact'
  BY <1>3, EmptyIsMap DEF ResetHosts
<1>4. ASSUME NEW h \in Hosts, UpdateHostCall(h)
      PROVE  PortsExact'
  BY <1>4, UpdateKeepsPorts
<1>5. ASSUME UNCHANGED <<hosts, ports>>
      PROVE  PortsExact'
  BY <1>5
<1>6. ASSUME NEW c \in HttpCalls, CreateHostCall(c)
      PROVE  PortsExact'
  BY <1>1, <1>5, <1>6 DEF CreateHostCall, StartListener, StartListenerFails
<1>7. ASSUME NEW c \in HttpCalls, StopAll(c)
      PROVE  PortsExact'
  BY <1>5, <1>7 DEF StopAll
<1>8. CASE UNCHANGED hostVars
  BY <1>5, <1>8 DEF hostVars
<1> QED BY <1>2, <1>3, <1>4, <1>6, <1>7, <1>8 DEF HostsNext, RollbackCall

\* No two hosts ever share a port, and no port outlives its host.
THEOREM PortsSafe == HostsSpec => []PortsExact
<1>1. HostsInit => PortsExact
  BY EmptyIsMap DEF HostsInit, PortsExact
<1> QED BY <1>1, PortsStep, HostsTypeCorrect, PTL DEF HostsSpec

-----------------------------------------------------------------------------
\* Every step keeps a registered host within reach.
LEMMA ReachableStep ==
    HostsTypeOK /\ HostsReachable /\ [HostsNext]_hostVars => HostsReachable'
<1> SUFFICES ASSUME HostsTypeOK, HostsReachable, [HostsNext]_hostVars
             PROVE  HostsReachable'
    OBVIOUS
<1> USE DEF HostsReachable, Registers
<1>1. ASSUME NEW c \in HttpCalls, NEW h \in Hosts, NEW p \in Ports,
             NEW profile \in Profiles, NEW cpuRatio \in Ratios,
             NEW memRatio \in Ratios,
             AddHost(c, h, p, profile, cpuRatio, memRatio)
      PROVE  HostsReachable'
  BY <1>1 DEF AddHost, Put, Idle
<1>2. ASSUME NEW c \in DOMAIN creating, StartListener(c)
      PROVE  HostsReachable'
  <2> SUFFICES ASSUME NEW k \in DOMAIN hosts, resetting = {}
               PROVE  \/ /\ k \in DOMAIN listeners'
                         /\ listeners'[k] = hosts[k].port
                      \/ \E d \in DOMAIN creating' :
                            /\ creating'[d].host = k
                            /\ creating'[d].port = hosts[k].port
    BY <1>2 DEF StartListener
  <2>1. CASE k \in DOMAIN listeners /\ listeners[k] = hosts[k].port
    BY <1>2, <2>1 DEF StartListener, Put
  <2> QED BY <1>2, <2>1 DEF StartListener, Put, Drop, Restrict
<1>3. ASSUME NEW c \in DOMAIN creating, StartListenerFails(c)
      PROVE  HostsReachable'
  <2>1. /\ DOMAIN creating' = DOMAIN creating
        /\ \A d \in DOMAIN creating : /\ creating'[d].host = creating[d].host
                                      /\ creating'[d].port = creating[d].port
    BY <1>3, MapValue DEF StartListenerFails, HostsTypeOK, IsMap, Creation
  <2> QED BY <1>3, <2>1 DEF StartListenerFails
<1>4. ASSUME NEW c \in DOMAIN creating, RemoveHost(c)
      PROVE  HostsReachable'
  BY <1>4 DEF RemoveHost, Drop, Restrict
<1>5. ASSUME NEW c \in HttpCalls, StopAll(c) \/ ResetHosts(c)
      PROVE  HostsReachable'
  BY <1>5, EmptyIsMap DEF StopAll, ResetHosts
<1>6. ASSUME NEW h \in Hosts, UpdateHostCall(h)
      PROVE  HostsReachable'
  BY <1>6, UpdateKeepsPorts
<1>7. CASE UNCHANGED hostVars
  BY <1>7 DEF hostVars
<1> QED BY <1>1, <1>2, <1>3, <1>4, <1>5, <1>6, <1>7
        DEF HostsNext, CreateHostCall, RollbackCall

\* A registered host is reachable on its port unless a creation or a reset
\* is still in progress.
THEOREM ReachableSafe == HostsSpec => []HostsReachable
<1>1. HostsInit => HostsReachable
  BY EmptyIsMap DEF HostsInit, HostsReachable
<1> QED BY <1>1, ReachableStep, HostsTypeCorrect, PTL DEF HostsSpec

-----------------------------------------------------------------------------
(* The steps of the registry, and the steps that leave it alone.           *)

\* A call that works on domains leaves the registry alone.
LEMMA DomainCallsKeepHosts ==
    LifecycleCall \/ DefinitionCall \/ MigrationCall => UNCHANGED hostVars
  BY DEF LifecycleCall, DefinitionCall, MigrationCall, StartDomain,
         DestroyDomain, ShutdownDomain, SuspendDomain, ResumeDomain,
         DefineDomain, UndefineDomain, PrepareLookup, MigratePrepare,
         PrepareRefused, MigratePerform, MigrateFinish, MigrateConfirm

\* Every step of the simulator is a step of the registry or leaves it alone.
LEMMA RegistryStep == [Next]_vars => [HostsNext]_hostVars
<1> SUFFICES ASSUME [Next]_vars PROVE [HostsNext]_hostVars
    OBVIOUS
<1>1. CASE ManagementCall
  BY <1>1 DEF ManagementCall, RemoveHostAndDomains, Reset, HostsNext
<1>2. CASE LifecycleCall \/ DefinitionCall \/ MigrationCall
  BY <1>2, DomainCallsKeepHosts
<1>3. CASE UNCHANGED vars
  BY <1>3 DEF vars
<1> QED BY <1>1, <1>2, <1>3 DEF Next

\* libvirt-sim implements the registry, whatever its domains do.
THEOREM ImplementsRegistry == Spec => HostsSpec
<1>1. Init => HostsInit
  BY DEF Init
<1> QED BY <1>1, RegistryStep, PTL DEF Spec, HostsSpec

\* So its ports and listeners are as consistent as the registry's.
THEOREM RegistrySafe == Spec => [](PortsExact /\ HostsReachable)
  BY ImplementsRegistry, PortsSafe, ReachableSafe, PTL

-----------------------------------------------------------------------------
(* Types.                                                                  *)

\* A life-cycle or migration call on one domain writes three of its fields.
LEMMA FieldWrites ==
    ASSUME TypeOK, NEW p \in DOMAIN domains,
           \/ StartDomain(p) \/ DestroyDomain(p) \/ ShutdownDomain(p)
           \/ SuspendDomain(p) \/ ResumeDomain(p)
           \/ MigratePerform(p) \/ MigrateFinish(p)
    PROVE  \E st \in DomainStates, i \in Int, m \in MigrationStates :
               domains' = [domains EXCEPT ![p] =
                   [domains[p] EXCEPT !.state = st, !.id = i,
                                      !.migration = m]]
<1> DEFINE d == domains[p]
<1>1. d \in Domain
  BY MapValue DEF TypeOK
<1>2. /\ d.state \in DomainStates /\ d.id \in Int
      /\ d.migration \in MigrationStates /\ nextDomainID \in Int /\ -1 \in Int
  BY <1>1 DEF Domain, TypeOK
<1>3. CASE StartDomain(p)
  <2>1. domains' = [domains EXCEPT ![p] =
            [d EXCEPT !.state = "running", !.id = nextDomainID,
                      !.migration = d.migration]]
    BY <1>1, <1>3 DEF StartDomain, Domain
  <2> QED BY <1>2, <2>1 DEF DomainStates
<1>4. CASE DestroyDomain(p) \/ ShutdownDomain(p)
  <2>1. domains' = [domains EXCEPT ![p] =
            [d EXCEPT !.state = "shutoff", !.id = -1,
                      !.migration = d.migration]]
    BY <1>1, <1>4 DEF DestroyDomain, ShutdownDomain, Domain
  <2> QED BY <1>2, <2>1 DEF DomainStates
<1>5. CASE SuspendDomain(p)
  <2>1. domains' = [domains EXCEPT ![p] =
            [d EXCEPT !.state = "paused", !.id = d.id,
                      !.migration = d.migration]]
    BY <1>1, <1>5 DEF SuspendDomain, Domain
  <2> QED BY <1>2, <2>1 DEF DomainStates
<1>6. CASE ResumeDomain(p)
  <2>1. domains' = [domains EXCEPT ![p] =
            [d EXCEPT !.state = "running", !.id = d.id,
                      !.migration = d.migration]]
    BY <1>1, <1>6 DEF ResumeDomain, Domain
  <2> QED BY <1>2, <2>1 DEF DomainStates
<1>7. CASE MigratePerform(p)
  <2>1. domains' = [domains EXCEPT ![p] =
            [d EXCEPT !.state = d.state, !.id = d.id,
                      !.migration = "performing"]]
    BY <1>1, <1>7 DEF MigratePerform, Domain
  <2> QED BY <1>2, <2>1 DEF MigrationStates
<1>8. CASE MigrateFinish(p)
  <2>1. domains' = [domains EXCEPT ![p] =
            [d EXCEPT !.state = "running", !.id = nextDomainID,
                      !.migration = "none"]]
    BY <1>1, <1>8 DEF MigrateFinish, Domain
  <2> QED BY <1>2, <2>1 DEF MigrationStates, DomainStates
<1> QED BY <1>3, <1>4, <1>5, <1>6, <1>7, <1>8

\* Writing a domain into the tables keeps them well typed.
LEMMA PutDomain ==
    ASSUME NEW f, IsMap(f, Places, Domain), NEW p \in Places, NEW r \in Domain
    PROVE  /\ IsMap(Put(f, p, r), Places, Domain)
           /\ DOMAIN Put(f, p, r) = DOMAIN f \cup {p}
  BY DEF IsMap, Put

\* Deleting one does, too.
LEMMA DropDomain ==
    ASSUME NEW f, IsMap(f, Places, Domain), NEW p
    PROVE  /\ IsMap(Drop(f, p), Places, Domain)
           /\ DOMAIN Drop(f, p) = DOMAIN f \ {p}
  BY DEF IsMap, Drop, Restrict

\* Every step keeps the domains well typed and on registered hosts.
LEMMA TypeStep == TypeOK /\ [Next]_vars => TypeOK'
<1> SUFFICES ASSUME TypeOK, [Next]_vars PROVE TypeOK'
    OBVIOUS
<1>1. HostsTypeOK'
  BY RegistryStep, HostsTypeStep DEF TypeOK
<1>0. IsMap(domains, Places, Domain)
  BY DEF TypeOK
<1>2. ASSUME UNCHANGED domainVars, DOMAIN hosts \subseteq DOMAIN hosts'
      PROVE  TypeOK'
  BY <1>1, <1>2 DEF TypeOK, domainVars
<1>3. ASSUME NEW c \in HttpCalls, CreateHostCall(c) \/ StopAll(c),
             UNCHANGED domainVars
      PROVE  TypeOK'
  <2>1. DOMAIN hosts \subseteq DOMAIN hosts'
    <3>1. CASE CreateHostCall(c)
      <4>1. hosts' = hosts \/ \E h, v : hosts' = Put(hosts, h, v)
        BY <3>1 DEF CreateHostCall, AddHost, StartListener, StartListenerFails
      <4> QED BY <4>1 DEF Put
    <3>2. CASE StopAll(c)
      BY <3>2 DEF StopAll
    <3> QED BY <1>3, <3>1, <3>2
  <2> QED BY <1>2, <1>3, <2>1
<1>4. ASSUME NEW c \in HttpCalls, RemoveHostAndDomains(c)
      PROVE  TypeOK'
  BY <1>1, <1>4 DEF RemoveHostAndDomains, RollbackCall, RemoveHost, Drop,
                    Restrict, IsMap, TypeOK
<1>5. ASSUME NEW c \in HttpCalls, Reset(c)
      PROVE  TypeOK'
  BY <1>1, <1>5, EmptyIsMap DEF Reset, TypeOK
<1>6. ASSUME NEW h \in Hosts, UpdateHostCall(h), UNCHANGED domainVars
      PROVE  TypeOK'
  BY <1>2, <1>6, UpdateKeepsPorts DEF TypeOK
<1>7. ASSUME NEW h \in Hosts, NEW u \in Uuids, NEW f \in Flavors,
             DefineDomain(h, u, f)
      PROVE  TypeOK'
  <2> DEFINE r == [vcpus |-> f.vcpus, memoryKiB |-> f.memoryKiB,
                   state |-> "shutoff", id |-> -1, migration |-> "none"]
  <2>1. r \in Domain
    BY LibvirtAssumption DEF LibvirtAssumption, Domain, DomainStates,
       MigrationStates
  <2> HIDE DEF r
  <2> DEFINE p == <<h, u>>
  <2>0. p \in Places
    BY DEF Places
  <2>3. domains' = Put(domains, p, r) /\ p[1] \in DOMAIN hosts
    BY <1>7 DEF DefineDomain, r
  <2> HIDE DEF p
  <2>2. /\ IsMap(Put(domains, p, r), Places, Domain)
        /\ DOMAIN Put(domains, p, r) = DOMAIN domains \cup {p}
    BY <1>0, <2>0, <2>1, PutDomain
  <2> QED BY <1>1, <1>7, <2>2, <2>3 DEF DefineDomain, TypeOK, hostVars
<1>8. ASSUME NEW p \in DOMAIN domains, UndefineDomain(p) \/ MigrateConfirm(p)
      PROVE  TypeOK'
  <2>1. /\ IsMap(domains', Places, Domain)
        /\ DOMAIN domains' \subseteq DOMAIN domains
    <3>1. domains' = Drop(domains, p)
      BY <1>8 DEF UndefineDomain, MigrateConfirm
    <3>2. /\ IsMap(Drop(domains, p), Places, Domain)
          /\ DOMAIN Drop(domains, p) = DOMAIN domains \ {p}
      BY <1>0, DropDomain
    <3> QED BY <3>1, <3>2
  <2> QED BY <1>1, <1>8, <2>1 DEF UndefineDomain, MigrateConfirm, TypeOK,
                                  hostVars
<1>9. ASSUME NEW p \in DOMAIN domains,
             \/ StartDomain(p) \/ DestroyDomain(p) \/ ShutdownDomain(p)
             \/ SuspendDomain(p) \/ ResumeDomain(p)
             \/ MigratePerform(p) \/ MigrateFinish(p)
      PROVE  TypeOK'
  <2>1. /\ IsMap(domains', Places, Domain)
        /\ DOMAIN domains' = DOMAIN domains
    <3>1. PICK st \in DomainStates, i \in Int, m \in MigrationStates :
               domains' = [domains EXCEPT ![p] =
                   [domains[p] EXCEPT !.state = st, !.id = i,
                                      !.migration = m]]
      BY <1>9, FieldWrites
    <3> DEFINE r == [domains[p] EXCEPT !.state = st, !.id = i,
                                       !.migration = m]
    <3>2. r \in Domain
      <4>1. domains[p] \in Domain
        BY <1>0, MapValue
      <4> QED BY <4>1 DEF Domain
    <3>3. domains' = [domains EXCEPT ![p] = r]
      BY <3>1
    <3> HIDE DEF r
    <3> QED BY <1>0, <3>2, <3>3, UpdateIsMap
  <2>2. nextDomainID' \in Nat /\ UNCHANGED <<hostVars, preparing>>
    BY <1>9 DEF StartDomain, DestroyDomain, ShutdownDomain, SuspendDomain,
                ResumeDomain, MigratePerform, MigrateFinish, TypeOK
  <2> QED BY <1>1, <2>1, <2>2 DEF TypeOK, hostVars
<1>10. ASSUME NEW c \in RpcCalls, NEW h \in Hosts, NEW p \in DOMAIN domains,
              PrepareLookup(c, h, p)
       PROVE  TypeOK'
  <2>1. p \in Places /\ domains[p] \in Domain
    BY MapValue DEF TypeOK
  <2> DEFINE r == [host |-> h, uuid |-> p[2], vcpus |-> domains[p].vcpus,
                   memoryKiB |-> domains[p].memoryKiB]
  <2>2. r \in Preparation
    BY <2>1 DEF Preparation, Domain, Places
  <2>3. IsMap(preparing', RpcCalls, Preparation)
    <3>1. preparing' = Put(preparing, c, r)
      BY <1>10 DEF PrepareLookup
    <3>2. IsMap(preparing, RpcCalls, Preparation)
      BY DEF TypeOK
    <3> HIDE DEF r
    <3> QED BY <2>2, <3>1, <3>2, PutIsMap
  <2> QED BY <1>1, <1>10, <2>3 DEF PrepareLookup, TypeOK, hostVars
<1>11. ASSUME NEW c \in DOMAIN preparing, MigratePrepare(c)
       PROVE  TypeOK'
  <2> DEFINE call == preparing[c]
             p == <<call.host, call.uuid>>
             r == [vcpus |-> call.vcpus, memoryKiB |-> call.memoryKiB,
                   state |-> "paused", id |-> -1, migration |-> "prepared"]
  <2>1. call \in Preparation
    BY MapValue DEF TypeOK
  <2>2. r \in Domain /\ p \in Places
    BY <2>1 DEF Domain, DomainStates, MigrationStates, Preparation, Places
  <2>3. domains' = Put(domains, p, r) /\ p[1] \in DOMAIN hosts
    BY <1>11 DEF MigratePrepare, Accepts
  <2> HIDE DEF r, p
  <2>4. /\ IsMap(Put(domains, p, r), Places, Domain)
        /\ DOMAIN Put(domains, p, r) = DOMAIN domains \cup {p}
    BY <2>2, PutIsMap DEF TypeOK
  <2>5. IsMap(preparing', RpcCalls, Preparation)
    BY <1>11, DropIsMap DEF MigratePrepare, TypeOK
  <2> QED BY <1>1, <1>11, <2>3, <2>4, <2>5 DEF MigratePrepare, TypeOK, hostVars
<1>12. ASSUME NEW c \in DOMAIN preparing, PrepareRefused(c)
       PROVE  TypeOK'
  <2>1. IsMap(preparing', RpcCalls, Preparation)
    BY <1>12, DropIsMap DEF PrepareRefused, TypeOK
  <2> QED BY <1>1, <1>12, <2>1 DEF PrepareRefused, TypeOK, hostVars
<1>13. CASE UNCHANGED vars
  BY <1>2, <1>13 DEF vars, hostVars
<1>14. CASE ManagementCall
  BY <1>3, <1>4, <1>5, <1>6, <1>14 DEF ManagementCall
<1>15. CASE LifecycleCall \/ DefinitionCall
  BY <1>7, <1>8, <1>9, <1>15 DEF LifecycleCall, DefinitionCall
<1>16. CASE MigrationCall
  BY <1>8, <1>9, <1>10, <1>11, <1>12, <1>16 DEF MigrationCall
<1> QED BY <1>13, <1>14, <1>15, <1>16 DEF Next

\* The simulator is well typed in every behaviour.
THEOREM TypeCorrect == Spec => []TypeOK
<1>1. Init => TypeOK
  BY EmptyIsMap DEF Init, HostsInit, TypeOK, HostsTypeOK
<1> QED BY <1>1, TypeStep, PTL DEF Spec

-----------------------------------------------------------------------------
(* Domain ids.                                                             *)

\* What a call may store under p: a running domain with the next id, a domain
\* that is off, a placeholder, or an active domain that keeps its id and does
\* not stop being a placeholder.
GoodWrite(p) ==
    \/ /\ domains'[p].id = nextDomainID /\ domains'[p].state = "running"
       /\ nextDomainID' = nextDomainID + 1
    \/ /\ domains'[p].id = -1
       /\ \/ domains'[p].state = "shutoff"
          \/ domains'[p].migration = "prepared"
       /\ UNCHANGED nextDomainID
    \/ /\ p \in DOMAIN domains
       /\ domains'[p].id = domains[p].id
       /\ domains[p].state \in {"running", "paused"}
       /\ domains'[p].state \in {"running", "paused"}
       /\ domains[p].migration = "prepared" => domains'[p].migration = "prepared"
       /\ UNCHANGED nextDomainID

\* A call on one domain writes that domain only, and writes it well.
LEMMA GoodUpdate ==
    ASSUME TypeOK, NEW p \in DOMAIN domains,
           \/ StartDomain(p) \/ DestroyDomain(p) \/ ShutdownDomain(p)
           \/ SuspendDomain(p) \/ ResumeDomain(p)
           \/ MigratePerform(p) \/ MigrateFinish(p)
    PROVE  /\ DOMAIN domains' = DOMAIN domains
           /\ \A q \in DOMAIN domains : q # p => domains'[q] = domains[q]
           /\ GoodWrite(p)
<1>1. domains[p] \in Domain
  BY MapValue DEF TypeOK
<1>2. DOMAIN domains' = DOMAIN domains
  BY DEF StartDomain, DestroyDomain, ShutdownDomain, SuspendDomain,
         ResumeDomain, MigratePerform, MigrateFinish
<1>3. \A q \in DOMAIN domains : q # p => domains'[q] = domains[q]
  BY DEF StartDomain, DestroyDomain, ShutdownDomain, SuspendDomain,
         ResumeDomain, MigratePerform, MigrateFinish
<1>4. CASE StartDomain(p)
  BY <1>1, <1>2, <1>3, <1>4 DEF StartDomain, GoodWrite, Domain
<1>5. CASE MigrateFinish(p)
  BY <1>1, <1>2, <1>3, <1>5 DEF MigrateFinish, GoodWrite, Domain
<1>6. CASE DestroyDomain(p) \/ ShutdownDomain(p)
  BY <1>1, <1>2, <1>3, <1>6 DEF DestroyDomain, ShutdownDomain, GoodWrite, Domain
<1>7. CASE SuspendDomain(p) \/ ResumeDomain(p)
  BY <1>1, <1>2, <1>3, <1>7 DEF SuspendDomain, ResumeDomain, GoodWrite, Domain
<1>8. CASE MigratePerform(p)
  BY <1>1, <1>2, <1>3, <1>8 DEF MigratePerform, GoodWrite, Domain
<1> QED BY <1>4, <1>5, <1>6, <1>7, <1>8

\* A step may remove domains, and restarts the ids only if it removes them all.
Removes ==
    /\ DOMAIN domains' \subseteq DOMAIN domains
    /\ \A q \in DOMAIN domains' : domains'[q] = domains[q]
    /\ UNCHANGED nextDomainID \/ DOMAIN domains' = {}

\* Or it writes one domain, well.
WritesOne ==
    \E p \in Places :
        /\ DOMAIN domains' = DOMAIN domains \cup {p}
        /\ \A q \in DOMAIN domains : q # p => domains'[q] = domains[q]
        /\ GoodWrite(p)

\* Every step of the simulator does one or the other.
LEMMA StepShape == TypeOK /\ [Next]_vars => Removes \/ WritesOne
<1> SUFFICES ASSUME TypeOK, [Next]_vars PROVE Removes \/ WritesOne
    OBVIOUS
<1>1. ASSUME UNCHANGED <<domains, nextDomainID>> PROVE Removes
  BY <1>1 DEF Removes
<1>2. ASSUME NEW c \in HttpCalls, RemoveHostAndDomains(c) \/ Reset(c)
      PROVE  Removes
  BY <1>2, EmptyIsMap DEF RemoveHostAndDomains, Reset, Restrict, Removes
<1>3. ASSUME NEW p, UndefineDomain(p) \/ MigrateConfirm(p) PROVE Removes
  BY <1>3 DEF UndefineDomain, MigrateConfirm, Drop, Restrict, Removes
<1>4. ASSUME NEW p \in DOMAIN domains,
             \/ StartDomain(p) \/ DestroyDomain(p) \/ ShutdownDomain(p)
             \/ SuspendDomain(p) \/ ResumeDomain(p)
             \/ MigratePerform(p) \/ MigrateFinish(p)
      PROVE  WritesOne
  <2>1. p \in Places
    BY MapValue DEF TypeOK
  <2>2. /\ DOMAIN domains' = DOMAIN domains
        /\ \A q \in DOMAIN domains : q # p => domains'[q] = domains[q]
        /\ GoodWrite(p)
    BY <1>4, GoodUpdate
  <2> QED BY <2>1, <2>2 DEF WritesOne
<1>5. ASSUME NEW h \in Hosts, NEW u \in Uuids, NEW f \in Flavors,
             DefineDomain(h, u, f)
      PROVE  WritesOne
  <2>1. <<h, u>> \in Places
    BY DEF Places
  <2> QED BY <1>5, <2>1 DEF DefineDomain, Put, GoodWrite, WritesOne
<1>6. ASSUME NEW c \in DOMAIN preparing, MigratePrepare(c)
      PROVE  WritesOne
  <2>1. preparing[c] \in Preparation
    BY MapValue DEF TypeOK
  <2>2. <<preparing[c].host, preparing[c].uuid>> \in Places
    BY <2>1 DEF Preparation, Places
  <2> QED BY <1>6, <2>2 DEF MigratePrepare, Put, GoodWrite, WritesOne
<1>7. CASE UNCHANGED vars
  BY <1>1, <1>7 DEF vars, domainVars
<1>8. CASE ManagementCall
  BY <1>1, <1>2, <1>8 DEF ManagementCall, domainVars
<1>9. CASE LifecycleCall \/ DefinitionCall
  BY <1>3, <1>4, <1>5, <1>9 DEF LifecycleCall, DefinitionCall
<1>10. CASE MigrationCall
  BY <1>1, <1>3, <1>4, <1>6, <1>10 DEF MigrationCall, PrepareLookup,
                                       PrepareRefused
<1> QED BY <1>7, <1>8, <1>9, <1>10 DEF Next

\* No two domains ever have the same id, on whatever hosts they are, and no id
\* in use is handed out again: StartDomain and MigrateFinish take fresh ids and
\* Store.Reset restarts the counter only with all domains gone.
THEOREM IdsSafe == Spec => []IdsDistinct
<1>1. Init => IdsDistinct
  BY EmptyIsMap DEF Init, IdsDistinct
<1>2. TypeOK /\ TypeOK' /\ IdsDistinct /\ [Next]_vars => IdsDistinct'
  <2> SUFFICES ASSUME TypeOK, TypeOK', IdsDistinct, [Next]_vars
               PROVE  IdsDistinct'
      OBVIOUS
  <2>1. nextDomainID \in Nat /\ nextDomainID' \in Nat
    BY DEF TypeOK
  <2>2. \A q \in DOMAIN domains : domains[q] \in Domain
    BY MapValue DEF TypeOK
  <2>3. \A q \in DOMAIN domains : domains[q].id \in Int
    BY <2>2 DEF Domain
  <2>4. CASE Removes
    BY <2>1, <2>4 DEF Removes, IdsDistinct
  <2>5. CASE WritesOne
    BY <2>1, <2>3, <2>5 DEF WritesOne, GoodWrite, IdsDistinct
  <2> QED BY <2>4, <2>5, StepShape
<1> QED BY <1>1, <1>2, TypeCorrect, PTL DEF Spec

\* Outside the placeholders of incoming migrations, the domains with an id are
\* exactly the active ones, whatever life-cycle calls reach a domain while it
\* migrates.
THEOREM ActivitySafe == Spec => []IdsShowActivity
<1>1. Init => IdsShowActivity
  BY EmptyIsMap DEF Init, IdsShowActivity
<1>2. TypeOK /\ IdsShowActivity /\ [Next]_vars => IdsShowActivity'
  <2> SUFFICES ASSUME TypeOK, IdsShowActivity, [Next]_vars
               PROVE  IdsShowActivity'
      OBVIOUS
  <2>1. nextDomainID \in Nat
    BY DEF TypeOK
  <2>2. CASE Removes
    BY <2>2 DEF Removes, IdsShowActivity, Active
  <2>3. CASE WritesOne
    BY <2>1, <2>3 DEF WritesOne, GoodWrite, IdsShowActivity, Active
  <2> QED BY <2>2, <2>3, StepShape
<1> QED BY <1>1, <1>2, TypeCorrect, PTL DEF Spec
=============================================================================
