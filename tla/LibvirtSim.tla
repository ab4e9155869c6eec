----------------------------- MODULE LibvirtSim -----------------------------
(***************************************************************************)
(* libvirt-sim: the domains of the registered hosts                        *)
(* (libvirt-sim/internal/state/store.go, domain.go), the RPC handlers that *)
(* work on them (rpc/handlers.go, rpc/handlers_migration.go) and the host  *)
(* registry of LibvirtHosts.                                               *)
(*                                                                         *)
(* Host.mu is held for the whole of a Store method that changes a domain,  *)
(* so each is one action; a method that returns an error changes nothing.  *)
(* Only handleMigratePrepare3Params carries state over a sleep: it reads   *)
(* the domain to migrate, sleeps, then reserves room for what it has read. *)
(* Every connection has its own goroutine and survives a reset, so an RPC  *)
(* may come for any registered host at any time.  Events, the migration    *)
(* speed and the durations of the sleeps are left out.                     *)
(***************************************************************************)
EXTENDS LibvirtHosts

CONSTANTS
    Uuids,        \* domain UUIDs
    Flavors,      \* [vcpus, memoryKiB] of the domain XML a client defines
    RpcCalls,     \* slots for Prepare calls that sleep at the same time
    MaxIds        \* bound: domain ids handed out between two resets

ASSUME LibvirtAssumption ==
    /\ Flavors \subseteq [vcpus : Int, memoryKiB : Int]
    /\ MaxIds \in Nat

VARIABLES
    domains,      \* Host.Domains of all hosts: <<host_id, UUID>> -> Domain
    nextDomainID, \* Store.nextDomainID
    preparing     \* Prepare calls asleep, with the domain they have read

domainVars == <<domains, nextDomainID, preparing>>

vars == <<hostVars, domainVars>>

-----------------------------------------------------------------------------
\* Where a domain may be: a host and a UUID.
Places == Hosts \X Uuids

DomainStates == {"running", "paused", "shutoff"}

MigrationStates == {"none", "prepared", "performing"}

Domain == [vcpus : Int, memoryKiB : Int, state : DomainStates, id : Int,
           migration : MigrationStates]

\* The reserving host, and the immutable part of the domain that was found.
Preparation == [host : Hosts, uuid : Uuids, vcpus : Int, memoryKiB : Int]

\* The domains that count as using resources.
Active(p) == domains[p].state \in {"running", "paused"}

ActiveOn(h) == {p \in DOMAIN domains : p[1] = h /\ Active(p)}

UsedVCPUs(h) == SumFunction([p \in ActiveOn(h) |-> domains[p].vcpus])

UsedMemoryMB(h) ==
    SumFunction([p \in ActiveOn(h) |-> domains[p].memoryKiB \div 1024])

HasRoom(h, vcpus, memoryKiB) ==
    /\ UsedVCPUs(h) + vcpus <= AvailableVCPUs(h)
    /\ UsedMemoryMB(h) + memoryKiB \div 1024 <= AvailableMemoryMB(h)

Init ==
    /\ HostsInit
    /\ domains = EmptyMap
    /\ nextDomainID = 1
    /\ preparing = EmptyMap

\* A removed host takes its domains along; Reset forgets them all.
RemoveHostAndDomains(c) ==
    /\ RollbackCall(c)
    /\ domains' = Restrict(domains, {p \in DOMAIN domains :
                                        p[1] # creating[c].host})
    /\ UNCHANGED <<nextDomainID, preparing>>

Reset(c) ==
    /\ ResetHosts(c)
    /\ domains' = EmptyMap
    /\ nextDomainID' = 1
    /\ UNCHANGED preparing

-----------------------------------------------------------------------------
(* The domain life cycle.                                                  *)

\* Replaces whatever the host has under this UUID.
DefineDomain(h, u, flavor) ==
    /\ h \in DOMAIN hosts
    /\ domains' = Put(domains, <<h, u>>,
                      [vcpus |-> flavor.vcpus, memoryKiB |-> flavor.memoryKiB,
                       state |-> "shutoff", id |-> -1, migration |-> "none"])
    /\ UNCHANGED <<hostVars, nextDomainID, preparing>>

\* Mutant: hands out the next id without taking it.
StartDomainSameId(p) ==
    /\ nextDomainID <= MaxIds
    /\ domains[p].state = "shutoff"
    /\ HasRoom(p[1], domains[p].vcpus, domains[p].memoryKiB)
    /\ domains' = [domains EXCEPT ![p].state = "running",
                                  ![p].id = nextDomainID]
    /\ UNCHANGED <<hostVars, nextDomainID, preparing>>

StartDomain(p) ==
    /\ nextDomainID <= MaxIds
    /\ domains[p].state = "shutoff"
    /\ HasRoom(p[1], domains[p].vcpus, domains[p].memoryKiB)
    /\ domains' = [domains EXCEPT ![p].state = "running",
                                  ![p].id = nextDomainID]
    /\ nextDomainID' = nextDomainID + 1
    /\ UNCHANGED <<hostVars, preparing>>

DestroyDomain(p) ==
    /\ domains[p].state \in {"running", "paused"}
    /\ domains' = [domains EXCEPT ![p].state = "shutoff", ![p].id = -1]
    /\ UNCHANGED <<hostVars, nextDomainID, preparing>>

ShutdownDomain(p) ==
    /\ domains[p].state = "running"
    /\ domains' = [domains EXCEPT ![p].state = "shutoff", ![p].id = -1]
    /\ UNCHANGED <<hostVars, nextDomainID, preparing>>

SuspendDomain(p) ==
    /\ domains[p].state = "running"
    /\ domains' = [domains EXCEPT ![p].state = "paused"]
    /\ UNCHANGED <<hostVars, nextDomainID, preparing>>

ResumeDomain(p) ==
    /\ domains[p].state = "paused"
    /\ domains' = [domains EXCEPT ![p].state = "running"]
    /\ UNCHANGED <<hostVars, nextDomainID, preparing>>

UndefineDomain(p) ==
    /\ domains[p].state = "shutoff"
    /\ domains' = Drop(domains, p)
    /\ UNCHANGED <<hostVars, nextDomainID, preparing>>

-----------------------------------------------------------------------------
(* Live migration: Prepare on the destination, Perform on the source,      *)
(* Finish on the destination, Confirm on the source.                       *)

\* Looks the domain up, on whatever host has it, and goes to sleep.  The
\* lookup by name may return any domain: names are not unique.
PrepareLookup(c, h, p) ==
    /\ c \notin DOMAIN preparing
    /\ p \in DOMAIN domains
    /\ preparing' = Put(preparing, c,
                        [host |-> h, uuid |-> p[2],
                         vcpus |-> domains[p].vcpus,
                         memoryKiB |-> domains[p].memoryKiB])
    /\ UNCHANGED <<hostVars, domains, nextDomainID>>

\* Mutant: reserves nothing.
AcceptsWithoutRoom(call) ==
    /\ call.host \in DOMAIN hosts
    /\ hosts[call.host].state = "online"
    /\ <<call.host, call.uuid>> \notin DOMAIN domains

\* The host that will hold the placeholder accepts it.
Accepts(call) ==
    /\ call.host \in DOMAIN hosts
    /\ hosts[call.host].state = "online"
    /\ <<call.host, call.uuid>> \notin DOMAIN domains
    /\ HasRoom(call.host, call.vcpus, call.memoryKiB)

MigratePrepare(c) ==
    LET call == preparing[c]
    IN  /\ Accepts(call)
        /\ domains' = Put(domains, <<call.host, call.uuid>>,
                          [vcpus |-> call.vcpus, memoryKiB |-> call.memoryKiB,
                           state |-> "paused", id |-> -1,
                           migration |-> "prepared"])
        /\ preparing' = Drop(preparing, c)
        /\ UNCHANGED <<hostVars, nextDomainID>>

PrepareRefused(c) ==
    /\ ~Accepts(preparing[c])
    /\ preparing' = Drop(preparing, c)
    /\ UNCHANGED <<hostVars, domains, nextDomainID>>

\* Mutant: accepts a placeholder, or a domain that migrates already.
MigratePerformAnyPhase(p) ==
    /\ domains[p].state = "running"
    /\ domains' = [domains EXCEPT ![p].migration = "performing"]
    /\ UNCHANGED <<hostVars, nextDomainID, preparing>>

\* Mutant: forgets to mark the domain.
MigratePerformUnmarked(p) ==
    /\ domains[p].state = "running"
    /\ domains[p].migration = "none"
    /\ UNCHANGED <<hostVars, domains, nextDomainID, preparing>>

MigratePerform(p) ==
    /\ domains[p].state = "running"
    /\ domains[p].migration = "none"
    /\ domains' = [domains EXCEPT ![p].migration = "performing"]
    /\ UNCHANGED <<hostVars, nextDomainID, preparing>>

MigrateFinish(p) ==
    /\ nextDomainID <= MaxIds
    /\ domains[p].migration = "prepared"
    /\ domains' = [domains EXCEPT ![p].state = "running",
                                  ![p].id = nextDomainID,
                                  ![p].migration = "none"]
    /\ nextDomainID' = nextDomainID + 1
    /\ UNCHANGED <<hostVars, preparing>>

\* Mutant: removes the domain from every host.
MigrateConfirmEverywhere(p) ==
    /\ domains[p].migration = "performing"
    /\ domains' = Restrict(domains, {q \in DOMAIN domains : q[2] # p[2]})
    /\ UNCHANGED <<hostVars, nextDomainID, preparing>>

MigrateConfirm(p) ==
    /\ domains[p].migration = "performing"
    /\ domains' = Drop(domains, p)
    /\ UNCHANGED <<hostVars, nextDomainID, preparing>>

-----------------------------------------------------------------------------
ManagementCall ==
    \/ \E c \in HttpCalls :
           \/ (CreateHostCall(c) \/ StopAll(c)) /\ UNCHANGED domainVars
           \/ RemoveHostAndDomains(c)
           \/ Reset(c)
    \/ \E h \in Hosts : UpdateHostCall(h) /\ UNCHANGED domainVars

LifecycleCall ==
    \E p \in DOMAIN domains :
        \/ StartDomain(p)
        \/ DestroyDomain(p)
        \/ ShutdownDomain(p)
        \/ SuspendDomain(p)
        \/ ResumeDomain(p)

DefinitionCall ==
    \/ \E h \in Hosts, u \in Uuids, f \in Flavors : DefineDomain(h, u, f)
    \/ \E p \in DOMAIN domains : UndefineDomain(p)

MigrationCall ==
    \/ \E c \in RpcCalls, h \in Hosts, p \in DOMAIN domains :
           PrepareLookup(c, h, p)
    \/ \E c \in DOMAIN preparing : MigratePrepare(c) \/ PrepareRefused(c)
    \/ \E p \in DOMAIN domains :
           MigratePerform(p) \/ MigrateFinish(p) \/ MigrateConfirm(p)

Next == ManagementCall \/ LifecycleCall \/ DefinitionCall \/ MigrationCall

Spec == Init /\ [][Next]_vars

-----------------------------------------------------------------------------
(* Properties.                                                             *)

\* Every table of the simulator holds records of the declared types, and a
\* domain belongs to a registered host.
TypeOK ==
    /\ HostsTypeOK
    /\ IsMap(domains, Places, Domain)
    /\ \A p \in DOMAIN domains : p[1] \in DOMAIN hosts
    /\ nextDomainID \in Nat
    /\ IsMap(preparing, RpcCalls, Preparation)

\* A domain id names one domain: two domains with an id, on whatever hosts,
\* have different ids, and no id will be handed out a second time.
IdsDistinct ==
    /\ \A p \in DOMAIN domains : domains[p].id < nextDomainID
    /\ \A p, q \in DOMAIN domains :
          domains[p].id = domains[q].id /\ domains[p].id # -1 => p = q

\* libvirt gives an id exactly to the domains that are active.  It holds of
\* every domain that is not a placeholder, so of every domain that can be
\* performed away or confirmed; a placeholder gets its id from Finish.
IdsShowActivity ==
    \A p \in DOMAIN domains :
        domains[p].migration # "prepared" => (domains[p].id # -1 <=> Active(p))
=============================================================================
