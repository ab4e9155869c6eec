-------------------------- MODULE LibvirtMigration --------------------------
(***************************************************************************)
(* libvirt-sim together with the clients that migrate domains over it.     *)
(* A migration client drives the four phases of the protocol in order      *)
(* (docs/spec/03-libvirt-sim.md 3.5.1, and the migration tests of          *)
(* rpc/handlers_migration_test.go): Prepare, Perform, Finish, Confirm.     *)
(* When a phase is refused it rolls back or gives up, and it may crash     *)
(* between any two phases.                                                 *)
(*                                                                         *)
(* The simulator checks only what the single phase needs, so what holds of *)
(* a migration as a whole depends on this order; the other clients manage  *)
(* hosts and domains meanwhile.                                            *)
(***************************************************************************)
EXTENDS LibvirtSim

VARIABLE client   \* the migrations under way: UUID -> Migration

Migration == [src : Hosts, dest : Hosts, call : RpcCalls,
              pc : {"prepare", "perform", "finish", "confirm",
                    "destroy", "undefine"}]

mvars == <<vars, client>>

Source(u) == <<client[u].src, u>>
Dest(u) == <<client[u].dest, u>>

\* The hosts that have an entry for a domain, those where the entry is more
\* than a placeholder, those where such a copy is active, marked or not, and
\* those where the entry has no mark of a migration.
Where(u) == {h \in Hosts : <<h, u>> \in DOMAIN domains}

Copies(u) == {h \in Where(u) : domains[<<h, u>>].migration # "prepared"}

Running(u) == {h \in Copies(u) : Active(<<h, u>>)}

Unmarked(u) == {h \in Where(u) : domains[<<h, u>>].migration = "none"}

\* The host is registered and no call that registers it is in progress:
\* clients wait for that before they connect.
Ready(h) ==
    /\ h \in DOMAIN hosts
    /\ \A c \in DOMAIN creating : creating[c].host # h

MigrationInit == Init /\ client = EmptyMap

-----------------------------------------------------------------------------
(* A migration client.                                                     *)

Goto(u, pc) == client' = [client EXCEPT ![u].pc = pc]

Done(u) == client' = Drop(client, u)

Begin(u, src, dest, c) ==
    /\ u \notin DOMAIN client
    /\ src \in Where(u) /\ dest # src /\ Ready(dest)
    /\ \E h \in Where(u) : PrepareLookup(c, dest, <<h, u>>)
    /\ client' = Put(client, u, [src |-> src, dest |-> dest, call |-> c,
                                 pc |-> "prepare"])

\* The reply to a Prepare call reaches the client that waits for it, if any.
Waits(u, c) == /\ u \in DOMAIN client
               /\ client[u].pc = "prepare" /\ client[u].call = c

Prepared(c) ==
    LET u == preparing[c].uuid
    IN  /\ MigratePrepare(c)
        /\ IF Waits(u, c) THEN Goto(u, "perform") ELSE UNCHANGED client

Refused(c) ==
    LET u == preparing[c].uuid
    IN  /\ PrepareRefused(c)
        /\ IF Waits(u, c) THEN Done(u) ELSE UNCHANGED client

\* The simulator answers a phase with an error and changes nothing.
Performable(p) == /\ p \in DOMAIN domains
                  /\ domains[p].state = "running"
                  /\ domains[p].migration = "none"

InPhase(p, phase) == p \in DOMAIN domains /\ domains[p].migration = phase

Perform(u) ==
    /\ client[u].pc = "perform"
    /\ \/ /\ Performable(Source(u))
          /\ MigratePerform(Source(u))
          /\ Goto(u, "finish")
       \/ /\ ~Performable(Source(u))
          /\ Goto(u, "destroy")
          /\ UNCHANGED vars

Finish(u) ==
    /\ client[u].pc = "finish"
    /\ \/ /\ InPhase(Dest(u), "prepared")
          /\ MigrateFinish(Dest(u))
          /\ Goto(u, "confirm")
       \/ /\ ~InPhase(Dest(u), "prepared")
          /\ Done(u)
          /\ UNCHANGED vars

Confirm(u) ==
    /\ client[u].pc = "confirm"
    /\ Done(u)
    /\ \/ InPhase(Source(u), "performing") /\ MigrateConfirm(Source(u))
       \/ ~InPhase(Source(u), "performing") /\ UNCHANGED vars

\* Roll back: destroy and undefine the placeholder.
RollBack(u) ==
    \/ /\ client[u].pc = "destroy"
       /\ Goto(u, "undefine")
       /\ IF InPhase(Dest(u), "prepared") /\ Active(Dest(u))
          THEN DestroyDomain(Dest(u))
          ELSE UNCHANGED vars
    \/ /\ client[u].pc = "undefine"
       /\ Done(u)
       /\ IF InPhase(Dest(u), "prepared") /\ ~Active(Dest(u))
          THEN UndefineDomain(Dest(u))
          ELSE UNCHANGED vars

Crash(u) == Done(u) /\ UNCHANGED vars

\* A client that goes through with what it has begun, and one that may crash.
SteadyClient ==
    \/ \E u \in Uuids, src \in Hosts, dest \in Hosts, c \in RpcCalls :
           Begin(u, src, dest, c)
    \/ \E c \in DOMAIN preparing : Prepared(c) \/ Refused(c)
    \/ \E u \in DOMAIN client :
           Perform(u) \/ Finish(u) \/ Confirm(u) \/ RollBack(u)

MigrationClient == SteadyClient \/ \E u \in DOMAIN client : Crash(u)

-----------------------------------------------------------------------------
(* The other clients.  A UUID is defined once, and neither defined nor     *)
(* undefined while it is migrated; the overcommit ratios stay as they are. *)

OtherDefinitions ==
    /\ \/ \E h \in Hosts, u \in Uuids \ DOMAIN client, f \in Flavors :
              Ready(h) /\ Where(u) = {} /\ DefineDomain(h, u, f)
       \/ \E p \in DOMAIN domains :
              p[2] \notin DOMAIN client /\ UndefineDomain(p)
    /\ UNCHANGED client

OtherManagement ==
    /\ \/ \E c \in HttpCalls :
              \/ (CreateHostCall(c) \/ StopAll(c)) /\ UNCHANGED domainVars
              \/ RemoveHostAndDomains(c)
              \/ Reset(c)
       \/ \E h \in Hosts, st \in StateInputs :
              UpdateHostState(h, st) /\ UNCHANGED domainVars
    /\ UNCHANGED client

\* Starts, stops, suspends and resumes domains, but leaves placeholders be.
OtherLifecycle ==
    /\ \E p \in DOMAIN domains :
          /\ domains[p].migration # "prepared"
          /\ \/ StartDomain(p)
             \/ DestroyDomain(p)
             \/ ShutdownDomain(p)
             \/ SuspendDomain(p)
             \/ ResumeDomain(p)
    /\ UNCHANGED client

Others == OtherDefinitions \/ OtherManagement \/ OtherLifecycle

MigrationNext == MigrationClient \/ Others

MigrationSpec == MigrationInit /\ [][MigrationNext]_mvars

\* The same with migration clients that do not crash.
SteadySpec == MigrationInit /\ [][SteadyClient \/ Others]_mvars

\* The same, with clients that treat a placeholder like any other domain.
MeddlingNext ==
    \/ MigrationClient
    \/ OtherDefinitions
    \/ OtherManagement
    \/ LifecycleCall /\ UNCHANGED client

MeddlingSpec == MigrationInit /\ [][MeddlingNext]_mvars

-----------------------------------------------------------------------------
(* Properties.                                                             *)

\* At most one entry of a domain is without a mark, whatever client crashes,
\* whichever prepares overlap and whatever others do to the source.  Only
\* such an entry can be migrated (MigratePerform), so a domain is never
\* handed on from two hosts.  It does not say that the domain runs once: a
\* marked source keeps running, and StartDomain starts it whatever its mark.
OneUnmarked ==
    \A u \in Uuids : \A h, k \in Unmarked(u) : h = k

\* A domain runs on one host, except between Finish and Confirm of its
\* migration: MigrateConfirm removes the source "after successful migration",
\* and a source marked as performing has a "migration in progress"
\* (libvirt-sim/internal/state/domain.go).  Others may destroy the source and
\* start it again in any phase.
RunsOnce ==
    \A u \in Uuids :
        (u \in DOMAIN client => client[u].pc # "confirm") =>
            \A h, k \in Running(u) : h = k

\* No phase of a migration takes the last copy of a domain away: while a
\* client migrates it, it stays on some host, and as more than a
\* placeholder, unless a reset removes the hosts.
NeverLost ==
    [][\A u \in DOMAIN client :
           Copies(u) # {} /\ DOMAIN hosts' = DOMAIN hosts =>
               \E h \in Hosts : /\ <<h, u>> \in DOMAIN domains'
                                /\ domains'[<<h, u>>].migration # "prepared"
      ]_mvars

\* No host runs more than it may, from the reservation of Prepare until the
\* domain runs on the destination.
CapacityHeld ==
    \A h \in DOMAIN hosts : /\ UsedVCPUs(h) <= AvailableVCPUs(h)
                            /\ UsedMemoryMB(h) <= AvailableMemoryMB(h)
=============================================================================
