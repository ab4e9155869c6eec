------------------------------- MODULE Datagen -------------------------------
(***************************************************************************)
(* The environment generator (common/pkg/datagen/datagen.go) and the walk  *)
(* with which the launcher puts the generated hosts into netbox-sim        *)
(* (cmd/cirrus-sim/seed.go).                                               *)
(*                                                                         *)
(* Generate holds Generator.mu only to set the status and to publish the   *)
(* result, so calls overlap with each other and with resets.               *)
(***************************************************************************)
EXTENDS Integers, FiniteSets, SequencesExt, Maps

CONSTANTS
    Environments,  \* environment definitions, see Environment
    BasePort,      \* first libvirt port
    Generations    \* slots for Generate calls

VARIABLES
    genStatus,     \* Generator.status
    genResult,     \* Generator.result: {} or the set of the one result
    generations    \* Generate calls

datagenVars == <<genStatus, genResult, generations>>

-----------------------------------------------------------------------------
(***************************************************************************)
(* An environment is a sequence of sites, each with its numbers of rows,   *)
(* racks in a row and hosts in a rack (a negative number loops as 0 does), *)
(* and whether its host template is defined; templates, backends and       *)
(* clusters are copied as they are.                                        *)
(***************************************************************************)
Environment == Seq([rows : Nat, racks : Nat, hosts : Nat, known : BOOLEAN])

ASSUME DatagenAssumption == /\ Environments \subseteq Environment
                            /\ BasePort \in Int

Place(s, row, rack) == [site |-> s, row |-> row, rack |-> rack]

\* The places of the hosts in the order of the four nested loops.
RackHosts(env, s, row, rack) == [h \in 1..env[s].hosts |-> Place(s, row, rack)]

RowHosts(env, s, row) ==
    FlattenSeq([rack \in 1..env[s].racks |-> RackHosts(env, s, row, rack)])

SiteHosts(env, s) ==
    FlattenSeq([row \in 1..env[s].rows |-> RowHosts(env, s, row)])

HostWalk(env) == FlattenSeq([s \in 1..Len(env) |-> SiteHosts(env, s)])

\* Mutant: numbers the hosts of each site from 1.
GeneratedHostsPerSite(env) ==
    LET places == HostWalk(env)
        before(i) == {j \in 1..(i - 1) : places[j].site # places[i].site}
    IN [i \in 1..Len(places) |->
           [id |-> i, at |-> places[i],
            port |-> BasePort + i - 1 - Cardinality(before(i))]]

\* The hosts: the k-th one has number k and the k-th port.
GeneratedHosts(env) ==
    LET places == HostWalk(env)
    IN [i \in 1..Len(places) |->
           [id |-> i, at |-> places[i], port |-> BasePort + i - 1]]

-----------------------------------------------------------------------------
DatagenInit ==
    /\ genStatus = "idle"
    /\ genResult = {}
    /\ generations = EmptyMap

Generate(g, env) ==
    /\ g \notin DOMAIN generations
    /\ genStatus' = "running"
    /\ generations' = Put(generations, g, env)
    /\ UNCHANGED genResult

\* A definition that does not parse, or names a template it does not define.
GenerateFails(g) ==
    /\ g \in DOMAIN generations
    /\ \E s \in 1..Len(generations[g]) : ~generations[g][s].known
    /\ genStatus' = "failed"
    /\ generations' = Drop(generations, g)
    /\ UNCHANGED genResult

GenerateEnds(g) ==
    /\ g \in DOMAIN generations
    /\ \A s \in 1..Len(generations[g]) : generations[g][s].known
    /\ genStatus' = "completed"
    /\ genResult' = {[env |-> generations[g],
                      hosts |-> GeneratedHosts(generations[g])]}
    /\ generations' = Drop(generations, g)

\* Mutant: the result stays.
DatagenResetStatus ==
    /\ genStatus' = "idle"
    /\ UNCHANGED <<genResult, generations>>

\* A call in progress is not told and publishes its result later.
DatagenReset ==
    /\ genStatus' = "idle"
    /\ genResult' = {}
    /\ UNCHANGED generations

DatagenNext ==
    \/ \E g \in Generations :
        \/ \E env \in Environments : Generate(g, env)
        \/ GenerateFails(g) \/ GenerateEnds(g)
    \/ DatagenReset

DatagenSpec == DatagenInit /\ [][DatagenNext]_datagenVars

-----------------------------------------------------------------------------
(***************************************************************************)
(* What seedNetboxTopology adds to netbox-sim, in its order: it walks the  *)
(* environment a second time and gives the k-th device the k-th host.  Its *)
(* way out when it has no host left is never taken, as HostsExact says.    *)
(***************************************************************************)
SeedRack(env, s, row, rack) ==
    <<[kind |-> "rack", at |-> Place(s, row, rack)]>> \o
    [h \in 1..env[s].hosts |-> [kind |-> "device", at |-> Place(s, row, rack)]]

SeedRow(env, s, row) ==
    <<[kind |-> "location", at |-> Place(s, row, 0)]>> \o
    FlattenSeq([rack \in 1..env[s].racks |-> SeedRack(env, s, row, rack)])

SeedSite(env, s) ==
    <<[kind |-> "site", at |-> Place(s, 0, 0)]>> \o
    FlattenSeq([row \in 1..env[s].rows |-> SeedRow(env, s, row)])

SeedWalk(env) == FlattenSeq([s \in 1..Len(env) |-> SeedSite(env, s)])

\* The devices of such a walk, in its order.
Devices(walk) ==
    LET Found[i \in 0..Len(walk)] ==
            IF i = 0 THEN <<>>
            ELSE IF walk[i].kind = "device" THEN Append(Found[i - 1], walk[i])
            ELSE Found[i - 1]
    IN Found[Len(walk)]

\* The same as a request of NetboxSim, whose parts name by its position what
\* they are nested in.
SeedRequest(env) ==
    LET walk == SeedWalk(env)
        Position(kind, at) ==
            CHOOSE i \in 1..Len(walk) : walk[i] = [kind |-> kind, at |-> at]
    IN [i \in 1..Len(walk) |->
           LET kind == walk[i].kind
               at   == walk[i].at
           IN [kind |-> kind,
               site |-> IF kind = "site" THEN 0
                        ELSE Position("site", Place(at.site, 0, 0)),
               location |-> IF kind \in {"site", "location"} THEN 0
                            ELSE Position("location", Place(at.site, at.row, 0)),
               rack |-> IF kind = "device" THEN Position("rack", at) ELSE 0,
               role |-> IF kind = "device" THEN "server" ELSE ""]]

-----------------------------------------------------------------------------
(* Properties.                                                             *)

\* The number of the h-th host of a rack, by arithmetic.
HostIndex(env, at, h) ==
    LET size(s) == env[s].rows * env[s].racks * env[s].hosts
    IN SumFunction([s \in 1..(at.site - 1) |-> size(s)])
       + ((at.row - 1) * env[at.site].racks + at.rack - 1) * env[at.site].hosts
       + h

\* Every slot of every rack has a host, numbered and given a port by its
\* place; no host is left over, so no two share a number or a port; and the
\* launcher's own walk puts each of them into the rack it was generated for.
HostsExact ==
    \A r \in genResult :
        LET env == r.env
            seeded == Devices(SeedWalk(env))
        IN /\ \A s \in 1..Len(env) : \A row \in 1..env[s].rows :
              \A rack \in 1..env[s].racks : \A h \in 1..env[s].hosts :
                  LET k == HostIndex(env, Place(s, row, rack), h)
                  IN /\ k \in DOMAIN r.hosts
                     /\ r.hosts[k] = [id |-> k, at |-> Place(s, row, rack),
                                      port |-> BasePort + k - 1]
           /\ Len(r.hosts) = SumFunction([s \in 1..Len(env) |->
                                 env[s].rows * env[s].racks * env[s].hosts])
           /\ Len(seeded) = Len(r.hosts)
           /\ \A k \in 1..Len(seeded) : seeded[k].at = r.hosts[k].at

\* The status a client polls is honest about overlapping calls and resets:
\* "running" only while a call is in progress, so that it comes to an end,
\* "completed" only with a result, and "idle" only without one.
StatusHonest ==
    /\ genStatus \in {"idle", "running", "failed", "completed"}
    /\ genStatus = "running" => DOMAIN generations # {}
    /\ genStatus = "completed" => genResult # {}
    /\ genStatus = "idle" => genResult = {}
=============================================================================
