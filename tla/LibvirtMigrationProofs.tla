----------------------- MODULE LibvirtMigrationProofs -----------------------
(***************************************************************************)
(* Live migration in libvirt-sim, for every set of hosts, domains and      *)
(* clients.  Whichever clients crash, at most one entry of a domain is     *)
(* without a mark, no phase of a migration takes the last copy away, and   *)
(* no host runs more than it may.  If none crashes, a domain runs on one   *)
(* host, except between Finish and Confirm.                                *)
(***************************************************************************)
EXTENDS LibvirtMigration, LibvirtProofs

ClientsOK ==
    /\ IsMap(client, Uuids, Migration)
    /\ \A u \in DOMAIN client : client[u].src # client[u].dest

\* A domain is unmarked on one host at most, and on none while its client is
\* about to finish it: only the source was, and Perform has marked that.
OneSettled ==
    /\ \A u \in Uuids : \A h, k \in Unmarked(u) : h = k
    /\ \A u \in DOMAIN client : client[u].pc = "finish" => Unmarked(u) = {}

\* While the source has the domain, no call is about to remove the
\* destination, and once Finish has succeeded the destination has it, too.
DestinationSafe ==
    \A u \in DOMAIN client :
        client[u].src \in Copies(u) =>
            /\ Ready(client[u].dest)
            /\ client[u].pc = "confirm" => client[u].dest \in Copies(u)

MigrationInv == TypeOK /\ ClientsOK /\ OneSettled /\ DestinationSafe

-----------------------------------------------------------------------------
(* Types: a migration client only sends requests that LibvirtSim allows.   *)

\* Every step of the composition is a step of libvirt-sim, or none.
LEMMA MigrationIsNext == [MigrationNext]_mvars => [Next]_vars
<1> SUFFICES ASSUME [MigrationNext]_mvars PROVE [Next]_vars
    OBVIOUS
<1>1. CASE UNCHANGED mvars
  BY <1>1 DEF mvars
<1>2. CASE OtherDefinitions
  BY <1>2 DEF OtherDefinitions, Next, DefinitionCall
<1>3. CASE OtherManagement
  BY <1>3 DEF OtherManagement, Next, ManagementCall, UpdateHostCall
<1>4. CASE OtherLifecycle
  BY <1>4 DEF OtherLifecycle, Next, LifecycleCall
<1>5. ASSUME NEW u \in Uuids, NEW src \in Hosts, NEW dest \in Hosts,
             NEW c \in RpcCalls, Begin(u, src, dest, c)
      PROVE  Next
  BY <1>5 DEF Begin, Where, Next, MigrationCall
<1>6. ASSUME NEW c \in DOMAIN preparing, Prepared(c) \/ Refused(c) PROVE Next
  BY <1>6 DEF Prepared, Refused, Next, MigrationCall
<1>7. ASSUME NEW u \in DOMAIN client,
             Perform(u) \/ Finish(u) \/ Confirm(u) \/ RollBack(u) \/ Crash(u)
      PROVE  [Next]_vars
  <2>1. CASE Perform(u)
    BY <2>1 DEF Perform, Performable, Next, MigrationCall
  <2>2. CASE Finish(u)
    BY <2>2 DEF Finish, InPhase, Next, MigrationCall
  <2>3. CASE Confirm(u)
    BY <2>3 DEF Confirm, InPhase, Next, MigrationCall
  <2>4. CASE RollBack(u)
    BY <2>4 DEF RollBack, InPhase, Next, LifecycleCall, DefinitionCall
  <2>5. CASE Crash(u)
    BY <2>5 DEF Crash
  <2> QED BY <1>7, <2>1, <2>2, <2>3, <2>4, <2>5
<1> QED BY <1>1, <1>2, <1>3, <1>4, <1>5, <1>6, <1>7
        DEF MigrationNext, MigrationClient, SteadyClient, Others

\* So whatever is proved of libvirt-sim holds under migration clients.
THEOREM MigrationImplementsSim == MigrationSpec => Spec
<1>1. MigrationInit => Init
  BY DEF MigrationInit
<1> QED BY <1>1, MigrationIsNext, PTL DEF MigrationSpec, Spec

-----------------------------------------------------------------------------
(***************************************************************************)
(* What one step does to the phases of the domains.                        *)
(***************************************************************************)
SamePhases ==
    /\ DOMAIN domains' = DOMAIN domains
    /\ \A p \in DOMAIN domains : domains'[p].migration = domains[p].migration

\* p comes, or changes, to a phase; the others stay in theirs.
Enters(p, phase) ==
    /\ DOMAIN domains' = DOMAIN domains \cup {p}
    /\ domains'[p].migration = phase
    /\ \A q \in DOMAIN domains \ {p} :
          domains'[q].migration = domains[q].migration

\* The domains of D go; the others stay in their phases.
Leave(D) ==
    /\ DOMAIN domains' = DOMAIN domains \ D
    /\ \A q \in DOMAIN domains \ D :
          domains'[q].migration = domains[q].migration

\* No client comes, turns to other hosts or enters one of the last phases.
ClientsQuiet ==
    \A u \in DOMAIN client' :
        /\ u \in DOMAIN client
        /\ client'[u].src = client[u].src /\ client'[u].dest = client[u].dest
        /\ client'[u].pc \in {"finish", "confirm"} =>
              client'[u].pc = client[u].pc

\* One client goes on to the next phase.
GoesTo(u, pc) ==
    /\ DOMAIN client' = DOMAIN client
    /\ client'[u].pc = pc
    /\ \A v \in DOMAIN client :
          /\ client'[v].src = client[v].src /\ client'[v].dest = client[v].dest
          /\ v # u => client'[v].pc = client[v].pc

\* The calls on a domain that leave it in its phase.
LEMMA LifecycleKeepsPhases ==
    ASSUME TypeOK, NEW p \in DOMAIN domains,
           \/ StartDomain(p) \/ DestroyDomain(p) \/ ShutdownDomain(p)
           \/ SuspendDomain(p) \/ ResumeDomain(p)
    PROVE  SamePhases
<1>1. domains[p] \in Domain
  BY MapValue DEF TypeOK
<1>3. CASE StartDomain(p)
  BY <1>1, <1>3 DEF StartDomain, SamePhases, Domain
<1>4. CASE DestroyDomain(p) \/ ShutdownDomain(p)
  BY <1>1, <1>4 DEF DestroyDomain, ShutdownDomain, SamePhases, Domain
<1>5. CASE SuspendDomain(p) \/ ResumeDomain(p)
  BY <1>1, <1>5 DEF SuspendDomain, ResumeDomain, SamePhases, Domain
<1> QED BY <1>3, <1>4, <1>5

\* A client that goes on, and one that ends.
LEMMA ClientMoves ==
    ASSUME ClientsOK, NEW u \in DOMAIN client
    PROVE  /\ \A pc : Goto(u, pc) => GoesTo(u, pc)
           /\ \A pc : Goto(u, pc) /\ pc \notin {"finish", "confirm"} =>
                         ClientsQuiet
           /\ Done(u) => ClientsQuiet /\ DOMAIN client' = DOMAIN client \ {u}
           /\ UNCHANGED client => ClientsQuiet
<1>1. \A v \in DOMAIN client : client[v] \in Migration
  BY MapValue DEF ClientsOK
<1>2. \A pc : Goto(u, pc) => GoesTo(u, pc)
  BY <1>1 DEF Goto, GoesTo, Migration
<1>3. ASSUME NEW pc, GoesTo(u, pc), pc \notin {"finish", "confirm"}
      PROVE  ClientsQuiet
  BY <1>3 DEF GoesTo, ClientsQuiet
<1>4. Done(u) => ClientsQuiet /\ DOMAIN client' = DOMAIN client \ {u}
  BY DEF Done, Drop, Restrict, ClientsQuiet
<1>5. UNCHANGED client => ClientsQuiet
  BY DEF ClientsQuiet
<1> QED BY <1>2, <1>3, <1>4, <1>5

\* A step that only removes domains: which, and why it may.
Removal ==
    /\ ClientsQuiet
    /\ \/ \E p : /\ Leave({p}) /\ p[2] \notin DOMAIN client'
                 /\ \/ p[2] \notin DOMAIN client
                    \/ domains[p].migration = "prepared"
                    \/ /\ client[p[2]].pc = "confirm" /\ p = Source(p[2])
                       /\ domains[p].migration = "performing"
       \/ \E h : /\ Leave({p \in DOMAIN domains : p[1] = h})
                 /\ h \notin DOMAIN hosts' /\ ~Ready(h)
       \/ DOMAIN domains' = {} /\ DOMAIN hosts' = {}

\* A migration begins, or goes through one of its middle phases.
Beginning ==
    /\ SamePhases /\ UNCHANGED hostVars
    /\ \E u \in Uuids, r \in Migration :
          /\ u \notin DOMAIN client /\ client' = Put(client, u, r)
          /\ r.src # r.dest /\ r.pc = "prepare" /\ Ready(r.dest)

Performing(u) ==
    /\ client[u].pc = "perform" /\ Source(u) \in DOMAIN domains
    /\ domains[Source(u)].migration = "none"
    /\ Enters(Source(u), "performing") /\ GoesTo(u, "finish")
    /\ UNCHANGED hostVars

Finishing(u) ==
    /\ client[u].pc = "finish" /\ Dest(u) \in DOMAIN domains
    /\ domains[Dest(u)].migration = "prepared"
    /\ Enters(Dest(u), "none") /\ GoesTo(u, "confirm")
    /\ UNCHANGED hostVars

\* A new domain, and a placeholder.
Defining ==
    /\ UNCHANGED <<hostVars, client>>
    /\ \E h \in Hosts, u \in Uuids \ DOMAIN client :
          Where(u) = {} /\ Enters(<<h, u>>, "none")

Reserving ==
    /\ ClientsQuiet /\ UNCHANGED hostVars
    /\ \E p : p \notin DOMAIN domains /\ Enters(p, "prepared")

\* A step that moves no domain; the hosts may change.
Still == ClientsQuiet /\ SamePhases

\* Deleting one domain.
LEMMA DropLeaves == ASSUME NEW p, domains' = Drop(domains, p) PROVE Leave({p})
  BY DEF Drop, Restrict, Leave

\* The phases and the ends of the migration clients.
LEMMA ClientShapes ==
    ASSUME MigrationInv, NEW u \in DOMAIN client,
           Perform(u) \/ Finish(u) \/ Confirm(u) \/ RollBack(u) \/ Crash(u)
    PROVE  Still \/ Removal \/ Performing(u) \/ Finishing(u)
<1> USE DEF MigrationInv
<1>0. UNCHANGED vars => SamePhases
  BY DEF vars, domainVars, SamePhases
<1>d. \A p \in DOMAIN domains : domains[p] \in Domain
  BY MapValue DEF TypeOK
<1>1. CASE Perform(u)
  <2>1. CASE MigratePerform(Source(u)) /\ Performable(Source(u))
    <3>1. Enters(Source(u), "performing")
      BY <1>d, <2>1 DEF MigratePerform, Performable, Enters, Domain
    <3> QED BY <1>1, <2>1, <3>1, ClientMoves
            DEF Perform, Performable, MigratePerform, Performing
  <2>2. CASE Goto(u, "destroy") /\ UNCHANGED vars
    BY <1>0, <2>2, ClientMoves DEF Still
  <2> QED BY <1>1, <2>1, <2>2 DEF Perform
<1>2. CASE Finish(u)
  <2>1. CASE MigrateFinish(Dest(u)) /\ InPhase(Dest(u), "prepared")
    <3>1. Enters(Dest(u), "none")
      BY <1>d, <2>1 DEF MigrateFinish, InPhase, Enters, Domain
    <3> QED BY <1>2, <2>1, <3>1, ClientMoves
            DEF Finish, InPhase, MigrateFinish, Finishing
  <2>2. CASE Done(u) /\ UNCHANGED vars
    BY <1>0, <2>2, ClientMoves DEF Still
  <2> QED BY <1>2, <2>1, <2>2 DEF Finish
<1>3. CASE Confirm(u)
  <2>1. CASE MigrateConfirm(Source(u)) /\ InPhase(Source(u), "performing")
    <3>1. Leave({Source(u)}) /\ Source(u)[2] = u
      BY <2>1, DropLeaves DEF MigrateConfirm, Source
    <3> QED BY <1>3, <2>1, <3>1, ClientMoves
            DEF Confirm, MigrateConfirm, Removal
  <2>2. CASE Done(u) /\ UNCHANGED vars
    BY <1>0, <2>2, ClientMoves DEF Still
  <2> QED BY <1>3, <2>1, <2>2 DEF Confirm
<1>4. CASE RollBack(u)
  <2>1. CASE Goto(u, "undefine") /\ UNCHANGED vars
    BY <1>0, <2>1, ClientMoves DEF Still
  <2>2. CASE /\ Goto(u, "undefine") /\ InPhase(Dest(u), "prepared")
             /\ DestroyDomain(Dest(u))
    BY <2>2, ClientMoves, LifecycleKeepsPhases DEF InPhase, Still
  <2>3. CASE Done(u) /\ UNCHANGED vars
    BY <1>0, <2>3, ClientMoves DEF Still
  <2>4. CASE /\ Done(u) /\ InPhase(Dest(u), "prepared")
             /\ UndefineDomain(Dest(u))
    <3>1. Leave({Dest(u)}) /\ Dest(u)[2] = u
      BY <2>4, DropLeaves DEF UndefineDomain, Dest
    <3> QED BY <2>4, <3>1, ClientMoves DEF InPhase, Removal
  <2> QED BY <1>4, <2>1, <2>2, <2>3, <2>4 DEF RollBack
<1>5. CASE Crash(u)
  BY <1>0, <1>5, ClientMoves DEF Crash, Still
<1> QED BY <1>1, <1>2, <1>3, <1>4, <1>5

\* Every step has one of the shapes.
LEMMA MigrationShapes ==
    ASSUME MigrationInv, [MigrationNext]_mvars
    PROVE  \/ Still \/ Removal \/ Beginning \/ Reserving \/ Defining
           \/ \E u \in DOMAIN client : Performing(u) \/ Finishing(u)
<1> USE DEF MigrationInv
<1>0. UNCHANGED domains => SamePhases
  BY DEF SamePhases
<1>c. UNCHANGED client => ClientsQuiet
  BY DEF ClientsQuiet
<1>1. CASE UNCHANGED mvars
  BY <1>0, <1>c, <1>1 DEF mvars, vars, domainVars, Still
<1>2. ASSUME NEW u \in Uuids, NEW src \in Hosts, NEW dest \in Hosts,
             NEW c \in RpcCalls, Begin(u, src, dest, c)
      PROVE  Beginning
  <2> DEFINE r == [src |-> src, dest |-> dest, call |-> c, pc |-> "prepare"]
  <2>1. r \in Migration /\ r.src = src /\ r.dest = dest /\ r.pc = "prepare"
    BY DEF Migration
  <2>2. /\ u \notin DOMAIN client /\ client' = Put(client, u, r)
        /\ dest # src /\ Ready(dest)
    BY <1>2 DEF Begin
  <2>3. SamePhases /\ UNCHANGED hostVars
    BY <1>0, <1>2 DEF Begin, PrepareLookup
  <2> HIDE DEF r
  <2> QED BY <2>1, <2>2, <2>3 DEF Beginning
<1>3. ASSUME NEW c \in DOMAIN preparing, Prepared(c) PROVE Reserving
  <2> DEFINE call == preparing[c]
             p == <<call.host, call.uuid>>
  <2>1. MigratePrepare(c)
    BY <1>3 DEF Prepared
  <2>2. p \notin DOMAIN domains /\ UNCHANGED hostVars
    BY <2>1 DEF MigratePrepare, Accepts
  <2>3. Enters(p, "prepared")
    BY <2>1 DEF MigratePrepare, Enters, Put
  <2>4. ClientsQuiet
    <3>1. PICK u : u = call.uuid
      OBVIOUS
    <3>2. \/ u \in DOMAIN client /\ Goto(u, "perform")
          \/ UNCHANGED client
      BY <1>3, <3>1 DEF Prepared, Waits, Goto
    <3> QED BY <1>c, <3>2, ClientMoves
  <2> QED BY <2>2, <2>3, <2>4 DEF Reserving
<1>4. ASSUME NEW c \in DOMAIN preparing, Refused(c) PROVE Still
  BY <1>0, <1>4, <1>c, ClientMoves DEF Refused, PrepareRefused, Waits, Still
<1>5. CASE OtherDefinitions
  <2>1. ASSUME NEW h \in Hosts, NEW u \in Uuids \ DOMAIN client,
               NEW f \in Flavors, Where(u) = {}, DefineDomain(h, u, f)
        PROVE  Enters(<<h, u>>, "none") /\ UNCHANGED hostVars
    BY <2>1 DEF DefineDomain, Enters, Put
  <2>2. ASSUME NEW p \in DOMAIN domains, p[2] \notin DOMAIN client,
               UndefineDomain(p), UNCHANGED client
        PROVE  Removal
    BY <1>c, <2>2, DropLeaves DEF UndefineDomain, Removal
  <2> QED BY <1>5, <2>1, <2>2 DEF OtherDefinitions, Defining
<1>6. CASE OtherManagement
  <2>1. ASSUME NEW c \in HttpCalls, RemoveHostAndDomains(c) PROVE Removal
    <3> DEFINE h == creating[c].host
    <3>1. h \notin DOMAIN hosts' /\ ~Ready(h)
      BY <2>1 DEF RemoveHostAndDomains, RollbackCall, RemoveHost, Drop,
                  Restrict, Ready
    <3>2. Leave({p \in DOMAIN domains : p[1] = h})
      BY <2>1 DEF RemoveHostAndDomains, Restrict, Leave
    <3> QED BY <1>6, <1>c, <3>1, <3>2 DEF OtherManagement, Removal
  <2>2. ASSUME NEW c \in HttpCalls, Reset(c) PROVE Removal
    BY <1>6, <1>c, <2>2, EmptyIsMap
       DEF OtherManagement, Reset, ResetHosts, Removal
  <2>3. CASE UNCHANGED domainVars
    BY <1>0, <1>6, <1>c, <2>3 DEF OtherManagement, domainVars, Still
  <2> QED BY <1>6, <2>1, <2>2, <2>3 DEF OtherManagement
<1>7. CASE OtherLifecycle
  BY <1>7, <1>c, LifecycleKeepsPhases DEF OtherLifecycle, Still
<1>8. CASE MigrationClient
  BY <1>2, <1>3, <1>4, <1>8, ClientShapes DEF MigrationClient, SteadyClient
<1> QED BY <1>1, <1>5, <1>6, <1>7, <1>8 DEF MigrationNext, Others

-----------------------------------------------------------------------------
(* The invariant.                                                          *)

\* Every step keeps the clients' records well typed.
LEMMA ClientsStep == ClientsOK /\ [MigrationNext]_mvars => ClientsOK'
<1> SUFFICES ASSUME ClientsOK, [MigrationNext]_mvars PROVE ClientsOK'
    OBVIOUS
<1>1. ASSUME NEW u \in Uuids, NEW src \in Hosts, NEW dest \in Hosts,
             NEW c \in RpcCalls, Begin(u, src, dest, c)
      PROVE  ClientsOK'
  <2> DEFINE r == [src |-> src, dest |-> dest, call |-> c, pc |-> "prepare"]
  <2>1. r \in Migration /\ r.src # r.dest
    BY <1>1 DEF Begin, Migration
  <2>2. client' = Put(client, u, r)
    BY <1>1 DEF Begin
  <2> HIDE DEF r
  <2>3. IsMap(client, Uuids, Migration)
    BY DEF ClientsOK
  <2>4. /\ IsMap(client', Uuids, Migration)
        /\ DOMAIN client' = DOMAIN client \cup {u} /\ client'[u] = r
        /\ \A v \in DOMAIN client : v # u => client'[v] = client[v]
    BY <2>1, <2>2, <2>3, PutIsMap
  <2> QED BY <2>1, <2>4 DEF ClientsOK
<1>2. ASSUME NEW u \in DOMAIN client,
             NEW pc \in {"perform", "finish", "confirm", "destroy",
                         "undefine"}, Goto(u, pc)
      PROVE  ClientsOK'
  <2> DEFINE r == [client[u] EXCEPT !.pc = pc]
  <2>1. client[u] \in Migration
    BY MapValue DEF ClientsOK
  <2>2. r \in Migration /\ r.src = client[u].src /\ r.dest = client[u].dest
    BY <2>1 DEF Migration
  <2>3. client' = [client EXCEPT ![u] = r]
    BY <1>2 DEF Goto
  <2> HIDE DEF r
  <2>4. IsMap(client, Uuids, Migration)
    BY DEF ClientsOK
  <2>5. /\ IsMap(client', Uuids, Migration)
        /\ DOMAIN client' = DOMAIN client /\ client'[u] = r
        /\ \A v \in DOMAIN client : v # u => client'[v] = client[v]
    BY <2>2, <2>3, <2>4, UpdateIsMap
  <2> QED BY <2>2, <2>5 DEF ClientsOK
<1>3. ASSUME NEW u \in DOMAIN client, Done(u) PROVE ClientsOK'
  <2>1. IsMap(client, Uuids, Migration) /\ client' = Drop(client, u)
    BY <1>3 DEF Done, ClientsOK
  <2>2. /\ IsMap(client', Uuids, Migration)
        /\ DOMAIN client' = DOMAIN client \ {u}
        /\ \A v \in DOMAIN client \ {u} : client'[v] = client[v]
    BY <2>1 DEF Drop, Restrict, IsMap
  <2> QED BY <2>2 DEF ClientsOK
<1>4. CASE UNCHANGED client
  BY <1>4 DEF ClientsOK
<1>5. ASSUME NEW c \in DOMAIN preparing, Prepared(c) \/ Refused(c)
      PROVE  ClientsOK'
  BY <1>2, <1>3, <1>4, <1>5 DEF Prepared, Refused, Waits
<1>6. ASSUME NEW u \in DOMAIN client,
             Perform(u) \/ Finish(u) \/ Confirm(u) \/ RollBack(u) \/ Crash(u)
      PROVE  ClientsOK'
  BY <1>2, <1>3, <1>6 DEF Perform, Finish, Confirm, RollBack, Crash
<1>7. CASE MigrationClient
  BY <1>1, <1>5, <1>6, <1>7 DEF MigrationClient, SteadyClient
<1>8. CASE Others
  BY <1>4, <1>8 DEF Others, OtherDefinitions, OtherManagement, OtherLifecycle
<1> QED BY <1>4, <1>7, <1>8 DEF MigrationNext, mvars

\* Every step keeps a domain settled on one host at most.
LEMMA SettledStep ==
    MigrationInv /\ TypeOK' /\ [MigrationNext]_mvars => OneSettled'
<1> SUFFICES ASSUME MigrationInv, TypeOK', [MigrationNext]_mvars
             PROVE  OneSettled'
    OBVIOUS
<1>0. OneSettled /\ ClientsOK
  BY DEF MigrationInv
<1>t. \A u, h, v, k : <<h, u>> = <<k, v>> <=> h = k /\ u = v
  OBVIOUS
<1>s. /\ \A u, h : h \in Unmarked(u) <=>
              /\ h \in Hosts /\ <<h, u>> \in DOMAIN domains
              /\ domains[<<h, u>>].migration = "none"
      /\ \A u, h : h \in Unmarked(u)' <=>
              /\ h \in Hosts /\ <<h, u>> \in DOMAIN domains'
              /\ domains'[<<h, u>>].migration = "none"
  BY DEF Unmarked, Where
<1>1. ASSUME \A u : Unmarked(u)' \subseteq Unmarked(u),
             \A u \in DOMAIN client' : client'[u].pc = "finish" =>
                 u \in DOMAIN client /\ client[u].pc = "finish"
      PROVE  OneSettled'
  BY <1>0, <1>1 DEF OneSettled
<1>q. ClientsQuiet => \A u \in DOMAIN client' : client'[u].pc = "finish" =>
                         u \in DOMAIN client /\ client[u].pc = "finish"
  BY DEF ClientsQuiet
<1>2. CASE Still
  <2>1. \A u : Unmarked(u)' \subseteq Unmarked(u)
    BY <1>2, <1>s DEF Still, SamePhases
  <2> QED BY <1>1, <1>2, <1>q, <2>1 DEF Still
<1>3. CASE Removal
  <2>1. \A u : Unmarked(u)' \subseteq Unmarked(u)
    BY <1>3, <1>s DEF Removal, Leave
  <2> QED BY <1>1, <1>3, <1>q, <2>1 DEF Removal
<1>4. CASE Beginning
  <2>1. \A u : Unmarked(u)' \subseteq Unmarked(u)
    BY <1>4, <1>s DEF Beginning, SamePhases
  <2>2. \A u \in DOMAIN client' : client'[u].pc = "finish" =>
            u \in DOMAIN client /\ client[u].pc = "finish"
    BY <1>4 DEF Beginning, Put
  <2> QED BY <1>1, <2>1, <2>2
<1>5. CASE Reserving
  <2>1. \A u : Unmarked(u)' \subseteq Unmarked(u)
    BY <1>5, <1>s DEF Reserving, Enters
  <2> QED BY <1>1, <1>5, <1>q, <2>1 DEF Reserving
<1>6. CASE Defining
  <2>1. PICK h \in Hosts, u \in Uuids \ DOMAIN client :
            Where(u) = {} /\ Enters(<<h, u>>, "none")
    BY <1>6 DEF Defining
  <2>2. Unmarked(u)' \subseteq {h}
    <3> SUFFICES ASSUME NEW k \in Unmarked(u)', k # h PROVE FALSE
        OBVIOUS
    <3>1. k \in Hosts /\ <<k, u>> \in DOMAIN domains'
      BY <1>s
    <3>2. <<k, u>> \in DOMAIN domains
      BY <1>t, <2>1, <3>1 DEF Enters
    <3> QED BY <2>1, <3>1, <3>2 DEF Where
  <2>3. \A v : v # u => Unmarked(v)' \subseteq Unmarked(v)
    BY <1>s, <1>t, <2>1 DEF Enters
  <2>4. UNCHANGED client
    BY <1>6 DEF Defining
  <2> QED BY <1>0, <2>2, <2>3, <2>4 DEF OneSettled
<1>7. ASSUME NEW u \in DOMAIN client, Performing(u) PROVE OneSettled'
  <2>1. u \in Uuids /\ client[u].src \in Hosts
    <3>1. u \in Uuids /\ client[u] \in Migration
      BY <1>0, MapValue DEF ClientsOK
    <3> QED BY <3>1 DEF Migration
  <2>2. PICK h \in Hosts : h = client[u].src
    BY <2>1
  <2>3. /\ <<h, u>> \in DOMAIN domains /\ domains[<<h, u>>].migration = "none"
        /\ Enters(<<h, u>>, "performing") /\ GoesTo(u, "finish")
    BY <1>7, <2>2 DEF Performing, Source, Enters
  <2>4. /\ \A v : Unmarked(v)' \subseteq Unmarked(v)
        /\ h \notin Unmarked(u)'
    <3>1. ASSUME NEW v, NEW k \in Unmarked(v)'
          PROVE  k \in Unmarked(v) /\ (v = u => k # h)
      <4>1. k \in Hosts /\ <<k, v>> \in DOMAIN domains'
            /\ domains'[<<k, v>>].migration = "none"
        BY <1>s, <3>1
      <4>2. <<k, v>> # <<h, u>>
        BY <2>3, <4>1 DEF Enters
      <4>3. /\ <<k, v>> \in DOMAIN domains
            /\ domains[<<k, v>>].migration = "none"
        BY <2>3, <4>1, <4>2 DEF Enters
      <4> QED BY <1>s, <4>1, <4>2, <4>3
    <3> QED BY <3>1
  <2>5. Unmarked(u) = {h}
    BY <1>0, <1>s, <2>1, <2>3 DEF OneSettled
  <2>6. Unmarked(u)' = {}
    BY <2>4, <2>5
  <2> QED BY <1>0, <2>3, <2>4, <2>6 DEF OneSettled, GoesTo
<1>8. ASSUME NEW u \in DOMAIN client, Finishing(u) PROVE OneSettled'
  <2>1. PICK h : h = client[u].dest
    OBVIOUS
  <2>2. Enters(<<h, u>>, "none") /\ GoesTo(u, "confirm")
    BY <1>8, <2>1 DEF Finishing, Dest, Enters
  <2>3. Unmarked(u) = {}
    BY <1>0, <1>8 DEF OneSettled, Finishing
  <2>4. Unmarked(u)' \subseteq {h}
    <3> SUFFICES ASSUME NEW k \in Unmarked(u)', k # h PROVE FALSE
        OBVIOUS
    <3>1. /\ k \in Hosts /\ <<k, u>> \in DOMAIN domains'
          /\ domains'[<<k, u>>].migration = "none"
      BY <1>s
    <3>2. /\ <<k, u>> \in DOMAIN domains
          /\ domains[<<k, u>>].migration = "none"
      BY <1>t, <2>2, <3>1 DEF Enters
    <3> QED BY <1>s, <2>3, <3>1, <3>2
  <2>5. \A v : v # u => Unmarked(v)' \subseteq Unmarked(v)
    BY <1>s, <1>t, <2>2 DEF Enters
  <2> QED BY <1>0, <2>2, <2>4, <2>5 DEF OneSettled, GoesTo
<1> QED BY <1>2, <1>3, <1>4, <1>5, <1>6, <1>7, <1>8, MigrationShapes

\* A host that clients may use stays so until a reset removes them all.
LEMMA ReadyStep ==
    ASSUME HostsTypeOK, [HostsNext]_hostVars, NEW h, Ready(h)
    PROVE  Ready(h)' \/ DOMAIN hosts' = {}
<1>0. /\ h \in DOMAIN hosts
      /\ \A c \in DOMAIN creating : creating[c].host # h
  BY DEF Ready
<1>1. ASSUME NEW c \in HttpCalls, NEW k \in Hosts, NEW p \in Ports,
             NEW profile \in Profiles, NEW cpuRatio \in Ratios,
             NEW memRatio \in Ratios,
             AddHost(c, k, p, profile, cpuRatio, memRatio)
      PROVE  Ready(h)'
  <2>1. k # h /\ h \in DOMAIN hosts'
    BY <1>0, <1>1 DEF AddHost, Put
  <2>2. creating' = Put(creating, c, [host |-> k, port |-> p, pc |-> "listen"])
    BY <1>1 DEF AddHost
  <2> QED BY <1>0, <2>1, <2>2 DEF Put, Ready
<1>2. ASSUME NEW c \in DOMAIN creating, StartListener(c) PROVE Ready(h)'
  BY <1>0, <1>2 DEF StartListener, Drop, Restrict, Ready
<1>3. ASSUME NEW c \in DOMAIN creating, StartListenerFails(c) PROVE Ready(h)'
  <2>1. creating[c] \in Creation
    BY MapValue DEF HostsTypeOK
  <2>2. /\ DOMAIN creating' = DOMAIN creating
        /\ \A d \in DOMAIN creating : creating'[d].host = creating[d].host
    BY <1>3, <2>1 DEF StartListenerFails, Creation
  <2> QED BY <1>0, <1>3, <2>2 DEF StartListenerFails, Ready
<1>4. ASSUME NEW c \in HttpCalls, RollbackCall(c) PROVE Ready(h)'
  BY <1>0, <1>4 DEF RollbackCall, RemoveHost, Drop, Restrict, Ready
<1>5. ASSUME NEW c \in HttpCalls, StopAll(c) PROVE Ready(h)'
  BY <1>0, <1>5 DEF StopAll, Ready
<1>6. ASSUME NEW c \in HttpCalls, ResetHosts(c) PROVE DOMAIN hosts' = {}
  BY <1>6, EmptyIsMap DEF ResetHosts
<1>7. ASSUME NEW k \in Hosts, UpdateHostCall(k) PROVE Ready(h)'
  BY <1>0, <1>7, UpdateKeepsPorts DEF Ready
<1>8. CASE UNCHANGED hostVars
  BY <1>0, <1>8 DEF hostVars, Ready
<1> QED BY <1>1, <1>2, <1>3, <1>4, <1>5, <1>6, <1>7, <1>8
        DEF HostsNext, CreateHostCall

\* The copies of a domain, place by place.
LEMMA CopyPlaces ==
    /\ \A u, h : h \in Copies(u) <=>
          /\ h \in Hosts /\ <<h, u>> \in DOMAIN domains
          /\ domains[<<h, u>>].migration # "prepared"
    /\ \A u, h : h \in Copies(u)' <=>
          /\ h \in Hosts /\ <<h, u>> \in DOMAIN domains'
          /\ domains'[<<h, u>>].migration # "prepared"
  BY DEF Copies, Where

\* What becomes of the copies of a domain under migration.  Only Finish makes
\* one, and only Confirm, a rollback of a host creation or a reset takes one.
LEMMA CopiesStep ==
    ASSUME MigrationInv, [MigrationNext]_mvars, NEW u \in DOMAIN client
    PROVE  /\ \A h \in Copies(u)' : \/ h \in Copies(u)
                                    \/ h = client[u].dest /\ Finishing(u)
           /\ \A h \in Copies(u) :
                 \/ h \in Copies(u)'
                 \/ h \notin DOMAIN hosts' /\ ~Ready(h)
                 \/ DOMAIN hosts' = {} /\ DOMAIN domains' = {}
                 \/ /\ client[u].pc = "confirm" /\ h = client[u].src
                    /\ u \notin DOMAIN client'
                    /\ client[u].dest \in Copies(u) =>
                          client[u].dest \in Copies(u)'
<1>t. \A h, v, k : <<h, u>> = <<k, v>> <=> h = k /\ u = v
  OBVIOUS
<1>c. ClientsOK
  BY DEF MigrationInv
<1>1. CASE Still
  BY <1>1, CopyPlaces DEF Still, SamePhases
<1>2. CASE Removal
  <2>1. CASE \E p : /\ Leave({p}) /\ p[2] \notin DOMAIN client'
                    /\ \/ p[2] \notin DOMAIN client
                       \/ domains[p].migration = "prepared"
                       \/ /\ client[p[2]].pc = "confirm" /\ p = Source(p[2])
                          /\ domains[p].migration = "performing"
    <3>1. PICK p : /\ Leave({p}) /\ p[2] \notin DOMAIN client'
                   /\ \/ p[2] \notin DOMAIN client
                      \/ domains[p].migration = "prepared"
                      \/ /\ client[p[2]].pc = "confirm" /\ p = Source(p[2])
                         /\ domains[p].migration = "performing"
      BY <2>1
    <3>2. \A h \in Copies(u)' : h \in Copies(u)
      BY <3>1, CopyPlaces DEF Leave
    <3>3. \A h \in Copies(u) : <<h, u>> # p => h \in Copies(u)'
      BY <3>1, CopyPlaces DEF Leave
    <3>4. ASSUME NEW h \in Copies(u), <<h, u>> = p
          PROVE  /\ client[u].pc = "confirm" /\ h = client[u].src
                 /\ u \notin DOMAIN client'
                 /\ client[u].dest \in Copies(u) => client[u].dest \in Copies(u)'
      <4>1. p[2] = u /\ domains[p].migration # "prepared"
        BY <3>4, CopyPlaces
      <4>2. client[u].pc = "confirm" /\ p = <<client[u].src, u>>
        BY <3>1, <4>1 DEF Source
      <4>3. h = client[u].src
        BY <3>4, <4>2
      <4>4. <<client[u].dest, u>> # p
        BY <1>c, <4>2 DEF ClientsOK
      <4> QED BY <3>1, <3>3, <4>1, <4>2, <4>3, <4>4
    <3> QED BY <3>2, <3>3, <3>4
  <2>2. CASE \E h : /\ Leave({p \in DOMAIN domains : p[1] = h})
                    /\ h \notin DOMAIN hosts' /\ ~Ready(h)
    <3>1. PICK h : /\ Leave({p \in DOMAIN domains : p[1] = h})
                   /\ h \notin DOMAIN hosts' /\ ~Ready(h)
      BY <2>2
    <3>2. \A k : <<k, u>>[1] = k
      OBVIOUS
    <3>3. \A k \in Copies(u)' : k \in Copies(u)
      BY <3>1, CopyPlaces DEF Leave
    <3>4. ASSUME NEW k \in Copies(u), k # h PROVE k \in Copies(u)'
      <4>1. /\ k \in Hosts /\ <<k, u>> \in DOMAIN domains
            /\ domains[<<k, u>>].migration # "prepared"
        BY CopyPlaces
      <4>2. <<k, u>> \in DOMAIN domains \ {p \in DOMAIN domains : p[1] = h}
        BY <3>2, <3>4, <4>1
      <4>3. /\ <<k, u>> \in DOMAIN domains'
            /\ domains'[<<k, u>>].migration = domains[<<k, u>>].migration
        BY <3>1, <4>2 DEF Leave
      <4> QED BY <4>1, <4>3, CopyPlaces
    <3> QED BY <3>1, <3>3, <3>4
  <2>3. CASE DOMAIN domains' = {} /\ DOMAIN hosts' = {}
    BY <2>3, CopyPlaces
  <2> QED BY <1>2, <2>1, <2>2, <2>3 DEF Removal
<1>3. CASE Beginning
  BY <1>3, CopyPlaces DEF Beginning, SamePhases
<1>e. ASSUME NEW p, NEW phase, Enters(p, phase), NEW h, <<h, u>> # p
      PROVE  h \in Copies(u)' <=> h \in Copies(u)
  <2>1. <<h, u>> \in DOMAIN domains' <=> <<h, u>> \in DOMAIN domains
    BY <1>e DEF Enters
  <2>2. <<h, u>> \in DOMAIN domains =>
            domains'[<<h, u>>].migration = domains[<<h, u>>].migration
    BY <1>e DEF Enters
  <2> QED BY <2>1, <2>2, CopyPlaces
<1>4. CASE Reserving
  <2>1. PICK p : p \notin DOMAIN domains /\ Enters(p, "prepared")
    BY <1>4 DEF Reserving
  <2>2. ASSUME NEW h PROVE h \in Copies(u)' <=> h \in Copies(u)
    <3>1. CASE <<h, u>> = p
      BY <2>1, <3>1, CopyPlaces DEF Enters
    <3> QED BY <1>e, <2>1, <3>1
  <2> QED BY <2>2
<1>5. CASE Defining
  <2>1. PICK k \in Hosts, v \in Uuids \ DOMAIN client :
            Enters(<<k, v>>, "none")
    BY <1>5 DEF Defining
  <2>2. \A h : h \in Copies(u)' <=> h \in Copies(u)
    BY <1>t, <1>e, <2>1
  <2> QED BY <2>2
<1>6. ASSUME NEW v \in DOMAIN client, Performing(v)
      PROVE  \A h : h \in Copies(u)' <=> h \in Copies(u)
  <2>1. PICK k : k = client[v].src
    OBVIOUS
  <2>2. /\ Enters(<<k, v>>, "performing") /\ <<k, v>> \in DOMAIN domains
        /\ domains[<<k, v>>].migration = "none"
    BY <1>6, <2>1 DEF Performing, Source, Enters
  <2>3. ASSUME NEW h, <<h, u>> = <<k, v>>
        PROVE  h \in Copies(u)' <=> h \in Copies(u)
    BY <2>2, <2>3, CopyPlaces DEF Enters
  <2> QED BY <1>e, <2>2, <2>3
<1>7. ASSUME NEW v \in DOMAIN client, Finishing(v)
      PROVE  /\ Copies(u) \subseteq Copies(u)'
             /\ \A h \in Copies(u)' : \/ h \in Copies(u)
                                      \/ h = client[u].dest /\ Finishing(u)
  <2>1. PICK k : k = client[v].dest
    OBVIOUS
  <2>2. Enters(<<k, v>>, "none")
    BY <1>7, <2>1 DEF Finishing, Dest, Enters
  <2>3. ASSUME NEW h \in Copies(u) PROVE h \in Copies(u)'
    <3>1. CASE <<h, u>> = <<k, v>>
      BY <2>2, <3>1, CopyPlaces DEF Enters
    <3> QED BY <1>e, <2>2, <3>1
  <2>4. \A h \in Copies(u)' : h \in Copies(u) \/ (h = k /\ u = v)
    BY <1>t, <1>e, <2>2
  <2> QED BY <1>7, <2>1, <2>3, <2>4
<1> QED BY <1>1, <1>2, <1>3, <1>4, <1>5, <1>6, <1>7, MigrationShapes

\* Every step keeps the destination of a migration safe.
LEMMA DestinationStep ==
    ASSUME MigrationInv, TypeOK', [MigrationNext]_mvars
    PROVE  DestinationSafe'
<1> SUFFICES ASSUME NEW u \in DOMAIN client',
                    client'[u].src \in Copies(u)'
             PROVE  /\ Ready(client[u].dest)'
                    /\ client'[u].pc = "confirm" =>
                          client'[u].dest \in Copies(u)'
    BY DEF DestinationSafe
<1>0. ClientsOK /\ DestinationSafe /\ HostsTypeOK
  BY DEF MigrationInv, TypeOK
<1>h. [HostsNext]_hostVars
  BY MigrationIsNext, RegistryStep
<1>n. DOMAIN hosts' # {}
  <2>1. DOMAIN domains' # {}
    BY CopyPlaces
  <2> QED BY <2>1 DEF TypeOK
<1>1. CASE u \notin DOMAIN client
  <2>1. Beginning
    BY <1>1, MigrationShapes DEF Still, Removal, Reserving, Defining,
       Performing, Finishing, ClientsQuiet, GoesTo
  <2>2. PICK r \in Migration : /\ client'[u] = r /\ r.pc = "prepare"
                               /\ Ready(r.dest)
    BY <1>1, <2>1 DEF Beginning, Put
  <2>3. Ready(r.dest)'
    BY <1>0, <1>h, <1>n, <2>2, ReadyStep
  <2> QED BY <2>2, <2>3 DEF Ready
<1>2. CASE u \in DOMAIN client
  <2>1. /\ client'[u].src = client[u].src /\ client'[u].dest = client[u].dest
        /\ client'[u].pc = "confirm" =>
              client[u].pc = "confirm" \/ Finishing(u)
    BY <1>2, MigrationShapes DEF Still, Removal, Beginning, Put, Reserving,
       Defining, Performing, Finishing, ClientsQuiet, GoesTo
  <2>2. PICK d : d = client[u].dest
    OBVIOUS
  <2>3. client[u].src # d
    BY <1>0, <1>2, <2>2 DEF ClientsOK
  <2>4. client[u].src \in Copies(u)
    BY <1>2, <2>1, <2>2, <2>3, CopiesStep
  <2>5. Ready(d) /\ (client[u].pc = "confirm" => d \in Copies(u))
    BY <1>0, <1>2, <2>2, <2>4 DEF DestinationSafe
  <2>6. Ready(d)'
    BY <1>0, <1>h, <1>n, <2>5, ReadyStep
  <2>7. ASSUME d \in Copies(u) PROVE d \in Copies(u)'
    BY <1>2, <1>n, <2>2, <2>3, <2>5, <2>7, CopiesStep
  <2>8. ASSUME Finishing(u) PROVE d \in Copies(u)'
    <3>1. client[u] \in Migration
      BY <1>0, <1>2, MapValue DEF ClientsOK
    <3>2. d \in Hosts
      BY <2>2, <3>1 DEF Migration
    <3>3. /\ <<d, u>> \in DOMAIN domains'
          /\ domains'[<<d, u>>].migration = "none"
      BY <2>2, <2>8 DEF Finishing, Enters, Dest
    <3> QED BY <3>2, <3>3, CopyPlaces
  <2> QED BY <2>1, <2>2, <2>5, <2>6, <2>7, <2>8 DEF Ready
<1> QED BY <1>1, <1>2

\* MigrationInv is an invariant.
LEMMA MigrationSafe == MigrationSpec => []MigrationInv
<1>1. MigrationInit => MigrationInv
  <2> SUFFICES ASSUME MigrationInit PROVE MigrationInv
      OBVIOUS
  <2>1. TypeOK
    BY EmptyIsMap DEF MigrationInit, Init, HostsInit, TypeOK, HostsTypeOK
  <2>2. DOMAIN domains = {} /\ client = EmptyMap
    BY EmptyIsMap DEF MigrationInit, Init
  <2> QED BY <2>1, <2>2, EmptyIsMap
          DEF MigrationInv, ClientsOK, OneSettled, Unmarked, Where,
              DestinationSafe
<1>2. MigrationInv /\ [MigrationNext]_mvars => MigrationInv'
  <2> SUFFICES ASSUME MigrationInv, [MigrationNext]_mvars PROVE MigrationInv'
      OBVIOUS
  <2>1. TypeOK'
    BY MigrationIsNext, TypeStep DEF MigrationInv
  <2>2. ClientsOK'
    BY ClientsStep DEF MigrationInv
  <2>3. OneSettled' /\ DestinationSafe'
    BY <2>1, SettledStep, DestinationStep
  <2> QED BY <2>1, <2>2, <2>3 DEF MigrationInv
<1> QED BY <1>1, <1>2, PTL DEF MigrationSpec

-----------------------------------------------------------------------------
(* The theorems.                                                           *)

\* At most one entry of a domain is without a mark, whatever client crashes and
\* whichever prepares overlap: MigratePerform marks the source before
\* MigrateFinish takes the mark off the destination.
THEOREM UnmarkedSafe == MigrationSpec => []OneUnmarked
<1>1. MigrationInv => OneUnmarked
  BY DEF MigrationInv, OneSettled, OneUnmarked
<1> QED BY <1>1, MigrationSafe, PTL

\* No phase of a migration takes the last copy of its domain away.
THEOREM CopiesSafe == MigrationSpec => NeverLost
<1>1. ASSUME MigrationInv, TypeOK', [MigrationNext]_mvars,
             NEW u \in DOMAIN client, Copies(u) # {},
             DOMAIN hosts' = DOMAIN hosts
      PROVE  \E h \in Hosts : /\ <<h, u>> \in DOMAIN domains'
                              /\ domains'[<<h, u>>].migration # "prepared"
  <2>1. PICK h \in Copies(u) : TRUE
    BY <1>1
  <2>2. h \in Hosts /\ <<h, u>> \in DOMAIN domains
    BY CopyPlaces
  <2>3. h \in DOMAIN hosts
    <3>1. <<h, u>>[1] = h
      OBVIOUS
    <3> QED BY <1>1, <2>2, <3>1 DEF MigrationInv, TypeOK
  <2>4. CASE client[u].pc = "confirm" /\ h = client[u].src
    <3>1. client[u].dest \in Copies(u)
      BY <1>1, <2>4 DEF MigrationInv, DestinationSafe
    <3>2. h \in Copies(u)' \/ client[u].dest \in Copies(u)'
      BY <1>1, <2>3, <3>1, CopiesStep
    <3> QED BY <3>2, CopyPlaces
  <2>5. CASE h \in Copies(u)'
    BY <2>5, CopyPlaces
  <2> QED BY <1>1, <2>3, <2>4, <2>5, CopiesStep
<1>2. MigrationInv /\ MigrationInv' /\ [MigrationNext]_mvars =>
        [\A u \in DOMAIN client :
             Copies(u) # {} /\ DOMAIN hosts' = DOMAIN hosts =>
                 \E h \in Hosts : /\ <<h, u>> \in DOMAIN domains'
                                  /\ domains'[<<h, u>>].migration # "prepared"
        ]_mvars
  BY <1>1 DEF MigrationInv
<1> QED BY <1>2, MigrationSafe, PTL DEF MigrationSpec, NeverLost

-----------------------------------------------------------------------------
(***************************************************************************)
(* Capacity.  A step changes at most one domain that counts, and the host  *)
(* has room for one that starts to.                                        *)
(***************************************************************************)

\* Sizes that are not negative.  The simulator does not check them: a domain
\* of negative size would make room that is missing when it stops.
NaturalSizes == Flavors \subseteq [vcpus : Nat, memoryKiB : Nat]

\* Finitely many domains, none of negative size.
Sized(ds) ==
    /\ IsFiniteSet(DOMAIN ds)
    /\ \A p \in DOMAIN ds : ds[p].vcpus \in Nat /\ ds[p].memoryKiB \in Nat

\* No Prepare call is about to make a placeholder of negative size.
CallsSized == \A c \in DOMAIN preparing : /\ preparing[c].vcpus \in Nat
                                         /\ preparing[c].memoryKiB \in Nat

\* A client that waits for its Prepare call has one; until it has finished,
\* the placeholder it relies on, whoever has made it, is accounted for.
PlaceholdersCount ==
    \A u \in DOMAIN client :
        /\ client[u].pc = "prepare" =>
              /\ client[u].call \in DOMAIN preparing
              /\ preparing[client[u].call].uuid = u
              /\ preparing[client[u].call].host = client[u].dest
        /\ client[u].pc \in {"perform", "finish"}
              /\ InPhase(Dest(u), "prepared") => Active(Dest(u))

\* The inductive invariant: MigrateFinish starts a domain without asking
\* whether there is room, so the placeholder must have counted before.
CapacityInv ==
    /\ MigrationInv
    /\ Sized(domains)
    /\ CallsSized
    /\ PlaceholdersCount
    /\ CapacityHeld

\* The domain at p exists and counts.
Counts(p) == p \in DOMAIN domains /\ Active(p)

\* The domain at p keeps its size.
SameSize(p) == /\ domains'[p].vcpus = domains[p].vcpus
               /\ domains'[p].memoryKiB = domains[p].memoryKiB

\* Only the domain at p changes, and it gets no more than there is.
OnlyAt(p) ==
    /\ \A q : q # p => /\ q \in DOMAIN domains' <=> q \in DOMAIN domains
                       /\ q \in DOMAIN domains => domains'[q] = domains[q]
    /\ \/ ~Counts(p)'
       \/ Counts(p) /\ SameSize(p)
       \/ ~Counts(p) /\ HasRoom(p[1], domains'[p].vcpus, domains'[p].memoryKiB)

\* What a host can give does not change.
SameRoom(h) == /\ h \in DOMAIN hosts
               /\ AvailableVCPUs(h)' = AvailableVCPUs(h)
               /\ AvailableMemoryMB(h)' = AvailableMemoryMB(h)

\* Host h runs no more than it may.
Within(h) == /\ UsedVCPUs(h) <= AvailableVCPUs(h)
             /\ UsedMemoryMB(h) <= AvailableMemoryMB(h)

\* The places of the domains ds that count on a host, and the amounts that
\* are added up for them.
CountedIn(ds, h) ==
    {p \in DOMAIN ds : p[1] = h /\ ds[p].state \in {"running", "paused"}}

\* The virtual CPUs of each.
VCPUsIn(ds, h) == [p \in CountedIn(ds, h) |-> ds[p].vcpus]

\* The megabytes of each.
MemoryIn(ds, h) == [p \in CountedIn(ds, h) |-> ds[p].memoryKiB \div 1024]

\* They are finitely many natural numbers.
LEMMA Amounts ==
    ASSUME NEW ds, Sized(ds), NEW h
    PROVE  /\ IsFiniteSet(CountedIn(ds, h))
           /\ DOMAIN VCPUsIn(ds, h) = CountedIn(ds, h)
           /\ DOMAIN MemoryIn(ds, h) = CountedIn(ds, h)
           /\ \A p \in CountedIn(ds, h) :
                 /\ VCPUsIn(ds, h)[p] = ds[p].vcpus
                 /\ VCPUsIn(ds, h)[p] \in Nat
                 /\ MemoryIn(ds, h)[p] = ds[p].memoryKiB \div 1024
                 /\ MemoryIn(ds, h)[p] \in Nat
<1>1. CountedIn(ds, h) \subseteq DOMAIN ds
  BY DEF CountedIn
<1>2. IsFiniteSet(CountedIn(ds, h))
  BY <1>1, FS_Subset DEF Sized
<1>3. \A n \in Nat : n \div 1024 \in Nat
  OBVIOUS
<1>4. \A p \in CountedIn(ds, h) : /\ ds[p].vcpus \in Nat
                                  /\ ds[p].memoryKiB \div 1024 \in Nat
  BY <1>1, <1>3 DEF Sized
<1> QED BY <1>2, <1>4 DEF VCPUsIn, MemoryIn

\* What is used, before and after a step.
LEMMA Usage ==
    ASSUME NEW h
    PROVE  /\ UsedVCPUs(h) = SumFunction(VCPUsIn(domains, h))
           /\ UsedMemoryMB(h) = SumFunction(MemoryIn(domains, h))
           /\ UsedVCPUs(h)' = SumFunction(VCPUsIn(domains', h))
           /\ UsedMemoryMB(h)' = SumFunction(MemoryIn(domains', h))
           /\ \A p : p \in CountedIn(domains, h) <=> Counts(p) /\ p[1] = h
           /\ \A p : p \in CountedIn(domains', h) <=> Counts(p)' /\ p[1] = h
  BY DEF UsedVCPUs, UsedMemoryMB, ActiveOn, VCPUsIn, MemoryIn, CountedIn,
         Active, Counts

\* What a host can give is a number.
LEMMA RoomOfHost ==
    ASSUME NEW r \in Host
    PROVE  /\ (r.cpus * r.cpuRatio) \div 100 \in Nat
           /\ (r.memoryMB * r.memRatio) \div 100 \in Nat
<1>1. \A a, b \in Nat : a * b \in Nat
  OBVIOUS
<1>2. \A n \in Nat : n \div 100 \in Nat
  OBVIOUS
<1>3. /\ r.cpus \in Nat /\ r.cpuRatio \in Nat
      /\ r.memoryMB \in Nat /\ r.memRatio \in Nat
  BY DEF Host
<1>4. r.cpus * r.cpuRatio \in Nat /\ r.memoryMB * r.memRatio \in Nat
  BY <1>1, <1>3
<1> QED BY <1>2, <1>4

\* The same for the host named h.
LEMMA RoomIsNat ==
    ASSUME HostsTypeOK, NEW h \in DOMAIN hosts
    PROVE  AvailableVCPUs(h) \in Nat /\ AvailableMemoryMB(h) \in Nat
<1>1. hosts[h] \in Host
  BY MapValue DEF HostsTypeOK
<1> QED BY <1>1, RoomOfHost DEF AvailableVCPUs, AvailableMemoryMB

\* A step that changes the domain at p only keeps a host within its room.
LEMMA OnlyAtKeeps ==
    ASSUME HostsTypeOK, Sized(domains), Sized(domains'),
           NEW p, OnlyAt(p), NEW h, SameRoom(h), Within(h)
    PROVE  Within(h)'
<1>1. PICK A, f, g : /\ A = CountedIn(domains, h)
                     /\ f = VCPUsIn(domains, h) /\ g = MemoryIn(domains, h)
  OBVIOUS
<1>2. PICK B, d, e : /\ B = CountedIn(domains', h)
                     /\ d = VCPUsIn(domains', h) /\ e = MemoryIn(domains', h)
  OBVIOUS
<1>a. /\ IsFiniteSet(A)
      /\ DOMAIN f = A /\ DOMAIN g = A
      /\ \A q \in A : /\ f[q] = domains[q].vcpus /\ f[q] \in Nat
                      /\ g[q] = domains[q].memoryKiB \div 1024 /\ g[q] \in Nat
  BY <1>1, Amounts
<1>b. /\ IsFiniteSet(B)
      /\ DOMAIN d = B /\ DOMAIN e = B
      /\ \A q \in B : /\ d[q] = domains'[q].vcpus /\ d[q] \in Nat
                      /\ e[q] = domains'[q].memoryKiB \div 1024 /\ e[q] \in Nat
  BY <1>2, Amounts
<1>c. /\ UsedVCPUs(h) = SumFunction(f) /\ UsedMemoryMB(h) = SumFunction(g)
      /\ UsedVCPUs(h)' = SumFunction(d) /\ UsedMemoryMB(h)' = SumFunction(e)
      /\ \A q : q \in A <=> Counts(q) /\ q[1] = h
      /\ \A q : q \in B <=> Counts(q)' /\ q[1] = h
  BY <1>1, <1>2, Usage
<1>d. /\ AvailableVCPUs(h) \in Nat /\ AvailableMemoryMB(h) \in Nat
      /\ AvailableVCPUs(h)' = AvailableVCPUs(h)
      /\ AvailableMemoryMB(h)' = AvailableMemoryMB(h)
  BY RoomIsNat DEF SameRoom
<1>e. /\ UsedVCPUs(h) <= AvailableVCPUs(h)
      /\ UsedMemoryMB(h) <= AvailableMemoryMB(h)
  BY DEF Within
<1>n. /\ \A q \in A : f[q] \in Int /\ g[q] \in Int
      /\ \A q \in B : d[q] \in Int /\ e[q] \in Int
  BY <1>a, <1>b
<1>3. \A q : q # p => /\ q \in A <=> q \in B
                      /\ q \in A => /\ domains'[q] = domains[q]
                                    /\ d[q] = f[q] /\ e[q] = g[q]
  BY <1>a, <1>b, <1>c DEF OnlyAt, Counts, Active
<1>4. CASE p \notin A /\ p \notin B
  <2>1. A = B /\ \A q \in A : domains'[q] = domains[q]
    BY <1>3, <1>4
  <2>2. f = d /\ g = e
    BY <1>1, <1>2, <2>1 DEF VCPUsIn, MemoryIn
  <2> QED BY <1>c, <1>d, <1>e, <2>2 DEF Within
<1>5. CASE p \in A /\ p \in B
  <2>1. A = B
    BY <1>3, <1>5
  <2>2. SameSize(p)
    BY <1>5, <1>c DEF OnlyAt
  <2>3. \A q \in A : /\ domains'[q].vcpus = domains[q].vcpus
                     /\ domains'[q].memoryKiB = domains[q].memoryKiB
    BY <1>3, <2>2 DEF SameSize
  <2>4. f = d /\ g = e
    BY <1>1, <1>2, <2>1, <2>3 DEF VCPUsIn, MemoryIn
  <2> QED BY <1>c, <1>d, <1>e, <2>4 DEF Within
<1>6. CASE p \in A /\ p \notin B
  <2>1. A = B \cup {p}
    BY <1>3, <1>6
  <2>2. OneMoreKey(d, f, p) /\ OneMoreKey(e, g, p)
    BY <1>3, <1>6, <1>a, <1>b, <1>n, <2>1 DEF OneMoreKey
  <2>3. /\ SumFunction(d) \in Int /\ SumFunction(f) = SumFunction(d) + f[p]
        /\ SumFunction(e) \in Int /\ SumFunction(g) = SumFunction(e) + g[p]
    BY <2>2, SumOfOneMoreKey
  <2>4. f[p] \in Nat /\ g[p] \in Nat
    BY <1>6, <1>a
  <2> QED BY <1>c, <1>d, <1>e, <2>3, <2>4 DEF Within
<1>7. CASE p \notin A /\ p \in B
  <2>1. B = A \cup {p}
    BY <1>3, <1>7
  <2>2. /\ UsedVCPUs(h) + d[p] <= AvailableVCPUs(h)
        /\ UsedMemoryMB(h) + e[p] <= AvailableMemoryMB(h)
    <3>1. p[1] = h /\ ~Counts(p) /\ Counts(p)'
      BY <1>7, <1>c
    <3>2. HasRoom(h, domains'[p].vcpus, domains'[p].memoryKiB)
      BY <3>1 DEF OnlyAt
    <3> QED BY <1>7, <1>b, <3>2 DEF HasRoom
  <2>3. OneMoreKey(f, d, p) /\ OneMoreKey(g, e, p)
    BY <1>3, <1>7, <1>a, <1>b, <1>n, <2>1 DEF OneMoreKey
  <2>4. /\ SumFunction(f) \in Int /\ SumFunction(d) = SumFunction(f) + d[p]
        /\ SumFunction(g) \in Int /\ SumFunction(e) = SumFunction(g) + e[p]
    BY <2>3, SumOfOneMoreKey
  <2> QED BY <1>c, <1>d, <1>e, <2>2, <2>4 DEF Within
<1> QED BY <1>4, <1>5, <1>6, <1>7

\* No step makes a domain, or a call that will make one, of negative size.
LEMMA SizedStep ==
    ASSUME NaturalSizes, TypeOK, Sized(domains), CallsSized, [Next]_vars
    PROVE  Sized(domains') /\ CallsSized'
<1> USE DEF Sized
<1>d. \A p \in DOMAIN domains : domains[p] \in Domain
  BY MapValue DEF TypeOK
<1>1. ASSUME UNCHANGED domains PROVE Sized(domains')
  BY <1>1
<1>2. ASSUME UNCHANGED preparing PROVE CallsSized'
  BY <1>2 DEF CallsSized
<1>3. ASSUME NEW c, UNCHANGED preparing \/ preparing' = Drop(preparing, c)
      PROVE  CallsSized'
  BY <1>3 DEF CallsSized, Drop, Restrict
<1>4. ASSUME NEW D, domains' = Restrict(domains, D), D \subseteq DOMAIN domains
      PROVE  Sized(domains')
  BY <1>4, FS_Subset DEF Restrict
<1>5. ASSUME NEW p, NEW r, domains' = Put(domains, p, r),
             r.vcpus \in Nat, r.memoryKiB \in Nat
      PROVE  Sized(domains')
  <2>1. /\ DOMAIN domains' = DOMAIN domains \cup {p}
        /\ \A q \in DOMAIN domains' :
              domains'[q] = IF q = p THEN r ELSE domains[q]
    BY <1>5 DEF Put
  <2>2. IsFiniteSet(DOMAIN domains')
    BY <2>1, FS_AddElement
  <2> QED BY <1>5, <2>1, <2>2
<1>6. ASSUME DOMAIN domains' = DOMAIN domains,
             \A p \in DOMAIN domains : SameSize(p)
      PROVE  Sized(domains')
  BY <1>6 DEF SameSize
<1>7. ASSUME NEW p \in DOMAIN domains,
             \/ StartDomain(p) \/ DestroyDomain(p) \/ ShutdownDomain(p)
             \/ SuspendDomain(p) \/ ResumeDomain(p)
             \/ MigratePerform(p) \/ MigrateFinish(p)
      PROVE  Sized(domains') /\ CallsSized'
  <2>1. CASE StartDomain(p)
    BY <1>2, <1>6, <1>d, <2>1 DEF StartDomain, SameSize, Domain
  <2>2. CASE DestroyDomain(p) \/ ShutdownDomain(p)
    BY <1>2, <1>6, <1>d, <2>2 DEF DestroyDomain, ShutdownDomain, SameSize, Domain
  <2>3. CASE SuspendDomain(p) \/ ResumeDomain(p)
    BY <1>2, <1>6, <1>d, <2>3 DEF SuspendDomain, ResumeDomain, SameSize, Domain
  <2>4. CASE MigratePerform(p)
    BY <1>2, <1>6, <1>d, <2>4 DEF MigratePerform, SameSize, Domain
  <2>5. CASE MigrateFinish(p)
    BY <1>2, <1>6, <1>d, <2>5 DEF MigrateFinish, SameSize, Domain
  <2> QED BY <1>7, <2>1, <2>2, <2>3, <2>4, <2>5
<1>8. ASSUME NEW p \in DOMAIN domains, UndefineDomain(p) \/ MigrateConfirm(p)
      PROVE  Sized(domains') /\ CallsSized'
  <2>1. domains' = Restrict(domains, DOMAIN domains \ {p})
    BY <1>8 DEF UndefineDomain, MigrateConfirm, Drop
  <2> QED BY <1>2, <1>4, <1>8, <2>1 DEF UndefineDomain, MigrateConfirm
<1>9. ASSUME NEW h \in Hosts, NEW u \in Uuids, NEW f \in Flavors,
             DefineDomain(h, u, f)
      PROVE  Sized(domains') /\ CallsSized'
  <2>1. f.vcpus \in Nat /\ f.memoryKiB \in Nat
    BY DEF NaturalSizes
  <2> DEFINE r == [vcpus |-> f.vcpus, memoryKiB |-> f.memoryKiB,
                   state |-> "shutoff", id |-> -1, migration |-> "none"]
  <2>2. r.vcpus \in Nat /\ r.memoryKiB \in Nat
    BY <2>1
  <2>3. domains' = Put(domains, <<h, u>>, r)
    BY <1>9 DEF DefineDomain
  <2> HIDE DEF r
  <2> QED BY <1>2, <1>5, <1>9, <2>2, <2>3 DEF DefineDomain
<1>10. ASSUME NEW c \in RpcCalls, NEW h \in Hosts, NEW p \in DOMAIN domains,
              PrepareLookup(c, h, p)
       PROVE  Sized(domains') /\ CallsSized'
  <2>1. /\ DOMAIN preparing' = DOMAIN preparing \cup {c}
        /\ \A d \in DOMAIN preparing : d # c => preparing'[d] = preparing[d]
        /\ preparing'[c].vcpus = domains[p].vcpus
        /\ preparing'[c].memoryKiB = domains[p].memoryKiB
    BY <1>10 DEF PrepareLookup, Put
  <2> QED BY <1>1, <1>10, <2>1 DEF PrepareLookup, CallsSized
<1>11. ASSUME NEW c \in DOMAIN preparing, MigratePrepare(c)
       PROVE  Sized(domains') /\ CallsSized'
  <2> DEFINE call == preparing[c]
             r == [vcpus |-> call.vcpus, memoryKiB |-> call.memoryKiB,
                   state |-> "paused", id |-> -1, migration |-> "prepared"]
  <2>1. r.vcpus \in Nat /\ r.memoryKiB \in Nat
    BY DEF CallsSized
  <2>2. domains' = Put(domains, <<call.host, call.uuid>>, r)
    BY <1>11 DEF MigratePrepare
  <2>3. preparing' = Drop(preparing, c)
    BY <1>11 DEF MigratePrepare
  <2> HIDE DEF r, call
  <2> QED BY <1>3, <1>5, <2>1, <2>2, <2>3
<1>12. ASSUME NEW c \in DOMAIN preparing, PrepareRefused(c)
       PROVE  Sized(domains') /\ CallsSized'
  BY <1>1, <1>3, <1>12 DEF PrepareRefused
<1>13. CASE ManagementCall
  <2>1. CASE UNCHANGED domainVars
    BY <1>1, <1>2, <2>1 DEF domainVars
  <2>2. ASSUME NEW c \in HttpCalls, RemoveHostAndDomains(c)
        PROVE  Sized(domains') /\ CallsSized'
    BY <1>2, <1>4, <2>2 DEF RemoveHostAndDomains
  <2>3. ASSUME NEW c \in HttpCalls, Reset(c)
        PROVE  Sized(domains') /\ CallsSized'
    BY <1>2, <2>3, EmptyIsMap, FS_EmptySet DEF Reset
  <2> QED BY <1>13, <2>1, <2>2, <2>3 DEF ManagementCall
<1>14. CASE UNCHANGED vars
  BY <1>1, <1>2, <1>14 DEF vars, domainVars
<1> QED BY <1>7, <1>8, <1>9, <1>10, <1>11, <1>12, <1>13, <1>14
        DEF Next, LifecycleCall, DefinitionCall, MigrationCall

\* The clients that are left keep their hosts and calls, and none begins to
\* wait for a call or to rely on a placeholder.
NoneRelies ==
    \A v \in DOMAIN client' :
        /\ v \in DOMAIN client
        /\ client'[v].dest = client[v].dest /\ client'[v].call = client[v].call
        /\ client'[v].pc = "prepare" => client[v].pc = "prepare"
        /\ client'[v].pc \in {"perform", "finish"} =>
              client[v].pc \in {"perform", "finish"}

\* A placeholder at q is there already, and counts if it did, or counts.
PlaceKept(q) ==
    /\ q \in DOMAIN domains' /\ domains'[q].migration = "prepared"
    => \/ Counts(q)'
       \/ /\ q \in DOMAIN domains /\ domains[q].migration = "prepared"
          /\ ~Counts(q)

\* So are all the placeholders that clients rely on.
PlacesKept ==
    \A v \in DOMAIN client' : client'[v].pc \in {"perform", "finish"} =>
        \A h : h = client'[v].dest => PlaceKept(<<h, v>>)

\* What a client keeps when one goes on or ends.
LEMMA ClientRelies ==
    ASSUME ClientsOK, NEW u \in DOMAIN client
    PROVE  /\ \A pc : Goto(u, pc) =>
                 /\ DOMAIN client' = DOMAIN client /\ client'[u].pc = pc
                 /\ \A v \in DOMAIN client :
                       /\ client'[v].dest = client[v].dest
                       /\ client'[v].call = client[v].call
                       /\ v # u => client'[v].pc = client[v].pc
           /\ Done(u) => /\ DOMAIN client' = DOMAIN client \ {u}
                         /\ \A v \in DOMAIN client' : client'[v] = client[v]
<1>1. \A v \in DOMAIN client : client[v] \in Migration
  BY MapValue DEF ClientsOK
<1>2. \A pc : Goto(u, pc) =>
                 /\ DOMAIN client' = DOMAIN client /\ client'[u].pc = pc
                 /\ \A v \in DOMAIN client :
                       /\ client'[v].dest = client[v].dest
                       /\ client'[v].call = client[v].call
                       /\ v # u => client'[v].pc = client[v].pc
  BY <1>1 DEF Goto, Migration
<1>3. Done(u) => /\ DOMAIN client' = DOMAIN client \ {u}
                 /\ \A v \in DOMAIN client' : client'[v] = client[v]
  BY DEF Done, Drop, Restrict
<1> QED BY <1>2, <1>3

\* A step in which no client begins to rely on anything.
LEMMA ReliesKept ==
    ASSUME PlaceholdersCount, NoneRelies, PlacesKept,
           \A v \in DOMAIN client' : client'[v].pc = "prepare" =>
               /\ client[v].call \in DOMAIN preparing'
               /\ preparing'[client[v].call] = preparing[client[v].call]
    PROVE  PlaceholdersCount'
<1> SUFFICES ASSUME NEW v \in DOMAIN client', NEW q, q = Dest(v)'
             PROVE  /\ client'[v].pc = "prepare" =>
                          /\ client'[v].call \in DOMAIN preparing'
                          /\ preparing'[client'[v].call].uuid = v
                          /\ preparing'[client'[v].call].host = client'[v].dest
                    /\ client'[v].pc \in {"perform", "finish"} =>
                          (q \in DOMAIN domains'
                              /\ domains'[q].migration = "prepared" => Counts(q)')
    BY DEF PlaceholdersCount, Counts, InPhase, Active
<1>1. /\ v \in DOMAIN client
      /\ client'[v].dest = client[v].dest /\ client'[v].call = client[v].call
  BY DEF NoneRelies
<1>2. client'[v].pc = "prepare" =>
          /\ client'[v].call \in DOMAIN preparing'
          /\ preparing'[client'[v].call].uuid = v
          /\ preparing'[client'[v].call].host = client'[v].dest
  BY <1>1 DEF PlaceholdersCount, NoneRelies
<1>3. ASSUME client'[v].pc \in {"perform", "finish"},
             q \in DOMAIN domains', domains'[q].migration = "prepared"
      PROVE  Counts(q)'
  <2>1. q = Dest(v)
    BY <1>1 DEF Dest
  <2>2. PICK h : h = client'[v].dest
    OBVIOUS
  <2>3. q = <<h, v>> /\ PlaceKept(<<h, v>>)
    BY <1>3, <2>2 DEF Dest, PlacesKept
  <2>4. client[v].pc \in {"perform", "finish"}
    BY <1>1, <1>3 DEF NoneRelies
  <2>5. q \in DOMAIN domains /\ domains[q].migration = "prepared" => Counts(q)
    BY <1>1, <2>1, <2>4 DEF PlaceholdersCount, InPhase, Counts
  <2>6. PlaceKept(q)
    BY <2>3
  <2> QED BY <1>3, <2>5, <2>6 DEF PlaceKept
<1> QED BY <1>2, <1>3

\* No domain but the one at p changes, and no client relies on a placeholder
\* there.
Irrelevant(p) ==
    /\ \A q \in DOMAIN domains' : q # p => /\ q \in DOMAIN domains
                                         /\ domains'[q] = domains[q]
    /\ \/ p \in DOMAIN domains' => domains'[p].migration # "prepared"
       \/ \A v \in DOMAIN client' :
             client'[v].pc \in {"perform", "finish"} =>
                 p # <<client'[v].dest, v>>

\* The places that a step leaves alone, in one of the shapes it has.
LEMMA PlacesLeft ==
    /\ UNCHANGED domains => PlacesKept
    /\ \A D \in SUBSET DOMAIN domains :
          domains' = Restrict(domains, D) => PlacesKept
    /\ \A p : Irrelevant(p) => PlacesKept
<1> USE DEF PlacesKept, PlaceKept, Counts, Active
<1>1. ASSUME UNCHANGED domains PROVE PlacesKept
  BY <1>1
<1>2. ASSUME NEW D \in SUBSET DOMAIN domains, domains' = Restrict(domains, D)
      PROVE  PlacesKept
  BY <1>2 DEF Restrict
<1>3. ASSUME NEW p, Irrelevant(p) PROVE PlacesKept
  BY <1>3 DEF Irrelevant
<1> QED BY <1>1, <1>2, <1>3

\* Every step keeps the placeholders that clients rely on accounted for.
LEMMA PlaceholdersStep ==
    ASSUME MigrationInv, PlaceholdersCount, [MigrationNext]_mvars
    PROVE  PlaceholdersCount'
<1>t. TypeOK /\ ClientsOK
  BY DEF MigrationInv
<1>d. \A p \in DOMAIN domains : domains[p] \in Domain
  BY <1>t, MapValue DEF TypeOK
<1>c. \A v \in DOMAIN client : client[v].src # client[v].dest
  BY <1>t DEF ClientsOK
<1>n. UNCHANGED client => NoneRelies
  BY DEF NoneRelies
<1>k. ASSUME UNCHANGED preparing, NoneRelies, PlacesKept
      PROVE  PlaceholdersCount'
  <2>1. \A v \in DOMAIN client' : client'[v].pc = "prepare" =>
            client[v].call \in DOMAIN preparing
    BY <1>k DEF NoneRelies, PlaceholdersCount
  <2> QED BY <1>k, <2>1, ReliesKept
<1>g. ASSUME NEW u \in DOMAIN client
      PROVE  /\ Done(u) => NoneRelies /\ u \notin DOMAIN client'
             /\ \A pc : Goto(u, pc) =>
                   /\ client'[u].pc = pc
                   /\ pc \notin {"prepare", "perform", "finish"} => NoneRelies
                   /\ pc = "finish" /\ client[u].pc = "perform" => NoneRelies
  BY <1>t, ClientRelies DEF NoneRelies
<1>1. ASSUME NEW u \in DOMAIN client, Perform(u) PROVE PlaceholdersCount'
  <2>1. CASE MigratePerform(Source(u)) /\ Goto(u, "finish")
    <3>1. NoneRelies /\ UNCHANGED preparing
      BY <1>1, <1>g, <2>1 DEF Perform, MigratePerform
    <3>2. PICK p : p = Source(u)
      OBVIOUS
    <3>3. domains' = [domains EXCEPT ![p].migration = "performing"]
      BY <2>1, <3>2 DEF MigratePerform
    <3>4. Irrelevant(p)
      BY <1>d, <3>3 DEF Irrelevant, Domain
    <3> QED BY <1>k, <3>1, <3>4, PlacesLeft
  <2>2. CASE Goto(u, "destroy") /\ UNCHANGED vars
    BY <1>g, <1>k, <2>2, PlacesLeft DEF vars, domainVars
  <2> QED BY <1>1, <2>1, <2>2 DEF Perform
<1>2. ASSUME NEW u \in DOMAIN client, Finish(u) PROVE PlaceholdersCount'
  <2>1. CASE MigrateFinish(Dest(u)) /\ Goto(u, "confirm")
    <3>1. NoneRelies /\ UNCHANGED preparing
      BY <1>g, <2>1 DEF MigrateFinish
    <3>2. PICK p : p = Dest(u)
      OBVIOUS
    <3>3. domains' = [domains EXCEPT ![p].state = "running",
                                     ![p].id = nextDomainID,
                                     ![p].migration = "none"]
      BY <2>1, <3>2 DEF MigrateFinish
    <3>4. Irrelevant(p)
      BY <1>d, <3>3 DEF Irrelevant, Domain
    <3> QED BY <1>k, <3>1, <3>4, PlacesLeft
  <2>2. CASE Done(u) /\ UNCHANGED vars
    BY <1>g, <1>k, <2>2, PlacesLeft DEF vars, domainVars
  <2> QED BY <1>2, <2>1, <2>2 DEF Finish
<1>3. ASSUME NEW u \in DOMAIN client, Confirm(u) PROVE PlaceholdersCount'
  <2>1. NoneRelies
    BY <1>3, <1>g DEF Confirm
  <2>2. CASE MigrateConfirm(Source(u))
    BY <1>k, <2>1, <2>2, PlacesLeft DEF MigrateConfirm, Drop
  <2>3. CASE UNCHANGED vars
    BY <1>k, <2>1, <2>3, PlacesLeft DEF vars, domainVars
  <2> QED BY <1>3, <2>2, <2>3 DEF Confirm
<1>4. ASSUME NEW u \in DOMAIN client, RollBack(u) PROVE PlaceholdersCount'
  <2>1. NoneRelies /\ (u \in DOMAIN client' => client'[u].pc = "undefine")
    BY <1>4, <1>g DEF RollBack
  <2>2. CASE UNCHANGED vars
    BY <1>k, <2>1, <2>2, PlacesLeft DEF vars, domainVars
  <2>3. CASE DestroyDomain(Dest(u))
    <3>1. PICK p : p = Dest(u)
      OBVIOUS
    <3>2. domains' = [domains EXCEPT ![p].state = "shutoff", ![p].id = -1]
      BY <2>3, <3>1 DEF DestroyDomain
    <3>3. \A v \in DOMAIN client' : client'[v].pc \in {"perform", "finish"} =>
              p # <<client'[v].dest, v>>
      BY <2>1, <3>1 DEF Dest
    <3>4. Irrelevant(p)
      BY <1>d, <3>2, <3>3 DEF Irrelevant, Domain
    <3> QED BY <1>k, <2>1, <2>3, <3>4, PlacesLeft DEF DestroyDomain
  <2>4. CASE UndefineDomain(Dest(u))
    BY <1>k, <2>1, <2>4, PlacesLeft DEF UndefineDomain, Drop
  <2> QED BY <1>4, <2>2, <2>3, <2>4 DEF RollBack
<1>5. ASSUME NEW u \in DOMAIN client, Crash(u) PROVE PlaceholdersCount'
  BY <1>5, <1>g, <1>k, PlacesLeft DEF Crash, vars, domainVars
<1>6. CASE OtherDefinitions
  <2>1. ASSUME NEW h \in Hosts, NEW u \in Uuids, NEW f \in Flavors,
               DefineDomain(h, u, f)
        PROVE  PlaceholdersCount'
    <3>1. Irrelevant(<<h, u>>)
      BY <2>1 DEF DefineDomain, Put, Irrelevant
    <3> QED BY <1>6, <1>k, <1>n, <2>1, <3>1, PlacesLeft
            DEF OtherDefinitions, DefineDomain
  <2>2. ASSUME NEW p \in DOMAIN domains, UndefineDomain(p)
        PROVE  PlaceholdersCount'
    BY <1>6, <1>k, <1>n, <2>2, PlacesLeft
       DEF OtherDefinitions, UndefineDomain, Drop
  <2> QED BY <1>6, <2>1, <2>2 DEF OtherDefinitions
<1>7. CASE OtherManagement
  <2>1. NoneRelies
    BY <1>7, <1>n DEF OtherManagement
  <2>2. CASE UNCHANGED domainVars
    BY <1>k, <2>1, <2>2, PlacesLeft DEF domainVars
  <2>3. ASSUME NEW c \in HttpCalls, RemoveHostAndDomains(c)
        PROVE  PlaceholdersCount'
    BY <1>k, <2>1, <2>3, PlacesLeft DEF RemoveHostAndDomains
  <2>4. ASSUME NEW c \in HttpCalls, Reset(c) PROVE PlaceholdersCount'
    <3>1. DOMAIN domains' = {}
      BY <2>4, EmptyIsMap DEF Reset
    <3>2. PlacesKept
      BY <3>1 DEF PlacesKept, PlaceKept
    <3> QED BY <1>k, <2>1, <2>4, <3>2 DEF Reset
  <2> QED BY <1>7, <2>2, <2>3, <2>4 DEF OtherManagement
<1>8. CASE OtherLifecycle
  <2>1. PICK p \in DOMAIN domains :
            /\ domains[p].migration # "prepared"
            /\ \/ StartDomain(p) \/ DestroyDomain(p) \/ ShutdownDomain(p)
               \/ SuspendDomain(p) \/ ResumeDomain(p)
    BY <1>8 DEF OtherLifecycle
  <2>2. SamePhases
    BY <1>t, <2>1, LifecycleKeepsPhases
  <2>3. /\ UNCHANGED preparing
        /\ \A q \in DOMAIN domains : q # p => domains'[q] = domains[q]
    BY <2>1 DEF StartDomain, DestroyDomain, ShutdownDomain, SuspendDomain,
       ResumeDomain
  <2>4. Irrelevant(p)
    BY <2>1, <2>2, <2>3 DEF SamePhases, Irrelevant
  <2> QED BY <1>8, <1>k, <1>n, <2>3, <2>4, PlacesLeft DEF OtherLifecycle
<1>9. CASE UNCHANGED mvars
  BY <1>9, <1>k, <1>n, PlacesLeft DEF mvars, vars, domainVars
<1>10. ASSUME NEW u \in Uuids, NEW src \in Hosts, NEW dest \in Hosts,
              NEW c \in RpcCalls, Begin(u, src, dest, c)
       PROVE  PlaceholdersCount'
  <2>1. PICK h \in Where(u) : PrepareLookup(c, dest, <<h, u>>)
    BY <1>10 DEF Begin
  <2>2. /\ c \notin DOMAIN preparing /\ UNCHANGED domains
        /\ DOMAIN preparing' = DOMAIN preparing \cup {c}
        /\ preparing'[c].uuid = u /\ preparing'[c].host = dest
        /\ \A d \in DOMAIN preparing : preparing'[d] = preparing[d]
    BY <2>1 DEF PrepareLookup, Put
  <2>3. /\ DOMAIN client' = DOMAIN client \cup {u} /\ u \notin DOMAIN client
        /\ client'[u].dest = dest /\ client'[u].call = c
        /\ client'[u].pc = "prepare"
        /\ \A v \in DOMAIN client : client'[v] = client[v]
    BY <1>10 DEF Begin, Put
  <2> QED BY <2>2, <2>3 DEF PlaceholdersCount, InPhase, Active, Dest
<1>11. ASSUME NEW c \in DOMAIN preparing, Refused(c) PROVE PlaceholdersCount'
  <2>1. PICK u : u = preparing[c].uuid
    OBVIOUS
  <2>2. UNCHANGED domains /\ preparing' = Drop(preparing, c)
    BY <1>11 DEF Refused, PrepareRefused
  <2>3. IF Waits(u, c) THEN Done(u) ELSE UNCHANGED client
    BY <1>11, <2>1 DEF Refused
  <2>4. NoneRelies
    BY <1>g, <1>n, <2>3 DEF Waits
  <2>5. ASSUME NEW v \in DOMAIN client', client'[v].pc = "prepare"
        PROVE  client[v].call \in DOMAIN preparing /\ client[v].call # c
    <3>1. /\ v \in DOMAIN client /\ client[v].pc = "prepare"
          /\ client[v].call \in DOMAIN preparing
          /\ preparing[client[v].call].uuid = v
      BY <2>4, <2>5 DEF NoneRelies, PlaceholdersCount
    <3>2. ASSUME client[v].call = c PROVE FALSE
      <4>1. v = u /\ Waits(u, c)
        BY <2>1, <3>1, <3>2 DEF Waits
      <4> QED BY <1>g, <2>3, <2>5, <3>1, <4>1
    <3> QED BY <3>1, <3>2
  <2>6. \A v \in DOMAIN client' : client'[v].pc = "prepare" =>
            /\ client[v].call \in DOMAIN preparing'
            /\ preparing'[client[v].call] = preparing[client[v].call]
    BY <2>2, <2>5 DEF Drop, Restrict
  <2> QED BY <2>2, <2>4, <2>6, PlacesLeft, ReliesKept
<1>12. ASSUME NEW c \in DOMAIN preparing, Prepared(c) PROVE PlaceholdersCount'
  <2>1. PICK u, k : u = preparing[c].uuid /\ k = preparing[c].host
    OBVIOUS
  <2>2. /\ <<k, u>> \notin DOMAIN domains /\ preparing' = Drop(preparing, c)
        /\ DOMAIN domains' = DOMAIN domains \cup {<<k, u>>}
        /\ domains'[<<k, u>>].state = "paused"
        /\ \A q \in DOMAIN domains : domains'[q] = domains[q]
    BY <1>12, <2>1 DEF Prepared, MigratePrepare, Accepts, Put
  <2>3. IF Waits(u, c) THEN Goto(u, "perform") ELSE UNCHANGED client
    BY <1>12, <2>1 DEF Prepared
  <2>4. /\ DOMAIN client' = DOMAIN client
        /\ \A v \in DOMAIN client :
              /\ client'[v].dest = client[v].dest
              /\ client'[v].call = client[v].call
              /\ ~(v = u /\ Waits(u, c)) => client'[v].pc = client[v].pc
        /\ Waits(u, c) => client'[u].pc = "perform"
    BY <1>t, <2>3, ClientRelies DEF Waits
  <2> SUFFICES ASSUME NEW v \in DOMAIN client
               PROVE  /\ client'[v].pc = "prepare" =>
                            /\ client'[v].call \in DOMAIN preparing'
                            /\ preparing'[client'[v].call].uuid = v
                            /\ preparing'[client'[v].call].host
                                  = client'[v].dest
                      /\ client'[v].pc \in {"perform", "finish"} =>
                            (InPhase(Dest(v), "prepared") => Active(Dest(v)))'
    BY <2>4 DEF PlaceholdersCount
  <2>5. ASSUME client'[v].pc = "prepare"
        PROVE  /\ client'[v].call \in DOMAIN preparing'
               /\ preparing'[client'[v].call].uuid = v
               /\ preparing'[client'[v].call].host = client'[v].dest
    <3>1. /\ client[v].pc = "prepare" /\ client'[v].call = client[v].call
          /\ client'[v].dest = client[v].dest
          /\ ~(v = u /\ Waits(u, c))
      BY <2>4, <2>5
    <3>2. /\ client[v].call \in DOMAIN preparing
          /\ preparing[client[v].call].uuid = v
          /\ preparing[client[v].call].host = client[v].dest
      BY <3>1 DEF PlaceholdersCount
    <3>3. client[v].call # c
      BY <2>1, <3>1, <3>2 DEF Waits
    <3> QED BY <2>2, <3>1, <3>2, <3>3 DEF Drop, Restrict
  <2>6. ASSUME client'[v].pc \in {"perform", "finish"}
        PROVE  (InPhase(Dest(v), "prepared") => Active(Dest(v)))'
    <3>1. PICK q : q = <<client[v].dest, v>>
      OBVIOUS
    <3>2. Dest(v)' = q /\ Dest(v) = q
      BY <2>4, <3>1 DEF Dest
    <3>3. CASE q = <<k, u>>
      BY <2>2, <3>2, <3>3 DEF Active
    <3>4. CASE q # <<k, u>>
      <4>1. client[v].pc \in {"perform", "finish"}
        <5>1. ASSUME v = u, Waits(u, c) PROVE FALSE
          <6>1. preparing[c].host = client[u].dest
            BY <5>1 DEF Waits, PlaceholdersCount
          <6> QED BY <2>1, <3>1, <3>4, <5>1, <6>1
        <5> QED BY <2>4, <2>6, <5>1
      <4>2. q \in DOMAIN domains /\ domains[q].migration = "prepared" =>
                Active(q)
        BY <3>2, <4>1 DEF PlaceholdersCount, InPhase
      <4> QED BY <2>2, <3>2, <3>4, <4>2 DEF InPhase, Active
    <3> QED BY <3>3, <3>4
  <2> QED BY <2>5, <2>6
<1> QED BY <1>1, <1>2, <1>3, <1>4, <1>5, <1>6, <1>7, <1>8, <1>9, <1>10, <1>11,
           <1>12 DEF MigrationNext, MigrationClient, SteadyClient, Others

\* The calls on one domain change that domain only, and as they may.
LEMMA CallsOnlyAt ==
    ASSUME TypeOK, NEW p \in DOMAIN domains
    PROVE  /\ \/ StartDomain(p) \/ DestroyDomain(p) \/ ShutdownDomain(p)
              \/ SuspendDomain(p) \/ ResumeDomain(p)
              \/ UndefineDomain(p) \/ MigratePerform(p) \/ MigrateConfirm(p)
              => OnlyAt(p) /\ UNCHANGED hosts
           /\ MigrateFinish(p) /\ Active(p) => OnlyAt(p) /\ UNCHANGED hosts
<1>d. domains[p] \in Domain
  BY MapValue DEF TypeOK
<1> USE DEF OnlyAt, Counts, Active, SameSize, Domain, hostVars
<1>1. CASE StartDomain(p)
  <2>1. /\ domains'[p].vcpus = domains[p].vcpus
        /\ domains'[p].memoryKiB = domains[p].memoryKiB
    BY <1>d, <1>1 DEF StartDomain
  <2> QED BY <1>d, <1>1, <2>1 DEF StartDomain
<1>2. CASE DestroyDomain(p) \/ ShutdownDomain(p)
  BY <1>d, <1>2 DEF DestroyDomain, ShutdownDomain
<1>3. CASE SuspendDomain(p) \/ ResumeDomain(p)
  BY <1>d, <1>3 DEF SuspendDomain, ResumeDomain
<1>4. CASE UndefineDomain(p)
  BY <1>4 DEF UndefineDomain, Drop, Restrict
<1>5. CASE MigratePerform(p)
  BY <1>d, <1>5 DEF MigratePerform
<1>6. CASE MigrateConfirm(p)
  BY <1>6 DEF MigrateConfirm, Drop, Restrict
<1>7. CASE MigrateFinish(p) /\ Active(p)
  BY <1>d, <1>7 DEF MigrateFinish
<1> QED BY <1>1, <1>2, <1>3, <1>4, <1>5, <1>6, <1>7

\* Every step keeps the hosts within their room.
LEMMA CapacityStep ==
    ASSUME CapacityInv, TypeOK', Sized(domains'), [MigrationNext]_mvars
    PROVE  CapacityHeld'
<1>t. TypeOK /\ ClientsOK /\ HostsTypeOK /\ Sized(domains) /\ PlaceholdersCount
  BY DEF CapacityInv, MigrationInv, TypeOK
<1>w. \A h \in DOMAIN hosts : Within(h)
  BY DEF CapacityInv, CapacityHeld, Within
<1>h. (\A h \in DOMAIN hosts' : Within(h)') => CapacityHeld'
  BY DEF CapacityHeld, Within
<1>s. UNCHANGED hosts => \A h \in DOMAIN hosts : SameRoom(h)
  BY DEF SameRoom, AvailableVCPUs, AvailableMemoryMB
<1>1. ASSUME NEW p, OnlyAt(p), UNCHANGED hosts PROVE CapacityHeld'
  <2>1. ASSUME NEW h \in DOMAIN hosts' PROVE Within(h)'
    BY <1>1, <1>s, <1>t, <1>w, <2>1, OnlyAtKeeps
  <2> QED BY <1>h, <2>1
<1>2. ASSUME NEW h, UNCHANGED domains, SameRoom(h) PROVE Within(h)'
  <2>1. ActiveOn(h)' = ActiveOn(h)
    BY <1>2 DEF ActiveOn, Active
  <2>2. UsedVCPUs(h)' = UsedVCPUs(h)
    BY <1>2, <2>1, Zenon DEF UsedVCPUs
  <2>3. UsedMemoryMB(h)' = UsedMemoryMB(h)
    BY <1>2, <2>1, Zenon DEF UsedMemoryMB
  <2>4. Within(h)
    BY <1>2, <1>w DEF SameRoom
  <2> QED BY <1>2, <2>2, <2>3, <2>4 DEF Within, SameRoom
<1>3. ASSUME UNCHANGED domains, UNCHANGED hosts PROVE CapacityHeld'
  BY <1>2, <1>3, <1>h, <1>s
<1>4. ASSUME NEW u \in DOMAIN client,
             Perform(u) \/ Finish(u) \/ Confirm(u) \/ RollBack(u) \/ Crash(u)
      PROVE  CapacityHeld'
  <2>0. CASE UNCHANGED vars
    BY <1>3, <2>0 DEF vars, domainVars, hostVars
  <2>1. CASE Perform(u)
    BY <1>1, <1>t, <2>0, <2>1, CallsOnlyAt DEF Perform, Performable
  <2>2. CASE Finish(u)
    <3>1. CASE InPhase(Dest(u), "prepared") /\ MigrateFinish(Dest(u))
      <4>1. Active(Dest(u)) /\ Dest(u) \in DOMAIN domains
        BY <1>t, <2>2, <3>1 DEF PlaceholdersCount, Finish, InPhase
      <4> QED BY <1>1, <1>t, <3>1, <4>1, CallsOnlyAt
    <3> QED BY <2>0, <2>2, <3>1 DEF Finish
  <2>3. CASE Confirm(u)
    BY <1>1, <1>t, <2>0, <2>3, CallsOnlyAt DEF Confirm, InPhase
  <2>4. CASE RollBack(u)
    BY <1>1, <1>t, <2>0, <2>4, CallsOnlyAt DEF RollBack, InPhase
  <2>5. CASE Crash(u)
    BY <2>0, <2>5 DEF Crash
  <2> QED BY <1>4, <2>1, <2>2, <2>3, <2>4, <2>5
<1>5. ASSUME NEW c \in DOMAIN preparing, Prepared(c) PROVE CapacityHeld'
  <2>1. PICK p : p = <<preparing[c].host, preparing[c].uuid>>
    OBVIOUS
  <2>2. MigratePrepare(c)
    BY <1>5 DEF Prepared
  <2>3. /\ p \notin DOMAIN domains /\ UNCHANGED hosts
        /\ HasRoom(p[1], preparing[c].vcpus, preparing[c].memoryKiB)
    BY <2>1, <2>2 DEF MigratePrepare, Accepts, hostVars
  <2>4. /\ DOMAIN domains' = DOMAIN domains \cup {p}
        /\ domains'[p].vcpus = preparing[c].vcpus
        /\ domains'[p].memoryKiB = preparing[c].memoryKiB
        /\ \A q \in DOMAIN domains : domains'[q] = domains[q]
    BY <2>1, <2>2, <2>3 DEF MigratePrepare, Put
  <2>5. OnlyAt(p)
    BY <2>3, <2>4 DEF OnlyAt, Counts
  <2> QED BY <1>1, <2>3, <2>5
<1>6. ASSUME NEW c \in DOMAIN preparing, Refused(c) PROVE CapacityHeld'
  BY <1>3, <1>6 DEF Refused, PrepareRefused, hostVars
<1>7. ASSUME NEW u \in Uuids, NEW src \in Hosts, NEW dest \in Hosts,
             NEW c \in RpcCalls, Begin(u, src, dest, c)
      PROVE  CapacityHeld'
  BY <1>3, <1>7 DEF Begin, PrepareLookup, hostVars
<1>8. CASE OtherDefinitions
  <2>1. ASSUME NEW h \in Hosts, NEW u \in Uuids, NEW f \in Flavors,
               DefineDomain(h, u, f), Where(u) = {}
        PROVE  CapacityHeld'
    <3>1. PICK p : p = <<h, u>>
      OBVIOUS
    <3>2. p \notin DOMAIN domains /\ UNCHANGED hosts
      BY <2>1, <3>1 DEF Where, DefineDomain, hostVars
    <3>3. OnlyAt(p)
      BY <2>1, <3>1, <3>2 DEF DefineDomain, Put, OnlyAt, Counts, Active
    <3> QED BY <1>1, <3>2, <3>3
  <2>2. ASSUME NEW p \in DOMAIN domains, UndefineDomain(p)
        PROVE  CapacityHeld'
    BY <1>1, <1>t, <2>2, CallsOnlyAt
  <2> QED BY <1>8, <2>1, <2>2 DEF OtherDefinitions
<1>9. CASE OtherLifecycle
  BY <1>1, <1>9, <1>t, CallsOnlyAt DEF OtherLifecycle
<1>10. CASE OtherManagement
  <2>1. ASSUME NEW c \in HttpCalls, StopAll(c), UNCHANGED domainVars
        PROVE  CapacityHeld'
    BY <1>3, <2>1 DEF StopAll, domainVars
  <2>2. ASSUME NEW c \in HttpCalls, NEW k \in Hosts, NEW port \in Ports,
               NEW profile \in Profiles, NEW cpuRatio \in Ratios,
               NEW memRatio \in Ratios, UNCHANGED domainVars,
               AddHost(c, k, port, profile, cpuRatio, memRatio)
        PROVE  CapacityHeld'
    <3>1. /\ k \notin DOMAIN hosts /\ UNCHANGED domains
          /\ DOMAIN hosts' = DOMAIN hosts \cup {k}
          /\ \A h \in DOMAIN hosts : hosts'[h] = hosts[h]
      BY <2>2 DEF AddHost, Put, domainVars
    <3>2. \A h \in DOMAIN hosts : Within(h)'
      BY <1>2, <3>1 DEF SameRoom, AvailableVCPUs, AvailableMemoryMB
    <3>3. ActiveOn(k)' = {}
      BY <1>t, <3>1 DEF ActiveOn, Active, TypeOK
    <3>4. UsedVCPUs(k)' = 0 /\ UsedMemoryMB(k)' = 0
      BY <3>3, SumOfNoKeys DEF UsedVCPUs, UsedMemoryMB
    <3>5. hosts'[k] \in Host
      BY <3>1, MapValue DEF TypeOK, HostsTypeOK
    <3>6. AvailableVCPUs(k)' \in Nat /\ AvailableMemoryMB(k)' \in Nat
      BY <3>5, RoomOfHost DEF AvailableVCPUs, AvailableMemoryMB
    <3>7. Within(k)'
      BY <3>4, <3>6 DEF Within
    <3> QED BY <1>h, <3>1, <3>2, <3>7
  <2>3. ASSUME NEW c \in HttpCalls, UNCHANGED domainVars, c \in DOMAIN creating,
               StartListener(c) \/ StartListenerFails(c)
        PROVE  CapacityHeld'
    BY <1>3, <2>3 DEF StartListener, StartListenerFails, domainVars
  <2>4. ASSUME NEW c \in HttpCalls, RemoveHostAndDomains(c)
        PROVE  CapacityHeld'
    <3>1. PICK k : k = creating[c].host
      OBVIOUS
    <3>2. /\ domains' = Restrict(domains, {p \in DOMAIN domains : p[1] # k})
          /\ hosts' = Drop(hosts, k)
      BY <2>4, <3>1 DEF RemoveHostAndDomains, RollbackCall, RemoveHost
    <3>3. ASSUME NEW h \in DOMAIN hosts' PROVE Within(h)'
      <4>1. h \in DOMAIN hosts /\ h # k /\ hosts'[h] = hosts[h]
        BY <3>2 DEF Drop, Restrict
      <4>2. ActiveOn(h)' = ActiveOn(h)
        BY <3>2, <4>1 DEF ActiveOn, Active, Restrict
      <4>3. \A p \in ActiveOn(h) : domains'[p] = domains[p]
        BY <3>2, <4>1 DEF ActiveOn, Restrict
      <4>4. UsedVCPUs(h)' = UsedVCPUs(h) /\ UsedMemoryMB(h)' = UsedMemoryMB(h)
        BY <4>2, <4>3 DEF UsedVCPUs, UsedMemoryMB
      <4> QED BY <1>w, <4>1, <4>4 DEF Within, AvailableVCPUs, AvailableMemoryMB
    <3> QED BY <1>h, <3>3
  <2>5. ASSUME NEW c \in HttpCalls, Reset(c) PROVE CapacityHeld'
    BY <1>h, <2>5, EmptyIsMap DEF Reset, ResetHosts
  <2>6. ASSUME NEW k \in Hosts, NEW st, UpdateHostState(k, st),
               UNCHANGED domainVars
        PROVE  CapacityHeld'
    <3>1. \A h \in DOMAIN hosts : hosts[h] \in Host
      BY <1>t, MapValue DEF HostsTypeOK
    <3>2. /\ DOMAIN hosts' = DOMAIN hosts /\ UNCHANGED domains
          /\ \A h \in DOMAIN hosts : SameRoom(h)
      BY <2>6, <3>1 DEF UpdateHostState, SameRoom, AvailableVCPUs,
         AvailableMemoryMB, Host, domainVars
    <3> QED BY <1>2, <1>h, <3>2
  <2> QED BY <1>10, <2>1, <2>2, <2>3, <2>4, <2>5, <2>6
          DEF OtherManagement, CreateHostCall
<1>11. CASE UNCHANGED mvars
  BY <1>3, <1>11 DEF mvars, vars, domainVars, hostVars
<1> QED BY <1>4, <1>5, <1>6, <1>7, <1>8, <1>9, <1>10, <1>11
        DEF MigrationNext, MigrationClient, SteadyClient, Others

\* No host runs more virtual CPUs or memory than it may (StartDomain and
\* MigratePrepare look for room, MigrateFinish does not), provided that no
\* client defines a domain of negative size.
THEOREM CapacitySafe == NaturalSizes => (MigrationSpec => []CapacityHeld)
<1> SUFFICES ASSUME NaturalSizes PROVE MigrationSpec => []CapacityHeld
    OBVIOUS
<1>1. MigrationInit => Sized(domains) /\ CallsSized /\ PlaceholdersCount
                         /\ CapacityHeld
  BY EmptyIsMap, FS_EmptySet
     DEF MigrationInit, Init, HostsInit, Sized, CallsSized, PlaceholdersCount,
         CapacityHeld
<1>2. /\ MigrationInv /\ MigrationInv' /\ [MigrationNext]_mvars
      /\ Sized(domains) /\ CallsSized /\ PlaceholdersCount /\ CapacityHeld
      => (Sized(domains) /\ CallsSized /\ PlaceholdersCount /\ CapacityHeld)'
  <2> SUFFICES ASSUME MigrationInv, MigrationInv', [MigrationNext]_mvars,
                      Sized(domains), CallsSized, PlaceholdersCount,
                      CapacityHeld
               PROVE  /\ Sized(domains') /\ CallsSized'
                      /\ PlaceholdersCount' /\ CapacityHeld'
      BY DEF Sized
  <2>1. TypeOK /\ TypeOK' /\ CapacityInv
    BY DEF MigrationInv, CapacityInv
  <2>2. Sized(domains') /\ CallsSized'
    BY <2>1, MigrationIsNext, SizedStep
  <2> QED BY <2>1, <2>2, PlaceholdersStep, CapacityStep
<1> QED BY <1>1, <1>2, MigrationSafe, PTL DEF MigrationSpec

-----------------------------------------------------------------------------
(***************************************************************************)
(* A domain runs on one host, if its client does not crash: every mark     *)
(* belongs to a client that still has its last phases to go through.       *)
(***************************************************************************)

\* A source is marked by its own client, which is past Perform.
MarksOwned ==
    \A u, h : InPhase(<<h, u>>, "performing") =>
        /\ u \in DOMAIN client /\ h = client[u].src
        /\ client[u].pc \in {"finish", "confirm"}

\* While the source has the domain, Finish finds its placeholder.
PlaceholdersWait ==
    \A u \in DOMAIN client :
        client[u].pc \in {"perform", "finish"} /\ client[u].src \in Copies(u)
            => InPhase(Dest(u), "prepared")

\* Only Perform marks a source.
LEMMA MarksStep ==
    ASSUME MigrationInv, [MigrationNext]_mvars, NEW u, NEW h,
           InPhase(<<h, u>>, "performing")'
    PROVE  \/ InPhase(<<h, u>>, "performing")
           \/ u \in DOMAIN client /\ Performing(u) /\ h = client[u].src
<1>t. \A v, k : <<h, u>> = <<k, v>> <=> h = k /\ u = v
  OBVIOUS
<1>1. /\ <<h, u>> \in DOMAIN domains'
      /\ domains'[<<h, u>>].migration = "performing"
  BY DEF InPhase
<1>2. CASE Still \/ Beginning
  BY <1>1, <1>2 DEF Still, Beginning, SamePhases, InPhase
<1>3. CASE Removal
  <2>1. \/ \E D : Leave(D)
        \/ DOMAIN domains' = {}
    BY <1>3 DEF Removal
  <2> QED BY <1>1, <2>1 DEF Leave, InPhase
<1>e. ASSUME NEW p, NEW phase, Enters(p, phase), <<h, u>> # p
      PROVE  InPhase(<<h, u>>, "performing")
  BY <1>1, <1>e DEF Enters, InPhase
<1>f. ASSUME NEW p, NEW phase, Enters(p, phase), phase # "performing"
      PROVE  InPhase(<<h, u>>, "performing")
  BY <1>1, <1>e, <1>f DEF Enters
<1>4. CASE Reserving \/ Defining
  BY <1>4, <1>f DEF Reserving, Defining
<1>5. ASSUME NEW v \in DOMAIN client, Finishing(v)
      PROVE  InPhase(<<h, u>>, "performing")
  BY <1>5, <1>f DEF Finishing
<1>6. ASSUME NEW v \in DOMAIN client, Performing(v)
      PROVE  InPhase(<<h, u>>, "performing") \/ (u = v /\ h = client[v].src)
  <2>1. PICK k : k = client[v].src
    OBVIOUS
  <2>2. Enters(<<k, v>>, "performing")
    BY <1>6, <2>1 DEF Performing, Source
  <2> QED BY <1>e, <1>t, <2>1, <2>2
<1> QED BY <1>2, <1>3, <1>4, <1>5, <1>6, MigrationShapes

\* A client that is past Perform and does not crash goes on, unless Finish
\* misses the placeholder or Confirm has left no mark.
LEMMA SteadyEnds ==
    ASSUME MigrationInv, [SteadyClient \/ Others]_mvars,
           NEW u \in DOMAIN client,
           client[u].pc \in {"finish", "confirm"}
    PROVE  \/ /\ u \in DOMAIN client' /\ client'[u].src = client[u].src
              /\ client'[u].pc \in {"finish", "confirm"}
           \/ client[u].pc = "finish" /\ ~InPhase(Dest(u), "prepared")
           \/ \A h : h = client[u].src => ~InPhase(<<h, u>>, "performing")'
<1> DEFINE Goes == /\ u \in DOMAIN client' /\ client'[u].src = client[u].src
                   /\ client'[u].pc \in {"finish", "confirm"}
<1>t. ClientsOK
  BY DEF MigrationInv
<1>g. ASSUME NEW v \in DOMAIN client
      PROVE  /\ \A pc : Goto(v, pc) => GoesTo(v, pc)
             /\ Done(v) => /\ DOMAIN client' = DOMAIN client \ {v}
                           /\ \A w \in DOMAIN client' : client'[w] = client[w]
  BY <1>t, ClientMoves, ClientRelies
<1>1. CASE UNCHANGED client
  BY <1>1
<1>2. ASSUME NEW v \in DOMAIN client, v # u,
             Done(v) \/ (\E pc : Goto(v, pc))
      PROVE  Goes
  BY <1>2, <1>g DEF GoesTo
<1>3. ASSUME NEW v \in Uuids, NEW src \in Hosts, NEW dest \in Hosts,
             NEW c \in RpcCalls, Begin(v, src, dest, c)
      PROVE  Goes
  BY <1>3 DEF Begin, Put
<1>4. ASSUME NEW c \in DOMAIN preparing, Prepared(c) \/ Refused(c)
      PROVE  Goes
  BY <1>1, <1>2, <1>4 DEF Prepared, Refused, Waits
<1>5. ASSUME NEW v \in DOMAIN client, v # u,
             Perform(v) \/ Finish(v) \/ Confirm(v) \/ RollBack(v)
      PROVE  Goes
  BY <1>2, <1>5 DEF Perform, Finish, Confirm, RollBack
<1>6. CASE Perform(u) \/ RollBack(u)
  BY <1>6 DEF Perform, RollBack
<1>7. CASE Finish(u)
  <2>1. CASE Goto(u, "confirm")
    BY <1>g, <2>1 DEF GoesTo
  <2> QED BY <1>7, <2>1 DEF Finish
<1>8. CASE Confirm(u)
  <2>1. PICK h : h = client[u].src
    OBVIOUS
  <2>2. ~(/\ <<h, u>> \in DOMAIN domains'
          /\ domains'[<<h, u>>].migration = "performing")
    BY <1>8, <2>1 DEF Confirm, InPhase, MigrateConfirm, Drop, Restrict, vars,
                      domainVars, Source
  <2> QED BY <2>1, <2>2 DEF InPhase
<1>9. CASE Others
  BY <1>1, <1>9 DEF Others, OtherDefinitions, OtherManagement, OtherLifecycle
<1> QED BY <1>1, <1>3, <1>4, <1>5, <1>6, <1>7, <1>8, <1>9
        DEF SteadyClient, mvars

\* A client comes to Perform by its own Prepare call, which has made the
\* placeholder.
LEMMA PerformStarts ==
    ASSUME MigrationInv, PlaceholdersCount, [MigrationNext]_mvars,
           NEW u \in DOMAIN client', client'[u].pc = "perform"
    PROVE  /\ u \in DOMAIN client
           /\ client[u].pc = "perform" \/ InPhase(Dest(u), "prepared")'
<1>t. ClientsOK
  BY DEF MigrationInv
<1>g. ASSUME NEW v \in DOMAIN client
      PROVE  /\ \A pc : Goto(v, pc) => GoesTo(v, pc)
             /\ Done(v) => /\ DOMAIN client' = DOMAIN client \ {v}
                           /\ \A w \in DOMAIN client' : client'[w] = client[w]
  BY <1>t, ClientMoves, ClientRelies
<1> DEFINE Before == u \in DOMAIN client /\ client[u].pc = "perform"
<1>1. CASE UNCHANGED client
  BY <1>1
<1>2. ASSUME NEW v \in DOMAIN client,
             Done(v) \/ (\E pc : Goto(v, pc) /\ (v = u => pc # "perform"))
      PROVE  Before
  BY <1>2, <1>g DEF GoesTo
<1>3. ASSUME NEW v \in Uuids, NEW src \in Hosts, NEW dest \in Hosts,
             NEW c \in RpcCalls, Begin(v, src, dest, c)
      PROVE  Before
  BY <1>3 DEF Begin, Put
<1>4. ASSUME NEW c \in DOMAIN preparing, Refused(c) PROVE Before
  BY <1>1, <1>2, <1>4 DEF Refused, Waits
<1>5. ASSUME NEW c \in DOMAIN preparing, Prepared(c)
      PROVE  Before \/ (u \in DOMAIN client /\ InPhase(Dest(u), "prepared")')
  <2>1. PICK v, k : v = preparing[c].uuid /\ k = preparing[c].host
    OBVIOUS
  <2>2. /\ <<k, v>> \in DOMAIN domains'
        /\ domains'[<<k, v>>].migration = "prepared"
    BY <1>5, <2>1 DEF Prepared, MigratePrepare, Put
  <2>3. CASE u = v /\ Waits(v, c)
    <3>1. u \in DOMAIN client /\ client[u].dest = k
      BY <2>1, <2>3 DEF Waits, PlaceholdersCount
    <3>2. Goto(u, "perform")
      BY <1>5, <2>1, <2>3 DEF Prepared
    <3>3. client'[u].dest = client[u].dest
      BY <1>g, <3>1, <3>2 DEF GoesTo
    <3> QED BY <2>2, <2>3, <3>1, <3>3 DEF InPhase, Dest
  <2>4. CASE Waits(v, c) /\ u # v
    <3>1. v \in DOMAIN client /\ Goto(v, "perform")
      BY <1>5, <2>1, <2>4 DEF Prepared, Waits
    <3> QED BY <1>2, <2>4, <3>1
  <2>5. CASE ~Waits(v, c)
    BY <1>1, <1>5, <2>1, <2>5 DEF Prepared
  <2> QED BY <2>3, <2>4, <2>5
<1>6. ASSUME NEW v \in DOMAIN client,
             Perform(v) \/ Finish(v) \/ Confirm(v) \/ RollBack(v) \/ Crash(v)
      PROVE  Before
  BY <1>2, <1>6 DEF Perform, Finish, Confirm, RollBack, Crash
<1>7. CASE Others
  BY <1>1, <1>7 DEF Others, OtherDefinitions, OtherManagement, OtherLifecycle
<1> QED BY <1>1, <1>3, <1>4, <1>5, <1>6, <1>7
        DEF MigrationNext, MigrationClient, SteadyClient, mvars

\* The placeholder on a host that clients may use stays until its client
\* finishes or ends, or a reset removes everything.
LEMMA PlaceholderKept ==
    ASSUME MigrationInv, [MigrationNext]_mvars,
           NEW u \in DOMAIN client, u \in DOMAIN client',
           NEW d, d = client[u].dest, Ready(d), InPhase(<<d, u>>, "prepared")
    PROVE  \/ InPhase(<<d, u>>, "prepared")'
           \/ DOMAIN domains' = {}
           \/ Finishing(u)
<1>t. \A v, k : <<d, u>> = <<k, v>> <=> d = k /\ u = v
  OBVIOUS
<1>1. <<d, u>> \in DOMAIN domains /\ domains[<<d, u>>].migration = "prepared"
  BY DEF InPhase
<1>2. CASE Still \/ Beginning
  BY <1>1, <1>2 DEF Still, Beginning, SamePhases, InPhase
<1>3. CASE Removal
  <2>0. <<d, u>>[1] = d /\ <<d, u>>[2] = u
    OBVIOUS
  <2>1. ASSUME NEW D, Leave(D), <<d, u>> \notin D
        PROVE  InPhase(<<d, u>>, "prepared")'
    BY <1>1, <2>1 DEF Leave, InPhase
  <2>2. ASSUME NEW p, Leave({p}), p[2] \notin DOMAIN client'
        PROVE  InPhase(<<d, u>>, "prepared")'
    <3>1. <<d, u>> \notin {p}
      BY <2>0, <2>2
    <3> QED BY <2>1, <2>2, <3>1
  <2>3. ASSUME NEW h, Leave({p \in DOMAIN domains : p[1] = h}), ~Ready(h)
        PROVE  InPhase(<<d, u>>, "prepared")'
    <3>1. <<d, u>> \notin {p \in DOMAIN domains : p[1] = h}
      BY <2>0, <2>3
    <3> QED BY <2>1, <2>3, <3>1
  <2> QED BY <1>3, <2>2, <2>3 DEF Removal
<1>e. ASSUME NEW p, NEW phase, Enters(p, phase), <<d, u>> # p
      PROVE  InPhase(<<d, u>>, "prepared")'
  BY <1>1, <1>e DEF Enters, InPhase
<1>4. CASE Reserving
  BY <1>1, <1>4, <1>e DEF Reserving
<1>5. CASE Defining
  BY <1>5, <1>e, <1>t DEF Defining
<1>6. ASSUME NEW v \in DOMAIN client, Performing(v)
      PROVE  InPhase(<<d, u>>, "prepared")'
  BY <1>1, <1>6, <1>e DEF Performing
<1>7. ASSUME NEW v \in DOMAIN client, Finishing(v), v # u
      PROVE  InPhase(<<d, u>>, "prepared")'
  <2>1. PICK k : k = client[v].dest
    OBVIOUS
  <2>2. Enters(<<k, v>>, "none")
    BY <1>7, <2>1 DEF Finishing, Dest
  <2> QED BY <1>7, <1>e, <1>t, <2>2
<1> QED BY <1>2, <1>3, <1>4, <1>5, <1>6, <1>7, MigrationShapes

\* Every step keeps the placeholders that Finish is to find.
LEMMA WaitStep ==
    ASSUME MigrationInv, TypeOK', PlaceholdersCount, PlaceholdersWait,
           [MigrationNext]_mvars
    PROVE  PlaceholdersWait'
<1> SUFFICES ASSUME NEW u \in DOMAIN client',
                    client'[u].pc \in {"perform", "finish"},
                    client'[u].src \in Copies(u)'
             PROVE  InPhase(Dest(u), "prepared")'
    BY DEF PlaceholdersWait
<1>0. ClientsOK /\ DestinationSafe
  BY DEF MigrationInv
<1>1. /\ u \in DOMAIN client
      /\ \/ client[u].pc \in {"perform", "finish"}
         \/ client'[u].pc = "perform"
  <2>1. client'[u].pc = "finish" =>
            u \in DOMAIN client /\ client[u].pc \in {"perform", "finish"}
    BY MigrationShapes DEF Still, Removal, Beginning, Put, Reserving, Defining,
       Performing, Finishing, ClientsQuiet, GoesTo
  <2> QED BY <2>1, PerformStarts
<1>2. CASE client[u].pc \notin {"perform", "finish"}
  BY <1>1, <1>2, PerformStarts
<1>3. CASE client[u].pc \in {"perform", "finish"}
  <2>1. client'[u].src = client[u].src /\ client'[u].dest = client[u].dest
    BY <1>1, MigrationShapes DEF Still, Removal, Beginning, Put, Reserving,
       Defining, Performing, Finishing, ClientsQuiet, GoesTo
  <2>2. client[u].src \in Copies(u)
    BY <1>0, <1>1, <2>1, CopiesStep DEF ClientsOK
  <2>3. PICK d : d = client[u].dest
    OBVIOUS
  <2>4. InPhase(<<d, u>>, "prepared") /\ Ready(d)
    BY <1>0, <1>1, <1>3, <2>2, <2>3 DEF PlaceholdersWait, DestinationSafe, Dest
  <2>5. DOMAIN domains' # {}
    BY CopyPlaces
  <2>6. ~Finishing(u)
    BY DEF Finishing, GoesTo
  <2>7. InPhase(<<d, u>>, "prepared")'
    BY <1>1, <2>3, <2>4, <2>5, <2>6, PlaceholderKept
  <2> QED BY <2>1, <2>3, <2>7 DEF InPhase, Dest
<1> QED BY <1>2, <1>3

\* Every step of clients that do not crash leaves each mark with its client.
LEMMA OwnedStep ==
    ASSUME MigrationInv, PlaceholdersWait, MarksOwned,
           [SteadyClient \/ Others]_mvars
    PROVE  MarksOwned'
<1>n. [MigrationNext]_mvars
  BY DEF MigrationNext, MigrationClient
<1> SUFFICES ASSUME NEW u, NEW h, InPhase(<<h, u>>, "performing")'
             PROVE  /\ u \in DOMAIN client' /\ h = client'[u].src
                    /\ client'[u].pc \in {"finish", "confirm"}
    BY DEF MarksOwned
<1>1. CASE u \in DOMAIN client /\ Performing(u) /\ h = client[u].src
  BY <1>1 DEF Performing, GoesTo
<1>2. CASE InPhase(<<h, u>>, "performing")
  <2>1. /\ u \in DOMAIN client /\ h = client[u].src
        /\ client[u].pc \in {"finish", "confirm"}
    BY <1>2 DEF MarksOwned
  <2>2. h \in Copies(u)
    <3>1. client[u] \in Migration
      BY <2>1, MapValue DEF MigrationInv, ClientsOK
    <3>2. h \in Hosts
      BY <2>1, <3>1 DEF Migration
    <3> QED BY <1>2, <3>2, CopyPlaces DEF InPhase
  <2>3. client[u].pc = "finish" => InPhase(Dest(u), "prepared")
    BY <2>1, <2>2 DEF PlaceholdersWait
  <2> QED BY <2>1, <2>3, SteadyEnds
<1> QED BY <1>1, <1>2, <1>n, MarksStep

\* If no migration client crashes, a domain runs on one host, except between
\* Finish and Confirm of its migration, whatever others start and stop.
THEOREM RunsOnceSafe == SteadySpec => []RunsOnce
<1> DEFINE Inv == PlaceholdersCount /\ PlaceholdersWait /\ MarksOwned
<1>1. MigrationInit => Inv
  BY EmptyIsMap DEF MigrationInit, Init, PlaceholdersCount, PlaceholdersWait,
                    MarksOwned, InPhase
<1>2. [SteadyClient \/ Others]_mvars => [MigrationNext]_mvars
  BY DEF MigrationNext, MigrationClient
<1>3. /\ MigrationInv /\ MigrationInv' /\ Inv
      /\ [SteadyClient \/ Others]_mvars
      => Inv'
  <2> SUFFICES ASSUME MigrationInv, MigrationInv', Inv,
                      [SteadyClient \/ Others]_mvars
               PROVE  Inv'
      OBVIOUS
  <2>1. TypeOK' /\ [MigrationNext]_mvars
    BY <1>2 DEF MigrationInv
  <2> QED BY <2>1, PlaceholdersStep, WaitStep, OwnedStep
<1>4. MigrationInv /\ MarksOwned => RunsOnce
  <2> SUFFICES ASSUME MigrationInv, MarksOwned, NEW u \in Uuids,
                      u \in DOMAIN client => client[u].pc # "confirm",
                      NEW h \in Running(u), NEW k \in Running(u)
               PROVE  h = k
      BY DEF RunsOnce
  <2>1. \A g \in Running(u) :
            \/ g \in Unmarked(u)
            \/ InPhase(<<g, u>>, "performing")
    <3> SUFFICES ASSUME NEW g \in Running(u)
                 PROVE  g \in Unmarked(u) \/ InPhase(<<g, u>>, "performing")
        OBVIOUS
    <3>1. /\ g \in Where(u) /\ <<g, u>> \in DOMAIN domains
          /\ domains[<<g, u>>].migration # "prepared"
      BY DEF Running, Copies, Where
    <3>2. domains[<<g, u>>] \in Domain
      BY <3>1, MapValue DEF MigrationInv, TypeOK
    <3> QED BY <3>1, <3>2 DEF Domain, MigrationStates, Unmarked, InPhase
  <2>2. \A g : InPhase(<<g, u>>, "performing") =>
            u \in DOMAIN client /\ g = client[u].src /\ Unmarked(u) = {}
    BY DEF MarksOwned, MigrationInv, OneSettled
  <2>3. CASE h \in Unmarked(u) /\ k \in Unmarked(u)
    BY <2>3 DEF MigrationInv, OneSettled
  <2>4. CASE h \notin Unmarked(u) \/ k \notin Unmarked(u)
    <3>1. Unmarked(u) = {}
      BY <2>1, <2>2, <2>4
    <3>2. InPhase(<<h, u>>, "performing") /\ InPhase(<<k, u>>, "performing")
      BY <2>1, <3>1
    <3> QED BY <2>2, <3>2
  <2> QED BY <2>3, <2>4
<1>5. SteadySpec => MigrationSpec
  BY <1>2, PTL DEF SteadySpec, MigrationSpec
<1> HIDE DEF Inv
<1>6. Inv => MarksOwned
  BY DEF Inv
<1> QED BY <1>1, <1>3, <1>4, <1>5, <1>6, MigrationSafe, PTL DEF SteadySpec
=============================================================================
