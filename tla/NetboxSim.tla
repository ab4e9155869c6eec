------------------------------ MODULE NetboxSim ------------------------------
(***************************************************************************)
(* netbox-sim (netbox-sim/internal/state/store.go and handler/netbox.go):  *)
(* sites, locations, racks and devices that refer to each other by number, *)
(* the bulk load that fills the store and the lists that read it.          *)
(*                                                                         *)
(* Every Store method takes Store.mu for itself alone.  A bulk load is a   *)
(* sequence of Add calls that remembers the numbers of what it has added,  *)
(* and a list reads each nested reference of each item on its own, so both *)
(* are overtaken by a reset, which starts all the numbers at 1 again.      *)
(***************************************************************************)
EXTENDS Integers, Sequences, FiniteSets, Maps

CONSTANTS
    Loads,     \* slots for bulk loads, the seeding of the launcher among them
    Requests,  \* what each of them loads: the parts of a request, see Part
    Lists,     \* slots for list requests
    MaxRows    \* bound: rows in the store when a load starts

VARIABLES
    sites,      \* Store.sites
    locations,  \* Store.locations
    racks,      \* Store.racks
    devices,    \* Store.devices
    nextID,     \* Store.nextSiteID, nextLocationID, nextRackID, nextDeviceID
    loads,      \* bulkLoad calls
    lists       \* listSites, listLocations, listRacks and listDevices calls

netboxVars == <<sites, locations, racks, devices, nextID, loads, lists>>

-----------------------------------------------------------------------------
(***************************************************************************)
(* A request is the sequence of its parts in the order in which bulkLoad   *)
(* reaches them: a site, then each of its locations with what is inside,   *)
(* a location's own locations before its racks.  A part names the parts it *)
(* is nested in by their positions, with 0 for none.                       *)
(***************************************************************************)
Kinds == {"site", "location", "rack", "device"}

\* A role that is not given.
NoRole == ""

\* None, the role that is given when there is none, and any other.
Roles == {NoRole, "server", "gpu"}

Part == [kind : Kinds, site : Nat, location : Nat, rack : Nat, role : Roles]

\* What is nested comes after what it is nested in: locations in a site and in
\* locations of that site, racks in a location, devices in a rack.
WellNested(request) ==
    \A n \in 1..Len(request) :
        LET p == request[n]
        IN /\ p.site < n /\ p.location < n /\ p.rack < n
           /\ p.kind = "site" <=> p.site = 0
           /\ p.kind \in {"rack", "device"} => p.location # 0
           /\ p.kind = "device" <=> p.rack # 0
           /\ p.site # 0 => request[p.site].kind = "site"
           /\ p.location # 0 => /\ request[p.location].kind = "location"
                                /\ request[p.location].site = p.site
           /\ p.rack # 0 => /\ request[p.rack].kind = "rack"
                            /\ request[p.rack].site = p.site
                            /\ request[p.rack].location = p.location

ASSUME NetboxAssumption == /\ Requests \in [Loads -> Seq(Part)]
                           /\ \A l \in Loads : WellNested(Requests[l])

\* No reference.
Nil == <<>>

\* The names of a request are distinct: the load and the position in it.
Names == Loads \X (Nat \ {0})

PartOf(name) == Requests[name[1]][name[2]]

\* What a row of one of the four tables holds.  current: no reset came
\* between the start of the load and the Add call.
Row == [id : Nat \ {0}, name : Names, site : Nat, location : Nat, rack : Nat,
        role : Roles, current : BOOLEAN]

NetboxInit ==
    /\ sites = EmptyMap
    /\ locations = EmptyMap
    /\ racks = EmptyMap
    /\ devices = EmptyMap
    /\ nextID = [k \in Kinds |-> 1]
    /\ loads = EmptyMap
    /\ lists = EmptyMap

-----------------------------------------------------------------------------
(* Bulk loads.                                                             *)

BulkLoad(l) ==
    /\ l \notin DOMAIN loads
    /\ SumFunction(nextID) - 4 <= MaxRows
    /\ loads' = Put(loads, l, [ids |-> <<>>, current |-> TRUE])
    /\ UNCHANGED <<sites, locations, racks, devices, nextID, lists>>

\* The position of the part that load l adds next, and the part.
At(l) == Len(loads[l].ids) + 1

NextPart(l) == Requests[l][At(l)]

\* The number the load was given for the part at position n.
IdOf(l, n) == IF n = 0 THEN 0 ELSE loads[l].ids[n]

\* Mutant: hands down the number of the enclosing location's own parent.
NewRowOneUp(l) ==
    LET p == NextPart(l)
        up == IF p.location = 0 THEN 0 ELSE Requests[l][p.location].location
    IN [id |-> nextID[p.kind], name |-> <<l, At(l)>>, site |-> IdOf(l, p.site),
        location |-> IF p.kind = "rack" THEN IdOf(l, up)
                     ELSE IdOf(l, p.location),
        rack |-> IdOf(l, p.rack),
        role |-> IF p.kind = "device" /\ p.role = NoRole THEN "server" ELSE p.role,
        current |-> loads[l].current]

\* The row an Add call makes of the next part: a location's parent is in
\* its field location, and a device without a role is a server.
NewRow(l) ==
    LET p == NextPart(l)
    IN [id |-> nextID[p.kind], name |-> <<l, At(l)>>, site |-> IdOf(l, p.site),
        location |-> IdOf(l, p.location), rack |-> IdOf(l, p.rack),
        role |-> IF p.kind = "device" /\ p.role = NoRole THEN "server" ELSE p.role,
        current |-> loads[l].current]

\* What the four Add methods have in common: the number they hand out.
TakeID(l, kind) ==
    /\ l \in DOMAIN loads
    /\ At(l) <= Len(Requests[l])
    /\ NextPart(l).kind = kind
    /\ nextID' = [nextID EXCEPT ![kind] = @ + 1]
    /\ loads' = [loads EXCEPT ![l].ids = Append(@, nextID[kind])]

AddSite(l) ==
    /\ TakeID(l, "site")
    /\ sites' = Put(sites, nextID["site"], NewRow(l))
    /\ UNCHANGED <<locations, racks, devices, lists>>

AddLocation(l) ==
    /\ TakeID(l, "location")
    /\ locations' = Put(locations, nextID["location"], NewRow(l))
    /\ UNCHANGED <<sites, racks, devices, lists>>

AddRack(l) ==
    /\ TakeID(l, "rack")
    /\ racks' = Put(racks, nextID["rack"], NewRow(l))
    /\ UNCHANGED <<sites, locations, devices, lists>>

AddDevice(l) ==
    /\ TakeID(l, "device")
    /\ devices' = Put(devices, nextID["device"], NewRow(l))
    /\ UNCHANGED <<sites, locations, racks, lists>>

\* The load replies, with the counts of GetStats.
Loaded(l) ==
    /\ l \in DOMAIN loads
    /\ At(l) > Len(Requests[l])
    /\ loads' = Drop(loads, l)
    /\ UNCHANGED <<sites, locations, racks, devices, nextID, lists>>

\* Mutant: the racks stay.
NetboxResetKeepsRacks ==
    /\ sites' = EmptyMap
    /\ locations' = EmptyMap
    /\ devices' = EmptyMap
    /\ nextID' = [k \in Kinds |-> 1]
    /\ loads' = [l \in DOMAIN loads |-> [loads[l] EXCEPT !.current = FALSE]]
    /\ lists' = EmptyMap
    /\ UNCHANGED racks

\* Loads and lists in progress are not told.  A load goes on and is followed;
\* a list goes on to look up numbers that may be anybody's by now, changes
\* nothing, and is followed no further.
NetboxReset ==
    /\ sites' = EmptyMap
    /\ locations' = EmptyMap
    /\ racks' = EmptyMap
    /\ devices' = EmptyMap
    /\ nextID' = [k \in Kinds |-> 1]
    /\ loads' = [l \in DOMAIN loads |-> [loads[l] EXCEPT !.current = FALSE]]
    /\ lists' = EmptyMap

-----------------------------------------------------------------------------
(* Reads of the store.                                                     *)

CountRacksInLocation(id) ==
    Cardinality({r \in DOMAIN racks : racks[r].location = id})

CountDevicesInLocation(id) ==
    Cardinality({d \in DOMAIN devices : devices[d].location = id})

CountDevicesInRack(id) ==
    Cardinality({d \in DOMAIN devices : devices[d].rack = id})

CountRacksInSite(id) ==
    Cardinality({r \in DOMAIN racks : racks[r].site = id})

CountDevicesInSite(id) ==
    Cardinality({d \in DOMAIN devices : devices[d].site = id})

\* The location and the locations it is in, up to the first that is missing
\* or seen before.
LocationAncestors(id) ==
    LET n == Cardinality(DOMAIN locations)
        Walk[k \in 0..n] ==
            IF k = 0 THEN <<>>
            ELSE LET w  == Walk[k - 1]
                     up == IF w = <<>> THEN id
                           ELSE locations[w[Len(w)]].location
                 IN IF up \in DOMAIN locations \ Range(w) THEN Append(w, up)
                    ELSE w
    IN Walk[n]

\* The rows that each list starts from, one set per choice of the filters
\* (0, -1 and the empty role stand for no filter).
Matching(kind) ==
    CASE kind = "site" -> {Range(sites)}
      [] kind = "location" ->
            {{r \in Range(locations) : /\ s = 0 \/ r.site = s
                                       /\ p = -1 \/ r.location = p} :
                s \in {0, 1}, p \in {-1, 0, 1}}
      [] kind = "rack" ->
            {{r \in Range(racks) : s = 0 \/ r.site = s} : s \in {0, 1}}
      [] kind = "device" ->
            {{r \in Range(devices) : /\ k = 0 \/ r.rack = k
                                     /\ role = NoRole \/ r.role = role} :
                k \in {0, 1}, role \in {NoRole, "server"}}

-----------------------------------------------------------------------------
(***************************************************************************)
(* List requests: the matching rows are read at once, then each is turned  *)
(* into a response by reads of its own, in the order of Reads(row).  One   *)
(* slot follows one row of a list; the conversions of the rows before it   *)
(* only take time.  got is what the last read has returned.  The counts in *)
(* the responses are reads of the same kind that nothing depends on.       *)
(***************************************************************************)
Reads(kind, row) ==
    LET up == IF row.location = 0 THEN <<>> ELSE <<"location", "locationDepth">>
    IN CASE kind = "site"     -> <<>>
         [] kind = "location" -> up \o <<"depth", "site">>
         [] kind = "rack"     -> up \o <<"site">>
         [] kind = "device"   -> up \o <<"site", "rack">>

ListBegin(q, kind, row) ==
    /\ q \notin DOMAIN lists
    /\ lists' = Put(lists, q, [kind |-> kind, row |-> row,
                               reads |-> Reads(kind, row), got |-> EmptyMap])
    /\ UNCHANGED <<sites, locations, racks, devices, nextID, loads>>

NameIn(table, id) == IF id \in DOMAIN table THEN table[id].name ELSE Nil

\* Mutant: counts the location itself as one that it is in.
ReadOffByOne(f, row) ==
    CASE f = "location"      -> NameIn(locations, row.location)
      [] f = "locationDepth" -> Len(LocationAncestors(row.location))
      [] f = "depth"         -> Len(LocationAncestors(row.id)) - 1
      [] f = "site"          -> NameIn(sites, row.site)
      [] f = "rack"          -> NameIn(racks, row.rack)

\* What one read for a row returns: siteRef, locationRef, rackRef and the
\* depth of a location response.
Read(f, row) ==
    CASE f = "location"      -> NameIn(locations, row.location)
      [] f = "locationDepth" -> Len(LocationAncestors(row.location)) - 1
      [] f = "depth"         -> Len(LocationAncestors(row.id)) - 1
      [] f = "site"          -> NameIn(sites, row.site)
      [] f = "rack"          -> NameIn(racks, row.rack)

\* A location that is missing has no depth.
ListRead(q) ==
    /\ q \in DOMAIN lists
    /\ lists[q].reads # <<>>
    /\ LET f      == Head(lists[q].reads)
           row    == lists[q].row
           missed == f = "location" /\ row.location \notin DOMAIN locations
       IN lists' = [lists EXCEPT
                        ![q].got = [x \in {f} |-> Read(x, row)],
                        ![q].reads = SubSeq(@, IF missed THEN 3 ELSE 2, Len(@))]
    /\ UNCHANGED <<sites, locations, racks, devices, nextID, loads>>

ListEnd(q) ==
    /\ q \in DOMAIN lists
    /\ lists[q].reads = <<>>
    /\ lists' = Drop(lists, q)
    /\ UNCHANGED <<sites, locations, racks, devices, nextID, loads>>

-----------------------------------------------------------------------------
LoadStep(l) == AddSite(l) \/ AddLocation(l) \/ AddRack(l) \/ AddDevice(l)
                   \/ Loaded(l)

NetboxNext ==
    \/ \E l \in Loads : BulkLoad(l) \/ LoadStep(l)
    \/ \E q \in Lists :
        \/ \E kind \in Kinds : \E row \in UNION Matching(kind) :
               ListBegin(q, kind, row)
        \/ ListRead(q)
        \/ ListEnd(q)
    \/ NetboxReset

NetboxSpec == NetboxInit /\ [][NetboxNext]_netboxVars

-----------------------------------------------------------------------------
(* Properties.                                                             *)

Table(kind) == CASE kind = "site" -> sites [] kind = "location" -> locations
                 [] kind = "rack" -> racks [] kind = "device" -> devices

\* The tables hold well-formed rows under their own numbers, below the
\* counters, so that no Add ever overwrites a row.
NetboxTypeOK ==
    /\ \A kind \in Kinds :
          /\ IsMap(Table(kind), Nat, Row)
          /\ \A id \in DOMAIN Table(kind) : /\ Table(kind)[id].id = id
                                            /\ id < nextID[kind]
    /\ nextID \in [Kinds -> Nat \ {0}]
    /\ IsMap(loads, Loads, [ids : Seq(Nat), current : BOOLEAN])
    /\ DOMAIN lists \subseteq Lists

\* The part a reference of the request points at is the one the row's number
\* leads to.
LeadsTo(table, id, l, n) ==
    IF n = 0 THEN id = 0 ELSE id \in DOMAIN table /\ table[id].name = <<l, n>>

\* As long as no load was overtaken by a reset, the racks of a site are those
\* of its locations, and its devices those of its locations and those of its
\* racks.
CountsAgree ==
    (\A kind \in Kinds : \A id \in DOMAIN Table(kind) : Table(kind)[id].current)
    => \A s \in DOMAIN sites :
        LET locs == {i \in DOMAIN locations : locations[i].site = s}
            rks  == {i \in DOMAIN racks : racks[i].site = s}
        IN /\ CountRacksInSite(s)
                = SumFunction([i \in locs |-> CountRacksInLocation(i)])
           /\ CountDevicesInSite(s)
                = SumFunction([i \in locs |-> CountDevicesInLocation(i)])
           /\ CountDevicesInSite(s)
                = SumFunction([i \in rks |-> CountDevicesInRack(i)])

\* What a load adds stands where its request has put it: in the site, the
\* location and the rack it is nested in.  Loads run side by side, and one
\* that a reset has overtaken goes on adding rows under numbers that now
\* belong to others; none of that moves what the other loads add, and the
\* three ways of counting agree.
ObjectsPlaced ==
    /\ CountsAgree
    /\ \A kind \in Kinds : \A id \in DOMAIN Table(kind) :
          LET row == Table(kind)[id]
              p   == PartOf(row.name)
              l   == row.name[1]
          IN row.current => /\ LeadsTo(sites, row.site, l, p.site)
                            /\ LeadsTo(locations, row.location, l, p.location)
                            /\ LeadsTo(racks, row.rack, l, p.rack)

\* How many locations of the request the part at n of load l is nested in.
WantedDepth(l, n) ==
    LET Depth[m \in 0..Len(Requests[l])] ==
            IF m = 0 \/ Requests[l][m].location = 0 THEN 0
            ELSE 1 + Depth[Requests[l][m].location]
    IN Depth[n]

\* A list that no reset has overtaken shows every item with the references
\* and the depths of the request that loaded it, although each of them is
\* looked up on its own while loads go on.
RepliesRight ==
    \A q \in DOMAIN lists : \A f \in DOMAIN lists[q].got :
        LET row == lists[q].row
            l   == row.name[1]
            p   == PartOf(row.name)
            wanted == [site |-> <<l, p.site>>, rack |-> <<l, p.rack>>,
                       location |-> <<l, p.location>>,
                       locationDepth |-> WantedDepth(l, p.location),
                       depth |-> WantedDepth(l, row.name[2])]
        IN row.current => lists[q].got[f] = wanted[f]
=============================================================================
