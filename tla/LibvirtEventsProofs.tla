------------------------ MODULE LibvirtEventsProofs ------------------------
(***************************************************************************)
(* The event bus of libvirt-sim, for any number of hosts, connections and  *)
(* calls: what it writes goes to subscribers of the right host, and what a *)
(* subscriber has heard last agrees with the domain.                       *)
(***************************************************************************)
EXTENDS LibvirtEvents, LibvirtProofs

-----------------------------------------------------------------------------
(***************************************************************************)
(* The types of the connections and of the calls.                          *)
(***************************************************************************)
CallbackIDs == 1..MaxCallbacks

EventTypes ==
    {"defined", "undefined", "started", "stopped", "suspended", "resumed"}

Connection == [host : Hosts,
               callbacks : UNION {[S -> EventIDs] : S \in SUBSET CallbackIDs},
               nextCBID : Nat \ {0}, left : BOOLEAN]

EventCall == [place : Places, pc : {"lookup", "emit"}, events : Seq(EventTypes),
              sending : BOOLEAN, clients : SUBSET Conns,
              cbs : SUBSET (Conns \X CallbackIDs),
              audience : SUBSET (Conns \X CallbackIDs),
              told : UNION {[S -> EventTypes] :
                               S \in SUBSET (Conns \X CallbackIDs)}]

EventsTypeOK ==
    /\ TypeOK
    /\ IsMap(conns, Conns, Connection)
    /\ \A k \in DOMAIN conns : \A b \in DOMAIN conns[k].callbacks :
          b < conns[k].nextCBID
    /\ IsMap(calls, Conns, EventCall)

-----------------------------------------------------------------------------
(***************************************************************************)
(* The invariant of a call, given the connections and the domains.         *)
(***************************************************************************)
\* Agrees, for the given domains.
AgreesIn(event, p, doms) ==
    IF p \notin DOMAIN doms THEN event \in {"undefined", "stopped"}
    ELSE CASE doms[p].state = "shutoff" -> event \in {"defined", "stopped"}
           [] doms[p].state = "paused"  -> event = "suspended"
           [] doms[p].state = "running" ->
                 \/ event = "resumed"
                 \/ event = "suspended" /\ doms[p].migration = "performing"

\* The lock is held exactly while an event is on its way.
Sends(call) ==
    /\ call.sending => call.pc = "emit" /\ call.events # <<>>
    /\ ~call.sending => call.clients = {} /\ call.cbs = {}

\* What is still to be written goes to connections to the domain's host.
Aims(call, cns) ==
    /\ \A j \in call.clients : j \in DOMAIN cns /\ cns[j].host = call.place[1]
    /\ \A cb \in call.cbs :
          cb[1] \in DOMAIN cns /\ cns[cb[1]].host = call.place[1]

\* The audience is registered with the domain's host.
Subscribed(call, cns) ==
    \A cb \in call.audience :
        /\ cb[1] \in DOMAIN cns /\ cns[cb[1]].host = call.place[1]
        /\ cb[2] \in DOMAIN cns[cb[1]].callbacks
        /\ cns[cb[1]].callbacks[cb[2]] = "lifecycle"

\* The last event to be announced agrees with the domain, which nobody has
\* changed again.
EndsRight(call, doms) ==
    call.audience # {} =>
        /\ call.pc = "lookup" =>
              /\ call.place \in DOMAIN doms
              /\ doms[call.place].state = "running"
              /\ doms[call.place].migration = "performing"
        /\ call.events # <<>> =>
              AgreesIn(call.events[Len(call.events)], call.place, doms)

\* The last event is on its way to cb, or has been written to it; when all
\* events are announced, cb has heard what agrees with the domain.
Hears(call, cb, doms) ==
    /\ call.sending /\ Len(call.events) = 1 =>
          \/ cb[1] \in call.clients \/ cb \in call.cbs
          \/ cb \in DOMAIN call.told /\ call.told[cb] = call.events[1]
    /\ call.pc = "emit" /\ call.events = <<>> =>
          cb \in DOMAIN call.told /\ AgreesIn(call.told[cb], call.place, doms)

CallRight(call, cns, doms) ==
    /\ Sends(call) /\ Aims(call, cns) /\ Subscribed(call, cns)
    /\ EndsRight(call, doms)
    /\ \A cb \in call.audience : cns[cb[1]].left \/ Hears(call, cb, doms)

\* Calls that overlap on a domain have no audience.
AudiencesApart ==
    \A k, j \in DOMAIN calls :
        k # j /\ calls[k].place = calls[j].place => calls[k].audience = {}

EventsInv ==
    /\ EventsTypeOK
    /\ \A k \in DOMAIN calls : CallRight(calls[k], conns, domains)
    /\ AudiencesApart

-----------------------------------------------------------------------------
(* What keeps a call right.                                                *)

\* Connections may come, and those there are may register more callbacks,
\* drop others than life-cycle ones, or be closed by their clients.
LEMMA ConnsMore ==
    ASSUME NEW call, NEW cns, NEW more, NEW doms, CallRight(call, cns, doms),
           \A k \in DOMAIN cns :
               /\ k \in DOMAIN more /\ more[k].host = cns[k].host
               /\ cns[k].left => more[k].left
               /\ \A b \in DOMAIN cns[k].callbacks :
                     cns[k].callbacks[b] = "lifecycle" =>
                         /\ b \in DOMAIN more[k].callbacks
                         /\ more[k].callbacks[b] = "lifecycle"
    PROVE  CallRight(call, more, doms)
<1>1. Aims(call, more)
  BY DEF CallRight, Aims
<1>2. Subscribed(call, more)
  BY DEF CallRight, Subscribed
<1>3. \A cb \in call.audience : more[cb[1]].left \/ Hears(call, cb, doms)
  BY DEF CallRight, Subscribed
<1> QED BY <1>1, <1>2, <1>3 DEF CallRight

\* A call whose audience the callbacks of connection k have left.
WithoutHearer(call, k) ==
    LET kept == {cb \in call.audience : cb[1] # k}
    IN [call EXCEPT !.audience = kept, !.told = Restrict(@, kept \cap DOMAIN @)]

\* The callbacks of connection k leave the audience, and k loses them, or is
\* unregistered while nothing is sent.
LEMMA ConnUnheard ==
    ASSUME NEW call \in EventCall, NEW cns, NEW rest, NEW doms,
           CallRight(call, cns, doms), NEW k,
           \A j \in DOMAIN cns : j # k =>
               j \in DOMAIN rest /\ rest[j] = cns[j],
           \/ k \in DOMAIN cns => k \in DOMAIN rest /\ rest[k].host = cns[k].host
           \/ ~call.sending
    PROVE  LET new == WithoutHearer(call, k)
           IN new \in EventCall /\ new.place = call.place
              /\ new.audience \subseteq call.audience
              /\ CallRight(new, rest, doms)
<1> DEFINE kept == {cb \in call.audience : cb[1] # k}
           told == Restrict(call.told, kept \cap DOMAIN call.told)
           new == [call EXCEPT !.audience = kept, !.told = told]
<1>1. /\ DOMAIN told = kept \cap DOMAIN call.told
      /\ \A cb \in DOMAIN told : told[cb] = call.told[cb]
  BY DEF Restrict
<1>2. kept \in SUBSET (Conns \X CallbackIDs)
  BY DEF EventCall
<1>3. told \in UNION {[S -> EventTypes] : S \in SUBSET (Conns \X CallbackIDs)}
  <2>1. call.told \in UNION {[S -> EventTypes] : S \in SUBSET (Conns \X CallbackIDs)}
    BY DEF EventCall
  <2>2. PICK S \in SUBSET (Conns \X CallbackIDs) : call.told \in [S -> EventTypes]
    BY <2>1
  <2>3. told \in [kept \cap S -> EventTypes]
    BY <2>2 DEF Restrict
  <2> QED BY <1>2, <2>3
<1>4. kept \subseteq call.audience /\ \A cb \in kept : cb[1] # k
  OBVIOUS
<1> HIDE DEF kept, told
<1>5. /\ new \in EventCall /\ new.place = call.place /\ new.pc = call.pc
      /\ new.events = call.events /\ new.sending = call.sending
      /\ new.clients = call.clients /\ new.cbs = call.cbs
      /\ new.audience = kept /\ new.told = told
  BY <1>2, <1>3 DEF EventCall
<1>6. WithoutHearer(call, k) = new
  BY DEF WithoutHearer, told, kept
<1> HIDE DEF new
<1>7. Sends(new)
  BY <1>5 DEF CallRight, Sends
<1>8. Aims(new, rest)
  BY <1>5, <1>7 DEF CallRight, Aims, Sends
<1>9. Subscribed(new, rest)
  BY <1>4, <1>5 DEF CallRight, Subscribed
<1>10. EndsRight(new, doms)
  BY <1>4, <1>5 DEF CallRight, EndsRight
<1>11. ASSUME NEW cb \in new.audience, ~rest[cb[1]].left
       PROVE  Hears(new, cb, doms)
  <2>1. cb \in call.audience /\ cb[1] # k /\ cb[1] \in DOMAIN cns
    BY <1>4, <1>5, <1>11 DEF CallRight, Subscribed
  <2>2. Hears(call, cb, doms)
    BY <1>11, <2>1 DEF CallRight
  <2> QED BY <1>1, <1>5, <1>11, <2>2 DEF Hears
<1>12. CallRight(new, rest, doms)
  BY <1>7, <1>8, <1>9, <1>10, <1>11 DEF CallRight
<1> QED BY <1>4, <1>5, <1>6, <1>12

\* Nobody has been told anything.
LEMMA NobodyTold ==
    EmptyMap \in UNION {[S -> EventTypes] : S \in SUBSET (Conns \X CallbackIDs)}
  BY ZenonT(60) DEF EmptyMap

\* Another call changes the domain: the audience is dismissed.
LEMMA CallDismissed ==
    ASSUME NEW call \in EventCall, NEW cns, NEW doms, NEW other,
           CallRight(call, cns, doms)
    PROVE  LET new == [call EXCEPT !.audience = {}, !.told = EmptyMap]
           IN new \in EventCall /\ new.place = call.place
              /\ new.sending = call.sending /\ new.audience = {}
              /\ CallRight(new, cns, other)
<1> DEFINE new == [call EXCEPT !.audience = {}, !.told = EmptyMap]
<1>2. /\ new \in EventCall /\ new.place = call.place /\ new.pc = call.pc
      /\ new.events = call.events /\ new.sending = call.sending
      /\ new.clients = call.clients /\ new.cbs = call.cbs
      /\ new.audience = {}
  BY NobodyTold DEF EventCall
<1> HIDE DEF new
<1>3. CallRight(new, cns, other)
  BY <1>2 DEF CallRight, Sends, Aims, Subscribed, EndsRight
<1> QED BY <1>2, <1>3 DEF new

\* Other domains may change.
LEMMA OthersChange ==
    ASSUME NEW call, NEW cns, NEW doms, NEW other, CallRight(call, cns, doms),
           call.place \in DOMAIN other <=> call.place \in DOMAIN doms,
           call.place \in DOMAIN doms => other[call.place] = doms[call.place]
    PROVE  CallRight(call, cns, other)
<1>1. \A event : AgreesIn(event, call.place, doms) =>
                     AgreesIn(event, call.place, other)
  BY DEF AgreesIn
<1>2. EndsRight(call, other)
  BY <1>1 DEF CallRight, EndsRight
<1>3. \A cb : Hears(call, cb, doms) => Hears(call, cb, other)
  BY <1>1 DEF Hears
<1> QED BY <1>2, <1>3 DEF CallRight

\* The events of a call that has left the domain at p as it is in doms.
Announces(p, pc, evs, doms) ==
    /\ pc = "emit" => evs # <<>>
    /\ pc = "lookup" => /\ p \in DOMAIN doms /\ doms[p].state = "running"
                        /\ doms[p].migration = "performing"
    /\ evs # <<>> => AgreesIn(evs[Len(evs)], p, doms)

\* The callbacks are registered with the host of p.
Listening(audience, p, cns) ==
    \A cb \in audience :
        /\ cb[1] \in DOMAIN cns /\ cns[cb[1]].host = p[1]
        /\ cb[2] \in DOMAIN cns[cb[1]].callbacks
        /\ cns[cb[1]].callbacks[cb[2]] = "lifecycle"

\* A call as it begins.
FreshCall(p, pc, evs, audience) ==
    [place |-> p, pc |-> pc, events |-> evs, sending |-> FALSE,
     clients |-> {}, cbs |-> {}, audience |-> audience, told |-> EmptyMap]

\* A call that has just changed its domain, with the events it will announce.
LEMMA CallBegins ==
    ASSUME NEW p \in Places, NEW pc \in {"lookup", "emit"},
           NEW evs \in Seq(EventTypes),
           NEW audience \in SUBSET (Conns \X CallbackIDs), NEW cns, NEW doms,
           Announces(p, pc, evs, doms), Listening(audience, p, cns),
           NEW new, new = FreshCall(p, pc, evs, audience)
    PROVE  new \in EventCall /\ new.place = p /\ new.audience = audience
           /\ CallRight(new, cns, doms)
<1>2. /\ new \in EventCall /\ new.place = p /\ new.pc = pc
      /\ new.events = evs /\ new.sending = FALSE
      /\ new.clients = {} /\ new.cbs = {} /\ new.audience = audience
  BY NobodyTold DEF EventCall, FreshCall
<1>3. Sends(new) /\ Aims(new, cns) /\ Subscribed(new, cns)
  BY <1>2 DEF Sends, Aims, Subscribed, Listening
<1>4. EndsRight(new, doms)
  BY <1>2 DEF EndsRight, Announces
<1>5. \A cb : Hears(new, cb, doms)
  BY <1>2 DEF Hears, Announces
<1> QED BY <1>2, <1>3, <1>4, <1>5 DEF CallRight

-----------------------------------------------------------------------------
(* The steps of a call.                                                    *)

\* Dropping the first event of several leaves the last one.
LEMMA TailKeepsLast ==
    ASSUME NEW S, NEW s \in Seq(S), s # <<>>
    PROVE  /\ Tail(s) \in Seq(S)
           /\ Tail(s) = <<>> => Len(s) = 1
           /\ Tail(s) # <<>> => Tail(s)[Len(Tail(s))] = s[Len(s)]
<1>1. Len(s) \in Nat /\ Len(s) > 0
  OBVIOUS
<1>2. Tail(s) \in Seq(S) /\ Len(Tail(s)) = Len(s) - 1
  BY <1>1
<1>3. Tail(s) = <<>> => Len(s) = 1
  <2>1. PICK rest : rest = Tail(s)
    OBVIOUS
  <2>2. rest = <<>> => Len(rest) = 0
    OBVIOUS
  <2> QED BY <1>1, <1>2, <2>1, <2>2
<1>4. Tail(s) # <<>> => Tail(s)[Len(Tail(s))] = s[Len(s)]
  BY <1>1, <1>2
<1> QED BY <1>2, <1>3, <1>4

\* Looking up the source of a migration for its transfer.
LEMMA LookupRight ==
    ASSUME NEW call \in EventCall, NEW cns, NEW doms,
           CallRight(call, cns, doms), call.pc = "lookup"
    PROVE  LET new == [call EXCEPT
                          !.pc = "emit",
                          !.events = IF call.place \in DOMAIN doms
                                     THEN <<"suspended">> ELSE <<>>]
           IN /\ new \in EventCall /\ new.place = call.place
              /\ new.audience = call.audience /\ CallRight(new, cns, doms)
<1> DEFINE evs == IF call.place \in DOMAIN doms THEN <<"suspended">> ELSE <<>>
           new == [call EXCEPT !.pc = "emit", !.events = evs]
<1>1. evs \in Seq(EventTypes)
  <2>1. "suspended" \in EventTypes
    BY DEF EventTypes
  <2> QED BY <2>1
<1>2. call.place \in DOMAIN doms => /\ evs # <<>> /\ Len(evs) = 1
                                    /\ evs[1] = "suspended"
  OBVIOUS
<1> HIDE DEF evs
<1>3. /\ new \in EventCall /\ new.place = call.place /\ new.pc = "emit"
      /\ new.events = evs /\ new.sending = call.sending
      /\ new.clients = call.clients /\ new.cbs = call.cbs
      /\ new.audience = call.audience /\ new.told = call.told
  BY <1>1 DEF EventCall
<1> HIDE DEF new
<1>4. ~call.sending
  BY DEF CallRight, Sends
<1>5. Sends(new) /\ Aims(new, cns) /\ Subscribed(new, cns)
  BY <1>3, <1>4 DEF CallRight, Sends, Aims, Subscribed
<1>6. call.audience # {} => /\ call.place \in DOMAIN doms
                            /\ AgreesIn("suspended", call.place, doms)
  BY DEF CallRight, EndsRight, AgreesIn
<1>7. EndsRight(new, doms)
  BY <1>2, <1>3, <1>6 DEF EndsRight
<1>8. \A cb \in call.audience : Hears(new, cb, doms)
  BY <1>2, <1>3, <1>4, <1>6 DEF Hears
<1>9. CallRight(new, cns, doms)
  BY <1>3, <1>5, <1>7, <1>8 DEF CallRight
<1> QED BY <1>3, <1>9 DEF new, evs

\* A call that is about to take the read lock for its next event.
Pending(call) == call.pc = "emit" /\ call.events # <<>> /\ ~call.sending

\* The connections to the host of the call's domain.
AllClients(clients, call, cns) ==
    clients = {j \in DOMAIN cns : cns[j].host = call.place[1]}

\* The callbacks of client j, those of the audience among them.
AllCallbacks(cbs, j, call) ==
    /\ \A cb \in cbs : cb[1] = j
    /\ \A cb \in call.audience : cb[1] = j => cb \in cbs

\* The call once it has taken the lock, and once it has come to client j.
Locked(call, clients) == [call EXCEPT !.sending = TRUE, !.clients = clients]

Visiting(call, j, cbs) == [call EXCEPT !.clients = @ \ {j}, !.cbs = cbs]

\* Taking the read lock: the event is on its way to every client of the host.
LEMMA BeginRight ==
    ASSUME NEW call \in EventCall, NEW cns, NEW doms,
           CallRight(call, cns, doms), Pending(call),
           NEW clients \in SUBSET Conns, AllClients(clients, call, cns),
           NEW new, new = Locked(call, clients)
    PROVE  /\ new \in EventCall /\ new.place = call.place
           /\ new.audience = call.audience /\ CallRight(new, cns, doms)
<1>1. /\ new \in EventCall /\ new.place = call.place /\ new.pc = "emit"
      /\ new.events = call.events /\ new.sending = TRUE
      /\ new.clients = clients /\ new.cbs = call.cbs
      /\ new.audience = call.audience /\ new.told = call.told
      /\ call.events # <<>> /\ ~call.sending
  BY DEF EventCall, Pending, Locked
<1>2. Sends(new) /\ Aims(new, cns) /\ Subscribed(new, cns)
  BY <1>1, ZenonT(60) DEF CallRight, Sends, Aims, Subscribed, AllClients
<1>3. EndsRight(new, doms)
  BY <1>1 DEF CallRight, EndsRight
<1>4. \A cb \in call.audience : Hears(new, cb, doms)
  BY <1>1 DEF CallRight, Subscribed, Hears, AllClients
<1>5. CallRight(new, cns, doms)
  BY <1>1, <1>2, <1>3, <1>4 DEF CallRight
<1> QED BY <1>1, <1>5

\* Coming to a client: the event is on its way to its callbacks.
LEMMA VisitRight ==
    ASSUME NEW call \in EventCall, NEW cns, NEW doms,
           CallRight(call, cns, doms), call.cbs = {}, NEW j \in call.clients,
           NEW cbs \in SUBSET (Conns \X CallbackIDs),
           AllCallbacks(cbs, j, call),
           NEW new, new = Visiting(call, j, cbs)
    PROVE  /\ new \in EventCall /\ new.place = call.place
           /\ new.audience = call.audience /\ CallRight(new, cns, doms)
<1>1. /\ new \in EventCall /\ new.place = call.place /\ new.pc = call.pc
      /\ new.events = call.events /\ new.sending = call.sending
      /\ new.clients = call.clients \ {j} /\ new.cbs = cbs
      /\ new.audience = call.audience /\ new.told = call.told
  BY DEF EventCall, Visiting
<1>2. call.sending /\ j \in DOMAIN cns /\ cns[j].host = call.place[1]
  BY DEF CallRight, Sends, Aims, EventCall
<1>3. Sends(new) /\ Aims(new, cns) /\ Subscribed(new, cns)
  BY <1>1, <1>2 DEF CallRight, Sends, Aims, Subscribed, AllCallbacks
<1>4. EndsRight(new, doms)
  BY <1>1 DEF CallRight, EndsRight
<1>5. \A cb \in call.audience : Hears(call, cb, doms) => Hears(new, cb, doms)
  BY <1>1 DEF Hears, AllCallbacks
<1>6. CallRight(new, cns, doms)
  BY <1>1, <1>3, <1>4, <1>5 DEF CallRight
<1> QED BY <1>1, <1>6

\* Writing to a callback: it has heard the event, or its client has left.
LEMMA WriteRight ==
    ASSUME NEW call \in EventCall, NEW cns, NEW doms,
           CallRight(call, cns, doms), NEW cb \in call.cbs,
           NEW told \in UNION {[S -> EventTypes] :
                                  S \in SUBSET (Conns \X CallbackIDs)},
           \/ told = call.told /\ (cb \in call.audience => cns[cb[1]].left)
           \/ told = Put(call.told, cb, call.events[1])
    PROVE  LET new == [call EXCEPT !.told = told, !.cbs = @ \ {cb}]
           IN /\ new \in EventCall /\ new.place = call.place
              /\ new.audience = call.audience /\ CallRight(new, cns, doms)
<1> DEFINE new == [call EXCEPT !.told = told, !.cbs = @ \ {cb}]
<1>1. /\ new \in EventCall /\ new.place = call.place /\ new.pc = call.pc
      /\ new.events = call.events /\ new.sending = call.sending
      /\ new.clients = call.clients /\ new.cbs = call.cbs \ {cb}
      /\ new.audience = call.audience /\ new.told = told
  BY DEF EventCall
<1> HIDE DEF new
<1>2. call.sending /\ call.events # <<>>
  BY DEF CallRight, Sends, EventCall
<1>3. Sends(new) /\ Aims(new, cns) /\ Subscribed(new, cns)
  BY <1>1, <1>2 DEF CallRight, Sends, Aims, Subscribed
<1>4. EndsRight(new, doms)
  BY <1>1 DEF CallRight, EndsRight
<1>5. ASSUME NEW c \in call.audience, ~cns[c[1]].left
      PROVE  Hears(new, c, doms)
  <2>1. Hears(call, c, doms)
    BY <1>5 DEF CallRight
  <2>2. CASE c = cb
    BY <1>1, <1>2, <1>5, <2>2 DEF Hears, Put
  <2>3. CASE c # cb
    BY <1>1, <1>2, <2>1, <2>3 DEF Hears, Put
  <2> QED BY <2>2, <2>3
<1>6. CallRight(new, cns, doms)
  BY <1>1, <1>3, <1>4, <1>5 DEF CallRight
<1> QED BY <1>1, <1>6 DEF new

\* Releasing the lock: after the last event everybody has heard it.
LEMMA EndRight ==
    ASSUME NEW call \in EventCall, NEW cns, NEW doms,
           CallRight(call, cns, doms), call.sending, call.clients = {},
           call.cbs = {}
    PROVE  LET new == [call EXCEPT !.sending = FALSE, !.events = Tail(@)]
           IN /\ new \in EventCall /\ new.place = call.place
              /\ new.audience = call.audience /\ CallRight(new, cns, doms)
<1> DEFINE evs == Tail(call.events)
           new == [call EXCEPT !.sending = FALSE, !.events = evs]
<1>1. /\ call.events \in Seq(EventTypes) /\ call.events # <<>>
      /\ call.pc = "emit"
  BY DEF CallRight, Sends, EventCall
<1>2. /\ evs \in Seq(EventTypes)
      /\ evs = <<>> => Len(call.events) = 1
      /\ evs # <<>> => evs[Len(evs)] = call.events[Len(call.events)]
  <2>1. PICK s \in Seq(EventTypes) : s = call.events
    BY <1>1
  <2> QED BY <1>1, <2>1, TailKeepsLast
<1> HIDE DEF evs
<1>3. /\ new \in EventCall /\ new.place = call.place /\ new.pc = "emit"
      /\ new.events = evs /\ new.sending = FALSE
      /\ new.clients = call.clients /\ new.cbs = call.cbs
      /\ new.audience = call.audience /\ new.told = call.told
  BY <1>1, <1>2 DEF EventCall
<1>4. [call EXCEPT !.sending = FALSE, !.events = Tail(@)] = new
  BY DEF evs
<1> HIDE DEF new
<1>5. Sends(new) /\ Aims(new, cns) /\ Subscribed(new, cns)
  BY <1>3 DEF CallRight, Sends, Aims, Subscribed
<1>6. EndsRight(new, doms)
  BY <1>1, <1>2, <1>3 DEF CallRight, EndsRight
<1>7. ASSUME NEW cb \in call.audience, Hears(call, cb, doms)
      PROVE  Hears(new, cb, doms)
  <2>1. AgreesIn(call.events[Len(call.events)], call.place, doms)
    BY <1>1, <1>7 DEF CallRight, EndsRight
  <2>2. ASSUME evs = <<>>
        PROVE  cb \in DOMAIN call.told
               /\ AgreesIn(call.told[cb], call.place, doms)
    BY <1>2, <1>7, <2>1, <2>2 DEF Hears
  <2> QED BY <1>3, <2>2 DEF Hears
<1>8. CallRight(new, cns, doms)
  BY <1>3, <1>5, <1>6, <1>7 DEF CallRight
<1> QED BY <1>3, <1>4, <1>8

-----------------------------------------------------------------------------
(* The steps of the system.                                                *)

\* A call takes a step of its own.
LEMMA CallMoves ==
    ASSUME EventsInv, UNCHANGED <<vars, conns>>, NEW k \in DOMAIN calls,
           NEW new \in EventCall, new.place = calls[k].place,
           new.audience = calls[k].audience, CallRight(new, conns, domains),
           calls' = [calls EXCEPT ![k] = new]
    PROVE  EventsInv'
<1>1. /\ IsMap(calls', Conns, EventCall) /\ DOMAIN calls' = DOMAIN calls
      /\ calls'[k] = new /\ \A j \in DOMAIN calls : j # k => calls'[j] = calls[j]
  BY DEF EventsInv, EventsTypeOK, IsMap
<1>2. UNCHANGED domains /\ TypeOK'
  BY DEF vars, domainVars, hostVars, EventsInv, EventsTypeOK, TypeOK, HostsTypeOK
<1>3. EventsTypeOK'
  BY <1>1, <1>2 DEF EventsInv, EventsTypeOK
<1>4. \A j \in DOMAIN calls' : CallRight(calls'[j], conns', domains')
  BY <1>1, <1>2 DEF EventsInv
<1>5. AudiencesApart'
  BY <1>1 DEF EventsInv, AudiencesApart
<1> QED BY <1>3, <1>4, <1>5 DEF EventsInv

\* The domains other than p are as they were.
Elsewhere(p) ==
    \A q : q # p => /\ q \in DOMAIN domains' <=> q \in DOMAIN domains
                    /\ q \in DOMAIN domains => domains'[q] = domains[q]

\* When the domain at p changes, the calls on it lose their audience and the
\* others are not concerned.
LEMMA OverlappedRight ==
    ASSUME EventsInv, UNCHANGED conns, NEW p, Elsewhere(p)
    PROVE  /\ IsMap(Overlapped(p), Conns, EventCall)
           /\ DOMAIN Overlapped(p) = DOMAIN calls
           /\ \A j \in DOMAIN calls :
                 /\ CallRight(Overlapped(p)[j], conns', domains')
                 /\ Overlapped(p)[j].place = calls[j].place
                 /\ Overlapped(p)[j].audience \subseteq calls[j].audience
                 /\ calls[j].place = p => Overlapped(p)[j].audience = {}
<1>0. \A j \in DOMAIN calls :
         calls[j] \in EventCall /\ CallRight(calls[j], conns, domains)
  BY DEF EventsInv, EventsTypeOK, IsMap
<1>1. ASSUME NEW j \in DOMAIN calls, calls[j].place = p
      PROVE  LET new == [calls[j] EXCEPT !.audience = {}, !.told = EmptyMap]
             IN /\ new \in EventCall /\ new.place = p /\ new.audience = {}
                /\ CallRight(new, conns', domains')
  <2>1. PICK call \in EventCall : call = calls[j]
    BY <1>0
  <2>2. CallRight(call, conns, domains) /\ call.place = p
    BY <1>0, <1>1, <2>1
  <2>3. \A cns, doms, other : CallRight(call, cns, doms) =>
            LET new == [call EXCEPT !.audience = {}, !.told = EmptyMap]
            IN new \in EventCall /\ new.place = call.place /\ new.audience = {}
               /\ CallRight(new, cns, other)
    BY CallDismissed
  <2>4. LET new == [call EXCEPT !.audience = {}, !.told = EmptyMap]
        IN new \in EventCall /\ new.place = call.place /\ new.audience = {}
           /\ CallRight(new, conns, domains')
    BY <2>2, <2>3
  <2> QED BY <2>1, <2>2, <2>4
<1>2. ASSUME NEW j \in DOMAIN calls, calls[j].place # p
      PROVE  CallRight(calls[j], conns', domains')
  <2>1. PICK call : call = calls[j]
    OBVIOUS
  <2>2. /\ CallRight(call, conns, domains)
        /\ call.place \in DOMAIN domains' <=> call.place \in DOMAIN domains
        /\ call.place \in DOMAIN domains =>
              domains'[call.place] = domains[call.place]
    BY <1>0, <1>2, <2>1 DEF Elsewhere
  <2>3. PICK cns, doms, other : cns = conns /\ doms = domains /\ other = domains'
    OBVIOUS
  <2>4. CallRight(call, cns, other)
    BY <2>2, <2>3, OthersChange
  <2> QED BY <2>1, <2>3, <2>4
<1>3. /\ DOMAIN Overlapped(p) = DOMAIN calls
      /\ \A j \in DOMAIN calls : Overlapped(p)[j] =
            IF calls[j].place = p
            THEN [calls[j] EXCEPT !.audience = {}, !.told = EmptyMap]
            ELSE calls[j]
  BY DEF Overlapped
<1>4. ASSUME NEW j \in DOMAIN calls
      PROVE  /\ Overlapped(p)[j] \in EventCall
             /\ CallRight(Overlapped(p)[j], conns', domains')
             /\ Overlapped(p)[j].place = calls[j].place
             /\ Overlapped(p)[j].audience \subseteq calls[j].audience
             /\ calls[j].place = p => Overlapped(p)[j].audience = {}
  <2>1. CASE calls[j].place = p
    BY <1>1, <1>3, <2>1
  <2>2. CASE calls[j].place # p
    BY <1>0, <1>2, <1>3, <2>2
  <2> QED BY <2>1, <2>2
<1>5. IsMap(Overlapped(p), Conns, EventCall)
  <2>1. DOMAIN Overlapped(p) \subseteq Conns
    BY <1>3 DEF EventsInv, EventsTypeOK, IsMap
  <2>2. Overlapped(p) \in [DOMAIN Overlapped(p) -> EventCall]
    BY <1>3, <1>4 DEF Overlapped
  <2> QED BY <2>1, <2>2 DEF IsMap
<1> QED BY <1>3, <1>4, <1>5

\* A new call on p joins the others.
LEMMA CallJoins ==
    ASSUME EventsInv, TypeOK', UNCHANGED conns, NEW p, Elsewhere(p),
           NEW k \in Conns, NEW new \in EventCall, new.place = p,
           CallRight(new, conns', domains'),
           (\E j \in DOMAIN calls : calls[j].place = p) => new.audience = {},
           calls' = Put(Overlapped(p), k, new)
    PROVE  EventsInv'
<1> DEFINE O == Overlapped(p)
<1>1. /\ IsMap(O, Conns, EventCall) /\ DOMAIN O = DOMAIN calls
      /\ \A j \in DOMAIN calls :
            /\ CallRight(O[j], conns', domains')
            /\ O[j].place = calls[j].place
            /\ O[j].audience \subseteq calls[j].audience
            /\ calls[j].place = p => O[j].audience = {}
  BY OverlappedRight
<1> HIDE DEF O
<1>2. calls' = Put(O, k, new)
  BY DEF O
<1>3. /\ IsMap(calls', Conns, EventCall) /\ DOMAIN calls' = DOMAIN calls \cup {k}
      /\ calls'[k] = new /\ \A j \in DOMAIN calls : j # k => calls'[j] = O[j]
  BY <1>1, <1>2 DEF Put, IsMap
<1>4. EventsTypeOK'
  BY <1>3 DEF EventsInv, EventsTypeOK
<1>5. \A j \in DOMAIN calls' : CallRight(calls'[j], conns', domains')
  BY <1>1, <1>3
<1>6. ASSUME NEW i \in DOMAIN calls', NEW j \in DOMAIN calls', i # j,
             calls'[i].place = calls'[j].place
      PROVE  calls'[i].audience = {}
  <2>1. CASE i = k
    <3>1. j \in DOMAIN calls /\ calls[j].place = p
      BY <1>1, <1>3, <1>6, <2>1
    <3> QED BY <1>3, <2>1, <3>1
  <2>2. CASE j = k
    <3>1. i \in DOMAIN calls /\ calls[i].place = p
      BY <1>1, <1>3, <1>6, <2>2
    <3> QED BY <1>1, <1>3, <1>6, <2>2, <3>1
  <2>3. CASE i # k /\ j # k
    <3>1. /\ i \in DOMAIN calls /\ j \in DOMAIN calls
          /\ calls[i].place = calls[j].place
      BY <1>1, <1>3, <1>6, <2>3
    <3>2. calls[i].audience = {}
      BY <1>6, <3>1 DEF EventsInv, AudiencesApart
    <3> QED BY <1>1, <1>3, <2>3, <3>1, <3>2
  <2> QED BY <2>1, <2>2, <2>3
<1>7. AudiencesApart'
  BY <1>6 DEF AudiencesApart
<1> QED BY <1>4, <1>5, <1>7 DEF EventsInv

\* A placeholder appears at p: nobody announces it.
LEMMA NobodyJoins ==
    ASSUME EventsInv, TypeOK', UNCHANGED conns, NEW p, Elsewhere(p),
           calls' = Overlapped(p)
    PROVE  EventsInv'
<1>1. /\ IsMap(calls', Conns, EventCall) /\ DOMAIN calls' = DOMAIN calls
      /\ \A j \in DOMAIN calls :
            /\ CallRight(calls'[j], conns', domains')
            /\ calls'[j].place = calls[j].place
            /\ calls'[j].audience \subseteq calls[j].audience
  BY OverlappedRight
<1>2. EventsTypeOK'
  BY <1>1 DEF EventsInv, EventsTypeOK
<1>3. AudiencesApart'
  BY <1>1 DEF EventsInv, AudiencesApart
<1> QED BY <1>1, <1>2, <1>3 DEF EventsInv

\* The callbacks of a new call's audience.
LEMMA AudienceRight ==
    ASSUME EventsInv, NEW p, NEW cb,
           cb \in UNION {GetCallbacksForEvent(k) : k \in ClientsOf(p[1])}
    PROVE  /\ cb \in Conns \X CallbackIDs
           /\ cb[1] \in DOMAIN conns /\ conns[cb[1]].host = p[1]
           /\ cb[2] \in DOMAIN conns[cb[1]].callbacks
           /\ conns[cb[1]].callbacks[cb[2]] = "lifecycle"
<1>1. PICK k \in ClientsOf(p[1]) : cb \in GetCallbacksForEvent(k)
  OBVIOUS
<1>2. k \in DOMAIN conns /\ conns[k].host = p[1]
  BY <1>1 DEF ClientsOf
<1>3. PICK b \in DOMAIN conns[k].callbacks :
          cb = <<k, b>> /\ conns[k].callbacks[b] = "lifecycle"
  BY <1>1 DEF GetCallbacksForEvent
<1>4. k \in Conns /\ conns[k] \in Connection
  BY <1>2 DEF EventsInv, EventsTypeOK, IsMap
<1>5. conns[k].callbacks \in UNION {[S -> EventIDs] : S \in SUBSET CallbackIDs}
  BY <1>4 DEF Connection
<1>6. b \in CallbackIDs
  BY <1>5
<1> QED BY <1>2, <1>3, <1>4, <1>6

-----------------------------------------------------------------------------
(* What the store does to the domain of a call.                            *)

\* A domain that is there keeps its place; its state and phase are written.
LEMMA DomainWritten ==
    ASSUME TypeOK, NEW p \in DOMAIN domains,
           \/ StartDomain(p) \/ DestroyDomain(p) \/ ShutdownDomain(p)
           \/ SuspendDomain(p) \/ ResumeDomain(p)
           \/ MigratePerform(p) \/ MigrateFinish(p)
    PROVE  /\ Elsewhere(p) /\ p \in DOMAIN domains'
           /\ StartDomain(p) \/ MigrateFinish(p) \/ ResumeDomain(p) =>
                 domains'[p].state = "running"
           /\ DestroyDomain(p) \/ ShutdownDomain(p) =>
                 domains'[p].state = "shutoff"
           /\ SuspendDomain(p) => domains'[p].state = "paused"
           /\ MigratePerform(p) => /\ domains'[p].state = "running"
                                   /\ domains'[p].migration = "performing"
<1>1. domains[p] \in Domain
  BY DEF TypeOK, IsMap
<1>2. /\ DOMAIN domains' = DOMAIN domains
      /\ \A q \in DOMAIN domains : q # p => domains'[q] = domains[q]
  BY DEF StartDomain, DestroyDomain, ShutdownDomain, SuspendDomain,
         ResumeDomain, MigratePerform, MigrateFinish
<1>3. Elsewhere(p) /\ p \in DOMAIN domains'
  BY <1>2 DEF Elsewhere
<1>4. StartDomain(p) \/ MigrateFinish(p) \/ ResumeDomain(p) =>
          domains'[p].state = "running"
  BY <1>1 DEF StartDomain, MigrateFinish, ResumeDomain, Domain
<1>5. DestroyDomain(p) \/ ShutdownDomain(p) => domains'[p].state = "shutoff"
  BY <1>1 DEF DestroyDomain, ShutdownDomain, Domain
<1>6. SuspendDomain(p) => domains'[p].state = "paused"
  BY <1>1 DEF SuspendDomain, Domain
<1>7. MigratePerform(p) => /\ domains'[p].state = "running"
                           /\ domains'[p].migration = "performing"
  BY <1>1 DEF MigratePerform, Domain
<1> QED BY <1>3, <1>4, <1>5, <1>6, <1>7

\* A domain that is removed.
LEMMA DomainRemoved ==
    ASSUME NEW p, UndefineDomain(p) \/ MigrateConfirm(p)
    PROVE  Elsewhere(p) /\ p \notin DOMAIN domains'
  BY DEF UndefineDomain, MigrateConfirm, Drop, Restrict, Elsewhere

\* A domain that is defined, or appears as a placeholder.
LEMMA DomainDefined ==
    ASSUME NEW h, NEW u, NEW f, DefineDomain(h, u, f)
    PROVE  /\ Elsewhere(<<h, u>>) /\ <<h, u>> \in DOMAIN domains'
           /\ domains'[<<h, u>>].state = "shutoff"
<1>1. PICK p : p = <<h, u>>
  OBVIOUS
<1>2. PICK d : d = [vcpus |-> f.vcpus, memoryKiB |-> f.memoryKiB,
                    state |-> "shutoff", id |-> -1, migration |-> "none"]
  OBVIOUS
<1>3. domains' = Put(domains, p, d) /\ d.state = "shutoff"
  BY <1>1, <1>2 DEF DefineDomain
<1>4. Elsewhere(p) /\ p \in DOMAIN domains' /\ domains'[p] = d
  BY <1>3 DEF Put, Elsewhere
<1> QED BY <1>1, <1>3, <1>4

\* The sequences of events that are announced.
LEMMA EventSequences ==
    /\ \A e \in EventTypes :
          <<e>> \in Seq(EventTypes) /\ <<e>> # <<>> /\ <<e>>[Len(<<e>>)] = e
    /\ LET s == <<"started", "resumed">>
       IN s \in Seq(EventTypes) /\ s # <<>> /\ s[Len(s)] = "resumed"
    /\ <<>> \in Seq(EventTypes)
<1>1. ASSUME NEW e \in EventTypes
      PROVE  <<e>> \in Seq(EventTypes) /\ <<e>> # <<>> /\ <<e>>[Len(<<e>>)] = e
  OBVIOUS
<1>2. PICK a \in EventTypes, b \in EventTypes : a = "started" /\ b = "resumed"
  BY DEF EventTypes
<1>3. <<a, b>> \in Seq(EventTypes) /\ <<a, b>> # <<>> /\ <<a, b>>[Len(<<a, b>>)] = b
  OBVIOUS
<1> QED BY <1>1, <1>2, <1>3

\* A call on p begins, with the domain as the call leaves it.
LEMMA CallStarts ==
    ASSUME EventsInv, TypeOK', UNCHANGED conns, NEW p \in Places,
           Elsewhere(p), NEW k \in Conns,
           NEW pc \in {"lookup", "emit"}, NEW evs \in Seq(EventTypes),
           Changes(k, p, evs, pc), Announces(p, pc, evs, domains')
    PROVE  EventsInv'
<1>1. PICK audience :
          audience = IF \E j \in DOMAIN calls : calls[j].place = p THEN {}
                     ELSE UNION {GetCallbacksForEvent(j) : j \in ClientsOf(p[1])}
  OBVIOUS
<1>2. \A cb \in audience :
         /\ cb \in Conns \X CallbackIDs
         /\ cb[1] \in DOMAIN conns /\ conns[cb[1]].host = p[1]
         /\ cb[2] \in DOMAIN conns[cb[1]].callbacks
         /\ conns[cb[1]].callbacks[cb[2]] = "lifecycle"
  BY <1>1, AudienceRight
<1>3. PICK new : new = FreshCall(p, pc, evs, audience)
  OBVIOUS
<1>4. calls' = Put(Overlapped(p), k, new)
  BY <1>1, <1>3 DEF Changes, NewCall, FreshCall
<1>5. PICK cns, doms : cns = conns' /\ doms = domains'
  OBVIOUS
<1>6. audience \in SUBSET (Conns \X CallbackIDs)
  BY <1>2
<1>7. Announces(p, pc, evs, doms) /\ Listening(audience, p, cns)
  BY <1>2, <1>5 DEF Listening
<1>8. new \in EventCall /\ new.place = p /\ new.audience = audience
      /\ CallRight(new, cns, doms)
  BY <1>3, <1>6, <1>7, CallBegins
<1> QED BY <1>1, <1>4, <1>5, <1>8, CallJoins

-----------------------------------------------------------------------------
(* The calls over a connection.                                            *)

\* A call changes the domain at a place of the connection's host, as the
\* store does.
LEMMA CallStores ==
    ASSUME EventsInv, NEW k \in DOMAIN conns, Call(k)
    PROVE  /\ k \in Conns /\ Next
           /\ \E u \in Uuids : \E p \in Places :
                 /\ p = <<conns[k].host, u>>
                 /\ \/ Define(k, p)
                    \/ /\ p \in DOMAIN domains
                       /\ \/ StartOrFinish(k, p) \/ Stop(k, p) \/ Suspend(k, p)
                          \/ Resume(k, p) \/ Undefine(k, p) \/ Perform(k, p)
<1>1. k \in Conns /\ conns[k].host \in Hosts
  BY DEF EventsInv, EventsTypeOK, IsMap, Connection
<1>2. PICK u \in Uuids :
          LET p == <<conns[k].host, u>>
          IN \/ Define(k, p)
             \/ /\ p \in DOMAIN domains
                /\ \/ StartOrFinish(k, p) \/ Stop(k, p) \/ Suspend(k, p)
                   \/ Resume(k, p) \/ Undefine(k, p) \/ Perform(k, p)
  BY DEF Call
<1>3. PICK h \in Hosts : h = conns[k].host
  BY <1>1
<1>4. PICK p : p = <<h, u>>
  OBVIOUS
<1>5. p \in Places
  BY <1>4 DEF Places
<1>6. \/ Define(k, p)
      \/ /\ p \in DOMAIN domains
         /\ \/ StartOrFinish(k, p) \/ Stop(k, p) \/ Suspend(k, p)
            \/ Resume(k, p) \/ Undefine(k, p) \/ Perform(k, p)
  BY <1>2, <1>3, <1>4
<1>7. CASE Define(k, p)
  <2>1. PICK f \in Flavors : DefineDomain(p[1], p[2], f)
    BY <1>7 DEF Define
  <2>2. DefineDomain(h, u, f)
    BY <1>4, <2>1
  <2>3. Next
    BY <2>2 DEF Next, DefinitionCall
  <2> QED BY <1>1, <1>3, <1>4, <1>5, <1>7, <2>3
<1>8. CASE /\ p \in DOMAIN domains
           /\ \/ StartOrFinish(k, p) \/ Stop(k, p) \/ Suspend(k, p)
              \/ Resume(k, p) \/ Undefine(k, p) \/ Perform(k, p)
  <2>1. Next
    BY <1>8 DEF StartOrFinish, Stop, Suspend, Resume, Undefine, Perform,
                Next, LifecycleCall, DefinitionCall, MigrationCall
  <2> QED BY <1>1, <1>3, <1>4, <1>5, <1>8, <2>1
<1> QED BY <1>6, <1>7, <1>8

\* One event that agrees with the domain as the call leaves it.
LEMMA OneEvent ==
    ASSUME NEW e \in EventTypes, NEW p, NEW doms, AgreesIn(e, p, doms)
    PROVE  <<e>> \in Seq(EventTypes) /\ Announces(p, "emit", <<e>>, doms)
<1>1. PICK s : s = <<e>>
  OBVIOUS
<1>2. s \in Seq(EventTypes) /\ s # <<>> /\ s[Len(s)] = e
  BY <1>1, EventSequences
<1>3. Announces(p, "emit", s, doms)
  BY <1>2 DEF Announces
<1> QED BY <1>1, <1>2, <1>3

\* The change that a call makes, and the call that announces it.
LEMMA CallKeeps ==
    ASSUME EventsInv, NEW k \in DOMAIN conns, Call(k), UNCHANGED conns
    PROVE  EventsInv'
<1>1. k \in Conns /\ Next
  BY CallStores
<1>2. PICK u \in Uuids, p \in Places :
          /\ p = <<conns[k].host, u>>
          /\ \/ Define(k, p)
             \/ /\ p \in DOMAIN domains
                /\ \/ StartOrFinish(k, p) \/ Stop(k, p) \/ Suspend(k, p)
                   \/ Resume(k, p) \/ Undefine(k, p) \/ Perform(k, p)
  BY CallStores
<1>3. TypeOK /\ TypeOK'
  BY <1>1, TypeStep DEF EventsInv, EventsTypeOK
<1>4. PICK doms : doms = domains'
  OBVIOUS
<1>5. ASSUME NEW e \in EventTypes, Changes(k, p, <<e>>, "emit"), Elsewhere(p),
             AgreesIn(e, p, doms)
      PROVE  EventsInv'
  <2>1. <<e>> \in Seq(EventTypes) /\ Announces(p, "emit", <<e>>, doms)
    BY <1>5, OneEvent
  <2>2. PICK s \in Seq(EventTypes) : s = <<e>>
    BY <2>1
  <2>3. PICK pc \in {"lookup", "emit"} : pc = "emit"
    OBVIOUS
  <2>4. Changes(k, p, s, pc) /\ Announces(p, pc, s, domains')
    BY <1>4, <1>5, <2>1, <2>2, <2>3
  <2> QED BY <1>1, <1>3, <1>5, <2>4, CallStarts
<1>6. CASE Define(k, p)
  <2>1. PICK f \in Flavors : DefineDomain(p[1], p[2], f)
    BY <1>6 DEF Define
  <2>2. p = <<p[1], p[2]>>
    BY <1>2
  <2>3. PICK h, i : p[1] = h /\ p[2] = i
    OBVIOUS
  <2>4. /\ Elsewhere(p) /\ p \in DOMAIN domains'
        /\ domains'[p].state = "shutoff"
    <3>1. DefineDomain(h, i, f) /\ p = <<h, i>>
      BY <2>1, <2>2, <2>3
    <3> QED BY <3>1, DomainDefined
  <2>5. AgreesIn("defined", p, doms)
    BY <1>4, <2>4 DEF AgreesIn
  <2>6. "defined" \in EventTypes /\ Changes(k, p, <<"defined">>, "emit")
    BY <1>6 DEF EventTypes, Define
  <2> QED BY <1>5, <2>4, <2>5, <2>6
<1>7. CASE p \in DOMAIN domains /\ StartOrFinish(k, p)
  <2>1. /\ Elsewhere(p) /\ p \in DOMAIN domains'
        /\ domains'[p].state = "running"
    BY <1>3, <1>7, DomainWritten DEF StartOrFinish
  <2>2. PICK s : s = <<"started", "resumed">>
    OBVIOUS
  <2>3. s \in Seq(EventTypes) /\ s # <<>> /\ s[Len(s)] = "resumed"
    BY <2>2, EventSequences
  <2>4. PICK pc \in {"lookup", "emit"} : pc = "emit"
    OBVIOUS
  <2>5. AgreesIn("resumed", p, doms)
    BY <1>4, <2>1 DEF AgreesIn
  <2>6. Announces(p, pc, s, domains')
    BY <1>4, <2>3, <2>4, <2>5 DEF Announces
  <2>7. Changes(k, p, s, pc)
    BY <1>7, <2>2, <2>4 DEF StartOrFinish
  <2> QED BY <1>1, <1>3, <2>1, <2>3, <2>6, <2>7, CallStarts
<1>8. CASE p \in DOMAIN domains /\ Stop(k, p)
  <2>1. Elsewhere(p) /\ AgreesIn("stopped", p, doms)
    <3>1. CASE MigrateConfirm(p)
      BY <1>4, <3>1, DomainRemoved DEF AgreesIn
    <3>2. CASE DestroyDomain(p) \/ ShutdownDomain(p)
      <4>1. /\ Elsewhere(p) /\ p \in DOMAIN domains'
            /\ domains'[p].state = "shutoff"
        BY <1>3, <1>8, <3>2, DomainWritten
      <4> QED BY <1>4, <4>1 DEF AgreesIn
    <3> QED BY <1>8, <3>1, <3>2 DEF Stop
  <2>2. "stopped" \in EventTypes /\ Changes(k, p, <<"stopped">>, "emit")
    BY <1>8 DEF EventTypes, Stop
  <2> QED BY <1>5, <2>1, <2>2
<1>9. CASE p \in DOMAIN domains /\ Suspend(k, p)
  <2>1. Elsewhere(p) /\ p \in DOMAIN domains' /\ domains'[p].state = "paused"
    BY <1>3, <1>9, DomainWritten DEF Suspend
  <2>2. AgreesIn("suspended", p, doms)
    BY <1>4, <2>1 DEF AgreesIn
  <2>3. "suspended" \in EventTypes /\ Changes(k, p, <<"suspended">>, "emit")
    BY <1>9 DEF EventTypes, Suspend
  <2> QED BY <1>5, <2>1, <2>2, <2>3
<1>10. CASE p \in DOMAIN domains /\ Resume(k, p)
  <2>1. Elsewhere(p) /\ p \in DOMAIN domains' /\ domains'[p].state = "running"
    BY <1>3, <1>10, DomainWritten DEF Resume
  <2>2. AgreesIn("resumed", p, doms)
    BY <1>4, <2>1 DEF AgreesIn
  <2>3. "resumed" \in EventTypes /\ Changes(k, p, <<"resumed">>, "emit")
    BY <1>10 DEF EventTypes, Resume
  <2> QED BY <1>5, <2>1, <2>2, <2>3
<1>11. CASE p \in DOMAIN domains /\ Undefine(k, p)
  <2>1. Elsewhere(p) /\ AgreesIn("undefined", p, doms)
    BY <1>4, <1>11, DomainRemoved DEF AgreesIn, Undefine
  <2>2. "undefined" \in EventTypes /\ Changes(k, p, <<"undefined">>, "emit")
    BY <1>11 DEF EventTypes, Undefine
  <2> QED BY <1>5, <2>1, <2>2
<1>12. CASE p \in DOMAIN domains /\ Perform(k, p)
  <2>1. /\ Elsewhere(p) /\ p \in DOMAIN domains'
        /\ domains'[p].state = "running" /\ domains'[p].migration = "performing"
    BY <1>3, <1>12, DomainWritten DEF Perform
  <2>2. PICK s \in Seq(EventTypes) : s = <<>>
    BY EventSequences
  <2>3. PICK pc \in {"lookup", "emit"} : pc = "lookup"
    OBVIOUS
  <2>4. Announces(p, pc, s, domains')
    BY <2>1, <2>2, <2>3 DEF Announces
  <2>5. Changes(k, p, s, pc)
    BY <1>12, <2>2, <2>3 DEF Perform
  <2> QED BY <1>1, <1>3, <2>1, <2>4, <2>5, CallStarts
<1> QED BY <1>2, <1>6, <1>7, <1>8, <1>9, <1>10, <1>11, <1>12

-----------------------------------------------------------------------------
(* Connections, subscriptions and the placeholders of migrations.          *)

\* Nobody loses a life-cycle callback: the calls stay right.
LEMMA ConnsKeep ==
    ASSUME EventsInv, UNCHANGED <<vars, calls>>,
           IsMap(conns', Conns, Connection),
           \A k \in DOMAIN conns' : \A b \in DOMAIN conns'[k].callbacks :
               b < conns'[k].nextCBID,
           \A k \in DOMAIN conns :
               /\ k \in DOMAIN conns' /\ conns'[k].host = conns[k].host
               /\ conns[k].left => conns'[k].left
               /\ \A b \in DOMAIN conns[k].callbacks :
                     conns[k].callbacks[b] = "lifecycle" =>
                         /\ b \in DOMAIN conns'[k].callbacks
                         /\ conns'[k].callbacks[b] = "lifecycle"
    PROVE  EventsInv'
<1>1. UNCHANGED domains /\ TypeOK'
  BY DEF vars, domainVars, hostVars, EventsInv, EventsTypeOK, TypeOK, HostsTypeOK
<1>2. EventsTypeOK'
  BY <1>1 DEF EventsInv, EventsTypeOK
<1>3. PICK cns, more, doms : cns = conns /\ more = conns' /\ doms = domains
  OBVIOUS
<1>4. \A k \in DOMAIN cns :
         /\ k \in DOMAIN more /\ more[k].host = cns[k].host
         /\ cns[k].left => more[k].left
         /\ \A b \in DOMAIN cns[k].callbacks :
               cns[k].callbacks[b] = "lifecycle" =>
                   /\ b \in DOMAIN more[k].callbacks
                   /\ more[k].callbacks[b] = "lifecycle"
  BY <1>3
<1>5. \A call : CallRight(call, cns, doms) => CallRight(call, more, doms)
  BY <1>4, ConnsMore
<1>6. \A k \in DOMAIN calls' : CallRight(calls'[k], conns', domains')
  BY <1>1, <1>3, <1>5 DEF EventsInv
<1>7. AudiencesApart'
  BY DEF EventsInv, AudiencesApart
<1> QED BY <1>2, <1>6, <1>7 DEF EventsInv

\* The callbacks of connection k are gone, or k itself while the lock is free.
LEMMA UnheardKeeps ==
    ASSUME EventsInv, UNCHANGED vars, NEW k, calls' = Unheard(k),
           IsMap(conns', Conns, Connection),
           \A j \in DOMAIN conns' : \A b \in DOMAIN conns'[j].callbacks :
               b < conns'[j].nextCBID,
           \A j \in DOMAIN conns : j # k =>
               j \in DOMAIN conns' /\ conns'[j] = conns[j],
           \/ k \in DOMAIN conns =>
                 k \in DOMAIN conns' /\ conns'[k].host = conns[k].host
           \/ BusFree
    PROVE  EventsInv'
<1>1. UNCHANGED domains /\ TypeOK'
  BY DEF vars, domainVars, hostVars, EventsInv, EventsTypeOK, TypeOK, HostsTypeOK
<1>2. PICK cns, rest, doms : cns = conns /\ rest = conns' /\ doms = domains
  OBVIOUS
<1>3. \A j \in DOMAIN cns : j # k => j \in DOMAIN rest /\ rest[j] = cns[j]
  BY <1>2
<1>4. ASSUME NEW j \in DOMAIN calls
      PROVE  /\ j \in DOMAIN calls' /\ calls'[j] \in EventCall
             /\ calls'[j].place = calls[j].place
             /\ calls'[j].audience \subseteq calls[j].audience
             /\ CallRight(calls'[j], conns', domains')
  <2>1. PICK call \in EventCall : call = calls[j]
    BY DEF EventsInv, EventsTypeOK, IsMap
  <2>2. CallRight(call, cns, doms)
    BY <1>2, <2>1 DEF EventsInv
  <2>3. \/ k \in DOMAIN cns => k \in DOMAIN rest /\ rest[k].host = cns[k].host
        \/ ~call.sending
    BY <1>2, <2>1 DEF BusFree
  <2>4. PICK new : new = WithoutHearer(call, k)
    OBVIOUS
  <2>5. /\ new \in EventCall /\ new.place = call.place
        /\ new.audience \subseteq call.audience
        /\ CallRight(new, rest, doms)
    BY <1>3, <2>2, <2>3, <2>4, ConnUnheard
  <2>6. j \in DOMAIN calls' /\ calls'[j] = new
    BY <2>1, <2>4 DEF Unheard, WithoutHearer
  <2> QED BY <1>1, <1>2, <2>1, <2>5, <2>6
<1>5. DOMAIN calls' = DOMAIN calls /\ calls' = [j \in DOMAIN calls |-> calls'[j]]
  BY DEF Unheard
<1>6. IsMap(calls', Conns, EventCall)
  BY <1>4, <1>5 DEF EventsInv, EventsTypeOK, IsMap
<1>7. EventsTypeOK'
  BY <1>1, <1>6 DEF EventsInv, EventsTypeOK
<1>8. \A j \in DOMAIN calls' : CallRight(calls'[j], conns', domains')
  BY <1>4, <1>5
<1>9. AudiencesApart'
  BY <1>4, <1>5 DEF EventsInv, AudiencesApart
<1> QED BY <1>7, <1>8, <1>9 DEF EventsInv

\* One connection is written, keeps its host and stays left.
LEMMA ConnWritten ==
    ASSUME EventsInv, NEW k \in DOMAIN conns, NEW r \in Connection,
           conns' = [conns EXCEPT ![k] = r],
           \A b \in DOMAIN r.callbacks : b < r.nextCBID
    PROVE  /\ IsMap(conns', Conns, Connection) /\ DOMAIN conns' = DOMAIN conns
           /\ \A j \in DOMAIN conns' : \A b \in DOMAIN conns'[j].callbacks :
                 b < conns'[j].nextCBID
           /\ conns'[k] = r /\ \A j \in DOMAIN conns : j # k => conns'[j] = conns[j]
<1>1. /\ IsMap(conns', Conns, Connection) /\ DOMAIN conns' = DOMAIN conns
      /\ conns'[k] = r /\ \A j \in DOMAIN conns : j # k => conns'[j] = conns[j]
  BY DEF EventsInv, EventsTypeOK, IsMap
<1>2. \A j \in DOMAIN conns : \A b \in DOMAIN conns[j].callbacks :
         b < conns[j].nextCBID
  BY DEF EventsInv, EventsTypeOK
<1>3. ASSUME NEW j \in DOMAIN conns'
      PROVE  \A b \in DOMAIN conns'[j].callbacks : b < conns'[j].nextCBID
  <2>1. CASE j = k
    BY <1>1, <2>1
  <2>2. CASE j # k
    BY <1>1, <1>2, <2>2
  <2> QED BY <2>1, <2>2
<1> QED BY <1>1, <1>3

\* The callbacks of a connection once it has registered for event e as
\* number n, or has given up some.
LEMMA CallbacksMore ==
    ASSUME NEW cbs \in UNION {[S -> EventIDs] : S \in SUBSET CallbackIDs},
           NEW n \in CallbackIDs, NEW e \in EventIDs
    PROVE  /\ Put(cbs, n, e) \in UNION {[S -> EventIDs] : S \in SUBSET CallbackIDs}
           /\ DOMAIN Put(cbs, n, e) = DOMAIN cbs \cup {n}
           /\ \A b \in DOMAIN cbs : b # n => Put(cbs, n, e)[b] = cbs[b]
<1>1. PICK S \in SUBSET CallbackIDs : cbs \in [S -> EventIDs]
  OBVIOUS
<1>2. Put(cbs, n, e) \in [S \cup {n} -> EventIDs] /\ S \cup {n} \in SUBSET CallbackIDs
  BY <1>1 DEF Put
<1> QED BY <1>1, <1>2 DEF Put

LEMMA CallbacksLess ==
    ASSUME NEW cbs \in UNION {[S -> EventIDs] : S \in SUBSET CallbackIDs},
           NEW R, R \subseteq DOMAIN cbs
    PROVE  /\ Restrict(cbs, R) \in UNION {[S -> EventIDs] : S \in SUBSET CallbackIDs}
           /\ DOMAIN Restrict(cbs, R) = R
           /\ \A b \in R : Restrict(cbs, R)[b] = cbs[b]
<1>1. PICK S \in SUBSET CallbackIDs : cbs \in [S -> EventIDs]
  OBVIOUS
<1>2. Restrict(cbs, R) \in [R -> EventIDs] /\ R \in SUBSET CallbackIDs
  BY <1>1 DEF Restrict
<1> QED BY <1>1, <1>2 DEF Restrict

LEMMA RegisterKeeps ==
    ASSUME EventsInv, NEW k \in DOMAIN conns, NEW e \in EventIDs,
           Register(k, e)
    PROVE  EventsInv'
<1>1. PICK c \in Connection :
          /\ c = conns[k]
          /\ \A b \in DOMAIN c.callbacks : b < c.nextCBID
  BY DEF EventsInv, EventsTypeOK, IsMap
<1>2. PICK n \in CallbackIDs : n = c.nextCBID
  BY <1>1, EventsAssumption DEF Connection, CallbackIDs, Register
<1>3. PICK more : more = Put(c.callbacks, n, e)
  OBVIOUS
<1>4. /\ more \in UNION {[S -> EventIDs] : S \in SUBSET CallbackIDs}
      /\ DOMAIN more = DOMAIN c.callbacks \cup {n}
      /\ \A b \in DOMAIN c.callbacks : b # n => more[b] = c.callbacks[b]
  <2>1. c.callbacks \in UNION {[S -> EventIDs] : S \in SUBSET CallbackIDs}
    BY DEF Connection
  <2> QED BY <1>3, <2>1, CallbacksMore
<1>5. PICK r : r = [c EXCEPT !.callbacks = more, !.nextCBID = n + 1]
  OBVIOUS
<1>6. n \in Nat \ {0} /\ n + 1 \in Nat \ {0}
  BY DEF CallbackIDs
<1>7. /\ r \in Connection /\ r.host = c.host /\ r.left = c.left
      /\ r.callbacks = more /\ r.nextCBID = n + 1
  BY <1>4, <1>5, <1>6 DEF Connection
<1>8. \A b \in DOMAIN c.callbacks : b \in Nat /\ b < n
  <2>1. c.callbacks \in UNION {[S -> EventIDs] : S \in SUBSET CallbackIDs}
    BY DEF Connection
  <2>2. DOMAIN c.callbacks \subseteq Nat
    BY <2>1 DEF CallbackIDs
  <2> QED BY <1>1, <1>2, <2>2
<1>9. \A b \in DOMAIN r.callbacks : b < r.nextCBID
  BY <1>4, <1>6, <1>7, <1>8
<1>10. conns' = [conns EXCEPT ![k] = r] /\ UNCHANGED <<vars, calls>>
  BY <1>1, <1>2, <1>3, <1>5 DEF Register
<1>11. /\ IsMap(conns', Conns, Connection) /\ DOMAIN conns' = DOMAIN conns
       /\ \A j \in DOMAIN conns' : \A b \in DOMAIN conns'[j].callbacks :
             b < conns'[j].nextCBID
       /\ conns'[k] = r /\ \A j \in DOMAIN conns : j # k => conns'[j] = conns[j]
  BY <1>7, <1>9, <1>10, ConnWritten
<1>12. \A b \in DOMAIN c.callbacks :
          b \in DOMAIN r.callbacks /\ r.callbacks[b] = c.callbacks[b]
  BY <1>4, <1>6, <1>7, <1>8
<1>13. ASSUME NEW j \in DOMAIN conns
       PROVE  /\ j \in DOMAIN conns' /\ conns'[j].host = conns[j].host
              /\ conns[j].left => conns'[j].left
              /\ \A b \in DOMAIN conns[j].callbacks :
                    /\ b \in DOMAIN conns'[j].callbacks
                    /\ conns'[j].callbacks[b] = conns[j].callbacks[b]
  <2>1. CASE j = k
    BY <1>1, <1>7, <1>11, <1>12, <2>1
  <2>2. CASE j # k
    BY <1>11, <2>2
  <2> QED BY <2>1, <2>2
<1> QED BY <1>10, <1>11, <1>13, ConnsKeep

LEMMA DeregisterKeeps ==
    ASSUME EventsInv, NEW k \in DOMAIN conns, NEW e \in EventIDs,
           DeregisterByEventID(k, e)
    PROVE  EventsInv'
<1>1. PICK c \in Connection :
          /\ c = conns[k]
          /\ \A b \in DOMAIN c.callbacks : b < c.nextCBID
  BY DEF EventsInv, EventsTypeOK, IsMap
<1>2. PICK R : R = {b \in DOMAIN c.callbacks : c.callbacks[b] # e}
  OBVIOUS
<1>3. R \subseteq DOMAIN c.callbacks
  BY <1>2
<1>4. PICK less : less = Restrict(c.callbacks, R)
  OBVIOUS
<1>5. /\ less \in UNION {[S -> EventIDs] : S \in SUBSET CallbackIDs}
      /\ DOMAIN less = R /\ \A b \in R : less[b] = c.callbacks[b]
  <2>1. c.callbacks \in UNION {[S -> EventIDs] : S \in SUBSET CallbackIDs}
    BY DEF Connection
  <2> QED BY <1>3, <1>4, <2>1, CallbacksLess
<1>6. PICK r : r = [c EXCEPT !.callbacks = less]
  OBVIOUS
<1>7. /\ r \in Connection /\ r.host = c.host /\ r.left = c.left
      /\ r.callbacks = less /\ r.nextCBID = c.nextCBID
  BY <1>5, <1>6 DEF Connection
<1>8. \A b \in DOMAIN r.callbacks : b < r.nextCBID
  BY <1>1, <1>2, <1>5, <1>7
<1>9. /\ conns' = [conns EXCEPT ![k] = r] /\ UNCHANGED vars
      /\ calls' = IF e = "lifecycle" THEN Unheard(k) ELSE calls
  BY <1>1, <1>2, <1>4, <1>6 DEF DeregisterByEventID
<1>10. /\ IsMap(conns', Conns, Connection) /\ DOMAIN conns' = DOMAIN conns
       /\ \A j \in DOMAIN conns' : \A b \in DOMAIN conns'[j].callbacks :
             b < conns'[j].nextCBID
       /\ conns'[k] = r /\ \A j \in DOMAIN conns : j # k => conns'[j] = conns[j]
  BY <1>7, <1>8, <1>9, ConnWritten
<1>11. CASE e = "lifecycle"
  <2>1. conns'[k].host = conns[k].host
    BY <1>1, <1>7, <1>10
  <2>2. \A j \in DOMAIN conns : j # k =>
            j \in DOMAIN conns' /\ conns'[j] = conns[j]
    BY <1>10
  <2>3. calls' = Unheard(k)
    BY <1>9, <1>11
  <2> QED BY <1>9, <1>10, <2>1, <2>2, <2>3, UnheardKeeps
<1>12. CASE e # "lifecycle"
  <2>1. \A b \in DOMAIN c.callbacks :
           c.callbacks[b] = "lifecycle" =>
               b \in DOMAIN r.callbacks /\ r.callbacks[b] = "lifecycle"
    BY <1>2, <1>5, <1>7, <1>12
  <2>2. ASSUME NEW j \in DOMAIN conns
        PROVE  /\ j \in DOMAIN conns' /\ conns'[j].host = conns[j].host
               /\ conns[j].left => conns'[j].left
               /\ \A b \in DOMAIN conns[j].callbacks :
                     conns[j].callbacks[b] = "lifecycle" =>
                         /\ b \in DOMAIN conns'[j].callbacks
                         /\ conns'[j].callbacks[b] = "lifecycle"
    <3>1. CASE j = k
      BY <1>1, <1>7, <1>10, <2>1, <3>1
    <3>2. CASE j # k
      BY <1>10, <3>2
    <3> QED BY <3>1, <3>2
  <2>3. UNCHANGED <<vars, calls>>
    BY <1>9, <1>12
  <2> QED BY <1>10, <2>2, <2>3, ConnsKeep
<1> QED BY <1>11, <1>12

\* What a client does: it connects, leaves, registers and deregisters.
LEMMA ClientKeeps ==
    ASSUME EventsInv,
           \/ \E k \in Conns, h \in Hosts : RegisterClient(k, h)
           \/ \E k \in DOMAIN conns : ClientLeaves(k)
           \/ \E k \in Conns : UnregisterClient(k)
           \/ \E k \in DOMAIN conns, e \in EventIDs :
                  Register(k, e) \/ DeregisterByEventID(k, e)
    PROVE  EventsInv'
<1>1. /\ IsMap(conns, Conns, Connection)
      /\ \A k \in DOMAIN conns : \A b \in DOMAIN conns[k].callbacks :
            b < conns[k].nextCBID
  BY DEF EventsInv, EventsTypeOK
<1>2. \A k \in DOMAIN conns : conns[k] \in Connection
  BY <1>1 DEF IsMap
<1>3. ASSUME NEW k \in Conns, NEW h \in Hosts, RegisterClient(k, h)
      PROVE  EventsInv'
  <2>1. PICK new : new = NewConn(h)
    OBVIOUS
  <2>2. PICK none \in UNION {[S -> EventIDs] : S \in SUBSET CallbackIDs} :
            none = EmptyMap /\ DOMAIN none = {}
    <3>1. /\ EmptyMap \in UNION {[S -> EventIDs] : S \in SUBSET CallbackIDs}
          /\ DOMAIN EmptyMap = {}
      BY SMTT(30) DEF EmptyMap
    <3> QED BY <3>1
  <2>3. new \in Connection /\ DOMAIN new.callbacks = {}
    <3>1. new = [host |-> h, callbacks |-> none, nextCBID |-> 1, left |-> FALSE]
      BY <2>1, <2>2 DEF NewConn
    <3>2. new \in Connection
      BY <3>1 DEF Connection
    <3> QED BY <2>2, <3>1, <3>2
  <2>4. k \notin DOMAIN conns /\ conns' = Put(conns, k, new)
    BY <1>3, <2>1 DEF RegisterClient
  <2>5. /\ IsMap(conns', Conns, Connection)
        /\ DOMAIN conns' = DOMAIN conns \cup {k} /\ conns'[k] = new
        /\ \A j \in DOMAIN conns : conns'[j] = conns[j]
    BY <1>1, <2>3, <2>4 DEF Put, IsMap
  <2>6. ASSUME NEW j \in DOMAIN conns'
        PROVE  \A b \in DOMAIN conns'[j].callbacks : b < conns'[j].nextCBID
    <3>1. CASE j = k
      BY <2>3, <2>5, <3>1
    <3>2. CASE j # k
      BY <1>1, <2>5, <3>2
    <3> QED BY <3>1, <3>2
  <2>7. UNCHANGED <<vars, calls>>
    BY <1>3 DEF RegisterClient
  <2> QED BY <2>5, <2>6, <2>7, ConnsKeep
<1>4. ASSUME NEW k \in DOMAIN conns, ClientLeaves(k) PROVE EventsInv'
  <2>1. PICK r : r = [conns[k] EXCEPT !.left = TRUE]
    OBVIOUS
  <2>2. /\ r \in Connection /\ r.left = TRUE /\ r.host = conns[k].host
        /\ r.callbacks = conns[k].callbacks /\ r.nextCBID = conns[k].nextCBID
    BY <1>2, <2>1 DEF Connection
  <2>3. conns' = [conns EXCEPT ![k] = r] /\ UNCHANGED <<vars, calls>>
    BY <1>4, <2>1 DEF ClientLeaves
  <2>4. \A b \in DOMAIN r.callbacks : b < r.nextCBID
    BY <1>1, <2>2
  <2>5. /\ IsMap(conns', Conns, Connection) /\ DOMAIN conns' = DOMAIN conns
        /\ \A j \in DOMAIN conns' : \A b \in DOMAIN conns'[j].callbacks :
              b < conns'[j].nextCBID
        /\ conns'[k] = r /\ \A j \in DOMAIN conns : j # k => conns'[j] = conns[j]
    BY <2>2, <2>3, <2>4, ConnWritten
  <2>6. ASSUME NEW j \in DOMAIN conns
        PROVE  /\ j \in DOMAIN conns' /\ conns'[j].host = conns[j].host
               /\ conns[j].left => conns'[j].left
               /\ conns'[j].callbacks = conns[j].callbacks
    BY <2>2, <2>5
  <2> QED BY <2>3, <2>5, <2>6, ConnsKeep
<1>5. ASSUME NEW k \in Conns, UnregisterClient(k) PROVE EventsInv'
  <2>1. /\ UNCHANGED vars /\ calls' = Unheard(k) /\ BusFree
        /\ conns' = Drop(conns, k)
    BY <1>5 DEF UnregisterClient
  <2>2. /\ IsMap(conns', Conns, Connection) /\ DOMAIN conns' = DOMAIN conns \ {k}
        /\ \A j \in DOMAIN conns \ {k} : conns'[j] = conns[j]
    BY <1>1, <2>1 DEF Drop, Restrict, IsMap
  <2>3. \A j \in DOMAIN conns' : \A b \in DOMAIN conns'[j].callbacks :
           b < conns'[j].nextCBID
    BY <1>1, <2>2
  <2>4. \A j \in DOMAIN conns : j # k =>
            j \in DOMAIN conns' /\ conns'[j] = conns[j]
    BY <2>2
  <2> QED BY <2>1, <2>2, <2>3, <2>4, UnheardKeeps
<1>6. ASSUME NEW k \in DOMAIN conns, NEW e \in EventIDs,
             Register(k, e) \/ DeregisterByEventID(k, e)
      PROVE  EventsInv'
  BY <1>6, RegisterKeeps, DeregisterKeeps
<1> QED BY <1>3, <1>4, <1>5, <1>6

\* Prepare, which no connection of the bus hears of.
LEMMA PrepareKeeps ==
    ASSUME EventsInv, Prepare \/ \E c \in DOMAIN preparing : Prepared(c)
    PROVE  EventsInv'
<1>1. CASE Prepare
  <2>1. Next /\ UNCHANGED <<conns, calls, domains>>
    BY <1>1 DEF Prepare, Next, MigrationCall, PrepareLookup, PrepareRefused
  <2>2. TypeOK'
    BY <2>1, TypeStep DEF EventsInv, EventsTypeOK
  <2>3. EventsTypeOK'
    BY <2>1, <2>2 DEF EventsInv, EventsTypeOK
  <2> QED BY <2>1, <2>3 DEF EventsInv, AudiencesApart
<1>2. ASSUME NEW c \in DOMAIN preparing, Prepared(c) PROVE EventsInv'
  <2>1. Next
    BY <1>2 DEF Prepared, Next, MigrationCall
  <2>2. TypeOK'
    BY <2>1, TypeStep DEF EventsInv, EventsTypeOK
  <2>3. PICK p, d : /\ p = <<preparing[c].host, preparing[c].uuid>>
                    /\ domains' = Put(domains, p, d)
    BY <1>2 DEF Prepared, MigratePrepare
  <2>4. Elsewhere(p)
    BY <2>3 DEF Put, Elsewhere
  <2>5. calls' = Overlapped(p) /\ UNCHANGED conns
    BY <1>2, <2>3 DEF Prepared
  <2> QED BY <2>2, <2>4, <2>5, NobodyJoins
<1> QED BY <1>1, <1>2

-----------------------------------------------------------------------------
(* The announcements.                                                      *)

\* Writing an event to a callback tells no call but the one that sends it.
LEMMA WriteTells ==
    ASSUME EventsInv, NEW k \in DOMAIN calls, NEW cb, Write(k, cb)
    PROVE  \E told \in UNION {[S -> EventTypes] :
                                 S \in SUBSET (Conns \X CallbackIDs)} :
              /\ \/ /\ told = calls[k].told
                    /\ cb \in calls[k].audience => conns[cb[1]].left
                 \/ told = Put(calls[k].told, cb, calls[k].events[1])
              /\ calls' = [calls EXCEPT ![k] =
                             [calls[k] EXCEPT !.told = told, !.cbs = @ \ {cb}]]
<1>1. PICK call \in EventCall : call = calls[k]
  BY DEF EventsInv, EventsTypeOK, IsMap
<1>2. cb \in call.cbs
  BY <1>1 DEF Write
<1>3. /\ cb \in Conns \X CallbackIDs
      /\ call.told \in UNION {[S -> EventTypes] :
                                 S \in SUBSET (Conns \X CallbackIDs)}
      /\ call.events \in Seq(EventTypes)
  BY <1>2 DEF EventCall
<1>4. call.events # <<>>
  <2>1. Sends(call)
    BY <1>1 DEF EventsInv, CallRight
  <2> QED BY <1>2, <2>1 DEF Sends, EventCall
<1>5. PICK e \in EventTypes : e = Head(call.events) /\ e = call.events[1]
  BY <1>3, <1>4
<1>6. PICK T : T = Told(call.place, cb, e)
  OBVIOUS
<1>7. /\ DOMAIN T = DOMAIN calls /\ T = [j \in DOMAIN calls |-> T[j]]
      /\ \A j \in DOMAIN calls : j # k => T[j] = calls[j]
      /\ T[k] = IF cb \in call.audience
                THEN [call EXCEPT !.told = Put(@, cb, e)] ELSE call
  <2>1. \A j \in DOMAIN calls :
           j # k /\ calls[j].place = call.place => calls[j].audience = {}
    BY <1>1 DEF EventsInv, AudiencesApart
  <2> QED BY <1>1, <1>6, <2>1 DEF Told
<1>8. calls' = [IF conns[cb[1]].left THEN calls ELSE T
                   EXCEPT ![k].cbs = @ \ {cb}]
  BY <1>1, <1>5, <1>6 DEF Write
<1>9. CASE conns[cb[1]].left
  <2>1. calls' = [calls EXCEPT ![k] = [call EXCEPT !.cbs = @ \ {cb}]]
    BY <1>1, <1>8, <1>9
  <2>2. [call EXCEPT !.cbs = @ \ {cb}]
           = [call EXCEPT !.told = call.told, !.cbs = @ \ {cb}]
    BY DEF EventCall
  <2> QED BY <1>1, <1>3, <1>9, <2>1, <2>2
<1>10. CASE ~conns[cb[1]].left /\ cb \notin call.audience
  <2>1. calls' = [calls EXCEPT ![k] = [call EXCEPT !.cbs = @ \ {cb}]]
    <3>1. calls = [j \in DOMAIN calls |-> calls[j]]
      BY DEF EventsInv, EventsTypeOK, IsMap
    <3>2. T = calls
      BY <1>1, <1>7, <1>10, <3>1
    <3> QED BY <1>1, <1>8, <1>10, <3>2
  <2>2. [call EXCEPT !.cbs = @ \ {cb}]
           = [call EXCEPT !.told = call.told, !.cbs = @ \ {cb}]
    BY DEF EventCall
  <2> QED BY <1>1, <1>3, <1>10, <2>1, <2>2
<1>11. CASE ~conns[cb[1]].left /\ cb \in call.audience
  <2>1. PICK told : told = Put(call.told, cb, e)
    OBVIOUS
  <2>2. told \in UNION {[S -> EventTypes] : S \in SUBSET (Conns \X CallbackIDs)}
    <3>1. PICK S \in SUBSET (Conns \X CallbackIDs) : call.told \in [S -> EventTypes]
      BY <1>3
    <3>2. told \in [S \cup {cb} -> EventTypes]
      BY <2>1, <3>1 DEF Put
    <3>3. S \cup {cb} \in SUBSET (Conns \X CallbackIDs)
      BY <1>3
    <3> QED BY <3>2, <3>3
  <2>3. PICK heard : heard = [call EXCEPT !.told = told]
    OBVIOUS
  <2>4. T[k] = heard
    BY <1>7, <1>11, <2>1, <2>3
  <2>5. PICK new : new = [heard EXCEPT !.cbs = @ \ {cb}]
    OBVIOUS
  <2>6. calls' = [T EXCEPT ![k] = new]
    BY <1>7, <1>8, <1>11, <2>4, <2>5
  <2>7. calls' = [calls EXCEPT ![k] = new]
    <3>1. calls = [j \in DOMAIN calls |-> calls[j]]
      BY DEF EventsInv, EventsTypeOK, IsMap
    <3>2. [T EXCEPT ![k] = new] = [calls EXCEPT ![k] = new]
      BY <1>7, <3>1
    <3> QED BY <2>6, <3>2
  <2>8. new = [call EXCEPT !.told = told, !.cbs = @ \ {cb}]
    BY <2>3, <2>5 DEF EventCall
  <2> QED BY <1>1, <1>5, <2>1, <2>2, <2>7, <2>8
<1> QED BY <1>9, <1>10, <1>11

\* The goroutine of a connection announces what its call has changed.
LEMMA CallStepKeeps ==
    ASSUME EventsInv, NEW k \in Conns, CallStep(k)
    PROVE  EventsInv'
<1>1. k \in DOMAIN calls
  BY DEF CallStep
<1>2. PICK call \in EventCall : call = calls[k]
  BY <1>1 DEF EventsInv, EventsTypeOK, IsMap
<1>3. PICK cns, doms : cns = conns /\ doms = domains
  OBVIOUS
<1>4. CallRight(call, cns, doms)
  BY <1>1, <1>2, <1>3 DEF EventsInv
<1>5. ASSUME NEW new \in EventCall, new.place = call.place,
             new.audience = call.audience, CallRight(new, cns, doms),
             calls' = [calls EXCEPT ![k] = new], UNCHANGED <<vars, conns>>
      PROVE  EventsInv'
  BY <1>1, <1>2, <1>3, <1>5, CallMoves
<1>6. CASE PerformLookup(k)
  <2>1. PICK new : new = [call EXCEPT
                             !.pc = "emit",
                             !.events = IF call.place \in DOMAIN doms
                                        THEN <<"suspended">> ELSE <<>>]
    OBVIOUS
  <2>2. call.pc = "lookup" /\ UNCHANGED <<vars, conns>>
    BY <1>2, <1>6 DEF PerformLookup
  <2>3. calls' = [calls EXCEPT ![k] = new]
    BY <1>2, <1>3, <1>6, <2>1 DEF PerformLookup
  <2>4. /\ new \in EventCall /\ new.place = call.place
        /\ new.audience = call.audience /\ CallRight(new, cns, doms)
    BY <1>4, <2>1, <2>2, LookupRight
  <2> QED BY <1>5, <2>2, <2>3, <2>4
<1>7. CASE BeginEmit(k)
  <2>1. PICK clients : clients = ClientsOf(call.place[1])
    OBVIOUS
  <2>2. /\ clients \in SUBSET Conns
        /\ AllClients(clients, call, cns)
    BY <1>3, <2>1 DEF ClientsOf, AllClients, EventsInv, EventsTypeOK, IsMap
  <2>3. PICK new : new = Locked(call, clients)
    OBVIOUS
  <2>4. Pending(call) /\ UNCHANGED <<vars, conns>>
    BY <1>2, <1>7 DEF BeginEmit, Pending
  <2>5. calls' = [calls EXCEPT ![k] = new]
    BY <1>2, <1>7, <2>1, <2>3 DEF BeginEmit, Locked
  <2>6. /\ new \in EventCall /\ new.place = call.place
        /\ new.audience = call.audience /\ CallRight(new, cns, doms)
    BY <1>4, <2>2, <2>3, <2>4, BeginRight
  <2> QED BY <1>5, <2>4, <2>5, <2>6
<1>8. ASSUME NEW j \in Conns, Visit(k, j) PROVE EventsInv'
  <2>1. PICK cbs : cbs = GetCallbacksForEvent(j)
    OBVIOUS
  <2>2. call.cbs = {} /\ j \in call.clients /\ UNCHANGED <<vars, conns>>
    BY <1>2, <1>8 DEF Visit
  <2>3. j \in DOMAIN conns /\ conns[j].host = call.place[1]
    BY <1>3, <1>4, <2>2 DEF CallRight, Aims
  <2>4. conns[j].callbacks \in UNION {[S -> EventIDs] : S \in SUBSET CallbackIDs}
    BY <2>3 DEF EventsInv, EventsTypeOK, IsMap, Connection
  <2>5. DOMAIN conns[j].callbacks \subseteq CallbackIDs
    BY <2>4
  <2>6. cbs \in SUBSET (Conns \X CallbackIDs) /\ \A cb \in cbs : cb[1] = j
    BY <2>1, <2>5 DEF GetCallbacksForEvent
  <2>7. ASSUME NEW cb \in call.audience, cb[1] = j PROVE cb \in cbs
    <3>1. cb = <<cb[1], cb[2]>>
      BY DEF EventCall
    <3>2. cb[2] \in DOMAIN conns[j].callbacks
          /\ conns[j].callbacks[cb[2]] = "lifecycle"
      BY <1>3, <1>4, <2>7 DEF CallRight, Subscribed
    <3>3. PICK b : b = cb[2]
      OBVIOUS
    <3>4. cb = <<j, b>> /\ b \in DOMAIN conns[j].callbacks
          /\ conns[j].callbacks[b] = "lifecycle"
      BY <2>7, <3>1, <3>2, <3>3
    <3> QED BY <2>1, <3>4 DEF GetCallbacksForEvent
  <2>8. PICK new : new = Visiting(call, j, cbs)
    OBVIOUS
  <2>9. calls' = [calls EXCEPT ![k] = new]
    BY <1>2, <1>8, <2>1, <2>8 DEF Visit, Visiting
  <2>10. AllCallbacks(cbs, j, call)
    BY <2>6, <2>7 DEF AllCallbacks
  <2>11. /\ new \in EventCall /\ new.place = call.place
         /\ new.audience = call.audience /\ CallRight(new, cns, doms)
    BY <1>4, <2>2, <2>6, <2>8, <2>10, VisitRight
  <2> QED BY <1>5, <2>2, <2>9, <2>11
<1>9. ASSUME NEW cb \in Conns \X (1..MaxCallbacks), Write(k, cb)
      PROVE  EventsInv'
  <2>1. PICK told \in UNION {[S -> EventTypes] :
                                S \in SUBSET (Conns \X CallbackIDs)} :
          /\ \/ /\ told = calls[k].told
                /\ cb \in calls[k].audience => conns[cb[1]].left
             \/ told = Put(calls[k].told, cb, calls[k].events[1])
          /\ calls' = [calls EXCEPT ![k] =
                         [calls[k] EXCEPT !.told = told, !.cbs = @ \ {cb}]]
    BY <1>1, <1>9, WriteTells
  <2>2. cb \in call.cbs /\ UNCHANGED <<vars, conns>>
    BY <1>2, <1>9 DEF Write
  <2>3. \/ told = call.told /\ (cb \in call.audience => cns[cb[1]].left)
        \/ told = Put(call.told, cb, call.events[1])
    BY <1>2, <1>3, <2>1
  <2>4. PICK new : new = [call EXCEPT !.told = told, !.cbs = @ \ {cb}]
    OBVIOUS
  <2>5. calls' = [calls EXCEPT ![k] = new]
    BY <1>2, <2>1, <2>4
  <2>6. /\ new \in EventCall /\ new.place = call.place
        /\ new.audience = call.audience /\ CallRight(new, cns, doms)
    BY <1>4, <2>2, <2>3, <2>4, WriteRight, ZenonT(60)
  <2> QED BY <1>5, <2>2, <2>5, <2>6
<1>10. CASE EndEmit(k)
  <2>1. PICK new : new = [call EXCEPT !.sending = FALSE, !.events = Tail(@)]
    OBVIOUS
  <2>2. /\ call.sending /\ call.clients = {} /\ call.cbs = {}
        /\ UNCHANGED <<vars, conns>>
    BY <1>2, <1>10 DEF EndEmit
  <2>3. calls' = [calls EXCEPT ![k] = new]
    BY <1>2, <1>10, <2>1 DEF EndEmit
  <2>4. /\ new \in EventCall /\ new.place = call.place
        /\ new.audience = call.audience /\ CallRight(new, cns, doms)
    BY <1>4, <2>1, <2>2, EndRight
  <2> QED BY <1>5, <2>2, <2>3, <2>4
<1>11. CASE Reply(k)
  <2>1. calls' = Drop(calls, k) /\ UNCHANGED <<vars, conns>>
    BY <1>11 DEF Reply
  <2>2. IsMap(calls, Conns, EventCall)
    BY DEF EventsInv, EventsTypeOK
  <2>3. /\ IsMap(calls', Conns, EventCall) /\ DOMAIN calls' = DOMAIN calls \ {k}
        /\ \A j \in DOMAIN calls' : calls'[j] = calls[j]
    BY <2>1, <2>2 DEF Drop, Restrict, IsMap
  <2>4. UNCHANGED domains /\ TypeOK'
    BY <2>1 DEF vars, domainVars, hostVars, EventsInv, EventsTypeOK, TypeOK,
                HostsTypeOK
  <2>5. EventsTypeOK'
    BY <2>1, <2>3, <2>4 DEF EventsInv, EventsTypeOK
  <2>6. \A j \in DOMAIN calls' : CallRight(calls'[j], conns', domains')
    BY <2>1, <2>3, <2>4 DEF EventsInv
  <2>7. AudiencesApart'
    BY <2>3 DEF EventsInv, AudiencesApart
  <2> QED BY <2>5, <2>6, <2>7 DEF EventsInv
<1> QED BY <1>6, <1>7, <1>8, <1>9, <1>10, <1>11 DEF CallStep

-----------------------------------------------------------------------------
\* Every step of the event bus keeps the invariant.
LEMMA EventsStep == EventsInv /\ [EventsNext]_evars => EventsInv'
<1> SUFFICES ASSUME EventsInv, [EventsNext]_evars PROVE EventsInv'
    OBVIOUS
<1>1. CASE UNCHANGED evars
  BY <1>1 DEF evars, vars, domainVars, hostVars, EventsInv, EventsTypeOK,
              TypeOK, HostsTypeOK, AudiencesApart
<1>2. ASSUME NEW k \in DOMAIN conns, Call(k), UNCHANGED conns PROVE EventsInv'
  BY <1>2, CallKeeps
<1>3. ASSUME NEW k \in Conns, CallStep(k) PROVE EventsInv'
  BY <1>3, CallStepKeeps
<1>4. CASE \/ \E k \in Conns, h \in Hosts : RegisterClient(k, h)
           \/ \E k \in DOMAIN conns : ClientLeaves(k)
           \/ \E k \in Conns : UnregisterClient(k)
           \/ \E k \in DOMAIN conns, e \in EventIDs :
                  Register(k, e) \/ DeregisterByEventID(k, e)
  BY <1>4, ClientKeeps
<1>5. CASE Prepare \/ \E c \in DOMAIN preparing : Prepared(c)
  BY <1>5, PrepareKeeps
<1> QED BY <1>1, <1>2, <1>3, <1>4, <1>5 DEF EventsNext

\* The hosts are registered, each at a port of its own, and nobody is
\* connected yet.
LEMMA EventsStart == EventsInit => EventsInv
<1> SUFFICES ASSUME EventsInit PROVE EventsInv
    OBVIOUS
<1>1. PICK at \in {CHOOSE f \in Injection(Hosts, Ports) : TRUE},
           profile \in Profiles :
          /\ hosts = [h \in Hosts |->
                        [port |-> at[h], cpus |-> profile.cpus,
                         memoryMB |-> profile.memoryMB, cpuRatio |-> 100,
                         memRatio |-> 100, state |-> "online"]]
          /\ ports = AntiFunction(at) /\ listeners = at
  BY DEF EventsInit
<1>2. at \in Injection(Hosts, Ports)
  BY EventsAssumption DEF EventsAssumption
<1>3. at \in [Hosts -> Ports]
  BY <1>2 DEF Injection
<1>4. profile.cpus \in Nat /\ profile.memoryMB \in Nat
  BY HostsAssumption DEF HostsAssumption
<1>5. IsMap(hosts, Hosts, Host)
  <2>1. ASSUME NEW h \in Hosts
        PROVE  [port |-> at[h], cpus |-> profile.cpus,
                memoryMB |-> profile.memoryMB, cpuRatio |-> 100,
                memRatio |-> 100, state |-> "online"] \in Host
    BY <1>3, <1>4 DEF Host, HostStates
  <2>2. DOMAIN hosts = Hosts /\ hosts \in [Hosts -> Host]
    BY <1>1, <2>1
  <2> QED BY <2>2 DEF IsMap
<1>6. IsMap(ports, Ports, Hosts)
  <2>1. Range(at) \subseteq Ports
    BY <1>3 DEF Range
  <2>2. ASSUME NEW t \in Range(at)
        PROVE  (CHOOSE s \in DOMAIN at : t \in Range(at) => at[s] = t) \in Hosts
    <3>1. \E s \in DOMAIN at : t \in Range(at) => at[s] = t
      BY <1>3 DEF Range
    <3> QED BY <1>3, <3>1
  <2>3. ports = [t \in Range(at) |->
                    CHOOSE s \in DOMAIN at : t \in Range(at) => at[s] = t]
    BY <1>1 DEF AntiFunction, Inverse
  <2>4. DOMAIN ports = Range(at) /\ ports \in [Range(at) -> Hosts]
    BY <2>2, <2>3
  <2> QED BY <2>1, <2>4 DEF IsMap
<1>7. IsMap(listeners, Hosts, Ports)
  BY <1>1, <1>3 DEF IsMap
<1>8. /\ creating = EmptyMap /\ resetting = {} /\ domains = EmptyMap
      /\ nextDomainID = 1 /\ preparing = EmptyMap /\ conns = EmptyMap
      /\ calls = EmptyMap
  BY DEF EventsInit
<1>9. TypeOK
  <2>1. IsMap(creating, HttpCalls, Creation)
    BY <1>8, EmptyIsMap
  <2>2. IsMap(domains, Places, Domain) /\ DOMAIN domains = {}
    BY <1>8, EmptyIsMap
  <2>3. IsMap(preparing, RpcCalls, Preparation)
    BY <1>8, EmptyIsMap
  <2> QED BY <1>5, <1>6, <1>7, <1>8, <2>1, <2>2, <2>3 DEF TypeOK, HostsTypeOK
<1>10. IsMap(conns, Conns, Connection) /\ DOMAIN conns = {}
  BY <1>8, EmptyIsMap
<1>11. IsMap(calls, Conns, EventCall) /\ DOMAIN calls = {}
  BY <1>8, EmptyIsMap
<1> QED BY <1>9, <1>10, <1>11 DEF EventsInv, EventsTypeOK, AudiencesApart

\* The inductive invariant of the event bus.
LEMMA EventsInvariant == EventsSpec => []EventsInv
  BY EventsStart, EventsStep, PTL DEF EventsSpec

\* An event is only ever on its way to connections that are on the bus and
\* belong to the host of the domain (EmitDomainLifecycleEvent writes under
\* the read lock, UnregisterClient takes the write lock), whoever leaves.
THEOREM EmissionsSafe == EventsSpec => []EmissionsAimed
<1>1. EventsInv => EmissionsAimed
  <2> SUFFICES ASSUME EventsInv, NEW k \in DOMAIN calls
               PROVE  calls[k].clients \cup {cb[1] : cb \in calls[k].cbs}
                         \subseteq ClientsOf(calls[k].place[1])
      BY DEF EmissionsAimed
  <2>1. Aims(calls[k], conns)
    BY DEF EventsInv, CallRight
  <2> QED BY <2>1 DEF Aims, ClientsOf
<1> QED BY <1>1, EventsInvariant, PTL

\* When a call that nobody overlaps has announced its change, what each
\* callback registered throughout has heard last agrees with the store, for
\* any number of connections, callbacks, hosts and concurrent calls.
THEOREM EventsSafe == EventsSpec => []EventsAgree
<1>1. EventsInv => EventsAgree
  <2> SUFFICES ASSUME EventsInv, NEW k \in DOMAIN calls, Announced(k),
                      NEW cb \in calls[k].audience, ~conns[cb[1]].left
               PROVE  /\ cb \in DOMAIN calls[k].told
                      /\ Agrees(calls[k].told[cb], calls[k].place)
      BY DEF EventsAgree
  <2>1. PICK call : call = calls[k]
    OBVIOUS
  <2>2. Hears(call, cb, domains)
    BY <2>1 DEF EventsInv, CallRight
  <2>3. call.pc = "emit" /\ call.events = <<>>
    BY <2>1 DEF Announced
  <2>4. cb \in DOMAIN call.told /\ AgreesIn(call.told[cb], call.place, domains)
    BY <2>2, <2>3 DEF Hears
  <2>5. \A e, p : AgreesIn(e, p, domains) => Agrees(e, p)
    BY DEF AgreesIn, Agrees
  <2> QED BY <2>1, <2>4, <2>5
<1> QED BY <1>1, EventsInvariant, PTL
=============================================================================
