------------------------------ MODULE EventLog ------------------------------
(***************************************************************************)
(* The event log (common/pkg/eventlog/eventlog.go) and the request that    *)
(* reads it page by page (common/internal/handler/events.go).  Record,     *)
(* Query and Clear each hold EventLog.mu from start to end; a client that  *)
(* pages through the log makes one Query per page.                         *)
(***************************************************************************)
EXTENDS Integers, Sequences, Maps

CONSTANTS
    Simulators,   \* the simulators that record events
    PageSizes,    \* values of the parameter limit; 0 asks for all
    Pagers,       \* slots for clients that page through the log
    MaxEvents,    \* bound: events recorded between two clears
    MaxTime       \* bound: the clock

ASSUME EventAssumption == PageSizes \subseteq Int

VARIABLES
    events,        \* EventLog.events
    eventCounter,  \* EventLog.counter
    clock,         \* the wall clock, which does not go back
    pagers         \* the clients

eventVars == <<events, eventCounter, clock, pagers>>

-----------------------------------------------------------------------------
EventInit ==
    /\ events = <<>>
    /\ eventCounter = 0
    /\ clock = 1
    /\ pagers = EmptyMap

Record(sim) ==
    /\ eventCounter < MaxEvents
    /\ eventCounter' = eventCounter + 1
    /\ events' = Append(events, [id |-> eventCounter + 1, simulator |-> sim,
                                 time |-> clock])
    /\ UNCHANGED <<clock, pagers>>

Clear ==
    /\ events' = <<>>
    /\ eventCounter' = 0
    /\ pagers' = [p \in DOMAIN pagers |->
                     [pagers[p] EXCEPT !.cleared = TRUE]]
    /\ UNCHANGED clock

EventTick ==
    /\ clock < MaxTime
    /\ clock' = clock + 1
    /\ UNCHANGED <<events, eventCounter, pagers>>

-----------------------------------------------------------------------------
\* An empty simulator and the zero time stand for no filter.
Matches(e, filter) == /\ filter.simulator \in {"", e.simulator}
                      /\ filter.after = 0 \/ e.time > filter.after

\* The events of the log that match, in its order.
Matched(log, filter) ==
    LET M[i \in 0..Len(log)] ==
            IF i = 0 THEN <<>>
            ELSE IF Matches(log[i], filter) THEN Append(M[i - 1], log[i])
            ELSE M[i - 1]
    IN M[Len(log)]

\* Mutant: cuts to the limit before it skips to the offset.
QueryLimitFirst(log, filter, offset, limit) ==
    LET matched == Matched(log, filter)
        cut == IF limit > 0 /\ limit < Len(matched)
               THEN SubSeq(matched, 1, limit) ELSE matched
    IN IF offset >= Len(cut) THEN <<>> ELSE SubSeq(cut, offset + 1, Len(cut))

\* The page; the total that is returned with it is Len(Matched(log, filter)).
Query(log, filter, offset, limit) ==
    LET matched == Matched(log, filter)
        rest == IF offset > 0 THEN SubSeq(matched, offset + 1, Len(matched))
                ELSE matched
    IN IF limit > 0 /\ limit < Len(rest) THEN SubSeq(rest, 1, limit) ELSE rest

\* A client starts to page with a filter of its own.
PageBegin(p, filter) ==
    /\ p \notin DOMAIN pagers
    /\ pagers' = Put(pagers, p, [filter |-> filter, got |-> <<>>,
                                 known |-> Len(Matched(events, filter)),
                                 cleared |-> FALSE, over |-> FALSE,
                                 stalled |-> FALSE])
    /\ UNCHANGED <<events, eventCounter, clock>>

\* getEvents with the offset set to the number of events the client has: the
\* client stops when the offset has reached the total of the reply.  stalled:
\* a page was empty before that.
GetEvents(p, limit) ==
    /\ p \in DOMAIN pagers /\ ~pagers[p].over
    /\ LET c    == pagers[p]
           page == Query(events, c.filter, Len(c.got), limit)
           over == Len(c.got \o page) >= Len(Matched(events, c.filter))
       IN pagers' = [pagers EXCEPT
              ![p].got = @ \o page, ![p].over = over,
              ![p].stalled = page = <<>> /\ ~over]
    /\ UNCHANGED <<events, eventCounter, clock>>

PageEnd(p) ==
    /\ p \in DOMAIN pagers /\ pagers[p].over
    /\ pagers' = Drop(pagers, p)
    /\ UNCHANGED <<events, eventCounter, clock>>

EventFilters == [simulator : Simulators \cup {""}, after : 0..MaxTime]

EventNext ==
    \/ \E sim \in Simulators : Record(sim)
    \/ Clear
    \/ EventTick
    \/ \E p \in Pagers :
        \/ \E filter \in EventFilters : PageBegin(p, filter)
        \/ \E limit \in PageSizes : GetEvents(p, limit)
        \/ PageEnd(p)

EventSpec == EventInit /\ [][EventNext]_eventVars

-----------------------------------------------------------------------------
(* Properties.                                                             *)

\* The log is numbered without gaps and ordered by time: an event's id is its
\* place in the log, also after a clear, which starts at 1 again.
LogOrdered ==
    /\ eventCounter = Len(events)
    /\ \A i \in 1..Len(events) :
          /\ events[i].id = i
          /\ events[i].simulator \in Simulators /\ events[i].time <= clock
          /\ i > 1 => events[i - 1].time <= events[i].time

\* A client that pages by offset while simulators record gets the matching
\* events in order, each once, never an empty page before the end, and has
\* all that were there when it began, unless the log was cleared under it.
PagesComplete ==
    \A p \in DOMAIN pagers :
        LET c == pagers[p]
            all == Matched(events, c.filter)
        IN ~c.cleared => /\ Len(c.got) <= Len(all)
                         /\ c.got = SubSeq(all, 1, Len(c.got))
                         /\ c.over => Len(c.got) >= c.known
                         /\ ~c.stalled
=============================================================================
