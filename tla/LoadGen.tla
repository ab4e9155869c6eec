------------------------------- MODULE LoadGen -------------------------------
(***************************************************************************)
(* The workload engine of load-gen (load-gen/internal/engine/engine.go)    *)
(* and the two requests that show a run (handler/handler.go).              *)
(*                                                                         *)
(* A run is executed by a goroutine of its own, which writes the outcome   *)
(* under Engine.mu when the phases are over.  GetRun copies the run under  *)
(* the lock, but the copy shares the map of assertion results, and both    *)
(* handlers encode their reply without the lock.                           *)
(***************************************************************************)
EXTENDS Integers, Sequences, Maps

CONSTANTS
    Phases,      \* the lists of phases of workloads
    Metrics,     \* the metrics assertions are about
    Assertions,  \* the lists of assertions of workloads, as their metrics
    Gets,        \* slots for requests that encode a run
    MaxRuns      \* bound: runs started

\* In an unpaced phase the interval of an action does not fit a Duration, as
\* with a rate of 0.
PhaseKinds == {"paced", "unpaced"}

ASSUME LoadgenAssumption ==
    /\ Phases \subseteq Seq(PhaseKinds)
    /\ Assertions \subseteq Seq(Metrics)
    /\ MaxRuns \in Nat

VARIABLES
    runs,        \* Engine.runs
    runCounter,  \* Engine.counter
    writing,     \* the run whose goroutine holds Engine.mu to write the outcome
    gets         \* runWorkload and getRun requests, from the lock to the reply

loadgenVars == <<runs, runCounter, writing, gets>>

-----------------------------------------------------------------------------
\* phases: those not executed yet.  asleep: the goroutine is in a sleep without
\* end.  evaluated: the assertions done.  results: the keys of the map.
Run == [status : {"running", "completed"}, phases : Seq(PhaseKinds),
        asleep : BOOLEAN, assertions : Seq(Metrics), evaluated : Nat,
        results : SUBSET Metrics]

\* A request: the run it shows, whether it shares the run or has a copy, and
\* what it has read of it.
Get == [run : Nat, shared : BOOLEAN, status : {"running", "completed"},
        results : SUBSET Metrics, sent : BOOLEAN]

LoadgenInit ==
    /\ runs = EmptyMap
    /\ runCounter = 0
    /\ writing = {}
    /\ gets = EmptyMap

\* The reply is encoded from the run itself: a status read later than this.
RunWorkload(g, phases, assertions) ==
    /\ writing = {} /\ runCounter < MaxRuns /\ g \notin DOMAIN gets
    /\ runCounter' = runCounter + 1
    /\ runs' = Put(runs, runCounter + 1,
                   [status |-> "running", phases |-> phases, asleep |-> FALSE,
                    assertions |-> assertions, evaluated |-> 0,
                    results |-> {}])
    /\ gets' = Put(gets, g, [run |-> runCounter + 1, shared |-> TRUE,
                             status |-> "running", results |-> {},
                             sent |-> FALSE])
    /\ UNCHANGED writing

-----------------------------------------------------------------------------
(* executeWorkload.                                                        *)

\* Mutant: the last phase has no deadline.
PhaseEndsButLast(i) ==
    /\ runs[i].status = "running" /\ ~runs[i].asleep
    /\ Len(runs[i].phases) > 1
    /\ runs' = [runs EXCEPT ![i].phases = Tail(@)]
    /\ UNCHANGED <<runCounter, writing, gets>>

\* The deadline of a phase has passed and the sleep that passed it, which no
\* deadline cuts short, is over.
PhaseEnds(i) ==
    /\ runs[i].status = "running" /\ ~runs[i].asleep
    /\ runs[i].phases # <<>>
    /\ runs' = [runs EXCEPT ![i].phases = Tail(@)]
    /\ UNCHANGED <<runCounter, writing, gets>>

\* What Go makes of an interval that does not fit a Duration depends on the
\* processor: the least one, and no sleep, or the greatest, 292 years.
Oversleeps(i) ==
    /\ runs[i].status = "running" /\ ~runs[i].asleep
    /\ runs[i].phases # <<>> /\ Head(runs[i].phases) = "unpaced"
    /\ runs' = [runs EXCEPT ![i].asleep = TRUE]
    /\ UNCHANGED <<runCounter, writing, gets>>

Complete(i) ==
    /\ runs[i].status = "running" /\ runs[i].phases = <<>>
    /\ writing = {}
    /\ writing' = {i}
    /\ runs' = [runs EXCEPT ![i].status = "completed"]
    /\ UNCHANGED <<runCounter, gets>>

\* result.Assertions[a.Metric] = ar, one write after the other: a second
\* assertion on a metric replaces the result of the first.
EvaluateAssertion(i) ==
    LET n == runs[i].evaluated + 1
    IN  /\ i \in writing
        /\ n \in DOMAIN runs[i].assertions
        /\ runs' = [runs EXCEPT ![i].evaluated = n,
                                ![i].results = @ \cup {runs[i].assertions[n]}]
        /\ UNCHANGED <<runCounter, writing, gets>>

\* Mutant: releases the lock before it has evaluated the assertions.
UnlockEarly(i) ==
    /\ i \in writing
    /\ writing' = {}
    /\ UNCHANGED <<runs, runCounter, gets>>

Unlock(i) ==
    /\ i \in writing
    /\ runs[i].evaluated = Len(runs[i].assertions)
    /\ writing' = {}
    /\ UNCHANGED <<runs, runCounter, gets>>

-----------------------------------------------------------------------------
(* Requests.                                                               *)

GetRun(g, i) ==
    /\ writing = {} /\ g \notin DOMAIN gets
    /\ i \in DOMAIN runs
    /\ gets' = Put(gets, g, [run |-> i, shared |-> FALSE,
                             status |-> runs[i].status, results |-> {},
                             sent |-> FALSE])
    /\ UNCHANGED <<runs, runCounter, writing>>

\* The encoder walks the map of results that the goroutine may be writing.
Encode(g) ==
    /\ g \in DOMAIN gets /\ ~gets[g].sent
    /\ gets' = [gets EXCEPT
                   ![g].sent = TRUE, ![g].results = runs[gets[g].run].results,
                   ![g].status = IF gets[g].shared
                                 THEN runs[gets[g].run].status ELSE @]
    /\ UNCHANGED <<runs, runCounter, writing>>

\* Go stops the process when it notices that a map is written during a walk;
\* the runs are lost with it.
MapRace(g) ==
    /\ g \in DOMAIN gets /\ ~gets[g].sent
    /\ gets[g].run \in writing
    /\ runs[gets[g].run].assertions # <<>>
    /\ runs' = EmptyMap
    /\ runCounter' = 0
    /\ writing' = {}
    /\ gets' = EmptyMap

Replied(g) ==
    /\ g \in DOMAIN gets /\ gets[g].sent
    /\ gets' = Drop(gets, g)
    /\ UNCHANGED <<runs, runCounter, writing>>

-----------------------------------------------------------------------------
RunStep(i) ==
    /\ i \in DOMAIN runs
    /\ \/ PhaseEnds(i) \/ Oversleeps(i) \/ Complete(i)
       \/ EvaluateAssertion(i) \/ Unlock(i)

LoadgenNext ==
    \/ \E g \in Gets :
        \/ \E p \in Phases, a \in Assertions : RunWorkload(g, p, a)
        \/ \E i \in DOMAIN runs : GetRun(g, i)
        \/ Encode(g) \/ MapRace(g) \/ Replied(g)
    \/ \E i \in 1..MaxRuns : RunStep(i)

LoadgenSpec == LoadgenInit /\ [][LoadgenNext]_loadgenVars

\* The goroutines run, the deadlines pass and the sleeps that fit a Duration
\* end; nothing is assumed of one that oversleeps.
LoadgenFairness == \A i \in 1..MaxRuns : WF_loadgenVars(RunStep(i))

-----------------------------------------------------------------------------
(* Properties.                                                             *)

\* The runs are well formed and the lock is held by a completed run.
LoadgenTypeOK ==
    /\ IsMap(runs, 1..runCounter, Run)
    /\ runCounter \in 0..MaxRuns
    /\ \A i \in writing : i \in DOMAIN runs /\ runs[i].status = "completed"
    /\ IsMap(gets, Gets, Get)
    /\ \A g \in DOMAIN gets : gets[g].run \in DOMAIN runs

\* A client that polls getRun until it reads "completed" has a result for
\* every metric that is asserted: although the map is read without the lock, a
\* copy that says "completed" was taken after the last of them was written.
PolledResultsWhole ==
    \A g \in DOMAIN gets :
        (gets[g].sent /\ ~gets[g].shared /\ gets[g].status = "completed")
        => gets[g].results = Range(runs[gets[g].run].assertions)

\* A run appears as running and completes, unless the process goes down or a
\* phase without pace puts it to sleep for good: the engine implements
\* AsyncLifecycle.
RunsSeen ==
    [i \in 1..MaxRuns |-> IF i \notin DOMAIN runs THEN "absent"
                          ELSE IF runs[i].asleep THEN "asleep"
                          ELSE runs[i].status]

RunLifecycle == INSTANCE AsyncLifecycle WITH
    Ids <- 1..MaxRuns, Absent <- "absent", Initial <- "running",
    Edges <- {<<"running", "completed">>, <<"running", "asleep">>},
    st <- RunsSeen

RunsFollowLifecycle == RunLifecycle!LiveSpec
=============================================================================
