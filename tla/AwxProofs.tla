------------------------------ MODULE AwxProofs ------------------------------
(***************************************************************************)
(* The job engine of awx-sim: it is well typed, no unfinished job is ever  *)
(* without the launch that completes it, and every step a client can see   *)
(* is one AsyncLifecycle allows, for every number of launches and jobs.    *)
(***************************************************************************)
EXTENDS AwxSim, MapProofs

\* A step of a launch or of its timer rewrites that launch and keeps its job.
LEMMA LaunchWrites ==
    ASSUME IsMap(launches, Launches, Launch), NEW g \in DOMAIN launches,
           LaunchStep(g) \/ TimerStep(g)
    PROVE  /\ IsMap(launches', Launches, Launch)
           /\ DOMAIN launches' = DOMAIN launches
           /\ launches'[g].id = launches[g].id
           /\ launches'[g].current = launches[g].current
           /\ \A k \in DOMAIN launches : k # g => launches'[k] = launches[k]
<1>1. launches[g] \in Launch
  BY MapValue
<1>2. PICK l \in Launch : /\ launches' = [launches EXCEPT ![g] = l]
                          /\ l.id = launches[g].id
                          /\ l.current = launches[g].current
  <2>1. CASE StartJob(g)
    <3> DEFINE l == [launches[g] EXCEPT !.call = "schedule"]
    <3>1. l \in Launch /\ l.id = launches[g].id /\ l.current = launches[g].current
      BY <1>1 DEF Launch
    <3>2. launches' = [launches EXCEPT ![g] = l]
      BY <2>1 DEF StartJob
    <3> QED BY <3>1, <3>2
  <2>2. CASE ScheduleCompletion(g)
    <3> DEFINE l == [launches[g] EXCEPT !.call = "append", !.timer = "armed"]
    <3>1. l \in Launch /\ l.id = launches[g].id /\ l.current = launches[g].current
      BY <1>1 DEF Launch
    <3>2. launches' = [launches EXCEPT ![g] = l]
      BY <2>2 DEF ScheduleCompletion
    <3> QED BY <3>1, <3>2
  <2>3. CASE AppendTimer(g)
    <3> DEFINE l == [launches[g] EXCEPT !.call = "reply", !.listed = TRUE]
    <3>1. l \in Launch /\ l.id = launches[g].id /\ l.current = launches[g].current
      BY <1>1 DEF Launch
    <3>2. launches' = [launches EXCEPT ![g] = l]
      BY <2>3 DEF AppendTimer
    <3> QED BY <3>1, <3>2
  <2>4. CASE Reply(g)
    <3> DEFINE l == [launches[g] EXCEPT !.call = "returned"]
    <3>1. l \in Launch /\ l.id = launches[g].id /\ l.current = launches[g].current
      BY <1>1 DEF Launch
    <3>2. launches' = [launches EXCEPT ![g] = l]
      BY <2>4 DEF Reply
    <3> QED BY <3>1, <3>2
  <2>5. ASSUME NEW t \in {"fired", "posting", "done", "unsent"},
               launches' = [launches EXCEPT ![g].timer = t]
        PROVE  \E l \in Launch : /\ launches' = [launches EXCEPT ![g] = l]
                                 /\ l.id = launches[g].id
                                 /\ l.current = launches[g].current
    <3> DEFINE l == [launches[g] EXCEPT !.timer = t]
    <3>1. l \in Launch /\ l.id = launches[g].id /\ l.current = launches[g].current
      BY <1>1, <2>5 DEF Launch
    <3>2. launches' = [launches EXCEPT ![g] = l]
      BY <2>5
    <3> QED BY <3>1, <3>2
  <2>6. CASE TimerStep(g)
    BY <2>5, <2>6 DEF TimerStep, Fire, CompleteJob, CompleteNothing,
                      SendCallback
  <2> QED BY <2>1, <2>2, <2>3, <2>4, <2>6 DEF LaunchStep
<1> QED BY <1>2, UpdateIsMap

-----------------------------------------------------------------------------
(* Types.                                                                  *)

\* A reset leaves well-formed launches.
LEMMA StoppedLaunch == ASSUME NEW l \in Launch PROVE Stopped(l) \in Launch
  BY DEF Stopped, Launch

\* Every step keeps the store well typed.
LEMMA TypeStep == TypeOK /\ [Next]_vars => TypeOK'
<1> SUFFICES ASSUME TypeOK, [Next]_vars PROVE TypeOK'
    OBVIOUS
<1>0. /\ IsMap(jobs, Nat, Statuses) /\ IsMap(launches, Launches, Launch)
      /\ IsMap(templates, Nat, Rates) /\ nextJobID \in Nat
      /\ nextTemplateID \in Nat
  BY DEF TypeOK
<1>1. ASSUME NEW rate \in Rates, CreateTemplate(rate) PROVE TypeOK'
  <2>1. IsMap(templates', Nat, Rates)
    BY <1>0, <1>1, PutIsMap DEF CreateTemplate
  <2> QED BY <1>1, <2>1 DEF CreateTemplate, TypeOK
<1>2. ASSUME NEW g \in Launches, NEW t \in DOMAIN templates, LaunchJob(g, t)
      PROVE  TypeOK'
  <2> DEFINE l == [id |-> nextJobID, rate |-> templates[t],
                   current |-> TRUE, listed |-> FALSE,
                   call |-> "start", timer |-> "none"]
  <2>1. templates[t] \in Rates
    BY <1>0, MapValue
  <2>2. l \in Launch
    BY <1>0, <2>1, AwxAssumption DEF Launch, AwxAssumption
  <2>3. launches' = Put(launches, g, l) /\ jobs' = Put(jobs, nextJobID, "pending")
    BY <1>2 DEF LaunchJob
  <2> HIDE DEF l
  <2>4. IsMap(launches', Launches, Launch)
    BY <1>0, <2>2, <2>3, PutIsMap
  <2>5. IsMap(jobs', Nat, Statuses)
    <3>1. "pending" \in Statuses
      BY DEF Statuses
    <3> QED BY <1>0, <2>3, <3>1, PutIsMap
  <2> QED BY <1>2, <2>4, <2>5 DEF LaunchJob, TypeOK
<1>3. ASSUME NEW j \in DOMAIN jobs, CancelJob(j) PROVE TypeOK'
  <2>1. "canceled" \in Statuses
    BY DEF Statuses
  <2> QED BY <1>3, <2>1, UpdateIsMap DEF CancelJob, TypeOK
<1>4. ASSUME NEW enabled \in BOOLEAN, SetCallback(enabled) PROVE TypeOK'
  BY <1>4 DEF SetCallback, TypeOK
<1>5. CASE Reset
  <2>1. IsMap(launches', Launches, Launch)
    BY <1>0, <1>5, StoppedLaunch DEF Reset, IsMap
  <2> QED BY <1>5, <2>1, EmptyIsMap DEF Reset, TypeOK
<1>6. ASSUME NEW g \in Launches, LaunchStep(g) \/ TimerStep(g) PROVE TypeOK'
  <2>1. IsMap(launches', Launches, Launch)
    BY <1>0, <1>6, LaunchWrites DEF LaunchStep, TimerStep
  <2>2. \/ jobs' = jobs
        \/ \E j \in DOMAIN jobs, s \in Statuses : jobs' = [jobs EXCEPT ![j] = s]
    BY <1>0, <1>6 DEF LaunchStep, TimerStep, StartJob, ScheduleCompletion,
       AppendTimer, Reply, Fire, CompleteJob, CompleteNothing, SendCallback,
       Completable, Statuses, IsMap
  <2>3. IsMap(jobs', Nat, Statuses)
    BY <1>0, <2>2, UpdateIsMap
  <2>4. UNCHANGED <<templates, nextTemplateID, nextJobID, callback>>
    BY <1>6 DEF LaunchStep, TimerStep, StartJob, ScheduleCompletion,
       AppendTimer, Reply, Fire, CompleteJob, CompleteNothing, SendCallback
  <2> QED BY <2>1, <2>3, <2>4 DEF TypeOK
<1>7. CASE UNCHANGED vars
  BY <1>7 DEF vars, TypeOK
<1> QED BY <1>1, <1>2, <1>3, <1>4, <1>5, <1>6, <1>7 DEF Next, Request

\* The store is well typed in every behaviour.
THEOREM TypeCorrect == Spec => []TypeOK
<1>1. Init => TypeOK
  <2>1. /\ IsMap(EmptyMap, Nat, Rates) /\ IsMap(EmptyMap, Nat, Statuses)
        /\ IsMap(EmptyMap, Launches, Launch)
    BY EmptyIsMap
  <2>2. Init => callback \in BOOLEAN
    BY Zenon DEF Init
  <2>3. Init => nextTemplateID \in Nat /\ nextJobID \in Nat
    BY DEF Init
  <2> QED BY <2>1, <2>2, <2>3, Zenon DEF Init, TypeOK
<1> QED BY <1>1, TypeStep, PTL DEF Spec

-----------------------------------------------------------------------------
(* No job is forgotten.                                                    *)

\* An unfinished job keeps its own launch, or the timer of it, until it ends or
\* a reset removes it: the invariant is inductive as it stands.
THEOREM TimersSafe == Spec => []JobsHaveTimers
<1>1. Init => JobsHaveTimers
  BY EmptyIsMap DEF Init, JobsHaveTimers
<1>2. TypeOK /\ JobsHaveTimers /\ [Next]_vars => JobsHaveTimers'
  <2> SUFFICES ASSUME TypeOK, JobsHaveTimers, [Next]_vars,
                      NEW j \in DOMAIN jobs', jobs'[j] \in {"pending", "running"}
               PROVE  OwnTimer(j)'
      BY DEF JobsHaveTimers
  <2>0. /\ IsMap(jobs, Nat, Statuses) /\ IsMap(launches, Launches, Launch)
        /\ \A k \in DOMAIN launches : launches[k] \in Launch
    BY MapValue DEF TypeOK
  <2>1. CASE UNCHANGED <<jobs, launches>>
    BY <2>1 DEF JobsHaveTimers, OwnTimer
  <2>2. ASSUME NEW g \in Launches, NEW t, LaunchJob(g, t) PROVE OwnTimer(j)'
    <3>1. /\ g \in DOMAIN launches' /\ launches'[g].id = nextJobID
          /\ launches'[g].current /\ launches'[g].call = "start"
      BY <2>2 DEF LaunchJob, Put
    <3>2. CASE j = nextJobID
      BY <3>1, <3>2 DEF OwnTimer
    <3>3. CASE j # nextJobID
      <4>1. j \in DOMAIN jobs /\ jobs'[j] = jobs[j]
        BY <2>2, <3>3 DEF LaunchJob, Put
      <4>2. OwnTimer(j)
        BY <4>1 DEF JobsHaveTimers
      <4>3. \A k \in DOMAIN launches :
                k # g => k \in DOMAIN launches' /\ launches'[k] = launches[k]
        BY <2>2 DEF LaunchJob, Put
      <4>4. g \in DOMAIN launches =>
                /\ launches[g].call = "returned"
                /\ launches[g].timer \in {"stopped", "done", "unsent"}
        BY <2>2 DEF LaunchJob, Free, Over
      <4> QED BY <4>1, <4>2, <4>3, <4>4 DEF OwnTimer
    <3> QED BY <3>2, <3>3
  <2>3. ASSUME NEW k, CancelJob(k) PROVE OwnTimer(j)'
    BY <2>3 DEF CancelJob, JobsHaveTimers, OwnTimer
  <2>4. ASSUME Reset PROVE OwnTimer(j)'
    BY <2>4, EmptyIsMap DEF Reset
  <2>5. ASSUME NEW g \in DOMAIN launches, LaunchStep(g) \/ TimerStep(g)
        PROVE  OwnTimer(j)'
    <3>1. /\ DOMAIN launches' = DOMAIN launches
          /\ launches'[g].id = launches[g].id
          /\ launches'[g].current = launches[g].current
          /\ \A k \in DOMAIN launches : k # g => launches'[k] = launches[k]
      BY <2>0, <2>5, LaunchWrites
    <3>2. \/ jobs' = jobs
          \/ \E k \in DOMAIN jobs, s \in Statuses : jobs' = [jobs EXCEPT ![k] = s]
      BY <2>0, <2>5 DEF LaunchStep, TimerStep, StartJob, ScheduleCompletion,
         AppendTimer, Reply, Fire, CompleteJob, CompleteNothing, SendCallback,
         Completable, Statuses, IsMap
    <3>3. j \in DOMAIN jobs
      BY <3>2
    <3>4. launches[g] \in Launch
      BY <2>0
    <3>5. CASE StartJob(g)
      BY <2>0, <3>1, <3>3, <3>4, <3>5 DEF StartJob, JobsHaveTimers, OwnTimer, Launch
    <3>6. CASE ScheduleCompletion(g) \/ AppendTimer(g) \/ Reply(g)
      <4>1. \/ launches[g].call = "schedule" /\ launches'[g].timer = "armed"
            \/ /\ launches[g].call \in {"append", "reply"}
               /\ launches'[g].timer = launches[g].timer
        <5>1. CASE ScheduleCompletion(g)
          BY <3>4, <5>1 DEF ScheduleCompletion, Launch
        <5>2. CASE AppendTimer(g)
          BY <3>4, <5>2 DEF AppendTimer, Launch
        <5>3. CASE Reply(g)
          BY <3>4, <5>3 DEF Reply, Launch
        <5> QED BY <3>6, <5>1, <5>2, <5>3
      <4>2. jobs' = jobs
        BY <3>6 DEF ScheduleCompletion, AppendTimer, Reply
      <4>3. OwnTimer(j)
        BY <3>3, <4>2 DEF JobsHaveTimers
      <4> QED BY <3>1, <4>1, <4>2, <4>3 DEF OwnTimer
    <3>7. CASE Fire(g) \/ CompleteNothing(g) \/ SendCallback(g)
      BY <3>1, <3>3, <3>4, <3>7 DEF Fire, CompleteNothing, SendCallback,
         Completable, JobsHaveTimers, OwnTimer, Launch
    <3>8. ASSUME NEW s \in Statuses, CompleteJob(g, s) PROVE OwnTimer(j)'
      BY <3>1, <3>3, <3>4, <3>8 DEF CompleteJob, Completable, Outcomes,
         JobsHaveTimers, OwnTimer, Launch
    <3> QED BY <2>5, <3>5, <3>6, <3>7, <3>8 DEF LaunchStep, TimerStep
  <2> QED BY <2>1, <2>2, <2>3, <2>4, <2>5 DEF Next, Request, CreateTemplate,
             SetCallback, LaunchStep, TimerStep, vars
<1> QED BY <1>1, <1>2, TypeCorrect, PTL DEF Spec

-----------------------------------------------------------------------------
(* The documented life cycle.                                              *)

\* Job numbers are handed out in order, so the next one is not in use.
NumbersFresh ==
    /\ nextJobID \in Nat \ {0}
    /\ DOMAIN jobs \subseteq 1..MaxJobs
    /\ \A j \in DOMAIN jobs : j < nextJobID

\* A launch puts a pending job under the next number, a reset removes all jobs
\* and starts again from 1, a move takes one job along a documented edge.
Appears == /\ nextJobID <= MaxJobs
           /\ jobs' = Put(jobs, nextJobID, "pending")
           /\ nextJobID' = nextJobID + 1

Vanish == jobs' = EmptyMap /\ nextJobID' = 1

Moves == /\ \E j \in DOMAIN jobs, s \in Statuses :
                <<jobs[j], s>> \in JobEdges /\ jobs' = [jobs EXCEPT ![j] = s]
         /\ UNCHANGED nextJobID

\* Every step is one of those, or leaves the jobs alone.
LEMMA JobStep ==
    ASSUME TypeOK, [Next]_vars
    PROVE  Appears \/ Vanish \/ Moves \/ UNCHANGED <<jobs, nextJobID>>
<1>0. IsMap(jobs, Nat, Statuses)
  BY DEF TypeOK
<1>1. ASSUME NEW j \in DOMAIN jobs, CancelJob(j) PROVE Moves
  <2>1. jobs[j] \in {"pending", "running"} /\ jobs' = [jobs EXCEPT ![j] = "canceled"]
    BY <1>1 DEF CancelJob
  <2>2. <<jobs[j], "canceled">> \in JobEdges /\ "canceled" \in Statuses
    BY <2>1 DEF JobEdges, Statuses
  <2> QED BY <1>1, <2>1, <2>2 DEF Moves, CancelJob
<1>2. ASSUME NEW g, StartJob(g) PROVE Moves \/ UNCHANGED <<jobs, nextJobID>>
  <2> DEFINE j == launches[g].id
  <2>1. CASE jobs' = jobs
    BY <1>2, <2>1 DEF StartJob
  <2>2. CASE jobs' # jobs
    <3>1. jobs[j] = "pending" /\ jobs' = [jobs EXCEPT ![j] = "running"]
      BY <1>2, <2>2 DEF StartJob
    <3>2. j \in DOMAIN jobs
      BY <1>0, <2>2, <3>1 DEF IsMap
    <3>3. <<jobs[j], "running">> \in JobEdges /\ "running" \in Statuses
      BY <3>1 DEF JobEdges, Statuses
    <3> QED BY <1>2, <3>1, <3>2, <3>3 DEF Moves, StartJob
  <2> QED BY <2>1, <2>2
<1>3. ASSUME NEW g, NEW s \in Statuses, CompleteJob(g, s) PROVE Moves
  <2> DEFINE j == launches[g].id
  <2>1. /\ j \in DOMAIN jobs /\ jobs[j] = "running"
        /\ s \in {"successful", "failed"} /\ jobs' = [jobs EXCEPT ![j] = s]
    BY <1>3 DEF CompleteJob, Completable, Outcomes
  <2>2. <<jobs[j], s>> \in JobEdges
    BY <2>1 DEF JobEdges
  <2> QED BY <1>3, <2>1, <2>2 DEF Moves, CompleteJob
<1>4. CASE Request
  BY <1>1, <1>4 DEF Request, CreateTemplate, LaunchJob, SetCallback, Reset,
                    Appears, Vanish
<1>5. ASSUME NEW g, LaunchStep(g) \/ TimerStep(g)
      PROVE  Moves \/ UNCHANGED <<jobs, nextJobID>>
  BY <1>2, <1>3, <1>5 DEF LaunchStep, TimerStep, ScheduleCompletion,
     AppendTimer, Reply, Fire, CompleteNothing, SendCallback
<1>6. CASE UNCHANGED vars
  BY <1>6 DEF vars
<1> QED BY <1>4, <1>5, <1>6 DEF Next

\* So the numbers stay fresh.
LEMMA NumbersStep == TypeOK /\ NumbersFresh /\ [Next]_vars => NumbersFresh'
<1> SUFFICES ASSUME TypeOK, NumbersFresh, [Next]_vars PROVE NumbersFresh'
    OBVIOUS
<1>1. CASE Appears
  BY <1>1 DEF Appears, NumbersFresh, Put
<1>2. CASE Vanish
  BY <1>2, EmptyIsMap DEF Vanish, NumbersFresh
<1>3. CASE Moves
  BY <1>3 DEF Moves, NumbersFresh
<1>4. CASE UNCHANGED <<jobs, nextJobID>>
  BY <1>4 DEF NumbersFresh
<1> QED BY <1>1, <1>2, <1>3, <1>4, JobStep

\* Whatever the interleaving of launches, timers, cancellations and resets, a
\* client sees a job appear pending and move along the documented edges only:
\* awx-sim implements the safety part of AsyncLifecycle.
THEOREM ImplementsLifecycle == Spec => Lifecycle!Spec
<1>1. Init => Lifecycle!Init /\ NumbersFresh
  BY EmptyIsMap DEF Init, Lifecycle!Init, Seen, NumbersFresh
<1>2. TypeOK /\ NumbersFresh /\ [Next]_vars => [Lifecycle!Next]_Seen
  <2> SUFFICES ASSUME TypeOK, NumbersFresh, [Next]_vars
               PROVE  Lifecycle!Next \/ Seen' = Seen
      OBVIOUS
  <2>1. CASE Appears
    <3>1. nextJobID \in 1..MaxJobs /\ nextJobID \notin DOMAIN jobs
      BY <2>1, AwxAssumption DEF Appears, NumbersFresh, AwxAssumption
    <3>2. Seen[nextJobID] = "absent"
      BY <3>1 DEF Seen
    <3>3. /\ DOMAIN jobs' = DOMAIN jobs \cup {nextJobID}
          /\ jobs'[nextJobID] = "pending"
          /\ \A j \in DOMAIN jobs : jobs'[j] = jobs[j]
      BY <2>1, <3>1 DEF Appears, Put
    <3>4. Seen' = [Seen EXCEPT ![nextJobID] = "pending"]
      BY <3>1, <3>3 DEF Seen
    <3> QED BY <3>1, <3>2, <3>4 DEF Lifecycle!Next, Lifecycle!Start
  <2>2. CASE Vanish
    BY <2>2, EmptyIsMap DEF Vanish, Lifecycle!Next, Lifecycle!Clear, Seen
  <2>3. CASE Moves
    <3>1. PICK j \in DOMAIN jobs, s \in Statuses :
              <<jobs[j], s>> \in JobEdges /\ jobs' = [jobs EXCEPT ![j] = s]
      BY <2>3 DEF Moves
    <3>2. j \in 1..MaxJobs
      BY DEF NumbersFresh
    <3>3. Seen[j] = jobs[j]
      BY <3>2 DEF Seen
    <3>4. Seen' = [Seen EXCEPT ![j] = s]
      BY <3>1, <3>2 DEF Seen
    <3>5. Lifecycle!Advance(j)
      <4> DEFINE e == <<jobs[j], s>>
      <4>1. e \in JobEdges /\ e[1] = Seen[j] /\ e[2] = s
        BY <3>1, <3>3
      <4> QED BY <3>4, <4>1 DEF Lifecycle!Advance
    <3> QED BY <3>2, <3>5 DEF Lifecycle!Next
  <2>4. CASE UNCHANGED <<jobs, nextJobID>>
    BY <2>4 DEF Seen
  <2> QED BY <2>1, <2>2, <2>3, <2>4, JobStep
<1> QED BY <1>1, <1>2, NumbersStep, TypeCorrect, PTL DEF Spec, Lifecycle!Spec
=============================================================================
