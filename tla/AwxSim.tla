------------------------------- MODULE AwxSim -------------------------------
(***************************************************************************)
(* The job engine of awx-sim (awx-sim/internal/state/store.go): templates, *)
(* jobs, the timers that complete jobs and the callback that reports a     *)
(* completion.                                                             *)
(*                                                                         *)
(* LaunchJob takes Store.mu three times and creates the timer in between,  *)
(* so a launch is several steps, and so is the completion, which posts the *)
(* callback after it has released the lock.  One slot of launches stands   *)
(* for one LaunchJob call together with the timer it creates.              *)
(***************************************************************************)
EXTENDS Integers, Maps

CONSTANTS
    Launches,      \* slots for launches and their timers
    Rates,         \* failure_rate of the templates, in percent
    MaxTemplates,  \* bound: templates created between two resets
    MaxJobs        \* bound: jobs launched between two resets

ASSUME AwxAssumption ==
    /\ Rates \subseteq Int
    /\ MaxTemplates \in Nat /\ MaxJobs \in Nat

VARIABLES
    templates,       \* Store.templates: id -> failure rate
    jobs,            \* Store.jobs: id -> status
    nextTemplateID,  \* Store.nextTemplateID
    nextJobID,       \* Store.nextJobID
    callback,        \* Store.callback is enabled and has a URL
    launches         \* LaunchJob calls and timers

vars == <<templates, jobs, nextTemplateID, nextJobID, callback, launches>>

-----------------------------------------------------------------------------
Statuses == {"pending", "running", "successful", "failed", "canceled"}

(***************************************************************************)
(* What a launch remembers of its job, and how far the call and the timer  *)
(* are.  current: its Job pointer is the one in Store.jobs.  listed: the   *)
(* timer is in Store.timers.  A timer that has fired has its own goroutine,*)
(* which Stop does not reach.  An "unsent" callback was given up because   *)
(* the context of the launch request was cancelled.                        *)
(***************************************************************************)
Launch == [id : Nat, rate : Int, current : BOOLEAN, listed : BOOLEAN,
           call : {"start", "schedule", "append", "reply", "returned"},
           timer : {"none", "armed", "fired", "posting", "stopped", "done",
                    "unsent"}]

Over(g) == /\ launches[g].call = "returned"
           /\ launches[g].timer \in {"stopped", "done", "unsent"}

Free(g) == g \in DOMAIN launches => Over(g)

Init ==
    /\ templates = EmptyMap
    /\ jobs = EmptyMap
    /\ nextTemplateID = 1
    /\ nextJobID = 1
    /\ callback = FALSE
    /\ launches = EmptyMap

-----------------------------------------------------------------------------
CreateTemplate(rate) ==
    /\ nextTemplateID <= MaxTemplates
    /\ templates' = Put(templates, nextTemplateID, rate)
    /\ nextTemplateID' = nextTemplateID + 1
    /\ UNCHANGED <<jobs, nextJobID, callback, launches>>

SetCallback(enabled) ==
    /\ callback' = enabled
    /\ UNCHANGED <<templates, jobs, nextTemplateID, nextJobID, launches>>

-----------------------------------------------------------------------------
(* LaunchJob, one action per critical section, and the reply after it.     *)

LaunchJob(g, t) ==
    /\ Free(g)
    /\ t \in DOMAIN templates
    /\ nextJobID <= MaxJobs
    /\ jobs' = Put(jobs, nextJobID, "pending")
    /\ nextJobID' = nextJobID + 1
    /\ launches' = Put(launches, g,
                       [id |-> nextJobID, rate |-> templates[t],
                        current |-> TRUE, listed |-> FALSE,
                        call |-> "start", timer |-> "none"])
    /\ UNCHANGED <<templates, nextTemplateID, callback>>

\* Mutant: does not look whether the job was cancelled meanwhile.
StartJobAnyway(g) ==
    /\ launches[g].call = "start"
    /\ jobs' = IF launches[g].current
               THEN [jobs EXCEPT ![launches[g].id] = "running"]
               ELSE jobs
    /\ launches' = [launches EXCEPT ![g].call = "schedule"]
    /\ UNCHANGED <<templates, nextTemplateID, nextJobID, callback>>

\* Works on the Job it has created, which a reset takes out of the map.
StartJob(g) ==
    /\ launches[g].call = "start"
    /\ jobs' = IF launches[g].current /\ jobs[launches[g].id] = "pending"
               THEN [jobs EXCEPT ![launches[g].id] = "running"]
               ELSE jobs
    /\ launches' = [launches EXCEPT ![g].call = "schedule"]
    /\ UNCHANGED <<templates, nextTemplateID, nextJobID, callback>>

\* time.AfterFunc, outside the lock.
ScheduleCompletion(g) ==
    /\ launches[g].call = "schedule"
    /\ launches' = [launches EXCEPT ![g].call = "append",
                                    ![g].timer = "armed"]
    /\ UNCHANGED <<templates, jobs, nextTemplateID, nextJobID, callback>>

AppendTimer(g) ==
    /\ launches[g].call = "append"
    /\ launches' = [launches EXCEPT ![g].call = "reply", ![g].listed = TRUE]
    /\ UNCHANGED <<templates, jobs, nextTemplateID, nextJobID, callback>>

\* The handler returns, and net/http cancels the context of the request.
Reply(g) ==
    /\ launches[g].call = "reply"
    /\ launches' = [launches EXCEPT ![g].call = "returned"]
    /\ UNCHANGED <<templates, jobs, nextTemplateID, nextJobID, callback>>

-----------------------------------------------------------------------------
(* The timer: it fires, completes the job and posts the callback.          *)

Fire(g) ==
    /\ launches[g].timer = "armed"
    /\ launches' = [launches EXCEPT ![g].timer = "fired"]
    /\ UNCHANGED <<templates, jobs, nextTemplateID, nextJobID, callback>>

Completable(g) == /\ launches[g].id \in DOMAIN jobs
                  /\ jobs[launches[g].id] = "running"

\* rand.Float64() < failureRate, for a number drawn from [0, 1).
Outcomes(rate) ==
    {status \in {"successful", "failed"} :
        IF status = "failed" THEN rate > 0 ELSE rate < 100}

\* Finds the job by its number.
CompleteJob(g, status) ==
    /\ launches[g].timer = "fired"
    /\ Completable(g)
    /\ status \in Outcomes(launches[g].rate)
    /\ jobs' = [jobs EXCEPT ![launches[g].id] = status]
    /\ launches' = [launches EXCEPT
                        ![g].timer = IF callback THEN "posting" ELSE "done"]
    /\ UNCHANGED <<templates, nextTemplateID, nextJobID, callback>>

CompleteNothing(g) ==
    /\ launches[g].timer = "fired"
    /\ ~Completable(g)
    /\ launches' = [launches EXCEPT ![g].timer = "done"]
    /\ UNCHANGED <<templates, jobs, nextTemplateID, nextJobID, callback>>

\* The POST carries the context of the launch request.
SendCallback(g) ==
    /\ launches[g].timer = "posting"
    /\ launches' = [launches EXCEPT
                        ![g].timer = IF launches[g].call = "returned"
                                     THEN "unsent" ELSE "done"]
    /\ UNCHANGED <<templates, jobs, nextTemplateID, nextJobID, callback>>

-----------------------------------------------------------------------------
\* Mutant: writes a status no other code knows.
CancelJobMisspelt(j) ==
    /\ j \in DOMAIN jobs
    /\ jobs[j] \in {"pending", "running"}
    /\ jobs' = [jobs EXCEPT ![j] = "cancelled"]
    /\ UNCHANGED <<templates, nextTemplateID, nextJobID, callback, launches>>

CancelJob(j) ==
    /\ j \in DOMAIN jobs
    /\ jobs[j] \in {"pending", "running"}
    /\ jobs' = [jobs EXCEPT ![j] = "canceled"]
    /\ UNCHANGED <<templates, nextTemplateID, nextJobID, callback, launches>>

\* What a reset does to a launch: timer.Stop on the listed timers, and the
\* job is no longer in the map.
Stopped(l) ==
    [l EXCEPT !.current = FALSE, !.listed = FALSE,
              !.timer = IF l.listed /\ @ = "armed" THEN "stopped" ELSE @]

\* Mutant: stops the timers but keeps the jobs.
ResetKeepsJobs ==
    /\ templates' = EmptyMap
    /\ nextTemplateID' = 1
    /\ callback' = FALSE
    /\ launches' = [g \in DOMAIN launches |-> Stopped(launches[g])]
    /\ UNCHANGED <<jobs, nextJobID>>

Reset ==
    /\ templates' = EmptyMap
    /\ jobs' = EmptyMap
    /\ nextTemplateID' = 1
    /\ nextJobID' = 1
    /\ callback' = FALSE
    /\ launches' = [g \in DOMAIN launches |-> Stopped(launches[g])]

-----------------------------------------------------------------------------
LaunchStep(g) ==
    /\ g \in DOMAIN launches
    /\ StartJob(g) \/ ScheduleCompletion(g) \/ AppendTimer(g) \/ Reply(g)

TimerStep(g) ==
    /\ g \in DOMAIN launches
    /\ \/ Fire(g)
       \/ \E status \in Statuses : CompleteJob(g, status)
       \/ CompleteNothing(g)
       \/ SendCallback(g)

Request ==
    \/ \E rate \in Rates : CreateTemplate(rate)
    \/ \E g \in Launches, t \in DOMAIN templates : LaunchJob(g, t)
    \/ \E j \in DOMAIN jobs : CancelJob(j)
    \/ \E enabled \in BOOLEAN : SetCallback(enabled)
    \/ Reset

Next == Request \/ \E g \in Launches : LaunchStep(g) \/ TimerStep(g)

Spec == Init /\ [][Next]_vars

\* A goroutine that can run does, and a timer that is not stopped fires.
Fairness ==
    \A g \in Launches : WF_vars(LaunchStep(g)) /\ WF_vars(TimerStep(g))

-----------------------------------------------------------------------------
(* Properties.                                                             *)

\* The store holds the declared statuses and the launches are well formed.
TypeOK ==
    /\ IsMap(templates, Nat, Rates)
    /\ IsMap(jobs, Nat, Statuses)
    /\ nextTemplateID \in Nat /\ nextJobID \in Nat
    /\ callback \in BOOLEAN
    /\ IsMap(launches, Launches, Launch)

\* A job that is not over has a launch of its own that will complete it: a
\* reset never leaves a job behind without its timer, and no timer that was
\* stopped, or has found nothing to complete, was the last hope of a job.
OwnTimer(j) ==
    \E g \in DOMAIN launches :
        /\ launches[g].id = j /\ launches[g].current
        /\ \/ launches[g].call = "start"
           \/ jobs[j] = "running" /\ launches[g].call = "schedule"
           \/ jobs[j] = "running" /\ launches[g].timer \in {"armed", "fired"}

JobsHaveTimers ==
    \A j \in DOMAIN jobs : jobs[j] \in {"pending", "running"} => OwnTimer(j)

\* A client sees a job appear as pending, move along the documented
\* transitions only, and end unless the simulator is reset: awx-sim
\* implements AsyncLifecycle, with resets and cancellations at any time.
JobEdges ==
    {<<"pending", "running">>, <<"pending", "canceled">>,
     <<"running", "successful">>, <<"running", "failed">>,
     <<"running", "canceled">>}

\* What a client sees under each job number.
Seen == [j \in 1..MaxJobs |-> IF j \in DOMAIN jobs THEN jobs[j] ELSE "absent"]

Lifecycle == INSTANCE AsyncLifecycle WITH
    Ids <- 1..MaxJobs, Absent <- "absent", Initial <- "pending",
    Edges <- JobEdges, st <- Seen

JobsFollowLifecycle == Lifecycle!LiveSpec

\* When a job completes, the callback is posted to the configured URL.
CallbacksPosted ==
    \A g \in DOMAIN launches : launches[g].timer # "unsent"
=============================================================================
