------------------------------ MODULE JobLease ------------------------------
(***************************************************************************)
(* Ownership of generation jobs in PostgreSQL mode: admission of a job,    *)
(* its claim under a lease, the heartbeat thread, the conditional terminal *)
(* transition, recovery of abandoned jobs and graceful shutdown, for any   *)
(* number of backend processes on one database.                            *)
(*                                                                         *)
(* Source: src/backend/app/services/generation_job_service.py and          *)
(* src/backend/app/repositories/postgres_job_repository.py; the statement  *)
(* of each repository method is atomic (one transaction), every step       *)
(* between two of them is a separate action.                               *)
(*                                                                         *)
(* Time is kept relative: a row's `left` is the number of clock ticks      *)
(* until recover_expired_jobs would close it (lease_expires_at - now + 1   *)
(* for a running job, created_at + stale_after - now + 1 for a queued one) *)
(* and 0 once it would.  The comparisons in the code are strict, so a      *)
(* fresh lease of L seconds has L + 1 ticks left.                          *)
(***************************************************************************)
EXTENDS Integers, FiniteSets

CONSTANTS
    Job, Trip, Instance,    \* job ids, trips, backend processes (lease owners)
    Nobody, NoTrip,         \* the null lease owner; the trip of a row that does not exist
    LeaseSeconds,           \* generation_job_lease_seconds, in ticks
    HeartbeatInterval,      \* heartbeat_interval_seconds(lease), in ticks
    MaxHeartbeatGap,        \* longest pause between heartbeats of a live process;
                            \* above LeaseSeconds: pauses are not bounded
    StaleAfter,             \* generation_job_stale_after_seconds, in ticks
    MaxConcurrent,          \* generation_max_concurrent_jobs, 0 = not enforced
    Redelivery              \* whether run_*_job may be called again for a job

ASSUME JobLeaseAssumption ==
    /\ Nobody \notin Instance
    /\ NoTrip \notin Trip
    /\ LeaseSeconds \in Nat \ {0}
    /\ HeartbeatInterval \in Nat \ {0}
    /\ HeartbeatInterval < LeaseSeconds
    /\ MaxHeartbeatGap \in Nat /\ HeartbeatInterval <= MaxHeartbeatGap
    /\ StaleAfter \in Nat /\ LeaseSeconds <= StaleAfter
    /\ MaxConcurrent \in Nat
    /\ Redelivery \in BOOLEAN

VARIABLES
    row,        \* the generation_jobs table
    inst,       \* life of each backend process
    req,        \* per process and trip: the request holding the in-process trip lock
    task,       \* per process and job: the background task running run_*_job
    beating,    \* per process: jobs whose heartbeat thread is alive
    closing     \* per process: jobs graceful shutdown has still to close

vars == <<row, inst, req, task, beating, closing>>

-----------------------------------------------------------------------------
Active == {"queued", "running"}
Terminal == {"succeeded", "failed", "interrupted"}
Verdict == {"succeeded", "failed"}

Row == [status : {"absent"} \cup Active \cup Terminal,
        trip : Trip \cup {NoTrip},
        holder : Instance \cup {Nobody},
        left : Nat]

NoRow == [status |-> "absent", trip |-> NoTrip, holder |-> Nobody, left |-> 0]

TypeOK ==
    /\ row \in [Job -> Row]
    /\ inst \in [Instance -> {"new", "up", "stopping", "down"}]
    /\ req \in [Instance -> [Trip -> {"idle", "checked", "reconciled"}]]
    /\ task \in [Instance -> [Job -> {"none", "scheduled", "running"} \cup Verdict]]
    /\ beating \in [Instance -> SUBSET Job]
    /\ closing \in [Instance -> SUBSET Job]

Alive(i) == inst[i] \in {"up", "stopping"}

JobsOf(t) == {j \in Job : row[j].trip = t}
ActiveJobs == {j \in Job : row[j].status \in Active}

BadLocalJobsBeforeClaim(i) == {j \in Job : task[i][j] # "none"}

\* _LOCAL_JOBS: the jobs this process has claimed and not finished.
LocalJobs(i) == {j \in Job : task[i][j] \in {"running"} \cup Verdict}

Init ==
    /\ row = [j \in Job |-> NoRow]
    /\ inst = [i \in Instance |-> "new"]
    /\ req = [i \in Instance |-> [t \in Trip |-> "idle"]]
    /\ task = [i \in Instance |-> [j \in Job |-> "none"]]
    /\ beating = [i \in Instance |-> {}]
    /\ closing = [i \in Instance |-> {}]

-----------------------------------------------------------------------------
(* Repository statements                                                   *)

\* Faulty variants (named Bad...) exist only to show that a property can fail; the
\* specification never uses them.
BadRecoverableAnyActive(r) == r.status \in Active
BadRecoverableRunningOnly(r) == r.status = "running" /\ r.left = 0
BadRecoverableOneTickEarly(r) == r.status \in Active /\ r.left <= 1

\* WHERE of recover_expired_jobs: lease expired, or queued and never claimed in time.
Recoverable(r) == r.status \in Active /\ r.left = 0

\* A terminal row keeps no lease (_clear_lease).
Closed(r, outcome) == [r EXCEPT !.status = outcome, !.holder = Nobody, !.left = 0]

BadRecoveredCodeAsStatus(S) ==
    [j \in Job |-> IF j \in S /\ Recoverable(row[j])
                   THEN Closed(row[j], "JOB_INTERRUPTED") ELSE row[j]]

\* recover_expired_jobs over a scope: one UPDATE.
Recovered(S) ==
    [j \in Job |-> IF j \in S /\ Recoverable(row[j])
                   THEN Closed(row[j], "interrupted") ELSE row[j]]

\* WHERE of claim: queued, or running under an expired lease.
Claimable(r) == r.status = "queued" \/ (r.status = "running" /\ r.left = 0)

\* SET of claim, SET of heartbeat: the lease runs LeaseSeconds from now.
Leased(r, i) == [r EXCEPT !.status = "running", !.holder = i, !.left = LeaseSeconds + 1]
Renewed(r) == [r EXCEPT !.left = LeaseSeconds + 1]

\* WHERE of heartbeat: running and owned by the caller, expired or not.
Beatable(r, i) == r.status = "running" /\ r.holder = i

BadTransitionableAnyOwner(r, i) == r.status \in Active
BadTransitionableReplay(r, i) == r.status = "running" => r.holder \in {Nobody, i}

\* The checks of transition(..., lease_owner = i).
Transitionable(r, i) ==
    /\ r.status \in Active
    /\ r.status = "running" => r.holder \in {Nobody, i}

BadTripBusyRunningOnly(t) == \E j \in JobsOf(t) : row[j].status = "running"
BadOverCapacityOffByOne == MaxConcurrent > 0 /\ Cardinality(ActiveJobs) > MaxConcurrent

\* The unique index and AdmissionPolicy.refusal (its concurrent limit) inside admit.
TripBusy(t) == \E j \in JobsOf(t) : row[j].status \in Active
OverCapacity == MaxConcurrent > 0 /\ Cardinality(ActiveJobs) >= MaxConcurrent

-----------------------------------------------------------------------------
(* Requests: start_generate_job and its two siblings                       *)

\* check_no_duplicate_running_job, under the per-trip lock of this process.
CheckDuplicate(i, t) ==
    /\ inst[i] = "up"
    /\ req[i][t] = "idle"
    /\ row' = Recovered(JobsOf(t))
    /\ req' = IF \E j \in JobsOf(t) : row'[j].status \in Active
              THEN req ELSE [req EXCEPT ![i][t] = "checked"]
    /\ UNCHANGED <<inst, task, beating, closing>>

\* _create_job_or_conflict closes abandoned jobs of every trip when slots are limited.
ReconcileAll(i, t) ==
    /\ MaxConcurrent > 0
    /\ req[i][t] = "checked"
    /\ row' = Recovered(Job)
    /\ req' = [req EXCEPT ![i][t] = "reconciled"]
    /\ UNCHANGED <<inst, task, beating, closing>>

ReadyToAdmit(i, t) == req[i][t] = IF MaxConcurrent > 0 THEN "reconciled" ELSE "checked"

\* admit: one transaction under the advisory lock; then the task is scheduled.
Admit(i, t, j) ==
    /\ ReadyToAdmit(i, t)
    /\ row[j].status = "absent"
    /\ ~TripBusy(t)
    /\ ~OverCapacity
    /\ row' = [row EXCEPT ![j] = [status |-> "queued", trip |-> t,
                                  holder |-> Nobody, left |-> StaleAfter + 1]]
    /\ task' = [task EXCEPT ![i][j] = "scheduled"]
    /\ req' = [req EXCEPT ![i][t] = "idle"]
    /\ UNCHANGED <<inst, beating, closing>>

\* JobAlreadyActiveError or AdmissionRefusedError: no row, no task.
RefuseAdmission(i, t) ==
    /\ ReadyToAdmit(i, t)
    /\ TripBusy(t) \/ OverCapacity
    /\ req' = [req EXCEPT ![i][t] = "idle"]
    /\ UNCHANGED <<row, inst, task, beating, closing>>

\* get_job, list_jobs and the deletion service reconcile before they read.
Reconcile(i, t) ==
    /\ inst[i] = "up"
    /\ row' = Recovered(JobsOf(t))
    /\ UNCHANGED <<inst, req, task, beating, closing>>

-----------------------------------------------------------------------------
(* The background task: run_*_job, _run_claimed, _LeaseHeartbeat           *)

\* run_*_job is public and takes any job id: the same job may be run again, elsewhere.
Redeliver(i, j) ==
    /\ Redelivery
    /\ inst[i] = "up"
    /\ task[i][j] = "none"
    /\ row[j].status \in Active
    /\ task' = [task EXCEPT ![i][j] = "scheduled"]
    /\ UNCHANGED <<row, inst, req, beating, closing>>

Claim(i, j) ==
    /\ Alive(i)
    /\ task[i][j] = "scheduled"
    /\ Claimable(row[j])
    /\ row' = [row EXCEPT ![j] = Leased(@, i)]
    /\ task' = [task EXCEPT ![i][j] = "running"]
    /\ beating' = [beating EXCEPT ![i] = @ \cup {j}]
    /\ UNCHANGED <<inst, req, closing>>

\* A terminal job, or one a live lease protects: the runner returns without running the body.
ClaimRefused(i, j) ==
    /\ Alive(i)
    /\ task[i][j] = "scheduled"
    /\ ~Claimable(row[j])
    /\ task' = [task EXCEPT ![i][j] = "none"]
    /\ UNCHANGED <<row, inst, req, beating, closing>>

\* One round of the heartbeat thread.
Heartbeat(i, j) ==
    /\ Alive(i)
    /\ j \in beating[i]
    /\ Beatable(row[j], i)
    /\ row[j].left + HeartbeatInterval <= LeaseSeconds + 1
    /\ row' = [row EXCEPT ![j] = Renewed(@)]
    /\ UNCHANGED <<inst, req, task, beating, closing>>

\* The database disowns the caller: the thread exits; the body runs on, `lost` is not read.
HeartbeatLost(i, j) ==
    /\ Alive(i)
    /\ j \in beating[i]
    /\ ~Beatable(row[j], i)
    /\ beating' = [beating EXCEPT ![i] = @ \ {j}]
    /\ UNCHANGED <<row, inst, req, task, closing>>

\* The body (planning, regeneration) returns or raises; the job row is not written yet.
EndBody(i, j, verdict) ==
    /\ Alive(i)
    /\ task[i][j] = "running"
    /\ task' = [task EXCEPT ![i][j] = verdict]
    /\ UNCHANGED <<row, inst, req, beating, closing>>

\* _finalize_job writes the private copy through transition; then the runner unwinds.
Finalize(i, j) ==
    /\ Alive(i)
    /\ task[i][j] \in Verdict
    /\ Transitionable(row[j], i)
    /\ row' = [row EXCEPT ![j] = Closed(@, task[i][j])]
    /\ task' = [task EXCEPT ![i][j] = "none"]
    /\ beating' = [beating EXCEPT ![i] = @ \ {j}]
    /\ UNCHANGED <<inst, req, closing>>

\* A database error while a regeneration's success is written: the guard around the whole body
\* makes the job a failed one, to be written next (a second error escapes).
FinalizeRaised(i, j) ==
    /\ Alive(i)
    /\ task[i][j] = "succeeded"
    /\ task' = [task EXCEPT ![i][j] = "failed"]
    /\ UNCHANGED <<row, inst, req, beating, closing>>

\* The task ends and writes nothing: transition refused it (terminal, or taken over), or a
\* database error escaped from claim or from transition.
EndTaskUnwritten(i, j) ==
    /\ Alive(i)
    /\ task[i][j] \in {"scheduled"} \cup Verdict
    /\ task' = [task EXCEPT ![i][j] = "none"]
    /\ beating' = [beating EXCEPT ![i] = @ \ {j}]
    /\ UNCHANGED <<row, inst, req, closing>>

-----------------------------------------------------------------------------
(* Processes and time                                                      *)

\* lifespan start: recover_interrupted_jobs runs before the first request.
Boot(i) ==
    /\ inst[i] = "new"
    /\ inst' = [inst EXCEPT ![i] = "up"]
    /\ row' = Recovered(Job)
    /\ UNCHANGED <<req, task, beating, closing>>

\* lifespan end: stop_all_heartbeats, then interrupt_local_jobs copies _LOCAL_JOBS.
BeginShutdown(i) ==
    /\ inst[i] = "up"
    /\ \A t \in Trip : req[i][t] = "idle"
    /\ inst' = [inst EXCEPT ![i] = "stopping"]
    /\ beating' = [beating EXCEPT ![i] = {}]
    /\ closing' = [closing EXCEPT ![i] = LocalJobs(i)]
    /\ UNCHANGED <<row, req, task>>

\* One turn of interrupt_local_jobs.
InterruptLocal(i, j) ==
    /\ inst[i] = "stopping"
    /\ j \in closing[i]
    /\ Transitionable(row[j], i)
    /\ row' = [row EXCEPT ![j] = Closed(@, "interrupted")]
    /\ closing' = [closing EXCEPT ![i] = @ \ {j}]
    /\ UNCHANGED <<inst, req, task, beating>>

\* The transition is refused, or raises: the loop goes on to the next job.
SkipLocal(i, j) ==
    /\ inst[i] = "stopping"
    /\ j \in closing[i]
    /\ closing' = [closing EXCEPT ![i] = @ \ {j}]
    /\ UNCHANGED <<row, inst, req, task, beating>>

Vanish(i) ==
    /\ inst' = [inst EXCEPT ![i] = "down"]
    /\ req' = [req EXCEPT ![i] = [t \in Trip |-> "idle"]]
    /\ task' = [task EXCEPT ![i] = [j \in Job |-> "none"]]
    /\ beating' = [beating EXCEPT ![i] = {}]
    /\ closing' = [closing EXCEPT ![i] = {}]
    /\ UNCHANGED row

\* The process exits after interrupt_local_jobs; worker threads die with it.
Exit(i) == inst[i] = "stopping" /\ closing[i] = {} /\ Vanish(i)

\* SIGKILL, OOM, power loss: at any point, leases stay behind in the table.
Crash(i) == Alive(i) /\ Vanish(i)

\* A live process whose pauses are bounded beats before MaxHeartbeatGap has passed.
BeatsOnTime ==
    MaxHeartbeatGap <= LeaseSeconds =>
        \A i \in Instance : \A j \in beating[i] :
            Beatable(row[j], i) => row[j].left + MaxHeartbeatGap > LeaseSeconds + 1

Aged(r) == IF r.left > 0 THEN [r EXCEPT !.left = @ - 1] ELSE r

Tick ==
    /\ BeatsOnTime
    /\ row' = [j \in Job |-> Aged(row[j])]
    /\ UNCHANGED <<inst, req, task, beating, closing>>

-----------------------------------------------------------------------------
RequestStep(i) ==
    \E t \in Trip :
        \/ CheckDuplicate(i, t)
        \/ ReconcileAll(i, t)
        \/ \E j \in Job : Admit(i, t, j)
        \/ RefuseAdmission(i, t)
        \/ Reconcile(i, t)

TaskStep(i) ==
    \E j \in Job :
        \/ Redeliver(i, j)
        \/ Claim(i, j)
        \/ ClaimRefused(i, j)
        \/ Heartbeat(i, j)
        \/ HeartbeatLost(i, j)
        \/ \E v \in Verdict : EndBody(i, j, v)
        \/ Finalize(i, j)
        \/ FinalizeRaised(i, j)
        \/ EndTaskUnwritten(i, j)

ProcessStep(i) ==
    \/ Boot(i)
    \/ BeginShutdown(i)
    \/ \E j \in Job : InterruptLocal(i, j) \/ SkipLocal(i, j)
    \/ Exit(i)
    \/ Crash(i)

Next ==
    \/ \E i \in Instance : RequestStep(i) \/ TaskStep(i) \/ ProcessStep(i)
    \/ Tick

Spec == Init /\ [][Next]_vars

-----------------------------------------------------------------------------
(* The machinery the code runs by itself is fair; users, crashes, shutdown *)
(* and redelivery are not.  Reconcile is fair because the frontend polls   *)
(* an unfinished job (get_job reconciles) through some process that is up. *)
Fairness ==
    /\ WF_vars(Tick)
    /\ WF_vars(\E i \in Instance : Boot(i))
    /\ \A i \in Instance : WF_vars(Exit(i))
    /\ \A t \in Trip : WF_vars(\E i \in Instance : Reconcile(i, t))
    /\ \A i \in Instance, j \in Job :
        /\ WF_vars(\E v \in Verdict : EndBody(i, j, v))
        /\ WF_vars(Finalize(i, j) \/ EndTaskUnwritten(i, j))
        /\ WF_vars(InterruptLocal(i, j) \/ SkipLocal(i, j))

FairSpec == Spec /\ Fairness

-----------------------------------------------------------------------------
(* Properties                                                              *)

\* A trip never has two queued or running jobs, whichever processes raced to admit them:
\* no path (takeover, recovery, late transition) brings a row back to life next to another.
OneActivePerTrip ==
    \A j, k \in Job :
        row[j].status \in Active /\ row[k].status \in Active /\ row[j].trip = row[k].trip
        => j = k

\* The momentary capacity is never exceeded, although admissions of several processes
\* interleave with claims, takeovers and recovery (admit, AdmissionPolicy.refusal).
ActiveWithinLimit == MaxConcurrent > 0 => Cardinality(ActiveJobs) <= MaxConcurrent

\* A row names a lease owner exactly while it is running, so a settled job never looks
\* claimable and a running one can always be attributed (_clear_lease, claim).
LeaseOnlyWhileRunning ==
    \A j \in Job :
        /\ row[j].status = "running" <=> row[j].holder # Nobody
        /\ row[j].status \notin Active => row[j].left = 0

\* Whoever works on a job has claimed it, a heartbeat thread never outlives its task or its
\* process, and what shutdown has still to close is claimed work whose heartbeat has
\* stopped (_run_claimed, _LeaseHeartbeat, stop_all_heartbeats, interrupt_local_jobs).
WorkIsClaimed ==
    \A i \in Instance, j \in Job :
        /\ task[i][j] \in {"running"} \cup Verdict => row[j].status \notin {"absent", "queued"}
        /\ j \in beating[i] => Alive(i) /\ task[i][j] \in {"running"} \cup Verdict
        /\ j \in closing[i] => /\ inst[i] = "stopping"
                                /\ row[j].status \notin {"absent", "queued"}
                                /\ task[i][j] # "scheduled"
                                /\ j \notin beating[i]

\* A settled job never changes again: a replayed completion, a stale owner, a second
\* recovery or shutdown finds it terminal and writes nothing (transition, claim, heartbeat).
TerminalIsFinal == [][\A j \in Job : row[j].status \in Terminal => row'[j] = row[j]]_vars

\* While a lease is valid, only its owner ends or hands over the job: through its own
\* final transition or its own graceful shutdown, never through recovery or a takeover.
ValidLeaseRespected ==
    [][\A j \in Job :
         /\ row[j].status = "running" /\ row[j].left > 0
         /\ row'[j].status # "running" \/ row'[j].holder # row[j].holder
         => LET i == row[j].holder
            IN  \/ task[i][j] \in Verdict /\ task'[i][j] = "none"
                \/ j \in closing[i] \ closing'[i]]_vars

\* A job is reported succeeded (or failed by its body) only by the live process that owns
\* it at that moment, with the verdict its own task holds: a worker whose lease was taken
\* over cannot publish its result over the new owner's (_finalize_job, transition).
VerdictIsTheOwners ==
    [][\A j \in Job :
         row'[j].status \in Verdict /\ row'[j].status # row[j].status
         => LET i == row[j].holder
            IN  /\ row[j].status = "running"
                /\ Alive(i) /\ task[i][j] = row'[j].status]_vars

\* As long as pauses stay within the lease, a job whose worker still beats is never closed
\* as interrupted nor taken over, however long its body runs (_LeaseHeartbeat, recovery).
BeatingJobIsSafe ==
    [][\A j \in Job :
         row[j].status = "running" /\ j \in beating[row[j].holder]
         => row'[j].status # "interrupted" /\ row'[j].holder \in {row[j].holder, Nobody}]_vars

\* Every queued or running job settles, whatever crashed, unless no process is left to
\* look at it: an abandoned job never blocks its trip for ever (recover_expired_jobs).
EveryJobSettles ==
    \A j \in Job :
        row[j].status \in Active
        ~> (row[j].status \in Terminal \/ \A i \in Instance : inst[i] = "down")

\* The lease protocol implements the lifecycle its callers are promised.
Lifecycle == INSTANCE JobLifecycle
    WITH status <- [j \in Job |-> row[j].status], tripOf <- [j \in Job |-> row[j].trip]
LifecycleSpec == Lifecycle!Spec

=============================================================================
