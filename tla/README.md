# TravelObligator: verification project

TLA+ modules, TLC configurations and machine-checked proofs about the backend in
`src/backend/app`.  Everything is translated from the code of the PostgreSQL
mode, the mode the service runs in by default.  Line numbers are those of the
files named in `PROJECT.json` ("map").

## 1. The system

A traveller describes a trip; the backend plans it in a background job, stores
the plan as a document with versions and revisions, and changes it on feedback.
Several backend processes may serve one database.

| component | state | operations | interacts through |
|---|---|---|---|
| generation jobs (`services/generation_job_service.py`, `repositories/postgres_job_repository.py`) | `generation_jobs` rows (status, lease owner, lease expiry), `_LOCAL_JOBS` and heartbeat threads per process | admit, claim, heartbeat, transition, recover, shut down | the table; an advisory lock with deletion; the plan it produces |
| admission and deletion (`repositories/admission.py`, `services/data_deletion_service.py`, `repositories/postgres_trip_repository.py`) | `users`, `trips`, `generation_jobs`, `deleted_job_usage` | create a trip, admit a job, delete a trip, delete an account | one admission advisory lock, one advisory lock per owner, foreign keys |
| plan state and lineage (`repositories/postgres_planning_state_repository.py`, `services/revision_lineage_service.py`, `services/itinerary_fork_service.py`) | `planning_states` (document, `lock_version`), branches, revisions | save (compare-and-set), commit with revision, fork, activate a branch | read-modify-write by jobs and by requests |
| generation and regeneration (`services/planning_orchestrator.py`, `services/targeted_regeneration_application_service.py`, `graphs/`) | a private copy of the plan | load, plan, commit, record a blocked attempt | the plan document, the job body |
| feedback and locks (`services/feedback_service.py`, `services/user_lock_service.py`, `api/routes/trips.py`) | lists inside the plan document | append, accept, delete | the plan document |
| planning pipeline (`graphs/planning_graph.py`, `graphs/planning_graph_nodes.py`, `services/planning_orchestrator.py`) | the plan document in memory, the nodes that failed, the repair and fallback counters | one node or stage each; the repair loop; the underfill fallback | the document; the stored copy at the saves |
| model-stage health (`providers/llm_provider_health.py`, `providers/llm_provider_router.py`, `providers/ai_stage_budget.py`) | circuit state, probe flag and quota per provider; attempts and recoveries per stage | choose a provider, send, record success or failure, recover, take or release the probe | stages on concurrent worker threads |
| provider budget and request slots (`core/provider_usage.py`, `core/bounded_concurrency.py`, `providers/geoapify_client.py`, `providers/errors.py`) | reserved and spent credits, route allowance, two levels of request slots, a breaker | plan a batch, reserve, enter, send, answer, settle or release | worker threads of a generation, generations of a process |
| sign-up and sign-in limits, sessions (`auth/`) | attempt rows, session rows | count, record, revoke | requests |

Hard behaviours: two processes racing for one trip; a lease that runs out while
its worker still works; crashes and restarts between two statements; a shutdown
next to live worker threads; time stamps taken before a lock wait; deletion of
what another request is using; read-modify-write of one document by jobs and
requests; loops and failing nodes in the planning graph; a single half-open probe
shared by threads; worker threads that draw on one budget and hold one slot while
they wait for another.  Each is listed, at its line, under "hazards" in
`PROJECT.json`.

What makes each component correct:

- jobs: one active job per trip, within capacity; a job settles once, with the
  verdict of the worker that owns it, and never stays unfinished for ever;
- admission and deletion: limits hold over the jobs that really happened,
  deletion gives nothing back, and nothing survives its parent;
- plan and lineage: the live plan is the head revision of the active branch
  except for edits in progress, history is append-only, no update is lost;
- planning pipeline: its loops are bounded, and what is committed was computed
  from the plan it is committed with, or is reported failed;
- model stages: requests and recoveries stay within the stage's allowance, a probe
  slot always comes back, every stage ends;
- provider budget: credits reserved and spent never exceed the cap, every
  reservation and slot comes back on every path, no request is made twice for an
  answer already known; sign-in: attempts stay within the window limit.

## 2. Modules

### JobLifecycle: the abstract specification

What a job promises to whoever polls it: it is queued, possibly runs, settles
once, may be erased after that, and no second job of its trip exists while it is
queued or running.  `interrupted` is the code's `failed` with error code
`JOB_INTERRUPTED`.  `cancelled` has a constructor and no caller, so no action
produces it.  Both detailed modules below are shown to implement it.

### JobLease: ownership of jobs

`row` is the table; `left` is the time, in ticks, until
`recover_expired_jobs` would close the row (the comparison in the code is
strict, so a lease of L seconds has L + 1 ticks).  `inst` is the life of each
process; `req` the request that holds the in-process lock of a trip, between
its duplicate check and its admission; `task` the background task; `beating`
the live heartbeat threads; `closing` what shutdown has still to close.

Each repository method is one transaction and one action.  Everything the
service does between two of them is a separate step, so other processes can come
in between:

| code | actions |
|---|---|
| `check_no_duplicate_running_job`, `_create_job_or_conflict`, `admit` | `CheckDuplicate`, `ReconcileAll`, `Admit`, `RefuseAdmission` |
| `get_job`, `list_jobs`, `recover_expired_jobs` | `Reconcile` |
| `run_*_job`, `_run_claimed`, `claim` | `Redeliver`, `Claim`, `ClaimRefused`, `EndBody` |
| `_LeaseHeartbeat`, `heartbeat` | `Heartbeat`, `HeartbeatLost` |
| `_finalize_job`, `transition` | `Finalize`, `FinalizeRaised`, `EndTaskUnwritten` |
| `lifespan`, `recover_interrupted_jobs`, `interrupt_local_jobs` | `Boot`, `BeginShutdown`, `InterruptLocal`, `SkipLocal`, `Exit` |
| SIGKILL | `Crash` |

`BeatsOnTime` bounds the pauses of live processes by `MaxHeartbeatGap`.  When
that constant exceeds the lease the bound is off and any worker may be late by
any amount.

`FinalizeRaised` is the guard around the body of a regeneration: a database error
while its success is written turns it into a failure, which is written next.  The
runner of a generation writes its success outside that guard, so there the error
escapes (`EndTaskUnwritten`); the model allows both for both.

Simplifications.  There is one clock.  Leases are written and compared on the
database's (`func.now()`), as in the model; a queued row is compared with the clock
of the process that recovers it (`generation_job_service.py:579`, `814-816`), so it
may be closed earlier or later than a tick of the model says, by the difference of
the two clocks.  No safety property depends on when an unclaimed row is closed.  A process runs at most one call of `run_*_job` per job at a
time.  Claim and registration in `_LOCAL_JOBS` are one step: a shutdown that
copies the list in between behaves as if the claim came after the copy.
Stopping a heartbeat thread (a join with a bounded wait) completes.  A claim
that commits but whose reply is lost is covered by a crash right after the claim.

### Admission: limits and deletion

`trip` and `account` are the rows; `job` holds for every job id its row and,
after deletion, what it was, so that limits can be stated over what really
happened (no guard reads the record of a deleted job); `usage` is
`deleted_job_usage`; `deletion` is the account deletion in progress.  A request stamps its
job (`StampJob`) before it waits for the advisory lock (`Admit`), and up to
`MaxDelay` ticks may pass.  A trip creation counts the owner's trips (`CountTrips`)
and inserts its own (`InsertTrip`) in two steps, between which anyone may come: other
creations that count, deletions, the clock.  What keeps two creations of one account
apart is its lock, `OwnerLockFree`, and nothing else; creations of different accounts
overlap.  `DropCreation` is the refusal of the insert (the account is gone) or a
rollback.  With `MaxTrips = 0` the code takes no lock and any number overlap.
Account deletion is two steps because trip creation
does not take the admission lock: a trip can be committed after the deletion
selected its trips.  Ages are exact up to `AgeCap`, beyond which no comparison
distinguishes them.

Planning state, branches and revisions are deleted in the same transaction as
their trip and are not distinguished from it.

### SerialTrip: what the plan of a trip promises

The plan as whoever reads the database may understand it: `state`, `base`, `head`
and `revision` change as if every request and every run did all of its work in one
step, on the document as it is at that moment.  There are no copies, no tokens and
no job rows.  `Submit` takes an event nobody has taken yet; `Regenerate` applies
the oldest pending event while nothing is locked and the document agrees with its
branch; `Generate` writes its plan with a revision, or without one (a retry, or a
commit that failed); `Activate` leaves nothing unrecorded behind.  What `Generate`
permits without a revision is what the code does, not what it should do (section 6,
findings 2 and 3).

`PlanLineage` implements it with the same four variables (`SerialSpec`): loading,
working and re-checking are invisible, each save or commit is one of these
operations, and whatever a stale copy would write is refused.

### PlanLineage: the plan document, its revisions and branches

One trip.  `state` is the `planning_states` row, abstracted to what guards,
versions and the consistency projection tell apart: which runs shaped the
content (`plan`), whether it is usable, whether its status is short of a
validated plan (`unfinished`), the versions, pending and applied feedback, whether any lock is
active, a promotion report made by hand (`report`), and the active branch.  `base` and `head` are the branch rows,
`revision` the immutable revisions, `body` the runs with their private copies,
`edit` the requests that have loaded the document and not saved it yet.

`lock_version` is only ever compared with the value a writer read, so `fresh`,
the set of writers whose token is still the row's, carries exactly the same
information in a finite state.  A read whose result only feeds a save is part of that
save's action where nothing else is done with it (audit records): the
compare-and-set makes the pair atomic or a no-op.

| code | actions |
|---|---|
| `generate_trip_plan`, `regenerate_trip_plan` (guards and audit records) | `RequestGeneration`, `RequestRegeneration`, `RecordRefusal` |
| admission, claim and settlement of the job row (JobLease) | `Admit`, `TurnAway`, `CloseJob` |
| `_generate_full_plan`, `_generate_full_plan_via_langgraph` | `StartGeneration`, `SaveStage`, `EndPlanning`, `CommitGeneration`, `FailGeneration` |
| `_regenerate`, `_commit` | `LoadRegeneration`, `RefuseRegeneration`, `BlockRegeneration`, `EndExecution`, `Recheck`, `RefuseAtRecheck`, `CommitRegeneration` |
| `apply_feedback`, `create_trip_lock`, `delete_trip_lock`, `promote_ai_candidates` | `LoadEdit`, `ApplyFeedback`, `CreateLock`, `DeleteLock`, `Promote`, `DropEdit` |
| `create_fork`, `activate_branch` | `CreateFork`, `Activate` |
| a process dies, or a commit rolls back and nothing is saved | `Stop` |

`CloseJob` may happen while the body of the job still works: that is the body whose
lease ran out (JobLease), and also the mode without background jobs, where there is no
row.  So everything shown here holds for late bodies.  With `StageSaves` the
document is saved after each stage (`generate_full_plan`); without it only at the
start and the end (the default engine).  The save after the last stage, validation,
already holds the final status, before the version exists; `SaveStage` may therefore
clear `unfinished`, and the run ends only after it did.  Both engines change the loaded object in
place, which is why `FailGeneration` saves what is in memory.  The legacy
deterministic regeneration is not modelled: its list of supported operations is empty, so it
refuses every request.  Deletion of the trip is Admission's subject.

`POST /trips/{id}/ai-candidate-promotions` (`Promote`) replaces a report that is
revision content and saves it without a revision; its own comment
(`api/routes/trips.py:1390-1391`) and `docs/36_final_batch2_reliability.md:54-62` say so.
It answers 404 where `APP_ENV` is `production` (`_development_only`) and exists
everywhere else, `development` being the default.  `Stamp` is what tells two of its
reports apart: empty is a production deployment.  The report that a run computes by
itself is part of what `plan` stands for.  The other development endpoint of this
kind, `langgraph-shadow-run`, saves nothing.

### PlanningGraph: one generation, in both engines

The body of a generation job, which JobLease takes as one step and PlanLineage as
a few.  `doc` is the document in memory, `saved` the stored one.  Each part of the
document is abstracted to what it says of the plan: a report is of the plan as it
stands (`current`), of an earlier one (`stale`), an honest failure or absent.
`unplanned` says that a repair was merged into the reasoning result and no plan
was built from it yet.

| code | actions |
|---|---|
| `_generate_full_plan*` up to the first node | `Begin` |
| one `build_*_node`, or the legacy stage of the same services | `SilentNode` (nine of them), `DestinationContext`, `InventorySufficiency`, `AIItineraryReasoning`, `ExperiencePlanning`, `UnderfillFallback`, `RouteFeasibility`, `RouteAwareSequencing`, `TravelTimeBuffer`, `Validation`, `AIItineraryRepair` |
| `timed_node`, `_safe_error` (graph); an exception in a stage (legacy) | the `FailOnGraph` and `FailStage` disjuncts |
| `route_after_validation`, `route_after_repair`, `_underfill_fallback_or_finish` | `AfterValidation`, `AfterRepair`, `FallbackOrFinish` |
| post-processing, commit, `_save_failed_progress` | `Commit`, `FailCommit`, `RaiseWith` |
| LangGraph's recursion limit; a process dies | `Exhaust`, `Crash` |

The two engines run the same services in the same order.  A graph node that
raises records itself and the run goes on with its field as it was; a legacy stage
that raises ends the generation, except for those that store a failed report.
Only the legacy engine saves between stages.  What a service computes is a choice
over what its result may say of the plan.

### ModelStage: the model calls of a generation and their shared health record

Stages of several generations run at the same time.  `circuit`, `slot` (the
half-open probe) and `drained` (the quota) are per provider and shared; everything
else belongs to one stage.  The registry's lock covers one read or one write, so a
stage may act on a state that is no longer true: `Read` and `PickPreferred`,
`LookAside` and `Failover` are separate steps.

| code | actions |
|---|---|
| `StageRoute.first_provider`, `_pick` | `Start`, `Read`, `PickPreferred`, `PickAmongRest` |
| the request loop of the adapters | `Send`, `GiveUp`, `Answered`, `Failed`, `CutShort` |
| `after_transport_failure`, `after_structural_failure`, `allow_*` | `LookAside`, `Failover`, `FailoverRefused`, `RetrySame`, `FallBack` |
| `StageRoute.finish` | `Close` |
| time: a cooldown or a quota window ends | `Cool`, `Refill` |

Wherever the code compares the clock with the stage's own wall-clock budget it may
find it spent; that is a disjunct of its own (`GiveUp`, `CutShort`, `FallBack`,
`FailoverRefused`).

`ModelStageHistory` adds one history variable, `barred`: for each stage, the providers
it could not have used at some moment of its first choice (the circuit open, or on
probation with the slot taken), whatever it had read of them, and those that left
probation while it chose.  It restricts no step.  The last case is what the code
really does: `first_provider` reads `half_open`, an answer to somebody else closes the
circuit, and `try_acquire_probe` then refuses because there is no probation any
more.  Such a stage may give up although the provider has just become healthy.

### ProviderRequests: budget, slots and breaker

Generations of one process.  Each is one thread that plans a batch (`FindCached`,
`Plan`), dispatches it (`Dispatch`), waits, and applies the results (`Collect`).
A request goes through the stages of `geoapify_get` on a worker thread; between
any two of them other workers move:

| code | actions |
|---|---|
| a free worker of `run_bounded`; `request_breaker.check` | `Check` |
| `ProviderUsageTracker.reserve` | `Reserve`, or `Refuse` |
| `RequestLimiter.slot`, in and out | `EnterGeneration`, `Send`, `Answer`, `LeaveGeneration` |
| `settle`, `release`, `request_breaker.trip` | `Close` |
| the cooldown ends | `CoolDown` |

Which requests a batch holds, in which order its workers take them and how each
ends is arbitrary.  A place search refused for its boundary filter and repeated
with the next one is just another request.  `actual` in `Close` is any amount up
to what was reserved, as `settle` allows.  The walking and the driving allowance
have the same form; one of them is modelled.  The provider cache is an
environment that may know any route at any time.  A served answer without usable
legs is paid for and not remembered (`geoapify_adapter.py:291-292`, `309-311`): `Collect`
adds any part of the served routes to what is known, and such a route may be asked for
again.

### How the modules fit together

`JobLease` and `Admission` each implement `JobLifecycle`, so what one assumes of a
job is what the other guarantees.  `PlanLineage` implements `SerialTrip`, and takes a job as an admission, a
body and a settlement that need not come in that order, which is what `JobLease`
allows for a worker that lost its lease.  `PlanningGraph` is that body from inside;
its `saved` is the row of `PlanLineage` and its `Begin` and `Commit` are
`StartGeneration` and `CommitGeneration` there.  `ModelStage` and
`ProviderRequests` are what the nodes of `PlanningGraph` do while they run: to it,
they are a result or an exception.

## 3. Runs

| run | instance | shows |
|---|---|---|
| JobLeaseRaces | 2 processes, 2 jobs of one trip, lease 2, heartbeat 1, unbounded pauses, redelivery | ownership, verdicts, valid leases, refinement of JobLifecycle |
| JobLeaseTimely | 2 processes, 2 trips, one slot, pauses at most 2 ticks, no redelivery, fairness | capacity, a beating job is safe at the tightest boundary, every job settles |
| AdmissionLimits | 2 users, 2 trips, 3 jobs, window 2, limits 1 per user and 2 in all, 1 trip per user, delay 1 | limits, deletion, refinement of JobLifecycle |
| AdmissionOrphan | same | expected violation, see section 6 |
| PlanLineage | 2 runs, 2 feedback events, 1 request, 1 promotion report, 1 fork, stage saves | no lost feedback, locks, version and head together, what makes content drift, chains, refinement of SerialTrip |
| PlanLineageRetry, PlanLineageFailedCommit | 2 runs, 1 feedback event, 1 request, 1 fork, no promotion report (production) | expected violations, see section 6 |
| PlanningGraph | one generation in five deployments, eight nodes that may raise, 2 repairs, recursion limit 41 | loops, reports, repairs |
| PlanningGraphRetry | everything on, nothing else raises | expected violation, see section 6 |
| ModelStageRoutes | 2 stages, one with a retry of its own, a provider pair or single providers, 1 transport retry, fairness | requests and recoveries, probe slots, nobody gives up unasked without a reason, every stage ends |
| ModelStageProbe | 4 stages, one pair | expected violation, see section 6 |
| ProviderRequests | 2 generations with 2 and 1 batches, a route of 1 credit and a search of 2, budget 2, allowance 2, one slot at each level, 2 workers, fairness | budget, reservations, limits, repeated requests, every batch ends |

Why these bounds are enough.

- JobLease: two processes are an owner and whoever takes over or recovers; two
  jobs of one trip let a late owner meet a successor.  A lease of 2 with a
  heartbeat of 1 is the smallest that `validate_runtime_configuration` admits
  (heartbeat < lease <= stale-after) in which a beat can be on time, just on time,
  and late.
- Admission: three jobs are one more than the deployment limit, and two users tell
  the two limits apart.  Two trips and a limit of one are two creations that count
  the same place unless the lock keeps one waiting; two users are two creations at once.
- PlanLineage: two runs are a generation and a regeneration, or two generations of
  which the second checked before the first finished.  The trip's default branch
  and one fork are the two sides of every switch; runs compete with each other, so
  one more request is enough for a writer of each kind.  The proofs cover any number.
- PlanningGraph: two repairs are the maximum the settings admit.  Without a repair
  that raises, the longest run executes 35 nodes, and 6 more for each that does;
  with a limit of 41 a run of either kind is finished or cut off.  One generation
  starts from a new trip; what a later one inherits is covered by the proofs, which
  do not bound `MaxGenerations`.  The nodes in `MCFlaky` are those whose failure
  the properties can tell apart, and one that is silent.
- ModelStage: two stages are enough for one to act on a state the other has just
  changed; the counterexample about two probes needs four, one that opens
  the circuit, one whose old request fails late, and two probes.
- ProviderRequests: with one slot at each level and two workers, requests of one
  generation wait for each other and two generations wait for one slot of the
  process; the two requests together exceed the budget; the generation with two
  batches can ask a second time for what it was refused.

Only `JobLeaseTimely` and the runs with violations of small instances could be
larger; the safety properties they check hold for all values of the constants (section 5).  Symmetry is declared only in runs that check no liveness.
The runs of PlanningGraph, ModelStage and ProviderRequests say
`CHECK_DEADLOCK FALSE` because they end: the generations, stages or batches are
used up.  In ProviderRequests and ModelStage the liveness properties say that
nothing stops before that.

Fairness is only what the code's own machinery does.

- JobLeaseTimely is about recovery: `Redelivery` stays off, because with run calls that
  come again and again `EveryJobSettles` is false for a reason the code cannot help (every
  claim is followed by a crash).  That a job which beats on time is not taken over
  either is therefore shown by the theorem, `TimelyHeartbeatsProtect`, for all constants.
  Time passes; a new process boots; a body ends; its runner
  finalises; shutdown works through its list and exits; and some live process
  reconciles each trip, because the frontend polls an unfinished job and `get_job`
  reconciles.  Requests, redelivery, shutdown, crashes, heartbeats and claims are
  not fair: a queued job whose task never starts settles through recovery.
- ModelStageRoutes: a stage is straight-line code on a worker thread and every
  request has a timeout, so each stage takes steps while it can.  Cooldowns and
  quota windows are not fair, so no stage waits for one.
- ProviderRequests: the same for worker threads, and a generation collects a batch that is
  complete.  Planning, dispatching and the breaker's cooldown are not fair.  Weak
  fairness per worker is enough for the semaphores, which promise no order:
  a generation has finitely many requests and those that hold a slot never
  wait for anyone who waits for it, so the others cannot keep one out for ever.

## 4. Mutants

Every property of a passing run is paired with a plausible bug in the code (the
`Bad...` and `Mut...` operators of each module): a lease compared one tick early, an owner
check left out, a partial index without `queued`, an error code written as a status, a
trip creation that takes no lock, a trip id written as the owner of a usage row, a
usage row dropped one tick early, a provider on probation that is never probed second, a repair attempt that is not counted, a stage that ends without giving its
probe back, a budget check that forgets what is reserved, a slot released only
after success.  TLC finds the property violated in each case, so no property holds by the
shape of the model.

## 5. Proofs

`JobLeaseProofs` proves for every set of jobs, trips and processes, every lease,
interval and capacity allowed by `JobLeaseAssumption` (the rules of
`validate_runtime_configuration`):

- `TypeCorrect`, `JobInvariant`, `OneActiveJobPerTrip`,
  `LeaseExactlyWhileRunning`, `WorkIsAlwaysClaimed`;
- the action properties `SettledForGood`, `ValidLeaseIsRespected`,
  `VerdictComesFromTheOwner`, `TimelyHeartbeatsProtect`;
- `CapacityHolds`, for finite sets of jobs;
- `ImplementsLifecycle`, the refinement.

The inductive invariant is `JobInv`, the conjunction of the type invariant,
`OneActivePerTrip`, `LeaseOnlyWhileRunning` and `WorkIsClaimed`; the step lemma
`RowStep` lists the few ways one row may change in one step, and most proofs rest
on it instead of on the actions.  `WorkIsClaimed` is what makes the verdict
property inductive: a transition is allowed on a queued row, so one must
know that a worker with a verdict never faces a queued row.  The operators on rows
have one lemma each; each action has one lemma per property; the temporal steps
only combine them.

`PlanLineageProofs` proves for every set of runs, requests, feedback events and
forks, with and without stage saves, every property that the passing PlanLineage
run checks but the refinement, and two more (`RevisionsExtendParents`,
`SwitchOnlyByActivation`): `TypeCorrect`, `VersionWithHead`, `BranchesAreChains` and
`RevisionsExtendParents` as invariants; `LineageOnlyGrows`,
`SwitchOnlyByActivation`, `FeedbackIsKept`, `LocksAreRespected` and
`DriftCauses` as action properties.  `OnlyGenerationDriftsInProduction` is the last of
these with `Stamp = {}`: there a generation is the only cause.  It assumes `LineageAssumption` (the
kinds of ids are disjoint, the default branch is no fork) and `NothingAssumption`
(null is neither a document nor a revision).  The argument has three layers:

1. `Base`: types, and what a token is worth.  A writer in `fresh` still has the
   row's workspace (feedback, locks, branch, version) in its copy, and a
   regeneration or an edit has the whole row (`Tokens`).  This is the
   compare-and-set stated as an invariant; without it a commit could be anything.
2. `StepShape`: so every step is quiet (versions and lineage stay, at most
   one event is appended to the pending ones), a commit on top of the row,
   a fork, or an activation.  All that follows uses these four shapes.
3. `LineageInv`: adds that only settled runs have left revisions, that the head
   has the highest label of its branch, that nothing lies on a fork not yet
   created, and that row and head agree on versions and applied feedback
   (`HeadAgrees`).  Hence a commit either records a new revision under the head or
   is the retry of a generation (`CommitEffect`).  The last two theorems add that an event
   is pending once and never after it was applied (`FeedbackClean`) and that a
   regeneration with a current token still has a consistent row (`SteadyRuns`).

`PlanLineageSerialProofs` proves `ImplementsSerialTrip`, the refinement, from the same
assumptions.  The inductive invariant is `SerialInv`: that of the trip (`TripInv`,
all of the above) and `CopiesAttributed`, which says of which document a
generation has made its plan.  A generation at work has marked its document
unfinished, and while its token is current, the copy that waits for the commit is the row
with a plan of this run and nothing else changed.  So the commit is `Generate` on
the row as it is, although the copy was loaded long before.  For a regeneration
the token says as much (`Tokens`), and `SteadyRuns` supplies the guard that the row
agrees with its branch.  A save under an old token is a stutter.

`PlanningGraphProofs` proves for any deployments, any set of nodes that may raise,
any recursion limit and any number of generations: `TypeCorrect`,
`LoopsAreBounded`, `ReportsAreOfThePlan` and `RepairsArePlanned`.

- `LoopInv` measures how far a run has come: nodes left before the next validation,
  plus six for each planning pass that the repair budget, the fallback and the
  attempts that raised still allow.  Every node lowers the first part or pays for
  a pass, whatever counters an earlier generation left in the document.
- `ReportInv` says, for every node of the graph, which reports are already of
  the plan or excused by a failed node when the run arrives there.  A plan built
  anew makes all of them stale; each node on the way to the commit repairs its own
  or records itself.

- `RepairInv` says that the stored repair result is of a counted attempt.  From it
  follow `RetriesFollowACompletedRepair` and `OneAttemptNeverReplans`, see below.

`ModelStageProofs` proves for any number of stages, any provider pair and any
assignment of routes to stages every safety property of ModelStageRoutes: `TypeCorrect`,
`ProbeSlotOwned`, `RequestsAreBounded`, `RecoversOnce` and
`UnaskedOnlyIfUnavailable`.  The inductive invariant adds, for each stage by
itself, how attempts made, recoveries granted and requests logged relate at each
point of its code (`Counts`, `Asks`), and what a stage that chooses among the rest has
seen (`Refusals`).  `SlotHasAnOwner` is the only part about two stages:
a slot that another stage takes away is free, and one it takes is its own.

`UnaskedOnlyIfUnavailable` is about ModelStageHistory and needs one more part, `Kept`:
while a stage chooses, a provider it read as open is barred, and one it read as on
probation is barred or still has its probe to give; and a preferred provider it has
refused is barred.  Steps of others keep this because `Watch` records every way a free
probe can be lost (`KeptWhileChoosing`); the stage's own refusals then say that the
probe was not there.

Two more theorems are the safety half of `EveryStageEnds`.  `StagesNeverWait`: a
stage that has not ended can take a step, whatever it has read and whoever holds
the slots.  `StagesShrink`: each of its steps lowers `StepsLeft`, which is at most
7 + 4 for each attempt it may make (so at most 19), and no step of anyone else raises
it.  That a stage which can step does step is the fairness, and stays with TLC.

`ProviderRequestsProofs` proves for any generations, requests, prices, limits and
workers every safety property of the run: `TypeCorrect`, `BudgetIsKept`,
`NoReservationLeaks`, `WireLimitsHold` and `NeverAskedTwice`.  The
inductive invariant adds that every slot that is not free is held by a request
that will give it back, at both levels (`SlotsAccounted`, on cardinalities), and
that a request is only planned for what is not known (`AskedOnce`).  That a slot
counter never exceeds its limit, which is the type of `slots`, already needs
`SlotsAccounted`.

`ReservationsAreOpen` sums credits over the open requests.  A sum over a set would
need induction, so `ReservationsCounted` counts instead: `OpenCredits` holds one
element for each credit of each open request, and the counter is its cardinality,
which each step changes by a disjoint set.  `QuietMeansNothingReserved` is what a
generation sees of it after its last request.  `NoDeadlock` says that while a batch is under
way its results are all in or some request, perhaps of another generation, can take
its next step: who waits for a slot of the process holds one of his generation, and
who holds one of the process never waits.  `BatchesShrink` says that a batch takes
at most seven steps per request.  The two are the safety half of `EveryBatchEnds`.

`AdmissionProofs` proves for any accounts, trips and jobs, any window and any limits
every property that the run AdmissionLimits checks: `TypeCorrect`, `JobsHaveParents`,
`CountedOnce`, `SavedTripsLimited`, `WindowLimits` and `ImplementsLifecycle`.
`SavedTripsLimited` needs that the stored trips of an account and the creations of it
that have counted are together no more than the limit, and that no more than one
creation of an account has counted: the lock is what makes the place that was counted
still free when the insert takes it.  Beside
`TypeOK`, `NoJobWithoutParent` and `CountedExactlyOnce`, the inductive invariant has
three parts:

- `Placed`: a job that exists in any form has a user and a trip that was created.
- `Owned`: while both exist, the trip of a job belongs to the job's owner.  It makes
  the usage record of a deleted job name the right account.
- `Selected`: an account deletion that holds the lock has selected every job of the
  account, all settled.  No admission can add one behind its back, though a trip
  can appear; this is what the advisory lock is for.

`WindowLimits` then needs that what `admit` counts covers every recent job
(`CountsCoverRecent`, from `CountedExactlyOnce`), that only an admission makes a job
recent (`NewlyRecentIsAdmission`), and that finitely many jobs were admitted so
far; `Job` itself may be infinite.

The causes of the findings.  A run that ends in a violation shows one way to it.  For
each finding of section 6 there is also a theorem that says there is no other:
the sentence of the repository holds once one kind of step, named as a hypothesis
on the behaviour, never happens (1 to 4), or unless a state of one kind is reached (5).

| finding | theorem | the sentence fails only through |
|---|---|---|
| 1 | `OrphansAreCreatedDuringDeletion` | a trip stored for the account being deleted, between the two steps of the deletion |
| 2 | `OnlyRetriedGenerationsDiverge` | a generation that starts on a branch with a recorded version (in production, `Stamp = {}`) |
| 3 | `OnlyFailedSavesLeaveVersions` | the save after a failed generation, when it adds a version |
| 4 | `SecondProbeNeedsForeignRelease` | a probe slot freed by a stage that does not give up a probe of its own |
| 5 | `RetriesFollowACompletedRepair`, `OneAttemptNeverReplans` | a second attempt after a completed first one; never with the default of one attempt |

The hypotheses exclude what the code does in the runs of section 6 and nothing the
code has to do: each is what a repair of that line would establish.

Only model-checked: the liveness properties (`EveryJobSettles`, `EveryStageEnds`,
`SlotComesBack`, `EveryBatchEnds`), which need fairness and are out of the prover's
reach.  `TerminalIsFinal`, `LeaseOnlyWhileRunning`, `RevisionExtendsParent` and
`OnlyActivationSwitches` are proved and no longer checked by a run: the first
follows from the refinement of JobLifecycle and the last is part of what the
refinement of SerialTrip says; the second and third are parts of other invariants'
proofs.

## 6. Findings

1. `AdmissionOrphan`.  `_delete_postgres` deletes the `users` row and only then
   counts what is left.  `trips.owner_id` is `ON DELETE SET NULL`, so a trip
   committed meanwhile has lost its owner before it is counted; it survives,
   ownerless, although the comment says nothing owned by the account may be left.
2. `PlanLineageRetry`.  A generation whose plan is not usable commits v1 with its
   revision; the retry the code means to allow rewrites the plan, adds no
   version and skips the revision as already recorded.  The trip never agrees
   with its branch head again: regeneration and branch switches are refused for
   good.  Two generate requests of which the second checked before the first
   finished get there too, with a usable plan.
3. `PlanLineageFailedCommit`.  After the commit transaction rolled back, the
   failure handler saves the in-memory state, version included, on its own.
4. `ModelStageProbe`.  A failure without a verdict frees the provider's probe slot,
   whoever holds it.  A request sent before the circuit opened can end that way
   while a probe is in flight, and a second probe starts next to it.
5. `PlanningGraphRetry`.  A second repair attempt that raises is routed by the
   stored result of the first, which completed: back to planning, uncounted, and
   possibly again, although the docstring says a failing node is never retried.

Section 5 names the theorem that says when each of these can happen at all.

`VersionMatchesHead` is stated for branches that have a head, because of finding 3,
and `DriftHasTwoCauses` says that, where the promotion endpoint does not exist, a
generation is the only way into finding 2.  `LoopsBounded` counts the attempts that raised, because of finding 5.

Smaller observations made while modelling, which no run is spent on:

- `admit` measures its window from a stamp taken before the lock, deletion from its
  own later clock; a job on the edge can be in neither table for one decision,
  although a comment says it never is.  The limits hold all the same
  (`WindowLimitsHold`).
- A user who is refused a switch is told that pending feedback is in no snapshot;
  snapshots hold the whole document.
- With `GROQ_MAX_RETRIES=2` a single provider may be retried structurally after a
  transport retry; `ai_stage_budget.py:120-125` says the kinds never add up.  `OneRecovery`
  is stated for at most one transport retry, the default.
- `llm_provider_health.py:26` says rejected credentials stay closed until the
  process restarts.  A later rate limit of a request already in flight replaces
  that by a cooldown that ends.
- The repair attempt count and the stored repair result are not reset when a
  generation starts (`planning_state.py:1587`): a retried generation inherits them.
- The default engine commits with progress `completed` although nodes are in
  `failed_nodes` (`planning_orchestrator.py:1187-1193`).
- The sequencing node may fail after it reordered the days; its message says the
  planning state is left unchanged (`planning_graph_nodes.py:162`).
- `config.py:524-526` says serial and concurrent batches give identical results.
  Concurrent reservations are conservative until they are settled, so near the cap
  a request may be refused that would be served serially.
- Requests that passed the breaker's check and wait for a slot are still sent after
  a rate limit tripped it; `errors.py:104-107` speaks of every further request.  A
  later trip without `Retry-After` may shorten a longer cooldown
  (`errors.py:136-137`).

## 7. Not modelled

- The local JSON mode: a single-process development backend that is not
  transactional by its own account.
- The planning heuristics (`experience_planner_service.py`,
  `plan_validator_service.py`, `targeted_regeneration_executor.py` and the like):
  sequential computations over geographic data and text.  The models take their
  results as choices; what they compute is the subject of the repository's tests.
- Sign-in and sign-up windows: the code counts without a lock and accepts the
  overshoot of the attempts in flight.
- Calls without a generation context, and exceptions of `geoapify_get` that are not
  `httpx` errors (a bug in the program, which would keep its reservation).
- Provider clients and parsing, response cache, observability, configuration,
  frontend, migrations and scripts; the reason for each is in `PROJECT.json`
  ("components").

## 8. Plan

Done: `JobLifecycle`, `JobLease`, `Admission`, `SerialTrip`, `PlanLineage`, `PlanningGraph`,
`ModelStage`, `ProviderRequests`, and their proofs.

Next, in this order:

1. The refinement between `PlanningGraph` and `PlanLineage`: one generation's
   saves as steps of the run in `PlanLineage`.
2. Pure algorithms (travel buffers, pace targets, schedule placement) as operators
   checked against a reference definition.
