------------------------------ MODULE Admission ------------------------------
(***************************************************************************)
(* Accounts, trips and the rolling admission windows in PostgreSQL mode:   *)
(* creating a trip within the saved-trip limit, admitting a generation job *)
(* within the per-user, deployment and capacity limits, and deleting a     *)
(* trip or a whole account while requests are in flight.                   *)
(*                                                                         *)
(* Source: PostgresJobRepository.admit, AdmissionPolicy,                   *)
(* PostgresTripRepository.create_within_owner_limit and                    *)
(* data_deletion_service.  admit and both deletions take one advisory      *)
(* lock; creating a trip takes another one, of its owner.  So an account   *)
(* deletion is two steps (select the trips, then delete and commit), and   *)
(* so is a creation (count the trips, then insert and commit): each can    *)
(* happen between the two of the other.                                    *)
(*                                                                         *)
(* A job is identified from the moment create_queued_job stamps it, before *)
(* any row exists.  Its record is kept after the row is deleted: that is   *)
(* the history the limits are about, and no guard reads it.                *)
(* Ages are clock ticks since created_at, exact up to AgeCap.              *)
(***************************************************************************)
EXTENDS Integers, FiniteSets

CONSTANTS
    User, Trip, Job,
    NoUser, NoTrip, NoUsage,    \* null owner, trip of an unused id, no usage row
    Window,                     \* generation_limit_window_seconds, in ticks
    UserLimit, GlobalLimit,     \* jobs per window, per account and in all; 0 = not enforced
    MaxConcurrent,              \* generation_max_concurrent_jobs; 0 = not enforced
    MaxTrips,                   \* max_trips_per_user; 0 = not enforced
    MaxDelay                    \* longest time between a job's stamp and its admission

ASSUME AdmissionAssumption ==
    /\ NoUser \notin User /\ NoTrip \notin Trip /\ NoUsage \notin User \cup {NoUser}
    /\ Window \in Nat \ {0}
    /\ UserLimit \in Nat /\ GlobalLimit \in Nat
    /\ MaxConcurrent \in Nat /\ MaxTrips \in Nat /\ MaxDelay \in Nat

VARIABLES
    account,    \* users rows
    trip,       \* trips rows, and the ids of creations that have counted and not inserted yet
    job,        \* generation_jobs rows, requests on their way to one, and what became of them
    usage,      \* deleted_job_usage rows: job |-> owner column
    deletion    \* the account deletion holding the advisory lock, and the trips it selected

vars == <<account, trip, job, usage, deletion>>

-----------------------------------------------------------------------------
AgeCap == Window + MaxDelay

Stored == {"active", "settled"}
Admitted == Stored \cup {"deleted"}

TripRecord == [state : {"unused", "counted", "stored", "deleted"}, owner : User \cup {NoUser}]
JobRecord == [state : {"unused", "stamped", "refused"} \cup Admitted,
              trip : Trip \cup {NoTrip}, owner : User \cup {NoUser}, age : 0..AgeCap]
Idle == [user |-> NoUser, scope |-> {}]

TypeOK ==
    /\ account \in [User -> {"open", "deleted"}]
    /\ trip \in [Trip -> TripRecord]
    /\ job \in [Job -> JobRecord]
    /\ usage \in [Job -> User \cup {NoUser, NoUsage}]
    /\ deletion \in [user : User \cup {NoUser}, scope : SUBSET Trip]

Init ==
    /\ account = [u \in User |-> "open"]
    /\ trip = [t \in Trip |-> [state |-> "unused", owner |-> NoUser]]
    /\ job = [j \in Job |->
                [state |-> "unused", trip |-> NoTrip, owner |-> NoUser, age |-> 0]]
    /\ usage = [j \in Job |-> NoUsage]
    /\ deletion = Idle

LockFree == deletion = Idle

TripsOf(u) == {t \in Trip : trip[t].state = "stored" /\ trip[t].owner = u}
ActiveJobs == {j \in Job : job[j].state = "active"}
ActiveJobsOf(S) == {j \in ActiveJobs : job[j].trip \in S}

-----------------------------------------------------------------------------
(* What admit counts.  `now` is the candidate's own stamp, so a row is in  *)
(* the window when it was created less than Window before that stamp.      *)

InWindowOf(k, j) == job[k].age < Window + job[j].age

JobsCounted(j) == {k \in Job : job[k].state \in Stored /\ InWindowOf(k, j)}

BadUsageCountedNone(j) == {}

UsageCounted(j) == {k \in Job : usage[k] # NoUsage /\ InWindowOf(k, j)}

UserCount(j) ==
    LET u == job[j].owner
    IN  Cardinality({k \in JobsCounted(j) : job[k].owner = u})
            + Cardinality({k \in UsageCounted(j) : usage[k] = u})

GlobalCount(j) == Cardinality(JobsCounted(j)) + Cardinality(UsageCounted(j))

\* AdmissionPolicy.refusal.
Refusal(j) ==
    \/ 0 < UserLimit /\ UserLimit <= UserCount(j)
    \/ 0 < GlobalLimit /\ GlobalLimit <= GlobalCount(j)
    \/ 0 < MaxConcurrent /\ MaxConcurrent <= Cardinality(ActiveJobs)

BadParentExistsTripOnly(j) == trip[job[j].trip].state # "unused"

\* The trip row, checked under the lock, and the foreign key to the owner.
ParentExists(j) == trip[job[j].trip].state = "stored" /\ account[job[j].owner] = "open"

\* The partial unique index: at most one queued or running job per trip.
TripBusy(t) == ActiveJobsOf({t}) # {}

-----------------------------------------------------------------------------
(* Requests                                                                *)

TripPlaceLeft(u) == MaxTrips > 0 => Cardinality(TripsOf(u)) < MaxTrips

BadOwnerLockFree(u) == TRUE

\* The advisory lock keyed on the owner, taken only when a limit applies.
OwnerLockFree(u) ==
    MaxTrips > 0 => \A t \in Trip : trip[t].state = "counted" => trip[t].owner # u

\* create_within_owner_limit up to its count: the session is valid, the owner's lock taken, a
\* place found; the transaction has written nothing.
CountTrips(u, t) ==
    /\ account[u] = "open"
    /\ trip[t].state = "unused"
    /\ OwnerLockFree(u)
    /\ TripPlaceLeft(u)
    /\ trip' = [trip EXCEPT ![t] = [state |-> "counted", owner |-> u]]
    /\ UNCHANGED <<account, job, usage, deletion>>

\* The insert, whose foreign key needs the users row, and the commit, which frees the lock.
InsertTrip(t) ==
    /\ trip[t].state = "counted"
    /\ account[trip[t].owner] = "open"
    /\ trip' = [trip EXCEPT ![t].state = "stored"]
    /\ UNCHANGED <<account, job, usage, deletion>>

\* The creation fails after its count, on the foreign key or otherwise, and rolls back.
DropCreation(t) ==
    /\ trip[t].state = "counted"
    /\ trip' = [trip EXCEPT ![t] = [state |-> "unused", owner |-> NoUser]]
    /\ UNCHANGED <<account, job, usage, deletion>>

\* require_trip_owner has passed and create_queued_job stamps the job; nothing is stored.
StampJob(u, t, j) ==
    /\ t \in TripsOf(u)
    /\ job[j].state = "unused"
    /\ job' = [job EXCEPT ![j] = [state |-> "stamped", trip |-> t, owner |-> u, age |-> 0]]
    /\ UNCHANGED <<account, trip, usage, deletion>>

Admit(j) ==
    /\ LockFree
    /\ job[j].state = "stamped"
    /\ ParentExists(j)
    /\ ~Refusal(j)
    /\ ~TripBusy(job[j].trip)
    /\ job' = [job EXCEPT ![j].state = "active"]
    /\ UNCHANGED <<account, trip, usage, deletion>>

\* 404, 429 or 409, all decided under the lock: no row is written.
RefuseJob(j) ==
    /\ LockFree
    /\ job[j].state = "stamped"
    /\ ~ParentExists(j) \/ Refusal(j) \/ TripBusy(job[j].trip)
    /\ job' = [job EXCEPT ![j].state = "refused"]
    /\ UNCHANGED <<account, trip, usage, deletion>>

\* The request dies before or inside its transaction, which then rolls back.
DropRequest(j) ==
    /\ job[j].state = "stamped"
    /\ job' = [job EXCEPT ![j].state = "refused"]
    /\ UNCHANGED <<account, trip, usage, deletion>>

\* Any way a job becomes terminal (its runner, recovery, shutdown): see JobLease.
SettleJob(j) ==
    /\ job[j].state = "active"
    /\ job' = [job EXCEPT ![j].state = "settled"]
    /\ UNCHANGED <<account, trip, usage, deletion>>

-----------------------------------------------------------------------------
(* Deletion                                                                *)

JobsOfTrips(S) == {j \in Job : job[j].state \in Stored /\ job[j].trip \in S}

BadRetainedTooShort(S, owner, j) ==
    LET kept == IF j \in JobsOfTrips(S) THEN owner ELSE usage[j]
    IN  IF job[j].age >= Window - 1 THEN NoUsage ELSE kept

BadRetainedTripAsOwner(S, owner, j) ==
    LET kept == IF j \in JobsOfTrips(S) THEN job[j].trip ELSE usage[j]
    IN  IF job[j].age >= Window THEN NoUsage ELSE kept

\* Usage rows after a deletion of the trips S: one per deleted job that is still inside the
\* window, older ones purged.
Retained(S, owner, j) ==
    LET kept == IF j \in JobsOfTrips(S) THEN owner ELSE usage[j]
    IN  IF job[j].age >= Window THEN NoUsage ELSE kept

JobsErased(S) ==
    [j \in Job |-> IF j \in JobsOfTrips(S) THEN [job[j] EXCEPT !.state = "deleted"] ELSE job[j]]

BadDeletableAlways(S) == TRUE

\* GenerationInProgressError otherwise.
Deletable(S) == ActiveJobsOf(S) = {}

\* delete_trip, for the owner require_trip_owner verified; its transaction takes the lock.
DeleteTrip(u, t) ==
    /\ LockFree
    /\ t \in TripsOf(u)
    /\ Deletable({t})
    /\ usage' = [j \in Job |-> Retained({t}, u, j)]
    /\ job' = JobsErased({t})
    /\ trip' = [trip EXCEPT ![t].state = "deleted"]
    /\ UNCHANGED <<account, deletion>>

\* delete_account up to the active-job check: lock taken, trips selected, nothing visible yet.
BeginAccountDeletion(u) ==
    /\ LockFree
    /\ account[u] = "open"
    /\ Deletable(TripsOf(u))
    /\ deletion' = [user |-> u, scope |-> TripsOf(u)]
    /\ UNCHANGED <<account, trip, job, usage>>

Anonymous(u, owner) == IF owner = u THEN NoUser ELSE owner

\* ON DELETE SET NULL acts on rows; a creation that has not inserted keeps its owner.
Disowned(u, r) ==
    IF r.state = "counted" THEN r ELSE [r EXCEPT !.owner = Anonymous(u, @)]

\* The rest of the transaction.  A trip of this user committed meanwhile is not in scope;
\* deleting the users row sets its owner to null (ON DELETE SET NULL) before the leftover
\* count runs, so the count is always zero.
FinishAccountDeletion ==
    LET u == deletion.user
        S == deletion.scope
    IN  /\ ~LockFree
        /\ usage' = [j \in Job |-> Anonymous(u, Retained(S, NoUser, j))]
        /\ job' = JobsErased(S)
        /\ trip' = [t \in Trip |-> IF t \in S THEN [trip[t] EXCEPT !.state = "deleted"]
                                   ELSE Disowned(u, trip[t])]
        /\ account' = [account EXCEPT ![u] = "deleted"]
        /\ deletion' = Idle

\* Any error rolls the whole deletion back.
AbortAccountDeletion ==
    /\ ~LockFree
    /\ deletion' = Idle
    /\ UNCHANGED <<account, trip, job, usage>>

Older(r) == IF r.age < AgeCap THEN [r EXCEPT !.age = @ + 1] ELSE r

\* A request reaches its admission within MaxDelay of its stamp.
Tick ==
    /\ \A j \in Job : job[j].state = "stamped" => job[j].age < MaxDelay
    /\ job' = [j \in Job |->
                 IF job[j].state \in {"stamped"} \cup Admitted THEN Older(job[j]) ELSE job[j]]
    /\ UNCHANGED <<account, trip, usage, deletion>>

-----------------------------------------------------------------------------
Next ==
    \/ \E u \in User, t \in Trip :
        \/ CountTrips(u, t)
        \/ \E j \in Job : StampJob(u, t, j)
        \/ DeleteTrip(u, t)
    \/ \E t \in Trip : InsertTrip(t) \/ DropCreation(t)
    \/ \E j \in Job : Admit(j) \/ RefuseJob(j) \/ DropRequest(j) \/ SettleJob(j)
    \/ \E u \in User : BeginAccountDeletion(u)
    \/ FinishAccountDeletion
    \/ AbortAccountDeletion
    \/ Tick

Spec == Init /\ [][Next]_vars

-----------------------------------------------------------------------------
(* Properties                                                              *)

\* Every job ever admitted whose creation lies inside the present window, row or no row.
Recent == {j \in Job : job[j].state \in Admitted /\ job[j].age < Window}

\* Deleting trips or accounts never hands back generation allowance: however admissions,
\* delays and deletions interleave, the present window never holds more admitted jobs than the
\* deployment allows, nor more of one account than it allows (admit, deleted_job_usage).
WindowLimitsHold ==
    /\ GlobalLimit > 0 => Cardinality(Recent) <= GlobalLimit
    /\ UserLimit > 0 =>
         \A u \in User : Cardinality({j \in Recent : job[j].owner = u}) <= UserLimit

\* A recent job is counted from exactly one table, and its usage row names its owner while the
\* account exists and nobody afterwards (_delete_postgres).
CountedExactlyOnce ==
    \A j \in Job :
        /\ usage[j] # NoUsage => job[j].state = "deleted"
        /\ j \in Recent /\ job[j].state = "deleted" =>
             usage[j] = IF account[job[j].owner] = "open" THEN job[j].owner ELSE NoUser

\* A job row never outlives its trip or its account: the admission and the deletion of the
\* same trip, or of its owner's account, cannot interleave (the shared advisory lock).
NoJobWithoutParent ==
    \A j \in Job : job[j].state \in Stored =>
        trip[job[j].trip].state = "stored" /\ account[job[j].owner] = "open"

\* An account never holds more saved trips than its limit, although each creation counts the
\* trips before it inserts its own: no two creations of an account take the same last place
\* (create_within_owner_limit).
TripsWithinLimit == MaxTrips > 0 => \A u \in User : Cardinality(TripsOf(u)) <= MaxTrips

\* "Nothing owned by the account may be left": a stored trip belongs to an open account
\* (data_deletion_service, the leftover check of _delete_postgres).
NoOwnerlessTrip ==
    \A t \in Trip : trip[t].state = "stored" =>
        trip[t].owner \in User /\ account[trip[t].owner] = "open"

\* Admission and deletion implement the job lifecycle: jobs are admitted beside settled ones
\* only, and only settled jobs are ever erased.
Lifecycle == INSTANCE JobLifecycle WITH
    status <- [j \in Job |-> CASE job[j].state = "active" -> "queued"
                               [] job[j].state = "settled" -> "failed"
                               [] job[j].state = "deleted" -> "deleted"
                               [] OTHER -> "absent"],
    tripOf <- [j \in Job |-> IF job[j].state \in Admitted THEN job[j].trip ELSE NoTrip]
LifecycleSpec == Lifecycle!Spec

=============================================================================
