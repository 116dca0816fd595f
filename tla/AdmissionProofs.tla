--------------------------- MODULE AdmissionProofs ---------------------------
(***************************************************************************)
(* Proofs about Admission, for any sets of accounts, trips and jobs and any *)
(* limits: types, parents, usage records, the limits on saved trips and on *)
(* the jobs of a window, and that JobLifecycle is implemented.             *)
(***************************************************************************)
EXTENDS Admission, FiniteSetTheorems, TLAPS

-----------------------------------------------------------------------------
(* The inductive invariant.                                                *)

\* a job that exists in any form belongs to a user and to a trip that was created
Placed ==
    \A j \in Job : job[j].state # "unused" =>
        /\ job[j].trip \in Trip
        /\ job[j].owner \in User
        /\ trip[job[j].trip].state \in {"stored", "deleted"}

\* while its owner's account is open, a stored trip of a job is the owner's
Owned ==
    \A j \in Job :
        job[j].state \in {"stamped"} \cup Stored /\ trip[job[j].trip].state = "stored"
            /\ account[job[j].owner] = "open"
        => trip[job[j].trip].owner = job[j].owner

\* an account deletion that holds the lock has selected every job of the account, all of them
\* settled
Selected ==
    ~LockFree =>
        /\ deletion.user \in User
        /\ account[deletion.user] = "open"
        /\ \A t \in deletion.scope : trip[t].state = "stored" /\ trip[t].owner = deletion.user
        /\ \A j \in Job : job[j].state \in Stored =>
              /\ job[j].owner = deletion.user => job[j].trip \in deletion.scope
              /\ job[j].trip \in deletion.scope => job[j].state = "settled"

IInv == TypeOK /\ Placed /\ Owned /\ Selected /\ NoJobWithoutParent /\ CountedExactlyOnce

-----------------------------------------------------------------------------
(* Types.                                                                  *)

LEMMA AgeCapType == AgeCap \in Nat /\ 0 \in 0..AgeCap /\ Window <= AgeCap
  BY AdmissionAssumption DEF AgeCap

LEMMA IdleType == TypeOK => Idle \in [user : User \cup {NoUser}, scope : SUBSET Trip]
  BY DEF Idle

LEMMA OlderType ==
    ASSUME NEW r \in JobRecord
    PROVE  /\ Older(r) \in JobRecord
           /\ Older(r).state = r.state /\ Older(r).trip = r.trip /\ Older(r).owner = r.owner
           /\ r.age <= Older(r).age
  BY AgeCapType DEF Older, JobRecord

LEMMA ErasedTypes ==
    ASSUME TypeOK, NEW S
    PROVE  /\ JobsErased(S) \in [Job -> JobRecord]
           /\ \A j \in Job :
                /\ JobsErased(S)[j].trip = job[j].trip
                /\ JobsErased(S)[j].owner = job[j].owner
                /\ JobsErased(S)[j].age = job[j].age
                /\ JobsErased(S)[j].state = IF j \in JobsOfTrips(S) THEN "deleted" ELSE job[j].state
  <1>1. \A r \in JobRecord :
           /\ [r EXCEPT !.state = "deleted"] \in JobRecord
           /\ [r EXCEPT !.state = "deleted"].trip = r.trip
           /\ [r EXCEPT !.state = "deleted"].owner = r.owner
           /\ [r EXCEPT !.state = "deleted"].age = r.age
           /\ [r EXCEPT !.state = "deleted"].state = "deleted"
    BY DEF JobRecord, Admitted
  <1> QED  BY <1>1 DEF TypeOK, JobsErased

(* Only the state of one job changes. *)
StateSet(j, s) == job' = [job EXCEPT ![j].state = s]

LEMMA StateSetTypes ==
    ASSUME TypeOK, NEW j \in Job,
           NEW s \in {"unused", "stamped", "refused"} \cup Admitted, StateSet(j, s)
    PROVE  /\ job' \in [Job -> JobRecord]
           /\ \A k \in Job :
                /\ job'[k].trip = job[k].trip
                /\ job'[k].owner = job[k].owner
                /\ job'[k].age = job[k].age
                /\ job'[k].state = IF k = j THEN s ELSE job[k].state
  BY DEF TypeOK, StateSet, JobRecord

-----------------------------------------------------------------------------
(* Requests.                                                               *)

\* one trip that no job is of, counted, inserted or dropped
Created(t, r) ==
    /\ trip[t].state \in {"unused", "counted"}
    /\ r \in TripRecord
    /\ trip' = [trip EXCEPT ![t] = r]
    /\ UNCHANGED <<account, job, usage, deletion>>

LEMMA CreatedKeeps ==
    ASSUME IInv, NEW t \in Trip, NEW r, Created(t, r)
    PROVE  IInv'
  <1> USE DEF Created
  <1>1. trip' \in [Trip -> TripRecord] /\ TypeOK'
    BY DEF IInv, TypeOK
  <1>2. \A q \in Trip : trip'[q] = IF q = t THEN r ELSE trip[q]
    BY DEF IInv, TypeOK
  <1>3. \A j \in Job : job[j].state # "unused" => job[j].trip # t /\ job[j].trip \in Trip
    BY DEF IInv, Placed
  <1>4. Placed'
    BY <1>2, <1>3 DEF IInv, Placed
  <1>5. Owned'
    BY <1>2, <1>3 DEF IInv, Owned, Stored
  <1>6. Selected'
    <2>1. ~LockFree => \A q \in deletion.scope : q \in Trip /\ q # t
      BY DEF IInv, Selected, TypeOK
    <2>2. LockFree' <=> LockFree
      BY DEF LockFree, Idle
    <2> QED  BY <1>2, <2>1, <2>2 DEF IInv, Selected
  <1>7. NoJobWithoutParent'
    BY <1>2, <1>3 DEF IInv, NoJobWithoutParent, Stored
  <1>8. CountedExactlyOnce'
    BY DEF IInv, CountedExactlyOnce, Recent
  <1> QED  BY <1>1, <1>4, <1>5, <1>6, <1>7, <1>8 DEF IInv

LEMMA CreationSteps ==
    ASSUME TypeOK, NEW t \in Trip
    PROVE  /\ \A u \in User : CountTrips(u, t) => Created(t, [state |-> "counted", owner |-> u])
           /\ InsertTrip(t) => Created(t, [trip[t] EXCEPT !.state = "stored"])
           /\ DropCreation(t) => Created(t, [state |-> "unused", owner |-> NoUser])
  <1>1. /\ \A u \in User : [state |-> "counted", owner |-> u] \in TripRecord
        /\ [trip[t] EXCEPT !.state = "stored"] \in TripRecord
        /\ [state |-> "unused", owner |-> NoUser] \in TripRecord
    BY DEF TypeOK, TripRecord
  <1> QED  BY <1>1 DEF CountTrips, InsertTrip, DropCreation, Created

LEMMA CreationKeeps ==
    ASSUME IInv, NEW t \in Trip,
           (\E u \in User : CountTrips(u, t)) \/ InsertTrip(t) \/ DropCreation(t)
    PROVE  IInv'
  <1>1. PICK r : Created(t, r)
    BY CreationSteps DEF IInv
  <1> QED  BY <1>1, CreatedKeeps

LEMMA StampJobKeeps ==
    ASSUME IInv, NEW u \in User, NEW t \in Trip, NEW j \in Job, StampJob(u, t, j)
    PROVE  IInv'
  <1> USE DEF StampJob
  <1>1. [state |-> "stamped", trip |-> t, owner |-> u, age |-> 0] \in JobRecord
    BY AgeCapType DEF JobRecord
  <1>2. TypeOK'
    BY <1>1 DEF IInv, TypeOK
  <1>3. \A k \in Job : job'[k] = IF k = j THEN [state |-> "stamped", trip |-> t, owner |-> u, age |-> 0]
                                 ELSE job[k]
    BY DEF IInv, TypeOK
  <1>4. trip[t].state = "stored" /\ trip[t].owner = u
    BY DEF TripsOf
  <1>5. Placed'
    BY <1>3, <1>4 DEF IInv, Placed
  <1>6. Owned'
    BY <1>3, <1>4 DEF IInv, Owned
  <1>7. Selected'
    <2>1. LockFree' <=> LockFree
      BY DEF LockFree, Idle
    <2>2. "stamped" \notin Stored
      BY DEF Stored
    <2> QED  BY <1>3, <2>1, <2>2 DEF IInv, Selected
  <1>8. NoJobWithoutParent'
    BY <1>3 DEF IInv, NoJobWithoutParent, Stored
  <1>9. CountedExactlyOnce'
    BY <1>3 DEF IInv, CountedExactlyOnce, Recent, Admitted, Stored
  <1> QED  BY <1>2, <1>5, <1>6, <1>7, <1>8, <1>9 DEF IInv

\* what becomes of one job: refused, settled, or admitted to a parent that exists
Moved(j, s) ==
    \/ job[j].state = "stamped" /\ s = "refused"
    \/ job[j].state = "active" /\ s = "settled"
    \/ job[j].state = "stamped" /\ s = "active" /\ LockFree /\ ParentExists(j)

LEMMA MovedKeeps ==
    ASSUME IInv, NEW j \in Job, NEW s, Moved(j, s), StateSet(j, s),
           UNCHANGED <<account, trip, usage, deletion>>
    PROVE  IInv'
  <1>1. s \in {"unused", "stamped", "refused"} \cup Admitted
    BY DEF Moved, Admitted, Stored
  <1>2. /\ job' \in [Job -> JobRecord]
        /\ \A k \in Job :
             /\ job'[k].trip = job[k].trip
             /\ job'[k].owner = job[k].owner
             /\ job'[k].age = job[k].age
             /\ job'[k].state = IF k = j THEN s ELSE job[k].state
    BY <1>1, StateSetTypes DEF IInv
  <1>3. TypeOK'
    BY <1>2 DEF IInv, TypeOK
  <1>4. Placed'
    BY <1>2 DEF IInv, Placed, Moved
  <1>5. Owned'
    BY <1>2 DEF IInv, Owned, Moved, Stored
  <1>6. Selected'
    <2>1. LockFree' <=> LockFree
      BY DEF LockFree, Idle
    <2>2. ~LockFree => \A k \in Job : job'[k].state \in Stored =>
             job[k].state \in Stored /\ (job[k].state = "settled" => job'[k].state = "settled")
      BY <1>2 DEF Moved, Stored
    <2> QED  BY <1>2, <2>1, <2>2 DEF IInv, Selected
  <1>7. NoJobWithoutParent'
    BY <1>2 DEF IInv, NoJobWithoutParent, Moved, Stored, ParentExists
  <1>8. CountedExactlyOnce'
    <2>1. s # "deleted" /\ job[j].state # "deleted"
      BY DEF Moved
    <2>2. \A k \in Job : job'[k].state = "deleted" <=> job[k].state = "deleted"
      BY <1>2, <2>1
    <2>3. \A k \in Job : k \in Recent' /\ job'[k].state = "deleted" => k \in Recent
      BY <1>2, <2>1 DEF Recent
    <2> QED  BY <1>2, <2>2, <2>3 DEF IInv, CountedExactlyOnce
  <1> QED  BY <1>3, <1>4, <1>5, <1>6, <1>7, <1>8 DEF IInv

LEMMA JobStepKeeps ==
    ASSUME IInv, NEW j \in Job, Admit(j) \/ RefuseJob(j) \/ DropRequest(j) \/ SettleJob(j)
    PROVE  IInv'
  <1>1. CASE Admit(j)
    BY <1>1, MovedKeeps DEF Admit, Moved, StateSet
  <1>2. CASE RefuseJob(j)
    BY <1>2, MovedKeeps DEF RefuseJob, Moved, StateSet
  <1>3. CASE DropRequest(j)
    BY <1>3, MovedKeeps DEF DropRequest, Moved, StateSet
  <1>4. CASE SettleJob(j)
    BY <1>4, MovedKeeps DEF SettleJob, Moved, StateSet
  <1> QED  BY <1>1, <1>2, <1>3, <1>4

LEMMA TickKeeps ==
    ASSUME IInv, Tick
    PROVE  IInv'
  <1> USE DEF Tick
  <1>1. /\ job' \in [Job -> JobRecord]
        /\ \A k \in Job :
             /\ job'[k].trip = job[k].trip
             /\ job'[k].owner = job[k].owner
             /\ job'[k].state = job[k].state
             /\ job[k].age <= job'[k].age
             /\ job[k].age \in Nat /\ job'[k].age \in Nat
    BY OlderType, AgeCapType DEF IInv, TypeOK, JobRecord
  <1>2. TypeOK'
    BY <1>1 DEF IInv, TypeOK
  <1>3. Placed' /\ Owned' /\ NoJobWithoutParent'
    BY <1>1 DEF IInv, Placed, Owned, NoJobWithoutParent
  <1>4. Selected'
    <2>1. LockFree' <=> LockFree
      BY DEF LockFree, Idle
    <2> QED  BY <1>1, <2>1 DEF IInv, Selected
  <1>5. CountedExactlyOnce'
    <2>1. Window \in Nat
      BY AdmissionAssumption
    <2>2. \A k \in Recent' : k \in Recent
      BY <1>1, <2>1 DEF Recent
    <2> QED  BY <1>1, <2>2 DEF IInv, CountedExactlyOnce
  <1> QED  BY <1>2, <1>3, <1>4, <1>5 DEF IInv

-----------------------------------------------------------------------------
(* Deletion.                                                               *)

(* The usage records after the trips S of the open account u, or of the    *)
(* account that is being deleted, were deleted: kept for what is recent.   *)
LEMMA RetainedValue ==
    ASSUME TypeOK, NEW S, NEW owner, NEW j \in Job
    PROVE  /\ Retained(S, owner, j) \in {NoUsage, owner, usage[j]}
           /\ job[j].age < Window => Retained(S, owner, j) = IF j \in JobsOfTrips(S) THEN owner ELSE usage[j]
           /\ Retained(S, owner, j) # NoUsage => j \in JobsOfTrips(S) \/ usage[j] # NoUsage
  <1>1. job[j].age \in Nat /\ Window \in Nat
    BY AdmissionAssumption, AgeCapType DEF TypeOK, JobRecord
  <1> QED  BY <1>1 DEF Retained

LEMMA DeleteTripKeeps ==
    ASSUME IInv, NEW u \in User, NEW t \in Trip, DeleteTrip(u, t)
    PROVE  IInv'
  <1>1. /\ LockFree /\ trip[t].state = "stored" /\ trip[t].owner = u
        /\ usage' = [j \in Job |-> Retained({t}, u, j)]
        /\ job' = JobsErased({t})
        /\ trip' = [trip EXCEPT ![t].state = "deleted"]
        /\ UNCHANGED <<account, deletion>>
    BY DEF DeleteTrip, TripsOf
  <1>2. /\ job' \in [Job -> JobRecord]
        /\ \A j \in Job :
             /\ job'[j].trip = job[j].trip
             /\ job'[j].owner = job[j].owner
             /\ job'[j].age = job[j].age
             /\ job'[j].state = IF j \in JobsOfTrips({t}) THEN "deleted" ELSE job[j].state
    BY <1>1, ErasedTypes DEF IInv
  <1>3. /\ trip' \in [Trip -> TripRecord]
        /\ \A r \in Trip : /\ trip'[r].owner = trip[r].owner
                           /\ trip'[r].state = IF r = t THEN "deleted" ELSE trip[r].state
    BY <1>1 DEF IInv, TypeOK, TripRecord
  <1>4. \A j \in Job : usage'[j] = Retained({t}, u, j)
    BY <1>1
  <1>5. usage' \in [Job -> User \cup {NoUser, NoUsage}]
    <2>1. \A j \in Job : usage[j] \in User \cup {NoUser, NoUsage}
      BY DEF IInv, TypeOK
    <2>2. \A j \in Job : Retained({t}, u, j) \in User \cup {NoUser, NoUsage}
      BY <2>1, RetainedValue DEF IInv
    <2> QED  BY <1>1, <2>2
  <1>6. TypeOK'
    BY <1>1, <1>2, <1>3, <1>5 DEF IInv, TypeOK
  <1>7. \A j \in Job : j \in JobsOfTrips({t}) <=> job[j].state \in Stored /\ job[j].trip = t
    BY DEF JobsOfTrips
  <1>8. "deleted" \notin Stored /\ "unused" \notin Stored
    BY DEF Stored
  <1>9. Placed'
    <2> SUFFICES ASSUME NEW j \in Job, job'[j].state # "unused"
                 PROVE  /\ job'[j].trip \in Trip /\ job'[j].owner \in User
                        /\ trip'[job'[j].trip].state \in {"stored", "deleted"}
      BY DEF Placed
    <2>1. job[j].state # "unused"
      BY <1>2, <1>7, <1>8
    <2> QED  BY <1>2, <1>3, <2>1 DEF IInv, Placed
  <1>10. Owned'
    <2> SUFFICES ASSUME NEW j \in Job, job'[j].state \in {"stamped"} \cup Stored,
                        trip'[job'[j].trip].state = "stored", account'[job'[j].owner] = "open"
                 PROVE  trip'[job'[j].trip].owner = job'[j].owner
      BY DEF Owned
    <2>1. job[j].state \in {"stamped"} \cup Stored
      BY <1>2, <1>8
    <2>2. job[j].trip \in Trip
      BY <1>8, <2>1 DEF IInv, Placed
    <2>3. trip[job[j].trip].state = "stored" /\ account[job[j].owner] = "open"
      BY <1>1, <1>2, <1>3, <2>2
    <2> QED  BY <1>2, <1>3, <2>1, <2>2, <2>3 DEF IInv, Owned
  <1>11. Selected'
    BY <1>1 DEF Selected, LockFree, Idle
  <1>12. NoJobWithoutParent'
    <2> SUFFICES ASSUME NEW j \in Job, job'[j].state \in Stored
                 PROVE  trip'[job'[j].trip].state = "stored" /\ account'[job'[j].owner] = "open"
      BY DEF NoJobWithoutParent
    <2>1. job[j].state \in Stored /\ job[j].trip # t
      BY <1>2, <1>7, <1>8
    <2>2. job[j].trip \in Trip
      BY <1>8, <2>1 DEF IInv, Placed
    <2>3. trip[job[j].trip].state = "stored" /\ account[job[j].owner] = "open"
      BY <2>1 DEF IInv, NoJobWithoutParent
    <2> QED  BY <1>1, <1>2, <1>3, <2>1, <2>2, <2>3
  <1>13. CountedExactlyOnce'
    <2> SUFFICES ASSUME NEW j \in Job
                 PROVE  /\ usage'[j] # NoUsage => job'[j].state = "deleted"
                        /\ j \in Recent' /\ job'[j].state = "deleted" =>
                             usage'[j] = IF account'[job'[j].owner] = "open" THEN job'[j].owner ELSE NoUser
      BY DEF CountedExactlyOnce
    <2>1. usage'[j] # NoUsage => job'[j].state = "deleted"
      <3>1. usage'[j] # NoUsage => j \in JobsOfTrips({t}) \/ usage[j] # NoUsage
        BY <1>4, RetainedValue DEF IInv
      <3>2. usage[j] # NoUsage => job[j].state = "deleted"
        BY DEF IInv, CountedExactlyOnce
      <3> QED  BY <1>2, <3>1, <3>2
    <2>2. ASSUME j \in Recent', job'[j].state = "deleted"
          PROVE  usage'[j] = IF account[job[j].owner] = "open" THEN job[j].owner ELSE NoUser
      <3>1. job[j].age < Window
        BY <1>2, <2>2 DEF Recent
      <3>2. CASE j \in JobsOfTrips({t})
        <4>1. job[j].state \in Stored /\ job[j].trip = t
          BY <1>7, <3>2
        <4>2. account[job[j].owner] = "open"
          BY <4>1 DEF IInv, NoJobWithoutParent
        <4>3. job[j].owner = u
          BY <1>1, <4>1, <4>2 DEF IInv, Owned
        <4> QED  BY <1>4, <3>1, <3>2, <4>2, <4>3, RetainedValue DEF IInv
      <3>3. CASE j \notin JobsOfTrips({t})
        <4>1. job[j].state = "deleted"
          BY <1>2, <2>2, <3>3
        <4>2. j \in Recent
          BY <3>1, <4>1 DEF Recent, Admitted
        <4> QED  BY <1>4, <3>1, <3>3, <4>1, <4>2, RetainedValue DEF IInv, CountedExactlyOnce
      <3> QED  BY <3>2, <3>3
    <2> QED  BY <1>1, <1>2, <2>1, <2>2
  <1> QED  BY <1>6, <1>9, <1>10, <1>11, <1>12, <1>13 DEF IInv

LEMMA BeginAccountDeletionKeeps ==
    ASSUME IInv, NEW u \in User, BeginAccountDeletion(u)
    PROVE  IInv'
  <1>1. /\ account[u] = "open" /\ Deletable(TripsOf(u))
        /\ deletion' = [user |-> u, scope |-> TripsOf(u)]
        /\ UNCHANGED <<account, trip, job, usage>>
    BY DEF BeginAccountDeletion
  <1>2. TypeOK'
    BY <1>1 DEF IInv, TypeOK, TripsOf
  <1>3. (Placed /\ Owned /\ NoJobWithoutParent /\ CountedExactlyOnce)'
    BY <1>1 DEF IInv, Placed, Owned, NoJobWithoutParent, CountedExactlyOnce, Recent
  <1>4. Selected'
    <2>1. deletion'.user = u /\ deletion'.scope = TripsOf(u)
      BY <1>1
    <2>2. \A t \in TripsOf(u) : trip[t].state = "stored" /\ trip[t].owner = u
      BY DEF TripsOf
    <2>3. ASSUME NEW j \in Job, job[j].state \in Stored
          PROVE  /\ job[j].owner = u => job[j].trip \in TripsOf(u)
                 /\ job[j].trip \in TripsOf(u) => job[j].state = "settled"
      <3>1. job[j].trip \in Trip
        BY <2>3 DEF IInv, Placed, Stored
      <3>2. trip[job[j].trip].state = "stored" /\ account[job[j].owner] = "open"
        BY <2>3 DEF IInv, NoJobWithoutParent
      <3>3. trip[job[j].trip].owner = job[j].owner
        BY <2>3, <3>2 DEF IInv, Owned
      <3>4. job[j].trip \in TripsOf(u) => job[j].state # "active"
        BY <1>1 DEF Deletable, ActiveJobsOf, ActiveJobs
      <3> QED  BY <2>3, <3>1, <3>2, <3>3, <3>4 DEF TripsOf, Stored
    <2> QED  BY <1>1, <2>1, <2>2, <2>3 DEF Selected
  <1> QED  BY <1>2, <1>3, <1>4 DEF IInv

LEMMA FinishAccountDeletionKeeps ==
    ASSUME IInv, FinishAccountDeletion
    PROVE  IInv'
  <1> DEFINE u == deletion.user
             S == deletion.scope
  <1>1. /\ ~LockFree
        /\ usage' = [j \in Job |-> Anonymous(u, Retained(S, NoUser, j))]
        /\ job' = JobsErased(S)
        /\ trip' = [t \in Trip |-> IF t \in S THEN [trip[t] EXCEPT !.state = "deleted"]
                                   ELSE Disowned(u, trip[t])]
        /\ account' = [account EXCEPT ![u] = "deleted"]
        /\ deletion' = Idle
    BY DEF FinishAccountDeletion
  <1>2. /\ u \in User /\ account[u] = "open" /\ S \subseteq Trip
        /\ \A t \in S : trip[t].state = "stored" /\ trip[t].owner = u
        /\ \A j \in Job : job[j].state \in Stored =>
              /\ job[j].owner = u => job[j].trip \in S
              /\ job[j].trip \in S => job[j].state = "settled"
    BY <1>1 DEF IInv, Selected, TypeOK
  <1> HIDE DEF u, S
  <1>3. /\ job' \in [Job -> JobRecord]
        /\ \A j \in Job :
             /\ job'[j].trip = job[j].trip
             /\ job'[j].owner = job[j].owner
             /\ job'[j].age = job[j].age
             /\ job'[j].state = IF j \in JobsOfTrips(S) THEN "deleted" ELSE job[j].state
    BY <1>1, ErasedTypes DEF IInv
  <1>4. /\ trip' \in [Trip -> TripRecord]
        /\ \A t \in Trip :
             /\ trip'[t].state = IF t \in S THEN "deleted" ELSE trip[t].state
             /\ t \notin S /\ trip[t].state # "counted" =>
                  trip'[t].owner = IF trip[t].owner = u THEN NoUser ELSE trip[t].owner
    BY <1>1 DEF IInv, TypeOK, TripRecord, Anonymous, Disowned
  <1>5. \A v \in User : account'[v] = IF v = u THEN "deleted" ELSE account[v]
    BY <1>1, <1>2 DEF IInv, TypeOK
  <1>6. \A j \in Job : usage'[j] = Anonymous(u, Retained(S, NoUser, j))
    BY <1>1
  <1>7. TypeOK'
    <2>1. \A j \in Job : usage[j] \in User \cup {NoUser, NoUsage}
      BY DEF IInv, TypeOK
    <2>2. \A j \in Job : Anonymous(u, Retained(S, NoUser, j)) \in User \cup {NoUser, NoUsage}
      BY <2>1, RetainedValue DEF IInv, Anonymous
    <2>3. account' \in [User -> {"open", "deleted"}]
      BY <1>1 DEF IInv, TypeOK
    <2> QED  BY <1>1, <1>3, <1>4, <2>2, <2>3, IdleType DEF IInv, TypeOK
  <1>8. "deleted" \notin Stored /\ "unused" \notin Stored /\ "stamped" \notin Stored
    BY DEF Stored
  <1>9. \A j \in Job : j \in JobsOfTrips(S) <=> job[j].state \in Stored /\ job[j].trip \in S
    BY DEF JobsOfTrips
  <1>10. Placed'
    BY <1>3, <1>4, <1>8, <1>9 DEF IInv, Placed
  <1>11. Owned'
    <2> SUFFICES ASSUME NEW j \in Job, job'[j].state \in {"stamped"} \cup Stored,
                        trip'[job'[j].trip].state = "stored", account'[job'[j].owner] = "open"
                 PROVE  trip'[job'[j].trip].owner = job'[j].owner
      BY DEF Owned
    <2>1. job[j].state \in {"stamped"} \cup Stored
      BY <1>3, <1>8
    <2>2. job[j].trip \in Trip /\ job[j].owner \in User
      BY <1>8, <2>1 DEF IInv, Placed
    <2>3. job[j].owner # u /\ account[job[j].owner] = "open"
      BY <1>3, <1>5, <2>2
    <2>4. job[j].trip \notin S /\ trip[job[j].trip].state = "stored"
      BY <1>3, <1>4, <2>2
    <2>5. trip[job[j].trip].owner = job[j].owner
      BY <2>1, <2>3, <2>4 DEF IInv, Owned
    <2> QED  BY <1>3, <1>4, <2>2, <2>3, <2>4, <2>5
  <1>12. Selected'
    BY <1>1 DEF Selected, LockFree, Idle
  <1>13. NoJobWithoutParent'
    <2> SUFFICES ASSUME NEW j \in Job, job'[j].state \in Stored
                 PROVE  trip'[job'[j].trip].state = "stored" /\ account'[job'[j].owner] = "open"
      BY DEF NoJobWithoutParent
    <2>1. job[j].state \in Stored /\ job[j].trip \notin S
      BY <1>3, <1>8, <1>9
    <2>2. job[j].trip \in Trip /\ job[j].owner \in User /\ job[j].owner # u
      BY <1>2, <1>8, <2>1 DEF IInv, Placed
    <2>3. trip[job[j].trip].state = "stored" /\ account[job[j].owner] = "open"
      BY <2>1 DEF IInv, NoJobWithoutParent
    <2> QED  BY <1>3, <1>4, <1>5, <2>1, <2>2, <2>3
  <1>14. CountedExactlyOnce'
    <2> SUFFICES ASSUME NEW j \in Job
                 PROVE  /\ usage'[j] # NoUsage => job'[j].state = "deleted"
                        /\ j \in Recent' /\ job'[j].state = "deleted" =>
                             usage'[j] = IF account'[job'[j].owner] = "open" THEN job'[j].owner ELSE NoUser
      BY DEF CountedExactlyOnce
    <2>1. NoUser \notin User /\ NoUsage \notin User \cup {NoUser}
      BY AdmissionAssumption
    <2>2. usage'[j] # NoUsage => job'[j].state = "deleted"
      <3>1. Retained(S, NoUser, j) = NoUsage => usage'[j] = NoUsage
        BY <1>2, <1>6, <2>1 DEF Anonymous
      <3> QED  BY <1>3, <3>1, RetainedValue DEF IInv, CountedExactlyOnce
    <2>3. ASSUME j \in Recent', job'[j].state = "deleted"
          PROVE  usage'[j] = IF account'[job[j].owner] = "open" THEN job[j].owner ELSE NoUser
      <3>1. job[j].age < Window
        BY <1>3, <2>3 DEF Recent
      <3>2. job[j].state # "unused"
        BY <1>3, <1>8, <1>9, <2>3
      <3>3. job[j].owner \in User /\ job[j].trip \in Trip
        BY <3>2 DEF IInv, Placed
      <3>4. CASE j \in JobsOfTrips(S)
        <4>1. job[j].state \in Stored /\ job[j].trip \in S
          BY <1>9, <3>4
        <4>2. account[job[j].owner] = "open"
          BY <4>1 DEF IInv, NoJobWithoutParent
        <4>3. job[j].owner = u
          BY <1>2, <4>1, <4>2 DEF IInv, Owned
        <4>4. Retained(S, NoUser, j) = NoUser
          BY <3>1, <3>4, RetainedValue DEF IInv
        <4>5. usage'[j] = NoUser
          BY <1>2, <1>6, <4>4, <2>1 DEF Anonymous
        <4> QED  BY <1>2, <1>5, <4>3, <4>5
      <3>5. CASE j \notin JobsOfTrips(S)
        <4>1. job[j].state = "deleted"
          BY <1>3, <2>3, <3>5
        <4>2. j \in Recent
          BY <3>1, <4>1 DEF Recent, Admitted
        <4>3. usage[j] = IF account[job[j].owner] = "open" THEN job[j].owner ELSE NoUser
          BY <4>1, <4>2 DEF IInv, CountedExactlyOnce
        <4>4. Retained(S, NoUser, j) = usage[j]
          BY <3>1, <3>5, RetainedValue DEF IInv
        <4>5. usage'[j] = IF usage[j] = u THEN NoUser ELSE usage[j]
          BY <1>6, <4>4 DEF Anonymous
        <4>6. CASE job[j].owner = u
          BY <1>2, <1>5, <4>3, <4>5, <4>6
        <4>7. CASE job[j].owner # u
          BY <1>2, <1>5, <2>1, <3>3, <4>3, <4>5, <4>7
        <4> QED  BY <4>6, <4>7
      <3> QED  BY <3>4, <3>5
    <2> QED  BY <1>3, <2>2, <2>3
  <1> QED  BY <1>7, <1>10, <1>11, <1>12, <1>13, <1>14 DEF IInv

LEMMA AbortAccountDeletionKeeps ==
    ASSUME IInv, AbortAccountDeletion
    PROVE  IInv'
  <1>1. TypeOK'
    BY IdleType DEF AbortAccountDeletion, IInv, TypeOK
  <1>2. (Placed /\ Owned /\ NoJobWithoutParent /\ CountedExactlyOnce)'
    BY DEF AbortAccountDeletion, IInv, Placed, Owned, NoJobWithoutParent, CountedExactlyOnce, Recent
  <1>3. Selected'
    BY DEF AbortAccountDeletion, Selected, LockFree, Idle
  <1> QED  BY <1>1, <1>2, <1>3 DEF IInv

-----------------------------------------------------------------------------
(* The invariant is inductive.                                             *)

LEMMA InitInvariant == Init => IInv
  <1> SUFFICES ASSUME Init PROVE IInv
    OBVIOUS
  <1>1. TypeOK
    <2>1. [state |-> "unused", trip |-> NoTrip, owner |-> NoUser, age |-> 0] \in JobRecord
      BY AgeCapType DEF JobRecord
    <2>2. [state |-> "unused", owner |-> NoUser] \in TripRecord
      BY DEF TripRecord
    <2> QED  BY <2>1, <2>2 DEF Init, TypeOK, Idle
  <1>2. Placed /\ Owned /\ NoJobWithoutParent
    BY DEF Init, Placed, Owned, NoJobWithoutParent, Stored
  <1>3. Selected
    BY DEF Init, Selected, LockFree
  <1>4. CountedExactlyOnce
    BY DEF Init, CountedExactlyOnce
  <1> QED  BY <1>1, <1>2, <1>3, <1>4 DEF IInv

LEMMA StepInvariant == IInv /\ [Next]_vars => IInv'
  <1> SUFFICES ASSUME IInv, [Next]_vars PROVE IInv'
    OBVIOUS
  <1>1. CASE UNCHANGED vars
    BY <1>1 DEF vars, IInv, TypeOK, Placed, Owned, Selected, LockFree, NoJobWithoutParent,
                CountedExactlyOnce, Recent
  <1> QED  BY <1>1, CreationKeeps, StampJobKeeps, DeleteTripKeeps, JobStepKeeps,
              BeginAccountDeletionKeeps, FinishAccountDeletionKeeps, AbortAccountDeletionKeeps,
              TickKeeps DEF Next

(* The invariant holds in every state of Admission: types, parents, owners, *)
(* the selection of a running account deletion, and the usage records.     *)
THEOREM AdmissionInvariant == Spec => []IInv
  <1> QED  BY InitInvariant, StepInvariant, PTL DEF Spec

-----------------------------------------------------------------------------
(* Every record of Admission has its type (PostgresJobRepository,          *)
(* data_deletion_service).                                                 *)
THEOREM TypeCorrect == Spec => []TypeOK
  <1>1. IInv => TypeOK  BY DEF IInv
  <1> QED  BY <1>1, AdmissionInvariant, PTL

(* A job row never outlives its trip or its account, however admissions    *)
(* and deletions interleave.                                               *)
THEOREM JobsHaveParents == Spec => []NoJobWithoutParent
  <1>1. IInv => NoJobWithoutParent  BY DEF IInv
  <1> QED  BY <1>1, AdmissionInvariant, PTL

(* Every recent job is counted from exactly one table, for its owner while *)
(* the account exists and for nobody afterwards.                           *)
THEOREM CountedOnce == Spec => []CountedExactlyOnce
  <1>1. IInv => CountedExactlyOnce  BY DEF IInv
  <1> QED  BY <1>1, AdmissionInvariant, PTL

-----------------------------------------------------------------------------
(* The limit on saved trips.                                               *)

Counted(u) == {t \in Trip : trip[t].state = "counted" /\ trip[t].owner = u}

\* one creation of an account at a time is between its count and its insert, and the place it
\* found is still there
TripInv ==
    MaxTrips > 0 => \A u \in User :
        /\ IsFiniteSet(TripsOf(u))
        /\ Cardinality(TripsOf(u)) <= MaxTrips
        /\ \A t, r \in Counted(u) : t = r
        /\ Counted(u) # {} => Cardinality(TripsOf(u)) < MaxTrips

LEMMA FewerTrips ==
    ASSUME TripInv, \A v \in User : TripsOf(v)' \subseteq TripsOf(v) /\ Counted(v)' \subseteq Counted(v)
    PROVE  TripInv'
  <1> SUFFICES ASSUME MaxTrips > 0, NEW v \in User
               PROVE  /\ IsFiniteSet(TripsOf(v)') /\ Cardinality(TripsOf(v)') <= MaxTrips
                      /\ \A t, r \in Counted(v)' : t = r
                      /\ Counted(v)' # {} => Cardinality(TripsOf(v)') < MaxTrips
    BY DEF TripInv
  <1>1. /\ IsFiniteSet(TripsOf(v)) /\ Cardinality(TripsOf(v)) <= MaxTrips
        /\ \A t, r \in Counted(v) : t = r
        /\ Counted(v) # {} => Cardinality(TripsOf(v)) < MaxTrips
    BY DEF TripInv
  <1>2. /\ IsFiniteSet(TripsOf(v)')
        /\ Cardinality(TripsOf(v)') <= Cardinality(TripsOf(v))
    BY <1>1, FS_Subset
  <1>3. Cardinality(TripsOf(v)) \in Nat /\ Cardinality(TripsOf(v)') \in Nat /\ MaxTrips \in Nat
    BY <1>1, <1>2, FS_CardinalityType, AdmissionAssumption
  <1> QED  BY <1>1, <1>2, <1>3

(* The lock: whoever counts finds no other creation of the account between *)
(* its count and its insert.                                               *)
LEMMA CountWithinLimit ==
    ASSUME TypeOK, TripInv, NEW u \in User, NEW t \in Trip, CountTrips(u, t)
    PROVE  TripInv'
  <1>1. \A r \in Trip : trip'[r] = IF r = t THEN [state |-> "counted", owner |-> u] ELSE trip[r]
    BY DEF CountTrips, TypeOK
  <1>2. trip[t].state = "unused" /\ TripPlaceLeft(u) /\ OwnerLockFree(u)
    BY DEF CountTrips
  <1>3. \A v \in User : TripsOf(v)' = TripsOf(v)
    BY <1>1, <1>2 DEF TripsOf
  <1>4. \A v \in User : Counted(v)' = IF v = u THEN Counted(u) \cup {t} ELSE Counted(v)
    BY <1>1, <1>2 DEF Counted
  <1> SUFFICES ASSUME MaxTrips > 0, NEW v \in User
               PROVE  /\ IsFiniteSet(TripsOf(v)') /\ Cardinality(TripsOf(v)') <= MaxTrips
                      /\ \A q, r \in Counted(v)' : q = r
                      /\ Counted(v)' # {} => Cardinality(TripsOf(v)') < MaxTrips
    BY DEF TripInv
  <1>5. Counted(u) = {} /\ Cardinality(TripsOf(u)) < MaxTrips
    BY <1>2 DEF OwnerLockFree, TripPlaceLeft, Counted
  <1> QED  BY <1>3, <1>4, <1>5 DEF TripInv

(* The insert takes the place its creation counted. *)
LEMMA InsertWithinLimit ==
    ASSUME TypeOK, TripInv, NEW t \in Trip, InsertTrip(t)
    PROVE  TripInv'
  <1> PICK u : u = trip[t].owner
    OBVIOUS
  <1>0. trip[t].state = "counted"
    BY DEF InsertTrip
  <1>1. \A r \in Trip : /\ trip'[r].owner = trip[r].owner
                        /\ trip'[r].state = IF r = t THEN "stored" ELSE trip[r].state
    BY DEF InsertTrip, TypeOK, TripRecord
  <1>2. \A v \in User \ {u} : TripsOf(v)' = TripsOf(v) /\ Counted(v)' = Counted(v)
    BY <1>1 DEF TripsOf, Counted
  <1>3. /\ TripsOf(u)' = TripsOf(u) \cup {t} /\ t \notin TripsOf(u)
        /\ Counted(u)' = Counted(u) \ {t} /\ t \in Counted(u)
    BY <1>0, <1>1 DEF TripsOf, Counted
  <1> SUFFICES ASSUME MaxTrips > 0, NEW v \in User
               PROVE  /\ IsFiniteSet(TripsOf(v)') /\ Cardinality(TripsOf(v)') <= MaxTrips
                      /\ \A q, r \in Counted(v)' : q = r
                      /\ Counted(v)' # {} => Cardinality(TripsOf(v)') < MaxTrips
    BY DEF TripInv
  <1>4. CASE v # u
    BY <1>2, <1>4 DEF TripInv
  <1>5. CASE v = u
    <2>1. /\ IsFiniteSet(TripsOf(u)) /\ Cardinality(TripsOf(u)) < MaxTrips
          /\ Counted(u)' = {}
      BY <1>3, <1>5 DEF TripInv
    <2>2. IsFiniteSet(TripsOf(u)') /\ Cardinality(TripsOf(u)') = Cardinality(TripsOf(u)) + 1
      BY <1>3, <2>1, FS_AddElement
    <2>3. Cardinality(TripsOf(u)) \in Nat /\ MaxTrips \in Nat
      BY <2>1, FS_CardinalityType, AdmissionAssumption
    <2>4. Cardinality(TripsOf(u)') <= MaxTrips
      BY <2>1, <2>2, <2>3
    <2> QED  BY <1>5, <2>1, <2>2, <2>4
  <1> QED  BY <1>4, <1>5

LEMMA TripStep == TypeOK /\ TripInv /\ [Next]_vars => TripInv'
  <1> SUFFICES ASSUME TypeOK, TripInv, [Next]_vars PROVE TripInv'
    OBVIOUS
  <1>1. CASE trip' = trip
    <2>1. \A v \in User : TripsOf(v)' = TripsOf(v) /\ Counted(v)' = Counted(v)
      BY <1>1 DEF TripsOf, Counted
    <2> QED  BY <2>1, FewerTrips
  <1>2. ASSUME NEW t \in Trip, (\E u \in User : CountTrips(u, t)) \/ InsertTrip(t) PROVE TripInv'
    BY <1>2, CountWithinLimit, InsertWithinLimit
  <1>3. ASSUME NEW t \in Trip, DropCreation(t) PROVE TripInv'
    <2>1. \A r \in Trip : IF r = t THEN trip'[r].state = "unused" ELSE trip'[r] = trip[r]
      BY <1>3 DEF DropCreation, TypeOK
    <2>2. \A v \in User : TripsOf(v)' \subseteq TripsOf(v) /\ Counted(v)' \subseteq Counted(v)
      BY <2>1 DEF TripsOf, Counted
    <2> QED  BY <2>2, FewerTrips
  <1>4. ASSUME NEW u \in User, NEW t \in Trip, DeleteTrip(u, t) PROVE TripInv'
    <2>1. \A r \in Trip : trip'[r].owner = trip[r].owner /\ (r # t => trip'[r].state = trip[r].state)
                         /\ trip'[t].state = "deleted"
      BY <1>4 DEF DeleteTrip, TypeOK, TripRecord
    <2>2. \A v \in User : TripsOf(v)' \subseteq TripsOf(v) /\ Counted(v)' \subseteq Counted(v)
      BY <2>1 DEF TripsOf, Counted
    <2> QED  BY <2>2, FewerTrips
  <1>5. CASE FinishAccountDeletion
    <2> DEFINE u == deletion.user
               S == deletion.scope
    <2>1. trip' = [t \in Trip |-> IF t \in S THEN [trip[t] EXCEPT !.state = "deleted"]
                                 ELSE Disowned(u, trip[t])]
      BY <1>5 DEF FinishAccountDeletion
    <2> HIDE DEF u, S
    <2>2. \A t \in Trip :
            /\ t \in S => trip'[t].state = "deleted"
            /\ t \notin S => /\ trip'[t].state = trip[t].state
                             /\ trip'[t].owner \in {NoUser, trip[t].owner}
      BY <2>1 DEF TypeOK, TripRecord, Anonymous, Disowned
    <2>3. \A v \in User : TripsOf(v)' \subseteq TripsOf(v) /\ Counted(v)' \subseteq Counted(v)
      <3>1. NoUser \notin User
        BY AdmissionAssumption
      <3>2. ASSUME NEW v \in User, NEW t \in Trip, trip'[t].state \in {"stored", "counted"},
                   trip'[t].owner = v
            PROVE  trip[t].state = trip'[t].state /\ trip[t].owner = v
        BY <2>2, <3>1, <3>2
      <3> QED  BY <3>2 DEF TripsOf, Counted
    <2> QED  BY <2>3, FewerTrips
  <1>6. \/ trip' = trip
        \/ \E t \in Trip : (\E u \in User : CountTrips(u, t)) \/ InsertTrip(t) \/ DropCreation(t)
        \/ \E u \in User, t \in Trip : DeleteTrip(u, t)
        \/ FinishAccountDeletion
    BY DEF Next, vars, StampJob, Admit, RefuseJob, DropRequest, SettleJob, BeginAccountDeletion,
           AbortAccountDeletion, Tick
  <1> QED  BY <1>1, <1>2, <1>3, <1>4, <1>5, <1>6

(* No account ever holds more saved trips than its limit, although every   *)
(* creation counts before it inserts, however creations and deletions      *)
(* interleave (create_within_owner_limit).                                 *)
THEOREM SavedTripsLimited == Spec => []TripsWithinLimit
  <1>1. Init => TripInv
    <2> SUFFICES ASSUME Init PROVE TripInv
      OBVIOUS
    <2>1. \A u \in User : TripsOf(u) = {} /\ Counted(u) = {}
      BY DEF Init, TripsOf, Counted
    <2> QED  BY <2>1, FS_EmptySet, AdmissionAssumption DEF TripInv
  <1>2. TripInv => TripsWithinLimit
    BY DEF TripInv, TripsWithinLimit
  <1> QED  BY <1>1, <1>2, TripStep, TypeCorrect, PTL DEF Spec

-----------------------------------------------------------------------------
(* The limits on the jobs of a window.                                     *)

AdmittedJobs == {j \in Job : job[j].state \in Admitted}

RecentOf(u) == {j \in Recent : job[j].owner = u}

\* finitely many jobs were admitted so far, so that the counts mean something for every set of jobs
WindowInv == IsFiniteSet(AdmittedJobs) /\ WindowLimitsHold

LEMMA RecentFinite ==
    ASSUME IsFiniteSet(AdmittedJobs)
    PROVE  /\ IsFiniteSet(Recent) /\ Cardinality(Recent) \in Nat
           /\ \A u \in User : IsFiniteSet(RecentOf(u)) /\ Cardinality(RecentOf(u)) \in Nat
  <1>1. Recent \subseteq AdmittedJobs /\ \A u \in User : RecentOf(u) \subseteq AdmittedJobs
    BY DEF Recent, AdmittedJobs, RecentOf
  <1> QED  BY <1>1, FS_Subset, FS_CardinalityType

(* A step after which no job is newly recent keeps the limits. *)
LEMMA NothingNewlyRecent ==
    ASSUME WindowInv, AdmittedJobs' \subseteq AdmittedJobs, Recent' \subseteq Recent,
           \A j \in Recent' : job'[j].owner = job[j].owner
    PROVE  WindowInv'
  <1>1. IsFiniteSet(AdmittedJobs')
    BY FS_Subset DEF WindowInv
  <1>2. \A u \in User : RecentOf(u)' \subseteq RecentOf(u)
    BY DEF RecentOf
  <1>3. Cardinality(Recent') \in Nat /\ Cardinality(Recent') <= Cardinality(Recent)
    BY <1>1, RecentFinite, FS_Subset, FS_CardinalityType DEF WindowInv
  <1>4. \A u \in User : /\ Cardinality(RecentOf(u)') \in Nat
                        /\ Cardinality(RecentOf(u)') <= Cardinality(RecentOf(u))
    BY <1>2, RecentFinite, FS_Subset, FS_CardinalityType DEF WindowInv
  <1>5. /\ Cardinality(Recent) \in Nat
        /\ \A u \in User : Cardinality(RecentOf(u)) \in Nat
        /\ GlobalLimit \in Nat /\ UserLimit \in Nat
    BY RecentFinite, AdmissionAssumption DEF WindowInv
  <1>6. GlobalLimit > 0 => Cardinality(Recent') <= GlobalLimit
    BY <1>3, <1>5 DEF WindowInv, WindowLimitsHold
  <1>7. UserLimit > 0 => \A u \in User : Cardinality(RecentOf(u)') <= UserLimit
    <2>1. UserLimit > 0 => \A u \in User : Cardinality(RecentOf(u)) <= UserLimit
      BY DEF WindowInv, WindowLimitsHold, RecentOf
    <2> QED  BY <1>4, <1>5, <2>1
  <1> QED  BY <1>1, <1>6, <1>7 DEF WindowInv, WindowLimitsHold, RecentOf

(* A set covered by two finite sets has at most their sizes together. *)
LEMMA CoveredByTwo ==
    ASSUME NEW A, NEW B, NEW C, IsFiniteSet(B), IsFiniteSet(C), A \subseteq B \cup C
    PROVE  /\ Cardinality(A) \in Nat /\ Cardinality(B) \in Nat /\ Cardinality(C) \in Nat
           /\ Cardinality(A) <= Cardinality(B) + Cardinality(C)
  <1>1. /\ IsFiniteSet(B \cup C)
        /\ Cardinality(B \cup C) = Cardinality(B) + Cardinality(C) - Cardinality(B \cap C)
    BY FS_Union
  <1>2. IsFiniteSet(A) /\ Cardinality(A) <= Cardinality(B \cup C)
    BY <1>1, FS_Subset
  <1>3. IsFiniteSet(B \cap C)
    BY FS_Intersection
  <1>4. /\ Cardinality(A) \in Nat /\ Cardinality(B) \in Nat /\ Cardinality(C) \in Nat
        /\ Cardinality(B \cap C) \in Nat /\ Cardinality(B \cup C) \in Nat
    BY <1>1, <1>2, <1>3, FS_CardinalityType
  <1> QED  BY <1>1, <1>2, <1>4

(* What admit counts covers every recent job, and every recent job of an   *)
(* open account: the rows and the usage records of deleted rows together.  *)
LEMMA CountsCoverRecent ==
    ASSUME IInv, NEW j \in Job
    PROVE  /\ Recent \subseteq JobsCounted(j) \cup UsageCounted(j)
           /\ job[j].owner \in User /\ account[job[j].owner] = "open" =>
                RecentOf(job[j].owner)
                  \subseteq {k \in JobsCounted(j) : job[k].owner = job[j].owner}
                            \cup {k \in UsageCounted(j) : usage[k] = job[j].owner}
           /\ JobsCounted(j) \subseteq AdmittedJobs /\ UsageCounted(j) \subseteq AdmittedJobs
  <1>1. \A k \in Recent : InWindowOf(k, j)
    <2>1. Window \in Nat /\ \A k \in Job : job[k].age \in Nat
      BY AdmissionAssumption, AgeCapType DEF IInv, TypeOK, JobRecord
    <2> QED  BY <2>1 DEF Recent, InWindowOf
  <1>2. \A k \in Recent : k \in Job /\ (job[k].state \in Stored \/ job[k].state = "deleted")
    BY DEF Recent, Admitted
  <1>3. NoUser # NoUsage /\ NoUsage \notin User
    BY AdmissionAssumption
  <1>4. \A k \in Recent : job[k].state = "deleted" =>
           /\ usage[k] # NoUsage
           /\ account[job[k].owner] = "open" => usage[k] = job[k].owner
    <2> SUFFICES ASSUME NEW k \in Recent, job[k].state = "deleted"
                 PROVE  /\ usage[k] # NoUsage
                        /\ account[job[k].owner] = "open" => usage[k] = job[k].owner
      OBVIOUS
    <2>1. job[k].owner \in User
      BY <1>2 DEF IInv, Placed
    <2>2. usage[k] = IF account[job[k].owner] = "open" THEN job[k].owner ELSE NoUser
      BY <1>2 DEF IInv, CountedExactlyOnce
    <2> QED  BY <1>3, <2>1, <2>2
  <1>5. Recent \subseteq JobsCounted(j) \cup UsageCounted(j)
    BY <1>1, <1>2, <1>4 DEF JobsCounted, UsageCounted
  <1>6. job[j].owner \in User /\ account[job[j].owner] = "open" =>
          RecentOf(job[j].owner)
            \subseteq {k \in JobsCounted(j) : job[k].owner = job[j].owner}
                      \cup {k \in UsageCounted(j) : usage[k] = job[j].owner}
    BY <1>1, <1>2, <1>4 DEF JobsCounted, UsageCounted, RecentOf
  <1>7. JobsCounted(j) \subseteq AdmittedJobs /\ UsageCounted(j) \subseteq AdmittedJobs
    BY DEF JobsCounted, UsageCounted, AdmittedJobs, Admitted, IInv, CountedExactlyOnce
  <1> QED  BY <1>5, <1>6, <1>7

LEMMA AdmitWithinWindow ==
    ASSUME IInv, WindowInv, NEW j \in Job, Admit(j)
    PROVE  WindowInv'
  <1> DEFINE u == job[j].owner
  <1>1. \A k \in Job : /\ job'[k].owner = job[k].owner /\ job'[k].age = job[k].age
                       /\ job'[k].state = IF k = j THEN "active" ELSE job[k].state
    BY StateSetTypes DEF Admit, StateSet, IInv, Admitted, Stored
  <1>2. u \in User /\ account[u] = "open" /\ ~Refusal(j)
    BY DEF Admit, ParentExists, IInv, Placed
  <1>3. AdmittedJobs' \subseteq AdmittedJobs \cup {j} /\ Recent' \subseteq Recent \cup {j}
    BY <1>1 DEF AdmittedJobs, Recent
  <1>4. \A v \in User : RecentOf(v)' \subseteq IF v = u THEN RecentOf(v) \cup {j} ELSE RecentOf(v)
    BY <1>1, <1>3 DEF RecentOf, Recent
  <1>5. IsFiniteSet(AdmittedJobs) /\ IsFiniteSet(AdmittedJobs')
    <2>1. IsFiniteSet(AdmittedJobs) /\ IsFiniteSet(AdmittedJobs \cup {j})
      BY FS_AddElement DEF WindowInv
    <2> QED  BY <1>3, <2>1, FS_Subset
  <1>6. /\ IsFiniteSet(JobsCounted(j)) /\ IsFiniteSet(UsageCounted(j))
        /\ IsFiniteSet({k \in JobsCounted(j) : job[k].owner = u})
        /\ IsFiniteSet({k \in UsageCounted(j) : usage[k] = u})
    <2>1. JobsCounted(j) \subseteq AdmittedJobs /\ UsageCounted(j) \subseteq AdmittedJobs
      BY CountsCoverRecent
    <2> QED  BY <1>5, <2>1, FS_Subset
  <1>7. Cardinality(Recent) \in Nat /\ Cardinality(Recent) <= GlobalCount(j) /\ GlobalCount(j) \in Nat
    BY <1>6, CountsCoverRecent, CoveredByTwo DEF GlobalCount
  <1>8. Cardinality(RecentOf(u)) \in Nat /\ Cardinality(RecentOf(u)) <= UserCount(j) /\ UserCount(j) \in Nat
    BY <1>2, <1>6, CountsCoverRecent, CoveredByTwo DEF UserCount
  <1>9. GlobalLimit \in Nat /\ UserLimit \in Nat
    BY AdmissionAssumption
  <1>10. ASSUME NEW A, NEW B, IsFiniteSet(B), A \subseteq B \cup {j}
         PROVE  Cardinality(A) \in Nat /\ Cardinality(A) <= Cardinality(B) + 1
    <2>1. IsFiniteSet({j}) /\ Cardinality({j}) = 1
      BY FS_Singleton
    <2> QED  BY <1>10, <2>1, CoveredByTwo
  <1>11. GlobalLimit > 0 => Cardinality(Recent') <= GlobalLimit
    <2>1. Cardinality(Recent') \in Nat /\ Cardinality(Recent') <= Cardinality(Recent) + 1
      BY <1>3, <1>5, <1>10, RecentFinite
    <2>2. GlobalLimit > 0 => GlobalCount(j) < GlobalLimit
      BY <1>2, <1>7, <1>9 DEF Refusal
    <2> QED  BY <1>7, <1>9, <2>1, <2>2
  <1>12. ASSUME UserLimit > 0, NEW v \in User PROVE Cardinality(RecentOf(v)') <= UserLimit
    <2>1. Cardinality(RecentOf(v)) <= UserLimit
      BY <1>12 DEF WindowInv, WindowLimitsHold, RecentOf
    <2>2. IsFiniteSet(RecentOf(v)) /\ Cardinality(RecentOf(v)) \in Nat
      BY <1>5, RecentFinite
    <2>3. CASE v = u
      <3>1. Cardinality(RecentOf(v)') \in Nat /\ Cardinality(RecentOf(v)') <= Cardinality(RecentOf(v)) + 1
        BY <1>4, <1>10, <2>2, <2>3
      <3>2. UserCount(j) < UserLimit
        BY <1>2, <1>8, <1>9, <1>12 DEF Refusal
      <3> QED  BY <1>8, <1>9, <2>3, <3>1, <3>2
    <2>4. CASE v # u
      <3>1. RecentOf(v)' \subseteq RecentOf(v)
        BY <1>4, <2>4
      <3>2. IsFiniteSet(RecentOf(v)') /\ Cardinality(RecentOf(v)') <= Cardinality(RecentOf(v))
        BY <2>2, <3>1, FS_Subset
      <3>3. Cardinality(RecentOf(v)') \in Nat
        BY <3>2, FS_CardinalityType
      <3> QED  BY <1>9, <2>1, <2>2, <3>2, <3>3
    <2> QED  BY <2>3, <2>4
  <1> QED  BY <1>5, <1>11, <1>12 DEF WindowInv, WindowLimitsHold, RecentOf

\* an admitted job was admitted before, of the same owner and no older than now
NothingGained ==
    \A k \in Job : job'[k].state \in Admitted =>
        /\ job[k].state \in Admitted
        /\ job[k].owner = job'[k].owner
        /\ job[k].age <= job'[k].age

(* Nobody becomes admitted, recent or another owner's but by an admission. *)
LEMMA NewlyRecentIsAdmission ==
    ASSUME IInv, [Next]_vars, ~\E j \in Job : Admit(j)
    PROVE  /\ AdmittedJobs' \subseteq AdmittedJobs /\ Recent' \subseteq Recent
           /\ \A j \in Recent' : job'[j].owner = job[j].owner
  <1> SUFFICES NothingGained
    <2>1. \A k \in Job : job[k].age \in Int /\ job'[k].age \in Int
      BY StepInvariant, AgeCapType DEF IInv, TypeOK, JobRecord
    <2>2. Window \in Nat
      BY AdmissionAssumption
    <2> QED  BY <2>1, <2>2 DEF NothingGained, AdmittedJobs, Recent
  <1>1. \A k \in Job : job[k].age \in Int
    BY AgeCapType DEF IInv, TypeOK, JobRecord
  <1>2. CASE job' = job
    BY <1>1, <1>2 DEF NothingGained
  <1>3. ASSUME NEW S, job' = JobsErased(S) PROVE NothingGained
    <2>1. \A k \in Job : k \in JobsOfTrips(S) => job[k].state \in Admitted
      BY DEF JobsOfTrips, Admitted
    <2> QED  BY <1>1, <1>3, <2>1, ErasedTypes DEF IInv, NothingGained
  <1>4. ASSUME NEW u \in User, NEW t \in Trip, NEW j \in Job, StampJob(u, t, j)
        PROVE  NothingGained
    BY <1>1, <1>4 DEF StampJob, IInv, TypeOK, Admitted, Stored, NothingGained
  <1>5. ASSUME NEW j \in Job, RefuseJob(j) \/ DropRequest(j) \/ SettleJob(j)
        PROVE  NothingGained
    <2>1. CASE RefuseJob(j) \/ DropRequest(j)
      <3>1. StateSet(j, "refused") /\ "refused" \notin Admitted
        BY <2>1 DEF RefuseJob, DropRequest, StateSet, Admitted, Stored
      <3> QED  BY <1>1, <3>1, StateSetTypes DEF IInv, NothingGained
    <2>2. CASE SettleJob(j)
      <3>1. StateSet(j, "settled") /\ "settled" \in Admitted /\ job[j].state \in Admitted
        BY <2>2 DEF SettleJob, StateSet, Admitted, Stored
      <3> QED  BY <1>1, <3>1, StateSetTypes DEF IInv, NothingGained
    <2> QED  BY <1>5, <2>1, <2>2
  <1>6. CASE Tick
    <2>1. \A k \in Job : /\ job'[k].state = job[k].state /\ job'[k].owner = job[k].owner
                         /\ job[k].age <= job'[k].age
      BY <1>1, <1>6, OlderType DEF Tick, IInv, TypeOK
    <2> QED  BY <2>1 DEF NothingGained
  <1>7. ASSUME NEW t \in Trip,
               \/ \E u \in User : CountTrips(u, t) \/ DeleteTrip(u, t)
               \/ InsertTrip(t) \/ DropCreation(t)
        PROVE  job' = job \/ job' = JobsErased({t})
    BY <1>7 DEF CountTrips, InsertTrip, DropCreation, DeleteTrip
  <1>8. FinishAccountDeletion => job' = JobsErased(deletion.scope)
    BY DEF FinishAccountDeletion
  <1>9. (\E u \in User : BeginAccountDeletion(u)) \/ AbortAccountDeletion \/ UNCHANGED vars
         => job' = job
    BY DEF BeginAccountDeletion, AbortAccountDeletion, vars
  <1> QED  BY <1>2, <1>3, <1>4, <1>5, <1>6, <1>7, <1>8, <1>9 DEF Next

(* However admissions, delays and deletions interleave, no window holds    *)
(* more admitted jobs than the deployment and each account may have:       *)
(* deleting a trip or an account hands back no allowance (admit,           *)
(* deleted_job_usage).                                                     *)
THEOREM WindowLimits == Spec => []WindowLimitsHold
  <1>1. Init => WindowInv
    <2> SUFFICES ASSUME Init PROVE WindowInv
      OBVIOUS
    <2>1. AdmittedJobs = {} /\ Recent = {} /\ \A u \in User : {j \in Recent : job[j].owner = u} = {}
      BY DEF Init, AdmittedJobs, Recent, Admitted, Stored
    <2> QED  BY <2>1, FS_EmptySet, AdmissionAssumption DEF WindowInv, WindowLimitsHold
  <1>2. IInv /\ WindowInv /\ [Next]_vars => WindowInv'
    <2> SUFFICES ASSUME IInv, WindowInv, [Next]_vars PROVE WindowInv'
      OBVIOUS
    <2>1. CASE \E j \in Job : Admit(j)
      BY <2>1, AdmitWithinWindow
    <2>2. CASE ~\E j \in Job : Admit(j)
      BY <2>2, NewlyRecentIsAdmission, NothingNewlyRecent
    <2> QED  BY <2>1, <2>2
  <1>3. WindowInv => WindowLimitsHold
    BY DEF WindowInv
  <1> QED  BY <1>1, <1>2, <1>3, AdmissionInvariant, PTL DEF Spec

-----------------------------------------------------------------------------
(* Trips without an owner.                                                 *)

\* no trip of an account is inserted between the two steps of the account's deletion
NoCreationDuringDeletion ==
    \A t \in Trip : trip[t].state # "stored" /\ trip'[t].state = "stored" =>
        trip'[t].owner # deletion.user

\* a deletion that holds the lock has selected every trip of its account
AllSelected == ~LockFree => TripsOf(deletion.user) \subseteq deletion.scope

\* a creation that has counted belongs to a user
Creators == \A t \in Trip : trip[t].state = "counted" => trip[t].owner \in User

OwnerInv == NoOwnerlessTrip /\ AllSelected /\ Creators

LEMMA CreationKeepsOwners ==
    ASSUME IInv, OwnerInv, NoCreationDuringDeletion, NEW t \in Trip,
           (\E u \in User : CountTrips(u, t)) \/ InsertTrip(t) \/ DropCreation(t)
    PROVE  OwnerInv'
  <1>1. /\ \A r \in Trip : r # t => trip'[r] = trip[r]
        /\ trip[t].state \in {"unused", "counted"}
        /\ account' = account /\ deletion' = deletion
    BY DEF CountTrips, InsertTrip, DropCreation, IInv, TypeOK
  <1>2. trip'[t].state = "stored" => /\ trip'[t].owner \in User /\ account[trip'[t].owner] = "open"
                                     /\ trip'[t].owner # deletion.user
    <2>1. CASE InsertTrip(t)
      <3>1. trip'[t].owner = trip[t].owner /\ account[trip[t].owner] = "open"
        BY <2>1 DEF InsertTrip, IInv, TypeOK, TripRecord
      <3>2. trip[t].owner \in User /\ trip[t].state # "stored"
        BY <1>1, <2>1 DEF InsertTrip, OwnerInv, Creators
      <3> QED  BY <3>1, <3>2 DEF NoCreationDuringDeletion
    <2>2. CASE (\E u \in User : CountTrips(u, t)) \/ DropCreation(t)
      BY <2>2 DEF CountTrips, DropCreation, IInv, TypeOK
    <2> QED  BY <2>1, <2>2
  <1>3. NoOwnerlessTrip'
    BY <1>1, <1>2 DEF OwnerInv, NoOwnerlessTrip
  <1>4. TripsOf(deletion.user)' \subseteq TripsOf(deletion.user)
    BY <1>1, <1>2 DEF TripsOf
  <1>5. Creators'
    <2>1. trip'[t].state = "counted" => trip'[t].owner \in User
      BY DEF CountTrips, InsertTrip, DropCreation, IInv, TypeOK, TripRecord
    <2> QED  BY <1>1, <2>1 DEF OwnerInv, Creators
  <1> QED  BY <1>1, <1>3, <1>4, <1>5 DEF OwnerInv, AllSelected, LockFree, Idle

LEMMA FinishKeepsOwners ==
    ASSUME IInv, OwnerInv, FinishAccountDeletion
    PROVE  OwnerInv'
  <1> DEFINE u == deletion.user
             S == deletion.scope
  <1>1. /\ ~LockFree
        /\ trip' = [t \in Trip |-> IF t \in S THEN [trip[t] EXCEPT !.state = "deleted"]
                                   ELSE Disowned(u, trip[t])]
        /\ account' = [account EXCEPT ![u] = "deleted"]
        /\ LockFree'
    BY DEF FinishAccountDeletion, LockFree, Idle
  <1>2. u \in User /\ TripsOf(u) \subseteq S
    BY <1>1 DEF IInv, Selected, OwnerInv, AllSelected
  <1> HIDE DEF u, S
  <1>3. \A t \in Trip :
          /\ t \in S => trip'[t].state = "deleted"
          /\ t \notin S => trip'[t].state = trip[t].state
          /\ t \notin S /\ trip[t].state = "stored" =>
               trip'[t].owner = IF trip[t].owner = u THEN NoUser ELSE trip[t].owner
    BY <1>1 DEF IInv, TypeOK, TripRecord, Anonymous, Disowned
  <1>4. \A v \in User : account'[v] = IF v = u THEN "deleted" ELSE account[v]
    BY <1>1, <1>2 DEF IInv, TypeOK
  <1>5. ASSUME NEW t \in Trip, trip'[t].state = "stored"
        PROVE  trip'[t].owner \in User /\ account'[trip'[t].owner] = "open"
    <2>1. t \notin S /\ trip[t].state = "stored"
      BY <1>3, <1>5
    <2>2. trip[t].owner # u
      BY <1>2, <2>1 DEF TripsOf
    <2>3. trip[t].owner \in User /\ account[trip[t].owner] = "open"
      BY <2>1 DEF OwnerInv, NoOwnerlessTrip
    <2> QED  BY <1>3, <1>4, <2>1, <2>2, <2>3
  <1>6. NoOwnerlessTrip'
    BY <1>5 DEF NoOwnerlessTrip
  <1>7. Creators'
    <2> SUFFICES ASSUME NEW t \in Trip, trip'[t].state = "counted"
                 PROVE  trip'[t].owner \in User
      BY DEF Creators
    <2>1. t \notin S /\ trip[t].state = "counted"
      BY <1>3
    <2> QED  BY <1>1, <2>1 DEF Disowned, OwnerInv, Creators
  <1> QED  BY <1>1, <1>6, <1>7 DEF OwnerInv, AllSelected

LEMMA OwnerStep == IInv /\ OwnerInv /\ NoCreationDuringDeletion /\ [Next]_vars => OwnerInv'
  <1> SUFFICES ASSUME IInv, OwnerInv, NoCreationDuringDeletion, [Next]_vars PROVE OwnerInv'
    OBVIOUS
  <1>1. CASE UNCHANGED <<account, trip, deletion>>
    BY <1>1 DEF OwnerInv, NoOwnerlessTrip, AllSelected, Creators, LockFree, TripsOf, Idle
  <1>2. ASSUME NEW u \in User, NEW t \in Trip, DeleteTrip(u, t) PROVE OwnerInv'
    <2>1. \A r \in Trip : trip'[r].owner = trip[r].owner /\ (r # t => trip'[r].state = trip[r].state)
                          /\ trip'[t].state = "deleted"
      BY <1>2 DEF DeleteTrip, IInv, TypeOK, TripRecord
    <2>2. account' = account /\ LockFree /\ LockFree'
      BY <1>2 DEF DeleteTrip, LockFree, Idle
    <2> QED  BY <2>1, <2>2 DEF OwnerInv, NoOwnerlessTrip, AllSelected, Creators
  <1>3. ASSUME NEW u \in User, BeginAccountDeletion(u) PROVE OwnerInv'
    <2>1. deletion'.user = u /\ deletion'.scope = TripsOf(u) /\ account' = account /\ trip' = trip
      BY <1>3 DEF BeginAccountDeletion
    <2> QED  BY <2>1 DEF OwnerInv, NoOwnerlessTrip, AllSelected, Creators, TripsOf
  <1>4. CASE AbortAccountDeletion
    BY <1>4 DEF AbortAccountDeletion, OwnerInv, NoOwnerlessTrip, AllSelected, Creators, LockFree, Idle
  <1>5. UNCHANGED <<account, trip, deletion>>
          \/ (\E t \in Trip : (\E u \in User : CountTrips(u, t)) \/ InsertTrip(t) \/ DropCreation(t))
          \/ (\E u \in User, t \in Trip : DeleteTrip(u, t))
          \/ (\E u \in User : BeginAccountDeletion(u))
          \/ FinishAccountDeletion \/ AbortAccountDeletion
    BY DEF Next, vars, StampJob, Admit, RefuseJob, DropRequest, SettleJob, Tick
  <1> QED  BY <1>1, <1>2, <1>3, <1>4, <1>5, CreationKeepsOwners, FinishKeepsOwners

(* The one way to a trip without an owner: if no trip of an account is     *)
(* created between the two steps of the account's deletion, as when        *)
(* create_within_owner_limit took the deletion's lock, nothing owned by a  *)
(* deleted account is left (the leftover check of _delete_postgres).       *)
THEOREM OrphansAreCreatedDuringDeletion ==
    Spec /\ [][NoCreationDuringDeletion]_vars => []NoOwnerlessTrip
  <1>1. Init => OwnerInv
    BY DEF Init, OwnerInv, NoOwnerlessTrip, AllSelected, Creators, LockFree
  <1>2. IInv /\ OwnerInv /\ UNCHANGED vars => OwnerInv'
    BY DEF vars, OwnerInv, NoOwnerlessTrip, AllSelected, Creators, LockFree, TripsOf, Idle
  <1>3. IInv /\ OwnerInv /\ [Next]_vars /\ [NoCreationDuringDeletion]_vars => OwnerInv'
    BY <1>2, OwnerStep
  <1>4. OwnerInv => NoOwnerlessTrip
    BY DEF OwnerInv
  <1> QED  BY <1>1, <1>3, <1>4, AdmissionInvariant, PTL DEF Spec

-----------------------------------------------------------------------------
(* JobLifecycle is implemented.                                            *)

StatusOf(r) == CASE r.state = "active" -> "queued"
                 [] r.state = "settled" -> "failed"
                 [] r.state = "deleted" -> "deleted"
                 [] OTHER -> "absent"
TripAt(r) == IF r.state \in Admitted THEN r.trip ELSE NoTrip

LifecycleStep ==
    \/ Lifecycle!Next
    \/ UNCHANGED <<[j \in Job |-> StatusOf(job[j])], [j \in Job |-> TripAt(job[j])]>>

LEMMA StatusValues ==
    /\ \A r : r.state = "active" => StatusOf(r) = "queued"
    /\ \A r : r.state = "settled" => StatusOf(r) = "failed"
    /\ \A r : r.state = "deleted" => StatusOf(r) = "deleted"
    /\ \A r : r.state \notin Admitted => StatusOf(r) = "absent"
  BY DEF StatusOf, Admitted, Stored

(* A step that maps to nothing: no job's state or trip is seen to change. *)
LEMMA SilentStep ==
    ASSUME \A j \in Job : StatusOf(job'[j]) = StatusOf(job[j]) /\ TripAt(job'[j]) = TripAt(job[j])
    PROVE  LifecycleStep
  BY DEF LifecycleStep

LEMMA AdmitRefines ==
    ASSUME IInv, NEW j \in Job, Admit(j)
    PROVE  LifecycleStep
  <1>0. PICK t \in Trip : t = job[j].trip
    BY DEF Admit, IInv, Placed
  <1>1. /\ job[j].state = "stamped"
        /\ \A k \in Job : job[k].trip = t => job[k].state # "active"
    BY <1>0 DEF Admit, TripBusy, ActiveJobsOf, ActiveJobs, IInv, Placed
  <1>2. \A k \in Job : k # j => job'[k] = job[k]
    BY DEF Admit, IInv, TypeOK
  <1>3. job'[j].state = "active" /\ job'[j].trip = t
    <2>1. StateSet(j, "active") /\ "active" \in Admitted
      BY DEF Admit, StateSet, Admitted, Stored
    <2> QED  BY <1>0, <2>1, StateSetTypes DEF IInv
  <1>4. StatusOf(job[j]) = "absent" /\ StatusOf(job'[j]) = "queued" /\ TripAt(job'[j]) = t
    BY <1>1, <1>3, StatusValues DEF TripAt, Admitted, Stored
  <1>5. \A k \in Job : TripAt(job[k]) = t => StatusOf(job[k]) \notin {"queued", "running"}
    <2>1. t # NoTrip
      BY <1>1, AdmissionAssumption
    <2> QED  BY <1>1, <2>1 DEF TripAt, StatusOf
  <1>6. Lifecycle!Enqueue(j, t)
    <2>1. [k \in Job |-> StatusOf(job[k])]' = [[k \in Job |-> StatusOf(job[k])] EXCEPT ![j] = "queued"]
      BY <1>2, <1>4
    <2>2. [k \in Job |-> TripAt(job[k])]' = [[k \in Job |-> TripAt(job[k])] EXCEPT ![j] = t]
      BY <1>2, <1>4
    <2> QED  BY <1>4, <1>5, <2>1, <2>2 DEF Lifecycle!Enqueue, Lifecycle!Active, StatusOf, TripAt
  <1> QED  BY <1>1, <1>6 DEF LifecycleStep, Lifecycle!Next

LEMMA SettleRefines ==
    ASSUME IInv, NEW j \in Job, SettleJob(j)
    PROVE  LifecycleStep
  <1>1. \A k \in Job : k # j => job'[k] = job[k]
    BY DEF SettleJob, IInv, TypeOK
  <1>2. job[j].state = "active" /\ job'[j].state = "settled" /\ job'[j].trip = job[j].trip
    <2>1. StateSet(j, "settled") /\ "settled" \in Admitted
      BY DEF SettleJob, StateSet, Admitted, Stored
    <2> QED  BY <2>1, StateSetTypes DEF IInv, SettleJob
  <1>3. StatusOf(job[j]) = "queued" /\ StatusOf(job'[j]) = "failed" /\ TripAt(job'[j]) = TripAt(job[j])
    BY <1>2, StatusValues DEF TripAt, Admitted, Stored
  <1>4. Lifecycle!Settle({j}, "failed")
    <2>1. [k \in Job |-> StatusOf(job[k])]'
            = [k \in Job |-> IF k \in {j} THEN "failed" ELSE [l \in Job |-> StatusOf(job[l])][k]]
      BY <1>1, <1>3
    <2>2. [k \in Job |-> TripAt(job[k])]' = [k \in Job |-> TripAt(job[k])]
      BY <1>1, <1>3
    <2> QED  BY <1>3, <2>1, <2>2 DEF Lifecycle!Settle, Lifecycle!Active, StatusOf, TripAt
  <1>5. {j} \in SUBSET Job /\ "failed" \in Lifecycle!Terminal
    BY DEF Lifecycle!Terminal
  <1> QED  BY <1>4, <1>5 DEF LifecycleStep, Lifecycle!Next

(* Deleting trips without an active job erases settled jobs only. *)
LEMMA EraseRefines ==
    ASSUME IInv, NEW S, job' = JobsErased(S), \A j \in JobsOfTrips(S) : job[j].state = "settled"
    PROVE  LifecycleStep
  <1>1. PICK E \in SUBSET Job : E = JobsOfTrips(S)
    BY DEF JobsOfTrips
  <1>2. /\ \A j \in E : /\ job[j].state = "settled" /\ job'[j].state = "deleted"
                        /\ job'[j].trip = job[j].trip
        /\ \A j \in Job : j \notin E => job'[j] = job[j]
    BY <1>1, ErasedTypes DEF IInv, JobsErased
  <1>3. \A j \in E : /\ StatusOf(job[j]) = "failed" /\ StatusOf(job'[j]) = "deleted"
                     /\ TripAt(job'[j]) = TripAt(job[j])
    BY <1>1, <1>2, StatusValues DEF TripAt, Admitted, Stored
  <1>4. Lifecycle!Erase(E)
    <2>1. [k \in Job |-> StatusOf(job[k])]'
            = [k \in Job |-> IF k \in E THEN "deleted" ELSE [l \in Job |-> StatusOf(job[l])][k]]
      BY <1>2, <1>3
    <2>2. [k \in Job |-> TripAt(job[k])]' = [k \in Job |-> TripAt(job[k])]
      BY <1>2, <1>3
    <2> QED  BY <1>1, <1>3, <2>1, <2>2 DEF Lifecycle!Erase, Lifecycle!Terminal, StatusOf, TripAt
  <1> QED  BY <1>1, <1>4 DEF LifecycleStep, Lifecycle!Next

(* Admission and deletion implement the job lifecycle: a job is admitted   *)
(* beside settled ones only, settles once, and only settled jobs are       *)
(* erased, whatever the two deletions overlap with.                        *)
THEOREM ImplementsLifecycle == Spec => LifecycleSpec
  <1>1. Init => Lifecycle!Init
    BY DEF Init, Lifecycle!Init, Admitted, Stored
  <1>2. ASSUME IInv, [Next]_vars PROVE LifecycleStep
    <2> USE <1>2
    <2>1. ASSUME NEW t \in Trip,
                 (\E u \in User : CountTrips(u, t)) \/ InsertTrip(t) \/ DropCreation(t)
          PROVE  LifecycleStep
      BY <2>1, SilentStep DEF CountTrips, InsertTrip, DropCreation
    <2>2. ASSUME NEW u \in User, NEW t \in Trip, NEW j \in Job, StampJob(u, t, j) PROVE LifecycleStep
      <3>1. \A k \in Job : k # j => job'[k] = job[k]
        BY <2>2 DEF StampJob, IInv, TypeOK
      <3>2. job[j].state \notin Admitted /\ job'[j].state \notin Admitted
        BY <2>2 DEF StampJob, IInv, TypeOK, Admitted, Stored
      <3>3. /\ StatusOf(job[j]) = "absent" /\ StatusOf(job'[j]) = "absent"
            /\ TripAt(job[j]) = NoTrip /\ TripAt(job'[j]) = NoTrip
        BY <3>2, StatusValues DEF TripAt
      <3> QED  BY <3>1, <3>3, SilentStep
    <2>3. ASSUME NEW u \in User, NEW t \in Trip, DeleteTrip(u, t) PROVE LifecycleStep
      <3>1. \A j \in JobsOfTrips({t}) : job[j].state = "settled"
        BY <2>3 DEF DeleteTrip, Deletable, ActiveJobsOf, ActiveJobs, JobsOfTrips, Stored
      <3> QED  BY <2>3, <3>1, EraseRefines DEF DeleteTrip
    <2>4. ASSUME NEW j \in Job, RefuseJob(j) \/ DropRequest(j) PROVE LifecycleStep
      <3>1. \A k \in Job : k # j => job'[k] = job[k]
        BY <2>4 DEF RefuseJob, DropRequest, IInv, TypeOK
      <3>2. job[j].state \notin Admitted /\ job'[j].state \notin Admitted
        BY <2>4 DEF RefuseJob, DropRequest, IInv, TypeOK, JobRecord, Admitted, Stored
      <3>3. /\ StatusOf(job[j]) = "absent" /\ StatusOf(job'[j]) = "absent"
            /\ TripAt(job[j]) = NoTrip /\ TripAt(job'[j]) = NoTrip
        BY <3>2, StatusValues DEF TripAt
      <3> QED  BY <3>1, <3>3, SilentStep
    <2>5. CASE FinishAccountDeletion
      <3>1. \A j \in JobsOfTrips(deletion.scope) : job[j].state = "settled"
        BY <2>5 DEF FinishAccountDeletion, IInv, Selected, JobsOfTrips
      <3> QED  BY <2>5, <3>1, EraseRefines DEF FinishAccountDeletion
    <2>6. CASE Tick
      <3>1. \A k \in Job : job'[k].state = job[k].state /\ job'[k].trip = job[k].trip
        BY <2>6, OlderType DEF Tick, IInv, TypeOK
      <3> QED  BY <3>1, SilentStep DEF StatusOf, TripAt
    <2>7. CASE (\E u \in User : BeginAccountDeletion(u)) \/ AbortAccountDeletion \/ UNCHANGED vars
      BY <2>7, SilentStep DEF BeginAccountDeletion, AbortAccountDeletion, vars
    <2> QED  BY <2>1, <2>2, <2>3, <2>4, <2>5, <2>6, <2>7, AdmitRefines, SettleRefines DEF Next
  <1>3. IInv /\ [Next]_vars =>
          [Lifecycle!Next]_<<[j \in Job |-> CASE job[j].state = "active" -> "queued"
                                              [] job[j].state = "settled" -> "failed"
                                              [] job[j].state = "deleted" -> "deleted"
                                              [] OTHER -> "absent"],
                             [j \in Job |-> IF job[j].state \in Admitted THEN job[j].trip ELSE NoTrip]>>
    BY <1>2 DEF LifecycleStep, StatusOf, TripAt
  <1> QED  BY <1>1, <1>3, AdmissionInvariant, PTL DEF Spec, LifecycleSpec, Lifecycle!Spec

=============================================================================
