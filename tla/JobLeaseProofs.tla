--------------------------- MODULE JobLeaseProofs ---------------------------
(***************************************************************************)
(* Proofs about JobLease for every set of jobs, trips and processes and    *)
(* every lease, heartbeat and staleness setting the program accepts.       *)
(***************************************************************************)
EXTENDS JobLease, FiniteSetTheorems, TLAPS

LEMMA ClosedRow ==
    ASSUME NEW r \in Row, NEW outcome \in Terminal
    PROVE  /\ Closed(r, outcome) \in Row
           /\ Closed(r, outcome).status = outcome
           /\ Closed(r, outcome).trip = r.trip
           /\ Closed(r, outcome).holder = Nobody
           /\ Closed(r, outcome).left = 0
    BY DEF Closed, Row, Active, Terminal

LEMMA LeasedRow ==
    ASSUME NEW r \in Row, NEW i \in Instance
    PROVE  /\ Leased(r, i) \in Row
           /\ Leased(r, i).status = "running"
           /\ Leased(r, i).trip = r.trip
           /\ Leased(r, i).holder = i
           /\ Leased(r, i).left = LeaseSeconds + 1
    <1>1. LeaseSeconds + 1 \in Nat /\ "running" \in Active
        BY JobLeaseAssumption DEF Active
    <1> QED BY <1>1 DEF Leased, Row

LEMMA RenewedRow ==
    ASSUME NEW r \in Row
    PROVE  /\ Renewed(r) \in Row
           /\ Renewed(r).status = r.status
           /\ Renewed(r).trip = r.trip
           /\ Renewed(r).holder = r.holder
           /\ Renewed(r).left = LeaseSeconds + 1
    BY JobLeaseAssumption DEF Renewed, Row

LEMMA AgedRow ==
    ASSUME NEW r \in Row
    PROVE  /\ Aged(r) \in Row
           /\ Aged(r).status = r.status
           /\ Aged(r).trip = r.trip
           /\ Aged(r).holder = r.holder
           /\ Aged(r).left = IF r.left > 0 THEN r.left - 1 ELSE 0
    BY DEF Aged, Row

LEMMA QueuedRow ==
    ASSUME NEW t \in Trip
    PROVE  [status |-> "queued", trip |-> t, holder |-> Nobody, left |-> StaleAfter + 1] \in Row
    BY JobLeaseAssumption DEF Row, Active

LEMMA RecoveredRows ==
    ASSUME TypeOK, NEW S
    PROVE  /\ Recovered(S) \in [Job -> Row]
           /\ \A j \in Job :
                 \/ Recovered(S)[j] = row[j]
                 \/ /\ Recoverable(row[j])
                    /\ Recovered(S)[j] = Closed(row[j], "interrupted")
    <1>1. \A j \in Job : row[j] \in Row /\ Closed(row[j], "interrupted") \in Row
        BY ClosedRow DEF TypeOK, Terminal
    <1> QED BY <1>1 DEF Recovered

-----------------------------------------------------------------------------
(* Typing                                                                  *)

LEMMA RequestStepTyped ==
    ASSUME TypeOK, NEW i \in Instance, RequestStep(i)
    PROVE  TypeOK'
<1> USE DEF TypeOK
<1>1. ASSUME NEW t \in Trip, CheckDuplicate(i, t) PROVE TypeOK'
    BY <1>1, RecoveredRows DEF CheckDuplicate
<1>2. ASSUME NEW t \in Trip, ReconcileAll(i, t) PROVE TypeOK'
    BY <1>2, RecoveredRows DEF ReconcileAll
<1>3. ASSUME NEW t \in Trip, NEW j \in Job, Admit(i, t, j) PROVE TypeOK'
    BY <1>3, QueuedRow DEF Admit
<1>4. ASSUME NEW t \in Trip, RefuseAdmission(i, t) PROVE TypeOK'
    BY <1>4 DEF RefuseAdmission
<1>5. ASSUME NEW t \in Trip, Reconcile(i, t) PROVE TypeOK'
    BY <1>5, RecoveredRows DEF Reconcile
<1> QED BY <1>1, <1>2, <1>3, <1>4, <1>5, Zenon DEF RequestStep

LEMMA TaskStepTyped ==
    ASSUME TypeOK, NEW i \in Instance, TaskStep(i)
    PROVE  TypeOK'
<1> USE DEF TypeOK
<1>1. ASSUME NEW j \in Job, Redeliver(i, j) PROVE TypeOK'
    BY <1>1 DEF Redeliver
<1>2. ASSUME NEW j \in Job, Claim(i, j) PROVE TypeOK'
    <2>1. Leased(row[j], i) \in Row
        BY LeasedRow
    <2> QED BY <1>2, <2>1 DEF Claim
<1>3. ASSUME NEW j \in Job, ClaimRefused(i, j) PROVE TypeOK'
    BY <1>3 DEF ClaimRefused
<1>4. ASSUME NEW j \in Job, Heartbeat(i, j) PROVE TypeOK'
    <2>1. Renewed(row[j]) \in Row
        BY RenewedRow
    <2> QED BY <1>4, <2>1 DEF Heartbeat
<1>5. ASSUME NEW j \in Job, HeartbeatLost(i, j) PROVE TypeOK'
    BY <1>5 DEF HeartbeatLost
<1>6. ASSUME NEW j \in Job, NEW v \in Verdict, EndBody(i, j, v) PROVE TypeOK'
    BY <1>6 DEF EndBody
<1>7. ASSUME NEW j \in Job, Finalize(i, j) PROVE TypeOK'
    <2>1. Closed(row[j], task[i][j]) \in Row
        BY <1>7, ClosedRow DEF Finalize, Verdict, Terminal
    <2> QED BY <1>7, <2>1 DEF Finalize
<1>8. ASSUME NEW j \in Job, FinalizeRaised(i, j) PROVE TypeOK'
    <2>1. "failed" \in {"none", "scheduled", "running"} \cup Verdict
        BY DEF Verdict
    <2> QED BY <1>8, <2>1 DEF FinalizeRaised
<1>9. ASSUME NEW j \in Job, EndTaskUnwritten(i, j) PROVE TypeOK'
    BY <1>9 DEF EndTaskUnwritten
<1> QED BY <1>1, <1>2, <1>3, <1>4, <1>5, <1>6, <1>7, <1>8, <1>9, Zenon DEF TaskStep

LEMMA ProcessStepTyped ==
    ASSUME TypeOK, NEW i \in Instance, ProcessStep(i)
    PROVE  TypeOK'
<1> USE DEF TypeOK
<1>1. ASSUME Boot(i) PROVE TypeOK'
    BY <1>1, RecoveredRows DEF Boot
<1>2. ASSUME BeginShutdown(i) PROVE TypeOK'
    BY <1>2 DEF BeginShutdown, LocalJobs
<1>3. ASSUME NEW j \in Job, InterruptLocal(i, j) PROVE TypeOK'
    <2>1. Closed(row[j], "interrupted") \in Row
        BY ClosedRow DEF Terminal
    <2> QED BY <1>3, <2>1 DEF InterruptLocal
<1>4. ASSUME NEW j \in Job, SkipLocal(i, j) PROVE TypeOK'
    BY <1>4 DEF SkipLocal
<1>5. ASSUME Vanish(i) PROVE TypeOK'
    BY <1>5 DEF Vanish
<1> QED BY <1>1, <1>2, <1>3, <1>4, <1>5, Zenon DEF ProcessStep, Exit, Crash

\* Every reachable state is well typed: rows, requests, tasks, heartbeats and shutdown lists.
THEOREM TypeCorrect == Spec => []TypeOK
<1>1. Init => TypeOK
    BY JobLeaseAssumption DEF Init, TypeOK, NoRow, Row
<1>2. TypeOK /\ [Next]_vars => TypeOK'
    <2> SUFFICES ASSUME TypeOK, [Next]_vars PROVE TypeOK'
        OBVIOUS
    <2>1. CASE Tick
        BY <2>1, AgedRow DEF Tick, TypeOK
    <2>2. CASE UNCHANGED vars
        BY <2>2 DEF vars, TypeOK
    <2> QED BY <2>1, <2>2, RequestStepTyped, TaskStepTyped, ProcessStepTyped DEF Next
<1> QED BY <1>1, <1>2, PTL DEF Spec

-----------------------------------------------------------------------------
(* The only ways a row changes                                             *)

\* What one step can have done to the row of job j.
RowEdge(j) ==
    \/ row'[j] = row[j]
    \/ Tick /\ row'[j] = Aged(row[j])
    \/ Recoverable(row[j]) /\ row'[j] = Closed(row[j], "interrupted")
    \/ \E i \in Instance, t \in Trip : Admit(i, t, j)
    \/ \E i \in Instance : \/ Claim(i, j)
                           \/ Heartbeat(i, j)
                           \/ Finalize(i, j)
                           \/ InterruptLocal(i, j)

LEMMA RecoveryEdge ==
    ASSUME TypeOK, NEW S, row' = Recovered(S), NEW j \in Job
    PROVE  RowEdge(j)
    BY RecoveredRows DEF RowEdge

LEMMA RowStep ==
    ASSUME TypeOK, [Next]_vars, NEW j \in Job
    PROVE  RowEdge(j)
<1>1. ASSUME NEW i \in Instance, RequestStep(i) PROVE RowEdge(j)
    <2>1. ASSUME NEW t \in Trip, CheckDuplicate(i, t) PROVE RowEdge(j)
        BY <2>1, RecoveryEdge DEF CheckDuplicate
    <2>2. ASSUME NEW t \in Trip, ReconcileAll(i, t) PROVE RowEdge(j)
        BY <2>2, RecoveryEdge DEF ReconcileAll
    <2>3. ASSUME NEW t \in Trip, NEW k \in Job, Admit(i, t, k) PROVE RowEdge(j)
        <3>1. CASE k = j
            BY <2>3, <3>1 DEF RowEdge
        <3>2. CASE k # j
            BY <2>3, <3>2 DEF Admit, RowEdge, TypeOK
        <3> QED BY <3>1, <3>2
    <2>4. ASSUME NEW t \in Trip, RefuseAdmission(i, t) PROVE RowEdge(j)
        BY <2>4 DEF RefuseAdmission, RowEdge
    <2>5. ASSUME NEW t \in Trip, Reconcile(i, t) PROVE RowEdge(j)
        BY <2>5, RecoveryEdge DEF Reconcile
    <2> QED BY <1>1, <2>1, <2>2, <2>3, <2>4, <2>5, Zenon DEF RequestStep
<1>2. ASSUME NEW i \in Instance, TaskStep(i) PROVE RowEdge(j)
    <2>1. ASSUME NEW k \in Job, Claim(i, k) PROVE RowEdge(j)
        <3>1. CASE k = j
            BY <2>1, <3>1 DEF RowEdge
        <3>2. CASE k # j
            BY <2>1, <3>2 DEF Claim, RowEdge, TypeOK
        <3> QED BY <3>1, <3>2
    <2>2. ASSUME NEW k \in Job, Heartbeat(i, k) PROVE RowEdge(j)
        <3>1. CASE k = j
            BY <2>2, <3>1 DEF RowEdge
        <3>2. CASE k # j
            BY <2>2, <3>2 DEF Heartbeat, RowEdge, TypeOK
        <3> QED BY <3>1, <3>2
    <2>3. ASSUME NEW k \in Job, Finalize(i, k) PROVE RowEdge(j)
        <3>1. CASE k = j
            BY <2>3, <3>1 DEF RowEdge
        <3>2. CASE k # j
            BY <2>3, <3>2 DEF Finalize, RowEdge, TypeOK
        <3> QED BY <3>1, <3>2
    <2>4. ASSUME NEW k \in Job,
                 \/ Redeliver(i, k) \/ ClaimRefused(i, k) \/ HeartbeatLost(i, k)
                 \/ \E v \in Verdict : EndBody(i, k, v)
                 \/ FinalizeRaised(i, k) \/ EndTaskUnwritten(i, k)
          PROVE RowEdge(j)
        BY <2>4 DEF Redeliver, ClaimRefused, HeartbeatLost, EndBody, FinalizeRaised,
                    EndTaskUnwritten, RowEdge
    <2> QED BY <1>2, <2>1, <2>2, <2>3, <2>4, Zenon DEF TaskStep
<1>3. ASSUME NEW i \in Instance, ProcessStep(i) PROVE RowEdge(j)
    <2>1. ASSUME Boot(i) PROVE RowEdge(j)
        BY <2>1, RecoveryEdge DEF Boot
    <2>2. ASSUME NEW k \in Job, InterruptLocal(i, k) PROVE RowEdge(j)
        <3>1. CASE k = j
            BY <2>2, <3>1 DEF RowEdge
        <3>2. CASE k # j
            BY <2>2, <3>2 DEF InterruptLocal, RowEdge, TypeOK
        <3> QED BY <3>1, <3>2
    <2>3. ASSUME NEW k \in Job, BeginShutdown(i) \/ SkipLocal(i, k) PROVE RowEdge(j)
        BY <2>3 DEF BeginShutdown, SkipLocal, RowEdge
    <2>4. ASSUME Vanish(i) PROVE RowEdge(j)
        BY <2>4 DEF Vanish, RowEdge
    <2> QED BY <1>3, <2>1, <2>2, <2>3, <2>4, Zenon DEF ProcessStep, Exit, Crash
<1>4. CASE Tick
    BY <1>4 DEF Tick, RowEdge
<1>5. CASE UNCHANGED vars
    BY <1>5 DEF vars, RowEdge
<1> QED BY <1>1, <1>2, <1>3, <1>4, <1>5 DEF Next

\* The fields of a changed row, read off its edge.
LEMMA EdgeFields ==
    ASSUME TypeOK, NEW j \in Job, RowEdge(j)
    PROVE  \/ row'[j] = row[j]
           \/ /\ row'[j].status = row[j].status
              /\ row'[j].trip = row[j].trip
              /\ row'[j].holder = row[j].holder
              /\ row[j].left = 0 => row'[j].left = 0 \/ row[j].status = "running"
           \/ /\ row[j].status = "absent"
              /\ row'[j].status = "queued"
              /\ row'[j].holder = Nobody
           \/ /\ row[j].status \in Active
              /\ row'[j].status = "running"
              /\ row'[j].trip = row[j].trip
              /\ row'[j].holder \in Instance
           \/ /\ row[j].status \in Active
              /\ row'[j].status \in Terminal
              /\ row'[j].trip = row[j].trip
              /\ row'[j].holder = Nobody
              /\ row'[j].left = 0
<1> DEFINE r == row[j]
<1>1. r \in Row
    BY DEF TypeOK
<1>2. CASE row'[j] = Aged(row[j])
    BY <1>1, <1>2, AgedRow
<1>3. CASE Recoverable(row[j]) /\ row'[j] = Closed(row[j], "interrupted")
    BY <1>1, <1>3, ClosedRow DEF Recoverable, Terminal
<1>4. ASSUME NEW i \in Instance, NEW t \in Trip, Admit(i, t, j)
      PROVE  row[j].status = "absent" /\ row'[j].status = "queued" /\ row'[j].holder = Nobody
    BY <1>4 DEF Admit, TypeOK
<1>5. ASSUME NEW i \in Instance, Claim(i, j)
      PROVE  /\ row[j].status \in Active
             /\ row'[j].status = "running" /\ row'[j].trip = row[j].trip
             /\ row'[j].holder \in Instance
    BY <1>1, <1>5, LeasedRow DEF Claim, Claimable, Active, TypeOK
<1>6. ASSUME NEW i \in Instance, Heartbeat(i, j)
      PROVE  /\ row'[j].status = row[j].status /\ row'[j].trip = row[j].trip
             /\ row'[j].holder = row[j].holder /\ row[j].status = "running"
    BY <1>1, <1>6, RenewedRow DEF Heartbeat, Beatable, TypeOK
<1>7. ASSUME NEW i \in Instance, Finalize(i, j)
      PROVE  /\ row[j].status \in Active
             /\ row'[j].status \in Terminal /\ row'[j].trip = row[j].trip
             /\ row'[j].holder = Nobody /\ row'[j].left = 0
    BY <1>1, <1>7, ClosedRow DEF Finalize, Transitionable, TypeOK, Verdict, Terminal
<1>8. ASSUME NEW i \in Instance, InterruptLocal(i, j)
      PROVE  /\ row[j].status \in Active
             /\ row'[j].status \in Terminal /\ row'[j].trip = row[j].trip
             /\ row'[j].holder = Nobody /\ row'[j].left = 0
    BY <1>1, <1>8, ClosedRow DEF InterruptLocal, Transitionable, TypeOK, Terminal
<1> HIDE DEF r
<1> QED BY <1>2, <1>3, <1>4, <1>5, <1>6, <1>7, <1>8 DEF RowEdge

-----------------------------------------------------------------------------
(* The inductive invariant                                                 *)

\* Each conjunct is needed to keep another: the lease discipline makes a terminal row
\* immovable by time, claimed work keeps a late transition off a queued row, and both
\* keep a second job of a trip from coming alive.
JobInv == TypeOK /\ OneActivePerTrip /\ LeaseOnlyWhileRunning /\ WorkIsClaimed

LEMMA LeaseDiscipline ==
    ASSUME TypeOK, LeaseOnlyWhileRunning, [Next]_vars
    PROVE  LeaseOnlyWhileRunning'
<1> SUFFICES ASSUME NEW j \in Job
             PROVE  /\ row'[j].status = "running" <=> row'[j].holder # Nobody
                    /\ row'[j].status \notin Active => row'[j].left = 0
    BY DEF LeaseOnlyWhileRunning
<1>1. RowEdge(j)
    BY RowStep
<1>2. /\ row[j].status = "running" <=> row[j].holder # Nobody
      /\ row[j].status \notin Active => row[j].left = 0
    BY DEF LeaseOnlyWhileRunning
<1> QED BY <1>1, <1>2, EdgeFields, JobLeaseAssumption DEF Active, Terminal

LEMMA NewActivityIsAdmission ==
    ASSUME TypeOK, LeaseOnlyWhileRunning, [Next]_vars, NEW j \in Job,
           row'[j].status \in Active
    PROVE  \/ row[j].status \in Active /\ row'[j].trip = row[j].trip
           \/ \E i \in Instance, t \in Trip : Admit(i, t, j)
<1>1. RowEdge(j)
    BY RowStep
<1>2. row[j] \in Row
    BY DEF TypeOK
<1>3. row'[j] = Aged(row[j]) => row'[j].status = row[j].status /\ row'[j].trip = row[j].trip
    BY <1>2, AgedRow
<1>4. \A i \in Instance : \/ Claim(i, j) \/ Heartbeat(i, j)
                         \/ Finalize(i, j) \/ InterruptLocal(i, j)
                         => row[j].status # "absent"
    BY DEF Claim, Claimable, Heartbeat, Beatable, Finalize, InterruptLocal, Transitionable, Active
<1>5. Recoverable(row[j]) => row[j].status # "absent"
    BY DEF Recoverable, Active
<1> QED BY <1>1, <1>3, <1>4, <1>5, EdgeFields DEF RowEdge, Active, Terminal

LEMMA OneActiveStep ==
    ASSUME TypeOK, LeaseOnlyWhileRunning, OneActivePerTrip, [Next]_vars
    PROVE  OneActivePerTrip'
<1> SUFFICES ASSUME NEW j \in Job, NEW k \in Job,
                    row'[j].status \in Active, row'[k].status \in Active,
                    row'[j].trip = row'[k].trip, j # k
             PROVE  FALSE
    BY DEF OneActivePerTrip
<1>1. ASSUME NEW i \in Instance, NEW t \in Trip, NEW m \in Job, NEW n \in Job,
             Admit(i, t, m), m # n, row'[n].status \in Active
      PROVE  row'[m].trip # row'[n].trip
    <2>1. row'[n] = row[n] /\ row'[m].trip = t
        BY <1>1 DEF Admit, TypeOK
    <2>2. row[n].trip # t
        BY <1>1, <2>1 DEF Admit, TripBusy, JobsOf
    <2> QED BY <2>1, <2>2
<1>2. CASE \E i \in Instance, t \in Trip : Admit(i, t, j)
    BY <1>1, <1>2
<1>3. CASE \E i \in Instance, t \in Trip : Admit(i, t, k)
    BY <1>1, <1>3
<1>4. CASE /\ row[j].status \in Active /\ row'[j].trip = row[j].trip
           /\ row[k].status \in Active /\ row'[k].trip = row[k].trip
    BY <1>4 DEF OneActivePerTrip
<1> QED BY <1>2, <1>3, <1>4, NewActivityIsAdmission

\* Once a job has been claimed, or settled, it is never queued again.
LEMMA ClaimedStaysClaimed ==
    ASSUME TypeOK, [Next]_vars, NEW j \in Job, row[j].status \notin {"absent", "queued"}
    PROVE  row'[j].status \notin {"absent", "queued"}
<1>1. RowEdge(j)
    BY RowStep
<1> QED BY <1>1, EdgeFields DEF Terminal, Active

\* WorkIsClaimed for one process and one job.
WorkClaimed(i, j) ==
    /\ task[i][j] \in {"running"} \cup Verdict => row[j].status \notin {"absent", "queued"}
    /\ j \in beating[i] => Alive(i) /\ task[i][j] \in {"running"} \cup Verdict
    /\ j \in closing[i] => /\ inst[i] = "stopping"
                            /\ row[j].status \notin {"absent", "queued"}
                            /\ task[i][j] # "scheduled"
                            /\ j \notin beating[i]

LEMMA RequestKeepsWorkClaimed ==
    ASSUME TypeOK, [Next]_vars, WorkIsClaimed, NEW p \in Instance, RequestStep(p)
    PROVE  WorkIsClaimed'
<1> SUFFICES ASSUME NEW i \in Instance, NEW j \in Job PROVE WorkClaimed(i, j)'
    BY DEF WorkIsClaimed, WorkClaimed, Alive
<1>0. WorkClaimed(i, j)
    BY DEF WorkIsClaimed, WorkClaimed
<1> USE ClaimedStaysClaimed DEF WorkClaimed, Alive, TypeOK
<1>1. ASSUME NEW t \in Trip, CheckDuplicate(p, t) PROVE WorkClaimed(i, j)'
    BY <1>0, <1>1 DEF CheckDuplicate
<1>2. ASSUME NEW t \in Trip, ReconcileAll(p, t) PROVE WorkClaimed(i, j)'
    BY <1>0, <1>2 DEF ReconcileAll
<1>3. ASSUME NEW t \in Trip, NEW k \in Job, Admit(p, t, k) PROVE WorkClaimed(i, j)'
    <2>1. CASE k = j
        BY <1>0, <1>3, <2>1 DEF Admit, Verdict
    <2>2. CASE k # j
        BY <1>0, <1>3, <2>2 DEF Admit, Verdict
    <2> QED BY <2>1, <2>2
<1>4. ASSUME NEW t \in Trip, RefuseAdmission(p, t) PROVE WorkClaimed(i, j)'
    BY <1>0, <1>4 DEF RefuseAdmission
<1>5. ASSUME NEW t \in Trip, Reconcile(p, t) PROVE WorkClaimed(i, j)'
    BY <1>0, <1>5 DEF Reconcile
<1> QED BY <1>1, <1>2, <1>3, <1>4, <1>5, Zenon DEF RequestStep

LEMMA TaskKeepsWorkClaimed ==
    ASSUME TypeOK, [Next]_vars, WorkIsClaimed, NEW p \in Instance, TaskStep(p)
    PROVE  WorkIsClaimed'
<1> SUFFICES ASSUME NEW i \in Instance, NEW j \in Job PROVE WorkClaimed(i, j)'
    BY DEF WorkIsClaimed, WorkClaimed, Alive
<1>0. WorkClaimed(i, j)
    BY DEF WorkIsClaimed, WorkClaimed
<1> USE ClaimedStaysClaimed DEF WorkClaimed, Alive, TypeOK, Verdict
<1>1. ASSUME NEW k \in Job, Redeliver(p, k) PROVE WorkClaimed(i, j)'
    BY <1>0, <1>1 DEF Redeliver
<1>2. ASSUME NEW k \in Job, Claim(p, k) PROVE WorkClaimed(i, j)'
    <2>1. row'[k].status = "running"
        BY <1>2, LeasedRow DEF Claim
    <2> QED BY <1>0, <1>2, <2>1 DEF Claim
<1>3. ASSUME NEW k \in Job, ClaimRefused(p, k) PROVE WorkClaimed(i, j)'
    BY <1>0, <1>3 DEF ClaimRefused
<1>4. ASSUME NEW k \in Job, Heartbeat(p, k) PROVE WorkClaimed(i, j)'
    BY <1>0, <1>4 DEF Heartbeat
<1>5. ASSUME NEW k \in Job, HeartbeatLost(p, k) PROVE WorkClaimed(i, j)'
    BY <1>0, <1>5 DEF HeartbeatLost
<1>6. ASSUME NEW k \in Job, NEW v \in Verdict, EndBody(p, k, v) PROVE WorkClaimed(i, j)'
    BY <1>0, <1>6 DEF EndBody
<1>7. ASSUME NEW k \in Job, Finalize(p, k) PROVE WorkClaimed(i, j)'
    BY <1>0, <1>7 DEF Finalize
<1>8. ASSUME NEW k \in Job, FinalizeRaised(p, k) PROVE WorkClaimed(i, j)'
    BY <1>0, <1>8 DEF FinalizeRaised
<1>9. ASSUME NEW k \in Job, EndTaskUnwritten(p, k) PROVE WorkClaimed(i, j)'
    BY <1>0, <1>9 DEF EndTaskUnwritten
<1> QED BY <1>1, <1>2, <1>3, <1>4, <1>5, <1>6, <1>7, <1>8, <1>9, Zenon DEF TaskStep

LEMMA ProcessKeepsWorkClaimed ==
    ASSUME TypeOK, [Next]_vars, WorkIsClaimed, NEW p \in Instance, ProcessStep(p)
    PROVE  WorkIsClaimed'
<1> SUFFICES ASSUME NEW i \in Instance, NEW j \in Job PROVE WorkClaimed(i, j)'
    BY DEF WorkIsClaimed, WorkClaimed, Alive
<1>0. WorkClaimed(i, j)
    BY DEF WorkIsClaimed, WorkClaimed
<1> USE ClaimedStaysClaimed DEF WorkClaimed, Alive, TypeOK
<1>1. ASSUME Boot(p) PROVE WorkClaimed(i, j)'
    BY <1>0, <1>1 DEF Boot
<1>2. ASSUME BeginShutdown(p) PROVE WorkClaimed(i, j)'
    BY <1>0, <1>2 DEF BeginShutdown, LocalJobs, Verdict
<1>3. ASSUME NEW k \in Job, InterruptLocal(p, k) PROVE WorkClaimed(i, j)'
    BY <1>0, <1>3 DEF InterruptLocal
<1>4. ASSUME NEW k \in Job, SkipLocal(p, k) PROVE WorkClaimed(i, j)'
    BY <1>0, <1>4 DEF SkipLocal
<1>5. ASSUME Vanish(p) PROVE WorkClaimed(i, j)'
    BY <1>0, <1>5 DEF Vanish, Verdict
<1> QED BY <1>1, <1>2, <1>3, <1>4, <1>5, Zenon DEF ProcessStep, Exit, Crash

\* The inductive invariant holds in every reachable state.
THEOREM JobInvariant == Spec => []JobInv
<1>1. Init => JobInv
    BY JobLeaseAssumption
    DEF Init, JobInv, TypeOK, NoRow, Row, OneActivePerTrip, LeaseOnlyWhileRunning,
        WorkIsClaimed, Active, Terminal, Verdict
<1>2. JobInv /\ TypeOK' /\ [Next]_vars => JobInv'
    <2> SUFFICES ASSUME JobInv, TypeOK', [Next]_vars PROVE JobInv'
        OBVIOUS
    <2>1. WorkIsClaimed'
        <3> USE DEF JobInv
        <3>1. CASE Tick
            BY <3>1, ClaimedStaysClaimed DEF Tick, WorkIsClaimed, Alive
        <3>2. CASE UNCHANGED vars
            BY <3>2 DEF vars, WorkIsClaimed, Alive
        <3> QED BY <3>1, <3>2, RequestKeepsWorkClaimed, TaskKeepsWorkClaimed,
                   ProcessKeepsWorkClaimed DEF Next
    <2> QED BY <2>1, LeaseDiscipline, OneActiveStep DEF JobInv
<1> QED BY <1>1, <1>2, TypeCorrect, PTL DEF Spec

\* At most one queued or running job per trip, for every interleaving of requests, claims,
\* takeovers, recoveries and shutdowns (the index behind admit, kept by all other writes).
THEOREM OneActiveJobPerTrip == Spec => []OneActivePerTrip
BY JobInvariant, PTL DEF JobInv

\* A lease owner is recorded exactly while the job runs; settled rows have no time left.
THEOREM LeaseExactlyWhileRunning == Spec => []LeaseOnlyWhileRunning
BY JobInvariant, PTL DEF JobInv

\* Tasks, heartbeats and the shutdown list only ever concern claimed jobs.
THEOREM WorkIsAlwaysClaimed == Spec => []WorkIsClaimed
BY JobInvariant, PTL DEF JobInv

-----------------------------------------------------------------------------
(* Action properties                                                       *)

\* A settled row is never written again by claim, heartbeat, transition or recovery.
THEOREM SettledForGood == Spec => TerminalIsFinal
<1>1. JobInv /\ [Next]_vars =>
        [\A j \in Job : row[j].status \in Terminal => row'[j] = row[j]]_vars
    <2> SUFFICES ASSUME JobInv, [Next]_vars, NEW j \in Job, row[j].status \in Terminal
                 PROVE  row'[j] = row[j]
        OBVIOUS
    <2> USE DEF JobInv
    <2>1. RowEdge(j)
        BY RowStep
    <2>2. row[j] \in Row /\ row[j].left = 0 /\ row[j].status \notin Active
        BY DEF LeaseOnlyWhileRunning, TypeOK, Active, Terminal
    <2>3. Aged(row[j]) = row[j]
        BY <2>2 DEF Aged
    <2>4. ~Recoverable(row[j]) /\ ~Claimable(row[j])
        BY <2>2 DEF Recoverable, Claimable, Active
    <2>5. \A i \in Instance : ~Beatable(row[j], i) /\ ~Transitionable(row[j], i)
        BY <2>2 DEF Beatable, Transitionable, Active
    <2>6. row[j].status # "absent"
        BY DEF Terminal
    <2> QED BY <2>1, <2>3, <2>4, <2>5, <2>6
            DEF RowEdge, Admit, Claim, Heartbeat, Finalize, InterruptLocal
<1> QED BY <1>1, JobInvariant, PTL DEF Spec, TerminalIsFinal

\* A valid lease ends only through its owner's own verdict or graceful shutdown.
THEOREM ValidLeaseIsRespected == Spec => ValidLeaseRespected
<1> DEFINE Broken(j) == /\ row[j].status = "running" /\ row[j].left > 0
                        /\ row'[j].status # "running" \/ row'[j].holder # row[j].holder
           ByOwner(j, i) == \/ task[i][j] \in Verdict /\ task'[i][j] = "none"
                            \/ j \in closing[i] \ closing'[i]
<1>1. ASSUME JobInv, [Next]_vars, NEW j \in Job, Broken(j)
      PROVE  ByOwner(j, row[j].holder)
    <2> USE DEF JobInv
    <2>1. RowEdge(j)
        BY <1>1, RowStep
    <2>2. row[j] \in Row /\ row[j].holder # Nobody
        BY <1>1 DEF LeaseOnlyWhileRunning, TypeOK
    <2>3. row'[j] # row[j] /\ row'[j] # Aged(row[j])
        BY <1>1, <2>2, AgedRow
    <2>4. ~Recoverable(row[j]) /\ ~Claimable(row[j])
        BY <1>1 DEF Recoverable, Claimable
    <2>5. \A i \in Instance : ~Claim(i, j) /\ \A t \in Trip : ~Admit(i, t, j)
        BY <1>1, <2>4 DEF Admit, Claim
    <2>6. ASSUME NEW i \in Instance, Heartbeat(i, j) PROVE FALSE
        <3>1. row'[j] = Renewed(row[j])
            BY <1>1, <2>6, <2>2 DEF Heartbeat, TypeOK
        <3> QED BY <1>1, <2>2, <3>1, RenewedRow
    <2>7. ASSUME NEW i \in Instance, Finalize(i, j) PROVE ByOwner(j, row[j].holder)
        <3>1. row[j].holder = i
            BY <1>1, <2>2, <2>7 DEF Finalize, Transitionable
        <3> QED BY <1>1, <2>7, <3>1 DEF Finalize, TypeOK
    <2>8. ASSUME NEW i \in Instance, InterruptLocal(i, j) PROVE ByOwner(j, row[j].holder)
        <3>1. row[j].holder = i
            BY <1>1, <2>2, <2>8 DEF InterruptLocal, Transitionable
        <3> QED BY <1>1, <2>8, <3>1 DEF InterruptLocal, TypeOK
    <2> HIDE DEF ByOwner, Broken
    <2> QED BY <2>1, <2>3, <2>4, <2>5, <2>6, <2>7, <2>8 DEF RowEdge
<1>2. JobInv /\ [Next]_vars => [\A j \in Job : Broken(j) => ByOwner(j, row[j].holder)]_vars
    <2> HIDE DEF ByOwner, Broken
    <2> QED BY <1>1
<1> QED BY <1>2, JobInvariant, PTL DEF Spec, ValidLeaseRespected

\* A verdict is only ever the current owner's own.
THEOREM VerdictComesFromTheOwner == Spec => VerdictIsTheOwners
<1> DEFINE Judged(j) == row'[j].status \in Verdict /\ row'[j].status # row[j].status
           Owned(j, i) == /\ row[j].status = "running"
                          /\ Alive(i) /\ task[i][j] = row'[j].status
<1>1. ASSUME JobInv, [Next]_vars, NEW j \in Job, Judged(j)
      PROVE  Owned(j, row[j].holder)
    <2> USE DEF JobInv
    <2>1. RowEdge(j)
        BY <1>1, RowStep
    <2>2. row[j] \in Row
        BY <1>1 DEF TypeOK
    <2>3. row'[j] # row[j] /\ row'[j] # Aged(row[j]) /\ row'[j] # Closed(row[j], "interrupted")
        BY <1>1, <2>2, AgedRow, ClosedRow DEF Verdict, Terminal
    <2>4. ASSUME NEW i \in Instance, NEW t \in Trip, Admit(i, t, j) PROVE FALSE
        BY <1>1, <2>4 DEF Admit, TypeOK, Verdict
    <2>5. ASSUME NEW i \in Instance, Claim(i, j) PROVE FALSE
        <3>1. row'[j] = Leased(row[j], i)
            BY <1>1, <2>5 DEF Claim, TypeOK
        <3> QED BY <1>1, <2>2, <3>1, LeasedRow DEF Verdict
    <2>6. ASSUME NEW i \in Instance, Heartbeat(i, j) PROVE FALSE
        <3>1. row'[j] = Renewed(row[j])
            BY <1>1, <2>6 DEF Heartbeat, TypeOK
        <3> QED BY <1>1, <2>2, <3>1, RenewedRow
    <2>7. ASSUME NEW i \in Instance, Finalize(i, j) PROVE Owned(j, row[j].holder)
        <3>1. row[j].status = "running"
            BY <1>1, <2>7 DEF Finalize, WorkIsClaimed, Transitionable, Active
        <3>2. row[j].holder = i
            BY <1>1, <2>2, <2>7, <3>1 DEF Finalize, Transitionable, LeaseOnlyWhileRunning
        <3>3. row'[j] = Closed(row[j], task[i][j]) /\ task[i][j] \in Terminal
            BY <1>1, <2>7 DEF Finalize, TypeOK, Verdict, Terminal
        <3>4. row'[j].status = task[i][j]
            BY <2>2, <3>3, ClosedRow
        <3> QED BY <2>7, <3>1, <3>2, <3>4 DEF Finalize
    <2>8. ASSUME NEW i \in Instance, InterruptLocal(i, j) PROVE FALSE
        BY <2>3, <2>8 DEF InterruptLocal, TypeOK
    <2> HIDE DEF Owned, Judged
    <2> QED BY <2>1, <2>3, <2>4, <2>5, <2>6, <2>7, <2>8 DEF RowEdge
<1>2. JobInv /\ [Next]_vars => [\A j \in Job : Judged(j) => Owned(j, row[j].holder)]_vars
    <2> HIDE DEF Owned, Judged
    <2> QED BY <1>1
<1> QED BY <1>2, JobInvariant, PTL DEF Spec, VerdictIsTheOwners

-----------------------------------------------------------------------------
(* Refinement of the job lifecycle                                         *)

\* Every step of the lease protocol is a lifecycle step or invisible to it.
LifecycleStep == Lifecycle!Next \/ UNCHANGED <<[j \in Job |-> row[j].status],
                                               [j \in Job |-> row[j].trip]>>

\* Writing one row and keeping its status and trip is invisible; so is a step without a write.
LEMMA SilentRow ==
    ASSUME TypeOK, TypeOK',
           \A j \in Job : row'[j].status = row[j].status /\ row'[j].trip = row[j].trip
    PROVE  LifecycleStep
    BY DEF LifecycleStep

LEMMA SettlingStep ==
    ASSUME TypeOK, TypeOK', NEW S \in SUBSET Job, NEW outcome \in Terminal,
           \A j \in S : /\ row[j].status \in Active
                        /\ row'[j].status = outcome /\ row'[j].trip = row[j].trip,
           \A j \in Job \ S : row'[j] = row[j]
    PROVE  LifecycleStep
<1>1. Lifecycle!Settle(S, outcome)
    BY DEF Lifecycle!Settle, Lifecycle!Active, Active
<1> QED BY <1>1 DEF LifecycleStep, Lifecycle!Next, Lifecycle!Terminal, Terminal

LEMMA RecoveryRefines ==
    ASSUME TypeOK, TypeOK', NEW S, row' = Recovered(S)
    PROVE  LifecycleStep
<1> DEFINE C == {j \in Job : j \in S /\ Recoverable(row[j])}
<1>1. \A j \in C : /\ row[j].status \in Active
                   /\ row'[j].status = "interrupted" /\ row'[j].trip = row[j].trip
    BY ClosedRow DEF Recovered, Recoverable, TypeOK, Terminal
<1>2. \A j \in Job \ C : row'[j] = row[j]
    BY DEF Recovered
<1>3. C \in SUBSET Job /\ "interrupted" \in Terminal
    BY DEF Terminal
<1> HIDE DEF C
<1> QED BY <1>1, <1>2, <1>3, SettlingStep

LEMMA ClosingRefines ==
    ASSUME TypeOK, TypeOK', NEW k \in Job, NEW outcome \in Terminal,
           row[k].status \in Active, row' = [row EXCEPT ![k] = Closed(@, outcome)]
    PROVE  LifecycleStep
<1>1. row'[k].status = outcome /\ row'[k].trip = row[k].trip
    BY ClosedRow DEF TypeOK
<1>2. \A j \in Job \ {k} : row'[j] = row[j]
    BY DEF TypeOK
<1>3. {k} \in SUBSET Job /\ \A j \in {k} : row[j].status \in Active
    OBVIOUS
<1> QED BY <1>1, <1>2, <1>3, SettlingStep

\* The lease protocol implements the lifecycle: jobs are admitted only beside settled ones,
\* start from the queue, settle once, and a takeover or a heartbeat is invisible.
THEOREM ImplementsLifecycle == Spec => LifecycleSpec
<1>1. Init => Lifecycle!Init
    BY DEF Init, Lifecycle!Init, NoRow
<1>2. ASSUME TypeOK, TypeOK', [Next]_vars PROVE LifecycleStep
    <2> USE <1>2
    <2>1. ASSUME NEW i \in Instance, RequestStep(i) PROVE LifecycleStep
        <3>1. ASSUME NEW t \in Trip, CheckDuplicate(i, t) PROVE LifecycleStep
            BY <3>1, RecoveryRefines DEF CheckDuplicate
        <3>2. ASSUME NEW t \in Trip, ReconcileAll(i, t) PROVE LifecycleStep
            BY <3>2, RecoveryRefines DEF ReconcileAll
        <3>3. ASSUME NEW t \in Trip, NEW j \in Job, Admit(i, t, j) PROVE LifecycleStep
            <4>1. Lifecycle!Enqueue(j, t)
                BY <3>3 DEF Admit, TripBusy, JobsOf, Active, Lifecycle!Enqueue,
                            Lifecycle!Active, TypeOK
            <4> QED BY <4>1 DEF LifecycleStep, Lifecycle!Next
        <3>4. ASSUME NEW t \in Trip, RefuseAdmission(i, t) PROVE LifecycleStep
            BY <3>4, SilentRow DEF RefuseAdmission
        <3>5. ASSUME NEW t \in Trip, Reconcile(i, t) PROVE LifecycleStep
            BY <3>5, RecoveryRefines DEF Reconcile
        <3> QED BY <2>1, <3>1, <3>2, <3>3, <3>4, <3>5, Zenon DEF RequestStep
    <2>2. ASSUME NEW i \in Instance, TaskStep(i) PROVE LifecycleStep
        <3>1. ASSUME NEW j \in Job, Claim(i, j) PROVE LifecycleStep
            <4>1. /\ row'[j].status = "running" /\ row'[j].trip = row[j].trip
                  /\ \A k \in Job \ {j} : row'[k] = row[k]
                BY <3>1, LeasedRow DEF Claim, TypeOK
            <4>2. CASE row[j].status = "queued"
                <5>1. Lifecycle!Begin(j)
                    BY <4>1, <4>2 DEF Lifecycle!Begin
                <5> QED BY <5>1 DEF LifecycleStep, Lifecycle!Next
            <4>3. CASE row[j].status = "running"
                BY <4>1, <4>3, SilentRow
            <4> QED BY <3>1, <4>2, <4>3 DEF Claim, Claimable
        <3>2. ASSUME NEW j \in Job, Heartbeat(i, j) PROVE LifecycleStep
            BY <3>2, RenewedRow, SilentRow DEF Heartbeat, TypeOK
        <3>3. ASSUME NEW j \in Job, Finalize(i, j) PROVE LifecycleStep
            BY <3>3, ClosingRefines DEF Finalize, Transitionable, Verdict, Terminal
        <3>4. ASSUME NEW j \in Job,
                     \/ Redeliver(i, j) \/ ClaimRefused(i, j) \/ HeartbeatLost(i, j)
                     \/ \E v \in Verdict : EndBody(i, j, v)
                     \/ FinalizeRaised(i, j) \/ EndTaskUnwritten(i, j)
              PROVE LifecycleStep
            BY <3>4, SilentRow
            DEF Redeliver, ClaimRefused, HeartbeatLost, EndBody, FinalizeRaised, EndTaskUnwritten
        <3> QED BY <2>2, <3>1, <3>2, <3>3, <3>4, Zenon DEF TaskStep
    <2>3. ASSUME NEW i \in Instance, ProcessStep(i) PROVE LifecycleStep
        <3>1. ASSUME Boot(i) PROVE LifecycleStep
            BY <3>1, RecoveryRefines DEF Boot
        <3>2. ASSUME NEW j \in Job, InterruptLocal(i, j) PROVE LifecycleStep
            BY <3>2, ClosingRefines DEF InterruptLocal, Transitionable, Terminal
        <3>3. ASSUME NEW j \in Job, BeginShutdown(i) \/ SkipLocal(i, j) PROVE LifecycleStep
            BY <3>3, SilentRow DEF BeginShutdown, SkipLocal
        <3>4. ASSUME BeginShutdown(i) \/ Vanish(i) PROVE LifecycleStep
            BY <3>4, SilentRow DEF BeginShutdown, Vanish
        <3> QED BY <2>3, <3>1, <3>2, <3>3, <3>4, Zenon DEF ProcessStep, Exit, Crash
    <2>4. CASE Tick
        BY <2>4, AgedRow, SilentRow DEF Tick, TypeOK
    <2>5. CASE UNCHANGED vars
        BY <2>5, SilentRow DEF vars
    <2> QED BY <2>1, <2>2, <2>3, <2>4, <2>5 DEF Next
<1>3. TypeOK /\ TypeOK' /\ [Next]_vars
      => [Lifecycle!Next]_<<[j \in Job |-> row[j].status], [j \in Job |-> row[j].trip]>>
    BY <1>2 DEF LifecycleStep
<1> QED BY <1>1, <1>3, TypeCorrect, PTL DEF Spec, LifecycleSpec, Lifecycle!Spec

-----------------------------------------------------------------------------
(* Capacity                                                                *)

\* What is counted is finite, so the count means something for every set of jobs.
CapacityInv == IsFiniteSet(ActiveJobs) /\ ActiveWithinLimit

LEMMA ActiveJobsShrinkOrAdmit ==
    ASSUME JobInv, [Next]_vars
    PROVE  \/ ActiveJobs' \subseteq ActiveJobs
           \/ ~OverCapacity /\ \E j \in Job : ActiveJobs' \subseteq ActiveJobs \cup {j}
<1>1. ASSUME NEW i \in Instance, NEW t \in Trip, NEW j \in Job, Admit(i, t, j)
      PROVE  ~OverCapacity /\ ActiveJobs' \subseteq ActiveJobs \cup {j}
    BY <1>1 DEF Admit, ActiveJobs, JobInv, TypeOK
<1>2. CASE \A i \in Instance, t \in Trip, j \in Job : ~Admit(i, t, j)
    BY <1>2, NewActivityIsAdmission DEF ActiveJobs, JobInv
<1> QED BY <1>1, <1>2, Zenon

\* The number of queued or running jobs never exceeds the configured capacity.
THEOREM CapacityHolds == Spec => []ActiveWithinLimit
<1>1. Init => CapacityInv
    <2> SUFFICES ASSUME Init PROVE CapacityInv
        OBVIOUS
    <2>1. ActiveJobs = {}
        BY DEF Init, ActiveJobs, NoRow, Active
    <2> QED BY <2>1, FS_EmptySet, JobLeaseAssumption DEF CapacityInv, ActiveWithinLimit
<1>2. JobInv /\ CapacityInv /\ [Next]_vars => CapacityInv'
    <2> SUFFICES ASSUME JobInv, CapacityInv, [Next]_vars PROVE CapacityInv'
        OBVIOUS
    <2>1. IsFiniteSet(ActiveJobs) /\ Cardinality(ActiveJobs) \in Nat
        BY FS_CardinalityType DEF CapacityInv
    <2>2. CASE ActiveJobs' \subseteq ActiveJobs
        <3>1. IsFiniteSet(ActiveJobs') /\ Cardinality(ActiveJobs') <= Cardinality(ActiveJobs)
            BY <2>1, <2>2, FS_Subset
        <3>2. Cardinality(ActiveJobs') \in Nat
            BY <3>1, FS_CardinalityType
        <3> QED BY <2>1, <3>1, <3>2, JobLeaseAssumption DEF CapacityInv, ActiveWithinLimit
    <2>3. ASSUME ~OverCapacity, NEW j \in Job, ActiveJobs' \subseteq ActiveJobs \cup {j}
          PROVE  CapacityInv'
        <3>0. /\ IsFiniteSet(ActiveJobs \cup {j})
              /\ \/ Cardinality(ActiveJobs \cup {j}) = Cardinality(ActiveJobs)
                 \/ Cardinality(ActiveJobs \cup {j}) = Cardinality(ActiveJobs) + 1
            BY <2>1, FS_AddElement
        <3>1. /\ IsFiniteSet(ActiveJobs \cup {j})
              /\ Cardinality(ActiveJobs \cup {j}) <= Cardinality(ActiveJobs) + 1
              /\ Cardinality(ActiveJobs \cup {j}) \in Nat
            BY <2>1, <3>0
        <3>2. /\ IsFiniteSet(ActiveJobs')
              /\ Cardinality(ActiveJobs') <= Cardinality(ActiveJobs \cup {j})
            BY <2>3, <3>1, FS_Subset
        <3>3. Cardinality(ActiveJobs') \in Nat
            BY <3>2, FS_CardinalityType
        <3>4. MaxConcurrent > 0 => Cardinality(ActiveJobs) < MaxConcurrent
            BY <2>1, <2>3, JobLeaseAssumption DEF OverCapacity
        <3>5. MaxConcurrent > 0 => Cardinality(ActiveJobs') <= MaxConcurrent
            BY <2>1, <3>1, <3>2, <3>3, <3>4, JobLeaseAssumption
        <3> QED BY <3>2, <3>5 DEF CapacityInv, ActiveWithinLimit
    <2> QED BY <2>2, <2>3, ActiveJobsShrinkOrAdmit
<1>3. CapacityInv => ActiveWithinLimit
    BY DEF CapacityInv
<1> QED BY <1>1, <1>2, <1>3, JobInvariant, PTL DEF Spec

-----------------------------------------------------------------------------
(* Timely heartbeats protect the lease                                     *)

\* A job whose owner still beats was leased or renewed at most MaxHeartbeatGap ticks ago.
LeaseIsFresh ==
    \A j \in Job :
        row[j].status = "running" /\ j \in beating[row[j].holder]
        => row[j].left + MaxHeartbeatGap >= LeaseSeconds + 1

\* A heartbeat thread starts nowhere but in Claim.
LEMMA BeatingStartsWithClaim ==
    ASSUME TypeOK, [Next]_vars, NEW i \in Instance, NEW j \in Job, j \in beating'[i]
    PROVE  j \in beating[i] \/ Claim(i, j)
<1> USE DEF TypeOK
<1>1. ASSUME NEW p \in Instance, RequestStep(p) PROVE j \in beating[i]
    BY <1>1 DEF RequestStep, CheckDuplicate, ReconcileAll, Admit, RefuseAdmission, Reconcile
<1>2. ASSUME NEW p \in Instance, TaskStep(p) PROVE j \in beating[i] \/ Claim(i, j)
    <2>1. ASSUME NEW k \in Job, Claim(p, k) PROVE j \in beating[i] \/ Claim(i, j)
        <3>1. CASE p = i /\ k = j
            BY <2>1, <3>1
        <3>2. CASE ~(p = i /\ k = j)
            BY <2>1, <3>2 DEF Claim
        <3> QED BY <3>1, <3>2
    <2>2. ASSUME NEW k \in Job,
                 \/ Redeliver(p, k) \/ ClaimRefused(p, k) \/ Heartbeat(p, k)
                 \/ \E v \in Verdict : EndBody(p, k, v)
                 \/ FinalizeRaised(p, k)
          PROVE j \in beating[i]
        BY <2>2 DEF Redeliver, ClaimRefused, Heartbeat, EndBody, FinalizeRaised
    <2>3. ASSUME NEW k \in Job, HeartbeatLost(p, k) PROVE j \in beating[i]
        BY <2>3 DEF HeartbeatLost
    <2>4. ASSUME NEW k \in Job, Finalize(p, k) PROVE j \in beating[i]
        BY <2>4 DEF Finalize
    <2>5. ASSUME NEW k \in Job, EndTaskUnwritten(p, k) PROVE j \in beating[i]
        BY <2>5 DEF EndTaskUnwritten
    <2> QED BY <1>2, <2>1, <2>2, <2>3, <2>4, <2>5, Zenon DEF TaskStep
<1>3. ASSUME NEW p \in Instance, ProcessStep(p) PROVE j \in beating[i]
    <2>1. ASSUME BeginShutdown(p) PROVE j \in beating[i]
        BY <2>1 DEF BeginShutdown
    <2>2. ASSUME Vanish(p) PROVE j \in beating[i]
        BY <2>2 DEF Vanish
    <2>3. ASSUME Boot(p) PROVE j \in beating[i]
        BY <2>3 DEF Boot
    <2>4. ASSUME NEW k \in Job, InterruptLocal(p, k) \/ SkipLocal(p, k) PROVE j \in beating[i]
        BY <2>4 DEF InterruptLocal, SkipLocal
    <2> QED BY <1>3, <2>1, <2>2, <2>3, <2>4, Zenon DEF ProcessStep, Exit, Crash
<1>4. CASE Tick \/ UNCHANGED vars
    BY <1>4 DEF Tick, vars
<1> QED BY <1>1, <1>2, <1>3, <1>4, Zenon DEF Next

LEMMA FreshnessStep ==
    ASSUME JobInv, LeaseIsFresh, [Next]_vars, MaxHeartbeatGap <= LeaseSeconds
    PROVE  LeaseIsFresh'
<1> SUFFICES ASSUME NEW j \in Job, row'[j].status = "running", j \in beating'[row'[j].holder]
             PROVE  row'[j].left + MaxHeartbeatGap >= LeaseSeconds + 1
    BY DEF LeaseIsFresh
<1> USE DEF JobInv
<1>1. RowEdge(j) /\ row[j] \in Row
    BY RowStep DEF TypeOK
<1>2. /\ LeaseSeconds \in Nat /\ MaxHeartbeatGap \in Nat
      /\ LeaseSeconds + 1 + MaxHeartbeatGap >= LeaseSeconds + 1
    BY JobLeaseAssumption
<1>3. CASE Tick /\ row'[j] = Aged(row[j])
    <2> DEFINE h == row[j].holder
    <2>1. /\ row'[j].status = row[j].status /\ row'[j].holder = h
          /\ row'[j].left = IF row[j].left > 0 THEN row[j].left - 1 ELSE 0
        BY <1>1, <1>3, AgedRow
    <2>2. h \in Instance
        BY <1>1, <2>1 DEF LeaseOnlyWhileRunning, Row
    <2>3. j \in beating[h] /\ Beatable(row[j], h)
        BY <1>3, <2>1 DEF Tick, Beatable
    <2>4. row[j].left + MaxHeartbeatGap > LeaseSeconds + 1
        BY <1>3, <2>2, <2>3 DEF Tick, BeatsOnTime
    <2>5. row[j].left \in Nat
        BY <1>1 DEF Row
    <2> HIDE DEF h
    <2> QED BY <1>2, <2>1, <2>4, <2>5
<1>4. CASE row'[j] = row[j]
    <2>1. row[j].holder \in Instance
        BY <1>1, <1>4 DEF LeaseOnlyWhileRunning, Row
    <2>2. CASE j \in beating[row[j].holder]
        BY <1>4, <2>2 DEF LeaseIsFresh
    <2>3. CASE Claim(row[j].holder, j)
        <3>1. row'[j].left = LeaseSeconds + 1
            BY <1>1, <2>1, <2>3, LeasedRow DEF Claim, TypeOK
        <3> QED BY <1>2, <3>1
    <2> QED BY <1>4, <2>1, <2>2, <2>3, BeatingStartsWithClaim
<1>5. ASSUME NEW i \in Instance, Claim(i, j)
      PROVE  row'[j].left + MaxHeartbeatGap >= LeaseSeconds + 1
    <2>1. row'[j].left = LeaseSeconds + 1
        BY <1>1, <1>5, LeasedRow DEF Claim, TypeOK
    <2> QED BY <1>2, <2>1
<1>6. ASSUME NEW i \in Instance, Heartbeat(i, j)
      PROVE  row'[j].left + MaxHeartbeatGap >= LeaseSeconds + 1
    <2>1. row'[j].left = LeaseSeconds + 1
        BY <1>1, <1>6, RenewedRow DEF Heartbeat, TypeOK
    <2> QED BY <1>2, <2>1
<1>7. ASSUME NEW i \in Instance, Finalize(i, j) \/ InterruptLocal(i, j) PROVE FALSE
    <2>1. row'[j].status # "running"
        BY <1>1, <1>7, ClosedRow DEF Finalize, InterruptLocal, TypeOK, Verdict, Terminal
    <2> QED BY <2>1
<1>8. CASE row'[j] = Closed(row[j], "interrupted")
    BY <1>1, <1>8, ClosedRow DEF Terminal
<1>9. ASSUME NEW i \in Instance, NEW t \in Trip, Admit(i, t, j) PROVE FALSE
    BY <1>9 DEF Admit, TypeOK
<1> QED BY <1>1, <1>3, <1>4, <1>5, <1>6, <1>7, <1>8, <1>9 DEF RowEdge

\* If live processes never pause longer than a lease between two heartbeats, then a job whose
\* owner still beats is neither closed as interrupted nor taken over, however long it runs.
THEOREM TimelyHeartbeatsProtect ==
    MaxHeartbeatGap <= LeaseSeconds => (Spec => BeatingJobIsSafe)
<1> SUFFICES ASSUME MaxHeartbeatGap <= LeaseSeconds PROVE Spec => BeatingJobIsSafe
    OBVIOUS
<1>1. Init => LeaseIsFresh
    BY DEF Init, LeaseIsFresh, NoRow
<1>2. JobInv /\ LeaseIsFresh /\ [Next]_vars => LeaseIsFresh'
    BY FreshnessStep
<1>3. JobInv /\ LeaseIsFresh /\ [Next]_vars =>
        [\A j \in Job :
           row[j].status = "running" /\ j \in beating[row[j].holder]
           => row'[j].status # "interrupted" /\ row'[j].holder \in {row[j].holder, Nobody}]_vars
    <2> SUFFICES ASSUME JobInv, LeaseIsFresh, [Next]_vars, NEW j \in Job,
                        row[j].status = "running", j \in beating[row[j].holder]
                 PROVE  /\ row'[j].status # "interrupted"
                        /\ row'[j].holder \in {row[j].holder, Nobody}
        OBVIOUS
    <2> USE DEF JobInv
    <2>1. RowEdge(j) /\ row[j] \in Row
        BY RowStep DEF TypeOK
    <2>2. row[j].left > 0
        <3>1. row[j].left + MaxHeartbeatGap >= LeaseSeconds + 1 /\ row[j].left \in Nat
            BY <2>1 DEF LeaseIsFresh, Row
        <3> QED BY <3>1, JobLeaseAssumption
    <2>3. ~Recoverable(row[j]) /\ \A i \in Instance : ~Claim(i, j)
        BY <2>2 DEF Recoverable, Claimable, Claim
    <2>4. \A i \in Instance, t \in Trip : ~Admit(i, t, j)
        BY DEF Admit
    <2>5. row[j].holder \in Instance
        BY <2>1 DEF LeaseOnlyWhileRunning, Row
    <2>6. \A i \in Instance : ~InterruptLocal(i, j)
        BY <2>5 DEF InterruptLocal, Transitionable, WorkIsClaimed, LeaseOnlyWhileRunning
    <2>7. ASSUME NEW i \in Instance, Finalize(i, j)
          PROVE  row'[j].status # "interrupted" /\ row'[j].holder = Nobody
        BY <2>1, <2>7, ClosedRow DEF Finalize, TypeOK, Verdict, Terminal
    <2>8. ASSUME NEW i \in Instance, Heartbeat(i, j)
          PROVE  row'[j].status = "running" /\ row'[j].holder = row[j].holder
        BY <2>1, <2>8, RenewedRow DEF Heartbeat, TypeOK
    <2>9. row'[j] = Aged(row[j])
          => row'[j].status = "running" /\ row'[j].holder = row[j].holder
        BY <2>1, AgedRow
    <2> QED BY <2>1, <2>3, <2>4, <2>6, <2>7, <2>8, <2>9 DEF RowEdge
<1> QED BY <1>1, <1>2, <1>3, JobInvariant, PTL DEF Spec, BeatingJobIsSafe

=============================================================================
