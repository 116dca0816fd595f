---------------------------- MODULE JobLifecycle ----------------------------
(***************************************************************************)
(* What a generation job promises to whoever polls it, with no lease, no   *)
(* process and no clock: it is queued, possibly runs, and settles once;    *)
(* while it is queued or running no second job of its trip exists.  A      *)
(* settled job can only disappear, with its trip.                          *)
(*                                                                         *)
(* Source: GenerationJobStatus and the mark_job_* functions of             *)
(* src/backend/app/models/generation_job.py.  "interrupted" is the code's  *)
(* status `failed` with error_code JOB_INTERRUPTED; `cancelled` has a      *)
(* constructor but no caller in src/, so no action produces it.            *)
(***************************************************************************)

CONSTANTS Job, Trip, NoTrip

VARIABLES status, tripOf

Active == {"queued", "running"}
Terminal == {"succeeded", "failed", "interrupted"}
Status == {"absent", "deleted"} \cup Active \cup Terminal

TypeOK ==
    /\ status \in [Job -> Status]
    /\ tripOf \in [Job -> Trip \cup {NoTrip}]

Init ==
    /\ status = [j \in Job |-> "absent"]
    /\ tripOf = [j \in Job |-> NoTrip]

Enqueue(j, t) ==
    /\ status[j] = "absent"
    /\ \A k \in Job : tripOf[k] = t => status[k] \notin Active
    /\ status' = [status EXCEPT ![j] = "queued"]
    /\ tripOf' = [tripOf EXCEPT ![j] = t]

Begin(j) ==
    /\ status[j] = "queued"
    /\ status' = [status EXCEPT ![j] = "running"]
    /\ UNCHANGED tripOf

\* Several jobs can settle at once: recovery closes every abandoned job of a scope.
Settle(S, outcome) ==
    /\ \A j \in S : status[j] \in Active
    /\ status' = [j \in Job |-> IF j \in S THEN outcome ELSE status[j]]
    /\ UNCHANGED tripOf

\* Deleting a trip erases its jobs, all of them settled.
Erase(S) ==
    /\ \A j \in S : status[j] \in Terminal
    /\ status' = [j \in Job |-> IF j \in S THEN "deleted" ELSE status[j]]
    /\ UNCHANGED tripOf

Next ==
    \/ \E j \in Job, t \in Trip : Enqueue(j, t)
    \/ \E j \in Job : Begin(j)
    \/ \E S \in SUBSET Job, outcome \in Terminal : Settle(S, outcome)
    \/ \E S \in SUBSET Job : Erase(S)

Spec == Init /\ [][Next]_<<status, tripOf>>

=============================================================================
