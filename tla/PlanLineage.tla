------------------------------ MODULE PlanLineage ------------------------------
(***************************************************************************)
(* The plan of one trip in PostgreSQL mode: the state document and its     *)
(* compare-and-set write, generation and targeted regeneration, feedback   *)
(* and lock edits, immutable revisions, branches, forks and activation.    *)
(*                                                                         *)
(* Source: planning_orchestrator, targeted_regeneration_application_       *)
(* service, revision_lineage_service, itinerary_fork_service and the       *)
(* routes of api/routes/trips.py that write the document.                  *)
(*                                                                         *)
(* A job id stands for its body, for the plan content the body makes and   *)
(* for the revision its commit records: each body makes at most one of     *)
(* each.  `plan` lists the bodies that shaped the content, oldest first,   *)
(* `history` the bodies that appended a version.                           *)
(*                                                                         *)
(* lock_version is only ever compared with the value a writer read, so it  *)
(* is kept as `fresh`: the writers whose token still equals the row's.     *)
(***************************************************************************)
EXTENDS Integers, Sequences, FiniteSets

CONSTANTS
    Job,            \* generation and regeneration runs
    Feedback,       \* feedback events
    Request,        \* feedback, lock and promotion requests in flight
    Stamp,          \* moments of a hand-made promotion report; none in production
    Fork, Main,     \* branch ids: forks, and the trip's default branch
    Nothing,        \* null
    StageSaves      \* TRUE: planning_engine_mode is not "langgraph", every stage is saved

ASSUME LineageAssumption ==
    /\ Main \notin Fork
    /\ Nothing \notin Job \cup Fork \cup Stamp \cup {Main}
    /\ Job \cap Request = {}
    /\ StageSaves \in BOOLEAN

VARIABLES
    state,      \* the planning_states row
    fresh,      \* writers whose concurrency token is the row's
    body,       \* generation and regeneration runs with their private copies
    edit,       \* per request: the copy it loaded
    activeJob,  \* the trip's queued or running job row (see JobLease)
    base, head, \* itinerary_branches rows; a fork exists once it has a base
    revision    \* itinerary_revisions rows

vars == <<state, fresh, body, edit, activeJob, base, head, revision>>
lineage == <<base, head, revision>>

-----------------------------------------------------------------------------
Branch == Fork \cup {Main}
Label == Nat \ {0}

State == [plan : Seq(Job), usable : BOOLEAN, unfinished : BOOLEAN, history : Seq(Job),
          pending : Seq(Feedback), applied : SUBSET Feedback, locked : BOOLEAN,
          report : Stamp \cup {Nothing}, active : Branch]

Revision == [branch : Branch, parent : Job \cup {Nothing}, label : Label, snapshot : State]

ASSUME NothingAssumption == Nothing \notin State \cup Revision

Working == {"planning", "planned", "rechecked"}
Body == [kind : {"none", "generate", "regenerate"},
         phase : {"idle", "checked", "admitted", "done"} \cup Working,
         copy : State \cup {Nothing}]

TypeOK ==
    /\ state \in State
    /\ fresh \in SUBSET (Job \cup Request)
    /\ body \in [Job -> Body]
    /\ edit \in [Request -> State \cup {Nothing}]
    /\ activeJob \in Job \cup {Nothing}
    /\ base \in [Branch -> Job \cup {Nothing}]
    /\ head \in [Branch -> Job \cup {Nothing}]
    /\ revision \in [Job -> Revision \cup {Nothing}]

\* create_trip: a draft with no plan and no version, on the default branch.
Draft == [plan |-> <<>>, usable |-> FALSE, unfinished |-> FALSE, history |-> <<>>,
          pending |-> <<>>, applied |-> {}, locked |-> FALSE, report |-> Nothing,
          active |-> Main]

BodyAt(kind, phase, copy) == [kind |-> kind, phase |-> phase, copy |-> copy]
Ended == BodyAt("none", "done", Nothing)

Init ==
    /\ state = Draft
    /\ fresh = {}
    /\ body = [j \in Job |-> BodyAt("none", "idle", Nothing)]
    /\ edit = [q \in Request |-> Nothing]
    /\ activeJob = Nothing
    /\ base = [b \in Branch |-> Nothing]
    /\ head = [b \in Branch |-> Nothing]
    /\ revision = [j \in Job |-> Nothing]

-----------------------------------------------------------------------------
(* Reading the document                                                    *)

BadVersionFromZero(s) == IF s.history = <<>> THEN 1 ELSE Len(s.history) - 1

\* metadata.current_version: "v1" before the first version, then v<number of versions>.
Version(s) == IF s.history = <<>> THEN 1 ELSE Len(s.history)

HasUsablePlan(s) == s.history # <<>> /\ s.usable

\* build_workspace_consistency_projection: everything but feedback, locks, audit, branch.
Content(s) == <<s.plan, s.usable, s.unfinished, s.history, s.report>>

Revisions == {j \in Job : revision[j] # Nothing}

BadConsistentByLabel(s) ==
    head[s.active] # Nothing => revision[head[s.active]].label = Version(s)

\* check_branch_head_consistency.
Consistent(s) ==
    head[s.active] # Nothing =>
        /\ revision[head[s.active]].label = Version(s)
        /\ Content(revision[head[s.active]].snapshot) = Content(s)

-----------------------------------------------------------------------------
(* Writing the document                                                    *)

BadCurrentAlways(w) == TRUE

\* The compare-and-set of save: the row has not been written since w read or wrote it.
Current(w) == w \in fresh

\* A successful save; `keep` are the writers that hold the new token.
Write(s, keep) == state' = s /\ fresh' = keep

BadRecordedNever(b, label) == FALSE

\* get_revision_by_branch_and_version.
Recorded(b, label) ==
    \E r \in Revisions : revision[r].branch = b /\ revision[r].label = label

BadParentOfUnset(b) == Nothing

ParentOf(b) == head[b]

\* commit_state_with_revision: state, revision and branch head in one transaction.  The head
\* is compared with the parent read in the same transaction, after the state row was written
\* and so locked: it cannot have moved.
CommitWithRevision(j, s) ==
    /\ Current(j)
    /\ Write(s, {})
    /\ IF Recorded(s.active, Version(s))
       THEN UNCHANGED <<head, revision>>
       ELSE /\ revision' = [revision EXCEPT ![j] =
                  [branch |-> s.active, parent |-> ParentOf(s.active),
                   label |-> Version(s), snapshot |-> s]]
            /\ head' = [head EXCEPT ![s.active] = j]
    /\ UNCHANGED base

-----------------------------------------------------------------------------
(* Requests that start a run; the job row.  Without background jobs the    *)
(* same steps happen in one request and the row is as good as closed.      *)

\* ensure_plan_not_yet_generated.
RequestGeneration(j) ==
    /\ body[j].phase = "idle"
    /\ ~HasUsablePlan(state)
    /\ body' = [body EXCEPT ![j] = BodyAt("generate", "checked", Nothing)]
    /\ UNCHANGED <<state, fresh, edit, activeJob, lineage>>

\* regenerate_trip_plan up to the targeted engine.
RequestRegeneration(j) ==
    /\ body[j].phase = "idle"
    /\ ~state.locked
    /\ state.pending # <<>>
    /\ body' = [body EXCEPT ![j] = BodyAt("regenerate", "checked", Nothing)]
    /\ UNCHANGED <<state, fresh, edit, activeJob, lineage>>

\* A refused request (unconfirmed, locked, nothing pending) appends an audit record.
RecordRefusal ==
    /\ Write(state, {})
    /\ UNCHANGED <<body, edit, activeJob, lineage>>

Admit(j) ==
    /\ body[j].phase = "checked"
    /\ activeJob = Nothing
    /\ activeJob' = j
    /\ body' = [body EXCEPT ![j].phase = "admitted"]
    /\ UNCHANGED <<state, fresh, edit, lineage>>

\* 409 at admission, or the claim finds the row closed.
TurnAway(j) ==
    /\ \/ body[j].phase = "checked" /\ activeJob # Nothing
       \/ body[j].phase = "admitted" /\ activeJob # j
    /\ body' = [body EXCEPT ![j] = Ended]
    /\ UNCHANGED <<state, fresh, edit, activeJob, lineage>>

\* The row settles: after its body ended, or while a body whose lease ran out goes on.
CloseJob ==
    /\ activeJob # Nothing
    /\ activeJob' = Nothing
    /\ UNCHANGED <<state, fresh, body, edit, lineage>>

-----------------------------------------------------------------------------
(* Generation                                                              *)

Generating(j) == body[j].kind = "generate"

\* Load and mark GENERATING: `unfinished` is every pipeline_status short of a validated plan.
StartGeneration(j) ==
    LET s == [state EXCEPT !.unfinished = TRUE]
    IN  /\ Generating(j) /\ body[j].phase = "admitted" /\ activeJob = j
        /\ Write(s, {j})
        /\ body' = [body EXCEPT ![j] = BodyAt("generate", "planning", s)]
        /\ UNCHANGED <<edit, activeJob, lineage>>

\* A run's own promotion report is part of what `plan` stands for; one made by hand stays.
PartlyPlanned(j, usable, unfinished) ==
    [body[j].copy EXCEPT !.plan = <<j>>, !.usable = usable, !.unfinished = unfinished]

\* The legacy engine saves after each stage; the last one, validation, sets the final status.
SaveStage(j, usable, unfinished) ==
    /\ StageSaves
    /\ Generating(j) /\ body[j].phase = "planning" /\ body[j].copy.unfinished
    /\ Current(j)
    /\ Write(PartlyPlanned(j, usable, unfinished), {j})
    /\ body' = [body EXCEPT ![j].copy = PartlyPlanned(j, usable, unfinished)]
    /\ UNCHANGED <<edit, activeJob, lineage>>

\* The pipeline ends, in memory; create_initial_version adds v1 only to an empty history.
EndPlanning(j, usable) ==
    /\ Generating(j) /\ body[j].phase = "planning"
    /\ StageSaves => ~body[j].copy.unfinished /\ usable = body[j].copy.usable
    /\ body' = [body EXCEPT ![j].phase = "planned",
                            ![j].copy = [PartlyPlanned(j, usable, FALSE) EXCEPT
                                !.history = IF @ = <<>> THEN <<j>> ELSE @]]
    /\ UNCHANGED <<state, fresh, edit, activeJob, lineage>>

CommitGeneration(j) ==
    /\ Generating(j) /\ body[j].phase = "planned"
    /\ CommitWithRevision(j, body[j].copy)
    /\ body' = [body EXCEPT ![j] = Ended]
    /\ UNCHANGED <<edit, activeJob>>

\* A stage that raises may have changed the copy in place.
InMemory(j) ==
    IF body[j].phase = "planning" /\ body[j].copy.unfinished
    THEN {body[j].copy} \cup {PartlyPlanned(j, u, f) : u, f \in BOOLEAN}
    ELSE {body[j].copy}

\* Any exception, one raised by the commit included: _save_failed_progress writes the state
\* as it is in memory, unless somebody else wrote since.
FailGeneration(j) ==
    /\ Generating(j) /\ body[j].phase \in {"planning", "planned"}
    /\ IF Current(j) THEN \E s \in InMemory(j) : Write(s, {})
                     ELSE UNCHANGED <<state, fresh>>
    /\ body' = [body EXCEPT ![j] = Ended]
    /\ UNCHANGED <<edit, activeJob, lineage>>

\* The process dies, or a regeneration's commit is refused or fails: nothing is written.
Stop(j) ==
    /\ body[j].phase \in {"checked", "admitted"} \cup Working
    /\ body' = [body EXCEPT ![j] = Ended]
    /\ fresh' = fresh \ {j}
    /\ UNCHANGED <<state, edit, activeJob, lineage>>

-----------------------------------------------------------------------------
(* Targeted regeneration                                                   *)

Regenerating(j) == body[j].kind = "regenerate"

\* The refusals of _regenerate before any model is asked.
Regenerable(s) == Consistent(s) /\ s.pending # <<>> /\ ~s.locked /\ s.plan # <<>>

LoadRegeneration(j) ==
    /\ Regenerating(j) /\ body[j].phase = "admitted" /\ activeJob = j
    /\ Regenerable(state)
    /\ body' = [body EXCEPT ![j] = BodyAt("regenerate", "planning", state)]
    /\ fresh' = fresh \cup {j}
    /\ UNCHANGED <<state, edit, activeJob, lineage>>

\* An unusable plan may lack its experience plan.
RefuseRegeneration(j) ==
    /\ Regenerating(j) /\ body[j].phase = "admitted" /\ activeJob = j
    /\ ~Regenerable(state) \/ ~state.usable
    /\ Write(state, {})
    /\ body' = [body EXCEPT ![j] = Ended]
    /\ UNCHANGED <<edit, activeJob, lineage>>

\* The model is not available, asks back, fails, or changes nothing: the loaded state is
\* saved with an audit record, or a concurrent write makes the save raise.
BlockRegeneration(j) ==
    /\ Regenerating(j) /\ body[j].phase \in {"planning", "rechecked"}
    /\ IF Current(j) THEN Write(body[j].copy, {}) ELSE UNCHANGED <<state, fresh>>
    /\ body' = [body EXCEPT ![j] = Ended]
    /\ UNCHANGED <<edit, activeJob, lineage>>

EndExecution(j) ==
    /\ Regenerating(j) /\ body[j].phase = "planning"
    /\ body' = [body EXCEPT ![j].phase = "planned"]
    /\ UNCHANGED <<state, fresh, edit, activeJob, lineage>>

\* current_on_disk, read again before the commit.
StillRegenerable(j) == Version(state) = Version(body[j].copy) /\ ~state.locked

BadTokenRefreshed(j) == fresh \cup {j}

\* The re-read state is looked at, never adopted: the commit keeps its first token.
TokenAfterRecheck(j) == fresh

Recheck(j) ==
    /\ Regenerating(j) /\ body[j].phase = "planned"
    /\ StillRegenerable(j)
    /\ fresh' = TokenAfterRecheck(j)
    /\ body' = [body EXCEPT ![j].phase = "rechecked"]
    /\ UNCHANGED <<state, edit, activeJob, lineage>>

\* _save_audit_best_effort on the re-read state.
RefuseAtRecheck(j) ==
    /\ Regenerating(j) /\ body[j].phase = "planned"
    /\ ~StillRegenerable(j)
    /\ Write(state, {})
    /\ body' = [body EXCEPT ![j] = Ended]
    /\ UNCHANGED <<edit, activeJob, lineage>>

\* The oldest pending event is applied and a version appended.
Regenerated(j) ==
    LET s == body[j].copy
    IN  [s EXCEPT !.plan = Append(@, j), !.history = Append(@, j),
                  !.pending = Tail(@), !.applied = @ \cup {Head(s.pending)}]

CommitRegeneration(j) ==
    /\ Regenerating(j) /\ body[j].phase = "rechecked"
    /\ CommitWithRevision(j, Regenerated(j))
    /\ body' = [body EXCEPT ![j] = Ended]
    /\ UNCHANGED <<edit, activeJob>>

-----------------------------------------------------------------------------
(* Edits: load, change the copy, save                                      *)

LoadEdit(q) ==
    /\ edit[q] = Nothing
    /\ edit' = [edit EXCEPT ![q] = state]
    /\ fresh' = fresh \cup {q}
    /\ UNCHANGED <<state, body, activeJob, lineage>>

SaveEdit(q, s) ==
    /\ Current(q)
    /\ Write(s, {})
    /\ edit' = [edit EXCEPT ![q] = Nothing]
    /\ UNCHANGED <<body, activeJob, lineage>>

\* Feedback ids are new: used in no state the trip ever had.
Submitted(f) ==
    \E s \in {state} \cup {revision[r].snapshot : r \in Revisions} :
        f \in s.applied \/ \E n \in 1..Len(s.pending) : s.pending[n] = f

ApplyFeedback(q, f) ==
    /\ edit[q] # Nothing
    /\ ~Submitted(f)
    /\ SaveEdit(q, [edit[q] EXCEPT !.pending = Append(@, f)])

CreateLock(q) == edit[q] # Nothing /\ SaveEdit(q, [edit[q] EXCEPT !.locked = TRUE])

DeleteLock(q) ==
    /\ edit[q] # Nothing /\ edit[q].locked
    /\ SaveEdit(q, [edit[q] EXCEPT !.locked = FALSE])

\* A stamp is new: it is in no state that was kept.
Recomputed(st) ==
    \E s \in {state} \cup {revision[r].snapshot : r \in Revisions} : s.report = st

\* promote_ai_candidates, outside production: new content under the version of the old one.
Promote(q, st) ==
    /\ edit[q] # Nothing
    /\ ~Recomputed(st)
    /\ SaveEdit(q, [edit[q] EXCEPT !.report = st])

\* 409 CONCURRENT_UPDATE, 404, or the request dies.
DropEdit(q) ==
    /\ edit[q] # Nothing
    /\ edit' = [edit EXCEPT ![q] = Nothing]
    /\ fresh' = fresh \ {q}
    /\ UNCHANGED <<state, body, activeJob, lineage>>

-----------------------------------------------------------------------------
(* Branches                                                                *)

CreateFork(b, source) ==
    /\ base[b] = Nothing
    /\ source \in Revisions
    /\ base' = [base EXCEPT ![b] = source]
    /\ head' = [head EXCEPT ![b] = source]
    /\ UNCHANGED <<state, fresh, body, edit, activeJob, revision>>

\* The guards of _activate_branch, on the locked state row.
Switchable ==
    /\ state.pending = <<>>
    /\ ~state.locked
    /\ activeJob = Nothing
    /\ Consistent(state)

BadRestoredPointerOnly(b) == [state EXCEPT !.active = b]
BadRestoredOldBranch(b) == revision[head[b]].snapshot

Restored(b) == [revision[head[b]].snapshot EXCEPT !.active = b]

BadTokensKept == fresh

\* Every token is stale after the activation's write.
TokensAfterActivation == {}

Activate(b) ==
    /\ head[b] # Nothing
    /\ Switchable
    /\ Write(Restored(b), TokensAfterActivation)
    /\ UNCHANGED <<body, edit, activeJob, lineage>>

-----------------------------------------------------------------------------
GenerationStep(j) ==
    \/ RequestGeneration(j)
    \/ StartGeneration(j)
    \/ \E u, f \in BOOLEAN : SaveStage(j, u, f)
    \/ \E u \in BOOLEAN : EndPlanning(j, u)
    \/ CommitGeneration(j)
    \/ FailGeneration(j)

RegenerationStep(j) ==
    \/ RequestRegeneration(j)
    \/ LoadRegeneration(j)
    \/ RefuseRegeneration(j)
    \/ BlockRegeneration(j)
    \/ EndExecution(j)
    \/ Recheck(j)
    \/ RefuseAtRecheck(j)
    \/ CommitRegeneration(j)

EditStep(q) ==
    \/ LoadEdit(q)
    \/ \E f \in Feedback : ApplyFeedback(q, f)
    \/ CreateLock(q)
    \/ DeleteLock(q)
    \/ \E st \in Stamp : Promote(q, st)
    \/ DropEdit(q)

BranchStep ==
    \/ \E b \in Fork, r \in Job : CreateFork(b, r)
    \/ \E b \in Branch : Activate(b)

Next ==
    \/ \E j \in Job : \/ Admit(j) \/ TurnAway(j) \/ Stop(j)
                      \/ GenerationStep(j) \/ RegenerationStep(j)
    \/ \E q \in Request : EditStep(q)
    \/ BranchStep
    \/ RecordRefusal
    \/ CloseJob

Spec == Init /\ [][Next]_vars

-----------------------------------------------------------------------------
(* Properties                                                              *)

Pending(s) == {s.pending[n] : n \in 1..Len(s.pending)}

\* An accepted feedback event stays pending until a version applies it: no job, lock, audit
\* record or branch switch that loaded the document earlier overwrites it (save, activation).
NoFeedbackLost ==
    [][\A f \in Pending(state) : f \in Pending(state') \cup state'.applied]_vars

\* A regeneration never changes the plan while a lock is active, even one created after its
\* last look at the document (_regenerate, the re-check and the commit).
LocksRespected ==
    [][\A j \in Job :
         Regenerating(j) /\ body'[j] # body[j] /\ state'.plan # state.plan => ~state.locked]_vars

\* Only an activation moves the trip to another branch: a run or an edit that was loaded on the
\* branch left behind never brings it back (_activate_branch).
OnlyActivationSwitches ==
    [][state'.active # state.active => body' = body /\ edit' = edit]_vars

\* Revisions are immutable, a fork never moves its base, and a head only ever moves to a new
\* revision whose parent is the old head (_record_current_revision, update_branch_head).
LineageAppendOnly ==
    [][/\ \A r \in Revisions : revision'[r] = revision[r]
       /\ \A b \in Branch :
            /\ base[b] # Nothing => base'[b] = base[b]
            /\ head'[b] # head[b] =>
                 \/ head[b] = Nothing /\ base[b] = Nothing /\ head'[b] = base'[b]
                 \/ /\ head'[b] \notin Revisions
                    /\ revision'[head'[b]].branch = b
                    /\ revision'[head'[b]].parent = head[b]]_vars

\* The revisions of a branch form one chain from its base to its head, one per version label,
\* whoever committed, retried or forked (uq on branch and version, head compare-and-set).
BranchIsAChain ==
    \A b \in Branch :
        LET own == {r \in Revisions : revision[r].branch = b}
        IN  /\ \A r, q \in own : r # q =>
                 /\ revision[r].label # revision[q].label
                 /\ revision[r].parent # revision[q].parent
            /\ \A r \in own : revision[r].parent \in own \cup {base[b]}
            /\ head[b] \in own \cup {base[b]}
            /\ \A r \in own : revision[r].parent # head[b]

\* A revision is its parent and exactly one more step: one version, one applied feedback event,
\* worked out from the very content its parent holds (or, on a fork of an unusable plan, the
\* plan's first real content under the inherited version).
RevisionExtendsParent ==
    \A r \in Revisions :
        revision[r].parent # Nothing =>
            LET new == revision[r].snapshot
                old == revision[revision[r].parent].snapshot
            IN  \/ /\ new.history = Append(old.history, r)
                   /\ new.plan = Append(old.plan, r)
                   /\ \E f \in Feedback \ old.applied : new.applied = old.applied \cup {f}
                \/ /\ new.history = old.history
                   /\ new.plan = <<r>>
                   /\ new.applied = old.applied

\* The live document and the head of its branch never disagree about the version: state,
\* revision and head advance together or not at all (commit_state_with_revision).
VersionMatchesHead ==
    head[state.active] # Nothing => revision[head[state.active]].label = Version(state)

\* The live content stops being what the head revision holds in two ways only: a generation
\* makes it differ, or a request that replaces nothing but the promotion report (so, in
\* production, only a generation).  Feedback, locks, regenerations, forks and switches never do.
DriftHasTwoCauses ==
    [][Consistent(state) /\ ~Consistent(state)' =>
         \/ \E j \in Job : Generating(j) /\ body'[j] # body[j]
         \/ \E q \in Request :
               edit'[q] # edit[q] /\ state' = [state EXCEPT !.report = state'.report]]_vars

\* "No user action may change a trip's saved itinerary content without the revision that
\* records it" (tests/api/test_revision_integrity_batch2.py).
ContentIsRecorded ==
    HasUsablePlan(state) /\ ~state.unfinished /\ (\A j \in Job : body[j].phase \notin Working) => Consistent(state)

\* "No state advanced without its revision" (commit_state_with_revision).
NoVersionWithoutRevision == state.history # <<>> => head[state.active] # Nothing

\* Runs and edits that worked on copies of the document for as long as they liked, and were
\* killed, retried or overtaken, leave the rows as if each had worked in one step on the
\* document it found at its commit (lock_version, the re-check, _activate_branch).
Serial == INSTANCE SerialTrip

SerialSpec == Serial!Spec

=============================================================================
