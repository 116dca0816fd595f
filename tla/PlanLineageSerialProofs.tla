----------------------- MODULE PlanLineageSerialProofs -----------------------
(***************************************************************************)
(* PlanLineage implements SerialTrip: runs and edits on copies, with       *)
(* tokens, leave the same rows as operations that take one step each - for *)
(* every set of runs, feedback events, requests and forks.                 *)
(***************************************************************************)
EXTENDS PlanLineageProofs

-----------------------------------------------------------------------------
(* What a generation has made, and of which document                        *)

Shown(s, j, u, f) == [s EXCEPT !.plan = <<j>>, !.usable = u, !.unfinished = f]

Finished(s, j) == [s EXCEPT !.history = IF @ = <<>> THEN <<j>> ELSE @]

Made(s, j, u) == Finished(Shown(s, j, u, FALSE), j)

\* The document is marked as being planned, or is the plan that run j has validated.
Underway(s, j) == s.unfinished \/ s.plan = <<j>>

\* A generation at work has marked its document, and what waits for the commit under a current
\* token was made of the row as it is.
Attributed(j) ==
    Generating(j) =>
        /\ body[j].phase = "planning" => Underway(body[j].copy, j)
        /\ body[j].phase = "planned" /\ j \in fresh =>
              Underway(state, j) /\ \E u \in BOOLEAN : body[j].copy = Made(state, j, u)

CopiesAttributed == \A j \in Job : Attributed(j)

LEMMA FieldsOfMade ==
    ASSUME NEW s \in State, NEW j \in Job, NEW u \in BOOLEAN
    PROVE  /\ Made(s, j, u) \in State
           /\ Made(s, j, u).active = s.active
           /\ Made(s, j, u) = [s EXCEPT !.plan = <<j>>, !.usable = u, !.unfinished = FALSE,
                                        !.history = IF @ = <<>> THEN <<j>> ELSE @]
<1>1. <<j>> \in Seq(Job)
    OBVIOUS
<1>2. /\ Shown(s, j, u, FALSE) \in State /\ Shown(s, j, u, FALSE).active = s.active
      /\ Shown(s, j, u, FALSE).history = s.history
    BY <1>1 DEF Shown, State
<1>3. Made(s, j, u) \in State /\ Made(s, j, u).active = s.active
    BY <1>1, <1>2 DEF Made, Finished, State
<1>4. Made(s, j, u) = [s EXCEPT !.plan = <<j>>, !.usable = u, !.unfinished = FALSE,
                                !.history = IF @ = <<>> THEN <<j>> ELSE @]
    BY <1>1 DEF Made, Finished, Shown, State
<1> QED BY <1>3, <1>4

-----------------------------------------------------------------------------
(* The attribution is an invariant                                          *)

\* One actor moves: it keeps the row as it is, or no token but its own survives.
LEMMA OthersAttributed ==
    ASSUME CopiesAttributed, NEW k,
           \A j \in Job : j # k => body'[j] = body[j],
           \/ state' = state /\ fresh' \subseteq fresh \cup {k}
           \/ fresh' \subseteq {k},
           k \in Job => Attributed(k)'
    PROVE  CopiesAttributed'
<1> SUFFICES ASSUME NEW j \in Job, j # k PROVE Attributed(j)'
    BY DEF CopiesAttributed
<1>1. Attributed(j) /\ body'[j] = body[j] /\ (j \in fresh' => j \in fresh /\ state' = state)
    BY DEF CopiesAttributed
<1> QED BY <1>1 DEF Attributed, Underway, Generating, Made, Finished, Shown

LEMMA EndedAttributed ==
    ASSUME NEW k, k \in Job => body'[k].phase \notin {"planning", "planned"}
    PROVE  k \in Job => Attributed(k)'
    BY DEF Attributed

LEMMA ControlAttributed ==
    ASSUME Base, CopiesAttributed, NEW k \in Job,
           Admit(k) \/ TurnAway(k) \/ Stop(k) \/ RequestGeneration(k) \/ RequestRegeneration(k)
               \/ EndExecution(k) \/ Recheck(k)
    PROVE  CopiesAttributed'
<1>1. /\ \A j \in Job : j # k => body'[j] = body[j]
      /\ state' = state /\ fresh' \subseteq fresh \cup {k}
    BY DEF Admit, TurnAway, Stop, RequestGeneration, RequestRegeneration, EndExecution, Recheck,
           TokenAfterRecheck, Base, TypeOK
<1>2. Attributed(k)'
    <2>1. CASE TurnAway(k) \/ Stop(k)
        BY <2>1, EndedBody, EndedAttributed DEF TurnAway, Stop, Base, TypeOK
    <2>2. CASE Admit(k) \/ RequestGeneration(k) \/ RequestRegeneration(k)
        <3>1. body'[k].phase \in {"admitted", "checked"}
            BY <2>2 DEF Admit, RequestGeneration, RequestRegeneration, BodyAt, Base, TypeOK, Body
        <3> QED BY <3>1 DEF Attributed
    <2>3. CASE EndExecution(k) \/ Recheck(k)
        <3>1. body'[k].kind = "regenerate"
            BY <2>3 DEF EndExecution, Recheck, Regenerating, Base, TypeOK, Body
        <3> QED BY <3>1 DEF Attributed, Generating
    <2> QED BY <2>1, <2>2, <2>3
<1> QED BY <1>1, <1>2, OthersAttributed

LEMMA GenerationAttributed ==
    ASSUME Base, CopiesAttributed, NEW k \in Job, GenerationStep(k)
    PROVE  CopiesAttributed'
<1> USE DEF Base
<1>1. CASE RequestGeneration(k)
    BY <1>1, ControlAttributed
<1>2. CASE StartGeneration(k)
    <2> DEFINE s == [state EXCEPT !.unfinished = TRUE]
    <2>1. s.unfinished
        BY DEF TypeOK, State
    <2>2. /\ body'[k] = BodyAt("generate", "planning", s) /\ fresh' = {k}
          /\ \A j \in Job : j # k => body'[j] = body[j]
        BY <1>2 DEF StartGeneration, Write, TypeOK
    <2> HIDE DEF s
    <2>3. Attributed(k)'
        BY <2>1, <2>2 DEF Attributed, Underway, BodyAt
    <2> QED BY <2>2, <2>3, OthersAttributed
<1>3. ASSUME NEW u \in BOOLEAN, NEW f \in BOOLEAN, SaveStage(k, u, f) PROVE CopiesAttributed'
    <2> DEFINE s == PartlyPlanned(k, u, f)
    <2>1. body[k].copy \in State /\ body[k].phase = "planning"
        BY <1>3 DEF SaveStage, Loaded, LoadedBody, Working
    <2>2. s.plan = <<k>>
        BY <2>1, PlannedState
    <2>3. /\ body'[k] = [body[k] EXCEPT !.copy = s] /\ fresh' = {k}
          /\ \A j \in Job : j # k => body'[j] = body[j]
        BY <1>3 DEF SaveStage, Write, TypeOK
    <2> HIDE DEF s
    <2>4. body'[k].copy = s /\ body'[k].phase = "planning"
        BY <2>1, <2>3 DEF TypeOK, Body
    <2>5. Attributed(k)'
        BY <2>2, <2>4 DEF Attributed, Underway
    <2> QED BY <2>3, <2>5, OthersAttributed
<1>4. ASSUME NEW u \in BOOLEAN, EndPlanning(k, u) PROVE CopiesAttributed'
    <2> DEFINE t == Finished(PartlyPlanned(k, u, FALSE), k)
    <2>1. Attributed(k) /\ Generating(k) /\ body[k].phase = "planning" /\ JobToken(k)
        BY <1>4 DEF EndPlanning, CopiesAttributed, Tokens
    <2>2. /\ body'[k].copy = t /\ body'[k].phase = "planned" /\ UNCHANGED <<state, fresh>>
          /\ \A j \in Job : j # k => body'[j] = body[j]
        BY <1>4 DEF EndPlanning, Finished, TypeOK, Body
    <2>3. ASSUME k \in fresh
          PROVE  Underway(state, k) /\ t = Made(state, k, u)
        <3>1. body[k].copy = state /\ Underway(state, k)
            BY <2>1, <2>3 DEF JobToken, Attributed
        <3>2. PartlyPlanned(k, u, FALSE) = Shown(state, k, u, FALSE)
            BY <3>1 DEF PartlyPlanned, Shown
        <3> QED BY <3>1, <3>2 DEF Made
    <2> HIDE DEF t
    <2>4. Attributed(k)'
        <3>1. k \in fresh' => Underway(state, k)' /\ body'[k].copy = Made(state, k, u)
            BY <2>2, <2>3 DEF Underway
        <3>2. Made(state, k, u)' = Made(state, k, u)
            BY <2>2 DEF Made, Finished, Shown
        <3> QED BY <2>2, <3>1, <3>2 DEF Attributed
    <2> QED BY <2>2, <2>4, OthersAttributed
<1>5. CASE CommitGeneration(k) \/ FailGeneration(k)
    <2>1. /\ body'[k].phase = "done" /\ (fresh' = {} \/ UNCHANGED <<state, fresh>>)
          /\ \A j \in Job : j # k => body'[j] = body[j]
        BY <1>5, EndedBody
            DEF CommitGeneration, FailGeneration, CommitWithRevision, Write, TypeOK
    <2> QED BY <2>1, EndedAttributed, OthersAttributed
<1> QED BY <1>1, <1>2, <1>3, <1>4, <1>5, Zenon DEF GenerationStep

LEMMA RegenerationAttributed ==
    ASSUME Base, CopiesAttributed, NEW k \in Job, RegenerationStep(k)
    PROVE  CopiesAttributed'
<1> USE DEF Base
<1>1. CASE RequestRegeneration(k) \/ EndExecution(k) \/ Recheck(k)
    BY <1>1, ControlAttributed
<1>2. CASE LoadRegeneration(k)
    <2>1. /\ body'[k] = BodyAt("regenerate", "planning", state)
          /\ state' = state /\ fresh' = fresh \cup {k}
          /\ \A j \in Job : j # k => body'[j] = body[j]
        BY <1>2 DEF LoadRegeneration, TypeOK
    <2>2. Attributed(k)'
        BY <2>1 DEF Attributed, Generating, BodyAt
    <2> QED BY <2>1, <2>2, OthersAttributed
<1>3. CASE RefuseRegeneration(k) \/ BlockRegeneration(k) \/ RefuseAtRecheck(k) \/ CommitRegeneration(k)
    <2>1. /\ body'[k].phase = "done" /\ (fresh' = {} \/ UNCHANGED <<state, fresh>>)
          /\ \A j \in Job : j # k => body'[j] = body[j]
        BY <1>3, EndedBody
            DEF RefuseRegeneration, BlockRegeneration, RefuseAtRecheck, CommitRegeneration,
                CommitWithRevision, Write, TypeOK
    <2> QED BY <2>1, EndedAttributed, OthersAttributed
<1> QED BY <1>1, <1>2, <1>3 DEF RegenerationStep

LEMMA AttributionStep ==
    ASSUME Base, CopiesAttributed, [Next]_vars
    PROVE  CopiesAttributed'
<1>1. ASSUME NEW k \in Job,
             Admit(k) \/ TurnAway(k) \/ Stop(k) \/ GenerationStep(k) \/ RegenerationStep(k)
      PROVE  CopiesAttributed'
    BY <1>1, ControlAttributed, GenerationAttributed, RegenerationAttributed
<1>2. ASSUME NEW q \in Request, EditStep(q) PROVE CopiesAttributed'
    <2>1. q \notin Job
        BY LineageAssumption
    <2>2. body' = body /\ (fresh' = {} \/ (state' = state /\ fresh' \subseteq fresh \cup {q}))
        BY <1>2 DEF EditStep, LoadEdit, ApplyFeedback, CreateLock, DeleteLock, Promote, DropEdit, SaveEdit, Write
    <2> QED BY <2>1, <2>2, OthersAttributed
<1>3. CASE BranchStep \/ RecordRefusal \/ CloseJob \/ UNCHANGED vars
    <2>1. body' = body /\ (fresh' = {} \/ UNCHANGED <<state, fresh>>)
        BY <1>3 DEF BranchStep, CreateFork, Activate, TokensAfterActivation, RecordRefusal, CloseJob,
                    Write, vars
    <2> QED BY <2>1, OthersAttributed, LineageAssumption
<1> QED BY <1>1, <1>2, <1>3, Zenon DEF Next

\* All the invariants the mapping needs.
SerialInv == TripInv /\ CopiesAttributed

LEMMA SerialInvariant == Spec => []SerialInv
<1>1. Init => CopiesAttributed
    BY DEF Init, CopiesAttributed, Attributed, Generating, BodyAt
<1>2. TripInv /\ CopiesAttributed /\ [Next]_vars => CopiesAttributed'
    BY AttributionStep DEF TripInv, LineageInv
<1> QED BY <1>1, <1>2, TripInvariant, PTL DEF Spec, SerialInv

-----------------------------------------------------------------------------
(* Every step is a step of SerialTrip or leaves its rows alone              *)

SerialStep == Serial!Next \/ UNCHANGED <<state, base, head, revision>>

LEMMA SilentStep ==
    ASSUME state' = state, UNCHANGED lineage
    PROVE  SerialStep
    BY DEF SerialStep, lineage

LEMMA GeneratedIsMade ==
    ASSUME state \in State, NEW j \in Job, NEW u \in BOOLEAN
    PROVE  Serial!Generated(j, u) = Made(state, j, u)
    BY FieldsOfMade, ZenonT(40) DEF Serial!Generated

\* Saving what a generation shows of its plan without a revision.
LEMMA ShowSerial ==
    ASSUME NEW j \in Job, NEW u \in BOOLEAN, NEW f \in BOOLEAN, state.unfinished,
           UNCHANGED lineage, state' = Shown(state, j, u, f)
    PROVE  SerialStep
<1>1. Serial!Show(j, u, f)
    BY DEF Serial!Show, Serial!Edit, Shown, lineage
<1> QED BY <1>1 DEF SerialStep, Serial!Next

\* Saving all of it without a revision.
LEMMA MakeSerial ==
    ASSUME state \in State, NEW j \in Job, NEW u \in BOOLEAN, Underway(state, j),
           revision[j] = Nothing, UNCHANGED lineage, state' = Made(state, j, u)
    PROVE  SerialStep
<1>1. Serial!Generate(j, u)
    BY GeneratedIsMade DEF Serial!Generate, Serial!Edit, Underway, lineage
<1> QED BY <1>1 DEF SerialStep, Serial!Next

\* A recorded commit is the same record, of a version that the branch did not have.
LEMMA RecordSerial ==
    ASSUME LineageInv, NEW j \in Job, NEW s \in State, s.active = state.active, Records(j, s)
    PROVE  Serial!Record(j, s)
<1>1. revision[j] = Nothing
    BY DEF Records, Revisions
<1>2. \A r \in Serial!Revisions : revision[r].branch = s.active => revision[r].label # Serial!Version(s)
    BY DEF Records, Recorded, Revisions, Version, Serial!Revisions, Serial!Version
<1>3. NewRevision(s) = [branch |-> s.active, parent |-> head[s.active],
                        label |-> Serial!Version(s), snapshot |-> s]
    BY DEF NewRevision, Version, Serial!Version
<1>4. /\ state' = s /\ revision' = [revision EXCEPT ![j] = NewRevision(s)]
      /\ head' = [head EXCEPT ![s.active] = j] /\ base' = base
    BY DEF Records
<1> QED BY <1>1, <1>2, <1>3, <1>4 DEF Serial!Record

LEMMA ConsistentSerial == Consistent(state) => Serial!Consistent
    BY DEF Consistent, Content, Serial!Consistent, Serial!Content

LEMMA GenerationSerial ==
    ASSUME SerialInv, NEW j \in Job, GenerationStep(j)
    PROVE  SerialStep
<1> USE DEF SerialInv, TripInv
<1>0. /\ Base /\ Planned /\ LineageInv /\ state \in State /\ Attributed(j) /\ JobToken(j)
    BY DEF LineageInv, Base, TypeOK, CopiesAttributed, Tokens
<1>1. CASE RequestGeneration(j) \/ \E u \in BOOLEAN : EndPlanning(j, u)
    BY <1>1, SilentStep DEF RequestGeneration, EndPlanning
<1>2. CASE StartGeneration(j)
    <2>1. Serial!Begin
        BY <1>2 DEF StartGeneration, Write, Serial!Begin, Serial!Edit, lineage
    <2> QED BY <2>1 DEF SerialStep, Serial!Next
<1>3. ASSUME NEW u \in BOOLEAN, NEW f \in BOOLEAN, SaveStage(j, u, f) PROVE SerialStep
    <2>1. body[j].copy = state /\ state.unfinished
        BY <1>0, <1>3 DEF SaveStage, Current, JobToken
    <2>2. state' = Shown(state, j, u, f) /\ UNCHANGED lineage
        BY <1>3, <2>1 DEF SaveStage, Write, PartlyPlanned, Shown
    <2> QED BY <2>1, <2>2, ShowSerial
<1>4. CASE CommitGeneration(j)
    <2>1. Generating(j) /\ body[j].phase = "planned" /\ j \in fresh
        BY <1>4 DEF CommitGeneration, CommitWithRevision, Current
    <2>2. Underway(state, j) /\ \E u \in BOOLEAN : body[j].copy = Made(state, j, u)
        BY <1>0, <2>1 DEF Attributed
    <2>3. PICK u \in BOOLEAN : body[j].copy = Made(state, j, u)
        BY <2>2
    <2>4. PICK s \in State : s = body[j].copy
        BY <1>0, <2>3, FieldsOfMade
    <2>5. s.active = state.active /\ s = Made(state, j, u)
        <3>1. Made(state, j, u).active = state.active
            BY <1>0, FieldsOfMade
        <3> QED BY <2>3, <2>4, <3>1, Zenon
    <2>6. CommitWithRevision(j, s)
        BY <1>4, <2>4 DEF CommitGeneration
    <2>7. j \notin Revisions
        BY <2>1 DEF LineageInv, RevisionsSound, SoundRevision
    <2>8. CASE Recorded(s.active, Version(s))
        <3>1. state' = s /\ UNCHANGED lineage
            BY <2>6, <2>8 DEF CommitWithRevision, Write, lineage
        <3> QED BY <1>0, <2>2, <2>5, <2>7, <3>1, MakeSerial DEF Revisions
    <2>9. CASE ~Recorded(s.active, Version(s))
        <3>1. Records(j, s)
            BY <2>5, <2>6, <2>7, <2>9 DEF CommitWithRevision, Write, Records, NewRevision, ParentOf
        <3>2. Serial!Record(j, s)
            BY <1>0, <2>5, <3>1, RecordSerial
        <3>3. Serial!Generate(j, u)
            BY <1>0, <2>2, <2>5, <2>7, <3>2, GeneratedIsMade DEF Serial!Generate, Underway, Revisions
        <3> QED BY <3>3 DEF SerialStep, Serial!Next
    <2> QED BY <2>8, <2>9
<1>5. CASE FailGeneration(j)
    <2>1. UNCHANGED lineage /\ Generating(j) /\ body[j].phase \in {"planning", "planned"}
        BY <1>5 DEF FailGeneration
    <2>2. CASE j \notin fresh
        BY <1>5, <2>1, <2>2, SilentStep DEF FailGeneration, Current
    <2>3. CASE j \in fresh /\ body[j].phase = "planning"
        <3>1. body[j].copy = state
            BY <1>0, <2>1, <2>3 DEF JobToken
        <3>2. state' \in InMemory(j)
            BY <1>5, <2>3 DEF FailGeneration, Current, Write
        <3>3. \/ state' = state
              \/ state.unfinished /\ \E u, f \in BOOLEAN : state' = Shown(state, j, u, f)
            <4>1. CASE ~state.unfinished
                BY <2>3, <3>1, <3>2, <4>1 DEF InMemory
            <4>2. CASE state.unfinished
                <5>1. state' = state \/ \E u, f \in BOOLEAN : state' = PartlyPlanned(j, u, f)
                    BY <2>3, <3>1, <3>2, <4>2 DEF InMemory
                <5> QED BY <3>1, <4>2, <5>1 DEF PartlyPlanned, Shown
            <4> QED BY <4>1, <4>2
        <3> QED BY <2>1, <3>3, SilentStep, ShowSerial
    <2>4. CASE j \in fresh /\ body[j].phase = "planned"
        <3>1. Underway(state, j) /\ \E u \in BOOLEAN : body[j].copy = Made(state, j, u)
            BY <1>0, <2>1, <2>4 DEF Attributed
        <3>2. state' = body[j].copy
            BY <1>5, <2>4 DEF FailGeneration, Current, Write, InMemory
        <3>3. revision[j] = Nothing
            BY <2>1 DEF LineageInv, RevisionsSound, SoundRevision, Revisions
        <3> QED BY <1>0, <2>1, <3>1, <3>2, <3>3, MakeSerial
    <2> QED BY <2>1, <2>2, <2>3, <2>4
<1> QED BY <1>1, <1>2, <1>3, <1>4, <1>5, Zenon DEF GenerationStep

LEMMA RegenerationSerial ==
    ASSUME SerialInv, NEW j \in Job, RegenerationStep(j)
    PROVE  SerialStep
<1> USE DEF SerialInv, TripInv
<1>0. Base /\ Planned /\ LineageInv /\ state \in State /\ JobToken(j)
    BY DEF LineageInv, Base, TypeOK, Tokens
<1>1. CASE RequestRegeneration(j) \/ EndExecution(j) \/ Recheck(j) \/ LoadRegeneration(j)
           \/ RefuseRegeneration(j) \/ RefuseAtRecheck(j)
    BY <1>1, SilentStep
        DEF RequestRegeneration, EndExecution, Recheck, LoadRegeneration, RefuseRegeneration,
            RefuseAtRecheck, Write
<1>2. CASE BlockRegeneration(j)
    BY <1>0, <1>2, SilentStep DEF BlockRegeneration, Current, Write, JobToken
<1>3. CASE CommitRegeneration(j)
    <2>1. Commits(j, Regenerated(j)) /\ Regenerated(j) \in State
        BY <1>0, <1>3, RegenerationCommit
    <2>2. PICK s \in State : s = Regenerated(j)
        BY <2>1
    <2>3. Regenerating(j) /\ j \in fresh
        BY <1>3 DEF CommitRegeneration, CommitWithRevision, Current
    <2>4. Commits(j, s) /\ body[j].copy = state
        BY <1>0, <2>1, <2>2, <2>3 DEF JobToken
    <2>5. Records(j, s)
        BY <1>0, <2>3, <2>4, CommitEffect DEF Skips, Generates, Generating, Regenerating
    <2>6. s.active = state.active /\ ~state.locked /\ state.pending # <<>>
        BY <2>3, <2>4 DEF Commits, Generates, Generating, Regenerates, Regenerating
    <2>7. Serial!Consistent
        BY <2>3, ConsistentSerial DEF SteadyRuns
    <2>8. Serial!Record(j, s)
        BY <1>0, <2>5, <2>6, RecordSerial
    <2>9. s = [state EXCEPT !.plan = Append(@, j), !.history = Append(@, j),
                            !.pending = Tail(@), !.applied = @ \cup {Head(state.pending)}]
        BY <2>2, <2>4 DEF Regenerated
    <2>10. Serial!Regenerate(j)
        BY <2>6, <2>7, <2>8, <2>9 DEF Serial!Regenerate
    <2> QED BY <2>10 DEF SerialStep, Serial!Next
<1> QED BY <1>1, <1>2, <1>3 DEF RegenerationStep

LEMMA EditSerial ==
    ASSUME SerialInv, NEW q \in Request, EditStep(q)
    PROVE  SerialStep
<1>1. q \in fresh => edit[q] = state
    BY DEF SerialInv, TripInv, LineageInv, Base, Tokens, EditToken
<1>2. CASE LoadEdit(q) \/ DropEdit(q)
    BY <1>2, SilentStep DEF LoadEdit, DropEdit
<1>3. ASSUME NEW f \in Feedback, ApplyFeedback(q, f) PROVE SerialStep
    <2>1. state' = [state EXCEPT !.pending = Append(@, f)] /\ UNCHANGED lineage /\ ~Submitted(f)
        BY <1>1, <1>3 DEF ApplyFeedback, SaveEdit, Current, Write
    <2>2. ~Serial!Mentions(state, f)
          /\ \A r \in Serial!Revisions : ~Serial!Mentions(revision[r].snapshot, f)
        BY <2>1 DEF Submitted, Serial!Mentions, Serial!Revisions, Revisions
    <2>3. Serial!Submit(f)
        BY <2>1, <2>2 DEF Serial!Submit, Serial!Edit, lineage
    <2> QED BY <2>3 DEF SerialStep, Serial!Next
<1>4. CASE CreateLock(q) \/ DeleteLock(q)
    <2>1. PICK on \in BOOLEAN : state' = [state EXCEPT !.locked = on]
        BY <1>1, <1>4 DEF CreateLock, DeleteLock, SaveEdit, Current, Write
    <2>2. UNCHANGED lineage
        BY <1>4 DEF CreateLock, DeleteLock, SaveEdit
    <2>3. Serial!Lock(on)
        BY <2>1, <2>2 DEF Serial!Lock, Serial!Edit, lineage
    <2> QED BY <2>3 DEF SerialStep, Serial!Next
<1>5. ASSUME NEW st \in Stamp, Promote(q, st) PROVE SerialStep
    <2>1. state' = [state EXCEPT !.report = st] /\ UNCHANGED lineage /\ ~Recomputed(st)
        BY <1>1, <1>5 DEF Promote, SaveEdit, Current, Write
    <2>2. Serial!Promote(st)
        BY <2>1 DEF Recomputed, Revisions, Serial!Promote, Serial!Edit, Serial!Revisions, lineage
    <2> QED BY <2>2 DEF SerialStep, Serial!Next
<1> QED BY <1>2, <1>3, <1>4, <1>5, Zenon DEF EditStep

LEMMA BranchSerial ==
    ASSUME BranchStep
    PROVE  SerialStep
<1>1. ASSUME NEW b \in Fork, NEW r \in Job, CreateFork(b, r) PROVE SerialStep
    <2>1. Serial!CreateFork(b, r)
        BY <1>1 DEF CreateFork, Revisions, Serial!CreateFork, Serial!Revisions
    <2> QED BY <2>1 DEF SerialStep, Serial!Next
<1>2. ASSUME NEW b \in Branch, Activate(b) PROVE SerialStep
    <2>1. Serial!Consistent
        BY <1>2, ConsistentSerial DEF Activate, Switchable
    <2>2. Serial!Activate(b)
        BY <1>2, <2>1 DEF Activate, Switchable, Write, Restored, Serial!Activate, Serial!Edit, lineage
    <2>3. b \in Serial!Branch
        BY DEF Branch, Serial!Branch
    <2> QED BY <2>2, <2>3 DEF SerialStep, Serial!Next
<1> QED BY <1>1, <1>2, Zenon DEF BranchStep

LEMMA StepSerial ==
    ASSUME SerialInv, [Next]_vars
    PROVE  SerialStep
<1>1. ASSUME NEW j \in Job, Admit(j) \/ TurnAway(j) \/ Stop(j) PROVE SerialStep
    BY <1>1, SilentStep DEF Admit, TurnAway, Stop
<1>2. CASE RecordRefusal \/ CloseJob \/ UNCHANGED vars
    BY <1>2, SilentStep DEF RecordRefusal, CloseJob, Write, vars, lineage
<1> QED BY <1>1, <1>2, GenerationSerial, RegenerationSerial, EditSerial, BranchSerial, Zenon DEF Next

\* However runs and edits interleave, overtake each other, fail or die, the trip's document,
\* branches and revisions change as if each request and run took one step on the row it commits
\* over (lock_version compare-and-set, commit_state_with_revision, _activate_branch).
THEOREM ImplementsSerialTrip == Spec => SerialSpec
<1>1. Init => Serial!Init
    BY DEF Init, Draft, Branch, Serial!Init, Serial!Branch
<1>2. SerialInv /\ [Next]_vars => [Serial!Next]_<<state, base, head, revision>>
    BY StepSerial DEF SerialStep
<1> QED BY <1>1, <1>2, SerialInvariant, PTL DEF Spec, SerialSpec, Serial!Spec, Serial!trip

=============================================================================
