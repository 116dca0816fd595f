-------------------------- MODULE PlanLineageProofs --------------------------
(***************************************************************************)
(* Proofs about PlanLineage for every set of runs, feedback events,        *)
(* requests and forks, with and without stage saves.                       *)
(***************************************************************************)
EXTENDS PlanLineage, TLAPS

-----------------------------------------------------------------------------
(* Documents and bodies: what the operations on one of them return          *)

LEMMA DraftState == Draft \in State
    BY DEF Draft, State, Branch

\* Every field of a document may be replaced by a value of its type.
LEMMA EditedState ==
    ASSUME NEW s \in State
    PROVE  /\ [s EXCEPT !.unfinished = TRUE] \in State
           /\ \A b \in BOOLEAN : [s EXCEPT !.locked = b] \in State
           /\ \A f \in Feedback : [s EXCEPT !.pending = Append(@, f)] \in State
           /\ \A st \in Stamp : [s EXCEPT !.report = st] \in State
           /\ \A b \in Branch : [s EXCEPT !.active = b] \in State
    <1>1. \A f \in Feedback : Append(s.pending, f) \in Seq(Feedback)
        BY DEF State
    <1>2. \A f \in Feedback : [s EXCEPT !.pending = Append(@, f)] \in State
        BY <1>1 DEF State
    <1> QED BY <1>2 DEF State

LEMMA PlannedState ==
    ASSUME TypeOK, NEW j \in Job, body[j].copy \in State, NEW u \in BOOLEAN, NEW f \in BOOLEAN
    PROVE  /\ PartlyPlanned(j, u, f) \in State
           /\ PartlyPlanned(j, u, f).plan = <<j>>
           /\ PartlyPlanned(j, u, f).history = body[j].copy.history
           /\ PartlyPlanned(j, u, f).pending = body[j].copy.pending
           /\ PartlyPlanned(j, u, f).applied = body[j].copy.applied
           /\ PartlyPlanned(j, u, f).locked = body[j].copy.locked
           /\ PartlyPlanned(j, u, f).active = body[j].copy.active
    <1>1. <<j>> \in Seq(Job)
        OBVIOUS
    <1> QED BY <1>1 DEF PartlyPlanned, State

LEMMA VersionedState ==
    ASSUME TypeOK, NEW j \in Job, NEW s \in State
    PROVE  LET t == [s EXCEPT !.history = IF @ = <<>> THEN <<j>> ELSE @]
           IN  /\ t \in State
               /\ t.plan = s.plan
               /\ t.history = IF s.history = <<>> THEN <<j>> ELSE s.history
               /\ t.pending = s.pending
               /\ t.applied = s.applied
               /\ t.locked = s.locked
               /\ t.active = s.active
    <1>1. <<j>> \in Seq(Job)
        OBVIOUS
    <1> QED BY <1>1 DEF State

LEMMA RegeneratedState ==
    ASSUME TypeOK, NEW j \in Job, body[j].copy \in State, body[j].copy.pending # <<>>
    PROVE  LET s == body[j].copy
           IN  /\ Regenerated(j) \in State
               /\ Regenerated(j).plan = Append(s.plan, j)
               /\ Regenerated(j).history = Append(s.history, j)
               /\ Regenerated(j).pending = Tail(s.pending)
               /\ Regenerated(j).applied = s.applied \cup {Head(s.pending)}
               /\ Regenerated(j).locked = s.locked
               /\ Regenerated(j).active = s.active
    <1> DEFINE s == body[j].copy
    <1>1. s \in State /\ s.pending \in Seq(Feedback) /\ s.plan \in Seq(Job) /\ s.history \in Seq(Job)
        BY DEF State
    <1>2. Head(s.pending) \in Feedback /\ Tail(s.pending) \in Seq(Feedback)
        BY <1>1
    <1>3. Append(s.plan, j) \in Seq(Job) /\ Append(s.history, j) \in Seq(Job)
        BY <1>1
    <1> HIDE DEF s
    <1> QED BY <1>1, <1>2, <1>3 DEF Regenerated, State, s

LEMMA VersionIsLabel ==
    ASSUME NEW s \in State
    PROVE  Version(s) \in Label
    <1>1. s.history \in Seq(Job) /\ Len(s.history) \in Nat
        BY DEF State
    <1>2. s.history # <<>> => Len(s.history) # 0
        BY <1>1
    <1> QED BY <1>1, <1>2 DEF Version, Label

-----------------------------------------------------------------------------
(* Typing                                                                  *)

\* A body that works has its copy; a regeneration has something to apply and saw no lock.
LoadedBody(b) ==
    b.phase \in Working =>
        /\ b.copy \in State
        /\ b.kind = "regenerate" => b.copy.pending # <<>> /\ ~b.copy.locked

Loaded == \A j \in Job : LoadedBody(body[j])

LEMMA EndedBody ==
    /\ Ended \in Body /\ LoadedBody(Ended)
    /\ Ended.phase = "done" /\ Ended.kind = "none"
    BY DEF Ended, BodyAt, Body, LoadedBody, Working

LEMMA BodyUpdate ==
    ASSUME TypeOK, Loaded, NEW j \in Job, NEW b \in Body, LoadedBody(b),
           body' = [body EXCEPT ![j] = b]
    PROVE  body' \in [Job -> Body] /\ Loaded'
    BY DEF TypeOK, Loaded, LoadedBody

LEMMA CommitTyped ==
    ASSUME TypeOK, NEW j \in Job, NEW s \in State, CommitWithRevision(j, s)
    PROVE  /\ state' \in State /\ fresh' \in SUBSET (Job \cup Request)
           /\ base' \in [Branch -> Job \cup {Nothing}]
           /\ head' \in [Branch -> Job \cup {Nothing}]
           /\ revision' \in [Job -> Revision \cup {Nothing}]
    <1>1. s.active \in Branch
        BY DEF State
    <1>2. [branch |-> s.active, parent |-> ParentOf(s.active), label |-> Version(s), snapshot |-> s]
            \in Revision
        BY <1>1, VersionIsLabel DEF TypeOK, ParentOf, Revision
    <1>3. CASE Recorded(s.active, Version(s))
        BY <1>3 DEF TypeOK, CommitWithRevision, Write
    <1>4. CASE ~Recorded(s.active, Version(s))
        BY <1>1, <1>2, <1>4 DEF TypeOK, CommitWithRevision, Write
    <1> QED BY <1>3, <1>4

LEMMA ControlTyped ==
    ASSUME TypeOK, Loaded, NEW j \in Job,
           Admit(j) \/ TurnAway(j) \/ Stop(j) \/ RequestGeneration(j) \/ RequestRegeneration(j)
               \/ EndExecution(j) \/ Recheck(j)
    PROVE  TypeOK' /\ Loaded'
<1>1. CASE Admit(j)
    BY <1>1 DEF Admit, TypeOK, Loaded, LoadedBody, Body, Working, lineage
<1>2. CASE TurnAway(j)
    BY <1>2, BodyUpdate, EndedBody DEF TurnAway, TypeOK, lineage
<1>3. CASE Stop(j)
    BY <1>3, BodyUpdate, EndedBody DEF Stop, TypeOK, lineage
<1>4. CASE RequestGeneration(j)
    BY <1>4 DEF RequestGeneration, BodyAt, TypeOK, Loaded, LoadedBody, Body, Working, lineage
<1>5. CASE RequestRegeneration(j)
    BY <1>5 DEF RequestRegeneration, BodyAt, TypeOK, Loaded, LoadedBody, Body, Working, lineage
<1>6. CASE EndExecution(j)
    BY <1>6 DEF EndExecution, TypeOK, Loaded, LoadedBody, Body, Working, lineage
<1>7. CASE Recheck(j)
    BY <1>7 DEF Recheck, TokenAfterRecheck, TypeOK, Loaded, LoadedBody, Body, Working, lineage
<1> QED BY <1>1, <1>2, <1>3, <1>4, <1>5, <1>6, <1>7

LEMMA GenerationTyped ==
    ASSUME TypeOK, Loaded, NEW j \in Job, GenerationStep(j)
    PROVE  TypeOK' /\ Loaded'
<1>1. CASE RequestGeneration(j)
    BY <1>1, ControlTyped
<1>2. CASE StartGeneration(j)
    <2> DEFINE s == [state EXCEPT !.unfinished = TRUE]
               b == BodyAt("generate", "planning", s)
    <2>1. s \in State
        BY EditedState DEF TypeOK
    <2>2. b \in Body /\ LoadedBody(b)
        BY <2>1 DEF BodyAt, Body, LoadedBody, Working
    <2>3. /\ state' = s /\ fresh' = {j} /\ body' = [body EXCEPT ![j] = b]
          /\ UNCHANGED <<edit, activeJob, lineage>>
        BY <1>2 DEF StartGeneration, Write
    <2>4. body' \in [Job -> Body] /\ Loaded'
        BY <2>2, <2>3, BodyUpdate
    <2> HIDE DEF s, b
    <2> QED BY <2>1, <2>3, <2>4 DEF TypeOK, lineage
<1>3. ASSUME NEW u \in BOOLEAN, NEW f \in BOOLEAN, SaveStage(j, u, f) PROVE TypeOK' /\ Loaded'
    <2> DEFINE s == PartlyPlanned(j, u, f)
               b == [body[j] EXCEPT !.copy = s]
    <2>1. body[j].copy \in State /\ body[j] \in Body /\ body[j].kind = "generate"
        BY <1>3 DEF SaveStage, Loaded, LoadedBody, Working, TypeOK, Generating
    <2>2. s \in State
        BY <2>1, PlannedState
    <2> HIDE DEF s
    <2>3. b \in Body /\ LoadedBody(b)
        BY <2>1, <2>2 DEF Body, LoadedBody, Working
    <2>4. /\ state' = s /\ fresh' = {j} /\ body' = [body EXCEPT ![j] = b]
          /\ UNCHANGED <<edit, activeJob, lineage>>
        BY <1>3 DEF SaveStage, Write, s
    <2>5. body' \in [Job -> Body] /\ Loaded'
        BY <2>3, <2>4, BodyUpdate
    <2> QED BY <2>2, <2>4, <2>5 DEF TypeOK, lineage
<1>4. ASSUME NEW u \in BOOLEAN, EndPlanning(j, u) PROVE TypeOK' /\ Loaded'
    <2> DEFINE s == PartlyPlanned(j, u, FALSE)
               t == [s EXCEPT !.history = IF @ = <<>> THEN <<j>> ELSE @]
               b == [body[j] EXCEPT !.phase = "planned", !.copy = t]
    <2>1. body[j].copy \in State /\ body[j] \in Body /\ body[j].kind = "generate"
        BY <1>4 DEF EndPlanning, Loaded, LoadedBody, Working, TypeOK, Generating
    <2>2. s \in State
        BY <2>1, PlannedState
    <2> HIDE DEF s
    <2>3. t \in State
        BY <2>2, VersionedState
    <2>4. body' = [body EXCEPT ![j] = b]
        BY <1>4 DEF EndPlanning, s, TypeOK, Body
    <2> HIDE DEF t
    <2>5. b \in Body /\ LoadedBody(b)
        BY <2>1, <2>3 DEF Body, LoadedBody, Working
    <2>6. body' \in [Job -> Body] /\ Loaded'
        BY <2>4, <2>5, BodyUpdate
    <2> QED BY <1>4, <2>6 DEF EndPlanning, TypeOK, lineage
<1>5. CASE CommitGeneration(j)
    <2>1. body[j].copy \in State
        BY <1>5 DEF CommitGeneration, Loaded, LoadedBody, Working
    <2>2. CommitWithRevision(j, body[j].copy) /\ body' = [body EXCEPT ![j] = Ended]
          /\ UNCHANGED <<edit, activeJob>>
        BY <1>5 DEF CommitGeneration
    <2>3. body' \in [Job -> Body] /\ Loaded'
        BY <2>2, BodyUpdate, EndedBody
    <2> QED BY <2>1, <2>2, <2>3, CommitTyped DEF TypeOK
<1>6. CASE FailGeneration(j)
    <2>1. body[j].copy \in State
        BY <1>6 DEF FailGeneration, Loaded, LoadedBody, Working
    <2>2. \A s \in InMemory(j) : s \in State
        BY <2>1, PlannedState DEF InMemory
    <2>3. body' \in [Job -> Body] /\ Loaded'
        BY <1>6, BodyUpdate, EndedBody DEF FailGeneration
    <2>4. state' \in State /\ fresh' \in SUBSET (Job \cup Request)
        BY <1>6, <2>2 DEF FailGeneration, Write, TypeOK
    <2> QED BY <1>6, <2>3, <2>4 DEF FailGeneration, TypeOK, lineage
<1> QED BY <1>1, <1>2, <1>3, <1>4, <1>5, <1>6, Zenon DEF GenerationStep

LEMMA RegenerationTyped ==
    ASSUME TypeOK, Loaded, NEW j \in Job, RegenerationStep(j)
    PROVE  TypeOK' /\ Loaded'
<1>1. CASE RequestRegeneration(j) \/ EndExecution(j) \/ Recheck(j)
    BY <1>1, ControlTyped
<1>2. CASE LoadRegeneration(j)
    <2> DEFINE b == BodyAt("regenerate", "planning", state)
    <2>1. b \in Body /\ LoadedBody(b)
        BY <1>2 DEF LoadRegeneration, Regenerable, BodyAt, Body, LoadedBody, Working, TypeOK
    <2>2. body' = [body EXCEPT ![j] = b]
        BY <1>2 DEF LoadRegeneration
    <2>3. body' \in [Job -> Body] /\ Loaded'
        BY <2>1, <2>2, BodyUpdate
    <2> QED BY <1>2, <2>3 DEF LoadRegeneration, TypeOK, lineage
<1>3. CASE RefuseRegeneration(j)
    <2>1. body' \in [Job -> Body] /\ Loaded'
        BY <1>3, BodyUpdate, EndedBody DEF RefuseRegeneration
    <2> QED BY <1>3, <2>1 DEF RefuseRegeneration, Write, TypeOK, lineage
<1>4. CASE BlockRegeneration(j)
    <2>1. body[j].copy \in State
        BY <1>4 DEF BlockRegeneration, Loaded, LoadedBody, Working
    <2>2. body' \in [Job -> Body] /\ Loaded'
        BY <1>4, BodyUpdate, EndedBody DEF BlockRegeneration
    <2> QED BY <1>4, <2>1, <2>2 DEF BlockRegeneration, Write, TypeOK, lineage
<1>5. CASE RefuseAtRecheck(j)
    <2>1. body' \in [Job -> Body] /\ Loaded'
        BY <1>5, BodyUpdate, EndedBody DEF RefuseAtRecheck
    <2> QED BY <1>5, <2>1 DEF RefuseAtRecheck, Write, TypeOK, lineage
<1>6. CASE CommitRegeneration(j)
    <2>1. Regenerated(j) \in State
        BY <1>6, RegeneratedState
            DEF CommitRegeneration, Regenerating, Loaded, LoadedBody, Working
    <2>2. CommitWithRevision(j, Regenerated(j)) /\ body' = [body EXCEPT ![j] = Ended]
          /\ UNCHANGED <<edit, activeJob>>
        BY <1>6 DEF CommitRegeneration
    <2>3. body' \in [Job -> Body] /\ Loaded'
        BY <2>2, BodyUpdate, EndedBody
    <2> QED BY <2>1, <2>2, <2>3, CommitTyped DEF TypeOK
<1> QED BY <1>1, <1>2, <1>3, <1>4, <1>5, <1>6 DEF RegenerationStep

LEMMA SaveTyped ==
    ASSUME TypeOK, NEW q \in Request, NEW s \in State, SaveEdit(q, s)
    PROVE  TypeOK'
    BY DEF SaveEdit, Write, TypeOK, lineage

LEMMA EditTyped ==
    ASSUME TypeOK, Loaded, NEW q \in Request, EditStep(q)
    PROVE  TypeOK' /\ Loaded'
<1>1. edit[q] # Nothing => edit[q] \in State
    BY DEF TypeOK
<1>2. CASE LoadEdit(q)
    BY <1>2 DEF LoadEdit, TypeOK, Loaded, lineage
<1>3. ASSUME NEW f \in Feedback, ApplyFeedback(q, f) PROVE TypeOK' /\ Loaded'
    <2>1. [edit[q] EXCEPT !.pending = Append(@, f)] \in State
        BY <1>1, <1>3, EditedState DEF ApplyFeedback
    <2>2. TypeOK'
        BY <1>3, <2>1, SaveTyped DEF ApplyFeedback
    <2> QED BY <1>3, <2>2 DEF ApplyFeedback, SaveEdit, Loaded
<1>4. CASE CreateLock(q)
    <2>1. [edit[q] EXCEPT !.locked = TRUE] \in State
        BY <1>1, <1>4, EditedState DEF CreateLock
    <2>2. TypeOK'
        BY <1>4, <2>1, SaveTyped DEF CreateLock
    <2> QED BY <1>4, <2>2 DEF CreateLock, SaveEdit, Loaded
<1>5. CASE DeleteLock(q)
    <2>1. [edit[q] EXCEPT !.locked = FALSE] \in State
        BY <1>1, <1>5, EditedState DEF DeleteLock
    <2>2. TypeOK'
        BY <1>5, <2>1, SaveTyped DEF DeleteLock
    <2> QED BY <1>5, <2>2 DEF DeleteLock, SaveEdit, Loaded
<1>6. ASSUME NEW st \in Stamp, Promote(q, st) PROVE TypeOK' /\ Loaded'
    <2>1. [edit[q] EXCEPT !.report = st] \in State
        BY <1>1, <1>6, EditedState DEF Promote
    <2>2. TypeOK'
        BY <1>6, <2>1, SaveTyped DEF Promote
    <2> QED BY <1>6, <2>2 DEF Promote, SaveEdit, Loaded
<1>7. CASE DropEdit(q)
    BY <1>7 DEF DropEdit, TypeOK, Loaded, lineage
<1> QED BY <1>2, <1>3, <1>4, <1>5, <1>6, <1>7, Zenon DEF EditStep

\* Heads of branches are recorded revisions.
HeadsRecorded == \A b \in Branch : head[b] # Nothing => head[b] \in Revisions

LEMMA HeadRevision ==
    ASSUME TypeOK, HeadsRecorded, NEW b \in Branch, head[b] # Nothing
    PROVE  /\ head[b] \in Revisions /\ head[b] \in Job
           /\ revision[head[b]] \in Revision
           /\ revision[head[b]].snapshot \in State
           /\ revision[head[b]].branch \in Branch
           /\ revision[head[b]].label \in Label
    <1>1. head[b] \in Job /\ revision[head[b]] # Nothing
        BY DEF HeadsRecorded, Revisions
    <1>2. revision[head[b]] \in Revision
        BY <1>1 DEF TypeOK
    <1> QED BY <1>1, <1>2 DEF Revision, Revisions

LEMMA BranchTyped ==
    ASSUME TypeOK, Loaded, HeadsRecorded, BranchStep
    PROVE  TypeOK' /\ Loaded'
<1>1. ASSUME NEW b \in Fork, NEW r \in Job, CreateFork(b, r) PROVE TypeOK' /\ Loaded'
    BY <1>1 DEF CreateFork, Revisions, Branch, TypeOK, Loaded
<1>2. ASSUME NEW b \in Branch, Activate(b) PROVE TypeOK' /\ Loaded'
    <2>1. revision[head[b]].snapshot \in State
        BY <1>2, HeadRevision DEF Activate
    <2>2. Restored(b) \in State
        BY <2>1, EditedState DEF Restored
    <2> QED BY <1>2, <2>2 DEF Activate, Write, TokensAfterActivation, TypeOK, Loaded, lineage
<1> QED BY <1>1, <1>2, Zenon DEF BranchStep


-----------------------------------------------------------------------------
(* Tokens: what a writer whose token is current knows about the row         *)

SameWorkspace(s, t) ==
    /\ s.active = t.active /\ s.pending = t.pending
    /\ s.applied = t.applied /\ s.locked = t.locked
    /\ Version(s) = Version(t)
    /\ t.history # <<>> => s.history = t.history

\* A generation has changed nothing but the content, and that is saved until it is planned; a
\* regeneration and an edit have changed nothing at all.
JobToken(j) ==
    j \in fresh =>
        /\ body[j].phase \in Working
        /\ SameWorkspace(body[j].copy, state)
        /\ Regenerating(j) \/ body[j].phase = "planning" => body[j].copy = state

EditToken(q) == q \in fresh => edit[q] = state

Tokens == (\A j \in Job : JobToken(j)) /\ (\A q \in Request : EditToken(q))

LEMMA NoTokens == ASSUME fresh' = {} PROVE Tokens'
    BY DEF Tokens, JobToken, EditToken

\* A body that changes without touching the row, the edits and the tokens of others.
LEMMA BodyTokens ==
    ASSUME TypeOK, Tokens, NEW j \in Job, UNCHANGED <<state, edit>>,
           fresh' \ {j} = fresh \ {j},
           \A k \in Job : k # j => body'[k] = body[k],
           JobToken(j)'
    PROVE  Tokens'
<1>1. j \notin Request
    BY LineageAssumption
<1>2. ASSUME NEW k \in Job, k # j PROVE JobToken(k)'
    <2>1. body'[k] = body[k] /\ (k \in fresh' <=> k \in fresh) /\ JobToken(k)
        BY <1>2 DEF Tokens
    <2> QED BY <2>1 DEF JobToken, Regenerating
<1>3. ASSUME NEW q \in Request PROVE EditToken(q)'
    <2>1. (q \in fresh' <=> q \in fresh) /\ EditToken(q)
        BY <1>1 DEF Tokens
    <2> QED BY <2>1 DEF EditToken
<1> QED BY <1>2, <1>3, Zenon DEF Tokens

LEMMA ControlTokens ==
    ASSUME TypeOK, Tokens, NEW j \in Job,
           Admit(j) \/ TurnAway(j) \/ Stop(j) \/ RequestGeneration(j) \/ RequestRegeneration(j)
               \/ EndExecution(j) \/ Recheck(j)
    PROVE  Tokens'
<1>1. JobToken(j)
    BY DEF Tokens
<1>2. CASE Admit(j) \/ TurnAway(j) \/ RequestGeneration(j) \/ RequestRegeneration(j)
    <2>1. j \notin fresh
        BY <1>1, <1>2 DEF JobToken, Admit, TurnAway, RequestGeneration, RequestRegeneration, Working
    <2>2. UNCHANGED <<state, edit, fresh>> /\ \A k \in Job : k # j => body'[k] = body[k]
        BY <1>2 DEF Admit, TurnAway, RequestGeneration, RequestRegeneration, TypeOK
    <2>3. JobToken(j)'
        BY <2>1, <2>2 DEF JobToken
    <2> QED BY <2>2, <2>3, BodyTokens
<1>3. CASE Stop(j)
    <2>1. UNCHANGED <<state, edit>> /\ fresh' = fresh \ {j} /\ \A k \in Job : k # j => body'[k] = body[k]
        BY <1>3 DEF Stop, TypeOK
    <2>2. JobToken(j)'
        BY <2>1 DEF JobToken
    <2> QED BY <2>1, <2>2, BodyTokens
<1>4. CASE EndExecution(j) \/ Recheck(j)
    <2>1. UNCHANGED <<state, edit, fresh>> /\ \A k \in Job : k # j => body'[k] = body[k]
        BY <1>4 DEF EndExecution, Recheck, TokenAfterRecheck, TypeOK
    <2>2. /\ body'[j].phase \in Working /\ body'[j].copy = body[j].copy
          /\ body'[j].kind = "regenerate" /\ body[j].kind = "regenerate"
        BY <1>4 DEF EndExecution, Recheck, Regenerating, Working, TypeOK, Body
    <2>3. JobToken(j)'
        BY <1>1, <2>1, <2>2 DEF JobToken, Regenerating, SameWorkspace, Version
    <2> QED BY <2>1, <2>3, BodyTokens
<1> QED BY <1>2, <1>3, <1>4

\* The writer keeps its token and its copy is what it wrote.
LEMMA OwnWriteTokens ==
    ASSUME TypeOK, NEW j \in Job, fresh' = {j}, body'[j].phase \in Working,
           body'[j].copy = state'
    PROVE  Tokens'
    BY LineageAssumption DEF Tokens, JobToken, EditToken, SameWorkspace

LEMMA GenerationTokens ==
    ASSUME TypeOK, Loaded, Tokens, NEW j \in Job, GenerationStep(j)
    PROVE  Tokens'
<1>1. CASE RequestGeneration(j)
    BY <1>1, ControlTokens
<1>2. CASE StartGeneration(j)
    <2>1. fresh' = {j} /\ body'[j].phase = "planning" /\ body'[j].copy = state'
        BY <1>2 DEF StartGeneration, Write, BodyAt, TypeOK
    <2> QED BY <2>1, OwnWriteTokens DEF Working
<1>3. ASSUME NEW u \in BOOLEAN, NEW f \in BOOLEAN, SaveStage(j, u, f) PROVE Tokens'
    <2>1. fresh' = {j} /\ body'[j].phase = "planning" /\ body'[j].copy = state'
        BY <1>3 DEF SaveStage, Write, TypeOK, Body
    <2> QED BY <2>1, OwnWriteTokens DEF Working
<1>4. ASSUME NEW u \in BOOLEAN, EndPlanning(j, u) PROVE Tokens'
    <2> DEFINE c == body[j].copy
               s == PartlyPlanned(j, u, FALSE)
               t == [s EXCEPT !.history = IF @ = <<>> THEN <<j>> ELSE @]
    <2>1. UNCHANGED <<state, edit, fresh>> /\ \A k \in Job : k # j => body'[k] = body[k]
        BY <1>4 DEF EndPlanning, TypeOK
    <2>2. c \in State
        BY <1>4 DEF EndPlanning, Loaded, LoadedBody, Working
    <2>3. /\ s \in State /\ s.history = c.history /\ s.pending = c.pending
          /\ s.applied = c.applied /\ s.locked = c.locked /\ s.active = c.active
        BY <2>2, PlannedState
    <2>4. body'[j].copy = t /\ body'[j].phase = "planned" /\ body'[j].kind = "generate"
        BY <1>4 DEF EndPlanning, Generating, TypeOK, Body
    <2> HIDE DEF s
    <2>5. /\ t.history = (IF c.history = <<>> THEN <<j>> ELSE c.history) /\ t.pending = c.pending
          /\ t.applied = c.applied /\ t.locked = c.locked /\ t.active = c.active
        <3>1. /\ t.history = (IF s.history = <<>> THEN <<j>> ELSE s.history)
              /\ t.pending = s.pending /\ t.applied = s.applied
              /\ t.locked = s.locked /\ t.active = s.active
            BY <2>3, VersionedState, Zenon
        <3> HIDE DEF t, c
        <3> QED BY <2>3, <3>1
    <2> HIDE DEF t, c
    <2>6. Version(t) = Version(c)
        BY <2>5 DEF Version
    <2>7. JobToken(j)
        BY DEF Tokens
    <2>8. SameWorkspace(c, state) => SameWorkspace(t, state)
        <3>1. state.history # <<>> /\ c.history = state.history => t.history = state.history
            BY <2>5
        <3> QED BY <2>5, <2>6, <3>1 DEF SameWorkspace
    <2>9. JobToken(j)'
        BY <2>1, <2>4, <2>7, <2>8 DEF JobToken, Regenerating, Working, SameWorkspace, Version, c
    <2> QED BY <2>1, <2>9, BodyTokens
<1>5. CASE CommitGeneration(j)
    BY <1>5, NoTokens DEF CommitGeneration, CommitWithRevision, Write
<1>6. CASE FailGeneration(j)
    <2>1. CASE Current(j)
        BY <1>6, <2>1, NoTokens DEF FailGeneration, Write
    <2>2. CASE ~Current(j)
        <3>1. UNCHANGED <<state, edit, fresh>> /\ \A k \in Job : k # j => body'[k] = body[k]
            BY <1>6, <2>2 DEF FailGeneration, TypeOK
        <3>2. JobToken(j)'
            BY <2>2, <3>1 DEF Current, JobToken
        <3> QED BY <3>1, <3>2, BodyTokens
    <2> QED BY <2>1, <2>2
<1> QED BY <1>1, <1>2, <1>3, <1>4, <1>5, <1>6, Zenon DEF GenerationStep


LEMMA RegenerationTokens ==
    ASSUME TypeOK, Loaded, Tokens, NEW j \in Job, RegenerationStep(j)
    PROVE  Tokens'
<1>1. CASE RequestRegeneration(j) \/ EndExecution(j) \/ Recheck(j)
    BY <1>1, ControlTokens
<1>2. CASE LoadRegeneration(j)
    <2>1. /\ UNCHANGED <<state, edit>> /\ fresh' = fresh \cup {j}
          /\ \A k \in Job : k # j => body'[k] = body[k]
          /\ body'[j].phase = "planning" /\ body'[j].copy = state
        BY <1>2 DEF LoadRegeneration, BodyAt, TypeOK
    <2>2. JobToken(j)'
        BY <2>1 DEF JobToken, Working, SameWorkspace, Version
    <2> QED BY <2>1, <2>2, BodyTokens
<1>3. CASE RefuseRegeneration(j) \/ RefuseAtRecheck(j) \/ CommitRegeneration(j)
    BY <1>3, NoTokens
        DEF RefuseRegeneration, RefuseAtRecheck, CommitRegeneration, CommitWithRevision, Write
<1>4. CASE BlockRegeneration(j)
    <2>1. CASE Current(j)
        BY <1>4, <2>1, NoTokens DEF BlockRegeneration, Write
    <2>2. CASE ~Current(j)
        <3>1. UNCHANGED <<state, edit, fresh>> /\ \A k \in Job : k # j => body'[k] = body[k]
            BY <1>4, <2>2 DEF BlockRegeneration, TypeOK
        <3>2. JobToken(j)'
            BY <2>2, <3>1 DEF Current, JobToken
        <3> QED BY <3>1, <3>2, BodyTokens
    <2> QED BY <2>1, <2>2
<1> QED BY <1>1, <1>2, <1>3, <1>4 DEF RegenerationStep

LEMMA EditTokens ==
    ASSUME TypeOK, Tokens, NEW q \in Request, EditStep(q)
    PROVE  Tokens'
<1>1. CASE LoadEdit(q) \/ DropEdit(q)
    <2>1. /\ UNCHANGED <<state, body>> /\ fresh' \ {q} = fresh \ {q}
          /\ \A p \in Request : p # q => edit'[p] = edit[p]
          /\ q \in fresh' => edit'[q] = state
        BY <1>1 DEF LoadEdit, DropEdit, TypeOK
    <2>2. ASSUME NEW k \in Job PROVE JobToken(k)'
        <3>1. (k \in fresh' <=> k \in fresh) /\ JobToken(k)
            BY <2>1, LineageAssumption DEF Tokens
        <3> QED BY <2>1, <3>1 DEF JobToken, Regenerating
    <2>3. ASSUME NEW p \in Request PROVE EditToken(p)'
        BY <2>1 DEF Tokens, EditToken
    <2> QED BY <2>2, <2>3, Zenon DEF Tokens
<1>2. ASSUME NEW s, SaveEdit(q, s) PROVE Tokens'
    BY <1>2, NoTokens DEF SaveEdit, Write
<1> QED BY <1>1, <1>2, Zenon DEF EditStep, ApplyFeedback, CreateLock, DeleteLock, Promote

LEMMA OtherTokens ==
    ASSUME Tokens, BranchStep \/ RecordRefusal \/ CloseJob \/ UNCHANGED vars
    PROVE  Tokens'
<1>1. CASE UNCHANGED <<state, fresh, body, edit>>
    BY <1>1 DEF Tokens, JobToken, EditToken, Regenerating
<1>2. CASE RecordRefusal
    BY <1>2, NoTokens DEF RecordRefusal, Write
<1>3. ASSUME NEW b \in Branch, Activate(b) PROVE Tokens'
    BY <1>3, NoTokens DEF Activate, Write, TokensAfterActivation
<1> QED BY <1>1, <1>2, <1>3 DEF BranchStep, CreateFork, CloseJob, vars

-----------------------------------------------------------------------------
(* The base of every other proof: types, loaded copies, tokens              *)

Base == TypeOK /\ Loaded /\ Tokens /\ HeadsRecorded

LEMMA BaseStep ==
    ASSUME Base, [Next]_vars
    PROVE  TypeOK' /\ Loaded' /\ Tokens'
<1> USE DEF Base
<1>1. ASSUME NEW j \in Job,
             Admit(j) \/ TurnAway(j) \/ Stop(j) \/ GenerationStep(j) \/ RegenerationStep(j)
      PROVE  TypeOK' /\ Loaded' /\ Tokens'
    BY <1>1, ControlTyped, GenerationTyped, RegenerationTyped,
       ControlTokens, GenerationTokens, RegenerationTokens
<1>2. ASSUME NEW q \in Request, EditStep(q) PROVE TypeOK' /\ Loaded' /\ Tokens'
    BY <1>2, EditTyped, EditTokens
<1>3. CASE BranchStep
    BY <1>3, BranchTyped, OtherTokens
<1>4. CASE RecordRefusal
    BY <1>4, OtherTokens DEF RecordRefusal, Write, TypeOK, Loaded, lineage
<1>5. CASE CloseJob
    BY <1>5, OtherTokens DEF CloseJob, TypeOK, Loaded, lineage
<1>6. CASE UNCHANGED vars
    BY <1>6, OtherTokens DEF vars, TypeOK, Loaded
<1> QED BY <1>1, <1>2, <1>3, <1>4, <1>5, <1>6, Zenon DEF Next


-----------------------------------------------------------------------------
(* The shapes of a step                                                     *)

\* A generation that waits for its commit has made a version and its own plan.
Planned ==
    \A j \in Job :
        Generating(j) /\ body[j].phase = "planned" =>
            body[j].copy.history # <<>> /\ body[j].copy.plan = <<j>>

DoneStays == \A j \in Job : body[j].phase = "done" => body'[j].phase = "done"

PendingKept ==
    \/ state'.pending = state.pending
    \/ \E f \in Feedback : ~Submitted(f) /\ state'.pending = Append(state.pending, f)

\* The workspace or an unrecorded plan changes; versions and lineage do not.
Quiet ==
    /\ UNCHANGED lineage
    /\ state'.active = state.active
    /\ state'.applied = state.applied
    /\ state.history # <<>> => state'.history = state.history
    /\ PendingKept

\* A generation commits: its own plan, at most a first version, the workspace of the row.
Generates(j, s) ==
    /\ Generating(j)
    /\ s.plan = <<j>>
    /\ state.history # <<>> => s.history = state.history
    /\ s.applied = state.applied
    /\ s.pending = state.pending

\* A regeneration commits: one more step, version and applied event.
Regenerates(j, s) ==
    /\ Regenerating(j)
    /\ ~state.locked
    /\ state.pending # <<>>
    /\ s.plan = Append(state.plan, j)
    /\ s.history = Append(state.history, j)
    /\ s.applied = state.applied \cup {Head(state.pending)}
    /\ s.pending = Tail(state.pending)

Commits(j, s) ==
    /\ CommitWithRevision(j, s)
    /\ body[j].phase \in Working /\ body'[j].phase = "done"
    /\ s.active = state.active
    /\ s.history # <<>>
    /\ Generates(j, s) \/ Regenerates(j, s)

Shaped ==
    \/ Quiet
    \/ \E j \in Job : \E s \in State : Commits(j, s)
    \/ \E b \in Fork, r \in Job : CreateFork(b, r)
    \/ \E b \in Branch : Activate(b)

LEMMA OneBody ==
    ASSUME TypeOK, NEW j \in Job, NEW b \in Body, body' = [body EXCEPT ![j] = b],
           body[j].phase # "done" \/ b.phase = "done",
           b.phase # "planned"
    PROVE  DoneStays /\ (Planned => Planned')
    BY DEF DoneStays, Planned, Generating, TypeOK

LEMMA ControlShape ==
    ASSUME Base, Planned, NEW j \in Job,
           Admit(j) \/ TurnAway(j) \/ Stop(j) \/ RequestGeneration(j) \/ RequestRegeneration(j)
               \/ EndExecution(j) \/ Recheck(j)
    PROVE  DoneStays /\ Planned' /\ Quiet
<1> USE DEF Base
<1>1. Quiet
    BY DEF Quiet, PendingKept, Admit, TurnAway, Stop, RequestGeneration, RequestRegeneration,
           EndExecution, Recheck
<1>2. CASE TurnAway(j) \/ Stop(j)
    BY <1>1, <1>2, OneBody, EndedBody DEF TurnAway, Stop
<1>3. CASE RequestGeneration(j) \/ RequestRegeneration(j)
    <2>1. \A k \in Job : k # j => body'[k] = body[k]
        BY <1>3 DEF RequestGeneration, RequestRegeneration, TypeOK
    <2>2. body[j].phase = "idle" /\ body'[j].phase = "checked"
        BY <1>3 DEF RequestGeneration, RequestRegeneration, BodyAt, TypeOK
    <2> QED BY <1>1, <2>1, <2>2 DEF DoneStays, Planned, Generating
<1>4. CASE Admit(j)
    BY <1>1, <1>4 DEF Admit, DoneStays, Planned, Generating, TypeOK, Body
<1>5. CASE EndExecution(j) \/ Recheck(j)
    <2>1. \A k \in Job : k # j => body'[k] = body[k]
        BY <1>5 DEF EndExecution, Recheck, TypeOK
    <2>2. body[j].phase # "done" /\ body'[j].kind = "regenerate"
        BY <1>5 DEF EndExecution, Recheck, Regenerating, TypeOK, Body
    <2> QED BY <1>1, <2>1, <2>2 DEF DoneStays, Planned, Generating
<1> QED BY <1>2, <1>3, <1>4, <1>5

LEMMA GenerationCommit ==
    ASSUME Base, Planned, NEW j \in Job, CommitGeneration(j)
    PROVE  DoneStays /\ Planned' /\ body[j].copy \in State /\ Commits(j, body[j].copy)
<1> USE DEF Base
<1> DEFINE s == body[j].copy
<1>1. s \in State /\ SameWorkspace(s, state) /\ s.history # <<>> /\ s.plan = <<j>>
    BY DEF CommitGeneration, CommitWithRevision, Current, Loaded, LoadedBody, Working,
           Tokens, JobToken, Planned
<1>2. CommitWithRevision(j, s) /\ body' = [body EXCEPT ![j] = Ended]
      /\ body[j].phase = "planned" /\ Generating(j)
    BY DEF CommitGeneration
<1>3. DoneStays /\ Planned' /\ body'[j].phase = "done"
    BY <1>2, OneBody, EndedBody DEF TypeOK
<1>4. Commits(j, s)
    BY <1>1, <1>2, <1>3 DEF Commits, Generates, SameWorkspace, Working
<1> QED BY <1>1, <1>3, <1>4

LEMMA GenerationShape ==
    ASSUME Base, Planned, NEW j \in Job, GenerationStep(j)
    PROVE  DoneStays /\ Planned' /\ Shaped
<1> USE DEF Base
<1>1. CASE RequestGeneration(j)
    BY <1>1, ControlShape DEF Shaped
<1>2. CASE StartGeneration(j)
    <2> DEFINE b == BodyAt("generate", "planning", [state EXCEPT !.unfinished = TRUE])
    <2>1. b \in Body /\ b.phase = "planning"
        BY EditedState DEF BodyAt, Body, Working, TypeOK
    <2>2. body' = [body EXCEPT ![j] = b] /\ body[j].phase # "done"
        BY <1>2 DEF StartGeneration
    <2> HIDE DEF b
    <2>3. DoneStays /\ Planned'
        BY <2>1, <2>2, OneBody
    <2>4. Quiet
        BY <1>2 DEF StartGeneration, Write, Quiet, PendingKept, TypeOK, State
    <2> QED BY <2>3, <2>4 DEF Shaped
<1>3. ASSUME NEW u \in BOOLEAN, NEW f \in BOOLEAN, SaveStage(j, u, f) PROVE DoneStays /\ Planned' /\ Shaped
    <2>1. body[j].copy \in State /\ SameWorkspace(body[j].copy, state)
        BY <1>3 DEF SaveStage, Loaded, LoadedBody, Working, Tokens, JobToken, Current
    <2>2. Quiet
        BY <1>3, <2>1, PlannedState DEF SaveStage, Write, Quiet, PendingKept, SameWorkspace
    <2>3. DoneStays /\ Planned'
        BY <1>3 DEF SaveStage, DoneStays, Planned, Generating, TypeOK, Body
    <2> QED BY <2>2, <2>3 DEF Shaped
<1>4. ASSUME NEW u \in BOOLEAN, EndPlanning(j, u) PROVE DoneStays /\ Planned' /\ Shaped
    <2> DEFINE s == PartlyPlanned(j, u, FALSE)
               t == [s EXCEPT !.history = IF @ = <<>> THEN <<j>> ELSE @]
    <2>1. body[j].copy \in State
        BY <1>4 DEF EndPlanning, Loaded, LoadedBody, Working
    <2>2. s \in State /\ s.plan = <<j>>
        BY <2>1, PlannedState
    <2>3. /\ body'[j].copy = t /\ body[j].phase = "planning"
          /\ \A k \in Job : k # j => body'[k] = body[k]
        BY <1>4 DEF EndPlanning, TypeOK, Body
    <2> HIDE DEF s
    <2>4. t.plan = s.plan /\ t.history # <<>>
        BY <2>2 DEF State
    <2> HIDE DEF t
    <2>5. DoneStays /\ Planned'
        BY <2>2, <2>3, <2>4 DEF DoneStays, Planned, Generating
    <2>6. Quiet
        BY <1>4 DEF EndPlanning, Quiet, PendingKept
    <2> QED BY <2>5, <2>6 DEF Shaped
<1>5. CASE CommitGeneration(j)
    BY <1>5, GenerationCommit DEF Shaped
<1>6. CASE FailGeneration(j)
    <2>1. DoneStays /\ Planned'
        BY <1>6, OneBody, EndedBody DEF FailGeneration
    <2>2. CASE Current(j)
        <3>1. body[j].copy \in State /\ SameWorkspace(body[j].copy, state)
            BY <1>6, <2>2 DEF FailGeneration, Loaded, LoadedBody, Working, Tokens, JobToken, Current
        <3>2. PICK s \in InMemory(j) : Write(s, {})
            BY <1>6, <2>2 DEF FailGeneration
        <3>3. SameWorkspace(s, body[j].copy) /\ s.history = body[j].copy.history
            BY <3>1, <3>2, PlannedState DEF InMemory, SameWorkspace, Version
        <3>4. Quiet
            BY <1>6, <3>1, <3>2, <3>3
                DEF FailGeneration, Write, Quiet, PendingKept, SameWorkspace
        <3> QED BY <2>1, <3>4 DEF Shaped
    <2>3. CASE ~Current(j)
        BY <1>6, <2>1, <2>3 DEF FailGeneration, Shaped, Quiet, PendingKept
    <2> QED BY <2>2, <2>3
<1> QED BY <1>1, <1>2, <1>3, <1>4, <1>5, <1>6, Zenon DEF GenerationStep

LEMMA RegenerationCommit ==
    ASSUME Base, Planned, NEW j \in Job, CommitRegeneration(j)
    PROVE  DoneStays /\ Planned' /\ Regenerated(j) \in State /\ Commits(j, Regenerated(j))
<1> USE DEF Base
<1> DEFINE s == Regenerated(j)
<1>1. /\ CommitWithRevision(j, s) /\ body' = [body EXCEPT ![j] = Ended]
      /\ body[j].phase = "rechecked" /\ Regenerating(j)
    BY DEF CommitRegeneration
<1>2. /\ body[j].copy = state /\ state \in State
      /\ state.pending # <<>> /\ ~state.locked
    BY <1>1 DEF CommitWithRevision, Current, Tokens, JobToken, Loaded, LoadedBody, Working,
                TypeOK, Regenerating
<1>3. /\ s \in State /\ s.plan = Append(state.plan, j) /\ s.history = Append(state.history, j)
      /\ s.pending = Tail(state.pending) /\ s.applied = state.applied \cup {Head(state.pending)}
      /\ s.active = state.active
    BY <1>2, RegeneratedState
<1> HIDE DEF s
<1>4. DoneStays /\ Planned' /\ body'[j].phase = "done"
    BY <1>1, OneBody, EndedBody DEF TypeOK
<1>5. Append(state.history, j) # <<>>
    <2>1. state.history \in Seq(Job)
        BY <1>2 DEF State
    <2> QED BY <2>1
<1>6. Commits(j, s)
    BY <1>1, <1>2, <1>3, <1>4, <1>5 DEF Commits, Regenerates, Working
<1> QED BY <1>3, <1>4, <1>6 DEF s

LEMMA RegenerationShape ==
    ASSUME Base, Planned, NEW j \in Job, RegenerationStep(j)
    PROVE  DoneStays /\ Planned' /\ Shaped
<1> USE DEF Base
<1>1. CASE RequestRegeneration(j) \/ EndExecution(j) \/ Recheck(j)
    BY <1>1, ControlShape DEF Shaped
<1>2. CASE LoadRegeneration(j)
    <2>1. BodyAt("regenerate", "planning", state) \in Body
          /\ BodyAt("regenerate", "planning", state).phase = "planning"
        BY DEF BodyAt, Body, Working, TypeOK
    <2>2. DoneStays /\ Planned'
        BY <1>2, <2>1, OneBody DEF LoadRegeneration
    <2> QED BY <1>2, <2>2 DEF LoadRegeneration, Shaped, Quiet, PendingKept
<1>3. CASE RefuseRegeneration(j) \/ RefuseAtRecheck(j)
    <2>1. DoneStays /\ Planned'
        BY <1>3, OneBody, EndedBody DEF RefuseRegeneration, RefuseAtRecheck
    <2> QED BY <1>3, <2>1 DEF RefuseRegeneration, RefuseAtRecheck, Write, Shaped, Quiet, PendingKept
<1>4. CASE BlockRegeneration(j)
    <2>1. DoneStays /\ Planned'
        BY <1>4, OneBody, EndedBody DEF BlockRegeneration
    <2>2. state' = state
        BY <1>4 DEF BlockRegeneration, Current, Write, Tokens, JobToken
    <2> QED BY <1>4, <2>1, <2>2 DEF BlockRegeneration, Shaped, Quiet, PendingKept
<1>5. CASE CommitRegeneration(j)
    BY <1>5, RegenerationCommit DEF Shaped
<1> QED BY <1>1, <1>2, <1>3, <1>4, <1>5 DEF RegenerationStep

LEMMA EditShape ==
    ASSUME Base, Planned, NEW q \in Request, EditStep(q)
    PROVE  DoneStays /\ Planned' /\ Quiet
<1> USE DEF Base
<1>1. body' = body
    BY DEF EditStep, LoadEdit, ApplyFeedback, CreateLock, DeleteLock, Promote, DropEdit, SaveEdit
<1>2. DoneStays /\ Planned'
    BY <1>1 DEF DoneStays, Planned, Generating
<1>3. Current(q) => edit[q] = state
    BY DEF Current, Tokens, EditToken
<1>4. CASE LoadEdit(q) \/ DropEdit(q)
    BY <1>2, <1>4 DEF LoadEdit, DropEdit, Quiet, PendingKept
<1>5. ASSUME NEW f \in Feedback, ApplyFeedback(q, f) PROVE Quiet
    BY <1>3, <1>5 DEF ApplyFeedback, SaveEdit, Write, Quiet, PendingKept, TypeOK, State
<1>6. CASE CreateLock(q) \/ DeleteLock(q)
    <2>1. \/ state' = [state EXCEPT !.locked = TRUE]
          \/ state' = [state EXCEPT !.locked = FALSE]
        BY <1>3, <1>6 DEF CreateLock, DeleteLock, SaveEdit, Write
    <2>2. UNCHANGED lineage
        BY <1>6 DEF CreateLock, DeleteLock, SaveEdit
    <2>3. Quiet
        <3>1. CASE state' = [state EXCEPT !.locked = TRUE]
            BY <2>2, <3>1 DEF Quiet, PendingKept, TypeOK, State
        <3>2. CASE state' = [state EXCEPT !.locked = FALSE]
            BY <2>2, <3>2 DEF Quiet, PendingKept, TypeOK, State
        <3> QED BY <2>1, <3>1, <3>2
    <2> QED BY <1>2, <2>3
<1>7. ASSUME NEW st \in Stamp, Promote(q, st) PROVE Quiet
    <2>1. state' = [state EXCEPT !.report = st] /\ UNCHANGED lineage
        BY <1>3, <1>7 DEF Promote, SaveEdit, Write
    <2> QED BY <2>1 DEF Quiet, PendingKept, TypeOK, State
<1> QED BY <1>2, <1>4, <1>5, <1>6, <1>7 DEF EditStep

LEMMA StepShape ==
    ASSUME Base, Planned, [Next]_vars
    PROVE  DoneStays /\ Planned' /\ Shaped
<1>1. ASSUME NEW j \in Job,
             Admit(j) \/ TurnAway(j) \/ Stop(j) \/ GenerationStep(j) \/ RegenerationStep(j)
      PROVE  DoneStays /\ Planned' /\ Shaped
    BY <1>1, ControlShape, GenerationShape, RegenerationShape DEF Shaped
<1>2. ASSUME NEW q \in Request, EditStep(q) PROVE DoneStays /\ Planned' /\ Shaped
    BY <1>2, EditShape DEF Shaped
<1>3. CASE BranchStep
    BY <1>3 DEF BranchStep, CreateFork, Activate, DoneStays, Planned, Generating, Shaped
<1>4. CASE RecordRefusal \/ CloseJob \/ UNCHANGED vars
    <2>1. body' = body /\ state' = state /\ UNCHANGED lineage
        BY <1>4 DEF RecordRefusal, CloseJob, Write, vars, lineage
    <2> QED BY <2>1 DEF DoneStays, Planned, Generating, Shaped, Quiet, PendingKept
<1> QED BY <1>1, <1>2, <1>3, <1>4, Zenon DEF Next


-----------------------------------------------------------------------------
(* Lineage: branches, heads and revisions                                   *)

ForksBased ==
    /\ base[Main] = Nothing
    /\ \A b \in Branch : base[b] # Nothing => base[b] \in Revisions /\ head[b] # Nothing

\* Nothing lies on a fork that does not exist yet.
ForksUnborn ==
    \A b \in Fork : base[b] = Nothing =>
        /\ head[b] = Nothing
        /\ state.active # b
        /\ \A r \in Revisions : revision[r].branch # b

SoundRevision(r) ==
    /\ body[r].phase = "done"
    /\ revision[r].snapshot.history # <<>>
    /\ revision[r].label = Version(revision[r].snapshot)
    /\ head[revision[r].branch] # Nothing
    /\ revision[r].label <= revision[head[revision[r].branch]].label

\* The head is the youngest version of its branch, and settled runs alone leave revisions.
RevisionsSound == \A r \in Revisions : SoundRevision(r)

\* The row and the head of its branch have the same versions and the same applied feedback.
HeadAgrees ==
    head[state.active] # Nothing =>
        /\ state.history = revision[head[state.active]].snapshot.history
        /\ state.applied = revision[head[state.active]].snapshot.applied

LineageInv == Base /\ Planned /\ ForksBased /\ ForksUnborn /\ RevisionsSound /\ HeadAgrees

LEMMA RevisionTyped ==
    ASSUME TypeOK, NEW r \in Revisions
    PROVE  /\ r \in Job /\ r # Nothing
           /\ revision[r] \in Revision /\ revision[r] # Nothing
           /\ revision[r].branch \in Branch /\ revision[r].parent \in Job \cup {Nothing}
           /\ revision[r].label \in Nat /\ revision[r].snapshot \in State
    <1>1. r \in Job /\ revision[r] # Nothing
        BY DEF Revisions
    <1>2. revision[r] \in Revision
        BY <1>1 DEF TypeOK
    <1> QED BY <1>1, <1>2, LineageAssumption DEF Revision, Label

\* The label of the head is the version of the row.
LEMMA HeadLabel ==
    ASSUME LineageInv, head[state.active] # Nothing
    PROVE  revision[head[state.active]].label = Version(state) /\ state.history # <<>>
    <1>1. state.active \in Branch
        BY DEF LineageInv, Base, TypeOK, State
    <1>2. SoundRevision(head[state.active])
        BY <1>1 DEF LineageInv, Base, HeadsRecorded, RevisionsSound
    <1> QED BY <1>2 DEF LineageInv, HeadAgrees, SoundRevision, Version

NewRevision(s) ==
    [branch |-> state.active, parent |-> head[state.active], label |-> Version(s), snapshot |-> s]

LEMMA NewRevisionTyped ==
    ASSUME Base, NEW s \in State
    PROVE  NewRevision(s) \in Revision /\ NewRevision(s) # Nothing
    <1>1. state.active \in Branch /\ head[state.active] \in Job \cup {Nothing}
        BY DEF Base, TypeOK, State
    <1>2. NewRevision(s) \in Revision
        BY <1>1, VersionIsLabel DEF NewRevision, Revision
    <1> QED BY <1>2, NothingAssumption

\* A commit that records: one new revision, which becomes the head of the active branch.
Records(j, s) ==
    /\ state' = s
    /\ j \notin Revisions
    /\ revision' = [revision EXCEPT ![j] = NewRevision(s)]
    /\ head' = [head EXCEPT ![state.active] = j]
    /\ UNCHANGED base
    /\ ~Recorded(state.active, Version(s))

\* A commit whose version is recorded already leaves versions and lineage alone.
Skips(j, s) ==
    /\ state' = s
    /\ UNCHANGED lineage
    /\ Generates(j, s)
    /\ head[state.active] # Nothing
    /\ s.history = state.history

LEMMA CommitEffect ==
    ASSUME LineageInv, NEW j \in Job, NEW s \in State, Commits(j, s)
    PROVE  Records(j, s) \/ Skips(j, s)
<1> DEFINE b == state.active
<1>1. s.active = b /\ state' = s /\ b \in Branch
    BY DEF Commits, CommitWithRevision, Write, LineageInv, Base, TypeOK, State
<1>2. CASE ~Recorded(b, Version(s))
    <2>1. j \notin Revisions
        BY DEF Commits, LineageInv, RevisionsSound, SoundRevision, Working
    <2> QED BY <1>1, <1>2, <2>1 DEF Commits, CommitWithRevision, Records, NewRevision, ParentOf
<1>3. CASE Recorded(b, Version(s))
    <2>1. PICK r \in Revisions : revision[r].branch = b /\ revision[r].label = Version(s)
        BY <1>3 DEF Recorded
    <2>2. SoundRevision(r)
        BY DEF LineageInv, RevisionsSound
    <2>3. head[b] # Nothing /\ Version(s) <= revision[head[b]].label
        BY <2>1, <2>2 DEF SoundRevision
    <2>4. revision[head[b]].label = Version(state) /\ state.history # <<>>
        BY <2>3, HeadLabel
    <2>5. state.history \in Seq(Job)
        BY DEF LineageInv, Base, TypeOK, State
    <2>6. ~Regenerates(j, s)
        <3>1. SUFFICES ASSUME Regenerates(j, s) PROVE FALSE
            OBVIOUS
        <3>2. s.history = Append(state.history, j)
            BY <3>1 DEF Regenerates
        <3>3. Version(s) = Len(state.history) + 1 /\ Version(state) = Len(state.history)
              /\ Len(state.history) \in Nat
            BY <2>4, <2>5, <3>2 DEF Version
        <3> QED BY <2>3, <2>4, <3>3
    <2>7. Generates(j, s) /\ s.history = state.history
        BY <2>4, <2>6 DEF Commits, Generates
    <2>8. UNCHANGED lineage
        BY <1>1, <1>3 DEF Commits, CommitWithRevision, lineage
    <2> QED BY <1>1, <2>3, <2>7, <2>8 DEF Skips
<1> QED BY <1>2, <1>3


\* The part of the invariant that speaks of the lineage alone, after a step.
LineageKept == HeadsRecorded' /\ ForksBased' /\ ForksUnborn' /\ RevisionsSound' /\ HeadAgrees'

LEMMA UnmovedLineage ==
    ASSUME LineageInv, DoneStays, UNCHANGED lineage,
           state'.active = state.active, state'.applied = state.applied,
           state.history # <<>> => state'.history = state.history
    PROVE  LineageKept
<1>1. UNCHANGED <<base, head, revision>> /\ Revisions' = Revisions
    BY DEF lineage, Revisions
<1>2. HeadsRecorded' /\ ForksBased' /\ ForksUnborn'
    BY <1>1 DEF LineageInv, Base, HeadsRecorded, ForksBased, ForksUnborn
<1>3. RevisionsSound'
    <2>1. ASSUME NEW r \in Revisions PROVE SoundRevision(r)'
        <3>1. SoundRevision(r) /\ r \in Job
            BY DEF LineageInv, RevisionsSound, Revisions
        <3> QED BY <1>1, <3>1 DEF SoundRevision, DoneStays, Version
    <2> QED BY <1>1, <2>1, Zenon DEF RevisionsSound
<1>4. HeadAgrees'
    BY <1>1, HeadLabel DEF LineageInv, HeadAgrees
<1> QED BY <1>2, <1>3, <1>4 DEF LineageKept

LEMMA RecordedRevisions ==
    ASSUME LineageInv, NEW j \in Job, NEW s \in State, Records(j, s)
    PROVE  /\ Revisions' = Revisions \cup {j}
           /\ revision'[j] = NewRevision(s)
           /\ \A r \in Revisions : r # j /\ revision'[r] = revision[r]
           /\ head'[state.active] = j
           /\ \A b \in Branch : b # state.active => head'[b] = head[b]
<1>1. /\ revision \in [Job -> Revision \cup {Nothing}] /\ state.active \in Branch
      /\ head \in [Branch -> Job \cup {Nothing}]
    BY DEF LineageInv, Base, TypeOK, State
<1>2. NewRevision(s) # Nothing
    BY NewRevisionTyped DEF LineageInv
<1> QED BY <1>1, <1>2 DEF Records, Revisions

LEMMA GrownLineage ==
    ASSUME LineageInv, DoneStays, NEW j \in Job, NEW s \in State, Commits(j, s), Records(j, s)
    PROVE  LineageKept
<1> DEFINE b == state.active
<1>1. b \in Branch /\ s.active = b /\ state' = s /\ base' = base /\ j # Nothing
    BY LineageAssumption DEF LineageInv, Base, TypeOK, State, Commits, Records
<1>2. /\ Revisions' = Revisions \cup {j} /\ revision'[j] = NewRevision(s)
      /\ \A r \in Revisions : r # j /\ revision'[r] = revision[r]
      /\ head'[b] = j /\ \A c \in Branch : c # b => head'[c] = head[c]
    BY RecordedRevisions
<1>3. HeadsRecorded'
    BY <1>2 DEF HeadsRecorded, LineageInv, Base
<1>4. ForksBased'
    BY <1>1, <1>2 DEF ForksBased, LineageInv
<1>5. NewRevision(s).branch = b /\ NewRevision(s).snapshot = s /\ NewRevision(s).label = Version(s)
    BY DEF NewRevision
<1>6. ForksUnborn'
    <2>1. ASSUME NEW c \in Fork, base[c] = Nothing
          PROVE  head'[c] = Nothing /\ b # c /\ \A r \in Revisions' : revision'[r].branch # c
        BY <1>1, <1>2, <1>5, <2>1 DEF ForksUnborn, LineageInv, Branch
    <2> QED BY <1>1, <2>1 DEF ForksUnborn
<1>7. RevisionsSound'
    <2>1. Version(s) \in Nat
        BY VersionIsLabel DEF Label
    <2>2. SoundRevision(j)'
        BY <1>1, <1>2, <1>5, <2>1 DEF SoundRevision, Commits, Version
    <2>3. ASSUME NEW r \in Revisions PROVE SoundRevision(r)'
        <3>1. /\ SoundRevision(r) /\ r \in Job /\ revision'[r] = revision[r]
              /\ revision[r].branch \in Branch /\ revision[r].label \in Nat
            BY <1>2, RevisionTyped DEF LineageInv, Base, RevisionsSound
        <3>2. CASE revision[r].branch # b
            <4>1. head[revision[r].branch] \in Revisions
                BY <3>1 DEF SoundRevision, LineageInv, Base, HeadsRecorded
            <4> QED BY <1>2, <3>1, <3>2, <4>1 DEF SoundRevision, DoneStays, Version
        <3>3. CASE revision[r].branch = b
            <4>1. head[b] # Nothing /\ revision[r].label <= revision[head[b]].label
                BY <3>1, <3>3 DEF SoundRevision
            <4>2. revision[head[b]].label = Version(state) /\ state.history # <<>>
                BY <4>1, HeadLabel
            <4>3. state.history \in Seq(Job)
                BY DEF LineageInv, Base, TypeOK, State
            <4>4. Version(state) <= Version(s) /\ Version(state) \in Nat
                <5>1. CASE s.history = state.history
                    BY <2>1, <5>1 DEF Version
                <5>2. CASE s.history = Append(state.history, j)
                    BY <4>2, <4>3, <5>2 DEF Version
                <5> QED BY <4>2, <5>1, <5>2 DEF Commits, Generates, Regenerates
            <4>5. revision[r].label <= Version(s)
                BY <2>1, <3>1, <4>1, <4>2, <4>4
            <4> QED BY <1>1, <1>2, <1>5, <3>1, <3>3, <4>5 DEF SoundRevision, DoneStays, Version
        <3> QED BY <3>2, <3>3
    <2> QED BY <1>2, <2>2, <2>3, Zenon DEF RevisionsSound
<1>8. HeadAgrees'
    BY <1>1, <1>2, <1>5 DEF HeadAgrees
<1> QED BY <1>3, <1>4, <1>6, <1>7, <1>8 DEF LineageKept

LEMMA ForkLineage ==
    ASSUME LineageInv, DoneStays, NEW b \in Fork, NEW r \in Job, CreateFork(b, r)
    PROVE  LineageKept
<1>1. /\ base[b] = Nothing /\ r \in Revisions /\ r # Nothing
      /\ base' = [base EXCEPT ![b] = r] /\ head' = [head EXCEPT ![b] = r]
      /\ UNCHANGED <<state, body, revision>> /\ Revisions' = Revisions
    BY LineageAssumption DEF CreateFork, Revisions
<1>2. /\ head[b] = Nothing /\ state.active # b /\ \A q \in Revisions : revision[q].branch # b
    BY <1>1 DEF LineageInv, ForksUnborn
<1>3. /\ base'[b] = r /\ head'[b] = r /\ b # Main /\ b \in Branch /\ Main \in Branch
      /\ \A c \in Branch : c # b => base'[c] = base[c] /\ head'[c] = head[c]
    BY <1>1, LineageAssumption DEF LineageInv, Base, TypeOK, Branch
<1>4. HeadsRecorded'
    BY <1>1, <1>3 DEF LineageInv, Base, HeadsRecorded
<1>5. ForksBased'
    BY <1>1, <1>3 DEF LineageInv, ForksBased
<1>6. ForksUnborn'
    BY <1>1, <1>3 DEF LineageInv, ForksUnborn, Branch
<1>7. RevisionsSound'
    <2>1. ASSUME NEW q \in Revisions PROVE SoundRevision(q)'
        <3>1. SoundRevision(q) /\ revision[q].branch # b /\ revision[q].branch \in Branch
            BY <1>2, RevisionTyped DEF LineageInv, Base, RevisionsSound
        <3> QED BY <1>1, <1>3, <3>1 DEF SoundRevision, Version
    <2> QED BY <1>1, <2>1, Zenon DEF RevisionsSound
<1>8. HeadAgrees'
    BY <1>1, <1>2, <1>3 DEF LineageInv, Base, TypeOK, State, HeadAgrees
<1> QED BY <1>4, <1>5, <1>6, <1>7, <1>8 DEF LineageKept

LEMMA ActivationEffect ==
    ASSUME LineageInv, NEW b \in Branch, Activate(b)
    PROVE  LET s == revision[head[b]].snapshot
           IN  /\ s \in State /\ state' = Restored(b) /\ Restored(b) \in State
               /\ state'.plan = s.plan /\ state'.history = s.history
               /\ state'.usable = s.usable /\ state'.unfinished = s.unfinished
               /\ state'.pending = s.pending /\ state'.applied = s.applied
               /\ state'.report = s.report /\ state'.active = b
    <1>1. revision[head[b]].snapshot \in State
        BY HeadRevision DEF Activate, LineageInv, Base
    <1>2. state' = Restored(b) /\ Restored(b) \in State
        BY <1>1, EditedState DEF Activate, Write, Restored
    <1> QED BY <1>1, <1>2 DEF Restored, State

LEMMA SwitchedLineage ==
    ASSUME LineageInv, DoneStays, NEW b \in Branch, Activate(b)
    PROVE  LineageKept
<1>1. UNCHANGED <<base, head, revision, body>> /\ Revisions' = Revisions /\ head[b] # Nothing
    BY DEF Activate, lineage, Revisions
<1>2. /\ state'.history = revision[head[b]].snapshot.history
      /\ state'.applied = revision[head[b]].snapshot.applied
      /\ state'.active = b
    BY ActivationEffect
<1>3. HeadsRecorded' /\ ForksBased'
    BY <1>1 DEF LineageInv, Base, HeadsRecorded, ForksBased
<1>4. ForksUnborn'
    BY <1>1, <1>2 DEF LineageInv, ForksUnborn
<1>5. RevisionsSound'
    BY <1>1 DEF LineageInv, RevisionsSound, SoundRevision, Version
<1>6. HeadAgrees'
    BY <1>1, <1>2 DEF HeadAgrees
<1> QED BY <1>3, <1>4, <1>5, <1>6 DEF LineageKept

LEMMA LineageStep ==
    ASSUME LineageInv, [Next]_vars
    PROVE  LineageInv'
<1>1. DoneStays /\ Planned' /\ Shaped
    BY StepShape DEF LineageInv
<1>2. TypeOK' /\ Loaded' /\ Tokens'
    BY BaseStep DEF LineageInv
<1>3. LineageKept
    <2>1. CASE Quiet
        BY <1>1, <2>1, UnmovedLineage DEF Quiet
    <2>2. ASSUME NEW j \in Job, NEW s \in State, Commits(j, s) PROVE LineageKept
        <3>1. CASE Records(j, s)
            BY <1>1, <2>2, <3>1, GrownLineage
        <3>2. CASE Skips(j, s)
            BY <1>1, <2>2, <3>2, UnmovedLineage DEF Skips, Generates, Commits
        <3> QED BY <2>2, <3>1, <3>2, CommitEffect
    <2>3. ASSUME NEW b \in Fork, NEW r \in Job, CreateFork(b, r) PROVE LineageKept
        BY <1>1, <2>3, ForkLineage
    <2>4. ASSUME NEW b \in Branch, Activate(b) PROVE LineageKept
        BY <1>1, <2>4, SwitchedLineage
    <2> QED BY <1>1, <2>1, <2>2, <2>3, <2>4, Zenon DEF Shaped
<1> QED BY <1>1, <1>2, <1>3 DEF LineageInv, Base, LineageKept

LEMMA LineageInit ==
    ASSUME Init
    PROVE  LineageInv
<1>1. TypeOK
    BY DraftState DEF Init, TypeOK, BodyAt, Body
<1>2. Loaded /\ Planned
    BY DEF Init, Loaded, LoadedBody, Planned, Working, BodyAt
<1>3. Tokens
    BY DEF Init, Tokens, JobToken, EditToken
<1>4. Revisions = {}
    BY DEF Init, Revisions
<1>5. state.active = Main
    BY DEF Init, Draft
<1>6. HeadsRecorded /\ ForksBased /\ ForksUnborn
    BY <1>4, <1>5, LineageAssumption DEF Init, HeadsRecorded, ForksBased, ForksUnborn, Branch
<1>7. RevisionsSound /\ HeadAgrees
    BY <1>4, <1>5 DEF Init, RevisionsSound, HeadAgrees, Branch
<1> QED BY <1>1, <1>2, <1>3, <1>6, <1>7 DEF LineageInv, Base

\* The inductive invariant: tokens tell what their holders know, settled runs alone leave
\* revisions, and the row agrees with the head of its branch on versions and feedback.
THEOREM LineageInvariant == Spec => []LineageInv
<1>1. Init => LineageInv
    BY LineageInit
<1>2. LineageInv /\ [Next]_vars => LineageInv'
    BY LineageStep
<1> QED BY <1>1, <1>2, PTL DEF Spec

\* Every state the trip can reach has its type: documents, runs, tokens and lineage rows.
THEOREM TypeCorrect == Spec => []TypeOK
<1>1. LineageInv => TypeOK
    BY DEF LineageInv, Base
<1> QED BY <1>1, LineageInvariant, PTL

\* The live document and the head of its branch never disagree about the version
\* (commit_state_with_revision).
THEOREM VersionWithHead == Spec => []VersionMatchesHead
<1>1. LineageInv => VersionMatchesHead
    BY HeadLabel DEF VersionMatchesHead
<1> QED BY <1>1, LineageInvariant, PTL


-----------------------------------------------------------------------------
(* What a step may never do                                                 *)

\* Revisions are immutable, a fork never moves its base, and a head only moves to a new
\* revision whose parent is the old head (_record_current_revision, update_branch_head).
THEOREM LineageOnlyGrows == Spec => LineageAppendOnly
<1> DEFINE Grows ==
       /\ \A r \in Revisions : revision'[r] = revision[r]
       /\ \A b \in Branch :
            /\ base[b] # Nothing => base'[b] = base[b]
            /\ head'[b] # head[b] =>
                 \/ head[b] = Nothing /\ base[b] = Nothing /\ head'[b] = base'[b]
                 \/ /\ head'[b] \notin Revisions
                    /\ revision'[head'[b]].branch = b
                    /\ revision'[head'[b]].parent = head[b]
<1>1. ASSUME LineageInv, [Next]_vars PROVE Grows
    <2>1. Shaped
        BY <1>1, StepShape DEF LineageInv
    <2>2. CASE UNCHANGED lineage
        BY <2>2 DEF lineage
    <2>3. ASSUME NEW j \in Job, NEW s \in State, Commits(j, s) PROVE Grows
        <3>1. CASE Records(j, s)
            <4>1. NewRevision(s).branch = state.active /\ NewRevision(s).parent = head[state.active]
                BY DEF NewRevision
            <4>2. /\ revision'[j] = NewRevision(s) /\ head'[state.active] = j
                  /\ \A r \in Revisions : revision'[r] = revision[r]
                  /\ \A b \in Branch : b # state.active => head'[b] = head[b]
                BY <1>1, <3>1, RecordedRevisions
            <4>3. j \notin Revisions /\ base' = base
                BY <3>1 DEF Records
            <4>4. ASSUME NEW b \in Branch, head'[b] # head[b]
                  PROVE  /\ head'[b] \notin Revisions
                         /\ revision'[head'[b]].branch = b
                         /\ revision'[head'[b]].parent = head[b]
                <5>1. b = state.active
                    BY <4>2, <4>4
                <5> QED BY <4>1, <4>2, <4>3, <5>1
            <4> QED BY <4>2, <4>3, <4>4
        <3>2. CASE Skips(j, s)
            BY <2>2, <3>2 DEF Skips
        <3> QED BY <1>1, <2>3, <3>1, <3>2, CommitEffect
    <2>4. ASSUME NEW b \in Fork, NEW r \in Job, CreateFork(b, r) PROVE Grows
        BY <1>1, <2>4 DEF CreateFork, LineageInv, Base, TypeOK, ForksUnborn, Branch
    <2>5. ASSUME NEW b \in Branch, Activate(b) PROVE Grows
        BY <2>2, <2>5 DEF Activate
    <2> QED BY <2>1, <2>2, <2>3, <2>4, <2>5, Zenon DEF Shaped, Quiet
<1>2. LineageInv /\ [Next]_vars => [Grows]_vars
    BY <1>1
<1> HIDE DEF Grows
<1>3. Spec => [][Grows]_vars
    BY <1>2, LineageInvariant, PTL DEF Spec
<1> QED BY <1>3 DEF LineageAppendOnly, Grows

\* Only an activation moves the trip to another branch (_activate_branch).
THEOREM SwitchOnlyByActivation == Spec => OnlyActivationSwitches
<1> DEFINE Stays == state'.active # state.active => body' = body /\ edit' = edit
<1>1. ASSUME LineageInv, [Next]_vars PROVE Stays
    <2>1. Shaped
        BY <1>1, StepShape DEF LineageInv
    <2>2. ASSUME NEW j \in Job, NEW s \in State, Commits(j, s) PROVE Stays
        BY <2>2 DEF Commits, CommitWithRevision, Write
    <2>3. ASSUME NEW b \in Fork, NEW r \in Job, CreateFork(b, r) PROVE Stays
        BY <2>3 DEF CreateFork
    <2>4. ASSUME NEW b \in Branch, Activate(b) PROVE Stays
        BY <2>4 DEF Activate
    <2> QED BY <2>1, <2>2, <2>3, <2>4, Zenon DEF Shaped, Quiet
<1>2. LineageInv /\ [Next]_vars => [Stays]_vars
    BY <1>1
<1> HIDE DEF Stays
<1>3. Spec => [][Stays]_vars
    BY <1>2, LineageInvariant, PTL DEF Spec
<1> QED BY <1>3 DEF OnlyActivationSwitches, Stays

LEMMA PendingOfAppend ==
    ASSUME NEW s \in State, NEW t \in State, NEW f \in Feedback, t.pending = Append(s.pending, f)
    PROVE  Pending(s) \subseteq Pending(t)
<1>1. s.pending \in Seq(Feedback) /\ Len(s.pending) \in Nat
    BY DEF State
<1>2. Len(t.pending) = Len(s.pending) + 1 /\ \A n \in 1..Len(s.pending) : t.pending[n] = s.pending[n]
    BY <1>1
<1>3. 1..Len(s.pending) \subseteq 1..Len(t.pending)
    BY <1>1, <1>2
<1> QED BY <1>2, <1>3 DEF Pending

LEMMA PendingOfTail ==
    ASSUME NEW s \in State, NEW t \in State, s.pending # <<>>, t.pending = Tail(s.pending)
    PROVE  Pending(s) = Pending(t) \cup {Head(s.pending)}
<1>1. s.pending \in Seq(Feedback) /\ Len(s.pending) \in Nat \ {0}
    BY DEF State
<1>2. /\ Len(t.pending) = Len(s.pending) - 1 /\ Head(s.pending) = s.pending[1]
      /\ \A n \in 1..Len(t.pending) : t.pending[n] = s.pending[n + 1]
    BY <1>1
<1>3. ASSUME NEW n \in 1..Len(s.pending)
      PROVE  s.pending[n] \in Pending(t) \cup {Head(s.pending)}
    <2>1. CASE n = 1
        BY <1>2, <2>1
    <2>2. CASE n # 1
        <3>1. n - 1 \in 1..Len(t.pending) /\ t.pending[n - 1] = s.pending[n]
            BY <1>1, <1>2, <2>2
        <3> QED BY <3>1 DEF Pending
    <2> QED BY <2>1, <2>2
<1>4. ASSUME NEW n \in 1..Len(t.pending) PROVE t.pending[n] \in Pending(s)
    <2>1. n + 1 \in 1..Len(s.pending)
        BY <1>1, <1>2
    <2> QED BY <1>2, <2>1 DEF Pending
<1>5. Head(s.pending) \in Pending(s)
    BY <1>1, <1>2 DEF Pending
<1> QED BY <1>3, <1>4, <1>5 DEF Pending

\* No accepted feedback event is overwritten by a job, an edit, an audit record or a switch that
\* loaded the document earlier: it stays pending until a version applies it.
THEOREM FeedbackIsKept == Spec => NoFeedbackLost
<1> DEFINE Kept == \A f \in Pending(state) : f \in Pending(state') \cup state'.applied
<1>1. ASSUME LineageInv, [Next]_vars PROVE Kept
    <2>1. Shaped /\ state \in State /\ state' \in State
        BY <1>1, StepShape, LineageStep DEF LineageInv, Base, TypeOK
    <2>2. CASE state'.pending = state.pending
        BY <2>2 DEF Pending
    <2>3. CASE Quiet
        BY <2>1, <2>2, <2>3, PendingOfAppend DEF Quiet, PendingKept
    <2>4. ASSUME NEW j \in Job, NEW s \in State, Commits(j, s) PROVE Kept
        <3>1. state' = s
            BY <2>4 DEF Commits, CommitWithRevision, Write
        <3>2. CASE Generates(j, s)
            BY <2>2, <3>1, <3>2 DEF Generates
        <3>3. CASE Regenerates(j, s)
            BY <2>1, <3>1, <3>3, PendingOfTail DEF Regenerates
        <3> QED BY <2>4, <3>2, <3>3 DEF Commits
    <2>5. ASSUME NEW b \in Fork, NEW r \in Job, CreateFork(b, r) PROVE Kept
        BY <2>2, <2>5 DEF CreateFork
    <2>6. ASSUME NEW b \in Branch, Activate(b) PROVE Kept
        <3>1. Len(state.pending) = 0
            BY <2>6 DEF Activate, Switchable
        <3> QED BY <3>1 DEF Pending
    <2> QED BY <2>1, <2>3, <2>4, <2>5, <2>6, Zenon DEF Shaped
<1>2. LineageInv /\ [Next]_vars => [Kept]_vars
    BY <1>1
<1> HIDE DEF Kept
<1>3. Spec => [][Kept]_vars
    BY <1>2, LineageInvariant, PTL DEF Spec
<1> QED BY <1>3 DEF NoFeedbackLost, Kept


LEMMA PlanChangeUnlocked ==
    ASSUME Base, [Next]_vars, NEW j \in Job, Regenerating(j), body'[j] # body[j],
           state'.plan # state.plan
    PROVE  ~state.locked
<1> USE DEF Base
<1>1. ASSUME NEW k \in Job, Admit(k) \/ TurnAway(k) \/ Stop(k) PROVE FALSE
    BY <1>1 DEF Admit, TurnAway, Stop
<1>2. ASSUME NEW k \in Job, GenerationStep(k) PROVE FALSE
    <2>1. CASE RequestGeneration(k) \/ \E u \in BOOLEAN : EndPlanning(k, u)
        BY <2>1 DEF RequestGeneration, EndPlanning
    <2>2. ASSUME Generating(k), k # j => body'[j] = body[j] PROVE FALSE
        BY <2>2 DEF Generating, Regenerating
    <2>3. CASE StartGeneration(k) \/ CommitGeneration(k) \/ FailGeneration(k)
        BY <2>2, <2>3 DEF StartGeneration, CommitGeneration, FailGeneration, TypeOK
    <2>4. ASSUME NEW u \in BOOLEAN, NEW f \in BOOLEAN, SaveStage(k, u, f) PROVE FALSE
        BY <2>2, <2>4 DEF SaveStage, TypeOK
    <2> QED BY <1>2, <2>1, <2>3, <2>4, Zenon DEF GenerationStep
<1>3. ASSUME NEW k \in Job, RegenerationStep(k) PROVE ~state.locked
    <2>1. CASE BlockRegeneration(k)
        BY <2>1 DEF BlockRegeneration, Current, Write, Tokens, JobToken
    <2>2. CASE CommitRegeneration(k)
        BY <2>2 DEF CommitRegeneration, CommitWithRevision, Current, Tokens, JobToken,
                    Loaded, LoadedBody, Working, Regenerating
    <2> QED BY <1>3, <2>1, <2>2
            DEF RegenerationStep, RequestRegeneration, LoadRegeneration, RefuseRegeneration,
                EndExecution, Recheck, RefuseAtRecheck, Write
<1>4. ASSUME body' = body PROVE FALSE
    BY <1>4
<1>5. CASE BranchStep \/ RecordRefusal \/ CloseJob \/ UNCHANGED vars
    BY <1>4, <1>5 DEF BranchStep, CreateFork, Activate, RecordRefusal, CloseJob, vars
<1>6. ASSUME NEW q \in Request, EditStep(q) PROVE FALSE
    BY <1>4, <1>6 DEF EditStep, LoadEdit, ApplyFeedback, CreateLock, DeleteLock, Promote, DropEdit, SaveEdit
<1> QED BY <1>1, <1>2, <1>3, <1>5, <1>6, Zenon DEF Next

\* A regeneration never changes the plan while a lock is active, even one created after its last
\* look at the document (_regenerate, the re-check and the commit).
THEOREM LocksAreRespected == Spec => LocksRespected
<1> DEFINE Respected ==
       \A j \in Job :
           Regenerating(j) /\ body'[j] # body[j] /\ state'.plan # state.plan => ~state.locked
<1>1. LineageInv /\ [Next]_vars => [Respected]_vars
    BY PlanChangeUnlocked DEF LineageInv
<1> HIDE DEF Respected
<1>2. Spec => [][Respected]_vars
    BY <1>1, LineageInvariant, PTL DEF Spec
<1> QED BY <1>2 DEF LocksRespected, Respected

-----------------------------------------------------------------------------
(* The chain of a branch                                                    *)

Own(b) == {r \in Revisions : revision[r].branch = b}

\* BranchIsAChain, for one branch.
Chain(b) ==
    /\ \A r, q \in Own(b) : r # q =>
         revision[r].label # revision[q].label /\ revision[r].parent # revision[q].parent
    /\ \A r \in Own(b) : revision[r].parent \in Own(b) \cup {base[b]}
    /\ head[b] \in Own(b) \cup {base[b]}
    /\ \A r \in Own(b) : revision[r].parent # head[b]

LEMMA ChainOfBranch == BranchIsAChain <=> \A b \in Branch : Chain(b)
    BY DEF BranchIsAChain, Chain, Own

LEMMA ChainUnmoved ==
    ASSUME NEW b \in Branch, Chain(b), Own(b)' = Own(b), base'[b] = base[b], head'[b] = head[b],
           \A r \in Own(b) : revision'[r] = revision[r]
    PROVE  Chain(b)'
    BY DEF Chain

\* A commit that records extends the chain of the active branch by one.
LEMMA ChainGrows ==
    ASSUME LineageInv, NEW j \in Job, NEW s \in State, Records(j, s),
           NEW b \in Branch, state.active = b, Chain(b)
    PROVE  Chain(b)'
<1>1. /\ Revisions' = Revisions \cup {j} /\ revision'[j] = NewRevision(s) /\ j \notin Revisions
      /\ \A r \in Revisions : r # j /\ revision'[r] = revision[r]
      /\ head'[b] = j /\ base' = base /\ ~Recorded(b, Version(s))
    BY RecordedRevisions DEF Records
<1>2. /\ NewRevision(s).branch = b /\ NewRevision(s).parent = head[b]
      /\ NewRevision(s).label = Version(s)
    BY DEF NewRevision
<1>3. Own(b)' = Own(b) \cup {j} /\ j \notin Own(b)
    BY <1>1, <1>2 DEF Own
<1>4. \A r \in Own(b) : /\ revision'[r] = revision[r] /\ r # j
                        /\ revision[r].label # Version(s) /\ revision[r].parent # head[b]
    BY <1>1 DEF Own, Recorded, Chain
<1>5. base[b] # j /\ head[b] \in Own(b) \cup {base[b]}
    BY <1>1, LineageAssumption DEF LineageInv, ForksBased, Chain
<1>6. \A r, q \in Own(b)' : r # q =>
          revision'[r].label # revision'[q].label /\ revision'[r].parent # revision'[q].parent
    BY <1>1, <1>2, <1>3, <1>4 DEF Chain
<1>7. \A r \in Own(b)' : revision'[r].parent \in Own(b)' \cup {base'[b]}
    BY <1>1, <1>2, <1>3, <1>4, <1>5 DEF Chain
<1>8. \A r \in Own(b)' : revision'[r].parent # j
    BY <1>1, <1>2, <1>3, <1>4, <1>5 DEF Chain
<1> QED BY <1>1, <1>3, <1>6, <1>7, <1>8 DEF Chain

LEMMA ChainStep ==
    ASSUME LineageInv, BranchIsAChain, [Next]_vars
    PROVE  BranchIsAChain'
<1>1. SUFFICES ASSUME NEW b \in Branch PROVE Chain(b)'
    BY ChainOfBranch DEF BranchIsAChain, Chain, Own
<1>2. Chain(b)
    BY ChainOfBranch
<1>3. Shaped
    BY StepShape DEF LineageInv
<1>4. CASE UNCHANGED lineage
    BY <1>2, <1>4, ChainUnmoved DEF lineage, Own, Revisions
<1>5. ASSUME NEW j \in Job, NEW s \in State, Commits(j, s) PROVE Chain(b)'
    <2>1. CASE Records(j, s) /\ state.active = b
        BY <1>2, <2>1, ChainGrows
    <2>2. CASE Records(j, s) /\ state.active # b
        <3>1. /\ Revisions' = Revisions \cup {j} /\ revision'[j] = NewRevision(s)
              /\ \A r \in Revisions : r # j /\ revision'[r] = revision[r]
              /\ head'[b] = head[b] /\ base' = base
            BY <2>2, RecordedRevisions DEF Records
        <3>2. NewRevision(s).branch # b
            BY <2>2 DEF NewRevision
        <3>3. Own(b)' = Own(b) /\ \A r \in Own(b) : revision'[r] = revision[r]
            BY <3>1, <3>2 DEF Own
        <3> QED BY <1>2, <3>1, <3>3, ChainUnmoved
    <2>3. CASE Skips(j, s)
        BY <1>4, <2>3 DEF Skips
    <2> QED BY <1>5, <2>1, <2>2, <2>3, CommitEffect
<1>6. ASSUME NEW f \in Fork, NEW r \in Job, CreateFork(f, r) PROVE Chain(b)'
    <2>1. UNCHANGED revision /\ Own(b)' = Own(b)
        BY <1>6 DEF CreateFork, Own, Revisions
    <2>2. CASE b = f
        <3>1. Own(b) = {}
            BY <1>6, <2>2 DEF CreateFork, LineageInv, ForksUnborn, Own
        <3>2. head'[b] = base'[b]
            BY <1>6, <2>2 DEF CreateFork, LineageInv, Base, TypeOK
        <3> QED BY <2>1, <3>1, <3>2 DEF Chain
    <2>3. CASE b # f
        <3>1. base'[b] = base[b] /\ head'[b] = head[b]
            BY <1>6, <2>3 DEF CreateFork, LineageInv, Base, TypeOK
        <3> QED BY <1>2, <2>1, <3>1, ChainUnmoved
    <2> QED BY <2>2, <2>3
<1>7. ASSUME NEW a \in Branch, Activate(a) PROVE Chain(b)'
    BY <1>4, <1>7 DEF Activate
<1> QED BY <1>3, <1>4, <1>5, <1>6, <1>7, Zenon DEF Shaped, Quiet

\* The revisions of a branch form one chain from its base to its head, one per version label,
\* whoever committed, retried or forked.
THEOREM BranchesAreChains == Spec => []BranchIsAChain
<1>1. Init => BranchIsAChain
    BY DEF Init, BranchIsAChain, Revisions
<1>2. LineageInv /\ BranchIsAChain /\ [Next]_vars => BranchIsAChain'
    BY ChainStep
<1> QED BY <1>1, <1>2, LineageInvariant, PTL DEF Spec


-----------------------------------------------------------------------------
(* Feedback is used once                                                    *)

\* An event is pending once, and never again after a version applied it.
Clean(s) ==
    /\ Pending(s) \cap s.applied = {}
    /\ \A m, n \in 1..Len(s.pending) : m # n => s.pending[m] # s.pending[n]

FeedbackClean == Clean(state) /\ \A r \in Revisions : Clean(revision[r].snapshot)

LEMMA CleanSame ==
    ASSUME NEW s \in State, NEW t \in State, Clean(s),
           t.pending = s.pending, t.applied = s.applied
    PROVE  Clean(t)
    BY DEF Clean, Pending

LEMMA CleanAppend ==
    ASSUME NEW s \in State, NEW t \in State, NEW f \in Feedback, Clean(s),
           f \notin s.applied, \A n \in 1..Len(s.pending) : s.pending[n] # f,
           t.pending = Append(s.pending, f), t.applied = s.applied
    PROVE  Clean(t)
<1>1. s.pending \in Seq(Feedback) /\ Len(s.pending) \in Nat
    BY DEF State
<1>2. /\ Len(t.pending) = Len(s.pending) + 1 /\ t.pending[Len(s.pending) + 1] = f
      /\ \A n \in 1..Len(s.pending) : t.pending[n] = s.pending[n]
    BY <1>1
<1>3. \A n \in 1..Len(t.pending) : n \in 1..Len(s.pending) \/ n = Len(s.pending) + 1
    BY <1>1, <1>2
<1>4. ASSUME NEW n \in 1..Len(t.pending) PROVE t.pending[n] \notin t.applied
    BY <1>2, <1>3 DEF Clean, Pending
<1>5. ASSUME NEW m \in 1..Len(t.pending), NEW n \in 1..Len(t.pending), m # n
      PROVE  t.pending[m] # t.pending[n]
    BY <1>2, <1>3, <1>5 DEF Clean
<1> QED BY <1>4, <1>5 DEF Clean, Pending

LEMMA CleanTail ==
    ASSUME NEW s \in State, NEW t \in State, Clean(s), s.pending # <<>>,
           t.pending = Tail(s.pending), t.applied = s.applied \cup {Head(s.pending)}
    PROVE  Clean(t) /\ Head(s.pending) \in Feedback \ s.applied
<1>1. s.pending \in Seq(Feedback) /\ Len(s.pending) \in Nat \ {0}
    BY DEF State
<1>2. /\ Len(t.pending) = Len(s.pending) - 1 /\ Head(s.pending) = s.pending[1]
      /\ s.pending[1] \in Feedback
      /\ \A n \in 1..Len(t.pending) : t.pending[n] = s.pending[n + 1]
    BY <1>1
<1>3. \A n \in 1..Len(t.pending) : n + 1 \in 1..Len(s.pending) /\ n + 1 # 1
    BY <1>1, <1>2
<1>4. 1 \in 1..Len(s.pending)
    BY <1>1
<1>5. ASSUME NEW n \in 1..Len(t.pending) PROVE t.pending[n] \notin t.applied
    BY <1>2, <1>3, <1>4 DEF Clean, Pending
<1>6. ASSUME NEW m \in 1..Len(t.pending), NEW n \in 1..Len(t.pending), m # n
      PROVE  t.pending[m] # t.pending[n]
    <2>1. m + 1 # n + 1
        BY <1>6
    <2> QED BY <1>2, <1>3, <2>1 DEF Clean
<1>7. Head(s.pending) \notin s.applied
    BY <1>2, <1>4 DEF Clean, Pending
<1> QED BY <1>2, <1>5, <1>6, <1>7 DEF Clean, Pending

LEMMA CleanStep ==
    ASSUME LineageInv, FeedbackClean, [Next]_vars
    PROVE  FeedbackClean'
<1>1. Shaped /\ state \in State /\ state' \in State
    BY StepShape, LineageStep DEF LineageInv, Base, TypeOK
<1>2. ASSUME UNCHANGED lineage, Clean(state') PROVE FeedbackClean'
    BY <1>2 DEF lineage, Revisions, FeedbackClean, Clean, Pending
<1>3. CASE Quiet
    <2>1. CASE state'.pending = state.pending
        BY <1>1, <1>2, <1>3, <2>1, CleanSame DEF Quiet, FeedbackClean
    <2>2. ASSUME NEW f \in Feedback, ~Submitted(f), state'.pending = Append(state.pending, f)
          PROVE  FeedbackClean'
        BY <1>1, <1>2, <1>3, <2>2, CleanAppend DEF Quiet, FeedbackClean, Submitted
    <2> QED BY <1>3, <2>1, <2>2 DEF Quiet, PendingKept
<1>4. ASSUME NEW j \in Job, NEW s \in State, Commits(j, s) PROVE FeedbackClean'
    <2>1. state' = s
        BY <1>4 DEF Commits, CommitWithRevision, Write
    <2>2. Clean(s)
        <3>1. CASE Generates(j, s)
            BY <1>1, <3>1, CleanSame DEF Generates, FeedbackClean
        <3>2. CASE Regenerates(j, s)
            BY <1>1, <3>2, CleanTail DEF Regenerates, FeedbackClean
        <3> QED BY <1>4, <3>1, <3>2 DEF Commits
    <2>3. CASE Records(j, s)
        <3>1. NewRevision(s).snapshot = s
            BY DEF NewRevision
        <3>2. ASSUME NEW r \in Revisions' PROVE Clean(revision'[r].snapshot)
            BY <2>2, <2>3, <3>1, RecordedRevisions DEF FeedbackClean
        <3> QED BY <2>1, <2>2, <3>2 DEF FeedbackClean, Clean, Pending
    <2>4. CASE Skips(j, s)
        BY <1>2, <2>1, <2>2, <2>4 DEF Skips
    <2> QED BY <1>4, <2>3, <2>4, CommitEffect
<1>5. ASSUME NEW b \in Fork, NEW r \in Job, CreateFork(b, r) PROVE FeedbackClean'
    BY <1>5 DEF CreateFork, FeedbackClean, Revisions, Clean, Pending
<1>6. ASSUME NEW b \in Branch, Activate(b) PROVE FeedbackClean'
    <2>1. Clean(revision[head[b]].snapshot)
        BY <1>6, HeadRevision DEF Activate, FeedbackClean, LineageInv, Base
    <2> QED BY <1>1, <1>2, <1>6, <2>1, ActivationEffect, CleanSame DEF Activate
<1> QED BY <1>1, <1>3, <1>4, <1>5, <1>6, Zenon DEF Shaped


-----------------------------------------------------------------------------
(* Consistency of the row with the head of its branch                       *)

\* A regeneration whose token is current still has the consistent document it loaded.
SteadyRuns == \A j \in Job : Regenerating(j) /\ j \in fresh => Consistent(state)

LEMMA SteadyKept ==
    ASSUME SteadyRuns, UNCHANGED state, UNCHANGED lineage,
           \A j \in Job : Regenerating(j)' /\ j \in fresh' => Regenerating(j) /\ j \in fresh
    PROVE  SteadyRuns'
<1>1. Consistent(state)' <=> Consistent(state)
    BY DEF Consistent, Content, Version, lineage
<1> QED BY <1>1 DEF SteadyRuns

LEMMA SteadyEmpty ==
    ASSUME \A j \in Job : ~(Regenerating(j)' /\ j \in fresh')
    PROVE  SteadyRuns'
    BY DEF SteadyRuns

LEMMA SteadyJob ==
    ASSUME LineageInv, SteadyRuns, NEW k \in Job,
           Admit(k) \/ TurnAway(k) \/ Stop(k) \/ GenerationStep(k) \/ RegenerationStep(k)
    PROVE  SteadyRuns'
<1>1. TypeOK /\ (k \in fresh => body[k].phase \in Working)
    BY DEF LineageInv, Base, Tokens, JobToken
<1>2. CASE Admit(k) \/ TurnAway(k) \/ Stop(k) \/ RequestGeneration(k) \/ RequestRegeneration(k)
           \/ EndExecution(k) \/ Recheck(k) \/ \E u \in BOOLEAN : EndPlanning(k, u)
    <2>1. UNCHANGED state /\ UNCHANGED lineage /\ fresh' \subseteq fresh
          /\ \A j \in Job : j # k => body'[j] = body[j]
        BY <1>1, <1>2
            DEF Admit, TurnAway, Stop, RequestGeneration, RequestRegeneration, EndExecution, Recheck,
                TokenAfterRecheck, EndPlanning, TypeOK
    <2>2. body'[k].kind = body[k].kind \/ k \notin fresh' \/ body'[k].kind = "none"
        <3>1. CASE Admit(k) \/ EndExecution(k) \/ Recheck(k) \/ \E u \in BOOLEAN : EndPlanning(k, u)
            BY <1>1, <3>1, ZenonT(40) DEF Admit, EndExecution, Recheck, EndPlanning, TypeOK, Body
        <3>2. CASE TurnAway(k) \/ Stop(k)
            BY <1>1, <3>2, EndedBody DEF TurnAway, Stop, TypeOK
        <3>3. CASE RequestGeneration(k) \/ RequestRegeneration(k)
            BY <1>1, <3>3 DEF RequestGeneration, RequestRegeneration, Working
        <3> QED BY <1>2, <3>1, <3>2, <3>3
    <2> QED BY <2>1, <2>2, SteadyKept DEF Regenerating
<1>3. CASE StartGeneration(k) \/ \E u, f \in BOOLEAN : SaveStage(k, u, f)
    <2>1. fresh' = {k} /\ body'[k].kind = "generate"
        BY <1>1, <1>3 DEF StartGeneration, SaveStage, Write, BodyAt, Generating, TypeOK, Body
    <2> QED BY <2>1, SteadyEmpty DEF Regenerating
<1>4. CASE CommitGeneration(k) \/ RefuseRegeneration(k) \/ RefuseAtRecheck(k) \/ CommitRegeneration(k)
    BY <1>4, SteadyEmpty
        DEF CommitGeneration, RefuseRegeneration, RefuseAtRecheck, CommitRegeneration,
            CommitWithRevision, Write
<1>5. CASE FailGeneration(k) \/ BlockRegeneration(k)
    <2>1. CASE Current(k)
        BY <1>5, <2>1, SteadyEmpty DEF FailGeneration, BlockRegeneration, Write
    <2>2. CASE ~Current(k)
        <3>1. UNCHANGED <<state, fresh>> /\ UNCHANGED lineage
              /\ \A j \in Job : j # k => body'[j] = body[j]
            BY <1>1, <1>5, <2>2 DEF FailGeneration, BlockRegeneration, TypeOK
        <3> QED BY <2>2, <3>1, SteadyKept DEF Current, Regenerating
    <2> QED BY <2>1, <2>2
<1>6. CASE LoadRegeneration(k)
    <2>1. Consistent(state) /\ UNCHANGED state /\ UNCHANGED lineage
        BY <1>6 DEF LoadRegeneration, Regenerable
    <2> QED BY <2>1 DEF SteadyRuns, Consistent, Content, Version, lineage
<1> QED BY <1>2, <1>3, <1>4, <1>5, <1>6, Zenon DEF GenerationStep, RegenerationStep

LEMMA SteadyStep ==
    ASSUME LineageInv, SteadyRuns, [Next]_vars
    PROVE  SteadyRuns'
<1>1. TypeOK /\ state.active \in Branch
    BY DEF LineageInv, Base, TypeOK, State
<1>2. ASSUME NEW k \in Job,
             Admit(k) \/ TurnAway(k) \/ Stop(k) \/ GenerationStep(k) \/ RegenerationStep(k)
      PROVE  SteadyRuns'
    BY <1>2, SteadyJob
<1>3. ASSUME NEW q \in Request, EditStep(q) PROVE SteadyRuns'
    <2>1. CASE LoadEdit(q) \/ DropEdit(q)
        <3>1. q \notin Job
            BY LineageAssumption
        <3>2. UNCHANGED <<state, body>> /\ UNCHANGED lineage /\ fresh' \subseteq fresh \cup {q}
            BY <2>1 DEF LoadEdit, DropEdit
        <3> QED BY <3>1, <3>2, SteadyKept DEF Regenerating
    <2>2. ASSUME NEW s, SaveEdit(q, s) PROVE SteadyRuns'
        BY <2>2, SteadyEmpty DEF SaveEdit, Write
    <2> QED BY <1>3, <2>1, <2>2, Zenon DEF EditStep, ApplyFeedback, CreateLock, DeleteLock, Promote
<1>4. ASSUME NEW b \in Fork, NEW r \in Job, CreateFork(b, r) PROVE SteadyRuns'
    <2>1. UNCHANGED <<state, body, fresh, revision>> /\ head'[state.active] = head[state.active]
        BY <1>1, <1>4 DEF CreateFork, LineageInv, ForksUnborn, TypeOK
    <2> QED BY <2>1 DEF SteadyRuns, Regenerating, Consistent, Content, Version
<1>5. ASSUME NEW b \in Branch, Activate(b) PROVE SteadyRuns'
    BY <1>5, SteadyEmpty DEF Activate, Write, TokensAfterActivation
<1>6. CASE RecordRefusal
    BY <1>6, SteadyEmpty DEF RecordRefusal, Write
<1>7. CASE CloseJob \/ UNCHANGED vars
    BY <1>7, SteadyKept DEF CloseJob, vars, lineage, Regenerating
<1> QED BY <1>2, <1>3, <1>4, <1>5, <1>6, <1>7, Zenon DEF Next, BranchStep


\* RevisionExtendsParent, for one revision with a parent and for the document it holds.
Extends(r, new, old) ==
    \/ /\ new.history = Append(old.history, r)
       /\ new.plan = Append(old.plan, r)
       /\ \E f \in Feedback \ old.applied : new.applied = old.applied \cup {f}
    \/ /\ new.history = old.history
       /\ new.plan = <<r>>
       /\ new.applied = old.applied

\* What a run commits extends the head of the branch.
LEMMA CommitExtends ==
    ASSUME LineageInv, FeedbackClean, SteadyRuns, NEW j \in Job, NEW s \in State, Commits(j, s),
           head[state.active] # Nothing
    PROVE  Extends(j, s, revision[head[state.active]].snapshot)
<1> DEFINE old == revision[head[state.active]].snapshot
<1>1. state.history = old.history /\ state.applied = old.applied /\ state.history # <<>>
    BY HeadLabel DEF LineageInv, HeadAgrees
<1>2. CASE Generates(j, s)
    BY <1>1, <1>2, Zenon DEF Generates, Extends
<1>3. CASE Regenerates(j, s)
    <2>1. Consistent(state)
        BY <1>3 DEF Commits, CommitWithRevision, Current, Regenerates, SteadyRuns
    <2>2. state.plan = old.plan
        BY <2>1 DEF Consistent, Content
    <2>3. Head(state.pending) \in Feedback \ state.applied
        <3>1. state \in State /\ s.applied = state.applied \cup {Head(state.pending)}
              /\ s.pending = Tail(state.pending) /\ state.pending # <<>>
            BY <1>3 DEF LineageInv, Base, TypeOK, Regenerates
        <3> QED BY <3>1, CleanTail DEF FeedbackClean
    <2> HIDE DEF old
    <2>4. Extends(j, s, old)
        BY <1>1, <1>3, <2>2, <2>3 DEF Regenerates, Extends
    <2> QED BY <2>4 DEF old
<1> QED BY <1>2, <1>3 DEF Commits

LEMMA ParentRecorded ==
    ASSUME LineageInv, BranchIsAChain, NEW r \in Revisions, revision[r].parent # Nothing
    PROVE  revision[r].parent \in Revisions
<1> DEFINE b == revision[r].branch
<1>1. b \in Branch /\ r \in Own(b)
    BY RevisionTyped DEF LineageInv, Base, Own
<1>2. revision[r].parent \in Own(b) \cup {base[b]}
    BY <1>1, ChainOfBranch DEF Chain
<1> QED BY <1>1, <1>2 DEF Own, LineageInv, ForksBased

\* All the invariants of this module together.
TripInv == LineageInv /\ BranchIsAChain /\ FeedbackClean /\ SteadyRuns

LEMMA ExtendsStep ==
    ASSUME TripInv, RevisionExtendsParent, [Next]_vars
    PROVE  RevisionExtendsParent'
<1> USE DEF TripInv
<1>1. Shaped
    BY StepShape, SMTT(30) DEF LineageInv
<1>2. ASSUME UNCHANGED revision PROVE RevisionExtendsParent'
    BY <1>2, Zenon DEF RevisionExtendsParent, Revisions
<1>3. ASSUME NEW j \in Job, NEW s \in State, Commits(j, s), Records(j, s)
      PROVE  RevisionExtendsParent'
    <2>1. /\ Revisions' = Revisions \cup {j} /\ revision'[j] = NewRevision(s)
          /\ \A r \in Revisions : r # j /\ revision'[r] = revision[r]
        BY <1>3, RecordedRevisions
    <2>2. NewRevision(s).parent = head[state.active] /\ NewRevision(s).snapshot = s
        BY DEF NewRevision
    <2>3. head[state.active] # Nothing => head[state.active] \in Revisions
        BY DEF LineageInv, Base, HeadsRecorded, TypeOK, State
    <2>4. ASSUME NEW r \in Revisions', revision'[r].parent # Nothing
          PROVE  Extends(r, revision'[r].snapshot, revision'[revision'[r].parent].snapshot)
        <3>1. CASE r = j
            <4>1. revision'[j].parent \in Revisions /\ revision'[j].parent = head[state.active]
                BY <2>1, <2>2, <2>3, <2>4, <3>1
            <4>2. revision'[head[state.active]] = revision[head[state.active]]
                BY <2>1, <4>1
            <4>3. Extends(j, s, revision[head[state.active]].snapshot)
                BY <1>3, <2>1, <2>2, <2>4, <3>1, CommitExtends
            <4> QED BY <2>1, <2>2, <3>1, <4>1, <4>2, <4>3
        <3>2. CASE r # j
            <4>1. r \in Revisions /\ revision'[r] = revision[r] /\ revision[r].parent \in Revisions
                BY <2>1, <2>4, <3>2, ParentRecorded
            <4>2. revision'[revision[r].parent] = revision[revision[r].parent]
                BY <2>1, <4>1, SMTT(30)
            <4>3. Extends(r, revision[r].snapshot, revision[revision[r].parent].snapshot)
                BY <2>4, <4>1 DEF RevisionExtendsParent, Extends
            <4> QED BY <4>1, <4>2, <4>3
        <3> QED BY <3>1, <3>2
    <2> QED BY <2>4, Zenon DEF RevisionExtendsParent, Extends
<1>4. ASSUME NEW j \in Job, NEW s \in State, Commits(j, s) PROVE RevisionExtendsParent'
    BY <1>2, <1>3, <1>4, CommitEffect DEF Skips, lineage
<1>5. ASSUME NEW b \in Fork, NEW r \in Job, CreateFork(b, r) PROVE RevisionExtendsParent'
    BY <1>2, <1>5 DEF CreateFork
<1>6. ASSUME NEW b \in Branch, Activate(b) PROVE RevisionExtendsParent'
    BY <1>2, <1>6 DEF Activate, lineage
<1>7. CASE Quiet
    BY <1>2, <1>7 DEF Quiet, lineage
<1> QED BY <1>1, <1>4, <1>5, <1>6, <1>7, Zenon DEF Shaped

LEMMA TripInvariant == Spec => []TripInv
<1>1. Init => BranchIsAChain /\ FeedbackClean /\ SteadyRuns
    <2>1. ASSUME Init PROVE BranchIsAChain /\ FeedbackClean /\ SteadyRuns
        <3>1. Revisions = {} /\ fresh = {} /\ state.pending = <<>> /\ state.applied = {}
            BY <2>1 DEF Init, Draft, Revisions
        <3>2. Len(state.pending) = 0
            BY <3>1
        <3>3. FeedbackClean
            BY <3>1, <3>2 DEF FeedbackClean, Clean, Pending
        <3>4. BranchIsAChain
            BY <2>1, <3>1 DEF Init, BranchIsAChain
        <3> QED BY <3>1, <3>3, <3>4 DEF SteadyRuns
    <2> QED BY <2>1
<1>2. LineageInv /\ BranchIsAChain /\ FeedbackClean /\ SteadyRuns /\ [Next]_vars
        => BranchIsAChain' /\ FeedbackClean' /\ SteadyRuns'
    BY ChainStep, CleanStep, SteadyStep
<1> QED BY <1>1, <1>2, LineageInvariant, PTL DEF Spec, TripInv

\* A revision is its parent and exactly one more step: one version, one applied feedback event,
\* worked out from the very content its parent holds (or, on a fork of an unusable plan, the
\* plan's first real content under the inherited version).
THEOREM RevisionsExtendParents == Spec => []RevisionExtendsParent
<1>1. Init => RevisionExtendsParent
    BY DEF Init, RevisionExtendsParent, Revisions
<1>2. TripInv /\ RevisionExtendsParent /\ [Next]_vars => RevisionExtendsParent'
    BY ExtendsStep
<1> QED BY <1>1, <1>2, TripInvariant, PTL DEF Spec


LEMMA ContentKept ==
    ASSUME LineageInv, Consistent(state), Content(state') = Content(state),
           Version(state') = Version(state), state'.active = state.active,
           head'[state.active] = head[state.active], UNCHANGED revision
    PROVE  Consistent(state)'
    BY DEF Consistent, Content, Version

LEMMA ConsistencyStep ==
    ASSUME TripInv, [Next]_vars, Consistent(state),
           \A j \in Job : Generating(j) => body'[j] = body[j],
           \A q \in Request, st \in Stamp : ~Promote(q, st)
    PROVE  Consistent(state)'
<1> USE DEF TripInv
<1>1. TypeOK /\ Base /\ Planned /\ state.active \in Branch
    BY DEF LineageInv, Base, TypeOK, State
<1>2. ASSUME UNCHANGED state, UNCHANGED lineage PROVE Consistent(state)'
    BY <1>2, ContentKept DEF lineage, Content, Version
<1>3. ASSUME NEW k \in Job, Admit(k) \/ TurnAway(k) \/ Stop(k) PROVE Consistent(state)'
    BY <1>2, <1>3 DEF Admit, TurnAway, Stop
<1>4. ASSUME NEW k \in Job, GenerationStep(k) PROVE Consistent(state)'
    <2>1. CASE RequestGeneration(k) \/ \E u \in BOOLEAN : EndPlanning(k, u)
        BY <1>2, <2>1 DEF RequestGeneration, EndPlanning
    <2>2. CASE StartGeneration(k)
        BY <1>1, <2>2 DEF StartGeneration, BodyAt, TypeOK
    <2>3. ASSUME NEW u \in BOOLEAN, NEW f \in BOOLEAN, SaveStage(k, u, f) PROVE Consistent(state)'
        <3>1. body'[k].copy = body[k].copy
            BY <2>3 DEF SaveStage
        <3>2. state' = body[k].copy /\ UNCHANGED lineage
            BY <1>1, <2>3, <3>1 DEF SaveStage, Write, TypeOK, Body
        <3>3. body[k].copy = state
            BY <1>1, <2>3 DEF SaveStage, Current, Base, Tokens, JobToken
        <3> QED BY <1>2, <3>2, <3>3
    <2>4. CASE CommitGeneration(k) \/ FailGeneration(k)
        <3>1. body'[k].phase = "done"
            BY <1>1, <2>4, EndedBody DEF CommitGeneration, FailGeneration, TypeOK
        <3> QED BY <2>4, <3>1 DEF CommitGeneration, FailGeneration
    <2> QED BY <1>4, <2>1, <2>2, <2>3, <2>4, Zenon DEF GenerationStep
<1>5. ASSUME NEW k \in Job, RegenerationStep(k) PROVE Consistent(state)'
    <2>1. CASE RequestRegeneration(k) \/ LoadRegeneration(k) \/ RefuseRegeneration(k)
               \/ EndExecution(k) \/ Recheck(k) \/ RefuseAtRecheck(k)
        BY <1>2, <2>1
            DEF RequestRegeneration, LoadRegeneration, RefuseRegeneration, EndExecution, Recheck,
                RefuseAtRecheck, Write
    <2>2. CASE BlockRegeneration(k)
        BY <1>1, <1>2, <2>2 DEF BlockRegeneration, Current, Write, Base, Tokens, JobToken
    <2>3. CASE CommitRegeneration(k)
        <3> DEFINE s == Regenerated(k)
        <3>1. s \in State /\ Commits(k, s) /\ Regenerating(k)
            BY <1>1, <2>3, RegenerationCommit DEF CommitRegeneration
        <3> HIDE DEF s
        <3>2. Records(k, s)
            BY <3>1, CommitEffect DEF Skips, Generates, Generating, Regenerating
        <3>3. /\ head'[state.active] = k /\ revision'[k] = NewRevision(s) /\ state' = s
              /\ s.active = state.active
            BY <3>1, <3>2, RecordedRevisions DEF Records, Commits
        <3>4. NewRevision(s).label = Version(s) /\ NewRevision(s).snapshot = s
            BY DEF NewRevision
        <3> QED BY <3>3, <3>4 DEF Consistent, Content, Version
    <2> QED BY <1>5, <2>1, <2>2, <2>3 DEF RegenerationStep
<1>6. ASSUME NEW q \in Request, EditStep(q) PROVE Consistent(state)'
    <2>1. Current(q) => edit[q] = state
        BY <1>1 DEF Current, Base, Tokens, EditToken
    <2>2. state \in State
        BY <1>1 DEF TypeOK
    <2>3. CASE LoadEdit(q) \/ DropEdit(q)
        BY <1>2, <2>3 DEF LoadEdit, DropEdit
    <2>4. ASSUME NEW f \in Feedback, ApplyFeedback(q, f) PROVE Consistent(state)'
        <3>1. state' = [state EXCEPT !.pending = Append(@, f)] /\ UNCHANGED lineage
            BY <2>1, <2>4 DEF ApplyFeedback, SaveEdit, Write
        <3>2. /\ state'.history = state.history /\ state'.plan = state.plan
              /\ state'.usable = state.usable /\ state'.unfinished = state.unfinished
              /\ state'.active = state.active /\ state'.report = state.report
            BY <2>2, <3>1 DEF State
        <3> QED BY <3>1, <3>2, ContentKept DEF Content, Version, lineage
    <2>5. CASE CreateLock(q) \/ DeleteLock(q)
        <3>1. /\ UNCHANGED lineage
              /\ \/ state' = [state EXCEPT !.locked = TRUE]
                 \/ state' = [state EXCEPT !.locked = FALSE]
            BY <2>1, <2>5 DEF CreateLock, DeleteLock, SaveEdit, Write
        <3>2. /\ state'.history = state.history /\ state'.plan = state.plan
              /\ state'.usable = state.usable /\ state'.unfinished = state.unfinished
              /\ state'.active = state.active /\ state'.report = state.report
            <4>1. CASE state' = [state EXCEPT !.locked = TRUE]
                BY <2>2, <4>1 DEF State
            <4>2. CASE state' = [state EXCEPT !.locked = FALSE]
                BY <2>2, <4>2 DEF State
            <4> QED BY <3>1, <4>1, <4>2
        <3> QED BY <3>1, <3>2, ContentKept DEF Content, Version, lineage
    <2> QED BY <1>6, <2>3, <2>4, <2>5, Zenon DEF EditStep
<1>7. ASSUME NEW b \in Fork, NEW r \in Job, CreateFork(b, r) PROVE Consistent(state)'
    <2>1. UNCHANGED <<state, revision>> /\ head'[state.active] = head[state.active]
        BY <1>1, <1>7 DEF CreateFork, LineageInv, ForksUnborn, TypeOK
    <2> QED BY <2>1, ContentKept DEF Content, Version
<1>8. ASSUME NEW b \in Branch, Activate(b) PROVE Consistent(state)'
    <2>1. head' = head /\ revision' = revision /\ SoundRevision(head[b])
        BY <1>1, <1>8, HeadRevision DEF Activate, lineage, LineageInv, Base, RevisionsSound
    <2> QED BY <1>8, <2>1, ActivationEffect DEF SoundRevision, Consistent, Content, Version
<1>9. CASE RecordRefusal \/ CloseJob \/ UNCHANGED vars
    BY <1>2, <1>9 DEF RecordRefusal, CloseJob, Write, vars, lineage
<1> QED BY <1>3, <1>4, <1>5, <1>6, <1>7, <1>8, <1>9, Zenon DEF Next, BranchStep

\* A promotion is the edit of one request, and of nothing but the report.
LEMMA PromotionEdits ==
    ASSUME Base, NEW q \in Request, NEW st \in Stamp, Promote(q, st)
    PROVE  edit'[q] # edit[q] /\ state' = [state EXCEPT !.report = state'.report]
<1>1. edit[q] = state /\ state \in State
    BY DEF Promote, SaveEdit, Current, Base, Tokens, EditToken, TypeOK
<1>2. state' = [state EXCEPT !.report = st] /\ edit'[q] = Nothing
    BY <1>1 DEF Promote, SaveEdit, Write, Base, TypeOK
<1>3. state'.report = st
    BY <1>1, <1>2 DEF State
<1> QED BY <1>2, <1>3 DEF Promote

\* The live content stops being what the head revision holds in two ways only: a generation
\* makes it differ, or a request replaces the promotion report and nothing else.
THEOREM DriftCauses == Spec => DriftHasTwoCauses
<1> DEFINE Caused ==
       Consistent(state) /\ ~Consistent(state)' =>
           \/ \E j \in Job : Generating(j) /\ body'[j] # body[j]
           \/ \E q \in Request :
                 edit'[q] # edit[q] /\ state' = [state EXCEPT !.report = state'.report]
<1>1. ASSUME TripInv, [Next]_vars PROVE Caused
    <2>1. CASE \E q \in Request, st \in Stamp : Promote(q, st)
        BY <1>1, <2>1, PromotionEdits, Zenon DEF TripInv, LineageInv
    <2>2. CASE \A q \in Request, st \in Stamp : ~Promote(q, st)
        BY <1>1, <2>2, ConsistencyStep, Zenon
    <2> QED BY <2>1, <2>2
<1>2. TripInv /\ [Next]_vars => [Caused]_vars
    BY <1>1
<1> HIDE DEF Caused
<1>3. Spec => [][Caused]_vars
    BY <1>2, TripInvariant, PTL DEF Spec
<1> QED BY <1>3 DEF DriftHasTwoCauses, Caused

\* In production, where the promotion endpoint does not exist (_development_only): whatever
\* users do, only a generation makes the live content differ from the head revision.
THEOREM OnlyGenerationDriftsInProduction ==
    ASSUME Stamp = {}
    PROVE  Spec => [][Consistent(state) /\ ~Consistent(state)' =>
                        \E j \in Job : Generating(j) /\ body'[j] # body[j]]_vars
<1> DEFINE Caused ==
       Consistent(state) /\ ~Consistent(state)' =>
           \E j \in Job : Generating(j) /\ body'[j] # body[j]
<1>1. \A q \in Request, st \in Stamp : ~Promote(q, st)
    OBVIOUS
<1>2. ASSUME TripInv, [Next]_vars PROVE Caused
    BY <1>1, <1>2, ConsistencyStep, Zenon
<1>3. TripInv /\ [Next]_vars => [Caused]_vars
    BY <1>2
<1> HIDE DEF Caused
<1>4. Spec => [][Caused]_vars
    BY <1>3, TripInvariant, PTL DEF Spec
<1> QED BY <1>4 DEF Caused

-----------------------------------------------------------------------------
(* What lies behind the two sentences of the repository that do not hold    *)

\* Nobody but a generation that fails or commits, a regeneration that commits, or an activation
\* touches the versions of the row.
LEMMA HistoryKept ==
    ASSUME Base, Planned, [Next]_vars,
           \A j \in Job : ~CommitGeneration(j) /\ ~CommitRegeneration(j) /\ ~FailGeneration(j),
           \A b \in Branch : ~Activate(b)
    PROVE  state'.history = state.history
<1> USE DEF Base
<1>1. state \in State
    BY DEF TypeOK
<1>2. ASSUME NEW j \in Job, GenerationStep(j) PROVE state'.history = state.history
    <2>1. CASE RequestGeneration(j) \/ \E u \in BOOLEAN : EndPlanning(j, u)
        BY <2>1 DEF RequestGeneration, EndPlanning
    <2>2. CASE StartGeneration(j)
        BY <1>1, <2>2 DEF StartGeneration, Write, State
    <2>3. ASSUME NEW u \in BOOLEAN, NEW f \in BOOLEAN, SaveStage(j, u, f) PROVE state'.history = state.history
        <3>1. body[j].copy = state /\ body[j].copy \in State
            BY <1>1, <2>3 DEF SaveStage, Current, Tokens, JobToken
        <3> QED BY <2>3, <3>1, PlannedState DEF SaveStage, Write
    <2> QED BY <1>2, <2>1, <2>2, <2>3, Zenon DEF GenerationStep
<1>3. ASSUME NEW j \in Job, RegenerationStep(j) PROVE state'.history = state.history
    <2>1. CASE RequestRegeneration(j) \/ LoadRegeneration(j) \/ RefuseRegeneration(j)
               \/ EndExecution(j) \/ Recheck(j) \/ RefuseAtRecheck(j)
        BY <2>1 DEF RequestRegeneration, LoadRegeneration, RefuseRegeneration, EndExecution, Recheck,
                    RefuseAtRecheck, Write
    <2>2. CASE BlockRegeneration(j)
        BY <2>2 DEF BlockRegeneration, Current, Write, Tokens, JobToken
    <2> QED BY <1>3, <2>1, <2>2 DEF RegenerationStep
<1>4. ASSUME NEW q \in Request, EditStep(q) PROVE state'.history = state.history
    <2>1. Current(q) => edit[q] = state
        BY DEF Current, Tokens, EditToken
    <2>2. CASE LoadEdit(q) \/ DropEdit(q)
        BY <2>2 DEF LoadEdit, DropEdit
    <2>3. ASSUME NEW f \in Feedback, ApplyFeedback(q, f) PROVE state'.history = state.history
        <3>1. state' = [state EXCEPT !.pending = Append(@, f)]
            BY <2>1, <2>3 DEF ApplyFeedback, SaveEdit, Write
        <3> QED BY <1>1, <3>1 DEF State
    <2>4. CASE CreateLock(q)
        <3>1. state' = [state EXCEPT !.locked = TRUE]
            BY <2>1, <2>4 DEF CreateLock, SaveEdit, Write
        <3> QED BY <1>1, <3>1 DEF State
    <2>5. CASE DeleteLock(q)
        <3>1. state' = [state EXCEPT !.locked = FALSE]
            BY <2>1, <2>5 DEF DeleteLock, SaveEdit, Write
        <3> QED BY <1>1, <3>1 DEF State
    <2>6. ASSUME NEW st \in Stamp, Promote(q, st) PROVE state'.history = state.history
        <3>1. state' = [state EXCEPT !.report = st]
            BY <2>1, <2>6 DEF Promote, SaveEdit, Write
        <3> QED BY <1>1, <3>1 DEF State
    <2> QED BY <1>4, <2>2, <2>3, <2>4, <2>5, <2>6, Zenon DEF EditStep
<1>5. ASSUME NEW j \in Job, Admit(j) \/ TurnAway(j) \/ Stop(j) PROVE state'.history = state.history
    BY <1>5 DEF Admit, TurnAway, Stop
<1>6. CASE BranchStep \/ RecordRefusal \/ CloseJob \/ UNCHANGED vars
    BY <1>6 DEF BranchStep, CreateFork, RecordRefusal, CloseJob, Write, vars
<1> QED BY <1>2, <1>3, <1>4, <1>5, <1>6, Zenon DEF Next

\* What _save_failed_progress would have to leave out: a version the commit did not record.
FailuresAddNoVersion == \A j \in Job : FailGeneration(j) => state'.history = state.history

LEMMA VersionStep ==
    ASSUME LineageInv, NoVersionWithoutRevision, [Next]_vars, FailuresAddNoVersion
    PROVE  NoVersionWithoutRevision'
<1>1. Shaped
    BY StepShape DEF LineageInv
<1>2. ASSUME NEW j \in Job, NEW s \in State, Commits(j, s) PROVE NoVersionWithoutRevision'
    <2>1. s.active = state.active /\ j # Nothing
        BY <1>2, LineageAssumption DEF Commits
    <2>2. CASE Records(j, s)
        BY <2>1, <2>2, RecordedRevisions, ZenonT(40) DEF NoVersionWithoutRevision, Records
    <2>3. CASE Skips(j, s)
        BY <2>1, <2>3 DEF NoVersionWithoutRevision, Skips, lineage
    <2> QED BY <1>2, <2>2, <2>3, CommitEffect
<1>3. ASSUME NEW b \in Fork, NEW r \in Job, CreateFork(b, r) PROVE NoVersionWithoutRevision'
    <2>1. state' = state /\ head'[state.active] = head[state.active]
        BY <1>3 DEF CreateFork, LineageInv, ForksUnborn, Base, TypeOK, State
    <2> QED BY <2>1 DEF NoVersionWithoutRevision
<1>4. ASSUME NEW b \in Branch, Activate(b) PROVE NoVersionWithoutRevision'
    <2>1. head' = head /\ head[b] # Nothing /\ state'.active = b
        BY <1>4, ActivationEffect DEF Activate, lineage
    <2> QED BY <2>1 DEF NoVersionWithoutRevision
<1>5. CASE Quiet
    <2>1. CASE state'.history = state.history
        BY <1>5, <2>1 DEF Quiet, NoVersionWithoutRevision, lineage
    <2>2. CASE \E j \in Job : CommitGeneration(j)
        <3>1. PICK j \in Job : CommitGeneration(j)
            BY <2>2
        <3>2. body[j].copy \in State /\ Commits(j, body[j].copy)
            BY <3>1, GenerationCommit DEF LineageInv
        <3> QED BY <1>2, <3>2
    <2>3. CASE \E j \in Job : CommitRegeneration(j)
        BY <1>2, <2>3, RegenerationCommit DEF LineageInv
    <2>4. CASE \E j \in Job : FailGeneration(j)
        BY <2>1, <2>4 DEF FailuresAddNoVersion
    <2> QED BY <1>4, <2>1, <2>2, <2>3, <2>4, HistoryKept DEF LineageInv
<1> QED BY <1>1, <1>2, <1>3, <1>4, <1>5, Zenon DEF Shaped

\* A version without a revision comes from the save of a failed generation and from nothing
\* else: without it "no state advanced without its revision" holds (finding 3).
THEOREM OnlyFailedSavesLeaveVersions ==
    Spec /\ [][FailuresAddNoVersion]_vars => []NoVersionWithoutRevision
<1>1. Init => NoVersionWithoutRevision
    BY DEF Init, Draft, NoVersionWithoutRevision
<1>2. ASSUME UNCHANGED vars, NoVersionWithoutRevision PROVE NoVersionWithoutRevision'
    BY <1>2 DEF vars, NoVersionWithoutRevision
<1>3. LineageInv /\ NoVersionWithoutRevision /\ [Next]_vars /\ [FailuresAddNoVersion]_vars
        => NoVersionWithoutRevision'
    BY <1>2, VersionStep
<1> QED BY <1>1, <1>3, LineageInvariant, PTL DEF Spec

\* What would have to be refused: a generation on a branch that has recorded a version.
GenerationsStartUnrecorded == \A j \in Job : StartGeneration(j) => head[state.active] = Nothing

\* A generation that may still write found, and left, a branch without a head.
FirstGenerations ==
    \A j \in Job : Generating(j) /\ j \in fresh => head[state.active] = Nothing

LEMMA FirstKept ==
    ASSUME FirstGenerations, state'.active = state.active, head'[state.active] = head[state.active],
           \A j \in Job : Generating(j)' /\ j \in fresh' => Generating(j) /\ j \in fresh
    PROVE  FirstGenerations'
    BY DEF FirstGenerations

LEMMA FirstEmpty ==
    ASSUME \A j \in Job : ~(Generating(j)' /\ j \in fresh')
    PROVE  FirstGenerations'
    BY DEF FirstGenerations

LEMMA FirstJob ==
    ASSUME LineageInv, FirstGenerations, GenerationsStartUnrecorded, NEW k \in Job,
           Admit(k) \/ TurnAway(k) \/ Stop(k) \/ GenerationStep(k) \/ RegenerationStep(k)
    PROVE  FirstGenerations'
<1>1. TypeOK /\ (k \in fresh => body[k].phase \in Working) /\ JobToken(k) /\ state \in State
    BY DEF LineageInv, Base, Tokens, JobToken, TypeOK
<1>2. CASE Admit(k) \/ TurnAway(k) \/ Stop(k) \/ RequestGeneration(k) \/ RequestRegeneration(k)
           \/ EndExecution(k) \/ Recheck(k) \/ \E u \in BOOLEAN : EndPlanning(k, u)
    <2>1. UNCHANGED state /\ UNCHANGED lineage /\ fresh' \subseteq fresh
          /\ \A j \in Job : j # k => body'[j] = body[j]
        BY <1>1, <1>2
            DEF Admit, TurnAway, Stop, RequestGeneration, RequestRegeneration, EndExecution, Recheck,
                TokenAfterRecheck, EndPlanning, TypeOK
    <2>2. body'[k].kind = body[k].kind \/ k \notin fresh' \/ body'[k].kind = "none"
        <3>1. CASE Admit(k) \/ EndExecution(k) \/ Recheck(k) \/ \E u \in BOOLEAN : EndPlanning(k, u)
            BY <1>1, <3>1, ZenonT(40) DEF Admit, EndExecution, Recheck, EndPlanning, TypeOK, Body
        <3>2. CASE TurnAway(k) \/ Stop(k)
            BY <1>1, <3>2, EndedBody DEF TurnAway, Stop, TypeOK
        <3>3. CASE RequestGeneration(k) \/ RequestRegeneration(k)
            BY <1>1, <3>3 DEF RequestGeneration, RequestRegeneration, Working
        <3> QED BY <1>2, <3>1, <3>2, <3>3
    <2> QED BY <2>1, <2>2, FirstKept DEF Generating, lineage
<1>3. CASE StartGeneration(k)
    <2>1. fresh' = {k} /\ state'.active = state.active /\ head' = head
          /\ head[state.active] = Nothing
        BY <1>1, <1>3 DEF StartGeneration, Write, State, GenerationsStartUnrecorded, lineage
    <2> QED BY <2>1 DEF FirstGenerations
<1>4. ASSUME NEW u \in BOOLEAN, NEW f \in BOOLEAN, SaveStage(k, u, f) PROVE FirstGenerations'
    <2>1. Generating(k) /\ k \in fresh /\ fresh' = {k} /\ head' = head
        BY <1>4 DEF SaveStage, Write, Current, lineage
    <2>2. body[k].copy = state
        BY <1>1, <1>4, <2>1 DEF SaveStage, JobToken
    <2>3. state'.active = state.active
        BY <1>1, <1>4, <2>2, PlannedState DEF SaveStage, Write
    <2> QED BY <2>1, <2>3 DEF FirstGenerations
<1>5. CASE CommitGeneration(k) \/ RefuseRegeneration(k) \/ RefuseAtRecheck(k) \/ CommitRegeneration(k)
    BY <1>5, FirstEmpty
        DEF CommitGeneration, RefuseRegeneration, RefuseAtRecheck, CommitRegeneration,
            CommitWithRevision, Write
<1>6. CASE FailGeneration(k) \/ BlockRegeneration(k)
    <2>1. CASE Current(k)
        BY <1>6, <2>1, FirstEmpty DEF FailGeneration, BlockRegeneration, Write
    <2>2. CASE ~Current(k)
        <3>1. UNCHANGED <<state, fresh>> /\ UNCHANGED lineage
              /\ \A j \in Job : j # k => body'[j] = body[j]
            BY <1>1, <1>6, <2>2 DEF FailGeneration, BlockRegeneration, TypeOK
        <3> QED BY <2>2, <3>1, FirstKept DEF Current, Generating, lineage
    <2> QED BY <2>1, <2>2
<1>7. CASE LoadRegeneration(k)
    <2>1. /\ body'[k].kind = "regenerate" /\ UNCHANGED state /\ UNCHANGED lineage
          /\ fresh' = fresh \cup {k} /\ \A j \in Job : j # k => body'[j] = body[j]
        BY <1>1, <1>7 DEF LoadRegeneration, BodyAt, TypeOK
    <2> QED BY <2>1, FirstKept DEF Generating, lineage
<1> QED BY <1>2, <1>3, <1>4, <1>5, <1>6, <1>7, Zenon DEF GenerationStep, RegenerationStep

LEMMA FirstStep ==
    ASSUME LineageInv, FirstGenerations, GenerationsStartUnrecorded, Next
    PROVE  FirstGenerations'
<1>1. TypeOK /\ state.active \in Branch
    BY DEF LineageInv, Base, TypeOK, State
<1>2. ASSUME NEW k \in Job,
             Admit(k) \/ TurnAway(k) \/ Stop(k) \/ GenerationStep(k) \/ RegenerationStep(k)
      PROVE  FirstGenerations'
    BY <1>2, FirstJob
<1>3. ASSUME NEW q \in Request, EditStep(q) PROVE FirstGenerations'
    <2>1. CASE LoadEdit(q) \/ DropEdit(q)
        <3>1. q \notin Job
            BY LineageAssumption
        <3>2. UNCHANGED <<state, body>> /\ UNCHANGED lineage /\ fresh' \subseteq fresh \cup {q}
            BY <2>1 DEF LoadEdit, DropEdit
        <3> QED BY <3>1, <3>2, FirstKept DEF Generating, lineage
    <2>2. ASSUME NEW s, SaveEdit(q, s) PROVE FirstGenerations'
        BY <2>2, FirstEmpty DEF SaveEdit, Write
    <2> QED BY <1>3, <2>1, <2>2, Zenon DEF EditStep, ApplyFeedback, CreateLock, DeleteLock, Promote
<1>4. ASSUME NEW b \in Fork, NEW r \in Job, CreateFork(b, r) PROVE FirstGenerations'
    <2>1. UNCHANGED <<state, body, fresh>> /\ head'[state.active] = head[state.active]
        BY <1>1, <1>4 DEF CreateFork, LineageInv, ForksUnborn, TypeOK
    <2> QED BY <2>1, FirstKept DEF Generating
<1>5. ASSUME NEW b \in Branch, Activate(b) PROVE FirstGenerations'
    BY <1>5, FirstEmpty DEF Activate, Write, TokensAfterActivation
<1>6. CASE RecordRefusal
    BY <1>6, FirstEmpty DEF RecordRefusal, Write
<1>7. CASE CloseJob
    BY <1>7, FirstKept DEF CloseJob, lineage, Generating
<1> QED BY <1>2, <1>3, <1>4, <1>5, <1>6, <1>7, Zenon DEF Next, BranchStep

\* What a first generation writes is unrecorded until its commit records all of it.
LEMMA FirstGenerationConsistent ==
    ASSUME LineageInv, FirstGenerations, Consistent(state), GenerationsStartUnrecorded,
           NEW k \in Job, GenerationStep(k)
    PROVE  Consistent(state)'
<1>1. Base /\ Planned /\ TypeOK /\ JobToken(k) /\ state \in State
    BY DEF LineageInv, Base, Tokens, TypeOK
<1>2. ASSUME UNCHANGED state, UNCHANGED lineage PROVE Consistent(state)'
    BY <1>2, ContentKept DEF lineage, Content, Version
<1>3. ASSUME head[state.active] = Nothing, state'.active = state.active, UNCHANGED lineage
      PROVE  Consistent(state)'
    BY <1>3 DEF Consistent, lineage
<1>4. CASE RequestGeneration(k) \/ \E u \in BOOLEAN : EndPlanning(k, u)
    BY <1>2, <1>4 DEF RequestGeneration, EndPlanning
<1>5. CASE StartGeneration(k)
    BY <1>1, <1>3, <1>5 DEF StartGeneration, Write, State, GenerationsStartUnrecorded
<1>6. ASSUME NEW u \in BOOLEAN, NEW f \in BOOLEAN, SaveStage(k, u, f) PROVE Consistent(state)'
    <2>1. head[state.active] = Nothing /\ body[k].copy = state /\ UNCHANGED lineage
        BY <1>1, <1>6 DEF SaveStage, Current, FirstGenerations, JobToken
    <2>2. state'.active = state.active
        BY <1>1, <1>6, <2>1, PlannedState DEF SaveStage, Write
    <2> QED BY <1>3, <2>1, <2>2
<1>7. CASE FailGeneration(k)
    <2>1. CASE ~Current(k)
        BY <1>2, <1>7, <2>1 DEF FailGeneration
    <2>2. CASE Current(k)
        <3>1. head[state.active] = Nothing /\ UNCHANGED lineage
            BY <1>7, <2>2 DEF FailGeneration, Current, FirstGenerations
        <3>2. body[k].copy \in State /\ body[k].copy.active = state.active
            BY <1>1, <1>7, <2>2 DEF FailGeneration, Current, JobToken, SameWorkspace, Base, Loaded,
                                    LoadedBody, Working
        <3>3. PICK s \in InMemory(k) : state' = s
            BY <1>7, <2>2 DEF FailGeneration, Write
        <3>4. state'.active = state.active
            BY <1>1, <3>2, <3>3, PlannedState DEF InMemory
        <3> QED BY <1>3, <3>1, <3>4
    <2> QED BY <2>1, <2>2
<1>8. CASE CommitGeneration(k)
    <2>1. PICK s \in State : s = body[k].copy /\ Commits(k, s)
        BY <1>1, <1>8, GenerationCommit
    <2>2. head[state.active] = Nothing
        BY <1>8 DEF CommitGeneration, CommitWithRevision, Current, FirstGenerations
    <2>3. Records(k, s)
        BY <2>1, <2>2, CommitEffect DEF Skips
    <2>4. /\ head'[state.active] = k /\ revision'[k] = NewRevision(s) /\ state' = s
          /\ s.active = state.active
        BY <2>1, <2>3, RecordedRevisions DEF Records, Commits
    <2>5. NewRevision(s).label = Version(s) /\ NewRevision(s).snapshot = s
        BY DEF NewRevision
    <2> QED BY <2>4, <2>5 DEF Consistent, Content, Version
<1> QED BY <1>4, <1>5, <1>6, <1>7, <1>8, Zenon DEF GenerationStep

LEMMA ConsistentStep ==
    ASSUME TripInv, FirstGenerations, Consistent(state), GenerationsStartUnrecorded, Next,
           Stamp = {}
    PROVE  Consistent(state)'
<1> USE DEF TripInv
<1>1. ASSUME NEW k \in Job, GenerationStep(k) PROVE Consistent(state)'
    BY <1>1, FirstGenerationConsistent
<1>2. ASSUME NEW k \in Job, Admit(k) \/ TurnAway(k) \/ Stop(k) PROVE Consistent(state)'
    BY <1>2, ContentKept DEF Admit, TurnAway, Stop, lineage, Content, Version
<1>3. ASSUME \A j \in Job : Generating(j) => body'[j] = body[j] PROVE Consistent(state)'
    BY <1>3, ConsistencyStep
<1>4. ASSUME NEW k \in Job, RegenerationStep(k) PROVE Consistent(state)'
    <2>1. \A j \in Job : j # k => body'[j] = body[j]
        BY <1>4 DEF RegenerationStep, RequestRegeneration, LoadRegeneration, RefuseRegeneration,
                    BlockRegeneration, EndExecution, Recheck, RefuseAtRecheck, CommitRegeneration,
                    LineageInv, Base, TypeOK
    <2>2. ~Generating(k) \/ RequestRegeneration(k)
        BY <1>4 DEF RegenerationStep, Generating, Regenerating, LoadRegeneration, RefuseRegeneration,
                    BlockRegeneration, EndExecution, Recheck, RefuseAtRecheck, CommitRegeneration
    <2>3. CASE RequestRegeneration(k)
        BY <2>3, ContentKept DEF RequestRegeneration, lineage, Content, Version
    <2> QED BY <1>3, <2>1, <2>2, <2>3
<1>5. CASE (\E q \in Request : EditStep(q)) \/ BranchStep \/ RecordRefusal \/ CloseJob
    <2>1. body' = body
        BY <1>5 DEF EditStep, LoadEdit, ApplyFeedback, CreateLock, DeleteLock, Promote, DropEdit, SaveEdit,
                    BranchStep, CreateFork, Activate, RecordRefusal, CloseJob
    <2> QED BY <1>3, <2>1
<1> QED BY <1>1, <1>2, <1>4, <1>5, Zenon DEF Next

\* In production the content of a trip leaves its head revision only through a generation that
\* was let in on a branch with recorded versions; without one "no user action may change a
\* trip's saved itinerary content without the revision that records it" holds at all times
\* (finding 2).
THEOREM OnlyRetriedGenerationsDiverge ==
    ASSUME Stamp = {}
    PROVE  Spec /\ [][GenerationsStartUnrecorded]_vars => [](Consistent(state) /\ ContentIsRecorded)
<1> DEFINE Inv == FirstGenerations /\ Consistent(state)
<1>1. Init => Inv
    BY DEF Init, Draft, FirstGenerations, Consistent, Branch
<1>2. ASSUME UNCHANGED vars, Inv PROVE Inv'
    BY <1>2 DEF vars, FirstGenerations, Generating, Consistent, Content, Version
<1>3. TripInv /\ Inv /\ [Next]_vars /\ [GenerationsStartUnrecorded]_vars => Inv'
    BY <1>2, FirstStep, ConsistentStep DEF TripInv
<1>4. Inv => Consistent(state) /\ ContentIsRecorded
    BY DEF ContentIsRecorded
<1> HIDE DEF Inv
<1> QED BY <1>1, <1>3, <1>4, TripInvariant, PTL DEF Spec

=============================================================================
