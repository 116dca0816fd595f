--------------------------- MODULE ModelStageProofs ---------------------------
(***************************************************************************)
(* Type correctness of ModelStage, that a taken probe slot always has an   *)
(* owner that will give it back, that a stage's requests and recoveries    *)
(* stay within its limits, that a stage can always step and only so often, *)
(* and what it takes for two probes to overlap - for any number of stages. *)
(***************************************************************************)
EXTENDS ModelStageHistory, Integers, FiniteSetTheorems, TLAPS

-----------------------------------------------------------------------------
(* The inductive invariant: how the attempts made, the recoveries granted  *)
(* and the requests logged relate at every point of a stage.               *)

Choosing0 == {"idle", "reading", "refused"}
Waiting == {"in_flight", "failed", "malformed", "weighing"}
Ended == {"closing", "done"}

Made(s) == retried[s]["structural"] + retried[s]["transport"] + retried[s]["failover"]

\* a granted recovery is one request more, and never one beyond the limit
Counts(s) ==
    /\ pc[s] \in Choosing0 => attempts[s] = 0 /\ Made(s) = 0
    /\ pc[s] = "sending" => Made(s) = attempts[s] /\ attempts[s] < MaxAttempts(s)
    /\ pc[s] \in Waiting => Made(s) + 1 = attempts[s] /\ attempts[s] <= MaxAttempts(s)
    /\ pc[s] \in Ended => attempts[s] <= MaxAttempts(s) /\ Made(s) < MaxAttempts(s)

\* only a pair is chosen from, and a stage past its choice has a provider
Placed(s) ==
    /\ pc[s] \in {"reading", "refused"} => Routed(s)
    /\ pc[s] \in {"sending"} \cup Waiting => current[s] \in Provider

Typed == TypeOK /\ \A s \in Stage : Placed(s)

\* what a routed stage has logged, and whom it may ask next
Asks(s) ==
    Routed(s) =>
        /\ pc[s] \in Choosing0 => log[s] = <<>>
        /\ pc[s] \in {"sending", "failed", "malformed", "weighing"} => Len(log[s]) = attempts[s]
        /\ pc[s] = "in_flight" => Len(log[s]) + 1 = attempts[s]
        /\ pc[s] \in {"sending", "in_flight"} =>
              \A i \in DOMAIN log[s] :
                  log[s][i].provider = current[s] => log[s][i].result = "structural"
        /\ pc[s] = "weighing" => \A p \in Provider : seen[s][p] # "unread" => p \notin Asked(s)
        /\ \A i, j \in DOMAIN log[s] :
              i < j /\ log[s][i].provider = log[s][j].provider => log[s][i].result = "structural"

\* nobody is chosen yet, and the preferred provider was not for the asking
Refusals(s) ==
    /\ pc[s] \in Choosing0 => current[s] = Nobody
    /\ pc[s] = "refused" => /\ seen[s][chain[s][1]] \notin {"healthy", "unread"}
                           /\ seen[s][chain[s][2]] # "unread"

Local(s) == Placed(s) /\ Counts(s) /\ Asks(s) /\ Refusals(s)

IInv == TypeOK /\ SlotHasAnOwner /\ \A s \in Stage : Local(s)

-----------------------------------------------------------------------------
(* Type correctness, action by action.                                     *)

LEMMA MaxAttemptsType ==
    ASSUME TypeOK, NEW s \in Stage
    PROVE  MaxAttempts(s) \in {1, 2, 3} /\ (TransportRetries <= 1 => MaxAttempts(s) <= 2)
  BY StageAssumption DEF MaxAttempts, Allowed, Routed, TypeOK

LEMMA ChainType ==
    ASSUME TypeOK, NEW s \in Stage
    PROVE  /\ chain[s] \in Seq(Provider)
           /\ Len(chain[s]) \in 1..2
           /\ chain[s][1] \in Provider
           /\ Routed(s) => /\ chain[s][2] \in Provider
                           /\ chain[s][1] # chain[s][2]
                           /\ Provider = {chain[s][1], chain[s][2]}
  BY StageAssumption DEF TypeOK, Routed

LEMMA AcquireTypes ==
    ASSUME TypeOK, NEW s \in Stage, NEW p \in Provider, AcquireProbe(s, p)
    PROVE  slot' \in [Provider -> BOOLEAN] /\ probing' \in [Stage -> SUBSET Provider]
  BY DEF TypeOK, AcquireProbe

LEMMA NoProbeTypes ==
    ASSUME TypeOK, NoProbe
    PROVE  slot' \in [Provider -> BOOLEAN] /\ probing' \in [Stage -> SUBSET Provider]
  BY DEF TypeOK, NoProbe

LEMMA SelectTypes ==
    ASSUME TypeOK, NEW s \in Stage, NEW p \in Provider, Select(s, p)
    PROVE  /\ current' \in [Stage -> Provider \cup {Nobody}]
           /\ pc' \in [Stage -> Phases]
           /\ seen' \in [Stage -> [Provider -> States \cup {"unread"}]]
  <1>1. Unread \in [Provider -> States \cup {"unread"}]
    BY DEF Unread
  <1>2. "sending" \in Phases
    BY DEF Phases
  <1> QED
    BY <1>1, <1>2 DEF TypeOK, Select

LEMMA AppendType ==
    ASSUME NEW E, NEW q \in Seq(E), NEW e \in E
    PROVE  Append(q, e) \in Seq(E)
  OBVIOUS

LEMMA NoteTypes ==
    ASSUME TypeOK, NEW s \in Stage, NEW r \in Results, current[s] \in Provider, Note(s, r)
    PROVE  /\ log' \in [Stage -> Seq([provider : Provider, result : Results])]
           /\ attempts' = attempts /\ retried' = retried
  <1>1. [provider |-> current[s], result |-> r] \in [provider : Provider, result : Results]
    OBVIOUS
  <1>2. Append(log[s], [provider |-> current[s], result |-> r]) \in Seq([provider : Provider, result : Results])
    BY <1>1, AppendType DEF TypeOK
  <1> QED
    BY <1>2 DEF TypeOK, Note

LEMMA RecoverTypes ==
    ASSUME TypeOK, NEW s \in Stage, NEW r \in Recoveries, NEW p \in Provider, Recover(s, r, p)
    PROVE  /\ retried' \in [Stage -> [Recoveries -> Nat]]
           /\ current' \in [Stage -> Provider \cup {Nobody}]
           /\ pc' \in [Stage -> Phases]
           /\ seen' \in [Stage -> [Provider -> States \cup {"unread"}]]
  <1>1. Select(s, p)
    BY DEF Recover
  <1>2. [retried[s] EXCEPT ![r] = retried[s][r] + 1] \in [Recoveries -> Nat]
    BY DEF TypeOK
  <1>3. retried' \in [Stage -> [Recoveries -> Nat]]
    BY <1>2 DEF TypeOK, Recover
  <1> QED
    BY <1>1, <1>3, SelectTypes

LEMMA StateType == ASSUME NEW p PROVE State(p) \in States
  BY DEF State, States

LEMMA StartTypes == ASSUME Typed, NEW s \in Stage, Start(s) PROVE TypeOK'
  <1>1. CASE Routed(s)
    BY <1>1 DEF Start, TypeOK, Typed, Phases, registry, record
  <1>2. CASE ~Routed(s)
    BY <1>2, ChainType, ZenonT(40) DEF Start, TypeOK, Typed, Phases, registry, record
  <1> QED
    BY <1>1, <1>2

LEMMA ReadTypes == ASSUME Typed, NEW s \in Stage, NEW p \in Provider, Read(s, p) PROVE TypeOK'
  <1>1. State(p) \in States
    BY StateType
  <1> QED
    BY <1>1 DEF Read, TypeOK, Typed, registry, record

LEMMA PickPreferredTypes == ASSUME Typed, NEW s \in Stage, PickPreferred(s) PROVE TypeOK'
  <1> DEFINE preferred == chain[s][1]
  <1>1. TypeOK /\ preferred \in Provider
    BY ChainType DEF Typed
  <1>2. UNCHANGED <<circuit, drained, chain, log, attempts, retried, verdict>>
    BY DEF PickPreferred, record
  <1>3. CASE NoProbe /\ Select(s, preferred)
    BY <1>1, <1>2, <1>3, NoProbeTypes, SelectTypes DEF TypeOK
  <1>4. CASE AcquireProbe(s, preferred) /\ Select(s, preferred)
    BY <1>1, <1>2, <1>4, AcquireTypes, SelectTypes DEF TypeOK
  <1>5. CASE pc' = [pc EXCEPT ![s] = "refused"] /\ NoProbe /\ UNCHANGED <<current, seen>>
    BY <1>1, <1>2, <1>5, NoProbeTypes DEF TypeOK, Phases
  <1> QED
    BY <1>3, <1>4, <1>5 DEF PickPreferred

LEMMA PickAmongRestTypes == ASSUME Typed, NEW s \in Stage, PickAmongRest(s) PROVE TypeOK'
  <1> DEFINE preferred == chain[s][1]
             other == chain[s][2]
  <1>1. TypeOK /\ preferred \in Provider /\ other \in Provider
    BY ChainType DEF Typed, Placed, PickAmongRest
  <1>2. UNCHANGED <<circuit, drained, chain, log, attempts, retried, verdict>>
    BY DEF PickAmongRest, record
  <1>3. CASE NoProbe /\ (Select(s, preferred) \/ Select(s, other))
    BY <1>1, <1>2, <1>3, NoProbeTypes, SelectTypes DEF TypeOK
  <1>4. CASE AcquireProbe(s, other) /\ Select(s, other)
    BY <1>1, <1>2, <1>4, AcquireTypes, SelectTypes DEF TypeOK
  <1>5. CASE pc' = [pc EXCEPT ![s] = "closing"] /\ NoProbe /\ UNCHANGED <<current, seen>>
    BY <1>1, <1>2, <1>5, NoProbeTypes DEF TypeOK, Phases
  <1> QED
    BY <1>3, <1>4, <1>5 DEF PickAmongRest

LEMMA SendTypes == ASSUME Typed, NEW s \in Stage, Send(s) PROVE TypeOK'
  <1>1. drained' \in [Provider -> BOOLEAN]
    BY DEF Send, TypeOK, Typed
  <1>2. attempts' \in [Stage -> Nat] /\ pc' \in [Stage -> Phases]
    BY DEF Send, TypeOK, Typed, Phases
  <1> QED
    BY <1>1, <1>2 DEF Send, TypeOK, Typed, choice

LEMMA GiveUpTypes == ASSUME Typed, NEW s \in Stage, GiveUp(s) PROVE TypeOK'
  BY DEF GiveUp, TypeOK, Typed, Phases, registry, choice, record

LEMMA AnsweredTypes == ASSUME Typed, NEW s \in Stage, NEW result \in {"success", "structural"}, Answered(s, result) PROVE TypeOK'
  <1>1. TypeOK /\ current[s] \in Provider /\ result \in Results
    BY DEF Typed, Placed, Waiting, Answered, Results
  <1>2. Note(s, result) /\ RecordSuccess(current[s])
    BY DEF Answered
  <1>3. /\ log' \in [Stage -> Seq([provider : Provider, result : Results])]
        /\ attempts' = attempts /\ retried' = retried
    BY <1>1, <1>2, NoteTypes
  <1>4. /\ circuit' \in [Provider -> {"closed", "open", "cooled", "rejected"}]
        /\ slot' \in [Provider -> BOOLEAN] /\ drained' \in [Provider -> BOOLEAN]
    BY <1>1, <1>2 DEF RecordSuccess, TypeOK
  <1>5. probing' \in [Stage -> SUBSET Provider] /\ pc' \in [Stage -> Phases]
    BY <1>1 DEF Answered, TypeOK, Phases
  <1> QED
    BY <1>1, <1>3, <1>4, <1>5 DEF Answered, TypeOK

LEMMA FailedTypes == ASSUME Typed, NEW s \in Stage, NEW kind \in Kinds, Failed(s, kind) PROVE TypeOK'
  <1>1. TypeOK /\ current[s] \in Provider /\ "transport" \in Results
    BY DEF Typed, Placed, Waiting, Failed, Results
  <1>2. Note(s, "transport") /\ RecordFailure(current[s], kind)
    BY DEF Failed
  <1>3. /\ log' \in [Stage -> Seq([provider : Provider, result : Results])]
        /\ attempts' = attempts /\ retried' = retried
    BY <1>1, <1>2, NoteTypes
  <1>4. /\ circuit' \in [Provider -> {"closed", "open", "cooled", "rejected"}]
        /\ slot' \in [Provider -> BOOLEAN] /\ drained' \in [Provider -> BOOLEAN]
    BY <1>1, <1>2 DEF RecordFailure, TypeOK
  <1>5. probing' \in [Stage -> SUBSET Provider] /\ pc' \in [Stage -> Phases]
    BY <1>1 DEF Failed, TypeOK, Phases
  <1> QED
    BY <1>1, <1>3, <1>4, <1>5 DEF Failed, TypeOK

LEMMA CutShortTypes == ASSUME Typed, NEW s \in Stage, CutShort(s) PROVE TypeOK'
  <1>1. TypeOK /\ current[s] \in Provider /\ "deadline" \in Results
    BY DEF Typed, Placed, Waiting, CutShort, Results
  <1>2. Note(s, "deadline")
    BY DEF CutShort
  <1>3. /\ log' \in [Stage -> Seq([provider : Provider, result : Results])]
        /\ attempts' = attempts /\ retried' = retried
    BY <1>1, <1>2, NoteTypes
  <1>4. slot' \in [Provider -> BOOLEAN]
    BY <1>1 DEF CutShort, TypeOK
  <1>5. probing' \in [Stage -> SUBSET Provider] /\ pc' \in [Stage -> Phases]
    BY <1>1 DEF CutShort, TypeOK, Phases
  <1> QED
    BY <1>1, <1>3, <1>4, <1>5 DEF CutShort, TypeOK

LEMMA LookAsideTypes == ASSUME Typed, NEW s \in Stage, LookAside(s) PROVE TypeOK'
  <1>1. \A p \in Provider : State(p) \in States
    BY StateType
  <1> QED
    BY <1>1 DEF LookAside, TypeOK, Typed, Phases, registry, record

LEMMA FailoverTypes == ASSUME Typed, NEW s \in Stage, Failover(s) PROVE TypeOK'
  <1>1. PICK p \in Provider : Offers(s, p) /\ Recover(s, "failover", p)
    BY DEF Failover
  <1>2. TypeOK /\ "failover" \in Recoveries
    BY DEF Typed, Recoveries
  <1>3. slot' \in [Provider -> BOOLEAN] /\ probing' \in [Stage -> SUBSET Provider]
    BY <1>1, <1>2, AcquireTypes, NoProbeTypes DEF Offers
  <1>4. /\ retried' \in [Stage -> [Recoveries -> Nat]]
        /\ current' \in [Stage -> Provider \cup {Nobody}]
        /\ pc' \in [Stage -> Phases]
        /\ seen' \in [Stage -> [Provider -> States \cup {"unread"}]]
    BY <1>1, <1>2, RecoverTypes
  <1> QED
    BY <1>2, <1>3, <1>4 DEF Failover, Settle, TypeOK, Kinds

LEMMA FailoverRefusedTypes == ASSUME Typed, NEW s \in Stage, FailoverRefused(s) PROVE TypeOK'
  <1>1. PICK p \in Provider : Offers(s, p)
    BY DEF FailoverRefused
  <1>2. slot' \in [Provider -> BOOLEAN] /\ probing' \in [Stage -> SUBSET Provider]
    BY <1>1, AcquireTypes, NoProbeTypes DEF Offers, Typed
  <1> QED
    BY <1>2 DEF FailoverRefused, Settle, Typed, TypeOK, Kinds, Phases, Unread, record

LEMMA RetrySameTypes == ASSUME Typed, NEW s \in Stage, RetrySame(s) PROVE TypeOK'
  <1>1. PICK r \in OwnRecovery(s) : Recover(s, r, current[s])
    BY DEF RetrySame
  <1>2. TypeOK /\ r \in Recoveries /\ current[s] \in Provider
    BY DEF Typed, Placed, Waiting, RetrySame, OwnRecovery, Recoveries
  <1>3. /\ retried' \in [Stage -> [Recoveries -> Nat]]
        /\ current' \in [Stage -> Provider \cup {Nobody}]
        /\ pc' \in [Stage -> Phases]
        /\ seen' \in [Stage -> [Provider -> States \cup {"unread"}]]
    BY <1>1, <1>2, RecoverTypes
  <1> QED
    BY <1>2, <1>3 DEF RetrySame, Settle, TypeOK, Kinds, registry

LEMMA FallBackTypes == ASSUME Typed, NEW s \in Stage, FallBack(s) PROVE TypeOK'
  BY DEF FallBack, Settle, TypeOK, Typed, Phases, Kinds, Unread, registry, record

LEMMA CloseTypes == ASSUME Typed, NEW s \in Stage, Close(s) PROVE TypeOK'
  <1>1. slot' \in [Provider -> BOOLEAN] /\ probing' \in [Stage -> SUBSET Provider]
    BY DEF Close, TypeOK, Typed
  <1> QED
    BY <1>1 DEF Close, TypeOK, Typed, Phases, record

LEMMA CoolTypes == ASSUME Typed, NEW p \in Provider, Cool(p) PROVE TypeOK'
  BY DEF Cool, TypeOK, Typed, choice, record

LEMMA RefillTypes == ASSUME Typed, NEW p \in Provider, Refill(p) PROVE TypeOK'
  BY DEF Refill, TypeOK, Typed, choice, record

-----------------------------------------------------------------------------
(* What one stage knows, action by action: the other stages keep theirs.   *)

LEMMA Frame ==
    ASSUME NEW t \in Stage, Local(t), chain' = chain,
           pc'[t] = pc[t], current'[t] = current[t], seen'[t] = seen[t],
           log'[t] = log[t], attempts'[t] = attempts[t], retried'[t] = retried[t]
    PROVE  Local(t)'
  BY DEF Local, Placed, Counts, Asks, Refusals, Made, MaxAttempts, Allowed, Routed, Asked

LEMMA ChainKept ==
    ASSUME NEW s \in Stage, chain' = chain
    PROVE  Routed(s)' = Routed(s) /\ MaxAttempts(s)' = MaxAttempts(s)
  BY DEF Routed, MaxAttempts, Allowed

\* what appending one record to a log does to it
LEMMA Appended ==
    ASSUME NEW E, NEW q \in Seq(E), NEW e \in E
    PROVE  /\ Len(Append(q, e)) = Len(q) + 1
           /\ \A i \in DOMAIN Append(q, e) :
                 \/ i \in DOMAIN q /\ Append(q, e)[i] = q[i]
                 \/ i = Len(Append(q, e)) /\ Append(q, e)[i] = e
           /\ DOMAIN q = 1..Len(q) /\ DOMAIN Append(q, e) = 1..Len(Append(q, e))
  <1>1. DOMAIN q = 1..Len(q) /\ Len(q) \in Nat
    OBVIOUS
  <1>2. Len(Append(q, e)) = Len(q) + 1
    OBVIOUS
  <1>3. DOMAIN Append(q, e) = 1..(Len(q) + 1)
    OBVIOUS
  <1>4. \A i \in 1..Len(q) : Append(q, e)[i] = q[i]
    OBVIOUS
  <1>5. Append(q, e)[Len(q) + 1] = e
    OBVIOUS
  <1>6. \A i \in 1..(Len(q) + 1) : i \in 1..Len(q) \/ i = Len(q) + 1
    BY <1>1
  <1>7. \A i \in DOMAIN Append(q, e) :
           \/ i \in DOMAIN q /\ Append(q, e)[i] = q[i]
           \/ i = Len(q) + 1 /\ Append(q, e)[i] = e
    <2> TAKE i \in DOMAIN Append(q, e)
    <2>1. CASE i \in 1..Len(q)
      <3>1. Append(q, e)[i] = q[i]
        BY <1>4, <2>1
      <3>2. i \in DOMAIN q
        BY <1>1, <2>1
      <3> QED
        BY <3>1, <3>2
    <2>2. CASE i = Len(q) + 1
      BY <1>5, <2>2
    <2> QED
      BY <1>3, <1>6, <2>1, <2>2
  <1> QED
    BY <1>1, <1>2, <1>3, <1>7

LEMMA StartLocal == ASSUME IInv, NEW s \in Stage, Start(s) PROVE \A t \in Stage : Local(t)'
  <1> SUFFICES ASSUME NEW t \in Stage PROVE Local(t)'
    OBVIOUS
  <1>1. CASE t # s
    BY <1>1, Frame DEF IInv, Start, TypeOK, registry, choice, record
  <1>2. CASE t = s
    <2>0. /\ TypeOK /\ Placed(s) /\ Counts(s) /\ Asks(s) /\ Refusals(s)
          /\ chain[s][1] \in Provider
      BY ChainType DEF IInv, Local
    <2>1. /\ pc[s] = "idle" /\ chain' = chain /\ log' = log /\ attempts' = attempts /\ retried' = retried
          /\ \/ pc'[s] = "reading" /\ current'[s] = current[s] /\ Routed(s)
             \/ pc'[s] = "sending" /\ current'[s] = chain[s][1] /\ ~Routed(s)
      BY <2>0 DEF Start, TypeOK, record
    <2>2. MaxAttempts(s) \in {1, 2, 3} /\ MaxAttempts(s)' = MaxAttempts(s) /\ Routed(s)' = Routed(s)
      BY <2>0, <2>1, MaxAttemptsType, ChainKept
    <2>3. Placed(s)'
      BY <2>0, <2>1, <2>2 DEF Placed, Waiting
    <2>4. Counts(s)'
      BY <2>0, <2>1, <2>2 DEF Counts, Made, Choosing0, Waiting, Ended
    <2>5. Asks(s)'
      BY <2>0, <2>1, <2>2 DEF Asks, Choosing0
    <2>6. Refusals(s)'
      BY <2>0, <2>1 DEF Refusals, Choosing0
    <2> QED
      BY <1>2, <2>3, <2>4, <2>5, <2>6 DEF Local
  <1> QED
    BY <1>1, <1>2

LEMMA ReadLocal == ASSUME IInv, NEW s \in Stage, NEW p \in Provider, Read(s, p) PROVE \A t \in Stage : Local(t)'
  <1> SUFFICES ASSUME NEW t \in Stage PROVE Local(t)'
    OBVIOUS
  <1>1. CASE t # s
    BY <1>1, Frame DEF IInv, Read, State, TypeOK, registry, choice, record
  <1>2. CASE t = s
    BY <1>2, StageAssumption, MaxAttemptsType, ChainType DEF IInv, Local, Placed, Counts, Asks, Refusals, Made, MaxAttempts, Allowed, Routed, Asked, Choosing0, Waiting, Ended, TypeOK, Read, State, registry, choice, record
  <1> QED
    BY <1>1, <1>2

LEMMA PickPreferredLocal == ASSUME IInv, NEW s \in Stage, PickPreferred(s) PROVE \A t \in Stage : Local(t)'
  <1> SUFFICES ASSUME NEW t \in Stage PROVE Local(t)'
    OBVIOUS
  <1>1. CASE t # s
    BY <1>1, Frame DEF IInv, PickPreferred, AcquireProbe, NoProbe, Select, Unread, TypeOK, registry, choice, record
  <1>2. CASE t = s
    <2>0. TypeOK /\ Placed(s) /\ Counts(s) /\ Asks(s) /\ Refusals(s)
      BY DEF IInv, Local
    <2>1. /\ chain' = chain /\ attempts'[s] = attempts[s] /\ retried'[s] = retried[s] /\ log'[s] = log[s]
          /\ \/ pc'[s] = "sending" /\ current'[s] = chain[s][1]
             \/ /\ pc'[s] = "refused" /\ current'[s] = current[s] /\ seen'[s] = seen[s]
                /\ seen[s][chain[s][1]] # "healthy"
          /\ pc[s] = "reading" /\ \A p \in Provider : seen[s][p] # "unread"
          /\ Routed(s) /\ chain[s][1] \in Provider /\ chain[s][2] \in Provider
      BY <2>0, ChainType DEF PickPreferred, Select, TypeOK, record, Placed
    <2>m. /\ MaxAttempts(s) \in {1, 2, 3} /\ MaxAttempts(s)' = MaxAttempts(s)
          /\ Routed(s)' = Routed(s)
      BY <2>0, <2>1, MaxAttemptsType, ChainKept
    <2>n. Made(s) \in Nat /\ attempts[s] \in Nat
      BY <2>0 DEF Made, TypeOK, Recoveries
    <2>l. /\ \A i \in DOMAIN log[s] : log[s][i].provider \in Asked(s)
          /\ log[s] = <<>> => Len(log[s]) = 0 /\ DOMAIN log[s] = {}
      BY DEF Asked
    <2>2. Placed(s)'
      BY <2>0, <2>1, <2>m DEF Placed, Waiting, TypeOK
    <2>3. Counts(s)'
      BY <2>0, <2>1, <2>m, <2>n DEF Counts, Made, Choosing0, Waiting, Ended
    <2>4. Asks(s)'
      <3>1. log[s] = <<>> /\ attempts[s] = 0
        BY <2>0, <2>1 DEF Asks, Counts, Choosing0
      <3>2. /\ log'[s] = <<>> /\ attempts'[s] = 0
            /\ DOMAIN log'[s] = {} /\ Len(log'[s]) = 0
        BY <2>1, <2>l, <3>1
      <3> QED
        BY <2>1, <3>2 DEF Asks
    <2>5. Refusals(s)'
      BY <2>0, <2>1, <2>m, StageAssumption DEF Refusals, Choosing0, Ended, TypeOK
    <2> QED
      BY <1>2, <2>2, <2>3, <2>4, <2>5 DEF Local
  <1> QED
    BY <1>1, <1>2

LEMMA PickAmongRestLocal == ASSUME IInv, NEW s \in Stage, PickAmongRest(s) PROVE \A t \in Stage : Local(t)'
  <1> SUFFICES ASSUME NEW t \in Stage PROVE Local(t)'
    OBVIOUS
  <1>1. CASE t # s
    BY <1>1, Frame DEF IInv, PickAmongRest, AcquireProbe, NoProbe, Select, Unread, TypeOK, registry, choice, record
  <1>2. CASE t = s
    <2>0. TypeOK /\ Placed(s) /\ Counts(s) /\ Asks(s) /\ Refusals(s)
      BY DEF IInv, Local
    <2>1. /\ chain' = chain /\ attempts'[s] = attempts[s] /\ retried'[s] = retried[s] /\ log'[s] = log[s]
          /\ \/ pc'[s] = "sending" /\ current'[s] \in Provider
             \/ /\ pc'[s] = "closing" /\ current'[s] = current[s] /\ seen'[s] = seen[s]
                /\ seen[s][chain[s][1]] # "draining" /\ seen[s][chain[s][2]] \in {"open", "half_open"}
          /\ pc[s] = "refused"
          /\ Routed(s) /\ Provider = {chain[s][1], chain[s][2]} /\ seen[s] \in [Provider -> States \cup {"unread"}]
      <3>1. /\ pc[s] = "refused" /\ pc \in [Stage -> Phases] /\ current \in [Stage -> Provider \cup {Nobody}]
            /\ seen[s] \in [Provider -> States \cup {"unread"}]
        BY <2>0 DEF PickAmongRest, TypeOK
      <3>2. /\ Routed(s) /\ Provider = {chain[s][1], chain[s][2]}
            /\ chain[s][1] \in Provider /\ chain[s][2] \in Provider
        BY <2>0, <3>1, ChainType DEF Placed
      <3>3. chain' = chain /\ attempts' = attempts /\ retried' = retried /\ log' = log
        BY DEF PickAmongRest, Select, record
      <3>4. ASSUME NEW p \in Provider, Select(s, p) PROVE pc'[s] = "sending" /\ current'[s] \in Provider
        BY <3>1, <3>4 DEF Select
      <3>5. CASE \E p \in Provider : Select(s, p)
        BY <3>1, <3>2, <3>3, <3>4, <3>5
      <3>6. CASE \A p \in Provider : ~Select(s, p)
        <4>1. /\ seen[s][chain[s][1]] # "draining" /\ seen[s][chain[s][2]] \in {"open", "half_open"}
              /\ pc' = [pc EXCEPT ![s] = "closing"] /\ UNCHANGED <<current, seen>>
          BY <3>2, <3>6 DEF PickAmongRest
        <4> QED  BY <3>1, <3>2, <3>3, <4>1
      <3> QED  BY <3>5, <3>6
    <2>m. /\ MaxAttempts(s) \in {1, 2, 3} /\ MaxAttempts(s)' = MaxAttempts(s)
          /\ Routed(s)' = Routed(s)
      BY <2>0, <2>1, MaxAttemptsType, ChainKept
    <2>n. Made(s) \in Nat /\ attempts[s] \in Nat
      BY <2>0 DEF Made, TypeOK, Recoveries
    <2>l. /\ \A i \in DOMAIN log[s] : log[s][i].provider \in Asked(s)
          /\ log[s] = <<>> => Len(log[s]) = 0 /\ DOMAIN log[s] = {}
      BY DEF Asked
    <2>2. Placed(s)'
      BY <2>0, <2>1, <2>m DEF Placed, Waiting, TypeOK
    <2>3. Counts(s)'
      BY <2>0, <2>1, <2>m, <2>n DEF Counts, Made, Choosing0, Waiting, Ended
    <2>4. Asks(s)'
      <3>1. log[s] = <<>> /\ attempts[s] = 0
        BY <2>0, <2>1 DEF Asks, Counts, Choosing0
      <3>2. /\ log'[s] = <<>> /\ attempts'[s] = 0
            /\ DOMAIN log'[s] = {} /\ Len(log'[s]) = 0
        BY <2>1, <2>l, <3>1
      <3> QED
        BY <2>1, <3>2 DEF Asks
    <2>5. Refusals(s)'
      BY <2>0, <2>1, <2>m, StageAssumption DEF Refusals, Choosing0, Ended, States
    <2> QED
      BY <1>2, <2>2, <2>3, <2>4, <2>5 DEF Local
  <1> QED
    BY <1>1, <1>2

LEMMA SendLocal == ASSUME IInv, NEW s \in Stage, Send(s) PROVE \A t \in Stage : Local(t)'
  <1> SUFFICES ASSUME NEW t \in Stage PROVE Local(t)'
    OBVIOUS
  <1>1. CASE t # s
    BY <1>1, Frame DEF IInv, Send, TypeOK, registry, choice, record
  <1>2. CASE t = s
    BY <1>2, StageAssumption, MaxAttemptsType, ChainType, SMTT(30) DEF IInv, Local, Placed, Counts, Asks, Refusals, Made, MaxAttempts, Allowed, Routed, Asked, Choosing0, Waiting, Ended, TypeOK, Send, registry, choice, record
  <1> QED
    BY <1>1, <1>2

LEMMA GiveUpLocal == ASSUME IInv, NEW s \in Stage, GiveUp(s) PROVE \A t \in Stage : Local(t)'
  <1> SUFFICES ASSUME NEW t \in Stage PROVE Local(t)'
    OBVIOUS
  <1>1. CASE t # s
    BY <1>1, Frame DEF IInv, GiveUp, TypeOK, registry, choice, record
  <1>2. CASE t = s
    BY <1>2, StageAssumption, MaxAttemptsType, ChainType, SMTT(30) DEF IInv, Local, Placed, Counts, Asks, Refusals, Made, MaxAttempts, Allowed, Routed, Asked, Choosing0, Waiting, Ended, TypeOK, GiveUp, registry, choice, record
  <1> QED
    BY <1>1, <1>2

LEMMA AnsweredLocal == ASSUME IInv, NEW s \in Stage, NEW result \in {"success", "structural"}, Answered(s, result) PROVE \A t \in Stage : Local(t)'
  <1> SUFFICES ASSUME NEW t \in Stage PROVE Local(t)'
    OBVIOUS
  <1>1. CASE t # s
    BY <1>1, Frame DEF IInv, Answered, RecordSuccess, Note, TypeOK, registry, choice, record
  <1>2. CASE t = s
    <2>0. TypeOK /\ Placed(s) /\ Counts(s) /\ Asks(s) /\ Refusals(s)
      BY DEF IInv, Local
    <2>1. /\ chain' = chain /\ attempts'[s] = attempts[s] /\ retried'[s] = retried[s]
          /\ pc[s] = "in_flight" /\ current'[s] = current[s] /\ seen'[s] = seen[s]
          /\ pc'[s] \in {"closing", "malformed"}
          /\ log[s] \in Seq([provider : Provider, result : Results])
          /\ [provider |-> current[s], result |-> result] \in [provider : Provider, result : Results]
          /\ log'[s] = Append(log[s], [provider |-> current[s], result |-> result])
      BY <2>0 DEF Answered, Note, TypeOK, Placed, Waiting, Results
    <2>m. /\ MaxAttempts(s) \in {1, 2, 3} /\ MaxAttempts(s)' = MaxAttempts(s)
          /\ Routed(s)' = Routed(s)
      BY <2>0, <2>1, MaxAttemptsType, ChainKept
    <2>n. Made(s) \in Nat /\ attempts[s] \in Nat
      BY <2>0 DEF Made, TypeOK, Recoveries
    <2>l. /\ \A i \in DOMAIN log[s] : log[s][i].provider \in Asked(s)
          /\ log[s] = <<>> => Len(log[s]) = 0 /\ DOMAIN log[s] = {}
      BY DEF Asked
    <2>2. Placed(s)'
      BY <2>0, <2>1, <2>m DEF Placed, Waiting, TypeOK
    <2>3. Counts(s)'
      BY <2>0, <2>1, <2>m, <2>n DEF Counts, Made, Choosing0, Waiting, Ended
    <2>4. Asks(s)'
      BY <2>0, <2>1, <2>m, <2>n, <2>l, Appended DEF Asks, Choosing0
    <2>5. Refusals(s)'
      BY <2>0, <2>1, <2>m, StageAssumption DEF Refusals, Choosing0, Ended, Placed, Waiting
    <2> QED
      BY <1>2, <2>2, <2>3, <2>4, <2>5 DEF Local
  <1> QED
    BY <1>1, <1>2

LEMMA FailedLocal == ASSUME IInv, NEW s \in Stage, NEW kind \in Kinds, Failed(s, kind) PROVE \A t \in Stage : Local(t)'
  <1> SUFFICES ASSUME NEW t \in Stage PROVE Local(t)'
    OBVIOUS
  <1>1. CASE t # s
    BY <1>1, Frame DEF IInv, Failed, RecordFailure, Note, TypeOK, registry, choice, record
  <1>2. CASE t = s
    <2>0. TypeOK /\ Placed(s) /\ Counts(s) /\ Asks(s) /\ Refusals(s)
      BY DEF IInv, Local
    <2>1. /\ chain' = chain /\ attempts'[s] = attempts[s] /\ retried'[s] = retried[s]
          /\ pc[s] = "in_flight" /\ current'[s] = current[s] /\ seen'[s] = seen[s]
          /\ pc'[s] = "failed"
          /\ log[s] \in Seq([provider : Provider, result : Results])
          /\ [provider |-> current[s], result |-> "transport"] \in [provider : Provider, result : Results]
          /\ log'[s] = Append(log[s], [provider |-> current[s], result |-> "transport"])
      BY <2>0 DEF Failed, Note, TypeOK, Placed, Waiting, Results
    <2>m. /\ MaxAttempts(s) \in {1, 2, 3} /\ MaxAttempts(s)' = MaxAttempts(s)
          /\ Routed(s)' = Routed(s)
      BY <2>0, <2>1, MaxAttemptsType, ChainKept
    <2>n. Made(s) \in Nat /\ attempts[s] \in Nat
      BY <2>0 DEF Made, TypeOK, Recoveries
    <2>l. /\ \A i \in DOMAIN log[s] : log[s][i].provider \in Asked(s)
          /\ log[s] = <<>> => Len(log[s]) = 0 /\ DOMAIN log[s] = {}
      BY DEF Asked
    <2>2. Placed(s)'
      BY <2>0, <2>1, <2>m DEF Placed, Waiting, TypeOK
    <2>3. Counts(s)'
      BY <2>0, <2>1, <2>m, <2>n DEF Counts, Made, Choosing0, Waiting, Ended
    <2>4. Asks(s)'
      BY <2>0, <2>1, <2>m, <2>n, <2>l, Appended DEF Asks, Choosing0
    <2>5. Refusals(s)'
      BY <2>0, <2>1, <2>m, StageAssumption DEF Refusals, Choosing0, Ended, Placed, Waiting
    <2> QED
      BY <1>2, <2>2, <2>3, <2>4, <2>5 DEF Local
  <1> QED
    BY <1>1, <1>2

LEMMA CutShortLocal == ASSUME IInv, NEW s \in Stage, CutShort(s) PROVE \A t \in Stage : Local(t)'
  <1> SUFFICES ASSUME NEW t \in Stage PROVE Local(t)'
    OBVIOUS
  <1>1. CASE t # s
    BY <1>1, Frame DEF IInv, CutShort, Note, TypeOK, registry, choice, record
  <1>2. CASE t = s
    <2>0. TypeOK /\ Placed(s) /\ Counts(s) /\ Asks(s) /\ Refusals(s)
      BY DEF IInv, Local
    <2>1. /\ chain' = chain /\ attempts'[s] = attempts[s] /\ retried'[s] = retried[s]
          /\ pc[s] = "in_flight" /\ current'[s] = current[s] /\ seen'[s] = seen[s]
          /\ pc'[s] = "closing"
          /\ log[s] \in Seq([provider : Provider, result : Results])
          /\ [provider |-> current[s], result |-> "deadline"] \in [provider : Provider, result : Results]
          /\ log'[s] = Append(log[s], [provider |-> current[s], result |-> "deadline"])
      BY <2>0 DEF CutShort, Note, TypeOK, Placed, Waiting, Results
    <2>m. /\ MaxAttempts(s) \in {1, 2, 3} /\ MaxAttempts(s)' = MaxAttempts(s)
          /\ Routed(s)' = Routed(s)
      BY <2>0, <2>1, MaxAttemptsType, ChainKept
    <2>n. Made(s) \in Nat /\ attempts[s] \in Nat
      BY <2>0 DEF Made, TypeOK, Recoveries
    <2>l. /\ \A i \in DOMAIN log[s] : log[s][i].provider \in Asked(s)
          /\ log[s] = <<>> => Len(log[s]) = 0 /\ DOMAIN log[s] = {}
      BY DEF Asked
    <2>2. Placed(s)'
      BY <2>0, <2>1, <2>m DEF Placed, Waiting, TypeOK
    <2>3. Counts(s)'
      BY <2>0, <2>1, <2>m, <2>n DEF Counts, Made, Choosing0, Waiting, Ended
    <2>4. Asks(s)'
      BY <2>0, <2>1, <2>m, <2>n, <2>l, Appended DEF Asks, Choosing0
    <2>5. Refusals(s)'
      BY <2>0, <2>1, <2>m, StageAssumption DEF Refusals, Choosing0, Ended, Placed, Waiting
    <2> QED
      BY <1>2, <2>2, <2>3, <2>4, <2>5 DEF Local
  <1> QED
    BY <1>1, <1>2

LEMMA LookAsideLocal == ASSUME IInv, NEW s \in Stage, LookAside(s) PROVE \A t \in Stage : Local(t)'
  <1> SUFFICES ASSUME NEW t \in Stage PROVE Local(t)'
    OBVIOUS
  <1>1. CASE t # s
    BY <1>1, Frame DEF IInv, LookAside, State, TypeOK, registry, choice, record
  <1>2. CASE t = s
    BY <1>2, StageAssumption, MaxAttemptsType, ChainType DEF IInv, Local, Placed, Counts, Asks, Refusals, Made, MaxAttempts, Allowed, Routed, Asked, Choosing0, Waiting, Ended, TypeOK, LookAside, State, registry, choice, record
  <1> QED
    BY <1>1, <1>2

LEMMA FailoverLocal == ASSUME IInv, NEW s \in Stage, Failover(s) PROVE \A t \in Stage : Local(t)'
  <1> SUFFICES ASSUME NEW t \in Stage PROVE Local(t)'
    OBVIOUS
  <1>1. CASE t # s
    BY <1>1, Frame DEF IInv, Failover, Offers, AcquireProbe, NoProbe, Recover, Select, Unread, Settle, TypeOK, registry, choice, record
  <1>2. CASE t = s
    <2>0. TypeOK /\ Placed(s) /\ Counts(s) /\ Asks(s) /\ Refusals(s)
      BY DEF IInv, Local
    <2>a. PICK p \in Provider : Offers(s, p) /\ Recover(s, "failover", p)
      BY DEF Failover
    <2>b. seen[s][p] # "unread"
      BY <2>a DEF Offers
    <2>1. /\ chain' = chain /\ attempts'[s] = attempts[s] /\ log'[s] = log[s]
          /\ retried'[s] = [retried[s] EXCEPT !["failover"] = @ + 1] /\ attempts[s] < MaxAttempts(s)
          /\ pc[s] = "weighing" /\ pc'[s] = "sending" /\ current'[s] = p
      BY <2>0, <2>a DEF Failover, Recover, MayRecover, Select, TypeOK
    <2>m. /\ MaxAttempts(s) \in {1, 2, 3} /\ MaxAttempts(s)' = MaxAttempts(s)
          /\ Routed(s)' = Routed(s)
      BY <2>0, <2>1, MaxAttemptsType, ChainKept
    <2>n. Made(s) \in Nat /\ attempts[s] \in Nat
      BY <2>0 DEF Made, TypeOK, Recoveries
    <2>l. /\ \A i \in DOMAIN log[s] : log[s][i].provider \in Asked(s)
          /\ log[s] = <<>> => Len(log[s]) = 0 /\ DOMAIN log[s] = {}
      BY DEF Asked
    <2>2. Placed(s)'
      BY <2>0, <2>1, <2>m DEF Placed, Waiting, TypeOK
    <2>3. Counts(s)'
      <3>1. Made(s)' = Made(s) + 1
        BY <2>0, <2>1 DEF Made, TypeOK, Recoveries
      <3> QED
        BY <2>0, <2>1, <2>m, <2>n, <3>1 DEF Counts, Choosing0, Waiting, Ended
    <2>4. Asks(s)'
      <3>1. Routed(s) => \A i \in DOMAIN log'[s] : log'[s][i].provider # p
        BY <2>0, <2>1, <2>b, <2>l DEF Asks, Choosing0
      <3> QED
        BY <2>0, <2>1, <2>m, <3>1 DEF Asks, Choosing0
    <2>5. Refusals(s)'
      BY <2>0, <2>1, <2>m DEF Refusals, Choosing0, Ended, TypeOK
    <2> QED
      BY <1>2, <2>2, <2>3, <2>4, <2>5 DEF Local
  <1> QED
    BY <1>1, <1>2

LEMMA FailoverRefusedLocal == ASSUME IInv, NEW s \in Stage, FailoverRefused(s) PROVE \A t \in Stage : Local(t)'
  <1> SUFFICES ASSUME NEW t \in Stage PROVE Local(t)'
    OBVIOUS
  <1>1. CASE t # s
    BY <1>1, Frame DEF IInv, FailoverRefused, Offers, AcquireProbe, NoProbe, Unread, Settle, TypeOK, registry, choice, record
  <1>2. CASE t = s
    <2>0. TypeOK /\ Placed(s) /\ Counts(s) /\ Asks(s) /\ Refusals(s)
      BY DEF IInv, Local
    <2>1. /\ chain' = chain /\ attempts'[s] = attempts[s] /\ retried'[s] = retried[s] /\ log'[s] = log[s]
          /\ pc[s] = "weighing" /\ pc'[s] = "closing" /\ current'[s] = current[s]
      BY <2>0 DEF FailoverRefused, TypeOK, record
    <2>m. /\ MaxAttempts(s) \in {1, 2, 3} /\ MaxAttempts(s)' = MaxAttempts(s)
          /\ Routed(s)' = Routed(s)
      BY <2>0, <2>1, MaxAttemptsType, ChainKept
    <2>n. Made(s) \in Nat /\ attempts[s] \in Nat
      BY <2>0 DEF Made, TypeOK, Recoveries
    <2>l. /\ \A i \in DOMAIN log[s] : log[s][i].provider \in Asked(s)
          /\ log[s] = <<>> => Len(log[s]) = 0 /\ DOMAIN log[s] = {}
      BY DEF Asked
    <2>2. Placed(s)'
      BY <2>0, <2>1, <2>m DEF Placed, Waiting, TypeOK
    <2>3. Counts(s)'
      BY <2>0, <2>1, <2>m, <2>n DEF Counts, Made, Choosing0, Waiting, Ended
    <2>4. Asks(s)'
      BY <2>0, <2>1, <2>m, <2>n, <2>l DEF Asks, Choosing0
    <2>5. Refusals(s)'
      BY <2>0, <2>1, <2>m, StageAssumption DEF Refusals, Choosing0, Ended, Placed, Waiting
    <2> QED
      BY <1>2, <2>2, <2>3, <2>4, <2>5 DEF Local
  <1> QED
    BY <1>1, <1>2

LEMMA RetrySameLocal == ASSUME IInv, NEW s \in Stage, RetrySame(s) PROVE \A t \in Stage : Local(t)'
  <1> SUFFICES ASSUME NEW t \in Stage PROVE Local(t)'
    OBVIOUS
  <1>1. CASE t # s
    BY <1>1, Frame DEF IInv, RetrySame, OwnRecovery, Recover, Select, Unread, Settle, TypeOK, registry, choice, record
  <1>2. CASE t = s
    <2>0. TypeOK /\ Placed(s) /\ Counts(s) /\ Asks(s) /\ Refusals(s)
      BY DEF IInv, Local
    <2>a. PICK r \in OwnRecovery(s) : Recover(s, r, current[s])
      BY DEF RetrySame
    <2>b. r \in Recoveries /\ (Routed(s) => Malformed(s))
      BY <2>a DEF OwnRecovery, Recoveries
    <2>1. /\ chain' = chain /\ attempts'[s] = attempts[s] /\ log'[s] = log[s]
          /\ retried'[s] = [retried[s] EXCEPT ![r] = @ + 1] /\ attempts[s] < MaxAttempts(s)
          /\ pc[s] = "weighing" /\ pc'[s] = "sending" /\ current'[s] = current[s]
      BY <2>0, <2>a DEF RetrySame, Recover, MayRecover, Select, TypeOK
    <2>c. Routed(s) => Len(log[s]) = 1 /\ log[s][1].result = "structural"
      BY <2>0, <2>1, <2>b DEF Routed, MaxAttempts, Asks, Counts, Waiting, Malformed, Made, TypeOK, Recoveries
    <2>m. /\ MaxAttempts(s) \in {1, 2, 3} /\ MaxAttempts(s)' = MaxAttempts(s)
          /\ Routed(s)' = Routed(s)
      BY <2>0, <2>1, MaxAttemptsType, ChainKept
    <2>n. Made(s) \in Nat /\ attempts[s] \in Nat
      BY <2>0 DEF Made, TypeOK, Recoveries
    <2>l. /\ \A i \in DOMAIN log[s] : log[s][i].provider \in Asked(s)
          /\ log[s] = <<>> => Len(log[s]) = 0 /\ DOMAIN log[s] = {}
      BY DEF Asked
    <2>2. Placed(s)'
      BY <2>0, <2>1, <2>m DEF Placed, Waiting, TypeOK
    <2>3. Counts(s)'
      <3>1. Made(s)' = Made(s) + 1
        <4>1. CASE r = "structural"
          BY <2>0, <2>1, <4>1 DEF Made, TypeOK, Recoveries
        <4>2. CASE r = "transport"
          BY <2>0, <2>1, <4>2 DEF Made, TypeOK, Recoveries
        <4>3. CASE r = "failover"
          BY <2>0, <2>1, <4>3 DEF Made, TypeOK, Recoveries
        <4> QED
          BY <2>b, <4>1, <4>2, <4>3 DEF Recoveries
      <3> QED
        BY <2>0, <2>1, <2>m, <2>n, <3>1 DEF Counts, Choosing0, Waiting, Ended
    <2>4. Asks(s)'
      BY <2>0, <2>1, <2>m, <2>n, <2>l, <2>b, <2>c DEF Asks, Choosing0
    <2>5. Refusals(s)'
      BY <2>0, <2>1, <2>m DEF Refusals, Choosing0, Ended, TypeOK
    <2> QED
      BY <1>2, <2>2, <2>3, <2>4, <2>5 DEF Local
  <1> QED
    BY <1>1, <1>2

LEMMA FallBackLocal == ASSUME IInv, NEW s \in Stage, FallBack(s) PROVE \A t \in Stage : Local(t)'
  <1> SUFFICES ASSUME NEW t \in Stage PROVE Local(t)'
    OBVIOUS
  <1>1. CASE t # s
    BY <1>1, Frame DEF IInv, FallBack, Unread, Settle, TypeOK, registry, choice, record
  <1>2. CASE t = s
    <2>0. TypeOK /\ Placed(s) /\ Counts(s) /\ Asks(s) /\ Refusals(s)
      BY DEF IInv, Local
    <2>1. /\ chain' = chain /\ attempts'[s] = attempts[s] /\ retried'[s] = retried[s] /\ log'[s] = log[s]
          /\ pc[s] = "weighing" /\ pc'[s] = "closing" /\ current'[s] = current[s]
      BY <2>0 DEF FallBack, TypeOK, record
    <2>m. /\ MaxAttempts(s) \in {1, 2, 3} /\ MaxAttempts(s)' = MaxAttempts(s)
          /\ Routed(s)' = Routed(s)
      BY <2>0, <2>1, MaxAttemptsType, ChainKept
    <2>n. Made(s) \in Nat /\ attempts[s] \in Nat
      BY <2>0 DEF Made, TypeOK, Recoveries
    <2>l. /\ \A i \in DOMAIN log[s] : log[s][i].provider \in Asked(s)
          /\ log[s] = <<>> => Len(log[s]) = 0 /\ DOMAIN log[s] = {}
      BY DEF Asked
    <2>2. Placed(s)'
      BY <2>0, <2>1, <2>m DEF Placed, Waiting, TypeOK
    <2>3. Counts(s)'
      BY <2>0, <2>1, <2>m, <2>n DEF Counts, Made, Choosing0, Waiting, Ended
    <2>4. Asks(s)'
      BY <2>0, <2>1, <2>m, <2>n, <2>l DEF Asks, Choosing0
    <2>5. Refusals(s)'
      BY <2>0, <2>1, <2>m, StageAssumption DEF Refusals, Choosing0, Ended, Placed, Waiting
    <2> QED
      BY <1>2, <2>2, <2>3, <2>4, <2>5 DEF Local
  <1> QED
    BY <1>1, <1>2

LEMMA CloseLocal == ASSUME IInv, NEW s \in Stage, Close(s) PROVE \A t \in Stage : Local(t)'
  <1> SUFFICES ASSUME NEW t \in Stage PROVE Local(t)'
    OBVIOUS
  <1>1. CASE t # s
    BY <1>1, Frame DEF IInv, Close, TypeOK, registry, choice, record
  <1>2. CASE t = s
    BY <1>2, StageAssumption, MaxAttemptsType, ChainType DEF IInv, Local, Placed, Counts, Asks, Refusals, Made, MaxAttempts, Allowed, Routed, Asked, Choosing0, Waiting, Ended, TypeOK, Close, registry, choice, record
  <1> QED
    BY <1>1, <1>2

LEMMA CoolLocal == ASSUME IInv, NEW p \in Provider, Cool(p) PROVE \A t \in Stage : Local(t)'
  BY Frame DEF IInv, Cool, choice, record

LEMMA RefillLocal == ASSUME IInv, NEW p \in Provider, Refill(p) PROVE \A t \in Stage : Local(t)'
  BY Frame DEF IInv, Refill, choice, record

-----------------------------------------------------------------------------
(* A taken slot has an owner: whoever lets go of it has freed it first.    *)

\* nobody's slot is taken or let go of
LEMMA SlotKept ==
    ASSUME SlotHasAnOwner, slot' = slot, probing' = probing,
           \A t \in Stage : pc'[t] = "done" => pc[t] = "done"
    PROVE  SlotHasAnOwner'
  BY DEF SlotHasAnOwner

LEMMA SlotTaken ==
    ASSUME TypeOK, SlotHasAnOwner, NEW s \in Stage, NEW p \in Provider, AcquireProbe(s, p),
           pc'[s] # "done", \A t \in Stage : pc'[t] = "done" => pc[t] = "done"
    PROVE  SlotHasAnOwner'
  BY DEF SlotHasAnOwner, AcquireProbe, TypeOK

\* s lets go of what it holds of a set of providers whose slots are free
LEMMA SlotFreed ==
    ASSUME TypeOK, SlotHasAnOwner, NEW s \in Stage, NEW Q,
           probing' = [probing EXCEPT ![s] = @ \ Q],
           \A p \in Provider : slot'[p] => slot[p],
           \A p \in Provider : p \in Q /\ p \in probing[s] => ~slot'[p],
           \A t \in Stage : pc'[t] = "done" => pc[t] = "done" \/ (t = s /\ probing[s] \subseteq Q)
    PROVE  SlotHasAnOwner'
  <1> SUFFICES ASSUME NEW p \in Provider, slot'[p]
               PROVE  \E t \in Stage : p \in probing'[t] /\ pc'[t] # "done"
    BY DEF SlotHasAnOwner
  <1>1. PICK t \in Stage : p \in probing[t] /\ pc[t] # "done"
    BY DEF SlotHasAnOwner
  <1>2. t = s => p \notin Q
    BY <1>1
  <1>3. p \in probing'[t] /\ pc'[t] # "done"
    BY <1>1, <1>2 DEF TypeOK
  <1> QED
    BY <1>3

LEMMA StartSlot == ASSUME IInv, NEW s \in Stage, Start(s) PROVE SlotHasAnOwner'
  BY SlotKept DEF IInv, Start, TypeOK, registry

LEMMA ReadSlot == ASSUME IInv, NEW s \in Stage, NEW p \in Provider, Read(s, p) PROVE SlotHasAnOwner'
  BY SlotKept DEF IInv, Read, TypeOK, registry

LEMMA PickPreferredSlot == ASSUME IInv, NEW s \in Stage, PickPreferred(s) PROVE SlotHasAnOwner'
  <1>1. TypeOK /\ SlotHasAnOwner /\ chain[s][1] \in Provider
    BY ChainType DEF IInv
  <1>2. pc'[s] # "done" /\ \A t \in Stage : pc'[t] = "done" => pc[t] = "done"
    BY <1>1 DEF PickPreferred, Select, TypeOK
  <1>3. NoProbe \/ AcquireProbe(s, chain[s][1])
    BY DEF PickPreferred
  <1> QED
    BY <1>1, <1>2, <1>3, SlotKept, SlotTaken DEF NoProbe

LEMMA PickAmongRestSlot == ASSUME IInv, NEW s \in Stage, PickAmongRest(s) PROVE SlotHasAnOwner'
  <1>1. TypeOK /\ SlotHasAnOwner /\ chain[s][2] \in Provider
    BY ChainType DEF IInv, Local, Placed, PickAmongRest
  <1>2. pc'[s] # "done" /\ \A t \in Stage : pc'[t] = "done" => pc[t] = "done"
    BY <1>1 DEF PickAmongRest, Select, TypeOK
  <1>3. NoProbe \/ AcquireProbe(s, chain[s][2])
    BY DEF PickAmongRest
  <1> QED
    BY <1>1, <1>2, <1>3, SlotKept, SlotTaken DEF NoProbe

LEMMA SendSlot == ASSUME IInv, NEW s \in Stage, Send(s) PROVE SlotHasAnOwner'
  BY SlotKept DEF IInv, Send, TypeOK, choice

LEMMA GiveUpSlot == ASSUME IInv, NEW s \in Stage, GiveUp(s) PROVE SlotHasAnOwner'
  BY SlotKept DEF IInv, GiveUp, TypeOK, registry, choice

LEMMA AnsweredSlot == ASSUME IInv, NEW s \in Stage, NEW result \in {"success", "structural"}, Answered(s, result) PROVE SlotHasAnOwner'
  <1> DEFINE Q == {current[s]}
  <1>1. TypeOK /\ SlotHasAnOwner
    BY DEF IInv
  <1>2. /\ probing' = [probing EXCEPT ![s] = @ \ Q]
        /\ \A p \in Provider : slot'[p] => slot[p]
        /\ \A p \in Provider : p \in Q /\ p \in probing[s] => ~slot'[p]
        /\ \A t \in Stage : pc'[t] = "done" => pc[t] = "done"
    BY <1>1 DEF Answered, RecordSuccess, TypeOK
  <1> HIDE DEF Q
  <1>3. \A t \in Stage : pc'[t] = "done" => pc[t] = "done" \/ (t = s /\ probing[s] \subseteq Q)
    BY <1>2, Zenon
  <1> QED
    BY <1>1, <1>2, <1>3, SlotFreed, Zenon

LEMMA FailedSlot == ASSUME IInv, NEW s \in Stage, NEW kind \in Kinds, Failed(s, kind) PROVE SlotHasAnOwner'
  <1> DEFINE Q == {current[s]}
  <1>1. TypeOK /\ SlotHasAnOwner
    BY DEF IInv
  <1>2. /\ probing' = [probing EXCEPT ![s] = @ \ Q]
        /\ \A p \in Provider : slot'[p] => slot[p]
        /\ \A p \in Provider : p \in Q /\ p \in probing[s] => ~slot'[p]
        /\ \A t \in Stage : pc'[t] = "done" => pc[t] = "done"
    BY <1>1 DEF Failed, RecordFailure, TypeOK
  <1> HIDE DEF Q
  <1>3. \A t \in Stage : pc'[t] = "done" => pc[t] = "done" \/ (t = s /\ probing[s] \subseteq Q)
    BY <1>2, Zenon
  <1> QED
    BY <1>1, <1>2, <1>3, SlotFreed, Zenon

LEMMA CutShortSlot == ASSUME IInv, NEW s \in Stage, CutShort(s) PROVE SlotHasAnOwner'
  <1> DEFINE Q == {current[s]}
  <1>1. TypeOK /\ SlotHasAnOwner
    BY DEF IInv
  <1>2. /\ probing' = [probing EXCEPT ![s] = @ \ Q]
        /\ \A p \in Provider : slot'[p] => slot[p]
        /\ \A p \in Provider : p \in Q /\ p \in probing[s] => ~slot'[p]
        /\ \A t \in Stage : pc'[t] = "done" => pc[t] = "done"
    BY <1>1 DEF CutShort, TypeOK
  <1> HIDE DEF Q
  <1>3. \A t \in Stage : pc'[t] = "done" => pc[t] = "done" \/ (t = s /\ probing[s] \subseteq Q)
    BY <1>2, Zenon
  <1> QED
    BY <1>1, <1>2, <1>3, SlotFreed, Zenon

LEMMA LookAsideSlot == ASSUME IInv, NEW s \in Stage, LookAside(s) PROVE SlotHasAnOwner'
  BY SlotKept DEF IInv, LookAside, TypeOK, registry

LEMMA FailoverSlot == ASSUME IInv, NEW s \in Stage, Failover(s) PROVE SlotHasAnOwner'
  <1>1. PICK p \in Provider : Offers(s, p) /\ Recover(s, "failover", p)
    BY DEF Failover
  <1>2. pc'[s] # "done" /\ \A t \in Stage : pc'[t] = "done" => pc[t] = "done"
    BY <1>1 DEF IInv, Recover, Select, TypeOK
  <1>3. NoProbe \/ AcquireProbe(s, p)
    BY <1>1 DEF Offers
  <1> QED
    BY <1>2, <1>3, SlotKept, SlotTaken DEF NoProbe, IInv

LEMMA FailoverRefusedSlot == ASSUME IInv, NEW s \in Stage, FailoverRefused(s) PROVE SlotHasAnOwner'
  <1>1. PICK p \in Provider : Offers(s, p)
    BY DEF FailoverRefused
  <1>2. pc'[s] # "done" /\ \A t \in Stage : pc'[t] = "done" => pc[t] = "done"
    BY <1>1 DEF IInv, FailoverRefused, TypeOK
  <1>3. NoProbe \/ AcquireProbe(s, p)
    BY <1>1 DEF Offers
  <1> QED
    BY <1>2, <1>3, SlotKept, SlotTaken DEF NoProbe, IInv

LEMMA RetrySameSlot == ASSUME IInv, NEW s \in Stage, RetrySame(s) PROVE SlotHasAnOwner'
  <1>1. \A t \in Stage : pc'[t] = "done" => pc[t] = "done"
    BY DEF IInv, RetrySame, Recover, Select, TypeOK
  <1> QED
    BY <1>1, SlotKept DEF IInv, RetrySame, registry

LEMMA FallBackSlot == ASSUME IInv, NEW s \in Stage, FallBack(s) PROVE SlotHasAnOwner'
  BY SlotKept DEF IInv, FallBack, TypeOK, registry

LEMMA CloseSlot == ASSUME IInv, NEW s \in Stage, Close(s) PROVE SlotHasAnOwner'
  <1>1. TypeOK /\ SlotHasAnOwner
    BY DEF IInv
  <1>2. /\ probing' = [probing EXCEPT ![s] = @ \ probing[s]]
        /\ \A p \in Provider : slot'[p] => slot[p]
        /\ \A p \in Provider : p \in probing[s] => ~slot'[p]
        /\ \A t \in Stage : pc'[t] = "done" => pc[t] = "done" \/ t = s
    BY <1>1 DEF Close, TypeOK
  <1> QED
    BY <1>1, <1>2, SlotFreed

LEMMA CoolSlot == ASSUME IInv, NEW p \in Provider, Cool(p) PROVE SlotHasAnOwner'
  BY SlotKept DEF IInv, Cool, choice

LEMMA RefillSlot == ASSUME IInv, NEW p \in Provider, Refill(p) PROVE SlotHasAnOwner'
  BY SlotKept DEF IInv, Refill, choice

-----------------------------------------------------------------------------
(* The theorems.                                                           *)

LEMMA InitIInv == Init => IInv
  <1> SUFFICES ASSUME Init PROVE IInv
    OBVIOUS
  <1>1. TypeOK
    BY StageAssumption DEF Init, TypeOK, States, Kinds, Results, Recoveries, Phases
  <1>2. SlotHasAnOwner
    BY DEF Init, SlotHasAnOwner
  <1>3. \A s \in Stage : Local(s)
    BY <1>1, MaxAttemptsType DEF Init, Local, Placed, Counts, Asks, Refusals, Made, Choosing0, Waiting, Ended, Recoveries
  <1> QED
    BY <1>1, <1>2, <1>3 DEF IInv

LEMMA InvTyped == IInv => Typed
  BY DEF IInv, Typed, Local

\* what a step of one stage leaves standing
LEMMA StageStep == ASSUME IInv, NEW s \in Stage, Step(s) PROVE IInv'
  <1> USE InvTyped
  <1>1. CASE Choosing(s)
    BY <1>1, StartTypes, ReadTypes, PickPreferredTypes, PickAmongRestTypes,
       StartLocal, ReadLocal, PickPreferredLocal, PickAmongRestLocal,
       StartSlot, ReadSlot, PickPreferredSlot, PickAmongRestSlot, Zenon DEF Choosing, IInv
  <1>2. CASE Requesting(s)
    BY <1>2, SendTypes, GiveUpTypes, AnsweredTypes, FailedTypes, CutShortTypes,
       SendLocal, GiveUpLocal, AnsweredLocal, FailedLocal, CutShortLocal,
       SendSlot, GiveUpSlot, AnsweredSlot, FailedSlot, CutShortSlot, Zenon DEF Requesting, IInv
  <1>3. CASE Recovering(s)
    BY <1>3, LookAsideTypes, FailoverTypes, FailoverRefusedTypes, RetrySameTypes, FallBackTypes, CloseTypes,
       LookAsideLocal, FailoverLocal, FailoverRefusedLocal, RetrySameLocal, FallBackLocal, CloseLocal,
       LookAsideSlot, FailoverSlot, FailoverRefusedSlot, RetrySameSlot, FallBackSlot, CloseSlot,
       Zenon DEF Recovering, IInv
  <1> QED
    BY <1>1, <1>2, <1>3 DEF Step

LEMMA NextIInv == IInv /\ [Next]_vars => IInv'
  <1> SUFFICES ASSUME IInv, [Next]_vars PROVE IInv'
    OBVIOUS
  <1>1. CASE \E s \in Stage : Step(s)
    BY <1>1, StageStep
  <1>2. CASE Environment
    BY <1>2, InvTyped, CoolTypes, RefillTypes, CoolLocal, RefillLocal, CoolSlot, RefillSlot,
       Zenon DEF Environment, IInv
  <1>3. CASE UNCHANGED vars
    <2>1. TypeOK' /\ SlotHasAnOwner'
      BY <1>3 DEF IInv, TypeOK, SlotHasAnOwner, vars, registry, choice, record
    <2>2. \A t \in Stage : Local(t)'
      BY <1>3, Frame DEF IInv, vars, choice, record
    <2> QED
      BY <2>1, <2>2 DEF IInv
  <1> QED
    BY <1>1, <1>2, <1>3 DEF Next

LEMMA SpecIInv == Spec => []IInv
  BY InitIInv, NextIInv, PTL DEF Spec

(* Every reachable state is well typed, for any number of stages.          *)
THEOREM TypeCorrect == Spec => []TypeOK
  <1>1. IInv => TypeOK
    BY DEF IInv
  <1> QED
    BY <1>1, SpecIInv, PTL

(* A taken probe slot always has a running owner.                          *)
THEOREM ProbeSlotOwned == Spec => []SlotHasAnOwner
  <1>1. IInv => SlotHasAnOwner
    BY DEF IInv
  <1> QED
    BY <1>1, SpecIInv, PTL

(* A stage never makes more requests than its largest single recovery      *)
(* allows, and a routed one never goes back to a provider that failed it.  *)
THEOREM RequestsAreBounded == Spec => []RequestsBounded
  <1>1. IInv => RequestsBounded
    <2> SUFFICES ASSUME IInv, NEW s \in Stage
                 PROVE  /\ attempts[s] <= MaxAttempts(s)
                        /\ Routed(s) => \A i, j \in DOMAIN log[s] :
                              i < j /\ log[s][i].provider = log[s][j].provider =>
                                  log[s][i].result = "structural"
      BY DEF RequestsBounded
    <2>1. TypeOK /\ Counts(s) /\ Asks(s) /\ pc[s] \in Phases
      BY DEF IInv, Local, TypeOK
    <2>2. MaxAttempts(s) \in {1, 2, 3} /\ attempts[s] \in Nat
      BY <2>1, MaxAttemptsType DEF TypeOK
    <2>3. attempts[s] <= MaxAttempts(s)
      BY <2>1, <2>2 DEF Counts, Choosing0, Waiting, Ended, Phases
    <2> QED
      BY <2>1, <2>3 DEF Asks
  <1> QED
    BY <1>1, SpecIInv, PTL

(* With at most one transport retry, a stage recovers once and one way.    *)
THEOREM RecoversOnce == Spec => []OneRecovery
  <1>1. IInv => OneRecovery
    <2> SUFFICES ASSUME IInv, TransportRetries <= 1, NEW s \in Stage PROVE Made(s) <= 1
      BY DEF OneRecovery, Made
    <2>1. TypeOK /\ Counts(s) /\ pc[s] \in Phases
      BY DEF IInv, Local, TypeOK
    <2>2. attempts[s] \in Nat /\ Made(s) \in Nat
      BY <2>1 DEF TypeOK, Made, Recoveries
    <2>3. MaxAttempts(s) \in {1, 2}
      BY <2>1, MaxAttemptsType
    <2> QED
      BY <2>1, <2>2, <2>3 DEF Counts, Choosing0, Waiting, Ended, Phases
  <1> QED
    BY <1>1, SpecIInv, PTL

-----------------------------------------------------------------------------
(* Why a stage gives up without asking anybody (ModelStageHistory).        *)

\* why a stage has not chosen, or has no, provider: what it saw of one still
\* holds or it was kept from that provider since it started to choose
Kept(s) ==
    /\ pc[s] = "idle" => \A p \in Provider : seen[s][p] = "unread"
    /\ pc[s] \in {"reading", "refused"} =>
          \A p \in Provider :
             /\ seen[s][p] = "open" => p \in barred[s]
             /\ seen[s][p] = "half_open" => p \in barred[s] \/ ProbeFree(p)
    /\ pc[s] = "refused" /\ seen[s][chain[s][1]] \in {"open", "half_open"} => chain[s][1] \in barred[s]
    /\ pc[s] \in Ended /\ Routed(s) /\ current[s] = Nobody => barred[s] = Provider

BarredType == barred \in [Stage -> SUBSET Provider]

HInv == IInv /\ BarredType /\ \A s \in Stage : Kept(s)

LEMMA WatchTypes ==
    ASSUME BarredType, Watch
    PROVE  BarredType'
  BY DEF BarredType, Watch

\* a choice that is still open gathers reasons, whoever moves
LEMMA KeptWhileChoosing ==
    ASSUME BarredType, Watch, NEW s \in Stage, pc[s] \in {"reading", "refused"},
           pc'[s] \in {"reading", "refused"}, NEW p \in Provider,
           p \in barred[s] \/ ProbeFree(p)
    PROVE  p \in barred'[s] \/ ProbeFree(p)'
  BY DEF BarredType, Watch, ProbeFree, Unavailable, LeavesProbation

LEMMA ReasonsGrow ==
    ASSUME BarredType, Watch, NEW s \in Stage, pc'[s] \in {"reading", "refused"}
    PROVE  barred[s] \subseteq barred'[s]
  BY DEF BarredType, Watch

LEMMA ReasonsStay ==
    ASSUME BarredType, Watch, NEW s \in Stage, pc'[s] \notin {"reading", "refused"}, current'[s] = Nobody
    PROVE  barred'[s] = barred[s]
  BY DEF BarredType, Watch

\* the steps of everybody else
LEMMA KeptFrame ==
    ASSUME BarredType, Watch, NEW s \in Stage, Kept(s), chain' = chain,
           pc'[s] = pc[s], seen'[s] = seen[s], current'[s] = current[s]
    PROVE  Kept(s)'
  <1>1. CASE pc[s] \in {"reading", "refused"}
    <2>1. \A p \in Provider : seen[s][p] = "half_open" => p \in barred'[s] \/ ProbeFree(p)'
      BY <1>1, KeptWhileChoosing DEF Kept
    <2>2. barred[s] \subseteq barred'[s]
      BY <1>1, ReasonsGrow
    <2> QED  BY <1>1, <2>1, <2>2 DEF Kept, Ended
  <1>2. CASE pc[s] \notin {"reading", "refused"}
    BY <1>2, ReasonsStay DEF Kept, Routed
  <1> QED  BY <1>1, <1>2

\* once a provider was asked, the stage has nothing to explain
LEMMA KeptOnceAsked ==
    ASSUME NEW s \in Stage, pc'[s] \notin Choosing0, pc'[s] \in Ended => current'[s] # Nobody
    PROVE  Kept(s)'
  BY DEF Kept, Choosing0

LEMMA ChoosingKept ==
    ASSUME HInv, Watch, NEW s \in Stage, Choosing(s)
    PROVE  Kept(s)'
  <1>0. /\ pc \in [Stage -> Phases] /\ current \in [Stage -> Provider \cup {Nobody}]
        /\ seen \in [Stage -> [Provider -> States \cup {"unread"}]]
        /\ BarredType /\ Kept(s) /\ Placed(s) /\ Refusals(s)
    BY DEF HInv, IInv, TypeOK, Local
  <1>1. CASE Start(s)
    <2>1. /\ seen' = seen /\ pc[s] = "idle" /\ pc'[s] \in {"reading", "sending"}
      BY <1>0, <1>1 DEF Start
    <2> QED  BY <1>0, <2>1 DEF Kept, Ended
  <1>2. ASSUME NEW p \in Provider, Read(s, p) PROVE Kept(s)'
    <2>1. /\ pc[s] = "reading" /\ pc'[s] = "reading" /\ UNCHANGED <<registry, chain>>
          /\ seen'[s][p] = State(p) /\ \A q \in Provider \ {p} : seen'[s][q] = seen[s][q]
      BY <1>0, <1>2 DEF Read
    <2>2. State(p)' = State(p) /\ slot'[p] = slot[p]
      BY <2>1 DEF State, registry
    <2>3. ASSUME NEW q \in Provider
          PROVE  /\ seen'[s][q] = "open" => q \in barred'[s]
                 /\ seen'[s][q] = "half_open" => q \in barred'[s] \/ ProbeFree(q)'
      <3>1. CASE q = p
        BY <1>0, <2>1, <2>2, <3>1 DEF BarredType, Watch, Unavailable, ProbeFree
      <3>2. CASE q # p
        <4>1. barred[s] \subseteq barred'[s]
          BY <1>0, <2>1, ReasonsGrow
        <4> QED  BY <1>0, <2>1, <3>2, <4>1, KeptWhileChoosing DEF Kept
      <3> QED  BY <3>1, <3>2
    <2> QED  BY <2>1, <2>3 DEF Kept, Ended
  <1>3. CASE PickPreferred(s)
    <2>0. pc[s] = "reading" /\ chain[s][1] \in Provider
      BY <1>0, <1>3, ChainType DEF PickPreferred, Placed, HInv, IInv
    <2>1. CASE Select(s, chain[s][1])
      BY <1>0, <2>1, KeptOnceAsked DEF Select, Choosing0, Ended
    <2>2. CASE ~Select(s, chain[s][1])
      <3>1. /\ pc'[s] = "refused" /\ seen' = seen /\ chain' = chain
            /\ UNCHANGED <<slot, circuit, drained>>
            /\ ~(seen[s][chain[s][1]] = "half_open" /\ ProbeFree(chain[s][1]))
        BY <1>0, <1>3, <2>2 DEF PickPreferred, NoProbe
      <3>2. seen[s][chain[s][1]] \in {"open", "half_open"} => chain[s][1] \in barred[s]
        BY <1>0, <2>0, <3>1 DEF Kept
      <3>3. barred[s] \subseteq barred'[s]
        BY <1>0, <3>1, ReasonsGrow
      <3>4. \A p \in Provider : seen[s][p] = "half_open" => p \in barred'[s] \/ ProbeFree(p)'
        BY <1>0, <2>0, <3>1, KeptWhileChoosing DEF Kept
      <3> QED  BY <1>0, <2>0, <3>1, <3>2, <3>3, <3>4 DEF Kept, Ended
    <2> QED  BY <2>1, <2>2
  <1>4. CASE PickAmongRest(s)
    <2>0. /\ pc[s] = "refused" /\ Provider = {chain[s][1], chain[s][2]}
          /\ seen[s] \in [Provider -> States \cup {"unread"}]
          /\ seen[s][chain[s][1]] \notin {"healthy", "unread"} /\ current[s] = Nobody
      BY <1>0, <1>4, ChainType DEF PickAmongRest, Placed, Refusals, Choosing0, HInv, IInv
    <2>1. CASE \E p \in Provider : Select(s, p)
      BY <1>0, <2>1, StageAssumption, KeptOnceAsked DEF Select, Choosing0, Ended
    <2>2. CASE \A p \in Provider : ~Select(s, p)
      <3>1. /\ seen[s][chain[s][1]] # "draining"
            /\ \/ seen[s][chain[s][2]] = "open"
               \/ seen[s][chain[s][2]] = "half_open" /\ ~ProbeFree(chain[s][2])
            /\ pc'[s] = "closing" /\ current'[s] = Nobody
        BY <1>0, <1>4, <2>0, <2>2 DEF PickAmongRest
      <3>2. seen[s][chain[s][1]] \in {"open", "half_open"}
        BY <2>0, <3>1 DEF States
      <3>3. chain[s][1] \in barred[s] /\ chain[s][2] \in barred[s]
        BY <1>0, <2>0, <3>1, <3>2 DEF Kept
      <3>4. barred'[s] = barred[s]
        BY <1>0, <3>1, ReasonsStay
      <3>5. barred[s] = Provider
        BY <1>0, <2>0, <3>3 DEF BarredType
      <3> QED  BY <3>1, <3>4, <3>5 DEF Kept, Ended
    <2> QED  BY <2>1, <2>2
  <1> QED
    BY <1>1, <1>2, <1>3, <1>4 DEF Choosing

LEMMA RequestingKept ==
    ASSUME HInv, Watch, NEW s \in Stage, Requesting(s)
    PROVE  Kept(s)'
  <1>0. pc \in [Stage -> Phases] /\ Placed(s)
    BY DEF HInv, IInv, TypeOK, Local
  <1>1. /\ pc[s] \in {"sending", "in_flight"} /\ current' = current
        /\ pc'[s] \in {"in_flight", "closing", "malformed", "failed"}
    BY <1>0 DEF Requesting, Send, GiveUp, Answered, Failed, CutShort, choice
  <1>2. current[s] # Nobody
    BY <1>0, <1>1, StageAssumption DEF Placed, Waiting
  <1> QED  BY <1>1, <1>2, KeptOnceAsked DEF Choosing0, Ended

LEMMA RecoveringKept ==
    ASSUME HInv, Watch, NEW s \in Stage, Recovering(s)
    PROVE  Kept(s)'
  <1>0. /\ pc \in [Stage -> Phases] /\ current \in [Stage -> Provider \cup {Nobody}]
        /\ BarredType /\ Kept(s) /\ Placed(s)
    BY DEF HInv, IInv, TypeOK, Local
  <1>1. CASE Close(s)
    <2>1. pc[s] = "closing" /\ pc'[s] = "done" /\ current' = current /\ chain' = chain
      BY <1>0, <1>1 DEF Close
    <2> QED  BY <1>0, <2>1, ReasonsStay DEF Kept, Ended, Routed
  <1>2. CASE ~Close(s)
    <2>1. /\ pc[s] \in {"failed", "malformed", "weighing"} /\ pc'[s] \in {"weighing", "sending", "closing"}
          /\ current'[s] \in Provider \cup {current[s]}
      BY <1>0, <1>2 DEF Recovering, LookAside, Failover, FailoverRefused, RetrySame, FallBack, Recover, Select
    <2>2. current'[s] # Nobody
      BY <1>0, <2>1, StageAssumption DEF Placed, Waiting
    <2> QED  BY <2>1, <2>2, KeptOnceAsked DEF Choosing0, Ended
  <1> QED  BY <1>1, <1>2

LEMMA OthersKept ==
    ASSUME HInv, Watch, [Next]_vars, NEW s \in Stage, ~Step(s)
    PROVE  Kept(s)'
  <1>1. /\ pc \in [Stage -> Phases] /\ current \in [Stage -> Provider \cup {Nobody}]
        /\ seen \in [Stage -> [Provider -> States \cup {"unread"}]]
    BY DEF HInv, IInv, TypeOK
  <1>2. pc'[s] = pc[s] /\ seen'[s] = seen[s] /\ current'[s] = current[s] /\ chain' = chain
    <2>1. CASE Environment \/ UNCHANGED vars
      BY <2>1 DEF Environment, Cool, Refill, vars, choice
    <2>2. ASSUME NEW t \in Stage, t # s, Choosing(t)
          PROVE  pc'[s] = pc[s] /\ seen'[s] = seen[s] /\ current'[s] = current[s] /\ chain' = chain
      BY <1>1, <2>2 DEF Choosing, Start, Read, PickPreferred, PickAmongRest, Select
    <2>3. ASSUME NEW t \in Stage, t # s, Requesting(t)
          PROVE  pc'[s] = pc[s] /\ seen'[s] = seen[s] /\ current'[s] = current[s] /\ chain' = chain
      BY <1>1, <2>3 DEF Requesting, Send, GiveUp, Answered, Failed, CutShort, choice
    <2>4. ASSUME NEW t \in Stage, t # s, Recovering(t)
          PROVE  pc'[s] = pc[s] /\ seen'[s] = seen[s] /\ current'[s] = current[s] /\ chain' = chain
      BY <1>1, <2>4 DEF Recovering, LookAside, Failover, FailoverRefused, RetrySame, FallBack, Close,
                        Recover, Select
    <2> QED  BY <2>1, <2>2, <2>3, <2>4 DEF Next, Step
  <1> QED  BY <1>2, KeptFrame DEF HInv

LEMMA HInvHolds == WatchedSpec => []HInv
  <1>1. WatchedInit => HInv
    <2> SUFFICES ASSUME WatchedInit PROVE HInv
      OBVIOUS
    <2>1. IInv
      BY InitIInv DEF WatchedInit
    <2>2. BarredType
      BY DEF WatchedInit, BarredType
    <2>3. \A s \in Stage : Kept(s)
      BY DEF WatchedInit, Init, Kept, Ended
    <2> QED  BY <2>1, <2>2, <2>3 DEF HInv
  <1>2. HInv /\ [Next /\ Watch]_history => HInv'
    <2>1. CASE HInv /\ Next /\ Watch
      <3>1. IInv' /\ BarredType'
        BY <2>1, NextIInv, WatchTypes DEF HInv
      <3>2. \A s \in Stage : Kept(s)'
        BY <2>1, ChoosingKept, RequestingKept, RecoveringKept, OthersKept DEF Step
      <3> QED  BY <3>1, <3>2 DEF HInv
    <2>2. CASE HInv /\ UNCHANGED history
      <3>1. IInv'
        BY <2>2, NextIInv DEF HInv, history
      <3>2. \A s \in Stage : Kept(s)'
        BY <2>2 DEF HInv, history, vars, registry, choice, Kept, Routed, ProbeFree, State
      <3> QED  BY <2>2, <3>1, <3>2 DEF HInv, BarredType, history
    <2> QED  BY <2>1, <2>2
  <1> QED
    BY <1>1, <1>2, PTL DEF WatchedSpec

(* A pair is given up unasked only when each of the two was out of reach   *)
(* while the stage chose: open, its one probe in another stage's hands, or *)
(* no longer on probation when its probe was asked for                     *)
(* (StageRoute.first_provider).                                            *)
THEOREM UnaskedOnlyIfUnavailable == WatchedSpec => []NobodyAskedNobodyFree
  <1>1. HInv => NobodyAskedNobodyFree
    BY DEF HInv, Kept, Ended, NobodyAskedNobodyFree
  <1> QED
    BY <1>1, HInvHolds, PTL

-----------------------------------------------------------------------------
(* One probe at a time, and the only way to two.                           *)

\* a slot is only freed by a stage that gives up a probe of its own
OnlyHoldersRelease ==
    \A p \in Provider : slot[p] /\ ~slot'[p] =>
        \E s \in Stage : p \in probing[s] /\ p \notin probing'[s]

\* a probe in flight holds the slot, alone
ProbesExclusive ==
    \A p \in Provider, s \in Stage : p \in probing[s] =>
        slot[p] /\ \A t \in Stage : p \in probing[t] => t = s

LEMMA NewProbeIsAcquired ==
    ASSUME IInv, [Next]_vars, NEW s \in Stage, NEW p \in Provider,
           p \in probing'[s], p \notin probing[s]
    PROVE  AcquireProbe(s, p)
  <1>1. probing \in [Stage -> SUBSET Provider]
    BY DEF IInv, TypeOK
  <1>2. PICK t \in Stage : Step(t)
    BY DEF Next, Environment, Cool, Refill, vars, choice
  <1>3. ~(probing' = probing) /\ ~\E Q : probing' = [probing EXCEPT ![t] = Q] /\ Q \subseteq probing[t]
    BY <1>1
  <1>4. PickPreferred(t) \/ PickAmongRest(t) \/ Failover(t) \/ FailoverRefused(t)
    <2>1. ~\E result \in {"success", "structural"} : Answered(t, result)
      BY <1>1, <1>3 DEF Answered
    <2>2. ~\E kind \in Kinds : Failed(t, kind)
      BY <1>1, <1>3 DEF Failed
    <2>3. ~CutShort(t) /\ ~Close(t)
      BY <1>1, <1>3 DEF CutShort, Close
    <2>4. /\ ~Start(t) /\ ~Send(t) /\ ~GiveUp(t) /\ ~LookAside(t) /\ ~RetrySame(t) /\ ~FallBack(t)
          /\ ~\E q \in Provider : Read(t, q)
      BY <1>3 DEF Start, Read, Send, GiveUp, LookAside, RetrySame, FallBack, choice
    <2> QED  BY <1>2, <2>1, <2>2, <2>3, <2>4 DEF Step, Choosing, Requesting, Recovering
  <1>5. PICK q : AcquireProbe(t, q)
    BY <1>3, <1>4 DEF PickPreferred, PickAmongRest, Failover, FailoverRefused, Offers, NoProbe
  <1>6. t = s /\ q = p
    BY <1>1, <1>5 DEF AcquireProbe
  <1> QED  BY <1>5, <1>6

LEMMA ProbesStayExclusive ==
    ASSUME IInv, ProbesExclusive, OnlyHoldersRelease, [Next]_vars
    PROVE  ProbesExclusive'
  <1> SUFFICES ASSUME NEW p \in Provider, NEW s \in Stage, p \in probing'[s]
               PROVE  slot'[p] /\ \A t \in Stage : p \in probing'[t] => t = s
    BY DEF ProbesExclusive
  <1>1. CASE p \in probing[s]
    <2>1. slot[p] /\ \A t \in Stage : p \in probing[t] => t = s
      BY <1>1 DEF ProbesExclusive
    <2>2. slot'[p]
      BY <2>1 DEF OnlyHoldersRelease
    <2>3. ASSUME NEW t \in Stage, p \in probing'[t] PROVE t = s
      BY <2>1, <2>3, NewProbeIsAcquired DEF AcquireProbe, ProbeFree
    <2> QED  BY <2>2, <2>3
  <1>2. CASE p \notin probing[s]
    <2>1. AcquireProbe(s, p)
      BY <1>2, NewProbeIsAcquired
    <2>2. /\ ~slot[p] /\ slot'[p]
          /\ \A t \in Stage \ {s} : probing'[t] = probing[t]
      BY <2>1 DEF AcquireProbe, ProbeFree, IInv, TypeOK
    <2> QED  BY <2>2 DEF ProbesExclusive
  <1> QED  BY <1>1, <1>2

(* The one way to two probes of a provider at a time: if a stage only ever *)
(* frees the slot of a probe it holds, a provider on probation is asked by *)
(* at most one stage (try_acquire_probe; record_failure and _open free the *)
(* slot whoever holds it).                                                 *)
THEOREM SecondProbeNeedsForeignRelease ==
    Spec /\ [][OnlyHoldersRelease]_vars => []OneProbe
  <1>1. Init => ProbesExclusive
    BY DEF Init, ProbesExclusive
  <1>2. ProbesExclusive /\ UNCHANGED vars => ProbesExclusive'
    BY DEF ProbesExclusive, vars, registry, choice
  <1>3. IInv /\ ProbesExclusive /\ [Next]_vars /\ [OnlyHoldersRelease]_vars => ProbesExclusive'
    BY <1>2, ProbesStayExclusive
  <1>4. ProbesExclusive => OneProbe
    <2> SUFFICES ASSUME ProbesExclusive, NEW p \in Provider
                 PROVE  Cardinality({s \in Stage : p \in probing[s]}) <= 1
      BY DEF OneProbe
    <2>1. CASE {s \in Stage : p \in probing[s]} = {}
      BY <2>1, FS_EmptySet
    <2>2. ASSUME NEW s \in Stage, p \in probing[s] PROVE {t \in Stage : p \in probing[t]} = {s}
      BY <2>2 DEF ProbesExclusive
    <2> QED  BY <2>1, <2>2, FS_Singleton
  <1> QED  BY <1>1, <1>3, <1>4, SpecIInv, PTL DEF Spec

-----------------------------------------------------------------------------
(* A stage ends: it always has a step to take, and only so many.           *)

\* steps between the start of a phase and the end of the stage, without another request
PhaseLength(s) ==
    CASE pc[s] = "idle" -> 7
      [] pc[s] = "reading" -> 4 + (IF seen[s][chain[s][1]] = "unread" THEN 1 ELSE 0)
                                + (IF seen[s][chain[s][2]] = "unread" THEN 1 ELSE 0)
      [] pc[s] = "in_flight" -> 5
      [] pc[s] \in {"failed", "malformed"} -> 4
      [] pc[s] \in {"weighing", "refused"} -> 3
      [] pc[s] = "sending" -> 2
      [] pc[s] = "closing" -> 1
      [] OTHER -> 0

StepsLeft(s) == PhaseLength(s) + 4 * (MaxAttempts(s) - attempts[s])

\* the guards of the steps of a stage; the first request is chosen in any case
CanStep(s) ==
    \/ pc[s] \in {"idle", "reading", "sending", "in_flight", "failed", "malformed", "closing"}
    \/ /\ pc[s] = "refused"
       /\ \/ seen[s][chain[s][1]] = "draining"
          \/ seen[s][chain[s][2]] \in {"healthy", "draining", "half_open", "open"}
    \/ /\ pc[s] = "weighing"
       /\ \/ NoOffer(s)
          \/ \E p \in Provider :
                \/ seen[s][p] = "healthy"
                \/ ~Malformed(s) /\ seen[s][p] = "draining"
                \/ ~Malformed(s) /\ seen[s][p] = "half_open" /\ ProbeFree(p)

(* A stage that has not ended can always take a step, whatever it has read *)
(* of its providers and whoever holds their slots: nothing makes it wait.  *)
StagesCanStep == \A s \in Stage : pc[s] = "done" \/ CanStep(s)

(* Nothing makes a stage wait, with any number of stages at work: the      *)
(* first half of EveryStageEnds.                                           *)
THEOREM StagesNeverWait == Spec => []StagesCanStep
  <1>1. IInv => StagesCanStep
    <2> SUFFICES ASSUME IInv, NEW s \in Stage, pc[s] # "done" PROVE CanStep(s)
      BY DEF StagesCanStep
    <2>0. pc[s] \in Phases
      BY DEF IInv, TypeOK
    <2>1. seen[s] \in [Provider -> States \cup {"unread"}]
      BY DEF IInv, TypeOK
    <2>2. CASE pc[s] = "refused"
      <3>1. Routed(s) /\ seen[s][chain[s][2]] # "unread"
        BY <2>2 DEF IInv, Local, Placed, Refusals
      <3>2. chain[s][2] \in Provider
        BY <3>1, ChainType DEF IInv
      <3> QED  BY <2>1, <2>2, <3>1, <3>2 DEF CanStep, States
    <2>3. CASE pc[s] = "weighing"
      <3> SUFFICES ASSUME NEW p \in Provider,
                          ~(seen[s][p] = "healthy"),
                          ~(~Malformed(s) /\ seen[s][p] = "draining"),
                          ~(~Malformed(s) /\ seen[s][p] = "half_open" /\ ProbeFree(p))
                   PROVE  \/ seen[s][p] \in {"unread", "open"}
                          \/ Malformed(s) /\ seen[s][p] # "healthy"
                          \/ seen[s][p] = "half_open" /\ ~ProbeFree(p)
        BY <2>3 DEF CanStep, NoOffer
      <3> QED  BY <2>1 DEF States
    <2> QED  BY <2>0, <2>2, <2>3 DEF CanStep, Phases
  <1> QED  BY <1>1, SpecIInv, PTL

(* Every step of a stage brings its end nearer, and no step of another     *)
(* stage, of a cooldown or of a quota window puts it off.                  *)
StagesOnlyShrink ==
    [][\A s \in Stage :
         /\ StepsLeft(s)' <= StepsLeft(s)
         /\ Step(s) => StepsLeft(s)' < StepsLeft(s)]_vars


\* a stage ends within 7 steps and 4 for each request it may make
LEMMA StepsLeftBounded ==
    ASSUME IInv, NEW s \in Stage
    PROVE  StepsLeft(s) \in 0..(7 + 4 * MaxAttempts(s)) /\ StepsLeft(s) <= 19
  <1>1. PhaseLength(s) \in 0..7
    BY DEF PhaseLength
  <1>2. attempts[s] \in Nat /\ MaxAttempts(s) \in {1, 2, 3}
    BY MaxAttemptsType DEF IInv, TypeOK
  <1>3. attempts[s] <= MaxAttempts(s)
    <2>1. Counts(s) /\ pc[s] \in Phases
      BY DEF IInv, Local, TypeOK
    <2> QED  BY <1>2, <2>1 DEF Counts, Choosing0, Waiting, Ended, Phases
  <1> QED  BY <1>1, <1>2, <1>3 DEF StepsLeft

LEMMA StepsLeftIsInt == IInv => \A s \in Stage : StepsLeft(s) \in Int
  BY StepsLeftBounded, MaxAttemptsType DEF IInv

\* the next phase is shorter, and a request uses up an attempt
LEMMA Shorter ==
    ASSUME IInv, NEW s \in Stage, chain' = chain, attempts'[s] = attempts[s],
           PhaseLength(s)' \in Int, PhaseLength(s)' < PhaseLength(s)
    PROVE  StepsLeft(s)' < StepsLeft(s)
  <1>1. attempts[s] \in Nat /\ MaxAttempts(s) \in {1, 2, 3} /\ MaxAttempts(s)' = MaxAttempts(s)
    BY MaxAttemptsType, ChainKept DEF IInv, TypeOK
  <1>2. PhaseLength(s) \in Int
    BY DEF PhaseLength
  <1> QED  BY <1>1, <1>2 DEF StepsLeft

LEMMA ChoosingShrinks ==
    ASSUME IInv, NEW s \in Stage, Choosing(s)
    PROVE  StepsLeft(s)' < StepsLeft(s)
  <1>1. pc \in [Stage -> Phases] /\ seen \in [Stage -> [Provider -> States \cup {"unread"}]]
    BY DEF IInv, TypeOK
  <1>2. CASE Start(s)
    <2>1. pc[s] = "idle" /\ pc'[s] \in {"reading", "sending"}
      BY <1>1, <1>2 DEF Start
    <2>2. PhaseLength(s) = 7 /\ PhaseLength(s)' \in 0..6
      BY <2>1 DEF PhaseLength
    <2> QED  BY <1>2, <2>2, Shorter DEF Start, record
  <1>3. ASSUME NEW p \in Provider, Read(s, p) PROVE StepsLeft(s)' < StepsLeft(s)
    <2>1. /\ pc[s] = "reading" /\ pc'[s] = "reading" /\ chain' = chain
          /\ seen[s][p] = "unread" /\ seen'[s][p] = State(p)
          /\ \A q \in Provider \ {p} : seen'[s][q] = seen[s][q]
      BY <1>1, <1>3 DEF Read
    <2>2. State(p) # "unread"
      BY StateType DEF States
    <2>3. /\ chain[s][1] \in Provider /\ chain[s][2] \in Provider
          /\ Provider = {chain[s][1], chain[s][2]} /\ chain[s][1] # chain[s][2]
      BY <2>1, ChainType DEF IInv, Local, Placed
    <2>4. PhaseLength(s)' \in Int /\ PhaseLength(s)' < PhaseLength(s)
      BY <2>1, <2>2, <2>3 DEF PhaseLength
    <2> QED  BY <1>3, <2>4, Shorter DEF Read, record
  <1>4. CASE PickPreferred(s)
    <2>1. pc[s] = "reading" /\ pc'[s] \in {"refused", "sending"}
      BY <1>1, <1>4 DEF PickPreferred, Select
    <2>2. PhaseLength(s) \in 4..6 /\ PhaseLength(s)' \in 0..3
      BY <2>1 DEF PhaseLength
    <2> QED  BY <1>4, <2>2, Shorter DEF PickPreferred, record
  <1>5. CASE PickAmongRest(s)
    <2>1. pc[s] = "refused" /\ pc'[s] \in {"closing", "sending"}
      BY <1>1, <1>5 DEF PickAmongRest, Select
    <2>2. PhaseLength(s) = 3 /\ PhaseLength(s)' \in 0..2
      BY <2>1 DEF PhaseLength
    <2> QED  BY <1>5, <2>2, Shorter DEF PickAmongRest, record
  <1> QED  BY <1>2, <1>3, <1>4, <1>5 DEF Choosing

LEMMA RequestingShrinks ==
    ASSUME IInv, NEW s \in Stage, Requesting(s)
    PROVE  StepsLeft(s)' < StepsLeft(s)
  <1>1. pc \in [Stage -> Phases] /\ attempts \in [Stage -> Nat]
    BY DEF IInv, TypeOK
  <1>2. CASE Send(s)
    <2>1. pc[s] = "sending" /\ pc'[s] = "in_flight" /\ attempts'[s] = attempts[s] + 1 /\ chain' = chain
      BY <1>1, <1>2 DEF Send
    <2>2. PhaseLength(s) = 2 /\ PhaseLength(s)' = 5
      BY <2>1 DEF PhaseLength
    <2>3. attempts[s] \in Nat /\ MaxAttempts(s) \in {1, 2, 3} /\ MaxAttempts(s)' = MaxAttempts(s)
      BY <1>1, <2>1, MaxAttemptsType, ChainKept DEF IInv
    <2> QED  BY <2>1, <2>2, <2>3 DEF StepsLeft
  <1>3. CASE GiveUp(s)
    <2>1. pc[s] = "sending" /\ pc'[s] = "closing"
      BY <1>1, <1>3 DEF GiveUp
    <2>2. PhaseLength(s) = 2 /\ PhaseLength(s)' = 1
      BY <2>1 DEF PhaseLength
    <2> QED  BY <1>3, <2>2, Shorter DEF GiveUp, record
  <1>4. ASSUME pc[s] = "in_flight", pc'[s] \in {"closing", "malformed", "failed"},
               attempts' = attempts, chain' = chain
        PROVE  StepsLeft(s)' < StepsLeft(s)
    <2>1. PhaseLength(s) = 5 /\ PhaseLength(s)' \in 0..4
      BY <1>4 DEF PhaseLength
    <2> QED  BY <1>4, <2>1, Shorter
  <1>5. ASSUME NEW result \in {"success", "structural"}, Answered(s, result)
        PROVE  StepsLeft(s)' < StepsLeft(s)
    BY <1>1, <1>4, <1>5 DEF Answered, Note
  <1>6. ASSUME NEW kind \in Kinds, Failed(s, kind) PROVE StepsLeft(s)' < StepsLeft(s)
    BY <1>1, <1>4, <1>6 DEF Failed, Note
  <1>7. CASE CutShort(s)
    BY <1>1, <1>4, <1>7 DEF CutShort, Note
  <1> QED  BY <1>2, <1>3, <1>5, <1>6, <1>7 DEF Requesting

LEMMA RecoveringShrinks ==
    ASSUME IInv, NEW s \in Stage, Recovering(s)
    PROVE  StepsLeft(s)' < StepsLeft(s)
  <1>1. pc \in [Stage -> Phases]
    BY DEF IInv, TypeOK
  <1>2. /\ chain' = chain /\ attempts' = attempts
        /\ \/ pc[s] \in {"failed", "malformed"} /\ pc'[s] = "weighing"
           \/ pc[s] = "weighing" /\ pc'[s] \in {"sending", "closing"}
           \/ pc[s] = "closing" /\ pc'[s] = "done"
    BY <1>1 DEF Recovering, LookAside, Failover, FailoverRefused, RetrySame, FallBack, Close,
                Recover, Select, record
  <1>3. PhaseLength(s)' \in Int /\ PhaseLength(s)' < PhaseLength(s)
    BY <1>2 DEF PhaseLength
  <1> QED  BY <1>2, <1>3, Shorter

\* what StepsLeft(s) is made of is left alone by everybody else
LEMMA StepsLeftFrame ==
    ASSUME IInv, [Next]_vars, NEW s \in Stage, ~Step(s)
    PROVE  StepsLeft(s)' = StepsLeft(s)
  <1>1. /\ pc \in [Stage -> Phases] /\ attempts \in [Stage -> Nat]
        /\ seen \in [Stage -> [Provider -> States \cup {"unread"}]]
    BY DEF IInv, TypeOK
  <1>2. pc'[s] = pc[s] /\ seen'[s] = seen[s] /\ attempts'[s] = attempts[s] /\ chain' = chain
    <2>1. CASE Environment \/ UNCHANGED vars
      BY <2>1 DEF Environment, Cool, Refill, vars, choice, record
    <2>2. ASSUME NEW t \in Stage, t # s, Choosing(t)
          PROVE  pc'[s] = pc[s] /\ seen'[s] = seen[s] /\ attempts'[s] = attempts[s] /\ chain' = chain
      BY <1>1, <2>2 DEF Choosing, Start, Read, PickPreferred, PickAmongRest, Select, choice, record
    <2>3. ASSUME NEW t \in Stage, t # s, Requesting(t)
          PROVE  pc'[s] = pc[s] /\ seen'[s] = seen[s] /\ attempts'[s] = attempts[s] /\ chain' = chain
      BY <1>1, <2>3 DEF Requesting, Send, GiveUp, Answered, Failed, CutShort, Note, choice, record
    <2>4. ASSUME NEW t \in Stage, t # s, Recovering(t)
          PROVE  pc'[s] = pc[s] /\ seen'[s] = seen[s] /\ attempts'[s] = attempts[s] /\ chain' = chain
      BY <1>1, <2>4 DEF Recovering, LookAside, Failover, FailoverRefused, RetrySame, FallBack, Close,
                        Recover, Select, choice, record
    <2> QED  BY <2>1, <2>2, <2>3, <2>4 DEF Next, Step
  <1> QED  BY <1>2 DEF StepsLeft, PhaseLength, MaxAttempts, Allowed, Routed

(* A stage ends after at most seven steps and four for each request, the   *)
(* second half of EveryStageEnds (llm_provider_router.py: no loop in it    *)
(* goes round without using up an attempt).                                *)
THEOREM StagesShrink == Spec => StagesOnlyShrink
  <1>0. IInv' => (\A s \in Stage : StepsLeft(s) \in Int)'
    BY StepsLeftIsInt, PTL
  <1>1. IInv /\ [Next]_vars =>
          \A s \in Stage : /\ StepsLeft(s)' <= StepsLeft(s)
                           /\ Step(s) => StepsLeft(s)' < StepsLeft(s)
    <2> SUFFICES ASSUME IInv, [Next]_vars, NEW s \in Stage
                 PROVE  /\ StepsLeft(s)' <= StepsLeft(s)
                        /\ Step(s) => StepsLeft(s)' < StepsLeft(s)
      OBVIOUS
    <2>1. StepsLeft(s) \in Int /\ StepsLeft(s)' \in Int
      BY <1>0, NextIInv, StepsLeftIsInt
    <2>2. Step(s) => StepsLeft(s)' < StepsLeft(s)
      BY ChoosingShrinks, RequestingShrinks, RecoveringShrinks DEF Step
    <2>3. ~Step(s) => StepsLeft(s)' = StepsLeft(s)
      BY StepsLeftFrame
    <2> QED  BY <2>1, <2>2, <2>3
  <1> QED  BY <1>1, SpecIInv, PTL DEF Spec, StagesOnlyShrink

=============================================================================
