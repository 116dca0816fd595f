----------------------- MODULE ProviderRequestsProofs -----------------------
(***************************************************************************)
(* Type correctness of ProviderRequests, the budget of a generation and    *)
(* what its reservations add up to, the limits on requests in flight, that *)
(* no answered route is asked for again, that the two limiters deadlock    *)
(* nobody and that a batch takes a bounded number of steps - for any       *)
(* generations, requests, prices and limits.                               *)
(***************************************************************************)
EXTENDS ProviderRequests, FiniteSetTheorems, TLAPS

-----------------------------------------------------------------------------
(* The inductive invariant.                                                *)

\* every slot that is not free is held by a request that will give it back
SlotsAccounted ==
    /\ \A g \in Generations :
          slots[g] + Cardinality(At(g, Admitted)) = GenerationSlots
    /\ IsFiniteSet(OnTheWire)
    /\ processSlots + Cardinality(OnTheWire) = ProcessSlots

\* a planned or working request is of a route nothing is known of
Pending == Working \cup {"planned"}
AskedOnce == \A g \in Generations : At(g, Pending) \cap (known[g] \cup unroutable[g]) = {}

IInv == TypeOK /\ BudgetHolds /\ SlotsAccounted /\ AskedOnce

-----------------------------------------------------------------------------
(* What one step of a request does to the sets of requests at a stage.     *)

LEMMA AtFinite ==
    ASSUME NEW g, NEW S
    PROVE  IsFiniteSet(At(g, S)) /\ Cardinality(At(g, S)) \in Nat
  <1>1. At(g, S) \subseteq Requests  BY DEF At
  <1>2. IsFiniteSet(At(g, S))  BY <1>1, FS_Subset, ProviderRequestsAssumption
  <1> QED  BY <1>2, FS_CardinalityType

LEMMA AtPrimeFinite ==
    ASSUME NEW g, NEW S
    PROVE  IsFiniteSet(At(g, S)') /\ Cardinality(At(g, S)') \in Nat
  <1>1. At(g, S)' \subseteq Requests  BY DEF At
  <1>2. IsFiniteSet(At(g, S)')  BY <1>1, FS_Subset, ProviderRequestsAssumption
  <1> QED  BY <1>2, FS_CardinalityType

(* The stage of r changes: it enters S, leaves it, or does neither. *)
LEMMA Moves ==
    ASSUME TypeOK, NEW g \in Generations, NEW r \in Requests, NEW to \in Stages,
           stage' = [stage EXCEPT ![g][r] = to]
    PROVE  \A h \in Generations, S \in SUBSET Stages :
             At(h, S)' = IF h # g THEN At(h, S)
                         ELSE IF to \in S THEN At(g, S) \cup {r} ELSE At(g, S) \ {r}
  BY DEF TypeOK, At

LEMMA WireMoves ==
    ASSUME TypeOK, NEW g \in Generations, NEW r \in Requests, NEW to \in Stages,
           stage' = [stage EXCEPT ![g][r] = to]
    PROVE  OnTheWire' = IF to = "sent" THEN OnTheWire \cup {<<g, r>>}
                        ELSE OnTheWire \ {<<g, r>>}
  <1>1. \A h \in Generations, q \in Requests :
           stage'[h][q] = IF h = g /\ q = r THEN to ELSE stage[h][q]
    BY DEF TypeOK
  <1>2. \A gr \in Generations \X Requests :
           gr \in OnTheWire' <=> IF gr = <<g, r>> THEN to = "sent" ELSE gr \in OnTheWire
    BY <1>1 DEF OnTheWire
  <1>3. OnTheWire \subseteq Generations \X Requests /\ OnTheWire' \subseteq Generations \X Requests
    BY DEF OnTheWire
  <1> QED  BY <1>2, <1>3

(* A step of a request changes its own stage only. *)
LEMMA StepChanges ==
    ASSUME TypeOK, NEW g \in Generations, NEW r \in Requests, NEW from, NEW to \in Stages,
           Step(g, r, from, to)
    PROVE  /\ \A h \in Generations, q \in Requests :
                stage'[h][q] = IF h = g /\ q = r THEN to ELSE stage[h][q]
           /\ stage[g][r] = from
           /\ stage' \in [Generations -> [Requests -> Stages]]
  BY DEF TypeOK, Step

(* The requests of a generation that hold one of its slots. *)
LEMMA AdmittedAfter ==
    ASSUME TypeOK, NEW g \in Generations, NEW r \in Requests, NEW from \in Stages,
           NEW to \in Stages, Step(g, r, from, to)
    PROVE  /\ \A h \in Generations \ {g} : At(h, Admitted)' = At(h, Admitted)
           /\ (from \in Admitted <=> to \in Admitted) => At(g, Admitted)' = At(g, Admitted)
           /\ from \notin Admitted /\ to \in Admitted =>
                 Cardinality(At(g, Admitted)') = Cardinality(At(g, Admitted)) + 1
           /\ from \in Admitted /\ to \notin Admitted =>
                 Cardinality(At(g, Admitted)') = Cardinality(At(g, Admitted)) - 1
  <1>1. \A h \in Generations \ {g} : At(h, Admitted)' = At(h, Admitted)
    BY StepChanges DEF At, Admitted
  <1>2. (from \in Admitted <=> to \in Admitted) => At(g, Admitted)' = At(g, Admitted)
    BY StepChanges DEF At, Admitted
  <1>3. ASSUME from \notin Admitted, to \in Admitted
        PROVE  Cardinality(At(g, Admitted)') = Cardinality(At(g, Admitted)) + 1
    <2>1. At(g, Admitted)' = At(g, Admitted) \cup {r}
      BY <1>3, StepChanges DEF At, Admitted
    <2>2. r \notin At(g, Admitted)
      BY <1>3, StepChanges DEF At
    <2> QED  BY <2>1, <2>2, AtFinite, FS_AddElement
  <1>4. ASSUME from \in Admitted, to \notin Admitted
        PROVE  Cardinality(At(g, Admitted)') = Cardinality(At(g, Admitted)) - 1
    <2>1. At(g, Admitted)' = At(g, Admitted) \ {r}
      <3>1. \A q \in Requests : q # r => stage'[g][q] = stage[g][q]
        BY StepChanges
      <3>2. stage'[g][r] \notin Admitted
        BY <1>4, StepChanges
      <3> QED  BY <3>1, <3>2 DEF At, Admitted
    <2>2. r \in At(g, Admitted)
      BY <1>4, StepChanges DEF At
    <2> QED  BY <2>1, <2>2, AtFinite, FS_RemoveElement
  <1> QED  BY <1>1, <1>2, <1>3, <1>4

(* The requests that hold a slot of the process. *)
LEMMA WireAfter ==
    ASSUME TypeOK, IsFiniteSet(OnTheWire), NEW g \in Generations, NEW r \in Requests,
           NEW from \in Stages, NEW to \in Stages, Step(g, r, from, to), from # to
    PROVE  /\ IsFiniteSet(OnTheWire')
           /\ from # "sent" /\ to # "sent" => OnTheWire' = OnTheWire
           /\ to = "sent" => Cardinality(OnTheWire') = Cardinality(OnTheWire) + 1
           /\ from = "sent" => Cardinality(OnTheWire') = Cardinality(OnTheWire) - 1
  <1>1. stage' = [stage EXCEPT ![g][r] = to]
    BY DEF Step
  <1>2. OnTheWire' = IF to = "sent" THEN OnTheWire \cup {<<g, r>>} ELSE OnTheWire \ {<<g, r>>}
    BY <1>1, WireMoves
  <1>3. <<g, r>> \in OnTheWire <=> from = "sent"
    BY StepChanges DEF OnTheWire
  <1>4. IsFiniteSet(OnTheWire')
    BY <1>2, FS_AddElement, FS_RemoveElement
  <1>5. ASSUME from # "sent", to # "sent" PROVE OnTheWire' = OnTheWire
    BY <1>2, <1>3, <1>5
  <1>6. ASSUME to = "sent" PROVE Cardinality(OnTheWire') = Cardinality(OnTheWire) + 1
    BY <1>2, <1>3, <1>6, FS_AddElement
  <1>7. ASSUME from = "sent" PROVE Cardinality(OnTheWire') = Cardinality(OnTheWire) - 1
    BY <1>2, <1>3, <1>7, FS_RemoveElement
  <1> QED  BY <1>4, <1>5, <1>6, <1>7

(* A request that was pending stays pending or closes; none becomes so. *)
LEMMA PendingAfter ==
    ASSUME TypeOK, AskedOnce, NEW g \in Generations, NEW r \in Requests,
           NEW from \in Pending, NEW to \in Stages, Step(g, r, from, to)
    PROVE  AskedOnce'
  <1> SUFFICES ASSUME NEW h \in Generations
               PROVE  At(h, Pending)' \cap (known[h] \cup unroutable[h]) = {}
    BY DEF AskedOnce, Step, memos
  <1>1. At(h, Pending)' \subseteq At(h, Pending)
    BY StepChanges DEF At, Pending, Working
  <1> QED  BY <1>1 DEF AskedOnce

-----------------------------------------------------------------------------
(* The thread of a generation.                                             *)

LEMMA FindCachedKeeps ==
    ASSUME IInv, NEW g \in Generations, NEW r \in Requests, FindCached(g, r)
    PROVE  IInv'
  <1> USE DEF FindCached, tracker, limiters
  <1>1. TypeOK'  BY DEF IInv, TypeOK
  <1>2. BudgetHolds'  BY DEF IInv, BudgetHolds
  <1>3. \A h \in Generations :
           At(h, Admitted)' = At(h, Admitted) /\ At(h, Pending)' = At(h, Pending)
    BY DEF At, Admitted, Pending, Working
  <1>4. SlotsAccounted'
    BY <1>3 DEF IInv, SlotsAccounted, OnTheWire
  <1>5. AskedOnce'
    <2>1. r \notin At(g, Pending)  BY DEF At, Pending, Working
    <2>2. \A h \in Generations : known'[h] \subseteq IF h = g THEN known[h] \cup {r} ELSE known[h]
      BY DEF IInv, TypeOK
    <2> QED  BY <1>3, <2>1, <2>2 DEF IInv, AskedOnce
  <1> QED  BY <1>1, <1>2, <1>4, <1>5 DEF IInv

LEMMA PlanKeeps ==
    ASSUME IInv, NEW g \in Generations, NEW r \in Requests, Plan(g, r)
    PROVE  IInv'
  <1> USE DEF Plan, tracker, limiters
  <1>1. TypeOK'  BY DEF IInv, TypeOK, Askable, Stages
  <1>2. BudgetHolds'  BY DEF IInv, BudgetHolds
  <1>3. \A h \in Generations, S \in SUBSET Stages :
           At(h, S)' = IF h # g THEN At(h, S)
                       ELSE IF "planned" \in S THEN At(g, S) \cup {r} ELSE At(g, S) \ {r}
    <2>1. TypeOK /\ stage' = [stage EXCEPT ![g][r] = "planned"]  BY DEF IInv
    <2>2. "planned" \in Stages  BY DEF Stages
    <2> QED  BY <2>1, <2>2, Moves
  <1>4. \A h \in Generations : At(h, Admitted)' = At(h, Admitted)
    <2>1. "planned" \notin Admitted /\ "idle" \notin Admitted /\ Admitted \in SUBSET Stages
      BY DEF Admitted, Stages
    <2>2. r \notin At(g, Admitted)  BY <2>1 DEF At
    <2> QED  BY <1>3, <2>1, <2>2 DEF Admitted
  <1>5. OnTheWire' = OnTheWire
    <2>1. OnTheWire' = OnTheWire \ {<<g, r>>}  BY WireMoves DEF IInv, Stages
    <2> QED  BY <2>1 DEF OnTheWire
  <1>6. SlotsAccounted'
    BY <1>4, <1>5 DEF IInv, SlotsAccounted
  <1>7. AskedOnce'
    <2>1. r \notin known[g] \cup unroutable[g]  BY DEF IInv, TypeOK, Askable
    <2>2. \A h \in Generations : At(h, Pending)' = IF h = g THEN At(h, Pending) \cup {r} ELSE At(h, Pending)
      <3>1. "planned" \in Pending /\ Pending \in SUBSET Stages  BY DEF Pending, Working, Stages
      <3> QED  BY <1>3, <3>1
    <2> QED  BY <2>1, <2>2 DEF IInv, AskedOnce
  <1> QED  BY <1>1, <1>2, <1>6, <1>7 DEF IInv

LEMMA DispatchKeeps ==
    ASSUME IInv, NEW g \in Generations, Dispatch(g)
    PROVE  IInv'
  <1> USE DEF Dispatch, tracker, limiters, memos
  <1>1. TypeOK'  BY DEF IInv, TypeOK
  <1>2. \A h \in Generations :
           At(h, Admitted)' = At(h, Admitted) /\ At(h, Pending)' = At(h, Pending)
    BY DEF At, Admitted, Pending, Working
  <1> QED  BY <1>1, <1>2 DEF IInv, BudgetHolds, SlotsAccounted, OnTheWire, AskedOnce

LEMMA CollectKeeps ==
    ASSUME IInv, NEW g \in Generations, Collect(g)
    PROVE  IInv'
  <1> USE DEF Collect, tracker, limiters
  <1>1. TypeOK'  BY DEF IInv, TypeOK, Stages, Outcomes, At
  <1>2. BudgetHolds'  BY DEF IInv, BudgetHolds
  <1>3. \A h \in Generations, q \in Requests : stage'[h][q] = IF h = g THEN "idle" ELSE stage[h][q]
    BY DEF IInv, TypeOK
  <1>4. \A q \in Requests : stage[g][q] \in {"idle", "closed"}
    BY DEF IInv, TypeOK, At
  <1>5. \A h \in Generations : At(h, Admitted)' = At(h, Admitted)
    BY <1>3, <1>4 DEF At, Admitted
  <1>6. \A h \in Generations : At(h, Pending)' = At(h, Pending) /\ At(g, Pending) = {}
    BY <1>3, <1>4 DEF At, Pending, Working
  <1>7. OnTheWire' = OnTheWire
    BY <1>3, <1>4 DEF OnTheWire
  <1>8. SlotsAccounted'
    BY <1>5, <1>7 DEF IInv, SlotsAccounted
  <1>9. \A h \in Generations : h # g => known'[h] = known[h] /\ unroutable'[h] = unroutable[h]
    BY DEF IInv, TypeOK
  <1>10. AskedOnce'
    BY <1>6, <1>9 DEF IInv, AskedOnce
  <1> QED  BY <1>1, <1>2, <1>8, <1>10 DEF IInv

-----------------------------------------------------------------------------
(* The workers.                                                            *)

LEMMA RefuseKeeps ==
    ASSUME IInv, NEW g \in Generations, NEW r \in Requests, NEW from \in {"planned", "checked"},
           Refuse(g, r, from)
    PROVE  IInv'
  <1> USE DEF Refuse, tracker, limiters
  <1>1. TypeOK /\ Step(g, r, from, "closed") /\ from \in Stages /\ "closed" \in Stages
    BY DEF IInv, Stages
  <1>2. TypeOK'
    BY <1>1, StepChanges DEF IInv, TypeOK, Step, memos, Outcomes
  <1>3. BudgetHolds'
    BY DEF IInv, BudgetHolds
  <1>4. SlotsAccounted'
    <2>1. \A h \in Generations : At(h, Admitted)' = At(h, Admitted)
      BY <1>1, AdmittedAfter DEF Admitted
    <2>2. OnTheWire' = OnTheWire
      BY <1>1, WireAfter DEF IInv, SlotsAccounted
    <2> QED  BY <2>1, <2>2 DEF IInv, SlotsAccounted
  <1>5. AskedOnce'
    BY <1>1, PendingAfter DEF IInv, Pending, Working
  <1> QED  BY <1>2, <1>3, <1>4, <1>5 DEF IInv

LEMMA CheckKeeps ==
    ASSUME IInv, NEW g \in Generations, NEW r \in Requests, Check(g, r)
    PROVE  IInv'
  <1>1. CASE blocked
    BY <1>1, RefuseKeeps DEF Check
  <1>2. CASE ~blocked
    <2> USE DEF tracker, limiters
    <2>1. /\ TypeOK /\ Step(g, r, "planned", "checked")
          /\ "planned" \in Stages /\ "checked" \in Stages
          /\ UNCHANGED <<outcome, tracker, limiters, blocked>>
      BY <1>2 DEF IInv, Stages, Check
    <2>2. TypeOK'
      BY <2>1, StepChanges DEF IInv, TypeOK, Step, memos
    <2>3. BudgetHolds'
      BY <2>1 DEF IInv, BudgetHolds
    <2>4. SlotsAccounted'
      <3>1. \A h \in Generations : At(h, Admitted)' = At(h, Admitted)
        BY <2>1, AdmittedAfter DEF Admitted
      <3>2. OnTheWire' = OnTheWire
        BY <2>1, WireAfter DEF IInv, SlotsAccounted
      <3> QED  BY <2>1, <3>1, <3>2 DEF IInv, SlotsAccounted
    <2>5. AskedOnce'
      BY <2>1, PendingAfter DEF IInv, Pending, Working
    <2> QED  BY <2>2, <2>3, <2>4, <2>5 DEF IInv
  <1> QED  BY <1>1, <1>2

LEMMA ReserveKeeps ==
    ASSUME IInv, NEW g \in Generations, NEW r \in Requests, Reserve(g, r)
    PROVE  IInv'
  <1>1. CASE ~Affordable(g, Credits[r])
    BY <1>1, RefuseKeeps DEF Reserve
  <1>2. CASE Affordable(g, Credits[r])
    <2> USE DEF tracker, limiters
    <2>1. /\ TypeOK /\ Step(g, r, "checked", "reserved")
          /\ "checked" \in Stages /\ "reserved" \in Stages
          /\ reserved' = [reserved EXCEPT ![g] = @ + Credits[r]]
          /\ UNCHANGED <<outcome, spent, limiters, blocked>>
      BY <1>2 DEF IInv, Stages, Reserve
    <2>2. TypeOK'
      BY <2>1, StepChanges, ProviderRequestsAssumption DEF IInv, TypeOK, Step, memos
    <2>3. BudgetHolds'
      BY <1>2, <2>1, ProviderRequestsAssumption DEF IInv, TypeOK, BudgetHolds, Affordable
    <2>4. SlotsAccounted'
      <3>1. \A h \in Generations : At(h, Admitted)' = At(h, Admitted)
        BY <2>1, AdmittedAfter DEF Admitted
      <3>2. OnTheWire' = OnTheWire
        BY <2>1, WireAfter DEF IInv, SlotsAccounted
      <3> QED  BY <2>1, <3>1, <3>2 DEF IInv, SlotsAccounted
    <2>5. AskedOnce'
      BY <2>1, PendingAfter DEF IInv, Pending, Working
    <2> QED  BY <2>2, <2>3, <2>4, <2>5 DEF IInv
  <1> QED  BY <1>1, <1>2

LEMMA EnterGenerationKeeps ==
    ASSUME IInv, NEW g \in Generations, NEW r \in Requests, EnterGeneration(g, r)
    PROVE  IInv'
  <1> USE DEF tracker, limiters
  <1>1. /\ TypeOK /\ Step(g, r, "reserved", "admitted")
        /\ "reserved" \in Stages /\ "admitted" \in Stages
        /\ slots[g] > 0 /\ slots' = [slots EXCEPT ![g] = @ - 1]
        /\ UNCHANGED <<outcome, tracker, processSlots, blocked>>
    BY DEF IInv, Stages, EnterGeneration, Free
  <1>2. TypeOK'
    BY <1>1, StepChanges, ProviderRequestsAssumption DEF IInv, TypeOK, Step, memos
  <1>3. BudgetHolds'
    BY <1>1 DEF IInv, BudgetHolds
  <1>4. SlotsAccounted'
    <2>1. \A h \in Generations \ {g} : At(h, Admitted)' = At(h, Admitted)
      BY <1>1, AdmittedAfter
    <2>2. Cardinality(At(g, Admitted)') = Cardinality(At(g, Admitted)) + 1
      BY <1>1, AdmittedAfter DEF Admitted
    <2>3. OnTheWire' = OnTheWire
      BY <1>1, WireAfter DEF IInv, SlotsAccounted
    <2>4. \A h \in Generations : slots'[h] + Cardinality(At(h, Admitted)') = GenerationSlots
      <3>1. slots \in [Generations -> 0..GenerationSlots] /\ GenerationSlots \in Nat
        BY ProviderRequestsAssumption DEF IInv, TypeOK
      <3>2. slots'[g] = slots[g] - 1 /\ slots[g] \in Int
        BY <1>1, <3>1
      <3>3. \A h \in Generations \ {g} : slots'[h] = slots[h]
        BY <1>1, <3>1
      <3>4. \A h \in Generations : slots[h] + Cardinality(At(h, Admitted)) = GenerationSlots
        BY DEF IInv, SlotsAccounted
      <3>5. Cardinality(At(g, Admitted)) \in Nat
        BY AtFinite
      <3>6. slots'[g] + Cardinality(At(g, Admitted)') = GenerationSlots
        BY <2>2, <3>1, <3>2, <3>4, <3>5
      <3>7. \A h \in Generations \ {g} :
               slots'[h] + Cardinality(At(h, Admitted)') = GenerationSlots
        BY <2>1, <3>3, <3>4
      <3> QED  BY <3>6, <3>7
    <2> QED  BY <1>1, <2>3, <2>4 DEF IInv, SlotsAccounted
  <1>5. AskedOnce'
    BY <1>1, PendingAfter DEF IInv, Pending, Working
  <1> QED  BY <1>2, <1>3, <1>4, <1>5 DEF IInv

LEMMA SendKeeps ==
    ASSUME IInv, NEW g \in Generations, NEW r \in Requests, Send(g, r)
    PROVE  IInv'
  <1> USE DEF tracker, limiters
  <1>1. /\ TypeOK /\ Step(g, r, "admitted", "sent")
        /\ "admitted" \in Stages /\ "sent" \in Stages
        /\ processSlots > 0 /\ processSlots' = processSlots - 1
        /\ UNCHANGED <<outcome, tracker, slots, blocked>>
    BY DEF IInv, Stages, Send, Free
  <1>2. TypeOK'
    BY <1>1, StepChanges, ProviderRequestsAssumption DEF IInv, TypeOK, Step, memos
  <1>3. BudgetHolds'
    BY <1>1 DEF IInv, BudgetHolds
  <1>4. SlotsAccounted'
    <2>1. \A h \in Generations : At(h, Admitted)' = At(h, Admitted)
      BY <1>1, AdmittedAfter DEF Admitted
    <2>2. /\ IsFiniteSet(OnTheWire')
          /\ Cardinality(OnTheWire') = Cardinality(OnTheWire) + 1
      BY <1>1, WireAfter DEF IInv, SlotsAccounted
    <2>3. Cardinality(OnTheWire) \in Nat
      BY FS_CardinalityType DEF IInv, SlotsAccounted
    <2>4. processSlots' + Cardinality(OnTheWire') = ProcessSlots
      BY <1>1, <2>2, <2>3, ProviderRequestsAssumption DEF IInv, TypeOK, SlotsAccounted
    <2> QED  BY <1>1, <2>1, <2>2, <2>4 DEF IInv, SlotsAccounted
  <1>5. AskedOnce'
    BY <1>1, PendingAfter DEF IInv, Pending, Working
  <1> QED  BY <1>2, <1>3, <1>4, <1>5 DEF IInv

LEMMA AnswerKeeps ==
    ASSUME IInv, NEW g \in Generations, NEW r \in Requests, Answer(g, r)
    PROVE  IInv'
  <1> USE DEF tracker, limiters
  <1>1. PICK a \in Answers :
          /\ outcome' = [outcome EXCEPT ![g][r] = a]
          /\ processSlots' = processSlots + 1
    BY DEF Answer, GivenBack
  <1>2. /\ TypeOK /\ Step(g, r, "sent", "answered")
        /\ "sent" \in Stages /\ "answered" \in Stages
        /\ UNCHANGED <<tracker, slots, blocked>>
    BY DEF IInv, Stages, Answer
  <1>3. /\ IsFiniteSet(OnTheWire')
        /\ Cardinality(OnTheWire') = Cardinality(OnTheWire) - 1
    BY <1>2, WireAfter DEF IInv, SlotsAccounted
  <1>4. Cardinality(OnTheWire) \in Nat /\ Cardinality(OnTheWire') \in Nat
    BY <1>3, FS_CardinalityType DEF IInv, SlotsAccounted
  <1>5. processSlots \in Nat /\ ProcessSlots \in Nat
    BY ProviderRequestsAssumption DEF IInv, TypeOK
  <1>6. processSlots + Cardinality(OnTheWire) = ProcessSlots
    BY DEF IInv, SlotsAccounted
  <1>7. processSlots' + Cardinality(OnTheWire') = ProcessSlots /\ processSlots' \in 0..ProcessSlots
    BY <1>1, <1>3, <1>4, <1>5, <1>6
  <1>8. TypeOK'
    BY <1>1, <1>2, <1>7, StepChanges DEF IInv, TypeOK, Step, memos, Outcomes
  <1>9. BudgetHolds'
    BY <1>2 DEF IInv, BudgetHolds
  <1>10. SlotsAccounted'
    <2>1. \A h \in Generations : At(h, Admitted)' = At(h, Admitted)
      BY <1>2, AdmittedAfter DEF Admitted
    <2> QED  BY <1>2, <1>3, <1>7, <2>1 DEF IInv, SlotsAccounted
  <1>11. AskedOnce'
    BY <1>2, PendingAfter DEF IInv, Pending, Working
  <1> QED  BY <1>8, <1>9, <1>10, <1>11 DEF IInv

LEMMA LeaveGenerationKeeps ==
    ASSUME IInv, NEW g \in Generations, NEW r \in Requests, LeaveGeneration(g, r)
    PROVE  IInv'
  <1> USE DEF tracker, limiters
  <1>1. /\ TypeOK /\ Step(g, r, "answered", "returned")
        /\ "answered" \in Stages /\ "returned" \in Stages
        /\ slots' = [slots EXCEPT ![g] = @ + 1]
        /\ UNCHANGED <<outcome, tracker, processSlots, blocked>>
    BY DEF IInv, Stages, LeaveGeneration, GivenBack
  <1>2. \A h \in Generations \ {g} : At(h, Admitted)' = At(h, Admitted)
    BY <1>1, AdmittedAfter
  <1>3. Cardinality(At(g, Admitted)') = Cardinality(At(g, Admitted)) - 1
    BY <1>1, AdmittedAfter DEF Admitted
  <1>4. slots \in [Generations -> 0..GenerationSlots] /\ GenerationSlots \in Nat
    BY ProviderRequestsAssumption DEF IInv, TypeOK
  <1>5. \A h \in Generations : slots[h] + Cardinality(At(h, Admitted)) = GenerationSlots
    BY DEF IInv, SlotsAccounted
  <1>6. Cardinality(At(g, Admitted)) \in Nat /\ Cardinality(At(g, Admitted)') \in Nat
    BY AtFinite, AtPrimeFinite
  <1>7. slots'[g] = slots[g] + 1 /\ slots[g] \in Nat
    BY <1>1, <1>4
  <1>8. \A h \in Generations \ {g} : slots'[h] = slots[h]
    BY <1>1, <1>4
  <1>9. slots'[g] + Cardinality(At(g, Admitted)') = GenerationSlots /\ slots'[g] \in 0..GenerationSlots
    BY <1>3, <1>4, <1>5, <1>6, <1>7
  <1>10. slots' \in [Generations -> 0..GenerationSlots]
    BY <1>1, <1>4, <1>7, <1>9
  <1>11. TypeOK'
    BY <1>1, <1>10, StepChanges DEF IInv, TypeOK, Step, memos
  <1>12. BudgetHolds'
    BY <1>1 DEF IInv, BudgetHolds
  <1>13. SlotsAccounted'
    <2>1. \A h \in Generations : slots'[h] + Cardinality(At(h, Admitted)') = GenerationSlots
      <3>1. ASSUME NEW h \in Generations \ {g}
            PROVE  slots'[h] + Cardinality(At(h, Admitted)') = GenerationSlots
        BY <1>2, <1>5, <1>8
      <3> QED  BY <1>9, <3>1
    <2>2. OnTheWire' = OnTheWire
      BY <1>1, WireAfter DEF IInv, SlotsAccounted
    <2> QED  BY <1>1, <2>1, <2>2 DEF IInv, SlotsAccounted
  <1>14. AskedOnce'
    BY <1>1, PendingAfter DEF IInv, Pending, Working
  <1> QED  BY <1>11, <1>12, <1>13, <1>14 DEF IInv

LEMMA CloseKeeps ==
    ASSUME IInv, NEW g \in Generations, NEW r \in Requests, Close(g, r)
    PROVE  IInv'
  <1> USE DEF tracker, limiters
  <1>1. /\ TypeOK /\ Step(g, r, "returned", "closed")
        /\ "returned" \in Stages /\ "closed" \in Stages
        /\ blocked' \in BOOLEAN
        /\ reserved' = [reserved EXCEPT ![g] = @ - Credits[r]]
        /\ UNCHANGED <<outcome, limiters>>
    BY DEF IInv, TypeOK, Stages, Close, OpenAfter
  <1>2. Credits[r] \in Nat
    BY ProviderRequestsAssumption
  <1>3. PICK actual \in 0..Credits[r] : spent' = [spent EXCEPT ![g] = @ + actual]
    <2>1. CASE outcome[g][r] = "served"
      BY <2>1 DEF Close
    <2>2. CASE outcome[g][r] # "served"
      <3>1. spent' = [spent EXCEPT ![g] = @ + 0]
        BY <2>2 DEF Close
      <3>2. 0 \in 0..Credits[r]
        BY <1>2
      <3> QED  BY <3>1, <3>2
    <2> QED  BY <2>1, <2>2
  <1>4. reserved \in [Generations -> Int] /\ spent \in [Generations -> Nat]
    BY DEF IInv, TypeOK
  <1>5. reserved' \in [Generations -> Int] /\ spent' \in [Generations -> Nat]
    BY <1>1, <1>2, <1>3, <1>4
  <1>6. TypeOK'
    BY <1>1, <1>5, StepChanges DEF IInv, TypeOK, Step, memos
  <1>7. BudgetHolds'
    <2>1. Budget \in Nat
      BY ProviderRequestsAssumption
    <2>2. \A h \in Generations : spent[h] + reserved[h] <= Budget
      BY DEF IInv, BudgetHolds
    <2>3. spent'[g] + reserved'[g] <= Budget
      BY <1>1, <1>2, <1>3, <1>4, <2>1, <2>2
    <2>4. \A h \in Generations \ {g} : spent'[h] = spent[h] /\ reserved'[h] = reserved[h]
      BY <1>1, <1>3, <1>4
    <2> QED  BY <2>2, <2>3, <2>4 DEF BudgetHolds
  <1>8. SlotsAccounted'
    <2>1. \A h \in Generations : At(h, Admitted)' = At(h, Admitted)
      BY <1>1, AdmittedAfter DEF Admitted
    <2>2. OnTheWire' = OnTheWire
      BY <1>1, WireAfter DEF IInv, SlotsAccounted
    <2> QED  BY <1>1, <2>1, <2>2 DEF IInv, SlotsAccounted
  <1>9. AskedOnce'
    BY <1>1, PendingAfter DEF IInv, Pending, Working
  <1> QED  BY <1>6, <1>7, <1>8, <1>9 DEF IInv

-----------------------------------------------------------------------------
(* The invariant is inductive.                                             *)

LEMMA InitInvariant == Init => IInv
  <1> SUFFICES ASSUME Init PROVE IInv
    OBVIOUS
  <1>1. TypeOK
    <2>1. /\ Allowance \in Nat /\ GenerationSlots \in 0..GenerationSlots
          /\ ProcessSlots \in 0..ProcessSlots
      BY ProviderRequestsAssumption
    <2>2. "idle" \in Stages /\ "none" \in Outcomes
      BY DEF Stages, Outcomes
    <2>3. /\ phase \in [Generations -> {"planning", "fetching"}]
          /\ batches \in [Generations -> Nat]
          /\ blocked \in BOOLEAN
      BY DEF Init
    <2>4. /\ stage \in [Generations -> [Requests -> Stages]]
          /\ outcome \in [Generations -> [Requests -> Outcomes]]
      BY <2>2 DEF Init
    <2>5. /\ allowed \in [Generations -> Nat]
          /\ known \in [Generations -> SUBSET Routes]
          /\ unroutable \in [Generations -> SUBSET Routes]
      BY <2>1 DEF Init
    <2>6. /\ reserved \in [Generations -> Int]
          /\ spent \in [Generations -> Nat]
      BY DEF Init
    <2>7. /\ slots \in [Generations -> 0..GenerationSlots]
          /\ processSlots \in 0..ProcessSlots
      BY <2>1 DEF Init
    <2> QED  BY <2>3, <2>4, <2>5, <2>6, <2>7 DEF TypeOK
  <1>2. BudgetHolds
    BY ProviderRequestsAssumption DEF Init, BudgetHolds
  <1>3. SlotsAccounted
    <2>1. \A g \in Generations : At(g, Admitted) = {}
      BY DEF Init, At, Admitted
    <2>2. OnTheWire = {}
      BY DEF Init, OnTheWire
    <2>3. IsFiniteSet({}) /\ Cardinality({}) = 0
      BY FS_EmptySet
    <2>4. \A g \in Generations : Cardinality(At(g, Admitted)) = 0
      BY <2>1, <2>3
    <2>5. /\ \A g \in Generations : slots[g] = GenerationSlots
          /\ processSlots = ProcessSlots
          /\ GenerationSlots \in Nat /\ ProcessSlots \in Nat
      BY ProviderRequestsAssumption DEF Init
    <2>6. \A g \in Generations : slots[g] + Cardinality(At(g, Admitted)) = GenerationSlots
      BY <2>4, <2>5
    <2>7. IsFiniteSet(OnTheWire) /\ processSlots + Cardinality(OnTheWire) = ProcessSlots
      BY <2>2, <2>3, <2>5
    <2> QED  BY <2>6, <2>7 DEF SlotsAccounted
  <1>4. AskedOnce
    BY DEF Init, AskedOnce
  <1> QED  BY <1>1, <1>2, <1>3, <1>4 DEF IInv

LEMMA StepInvariant == IInv /\ [Next]_vars => IInv'
  <1> SUFFICES ASSUME IInv, [Next]_vars PROVE IInv'
    OBVIOUS
  <1>1. ASSUME NEW g \in Generations, NEW r \in Requests, Worker(g, r)
        PROVE  IInv'
    BY <1>1, CheckKeeps, ReserveKeeps, EnterGenerationKeeps, SendKeeps, AnswerKeeps,
       LeaveGenerationKeeps, CloseKeeps DEF Worker
  <1>2. ASSUME NEW g \in Generations, NEW r \in Requests, FindCached(g, r) \/ Plan(g, r)
        PROVE  IInv'
    BY <1>2, FindCachedKeeps, PlanKeeps
  <1>3. ASSUME NEW g \in Generations, Dispatch(g) \/ Collect(g)
        PROVE  IInv'
    BY <1>3, DispatchKeeps, CollectKeeps
  <1>4. CASE CoolDown \/ UNCHANGED vars
    <2>1. UNCHANGED <<phase, batches, stage, outcome, memos, tracker, limiters>> /\ blocked' \in BOOLEAN
      BY <1>4 DEF CoolDown, vars, IInv, TypeOK
    <2>2. TypeOK'
      BY <2>1 DEF IInv, TypeOK, memos, tracker, limiters
    <2>3. \A h \in Generations :
             At(h, Admitted)' = At(h, Admitted) /\ At(h, Pending)' = At(h, Pending)
      BY <2>1 DEF At, Admitted, Pending, Working
    <2>4. OnTheWire' = OnTheWire
      BY <2>1 DEF OnTheWire
    <2>5. (BudgetHolds /\ SlotsAccounted /\ AskedOnce)'
      BY <2>1, <2>3, <2>4 DEF IInv, BudgetHolds, SlotsAccounted, AskedOnce, memos, tracker, limiters
    <2> QED  BY <2>2, <2>5 DEF IInv
  <1> QED  BY <1>1, <1>2, <1>3, <1>4 DEF Next

(* The inductive invariant of the request pipeline: the wire, the slots, the *)
(* reservations and the budget of every generation, together.             *)
THEOREM InvariantHolds == Spec => []IInv
  <1> QED  BY InitInvariant, StepInvariant, PTL DEF Spec

-----------------------------------------------------------------------------
(* No generation, request, budget or slot counter ever leaves its type: in *)
(* particular no slot is given back twice (core/provider_usage.py).        *)
THEOREM TypeCorrect == Spec => []TypeOK
  <1>1. IInv => TypeOK  BY DEF IInv
  <1> QED  BY <1>1, InvariantHolds, PTL

(* What a generation has spent and has reserved stays within its budget,   *)
(* for any number of generations, requests, prices and workers.            *)
THEOREM BudgetIsKept == Spec => []BudgetHolds
  <1>1. IInv => BudgetHolds  BY DEF IInv
  <1> QED  BY <1>1, InvariantHolds, PTL

(* No more requests are on the wire than the limiters of a generation and  *)
(* of the process allow.                                                   *)
THEOREM WireLimitsHold == Spec => []WireWithinLimits
  <1>1. IInv => WireWithinLimits
    <2> SUFFICES ASSUME IInv PROVE WireWithinLimits
      OBVIOUS
    <2>1. ASSUME NEW g \in Generations
          PROVE  Cardinality(At(g, {"sent"})) <= GenerationSlots
      <3>1. At(g, {"sent"}) \subseteq At(g, Admitted)
        BY DEF At, Admitted
      <3>2. Cardinality(At(g, {"sent"})) <= Cardinality(At(g, Admitted))
        BY <3>1, AtFinite, FS_Subset
      <3>3. slots[g] \in Nat /\ GenerationSlots \in Nat
        BY ProviderRequestsAssumption DEF IInv, TypeOK
      <3>4. slots[g] + Cardinality(At(g, Admitted)) = GenerationSlots
        BY DEF IInv, SlotsAccounted
      <3> QED  BY <3>2, <3>3, <3>4, AtFinite
    <2>2. Cardinality(OnTheWire) <= ProcessSlots
      <3>1. processSlots \in Nat /\ ProcessSlots \in Nat
        BY ProviderRequestsAssumption DEF IInv, TypeOK
      <3>2. Cardinality(OnTheWire) \in Nat
        BY FS_CardinalityType DEF IInv, SlotsAccounted
      <3>3. processSlots + Cardinality(OnTheWire) = ProcessSlots
        BY DEF IInv, SlotsAccounted
      <3> QED  BY <3>1, <3>2, <3>3
    <2> QED  BY <2>1, <2>2 DEF WireWithinLimits
  <1> QED  BY <1>1, InvariantHolds, PTL

(* What the provider refused for good or delivered is not asked for again  *)
(* by the same generation (geoapify_adapter.py, _plan_sequence).           *)
THEOREM NeverAskedTwice == Spec => []NoSecondRequest
  <1>1. IInv => NoSecondRequest
    <2> SUFFICES ASSUME IInv, NEW g \in Generations
                 PROVE  At(g, Working) \cap (known[g] \cup unroutable[g]) = {}
      BY DEF NoSecondRequest
    <2>1. At(g, Working) \subseteq At(g, Pending)
      BY DEF At, Pending
    <2> QED  BY <2>1 DEF IInv, AskedOnce
  <1> QED  BY <1>1, InvariantHolds, PTL

-----------------------------------------------------------------------------
(* Reservations: the credits of the requests that are charged, counted.    *)

Units(r) == {r} \X (1..Credits[r])
UnitsOf(R) == UNION {Units(r) : r \in R}

\* the tracker's counter is exactly what the charged requests have reserved
ReservationsCounted ==
    \A g \in Generations :
        /\ IsFiniteSet(OpenCredits(g))
        /\ reserved[g] = Cardinality(OpenCredits(g))

LEMMA OpenCreditsAreUnits ==
    \A g : /\ OpenCredits(g) = UnitsOf(At(g, Charged))
           /\ OpenCredits(g)' = UnitsOf(At(g, Charged)')
  BY DEF OpenCredits, UnitsOf, Units

LEMMA UnitsCounted ==
    ASSUME NEW r \in Requests
    PROVE  IsFiniteSet(Units(r)) /\ Cardinality(Units(r)) = Credits[r]
  <1>1. Credits[r] \in Nat  BY ProviderRequestsAssumption
  <1>2. IsFiniteSet({r}) /\ Cardinality({r}) = 1  BY FS_Singleton
  <1>3. IsFiniteSet(1..Credits[r]) /\ Cardinality(1..Credits[r]) = Credits[r]
    <2>1. /\ IsFiniteSet(1..Credits[r])
          /\ Cardinality(1..Credits[r]) = IF 1 > Credits[r] THEN 0 ELSE Credits[r] - 1 + 1
      BY <1>1, FS_Interval
    <2> QED  BY <1>1, <2>1
  <1>4. /\ IsFiniteSet({r} \X (1..Credits[r]))
        /\ Cardinality({r} \X (1..Credits[r])) = Cardinality({r}) * Cardinality(1..Credits[r])
    BY <1>2, <1>3, FS_Product
  <1> QED  BY <1>1, <1>2, <1>3, <1>4 DEF Units

(* One more request reserves its own credits and no one else's. *)
LEMMA UnitsAdded ==
    ASSUME NEW R \in SUBSET Requests, IsFiniteSet(UnitsOf(R)), NEW r \in Requests \ R
    PROVE  /\ IsFiniteSet(UnitsOf(R \cup {r}))
           /\ Cardinality(UnitsOf(R \cup {r})) = Cardinality(UnitsOf(R)) + Credits[r]
  <1>1. UnitsOf(R \cup {r}) = UnitsOf(R) \cup Units(r)
    BY DEF UnitsOf
  <1>2. UnitsOf(R) \cap Units(r) = {}
    BY DEF UnitsOf, Units
  <1>3. IsFiniteSet(Units(r)) /\ Cardinality(Units(r)) = Credits[r]
    BY UnitsCounted
  <1>4. /\ IsFiniteSet(UnitsOf(R) \cup Units(r))
        /\ Cardinality(UnitsOf(R) \cup Units(r)) =
              Cardinality(UnitsOf(R)) + Cardinality(Units(r)) - Cardinality(UnitsOf(R) \cap Units(r))
    BY <1>3, FS_Union
  <1>5. Cardinality(UnitsOf(R)) \in Nat /\ Credits[r] \in Nat
    BY FS_CardinalityType, ProviderRequestsAssumption
  <1>6. Cardinality(UnitsOf(R) \cap Units(r)) = 0
    BY <1>2, FS_EmptySet
  <1>7. Cardinality(UnitsOf(R) \cup Units(r)) = Cardinality(UnitsOf(R)) + Credits[r]
    BY <1>3, <1>4, <1>5, <1>6
  <1> QED  BY <1>1, <1>4, <1>7

LEMMA UnitsRemoved ==
    ASSUME NEW R \in SUBSET Requests, IsFiniteSet(UnitsOf(R)), NEW r \in R
    PROVE  /\ IsFiniteSet(UnitsOf(R \ {r}))
           /\ Cardinality(UnitsOf(R \ {r})) = Cardinality(UnitsOf(R)) - Credits[r]
  <1>1. UnitsOf(R \ {r}) \subseteq UnitsOf(R)
    BY DEF UnitsOf
  <1>2. IsFiniteSet(UnitsOf(R \ {r}))
    BY <1>1, FS_Subset
  <1>3. R \ {r} \in SUBSET Requests /\ r \in Requests \ (R \ {r}) /\ (R \ {r}) \cup {r} = R
    OBVIOUS
  <1>4. Cardinality(UnitsOf(R)) = Cardinality(UnitsOf(R \ {r})) + Credits[r]
    BY <1>2, <1>3, UnitsAdded
  <1>5. Cardinality(UnitsOf(R \ {r})) \in Nat /\ Credits[r] \in Nat
    BY <1>2, <1>3, FS_CardinalityType, ProviderRequestsAssumption
  <1> QED  BY <1>2, <1>4, <1>5

(* A request that neither reserves nor closes leaves the charged ones as they are. *)
LEMMA ChargedAfter ==
    ASSUME TypeOK, NEW g \in Generations, NEW r \in Requests, NEW from \in Stages,
           NEW to \in Stages, Step(g, r, from, to)
    PROVE  /\ \A h \in Generations \ {g} : At(h, Charged)' = At(h, Charged)
           /\ (from \in Charged <=> to \in Charged) => At(g, Charged)' = At(g, Charged)
           /\ from \notin Charged /\ to \in Charged =>
                 r \notin At(g, Charged) /\ At(g, Charged)' = At(g, Charged) \cup {r}
           /\ from \in Charged /\ to \notin Charged =>
                 r \in At(g, Charged) /\ At(g, Charged)' = At(g, Charged) \ {r}
  <1>1. /\ \A h \in Generations, q \in Requests :
               stage'[h][q] = IF h = g /\ q = r THEN to ELSE stage[h][q]
        /\ stage[g][r] = from
    BY StepChanges
  <1>2. \A h \in Generations : /\ \A q : q \in At(h, Charged) <=> q \in Requests /\ stage[h][q] \in Charged
                               /\ \A q : q \in At(h, Charged)' <=> q \in Requests /\ stage'[h][q] \in Charged
    BY DEF At, Charged
  <1>3. \A h \in Generations \ {g} : At(h, Charged)' = At(h, Charged)
    BY <1>1, <1>2
  <1>4. (from \in Charged <=> to \in Charged) => At(g, Charged)' = At(g, Charged)
    BY <1>1, <1>2
  <1>5. from \notin Charged /\ to \in Charged =>
           r \notin At(g, Charged) /\ At(g, Charged)' = At(g, Charged) \cup {r}
    BY <1>1, <1>2
  <1>6. from \in Charged /\ to \notin Charged =>
           r \in At(g, Charged) /\ At(g, Charged)' = At(g, Charged) \ {r}
    BY <1>1, <1>2
  <1> QED  BY <1>3, <1>4, <1>5, <1>6

(* Nothing is counted anew when neither the counter nor the charged requests change. *)
LEMMA CountStays ==
    ASSUME ReservationsCounted, UNCHANGED reserved,
           \A g \in Generations : At(g, Charged)' = At(g, Charged)
    PROVE  ReservationsCounted'
  <1>1. \A g \in Generations : OpenCredits(g)' = OpenCredits(g)
    BY OpenCreditsAreUnits
  <1> QED  BY <1>1 DEF ReservationsCounted

LEMMA ReserveCounts ==
    ASSUME TypeOK, ReservationsCounted, NEW g \in Generations, NEW r \in Requests,
           Step(g, r, "checked", "reserved"),
           reserved' = [reserved EXCEPT ![g] = @ + Credits[r]]
    PROVE  ReservationsCounted'
  <1>1. /\ "checked" \in Stages \ Charged /\ "reserved" \in Stages /\ "reserved" \in Charged
    BY DEF Stages, Charged, Working
  <1>2. /\ \A h \in Generations \ {g} : At(h, Charged)' = At(h, Charged)
        /\ r \notin At(g, Charged)
        /\ At(g, Charged)' = At(g, Charged) \cup {r}
    BY <1>1, ChargedAfter
  <1>3. At(g, Charged) \in SUBSET Requests /\ r \in Requests \ At(g, Charged)
    BY <1>2 DEF At
  <1>4. /\ IsFiniteSet(UnitsOf(At(g, Charged)))
        /\ reserved[g] = Cardinality(UnitsOf(At(g, Charged)))
    BY OpenCreditsAreUnits DEF ReservationsCounted
  <1>5. /\ IsFiniteSet(UnitsOf(At(g, Charged)'))
        /\ Cardinality(UnitsOf(At(g, Charged)')) = Cardinality(UnitsOf(At(g, Charged))) + Credits[r]
    BY <1>2, <1>3, <1>4, UnitsAdded
  <1>6. /\ reserved'[g] = reserved[g] + Credits[r]
        /\ \A h \in Generations \ {g} : reserved'[h] = reserved[h]
    BY DEF TypeOK
  <1>7. IsFiniteSet(OpenCredits(g)') /\ reserved'[g] = Cardinality(OpenCredits(g)')
    BY <1>4, <1>5, <1>6, OpenCreditsAreUnits
  <1>8. \A h \in Generations \ {g} : OpenCredits(h)' = OpenCredits(h)
    BY <1>2, OpenCreditsAreUnits
  <1> QED  BY <1>6, <1>7, <1>8 DEF ReservationsCounted

LEMMA CloseCounts ==
    ASSUME TypeOK, ReservationsCounted, NEW g \in Generations, NEW r \in Requests,
           Close(g, r)
    PROVE  ReservationsCounted'
  <1>1. /\ "returned" \in Stages /\ "returned" \in Charged /\ "closed" \in Stages \ Charged
    BY DEF Stages, Charged, Working
  <1>2. /\ \A h \in Generations \ {g} : At(h, Charged)' = At(h, Charged)
        /\ r \in At(g, Charged)
        /\ At(g, Charged)' = At(g, Charged) \ {r}
    BY <1>1, ChargedAfter DEF Close
  <1>3. At(g, Charged) \in SUBSET Requests
    BY DEF At
  <1>4. /\ IsFiniteSet(UnitsOf(At(g, Charged)))
        /\ reserved[g] = Cardinality(UnitsOf(At(g, Charged)))
    BY OpenCreditsAreUnits DEF ReservationsCounted
  <1>5. /\ IsFiniteSet(UnitsOf(At(g, Charged)'))
        /\ Cardinality(UnitsOf(At(g, Charged)')) = Cardinality(UnitsOf(At(g, Charged))) - Credits[r]
    BY <1>2, <1>3, <1>4, UnitsRemoved
  <1>6. /\ reserved'[g] = reserved[g] - Credits[r]
        /\ \A h \in Generations \ {g} : reserved'[h] = reserved[h]
    BY DEF TypeOK, Close, OpenAfter
  <1>7. IsFiniteSet(OpenCredits(g)') /\ reserved'[g] = Cardinality(OpenCredits(g)')
    BY <1>4, <1>5, <1>6, OpenCreditsAreUnits
  <1>8. \A h \in Generations \ {g} : OpenCredits(h)' = OpenCredits(h)
    BY <1>2, OpenCreditsAreUnits
  <1> QED  BY <1>6, <1>7, <1>8 DEF ReservationsCounted

(* A worker's step that neither reserves nor closes. *)
LEMMA OtherStepCounts ==
    ASSUME TypeOK, ReservationsCounted, NEW g \in Generations, NEW r \in Requests,
           NEW from \in Stages, NEW to \in Stages, from \in Charged <=> to \in Charged,
           Step(g, r, from, to), UNCHANGED reserved
    PROVE  ReservationsCounted'
  <1>1. \A h \in Generations : At(h, Charged)' = At(h, Charged)
    BY ChargedAfter
  <1> QED  BY <1>1, CountStays

LEMMA WorkerCounts ==
    ASSUME TypeOK, ReservationsCounted, NEW g \in Generations, NEW r \in Requests, Worker(g, r)
    PROVE  ReservationsCounted'
  <1> USE DEF tracker
  <1>1. ASSUME NEW from \in {"planned", "checked"}, Refuse(g, r, from)
        PROVE  ReservationsCounted'
    <2>1. from \in Stages \ Charged /\ "closed" \in Stages \ Charged
      BY DEF Stages, Charged, Working
    <2> QED  BY <1>1, <2>1, OtherStepCounts DEF Refuse
  <1>2. ASSUME Check(g, r) PROVE ReservationsCounted'
    <2>1. "planned" \in Stages \ Charged /\ "checked" \in Stages \ Charged
      BY DEF Stages, Charged, Working
    <2>2. CASE blocked
      BY <1>1, <1>2, <2>2 DEF Check
    <2>3. CASE ~blocked
      BY <1>2, <2>1, <2>3, OtherStepCounts DEF Check
    <2> QED  BY <2>2, <2>3
  <1>3. ASSUME Reserve(g, r) PROVE ReservationsCounted'
    <2>1. CASE Affordable(g, Credits[r])
      BY <1>3, <2>1, ReserveCounts DEF Reserve
    <2>2. CASE ~Affordable(g, Credits[r])
      BY <1>1, <1>3, <2>2 DEF Reserve
    <2> QED  BY <2>1, <2>2
  <1>4. {"reserved", "admitted", "sent", "answered", "returned"} \subseteq Stages \cap Charged
    BY DEF Stages, Charged, Working
  <1>5. ASSUME EnterGeneration(g, r) PROVE ReservationsCounted'
    BY <1>4, <1>5, OtherStepCounts DEF EnterGeneration
  <1>6. ASSUME Send(g, r) PROVE ReservationsCounted'
    BY <1>4, <1>6, OtherStepCounts DEF Send
  <1>7. ASSUME Answer(g, r) PROVE ReservationsCounted'
    BY <1>4, <1>7, OtherStepCounts DEF Answer
  <1>8. ASSUME LeaveGeneration(g, r) PROVE ReservationsCounted'
    BY <1>4, <1>8, OtherStepCounts DEF LeaveGeneration
  <1> QED  BY <1>2, <1>3, <1>5, <1>6, <1>7, <1>8, CloseCounts DEF Worker

LEMMA CountInit == Init => ReservationsCounted
  <1> SUFFICES ASSUME Init, NEW g \in Generations
               PROVE  IsFiniteSet(OpenCredits(g)) /\ reserved[g] = Cardinality(OpenCredits(g))
    BY DEF ReservationsCounted
  <1>1. At(g, Charged) = {}
    BY DEF Init, At, Charged, Working
  <1>2. OpenCredits(g) = {}
    BY <1>1 DEF OpenCredits
  <1> QED  BY <1>2, FS_EmptySet DEF Init

LEMMA CountStep == TypeOK /\ ReservationsCounted /\ [Next]_vars => ReservationsCounted'
  <1> SUFFICES ASSUME TypeOK, ReservationsCounted, [Next]_vars PROVE ReservationsCounted'
    OBVIOUS
  <1> USE DEF tracker
  <1>1. ASSUME NEW g \in Generations, NEW r \in Requests, FindCached(g, r)
        PROVE  ReservationsCounted'
    <2>1. \A h \in Generations : At(h, Charged)' = At(h, Charged)
      BY <1>1 DEF FindCached, At, Charged
    <2> QED  BY <1>1, <2>1, CountStays DEF FindCached
  <1>2. ASSUME NEW g \in Generations, NEW r \in Requests, Plan(g, r)
        PROVE  ReservationsCounted'
    <2>1. \A h \in Generations, q \in Requests :
             stage'[h][q] = IF h = g /\ q = r THEN "planned" ELSE stage[h][q]
      BY <1>2 DEF Plan, TypeOK
    <2>2. stage[g][r] = "idle"  BY <1>2 DEF Plan
    <2>3. \A h \in Generations : At(h, Charged)' = At(h, Charged)
      BY <2>1, <2>2 DEF At, Charged, Working
    <2> QED  BY <1>2, <2>3, CountStays DEF Plan
  <1>3. ASSUME NEW g \in Generations, Dispatch(g)
        PROVE  ReservationsCounted'
    <2>1. \A h \in Generations : At(h, Charged)' = At(h, Charged)
      BY <1>3 DEF Dispatch, At, Charged
    <2> QED  BY <1>3, <2>1, CountStays DEF Dispatch
  <1>4. ASSUME NEW g \in Generations, Collect(g)
        PROVE  ReservationsCounted'
    <2>1. \A h \in Generations, q \in Requests : stage'[h][q] = IF h = g THEN "idle" ELSE stage[h][q]
      BY <1>4 DEF Collect, TypeOK
    <2>2. \A q \in Requests : stage[g][q] \in {"idle", "closed"}
      BY <1>4 DEF Collect, TypeOK, At
    <2>3. \A h \in Generations : At(h, Charged)' = At(h, Charged)
      BY <2>1, <2>2 DEF At, Charged, Working
    <2> QED  BY <1>4, <2>3, CountStays DEF Collect
  <1>5. CASE CoolDown \/ UNCHANGED vars
    <2>1. UNCHANGED <<stage, reserved>>
      BY <1>5 DEF CoolDown, vars
    <2>2. \A h \in Generations : At(h, Charged)' = At(h, Charged)
      BY <2>1 DEF At, Charged
    <2> QED  BY <2>1, <2>2, CountStays
  <1> QED  BY <1>1, <1>2, <1>3, <1>4, <1>5, WorkerCounts DEF Next

(* Every reserved credit belongs to a request that is still under way, so  *)
(* nothing a worker does leaks budget - for any prices and any             *)
(* interleaving of reservations and settlements (core/provider_usage.py).  *)
THEOREM NoReservationLeaks == Spec => []ReservationsAreOpen
  <1>1. IInv /\ ReservationsCounted /\ [Next]_vars => ReservationsCounted'
    BY CountStep DEF IInv
  <1>2. ReservationsCounted => ReservationsAreOpen
    BY DEF ReservationsCounted, ReservationsAreOpen
  <1> QED  BY <1>1, <1>2, CountInit, InvariantHolds, PTL DEF Spec

(* A generation none of whose requests is under way has nothing reserved:  *)
(* its whole remaining budget can be spent, and the counter is never       *)
(* negative (ProviderUsageTracker._reserved, settle and release).          *)
Quiet(g) == At(g, Charged) = {}
ReservedWhileCharged == \A g \in Generations : reserved[g] >= 0 /\ (Quiet(g) => reserved[g] = 0)

(* Once none of its requests is charged, a generation has nothing reserved. *)
THEOREM QuietMeansNothingReserved == Spec => []ReservedWhileCharged
  <1>1. ReservationsCounted => ReservedWhileCharged
    <2> SUFFICES ASSUME ReservationsCounted, NEW g \in Generations
                 PROVE  reserved[g] >= 0 /\ (Quiet(g) => reserved[g] = 0)
      BY DEF ReservedWhileCharged
    <2>1. reserved[g] \in Nat
      BY FS_CardinalityType DEF ReservationsCounted
    <2>2. ASSUME Quiet(g) PROVE reserved[g] = 0
      <3>1. OpenCredits(g) = {}
        BY <2>2 DEF OpenCredits, Quiet
      <3> QED  BY <3>1, FS_EmptySet DEF ReservationsCounted
    <2> QED  BY <2>1, <2>2
  <1>2. IInv /\ ReservationsCounted /\ [Next]_vars => ReservationsCounted'
    BY CountStep DEF IInv
  <1> QED  BY <1>1, <1>2, CountInit, InvariantHolds, PTL DEF Spec

-----------------------------------------------------------------------------
(* No deadlock over the two limiters.                                      *)

\* The guards of the worker's steps; the others of a stage have none.
CanStep(g, r) ==
    \/ stage[g][r] = "planned" /\ phase[g] = "fetching" /\ Cardinality(At(g, Working)) < Workers
    \/ stage[g][r] \in {"checked", "sent", "answered", "returned"}
    \/ stage[g][r] = "reserved" /\ Free(slots[g])
    \/ stage[g][r] = "admitted" /\ Free(processSlots)

(* While a generation waits for its batch, either every result is in or    *)
(* some worker can take its next step: requests that hold a slot of their  *)
(* generation and wait for one of the process never wait for each other    *)
(* (run_bounded over the two semaphores of core/provider_usage.py).        *)
SomeoneCanStep ==
    \A g \in Generations :
        phase[g] = "fetching" =>
            \/ At(g, Stages \ {"idle", "closed"}) = {}
            \/ \E h \in Generations, r \in Requests : CanStep(h, r)

(* As long as a request is under way some request has a step: the slots and *)
(* the budget never make all of them wait on each other.                    *)
THEOREM NoDeadlock == Spec => []SomeoneCanStep
  <1>1. IInv => SomeoneCanStep
    <2> SUFFICES ASSUME IInv, NEW g \in Generations, phase[g] = "fetching",
                        \A h \in Generations, r \in Requests : ~CanStep(h, r)
                 PROVE  At(g, Stages \ {"idle", "closed"}) = {}
      BY DEF SomeoneCanStep
    <2>1. \A h \in Generations, r \in Requests :
             stage[h][r] \in {"idle", "planned", "reserved", "admitted", "closed"}
      BY DEF CanStep, IInv, TypeOK, Stages
    <2>2. OnTheWire = {}
      BY <2>1 DEF OnTheWire
    <2>3. Free(processSlots)
      <3>1. Cardinality(OnTheWire) = 0
        BY <2>2, FS_EmptySet
      <3>2. processSlots + Cardinality(OnTheWire) = ProcessSlots /\ processSlots \in Nat
        BY ProviderRequestsAssumption DEF IInv, SlotsAccounted, TypeOK
      <3> QED  BY <3>1, <3>2, ProviderRequestsAssumption DEF Free
    <2>4. \A h \in Generations, r \in Requests : stage[h][r] # "admitted"
      BY <2>3 DEF CanStep
    <2>5. At(g, Admitted) = {}
      BY <2>1, <2>4 DEF At, Admitted
    <2>6. Free(slots[g])
      <3>1. Cardinality(At(g, Admitted)) = 0
        BY <2>5, FS_EmptySet
      <3>2. slots[g] + Cardinality(At(g, Admitted)) = GenerationSlots /\ slots[g] \in Nat
        BY ProviderRequestsAssumption DEF IInv, SlotsAccounted, TypeOK
      <3> QED  BY <3>1, <3>2, ProviderRequestsAssumption DEF Free
    <2>7. \A r \in Requests : stage[g][r] \in {"idle", "planned", "closed"}
      BY <2>1, <2>4, <2>6 DEF CanStep
    <2>8. At(g, Working) = {}
      BY <2>7 DEF At, Working
    <2>9. Cardinality(At(g, Working)) < Workers
      <3>1. Cardinality(At(g, Working)) = 0
        BY <2>8, FS_EmptySet
      <3> QED  BY <3>1, ProviderRequestsAssumption
    <2>10. \A r \in Requests : stage[g][r] # "planned"
      BY <2>9 DEF CanStep
    <2> QED  BY <2>7, <2>10 DEF At
  <1> QED  BY <1>1, InvariantHolds, PTL

-----------------------------------------------------------------------------
(* A batch is a bounded number of steps.                                   *)

\* the steps a request at a stage may still take
StepsLeft == [s \in Stages |->
    CASE s = "planned" -> 7 [] s = "checked" -> 6 [] s = "reserved" -> 5 [] s = "admitted" -> 4
      [] s = "sent" -> 3 [] s = "answered" -> 2 [] s = "returned" -> 1 [] OTHER -> 0]

WorkLeft(g) == UNION {{r} \X (1..StepsLeft[stage[g][r]]) : r \in Requests}

(* Every step of a worker uses up some of the work its batch has left, and *)
(* until the batch is collected nothing adds to it: a batch ends after at  *)
(* most seven steps for each of its requests (run_bounded submits a batch  *)
(* once; no request is retried within it).                                 *)
BatchOnlyShrinks ==
    [][\A g \in Generations :
         phase[g] = "fetching" =>
            /\ WorkLeft(g)' \subseteq WorkLeft(g)
            /\ stage'[g] # stage[g] /\ phase'[g] = "fetching" => WorkLeft(g)' # WorkLeft(g)]_vars

LEMMA StepsLeftValues ==
    /\ StepsLeft["idle"] = 0 /\ StepsLeft["planned"] = 7 /\ StepsLeft["checked"] = 6
    /\ StepsLeft["reserved"] = 5 /\ StepsLeft["admitted"] = 4 /\ StepsLeft["sent"] = 3
    /\ StepsLeft["answered"] = 2 /\ StepsLeft["returned"] = 1 /\ StepsLeft["closed"] = 0
  BY DEF StepsLeft, Stages

LEMMA WorkerUsesAStep ==
    ASSUME TypeOK, NEW g \in Generations, NEW r \in Requests, Worker(g, r)
    PROVE  \E to \in Stages : /\ stage' = [stage EXCEPT ![g][r] = to]
                              /\ phase' = phase
                              /\ StepsLeft[to] \in Nat
                              /\ StepsLeft[stage[g][r]] \in Nat
                              /\ StepsLeft[to] < StepsLeft[stage[g][r]]
  <1>1. PICK from \in Stages, to \in Stages :
           Step(g, r, from, to) /\ StepsLeft[to] \in Nat /\ StepsLeft[from] \in Nat
           /\ StepsLeft[to] < StepsLeft[from]
    <2>1. CASE Check(g, r)
      <3>1. Step(g, r, "planned", "checked") \/ Step(g, r, "planned", "closed")
        BY <2>1 DEF Check, Refuse
      <3> QED  BY <3>1, StepsLeftValues DEF Stages
    <2>2. CASE Reserve(g, r)
      <3>1. Step(g, r, "checked", "reserved") \/ Step(g, r, "checked", "closed")
        BY <2>2 DEF Reserve, Refuse
      <3> QED  BY <3>1, StepsLeftValues DEF Stages
    <2>3. CASE EnterGeneration(g, r)
      <3>1. Step(g, r, "reserved", "admitted")  BY <2>3 DEF EnterGeneration
      <3> QED  BY <3>1, StepsLeftValues DEF Stages
    <2>4. CASE Send(g, r)
      <3>1. Step(g, r, "admitted", "sent")  BY <2>4 DEF Send
      <3> QED  BY <3>1, StepsLeftValues DEF Stages
    <2>5. CASE Answer(g, r)
      <3>1. Step(g, r, "sent", "answered")  BY <2>5 DEF Answer
      <3> QED  BY <3>1, StepsLeftValues DEF Stages
    <2>6. CASE LeaveGeneration(g, r)
      <3>1. Step(g, r, "answered", "returned")  BY <2>6 DEF LeaveGeneration
      <3> QED  BY <3>1, StepsLeftValues DEF Stages
    <2>7. CASE Close(g, r)
      <3>1. Step(g, r, "returned", "closed")  BY <2>7 DEF Close
      <3> QED  BY <3>1, StepsLeftValues DEF Stages
    <2> QED  BY <2>1, <2>2, <2>3, <2>4, <2>5, <2>6, <2>7 DEF Worker
  <1> QED  BY <1>1 DEF Step

LEMMA WorkUnits ==
    ASSUME NEW g
    PROVE  /\ \A r, n : <<r, n>> \in WorkLeft(g) <=> r \in Requests /\ n \in 1..StepsLeft[stage[g][r]]
           /\ \A r, n : <<r, n>> \in WorkLeft(g)' <=> r \in Requests /\ n \in 1..StepsLeft[stage'[g][r]]
           /\ \A x \in WorkLeft(g)' : \E r \in Requests : \E n \in 1..StepsLeft[stage'[g][r]] : x = <<r, n>>
  <1>1. \A r, n : <<r, n>> \in WorkLeft(g) <=> r \in Requests /\ n \in 1..StepsLeft[stage[g][r]]
    BY DEF WorkLeft
  <1>2. WorkLeft(g)' = UNION {{r} \X (1..StepsLeft[stage'[g][r]]) : r \in Requests}
    BY DEF WorkLeft
  <1>3. \A r, n : <<r, n>> \in WorkLeft(g)' <=> r \in Requests /\ n \in 1..StepsLeft[stage'[g][r]]
    BY <1>2
  <1>4. ASSUME NEW x \in WorkLeft(g)'
        PROVE  \E r \in Requests : \E n \in 1..StepsLeft[stage'[g][r]] : x = <<r, n>>
    <2>1. PICK r \in Requests : x \in {r} \X (1..StepsLeft[stage'[g][r]])
      BY <1>2
    <2>2. PICK n \in 1..StepsLeft[stage'[g][r]] : x = <<r, n>>
      BY <2>1
    <2> QED  BY <2>2
  <1> QED  BY <1>1, <1>3, <1>4

(* At most seven steps for each request, whatever it goes through. *)
LEMMA WorkIsBounded ==
    ASSUME TypeOK, NEW g \in Generations
    PROVE  WorkLeft(g) \subseteq Requests \X (1..7)
  <1>1. \A s \in Stages : StepsLeft[s] \in 0..7
    BY StepsLeftValues DEF Stages
  <1>2. \A r \in Requests : StepsLeft[stage[g][r]] \in 0..7
    BY <1>1 DEF TypeOK
  <1>3. \A r \in Requests : 1..StepsLeft[stage[g][r]] \subseteq 1..7
    BY <1>2
  <1> QED  BY <1>3 DEF WorkLeft

LEMMA WorkShrinks ==
    ASSUME TypeOK, NEW g \in Generations, phase[g] = "fetching", Next
    PROVE  /\ WorkLeft(g)' \subseteq WorkLeft(g)
           /\ stage'[g] # stage[g] /\ phase'[g] = "fetching" => WorkLeft(g)' # WorkLeft(g)
  <1>1. ASSUME stage'[g] = stage[g]
        PROVE  WorkLeft(g)' = WorkLeft(g)
    BY <1>1 DEF WorkLeft
  <1>2. ASSUME NEW h \in Generations, NEW r \in Requests, Worker(h, r)
        PROVE  /\ WorkLeft(g)' \subseteq WorkLeft(g)
               /\ stage'[g] # stage[g] => WorkLeft(g)' # WorkLeft(g)
    <2>1. PICK to \in Stages : /\ stage' = [stage EXCEPT ![h][r] = to]
                               /\ StepsLeft[to] \in Nat
                               /\ StepsLeft[stage[h][r]] \in Nat
                               /\ StepsLeft[to] < StepsLeft[stage[h][r]]
      BY <1>2, WorkerUsesAStep
    <2>2. CASE h # g
      <3>1. stage'[g] = stage[g]
        BY <2>1, <2>2 DEF TypeOK
      <3> QED  BY <1>1, <3>1
    <2>3. CASE h = g
      <3>1. /\ stage'[g][r] = to
            /\ \A q \in Requests \ {r} : stage'[g][q] = stage[g][q]
        BY <2>1, <2>3 DEF TypeOK
      <3>2. WorkLeft(g)' \subseteq WorkLeft(g)
        <4> SUFFICES ASSUME NEW q \in Requests, NEW n \in 1..StepsLeft[stage'[g][q]]
                     PROVE  <<q, n>> \in WorkLeft(g)
          BY WorkUnits
        <4>1. n \in 1..StepsLeft[stage[g][q]]
          <5>1. CASE q = r
            BY <2>1, <2>3, <3>1, <5>1
          <5>2. CASE q # r
            BY <3>1, <5>2
          <5> QED  BY <5>1, <5>2
        <4> QED  BY <4>1, WorkUnits
      <3>3. StepsLeft[stage[g][r]] \in 1..StepsLeft[stage[g][r]]
        BY <2>1, <2>3
      <3>4. StepsLeft[stage[g][r]] \notin 1..StepsLeft[stage'[g][r]]
        BY <2>1, <2>3, <3>1
      <3>5. <<r, StepsLeft[stage[g][r]]>> \in WorkLeft(g)
        BY <3>3, WorkUnits
      <3>6. <<r, StepsLeft[stage[g][r]]>> \notin WorkLeft(g)'
        BY <3>4, WorkUnits
      <3> QED  BY <3>2, <3>5, <3>6
    <2> QED  BY <2>2, <2>3
  <1>3. ASSUME NEW h \in Generations, NEW r \in Requests, FindCached(h, r) \/ Plan(h, r)
        PROVE  stage'[g] = stage[g]
    <2>1. h # g
      BY <1>3 DEF FindCached, Plan
    <2> QED  BY <1>3, <2>1 DEF FindCached, Plan, TypeOK
  <1>4. ASSUME NEW h \in Generations, Dispatch(h)
        PROVE  stage'[g] = stage[g]
    BY <1>4 DEF Dispatch
  <1>5. ASSUME NEW h \in Generations, Collect(h)
        PROVE  /\ WorkLeft(g)' \subseteq WorkLeft(g)
               /\ stage'[g] # stage[g] => phase'[g] # "fetching"
    <2>1. CASE h = g
      <3>1. \A q \in Requests : stage'[g][q] = "idle"
        BY <1>5, <2>1 DEF Collect, TypeOK
      <3>2. phase'[g] # "fetching"
        BY <1>5, <2>1 DEF Collect, TypeOK
      <3>3. \A q \in Requests : 1..StepsLeft[stage'[g][q]] = {}
        BY <3>1, StepsLeftValues
      <3>4. WorkLeft(g)' \subseteq WorkLeft(g)
        BY <3>3, WorkUnits
      <3> QED  BY <3>2, <3>4
    <2>2. CASE h # g
      <3>1. stage'[g] = stage[g]
        BY <1>5, <2>2 DEF Collect, TypeOK
      <3> QED  BY <1>1, <3>1
    <2> QED  BY <2>1, <2>2
  <1>6. ASSUME CoolDown
        PROVE  stage'[g] = stage[g]
    BY <1>6 DEF CoolDown
  <1> QED  BY <1>1, <1>2, <1>3, <1>4, <1>5, <1>6 DEF Next

(* Steps of the requests of a batch use up what is left of it, and nothing  *)
(* else gives any of it back.                                               *)
THEOREM BatchesShrink == Spec => BatchOnlyShrinks
  <1>1. IInv /\ [Next]_vars =>
          [\A g \in Generations :
             phase[g] = "fetching" =>
                /\ WorkLeft(g)' \subseteq WorkLeft(g)
                /\ stage'[g] # stage[g] /\ phase'[g] = "fetching" => WorkLeft(g)' # WorkLeft(g)]_vars
    BY WorkShrinks DEF IInv
  <1> QED  BY <1>1, InvariantHolds, PTL DEF Spec, BatchOnlyShrinks

=============================================================================
