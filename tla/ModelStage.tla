------------------------------ MODULE ModelStage ------------------------------
(***************************************************************************)
(* The generation-time model stages and the health record they share       *)
(* (providers/llm_provider_health.py, llm_provider_router.py,              *)
(* ai_stage_budget.py and the adapters that drive them).                   *)
(*                                                                         *)
(* Several stages run at once, on the worker threads of different          *)
(* generations.  A stage asks its route which provider its request goes    *)
(* to, sends it, and records how it ended in a registry every stage of the *)
(* process shares.  The registry's lock is held for one read or one write  *)
(* and never across a request, so each of those is a step of its own here: *)
(* what a stage read of a provider may be stale when it uses it.           *)
(*                                                                         *)
(* Clocks are abstracted to the moments the code can tell apart: a         *)
(* cooldown ends (Cool), a quota window ends (Refill), and wherever the    *)
(* code looks at the stage's wall-clock budget it may find it spent, which *)
(* always ends the stage.                                                  *)
(***************************************************************************)
EXTENDS Naturals, Sequences, FiniteSets

CONSTANTS
    Stage,             \* stage runs
    Provider,          \* the Groq <-> Gemini pair
    Nobody,            \* no provider
    SelfRetrying,      \* stages with a structural retry of their own (anchor, narrator)
    CountedQuota,      \* providers whose quota is estimated from own counters (Gemini)
    Deployments,       \* the provider orders a configuration may give the stages
    TransportRetries   \* GROQ_MAX_RETRIES

ASSUME StageAssumption ==
    /\ Nobody \notin Provider
    /\ SelfRetrying \subseteq Stage
    /\ CountedQuota \subseteq Provider
    /\ TransportRetries \in 0..2
    /\ \A d \in Deployments : /\ d \in [Stage -> Seq(Provider)]
                              /\ \A s \in Stage : /\ Len(d[s]) \in 1..2
                                                  /\ Len(d[s]) = 2 =>
                                                        /\ d[s][1] # d[s][2]
                                                        /\ Provider = {d[s][1], d[s][2]}

VARIABLES
    circuit,   \* open_until: none, ahead, past, infinite
    slot,      \* probe_in_flight
    drained,   \* the remaining quota is at or under the reserve
    chain,     \* StageRoute.chain, fixed by the configuration
    pc,        \* where the stage is
    current,   \* the provider of the stage's present request
    seen,      \* the provider states the stage has read for its present choice
    probing,   \* StageRoute._probing
    log,       \* StageRoute.attempts
    attempts,  \* StageRun.attempts
    retried,   \* the recoveries made: structural, transport, failover
    verdict    \* the health kind of the last transport failure

registry == <<circuit, slot, drained>>
choice == <<current, seen, probing>>
record == <<log, attempts, retried>>
vars == <<registry, chain, pc, choice, record, verdict>>

States == {"healthy", "draining", "open", "half_open"}
\* rate limit; 5xx, timeout, network; unrecognized 4xx; rejected credentials; no verdict
Kinds == {"rate_limit", "outage", "unknown", "authentication", "none"}
Results == {"success", "structural", "transport", "deadline"}
Recoveries == {"structural", "transport", "failover"}
Phases == {"idle", "reading", "refused", "sending", "in_flight", "failed",
           "malformed", "weighing", "closing", "done"}

TypeOK ==
    /\ circuit \in [Provider -> {"closed", "open", "cooled", "rejected"}]
    /\ slot \in [Provider -> BOOLEAN]
    /\ drained \in [Provider -> BOOLEAN]
    /\ chain \in Deployments
    /\ pc \in [Stage -> Phases]
    /\ current \in [Stage -> Provider \cup {Nobody}]
    /\ seen \in [Stage -> [Provider -> States \cup {"unread"}]]
    /\ probing \in [Stage -> SUBSET Provider]
    /\ log \in [Stage -> Seq([provider : Provider, result : Results])]
    /\ attempts \in [Stage -> Nat]
    /\ retried \in [Stage -> [Recoveries -> Nat]]
    /\ verdict \in [Stage -> Kinds]

-----------------------------------------------------------------------------
(* The registry.                                                           *)

State(p) ==
    CASE circuit[p] \in {"open", "rejected"} -> "open"
      [] circuit[p] = "cooled" -> "half_open"
      [] circuit[p] = "closed" /\ drained[p] -> "draining"
      [] OTHER -> "healthy"

ProbeFree(p) == State(p) = "half_open" /\ ~slot[p]

\* try_acquire_probe, and the stage's own note of it
AcquireProbe(s, p) ==
    /\ ProbeFree(p)
    /\ slot' = [slot EXCEPT ![p] = TRUE]
    /\ probing' = [probing EXCEPT ![s] = @ \cup {p}]

NoProbe == UNCHANGED <<slot, probing>>

\* record_transport_success: quota headers may set or clear DRAINING, the
\* process's own counters only ever count up here.
RecordSuccess(p) ==
    /\ circuit' = [circuit EXCEPT ![p] = "closed"]
    /\ slot' = [slot EXCEPT ![p] = FALSE]
    /\ \E d \in IF p \in CountedQuota THEN {drained[p], TRUE} ELSE BOOLEAN :
          drained' = [drained EXCEPT ![p] = d]

\* mutant of RecordFailure: opening the circuit keeps the probe slot taken
MutRecordFailure(p, kind) ==
    /\ circuit' = CASE kind = "none" -> circuit
                    [] kind = "authentication" -> [circuit EXCEPT ![p] = "rejected"]
                    [] OTHER -> [circuit EXCEPT ![p] = "open"]
    /\ slot' = [slot EXCEPT ![p] = @ /\ kind # "none"]
    /\ UNCHANGED drained

\* record_failure: no verdict only returns the slot, whoever holds it
RecordFailure(p, kind) ==
    /\ circuit' = CASE kind = "none" -> circuit
                    [] kind = "authentication" -> [circuit EXCEPT ![p] = "rejected"]
                    [] OTHER -> [circuit EXCEPT ![p] = "open"]
    /\ slot' = [slot EXCEPT ![p] = FALSE]
    /\ UNCHANGED drained

\* the cooldown of an open circuit is over
Cool(p) ==
    /\ circuit[p] = "open"
    /\ circuit' = [circuit EXCEPT ![p] = "cooled"]
    /\ UNCHANGED <<slot, drained, chain, pc, choice, record, verdict>>

\* the quota window behind DRAINING ends
Refill(p) ==
    /\ drained[p]
    /\ drained' = [drained EXCEPT ![p] = FALSE]
    /\ UNCHANGED <<circuit, slot, chain, pc, choice, record, verdict>>

-----------------------------------------------------------------------------
(* The stage's budget.                                                     *)

Routed(s) == Len(chain[s]) = 2
Other(s, p) == CHOOSE q \in {chain[s][1], chain[s][2]} : q # p
Asked(s) == {log[s][i].provider : i \in DOMAIN log[s]}

Allowed(s, recovery) ==
    CASE recovery = "structural" -> IF s \in SelfRetrying THEN 1 ELSE 0
      [] recovery = "transport" -> TransportRetries
      [] OTHER -> IF Routed(s) THEN 1 ELSE 0

\* max_attempts: one attempt plus the largest of the recoveries, two if routed
MaxAttempts(s) ==
    IF Routed(s) THEN 2
    ELSE IF Allowed(s, "structural") > TransportRetries THEN 2 ELSE 1 + TransportRetries

\* mutant of MayRecover: each kind of recovery has an allowance of its own
MutMayRecover(s, recovery) == retried[s][recovery] < Allowed(s, recovery)

MayRecover(s, recovery) ==
    /\ retried[s][recovery] < Allowed(s, recovery)
    /\ attempts[s] < MaxAttempts(s)

Unread == [p \in Provider |-> "unread"]

Select(s, p) ==
    /\ current' = [current EXCEPT ![s] = p]
    /\ seen' = [seen EXCEPT ![s] = Unread]
    /\ pc' = [pc EXCEPT ![s] = "sending"]

\* allow_failover, allow_structural_retry, allow_transport_retry say yes
Recover(s, recovery, p) ==
    /\ MayRecover(s, recovery)
    /\ retried' = [retried EXCEPT ![s][recovery] = @ + 1]
    /\ Select(s, p)

Init ==
    /\ circuit = [p \in Provider |-> "closed"]
    /\ slot = [p \in Provider |-> FALSE]
    /\ drained = [p \in Provider |-> FALSE]
    /\ chain \in Deployments
    /\ pc = [s \in Stage |-> "idle"]
    /\ current = [s \in Stage |-> Nobody]
    /\ seen = [s \in Stage |-> [p \in Provider |-> "unread"]]
    /\ probing = [s \in Stage |-> {}]
    /\ log = [s \in Stage |-> <<>>]
    /\ attempts = [s \in Stage |-> 0]
    /\ retried = [s \in Stage |-> [r \in Recoveries |-> 0]]
    /\ verdict = [s \in Stage |-> "none"]

-----------------------------------------------------------------------------
(* First request (StageRoute.first_provider): the two states are read one  *)
(* after the other, then the preferred provider is tried, then the rest.   *)

Start(s) ==
    /\ pc[s] = "idle"
    /\ IF Routed(s)
       THEN pc' = [pc EXCEPT ![s] = "reading"] /\ UNCHANGED current
       ELSE /\ pc' = [pc EXCEPT ![s] = "sending"]
            /\ current' = [current EXCEPT ![s] = chain[s][1]]
    /\ UNCHANGED <<registry, chain, seen, probing, record, verdict>>

Read(s, p) ==
    /\ pc[s] = "reading"
    /\ seen[s][p] = "unread"
    /\ p = chain[s][1] \/ seen[s][chain[s][1]] # "unread"
    /\ seen' = [seen EXCEPT ![s][p] = State(p)]
    /\ UNCHANGED <<registry, chain, pc, current, probing, record, verdict>>

PickPreferred(s) ==
    LET preferred == chain[s][1] IN
    /\ pc[s] = "reading"
    /\ \A p \in Provider : seen[s][p] # "unread"
    /\ \/ seen[s][preferred] = "healthy" /\ NoProbe /\ Select(s, preferred)
       \/ seen[s][preferred] = "half_open" /\ AcquireProbe(s, preferred) /\ Select(s, preferred)
       \/ /\ seen[s][preferred] # "healthy"
          /\ ~(seen[s][preferred] = "half_open" /\ ProbeFree(preferred))
          /\ pc' = [pc EXCEPT ![s] = "refused"]
          /\ NoProbe /\ UNCHANGED <<current, seen>>
    /\ UNCHANGED <<circuit, drained, chain, record, verdict>>

\* mutant of PickAmongRest: only the preferred provider is ever probed
MutPickAmongRest(s) ==
    LET preferred == chain[s][1]
        other == chain[s][2]
        draining == seen[s][preferred] = "draining"
    IN
    /\ pc[s] = "refused"
    /\ \/ seen[s][other] = "healthy" /\ NoProbe /\ Select(s, other)
       \/ seen[s][other] # "healthy" /\ draining /\ NoProbe /\ Select(s, preferred)
       \/ ~draining /\ seen[s][other] = "draining" /\ NoProbe /\ Select(s, other)
       \/ /\ ~draining
          /\ seen[s][other] \in {"open", "half_open"}
          /\ pc' = [pc EXCEPT ![s] = "closing"]
          /\ NoProbe /\ UNCHANGED <<current, seen>>
    /\ UNCHANGED <<circuit, drained, chain, record, verdict>>

PickAmongRest(s) ==
    LET preferred == chain[s][1]
        other == chain[s][2]
        draining == seen[s][preferred] = "draining"
    IN
    /\ pc[s] = "refused"
    /\ \/ seen[s][other] = "healthy" /\ NoProbe /\ Select(s, other)
       \/ seen[s][other] # "healthy" /\ draining /\ NoProbe /\ Select(s, preferred)
       \/ ~draining /\ seen[s][other] = "draining" /\ NoProbe /\ Select(s, other)
       \/ ~draining /\ seen[s][other] = "half_open" /\ AcquireProbe(s, other) /\ Select(s, other)
       \/ /\ ~draining
          /\ \/ seen[s][other] = "open"
             \/ seen[s][other] = "half_open" /\ ~ProbeFree(other)
          /\ pc' = [pc EXCEPT ![s] = "closing"]
          /\ NoProbe /\ UNCHANGED <<current, seen>>
    /\ UNCHANGED <<circuit, drained, chain, record, verdict>>

-----------------------------------------------------------------------------
(* A request: the adapters' loop body.                                     *)

Send(s) ==
    LET p == current[s] IN
    /\ pc[s] = "sending"
    /\ attempts' = [attempts EXCEPT ![s] = @ + 1]
    /\ \E d \in IF p \in CountedQuota THEN {drained[p], TRUE} ELSE {drained[p]} :
          drained' = [drained EXCEPT ![p] = d]
    /\ pc' = [pc EXCEPT ![s] = "in_flight"]
    /\ UNCHANGED <<circuit, slot, chain, choice, log, retried, verdict>>

\* mutant of GiveUp: a client that was never built takes an attempt back
MutGiveUp(s) ==
    /\ pc[s] = "sending"
    /\ pc' = [pc EXCEPT ![s] = "closing"]
    /\ attempts' = [attempts EXCEPT ![s] = @ - 1]
    /\ UNCHANGED <<registry, chain, choice, log, retried, verdict>>

\* no time left for another request, or no client could be built for it
GiveUp(s) ==
    /\ pc[s] = "sending"
    /\ pc' = [pc EXCEPT ![s] = "closing"]
    /\ UNCHANGED <<registry, chain, choice, record, verdict>>

\* _note
Note(s, result) ==
    /\ log' = [log EXCEPT ![s] = Append(@, [provider |-> current[s], result |-> result])]
    /\ UNCHANGED <<attempts, retried>>

\* record_answer, and record_exception for an answer outside the schema: the
\* provider did answer
Answered(s, result) ==
    /\ pc[s] = "in_flight"
    /\ RecordSuccess(current[s])
    /\ Note(s, result)
    /\ probing' = [probing EXCEPT ![s] = @ \ {current[s]}]
    /\ pc' = [pc EXCEPT ![s] = IF result = "success" THEN "closing" ELSE "malformed"]
    /\ UNCHANGED <<chain, current, seen, verdict>>

Failed(s, kind) ==
    /\ pc[s] = "in_flight"
    /\ RecordFailure(current[s], kind)
    /\ Note(s, "transport")
    /\ probing' = [probing EXCEPT ![s] = @ \ {current[s]}]
    /\ verdict' = [verdict EXCEPT ![s] = kind]
    /\ pc' = [pc EXCEPT ![s] = "failed"]
    /\ UNCHANGED <<chain, current, seen>>

\* cut_short_by_budget: the stage's own deadline, no verdict on the provider
CutShort(s) ==
    /\ pc[s] = "in_flight"
    /\ slot' = [p \in Provider |-> slot[p] /\ ~(p = current[s] /\ p \in probing[s])]
    /\ Note(s, "deadline")
    /\ probing' = [probing EXCEPT ![s] = @ \ {current[s]}]
    /\ pc' = [pc EXCEPT ![s] = "closing"]
    /\ UNCHANGED <<circuit, drained, chain, current, seen, verdict>>

-----------------------------------------------------------------------------
(* Second request: after_transport_failure and after_structural_failure.   *)

\* alternate_for reads the state of the other provider, if it was not asked yet
LookAside(s) ==
    LET other == Other(s, current[s])
        candidate == Routed(s) /\ other \notin Asked(s)
    IN
    /\ pc[s] \in {"failed", "malformed"}
    /\ seen' = [seen EXCEPT ![s] =
                  [p \in Provider |-> IF candidate /\ p = other THEN State(p) ELSE "unread"]]
    /\ pc' = [pc EXCEPT ![s] = "weighing"]
    /\ UNCHANGED <<registry, chain, current, probing, record, verdict>>

Malformed(s) == log[s][Len(log[s])].result = "structural"

\* alternate_for offers p: a malformed answer only moves to a healthy provider
Offers(s, p) ==
    \/ seen[s][p] = "healthy" /\ NoProbe
    \/ ~Malformed(s) /\ seen[s][p] = "draining" /\ NoProbe
    \/ ~Malformed(s) /\ seen[s][p] = "half_open" /\ AcquireProbe(s, p)

\* mutant of NoOffer: an open other provider is waited for
MutNoOffer(s) ==
    \A p \in Provider :
        \/ seen[s][p] = "unread"
        \/ Malformed(s) /\ seen[s][p] # "healthy"
        \/ seen[s][p] = "half_open" /\ ~ProbeFree(p)

NoOffer(s) ==
    \A p \in Provider :
        \/ seen[s][p] \in {"unread", "open"}
        \/ Malformed(s) /\ seen[s][p] # "healthy"
        \/ seen[s][p] = "half_open" /\ ~ProbeFree(p)

\* the failure is dealt with
Settle(s) == verdict' = [verdict EXCEPT ![s] = "none"]

Failover(s) ==
    /\ pc[s] = "weighing"
    /\ \E p \in Provider : Offers(s, p) /\ Recover(s, "failover", p)
    /\ Settle(s)
    /\ UNCHANGED <<circuit, drained, chain, log, attempts>>

\* the other provider could be asked, but the attempts or the budget are
\* spent; a probe slot taken for it is only given back when the stage closes
FailoverRefused(s) ==
    /\ pc[s] = "weighing"
    /\ \E p \in Provider : Offers(s, p)
    /\ pc' = [pc EXCEPT ![s] = "closing"]
    /\ Settle(s)
    /\ seen' = [seen EXCEPT ![s] = Unread]
    /\ UNCHANGED <<circuit, drained, chain, current, record>>

\* mutant of OwnRecovery: the transport retry of a single provider applies to a pair
MutOwnRecovery(s) ==
    IF Malformed(s) THEN {"structural"}
    ELSE IF verdict[s] \in {"rate_limit", "outage"} THEN {"transport"} ELSE {}

\* the stage's own structural retry; a transport retry only without a pair,
\* and only for a failure that repeating may fix
OwnRecovery(s) ==
    IF Malformed(s) THEN {"structural"}
    ELSE IF ~Routed(s) /\ verdict[s] \in {"rate_limit", "outage"} THEN {"transport"} ELSE {}

RetrySame(s) ==
    /\ pc[s] = "weighing"
    /\ NoOffer(s)
    /\ \E r \in OwnRecovery(s) : Recover(s, r, current[s])
    /\ Settle(s)
    /\ UNCHANGED <<registry, chain, probing, log, attempts>>

\* no recovery is left, or none fits the budget
FallBack(s) ==
    /\ pc[s] = "weighing"
    /\ NoOffer(s)
    /\ pc' = [pc EXCEPT ![s] = "closing"]
    /\ Settle(s)
    /\ seen' = [seen EXCEPT ![s] = Unread]
    /\ UNCHANGED <<registry, chain, current, probing, record>>

\* mutant of Close: the stage ends without StageRoute.finish
MutClose(s) ==
    /\ pc[s] = "closing"
    /\ pc' = [pc EXCEPT ![s] = "done"]
    /\ UNCHANGED <<registry, chain, choice, record, verdict>>

\* close_route: StageRoute.finish returns the slots of requests never sent
Close(s) ==
    /\ pc[s] = "closing"
    /\ slot' = [p \in Provider |-> slot[p] /\ p \notin probing[s]]
    /\ probing' = [probing EXCEPT ![s] = {}]
    /\ pc' = [pc EXCEPT ![s] = "done"]
    /\ UNCHANGED <<circuit, drained, chain, current, seen, record, verdict>>

-----------------------------------------------------------------------------

Choosing(s) ==
    \/ Start(s)
    \/ \E p \in Provider : Read(s, p)
    \/ PickPreferred(s)
    \/ PickAmongRest(s)

Requesting(s) ==
    \/ Send(s)
    \/ GiveUp(s)
    \/ \E result \in {"success", "structural"} : Answered(s, result)
    \/ \E kind \in Kinds : Failed(s, kind)
    \/ CutShort(s)

Recovering(s) ==
    \/ LookAside(s)
    \/ Failover(s)
    \/ FailoverRefused(s)
    \/ RetrySame(s)
    \/ FallBack(s)
    \/ Close(s)

Step(s) == Choosing(s) \/ Requesting(s) \/ Recovering(s)
Environment == \E p \in Provider : Cool(p) \/ Refill(p)

Next == (\E s \in Stage : Step(s)) \/ Environment

Spec == Init /\ [][Next]_vars

\* A stage is straight-line code on a worker thread and every request has a
\* timeout, so a stage that can move does.
FairSpec == Spec /\ \A s \in Stage : WF_vars(Step(s))

-----------------------------------------------------------------------------
(* Properties.                                                             *)

(* A routed stage makes at most two requests, and asks the same provider   *)
(* twice only after that provider answered with a malformed output: one    *)
(* that failed is never retried while the pair exists                      *)
(* (llm_provider_router.py:41-49).  A provider without a pair is asked     *)
(* again at most as often as its largest single recovery allows.           *)
RequestsBounded ==
    \A s \in Stage :
        /\ attempts[s] <= MaxAttempts(s)
        /\ Routed(s) => \A i, j \in DOMAIN log[s] :
              i < j /\ log[s][i].provider = log[s][j].provider => log[s][i].result = "structural"

(* With the default of one transport retry, a stage recovers at most once, *)
(* by one means: retries of one provider and the move to the other never   *)
(* add up (ai_stage_budget.py:120-125).                                    *)
OneRecovery ==
    TransportRetries <= 1 =>
        \A s \in Stage : retried[s]["structural"] + retried[s]["transport"] + retried[s]["failover"] <= 1

(* A probe slot that is taken belongs to a stage that is still running and *)
(* will give it back: no path through success, failure, a spent budget, a  *)
(* client that could not be built or a probe taken and then not used       *)
(* leaves a recovered provider locked out for good.                        *)
SlotHasAnOwner ==
    \A p \in Provider : slot[p] => \E s \in Stage : p \in probing[s] /\ pc[s] # "done"

(* A provider on probation is asked by at most one stage at a time         *)
(* ("one probe request at a time", docs/13_llm_reasoning_pipeline.md:5053; *)
(* "True for exactly one caller", llm_provider_health.py:197).             *)
OneProbe ==
    \A p \in Provider : Cardinality({s \in Stage : p \in probing[s]}) <= 1

(* Every stage ends, whatever its providers do.                            *)
EveryStageEnds == \A s \in Stage : pc[s] # "idle" ~> pc[s] = "done"

(* A probe slot always comes back.                                         *)
SlotComesBack == \A p \in Provider : slot[p] ~> ~slot[p]

=============================================================================
