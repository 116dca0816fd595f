-------------------------- MODULE ProviderRequests --------------------------
(***************************************************************************)
(* The provider requests of the generations of one process: the credit     *)
(* budget and the routing allowance of each generation, the two request    *)
(* limiters (core/provider_usage.py), the worker threads of a batch        *)
(* (core/bounded_concurrency.py), the shared breaker (providers/errors.py) *)
(* and the one guarded request they all make                               *)
(* (providers/geoapify_client.py, providers/routing/geoapify_adapter.py).  *)
(*                                                                         *)
(* A generation is one thread.  It plans a batch, has its requests made by *)
(* worker threads, waits for all of them and applies the results; workers  *)
(* share the tracker, the limiters and the breaker and nothing else.       *)
(***************************************************************************)
EXTENDS Integers, FiniteSets

CONSTANTS
    Generations,
    Requests,          \* what a generation may ask for
    Routes,            \* those that are routes: they draw on the allowance
    Credits,           \* Credits[r] : reserved before r is sent
    Budget,            \* geoapify_max_credits_per_generation
    Allowance,         \* route_requests_left of a new generation
    GenerationSlots,   \* geoapify_max_concurrent_requests
    ProcessSlots,      \* geoapify_process_max_concurrent_requests
    Workers,           \* workers of a batch (1 when concurrency is off)
    MaxBatches         \* bound: MaxBatches[g] : batches of generation g

ASSUME ProviderRequestsAssumption ==
    /\ IsFiniteSet(Requests)
    /\ Routes \subseteq Requests
    /\ Credits \in [Requests -> Nat]
    /\ Budget \in Nat
    /\ Allowance \in Nat
    /\ GenerationSlots \in Nat \ {0}
    /\ ProcessSlots \in Nat \ {0}
    /\ Workers \in Nat \ {0}
    /\ MaxBatches \in [Generations -> Nat]

(* How a request ends: served; failed in a way that may pass (timeout,     *)
(* network, server); a rate limit or a rejected key; a definitive refusal; *)
(* or refused locally, by the breaker or the budget.                       *)
Answers == {"served", "failed", "limited", "unroutable"}
Outcomes == Answers \cup {"none", "local"}

(* Where a request is: one step of its worker leads to the next.           *)
Stages == {"idle", "planned", "checked", "reserved", "admitted", "sent",
           "answered", "returned", "closed"}

VARIABLES
    phase,        \* phase[g] : what the thread of generation g does
    batches,      \* batches[g] : batches it has started
    stage,        \* stage[g][r]
    outcome,      \* outcome[g][r]
    allowed,      \* allowed[g] : route_requests_left
    known,        \* known[g] : route_memo, the routes it has
    unroutable,   \* unroutable[g] : route_failure_memo
    reserved,     \* reserved[g] : ProviderUsageTracker._reserved
    spent,        \* spent[g] : ProviderUsageTracker._spent()
    slots,        \* slots[g] : free slots of the limiter of generation g
    processSlots, \* free slots of the limiter of the process
    blocked       \* the breaker refuses requests

tracker == <<reserved, spent>>
limiters == <<slots, processSlots>>
memos == <<allowed, known, unroutable>>
vars == <<phase, batches, stage, outcome, memos, tracker, limiters, blocked>>

TypeOK ==
    /\ phase \in [Generations -> {"planning", "fetching"}]
    /\ batches \in [Generations -> Nat]
    /\ stage \in [Generations -> [Requests -> Stages]]
    /\ outcome \in [Generations -> [Requests -> Outcomes]]
    /\ allowed \in [Generations -> Nat]
    /\ known \in [Generations -> SUBSET Routes]
    /\ unroutable \in [Generations -> SUBSET Routes]
    /\ reserved \in [Generations -> Int]
    /\ spent \in [Generations -> Nat]
    /\ slots \in [Generations -> 0..GenerationSlots]
    /\ processSlots \in 0..ProcessSlots
    /\ blocked \in BOOLEAN

Init ==
    /\ phase = [g \in Generations |-> "planning"]
    /\ batches = [g \in Generations |-> 0]
    /\ stage = [g \in Generations |-> [r \in Requests |-> "idle"]]
    /\ outcome = [g \in Generations |-> [r \in Requests |-> "none"]]
    /\ allowed = [g \in Generations |-> Allowance]
    /\ known = [g \in Generations |-> {}]
    /\ unroutable = [g \in Generations |-> {}]
    /\ reserved = [g \in Generations |-> 0]
    /\ spent = [g \in Generations |-> 0]
    /\ slots = [g \in Generations |-> GenerationSlots]
    /\ processSlots = ProcessSlots
    /\ blocked = FALSE

(* Requests of g that are at one of the stages S. *)
At(g, S) == {r \in Requests : stage[g][r] \in S}

Working == {"checked", "reserved", "admitted", "sent", "answered", "returned"}
Charged == Working \ {"checked"}              \* the reservation is open
Admitted == {"admitted", "sent", "answered"}  \* a slot of the generation is taken

-----------------------------------------------------------------------------
(* The thread of a generation.                                             *)

(* _known_leg found the route in the provider cache. *)
FindCached(g, r) ==
    /\ phase[g] = "planning"
    /\ r \in Routes
    /\ stage[g][r] = "idle"
    /\ known' = [known EXCEPT ![g] = @ \cup {r}]
    /\ UNCHANGED <<phase, batches, stage, outcome, allowed, unroutable, tracker, limiters, blocked>>

BadAskableForgetsRefusals(g, r) == r \in Routes => r \notin known[g] /\ allowed[g] > 0

(* A route is asked for when nothing is known of it and the allowance is   *)
(* not used up; the allowance is taken before anything is sent.            *)
Askable(g, r) == r \in Routes => r \notin known[g] \cup unroutable[g] /\ allowed[g] > 0

Plan(g, r) ==
    /\ phase[g] = "planning"
    /\ batches[g] < MaxBatches[g]
    /\ stage[g][r] = "idle"
    /\ Askable(g, r)
    /\ stage' = [stage EXCEPT ![g][r] = "planned"]
    /\ allowed' = [allowed EXCEPT ![g] = IF r \in Routes THEN @ - 1 ELSE @]
    /\ UNCHANGED <<phase, batches, outcome, known, unroutable, tracker, limiters, blocked>>

Dispatch(g) ==
    /\ phase[g] = "planning"
    /\ At(g, {"planned"}) # {}
    /\ phase' = [phase EXCEPT ![g] = "fetching"]
    /\ batches' = [batches EXCEPT ![g] = @ + 1]
    /\ UNCHANGED <<stage, outcome, memos, tracker, limiters, blocked>>

(* Every result is in: they are applied, in the order of the batch.  Of an *)
(* answer that was served but holds no usable legs nothing is remembered.  *)
Collect(g) ==
    /\ phase[g] = "fetching"
    /\ At(g, Stages \ {"idle", "closed"}) = {}
    /\ phase' = [phase EXCEPT ![g] = "planning"]
    /\ \E usable \in SUBSET {r \in At(g, {"closed"}) \cap Routes : outcome[g][r] = "served"} :
         known' = [known EXCEPT ![g] = @ \cup usable]
    /\ unroutable' = [unroutable EXCEPT ![g] =
                        @ \cup {r \in At(g, {"closed"}) \cap Routes : outcome[g][r] = "unroutable"}]
    /\ stage' = [stage EXCEPT ![g] = [r \in Requests |-> "idle"]]
    /\ outcome' = [outcome EXCEPT ![g] = [r \in Requests |-> "none"]]
    /\ UNCHANGED <<batches, allowed, tracker, limiters, blocked>>

-----------------------------------------------------------------------------
(* The worker that makes request r for generation g.                       *)

Step(g, r, from, to) ==
    /\ stage[g][r] = from
    /\ stage' = [stage EXCEPT ![g][r] = to]
    /\ UNCHANGED <<phase, batches, memos>>

Refuse(g, r, from) ==
    /\ Step(g, r, from, "closed")
    /\ outcome' = [outcome EXCEPT ![g][r] = "local"]
    /\ UNCHANGED <<tracker, limiters, blocked>>

(* A worker is free, and the breaker is asked. *)
Check(g, r) ==
    /\ phase[g] = "fetching"
    /\ Cardinality(At(g, Working)) < Workers
    /\ IF blocked
         THEN Refuse(g, r, "planned")
         ELSE /\ Step(g, r, "planned", "checked")
              /\ UNCHANGED <<outcome, tracker, limiters, blocked>>

BadAffordableIgnoresReserved(g, c) == spent[g] + c <= Budget

Affordable(g, c) == spent[g] + reserved[g] + c <= Budget

Reserve(g, r) ==
    IF Affordable(g, Credits[r])
      THEN /\ Step(g, r, "checked", "reserved")
           /\ reserved' = [reserved EXCEPT ![g] = @ + Credits[r]]
           /\ UNCHANGED <<outcome, spent, limiters, blocked>>
      ELSE Refuse(g, r, "checked")

BadFreeOffByOne(free) == free >= 0

Free(free) == free > 0

(* A slot of the generation first, then one of the process, which puts the *)
(* request on the wire. *)
EnterGeneration(g, r) ==
    /\ Free(slots[g])
    /\ Step(g, r, "reserved", "admitted")
    /\ slots' = [slots EXCEPT ![g] = @ - 1]
    /\ UNCHANGED <<outcome, tracker, processSlots, blocked>>

Send(g, r) ==
    /\ Free(processSlots)
    /\ Step(g, r, "admitted", "sent")
    /\ processSlots' = processSlots - 1
    /\ UNCHANGED <<outcome, tracker, slots, blocked>>

BadGivenBackOnSuccess(free, answer) == IF answer = "served" THEN free + 1 ELSE free

BadGivenBackTwice(free, answer) == IF answer = "failed" THEN free + 2 ELSE free + 1

GivenBack(free, answer) == free + 1

(* The answer, or the timeout: the slots go back in the reverse order,     *)
(* whatever the answer is. *)
Answer(g, r) ==
    /\ Step(g, r, "sent", "answered")
    /\ \E a \in Answers :
         /\ a = "unroutable" => r \in Routes
         /\ outcome' = [outcome EXCEPT ![g][r] = a]
         /\ processSlots' = GivenBack(processSlots, a)
    /\ UNCHANGED <<tracker, slots, blocked>>

LeaveGeneration(g, r) ==
    /\ Step(g, r, "answered", "returned")
    /\ slots' = [slots EXCEPT ![g] = GivenBack(@, outcome[g][r])]
    /\ UNCHANGED <<outcome, tracker, processSlots, blocked>>

BadOpenAfterLeak(left, answer, c) == IF answer = "failed" THEN left ELSE left - c

(* What is left reserved when a reservation of c is settled or released. *)
OpenAfter(left, answer, c) == left - c

(* A rate limit or a rejected key trips the breaker for everyone.  The     *)
(* reservation is settled to what a served request cost, which may be less *)
(* than was reserved and is never more; otherwise it is released.          *)
Close(g, r) ==
    /\ Step(g, r, "returned", "closed")
    /\ blocked' = (blocked \/ outcome[g][r] = "limited")
    /\ reserved' = [reserved EXCEPT ![g] = OpenAfter(@, outcome[g][r], Credits[r])]
    /\ \E actual \in IF outcome[g][r] = "served" THEN 0..Credits[r] ELSE {0} :
         spent' = [spent EXCEPT ![g] = @ + actual]
    /\ UNCHANGED <<outcome, limiters>>

(* The cooldown of the breaker is over. *)
CoolDown ==
    /\ blocked
    /\ blocked' = FALSE
    /\ UNCHANGED <<phase, batches, stage, outcome, memos, tracker, limiters>>

-----------------------------------------------------------------------------
Worker(g, r) ==
    \/ Check(g, r)
    \/ Reserve(g, r)
    \/ EnterGeneration(g, r)
    \/ Send(g, r)
    \/ Answer(g, r)
    \/ LeaveGeneration(g, r)
    \/ Close(g, r)

Next ==
    \/ \E g \in Generations, r \in Requests :
         \/ FindCached(g, r)
         \/ Plan(g, r)
         \/ Worker(g, r)
    \/ \E g \in Generations : Dispatch(g) \/ Collect(g)
    \/ CoolDown

(* Workers run, requests are answered or time out, and a generation goes   *)
(* on once its batch is complete.                                          *)
Fairness ==
    /\ \A g \in Generations, r \in Requests : WF_vars(Worker(g, r))
    /\ \A g \in Generations : WF_vars(Collect(g))

Spec == Init /\ [][Next]_vars
FairSpec == Spec /\ Fairness

-----------------------------------------------------------------------------
(* "Hard cap on the credits ONE generation may spend": what a generation   *)
(* has spent and still has reserved never exceeds its budget, however the  *)
(* reservations and settlements of its workers interleave.                 *)
BudgetHolds == \A g \in Generations : spent[g] + reserved[g] <= Budget

(* Every credit that is reserved belongs to a request still under way: a   *)
(* reservation is closed once, on every path, so that a failed request     *)
(* does not eat up the budget.                                             *)
OpenCredits(g) == UNION {{r} \X (1..Credits[r]) : r \in At(g, Charged)}

ReservationsAreOpen ==
    \A g \in Generations : reserved[g] = Cardinality(OpenCredits(g))

(* At most so many requests are on the wire: of one generation, and of all *)
(* generations of the process together.                                    *)
OnTheWire == {gr \in Generations \X Requests : stage[gr[1]][gr[2]] = "sent"}

WireWithinLimits ==
    /\ \A g \in Generations : Cardinality(At(g, {"sent"})) <= GenerationSlots
    /\ Cardinality(OnTheWire) <= ProcessSlots

(* A batch that was started ends: no request waits for ever for one of the *)
(* two slots, whatever the others of its own and of other generations do.  *)
EveryBatchEnds == \A g \in Generations : phase[g] = "fetching" ~> phase[g] # "fetching"

(* "The identical request is answered from here: no second request": what  *)
(* the provider definitively refused or usably delivered is not asked for  *)
(* again by that generation, in a later batch or by the other workers.     *)
NoSecondRequest ==
    \A g \in Generations :
        At(g, Working) \cap (known[g] \cup unroutable[g]) = {}

=============================================================================
