---------------------------- MODULE PlanningGraph ----------------------------
(***************************************************************************)
(* One trip's generation pipeline in both engines: the LangGraph planning  *)
(* graph (graphs/planning_graph.py, graphs/planning_graph_nodes.py) and    *)
(* the legacy stage sequence (services/planning_orchestrator.py).          *)
(*                                                                         *)
(* Both run the same services over one in-memory document, in the same     *)
(* order.  They differ in what a failure does (a graph node records it and *)
(* the run goes on; most legacy stages raise and end the generation), in   *)
(* when the document is saved (the graph: only at the end; legacy: after   *)
(* every stage) and in the loops back to experience_planning (the graph:   *)
(* AI repair and the underfill fallback; legacy: the fallback).            *)
(*                                                                         *)
(* The document is abstracted to what each part of it says about the plan: *)
(* whether a report was built from the plan as it stands ("current"), from *)
(* an earlier one ("stale"), is an honest failure or is absent.            *)
(***************************************************************************)
EXTENDS Naturals, FiniteSets

CONSTANTS
    MaxRepairs,       \* Settings.ai_itinerary_repair_max_attempts
    RecursionLimit,   \* LangGraph's limit on the nodes one run may execute
    MaxGenerations,   \* bound: generations started
    Deployments,      \* the [engine, reasoning, repair, gate, sequencing] a run may find
    Flaky             \* bound: the nodes whose service may raise

Engines == {"legacy", "langgraph"}

(* Where each node goes; validation and the two loops choose (below). *)
Edge ==
    [traveler_profile        |-> "destination_context",
     destination_context     |-> "candidate_quality",
     candidate_quality       |-> "ai_candidate",
     ai_candidate            |-> "inventory_sufficiency",
     inventory_sufficiency   |-> "trip_strategy",
     trip_strategy           |-> "stay_transport",
     stay_transport          |-> "accommodation_inventory",
     accommodation_inventory |-> "flight_inventory",
     flight_inventory        |-> "ai_itinerary_reasoning",
     ai_itinerary_reasoning  |-> "experience_planning",
     experience_planning     |-> "route_feasibility",
     route_feasibility       |-> "route_aware_sequencing",
     route_aware_sequencing  |-> "travel_time_buffer",
     travel_time_buffer      |-> "validation",
     underfill_fallback      |-> "experience_planning",
     provider_coverage       |-> "final_state",
     final_state             |-> "commit"]

Nodes == DOMAIN Edge \cup {"validation", "ai_itinerary_repair"}

ASSUME PlanningGraphAssumption ==
    /\ MaxRepairs \in 1..2
    /\ RecursionLimit \in Nat
    /\ MaxGenerations \in Nat
    /\ Flaky \subseteq Nodes
    /\ Deployments \subseteq [engine : Engines, reasoning : BOOLEAN, repair : BOOLEAN,
                              gate : BOOLEAN, sequencing : BOOLEAN]

Reports == {"none", "current", "stale", "failed"}

Documents ==
    [context  : {"none", "unresolved", "known"},        \* destination_context
     supply   : {"none", "insufficient", "enough"},     \* inventory_sufficiency_report
     reasoning : {"none", "completed", "other"},        \* ai_itinerary_reasoning_result
     unplanned : BOOLEAN,        \* it holds a repair no plan was built from yet
     repair   : {"none", "completed", "other"},         \* ai_itinerary_repair_result
     attempts : Nat,             \* ai_itinerary_repair_attempt_count
     fallback : BOOLEAN,         \* usefulness_fallback_applied
     plan     : {"none", "short", "full"},              \* experience_plan
     routes   : Reports,         \* route_feasibility_report
     buffers  : Reports,         \* travel_time_buffer_report
     verdict  : Reports,         \* validation_report
     versioned : BOOLEAN,        \* version_history is not empty
     progress : {"idle", "generating", "completed", "failed"}]

VARIABLES
    doc,          \* planning_state, in the memory of the run
    saved,        \* the stored document
    deployment,   \* the settings the run found
    node,         \* the node or stage to run next; "idle" between runs
    failed,       \* PlanningGraphState.failed_nodes
    steps,        \* nodes executed by this graph run
    passes,       \* times this run planned the days
    raised,       \* repair attempts of this run that ended in an exception
    call,         \* how the repair attempt just made ended
    generations   \* generations started

counters == <<steps, passes, raised>>
vars == <<doc, saved, deployment, node, failed, counters, call, generations>>

TypeOK ==
    /\ doc \in Documents
    /\ saved \in Documents
    /\ deployment \in Deployments
    /\ node \in Nodes \cup {"idle", "commit"}
    /\ failed \subseteq Nodes
    /\ steps \in Nat
    /\ passes \in Nat
    /\ raised \in Nat
    /\ call \in {"none", "completed", "declined", "raised"}
    /\ generations \in Nat

(* create_trip: an idle document with nothing planned. *)
NewTrip ==
    [context |-> "none", supply |-> "none", reasoning |-> "none", unplanned |-> FALSE,
     repair |-> "none", attempts |-> 0, fallback |-> FALSE, plan |-> "none",
     routes |-> "none", buffers |-> "none", verdict |-> "none",
     versioned |-> FALSE, progress |-> "idle"]

Init ==
    /\ doc = NewTrip
    /\ saved = NewTrip
    /\ deployment \in Deployments
    /\ node = "idle"
    /\ failed = {}
    /\ steps = 0
    /\ passes = 0
    /\ raised = 0
    /\ call = "none"
    /\ generations = 0

OnGraph == deployment.engine = "langgraph"

-----------------------------------------------------------------------------
(* has_usable_generated_plan: a trip that has one is not generated again. *)
Usable(d) ==
    /\ d.versioned
    /\ d.plan # "none"
    /\ d.verdict # "none"
    /\ d.context = "known"

(* What the run held in memory goes with it. *)
Over ==
    /\ node' = "idle"
    /\ failed' = {}
    /\ steps' = 0
    /\ passes' = 0
    /\ raised' = 0
    /\ call' = "none"
    /\ UNCHANGED <<deployment, generations>>

Begin ==
    /\ node = "idle"
    /\ generations < MaxGenerations
    /\ ~Usable(saved)
    /\ deployment' \in Deployments
    /\ doc' = [saved EXCEPT !.progress = "generating"]
    /\ saved' = doc'
    /\ node' = "traveler_profile"
    /\ generations' = generations + 1
    /\ UNCHANGED <<failed, counters, call>>

(* The generation ends in an exception: the document as it stands is saved *)
(* with a failed progress, unless that save fails or conflicts too.        *)
RaiseWith(d) ==
    /\ saved' \in {saved, [d EXCEPT !.progress = "failed"]}
    /\ doc' = saved'
    /\ Over

(* LangGraph gives up on a run that has executed RecursionLimit nodes. *)
Exhaust ==
    /\ OnGraph
    /\ node \in Nodes
    /\ steps = RecursionLimit
    /\ RaiseWith(doc)

(* The process dies: only what was saved remains. *)
Crash ==
    /\ node # "idle"
    /\ doc' = saved
    /\ saved' = saved
    /\ Over

-----------------------------------------------------------------------------
(* The legacy engine has no reasoning or coverage nodes: validation is the *)
(* last of its stages, and it saves when one is complete.                  *)
After(n) == IF ~OnGraph /\ n = "flight_inventory" THEN "experience_planning" ELSE Edge[n]

StageEnds == {"traveler_profile", "inventory_sufficiency", "trip_strategy",
              "flight_inventory", "travel_time_buffer", "validation"}

(* Node n runs and leaves the document d; next is the node after it. *)
Run(n, d, next) ==
    /\ node = n
    /\ OnGraph => steps < RecursionLimit
    /\ steps' = IF OnGraph THEN steps + 1 ELSE steps
    /\ doc' = d
    /\ saved' \in IF ~OnGraph /\ n \in StageEnds THEN {d} ELSE {saved}
    /\ node' = next
    /\ UNCHANGED <<deployment, generations>>

Done(n, d, next) == Run(n, d, next) /\ failed' = failed
Quiet == UNCHANGED <<passes, raised>> /\ call' = "none"

(* A graph node whose service raised records itself and leaves d. *)
FailOnGraph(n, d, next) ==
    /\ OnGraph
    /\ n \in Flaky
    /\ Run(n, d, next)
    /\ failed' = failed \cup {n}

(* A legacy stage that raised: the generation ends. *)
FailStage(n, d) ==
    /\ ~OnGraph
    /\ n \in Flaky
    /\ node = n
    /\ RaiseWith(d)

-----------------------------------------------------------------------------
(* Nodes whose results the properties do not tell apart.  A legacy         *)
(* inventory report that could not be built is stored as a failed one, and *)
(* the generation goes on, as it does after the AI candidate stage.        *)
Silent == {"traveler_profile", "candidate_quality", "ai_candidate", "trip_strategy",
           "stay_transport", "accommodation_inventory", "flight_inventory",
           "provider_coverage", "final_state"}
Tolerant == {"ai_candidate", "accommodation_inventory", "flight_inventory"}

SilentNode(n) ==
    \/ Done(n, doc, After(n)) /\ Quiet
    \/ FailOnGraph(n, doc, After(n)) /\ Quiet
    \/ n \notin Tolerant /\ FailStage(n, doc)

DestinationContext ==
    \/ \E c \in {"unresolved", "known"} :
          Done("destination_context", [doc EXCEPT !.context = c], After("destination_context"))
          /\ Quiet
    \/ FailOnGraph("destination_context", doc, After("destination_context")) /\ Quiet
    \/ FailStage("destination_context", doc)

(* InventorySufficiencyService.run: the fallback pass is unused again, and *)
(* the grounded pool is judged when there is a destination.                *)
Judged(d) ==
    IF d.context = "none"
      THEN {[d EXCEPT !.fallback = FALSE]}
      ELSE {[d EXCEPT !.fallback = FALSE, !.supply = s] : s \in {"insufficient", "enough"}}

InventorySufficiency ==
    /\ \E d \in IF deployment.gate THEN Judged(doc) ELSE {doc} :
          Done("inventory_sufficiency", d, After("inventory_sufficiency"))
    /\ Quiet

(* apply_itinerary_reasoning_safely: a fresh result, or the stored one when *)
(* the call raised.                                                        *)
Reasoned(d) ==
    IF deployment.reasoning
      THEN {d} \cup {[d EXCEPT !.reasoning = r, !.unplanned = FALSE] : r \in {"completed", "other"}}
      ELSE {[d EXCEPT !.reasoning = "other", !.unplanned = FALSE]}

AIItineraryReasoning ==
    /\ \/ \E d \in Reasoned(doc) :
             Done("ai_itinerary_reasoning", d, After("ai_itinerary_reasoning"))
       \/ FailOnGraph("ai_itinerary_reasoning", doc, After("ai_itinerary_reasoning"))
    /\ Quiet

-----------------------------------------------------------------------------
Aged(report) == IF report = "none" THEN "none" ELSE "stale"

(* A plan built anew: every report there is describes an earlier one. *)
Planned(d, size) ==
    [d EXCEPT !.plan = size, !.unplanned = FALSE, !.routes = Aged(@),
              !.buffers = Aged(@), !.verdict = Aged(@)]

(* evaluate_usefulness(...).underfilled, where the contract is enforced *)
Underfilled(d) == d.supply = "enough" /\ d.plan # "full"

FallbackDue(d) == d.supply # "none" /\ ~d.fallback /\ Underfilled(d)

BadAfterPlanningShortcut(d) ==
    IF d.fallback THEN "validation"
    ELSE IF ~OnGraph /\ FallbackDue(d) THEN "underfill_fallback" ELSE "route_feasibility"

(* Legacy tops an underfilled plan up at once, inside the same stage. *)
AfterPlanning(d) == IF ~OnGraph /\ FallbackDue(d) THEN "underfill_fallback" ELSE "route_feasibility"

ExperiencePlanning ==
    \/ /\ \E size \in {"short", "full"} :
             Done("experience_planning", Planned(doc, size), AfterPlanning(Planned(doc, size)))
       /\ passes' = passes + 1
       /\ raised' = raised
       /\ call' = "none"
    \/ /\ FailOnGraph("experience_planning", doc, "route_feasibility")
       /\ passes' = passes + 1
       /\ raised' = raised
       /\ call' = "none"
    \/ FailStage("experience_planning", doc)

UnderfillFallback ==
    /\ Done("underfill_fallback", [doc EXCEPT !.fallback = TRUE], "experience_planning")
    /\ Quiet

RouteFeasibility ==
    LET next == After("route_feasibility") IN
    /\ \/ Done("route_feasibility", [doc EXCEPT !.routes = "current"], next)
       \/ FailOnGraph("route_feasibility", doc, next)
       \/ /\ ~OnGraph                       \* _failed_route_feasibility_report
          /\ "route_feasibility" \in Flaky
          /\ Done("route_feasibility", [doc EXCEPT !.routes = "failed"], next)
    /\ Quiet

(* The days after sequencing: as they were; reordered, with the routes     *)
(* rebuilt; or repaired or rescheduled, with the legs of the days that     *)
(* changed updated in whatever report there is.                            *)
Sequenced(d) ==
    LET changed == [d EXCEPT !.buffers = Aged(@), !.verdict = Aged(@)]
    IN  {d, changed}
          \cup (IF deployment.sequencing THEN {[changed EXCEPT !.routes = "current"]} ELSE {})

(* The order is applied and the rebuild of the routes fails.  The node of  *)
(* the graph stops there; legacy stores a failed report.                   *)
Reordered(d, routes) ==
    IF deployment.sequencing
      THEN {[d EXCEPT !.routes = routes, !.buffers = Aged(@), !.verdict = Aged(@)]}
      ELSE {}

RouteAwareSequencing ==
    LET next == After("route_aware_sequencing") IN
    /\ \/ \E d \in Sequenced(doc) : Done("route_aware_sequencing", d, next)
       \/ \E d \in {doc} \cup Reordered(doc, Aged(doc.routes)) :
             FailOnGraph("route_aware_sequencing", d, next)
       \/ /\ ~OnGraph
          /\ "route_aware_sequencing" \in Flaky
          /\ \E d \in Reordered(doc, "failed") : Done("route_aware_sequencing", d, next)
    /\ Quiet

(* The buffers are computed from the route report. *)
TravelTimeBuffer ==
    LET next == After("travel_time_buffer")
        built == IF doc.routes = "stale" THEN "stale" ELSE "current"
    IN
    /\ \/ Done("travel_time_buffer", [doc EXCEPT !.buffers = built], next)
       \/ FailOnGraph("travel_time_buffer", doc, next)
       \/ /\ ~OnGraph                       \* _failed_travel_time_buffer_report
          /\ "travel_time_buffer" \in Flaky
          /\ Done("travel_time_buffer", [doc EXCEPT !.buffers = "failed"], next)
    /\ Quiet

-----------------------------------------------------------------------------
(* _underfill_fallback_or_finish *)
FallbackOrFinish(d) == IF FallbackDue(d) THEN "underfill_fallback" ELSE "provider_coverage"

BadMayRepairUncounted(d) ==
    /\ deployment.repair
    /\ deployment.reasoning
    /\ d.reasoning = "completed"
    /\ d.verdict # "none"
    /\ d.plan # "none"

(* What route_after_validation requires of the document for a repair; that *)
(* the verdict holds a repairable issue is the environment's choice.       *)
MayRepair(d) ==
    /\ deployment.repair
    /\ deployment.reasoning
    /\ d.reasoning = "completed"
    /\ d.attempts < MaxRepairs
    /\ d.verdict # "none"
    /\ d.plan # "none"

AfterValidation(d) ==
    IF OnGraph
      THEN {FallbackOrFinish(d)} \cup (IF MayRepair(d) THEN {"ai_itinerary_repair"} ELSE {})
      ELSE {"commit"}

Validated(d) == [d EXCEPT !.verdict = "current"]

Validation ==
    \/ \E next \in AfterValidation(Validated(doc)) :
          Done("validation", Validated(doc), next) /\ Quiet
    \/ \E next \in AfterValidation(doc) : FailOnGraph("validation", doc, next) /\ Quiet
    \/ FailStage("validation", doc)

BadAfterRepairFinishes(d) == FallbackOrFinish(d)

(* route_after_repair looks at the stored result, whoever stored it. *)
AfterRepair(d) == IF d.repair = "completed" THEN "experience_planning" ELSE FallbackOrFinish(d)

BadDeclinedRefunds(d) == [d EXCEPT !.attempts = @ - 1, !.repair = "other"]

Repaired(d) ==
    [d EXCEPT !.attempts = @ + 1, !.repair = "completed", !.unplanned = TRUE]
Declined(d) == [d EXCEPT !.attempts = @ + 1, !.repair = "other"]

(* The repair completed and was merged; it was rejected, refused or failed *)
(* to merge; or it raised, which apply_repair_safely swallows and which    *)
(* leaves the document, the attempt count included, as it was.             *)
AIItineraryRepair ==
    LET n == "ai_itinerary_repair" IN
    \/ /\ Done(n, Repaired(doc), AfterRepair(Repaired(doc)))
       /\ call' = "completed"
       /\ UNCHANGED <<passes, raised>>
    \/ /\ Done(n, Declined(doc), AfterRepair(Declined(doc)))
       /\ call' = "declined"
       /\ UNCHANGED <<passes, raised>>
    \/ /\ Done(n, doc, AfterRepair(doc)) \/ FailOnGraph(n, doc, AfterRepair(doc))
       /\ call' = "raised"
       /\ raised' = raised + 1
       /\ passes' = passes

-----------------------------------------------------------------------------
(* Post-processing records the first version; the final state and its      *)
(* revision commit together, or not at all.                                *)
Finished(d) == [d EXCEPT !.versioned = TRUE, !.progress = "completed"]

Commit ==
    /\ node = "commit"
    /\ doc' = Finished(doc)
    /\ saved' = doc'
    /\ Over

(* Post-processing or the commit raised. *)
FailCommit ==
    /\ node = "commit"
    /\ \E d \in {doc, Finished(doc)} : RaiseWith(d)

Next ==
    \/ Begin
    \/ Exhaust
    \/ Crash
    \/ \E n \in Silent : SilentNode(n)
    \/ DestinationContext
    \/ InventorySufficiency
    \/ AIItineraryReasoning
    \/ ExperiencePlanning
    \/ UnderfillFallback
    \/ RouteFeasibility
    \/ RouteAwareSequencing
    \/ TravelTimeBuffer
    \/ Validation
    \/ AIItineraryRepair
    \/ Commit
    \/ FailCommit

Spec == Init /\ [][Next]_vars

-----------------------------------------------------------------------------
(* The loops back to experience_planning are bounded: a run plans the days *)
(* once, once more for each repair attempt there is budget for, once for   *)
(* the fallback, and beyond that only when a repair attempt raised.  So    *)
(* LangGraph's own limit can stop a run only after such failures.          *)
LoopsBounded ==
    node # "idle" =>
      /\ passes <= 2 + MaxRepairs + raised
      /\ steps <= 17 + 6 * (MaxRepairs + 1 + raised)

(* The reports a run is about to commit were built from the plan it        *)
(* commits, whatever loops and repairs came between; one that is missing   *)
(* or describes an earlier plan belongs to a node the run reports failed   *)
(* (planning_graph_nodes.py: a failed node leaves its field as it was).    *)
Missing == {"none", "stale"}

ReportsDescribeThePlan ==
    node = "commit" =>
      /\ doc.routes \in Missing =>
           failed \cap {"route_feasibility", "route_aware_sequencing"} # {}
      /\ doc.buffers \in Missing =>
           failed \cap {"route_feasibility", "route_aware_sequencing", "travel_time_buffer"} # {}
      /\ doc.verdict \in Missing => "validation" \in failed

(* A repair that was merged into the reasoning result is in the plan the   *)
(* run commits: the days were planned again after it.                      *)
RepairedPlanIsReplanned ==
    node = "commit" /\ doc.unplanned => "experience_planning" \in failed

(* route_after_repair: "every other outcome (... or the node itself        *)
(* failing) goes straight to provider_coverage -- never an immediate       *)
(* retry".                                                                 *)
FailedRepairEndsPlanning == call = "raised" => node # "experience_planning"

=============================================================================
