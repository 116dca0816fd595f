------------------------- MODULE PlanningGraphProofs -------------------------
(***************************************************************************)
(* Proofs about PlanningGraph: its type, the bound on its loops, and what  *)
(* the reports and the plan of a finished run have to do with each other,  *)
(* for any limits, settings, failing nodes and number of generations.      *)
(***************************************************************************)
EXTENDS PlanningGraph, TLAPS

Places == Nodes \cup {"idle", "commit"}
Calls == {"none", "completed", "declined", "raised"}

(* Every edge of the chain leads to a node, or ends the run. *)
LEMMA EdgeType == \A n \in DOMAIN Edge : Edge[n] \in Nodes \cup {"commit"}
  BY DEF Edge, Nodes

LEMMA AfterType ==
  ASSUME NEW n \in DOMAIN Edge
  PROVE  After(n) \in Nodes \cup {"commit"}
  <1>1. "experience_planning" \in Nodes BY DEF Nodes, Edge
  <1> QED BY <1>1, EdgeType DEF After

(* One node of a run keeps the type when the document it leaves and the     *)
(* node it leads to have theirs.                                            *)
LEMMA RunType ==
  ASSUME TypeOK, NEW n \in Nodes, NEW d \in Documents, NEW next \in Places, Run(n, d, next),
         failed' \subseteq Nodes, passes' \in Nat, raised' \in Nat, call' \in Calls
  PROVE  TypeOK'
  <1>1. steps' \in Nat BY DEF TypeOK, Run
  <1>2. doc' \in Documents /\ saved' \in Documents BY DEF TypeOK, Run
  <1> QED BY <1>1, <1>2 DEF TypeOK, Run, Places, Calls

(* A node that completes or fails without counting anything. *)
LEMMA QuietType ==
  ASSUME TypeOK, NEW n \in Nodes, NEW d \in Documents, NEW next \in Places,
         Done(n, d, next) \/ FailOnGraph(n, d, next), Quiet
  PROVE  TypeOK'
  <1>1. Run(n, d, next) BY DEF Done, FailOnGraph
  <1>2. failed' \subseteq Nodes BY DEF TypeOK, Done, FailOnGraph
  <1>3. passes' \in Nat /\ raised' \in Nat /\ call' \in Calls BY DEF TypeOK, Quiet, Calls
  <1> QED BY <1>1, <1>2, <1>3, RunType

(* The end of a run, however it comes. *)
LEMMA OverType ==
  ASSUME TypeOK, Over, doc' \in Documents, saved' \in Documents
  PROVE  TypeOK'
  BY DEF TypeOK, Over

LEMMA RaiseType ==
  ASSUME TypeOK, NEW d \in Documents, RaiseWith(d)
  PROVE  TypeOK'
  <1>1. [d EXCEPT !.progress = "failed"] \in Documents BY DEF Documents
  <1>2. saved' \in Documents /\ doc' \in Documents BY <1>1 DEF TypeOK, RaiseWith
  <1> QED BY <1>2, OverType DEF RaiseWith

(* The documents the nodes leave. *)
LEMMA DocumentTypes ==
  ASSUME NEW d \in Documents
  PROVE  /\ \A size \in {"short", "full"} : Planned(d, size) \in Documents
         /\ Judged(d) \subseteq Documents
         /\ Reasoned(d) \subseteq Documents
         /\ Sequenced(d) \subseteq Documents
         /\ \A r \in Reports : Reordered(d, r) \subseteq Documents
         /\ Validated(d) \in Documents
         /\ Repaired(d) \in Documents
         /\ Declined(d) \in Documents
         /\ Finished(d) \in Documents
  <1>1. \A r \in Reports : Aged(r) \in Reports BY DEF Aged, Reports
  <1>2. \A size \in {"short", "full"} : Planned(d, size) \in Documents
    BY <1>1 DEF Planned, Documents
  <1>3. Judged(d) \subseteq Documents
    <2>1. [d EXCEPT !.fallback = FALSE] \in Documents BY DEF Documents
    <2>2. \A s \in {"insufficient", "enough"} :
             [d EXCEPT !.fallback = FALSE, !.supply = s] \in Documents
      BY DEF Documents
    <2> QED BY <2>1, <2>2 DEF Judged
  <1>4. Reasoned(d) \subseteq Documents
    <2>1. \A r \in {"completed", "other"} :
             [d EXCEPT !.reasoning = r, !.unplanned = FALSE] \in Documents
      BY DEF Documents
    <2> QED BY <2>1 DEF Reasoned
  <1>5. [d EXCEPT !.buffers = Aged(@), !.verdict = Aged(@)] \in Documents
    BY <1>1 DEF Documents
  <1>6. Sequenced(d) \subseteq Documents
    <2> DEFINE changed == [d EXCEPT !.buffers = Aged(@), !.verdict = Aged(@)]
    <2>1. changed \in Documents BY <1>5
    <2> HIDE DEF changed
    <2>2. [changed EXCEPT !.routes = "current"] \in Documents
      BY <2>1 DEF Documents, Reports
    <2> QED BY <2>1, <2>2 DEF Sequenced, changed
  <1>7. \A r \in Reports : Reordered(d, r) \subseteq Documents
    <2>1. \A r \in Reports :
             [d EXCEPT !.routes = r, !.buffers = Aged(@), !.verdict = Aged(@)] \in Documents
      BY <1>1 DEF Documents
    <2> QED BY <2>1 DEF Reordered
  <1>8. Validated(d) \in Documents BY DEF Validated, Documents, Reports
  <1>9. Repaired(d) \in Documents /\ Declined(d) \in Documents
    <2>1. d.attempts + 1 \in Nat BY DEF Documents
    <2>2. Repaired(d) \in Documents BY <2>1 DEF Repaired, Documents
    <2>3. Declined(d) \in Documents BY <2>1 DEF Declined, Documents
    <2> QED BY <2>2, <2>3
  <1>10. Finished(d) \in Documents BY DEF Finished, Documents
  <1> QED BY <1>2, <1>3, <1>4, <1>6, <1>7, <1>8, <1>9, <1>10

(* The nodes the loops choose between. *)
LEMMA ChoiceTypes ==
  ASSUME NEW d \in Documents
  PROVE  /\ AfterPlanning(d) \in {"underfill_fallback", "route_feasibility"}
         /\ FallbackOrFinish(d) \in {"underfill_fallback", "provider_coverage"}
         /\ AfterValidation(d) \subseteq {"underfill_fallback", "provider_coverage",
                                          "ai_itinerary_repair", "commit"}
         /\ AfterRepair(d) \in {"underfill_fallback", "provider_coverage", "experience_planning"}
  BY DEF AfterPlanning, FallbackOrFinish, AfterValidation, AfterRepair

LEMMA NodeNames ==
  /\ Silent \cup {"destination_context", "inventory_sufficiency", "ai_itinerary_reasoning",
                  "experience_planning", "underfill_fallback", "route_feasibility",
                  "route_aware_sequencing", "travel_time_buffer"} = DOMAIN Edge
  /\ Nodes = DOMAIN Edge \cup {"validation", "ai_itinerary_repair"}
  BY DEF Silent, Edge, Nodes

LEMMA AfterPlaces ==
  \A n \in DOMAIN Edge : n \in Nodes /\ After(n) \in Places
  BY AfterType, NodeNames DEF Places

(* The nodes that are the same in both engines but for their failure. *)
LEMMA SilentType ==
  ASSUME TypeOK, NEW n \in Silent, SilentNode(n)
  PROVE  TypeOK'
  <1>1. n \in Nodes /\ After(n) \in Places BY NodeNames, AfterPlaces
  <1>2. doc \in Documents BY DEF TypeOK
  <1>3. CASE Done(n, doc, After(n)) /\ Quiet BY <1>1, <1>2, <1>3, QuietType
  <1>4. CASE FailOnGraph(n, doc, After(n)) /\ Quiet BY <1>1, <1>2, <1>4, QuietType
  <1>5. CASE FailStage(n, doc) BY <1>2, <1>5, RaiseType DEF FailStage
  <1> QED BY <1>3, <1>4, <1>5 DEF SilentNode

LEMMA EarlyNodesType ==
  ASSUME TypeOK, DestinationContext \/ InventorySufficiency \/ AIItineraryReasoning
  PROVE  TypeOK'
  <1>1. /\ "destination_context" \in DOMAIN Edge
        /\ "inventory_sufficiency" \in DOMAIN Edge
        /\ "ai_itinerary_reasoning" \in DOMAIN Edge
    BY NodeNames
  <1>2. doc \in Documents BY DEF TypeOK
  <1>3. CASE DestinationContext
    <2>1. \A c \in {"unresolved", "known"} : [doc EXCEPT !.context = c] \in Documents
      BY <1>2 DEF Documents
    <2>2. CASE FailStage("destination_context", doc) BY <1>2, <2>2, RaiseType DEF FailStage
    <2>3. CASE \/ \E c \in {"unresolved", "known"} :
                     Done("destination_context", [doc EXCEPT !.context = c],
                          After("destination_context")) /\ Quiet
               \/ FailOnGraph("destination_context", doc, After("destination_context")) /\ Quiet
      BY <1>1, <1>2, <2>1, <2>3, QuietType, AfterPlaces
    <2> QED BY <1>3, <2>2, <2>3 DEF DestinationContext
  <1>4. CASE InventorySufficiency
    <2>1. PICK d \in (IF deployment.gate THEN Judged(doc) ELSE {doc}) :
             Done("inventory_sufficiency", d, After("inventory_sufficiency"))
      BY <1>4 DEF InventorySufficiency
    <2>2. d \in Documents BY <1>2, <2>1, DocumentTypes
    <2>3. Quiet BY <1>4 DEF InventorySufficiency
    <2> QED BY <1>1, <2>1, <2>2, <2>3, QuietType, AfterPlaces
  <1>5. CASE AIItineraryReasoning
    <2>1. PICK d \in Documents :
             \/ Done("ai_itinerary_reasoning", d, After("ai_itinerary_reasoning"))
             \/ FailOnGraph("ai_itinerary_reasoning", d, After("ai_itinerary_reasoning"))
      BY <1>2, <1>5, DocumentTypes DEF AIItineraryReasoning
    <2>2. Quiet BY <1>5 DEF AIItineraryReasoning
    <2> QED BY <1>1, <2>1, <2>2, QuietType, AfterPlaces
  <1> QED BY <1>3, <1>4, <1>5

LEMMA PlanningType ==
  ASSUME TypeOK, ExperiencePlanning \/ UnderfillFallback
  PROVE  TypeOK'
  <1>1. /\ "experience_planning" \in Nodes /\ "underfill_fallback" \in Nodes
        /\ "route_feasibility" \in Nodes
    BY NodeNames
  <1>2. doc \in Documents BY DEF TypeOK
  <1>3. CASE UnderfillFallback
    <2>1. [doc EXCEPT !.fallback = TRUE] \in Documents BY <1>2 DEF Documents
    <2> QED BY <1>1, <1>3, <2>1, QuietType DEF UnderfillFallback, Places
  <1>4. CASE FailStage("experience_planning", doc) BY <1>2, <1>4, RaiseType DEF FailStage
  <1>5. ASSUME passes' = passes + 1, raised' = raised, call' = "none",
               \/ \E size \in {"short", "full"} :
                     Done("experience_planning", Planned(doc, size),
                          AfterPlanning(Planned(doc, size)))
               \/ FailOnGraph("experience_planning", doc, "route_feasibility")
        PROVE  TypeOK'
    <2>1. PICK d \in Documents, next \in Places : Run("experience_planning", d, next)
      BY <1>1, <1>2, <1>5, DocumentTypes, ChoiceTypes DEF Done, FailOnGraph, Places
    <2>2. failed' \subseteq Nodes BY <1>1, <1>5 DEF TypeOK, Done, FailOnGraph
    <2>3. passes' \in Nat /\ raised' \in Nat /\ call' \in Calls BY <1>5 DEF TypeOK, Calls
    <2> QED BY <1>1, <2>1, <2>2, <2>3, RunType
  <1> QED BY <1>3, <1>4, <1>5 DEF ExperiencePlanning

LEMMA ReportsType ==
  ASSUME TypeOK, RouteFeasibility \/ RouteAwareSequencing \/ TravelTimeBuffer
  PROVE  TypeOK'
  <1>1. /\ "route_feasibility" \in DOMAIN Edge /\ "route_aware_sequencing" \in DOMAIN Edge
        /\ "travel_time_buffer" \in DOMAIN Edge
    BY NodeNames
  <1>2. doc \in Documents BY DEF TypeOK
  <1>3. Aged(doc.routes) \in Reports BY <1>2 DEF Documents, Aged, Reports
  <1>4. CASE RouteFeasibility
    <2>1. \A r \in Reports : [doc EXCEPT !.routes = r] \in Documents BY <1>2 DEF Documents
    <2>2. PICK d \in Documents :
             \/ Done("route_feasibility", d, After("route_feasibility"))
             \/ FailOnGraph("route_feasibility", d, After("route_feasibility"))
      BY <1>2, <1>4, <2>1 DEF RouteFeasibility, Reports
    <2>3. Quiet BY <1>4 DEF RouteFeasibility
    <2> QED BY <1>1, <2>2, <2>3, QuietType, AfterPlaces
  <1>5. CASE RouteAwareSequencing
    <2>1. "failed" \in Reports BY DEF Reports
    <2>2. PICK d \in Documents :
             \/ Done("route_aware_sequencing", d, After("route_aware_sequencing"))
             \/ FailOnGraph("route_aware_sequencing", d, After("route_aware_sequencing"))
      BY <1>2, <1>3, <1>5, <2>1, DocumentTypes DEF RouteAwareSequencing
    <2>3. Quiet BY <1>5 DEF RouteAwareSequencing
    <2> QED BY <1>1, <2>2, <2>3, QuietType, AfterPlaces
  <1>6. CASE TravelTimeBuffer
    <2>1. \A r \in Reports : [doc EXCEPT !.buffers = r] \in Documents BY <1>2 DEF Documents
    <2>2. PICK d \in Documents :
             \/ Done("travel_time_buffer", d, After("travel_time_buffer"))
             \/ FailOnGraph("travel_time_buffer", d, After("travel_time_buffer"))
      BY <1>2, <1>6, <2>1 DEF TravelTimeBuffer, Reports
    <2>3. Quiet BY <1>6 DEF TravelTimeBuffer
    <2> QED BY <1>1, <2>2, <2>3, QuietType, AfterPlaces
  <1> QED BY <1>4, <1>5, <1>6

LEMMA LoopsType ==
  ASSUME TypeOK, Validation \/ AIItineraryRepair
  PROVE  TypeOK'
  <1>1. /\ "validation" \in Nodes /\ "ai_itinerary_repair" \in Nodes
        /\ {"underfill_fallback", "provider_coverage", "ai_itinerary_repair",
            "commit", "experience_planning"} \subseteq Places
    BY NodeNames DEF Places, Silent
  <1>2. doc \in Documents /\ Validated(doc) \in Documents BY DocumentTypes DEF TypeOK
  <1>3. CASE Validation
    <2>1. CASE FailStage("validation", doc) BY <1>2, <2>1, RaiseType DEF FailStage
    <2>2. CASE \/ \E next \in AfterValidation(Validated(doc)) :
                     Done("validation", Validated(doc), next) /\ Quiet
               \/ \E next \in AfterValidation(doc) :
                     FailOnGraph("validation", doc, next) /\ Quiet
      BY <1>1, <1>2, <2>2, ChoiceTypes, QuietType
    <2> QED BY <1>3, <2>1, <2>2 DEF Validation
  <1>4. CASE AIItineraryRepair
    <2>1. PICK d \in Documents, next \in Places :
             Run("ai_itinerary_repair", d, next)
      BY <1>1, <1>2, <1>4, ChoiceTypes, DocumentTypes
      DEF AIItineraryRepair, Done, FailOnGraph
    <2>2. failed' \subseteq Nodes
      BY <1>1, <1>4 DEF TypeOK, AIItineraryRepair, Done, FailOnGraph
    <2>3. passes' \in Nat /\ raised' \in Nat /\ call' \in Calls
      BY <1>4 DEF TypeOK, Calls, AIItineraryRepair
    <2> QED BY <1>1, <2>1, <2>2, <2>3, RunType
  <1> QED BY <1>3, <1>4

LEMMA EndsType ==
  ASSUME TypeOK, Begin \/ Exhaust \/ Crash \/ Commit \/ FailCommit
  PROVE  TypeOK'
  <1>1. doc \in Documents /\ saved \in Documents /\ Finished(doc) \in Documents
    BY DocumentTypes DEF TypeOK
  <1>2. CASE Begin
    <2>1. [saved EXCEPT !.progress = "generating"] \in Documents BY <1>1 DEF Documents
    <2>2. "traveler_profile" \in Nodes BY NodeNames DEF Silent
    <2> QED BY <1>2, <2>1, <2>2 DEF Begin, TypeOK, counters
  <1>3. CASE Exhaust BY <1>1, <1>3, RaiseType DEF Exhaust
  <1>4. CASE Crash BY <1>1, <1>4, OverType DEF Crash
  <1>5. CASE Commit BY <1>1, <1>5, OverType DEF Commit
  <1>6. CASE FailCommit BY <1>1, <1>6, RaiseType DEF FailCommit
  <1> QED BY <1>2, <1>3, <1>4, <1>5, <1>6

(* Every variable keeps its type. *)
THEOREM TypeCorrect == Spec => []TypeOK
  <1>1. Init => TypeOK BY DEF Init, TypeOK, NewTrip, Documents, Reports
  <1>2. TypeOK /\ [Next]_vars => TypeOK'
    <2>1. CASE UNCHANGED vars BY <2>1 DEF vars, counters, TypeOK
    <2>2. ASSUME TypeOK, Next PROVE TypeOK'
      BY <2>2, SilentType, EarlyNodesType, PlanningType, ReportsType, LoopsType, EndsType
      DEF Next
    <2> QED BY <2>1, <2>2
  <1> QED BY <1>1, <1>2, PTL DEF Spec

-----------------------------------------------------------------------------
(* How many nodes a graph run still executes from a node on, at least,     *)
(* when no loop is taken.                                                  *)
Left ==
    [traveler_profile |-> 17, destination_context |-> 16, candidate_quality |-> 15,
     ai_candidate |-> 14, inventory_sufficiency |-> 13, trip_strategy |-> 12,
     stay_transport |-> 11, accommodation_inventory |-> 10, flight_inventory |-> 9,
     ai_itinerary_reasoning |-> 8, experience_planning |-> 7, route_feasibility |-> 6,
     route_aware_sequencing |-> 5, travel_time_buffer |-> 4, validation |-> 3,
     ai_itinerary_repair |-> 3, underfill_fallback |-> 8,
     provider_coverage |-> 2, final_state |-> 1, commit |-> 0]

Early == {"traveler_profile", "destination_context", "candidate_quality", "ai_candidate",
          "inventory_sufficiency", "trip_strategy", "stay_transport",
          "accommodation_inventory", "flight_inventory", "ai_itinerary_reasoning"}
Chain == {"route_feasibility", "route_aware_sequencing", "travel_time_buffer",
          "provider_coverage", "final_state"}
Plain == Chain \cup {"validation", "commit"}

(* What the loops a run has entered have been paid with: an attempt that   *)
(* is counted, the fallback flag, an attempt that raised.                  *)
Paid(d) == d.attempts + (IF d.fallback THEN 1 ELSE 0)

(* The attempt budget holds in memory and in the store, so a later run     *)
(* starts within it too.                                                   *)
BudgetKept == doc.attempts <= MaxRepairs /\ saved.attempts <= MaxRepairs

(* Before the days are planned nothing has been looped over.  From then on *)
(* the nodes executed and still to come, and the passes, are paid for; the *)
(* two nodes of the loops are entered on credit.                           *)
LoopInv ==
    /\ BudgetKept
    /\ ~OnGraph => steps = 0
    /\ node = "idle" => steps = 0 /\ passes = 0 /\ raised = 0
    /\ node \in Early => /\ passes = 0 /\ raised = 0
                         /\ OnGraph => steps + Left[node] = 17
    /\ node = "experience_planning" =>
         /\ passes <= Paid(doc) + raised
         /\ OnGraph => steps + 7 <= 17 + 6 * (Paid(doc) + raised)
    /\ node \in Plain =>
         /\ passes <= 1 + Paid(doc) + raised
         /\ OnGraph => steps + Left[node] <= 17 + 6 * (Paid(doc) + raised)
    /\ node = "ai_itinerary_repair" =>
         /\ doc.attempts < MaxRepairs
         /\ passes <= 1 + Paid(doc) + raised
         /\ OnGraph /\ steps + 3 <= 18 + 6 * (Paid(doc) + raised)
    /\ node = "underfill_fallback" =>
         /\ ~doc.fallback
         /\ passes <= 1 + Paid(doc) + raised
         /\ OnGraph => steps + 8 <= 23 + 6 * (Paid(doc) + raised)

LEMMA PaidType == ASSUME NEW d \in Documents PROVE Paid(d) \in Nat /\ d.attempts \in Nat
  BY DEF Paid, Documents

(* What the nodes other than the loops' leave of the budget. *)
LEMMA BudgetOfDocuments ==
  ASSUME NEW d \in Documents
  PROVE  /\ \A size \in {"short", "full"} : Paid(Planned(d, size)) = Paid(d)
                                            /\ Planned(d, size).attempts = d.attempts
                                            /\ Planned(d, size).fallback = d.fallback
         /\ \A e \in Judged(d) : e.attempts = d.attempts
         /\ \A e \in Reasoned(d) : Paid(e) = Paid(d) /\ e.attempts = d.attempts
         /\ \A e \in Sequenced(d) : Paid(e) = Paid(d) /\ e.attempts = d.attempts
         /\ \A r : \A e \in Reordered(d, r) : Paid(e) = Paid(d) /\ e.attempts = d.attempts
         /\ Paid(Validated(d)) = Paid(d) /\ Validated(d).attempts = d.attempts
                                         /\ Validated(d).fallback = d.fallback
         /\ Paid(Repaired(d)) = Paid(d) + 1 /\ Repaired(d).attempts = d.attempts + 1
                                            /\ Repaired(d).fallback = d.fallback
         /\ Paid(Declined(d)) = Paid(d) + 1 /\ Declined(d).attempts = d.attempts + 1
                                            /\ Declined(d).fallback = d.fallback
         /\ Finished(d).attempts = d.attempts
  <1>1. \A size \in {"short", "full"} : Paid(Planned(d, size)) = Paid(d)
                                            /\ Planned(d, size).attempts = d.attempts
                                            /\ Planned(d, size).fallback = d.fallback
    BY DEF Planned, Documents, Paid
  <1>2. \A e \in Judged(d) : e.attempts = d.attempts BY DEF Judged, Documents
  <1>3. \A e \in Reasoned(d) : Paid(e) = Paid(d) /\ e.attempts = d.attempts
    BY ZenonT(40) DEF Reasoned, Documents, Paid
  <1>4. \A e \in Sequenced(d) : Paid(e) = Paid(d) /\ e.attempts = d.attempts
    BY DEF Sequenced, Documents, Paid
  <1>5. \A r : \A e \in Reordered(d, r) : Paid(e) = Paid(d) /\ e.attempts = d.attempts
    BY DEF Reordered, Documents, Paid
  <1>6. Paid(Validated(d)) = Paid(d) /\ Validated(d).attempts = d.attempts
        /\ Validated(d).fallback = d.fallback
    BY DEF Validated, Documents, Paid
  <1>7. /\ Paid(Repaired(d)) = Paid(d) + 1 /\ Repaired(d).attempts = d.attempts + 1
        /\ Repaired(d).fallback = d.fallback
    BY DEF Repaired, Documents, Paid
  <1>8. /\ Paid(Declined(d)) = Paid(d) + 1 /\ Declined(d).attempts = d.attempts + 1
        /\ Declined(d).fallback = d.fallback
    BY DEF Declined, Documents, Paid
  <1>9. Finished(d).attempts = d.attempts BY DEF Finished, Documents
  <1> QED BY <1>1, <1>2, <1>3, <1>4, <1>5, <1>6, <1>7, <1>8, <1>9

(* The steps of one node, by where it stands. *)
LEMMA EarlyStep ==
  ASSUME TypeOK, LoopInv, NEW n \in Early, NEW d \in Documents, d.attempts = doc.attempts,
         Run(n, d, After(n)), passes' = passes, raised' = raised
  PROVE  LoopInv'
  <1> USE DEF TypeOK, Early
  <1>1. doc' = d /\ saved' \in {d, saved} /\ node = n /\ OnGraph' = OnGraph /\ node' = After(n)
    BY DEF Run, OnGraph
  <1>2. BudgetKept' BY <1>1 DEF LoopInv, BudgetKept
  <1>3. steps' = IF OnGraph THEN steps + 1 ELSE steps BY DEF Run
  <1>4. \/ After(n) \in Early /\ (OnGraph => Left[After(n)] + 1 = Left[n])
        \/ After(n) = "experience_planning" /\ (OnGraph => Left[n] = 8)
    <2>1. CASE ~OnGraph /\ n = "flight_inventory" BY <2>1 DEF After
    <2>2. CASE OnGraph \/ n # "flight_inventory"
      <3>1. After(n) = Edge[n] BY <2>2 DEF After
      <3>2. \/ Edge[n] \in Early /\ Left[Edge[n]] + 1 = Left[n]
            \/ Edge[n] = "experience_planning" /\ Left[n] = 8
        BY DEF Edge, Left
      <3> QED BY <3>1, <3>2
    <2> QED BY <2>1, <2>2
  <1>5. Left[n] \in Nat BY DEF Left
  <1>6. passes = 0 /\ raised = 0 /\ (OnGraph => steps + Left[n] = 17) /\ (~OnGraph => steps = 0)
    BY <1>1 DEF LoopInv
  <1>7. Paid(d) \in Nat BY PaidType
  <1>8. CASE After(n) = "experience_planning"
    <2>1. OnGraph => steps' + 7 = 17 BY <1>3, <1>4, <1>5, <1>6, <1>8
    <2> QED BY <1>1, <1>2, <1>3, <1>6, <1>7, <1>8, <2>1 DEF LoopInv, Plain, Chain
  <1>9. CASE After(n) \in Early /\ (OnGraph => Left[After(n)] + 1 = Left[n])
    <2>1. Left[After(n)] \in Nat BY <1>9 DEF Left
    <2>2. OnGraph => steps' + Left[After(n)] = 17 BY <1>3, <1>5, <1>6, <1>9, <2>1
    <2> QED BY <1>1, <1>2, <1>3, <1>6, <1>9, <2>2 DEF LoopInv, Plain, Chain
  <1> QED BY <1>4, <1>8, <1>9

LEMMA ChainStep ==
  ASSUME TypeOK, LoopInv, NEW n \in Chain, NEW d \in Documents,
         d.attempts = doc.attempts, Paid(d) = Paid(doc),
         Run(n, d, After(n)), passes' = passes, raised' = raised
  PROVE  LoopInv'
  <1> USE DEF TypeOK, Chain, Plain
  <1>1. doc' = d /\ saved' \in {d, saved} /\ node = n /\ OnGraph' = OnGraph /\ node' = After(n)
    BY DEF Run, OnGraph
  <1>2. BudgetKept' BY <1>1 DEF LoopInv, BudgetKept
  <1>3. steps' = IF OnGraph THEN steps + 1 ELSE steps BY DEF Run
  <1>4. After(n) = Edge[n] BY DEF After
  <1>5. Edge[n] \in Plain /\ Left[Edge[n]] + 1 = Left[n] /\ Left[n] \in Nat /\ Left[Edge[n]] \in Nat
    BY DEF Edge, Left
  <1>6. Paid(d) \in Nat BY PaidType
  <1>7. /\ passes <= 1 + Paid(d) + raised /\ (~OnGraph => steps = 0)
        /\ OnGraph => steps + Left[n] <= 17 + 6 * (Paid(d) + raised)
    BY <1>1 DEF LoopInv
  <1>8. OnGraph => steps' + Left[Edge[n]] <= 17 + 6 * (Paid(d) + raised)
    BY <1>3, <1>5, <1>6, <1>7
  <1>9. ~OnGraph => steps' = 0 BY <1>3, <1>7
  <1> QED BY <1>1, <1>2, <1>4, <1>5, <1>7, <1>8, <1>9 DEF LoopInv, Early

LEMMA PlanningStep ==
  ASSUME TypeOK, LoopInv, ExperiencePlanning
  PROVE  LoopInv'
  <1> USE DEF TypeOK
  <1>1. node = "experience_planning" BY DEF ExperiencePlanning, Done, FailOnGraph, FailStage, Run
  <1>2. /\ passes <= Paid(doc) + raised /\ (~OnGraph => steps = 0)
        /\ OnGraph => steps + 7 <= 17 + 6 * (Paid(doc) + raised)
    BY <1>1 DEF LoopInv
  <1>3. Paid(doc) \in Nat BY PaidType
  <1>4. CASE FailStage("experience_planning", doc)
    <2>1. saved' = saved \/ saved'.attempts = doc.attempts BY <1>4 DEF FailStage, RaiseWith, Documents
    <2>2. doc' = saved' BY <1>4 DEF FailStage, RaiseWith
    <2>3. BudgetKept' BY <2>1, <2>2 DEF LoopInv, BudgetKept
    <2> QED BY <1>4, <2>3 DEF LoopInv, FailStage, RaiseWith, Over, Early, Plain, Chain
  <1>5. ASSUME NEW d \in Documents, NEW next \in {"underfill_fallback", "route_feasibility"},
               next = "underfill_fallback" => ~d.fallback /\ ~OnGraph,
               Paid(d) = Paid(doc), d.attempts = doc.attempts,
               Run("experience_planning", d, next), passes' = passes + 1, raised' = raised
        PROVE  LoopInv'
    <2>1. doc' = d /\ saved' \in {d, saved} /\ OnGraph' = OnGraph /\ node' = next
      BY <1>5 DEF Run, OnGraph
    <2>2. BudgetKept' BY <1>5, <2>1 DEF LoopInv, BudgetKept
    <2>3. steps' = IF OnGraph THEN steps + 1 ELSE steps BY <1>5 DEF Run
    <2>4. ~OnGraph => steps' = 0 BY <1>2, <2>3
    <2>5. passes' <= 1 + Paid(d) + raised' BY <1>2, <1>3, <1>5
    <2>6. OnGraph => steps' + 6 <= 17 + 6 * (Paid(d) + raised')
      BY <1>2, <1>3, <1>5, <2>3
    <2>7. Left["route_feasibility"] = 6 BY DEF Left
    <2> QED BY <1>5, <2>1, <2>2, <2>4, <2>5, <2>6, <2>7 DEF LoopInv, Early, Plain, Chain
  <1>6. CASE /\ \E size \in {"short", "full"} :
                   Done("experience_planning", Planned(doc, size),
                        AfterPlanning(Planned(doc, size)))
             /\ passes' = passes + 1 /\ raised' = raised
    <2>1. PICK size \in {"short", "full"} :
             Done("experience_planning", Planned(doc, size), AfterPlanning(Planned(doc, size)))
      BY <1>6
    <2> DEFINE d == Planned(doc, size)
    <2>2. d \in Documents BY DocumentTypes
    <2>3. Paid(d) = Paid(doc) /\ d.attempts = doc.attempts BY BudgetOfDocuments
    <2>4. AfterPlanning(d) = "underfill_fallback" => ~d.fallback /\ ~OnGraph
      BY DEF AfterPlanning, FallbackDue
    <2>5. AfterPlanning(d) \in {"underfill_fallback", "route_feasibility"} BY <2>2, ChoiceTypes
    <2>6. Run("experience_planning", d, AfterPlanning(d)) BY <2>1 DEF Done
    <2> HIDE DEF d
    <2> QED BY <1>5, <1>6, <2>2, <2>3, <2>4, <2>5, <2>6
  <1>7. CASE /\ FailOnGraph("experience_planning", doc, "route_feasibility")
             /\ passes' = passes + 1 /\ raised' = raised
    BY <1>5, <1>7 DEF FailOnGraph
  <1> QED BY <1>4, <1>6, <1>7 DEF ExperiencePlanning

LEMMA FallbackStep ==
  ASSUME TypeOK, LoopInv, UnderfillFallback
  PROVE  LoopInv'
  <1> USE DEF TypeOK
  <1> DEFINE d == [doc EXCEPT !.fallback = TRUE]
  <1>1. /\ node = "underfill_fallback" /\ doc' = d /\ saved' = saved /\ OnGraph' = OnGraph
        /\ node' = "experience_planning" /\ passes' = passes /\ raised' = raised
        /\ steps' = IF OnGraph THEN steps + 1 ELSE steps
    BY DEF UnderfillFallback, Done, Run, Quiet, OnGraph, StageEnds
  <1>2. /\ ~doc.fallback /\ passes <= 1 + Paid(doc) + raised /\ (~OnGraph => steps = 0)
        /\ OnGraph => steps + 8 <= 23 + 6 * (Paid(doc) + raised)
    BY <1>1 DEF LoopInv
  <1>3. Paid(doc) \in Nat BY PaidType
  <1>4. Paid(d) = Paid(doc) + 1 /\ d.attempts = doc.attempts BY <1>2 DEF Paid, Documents
  <1>5. BudgetKept' BY <1>1, <1>4 DEF LoopInv, BudgetKept
  <1>6. passes' <= Paid(doc') + raised' BY <1>1, <1>2, <1>3, <1>4
  <1>7. OnGraph => steps' + 7 <= 17 + 6 * (Paid(doc') + raised') BY <1>1, <1>2, <1>3, <1>4
  <1>8. ~OnGraph => steps' = 0 BY <1>1, <1>2
  <1> QED BY <1>1, <1>5, <1>6, <1>7, <1>8 DEF LoopInv, Early, Plain, Chain

(* The choice after a validation. *)
LEMMA ValidationStep ==
  ASSUME TypeOK, LoopInv, Validation
  PROVE  LoopInv'
  <1> USE DEF TypeOK
  <1>1. node = "validation" BY DEF Validation, Done, FailOnGraph, FailStage, Run
  <1>2. Left["validation"] = 3 /\ Left["provider_coverage"] = 2 /\ Left["commit"] = 0 BY DEF Left
  <1>3. /\ passes <= 1 + Paid(doc) + raised /\ (~OnGraph => steps = 0)
        /\ OnGraph => steps + 3 <= 17 + 6 * (Paid(doc) + raised)
    BY <1>1, <1>2 DEF LoopInv, Plain
  <1>4. Paid(doc) \in Nat BY PaidType
  <1>5. CASE FailStage("validation", doc)
    <2>1. saved' = saved \/ saved'.attempts = doc.attempts BY <1>5 DEF FailStage, RaiseWith, Documents
    <2>2. doc' = saved' BY <1>5 DEF FailStage, RaiseWith
    <2>3. BudgetKept' BY <2>1, <2>2 DEF LoopInv, BudgetKept
    <2> QED BY <1>5, <2>3 DEF LoopInv, FailStage, RaiseWith, Over, Early, Plain, Chain
  <1>6. ASSUME NEW d \in Documents, NEW next \in AfterValidation(d),
               Paid(d) = Paid(doc), d.attempts = doc.attempts,
               Run("validation", d, next), passes' = passes, raised' = raised
        PROVE  LoopInv'
    <2>1. doc' = d /\ saved' \in {d, saved} /\ OnGraph' = OnGraph /\ node' = next
      BY <1>6 DEF Run, OnGraph
    <2>2. BudgetKept' BY <1>6, <2>1 DEF LoopInv, BudgetKept
    <2>3. steps' = IF OnGraph THEN steps + 1 ELSE steps BY <1>6 DEF Run
    <2>4. ~OnGraph => steps' = 0 BY <1>3, <2>3
    <2>5. \/ next = "underfill_fallback" /\ ~d.fallback
          \/ next = "provider_coverage"
          \/ next = "ai_itinerary_repair" /\ d.attempts < MaxRepairs /\ OnGraph
          \/ next = "commit" /\ ~OnGraph
      BY <1>6 DEF AfterValidation, FallbackOrFinish, FallbackDue, MayRepair
    <2>6. passes' <= 1 + Paid(d) + raised' BY <1>3, <1>6
    <2>7. OnGraph => steps' + 2 <= 17 + 6 * (Paid(d) + raised') BY <1>3, <1>4, <1>6, <2>3
    <2>8. Paid(d) + raised' \in Nat /\ steps' \in Nat BY <1>6, <2>3, PaidType
    <2>9. OnGraph => steps' + 8 <= 23 + 6 * (Paid(d) + raised') BY <2>7, <2>8
    <2>10. OnGraph => steps' + 3 <= 18 + 6 * (Paid(d) + raised') BY <2>7, <2>8
    <2>11. CASE next = "underfill_fallback"
      BY <2>1, <2>2, <2>4, <2>5, <2>6, <2>9, <2>11 DEF LoopInv, Early, Plain, Chain
    <2>12. CASE next = "provider_coverage"
      BY <1>2, <2>1, <2>2, <2>4, <2>6, <2>7, <2>12 DEF LoopInv, Early, Plain, Chain
    <2>13. CASE next = "ai_itinerary_repair"
      BY <2>1, <2>2, <2>4, <2>5, <2>6, <2>10, <2>13 DEF LoopInv, Early, Plain, Chain
    <2>14. CASE next = "commit"
      BY <2>1, <2>2, <2>4, <2>5, <2>6, <2>14 DEF LoopInv, Early, Plain, Chain
    <2> QED BY <2>5, <2>11, <2>12, <2>13, <2>14
  <1>7. CASE \E next \in AfterValidation(Validated(doc)) :
                Done("validation", Validated(doc), next) /\ Quiet
    <2>1. Validated(doc) \in Documents BY DocumentTypes
    <2>2. Paid(Validated(doc)) = Paid(doc) /\ Validated(doc).attempts = doc.attempts
      BY BudgetOfDocuments
    <2> QED BY <1>6, <1>7, <2>1, <2>2 DEF Done, Quiet
  <1>8. CASE \E next \in AfterValidation(doc) : FailOnGraph("validation", doc, next) /\ Quiet
    BY <1>6, <1>8 DEF FailOnGraph, Quiet
  <1> QED BY <1>5, <1>7, <1>8 DEF Validation

(* The choice after a repair: it was counted, or it raised. *)
LEMMA RepairStep ==
  ASSUME TypeOK, LoopInv, AIItineraryRepair
  PROVE  LoopInv'
  <1> USE DEF TypeOK
  <1> DEFINE n == "ai_itinerary_repair"
  <1>1. node = n BY DEF AIItineraryRepair, Done, FailOnGraph, Run
  <1>2. /\ doc.attempts < MaxRepairs /\ passes <= 1 + Paid(doc) + raised
        /\ OnGraph /\ steps + 3 <= 18 + 6 * (Paid(doc) + raised)
    BY <1>1 DEF LoopInv
  <1>3. Paid(doc) \in Nat /\ doc.attempts \in Nat BY PaidType
  <1>4. Left["provider_coverage"] = 2 BY DEF Left
  <1>5. ASSUME NEW d \in Documents, d.attempts \in {doc.attempts, doc.attempts + 1},
               Paid(d) + raised' = Paid(doc) + raised + 1,
               Run(n, d, AfterRepair(d)), passes' = passes, raised' \in Nat
        PROVE  LoopInv'
    <2> DEFINE next == AfterRepair(d)
    <2>1. doc' = d /\ saved' \in {d, saved} /\ OnGraph' = OnGraph /\ node' = next
      BY <1>5 DEF Run, OnGraph
    <2>2. MaxRepairs \in Nat BY PlanningGraphAssumption
    <2>3. BudgetKept' BY <1>2, <1>3, <1>5, <2>1, <2>2 DEF LoopInv, BudgetKept
    <2>4. steps' = steps + 1 BY <1>2, <1>5 DEF Run
    <2>5. \/ next = "experience_planning"
          \/ next = "provider_coverage"
          \/ next = "underfill_fallback" /\ ~d.fallback
      BY DEF AfterRepair, FallbackOrFinish, FallbackDue
    <2>6. Paid(d) \in Nat BY PaidType
    <2>7. passes' <= Paid(d) + raised' BY <1>2, <1>3, <1>5, <2>6
    <2>8. steps' + 7 <= 17 + 6 * (Paid(d) + raised') BY <1>2, <1>3, <1>5, <2>4, <2>6
    <2> HIDE DEF next
    <2> QED BY <1>2, <1>4, <1>5, <2>1, <2>3, <2>4, <2>5, <2>6, <2>7, <2>8
        DEF LoopInv, Early, Plain, Chain
  <1>6. CASE Done(n, Repaired(doc), AfterRepair(Repaired(doc))) /\ UNCHANGED <<passes, raised>>
    <2>1. Repaired(doc) \in Documents BY DocumentTypes
    <2>2. Paid(Repaired(doc)) = Paid(doc) + 1 /\ Repaired(doc).attempts = doc.attempts + 1
      BY BudgetOfDocuments
    <2> QED BY <1>3, <1>5, <1>6, <2>1, <2>2 DEF Done
  <1>7. CASE Done(n, Declined(doc), AfterRepair(Declined(doc))) /\ UNCHANGED <<passes, raised>>
    <2>1. Declined(doc) \in Documents BY DocumentTypes
    <2>2. Paid(Declined(doc)) = Paid(doc) + 1 /\ Declined(doc).attempts = doc.attempts + 1
      BY BudgetOfDocuments
    <2> QED BY <1>3, <1>5, <1>7, <2>1, <2>2 DEF Done
  <1>8. CASE /\ Done(n, doc, AfterRepair(doc)) \/ FailOnGraph(n, doc, AfterRepair(doc))
             /\ raised' = raised + 1 /\ passes' = passes
    BY <1>3, <1>5, <1>8 DEF Done, FailOnGraph
  <1> QED BY <1>6, <1>7, <1>8 DEF AIItineraryRepair

LEMMA EndsStep ==
  ASSUME TypeOK, LoopInv
  PROVE  /\ Begin => LoopInv'
         /\ \A d \in Documents : RaiseWith(d) /\ d.attempts = doc.attempts => LoopInv'
         /\ Crash \/ Commit => LoopInv'
  <1> USE DEF TypeOK
  <1>1. ASSUME Begin PROVE LoopInv'
    <2>1. doc' = [saved EXCEPT !.progress = "generating"] /\ saved' = doc'
          /\ node' = "traveler_profile" /\ node = "idle"
          /\ steps' = steps /\ passes' = passes /\ raised' = raised
      BY <1>1 DEF Begin, counters
    <2>2. doc'.attempts = saved.attempts BY <2>1 DEF Documents
    <2>3. BudgetKept' BY <2>1, <2>2 DEF LoopInv, BudgetKept
    <2>4. steps' = 0 /\ passes' = 0 /\ raised' = 0 BY <2>1 DEF LoopInv
    <2>5. Left["traveler_profile"] = 17 BY DEF Left
    <2> QED BY <2>1, <2>3, <2>4, <2>5 DEF LoopInv, Early, Plain, Chain
  <1>2. ASSUME BudgetKept', Over PROVE LoopInv'
    BY <1>2 DEF LoopInv, Over, Early, Plain, Chain
  <1>3. ASSUME NEW d \in Documents, RaiseWith(d), d.attempts = doc.attempts PROVE LoopInv'
    <2>1. (saved' = saved \/ saved'.attempts = doc.attempts) /\ doc' = saved' /\ Over
      BY <1>3 DEF RaiseWith, Documents
    <2>2. BudgetKept' BY <2>1 DEF LoopInv, BudgetKept
    <2> QED BY <1>2, <2>1, <2>2
  <1>4. ASSUME Crash PROVE LoopInv'
    <2>1. BudgetKept' BY <1>4 DEF Crash, LoopInv, BudgetKept
    <2> QED BY <1>2, <1>4, <2>1 DEF Crash
  <1>5. ASSUME Commit PROVE LoopInv'
    <2>1. doc'.attempts = doc.attempts BY <1>5, BudgetOfDocuments DEF Commit
    <2>2. BudgetKept' BY <1>5, <2>1 DEF Commit, LoopInv, BudgetKept
    <2> QED BY <1>2, <1>5, <2>2 DEF Commit
  <1> QED BY <1>1, <1>3, <1>4, <1>5

(* Any step of a node of the straight path, by where it stands. *)
LEMMA StraightStep ==
  ASSUME TypeOK, LoopInv, NEW n \in Early \cup Chain, NEW d \in Documents,
         d.attempts = doc.attempts, n \in Chain => Paid(d) = Paid(doc),
         Done(n, d, After(n)) \/ FailOnGraph(n, d, After(n)), Quiet
  PROVE  LoopInv'
  <1>1. Run(n, d, After(n)) /\ passes' = passes /\ raised' = raised
    BY DEF Done, FailOnGraph, Quiet
  <1> QED BY <1>1, EarlyStep, ChainStep

LEMMA LoopStep ==
  ASSUME TypeOK, LoopInv, Next
  PROVE  LoopInv'
  <1>0. doc \in Documents /\ Finished(doc) \in Documents /\ Finished(doc).attempts = doc.attempts
    BY DocumentTypes, BudgetOfDocuments DEF TypeOK
  <1>1. CASE Begin \/ Exhaust \/ Crash \/ Commit \/ FailCommit
    BY <1>0, <1>1, EndsStep DEF Exhaust, FailCommit
  <1>2. ASSUME NEW n \in Silent, SilentNode(n) PROVE LoopInv'
    <2>1. n \in Early \cup Chain BY DEF Silent, Early, Chain
    <2>2. CASE FailStage(n, doc) BY <1>0, <2>2, EndsStep DEF FailStage
    <2>3. CASE (Done(n, doc, After(n)) \/ FailOnGraph(n, doc, After(n))) /\ Quiet
      BY <1>0, <2>1, <2>3, StraightStep
    <2> QED BY <1>2, <2>2, <2>3 DEF SilentNode
  <1>3. CASE DestinationContext
    <2> DEFINE n == "destination_context"
    <2>1. n \in Early BY DEF Early
    <2>2. CASE FailStage(n, doc) BY <1>0, <2>2, EndsStep DEF FailStage
    <2>3. \A c \in {"unresolved", "known"} :
             [doc EXCEPT !.context = c] \in Documents
             /\ [doc EXCEPT !.context = c].attempts = doc.attempts
      BY <1>0 DEF Documents
    <2>4. CASE \/ \E c \in {"unresolved", "known"} :
                     Done(n, [doc EXCEPT !.context = c], After(n)) /\ Quiet
               \/ FailOnGraph(n, doc, After(n)) /\ Quiet
      <3>1. PICK d \in Documents : /\ d.attempts = doc.attempts
                                   /\ Done(n, d, After(n)) \/ FailOnGraph(n, d, After(n))
                                   /\ Quiet
        BY <1>0, <2>3, <2>4
      <3>2. n \notin Chain BY DEF Chain
      <3> QED BY <2>1, <3>1, <3>2, StraightStep
    <2> QED BY <1>3, <2>2, <2>4 DEF DestinationContext
  <1>4. CASE InventorySufficiency
    <2> DEFINE n == "inventory_sufficiency"
    <2>1. n \in Early /\ n \notin Chain BY DEF Early, Chain
    <2>2. PICK d \in (IF deployment.gate THEN Judged(doc) ELSE {doc}) : Done(n, d, After(n))
      BY <1>4 DEF InventorySufficiency
    <2>3. d \in Documents /\ d.attempts = doc.attempts
      BY <1>0, <2>2, DocumentTypes, BudgetOfDocuments
    <2> QED BY <1>4, <2>1, <2>2, <2>3, StraightStep DEF InventorySufficiency
  <1>5. CASE AIItineraryReasoning
    <2> DEFINE n == "ai_itinerary_reasoning"
    <2>1. n \in Early /\ n \notin Chain BY DEF Early, Chain
    <2>2. PICK d \in Documents : /\ d.attempts = doc.attempts
                                 /\ Done(n, d, After(n)) \/ FailOnGraph(n, d, After(n))
      BY <1>0, <1>5, DocumentTypes, BudgetOfDocuments DEF AIItineraryReasoning
    <2> QED BY <1>5, <2>1, <2>2, StraightStep DEF AIItineraryReasoning
  <1>6. CASE RouteFeasibility
    <2> DEFINE n == "route_feasibility"
    <2>1. n \in Chain BY DEF Chain
    <2>2. \A r \in Reports : LET d == [doc EXCEPT !.routes = r]
                             IN d \in Documents /\ d.attempts = doc.attempts /\ Paid(d) = Paid(doc)
      BY <1>0 DEF Documents, Paid
    <2>3. PICK d \in Documents : /\ d.attempts = doc.attempts /\ Paid(d) = Paid(doc)
                                 /\ Done(n, d, After(n)) \/ FailOnGraph(n, d, After(n))
      BY <1>0, <1>6, <2>2 DEF RouteFeasibility, Reports
    <2> QED BY <1>6, <2>1, <2>3, StraightStep DEF RouteFeasibility
  <1>7. CASE RouteAwareSequencing
    <2> DEFINE n == "route_aware_sequencing"
    <2>1. n \in Chain BY DEF Chain
    <2>2. "failed" \in Reports /\ Aged(doc.routes) \in Reports
      BY <1>0 DEF Reports, Aged, Documents
    <2> DEFINE Left1 == {doc} \cup Sequenced(doc) \cup Reordered(doc, "failed")
                          \cup Reordered(doc, Aged(doc.routes))
    <2>4. \A d \in Left1 : d \in Documents /\ d.attempts = doc.attempts /\ Paid(d) = Paid(doc)
      <3>1. ASSUME NEW d \in Sequenced(doc)
            PROVE  d \in Documents /\ d.attempts = doc.attempts /\ Paid(d) = Paid(doc)
        BY <1>0, DocumentTypes, BudgetOfDocuments
      <3>2. ASSUME NEW r \in Reports, NEW d \in Reordered(doc, r)
            PROVE  d \in Documents /\ d.attempts = doc.attempts /\ Paid(d) = Paid(doc)
        BY <1>0, DocumentTypes, BudgetOfDocuments
      <3> QED BY <1>0, <2>2, <3>1, <3>2
    <2>5. \E d \in Left1 : Done(n, d, After(n)) \/ FailOnGraph(n, d, After(n))
      BY <1>7 DEF RouteAwareSequencing
    <2> HIDE DEF Left1
    <2>3. PICK d \in Documents : /\ d.attempts = doc.attempts /\ Paid(d) = Paid(doc)
                                 /\ Done(n, d, After(n)) \/ FailOnGraph(n, d, After(n))
      BY <2>4, <2>5
    <2> QED BY <1>7, <2>1, <2>3, StraightStep DEF RouteAwareSequencing
  <1>8. CASE TravelTimeBuffer
    <2> DEFINE n == "travel_time_buffer"
    <2>1. n \in Chain BY DEF Chain
    <2>2. \A r \in Reports : LET d == [doc EXCEPT !.buffers = r]
                             IN d \in Documents /\ d.attempts = doc.attempts /\ Paid(d) = Paid(doc)
      BY <1>0 DEF Documents, Paid
    <2>3. PICK d \in Documents : /\ d.attempts = doc.attempts /\ Paid(d) = Paid(doc)
                                 /\ Done(n, d, After(n)) \/ FailOnGraph(n, d, After(n))
      BY <1>0, <1>8, <2>2 DEF TravelTimeBuffer, Reports
    <2> QED BY <1>8, <2>1, <2>3, StraightStep DEF TravelTimeBuffer
  <1> QED BY <1>1, <1>2, <1>3, <1>4, <1>5, <1>6, <1>7, <1>8, PlanningStep, FallbackStep,
             ValidationStep, RepairStep
      DEF Next

(* What is paid for is what the property allows. *)
LEMMA LoopInvBounds ==
  ASSUME TypeOK, LoopInv
  PROVE  LoopsBounded
  <1> USE DEF TypeOK
  <1>1. MaxRepairs \in Nat BY PlanningGraphAssumption
  <1>2. Paid(doc) \in Nat /\ doc.attempts \in Nat BY PaidType
  <1>3. Paid(doc) <= MaxRepairs + 1 /\ (~doc.fallback => Paid(doc) <= MaxRepairs)
        /\ (doc.attempts < MaxRepairs => Paid(doc) <= MaxRepairs)
    BY <1>1, <1>2 DEF LoopInv, BudgetKept, Paid
  <1>4. CASE node \in Early
    <2>1. Left[node] \in Nat BY <1>4 DEF Left, Early
    <2>2. OnGraph => steps <= 17 BY <1>4, <2>1 DEF LoopInv
    <2> QED BY <1>1, <1>4, <2>2 DEF LoopInv, LoopsBounded
  <1>5. CASE node \in Plain
    <2>1. Left[node] \in Nat BY <1>5 DEF Left, Plain, Chain
    <2>2. OnGraph => steps <= 17 + 6 * (Paid(doc) + raised) BY <1>2, <1>5, <2>1 DEF LoopInv
    <2> QED BY <1>1, <1>2, <1>3, <1>5, <2>2 DEF LoopInv, LoopsBounded
  <1>6. CASE node = "experience_planning"
    BY <1>1, <1>2, <1>3, <1>6 DEF LoopInv, LoopsBounded
  <1>7. CASE node = "ai_itinerary_repair"
    <2>1. Paid(doc) <= MaxRepairs BY <1>3, <1>7 DEF LoopInv
    <2>2. steps + 3 <= 18 + 6 * (Paid(doc) + raised) /\ passes <= 1 + Paid(doc) + raised
      BY <1>7 DEF LoopInv
    <2> QED BY <1>1, <1>2, <2>1, <2>2 DEF LoopsBounded
  <1>8. CASE node = "underfill_fallback"
    <2>1. Paid(doc) <= MaxRepairs BY <1>3, <1>8 DEF LoopInv
    <2> QED BY <1>1, <1>2, <1>8, <2>1 DEF LoopInv, LoopsBounded
  <1>9. CASE node = "idle" BY <1>9 DEF LoopsBounded
  <1>10. node \in Early \cup Plain \cup {"experience_planning", "ai_itinerary_repair",
                                         "underfill_fallback", "idle"}
    BY NodeNames DEF Early, Plain, Chain, Silent
  <1> QED BY <1>4, <1>5, <1>6, <1>7, <1>8, <1>9, <1>10

LEMMA LoopsAlways == Spec => []LoopInv
  <1>1. Init => LoopInv
    BY PlanningGraphAssumption DEF Init, LoopInv, BudgetKept, NewTrip, Early, Plain, Chain
  <1>2. TypeOK /\ LoopInv /\ [Next]_vars => LoopInv'
    <2>1. ASSUME UNCHANGED vars, LoopInv PROVE LoopInv'
      BY <2>1 DEF vars, counters, LoopInv, BudgetKept, OnGraph
    <2> QED BY <2>1, LoopStep
  <1> QED BY <1>1, <1>2, TypeCorrect, PTL DEF Spec

(* The loops of a run are bounded, so only repair attempts that raised can *)
(* lead a run into LangGraph's limit.                                      *)
THEOREM LoopsAreBounded == Spec => []LoopsBounded
  <1>1. TypeOK /\ LoopInv => LoopsBounded BY LoopInvBounds
  <1> QED BY <1>1, LoopsAlways, TypeCorrect, PTL

-----------------------------------------------------------------------------
(* What the run knows of the reports and of the repair, node by node: past *)
(* the node that builds it, a report is of the plan or its node is failed. *)
PastVerdict == {"ai_itinerary_repair", "provider_coverage", "final_state", "commit"}
PastBuffers == {"validation"} \cup PastVerdict
PastRoutes == {"route_aware_sequencing", "travel_time_buffer"} \cup PastBuffers
PastPlanning == {"underfill_fallback", "route_feasibility"} \cup PastRoutes

RoutesBlamed == failed \cap {"route_feasibility", "route_aware_sequencing"} # {}
BuffersBlamed ==
    failed \cap {"route_feasibility", "route_aware_sequencing", "travel_time_buffer"} # {}

ReportInv ==
    /\ node \in PastRoutes /\ doc.routes \in Missing => RoutesBlamed
    /\ node \in PastBuffers /\ doc.buffers \in Missing => BuffersBlamed
    /\ node \in PastVerdict /\ doc.verdict \in Missing => "validation" \in failed
    /\ node \in PastPlanning /\ doc.unplanned => "experience_planning" \in failed

(* Nodes that leave the reports alone, on the way they were going. *)
LEMMA ReportsLeftAlone ==
  ASSUME TypeOK, ReportInv, NEW n \in Nodes, NEW d \in Documents, NEW next \in Places,
         Run(n, d, next), failed \subseteq failed',
         <<d.routes, d.buffers, d.verdict, d.unplanned>>
           = <<doc.routes, doc.buffers, doc.verdict, doc.unplanned>>,
         next \in PastRoutes => n \in PastRoutes,
         next \in PastBuffers => n \in PastBuffers,
         next \in PastVerdict => n \in PastVerdict,
         next \in PastPlanning => n \in PastPlanning
  PROVE  ReportInv'
  <1>1. node = n /\ doc' = d /\ node' = next BY DEF Run
  <1> QED BY <1>1 DEF ReportInv, RoutesBlamed, BuffersBlamed

LEMMA EarlyReports ==
  ASSUME TypeOK, ReportInv, NEW n \in Early, NEW d \in Documents,
         Run(n, d, After(n))
  PROVE  ReportInv'
  <1>1. After(n) \in Early \cup {"experience_planning"} BY DEF Early, After, Edge
  <1>2. node' = After(n) BY DEF Run
  <1> QED BY <1>1, <1>2
      DEF ReportInv, Early, PastRoutes, PastBuffers, PastVerdict, PastPlanning

LEMMA OverReports ==
  ASSUME Over
  PROVE  ReportInv'
  BY DEF Over, ReportInv, PastRoutes, PastBuffers, PastVerdict, PastPlanning

LEMMA PlanningReports ==
  ASSUME TypeOK, ReportInv, ExperiencePlanning \/ UnderfillFallback
  PROVE  ReportInv'
  <1> USE DEF TypeOK, PastRoutes, PastBuffers, PastVerdict, PastPlanning
  <1>1. CASE UnderfillFallback
    <2>1. node' = "experience_planning" BY <1>1 DEF UnderfillFallback, Done, Run
    <2> QED BY <2>1 DEF ReportInv
  <1>2. CASE FailStage("experience_planning", doc)
    BY <1>2, OverReports DEF FailStage, RaiseWith
  <1>3. CASE \E size \in {"short", "full"} :
                Done("experience_planning", Planned(doc, size), AfterPlanning(Planned(doc, size)))
    <2>1. PICK size \in {"short", "full"} :
             Run("experience_planning", Planned(doc, size), AfterPlanning(Planned(doc, size)))
      BY <1>3 DEF Done
    <2>2. doc'.unplanned = FALSE BY <2>1 DEF Run, Planned, Documents
    <2>3. node' \in {"underfill_fallback", "route_feasibility"}
      BY <2>1, ChoiceTypes, DocumentTypes DEF Run
    <2> QED BY <2>2, <2>3 DEF ReportInv
  <1>4. CASE FailOnGraph("experience_planning", doc, "route_feasibility")
    <2>1. node' = "route_feasibility" /\ "experience_planning" \in failed'
      BY <1>4 DEF FailOnGraph, Run
    <2> QED BY <2>1 DEF ReportInv
  <1> QED BY <1>1, <1>2, <1>3, <1>4 DEF ExperiencePlanning

LEMMA RoutesReports ==
  ASSUME TypeOK, ReportInv, RouteFeasibility
  PROVE  ReportInv'
  <1> USE DEF TypeOK, PastRoutes, PastBuffers, PastVerdict, PastPlanning
  <1>1. /\ node = "route_feasibility" /\ node' = "route_aware_sequencing"
        /\ failed \subseteq failed'
    BY DEF RouteFeasibility, Done, FailOnGraph, Run, After, Edge
  <1>2. doc'.unplanned = doc.unplanned
    BY DEF RouteFeasibility, Done, FailOnGraph, Run, Documents
  <1>3. doc'.routes \in {"current", "failed"} \/ "route_feasibility" \in failed'
    BY DEF RouteFeasibility, Done, FailOnGraph, Run, Documents
  <1> QED BY <1>1, <1>2, <1>3 DEF ReportInv, RoutesBlamed, Missing

LEMMA SequencingReports ==
  ASSUME TypeOK, ReportInv, RouteAwareSequencing
  PROVE  ReportInv'
  <1> USE DEF TypeOK, PastRoutes, PastBuffers, PastVerdict, PastPlanning
  <1> DEFINE n == "route_aware_sequencing"
  <1>1. node = n /\ node' = "travel_time_buffer" /\ failed \subseteq failed'
    BY DEF RouteAwareSequencing, Done, FailOnGraph, Run, After, Edge
  <1>2. ASSUME NEW d \in Sequenced(doc)
        PROVE  d.unplanned = doc.unplanned /\ d.routes \in {doc.routes, "current"}
    BY DEF Sequenced, Documents
  <1>3. ASSUME NEW r \in Reports, NEW d \in Reordered(doc, r)
        PROVE  d.unplanned = doc.unplanned /\ d.routes = r
    BY DEF Reordered, Documents
  <1>4. Aged(doc.routes) \in Reports /\ "failed" \in Reports BY DEF Aged, Reports, Documents
  <1>5. CASE \E d \in Sequenced(doc) : Done(n, d, After(n))
    <2>1. doc'.unplanned = doc.unplanned /\ doc'.routes \in {doc.routes, "current"}
      BY <1>2, <1>5 DEF Done, Run
    <2> QED BY <1>1, <2>1 DEF ReportInv, RoutesBlamed, Missing
  <1>6. CASE \E d \in {doc} \cup Reordered(doc, Aged(doc.routes)) : FailOnGraph(n, d, After(n))
    <2>1. doc'.unplanned = doc.unplanned /\ n \in failed'
      BY <1>3, <1>4, <1>6 DEF FailOnGraph, Run
    <2> QED BY <1>1, <2>1 DEF ReportInv, RoutesBlamed
  <1>7. CASE \E d \in Reordered(doc, "failed") : Done(n, d, After(n))
    <2>1. doc'.unplanned = doc.unplanned /\ doc'.routes = "failed"
      BY <1>3, <1>4, <1>7 DEF Done, Run
    <2> QED BY <1>1, <2>1 DEF ReportInv, RoutesBlamed, Missing
  <1> QED BY <1>5, <1>6, <1>7 DEF RouteAwareSequencing

LEMMA BufferReports ==
  ASSUME TypeOK, ReportInv, TravelTimeBuffer
  PROVE  ReportInv'
  <1> USE DEF TypeOK, PastRoutes, PastBuffers, PastVerdict, PastPlanning
  <1>1. node = "travel_time_buffer" /\ node' = "validation" /\ failed \subseteq failed'
    BY DEF TravelTimeBuffer, Done, FailOnGraph, Run, After, Edge
  <1>2. doc'.unplanned = doc.unplanned /\ doc'.routes = doc.routes
    BY DEF TravelTimeBuffer, Done, FailOnGraph, Run, Documents
  <1>3. \/ doc'.buffers \in {"current", "failed"}
        \/ doc.routes = "stale"
        \/ "travel_time_buffer" \in failed'
    BY DEF TravelTimeBuffer, Done, FailOnGraph, Run, Documents
  <1> QED BY <1>1, <1>2, <1>3 DEF ReportInv, RoutesBlamed, BuffersBlamed, Missing

LEMMA ValidationReports ==
  ASSUME TypeOK, ReportInv, Validation
  PROVE  ReportInv'
  <1> USE DEF TypeOK, PastRoutes, PastBuffers, PastVerdict, PastPlanning
  <1>1. CASE FailStage("validation", doc) BY <1>1, OverReports DEF FailStage, RaiseWith
  <1>2. CASE \E next \in AfterValidation(Validated(doc)) : Done("validation", Validated(doc), next)
    <2>1. doc' = Validated(doc) /\ node = "validation" /\ failed' = failed BY <1>2 DEF Done, Run
    <2>2. /\ doc'.routes = doc.routes /\ doc'.buffers = doc.buffers
          /\ doc'.unplanned = doc.unplanned /\ doc'.verdict = "current"
      BY <2>1 DEF Validated, Documents
    <2> QED BY <2>1, <2>2 DEF ReportInv, RoutesBlamed, BuffersBlamed, Missing
  <1>3. CASE \E next \in AfterValidation(doc) : FailOnGraph("validation", doc, next)
    <2>1. doc' = doc /\ node = "validation" /\ failed' = failed \cup {"validation"}
      BY <1>3 DEF FailOnGraph, Run
    <2> QED BY <2>1 DEF ReportInv, RoutesBlamed, BuffersBlamed
  <1> QED BY <1>1, <1>2, <1>3 DEF Validation

LEMMA RepairReports ==
  ASSUME TypeOK, ReportInv, AIItineraryRepair
  PROVE  ReportInv'
  <1> USE DEF TypeOK, PastRoutes, PastBuffers, PastVerdict, PastPlanning
  <1> DEFINE n == "ai_itinerary_repair"
  <1>1. node = n BY DEF AIItineraryRepair, Done, FailOnGraph, Run
  <1>2. ASSUME NEW d \in Documents, Run(n, d, AfterRepair(d)), failed \subseteq failed',
               <<d.routes, d.buffers, d.verdict>> = <<doc.routes, doc.buffers, doc.verdict>>,
               d.unplanned => doc.unplanned \/ d.repair = "completed"
        PROVE  ReportInv'
    <2>1. doc' = d /\ node' = AfterRepair(d) BY <1>2 DEF Run
    <2>2. d.repair = "completed" => AfterRepair(d) = "experience_planning" BY DEF AfterRepair
    <2> QED BY <1>1, <1>2, <2>1, <2>2 DEF ReportInv, RoutesBlamed, BuffersBlamed
  <1>3. CASE Done(n, Repaired(doc), AfterRepair(Repaired(doc)))
    <2>1. Repaired(doc) \in Documents BY DocumentTypes
    <2>2. /\ <<Repaired(doc).routes, Repaired(doc).buffers, Repaired(doc).verdict>>
               = <<doc.routes, doc.buffers, doc.verdict>>
          /\ Repaired(doc).repair = "completed"
      BY DEF Repaired, Documents
    <2> QED BY <1>2, <1>3, <2>1, <2>2 DEF Done
  <1>4. CASE Done(n, Declined(doc), AfterRepair(Declined(doc)))
    <2>1. Declined(doc) \in Documents BY DocumentTypes
    <2>2. /\ <<Declined(doc).routes, Declined(doc).buffers, Declined(doc).verdict>>
               = <<doc.routes, doc.buffers, doc.verdict>>
          /\ Declined(doc).unplanned = doc.unplanned
      BY DEF Declined, Documents
    <2> QED BY <1>2, <1>4, <2>1, <2>2 DEF Done
  <1>5. CASE Done(n, doc, AfterRepair(doc)) \/ FailOnGraph(n, doc, AfterRepair(doc))
    BY <1>2, <1>5 DEF Done, FailOnGraph
  <1> QED BY <1>3, <1>4, <1>5 DEF AIItineraryRepair

LEMMA ReportStep ==
  ASSUME TypeOK, ReportInv, Next
  PROVE  ReportInv'
  <1> USE DEF TypeOK
  <1>1. CASE Begin
    <2>1. node' = "traveler_profile" BY <1>1 DEF Begin
    <2> QED BY <2>1 DEF ReportInv, PastRoutes, PastBuffers, PastVerdict, PastPlanning
  <1>2. CASE Exhaust \/ Crash \/ Commit \/ FailCommit
    BY <1>2, OverReports DEF Exhaust, Crash, Commit, FailCommit, RaiseWith
  <1>3. ASSUME NEW n \in Silent, SilentNode(n) PROVE ReportInv'
    <2>1. CASE FailStage(n, doc) BY <2>1, OverReports DEF FailStage, RaiseWith
    <2>2. CASE Done(n, doc, After(n)) \/ FailOnGraph(n, doc, After(n))
      <3>1. Run(n, doc, After(n)) /\ failed \subseteq failed' BY <2>2 DEF Done, FailOnGraph
      <3>2. CASE n \in Early BY <3>1, <3>2, EarlyReports
      <3>3. CASE n \in {"provider_coverage", "final_state"}
        <4>1. n \in Nodes /\ After(n) \in Places BY NodeNames, AfterPlaces
        <4>2. n \in PastVerdict BY <3>3 DEF PastVerdict
        <4>3. n \in PastRoutes /\ n \in PastBuffers /\ n \in PastPlanning
          BY <4>2 DEF PastRoutes, PastBuffers, PastPlanning
        <4> QED BY <3>1, <4>1, <4>2, <4>3, ReportsLeftAlone
      <3> QED BY <3>2, <3>3 DEF Silent, Early
    <2> QED BY <1>3, <2>1, <2>2 DEF SilentNode
  <1>4. CASE DestinationContext
    <2> DEFINE n == "destination_context"
    <2>1. CASE FailStage(n, doc) BY <2>1, OverReports DEF FailStage, RaiseWith
    <2>2. ASSUME NEW d \in Documents, Run(n, d, After(n)) PROVE ReportInv'
      <3>1. n \in Early BY DEF Early
      <3> QED BY <2>2, <3>1, EarlyReports
    <2>3. \A c \in {"unresolved", "known"} : [doc EXCEPT !.context = c] \in Documents
      BY DEF Documents
    <2> QED BY <1>4, <2>1, <2>2, <2>3 DEF DestinationContext, Done, FailOnGraph
  <1>5. CASE InventorySufficiency
    <2> DEFINE n == "inventory_sufficiency"
    <2>1. n \in Early BY DEF Early
    <2>2. PICK d \in (IF deployment.gate THEN Judged(doc) ELSE {doc}) : Run(n, d, After(n))
      BY <1>5 DEF InventorySufficiency, Done
    <2>3. d \in Documents BY <2>2, DocumentTypes
    <2> QED BY <2>1, <2>2, <2>3, EarlyReports
  <1>6. CASE AIItineraryReasoning
    <2> DEFINE n == "ai_itinerary_reasoning"
    <2>1. n \in Early BY DEF Early
    <2>2. PICK d \in Documents : Run(n, d, After(n))
      BY <1>6, DocumentTypes DEF AIItineraryReasoning, Done, FailOnGraph
    <2> QED BY <2>1, <2>2, EarlyReports
  <1> QED BY <1>1, <1>2, <1>3, <1>4, <1>5, <1>6, PlanningReports, RoutesReports,
             SequencingReports, BufferReports, ValidationReports, RepairReports
      DEF Next

LEMMA ReportsAlways == Spec => []ReportInv
  <1>1. Init => ReportInv
    BY DEF Init, ReportInv, PastRoutes, PastBuffers, PastVerdict, PastPlanning
  <1>2. TypeOK /\ ReportInv /\ [Next]_vars => ReportInv'
    <2>1. ASSUME UNCHANGED vars, ReportInv PROVE ReportInv'
      BY <2>1 DEF vars, ReportInv, RoutesBlamed, BuffersBlamed
    <2> QED BY <2>1, ReportStep
  <1> QED BY <1>1, <1>2, TypeCorrect, PTL DEF Spec

(* The reports a run commits describe the plan it commits, or belong to a  *)
(* node the run reports failed.                                            *)
THEOREM ReportsAreOfThePlan == Spec => []ReportsDescribeThePlan
  <1>1. ReportInv => ReportsDescribeThePlan
    BY DEF ReportInv, ReportsDescribeThePlan, RoutesBlamed, BuffersBlamed,
           PastRoutes, PastBuffers, PastVerdict
  <1> QED BY <1>1, ReportsAlways, PTL

(* A merged repair is planned before the run commits. *)
THEOREM RepairsArePlanned == Spec => []RepairedPlanIsReplanned
  <1>1. ReportInv => RepairedPlanIsReplanned
    BY DEF ReportInv, RepairedPlanIsReplanned, PastRoutes, PastBuffers, PastVerdict, PastPlanning
  <1> QED BY <1>1, ReportsAlways, PTL

-----------------------------------------------------------------------------
(* A repair attempt that raised, and the result an earlier attempt stored. *)

\* A stored repair result was paid for with an attempt that is counted.
ResultsCounted(d) == d.repair # "none" => d.attempts >= 1

(* A run plans the days again after an attempt that raised only on the     *)
(* strength of a completed repair an earlier attempt had stored, while the *)
(* budget was not used up (route_after_repair reads the stored result).    *)
RaisedOnOldResult ==
    call = "raised" /\ node = "experience_planning" =>
        /\ doc.repair = "completed"
        /\ 1 <= doc.attempts /\ doc.attempts < MaxRepairs

RepairInv == ResultsCounted(doc) /\ ResultsCounted(saved) /\ RaisedOnOldResult

\* What a node other than ai_itinerary_repair leaves of the repair.
SameRepair(d, e) == d.repair = e.repair /\ d.attempts = e.attempts

LEMMA RepairOfDocuments ==
  ASSUME NEW d \in Documents
  PROVE  /\ \A c \in {"unresolved", "known"} : SameRepair([d EXCEPT !.context = c], d)
         /\ \A size \in {"short", "full"} : SameRepair(Planned(d, size), d)
         /\ \A r \in Reports : /\ SameRepair([d EXCEPT !.routes = r], d)
                               /\ SameRepair([d EXCEPT !.buffers = r], d)
                               /\ \A e \in Reordered(d, r) : SameRepair(e, d)
         /\ \A e \in Judged(d) \cup Reasoned(d) \cup Sequenced(d) : SameRepair(e, d)
         /\ SameRepair([d EXCEPT !.fallback = TRUE], d)
         /\ SameRepair(Validated(d), d)
         /\ SameRepair(Finished(d), d)
         /\ SameRepair(d, d)
  <1> USE DEF Documents, SameRepair
  <1>1. \A size \in {"short", "full"} : SameRepair(Planned(d, size), d) BY DEF Planned
  <1>2. \A r \in Reports : \A e \in Reordered(d, r) : SameRepair(e, d) BY DEF Reordered
  <1>3. \A e \in Judged(d) : SameRepair(e, d) BY DEF Judged
  <1>4. \A e \in Reasoned(d) : SameRepair(e, d) BY DEF Reasoned
  <1>5. \A e \in Sequenced(d) : SameRepair(e, d) BY DEF Sequenced
  <1>6. SameRepair(Validated(d), d) BY DEF Validated
  <1>7. SameRepair(Finished(d), d) BY DEF Finished
  <1>8. /\ \A c \in {"unresolved", "known"} : SameRepair([d EXCEPT !.context = c], d)
        /\ \A r \in Reports : /\ SameRepair([d EXCEPT !.routes = r], d)
                              /\ SameRepair([d EXCEPT !.buffers = r], d)
        /\ SameRepair([d EXCEPT !.fallback = TRUE], d)
    OBVIOUS
  <1> QED BY <1>1, <1>2, <1>3, <1>4, <1>5, <1>6, <1>7, <1>8

\* A step that leaves the repair alone and is not an attempt.
LEMMA RepairLeftAlone ==
  ASSUME RepairInv, NEW d, SameRepair(d, doc), doc' = d, saved' \in {d, saved},
         call' = "none"
  PROVE  RepairInv'
  BY DEF RepairInv, ResultsCounted, RaisedOnOldResult, SameRepair

\* The nodes before and after the repair.
LEMMA NodesLeaveRepair ==
  ASSUME TypeOK, RepairInv,
         \/ \E n \in Silent : SilentNode(n)
         \/ DestinationContext \/ InventorySufficiency \/ AIItineraryReasoning
         \/ ExperiencePlanning \/ UnderfillFallback \/ RouteFeasibility
         \/ RouteAwareSequencing \/ TravelTimeBuffer \/ Validation
  PROVE  RepairInv'
  <1>1. doc \in Documents BY DEF TypeOK
  <1>2. "current" \in Reports /\ "failed" \in Reports /\ "stale" \in Reports BY DEF Reports
  <1>3. Aged(doc.routes) \in Reports BY <1>1 DEF Aged, Documents, Reports
  <1>4. ASSUME NEW n, NEW d, NEW next, SameRepair(d, doc), call' = "none",
               Done(n, d, next) \/ FailOnGraph(n, d, next)
        PROVE  RepairInv'
    <2>1. doc' = d /\ saved' \in {d, saved} BY <1>4 DEF Done, FailOnGraph, Run
    <2> QED BY <1>4, <2>1, RepairLeftAlone
  <1>5. ASSUME NEW n, FailStage(n, doc) PROVE RepairInv'
    <2>1. /\ saved' \in {saved, [doc EXCEPT !.progress = "failed"]} /\ doc' = saved'
          /\ call' = "none"
      BY <1>5 DEF FailStage, RaiseWith, Over
    <2>2. SameRepair([doc EXCEPT !.progress = "failed"], doc) BY <1>1 DEF SameRepair, Documents
    <2> QED BY <2>1, <2>2 DEF RepairInv, ResultsCounted, RaisedOnOldResult, SameRepair
  <1>6. CASE \E n \in Silent : SilentNode(n)
    BY <1>1, <1>4, <1>5, <1>6, RepairOfDocuments DEF SilentNode, Quiet
  <1>7. CASE DestinationContext
    BY <1>1, <1>4, <1>5, <1>7, RepairOfDocuments DEF DestinationContext, Quiet
  <1>8. CASE InventorySufficiency
    BY <1>1, <1>4, <1>8, RepairOfDocuments DEF InventorySufficiency, Quiet
  <1>9. CASE AIItineraryReasoning
    BY <1>1, <1>4, <1>9, RepairOfDocuments DEF AIItineraryReasoning, Quiet
  <1>10. CASE ExperiencePlanning
    BY <1>1, <1>4, <1>5, <1>10, RepairOfDocuments DEF ExperiencePlanning
  <1>11. CASE UnderfillFallback
    BY <1>1, <1>4, <1>11, RepairOfDocuments DEF UnderfillFallback, Quiet
  <1>12. CASE RouteFeasibility
    BY <1>1, <1>2, <1>4, <1>12, RepairOfDocuments DEF RouteFeasibility, Quiet
  <1>13. CASE RouteAwareSequencing
    BY <1>1, <1>2, <1>3, <1>4, <1>13, RepairOfDocuments DEF RouteAwareSequencing, Quiet
  <1>14. CASE TravelTimeBuffer
    BY <1>1, <1>2, <1>4, <1>14, RepairOfDocuments DEF TravelTimeBuffer, Quiet
  <1>15. CASE Validation
    BY <1>1, <1>4, <1>5, <1>15, RepairOfDocuments DEF Validation, Quiet
  <1> QED BY <1>6, <1>7, <1>8, <1>9, <1>10, <1>11, <1>12, <1>13, <1>14, <1>15

\* An attempt: counted and stored, or raised over the result stored before.
LEMMA AttemptKeepsRepair ==
  ASSUME TypeOK, LoopInv, RepairInv, AIItineraryRepair
  PROVE  RepairInv'
  <1> DEFINE n == "ai_itinerary_repair"
  <1>1. node = n /\ doc \in Documents /\ doc.attempts \in Nat /\ MaxRepairs \in Nat
    BY PlanningGraphAssumption
    DEF AIItineraryRepair, Done, FailOnGraph, Run, TypeOK, Documents
  <1>2. doc.attempts < MaxRepairs BY <1>1 DEF LoopInv
  <1>3. ResultsCounted(Repaired(doc)) /\ ResultsCounted(Declined(doc))
    BY <1>1 DEF ResultsCounted, Repaired, Declined, Documents
  <1>4. CASE \E d \in {Repaired(doc), Declined(doc)} :
                Done(n, d, AfterRepair(d)) /\ call' # "raised"
    <2>1. PICK d \in {Repaired(doc), Declined(doc)} : Run(n, d, AfterRepair(d)) BY <1>4 DEF Done
    <2>2. doc' = d /\ saved' \in {d, saved} BY <2>1 DEF Run
    <2> QED BY <1>3, <1>4, <2>1, <2>2 DEF RepairInv, ResultsCounted, RaisedOnOldResult
  <1>5. CASE Done(n, doc, AfterRepair(doc)) \/ FailOnGraph(n, doc, AfterRepair(doc))
    <2>1. doc' = doc /\ saved' \in {doc, saved} /\ node' = AfterRepair(doc)
      BY <1>5 DEF Done, FailOnGraph, Run
    <2>2. node' = "experience_planning" => doc.repair = "completed"
      BY <2>1 DEF AfterRepair, FallbackOrFinish
    <2>3. doc.repair = "completed" => 1 <= doc.attempts
      BY <1>1 DEF RepairInv, ResultsCounted
    <2> QED BY <1>2, <2>1, <2>2, <2>3 DEF RepairInv, ResultsCounted, RaisedOnOldResult
  <1> QED BY <1>4, <1>5 DEF AIItineraryRepair

LEMMA EndsLeaveRepair ==
  ASSUME TypeOK, RepairInv, Begin \/ Exhaust \/ Crash \/ Commit \/ FailCommit
  PROVE  RepairInv'
  <1>1. doc \in Documents /\ saved \in Documents /\ Finished(doc) \in Documents
    BY DocumentTypes DEF TypeOK
  <1>2. SameRepair(Finished(doc), doc) /\ SameRepair(doc, doc) BY <1>1, RepairOfDocuments
  <1>3. \A d \in Documents, p \in {"failed", "generating"} :
           SameRepair([d EXCEPT !.progress = p], d)
    BY DEF SameRepair, Documents
  <1>4. ASSUME NEW d \in Documents, SameRepair(d, doc), RaiseWith(d) PROVE RepairInv'
    <2>1. /\ saved' \in {saved, [d EXCEPT !.progress = "failed"]} /\ doc' = saved'
          /\ call' = "none"
      BY <1>4 DEF RaiseWith, Over
    <2> QED BY <1>3, <1>4, <2>1 DEF RepairInv, ResultsCounted, RaisedOnOldResult, SameRepair
  <1>5. CASE Begin
    <2>1. /\ doc' = [saved EXCEPT !.progress = "generating"] /\ saved' = doc'
          /\ node' = "traveler_profile"
      BY <1>5 DEF Begin
    <2> QED BY <1>1, <1>3, <2>1 DEF RepairInv, ResultsCounted, RaisedOnOldResult, SameRepair
  <1>6. CASE Crash
    BY <1>6 DEF Crash, Over, RepairInv, ResultsCounted, RaisedOnOldResult
  <1>7. CASE Commit
    BY <1>2, <1>7 DEF Commit, Over, RepairInv, ResultsCounted, RaisedOnOldResult, SameRepair
  <1>8. CASE Exhaust \/ FailCommit
    BY <1>1, <1>2, <1>4, <1>8 DEF Exhaust, FailCommit
  <1> QED BY <1>5, <1>6, <1>7, <1>8

(* The days are planned again after a repair attempt that raised only when *)
(* an earlier attempt of the trip completed and another one is left: the   *)
(* only way around the docstring of route_after_repair.                    *)
THEOREM RetriesFollowACompletedRepair == Spec => []RaisedOnOldResult
  <1>1. Init => RepairInv
    BY DEF Init, NewTrip, RepairInv, ResultsCounted, RaisedOnOldResult
  <1>2. TypeOK /\ LoopInv /\ RepairInv /\ [Next]_vars => RepairInv'
    <2>1. ASSUME UNCHANGED vars, RepairInv PROVE RepairInv'
      BY <2>1 DEF vars, counters, RepairInv, ResultsCounted, RaisedOnOldResult
    <2>2. ASSUME TypeOK, LoopInv, RepairInv, Next PROVE RepairInv'
      BY <2>2, NodesLeaveRepair, AttemptKeepsRepair, EndsLeaveRepair DEF Next
    <2> QED BY <2>1, <2>2
  <1>3. RepairInv => RaisedOnOldResult BY DEF RepairInv
  <1> QED BY <1>1, <1>2, <1>3, LoopsAlways, TypeCorrect, PTL DEF Spec

(* With one attempt, the default of ai_itinerary_repair_max_attempts, the  *)
(* docstring is true: a repair that raised never leads back to planning.   *)
THEOREM OneAttemptNeverReplans == Spec => [](MaxRepairs = 1 => FailedRepairEndsPlanning)
  <1>1. TypeOK /\ RaisedOnOldResult => (MaxRepairs = 1 => FailedRepairEndsPlanning)
    BY DEF TypeOK, Documents, RaisedOnOldResult, FailedRepairEndsPlanning
  <1> QED BY <1>1, RetriesFollowACompletedRepair, TypeCorrect, PTL
=============================================================================
