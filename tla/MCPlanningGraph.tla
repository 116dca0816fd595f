--------------------------- MODULE MCPlanningGraph ---------------------------
(* Instances of PlanningGraph. *)
EXTENDS PlanningGraph

Deployment(engine, reasoning, repair, gate, sequencing) ==
    [engine |-> engine, reasoning |-> reasoning, repair |-> repair,
     gate |-> gate, sequencing |-> sequencing]

(* Both engines with everything on, the graph with its defaults and with   *)
(* the gate off: a run may find any of them, a later run another.          *)
AllOnGraph == Deployment("langgraph", TRUE, TRUE, TRUE, TRUE)
MCDeployments ==
    {AllOnGraph,
     Deployment("langgraph", TRUE, TRUE, FALSE, FALSE),
     Deployment("langgraph", FALSE, FALSE, TRUE, FALSE),
     Deployment("legacy", FALSE, FALSE, TRUE, TRUE),
     Deployment("legacy", FALSE, FALSE, FALSE, FALSE)}

MCOneDeployment == {AllOnGraph}

MCFlaky ==
    {"destination_context", "experience_planning", "route_feasibility",
     "route_aware_sequencing", "travel_time_buffer", "validation", "ai_itinerary_repair",
     "trip_strategy"}
=============================================================================
