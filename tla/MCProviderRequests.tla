------------------------- MODULE MCProviderRequests -------------------------
(* An instance of ProviderRequests: routes of one credit and a place       *)
(* search that reserves two, a budget that three of them exceed, and fewer *)
(* slots than workers.                                                     *)
EXTENDS ProviderRequests

CONSTANTS g1, g2, walk, places

MCGenerations == {g1, g2}
MCRequests == {walk, places}
MCRoutes == {walk}
MCCredits == [r \in MCRequests |-> IF r = places THEN 2 ELSE 1]
MCMaxBatches == [g \in MCGenerations |-> IF g = g1 THEN 2 ELSE 1]
=============================================================================
