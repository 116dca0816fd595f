------------------------- MODULE MCModelStageHistory -------------------------
(* The deployments of MCModelStage, with what the stages were kept from.     *)
EXTENDS MCModelStage, ModelStageHistory

=============================================================================
