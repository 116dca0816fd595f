---------------------------- MODULE MCModelStage ----------------------------
(* The Groq <-> Gemini pair and a few stages of concurrent generations.      *)
EXTENDS ModelStage, TLC

CONSTANTS groq, gemini, s1

Pair == {[s \in Stage |-> <<groq, gemini>>]}
\* failover on with both configured, or each stage on its own provider
Mixed == Pair \cup {[s \in Stage |-> <<groq>>], [s \in Stage |-> IF s = s1 THEN <<gemini>> ELSE <<groq>>]}

Symmetry == Permutations(Stage)

=============================================================================
