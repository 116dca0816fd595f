-------------------------- MODULE ModelStageHistory --------------------------
(***************************************************************************)
(* ModelStage with a history variable: for every stage, the providers that *)
(* it could not have used at some moment of its first choice, whatever it  *)
(* read and whenever it read it.  The variable records and never restricts *)
(* what the stages do.                                                     *)
(***************************************************************************)
EXTENDS ModelStage

VARIABLE barred

history == <<vars, barred>>

\* An open circuit, or a probation whose one request another stage has.
Unavailable(p) == State(p) = "open" \/ (State(p) = "half_open" /\ slot[p])

\* The probation ends under the stage's eyes: the probe it is about to ask for is refused,
\* although an answer to somebody else has just closed the circuit.
LeavesProbation(p) == State(p) = "half_open" /\ State(p)' # "half_open"

\* What a stage has been kept from is forgotten when it finds somebody to ask.
Watch ==
    barred' = [s \in Stage |->
        IF pc'[s] \in {"reading", "refused"}
        THEN barred[s] \cup {p \in Provider : Unavailable(p)' \/ LeavesProbation(p)}
        ELSE IF current'[s] = Nobody THEN barred[s] ELSE {}]

WatchedInit == Init /\ barred = [s \in Stage |-> {}]

WatchedSpec == WatchedInit /\ [][Next /\ Watch]_history

FairWatchedSpec == WatchedSpec /\ \A s \in Stage : WF_vars(Step(s))

-----------------------------------------------------------------------------
(* Property.                                                               *)

(* A stage that gives up without asking anybody had a reason for each of   *)
(* the two providers, although it read them one after the other and used   *)
(* what it read later: while it was choosing, the provider was open, or on *)
(* probation with its one request in another stage's hands, or came back   *)
(* from probation between the look and the probe (first_provider).         *)
NobodyAskedNobodyFree ==
    \A s \in Stage :
        pc[s] \in {"closing", "done"} /\ Routed(s) /\ current[s] = Nobody => barred[s] = Provider

=============================================================================
