----------------------------- MODULE SerialTrip -----------------------------
(***************************************************************************)
(* What the plan of a trip promises to whoever reads the database: its     *)
(* document, branches and revisions change as if every request and every   *)
(* run did all of its work in one step, on the document as it is at that   *)
(* moment - no copies, no tokens, no jobs, nothing stale.                  *)
(*                                                                         *)
(* Source: the rows that commit_state_with_revision, save, fork and        *)
(* activation write; PlanLineage has the code's interleavings.             *)
(***************************************************************************)
EXTENDS Integers, Sequences

CONSTANTS Job, Feedback, Stamp, Fork, Main, Nothing

VARIABLES state, base, head, revision

trip == <<state, base, head, revision>>

Branch == Fork \cup {Main}
Revisions == {j \in Job : revision[j] # Nothing}

Version(s) == IF s.history = <<>> THEN 1 ELSE Len(s.history)
Content(s) == <<s.plan, s.usable, s.unfinished, s.history, s.report>>

\* The document holds what the head of its branch recorded.
Consistent ==
    head[state.active] # Nothing => Content(revision[head[state.active]].snapshot) = Content(state)

Init ==
    /\ state = [plan |-> <<>>, usable |-> FALSE, unfinished |-> FALSE, history |-> <<>>,
                pending |-> <<>>, applied |-> {}, locked |-> FALSE, report |-> Nothing,
                active |-> Main]
    /\ base = [b \in Branch |-> Nothing]
    /\ head = [b \in Branch |-> Nothing]
    /\ revision = [j \in Job |-> Nothing]

-----------------------------------------------------------------------------
(* The document alone changes.                                             *)

Edit(s) == state' = s /\ UNCHANGED <<base, head, revision>>

Mentions(s, f) == f \in s.applied \/ \E n \in 1..Len(s.pending) : s.pending[n] = f

Submit(f) ==
    /\ ~Mentions(state, f)
    /\ \A r \in Revisions : ~Mentions(revision[r].snapshot, f)
    /\ Edit([state EXCEPT !.pending = Append(@, f)])

Lock(on) == Edit([state EXCEPT !.locked = on])

\* The promotion report is made anew, and no revision records it.
Promote(st) ==
    /\ state.report # st
    /\ \A r \in Revisions : revision[r].snapshot.report # st
    /\ Edit([state EXCEPT !.report = st])

Begin == Edit([state EXCEPT !.unfinished = TRUE])

\* A stage of the plan that run j is making is shown before the plan is complete.
Show(j, usable, unfinished) ==
    /\ state.unfinished
    /\ Edit([state EXCEPT !.plan = <<j>>, !.usable = usable, !.unfinished = unfinished])

-----------------------------------------------------------------------------
(* The document and its lineage change together.                           *)

\* The one revision of its version becomes the head of the branch.
Record(j, s) ==
    /\ revision[j] = Nothing
    /\ \A r \in Revisions : revision[r].branch = s.active => revision[r].label # Version(s)
    /\ state' = s
    /\ revision' = [revision EXCEPT ![j] =
           [branch |-> s.active, parent |-> head[s.active], label |-> Version(s), snapshot |-> s]]
    /\ head' = [head EXCEPT ![s.active] = j]
    /\ UNCHANGED base

Generated(j, usable) ==
    [state EXCEPT !.plan = <<j>>, !.usable = usable, !.unfinished = FALSE,
                  !.history = IF @ = <<>> THEN <<j>> ELSE @]

\* No revision when the branch has one of this version, or when the commit failed and the
\* document alone was saved.
Generate(j, usable) ==
    /\ revision[j] = Nothing
    /\ state.unfinished \/ state.plan = <<j>>
    /\ Edit(Generated(j, usable)) \/ Record(j, Generated(j, usable))

\* One more version, with the oldest pending event, of exactly what the head holds.
Regenerate(j) ==
    /\ ~state.locked
    /\ state.pending # <<>>
    /\ Consistent
    /\ Record(j, [state EXCEPT !.plan = Append(@, j), !.history = Append(@, j),
                               !.pending = Tail(@), !.applied = @ \cup {Head(state.pending)}])

CreateFork(b, r) ==
    /\ base[b] = Nothing
    /\ r \in Revisions
    /\ base' = [base EXCEPT ![b] = r]
    /\ head' = [head EXCEPT ![b] = r]
    /\ UNCHANGED <<state, revision>>

\* Nothing unrecorded is left behind.
Activate(b) ==
    /\ head[b] # Nothing
    /\ state.pending = <<>>
    /\ ~state.locked
    /\ Consistent
    /\ Edit([revision[head[b]].snapshot EXCEPT !.active = b])

-----------------------------------------------------------------------------
Next ==
    \/ \E f \in Feedback : Submit(f)
    \/ \E on \in BOOLEAN : Lock(on)
    \/ Begin
    \/ \E st \in Stamp : Promote(st)
    \/ \E j \in Job, u, f \in BOOLEAN : Show(j, u, f)
    \/ \E j \in Job, u \in BOOLEAN : Generate(j, u)
    \/ \E j \in Job : Regenerate(j)
    \/ \E b \in Fork, r \in Job : CreateFork(b, r)
    \/ \E b \in Branch : Activate(b)

Spec == Init /\ [][Next]_trip

=============================================================================
