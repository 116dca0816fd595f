---------------------------- MODULE MCAdmission ----------------------------
(* Admission for TLC: model values, and symmetry for the safety runs. *)
EXTENDS Admission, TLC

Symmetry == Permutations(User) \cup Permutations(Trip) \cup Permutations(Job)

=============================================================================
