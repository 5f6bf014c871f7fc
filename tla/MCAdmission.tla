----------------------------- MODULE MCAdmission -----------------------------
(***************************************************************************)
(* The instances of Admission that are model-checked.                      *)
(***************************************************************************)
EXTENDS Admission, TLC

Symmetry == Permutations(Threads)

=============================================================================
