--------------------------- MODULE MCSingularity ----------------------------
(***************************************************************************)
(* Singularity for TLC: users are interchangeable, so their permutations   *)
(* are symmetries.                                                         *)
(***************************************************************************)
EXTENDS Singularity, TLC

UserSymmetry == Permutations(Users)

=============================================================================
