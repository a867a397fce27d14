----------------------------- MODULE MCBigBang ------------------------------
(***************************************************************************)
(* BigBang for TLC: users are interchangeable, so their permutations are   *)
(* symmetries.                                                             *)
(***************************************************************************)
EXTENDS BigBang, TLC

UserSymmetry == Permutations(Users)

=============================================================================
