-------------------------------- MODULE Sums --------------------------------
(***************************************************************************)
(* Sums of mappings to naturals, for the invariants that relate a total    *)
(* the contracts cache to the per-account mapping it summarises.           *)
(*                                                                         *)
(* The sum is the number of unit tokens <<a, i>>, i \in 1..f[a]: a         *)
(* cardinality needs no recursion, so CommonTheorems can prove how a sum     *)
(* moves when one entry does.                                              *)
(***************************************************************************)
EXTENDS Integers, FiniteSets

Units(f) == UNION {{a} \X (1..f[a]) : a \in DOMAIN f}

SumOver(f) == Cardinality(Units(f))

=============================================================================
