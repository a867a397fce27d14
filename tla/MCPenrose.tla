----------------------------- MODULE MCPenrose ------------------------------
(***************************************************************************)
(* Penrose for TLC: the rate settings the markets are deployed with, and   *)
(* the symmetry of markets that have the same ones.                        *)
(***************************************************************************)
EXTENDS Penrose

CONSTANTS deployedMin, deployedMax, deployedRatio

MCInitialConfig ==
  [m \in Markets |-> [min |-> deployedMin, max |-> deployedMax, againstEth |-> deployedRatio]]

=============================================================================
