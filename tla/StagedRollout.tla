--------------------------- MODULE StagedRollout ----------------------------
(***************************************************************************)
(* What a rollout promises: a deployment goes from deployed to wired to    *)
(* live, each in one piece, and never back; and the deployment the file    *)
(* names goes live unless a later one replaces it.                       *)
(***************************************************************************)
EXTENDS Naturals

CONSTANT MaxDeployments

VARIABLES stage,    \* of each deployment
          latest    \* the one the deployments file names, 0 before the first

Deployments == 1 .. MaxDeployments
Stages == {"none", "deployed", "wired", "live"}

Init == stage = [d \in Deployments |-> "none"] /\ latest = 0

Advance(d, from, to) == stage[d] = from /\ stage' = [stage EXCEPT ![d] = to]

Deploy(d) ==
    /\ d > latest
    /\ \A e \in Deployments : e < d => stage[e] # "none"
    /\ Advance(d, "none", "deployed") /\ UNCHANGED latest
Save(d) == d > latest /\ stage[d] = "deployed" /\ latest' = d /\ UNCHANGED stage
Wire(d) == d <= latest /\ Advance(d, "deployed", "wired") /\ UNCHANGED latest
GoLive(d) == d <= latest /\ Advance(d, "wired", "live") /\ UNCHANGED latest

Next == \E d \in Deployments : Deploy(d) \/ Save(d) \/ Wire(d) \/ GoLive(d)

\* The operator does not leave the deployment of the file half done.
LatestGoesLive ==
    \A d \in Deployments : latest = d ~> (stage[d] = "live" \/ latest # d)

Spec == Init /\ [][Next]_<<stage, latest>>
=============================================================================
