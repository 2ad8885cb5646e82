-------------------------- MODULE MCMissionService --------------------------
(***************************************************************************)
(* Instances of MissionService for TLC.                                    *)
(***************************************************************************)
EXTENDS MissionService, TLC

CONSTANTS polA, polB, r1, r2

\* The two requests are interchangeable.
RequestSymmetry == Permutations({r1, r2})

\* Two policy objects under one identity, as a policy and its next version.
SameIds == [pol \in Policy |-> 1]

\* Two policies with different identities.
OwnIds == [pol \in Policy |-> IF pol = polA THEN 1 ELSE 2]

=============================================================================
