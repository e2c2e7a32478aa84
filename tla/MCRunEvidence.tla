---------------------------- MODULE MCRunEvidence ----------------------------
(***************************************************************************)
(* Instance of RunEvidence for TLC: one goal, because the goals of a run   *)
(* do not touch each other, and two contents, so that a file can return to *)
(* one that was replaced and an expected hash can be of either.            *)
(***************************************************************************)
EXTENDS RunEvidence, TLC

CONSTANTS g1, v1, v2, original, changed

OneGoal == {g1}
TwoVerificationIds == {v1, v2}
TwoContents == {original, changed}

Symmetry == Permutations(TwoVerificationIds)

=============================================================================
