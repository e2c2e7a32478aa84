--------------------------- MODULE MCStepExecution ---------------------------
(***************************************************************************)
(* Instance of StepExecution for TLC.  Ids are interchangeable.            *)
(***************************************************************************)
EXTENDS StepExecution, TLC

CONSTANTS s1, s2

OneStepId  == {s1}
TwoStepIds == {s1, s2}

Symmetry == Permutations(TwoStepIds)

=============================================================================
