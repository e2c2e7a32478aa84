--------------------------- MODULE MCRunLifecycle ---------------------------
(***************************************************************************)
(* Instance of RunLifecycle for TLC: two requests in flight at a time, the *)
(* smallest number that lets one overtake another between its header check *)
(* and its body.                                                           *)
(***************************************************************************)
EXTENDS RunLifecycle, TLC

CONSTANTS r1, r2

MCRequests == {r1, r2}
MCOps      == AllOps
DecideOnly == {"decide"}

Symmetry == Permutations(MCRequests)

=============================================================================
