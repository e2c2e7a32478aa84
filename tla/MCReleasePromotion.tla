--------------------------- MODULE MCReleasePromotion ---------------------------
(***************************************************************************)
(* Two parts, two builds, two versions, one script stopped or killed.      *)
(* Promotions are tried with every gate cleared, with none, and without    *)
(* the operator's confirmation alone.                                      *)
(***************************************************************************)
EXTENDS ReleasePromotion, TLC

MCJobs       == Scripts \ {[line |-> "native", signs |-> FALSE]}
MCSymmetry   == Permutations(Parts)
MCSituations == {{}, Gates, {"missing_public_release_confirmation"}}
=============================================================================
