-------------------------- MODULE MCPreflightPolicy --------------------------
(***************************************************************************)
(* Instance of PreflightPolicy for TLC: limits at the prices of one writing*)
(* (3) and one shell action (6) or no hard limit, the narrowest and the    *)
(* widest preset, and ids that mean safe_exec and the starter pack.        *)
(***************************************************************************)
EXTENDS PreflightPolicy

MCSoftLimits == {3}
MCHardLimits == {NoLimit, 6}
MCPolicyIds  == {"read_only", "full_exec", "somebody_elses"}
MCOrgs       == {"regulated", "somebody_elses"}

=============================================================================
