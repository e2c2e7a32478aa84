----------------------------- MODULE MCSecretStore -----------------------------
(***************************************************************************)
(* Instance of SecretStore for TLC.  The five managed services differ in   *)
(* their names only; two of them are looked at.                            *)
(***************************************************************************)
EXTENDS SecretStore, TLC

CONSTANTS r1, r2, p1, k1, k2

TwoRefs      == {r1, r2}
OneProvider  == {p1}
TwoKeys      == {k1, k2}
FourBackends == {LocalFile, HostedMemory, ExternalCommand, Aws}

Symmetry == Permutations(TwoRefs)

=============================================================================
