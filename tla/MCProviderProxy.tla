--------------------------- MODULE MCProviderProxy ---------------------------
(***************************************************************************)
(* Instances of ProviderProxy for TLC: two chats of the API server and one *)
(* of the CLI, two providers of which the first is preferred, and a third  *)
(* without a credential.  Chats carry a budget of one call and two tokens  *)
(* or none, and limit_state calls the second provider limited or nobody.   *)
(***************************************************************************)
EXTENDS ProviderProxy, TLC

CONSTANTS c1, c2, c3, p1, p2, p3

TwoOfServer == {c1, c2}
OneOfServer == {c1}
AndOneOfCli == {c1, c2, c3}
OneEach     == {c1, c3}

OneProvider  == {p1}
TwoProviders == {p1, p2}
Failover     == {<<p3, p1, p2>>}
Single       == {<<p1>>}

NoAlias  == {}
NotTheSecond == {{}, {p2}}
OneAlias == {"alias"}
NoTokens == {0}
NoneOrSmall == {[requests |-> 0, tokens |-> 0], [requests |-> 1, tokens |-> 2]}
OneCall     == {[requests |-> 1, tokens |-> 8]}
SmallEstimates == {1}
SmallTokens    == {2}
ShortRetries   == {0, 1, 2}

\* The chats of the server are alike.
Symmetry == Permutations(TwoOfServer)

=============================================================================
