----------------------------- MODULE MCUserAuth -----------------------------
(* Small instances of UserAuth for TLC.                                     *)
EXTENDS UserAuth, FiniteSets, TLC

\* Goroutines and uuids are interchangeable: no operator orders or names them.
Symmetry == Permutations(Requests) \union Permutations(UserIds) \union Permutations(Tokens)

\* The server's clock one tick ahead of UTC.
Ahead == 1

\* Bound of the two-session instance: access tokens in clients' hands.
FewAccessTokens == Cardinality(jwts) <= 2
=============================================================================
