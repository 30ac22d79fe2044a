------------------------------- MODULE MCOidc -------------------------------
(***************************************************************************)
(* A small instance of Oidc for TLC.                                       *)
(***************************************************************************)
EXTENDS Oidc, TLC

CONSTANTS c1, c2, rd1

\* Two clients with the same redirect URI.
SharedUri == {<<c1, rd1>>, <<c2, rd1>>}

Symmetry == Permutations(Authorization) \cup Permutations(Exchange)
               \cup Permutations(User)
=============================================================================
