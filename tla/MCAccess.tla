------------------------------ MODULE MCAccess ------------------------------
(***************************************************************************)
(* A small instance of Access for TLC.                                     *)
(***************************************************************************)
EXTENDS Access, TLC

CONSTANTS c1, c2, rd1, name, role

\* Two clients with the same redirect URI. The second is entitled to nothing; a
\* later (or earlier) configuration entitles the first to more.
SharedUri == {<<c1, rd1>>, <<c2, rd1>>}
Whitelists == {c1 :> {name} @@ c2 :> {}, c1 :> {name, role} @@ c2 :> {}}

Symmetry == Permutations(Authorization)
=============================================================================
