------------------------------- MODULE MCTags -------------------------------
(***************************************************************************)
(* Small instances of Tags for TLC.                                        *)
(***************************************************************************)
EXTENDS Tags, TLC

CONSTANT t1

\* A plain account, a tagged one, a staff member with a tag.
SomeRoles == {{"user"}, {t1}, {"staff", t1}, {"staff", "admin"}}

Symmetry == Permutations(Request)
=============================================================================
