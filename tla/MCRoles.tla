------------------------------ MODULE MCRoles -------------------------------
(***************************************************************************)
(* A small instance of Roles for TLC: tags that differ in their case, by an *)
(* underscore, and by a prefix.                                             *)
(***************************************************************************)
EXTENDS Roles

SomeTags == {<<"a">>, <<"A">>, <<"_">>, <<"a", "a">>}
SomeChars == {"a", "A", "_", "u"}
TheUserTag == <<"u">>
LowerCase(c) == IF c = "A" THEN "a" ELSE c
=============================================================================
