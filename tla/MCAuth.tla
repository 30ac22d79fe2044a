------------------------------- MODULE MCAuth -------------------------------
(***************************************************************************)
(* Small instances of Auth for TLC.                                        *)
(***************************************************************************)
EXTENDS AuthClaims, TLC

\* What administrators ask for.
NoChange == {}
LastingChanges == {[state |-> "Restricted", hours |-> 1],
                   [state |-> "Locked", hours |-> 0],
                   [state |-> "BypassExternal", hours |-> 0]}

PermanentRestriction == [state: {"Restricted"}, hours: {0}]

\* What the external system knows: the whole profile.
WholeProfile == {ProfileField}

\* Direct logins to the user centre; logins for an application.
Direct == [direct: {TRUE}, sync: {FALSE}]
OAuth == [direct: {FALSE}, sync: {FALSE}]
DirectOrOAuth == [direct: BOOLEAN, sync: {FALSE}]

Symmetry == Permutations(Request)
=============================================================================
