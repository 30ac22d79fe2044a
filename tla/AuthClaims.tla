---------------------------- MODULE AuthClaims -----------------------------
(***************************************************************************)
(* What a comment in the repository says of the login service, stated as a  *)
(* property of Auth that TLC refutes.                                       *)
(***************************************************************************)
EXTENDS AuthHistory

\* Every request under way has read the restriction: no race is involved.
AllHaveRead(st) == \A r \in Request : Active(r) => Untimed(local[r].info, st)

\* admin.rs:86: a restriction without a duration lasts until it is lifted by
\* hand. Here: no step of a login that knows of an untimed Restricted replaces
\* it.
RestrictedUntilLifted ==
    [][\A u \in User :
          Untimed(users[u], "Restricted") /\ AllHaveRead("Restricted") =>
             ByAdministrator \/ SameRestriction(u)]_vars
=============================================================================
