------------------------------ MODULE MCZline -------------------------------
(***************************************************************************)
(* A small instance of Zline for TLC.                                      *)
(***************************************************************************)
EXTENDS Zline, TLC

CONSTANTS u1, u2, l1, l2, l3, l4

\* Two users; two logins of the first, one with a wrong password; the last
\* login has the right one, but it is too long. The site redirects the third.
Users == {u1, u2}
Logins == {l1, l2, l3, l4}
Owner == l1 :> u1 @@ l2 :> u1 @@ l3 :> u2 @@ l4 :> u2
Right == {l1, l3, l4}

\* A short row, two rows without number, a number twice, and one row as it should
\* be.
Students == <<[columns |-> 4, xuid |-> u2, student |-> u1],
              [columns |-> 5, xuid |-> Blank, student |-> u2],
              [columns |-> 5, xuid |-> u1, student |-> u1],
              [columns |-> 5, xuid |-> u2, student |-> u2],
              [columns |-> 6, xuid |-> u1, student |-> u1],
              [columns |-> 5, xuid |-> Blank, student |-> u1]>>
=============================================================================
