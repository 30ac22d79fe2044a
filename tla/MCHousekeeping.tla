--------------------------- MODULE MCHousekeeping ---------------------------
(***************************************************************************)
(* A small instance of Housekeeping for TLC.                               *)
(***************************************************************************)
EXTENDS Housekeeping

CONSTANTS c1, rd1

OneClient == {<<c1, rd1>>}
=============================================================================
