------------------------------- MODULE MCCerts -------------------------------
(***************************************************************************)
(* Small instances of Certs for TLC: one replica or two.                   *)
(***************************************************************************)
EXTENDS Certs

CONSTANTS r1, r2
=============================================================================
