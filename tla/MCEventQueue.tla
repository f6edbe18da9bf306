---------------------------- MODULE MCEventQueue ----------------------------
(***************************************************************************)
(* Small instances of EventQueue for TLC.                                  *)
(***************************************************************************)
EXTENDS EventQueue

CONSTANTS c1, c2

OneClient == {c1}
TwoClients == {c1, c2}
=============================================================================
