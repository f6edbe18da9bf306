----------------------------- MODULE MCProcess -----------------------------
(***************************************************************************)
(* Small instances of Process for TLC.                                     *)
(***************************************************************************)
EXTENDS Process

CONSTANTS p1

OnePort == {p1}
=============================================================================
