--------------------------- MODULE MCPortBuffer ---------------------------
(***************************************************************************)
(* Small instances of PortBuffer for TLC.                                  *)
(***************************************************************************)
EXTENDS PortBuffer

CONSTANTS ain, aout, min, mout

OneAudioIn == {ain}
OneAudioOut == {aout}
OneMidiIn == {min}
OneMidiOut == {mout}
=============================================================================
