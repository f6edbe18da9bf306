---------------------------- MODULE MCRingBuffer ----------------------------
(***************************************************************************)
(* Small rings for TLC. The header takes 3 bytes, so that it can itself be *)
(* split by the end of the buffer; the ring's 8 bytes (a power of two, as  *)
(* JACK makes it) are no multiple of a message's length, so header and     *)
(* payload meet the end of the buffer in every possible way.               *)
(***************************************************************************)
EXTENDS RingBuffer

LuaOnly == {"lua"}
BothApis == {"lua", "c"}
=============================================================================
