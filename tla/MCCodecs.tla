------------------------------ MODULE MCCodecs ------------------------------
(***************************************************************************)
(* Bounds for TLC of the two modules about the conversion of data: Midi    *)
(* has the ends and the middle of every range, the values around a carry,  *)
(* every kind of status byte; Transport values beyond 4 bits on both       *)
(* sides. They have nothing in common: while one runs, the other does not. *)
(***************************************************************************)
EXTENDS Midi, Transport

Carries == {0, 1, 127, 128, 8191, 8192, 16256, 16383}
EdgeTimes == {0, 255, 256, 65536, 16777215, 2147483647}
EveryStatus == 120..255
AroundWord == {-9, 3, 16}

JackField ==
  [unique_1 |-> 100, usecs |-> 99, frame_rate |-> 15, frame |-> 0, unique_2 |-> 100,
   bar |-> -8, beat |-> 7, tick |-> 1, bar_start_tick |-> 95, beats_per_bar |-> 94,
   beat_type |-> 93, ticks_per_beat |-> 92, beats_per_minute |-> 91,
   frame_time |-> 90, next_time |-> 89, bbt_offset |-> 8,
   audio_frames_per_video_frame |-> 88, video_offset |-> 9]
OneJackPosition == {JackField}

MCInit == Init /\ PosInit
MCNext ==
  \/ PosInit /\ Next /\ UNCHANGED posvars
  \/ Init /\ PosNext /\ UNCHANGED vars
MCSpec == MCInit /\ [][MCNext]_<<vars, posvars>>
=============================================================================
