------------------------------ MODULE Transport ------------------------------
(***************************************************************************)
(* The position of JACK's transport as scripts see it (src/transport.c).   *)
(* JACK's position says by its bits which of its parts are valid; the Lua  *)
(* table made of it says so by the fields it has. A script queries a       *)
(* position, changes the table and asks JACK to go there.                  *)
(*                                                                         *)
(* The transport itself is JACK's: starting, stopping and locating it are  *)
(* calls that LuaJack forwards, and leave nothing of its own behind.       *)
(***************************************************************************)
EXTENDS Integers, FiniteSets

CONSTANTS
  Values,            \* the numbers a script puts into a field
  Half,              \* 2^(w-1) for integers of w bits
  JackFields,        \* the fields of JACK's positions, as functions
  Nil, NoPosition,
  MaxChanges         \* bound: the fields a script changes in one table

Mandatory == {"unique_1", "usecs", "frame_rate", "frame", "unique_2"}
Parts == {"BBT", "Timecode", "BBTFrameOffset", "AudioVideoRatio", "VideoFrameOffset"}

Members(part) ==
  CASE part = "BBT" -> {"bar", "beat", "tick", "bar_start_tick", "beats_per_bar",
                        "beat_type", "ticks_per_beat", "beats_per_minute"}
    [] part = "Timecode" -> {"frame_time", "next_time"}
    [] part = "BBTFrameOffset" -> {"bbt_offset"}
    [] part = "AudioVideoRatio" -> {"audio_frames_per_video_frame"}
    [] part = "VideoFrameOffset" -> {"video_offset"}

(* The field of a part that says that a table has the part.                *)
Key(part) ==
  CASE part = "BBT" -> "bar" [] part = "Timecode" -> "frame_time"
    [] part = "BBTFrameOffset" -> "bbt_offset"
    [] part = "AudioVideoRatio" -> "audio_frames_per_video_frame"
    [] part = "VideoFrameOffset" -> "video_offset"

Of(parts) == Mandatory \cup UNION {Members(part) : part \in parts}
Fields == Of(Parts)

(* Integers of w bits; the other fields have 64 bits, or are floats.       *)
Unsigned == {"frame_rate", "frame", "bbt_offset", "video_offset"}
Signed == {"bar", "beat", "tick"}

Word == 2 * Half
Stored(f, v) ==
  IF f \in Unsigned THEN v % Word
  ELSE IF f \in Signed THEN ((v + Half) % Word) - Half
  ELSE v

ASSUME TransportAssumption ==
  /\ Values \subseteq Int /\ Half \in Nat \ {0}
  /\ JackFields \subseteq {field \in [Fields -> Int] : \A f \in Fields : Stored(f, field[f]) = field[f]}
  /\ Nil \notin Int /\ MaxChanges \in Nat

Position == [valid : SUBSET Parts, field : [Fields -> Int]]
ASSUME NoPositionAssumption == NoPosition \notin Position

----------------------------------------------------------------------------
VARIABLES
  table,      \* the Lua table of the script; without fields if it has none
  queried,    \* history: the position it was made from
  changes,    \* history: what the script has changed since, Nil for a field removed
  requested   \* the position JACK is asked to go to

posvars == <<table, queried, changes, requested>>

Empty == [f \in {} |-> 0]

transport_pushposition_Bit(pos) ==          \* mutant: the bit of another part is asked
  [f \in Of({part \in Parts :
     (IF part = "BBTFrameOffset" THEN "BBT" ELSE part) \in pos.valid}) |-> pos.field[f]]

transport_pushposition(pos) == [f \in Of(pos.valid) |-> pos.field[f]]

ValidParts(t) == {part \in Parts : Key(part) \in DOMAIN t}

(* A field that is missing raises an error, and JACK is asked nothing.     *)
Complete(t) == Of(ValidParts(t)) \subseteq DOMAIN t

transport_checkposition(t) ==
  [valid |-> ValidParts(t),
   field |-> [f \in Fields |-> IF f \in Of(ValidParts(t)) THEN Stored(f, t[f]) ELSE 0]]

----------------------------------------------------------------------------
PosInit ==
  /\ table = Empty /\ changes = Empty
  /\ queried = NoPosition /\ requested = NoPosition

TransportQuery(valid, field) ==
  LET pos == [valid |-> valid, field |-> field] IN
  /\ queried = NoPosition /\ queried' = pos /\ table' = transport_pushposition(pos)
  /\ UNCHANGED <<changes, requested>>

MayChange(f) ==
  /\ queried # NoPosition /\ requested = NoPosition
  /\ f \notin DOMAIN changes /\ Cardinality(DOMAIN changes) < MaxChanges

Note(f, v) == [g \in DOMAIN changes \cup {f} |-> IF g = f THEN v ELSE changes[g]]

SetField(f, v) ==
  /\ MayChange(f) /\ changes' = Note(f, v)
  /\ table' = [g \in DOMAIN table \cup {f} |-> IF g = f THEN v ELSE table[g]]
  /\ UNCHANGED <<queried, requested>>

RemoveField(f) ==
  /\ MayChange(f) /\ changes' = Note(f, Nil)
  /\ table' = [g \in DOMAIN table \ {f} |-> table[g]]
  /\ UNCHANGED <<queried, requested>>

TransportReposition ==
  /\ queried # NoPosition /\ requested = NoPosition
  /\ Complete(table)
  /\ requested' = transport_checkposition(table)
  /\ UNCHANGED <<table, queried, changes>>

(* The script is done with the table, or has got an error.                 *)
Forget ==
  /\ queried # NoPosition
  /\ table' = Empty /\ changes' = Empty /\ queried' = NoPosition /\ requested' = NoPosition

PosNext ==
  \/ \E valid \in SUBSET Parts, field \in JackFields : TransportQuery(valid, field)
  \/ \E f \in Fields : (\E v \in Values : SetField(f, v)) \/ RemoveField(f)
  \/ TransportReposition \/ Forget

PosSpec == PosInit /\ [][PosNext]_posvars

----------------------------------------------------------------------------
(* JACK is asked for the position that was queried but for what the script *)
(* has changed: a part is valid if it was, or if its key was set, and not  *)
(* if its key was removed; a field of a valid part that was not changed    *)
(* comes back as it was, though integers are cut to their width on the     *)
(* way; and nothing is said of parts that are not valid.                   *)
StillValid(part) ==
  IF Key(part) \in DOMAIN changes THEN changes[Key(part)] # Nil ELSE part \in queried.valid

RepositionKeeps ==
  requested # NoPosition =>
    /\ \A part \in Parts : part \in requested.valid <=> StillValid(part)
    /\ \A f \in Of(requested.valid) :
         requested.field[f] = IF f \in DOMAIN changes THEN Stored(f, changes[f]) ELSE queried.field[f]
    /\ \A f \in Fields \ Of(requested.valid) : requested.field[f] = 0
----------------------------------------------------------------------------
(* Why it works: the inductive invariant of TransportProofs. The table is  *)
(* what the position queried and the changes since make of it, and JACK is *)
(* asked for what the table says.                                          *)
Present(f) == IF f \in DOMAIN changes THEN changes[f] # Nil ELSE f \in Of(queried.valid)

TableInv ==
  /\ queried \in Position /\ queried.field \in JackFields
  /\ DOMAIN changes \subseteq Fields
  /\ DOMAIN table = {f \in Fields : Present(f)}
  /\ \A f \in DOMAIN table :
       table[f] = IF f \in DOMAIN changes THEN changes[f] ELSE queried.field[f]

RequestInv == Complete(table) /\ requested = transport_checkposition(table)

PosInv ==
  /\ queried = NoPosition => changes = Empty /\ requested = NoPosition
  /\ queried # NoPosition => TableInv
  /\ requested # NoPosition => queried # NoPosition /\ RequestInv
=============================================================================
