-------------------------------- MODULE Midi --------------------------------
(***************************************************************************)
(* Encoding and decoding of MIDI messages (luajack/midi.lua). A binary     *)
(* string is the sequence of its bytes; a decoded message is a record of   *)
(* its name, its channel (0 for the messages that have none) and its       *)
(* parameters in the order in which the encoding function takes them, or   *)
(* an error in their place. Names are written with underscores where the   *)
(* code has spaces. Strings for dumps are left out.                        *)
(*                                                                         *)
(* The machine at the end is a script that encodes messages, or receives   *)
(* them from a MIDI port, passes them on with their times, decodes them    *)
(* and encodes again what it has decoded.                                  *)
(***************************************************************************)
EXTENDS Integers, Sequences

CONSTANTS
  Chans, Values7, Values14, Times,  \* the arguments the script passes
  StatusBytes, DataBytes            \* the bytes of the messages it receives

Byte == 0..255
ASSUME MidiAssumption ==
  /\ Chans \subseteq 1..16 /\ Values7 \subseteq 0..127 /\ Values14 \subseteq 0..16383
  /\ \A t \in Times : t \in Nat /\ t \div 16777216 \in Byte       \* 32 bits
  /\ StatusBytes \subseteq Byte /\ DataBytes \subseteq Byte

----------------------------------------------------------------------------
(* Message maps: name_to_type, decodefunc by the shape of the parameters.  *)

TwoNames == {"note_off", "note_on", "aftertouch", "control_change"}
Voice == TwoNames \cup {"program_change", "channel_pressure", "pitch_wheel"}
WithData == {"mtc_quarter_frame", "song_position", "song_select"}
NoData == {"tune_request", "end_of_exclusive", "clock", "start", "continue", "stop",
           "active_sensing", "reset"}
Names == Voice \cup WithData \cup NoData \cup {"system_exclusive"}

name_to_type == [name \in Names |->
  CASE name = "note_off" -> 128 [] name = "note_on" -> 144
    [] name = "aftertouch" -> 160 [] name = "control_change" -> 176
    [] name = "program_change" -> 192 [] name = "channel_pressure" -> 208
    [] name = "pitch_wheel" -> 224 [] name = "system_exclusive" -> 240
    [] name = "mtc_quarter_frame" -> 241 [] name = "song_position" -> 242
    [] name = "song_select" -> 243 [] name = "tune_request" -> 246
    [] name = "end_of_exclusive" -> 247 [] name = "clock" -> 248
    [] name = "start" -> 250 [] name = "continue" -> 251
    [] name = "stop" -> 252 [] name = "active_sensing" -> 254
    [] name = "reset" -> 255]

Undefined == "undefined"
type_to_name == [t \in Byte |->
  IF \E name \in Names : name_to_type[name] = t
  THEN CHOOSE name \in Names : name_to_type[name] = t
  ELSE Undefined]

(* decode_kv, decode_kp and decode_cc take two numbers, decode_n one       *)
(* counted from 1, decode_p one, decode_v one of 14 bits, decode_mtcqf the *)
(* two halves of a byte.                                                   *)
decodefunc == [name \in Names \cup {Undefined} |->
  CASE name \in TwoNames -> "two"
    [] name \in {"program_change", "song_select"} -> "number"
    [] name = "channel_pressure" -> "one"
    [] name \in {"pitch_wheel", "song_position"} -> "14_bits"
    [] name = "mtc_quarter_frame" -> "nibbles"
    [] name \in NoData -> "nodata"
    [] OTHER -> "notdefined"]

----------------------------------------------------------------------------
(* Decoding.                                                               *)

lsbmsbtonum_Swapped(lsb, msb) == lsb * 128 + msb   \* mutant: the bytes swapped

lsbmsbtonum(lsb, msb) == msb * 128 + lsb

numtolsbmsb_NoMod(num) == <<num, num \div 128>>    \* mutant: the low part is not cut

numtolsbmsb(num) == <<num % 128, num \div 128>>

(* Errors in place of the parameters, which are never negative.            *)
TooShort == <<-1>>
NotDefined == <<-2>>

(* The bytes of a message that its decoder wants.                          *)
Wanted(shape) ==
  CASE shape \in {"two", "14_bits"} -> 3
    [] shape \in {"number", "one", "nibbles"} -> 2
    [] OTHER -> 1

Parameters(shape, msg) ==
  IF shape = "notdefined" THEN NotDefined
  ELSE IF Len(msg) < Wanted(shape) THEN TooShort
  ELSE CASE shape = "two" -> <<msg[2], msg[3]>>
         [] shape = "number" -> <<msg[2] + 1>>
         [] shape = "one" -> <<msg[2]>>
         [] shape = "14_bits" -> <<lsbmsbtonum(msg[2], msg[3])>>
         [] shape = "nibbles" -> <<msg[2] \div 16, msg[2] % 16>>
         [] OTHER -> <<>>

(* decode_status(): a voice message has its channel in the low bits.       *)
IsVoice(status) == status >= 128 /\ status < 240

TypeOfStatus_All(status) == (status \div 16) * 16  \* mutant: of every status

TypeOfStatus(status) == IF IsVoice(status) THEN (status \div 16) * 16 ELSE status

Channel(status) == IF IsVoice(status) THEN status - TypeOfStatus(status) + 1 ELSE 0

Message(name, chan, par) == [name |-> name, chan |-> chan, par |-> par]
OutOfRange == Message("out_of_range", 0, <<>>)

decode(msg) ==
  LET status == msg[1]
      name == type_to_name[TypeOfStatus(status)]
  IN IF status < 128 THEN OutOfRange
     ELSE Message(name, Channel(status), Parameters(decodefunc[name], msg))

----------------------------------------------------------------------------
(* Encoding. What the functions assert of their arguments is Valid.        *)

midi_status(name, chan) ==
  IF name \in Voice THEN name_to_type[name] + chan - 1 ELSE name_to_type[name]

Chan == 1..16
Value7 == 0..127
Value14 == 0..128 * 128 - 1

two_bytes(name, chan, a, b) == <<midi_status(name, chan), a, b>>
program_change(chan, number) == <<192 + chan - 1, number - 1>>
channel_pressure(chan, pressure) == <<208 + chan - 1, pressure>>
pitch_wheel(chan, value) == <<224 + chan - 1>> \o numtolsbmsb(value)
mtc_quarter_frame(nnn, dddd) == <<241, nnn * 16 + dddd>>
song_position(value) == <<242>> \o numtolsbmsb(value)
song_select(number) == <<243, number - 1>>

Params(m, n, S) == m.par \in Seq(S) /\ Len(m.par) = n

Valid(m) ==
  \/ m.name \in TwoNames /\ m.chan \in Chan /\ Params(m, 2, Value7)
  \/ m.name = "program_change" /\ m.chan \in Chan /\ Params(m, 1, 1..128)
  \/ m.name = "channel_pressure" /\ m.chan \in Chan /\ Params(m, 1, Value7)
  \/ m.name = "pitch_wheel" /\ m.chan \in Chan /\ Params(m, 1, Value14)
  \/ m.chan = 0 /\ \/ /\ m.name = "mtc_quarter_frame" /\ Params(m, 2, 0..15)
                      /\ m.par[1] <= 7
                   \/ m.name = "song_position" /\ Params(m, 1, Value14)
                   \/ m.name = "song_select" /\ Params(m, 1, 1..128)
                   \/ m.name \in NoData /\ m.par = <<>>

Encoded(m) ==
  CASE m.name \in TwoNames -> two_bytes(m.name, m.chan, m.par[1], m.par[2])
    [] m.name = "program_change" -> program_change(m.chan, m.par[1])
    [] m.name = "channel_pressure" -> channel_pressure(m.chan, m.par[1])
    [] m.name = "pitch_wheel" -> pitch_wheel(m.chan, m.par[1])
    [] m.name = "mtc_quarter_frame" -> mtc_quarter_frame(m.par[1], m.par[2])
    [] m.name = "song_position" -> song_position(m.par[1])
    [] m.name = "song_select" -> song_select(m.par[1])
    [] m.name \in NoData -> <<name_to_type[m.name]>>

----------------------------------------------------------------------------
(* Timed messages: the time in four bytes, little endian, and the message. *)

Bytes4(t) == <<t % 256, (t \div 256) % 256, (t \div 65536) % 256, t \div 16777216>>
tmsg(time, msg) == Bytes4(time) \o msg

UnpackI4(s) == s[1] + 256 * s[2] + 65536 * s[3] + 16777216 * s[4]
time_msg(s) == [time |-> UnpackI4(s), msg |-> SubSeq(s, 5, Len(s))]

----------------------------------------------------------------------------
VARIABLES
  step,      \* what the script does next
  sent,      \* history: the time and the message it began with
  asked,     \* history: what it has asked for, when it encoded that message
  line,      \* the timed message that is passed on
  told,      \* what decode() has returned
  again      \* the message encoded from that

vars == <<step, sent, asked, line, told, again>>

NotAsked == Message("received", 0, <<>>)
NotTold == Message("not_told", 0, <<>>)

Init ==
  /\ step = "begin" /\ sent = [time |-> 0, msg |-> <<>>] /\ asked = NotAsked
  /\ line = <<>> /\ told = NotTold /\ again = <<>>

PassOn(time, msg) ==
  /\ step' = "decode"
  /\ sent' = [time |-> time, msg |-> msg] /\ line' = tmsg(time, msg)
  /\ UNCHANGED <<told, again>>

Encode(time, m) ==
  /\ Valid(m) /\ asked' = m
  /\ PassOn(time, Encoded(m))

Receive(time, msg) ==
  /\ asked' = NotAsked
  /\ PassOn(time, msg)

Decode ==
  /\ step = "decode" /\ step' = "encode"
  /\ told' = decode(time_msg(line).msg)
  /\ UNCHANGED <<sent, asked, line, again>>

EncodeAgain ==
  /\ step = "encode" /\ step' = "end"
  /\ Valid(told) /\ again' = Encoded(told)
  /\ UNCHANGED <<sent, asked, line, told>>

Restart ==
  /\ step \in {"encode", "end"} /\ step' = "begin"
  /\ sent' = [time |-> 0, msg |-> <<>>] /\ asked' = NotAsked
  /\ line' = <<>> /\ told' = NotTold /\ again' = <<>>

(* The messages of the bounds above.                                       *)
AskedFor ==
  [name : TwoNames, chan : Chans, par : Values7 \X Values7]
  \cup [name : {"program_change"}, chan : Chans, par : {<<n + 1>> : n \in Values7}]
  \cup [name : {"channel_pressure"}, chan : Chans, par : {<<n>> : n \in Values7}]
  \cup [name : {"pitch_wheel"}, chan : Chans, par : {<<n>> : n \in Values14}]
  \cup [name : {"mtc_quarter_frame"}, chan : {0}, par : (0..7) \X (0..15)]
  \cup [name : {"song_position"}, chan : {0}, par : {<<n>> : n \in Values14}]
  \cup [name : {"song_select"}, chan : {0}, par : {<<n + 1>> : n \in Values7}]
  \cup [name : NoData, chan : {0}, par : {<<>>}]

Received ==
  {<<s>> : s \in StatusBytes}
  \cup {<<s, a>> : s \in StatusBytes, a \in DataBytes}
  \cup {<<s, a, b>> : s \in StatusBytes, a \in DataBytes, b \in DataBytes}

Next ==
  \/ step = "begin" /\ \E t \in Times : \E m \in AskedFor : Encode(t, m)
  \/ step = "begin" /\ \E t \in Times : \E msg \in Received : Receive(t, msg)
  \/ Decode \/ EncodeAgain \/ Restart

Spec == Init /\ [][Next]_vars

----------------------------------------------------------------------------
(* What is encoded is a MIDI message: a status byte and the data bytes     *)
(* that its type wants, which have their high bit clear.                   *)
WellFormed(msg, name) ==
  /\ msg \in Seq(Byte) /\ Len(msg) = Wanted(decodefunc[name])
  /\ msg[1] >= 128 /\ \A i \in 2..Len(msg) : msg[i] < 128

TypeOK ==
  /\ step \in {"begin", "decode", "encode", "end"}
  /\ line \in Seq(Byte)
  /\ asked # NotAsked => WellFormed(sent.msg, asked.name)
  /\ step = "end" => WellFormed(again, told.name)

(* A message is decoded to the name, the channel and the parameters it was *)
(* encoded from, and its time is the one it was sent with, for every       *)
(* message the encoding functions accept.                                  *)
RoundTrip ==
  /\ step # "begin" => time_msg(line) = sent
  /\ asked # NotAsked /\ told # NotTold => told = asked

(* A message received, its data bytes having their high bit clear, is      *)
(* encoded again to the same bytes, without any it has in excess.          *)
Recoded ==
  step = "end" /\ (\A i \in 2..Len(sent.msg) : sent.msg[i] < 128) =>
    again = SubSeq(sent.msg, 1, Len(again))

----------------------------------------------------------------------------
(* Why it works: the inductive invariant of MidiProofs. What is on the     *)
(* line, what was told and what was encoded again are functions of the     *)
(* message the script began with.                                          *)
OnLine ==
  /\ sent.time \in Times /\ sent.msg \in Seq(Byte) /\ sent.msg # <<>>
  /\ sent = [time |-> sent.time, msg |-> sent.msg]
  /\ line = tmsg(sent.time, sent.msg)
  /\ asked # NotAsked => /\ Valid(asked) /\ sent.msg = Encoded(asked)
                         /\ asked = Message(asked.name, asked.chan, asked.par)

MidiInv ==
  /\ step \in {"begin", "decode", "encode", "end"}
  /\ step = "begin" => line = <<>> /\ asked = NotAsked
  /\ step # "begin" => OnLine
  /\ told = IF step \in {"encode", "end"} THEN decode(sent.msg) ELSE NotTold
  /\ step = "end" => Valid(told) /\ again = Encoded(told)
=============================================================================
