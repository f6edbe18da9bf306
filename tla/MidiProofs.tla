----------------------------- MODULE MidiProofs -----------------------------
(***************************************************************************)
(* What holds of the encoding and decoding of MIDI messages for all        *)
(* channels and data the functions accept, all times of 32 bits, and       *)
(* whatever bytes come from a MIDI port.                                   *)
(***************************************************************************)
EXTENDS Midi, SequenceTheorems, TLAPS

----------------------------------------------------------------------------
(* The maps.                                                               *)

(* The types of the voice messages are the multiples of 16 from 128 on;    *)
(* those of the others are above. No two names have the same.              *)
LEMMA Types ==
  /\ \A name \in Names : name_to_type[name] \in Byte
  /\ \A name \in Voice : \E k \in Nat : 8 <= k /\ k <= 14 /\ name_to_type[name] = 16 * k
  /\ \A name \in Names \ Voice : name_to_type[name] \in Nat /\ name_to_type[name] >= 240
  /\ \A name, other \in Names : name_to_type[name] = name_to_type[other] => name = other
<1>1. ASSUME NEW name \in Voice
      PROVE  name \in Names /\ name_to_type[name] \in {128, 144, 160, 176, 192, 208, 224}
  <2>1. name \in Names
    BY DEF Names
  <2> QED BY <2>1 DEF name_to_type, Names, Voice, TwoNames
<1>2. ASSUME NEW name \in Names \ Voice
      PROVE  name_to_type[name] \in {240, 241, 242, 243, 246, 247, 248, 250, 251, 252, 254, 255}
  <2>1. name \in WithData \/ name \in NoData \/ name = "system_exclusive"
    BY DEF Names
  <2>2. CASE name \in WithData
    <3>1. name_to_type[name] \in {241, 242, 243}
      BY <2>2 DEF name_to_type, Names, Voice, TwoNames, WithData
    <3> QED BY <3>1
  <2>3. CASE name \in NoData
    <3>1. name_to_type[name] \in {246, 247, 248, 250, 251, 252, 254, 255}
      BY <2>3 DEF name_to_type, Names, Voice, TwoNames, NoData
    <3> QED BY <3>1
  <2>4. CASE name = "system_exclusive"
    BY <2>4 DEF name_to_type
  <2> QED BY <2>1, <2>2, <2>3, <2>4
<1>3. \A name \in Names : name_to_type[name] \in Byte
  <2>1. \A t \in {128, 144, 160, 176, 192, 208, 224} : t \in Byte
    BY DEF Byte
  <2>2. \A t \in {240, 241, 242, 243, 246, 247, 248, 250, 251, 252, 254, 255} : t \in Byte
    BY DEF Byte
  <2> QED BY <1>1, <1>2, <2>1, <2>2
<1>4. ASSUME NEW name \in Names, NEW other \in Names, name_to_type[name] = name_to_type[other]
      PROVE  name = other
  BY <1>4 DEF name_to_type, Names, Voice, TwoNames, WithData, NoData
<1>5. \A t \in {128, 144, 160, 176, 192, 208, 224} : \E k \in Nat : 8 <= k /\ k <= 14 /\ t = 16 * k
  <2>1. \A t \in {128, 144, 160, 176, 192, 208, 224} :
          t = 16 * 8 \/ t = 16 * 9 \/ t = 16 * 10 \/ t = 16 * 11 \/ t = 16 * 12
          \/ t = 16 * 13 \/ t = 16 * 14
    OBVIOUS
  <2> QED BY <2>1
<1>6. \A t \in {240, 241, 242, 243, 246, 247, 248, 250, 251, 252, 254, 255} : t \in Nat /\ t >= 240
  OBVIOUS
<1> QED BY <1>1, <1>2, <1>3, <1>4, <1>5, <1>6

LEMMA NameOfType ==
  ASSUME NEW name \in Names
  PROVE  type_to_name[name_to_type[name]] = name
<1>1. name_to_type[name] \in Byte
  BY Types DEF Byte
<1>2. \A other \in Names : name_to_type[other] = name_to_type[name] => other = name
  BY Types
<1> QED BY <1>1, <1>2 DEF type_to_name

LEMMA TypeOfName ==
  ASSUME NEW t \in Byte, type_to_name[t] \in Names
  PROVE  name_to_type[type_to_name[t]] = t
<1>1. Undefined \notin Names
  BY DEF Undefined, Names, Voice, TwoNames, WithData, NoData
<1>2. PICK name \in Names : name_to_type[name] = t
  BY <1>1 DEF type_to_name
<1> QED BY <1>2 DEF type_to_name

(* What the names of the messages decide.                                  *)
LEMMA Shapes ==
  /\ \A name \in TwoNames : decodefunc[name] = "two" /\ name \in Names /\ name \in Voice
  /\ decodefunc["program_change"] = "number" /\ decodefunc["song_select"] = "number"
  /\ decodefunc["channel_pressure"] = "one"
  /\ decodefunc["pitch_wheel"] = "14_bits" /\ decodefunc["song_position"] = "14_bits"
  /\ decodefunc["mtc_quarter_frame"] = "nibbles"
  /\ \A name \in NoData : decodefunc[name] = "nodata" /\ name \in Names /\ name \notin Voice
BY DEF decodefunc, Names, Voice, TwoNames, WithData, NoData, Undefined

----------------------------------------------------------------------------
(* Numbers.                                                                *)

LEMMA StatusOfVoice ==
  ASSUME NEW name \in Voice, NEW chan \in Chan, NEW status,
         status = name_to_type[name] + chan - 1
  PROVE  /\ status \in Nat /\ status >= 128 /\ status < 240
         /\ TypeOfStatus(status) = name_to_type[name] /\ Channel(status) = chan
<1>1. PICK k \in Nat : 8 <= k /\ k <= 14 /\ name_to_type[name] = 16 * k
  BY Types
<1>2. status = 16 * k + (chan - 1) /\ chan - 1 \in 0 .. 15
  BY <1>1 DEF Chan
<1>3. status \div 16 = k /\ status \in Nat /\ status >= 128 /\ status < 240
  BY <1>1, <1>2
<1> QED BY <1>1, <1>2, <1>3 DEF TypeOfStatus, Channel, IsVoice, Chan

LEMMA StatusOfOthers ==
  ASSUME NEW name \in Names \ Voice, NEW status, status = name_to_type[name]
  PROVE  /\ status \in Nat /\ status >= 240
         /\ TypeOfStatus(status) = status /\ Channel(status) = 0
<1>1. status \in Nat /\ status >= 240
  BY Types
<1> QED BY <1>1 DEF TypeOfStatus, Channel, IsVoice

LEMMA FourteenBits ==
  ASSUME NEW v \in Value14
  PROVE  /\ v % 128 \in Value7 /\ v \div 128 \in Value7
         /\ lsbmsbtonum(v % 128, v \div 128) = v
<1>1. v \in Nat /\ v < 128 * 128
  BY DEF Value14
<1>2. v % 128 \in Nat /\ v % 128 < 128 /\ v \div 128 \in Nat /\ v \div 128 < 128
  BY <1>1
<1>3. (v \div 128) * 128 + (v % 128) = v
  BY <1>1
<1>4. v % 128 \in Value7 /\ v \div 128 \in Value7
  BY <1>2 DEF Value7
<1> QED BY <1>3, <1>4 DEF lsbmsbtonum

LEMMA LowAndHigh ==
  ASSUME NEW lsb \in Value7, NEW msb \in Value7
  PROVE  /\ lsbmsbtonum(lsb, msb) \in Value14
         /\ numtolsbmsb(lsbmsbtonum(lsb, msb)) = <<lsb, msb>>
<1> DEFINE num == lsbmsbtonum(lsb, msb)
<1>1. num = msb * 128 + lsb /\ num \in Value14
  BY DEF Value14, Value7, lsbmsbtonum
<1>2. num % 128 = lsb /\ num \div 128 = msb
  BY <1>1 DEF Value7
<1> QED BY <1>1, <1>2 DEF numtolsbmsb

LEMMA Together ==
  ASSUME NEW nnn \in 0 .. 7, NEW dddd \in 0 .. 15, NEW b, b = nnn * 16 + dddd
  PROVE  b \in Value7 /\ b \div 16 = nnn /\ b % 16 = dddd
<1>1. b \in 0 .. 127
  OBVIOUS
<1>2. b \div 16 = nnn
  OBVIOUS
<1>3. b % 16 = dddd
  OBVIOUS
<1> QED BY <1>1, <1>2, <1>3 DEF Value7

LEMMA Nibbles ==
  ASSUME NEW b \in Value7
  PROVE  b \div 16 \in 0 .. 7 /\ b % 16 \in 0 .. 15 /\ (b \div 16) * 16 + (b % 16) = b
<1>1. b \div 16 \in 0 .. 7
  BY DEF Value7
<1>2. b % 16 \in 0 .. 15
  BY DEF Value7
<1>3. (b \div 16) * 16 + (b % 16) = b
  BY DEF Value7
<1> QED BY <1>1, <1>2, <1>3

----------------------------------------------------------------------------
(* Timed messages.                                                         *)

Time == {t \in Nat : t \div 16777216 \in Byte}

LEMMA Unpacked ==
  ASSUME NEW t \in Time
  PROVE  Bytes4(t) \in Seq(Byte) /\ Len(Bytes4(t)) = 4 /\ UnpackI4(Bytes4(t)) = t
<1>1. t \in Nat /\ t \div 16777216 \in Byte
  BY DEF Time
<1>2. /\ t % 256 \in Byte /\ (t \div 256) % 256 \in Byte /\ (t \div 65536) % 256 \in Byte
  BY <1>1 DEF Byte
<1>3. (t % 256) + 256 * ((t \div 256) % 256) + 65536 * ((t \div 65536) % 256)
        + 16777216 * (t \div 16777216) = t
  BY <1>1
<1>4. Bytes4(t) \in Seq(Byte) /\ Len(Bytes4(t)) = 4
  BY <1>1, <1>2 DEF Bytes4
<1> QED BY <1>3, <1>4 DEF Bytes4, UnpackI4

LEMMA TimedMessage ==
  ASSUME NEW t \in Time, NEW msg \in Seq(Byte), msg # <<>>
  PROVE  tmsg(t, msg) \in Seq(Byte) /\ time_msg(tmsg(t, msg)) = [time |-> t, msg |-> msg]
<1> DEFINE head == Bytes4(t)
           s == tmsg(t, msg)
<1>1. head \in Seq(Byte) /\ Len(head) = 4 /\ UnpackI4(head) = t
  BY Unpacked
<1>2. Len(msg) \in Nat \ {0}
  BY EmptySeq
<1>3. s = head \o msg
  BY DEF tmsg
<1> HIDE DEF head, s
<1>6. /\ s \in Seq(Byte) /\ Len(s) = Len(head) + Len(msg)
      /\ \A i \in 1 .. Len(head) + Len(msg) :
           s[i] = IF i <= Len(head) THEN head[i] ELSE msg[i - Len(head)]
  BY <1>1, <1>3, ConcatProperties
<1>4. UnpackI4(s) = t
  <2>1. s[1] = head[1] /\ s[2] = head[2] /\ s[3] = head[3] /\ s[4] = head[4]
    BY <1>1, <1>2, <1>6
  <2> QED BY <1>1, <2>1 DEF UnpackI4
<1>5. SubSeq(s, 5, Len(s)) = msg
  <2>1. \A m, n \in Len(head) + 1 .. Len(head) + Len(msg) :
          SubSeq(s, m, n) = SubSeq(msg, m - Len(head), n - Len(head))
    BY <1>1, <1>3, SubSeqOfConcat2
  <2>2. /\ 5 \in Len(head) + 1 .. Len(head) + Len(msg) /\ 5 - Len(head) = 1
        /\ Len(s) \in Len(head) + 1 .. Len(head) + Len(msg) /\ Len(s) - Len(head) = Len(msg)
    BY <1>1, <1>2, <1>6
  <2>3. SubSeq(s, 5, Len(s)) = SubSeq(msg, 1, Len(msg))
    BY <2>1, <2>2
  <2> QED BY <2>3, SubSeqFull
<1> QED BY <1>4, <1>5, <1>6 DEF time_msg, s

----------------------------------------------------------------------------
(* Short sequences.                                                        *)

LEMMA OneItem ==
  ASSUME NEW S, NEW s \in Seq(S), Len(s) = 1
  PROVE  s[1] \in S /\ s = <<s[1]>>
<1>1. s[1] \in S
  BY ElementOfSeq
<1>2. <<s[1]>> \in Seq(S) /\ \A i \in 1 .. Len(s) : s[i] = <<s[1]>>[i]
  BY <1>1
<1> QED BY <1>1, <1>2, SeqEqual

LEMMA TwoItems ==
  ASSUME NEW S, NEW s \in Seq(S), Len(s) = 2
  PROVE  s[1] \in S /\ s[2] \in S /\ s = <<s[1], s[2]>>
<1> DEFINE t == <<s[1], s[2]>>
<1>1. s[1] \in S /\ s[2] \in S
  BY ElementOfSeq
<1>2. t \in Seq(S) /\ Len(t) = 2 /\ t[1] = s[1] /\ t[2] = s[2]
  BY <1>1
<1>3. \A i \in 1 .. Len(s) : s[i] = t[i]
  BY <1>2
<1> HIDE DEF t
<1>4. s = t
  BY <1>2, <1>3, SeqEqual
<1> QED BY <1>1, <1>4 DEF t

LEMMA ThreeItems ==
  ASSUME NEW S, NEW s \in Seq(S), Len(s) = 3
  PROVE  s = <<s[1], s[2], s[3]>>
<1> DEFINE t == <<s[1], s[2], s[3]>>
<1>1. s[1] \in S /\ s[2] \in S /\ s[3] \in S
  <2>1. 1 \in 1 .. Len(s) /\ 2 \in 1 .. Len(s) /\ 3 \in 1 .. Len(s)
    OBVIOUS
  <2>2. \A i \in 1 .. Len(s) : s[i] \in S
    BY ElementOfSeq
  <2> QED BY <2>1, <2>2
<1>2. t \in Seq(S) /\ Len(t) = 3 /\ t[1] = s[1] /\ t[2] = s[2] /\ t[3] = s[3]
  BY <1>1
<1>3. \A i \in 1 .. Len(s) : s[i] = t[i]
  BY <1>2
<1> HIDE DEF t
<1>4. s = t
  BY <1>2, <1>3, SeqEqual
<1> QED BY <1>4 DEF t

LEMMA Joined ==
  ASSUME NEW S, NEW a \in S, NEW b \in S, NEW c \in S
  PROVE  <<a>> \o <<b, c>> = <<a, b, c>>
<1> DEFINE s == <<a>>
           t == <<b, c>>
<1>1. /\ s \in Seq(S) /\ Len(s) = 1 /\ s[1] = a
      /\ t \in Seq(S) /\ Len(t) = 2 /\ t[1] = b /\ t[2] = c
  OBVIOUS
<1> HIDE DEF s, t
<1>2. /\ s \o t \in Seq(S) /\ Len(s \o t) = 3
      /\ (s \o t)[1] = a /\ (s \o t)[2] = b /\ (s \o t)[3] = c
  <2>1. /\ s \o t \in Seq(S) /\ Len(s \o t) = Len(s) + Len(t)
        /\ \A i \in 1 .. Len(s) + Len(t) :
             (s \o t)[i] = IF i <= Len(s) THEN s[i] ELSE t[i - Len(s)]
    BY <1>1, ConcatProperties
  <2> QED BY <1>1, <2>1
<1>3. s \o t = <<a, b, c>>
  BY <1>2, ThreeItems
<1> QED BY <1>3 DEF s, t

LEMMA FirstItems ==
  ASSUME NEW msg \in Seq(Byte), NEW n \in 0 .. Len(msg)
  PROVE  /\ n = 1 => SubSeq(msg, 1, n) = <<msg[1]>>
         /\ n = 2 => SubSeq(msg, 1, n) = <<msg[1], msg[2]>>
         /\ n = 3 => SubSeq(msg, 1, n) = <<msg[1], msg[2], msg[3]>>
<1> DEFINE p == SubSeq(msg, 1, n)
<1>1. p \in Seq(Byte) /\ Len(p) = n /\ \A i \in 1 .. n : p[i] = msg[i]
  <2>1. ASSUME NEW i \in 1 .. n PROVE msg[i] \in Byte
    <3>1. i \in 1 .. Len(msg)
      BY LenProperties
    <3> QED BY <3>1, ElementOfSeq
  <2> QED BY <2>1, SubSeqProperties
<1> HIDE DEF p
<1>2. n = 1 => p = <<msg[1]>>
  BY <1>1, OneItem
<1>3. n = 2 => p = <<msg[1], msg[2]>>
  BY <1>1, TwoItems
<1>4. n = 3 => p = <<msg[1], msg[2], msg[3]>>
  BY <1>1, ThreeItems
<1> QED BY <1>2, <1>3, <1>4 DEF p

----------------------------------------------------------------------------
(* Messages of one, two and three bytes.                                   *)

DataClear(msg) == \A i \in 2 .. Len(msg) : msg[i] < 128

LEMMA ByteOf ==
  /\ \A v \in Value7 : v \in Byte /\ v \in Nat /\ v < 128
  /\ \A v \in Byte : v \in Nat /\ (v < 128 => v \in Value7)
BY DEF Value7, Byte

LEMMA ShortMessages ==
  ASSUME NEW s \in Byte, NEW a \in Value7, NEW b \in Value7
  PROVE  /\ <<s>> \in Seq(Byte) /\ DataClear(<<s>>)
         /\ <<s, a>> \in Seq(Byte) /\ DataClear(<<s, a>>)
         /\ <<s, a, b>> \in Seq(Byte) /\ DataClear(<<s, a, b>>)
<1>1. a \in Byte /\ b \in Byte /\ a < 128 /\ b < 128
  BY ByteOf
<1> HIDE DEF Byte, Value7
<1>2. <<s>> \in Seq(Byte) /\ <<s, a>> \in Seq(Byte) /\ <<s, a, b>> \in Seq(Byte)
  BY <1>1
<1>3. DataClear(<<s>>) /\ DataClear(<<s, a>>) /\ DataClear(<<s, a, b>>)
  BY <1>1 DEF DataClear
<1> QED BY <1>2, <1>3

(* A status byte says the name and the channel it was made of.             *)
LEMMA StatusTells ==
  ASSUME NEW name \in Names, NEW chan, NEW msg,
         name \in Voice => chan \in Chan, name \notin Voice => chan = 0,
         msg[1] = midi_status(name, chan)
  PROVE  /\ msg[1] \in Byte /\ msg[1] >= 128
         /\ decode(msg) = Message(name, chan, Parameters(decodefunc[name], msg))
<1> DEFINE status == msg[1]
<1>1. /\ status \in Nat /\ status >= 128 /\ status \in Byte
      /\ TypeOfStatus(status) = name_to_type[name] /\ Channel(status) = chan
  <2>1. CASE name \in Voice
    <3>1. status = name_to_type[name] + chan - 1 /\ chan \in Chan
      BY <2>1 DEF midi_status
    <3>2. /\ status \in Nat /\ status >= 128 /\ status < 240
          /\ TypeOfStatus(status) = name_to_type[name] /\ Channel(status) = chan
      BY <2>1, <3>1, StatusOfVoice
    <3>3. \A v \in Nat : v < 240 => v \in Byte
      BY DEF Byte
    <3> QED BY <3>2, <3>3
  <2>2. CASE name \notin Voice
    <3>1. status = name_to_type[name] /\ chan = 0
      BY <2>2 DEF midi_status
    <3>2. status \in Nat /\ status >= 240 /\ TypeOfStatus(status) = status /\ Channel(status) = 0
      BY <2>2, <3>1, StatusOfOthers
    <3> QED BY <3>1, <3>2, Types
  <2> QED BY <2>1, <2>2
<1>2. type_to_name[TypeOfStatus(status)] = name
  BY <1>1, NameOfType
<1>3. ~ (status < 128)
  BY <1>1
<1> QED BY <1>1, <1>2, <1>3 DEF decode

----------------------------------------------------------------------------
(* What the encoding functions return, by the shape of the parameters.     *)
LEMMA EncodedIs ==
  ASSUME NEW m, NEW s, s = midi_status(m.name, m.chan)
  PROVE  /\ m.name \in TwoNames => Encoded(m) = <<s, m.par[1], m.par[2]>>
         /\ m.name \in {"program_change", "song_select"} => Encoded(m) = <<s, m.par[1] - 1>>
         /\ m.name = "channel_pressure" => Encoded(m) = <<s, m.par[1]>>
         /\ m.name \in {"pitch_wheel", "song_position"} =>
              Encoded(m) = <<s>> \o numtolsbmsb(m.par[1])
         /\ m.name = "mtc_quarter_frame" => Encoded(m) = <<s, m.par[1] * 16 + m.par[2]>>
         /\ m.name \in NoData => Encoded(m) = <<s>>
<1>1. CASE m.name \in TwoNames
  BY <1>1 DEF Encoded, two_bytes, TwoNames, NoData
<1>2. CASE m.name = "program_change"
  <2>1. s = 192 + m.chan - 1
    BY <1>2 DEF midi_status, name_to_type, Names, Voice
  <2> QED BY <1>2, <2>1 DEF Encoded, TwoNames, NoData, program_change
<1>3. CASE m.name = "song_select"
  <2>1. s = 243
    BY <1>3 DEF midi_status, name_to_type, Names, Voice, TwoNames, WithData
  <2> QED BY <1>3, <2>1 DEF Encoded, TwoNames, NoData, song_select
<1>4. CASE m.name = "channel_pressure"
  <2>1. s = 208 + m.chan - 1
    BY <1>4 DEF midi_status, name_to_type, Names, Voice, TwoNames
  <2> QED BY <1>4, <2>1 DEF Encoded, TwoNames, NoData, channel_pressure
<1>5. CASE m.name = "pitch_wheel"
  <2>1. s = 224 + m.chan - 1
    BY <1>5 DEF midi_status, name_to_type, Names, Voice, TwoNames
  <2> QED BY <1>5, <2>1 DEF Encoded, TwoNames, NoData, pitch_wheel
<1>6. CASE m.name = "song_position"
  <2>1. s = 242
    BY <1>6 DEF midi_status, name_to_type, Names, Voice, TwoNames, WithData
  <2> QED BY <1>6, <2>1 DEF Encoded, TwoNames, NoData, song_position
<1>7. CASE m.name = "mtc_quarter_frame"
  <2>1. s = 241
    BY <1>7 DEF midi_status, name_to_type, Names, Voice, TwoNames, WithData
  <2> QED BY <1>7, <2>1 DEF Encoded, TwoNames, NoData, mtc_quarter_frame
<1>8. CASE m.name \in NoData
  <2>1. s = name_to_type[m.name]
    BY <1>8, Shapes DEF midi_status
  <2> QED BY <1>8, <2>1 DEF Encoded, TwoNames, NoData
<1> QED BY <1>1, <1>2, <1>3, <1>4, <1>5, <1>6, <1>7, <1>8

----------------------------------------------------------------------------
(* There and back: what is encoded is a MIDI message that is decoded to    *)
(* what it was encoded from.                                               *)

Returns(m) == WellFormed(Encoded(m), m.name)
              /\ decode(Encoded(m)) = Message(m.name, m.chan, m.par)

LEMMA ReturnsTwo ==
  ASSUME NEW m, m.name \in TwoNames, m.chan \in Chan, Params(m, 2, Value7)
  PROVE  Returns(m)
<1> DEFINE msg == <<midi_status(m.name, m.chan), m.par[1], m.par[2]>>
<1>1. Encoded(m) = msg
  BY EncodedIs
<1>2. m.par[1] \in Value7 /\ m.par[2] \in Value7 /\ m.par = <<m.par[1], m.par[2]>>
  BY TwoItems DEF Params
<1>3. m.name \in Names /\ m.name \in Voice /\ decodefunc[m.name] = "two"
  BY Shapes
<1>4. /\ msg[1] \in Byte /\ msg[1] >= 128
      /\ decode(msg) = Message(m.name, m.chan, Parameters("two", msg))
  BY <1>3, StatusTells
<1>5. Parameters("two", msg) = <<m.par[1], m.par[2]>>
  BY DEF Parameters, Wanted
<1>6. WellFormed(msg, m.name)
  BY <1>2, <1>3, <1>4, ShortMessages DEF WellFormed, Wanted, DataClear
<1> QED BY <1>1, <1>2, <1>4, <1>5, <1>6 DEF Returns

LEMMA ReturnsNone ==
  ASSUME NEW m, m.name \in NoData, m.chan = 0, m.par = <<>>
  PROVE  Returns(m)
<1> DEFINE msg == <<midi_status(m.name, m.chan)>>
<1>1. m.name \in Names /\ m.name \notin Voice /\ decodefunc[m.name] = "nodata"
  BY Shapes
<1>2. Encoded(m) = msg
  BY EncodedIs
<1>3. /\ msg[1] \in Byte /\ msg[1] >= 128
      /\ decode(msg) = Message(m.name, m.chan, Parameters("nodata", msg))
  BY <1>1, StatusTells
<1>4. Parameters("nodata", msg) = <<>>
  BY DEF Parameters, Wanted
<1>5. 0 \in Value7
  BY DEF Value7
<1>6. WellFormed(msg, m.name)
  BY <1>1, <1>3, <1>5, ShortMessages DEF WellFormed, Wanted, DataClear
<1> QED BY <1>2, <1>3, <1>4, <1>6 DEF Returns

LEMMA ReturnsNumber ==
  ASSUME NEW m, Params(m, 1, 1 .. 128),
         \/ m.name = "program_change" /\ m.chan \in Chan
         \/ m.name = "song_select" /\ m.chan = 0
  PROVE  Returns(m)
<1> DEFINE msg == <<midi_status(m.name, m.chan), m.par[1] - 1>>
<1>1. m.par[1] \in 1 .. 128 /\ m.par = <<m.par[1]>>
  BY OneItem DEF Params
<1>2. m.par[1] - 1 \in Value7 /\ m.par[1] - 1 + 1 = m.par[1]
  BY <1>1 DEF Value7
<1>3. /\ m.name \in Names /\ (m.name \in Voice => m.chan \in Chan)
      /\ (m.name \notin Voice => m.chan = 0) /\ decodefunc[m.name] = "number"
  BY Shapes DEF Names, Voice, TwoNames, WithData
<1>4. Encoded(m) = msg
  BY EncodedIs
<1>5. /\ msg[1] \in Byte /\ msg[1] >= 128
      /\ decode(msg) = Message(m.name, m.chan, Parameters("number", msg))
  BY <1>3, StatusTells
<1>6. Parameters("number", msg) = <<m.par[1]>>
  BY <1>2 DEF Parameters, Wanted
<1>7. WellFormed(msg, m.name)
  BY <1>2, <1>3, <1>5, ShortMessages DEF WellFormed, Wanted, DataClear
<1> QED BY <1>1, <1>4, <1>5, <1>6, <1>7 DEF Returns

LEMMA ReturnsOne ==
  ASSUME NEW m, m.name = "channel_pressure", m.chan \in Chan, Params(m, 1, Value7)
  PROVE  Returns(m)
<1> DEFINE msg == <<midi_status(m.name, m.chan), m.par[1]>>
<1>1. m.par[1] \in Value7 /\ m.par = <<m.par[1]>>
  BY OneItem DEF Params
<1>2. m.name \in Names /\ m.name \in Voice /\ decodefunc[m.name] = "one"
  BY Shapes DEF Names, Voice, TwoNames
<1>3. Encoded(m) = msg
  BY EncodedIs
<1>4. /\ msg[1] \in Byte /\ msg[1] >= 128
      /\ decode(msg) = Message(m.name, m.chan, Parameters("one", msg))
  BY <1>2, StatusTells
<1>5. Parameters("one", msg) = <<m.par[1]>>
  BY DEF Parameters, Wanted
<1>6. WellFormed(msg, m.name)
  <2>1. Wanted("one") = 2
    BY DEF Wanted
  <2>2. msg \in Seq(Byte) /\ DataClear(msg)
    BY <1>1, <1>4, ShortMessages
  <2> QED BY <1>2, <1>4, <2>1, <2>2 DEF WellFormed, DataClear
<1> QED BY <1>1, <1>3, <1>4, <1>5, <1>6 DEF Returns

LEMMA Returns14Bits ==
  ASSUME NEW m, Params(m, 1, Value14),
         \/ m.name = "pitch_wheel" /\ m.chan \in Chan
         \/ m.name = "song_position" /\ m.chan = 0
  PROVE  Returns(m)
<1> DEFINE v == m.par[1]
           msg == <<midi_status(m.name, m.chan), v % 128, v \div 128>>
<1>1. v \in Value14 /\ m.par = <<v>>
  BY OneItem DEF Params
<1> HIDE DEF v
<1>2. /\ v % 128 \in Value7 /\ v \div 128 \in Value7
      /\ lsbmsbtonum(v % 128, v \div 128) = v
  BY <1>1, FourteenBits
<1>3. /\ m.name \in Names /\ (m.name \in Voice => m.chan \in Chan)
      /\ (m.name \notin Voice => m.chan = 0) /\ decodefunc[m.name] = "14_bits"
  BY Shapes DEF Names, Voice, TwoNames, WithData
<1>4. Encoded(m) = msg
  <2>0. msg[1] \in Byte /\ v % 128 \in Byte /\ v \div 128 \in Byte
    BY <1>2, <1>3, StatusTells, ByteOf
  <2>1. Encoded(m) = <<midi_status(m.name, m.chan)>> \o numtolsbmsb(v)
    BY EncodedIs DEF v
  <2> QED BY <2>0, <2>1, Joined DEF numtolsbmsb
<1>5. /\ msg[1] \in Byte /\ msg[1] >= 128
      /\ decode(msg) = Message(m.name, m.chan, Parameters("14_bits", msg))
  BY <1>3, StatusTells
<1>6. Parameters("14_bits", msg) = <<v>>
  BY <1>2 DEF Parameters, Wanted
<1>7. WellFormed(msg, m.name)
  <2>1. Wanted("14_bits") = 3
    BY DEF Wanted
  <2>2. msg \in Seq(Byte) /\ DataClear(msg)
    BY <1>2, <1>5, ShortMessages
  <2> QED BY <1>3, <1>5, <2>1, <2>2 DEF WellFormed, DataClear
<1> QED BY <1>1, <1>4, <1>5, <1>6, <1>7 DEF Returns

LEMMA ReturnsNibbles ==
  ASSUME NEW m, m.name = "mtc_quarter_frame", m.chan = 0, Params(m, 2, 0 .. 15), m.par[1] <= 7
  PROVE  Returns(m)
<1> DEFINE b == m.par[1] * 16 + m.par[2]
           msg == <<midi_status(m.name, m.chan), b>>
<1>1. /\ m.par[1] \in 0 .. 7 /\ m.par[2] \in 0 .. 15
      /\ m.par = <<m.par[1], m.par[2]>>
  <2>1. /\ m.par[1] \in 0 .. 15 /\ m.par[2] \in 0 .. 15
        /\ m.par = <<m.par[1], m.par[2]>>
    BY TwoItems DEF Params
  <2> QED BY <2>1
<1>2. b \in Value7 /\ b \div 16 = m.par[1] /\ b % 16 = m.par[2]
  BY <1>1, Together
<1>3. m.name \in Names /\ m.name \notin Voice /\ decodefunc[m.name] = "nibbles"
  BY Shapes DEF Names, Voice, TwoNames, WithData
<1>4. Encoded(m) = msg
  BY EncodedIs
<1> HIDE DEF b
<1>5. /\ msg[1] \in Byte /\ msg[1] >= 128
      /\ decode(msg) = Message(m.name, m.chan, Parameters("nibbles", msg))
  BY <1>3, StatusTells
<1>6. Parameters("nibbles", msg) = <<m.par[1], m.par[2]>>
  BY <1>2 DEF Parameters, Wanted
<1>7. WellFormed(msg, m.name)
  <2>1. Wanted("nibbles") = 2
    BY DEF Wanted
  <2>2. msg \in Seq(Byte) /\ DataClear(msg)
    BY <1>2, <1>5, ShortMessages
  <2> QED BY <1>3, <1>5, <2>1, <2>2 DEF WellFormed, DataClear
<1> QED BY <1>1, <1>4, <1>5, <1>6, <1>7 DEF Returns

LEMMA EncodedReturns == ASSUME NEW m, Valid(m) PROVE Returns(m)
<1>1. CASE m.name \in TwoNames /\ m.chan \in Chan /\ Params(m, 2, Value7)
  BY <1>1, ReturnsTwo
<1>2. CASE /\ Params(m, 1, 1 .. 128)
           /\ \/ m.name = "program_change" /\ m.chan \in Chan
              \/ m.name = "song_select" /\ m.chan = 0
  BY <1>2, ReturnsNumber
<1>3. CASE m.name = "channel_pressure" /\ m.chan \in Chan /\ Params(m, 1, Value7)
  BY <1>3, ReturnsOne
<1>4. CASE /\ Params(m, 1, Value14)
           /\ \/ m.name = "pitch_wheel" /\ m.chan \in Chan
              \/ m.name = "song_position" /\ m.chan = 0
  BY <1>4, Returns14Bits
<1>5. CASE m.name = "mtc_quarter_frame" /\ m.chan = 0 /\ Params(m, 2, 0 .. 15) /\ m.par[1] <= 7
  BY <1>5, ReturnsNibbles
<1>6. CASE m.name \in NoData /\ m.chan = 0 /\ m.par = <<>>
  BY <1>6, ReturnsNone
<1> QED BY <1>1, <1>2, <1>3, <1>4, <1>5, <1>6 DEF Valid

----------------------------------------------------------------------------
(* And again: a message received, if what it is decoded to can be encoded, *)
(* is encoded to the bytes it began with.                                  *)

(* A status byte is the one that its name and its channel are encoded to.  *)
LEMMA StatusAgain ==
  ASSUME NEW status \in Byte, status >= 128, type_to_name[TypeOfStatus(status)] \in Names
  PROVE  midi_status(type_to_name[TypeOfStatus(status)], Channel(status)) = status
<1> DEFINE t == TypeOfStatus(status)
           name == type_to_name[t]
<1>1. status \in Nat
  BY ByteOf
<1>2. CASE IsVoice(status)
  <2>1. status < 240 /\ t = (status \div 16) * 16
    BY <1>2 DEF IsVoice, TypeOfStatus
  <2>2. t \in Nat /\ t < 240 /\ Channel(status) = status - t + 1
    BY <1>1, <1>2, <2>1 DEF Channel
  <2>3. t \in Byte
    BY <2>2 DEF Byte
  <2>4. name_to_type[name] = t
    BY <2>3, TypeOfName
  <2>5. name \in Voice
    BY <2>2, <2>4, Types
  <2> QED BY <1>1, <2>2, <2>4, <2>5 DEF midi_status
<1>3. CASE ~ IsVoice(status)
  <2>1. status >= 240 /\ t = status
    BY <1>1, <1>3 DEF IsVoice, TypeOfStatus
  <2>2. name_to_type[name] = t
    BY <2>1, TypeOfName
  <2>3. name \notin Voice
    <3>1. ASSUME NEW k \in Nat, k <= 14 PROVE 16 * k < 240
      BY <3>1
    <3> QED BY <1>1, <2>1, <2>2, <3>1, Types
  <2> QED BY <2>1, <2>2, <2>3 DEF midi_status
<1> QED BY <1>2, <1>3

LEMMA EncodedAgain ==
  ASSUME NEW msg \in Seq(Byte), msg # <<>>, DataClear(msg), Valid(decode(msg))
  PROVE  Encoded(decode(msg)) = SubSeq(msg, 1, Len(Encoded(decode(msg))))
<1> DEFINE m == decode(msg)
           status == msg[1]
           name == type_to_name[TypeOfStatus(status)]
           shape == decodefunc[name]
<1>1. Len(msg) \in Nat /\ Len(msg) >= 1 /\ status \in Byte /\ status \in Nat
  <2>1. Len(msg) \in Nat /\ Len(msg) # 0
    BY EmptySeq
  <2>2. status \in Byte
    BY <2>1, ElementOfSeq
  <2> QED BY <2>1, <2>2, ByteOf
<1>2. status >= 128
  <2> SUFFICES ASSUME status < 128 PROVE FALSE
    BY <1>1
  <2>1. m.name = "out_of_range"
    BY DEF decode, OutOfRange, Message
  <2> QED BY <2>1 DEF Valid, TwoNames, NoData
<1>3. m = Message(name, Channel(status), Parameters(shape, msg))
  BY <1>1, <1>2 DEF decode
<1>4. m.name = name /\ m.chan = Channel(status) /\ m.par = Parameters(shape, msg)
  BY <1>3 DEF Message
<1> HIDE DEF m, status
<1>5. name \in Names /\ name # "system_exclusive"
  BY <1>4 DEF Valid, m, Names, Voice, TwoNames, WithData, NoData
<1>6. midi_status(name, m.chan) = status
  BY <1>1, <1>2, <1>4, <1>5, StatusAgain
<1>7. ASSUME Len(msg) < Wanted(shape) PROVE m.par = TooShort
  <2>1. shape # "notdefined"
    BY <1>5 DEF decodefunc, Names, Voice, TwoNames, WithData, NoData
  <2> QED BY <1>4, <1>7, <2>1 DEF Parameters
<1>8. \A n \in 2 .. Len(msg) : msg[n] \in Value7
  BY ElementOfSeq, ByteOf DEF DataClear
<1>9. CASE name \in TwoNames
  <2>1. shape = "two" /\ Wanted(shape) = 3
    BY <1>9, Shapes DEF Wanted
  <2>2. Len(m.par) = 2
    BY <1>4, <1>9 DEF Valid, m, Params, TwoNames, NoData
  <2>3. Len(msg) >= 3
    BY <1>1, <1>7, <2>1, <2>2 DEF TooShort
  <2>4. m.par = <<msg[2], msg[3]>>
    BY <1>1, <1>4, <2>1, <2>3 DEF Parameters
  <2>5. Encoded(m) = <<status, m.par[1], m.par[2]>>
    BY <1>4, <1>6, <1>9, EncodedIs
  <2>6. Encoded(m) = <<msg[1], msg[2], msg[3]>>
    BY <2>4, <2>5 DEF status
  <2> QED BY <1>1, <2>3, <2>6, FirstItems DEF m
<1>10. CASE name \in {"program_change", "song_select"}
  <2>1. shape = "number" /\ Wanted(shape) = 2
    BY <1>10, Shapes DEF Wanted
  <2>2. m.par \in Seq(1 .. 128) /\ Len(m.par) = 1
    BY <1>4, <1>10 DEF Valid, m, Params, TwoNames, NoData
  <2>3. Len(msg) >= 2
    <3>1. m.par[1] \in Nat
      <4>1. \A v \in 1 .. 128 : v \in Nat
        OBVIOUS
      <4> QED BY <2>2, <4>1, OneItem
    <3>2. m.par[1] # -1
      BY <3>1
    <3> QED BY <1>1, <1>7, <2>1, <3>2 DEF TooShort
  <2>4. m.par = <<msg[2] + 1>>
    BY <1>1, <1>4, <2>1, <2>3 DEF Parameters
  <2>5. Encoded(m) = <<status, m.par[1] - 1>>
    BY <1>4, <1>6, <1>10, EncodedIs
  <2>6. msg[2] \in Nat
    BY <1>1, <1>8, <2>3, ByteOf
  <2>7. m.par[1] - 1 = msg[2]
    <3>1. m.par[1] = msg[2] + 1
      BY <2>4
    <3> QED BY <2>6, <3>1
  <2>8. Encoded(m) = <<msg[1], msg[2]>>
    BY <2>5, <2>7 DEF status
  <2> QED BY <1>1, <2>3, <2>8, FirstItems DEF m
<1>11. CASE name = "channel_pressure"
  <2>1. shape = "one" /\ Wanted(shape) = 2
    BY <1>11, Shapes DEF Wanted
  <2>2. m.par \in Seq(Value7) /\ Len(m.par) = 1
    BY <1>4, <1>11 DEF Valid, m, Params, TwoNames, NoData
  <2>3. Len(msg) >= 2
    <3>1. m.par[1] \in Nat
      BY <2>2, OneItem, ByteOf
    <3>2. m.par[1] # -1
      BY <3>1
    <3> QED BY <1>1, <1>7, <2>1, <3>2 DEF TooShort
  <2>4. m.par = <<msg[2]>>
    BY <1>1, <1>4, <2>1, <2>3 DEF Parameters
  <2>5. Encoded(m) = <<status, m.par[1]>>
    BY <1>4, <1>6, <1>11, EncodedIs
  <2>6. Encoded(m) = <<msg[1], msg[2]>>
    BY <2>4, <2>5 DEF status
  <2> QED BY <1>1, <2>3, <2>6, FirstItems DEF m
<1>12. CASE name \in {"pitch_wheel", "song_position"}
  <2>1. shape = "14_bits" /\ Wanted(shape) = 3
    BY <1>12, Shapes DEF Wanted
  <2>2. m.par \in Seq(Value14) /\ Len(m.par) = 1
    BY <1>4, <1>12 DEF Valid, m, Params, TwoNames, NoData
  <2>3. Len(msg) >= 3
    <3>1. m.par[1] \in Nat
      <4>1. \A v \in Value14 : v \in Nat
        BY DEF Value14
      <4> QED BY <2>2, <4>1, OneItem
    <3>2. m.par[1] # -1
      BY <3>1
    <3> QED BY <1>1, <1>7, <2>1, <3>2 DEF TooShort
  <2>4. m.par = <<lsbmsbtonum(msg[2], msg[3])>>
    BY <1>1, <1>4, <2>1, <2>3 DEF Parameters
  <2>5. Encoded(m) = <<status>> \o numtolsbmsb(m.par[1])
    BY <1>4, <1>6, <1>12, EncodedIs
  <2>6. msg[2] \in Value7 /\ msg[3] \in Value7 /\ msg[2] \in Byte /\ msg[3] \in Byte
    BY <1>1, <1>8, <2>3, ByteOf
  <2>7. numtolsbmsb(m.par[1]) = <<msg[2], msg[3]>>
    BY <2>4, <2>6, LowAndHigh
  <2>8. Encoded(m) = <<msg[1], msg[2], msg[3]>>
    BY <1>1, <2>5, <2>6, <2>7, Joined DEF status
  <2> QED BY <1>1, <2>3, <2>8, FirstItems DEF m
<1>13. CASE name = "mtc_quarter_frame"
  <2>1. shape = "nibbles" /\ Wanted(shape) = 2
    BY <1>13, Shapes DEF Wanted
  <2>2. Len(m.par) = 2
    BY <1>4, <1>13 DEF Valid, m, Params, TwoNames, NoData
  <2>3. Len(msg) >= 2
    BY <1>1, <1>7, <2>1, <2>2 DEF TooShort
  <2>4. m.par = <<msg[2] \div 16, msg[2] % 16>>
    BY <1>1, <1>4, <2>1, <2>3 DEF Parameters
  <2>5. Encoded(m) = <<status, m.par[1] * 16 + m.par[2]>>
    BY <1>4, <1>6, <1>13, EncodedIs
  <2>6. (msg[2] \div 16) * 16 + (msg[2] % 16) = msg[2]
    BY <1>1, <1>8, <2>3, Nibbles
  <2>7. Encoded(m) = <<msg[1], msg[2]>>
    BY <2>4, <2>5, <2>6 DEF status
  <2> QED BY <1>1, <2>3, <2>7, FirstItems DEF m
<1>14. CASE name \in NoData
  <2>1. Encoded(m) = <<msg[1]>>
    BY <1>4, <1>6, <1>14, EncodedIs DEF status
  <2> QED BY <1>1, <2>1, FirstItems DEF m
<1> QED BY <1>5, <1>9, <1>10, <1>11, <1>12, <1>13, <1>14 DEF Names, Voice, WithData

----------------------------------------------------------------------------
(* The script.                                                             *)

LEMMA AskedForIs ==
  ASSUME NEW m \in AskedFor
  PROVE  m = Message(m.name, m.chan, m.par)
BY DEF AskedFor, Message

LEMMA EncodedIsMessage ==
  ASSUME NEW m, Valid(m)
  PROVE  Encoded(m) \in Seq(Byte) /\ Encoded(m) # <<>>
<1>1. WellFormed(Encoded(m), m.name)
  BY EncodedReturns DEF Returns
<1>2. Encoded(m) \in Seq(Byte) /\ Len(Encoded(m)) = Wanted(decodefunc[m.name])
  BY <1>1 DEF WellFormed
<1>3. \A shape : Wanted(shape) # 0
  BY DEF Wanted
<1> QED BY <1>2, <1>3, EmptySeq

LEMMA TimesAre == \A t \in Times : t \in Time
BY MidiAssumption DEF Time

LEMMA LineTells ==
  ASSUME OnLine
  PROVE  line \in Seq(Byte) /\ time_msg(line) = sent
BY TimesAre, TimedMessage DEF OnLine

LEMMA ReceivedIs == ASSUME NEW msg \in Received PROVE msg \in Seq(Byte) /\ msg # <<>>
<1>1. StatusBytes \subseteq Byte /\ DataBytes \subseteq Byte
  BY MidiAssumption
<1>2. CASE \E s \in StatusBytes : msg = <<s>>
  BY <1>1, <1>2
<1>3. CASE \E s \in StatusBytes, a \in DataBytes : msg = <<s, a>>
  BY <1>1, <1>3
<1>4. CASE \E s \in StatusBytes, a, b \in DataBytes : msg = <<s, a, b>>
  BY <1>1, <1>4
<1> QED BY <1>2, <1>3, <1>4 DEF Received

LEMMA InitMidiInv == Init => MidiInv
BY DEF Init, MidiInv

LEMMA NextMidiInv == MidiInv /\ [Next]_vars => MidiInv'
<1> SUFFICES ASSUME MidiInv, [Next]_vars PROVE MidiInv'
  OBVIOUS
<1>1. ASSUME step = "begin", NEW t \in Times, NEW m \in AskedFor, Encode(t, m)
      PROVE  MidiInv'
  <2>1. /\ step' = "decode" /\ sent' = [time |-> t, msg |-> Encoded(m)]
        /\ line' = tmsg(t, Encoded(m)) /\ asked' = m /\ Valid(m) /\ told' = told
    BY <1>1 DEF Encode, PassOn
  <2>2. told = NotTold
    BY <1>1 DEF MidiInv
  <2>3. OnLine'
    BY <2>1, EncodedIsMessage, AskedForIs DEF OnLine
  <2> QED BY <2>1, <2>2, <2>3 DEF MidiInv
<1>2. ASSUME step = "begin", NEW t \in Times, NEW msg \in Received, Receive(t, msg)
      PROVE  MidiInv'
  <2>1. /\ step' = "decode" /\ sent' = [time |-> t, msg |-> msg]
        /\ line' = tmsg(t, msg) /\ asked' = NotAsked /\ told' = told
    BY <1>2 DEF Receive, PassOn
  <2>2. told = NotTold
    BY <1>2 DEF MidiInv
  <2>3. OnLine'
    BY <2>1, ReceivedIs DEF OnLine
  <2> QED BY <2>1, <2>2, <2>3 DEF MidiInv
<1>3. CASE Decode
  <2>1. /\ step' = "encode" /\ OnLine /\ told' = decode(time_msg(line).msg)
        /\ UNCHANGED <<sent, asked, line>>
    BY <1>3 DEF Decode, MidiInv
  <2>2. told' = decode(sent.msg)
    BY <2>1, LineTells
  <2> QED BY <2>1, <2>2 DEF MidiInv, OnLine
<1>4. CASE EncodeAgain
  BY <1>4 DEF EncodeAgain, MidiInv, OnLine
<1>5. CASE Restart
  BY <1>5 DEF Restart, MidiInv
<1>6. CASE UNCHANGED vars
  BY <1>6 DEF vars, MidiInv, OnLine
<1> QED BY <1>1, <1>2, <1>3, <1>4, <1>5, <1>6 DEF Next

(* What is on the line and what was told follow from what was sent.        *)
THEOREM LineFollows == Spec => []MidiInv
BY InitMidiInv, NextMidiInv, PTL DEF Spec

(* What is encoded is a MIDI message, of the bytes its type wants.         *)
THEOREM AlwaysWellFormed == Spec => []TypeOK
<1>1. ASSUME MidiInv PROVE TypeOK
  <2>1. line \in Seq(Byte)
    BY <1>1, LineTells, EmptySeq DEF MidiInv
  <2>2. ASSUME asked # NotAsked PROVE WellFormed(sent.msg, asked.name)
    BY <1>1, <2>2, EncodedReturns DEF MidiInv, OnLine, Returns
  <2>3. ASSUME step = "end" PROVE WellFormed(again, told.name)
    BY <1>1, <2>3, EncodedReturns DEF MidiInv, Returns
  <2> QED BY <1>1, <2>1, <2>2, <2>3 DEF TypeOK, MidiInv
<1> QED BY <1>1, LineFollows, PTL

(* Every message the encoding functions accept is decoded to its name, its *)
(* channel and its parameters, and has the time it was sent with.          *)
THEOREM DecodedAsEncoded == Spec => []RoundTrip
<1>1. ASSUME MidiInv PROVE RoundTrip
  <2>1. ASSUME step # "begin" PROVE time_msg(line) = sent
    BY <1>1, <2>1, LineTells DEF MidiInv
  <2>2. ASSUME asked # NotAsked, told # NotTold PROVE told = asked
    BY <1>1, <2>2, EncodedReturns DEF MidiInv, OnLine, Returns
  <2> QED BY <2>1, <2>2 DEF RoundTrip
<1> QED BY <1>1, LineFollows, PTL

(* Every message received with legal data, if what it is decoded to can be *)
(* encoded, is encoded to the bytes it began with.                         *)
THEOREM EncodedAsReceived == Spec => []Recoded
<1>1. ASSUME MidiInv PROVE Recoded
  <2> SUFFICES ASSUME step = "end", \A i \in 2 .. Len(sent.msg) : sent.msg[i] < 128
               PROVE  again = SubSeq(sent.msg, 1, Len(again))
    BY DEF Recoded
  <2>1. OnLine /\ told = decode(sent.msg) /\ Valid(told) /\ again = Encoded(told)
    BY <1>1 DEF MidiInv
  <2> QED BY <2>1, EncodedAgain DEF OnLine, DataClear
<1> QED BY <1>1, LineFollows, PTL
=============================================================================
