-------------------------- MODULE PortBufferProofs --------------------------
(***************************************************************************)
(* What holds of the port buffers for any ports, period, sizes and number  *)
(* of MIDI events, whatever counts and positions the script passes.        *)
(***************************************************************************)
EXTENDS PortBuffer, SequenceTheorems, TLAPS

----------------------------------------------------------------------------
(* Sequences: segments, and samples put in the place of others.            *)

LEMMA SegmentIs ==
  ASSUME NEW S, NEW s \in Seq(S), NEW at \in Nat, NEW n \in Nat, at + n <= Len(s)
  PROVE  /\ Segment(s, at, n) \in Seq(S) /\ Len(Segment(s, at, n)) = n
         /\ SubSeq(s, 1, at) \o Segment(s, at, n) = SubSeq(s, 1, at + n)
<1>1. \A i \in at + 1 .. at + n : s[i] \in S
  BY ElementOfSeq
<1>2. Segment(s, at, n) \in Seq(S) /\ Len(Segment(s, at, n)) = n
  BY <1>1, SubSeqProperties DEF Segment
<1>3. 1 \in 1 .. Len(s) + 1 /\ at \in 0 .. Len(s) /\ at + n \in at .. Len(s)
  OBVIOUS
<1> QED BY <1>2, <1>3, ConcatAdjacentSubSeq DEF Segment

LEMMA PrefixOf ==
  ASSUME NEW S, NEW s \in Seq(S), NEW n \in 0 .. Len(s)
  PROVE  /\ SubSeq(s, 1, n) \in Seq(S) /\ Len(SubSeq(s, 1, n)) = n
         /\ \A i \in 1 .. n : SubSeq(s, 1, n)[i] = s[i]
<1>1. \A i \in 1 .. n : s[i] \in S
  BY ElementOfSeq
<1> QED BY <1>1, SubSeqProperties

(* A segment, item by item; a prefix of a segment is a segment.             *)
LEMMA SegmentItems ==
  ASSUME NEW S, NEW s \in Seq(S), NEW at \in Nat, NEW n \in Nat, at + n <= Len(s)
  PROVE  \A i \in 1 .. n : Segment(s, at, n)[i] = s[at + i]
<1>1. \A i \in at + 1 .. at + n : s[i] \in S
  BY ElementOfSeq
<1>2. \A i \in 1 .. (at + n) - (at + 1) + 1 :
        SubSeq(s, at + 1, at + n)[i] = s[at + 1 + i - 1]
  BY <1>1, SubSeqProperties
<1> SUFFICES ASSUME NEW i \in 1 .. n PROVE Segment(s, at, n)[i] = s[at + i]
  OBVIOUS
<1>3. i \in 1 .. (at + n) - (at + 1) + 1 /\ at + 1 + i - 1 = at + i
  OBVIOUS
<1>4. SubSeq(s, at + 1, at + n)[i] = s[at + 1 + i - 1]
  BY <1>2, <1>3
<1> QED BY <1>3, <1>4 DEF Segment

LEMMA PrefixOfSegment ==
  ASSUME NEW S, NEW s \in Seq(S), NEW at \in Nat, NEW m \in Nat, NEW n \in Nat,
         n <= m, at + m <= Len(s)
  PROVE  SubSeq(Segment(s, at, m), 1, n) = Segment(s, at, n)
<1> DEFINE long == Segment(s, at, m)
           short == Segment(s, at, n)
           prefix == SubSeq(long, 1, n)
<1>1. Len(s) \in Nat /\ at + n <= Len(s)
  OBVIOUS
<1>2. /\ long \in Seq(S) /\ Len(long) = m /\ \A i \in 1 .. m : long[i] = s[at + i]
  BY SegmentIs, SegmentItems
<1>3. /\ short \in Seq(S) /\ Len(short) = n /\ \A i \in 1 .. n : short[i] = s[at + i]
  BY <1>1, SegmentIs, SegmentItems
<1> HIDE DEF long, short
<1>4. /\ prefix \in Seq(S) /\ Len(prefix) = n /\ \A i \in 1 .. n : prefix[i] = long[i]
  <2>1. n \in 0 .. Len(long)
    BY <1>2
  <2> QED BY <1>2, <2>1, PrefixOf
<1> HIDE DEF prefix
<1>5. ASSUME NEW i \in 1 .. Len(prefix) PROVE prefix[i] = short[i]
  <2>1. i \in 1 .. n /\ i \in 1 .. m
    BY <1>4
  <2>2. prefix[i] = long[i] /\ long[i] = s[at + i] /\ short[i] = s[at + i]
    BY <1>2, <1>3, <1>4, <2>1
  <2> QED BY <2>2
<1>6. prefix = short
  BY <1>3, <1>4, <1>5, SeqEqual
<1> QED BY <1>6 DEF prefix, short, long

LEMMA OverwriteIs ==
  ASSUME NEW S, NEW s \in Seq(S), NEW new \in Seq(S), NEW at \in Nat,
         at + Len(new) <= Len(s)
  PROVE  /\ Overwrite(s, at, new) \in Seq(S)
         /\ Len(Overwrite(s, at, new)) = Len(s)
         /\ SubSeq(Overwrite(s, at, new), 1, at + Len(new)) = SubSeq(s, 1, at) \o new
<1> DEFINE o == Overwrite(s, at, new)
           m == at + Len(new)
<1>1. Len(s) \in Nat /\ Len(new) \in Nat /\ m \in 0 .. Len(s) /\ at \in 0 .. Len(s)
  OBVIOUS
<1>2. \A i \in 1 .. Len(s) :
        /\ o[i] = IF i - at \in 1 .. Len(new) THEN new[i - at] ELSE s[i]
        /\ o[i] \in S
  BY ElementOfSeq DEF Overwrite
<1>3. o \in Seq(S) /\ Len(o) = Len(s)
  <2>1. o \in [1 .. Len(s) -> S]
    BY <1>2 DEF Overwrite
  <2> QED BY <1>1, <2>1
<1> HIDE DEF o
<1>4. SubSeq(o, 1, m) = SubSeq(s, 1, at) \o new
  <2>1. /\ SubSeq(o, 1, m) \in Seq(S) /\ Len(SubSeq(o, 1, m)) = m
        /\ \A i \in 1 .. m : SubSeq(o, 1, m)[i] = o[i]
    BY <1>1, <1>3, PrefixOf
  <2>2. /\ SubSeq(s, 1, at) \in Seq(S) /\ Len(SubSeq(s, 1, at)) = at
        /\ \A i \in 1 .. at : SubSeq(s, 1, at)[i] = s[i]
    BY <1>1, PrefixOf
  <2>3. /\ SubSeq(s, 1, at) \o new \in Seq(S) /\ Len(SubSeq(s, 1, at) \o new) = m
        /\ \A i \in 1 .. m : (SubSeq(s, 1, at) \o new)[i] =
                               IF i <= at THEN s[i] ELSE new[i - at]
    BY <1>1, <2>2, ConcatProperties
  <2>4. \A i \in 1 .. m : o[i] = IF i <= at THEN s[i] ELSE new[i - at]
    BY <1>1, <1>2
  <2>5. \A i \in 1 .. Len(SubSeq(o, 1, m)) : SubSeq(o, 1, m)[i] = (SubSeq(s, 1, at) \o new)[i]
    BY <2>1, <2>3, <2>4
  <2> QED BY <2>1, <2>3, <2>5, SeqEqual
<1> QED BY <1>3, <1>4 DEF o

----------------------------------------------------------------------------
(* The ports.                                                              *)

LEMMA KindsOfPorts ==
  /\ \A p \in AudioIn : p \in Ports /\ p \in Audio /\ p \in Inputs /\ p \notin AudioOut
                        /\ p \notin MidiOut /\ p \notin MidiIn /\ Item(p) = Sample
  /\ \A p \in AudioOut : p \in Ports /\ p \in Audio /\ p \notin Inputs /\ p \notin AudioIn
                        /\ p \notin MidiOut /\ p \notin MidiIn /\ Item(p) = Sample
  /\ \A p \in MidiIn : p \in Ports /\ p \notin Audio /\ p \in Inputs
                        /\ p \notin MidiOut /\ Item(p) = Event
  /\ \A p \in MidiOut : p \in Ports /\ p \notin Audio /\ p \notin Inputs
                        /\ p \notin AudioOut /\ Item(p) = Event
BY PortBufferAssumption DEF Ports, Audio, Inputs, Item

LEMMA AvailIs ==
  ASSUME IInv, NEW p \in got
  PROVE  /\ Avail(p) = nframes[p] - bufp[p] /\ Avail(p) \in Nat
         /\ bufp[p] \in Nat /\ nframes[p] \in Nat /\ p \in Ports
         /\ p \notin MidiOut => bufp[p] + Avail(p) = Len(data[p])
<1>1. p \in Ports /\ nframes[p] \in Nat /\ bufp[p] \in Nat /\ PortInv(p)
  BY DEF IInv, ShapeInv
<1> QED BY <1>1 DEF Avail, PortInv

LEMMA LesserIs ==
  ASSUME NEW m \in Nat, NEW n \in Nat
  PROVE  Lesser(m, n) \in Nat /\ Lesser(m, n) <= m /\ Lesser(m, n) <= n
BY DEF Lesser

(* A step that changes some ports has only those to answer for.            *)
LEMMA OthersKept ==
  ASSUME IInv, ShapeInv', outside' = FALSE, UNCHANGED frames, NEW P,
         \A p \in Ports \cap P : PortInv(p)',
         \A q \in Ports \ P :
           /\ data'[q] = data[q] /\ taken'[q] = taken[q] /\ given'[q] = given[q]
           /\ nframes'[q] = nframes[q] /\ bufp'[q] = bufp[q]
           /\ (q \in got' <=> q \in got) /\ (q \in astray => q \in astray')
  PROVE  IInv'
<1>1. ASSUME NEW q \in Ports \ P PROVE PortInv(q)'
  BY <1>1 DEF IInv, PortInv, InOrder
<1> QED BY <1>1 DEF IInv

----------------------------------------------------------------------------
(* The cycle.                                                              *)

LEMMA InitIInv == Init => IInv
BY PortBufferAssumption DEF Init, Empty, IInv, ShapeInv, PortInv, Item

LEMMA ContentsIs ==
  ASSUME NEW n \in 1..MaxFrames, NEW es \in [MidiIn -> MidiInput(n)], NEW p \in Ports
  PROVE  /\ Contents(p, n, es) \in Seq(Item(p))
         /\ p \in Audio => Len(Contents(p, n, es)) = n
<1>1. n \in Nat /\ \A k \in 1..n : Captured(k) \in Sample /\ Garbage \in Sample
  BY PortBufferAssumption DEF Sample
<1>2. CASE p \in AudioIn
  <2>1. Contents(p, n, es) = [k \in 1..n |-> Captured(k)]
    BY <1>2 DEF Contents
  <2>2. Contents(p, n, es) \in [1..n -> Sample]
    BY <1>1, <2>1
  <2> QED BY <1>1, <1>2, <2>1, <2>2, KindsOfPorts
<1>3. CASE p \in AudioOut
  <2>1. Contents(p, n, es) = [k \in 1..n |-> Garbage]
    BY <1>3, KindsOfPorts DEF Contents
  <2>2. Contents(p, n, es) \in [1..n -> Sample]
    BY <1>1, <2>1
  <2> QED BY <1>1, <1>3, <2>1, <2>2, KindsOfPorts
<1>4. CASE p \in MidiIn
  <2>1. Contents(p, n, es) = es[p] /\ p \notin Audio /\ Item(p) = Event
    BY <1>4, KindsOfPorts DEF Contents, Audio
  <2>2. es[p] \in UNION {[1..m -> Event] : m \in 0..MaxEvents}
    BY <1>4 DEF MidiInput, Seqs
  <2>3. es[p] \in Seq(Event)
    BY <2>2, SeqDef, PortBufferAssumption
  <2> QED BY <2>1, <2>3
<1>5. CASE p \in MidiOut
  <2>1. Contents(p, n, es) = <<>> /\ p \notin Audio
    BY <1>5, KindsOfPorts, PortBufferAssumption DEF Contents
  <2> QED BY <2>1
<1> QED BY <1>2, <1>3, <1>4, <1>5 DEF Ports

LEMMA CycleInv == ASSUME IInv, NEW n \in 1..MaxFrames, Cycle(n) PROVE IInv'
<1>1. PICK es \in [MidiIn -> MidiInput(n)] : data' = [p \in Ports |-> Contents(p, n, es)]
  BY DEF Cycle
<1>2. /\ got = {} /\ frames' = n
      /\ UNCHANGED <<got, nframes, bufp, taken, given, astray, outside>>
  BY DEF Cycle, IInv, ShapeInv
<1>3. ShapeInv'
  BY <1>1, <1>2, PortBufferAssumption DEF IInv, ShapeInv
<1>4. ASSUME NEW p \in Ports PROVE PortInv(p)'
  <2>1. data'[p] = Contents(p, n, es)
    BY <1>1
  <2> QED BY <1>2, <2>1, ContentsIs DEF IInv, PortInv
<1> QED BY <1>2, <1>3, <1>4 DEF IInv

LEMMA DropInv == ASSUME IInv, buffer_drop_all PROVE IInv'
<1>1. /\ frames' = 0 /\ got' = {} /\ outside' = FALSE /\ astray' = {}
      /\ nframes' = [p \in Ports |-> 0] /\ bufp' = [p \in Ports |-> 0]
      /\ data' = [p \in Ports |-> <<>>] /\ taken' = [p \in Ports |-> <<>>]
      /\ given' = [p \in Ports |-> <<>>]
  BY DEF buffer_drop_all, Empty, IInv
<1>2. ShapeInv'
  BY <1>1, PortBufferAssumption DEF ShapeInv
<1>3. \A p \in Ports : PortInv(p)'
  BY <1>1 DEF PortInv
<1> QED BY <1>1, <1>2, <1>3 DEF IInv

LEMMA GetBufferInv == ASSUME IInv, NEW p \in Ports, GetBuffer(p) PROVE IInv'
<1>0. ShapeInv /\ PortInv(p)
  BY DEF IInv
<1>1. /\ frames > 0 /\ p \notin got /\ got' = got \cup {p}
      /\ bufp' = [bufp EXCEPT ![p] = 0]
      /\ nframes' = [nframes EXCEPT ![p] = IF p \in MidiIn THEN Len(data[p]) ELSE frames]
      /\ data' = IF p \in MidiOut THEN [data EXCEPT ![p] = <<>>] ELSE data
      /\ UNCHANGED <<frames, taken, given, astray, outside>>
  BY DEF GetBuffer
<1>2. /\ bufp'[p] = 0 /\ nframes'[p] = IF p \in MidiIn THEN Len(data[p]) ELSE frames
      /\ data'[p] = IF p \in MidiOut THEN <<>> ELSE data[p]
      /\ data[p] \in Seq(Item(p)) /\ Len(data[p]) \in Nat /\ frames \in Nat
      /\ taken[p] = <<>> /\ given[p] = <<>>
  BY <1>0, <1>1, PortBufferAssumption DEF ShapeInv, PortInv
<1>3. ShapeInv'
  BY <1>0, <1>1, <1>2, PortBufferAssumption DEF ShapeInv
<1>4. InOrder(p)'
  <2>1. SubSeq(data'[p], 1, 0) = <<>>
    BY SubSeqEmpty
  <2> QED BY <1>1, <1>2, <2>1, KindsOfPorts DEF InOrder, Inputs, Ports, Audio
<1>5. PortInv(p)'
  <2>1. data'[p] \in Seq(Item(p))
    BY <1>2
  <2>2. p \in Audio => p \notin MidiOut /\ Len(data'[p]) = frames
    BY <1>0, <1>2, KindsOfPorts DEF PortInv, Audio
  <2>3. p \notin MidiOut => nframes'[p] = Len(data'[p])
    BY <1>2, <2>2, KindsOfPorts DEF Ports, Audio
  <2>4. bufp'[p] <= nframes'[p]
    BY <1>2
  <2> QED BY <1>0, <1>1, <1>4, <2>1, <2>2, <2>3, <2>4 DEF PortInv
<1>6. \A q \in Ports \ {p} :
        /\ data'[q] = data[q] /\ taken'[q] = taken[q] /\ given'[q] = given[q]
        /\ nframes'[q] = nframes[q] /\ bufp'[q] = bufp[q]
        /\ (q \in got' <=> q \in got) /\ (q \in astray => q \in astray')
  BY <1>0, <1>1 DEF ShapeInv
<1>7. outside' = FALSE
  BY <1>1 DEF IInv
<1> QED BY <1>1, <1>3, <1>5, <1>6, <1>7, OthersKept

----------------------------------------------------------------------------
(* Operations on one port: on an output port samples are put at the        *)
(* cursor, on an input port items are taken there, or the cursor is set.   *)

LEMMA PutInv ==
  ASSUME IInv, NEW p \in AudioOut, p \in got, NEW samples \in Seq(Sample),
         Len(samples) <= Avail(p), Put(p, samples)
  PROVE  IInv'
<1>0. ShapeInv /\ PortInv(p) /\ ~outside /\ p \in Ports
  BY KindsOfPorts DEF IInv
<1>1. /\ data' = [data EXCEPT ![p] = Overwrite(@, bufp[p], samples)]
      /\ outside' = (outside \/ ~Inside(p, bufp[p], Len(samples)))
      /\ bufp' = [bufp EXCEPT ![p] = @ + Len(samples)]
      /\ given' = [given EXCEPT ![p] = @ \o samples]
      /\ UNCHANGED <<frames, got, nframes, taken, astray>>
  BY DEF Put, Advance
<1> DEFINE b == bufp[p]
           n == Len(samples)
<1>2. /\ p \in Audio /\ p \notin Inputs /\ p \notin MidiOut /\ Item(p) = Sample
      /\ data[p] \in Seq(Sample) /\ given[p] \in Seq(Sample) /\ taken[p] \in Seq(Sample)
      /\ b \in Nat /\ n \in Nat /\ b + n <= Len(data[p]) /\ nframes[p] = Len(data[p])
      /\ Len(data[p]) \in Nat
  <2>1. /\ p \in Audio /\ p \notin Inputs /\ p \notin MidiOut /\ Item(p) = Sample
    BY KindsOfPorts
  <2>2. b + Avail(p) = Len(data[p]) /\ b \in Nat /\ Avail(p) \in Nat
    BY <2>1, AvailIs
  <2> QED BY <1>0, <2>1, <2>2 DEF PortInv
<1>3. /\ data'[p] = Overwrite(data[p], b, samples) /\ bufp'[p] = b + n
      /\ given'[p] = given[p] \o samples /\ outside' = FALSE
  BY <1>0, <1>1, <1>2 DEF ShapeInv, Inside
<1>4. /\ data'[p] \in Seq(Sample) /\ Len(data'[p]) = Len(data[p])
      /\ SubSeq(data'[p], 1, b + n) = SubSeq(data[p], 1, b) \o samples
  <2>1. /\ Overwrite(data[p], bufp[p], samples) \in Seq(Sample)
        /\ Len(Overwrite(data[p], bufp[p], samples)) = Len(data[p])
        /\ SubSeq(Overwrite(data[p], bufp[p], samples), 1, bufp[p] + Len(samples))
             = SubSeq(data[p], 1, bufp[p]) \o samples
    <3>1. bufp[p] \in Nat /\ bufp[p] + Len(samples) <= Len(data[p]) /\ data[p] \in Seq(Sample)
      BY <1>2
    <3> QED BY <3>1, OverwriteIs
  <2> QED BY <1>3, <2>1
<1>5. given'[p] \in Seq(Sample)
  BY <1>2, <1>3, ConcatProperties
<1>6. ShapeInv'
  BY <1>0, <1>1, <1>2 DEF ShapeInv
<1>7. p \notin astray => InOrder(p)'
  <2>1. p \notin astray => given[p] = SubSeq(data[p], 1, b)
    BY <1>0, <1>2 DEF PortInv, InOrder
  <2> QED BY <1>2, <1>3, <1>4, <2>1 DEF InOrder
<1>8. PortInv(p)'
  <2>1. Len(data'[p]) = frames /\ bufp'[p] <= nframes[p]
    BY <1>0, <1>2, <1>3, <1>4 DEF PortInv
  <2> QED BY <1>0, <1>1, <1>2, <1>4, <1>5, <1>7, <2>1 DEF PortInv
<1>9. \A q \in Ports \ {p} :
        /\ data'[q] = data[q] /\ taken'[q] = taken[q] /\ given'[q] = given[q]
        /\ nframes'[q] = nframes[q] /\ bufp'[q] = bufp[q]
        /\ (q \in got' <=> q \in got) /\ (q \in astray => q \in astray')
  BY <1>0, <1>1 DEF ShapeInv
<1> QED BY <1>1, <1>3, <1>6, <1>8, <1>9, OthersKept

LEMMA SetPositionInv ==
  ASSUME IInv, NEW p \in got, p \notin MidiOut, NEW pos \in Nat, pos <= nframes[p],
         SetPosition(p, pos)
  PROVE  IInv'
<1>0. ShapeInv /\ PortInv(p) /\ ~outside /\ p \in Ports
  BY DEF IInv, ShapeInv
<1>1. /\ bufp' = [bufp EXCEPT ![p] = pos]
      /\ \/ p \in Inputs /\ taken' = [taken EXCEPT ![p] = SubSeq(data[p], 1, pos)]
            /\ given' = given
         \/ p \notin Inputs /\ given' = [given EXCEPT ![p] = SubSeq(data[p], 1, pos)]
            /\ taken' = taken
      /\ UNCHANGED <<frames, data, got, nframes, astray, outside>>
  BY DEF SetPosition
<1>2. /\ data[p] \in Seq(Item(p)) /\ pos \in 0 .. Len(data[p])
  BY <1>0 DEF PortInv
<1>3. SubSeq(data[p], 1, pos) \in Seq(Item(p))
  BY <1>2, PrefixOf
<1>4. ShapeInv'
  BY <1>0, <1>1 DEF ShapeInv
<1>5. PortInv(p)'
  <2>1. /\ bufp'[p] = pos
        /\ p \in Inputs => taken'[p] = SubSeq(data[p], 1, pos) /\ given'[p] = given[p]
        /\ p \notin Inputs => given'[p] = SubSeq(data[p], 1, pos) /\ taken'[p] = taken[p]
    BY <1>0, <1>1 DEF ShapeInv
  <2>2. p \notin Inputs => p \in AudioOut
    BY <1>0 DEF Ports, Inputs
  <2>3. InOrder(p)'
    BY <1>1, <2>1, <2>2 DEF InOrder
  <2> QED BY <1>0, <1>1, <1>3, <2>1, <2>3 DEF PortInv
<1>6. \A q \in Ports \ {p} :
        /\ data'[q] = data[q] /\ taken'[q] = taken[q] /\ given'[q] = given[q]
        /\ nframes'[q] = nframes[q] /\ bufp'[q] = bufp[q]
        /\ (q \in got' <=> q \in got) /\ (q \in astray => q \in astray')
  BY <1>0, <1>1 DEF ShapeInv
<1>7. outside' = FALSE
  BY <1>1 DEF IInv
<1> QED BY <1>1, <1>4, <1>5, <1>6, <1>7, OthersKept

LEMMA AudioWriteInv ==
  ASSUME IInv, NEW p \in AudioOut, NEW samples \in Seqs(Written, 2), AudioWrite(p, samples)
  PROVE  IInv'
<1>1. p \in got /\ Avail(p) \in Nat
  BY AvailIs DEF AudioWrite
<1>2. samples \in Seq(Sample)
  <2>1. samples \in UNION {[1..m -> Written] : m \in 0..2}
    BY DEF Seqs
  <2>2. PICK m \in 0..2 : samples \in [1..m -> Written]
    BY <2>1
  <2>3. \A i \in 1..m : samples[i] \in Sample
    BY <2>2 DEF Sample
  <2>4. samples \in [1..m -> Sample] /\ m \in Nat
    BY <2>2, <2>3
  <2> QED BY <2>4, SeqDef
<1>3. Lesser(Len(samples), Avail(p)) \in 0 .. Len(samples)
      /\ Lesser(Len(samples), Avail(p)) <= Avail(p)
  BY <1>1, <1>2, LesserIs, LenProperties
<1> DEFINE new == SubSeq(samples, 1, Lesser(Len(samples), Avail(p)))
<1>4. new \in Seq(Sample) /\ Len(new) <= Avail(p)
  BY <1>2, <1>3, PrefixOf
<1>5. Put(p, new)
  BY DEF AudioWrite
<1> HIDE DEF new
<1> QED BY <1>1, <1>4, <1>5, PutInv

LEMMA AudioClearInv ==
  ASSUME IInv, NEW p \in AudioOut, NEW count \in Nat, AudioClear(p, count)
  PROVE  IInv'
<1>1. p \in got /\ Avail(p) \in Nat
  BY AvailIs DEF AudioClear
<1> DEFINE n == Lesser(count, Avail(p))
           new == [k \in 1..n |-> Silence]
<1>2. n \in Nat /\ n <= Avail(p)
  BY <1>1, LesserIs
<1>3. new \in [1..n -> Sample]
  BY DEF Sample
<1>4. new \in Seq(Sample) /\ Len(new) = n
  BY <1>2, <1>3
<1>5. Put(p, new)
  BY DEF AudioClear
<1> HIDE DEF new, n
<1> QED BY <1>1, <1>2, <1>4, <1>5, PutInv

----------------------------------------------------------------------------
(* Taking from an input port, and giving to an output port.                *)

(* Items taken at the cursor of an input port are those that come next.    *)
LEMMA TakePort ==
  ASSUME IInv, NEW p \in got, p \in Inputs, NEW n \in Nat, n <= Avail(p),
         bufp'[p] = bufp[p] + n, taken'[p] = taken[p] \o Segment(data[p], bufp[p], n),
         data'[p] = data[p], given'[p] = given[p], nframes'[p] = nframes[p],
         UNCHANGED frames, p \in got', p \in astray => p \in astray'
  PROVE  PortInv(p)'
<1>1. PortInv(p) /\ p \in Ports /\ p \notin MidiOut
  BY KindsOfPorts DEF IInv, ShapeInv, Inputs
<1>2. /\ bufp[p] \in Nat /\ nframes[p] \in Nat /\ bufp[p] + n <= nframes[p]
      /\ bufp[p] + n <= Len(data[p]) /\ data[p] \in Seq(Item(p)) /\ taken[p] \in Seq(Item(p))
  <2>1. /\ bufp[p] + Avail(p) = Len(data[p]) /\ bufp[p] \in Nat /\ Avail(p) \in Nat
        /\ nframes[p] \in Nat
    BY <1>1, AvailIs
  <2> QED BY <1>1, <2>1 DEF PortInv
<1>3. /\ Segment(data[p], bufp[p], n) \in Seq(Item(p))
      /\ SubSeq(data[p], 1, bufp[p]) \o Segment(data[p], bufp[p], n)
           = SubSeq(data[p], 1, bufp[p] + n)
  BY <1>2, SegmentIs
<1>4. taken'[p] \in Seq(Item(p))
  BY <1>2, <1>3, ConcatProperties
<1>5. p \notin astray' => InOrder(p)'
  BY <1>1, <1>3 DEF PortInv, InOrder
<1> QED BY <1>1, <1>2, <1>4, <1>5 DEF PortInv

(* MIDI events are appended to the buffer of an output port.               *)
LEMMA GivePort ==
  ASSUME IInv, NEW p \in got, p \in MidiOut, NEW es \in Seq(Event),
         data'[p] = data[p] \o es, given'[p] = given[p] \o es, bufp'[p] = bufp[p],
         taken'[p] = taken[p], nframes'[p] = nframes[p],
         UNCHANGED frames, p \in got', p \in astray => p \in astray'
  PROVE  PortInv(p)'
<1>1. /\ PortInv(p) /\ p \in Ports /\ p \notin Audio /\ p \notin Inputs /\ p \notin AudioOut
      /\ Item(p) = Event
  BY KindsOfPorts DEF IInv, ShapeInv
<1>2. data'[p] \in Seq(Event) /\ given'[p] \in Seq(Event)
  BY <1>1, ConcatProperties DEF PortInv
<1>3. p \notin astray' => InOrder(p)'
  BY <1>1 DEF PortInv, InOrder
<1> QED BY <1>1, <1>2, <1>3 DEF PortInv

LEMMA AudioReadInv ==
  ASSUME IInv, NEW p \in AudioIn, NEW count \in Nat, AudioRead(p, count)
  PROVE  IInv'
<1> DEFINE n == Lesser(count, Avail(p))
<1>0. ShapeInv
  BY DEF IInv
<1>1. /\ p \in got /\ bufp' = [bufp EXCEPT ![p] = @ + n]
      /\ outside' = (outside \/ ~Inside(p, bufp[p], n))
      /\ taken' = [taken EXCEPT ![p] = @ \o Segment(data[p], bufp[p], n)]
      /\ UNCHANGED <<frames, data, got, nframes, given, astray>>
  BY DEF AudioRead, Advance
<1>2. /\ Avail(p) \in Nat /\ bufp[p] \in Nat /\ bufp[p] + Avail(p) = Len(data[p]) /\ p \in Ports
      /\ p \in Inputs
  BY <1>1, AvailIs, KindsOfPorts
<1>3. n \in Nat /\ n <= Avail(p)
  BY <1>2, LesserIs
<1> HIDE DEF n
<1>4. outside' = FALSE
  <2>1. bufp[p] + n <= Len(data[p])
    BY <1>2, <1>3
  <2> QED BY <1>1, <2>1 DEF Inside, IInv
<1>5. /\ bufp'[p] = bufp[p] + n /\ taken'[p] = taken[p] \o Segment(data[p], bufp[p], n)
      /\ bufp' \in [Ports -> Nat] /\ DOMAIN taken' = Ports
      /\ \A q \in Ports \ {p} : bufp'[q] = bufp[q] /\ taken'[q] = taken[q]
  BY <1>0, <1>1, <1>2, <1>3 DEF ShapeInv
<1>6. PortInv(p)'
  BY <1>1, <1>2, <1>3, <1>5, TakePort
<1>7. ShapeInv'
  BY <1>0, <1>1, <1>5 DEF ShapeInv
<1>8. \A q \in Ports \ {p} :
        /\ data'[q] = data[q] /\ taken'[q] = taken[q] /\ given'[q] = given[q]
        /\ nframes'[q] = nframes[q] /\ bufp'[q] = bufp[q]
        /\ (q \in got' <=> q \in got) /\ (q \in astray => q \in astray')
  BY <1>1, <1>5
<1> QED BY <1>1, <1>4, <1>6, <1>7, <1>8, OthersKept

LEMMA AudioCopyInv ==
  ASSUME IInv, NEW dst \in AudioOut, NEW src \in AudioIn, NEW count \in Nat,
         AudioCopy(dst, src, count)
  PROVE  IInv'
<1> DEFINE n == Lesser(count, Lesser(Avail(src), Avail(dst)))
           head == Segment(data[src], 0, n)
<1>0. ShapeInv /\ PortInv(src) /\ PortInv(dst) /\ src \in Ports /\ dst \in Ports
  BY KindsOfPorts DEF IInv
<1>1. /\ dst \in got /\ src \in got
      /\ data' = [data EXCEPT ![dst] = Overwrite(@, 0, head)]
      /\ outside' = (outside \/ ~Inside(src, 0, n) \/ ~Inside(dst, 0, n))
      /\ bufp' = [bufp EXCEPT ![src] = @ + n, ![dst] = @ + n]
      /\ taken' = [taken EXCEPT ![src] = @ \o head]
      /\ given' = [given EXCEPT ![dst] = @ \o head]
      /\ astray' = astray \cup {p \in {dst, src} : bufp[p] > 0}
      /\ UNCHANGED <<frames, got, nframes>>
  BY DEF AudioCopy
<1>2. /\ src \in Inputs /\ src # dst /\ src \notin MidiOut /\ Item(src) = Sample
      /\ dst \in Audio /\ dst \notin Inputs /\ dst \notin MidiOut /\ Item(dst) = Sample
  BY KindsOfPorts
<1>3. /\ Avail(src) \in Nat /\ bufp[src] \in Nat /\ bufp[src] + Avail(src) = Len(data[src])
      /\ Avail(dst) \in Nat /\ bufp[dst] \in Nat /\ bufp[dst] + Avail(dst) = Len(data[dst])
  BY <1>1, <1>2, AvailIs
<1>4. n \in Nat /\ n <= Avail(src) /\ n <= Avail(dst)
  <2>1. Lesser(Avail(src), Avail(dst)) \in Nat /\ Lesser(Avail(src), Avail(dst)) <= Avail(src)
        /\ Lesser(Avail(src), Avail(dst)) <= Avail(dst)
    BY <1>3, LesserIs
  <2>2. PICK m \in Nat : m = Lesser(Avail(src), Avail(dst))
    BY <2>1
  <2>3. n = Lesser(count, m) /\ Lesser(count, m) \in Nat /\ Lesser(count, m) <= m
    BY <2>2, LesserIs
  <2> HIDE DEF n
  <2> QED BY <1>3, <2>1, <2>2, <2>3
<1> HIDE DEF n
<1>5. /\ data[src] \in Seq(Sample) /\ data[dst] \in Seq(Sample) /\ given[dst] \in Seq(Sample)
      /\ taken[dst] \in Seq(Sample) /\ nframes[dst] = Len(data[dst]) /\ Len(data[dst]) = frames
      /\ bufp[src] + n <= Len(data[src]) /\ bufp[dst] + n <= Len(data[dst])
      /\ 0 + n <= Len(data[src]) /\ 0 + n <= Len(data[dst])
  <2>1. /\ data[src] \in Seq(Sample) /\ data[dst] \in Seq(Sample) /\ given[dst] \in Seq(Sample)
        /\ taken[dst] \in Seq(Sample) /\ nframes[dst] = Len(data[dst]) /\ Len(data[dst]) = frames
    BY <1>0, <1>1, <1>2 DEF PortInv
  <2>2. Len(data[src]) \in Nat /\ Len(data[dst]) \in Nat
    BY <2>1
  <2>3. /\ bufp[src] + n <= bufp[src] + Avail(src)
        /\ bufp[dst] + n <= bufp[dst] + Avail(dst)
    BY <1>3, <1>4
  <2>4. bufp[src] + n <= Len(data[src]) /\ bufp[dst] + n <= Len(data[dst])
    BY <1>3, <2>3
  <2>5. 0 + n <= bufp[src] + n /\ 0 + n <= bufp[dst] + n
    BY <1>3, <1>4
  <2>6. bufp[src] + n \in Nat /\ bufp[dst] + n \in Nat /\ 0 + n \in Nat
    BY <1>3, <1>4
  <2>7. 0 + n <= Len(data[src]) /\ 0 + n <= Len(data[dst])
    BY <2>2, <2>4, <2>5, <2>6
  <2> QED BY <2>1, <2>4, <2>7
<1>6. /\ head \in Seq(Sample) /\ Len(head) = n
      /\ SubSeq(data[src], 1, 0) \o head = SubSeq(data[src], 1, 0 + n)
  <2>1. data[src] \in Seq(Sample) /\ 0 + n <= Len(data[src])
    BY <1>5
  <2>2. /\ Segment(data[src], 0, n) \in Seq(Sample) /\ Len(Segment(data[src], 0, n)) = n
        /\ SubSeq(data[src], 1, 0) \o Segment(data[src], 0, n) = SubSeq(data[src], 1, 0 + n)
    <3>1. 0 \in Nat
      OBVIOUS
    <3> HIDE DEF head
    <3> QED BY <1>4, <2>1, <3>1, SegmentIs
  <2> QED BY <2>2
<1> HIDE DEF head
<1>7. /\ Overwrite(data[dst], 0, head) \in Seq(Sample)
      /\ Len(Overwrite(data[dst], 0, head)) = Len(data[dst])
      /\ SubSeq(Overwrite(data[dst], 0, head), 1, 0 + Len(head)) = SubSeq(data[dst], 1, 0) \o head
  <2>1. 0 + Len(head) <= Len(data[dst])
    BY <1>5, <1>6
  <2> QED BY <1>5, <1>6, <2>1, OverwriteIs
<1>8. outside' = FALSE
  BY <1>1, <1>5 DEF Inside, IInv
<1>9. /\ data'[dst] = Overwrite(data[dst], 0, head) /\ given'[dst] = given[dst] \o head
      /\ taken'[dst] = taken[dst] /\ bufp'[dst] = bufp[dst] + n
      /\ data'[src] = data[src] /\ given'[src] = given[src]
      /\ taken'[src] = taken[src] \o head /\ bufp'[src] = bufp[src] + n
      /\ bufp' \in [Ports -> Nat]
      /\ DOMAIN data' = Ports /\ DOMAIN taken' = Ports /\ DOMAIN given' = Ports
      /\ \A q \in Ports \ {src, dst} :
           data'[q] = data[q] /\ taken'[q] = taken[q] /\ given'[q] = given[q] /\ bufp'[q] = bufp[q]
      /\ astray' \subseteq Ports /\ \A q \in astray : q \in astray'
  <2>1. /\ DOMAIN data = Ports /\ DOMAIN taken = Ports /\ DOMAIN given = Ports
        /\ bufp \in [Ports -> Nat] /\ astray \subseteq Ports
    BY <1>0 DEF ShapeInv
  <2>2. /\ data'[dst] = Overwrite(data[dst], 0, head) /\ given'[dst] = given[dst] \o head
        /\ data'[src] = data[src] /\ given'[src] = given[src]
        /\ taken'[src] = taken[src] \o head /\ taken'[dst] = taken[dst]
        /\ DOMAIN data' = Ports /\ DOMAIN taken' = Ports /\ DOMAIN given' = Ports
        /\ \A q \in Ports \ {src, dst} :
             data'[q] = data[q] /\ taken'[q] = taken[q] /\ given'[q] = given[q]
    BY <1>0, <1>1, <1>2, <2>1
  <2>3. bufp[src] + n \in Nat /\ bufp[dst] + n \in Nat
    BY <1>3, <1>4
  <2>4. /\ bufp'[src] = bufp[src] + n /\ bufp'[dst] = bufp[dst] + n
        /\ bufp' \in [Ports -> Nat] /\ \A q \in Ports \ {src, dst} : bufp'[q] = bufp[q]
    BY <1>0, <1>1, <1>2, <2>1, <2>3
  <2>5. astray' \subseteq Ports /\ \A q \in astray : q \in astray'
    BY <1>0, <1>1, <2>1
  <2> QED BY <2>2, <2>4, <2>5
<1>10. PortInv(src)'
  <2>1. /\ taken[src] \in Seq(Sample) /\ given[src] \in Seq(Sample)
        /\ nframes[src] = Len(data[src]) /\ Len(data[src]) = frames
    BY <1>0, <1>1, <1>2, KindsOfPorts DEF PortInv
  <2>2. taken'[src] \in Seq(Sample)
    BY <1>6, <1>9, <2>1, ConcatProperties
  <2>3. ASSUME src \notin astray' PROVE InOrder(src)'
    <3>1. bufp[src] = 0 /\ src \notin astray
      BY <1>1, <1>3, <2>3
    <3>2. taken[src] = SubSeq(data[src], 1, 0)
      BY <1>0, <1>1, <1>2, <3>1 DEF PortInv, InOrder
    <3>3. taken'[src] = SubSeq(data'[src], 1, bufp'[src])
      BY <1>4, <1>6, <1>9, <3>1, <3>2
    <3> QED BY <1>2, <3>3 DEF InOrder
  <2> QED BY <1>1, <1>2, <1>5, <1>9, <2>1, <2>2, <2>3 DEF PortInv
<1>11. dst \notin astray' => InOrder(dst)'
  <2> SUFFICES ASSUME dst \notin astray' PROVE InOrder(dst)'
    OBVIOUS
  <2>1. bufp[dst] = 0 /\ dst \notin astray
    BY <1>1, <1>3
  <2>2. given[dst] = SubSeq(data[dst], 1, 0)
    BY <1>0, <1>1, <1>2, <2>1 DEF PortInv, InOrder
  <2>3. given'[dst] = SubSeq(data'[dst], 1, bufp'[dst])
    BY <1>4, <1>6, <1>7, <1>9, <2>1, <2>2
  <2> QED BY <1>2, <2>3 DEF InOrder
<1>12. PortInv(dst)'
  <2>1. given'[dst] \in Seq(Sample)
    BY <1>5, <1>6, <1>9, ConcatProperties
  <2>2. /\ data'[dst] \in Seq(Sample) /\ Len(data'[dst]) = frames
        /\ bufp'[dst] <= nframes[dst] /\ nframes[dst] = Len(data'[dst])
    BY <1>5, <1>7, <1>9
  <2> QED BY <1>1, <1>2, <1>5, <1>9, <1>11, <2>1, <2>2 DEF PortInv
<1>13. ShapeInv'
  BY <1>0, <1>1, <1>9 DEF ShapeInv
<1>14. \A q \in Ports \ {src, dst} :
        /\ data'[q] = data[q] /\ taken'[q] = taken[q] /\ given'[q] = given[q]
        /\ nframes'[q] = nframes[q] /\ bufp'[q] = bufp[q]
        /\ (q \in got' <=> q \in got) /\ (q \in astray => q \in astray')
  BY <1>1, <1>9
<1> QED BY <1>1, <1>8, <1>10, <1>12, <1>13, <1>14, OthersKept

LEMMA MidiWriteInv ==
  ASSUME IInv, NEW p \in MidiOut, NEW e \in Event, MidiWrite(p, e)
  PROVE  IInv'
<1>0. ShapeInv /\ p \in Ports
  BY KindsOfPorts DEF IInv
<1>1. /\ p \in got /\ <<e>> \in Seq(Event)
      /\ data' = [data EXCEPT ![p] = @ \o <<e>>] /\ given' = [given EXCEPT ![p] = @ \o <<e>>]
      /\ UNCHANGED <<frames, got, nframes, bufp, taken, astray, outside>>
  BY DEF MidiWrite, Append_
<1>2. /\ data'[p] = data[p] \o <<e>> /\ given'[p] = given[p] \o <<e>>
      /\ DOMAIN data' = Ports /\ DOMAIN given' = Ports
      /\ \A q \in Ports \ {p} : data'[q] = data[q] /\ given'[q] = given[q]
  BY <1>0, <1>1 DEF ShapeInv
<1>3. PortInv(p)'
  BY <1>1, <1>2, GivePort
<1>4. ShapeInv'
  BY <1>0, <1>1, <1>2 DEF ShapeInv
<1>5. \A q \in Ports \ {p} :
        /\ data'[q] = data[q] /\ taken'[q] = taken[q] /\ given'[q] = given[q]
        /\ nframes'[q] = nframes[q] /\ bufp'[q] = bufp[q]
        /\ (q \in got' <=> q \in got) /\ (q \in astray => q \in astray')
  BY <1>1, <1>2
<1>6. outside' = FALSE
  BY <1>1 DEF IInv
<1> QED BY <1>1, <1>3, <1>4, <1>5, <1>6, OthersKept

LEMMA MidiReadInv ==
  ASSUME IInv, NEW p \in MidiIn, NEW index \in Nat, MidiRead(p, index)
  PROVE  IInv'
<1>0. ShapeInv /\ PortInv(p) /\ p \in Ports
  BY KindsOfPorts DEF IInv
<1>1. /\ p \in got /\ Avail(p) > 0 /\ bufp' = [bufp EXCEPT ![p] = @ + 1]
      /\ taken' = IF index < Len(data[p])
                  THEN [taken EXCEPT ![p] = Append(@, data[p][index + 1])] ELSE taken
      /\ astray' = IF index = bufp[p] THEN astray ELSE astray \cup {p}
      /\ UNCHANGED <<frames, data, got, nframes, given, outside>>
  BY DEF MidiRead, Advance
<1>2. /\ Avail(p) \in Nat /\ bufp[p] \in Nat /\ bufp[p] + Avail(p) = Len(data[p])
      /\ Len(data[p]) \in Nat /\ nframes[p] = Len(data[p])
      /\ p \in Inputs /\ p \notin MidiOut /\ p \notin Audio /\ Item(p) = Event
      /\ data[p] \in Seq(Event) /\ taken[p] \in Seq(Event)
  <2>1. p \in Inputs /\ p \notin MidiOut /\ p \notin Audio /\ Item(p) = Event
    BY KindsOfPorts
  <2> QED BY <1>0, <1>1, <2>1, AvailIs DEF PortInv
<1>3. /\ bufp'[p] = bufp[p] + 1 /\ bufp' \in [Ports -> Nat] /\ DOMAIN taken' = Ports
      /\ \A q \in Ports \ {p} : bufp'[q] = bufp[q] /\ taken'[q] = taken[q]
      /\ taken'[p] = IF index < Len(data[p]) THEN Append(taken[p], data[p][index + 1])
                                             ELSE taken[p]
  BY <1>0, <1>1, <1>2 DEF ShapeInv
<1>4. PortInv(p)'
  <2>1. CASE index = bufp[p]
    <3>1. index < Len(data[p]) /\ index + 1 \in 1 .. Len(data[p])
      BY <1>1, <1>2, <2>1
    <3>2. data[p][index + 1] \in Event
      BY <1>2, <3>1, ElementOfSeq
    <3>3. Append(taken[p], data[p][index + 1]) = taken[p] \o <<data[p][index + 1]>>
      BY <1>2, <3>2, AppendIsConcat
    <3>4. Segment(data[p], bufp[p], 1) = <<data[p][index + 1]>>
      <4>1. bufp[p] + 1 <= Len(data[p])
        BY <1>1, <1>2
      <4>2. /\ Segment(data[p], bufp[p], 1) \in Seq(Event)
            /\ Len(Segment(data[p], bufp[p], 1)) = 1
        <5>1. \A k \in Nat : bufp[p] + k <= Len(data[p]) =>
                /\ Segment(data[p], bufp[p], k) \in Seq(Event)
                /\ Len(Segment(data[p], bufp[p], k)) = k
          BY <1>2, SegmentIs
        <5> QED BY <4>1, <5>1
      <4>3. Segment(data[p], bufp[p], 1)[1] = data[p][index + 1]
        BY <1>2, <2>1, <4>1, SegmentItems
      <4> DEFINE one == Segment(data[p], bufp[p], 1)
                 elem == data[p][index + 1]
      <4>4. one \in Seq(Event) /\ Len(one) = 1 /\ one[1] = elem /\ elem \in Event
        BY <3>2, <4>2, <4>3
      <4> HIDE DEF one, elem
      <4>5. one = <<elem>>
        BY <4>4
      <4> QED BY <4>5 DEF one, elem
    <3>5. 1 <= Avail(p) /\ astray' = astray
      BY <1>1, <1>2, <2>1
    <3> QED BY <1>1, <1>2, <1>3, <3>1, <3>3, <3>4, <3>5, TakePort
  <2>2. CASE index # bufp[p]
    <3>1. p \in astray'
      BY <1>1, <2>2
    <3>2. taken'[p] \in Seq(Event)
      <4>1. CASE index < Len(data[p])
        <5>1. index + 1 \in 1 .. Len(data[p])
          BY <1>2, <4>1
        <5>2. data[p][index + 1] \in Event
          BY <1>2, <5>1, ElementOfSeq
        <5> QED BY <1>2, <1>3, <4>1, <5>2, AppendProperties
      <4>2. CASE ~ (index < Len(data[p]))
        BY <1>2, <1>3, <4>2
      <4> QED BY <4>1, <4>2
    <3>3. bufp'[p] <= nframes[p]
      BY <1>1, <1>2, <1>3
    <3> QED BY <1>0, <1>1, <1>2, <3>1, <3>2, <3>3 DEF PortInv
  <2> QED BY <2>1, <2>2
<1>5. ShapeInv'
  BY <1>0, <1>1, <1>3 DEF ShapeInv
<1>6. \A q \in Ports \ {p} :
        /\ data'[q] = data[q] /\ taken'[q] = taken[q] /\ given'[q] = given[q]
        /\ nframes'[q] = nframes[q] /\ bufp'[q] = bufp[q]
        /\ (q \in got' <=> q \in got) /\ (q \in astray => q \in astray')
  BY <1>1, <1>3
<1>7. outside' = FALSE
  BY <1>1 DEF IInv
<1> QED BY <1>1, <1>4, <1>5, <1>6, <1>7, OthersKept

(* Whatever number of events JACK accepts, those are given and taken.      *)
LEMMA MidiCopyInv ==
  ASSUME IInv, NEW dst \in MidiOut, NEW src \in MidiIn, NEW count \in Nat,
         MidiCopy(dst, src, count)
  PROVE  IInv'
<1> DEFINE m == Lesser(count, Avail(src))
           es == Segment(data[src], bufp[src], m)
<1>0. ShapeInv /\ PortInv(src) /\ PortInv(dst) /\ src \in Ports /\ dst \in Ports
  BY KindsOfPorts DEF IInv
<1>1. PICK n \in 0..Len(es) :
        /\ data' = [data EXCEPT ![dst] = @ \o SubSeq(es, 1, n)]
        /\ given' = [given EXCEPT ![dst] = @ \o SubSeq(es, 1, n)]
        /\ bufp' = [bufp EXCEPT ![src] = @ + n]
        /\ taken' = [taken EXCEPT ![src] = @ \o SubSeq(es, 1, n)]
  BY DEF MidiCopy, Append_, Advance
<1>2. dst \in got /\ src \in got /\ UNCHANGED <<frames, got, nframes, astray, outside>>
  BY DEF MidiCopy
<1>3. /\ src \in Inputs /\ src # dst /\ src \notin MidiOut /\ Item(src) = Event
  BY KindsOfPorts
<1>4. /\ Avail(src) \in Nat /\ bufp[src] \in Nat /\ bufp[src] + Avail(src) = Len(data[src])
      /\ data[src] \in Seq(Event) /\ Len(data[src]) \in Nat
  BY <1>0, <1>2, <1>3, AvailIs DEF PortInv
<1>5. m \in Nat /\ m <= Avail(src)
  BY <1>4, LesserIs
<1> HIDE DEF m
<1>6. Len(es) = m /\ n \in Nat /\ n <= m
  <2>1. bufp[src] + m <= Len(data[src])
    BY <1>4, <1>5
  <2>2. Len(es) = m
    BY <1>4, <1>5, <2>1, SegmentIs
  <2> QED BY <1>1, <1>5, <2>2
<1>7. SubSeq(es, 1, n) = Segment(data[src], bufp[src], n)
  <2>1. bufp[src] + m <= Len(data[src])
    BY <1>4, <1>5
  <2> QED BY <1>4, <1>5, <1>6, <2>1, PrefixOfSegment
<1> DEFINE new == Segment(data[src], bufp[src], n)
<1>8. new \in Seq(Event) /\ n <= Avail(src)
  <2>1. bufp[src] + n <= Len(data[src]) /\ n <= Avail(src)
    BY <1>4, <1>5, <1>6
  <2> QED BY <1>4, <1>6, <2>1, SegmentIs
<1>9. /\ data' = [data EXCEPT ![dst] = @ \o new] /\ given' = [given EXCEPT ![dst] = @ \o new]
      /\ bufp' = [bufp EXCEPT ![src] = @ + n] /\ taken' = [taken EXCEPT ![src] = @ \o new]
  BY <1>1, <1>7
<1>10. /\ data'[dst] = data[dst] \o new /\ given'[dst] = given[dst] \o new
       /\ data'[src] = data[src] /\ given'[src] = given[src]
       /\ taken'[src] = taken[src] \o new /\ taken'[dst] = taken[dst]
       /\ DOMAIN data' = Ports /\ DOMAIN taken' = Ports /\ DOMAIN given' = Ports
       /\ \A q \in Ports \ {src, dst} :
            data'[q] = data[q] /\ taken'[q] = taken[q] /\ given'[q] = given[q]
  BY <1>0, <1>3, <1>9 DEF ShapeInv
<1>11. /\ bufp'[src] = bufp[src] + n /\ bufp' \in [Ports -> Nat]
       /\ \A q \in Ports \ {src} : bufp'[q] = bufp[q]
  BY <1>0, <1>4, <1>6, <1>9 DEF ShapeInv
<1>12. PortInv(src)'
  BY <1>2, <1>3, <1>6, <1>8, <1>10, <1>11, TakePort
<1>13. PortInv(dst)'
  <2>1. bufp'[dst] = bufp[dst]
    BY <1>0, <1>3, <1>11
  <2> HIDE DEF new
  <2> QED BY <1>2, <1>8, <1>10, <2>1, GivePort
<1>14. ShapeInv'
  BY <1>0, <1>2, <1>10, <1>11 DEF ShapeInv
<1>15. \A q \in Ports \ {src, dst} :
        /\ data'[q] = data[q] /\ taken'[q] = taken[q] /\ given'[q] = given[q]
        /\ nframes'[q] = nframes[q] /\ bufp'[q] = bufp[q]
        /\ (q \in got' <=> q \in got) /\ (q \in astray => q \in astray')
  BY <1>2, <1>10, <1>11
<1>16. outside' = FALSE
  BY <1>2 DEF IInv
<1> QED BY <1>2, <1>12, <1>13, <1>14, <1>15, <1>16, OthersKept

----------------------------------------------------------------------------
(* The theorems.                                                           *)

LEMMA StutterInv == ASSUME IInv, UNCHANGED vars PROVE IInv'
BY DEF IInv, ShapeInv, PortInv, InOrder, vars

LEMMA NextInv == IInv /\ [Next]_vars => IInv'
<1> SUFFICES ASSUME IInv, [Next]_vars PROVE IInv'
  OBVIOUS
<1>0. Counts \subseteq Nat /\ Indices \subseteq Nat
  BY PortBufferAssumption DEF Counts, Indices
<1>1. CASE AudioStep
  <2>1. ASSUME NEW p \in AudioOut, NEW samples \in Seqs(Written, 2), AudioWrite(p, samples)
        PROVE  IInv'
    BY <2>1, AudioWriteInv
  <2>2. ASSUME NEW p \in AudioOut, NEW n \in Counts, AudioClear(p, n) PROVE IInv'
    BY <1>0, <2>2, AudioClearInv
  <2>3. ASSUME NEW p \in AudioIn, NEW n \in Counts, AudioRead(p, n) PROVE IInv'
    BY <1>0, <2>3, AudioReadInv
  <2>4. ASSUME NEW p \in Audio, NEW pos \in Counts, AudioSeek(p, pos) PROVE IInv'
    <3>1. p \in got /\ p \notin MidiOut /\ pos <= nframes[p] /\ SetPosition(p, pos)
      BY <2>4, KindsOfPorts DEF AudioSeek, Audio
    <3> QED BY <1>0, <3>1, SetPositionInv
  <2>5. ASSUME NEW dst \in AudioOut, NEW src \in AudioIn, NEW n \in Counts,
               AudioCopy(dst, src, n)
        PROVE  IInv'
    BY <1>0, <2>5, AudioCopyInv
  <2> QED BY <1>1, <2>1, <2>2, <2>3, <2>4, <2>5 DEF AudioStep
<1>2. CASE MidiStep
  <2>1. ASSUME NEW p \in MidiOut, NEW e \in Event, MidiWrite(p, e) PROVE IInv'
    BY <2>1, MidiWriteInv
  <2>2. ASSUME NEW p \in MidiIn, NEW i \in Indices, MidiRead(p, i) PROVE IInv'
    BY <1>0, <2>2, MidiReadInv
  <2>3. ASSUME NEW p \in MidiIn, NEW i \in Indices, MidiSeek(p, i) PROVE IInv'
    <3>1. p \in got /\ p \notin MidiOut /\ i <= nframes[p] /\ SetPosition(p, i)
      BY <2>3, KindsOfPorts DEF MidiSeek
    <3> QED BY <1>0, <3>1, SetPositionInv
  <2>4. ASSUME NEW dst \in MidiOut, NEW src \in MidiIn, NEW n \in Indices,
               MidiCopy(dst, src, n)
        PROVE  IInv'
    BY <1>0, <2>4, MidiCopyInv
  <2> QED BY <1>2, <2>1, <2>2, <2>3, <2>4 DEF MidiStep
<1>3. CASE \E n \in 1..MaxFrames : Cycle(n)
  BY <1>3, CycleInv
<1>4. CASE buffer_drop_all \/ UNCHANGED vars
  BY <1>4, DropInv, StutterInv
<1>5. CASE \E p \in Ports : GetBuffer(p)
  BY <1>5, GetBufferInv
<1> QED BY <1>1, <1>2, <1>3, <1>4, <1>5 DEF Next

(* The invariant on which the other theorems rest: cursor, length and      *)
(* contents of every port's buffer agree after every operation.            *)
THEOREM Inductive == Spec => []IInv
BY InitIInv, NextInv, PTL DEF Spec

(* Every variable keeps to its type: an audio buffer never grows beyond    *)
(* the period.                                                             *)
THEOREM TypeCorrect == Spec => []TypeOK
<1>1. ASSUME IInv PROVE TypeOK
  <2>0. ShapeInv /\ outside = FALSE /\ \A p \in Ports : PortInv(p)
    BY <1>1 DEF IInv
  <2>1. ASSUME NEW p \in Audio PROVE data[p] \in Seqs(Sample, MaxFrames)
    <3>1. data[p] \in Seq(Sample) /\ Len(data[p]) \in 0..MaxFrames
      BY <2>0 DEF PortInv, Item, Audio, Ports, ShapeInv
    <3>2. data[p] \in [1..Len(data[p]) -> Sample]
      BY <3>1, LenProperties
    <3> QED BY <3>1, <3>2 DEF Seqs
  <2>2. ASSUME NEW p \in MidiIn \cup MidiOut PROVE data[p] \in Seq(Event)
    BY <2>0, KindsOfPorts DEF PortInv
  <2> QED BY <2>0, <2>1, <2>2 DEF TypeOK, ShapeInv
<1> QED BY <1>1, Inductive, PTL

(* No count and no position that a script passes makes an operation reach  *)
(* outside the buffer of this cycle.                                       *)
THEOREM NeverOutside == Spec => []InsideBuffer
<1>1. ASSUME IInv PROVE InsideBuffer
  BY <1>1 DEF IInv, ShapeInv, PortInv, InsideBuffer
<1> QED BY <1>1, Inductive, PTL

(* What a script reads and copies is the input without gaps or repetition, *)
(* and what it writes is in the output as it was told, however reads,      *)
(* writes, seeks and copies mix. Ports that are astray are excepted: MIDI  *)
(* ports read at an index of the script's, and audio ports that copy()     *)
(* found past their beginning, from and to which it copies.                *)
THEOREM ScriptSeesStreams == Spec => []StreamsInOrder
<1>1. ASSUME IInv PROVE StreamsInOrder
  BY <1>1 DEF IInv, ShapeInv, PortInv, StreamsInOrder
<1> QED BY <1>1, Inductive, PTL
=============================================================================
