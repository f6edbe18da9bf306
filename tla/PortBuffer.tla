----------------------------- MODULE PortBuffer -----------------------------
(***************************************************************************)
(* What a script does with port buffers in a process cycle (src/buffer.c): *)
(* get_buffer(), write(), clear(), read(), seek() and copy(), on audio and *)
(* MIDI ports. Each port has a cursor, bufp, into the buffer that JACK     *)
(* lends it until the callback returns.                                    *)
(*                                                                         *)
(* The operations run one at a time, in the process callback (module       *)
(* Process has what happens around it). An operation that raises an error  *)
(* or returns nil changes nothing, and has no step here.                   *)
(***************************************************************************)
EXTENDS Integers, FiniteSets, Sequences, SequencesExt

CONSTANTS
  AudioIn, AudioOut, MidiIn, MidiOut,   \* the ports, by kind
  MaxFrames,                            \* the longest period
  MaxEvents,                            \* the most events of a MIDI input port
  Sizes,                                \* the sizes of MIDI messages, in bytes
  Capacity, JackHeader,                 \* JACK: a MIDI buffer, what an event takes in it
  TimeAndSize,                          \* sizeof(nframes_t) + sizeof(size_t)
  Word,                                 \* 2^w for a size_t of w bits
  MaxBuffers                            \* the most buffers a script retrieves in a cycle

Ports == AudioIn \cup AudioOut \cup MidiIn \cup MidiOut
Audio == AudioIn \cup AudioOut
Inputs == AudioIn \cup MidiIn

ASSUME PortBufferAssumption ==
  /\ AudioIn \cap (AudioOut \cup MidiIn \cup MidiOut) = {}
  /\ AudioOut \cap (MidiIn \cup MidiOut) = {} /\ MidiIn \cap MidiOut = {}
  /\ MaxFrames \in Nat \ {0} /\ MaxEvents \in Nat /\ Sizes \subseteq Nat \ {0}
  /\ Capacity \in Nat /\ JackHeader \in Nat
  /\ TimeAndSize \in Nat /\ Word \in Nat \ {0} /\ MaxBuffers \in Nat

(* Samples are told apart by where they come from: the k-th of the period  *)
(* on an input port, one of two the script writes, silence, or what was in *)
(* the output buffer before.                                               *)
Captured(k) == <<"captured", k>>
Silence == <<"silence", 0>>
Garbage == <<"garbage", 0>>
Written == {<<"written", k>> : k \in 1..2}
Sample == {Captured(k) : k \in 1..MaxFrames} \cup Written \cup {Silence, Garbage}

Event == [time : 0..MaxFrames - 1, size : Sizes]

VARIABLES
  frames,       \* cud->nframes: the period; 0 when the callback does not run
  data,         \* per port: its samples or MIDI events in this cycle
  got,          \* the ports whose buffer was retrieved (pud->buf # NULL)
  nframes, bufp,\* per port: pud->nframes and pud->bufp
  taken,        \* history: what the script took from an input port, in order
  given,        \* history: what it gave to an output port, in order
  astray,       \* history: ports repositioned otherwise than their documentation says
  outside       \* history: was anything outside a buffer read or written?

vars == <<frames, data, got, nframes, bufp, taken, given, astray, outside>>

Seqs(S, n) == UNION {[1..m -> S] : m \in 0..n}
Lesser(m, n) == IF m < n THEN m ELSE n

----------------------------------------------------------------------------
(* JACK (external), from how src/buffer.c uses it: events are put into a   *)
(* MIDI buffer in the order of their times, within the period, if there is *)
(* room.                                                                   *)

Used(es) == FoldSeq(LAMBDA e, n : n + e.size + JackHeader, 0, es)

jack_midi_max_event_size(es) ==
  IF Used(es) + JackHeader > Capacity THEN 0 ELSE Capacity - Used(es) - JackHeader

Fits(es, e) ==
  /\ e.time < frames
  /\ es # <<>> => es[Len(es)].time <= e.time
  /\ e.size <= jack_midi_max_event_size(es)

----------------------------------------------------------------------------
(* Space or samples, or events, from the cursor to the end.                *)
Avail(p) == IF nframes[p] >= bufp[p] THEN nframes[p] - bufp[p] ELSE 0

(* The space told for the data of the next event: the difference of two    *)
(* size_t, which wraps when the buffer is nearly full.                     *)
MidiSpace(es) == (jack_midi_max_event_size(es) - TimeAndSize) % Word

Segment(s, at, n) == SubSeq(s, at + 1, at + n)
Overwrite(s, at, new) ==
  [i \in 1..Len(s) |-> IF i - at \in 1..Len(new) THEN new[i - at] ELSE s[i]]
Inside(p, at, n) == at + n <= Len(data[p])

Advance(p, n) == bufp' = [bufp EXCEPT ![p] = @ + n]

----------------------------------------------------------------------------
(* JACK calls the process callback: input buffers have been filled, output *)
(* buffers hold anything.                                                  *)

Empty == [p \in Ports |-> <<>>]

InOrderOfTime(es) == \A i, j \in 1..Len(es) : i < j => es[i].time <= es[j].time

MidiInput(n) ==
  {es \in Seqs(Event, MaxEvents) :
     InOrderOfTime(es) /\ \A i \in 1..Len(es) : es[i].time < n}

(* The contents of a port, es being the events of the MIDI inputs.         *)
Contents(p, n, es) ==
  IF p \in AudioIn THEN [k \in 1..n |-> Captured(k)]
  ELSE IF p \in AudioOut THEN [k \in 1..n |-> Garbage]
  ELSE IF p \in MidiIn THEN es[p]
  ELSE <<>>

Cycle(n) ==
  /\ frames = 0 /\ frames' = n
  /\ \E es \in [MidiIn -> MidiInput(n)] : data' = [p \in Ports |-> Contents(p, n, es)]
  /\ UNCHANGED <<got, nframes, bufp, taken, given, astray, outside>>

buffer_drop_all_Buf ==                      \* mutant: pud->buf is not reset
  /\ frames > 0 /\ frames' = 0
  /\ nframes' = [p \in Ports |-> 0] /\ bufp' = [p \in Ports |-> 0]
  /\ data' = Empty /\ taken' = Empty /\ given' = Empty /\ astray' = {}
  /\ UNCHANGED <<got, outside>>

(* The callback returns: buffer_drop_all(). The buffers are JACK's again.  *)
buffer_drop_all ==
  /\ frames > 0 /\ frames' = 0
  /\ got' = {}
  /\ nframes' = [p \in Ports |-> 0] /\ bufp' = [p \in Ports |-> 0]
  /\ data' = Empty /\ taken' = Empty /\ given' = Empty /\ astray' = {}
  /\ UNCHANGED outside

(* GetBuffer(): a MIDI output buffer is cleared; of a MIDI input buffer    *)
(* the events are counted.                                                 *)
GetBuffer(p) ==
  /\ frames > 0 /\ p \notin got /\ Cardinality(got) < MaxBuffers
  /\ got' = got \cup {p}
  /\ bufp' = [bufp EXCEPT ![p] = 0]
  /\ nframes' = [nframes EXCEPT ![p] = IF p \in MidiIn THEN Len(data[p]) ELSE frames]
  /\ data' = IF p \in MidiOut THEN [data EXCEPT ![p] = <<>>] ELSE data
  /\ UNCHANGED <<frames, taken, given, astray, outside>>

----------------------------------------------------------------------------
(* Audio ports.                                                            *)

(* The samples put at the cursor of an output port.                        *)
Put(p, samples) ==
  /\ data' = [data EXCEPT ![p] = Overwrite(@, bufp[p], samples)]
  /\ outside' = (outside \/ ~Inside(p, bufp[p], Len(samples)))
  /\ Advance(p, Len(samples))
  /\ given' = [given EXCEPT ![p] = @ \o samples]
  /\ UNCHANGED <<frames, got, nframes, taken, astray>>

AudioWrite_All(p, samples) ==               \* mutant: n < space not asked
  p \in got /\ Put(p, samples)

(* AudioWrite(): the samples that exceed the space are discarded.          *)
AudioWrite(p, samples) ==
  p \in got /\ Put(p, SubSeq(samples, 1, Lesser(Len(samples), Avail(p))))

(* AudioClear(): count defaults to the space.                              *)
AudioClear(p, count) ==
  p \in got /\ Put(p, [k \in 1..Lesser(count, Avail(p)) |-> Silence])

(* AudioRead()                                                             *)
AudioRead(p, count) ==
  /\ p \in got /\ Avail(p) > 0
  /\ LET n == Lesser(count, Avail(p)) IN
     /\ Advance(p, n)
     /\ outside' = (outside \/ ~Inside(p, bufp[p], n))
     /\ taken' = [taken EXCEPT ![p] = @ \o Segment(data[p], bufp[p], n)]
  /\ UNCHANGED <<frames, data, got, nframes, given, astray>>

(* A port is repositioned: the script goes on from there, and what comes   *)
(* before counts as taken, or given, as it is.                             *)
SetPosition(p, pos) ==
  /\ bufp' = [bufp EXCEPT ![p] = pos]
  /\ IF p \in Inputs THEN taken' = [taken EXCEPT ![p] = SubSeq(data[p], 1, pos)] /\ UNCHANGED given
                     ELSE given' = [given EXCEPT ![p] = SubSeq(data[p], 1, pos)] /\ UNCHANGED taken
  /\ UNCHANGED <<frames, data, got, nframes, astray, outside>>

(* AudioSeek()                                                             *)
AudioSeek(p, pos) ==
  p \in got /\ pos <= nframes[p] /\ SetPosition(p, pos)

(* AudioCopy(): the samples go from the beginning of one buffer to the     *)
(* beginning of the other, wherever the cursors are; these are advanced.   *)
(* "This function uses the current positions of both ports" (copy() in     *)
(* doc/buffer.adoc): a port that is not at its beginning goes astray.      *)
AudioCopy(dst, src, count) ==
  /\ {dst, src} \subseteq got
  /\ LET n == Lesser(count, Lesser(Avail(src), Avail(dst))) IN
     /\ n > 0
     /\ data' = [data EXCEPT ![dst] = Overwrite(@, 0, Segment(data[src], 0, n))]
     /\ outside' = (outside \/ ~Inside(src, 0, n) \/ ~Inside(dst, 0, n))
     /\ bufp' = [bufp EXCEPT ![src] = @ + n, ![dst] = @ + n]
     /\ taken' = [taken EXCEPT ![src] = @ \o Segment(data[src], 0, n)]
     /\ given' = [given EXCEPT ![dst] = @ \o Segment(data[src], 0, n)]
  /\ astray' = astray \cup {p \in {dst, src} : bufp[p] > 0}
  /\ UNCHANGED <<frames, got, nframes>>

----------------------------------------------------------------------------
(* MIDI ports.                                                             *)

Append_(p, es) ==
  /\ data' = [data EXCEPT ![p] = @ \o es]
  /\ given' = [given EXCEPT ![p] = @ \o es]

MidiWrite_NoNull(p, e) ==                   \* mutant: NULL of JACK's is not checked
  /\ p \in got
  /\ e.size <= MidiSpace(data[p])
  /\ Append_(p, <<e>>)
  /\ outside' = (outside \/ ~Fits(data[p], e))
  /\ UNCHANGED <<frames, got, nframes, bufp, taken, astray>>

(* MidiWrite(): jack_midi_event_reserve() has the last word.               *)
MidiWrite(p, e) ==
  /\ p \in got
  /\ e.size <= MidiSpace(data[p]) /\ Fits(data[p], e)
  /\ Append_(p, <<e>>)
  /\ UNCHANGED <<frames, got, nframes, bufp, taken, astray, outside>>

(* MidiRead(): index defaults to the cursor, which goes up by one whatever *)
(* the index.                                                              *)
MidiRead(p, index) ==
  /\ p \in got /\ Avail(p) > 0
  /\ Advance(p, 1)
  /\ taken' = IF index < Len(data[p])
              THEN [taken EXCEPT ![p] = Append(@, data[p][index + 1])] ELSE taken
  /\ astray' = IF index = bufp[p] THEN astray ELSE astray \cup {p}
  /\ UNCHANGED <<frames, data, got, nframes, given, outside>>

(* MidiSeek()                                                              *)
MidiSeek(p, index) ==
  p \in got /\ index <= nframes[p] /\ SetPosition(p, index)

(* Of the events es, one after the other, n go into a buffer that holds to: *)
(* up to the first that JACK refuses.                                      *)
Accepted(to, es, n) ==
  /\ \A i \in 1..n : Fits(to \o SubSeq(es, 1, i - 1), es[i])
  /\ n < Len(es) => ~Fits(to \o SubSeq(es, 1, n), es[n + 1])

MidiCopy_Refused(dst, src, count) ==        \* mutant: an event that is refused is skipped
  /\ {dst, src} \subseteq got /\ Avail(src) > 0
  /\ LET es == Segment(data[src], bufp[src], Lesser(count, Avail(src))) IN
     \E n \in 0..Len(es) :
       /\ Accepted(data[dst], es, n)
       /\ Append_(dst, SubSeq(es, 1, n))
       /\ Advance(src, Lesser(n + 1, Len(es)))
       /\ taken' = [taken EXCEPT ![src] = @ \o SubSeq(es, 1, n)]
  /\ UNCHANGED <<frames, got, nframes, astray, outside>>

(* MidiCopy(): event by event, until JACK refuses one.                     *)
MidiCopy(dst, src, count) ==
  /\ {dst, src} \subseteq got /\ Avail(src) > 0
  /\ LET es == Segment(data[src], bufp[src], Lesser(count, Avail(src))) IN
     \E n \in 0..Len(es) :
       /\ Accepted(data[dst], es, n)
       /\ Append_(dst, SubSeq(es, 1, n))
       /\ Advance(src, n)
       /\ taken' = [taken EXCEPT ![src] = @ \o SubSeq(es, 1, n)]
  /\ UNCHANGED <<frames, got, nframes, astray, outside>>

----------------------------------------------------------------------------
Init ==
  /\ frames = 0
  /\ data = Empty /\ taken = Empty /\ given = Empty
  /\ got = {} /\ nframes = [p \in Ports |-> 0] /\ bufp = [p \in Ports |-> 0]
  /\ astray = {} /\ outside = FALSE

(* Arguments a script passes: a position may be one too far.               *)
Counts == 0..MaxFrames + 1
Indices == 0..MaxEvents + 1

(* SwitchWrite() and its likes: by the kind of the port.                   *)
AudioStep ==
  \/ \E p \in AudioOut : \E samples \in Seqs(Written, 2) : AudioWrite(p, samples)
  \/ \E p \in AudioOut, n \in Counts : AudioClear(p, n)
  \/ \E p \in AudioIn, n \in Counts : AudioRead(p, n)
  \/ \E p \in Audio, pos \in Counts : AudioSeek(p, pos)
  \/ \E dst \in AudioOut, src \in AudioIn, n \in Counts : AudioCopy(dst, src, n)

MidiStep ==
  \/ \E p \in MidiOut, e \in Event : MidiWrite(p, e)
  \/ \E p \in MidiIn, i \in Indices : MidiRead(p, i)
  \/ \E p \in MidiIn, i \in Indices : MidiSeek(p, i)
  \/ \E dst \in MidiOut, src \in MidiIn, n \in Indices : MidiCopy(dst, src, n)

Next ==
  \/ \E n \in 1..MaxFrames : Cycle(n)
  \/ buffer_drop_all
  \/ \E p \in Ports : GetBuffer(p)
  \/ AudioStep
  \/ MidiStep

Spec == Init /\ [][Next]_vars

----------------------------------------------------------------------------
(* Type invariant.                                                         *)
TypeOK ==
  /\ frames \in 0..MaxFrames
  /\ \A p \in Audio : data[p] \in Seqs(Sample, MaxFrames)
  /\ \A p \in MidiIn \cup MidiOut : data[p] \in Seq(Event)
  /\ got \subseteq Ports /\ (frames = 0 => got = {})
  /\ nframes \in [Ports -> Nat] /\ bufp \in [Ports -> Nat]
  /\ astray \subseteq Ports /\ outside \in BOOLEAN

(* No operation reads or writes outside a buffer, whatever counts and      *)
(* positions the script passes, and though the space told for a MIDI event *)
(* wraps when the buffer is nearly full: the cursor never passes the end   *)
(* of the buffer of this cycle.                                            *)
InsideBuffer ==
  /\ ~outside
  /\ \A p \in got : bufp[p] <= nframes[p]
  /\ \A p \in got \ MidiOut : nframes[p] = Len(data[p])

(* What the script has taken from an input port, by read() and copy(), is  *)
(* all that comes before the cursor, in order: nothing is skipped or taken *)
(* twice, also when copy() stops at an event that does not fit. What it    *)
(* was told that it has written is in the output buffer, in order.         *)
InOrder(p) ==
  IF p \in Inputs THEN taken[p] = SubSeq(data[p], 1, bufp[p])
  ELSE IF p \in AudioOut THEN given[p] = SubSeq(data[p], 1, bufp[p])
  ELSE given[p] = data[p]

(* It is so for ports not repositioned by read() with an index, and for    *)
(* audio ports which copy() finds at their beginning: of a port that it    *)
(* finds further on, copy() takes the first samples a second time and      *)
(* skips others, or overwrites the first that were written.                *)
StreamsInOrder == \A p \in got \ astray : InOrder(p)

----------------------------------------------------------------------------
(* Why it works: the inductive invariant of PortBufferProofs.              *)

(* Between cycles there is neither data nor a buffer.                      *)
ShapeInv ==
  /\ frames \in 0..MaxFrames
  /\ DOMAIN data = Ports /\ DOMAIN taken = Ports /\ DOMAIN given = Ports
  /\ got \subseteq Ports /\ (frames = 0 => got = {})
  /\ nframes \in [Ports -> Nat] /\ bufp \in [Ports -> Nat]
  /\ astray \subseteq Ports

(* All audio ports have the period's length. The cursor stays within the   *)
(* buffer of this cycle; of a buffer not yet retrieved nothing is taken,   *)
(* and nothing given to it.                                                *)
Item(p) == IF p \in Audio THEN Sample ELSE Event
PortInv(p) ==
  /\ data[p] \in Seq(Item(p)) /\ taken[p] \in Seq(Item(p)) /\ given[p] \in Seq(Item(p))
  /\ p \in Audio => Len(data[p]) = frames
  /\ p \in got =>
       /\ bufp[p] <= nframes[p]
       /\ p \notin MidiOut => nframes[p] = Len(data[p])
       /\ p \notin astray => InOrder(p)
  /\ p \notin got => taken[p] = <<>> /\ given[p] = <<>>

IInv == outside = FALSE /\ ShapeInv /\ \A p \in Ports : PortInv(p)
=============================================================================
