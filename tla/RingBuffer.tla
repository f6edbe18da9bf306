----------------------------- MODULE RingBuffer -----------------------------
(***************************************************************************)
(* LuaJack's message protocol over JACK's lock-free ringbuffer             *)
(* (src/ringbuffer.c) and the pipe that may go with it (src/rbuf.c,        *)
(* src/syncpipe.c), between one writing and one reading thread.            *)
(*                                                                         *)
(* Each access to a pointer shared by the two threads is a step of its     *)
(* own, so the threads interleave between any two of them.                 *)
(*                                                                         *)
(* JACK keeps two pointers into the buffer; here they are two free-running *)
(* byte counters, and the pointers are the counters modulo Size.           *)
(***************************************************************************)
EXTENDS Integers, Sequences

CONSTANTS
  Size,        \* bytes allocated (JACK rounds the size asked to a power of 2)
  HdrLen,      \* sizeof(hdr_t)
  Lens,        \* payload lengths of the messages written
  BufSizes,    \* sizes of the buffers C readers pass to luajack_ringbuffer_read
  UsePipe,     \* usepipe argument of jack.ringbuffer()
  PipeCap,     \* bytes the kernel's pipe holds
  WriterApi,   \* APIs the writing thread uses: "lua", "c"
  ReaderApi,   \* APIs the reading thread uses: "lua", "c"
  Polling,     \* TRUE: reads at any time; FALSE: only when select() says so
  CarefulReset,\* is a ringbuffer reset only while no thread is in a call?
  MaxMsgs      \* bound: messages written

ASSUME RingAssumption ==
  /\ Size \in Nat \ {0}
  /\ HdrLen \in Nat \ {0}
  /\ Lens \subseteq Nat
  /\ BufSizes \subseteq Nat
  /\ UsePipe \in BOOLEAN
  /\ PipeCap \in Nat \ {0}
  /\ WriterApi \subseteq {"lua", "c"}
  /\ ReaderApi \subseteq {"lua", "c"}
  /\ Polling \in BOOLEAN /\ CarefulReset \in BOOLEAN
  /\ MaxMsgs \in Nat

VARIABLES
  mem,         \* the buffer: slot -> the byte it holds
  w, r,        \* bytes ever published by the writer, released by the reader
  pipe,        \* bytes in the pipe
  wpc, wapi,   \* the writer: next step of its call, API of the call
  wmsg,        \* the message being written
  rpc, rop,    \* the reader: next step of its call, the call
  rhdr, rdata, \* the header bytes peeked, the payload bytes copied
  dirty,       \* the reader's last peek returned a message (selectable.lua)
  sent, next, got \* history: see MessageChannel

wvars == <<wpc, wapi, wmsg>>
rvars == <<rpc, rop, rhdr, rdata, dirty>>
hist == <<sent, next, got>>
vars == <<mem, w, r, pipe, wvars, rvars, hist>>

(* A message is known by the position of its first byte; its tag and       *)
(* payload are the bytes numbered 0, 1, ... up to its length. A header     *)
(* tells len, and every byte tells whose it is.                            *)
Msg == [at : Nat, len : Lens]
Byte == [msg : Msg, off : Nat]
ByteOf(m, i) == [msg |-> m, off |-> i]
Blank == [msg |-> [at |-> 0, len |-> 0], off |-> -1]   \* never written
MsgSize(m) == HdrLen + m.len
HeaderBytes(m) == [i \in 0 .. HdrLen - 1 |-> ByteOf(m, i)]
DataBytes(m) == [i \in 0 .. m.len - 1 |-> ByteOf(m, HdrLen + i)]
Corrupt == [at |-> -1, len |-> 0]
NoBytes == [i \in {} |-> Blank]
Decode(h, d) ==
  IF h = HeaderBytes(h[0].msg) /\ d = DataBytes(h[0].msg) THEN h[0].msg ELSE Corrupt

----------------------------------------------------------------------------
(* jack_ringbuffer_*: the parts of JACK's ringbuffer LuaJack calls.        *)

Slots == 0 .. Size - 1
Slot(p) == p % Size

(* Only the pointers are compared: a full buffer would look empty, so one  *)
(* slot is always left free.                                               *)
ReadSpace == (w - r) % Size
WriteSpace == Size - 1 - ReadSpace

(* The free, or the readable, region of n bytes from pointer p, as two     *)
(* spans: up to the end of the buffer, and on from its beginning.          *)
Vector(p, n) ==
  IF p + n > Size
  THEN << [from |-> p, len |-> Size - p], [from |-> 0, len |-> p + n - Size] >>
  ELSE << [from |-> p, len |-> n], [from |-> 0, len |-> 0] >>
WriteVector == Vector(Slot(w), WriteSpace)
ReadVector == Vector(Slot(r), ReadSpace)

----------------------------------------------------------------------------
(* The pipe (syncpipe.c): both ends are non-blocking; a write to a full    *)
(* pipe and a read from an empty one do nothing.                           *)

SyncpipeWrite == pipe' = IF pipe < PipeCap THEN pipe + 1 ELSE pipe
SyncpipeRead_Drain == pipe' = 0                            \* mutant: reads all bytes
SyncpipeRead == pipe' = IF pipe > 0 THEN pipe - 1 ELSE pipe

(* Only the Lua functions touch the pipe, after the ringbuffer. A call     *)
(* that ends, or has only the pipe left, forgets its local variables.      *)
NoMsg == [at |-> 0, len |-> 0]
WriteDone(api) ==
  /\ wpc' = IF api = "lua" /\ UsePipe THEN "pipe" ELSE "idle"
  /\ wmsg' = NoMsg

NoOp == [kind |-> "peek", api |-> "lua", bufsz |-> 0]
ReadDone ==
  /\ rpc' = IF rop.api = "lua" /\ UsePipe /\ rop.kind # "peek" THEN "pipe" ELSE "idle"
  /\ rop' = NoOp
  /\ rhdr' = NoBytes
  /\ rdata' = NoBytes

----------------------------------------------------------------------------
(* The writer: ringbuffer_luawrite() and ringbuffer_cwrite().              *)

WriteCall(size, len, api) ==
  /\ wpc = "idle"
  /\ Len(sent) < MaxMsgs
  /\ wapi' = api
  /\ IF size > WriteSpace
     THEN WriteDone(api)
     ELSE wpc' = "header" /\ wmsg' = [at |-> w, len |-> len]
  /\ UNCHANGED <<mem, w, r, pipe, rvars, hist>>

WriteBegin_DataOnly(len, api) == WriteCall(len, len, api)  \* mutant: no room for the header

(* The check for space: with too little the call returns false.            *)
WriteBegin(len, api) == WriteCall(HdrLen + len, len, api)

(* The buffer after memcpy() of n bytes of m, from its byte first on, to   *)
(* slots.                                                                  *)
Copied(m, slots, n, first) ==
  [s \in Slots |-> IF \E i \in 0 .. n - 1 : slots[i] = s
                   THEN ByteOf(m, first + CHOOSE i \in 0 .. n - 1 : slots[i] = s)
                   ELSE mem[s]]

(* jack_ringbuffer_write(hdr) copies, and only then publishes. Writing     *)
(* less than the header is the UNEXPECTED_ERROR of the code.               *)
WriteHeader ==
  /\ wpc = "header"
  /\ IF WriteSpace < HdrLen
     THEN wpc' = "unexpected" /\ UNCHANGED mem
     ELSE /\ wpc' = "publish"
          /\ mem' = Copied(wmsg, [i \in 0 .. HdrLen - 1 |-> Slot(w + i)], HdrLen, 0)
  /\ UNCHANGED <<w, r, pipe, wapi, wmsg, rvars, hist>>

PublishHeader ==
  /\ wpc = "publish"
  /\ w' = w + HdrLen
  /\ IF wmsg.len = 0
     THEN WriteDone(wapi) /\ sent' = Append(sent, wmsg)
     ELSE wpc' = "data" /\ UNCHANGED <<wmsg, sent>>
  /\ UNCHANGED <<mem, r, pipe, wapi, rvars, next, got>>

(* The payload goes to the two spans of the free region.                   *)
WriteSlot(i) ==
  LET vec == WriteVector
  IN  IF i < vec[1].len THEN vec[1].from + i ELSE vec[2].from + (i - vec[1].len)

WriteData ==
  /\ wpc = "data"
  /\ IF WriteVector[1].len + WriteVector[2].len < wmsg.len
     THEN wpc' = "unexpected" /\ UNCHANGED mem
     ELSE /\ wpc' = "advance"
          /\ mem' = Copied(wmsg, [i \in 0 .. wmsg.len - 1 |-> WriteSlot(i)], wmsg.len, HdrLen)
  /\ UNCHANGED <<w, r, pipe, wapi, wmsg, rvars, hist>>

AdvanceWrite ==
  /\ wpc = "advance"
  /\ w' = w + wmsg.len
  /\ sent' = Append(sent, wmsg)
  /\ WriteDone(wapi)
  /\ UNCHANGED <<mem, r, pipe, wapi, rvars, next, got>>

WritePipe_OnlyIfEmpty ==                        \* mutant: "already readable"
  /\ wpc = "pipe"
  /\ pipe' = IF pipe = 0 THEN 1 ELSE pipe
  /\ wpc' = "idle"
  /\ UNCHANGED <<mem, w, r, wapi, wmsg, rvars, hist>>

(* RingbufferWrite(): the byte goes out whether the write succeeded or not.*)
WritePipe ==
  /\ wpc = "pipe"
  /\ SyncpipeWrite
  /\ wpc' = "idle"
  /\ UNCHANGED <<mem, w, r, wapi, wmsg, rvars, hist>>

----------------------------------------------------------------------------
(* The reader: ringbuffer_luaread(), ringbuffer_cread() and the two        *)
(* read_advance functions.                                                 *)

Kinds == {"read", "peek", "skip"}   \* skip: read_advance
Op == [kind : Kinds, api : {"lua"}, bufsz : {0}] \cup [kind : Kinds, api : {"c"}, bufsz : BufSizes]

(* With Polling = FALSE the thread sits in select() until the pipe is      *)
(* readable or the dirty() method has seen a message.                      *)
ReadBegin(op) ==
  /\ rpc = "idle"
  /\ Polling \/ op.kind = "peek" \/ pipe > 0 \/ dirty
  /\ rop' = op
  /\ rpc' = "peek"
  /\ UNCHANGED <<mem, w, r, pipe, wvars, rhdr, rdata, dirty, hist>>

(* There is no complete message: the call returns nil, or false.           *)
Fail == ReadDone /\ dirty' = FALSE

PeekHeader ==
  /\ rpc = "peek"
  /\ IF ReadSpace < HdrLen
     THEN Fail
     ELSE /\ rhdr' = [i \in 0 .. HdrLen - 1 |-> mem[Slot(r + i)]]
          /\ rpc' = "space"
          /\ UNCHANGED <<rop, rdata, dirty>>
  /\ UNCHANGED <<mem, w, r, pipe, wvars, hist>>

TooBig == rop.api = "c" /\ rop.kind # "skip" /\ rhdr[0].msg.len > rop.bufsz

Proceed ==
  /\ rpc' = IF rop.kind # "skip" /\ rhdr[0].msg.len > 0 THEN "copy" ELSE "advance"
  /\ UNCHANGED <<rop, rhdr, rdata, dirty>>

CheckSpace_HeaderOnly ==                 \* mutant: trusts the header alone
  /\ rpc = "space"
  /\ IF TooBig THEN ReadDone /\ UNCHANGED dirty ELSE Proceed
  /\ UNCHANGED <<mem, w, r, pipe, wvars, hist>>

CheckSpace_OffByOne ==                   \* mutant: <= for <
  /\ rpc = "space"
  /\ IF ReadSpace <= MsgSize(rhdr[0].msg) THEN Fail
     ELSE IF TooBig THEN ReadDone /\ UNCHANGED dirty ELSE Proceed
  /\ UNCHANGED <<mem, w, r, pipe, wvars, hist>>

(* Is the whole message there, and (C only) does it fit the caller's       *)
(* buffer? If not the error is for the main thread, the message stays.     *)
CheckSpace ==
  /\ rpc = "space"
  /\ IF ReadSpace < MsgSize(rhdr[0].msg) THEN Fail
     ELSE IF TooBig THEN ReadDone /\ UNCHANGED dirty ELSE Proceed
  /\ UNCHANGED <<mem, w, r, pipe, wvars, hist>>

ReadSlot_NoHeaderSplit(i) ==                    \* mutant: third case forgotten
  LET vec == ReadVector
      d == vec[1].len - HdrLen
  IN  IF i < d THEN vec[1].from + HdrLen + i ELSE vec[2].from + i

(* Where the payload is, three cases: all of it in the first span, some of *)
(* it there, or none (the header may itself be split).                     *)
ReadSlot(i) ==
  LET vec == ReadVector
      d == vec[1].len - HdrLen
  IN  IF d >= rhdr[0].msg.len THEN vec[1].from + HdrLen + i
      ELSE IF d > 0
      THEN IF i < d THEN vec[1].from + HdrLen + i ELSE vec[2].from + (i - d)
      ELSE vec[2].from + (HdrLen - vec[1].len) + i

CopyData ==
  /\ rpc = "copy"
  /\ rdata' = [i \in 0 .. rhdr[0].msg.len - 1 |-> mem[ReadSlot(i)]]
  /\ rpc' = "advance"
  /\ UNCHANGED <<mem, w, r, pipe, wvars, rop, rhdr, dirty, hist>>

(* A peek ends here, leaving the message; the others release its bytes.    *)
PeekReturn ==
  /\ rpc = "advance" /\ rop.kind = "peek"
  /\ dirty' = TRUE
  /\ ReadDone
  /\ UNCHANGED <<mem, w, r, pipe, wvars, hist>>

AdvanceRead ==
  /\ rpc = "advance" /\ rop.kind # "peek"
  /\ r' = r + MsgSize(rhdr[0].msg)
  /\ next' = next + 1
  /\ got' = IF rop.kind = "read" THEN Append(got, Decode(rhdr, rdata)) ELSE got
  /\ dirty' = FALSE
  /\ ReadDone
  /\ UNCHANGED <<mem, w, pipe, wvars, sent>>

(* RingbufferRead(), RingbufferReadAdvance(): one byte is taken from the   *)
(* pipe whether a message was read or not.                                 *)
ReadPipe ==
  /\ rpc = "pipe"
  /\ SyncpipeRead
  /\ rpc' = "idle"
  /\ UNCHANGED <<mem, w, r, wvars, rop, rhdr, rdata, dirty, hist>>

(* ringbuffer_reset(): the pointers return to slot 0, the pipe is not      *)
(* drained. Nothing in the code keeps it from a call of another thread;    *)
(* JACK's reset is not thread safe, so careful scripts do.                 *)
Reset ==
  /\ CarefulReset => wpc = "idle" /\ rpc = "idle"
  /\ w' = IF Slot(w) = 0 THEN w ELSE w + Size - Slot(w)
  /\ r' = w'
  /\ next' = Len(sent) + 1
  /\ dirty' = FALSE
  /\ UNCHANGED <<mem, pipe, wvars, rpc, rop, rhdr, rdata, sent, got>>

----------------------------------------------------------------------------
WriterStep ==
  WriteHeader \/ PublishHeader \/ WriteData \/ AdvanceWrite \/ WritePipe
ReaderStep ==
  PeekHeader \/ CheckSpace \/ CopyData \/ PeekReturn \/ AdvanceRead \/ ReadPipe

Init ==
  /\ mem = [s \in Slots |-> Blank]
  /\ w = 0 /\ r = 0 /\ pipe = 0
  /\ wpc = "idle" /\ wapi = "lua" /\ wmsg = NoMsg
  /\ rpc = "idle" /\ rop = NoOp
  /\ rhdr = NoBytes /\ rdata = NoBytes
  /\ dirty = FALSE
  /\ sent = <<>> /\ next = 1 /\ got = <<>>

Next ==
  \/ \E len \in Lens, api \in WriterApi : WriteBegin(len, api)
  \/ WriterStep
  \/ \E op \in Op : op.api \in ReaderApi /\ ReadBegin(op)
  \/ ReaderStep
  \/ Reset

Spec == Init /\ [][Next]_vars

(* A call, once begun, runs to its end: nothing in it blocks. The reading  *)
(* thread loops, so it reads whenever its select() keeps reporting data;   *)
(* strong fairness, because its own peeks come between. The writing script *)
(* owes nobody another message.                                            *)
FairSpec ==
  /\ Spec
  /\ WF_vars(WriterStep)
  /\ WF_vars(ReaderStep)
  /\ SF_vars(\E op \in Op : op.api \in ReaderApi /\ op.kind = "read" /\ ReadBegin(op))

----------------------------------------------------------------------------
(* Properties                                                              *)

(* Every variable keeps to its type; in particular the reader, who skips   *)
(* or takes whole messages only, never gets past the last message written  *)
(* (the space test of ringbuffer_luaread and the read_advance functions).  *)
TypeOK ==
  /\ mem \in [Slots -> Byte \cup {Blank}]
  /\ w \in Nat /\ r \in Nat
  /\ pipe \in 0 .. PipeCap
  /\ wpc \in {"idle", "header", "publish", "data", "advance", "pipe", "unexpected"}
  /\ wapi \in {"lua", "c"}
  /\ wmsg \in [at : Nat, len : Lens \cup {0}]
  /\ rpc \in {"idle", "peek", "space", "copy", "advance", "pipe"}
  /\ rop \in [kind : Kinds, api : {"lua", "c"}, bufsz : Nat]
  /\ dirty \in BOOLEAN
  /\ sent \in Seq(Msg)
  /\ next \in 1 .. Len(sent) + 1

(* The ringbuffer is a FIFO channel of whole messages: whatever the        *)
(* interleaving of the two threads, each read returns exactly the bytes of *)
(* the oldest unread message (ringbuffer_luawrite/read).                   *)
Channel == INSTANCE MessageChannel WITH Msg <- Msg
FifoOfMessages == Channel!Spec

(* Having checked the space for the whole message, the writer never meets  *)
(* either UNEXPECTED_ERROR, whatever the reader did since.                 *)
NeverUnexpected == wpc # "unexpected"

(* What a read or a peek is about to hand over is the oldest unread        *)
(* message: a peek shows the message the next read will return, also when  *)
(* its bytes wrap around the end of the buffer.                            *)
ShowsOldest ==
  rpc = "advance" /\ rop.kind # "skip" =>
    /\ next <= Len(sent)
    /\ Decode(rhdr, rdata) = sent[next]

(* A read returns nil only if no complete message is there: a header whose *)
(* payload is not yet published is never taken for a message, and never    *)
(* hides one.                                                              *)
NilMeansEmpty ==
  [][(rpc \in {"peek", "space"} /\ rpc' \in {"idle", "pipe"})
        => next > Len(sent) \/ (rpc = "space" /\ TooBig)]_vars

(* A reader that begins a read only when select() reports the pipe, or a   *)
(* peek has shown a message, is never left asleep with a message in the    *)
(* buffer, once the writer has written its byte (RingbufferWrite). A       *)
(* reader that reads until it gets nil is: see SelectingReader.            *)
WakeupNotLost ==
  rpc = "idle" /\ wpc # "pipe" /\ next <= Len(sent) => pipe > 0

(* Under such a reader, every message written is read (or reset).          *)
EveryMessageRead ==
  \A n \in 1 .. MaxMsgs : Len(sent) >= n ~> next > n

----------------------------------------------------------------------------
(* Why it works: the inductive invariant of RingBufferProofs.              *)

(* The complete messages end here; after it comes, at most, a header whose *)
(* payload is still missing.                                               *)
CompleteEnd == IF wpc \in {"data", "advance"} THEN w - HdrLen ELSE w
End(m) == m.at + MsgSize(m)
Holds(m, n) == \A i \in 0 .. n - 1 : mem[Slot(m.at + i)] = ByteOf(m, i)

(* The counters stay within the buffer, and the writer within the space it *)
(* checked: the reader only ever adds to it.                               *)
WriterInv ==
  /\ r <= w /\ w - r <= Size - 1
  /\ wpc \in {"header", "publish", "data", "advance"} => wmsg \in Msg
  /\ wpc \in {"header", "publish"} => wmsg.at = w /\ End(wmsg) - r <= Size - 1
  /\ wpc \in {"data", "advance"} =>
       wmsg.len > 0 /\ wmsg.at + HdrLen = w /\ End(wmsg) - r <= Size - 1
  /\ wpc \in {"publish", "data"} => Holds(wmsg, HdrLen)
  /\ wpc = "advance" => Holds(wmsg, MsgSize(wmsg))
  /\ wpc # "unexpected"

(* The unread messages lie one after the other from r to CompleteEnd, and  *)
(* the buffer holds their bytes.                                           *)
UnreadInv ==
  /\ next <= Len(sent) => sent[next].at = r /\ End(sent[Len(sent)]) = CompleteEnd
  /\ next = Len(sent) + 1 => r = CompleteEnd
  /\ \A n \in next .. Len(sent) - 1 : sent[n + 1].at = End(sent[n])
  /\ \A n \in next .. Len(sent) : r <= sent[n].at /\ End(sent[n]) <= CompleteEnd
  /\ \A m, n \in next .. Len(sent) : m < n => End(sent[m]) <= sent[n].at
  /\ \A n \in next .. Len(sent) : Holds(sent[n], MsgSize(sent[n]))

(* What the reader has peeked and copied is the oldest message, or the     *)
(* header of the one being written.                                        *)
ReaderInv ==
  /\ rpc = "space" =>
       \/ next <= Len(sent) /\ rhdr = HeaderBytes(sent[next])
       \/ next = Len(sent) + 1 /\ wpc \in {"data", "advance"} /\ rhdr = HeaderBytes(wmsg)
  /\ rpc \in {"copy", "advance"} => next <= Len(sent) /\ rhdr = HeaderBytes(sent[next])
  /\ rpc # "advance" => rdata = NoBytes
  /\ rpc = "copy" => rop.kind # "skip"
  /\ rpc = "advance" /\ rop.kind # "skip" => rdata = DataBytes(sent[next])

(* The messages not read occupy exactly the readable part of the buffer,   *)
(* intact and in order, at every step of both threads.                     *)
RingInv == WriterInv /\ UnreadInv /\ ReaderInv

(* When no wake-up is lost: both sides call the Lua functions, the reader  *)
(* reads only when select() reports the pipe or a peek has shown a message,*)
(* and the pipe holds more bytes than messages fit the ring. It leaves out *)
(* C sides, which do not touch the pipe, and readers that read until they  *)
(* get nil (Polling): a read that finds nothing takes a byte all the same, *)
(* that of a message completed since it looked, and the message waits      *)
(* until the next one is written.                                          *)
SelectingReader ==
  /\ WriterApi \subseteq {"lua"} /\ ReaderApi \subseteq {"lua"}
  /\ UsePipe /\ ~Polling
  /\ Size - 1 < PipeCap * HdrLen

Unread == Len(sent) - next + 1
Pending(pc) == IF pc = "pipe" THEN 1 ELSE 0

(* The byte of every unread message is in the pipe or about to be written,  *)
(* besides the one the reader is about to take; a message that was peeked   *)
(* is still there; the reader has begun a read with a byte in the pipe, or  *)
(* with a message that was peeked, so that a read that finds nothing takes  *)
(* no message's byte.                                                       *)
PipeInv ==
  /\ Unread + Pending(rpc) <= pipe + Pending(wpc)
  /\ dirty => Unread > 0
  /\ rpc \in {"peek", "space", "copy", "advance"} =>
       rop.api = "lua" /\ (rop.kind # "peek" => pipe > 0 \/ dirty)
  /\ wpc # "idle" => wapi = "lua"

(* Messages in the buffer are at least a header apart.                      *)
SpacedInv ==
  \A m, n \in next .. Len(sent) : m <= n => (n - m) * HdrLen <= sent[n].at - sent[m].at
=============================================================================
