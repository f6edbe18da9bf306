--------------------------- MODULE MessageChannel ---------------------------
(***************************************************************************)
(* What a queue of LuaJack promises: a first-in first-out channel of whole *)
(* messages. No bytes, no pointers, no pipe, no lock: RingBuffer.tla       *)
(* implements this module (doc/ringbuffers.adoc) and EventQueue.tla does.  *)
(***************************************************************************)
EXTENDS Naturals, Sequences

CONSTANT Msg        \* the messages that may be written

VARIABLES
  sent,             \* every message whose write has completed, in order
  next,             \* index in sent of the oldest message not yet consumed
  got               \* what the reads returned, in order

chan == <<sent, next, got>>

Init == sent = <<>> /\ next = 1 /\ got = <<>>

Unread == next <= Len(sent)

(* A write completes: the message becomes the newest of the channel. *)
Send ==
  /\ Len(sent') = Len(sent) + 1
  /\ SubSeq(sent', 1, Len(sent)) = sent
  /\ sent'[Len(sent')] \in Msg
  /\ UNCHANGED <<next, got>>

(* A read returns the oldest unread message, whole, and removes it. *)
Receive ==
  /\ Unread
  /\ got' = Append(got, sent[next])
  /\ next' = next + 1
  /\ UNCHANGED sent

(* ringbuffer_read_advance(): the oldest message is dropped unread. *)
Skip ==
  /\ Unread
  /\ next' = next + 1
  /\ UNCHANGED <<sent, got>>

(* ringbuffer_reset(): every unread message is dropped. *)
Reset ==
  /\ next' = Len(sent) + 1
  /\ UNCHANGED <<sent, got>>

Next == Send \/ Receive \/ Skip \/ Reset

Spec == Init /\ [][Next]_chan
=============================================================================
