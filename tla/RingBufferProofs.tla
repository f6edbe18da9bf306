-------------------------- MODULE RingBufferProofs --------------------------
(***************************************************************************)
(* What holds of a LuaJack ringbuffer of any size, with messages of any    *)
(* lengths and any interleaving of its writer and its reader.              *)
(***************************************************************************)
EXTENDS RingBuffer, TLAPS

----------------------------------------------------------------------------
(* Positions and slots                                                     *)

LEMMA SlotRange == ASSUME NEW p \in Nat PROVE Slot(p) \in Slots
  BY RingAssumption DEF Slot, Slots

LEMMA ModUnique ==
  ASSUME NEW k \in Int, NEW s \in Nat, s < Size
  PROVE  (k * Size + s) % Size = s
  BY RingAssumption

LEMMA SlotAdd ==
  ASSUME NEW p \in Nat, NEW i \in Nat, i <= Size
  PROVE  Slot(p + i) = IF Slot(p) + i < Size THEN Slot(p) + i ELSE Slot(p) + i - Size
<1> DEFINE k == p \div Size
<1>1. p = k * Size + Slot(p) /\ Slot(p) \in 0 .. Size - 1 /\ k \in Int
  BY RingAssumption DEF Slot
<1> HIDE DEF k
<1>4. Size \in Nat /\ k * Size \in Int /\ (k + 1) * Size = k * Size + Size
  BY <1>1, RingAssumption
<1>2. CASE Slot(p) + i < Size
  <2>1. p + i = k * Size + (Slot(p) + i) BY <1>1, <1>4
  <2> QED BY <1>1, <1>2, <1>4, <2>1, ModUnique DEF Slot
<1>3. CASE Slot(p) + i >= Size
  <2>1. p + i = (k + 1) * Size + (Slot(p) + i - Size) BY <1>1, <1>4
  <2>2. Slot(p) + i - Size \in Nat /\ Slot(p) + i - Size < Size /\ k + 1 \in Int
    BY <1>1, <1>3, <1>4
  <2>3. (p + i) % Size = Slot(p) + i - Size
    BY <2>1, <2>2, ModUnique
  <2> QED BY <1>1, <1>3, <1>4, <2>3 DEF Slot
<1> QED BY <1>1, <1>2, <1>3, RingAssumption

LEMMA SlotInjective ==
  ASSUME NEW a \in Nat, NEW b \in Nat, a <= b, b < a + Size, Slot(a) = Slot(b)
  PROVE  a = b
<1>1. Slot(b) = IF Slot(a) + (b - a) < Size THEN Slot(a) + (b - a) ELSE Slot(a) + (b - a) - Size
  BY SlotAdd, RingAssumption
<1> QED BY <1>1, SlotRange, RingAssumption DEF Slots

LEMMA ReadSpaceIs ==
  ASSUME w \in Nat, r \in Nat, r <= w, w - r < Size
  PROVE  ReadSpace = w - r
  BY RingAssumption DEF ReadSpace

LEMMA MsgFacts ==
  ASSUME NEW m \in Msg
  PROVE  /\ m.at \in Nat /\ m.len \in Nat /\ MsgSize(m) = HdrLen + m.len
         /\ MsgSize(m) \in Nat /\ End(m) = m.at + MsgSize(m) /\ HdrLen \in Nat
<1>1. m.at \in Nat /\ m.len \in Lens
  BY DEF Msg
<1>2. m.len \in Nat /\ HdrLen \in Nat
  BY <1>1, RingAssumption
<1> QED BY <1>1, <1>2 DEF MsgSize, End

(* The two spans of the write vector are the slots from w on.              *)
LEMMA WriteSlotIs ==
  ASSUME w \in Nat, r \in Nat, r <= w, w - r < Size,
         NEW i \in Nat, i < WriteSpace
  PROVE  WriteSlot(i) = Slot(w + i)
<1>1. Slot(w) \in 0 .. Size - 1
  BY SlotRange DEF Slots
<1>2. i <= Size /\ WriteSpace = Size - 1 - (w - r) /\ Size \in Nat
  BY ReadSpaceIs, RingAssumption DEF WriteSpace
<1>3. Slot(w + i) = IF Slot(w) + i < Size THEN Slot(w) + i ELSE Slot(w) + i - Size
  BY <1>2, SlotAdd
<1> QED
  BY <1>1, <1>2, <1>3 DEF WriteSlot, WriteVector, Vector

(* In all three cases of the read, the payload is taken from the slots     *)
(* that follow the header.                                                 *)
LEMMA ReadSlotIs ==
  ASSUME w \in Nat, r \in Nat, r <= w, w - r < Size,
         rhdr[0].msg.len \in Nat, HdrLen + rhdr[0].msg.len <= w - r,
         NEW i \in 0 .. rhdr[0].msg.len - 1
  PROVE  ReadSlot(i) = Slot(r + HdrLen + i)
<1>1. Slot(r) \in 0 .. Size - 1
  BY SlotRange DEF Slots
<1>2. Size \in Nat /\ HdrLen \in Nat /\ HdrLen + i <= Size /\ HdrLen + i \in Nat /\ i \in Nat
  BY RingAssumption
<1>3. Slot(r + (HdrLen + i)) =
        IF Slot(r) + (HdrLen + i) < Size THEN Slot(r) + (HdrLen + i)
        ELSE Slot(r) + (HdrLen + i) - Size
  BY <1>2, SlotAdd
<1>4. r + (HdrLen + i) = r + HdrLen + i
  BY <1>2
<1>5. ReadSpace = w - r
  BY ReadSpaceIs
<1> QED
  BY <1>1, <1>2, <1>3, <1>4, <1>5 DEF ReadSlot, ReadVector, Vector

(* The n slots are those of the n positions from p on.                     *)
Consecutive(slots, n, p) == \A i \in 0 .. n - 1 : slots[i] = Slot(p + i)

(* HoldsIn and Spares say of a buffer b, and of the messages in it, what   *)
(* Holds says of mem: the first k bytes of m are there; writing n bytes    *)
(* from position p on has left the Size - n positions before p alone.      *)
HoldsIn(b, m, k) == \A i \in 0 .. k - 1 : b[Slot(m.at + i)] = ByteOf(m, i)
Spares(b, p, n) == \A q \in Nat : q < p /\ p + n <= q + Size => b[Slot(q)] = mem[Slot(q)]

(* b is mem with the n bytes of m from its byte first on copied to the     *)
(* slots from position p on.                                               *)
IsCopy(b, m, p, n, first) ==
  /\ b = [s \in Slots |-> b[s]]
  /\ \A i \in 0 .. n - 1 : b[Slot(p + i)] = ByteOf(m, first + i)
  /\ Spares(b, p, n)
  /\ \A s \in Slots : b[s] = mem[s] \/ \E i \in 0 .. n - 1 : b[s] = ByteOf(m, first + i)

LEMMA CopiedIs ==
  ASSUME NEW m, NEW slots, NEW p \in Nat, NEW n \in Nat, n <= Size, NEW first \in Nat,
         Consecutive(slots, n, p)
  PROVE  IsCopy(Copied(m, slots, n, first), m, p, n, first)
<1> USE DEF Consecutive
<1> DEFINE new == Copied(m, slots, n, first)
<1>1. ASSUME NEW i \in 0 .. n - 1, NEW j \in 0 .. n - 1, slots[i] = slots[j]
      PROVE  i = j
  <2>1. Slot(p + i) = Slot(p + j) /\ p + i \in Nat /\ p + j \in Nat /\ Size \in Nat
    BY <1>1, RingAssumption
  <2>2. CASE i <= j
    BY <2>1, <2>2, SlotInjective
  <2>3. CASE j <= i
    BY <2>1, <2>3, SlotInjective
  <2> QED BY <2>2, <2>3
<1>2. ASSUME NEW i \in 0 .. n - 1
      PROVE  new[Slot(p + i)] = ByteOf(m, first + i)
  <2>1. Slot(p + i) \in Slots /\ slots[i] = Slot(p + i)
    BY SlotRange
  <2>2. (CHOOSE j \in 0 .. n - 1 : slots[j] = Slot(p + i)) = i
    BY <1>1, <2>1
  <2> QED BY <2>1, <2>2 DEF Copied
<1>3. ASSUME NEW q \in Nat, q < p, p + n <= q + Size
      PROVE  new[Slot(q)] = mem[Slot(q)]
  <2>1. ASSUME NEW i \in 0 .. n - 1 PROVE slots[i] # Slot(q)
    BY <1>3, <2>1, SlotInjective, RingAssumption
  <2> QED BY <2>1, SlotRange DEF Copied
<1>4. \A s \in Slots : new[s] = mem[s] \/ \E i \in 0 .. n - 1 : new[s] = ByteOf(m, first + i)
  BY DEF Copied
<1>5. new = [s \in Slots |-> new[s]]
  BY DEF Copied
<1> HIDE DEF new
<1>6. IsCopy(new, m, p, n, first)
  BY <1>2, <1>3, <1>4, <1>5 DEF IsCopy, Spares
<1> QED BY <1>6 DEF new

(* Writing n bytes from position p on, where there is space for them,      *)
(* spares what lies between r and p.                                       *)
LEMMA BytesKept ==
  ASSUME r \in Nat, NEW p \in Nat, NEW n \in Nat, p + n - r <= Size - 1,
         NEW b, Spares(b, p, n),
         NEW m, m.at \in Nat, r <= m.at, NEW k \in Nat, m.at + k <= p,
         Holds(m, k)
  PROVE  HoldsIn(b, m, k)
<1> SUFFICES ASSUME NEW i \in 0 .. k - 1
             PROVE  b[Slot(m.at + i)] = ByteOf(m, i)
  BY DEF HoldsIn
<1>1. m.at + i \in Nat /\ m.at + i < p /\ p + n <= (m.at + i) + Size
  BY RingAssumption
<1>2. b[Slot(m.at + i)] = mem[Slot(m.at + i)]
  BY <1>1 DEF Spares
<1> QED BY <1>2 DEF Holds

----------------------------------------------------------------------------
(* The inductive invariant                                                 *)

IInv == TypeOK /\ RingInv

LEMMA InitIInv == Init => IInv
<1> SUFFICES ASSUME Init PROVE IInv
  OBVIOUS
<1> USE RingAssumption DEF Init
<1>1. TypeOK
  <2>1. mem \in [Slots -> Byte \cup {Blank}] /\ dirty \in BOOLEAN
    BY Zenon
  <2>5. w \in Nat /\ r \in Nat /\ pipe \in 0 .. PipeCap
    OBVIOUS
  <2>2. wmsg \in [at : Nat, len : Lens \cup {0}]
    BY DEF NoMsg
  <2>3. rop \in [kind : Kinds, api : {"lua", "c"}, bufsz : Nat]
    BY DEF NoOp, Kinds
  <2>4. sent \in Seq(Msg) /\ next \in 1 .. Len(sent) + 1
    OBVIOUS
  <2> QED BY <2>1, <2>2, <2>3, <2>4, <2>5 DEF TypeOK
<1>2. WriterInv
  BY DEF WriterInv
<1>3. UnreadInv
  BY DEF UnreadInv, CompleteEnd
<1>4. ReaderInv
  BY DEF ReaderInv
<1> QED BY <1>1, <1>2, <1>3, <1>4 DEF IInv, RingInv

(* What an action that leaves a part of the state alone preserves.         *)

LEMMA WriterKept ==
  ASSUME WriterInv, UNCHANGED <<mem, w, r, wpc, wmsg>>
  PROVE  WriterInv'
BY DEF WriterInv, Holds, End, MsgSize

LEMMA UnreadKept ==
  ASSUME UnreadInv, UNCHANGED <<mem, r, sent, next>>, CompleteEnd' = CompleteEnd
  PROVE  UnreadInv'
BY DEF UnreadInv, Holds, End, MsgSize

LEMMA ReaderKept ==
  ASSUME ReaderInv, UNCHANGED <<rpc, rop, rhdr, rdata, sent, next>>,
         rpc = "space" /\ wpc \in {"data", "advance"} =>
           wmsg' = wmsg /\ wpc' \in {"data", "advance"}
  PROVE  ReaderInv'
BY DEF ReaderInv

(* The reader is behind the end of the complete messages.                  *)
LEMMA UnreadBounds ==
  ASSUME TypeOK, WriterInv, UnreadInv
  PROVE  /\ r <= CompleteEnd /\ CompleteEnd <= w /\ CompleteEnd \in Int
         /\ w \in Nat /\ r \in Nat /\ r <= w /\ w - r < Size /\ ReadSpace = w - r
         /\ HdrLen \in Nat \ {0} /\ Size \in Nat \ {0} /\ next \in Nat \ {0} /\ Len(sent) \in Nat
<1>1. /\ w \in Nat /\ r \in Nat /\ r <= w /\ w - r < Size /\ CompleteEnd <= w /\ CompleteEnd \in Int
      /\ HdrLen \in Nat \ {0} /\ Size \in Nat \ {0} /\ next \in Nat \ {0} /\ Len(sent) \in Nat
  BY RingAssumption DEF TypeOK, WriterInv, CompleteEnd
<1>2. CASE next <= Len(sent)
  <2>1. r <= sent[next].at /\ End(sent[next]) <= CompleteEnd /\ sent[next] \in Msg
    BY <1>1, <1>2 DEF UnreadInv, TypeOK
  <2>2. r <= CompleteEnd
    BY <1>1, <2>1, MsgFacts
  <2> QED BY <1>1, <2>2, ReadSpaceIs
<1>3. CASE next = Len(sent) + 1
  BY <1>1, <1>3, ReadSpaceIs DEF UnreadInv
<1> QED BY <1>1, <1>2, <1>3 DEF TypeOK

(* Writing where there is space spares the unread messages.                *)
UnreadIn(b) == \A n \in next .. Len(sent) : HoldsIn(b, sent[n], MsgSize(sent[n]))

LEMMA UnreadSpared ==
  ASSUME TypeOK, WriterInv, UnreadInv,
         NEW k \in Nat, w + k - r <= Size - 1, NEW b, Spares(b, w, k)
  PROVE  UnreadIn(b)
<1> SUFFICES ASSUME NEW n \in next .. Len(sent)
             PROVE  HoldsIn(b, sent[n], MsgSize(sent[n]))
  BY DEF UnreadIn
<1>1. n \in 1 .. Len(sent) /\ sent[n] \in Msg
  BY UnreadBounds DEF TypeOK
<1>2. r <= sent[n].at /\ End(sent[n]) <= CompleteEnd /\ Holds(sent[n], MsgSize(sent[n]))
  BY DEF UnreadInv
<1> DEFINE m == sent[n]
<1>3. m.at \in Nat /\ r <= m.at /\ MsgSize(m) \in Nat /\ m.at + MsgSize(m) <= w
      /\ Holds(m, MsgSize(m))
  BY <1>1, <1>2, MsgFacts, UnreadBounds
<1>4. w \in Nat /\ r \in Nat
  BY UnreadBounds
<1> HIDE DEF m
<1>5. HoldsIn(b, m, MsgSize(m))
  BY <1>3, <1>4, BytesKept
<1> QED BY <1>5 DEF m

(* Bytes of a message copied into the buffer.                              *)
LEMMA CopyOk ==
  ASSUME mem \in [Slots -> Byte \cup {Blank}], NEW m \in Msg, NEW p, NEW n \in Nat,
         NEW first \in Nat, NEW b, IsCopy(b, m, p, n, first)
  PROVE  b \in [Slots -> Byte \cup {Blank}]
<1>1. \A i \in 0 .. n - 1 : ByteOf(m, first + i) \in Byte
  BY DEF ByteOf, Byte
<1>2. \A s \in Slots : b[s] \in Byte \cup {Blank}
  BY <1>1 DEF IsCopy
<1> QED BY <1>2 DEF IsCopy

(* The steps of a writing thread.                                          *)

LEMMA WriteBeginInv ==
  ASSUME IInv, NEW len \in Lens, NEW api \in WriterApi, WriteBegin(len, api)
  PROVE  IInv'
<1> USE RingAssumption DEF IInv, RingInv, WriteBegin, WriteCall, WriteDone, NoMsg, rvars, hist
<1>1. WriteSpace = Size - 1 - (w - r) /\ w \in Nat /\ r \in Nat /\ len \in Nat
  BY ReadSpaceIs DEF WriteSpace, TypeOK, WriterInv
<1>2. TypeOK'
  BY <1>1 DEF TypeOK
<1>3. WriterInv'
  BY <1>1 DEF WriterInv, Msg, End, MsgSize
<1>4. UnreadInv'
  BY DEF UnreadInv, CompleteEnd, Holds
<1>5. ReaderInv'
  BY DEF ReaderInv
<1> QED BY <1>2, <1>3, <1>4, <1>5

LEMMA WriteHeaderInv ==
  ASSUME IInv, WriteHeader
  PROVE  IInv'
<1> USE RingAssumption
<1>0. TypeOK /\ WriterInv /\ UnreadInv /\ ReaderInv
  BY DEF IInv, RingInv
<1>1. /\ wmsg \in Msg /\ wmsg.at = w /\ End(wmsg) - r <= Size - 1
      /\ wmsg.len \in Nat /\ End(wmsg) = w + HdrLen + wmsg.len
  <2>1. wmsg \in Msg /\ wmsg.at = w /\ End(wmsg) - r <= Size - 1
    BY <1>0 DEF WriterInv, WriteHeader
  <2> QED BY <1>0, <2>1, MsgFacts, UnreadBounds
<1>2. /\ wpc = "header" /\ wpc' = "publish"
      /\ mem' = Copied(wmsg, [i \in 0 .. HdrLen - 1 |-> Slot(w + i)], HdrLen, 0)
      /\ UNCHANGED <<w, r, pipe, wapi, wmsg, rpc, rop, rhdr, rdata, dirty, sent, next, got>>
  <2>1. ~ (WriteSpace < HdrLen)
    BY <1>0, <1>1, UnreadBounds DEF WriteSpace
  <2> QED BY <2>1 DEF WriteHeader, rvars, hist
<1>3. IsCopy(mem', wmsg, w, HdrLen, 0)
  <2> DEFINE slots == [i \in 0 .. HdrLen - 1 |-> Slot(w + i)]
  <2>1. Consecutive(slots, HdrLen, w)
    BY DEF Consecutive
  <2>2. HdrLen \in Nat /\ HdrLen <= Size /\ mem' = Copied(wmsg, slots, HdrLen, 0) /\ w \in Nat
    <3>1. w \in Nat /\ r \in Nat /\ r <= w /\ Size \in Nat /\ HdrLen \in Nat
      BY <1>0, UnreadBounds
    <3>2. HdrLen <= Size
      BY <3>1, <1>1
    <3>3. mem' = Copied(wmsg, slots, HdrLen, 0)
      BY <1>2
    <3> QED BY <3>1, <3>2, <3>3
  <2> HIDE DEF slots
  <2> QED BY <2>1, <2>2, CopiedIs
<1>4. TypeOK'
  <2>1. mem' \in [Slots -> Byte \cup {Blank}]
    BY <1>0, <1>1, <1>3, CopyOk DEF TypeOK
  <2> QED BY <1>0, <1>2, <2>1 DEF TypeOK
<1>5. WriterInv'
  <2>1. HoldsIn(mem', wmsg, HdrLen)
    BY <1>1, <1>3 DEF IsCopy, HoldsIn
  <2>2. Holds(wmsg, HdrLen)'
    BY <1>2, <2>1 DEF HoldsIn, Holds
  <2> QED BY <1>0, <1>1, <1>2, <2>2 DEF WriterInv, End, MsgSize
<1>6. UnreadInv'
  <2>1. Spares(mem', w, HdrLen) /\ HdrLen \in Nat /\ w + HdrLen - r <= Size - 1
    BY <1>0, <1>1, <1>3, UnreadBounds DEF IsCopy
  <2>2. UnreadIn(mem')
    BY <1>0, <2>1, UnreadSpared
  <2> QED BY <1>0, <1>2, <2>2 DEF UnreadInv, UnreadIn, HoldsIn, CompleteEnd, Holds, End, MsgSize
<1>7. ReaderInv'
  BY <1>0, <1>2, ReaderKept
<1> QED BY <1>4, <1>5, <1>6, <1>7 DEF IInv, RingInv

(* A message whose last byte is published joins the unread ones.           *)
LEMMA AppendUnread ==
  ASSUME TypeOK, WriterInv, UnreadInv, wmsg \in Msg, wmsg.at = CompleteEnd,
         (CompleteEnd)' = End(wmsg), Holds(wmsg, MsgSize(wmsg)),
         sent' = Append(sent, wmsg), UNCHANGED <<mem, r, next>>
  PROVE  UnreadInv'
<1> DEFINE L == Len(sent)
<1> DEFINE m == wmsg
<1>1. /\ m.at \in Nat /\ End(m) = m.at + MsgSize(m) /\ MsgSize(m) \in Nat
      /\ r <= m.at /\ m.at = CompleteEnd /\ CompleteEnd <= End(m)
  BY MsgFacts, UnreadBounds
<1>2. /\ sent \in Seq(Msg) /\ next \in 1 .. L + 1 /\ L \in Nat /\ r \in Nat
  BY UnreadBounds DEF TypeOK
<1>3. /\ Len(sent') = L + 1 /\ sent'[L + 1] = m /\ \A n \in 1 .. L : sent'[n] = sent[n]
  BY <1>2
<1>4. ASSUME NEW n \in 1 .. L PROVE End(sent[n]) \in Int
  <2>1. sent[n] \in Msg
    BY <1>2
  <2> QED BY <2>1, MsgFacts
<1>5. next' <= Len(sent') => sent'[next'].at = r' /\ End(sent'[Len(sent')]) = (CompleteEnd)'
  BY <1>1, <1>2, <1>3 DEF UnreadInv
<1>6. next' # Len(sent') + 1
  BY <1>2, <1>3
<1>7. \A n \in next' .. Len(sent') - 1 : sent'[n + 1].at = End(sent'[n])
  <2> SUFFICES ASSUME NEW n \in next .. L PROVE sent'[n + 1].at = End(sent[n])
    BY <1>2, <1>3
  <2>1. CASE n < L
    BY <1>2, <1>3, <2>1 DEF UnreadInv
  <2>2. CASE n = L
    BY <1>1, <1>2, <1>3, <2>2 DEF UnreadInv
  <2> QED BY <1>2, <2>1, <2>2
<1>8. \A n \in next' .. Len(sent') : r' <= sent'[n].at /\ End(sent'[n]) <= (CompleteEnd)'
  <2> SUFFICES ASSUME NEW n \in next .. L + 1 PROVE r <= sent'[n].at /\ End(sent'[n]) <= End(m)
    BY <1>2, <1>3
  <2>1. CASE n <= L
    <3>1. sent'[n] = sent[n] /\ r <= sent[n].at /\ End(sent[n]) <= CompleteEnd
      BY <1>2, <1>3, <2>1 DEF UnreadInv
    <3>2. End(sent[n]) \in Int /\ End(m) \in Int /\ CompleteEnd \in Int
      BY <1>1, <1>2, <1>4, <2>1
    <3> QED BY <1>1, <3>1, <3>2
  <2>2. CASE n = L + 1
    BY <1>1, <1>2, <1>3, <2>2
  <2> QED BY <1>2, <2>1, <2>2
<1>9. \A i, j \in next' .. Len(sent') : i < j => End(sent'[i]) <= sent'[j].at
  <2> SUFFICES ASSUME NEW i \in next .. L + 1, NEW j \in next .. L + 1, i < j
               PROVE  End(sent'[i]) <= sent'[j].at
    BY <1>2, <1>3
  <2>1. CASE j <= L
    BY <1>2, <1>3, <2>1 DEF UnreadInv
  <2>2. CASE j = L + 1
    BY <1>1, <1>2, <1>3, <2>2 DEF UnreadInv
  <2> QED BY <1>2, <2>1, <2>2
<1>10. \A n \in next' .. Len(sent') : HoldsIn(mem', sent'[n], MsgSize(sent'[n]))
  <2> SUFFICES ASSUME NEW n \in next .. L + 1 PROVE HoldsIn(mem, sent'[n], MsgSize(sent'[n]))
    BY <1>2, <1>3
  <2>1. CASE n <= L
    BY <1>2, <1>3, <2>1 DEF UnreadInv, Holds, HoldsIn
  <2>2. CASE n = L + 1
    BY <1>1, <1>2, <1>3, <2>2 DEF Holds, HoldsIn
  <2> QED BY <1>2, <2>1, <2>2
<1> QED BY <1>5, <1>6, <1>7, <1>8, <1>9, <1>10 DEF UnreadInv, Holds, HoldsIn, End, MsgSize

LEMMA ReaderKeptByAppend ==
  ASSUME TypeOK, ReaderInv, wmsg \in Msg, sent' = Append(sent, wmsg),
         UNCHANGED <<rpc, rop, rhdr, rdata, next>>
  PROVE  ReaderInv'
<1>1. /\ sent \in Seq(Msg) /\ next \in 1 .. Len(sent) + 1 /\ Len(sent) \in Nat
  BY DEF TypeOK
<1>2. /\ Len(sent') = Len(sent) + 1 /\ sent'[Len(sent) + 1] = wmsg
      /\ \A n \in 1 .. Len(sent) : sent'[n] = sent[n]
  BY <1>1
<1>3. next <= Len(sent) => sent'[next] = sent[next] /\ next <= Len(sent')
  BY <1>1, <1>2
<1>4. next = Len(sent) + 1 => sent'[next] = wmsg /\ next <= Len(sent')
  BY <1>1, <1>2
<1> QED BY <1>3, <1>4 DEF ReaderInv

LEMMA PublishHeaderInv ==
  ASSUME IInv, PublishHeader
  PROVE  IInv'
<1> USE RingAssumption
<1>0. TypeOK /\ WriterInv /\ UnreadInv /\ ReaderInv
  BY DEF IInv, RingInv
<1>1. /\ wmsg \in Msg /\ wmsg.at = w /\ End(wmsg) - r <= Size - 1 /\ Holds(wmsg, HdrLen)
      /\ wmsg.len \in Nat /\ End(wmsg) = w + HdrLen + wmsg.len /\ CompleteEnd = w
  <2>1. wmsg \in Msg /\ wmsg.at = w /\ End(wmsg) - r <= Size - 1 /\ Holds(wmsg, HdrLen)
    BY <1>0 DEF WriterInv, PublishHeader
  <2>2. wmsg.len \in Nat /\ End(wmsg) = wmsg.at + HdrLen + wmsg.len
    BY <2>1, MsgFacts
  <2>3. CompleteEnd = w
    BY DEF CompleteEnd, PublishHeader
  <2> QED BY <2>1, <2>2, <2>3
<1>2. /\ wpc = "publish" /\ w' = w + HdrLen
      /\ UNCHANGED <<mem, r, pipe, wapi, rpc, rop, rhdr, rdata, dirty, next, got>>
  BY DEF PublishHeader, rvars
<1>3. w \in Nat /\ r \in Nat /\ HdrLen \in Nat \ {0} /\ r <= w /\ Size \in Nat
  BY <1>0, UnreadBounds
<1>4. CASE wmsg.len = 0
  <2>1. /\ wpc' \in {"pipe", "idle"} /\ wmsg' = NoMsg /\ sent' = Append(sent, wmsg)
    BY <1>4 DEF PublishHeader, WriteDone
  <2>2. TypeOK'
    BY <1>0, <1>1, <1>2, <1>3, <2>1 DEF TypeOK, NoMsg
  <2>3. WriterInv'
    BY <1>1, <1>2, <1>3, <1>4, <2>1 DEF WriterInv
  <2>4. (CompleteEnd)' = End(wmsg) /\ MsgSize(wmsg) = HdrLen
    BY <1>1, <1>2, <1>3, <1>4, <2>1 DEF CompleteEnd, MsgSize
  <2>5. UnreadInv'
    BY <1>0, <1>1, <1>2, <2>1, <2>4, AppendUnread
  <2>6. ReaderInv'
    BY <1>0, <1>1, <1>2, <2>1, ReaderKeptByAppend
  <2> QED BY <2>2, <2>3, <2>5, <2>6 DEF IInv, RingInv
<1>5. CASE wmsg.len # 0
  <2>1. wpc' = "data" /\ UNCHANGED <<wmsg, sent>>
    BY <1>5 DEF PublishHeader
  <2>2. TypeOK'
    BY <1>0, <1>2, <1>3, <2>1 DEF TypeOK
  <2>3. WriterInv'
    BY <1>1, <1>2, <1>3, <1>5, <2>1 DEF WriterInv, Holds, End, MsgSize
  <2>4. UnreadInv'
    <3>1. CompleteEnd' = CompleteEnd
      BY <1>1, <1>2, <1>3, <2>1 DEF CompleteEnd
    <3> QED BY <1>0, <1>2, <2>1, <3>1, UnreadKept
  <2>5. ReaderInv'
    BY <1>0, <1>2, <2>1, ReaderKept
  <2> QED BY <2>2, <2>3, <2>4, <2>5 DEF IInv, RingInv
<1> QED BY <1>4, <1>5

LEMMA WriteDataInv ==
  ASSUME IInv, WriteData
  PROVE  IInv'
<1> USE RingAssumption
<1>0. TypeOK /\ WriterInv /\ UnreadInv /\ ReaderInv
  BY DEF IInv, RingInv
<1>1. /\ wmsg \in Msg /\ wmsg.at + HdrLen = w /\ wmsg.len > 0 /\ Holds(wmsg, HdrLen)
      /\ wmsg.len \in Nat /\ wmsg.at \in Nat /\ End(wmsg) = w + wmsg.len
      /\ w + wmsg.len - r <= Size - 1 /\ MsgSize(wmsg) = HdrLen + wmsg.len
  <2>1. /\ wmsg \in Msg /\ wmsg.at + HdrLen = w /\ End(wmsg) - r <= Size - 1
        /\ Holds(wmsg, HdrLen) /\ wmsg.len > 0
    BY <1>0 DEF WriterInv, WriteData
  <2>2. /\ wmsg.at \in Nat /\ wmsg.len \in Nat /\ HdrLen \in Nat
        /\ MsgSize(wmsg) = HdrLen + wmsg.len /\ End(wmsg) = wmsg.at + MsgSize(wmsg)
    BY <2>1, MsgFacts
  <2>3. w \in Nat /\ r \in Nat /\ Size \in Nat
    BY <1>0, UnreadBounds
  <2>4. End(wmsg) = w + wmsg.len
    BY <2>1, <2>2, <2>3
  <2> QED BY <2>1, <2>2, <2>3, <2>4
<1>2. w \in Nat /\ r \in Nat /\ HdrLen \in Nat \ {0} /\ r <= w /\ Size \in Nat
      /\ w - r < Size /\ WriteSpace = Size - 1 - (w - r) /\ CompleteEnd = w - HdrLen /\ r <= CompleteEnd
  BY <1>0, UnreadBounds DEF WriteSpace, CompleteEnd, WriteData
<1>3. /\ wpc = "data" /\ wpc' = "advance"
      /\ mem' = Copied(wmsg, [i \in 0 .. wmsg.len - 1 |-> WriteSlot(i)], wmsg.len, HdrLen)
      /\ UNCHANGED <<w, r, pipe, wapi, wmsg, rpc, rop, rhdr, rdata, dirty, sent, next, got>>
  <2>1. WriteVector[1].len + WriteVector[2].len = WriteSpace
    BY <1>2, SlotRange DEF WriteVector, Vector, Slots
  <2>2. ~ (WriteVector[1].len + WriteVector[2].len < wmsg.len)
    BY <1>1, <1>2, <2>1
  <2> QED BY <2>2 DEF WriteData, rvars, hist
<1>4. IsCopy(mem', wmsg, w, wmsg.len, HdrLen)
  <2> DEFINE slots == [i \in 0 .. wmsg.len - 1 |-> WriteSlot(i)]
  <2>1. \A i \in 0 .. wmsg.len - 1 : WriteSlot(i) = Slot(w + i)
    BY <1>1, <1>2, WriteSlotIs
  <2>2. Consecutive(slots, wmsg.len, w)
    BY <2>1 DEF Consecutive
  <2>3. wmsg.len <= Size /\ mem' = Copied(wmsg, slots, wmsg.len, HdrLen)
    BY <1>1, <1>2, <1>3
  <2> HIDE DEF slots
  <2> QED BY <1>1, <1>2, <2>2, <2>3, CopiedIs
<1>5. TypeOK'
  <2>1. mem' \in [Slots -> Byte \cup {Blank}]
    BY <1>0, <1>1, <1>2, <1>4, CopyOk DEF TypeOK
  <2> QED BY <1>0, <1>3, <2>1 DEF TypeOK
<1>6. WriterInv'
  <2>1. HoldsIn(mem', wmsg, HdrLen)
    <3>1. Spares(mem', w, wmsg.len) /\ r <= wmsg.at /\ wmsg.at + HdrLen <= w
      BY <1>1, <1>2, <1>4 DEF IsCopy
    <3> QED BY <1>1, <1>2, <3>1, BytesKept
  <2>2. HoldsIn(mem', wmsg, MsgSize(wmsg))
    <3> SUFFICES ASSUME NEW i \in 0 .. HdrLen + wmsg.len - 1
                 PROVE  mem'[Slot(wmsg.at + i)] = ByteOf(wmsg, i)
      BY <1>1 DEF HoldsIn
    <3>1. CASE i < HdrLen
      BY <1>2, <2>1, <3>1 DEF HoldsIn
    <3>2. CASE i >= HdrLen
      <4>1. i - HdrLen \in 0 .. wmsg.len - 1 /\ w + (i - HdrLen) = wmsg.at + i
            /\ HdrLen + (i - HdrLen) = i
        BY <1>1, <1>2, <3>2
      <4>2. \A j \in 0 .. wmsg.len - 1 : mem'[Slot(w + j)] = ByteOf(wmsg, HdrLen + j)
        BY <1>4 DEF IsCopy
      <4>3. mem'[Slot(w + (i - HdrLen))] = ByteOf(wmsg, HdrLen + (i - HdrLen))
        BY <4>1, <4>2
      <4> QED BY <4>1, <4>3
    <3> QED BY <1>2, <3>1, <3>2
  <2>3. Holds(wmsg, MsgSize(wmsg))'
    BY <1>3, <2>2 DEF HoldsIn, Holds, MsgSize
  <2> QED BY <1>0, <1>1, <1>2, <1>3, <2>3 DEF WriterInv, End, MsgSize
<1>7. UnreadInv'
  <2>1. UnreadIn(mem')
    BY <1>0, <1>1, <1>4, UnreadSpared DEF IsCopy
  <2> QED BY <1>0, <1>3, <2>1 DEF UnreadInv, UnreadIn, HoldsIn, CompleteEnd, Holds, End, MsgSize
<1>8. ReaderInv'
  BY <1>0, <1>3, ReaderKept
<1> QED BY <1>5, <1>6, <1>7, <1>8 DEF IInv, RingInv

LEMMA AdvanceWriteInv ==
  ASSUME IInv, AdvanceWrite
  PROVE  IInv'
<1> USE RingAssumption
<1>0. TypeOK /\ WriterInv /\ UnreadInv /\ ReaderInv
  BY DEF IInv, RingInv
<1>1. /\ wmsg \in Msg /\ wmsg.at = CompleteEnd /\ Holds(wmsg, MsgSize(wmsg))
      /\ wmsg.len \in Nat /\ End(wmsg) = w + wmsg.len /\ w + wmsg.len - r <= Size - 1
  <2>1. /\ wmsg \in Msg /\ wmsg.at + HdrLen = w /\ End(wmsg) - r <= Size - 1
        /\ Holds(wmsg, MsgSize(wmsg)) /\ wpc = "advance"
    BY <1>0 DEF WriterInv, AdvanceWrite
  <2>2. /\ wmsg.at \in Nat /\ wmsg.len \in Nat /\ HdrLen \in Nat
        /\ MsgSize(wmsg) = HdrLen + wmsg.len /\ End(wmsg) = wmsg.at + MsgSize(wmsg)
    BY <2>1, MsgFacts
  <2>3. w \in Nat /\ r \in Nat /\ Size \in Nat
    BY <1>0, UnreadBounds
  <2>4. End(wmsg) = w + wmsg.len /\ wmsg.at = w - HdrLen
    BY <2>1, <2>2, <2>3
  <2> QED BY <2>1, <2>2, <2>3, <2>4 DEF CompleteEnd
<1>2. w \in Nat /\ r \in Nat /\ HdrLen \in Nat \ {0} /\ r <= w /\ Size \in Nat
  BY <1>0, UnreadBounds
<1>3. /\ wpc' \in {"pipe", "idle"} /\ wmsg' = NoMsg /\ sent' = Append(sent, wmsg) /\ w' = w + wmsg.len
      /\ UNCHANGED <<mem, r, pipe, wapi, rpc, rop, rhdr, rdata, dirty, next, got>>
  BY DEF AdvanceWrite, WriteDone, rvars
<1>4. TypeOK'
  BY <1>0, <1>1, <1>2, <1>3 DEF TypeOK, NoMsg
<1>5. WriterInv'
  BY <1>1, <1>2, <1>3 DEF WriterInv
<1>6. UnreadInv'
  <2>1. (CompleteEnd)' = End(wmsg)
    BY <1>1, <1>3 DEF CompleteEnd
  <2> QED BY <1>0, <1>1, <1>3, <2>1, AppendUnread
<1>7. ReaderInv'
  BY <1>0, <1>1, <1>3, ReaderKeptByAppend
<1> QED BY <1>4, <1>5, <1>6, <1>7 DEF IInv, RingInv

LEMMA WritePipeInv ==
  ASSUME IInv, WritePipe
  PROVE  IInv'
<1> USE RingAssumption
<1>0. TypeOK /\ WriterInv /\ UnreadInv /\ ReaderInv
  BY DEF IInv, RingInv
<1>1. /\ wpc = "pipe" /\ wpc' = "idle" /\ pipe' \in {pipe, pipe + 1} /\ pipe' <= PipeCap
      /\ UNCHANGED <<mem, w, r, wapi, wmsg, rpc, rop, rhdr, rdata, dirty, sent, next, got>>
  BY <1>0 DEF WritePipe, SyncpipeWrite, rvars, hist, TypeOK
<1>2. TypeOK'
  BY <1>0, <1>1 DEF TypeOK
<1>3. WriterInv'
  BY <1>0, <1>1 DEF WriterInv
<1>4. UnreadInv' /\ ReaderInv'
  BY <1>0, <1>1, UnreadKept, ReaderKept DEF CompleteEnd
<1> QED BY <1>2, <1>3, <1>4 DEF IInv, RingInv

----------------------------------------------------------------------------
(* The steps of a reading thread.                                          *)

LEMMA HeaderMsg == ASSUME NEW m PROVE HeaderBytes(m)[0].msg = m
  BY RingAssumption DEF HeaderBytes, ByteOf

(* The oldest unread message starts at r and is readable to its end.       *)
LEMMA OldestIs ==
  ASSUME TypeOK, WriterInv, UnreadInv, next <= Len(sent), NEW m, m = sent[next]
  PROVE  /\ m \in Msg /\ m.at = r /\ m.len \in Nat /\ MsgSize(m) = HdrLen + m.len
         /\ r + MsgSize(m) <= CompleteEnd /\ r + MsgSize(m) <= w
         /\ Holds(m, MsgSize(m)) /\ next \in 1 .. Len(sent)
<1>1. next \in 1 .. Len(sent) /\ sent \in Seq(Msg)
  BY UnreadBounds DEF TypeOK
<1>2. m \in Msg /\ m.at = r /\ End(m) <= CompleteEnd /\ Holds(m, MsgSize(m))
  BY <1>1 DEF UnreadInv
<1>3. /\ m.at \in Nat /\ m.len \in Nat /\ HdrLen \in Nat
      /\ MsgSize(m) = HdrLen + m.len /\ End(m) = m.at + MsgSize(m)
  BY <1>2, MsgFacts
<1>4. CompleteEnd <= w /\ CompleteEnd \in Int /\ w \in Nat /\ r \in Nat
  BY UnreadBounds
<1> QED BY <1>1, <1>2, <1>3, <1>4

(* A header with no complete message at r is the one being written.        *)
LEMMA PartialIs ==
  ASSUME TypeOK, WriterInv, UnreadInv, next = Len(sent) + 1, w - r >= HdrLen
  PROVE  /\ wpc \in {"data", "advance"} /\ wmsg \in Msg /\ wmsg.at = r /\ w = r + HdrLen
         /\ Holds(wmsg, HdrLen) /\ wmsg.len > 0
<1>1. r = CompleteEnd /\ w \in Nat /\ r \in Nat /\ HdrLen \in Nat \ {0}
  BY UnreadBounds DEF UnreadInv
<1>2. wpc \in {"data", "advance"} /\ r = w - HdrLen
  BY <1>1 DEF CompleteEnd
<1>3. /\ wmsg \in Msg /\ wmsg.at + HdrLen = w /\ wmsg.len > 0
      /\ Holds(wmsg, HdrLen) \/ Holds(wmsg, MsgSize(wmsg))
  BY <1>2 DEF WriterInv
<1>4. wmsg.at \in Nat /\ MsgSize(wmsg) = HdrLen + wmsg.len /\ wmsg.len \in Nat
  BY <1>3, MsgFacts
<1>5. Holds(wmsg, HdrLen)
  BY <1>1, <1>3, <1>4 DEF Holds
<1> QED BY <1>1, <1>2, <1>3, <1>4, <1>5

(* What the header bytes at r say.                                         *)
LEMMA HeaderAt ==
  ASSUME NEW m, m.at = r, NEW k, Holds(m, k), HdrLen <= k, k \in Nat
  PROVE  [i \in 0 .. HdrLen - 1 |-> mem[Slot(r + i)]] = HeaderBytes(m)
BY RingAssumption DEF Holds, HeaderBytes

LEMMA ReadBeginInv ==
  ASSUME IInv, NEW op \in Op, ReadBegin(op)
  PROVE  IInv'
<1>0. TypeOK /\ WriterInv /\ UnreadInv /\ ReaderInv
  BY DEF IInv, RingInv
<1>1. /\ rpc = "idle" /\ rpc' = "peek" /\ rop' = op
      /\ UNCHANGED <<mem, w, r, pipe, wpc, wapi, wmsg, rhdr, rdata, dirty, sent, next, got>>
  BY DEF ReadBegin, wvars, hist
<1>2. TypeOK'
  <2>1. BufSizes \subseteq Nat
    BY RingAssumption
  <2>4. op \in [kind : Kinds, api : {"lua", "c"}, bufsz : Nat]
    <3>1. CASE op \in [kind : Kinds, api : {"lua"}, bufsz : {0}]
      BY <3>1
    <3>2. CASE op \in [kind : Kinds, api : {"c"}, bufsz : BufSizes]
      BY <2>1, <3>2
    <3> QED BY <3>1, <3>2 DEF Op
  <2> QED BY <1>0, <1>1, <2>4 DEF TypeOK
<1>3. WriterInv' /\ UnreadInv'
  BY <1>0, <1>1, WriterKept, UnreadKept DEF CompleteEnd
<1>4. ReaderInv'
  BY <1>0, <1>1 DEF ReaderInv
<1> QED BY <1>2, <1>3, <1>4 DEF IInv, RingInv

(* Every call ends, or is left with the pipe only, in the same way.        *)
LEMMA ReadDoneInv ==
  ASSUME TypeOK, WriterInv, UnreadInv, ReadDone, dirty' \in BOOLEAN,
         UNCHANGED <<mem, w, r, pipe, wpc, wapi, wmsg, sent, next>>
  PROVE  IInv'
<1>1. rpc' \in {"pipe", "idle"} /\ rop' = NoOp /\ rdata' = NoBytes
  BY DEF ReadDone
<1>2. TypeOK'
  <2>1. rop' \in [kind : Kinds, api : {"lua", "c"}, bufsz : Nat]
    BY <1>1 DEF NoOp, Kinds
  <2> QED BY <1>1, <2>1 DEF TypeOK
<1>3. WriterInv' /\ UnreadInv'
  BY WriterKept, UnreadKept DEF CompleteEnd
<1>4. ReaderInv'
  BY <1>1 DEF ReaderInv
<1> QED BY <1>2, <1>3, <1>4 DEF IInv, RingInv

LEMMA PeekHeaderInv ==
  ASSUME IInv, PeekHeader
  PROVE  IInv'
<1>0. TypeOK /\ WriterInv /\ UnreadInv /\ ReaderInv
  BY DEF IInv, RingInv
<1>1. rpc = "peek" /\ UNCHANGED <<mem, w, r, pipe, wpc, wapi, wmsg, sent, next, got>>
  BY DEF PeekHeader, wvars, hist
<1>2. CASE ReadSpace < HdrLen
  BY <1>0, <1>1, <1>2, ReadDoneInv DEF PeekHeader, Fail
<1>3. CASE ~ (ReadSpace < HdrLen)
  <2>1. /\ rhdr' = [i \in 0 .. HdrLen - 1 |-> mem[Slot(r + i)]]
        /\ rpc' = "space" /\ UNCHANGED <<rop, rdata, dirty>>
    BY <1>3 DEF PeekHeader
  <2>2. TypeOK'
    BY <1>0, <1>1, <2>1 DEF TypeOK
  <2>3. WriterInv' /\ UnreadInv'
    BY <1>0, <1>1, WriterKept, UnreadKept DEF CompleteEnd
  <2>4. CASE next <= Len(sent)
    <3>1. rhdr' = HeaderBytes(sent[next])
      BY <1>0, <2>1, <2>4, OldestIs, HeaderAt, RingAssumption
    <3> QED BY <1>0, <1>1, <2>1, <2>2, <2>3, <2>4, <3>1 DEF ReaderInv, IInv, RingInv
  <2>5. CASE next = Len(sent) + 1
    <3>1. w - r >= HdrLen
      BY <1>0, <1>3, UnreadBounds
    <3>2. wpc \in {"data", "advance"} /\ wmsg.at = r /\ Holds(wmsg, HdrLen)
      BY <1>0, <2>5, <3>1, PartialIs
    <3>3. rhdr' = HeaderBytes(wmsg)
      BY <2>1, <3>2, HeaderAt, RingAssumption
    <3> QED BY <1>0, <1>1, <2>1, <2>2, <2>3, <2>5, <3>2, <3>3 DEF ReaderInv, IInv, RingInv
  <2> QED BY <1>0, <2>4, <2>5, UnreadBounds DEF TypeOK
<1> QED BY <1>2, <1>3

(* With the whole of its message readable, the header is the oldest one's. *)
LEMMA WholeIsOldest ==
  ASSUME TypeOK, WriterInv, UnreadInv, ReaderInv, rpc = "space",
         ~ (ReadSpace < MsgSize(rhdr[0].msg))
  PROVE  next <= Len(sent) /\ rhdr = HeaderBytes(sent[next])
<1> SUFFICES ASSUME next = Len(sent) + 1, wpc \in {"data", "advance"}, rhdr = HeaderBytes(wmsg)
             PROVE  FALSE
  BY DEF ReaderInv
<1>1. /\ wmsg \in Msg /\ wmsg.len > 0 /\ r = CompleteEnd /\ CompleteEnd = w - HdrLen
  BY DEF WriterInv, UnreadInv, CompleteEnd
<1>2. rhdr[0].msg = wmsg
  BY HeaderMsg
<1>3. ReadSpace = w - r /\ w \in Nat /\ r \in Nat /\ HdrLen \in Nat
  BY UnreadBounds
<1>4. MsgSize(wmsg) = HdrLen + wmsg.len /\ wmsg.len \in Nat
  BY <1>1, MsgFacts
<1> QED BY <1>1, <1>2, <1>3, <1>4

LEMMA CheckSpaceInv ==
  ASSUME IInv, CheckSpace
  PROVE  IInv'
<1>0. TypeOK /\ WriterInv /\ UnreadInv /\ ReaderInv
  BY DEF IInv, RingInv
<1>1. rpc = "space" /\ UNCHANGED <<mem, w, r, pipe, wpc, wapi, wmsg, sent, next, got>>
  BY DEF CheckSpace, wvars, hist
<1>2. CASE ReadSpace < MsgSize(rhdr[0].msg)
  BY <1>0, <1>1, <1>2, ReadDoneInv DEF CheckSpace, Fail
<1>3. CASE ~ (ReadSpace < MsgSize(rhdr[0].msg)) /\ TooBig
  BY <1>0, <1>1, <1>3, ReadDoneInv DEF CheckSpace, TypeOK
<1>4. CASE ~ (ReadSpace < MsgSize(rhdr[0].msg)) /\ ~ TooBig
  <2>1. /\ rpc' = IF rop.kind # "skip" /\ rhdr[0].msg.len > 0 THEN "copy" ELSE "advance"
        /\ UNCHANGED <<rop, rhdr, rdata, dirty>>
    BY <1>4 DEF CheckSpace, Proceed
  <2>2. next <= Len(sent) /\ rhdr = HeaderBytes(sent[next])
    BY <1>0, <1>1, <1>4, WholeIsOldest
  <2>3. TypeOK'
    BY <1>0, <1>1, <2>1 DEF TypeOK
  <2>4. WriterInv' /\ UnreadInv'
    BY <1>0, <1>1, WriterKept, UnreadKept DEF CompleteEnd
  <2>5. rdata = NoBytes
    BY <1>0, <1>1 DEF ReaderInv
  <2>6. rop.kind # "skip" /\ rpc' = "advance" => rdata = DataBytes(sent[next])
    <3>1. rhdr[0].msg = sent[next] /\ sent[next].len \in Nat
      BY <1>0, <2>2, HeaderMsg, OldestIs
    <3>2. ASSUME sent[next].len = 0 PROVE DataBytes(sent[next]) = NoBytes
      <4>1. 0 .. sent[next].len - 1 = {}
        BY <3>2
      <4> QED BY <4>1 DEF DataBytes, NoBytes
    <3> QED BY <2>1, <2>5, <3>1, <3>2
  <2>7. ReaderInv'
    BY <1>1, <2>1, <2>2, <2>5, <2>6 DEF ReaderInv
  <2> QED BY <2>3, <2>4, <2>7 DEF IInv, RingInv
<1> QED BY <1>2, <1>3, <1>4

LEMMA CopyDataInv ==
  ASSUME IInv, CopyData
  PROVE  IInv'
<1>0. TypeOK /\ WriterInv /\ UnreadInv /\ ReaderInv
  BY DEF IInv, RingInv
<1>1. /\ rpc = "copy" /\ rpc' = "advance"
      /\ rdata' = [i \in 0 .. rhdr[0].msg.len - 1 |-> mem[ReadSlot(i)]]
      /\ UNCHANGED <<mem, w, r, pipe, wpc, wapi, wmsg, rop, rhdr, dirty, sent, next, got>>
  BY DEF CopyData, wvars, hist
<1> DEFINE m == sent[next]
<1>2. next <= Len(sent) /\ rhdr = HeaderBytes(m) /\ rhdr[0].msg = m
  BY <1>0, <1>1, HeaderMsg DEF ReaderInv
<1>3. /\ m.at = r /\ m.len \in Nat /\ MsgSize(m) = HdrLen + m.len
      /\ r + MsgSize(m) <= w /\ Holds(m, MsgSize(m))
  BY <1>0, <1>2, OldestIs
<1>4. w \in Nat /\ r \in Nat /\ r <= w /\ w - r < Size /\ HdrLen \in Nat
  BY <1>0, UnreadBounds
<1> HIDE DEF m
<1>5. ASSUME NEW i \in 0 .. m.len - 1 PROVE mem[ReadSlot(i)] = ByteOf(m, HdrLen + i)
  <2>1. ReadSlot(i) = Slot(r + HdrLen + i)
    BY <1>2, <1>3, <1>4, ReadSlotIs
  <2>2. r + HdrLen + i = m.at + (HdrLen + i) /\ HdrLen + i \in 0 .. MsgSize(m) - 1
    BY <1>3, <1>4
  <2> QED BY <1>3, <2>1, <2>2 DEF Holds
<1>6. rdata' = DataBytes(m)
  BY <1>1, <1>2, <1>5 DEF DataBytes
<1>7. TypeOK'
  BY <1>0, <1>1 DEF TypeOK
<1>8. WriterInv' /\ UnreadInv'
  BY <1>0, <1>1, WriterKept, UnreadKept DEF CompleteEnd
<1>9. ReaderInv'
  BY <1>0, <1>1, <1>2, <1>6 DEF ReaderInv, m
<1> QED BY <1>7, <1>8, <1>9 DEF IInv, RingInv

LEMMA PeekReturnInv ==
  ASSUME IInv, PeekReturn
  PROVE  IInv'
<1>0. TypeOK /\ WriterInv /\ UnreadInv
  BY DEF IInv, RingInv
<1> QED BY <1>0, ReadDoneInv DEF PeekReturn, wvars, hist

LEMMA AdvanceReadInv ==
  ASSUME IInv, AdvanceRead
  PROVE  IInv'
<1>0. TypeOK /\ WriterInv /\ UnreadInv /\ ReaderInv
  BY DEF IInv, RingInv
<1> DEFINE m == sent[next]
<1>1. next <= Len(sent) /\ rhdr[0].msg = m
  BY <1>0, HeaderMsg DEF ReaderInv, AdvanceRead
<1>2. /\ r' = r + MsgSize(m) /\ next' = next + 1 /\ dirty' = FALSE
      /\ rpc' \in {"pipe", "idle"} /\ rop' = NoOp /\ rdata' = NoBytes
      /\ UNCHANGED <<mem, w, pipe, wpc, wapi, wmsg, sent>>
  BY <1>1 DEF AdvanceRead, ReadDone, wvars
<1>3. /\ r + MsgSize(m) <= CompleteEnd /\ r + MsgSize(m) <= w /\ MsgSize(m) \in Nat
      /\ End(m) = r + MsgSize(m) /\ next \in 1 .. Len(sent)
  BY <1>0, <1>1, OldestIs, MsgFacts
<1>4. w \in Nat /\ r \in Nat /\ r <= w /\ w - r < Size /\ Size \in Nat /\ Len(sent) \in Nat
  BY <1>0, UnreadBounds
<1>5. r' \in Nat /\ r <= r' /\ r' <= w
  BY <1>2, <1>3, <1>4
<1>6. TypeOK'
  <2>1. rop' \in [kind : Kinds, api : {"lua", "c"}, bufsz : Nat]
    BY <1>2 DEF NoOp, Kinds
  <2>2. next' \in 1 .. Len(sent') + 1
    BY <1>2, <1>3, <1>4
  <2> QED BY <1>0, <1>2, <1>5, <2>1, <2>2 DEF TypeOK
<1>7. WriterInv'
  <2> DEFINE k == MsgSize(m)
  <2>1. \A e \in Int : e - r <= Size - 1 => e - (r + k) <= Size - 1
    BY <1>3, <1>4
  <2>2. wpc \in {"header", "publish", "data", "advance"} => End(wmsg) \in Int
    BY <1>0, MsgFacts DEF WriterInv
  <2>3. wpc \in {"header", "publish", "data", "advance"} /\ End(wmsg) - r <= Size - 1
          => End(wmsg) - (r + k) <= Size - 1
    BY <2>1, <2>2
  <2>4. r + k <= w /\ w - (r + k) <= Size - 1
    BY <1>3, <1>4
  <2>5. r' = r + k
    BY <1>2
  <2> HIDE DEF k
  <2> QED BY <1>0, <1>2, <2>3, <2>4, <2>5 DEF WriterInv, Holds, End, MsgSize
<1>8. UnreadInv'
  <2>1. (CompleteEnd)' = CompleteEnd
    BY <1>2 DEF CompleteEnd
  <2>2. next + 1 \in next .. Len(sent) + 1 /\ \A n \in next + 1 .. Len(sent) : n \in next .. Len(sent)
    BY <1>3, <1>4
  <2>3. next + 1 <= Len(sent) => sent[next + 1].at = r' /\ End(sent[Len(sent)]) = CompleteEnd
    BY <1>0, <1>1, <1>2, <1>3, <1>4 DEF UnreadInv
  <2>4. next + 1 = Len(sent) + 1 => r' = CompleteEnd
    <3> SUFFICES ASSUME next = Len(sent) PROVE r' = CompleteEnd
      BY <1>3, <1>4
    <3>1. End(sent[Len(sent)]) = CompleteEnd
      BY <1>0, <1>1 DEF UnreadInv
    <3> QED BY <1>2, <1>3, <3>1
  <2>5. \A n \in next + 1 .. Len(sent) - 1 : sent[n + 1].at = End(sent[n])
    BY <1>0, <1>3, <1>4 DEF UnreadInv
  <2>6. \A n \in next + 1 .. Len(sent) : r' <= sent[n].at /\ End(sent[n]) <= CompleteEnd
    <3> SUFFICES ASSUME NEW n \in next + 1 .. Len(sent)
                 PROVE  r' <= sent[n].at /\ End(sent[n]) <= CompleteEnd
      OBVIOUS
    <3>1. n \in next .. Len(sent) /\ next \in next .. Len(sent) /\ next < n
      BY <1>3, <1>4
    <3>2. End(sent[next]) <= sent[n].at
      BY <1>0, <3>1 DEF UnreadInv
    <3> QED BY <1>0, <1>2, <1>3, <3>1, <3>2 DEF UnreadInv
  <2>7. \A i, j \in next + 1 .. Len(sent) : i < j => End(sent[i]) <= sent[j].at
    BY <1>0, <2>2 DEF UnreadInv
  <2>8. \A n \in next + 1 .. Len(sent) : Holds(sent[n], MsgSize(sent[n]))
    BY <1>0, <2>2 DEF UnreadInv
  <2> QED
    BY <1>2, <2>1, <2>3, <2>4, <2>5, <2>6, <2>7, <2>8 DEF UnreadInv, Holds, End, MsgSize
<1>9. ReaderInv'
  BY <1>2 DEF ReaderInv
<1> QED BY <1>6, <1>7, <1>8, <1>9 DEF IInv, RingInv

LEMMA ReadPipeInv ==
  ASSUME IInv, ReadPipe
  PROVE  IInv'
<1>0. TypeOK /\ WriterInv /\ UnreadInv /\ ReaderInv
  BY DEF IInv, RingInv
<1>1. /\ rpc = "pipe" /\ rpc' = "idle" /\ pipe' \in 0 .. PipeCap
      /\ UNCHANGED <<mem, w, r, wpc, wapi, wmsg, rop, rhdr, rdata, dirty, sent, next, got>>
  BY <1>0, RingAssumption DEF ReadPipe, SyncpipeRead, wvars, hist, TypeOK
<1>2. TypeOK'
  BY <1>0, <1>1 DEF TypeOK
<1>3. WriterInv' /\ UnreadInv'
  BY <1>0, <1>1, WriterKept, UnreadKept DEF CompleteEnd
<1>4. ReaderInv'
  BY <1>0, <1>1 DEF ReaderInv
<1> QED BY <1>2, <1>3, <1>4 DEF IInv, RingInv

LEMMA ResetInv ==
  ASSUME IInv, CarefulReset, Reset
  PROVE  IInv'
<1>0. TypeOK /\ WriterInv /\ UnreadInv /\ ReaderInv
  BY DEF IInv, RingInv
<1>1. /\ wpc = "idle" /\ rpc = "idle" /\ r' = w' /\ next' = Len(sent) + 1 /\ dirty' = FALSE
      /\ UNCHANGED <<mem, pipe, wpc, wapi, wmsg, rpc, rop, rhdr, rdata, sent, got>>
  BY DEF Reset, wvars
<1>2. w' \in Nat /\ r' \in Nat
  <2>1. w \in Nat /\ Size \in Nat /\ Slot(w) \in 0 .. Size - 1
    BY <1>0, UnreadBounds, SlotRange DEF Slots
  <2> QED BY <1>1, <2>1 DEF Reset
<1>3. Len(sent) \in Nat /\ Size \in Nat \ {0}
  BY <1>0, UnreadBounds
<1>4. TypeOK'
  <2>1. Len(sent) + 1 \in 1 .. Len(sent) + 1
    BY <1>3
  <2> QED BY <1>0, <1>1, <1>2, <2>1 DEF TypeOK
<1>5. WriterInv'
  <2>1. PICK z \in Nat : w' = z
    BY <1>2
  <2>2. z <= z /\ z - z <= Size - 1
    BY <1>3
  <2> QED BY <1>1, <2>1, <2>2 DEF WriterInv
<1>6. UnreadInv'
  BY <1>1, <1>2, <1>3 DEF UnreadInv, CompleteEnd
<1>7. ReaderInv'
  BY <1>0, <1>1 DEF ReaderInv
<1> QED BY <1>4, <1>5, <1>6, <1>7 DEF IInv, RingInv

----------------------------------------------------------------------------
(* The theorems                                                            *)

LEMMA NextInv == ASSUME CarefulReset PROVE IInv /\ [Next]_vars => IInv'
<1> SUFFICES ASSUME IInv, [Next]_vars PROVE IInv'
  OBVIOUS
<1>1. CASE \E len \in Lens, api \in WriterApi : WriteBegin(len, api)
  BY <1>1, WriteBeginInv
<1>2. CASE WriterStep
  BY <1>2, WriteHeaderInv, PublishHeaderInv, WriteDataInv, AdvanceWriteInv, WritePipeInv
     DEF WriterStep
<1>3. CASE \E op \in Op : op.api \in ReaderApi /\ ReadBegin(op)
  BY <1>3, ReadBeginInv
<1>4. CASE ReaderStep
  BY <1>4, PeekHeaderInv, CheckSpaceInv, CopyDataInv, PeekReturnInv, AdvanceReadInv, ReadPipeInv
     DEF ReaderStep
<1>5. CASE Reset
  BY <1>5, ResetInv
<1>6. CASE UNCHANGED vars
  <2>1. TypeOK /\ WriterInv /\ UnreadInv /\ ReaderInv
    BY DEF IInv, RingInv
  <2>2. UNCHANGED <<mem, w, r, pipe, wpc, wapi, wmsg, rpc, rop, rhdr, rdata, dirty, sent, next, got>>
    BY <1>6 DEF vars, wvars, rvars, hist
  <2>3. TypeOK'
    BY <2>1, <2>2 DEF TypeOK
  <2>4. WriterInv' /\ UnreadInv' /\ ReaderInv'
    BY <2>1, <2>2, WriterKept, UnreadKept, ReaderKept DEF CompleteEnd
  <2> QED BY <2>3, <2>4 DEF IInv, RingInv
<1> QED BY <1>1, <1>2, <1>3, <1>4, <1>5, <1>6 DEF Next

(* The invariant on which every other theorem rests. All of them are about *)
(* ringbuffers that nobody resets while the other thread is in a call.     *)
THEOREM Inductive == ASSUME CarefulReset PROVE Spec => []IInv
<1>1. IInv /\ [Next]_vars => IInv'
  BY NextInv
<1> QED BY <1>1, InitIInv, PTL DEF Spec

(* Every variable of a ringbuffer keeps to its type.                       *)
THEOREM TypeCorrect == ASSUME CarefulReset PROVE Spec => []TypeOK
<1>1. IInv => TypeOK
  BY DEF IInv
<1> QED BY <1>1, Inductive, PTL

(* At every step of both threads the unread messages fill the readable     *)
(* part of the buffer, in order and intact.                                *)
THEOREM UnreadIntact == ASSUME CarefulReset PROVE Spec => []RingInv
<1>1. IInv => RingInv
  BY DEF IInv
<1> QED BY <1>1, Inductive, PTL

(* No ringbuffer, of whatever size, makes the writer fail after it checked *)
(* the space.                                                              *)
THEOREM WriterNeverFails == ASSUME CarefulReset PROVE Spec => []NeverUnexpected
<1>1. IInv => NeverUnexpected
  BY DEF IInv, RingInv, WriterInv, NeverUnexpected
<1> QED BY <1>1, Inductive, PTL

LEMMA DecodeIs ==
  ASSUME IInv, rpc = "advance", rop.kind # "skip"
  PROVE  next <= Len(sent) /\ Decode(rhdr, rdata) = sent[next]
<1>1. next <= Len(sent) /\ rhdr = HeaderBytes(sent[next]) /\ rdata = DataBytes(sent[next])
  BY DEF IInv, RingInv, ReaderInv
<1>2. rhdr[0].msg = sent[next]
  BY <1>1, HeaderMsg
<1> QED BY <1>1, <1>2 DEF Decode

(* A read or a peek yields the bytes of the oldest unread message, also    *)
(* when its header or its payload is split by the end of the buffer.       *)
THEOREM ReadsShowOldest == ASSUME CarefulReset PROVE Spec => []ShowsOldest
<1>1. IInv => ShowsOldest
  BY DecodeIs DEF ShowsOldest
<1> QED BY <1>1, Inductive, PTL

(* Whatever the writer is doing meanwhile, a read that finds nothing finds *)
(* nothing because no complete message is there.                           *)
THEOREM NilIsTrue == ASSUME CarefulReset PROVE Spec => NilMeansEmpty
<1> DEFINE A == rpc \in {"peek", "space"} /\ rpc' \in {"idle", "pipe"}
                  => next > Len(sent) \/ (rpc = "space" /\ TooBig)
<1>1. ASSUME IInv, Next PROVE A
  <2> SUFFICES ASSUME rpc \in {"peek", "space"}, rpc' \in {"idle", "pipe"}, ~ (next > Len(sent))
               PROVE  rpc = "space" /\ TooBig
    OBVIOUS
  <2>0. TypeOK /\ WriterInv /\ UnreadInv /\ ReaderInv
    BY <1>1 DEF IInv, RingInv
  <2> DEFINE m == sent[next]
  <2>1. next <= Len(sent) /\ next \in Nat /\ Len(sent) \in Nat
    BY <2>0, UnreadBounds
  <2>2. MsgSize(m) = HdrLen + m.len /\ m.len \in Nat /\ r + MsgSize(m) <= w
    BY <2>0, <2>1, OldestIs
  <2>3. ReadSpace = w - r /\ w \in Nat /\ r \in Nat /\ HdrLen \in Nat
    BY <2>0, UnreadBounds
  <2>4. PeekHeader \/ CheckSpace
    <3>1. rpc' # rpc
      OBVIOUS
    <3>2. ~ WriterStep
      BY <3>1 DEF WriterStep, WriteHeader, PublishHeader, WriteData, AdvanceWrite, WritePipe, rvars
    <3>3. \A len, api : ~ WriteBegin(len, api)
      BY <3>1 DEF WriteBegin, WriteCall, rvars
    <3>4. \A op : ~ ReadBegin(op)
      BY DEF ReadBegin
    <3>5. ~ Reset
      BY <3>1 DEF Reset
    <3> QED BY <1>1, <3>2, <3>3, <3>4, <3>5
            DEF Next, ReaderStep, CopyData, PeekReturn, AdvanceRead, ReadPipe
  <2>5. CASE PeekHeader
    <3>1. ~ (ReadSpace < HdrLen)
      BY <2>2, <2>3
    <3> QED BY <2>5, <3>1 DEF PeekHeader
  <2>6. CASE CheckSpace
    <3>1. rpc = "space" /\ rhdr[0].msg = m
      BY <2>0, <2>1, <2>6, HeaderMsg DEF CheckSpace, ReaderInv
    <3>2. ~ (ReadSpace < MsgSize(rhdr[0].msg))
      BY <2>2, <2>3, <3>1
    <3> QED BY <2>6, <3>1, <3>2 DEF CheckSpace, Proceed
  <2> QED BY <2>4, <2>5, <2>6
<1>2. IInv /\ [Next]_vars => [A]_vars
  BY <1>1
<1> QED BY <1>2, Inductive, PTL DEF Spec, NilMeansEmpty

LEMMA AppendIsSend ==
  ASSUME TypeOK, NEW m \in Msg, sent' = Append(sent, m), UNCHANGED <<next, got>>
  PROVE  Channel!Send
<1>1. sent \in Seq(Msg)
  BY DEF TypeOK
<1>2. Len(sent') = Len(sent) + 1 /\ sent'[Len(sent')] = m
  BY <1>1
<1>3. SubSeq(sent', 1, Len(sent)) = sent
  BY <1>1
<1> QED BY <1>2, <1>3 DEF Channel!Send

LEMMA ChannelStep == ASSUME IInv, [Next]_vars PROVE [Channel!Next]_(Channel!chan)
<1>0. TypeOK /\ WriterInv /\ UnreadInv /\ ReaderInv
  BY DEF IInv, RingInv
<1>1. CASE PublishHeader
  <2>1. CASE wmsg.len = 0
    <3>1. wmsg \in Msg
      BY <1>0, <1>1 DEF WriterInv, PublishHeader
    <3>2. sent' = Append(sent, wmsg) /\ UNCHANGED <<next, got>>
      BY <1>1, <2>1 DEF PublishHeader
    <3> QED BY <1>0, <3>1, <3>2, AppendIsSend DEF Channel!Next
  <2>2. CASE wmsg.len # 0
    BY <1>1, <2>2 DEF PublishHeader, Channel!chan
  <2> QED BY <2>1, <2>2
<1>2. CASE AdvanceWrite
  <2>1. wmsg \in Msg /\ sent' = Append(sent, wmsg) /\ UNCHANGED <<next, got>>
    BY <1>0, <1>2 DEF WriterInv, AdvanceWrite
  <2> QED BY <1>0, <2>1, AppendIsSend DEF Channel!Next
<1>3. CASE AdvanceRead
  <2>1. next <= Len(sent) /\ next' = next + 1 /\ UNCHANGED sent
    BY <1>0, <1>3 DEF AdvanceRead, ReaderInv
  <2>2. CASE rop.kind = "read"
    BY <1>3, <2>1, <2>2, DecodeIs DEF AdvanceRead, Channel!Next, Channel!Receive, Channel!Unread
  <2>3. CASE rop.kind # "read"
    BY <1>3, <2>1, <2>3 DEF AdvanceRead, Channel!Next, Channel!Skip, Channel!Unread
  <2> QED BY <2>2, <2>3
<1>4. CASE Reset
  BY <1>4 DEF Reset, Channel!Next, Channel!Reset
<1>5. CASE UNCHANGED hist
  BY <1>5 DEF hist, Channel!chan
<1>6. \A len, api : WriteBegin(len, api) => UNCHANGED hist
  BY DEF WriteBegin, WriteCall
<1>7. WriteHeader \/ WriteData \/ WritePipe => UNCHANGED hist
  BY DEF WriteHeader, WriteData, WritePipe
<1>8. \A op : ReadBegin(op) => UNCHANGED hist
  BY DEF ReadBegin
<1>9. PeekHeader \/ CheckSpace \/ CopyData \/ PeekReturn \/ ReadPipe => UNCHANGED hist
  BY DEF PeekHeader, CheckSpace, CopyData, PeekReturn, ReadPipe
<1>10. UNCHANGED vars => UNCHANGED hist
  BY DEF vars
<1> QED BY <1>1, <1>2, <1>3, <1>4, <1>5, <1>6, <1>7, <1>8, <1>9, <1>10
        DEF Next, WriterStep, ReaderStep

(* The ringbuffer implements the channel of whole messages it promises.    *)
THEOREM RingImplementsChannel == ASSUME CarefulReset PROVE Spec => FifoOfMessages
<1>1. Init => Channel!Init
  BY DEF Init, Channel!Init
<1>2. IInv /\ [Next]_vars => [Channel!Next]_(Channel!chan)
  BY ChannelStep
<1> QED BY <1>1, <1>2, Inductive, PTL DEF Spec, FifoOfMessages, Channel!Spec

----------------------------------------------------------------------------
(* No wake-up is lost                                                      *)

LEMMA NextTimes ==
  ASSUME NEW k \in Int, NEW n \in Int, NEW m \in Int
  PROVE  (k + 1 - m) * n = (k - m) * n + n /\ 0 * n = 0
OBVIOUS

LEMMA FewerTimes ==
  ASSUME NEW a \in Nat, NEW b \in Nat, NEW n \in Nat, a * n < b * n
  PROVE  a < b
OBVIOUS

LEMMA HeaderApart ==
  ASSUME NEW k \in Int, NEW a \in Nat, NEW b \in Nat, NEW h \in Nat, NEW l \in Nat,
         NEW x \in Nat, k <= a - b, x = a + (h + l)
  PROVE  k + h <= x - b
OBVIOUS

LEMMA SpacedByRead ==
  ASSUME TypeOK, SpacedInv, next' \in next .. Len(sent) + 1, UNCHANGED sent
  PROVE  SpacedInv'
<1>1. next \in Nat /\ next' \in Nat /\ next <= next' /\ Len(sent) \in Nat
  BY DEF TypeOK
<1>2. \A n \in next' .. Len(sent) : n \in next .. Len(sent)
  BY <1>1
<1> QED BY <1>2 DEF SpacedInv

(* A message that is complete begins where the one before it ends, which   *)
(* is at least a header behind its beginning.                              *)
LEMMA SpacedByAppend ==
  ASSUME IInv, SpacedInv, wmsg \in Msg, wmsg.at = CompleteEnd,
         sent' = Append(sent, wmsg), UNCHANGED next
  PROVE  SpacedInv'
<1> DEFINE L == Len(sent)
<1>0. TypeOK /\ WriterInv /\ UnreadInv
  BY DEF IInv, RingInv
<1>1. sent \in Seq(Msg) /\ L \in Nat /\ next \in Nat \ {0} /\ HdrLen \in Nat
  BY <1>0, RingAssumption DEF TypeOK
<1>2. /\ Len(sent') = L + 1 /\ sent'[L + 1] = wmsg
      /\ \A n \in 1 .. L : sent'[n] = sent[n]
  BY <1>1
<1>3. SUFFICES ASSUME NEW m \in next .. L + 1, NEW n \in next .. L + 1, m <= n
               PROVE  (n - m) * HdrLen <= sent'[n].at - sent'[m].at
  BY <1>2 DEF SpacedInv
<1>4. CASE n <= L
  <2>1. m \in next .. L /\ n \in next .. L /\ sent'[m] = sent[m] /\ sent'[n] = sent[n]
    BY <1>1, <1>2, <1>3, <1>4
  <2> QED BY <1>3, <2>1 DEF SpacedInv
<1>5. CASE n = L + 1 /\ m = L + 1
  <2>1. wmsg.at \in Nat /\ n - m = 0
    BY <1>1, <1>5, MsgFacts
  <2> QED BY <1>1, <1>2, <1>5, <2>1, NextTimes
<1>6. CASE n = L + 1 /\ m <= L
  <2>1. m \in next .. L /\ L \in next .. L /\ m \in 1 .. L /\ L \in 1 .. L
    BY <1>1, <1>3, <1>6
  <2>2. (L - m) * HdrLen <= sent[L].at - sent[m].at
    BY <1>1, <2>1 DEF SpacedInv
  <2>3. sent[L] \in Msg /\ sent[m] \in Msg
    BY <1>1, <2>1
  <2>4. /\ sent[L].at \in Nat /\ sent[L].len \in Nat /\ sent[m].at \in Nat
        /\ wmsg.at = sent[L].at + (HdrLen + sent[L].len)
    <3>1. End(sent[L]) = CompleteEnd
      BY <1>0, <1>1, <2>1 DEF UnreadInv
    <3> QED BY <2>3, <3>1, MsgFacts
  <2>5. (L + 1 - m) * HdrLen = (L - m) * HdrLen + HdrLen /\ (L - m) * HdrLen \in Int
    BY <1>1, <1>3, NextTimes
  <2>6. sent'[n] = wmsg /\ sent'[m] = sent[m]
    BY <1>2, <1>6, <2>1
  <2>7. PICK k \in Int : k = (L - m) * HdrLen
    BY <2>5
  <2>8. k <= sent[L].at - sent[m].at
    BY <2>2, <2>7
  <2>9. k + HdrLen <= wmsg.at - sent[m].at
    <3>1. sent[L].at - sent[m].at \in Int /\ wmsg.at \in Nat
      BY <2>4, MsgFacts
    <3> QED BY <1>1, <2>4, <2>8, <3>1, HeaderApart
  <2>10. (n - m) * HdrLen = k + HdrLen
    BY <1>6, <2>5, <2>7
  <2> QED BY <2>6, <2>9, <2>10
<1> QED BY <1>1, <1>3, <1>4, <1>5, <1>6

LEMMA SpacedNext == IInv /\ SpacedInv /\ [Next]_vars => SpacedInv'
<1> SUFFICES ASSUME IInv, SpacedInv, [Next]_vars PROVE SpacedInv'
  OBVIOUS
<1>0. TypeOK /\ WriterInv /\ UnreadInv /\ ReaderInv
  BY DEF IInv, RingInv
<1>1. CASE UNCHANGED <<sent, next>>
  BY <1>1 DEF SpacedInv
<1>2. CASE PublishHeader
  <2>1. wmsg \in Msg /\ wmsg.at = CompleteEnd
    BY <1>0, <1>2 DEF PublishHeader, WriterInv, CompleteEnd
  <2> QED BY <1>1, <1>2, <2>1, SpacedByAppend DEF PublishHeader
<1>3. CASE AdvanceWrite
  <2>1. wmsg \in Msg /\ wmsg.at = CompleteEnd
    <3>1. wmsg \in Msg /\ wmsg.at + HdrLen = w /\ wpc = "advance"
      BY <1>0, <1>3 DEF AdvanceWrite, WriterInv
    <3>2. wmsg.at \in Nat /\ HdrLen \in Nat
      BY <3>1, MsgFacts
    <3> QED BY <1>0, <3>1, <3>2 DEF CompleteEnd, TypeOK
  <2> QED BY <1>3, <2>1, SpacedByAppend DEF AdvanceWrite
<1>4. CASE AdvanceRead
  <2>1. next <= Len(sent) /\ next \in Nat /\ Len(sent) \in Nat
    BY <1>0, <1>4 DEF AdvanceRead, ReaderInv, TypeOK
  <2>2. next' = next + 1 /\ sent' = sent
    BY <1>4 DEF AdvanceRead
  <2> QED BY <1>0, <2>1, <2>2, SpacedByRead
<1>5. CASE Reset
  <2>1. next \in 1 .. Len(sent) + 1 /\ Len(sent) \in Nat
    BY <1>0 DEF TypeOK
  <2>2. next' = Len(sent) + 1 /\ sent' = sent
    BY <1>5 DEF Reset
  <2> QED BY <1>0, <2>1, <2>2, SpacedByRead
<1>6. CASE \E len \in Lens, api \in WriterApi : WriteBegin(len, api)
  BY <1>1, <1>6 DEF WriteBegin, WriteCall, hist
<1>7. CASE WriteHeader \/ WriteData \/ WritePipe
  BY <1>1, <1>7 DEF WriteHeader, WriteData, WritePipe, hist
<1>8. CASE \E op \in Op : op.api \in ReaderApi /\ ReadBegin(op)
  BY <1>1, <1>8 DEF ReadBegin, hist
<1>9. CASE PeekHeader \/ CheckSpace \/ CopyData \/ PeekReturn \/ ReadPipe
  BY <1>1, <1>9 DEF PeekHeader, CheckSpace, CopyData, PeekReturn, ReadPipe, hist
<1>10. CASE UNCHANGED vars
  BY <1>1, <1>10 DEF vars, hist
<1> QED
  BY <1>2, <1>3, <1>4, <1>5, <1>6, <1>7, <1>8, <1>9, <1>10 DEF Next, WriterStep, ReaderStep

(* A header of every message fits the ring, so the pipe has room for the   *)
(* bytes of all of them and of one more.                                   *)
LEMMA UnreadFew ==
  ASSUME IInv, SpacedInv, SelectingReader
  PROVE  Unread \in Nat /\ Unread < PipeCap
<1> DEFINE L == Len(sent)
<1>0. TypeOK /\ WriterInv /\ UnreadInv
  BY DEF IInv, RingInv
<1>1. /\ sent \in Seq(Msg) /\ L \in Nat /\ next \in 1 .. L + 1 /\ HdrLen \in Nat \ {0}
      /\ PipeCap \in Nat \ {0} /\ Size \in Nat
  BY <1>0, RingAssumption DEF TypeOK
<1>2. CASE next = L + 1
  BY <1>1, <1>2 DEF Unread
<1>3. CASE next <= L
  <2>1. next \in next .. L /\ L \in next .. L /\ L \in 1 .. L /\ next \in 1 .. L
    BY <1>1, <1>3
  <2>2. (L - next) * HdrLen <= sent[L].at - sent[next].at
    BY <1>1, <1>3, <2>1 DEF SpacedInv
  <2>3. sent[next].at = r /\ End(sent[L]) = CompleteEnd
    BY <1>0, <1>3 DEF UnreadInv
  <2>4. sent[L] \in Msg
    BY <1>1, <2>1
  <2>5. sent[L].at \in Nat /\ sent[L].len \in Nat /\ CompleteEnd = sent[L].at + (HdrLen + sent[L].len)
    BY <2>3, <2>4, MsgFacts
  <2>6. CompleteEnd <= w /\ w \in Nat /\ r \in Nat /\ w - r <= Size - 1
    BY <1>0, UnreadBounds DEF WriterInv
  <2>7. (L + 1 - next) * HdrLen = (L - next) * HdrLen + HdrLen /\ (L - next) * HdrLen \in Int
    BY <1>1, NextTimes
  <2>8. (L + 1 - next) * HdrLen <= Size - 1
    <3>1. PICK k \in Int : k = (L - next) * HdrLen
      BY <2>7
    <3>2. PICK a \in Nat : a = sent[L].at
      BY <2>5
    <3>3. k <= a - r /\ a + HdrLen <= w /\ w - r <= Size - 1
      <4>1. k <= a - r
        BY <2>2, <2>3, <3>1, <3>2
      <4>2. PICK b \in Nat : b = sent[L].len
        BY <2>5
      <4>3. CompleteEnd = a + (HdrLen + b)
        BY <2>5, <3>2, <4>2
      <4>4. HdrLen \in Nat
        BY <1>1
      <4>5. a + HdrLen <= CompleteEnd /\ CompleteEnd \in Nat
        BY <4>3, <4>4
      <4> QED BY <4>4, <2>6, <4>1, <4>5
    <3>4. HdrLen \in Nat /\ Size \in Nat /\ w \in Nat /\ r \in Nat
      BY <1>1, <2>6
    <3>5. k + HdrLen <= Size - 1
      BY <3>3, <3>4
    <3> QED BY <2>7, <3>1, <3>5
  <2>9. Size - 1 < PipeCap * HdrLen /\ PipeCap * HdrLen \in Nat
    BY <1>1 DEF SelectingReader
  <2>10. (L + 1 - next) * HdrLen < PipeCap * HdrLen
    BY <1>1, <2>7, <2>8, <2>9
  <2>11. L + 1 - next \in Nat /\ L + 1 - next < PipeCap
    BY <1>1, <2>10, FewerTimes
  <2> QED BY <1>1, <2>11 DEF Unread
<1> QED BY <1>1, <1>2, <1>3

(* A read that finds too few bytes for a header, or for the payload of the *)
(* header it saw, finds no complete message.                               *)
LEMMA FailFindsNone ==
  ASSUME IInv,
         \/ rpc = "peek" /\ ReadSpace < HdrLen
         \/ rpc = "space" /\ ReadSpace < MsgSize(rhdr[0].msg)
  PROVE  next = Len(sent) + 1
<1>0. TypeOK /\ WriterInv /\ UnreadInv /\ ReaderInv
  BY DEF IInv, RingInv
<1> SUFFICES ASSUME next <= Len(sent) PROVE FALSE
  BY <1>0, UnreadBounds DEF TypeOK
<1> DEFINE m == sent[next]
<1>1. MsgSize(m) = HdrLen + m.len /\ m.len \in Nat /\ r + MsgSize(m) <= w
  BY <1>0, OldestIs
<1>2. ReadSpace = w - r /\ w \in Nat /\ r \in Nat /\ HdrLen \in Nat
      /\ next \in Nat /\ Len(sent) \in Nat
  BY <1>0, UnreadBounds
<1>3. CASE rpc = "peek" /\ ReadSpace < HdrLen
  BY <1>1, <1>2, <1>3
<1>4. CASE rpc = "space" /\ ReadSpace < MsgSize(rhdr[0].msg)
  <2>1. rhdr[0].msg = m
    BY <1>0, <1>2, <1>4, HeaderMsg DEF ReaderInv
  <2> QED BY <1>1, <1>2, <1>4, <2>1
<1> QED BY <1>3, <1>4

LEMMA PipeFacts ==
  ASSUME TypeOK
  PROVE  /\ Unread \in Nat /\ Unread = Len(sent) - next + 1 /\ Len(sent) \in Nat
         /\ next \in Nat /\ pipe \in Nat /\ pipe <= PipeCap /\ PipeCap \in Nat
         /\ Pending(rpc) \in Nat /\ Pending(wpc) \in Nat
  BY RingAssumption DEF TypeOK, Unread, Pending

LEMMA InitPipe == Init => SpacedInv /\ PipeInv
BY DEF Init, SpacedInv, PipeInv, Unread, Pending

(* The writer: every message that is complete owes the pipe a byte, which  *)
(* WritePipe pays; a pipe that is full has a byte for every message.       *)
LEMMA PipeByWriter ==
  ASSUME IInv, SpacedInv, PipeInv, SelectingReader,
         \/ \E len \in Lens, api \in WriterApi : WriteBegin(len, api)
         \/ WriterStep
  PROVE  PipeInv'
<1>0. TypeOK /\ WriterInv
  BY DEF IInv, RingInv
<1>1. /\ Unread \in Nat /\ Unread = Len(sent) - next + 1 /\ Len(sent) \in Nat
      /\ next \in Nat /\ pipe \in Nat /\ pipe <= PipeCap /\ PipeCap \in Nat
      /\ Pending(rpc) \in Nat /\ sent \in Seq(Msg)
  BY <1>0, PipeFacts DEF TypeOK
<1>2. CASE \E len \in Lens, api \in WriterApi : WriteBegin(len, api)
  <2>1. /\ wpc = "idle" /\ wpc' \in {"pipe", "header"} /\ wapi' = "lua"
        /\ UNCHANGED <<pipe, rpc, rop, dirty, sent, next>>
    BY <1>2 DEF WriteBegin, WriteCall, WriteDone, SelectingReader, rvars, hist
  <2>2. Pending(wpc) = 0 /\ Pending(wpc)' \in 0 .. 1 /\ Pending(rpc)' = Pending(rpc)
        /\ Unread' = Unread
    BY <2>1 DEF Pending, Unread
  <2> QED BY <1>1, <2>1, <2>2 DEF PipeInv
<1>3. CASE WriteHeader \/ WriteData
  <2>1. /\ wpc \in {"header", "data"} /\ wpc' \in {"publish", "advance", "unexpected"}
        /\ UNCHANGED <<pipe, wapi, rpc, rop, dirty, sent, next>>
    BY <1>3 DEF WriteHeader, WriteData, rvars, hist
  <2>2. Pending(wpc)' = Pending(wpc) /\ Pending(rpc)' = Pending(rpc) /\ Unread' = Unread
    BY <2>1 DEF Pending, Unread
  <2> QED BY <2>1, <2>2 DEF PipeInv
<1>4. CASE PublishHeader /\ wmsg.len # 0
  <2>1. /\ wpc = "publish" /\ wpc' = "data"
        /\ UNCHANGED <<pipe, wapi, rpc, rop, dirty, sent, next>>
    BY <1>4 DEF PublishHeader, rvars
  <2>2. Pending(wpc)' = Pending(wpc) /\ Pending(rpc)' = Pending(rpc) /\ Unread' = Unread
    BY <2>1 DEF Pending, Unread
  <2> QED BY <2>1, <2>2 DEF PipeInv
<1>5. CASE AdvanceWrite \/ (PublishHeader /\ wmsg.len = 0)
  <2>1. /\ wpc \in {"publish", "advance"} /\ sent' = Append(sent, wmsg) /\ WriteDone(wapi)
        /\ UNCHANGED <<pipe, wapi, rpc, rop, dirty, next>>
    BY <1>5 DEF AdvanceWrite, PublishHeader, rvars
  <2>2. wapi = "lua" /\ wpc' = "pipe"
    BY <2>1 DEF PipeInv, WriteDone, SelectingReader
  <2>3. wmsg \in Msg
    BY <1>0, <2>1 DEF WriterInv
  <2>4. Len(sent') = Len(sent) + 1
    BY <1>1, <2>1, <2>3
  <2>5. Unread' = Unread + 1 /\ Pending(wpc) = 0 /\ Pending(wpc)' = 1
        /\ Pending(rpc)' = Pending(rpc)
    BY <1>1, <2>1, <2>2, <2>4 DEF Unread, Pending
  <2> QED BY <1>1, <2>1, <2>2, <2>5 DEF PipeInv
<1>6. CASE WritePipe
  <2>1. /\ wpc = "pipe" /\ wpc' = "idle" /\ SyncpipeWrite
        /\ UNCHANGED <<wapi, rpc, rop, dirty, sent, next>>
    BY <1>6 DEF WritePipe, rvars, hist
  <2>2. Pending(wpc) = 1 /\ Pending(wpc)' = 0 /\ Pending(rpc)' = Pending(rpc)
        /\ Unread' = Unread /\ Pending(rpc) \in 0 .. 1
    BY <2>1 DEF Pending, Unread
  <2>3. Unread < PipeCap
    BY UnreadFew
  <2>4. pipe' \in Nat /\ pipe <= pipe' /\ Unread + Pending(rpc) <= pipe'
    BY <1>1, <2>1, <2>2, <2>3 DEF SyncpipeWrite, PipeInv
  <2>5. pipe > 0 => pipe' > 0
    BY <1>1, <2>4
  <2> QED BY <1>1, <2>1, <2>2, <2>4, <2>5 DEF PipeInv
<1> QED BY <1>2, <1>3, <1>4, <1>5, <1>6 DEF WriterStep

(* The reader: it takes a message's byte only with the message; a read     *)
(* that finds nothing takes a byte that was there for none.                *)
LEMMA PipeByReader ==
  ASSUME IInv, PipeInv, SelectingReader,
         \/ \E op \in Op : op.api \in ReaderApi /\ ReadBegin(op)
         \/ ReaderStep
  PROVE  PipeInv'
<1>0. TypeOK /\ WriterInv /\ UnreadInv /\ ReaderInv
  BY DEF IInv, RingInv
<1>1. /\ Unread \in Nat /\ Unread = Len(sent) - next + 1 /\ Len(sent) \in Nat
      /\ next \in Nat /\ pipe \in Nat /\ Pending(wpc) \in 0 .. 1
  BY <1>0, PipeFacts DEF Pending
<1>2. CASE \E op \in Op : op.api \in ReaderApi /\ ReadBegin(op)
  <2>1. PICK op \in Op : op.api \in ReaderApi /\ ReadBegin(op)
    BY <1>2
  <2>2. /\ rpc = "idle" /\ rpc' = "peek" /\ rop' = op /\ op.api = "lua"
        /\ op.kind = "peek" \/ pipe > 0 \/ dirty
        /\ UNCHANGED <<pipe, dirty, wpc, wapi, sent, next>>
    BY <2>1 DEF ReadBegin, SelectingReader, wvars, hist
  <2>3. Pending(rpc)' = Pending(rpc) /\ Pending(wpc)' = Pending(wpc) /\ Unread' = Unread
    BY <2>2 DEF Pending, Unread
  <2> QED BY <2>2, <2>3 DEF PipeInv
<1>3. CASE (PeekHeader \/ CheckSpace) /\ Fail
  <2>1. /\ rpc \in {"peek", "space"} /\ ReadDone /\ dirty' = FALSE
        /\ UNCHANGED <<pipe, wpc, wapi, sent, next>>
        /\ rop.api = "lua" /\ (rop.kind # "peek" => pipe > 0 \/ dirty)
    BY <1>3 DEF PeekHeader, CheckSpace, Fail, PipeInv, wvars, hist
  <2>2. next = Len(sent) + 1
    <3>1. \/ rpc = "peek" /\ ReadSpace < HdrLen
          \/ rpc = "space" /\ ReadSpace < MsgSize(rhdr[0].msg)
      <4>1. rpc' \in {"idle", "pipe"}
        BY <2>1 DEF ReadDone
      <4>2. ~ TooBig
        BY <2>1 DEF TooBig
      <4> QED BY <1>3, <4>1, <4>2 DEF PeekHeader, CheckSpace, Proceed
    <3> QED BY <3>1, FailFindsNone
  <2>3. Unread = 0 /\ Unread' = Unread /\ ~ dirty /\ Pending(wpc)' = Pending(wpc)
    BY <1>1, <2>1, <2>2 DEF PipeInv, Unread, Pending
  <2>4. rpc' = "idle" \/ (rpc' = "pipe" /\ pipe > 0)
    BY <2>1, <2>3 DEF ReadDone
  <2>5. Pending(rpc)' = 0 \/ (Pending(rpc)' = 1 /\ pipe > 0)
    BY <2>4 DEF Pending
  <2> QED BY <1>1, <2>1, <2>3, <2>4, <2>5 DEF PipeInv
<1>4. CASE (PeekHeader \/ CheckSpace \/ CopyData) /\ ~ Fail
  <2>1. /\ rpc \in {"peek", "space", "copy"} /\ rpc' \in {"space", "copy", "advance"}
        /\ UNCHANGED <<pipe, wpc, wapi, rop, dirty, sent, next>>
    <3>1. rpc \in {"peek", "space", "copy"} /\ rop.api = "lua"
      BY <1>4 DEF PeekHeader, CheckSpace, CopyData, PipeInv
    <3>2. ~ TooBig
      BY <3>1 DEF TooBig
    <3> QED BY <1>4, <3>1, <3>2 DEF PeekHeader, CheckSpace, CopyData, Proceed, wvars, hist
  <2>2. Pending(rpc)' = Pending(rpc) /\ Pending(wpc)' = Pending(wpc) /\ Unread' = Unread
    BY <2>1 DEF Pending, Unread
  <2> QED BY <2>1, <2>2 DEF PipeInv
<1>5. CASE PeekReturn
  <2>1. /\ rpc = "advance" /\ rpc' = "idle" /\ UNCHANGED <<pipe, wpc, wapi, sent, next>>
    BY <1>5 DEF PeekReturn, ReadDone, wvars, hist
  <2>2. next <= Len(sent)
    BY <1>0, <2>1 DEF ReaderInv
  <2>3. Pending(rpc)' = Pending(rpc) /\ Pending(wpc)' = Pending(wpc) /\ Unread' = Unread
        /\ Unread > 0
    BY <1>1, <2>1, <2>2 DEF Pending, Unread
  <2> QED BY <2>1, <2>3 DEF PipeInv
<1>6. CASE AdvanceRead
  <2>1. /\ rpc = "advance" /\ rpc' \in {"idle", "pipe"} /\ dirty' = FALSE
        /\ next' = next + 1 /\ UNCHANGED <<pipe, wpc, wapi, sent>>
    BY <1>6 DEF AdvanceRead, ReadDone, wvars
  <2>2. next <= Len(sent)
    BY <1>0, <2>1 DEF ReaderInv
  <2>3. Pending(rpc) = 0 /\ Pending(rpc)' \in 0 .. 1 /\ Pending(wpc)' = Pending(wpc)
        /\ Unread' = Unread - 1
    BY <1>1, <2>1, <2>2 DEF Pending, Unread
  <2> QED BY <1>1, <2>1, <2>3 DEF PipeInv
<1>7. CASE ReadPipe
  <2>1. /\ rpc = "pipe" /\ rpc' = "idle" /\ SyncpipeRead
        /\ UNCHANGED <<wpc, wapi, dirty, sent, next>>
    BY <1>7 DEF ReadPipe, wvars, hist
  <2>2. Pending(rpc) = 1 /\ Pending(rpc)' = 0 /\ Pending(wpc)' = Pending(wpc)
        /\ Unread' = Unread
    BY <2>1 DEF Pending, Unread
  <2>3. Unread <= pipe' + Pending(wpc)
    BY <1>1, <2>1, <2>2 DEF SyncpipeRead, PipeInv
  <2> QED BY <1>1, <2>1, <2>2, <2>3 DEF PipeInv
<1>8. CASE PeekHeader \/ CheckSpace \/ CopyData
  <2>1. CASE CopyData
    <3>1. ~ Fail
      BY <2>1 DEF CopyData, Fail, ReadDone
    <3> QED BY <1>4, <2>1, <3>1
  <2>2. CASE (PeekHeader \/ CheckSpace) /\ Fail
    BY <1>3, <2>2
  <2>3. CASE (PeekHeader \/ CheckSpace) /\ ~ Fail
    BY <1>4, <2>3
  <2> QED BY <1>8, <2>1, <2>2, <2>3
<1> QED BY <1>2, <1>5, <1>6, <1>7, <1>8 DEF ReaderStep

LEMMA PipeNext ==
  ASSUME CarefulReset, SelectingReader
  PROVE  IInv /\ SpacedInv /\ PipeInv /\ [Next]_vars => PipeInv'
<1> SUFFICES ASSUME IInv, SpacedInv, PipeInv, [Next]_vars PROVE PipeInv'
  OBVIOUS
<1>1. CASE Reset
  <2>1. /\ wpc = "idle" /\ rpc = "idle" /\ dirty' = FALSE /\ next' = Len(sent) + 1
        /\ UNCHANGED <<pipe, wpc, wapi, rpc, rop, sent>>
    BY <1>1 DEF Reset, wvars
  <2>2. Len(sent) \in Nat /\ pipe \in Nat
    BY PipeFacts DEF IInv
  <2>3. Unread' = 0 /\ Pending(rpc)' = 0 /\ Pending(wpc)' = 0
    BY <2>1, <2>2 DEF Unread, Pending
  <2> QED BY <2>1, <2>2, <2>3 DEF PipeInv
<1>2. CASE UNCHANGED vars
  BY <1>2 DEF vars, wvars, rvars, hist, PipeInv, Unread, Pending
<1> QED BY <1>1, <1>2, PipeByWriter, PipeByReader DEF Next

(* Whatever the size of the ring and of the messages, a reader that begins *)
(* a read only when select() reports the pipe, or when its last peek has   *)
(* shown a message (the dirty() method), never waits in select() without a *)
(* byte in the pipe for each message there, provided both sides use the    *)
(* Lua functions and the pipe holds more bytes than messages fit the ring. *)
(* It says nothing of a reader that reads on until it gets nil: that one   *)
(* can lose a wake-up, as the read that returns nil takes the byte of a    *)
(* message completed meanwhile.                                            *)
THEOREM WakeupsNotLost == ASSUME CarefulReset, SelectingReader PROVE Spec => []WakeupNotLost
<1>1. IInv /\ PipeInv => WakeupNotLost
  <2> SUFFICES ASSUME IInv, PipeInv, rpc = "idle", wpc # "pipe", next <= Len(sent)
               PROVE  pipe > 0
    BY DEF WakeupNotLost
  <2>1. Unread \in Nat /\ Unread = Len(sent) - next + 1 /\ Len(sent) \in Nat
        /\ next \in Nat /\ pipe \in Nat
    BY PipeFacts DEF IInv
  <2>2. Pending(rpc) = 0 /\ Pending(wpc) = 0
    BY DEF Pending
  <2> QED BY <2>1, <2>2 DEF PipeInv
<1>2. Spec => [](SpacedInv /\ PipeInv)
  <2>1. IInv /\ (SpacedInv /\ PipeInv) /\ [Next]_vars => (SpacedInv /\ PipeInv)'
    BY SpacedNext, PipeNext
  <2> QED BY <2>1, InitPipe, Inductive, PTL DEF Spec
<1> QED BY <1>1, <1>2, Inductive, PTL
=============================================================================
