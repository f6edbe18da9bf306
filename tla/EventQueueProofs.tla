-------------------------- MODULE EventQueueProofs --------------------------
(***************************************************************************)
(* What holds of LuaJack's event queue for any number of clients and of    *)
(* events, under every interleaving of JACK's threads and the main thread. *)
(***************************************************************************)
EXTENDS EventQueue, FiniteSetTheorems, TLAPS

----------------------------------------------------------------------------
(* Each part of the invariant depends on a few variables only.             *)

LEMMA LockKept == ASSUME LockInv, UNCHANGED <<jpc, lock>> PROVE LockInv'
  BY DEF LockInv

LEMMA CountKept == ASSUME CountInv, UNCHANGED <<counter, jpc, queue>> PROVE CountInv'
  BY DEF CountInv, Uncounted

LEMMA MadeKept == ASSUME MadeInv, UNCHANGED <<made, saved, jpc>> PROVE MadeInv'
  BY DEF MadeInv, InsertingClients

LEMMA PipeKept == ASSUME PipeInv, UNCHANGED <<evtpipe, lock, queue>> PROVE PipeInv'
  BY DEF PipeInv, Unwritten

LEMMA ErrKept == ASSUME ErrInv, UNCHANGED errvars PROVE ErrInv'
  BY DEF ErrInv, errvars

LEMMA QueueKept ==
  ASSUME QueueInv, UNCHANGED <<next, saved, queue, evt>>,
         mpc' = mpc \/ (mpc \notin {"begin", "end"} /\ mpc' # "begin")
  PROVE  QueueInv'
  BY DEF QueueInv, InHand

LEMMA SchedKept ==
  ASSUME SchedInv, UNCHANGED <<next, n, scheduled>>,
         \/ mpc' = mpc
         \/ mpc' \notin {"remove", "begin", "callback", "free"}
         \/ mpc = "callback" /\ mpc' = "free"
  PROVE  SchedInv'
  BY DEF SchedInv

(* What the events in the queue and on their way say stays as it is. *)
LEMMA EventKept ==
  ASSUME EventInv, UNCHANGED <<jpc, jevt, queue, evt, valid, ref, unexpected>>,
         mpc' = mpc \/ mpc' \notin {"begin", "callback"}
  PROVE  EventInv'
  BY DEF EventInv, HasFunction, Regular

LEMMA ExitKept ==
  ASSUME ExitInv, active' \subseteq active, UNCHANGED jpc,
         mpc' = mpc \/ mpc' \notin {"freeall", "end"}
  PROVE  ExitInv'
  BY DEF ExitInv

----------------------------------------------------------------------------
(* The main thread only moves on.                                          *)

LEMMA GotoInv ==
  ASSUME IInv, NEW from, NEW to, Goto(from, to), from \notin {"begin", "end"},
         \/ to \in {"script", "raised", "check", "select", "err", "loop", "flush", "exit"}
         \/ from = "callback" /\ to = "free"
  PROVE  IInv'
<1>1. /\ TypeOK /\ LockInv /\ CountInv /\ MadeInv /\ PipeInv /\ QueueInv /\ SchedInv
      /\ EventInv /\ ErrInv /\ ExitInv
  BY DEF IInv
<1>2. /\ mpc = from /\ mpc' = to
      /\ UNCHANGED <<valid, ref, active, jackset, lock, queue, counter, evtpipe, jpc, jevt,
                     made, exiting, failing, errpipe, n, evt, scheduled, timed, saved, next, got,
                     freed, unexpected>>
  BY DEF Goto, clientvars, evtvars, jackvars, errvars, flushvars, hist
<1>3. TypeOK'
  BY <1>1, <1>2 DEF TypeOK
<1>4. LockInv' /\ CountInv' /\ MadeInv' /\ PipeInv' /\ ErrInv'
  BY <1>1, <1>2, LockKept, CountKept, MadeKept, PipeKept, ErrKept DEF errvars
<1>5. QueueInv' /\ SchedInv' /\ EventInv' /\ ExitInv'
  BY <1>1, <1>2, QueueKept, SchedKept, EventKept, ExitKept
<1> QED BY <1>3, <1>4, <1>5 DEF IInv

LEMMA CallSleepInv == ASSUME IInv, CallSleep PROVE IInv'
<1>1. /\ TypeOK /\ LockInv /\ CountInv /\ MadeInv /\ PipeInv /\ QueueInv /\ SchedInv
      /\ EventInv /\ ErrInv /\ ExitInv
  BY DEF IInv
<1>2. /\ mpc = "script" /\ mpc' = "check" /\ timed' \in BOOLEAN
      /\ UNCHANGED <<valid, ref, active, jackset, lock, queue, counter, evtpipe, jpc, jevt,
                     made, exiting, failing, errpipe, n, evt, scheduled, saved, next, got,
                     freed, unexpected>>
  BY DEF CallSleep, clientvars, evtvars, jackvars, errvars, hist
<1>3. TypeOK'
  BY <1>1, <1>2 DEF TypeOK
<1>4. LockInv' /\ CountInv' /\ MadeInv' /\ PipeInv' /\ ErrInv'
  BY <1>1, <1>2, LockKept, CountKept, MadeKept, PipeKept, ErrKept DEF errvars
<1>5. QueueInv' /\ SchedInv' /\ EventInv' /\ ExitInv'
  BY <1>1, <1>2, QueueKept, SchedKept, EventKept, ExitKept
<1> QED BY <1>3, <1>4, <1>5 DEF IInv

----------------------------------------------------------------------------
(* JACK's threads, and the threads that raise errors.                      *)

LEMMA InsertingFinite ==
  /\ IsFiniteSet(InsertingClients) /\ Cardinality(InsertingClients) \in Nat
<1>1. InsertingClients \subseteq Clients
  BY DEF InsertingClients
<1> QED BY <1>1, EventAssumption, FS_Subset, FS_CardinalityType

LEMMA NotifyInv ==
  ASSUME IInv, NEW c \in Clients, NEW k \in Kinds, NEW said \in BOOLEAN, Notify(c, k, said)
  PROVE  IInv'
<1>1. /\ TypeOK /\ LockInv /\ CountInv /\ MadeInv /\ PipeInv /\ QueueInv /\ SchedInv
      /\ EventInv /\ ErrInv /\ ExitInv
  BY DEF IInv
<1>2. /\ jpc[c] = "idle" /\ c \in active /\ k \in ref[c] /\ made < MaxEvents
      /\ jpc' = [jpc EXCEPT ![c] = "insert"]
      /\ jevt' = [jevt EXCEPT ![c] = NewEvent(c, k, said)]
      /\ made' = made + 1
      /\ UNCHANGED <<valid, ref, active, jackset, lock, queue, counter, evtpipe, mpc,
                     exiting, failing, errpipe, n, evt, scheduled, timed, saved, next, got,
                     freed, unexpected>>
  BY DEF Notify, clientvars, evtvars, errvars, flushvars, hist
<1>3. made \in Nat /\ made + 1 \in 1 .. MaxEvents
  BY <1>1, <1>2, EventAssumption DEF TypeOK
<1>4. NewEvent(c, k, said) \in Event
  BY <1>3 DEF NewEvent, Event
<1>5. HasFunction(NewEvent(c, k, said))
  BY <1>2 DEF HasFunction, NewEvent
<1>6. TypeOK'
  BY <1>1, <1>2, <1>3, <1>4 DEF TypeOK
<1>7. LockInv' /\ CountInv'
  BY <1>1, <1>2 DEF LockInv, CountInv, Uncounted, TypeOK
<1>8. MadeInv'
  <2>1. InsertingClients' = InsertingClients \cup {c} /\ c \notin InsertingClients
    BY <1>1, <1>2 DEF InsertingClients, TypeOK
  <2>2. Cardinality(InsertingClients') = Cardinality(InsertingClients) + 1
    BY <2>1, InsertingFinite, FS_AddElement
  <2>3. made = Len(saved) + Cardinality(InsertingClients) /\ Len(saved) \in Nat
    BY <1>1 DEF MadeInv, TypeOK
  <2> QED BY <2>2, <2>3, <1>2, InsertingFinite DEF MadeInv
<1>9. PipeInv' /\ ErrInv' /\ QueueInv' /\ SchedInv'
  BY <1>1, <1>2, PipeKept, ErrKept, QueueKept, SchedKept DEF errvars
<1>10. EventInv'
  <2>1. \A d \in Clients : jpc'[d] # "idle" => jevt'[d] \in Event
    BY <1>1, <1>2, <1>4 DEF EventInv, TypeOK
  <2>2. ASSUME Regular, NEW d \in Clients, jpc'[d] # "idle"
        PROVE  HasFunction(jevt'[d])
    BY <1>1, <1>2, <1>5, <2>2 DEF EventInv, TypeOK
  <2> QED BY <1>1, <1>2, <2>1, <2>2 DEF EventInv, Regular, HasFunction
<1>11. ExitInv'
  BY <1>1, <1>2 DEF ExitInv
<1> QED BY <1>6, <1>7, <1>8, <1>9, <1>10, <1>11 DEF IInv

LEMMA InsertInv == ASSUME IInv, NEW c \in Clients, Insert(c) PROVE IInv'
<1>1. /\ TypeOK /\ LockInv /\ CountInv /\ MadeInv /\ PipeInv /\ QueueInv /\ SchedInv
      /\ EventInv /\ ErrInv /\ ExitInv
  BY DEF IInv
<1>2. /\ jpc[c] = "insert" /\ lock = Unlocked
      /\ lock' = c /\ c # Unlocked
      /\ queue' = Append(queue, jevt[c])
      /\ saved' = Append(saved, jevt[c])
      /\ jpc' = [jpc EXCEPT ![c] = "count"]
      /\ UNCHANGED <<valid, ref, active, jackset, counter, evtpipe, jevt, made, mpc,
                     exiting, failing, errpipe, n, evt, scheduled, timed, next, got,
                     freed, unexpected>>
  BY EventAssumption DEF Insert, clientvars, errvars, flushvars
<1>3. /\ jevt[c] \in Event /\ queue \in Seq(Event) /\ saved \in Seq(Event)
      /\ Len(queue) \in Nat /\ Len(saved) \in Nat /\ next \in Nat \ {0}
      /\ counter \in Nat /\ evtpipe \in Nat
      /\ jpc \in [Clients -> {"idle", "insert", "count", "wake"}]
  BY <1>1, <1>2 DEF EventInv, TypeOK
<1>4. /\ Len(queue') = Len(queue) + 1 /\ Len(saved') = Len(saved) + 1
      /\ queue' \in Seq(Event) /\ saved' \in Seq(Event)
      /\ \A i \in 1 .. Len(queue) : queue'[i] = queue[i]
      /\ \A i \in 1 .. Len(saved) : saved'[i] = saved[i]
      /\ queue'[Len(queue) + 1] = jevt[c] /\ saved'[Len(saved) + 1] = jevt[c]
  BY <1>2, <1>3
<1>5. TypeOK'
  BY <1>1, <1>2, <1>4, <1>3 DEF TypeOK
<1>6. LockInv'
  <2>1. \A d \in Clients : jpc[d] \notin {"count", "wake"}
    BY <1>1, <1>2, EventAssumption DEF LockInv
  <2>2. \A d \in Clients : jpc'[d] \in {"count", "wake"} <=> d = c
    BY <2>1, <1>2, <1>3
  <2> QED BY <2>2, <1>2 DEF LockInv
<1>7. CountInv'
  <2>1. Uncounted = 0 /\ Uncounted' = 1
    <3>1. \A d \in Clients : jpc[d] # "count"
      BY <1>1, <1>2, EventAssumption DEF LockInv
    <3> QED BY <3>1, <1>2, <1>3 DEF Uncounted
  <2> QED BY <2>1, <1>1, <1>2, <1>3, <1>4 DEF CountInv
<1>8. MadeInv'
  <2>1. InsertingClients' = InsertingClients \ {c} /\ c \in InsertingClients
    BY <1>2, <1>3 DEF InsertingClients
  <2>2. Cardinality(InsertingClients') = Cardinality(InsertingClients) - 1
    BY <2>1, InsertingFinite, FS_RemoveElement
  <2>3. made = Len(saved) + Cardinality(InsertingClients)
    BY <1>1 DEF MadeInv
  <2> QED BY <2>2, <2>3, <1>2, <1>3, <1>4, InsertingFinite DEF MadeInv
<1>9. PipeInv'
  <2>1. Unwritten = 0 /\ Unwritten' = 1
    BY <1>2 DEF Unwritten
  <2> QED BY <2>1, <1>1, <1>2, <1>3, <1>4 DEF PipeInv
<1>10. QueueInv'
  <2>1. InHand' = InHand /\ InHand \in {0, 1}
    BY <1>2 DEF InHand
  <2>2. /\ next <= Len(saved) + 1
        /\ mpc # "end" =>
             /\ Len(queue) + next + InHand = Len(saved) + 1
             /\ \A i \in 1 .. Len(queue) : queue[i] = saved[next + InHand - 1 + i]
        /\ mpc = "begin" => next <= Len(saved) /\ evt = saved[next]
    BY <1>1 DEF QueueInv
  <2>0. InHand \in Nat
    BY <2>1
  <2>3. ASSUME mpc # "end", NEW i \in 1 .. Len(queue) + 1
        PROVE  queue'[i] = saved'[next + InHand - 1 + i]
    <3>1. CASE i = Len(queue) + 1
      <4>1. next + InHand - 1 + (Len(queue) + 1) = Len(saved) + 1
        BY <2>0, <2>2, <2>3, <1>3
      <4> QED BY <4>1, <3>1, <1>4
    <3>2. CASE i \in 1 .. Len(queue)
      <4>1. next + InHand - 1 + i \in 1 .. Len(saved)
        BY <2>0, <2>1, <2>2, <2>3, <3>2, <1>3
      <4> QED BY <4>1, <3>2, <1>4, <2>2, <2>3
    <3> QED BY <3>1, <3>2, <1>3
  <2>4. mpc = "begin" => next <= Len(saved) + 1 /\ evt = saved'[next]
    BY <2>2, <1>3, <1>4
  <2>5. /\ next <= Len(saved) + 1 + 1
        /\ mpc # "end" => Len(queue) + 1 + next + InHand = Len(saved) + 1 + 1
    BY <2>0, <2>2, <1>3
  <2> QED BY <2>1, <2>3, <2>4, <2>5, <1>2, <1>3, <1>4 DEF QueueInv
<1>11. SchedInv' /\ ErrInv' /\ ExitInv'
  BY <1>1, <1>2, <1>3, SchedKept, ErrKept DEF ExitInv, errvars
<1>12. EventInv'
  <2>1. ASSUME Regular, NEW i \in 1 .. Len(queue')
        PROVE  HasFunction(queue'[i])
    BY <2>1, <1>1, <1>2, <1>3, <1>4 DEF EventInv
  <2> QED BY <2>1, <1>1, <1>2, <1>3 DEF EventInv, Regular, HasFunction
<1> QED BY <1>5, <1>6, <1>7, <1>8, <1>9, <1>10, <1>11, <1>12 DEF IInv

LEMMA CountActionInv == ASSUME IInv, NEW c \in Clients, Count(c) PROVE IInv'
<1>1. /\ TypeOK /\ LockInv /\ CountInv /\ MadeInv /\ PipeInv /\ QueueInv /\ SchedInv
      /\ EventInv /\ ErrInv /\ ExitInv
  BY DEF IInv
<1>2. /\ jpc[c] = "count" /\ counter' = counter + 1
      /\ jpc' = [jpc EXCEPT ![c] = "wake"]
      /\ UNCHANGED <<valid, ref, active, jackset, lock, queue, evtpipe, jevt, made, mpc,
                     exiting, failing, errpipe, n, evt, scheduled, timed, saved, next, got,
                     freed, unexpected>>
  BY DEF Count, clientvars, errvars, flushvars, hist
<1>3. /\ counter \in Nat /\ Len(queue) \in Nat
      /\ jpc \in [Clients -> {"idle", "insert", "count", "wake"}]
  BY <1>1 DEF TypeOK
<1>4. lock = c /\ \A d \in Clients : d # c => jpc[d] \notin {"count", "wake"}
  BY <1>1, <1>2 DEF LockInv
<1>5. TypeOK' /\ LockInv'
  BY <1>1, <1>2, <1>3, <1>4 DEF TypeOK, LockInv
<1>6. CountInv'
  <2>1. Uncounted = 1 /\ Uncounted' = 0
    BY <1>2, <1>3, <1>4 DEF Uncounted
  <2> QED BY <2>1, <1>1, <1>2, <1>3 DEF CountInv
<1>7. MadeInv'
  <2>1. InsertingClients' = InsertingClients
    BY <1>2, <1>3 DEF InsertingClients
  <2> QED BY <2>1, <1>1, <1>2 DEF MadeInv
<1>8. PipeInv' /\ ErrInv' /\ QueueInv' /\ SchedInv'
  BY <1>1, <1>2, PipeKept, ErrKept, QueueKept, SchedKept DEF errvars
<1>9. EventInv' /\ ExitInv'
  BY <1>1, <1>2, <1>3 DEF EventInv, ExitInv, Regular, HasFunction
<1> QED BY <1>5, <1>6, <1>7, <1>8, <1>9 DEF IInv

LEMMA WakeInv == ASSUME IInv, NEW c \in Clients, Wake(c) PROVE IInv'
<1>1. /\ TypeOK /\ LockInv /\ CountInv /\ MadeInv /\ PipeInv /\ QueueInv /\ SchedInv
      /\ EventInv /\ ErrInv /\ ExitInv
  BY DEF IInv
<1>2. /\ jpc[c] = "wake" /\ lock' = Unlocked
      /\ evtpipe' = IF evtpipe < EvtPipeCap THEN evtpipe + 1 ELSE evtpipe
      /\ jpc' = [jpc EXCEPT ![c] = "idle"]
      /\ jevt' = [jevt EXCEPT ![c] = NoEvent]
      /\ UNCHANGED <<valid, ref, active, jackset, queue, counter, made, mpc,
                     exiting, failing, errpipe, n, evt, scheduled, timed, saved, next, got,
                     freed, unexpected>>
  BY DEF Wake, clientvars, errvars, flushvars, hist
<1>3. /\ evtpipe \in Nat /\ Len(queue) \in Nat /\ Len(saved) \in Nat /\ next \in Nat \ {0}
      /\ made \in 0 .. MaxEvents /\ evtpipe <= EvtPipeCap
      /\ EvtPipeCap \in Nat \ {0} /\ MaxEvents \in Nat
      /\ jpc \in [Clients -> {"idle", "insert", "count", "wake"}]
      /\ jevt \in [Clients -> Event \cup {NoEvent}]
  BY <1>1, EventAssumption DEF TypeOK
<1>4. lock = c /\ \A d \in Clients : d # c => jpc[d] \notin {"count", "wake"}
  BY <1>1, <1>2 DEF LockInv
<1>5. evtpipe' \in 0 .. EvtPipeCap
  BY <1>2, <1>3
<1>6. TypeOK'
  BY <1>1, <1>2, <1>3, <1>5 DEF TypeOK
<1>7. LockInv'
  <2>1. \A d \in Clients : jpc'[d] \notin {"count", "wake"}
    BY <1>2, <1>3, <1>4
  <2> QED BY <2>1, <1>2, EventAssumption DEF LockInv
<1>8. CountInv' /\ MadeInv'
  <2>1. Uncounted' = Uncounted
    BY <1>2, <1>3, <1>4 DEF Uncounted
  <2>2. InsertingClients' = InsertingClients
    BY <1>2, <1>3 DEF InsertingClients
  <2> QED BY <2>1, <2>2, <1>1, <1>2 DEF CountInv, MadeInv
<1>9. PipeInv'
  <2>1. Unwritten = 1 /\ Unwritten' = 0
    BY <1>2, <1>4, EventAssumption DEF Unwritten
  <2>2. Len(queue) + next + InHand = Len(saved) + 1 /\ InHand \in Nat
    BY <1>1, <1>2 DEF QueueInv, ExitInv, InHand
  <2>3. Len(saved) <= made
    BY <1>1, <1>3, InsertingFinite DEF MadeInv
  <2>4. Len(queue) <= MaxEvents
    BY <2>2, <2>3, <1>3
  <2>5. MaxEvents <= EvtPipeCap => evtpipe + 1 = Len(queue)
    BY <2>1, <1>1 DEF PipeInv
  <2>6. MaxEvents <= EvtPipeCap => evtpipe < EvtPipeCap
    BY <2>4, <2>5, <1>3
  <2> QED BY <2>1, <2>5, <2>6, <1>2, <1>3 DEF PipeInv
<1>10. ErrInv' /\ QueueInv' /\ SchedInv'
  BY <1>1, <1>2, ErrKept, QueueKept, SchedKept DEF errvars
<1>11. EventInv' /\ ExitInv'
  BY <1>1, <1>2, <1>3 DEF EventInv, ExitInv, Regular, HasFunction
<1> QED BY <1>6, <1>7, <1>8, <1>9, <1>10, <1>11 DEF IInv

LEMMA FailInv == ASSUME IInv, Fail \/ FailWake PROVE IInv'
<1>1. /\ TypeOK /\ LockInv /\ CountInv /\ MadeInv /\ PipeInv /\ QueueInv /\ SchedInv
      /\ EventInv /\ ErrInv /\ ExitInv
  BY DEF IInv
<1>2. /\ \/ ~ exiting /\ exiting' = TRUE /\ failing' = TRUE /\ errpipe' = errpipe
         \/ failing /\ failing' = FALSE /\ errpipe' = errpipe + 1 /\ exiting' = exiting
      /\ UNCHANGED <<valid, ref, active, jackset, lock, queue, counter, evtpipe, jpc, jevt,
                     made, mpc, n, evt, scheduled, timed, saved, next, got, freed, unexpected>>
  BY DEF Fail, FailWake, clientvars, evtvars, jackvars, flushvars, hist
<1>3. errpipe \in 0 .. 1 /\ exiting \in BOOLEAN /\ failing \in BOOLEAN
  BY <1>1 DEF TypeOK
<1>4. errpipe' \in 0 .. 1 /\ exiting' \in BOOLEAN /\ failing' \in BOOLEAN
  <2>1. failing => errpipe + 1 = 1
    BY <1>1 DEF ErrInv
  <2>2. errpipe' \in 0 .. 1
    BY <2>1, <1>2, <1>3
  <2>3. exiting' \in BOOLEAN
    BY <1>2, <1>3
  <2> QED BY <2>2, <2>3, <1>2
<1>5. TypeOK'
  BY <1>1, <1>2, <1>4 DEF TypeOK
<1>6. ErrInv'
  <2>1. (failing => exiting /\ errpipe = 0) /\ (errpipe > 0 => exiting)
    BY <1>1 DEF ErrInv
  <2>2. CASE ~ exiting /\ exiting' = TRUE /\ failing' = TRUE /\ errpipe' = errpipe
    <3>1. errpipe = 0
      BY <2>1, <2>2, <1>3
    <3> QED BY <3>1, <2>2 DEF ErrInv
  <2>3. CASE failing /\ failing' = FALSE /\ exiting' = exiting
    BY <2>1, <2>3 DEF ErrInv
  <2> QED BY <2>2, <2>3, <1>2
<1>7. LockInv' /\ CountInv' /\ MadeInv' /\ PipeInv'
  BY <1>1, <1>2, LockKept, CountKept, MadeKept, PipeKept
<1>8. QueueInv' /\ SchedInv' /\ EventInv' /\ ExitInv'
  BY <1>1, <1>2, QueueKept, SchedKept, EventKept, ExitKept
<1> QED BY <1>5, <1>6, <1>7, <1>8 DEF IInv

----------------------------------------------------------------------------
(* The script.                                                             *)

LEMMA RegisterInv ==
  ASSUME IInv, NEW c \in Clients, NEW k \in Kinds, Register(c, k)
  PROVE  IInv'
<1>1. /\ TypeOK /\ LockInv /\ CountInv /\ MadeInv /\ PipeInv /\ QueueInv /\ SchedInv
      /\ EventInv /\ ErrInv /\ ExitInv
  BY DEF IInv
<1>2. /\ RegisterActive \/ c \notin active
      /\ \/ /\ c \notin active
            /\ ref' = [ref EXCEPT ![c] = @ \cup {k}]
            /\ jackset' = [jackset EXCEPT ![c] = @ \cup {k}]
         \/ /\ c \in active
            /\ ref' = [ref EXCEPT ![c] = @ \ {k}]
            /\ UNCHANGED jackset
      /\ UNCHANGED <<valid, active, lock, queue, counter, evtpipe, jpc, jevt, made, mpc,
                     exiting, failing, errpipe, n, evt, scheduled, timed, saved, next, got,
                     freed, unexpected>>
  BY DEF Register, evtvars, jackvars, errvars, flushvars, hist
<1>3. ref \in [Clients -> SUBSET Kinds] /\ jackset \in [Clients -> SUBSET Kinds]
  BY <1>1 DEF TypeOK
<1>4. ref' \in [Clients -> SUBSET Kinds] /\ jackset' \in [Clients -> SUBSET Kinds]
  BY <1>2, <1>3
<1>5. Regular => \A d \in Clients : ref[d] \subseteq ref'[d]
  BY <1>2, <1>3 DEF Regular
<1>6. TypeOK'
  BY <1>1, <1>2, <1>4 DEF TypeOK
<1>7. LockInv' /\ CountInv' /\ MadeInv' /\ PipeInv' /\ ErrInv'
  BY <1>1, <1>2, LockKept, CountKept, MadeKept, PipeKept, ErrKept DEF errvars
<1>8. QueueInv' /\ SchedInv' /\ ExitInv'
  BY <1>1, <1>2, QueueKept, SchedKept, ExitKept
<1>9. EventInv'
  <2>1. ASSUME Regular, NEW e \in Event, HasFunction(e) PROVE HasFunction(e)'
    BY <2>1, <1>2, <1>5 DEF HasFunction, Event
  <2>2. \A i \in 1 .. Len(queue) : queue[i] \in Event
    BY <1>1 DEF TypeOK
  <2>3. Regular' = Regular
    BY DEF Regular
  <2> QED BY <2>1, <2>2, <2>3, <1>1, <1>2 DEF EventInv
<1> QED BY <1>6, <1>7, <1>8, <1>9 DEF IInv

LEMMA ActiveInv ==
  ASSUME IInv, NEW c \in Clients, Activate(c) \/ Deactivate(c)
  PROVE  IInv'
<1>1. /\ TypeOK /\ LockInv /\ CountInv /\ MadeInv /\ PipeInv /\ QueueInv /\ SchedInv
      /\ EventInv /\ ErrInv /\ ExitInv
  BY DEF IInv
<1>2. /\ mpc \in {"script", "callback"}
      /\ active' = active \cup {c} \/ active' = active \ {c}
      /\ UNCHANGED <<valid, ref, jackset, lock, queue, counter, evtpipe, jpc, jevt, made, mpc,
                     exiting, failing, errpipe, n, evt, scheduled, timed, saved, next, got,
                     freed, unexpected>>
  BY DEF Activate, Deactivate, InScript, evtvars, jackvars, errvars, flushvars, hist
<1>3. TypeOK'
  BY <1>1, <1>2 DEF TypeOK
<1>4. LockInv' /\ CountInv' /\ MadeInv' /\ PipeInv' /\ ErrInv'
  BY <1>1, <1>2, LockKept, CountKept, MadeKept, PipeKept, ErrKept DEF errvars
<1>5. QueueInv' /\ SchedInv' /\ EventInv'
  BY <1>1, <1>2, QueueKept, SchedKept, EventKept
<1>6. ExitInv'
  BY <1>2 DEF ExitInv
<1> QED BY <1>3, <1>4, <1>5, <1>6 DEF IInv

LEMMA CloseInv == ASSUME IInv, NEW c \in Clients, Close(c) PROVE IInv'
<1>1. /\ TypeOK /\ LockInv /\ CountInv /\ MadeInv /\ PipeInv /\ QueueInv /\ SchedInv
      /\ EventInv /\ ErrInv /\ ExitInv
  BY DEF IInv
<1>2. /\ active' = active \ {c} /\ valid' = valid \ {c}
      /\ jpc[c] = "idle" /\ mpc \in {"script", "callback"}
      /\ jackset' = [jackset EXCEPT ![c] = {}]
      /\ ref' = [ref EXCEPT ![c] = Released(c)]
      /\ UNCHANGED <<lock, queue, counter, evtpipe, jpc, jevt, made, mpc,
                     exiting, failing, errpipe, n, evt, scheduled, timed, saved, next, got,
                     freed, unexpected>>
  BY DEF Close, InScript, evtvars, jackvars, errvars, flushvars, hist
<1>3. ref \in [Clients -> SUBSET Kinds] /\ jackset \in [Clients -> SUBSET Kinds]
  BY <1>1 DEF TypeOK
<1>4. ref' \in [Clients -> SUBSET Kinds] /\ jackset' \in [Clients -> SUBSET Kinds]
  <2>1. Released(c) \subseteq Kinds
    BY <1>3 DEF Released
  <2> QED BY <2>1, <1>2, <1>3
<1>5. TypeOK'
  BY <1>1, <1>2, <1>4 DEF TypeOK
<1>6. LockInv' /\ CountInv' /\ MadeInv' /\ PipeInv' /\ ErrInv'
  BY <1>1, <1>2, LockKept, CountKept, MadeKept, PipeKept, ErrKept DEF errvars
<1>7. QueueInv' /\ SchedInv' /\ ExitInv'
  BY <1>1, <1>2, QueueKept, SchedKept DEF ExitInv
<1>8. EventInv'
  <2>1. ASSUME NEW e \in Event, HasFunction(e) PROVE HasFunction(e)'
    BY <2>1, <1>2, <1>3 DEF HasFunction, Event
  <2> QED BY <2>1, <1>1, <1>2 DEF EventInv, Regular, HasFunction
<1> QED BY <1>5, <1>6, <1>7, <1>8 DEF IInv

----------------------------------------------------------------------------
(* callback_flush().                                                       *)

LEMMA NoEventOutside == NoEvent \notin Event
  BY EventAssumption DEF NoEvent, Event

LEMMA FlushBeginInv == ASSUME IInv, FlushBegin PROVE IInv'
<1>1. /\ TypeOK /\ LockInv /\ CountInv /\ MadeInv /\ PipeInv /\ QueueInv /\ SchedInv
      /\ EventInv /\ ErrInv /\ ExitInv
  BY DEF IInv
<1>0. CASE Goto("flush", "loop")
  BY <1>0, GotoInv
<1>2. ASSUME mpc = "flush", mpc' = "remove",
             n' = counter /\ scheduled' = Len(saved)
               /\ UNCHANGED <<clientvars, evtvars, jackvars, errvars, evt, timed, hist>>
      PROVE  IInv'
  <2>1. /\ n' = counter /\ scheduled' = Len(saved)
        /\ UNCHANGED <<valid, ref, active, jackset, lock, queue, counter, evtpipe, jpc, jevt,
                       made, exiting, failing, errpipe, evt, timed, saved, next, got, freed,
                       unexpected>>
    BY <1>2 DEF clientvars, evtvars, jackvars, errvars, hist
  <2>2. counter \in Nat /\ Len(queue) \in Nat /\ Len(saved) \in Nat /\ next \in Nat \ {0}
    BY <1>1 DEF TypeOK
  <2>3. TypeOK'
    BY <1>1, <1>2, <2>1, <2>2 DEF TypeOK
  <2>4. LockInv' /\ CountInv' /\ MadeInv' /\ PipeInv' /\ ErrInv'
    BY <1>1, <2>1, LockKept, CountKept, MadeKept, PipeKept, ErrKept DEF errvars
  <2>5. QueueInv' /\ EventInv' /\ ExitInv'
    BY <1>1, <1>2, <2>1, QueueKept, EventKept, ExitKept
  <2>6. SchedInv'
    <3>1. Len(queue) + next = Len(saved) + 1
      BY <1>1, <1>2, <2>2 DEF QueueInv, InHand
    <3>2. counter <= Len(queue)
      BY <1>1, <2>2 DEF CountInv, Uncounted
    <3>3. next - 1 + counter <= Len(saved)
      BY <3>1, <3>2, <2>2
    <3> QED BY <3>3, <1>2, <2>1 DEF SchedInv
  <2> QED BY <2>3, <2>4, <2>5, <2>6 DEF IInv
<1> QED BY <1>0, <1>2 DEF FlushBegin

(* The locals of callback_flush() are gone, and no event is in hand. *)
LEMMA LeaveInv ==
  ASSUME IInv, Leave, mpc \in {"remove", "callback"}, mpc' \in {"loop", "raised"},
         freed' \in [1 .. MaxEvents -> Nat],
         UNCHANGED <<clientvars, evtvars, jackvars, errvars, saved, next, got, unexpected>>
  PROVE  IInv'
<1>1. /\ TypeOK /\ LockInv /\ CountInv /\ MadeInv /\ PipeInv /\ QueueInv /\ SchedInv
      /\ EventInv /\ ErrInv /\ ExitInv
  BY DEF IInv
<1>2. /\ n' = 0 /\ scheduled' = 0 /\ evt' = NoEvent
      /\ UNCHANGED <<valid, ref, active, jackset, lock, queue, counter, evtpipe, jpc, jevt,
                     made, exiting, failing, errpipe, timed, saved, next, got, unexpected>>
  BY DEF Leave, clientvars, evtvars, jackvars, errvars
<1>3. TypeOK'
  BY <1>1, <1>2 DEF TypeOK
<1>4. LockInv' /\ CountInv' /\ MadeInv' /\ PipeInv' /\ ErrInv'
  BY <1>1, <1>2, LockKept, CountKept, MadeKept, PipeKept, ErrKept DEF errvars
<1>5. SchedInv' /\ ExitInv'
  BY <1>1, <1>2, ExitKept DEF SchedInv
<1>6. QueueInv'
  BY <1>1, <1>2 DEF QueueInv, InHand
<1>7. EventInv'
  BY <1>1, <1>2 DEF EventInv, Regular, HasFunction
<1> QED BY <1>3, <1>4, <1>5, <1>6, <1>7 DEF IInv

LEMMA FreedType ==
  ASSUME TypeOK, NEW e
  PROVE  Freed(e) \in [1 .. MaxEvents -> Nat]
<1>1. freed \in [1 .. MaxEvents -> Nat]
  BY DEF TypeOK
<1>2. e.no \in 1 .. MaxEvents => freed[e.no] + 1 \in Nat
  BY <1>1
<1> QED BY <1>1, <1>2 DEF Freed

LEMMA FlushEndInv == ASSUME IInv, FlushEnd PROVE IInv'
<1>1. freed' = freed /\ freed \in [1 .. MaxEvents -> Nat]
  BY DEF FlushEnd, hist, IInv, TypeOK
<1> QED BY <1>1, LeaveInv DEF FlushEnd, hist

LEMMA CallbackFailsInv == ASSUME IInv, CallbackFails PROVE IInv'
<1>1. freed' = Freed(evt) /\ TypeOK
  BY DEF CallbackFails, IInv
<1> QED BY <1>1, FreedType, LeaveInv DEF CallbackFails

LEMMA FreeInv == ASSUME IInv, Free PROVE IInv'
<1>1. /\ TypeOK /\ LockInv /\ CountInv /\ MadeInv /\ PipeInv /\ QueueInv /\ SchedInv
      /\ EventInv /\ ErrInv /\ ExitInv
  BY DEF IInv
<1>2. /\ mpc = "free" /\ mpc' = "remove"
      /\ freed' = Freed(evt) /\ evt' = NoEvent
      /\ UNCHANGED <<valid, ref, active, jackset, lock, queue, counter, evtpipe, jpc, jevt,
                     made, exiting, failing, errpipe, n, scheduled, timed, saved, next, got,
                     unexpected>>
  BY DEF Free, clientvars, evtvars, jackvars, errvars
<1>3. TypeOK'
  BY <1>1, <1>2, FreedType DEF TypeOK
<1>4. LockInv' /\ CountInv' /\ MadeInv' /\ PipeInv' /\ ErrInv'
  BY <1>1, <1>2, LockKept, CountKept, MadeKept, PipeKept, ErrKept DEF errvars
<1>5. SchedInv' /\ ExitInv'
  BY <1>1, <1>2, ExitKept DEF SchedInv
<1>6. QueueInv'
  BY <1>1, <1>2 DEF QueueInv, InHand
<1>7. EventInv'
  BY <1>1, <1>2 DEF EventInv, Regular, HasFunction
<1> QED BY <1>3, <1>4, <1>5, <1>6, <1>7 DEF IInv

LEMMA BeginInv == ASSUME IInv, Begin PROVE IInv'
<1>1. /\ TypeOK /\ LockInv /\ CountInv /\ MadeInv /\ PipeInv /\ QueueInv /\ SchedInv
      /\ EventInv /\ ErrInv /\ ExitInv
  BY DEF IInv
<1>2. /\ mpc = "begin" /\ next' = next + 1
      /\ UNCHANGED <<valid, ref, active, jackset, lock, queue, counter, evtpipe, jpc, jevt,
                     made, exiting, failing, errpipe, timed, saved>>
      /\ \/ /\ mpc' = "free" /\ freed' = Freed(evt)
            /\ UNCHANGED <<n, evt, scheduled, got, unexpected>>
         \/ /\ FunctionFor(evt.kind) \notin ref[evt.client]
            /\ mpc' = "raised" /\ freed' = Freed(evt)
            /\ n' = 0 /\ scheduled' = 0 /\ evt' = NoEvent
            /\ unexpected' = TRUE /\ UNCHANGED got
         \/ /\ mpc' = "callback" /\ got' = Append(got, evt)
            /\ UNCHANGED <<n, evt, scheduled, freed, unexpected>>
  BY DEF Begin, Leave, clientvars, evtvars, jackvars, errvars, flushvars
<1>3. /\ next \in Nat \ {0} /\ n \in Nat /\ scheduled \in Nat
      /\ Len(queue) \in Nat /\ Len(saved) \in Nat /\ saved \in Seq(Event)
      /\ got \in Seq(Event)
  BY <1>1 DEF TypeOK
<1>4. /\ Len(queue) + next = Len(saved)
      /\ \A i \in 1 .. Len(queue) : queue[i] = saved[next + i]
      /\ evt = saved[next] /\ next + n <= scheduled
  <2>1. InHand = 1 /\ Len(queue) + next + InHand = Len(saved) + 1
    BY <1>1, <1>2 DEF QueueInv, InHand
  <2>2. \A i \in 1 .. Len(queue) : queue[i] = saved[next + InHand - 1 + i]
    BY <1>1, <1>2 DEF QueueInv
  <2>3. \A i \in 1 .. Len(queue) : next + InHand - 1 + i = next + i
    BY <2>1, <1>3
  <2>4. evt = saved[next] /\ next + n <= scheduled
    BY <1>1, <1>2 DEF QueueInv, SchedInv
  <2>5. Len(queue) + next + 1 = Len(saved) + 1
    BY <2>1
  <2>6. Len(queue) + next = Len(saved)
    BY <2>5, <1>3
  <2>7. \A i \in 1 .. Len(queue) : queue[i] = saved[next + i]
    BY <2>2, <2>3
  <2> QED BY <2>4, <2>6, <2>7
<1>5. evt \in Event
  <2>1. next \in 1 .. Len(saved)
    BY <1>3, <1>4
  <2> QED BY <2>1, <1>3, <1>4
<1>6. got' \in Seq(Event)
  <2>1. Append(got, evt) \in Seq(Event)
    BY <1>3, <1>5
  <2> QED BY <2>1, <1>2, <1>3
<1>7. TypeOK'
  <2>1. Freed(evt) \in [1 .. MaxEvents -> Nat] /\ next + 1 \in Nat \ {0}
    BY <1>1, <1>3, FreedType
  <2>2. freed \in [1 .. MaxEvents -> Nat] /\ unexpected \in BOOLEAN
    BY <1>1 DEF TypeOK
  <2>3. freed' \in [1 .. MaxEvents -> Nat] /\ mpc' \in {"free", "raised", "callback"}
    BY <2>1, <2>2, <1>2
  <2>4. unexpected' \in BOOLEAN /\ evt' \in Event \cup {NoEvent}
    BY <2>2, <1>2, <1>5
  <2>5. n' \in Nat /\ scheduled' \in Nat
    BY <1>2, <1>3
  <2> QED BY <2>1, <2>3, <2>4, <2>5, <1>1, <1>2, <1>6 DEF TypeOK
<1>8. LockInv' /\ CountInv' /\ MadeInv' /\ PipeInv' /\ ErrInv'
  BY <1>1, <1>2, LockKept, CountKept, MadeKept, PipeKept, ErrKept DEF errvars
<1>9. QueueInv'
  <2>1. InHand' = 0
    BY <1>2 DEF InHand
  <2>2. /\ next + 1 <= Len(saved) + 1
        /\ Len(queue) + (next + 1) + 0 = Len(saved) + 1
        /\ \A i \in 1 .. Len(queue) : queue[i] = saved[(next + 1) + 0 - 1 + i]
    BY <1>3, <1>4
  <2> QED BY <2>1, <2>2, <1>2 DEF QueueInv
<1>10. SchedInv'
  <2>1. (next + 1) - 1 + n <= scheduled
    BY <1>3, <1>4
  <2> QED BY <2>1, <1>2 DEF SchedInv
<1>11. EventInv'
  <2>1. Regular => FunctionFor(evt.kind) = evt.kind
    BY <1>5 DEF Regular, FunctionFor, Event
  <2>2. Regular => evt.kind \in ref[evt.client]
    BY <1>1, <1>2 DEF EventInv, HasFunction
  <2> QED BY <2>1, <2>2, <1>1, <1>2 DEF EventInv, Regular, HasFunction
<1>12. ExitInv'
  BY <1>1, <1>2 DEF ExitInv
<1> QED BY <1>7, <1>8, <1>9, <1>10, <1>11, <1>12 DEF IInv

LEMMA RemoveInv == ASSUME IInv, Remove PROVE IInv'
<1>1. /\ TypeOK /\ LockInv /\ CountInv /\ MadeInv /\ PipeInv /\ QueueInv /\ SchedInv
      /\ EventInv /\ ErrInv /\ ExitInv
  BY DEF IInv
<1>2. /\ mpc = "remove" /\ n > 0 /\ n' = n - 1
      /\ lock = Unlocked /\ queue # <<>> /\ queue' = Tail(queue) /\ counter' = counter - 1
      /\ evtpipe' = IF evtpipe > 0 THEN evtpipe - 1 ELSE evtpipe
      /\ UNCHANGED <<valid, ref, active, jackset, lock, jpc, jevt, made, exiting, failing,
                     errpipe, scheduled, timed, saved, got, unexpected>>
      /\ \/ /\ Head(queue).client \in valid
            /\ mpc' = "begin" /\ evt' = Head(queue) /\ UNCHANGED <<freed, next>>
         \/ /\ freed' = Freed(Head(queue)) /\ next' = next + 1 /\ UNCHANGED <<mpc, evt>>
  BY DEF Remove, Take, clientvars, jackvars, errvars
<1>3. /\ next \in Nat \ {0} /\ n \in Nat /\ scheduled \in Nat /\ counter \in Nat
      /\ evtpipe \in 0 .. EvtPipeCap /\ EvtPipeCap \in Nat \ {0}
      /\ queue \in Seq(Event) /\ saved \in Seq(Event)
      /\ Len(queue) \in Nat \ {0} /\ Len(saved) \in Nat
  BY <1>1, <1>2, EventAssumption DEF TypeOK
<1>4. /\ Tail(queue) \in Seq(Event) /\ Len(Tail(queue)) = Len(queue) - 1
      /\ \A i \in 1 .. Len(queue) - 1 : Tail(queue)[i] = queue[i + 1]
      /\ Head(queue) = queue[1] /\ Head(queue) \in Event
  BY <1>2, <1>3
<1>5. /\ Len(queue) + next = Len(saved) + 1
      /\ \A i \in 1 .. Len(queue) : queue[i] = saved[next - 1 + i]
      /\ next - 1 + n <= scheduled
  <2>1. InHand = 0 /\ Len(queue) + next + InHand = Len(saved) + 1
    BY <1>1, <1>2 DEF QueueInv, InHand
  <2>2. \A i \in 1 .. Len(queue) : queue[i] = saved[next + InHand - 1 + i]
    BY <1>1, <1>2 DEF QueueInv
  <2>3. \A i \in 1 .. Len(queue) : next + InHand - 1 + i = next - 1 + i
    BY <2>1, <1>3
  <2>4. next - 1 + n <= scheduled
    BY <1>1, <1>2 DEF SchedInv
  <2> QED BY <2>1, <2>2, <2>3, <2>4, <1>3
<1>6. Uncounted = 0 /\ counter = Len(queue)
  <2>1. \A c \in Clients : jpc[c] # "count"
    BY <1>1, <1>2, EventAssumption DEF LockInv
  <2>2. Uncounted = 0
    BY <2>1 DEF Uncounted
  <2> QED BY <2>2, <1>1, <1>3 DEF CountInv
<1>7. TypeOK'
  <2>1. counter - 1 \in Nat /\ n - 1 \in Nat /\ next + 1 \in Nat \ {0}
    BY <1>2, <1>3, <1>6
  <2>2. evtpipe' \in 0 .. EvtPipeCap
    BY <1>2, <1>3
  <2>3. queue' \in Seq(Event)
    BY <1>2, <1>4
  <2>4. /\ next' \in Nat \ {0} /\ evt' \in Event \cup {NoEvent}
        /\ freed' \in [1 .. MaxEvents -> Nat] /\ mpc' \in {"begin", "remove"}
    BY <1>1, <1>2, <1>4, <2>1, FreedType DEF TypeOK
  <2> QED BY <1>1, <1>2, <2>1, <2>2, <2>3, <2>4 DEF TypeOK
<1>8. LockInv' /\ MadeInv' /\ ErrInv'
  BY <1>1, <1>2, LockKept, MadeKept, ErrKept DEF errvars
<1>9. CountInv'
  <2>1. Uncounted' = 0
    BY <1>2, <1>6 DEF Uncounted
  <2>2. (counter - 1) + 0 = Len(queue) - 1
    BY <1>3, <1>6
  <2> QED BY <2>1, <2>2, <1>2, <1>4 DEF CountInv
<1>10. PipeInv'
  <2>1. Unwritten = 0 /\ Unwritten' = 0
    BY <1>2 DEF Unwritten
  <2>2. MaxEvents <= EvtPipeCap => evtpipe = Len(queue)
    BY <2>1, <1>1, <1>3 DEF PipeInv
  <2>3. MaxEvents <= EvtPipeCap => evtpipe' = evtpipe - 1 /\ evtpipe - 1 + 0 = Len(queue) - 1
    BY <2>2, <1>2, <1>3
  <2> QED BY <2>1, <2>3, <1>2, <1>4 DEF PipeInv
<1>11. QueueInv'
  <2>1. CASE mpc' = "begin" /\ evt' = Head(queue) /\ next' = next
    <3>1. InHand' = 1
      BY <2>1 DEF InHand
    <3>2. /\ next <= Len(saved)
          /\ (Len(queue) - 1) + next + 1 = Len(saved) + 1
      BY <1>3, <1>5
    <3>3. Head(queue) = saved[next]
      <4>1. 1 \in 1 .. Len(queue) /\ next - 1 + 1 = next
        BY <1>3
      <4> QED BY <4>1, <1>4, <1>5
    <3>4. ASSUME NEW i \in 1 .. Len(queue) - 1
          PROVE  Tail(queue)[i] = saved[next + 1 - 1 + i]
      <4>1. i + 1 \in 1 .. Len(queue) /\ next - 1 + (i + 1) = next + 1 - 1 + i
        BY <1>3
      <4> QED BY <4>1, <1>4, <1>5
    <3> QED BY <3>1, <3>2, <3>3, <3>4, <2>1, <1>2, <1>3, <1>4 DEF QueueInv
  <2>2. CASE next' = next + 1 /\ mpc' = mpc
    <3>1. InHand' = 0
      BY <2>2, <1>2 DEF InHand
    <3>2. /\ next + 1 <= Len(saved) + 1
          /\ (Len(queue) - 1) + (next + 1) + 0 = Len(saved) + 1
      BY <1>3, <1>5
    <3>3. ASSUME NEW i \in 1 .. Len(queue) - 1
          PROVE  Tail(queue)[i] = saved[(next + 1) + 0 - 1 + i]
      <4>1. i + 1 \in 1 .. Len(queue) /\ next - 1 + (i + 1) = (next + 1) + 0 - 1 + i
        BY <1>3
      <4> QED BY <4>1, <1>4, <1>5
    <3> QED BY <3>1, <3>2, <3>3, <2>2, <1>2, <1>4 DEF QueueInv
  <2> QED BY <2>1, <2>2, <1>2
<1>12. SchedInv'
  <2>1. next + (n - 1) <= scheduled /\ (next + 1) - 1 + (n - 1) <= scheduled
    BY <1>2, <1>3, <1>5
  <2> QED BY <2>1, <1>2 DEF SchedInv
<1>13. EventInv'
  <2>1. Regular => HasFunction(Head(queue))
    BY <1>1, <1>3, <1>4 DEF EventInv
  <2>2. ASSUME Regular, NEW i \in 1 .. Len(queue) - 1
        PROVE  HasFunction(Tail(queue)[i])
    <3>1. i + 1 \in 1 .. Len(queue)
      BY <1>3
    <3> QED BY <3>1, <2>2, <1>1, <1>4 DEF EventInv
  <2> QED BY <2>1, <2>2, <1>1, <1>2, <1>4 DEF EventInv, Regular, HasFunction
<1>14. ExitInv'
  BY <1>1, <1>2 DEF ExitInv
<1> QED BY <1>7, <1>8, <1>9, <1>10, <1>11, <1>12, <1>13, <1>14 DEF IInv

----------------------------------------------------------------------------
(* AtExit().                                                               *)

LEMMA CloseAllInv == ASSUME IInv, CloseAll PROVE IInv'
<1>1. /\ TypeOK /\ LockInv /\ CountInv /\ MadeInv /\ PipeInv /\ QueueInv /\ SchedInv
      /\ EventInv /\ ErrInv /\ ExitInv
  BY DEF IInv
<1>2. /\ \A c \in Clients : jpc[c] = "idle"
      /\ mpc = "exit" /\ mpc' = "freeall" /\ valid' = {} /\ active' = {}
      /\ jackset' = [c \in Clients |-> {}]
      /\ UNCHANGED <<ref, lock, queue, counter, evtpipe, jpc, jevt, made, exiting, failing,
                     errpipe, n, evt, scheduled, timed, saved, next, got, freed, unexpected>>
  BY DEF CloseAll, evtvars, jackvars, errvars, flushvars, hist
<1>3. TypeOK'
  BY <1>1, <1>2 DEF TypeOK
<1>4. LockInv' /\ CountInv' /\ MadeInv' /\ PipeInv' /\ ErrInv'
  BY <1>1, <1>2, LockKept, CountKept, MadeKept, PipeKept, ErrKept DEF errvars
<1>5. QueueInv' /\ SchedInv'
  BY <1>1, <1>2, QueueKept, SchedKept
<1>6. EventInv' /\ ExitInv'
  BY <1>1, <1>2 DEF EventInv, ExitInv, Regular, HasFunction
<1> QED BY <1>3, <1>4, <1>5, <1>6 DEF IInv

LEMMA FreeAllInv == ASSUME IInv, FreeAll PROVE IInv'
<1>1. /\ TypeOK /\ LockInv /\ CountInv /\ MadeInv /\ PipeInv /\ QueueInv /\ SchedInv
      /\ EventInv /\ ErrInv /\ ExitInv
  BY DEF IInv
<1>2. /\ mpc = "freeall" /\ mpc' = "end" /\ queue' = <<>> /\ counter' = 0
      /\ evtpipe' = IF evtpipe > Len(queue) THEN evtpipe - Len(queue) ELSE 0
      /\ freed' = [i \in 1 .. MaxEvents |->
                     freed[i] + Cardinality({j \in DOMAIN queue : queue[j].no = i})]
      /\ UNCHANGED <<valid, ref, active, jackset, lock, jpc, jevt, made, exiting, failing,
                     errpipe, n, evt, scheduled, timed, saved, next, got, unexpected>>
  BY DEF FreeAll, clientvars, jackvars, errvars, flushvars
<1>3. /\ queue \in Seq(Event) /\ Len(queue) \in Nat /\ DOMAIN queue = 1 .. Len(queue)
      /\ evtpipe \in 0 .. EvtPipeCap /\ EvtPipeCap \in Nat
      /\ freed \in [1 .. MaxEvents -> Nat]
  BY <1>1, EventAssumption DEF TypeOK
<1>4. \A c \in Clients : jpc[c] = "idle"
  BY <1>1, <1>2 DEF ExitInv
<1>5. lock = Unlocked
  BY <1>1, <1>4 DEF LockInv, TypeOK
<1>6. freed' \in [1 .. MaxEvents -> Nat]
  <2>1. ASSUME NEW i \in 1 .. MaxEvents
        PROVE  freed[i] + Cardinality({j \in DOMAIN queue : queue[j].no = i}) \in Nat
    <3>1. IsFiniteSet(1 .. Len(queue))
      BY <1>3, FS_Interval
    <3>2. Cardinality({j \in DOMAIN queue : queue[j].no = i}) \in Nat
      BY <3>1, <1>3, FS_Subset, FS_CardinalityType
    <3> QED BY <3>2, <1>3
  <2> QED BY <2>1, <1>2
<1>7. TypeOK'
  <2>1. evtpipe' \in 0 .. EvtPipeCap
    BY <1>2, <1>3
  <2>2. queue' \in Seq(Event)
    BY <1>2
  <2> QED BY <2>1, <2>2, <1>1, <1>2, <1>6 DEF TypeOK
<1>8. LockInv' /\ MadeInv' /\ ErrInv'
  BY <1>1, <1>2, LockKept, MadeKept, ErrKept DEF errvars
<1>9. Uncounted' = 0 /\ Len(queue') = 0 /\ CountInv'
  BY <1>2, <1>4 DEF Uncounted, CountInv
<1>10. PipeInv'
  <2>1. Unwritten = 0 /\ Unwritten' = 0
    BY <1>2, <1>5 DEF Unwritten
  <2>2. MaxEvents <= EvtPipeCap => evtpipe = Len(queue)
    BY <2>1, <1>1, <1>3 DEF PipeInv
  <2>3. MaxEvents <= EvtPipeCap => evtpipe' = 0
    BY <2>2, <1>2, <1>3
  <2> QED BY <2>1, <2>3, <1>9 DEF PipeInv
<1>11. QueueInv' /\ SchedInv'
  BY <1>1, <1>2 DEF QueueInv, SchedInv
<1>12. EventInv'
  BY <1>1, <1>2, <1>9 DEF EventInv, Regular, HasFunction
<1>13. ExitInv'
  BY <1>1, <1>2 DEF ExitInv
<1> QED BY <1>6, <1>7, <1>8, <1>9, <1>10, <1>11, <1>12, <1>13 DEF IInv

----------------------------------------------------------------------------
(* The invariant is inductive.                                             *)

LEMMA InitInv == Init => IInv
<1> SUFFICES ASSUME Init PROVE IInv
  OBVIOUS
<1>1. /\ valid = Clients /\ active = {}
      /\ ref = [c \in Clients |-> {}] /\ jackset = [c \in Clients |-> {}]
      /\ lock = Unlocked /\ queue = <<>> /\ counter = 0 /\ evtpipe = 0
      /\ jpc = [c \in Clients |-> "idle"] /\ jevt = [c \in Clients |-> NoEvent] /\ made = 0
      /\ mpc = "script" /\ n = 0 /\ evt = NoEvent /\ scheduled = 0 /\ timed = FALSE
      /\ exiting = FALSE /\ failing = FALSE /\ errpipe = 0
      /\ saved = <<>> /\ next = 1 /\ got = <<>>
      /\ freed = [i \in 1 .. MaxEvents |-> 0] /\ unexpected = FALSE
  BY DEF Init
<1>2. Len(queue) = 0 /\ Len(saved) = 0
  BY <1>1
<1>3. TypeOK
  <2>1. queue \in Seq(Event) /\ saved \in Seq(Event) /\ got \in Seq(Event)
    BY <1>1
  <2>2. 0 \in 0 .. EvtPipeCap /\ 0 \in 0 .. MaxEvents
    BY EventAssumption
  <2>3. freed \in [1 .. MaxEvents -> Nat] /\ evtpipe \in 0 .. EvtPipeCap /\ made \in 0 .. MaxEvents
    BY <2>2, <1>1
  <2>4. /\ jpc \in [Clients -> {"idle", "insert", "count", "wake"}]
        /\ jevt \in [Clients -> Event \cup {NoEvent}]
        /\ ref \in [Clients -> SUBSET Kinds] /\ jackset \in [Clients -> SUBSET Kinds]
    BY <1>1
  <2>5. /\ counter \in Nat /\ n \in Nat /\ scheduled \in Nat /\ next \in Nat \ {0}
        /\ errpipe \in 0 .. 1 /\ evt \in Event \cup {NoEvent}
        /\ valid \subseteq Clients /\ active \subseteq Clients
    BY <1>1
  <2> QED BY <2>1, <2>3, <2>4, <2>5, <1>1 DEF TypeOK
<1>4. LockInv /\ CountInv /\ PipeInv
  BY <1>1, <1>2, EventAssumption DEF LockInv, CountInv, Uncounted, PipeInv, Unwritten
<1>5. MadeInv
  <2>1. InsertingClients = {}
    BY <1>1 DEF InsertingClients
  <2> QED BY <2>1, <1>1, <1>2, FS_EmptySet DEF MadeInv
<1>6. QueueInv /\ SchedInv /\ EventInv /\ ErrInv /\ ExitInv
  BY <1>1, <1>2 DEF QueueInv, InHand, SchedInv, EventInv, ErrInv, ExitInv
<1> QED BY <1>3, <1>4, <1>5, <1>6 DEF IInv

LEMMA StutterInv == ASSUME IInv, UNCHANGED vars PROVE IInv'
<1>1. /\ TypeOK /\ LockInv /\ CountInv /\ MadeInv /\ PipeInv /\ QueueInv /\ SchedInv
      /\ EventInv /\ ErrInv /\ ExitInv
  BY DEF IInv
<1>2. UNCHANGED <<valid, ref, active, jackset, lock, queue, counter, evtpipe, jpc, jevt,
                  made, mpc, exiting, failing, errpipe, n, evt, scheduled, timed, saved, next,
                  got, freed, unexpected>>
  BY DEF vars, clientvars, evtvars, jackvars, errvars, flushvars, hist
<1>3. TypeOK'
  BY <1>1, <1>2 DEF TypeOK
<1>4. LockInv' /\ CountInv' /\ MadeInv' /\ PipeInv' /\ ErrInv'
  BY <1>1, <1>2, LockKept, CountKept, MadeKept, PipeKept, ErrKept DEF errvars
<1>5. QueueInv' /\ SchedInv' /\ EventInv' /\ ExitInv'
  BY <1>1, <1>2, QueueKept, SchedKept, EventKept, ExitKept
<1> QED BY <1>3, <1>4, <1>5 DEF IInv

LEMMA NextInv == ASSUME IInv, [Next]_vars PROVE IInv'
<1>1. ASSUME NEW c \in Clients, JackStep(c) PROVE IInv'
  BY <1>1, InsertInv, CountActionInv, WakeInv DEF JackStep
<1>2. ASSUME NEW c \in Clients, NEW k \in Kinds, NEW said \in BOOLEAN, Notify(c, k, said)
      PROVE  IInv'
  BY <1>2, NotifyInv
<1>3. CASE Fail \/ FailWake
  BY <1>3, FailInv
<1>4. CASE ScriptStep
  <2>1. ASSUME NEW c \in Clients, NEW k \in Kinds, Register(c, k) PROVE IInv'
    BY <2>1, RegisterInv
  <2>2. ASSUME NEW c \in Clients, Activate(c) \/ Deactivate(c) \/ Close(c) PROVE IInv'
    BY <2>2, ActiveInv, CloseInv
  <2>3. CASE ScriptEnds
    BY <2>3, GotoInv DEF ScriptEnds, InScript
  <2> QED BY <1>4, <2>1, <2>2, <2>3 DEF ScriptStep
<1>5. CASE CallSleep \/ CallbackReturns \/ CallbackFails
  BY <1>5, GotoInv, CallSleepInv, CallbackFailsInv DEF CallbackReturns
<1>6. CASE SleepStep
  <2>1. CASE CheckError
    BY <2>1, GotoInv DEF CheckError
  <2>2. CASE Select
    BY <2>2, GotoInv DEF Select
  <2>3. CASE ErrReady \/ Loop \/ Raised
    BY <2>3, GotoInv DEF ErrReady, Loop, Raised
  <2>4. CASE FlushBegin \/ FlushEnd \/ Remove \/ Begin \/ Free
    BY <2>4, FlushBeginInv, FlushEndInv, RemoveInv, BeginInv, FreeInv
  <2>5. CASE CloseAll \/ FreeAll
    BY <2>5, CloseAllInv, FreeAllInv
  <2> QED BY <1>6, <2>1, <2>2, <2>3, <2>4, <2>5 DEF SleepStep
<1>7. CASE Ended \/ UNCHANGED vars
  BY <1>7, StutterInv DEF Ended
<1> QED BY <1>1, <1>2, <1>3, <1>4, <1>5, <1>6, <1>7 DEF Next, Says

(* In every state the program reaches, the lock, the queue, its counter,   *)
(* its pipe, the flush under way and the status of the exit are consistent *)
(* (evt.c, callback_flush(), luajack_errorv_()).                           *)
THEOREM Inductive == Spec => []IInv
  BY InitInv, NextInv, PTL DEF Spec

(* Every variable keeps its range: the unsigned counter of evt.c never     *)
(* goes below zero.                                                        *)
THEOREM TypeCorrect == Spec => []TypeOK
<1>1. IInv => TypeOK
  BY DEF IInv
<1> QED BY <1>1, Inductive, PTL

(* As long as the pipe can hold a byte for every event, whoever holds the  *)
(* lock finds as many bytes in it as events in the queue, and the counter  *)
(* right (evt_insert, remove_nolock).                                      *)
THEOREM PipeMatchesQueue ==
  ASSUME MaxEvents <= EvtPipeCap PROVE Spec => []PipeCountsQueue
<1>1. ASSUME IInv PROVE PipeCountsQueue
  <2>1. TypeOK /\ LockInv /\ CountInv /\ PipeInv
    BY <1>1 DEF IInv
  <2>2. counter \in Nat /\ evtpipe \in Nat
    BY <2>1, EventAssumption DEF TypeOK
  <2>3. lock = Unlocked => Uncounted = 0 /\ Unwritten = 0
    BY <2>1, EventAssumption DEF LockInv, Uncounted, Unwritten
  <2> QED BY <2>1, <2>2, <2>3 DEF CountInv, PipeInv, PipeCountsQueue
<1> QED BY <1>1, Inductive, PTL

(* A flush dispatches only events inserted before it began, whatever its   *)
(* callbacks cause (comment in callback_flush).                            *)
THEOREM FlushTerminates == Spec => []OnlyScheduled
<1>1. ASSUME IInv PROVE OnlyScheduled
  <2>1. SchedInv /\ next \in Nat /\ n \in Nat /\ scheduled \in Nat
    BY <1>1 DEF IInv, TypeOK
  <2> QED BY <2>1 DEF SchedInv, OnlyScheduled
<1> QED BY <1>1, Inductive, PTL

(* A script that registers its callbacks before it activates the client is *)
(* never thrown an UNEXPECTED_ERROR by callback_flush(), if it has no      *)
(* session callback: that is looked up under another name.                 *)
THEOREM AlwaysACallback ==
  ASSUME Regular PROVE Spec => []NeverUnexpected
<1>1. ASSUME IInv PROVE NeverUnexpected
  BY <1>1 DEF IInv, EventInv, NeverUnexpected
<1> QED BY <1>1, Inductive, PTL

----------------------------------------------------------------------------
(* The queue implements a channel of events.                               *)

LEMMA ChannelStep == ASSUME IInv, [Next]_vars PROVE [Channel!Next]_(Channel!chan)
<1>0. TypeOK /\ QueueInv /\ EventInv
  BY DEF IInv
<1>1. ASSUME NEW c \in Clients, Insert(c) PROVE Channel!Send
  <2>1. /\ jevt[c] \in Event /\ saved \in Seq(Event)
        /\ saved' = Append(saved, jevt[c]) /\ UNCHANGED <<next, got>>
    BY <1>0, <1>1 DEF TypeOK, EventInv, Insert
  <2>2. Len(saved') = Len(saved) + 1 /\ saved'[Len(saved')] = jevt[c]
    BY <2>1
  <2>3. SubSeq(saved', 1, Len(saved)) = saved
    BY <2>1
  <2> QED BY <2>1, <2>2, <2>3 DEF Channel!Send
<1>2. ASSUME Remove PROVE Channel!Skip \/ UNCHANGED <<saved, next, got>>
  <2>1. queue # <<>> /\ mpc = "remove" /\ UNCHANGED <<saved, got>>
        /\ (next' = next + 1 \/ next' = next)
    BY <1>2 DEF Remove, Take
  <2>2. /\ Len(queue) + next + InHand = Len(saved) + 1 /\ InHand = 0
        /\ queue \in Seq(Event) /\ saved \in Seq(Event) /\ next \in Nat
    BY <1>0, <2>1 DEF QueueInv, InHand, TypeOK
  <2>3. Len(queue) \in Nat \ {0} /\ Len(saved) \in Nat
    BY <2>1, <2>2
  <2>4. next <= Len(saved)
    BY <2>2, <2>3
  <2> QED BY <2>1, <2>4 DEF Channel!Skip, Channel!Unread
<1>3. ASSUME Begin PROVE Channel!Skip \/ Channel!Receive
  <2>1. next <= Len(saved) /\ evt = saved[next]
    BY <1>0, <1>3 DEF QueueInv, Begin
  <2>2. next' = next + 1 /\ saved' = saved /\ (got' = got \/ got' = Append(got, evt))
    BY <1>3 DEF Begin
  <2> QED BY <2>1, <2>2 DEF Channel!Skip, Channel!Receive, Channel!Unread
<1>4. ASSUME \/ UNCHANGED hist
             \/ UNCHANGED <<saved, next, got>>
      PROVE  UNCHANGED Channel!chan
  BY <1>4 DEF hist, Channel!chan
<1>5. ASSUME NEW c \in Clients, JackStep(c) PROVE [Channel!Next]_(Channel!chan)
  BY <1>5, <1>1, <1>4 DEF JackStep, Count, Wake, Channel!Next
<1>6. ASSUME NEW c \in Clients, NEW k \in Kinds, NEW said \in BOOLEAN, Notify(c, k, said)
      PROVE  UNCHANGED Channel!chan
  BY <1>6, <1>4 DEF Notify
<1>7. CASE Fail \/ FailWake
  BY <1>7, <1>4 DEF Fail, FailWake
<1>8. CASE ScriptStep
  BY <1>8, <1>4 DEF ScriptStep, Register, Activate, Deactivate, Close, ScriptEnds, Goto
<1>9. CASE CallSleep \/ CallbackReturns \/ CallbackFails
  BY <1>9, <1>4 DEF CallSleep, CallbackReturns, CallbackFails, Goto
<1>10. CASE SleepStep
  <2>1. CASE CheckError \/ Select \/ ErrReady \/ Loop \/ Raised
    BY <2>1, <1>4 DEF CheckError, Select, ErrReady, Loop, Raised, Goto
  <2>2. CASE FlushBegin \/ FlushEnd \/ Free \/ CloseAll \/ FreeAll
    BY <2>2, <1>4 DEF FlushBegin, FlushEnd, Free, CloseAll, FreeAll, Goto
  <2>3. CASE Remove \/ Begin
    BY <2>3, <1>2, <1>3, <1>4 DEF Channel!Next
  <2> QED BY <1>10, <2>1, <2>2, <2>3 DEF SleepStep
<1>11. CASE Ended \/ UNCHANGED vars
  BY <1>11, <1>4 DEF Ended, vars
<1> QED BY <1>5, <1>6, <1>7, <1>8, <1>9, <1>10, <1>11 DEF Next, Says

(* The callbacks get the events in the order in which JACK's threads saved *)
(* them, each at most once.                                                *)
THEOREM QueueImplementsChannel == Spec => FifoDispatch
<1>1. Init => Channel!Init
  BY DEF Init, Channel!Init
<1>2. IInv /\ [Next]_vars => [Channel!Next]_(Channel!chan)
  BY ChannelStep
<1> QED BY <1>1, <1>2, Inductive, PTL DEF Spec, FifoDispatch, Channel!Spec

----------------------------------------------------------------------------
(* Nothing leaks: every event is freed, and once.                          *)

LEMMA SavedFacts ==
  ASSUME TypeOK, NumberInv, NEW j \in 1 .. Len(saved)
  PROVE  /\ saved[j] \in Event /\ saved[j].no \in 1 .. MaxEvents /\ saved[j] # NoEvent
         /\ \A k \in 1 .. Len(saved) : saved[k].no = saved[j].no \/ saved[k] = saved[j] => k = j
<1>1. saved \in Seq(Event)
  BY DEF TypeOK
<1>2. saved[j] \in Event
  BY <1>1
<1> QED BY <1>2, NoEventOutside DEF Event, NumberInv

LEMMA LeakKept ==
  ASSUME LeakInv, UNCHANGED <<jpc, jevt, made, saved, evt, next, freed>>,
         ~ exiting' => ~ exiting,
         \/ mpc' = mpc
         \/ evt = NoEvent /\ mpc # "end" /\ mpc' \notin {"begin", "callback", "free", "end"}
         \/ mpc = "callback" /\ mpc' \in {"free", "exit"}
         \/ mpc = "exit" /\ mpc' = "freeall"
  PROVE  LeakInv'
<1>1. NumberInv'
  BY DEF LeakInv, NumberInv, InsertingClients
<1>2. EvtInv'
  BY DEF LeakInv, EvtInv
<1>3. FreedInv'
  BY DEF LeakInv, FreedInv
<1> QED BY <1>1, <1>2, <1>3 DEF LeakInv

LEMMA NotifyLeak ==
  ASSUME IInv, LeakInv, NEW c \in Clients, NEW k \in Kinds, NEW said \in BOOLEAN,
         Notify(c, k, said)
  PROVE  LeakInv'
<1>0. TypeOK /\ NumberInv /\ EvtInv /\ FreedInv
  BY DEF IInv, LeakInv
<1>1. /\ jpc[c] = "idle" /\ jpc' = [jpc EXCEPT ![c] = "insert"]
      /\ jevt' = [jevt EXCEPT ![c] = NewEvent(c, k, said)]
      /\ made' = made + 1
      /\ UNCHANGED <<saved, evt, next, freed, exiting, mpc>>
  BY DEF Notify, errvars, flushvars, hist
<1>2. EvtInv' /\ FreedInv'
  BY <1>0, <1>1 DEF EvtInv, FreedInv
<1>3. /\ made \in Nat /\ jpc \in [Clients -> {"idle", "insert", "count", "wake"}]
      /\ jevt \in [Clients -> Event \cup {NoEvent}]
      /\ \A i \in 1 .. Len(saved) : saved[i].no \in Nat
  BY <1>0, SavedFacts, EventAssumption DEF TypeOK
<1>4. jevt'[c].no = made + 1 /\ \A d \in Clients : d # c => jevt'[d] = jevt[d]
  BY <1>1, <1>3 DEF NewEvent
<1>5. InsertingClients' = InsertingClients \cup {c}
  BY <1>1, <1>3 DEF InsertingClients
<1>6. \A d \in InsertingClients : d # c /\ d \in Clients /\ jevt[d].no \in Nat
  <2> SUFFICES ASSUME NEW d \in InsertingClients
               PROVE  d # c /\ d \in Clients /\ jevt[d].no \in Nat
    OBVIOUS
  <2>1. d # c /\ d \in Clients /\ jevt[d] \in Event
    BY <1>1 DEF InsertingClients, IInv, EventInv
  <2> QED BY <2>1, EventAssumption DEF Event
<1>7. \A i \in 1 .. Len(saved) : saved[i].no <= made + 1 /\ saved[i].no # made + 1
  BY <1>0, <1>3 DEF NumberInv
<1>8. \A d \in InsertingClients : jevt[d].no <= made + 1 /\ jevt[d].no # made + 1
  BY <1>0, <1>3, <1>6 DEF NumberInv
<1>9. ASSUME NEW d \in InsertingClients'
      PROVE  /\ jevt'[d].no <= made + 1
             /\ \A i \in 1 .. Len(saved) : jevt'[d].no # saved[i].no
             /\ \A e \in InsertingClients' : jevt'[d].no = jevt'[e].no => d = e
  <2>1. CASE d = c
    BY <1>3, <1>4, <1>5, <1>6, <1>7, <1>8, <2>1
  <2>2. CASE d # c
    <3>1. d \in InsertingClients /\ jevt'[d] = jevt[d]
      BY <1>4, <1>5, <1>6, <1>9, <2>2
    <3> QED BY <1>0, <1>4, <1>5, <1>6, <1>8, <3>1 DEF NumberInv
  <2> QED BY <2>1, <2>2
<1>10. NumberInv'
  BY <1>0, <1>1, <1>7, <1>9 DEF NumberInv
<1> QED BY <1>2, <1>10 DEF LeakInv

LEMMA InsertLeak == ASSUME IInv, LeakInv, NEW c \in Clients, Insert(c) PROVE LeakInv'
<1>0. /\ TypeOK /\ QueueInv /\ EventInv /\ ExitInv
      /\ NumberInv /\ EvtInv /\ FreedInv
  BY DEF IInv, LeakInv
<1>1. /\ jpc[c] = "insert" /\ saved' = Append(saved, jevt[c])
      /\ jpc' = [jpc EXCEPT ![c] = "count"]
      /\ UNCHANGED <<jevt, made, evt, next, freed, exiting, mpc>>
  BY DEF Insert, errvars, flushvars
<1>2. /\ jevt[c] \in Event /\ saved \in Seq(Event) /\ Len(saved) \in Nat
      /\ next \in Nat \ {0} /\ next <= Len(saved) + 1 /\ mpc # "end"
      /\ jpc \in [Clients -> {"idle", "insert", "count", "wake"}]
  BY <1>0, <1>1 DEF EventInv, ExitInv, QueueInv, TypeOK
<1>3. /\ Len(saved') = Len(saved) + 1 /\ saved'[Len(saved) + 1] = jevt[c]
      /\ \A i \in 1 .. Len(saved) : saved'[i] = saved[i]
  BY <1>1, <1>2
<1>4. c \in InsertingClients /\ InsertingClients' = InsertingClients \ {c}
  BY <1>1, <1>2 DEF InsertingClients
<1>5. jevt[c].no <= made /\ \A i \in 1 .. Len(saved) : jevt[c].no # saved[i].no
  BY <1>0, <1>4 DEF NumberInv
<1>6. \A d \in InsertingClients' : d \in InsertingClients /\ jevt[d].no # jevt[c].no
  BY <1>0, <1>4 DEF NumberInv
<1>7. \A i \in 1 .. Len(saved) + 1 : i \in 1 .. Len(saved) \/ i = Len(saved) + 1
  BY <1>2
<1>8. NumberInv'
  <2>1. \A i \in 1 .. Len(saved') : saved'[i].no <= made'
    BY <1>0, <1>1, <1>3, <1>5, <1>7 DEF NumberInv
  <2>2. \A i, j \in 1 .. Len(saved') : saved'[i].no = saved'[j].no => i = j
    BY <1>0, <1>3, <1>5, <1>7 DEF NumberInv
  <2>3. \A d \in InsertingClients' :
          /\ jevt'[d].no <= made'
          /\ \A i \in 1 .. Len(saved') : jevt'[d].no # saved'[i].no
          /\ \A e \in InsertingClients' : jevt'[d].no = jevt'[e].no => d = e
    BY <1>0, <1>1, <1>3, <1>6, <1>7 DEF NumberInv
  <2> QED BY <2>1, <2>2, <2>3 DEF NumberInv
<1>9. EvtInv'
  <2>1. evt # NoEvent /\ mpc # "begin" => next - 1 \in 1 .. Len(saved)
    BY <1>0, <1>2 DEF EvtInv
  <2> QED BY <1>0, <1>1, <1>3, <2>1 DEF EvtInv
<1>10. FreedInv'
  <2> SUFFICES ASSUME ~ exiting PROVE FreedInv'
    BY <1>1 DEF FreedInv
  <2>1. freed[jevt[c].no] = 0
    <3>1. jevt[c].no \in 1 .. MaxEvents
      BY <1>2 DEF Event
    <3> QED BY <1>0, <1>5, <3>1 DEF FreedInv
  <2>2. ~ (Len(saved) + 1 < next)
    BY <1>2
  <2>3. \A j \in 1 .. Len(saved') :
          freed'[saved'[j].no] = 1 <=> j < next' /\ saved'[j] # evt'
    BY <1>0, <1>1, <1>2, <1>3, <1>7, <2>1, <2>2 DEF FreedInv
  <2>4. ASSUME NEW i \in 1 .. MaxEvents, NEW j \in 1 .. Len(saved), saved[j].no = i
        PROVE  \E l \in 1 .. Len(saved') : saved'[l].no = i
    <3>1. j \in 1 .. Len(saved') /\ saved'[j].no = i
      BY <1>2, <1>3, <2>4
    <3> QED BY <3>1
  <2> QED BY <1>0, <1>1, <1>2, <2>3, <2>4 DEF FreedInv
<1> QED BY <1>8, <1>9, <1>10 DEF LeakInv

LEMMA CountWakeLeak ==
  ASSUME IInv, LeakInv, NEW c \in Clients, Count(c) \/ Wake(c)
  PROVE  LeakInv'
<1>0. TypeOK /\ NumberInv /\ EvtInv /\ FreedInv
  BY DEF IInv, LeakInv
<1>1. /\ jpc[c] \in {"count", "wake"}
      /\ jpc' = [jpc EXCEPT ![c] = "wake"] \/ jpc' = [jpc EXCEPT ![c] = "idle"]
      /\ jevt' = jevt \/ jevt' = [jevt EXCEPT ![c] = NoEvent]
      /\ UNCHANGED <<saved, made, evt, next, freed, exiting, mpc>>
  BY DEF Count, Wake, errvars, flushvars, hist
<1>2. /\ jpc \in [Clients -> {"idle", "insert", "count", "wake"}]
      /\ jevt \in [Clients -> Event \cup {NoEvent}]
  BY <1>0 DEF TypeOK
<1>3. InsertingClients' = InsertingClients
  BY <1>1, <1>2 DEF InsertingClients
<1>4. \A d \in InsertingClients : jevt'[d] = jevt[d]
  BY <1>1, <1>2 DEF InsertingClients
<1>5. NumberInv'
  BY <1>0, <1>1, <1>3, <1>4 DEF NumberInv
<1>6. EvtInv' /\ FreedInv'
  BY <1>0, <1>1 DEF EvtInv, FreedInv
<1> QED BY <1>5, <1>6 DEF LeakInv

(* The event in hand is freed, or handed on without being freed.           *)
LEMMA FreeOne ==
  ASSUME TypeOK, NumberInv, FreedInv, mpc # "end", mpc' # "end", NEW k \in 1 .. Len(saved),
         ~ (k < next /\ saved[k] # evt), freed' = Freed(saved[k]), UNCHANGED <<saved, exiting>>,
         \A j \in 1 .. Len(saved) :
           j < next' /\ saved[j] # evt' <=> j = k \/ (j < next /\ saved[j] # evt)
  PROVE  FreedInv'
<1> SUFFICES ASSUME ~ exiting PROVE FreedInv'
  BY DEF FreedInv
<1>1. /\ freed \in [1 .. MaxEvents -> Nat] /\ saved[k].no \in 1 .. MaxEvents
  BY SavedFacts DEF TypeOK
<1>2. freed[saved[k].no] = 0
  BY <1>1 DEF FreedInv
<1>3. /\ freed'[saved[k].no] = 1
      /\ \A i \in 1 .. MaxEvents : i # saved[k].no => freed'[i] = freed[i]
  BY <1>1, <1>2 DEF Freed
<1>4. \A i \in 1 .. MaxEvents :
         \/ freed'[i] = 0
         \/ freed'[i] = 1 /\ \E j \in 1 .. Len(saved) : saved[j].no = i
  BY <1>3 DEF FreedInv
<1>5. ASSUME NEW j \in 1 .. Len(saved)
      PROVE  freed'[saved[j].no] = 1 <=> j < next' /\ saved[j] # evt'
  <2>1. CASE j = k
    BY <1>3, <2>1
  <2>2. CASE j # k
    <3>1. saved[j].no # saved[k].no /\ saved[j].no \in 1 .. MaxEvents
      BY <2>2, SavedFacts
    <3> QED BY <1>3, <2>2, <3>1 DEF FreedInv
  <2> QED BY <2>1, <2>2
<1> QED BY <1>4, <1>5 DEF FreedInv

LEMMA FreedKept ==
  ASSUME FreedInv, mpc # "end", mpc' # "end", UNCHANGED <<saved, freed, exiting>>,
         \A j \in 1 .. Len(saved) :
           j < next' /\ saved[j] # evt' <=> j < next /\ saved[j] # evt
  PROVE  FreedInv'
  BY DEF FreedInv

LEMMA NumberKept ==
  ASSUME NumberInv, UNCHANGED <<saved, made, jpc, jevt>> PROVE NumberInv'
  BY DEF NumberInv, InsertingClients

LEMMA InHandFacts ==
  ASSUME IInv, LeakInv, mpc \in {"callback", "free"}
  PROVE  next - 1 \in 1 .. Len(saved) /\ evt = saved[next - 1]
<1>1. TypeOK /\ QueueInv /\ EvtInv
  BY DEF IInv, LeakInv
<1>2. evt # NoEvent /\ next > 1 /\ evt = saved[next - 1]
  BY <1>1, NoEventOutside DEF EvtInv
<1>3. next \in Nat /\ Len(saved) \in Nat /\ next <= Len(saved) + 1
  BY <1>1 DEF TypeOK, QueueInv
<1> QED BY <1>2, <1>3

LEMMA FreeLeak == ASSUME IInv, LeakInv, Free \/ CallbackFails PROVE LeakInv'
<1>0. TypeOK /\ QueueInv /\ NumberInv /\ EvtInv /\ FreedInv
  BY DEF IInv, LeakInv
<1>1. /\ mpc \in {"free", "callback"} /\ mpc' \in {"remove", "raised"}
      /\ freed' = Freed(evt) /\ evt' = NoEvent
      /\ UNCHANGED <<jpc, jevt, made, saved, next, exiting>>
  BY DEF Free, CallbackFails, Leave, jackvars, errvars
<1>2. next - 1 \in 1 .. Len(saved) /\ evt = saved[next - 1]
  BY <1>1, InHandFacts
<1>3. next \in Nat /\ Len(saved) \in Nat
  BY <1>0 DEF TypeOK
<1>4. ASSUME NEW j \in 1 .. Len(saved)
      PROVE  j < next' /\ saved[j] # evt' <=> j = next - 1 \/ (j < next /\ saved[j] # evt)
  <2>1. saved[j] # NoEvent /\ (saved[j] = saved[next - 1] => j = next - 1)
    BY <1>0, <1>2, SavedFacts
  <2> QED BY <1>1, <1>2, <1>3, <2>1
<1>5. FreedInv'
  BY <1>0, <1>1, <1>2, <1>4, FreeOne
<1>6. NumberInv' /\ EvtInv'
  BY <1>0, <1>1, NumberKept DEF EvtInv
<1> QED BY <1>5, <1>6 DEF LeakInv

LEMMA BeginLeak == ASSUME IInv, LeakInv, Begin PROVE LeakInv'
<1>0. TypeOK /\ QueueInv /\ NumberInv /\ EvtInv /\ FreedInv
  BY DEF IInv, LeakInv
<1>1. /\ mpc = "begin" /\ next' = next + 1
      /\ UNCHANGED <<jpc, jevt, made, saved, exiting>>
  BY DEF Begin, jackvars, errvars
<1>2. next \in 1 .. Len(saved) /\ evt = saved[next] /\ Len(saved) \in Nat /\ evt \in Event
  <2>1. next \in Nat \ {0} /\ Len(saved) \in Nat /\ next <= Len(saved) /\ evt = saved[next]
    BY <1>0, <1>1 DEF QueueInv, TypeOK
  <2> QED BY <1>0, <2>1, SavedFacts
<1>3. NumberInv'
  BY <1>0, <1>1, NumberKept
<1>4. CASE evt' = evt /\ mpc' \in {"free", "callback"}
  <2>1. EvtInv'
    BY <1>1, <1>2, <1>4 DEF EvtInv
  <2>2. FreedInv'
    <3> SUFFICES ASSUME ~ exiting PROVE FreedInv'
      BY <1>1 DEF FreedInv
    <3>1. freed' = freed
      BY <1>1, <1>4 DEF Begin, Leave
    <3>2. ASSUME NEW j \in 1 .. Len(saved)
          PROVE  j < next' /\ saved[j] # evt' <=> j < next /\ saved[j] # evt
      BY <1>1, <1>2, <1>4
    <3> QED BY <1>0, <1>1, <1>4, <3>1, <3>2, FreedKept
  <2> QED BY <1>3, <2>1, <2>2 DEF LeakInv
<1>5. CASE evt' = NoEvent /\ mpc' = "raised" /\ freed' = Freed(evt)
  <2>1. EvtInv'
    BY <1>5 DEF EvtInv
  <2>2. ASSUME NEW j \in 1 .. Len(saved)
        PROVE  j < next' /\ saved[j] # evt' <=> j = next \/ (j < next /\ saved[j] # evt)
    <3>1. saved[j] # NoEvent /\ (saved[j] = saved[next] => j = next)
      BY <1>0, <1>2, SavedFacts
    <3> QED BY <1>1, <1>2, <1>5, <3>1
  <2>3. FreedInv'
    BY <1>0, <1>1, <1>2, <1>5, <2>2, FreeOne
  <2> QED BY <1>3, <2>1, <2>3 DEF LeakInv
<1> QED BY <1>4, <1>5 DEF Begin, Leave, flushvars

LEMMA RemoveLeak == ASSUME IInv, LeakInv, Remove PROVE LeakInv'
<1>0. TypeOK /\ QueueInv /\ NumberInv /\ EvtInv /\ FreedInv
  BY DEF IInv, LeakInv
<1>1. /\ mpc = "remove" /\ queue # <<>> /\ UNCHANGED <<jpc, jevt, made, saved, exiting>>
      /\ \/ mpc' = "begin" /\ evt' = Head(queue) /\ UNCHANGED <<freed, next>>
         \/ freed' = Freed(Head(queue)) /\ next' = next + 1 /\ UNCHANGED <<mpc, evt>>
  BY DEF Remove, Take, jackvars, errvars
<1>2. evt = NoEvent
  BY <1>0, <1>1 DEF EvtInv
<1>3. Head(queue) = saved[next] /\ next \in 1 .. Len(saved) /\ Head(queue) \in Event
  <2>1. /\ queue \in Seq(Event) /\ Len(queue) \in Nat \ {0} /\ next \in Nat \ {0}
        /\ Len(saved) \in Nat
    BY <1>0, <1>1 DEF TypeOK
  <2>2. InHand = 0
    BY <1>1 DEF InHand
  <2>3. /\ Len(queue) + next + 0 = Len(saved) + 1
        /\ \A i \in 1 .. Len(queue) : queue[i] = saved[next + 0 - 1 + i]
    BY <1>0, <1>1, <2>2 DEF QueueInv
  <2>4. 1 \in 1 .. Len(queue) /\ next + 0 - 1 + 1 = next
    BY <2>1
  <2>5. queue[1] = saved[next] /\ next \in 1 .. Len(saved)
    BY <2>1, <2>3, <2>4
  <2> QED BY <2>1, <2>5
<1>4. NumberInv'
  BY <1>0, <1>1, NumberKept
<1>5. \A j \in 1 .. Len(saved) : saved[j] # NoEvent /\ (saved[j] = saved[next] => j = next)
  BY <1>0, <1>3, SavedFacts
<1>6. CASE mpc' = "begin" /\ evt' = Head(queue) /\ UNCHANGED <<freed, next>>
  <2>1. EvtInv'
    BY <1>3, <1>6 DEF EvtInv
  <2>2. \A j \in 1 .. Len(saved) :
          j < next' /\ saved[j] # evt' <=> j < next /\ saved[j] # evt
    BY <1>2, <1>3, <1>5, <1>6
  <2>3. FreedInv'
    BY <1>0, <1>1, <1>6, <2>2, FreedKept
  <2> QED BY <1>4, <2>1, <2>3 DEF LeakInv
<1>7. CASE freed' = Freed(Head(queue)) /\ next' = next + 1 /\ UNCHANGED <<mpc, evt>>
  <2>1. EvtInv'
    BY <1>1, <1>2, <1>7 DEF EvtInv
  <2>2. \A j \in 1 .. Len(saved) :
          j < next' /\ saved[j] # evt' <=> j = next \/ (j < next /\ saved[j] # evt)
    BY <1>2, <1>3, <1>5, <1>7
  <2>3. FreedInv'
    BY <1>0, <1>1, <1>3, <1>7, <2>2, FreeOne
  <2> QED BY <1>4, <2>1, <2>3 DEF LeakInv
<1> QED BY <1>1, <1>6, <1>7

(* evt_free_all() frees the events still in the queue: each occurs there   *)
(* once, and the others not at all.                                        *)
LEMMA FreeAllLeak == ASSUME IInv, LeakInv, FreeAll PROVE LeakInv'
<1>0. TypeOK /\ QueueInv /\ NumberInv /\ EvtInv /\ FreedInv
  BY DEF IInv, LeakInv
<1> DEFINE InQueue(i) == {j \in DOMAIN queue : queue[j].no = i}
<1>1. /\ mpc = "freeall" /\ mpc' = "end"
      /\ freed' = [i \in 1 .. MaxEvents |-> freed[i] + Cardinality(InQueue(i))]
      /\ UNCHANGED <<jpc, jevt, made, saved, evt, next, exiting>>
  BY DEF FreeAll, jackvars, errvars, flushvars
<1>2. NumberInv' /\ EvtInv'
  BY <1>0, <1>1, NumberKept DEF EvtInv
<1> SUFFICES ASSUME ~ exiting PROVE FreedInv'
  BY <1>1, <1>2 DEF LeakInv, FreedInv
<1>3. /\ DOMAIN queue = 1 .. Len(queue) /\ Len(queue) \in Nat /\ Len(saved) \in Nat
      /\ next \in Nat \ {0} /\ freed \in [1 .. MaxEvents -> Nat]
  BY <1>0 DEF TypeOK
<1>4. /\ Len(queue) + next = Len(saved) + 1
      /\ \A q \in 1 .. Len(queue) : queue[q] = saved[next - 1 + q]
  <2>1. InHand = 0
    BY <1>1 DEF InHand
  <2>2. /\ Len(queue) + next + 0 = Len(saved) + 1
        /\ \A q \in 1 .. Len(queue) : queue[q] = saved[next + 0 - 1 + q]
    BY <1>0, <1>1, <2>1 DEF QueueInv
  <2> QED BY <1>3, <2>2
<1>5. ASSUME NEW q \in 1 .. Len(queue)
      PROVE  next - 1 + q \in 1 .. Len(saved) /\ next - 1 + q >= next
  BY <1>3, <1>4
<1>6. ASSUME NEW j \in 1 .. Len(saved), j < next
      PROVE  InQueue(saved[j].no) = {}
  <2> SUFFICES ASSUME NEW q \in 1 .. Len(queue), queue[q].no = saved[j].no PROVE FALSE
    BY <1>3
  <2>1. next - 1 + q = j
    BY <1>0, <1>4, <1>5, SavedFacts
  <2> QED BY <1>3, <1>5, <1>6, <2>1
<1>7. ASSUME NEW j \in 1 .. Len(saved), ~ (j < next)
      PROVE  InQueue(saved[j].no) = {j - next + 1}
  <2>1. j - next + 1 \in 1 .. Len(queue) /\ next - 1 + (j - next + 1) = j
    BY <1>3, <1>4, <1>7
  <2>2. queue[j - next + 1] = saved[j]
    BY <1>4, <2>1
  <2>3. ASSUME NEW q \in 1 .. Len(queue), queue[q].no = saved[j].no
        PROVE  q = j - next + 1
    <3>1. next - 1 + q = j
      BY <1>0, <1>4, <1>5, <2>3, SavedFacts
    <3> QED BY <1>3, <3>1
  <2> QED BY <1>3, <2>1, <2>2, <2>3
<1>8. ASSUME NEW i \in 1 .. MaxEvents, \A j \in 1 .. Len(saved) : saved[j].no # i
      PROVE  InQueue(i) = {}
  <2> SUFFICES ASSUME NEW q \in 1 .. Len(queue), queue[q].no = i PROVE FALSE
    BY <1>3
  <2> QED BY <1>4, <1>5, <1>8
<1> HIDE DEF InQueue
<1>9. ASSUME NEW j \in 1 .. Len(saved)
      PROVE  freed'[saved[j].no] = 1 \/ (saved[j] = evt /\ freed'[saved[j].no] = 0)
  <2>1. saved[j].no \in 1 .. MaxEvents /\ saved[j] # NoEvent
    BY <1>0, SavedFacts
  <2>2. freed[saved[j].no] = 0 \/ freed[saved[j].no] = 1
    BY <1>0, <2>1 DEF FreedInv
  <2>3. freed[saved[j].no] = 1 <=> j < next /\ saved[j] # evt
    BY <1>0, <1>1 DEF FreedInv
  <2>4. CASE j < next
    <3>1. Cardinality(InQueue(saved[j].no)) = 0
      BY <1>6, <2>4, FS_EmptySet
    <3>2. freed'[saved[j].no] = freed[saved[j].no]
      BY <1>1, <1>3, <2>1, <3>1
    <3> QED BY <2>2, <2>3, <2>4, <3>2
  <2>5. CASE ~ (j < next)
    <3>1. Cardinality(InQueue(saved[j].no)) = 1
      BY <1>7, <2>5, FS_Singleton
    <3>2. freed[saved[j].no] = 0
      BY <2>2, <2>3, <2>5
    <3> QED BY <1>1, <2>1, <3>1, <3>2
  <2> QED BY <2>4, <2>5
<1>10. ASSUME NEW i \in 1 .. MaxEvents
       PROVE  \/ freed'[i] = 0
              \/ freed'[i] = 1 /\ \E j \in 1 .. Len(saved) : saved[j].no = i
  <2>1. CASE \E j \in 1 .. Len(saved) : saved[j].no = i
    BY <1>9, <2>1
  <2>2. CASE \A j \in 1 .. Len(saved) : saved[j].no # i
    <3>1. Cardinality(InQueue(i)) = 0
      BY <1>8, <2>2, FS_EmptySet
    <3>2. freed'[i] = freed[i] /\ freed[i] = 0
      BY <1>0, <1>1, <1>3, <2>2, <3>1 DEF FreedInv
    <3> QED BY <3>2
  <2> QED BY <2>1, <2>2
<1> QED BY <1>1, <1>9, <1>10 DEF FreedInv

LEMMA InitLeak == Init => LeakInv
<1> SUFFICES ASSUME Init PROVE LeakInv
  OBVIOUS
<1>1. /\ saved = <<>> /\ Len(saved) = 0 /\ InsertingClients = {} /\ evt = NoEvent
      /\ mpc = "script" /\ freed = [i \in 1 .. MaxEvents |-> 0]
  BY DEF Init, InsertingClients
<1>2. NumberInv /\ EvtInv /\ FreedInv
  BY <1>1 DEF NumberInv, EvtInv, FreedInv
<1> QED BY <1>2 DEF LeakInv

LEMMA LeakNext == IInv /\ LeakInv /\ [Next]_vars => LeakInv'
<1> SUFFICES ASSUME IInv, LeakInv, [Next]_vars PROVE LeakInv'
  OBVIOUS
<1>0. EvtInv
  BY DEF LeakInv
<1>1. ASSUME NEW c \in Clients, JackStep(c) PROVE LeakInv'
  BY <1>1, InsertLeak, CountWakeLeak DEF JackStep
<1>2. ASSUME NEW c \in Clients, NEW k \in Kinds, NEW said \in BOOLEAN, Notify(c, k, said)
      PROVE  LeakInv'
  BY <1>2, NotifyLeak
<1>3. CASE Fail \/ FailWake
  <2>1. /\ UNCHANGED <<jpc, jevt, made, saved, evt, next, freed, mpc>>
        /\ ~ exiting' => ~ exiting
    BY <1>3 DEF Fail, FailWake, jackvars, flushvars, hist
  <2> QED BY <2>1, LeakKept
<1>4. ASSUME NEW from, NEW to, Goto(from, to),
             \/ from \in {"script", "raised", "check", "select", "err", "loop", "flush"}
                /\ to \in {"script", "raised", "check", "select", "err", "loop", "flush", "exit"}
             \/ from = "callback" /\ to \in {"free", "exit"}
      PROVE  LeakInv'
  <2>1. /\ UNCHANGED <<jpc, jevt, made, saved, evt, next, freed, exiting>>
        /\ mpc = from /\ mpc' = to
    BY <1>4 DEF Goto, jackvars, errvars, flushvars, hist
  <2>2. mpc # "callback" => evt = NoEvent
    BY <1>0, <1>4, <2>1 DEF EvtInv
  <2> QED BY <1>4, <2>1, <2>2, LeakKept
<1>5. CASE ScriptStep
  <2>1. ASSUME NEW c \in Clients, NEW k \in Kinds,
               Register(c, k) \/ Activate(c) \/ Deactivate(c) \/ Close(c)
        PROVE  LeakInv'
    <3>1. UNCHANGED <<jpc, jevt, made, saved, evt, next, freed, exiting, mpc>>
      BY <2>1 DEF Register, Activate, Deactivate, Close, jackvars, errvars, flushvars, hist
    <3> QED BY <3>1, LeakKept
  <2>2. ASSUME NEW c \in Clients, Activate(c) \/ Deactivate(c) \/ Close(c)
        PROVE  LeakInv'
    <3>1. UNCHANGED <<jpc, jevt, made, saved, evt, next, freed, exiting, mpc>>
      BY <2>2 DEF Activate, Deactivate, Close, jackvars, errvars, flushvars, hist
    <3> QED BY <3>1, LeakKept
  <2>3. CASE ScriptEnds
    BY <2>3, <1>4 DEF ScriptEnds, InScript
  <2> QED BY <1>5, <2>1, <2>2, <2>3 DEF ScriptStep
<1>6. CASE CallSleep \/ CallbackReturns
  <2>1. CASE CallSleep
    <3>1. /\ mpc = "script" /\ mpc' = "check"
          /\ UNCHANGED <<jpc, jevt, made, saved, evt, next, freed, exiting>>
      BY <2>1 DEF CallSleep, jackvars, errvars, hist
    <3>2. evt = NoEvent
      BY <1>0, <3>1 DEF EvtInv
    <3> QED BY <3>1, <3>2, LeakKept
  <2> QED BY <1>4, <1>6, <2>1 DEF CallbackReturns
<1>7. CASE CallbackFails \/ Free
  BY <1>7, FreeLeak
<1>8. CASE CheckError \/ Select \/ ErrReady \/ Loop \/ Raised
  BY <1>4, <1>8 DEF CheckError, Select, ErrReady, Loop, Raised
<1>9. CASE FlushBegin \/ FlushEnd
  <2>1. CASE Goto("flush", "loop")
    BY <1>4, <2>1
  <2>2. CASE ~ Goto("flush", "loop")
    <3>1. /\ mpc \in {"flush", "remove"} /\ mpc' \in {"remove", "loop"}
          /\ UNCHANGED <<jpc, jevt, made, saved, next, freed, exiting>>
          /\ evt' = evt \/ evt' = NoEvent
      BY <1>9, <2>2 DEF FlushBegin, FlushEnd, Leave, jackvars, errvars, hist
    <3>2. evt = NoEvent /\ evt' = evt
      BY <1>0, <3>1 DEF EvtInv
    <3> QED BY <3>1, <3>2, LeakKept
  <2> QED BY <2>1, <2>2
<1>10. CASE Remove \/ Begin
  BY <1>10, RemoveLeak, BeginLeak
<1>11. CASE CloseAll
  <2>1. /\ mpc = "exit" /\ mpc' = "freeall"
        /\ UNCHANGED <<jpc, jevt, made, saved, evt, next, freed, exiting>>
    BY <1>11 DEF CloseAll, jackvars, errvars, flushvars, hist
  <2> QED BY <2>1, LeakKept
<1>12. CASE FreeAll
  BY <1>12, FreeAllLeak
<1>13. CASE Ended \/ UNCHANGED vars
  <2>1. UNCHANGED <<jpc, jevt, made, saved, evt, next, freed, exiting, mpc>>
    BY <1>13 DEF Ended, vars, jackvars, errvars, flushvars, hist
  <2> QED BY <2>1, LeakKept
<1> QED BY <1>1, <1>2, <1>3, <1>5, <1>6, <1>7, <1>8, <1>9, <1>10, <1>11, <1>12, <1>13
        DEF Next, Says, SleepStep

(* Until another thread raises an error each event is freed at most once,  *)
(* and when LuaJack ends without one all are freed, but for the event      *)
(* whose callback called os.exit().                                        *)
THEOREM NothingLeaksUntilError == Spec => []NothingLeaks
<1>1. ASSUME IInv, LeakInv PROVE NothingLeaks
  <2> SUFFICES ASSUME ~ exiting
               PROVE  /\ FreedOnce
                      /\ mpc = "end" => \A i \in DOMAIN saved :
                                          freed[saved[i].no] = 1 \/ saved[i] = evt
    BY DEF NothingLeaks
  <2>1. TypeOK /\ NumberInv /\ FreedInv
    BY <1>1 DEF IInv, LeakInv
  <2>2. FreedOnce
    BY <2>1 DEF FreedInv, FreedOnce
  <2>3. DOMAIN saved = 1 .. Len(saved)
    BY <2>1 DEF TypeOK
  <2> QED BY <2>1, <2>2, <2>3 DEF FreedInv
<1>2. Spec => []LeakInv
  BY InitLeak, LeakNext, Inductive, PTL DEF Spec
<1> QED BY <1>1, <1>2, Inductive, PTL

(* With no thread but the main one to fail no event is freed twice.        *)
THEOREM EventsFreedOnce == ASSUME ~ OthersFail PROVE Spec => []FreedOnce
<1>0. ~ exiting /\ NothingLeaks => FreedOnce
  BY DEF NothingLeaks
<1>1. Init => ~ exiting
  BY DEF Init
<1>2. ~ exiting /\ [Next]_vars => ~ exiting'
  <2> SUFFICES ASSUME ~ exiting, [Next]_vars PROVE exiting' = exiting
    OBVIOUS
  <2>1. ASSUME NEW c, NEW k, NEW said PROVE ~ (Notify(c, k, said) /\ exiting' # exiting)
    BY DEF Notify, errvars
  <2>2. ASSUME NEW c, NEW k PROVE
          ~ ((JackStep(c) \/ Register(c, k) \/ Activate(c) \/ Deactivate(c) \/ Close(c))
             /\ exiting' # exiting)
    BY DEF JackStep, Insert, Count, Wake, Register, Activate, Deactivate, Close, errvars
  <2>3. ~ Fail /\ (FailWake => exiting' = exiting)
    BY DEF Fail, FailWake
  <2>4. ASSUME NEW from, NEW to PROVE Goto(from, to) => exiting' = exiting
    BY DEF Goto, errvars
  <2>5. CallbackReturns \/ ScriptEnds \/ Raised \/ CheckError \/ Select
          \/ ErrReady \/ Loop => exiting' = exiting
    BY <2>4 DEF CallbackReturns, ScriptEnds, Raised, CheckError, Select, ErrReady, Loop
  <2>6. FlushBegin \/ FlushEnd \/ Remove \/ Begin \/ Free \/ CallbackFails \/ CloseAll
          \/ FreeAll => exiting' = exiting
    BY <2>4 DEF FlushBegin, FlushEnd, Remove, Begin, Free, CallbackFails, CloseAll, FreeAll,
                errvars
  <2>7. Ended \/ UNCHANGED vars => exiting' = exiting
    BY DEF Ended, vars, errvars
  <2>8. CallSleep => exiting' = exiting
    BY DEF CallSleep, errvars
  <2> QED BY <2>1, <2>2, <2>3, <2>5, <2>6, <2>7, <2>8 DEF Next, ScriptStep, SleepStep
<1> QED BY <1>0, <1>1, <1>2, NothingLeaksUntilError, PTL DEF Spec
=============================================================================
