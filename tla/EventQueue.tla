----------------------------- MODULE EventQueue -----------------------------
(***************************************************************************)
(* The way of a JACK notification to the script: the C callback that JACK  *)
(* runs in a thread of its own saves an event (src/callback.c), the queue  *)
(* of events and its pipe (src/evt.c), and jack.sleep() in the main        *)
(* thread, which waits on the pipes and runs the Lua callbacks             *)
(* (src/main.c).                                                           *)
(*                                                                         *)
(* The lock of evt.c is taken and released explicitly, because the main    *)
(* thread looks at the counter and at the pipe without it.                 *)
(***************************************************************************)
EXTENDS Integers, Sequences, FiniteSets

CONSTANTS
  Clients,           \* JACK clients, all opened before the model starts
  Kinds,             \* the notifications the script has callbacks for
  EvtPipeCap,        \* bytes the kernel's pipe holds
  OthersFail,        \* may another pthread call luajack_error()?
  RegisterActive,    \* does the script register callbacks of an active client?
  MaxEvents          \* bound: notifications

(* One representative of each shape of C callback: Freewheel_; PortConnect_ *)
(* (with ClientRegistration_, PortRegistration_), which set op; Xrun (with *)
(* the others that tell nothing or a copy); Latency_; Session_.            *)
AllKinds == {"Freewheel", "PortConnect", "Xrun", "Latency", "Session"}

Unlocked == "unlocked"    \* nobody holds Lock

ASSUME EventAssumption ==
  /\ Kinds \subseteq AllKinds
  /\ EvtPipeCap \in Nat \ {0}
  /\ OthersFail \in BOOLEAN /\ RegisterActive \in BOOLEAN
  /\ MaxEvents \in Nat
  /\ Unlocked \notin Clients /\ IsFiniteSet(Clients)

VARIABLES
  valid,             \* clients whose cud is valid
  ref,               \* per client, the kinds whose Lua function is referenced
  active, jackset,   \* JACK: active clients, the C callbacks set per client
  lock, queue, counter, evtpipe,  \* evt.c: who holds Lock, head, counter, bytes
  jpc, jevt,         \* per client, JACK's notification thread and its event
  mpc, n, evt,       \* the main thread; locals of callback_flush()
  timed,             \* has this jack.sleep() a timeout?
  exiting, failing, errpipe,      \* luajack_exit_status, its writer, its pipe
  saved, next, got,  \* history: events inserted, the next to handle, dispatched
  made, freed,       \* history: events allocated, how often each was freed
  scheduled,         \* history: events inserted when the flush began
  unexpected         \* history: UNEXPECTED_ERROR was raised

clientvars == <<valid, ref, active, jackset>>
evtvars == <<lock, queue, counter, evtpipe>>
jackvars == <<jpc, jevt, made>>
errvars == <<exiting, failing, errpipe>>
flushvars == <<n, evt, scheduled, timed>>
hist == <<saved, next, got, freed, unexpected>>
vars == <<clientvars, evtvars, jackvars, errvars, mpc, flushvars, hist>>

(* said is what JACK notifies: starting, connected, playback; op and mode  *)
(* are the fields of evt_t that carry it.                                  *)
Event == [client : Clients, kind : Kinds, said : BOOLEAN, op : BOOLEAN, mode : BOOLEAN,
          no : 1 .. MaxEvents]

NoEvent == [no |-> 0]

----------------------------------------------------------------------------
(* JACK's notification threads, one per client: the pre-callbacks.         *)

(* Some notifications say one thing or the other, some only that they are. *)
Says(k) == IF k = "Xrun" THEN {FALSE} ELSE BOOLEAN

(* Freewheel_() puts in mode what Lua_Freewheel() takes from op.           *)
NewEvent(c, k, said) ==
  [client |-> c, kind |-> k, said |-> said, no |-> made + 1,
   op |-> said /\ k = "PortConnect", mode |-> said /\ k \in {"Freewheel", "Latency"}]

(* BEGIN: of a closed client, or with no Lua function to call, nothing is  *)
(* saved. JACK calls the callbacks of active clients only.                 *)
Notify(c, k, said) ==
  /\ jpc[c] = "idle"
  /\ c \in active /\ k \in jackset[c] /\ made < MaxEvents
  /\ c \in valid /\ k \in ref[c]
  /\ jevt' = [jevt EXCEPT ![c] = NewEvent(c, k, said)]
  /\ jpc' = [jpc EXCEPT ![c] = "insert"]
  /\ made' = made + 1
  /\ UNCHANGED <<clientvars, evtvars, errvars, mpc, flushvars, hist>>

(* evt_insert(), in three steps under the lock.                            *)
Insert_AtHead(c) ==                         \* mutant: SIMPLEQ_INSERT_HEAD
  /\ jpc[c] = "insert" /\ lock = Unlocked
  /\ lock' = c
  /\ queue' = <<jevt[c]>> \o queue
  /\ saved' = Append(saved, jevt[c])
  /\ jpc' = [jpc EXCEPT ![c] = "count"]
  /\ UNCHANGED <<clientvars, counter, evtpipe, jevt, made, errvars, mpc, flushvars,
                 next, got, freed, unexpected>>

Insert(c) ==
  /\ jpc[c] = "insert" /\ lock = Unlocked
  /\ lock' = c
  /\ queue' = Append(queue, jevt[c])
  /\ saved' = Append(saved, jevt[c])
  /\ jpc' = [jpc EXCEPT ![c] = "count"]
  /\ UNCHANGED <<clientvars, counter, evtpipe, jevt, made, errvars, mpc, flushvars,
                 next, got, freed, unexpected>>

Count(c) ==
  /\ jpc[c] = "count"
  /\ counter' = counter + 1
  /\ jpc' = [jpc EXCEPT ![c] = "wake"]
  /\ UNCHANGED <<clientvars, lock, queue, evtpipe, jevt, made, errvars, mpc, flushvars, hist>>

Wake_Silent(c) ==                           \* mutant: no syncpipe_write()
  /\ jpc[c] = "wake"
  /\ lock' = Unlocked
  /\ jpc' = [jpc EXCEPT ![c] = "idle"]
  /\ jevt' = [jevt EXCEPT ![c] = NoEvent]
  /\ UNCHANGED <<clientvars, queue, counter, evtpipe, made, errvars, mpc, flushvars, hist>>

Wake_IfFirst(c) ==                          \* mutant: a byte for the first event only
  /\ jpc[c] = "wake"
  /\ evtpipe' = IF evtpipe = 0 THEN 1 ELSE evtpipe
  /\ lock' = Unlocked
  /\ jpc' = [jpc EXCEPT ![c] = "idle"]
  /\ jevt' = [jevt EXCEPT ![c] = NoEvent]
  /\ UNCHANGED <<clientvars, queue, counter, made, errvars, mpc, flushvars, hist>>

(* syncpipe_write() to make pselect() return; a full pipe takes no more.   *)
Wake(c) ==
  /\ jpc[c] = "wake"
  /\ evtpipe' = IF evtpipe < EvtPipeCap THEN evtpipe + 1 ELSE evtpipe
  /\ lock' = Unlocked
  /\ jpc' = [jpc EXCEPT ![c] = "idle"]
  /\ jevt' = [jevt EXCEPT ![c] = NoEvent]
  /\ UNCHANGED <<clientvars, queue, counter, made, errvars, mpc, flushvars, hist>>

(* luajack_errorv_(), called for the first time by a realtime or a script  *)
(* thread: the exit status is visible before the byte is.                  *)
Fail ==
  /\ OthersFail /\ ~ exiting /\ mpc # "end"
  /\ exiting' = TRUE /\ failing' = TRUE
  /\ UNCHANGED <<clientvars, evtvars, jackvars, errpipe, mpc, flushvars, hist>>

FailWake_NoByte ==                          \* mutant: no syncpipe_write()
  /\ failing
  /\ failing' = FALSE
  /\ UNCHANGED <<clientvars, evtvars, jackvars, exiting, errpipe, mpc, flushvars, hist>>

FailWake ==
  /\ failing
  /\ failing' = FALSE /\ errpipe' = errpipe + 1
  /\ UNCHANGED <<clientvars, evtvars, jackvars, exiting, mpc, flushvars, hist>>

----------------------------------------------------------------------------
(* The script, in its main chunk or in a callback. It may catch any error. *)

InScript == mpc \in {"script", "callback"}

(* Register(): the old function is forgotten before JACK is asked; JACK    *)
(* refuses to set a callback of an active client, and then so is the new.  *)
Register(c, k) ==
  /\ InScript /\ c \in valid
  /\ RegisterActive \/ c \notin active
  /\ \/ /\ c \notin active
        /\ ref' = [ref EXCEPT ![c] = @ \cup {k}]
        /\ jackset' = [jackset EXCEPT ![c] = @ \cup {k}]
     \/ /\ c \in active
        /\ ref' = [ref EXCEPT ![c] = @ \ {k}]
        /\ UNCHANGED jackset
  /\ UNCHANGED <<valid, active, evtvars, jackvars, errvars, mpc, flushvars, hist>>

(* jack_activate() and jack_deactivate() (module Clients has when they are *)
(* called).                                                                *)
Activate(c) ==
  /\ InScript /\ c \in valid \ active
  /\ active' = active \cup {c}
  /\ UNCHANGED <<valid, ref, jackset, evtvars, jackvars, errvars, mpc, flushvars, hist>>

Deactivate(c) ==
  /\ InScript /\ c \in active
  /\ active' = active \ {c}
  /\ UNCHANGED <<valid, ref, jackset, evtvars, jackvars, errvars, mpc, flushvars, hist>>

(* callback_unregister() does not release the session callback.            *)
Released(c) == ref[c] \cap {"Session"}

(* client_close(): jack_client_close() returns when JACK's thread for the  *)
(* client has ended, then the references are released.                     *)
Close(c) ==
  /\ InScript /\ c \in valid
  /\ jpc[c] = "idle"
  /\ active' = active \ {c}
  /\ jackset' = [jackset EXCEPT ![c] = {}]
  /\ ref' = [ref EXCEPT ![c] = Released(c)]
  /\ valid' = valid \ {c}
  /\ UNCHANGED <<evtvars, jackvars, errvars, mpc, flushvars, hist>>

(* A step of the main thread that only moves it on.                        *)
Goto(from, to) ==
  /\ mpc = from /\ mpc' = to
  /\ UNCHANGED <<clientvars, evtvars, jackvars, errvars, flushvars, hist>>

(* With a time, or without: then only a pipe or an error ends it.          *)
CallSleep ==
  /\ mpc = "script" /\ mpc' = "check"
  /\ timed' \in BOOLEAN
  /\ UNCHANGED <<clientvars, evtvars, jackvars, errvars, n, evt, scheduled, hist>>

(* The script is over: it returns, or calls os.exit(), in a callback too.  *)
ScriptEnds == InScript /\ Goto(mpc, "exit")

(* An error reached the main chunk: the script catches it or is over.      *)
Raised == Goto("raised", "script") \/ Goto("raised", "exit")

----------------------------------------------------------------------------
(* jack.sleep(): the loop of Sleep() in the main thread.                   *)

CheckError == Goto("check", IF exiting THEN "raised" ELSE "select")

(* pselect() returns: a pipe is readable or, with a timeout, time is over. *)
Select ==
  \/ errpipe > 0 /\ Goto("select", "err")
  \/ errpipe = 0 /\ evtpipe > 0 /\ Goto("select", "flush")
  \/ errpipe = 0 /\ evtpipe = 0 /\ timed /\ Goto("select", "loop")

(* The byte tells that exiting was set, and it is never reset: the byte is *)
(* not read.                                                               *)
ErrReady == exiting /\ Goto("err", "raised")

(* The end of a pass: the time of this sleep may be over.                  *)
Loop == Goto("loop", "check") \/ (timed /\ Goto("loop", "script"))

----------------------------------------------------------------------------
(* callback_flush()                                                        *)

(* The locals are gone.                                                    *)
Leave == n' = 0 /\ scheduled' = 0 /\ evt' = NoEvent /\ UNCHANGED timed

FlushBegin_All ==                           \* mutant: while the queue is not empty
  \/ exiting /\ Goto("flush", "loop")
  \/ /\ ~ exiting /\ mpc = "flush" /\ mpc' = "remove"
     /\ n' = MaxEvents /\ scheduled' = Len(saved)
     /\ UNCHANGED <<clientvars, evtvars, jackvars, errvars, evt, timed, hist>>

(* evt_count() reads the counter without the lock.                         *)
FlushBegin ==
  \/ exiting /\ Goto("flush", "loop")
  \/ /\ ~ exiting /\ mpc = "flush" /\ mpc' = "remove"
     /\ n' = counter /\ scheduled' = Len(saved)
     /\ UNCHANGED <<clientvars, evtvars, jackvars, errvars, evt, timed, hist>>

FlushEnd ==
  /\ mpc = "remove" /\ mpc' = "loop"
  /\ n = 0 \/ (queue = <<>> /\ lock = Unlocked)
  /\ Leave
  /\ UNCHANGED <<clientvars, evtvars, jackvars, errvars, hist>>

Freed(e) == [freed EXCEPT ![e.no] = @ + 1]

Take ==
  /\ lock = Unlocked /\ queue # <<>>
  /\ queue' = Tail(queue)
  /\ counter' = counter - 1
  /\ evtpipe' = IF evtpipe > 0 THEN evtpipe - 1 ELSE evtpipe
  /\ UNCHANGED lock

Remove_NoCheck ==                           \* mutant: IsCudValid() not asked
  /\ mpc = "remove" /\ n > 0
  /\ Take
  /\ n' = n - 1
  /\ mpc' = "begin" /\ evt' = Head(queue)
  /\ UNCHANGED <<clientvars, jackvars, errvars, scheduled, timed, hist>>

(* evt_remove(), then the events of clients closed meanwhile are skipped.  *)
Remove ==
  /\ mpc = "remove" /\ n > 0
  /\ Take
  /\ n' = n - 1
  /\ \/ /\ Head(queue).client \in valid
        /\ mpc' = "begin" /\ evt' = Head(queue) /\ UNCHANGED <<freed, next>>
     \/ /\ Head(queue).client \notin valid
        /\ freed' = Freed(Head(queue)) /\ next' = next + 1 /\ UNCHANGED <<mpc, evt>>
  /\ UNCHANGED <<clientvars, jackvars, errvars, scheduled, timed, saved, got, unexpected>>

(* The Lua function a callback is looked up by: Lua_Session() says         *)
(* BEGIN(Latency).                                                         *)
FunctionFor(k) == IF k = "Session" THEN "Latency" ELSE k

(* What the Lua function is told.                                          *)
Told(e) ==
  CASE e.kind \in {"Freewheel", "PortConnect"} -> e.op
    [] e.kind = "Latency" -> e.mode
    [] OTHER -> e.said

(* BEGIN: with an error pending the event is freed and Lua_...() returns,  *)
(* with no function it is freed and an UNEXPECTED_ERROR raised.            *)
Begin ==
  /\ mpc = "begin"
  /\ next' = next + 1
  /\ \/ /\ exiting
        /\ mpc' = "free" /\ freed' = Freed(evt)
        /\ UNCHANGED <<flushvars, got, unexpected>>
     \/ /\ ~ exiting /\ FunctionFor(evt.kind) \notin ref[evt.client]
        /\ mpc' = "raised" /\ freed' = Freed(evt) /\ Leave
        /\ unexpected' = TRUE
        /\ UNCHANGED got
     \/ /\ ~ exiting /\ FunctionFor(evt.kind) \in ref[evt.client]
        /\ mpc' = "callback" /\ got' = Append(got, evt)
        /\ UNCHANGED <<flushvars, freed, unexpected>>
  /\ UNCHANGED <<clientvars, evtvars, jackvars, errvars, saved>>

(* lua_pcall(): the callback returns, or raises an error.                  *)
CallbackReturns == Goto("callback", "free")

CallbackFails_NoFree ==                     \* mutant: EXEC forgets evt_free()
  /\ mpc = "callback" /\ mpc' = "raised"
  /\ Leave
  /\ UNCHANGED <<clientvars, evtvars, jackvars, errvars, hist>>

CallbackFails ==
  /\ mpc = "callback" /\ mpc' = "raised"
  /\ freed' = Freed(evt) /\ Leave
  /\ UNCHANGED <<clientvars, evtvars, jackvars, errvars, saved, next, got, unexpected>>

Free ==
  /\ mpc = "free" /\ mpc' = "remove"
  /\ freed' = Freed(evt) /\ evt' = NoEvent
  /\ UNCHANGED <<clientvars, evtvars, jackvars, errvars, n, scheduled, timed,
                 saved, next, got, unexpected>>

----------------------------------------------------------------------------
(* AtExit(): client_close_all(), then evt_free_all().                      *)

CloseAll ==
  /\ \A c \in Clients : jpc[c] = "idle"
  /\ mpc = "exit" /\ mpc' = "freeall"
  /\ valid' = {} /\ active' = {}
  /\ jackset' = [c \in Clients |-> {}]
  /\ UNCHANGED <<ref, evtvars, jackvars, errvars, flushvars, hist>>

FreeAll ==
  /\ mpc = "freeall" /\ mpc' = "end"
  /\ queue' = <<>> /\ counter' = 0
  /\ evtpipe' = IF evtpipe > Len(queue) THEN evtpipe - Len(queue) ELSE 0
  /\ freed' = [i \in 1 .. MaxEvents |->
                 freed[i] + Cardinality({j \in DOMAIN queue : queue[j].no = i})]
  /\ UNCHANGED <<clientvars, lock, jackvars, errvars, flushvars,
                 saved, next, got, unexpected>>

Ended == mpc = "end" /\ UNCHANGED vars

----------------------------------------------------------------------------
JackStep(c) == Insert(c) \/ Count(c) \/ Wake(c)

ScriptStep ==
  \/ \E c \in Clients, k \in Kinds : Register(c, k)
  \/ \E c \in Clients : Activate(c) \/ Deactivate(c) \/ Close(c)
  \/ ScriptEnds

SleepStep ==
  \/ CheckError \/ Select \/ ErrReady \/ Loop
  \/ FlushBegin \/ FlushEnd \/ Remove \/ Begin \/ Free
  \/ Raised \/ CloseAll \/ FreeAll

Init ==
  /\ valid = Clients /\ active = {}
  /\ ref = [c \in Clients |-> {}] /\ jackset = [c \in Clients |-> {}]
  /\ lock = Unlocked /\ queue = <<>> /\ counter = 0 /\ evtpipe = 0
  /\ jpc = [c \in Clients |-> "idle"] /\ jevt = [c \in Clients |-> NoEvent] /\ made = 0
  /\ mpc = "script" /\ n = 0 /\ evt = NoEvent /\ scheduled = 0 /\ timed = FALSE
  /\ exiting = FALSE /\ failing = FALSE /\ errpipe = 0
  /\ saved = <<>> /\ next = 1 /\ got = <<>>
  /\ freed = [i \in 1 .. MaxEvents |-> 0] /\ unexpected = FALSE

Next ==
  \/ \E c \in Clients : JackStep(c)
  \/ \E c \in Clients, k \in Kinds : \E said \in Says(k) : Notify(c, k, said)
  \/ Fail \/ FailWake
  \/ ScriptStep
  \/ CallSleep
  \/ SleepStep
  \/ CallbackReturns \/ CallbackFails
  \/ Ended

Spec == Init /\ [][Next]_vars

(* JACK's threads, the failing thread and the main thread run; the script  *)
(* is, as it must be, a loop around jack.sleep(), and its callbacks return.*)
FairSpec ==
  /\ Spec
  /\ \A c \in Clients : WF_vars(JackStep(c))
  /\ WF_vars(FailWake)
  /\ WF_vars(SleepStep)
  /\ WF_vars(CallSleep)
  /\ WF_vars(CallbackReturns \/ CallbackFails)

----------------------------------------------------------------------------
(* Type invariant: the range of every variable. The counter, an unsigned   *)
(* int, never goes below zero: no event is removed before it is counted.   *)
TypeOK ==
  /\ valid \subseteq Clients /\ active \subseteq Clients
  /\ ref \in [Clients -> SUBSET Kinds] /\ jackset \in [Clients -> SUBSET Kinds]
  /\ lock \in Clients \cup {Unlocked}
  /\ queue \in Seq(Event) /\ counter \in Nat /\ evtpipe \in 0 .. EvtPipeCap
  /\ jpc \in [Clients -> {"idle", "insert", "count", "wake"}]
  /\ jevt \in [Clients -> Event \cup {NoEvent}] /\ made \in 0 .. MaxEvents
  /\ mpc \in {"script", "raised", "check", "select", "err", "loop", "flush", "remove",
              "begin", "callback", "free", "exit", "freeall", "end"}
  /\ n \in Nat /\ evt \in Event \cup {NoEvent} /\ scheduled \in Nat /\ timed \in BOOLEAN
  /\ exiting \in BOOLEAN /\ failing \in BOOLEAN /\ errpipe \in 0 .. 1
  /\ saved \in Seq(Event) /\ next \in Nat \ {0} /\ got \in Seq(Event)
  /\ freed \in [1 .. MaxEvents -> Nat] /\ unexpected \in BOOLEAN

(* Whenever the lock is free there are as many bytes in the pipe as events *)
(* in the queue, and the counter says how many: pselect() returns exactly  *)
(* when there is something to flush (evt_insert, remove_nolock).           *)
PipeCountsQueue ==
  lock = Unlocked => counter = Len(queue) /\ evtpipe = Len(queue)

(* A flush dispatches only the events scheduled when it began, those its   *)
(* callbacks cause wait for the next one, so jack.sleep() gets back to its *)
(* script (comment in callback_flush).                                     *)
OnlyScheduled ==
  /\ mpc = "begin" => next <= scheduled
  /\ mpc = "callback" => next - 1 <= scheduled

(* A running callback is told what JACK said: "operation [is either]       *)
(* 'starting' or 'stopping'" (freewheel callback, doc/callbacks_nonrt.adoc).*)
ToldWhatJackSaid == mpc = "callback" => Told(evt) = evt.said

(* callback_flush() never finds an event without its callback: neither     *)
(* closing a client nor deactivating it leaves events that raise an error  *)
(* in the main script.                                                     *)
NeverUnexpected == ~ unexpected

(* No event is freed twice.                                                *)
FreedOnce == \A i \in 1 .. MaxEvents : freed[i] <= 1

(* As long as no other pthread has raised an error, no event is freed      *)
(* twice, and when LuaJack has exited each was freed, but for the one      *)
(* whose callback called os.exit().                                        *)
NothingLeaks ==
  ~ exiting =>
    /\ FreedOnce
    /\ mpc = "end" => \A i \in DOMAIN saved : freed[saved[i].no] = 1 \/ saved[i] = evt

(* Callbacks get the events in the order in which JACK's threads saved     *)
(* them, each at most once: the queue implements a channel of events.      *)
Channel == INSTANCE MessageChannel WITH Msg <- Event, sent <- saved
FifoDispatch == Channel!Spec

(* Every event is handled, unless an error or the end of the script        *)
(* intervenes, also if the script blocks in jack.sleep() without timeout.  *)
EveryEventHandled ==
  \A i \in 1 .. MaxEvents :
    Len(saved) >= i ~> next > i \/ exiting \/ mpc \in {"exit", "freeall", "end"}

(* An error of another pthread reaches the main script, also one raised    *)
(* between luajack_checkerror() and pselect() (comment of                  *)
(* luajack_errorv_).                                                       *)
ErrorReachesScript == exiting ~> mpc \in {"raised", "exit", "freeall", "end"}

----------------------------------------------------------------------------
(* The inductive invariant of EventQueueProofs, in parts.                  *)

(* Lock is held by the thread that is between Insert and Wake. *)
LockInv == \A c \in Clients : jpc[c] \in {"count", "wake"} <=> lock = c

Uncounted == IF \E c \in Clients : jpc[c] = "count" THEN 1 ELSE 0
CountInv == counter + Uncounted = Len(queue)

(* No byte is dropped as long as the pipe holds one for every event. *)
InsertingClients == {c \in Clients : jpc[c] = "insert"}
MadeInv == made = Len(saved) + Cardinality(InsertingClients)
Unwritten == IF lock = Unlocked THEN 0 ELSE 1
PipeInv == MaxEvents <= EvtPipeCap => evtpipe + Unwritten = Len(queue)

(* The queue holds the rest of saved, but for the event in hand. *)
InHand == IF mpc = "begin" THEN 1 ELSE 0
QueueInv ==
  /\ next <= Len(saved) + 1
  /\ mpc # "end" =>
       /\ Len(queue) + next + InHand = Len(saved) + 1
       /\ \A i \in 1 .. Len(queue) : queue[i] = saved[next + InHand - 1 + i]
  /\ mpc = "begin" => next <= Len(saved) /\ evt = saved[next]

(* A flush has n events to go, all scheduled when it began. *)
SchedInv ==
  /\ mpc \in {"remove", "callback", "free"} => next - 1 + n <= scheduled
  /\ mpc = "begin" => next + n <= scheduled

(* An event of an open client has a function to be given to, if the script *)
(* registers callbacks of inactive clients only, and none for sessions.    *)
Regular == ~ RegisterActive /\ "Session" \notin Kinds
HasFunction(e) == e.client \in valid => e.kind \in ref[e.client]
EventInv ==
  /\ \A c \in Clients : jpc[c] # "idle" => jevt[c] \in Event
  /\ Regular =>
       /\ \A c \in Clients : jpc[c] # "idle" => HasFunction(jevt[c])
       /\ \A i \in 1 .. Len(queue) : HasFunction(queue[i])
       /\ mpc = "begin" => evt \in Event /\ evt.client \in valid /\ HasFunction(evt)
       /\ ~ unexpected

(* The status is set before the byte is written, once. *)
ErrInv ==
  /\ failing => exiting /\ errpipe = 0
  /\ errpipe > 0 => exiting

(* LuaJack exits when nothing notifies any more. *)
ExitInv ==
  mpc \in {"freeall", "end"} => active = {} /\ \A c \in Clients : jpc[c] = "idle"

IInv ==
  /\ TypeOK /\ LockInv /\ CountInv /\ MadeInv /\ PipeInv /\ QueueInv /\ SchedInv
  /\ EventInv /\ ErrInv /\ ExitInv

----------------------------------------------------------------------------
(* Why nothing leaks.                                                      *)

(* The event of each notification is one of its own.                       *)
NumberInv ==
  /\ \A i \in 1 .. Len(saved) : saved[i].no <= made
  /\ \A i, j \in 1 .. Len(saved) : saved[i].no = saved[j].no => i = j
  /\ \A c \in InsertingClients :
       /\ jevt[c].no <= made
       /\ \A i \in 1 .. Len(saved) : jevt[c].no # saved[i].no
       /\ \A d \in InsertingClients : jevt[c].no = jevt[d].no => c = d

(* The main thread has an event in hand from evt_remove() until it is      *)
(* freed; if the callback calls os.exit(), for ever.                       *)
EvtInv ==
  /\ evt # NoEvent => mpc \in {"begin", "callback", "free", "exit", "freeall", "end"}
  /\ mpc \in {"begin", "callback", "free"} => evt \in Event
  /\ evt # NoEvent /\ mpc # "begin" => next > 1 /\ evt = saved[next - 1]

(* Freed are, once each, the events taken from the queue but for the one   *)
(* in hand, as long as no other thread has raised an error.                *)
FreedInv ==
  ~ exiting =>
    /\ \A i \in 1 .. MaxEvents :
         \/ freed[i] = 0
         \/ freed[i] = 1 /\ \E j \in 1 .. Len(saved) : saved[j].no = i
    /\ mpc # "end" =>
         \A j \in 1 .. Len(saved) : freed[saved[j].no] = 1 <=> j < next /\ saved[j] # evt
    /\ mpc = "end" => \A j \in 1 .. Len(saved) : freed[saved[j].no] = 1 \/ saved[j] = evt

LeakInv == NumberInv /\ EvtInv /\ FreedInv
=============================================================================
