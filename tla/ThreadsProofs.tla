--------------------------- MODULE ThreadsProofs ---------------------------
(***************************************************************************)
(* What holds of client threads, of the signals they are sent and of the   *)
(* errors of all contexts, for any number of clients and threads.          *)
(***************************************************************************)
EXTENDS Threads, TLAPS

----------------------------------------------------------------------------
(* The steps by who takes them. *)

StartStep(t) == Start(t) \/ Run(t) \/ Wait(t) \/ WakeSpuriously(t) \/ Relock(t)
ThreadStep(t) == StartStep(t) \/ Finish(t) \/ Fail(t) \/ EndStep(t) \/ Die(t)
ScriptStep ==
  \/ Ready
  \/ \E t \in Threads : ThreadCreate_(t)
  \/ \E c \in Clients : Activate(c) \/ Close(c)
CallStep(a) == Error(a) \/ SignalStep(a) \/ ErrorStep(a) \/ \E t \in Threads : Signal(a, t)

LEMMA Steps ==
  ASSUME Next
  PROVE  \/ \E t \in Threads : ThreadStep(t)
         \/ ScriptStep \/ CloseStep
         \/ \E a \in Actors : CallStep(a)
  BY DEF Next, ThreadStep, StartStep, ScriptStep, CallStep

(* Actors are the main script, clients and threads, and nothing else. *)
LEMMA ActorsApart ==
  /\ "main" \in Actors /\ Clients \subseteq Actors /\ Threads \subseteq Actors
  /\ "main" \notin Clients /\ "main" \notin Threads /\ Clients \cap Threads = {}
  /\ Free \notin Actors /\ Destroyed \notin Actors /\ Nobody \notin Actors
  /\ Free # Destroyed
  BY ThreadsAssumption DEF Actors, Free, Destroyed, Nobody

----------------------------------------------------------------------------
(* Type correctness.                                                       *)

LEMMA InitType == ASSUME Init PROVE TypeOK
<1>1. /\ entry \in [Threads -> {"none", "valid", "closed"}]
      /\ status \in [Threads -> {"CONFIGURING", "READY", "RUNNING", "DONE", "FAILED"}]
      /\ state \in [Threads -> BOOLEAN]
      /\ lock \in [Threads -> Actors \cup {Free, Destroyed}]
      /\ tpc \in [Threads -> {"none", "start", "spin", "script", "wait", "relock", "close",
                              "failed", "unlock", "exited"}]
      /\ cancelled \in [Threads -> BOOLEAN] /\ closed \in [Threads -> Nat]
      /\ owed \in [Threads -> BOOLEAN]
  BY DEF Init
<1>2. /\ apc \in [Actors -> {"idle", "trylock", "signal", "sigunlock", "errtry", "errcheck",
                             "errwrite", "errwritten", "errstatus", "errunlock"}]
      /\ sig \in [Actors -> Threads \cup {Nobody}]
  BY DEF Init
<1>3. errmsg \in [by : Actors \cup {Nobody}, whole : BOOLEAN]
  BY DEF Init
<1>4. /\ errlock \in Actors \cup {Free} /\ exiting \in BOOLEAN
      /\ mpc \in {"script", "created", "free", "join"}
      /\ cur \in Clients \cup {Nobody} /\ job \in Threads \cup {Nobody}
      /\ opened \subseteq Clients /\ active \subseteq opened
  BY DEF Init
<1> QED BY <1>1, <1>2, <1>3, <1>4 DEF TypeOK

LEMMA TypeThread ==
  ASSUME TypeOK, NEW t \in Threads, ThreadStep(t)
  PROVE  TypeOK'
<1> USE ActorsApart
<1>1. CASE Start(t) \/ Relock(t) \/ Wait(t)
  <2>1. \E v \in {"spin", "script", "wait"} : tpc' = [tpc EXCEPT ![t] = v]
    BY <1>1 DEF Start, Wait, Relock, At
  <2>2. \E a \in Actors \cup {Free} : lock' = [lock EXCEPT ![t] = a]
    BY <1>1 DEF Start, Wait, Relock, Lock
  <2>3. UNCHANGED <<tudvars, cancelled, closed, callvars, errvars, mainvars, clientvars, owed>>
    BY <1>1 DEF Start, Wait, Relock
  <2> QED BY <2>1, <2>2, <2>3 DEF TypeOK, tudvars, callvars, errvars, mainvars, clientvars
<1>2. CASE Run(t) \/ WakeSpuriously(t)
  BY <1>2 DEF TypeOK, Run, WakeSpuriously, At,
     tudvars, threadvars, callvars, errvars, mainvars, clientvars
<1>3. CASE Finish(t)
  BY <1>3 DEF TypeOK, Finish, At, callvars, errvars, mainvars, clientvars
<1>4. CASE Fail(t)
  BY <1>4 DEF TypeOK, Fail, At, errvars, mainvars, clientvars
<1>5. CASE EndStep(t)
  BY <1>5 DEF TypeOK, EndStep, CloseState, Reported, Unlock, At,
     tudvars, callvars, errvars, mainvars, clientvars
<1>6. CASE Die(t)
  BY <1>6 DEF TypeOK, Die, Lock, tudvars, callvars, errvars, mainvars, clientvars
<1> QED BY <1>1, <1>2, <1>3, <1>4, <1>5, <1>6 DEF ThreadStep, StartStep

LEMMA TypeScript ==
  ASSUME TypeOK, MainInv, ScriptStep
  PROVE  TypeOK'
<1> USE ActorsApart
<1>1. CASE Ready
  BY <1>1 DEF TypeOK, MainInv, Ready, tudvars, threadvars, callvars, errvars, clientvars
<1>2. ASSUME NEW t \in Threads, ThreadCreate_(t) PROVE TypeOK'
  BY <1>2 DEF TypeOK, ThreadCreate_, callvars, errvars, clientvars
<1>3. ASSUME NEW c \in Clients, Activate(c) \/ Close(c) PROVE TypeOK'
  BY <1>3 DEF TypeOK, Activate, Close, tudvars, threadvars, callvars, errvars, mainvars
<1> QED BY <1>1, <1>2, <1>3 DEF ScriptStep

LEMMA TypeClose ==
  ASSUME TypeOK, MainInv, CloseStep
  PROVE  TypeOK'
<1> USE ActorsApart
<1>1. ASSUME NEW t \in Threads, Cancel(t) PROVE TypeOK'
  BY <1>1 DEF TypeOK, Cancel, tudvars, callvars, errvars, clientvars
<1>2. CASE Join
  BY <1>2 DEF TypeOK, MainInv, Join, callvars, errvars, clientvars
<1>3. CASE Closed
  BY <1>3 DEF TypeOK, MainInv, Closed, tudvars, threadvars, callvars, errvars
<1> QED BY <1>1, <1>2, <1>3 DEF CloseStep

LEMMA TypeCall ==
  ASSUME TypeOK, NEW a \in Actors, CallStep(a)
  PROVE  TypeOK'
<1> USE ActorsApart
<1>1. CASE Error(a)
  BY <1>1 DEF TypeOK, Error, Goto, tudvars, threadvars, errvars, mainvars, clientvars
<1>2. CASE SignalStep(a)
  <2>1. CASE TryLock(a) \/ SigUnlock(a)
    BY <2>1 DEF TypeOK, TryLock, SigUnlock, Goto, tudvars, threadvars, errvars, mainvars, clientvars
  <2>2. CASE CondSignal(a)
    BY <2>2 DEF TypeOK, CondSignal, Goto, tudvars, errvars, mainvars, clientvars
  <2> QED BY <1>2, <2>1, <2>2 DEF SignalStep
<1>3. CASE ErrorStep(a)
  <2>1. CASE ErrTry(a) \/ ErrCheck(a) \/ ErrUnlock(a)
    BY <2>1 DEF TypeOK, ErrTry, ErrCheck, ErrUnlock, Goto, tudvars, threadvars, errvars,
       mainvars, clientvars
  <2>2. CASE ErrWrite(a)
    BY <2>2 DEF TypeOK, ErrWrite, Goto, tudvars, threadvars, mainvars, clientvars
  <2>3. CASE ErrWritten(a)
    BY <2>3 DEF TypeOK, ErrWritten, Goto, tudvars, threadvars, mainvars, clientvars
  <2>4. CASE ErrStatus(a)
    BY <2>4 DEF TypeOK, ErrStatus, Goto, tudvars, threadvars, mainvars, clientvars
  <2> QED BY <1>3, <2>1, <2>2, <2>3, <2>4 DEF ErrorStep
<1>4. ASSUME NEW t \in Threads, Signal(a, t) PROVE TypeOK'
  BY <1>4 DEF TypeOK, Signal, Goto, tudvars, threadvars, errvars, mainvars, clientvars
<1> QED BY <1>1, <1>2, <1>3, <1>4 DEF CallStep

----------------------------------------------------------------------------
(* Errors: who is past ErrTry holds luajack_errlock.                       *)

LEMMA ErrCall ==
  ASSUME TypeOK, ErrInv, NEW a \in Actors, CallStep(a)
  PROVE  ErrInv'
<1> USE ActorsApart
<1>1. CASE Error(a)
  BY <1>1 DEF TypeOK, ErrInv, MessageWhole, InError, Error, Goto, errvars
<1>2. CASE SignalStep(a)
  <2>1. \E v \in {"idle", "signal", "sigunlock"} : apc' = [apc EXCEPT ![a] = v]
    BY <1>2 DEF SignalStep, TryLock, CondSignal, SigUnlock, Goto
  <2>2. UNCHANGED errvars
    BY <1>2 DEF SignalStep, TryLock, CondSignal, SigUnlock
  <2> QED BY <2>1, <2>2 DEF TypeOK, ErrInv, MessageWhole, InError, errvars
<1>3. CASE ErrTry(a)
  BY <1>3 DEF TypeOK, ErrInv, MessageWhole, InError, ErrTry, Goto
<1>4. CASE ErrCheck(a)
  BY <1>4 DEF TypeOK, ErrInv, MessageWhole, InError, ErrCheck, Goto, errvars
<1>5. CASE ErrWrite(a)
  BY <1>5 DEF TypeOK, ErrInv, MessageWhole, InError, ErrWrite, Goto
<1>6. CASE ErrWritten(a)
  <2>1. /\ apc[a] = "errwritten" /\ apc' = [apc EXCEPT ![a] = "errstatus"]
        /\ errmsg' = [errmsg EXCEPT !.whole = (errmsg.by = a)] /\ UNCHANGED <<errlock, exiting>>
    BY <1>6 DEF ErrWritten, Goto
  <2>2. errmsg \in [by : Actors \cup {Nobody}, whole : BOOLEAN] /\ errmsg.by = a /\ ~exiting
    BY <2>1 DEF TypeOK, ErrInv
  <2>3. errmsg' = [by |-> a, whole |-> TRUE]
    BY <2>1, <2>2
  <2> QED BY <2>1, <2>2, <2>3 DEF TypeOK, ErrInv, MessageWhole, InError
<1>7. CASE ErrStatus(a)
  BY <1>7 DEF TypeOK, ErrInv, MessageWhole, InError, ErrStatus, Goto
<1>8. CASE ErrUnlock(a)
  BY <1>8 DEF TypeOK, ErrInv, MessageWhole, InError, ErrUnlock, Goto
<1>9. ASSUME NEW t \in Threads, Signal(a, t) PROVE ErrInv'
  BY <1>9 DEF TypeOK, ErrInv, MessageWhole, InError, Signal, Goto, errvars
<1> QED BY <1>1, <1>2, <1>3, <1>4, <1>5, <1>6, <1>7, <1>8, <1>9 DEF CallStep, ErrorStep

LEMMA ErrKept == ASSUME ErrInv, UNCHANGED <<apc, errvars>> PROVE ErrInv'
  BY DEF ErrInv, MessageWhole, errvars

LEMMA ErrThread ==
  ASSUME TypeOK, ErrInv, NEW t \in Threads, ThreadStep(t)
  PROVE  ErrInv'
<1>1. CASE Fail(t)
  <2>1. apc' = [apc EXCEPT ![t] = "errtry"] /\ UNCHANGED <<errlock, errmsg, exiting>>
    BY <1>1 DEF Fail, errvars
  <2>2. \A a \in Actors : apc'[a] = IF a = t THEN "errtry" ELSE apc[a]
    BY <2>1, ActorsApart DEF TypeOK
  <2> QED BY <2>1, <2>2 DEF ErrInv, MessageWhole, InError
<1>2. CASE StartStep(t) \/ Finish(t) \/ EndStep(t) \/ Die(t)
  <2>1. UNCHANGED <<apc, errvars>>
    BY <1>2 DEF StartStep, Start, Run, Wait, WakeSpuriously, Relock, Finish, EndStep, CloseState,
       Reported, Unlock, Die, callvars
  <2> QED BY <2>1, ErrKept
<1> QED BY <1>1, <1>2 DEF ThreadStep

LEMMA ErrMain ==
  ASSUME ErrInv, ScriptStep \/ CloseStep
  PROVE  ErrInv'
<1>1. UNCHANGED <<apc, errvars>>
  BY DEF ScriptStep, Ready, ThreadCreate_, Activate, Close, CloseStep, Cancel, Join, Closed, callvars
<1> QED BY <1>1, ErrKept

----------------------------------------------------------------------------
(* The state of a thread: who closes it.                                   *)

LEMMA EntryKept == ASSUME EntryInv, UNCHANGED <<entry, state, tpc, closed>> PROVE EntryInv'
  BY DEF EntryInv

LEMMA EntryThread ==
  ASSUME TypeOK, EntryInv, NEW t \in Threads, ThreadStep(t)
  PROVE  EntryInv'
<1>1. CASE StartStep(t)
  <2>1. \E v \in {"spin", "script", "wait", "relock"} : tpc' = [tpc EXCEPT ![t] = v]
    BY <1>1 DEF StartStep, Start, Run, Wait, WakeSpuriously, Relock, At
  <2>2. tpc[t] \in {"start", "spin", "script", "wait", "relock"}
    BY <1>1 DEF StartStep, Start, Run, Wait, WakeSpuriously, Relock, At
  <2>3. UNCHANGED <<entry, state, closed>>
    BY <1>1 DEF StartStep, Start, Run, Wait, WakeSpuriously, Relock, tudvars
  <2> QED BY <2>1, <2>2, <2>3 DEF TypeOK, EntryInv, WithState
<1>2. CASE Finish(t)
  BY <1>2 DEF TypeOK, EntryInv, WithState, Finish, At
<1>3. CASE Fail(t)
  BY <1>3 DEF TypeOK, EntryInv, WithState, Fail, At
<1>4. CASE CloseState(t)
  BY <1>4 DEF TypeOK, EntryInv, WithState, CloseState, At, tudvars
<1>5. CASE Reported(t) \/ Unlock(t)
  BY <1>5 DEF TypeOK, EntryInv, WithState, Reported, Unlock, At, tudvars, threadvars
<1>6. CASE Die(t)
  <2>1. tpc' = [tpc EXCEPT ![t] = "exited"] /\ tpc[t] # "none"
    BY <1>6 DEF Die
  <2>2. UNCHANGED <<entry, state, closed>>
    BY <1>6 DEF Die, tudvars
  <2> QED BY <2>1, <2>2 DEF TypeOK, EntryInv, WithState
<1> QED BY <1>1, <1>2, <1>3, <1>4, <1>5, <1>6 DEF ThreadStep, EndStep

LEMMA EntryMain ==
  ASSUME TypeOK, EntryInv, MainInv, ScriptStep \/ CloseStep
  PROVE  EntryInv'
<1>1. ASSUME NEW t \in Threads, ThreadCreate_(t) PROVE EntryInv'
  BY <1>1 DEF TypeOK, EntryInv, WithState, ThreadCreate_
<1>2. CASE Join
  BY <1>2 DEF TypeOK, EntryInv, MainInv, WithState, Join
<1>3. CASE Ready \/ Closed
  BY <1>3, EntryKept DEF Ready, Closed, tudvars, threadvars
<1>4. ASSUME NEW t \in Threads, Cancel(t) PROVE EntryInv'
  BY <1>4, EntryKept DEF Cancel, tudvars
<1>5. ASSUME NEW c \in Clients, Activate(c) \/ Close(c) PROVE EntryInv'
  BY <1>5, EntryKept DEF Activate, Close, tudvars, threadvars
<1> QED BY <1>1, <1>2, <1>3, <1>4, <1>5 DEF ScriptStep, CloseStep

LEMMA EntryCall ==
  ASSUME TypeOK, EntryInv, NEW a \in Actors, CallStep(a)
  PROVE  EntryInv'
<1>1. CASE CondSignal(a)
  BY <1>1 DEF TypeOK, EntryInv, WithState, CondSignal, tudvars
<1>2. CASE Error(a) \/ ErrorStep(a) \/ TryLock(a) \/ SigUnlock(a)
  <2>1. UNCHANGED <<tudvars, threadvars>>
    BY <1>2 DEF Error, ErrorStep, ErrTry, ErrCheck, ErrWrite, ErrWritten, ErrStatus, ErrUnlock,
       TryLock, SigUnlock
  <2> QED BY <2>1, EntryKept DEF tudvars, threadvars
<1>3. ASSUME NEW t \in Threads, Signal(a, t) PROVE EntryInv'
  BY <1>3, EntryKept DEF Signal, tudvars, threadvars
<1> QED BY <1>1, <1>2, <1>3 DEF CallStep, SignalStep

----------------------------------------------------------------------------
(* The main thread.                                                        *)

LEMMA MainKept ==
  ASSUME MainInv, UNCHANGED mainvars, UNCHANGED <<entry, active>>
  PROVE  MainInv'
  BY DEF MainInv, mainvars

LEMMA MainOthers ==
  ASSUME MainInv,
         (\E t \in Threads : ThreadStep(t)) \/ (\E a \in Actors : CallStep(a))
  PROVE  MainInv'
<1>1. ASSUME NEW t \in Threads, ThreadStep(t) PROVE MainInv'
  <2>1. UNCHANGED mainvars /\ UNCHANGED <<entry, active>>
    BY <1>1 DEF ThreadStep, StartStep, Start, Run, Wait, WakeSpuriously, Relock, Finish, Fail,
       EndStep, CloseState, Reported, Unlock, Die, tudvars, clientvars
  <2> QED BY <2>1, MainKept
<1>2. ASSUME NEW a \in Actors, CallStep(a) PROVE MainInv'
  <2>1. UNCHANGED mainvars /\ UNCHANGED <<entry, active>>
    BY <1>2 DEF CallStep, Error, SignalStep, TryLock, CondSignal, SigUnlock, ErrorStep, ErrTry,
       ErrCheck, ErrWrite, ErrWritten, ErrStatus, ErrUnlock, Signal, tudvars, clientvars
  <2> QED BY <2>1, MainKept
<1> QED BY <1>1, <1>2

LEMMA MainMain ==
  ASSUME TypeOK, MainInv, ScriptStep \/ CloseStep
  PROVE  MainInv'
<1>1. CASE Ready
  BY <1>1 DEF MainInv, Ready, clientvars
<1>2. ASSUME NEW t \in Threads, ThreadCreate_(t) PROVE MainInv'
  BY <1>2 DEF MainInv, ThreadCreate_, clientvars
<1>3. ASSUME NEW c \in Clients, Activate(c) \/ Close(c) PROVE MainInv'
  BY <1>3 DEF MainInv, Activate, Close, InScript, mainvars
<1>4. ASSUME NEW t \in Threads, Cancel(t) PROVE MainInv'
  BY <1>4 DEF MainInv, Cancel, tudvars, clientvars
<1>5. CASE Join
  BY <1>5 DEF MainInv, Join, clientvars
<1>6. CASE Closed
  BY <1>6 DEF MainInv, Closed
<1> QED BY <1>1, <1>2, <1>3, <1>4, <1>5, <1>6 DEF ScriptStep, CloseStep

----------------------------------------------------------------------------
LEMMA InitInv == Init => IInv
<1> SUFFICES ASSUME Init PROVE IInv
  OBVIOUS
<1>1. TypeOK
  BY InitType
<1>2. ErrInv
  BY DEF Init, ErrInv, InError, MessageWhole
<1>3. EntryInv
  BY DEF Init, EntryInv, WithState
<1>4. MainInv
  BY DEF Init, MainInv
<1> QED BY <1>1, <1>2, <1>3, <1>4 DEF IInv

LEMMA NextInv == ASSUME IInv, [Next]_vars PROVE IInv'
<1>1. TypeOK /\ ErrInv /\ EntryInv /\ MainInv
  BY DEF IInv
<1>2. CASE Next
  <2>1. ASSUME NEW t \in Threads, ThreadStep(t) PROVE IInv'
    BY <1>1, <2>1, TypeThread, ErrThread, EntryThread, MainOthers DEF IInv
  <2>2. ASSUME NEW a \in Actors, CallStep(a) PROVE IInv'
    BY <1>1, <2>2, TypeCall, ErrCall, EntryCall, MainOthers DEF IInv
  <2>3. CASE ScriptStep \/ CloseStep
    BY <1>1, <2>3, TypeScript, TypeClose, ErrMain, EntryMain, MainMain DEF IInv
  <2> QED BY <1>2, <2>1, <2>2, <2>3, Steps
<1>3. CASE UNCHANGED vars
  <2>1. UNCHANGED <<entry, status, state, lock, tpc, cancelled, closed, apc, sig, errlock, errmsg,
                    exiting, mpc, cur, job, opened, active, owed>>
    BY <1>3 DEF vars, tudvars, threadvars, callvars, errvars, mainvars, clientvars
  <2>2. TypeOK'
    BY <1>1, <2>1 DEF TypeOK
  <2> QED BY <1>1, <2>1, <2>2, ErrKept, EntryKept, MainKept DEF IInv, errvars, mainvars
<1> QED BY <1>2, <1>3

(* The invariant of threads and errors, whatever is signalled.             *)
THEOREM Inductive == Spec => []IInv
<1>1. IInv /\ [Next]_vars => IInv'
  BY NextInv
<1> QED BY <1>1, InitInv, PTL DEF Spec

(* The variables of Threads keep their types.                              *)
THEOREM TypesHold == Spec => []TypeOK
<1>1. IInv => TypeOK
  BY DEF IInv
<1> QED BY <1>1, Inductive, PTL

(* The Lua state of a thread is never closed twice, by the thread and by   *)
(* client_close(), wherever the thread is cancelled.                       *)
THEOREM StatesClosedOnce == Spec => []ClosedOnce
<1>1. IInv => ClosedOnce
  BY DEF IInv, EntryInv, ClosedOnce
<1> QED BY <1>1, Inductive, PTL

(* Whoever finds the exit status set finds the whole message of an error,  *)
(* though luajack_errorv_() is called by any number of contexts at once.   *)
THEOREM MessageIsWhole == Spec => []MessageWhole
<1>1. IInv => MessageWhole
  BY DEF IInv, ErrInv
<1> QED BY <1>1, Inductive, PTL

(* Once the exit status is set no error changes the message.               *)
THEOREM FirstErrorStays == Spec => FirstErrorKept
<1>1. ASSUME IInv, [Next]_vars PROVE exiting => exiting' /\ UNCHANGED errmsg
  <2>1. TypeOK /\ ErrInv
    BY <1>1 DEF IInv
  <2>2. ASSUME NEW a \in Actors, CallStep(a) PROVE exiting => exiting' /\ UNCHANGED errmsg
    <3>1. CASE ErrWrite(a) \/ ErrWritten(a) \/ ErrStatus(a)
      BY <2>1, <3>1 DEF ErrInv, ErrWrite, ErrWritten, ErrStatus, Goto
    <3>2. CASE Error(a) \/ SignalStep(a) \/ ErrTry(a) \/ ErrCheck(a) \/ ErrUnlock(a)
      BY <3>2 DEF Error, SignalStep, TryLock, CondSignal, SigUnlock, ErrTry, ErrCheck, ErrUnlock,
         errvars
    <3>3. ASSUME NEW t \in Threads, Signal(a, t) PROVE UNCHANGED errvars
      BY <3>3 DEF Signal
    <3> QED BY <2>2, <3>1, <3>2, <3>3 DEF CallStep, ErrorStep, errvars
  <2>3. ASSUME NEW t \in Threads, ThreadStep(t) PROVE UNCHANGED errvars
    BY <2>3 DEF ThreadStep, StartStep, Start, Run, Wait, WakeSpuriously, Relock, Finish, Fail,
       EndStep, CloseState, Reported, Unlock, Die
  <2>4. CASE ScriptStep \/ CloseStep
    <3>1. UNCHANGED errvars
      BY <2>4 DEF ScriptStep, Ready, ThreadCreate_, Activate, Close, CloseStep, Cancel, Join, Closed
    <3> QED BY <3>1 DEF errvars
  <2>5. CASE UNCHANGED vars
    BY <2>5 DEF vars, errvars
  <2> QED BY <1>1, <2>2, <2>3, <2>4, <2>5, Steps DEF errvars
<1>2. IInv /\ [Next]_vars => [exiting => exiting' /\ UNCHANGED errmsg]_vars
  BY <1>1
<1> QED BY <1>2, Inductive, PTL DEF Spec, FirstErrorKept

----------------------------------------------------------------------------
(* Signals, when no thread signals another. What a context that signals    *)
(* holds or uses.                                                          *)

NoThreadSignals == Signallers \cap Threads = {}

LEMMA SigKept ==
  ASSUME SigInv, UNCHANGED <<entry, apc, sig, mpc>>, active \subseteq active'
  PROVE  SigInv'
  BY DEF SigInv, Own

LEMMA SigThread ==
  ASSUME TypeOK, SigInv, NEW t \in Threads, ThreadStep(t)
  PROVE  SigInv'
<1>1. CASE Fail(t)
  <2>1. apc' = [apc EXCEPT ![t] = "errtry"] /\ UNCHANGED <<entry, sig, mpc, active>>
    BY <1>1 DEF Fail, mainvars, clientvars
  <2>2. \A a \in Actors : apc'[a] = IF a = t THEN "errtry" ELSE apc[a]
    BY <2>1, ActorsApart DEF TypeOK
  <2> QED BY <2>1, <2>2, ActorsApart DEF SigInv, InSignal
<1>2. CASE StartStep(t) \/ Finish(t) \/ EndStep(t) \/ Die(t)
  <2>1. UNCHANGED <<entry, apc, sig, mpc, active>>
    BY <1>2 DEF StartStep, Start, Run, Wait, WakeSpuriously, Relock, Finish, EndStep, CloseState,
       Reported, Unlock, Die, tudvars, callvars, mainvars, clientvars
  <2> QED BY <2>1, SigKept
<1> QED BY <1>1, <1>2 DEF ThreadStep

LEMMA SigMain ==
  ASSUME TypeOK, MainInv, SigInv, ScriptStep \/ CloseStep
  PROVE  SigInv'
<1>1. CASE Ready
  BY <1>1 DEF SigInv, Ready, callvars, clientvars
<1>2. ASSUME NEW t \in Threads, ThreadCreate_(t) PROVE SigInv'
  BY <1>2 DEF TypeOK, SigInv, ThreadCreate_, InScript, callvars, clientvars
<1>3. ASSUME NEW c \in Clients, Activate(c) PROVE SigInv'
  BY <1>3 DEF SigInv, Activate, tudvars, callvars, mainvars
<1>4. ASSUME NEW c \in Clients, Close(c) PROVE SigInv'
  BY <1>4 DEF SigInv, Close, InScript, tudvars, callvars
<1>5. ASSUME NEW t \in Threads, Cancel(t) PROVE SigInv'
  BY <1>5 DEF SigInv, Cancel, tudvars, callvars, clientvars
<1>6. CASE Join
  <2>1. /\ mpc = "join" /\ cur \in Clients \ active /\ job \in Threads /\ Owner[job] = cur
        /\ entry' = [entry EXCEPT ![job] = "closed"]
        /\ UNCHANGED <<apc, sig, active>>
    BY <1>6 DEF MainInv, Join, callvars, clientvars
  <2>2. apc["main"] = "idle"
    BY <2>1 DEF SigInv
  <2>3. ASSUME NEW a \in Actors, apc[a] \in InSignal
        PROVE  /\ a \notin Threads /\ sig[a] \in Threads /\ entry'[sig[a]] # "none"
               /\ Own(a, sig[a]) => entry'[sig[a]] = "valid"
    <3>1. /\ a \notin Threads /\ sig[a] \in Threads /\ entry[sig[a]] # "none"
          /\ Own(a, sig[a]) => entry[sig[a]] = "valid"
      BY <2>3 DEF SigInv
    <3>2. a \in Clients /\ a \in active
      BY <2>2, <2>3, <3>1 DEF SigInv, InSignal, Actors
    <3>3. Own(a, sig[a]) => sig[a] # job
      BY <2>1, <3>1, <3>2 DEF Own
    <3> QED BY <2>1, <3>1, <3>3 DEF TypeOK
  <2>4. /\ apc'["main"] = "idle"
        /\ \A c \in Clients : apc'[c] # "idle" => c \in active'
    BY <2>1, <2>2 DEF SigInv
  <2> QED BY <2>1, <2>3, <2>4 DEF SigInv, Own
<1>7. CASE Closed
  BY <1>7 DEF SigInv, Closed, tudvars, callvars
<1> QED BY <1>1, <1>2, <1>3, <1>4, <1>5, <1>6, <1>7 DEF ScriptStep, CloseStep

LEMMA SigCall ==
  ASSUME NoThreadSignals, TypeOK, SigInv, NEW a \in Actors, CallStep(a)
  PROVE  SigInv'
<1>1. ASSUME NEW t \in Threads, Signal(a, t) PROVE SigInv'
  <2>1. /\ Runs(a) /\ a \in Signallers
        /\ entry[t] = "valid" /\ UNCHANGED <<entry, mpc, active>>
        /\ apc' = [apc EXCEPT ![a] = "trylock"] /\ sig' = [sig EXCEPT ![a] = t]
    BY <1>1 DEF Signal, Goto, tudvars, mainvars, clientvars
  <2>2. a \notin Threads
    BY <2>1 DEF NoThreadSignals
  <2>3. /\ a = "main" => mpc = "script"
        /\ a \in Clients => a \in active
    BY <2>1, <2>2, ActorsApart DEF Runs, TypeOK
  <2> QED BY <2>1, <2>2, <2>3, ActorsApart DEF TypeOK, SigInv, InSignal
<1>2. CASE Error(a)
  <2>1. Runs(a) /\ apc' = [apc EXCEPT ![a] = "errtry"] /\ UNCHANGED <<entry, sig, mpc, active>>
    BY <1>2 DEF Error, Goto, tudvars, mainvars, clientvars
  <2>2. /\ a = "main" => mpc = "script"
        /\ a \in Clients => a \in active
    BY <2>1, ActorsApart DEF Runs, TypeOK
  <2> QED BY <2>1, <2>2, ActorsApart DEF TypeOK, SigInv, InSignal
<1>3. CASE SignalStep(a)
  <2>1. /\ apc[a] \in InSignal
        /\ \/ apc' = [apc EXCEPT ![a] = "idle"] /\ sig' = [sig EXCEPT ![a] = Nobody]
           \/ \E v \in InSignal : apc' = [apc EXCEPT ![a] = v] /\ UNCHANGED sig
        /\ UNCHANGED <<entry, mpc, active>>
    BY <1>3 DEF SignalStep, TryLock, CondSignal, SigUnlock, Goto, InSignal, tudvars, mainvars,
       clientvars
  <2>2. apc[a] # "idle"
    BY <2>1 DEF InSignal
  <2>3. CASE apc' = [apc EXCEPT ![a] = "idle"] /\ sig' = [sig EXCEPT ![a] = Nobody]
    BY <2>1, <2>3 DEF TypeOK, SigInv, InSignal
  <2>4. ASSUME NEW v \in InSignal, apc' = [apc EXCEPT ![a] = v], UNCHANGED sig PROVE SigInv'
    BY <2>1, <2>2, <2>4 DEF TypeOK, SigInv
  <2> QED BY <2>1, <2>3, <2>4
<1>4. CASE ErrorStep(a)
  <2>1. /\ apc[a] # "idle" /\ \E v \in InError \cup {"idle"} : apc' = [apc EXCEPT ![a] = v]
        /\ UNCHANGED <<entry, sig, mpc, active>>
    BY <1>4 DEF ErrorStep, ErrTry, ErrCheck, ErrWrite, ErrWritten, ErrStatus, ErrUnlock, Goto,
       InError, tudvars, mainvars, clientvars
  <2> QED BY <2>1 DEF TypeOK, SigInv, InSignal, InError
<1> QED BY <1>1, <1>2, <1>3, <1>4 DEF CallStep

----------------------------------------------------------------------------
(* Locks.                                                                  *)

LEMMA LockKept ==
  ASSUME LockInv, UNCHANGED <<entry, lock, tpc, sig, owed>>,
         \A a \in Actors :
           apc'[a] = apc[a] \/ (/\ apc[a] \notin {"signal", "sigunlock"}
                               /\ apc'[a] \notin {"signal", "sigunlock"})
  PROVE  LockInv'
  BY DEF LockInv

LEMMA LockThread ==
  ASSUME TypeOK, EntryInv, SigInv, LockInv, NEW t \in Threads, ThreadStep(t)
  PROVE  LockInv'
<1> USE ActorsApart
<1>1. CASE Start(t) \/ Relock(t)
  <2>1. /\ tpc[t] \in {"start", "relock"} /\ lock[t] = Free
        /\ \E v \in {"spin", "script"} : tpc' = [tpc EXCEPT ![t] = v]
        /\ lock' = [lock EXCEPT ![t] = t] /\ UNCHANGED <<entry, apc, sig, owed>>
    BY <1>1 DEF Start, Relock, At, Lock, tudvars, callvars
  <2> QED BY <2>1 DEF TypeOK, EntryInv, LockInv, WithLock
<1>2. CASE Run(t) \/ Finish(t) \/ CloseState(t) \/ Reported(t)
  <2>1. /\ tpc[t] \in WithLock /\ \E v \in WithLock : tpc' = [tpc EXCEPT ![t] = v]
        /\ UNCHANGED <<entry, lock, apc, sig, owed>>
    BY <1>2 DEF Run, Finish, CloseState, Reported, At, WithLock, tudvars, callvars
  <2> QED BY <2>1 DEF TypeOK, LockInv, WithLock
<1>3. CASE Fail(t)
  <2>1. /\ tpc[t] \in WithLock /\ \E v \in WithLock : tpc' = [tpc EXCEPT ![t] = v]
        /\ apc[t] = "idle" /\ apc' = [apc EXCEPT ![t] = "errtry"]
        /\ UNCHANGED <<entry, lock, sig, owed>>
    BY <1>3 DEF Fail, At, WithLock
  <2> QED BY <2>1 DEF TypeOK, LockInv, WithLock
<1>4. CASE Wait(t)
  BY <1>4 DEF TypeOK, EntryInv, LockInv, WithLock, Wait, At, tudvars, callvars
<1>5. CASE WakeSpuriously(t)
  BY <1>5 DEF TypeOK, LockInv, WithLock, WakeSpuriously, At, tudvars, callvars
<1>6. CASE Unlock(t)
  <2>1. /\ tpc[t] = "unlock" /\ tpc' = [tpc EXCEPT ![t] = "exited"]
        /\ lock' = [lock EXCEPT ![t] = Free] /\ UNCHANGED <<entry, apc, sig, owed>>
    BY <1>6 DEF Unlock, At, tudvars, callvars
  <2>2. lock[t] = t /\ entry[t] # "closed"
    BY <2>1 DEF LockInv, EntryInv, WithLock
  <2>3. \A a \in Actors : apc[a] \in {"signal", "sigunlock"} =>
          sig[a] \in Threads /\ sig[a] # t
    BY <2>2 DEF LockInv, SigInv, InSignal
  <2> QED BY <2>1, <2>2, <2>3 DEF TypeOK, LockInv, WithLock
<1>7. CASE Die(t)
  <2>1. tpc' = [tpc EXCEPT ![t] = "exited"] /\ UNCHANGED <<entry, apc, sig, owed>>
    BY <1>7 DEF Die, tudvars, callvars
  <2>2. CASE tpc[t] = "wait" /\ lock[t] = Free /\ lock' = [lock EXCEPT ![t] = t]
    <3>1. \A a \in Actors : apc[a] \in {"signal", "sigunlock"} =>
            sig[a] \in Threads /\ sig[a] # t
      BY <2>2 DEF LockInv, SigInv, InSignal
    <3> QED BY <2>1, <2>2, <3>1 DEF TypeOK, LockInv, WithLock
  <2>3. CASE tpc[t] \notin {"none", "wait", "exited"} /\ UNCHANGED lock
    BY <2>1, <2>3 DEF TypeOK, LockInv, WithLock
  <2> QED BY <1>7, <2>2, <2>3 DEF Die, Lock
<1> QED BY <1>1, <1>2, <1>3, <1>4, <1>5, <1>6, <1>7 DEF ThreadStep, StartStep, EndStep

LEMMA LockMain ==
  ASSUME TypeOK, EntryInv, MainInv, SigInv, LockInv, ScriptStep \/ CloseStep
  PROVE  LockInv'
<1> USE ActorsApart
<1>1. CASE Ready \/ Closed
  BY <1>1, LockKept DEF Ready, Closed, tudvars, threadvars, callvars
<1>2. ASSUME NEW t \in Threads, Cancel(t) PROVE LockInv'
  BY <1>2, LockKept DEF Cancel, tudvars, callvars
<1>3. ASSUME NEW c \in Clients, Activate(c) \/ Close(c) PROVE LockInv'
  BY <1>3, LockKept DEF Activate, Close, tudvars, threadvars, callvars
<1>4. ASSUME NEW t \in Threads, ThreadCreate_(t) PROVE LockInv'
  <2>1. /\ entry[t] = "none" /\ entry' = [entry EXCEPT ![t] = "valid"]
        /\ tpc' = [tpc EXCEPT ![t] = "start"] /\ UNCHANGED <<lock, apc, sig, owed>>
    BY <1>4 DEF ThreadCreate_, callvars
  <2>2. tpc[t] = "none"
    BY <2>1 DEF EntryInv
  <2> QED BY <2>1, <2>2 DEF TypeOK, LockInv, WithLock
<1>5. CASE Join
  <2>1. /\ job \in Threads /\ tpc[job] = "exited" /\ entry' = [entry EXCEPT ![job] = "closed"]
        /\ lock' = [lock EXCEPT ![job] = Destroyed] /\ UNCHANGED <<tpc, apc, sig, owed>>
        /\ Owner[job] = cur /\ mpc = "join" /\ cur \notin active
    BY <1>5 DEF MainInv, Join, callvars
  <2>2. ASSUME NEW a \in Actors, apc[a] \in {"signal", "sigunlock"}
        PROVE  sig[a] \in Threads /\ lock'[sig[a]] \in {a, Destroyed}
    <3>1. sig[a] \in Threads /\ lock[sig[a]] \in {a, Destroyed}
      BY <2>2 DEF SigInv, InSignal, LockInv
    <3> QED BY <2>1, <3>1 DEF TypeOK
  <2>3. \A t \in Threads : lock'[t] = (IF t = job THEN Destroyed ELSE lock[t])
                           /\ entry'[t] = (IF t = job THEN "closed" ELSE entry[t])
    BY <2>1 DEF TypeOK
  <2>4. job \in Threads /\ tpc[job] \notin WithLock
    BY <2>1 DEF WithLock
  <2> QED BY <2>1, <2>2, <2>3, <2>4 DEF LockInv
<1> QED BY <1>1, <1>2, <1>3, <1>4, <1>5 DEF ScriptStep, CloseStep

LEMMA LockCall ==
  ASSUME TypeOK, EntryInv, SigInv, LockInv, NEW a \in Actors, CallStep(a)
  PROVE  LockInv'
<1> USE ActorsApart
<1>1. CASE Error(a) \/ ErrorStep(a)
  <2>1. /\ apc[a] \notin {"signal", "sigunlock"}
        /\ \E v \in InError \cup {"idle", "errtry"} : apc' = [apc EXCEPT ![a] = v]
        /\ UNCHANGED <<entry, lock, tpc, sig, owed>>
    BY <1>1 DEF Error, ErrorStep, ErrTry, ErrCheck, ErrWrite, ErrWritten, ErrStatus, ErrUnlock, Goto,
       InError, tudvars, threadvars
  <2> QED BY <2>1, LockKept DEF TypeOK, InError
<1>2. ASSUME NEW t \in Threads, Signal(a, t) PROVE LockInv'
  <2>1. /\ apc[a] = "idle" /\ apc' = [apc EXCEPT ![a] = "trylock"]
        /\ sig' = [sig EXCEPT ![a] = t] /\ owed' = [owed EXCEPT ![t] = (tpc[t] = "wait")]
        /\ UNCHANGED <<entry, lock, tpc>>
    BY <1>2 DEF Signal, Goto, tudvars, threadvars
  <2>2. \A u \in Threads : owed'[u] => owed[u] \/ tpc[u] = "wait"
    BY <2>1 DEF TypeOK
  <2> QED BY <2>1, <2>2 DEF TypeOK, LockInv
<1>3. CASE TryLock(a)
  <2>1. CASE lock[sig[a]] = Free /\ apc' = [apc EXCEPT ![a] = "signal"]
             /\ lock' = [lock EXCEPT ![sig[a]] = a] /\ UNCHANGED sig
    <3>1. /\ sig[a] \in Threads /\ a \notin Threads
          /\ apc[a] = "trylock" /\ UNCHANGED <<entry, tpc, owed>>
      BY <1>3 DEF SigInv, InSignal, TryLock, tudvars, threadvars
    <3> QED BY <2>1, <3>1 DEF TypeOK, LockInv, WithLock
  <2>2. CASE apc' = [apc EXCEPT ![a] = "idle"] /\ sig' = [sig EXCEPT ![a] = Nobody]
             /\ UNCHANGED lock
    <3>1. apc[a] = "trylock" /\ UNCHANGED <<entry, tpc, owed>>
      BY <1>3 DEF TryLock, tudvars, threadvars
    <3> QED BY <2>2, <3>1 DEF TypeOK, LockInv
  <2>3. CASE lock[sig[a]] = Destroyed /\ apc' = [apc EXCEPT ![a] = "signal"]
             /\ UNCHANGED <<lock, sig>>
    <3>1. sig[a] \in Threads /\ apc[a] = "trylock" /\ UNCHANGED <<entry, tpc, owed>>
      BY <1>3 DEF SigInv, InSignal, TryLock, tudvars, threadvars
    <3> QED BY <2>3, <3>1 DEF TypeOK, LockInv
  <2> QED BY <1>3, <2>1, <2>2, <2>3 DEF TryLock, Goto
<1>4. CASE CondSignal(a)
  <2>1. /\ apc[a] = "signal" /\ apc' = [apc EXCEPT ![a] = "sigunlock"]
        /\ UNCHANGED <<entry, lock, sig>>
    BY <1>4 DEF CondSignal, Goto, tudvars
  <2>2. sig[a] \in Threads /\ a \notin Threads /\ lock[sig[a]] \in {a, Destroyed}
    BY <2>1 DEF SigInv, InSignal, LockInv
  <2>3. CASE /\ tpc[sig[a]] = "wait" /\ tpc' = [tpc EXCEPT ![sig[a]] = "relock"]
             /\ owed' = [owed EXCEPT ![sig[a]] = FALSE]
    BY <2>1, <2>2, <2>3 DEF TypeOK, LockInv, WithLock
  <2>4. CASE tpc[sig[a]] # "wait" /\ UNCHANGED <<tpc, owed>>
    BY <2>1, <2>2, <2>4 DEF TypeOK, LockInv, WithLock
  <2> QED BY <1>4, <2>3, <2>4 DEF CondSignal
<1>5. CASE SigUnlock(a)
  <2>1. /\ apc[a] = "sigunlock" /\ apc' = [apc EXCEPT ![a] = "idle"]
        /\ lock' = [lock EXCEPT ![sig[a]] = IF @ = Destroyed THEN Destroyed ELSE Free]
        /\ sig' = [sig EXCEPT ![a] = Nobody]
        /\ UNCHANGED <<entry, tpc, owed>>
    BY <1>5 DEF SigUnlock, Goto, tudvars, threadvars
  <2>2. sig[a] \in Threads /\ a \notin Threads /\ lock[sig[a]] \in {a, Destroyed}
    BY <2>1 DEF SigInv, InSignal, LockInv
  <2> QED BY <2>1, <2>2 DEF TypeOK, LockInv, WithLock
<1> QED BY <1>1, <1>2, <1>3, <1>4, <1>5 DEF CallStep, SignalStep

----------------------------------------------------------------------------
(* A thread that waits and was sent a signal will get it.                  *)

LEMMA WakesKept ==
  ASSUME SigInv, SignalWakes,
         \A t \in Threads : owed'[t] /\ tpc'[t] = "wait" => owed[t] /\ tpc[t] = "wait",
         \A a \in Actors : apc[a] \in {"trylock", "signal"} =>
           apc'[a] \in {"trylock", "signal"} /\ sig'[a] = sig[a]
  PROVE  SignalWakes'
<1> SUFFICES ASSUME NEW t \in Threads, owed'[t], tpc'[t] = "wait"
             PROVE  \E a \in Actors : /\ Alive(a)'
                                      /\ sig'[a] = t /\ apc'[a] \in {"trylock", "signal"}
  BY DEF SignalWakes
<1>1. PICK a \in Actors : sig[a] = t /\ apc[a] \in {"trylock", "signal"}
  BY DEF SignalWakes
<1>2. Alive(a)'
  BY <1>1 DEF SigInv, InSignal, Alive
<1> QED BY <1>1, <1>2

LEMMA WakesThread ==
  ASSUME TypeOK, SigInv, LockInv, SignalWakes, NEW t \in Threads, ThreadStep(t)
  PROVE  SignalWakes'
<1>1. CASE Fail(t)
  <2>1. /\ tpc' = [tpc EXCEPT ![t] = "failed"] /\ apc[t] = "idle"
        /\ apc' = [apc EXCEPT ![t] = "errtry"] /\ UNCHANGED <<sig, owed>>
    BY <1>1 DEF Fail, At
  <2>2. \A u \in Threads : tpc'[u] = "wait" => tpc[u] = "wait"
    BY <2>1 DEF TypeOK
  <2>3. \A a \in Actors : apc[a] \in {"trylock", "signal"} => apc'[a] = apc[a]
    BY <2>1 DEF TypeOK
  <2> QED BY <2>1, <2>2, <2>3, WakesKept
<1>2. CASE Wait(t)
  <2>1. tpc[t] = "script" /\ tpc' = [tpc EXCEPT ![t] = "wait"] /\ UNCHANGED <<apc, sig, owed>>
    BY <1>2 DEF Wait, At, callvars
  <2>2. ~owed[t]
    BY <2>1 DEF LockInv
  <2>3. \A u \in Threads : owed'[u] /\ tpc'[u] = "wait" => owed[u] /\ tpc[u] = "wait"
    BY <2>1, <2>2 DEF TypeOK
  <2> QED BY <2>1, <2>3, WakesKept
<1>3. CASE Start(t) \/ Run(t) \/ WakeSpuriously(t) \/ Relock(t) \/ Finish(t) \/ EndStep(t) \/ Die(t)
  <2>1. \E v \in {"spin", "script", "relock", "close", "unlock", "exited"} :
          tpc' = [tpc EXCEPT ![t] = v]
    BY <1>3 DEF Start, Run, WakeSpuriously, Relock, Finish, EndStep, CloseState, Reported, Unlock,
       Die, At
  <2>2. UNCHANGED <<apc, sig>> /\ (UNCHANGED owed \/ owed' = [owed EXCEPT ![t] = FALSE])
    BY <1>3 DEF Start, Run, WakeSpuriously, Relock, Finish, EndStep, CloseState, Reported, Unlock,
       Die, callvars
  <2>3. \A u \in Threads : tpc'[u] = "wait" => tpc[u] = "wait"
    BY <2>1 DEF TypeOK
  <2>4. \A u \in Threads : owed'[u] => owed[u]
    BY <2>2 DEF TypeOK
  <2> QED BY <2>2, <2>3, <2>4, WakesKept
<1> QED BY <1>1, <1>2, <1>3 DEF ThreadStep, StartStep

LEMMA WakesMain ==
  ASSUME TypeOK, SigInv, SignalWakes, ScriptStep \/ CloseStep
  PROVE  SignalWakes'
<1>1. UNCHANGED <<apc, sig, owed>>
  BY DEF ScriptStep, Ready, ThreadCreate_, Activate, Close, CloseStep, Cancel, Join, Closed, callvars
<1>2. UNCHANGED tpc \/ \E t \in Threads : tpc' = [tpc EXCEPT ![t] = "start"]
  BY DEF ScriptStep, Ready, ThreadCreate_, Activate, Close, CloseStep, Cancel, Join, Closed,
     threadvars
<1>3. \A u \in Threads : tpc'[u] = "wait" => tpc[u] = "wait"
  BY <1>2 DEF TypeOK
<1> QED BY <1>1, <1>3, WakesKept

LEMMA WakesCall ==
  ASSUME TypeOK, EntryInv, SigInv, LockInv, SigInv', SignalWakes, NEW a \in Actors, CallStep(a)
  PROVE  SignalWakes'
<1> USE ActorsApart
<1>1. CASE Error(a) \/ ErrorStep(a) \/ SigUnlock(a)
  <2>1. /\ apc[a] \notin {"trylock", "signal"} /\ UNCHANGED <<tpc, owed>>
        /\ \E v \in InError \cup {"idle", "errtry"} : apc' = [apc EXCEPT ![a] = v]
        /\ (UNCHANGED sig \/ sig' = [sig EXCEPT ![a] = Nobody])
    BY <1>1 DEF Error, ErrorStep, ErrTry, ErrCheck, ErrWrite, ErrWritten, ErrStatus, ErrUnlock,
       SigUnlock, Goto, InError, threadvars
  <2>2. \A b \in Actors : apc[b] \in {"trylock", "signal"} => apc'[b] = apc[b] /\ sig'[b] = sig[b]
    BY <2>1 DEF TypeOK
  <2> QED BY <2>1, <2>2, WakesKept
<1>2. ASSUME NEW t \in Threads, Signal(a, t) PROVE SignalWakes'
  <2>1. /\ apc[a] = "idle" /\ apc' = [apc EXCEPT ![a] = "trylock"]
        /\ sig' = [sig EXCEPT ![a] = t] /\ owed' = [owed EXCEPT ![t] = (tpc[t] = "wait")]
        /\ UNCHANGED tpc
    BY <1>2 DEF Signal, Goto, threadvars
  <2> SUFFICES ASSUME NEW u \in Threads, owed'[u], tpc'[u] = "wait"
               PROVE  \E b \in Actors : /\ Alive(b)'
                                        /\ sig'[b] = u /\ apc'[b] \in {"trylock", "signal"}
    BY DEF SignalWakes
  <2>2. CASE u = t
    <3>1. sig'[a] = t /\ apc'[a] = "trylock"
      BY <2>1 DEF TypeOK
    <3>2. Alive(a)'
      BY <3>1 DEF SigInv, InSignal, Alive
    <3> QED BY <2>2, <3>1, <3>2
  <2>3. CASE u # t
    <3>1. owed[u] /\ tpc[u] = "wait"
      BY <2>1, <2>3 DEF TypeOK
    <3>2. PICK b \in Actors : sig[b] = u /\ apc[b] \in {"trylock", "signal"}
      BY <3>1 DEF SignalWakes
    <3>3. sig'[b] = u /\ apc'[b] \in {"trylock", "signal"}
      BY <2>1, <3>2 DEF TypeOK
    <3>4. Alive(b)'
      BY <3>2 DEF SigInv, InSignal, Alive
    <3> QED BY <3>3, <3>4
  <2> QED BY <2>2, <2>3
<1>3. CASE TryLock(a)
  <2>1. apc[a] = "trylock" /\ UNCHANGED <<tpc, owed>>
    BY <1>3 DEF TryLock, threadvars
  <2>2. CASE apc' = [apc EXCEPT ![a] = "signal"] /\ UNCHANGED sig
    BY <2>1, <2>2, WakesKept DEF TypeOK
  <2>3. CASE lock[sig[a]] # Free /\ apc' = [apc EXCEPT ![a] = "idle"]
             /\ sig' = [sig EXCEPT ![a] = Nobody]
    <3>1. \A b \in Actors : b # a => apc'[b] = apc[b] /\ sig'[b] = sig[b]
      BY <2>3 DEF TypeOK
    <3> SUFFICES ASSUME NEW u \in Threads, owed[u], tpc[u] = "wait"
                 PROVE  \E b \in Actors : /\ Alive(b)'
                                          /\ sig'[b] = u /\ apc'[b] \in {"trylock", "signal"}
      BY <2>1 DEF SignalWakes
    <3>2. PICK b \in Actors : sig[b] = u /\ apc[b] \in {"trylock", "signal"}
      BY DEF SignalWakes
    <3>3. CASE b # a
      BY <3>1, <3>2, <3>3 DEF SigInv, InSignal, Alive
    <3>4. CASE b = a
      <4>1. PICK d \in Actors : d = lock[u]
        <5>1. lock[u] # Free /\ lock[u] \in Actors \cup {Free, Destroyed}
          BY <2>3, <3>2, <3>4 DEF TypeOK
        <5>2. lock[u] # Destroyed
          BY DEF EntryInv, LockInv
        <5> QED BY <5>1, <5>2
      <4>2. sig[d] = u /\ apc[d] = "signal"
        BY <4>1 DEF LockInv, WithLock
      <4>3. sig'[d] = u /\ apc'[d] = "signal"
        BY <2>1, <3>1, <4>2
      <4>4. Alive(d)'
        BY <4>2 DEF SigInv, InSignal, Alive
      <4> QED BY <4>3, <4>4
    <3> QED BY <3>3, <3>4
  <2> QED BY <1>3, <2>2, <2>3 DEF TryLock, Goto
<1>4. CASE CondSignal(a)
  <2>1. /\ apc[a] = "signal" /\ apc' = [apc EXCEPT ![a] = "sigunlock"] /\ UNCHANGED sig
        /\ sig[a] \in Threads
    BY <1>4 DEF CondSignal, Goto, SigInv, InSignal
  <2>2. /\ \A u \in Threads : u # sig[a] => owed'[u] = owed[u] /\ tpc'[u] = tpc[u]
        /\ tpc'[sig[a]] # "wait"
    BY <1>4, <2>1 DEF CondSignal, TypeOK
  <2> SUFFICES ASSUME NEW u \in Threads, owed'[u], tpc'[u] = "wait"
               PROVE  \E b \in Actors : /\ Alive(b)'
                                        /\ sig'[b] = u /\ apc'[b] \in {"trylock", "signal"}
    BY DEF SignalWakes
  <2>3. u # sig[a] /\ owed[u] /\ tpc[u] = "wait"
    BY <2>2
  <2>4. PICK b \in Actors : sig[b] = u /\ apc[b] \in {"trylock", "signal"}
    BY <2>3 DEF SignalWakes
  <2>5. sig'[b] = u /\ apc'[b] = apc[b]
    BY <2>1, <2>3, <2>4 DEF TypeOK
  <2>6. Alive(b)'
    BY <2>4 DEF SigInv, InSignal, Alive
  <2> QED BY <2>4, <2>5, <2>6
<1> QED BY <1>1, <1>2, <1>3, <1>4 DEF CallStep, SignalStep

----------------------------------------------------------------------------
LEMMA SInit == ASSUME Init PROVE SInv
<1>1. SigInv
  BY ActorsApart DEF Init, SigInv, InSignal
<1>2. LockInv
  BY ActorsApart DEF Init, LockInv, WithLock
<1>3. SignalWakes
  BY DEF Init, SignalWakes
<1> QED BY <1>1, <1>2, <1>3 DEF SInv

LEMMA SNext == ASSUME NoThreadSignals, IInv, SInv, [Next]_vars PROVE SInv'
<1>1. TypeOK /\ EntryInv /\ MainInv /\ SigInv /\ LockInv /\ SignalWakes
  BY DEF IInv, SInv
<1>2. CASE Next
  <2>1. ASSUME NEW t \in Threads, ThreadStep(t) PROVE SInv'
    BY <1>1, <2>1, SigThread, LockThread, WakesThread DEF SInv
  <2>2. ASSUME NEW a \in Actors, CallStep(a) PROVE SInv'
    BY <1>1, <2>2, SigCall, LockCall, WakesCall DEF SInv
  <2>3. CASE ScriptStep \/ CloseStep
    BY <1>1, <2>3, SigMain, LockMain, WakesMain DEF SInv
  <2> QED BY <1>2, <2>1, <2>2, <2>3, Steps
<1>3. CASE UNCHANGED vars
  <2>1. UNCHANGED <<entry, lock, tpc, apc, sig, mpc, active, owed>>
    BY <1>3 DEF vars, tudvars, threadvars, callvars, mainvars, clientvars
  <2>2. SigInv' /\ LockInv' /\ SignalWakes'
    BY <1>1, <2>1, SigKept, LockKept, WakesKept
  <2> QED BY <2>2 DEF SInv
<1> QED BY <1>2, <1>3

(* The invariant of signals: who holds which lock.                         *)
THEOREM SignalsInductive == ASSUME NoThreadSignals PROVE Spec => []SInv
<1>1. IInv /\ SInv /\ [Next]_vars => SInv'
  BY SNext
<1>2. Init => SInv
  BY SInit
<1> QED BY <1>1, <1>2, Inductive, PTL DEF Spec

(* jack.signal() wakes a thread that waits, though it gives up when the    *)
(* lock of the thread is taken.                                            *)
THEOREM SignalsWake == ASSUME NoThreadSignals PROVE Spec => []SignalWakes
<1>1. SInv => SignalWakes
  BY DEF SInv
<1> QED BY <1>1, SignalsInductive, PTL

(* Neither the main script nor the callback of a thread's own client is in *)
(* jack.signal() when client_close() destroys the lock of the thread. Of   *)
(* the callbacks of other clients it says nothing: they may be.            *)
THEOREM LocksStayAlive == ASSUME NoThreadSignals PROVE Spec => []LockAlive
<1>1. ASSUME SInv PROVE LockAlive
  BY <1>1 DEF SInv, SigInv, LockInv, InSignal, LockAlive
<1> QED BY <1>1, SignalsInductive, PTL
=============================================================================
