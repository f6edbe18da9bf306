------------------------------ MODULE Threads ------------------------------
(***************************************************************************)
(* Client threads (src/thread.c): their creation, the condition variable   *)
(* they wait on and the contexts that signal it, their end, alone or by    *)
(* cancellation when the client is closed; and the way in which an error   *)
(* of any context is registered (luajack_errorv_() in src/main.c), where a *)
(* cancellation can fall too: threads are cancelled asynchronously.        *)
(***************************************************************************)
EXTENDS Naturals

CONSTANTS
  Clients,           \* open clients; each also stands for its process callback
  Threads,           \* the threads the script creates
  Owner,             \* the client of each thread
  Signallers,        \* the contexts that call jack.signal()
  Failing            \* the contexts that call luajack_error(), besides failing threads

Actors == {"main"} \cup Clients \cup Threads
Free == "free"       \* nobody holds the lock
Destroyed == "destroyed"
Nobody == "nobody"

ASSUME ThreadsAssumption ==
  /\ Owner \in [Threads -> Clients]
  /\ Signallers \subseteq Actors /\ Failing \subseteq Actors
  /\ Clients \cap Threads = {}
  /\ {"main", Free, Destroyed, Nobody} \cap (Clients \cup Threads) = {}

VARIABLES
  entry, status, state,   \* tud_t: "none", "valid", "closed"; status; is state set?
  lock,                   \* tud_t: who holds the lock
  tpc, cancelled, closed, \* each thread, cancelled or not; how often its state was closed
  apc, sig,               \* per context, where it is in signal() or luajack_error()
  errlock, errmsg,        \* who holds luajack_errlock; luajack_errmsg
  exiting,                \* luajack_exit_status
  mpc, cur, job,          \* the main thread, the client it closes, the thread it is at
  opened, active,         \* the clients that are open, active
  owed                    \* history: a signal was sent while the thread waited

tudvars == <<entry, status, state>>
threadvars == <<tpc, cancelled, closed>>
callvars == <<apc, sig>>
errvars == <<errlock, errmsg, exiting>>
mainvars == <<mpc, cur, job>>
clientvars == <<opened, active>>
vars == <<tudvars, lock, threadvars, callvars, errvars, mainvars, clientvars, owed>>

----------------------------------------------------------------------------
(* The main thread.                                                        *)

InScript == mpc = "script" /\ apc["main"] = "idle"

(* ThreadCreate_() when nothing fails: the entry, then the pthread.        *)
ThreadCreate_(t) ==
  /\ InScript /\ active = {}
  /\ Owner[t] \in opened /\ entry[t] = "none"
  /\ entry' = [entry EXCEPT ![t] = "valid"]
  /\ state' = [state EXCEPT ![t] = TRUE]
  /\ status' = [status EXCEPT ![t] = "CONFIGURING"]
  /\ tpc' = [tpc EXCEPT ![t] = "start"]
  /\ mpc' = "created" /\ job' = t
  /\ UNCHANGED <<lock, cancelled, closed, callvars, errvars, cur, clientvars, owed>>

Ready ==
  /\ mpc = "created" /\ mpc' = "script"
  /\ status' = [status EXCEPT ![job] = "READY"]
  /\ job' = Nobody
  /\ UNCHANGED <<entry, state, lock, threadvars, callvars, errvars, cur, clientvars, owed>>

Activate(c) ==
  /\ InScript /\ c \in opened \ active
  /\ active' = active \cup {c}
  /\ UNCHANGED <<tudvars, lock, threadvars, callvars, errvars, mainvars, opened, owed>>

Close_StillActive(c) ==                     \* mutant: no Deactivate_()
  /\ InScript /\ c \in opened
  /\ mpc' = "free" /\ cur' = c
  /\ UNCHANGED <<tudvars, lock, threadvars, callvars, errvars, job, clientvars, owed>>

Close_Early(c) ==                           \* mutant: thread_free_all() before Deactivate_()
  /\ InScript /\ c \in opened
  /\ active' = active \ {c}
  /\ mpc' = "free" /\ cur' = c
  /\ UNCHANGED <<tudvars, lock, threadvars, callvars, errvars, job, opened, owed>>

(* client_close(): no more callbacks, then thread_free_all().              *)
Close(c) ==
  /\ InScript /\ c \in opened
  /\ apc[c] = "idle"
  /\ active' = active \ {c}
  /\ mpc' = "free" /\ cur' = c
  /\ UNCHANGED <<tudvars, lock, threadvars, callvars, errvars, job, opened, owed>>

Cancel_NoCancel(t) ==                       \* mutant: no pthread_cancel()
  /\ mpc = "free" /\ entry[t] = "valid" /\ Owner[t] = cur
  /\ mpc' = "join" /\ job' = t
  /\ UNCHANGED <<tudvars, lock, threadvars, callvars, errvars, cur, clientvars, owed>>

(* thread_free(): pthread_cancel(), pthread_join(), and what is left.      *)
Cancel(t) ==
  /\ mpc = "free" /\ entry[t] = "valid" /\ Owner[t] = cur
  /\ cancelled' = [cancelled EXCEPT ![t] = TRUE]
  /\ mpc' = "join" /\ job' = t
  /\ UNCHANGED <<tudvars, lock, tpc, closed, callvars, errvars, cur, clientvars, owed>>

Join ==
  /\ mpc = "join" /\ mpc' = "free"
  /\ tpc[job] = "exited"
  /\ closed' = [closed EXCEPT ![job] = IF state[job] THEN @ + 1 ELSE @]
  /\ lock' = [lock EXCEPT ![job] = Destroyed]
  /\ entry' = [entry EXCEPT ![job] = "closed"]
  /\ job' = Nobody
  /\ UNCHANGED <<status, state, tpc, cancelled, callvars, errvars, cur, clientvars, owed>>

Closed ==
  /\ mpc = "free" /\ mpc' = "script"
  /\ \A t \in Threads : Owner[t] = cur => entry[t] # "valid"
  /\ opened' = opened \ {cur} /\ cur' = Nobody
  /\ UNCHANGED <<tudvars, lock, threadvars, callvars, errvars, job, active, owed>>

----------------------------------------------------------------------------
(* ThreadFunc()                                                            *)

At(t, from, to) == tpc[t] = from /\ tpc' = [tpc EXCEPT ![t] = to]

Lock(t) == lock[t] = Free /\ lock' = [lock EXCEPT ![t] = t]

Start(t) ==
  /\ At(t, "start", "spin") /\ Lock(t)
  /\ UNCHANGED <<tudvars, cancelled, closed, callvars, errvars, mainvars, clientvars, owed>>

Run(t) ==
  /\ At(t, "spin", "script")
  /\ status[t] # "CONFIGURING" /\ status' = [status EXCEPT ![t] = "RUNNING"]
  /\ UNCHANGED <<entry, state, lock, cancelled, closed, callvars, errvars, mainvars,
                 clientvars, owed>>

(* Wait(): pthread_cond_wait() releases the lock, which the thread has     *)
(* held since its start, and takes it again when it is woken, or for no    *)
(* reason.                                                                 *)
Wait(t) ==
  /\ At(t, "script", "wait") /\ apc[t] = "idle"
  /\ lock' = [lock EXCEPT ![t] = Free]
  /\ UNCHANGED <<tudvars, cancelled, closed, callvars, errvars, mainvars, clientvars, owed>>

WakeSpuriously(t) ==
  /\ At(t, "wait", "relock")
  /\ owed' = [owed EXCEPT ![t] = FALSE]
  /\ UNCHANGED <<tudvars, lock, cancelled, closed, callvars, errvars, mainvars, clientvars>>

Relock(t) ==
  /\ At(t, "relock", "script") /\ Lock(t)
  /\ UNCHANGED <<tudvars, cancelled, closed, callvars, errvars, mainvars, clientvars, owed>>

Finish_KeepState(t) ==                      \* mutant: no T = NULL
  /\ At(t, "script", "close") /\ apc[t] = "idle"
  /\ status' = [status EXCEPT ![t] = "DONE"]
  /\ UNCHANGED <<entry, state, lock, cancelled, closed, callvars, errvars, mainvars,
                 clientvars, owed>>

(* The chunk returns: T = NULL marks the state, which is closed next.      *)
Finish(t) ==
  /\ At(t, "script", "close") /\ apc[t] = "idle"
  /\ status' = [status EXCEPT ![t] = "DONE"]
  /\ state' = [state EXCEPT ![t] = FALSE]
  /\ UNCHANGED <<entry, lock, cancelled, closed, callvars, errvars, mainvars, clientvars, owed>>

CloseState(t) ==
  /\ At(t, "close", "unlock")
  /\ closed' = [closed EXCEPT ![t] = @ + 1]
  /\ UNCHANGED <<tudvars, lock, cancelled, callvars, errvars, mainvars, clientvars, owed>>

(* The chunk fails: T = NULL, but the state is not closed; luajack_error().*)
Fail(t) ==
  /\ At(t, "script", "failed") /\ apc[t] = "idle"
  /\ status' = [status EXCEPT ![t] = "FAILED"]
  /\ state' = [state EXCEPT ![t] = FALSE]
  /\ apc' = [apc EXCEPT ![t] = "errtry"]
  /\ UNCHANGED <<entry, lock, cancelled, closed, sig, errvars, mainvars, clientvars, owed>>

Reported(t) ==
  /\ At(t, "failed", "unlock") /\ apc[t] = "idle"
  /\ UNCHANGED <<tudvars, lock, cancelled, closed, callvars, errvars, mainvars, clientvars, owed>>

Unlock(t) ==
  /\ At(t, "unlock", "exited")
  /\ lock' = [lock EXCEPT ![t] = Free]
  /\ UNCHANGED <<tudvars, cancelled, closed, callvars, errvars, mainvars, clientvars, owed>>

(* A cancelled thread ends wherever it is (PTHREAD_CANCEL_ASYNCHRONOUS)    *)
(* and what it holds stays locked; out of pthread_cond_wait() it comes     *)
(* with its lock.                                                          *)
Die(t) ==
  /\ cancelled[t]
  /\ \/ tpc[t] \notin {"none", "wait", "exited"} /\ UNCHANGED lock
     \/ tpc[t] = "wait" /\ Lock(t)
  /\ tpc' = [tpc EXCEPT ![t] = "exited"]
  /\ UNCHANGED <<tudvars, cancelled, closed, callvars, errvars, mainvars, clientvars, owed>>

----------------------------------------------------------------------------
(* What any context may do: the main script, the process callback of an    *)
(* active client, a thread.                                                *)

InSignal == {"trylock", "signal", "sigunlock"}

(* The main script, or the callback of the client that owns the thread. *)
Own(a, t) == a \in Clients => Owner[t] = a

Runs(a) ==
  \/ a = "main" /\ mpc = "script"
  \/ a \in active
  \/ a \in Threads /\ tpc[a] = "script"

Alive(a) == a \in Threads => tpc[a] # "exited"

Goto(a, from, to) == apc[a] = from /\ apc' = [apc EXCEPT ![a] = to]

(* Signal(), thread_signal(): a thread that does not run is not signalled. *)
(* The client the caller names must own the thread, but it need not be the *)
(* caller's: any callback may signal any thread.                           *)
Signal(a, t) ==
  /\ Runs(a) /\ a \in Signallers \ {t}
  /\ entry[t] = "valid" /\ status[t] = "RUNNING"
  /\ Goto(a, "idle", "trylock")
  /\ sig' = [sig EXCEPT ![a] = t]
  /\ owed' = [owed EXCEPT ![t] = tpc[t] = "wait"]
  /\ UNCHANGED <<tudvars, lock, threadvars, errvars, mainvars, clientvars>>

(* pthread_mutex_trylock(): if it fails there is no signal. What it does   *)
(* with a lock that has been destroyed meanwhile is undefined.             *)
TryLock(a) ==
  /\ Alive(a) /\ apc[a] = "trylock"
  /\ \/ lock[sig[a]] = Free /\ Goto(a, "trylock", "signal")
        /\ lock' = [lock EXCEPT ![sig[a]] = a] /\ UNCHANGED sig
     \/ lock[sig[a]] = Destroyed /\ Goto(a, "trylock", "signal")
        /\ UNCHANGED <<lock, sig>>
     \/ lock[sig[a]] # Free /\ Goto(a, "trylock", "idle")
        /\ sig' = [sig EXCEPT ![a] = Nobody] /\ UNCHANGED lock
  /\ UNCHANGED <<tudvars, threadvars, errvars, mainvars, clientvars, owed>>

CondSignal_Dropped(a) ==                    \* mutant: no pthread_cond_signal()
  /\ Alive(a) /\ Goto(a, "signal", "sigunlock")
  /\ UNCHANGED <<tudvars, lock, threadvars, sig, errvars, mainvars, clientvars, owed>>

CondSignal(a) ==
  /\ Alive(a) /\ Goto(a, "signal", "sigunlock")
  /\ IF tpc[sig[a]] = "wait"
       THEN /\ tpc' = [tpc EXCEPT ![sig[a]] = "relock"]
            /\ owed' = [owed EXCEPT ![sig[a]] = FALSE]
       ELSE UNCHANGED <<tpc, owed>>
  /\ UNCHANGED <<tudvars, lock, cancelled, closed, sig, errvars, mainvars, clientvars>>

SigUnlock(a) ==
  /\ Alive(a) /\ Goto(a, "sigunlock", "idle")
  /\ lock' = [lock EXCEPT ![sig[a]] = IF @ = Destroyed THEN Destroyed ELSE Free]
  /\ sig' = [sig EXCEPT ![a] = Nobody]
  /\ UNCHANGED <<tudvars, threadvars, errvars, mainvars, clientvars, owed>>

(* luajack_error(), called by a failing callback, by os.exit() in a thread *)
(* or a callback, or by the handler of SIGINT in the main thread.          *)
Error(a) ==
  /\ Runs(a) /\ a \in Failing /\ Goto(a, "idle", "errtry")
  /\ UNCHANGED <<tudvars, lock, threadvars, sig, errvars, mainvars, clientvars, owed>>

ErrTry_Lock(a) ==                           \* mutant: the lock is not tried
  /\ Alive(a) /\ Goto(a, "errtry", "errcheck")
  /\ errlock' = a
  /\ UNCHANGED <<tudvars, lock, threadvars, sig, errmsg, exiting, mainvars, clientvars, owed>>

(* luajack_errorv_(): if the lock is taken, another error is being         *)
(* registered and this one is ignored.                                     *)
ErrTry(a) ==
  /\ Alive(a)
  /\ \/ errlock = Free /\ errlock' = a /\ Goto(a, "errtry", "errcheck")
     \/ errlock # Free /\ UNCHANGED errlock /\ Goto(a, "errtry", "idle")
  /\ UNCHANGED <<tudvars, lock, threadvars, sig, errmsg, exiting, mainvars, clientvars, owed>>

ErrCheck_Twice(a) ==                        \* mutant: luajack_exiting() not asked
  /\ Alive(a) /\ Goto(a, "errcheck", "errwrite")
  /\ UNCHANGED <<tudvars, lock, threadvars, sig, errvars, mainvars, clientvars, owed>>

(* Called by somebody before?                                              *)
ErrCheck(a) ==
  /\ Alive(a) /\ Goto(a, "errcheck", IF exiting THEN "errunlock" ELSE "errwrite")
  /\ UNCHANGED <<tudvars, lock, threadvars, sig, errvars, mainvars, clientvars, owed>>

ErrWrite_StatusFirst(a) ==                  \* mutant: the status set before the message
  /\ Alive(a) /\ Goto(a, "errwrite", "errwritten")
  /\ errmsg' = [by |-> a, whole |-> FALSE] /\ exiting' = TRUE
  /\ UNCHANGED <<tudvars, lock, threadvars, sig, errlock, mainvars, clientvars, owed>>

(* The message is written, which takes a while.                            *)
ErrWrite(a) ==
  /\ Alive(a) /\ Goto(a, "errwrite", "errwritten")
  /\ errmsg' = [by |-> a, whole |-> FALSE]
  /\ UNCHANGED <<tudvars, lock, threadvars, sig, errlock, exiting, mainvars, clientvars, owed>>

ErrWritten(a) ==
  /\ Alive(a) /\ Goto(a, "errwritten", "errstatus")
  /\ errmsg' = [errmsg EXCEPT !.whole = errmsg.by = a]
  /\ UNCHANGED <<tudvars, lock, threadvars, sig, errlock, exiting, mainvars, clientvars, owed>>

ErrStatus_NoBit(a) ==                       \* mutant: EXITING not among the bits set
  /\ Alive(a) /\ Goto(a, "errstatus", "errunlock")
  /\ UNCHANGED <<tudvars, lock, threadvars, sig, errvars, mainvars, clientvars, owed>>

(* The status is set, and the main thread woken (module EventQueue).       *)
ErrStatus(a) ==
  /\ Alive(a) /\ Goto(a, "errstatus", "errunlock")
  /\ exiting' = TRUE
  /\ UNCHANGED <<tudvars, lock, threadvars, sig, errlock, errmsg, mainvars, clientvars, owed>>

ErrUnlock(a) ==
  /\ Alive(a) /\ Goto(a, "errunlock", "idle")
  /\ errlock' = Free
  /\ UNCHANGED <<tudvars, lock, threadvars, sig, errmsg, exiting, mainvars, clientvars, owed>>

----------------------------------------------------------------------------
SignalStep(a) == TryLock(a) \/ CondSignal(a) \/ SigUnlock(a)
ErrorStep(a) ==
  ErrTry(a) \/ ErrCheck(a) \/ ErrWrite(a) \/ ErrWritten(a) \/ ErrStatus(a) \/ ErrUnlock(a)

EndStep(t) == CloseState(t) \/ Reported(t) \/ Unlock(t)
CloseStep == (\E t \in Threads : Cancel(t)) \/ Join \/ Closed

Init ==
  /\ entry = [t \in Threads |-> "none"] /\ state = [t \in Threads |-> FALSE]
  /\ status = [t \in Threads |-> "CONFIGURING"]
  /\ lock = [t \in Threads |-> Free]
  /\ tpc = [t \in Threads |-> "none"] /\ cancelled = [t \in Threads |-> FALSE]
  /\ closed = [t \in Threads |-> 0]
  /\ apc = [a \in Actors |-> "idle"] /\ sig = [a \in Actors |-> Nobody]
  /\ errlock = Free /\ errmsg = [by |-> Nobody, whole |-> FALSE] /\ exiting = FALSE
  /\ mpc = "script" /\ cur = Nobody /\ job = Nobody
  /\ opened = Clients /\ active = {}
  /\ owed = [t \in Threads |-> FALSE]

Next ==
  \/ \E t \in Threads :
       \/ ThreadCreate_(t) \/ Start(t) \/ Run(t) \/ Wait(t) \/ WakeSpuriously(t) \/ Relock(t)
       \/ Finish(t) \/ Fail(t) \/ EndStep(t) \/ Die(t)
  \/ Ready \/ CloseStep
  \/ \E c \in Clients : Activate(c) \/ Close(c)
  \/ \E a \in Actors : Error(a) \/ SignalStep(a) \/ ErrorStep(a)
  \/ \E a \in Actors, t \in Threads : Signal(a, t)

Spec == Init /\ [][Next]_vars

(* Calls return, the end of a thread is reached, client_close() goes on,   *)
(* and a cancelled thread dies, also when it must get its lock back for it *)
(* among contexts that signal it again and again. No script need do        *)
(* anything.                                                               *)
FairSpec ==
  /\ Spec
  /\ \A a \in Actors : WF_vars(SignalStep(a)) /\ WF_vars(ErrorStep(a))
  /\ \A t \in Threads : WF_vars(EndStep(t)) /\ SF_vars(Die(t))
  /\ WF_vars(CloseStep)

----------------------------------------------------------------------------
(* Type invariant.                                                         *)
TypeOK ==
  /\ entry \in [Threads -> {"none", "valid", "closed"}]
  /\ status \in [Threads -> {"CONFIGURING", "READY", "RUNNING", "DONE", "FAILED"}]
  /\ state \in [Threads -> BOOLEAN]
  /\ lock \in [Threads -> Actors \cup {Free, Destroyed}]
  /\ tpc \in [Threads -> {"none", "start", "spin", "script", "wait", "relock", "close",
                          "failed", "unlock", "exited"}]
  /\ cancelled \in [Threads -> BOOLEAN] /\ closed \in [Threads -> Nat]
  /\ apc \in [Actors -> {"idle", "trylock", "signal", "sigunlock", "errtry", "errcheck",
                         "errwrite", "errwritten", "errstatus", "errunlock"}]
  /\ sig \in [Actors -> Threads \cup {Nobody}]
  /\ errlock \in Actors \cup {Free}
  /\ errmsg \in [by : Actors \cup {Nobody}, whole : BOOLEAN] /\ exiting \in BOOLEAN
  /\ mpc \in {"script", "created", "free", "join"}
  /\ cur \in Clients \cup {Nobody} /\ job \in Threads \cup {Nobody}
  /\ opened \subseteq Clients /\ active \subseteq opened
  /\ owed \in [Threads -> BOOLEAN]

(* jack.signal() wakes a thread that waits: when it gives up because the   *)
(* lock is taken, whoever has the lock is about to signal the same thread. *)
SignalWakes ==
  \A t \in Threads : owed[t] /\ tpc[t] = "wait" =>
    \E a \in Actors : Alive(a) /\ sig[a] = t /\ apc[a] \in {"trylock", "signal"}

(* The Lua state of a thread is closed by the thread or by client_close(), *)
(* never twice, wherever the thread is cancelled.                          *)
ClosedOnce == \A t \in Threads : closed[t] <= 1

(* client_close() destroys the lock of a thread while neither the main     *)
(* script nor the callback of the thread's own client is in jack.signal()  *)
(* with it: it stops the callbacks of the client first. (Callbacks of      *)
(* other clients it does not stop: for them nothing of the kind holds.)    *)
LockAlive ==
  \A a \in Actors \ Threads :
    apc[a] \in InSignal /\ Own(a, sig[a]) => lock[sig[a]] # Destroyed

(* The main thread, which does not take luajack_errlock, finds a whole     *)
(* message when it finds the exit status set.                              *)
MessageWhole == exiting => errmsg.whole

(* The first error stays the one that is reported.                         *)
FirstErrorKept == [][exiting => exiting' /\ UNCHANGED errmsg]_vars

(* Once a context has called luajack_error(), the exit status gets set,    *)
(* unless the context is itself a thread that is cancelled, or a thread    *)
(* was cancelled that had luajack_errlock (luajack_errorv_(): "if locked,  *)
(* an error is already being registered").                                 *)
ErrorRegistered ==
  \A a \in Actors :
    apc[a] = "errtry" ~>
      exiting \/ ~ Alive(a) \/ (errlock # Free /\ ~ Alive(errlock))

(* client_close() returns: "the client will join the thread at its         *)
(* closure" (comment in ThreadFunc()), since the thread has been cancelled.*)
CloseCompletes == mpc \in {"free", "join"} ~> mpc = "script"

----------------------------------------------------------------------------
(* The inductive invariant of ThreadsProofs.                               *)

InError == {"errcheck", "errwrite", "errwritten", "errstatus", "errunlock"}
WithState == {"start", "spin", "script", "wait", "relock", "close", "failed"}
WithLock == {"spin", "script", "close", "failed", "unlock"}

(* A context past ErrTry holds luajack_errlock; between ErrCheck and       *)
(* ErrStatus nobody else has registered an error. *)
ErrInv ==
  /\ \A a \in Actors : apc[a] \in InError => errlock = a
  /\ \A a \in Actors : apc[a] \in {"errwrite", "errwritten", "errstatus"} => ~exiting
  /\ \A a \in Actors : apc[a] = "errwritten" => errmsg.by = a
  /\ \A a \in Actors : apc[a] = "errstatus" => errmsg.whole
  /\ MessageWhole

(* Who still has to close a state that is set, or may close it. *)
EntryInv ==
  \A t \in Threads :
    /\ entry[t] = "none" => closed[t] = 0 /\ tpc[t] = "none"
    /\ entry[t] = "closed" => tpc[t] = "exited"
    /\ entry[t] = "valid" /\ state[t] => closed[t] = 0
    /\ tpc[t] \in WithState => closed[t] = 0
    /\ tpc[t] = "close" => ~state[t]
    /\ closed[t] <= 1

MainInv ==
  /\ mpc = "created" => job \in Threads
  /\ mpc = "join" => job \in Threads /\ entry[job] = "valid" /\ Owner[job] = cur
  /\ mpc \in {"free", "join"} => cur \in Clients \ active

(* Threads do not signal; the main script and the callback of a thread's   *)
(* client keep the thread they signal alive. *)
SigInv ==
  /\ apc["main"] # "idle" => mpc = "script"
  /\ \A c \in Clients : apc[c] # "idle" => c \in active
  /\ \A a \in Actors : apc[a] \in InSignal =>
       /\ a \notin Threads /\ sig[a] \in Threads /\ entry[sig[a]] # "none"
       /\ Own(a, sig[a]) => entry[sig[a]] = "valid"

(* Whose lock it is: the thread's own, or that of one context in           *)
(* jack.signal(), which has not yet signalled if the thread waits. *)
LockInv ==
  /\ \A t \in Threads : entry[t] = "closed" <=> lock[t] = Destroyed
  /\ \A t \in Threads : tpc[t] \in WithLock => lock[t] = t
  /\ \A a \in Actors : apc[a] \in {"signal", "sigunlock"} => lock[sig[a]] \in {a, Destroyed}
  /\ \A t \in Threads : lock[t] \in Actors =>
       \/ lock[t] = t /\ tpc[t] \in WithLock \cup {"exited"}
       \/ /\ lock[t] \notin Threads /\ sig[lock[t]] = t
          /\ apc[lock[t]] \in {"signal", "sigunlock"}
          /\ tpc[t] = "wait" => apc[lock[t]] = "signal"
  /\ \A t \in Threads : owed[t] => tpc[t] \in {"wait", "exited"}

IInv == TypeOK /\ ErrInv /\ EntryInv /\ MainInv
SInv == SigInv /\ LockInv /\ SignalWakes
=============================================================================
