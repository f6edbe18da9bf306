------------------------------ MODULE Clients ------------------------------
(***************************************************************************)
(* The life of clients and of what they own (src/client.c), and the rule   *)
(* that makes LuaJack's databases of objects safe without locks: objects   *)
(* are created in the main thread while no client is active                *)
(* (luajack_checkcreate), so that no tree is changed while a realtime      *)
(* callback searches it; and they are freed by client_close() when nothing *)
(* of the client runs any more. Threads run from their creation on, client *)
(* active or not, and do search trees that change.                         *)
(*                                                                         *)
(* Realtime callbacks and threads look objects up by key, or have got them *)
(* from a C function (src/luajack.c), and use them while the main thread   *)
(* goes on: ringbuffers, and clients as arguments of the calls to JACK.    *)
(***************************************************************************)
EXTENDS Integers, FiniteSets

CONSTANTS
  Clients,           \* the clients the script may open
  Rings,             \* the ringbuffers it may create
  Owner,             \* the client each ringbuffer is created for
  WithThread,        \* the clients the script starts a thread for
  Disciplined,       \* does the script keep the rules May... below?
  MaxActive          \* bound: luajack_active_clients

NoClient == "no client"
Nothing == "nothing"

ASSUME ClientsAssumption ==
  /\ IsFiniteSet(Clients) /\ NoClient \notin Clients /\ Nothing \notin Rings \cup Clients
  /\ Rings \cap Clients = {}
  /\ Owner \in [Rings -> Clients]
  /\ WithThread \subseteq Clients
  /\ Disciplined \in BOOLEAN
  /\ MaxActive \in Nat

Tasks == {"rt", "thread"}       \* what runs besides the main thread, per client

VARIABLES
  cud, rud,          \* entries of clients and ringbuffers: "none", "valid", "closed"
  count,             \* luajack_active_clients
  jactive, zombies,  \* JACK: the active clients, those it has thrown out
  pc,                \* per client and task: "off", "new", "run", "search", "use"
  tree, using,       \* the tree a task searches, the object it uses
  mpc, cur,          \* the main thread, the client it closes
  inserting,         \* the tree it inserts an entry into
  exiting,           \* has AtExit() begun?
  refused            \* has luajack_checkcreate() just refused?

entryvars == <<cud, rud>>
jackvars == <<count, jactive, zombies>>
taskvars == <<pc, tree, using>>
mainvars == <<mpc, cur, inserting, exiting>>
vars == <<entryvars, jackvars, taskvars, mainvars, refused>>

----------------------------------------------------------------------------
(* JACK's realtime thread of an active client, and the client's own thread *)
(* (which runs from its creation on, client active or not).                *)

(* The process callback begins: not for a closed client (BEGIN).           *)
Cycle(c) ==
  /\ c \in jactive /\ cud[c] = "valid"
  /\ pc[c]["rt"] = "off"
  /\ pc' = [pc EXCEPT ![c]["rt"] = "run"]
  /\ UNCHANGED <<entryvars, jackvars, tree, using, mainvars, refused>>

EndCycle(c) ==
  /\ pc[c]["rt"] = "run"
  /\ pc' = [pc EXCEPT ![c]["rt"] = "off"]
  /\ UNCHANGED <<entryvars, jackvars, tree, using, mainvars, refused>>

(* cud_check(), rud_check(), tud_check() in jack.signal(): the tree is     *)
(* searched, without a lock.                                               *)
Search(c, t, kind) ==
  /\ pc[c][t] = "run"
  /\ pc' = [pc EXCEPT ![c][t] = "search"]
  /\ tree' = [tree EXCEPT ![c][t] = kind]
  /\ UNCHANGED <<entryvars, jackvars, using, mainvars, refused>>

(* The mark of an entry, and whom the object was created for.              *)
Valid(x) == IF x \in Rings THEN rud[x] = "valid" ELSE cud[x] = "valid"
OwnerOf(x) == IF x \in Rings THEN Owner[x] ELSE x
Objects(kind) ==
  CASE kind = "ring" -> Rings [] kind = "client" -> Clients
    [] OTHER -> {}                    \* threads: what jack.signal() does is in Threads

(* A disciplined script uses objects of another client nowhere but in the  *)
(* main thread, which closes clients.                                      *)
MayUse(c, x) == Disciplined => OwnerOf(x) = c

Use(c, t, x) ==
  /\ Valid(x) /\ MayUse(c, x)
  /\ using' = [using EXCEPT ![c][t] = x]
  /\ pc' = [pc EXCEPT ![c][t] = "use"]

(* The entry is found and valid, or the reference is not.                  *)
Found(c, t) ==
  /\ pc[c][t] = "search"
  /\ tree' = [tree EXCEPT ![c][t] = "none"]
  /\ \/ \E x \in Objects(tree[c][t]) : Use(c, t, x)
     \/ pc' = [pc EXCEPT ![c][t] = "run"] /\ UNCHANGED using
  /\ UNCHANGED <<entryvars, jackvars, mainvars, refused>>

(* The C API: a function that holds a luajack_t does not search. What      *)
(* get_rud() or get_cud() takes for valid is used: luajack_ringbuffer_...  *)
RingCall(c, t) ==
  /\ pc[c][t] = "run" /\ \E r \in Rings : Use(c, t, r)
  /\ UNCHANGED <<entryvars, jackvars, tree, mainvars, refused>>

(* ... and the calls to JACK on behalf of a client.                        *)
ClientCall(c, t) ==
  /\ pc[c][t] = "run" /\ \E d \in Clients : Use(c, t, d)
  /\ UNCHANGED <<entryvars, jackvars, tree, mainvars, refused>>

(* The call on the object returns.                                         *)
Done(c, t) ==
  /\ pc[c][t] = "use"
  /\ pc' = [pc EXCEPT ![c][t] = "run"]
  /\ using' = [using EXCEPT ![c][t] = Nothing]
  /\ UNCHANGED <<entryvars, jackvars, tree, mainvars, refused>>

(* JACK throws a client out, or shuts down: no cycles any more.            *)
ThrownOut(c) ==
  /\ c \in jactive /\ pc[c]["rt"] = "off"
  /\ jactive' = jactive \ {c} /\ zombies' = zombies \cup {c}
  /\ UNCHANGED <<entryvars, count, taskvars, mainvars, refused>>

----------------------------------------------------------------------------
(* The rules of a disciplined script. Without them luajack_active_clients  *)
(* is not the number of active clients.                                    *)

Activated == jactive \cup zombies       \* activated, as far as the script knows

MayActivate(c) == Disciplined => c \notin Activated
MayDeactivate(c) == Disciplined => c \in Activated
MayClose(c) == Disciplined => c \in Activated \/ Activated = {}
MayExit ==
  Disciplined => Activated = {} \/ \A c \in Clients : cud[c] = "valid" => c \in Activated

----------------------------------------------------------------------------
(* The main thread: creation.                                              *)

CheckCreate_NoCount == TRUE                 \* mutant: the counter is not asked

(* luajack_checkcreate() *)
CheckCreate == count = 0

Refuse ==
  /\ mpc = "script" /\ ~ CheckCreate
  /\ ~ refused /\ refused' = TRUE
  /\ UNCHANGED <<entryvars, jackvars, taskvars, mainvars>>

Creating(kind) ==
  /\ mpc = "script" /\ CheckCreate
  /\ mpc' = "insert" /\ inserting' = kind
  /\ refused' = FALSE
  /\ UNCHANGED <<jackvars, tree, using, cur, exiting>>

(* ClientOpen(), cud_new(): the entry goes into the tree.                  *)
Open(c) ==
  /\ cud[c] = "none"
  /\ cud' = [cud EXCEPT ![c] = "valid"]
  /\ Creating("client") /\ UNCHANGED <<rud, pc>>

(* Ringbuffer(), rbuf_new(), rud_new()                                     *)
CreateRing(r) ==
  /\ rud[r] = "none" /\ cud[Owner[r]] = "valid"
  /\ rud' = [rud EXCEPT ![r] = "valid"]
  /\ Creating("ring") /\ UNCHANGED <<cud, pc>>

(* ThreadCreate_(), tud_new()                                              *)
StartThread(c) ==
  /\ c \in WithThread /\ cud[c] = "valid" /\ pc[c]["thread"] = "off"
  /\ pc' = [pc EXCEPT ![c]["thread"] = "new"]
  /\ Creating("thread") /\ UNCHANGED entryvars

(* The entry is in the tree; a thread's pthread is created, and begins.    *)
Inserted ==
  /\ mpc = "insert"
  /\ mpc' = "script" /\ inserting' = "none"
  /\ pc' = [c \in Clients |->
              [t \in Tasks |-> IF pc[c][t] = "new" THEN "run" ELSE pc[c][t]]]
  /\ UNCHANGED <<entryvars, jackvars, tree, using, cur, exiting, refused>>

----------------------------------------------------------------------------
(* The main thread: activation.                                            *)

(* Activate_(): jack_activate() may fail, and then the counter is set      *)
(* back; for a client that is active already it succeeds.                  *)
Activate_(c) ==
  \/ c \notin zombies /\ count' = count + 1 /\ jactive' = jactive \cup {c}
  \/ UNCHANGED <<count, jactive>>

Activate(c) ==
  /\ mpc = "script" /\ cud[c] = "valid" /\ count < MaxActive
  /\ MayActivate(c)
  /\ Activate_(c)
  /\ refused' = FALSE
  /\ UNCHANGED <<entryvars, zombies, taskvars, mainvars>>

Deactivate_NoSetBack(c) ==                  \* mutant: the counter is not set back
  \/ count = 0 /\ UNCHANGED <<count, jactive>>
  \/ /\ count > 0
     /\ c \in jactive => pc[c]["rt"] = "off"
     /\ count' = count - 1 /\ jactive' = jactive \ {c}

(* Deactivate_(): with the counter at zero, nothing. Otherwise             *)
(* jack_deactivate(), which returns when the process callback has, and     *)
(* which succeeds for a client that is not active too; when it fails the   *)
(* counter is set back.                                                    *)
Deactivate_(c) ==
  \/ /\ count = 0 \/ c \in zombies
     /\ UNCHANGED <<count, jactive>>
  \/ /\ count > 0 /\ c \notin zombies
     /\ c \in jactive => pc[c]["rt"] = "off"
     /\ count' = count - 1 /\ jactive' = jactive \ {c}

Deactivate(c) ==
  /\ mpc = "script" /\ cud[c] = "valid"
  /\ MayDeactivate(c)
  /\ Deactivate_(c)
  /\ refused' = FALSE
  /\ UNCHANGED <<entryvars, zombies, taskvars, mainvars>>

----------------------------------------------------------------------------
(* The main thread: client_close(), called by the script or at exit.       *)

StartClose(c) ==
  /\ cud[c] = "valid"
  /\ \/ mpc = "script" /\ MayClose(c)
     \/ mpc = "closeall"
  /\ Deactivate_(c)
  /\ mpc' = "threads" /\ cur' = c
  /\ refused' = FALSE
  /\ UNCHANGED <<entryvars, zombies, taskvars, inserting, exiting>>

FreeThreads_Join ==                         \* mutant: no pthread_cancel()
  /\ mpc = "threads" /\ mpc' = "rings"
  /\ pc[cur]["thread"] = "off"
  /\ UNCHANGED <<entryvars, jackvars, taskvars, cur, inserting, exiting, refused>>

FreeThreads_NoJoin ==                       \* mutant: thread_free_all() after rbuf_free_all()
  /\ mpc = "threads" /\ mpc' = "rings"
  /\ UNCHANGED <<entryvars, jackvars, taskvars, cur, inserting, exiting, refused>>

(* thread_free_all(): threads are cancelled, wherever they are, and joined.*)
FreeThreads ==
  /\ mpc = "threads" /\ mpc' = "rings"
  /\ pc' = [pc EXCEPT ![cur]["thread"] = "off"]
  /\ tree' = [tree EXCEPT ![cur]["thread"] = "none"]
  /\ using' = [using EXCEPT ![cur]["thread"] = Nothing]
  /\ UNCHANGED <<entryvars, jackvars, cur, inserting, exiting, refused>>

(* rbuf_free_all() *)
FreeRings ==
  /\ mpc = "rings" /\ mpc' = "jackclose"
  /\ rud' = [r \in Rings |-> IF Owner[r] = cur /\ rud[r] = "valid" THEN "closed" ELSE rud[r]]
  /\ UNCHANGED <<cud, jackvars, taskvars, cur, inserting, exiting, refused>>

(* jack_client_close(): JACK deactivates a client that is still active.    *)
JackClose ==
  /\ mpc = "jackclose" /\ mpc' = "cancel"
  /\ pc[cur]["rt"] = "off"
  /\ jactive' = jactive \ {cur}
  /\ UNCHANGED <<entryvars, count, zombies, taskvars, cur, inserting, exiting, refused>>

CancelValid ==
  /\ mpc = "cancel" /\ mpc' = IF exiting THEN "closeall" ELSE "script"
  /\ cud' = [cud EXCEPT ![cur] = "closed"]
  /\ cur' = NoClient
  /\ UNCHANGED <<rud, jackvars, taskvars, inserting, exiting, refused>>

(* client_close_all() *)
AtExit ==
  /\ mpc = "script" /\ MayExit
  /\ mpc' = "closeall" /\ exiting' = TRUE
  /\ refused' = FALSE
  /\ UNCHANGED <<entryvars, jackvars, taskvars, cur, inserting>>

(* tud_free_all() ... cud_free_all(): the entries leave the trees.         *)
FreeAll ==
  /\ mpc = "closeall" /\ mpc' = "end"
  /\ \A c \in Clients : cud[c] # "valid"
  /\ cud' = [c \in Clients |-> "none"] /\ rud' = [r \in Rings |-> "none"]
  /\ UNCHANGED <<jackvars, taskvars, cur, inserting, exiting, refused>>

Ended == mpc = "end" /\ UNCHANGED vars

----------------------------------------------------------------------------
TaskStep(c, t) ==
  \/ \E kind \in {"client", "ring", "thread"} : Search(c, t, kind)
  \/ Found(c, t) \/ RingCall(c, t) \/ ClientCall(c, t) \/ Done(c, t)

CloseStep ==
  \/ mpc = "closeall" /\ \E c \in Clients : StartClose(c)
  \/ FreeThreads \/ FreeRings \/ JackClose \/ CancelValid \/ FreeAll

ScriptStep ==
  \/ \E c \in Clients : Open(c) \/ StartThread(c) \/ Activate(c) \/ Deactivate(c)
  \/ \E r \in Rings : CreateRing(r)
  \/ mpc = "script" /\ \E c \in Clients : StartClose(c)
  \/ Refuse \/ AtExit

Init ==
  /\ cud = [c \in Clients |-> "none"] /\ rud = [r \in Rings |-> "none"]
  /\ count = 0 /\ jactive = {} /\ zombies = {}
  /\ pc = [c \in Clients |-> [t \in Tasks |-> "off"]]
  /\ tree = [c \in Clients |-> [t \in Tasks |-> "none"]]
  /\ using = [c \in Clients |-> [t \in Tasks |-> Nothing]]
  /\ mpc = "script" /\ cur = NoClient /\ inserting = "none"
  /\ exiting = FALSE /\ refused = FALSE

Next ==
  \/ \E c \in Clients : Cycle(c) \/ EndCycle(c) \/ ThrownOut(c)
  \/ \E c \in Clients, t \in Tasks : TaskStep(c, t)
  \/ ScriptStep \/ Inserted \/ CloseStep
  \/ Ended

Spec == Init /\ [][Next]_vars

(* A process callback searches and returns; JACK begins no new cycle of a  *)
(* client it is asked to deactivate or close, hence the strong fairness of *)
(* the main thread's steps. Threads may run forever.                       *)
FairSpec ==
  /\ Spec
  /\ \A c \in Clients : WF_vars(Found(c, "rt")) /\ WF_vars(Done(c, "rt"))
  /\ \A c \in Clients : SF_vars(EndCycle(c))
  /\ SF_vars(CloseStep)

----------------------------------------------------------------------------
(* Type invariant. luajack_active_clients, a size_t, does not go below 0.  *)
TypeOK ==
  /\ cud \in [Clients -> {"none", "valid", "closed"}]
  /\ rud \in [Rings -> {"none", "valid", "closed"}]
  /\ count \in Nat /\ jactive \subseteq Clients /\ zombies \subseteq Clients
  /\ pc \in [Clients -> [Tasks -> {"off", "new", "run", "search", "use"}]]
  /\ tree \in [Clients -> [Tasks -> {"none", "client", "ring", "thread"}]]
  /\ using \in [Clients -> [Tasks -> Rings \cup Clients \cup {Nothing}]]
  /\ mpc \in {"script", "insert", "threads", "rings", "jackclose", "cancel",
              "closeall", "end"}
  /\ cur \in Clients \cup {NoClient}
  /\ inserting \in {"none", "client", "ring", "thread"}
  /\ exiting \in BOOLEAN /\ refused \in BOOLEAN

(* luajack_active_clients is the number of clients that were activated and *)
(* not deactivated, whatever jack_activate() and jack_deactivate() return. *)
CountIsActive == count = Cardinality(Activated)

(* Objects are created without active clients (comment of                  *)
(* luajack_checkcreate).                                                   *)
CreateInactive == mpc = "insert" => jactive = {}

(* No entry is put into a tree while a realtime callback searches it: for  *)
(* "the real-time thread" the databases need no lock (comment in           *)
(* client_close_all). For threads they would: with every task t instead of *)
(* "rt" this is violated as soon as two objects are created and the first  *)
(* is a thread.                                                            *)
CallbacksSeeNoInsertion ==
  mpc = "insert" => \A c \in Clients : tree[c]["rt"] # inserting

(* jack_client_close() takes JACK's client away before the entry is marked *)
(* as closed.                                                              *)
Usable(x) == Valid(x) /\ (x \in Clients /\ mpc = "cancel" => x # cur)

(* No callback and no thread uses a ringbuffer that client_close() freed,  *)
(* or calls JACK for a client that is closed, though the validity is       *)
(* checked before the use and the main thread may close in between.        *)
NoUseAfterFree ==
  \A c \in Clients, t \in Tasks : using[c][t] # Nothing => Usable(using[c][t])

(* The databases are freed when no callback and no thread is left.         *)
QuietEnd == mpc = "end" => \A c \in Clients, t \in Tasks : pc[c][t] = "off"

(* "operation not allowed with active clients" is said when one is active, *)
(* or was when JACK threw it out.                                          *)
RefusedOnlyIfActive == refused => Activated # {}

(* LuaJack exits: neither a callback nor a thread that runs forever keeps  *)
(* client_close_all() from its end.                                        *)
ExitCompletes == exiting ~> mpc = "end"

----------------------------------------------------------------------------
(* The inductive invariant of ClientsProofs, for a disciplined script.     *)

(* JACK runs callbacks of active clients only, which are valid. *)
CallbackInv ==
  /\ jactive \cap zombies = {}
  /\ \A c \in jactive : cud[c] = "valid"
  /\ \A c \in Clients : pc[c]["rt"] # "off" => c \in jactive

ThreadInv ==
  /\ \A c \in Clients : pc[c]["thread"] # "off" => cud[c] = "valid"
  /\ \A c \in Clients, t \in Tasks : pc[c][t] = "new" => mpc = "insert" /\ t = "thread"

(* A task uses a valid object of its client. *)
TaskInv ==
  \A c \in Clients, t \in Tasks :
    /\ tree[c][t] # "none" => pc[c][t] = "search"
    /\ using[c][t] # Nothing =>
         pc[c][t] = "use" /\ OwnerOf(using[c][t]) = c /\ Valid(using[c][t])

(* No client is active while the main thread inserts an entry. *)
CreateInv == mpc = "insert" => Activated = {} /\ inserting # "none"

(* What is left of the client that is being closed. *)
Closing == mpc \in {"threads", "rings", "jackclose", "cancel"}
CloseInv ==
  /\ Closing => cur \in Clients /\ cud[cur] = "valid" /\ cur \notin jactive
  /\ Closing /\ mpc # "threads" => pc[cur]["thread"] = "off"
  /\ ~ Closing => cur = NoClient

(* At exit the clients left are all active, or none is. *)
ExitInv ==
  /\ exiting => mpc \notin {"script", "insert"}
  /\ mpc = "closeall" => exiting
  /\ exiting =>
       Activated = {} \/ \A c \in Clients \ {cur} : cud[c] = "valid" => c \in Activated
  /\ mpc = "end" => \A c \in Clients : cud[c] # "valid"

IInv ==
  /\ TypeOK /\ CountIsActive /\ CallbackInv /\ ThreadInv /\ TaskInv /\ CreateInv
  /\ CloseInv /\ ExitInv /\ RefusedOnlyIfActive
=============================================================================
