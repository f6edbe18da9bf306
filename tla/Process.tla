------------------------------ MODULE Process ------------------------------
(***************************************************************************)
(* The realtime callbacks of a client (src/process.c): the Lua state they  *)
(* run in, their registration in Lua and in C, and what each callback does *)
(* around the script's function; the ports whose buffers the process       *)
(* callback retrieves (get_buffer() in src/buffer.c and src/luajack.c,     *)
(* src/port.c), and client_close(), which ends it all.                     *)
(*                                                                         *)
(* JACK calls the callbacks in its realtime thread, one at a time, while   *)
(* the client is active. The main thread shares with it, without a lock,   *)
(* the marks of the client, a word of bits, and the entries of the ports.  *)
(***************************************************************************)
EXTENDS Naturals

CONSTANTS
  Ports,             \* the ports the script may create
  Slots,             \* the callbacks that may be registered
  Apis,              \* the languages they are written in
  StackRoom,         \* how many values left on a Lua stack are counted
  Disciplined        \* does the script keep the rules May... below?

AllSlots == {"Process", "BufferSize", "Sync", "Timebase"}

ASSUME ProcessAssumption ==
  /\ Slots \subseteq AllSlots /\ Apis \subseteq {"lua", "c"}
  /\ StackRoom \in Nat \ {0} /\ Disciplined \in BOOLEAN

Bits == {"valid", "process", "profile"}
NotRead == {"not read"}
NoSlot == "no callback"
Threads == {"main", "rt"}

VARIABLES
  marks, read,       \* cud->marks; what each thread has read of it, to change it
  torn,              \* history: has a change of the marks been lost?
  pstate,            \* cud->process_state: "none", "open", or "closed" and still set
  ref, jcb,          \* per callback: its reference; what JACK calls: "none", "lua", "c"
  active,            \* JACK: is the client active?
  rtpc, cb, api,     \* the realtime thread: where it is, in which callback, written in what
  stack, synced,     \* values left on the process state's stack; has a sync callback left one?
  valid, jports,     \* ports: their entries that are valid, those JACK knows
  buf, mine,         \* ports whose buffer is set; history: set in this callback
  answer,            \* what get_buffer() last said in this callback
  mpc,               \* the main thread
  exiting, errbusy,  \* luajack_exit_status; is another context registering its error?
  ignored            \* history: has an error of a callback been ignored?

markvars == <<marks, read, torn>>
regvars == <<pstate, ref, jcb>>
rtvars == <<rtpc, cb, api, stack, synced>>
portvars == <<valid, jports>>
bufvars == <<buf, mine, answer>>
errvars == <<exiting, errbusy, ignored>>
vars == <<markvars, regvars, active, rtvars, portvars, bufvars, mpc, errvars>>

----------------------------------------------------------------------------
(* MarkSet(), MarkReset(): the word is read, changed and written back, and *)
(* what the other thread has written in between is lost.                   *)

Load(x) ==
  /\ read[x] = NotRead /\ read' = [read EXCEPT ![x] = marks]
  /\ UNCHANGED <<marks, torn>>

Store(x, word) ==
  /\ read[x] # NotRead /\ read' = [read EXCEPT ![x] = NotRead]
  /\ marks' = word
  /\ torn' = (torn \/ read[x] # marks)

MarkSet(x, bit) == Store(x, read[x] \cup {bit})
MarkReset(x, bit) == Store(x, read[x] \ {bit})

(* luajack_error(): ignored while another context registers its error      *)
(* (module Threads has the details). It returns 0, and so does the         *)
(* callback: JACK goes on calling it.                                      *)
luajack_error ==
  /\ exiting' = (exiting \/ ~errbusy)
  /\ ignored' = (ignored \/ errbusy)
  /\ UNCHANGED errbusy

(* An error of another context: the lock is taken, then the status is set. *)
OtherError ==
  /\ ~exiting /\ UNCHANGED ignored
  /\ errbusy' = ~errbusy /\ exiting' = errbusy
  /\ UNCHANGED <<markvars, regvars, active, rtvars, portvars, bufvars, mpc>>

----------------------------------------------------------------------------
(* JACK (external), from how LuaJack uses it.                              *)

(* jack_set_..._callback(): the process and buffer size callbacks of an    *)
(* active client are refused, and a conditional timebase callback if there *)
(* is another timebase master.                                             *)
JackAccepts(s) == s \in {"Process", "BufferSize"} => ~active
JackRefuses(s) ==
  \/ s \in {"Process", "BufferSize"} /\ active
  \/ s = "Timebase" /\ jcb[s] = "none"

(* Another client becomes the timebase master.                             *)
TimebaseLost ==
  /\ "Timebase" \in Slots /\ jcb["Timebase"] # "none"
  /\ ~(rtpc # "idle" /\ cb = "Timebase")
  /\ jcb' = [jcb EXCEPT !["Timebase"] = "none"]
  /\ UNCHANGED <<markvars, pstate, ref, active, rtvars, portvars, bufvars, mpc, errvars>>

(* A realtime callback is called.                                          *)
Call(s) ==
  /\ active /\ rtpc = "idle" /\ jcb[s] # "none"
  /\ rtpc' = "begin" /\ cb' = s /\ api' = jcb[s]
  /\ mine' = {} /\ answer' = "none"
  /\ UNCHANGED <<markvars, regvars, active, stack, synced, portvars, buf, mpc, errvars>>

----------------------------------------------------------------------------
(* The realtime thread: BEGIN, EXEC and END around the script's function.  *)

Goto(from, to) == rtpc = from /\ rtpc' = to /\ UNCHANGED <<cb, api, stack, synced>>
Return == rtpc' = "idle" /\ cb' = NoSlot /\ api' = "none" /\ UNCHANGED synced

(* n values more are left on the stack of the process state. *)
Leave(n) == stack' = IF stack + n > StackRoom THEN StackRoom ELSE stack + n

FirstStep == IF cb = "Process" THEN "mark" ELSE "script"

BEGIN_Exiting ==                            \* mutant: luajack_exiting() not asked
  /\ rtpc = "begin"
  /\ IF "valid" \notin marks THEN Return /\ Leave(0) /\ UNCHANGED errvars
     ELSE IF api = "lua" /\ ~ref[cb] THEN Return /\ Leave(1) /\ luajack_error
     ELSE Goto("begin", FirstStep) /\ UNCHANGED errvars
  /\ UNCHANGED <<markvars, regvars, active, portvars, bufvars, mpc>>

(* BEGIN: nothing is done when LuaJack exits or the client is closed; a    *)
(* Lua function that is not there is an UNEXPECTED_ERROR, and nil is left. *)
BEGIN ==
  /\ rtpc = "begin"
  /\ IF exiting \/ "valid" \notin marks THEN Return /\ Leave(0) /\ UNCHANGED errvars
     ELSE IF api = "lua" /\ ~ref[cb] THEN Return /\ Leave(1) /\ luajack_error
     ELSE Goto("begin", FirstStep) /\ UNCHANGED errvars
  /\ UNCHANGED <<markvars, regvars, active, portvars, bufvars, mpc>>

MarkProcessCallback ==
  /\ rtpc = "mark"
  /\ \/ Load("rt") /\ UNCHANGED rtvars
     \/ MarkSet("rt", "process") /\ Goto("mark", "script")
  /\ UNCHANGED <<regvars, active, portvars, bufvars, mpc, errvars>>

(* The script's function returns. Of the result that Sync() asks for it    *)
(* reads the value, and leaves it where it is.                             *)
Results == IF api = "lua" /\ cb = "Sync" THEN 1 ELSE 0

AfterScript == IF cb = "Process" THEN "drop" ELSE "end"

Returns_Result ==                           \* mutant: every function has a result
  /\ rtpc = "script" /\ rtpc' = AfterScript /\ UNCHANGED <<cb, api>>
  /\ Leave(1) /\ synced' = (synced \/ Results > 0)
  /\ UNCHANGED <<markvars, regvars, active, portvars, bufvars, mpc, errvars>>

Returns ==
  /\ rtpc = "script" /\ rtpc' = AfterScript /\ UNCHANGED <<cb, api>>
  /\ Leave(Results) /\ synced' = (synced \/ Results > 0)
  /\ UNCHANGED <<markvars, regvars, active, portvars, bufvars, mpc, errvars>>

(* It fails (lua_pcall(), or a C process or buffer size callback that      *)
(* returns non-zero): what comes after EXEC is skipped, and the message is *)
(* left on the stack.                                                      *)
Fails ==
  /\ rtpc = "script" /\ (api = "c" => cb \in {"Process", "BufferSize"})
  /\ Return /\ Leave(IF api = "lua" THEN 1 ELSE 0) /\ luajack_error
  /\ UNCHANGED <<markvars, regvars, active, portvars, bufvars, mpc>>

buffer_drop_all_No ==                       \* mutant: the buffers are not reset
  /\ Goto("drop", "unmark")
  /\ UNCHANGED <<markvars, regvars, active, portvars, bufvars, mpc, errvars>>

buffer_drop_all ==
  /\ Goto("drop", "unmark")
  /\ buf' = {}
  /\ UNCHANGED <<markvars, regvars, active, portvars, mine, answer, mpc, errvars>>

CancelProcessCallback_No ==                 \* mutant: the mark stays
  /\ Goto("unmark", "end")
  /\ UNCHANGED <<markvars, regvars, active, portvars, bufvars, mpc, errvars>>

CancelProcessCallback ==
  /\ rtpc = "unmark"
  /\ \/ Load("rt") /\ UNCHANGED rtvars
     \/ MarkReset("rt", "process") /\ Goto("unmark", "end")
  /\ UNCHANGED <<regvars, active, portvars, bufvars, mpc, errvars>>

(* END: garbage collection, and the time it took is added to the           *)
(* statistics; neither is modelled.                                        *)
END ==
  /\ rtpc = "end" /\ Return /\ Leave(0)
  /\ UNCHANGED <<markvars, regvars, active, portvars, bufvars, mpc, errvars>>

----------------------------------------------------------------------------
(* get_buffer(), called by the script's function in any callback.          *)

InScript == rtpc = "script"

(* A port is found by its key in the database (Lua), or given by its       *)
(* address (C); either way its entry must be valid. A client's, likewise.  *)
pud_check(p) == p \in valid
get_pud(p) == p \in valid
cud_check == "valid" \in marks

GetBuffer_Unmarked(p) ==                    \* mutant: no CheckProcess()
  /\ InScript /\ api = "lua"
  /\ answer' = IF p \notin valid THEN "invalid"
               ELSE IF p \in buf THEN "already retrieved" ELSE "ok"
  /\ IF answer' = "ok" THEN buf' = buf \cup {p} /\ mine' = mine \cup {p}
                       ELSE UNCHANGED <<buf, mine>>
  /\ UNCHANGED <<markvars, regvars, active, rtvars, portvars, mpc, errvars>>

Refusal(p, found) ==
  IF ~found THEN "invalid"
  ELSE IF "process" \notin marks THEN "not in process callback"
  ELSE IF p \in buf THEN "already retrieved"
  ELSE "none"

Retrieve(p, found) ==
  \/ /\ Refusal(p, found) = "none" /\ answer' = "ok"
     /\ buf' = buf \cup {p} /\ mine' = mine \cup {p}
  \/ /\ answer' = IF Refusal(p, found) = "none" THEN "cannot get"   \* JACK has none
                  ELSE Refusal(p, found)
     /\ UNCHANGED <<buf, mine>>

GetBuffer(p) ==
  /\ InScript /\ api = "lua"
  /\ Retrieve(p, pud_check(p))
  /\ UNCHANGED <<markvars, regvars, active, rtvars, portvars, mpc, errvars>>

(* luajack_get_buffer(): a refusal is an error of LuaJack, which exits.    *)
luajack_get_buffer(p) ==
  /\ InScript /\ api = "c"
  /\ Retrieve(p, get_pud(p))
  /\ IF answer' = "ok" THEN UNCHANGED errvars ELSE luajack_error
  /\ UNCHANGED <<markvars, regvars, active, rtvars, portvars, mpc>>

----------------------------------------------------------------------------
(* The rules of a disciplined script: the process chunk is loaded before   *)
(* the client is activated and registers the callbacks, and the ports of   *)
(* an active client are not unregistered.                                  *)

MayLoad == Disciplined => ~active
MayRegister(x) == Disciplined => x = "main"
MayUnregister == Disciplined => ~active

(* Registration, by the process chunk, which runs in the main thread, or   *)
(* by a callback.                                                          *)
InChunk(x) == IF x = "main" THEN mpc = "chunk" ELSE InScript

(* Register(): the old function is released before JACK is asked.          *)
Register(x, s) ==
  /\ InChunk(x) /\ cud_check /\ MayRegister(x) /\ (x = "rt" => api = "lua")
  /\ \/ JackAccepts(s) /\ ref' = [ref EXCEPT ![s] = TRUE] /\ jcb' = [jcb EXCEPT ![s] = "lua"]
     \/ JackRefuses(s) /\ ref' = [ref EXCEPT ![s] = FALSE] /\ UNCHANGED jcb
  /\ UNCHANGED <<markvars, pstate, active, rtvars, portvars, bufvars, mpc, errvars>>

(* process_ccallback_...(): JACK's answer is returned to the C code.       *)
CRegister(x, s) ==
  /\ InChunk(x) /\ MayRegister(x)
  /\ JackAccepts(s) /\ jcb' = [jcb EXCEPT ![s] = "c"]
  /\ UNCHANGED <<markvars, pstate, ref, active, rtvars, portvars, bufvars, mpc, errvars>>

(* ReleaseTimebase(), process_ccallback_release_timebase()                 *)
ReleaseTimebase(x, a) ==
  /\ InChunk(x) /\ (x = "rt" => a = api)
  /\ jcb' = [jcb EXCEPT !["Timebase"] = "none"]
  /\ ref' = IF a = "lua" THEN [ref EXCEPT !["Timebase"] = FALSE] ELSE ref
  /\ UNCHANGED <<markvars, pstate, active, rtvars, portvars, bufvars, mpc, errvars>>

----------------------------------------------------------------------------
(* The main thread.                                                        *)

MainScript == mpc = "script"

ProcessLoad_Again ==                        \* mutant: a chunk may be loaded already
  /\ MainScript /\ MayLoad
  /\ \/ pstate' = "closed" /\ UNCHANGED mpc
     \/ pstate' = "open" /\ UNCHANGED mpc
     \/ pstate' = "open" /\ mpc' = "chunk"
  /\ UNCHANGED <<markvars, ref, jcb, active, rtvars, portvars, bufvars, errvars>>

(* luajack_newstate() gives no state; luajack_loadchunk() fails and closes *)
(* the state, which stays set; luajack_xmove() refuses an argument.        *)
luajack_newstate_Fails == UNCHANGED <<pstate, mpc>>
luajack_loadchunk_Fails == pstate' = "closed" /\ UNCHANGED mpc
luajack_xmove_Fails == pstate' = "open" /\ UNCHANGED mpc

ProcessLoad_ ==
  /\ MainScript /\ cud_check /\ MayLoad /\ pstate = "none"
  /\ \/ luajack_newstate_Fails \/ luajack_loadchunk_Fails \/ luajack_xmove_Fails
     \/ pstate' = "open" /\ mpc' = "chunk"
  /\ UNCHANGED <<markvars, ref, jcb, active, rtvars, portvars, bufvars, errvars>>

(* The chunk ends, or fails after what it has registered and leaves the    *)
(* message.                                                                *)
ChunkEnds ==
  /\ mpc = "chunk" /\ mpc' = "script"
  /\ Leave(0) \/ Leave(1)
  /\ UNCHANGED <<markvars, regvars, active, rtpc, cb, api, synced, portvars, bufvars, errvars>>

(* PortRegister(): luajack_checkcreate() wants no active client.           *)
pud_new(p) == valid' = valid \cup {p}

PortRegister(p) ==
  /\ MainScript /\ ~active /\ cud_check /\ p \notin jports \cup valid
  /\ jports' = jports \cup {p} /\ pud_new(p)
  /\ UNCHANGED <<markvars, regvars, active, rtvars, bufvars, mpc, errvars>>

PortUnregister_StaysValid(p) ==             \* mutant: no CancelPudValid()
  /\ MainScript /\ MayUnregister /\ pud_check(p)
  /\ jports' = jports \ {p} /\ UNCHANGED valid
  /\ UNCHANGED <<markvars, regvars, active, rtvars, bufvars, mpc, errvars>>

PortUnregister(p) ==
  /\ MainScript /\ MayUnregister /\ pud_check(p)
  /\ jports' = jports \ {p} /\ valid' = valid \ {p}
  /\ UNCHANGED <<markvars, regvars, active, rtvars, bufvars, mpc, errvars>>

Activate ==
  /\ MainScript /\ ~active /\ active' = TRUE
  /\ UNCHANGED <<markvars, regvars, rtvars, portvars, bufvars, mpc, errvars>>

(* jack_deactivate() waits for the callback that is running.               *)
Deactivate ==
  /\ MainScript /\ active /\ rtpc = "idle" /\ active' = FALSE
  /\ UNCHANGED <<markvars, regvars, rtvars, portvars, bufvars, mpc, errvars>>

(* Profile(): "start" also resets the statistics.                          *)
Profile(what) ==
  /\ MainScript /\ cud_check
  /\ mpc' = IF what = "stop" THEN "unprofile" ELSE "profile"
  /\ UNCHANGED <<markvars, regvars, active, rtvars, portvars, bufvars, errvars>>

MarkProfile ==
  /\ mpc \in {"profile", "unprofile"}
  /\ \/ Load("main") /\ UNCHANGED mpc
     \/ mpc = "profile" /\ MarkSet("main", "profile") /\ mpc' = "script"
     \/ mpc = "unprofile" /\ MarkReset("main", "profile") /\ mpc' = "script"
  /\ UNCHANGED <<regvars, active, rtvars, portvars, bufvars, errvars>>

----------------------------------------------------------------------------
(* client_close(), called by the script or at exit.                        *)

Close_PortsFirst ==                         \* mutant: port_close_all() before Deactivate_()
  /\ MainScript /\ mpc' = "deactivate"
  /\ jports' = jports \ valid /\ valid' = {}
  /\ UNCHANGED <<markvars, regvars, active, rtvars, bufvars, errvars>>

Close_RefsFirst ==                          \* mutant: process_unregister() comes first
  /\ MainScript /\ mpc' = "deactivate"
  /\ ref' = [s \in Slots |-> FALSE]
  /\ UNCHANGED <<markvars, pstate, jcb, active, rtvars, portvars, bufvars, errvars>>

Close ==
  /\ MainScript /\ mpc' = "deactivate"
  /\ UNCHANGED <<markvars, regvars, active, rtvars, portvars, bufvars, errvars>>

(* Deactivate_(): no more callbacks.                                       *)
CloseDeactivate ==
  /\ mpc = "deactivate" /\ mpc' = "ports"
  /\ rtpc = "idle" /\ active' = FALSE
  /\ UNCHANGED <<markvars, regvars, rtvars, portvars, bufvars, errvars>>

port_close_all ==
  /\ mpc = "ports" /\ mpc' = "jack close"
  /\ jports' = jports \ valid /\ valid' = {}
  /\ UNCHANGED <<markvars, regvars, active, rtvars, bufvars, errvars>>

(* jack_client_close(); without a Lua state, at exit, the references are   *)
(* not released.                                                           *)
JackClose ==
  /\ mpc = "jack close" /\ mpc' \in {"unregister", "invalidate"}
  /\ jcb' = [s \in Slots |-> "none"]
  /\ UNCHANGED <<markvars, pstate, ref, active, rtvars, portvars, bufvars, errvars>>

process_unregister ==
  /\ mpc = "unregister" /\ mpc' = "invalidate"
  /\ ref' = IF pstate = "none" THEN ref ELSE [s \in Slots |-> FALSE]
  /\ UNCHANGED <<markvars, pstate, jcb, active, rtvars, portvars, bufvars, errvars>>

CancelCudValid ==
  /\ mpc = "invalidate"
  /\ \/ Load("main") /\ UNCHANGED mpc
     \/ MarkReset("main", "valid") /\ mpc' = "closed"
  /\ UNCHANGED <<regvars, active, rtvars, portvars, bufvars, errvars>>

----------------------------------------------------------------------------
(* cud_new(): the entry of an open client.                                 *)
Init ==
  /\ marks = {"valid"} /\ read = [x \in Threads |-> NotRead] /\ torn = FALSE
  /\ pstate = "none" /\ active = FALSE
  /\ ref = [s \in Slots |-> FALSE] /\ jcb = [s \in Slots |-> "none"]
  /\ rtpc = "idle" /\ cb = NoSlot /\ api = "none" /\ stack = 0 /\ synced = FALSE
  /\ valid = {} /\ jports = {}
  /\ buf = {} /\ mine = {} /\ answer = "none"
  /\ mpc = "script" /\ exiting = FALSE /\ errbusy = FALSE /\ ignored = FALSE

Callback ==
  \/ BEGIN \/ MarkProcessCallback \/ Returns \/ Fails
  \/ buffer_drop_all \/ CancelProcessCallback \/ END

Chunk(x) ==
  \/ "lua" \in Apis /\ \E s \in Slots : Register(x, s)
  \/ "c" \in Apis /\ \E s \in Slots : CRegister(x, s)
  \/ "Timebase" \in Slots /\ \E a \in Apis : ReleaseTimebase(x, a)

CloseStep ==
  Close \/ CloseDeactivate \/ port_close_all \/ JackClose \/ process_unregister \/ CancelCudValid

Next ==
  \/ \E s \in Slots : Call(s)
  \/ Callback
  \/ \E p \in Ports :
       GetBuffer(p) \/ luajack_get_buffer(p) \/ PortRegister(p) \/ PortUnregister(p)
  \/ \E x \in Threads : Chunk(x)
  \/ ProcessLoad_ \/ ChunkEnds \/ Activate \/ Deactivate
  \/ \E what \in {"start", "restart", "stop"} : Profile(what)
  \/ MarkProfile \/ CloseStep
  \/ TimebaseLost \/ OtherError

Spec == Init /\ [][Next]_vars

----------------------------------------------------------------------------
(* Type invariant.                                                         *)
MarkType ==
  /\ marks \subseteq Bits /\ read \in [Threads -> (SUBSET Bits) \cup {NotRead}]
  /\ torn \in BOOLEAN

RegType ==
  /\ pstate \in {"none", "open", "closed"}
  /\ ref \in [Slots -> BOOLEAN] /\ jcb \in [Slots -> Apis \cup {"none"}]

RtType ==
  /\ active \in BOOLEAN
  /\ rtpc \in {"idle", "begin", "mark", "script", "drop", "unmark", "end"}
  /\ cb \in Slots \cup {NoSlot} /\ api \in Apis \cup {"none"}
  /\ stack \in 0..StackRoom /\ synced \in BOOLEAN
  /\ rtpc # "idle" => active /\ cb # NoSlot /\ api # "none"

PortType ==
  /\ valid \subseteq jports /\ jports \subseteq Ports
  /\ buf \subseteq Ports /\ mine \subseteq Ports
  /\ answer \in {"none", "ok", "invalid", "not in process callback", "already retrieved",
                 "cannot get"}

MainType ==
  /\ mpc \in {"script", "chunk", "profile", "unprofile", "deactivate", "ports", "jack close",
              "unregister", "invalidate", "closed"}
  /\ exiting \in BOOLEAN /\ errbusy \in BOOLEAN /\ ignored \in BOOLEAN

TypeOK == MarkType /\ RegType /\ RtType /\ PortType /\ MainType

(* No change of the marks was lost, and no error of a callback ignored.    *)
Undisturbed == ~torn /\ ~ignored

(* "function available only in process callback" (src/buffer.c,            *)
(* src/luajack.c): get_buffer() says so in every other callback, and never *)
(* in the process callback.                                                *)
GetBufferInProcess ==
  rtpc = "script" =>
    /\ answer = "not in process callback" => cb # "Process"
    /\ answer = "ok" => cb = "Process"

(* It is so as long as the callbacks are undisturbed.                      *)
GetBufferIfMarked == Undisturbed => GetBufferInProcess

(* A callback that runs has no buffer of an earlier cycle: get_buffer() is *)
(* never refused for one, and read() and write() never use one. The error  *)
(* path leaves buffers behind; luajack_exiting() then keeps every later    *)
(* callback from running, unless the error was ignored.                    *)
BufferOfThisCycle == Undisturbed /\ rtpc = "script" => buf \subseteq mine

(* The stack of the process state, which nothing pops, does not grow from  *)
(* callback to callback until Lua refuses to run one: there is at most the *)
(* message of the chunk on it, since the callbacks that leave a message    *)
(* are the last ones, unless the error was ignored. Sync() breaks this:    *)
(* each of its calls leaves a value.                                       *)
StackDoesNotGrow == Undisturbed /\ ~exiting /\ ~synced => stack <= 1

(* The buffer that a callback has retrieved is that of a port JACK still   *)
(* knows: client_close() unregisters the ports after the last callback.    *)
BufferOfLivePort == rtpc = "script" => mine \subseteq jports

(* BEGIN finds the function of a callback that JACK calls: no              *)
(* UNEXPECTED_ERROR, also while the client is being closed.                *)
NeverUnexpected ==
  rtpc = "begin" /\ api = "lua" /\ ~exiting /\ "valid" \in marks => ref[cb]

(* The state of the process context is used by one thread at a time, and   *)
(* never after it has been closed because its chunk did not load.          *)
RtInState == api = "lua" /\ rtpc \notin {"idle", "begin"}
MainInState == mpc = "chunk" \/ (mpc = "unregister" /\ \E s \in Slots : ref[s])

StateUsedByOne ==
  /\ ~(RtInState /\ MainInState)
  /\ RtInState \/ MainInState => pstate = "open"

----------------------------------------------------------------------------
(* The inductive invariants of ProcessProofs.                              *)

InProcess == cb = "Process" /\ rtpc \in {"script", "drop", "unmark"}
Between == rtpc \in {"idle", "begin"}

(* What a callback starts with; who sets the mark. *)
StartInv ==
  /\ rtpc \in {"begin", "mark"} => mine = {} /\ answer = "none"
  /\ rtpc \in {"mark", "drop", "unmark"} => cb = "Process"

(* The mark of the process callback is set inside it only; the error path  *)
(* leaves it set, and luajack_exiting() keeps the next callback away. *)
MarkInv ==
  Undisturbed =>
    /\ InProcess => "process" \in marks
    /\ ~InProcess /\ (Between => ~exiting) => "process" \notin marks

BufInv ==
  Undisturbed =>
    /\ InProcess => buf \subseteq mine
    /\ ~InProcess /\ (Between => ~exiting) => buf = {}
    /\ rtpc = "unmark" => buf = {}

CallbackInv == StartInv /\ MarkInv /\ BufInv /\ GetBufferIfMarked

(* Nothing is on the stack before the chunk has ended, which runs once. *)
StackInv ==
  /\ mpc = "chunk" => pstate # "none"
  /\ StackDoesNotGrow
  /\ Undisturbed /\ ~exiting /\ ~synced /\ (pstate = "none" \/ mpc = "chunk") => stack = 0

IInv == TypeOK /\ CallbackInv /\ StackInv

(* A chunk runs, and a client is closed, without callbacks. *)
QuietInv ==
  /\ mpc \in {"chunk", "ports", "jack close", "unregister", "invalidate", "closed"} => ~active
  /\ mpc = "unregister" => \A s \in Slots : jcb[s] = "none"

(* A Lua callback that JACK calls has its function, in a state that is open. *)
RegInv ==
  /\ \A s \in Slots : jcb[s] = "lua" => ref[s]
  /\ \A s \in Slots : ref[s] => pstate = "open"
  /\ mpc = "chunk" => pstate = "open"
  /\ api = "lua" => pstate = "open" /\ (rtpc = "begin" => ref[cb])

DInv == QuietInv /\ RegInv /\ BufferOfLivePort
=============================================================================
