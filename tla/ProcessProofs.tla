--------------------------- MODULE ProcessProofs ---------------------------
(***************************************************************************)
(* What holds of the realtime callbacks of a client, for any number of     *)
(* ports and any set of callbacks: of the marks and the buffers whatever   *)
(* the script does, of registration and closing if it is disciplined.      *)
(***************************************************************************)
EXTENDS Process, TLAPS

PortStep(p) == GetBuffer(p) \/ luajack_get_buffer(p) \/ PortRegister(p) \/ PortUnregister(p)
MainStep ==
  \/ ProcessLoad_ \/ ChunkEnds \/ Activate \/ Deactivate
  \/ \E what \in {"start", "restart", "stop"} : Profile(what)
OtherStep == TimebaseLost \/ OtherError

LEMMA Steps ==
  ASSUME Next
  PROVE  \/ \E s \in Slots : Call(s)
         \/ Callback \/ MainStep \/ MarkProfile \/ CloseStep \/ OtherStep
         \/ \E p \in Ports : PortStep(p)
         \/ \E x \in Threads : Chunk(x)
  BY DEF Next, PortStep, MainStep, OtherStep

LEMMA SlotsKnown == NoSlot \notin Slots /\ "none" \notin Apis
  BY ProcessAssumption DEF AllSlots, NoSlot

----------------------------------------------------------------------------
(* Type correctness, one group of variables at a time.                     *)

LEMMA MarkKept == ASSUME MarkType, UNCHANGED markvars PROVE MarkType'
  BY DEF MarkType, markvars
LEMMA RegKept == ASSUME RegType, UNCHANGED regvars PROVE RegType'
  BY DEF RegType, regvars
LEMMA RtKept == ASSUME RtType, UNCHANGED rtvars, UNCHANGED active PROVE RtType'
  BY DEF RtType, rtvars
LEMMA PortKept == ASSUME PortType, UNCHANGED portvars, UNCHANGED bufvars PROVE PortType'
  BY DEF PortType, portvars, bufvars
LEMMA MainKept == ASSUME MainType, UNCHANGED mpc, UNCHANGED errvars PROVE MainType'
  BY DEF MainType, errvars

LEMMA InitType == ASSUME Init PROVE TypeOK
<1>1. read \in [Threads -> {NotRead}] /\ marks = {"valid"} /\ torn = FALSE
  BY DEF Init
<1>2. ref \in [Slots -> BOOLEAN] /\ jcb \in [Slots -> Apis \cup {"none"}] /\ pstate = "none"
  BY DEF Init
<1>3. MarkType
  BY <1>1 DEF MarkType, Bits
<1>4. RegType
  BY <1>2 DEF RegType
<1>5. RtType
  <2>1. stack \in 0..StackRoom
    BY ProcessAssumption DEF Init
  <2>2. rtpc = "idle" /\ cb = NoSlot /\ api = "none" /\ active \in BOOLEAN /\ synced \in BOOLEAN
    BY DEF Init
  <2> QED BY <2>1, <2>2 DEF RtType
<1>6. PortType
  BY DEF Init, PortType
<1>7. MainType
  BY DEF Init, MainType
<1> QED BY <1>3, <1>4, <1>5, <1>6, <1>7 DEF TypeOK

LEMMA MarksChange ==
  ASSUME MarkType, NEW x \in Threads, NEW bit \in Bits,
         Load(x) \/ MarkSet(x, bit) \/ MarkReset(x, bit)
  PROVE  MarkType'
<1>1. CASE Load(x)
  <2>1. read' = [read EXCEPT ![x] = marks] /\ UNCHANGED <<marks, torn>>
    BY <1>1 DEF Load
  <2> QED BY <2>1 DEF MarkType
<1>2. CASE MarkSet(x, bit) \/ MarkReset(x, bit)
  <2>1. PICK word : Store(x, word) /\ word \in {read[x] \cup {bit}, read[x] \ {bit}}
    BY <1>2 DEF MarkSet, MarkReset
  <2>2. /\ read[x] # NotRead /\ read' = [read EXCEPT ![x] = NotRead] /\ marks' = word
        /\ torn' \in BOOLEAN
    BY <2>1 DEF Store, MarkType
  <2>3. read[x] \in SUBSET Bits
    BY <2>2 DEF MarkType
  <2>4. word \subseteq Bits
    BY <2>1, <2>3
  <2>5. read' \in [Threads -> (SUBSET Bits) \cup {NotRead}]
    BY <2>2 DEF MarkType
  <2> QED BY <2>2, <2>4, <2>5 DEF MarkType
<1> QED BY <1>1, <1>2

LEMMA ErrorType ==
  ASSUME MainType, luajack_error, UNCHANGED mpc
  PROVE  MainType'
<1>1. /\ exiting' \in BOOLEAN /\ errbusy' \in BOOLEAN /\ ignored' \in BOOLEAN
  BY DEF luajack_error, MainType
<1> QED BY <1>1 DEF MainType

LEMMA TypeCall ==
  ASSUME TypeOK, NEW s \in Slots, Call(s)
  PROVE  TypeOK'
<1>1. RtType'
  BY SlotsKnown DEF TypeOK, RegType, RtType, Call
<1>2. PortType'
  BY DEF TypeOK, PortType, Call, portvars
<1>3. MarkType' /\ RegType' /\ MainType'
  BY MarkKept, RegKept, MainKept DEF TypeOK, Call
<1> QED BY <1>1, <1>2, <1>3 DEF TypeOK

LEMMA LeaveType ==
  ASSUME stack \in 0..StackRoom, NEW n \in 0..1, Leave(n)
  PROVE  stack' \in 0..StackRoom
  BY ProcessAssumption DEF Leave

LEMMA ReturnType ==
  ASSUME RtType, Return, NEW n \in 0..1, Leave(n), UNCHANGED active
  PROVE  RtType'
<1>1. stack' \in 0..StackRoom
  BY LeaveType DEF RtType
<1> QED BY <1>1 DEF RtType, Return

LEMMA GotoType ==
  ASSUME RtType, NEW from \in {"begin", "mark", "script", "drop", "unmark"},
         NEW to \in {"mark", "script", "drop", "unmark", "end"}, Goto(from, to), UNCHANGED active
  PROVE  RtType'
  BY DEF RtType, Goto

LEMMA TypeCallback ==
  ASSUME TypeOK, Callback
  PROVE  TypeOK'
<1>1. CASE BEGIN
  <2>1. MarkType' /\ RegType' /\ PortType'
    BY <1>1, MarkKept, RegKept, PortKept DEF TypeOK, BEGIN
  <2>2. RtType'
    <3>1. \/ \E n \in 0..1 : Return /\ Leave(n)
          \/ Goto("begin", "mark") \/ Goto("begin", "script")
      BY <1>1 DEF BEGIN, FirstStep
    <3> QED BY <1>1, <3>1, ReturnType, GotoType DEF TypeOK, BEGIN
  <2>3. MainType'
    BY <1>1, ErrorType, MainKept DEF TypeOK, BEGIN
  <2> QED BY <2>1, <2>2, <2>3 DEF TypeOK
<1>2. CASE MarkProcessCallback \/ CancelProcessCallback
  <2>1. RegType' /\ PortType' /\ MainType'
    BY <1>2, RegKept, PortKept, MainKept DEF TypeOK, MarkProcessCallback, CancelProcessCallback
  <2>2. UNCHANGED rtvars \/ Goto("mark", "script") \/ Goto("unmark", "end")
    BY <1>2 DEF MarkProcessCallback, CancelProcessCallback
  <2>3. RtType'
    BY <1>2, <2>2, RtKept, GotoType DEF TypeOK, MarkProcessCallback, CancelProcessCallback
  <2>4. "rt" \in Threads /\ "process" \in Bits
    BY DEF Threads, Bits
  <2>5. MarkType'
    BY <1>2, <2>4, MarksChange DEF TypeOK, MarkProcessCallback, CancelProcessCallback
  <2> QED BY <2>1, <2>3, <2>5 DEF TypeOK
<1>3. CASE Fails
  <2>1. \E n \in 0..1 : Return /\ Leave(n)
    BY <1>3 DEF Fails
  <2>2. RtType'
    BY <1>3, <2>1, ReturnType DEF TypeOK, Fails
  <2> QED BY <1>3, <2>2, MarkKept, RegKept, PortKept, ErrorType DEF TypeOK, Fails
<1>4. CASE Returns
  <2>1. /\ rtpc = "script" /\ rtpc' \in {"drop", "end"} /\ synced' \in BOOLEAN
        /\ UNCHANGED <<cb, api, active>> /\ \E n \in 0..1 : Leave(n)
    BY <1>4 DEF TypeOK, RtType, Returns, AfterScript, Results
  <2>2. stack' \in 0..StackRoom
    BY <2>1, LeaveType DEF TypeOK, RtType
  <2>3. RtType'
    BY <2>1, <2>2 DEF TypeOK, RtType
  <2> QED BY <1>4, <2>3, MarkKept, RegKept, PortKept, MainKept DEF TypeOK, Returns
<1>5. CASE buffer_drop_all
  <2>1. PortType'
    BY <1>5 DEF TypeOK, PortType, buffer_drop_all, portvars
  <2> QED BY <1>5, <2>1, MarkKept, RegKept, GotoType, MainKept DEF TypeOK, buffer_drop_all
<1>6. CASE END
  <2>1. Leave(0) /\ 0 \in 0..1
    BY <1>6 DEF END
  <2> QED BY <1>6, <2>1, MarkKept, RegKept, PortKept, ReturnType, MainKept DEF TypeOK, END
<1> QED BY <1>1, <1>2, <1>3, <1>4, <1>5, <1>6 DEF Callback

LEMMA RetrieveFacts ==
  ASSUME NEW p \in Ports, Retrieve(p, p \in valid)
  PROVE  /\ answer' \in {"ok", "invalid", "not in process callback", "already retrieved",
                         "cannot get"}
         /\ answer' = "ok" =>
              /\ p \in valid /\ "process" \in marks
              /\ buf' = buf \cup {p} /\ mine' = mine \cup {p}
         /\ answer' # "ok" => UNCHANGED <<buf, mine>>
         /\ answer' = "not in process callback" => "process" \notin marks
  BY DEF Retrieve, Refusal

LEMMA TypePort ==
  ASSUME TypeOK, NEW p \in Ports, PortStep(p)
  PROVE  TypeOK'
<1>1. CASE GetBuffer(p) \/ luajack_get_buffer(p)
  <2>1. MarkType' /\ RegType' /\ RtType'
    BY <1>1, MarkKept, RegKept, RtKept DEF TypeOK, GetBuffer, luajack_get_buffer
  <2>2. MainType'
    BY <1>1, MainKept, ErrorType DEF TypeOK, GetBuffer, luajack_get_buffer
  <2>3. Retrieve(p, p \in valid) /\ UNCHANGED portvars
    BY <1>1 DEF GetBuffer, luajack_get_buffer, pud_check, get_pud
  <2>4. PortType'
    BY <2>3, RetrieveFacts DEF TypeOK, PortType, portvars
  <2> QED BY <2>1, <2>2, <2>4 DEF TypeOK
<1>2. CASE PortRegister(p) \/ PortUnregister(p)
  <2>1. MarkType' /\ RegType' /\ RtType' /\ MainType'
    BY <1>2, MarkKept, RegKept, RtKept, MainKept DEF TypeOK, PortRegister, PortUnregister
  <2>2. PortType'
    BY <1>2 DEF TypeOK, PortType, PortRegister, PortUnregister, pud_new, bufvars
  <2> QED BY <2>1, <2>2 DEF TypeOK
<1> QED BY <1>1, <1>2 DEF PortStep

LEMMA TypeChunk ==
  ASSUME TypeOK, NEW x \in Threads, Chunk(x)
  PROVE  TypeOK'
<1>1. MarkType' /\ RtType' /\ PortType' /\ MainType'
  BY MarkKept, RtKept, PortKept, MainKept DEF TypeOK, Chunk, Register, CRegister, ReleaseTimebase
<1>2. \E s \in Slots : \/ ref' = ref \/ ref' = [ref EXCEPT ![s] = TRUE]
                       \/ ref' = [ref EXCEPT ![s] = FALSE]
  BY DEF Chunk, Register, CRegister, ReleaseTimebase
<1>3. \E s \in Slots, a \in Apis \cup {"none"} : jcb' = jcb \/ jcb' = [jcb EXCEPT ![s] = a]
  BY DEF Chunk, Register, CRegister, ReleaseTimebase
<1>4. UNCHANGED pstate
  BY DEF Chunk, Register, CRegister, ReleaseTimebase
<1>5. RegType'
  BY <1>2, <1>3, <1>4 DEF TypeOK, RegType
<1> QED BY <1>1, <1>5 DEF TypeOK

LEMMA TypeMain ==
  ASSUME TypeOK, MainStep \/ MarkProfile
  PROVE  TypeOK'
<1>1. CASE ProcessLoad_
  <2>1. MarkType' /\ RtType' /\ PortType'
    BY <1>1, MarkKept, RtKept, PortKept DEF TypeOK, ProcessLoad_
  <2>2. pstate' \in {pstate, "closed", "open"} /\ mpc' \in {mpc, "chunk"}
    BY <1>1 DEF ProcessLoad_, luajack_newstate_Fails, luajack_loadchunk_Fails, luajack_xmove_Fails
  <2>3. RegType' /\ MainType'
    BY <1>1, <2>2 DEF TypeOK, RegType, MainType, ProcessLoad_, errvars
  <2> QED BY <2>1, <2>3 DEF TypeOK
<1>2. CASE ChunkEnds \/ \E what \in {"start", "restart", "stop"} : Profile(what)
  <2>1. MarkType' /\ RegType' /\ PortType'
    BY <1>2, MarkKept, RegKept, PortKept DEF TypeOK, ChunkEnds, Profile
  <2>2. MainType'
    BY <1>2 DEF TypeOK, MainType, ChunkEnds, Profile, errvars
  <2>3. \/ UNCHANGED rtvars /\ UNCHANGED active
        \/ UNCHANGED <<rtpc, cb, api, synced, active>> /\ \E n \in 0..1 : Leave(n)
    BY <1>2 DEF ChunkEnds, Profile
  <2>4. ASSUME UNCHANGED <<rtpc, cb, api, synced, active>>, NEW n \in 0..1, Leave(n)
        PROVE  RtType'
    <3>1. stack' \in 0..StackRoom
      BY <2>4, LeaveType DEF TypeOK, RtType
    <3> QED BY <2>4, <3>1 DEF TypeOK, RtType
  <2>5. RtType'
    BY <2>3, <2>4, RtKept DEF TypeOK
  <2> QED BY <2>1, <2>2, <2>5 DEF TypeOK
<1>3. CASE Activate \/ Deactivate
  <2>1. RtType'
    BY <1>3 DEF TypeOK, RtType, Activate, Deactivate, rtvars
  <2> QED BY <1>3, <2>1, MarkKept, RegKept, PortKept, MainKept DEF TypeOK, Activate, Deactivate
<1>4. CASE MarkProfile
  <2>1. RegType' /\ RtType' /\ PortType'
    BY <1>4, RegKept, RtKept, PortKept DEF TypeOK, MarkProfile
  <2>2. MainType'
    BY <1>4 DEF TypeOK, MainType, MarkProfile, errvars
  <2>3. "main" \in Threads /\ "profile" \in Bits
    BY DEF Threads, Bits
  <2>4. MarkType'
    BY <1>4, <2>3, MarksChange DEF TypeOK, MarkProfile
  <2> QED BY <2>1, <2>2, <2>4 DEF TypeOK
<1> QED BY <1>1, <1>2, <1>3, <1>4 DEF MainStep

LEMMA TypeClose ==
  ASSUME TypeOK, CloseStep
  PROVE  TypeOK'
<1>1. MainType'
  BY DEF TypeOK, MainType, CloseStep, Close, CloseDeactivate, port_close_all, JackClose,
     process_unregister, CancelCudValid, errvars
<1>2. CASE Close \/ CloseDeactivate
  <2>1. RtType'
    BY <1>2 DEF TypeOK, RtType, Close, CloseDeactivate, rtvars
  <2> QED BY <1>1, <1>2, <2>1, MarkKept, RegKept, PortKept DEF TypeOK, Close, CloseDeactivate
<1>3. CASE port_close_all
  <2>1. PortType'
    BY <1>3 DEF TypeOK, PortType, port_close_all, bufvars
  <2> QED BY <1>1, <1>3, <2>1, MarkKept, RegKept, RtKept DEF TypeOK, port_close_all
<1>4. CASE JackClose \/ process_unregister
  <2>1. RegType'
    BY <1>4 DEF TypeOK, RegType, JackClose, process_unregister
  <2> QED BY <1>1, <1>4, <2>1, MarkKept, RtKept, PortKept DEF TypeOK, JackClose, process_unregister
<1>5. CASE CancelCudValid
  <2>1. "main" \in Threads /\ "valid" \in Bits
    BY DEF Threads, Bits
  <2>2. MarkType'
    BY <1>5, <2>1, MarksChange DEF TypeOK, CancelCudValid
  <2> QED BY <1>1, <1>5, <2>2, RegKept, RtKept, PortKept DEF TypeOK, CancelCudValid
<1> QED BY <1>2, <1>3, <1>4, <1>5 DEF CloseStep

LEMMA TypeOther ==
  ASSUME TypeOK, OtherStep
  PROVE  TypeOK'
<1>1. CASE TimebaseLost
  <2>1. RegType'
    BY <1>1 DEF TypeOK, RegType, TimebaseLost
  <2> QED BY <1>1, <2>1, MarkKept, RtKept, PortKept, MainKept DEF TypeOK, TimebaseLost
<1>2. CASE OtherError
  <2>1. MainType'
    BY <1>2 DEF TypeOK, MainType, OtherError
  <2> QED BY <1>2, <2>1, MarkKept, RegKept, RtKept, PortKept DEF TypeOK, OtherError
<1> QED BY <1>1, <1>2 DEF OtherStep

----------------------------------------------------------------------------
(* The mark of the process callback and the buffers.                       *)

LEMMA ErrorExits ==
  ASSUME MainType, luajack_error
  PROVE  /\ exiting => exiting'
         /\ Undisturbed' /\ UNCHANGED torn => Undisturbed /\ exiting'
<1>1. /\ exiting' = (exiting \/ ~errbusy) /\ ignored' = (ignored \/ errbusy)
      /\ exiting \in BOOLEAN /\ errbusy \in BOOLEAN /\ ignored \in BOOLEAN
  BY DEF luajack_error, MainType
<1>2. exiting => exiting'
  BY <1>1
<1>3. ~ignored' => ~ignored /\ ~errbusy /\ exiting'
  BY <1>1
<1> QED BY <1>2, <1>3 DEF Undisturbed

(* A step that is not one of the callback, and does not lose a change of   *)
(* the marks, leaves the invariant as it is.                               *)
LEMMA CallbackKept ==
  ASSUME CallbackInv, UNCHANGED <<rtpc, cb>>, UNCHANGED bufvars, exiting => exiting',
         Undisturbed' => Undisturbed /\ ("process" \in marks' <=> "process" \in marks)
  PROVE  CallbackInv'
<1>1. UNCHANGED <<rtpc, cb, buf, mine, answer>>
  BY DEF bufvars
<1>2. StartInv' /\ GetBufferIfMarked'
  BY <1>1 DEF CallbackInv, StartInv, GetBufferIfMarked, GetBufferInProcess
<1>3. MarkInv' /\ BufInv'
  BY <1>1 DEF CallbackInv, MarkInv, BufInv, InProcess, Between
<1> QED BY <1>2, <1>3 DEF CallbackInv

LEMMA MarksKept ==
  ASSUME CallbackInv, UNCHANGED <<rtpc, cb>>, UNCHANGED bufvars, UNCHANGED errvars,
         UNCHANGED markvars
  PROVE  CallbackInv'
  BY CallbackKept DEF errvars, markvars, Undisturbed

(* A change of another mark. *)
LEMMA OtherMark ==
  ASSUME TypeOK, NEW x \in Threads, NEW bit \in Bits \ {"process"},
         Load(x) \/ MarkSet(x, bit) \/ MarkReset(x, bit), UNCHANGED errvars
  PROVE  Undisturbed' => Undisturbed /\ ("process" \in marks' <=> "process" \in marks)
<1>1. CASE Load(x)
  BY <1>1 DEF Load, Undisturbed, errvars
<1>2. CASE MarkSet(x, bit) \/ MarkReset(x, bit)
  <2>1. /\ marks' = read[x] \cup {bit} \/ marks' = read[x] \ {bit}
        /\ torn' = (torn \/ read[x] # marks) /\ torn \in BOOLEAN
    BY <1>2 DEF MarkSet, MarkReset, Store, TypeOK, MarkType
  <2>2. ~torn' => ~torn /\ read[x] = marks
    BY <2>1
  <2>3. ~torn' => ("process" \in marks' <=> "process" \in marks)
    BY <2>1, <2>2
  <2> QED BY <2>2, <2>3 DEF Undisturbed, errvars
<1> QED BY <1>1, <1>2

LEMMA CallKeeps ==
  ASSUME TypeOK, CallbackInv, NEW s \in Slots, Call(s)
  PROVE  CallbackInv'
<1>1. /\ rtpc = "idle" /\ rtpc' = "begin" /\ mine' = {} /\ answer' = "none"
      /\ UNCHANGED <<marks, torn, buf, exiting, ignored>>
  BY DEF Call, markvars, errvars
<1>2. MarkInv' /\ BufInv'
  BY <1>1 DEF CallbackInv, MarkInv, BufInv, InProcess, Between, Undisturbed
<1>3. StartInv' /\ GetBufferIfMarked'
  BY <1>1 DEF StartInv, GetBufferIfMarked, GetBufferInProcess
<1> QED BY <1>2, <1>3 DEF CallbackInv

(* The callback returns to JACK, having ended, failed or done nothing. *)
LEMMA ReturnKeeps ==
  ASSUME CallbackInv, rtpc' = "idle", UNCHANGED <<marks, torn, buf>>,
         Undisturbed' => Undisturbed, exiting => exiting',
         Undisturbed' => exiting' \/ rtpc \in {"begin", "end"}
  PROVE  CallbackInv'
<1>1. StartInv' /\ GetBufferIfMarked'
  BY DEF StartInv, GetBufferIfMarked, GetBufferInProcess
<1>2. MarkInv' /\ BufInv'
  BY DEF CallbackInv, MarkInv, BufInv, InProcess, Between
<1> QED BY <1>1, <1>2 DEF CallbackInv

LEMMA BeginKeeps ==
  ASSUME TypeOK, CallbackInv, BEGIN
  PROVE  CallbackInv'
<1>1. rtpc = "begin" /\ UNCHANGED <<marks, torn, buf, mine, answer>>
  BY DEF BEGIN, markvars, bufvars
<1>2. CASE Return /\ UNCHANGED errvars
  BY <1>1, <1>2, ReturnKeeps DEF Return, errvars, Undisturbed
<1>3. CASE Return /\ luajack_error
  BY <1>1, <1>3, ReturnKeeps, ErrorExits DEF Return, TypeOK
<1>4. CASE ~exiting /\ Goto("begin", FirstStep) /\ UNCHANGED errvars
  <2>1. /\ ~InProcess /\ Between /\ UNCHANGED <<cb, exiting, ignored>> /\ answer = "none"
        /\ rtpc' = IF cb = "Process" THEN "mark" ELSE "script"
    BY <1>1, <1>4 DEF Goto, FirstStep, InProcess, Between, CallbackInv, StartInv, errvars
  <2>2. ~InProcess' /\ ~Between' /\ rtpc' \in {"mark", "script"}
    BY <2>1 DEF InProcess, Between
  <2>3. MarkInv' /\ BufInv'
    BY <1>1, <1>4, <2>1, <2>2 DEF CallbackInv, MarkInv, BufInv, Undisturbed
  <2>4. StartInv' /\ GetBufferIfMarked'
    BY <1>1, <2>1 DEF CallbackInv, StartInv, GetBufferIfMarked, GetBufferInProcess
  <2> QED BY <2>3, <2>4 DEF CallbackInv
<1> QED BY <1>2, <1>3, <1>4 DEF BEGIN

LEMMA MarkKeeps ==
  ASSUME TypeOK, CallbackInv, MarkProcessCallback \/ CancelProcessCallback
  PROVE  CallbackInv'
<1>1. UNCHANGED <<cb, buf, mine, answer, exiting, ignored>>
  BY DEF MarkProcessCallback, CancelProcessCallback, Goto, rtvars, bufvars, errvars
<1>2. CASE Load("rt") /\ UNCHANGED rtvars
  BY <1>2, MarksKept, CallbackKept DEF Load, Undisturbed, MarkProcessCallback,
     CancelProcessCallback, errvars, rtvars
<1>3. CASE MarkSet("rt", "process") /\ Goto("mark", "script")
  <2>1. /\ rtpc = "mark" /\ rtpc' = "script" /\ cb = "Process" /\ answer = "none"
        /\ "process" \in marks' /\ (Undisturbed' => Undisturbed)
    BY <1>1, <1>3 DEF Goto, CallbackInv, StartInv, MarkSet, Store, Undisturbed, TypeOK, MarkType
  <2>2. MarkInv' /\ BufInv'
    BY <1>1, <2>1 DEF CallbackInv, MarkInv, BufInv, InProcess, Between
  <2>3. StartInv' /\ GetBufferIfMarked'
    BY <1>1, <2>1 DEF StartInv, GetBufferIfMarked, GetBufferInProcess
  <2> QED BY <2>2, <2>3 DEF CallbackInv
<1>4. CASE MarkReset("rt", "process") /\ Goto("unmark", "end")
  <2>1. /\ rtpc = "unmark" /\ rtpc' = "end"
        /\ "process" \notin marks' /\ (Undisturbed' => Undisturbed)
    BY <1>1, <1>4 DEF Goto, MarkReset, Store, Undisturbed, TypeOK, MarkType
  <2>2. MarkInv' /\ BufInv'
    BY <1>1, <2>1 DEF CallbackInv, MarkInv, BufInv, InProcess, Between
  <2>3. StartInv' /\ GetBufferIfMarked'
    BY <2>1 DEF StartInv, GetBufferIfMarked, GetBufferInProcess
  <2> QED BY <2>2, <2>3 DEF CallbackInv
<1> QED BY <1>2, <1>3, <1>4 DEF MarkProcessCallback, CancelProcessCallback

LEMMA ScriptKeeps ==
  ASSUME TypeOK, CallbackInv, Returns \/ Fails \/ buffer_drop_all \/ END
  PROVE  CallbackInv'
<1>1. CASE Fails
  BY <1>1, ReturnKeeps, ErrorExits DEF Fails, Return, TypeOK, markvars, bufvars
<1>2. CASE END
  <2>1. /\ rtpc = "end" /\ rtpc' = "idle" /\ UNCHANGED <<marks, torn, buf, exiting, ignored>>
    BY <1>2 DEF END, Return, markvars, bufvars, errvars
  <2> QED BY <2>1, ReturnKeeps DEF Undisturbed
<1>3. CASE Returns
  <2>1. /\ rtpc = "script" /\ rtpc' = IF cb = "Process" THEN "drop" ELSE "end"
        /\ UNCHANGED <<cb, marks, torn, buf, mine, answer, exiting, ignored>>
    BY <1>3 DEF Returns, AfterScript, markvars, bufvars, errvars
  <2>2. MarkInv' /\ BufInv'
    BY <2>1 DEF CallbackInv, MarkInv, BufInv, InProcess, Between, Undisturbed
  <2>3. StartInv' /\ GetBufferIfMarked'
    BY <2>1 DEF StartInv, GetBufferIfMarked, GetBufferInProcess
  <2> QED BY <2>2, <2>3 DEF CallbackInv
<1>4. CASE buffer_drop_all
  <2>1. /\ rtpc = "drop" /\ rtpc' = "unmark" /\ buf' = {}
        /\ UNCHANGED <<cb, marks, torn, mine, answer, exiting, ignored>>
    BY <1>4 DEF buffer_drop_all, Goto, markvars, errvars
  <2>2. MarkInv' /\ BufInv'
    BY <2>1 DEF CallbackInv, MarkInv, BufInv, InProcess, Between, Undisturbed
  <2>3. StartInv' /\ GetBufferIfMarked'
    BY <2>1 DEF CallbackInv, StartInv, GetBufferIfMarked, GetBufferInProcess
  <2> QED BY <2>2, <2>3 DEF CallbackInv
<1> QED BY <1>1, <1>2, <1>3, <1>4

LEMMA PortKeeps ==
  ASSUME TypeOK, CallbackInv, NEW p \in Ports, PortStep(p)
  PROVE  CallbackInv'
<1>1. CASE GetBuffer(p) \/ luajack_get_buffer(p)
  <2>1. rtpc = "script" /\ UNCHANGED <<rtpc, cb, marks, torn>> /\ Retrieve(p, p \in valid)
    BY <1>1 DEF GetBuffer, luajack_get_buffer, InScript, pud_check, get_pud, markvars, rtvars
  <2>2. Undisturbed' => Undisturbed
    BY <1>1, <2>1, ErrorExits DEF GetBuffer, luajack_get_buffer, TypeOK, Undisturbed, errvars
  <2>3. ~Between /\ ~Between' /\ (InProcess <=> cb = "Process") /\ (InProcess' <=> cb = "Process")
    BY <2>1 DEF Between, InProcess
  <2>4. MarkInv'
    BY <2>1, <2>2, <2>3 DEF CallbackInv, MarkInv
  <2>5. answer' = "ok" /\ Undisturbed' => InProcess /\ buf' = buf \cup {p} /\ mine' = mine \cup {p}
    BY <2>1, <2>2, <2>3, RetrieveFacts DEF CallbackInv, MarkInv
  <2>6. BufInv'
    BY <2>1, <2>2, <2>3, <2>5, RetrieveFacts DEF CallbackInv, BufInv
  <2>7. answer' = "not in process callback" /\ Undisturbed' => ~InProcess
    BY <2>1, <2>2, RetrieveFacts DEF CallbackInv, MarkInv
  <2>8. StartInv' /\ GetBufferIfMarked'
    BY <2>1, <2>3, <2>5, <2>7 DEF StartInv, GetBufferIfMarked, GetBufferInProcess
  <2> QED BY <2>4, <2>6, <2>8 DEF CallbackInv
<1>2. CASE PortRegister(p) \/ PortUnregister(p)
  BY <1>2, MarksKept DEF PortRegister, PortUnregister, rtvars
<1> QED BY <1>1, <1>2 DEF PortStep

LEMMA OthersKeep ==
  ASSUME TypeOK, CallbackInv,
         MainStep \/ MarkProfile \/ CloseStep \/ OtherStep \/ \E x \in Threads : Chunk(x)
  PROVE  CallbackInv'
<1>1. CASE MainStep
  BY <1>1, MarksKept DEF MainStep, ProcessLoad_, ChunkEnds, Activate, Deactivate, Profile, rtvars
<1>2. ASSUME NEW x \in Threads, Chunk(x) PROVE CallbackInv'
  BY <1>2, MarksKept DEF Chunk, Register, CRegister, ReleaseTimebase, rtvars
<1>3. CASE MarkProfile
  <2>1. "main" \in Threads /\ "profile" \in Bits \ {"process"}
    BY DEF Threads, Bits
  <2>2. Undisturbed' => Undisturbed /\ ("process" \in marks' <=> "process" \in marks)
    BY <1>3, <2>1, OtherMark DEF MarkProfile
  <2> QED BY <1>3, <2>2, CallbackKept DEF MarkProfile, errvars, rtvars
<1>4. CASE CancelCudValid
  <2>1. "main" \in Threads /\ "valid" \in Bits \ {"process"}
    BY DEF Threads, Bits
  <2>2. Undisturbed' => Undisturbed /\ ("process" \in marks' <=> "process" \in marks)
    BY <1>4, <2>1, OtherMark DEF CancelCudValid
  <2> QED BY <1>4, <2>2, CallbackKept DEF CancelCudValid, errvars, rtvars
<1>5. CASE Close \/ CloseDeactivate \/ port_close_all \/ JackClose \/ process_unregister
  BY <1>5, MarksKept DEF Close, CloseDeactivate, port_close_all, JackClose, process_unregister,
     rtvars
<1>6. CASE TimebaseLost
  BY <1>6, MarksKept DEF TimebaseLost, rtvars
<1>7. CASE OtherError
  BY <1>7, CallbackKept DEF OtherError, Undisturbed, markvars, rtvars
<1> QED BY <1>1, <1>2, <1>3, <1>4, <1>5, <1>6, <1>7 DEF CloseStep, OtherStep

----------------------------------------------------------------------------
(* The stack of the process state.                                         *)

Still == Undisturbed /\ ~exiting /\ ~synced

LEMMA StackKept ==
  ASSUME StackInv, UNCHANGED <<stack, pstate, mpc>>, Still' => Still
  PROVE  StackInv'
  BY DEF StackInv, StackDoesNotGrow, Still

(* Whoever leaves something in a callback is the last one.                 *)
LEMMA CallbackStack ==
  ASSUME TypeOK, StackInv, Callback
  PROVE  StackInv'
<1>1. UNCHANGED <<pstate, mpc>>
  BY DEF Callback, BEGIN, MarkProcessCallback, Returns, Fails, buffer_drop_all,
     CancelProcessCallback, END, regvars
<1>2. /\ stack \in 0..StackRoom /\ StackRoom \in Nat /\ MainType
      /\ UNCHANGED markvars /\ UNCHANGED errvars => (Undisturbed' <=> Undisturbed)
  BY ProcessAssumption DEF TypeOK, RtType, Undisturbed, markvars, errvars
<1>3. Leave(0) => UNCHANGED stack
  BY <1>2 DEF Leave
<1>4. CASE luajack_error /\ UNCHANGED markvars
  <2>1. Undisturbed' => exiting'
    BY <1>2, <1>4, ErrorExits DEF markvars
  <2> QED BY <1>1, <2>1 DEF StackInv, StackDoesNotGrow
<1>5. CASE UNCHANGED stack /\ (synced' = synced) /\ UNCHANGED errvars /\ (torn => torn')
  <2>1. Still' => Still
    BY <1>5 DEF Still, Undisturbed, errvars
  <2> QED BY <1>1, <1>5, <2>1, StackKept
<1>6. CASE MarkProcessCallback \/ CancelProcessCallback
  <2>1. UNCHANGED <<stack, synced>> /\ UNCHANGED errvars
    BY <1>6 DEF MarkProcessCallback, CancelProcessCallback, Goto, rtvars
  <2>2. torn => torn'
    BY <1>6 DEF MarkProcessCallback, CancelProcessCallback, Load, MarkSet, MarkReset, Store
  <2> QED BY <1>5, <2>1, <2>2
<1>7. CASE BEGIN
  <2>1. UNCHANGED markvars /\ (torn => torn')
    BY <1>7 DEF BEGIN, markvars
  <2>2. luajack_error \/ (UNCHANGED <<stack, synced>> /\ UNCHANGED errvars)
    BY <1>3, <1>7 DEF BEGIN, Return, Goto
  <2> QED BY <1>4, <1>5, <2>1, <2>2
<1>8. CASE Returns
  <2>1. Results = 0 \/ synced'
    <3>1. Results = 0 \/ Results > 0
      BY DEF Results
    <3>2. synced' = (synced \/ Results > 0) /\ synced \in BOOLEAN
      BY <1>8 DEF Returns, TypeOK, RtType
    <3> QED BY <3>1, <3>2
  <2>2. CASE Results = 0
    <3>1. UNCHANGED stack /\ UNCHANGED errvars /\ (torn => torn')
      BY <1>3, <1>8, <2>2 DEF Returns, markvars
    <3>2. synced' = synced
      BY <1>8, <2>2 DEF Returns, TypeOK, RtType
    <3> QED BY <1>5, <3>1, <3>2
  <2>3. CASE synced'
    BY <1>1, <2>3 DEF StackInv, StackDoesNotGrow
  <2> QED BY <2>1, <2>2, <2>3
<1>9. CASE Fails
  BY <1>4, <1>9 DEF Fails
<1>10. CASE buffer_drop_all \/ END
  BY <1>3, <1>5, <1>10 DEF buffer_drop_all, END, Return, Goto, markvars
<1> QED BY <1>6, <1>7, <1>8, <1>9, <1>10 DEF Callback

LEMMA MainStack ==
  ASSUME TypeOK, StackInv, MainStep
  PROVE  StackInv'
<1>1. UNCHANGED synced /\ (Undisturbed' <=> Undisturbed) /\ UNCHANGED exiting
  BY DEF MainStep, ProcessLoad_, ChunkEnds, Activate, Deactivate, Profile, Undisturbed, markvars,
     errvars, rtvars
<1>2. CASE ProcessLoad_
  <2>1. /\ pstate = "none" /\ mpc = "script" /\ UNCHANGED stack
        /\ mpc' = "script" \/ (mpc' = "chunk" /\ pstate' = "open")
    BY <1>2 DEF ProcessLoad_, MainScript, luajack_newstate_Fails, luajack_loadchunk_Fails,
       luajack_xmove_Fails, rtvars
  <2> QED BY <1>1, <2>1 DEF StackInv, StackDoesNotGrow
<1>3. CASE ChunkEnds
  <2>1. /\ mpc = "chunk" /\ mpc' = "script" /\ UNCHANGED pstate /\ (Leave(0) \/ Leave(1))
        /\ stack \in 0..StackRoom /\ StackRoom \in Nat
    BY <1>3, ProcessAssumption DEF ChunkEnds, regvars, TypeOK, RtType
  <2>2. stack = 0 => stack' \in 0..1
    BY <2>1 DEF Leave
  <2>3. Still' => stack = 0
    BY <1>1, <2>1 DEF StackInv, Still
  <2> QED BY <2>1, <2>2, <2>3 DEF StackInv, StackDoesNotGrow, Still
<1>4. CASE Activate \/ Deactivate \/ \E what \in {"start", "restart", "stop"} : Profile(what)
  <2>1. UNCHANGED <<stack, pstate>> /\ (mpc' = mpc \/ mpc' # "chunk")
    BY <1>4 DEF Activate, Deactivate, Profile, rtvars, regvars
  <2> QED BY <1>1, <2>1 DEF StackInv, StackDoesNotGrow
<1> QED BY <1>2, <1>3, <1>4 DEF MainStep

LEMMA OthersStack ==
  ASSUME TypeOK, StackInv,
         \/ MarkProfile \/ CloseStep \/ OtherStep
         \/ \E s \in Slots : Call(s)
         \/ \E p \in Ports : PortStep(p)
         \/ \E x \in Threads : Chunk(x)
  PROVE  StackInv'
<1>1. /\ UNCHANGED <<stack, synced, pstate>> /\ (mpc' = mpc \/ mpc' # "chunk")
      /\ torn => torn'
  <2>1. CASE MarkProfile \/ CancelCudValid
    <3>1. /\ UNCHANGED <<stack, synced, pstate>> /\ (mpc' = mpc \/ mpc' # "chunk")
      BY <2>1 DEF MarkProfile, CancelCudValid, rtvars, regvars
    <3>2. UNCHANGED torn \/ torn' = (torn \/ read["main"] # marks)
      BY <2>1 DEF MarkProfile, CancelCudValid, Load, MarkSet, MarkReset, Store
    <3>3. torn => torn'
      BY <3>2
    <3> QED BY <3>1, <3>3
  <2>5. CASE Close \/ CloseDeactivate \/ port_close_all \/ JackClose \/ process_unregister
    <3>1. /\ UNCHANGED <<stack, synced, pstate, torn>>
          /\ mpc' \in {"deactivate", "ports", "jack close", "unregister", "invalidate"}
      BY <2>5 DEF Close, CloseDeactivate, port_close_all, JackClose, process_unregister, rtvars,
         regvars, markvars
    <3> QED BY <3>1
  <2>6. CASE OtherStep
    BY <2>6 DEF OtherStep, TimebaseLost, OtherError, rtvars, regvars, markvars
  <2>2. CASE \E p \in Ports : PortStep(p)
    BY <2>2 DEF PortStep, GetBuffer, luajack_get_buffer, PortRegister, PortUnregister, rtvars,
       regvars, markvars
  <2>3. CASE \E s \in Slots : Call(s)
    BY <2>3 DEF Call, rtvars, regvars, markvars
  <2>4. CASE \E x \in Threads : Chunk(x)
    BY <2>4 DEF Chunk, Register, CRegister, ReleaseTimebase, rtvars, regvars, markvars
  <2> QED BY <2>1, <2>2, <2>3, <2>4, <2>5, <2>6 DEF CloseStep
<1>2. (exiting => exiting') /\ (ignored => ignored')
  <2>1. UNCHANGED errvars \/ luajack_error \/ (~exiting /\ UNCHANGED ignored)
    BY DEF OtherError, MarkProfile, CloseStep, OtherStep, Close, CloseDeactivate, port_close_all,
       JackClose, process_unregister, CancelCudValid, TimebaseLost, Call, PortStep, GetBuffer,
       luajack_get_buffer, PortRegister, PortUnregister, Chunk, Register, CRegister, ReleaseTimebase
  <2>2. luajack_error => (exiting => exiting') /\ (ignored => ignored')
    <3>1. MainType
      BY DEF TypeOK
    <3> QED BY <3>1, ErrorExits DEF luajack_error, MainType
  <2> QED BY <2>1, <2>2 DEF errvars
<1>3. Still' => Still
  BY <1>1, <1>2 DEF Still, Undisturbed
<1> QED BY <1>1, <1>3 DEF StackInv, StackDoesNotGrow, Still

----------------------------------------------------------------------------
LEMMA InitInv == ASSUME Init PROVE IInv
<1>1. CallbackInv
  BY DEF Init, CallbackInv, StartInv, MarkInv, BufInv, GetBufferIfMarked, GetBufferInProcess,
     InProcess, Between
<1>2. StackInv
  BY DEF Init, StackInv, StackDoesNotGrow
<1> QED BY <1>1, <1>2, InitType DEF IInv

LEMMA NextInv == ASSUME IInv, [Next]_vars PROVE IInv'
<1>1. TypeOK /\ CallbackInv /\ StackInv
  BY DEF IInv
<1>2. CASE Next
  <2>1. TypeOK'
    BY <1>1, <1>2, Steps, TypeCall, TypeCallback, TypePort, TypeChunk, TypeMain, TypeClose, TypeOther
  <2>2. ASSUME Callback PROVE CallbackInv'
    <3>1. CASE BEGIN
      BY <1>1, <3>1, BeginKeeps
    <3>2. CASE MarkProcessCallback \/ CancelProcessCallback
      BY <1>1, <3>2, MarkKeeps
    <3>3. CASE Returns \/ Fails \/ buffer_drop_all \/ END
      BY <1>1, <3>3, ScriptKeeps
    <3> QED BY <2>2, <3>1, <3>2, <3>3 DEF Callback
  <2>3. ASSUME NEW s \in Slots, Call(s) PROVE CallbackInv'
    BY <1>1, <2>3, CallKeeps
  <2>4. ASSUME NEW p \in Ports, PortStep(p) PROVE CallbackInv'
    BY <1>1, <2>4, PortKeeps
  <2>5. ASSUME MainStep \/ MarkProfile \/ CloseStep \/ OtherStep \/ \E x \in Threads : Chunk(x)
        PROVE  CallbackInv'
    BY <1>1, <2>5, OthersKeep
  <2>6. StackInv'
    BY <1>1, <1>2, Steps, CallbackStack, MainStack, OthersStack
  <2> QED BY <1>2, <2>1, <2>2, <2>3, <2>4, <2>5, <2>6, Steps DEF IInv
<1>3. CASE UNCHANGED vars
  <2>1. UNCHANGED markvars /\ UNCHANGED regvars /\ UNCHANGED active /\ UNCHANGED rtvars
        /\ UNCHANGED portvars /\ UNCHANGED bufvars /\ UNCHANGED mpc /\ UNCHANGED errvars
    BY <1>3 DEF vars
  <2>2. TypeOK'
    BY <1>1, <2>1, MarkKept, RegKept, RtKept, PortKept, MainKept DEF TypeOK
  <2>3. CallbackInv'
    BY <1>1, <2>1, MarksKept DEF rtvars
  <2>4. StackInv'
    BY <1>1, <2>1, StackKept DEF rtvars, regvars, markvars, errvars, Still, Undisturbed
  <2> QED BY <2>2, <2>3, <2>4 DEF IInv
<1> QED BY <1>2, <1>3

(* The invariant of the callbacks, whatever the script does.               *)
THEOREM Inductive == Spec => []IInv
<1>1. IInv /\ [Next]_vars => IInv'
  BY NextInv
<1>2. Init => IInv
  BY InitInv
<1> QED BY <1>1, <1>2, PTL DEF Spec

(* The variables of Process keep their types; an entry of a port is valid  *)
(* only as long as JACK knows the port.                                    *)
THEOREM TypesHold == Spec => []TypeOK
<1>1. IInv => TypeOK
  BY DEF IInv
<1> QED BY <1>1, Inductive, PTL

(* get_buffer() is granted in the process callback and refused elsewhere,  *)
(* as long as no change of the marks is lost and no error ignored.         *)
THEOREM GrantedInProcess == Spec => []GetBufferIfMarked
<1>1. IInv => GetBufferIfMarked
  BY DEF IInv, CallbackInv
<1> QED BY <1>1, Inductive, PTL

(* A callback has no buffer of an earlier cycle, under the same condition. *)
THEOREM BuffersOfThisCycle == Spec => []BufferOfThisCycle
<1>1. ASSUME IInv PROVE BufferOfThisCycle
  <2>1. BufInv
    BY <1>1 DEF IInv, CallbackInv
  <2> QED BY <2>1 DEF BufInv, InProcess, Between, BufferOfThisCycle
<1> QED BY <1>1, Inductive, PTL

(* The stack of the process state does not grow, as long as the callbacks  *)
(* are undisturbed and no sync callback is in Lua.                         *)
THEOREM StackStaysLow == Spec => []StackDoesNotGrow
<1>1. IInv => StackDoesNotGrow
  BY DEF IInv, StackInv
<1> QED BY <1>1, Inductive, PTL

----------------------------------------------------------------------------
(* A disciplined script: registration and closing while nothing runs.      *)

LEMMA QuietKept ==
  ASSUME QuietInv, UNCHANGED <<mpc, active, jcb>> PROVE QuietInv'
  BY DEF QuietInv

LEMMA RegInvKept ==
  ASSUME RegInv, UNCHANGED regvars, mpc' = "chunk" => mpc = "chunk",
         api' = "lua" => api = "lua" /\ (rtpc' = "begin" => rtpc = "begin" /\ UNCHANGED cb)
  PROVE  RegInv'
  BY DEF RegInv, regvars

LEMMA LiveKept ==
  ASSUME BufferOfLivePort, UNCHANGED <<mine, jports>>, rtpc' = "script" => rtpc = "script"
  PROVE  BufferOfLivePort'
  BY DEF BufferOfLivePort

LEMMA RunsActive == ASSUME TypeOK, ~active PROVE rtpc = "idle"
  BY DEF TypeOK, RtType

LEMMA CallQuiet ==
  ASSUME TypeOK, DInv, NEW s \in Slots, Call(s)
  PROVE  DInv'
<1>1. /\ rtpc' = "begin" /\ cb' = s /\ api' = jcb[s] /\ jcb[s] # "none"
      /\ UNCHANGED <<pstate, ref, jcb, active, mpc>>
  BY DEF Call, regvars
<1>2. QuietInv'
  BY <1>1, QuietKept DEF DInv
<1>3. RegInv'
  BY <1>1 DEF DInv, RegInv
<1>4. BufferOfLivePort'
  BY <1>1 DEF BufferOfLivePort
<1> QED BY <1>2, <1>3, <1>4 DEF DInv

LEMMA CallbackQuiet ==
  ASSUME StartInv, DInv, Callback
  PROVE  DInv'
<1>1. UNCHANGED <<regvars, active, portvars, mpc, mine>>
  BY DEF Callback, BEGIN, MarkProcessCallback, Returns, Fails, buffer_drop_all,
     CancelProcessCallback, END, bufvars
<1>2. \/ api' = "none" /\ rtpc' = "idle"
      \/ UNCHANGED <<cb, api>> /\ rtpc' # "begin" /\ rtpc \in {"begin", "mark"}
      \/ UNCHANGED <<cb, api>> /\ rtpc' \notin {"begin", "script"}
      \/ UNCHANGED rtvars
  BY DEF Callback, BEGIN, MarkProcessCallback, Returns, Fails, buffer_drop_all,
     CancelProcessCallback, END, Return, Goto, FirstStep, AfterScript
<1>3. QuietInv'
  BY <1>1, QuietKept DEF DInv, regvars
<1>4. RegInv'
  BY <1>1, <1>2, RegInvKept DEF DInv, rtvars
<1>5. BufferOfLivePort'
  BY <1>1, <1>2 DEF DInv, BufferOfLivePort, StartInv, portvars, rtvars
<1> QED BY <1>3, <1>4, <1>5 DEF DInv

LEMMA PortQuiet ==
  ASSUME Disciplined, TypeOK, DInv, NEW p \in Ports, PortStep(p)
  PROVE  DInv'
<1>1. UNCHANGED <<regvars, active, rtvars, mpc>>
  BY DEF PortStep, GetBuffer, luajack_get_buffer, PortRegister, PortUnregister
<1>2. QuietInv' /\ RegInv'
  BY <1>1, QuietKept, RegInvKept DEF DInv, regvars, rtvars
<1>3. CASE GetBuffer(p) \/ luajack_get_buffer(p)
  <2>1. Retrieve(p, p \in valid) /\ UNCHANGED <<rtpc, jports>>
    BY <1>3 DEF GetBuffer, luajack_get_buffer, pud_check, get_pud, rtvars, portvars
  <2>2. (mine' = mine \cup {p} /\ p \in valid) \/ mine' = mine
    BY <2>1, RetrieveFacts
  <2>3. BufferOfLivePort'
    BY <2>1, <2>2 DEF DInv, BufferOfLivePort, TypeOK, PortType
  <2> QED BY <1>2, <2>3 DEF DInv
<1>4. CASE PortRegister(p) \/ PortUnregister(p)
  <2>1. ~active
    BY <1>4 DEF PortRegister, PortUnregister, MayUnregister
  <2>2. BufferOfLivePort'
    BY <1>1, <2>1, RunsActive DEF BufferOfLivePort, rtvars
  <2> QED BY <1>2, <2>2 DEF DInv
<1> QED BY <1>3, <1>4 DEF PortStep

LEMMA ChunkQuiet ==
  ASSUME Disciplined, TypeOK, DInv, NEW x \in Threads, Chunk(x)
  PROVE  DInv'
<1>1. UNCHANGED <<pstate, active, rtpc, cb, api, jports, mine, mpc>>
  BY DEF Chunk, Register, CRegister, ReleaseTimebase, rtvars, portvars, bufvars
<1>2. BufferOfLivePort'
  BY <1>1, LiveKept DEF DInv
<1>3. mpc = "chunk" \/ rtpc = "script"
  BY DEF Chunk, Register, CRegister, ReleaseTimebase, InChunk, InScript
<1>4. mpc = "chunk" => ~active /\ rtpc = "idle" /\ pstate = "open"
  BY RunsActive DEF DInv, QuietInv, RegInv
<1>5. mpc # "unregister" /\ rtpc # "begin"
  BY <1>3, <1>4, RunsActive DEF DInv, QuietInv
<1>6. QuietInv'
  BY <1>1, <1>5 DEF DInv, QuietInv
<1>7. ASSUME NEW s \in Slots, Register(x, s) \/ CRegister(x, s) PROVE RegInv'
  <2>1. mpc = "chunk"
    BY <1>7 DEF Register, CRegister, InChunk, MayRegister, Threads
  <2>2. \/ ref' = [ref EXCEPT ![s] = TRUE] /\ jcb' = [jcb EXCEPT ![s] = "lua"]
        \/ JackRefuses(s) /\ ref' = [ref EXCEPT ![s] = FALSE] /\ UNCHANGED jcb
        \/ jcb' = [jcb EXCEPT ![s] = "c"] /\ UNCHANGED ref
    BY <1>7 DEF Register, CRegister
  <2>3. JackRefuses(s) => jcb[s] = "none"
    BY <1>4, <2>1 DEF JackRefuses
  <2> QED BY <1>1, <1>4, <1>5, <2>1, <2>2, <2>3 DEF DInv, RegInv, TypeOK, RegType
<1>8. ASSUME NEW a \in Apis, ReleaseTimebase(x, a), "Timebase" \in Slots PROVE RegInv'
  <2>1. /\ jcb' = [jcb EXCEPT !["Timebase"] = "none"]
        /\ ref' = [ref EXCEPT !["Timebase"] = FALSE] \/ UNCHANGED ref
    BY <1>8 DEF ReleaseTimebase
  <2> QED BY <1>1, <1>5, <1>8, <2>1 DEF DInv, RegInv, TypeOK, RegType
<1>9. RegInv'
  BY <1>7, <1>8 DEF Chunk
<1> QED BY <1>2, <1>6, <1>9 DEF DInv

LEMMA MainQuiet ==
  ASSUME Disciplined, TypeOK, DInv, MainStep \/ MarkProfile
  PROVE  DInv'
<1>1. UNCHANGED <<rtpc, cb, api, jports, mine, ref, jcb>>
  BY DEF MainStep, ProcessLoad_, ChunkEnds, Activate, Deactivate, Profile, MarkProfile, regvars,
     rtvars, portvars, bufvars
<1>2. BufferOfLivePort'
  BY <1>1, LiveKept DEF DInv
<1>3. CASE ProcessLoad_
  <2>1. /\ pstate = "none" /\ ~active /\ UNCHANGED active /\ mpc = "script"
        /\ mpc' = "script" \/ (mpc' = "chunk" /\ pstate' = "open")
    BY <1>3 DEF ProcessLoad_, MainScript, MayLoad, luajack_newstate_Fails, luajack_loadchunk_Fails,
       luajack_xmove_Fails
  <2>2. QuietInv'
    BY <2>1 DEF QuietInv
  <2>3. api # "lua" /\ \A s \in Slots : ~ref[s]
    BY <2>1 DEF DInv, RegInv
  <2>4. RegInv'
    BY <1>1, <2>1, <2>3 DEF DInv, RegInv
  <2> QED BY <1>2, <2>2, <2>4 DEF DInv
<1>4. CASE ChunkEnds \/ Activate \/ Deactivate \/ MarkProfile
           \/ \E what \in {"start", "restart", "stop"} : Profile(what)
  <2>1. /\ UNCHANGED pstate /\ (mpc' = mpc \/ mpc' \in {"script", "profile", "unprofile"})
        /\ active' => active \/ mpc' = "script"
    BY <1>4 DEF ChunkEnds, Activate, Deactivate, Profile, MarkProfile, MainScript, regvars
  <2>2. QuietInv'
    BY <1>1, <2>1 DEF DInv, QuietInv
  <2>3. RegInv'
    BY <1>1, <2>1, RegInvKept DEF DInv, regvars
  <2> QED BY <1>2, <2>2, <2>3 DEF DInv
<1> QED BY <1>3, <1>4 DEF MainStep

LEMMA CloseQuiet ==
  ASSUME TypeOK, DInv, CloseStep
  PROVE  DInv'
<1>1. CASE Close \/ CloseDeactivate
  <2>1. /\ UNCHANGED regvars /\ UNCHANGED rtvars /\ UNCHANGED <<jports, mine>>
        /\ mpc' = "deactivate" \/ (mpc' = "ports" /\ ~active')
    BY <1>1 DEF Close, CloseDeactivate, portvars, bufvars
  <2> QED BY <2>1, RegInvKept, LiveKept DEF DInv, QuietInv, rtvars
<1>2. CASE port_close_all \/ JackClose \/ process_unregister \/ CancelCudValid
  <2>1. /\ mpc \in {"ports", "jack close", "unregister", "invalidate"}
        /\ mpc' \in {"jack close", "unregister", "invalidate", "closed"}
        /\ UNCHANGED <<pstate, active>> /\ UNCHANGED rtvars
    BY <1>2 DEF port_close_all, JackClose, process_unregister, CancelCudValid, regvars
  <2>2. ~active /\ rtpc = "idle"
    BY <2>1, RunsActive DEF DInv, QuietInv
  <2>3. BufferOfLivePort'
    BY <2>1, <2>2 DEF BufferOfLivePort, rtvars
  <2>4. CASE port_close_all \/ CancelCudValid
    <3>1. UNCHANGED <<ref, jcb>> /\ mpc' # "unregister"
      BY <2>4 DEF port_close_all, CancelCudValid, regvars
    <3>2. RegInv'
      BY <2>1, <3>1, RegInvKept DEF DInv, regvars, rtvars
    <3> QED BY <2>1, <2>2, <2>3, <3>1, <3>2 DEF DInv, QuietInv
  <2>5. CASE JackClose
    <3>1. jcb' = [s \in Slots |-> "none"] /\ UNCHANGED ref
      BY <2>5 DEF JackClose
    <3>2. QuietInv'
      BY <2>1, <2>2, <3>1 DEF QuietInv
    <3>3. RegInv'
      BY <2>1, <2>2, <3>1 DEF DInv, RegInv, rtvars
    <3> QED BY <2>3, <3>2, <3>3 DEF DInv
  <2>6. CASE process_unregister
    <3>1. /\ mpc = "unregister" /\ mpc' = "invalidate" /\ UNCHANGED jcb
          /\ UNCHANGED ref \/ ref' = [s \in Slots |-> FALSE]
      BY <2>6 DEF process_unregister
    <3>2. \A s \in Slots : jcb[s] = "none"
      BY <3>1 DEF DInv, QuietInv
    <3>3. QuietInv'
      BY <2>1, <2>2, <3>1 DEF QuietInv
    <3>4. RegInv'
      BY <2>1, <2>2, <3>1, <3>2 DEF DInv, RegInv, rtvars
    <3> QED BY <2>3, <3>3, <3>4 DEF DInv
  <2> QED BY <1>2, <2>4, <2>5, <2>6
<1> QED BY <1>1, <1>2 DEF CloseStep

LEMMA OtherQuiet ==
  ASSUME TypeOK, DInv, OtherStep
  PROVE  DInv'
<1>1. UNCHANGED <<pstate, ref, active, jports, mine, mpc>> /\ UNCHANGED rtvars
  BY DEF OtherStep, TimebaseLost, OtherError, regvars, portvars, bufvars
<1>2. \A s \in Slots : jcb'[s] \in {jcb[s], "none"}
  BY DEF OtherStep, TimebaseLost, OtherError, regvars, TypeOK, RegType
<1>3. QuietInv'
  BY <1>1, <1>2 DEF DInv, QuietInv
<1>4. RegInv'
  BY <1>1, <1>2 DEF DInv, RegInv, rtvars
<1> QED BY <1>1, <1>3, <1>4, LiveKept DEF DInv, rtvars

LEMMA DInit == ASSUME Init PROVE DInv
  BY DEF Init, DInv, QuietInv, RegInv, BufferOfLivePort

LEMMA DNext == ASSUME Disciplined, IInv, DInv, [Next]_vars PROVE DInv'
<1>1. TypeOK /\ StartInv
  BY DEF IInv, CallbackInv
<1>2. ASSUME NEW s \in Slots, Call(s) PROVE DInv'
  BY <1>1, <1>2, CallQuiet
<1>3. CASE Callback
  BY <1>1, <1>3, CallbackQuiet
<1>4. ASSUME NEW p \in Ports, PortStep(p) PROVE DInv'
  BY <1>1, <1>4, PortQuiet
<1>5. ASSUME NEW x \in Threads, Chunk(x) PROVE DInv'
  BY <1>1, <1>5, ChunkQuiet
<1>6. CASE MainStep \/ MarkProfile
  BY <1>1, <1>6, MainQuiet
<1>7. CASE CloseStep
  BY <1>1, <1>7, CloseQuiet
<1>8. CASE OtherStep
  BY <1>1, <1>8, OtherQuiet
<1>9. CASE UNCHANGED vars
  BY <1>9, QuietKept, RegInvKept, LiveKept DEF DInv, vars, regvars, rtvars, portvars, bufvars
<1> QED BY <1>2, <1>3, <1>4, <1>5, <1>6, <1>7, <1>8, <1>9, Steps

(* The invariant of a disciplined script.                                  *)
THEOREM DInductive == ASSUME Disciplined PROVE Spec => []DInv
<1>1. IInv /\ DInv /\ [Next]_vars => DInv'
  BY DNext
<1>2. Init => DInv
  BY DInit
<1> QED BY <1>1, <1>2, Inductive, PTL DEF Spec

(* The buffers a callback has are those of ports that JACK knows, also     *)
(* while the client is being closed.                                       *)
THEOREM BuffersOfLivePorts == ASSUME Disciplined PROVE Spec => []BufferOfLivePort
<1>1. DInv => BufferOfLivePort
  BY DEF DInv
<1> QED BY <1>1, DInductive, PTL

(* JACK never calls a Lua callback whose function is not there.            *)
THEOREM FunctionIsThere == ASSUME Disciplined PROVE Spec => []NeverUnexpected
<1>1. DInv => NeverUnexpected
  BY DEF DInv, RegInv, NeverUnexpected
<1> QED BY <1>1, DInductive, PTL

(* The process state is used by one thread at a time, and only while it is *)
(* open.                                                                   *)
THEOREM OneThreadPerState == ASSUME Disciplined PROVE Spec => []StateUsedByOne
<1>1. ASSUME TypeOK, DInv PROVE StateUsedByOne
  <2>1. MainInState => rtpc = "idle"
    BY <1>1, RunsActive DEF DInv, QuietInv, MainInState
  <2> QED BY <1>1, <2>1 DEF DInv, RegInv, RtInState, MainInState, StateUsedByOne
<1>2. IInv => TypeOK
  BY DEF IInv
<1> QED BY <1>1, <1>2, Inductive, DInductive, PTL
=============================================================================
