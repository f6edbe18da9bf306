--------------------------- MODULE ClientsProofs ---------------------------
(***************************************************************************)
(* What holds of LuaJack's clients and of what they own for any number of  *)
(* clients and ringbuffers, if the script keeps the rules of a disciplined *)
(* script, whatever JACK does.                                             *)
(***************************************************************************)
EXTENDS Clients, FiniteSetTheorems, TLAPS

----------------------------------------------------------------------------
(* What a step does to the functions of clients and tasks.                 *)

LEMMA SetTask ==
  ASSUME NEW S, NEW f \in [Clients -> [Tasks -> S]], NEW c \in Clients, NEW t \in Tasks,
         NEW v \in S
  PROVE  /\ [f EXCEPT ![c][t] = v] \in [Clients -> [Tasks -> S]]
         /\ \A d \in Clients, u \in Tasks :
              [f EXCEPT ![c][t] = v][d][u] = IF d = c /\ u = t THEN v ELSE f[d][u]
  OBVIOUS

LEMMA TwoTasks == "rt" \in Tasks /\ "thread" \in Tasks /\ "rt" # "thread"
  BY DEF Tasks

LEMMA ActivatedFinite ==
  ASSUME TypeOK
  PROVE  /\ Activated \subseteq Clients /\ IsFiniteSet(Activated)
         /\ Cardinality(Activated) \in Nat
         /\ Cardinality(Activated) = 0 <=> Activated = {}
<1>1. Activated \subseteq Clients
  BY DEF TypeOK, Activated
<1>2. IsFiniteSet(Activated)
  BY <1>1, ClientsAssumption, FS_Subset
<1> QED BY <1>1, <1>2, FS_CardinalityType, FS_EmptySet

----------------------------------------------------------------------------
(* Each part of the invariant depends on a few variables only.             *)

LEMMA CountKept ==
  ASSUME CountIsActive, UNCHANGED jackvars
  PROVE  CountIsActive'
  BY DEF CountIsActive, Activated, jackvars

LEMMA CallbackKept ==
  ASSUME CallbackInv, UNCHANGED <<jactive, zombies, cud, pc>>
  PROVE  CallbackInv'
  BY DEF CallbackInv

LEMMA ThreadKept ==
  ASSUME ThreadInv, UNCHANGED <<cud, pc>>, mpc # "insert" \/ mpc' = "insert"
  PROVE  ThreadInv'
  BY DEF ThreadInv

LEMMA TaskKept == ASSUME TaskInv, UNCHANGED taskvars, UNCHANGED entryvars PROVE TaskInv'
  BY DEF TaskInv, taskvars, entryvars, Valid

LEMMA CloseKept ==
  ASSUME CloseInv, ~ Closing, mpc' \notin {"threads", "rings", "jackclose", "cancel"},
         UNCHANGED cur
  PROVE  CloseInv'
  BY DEF CloseInv, Closing

LEMMA RefusedKept ==
  ASSUME RefusedOnlyIfActive, UNCHANGED <<jactive, zombies>>, refused' => refused
  PROVE  RefusedOnlyIfActive'
  BY DEF RefusedOnlyIfActive, Activated

----------------------------------------------------------------------------
(* Callbacks and threads. Only pc, tree and using change, for one task.    *)

LEMMA TaskMoves ==
  ASSUME IInv, Disciplined, NEW c \in Clients, NEW t \in Tasks,
         NEW v \in {"off", "run", "search", "use"}, pc' = [pc EXCEPT ![c][t] = v],
         NEW k \in {"none", "client", "ring", "thread"}, tree' = [tree EXCEPT ![c][t] = k],
         NEW r \in Rings \cup Clients \cup {Nothing}, using' = [using EXCEPT ![c][t] = r],
         v # "off" => pc[c][t] # "off" \/ (t = "rt" /\ c \in jactive),
         k # "none" => v = "search",
         r # Nothing => v = "use" /\ OwnerOf(r) = c /\ Valid(r),
         UNCHANGED <<entryvars, jackvars, mainvars, refused>>
  PROVE  IInv'
<1>1. /\ TypeOK /\ CountIsActive /\ CallbackInv /\ ThreadInv /\ TaskInv /\ CreateInv
      /\ CloseInv /\ ExitInv /\ RefusedOnlyIfActive
  BY DEF IInv
<1>2. UNCHANGED <<cud, rud, count, jactive, zombies, mpc, cur, inserting, exiting, refused>>
  BY DEF entryvars, jackvars, mainvars
<1>3. /\ pc \in [Clients -> [Tasks -> {"off", "new", "run", "search", "use"}]]
      /\ tree \in [Clients -> [Tasks -> {"none", "client", "ring", "thread"}]]
      /\ using \in [Clients -> [Tasks -> Rings \cup Clients \cup {Nothing}]]
  BY <1>1 DEF TypeOK
<1>4. /\ pc' \in [Clients -> [Tasks -> {"off", "new", "run", "search", "use"}]]
      /\ tree' \in [Clients -> [Tasks -> {"none", "client", "ring", "thread"}]]
      /\ using' \in [Clients -> [Tasks -> Rings \cup Clients \cup {Nothing}]]
  BY <1>3, SetTask
<1>5. \A d \in Clients, u \in Tasks :
        /\ pc'[d][u] = IF d = c /\ u = t THEN v ELSE pc[d][u]
        /\ tree'[d][u] = IF d = c /\ u = t THEN k ELSE tree[d][u]
        /\ using'[d][u] = IF d = c /\ u = t THEN r ELSE using[d][u]
  BY <1>3, SetTask
<1>6. TypeOK'
  BY <1>1, <1>2, <1>4 DEF TypeOK
<1>7. CountIsActive' /\ RefusedOnlyIfActive' /\ ExitInv'
  BY <1>1, <1>2 DEF CountIsActive, RefusedOnlyIfActive, ExitInv, Activated
<1>8. CallbackInv' /\ ThreadInv'
  BY <1>1, <1>2, <1>5, TwoTasks DEF CallbackInv, ThreadInv
<1>9. TaskInv'
  BY <1>1, <1>2, <1>5 DEF TaskInv, Valid
<1>10. CreateInv'
  BY <1>1, <1>2, <1>5, TwoTasks DEF CreateInv, Activated
<1>11. CloseInv'
  BY <1>1, <1>2, <1>5, TwoTasks DEF CloseInv, Closing
<1> QED BY <1>6, <1>7, <1>8, <1>9, <1>10, <1>11 DEF IInv

LEMMA SetSame ==
  ASSUME NEW S, NEW f \in [Clients -> [Tasks -> S]], NEW c \in Clients, NEW t \in Tasks
  PROVE  f = [f EXCEPT ![c][t] = f[c][t]]
  OBVIOUS

(* A task that neither searches nor uses a ringbuffer has found none. *)
LEMMA TaskIdle ==
  ASSUME IInv, NEW c \in Clients, NEW t \in Tasks
  PROVE  /\ pc[c][t] # "search" => tree[c][t] = "none"
         /\ pc[c][t] # "use" => using[c][t] = Nothing
         /\ tree = [tree EXCEPT ![c][t] = tree[c][t]]
         /\ using = [using EXCEPT ![c][t] = using[c][t]]
<1>1. TypeOK /\ TaskInv
  BY DEF IInv
<1> QED BY <1>1, SetSame DEF TypeOK, TaskInv

LEMMA CycleInv ==
  ASSUME IInv, Disciplined, NEW c \in Clients, Cycle(c) \/ EndCycle(c)
  PROVE  IInv'
<1>1. /\ \/ pc' = [pc EXCEPT ![c]["rt"] = "run"] /\ c \in jactive
         \/ pc' = [pc EXCEPT ![c]["rt"] = "off"]
      /\ pc[c]["rt"] \in {"off", "run"}
      /\ UNCHANGED <<entryvars, jackvars, tree, using, mainvars, refused>>
  BY DEF Cycle, EndCycle
<1>2. /\ tree' = [tree EXCEPT ![c]["rt"] = "none"]
      /\ using' = [using EXCEPT ![c]["rt"] = Nothing]
      /\ "none" \in {"none", "client", "ring", "thread"}
      /\ Nothing \in Rings \cup Clients \cup {Nothing}
      /\ UNCHANGED <<entryvars, jackvars, mainvars, refused>>
  BY <1>1, TaskIdle, TwoTasks
<1>3. CASE pc' = [pc EXCEPT ![c]["rt"] = "run"] /\ c \in jactive
  <2>1. "run" \in {"off", "run", "search", "use"} /\ "rt" \in Tasks
    BY TwoTasks
  <2> QED BY <2>1, <1>2, <1>3, TaskMoves
<1>4. CASE pc' = [pc EXCEPT ![c]["rt"] = "off"]
  <2>1. "off" \in {"off", "run", "search", "use"} /\ "rt" \in Tasks
    BY TwoTasks
  <2> QED BY <2>1, <1>2, <1>4, TaskMoves
<1> QED BY <1>1, <1>3, <1>4

LEMMA SearchInv ==
  ASSUME IInv, Disciplined, NEW c \in Clients, NEW t \in Tasks, NEW k \in {"client", "ring", "thread"},
         Search(c, t, k)
  PROVE  IInv'
<1>1. /\ pc[c][t] = "run" /\ pc' = [pc EXCEPT ![c][t] = "search"]
      /\ tree' = [tree EXCEPT ![c][t] = k]
      /\ UNCHANGED <<entryvars, jackvars, using, mainvars, refused>>
  BY DEF Search
<1>2. using' = [using EXCEPT ![c][t] = Nothing]
  BY <1>1, TaskIdle
<1> QED BY <1>1, <1>2, TaskMoves

LEMMA FoundInv ==
  ASSUME IInv, Disciplined, NEW c \in Clients, NEW t \in Tasks, Found(c, t)
  PROVE  IInv'
<1>1. /\ pc[c][t] = "search" /\ tree' = [tree EXCEPT ![c][t] = "none"]
      /\ UNCHANGED <<entryvars, jackvars, mainvars, refused>>
  BY DEF Found
<1>2. ASSUME NEW x \in Rings \cup Clients, Use(c, t, x)
      PROVE  IInv'
  BY <1>1, <1>2, TaskMoves DEF Use, MayUse
<1>3. ASSUME pc' = [pc EXCEPT ![c][t] = "run"], UNCHANGED using
      PROVE  IInv'
  <2>1. using' = [using EXCEPT ![c][t] = Nothing]
    BY <1>1, <1>3, TaskIdle
  <2> QED BY <1>1, <1>3, <2>1, TaskMoves
<1> QED BY <1>2, <1>3 DEF Found, Objects

LEMMA CallInv ==
  ASSUME IInv, Disciplined, NEW c \in Clients, NEW t \in Tasks,
         RingCall(c, t) \/ ClientCall(c, t)
  PROVE  IInv'
<1>1. /\ pc[c][t] = "run" /\ \E x \in Rings \cup Clients : Use(c, t, x)
      /\ UNCHANGED <<entryvars, jackvars, tree, mainvars, refused>>
  BY DEF RingCall, ClientCall
<1>2. tree' = [tree EXCEPT ![c][t] = "none"]
  BY <1>1, TaskIdle
<1> QED BY <1>1, <1>2, TaskMoves DEF Use, MayUse

LEMMA DoneInv ==
  ASSUME IInv, Disciplined, NEW c \in Clients, NEW t \in Tasks, Done(c, t)
  PROVE  IInv'
<1>1. /\ pc[c][t] = "use" /\ pc' = [pc EXCEPT ![c][t] = "run"]
      /\ using' = [using EXCEPT ![c][t] = Nothing]
      /\ UNCHANGED <<entryvars, jackvars, tree, mainvars, refused>>
  BY DEF Done
<1>2. tree' = [tree EXCEPT ![c][t] = "none"]
  BY <1>1, TaskIdle
<1> QED BY <1>1, <1>2, TaskMoves

LEMMA ThrownOutInv ==
  ASSUME IInv, Disciplined, NEW c \in Clients, ThrownOut(c)
  PROVE  IInv'
<1>1. /\ TypeOK /\ CountIsActive /\ CallbackInv /\ ThreadInv /\ TaskInv /\ CreateInv
      /\ CloseInv /\ ExitInv /\ RefusedOnlyIfActive
  BY DEF IInv
<1>2. /\ c \in jactive /\ pc[c]["rt"] = "off"
      /\ jactive' = jactive \ {c} /\ zombies' = zombies \cup {c}
      /\ UNCHANGED <<cud, rud, count, pc, tree, using, mpc, cur, inserting, exiting, refused>>
  BY DEF ThrownOut, entryvars, taskvars, mainvars
<1>3. Activated' = Activated
  BY <1>2 DEF Activated
<1>4. TypeOK'
  BY <1>1, <1>2 DEF TypeOK
<1>5. CountIsActive' /\ RefusedOnlyIfActive' /\ ExitInv' /\ CreateInv'
  BY <1>1, <1>2, <1>3 DEF CountIsActive, RefusedOnlyIfActive, ExitInv, CreateInv
<1>6. CallbackInv'
  BY <1>1, <1>2 DEF CallbackInv
<1>7. ThreadInv' /\ TaskInv' /\ CloseInv'
  BY <1>1, <1>2 DEF ThreadInv, TaskInv, Valid, CloseInv, Closing
<1> QED BY <1>4, <1>5, <1>6, <1>7 DEF IInv

----------------------------------------------------------------------------
(* The main thread: creation.                                              *)

(* With the counter at zero no client is active and nothing runs. *)
LEMMA Quiet ==
  ASSUME IInv, count = 0
  PROVE  Activated = {} /\ jactive = {} /\ \A c \in Clients : pc[c]["rt"] = "off"
<1>1. TypeOK /\ CountIsActive /\ CallbackInv
  BY DEF IInv
<1>2. Activated = {}
  BY <1>1, ActivatedFinite DEF CountIsActive
<1> QED BY <1>1, <1>2 DEF Activated, CallbackInv

LEMMA CreateEntryInv ==
  ASSUME IInv, Disciplined, NEW k \in {"client", "ring", "thread"}, Creating(k),
         \/ UNCHANGED pc
         \/ \E c \in Clients : cud[c] = "valid" /\ pc' = [pc EXCEPT ![c]["thread"] = "new"]
                               /\ pc[c]["thread"] = "off",
         cud' \in [Clients -> {"none", "valid", "closed"}],
         rud' \in [Rings -> {"none", "valid", "closed"}],
         \A c \in Clients : cud[c] = "valid" => cud'[c] = "valid",
         \A r \in Rings : rud[r] = "valid" => rud'[r] = "valid"
  PROVE  IInv'
<1>1. /\ TypeOK /\ CountIsActive /\ CallbackInv /\ ThreadInv /\ TaskInv /\ CreateInv
      /\ CloseInv /\ ExitInv /\ RefusedOnlyIfActive
  BY DEF IInv
<1>2. /\ mpc = "script" /\ count = 0 /\ mpc' = "insert" /\ inserting' = k /\ refused' = FALSE
      /\ UNCHANGED <<count, jactive, zombies, tree, using, cur, exiting>>
  BY DEF Creating, CheckCreate, jackvars
<1>3. Activated = {} /\ jactive = {}
  BY <1>2, Quiet
<1>4. pc \in [Clients -> [Tasks -> {"off", "new", "run", "search", "use"}]]
  BY <1>1 DEF TypeOK
<1>5. /\ pc' \in [Clients -> [Tasks -> {"off", "new", "run", "search", "use"}]]
       /\ \A c \in Clients, t \in Tasks :
            \/ pc'[c][t] = pc[c][t]
            \/ /\ t = "thread" /\ cud[c] = "valid"
               /\ pc[c][t] = "off" /\ pc'[c][t] = "new"
  <2>1. CASE UNCHANGED pc
    BY <1>4, <2>1
  <2>2. ASSUME NEW c \in Clients, cud[c] = "valid", pc[c]["thread"] = "off",
               pc' = [pc EXCEPT ![c]["thread"] = "new"]
        PROVE  /\ pc' \in [Clients -> [Tasks -> {"off", "new", "run", "search", "use"}]]
               /\ \A d \in Clients, t \in Tasks :
                    \/ pc'[d][t] = pc[d][t]
                    \/ /\ t = "thread" /\ cud[d] = "valid"
                       /\ pc[d][t] = "off" /\ pc'[d][t] = "new"
    BY <1>4, <2>2, SetTask, TwoTasks
  <2> QED BY <2>1, <2>2
<1>6. TypeOK'
  BY <1>1, <1>2, <1>5 DEF TypeOK
<1>7. CountIsActive' /\ RefusedOnlyIfActive' /\ Activated' = Activated
  BY <1>1, <1>2 DEF CountIsActive, RefusedOnlyIfActive, Activated
<1>8. CallbackInv' /\ ThreadInv'
  <2>1. CallbackInv'
    BY <1>1, <1>2, <1>3, <1>5, TwoTasks DEF CallbackInv
  <2>2. \A c \in Clients, t \in Tasks : pc[c][t] # "new"
    BY <1>1, <1>2 DEF ThreadInv
  <2>3. ASSUME NEW c \in Clients, pc'[c]["thread"] # "off" PROVE cud'[c] = "valid"
    BY <2>3, <1>1, <1>5, TwoTasks DEF ThreadInv
  <2>4. ASSUME NEW c \in Clients, NEW t \in Tasks, pc'[c][t] = "new"
        PROVE  mpc' = "insert" /\ t = "thread"
    BY <2>2, <2>4, <1>2, <1>5
  <2> QED BY <2>1, <2>3, <2>4 DEF ThreadInv
<1>9. TaskInv'
  <2>1. \A c \in Clients, t \in Tasks :
          pc[c][t] \in {"search", "use"} => pc'[c][t] = pc[c][t]
    BY <1>5
  <2> QED BY <2>1, <1>1, <1>2 DEF TaskInv, Valid, TypeOK
<1>10. CreateInv' /\ CloseInv' /\ ExitInv'
  BY <1>1, <1>2, <1>3, <1>7 DEF CreateInv, CloseInv, Closing, ExitInv
<1> QED BY <1>6, <1>7, <1>8, <1>9, <1>10 DEF IInv

LEMMA OpenInv == ASSUME IInv, Disciplined, NEW c \in Clients, Open(c) PROVE IInv'
<1>1. cud \in [Clients -> {"none", "valid", "closed"}]
      /\ rud \in [Rings -> {"none", "valid", "closed"}]
  BY DEF IInv, TypeOK
<1>2. cud' = [cud EXCEPT ![c] = "valid"] /\ rud' = rud /\ pc' = pc /\ Creating("client")
  BY DEF Open
<1> QED BY <1>1, <1>2, CreateEntryInv

LEMMA CreateRingInv == ASSUME IInv, Disciplined, NEW r \in Rings, CreateRing(r) PROVE IInv'
<1>1. cud \in [Clients -> {"none", "valid", "closed"}]
      /\ rud \in [Rings -> {"none", "valid", "closed"}]
  BY DEF IInv, TypeOK
<1>2. rud' = [rud EXCEPT ![r] = "valid"] /\ cud' = cud /\ pc' = pc /\ Creating("ring")
  BY DEF CreateRing
<1> QED BY <1>1, <1>2, CreateEntryInv

LEMMA StartThreadInv ==
  ASSUME IInv, Disciplined, NEW c \in Clients, StartThread(c)
  PROVE  IInv'
<1>1. cud \in [Clients -> {"none", "valid", "closed"}]
      /\ rud \in [Rings -> {"none", "valid", "closed"}]
  BY DEF IInv, TypeOK
<1>2. /\ cud[c] = "valid" /\ pc[c]["thread"] = "off"
      /\ pc' = [pc EXCEPT ![c]["thread"] = "new"]
      /\ Creating("thread") /\ UNCHANGED <<cud, rud>>
  BY DEF StartThread, entryvars
<1> QED BY <1>1, <1>2, CreateEntryInv

LEMMA InsertedInv == ASSUME IInv, Disciplined, Inserted PROVE IInv'
<1>1. /\ TypeOK /\ CountIsActive /\ CallbackInv /\ ThreadInv /\ TaskInv /\ CreateInv
      /\ CloseInv /\ ExitInv /\ RefusedOnlyIfActive
  BY DEF IInv
<1>2. /\ mpc = "insert" /\ mpc' = "script" /\ inserting' = "none"
      /\ pc' = [c \in Clients |->
                  [t \in Tasks |-> IF pc[c][t] = "new" THEN "run" ELSE pc[c][t]]]
      /\ UNCHANGED <<cud, rud, count, jactive, zombies, tree, using, cur, exiting, refused>>
  BY DEF Inserted, entryvars, jackvars
<1>3. pc \in [Clients -> [Tasks -> {"off", "new", "run", "search", "use"}]]
  BY <1>1 DEF TypeOK
<1>4. /\ pc' \in [Clients -> [Tasks -> {"off", "new", "run", "search", "use"}]]
      /\ \A c \in Clients, t \in Tasks :
           pc'[c][t] = IF pc[c][t] = "new" THEN "run" ELSE pc[c][t]
  BY <1>2, <1>3
<1>5. TypeOK'
  BY <1>1, <1>2, <1>4 DEF TypeOK
<1>6. CountIsActive' /\ RefusedOnlyIfActive' /\ ExitInv'
  BY <1>1, <1>2 DEF CountIsActive, RefusedOnlyIfActive, ExitInv, Activated
<1>7. CallbackInv' /\ ThreadInv'
  BY <1>1, <1>2, <1>4, TwoTasks DEF CallbackInv, ThreadInv
<1>8. TaskInv'
  BY <1>1, <1>2, <1>4 DEF TaskInv, Valid
<1>9. CreateInv' /\ CloseInv'
  BY <1>1, <1>2 DEF CreateInv, CloseInv, Closing
<1> QED BY <1>5, <1>6, <1>7, <1>8, <1>9 DEF IInv

LEMMA RefuseInv == ASSUME IInv, Disciplined, Refuse PROVE IInv'
<1>1. /\ TypeOK /\ CountIsActive /\ CallbackInv /\ ThreadInv /\ TaskInv /\ CreateInv
      /\ CloseInv /\ ExitInv /\ RefusedOnlyIfActive
  BY DEF IInv
<1>2. /\ count # 0 /\ refused' = TRUE
      /\ UNCHANGED <<cud, rud, count, jactive, zombies, pc, tree, using, mpc, cur, inserting,
                     exiting>>
  BY DEF Refuse, CheckCreate, entryvars, jackvars, taskvars, mainvars
<1>3. TypeOK'
  BY <1>1, <1>2 DEF TypeOK
<1>4. Activated' = Activated /\ Activated # {}
  BY <1>1, <1>2, ActivatedFinite DEF CountIsActive, Activated
<1>5. CountIsActive' /\ RefusedOnlyIfActive' /\ ExitInv'
  BY <1>1, <1>2, <1>4 DEF CountIsActive, RefusedOnlyIfActive, ExitInv
<1>6. CallbackInv' /\ ThreadInv' /\ TaskInv'
  BY <1>1, <1>2 DEF CallbackInv, ThreadInv, TaskInv, Valid
<1>7. CreateInv' /\ CloseInv'
  BY <1>1, <1>2, <1>4 DEF CreateInv, CloseInv, Closing
<1> QED BY <1>3, <1>4, <1>5, <1>6, <1>7 DEF IInv

----------------------------------------------------------------------------
(* The main thread: activation.                                            *)

LEMMA ActivateInv == ASSUME IInv, Disciplined, NEW c \in Clients, Activate(c) PROVE IInv'
<1>1. /\ TypeOK /\ CountIsActive /\ CallbackInv /\ ThreadInv /\ TaskInv /\ CreateInv
      /\ CloseInv /\ ExitInv /\ RefusedOnlyIfActive
  BY DEF IInv
<1>2. /\ mpc = "script" /\ cud[c] = "valid" /\ c \notin Activated /\ refused' = FALSE
      /\ UNCHANGED <<cud, rud, zombies, pc, tree, using, mpc, cur, inserting, exiting>>
      /\ \/ count' = count + 1 /\ jactive' = jactive \cup {c}
         \/ UNCHANGED <<count, jactive>>
  BY DEF Activate, Activate_, MayActivate, entryvars, taskvars, mainvars
<1>3. count \in Nat
  BY <1>1 DEF TypeOK
<1>4. TypeOK'
  <2>1. count' \in Nat
    BY <1>2, <1>3
  <2>2. jactive' \subseteq Clients
    BY <1>1, <1>2 DEF TypeOK
  <2> QED BY <2>1, <2>2, <1>1, <1>2 DEF TypeOK
<1>5. CountIsActive'
  <2>1. CASE UNCHANGED <<count, jactive>>
    BY <2>1, <1>1, <1>2 DEF CountIsActive, Activated
  <2>2. CASE count' = count + 1 /\ jactive' = jactive \cup {c}
    <3>1. Activated' = Activated \cup {c}
      BY <2>2, <1>2 DEF Activated
    <3>2. Cardinality(Activated') = Cardinality(Activated) + 1
      BY <3>1, <1>1, <1>2, ActivatedFinite, FS_AddElement
    <3> QED BY <3>2, <2>2, <1>1 DEF CountIsActive
  <2> QED BY <2>1, <2>2, <1>2
<1>6. CallbackInv'
  BY <1>1, <1>2 DEF CallbackInv, Activated
<1>7. ThreadInv' /\ TaskInv' /\ RefusedOnlyIfActive'
  BY <1>1, <1>2 DEF ThreadInv, TaskInv, Valid, RefusedOnlyIfActive
<1>8. CreateInv' /\ CloseInv' /\ ExitInv'
  BY <1>1, <1>2 DEF CreateInv, CloseInv, Closing, ExitInv
<1> QED BY <1>4, <1>5, <1>6, <1>7, <1>8 DEF IInv

(* The counter goes down exactly when a client is no longer active. *)
LEMMA Deactivated ==
  ASSUME IInv, NEW c \in Clients, Deactivate_(c), UNCHANGED zombies,
         c \in Activated \/ Activated = {}
  PROVE  /\ count' \in Nat /\ count' = Cardinality(Activated')
         /\ c \notin jactive' /\ jactive' \subseteq jactive
         /\ \A d \in jactive \ jactive' : pc[d]["rt"] = "off"
         /\ Activated \ {c} \subseteq Activated'
         /\ Activated' \subseteq Activated
<1>1. TypeOK /\ CountIsActive /\ CallbackInv
  BY DEF IInv
<1>2. count \in Nat /\ count = Cardinality(Activated) /\ (count = 0 <=> Activated = {})
  BY <1>1, ActivatedFinite DEF TypeOK, CountIsActive
<1>3. CASE (count = 0 \/ c \in zombies) /\ UNCHANGED <<count, jactive>>
  <2>1. Activated' = Activated
    BY <1>3 DEF Activated
  <2>2. c \notin jactive
    BY <1>1, <1>2, <1>3 DEF Activated, CallbackInv
  <2> QED BY <2>1, <2>2, <1>2, <1>3
<1>4. CASE /\ count > 0 /\ c \notin zombies
           /\ c \in jactive => pc[c]["rt"] = "off"
           /\ count' = count - 1 /\ jactive' = jactive \ {c}
  <2>1. c \in Activated /\ c \in jactive
    BY <1>2, <1>4 DEF Activated
  <2>2. Activated' = Activated \ {c}
    BY <1>4 DEF Activated
  <2>3. Cardinality(Activated') = Cardinality(Activated) - 1
    BY <2>1, <2>2, <1>1, ActivatedFinite, FS_RemoveElement
  <2>4. count - 1 \in Nat
    BY <1>2, <1>4
  <2> QED BY <2>1, <2>2, <2>3, <2>4, <1>2, <1>4
<1> QED BY <1>3, <1>4 DEF Deactivate_

LEMMA DeactivateInv == ASSUME IInv, Disciplined, NEW c \in Clients, Deactivate(c) PROVE IInv'
<1>1. /\ TypeOK /\ CountIsActive /\ CallbackInv /\ ThreadInv /\ TaskInv /\ CreateInv
      /\ CloseInv /\ ExitInv /\ RefusedOnlyIfActive
  BY DEF IInv
<1>2. /\ mpc = "script" /\ c \in Activated /\ Deactivate_(c) /\ refused' = FALSE
      /\ UNCHANGED <<cud, rud, zombies, pc, tree, using, mpc, cur, inserting, exiting>>
  BY DEF Deactivate, MayDeactivate, entryvars, taskvars, mainvars
<1>3. /\ count' \in Nat /\ count' = Cardinality(Activated') /\ jactive' \subseteq jactive
      /\ \A d \in jactive \ jactive' : pc[d]["rt"] = "off"
  BY <1>2, Deactivated
<1>4. TypeOK'
  BY <1>1, <1>2, <1>3 DEF TypeOK
<1>5. CountIsActive' /\ RefusedOnlyIfActive'
  BY <1>2, <1>3 DEF CountIsActive, RefusedOnlyIfActive
<1>6. CallbackInv' /\ ThreadInv' /\ TaskInv'
  BY <1>1, <1>2, <1>3 DEF CallbackInv, ThreadInv, TaskInv, Valid
<1>7. CreateInv' /\ CloseInv' /\ ExitInv'
  BY <1>1, <1>2 DEF CreateInv, CloseInv, Closing, ExitInv
<1> QED BY <1>4, <1>5, <1>6, <1>7 DEF IInv

----------------------------------------------------------------------------
(* The main thread: client_close() and the exit.                           *)

LEMMA StartCloseInv == ASSUME IInv, Disciplined, NEW c \in Clients, StartClose(c) PROVE IInv'
<1>1. /\ TypeOK /\ CountIsActive /\ CallbackInv /\ ThreadInv /\ TaskInv /\ CreateInv
      /\ CloseInv /\ ExitInv /\ RefusedOnlyIfActive
  BY DEF IInv
<1>2. /\ cud[c] = "valid" /\ Deactivate_(c)
      /\ mpc \in {"script", "closeall"} /\ mpc' = "threads" /\ cur' = c /\ refused' = FALSE
      /\ UNCHANGED <<cud, rud, zombies, pc, tree, using, inserting, exiting>>
  BY DEF StartClose, entryvars, taskvars
<1>3. c \in Activated \/ Activated = {}
  <2>1. CASE mpc = "script"
    BY <2>1 DEF StartClose, MayClose
  <2>2. CASE mpc = "closeall"
    BY <2>2, <1>1, <1>2, ClientsAssumption DEF ExitInv, CloseInv, Closing
  <2> QED BY <2>1, <2>2, <1>2
<1>4. /\ count' \in Nat /\ count' = Cardinality(Activated') /\ jactive' \subseteq jactive
      /\ c \notin jactive' /\ \A d \in jactive \ jactive' : pc[d]["rt"] = "off"
      /\ Activated \ {c} \subseteq Activated' /\ Activated' \subseteq Activated
  BY <1>2, <1>3, Deactivated
<1>5. TypeOK'
  BY <1>1, <1>2, <1>4 DEF TypeOK
<1>6. CountIsActive' /\ RefusedOnlyIfActive'
  BY <1>2, <1>4 DEF CountIsActive, RefusedOnlyIfActive
<1>7. CallbackInv' /\ ThreadInv' /\ TaskInv'
  BY <1>1, <1>2, <1>4 DEF CallbackInv, ThreadInv, TaskInv, Valid
<1>8. CreateInv' /\ CloseInv'
  BY <1>1, <1>2, <1>4 DEF CreateInv, CloseInv, Closing
<1>9. ExitInv'
  <2>1. exiting => mpc = "closeall" /\ cur = NoClient
    BY <1>1, <1>2 DEF ExitInv, CloseInv, Closing
  <2>2. exiting => Activated = {} \/ \A d \in Clients : cud[d] = "valid" => d \in Activated
    BY <2>1, <1>1, ClientsAssumption DEF ExitInv
  <2>3. exiting => Activated' = {}
                   \/ \A d \in Clients \ {c} : cud[d] = "valid" => d \in Activated'
    BY <2>2, <1>4
  <2> QED BY <2>3, <1>2 DEF ExitInv
<1> QED BY <1>5, <1>6, <1>7, <1>8, <1>9 DEF IInv

LEMMA FreeThreadsInv == ASSUME IInv, Disciplined, FreeThreads PROVE IInv'
<1>1. /\ TypeOK /\ CountIsActive /\ CallbackInv /\ ThreadInv /\ TaskInv /\ CreateInv
      /\ CloseInv /\ ExitInv /\ RefusedOnlyIfActive
  BY DEF IInv
<1>2. /\ mpc = "threads" /\ mpc' = "rings"
      /\ pc' = [pc EXCEPT ![cur]["thread"] = "off"]
      /\ tree' = [tree EXCEPT ![cur]["thread"] = "none"]
      /\ using' = [using EXCEPT ![cur]["thread"] = Nothing]
      /\ UNCHANGED <<cud, rud, count, jactive, zombies, cur, inserting, exiting, refused>>
  BY DEF FreeThreads, entryvars, jackvars
<1>3. /\ pc \in [Clients -> [Tasks -> {"off", "new", "run", "search", "use"}]]
      /\ tree \in [Clients -> [Tasks -> {"none", "client", "ring", "thread"}]]
      /\ using \in [Clients -> [Tasks -> Rings \cup Clients \cup {Nothing}]]
      /\ cur \in Clients
  BY <1>1, <1>2 DEF TypeOK, CloseInv, Closing
<1>4. /\ pc' \in [Clients -> [Tasks -> {"off", "new", "run", "search", "use"}]]
      /\ tree' \in [Clients -> [Tasks -> {"none", "client", "ring", "thread"}]]
      /\ using' \in [Clients -> [Tasks -> Rings \cup Clients \cup {Nothing}]]
  BY <1>2, <1>3, SetTask, TwoTasks
<1>5. \A d \in Clients, u \in Tasks :
        /\ pc'[d][u] = IF d = cur /\ u = "thread" THEN "off" ELSE pc[d][u]
        /\ tree'[d][u] = IF d = cur /\ u = "thread" THEN "none" ELSE tree[d][u]
        /\ using'[d][u] = IF d = cur /\ u = "thread" THEN Nothing ELSE using[d][u]
  BY <1>2, <1>3, SetTask, TwoTasks
<1>6. TypeOK'
  BY <1>1, <1>2, <1>4 DEF TypeOK
<1>7. CountIsActive' /\ RefusedOnlyIfActive' /\ ExitInv'
  BY <1>1, <1>2 DEF CountIsActive, RefusedOnlyIfActive, ExitInv, Activated
<1>8. CallbackInv' /\ ThreadInv' /\ TaskInv'
  BY <1>1, <1>2, <1>5, TwoTasks DEF CallbackInv, ThreadInv, TaskInv, Valid
<1>9. CreateInv' /\ CloseInv'
  BY <1>1, <1>2, <1>3, <1>5, TwoTasks DEF CreateInv, CloseInv, Closing
<1> QED BY <1>6, <1>7, <1>8, <1>9 DEF IInv

LEMMA FreeRingsInv == ASSUME IInv, Disciplined, FreeRings PROVE IInv'
<1>1. /\ TypeOK /\ CountIsActive /\ CallbackInv /\ ThreadInv /\ TaskInv /\ CreateInv
      /\ CloseInv /\ ExitInv /\ RefusedOnlyIfActive
  BY DEF IInv
<1>2. /\ mpc = "rings" /\ mpc' = "jackclose"
      /\ rud' = [r \in Rings |-> IF Owner[r] = cur /\ rud[r] = "valid" THEN "closed" ELSE rud[r]]
      /\ UNCHANGED <<cud, count, jactive, zombies, pc, tree, using, cur, inserting, exiting,
                     refused>>
  BY DEF FreeRings, jackvars, taskvars
<1>3. \A t \in Tasks : pc[cur][t] = "off"
  BY <1>1, <1>2 DEF CloseInv, Closing, CallbackInv, Tasks
<1>4. TypeOK'
  BY <1>1, <1>2 DEF TypeOK
<1>5. TaskInv'
  <2>1. using \in [Clients -> [Tasks -> Rings \cup Clients \cup {Nothing}]]
    BY <1>1 DEF TypeOK
  <2>2. ASSUME NEW c \in Clients, NEW t \in Tasks, using[c][t] # Nothing
        PROVE  /\ pc[c][t] = "use" /\ OwnerOf(using[c][t]) = c
               /\ Valid(using[c][t])'
    <3> DEFINE x == using[c][t]
    <3>1. /\ pc[c][t] = "use" /\ OwnerOf(x) = c /\ x' = x
          /\ x \in Rings => rud[x] = "valid"
          /\ x \notin Rings => cud[x] = "valid"
      BY <2>2, <1>1, <1>2 DEF TaskInv, Valid
    <3>2. c # cur
      BY <3>1, <1>3
    <3>3. x \in Rings => rud'[x] = "valid"
      BY <3>1, <3>2, <1>2 DEF OwnerOf
    <3> QED BY <3>1, <3>3, <1>2 DEF Valid
  <2>3. \A c \in Clients, t \in Tasks : (using[c][t] # Nothing)' =>
          (pc[c][t] = "use")' /\ (OwnerOf(using[c][t]) = c)' /\ Valid(using[c][t])'
    BY <2>2, <1>2 DEF OwnerOf
  <2> QED BY <2>3, <1>1, <1>2 DEF TaskInv
<1>6. CountIsActive' /\ RefusedOnlyIfActive' /\ ExitInv'
  BY <1>1, <1>2 DEF CountIsActive, RefusedOnlyIfActive, ExitInv, Activated
<1>7. CallbackInv' /\ ThreadInv' /\ CreateInv' /\ CloseInv'
  BY <1>1, <1>2 DEF CallbackInv, ThreadInv, CreateInv, CloseInv, Closing
<1> QED BY <1>4, <1>5, <1>6, <1>7 DEF IInv

LEMMA JackCloseInv == ASSUME IInv, Disciplined, JackClose PROVE IInv'
<1>1. /\ TypeOK /\ CountIsActive /\ CallbackInv /\ ThreadInv /\ TaskInv /\ CreateInv
      /\ CloseInv /\ ExitInv /\ RefusedOnlyIfActive
  BY DEF IInv
<1>2. /\ mpc = "jackclose" /\ mpc' = "cancel" /\ jactive' = jactive \ {cur}
      /\ UNCHANGED <<cud, rud, count, zombies, pc, tree, using, cur, inserting, exiting,
                     refused>>
  BY DEF JackClose, entryvars, taskvars
<1>3. jactive' = jactive
  BY <1>1, <1>2 DEF CloseInv, Closing
<1>4. TypeOK'
  BY <1>1, <1>2, <1>3 DEF TypeOK
<1>5. CountIsActive' /\ RefusedOnlyIfActive' /\ ExitInv'
  BY <1>1, <1>2, <1>3 DEF CountIsActive, RefusedOnlyIfActive, ExitInv, Activated
<1>6. CallbackInv' /\ ThreadInv' /\ TaskInv'
  BY <1>1, <1>2, <1>3 DEF CallbackInv, ThreadInv, TaskInv, Valid
<1>7. CreateInv' /\ CloseInv'
  BY <1>1, <1>2, <1>3 DEF CreateInv, CloseInv, Closing
<1> QED BY <1>4, <1>5, <1>6, <1>7 DEF IInv

LEMMA CancelValidInv == ASSUME IInv, Disciplined, CancelValid PROVE IInv'
<1>1. /\ TypeOK /\ CountIsActive /\ CallbackInv /\ ThreadInv /\ TaskInv /\ CreateInv
      /\ CloseInv /\ ExitInv /\ RefusedOnlyIfActive
  BY DEF IInv
<1>2. /\ mpc = "cancel" /\ mpc' = IF exiting THEN "closeall" ELSE "script"
      /\ cud' = [cud EXCEPT ![cur] = "closed"] /\ cur' = NoClient
      /\ UNCHANGED <<rud, count, jactive, zombies, pc, tree, using, inserting, exiting,
                     refused>>
  BY DEF CancelValid, jackvars, taskvars
<1>3. /\ cur \in Clients /\ cur \notin jactive /\ pc[cur]["thread"] = "off"
      /\ cud \in [Clients -> {"none", "valid", "closed"}] /\ exiting \in BOOLEAN
  BY <1>1, <1>2 DEF CloseInv, Closing, TypeOK
<1>4. \A c \in Clients : cud'[c] = IF c = cur THEN "closed" ELSE cud[c]
  BY <1>2, <1>3
<1>5. TypeOK'
  BY <1>1, <1>2, <1>3 DEF TypeOK
<1>6. CountIsActive' /\ RefusedOnlyIfActive' /\ Activated' = Activated
  BY <1>1, <1>2 DEF CountIsActive, RefusedOnlyIfActive, Activated
<1>7. CallbackInv'
  <2>1. jactive \subseteq Clients
    BY <1>1 DEF TypeOK
  <2> QED BY <2>1, <1>1, <1>2, <1>3, <1>4 DEF CallbackInv
<1>8. ThreadInv'
  BY <1>1, <1>2, <1>3, <1>4 DEF ThreadInv
<1>9. TaskInv'
  <2>1. \A t \in Tasks : pc[cur][t] = "off"
    BY <1>1, <1>3 DEF CallbackInv, Tasks
  <2>2. ASSUME NEW c \in Clients, NEW t \in Tasks, using[c][t] # Nothing
        PROVE  /\ pc[c][t] = "use" /\ OwnerOf(using[c][t]) = c
               /\ Valid(using[c][t])'
    <3> DEFINE x == using[c][t]
    <3>1. /\ pc[c][t] = "use" /\ OwnerOf(x) = c /\ x' = x
          /\ x \in Rings => rud[x] = "valid"
          /\ x \notin Rings => cud[x] = "valid"
      BY <2>2, <1>1, <1>2 DEF TaskInv, Valid
    <3>2. c # cur
      BY <3>1, <2>1
    <3>3. x \notin Rings => x = c /\ cud'[x] = "valid"
      BY <3>1, <3>2, <1>4 DEF OwnerOf
    <3> QED BY <3>1, <3>3, <1>2 DEF Valid
  <2>3. \A c \in Clients, t \in Tasks : (using[c][t] # Nothing)' =>
          (pc[c][t] = "use")' /\ (OwnerOf(using[c][t]) = c)' /\ Valid(using[c][t])'
    BY <2>2, <1>2 DEF OwnerOf
  <2> QED BY <2>3, <1>1, <1>2 DEF TaskInv
<1>10. CreateInv' /\ CloseInv'
  BY <1>1, <1>2, <1>3 DEF CreateInv, CloseInv, Closing
<1>11. ExitInv'
  BY <1>1, <1>2, <1>3, <1>4, <1>6 DEF ExitInv
<1> QED BY <1>5, <1>6, <1>7, <1>8, <1>9, <1>10, <1>11 DEF IInv

LEMMA AtExitInv == ASSUME IInv, Disciplined, AtExit PROVE IInv'
<1>1. /\ TypeOK /\ CountIsActive /\ CallbackInv /\ ThreadInv /\ TaskInv /\ CreateInv
      /\ CloseInv /\ ExitInv /\ RefusedOnlyIfActive
  BY DEF IInv
<1>2. /\ mpc = "script" /\ mpc' = "closeall" /\ exiting' = TRUE /\ refused' = FALSE
      /\ Activated = {} \/ \A c \in Clients : cud[c] = "valid" => c \in Activated
      /\ UNCHANGED <<cud, rud, count, jactive, zombies, pc, tree, using, cur, inserting>>
  BY DEF AtExit, MayExit, entryvars, jackvars, taskvars
<1>3. TypeOK'
  BY <1>1, <1>2 DEF TypeOK
<1>4. CountIsActive' /\ RefusedOnlyIfActive' /\ Activated' = Activated
  BY <1>1, <1>2 DEF CountIsActive, RefusedOnlyIfActive, Activated
<1>5. CallbackInv' /\ ThreadInv' /\ TaskInv'
  BY <1>1, <1>2 DEF CallbackInv, ThreadInv, TaskInv, Valid
<1>6. CreateInv' /\ CloseInv' /\ ExitInv'
  BY <1>1, <1>2, <1>4 DEF CreateInv, CloseInv, Closing, ExitInv
<1> QED BY <1>3, <1>4, <1>5, <1>6 DEF IInv

LEMMA FreeAllInv == ASSUME IInv, Disciplined, FreeAll PROVE IInv'
<1>1. /\ TypeOK /\ CountIsActive /\ CallbackInv /\ ThreadInv /\ TaskInv /\ CreateInv
      /\ CloseInv /\ ExitInv /\ RefusedOnlyIfActive
  BY DEF IInv
<1>2. /\ mpc = "closeall" /\ mpc' = "end" /\ \A c \in Clients : cud[c] # "valid"
      /\ cud' = [c \in Clients |-> "none"] /\ rud' = [r \in Rings |-> "none"]
      /\ UNCHANGED <<count, jactive, zombies, pc, tree, using, cur, inserting, exiting,
                     refused>>
  BY DEF FreeAll, jackvars, taskvars
<1>3. jactive = {} /\ \A c \in Clients, t \in Tasks : pc[c][t] = "off"
  BY <1>1, <1>2 DEF CallbackInv, ThreadInv, Tasks, TypeOK
<1>4. TypeOK'
  BY <1>1, <1>2 DEF TypeOK
<1>5. CountIsActive' /\ RefusedOnlyIfActive' /\ Activated' = Activated
  BY <1>1, <1>2 DEF CountIsActive, RefusedOnlyIfActive, Activated
<1>6. CallbackInv' /\ ThreadInv' /\ TaskInv'
  BY <1>1, <1>2, <1>3, TwoTasks DEF CallbackInv, ThreadInv, TaskInv, Valid
<1>7. CreateInv' /\ CloseInv' /\ ExitInv'
  BY <1>1, <1>2, <1>5 DEF CreateInv, CloseInv, Closing, ExitInv
<1> QED BY <1>4, <1>5, <1>6, <1>7 DEF IInv

----------------------------------------------------------------------------
(* The invariant is inductive.                                             *)

LEMMA InitInv == Init => IInv
<1> SUFFICES ASSUME Init PROVE IInv
  OBVIOUS
<1>1. /\ cud = [c \in Clients |-> "none"] /\ rud = [r \in Rings |-> "none"]
      /\ count = 0 /\ jactive = {} /\ zombies = {}
      /\ pc = [c \in Clients |-> [t \in Tasks |-> "off"]]
      /\ tree = [c \in Clients |-> [t \in Tasks |-> "none"]]
      /\ using = [c \in Clients |-> [t \in Tasks |-> Nothing]]
      /\ mpc = "script" /\ cur = NoClient /\ inserting = "none"
      /\ exiting = FALSE /\ refused = FALSE
  BY DEF Init
<1>2. TypeOK
  BY <1>1 DEF TypeOK
<1>3. CountIsActive /\ RefusedOnlyIfActive
  BY <1>1, FS_EmptySet DEF CountIsActive, RefusedOnlyIfActive, Activated
<1>4. CallbackInv /\ ThreadInv /\ TaskInv
  BY <1>1, TwoTasks DEF CallbackInv, ThreadInv, TaskInv, Valid
<1>5. CreateInv /\ CloseInv /\ ExitInv
  BY <1>1 DEF CreateInv, CloseInv, Closing, ExitInv
<1> QED BY <1>2, <1>3, <1>4, <1>5 DEF IInv

LEMMA StutterInv == ASSUME IInv, UNCHANGED vars PROVE IInv'
<1>1. /\ TypeOK /\ CountIsActive /\ CallbackInv /\ ThreadInv /\ TaskInv /\ CreateInv
      /\ CloseInv /\ ExitInv /\ RefusedOnlyIfActive
  BY DEF IInv
<1>2. UNCHANGED <<cud, rud, count, jactive, zombies, pc, tree, using, mpc, cur, inserting,
                  exiting, refused>>
  BY DEF vars, entryvars, jackvars, taskvars, mainvars
<1>3. TypeOK'
  BY <1>1, <1>2 DEF TypeOK
<1>4. CountIsActive' /\ RefusedOnlyIfActive' /\ ExitInv'
  BY <1>1, <1>2 DEF CountIsActive, RefusedOnlyIfActive, ExitInv, Activated
<1>5. CallbackInv' /\ ThreadInv' /\ TaskInv'
  BY <1>1, <1>2 DEF CallbackInv, ThreadInv, TaskInv, Valid
<1>6. CreateInv' /\ CloseInv'
  BY <1>1, <1>2 DEF CreateInv, CloseInv, Closing, Activated
<1> QED BY <1>3, <1>4, <1>5, <1>6 DEF IInv

LEMMA NextInv == ASSUME IInv, Disciplined, [Next]_vars PROVE IInv'
<1>1. ASSUME NEW c \in Clients, Cycle(c) \/ EndCycle(c) \/ ThrownOut(c) PROVE IInv'
  BY <1>1, CycleInv, ThrownOutInv
<1>2. ASSUME NEW c \in Clients, NEW t \in Tasks, TaskStep(c, t) PROVE IInv'
  BY <1>2, SearchInv, FoundInv, CallInv, DoneInv DEF TaskStep
<1>3. CASE ScriptStep
  <2>1. ASSUME NEW c \in Clients,
               Open(c) \/ StartThread(c) \/ Activate(c) \/ Deactivate(c) \/ StartClose(c)
        PROVE  IInv'
    BY <2>1, OpenInv, StartThreadInv, ActivateInv, DeactivateInv, StartCloseInv
  <2>2. ASSUME NEW r \in Rings, CreateRing(r) PROVE IInv'
    BY <2>2, CreateRingInv
  <2>3. CASE Refuse \/ AtExit
    BY <2>3, RefuseInv, AtExitInv
  <2> QED BY <1>3, <2>1, <2>2, <2>3 DEF ScriptStep
<1>4. CASE Inserted
  BY <1>4, InsertedInv
<1>5. CASE CloseStep
  <2>1. ASSUME NEW c \in Clients, StartClose(c) PROVE IInv'
    BY <2>1, StartCloseInv
  <2>2. CASE FreeThreads \/ FreeRings \/ JackClose \/ CancelValid \/ FreeAll
    BY <2>2, FreeThreadsInv, FreeRingsInv, JackCloseInv, CancelValidInv, FreeAllInv
  <2> QED BY <1>5, <2>1, <2>2 DEF CloseStep
<1>6. CASE Ended \/ UNCHANGED vars
  BY <1>6, StutterInv DEF Ended
<1> QED BY <1>1, <1>2, <1>3, <1>4, <1>5, <1>6 DEF Next

(* The invariant of a disciplined script: what runs belongs to a valid     *)
(* client, and what it uses has not been freed.                            *)
THEOREM Inductive == ASSUME Disciplined PROVE Spec => []IInv
<1>1. IInv /\ [Next]_vars => IInv'
  BY NextInv
<1> QED BY <1>1, InitInv, PTL DEF Spec

(* luajack_active_clients is the number of the active clients, and those   *)
(* JACK threw out, whatever JACK answers (Activate_ and Deactivate_).      *)
THEOREM CounterIsRight == ASSUME Disciplined PROVE Spec => []CountIsActive
<1>1. IInv => CountIsActive
  BY DEF IInv
<1> QED BY <1>1, Inductive, PTL

(* luajack_checkcreate() refuses only when a client is active, or was when *)
(* JACK threw it out.                                                      *)
THEOREM RefusalIsRight == ASSUME Disciplined PROVE Spec => []RefusedOnlyIfActive
<1>1. IInv => RefusedOnlyIfActive
  BY DEF IInv
<1> QED BY <1>1, Inductive, PTL

(* No entry is inserted into a tree that a realtime callback searches: the *)
(* counter in luajack_checkcreate() stands for the lock. Threads are not   *)
(* kept out by it.                                                         *)
THEOREM CallbacksNeedNoLock ==
  ASSUME Disciplined PROVE Spec => []CallbacksSeeNoInsertion
<1>1. ASSUME IInv PROVE CallbacksSeeNoInsertion
  <2>1. CreateInv /\ CallbackInv /\ TaskInv
    BY <1>1 DEF IInv
  <2>2. mpc = "insert" => inserting # "none" /\ \A c \in Clients : pc[c]["rt"] = "off"
    BY <2>1 DEF CreateInv, CallbackInv, Activated
  <2>3. \A c \in Clients : pc[c]["rt"] = "off" => tree[c]["rt"] = "none"
    BY <2>1, TwoTasks DEF TaskInv
  <2> QED BY <2>2, <2>3 DEF CallbacksSeeNoInsertion
<1> QED BY <1>1, Inductive, PTL

(* No callback and no thread uses a ringbuffer after client_close() freed  *)
(* it, at whatever point the closing falls.                                *)
THEOREM NothingFreedInUse == ASSUME Disciplined PROVE Spec => []NoUseAfterFree
<1>1. ASSUME IInv, NEW c \in Clients, NEW t \in Tasks, using[c][t] # Nothing
      PROVE  Usable(using[c][t])
  <2> DEFINE x == using[c][t]
  <2>1. pc[c][t] = "use" /\ OwnerOf(x) = c /\ Valid(x)
    BY <1>1 DEF IInv, TaskInv
  <2>2. ASSUME x \in Clients, mpc = "cancel" PROVE x # cur
    <3>1. x = c
      BY <2>1, <2>2, ClientsAssumption DEF OwnerOf
    <3>2. cur \notin jactive /\ pc[cur]["thread"] = "off"
      BY <1>1, <2>2 DEF IInv, CloseInv, Closing
    <3> QED BY <3>1, <3>2, <2>1, <1>1 DEF IInv, CallbackInv, Tasks
  <2> QED BY <2>1, <2>2 DEF Usable
<1>2. IInv => NoUseAfterFree
  BY <1>1 DEF NoUseAfterFree
<1> QED BY <1>2, Inductive, PTL

(* When LuaJack frees its databases no callback and no thread is left.     *)
THEOREM EndsQuietly == ASSUME Disciplined PROVE Spec => []QuietEnd
<1>1. ASSUME IInv PROVE QuietEnd
  <2>1. TypeOK /\ ExitInv /\ CallbackInv /\ ThreadInv
    BY <1>1 DEF IInv
  <2> QED BY <2>1 DEF ExitInv, CallbackInv, ThreadInv, TypeOK, Tasks, QuietEnd
<1> QED BY <1>1, Inductive, PTL

(* The variables of Clients keep their types; luajack_active_clients, a    *)
(* size_t, never goes below 0.                                             *)
THEOREM TypesHold == ASSUME Disciplined PROVE Spec => []TypeOK
<1>1. IInv => TypeOK
  BY DEF IInv
<1> QED BY <1>1, Inductive, PTL
=============================================================================
