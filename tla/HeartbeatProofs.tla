--------------------------- MODULE HeartbeatProofs ---------------------------
(***************************************************************************)
(* No step of the server loses a heartbeat, for every set of tasks, every  *)
(* capacity and every timing: a heartbeat leaves main's queue only into    *)
(* hbt_rsp, and only the verdict of processHeartbeats clears hbt_rsp.  In  *)
(* a server nothing disturbs, no heartbeat is ever reported missing.       *)
(***************************************************************************)
EXTENDS ExitProofs

\* What HeartbeatKept says of one step and one task.
StaysQueued(t) == HeartbeatQueued(t) => HeartbeatQueued(t)' \/ hbt_rsp'[t]
StaysCounted(t) == hbt_rsp[t] => hbt_rsp'[t] \/ pc["main"] = "check"

\* A step that leaves main's queue alone loses no queued heartbeat.
LEMMA SameQueue ==
  ASSUME queue'["main"] = queue["main"], NEW t \in Task
  PROVE  StaysQueued(t)
BY DEF StaysQueued, HeartbeatQueued

\* A step that leaves hbt_rsp alone loses no counted heartbeat.
LEMMA SameFlags ==
  ASSUME hbt_rsp' = hbt_rsp, NEW t \in Task
  PROVE  StaysCounted(t)
BY DEF StaysCounted

\* Appending a message removes none.
LEMMA SendQueues ==
  ASSUME MQTypeOK, NEW to \in Thread, NEW m \in Message, mq_send(to, m), NEW t \in Task
  PROVE  StaysQueued(t)
<1>1. queue["main"] \in Seq(Message)
  BY MainInThread DEF MQTypeOK
<1>2. CASE to # "main"
  <2>1. queue'["main"] = queue["main"]
    BY <1>2, MainInThread DEF MQTypeOK, mq_send
  <2> QED
    BY <2>1, SameQueue
<1>3. CASE to = "main"
  <2>1. queue'["main"] = Append(queue["main"], m)
    BY <1>3, MainInThread DEF MQTypeOK, mq_send
  <2>2. \A i \in DOMAIN queue["main"] :
          i \in DOMAIN queue'["main"] /\ queue'["main"][i] = queue["main"][i]
    BY <1>1, <2>1, AppendProperties, LenProperties
  <2> QED
    BY <2>2 DEF StaysQueued, HeartbeatQueued
<1> QED
  BY <1>2, <1>3

\* Receiving removes the head, and main counts it if it is a heartbeat.
LEMMA ReceiveCounts ==
  ASSUME TypeOK, mq_receive("main"), hbt_rsp' = Heard(Head(queue["main"])), NEW t \in Task
  PROVE  StaysQueued(t)
<1> DEFINE q == queue["main"]
<1>1. q \in Seq(Message) /\ q # <<>> /\ hbt_rsp \in [Task -> BOOLEAN]
  BY MainInThread DEF TypeOK, MQTypeOK, mq_receive
<1>2. queue'["main"] = Tail(q)
  BY MainInThread DEF TypeOK, MQTypeOK, mq_receive
<1>3. SUFFICES ASSUME NEW i \in DOMAIN q, q[i] = Msg("HEARTBEAT_RSP", t)
               PROVE  HeartbeatQueued(t)' \/ hbt_rsp'[t]
  BY DEF StaysQueued, HeartbeatQueued
<1>4. Len(q) \in Nat /\ i \in 1..Len(q)
  BY <1>1, LenProperties
<1>5. CASE i = 1
  <2>1. Head(q) = Msg("HEARTBEAT_RSP", t)
    BY <1>1, <1>3, <1>5, HeadTailProperties
  <2>2. Msg("HEARTBEAT_RSP", t).id = "HEARTBEAT_RSP" /\ Msg("HEARTBEAT_RSP", t).source = t
    BY DEF Msg
  <2>3. hbt_rsp' = [hbt_rsp EXCEPT ![t] = TRUE]
    BY <2>1, <2>2 DEF Heard
  <2> QED
    BY <1>1, <2>3
<1>6. CASE i # 1
  <2>1. i - 1 \in 1..Len(Tail(q)) /\ Tail(q)[i - 1] = q[i]
    BY <1>1, <1>4, <1>6, HeadTailProperties
  <2>2. i - 1 \in DOMAIN Tail(q)
    BY <1>1, <2>1, HeadTailProperties, LenProperties
  <2> QED
    BY <1>2, <1>3, <2>1, <2>2 DEF HeartbeatQueued
<1> QED
  BY <1>5, <1>6

\* Main only ever sets flags when it reads a buffer.
LEMMA HeardCounts ==
  ASSUME TypeOK, NEW m, hbt_rsp' = Heard(m), NEW t \in Task
  PROVE  StaysCounted(t)
<1>1. hbt_rsp \in [Task -> BOOLEAN]
  BY DEF TypeOK
<1> QED
  BY <1>1 DEF StaysCounted, Heard

(***************************************************************************)
(* The steps, grouped by what they do to main's queue and to hbt_rsp.      *)
(***************************************************************************)
\* Operations on kernel objects that move no message.
LEMMA KernelQueues ==
  ASSUME NEW u, NEW t \in Task,
         pthread_kill(u) \/ mq_notify(u) \/ sigwait(u) \/ UNCHANGED mqVars \/ UNCHANGED queue
  PROVE  StaysQueued(t)
<1>1. queue'["main"] = queue["main"]
  BY DEF pthread_kill, mq_notify, sigwait, mqVars
<1> QED
  BY <1>1, SameQueue

\* A call any thread makes loses no queued heartbeat.
LEMMA CommonCallKeeps ==
  ASSUME TypeOK, NEW u \in Thread, CommonCall(u), NEW t \in Task
  PROVE  StaysQueued(t)
<1>1. /\ NextCall(u).to \in Thread
      /\ NextCall(u).call = "mq_send" => NextCall(u).msg \in Message
  BY NextCallType DEF TypeOK, TasksTypeOK, CommonCall
<1>2. CASE CallSend(u)
  BY <1>1, <1>2, SendQueues DEF CallSend, TypeOK
<1>3. CASE CallKill(u) \/ CallNotify(u) \/ CallMayDie(u) \/ CallI2C(u)
           \/ CallOpenLog(u) \/ CallWriteLog(u)
  BY <1>3, KernelQueues
  DEF CallKill, CallNotify, CallMayDie, CallI2C, CallOpenLog, CallWriteLog, Die
<1> QED
  BY <1>2, <1>3 DEF CommonCall

\* Another thread reads its own queue, not main's.
LEMMA TaskKeeps ==
  ASSUME TypeOK, NEW u \in Task, TaskStep(u), NEW t \in Task
  PROVE  StaysQueued(t)
<1>1. u \in Thread /\ u # "main"
  BY TaskAssumption DEF Thread
<1>2. CASE CommonCall(u)
  BY <1>1, <1>2, CommonCallKeeps
<1>3. CASE TaskLoop(u) \/ TaskSigwait(u) \/ TaskNotify(u) \/ TaskReceiveEmpty(u)
  BY <1>3, KernelQueues DEF TaskLoop, TaskSigwait, TaskNotify, TaskReceiveEmpty
<1>4. CASE TaskReceive(u)
  <2>1. queue'["main"] = queue["main"]
    BY <1>1, <1>4, MainInThread DEF TaskReceive, mq_receive, TypeOK, MQTypeOK
  <2> QED
    BY <2>1, SameQueue
<1> QED
  BY <1>2, <1>3, <1>4 DEF TaskStep

\* Main's steps: what its drains remove they count, and only HbCheck clears.
LEMMA MainKeeps ==
  ASSUME TypeOK, MainStep, NEW t \in Task
  PROVE  StaysQueued(t) /\ StaysCounted(t)
<1>1. CASE CommonCall("main") /\ UNCHANGED mainVars
  BY <1>1, MainInThread, CommonCallKeeps, SameFlags DEF mainVars
<1>2. CASE CallStop \/ CallSetError \/ CallAlarm \/ CallUnlink \/ CallJoin \/ CallExit
  BY <1>2, KernelQueues, SameFlags
  DEF CallStop, CallSetError, CallAlarm, CallUnlink, CallJoin, CallExit, Die, mainVars
<1>3. CASE MainLoop \/ MainSigwait \/ MainTimer \/ MainNotify \/ MainTick \/ MainStartup
  BY <1>3, KernelQueues, SameFlags
  DEF MainLoop, MainSigwait, MainTimer, MainNotify, MainTick, MainStartup, mainVars
<1>4. CASE MainReceive \/ HbReceive
  <2>1. mq_receive("main") /\ hbt_rsp' = Heard(Head(queue["main"]))
    BY <1>4 DEF MainReceive, HbReceive
  <2> QED
    BY <2>1, ReceiveCounts, HeardCounts
<1>5. CASE MainReceiveEmpty \/ HbReceiveEmpty
  <2>1. UNCHANGED mqVars
    BY <1>5 DEF MainReceiveEmpty, HbReceiveEmpty
  <2>2. PICK m \in {in_buffer["main"], hb_buffer} : hbt_rsp' = Heard(m)
    BY <1>5 DEF MainReceiveEmpty, HbReceiveEmpty
  <2>3. StaysCounted(t)
    BY <2>2, HeardCounts
  <2> QED
    BY <2>1, <2>3, KernelQueues
<1>6. CASE HbCheck
  BY <1>6, KernelQueues DEF HbCheck, StaysCounted
<1>7. CASE HbJudge \/ HbRaise
  BY <1>7, KernelQueues, SameFlags DEF HbJudge, HbRaise, mainVars
<1> QED
  BY <1>1, <1>2, <1>3, <1>4, <1>5, <1>6, <1>7 DEF MainStep

\* A stop signal touches neither main's queue nor hbt_rsp.
LEMMA SignalKeeps ==
  ASSUME NEW s, UserSignal(s), NEW t \in Task
  PROVE  StaysQueued(t) /\ StaysCounted(t)
<1>1. UNCHANGED queue /\ UNCHANGED hbt_rsp
  BY DEF UserSignal, handleCtrlC, Die
<1> QED
  BY <1>1, KernelQueues, SameFlags

\* While it is up no step of the server, its users or its clients loses a heartbeat.
LEMMA NextKeeps ==
  ASSUME TypeOK, [Next]_vars, process = "up", NEW t \in Task
  PROVE  StaysQueued(t) /\ StaysCounted(t)
<1>1. CASE MainStep
  BY <1>1, MainKeeps
<1>2. ASSUME NEW u \in Task, ServerTask(u) PROVE StaysQueued(t) /\ StaysCounted(t)
  BY <1>2, TaskKeeps, SameFlags DEF ServerTask, mainVars
<1>3. ASSUME NEW s \in StopSignals, UserSignal(s) PROVE StaysQueued(t) /\ StaysCounted(t)
  BY <1>3, SignalKeeps
<1>4. ASSUME NEW u \in ClientTargets, ClientSend(u) PROVE StaysQueued(t) /\ StaysCounted(t)
  <2>1. u \in Thread /\ ClientCommand[u] \in Message
    <3>1. u \in {"temp", "light", "logger", "main"} /\ u \in Thread
      BY ClientTargetsAssumption, TaskAssumption DEF Thread
    <3> QED
      BY <3>1 DEF ClientCommand, Message, Msg
  <2> QED
    BY <1>4, <2>1, SendQueues, SameFlags DEF ClientSend, mainVars, TypeOK
<1>5. CASE UNCHANGED vars
  BY <1>5, KernelQueues, SameFlags DEF vars, mainVars
<1> QED
  BY <1>1, <1>2, <1>3, <1>4, <1>5 DEF Next, ServerStep, Terminated

(***************************************************************************)
(* A heartbeat that a task has sent counts in the next verdict: it stays   *)
(* queued until main counts it, and counted until the verdict.             *)
(***************************************************************************)
THEOREM HeartbeatsKept == Spec => HeartbeatKept
<1>1. TypeOK /\ [Next]_vars =>
        [process = "up" =>
           \A t \in Task :
             /\ HeartbeatQueued(t) => HeartbeatQueued(t)' \/ hbt_rsp'[t]
             /\ hbt_rsp[t] => hbt_rsp'[t] \/ pc["main"] = "check"]_vars
  BY NextKeeps DEF StaysQueued, StaysCounted
<1> QED
  BY <1>1, TypeCorrect, PTL DEF Spec, HeartbeatKept

(***************************************************************************)
(* No false alarm.                                                         *)
(*                                                                         *)
(* In such a server main asks every task for a heartbeat once per         *)
(* period, and the task answers before the period ends.  The invariant     *)
(* follows one heartbeat along its way: a call main has yet to make, a     *)
(* request in the task's queue, a call the task has yet to make, a message *)
(* in main's queue, a flag.                                                *)
(***************************************************************************)
\* A period is long enough for the work of a round, no client writes to the
\* queue main never kicks, and the server is started on empty queues.
Undisturbed ==
  /\ HeartbeatPeriod = "covers_round"
  /\ "light" \notin ClientTargets
  /\ ~Restarts

\* Thread u still has to make the call c.
Due(u, c) == pc[u] \in Calling /\ Ahead(todo[u], c)

Ask(t)  == Send(t, "HEARTBEAT_REQ", "main")
Beat(t) == Send("main", "HEARTBEAT_RSP", t)

\* Where the heartbeat of task t can be.
Asked(t)   == \E i \in 1..Len(queue[t]) : queue[t][i].id = "HEARTBEAT_REQ"
Counted(t) == hbt_rsp[t] \/ HeartbeatQueued(t)
Coming(t)  == Counted(t) \/ Due(t, Beat(t)) \/ Asked(t) \/ Due("main", Ask(t))

\* Task t does not sleep on messages, or main is about to kick it.  ("round", a
\* stretch only main runs, is named for leading to the loop like the setup does.)
Rested(t) == pc[t] \in {"loop", "sigwait", "round"} => Watching(t)
Kicked(t) == Rested(t) \/ Due("main", Do("pthread_kill", t))

\* Main has not begun its first round; no stop has been requested, or the
\* request is about to be overwritten at main.c:185.
Early == main_state = "STARTUP" \/ pc["main"] = "startup"
Live  == Early \/ main_state = "REQ_RSP"

MainPlace ==
  /\ main_state # "ERROR" /\ pc["main"] \notin {"verdict", "raise"}
  /\ pc["main"] \in {"teardown", "ended"} => main_state = "SHUTDOWN"
  /\ pc["main"] \in {"setup", "startup"} => main_state # "REQ_RSP"
  /\ pc["main"] \in {"round", "hb_receive", "hb_handle", "hb_again", "check", "judge"}
       => main_state # "STARTUP"

\* Main does not kick the light thread; it need not, as nothing reaches the
\* light queue before the light thread has registered.
LightReady ==
  "light" \in Task /\ Live =>
    /\ Early => queue["light"] = <<>>
    /\ pc["light"] = "setup" => registered["light"] \/ Due("light", Do("mq_notify", "light"))
    /\ Rested("light")

SetupOver == pc["main"] \in {"tick", "startup"} => \A t \in Task : pc[t] # "setup"

\* How far the heartbeat has come in processHeartbeats, also after a stop.
Read(t) ==
  /\ pc["main"] \in {"hb_receive", "hb_handle"} => Counted(t)
  /\ pc["main"] \in {"hb_again", "check"} => hbt_rsp[t]

\* How far it has come between two of them, in the rounds.
Between == {"loop", "sigwait", "notify", "receive", "handle", "again", "round"}
OnTime(t) ==
  /\ pc["main"] \in Between => Coming(t)
  /\ pc["main"] = "tick" => Counted(t)

InRounds(t) == pc[t] # "setup" /\ Kicked(t) /\ OnTime(t)

BeatInv ==
  /\ MainPlace
  /\ LightReady
  /\ SetupOver
  /\ \A t \in Task : Read(t)
  /\ main_state = "REQ_RSP" => \A t \in Task : InRounds(t)

(***************************************************************************)
(* What the scripts hold.                                                  *)
(***************************************************************************)
\* A script of one call.
LEMMA Single == \A c : Ahead(<<c>>, c)
<1> TAKE c
<1>1. 1 \in 1..Len(<<c>>) /\ <<c>>[1] = c
  OBVIOUS
<1> QED
  BY <1>1 DEF Ahead

\* A task answers a request.
LEMMA Answers ==
  ASSUME NEW t \in Task, NEW m, m.id = "HEARTBEAT_REQ"
  PROVE  Ahead(Script(t, m), Beat(t))
<1>1. \A id, script : id # "HEARTBEAT_REQ" => On(id, m, script) = <<>>
  BY DEF On
<1>2. \A script : On("HEARTBEAT_REQ", m, script) = script
  BY DEF On
<1>3. t \in {"temp", "light", "logger"}
  BY TaskAssumption
<1>4. CASE t = "temp"
  <2> DEFINE beat == <<Send("main", "HEARTBEAT_RSP", "temp"), Do("i2c", "temp")>>
  <2>1. Script(t, m) = <<>> \o beat
    BY <1>1, <1>2, <1>4 DEF Script, TempScript
  <2>2. 1 \in 1..Len(<<>> \o beat) /\ (<<>> \o beat)[1] = Beat("temp")
    BY DEF Beat
  <2> QED
    BY <1>4, <2>1, <2>2 DEF Ahead
<1>5. CASE t = "light"
  <2> DEFINE beat == <<Send("main", "HEARTBEAT_RSP", "light")>>
  <2>1. Script(t, m) = <<>> \o beat
    BY <1>1, <1>2, <1>5 DEF Script, LightScript
  <2>2. 1 \in 1..Len(<<>> \o beat) /\ (<<>> \o beat)[1] = Beat("light")
    BY DEF Beat
  <2> QED
    BY <1>5, <2>1, <2>2 DEF Ahead
<1>6. CASE t = "logger"
  <2> DEFINE beat == <<Send("main", "HEARTBEAT_RSP", "logger")>>
  <2>1. Script(t, m) = <<>> \o <<>> \o beat
    BY <1>1, <1>2, <1>6 DEF Script, LoggerScript
  <2>2. 1 \in 1..Len(<<>> \o <<>> \o beat) /\ (<<>> \o <<>> \o beat)[1] = Beat("logger")
    BY DEF Beat
  <2> QED
    BY <1>6, <2>1, <2>2 DEF Ahead
<1> QED
  BY <1>3, <1>4, <1>5, <1>6

\* Main's requests reach every task.
LEMMA RequestsAsk ==
  ASSUME NEW t \in Task
  PROVE  Ahead(reqHeartbeats, Ask(t))
<1> DEFINE logger == <<Send("logger", "HEARTBEAT_REQ", "main")>>
           temp   == ForTask("temp", <<Send("temp", "HEARTBEAT_REQ", "main")>>)
           light  == ForTask("light", <<Send("light", "HEARTBEAT_REQ", "main")>>)
<1>1. logger \in Seq(Call) /\ temp \in Seq(Call) /\ light \in Seq(Call)
  BY MainInThread, RequestTypes, ForTaskType
<1>2. \/ t = "logger" /\ Ahead(logger, Ask(t))
      \/ t = "temp" /\ Ahead(temp, Ask(t))
      \/ t = "light" /\ Ahead(light, Ask(t))
  BY TaskAssumption, Single DEF ForTask, Ask
<1> HIDE DEF logger, temp, light
<1>3. logger \o temp \in Seq(Call)
  BY <1>1, ConcatType
<1>4. reqHeartbeats = logger \o temp \o light
  BY DEF reqHeartbeats, logger, temp, light
<1> QED
  BY <1>1, <1>2, <1>3, <1>4, AheadConcat

\* So does every script that begins a round.
LEMMA RoundAsks ==
  ASSUME NEW t \in Task
  PROVE  Ahead(RoundScript, Ask(t)) /\ Ahead(<<Log>> \o RoundScript, Ask(t))
<1> DEFINE rest == <<Do("pthread_kill", "logger"), Do("alarm", "main")>>
<1>1. rest \in Seq(Call) /\ <<Log>> \in Seq(Call)
  BY MainInThread, RequestTypes, CallTypes, ShortSeq DEF CallName
<1>2. RoundScript = reqHeartbeats \o rest
  BY DEF RoundScript
<1> HIDE DEF rest
<1>3. Ahead(RoundScript, Ask(t))
  BY <1>1, <1>2, RequestsAsk, ReqHeartbeatsType, AheadConcat
<1> QED
  BY <1>1, <1>3, RoundType, AheadConcat

\* The first round also kicks all tasks but the light thread.
LEMMA StartupAsks ==
  ASSUME NEW t \in Task
  PROVE  /\ Ahead(StartupScript, Ask(t))
         /\ t # "light" => Ahead(StartupScript, Do("pthread_kill", t))
<1> DEFINE kick  == <<Do("pthread_kill", "logger")>>
           temp  == ForTask("temp", <<Send("temp", "TEMP_DATA_REQ", "main"), Do("pthread_kill", "temp")>>)
           light == ForTask("light", <<Send("light", "LIGHT_DATA_REQ", "main")>>)
           alarm_again == <<Do("alarm", "main")>>
           c     == Do("pthread_kill", t)
<1>1. /\ kick \in Seq(Call) /\ alarm_again \in Seq(Call)
      /\ temp \in Seq(Call) /\ light \in Seq(Call)
  <2>1. "temp" \in Task =>
          <<Send("temp", "TEMP_DATA_REQ", "main"), Do("pthread_kill", "temp")>> \in Seq(Call)
    BY MainInThread, CallTypes, ShortSeq DEF CallName
  <2> QED
    BY <2>1, MainInThread, DoType, RequestTypes, ForTaskType DEF CallName
<1>2. t = "logger" => Ahead(kick, c)
  BY Single
<1>3. t = "temp" => Ahead(temp, c)
  <2>1. SUFFICES ASSUME t = "temp" PROVE Ahead(temp, c)
    OBVIOUS
  <2>2. temp = <<Send("temp", "TEMP_DATA_REQ", "main"), c>>
    BY <2>1 DEF ForTask
  <2>3. 2 \in 1..Len(temp) /\ temp[2] = c
    BY <2>2
  <2> QED
    BY <2>3 DEF Ahead
<1>4. StartupScript = reqHeartbeats \o kick \o temp \o light \o alarm_again
  BY DEF StartupScript
<1> HIDE DEF kick, temp, light, alarm_again, c
<1>5. /\ reqHeartbeats \in Seq(Call) /\ reqHeartbeats \o kick \in Seq(Call)
      /\ reqHeartbeats \o kick \o temp \in Seq(Call)
      /\ reqHeartbeats \o kick \o temp \o light \in Seq(Call)
  BY <1>1, ReqHeartbeatsType, ConcatType
<1>6. ASSUME NEW d, Ahead(reqHeartbeats, d) \/ Ahead(kick, d) \/ Ahead(temp, d)
      PROVE  Ahead(StartupScript, d)
  <2>1. Ahead(reqHeartbeats \o kick, d) \/ Ahead(temp, d)
    BY <1>1, <1>5, <1>6, AheadConcat
  <2>2. Ahead(reqHeartbeats \o kick \o temp, d)
    BY <1>1, <1>5, <2>1, AheadConcat
  <2>3. Ahead(reqHeartbeats \o kick \o temp \o light, d)
    BY <1>1, <1>5, <2>2, AheadConcat
  <2> QED
    BY <1>1, <1>4, <1>5, <2>3, AheadConcat
<1>7. t \in {"temp", "light", "logger"}
  BY TaskAssumption
<1> QED
  BY <1>2, <1>3, <1>6, <1>7, RequestsAsk DEF c

(***************************************************************************)
(* What a step leaves ahead of a thread.                                   *)
(***************************************************************************)
\* Thread u makes its next call and keeps the others, perhaps behind error lines.
Performs(u) ==
  \E label \in {pc[u], ErrnoOverwritten(pc[u])} : \E script :
    /\ Run(u, label, script)
    /\ \A c : Ahead(todo[u], c) /\ c # NextCall(u) => Ahead(script, c)

\* Returning from a call does so.
LEMMA ReturnPerforms ==
  ASSUME TypeOK, NEW u \in Thread, todo[u] # <<>>, Return(u)
  PROVE  Performs(u)
<1>1. todo[u] \in Seq(Call)
  BY DEF TypeOK, TasksTypeOK
<1>2. \A c : Ahead(todo[u], c) /\ c # NextCall(u) => Ahead(Tail(todo[u]), c)
  BY <1>1, AheadTail DEF NextCall
<1>3. Run(u, pc[u], Tail(todo[u]))
  BY DEF Return
<1> QED
  BY <1>2, <1>3 DEF Performs

\* And so does every call any thread makes, unless it ends the process.
LEMMA CallPerforms ==
  ASSUME TypeOK, NEW u \in Thread, CommonCall(u), ~Die
  PROVE  pc[u] \in Calling /\ Performs(u)
<1>1. pc[u] \in Calling /\ todo[u] # <<>> /\ todo[u] \in Seq(Call)
  BY DEF CommonCall, TypeOK, TasksTypeOK
<1>2. CASE Return(u)
  BY <1>1, <1>2, ReturnPerforms
<1>3. CASE \E n \in 1..MaxSensorErrors :
             Run(u, ErrnoOverwritten(pc[u]), Repeat(Log, n) \o Tail(todo[u]))
  <2>1. PICK n \in 1..MaxSensorErrors :
          Run(u, ErrnoOverwritten(pc[u]), Repeat(Log, n) \o Tail(todo[u]))
    BY <1>3
  <2>2. n \in Nat
    BY MaxSensorErrorsAssumption
  <2>3. Repeat(Log, n) \in Seq(Call) /\ Tail(todo[u]) \in Seq(Call)
    BY <1>1, <2>2, RepeatType, HeadTailProperties
  <2>4. \A c : Ahead(todo[u], c) /\ c # NextCall(u) => Ahead(Repeat(Log, n) \o Tail(todo[u]), c)
    BY <1>1, <2>3, AheadTail, AheadConcat DEF NextCall
  <2> QED
    BY <1>1, <2>1, <2>4 DEF Performs
<1> QED
  BY <1>1, <1>2, <1>3
  DEF CommonCall, CallSend, CallKill, CallNotify, CallMayDie, CallI2C, CallOpenLog, CallWriteLog

\* What a call leaves behind.
LEMMA PerformsKeeps ==
  ASSUME TypeOK, NEW u \in Thread, pc[u] \in Calling, Performs(u)
  PROVE  /\ \A c : Due(u, c) /\ c # NextCall(u) => Due(u, c)'
         /\ \A v \in Thread : v # u => pc'[v] = pc[v] /\ todo'[v] = todo[v]
         /\ \E label \in {pc[u], ErrnoOverwritten(pc[u])} : pc'[u] \in {label, Continue[label]}
<1>1. PICK label \in {pc[u], ErrnoOverwritten(pc[u])} : \E script :
        /\ Run(u, label, script)
        /\ \A c : Ahead(todo[u], c) /\ c # NextCall(u) => Ahead(script, c)
  BY DEF Performs
<1>2. PICK script :
        /\ Run(u, label, script)
        /\ \A c : Ahead(todo[u], c) /\ c # NextCall(u) => Ahead(script, c)
  BY <1>1
<1>3. /\ todo'[u] = script
      /\ script = <<>> => pc'[u] = Continue[label]
      /\ script # <<>> => pc'[u] = label
      /\ \A v \in Thread : v # u => pc'[v] = pc[v] /\ todo'[v] = todo[v]
  BY <1>2, RunMoves
<1>4. label \in Calling
  BY DEF Calling, Continue, ErrnoOverwritten
<1>5. ASSUME NEW c, Due(u, c), c # NextCall(u) PROVE Due(u, c)'
  <2>1. Ahead(script, c)
    BY <1>2, <1>5 DEF Due
  <2>2. script # <<>>
    BY <2>1 DEF Ahead
  <2> QED
    BY <1>3, <1>4, <2>1, <2>2 DEF Due, Ahead
<1> QED
  BY <1>3, <1>5

\* A thread that stands still still has its calls to make.
LEMMA StillDue ==
  ASSUME NEW u, pc'[u] = pc[u], todo'[u] = todo[u], NEW c, Due(u, c)
  PROVE  Due(u, c)'
BY DEF Due, Ahead

\* A thread that starts on a script has its calls to make.
LEMMA NewlyDue ==
  ASSUME TypeOK, NEW u \in Thread, NEW label \in Calling, NEW script,
         Run(u, label, script), NEW c, Ahead(script, c)
  PROVE  Due(u, c)' /\ pc'[u] = label
<1>1. script # <<>>
  BY DEF Ahead
<1>2. todo'[u] = script /\ pc'[u] = label
  BY <1>1, RunMoves
<1> QED
  BY <1>2 DEF Due, Ahead

(***************************************************************************)
(* The steps of an undisturbed server.                                     *)
(***************************************************************************)
ClientStep == \E t \in ClientTargets : ClientSend(t)

MainLoops ==
  \/ MainLoop \/ MainSigwait \/ MainTimer \/ MainNotify \/ MainReceive
  \/ MainReceiveEmpty \/ MainTick \/ MainStartup
  \/ HbReceive \/ HbReceiveEmpty \/ HbCheck \/ HbJudge \/ HbRaise

MainCalls == CallStop \/ CallSetError \/ CallAlarm \/ CallUnlink \/ CallJoin \/ CallExit

\* Main makes a call, or is not about to make one.
LEMMA MainStepCases ==
  ASSUME TypeOK, MainStep, ~Die
  PROVE  /\ \A t \in Task : pc'[t] = pc[t] /\ todo'[t] = todo[t]
         /\ \/ pc["main"] \in Calling /\ Performs("main")
            \/ pc["main"] \notin Calling
         /\ \/ CommonCall("main") /\ UNCHANGED mainVars
            \/ MainCalls /\ NextCall("main").call \notin {"mq_send", "pthread_kill", "mq_notify"}
            \/ MainLoops /\ pc["main"] \notin Calling
<1>1. \A t \in Task : t \in Thread /\ t # "main"
  BY MainInThread, TaskAssumption
<1>2. CASE CommonCall("main") /\ UNCHANGED mainVars
  BY <1>1, <1>2, MainInThread, CallPerforms, PerformsKeeps
<1>3. CASE MainCalls
  <2>1. /\ pc["main"] \in Calling /\ todo["main"] # <<>> /\ Return("main")
        /\ NextCall("main").call \notin {"mq_send", "pthread_kill", "mq_notify"}
    BY <1>3 DEF MainCalls, MainCall, CallStop, CallSetError, CallAlarm, CallUnlink, CallJoin, CallExit
  <2> QED
    BY <1>1, <1>3, <2>1, MainInThread, ReturnPerforms, PerformsKeeps
<1>4. CASE MainLoops
  <2>1. pc["main"] \notin Calling
    BY <1>4 DEF MainLoops, MainLoop, MainSigwait, MainTimer, MainNotify, MainReceive,
                MainReceiveEmpty, MainTick, MainStartup, HbReceive, HbReceiveEmpty, HbCheck, HbJudge,
                HbRaise, Calling, Continue
  <2>2. \/ \E label : Goto("main", label) /\ UNCHANGED todo
        \/ \E label : \E script : Run("main", label, script)
    <3>1. CASE MainLoop \/ MainSigwait \/ MainTimer \/ MainNotify
      BY <3>1 DEF MainLoop, MainSigwait, MainTimer, MainNotify
    <3>2. CASE MainReceive \/ MainReceiveEmpty \/ MainStartup
      BY <3>2 DEF MainReceive, MainReceiveEmpty, MainStartup
    <3>3. CASE MainTick
      BY <3>3 DEF MainTick
    <3>4. CASE HbReceive \/ HbReceiveEmpty \/ HbCheck
      BY <3>4 DEF HbReceive, HbReceiveEmpty, HbCheck
    <3>5. CASE HbJudge \/ HbRaise
      BY <3>5 DEF HbJudge, HbRaise
    <3> QED
      BY <1>4, <3>1, <3>2, <3>3, <3>4, <3>5 DEF MainLoops
  <2> QED
    BY <1>1, <1>4, <2>1, <2>2, MainInThread, RunMoves, GotoMoves
<1> QED
  BY <1>2, <1>3, <1>4 DEF MainStep, MainCalls, MainLoops

\* A task makes a call, or is not about to make one.
LEMMA TaskStepCases ==
  ASSUME TypeOK, NEW u \in Task, TaskStep(u), ~Die
  PROVE  /\ \A v \in Thread : v # u => pc'[v] = pc[v] /\ todo'[v] = todo[v]
         /\ \/ pc[u] \in Calling /\ Performs(u) /\ CommonCall(u)
            \/ pc[u] \notin Calling
<1>1. u \in Thread
  BY MainInThread
<1>2. CASE CommonCall(u)
  BY <1>1, <1>2, CallPerforms, PerformsKeeps
<1>3. CASE TaskLoop(u) \/ TaskSigwait(u) \/ TaskNotify(u) \/ TaskReceive(u) \/ TaskReceiveEmpty(u)
  <2>1. pc[u] \notin Calling
    BY <1>3 DEF TaskLoop, TaskSigwait, TaskNotify, TaskReceive, TaskReceiveEmpty, Calling, Continue
  <2>2. \/ \E label : Goto(u, label) /\ UNCHANGED todo
        \/ \E label : \E script : Run(u, label, script)
    BY <1>3 DEF TaskLoop, TaskSigwait, TaskNotify, TaskReceive, TaskReceiveEmpty
  <2> QED
    BY <1>1, <2>1, <2>2, RunMoves, GotoMoves
<1> QED
  BY <1>2, <1>3 DEF TaskStep

\* A call that is due stays so until its thread makes it.
LEMMA DueLasts ==
  ASSUME TypeOK, ServerStep \/ ClientStep, ~Die, NEW u \in Thread, NEW c, Due(u, c),
         c.call \in {"mq_send", "pthread_kill", "mq_notify"}
  PROVE  Due(u, c)' \/ (NextCall(u) = c /\ CommonCall(u))
<1>1. pc[u] \in Calling
  BY DEF Due
<1>2. CASE ClientStep
  <2>1. pc' = pc /\ todo' = todo
    BY <1>2 DEF ClientStep, ClientSend, taskVars
  <2> QED
    BY <2>1, StillDue
<1>3. CASE MainStep
  <2>1. CASE u = "main"
    <3>1. Performs("main")
      BY <1>1, <1>3, <2>1, MainStepCases
    <3>2. NextCall("main") = c => CommonCall("main")
      BY <1>1, <1>3, <2>1, MainStepCases
    <3> QED
      BY <1>1, <2>1, <3>1, <3>2, PerformsKeeps
  <2>2. CASE u # "main"
    <3>1. u \in Task
      BY <2>2 DEF Thread
    <3> QED
      BY <1>3, <3>1, MainStepCases, StillDue
  <2> QED
    BY <2>1, <2>2
<1>4. ASSUME NEW t \in Task, ServerTask(t)
      PROVE  Due(u, c)' \/ (NextCall(u) = c /\ CommonCall(u))
  <2>1. TaskStep(t)
    BY <1>4 DEF ServerTask
  <2>2. CASE u = t
    <3>1. Performs(u) /\ CommonCall(u)
      BY <1>1, <2>1, <2>2, TaskStepCases
    <3> QED
      BY <1>1, <3>1, PerformsKeeps
  <2>3. CASE u # t
    BY <2>1, <2>3, TaskStepCases, StillDue
  <2> QED
    BY <2>2, <2>3
<1> QED
  BY <1>2, <1>3, <1>4 DEF ServerStep

\* What a thread does when it makes the call c.
LEMMA Made ==
  ASSUME NEW u, NEW c, NextCall(u) = c, CommonCall(u)
  PROVE  /\ c.call = "mq_send" => mq_send(c.to, c.msg)
         /\ c.call = "pthread_kill" => pthread_kill(c.to)
         /\ c.call = "mq_notify" => mq_notify(u)
BY DEF CommonCall, CallSend, CallKill, CallNotify, CallMayDie, CallI2C, CallOpenLog, CallWriteLog

(***************************************************************************)
(* A heartbeat on its way stays on its way, except at the verdict.         *)
(***************************************************************************)
\* A message sent to a thread is in its queue, behind those that were there.
LEMMA SentArrives ==
  ASSUME TypeOK, NEW to \in Thread, NEW m \in Message, mq_send(to, m)
  PROVE  /\ queue[to] \in Seq(Message) /\ queue'[to] = Append(queue[to], m)
         /\ Len(queue[to]) \in Nat /\ Len(queue'[to]) = Len(queue[to]) + 1
         /\ \A i \in 1..Len(queue[to]) : queue'[to][i] = queue[to][i]
         /\ queue'[to][Len(queue[to]) + 1] = m
         /\ \A t \in Thread : t # to => queue'[t] = queue[t]
<1>1. /\ queue[to] \in Seq(Message) /\ queue'[to] = Append(queue[to], m)
      /\ \A t \in Thread : t # to => queue'[t] = queue[t]
  BY DEF TypeOK, MQTypeOK, mq_send
<1> QED
  BY <1>1, AppendProperties, LenProperties

\* No send removes a request.
LEMMA SendAsks ==
  ASSUME TypeOK, NEW to \in Thread, NEW m \in Message, mq_send(to, m), NEW t \in Task
  PROVE  /\ Asked(t) => Asked(t)'
         /\ to = t /\ m.id = "HEARTBEAT_REQ" => Asked(t)'
<1>1. CASE to = t
  <2>1. /\ Len(queue[t]) \in Nat /\ Len(queue'[t]) = Len(queue[t]) + 1
        /\ \A i \in 1..Len(queue[t]) : queue'[t][i] = queue[t][i]
        /\ queue'[t][Len(queue[t]) + 1] = m
    BY <1>1, SentArrives
  <2>2. ASSUME Asked(t) PROVE Asked(t)'
    <3>1. PICK i \in 1..Len(queue[t]) : queue[t][i].id = "HEARTBEAT_REQ"
      BY <2>2 DEF Asked
    <3>2. i \in 1..Len(queue'[t]) /\ queue'[t][i] = queue[t][i]
      BY <2>1
    <3> QED
      BY <3>1, <3>2 DEF Asked
  <2>3. ASSUME m.id = "HEARTBEAT_REQ" PROVE Asked(t)'
    <3>1. Len(queue[t]) + 1 \in 1..Len(queue'[t])
      BY <2>1
    <3> QED
      BY <2>1, <2>3, <3>1 DEF Asked
  <2> QED
    BY <2>2, <2>3
<1>2. CASE to # t
  <2>1. queue'[t] = queue[t]
    BY <1>2, MainInThread, SentArrives
  <2> QED
    BY <1>2, <2>1 DEF Asked
<1> QED
  BY <1>1, <1>2

\* A heartbeat that is sent is queued.
LEMMA BeatArrives ==
  ASSUME TypeOK, NEW t \in Task, mq_send("main", Msg("HEARTBEAT_RSP", t)),
         Msg("HEARTBEAT_RSP", t) \in Message
  PROVE  HeartbeatQueued(t)'
<1>1. /\ queue["main"] \in Seq(Message)
      /\ queue'["main"] = Append(queue["main"], Msg("HEARTBEAT_RSP", t))
  BY MainInThread, SentArrives
<1>2. /\ Len(queue["main"]) + 1 \in DOMAIN queue'["main"]
      /\ queue'["main"][Len(queue["main"]) + 1] = Msg("HEARTBEAT_RSP", t)
  BY <1>1, AppendProperties, LenProperties
<1> QED
  BY <1>2 DEF HeartbeatQueued

\* What a call of any thread sends is a message for a thread.
LEMMA CallSends ==
  ASSUME TypeOK, NEW u \in Thread, CommonCall(u)
  PROVE  /\ NextCall(u) \in Call /\ NextCall(u).to \in Thread
         /\ NextCall(u).call = "mq_send" =>
              NextCall(u).msg \in Message /\ mq_send(NextCall(u).to, NextCall(u).msg)
         /\ NextCall(u).call # "mq_send" => UNCHANGED queue
<1>1. todo \in [Thread -> Seq(Call)] /\ todo[u] # <<>>
  BY DEF TypeOK, TasksTypeOK, CommonCall
<1>2. NextCall(u).call # "mq_send" => UNCHANGED queue
  BY DEF CommonCall, CallSend, CallKill, CallNotify, CallMayDie, CallI2C, CallOpenLog, CallWriteLog,
         Die, pthread_kill, mq_notify, mqVars
<1> QED
  BY <1>1, <1>2, NextCallType, Made

\* A task that reads its queue answers a request, or leaves it for later.
LEMMA ReceiveAnswers ==
  ASSUME TypeOK, NEW t \in Task, TaskReceive(t), Asked(t)
  PROVE  Asked(t)' \/ Due(t, Beat(t))'
<1> DEFINE q == queue[t]
<1>1. /\ t \in Thread /\ q \in Seq(Message) /\ q # <<>> /\ queue'[t] = Tail(q)
  BY MainInThread DEF TypeOK, MQTypeOK, TaskReceive, mq_receive
<1>2. PICK i \in 1..Len(q) : q[i].id = "HEARTBEAT_REQ"
  BY DEF Asked
<1>3. /\ Len(q) \in Nat /\ Head(q) = q[1] /\ Len(Tail(q)) = Len(q) - 1
      /\ \A j \in 1..Len(Tail(q)) : Tail(q)[j] = q[j + 1]
  BY <1>1, HeadTailProperties, LenProperties
<1>4. CASE i = 1
  <2>1. Ahead(Script(t, Head(q)), Beat(t))
    BY <1>2, <1>3, <1>4, Answers
  <2>2. Run(t, "handle", Script(t, Head(q))) /\ "handle" \in Calling
    BY DEF TaskReceive, Calling, Continue
  <2> QED
    BY <1>1, <2>1, <2>2, NewlyDue
<1>5. CASE i # 1
  <2>1. i - 1 \in 1..Len(Tail(q)) /\ Tail(q)[i - 1] = q[i]
    BY <1>3, <1>5
  <2> QED
    BY <1>1, <1>2, <2>1 DEF Asked
<1> QED
  BY <1>4, <1>5

\* Main's own calls and steps leave the tasks' queues alone.
LEMMA MainLeavesQueues ==
  ASSUME TypeOK, MainCalls \/ MainLoops, NEW t \in Task
  PROVE  queue'[t] = queue[t]
<1>1. t \in Thread /\ t # "main" /\ queue \in [Thread -> Seq(Message)]
  BY MainInThread, TaskAssumption DEF TypeOK, MQTypeOK
<1>2. CASE MainCalls
  BY <1>2 DEF MainCalls, CallStop, CallSetError, CallAlarm, CallUnlink, CallJoin, CallExit, Die,
              pthread_kill, mqVars
<1>3. CASE MainReceive \/ HbReceive
  BY <1>1, <1>3 DEF MainReceive, HbReceive, mq_receive
<1>4. CASE \/ MainLoop \/ MainSigwait \/ MainTimer \/ MainNotify \/ MainReceiveEmpty
           \/ MainTick \/ MainStartup \/ HbReceiveEmpty \/ HbCheck \/ HbJudge
           \/ HbRaise
  BY <1>4 DEF MainLoop, MainSigwait, MainTimer, MainNotify, MainReceiveEmpty, MainTick, MainStartup,
              HbReceiveEmpty, HbCheck, HbJudge, HbRaise, mqVars, sigwait, mq_notify
<1> QED
  BY <1>2, <1>3, <1>4 DEF MainLoops

\* A request stays in the queue until the task reads it and has to answer it.
LEMMA AskedLasts ==
  ASSUME TypeOK, ServerStep \/ ClientStep, ~Die, NEW t \in Task, Asked(t)
  PROVE  Asked(t)' \/ Due(t, Beat(t))'
<1>1. queue'[t] = queue[t] => Asked(t)'
  BY DEF Asked
<1>2. ASSUME NEW u \in Thread, CommonCall(u) PROVE Asked(t)'
  BY <1>1, <1>2, CallSends, SendAsks
<1>3. CASE ClientStep
  <2>1. PICK u \in ClientTargets : ClientSend(u)
    BY <1>3 DEF ClientStep
  <2>2. u \in {"temp", "light", "logger", "main"} /\ u \in Thread
    BY ClientTargetsAssumption, TaskAssumption DEF Thread
  <2>3. ClientCommand[u] \in Message
    BY <2>2 DEF ClientCommand, Message, Msg
  <2> QED
    BY <2>1, <2>2, <2>3, SendAsks DEF ClientSend
<1>4. CASE MainStep
  <2>1. CASE CommonCall("main")
    BY <1>2, <2>1, MainInThread
  <2>2. CASE MainCalls \/ MainLoops
    BY <1>1, <2>2, MainLeavesQueues
  <2> QED
    BY <1>4, <2>1, <2>2, MainStepCases
<1>5. ASSUME NEW u \in Task, ServerTask(u) PROVE Asked(t)' \/ Due(t, Beat(t))'
  <2>1. TaskStep(u) /\ u \in Thread /\ t \in Thread /\ queue \in [Thread -> Seq(Message)]
    BY <1>5, MainInThread DEF ServerTask, TypeOK, MQTypeOK
  <2>2. CASE CommonCall(u)
    BY <1>2, <2>1, <2>2
  <2>3. CASE TaskLoop(u) \/ TaskSigwait(u) \/ TaskNotify(u) \/ TaskReceiveEmpty(u)
    BY <1>1, <2>3 DEF TaskLoop, TaskSigwait, TaskNotify, TaskReceiveEmpty, mqVars, sigwait, mq_notify
  <2>4. CASE TaskReceive(u) /\ u # t
    BY <1>1, <2>1, <2>4 DEF TaskReceive, mq_receive
  <2>5. CASE TaskReceive(u) /\ u = t
    BY <2>5, ReceiveAnswers
  <2> QED
    BY <2>1, <2>2, <2>3, <2>4, <2>5 DEF TaskStep
<1> QED
  BY <1>3, <1>4, <1>5 DEF ServerStep

\* What main has seen or can read it has seen or can read after the step.
LEMMA CountedLasts ==
  ASSUME TypeOK, ServerStep \/ ClientStep, process = "up", pc["main"] # "check",
         NEW t \in Task, Counted(t)
  PROVE  Counted(t)'
<1>1. [Next]_vars
  BY DEF ServerStep, ClientStep, Next
<1> QED
  BY <1>1, NextKeeps DEF Counted, StaysQueued, StaysCounted

\* A heartbeat on its way stays there.
LEMMA ComingLasts ==
  ASSUME TypeOK, ServerStep \/ ClientStep, process = "up", ~Die, pc["main"] # "check",
         NEW t \in Task, Coming(t)
  PROVE  Coming(t)'
<1>1. t \in Thread /\ "main" \in Thread
  BY MainInThread
<1>2. CASE Counted(t)
  BY <1>2, CountedLasts DEF Coming
<1>3. CASE Due(t, Beat(t))
  <2>1. Beat(t).call = "mq_send" /\ Beat(t).to = "main" /\ Beat(t).msg = Msg("HEARTBEAT_RSP", t)
    BY DEF Beat, Send
  <2>2. Due(t, Beat(t))' \/ (NextCall(t) = Beat(t) /\ CommonCall(t))
    BY <1>1, <1>3, <2>1, DueLasts
  <2>3. CASE NextCall(t) = Beat(t) /\ CommonCall(t)
    <3>1. Msg("HEARTBEAT_RSP", t) \in Message /\ mq_send("main", Msg("HEARTBEAT_RSP", t))
      BY <1>1, <2>1, <2>3, CallSends
    <3> QED
      BY <3>1, BeatArrives DEF Coming, Counted
  <2> QED
    BY <2>2, <2>3 DEF Coming
<1>4. CASE Asked(t)
  BY <1>4, AskedLasts DEF Coming
<1>5. CASE Due("main", Ask(t))
  <2>1. Ask(t).call = "mq_send" /\ Ask(t).to = t /\ Ask(t).msg.id = "HEARTBEAT_REQ"
    BY DEF Ask, Send, Msg
  <2>2. Due("main", Ask(t))' \/ (NextCall("main") = Ask(t) /\ CommonCall("main"))
    BY <1>1, <1>5, <2>1, DueLasts
  <2>3. CASE NextCall("main") = Ask(t) /\ CommonCall("main")
    <3>1. Ask(t).msg \in Message /\ mq_send(t, Ask(t).msg)
      BY <1>1, <2>1, <2>3, CallSends
    <3> QED
      BY <1>1, <2>1, <3>1, SendAsks DEF Coming
  <2> QED
    BY <2>2, <2>3 DEF Coming
<1> QED
  BY <1>2, <1>3, <1>4, <1>5 DEF Coming

(***************************************************************************)
(* A task that has been woken once keeps watching its queue.               *)
(***************************************************************************)
\* Only a task's own sigwait takes away what wakes it.
LEMMA StepKeeps ==
  ASSUME TypeOK, ServerStep \/ ClientStep, ~Die, NEW t \in Task, ~TaskSigwait(t)
  PROVE  Kept(t)
<1>1. MQTypeOK /\ "main" \in Thread /\ t \in Thread /\ t # "main"
  BY MainInThread, TaskAssumption DEF TypeOK
<1>2. ASSUME NEW u \in Thread, CommonCall(u) PROVE Kept(t)
  <2>1. NextCall(u).to \in Thread /\ (NextCall(u).call = "mq_send" => NextCall(u).msg \in Message)
    BY <1>2, CallSends
  <2>2. CASE CallSend(u)
    BY <1>1, <2>1, <2>2, SendKeeps DEF CallSend
  <2>3. CASE CallKill(u) \/ CallNotify(u)
    BY <1>1, <2>1, <2>3, KernelKeeps DEF CallKill, CallNotify
  <2>4. CASE CallMayDie(u) \/ CallI2C(u) \/ CallOpenLog(u) \/ CallWriteLog(u)
    <3>1. UNCHANGED mqVars
      BY <2>4 DEF CallMayDie, CallI2C, CallOpenLog, CallWriteLog
    <3> QED
      BY <1>1, <3>1, KernelKeeps
  <2> QED
    BY <1>2, <2>2, <2>3, <2>4 DEF CommonCall
<1>3. CASE ClientStep
  <2>1. PICK u \in ClientTargets : ClientSend(u)
    BY <1>3 DEF ClientStep
  <2>2. u \in {"temp", "light", "logger", "main"} /\ u \in Thread
    BY ClientTargetsAssumption, TaskAssumption DEF Thread
  <2>3. ClientCommand[u] \in Message
    BY <2>2 DEF ClientCommand, Message, Msg
  <2> QED
    BY <1>1, <2>1, <2>2, <2>3, SendKeeps DEF ClientSend
<1>4. CASE MainStep
  <2>1. CASE CommonCall("main")
    BY <1>1, <1>2, <2>1
  <2>2. CASE CallStop
    <3>1. Target \in Thread /\ pthread_kill(Target)
      <4>1. todo \in [Thread -> Seq(Call)] /\ todo["main"] # <<>>
        BY <2>2 DEF TypeOK, TasksTypeOK, CallStop, MainCall
      <4> QED
        BY <1>1, <2>2, <4>1, NextCallType DEF Target, CallStop
    <3> QED
      BY <1>1, <3>1, KernelKeeps
  <2>3. CASE CallSetError \/ CallAlarm \/ CallUnlink \/ CallJoin \/ CallExit
    <3>1. CASE CallUnlink
      BY <1>1, <3>1 DEF CallUnlink, MQTypeOK, Kept, Listening, Watching
    <3>2. CASE ~CallUnlink
      <4>1. UNCHANGED mqVars
        BY <2>3, <3>2 DEF CallSetError, CallAlarm, CallJoin, CallExit
      <4> QED
        BY <1>1, <4>1, KernelKeeps
    <3> QED
      BY <3>1, <3>2
  <2>4. CASE MainReceive \/ HbReceive
    BY <1>1, <2>4, ReceiveKeeps DEF MainReceive, HbReceive
  <2>5. CASE MainSigwait \/ MainNotify \/ MainTick
    BY <1>1, <2>5, KernelKeeps DEF MainSigwait, MainNotify, MainTick
  <2>6. CASE MainLoop \/ MainTimer \/ MainReceiveEmpty \/ MainStartup \/ HbReceiveEmpty \/ HbCheck
    <3>1. UNCHANGED mqVars
      BY <2>6 DEF MainLoop, MainTimer, MainReceiveEmpty, MainStartup, HbReceiveEmpty, HbCheck
    <3> QED
      BY <1>1, <3>1, KernelKeeps
  <2>7. CASE HbJudge \/ HbRaise
    <3>1. UNCHANGED mqVars \/ (pending' = Raised("main") /\ UNCHANGED <<queue, registered>>)
      BY <2>7 DEF HbJudge, HbRaise, mqVars
    <3> QED
      BY <1>1, <3>1, KernelKeeps
  <2> QED
    BY <1>4, <2>1, <2>2, <2>3, <2>4, <2>5, <2>6, <2>7 DEF MainStep
<1>5. ASSUME NEW u \in Task, ServerTask(u) PROVE Kept(t)
  <2>1. TaskStep(u) /\ u \in Thread
    BY <1>5, MainInThread DEF ServerTask
  <2>2. CASE CommonCall(u)
    BY <1>2, <2>1, <2>2
  <2>3. CASE TaskLoop(u) \/ TaskReceiveEmpty(u)
    BY <1>1, <2>1, <2>3, KernelKeeps DEF TaskLoop, TaskReceiveEmpty
  <2>4. CASE TaskSigwait(u) \/ TaskNotify(u)
    <3>1. mq_notify(u) \/ (sigwait(u) /\ t # u)
      BY <2>4 DEF TaskSigwait, TaskNotify
    <3> QED
      BY <1>1, <2>1, <3>1, KernelKeeps
  <2>5. CASE TaskReceive(u)
    BY <1>1, <2>1, <2>5, ReceiveKeeps DEF TaskReceive
  <2> QED
    BY <2>1, <2>2, <2>3, <2>4, <2>5 DEF TaskStep
<1> QED
  BY <1>3, <1>4, <1>5 DEF ServerStep

\* Nobody goes back to its setup.
LEMMA NoSetup ==
  ASSUME TypeOK, ServerStep \/ ClientStep, ~Die, NEW t \in Task, pc[t] # "setup"
  PROVE  pc'[t] # "setup"
<1>1. t \in Thread /\ t # "main"
  BY MainInThread, TaskAssumption
<1>2. CASE ClientStep
  BY <1>2 DEF ClientStep, ClientSend, taskVars
<1>3. CASE MainStep
  BY <1>3, MainStepCases
<1>4. ASSUME NEW u \in Task, ServerTask(u) PROVE pc'[t] # "setup"
  <2>1. TaskStep(u)
    BY <1>4 DEF ServerTask
  <2>2. CASE u # t
    BY <1>1, <2>1, <2>2, TaskStepCases
  <2>3. CASE CommonCall(t)
    <3>1. \E label \in {pc[t], ErrnoOverwritten(pc[t])} : pc'[t] \in {label, Continue[label]}
      BY <1>1, <2>3, CallPerforms, PerformsKeeps
    <3>2. pc[t] \in Calling
      BY <2>3 DEF CommonCall
    <3> QED
      BY <3>1, <3>2 DEF Calling, Continue, ErrnoOverwritten
  <2>4. CASE TaskLoop(t) \/ TaskSigwait(t) \/ TaskNotify(t) \/ TaskReceive(t) \/ TaskReceiveEmpty(t)
    <3>1. \/ \E label \in {"sigwait", "notify", "receive"} : Goto(t, label) /\ UNCHANGED todo
          \/ \E label \in {"teardown", "handle", "again"} : \E script : Run(t, label, script)
      BY <2>4 DEF TaskLoop, TaskSigwait, TaskNotify, TaskReceive, TaskReceiveEmpty
    <3>2. \/ pc'[t] \in {"sigwait", "notify", "receive"}
          \/ \E label \in {"teardown", "handle", "again"} : pc'[t] \in {label, Continue[label]}
      BY <1>1, <3>1, RunMoves, GotoMoves
    <3> QED
      BY <3>2 DEF Continue
  <2> QED
    BY <2>1, <2>2, <2>3, <2>4 DEF TaskStep
<1> QED
  BY <1>2, <1>3, <1>4 DEF ServerStep

\* A task that does not sleep on messages will not, once its setup is over.
LEMMA RestLasts ==
  ASSUME TypeOK, WakeupInv, ServerStep \/ ClientStep, ~Die, NEW t \in Task,
         pc[t] # "setup", Rested(t)
  PROVE  Rested(t)'
<1> SUFFICES ASSUME pc'[t] \in {"loop", "sigwait", "round"} PROVE Watching(t)'
  BY DEF Rested
<1>1. t \in Thread /\ t # "main" /\ Awake(t)
  BY MainInThread, TaskAssumption, AwakeAll
<1>2. pc[t] \in {"loop", "sigwait", "round", "again"} => Watching(t)
  BY <1>1 DEF Awake, Rested
<1>3. ~TaskSigwait(t)
  <2>1. SUFFICES ASSUME TaskSigwait(t) PROVE pc'[t] = "notify"
    OBVIOUS
  <2> QED
    BY <1>1, <2>1, GotoMoves DEF TaskSigwait
<1>4. Kept(t)
  BY <1>3, StepKeeps
<1>5. CASE pc'[t] = pc[t]
  BY <1>2, <1>4, <1>5 DEF Kept
<1>6. CASE CommonCall(t)
  <2>1. \E label \in {pc[t], ErrnoOverwritten(pc[t])} : pc'[t] \in {label, Continue[label]}
    BY <1>1, <1>6, CallPerforms, PerformsKeeps
  <2>2. pc[t] \in Calling
    BY <1>6 DEF CommonCall
  <2>3. pc[t] \in {"again", "round"}
    BY <2>1, <2>2 DEF Calling, Continue, ErrnoOverwritten
  <2> QED
    BY <1>2, <1>4, <2>3 DEF Kept
<1>7. CASE TaskLoop(t)
  BY <1>2, <1>4, <1>7 DEF TaskLoop, Kept
<1>8. CASE TaskNotify(t)
  <2>1. pc'[t] = "receive"
    BY <1>1, <1>8, GotoMoves DEF TaskNotify
  <2> QED
    BY <2>1
<1>9. CASE TaskReceive(t)
  <2>1. PICK script : Run(t, "handle", script)
    BY <1>9 DEF TaskReceive
  <2>2. pc'[t] \in {"handle", Continue["handle"]}
    BY <1>1, <2>1, RunMoves
  <2> QED
    BY <2>2 DEF Continue
<1>10. CASE TaskReceiveEmpty(t)
  <2>1. queue[t] = <<>> /\ Listening(t)
    BY <1>1, <1>10 DEF TaskReceiveEmpty, Awake
  <2> QED
    BY <1>4, <2>1 DEF Listening, Watching, Kept
<1>11. pc'[t] = pc[t] \/ TaskStep(t)
  <2>1. CASE ClientStep
    BY <2>1 DEF ClientStep, ClientSend, taskVars
  <2>2. CASE MainStep
    BY <2>2, MainStepCases
  <2>3. ASSUME NEW u \in Task, ServerTask(u) PROVE pc'[t] = pc[t] \/ TaskStep(t)
    BY <1>1, <2>3, TaskStepCases DEF ServerTask
  <2> QED
    BY <2>1, <2>2, <2>3 DEF ServerStep
<1> QED
  BY <1>3, <1>5, <1>6, <1>7, <1>8, <1>9, <1>10, <1>11 DEF TaskStep

\* Main's kick makes up for a wake-up that was never raised.
LEMMA KickedLasts ==
  ASSUME TypeOK, WakeupInv, ServerStep \/ ClientStep, ~Die, NEW t \in Task,
         pc[t] # "setup", Kicked(t)
  PROVE  Kicked(t)'
<1> DEFINE c == Do("pthread_kill", t)
<1>1. CASE Rested(t)
  BY <1>1, RestLasts DEF Kicked
<1>2. CASE Due("main", c)
  <2>1. c.call = "pthread_kill" /\ c.to = t /\ t \in Thread /\ "main" \in Thread
    BY MainInThread DEF Do
  <2> HIDE DEF c
  <2>2. Due("main", c)' \/ (NextCall("main") = c /\ CommonCall("main"))
    BY <1>2, <2>1, DueLasts
  <2>3. CASE NextCall("main") = c /\ CommonCall("main")
    <3>1. pthread_kill(t)
      BY <2>1, <2>3, Made
    <3>2. pending'[t] > 0
      BY <2>1, <3>1, RaisedType DEF pthread_kill, TypeOK, MQTypeOK
    <3> QED
      BY <3>2 DEF Kicked, Rested, Watching
  <2> QED
    BY <2>2, <2>3 DEF Kicked, c
<1> QED
  BY <1>1, <1>2 DEF Kicked

(***************************************************************************)
(* The light thread, which main does not kick.                             *)
(***************************************************************************)
\* Before the first round nothing is sent to the light queue, so that a
\* registration made then holds.
LEMMA LightLeftAlone ==
  ASSUME TypeOK, AllPermitted, MainPlace, "light" \notin ClientTargets, "light" \in Task,
         ServerStep \/ ClientStep, ~Die, Early, queue["light"] = <<>>
  PROVE  queue'["light"] = <<>> /\ (registered["light"] => registered'["light"])
<1>1. /\ "light" \in Thread /\ queue \in [Thread -> Seq(Message)] /\ registered \in [Thread -> BOOLEAN]
      /\ "main" \in Thread
  BY MainInThread DEF TypeOK, MQTypeOK
<1> DEFINE Alone == queue'["light"] = <<>> /\ (registered["light"] => registered'["light"])
<1>2. \A to \in Thread : \A m : mq_send(to, m) /\ to # "light" => Alone
  BY <1>1 DEF mq_send
<1>3. \A u \in Thread :
        \/ pthread_kill(u) \/ mq_notify(u) \/ sigwait(u) \/ UNCHANGED mqVars
        \/ mq_receive(u) \/ UNCHANGED <<queue, registered>>
        => Alone
  BY <1>1 DEF pthread_kill, mq_notify, sigwait, mqVars, mq_receive
<1>4. ASSUME NEW u \in Thread, CommonCall(u) PROVE Alone
  <2>1. CASE CallSend(u)
    <3>1. NextCall(u) \in Permitted(u, pc[u]) /\ NextCall(u).call = "mq_send"
      BY <1>4, <2>1, RestPermitted DEF CommonCall, CallSend
    <3>2. NextCall(u).to # "light"
      BY <3>1 DEF Permitted, MainPlace, Early
    <3>3. NextCall(u).to \in Thread
      BY <1>4, CallSends
    <3> QED
      BY <1>2, <2>1, <3>2, <3>3 DEF CallSend
  <2>2. CASE CallKill(u)
    <3>1. NextCall(u).to \in Thread
      BY <1>4, CallSends
    <3> QED
      BY <1>3, <2>2, <3>1 DEF CallKill
  <2>3. CASE CallNotify(u) \/ CallMayDie(u) \/ CallI2C(u) \/ CallOpenLog(u) \/ CallWriteLog(u)
    <3>1. mq_notify(u) \/ UNCHANGED mqVars
      BY <2>3 DEF CallNotify, CallMayDie, CallI2C, CallOpenLog, CallWriteLog
    <3> QED
      BY <1>3, <1>4, <3>1
  <2> QED
    BY <1>4, <2>1, <2>2, <2>3 DEF CommonCall
<1>5. CASE ClientStep
  <2>1. PICK u \in ClientTargets : ClientSend(u)
    BY <1>5 DEF ClientStep
  <2>2. u \in Thread /\ u # "light"
    BY ClientTargetsAssumption
  <2> QED
    BY <1>2, <2>1, <2>2 DEF ClientSend
<1>6. CASE MainStep
  <2>1. CASE CommonCall("main")
    BY <1>1, <1>4, <2>1
  <2>2. CASE MainCalls
    <3>1. queue' = queue /\ registered'["light"] = registered["light"]
      BY <1>1, <2>2 DEF MainCalls, CallStop, CallSetError, CallAlarm, CallUnlink, CallJoin, CallExit,
                  pthread_kill, mqVars
    <3> QED
      BY <1>1, <1>3, <3>1
  <2>3. CASE MainLoops
    <3>1. CASE MainLoop \/ MainTimer \/ MainReceiveEmpty \/ MainStartup \/ HbReceiveEmpty \/ HbCheck
      <4>1. UNCHANGED mqVars
        BY <3>1 DEF MainLoop, MainTimer, MainReceiveEmpty, MainStartup, HbReceiveEmpty, HbCheck
      <4> QED
        BY <1>1, <1>3, <4>1
    <3>2. CASE MainSigwait \/ MainNotify \/ MainTick \/ MainReceive \/ HbReceive
      <4>1. sigwait("main") \/ mq_notify("main") \/ mq_receive("main")
        BY <3>2 DEF MainSigwait, MainNotify, MainTick, MainReceive, HbReceive
      <4> QED
        BY <1>1, <1>3, <4>1
    <3>3. CASE HbJudge \/ HbRaise
      <4>1. UNCHANGED <<queue, registered>>
        BY <3>3 DEF HbJudge, HbRaise, mqVars
      <4> QED
        BY <1>1, <1>3, <4>1
    <3> QED
      BY <2>3, <3>1, <3>2, <3>3 DEF MainLoops
  <2> QED
    BY <1>6, <2>1, <2>2, <2>3, MainStepCases
<1>7. ASSUME NEW u \in Task, ServerTask(u) PROVE Alone
  <2>1. TaskStep(u) /\ u \in Thread
    BY <1>7, MainInThread DEF ServerTask
  <2>2. CASE CommonCall(u)
    BY <1>4, <2>1, <2>2
  <2>3. CASE TaskLoop(u) \/ TaskSigwait(u) \/ TaskNotify(u) \/ TaskReceive(u) \/ TaskReceiveEmpty(u)
    <3>1. UNCHANGED mqVars \/ sigwait(u) \/ mq_notify(u) \/ mq_receive(u)
      BY <2>3 DEF TaskLoop, TaskSigwait, TaskNotify, TaskReceive, TaskReceiveEmpty
    <3> QED
      BY <1>3, <2>1, <3>1
  <2> QED
    BY <2>1, <2>2, <2>3 DEF TaskStep
<1> QED
  BY <1>5, <1>6, <1>7 DEF ServerStep

\* So the light thread enters its loop registered on an empty queue.
LEMMA LightReadyLasts ==
  ASSUME TypeOK, WakeupInv, AllPermitted, BeatInv, "light" \notin ClientTargets,
         ServerStep \/ ClientStep, ~Die, Early' => Early, Live' => Live
  PROVE  LightReady'
<1> SUFFICES ASSUME "light" \in Task, Live PROVE LightReady'
  BY DEF LightReady
<1> DEFINE notify == Do("mq_notify", "light")
<1>1. /\ "light" \in Thread /\ MainPlace
      /\ Early => queue["light"] = <<>>
      /\ pc["light"] = "setup" => registered["light"] \/ Due("light", notify)
      /\ Rested("light")
  BY MainInThread DEF BeatInv, LightReady
<1>2. pc["light"] = "setup" => Early
  BY DEF BeatInv, InRounds, Live
<1>3. Early =>
        queue'["light"] = <<>> /\ (registered["light"] => registered'["light"])
  BY <1>1, LightLeftAlone
<1>4. pc["light"] = "setup" => registered'["light"] \/ Due("light", notify)'
  <2>1. SUFFICES ASSUME pc["light"] = "setup", ~registered["light"]
                 PROVE  registered'["light"] \/ Due("light", notify)'
    BY <1>2, <1>3
  <2>2. notify.call = "mq_notify" /\ Due("light", notify)
    BY <1>1, <2>1 DEF Do
  <2> HIDE DEF notify
  <2>3. Due("light", notify)' \/ (NextCall("light") = notify /\ CommonCall("light"))
    BY <1>1, <2>2, DueLasts
  <2>4. CASE NextCall("light") = notify /\ CommonCall("light")
    <3>1. mq_notify("light")
      BY <2>2, <2>4, Made
    <3> QED
      BY <1>1, <3>1 DEF mq_notify, TypeOK, MQTypeOK
  <2> QED
    BY <2>3, <2>4
<1>5. Rested("light")'
  <2>1. CASE pc["light"] # "setup"
    BY <1>1, <2>1, RestLasts
  <2>2. CASE pc["light"] = "setup"
    <3>1. SUFFICES ASSUME pc'["light"] \in {"loop", "sigwait", "round"} PROVE Watching("light")'
      BY DEF Rested
    <3>2. ~Due("light", notify)'
      <4>1. SUFFICES ASSUME Due("light", notify)', pc'["light"] = "round" PROVE FALSE
        BY <3>1 DEF Due, Calling, Continue
      <4>2. pc'["light"] \in {"setup", "loop"}
        <5>1. pc'["light"] # pc["light"]
          BY <2>2, <4>1
        <5>2. CommonCall("light")
          <6>1. CASE ClientStep
            BY <5>1, <6>1 DEF ClientStep, ClientSend, taskVars
          <6>2. CASE MainStep
            BY <5>1, <6>2, MainStepCases
          <6>3. ASSUME NEW u \in Task, ServerTask(u) PROVE CommonCall("light")
            <7>1. TaskStep(u)
              BY <6>3 DEF ServerTask
            <7>2. u = "light"
              BY <1>1, <5>1, <7>1, TaskStepCases
            <7> QED
              BY <2>2, <7>1, <7>2, TaskStepCases DEF Calling, Continue
          <6> QED
            BY <6>1, <6>2, <6>3 DEF ServerStep
        <5>3. \E label \in {pc["light"], ErrnoOverwritten(pc["light"])} :
                pc'["light"] \in {label, Continue[label]}
          BY <1>1, <5>2, CallPerforms, PerformsKeeps
        <5> QED
          BY <2>2, <5>3 DEF Continue, ErrnoOverwritten
      <4> QED
        BY <4>1, <4>2
    <3> QED
      BY <1>2, <1>3, <1>4, <1>1, <2>2, <3>2 DEF Watching
  <2> QED
    BY <2>1, <2>2
<1>6. Early' => queue'["light"] = <<>>
  BY <1>3
<1>7. pc'["light"] = "setup" => registered'["light"] \/ Due("light", notify)'
  BY <1>4, NoSetup
<1> QED
  BY <1>5, <1>6, <1>7 DEF LightReady

(***************************************************************************)
(* Main's steps, one by one.  Each says where main goes and how far the    *)
(* heartbeats of all tasks have come by then.                              *)
(***************************************************************************)
\* What BeatInv says of main's place and of the heartbeats.
Place ==
  /\ MainPlace
  /\ SetupOver
  /\ \A t \in Task : Read(t)
  /\ main_state = "REQ_RSP" => \A t \in Task : OnTime(t)

\* The step leaves main's state alone, and enters the first round only from it.
Stays == main_state' = main_state /\ (pc'["main"] = "startup" => main_state = "STARTUP")

\* A call of main's.
LEMMA PlaceCall ==
  ASSUME TypeOK, BeatInv, MainStep, process = "up", ~Die, pc["main"] \in Calling,
         UNCHANGED <<main_state, hbt_rsp>>
  PROVE  Place' /\ Stays
<1>0. ServerStep
  BY DEF ServerStep
<1>1. \E label \in {pc["main"], ErrnoOverwritten(pc["main"])} : pc'["main"] \in {label, Continue[label]}
  BY MainInThread, MainStepCases, PerformsKeeps
<1>2. pc["main"] \in {"setup", "handle", "again", "hb_handle", "hb_again", "round", "teardown"}
  BY DEF BeatInv, MainPlace, Calling, Continue
<1>3. \/ pc["main"] = "setup" /\ pc'["main"] \in {"setup", "loop"}
      \/ pc["main"] \in {"handle", "again"} /\ pc'["main"] \in {"handle", "again", "loop", "receive"}
      \/ pc["main"] = "round" /\ pc'["main"] \in {"round", "loop"}
      \/ pc["main"] = "hb_handle" /\ pc'["main"] \in {"hb_handle", "hb_receive"}
      \/ pc["main"] = "hb_again" /\ pc'["main"] \in {"hb_handle", "hb_receive", "hb_again", "check"}
      \/ pc["main"] = "teardown" /\ pc'["main"] \in {"teardown", "ended"}
  BY <1>1, <1>2 DEF Continue, ErrnoOverwritten
<1>4. MainPlace' /\ SetupOver' /\ Stays
  BY <1>3 DEF BeatInv, MainPlace, SetupOver, Stays
<1>5. ASSUME NEW t \in Task
      PROVE  Read(t)' /\ (main_state = "REQ_RSP" => OnTime(t)')
  <2>1. Read(t) /\ (main_state = "REQ_RSP" => OnTime(t) /\ pc["main"] \notin {"setup", "teardown"})
    BY <1>5 DEF BeatInv, InRounds, MainPlace
  <2>2. (Coming(t) => Coming(t)') /\ (Counted(t) => Counted(t)') /\ (hbt_rsp[t] => hbt_rsp'[t])
    BY <1>0, <1>2, ComingLasts, CountedLasts
  <2>3. hbt_rsp'[t] => Counted(t)'
    BY DEF Counted
  <2> QED
    BY <1>3, <2>1, <2>2, <2>3 DEF OnTime, Between, Read
<1> QED
  BY <1>4, <1>5 DEF Place

\* Main's loop and its drain, up to the next sigwait, or to the exit path.
LEMMA PlaceLoop ==
  ASSUME TypeOK, BeatInv, process = "up", ~Die,
         MainLoop \/ MainSigwait \/ MainNotify \/ MainReceive \/ MainReceiveEmpty
  PROVE  Place' /\ Stays
<1>1. pc["main"] \in {"loop", "sigwait", "notify", "receive"} /\ UNCHANGED main_state
  BY DEF MainLoop, MainSigwait, MainNotify, MainReceive, MainReceiveEmpty, mainVars
<1>2. \/ pc'["main"] \in {"sigwait", "notify", "receive", "handle", "again", "loop"}
      \/ pc'["main"] \in {"teardown", "ended"} /\ main_state = "SHUTDOWN"
  <2>1. CASE MainSigwait \/ MainNotify
    <3>1. \E label \in {"notify", "receive"} : Goto("main", label) /\ UNCHANGED todo
      BY <2>1 DEF MainSigwait, MainNotify
    <3> QED
      BY <3>1, MainInThread, GotoMoves
  <2>2. CASE MainReceive \/ MainReceiveEmpty
    <3>1. \E label \in {"handle", "again"} : \E script : Run("main", label, script)
      BY <2>2 DEF MainReceive, MainReceiveEmpty
    <3>2. \E label \in {"handle", "again"} : pc'["main"] \in {label, Continue[label]}
      BY <3>1, MainInThread, RunMoves
    <3> QED
      BY <3>2 DEF Continue
  <2>3. CASE MainLoop
    <3>1. CASE Goto("main", "sigwait") /\ UNCHANGED todo
      BY <3>1, MainInThread, GotoMoves
    <3>2. CASE main_state \in Stopped /\ Run("main", "teardown", MainTeardownScript)
      <4>1. pc'["main"] \in {"teardown", Continue["teardown"]}
        BY <3>2, MainInThread, RunMoves
      <4> QED
        BY <3>2, <4>1 DEF Continue, Stopped, BeatInv, MainPlace
    <3> QED
      BY <2>3, <3>1, <3>2 DEF MainLoop
  <2> QED
    BY <2>1, <2>2, <2>3
<1>3. MainPlace' /\ SetupOver' /\ Stays /\ \A t \in Task : Read(t)'
  BY <1>1, <1>2 DEF BeatInv, MainPlace, SetupOver, Stays, Read
<1>4. ASSUME NEW t \in Task, main_state = "REQ_RSP" PROVE OnTime(t)'
  <2>1. Coming(t)
    BY <1>1, <1>4 DEF BeatInv, InRounds, OnTime, Between
  <2>2. ServerStep
    BY DEF ServerStep, MainStep
  <2>3. Coming(t)'
    BY <1>1, <2>1, <2>2, ComingLasts
  <2> QED
    BY <1>2, <1>4, <2>3 DEF OnTime
<1> QED
  BY <1>1, <1>3, <1>4 DEF Place

\* The timer.  The period was long enough: no task has anything left to do, so
\* a heartbeat that is on its way has arrived.
LEMMA PlaceTimer ==
  ASSUME TypeOK, BeatInv, process = "up", ~Die, HeartbeatPeriod = "covers_round", MainTimer
  PROVE  Place' /\ Stays
<1>1. /\ pc["main"] = "sigwait" /\ UNCHANGED <<mqVars, todo, hbt_rsp, main_state>>
      /\ Goto("main", "tick") /\ Quiescent
  BY DEF MainTimer, PeriodOver
<1>2. /\ pc'["main"] = "tick"
      /\ \A t \in Thread : t # "main" => pc'[t] = pc[t]
  BY <1>1, MainInThread, GotoMoves
<1>3. \A t \in Task : t \in Thread /\ pc[t] = "sigwait" /\ pending[t] = 0 /\ pc'[t] = "sigwait"
  BY <1>1, <1>2, MainInThread, TaskAssumption DEF Quiescent
<1>4. MainPlace' /\ SetupOver' /\ Stays /\ \A t \in Task : Read(t)'
  BY <1>1, <1>2, <1>3 DEF BeatInv, MainPlace, SetupOver, Stays, Read
<1>5. ASSUME NEW t \in Task, main_state = "REQ_RSP" PROVE OnTime(t)'
  <2>1. Coming(t) /\ Kicked(t)
    BY <1>1, <1>5 DEF BeatInv, InRounds, OnTime, Between
  <2>2. \A u, c : pc[u] = "sigwait" => ~Due(u, c)
    BY DEF Due, Calling, Continue
  <2>3. queue[t] = <<>>
    BY <1>1, <1>3, <2>1, <2>2 DEF Kicked, Rested, Watching
  <2>4. ~Asked(t)
    <3>1. Len(<<>>) = 0
      OBVIOUS
    <3> QED
      BY <2>3, <3>1 DEF Asked
  <2>5. Counted(t)
    BY <1>1, <1>3, <2>1, <2>2, <2>4 DEF Coming
  <2>6. Counted(t)'
    BY <1>1, <2>5 DEF Counted, HeartbeatQueued, mqVars
  <2> QED
    BY <1>2, <2>6 DEF OnTime, Between
<1> QED
  BY <1>1, <1>4, <1>5 DEF Place

\* The SIGALRM branch, and the drain of processHeartbeats while it reads.
LEMMA PlaceDrain ==
  ASSUME TypeOK, BeatInv, process = "up", ~Die, MainTick \/ HbReceive
  PROVE  Place' /\ Stays
<1>1. pc["main"] \in {"tick", "hb_receive"} /\ UNCHANGED main_state /\ ServerStep
  BY DEF MainTick, HbReceive, ServerStep, MainStep
<1>2. /\ \A t \in Task : pc'[t] = pc[t]
      /\ \/ pc'["main"] = "startup" /\ main_state = "STARTUP" /\ pc["main"] = "tick"
         \/ pc'["main"] = "hb_receive" /\ main_state = "REQ_RSP" /\ pc["main"] = "tick"
         \/ pc'["main"] = "round" /\ main_state = "SHUTDOWN"
         \/ /\ pc'["main"] \in {"hb_receive", "hb_handle"} /\ pc["main"] = "hb_receive"
            /\ main_state \notin {"STARTUP", "ERROR"}
  <2>1. \A t \in Task : pc'[t] = pc[t]
    BY <1>1, MainStepCases DEF MainStep
  <2>2. CASE MainTick
    <3>1. \/ Goto("main", "startup") /\ UNCHANGED todo /\ main_state = "STARTUP"
          \/ Goto("main", "hb_receive") /\ UNCHANGED todo /\ main_state = "REQ_RSP"
          \/ Run("main", "round", <<Do("alarm", "main")>>) /\ main_state = "SHUTDOWN"
      BY <2>2 DEF MainTick, BeatInv, MainPlace, Stopped
    <3>2. <<Do("alarm", "main")>> # <<>>
      OBVIOUS
    <3> QED
      BY <2>1, <2>2, <3>1, <3>2, MainInThread, GotoMoves, RunMoves DEF MainTick
  <2>3. CASE HbReceive
    <3>1. /\ Run("main", "hb_handle", HbScript(Head(queue["main"])))
          /\ pc["main"] = "hb_receive"
      BY <2>3 DEF HbReceive
    <3>2. pc'["main"] \in {"hb_handle", Continue["hb_handle"]}
      BY <3>1, MainInThread, RunMoves
    <3> QED
      BY <2>1, <3>1, <3>2 DEF Continue, BeatInv, MainPlace
  <2> QED
    BY <2>1, <2>2, <2>3
<1>3. MainPlace' /\ SetupOver' /\ Stays
  BY <1>1, <1>2 DEF BeatInv, MainPlace, SetupOver, Stays
<1>4. ASSUME NEW t \in Task PROVE Read(t)' /\ (main_state = "REQ_RSP" => OnTime(t)')
  <2>1. pc["main"] = "hb_receive" \/ main_state = "REQ_RSP" => Counted(t)
    BY <1>1, <1>4 DEF BeatInv, InRounds, OnTime, Read
  <2>2. Counted(t) => Counted(t)'
    BY <1>1, CountedLasts
  <2> QED
    BY <1>2, <1>4, <2>1, <2>2 DEF OnTime, Between, Read
<1> QED
  BY <1>1, <1>3, <1>4 DEF Place

\* The drain of processHeartbeats at its end: the queue is empty, so that every
\* heartbeat is in hbt_rsp.
LEMMA PlaceDrained ==
  ASSUME TypeOK, BeatInv, process = "up", ~Die, HbReceiveEmpty
  PROVE  Place' /\ Stays
<1>1. /\ pc["main"] = "hb_receive" /\ queue["main"] = <<>> /\ UNCHANGED main_state
      /\ hbt_rsp' = Heard(hb_buffer) /\ Run("main", "hb_again", HbScript(hb_buffer))
  BY DEF HbReceiveEmpty
<1>2. pc'["main"] \in {"hb_again", "check"}
  <2>1. pc'["main"] \in {"hb_again", Continue["hb_again"]}
    BY <1>1, MainInThread, RunMoves
  <2> QED
    BY <2>1 DEF Continue
<1>3. MainPlace' /\ SetupOver' /\ Stays
  BY <1>1, <1>2 DEF BeatInv, MainPlace, SetupOver, Stays
<1>4. ASSUME NEW t \in Task PROVE Read(t)' /\ OnTime(t)'
  <2>1. Counted(t)
    BY <1>1 DEF BeatInv, Read
  <2>2. ~HeartbeatQueued(t)
    BY <1>1 DEF HeartbeatQueued
  <2>3. hbt_rsp'[t]
    BY <1>1, <2>1, <2>2, HeardCounts DEF Counted, StaysCounted
  <2> QED
    BY <1>2, <2>3 DEF OnTime, Between, Read
<1> QED
  BY <1>1, <1>3, <1>4 DEF Place

\* The verdict: nobody is missing.
LEMMA PlaceCheck ==
  ASSUME TypeOK, BeatInv, HbCheck
  PROVE  Place' /\ Stays
<1>1. /\ pc["main"] = "check" /\ UNCHANGED main_state
      /\ Run("main", "verdict",
             MissingReport("temp") \o MissingReport("light") \o MissingReport("logger"))
  BY DEF HbCheck
<1>2. \A t \in Task : hbt_rsp[t]
  BY <1>1 DEF BeatInv, Read
<1>3. \A t : MissingReport(t) = <<>>
  BY <1>2 DEF MissingReport
<1>4. MissingReport("temp") \o MissingReport("light") \o MissingReport("logger") = <<>>
  <2>1. <<>> \o <<>> = <<>>
    OBVIOUS
  <2> QED
    BY <1>3, <2>1
<1>5. Run("main", "verdict", <<>>)
  BY <1>1, <1>4
<1>6. pc'["main"] = "judge"
  BY <1>5, MainInThread, RunMoves DEF Continue
<1> QED
  BY <1>1, <1>6 DEF Place, BeatInv, MainPlace, SetupOver, Stays, Read, OnTime, Between

\* The beginning of a round: every task is about to be asked.
LEMMA PlaceRound ==
  ASSUME TypeOK, BeatInv, HbJudge \/ MainStartup
  PROVE  /\ Place' /\ (HbJudge => Stays)
         /\ MainStartup => \A t \in Task : t # "light" => Due("main", Do("pthread_kill", t))'
<1>1. "main" \in Thread /\ "round" \in Calling
  BY MainInThread DEF Calling, Continue
<1>2. \E script :
        /\ Run("main", "round", script)
        /\ \A t \in Task : Ahead(script, Ask(t))
        /\ MainStartup => \A t \in Task : t # "light" => Ahead(script, Do("pthread_kill", t))
  <2>1. CASE MainStartup
    BY <2>1, StartupAsks DEF MainStartup
  <2>2. CASE HbJudge
    <3>1. Run("main", "round", <<Log>> \o RoundScript) /\ ~MainStartup
      BY <2>2 DEF HbJudge, BeatInv, MainPlace, MainStartup
    <3> QED
      BY <3>1, RoundAsks
  <2> QED
    BY <2>1, <2>2
<1>3. PICK script :
        /\ Run("main", "round", script)
        /\ \A t \in Task : Ahead(script, Ask(t))
        /\ MainStartup => \A t \in Task : t # "light" => Ahead(script, Do("pthread_kill", t))
  BY <1>2
<1>4. \A t \in Task :
        /\ Due("main", Ask(t))' /\ pc'["main"] = "round"
        /\ MainStartup /\ t # "light" => Due("main", Do("pthread_kill", t))'
  BY <1>1, <1>3, NewlyDue
<1>5. pc'["main"] = "round"
  BY <1>4, TaskAssumption
<1>6. \/ main_state' = "REQ_RSP" /\ ~HbJudge
      \/ main_state' = main_state /\ pc["main"] = "judge"
  BY DEF HbJudge, MainStartup, BeatInv, MainPlace, mainVars
<1>7. MainPlace' /\ SetupOver' /\ (HbJudge => Stays)
  BY <1>5, <1>6 DEF BeatInv, MainPlace, SetupOver, Stays
<1>8. \A t \in Task : Read(t)' /\ OnTime(t)'
  BY <1>4, <1>5 DEF Read, OnTime, Coming, Between
<1> QED
  BY <1>4, <1>6, <1>7, <1>8 DEF Place

(***************************************************************************)
(* The invariant, and the theorem.                                         *)
(***************************************************************************)
\* Whatever main does.
LEMMA MainBeat ==
  ASSUME TypeOK, WakeupInv, AllPermitted, BeatInv, Undisturbed, MainStep, process = "up", ~Die,
         process' = "up"
  PROVE  BeatInv'
<1>1. ServerStep
  BY DEF ServerStep
<1>2. CASE MainStartup
  <2>1. Place' /\ \A t \in Task : t # "light" => Due("main", Do("pthread_kill", t))'
    BY <1>2, PlaceRound
  <2>2. main_state' = "REQ_RSP" /\ pc["main"] = "startup"
    BY <1>2 DEF MainStartup
  <2>3. LightReady'
    <3>1. Early /\ Live
      BY <2>2 DEF Early, Live
    <3> QED
      BY <1>1, <3>1, LightReadyLasts DEF Undisturbed
  <2>4. \A t \in Task : pc'[t] # "setup"
    BY <1>1, <2>2, NoSetup DEF BeatInv, SetupOver
  <2>5. \A t \in Task : Kicked(t)'
    BY <2>1, <2>2, <2>3 DEF Kicked, LightReady, Live
  <2> QED
    BY <2>1, <2>3, <2>4, <2>5 DEF BeatInv, Place, InRounds
<1>3. ASSUME Place', Stays PROVE BeatInv'
  <2>0. main_state' = main_state
    BY <1>3 DEF Stays
  <2>1. LightReady'
    <3>1. (Early' => Early) /\ (Live' => Live)
      BY <1>3 DEF Early, Live, Stays
    <3> QED
      BY <1>1, <3>1, LightReadyLasts DEF Undisturbed
  <2>2. ASSUME NEW t \in Task, main_state = "REQ_RSP" PROVE pc'[t] # "setup" /\ Kicked(t)'
    BY <1>1, <2>2, NoSetup, KickedLasts DEF BeatInv, InRounds
  <2> QED
    BY <1>3, <2>0, <2>1, <2>2 DEF BeatInv, Place, InRounds
<1>4. CASE CommonCall("main") /\ UNCHANGED mainVars
  BY <1>3, <1>4, PlaceCall DEF mainVars, CommonCall
<1>5. CASE MainCalls
  <2>1. pc["main"] \in Calling /\ todo["main"] # <<>>
    BY <1>5 DEF MainCalls, CallStop, CallSetError, CallAlarm, CallUnlink, CallJoin, CallExit, MainCall
  <2>2. NextCall("main") \in Permitted("main", pc["main"])
    BY <2>1, MainInThread, RestPermitted
  <2>3. NextCall("main").call # "set_error"
    BY <2>2 DEF Permitted, BeatInv, MainPlace
  <2>4. CallStop \/ CallAlarm \/ CallUnlink \/ CallJoin
    BY <1>5, <2>3 DEF MainCalls, CallSetError, CallExit, MainCall
  <2>5. UNCHANGED <<main_state, hbt_rsp>>
    BY <2>4 DEF CallStop, CallAlarm, CallUnlink, CallJoin, mainVars
  <2> QED
    BY <1>3, <2>1, <2>5, PlaceCall
<1>6. CASE MainLoop \/ MainSigwait \/ MainNotify \/ MainReceive \/ MainReceiveEmpty
  BY <1>3, <1>6, PlaceLoop
<1>7. CASE MainTimer
  BY <1>3, <1>7, PlaceTimer DEF Undisturbed
<1>8. CASE MainTick \/ HbReceive
  BY <1>3, <1>8, PlaceDrain
<1>9. CASE HbReceiveEmpty
  BY <1>3, <1>9, PlaceDrained
<1>10. CASE HbCheck
  BY <1>3, <1>10, PlaceCheck
<1>11. CASE HbJudge
  BY <1>3, <1>11, PlaceRound
<1>12. ~HbRaise
  BY DEF HbRaise, BeatInv, MainPlace
<1> QED
  BY <1>2, <1>4, <1>5, <1>6, <1>7, <1>8, <1>9, <1>10, <1>11, <1>12, MainStepCases DEF MainLoops

\* Whatever a task or a client does: main stands still.
LEMMA OtherBeat ==
  ASSUME TypeOK, WakeupInv, AllPermitted, BeatInv, Undisturbed, process = "up", ~Die,
         ClientStep \/ \E u \in Task : ServerTask(u)
  PROVE  BeatInv'
<1>1. /\ ServerStep \/ ClientStep
      /\ pc'["main"] = pc["main"] /\ UNCHANGED <<main_state, hbt_rsp>>
  <2>1. CASE ClientStep
    BY <2>1 DEF ClientStep, ClientSend, taskVars, mainVars
  <2>2. ASSUME NEW u \in Task, ServerTask(u)
        PROVE  ServerStep /\ pc'["main"] = pc["main"] /\ UNCHANGED <<main_state, hbt_rsp>>
    <3>1. TaskStep(u) /\ u # "main" /\ "main" \in Thread
      BY <2>2, MainInThread, TaskAssumption DEF ServerTask
    <3> QED
      BY <2>2, <3>1, TaskStepCases DEF ServerTask, ServerStep, mainVars
  <2> QED
    BY <2>1, <2>2
<1>2. MainPlace'
  BY <1>1 DEF BeatInv, MainPlace
<1>3. LightReady'
  <2>1. (Early' => Early) /\ (Live' => Live)
    BY <1>1 DEF Early, Live
  <2> QED
    BY <1>1, <2>1, LightReadyLasts DEF Undisturbed
<1>4. SetupOver'
  BY <1>1, NoSetup DEF BeatInv, SetupOver
<1>5. ASSUME NEW t \in Task PROVE Read(t)'
  <2>1. pc["main"] # "check" => (Counted(t) => Counted(t)')
    BY <1>1, CountedLasts
  <2> QED
    BY <1>1, <2>1 DEF BeatInv, Read
<1>6. ASSUME NEW t \in Task, main_state = "REQ_RSP" PROVE InRounds(t)'
  <2>1. pc[t] # "setup" /\ Kicked(t) /\ OnTime(t)
    BY <1>6 DEF BeatInv, InRounds
  <2>2. pc'[t] # "setup" /\ Kicked(t)'
    BY <1>1, <2>1, NoSetup, KickedLasts
  <2>3. pc["main"] # "check" => (Coming(t) => Coming(t)') /\ (Counted(t) => Counted(t)')
    BY <1>1, ComingLasts, CountedLasts
  <2>4. OnTime(t)'
    BY <1>1, <2>1, <2>3 DEF OnTime, Between
  <2> QED
    BY <2>2, <2>4 DEF InRounds
<1> QED
  BY <1>1, <1>2, <1>3, <1>4, <1>5, <1>6 DEF BeatInv

\* A stop request.  The rounds are over, unless main overwrites the request.
LEMMA SignalBeat ==
  ASSUME TypeOK, WakeupInv, BeatInv, process = "up", ~Die, NEW s \in StopSignals, UserSignal(s)
  PROVE  BeatInv'
<1>1. PICK u \in Thread : handleCtrlC(u)
  BY DEF UserSignal
<1>2. /\ main_state' = "SHUTDOWN" /\ pending' = IF u = "main" THEN Raised(u) ELSE pending
      /\ UNCHANGED <<pc, todo>> \/ (Blocked(u) /\ Interrupted(u))
      /\ UNCHANGED <<queue, registered, hbt_rsp>>
  BY <1>1 DEF handleCtrlC, UserSignal
<1>3. \A v \in Thread :
        \/ pc'[v] = pc[v]
        \/ /\ pc[v] \in Calling
           /\ \E label \in {pc[v], ErrnoOverwritten(pc[v])} : pc'[v] \in {label, Continue[label]}
  BY <1>2, InterruptedType DEF Blocked
<1>4. \A v \in Thread : pc[v] = "startup" <=> pc'[v] = "startup"
  BY <1>3 DEF Calling, Continue, ErrnoOverwritten
<1>5. \A v \in Thread : pc[v] # "setup" => pc'[v] # "setup"
  BY <1>3 DEF Calling, Continue, ErrnoOverwritten
<1>6. MainPlace'
  <2>1. pc'["main"] \notin {"verdict", "raise"}
    BY <1>3, MainInThread DEF BeatInv, MainPlace, Calling, Continue, ErrnoOverwritten
  <2> QED
    BY <1>2, <2>1 DEF MainPlace
<1>7. SetupOver'
  <2>1. pc'["main"] \in {"tick", "startup"} => pc'["main"] = pc["main"]
    BY <1>3, MainInThread DEF Calling, Continue, ErrnoOverwritten
  <2> QED
    BY <1>5, <2>1, MainInThread DEF BeatInv, SetupOver
<1>8. ASSUME NEW t \in Task PROVE Read(t)'
  <2>1. Counted(t)' = Counted(t) /\ hbt_rsp'[t] = hbt_rsp[t]
    BY <1>2 DEF Counted, HeartbeatQueued
  <2>2. hbt_rsp[t] => Counted(t)
    BY DEF Counted
  <2>3. \/ pc'["main"] \notin {"hb_receive", "hb_handle", "hb_again", "check"}
        \/ pc'["main"] = pc["main"]
        \/ pc["main"] = "hb_handle" /\ pc'["main"] = "hb_receive"
        \/ pc["main"] = "hb_again" /\ pc'["main"] \in {"hb_handle", "hb_receive", "check"}
    BY <1>3, MainInThread DEF Calling, Continue, ErrnoOverwritten
  <2> QED
    BY <2>1, <2>2, <2>3 DEF BeatInv, Read
<1>9. LightReady'
  <2>1. SUFFICES ASSUME "light" \in Task, Live' PROVE LightReady'
    BY DEF LightReady
  <2>2. pc["main"] = "startup" /\ "light" \in Thread
    BY <1>2, <1>4, <2>1, MainInThread DEF Live, Early
  <2>3. /\ Early /\ queue["light"] = <<>> /\ pc["light"] # "setup"
        /\ pc["light"] \in {"loop", "sigwait", "round"} => Watching("light")
    BY <2>1, <2>2 DEF BeatInv, SetupOver, LightReady, Live, Early, Rested
  <2>4. pc["light"] = "again" => Watching("light")
    BY <2>2, AwakeAll DEF Awake
  <2>5. Kept("light")
    BY <1>2, <2>2, KernelKeeps DEF TypeOK, mqVars
  <2>6. Rested("light")'
    <3>1. pc'["light"] \in {"loop", "sigwait", "round"} =>
            pc["light"] \in {"loop", "sigwait", "round", "again"}
      BY <1>3, <2>2, <2>3 DEF Calling, Continue, ErrnoOverwritten
    <3> QED
      BY <2>3, <2>4, <2>5, <3>1 DEF Kept, Rested
  <2> QED
    BY <1>2, <1>5, <2>2, <2>3, <2>6 DEF LightReady
<1> QED
  BY <1>2, <1>6, <1>7, <1>8, <1>9 DEF BeatInv

\* A server starts undisturbed.
LEMMA InitBeat == Init => BeatInv
<1> SUFFICES ASSUME Init PROVE BeatInv
  OBVIOUS
<1>1. main_state = "STARTUP" /\ \A t \in Thread : pc[t] = "setup" /\ queue[t] = <<>>
  BY DEF Init, MQInit
<1>2. MainPlace /\ SetupOver /\ \A t \in Task : Read(t)
  BY <1>1, MainInThread DEF MainPlace, SetupOver, Read
<1>3. LightReady
  <2>1. SUFFICES ASSUME "light" \in Task PROVE LightReady
    BY DEF LightReady
  <2>2. "light" \in Thread /\ pc["light"] = "setup" /\ queue["light"] = <<>>
    BY <1>1, <2>1, MainInThread
  <2>3. todo["light"] = <<Log, Do("mq_notify", "light"), Do("open_i2c", "light"), Log>>
    BY <2>2 DEF Init, FirstScripts, SetupScript
  <2>4. Due("light", Do("mq_notify", "light"))
    <3>1. 2 \in 1..Len(todo["light"]) /\ todo["light"][2] = Do("mq_notify", "light")
      BY <2>3
    <3> QED
      BY <2>2, <3>1 DEF Due, Ahead, Calling, Continue
  <2> QED
    BY <2>2, <2>4 DEF LightReady, Rested
<1> QED
  BY <1>1, <1>2, <1>3 DEF BeatInv

BeatWhileUp == process = "up" => BeatInv

\* No step of an undisturbed server breaks the invariant.
LEMMA NextBeat ==
  ASSUME Undisturbed
  PROVE  TypeOK /\ WakeupInv /\ ExitInv /\ BeatWhileUp /\ [Next]_vars => BeatWhileUp'
<1> SUFFICES ASSUME TypeOK, WakeupInv, ExitInv, BeatWhileUp, [Next]_vars, process' = "up"
             PROVE  BeatInv'
  BY DEF BeatWhileUp
<1>1. ~Die
  BY DEF Die
<1>2. CASE UNCHANGED vars
  <2>1. UNCHANGED <<pc, todo, queue, registered, pending, main_state, hbt_rsp, process>>
    BY <1>2 DEF vars, mqVars, taskVars, mainVars
  <2>2. /\ MainPlace' = MainPlace /\ SetupOver' = SetupOver /\ LightReady' = LightReady
        /\ \A t : InRounds(t)' = InRounds(t) /\ Read(t)' = Read(t)
    BY <2>1 DEF MainPlace, SetupOver, LightReady, Early, Live, InRounds, Kicked, Rested, Watching,
                Due, Ahead, Read, OnTime, Coming, Counted, HeartbeatQueued, Asked
  <2> QED
    BY <2>1, <2>2 DEF BeatWhileUp, BeatInv
<1>3. CASE process = "up" /\ Next /\ ~UNCHANGED vars
  <2>1. AllPermitted /\ BeatInv
    BY <1>3 DEF ExitInv, BeatWhileUp
  <2>2. \/ MainStep \/ ClientStep \/ \E u \in Task : ServerTask(u)
        \/ \E s \in StopSignals : UserSignal(s)
    BY <1>3 DEF Undisturbed, Next, ServerStep, ClientStep, Terminated
  <2> QED
    BY <1>1, <1>3, <2>1, <2>2, MainBeat, OtherBeat, SignalBeat
<1>4. CASE process # "up" /\ Next
  BY <1>2, <1>4 DEF Undisturbed, Next, Terminated, Restart
<1> QED
  BY <1>2, <1>3, <1>4

(***************************************************************************)
(* In an undisturbed server no heartbeat is ever reported missing, for     *)
(* every set of tasks, every capacity, any sensor errors, any failure of   *)
(* the log file, any client that writes to the other queues and any stop   *)
(* signals at any time.                                                    *)
(***************************************************************************)
THEOREM NoAlarmUndisturbed == Undisturbed => (Spec => []NoFalseAlarm)
<1> SUFFICES ASSUME Undisturbed PROVE Spec => []NoFalseAlarm
  OBVIOUS
<1>1. Init => BeatWhileUp
  BY InitBeat DEF BeatWhileUp
<1>2. TypeOK /\ WakeupInv /\ ExitInv /\ BeatWhileUp /\ [Next]_vars => BeatWhileUp'
  BY NextBeat
<1>3. BeatWhileUp => NoFalseAlarm
  BY DEF BeatWhileUp, BeatInv, MainPlace, NoFalseAlarm
<1> QED
  BY <1>1, <1>2, <1>3, TypeCorrect, AlwaysAwake, ExitInvariant, PTL DEF Spec
==============================================================================
