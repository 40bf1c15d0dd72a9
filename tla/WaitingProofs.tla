----------------------------- MODULE WaitingProofs -----------------------------
(***************************************************************************)
(* Why the threads wait for each other.  Every hang of the server is a     *)
(* wait for room in a full queue, for every set of tasks, every capacity   *)
(* and every pattern of stop signals, clients and restarts; and main never *)
(* waits for room in the queue of a sleeping task, as long as only the     *)
(* server's own threads write to the tasks' queues and these are not tiny. *)
(***************************************************************************)
EXTENDS HeartbeatProofs, FiniteSetTheorems

Alarm == Do("alarm", "main")

\* Outside processHeartbeats and its exit path main has its timer running, or is
\* about to start it.
Timed == pc["main"] \in {"setup"} \cup Between => alarm \/ Due("main", Alarm)

\* On the exit path main's message to the logger comes first of all, and every
\* stop before the first join.
InOrder(s) ==
  \A i \in 1..Len(s) :
    /\ s[i].call = "mq_send" => i = 1 /\ \A t \in Task : task_state[t] = "RUNNING"
    /\ s[i].call = "pthread_join" => s[i].to \in Task /\ \A j \in i..Len(s) : s[j].call # "stop"

\* So main waits only for threads it has stopped, and a thread that was stopped
\* has been kicked and never sleeps again.
ExitPath ==
  pc["main"] = "teardown" =>
    /\ InOrder(todo["main"])
    /\ \A t \in Task : task_state[t] = "SHUTDOWN" \/ Ahead(todo["main"], Do("stop", t))

Orderly(t) ==
  IF task_state[t] = "RUNNING" THEN pc[t] \notin {"teardown", "ended"}
                               ELSE pc["main"] = "teardown" /\ ~Asleep(t)

StopsInOrder == ExitPath /\ \A t \in Task : Orderly(t)

HangInv == process = "up" => Timed /\ StopsInOrder

(***************************************************************************)
(* From the invariants to the property: who waits for whom.                *)
(***************************************************************************)
\* The next call of a blocked thread.
LEMMA BlockedSends ==
  ASSUME TypeOK, AllPermitted, NEW t \in Thread, Blocked(t)
  PROVE  /\ NextCall(t) \in Permitted(t, pc[t]) /\ NextCall(t).call = "mq_send"
         /\ NextCall(t).to \in Thread /\ queue[NextCall(t).to] # <<>>
<1>1. pc[t] \in Calling /\ todo[t] # <<>> /\ NextCall(t).call = "mq_send" /\ ~HasRoom(NextCall(t).to)
  BY DEF Blocked
<1>2. NextCall(t) \in Permitted(t, pc[t])
  BY <1>1, RestPermitted
<1>3. NextCall(t).to \in Thread
  BY <1>2 DEF Permitted, Call
<1>4. queue[NextCall(t).to] # <<>>
  <2>1. SUFFICES ASSUME queue[NextCall(t).to] = <<>> PROVE FALSE
    OBVIOUS
  <2>2. Len(queue[NextCall(t).to]) = 0
    BY <2>1
  <2> QED
    BY <1>1, <2>2, CapacityAssumption DEF HasRoom
<1> QED
  BY <1>1, <1>2, <1>3, <1>4

\* A task that waits for room waits for main or, unless it is the logger itself,
\* for the logger.
LEMMA TasksWaitUp ==
  ASSUME TypeOK, AllPermitted, NEW t \in Task, Blocked(t)
  PROVE  NextCall(t).to = "main" \/ (NextCall(t).to = "logger" /\ t # "logger")
<1>1. t \in Thread /\ t # "main"
  BY MainInThread, TaskAssumption
<1>2. NextCall(t) \in Permitted(t, pc[t]) /\ NextCall(t).call = "mq_send" /\ NextCall(t).to \in Thread
  BY <1>1, BlockedSends
<1>3. NextCall(t).to \notin {"temp", "light"}
  BY <1>1, <1>2 DEF Permitted
<1>4. t = "logger" => NextCall(t).to = "main"
  BY <1>2 DEF Permitted
<1> QED
  BY <1>2, <1>3, <1>4, TaskAssumption DEF Thread

\* What HangsAreFullQueues says of one thread.
FullQueue(t) ==
  /\ Blocked(t)
  /\ LET reader == NextCall(t).to
     IN  \/ reader = "main"
         \/ reader = "logger" /\ t # "main" /\ pc["logger"] = "ended"
         \/ Asleep(reader) /\ in_buffer[reader] = NoMessage

\* Whoever waits for room in the queue of a sleeping task waits for one that has
\* never been woken: any other would have read its queue.
LEMMA SleepersAreNew ==
  ASSUME TypeOK, AllPermitted, NoLostWakeup, NEW t \in Thread, Blocked(t), Asleep(NextCall(t).to)
  PROVE  FullQueue(t)
<1> DEFINE u == NextCall(t).to
<1>1. u \in Thread /\ queue[u] # <<>>
  BY BlockedSends
<1>2. in_buffer[u] = NoMessage
  BY <1>1 DEF NoLostWakeup, Asleep, TypeOK, MQTypeOK
<1> QED
  BY <1>2 DEF FullQueue

\* A task that waits for room in a hanging server.
LEMMA TaskWaits ==
  ASSUME TypeOK, AllPermitted, NoLostWakeup, Hang, NEW t \in Task, Blocked(t)
  PROVE  \E u \in Thread : FullQueue(u)
<1>1. t \in Thread /\ t # "main" /\ "logger" \in Thread /\ "logger" \in Task
  BY MainInThread, TaskAssumption
<1>2. CASE NextCall(t).to = "main"
  BY <1>1, <1>2 DEF FullQueue
<1>3. CASE NextCall(t).to = "logger" /\ t # "logger"
  <2>1. Stuck("logger")
    BY <1>1 DEF Hang
  <2>2. CASE pc["logger"] = "ended"
    BY <1>1, <1>3, <2>2 DEF FullQueue
  <2>3. CASE Asleep("logger")
    BY <1>1, <1>3, <2>3, SleepersAreNew
  <2>4. CASE Blocked("logger")
    <3>1. NextCall("logger").to = "main"
      BY <1>1, <2>4, TasksWaitUp
    <3> QED
      BY <1>1, <2>4, <3>1 DEF FullQueue
  <2> QED
    BY <2>1, <2>2, <2>3, <2>4 DEF Stuck
<1> QED
  BY <1>2, <1>3, TasksWaitUp

\* Every hang comes down to a full queue.
LEMMA HangCases ==
  ASSUME TypeOK, AllPermitted, OnTheWayOut, NoLostWakeup, Timed, StopsInOrder, Hang
  PROVE  \E t \in Thread : FullQueue(t)
<1>1. "main" \in Thread /\ Stuck("main") /\ \A t \in Task : t \in Thread /\ t # "main" /\ Stuck(t)
  BY MainInThread, TaskAssumption DEF Hang
<1>2. pc["main"] # "ended"
  BY DEF OnTheWayOut
<1>3. ~(Asleep("main") /\ ~alarm)
  BY DEF Timed, Between, Asleep, Due, Calling, Continue
<1>4. CASE Blocked("main")
  <2> DEFINE u == NextCall("main").to
  <2>1. u \in Thread /\ NextCall("main").call = "mq_send"
    BY <1>1, <1>4, BlockedSends
  <2>2. CASE u = "main"
    BY <1>1, <1>4, <2>2 DEF FullQueue
  <2>3. CASE u \in Task
    <3>1. pc[u] # "ended"
      <4>1. CASE pc["main"] = "teardown"
        <5>1. 1 \in 1..Len(todo["main"]) /\ todo["main"][1] = NextCall("main")
          <6>1. todo["main"] \in Seq(Call) /\ todo["main"] # <<>>
            BY <1>1, <1>4 DEF TypeOK, TasksTypeOK, Blocked
          <6> QED
            BY <6>1, HeadTailProperties, LenProperties, EmptySeq DEF NextCall
        <5>2. task_state[u] = "RUNNING"
          BY <2>1, <2>3, <4>1, <5>1 DEF StopsInOrder, ExitPath, InOrder
        <5> QED
          BY <2>3, <5>2 DEF StopsInOrder, Orderly
      <4>2. CASE pc["main"] # "teardown"
        BY <1>2, <2>3, <4>2 DEF StopsInOrder, Orderly, TypeOK, TasksTypeOK
      <4> QED
        BY <4>1, <4>2
    <3>2. CASE Asleep(u)
      BY <1>1, <1>4, <3>2, SleepersAreNew
    <3>3. CASE Blocked(u)
      BY <2>3, <3>3, TaskWaits
    <3> QED
      BY <1>1, <2>3, <3>1, <3>2, <3>3 DEF Stuck
  <2> QED
    BY <2>1, <2>2, <2>3 DEF Thread
<1>5. CASE MainCall("pthread_join") /\ pc[Target] # "ended"
  <2> DEFINE u == Target
  <2>1. /\ 1 \in 1..Len(todo["main"]) /\ todo["main"][1] = NextCall("main")
        /\ pc["main"] \in Calling /\ todo["main"] # <<>> /\ NextCall("main").call = "pthread_join"
    <3>1. todo["main"] \in Seq(Call) /\ todo["main"] # <<>>
      BY <1>1, <1>5 DEF TypeOK, TasksTypeOK, MainCall
    <3> QED
      BY <1>5, <3>1, HeadTailProperties, LenProperties, EmptySeq DEF NextCall, MainCall
  <2>2. pc["main"] = "teardown"
    <3>1. NextCall("main") \in Permitted("main", pc["main"])
      BY <1>1, <2>1, RestPermitted
    <3> QED
      BY <2>1, <3>1 DEF Permitted, ExitCall
  <2>3. u \in Task /\ \A j \in 1..Len(todo["main"]) : todo["main"][j].call # "stop"
    BY <2>1, <2>2 DEF StopsInOrder, ExitPath, InOrder, Target
  <2>4. task_state[u] = "SHUTDOWN"
    <3>1. ~Ahead(todo["main"], Do("stop", u))
      BY <2>3 DEF Ahead, Do
    <3> QED
      BY <2>2, <2>3, <3>1 DEF StopsInOrder, ExitPath
  <2>5. ~Asleep(u)
    BY <2>3, <2>4 DEF StopsInOrder, Orderly
  <2>6. Blocked(u)
    BY <1>1, <1>5, <2>3, <2>5 DEF Stuck
  <2> QED
    BY <2>3, <2>6, TaskWaits
<1> QED
  BY <1>1, <1>2, <1>3, <1>4, <1>5 DEF Stuck

(***************************************************************************)
(* What a step does to the kernel objects and to the scripts.              *)
(***************************************************************************)
\* One of the operations on the kernel objects, on those of thread u.
KernelOp(u) ==
  \/ \E m \in Message : mq_send(u, m)
  \/ mq_receive(u) \/ pthread_kill(u) \/ mq_notify(u) \/ UNCHANGED mqVars
  \/ pending' \in {pending, Raised(u)} /\ queue' = queue

\* The calls any thread makes are such operations.
LEMMA CallOps ==
  ASSUME TypeOK, NEW t \in Thread, CommonCall(t), ~Die
  PROVE  \E u \in Thread : KernelOp(u)
<1>1. /\ NextCall(t).to \in Thread
      /\ NextCall(t).call = "mq_send" => NextCall(t).msg \in Message
  BY CallSends
<1>2. CASE CallSend(t)
  BY <1>1, <1>2 DEF CallSend, KernelOp
<1>3. CASE CallKill(t)
  BY <1>1, <1>3 DEF CallKill, KernelOp
<1>4. CASE CallNotify(t)
  BY <1>4 DEF CallNotify, KernelOp
<1>5. CASE CallMayDie(t) \/ CallI2C(t) \/ CallOpenLog(t) \/ CallWriteLog(t)
  BY <1>5 DEF CallMayDie, CallI2C, CallOpenLog, CallWriteLog, KernelOp
<1> QED
  BY <1>2, <1>3, <1>4, <1>5 DEF CommonCall

\* So are all steps, except those that take a signal.
LEMMA StepOps ==
  ASSUME TypeOK, ServerStep \/ ClientStep, ~Die
  PROVE  \/ \E u \in Thread : KernelOp(u)
         \/ MainSigwait
         \/ \E t \in Task : TaskSigwait(t)
<1>0. "main" \in Thread /\ \A t \in Task : t \in Thread
  BY MainInThread
<1>1. CASE ClientStep
  <2>1. PICK u \in ClientTargets : ClientSend(u)
    BY <1>1 DEF ClientStep
  <2>2. u \in {"temp", "light", "logger", "main"} /\ u \in Thread
    BY ClientTargetsAssumption, TaskAssumption DEF Thread
  <2>3. ClientCommand[u] \in Message
    BY <2>2 DEF ClientCommand, Message, Msg
  <2> QED
    BY <2>1, <2>2, <2>3 DEF ClientSend, KernelOp
<1>2. CASE MainStep
  <2>1. CASE CommonCall("main")
    BY <1>0, <2>1, CallOps
  <2>2. CASE CallStop
    <3>1. Target \in Thread
      <4>1. todo["main"] \in Seq(Call) /\ todo["main"] # <<>>
        BY <1>0, <2>2 DEF TypeOK, TasksTypeOK, CallStop, MainCall
      <4> QED
        BY <1>0, <4>1, NextCallType DEF Target, TypeOK, TasksTypeOK
    <3> QED
      BY <2>2, <3>1 DEF CallStop, KernelOp
  <2>3. CASE CallSetError \/ CallAlarm \/ CallUnlink \/ CallJoin \/ CallExit
    BY <1>0, <2>3 DEF CallSetError, CallAlarm, CallUnlink, CallJoin, CallExit, KernelOp
  <2>4. CASE MainReceive \/ HbReceive \/ MainNotify \/ MainTick
    BY <1>0, <2>4 DEF MainReceive, HbReceive, MainNotify, MainTick, KernelOp
  <2>5. CASE MainLoop \/ MainTimer \/ MainReceiveEmpty \/ MainStartup \/ HbReceiveEmpty \/ HbCheck
    BY <1>0, <2>5 DEF MainLoop, MainTimer, MainReceiveEmpty, MainStartup, HbReceiveEmpty, HbCheck, KernelOp
  <2>6. CASE HbJudge \/ HbRaise
    BY <1>0, <2>6 DEF HbJudge, HbRaise, mqVars, KernelOp
  <2> QED
    BY <1>2, <2>1, <2>2, <2>3, <2>4, <2>5, <2>6 DEF MainStep
<1>3. ASSUME NEW t \in Task, ServerTask(t)
      PROVE  TaskSigwait(t) \/ \E u \in Thread : KernelOp(u)
  <2>1. TaskStep(t)
    BY <1>3 DEF ServerTask
  <2>2. CASE CommonCall(t)
    BY <1>0, <2>2, CallOps
  <2>3. CASE TaskLoop(t) \/ TaskReceiveEmpty(t) \/ TaskNotify(t) \/ TaskReceive(t)
    BY <1>0, <2>3 DEF TaskLoop, TaskReceiveEmpty, TaskNotify, TaskReceive, KernelOp
  <2> QED
    BY <2>1, <2>2, <2>3 DEF TaskStep
<1> QED
  BY <1>1, <1>2, <1>3 DEF ServerStep

\* A signal that is on its way to a task stays so until the task takes it.
LEMMA SignalStays ==
  ASSUME TypeOK, ServerStep \/ ClientStep, ~Die, NEW t \in Task, pending[t] > 0
  PROVE  pending'[t] > 0 \/ TaskSigwait(t)
<1>1. t \in Thread /\ t # "main" /\ pending \in [Thread -> 0..SignalLimit]
  BY MainInThread, TaskAssumption DEF TypeOK, MQTypeOK
<1>2. ASSUME NEW u \in Thread, KernelOp(u) PROVE pending'[t] > 0
  <2>1. pending' = pending \/ pending' = Raised(u)
    BY <1>2 DEF KernelOp, mq_send, mq_receive, pthread_kill, mq_notify, mqVars
  <2> QED
    BY <1>1, <2>1, RaisedType
<1>3. ASSUME NEW u \in Thread, u # t, sigwait(u) PROVE pending'[t] > 0
  BY <1>1, <1>3 DEF sigwait
<1>4. MainSigwait => pending'[t] > 0
  BY <1>1, <1>3, MainInThread DEF MainSigwait
<1>5. ASSUME NEW u \in Task, TaskSigwait(u) PROVE pending'[t] > 0 \/ TaskSigwait(t)
  BY <1>3, <1>5, MainInThread DEF TaskSigwait
<1> QED
  BY <1>2, <1>4, <1>5, StepOps

\* What an interrupted send leaves to do: everything that is not a send.
LEMMA InterruptKeeps ==
  ASSUME TypeOK, NEW t \in Thread, Blocked(t), Interrupted(t),
         NEW c, c.msg = NoMessage, Ahead(todo[t], c)
  PROVE  /\ Ahead(todo'[t], c) /\ pc'[t] = ErrnoOverwritten(pc[t])
         /\ \A u \in Thread : u # t => pc'[u] = pc[u] /\ todo'[u] = todo[u]
<1> DEFINE s == todo[t]
<1>1. /\ s \in Seq(Call) /\ s # <<>> /\ NextCall(t) = Head(s) /\ NextCall(t).call = "mq_send"
      /\ NextCall(t).msg \in Message
  <2>1. todo \in [Thread -> Seq(Call)] /\ s # <<>> /\ NextCall(t).call = "mq_send"
    BY DEF TypeOK, TasksTypeOK, Blocked
  <2> QED
    BY <2>1, NextCallType DEF NextCall
<1>2. Head(s) # c
  <2>1. NoMessage \notin Message
    BY DEF NoMessage, Message, Msg
  <2> QED
    BY <1>1, <2>1
<1>3. Tail(s) \in Seq(Call) /\ Ahead(Tail(s), c)
  BY <1>1, <1>2, AheadTail, HeadTailProperties
<1>4. Ahead(<<Log>> \o Tail(s), c)
  BY <1>3, RequestTypes, AheadConcat
<1>5. ASSUME NEW n \in 1..Len(s), \A i \in 1..n : s[i].msg.id = "HEARTBEAT_REQ"
      PROVE  Ahead(SubSeq(s, n + 1, Len(s)), c)
  <2>1. PICK i \in 1..Len(s) : s[i] = c
    BY DEF Ahead
  <2>2. s[i].msg.id # "HEARTBEAT_REQ"
    BY <2>1 DEF NoMessage, Msg
  <2>3. i \in (n + 1)..Len(s) /\ Len(s) \in Nat
    BY <1>1, <1>5, <2>2, LenProperties
  <2>4. \A j \in (n + 1)..Len(s) : s[j] \in Call
    BY <1>1, ElementOfSeq
  <2>5. /\ Len(SubSeq(s, n + 1, Len(s))) = Len(s) - n
        /\ SubSeq(s, n + 1, Len(s))[i - n] = s[i]
    BY <2>3, <2>4, SubSeqProperties
  <2>6. i - n \in 1..Len(SubSeq(s, n + 1, Len(s)))
    BY <2>3, <2>5
  <2> QED
    BY <2>1, <2>5, <2>6 DEF Ahead
<1>6. \E script : Run(t, ErrnoOverwritten(pc[t]), script) /\ Ahead(script, c)
  BY <1>3, <1>4, <1>5 DEF Interrupted
<1>7. PICK script : Run(t, ErrnoOverwritten(pc[t]), script) /\ Ahead(script, c)
  BY <1>6
<1>8. script # <<>>
  BY <1>7 DEF Ahead
<1> QED
  BY <1>7, <1>8, RunMoves

(***************************************************************************)
(* Main sleeps only with its timer running.                                *)
(***************************************************************************)
\* Every script that main runs on SIGALRM ends by starting the timer again.
LEMMA RoundsRestart ==
  /\ Ahead(MainSetupScript, Alarm) /\ Ahead(<<Alarm>>, Alarm)
  /\ Ahead(StartupScript, Alarm) /\ Ahead(RoundScript, Alarm) /\ Ahead(<<Log>> \o RoundScript, Alarm)
<1>1. Ahead(MainSetupScript, Alarm)
  <2>1. 3 \in 1..Len(MainSetupScript) /\ MainSetupScript[3] = Alarm
    BY DEF MainSetupScript, Alarm
  <2> QED
    BY <2>1 DEF Ahead
<1>2. Ahead(<<Do("pthread_kill", "logger"), Alarm>>, Alarm)
  <2> DEFINE s == <<Do("pthread_kill", "logger"), Alarm>>
  <2>1. 2 \in 1..Len(s) /\ s[2] = Alarm
    OBVIOUS
  <2> QED
    BY <2>1 DEF Ahead
<1>3. /\ <<Do("pthread_kill", "logger"), Alarm>> \in Seq(Call) /\ <<Alarm>> \in Seq(Call)
      /\ <<Log>> \in Seq(Call)
  BY MainInThread, RequestTypes, CallTypes, ShortSeq DEF CallName, Alarm
<1>4. Ahead(RoundScript, Alarm)
  <2> DEFINE rest == <<Do("pthread_kill", "logger"), Alarm>>
  <2>1. RoundScript = reqHeartbeats \o rest
    BY DEF RoundScript, Alarm
  <2>2. rest \in Seq(Call) /\ Ahead(rest, Alarm)
    BY <1>2, <1>3
  <2> HIDE DEF rest
  <2> QED
    BY <2>1, <2>2, ReqHeartbeatsType, AheadConcat
<1>5. Ahead(<<Log>> \o RoundScript, Alarm)
  BY <1>3, <1>4, RoundType, AheadConcat
<1>6. Ahead(StartupScript, Alarm)
  <2> DEFINE front == reqHeartbeats \o <<Do("pthread_kill", "logger")>>
                      \o ForTask("temp", <<Send("temp", "TEMP_DATA_REQ", "main"), Do("pthread_kill", "temp")>>)
                      \o ForTask("light", <<Send("light", "LIGHT_DATA_REQ", "main")>>)
  <2>1. front \in Seq(Call)
    <3>1. "temp" \in Task =>
            <<Send("temp", "TEMP_DATA_REQ", "main"), Do("pthread_kill", "temp")>> \in Seq(Call)
      BY MainInThread, CallTypes, ShortSeq DEF CallName
    <3> QED
      BY <3>1, MainInThread, DoType, RequestTypes, ForTaskType, ReqHeartbeatsType, ConcatType DEF CallName
  <2>2. StartupScript = front \o <<Alarm>>
    BY DEF StartupScript, Alarm
  <2> HIDE DEF front
  <2> QED
    BY <1>3, <2>1, <2>2, Single, AheadConcat
<1> QED
  BY <1>1, <1>4, <1>5, <1>6, Single

\* A step that leaves main and its timer alone.
LEMMA TimerAlone ==
  ASSUME Timed, pc'["main"] = pc["main"], todo'["main"] = todo["main"], alarm' = alarm
  PROVE  Timed'
BY DEF Timed, Due, Ahead

\* Main makes a call.
LEMMA CallTimed ==
  ASSUME TypeOK, Timed, MainStep, ~Die, pc["main"] \in Calling
  PROVE  Timed'
<1>1. /\ Performs("main") /\ "main" \in Thread
      /\ \/ CommonCall("main") /\ UNCHANGED mainVars
         \/ MainCalls
  BY MainInThread, MainStepCases
<1>2. /\ Due("main", Alarm) /\ Alarm # NextCall("main") => Due("main", Alarm)'
      /\ \E label \in {pc["main"], ErrnoOverwritten(pc["main"])} : pc'["main"] \in {label, Continue[label]}
  BY <1>1, PerformsKeeps
<1>3. alarm => alarm'
  BY <1>1 DEF mainVars, MainCalls, CallStop, CallSetError, CallAlarm, CallUnlink, CallJoin, CallExit
<1>4. Alarm = NextCall("main") => alarm'
  <2>1. SUFFICES ASSUME NextCall("main").call = "alarm" PROVE alarm'
    BY DEF Alarm, Do
  <2>2. ~CommonCall("main")
    BY <2>1 DEF CommonCall, CallSend, CallKill, CallNotify, CallMayDie, CallI2C, CallOpenLog, CallWriteLog
  <2>3. CallAlarm
    BY <1>1, <2>1, <2>2 DEF MainCalls, MainCall, CallStop, CallSetError, CallUnlink, CallJoin, CallExit
  <2> QED
    BY <2>3 DEF CallAlarm
<1>5. pc'["main"] \in {"setup"} \cup Between => pc["main"] \in {"setup"} \cup Between
  BY <1>2 DEF Between, Calling, Continue, ErrnoOverwritten
<1> QED
  BY <1>2, <1>3, <1>4, <1>5 DEF Timed

\* Main makes no call.
LEMMA LoopTimed ==
  ASSUME TypeOK, Timed, MainLoops, ~Die
  PROVE  Timed'
<1>0. "main" \in Thread /\ "round" \in Calling
  BY MainInThread DEF Calling, Continue
<1>1. pc["main"] \in {"loop", "sigwait", "notify", "receive"} => alarm
  BY DEF Timed, Between, Due, Calling, Continue
<1>2. CASE MainLoop
  <2>1. pc'["main"] \in {"sigwait", "teardown", Continue["teardown"]} /\ alarm' = alarm /\ pc["main"] = "loop"
    BY <1>0, <1>2, GotoMoves, RunMoves DEF MainLoop, mainVars
  <2> QED
    BY <1>1, <2>1 DEF Timed, Between
<1>3. CASE MainSigwait \/ MainNotify
  BY <1>1, <1>3 DEF MainSigwait, MainNotify, mainVars, Timed
<1>4. CASE MainReceive \/ MainReceiveEmpty
  BY <1>1, <1>4 DEF MainReceive, MainReceiveEmpty, Timed
<1>5. CASE MainTimer
  <2>1. pc'["main"] = "tick"
    BY <1>0, <1>5, GotoMoves DEF MainTimer
  <2> QED
    BY <2>1 DEF Timed, Between
<1>6. CASE MainTick
  <2>1. \/ \E label \in {"startup", "hb_receive"} : Goto("main", label) /\ UNCHANGED todo
        \/ Run("main", "round", <<Alarm>>)
    BY <1>6 DEF MainTick, Alarm
  <2>2. pc'["main"] \in {"startup", "hb_receive"} \/ Due("main", Alarm)'
    BY <1>0, <2>1, GotoMoves, RoundsRestart, NewlyDue
  <2> QED
    BY <2>2 DEF Timed, Between
<1>7. CASE MainStartup \/ (HbJudge /\ main_state # "ERROR") \/ HbRaise
  <2>1. PICK script : Run("main", "round", script) /\ Ahead(script, Alarm)
    BY <1>7, RoundsRestart DEF MainStartup, HbJudge, HbRaise
  <2> QED
    BY <1>0, <2>1, NewlyDue DEF Timed, Between
<1>8. CASE HbReceive \/ HbReceiveEmpty \/ HbCheck
  <2>1. \E label \in {"hb_handle", "hb_again", "verdict"} : \E script : Run("main", label, script)
    BY <1>8 DEF HbReceive, HbReceiveEmpty, HbCheck
  <2>2. \E label \in {"hb_handle", "hb_again", "verdict"} : pc'["main"] \in {label, Continue[label]}
    BY <1>0, <2>1, RunMoves
  <2> QED
    BY <2>2 DEF Timed, Between, Continue
<1>9. CASE HbJudge /\ main_state = "ERROR"
  <2>1. pc'["main"] = "raise"
    BY <1>0, <1>9, GotoMoves DEF HbJudge
  <2> QED
    BY <2>1 DEF Timed, Between
<1> QED
  BY <1>2, <1>3, <1>4, <1>5, <1>6, <1>7, <1>8, <1>9 DEF MainLoops

\* A stop signal, on whichever thread.
LEMMA SignalTimed ==
  ASSUME TypeOK, Timed, NEW s, UserSignal(s), ~Die
  PROVE  Timed'
<1>1. PICK t \in Thread : handleCtrlC(t)
  BY DEF UserSignal
<1>2. alarm' = alarm /\ (UNCHANGED <<pc, todo>> \/ (Blocked(t) /\ Interrupted(t)))
  BY <1>1 DEF UserSignal, handleCtrlC
<1>3. CASE UNCHANGED <<pc, todo>>
  BY <1>2, <1>3, TimerAlone
<1>4. CASE Blocked(t) /\ Interrupted(t) /\ t # "main"
  <2>1. pc'["main"] = pc["main"] /\ todo'["main"] = todo["main"]
    <3>1. \E script : Run(t, ErrnoOverwritten(pc[t]), script)
      BY <1>4, InterruptedRuns
    <3> QED
      BY <1>4, <3>1, MainInThread, RunMoves
  <2> QED
    BY <1>2, <2>1, TimerAlone
<1>5. CASE Blocked(t) /\ Interrupted(t) /\ t = "main"
  <2>1. Alarm.msg = NoMessage
    BY DEF Alarm, Do
  <2>2. pc["main"] \in Calling
    BY <1>5 DEF Blocked
  <2>3. Due("main", Alarm) => Due("main", Alarm)'
    BY <1>5, <2>1, <2>2, InterruptKeeps, ErrnoType DEF Due
  <2>4. \E label \in {pc["main"], ErrnoOverwritten(pc["main"])} : pc'["main"] \in {label, Continue[label]}
    BY <1>5, InterruptedType
  <2>5. pc'["main"] \in {"setup"} \cup Between => pc["main"] \in {"setup"} \cup Between
    BY <2>2, <2>4 DEF Between, Calling, Continue, ErrnoOverwritten
  <2> QED
    BY <1>2, <2>3, <2>5 DEF Timed, Between
<1> QED
  BY <1>2, <1>3, <1>4, <1>5

(***************************************************************************)
(* Main stops the threads first and joins them after.                      *)
(***************************************************************************)
\* A task that stays where it is, whoever makes the step.
LEMMA OthersOrderly ==
  ASSUME TypeOK, ServerStep \/ ClientStep, ~Die, NEW t \in Task, Orderly(t),
         pc'[t] = pc[t], task_state'[t] = task_state[t],
         pc["main"] = "teardown" => pc'["main"] = "teardown"
  PROVE  Orderly(t)'
<1>1. pending[t] > 0 /\ pc[t] = "sigwait" => pending'[t] > 0
  <2>1. SUFFICES ASSUME TaskSigwait(t) PROVE pc'[t] # "sigwait"
    BY SignalStays
  <2> QED
    BY <2>1, MainInThread, GotoMoves DEF TaskSigwait
<1>2. t \in Thread /\ pending \in [Thread -> 0..SignalLimit]
  BY MainInThread DEF TypeOK, MQTypeOK
<1> QED
  BY <1>1, <1>2 DEF Orderly, Asleep

\* A task runs to its exit path only after it was stopped, and does not go to
\* sleep any more then.
LEMMA TaskOrderly ==
  ASSUME TypeOK, NEW t \in Task, TaskStep(t), ~Die, Orderly(t),
         pc'["main"] = pc["main"], task_state' = task_state
  PROVE  Orderly(t)'
<1>0. t \in Thread /\ task_state[t] \in {"RUNNING", "SHUTDOWN"} /\ "again" \in Calling /\ "handle" \in Calling
  BY MainInThread DEF TypeOK, TasksTypeOK, Calling, Continue
<1>1. CASE CommonCall(t)
  <2>1. pc[t] \in Calling /\ Performs(t)
    BY <1>0, <1>1, CallPerforms
  <2>2. \E label \in {pc[t], ErrnoOverwritten(pc[t])} : pc'[t] \in {label, Continue[label]}
    BY <1>0, <2>1, PerformsKeeps
  <2>3. pc'[t] # "sigwait"
    BY <2>1, <2>2 DEF Calling, Continue, ErrnoOverwritten
  <2>4. pc[t] # "teardown" => pc'[t] \notin {"teardown", "ended"}
    BY <2>1, <2>2, NoShortcut
  <2> QED
    BY <2>3, <2>4 DEF Orderly, Asleep
<1>2. CASE TaskLoop(t)
  <2>1. CASE task_state[t] = "RUNNING"
    BY <1>0, <1>2, <2>1, GotoMoves DEF TaskLoop, Orderly
  <2>2. CASE task_state[t] # "RUNNING"
    <3>1. pc'[t] \in {"teardown", "ended"}
      BY <1>0, <1>2, <2>2, RunMoves DEF TaskLoop, Continue
    <3> QED
      BY <2>2, <3>1 DEF Orderly, Asleep
  <2> QED
    BY <2>1, <2>2
<1>3. CASE TaskSigwait(t) \/ TaskNotify(t)
  <2>1. pc'[t] \in {"notify", "receive"}
    BY <1>0, <1>3, GotoMoves DEF TaskSigwait, TaskNotify
  <2> QED
    BY <2>1 DEF Orderly, Asleep
<1>4. CASE TaskReceive(t) \/ TaskReceiveEmpty(t)
  <2>1. \E label \in {"handle", "again"} : \E script : Run(t, label, script)
    BY <1>4 DEF TaskReceive, TaskReceiveEmpty
  <2>2. pc'[t] \in {"handle", "again", "receive", "loop"}
    BY <1>0, <2>1, RunMoves DEF Continue
  <2> QED
    BY <2>2 DEF Orderly, Asleep
<1> QED
  BY <1>1, <1>2, <1>3, <1>4 DEF TaskStep

\* What is left of the exit path after one of its calls.
LEMMA RestInOrder ==
  ASSUME NEW s \in Seq(Call), s # <<>>, InOrder(s)
  PROVE  InOrder(Tail(s))'
<1>1. /\ Len(s) \in Nat /\ Len(Tail(s)) = Len(s) - 1
      /\ \A i \in 1..Len(Tail(s)) : Tail(s)[i] = s[i + 1] /\ i + 1 \in 1..Len(s)
  BY HeadTailProperties, LenProperties
<1> SUFFICES ASSUME NEW i \in 1..Len(Tail(s))
             PROVE  /\ Tail(s)[i].call # "mq_send"
                    /\ Tail(s)[i].call = "pthread_join" =>
                         Tail(s)[i].to \in Task /\ \A j \in i..Len(Tail(s)) : Tail(s)[j].call # "stop"
  BY DEF InOrder
<1>2. Tail(s)[i] = s[i + 1] /\ i + 1 \in 1..Len(s) /\ i + 1 # 1
  BY <1>1
<1>3. Tail(s)[i].call # "mq_send"
  BY <1>2 DEF InOrder
<1>4. ASSUME Tail(s)[i].call = "pthread_join", NEW j \in i..Len(Tail(s))
      PROVE  Tail(s)[j].call # "stop"
  <2>1. j \in 1..Len(Tail(s)) /\ Tail(s)[j] = s[j + 1] /\ j + 1 \in (i + 1)..Len(s)
    BY <1>1, <1>4
  <2> QED
    BY <1>2, <1>4, <2>1 DEF InOrder
<1> QED
  BY <1>2, <1>3, <1>4 DEF InOrder

\* Main makes a call of its exit path.
LEMMA ExitPathShrinks ==
  ASSUME TypeOK, ExitPath, pc["main"] = "teardown", todo["main"] # <<>>, Return("main"),
         \A t \in Task : \/ task_state'[t] = task_state[t] /\ NextCall("main") # Do("stop", t)
                         \/ task_state'[t] = "SHUTDOWN"
  PROVE  ExitPath'
<1> DEFINE s == todo["main"]
<1>1. s \in Seq(Call) /\ NextCall("main") = Head(s) /\ todo'["main"] = Tail(s)
  <2>1. todo'["main"] = Tail(s)
    BY MainInThread, RunMoves DEF Return
  <2> QED
    BY <2>1, MainInThread DEF NextCall, TypeOK, TasksTypeOK
<1>2. InOrder(todo["main"])'
  BY <1>1, RestInOrder DEF ExitPath, InOrder
<1>3. ASSUME NEW t \in Task
      PROVE  task_state'[t] = "SHUTDOWN" \/ Ahead(todo'["main"], Do("stop", t))
  <2>1. task_state[t] = "SHUTDOWN" \/ Ahead(s, Do("stop", t))
    BY DEF ExitPath
  <2> QED
    BY <1>1, <2>1, AheadTail
<1> QED
  BY <1>2, <1>3 DEF ExitPath

\* Before the exit path nothing is stopped.
LEMMA AllRun ==
  ASSUME TypeOK, StopsInOrder, pc["main"] # "teardown"
  PROVE  \A t \in Task : task_state[t] = "RUNNING" /\ pc[t] \notin {"teardown", "ended"}
BY DEF StopsInOrder, Orderly, TypeOK, TasksTypeOK

\* The exit path starts in order, with a stop for every task.
LEMMA ExitPathOrder ==
  ASSUME TypeOK, \A t \in Task : task_state[t] = "RUNNING"
  PROVE  /\ InOrder(MainTeardownScript)
         /\ \A t \in Task : Ahead(MainTeardownScript, Do("stop", t))
<1>1. InOrder(MainTeardownScript)
  <2>1. CASE "temp" \in Task /\ "light" \in Task
    BY <2>1, TaskAssumption DEF InOrder, MainTeardownScript, Each, ForTask, Do, Send
  <2>2. CASE "temp" \in Task /\ "light" \notin Task
    BY <2>2, TaskAssumption DEF InOrder, MainTeardownScript, Each, ForTask, Do, Send
  <2>3. CASE "temp" \notin Task /\ "light" \in Task
    BY <2>3, TaskAssumption DEF InOrder, MainTeardownScript, Each, ForTask, Do, Send
  <2>4. CASE "temp" \notin Task /\ "light" \notin Task
    BY <2>4, TaskAssumption DEF InOrder, MainTeardownScript, Each, ForTask, Do, Send
  <2> QED
    BY <2>1, <2>2, <2>3, <2>4
<1>2. ASSUME NEW t \in Task PROVE Ahead(MainTeardownScript, Do("stop", t))
  <2> DEFINE first == <<Send("logger", "FILE_CHANGE", "main")>>
             stops == Each("stop")
             rest == Each("pthread_join")
             unlink == <<Do("mq_unlink", "main")>>
             exit == <<Do("exit", "main")>>
  <2>1. /\ first \in Seq(Call) /\ stops \in Seq(Call) /\ rest \in Seq(Call)
        /\ unlink \in Seq(Call) /\ exit \in Seq(Call)
    BY MainInThread, RequestTypes, EachType, DoType DEF CallName
  <2>2. Ahead(stops, Do("stop", t))
    BY EachTask DEF CallName
  <2>3. MainTeardownScript = first \o stops \o unlink \o rest \o exit
    BY DEF MainTeardownScript
  <2> HIDE DEF first, stops, rest, unlink, exit
  <2>4. Ahead(first \o stops, Do("stop", t)) /\ first \o stops \in Seq(Call)
    BY <2>1, <2>2, AheadConcat, ConcatType
  <2>5. Ahead(first \o stops \o unlink, Do("stop", t)) /\ first \o stops \o unlink \in Seq(Call)
    BY <2>1, <2>4, AheadConcat, ConcatType
  <2>6. /\ Ahead(first \o stops \o unlink \o rest, Do("stop", t))
        /\ first \o stops \o unlink \o rest \in Seq(Call)
    BY <2>1, <2>5, AheadConcat, ConcatType
  <2> QED
    BY <2>1, <2>3, <2>6, AheadConcat
<1> QED
  BY <1>1, <1>2

\* Main makes a step.
LEMMA MainStops ==
  ASSUME TypeOK, AllPermitted, OnTheWayOut, OnTheWayOut', StopsInOrder, MainStep, ~Die, process' = "up"
  PROVE  StopsInOrder'
<1>0. /\ "main" \in Thread /\ ServerStep /\ pc \in [Thread -> Label] /\ todo \in [Thread -> Seq(Call)]
      /\ \A t \in Task : t \in Thread /\ t # "main" /\ pc'[t] = pc[t] /\ todo'[t] = todo[t]
  BY MainInThread, TaskAssumption, MainStepCases DEF ServerStep, TypeOK, TasksTypeOK
<1>1. \/ CommonCall("main") \/ MainCalls
      \/ MainLoops /\ pc["main"] \notin Calling
  BY MainStepCases
<1>2. CASE (CommonCall("main") \/ MainCalls) /\ pc["main"] # "teardown"
  <2>1. /\ pc["main"] \in Calling /\ Performs("main")
        /\ pc'["main"] \notin {"teardown", "ended"}
    <3>1. pc["main"] \in Calling
      BY <1>2 DEF CommonCall, MainCalls, CallStop, CallSetError, CallAlarm, CallUnlink, CallJoin, CallExit, MainCall
    <3>2. Performs("main")
      BY <3>1, MainStepCases
    <3>3. \E label \in {pc["main"], ErrnoOverwritten(pc["main"])} : pc'["main"] \in {label, Continue[label]}
      BY <1>0, <3>1, <3>2, PerformsKeeps
    <3> QED
      BY <1>2, <3>1, <3>2, <3>3, NoShortcut
  <2>2. task_state' = task_state
    <3>1. ~CallStop
      <4>1. SUFFICES ASSUME CallStop PROVE FALSE
        OBVIOUS
      <4>2. NextCall("main") \in Permitted("main", pc["main"]) /\ NextCall("main").call = "stop"
        BY <1>0, <4>1, RestPermitted DEF CallStop, MainCall
      <4> QED
        BY <1>2, <4>2 DEF Permitted, ExitCall
    <3> QED
      BY <1>2, <3>1 DEF CommonCall, MainCalls, CallSetError, CallAlarm, CallUnlink, CallJoin, CallExit,
           CallSend, CallKill, CallNotify, CallMayDie, CallI2C, CallOpenLog, CallWriteLog
  <2> QED
    BY <1>0, <1>2, <2>1, <2>2, AllRun DEF StopsInOrder, ExitPath, Orderly
<1>3. CASE (CommonCall("main") \/ MainCalls) /\ pc["main"] = "teardown"
  <2>1. /\ todo["main"] # <<>> /\ NextCall("main") \in TeardownCall
        /\ StillToDo(todo["main"])
    BY <1>3, HeadTailProperties DEF OnTheWayOut, StillToDo, NextCall
  <2>2. CASE CallStop
    <3>1. Return("main") /\ pthread_kill(Target) /\ task_state' = [task_state EXCEPT ![Target] = "SHUTDOWN"]
      BY <2>2 DEF CallStop
    <3>2. Target \in Thread /\ NextCall("main") = Do("stop", Target)
      BY <1>0, <2>1, <2>2, NextCallType DEF Target, CallStop, MainCall, TeardownCall, Call, Do
    <3>3. ExitPath'
      <4>1. ASSUME NEW t \in Task
            PROVE  \/ task_state'[t] = task_state[t] /\ NextCall("main") # Do("stop", t)
                   \/ task_state'[t] = "SHUTDOWN"
        BY <3>1, <3>2 DEF Do, TypeOK, TasksTypeOK
      <4> QED
        BY <1>3, <2>1, <3>1, <4>1, ExitPathShrinks DEF StopsInOrder
    <3>4. pc'["main"] = "teardown"
      <4>1. pc'["main"] \in {"teardown", "ended"}
        BY <1>0, <1>3, <3>1, RunMoves DEF Return, Continue
      <4> QED
        BY <4>1 DEF OnTheWayOut
    <3>5. ASSUME NEW t \in Task PROVE Orderly(t)'
      <4>1. CASE t = Target
        <5>1. task_state'[t] = "SHUTDOWN" /\ pending'[t] > 0
          BY <1>0, <3>1, <4>1, RaisedType DEF pthread_kill, TypeOK, TasksTypeOK, MQTypeOK
        <5> QED
          BY <3>4, <5>1 DEF Orderly, Asleep
      <4>2. CASE t # Target
        <5>1. task_state'[t] = task_state[t]
          BY <3>1, <4>2
        <5> QED
          BY <1>0, <3>4, <5>1, OthersOrderly DEF StopsInOrder
      <4> QED
        BY <4>1, <4>2
    <3> QED
      BY <3>3, <3>5 DEF StopsInOrder
  <2>3. CASE ~CallStop
    <3>1. Return("main") /\ task_state' = task_state /\ NextCall("main").call # "stop"
      <4>1. ~CallExit
        BY DEF CallExit
      <4>2. CASE CommonCall("main")
        BY <2>1, <4>2 DEF CommonCall, TeardownCall, CallSend, CallKill, CallNotify, CallMayDie, CallI2C,
             CallOpenLog, CallWriteLog
      <4>3. CASE MainCalls
        BY <2>3, <4>1, <4>3 DEF MainCalls, CallSetError, CallAlarm, CallUnlink, CallJoin, MainCall
      <4> QED
        BY <1>3, <4>2, <4>3
    <3>2. ExitPath'
      BY <1>3, <2>1, <3>1, ExitPathShrinks DEF StopsInOrder, Do
    <3>3. pc'["main"] = "teardown"
      <4>1. pc'["main"] \in {"teardown", "ended"}
        BY <1>0, <1>3, <3>1, RunMoves DEF Return, Continue
      <4> QED
        BY <4>1 DEF OnTheWayOut
    <3> QED
      BY <1>0, <3>1, <3>2, <3>3, OthersOrderly DEF StopsInOrder
  <2> QED
    BY <2>2, <2>3
<1>4. CASE MainLoops /\ pc["main"] \notin Calling
  <2>1. pc["main"] # "teardown" /\ task_state' = task_state
    BY <1>4 DEF Calling, Continue, MainLoops, MainLoop, MainSigwait, MainTimer, MainNotify, MainReceive,
         MainReceiveEmpty, MainTick, MainStartup, HbReceive, HbReceiveEmpty, HbCheck, HbJudge, HbRaise
  <2>2. \A t \in Task : task_state[t] = "RUNNING" /\ pc[t] \notin {"teardown", "ended"}
    BY <2>1, AllRun
  <2>3. pc'["main"] = "teardown" => todo'["main"] = MainTeardownScript
    <3>1. CASE MainLoop
      <4>1. Run("main", "teardown", MainTeardownScript) \/ (Goto("main", "sigwait") /\ UNCHANGED todo)
        BY <3>1 DEF MainLoop
      <4>2. ASSUME Goto("main", "sigwait"), UNCHANGED todo PROVE pc'["main"] = "sigwait"
        BY <1>0, <4>2, GotoMoves
      <4>3. ASSUME Run("main", "teardown", MainTeardownScript) PROVE todo'["main"] = MainTeardownScript
        BY <1>0, <4>3, RunMoves
      <4> QED
        BY <4>1, <4>2, <4>3
    <3>2. CASE MainSigwait \/ MainTimer \/ MainNotify \/ MainTick \/ HbJudge
      <4>1. \/ \E label \in {"notify", "tick", "receive", "startup", "hb_receive", "raise"} :
                 Goto("main", label) /\ UNCHANGED todo
            \/ \E script : Run("main", "round", script)
        BY <3>2 DEF MainSigwait, MainTimer, MainNotify, MainTick, HbJudge
      <4>2. pc'["main"] \in {"notify", "tick", "receive", "startup", "hb_receive", "raise", "round",
                            Continue["round"]}
        BY <1>0, <4>1, RunMoves, GotoMoves
      <4> QED
        BY <4>2 DEF Continue
    <3>3. CASE MainReceive \/ MainReceiveEmpty \/ MainStartup \/ HbReceive \/ HbReceiveEmpty \/ HbCheck \/ HbRaise
      <4>1. \E label \in {"handle", "again", "round", "hb_handle", "hb_again", "verdict"} :
              \E script : Run("main", label, script)
        BY <3>3 DEF MainReceive, MainReceiveEmpty, MainStartup, HbReceive, HbReceiveEmpty, HbCheck, HbRaise
      <4>2. \E label \in {"handle", "again", "round", "hb_handle", "hb_again", "verdict"} :
              pc'["main"] \in {label, Continue[label]}
        BY <1>0, <4>1, RunMoves
      <4> QED
        BY <4>2 DEF Continue
    <3> QED
      BY <1>4, <3>1, <3>2, <3>3 DEF MainLoops
  <2>4. ExitPath'
    BY <2>1, <2>2, <2>3, ExitPathOrder DEF ExitPath, InOrder
  <2> QED
    BY <1>0, <2>1, <2>2, <2>4 DEF StopsInOrder, Orderly
<1> QED
  BY <1>1, <1>2, <1>3, <1>4

\* A task or a client makes a step.
LEMMA OtherStops ==
  ASSUME TypeOK, StopsInOrder, ClientStep \/ \E u \in Task : ServerTask(u), ~Die
  PROVE  StopsInOrder'
<1>0. "main" \in Thread /\ \A t \in Task : t \in Thread /\ t # "main"
  BY MainInThread, TaskAssumption
<1>1. ServerStep \/ ClientStep
  BY DEF ServerStep
<1>2. /\ pc'["main"] = pc["main"] /\ todo'["main"] = todo["main"] /\ task_state' = task_state
      /\ \A t \in Task : pc'[t] # pc[t] => TaskStep(t)
  <2>1. CASE ClientStep
    BY <2>1 DEF ClientStep, ClientSend, taskVars
  <2>2. ASSUME NEW u \in Task, ServerTask(u)
        PROVE  /\ task_state' = task_state
               /\ TaskStep(u) /\ \A v \in Thread : v # u => pc'[v] = pc[v] /\ todo'[v] = todo[v]
    <3>1. TaskStep(u)
      BY <2>2 DEF ServerTask
    <3>2. task_state' = task_state
      BY <3>1 DEF TaskStep, CommonCall, CallSend, CallKill, CallNotify, CallMayDie, CallI2C, CallOpenLog,
                  CallWriteLog, TaskLoop, TaskSigwait, TaskNotify, TaskReceive, TaskReceiveEmpty
    <3> QED
      BY <3>1, <3>2, TaskStepCases
  <2> QED
    BY <1>0, <2>1, <2>2
<1>3. ExitPath'
  BY <1>2 DEF StopsInOrder, ExitPath, InOrder, Ahead
<1>4. ASSUME NEW t \in Task PROVE Orderly(t)'
  <2>1. Orderly(t)
    BY DEF StopsInOrder
  <2>2. CASE pc'[t] = pc[t]
    BY <1>1, <1>2, <2>1, <2>2, OthersOrderly
  <2>3. CASE pc'[t] # pc[t]
    BY <1>2, <2>1, <2>3, TaskOrderly
  <2> QED
    BY <2>2, <2>3
<1> QED
  BY <1>3, <1>4 DEF StopsInOrder

\* A stop signal arrives.
LEMMA SignalStops ==
  ASSUME TypeOK, OnTheWayOut, StopsInOrder, NEW s, UserSignal(s), ~Die
  PROVE  StopsInOrder'
<1>1. PICK u \in Thread : handleCtrlC(u)
  BY DEF UserSignal
<1>2. /\ UNCHANGED <<pc, todo>> \/ (Blocked(u) /\ Interrupted(u))
      /\ pending' = (IF u = "main" THEN Raised(u) ELSE pending) /\ task_state' = task_state
  BY <1>1 DEF UserSignal, handleCtrlC
<1>3. ASSUME NEW t \in Task PROVE pending'[t] = pending[t] /\ t \in Thread /\ t # "main"
  BY <1>2, <1>3, MainInThread, TaskAssumption, RaisedType DEF TypeOK, MQTypeOK
<1>4. CASE UNCHANGED <<pc, todo>>
  BY <1>2, <1>3, <1>4 DEF StopsInOrder, ExitPath, InOrder, Ahead, Orderly, Asleep
<1>5. CASE Blocked(u) /\ Interrupted(u)
  <2>0. pc[u] \in Calling
    BY <1>5 DEF Blocked
  <2>1. /\ \E label \in {pc[u], ErrnoOverwritten(pc[u])} : pc'[u] \in {label, Continue[label]}
        /\ \A v \in Thread : v # u => pc'[v] = pc[v] /\ todo'[v] = todo[v]
    <3>1. \E script : Run(u, ErrnoOverwritten(pc[u]), script)
      BY <1>5, InterruptedRuns
    <3> QED
      BY <1>5, <3>1, InterruptedType, RunMoves
  <2>2. pc'[u] # "sigwait" /\ (pc[u] # "teardown" => pc'[u] \notin {"teardown", "ended"})
    <3>1. pc'[u] # "sigwait"
      BY <2>0, <2>1 DEF Calling, Continue, ErrnoOverwritten
    <3> QED
      BY <2>0, <2>1, <3>1, NoShortcut
  <2>3. /\ pc["main"] = "teardown" => pc'["main"] = "teardown" /\ todo'["main"] = todo["main"]
        /\ pc["main"] # "teardown" => pc'["main"] # "teardown"
    BY <1>5, <2>1, <2>2, MainInThread, NotInterrupted
  <2>4. ExitPath'
    BY <1>2, <2>3 DEF StopsInOrder, ExitPath, InOrder, Ahead
  <2>5. ASSUME NEW t \in Task PROVE Orderly(t)'
    BY <1>2, <1>3, <2>1, <2>2, <2>3 DEF StopsInOrder, Orderly, Asleep
  <2> QED
    BY <2>4, <2>5 DEF StopsInOrder
<1> QED
  BY <1>2, <1>4, <1>5

(***************************************************************************)
(* The invariant, and the theorem.                                         *)
(***************************************************************************)
LEMMA InitHang == Init => HangInv
<1> SUFFICES ASSUME Init PROVE HangInv
  OBVIOUS
<1>1. /\ pc["main"] = "setup" /\ todo["main"] = MainSetupScript
      /\ \A t \in Task : t \in Thread /\ pc[t] = "setup" /\ task_state[t] = "RUNNING"
  BY MainInThread DEF Init, TasksInit, FirstScripts
<1>2. Timed
  BY <1>1, RoundsRestart DEF Timed, Due, Calling, Continue
<1>3. StopsInOrder
  BY <1>1 DEF StopsInOrder, ExitPath, Orderly
<1> QED
  BY <1>2, <1>3 DEF HangInv

LEMMA NextHang == TypeOK /\ ExitInv /\ ExitInv' /\ HangInv /\ [Next]_vars => HangInv'
<1> SUFFICES ASSUME TypeOK, ExitInv, ExitInv', HangInv, [Next]_vars, process' = "up"
             PROVE  (Timed /\ StopsInOrder)'
  BY DEF HangInv
<1>1. ~Die /\ OnTheWayOut'
  BY DEF Die, ExitInv
<1>2. CASE UNCHANGED vars
  BY <1>2 DEF HangInv, Timed, StopsInOrder, ExitPath, InOrder, Orderly, Asleep, Due, Ahead,
              vars, mqVars, taskVars, mainVars
<1>3. CASE process = "up" /\ Next /\ ~UNCHANGED vars
  <2>1. AllPermitted /\ OnTheWayOut /\ Timed /\ StopsInOrder
    BY <1>3 DEF ExitInv, HangInv
  <2>2. CASE MainStep
    <3>1. Timed'
      <4>1. CASE pc["main"] \in Calling
        BY <1>1, <2>1, <2>2, <4>1, CallTimed
      <4>2. CASE pc["main"] \notin Calling
        <5>1. MainLoops
          BY <2>2, <4>2 DEF MainStep, MainLoops, CommonCall, CallStop, CallSetError, CallAlarm, CallUnlink,
                            CallJoin, CallExit, MainCall
        <5> QED
          BY <1>1, <2>1, <5>1, LoopTimed
      <4> QED
        BY <4>1, <4>2
    <3>2. StopsInOrder'
      BY <1>1, <2>1, <2>2, MainStops
    <3> QED
      BY <3>1, <3>2
  <2>3. CASE ClientStep \/ \E u \in Task : ServerTask(u)
    <3>1. pc'["main"] = pc["main"] /\ todo'["main"] = todo["main"] /\ alarm' = alarm
      <4>1. CASE ClientStep
        BY <4>1 DEF ClientStep, ClientSend, taskVars, mainVars
      <4>2. ASSUME NEW u \in Task, ServerTask(u)
            PROVE  pc'["main"] = pc["main"] /\ todo'["main"] = todo["main"] /\ alarm' = alarm
        BY <1>1, <4>2, TaskStepCases, MainInThread, TaskAssumption DEF ServerTask, mainVars
      <4> QED
        BY <2>3, <4>1, <4>2
    <3> QED
      BY <1>1, <2>1, <2>3, <3>1, TimerAlone, OtherStops
  <2>4. ASSUME NEW s, UserSignal(s) PROVE (Timed /\ StopsInOrder)'
    BY <1>1, <2>1, <2>4, SignalTimed, SignalStops
  <2>5. \/ MainStep \/ ClientStep \/ \E u \in Task : ServerTask(u)
        \/ \E s \in StopSignals : UserSignal(s)
    BY <1>3 DEF Next, ServerStep, ClientStep, Terminated
  <2> QED
    BY <2>2, <2>3, <2>4, <2>5
<1>4. CASE process # "up" /\ Restart
  <2>1. /\ pc'["main"] = "setup" /\ todo'["main"] = MainSetupScript
        /\ \A t \in Task : pc'[t] = "setup" /\ task_state'[t] = "RUNNING"
    BY <1>4, MainInThread DEF Restart, FirstScripts
  <2>2. Timed'
    BY <2>1, RoundsRestart DEF Timed, Due, Ahead, Calling, Continue
  <2>3. StopsInOrder'
    BY <2>1 DEF StopsInOrder, ExitPath, Orderly
  <2> QED
    BY <2>2, <2>3
<1> QED
  BY <1>2, <1>3, <1>4 DEF Next, Terminated

(***************************************************************************)
(* At every moment main's timer runs, or is about to be set, unless main   *)
(* is stopping; and whoever main will join has been kicked, will be, or    *)
(* has ended (main.c:130, 216, 237-256).                                   *)
(***************************************************************************)
THEOREM HangInvariant == Spec => []HangInv
<1>1. TypeOK /\ ExitInv /\ ExitInv' /\ HangInv /\ [Next]_vars => HangInv'
  BY NextHang
<1> QED
  BY <1>1, InitHang, TypeCorrect, ExitInvariant, PTL DEF Spec

(***************************************************************************)
(* Every hang is a wait for room in a full queue: in main's, in that of a  *)
(* logger that has left its loop, or in that of a task nobody has woken.   *)
(***************************************************************************)
THEOREM HangsAreFullQueuesHold == Spec => []HangsAreFullQueues
<1>1. TypeOK /\ ExitInv /\ NoLostWakeup /\ HangInv => HangsAreFullQueues
  <2> SUFFICES ASSUME TypeOK, ExitInv, NoLostWakeup, HangInv, Hang
               PROVE  \E t \in Thread : FullQueue(t)
    BY DEF HangsAreFullQueues, FullQueue
  <2>1. AllPermitted /\ OnTheWayOut /\ Timed /\ StopsInOrder
    BY DEF ExitInv, HangInv, Hang
  <2> QED
    BY <2>1, HangCases
<1> QED
  BY <1>1, TypeCorrect, ExitInvariant, WakeupNeverLost, HangInvariant, PTL

(***************************************************************************)
(* How much room the queues need.                                          *)
(***************************************************************************)
\* Nobody but main writes to the queues of the tasks at first, and each of them
\* has room for two messages per task.
Uncrowded ==
  /\ ClientTargets \subseteq {"main"} /\ ~Restarts
  /\ Capacity >= 2 * Cardinality(Task)

Driver == Task \ {"logger"}
Kick(t) == Do("pthread_kill", t)

\* A task that sleeps, or is about to, will be woken for whatever is in its queue.
\* (Only main runs the stretch "round".)
Aware(t) == pc[t] \in {"setup", "loop", "sigwait", "round"} => Watching(t)

\* The setups send log lines only, and each task keeps to its own code.
SetupCall ==
  {c \in Call : c = Log \/ c.call \in {"mq_notify", "open_i2c", "initLogger", "alarm"}}
TaskLabel ==
  {"setup", "loop", "sigwait", "notify", "receive", "handle", "again", "teardown", "ended"}
Prepared(t) ==
  /\ pc[t] = "setup" => todo[t] \in Seq(SetupCall)
  /\ t \in Task => pc[t] \in TaskLabel
SetupInv == \A t \in Thread : Prepared(t)

\* Script s holds at most k messages for thread t.
SendsTo(c, t) == c.call = "mq_send" /\ c.to = t
AtMost(k, s, t) ==
  LET sends == {i \in 1..Len(s) : SendsTo(s[i], t)}
  IN  /\ k = 0 => sends = {}
      /\ k = 1 => \A i, j \in sends : i = j
      /\ k = 2 => \A i, j, l \in sends : i = j \/ j = l \/ i = l

\* The queue of t never gets longer than n from what main has to do.
Fits(t, n) == \E k \in 0..2 : AtMost(k, todo["main"], t) /\ Len(queue[t]) + k <= n

\* What is left of script s, its first calls done or given up.
IsRest(r, s) == \E n \in 1..Len(s) : Len(r) = Len(s) - n /\ \A i \in 1..Len(r) : r[i] = s[i + n]

LEMMA TailRest ==
  ASSUME NEW s \in Seq(Call), s # <<>>
  PROVE  IsRest(Tail(s), s)
<1>1. /\ Len(s) \in Nat /\ Len(s) >= 1 /\ Len(Tail(s)) = Len(s) - 1
      /\ \A i \in 1..Len(Tail(s)) : Tail(s)[i] = s[i + 1]
  BY HeadTailProperties, LenProperties
<1>2. 1 \in 1..Len(s)
  BY <1>1
<1> QED
  BY <1>1, <1>2 DEF IsRest

LEMMA AheadSome ==
  ASSUME NEW s, NEW c, Ahead(s, c)
  PROVE  s # <<>>
<1>1. SUFFICES ASSUME Ahead(<<>>, c) PROVE FALSE
  OBVIOUS
<1> QED
  BY <1>1 DEF Ahead

LEMMA AtMostRest ==
  ASSUME NEW s \in Seq(Call), NEW r \in Seq(Call), IsRest(r, s), NEW k \in 0..2, NEW t, AtMost(k, s, t)
  PROVE  AtMost(k, r, t)
<1> DEFINE S == {i \in 1..Len(s) : SendsTo(s[i], t)}
           R == {i \in 1..Len(r) : SendsTo(r[i], t)}
<1>1. PICK n \in 1..Len(s) : Len(r) = Len(s) - n /\ \A i \in 1..Len(r) : r[i] = s[i + n]
  BY DEF IsRest
<1>2. Len(s) \in Nat /\ Len(r) \in Nat /\ n \in Nat
  BY LenProperties
<1>3. ASSUME NEW i \in R PROVE i + n \in S /\ i \in Nat
  <2>1. i \in 1..Len(r) /\ SendsTo(r[i], t)
    BY <1>3
  <2>2. i + n \in 1..Len(s) /\ i \in Nat
    BY <1>1, <1>2, <2>1
  <2>3. r[i] = s[i + n]
    BY <1>1, <2>1
  <2> QED
    BY <2>1, <2>2, <2>3
<1>4. /\ k = 0 => S = {}
      /\ k = 1 => \A i, j \in S : i = j
      /\ k = 2 => \A i, j, l \in S : i = j \/ j = l \/ i = l
  BY DEF AtMost
<1> HIDE DEF R, S
<1>5. \A i, j \in R : i + n = j + n => i = j
  BY <1>2, <1>3
<1>6. /\ k = 0 => R = {}
      /\ k = 1 => \A i, j \in R : i = j
      /\ k = 2 => \A i, j, l \in R : i = j \/ j = l \/ i = l
  BY <1>3, <1>4, <1>5
<1> QED
  BY <1>6 DEF AtMost, R

LEMMA AtMostSent ==
  ASSUME NEW s \in Seq(Call), s # <<>>, NEW k \in 0..2, NEW t, AtMost(k, s, t), SendsTo(Head(s), t)
  PROVE  k - 1 \in 0..1 /\ AtMost(k - 1, Tail(s), t)
<1> DEFINE S == {i \in 1..Len(s) : SendsTo(s[i], t)}
           R == {i \in 1..Len(Tail(s)) : SendsTo(Tail(s)[i], t)}
<1>1. /\ Len(s) \in Nat /\ Len(s) >= 1 /\ Len(Tail(s)) = Len(s) - 1 /\ Head(s) = s[1]
      /\ \A i \in 1..Len(Tail(s)) : Tail(s)[i] = s[i + 1]
  BY HeadTailProperties, LenProperties
<1>2. \A i \in R : i + 1 \in S /\ i \in Nat /\ i >= 1
  BY <1>1
<1>3. 1 \in S
  BY <1>1
<1>4. /\ k = 0 => S = {}
      /\ k = 1 => \A i, j \in S : i = j
      /\ k = 2 => \A i, j, l \in S : i = j \/ j = l \/ i = l
  BY DEF AtMost
<1> HIDE DEF R, S
<1>5. k \in {1, 2}
  BY <1>3, <1>4
<1>6. \A i, j \in R : i + 1 # 1 /\ (i + 1 = j + 1 => i = j)
  BY <1>2
<1>7. /\ k = 1 => R = {}
      /\ k = 2 => \A i, j \in R : i = j
  BY <1>2, <1>3, <1>4, <1>6
<1>8. k - 1 \in 0..1 /\ (k - 1 = 0 => R = {}) /\ (k - 1 = 1 => \A i, j \in R : i = j) /\ k - 1 # 2
  BY <1>5, <1>7
<1> QED
  BY <1>8 DEF AtMost, R

\* Main makes the next call of its script.
LEMMA MainReturns ==
  ASSUME TypeOK, AllPermitted, MainStep, ~Die, pc["main"] \in Calling
  PROVE  /\ todo["main"] # <<>> /\ todo["main"] \in Seq(Call) /\ Tail(todo["main"]) \in Seq(Call)
         /\ Return("main") /\ todo'["main"] = Tail(todo["main"]) /\ NextCall("main") = Head(todo["main"])
         /\ pc'["main"] = IF Tail(todo["main"]) = <<>> THEN Continue[pc["main"]] ELSE pc["main"]
<1>0. "main" \in Thread
  BY MainInThread
<1>1. CommonCall("main") \/ MainCalls
  BY MainStepCases
<1>2. todo["main"] # <<>> /\ todo["main"] \in Seq(Call)
  BY <1>0, <1>1 DEF CommonCall, MainCalls, CallStop, CallSetError, CallAlarm, CallUnlink, CallJoin, CallExit,
                    MainCall, TypeOK, TasksTypeOK
<1>3. ~CallI2C("main")
  <2>1. NextCall("main") \in Permitted("main", pc["main"])
    BY <1>0, <1>2, RestPermitted
  <2> QED
    BY <2>1 DEF Permitted, CallI2C
<1>4. Return("main")
  BY <1>1, <1>3 DEF CommonCall, MainCalls, CallStop, CallSetError, CallAlarm, CallUnlink, CallJoin, CallExit,
                    CallSend, CallKill, CallNotify, CallMayDie, CallOpenLog, CallWriteLog
<1>5. todo'["main"] = Tail(todo["main"])
  BY <1>0, <1>4, RunMoves DEF Return
<1>6. pc'["main"] = IF Tail(todo["main"]) = <<>> THEN Continue[pc["main"]] ELSE pc["main"]
  <2>1. Run("main", pc["main"], Tail(todo["main"]))
    BY <1>4 DEF Return
  <2> QED
    BY <1>0, <2>1 DEF Run, TypeOK, TasksTypeOK
<1>7. Tail(todo["main"]) \in Seq(Call)
  BY <1>2, HeadTailProperties
<1> QED
  BY <1>2, <1>4, <1>5, <1>6, <1>7 DEF NextCall

\* An interrupted main goes on with what is left.
LEMMA MainInterrupted ==
  ASSUME TypeOK, AllPermitted, Blocked("main"), Interrupted("main")
  PROVE  /\ todo["main"] \in Seq(Call) /\ todo'["main"] \in Seq(Call) /\ IsRest(todo'["main"], todo["main"])
         /\ LET label == ErrnoOverwritten(pc["main"])
            IN  pc'["main"] = IF todo'["main"] = <<>> THEN Continue[label] ELSE label
         /\ \A t \in Task : pc'[t] = pc[t] /\ todo'[t] = todo[t]
<1> DEFINE s == todo["main"]
           label == ErrnoOverwritten(pc["main"])
<1>0. "main" \in Thread /\ \A t \in Task : t \in Thread /\ t # "main"
  BY MainInThread, TaskAssumption
<1>1. /\ s \in Seq(Call) /\ s # <<>> /\ NextCall("main").call = "mq_send" /\ pc["main"] \in Calling
      /\ Len(s) \in Nat
  BY <1>0, LenProperties DEF TypeOK, TasksTypeOK, Blocked
<1>2. NextCall("main").msg.id \notin {"TEMP_VALUE", "LIGHT_VALUE"}
  BY <1>0, <1>1, RestPermitted, OwnReplies
<1>3. ASSUME NEW n \in 1..Len(s)
      PROVE  SubSeq(s, n + 1, Len(s)) \in Seq(Call) /\ IsRest(SubSeq(s, n + 1, Len(s)), s)
  <2>1. n + 1 \in 1..Len(s) + 1 /\ \A i \in (n + 1)..Len(s) : s[i] \in Call
    BY <1>1, <1>3, ElementOfSeq
  <2>2. /\ SubSeq(s, n + 1, Len(s)) \in Seq(Call) /\ Len(SubSeq(s, n + 1, Len(s))) = Len(s) - n
        /\ \A i \in 1..Len(s) - n : SubSeq(s, n + 1, Len(s))[i] = s[i + n]
    BY <1>1, <1>3, <2>1, SubSeqProperties
  <2> QED
    BY <2>2 DEF IsRest
<1>4. Tail(s) \in Seq(Call) /\ IsRest(Tail(s), s)
  BY <1>1, TailRest, HeadTailProperties
<1>5. \E script : Run("main", label, script) /\ script \in Seq(Call) /\ IsRest(script, s)
  BY <1>2, <1>3, <1>4 DEF Interrupted
<1>6. PICK script : Run("main", label, script) /\ script \in Seq(Call) /\ IsRest(script, s)
  BY <1>5
<1>7. todo'["main"] = script /\ \A t \in Task : pc'[t] = pc[t] /\ todo'[t] = todo[t]
  BY <1>0, <1>6, RunMoves
<1>8. pc'["main"] = IF script = <<>> THEN Continue[label] ELSE label
  BY <1>0, <1>6, RunMoves
<1> QED
  BY <1>1, <1>6, <1>7, <1>8

(***************************************************************************)
(* The setups.                                                             *)
(***************************************************************************)
\* The calls of a setup.
LEMMA SetupScripts ==
  /\ MainSetupScript \in Seq(SetupCall)
  /\ \A t \in Task : SetupScript(t) \in Seq(SetupCall)
<1>1. \A t \in Thread : \A name \in {"mq_notify", "open_i2c", "initLogger", "alarm"} :
        Do(name, t) \in SetupCall
  BY CallTypes DEF SetupCall, CallName, Do
<1>2. Log \in SetupCall /\ "main" \in Thread /\ \A t \in Task : t \in Thread
  BY MainInThread, CallTypes DEF SetupCall
<1>3. MainSetupScript \in Seq(SetupCall)
  BY <1>1, <1>2, ShortSeq DEF MainSetupScript
<1>4. ASSUME NEW t \in Task PROVE SetupScript(t) \in Seq(SetupCall)
  <2>1. /\ <<Log, Do("mq_notify", t), Log, Do("open_i2c", t)>> \in Seq(SetupCall)
        /\ <<Log, Do("mq_notify", t), Do("open_i2c", t), Log>> \in Seq(SetupCall)
        /\ <<Do("mq_notify", t), Do("initLogger", t)>> \in Seq(SetupCall)
    BY <1>1, <1>2, ShortSeq
  <2>2. /\ t = "temp" => SetupScript(t) = <<Log, Do("mq_notify", t), Log, Do("open_i2c", t)>>
        /\ t = "light" => SetupScript(t) = <<Log, Do("mq_notify", t), Do("open_i2c", t), Log>>
        /\ t = "logger" => SetupScript(t) = <<Do("mq_notify", t), Do("initLogger", t)>>
    BY DEF SetupScript
  <2> QED
    BY <2>1, <2>2, TaskAssumption
<1> QED
  BY <1>3, <1>4

\* A thread in its setup makes a call.
LEMMA SetupReturns ==
  ASSUME TypeOK, SetupInv, NEW u \in Thread, CommonCall(u), ~Die, pc[u] = "setup"
  PROVE  /\ Return(u) /\ NextCall(u) \in SetupCall /\ todo[u] \in Seq(SetupCall) /\ todo[u] # <<>>
         /\ todo'[u] = Tail(todo[u]) /\ Tail(todo[u]) \in Seq(SetupCall) /\ pc'[u] \in {"setup", "loop"}
<1>1. todo[u] \in Seq(SetupCall) /\ todo[u] # <<>>
  BY DEF SetupInv, Prepared, CommonCall
<1>2. NextCall(u) \in SetupCall /\ Tail(todo[u]) \in Seq(SetupCall)
  BY <1>1, HeadTailProperties DEF NextCall
<1>3. NextCall(u).call # "i2c"
  BY <1>2 DEF SetupCall, Log, Send
<1>4. Return(u)
  BY <1>3 DEF CommonCall, CallSend, CallKill, CallNotify, CallMayDie, CallI2C, CallOpenLog, CallWriteLog
<1>5. todo'[u] = Tail(todo[u]) /\ pc'[u] \in {"setup", "loop"}
  BY <1>4, RunMoves DEF Return, Continue
<1> QED
  BY <1>1, <1>2, <1>4, <1>5

\* A task makes a step.
LEMMA TaskPrepared ==
  ASSUME TypeOK, SetupInv, NEW t \in Task, TaskStep(t), ~Die
  PROVE  Prepared(t)'
<1>0. t \in Thread /\ pc[t] \in TaskLabel
  BY MainInThread DEF SetupInv, Prepared
<1>1. CASE CommonCall(t)
  <2>1. pc[t] \in Calling /\ \E label \in {pc[t], ErrnoOverwritten(pc[t])} : pc'[t] \in {label, Continue[label]}
    BY <1>0, <1>1, CallPerforms, PerformsKeeps
  <2>2. pc'[t] \in TaskLabel /\ (pc'[t] = "setup" => pc[t] = "setup")
    BY <1>0, <2>1 DEF TaskLabel, Calling, Continue, ErrnoOverwritten
  <2>3. pc[t] = "setup" => todo'[t] \in Seq(SetupCall)
    BY <1>0, <1>1, SetupReturns
  <2> QED
    BY <2>2, <2>3 DEF Prepared
<1>2. CASE ~CommonCall(t)
  <2>1. \/ \E label \in {"sigwait", "notify", "receive"} : Goto(t, label) /\ UNCHANGED todo
        \/ \E label \in {"teardown", "handle", "again"} : \E script : Run(t, label, script)
    BY <1>2 DEF TaskStep, TaskLoop, TaskSigwait, TaskNotify, TaskReceive, TaskReceiveEmpty
  <2>2. \/ pc'[t] \in {"sigwait", "notify", "receive"}
        \/ \E label \in {"teardown", "handle", "again"} : pc'[t] \in {label, Continue[label]}
    BY <1>0, <2>1, RunMoves, GotoMoves
  <2> QED
    BY <2>2 DEF Prepared, TaskLabel, Continue
<1> QED
  BY <1>1, <1>2

\* Main makes a step.
LEMMA MainPrepared ==
  ASSUME TypeOK, AllPermitted, SetupInv, MainStep, ~Die
  PROVE  Prepared("main")'
<1>0. "main" \in Thread /\ "main" \notin Task
  BY MainInThread, TaskAssumption
<1>1. CASE pc["main"] \in Calling
  <2>1. /\ pc'["main"] \in {pc["main"], Continue[pc["main"]]}
        /\ todo'["main"] = Tail(todo["main"]) /\ todo["main"] # <<>>
    BY <1>1, MainReturns
  <2>2. pc'["main"] = "setup" => pc["main"] = "setup"
    BY <1>1, <2>1 DEF Calling, Continue
  <2>3. pc["main"] = "setup" => todo'["main"] \in Seq(SetupCall)
    BY <1>0, <2>1, HeadTailProperties DEF SetupInv, Prepared
  <2> QED
    BY <1>0, <2>2, <2>3 DEF Prepared
<1>2. CASE pc["main"] \notin Calling
  <2>1. MainLoops
    BY <1>2 DEF MainStep, MainLoops, CommonCall, CallStop, CallSetError, CallAlarm, CallUnlink,
                CallJoin, CallExit, MainCall
  <2>2. \/ \E label \in {"sigwait", "notify", "tick", "receive", "startup", "hb_receive", "raise"} :
             Goto("main", label) /\ UNCHANGED todo
        \/ \E label \in {"teardown", "handle", "again", "round", "hb_handle", "hb_again", "verdict"} :
             \E script : Run("main", label, script)
    BY <2>1 DEF MainLoops, MainLoop, MainSigwait, MainTimer, MainNotify, MainReceive,
       MainReceiveEmpty, MainTick, MainStartup, HbReceive, HbReceiveEmpty, HbCheck, HbJudge, HbRaise
  <2>3. \/ pc'["main"] \in {"sigwait", "notify", "tick", "receive", "startup", "hb_receive", "raise"}
        \/ \E label \in {"teardown", "handle", "again", "round", "hb_handle", "hb_again", "verdict"} :
             pc'["main"] \in {label, Continue[label]}
    BY <1>0, <2>2, RunMoves, GotoMoves
  <2> QED
    BY <1>0, <2>3 DEF Prepared, Continue
<1> QED
  BY <1>1, <1>2

\* Any thread makes a step, or a client.
LEMMA SetupStep ==
  ASSUME TypeOK, AllPermitted, SetupInv, ServerStep \/ ClientStep, ~Die
  PROVE  SetupInv'
<1>0. \A t \in Thread : t \in Task \/ t = "main"
  BY DEF Thread
<1>1. ASSUME NEW u \in Thread, Prepared(u)',
             \A v \in Thread : v # u => pc'[v] = pc[v] /\ todo'[v] = todo[v]
      PROVE  SetupInv'
  BY <1>1 DEF SetupInv, Prepared
<1>2. CASE MainStep
  BY <1>0, <1>1, <1>2, MainPrepared, MainStepCases, MainInThread
<1>3. ASSUME NEW u \in Task, ServerTask(u) PROVE SetupInv'
  BY <1>1, <1>3, TaskPrepared, TaskStepCases, MainInThread DEF ServerTask
<1>4. CASE ClientStep
  BY <1>4 DEF ClientStep, ClientSend, taskVars, SetupInv, Prepared
<1> QED
  BY <1>2, <1>3, <1>4 DEF ServerStep

\* A stop signal interrupts a thread.
LEMMA SetupSignal ==
  ASSUME TypeOK, SetupInv, NEW s, UserSignal(s), ~Die
  PROVE  SetupInv'
<1>1. PICK u \in Thread : handleCtrlC(u)
  BY DEF UserSignal
<1>2. UNCHANGED <<pc, todo>> \/ (Blocked(u) /\ Interrupted(u))
  BY <1>1 DEF handleCtrlC
<1>3. CASE UNCHANGED <<pc, todo>>
  BY <1>3 DEF SetupInv, Prepared
<1>4. CASE Blocked(u) /\ Interrupted(u)
  <2>1. /\ \A v \in Thread : v # u => pc'[v] = pc[v] /\ todo'[v] = todo[v]
        /\ \E label \in {pc[u], ErrnoOverwritten(pc[u])} : pc'[u] \in {label, Continue[label]}
    <3>1. \E script : Run(u, ErrnoOverwritten(pc[u]), script)
      BY <1>4, InterruptedRuns
    <3> QED
      BY <1>4, <3>1, InterruptedType, RunMoves
  <2>2. pc[u] \in Calling
    BY <1>4 DEF Blocked
  <2>3. pc'[u] = "setup" => pc[u] = "setup"
    BY <2>1, <2>2 DEF Calling, Continue, ErrnoOverwritten
  <2>4. u \in Task => pc'[u] \in TaskLabel
    <3>1. u \in Task => pc[u] \in TaskLabel
      BY DEF SetupInv, Prepared
    <3> QED
      BY <2>1, <2>2, <3>1 DEF TaskLabel, Calling, Continue, ErrnoOverwritten
  <2>5. pc[u] = "setup" => todo'[u] \in Seq(SetupCall)
    <3>1. SUFFICES ASSUME pc[u] = "setup" PROVE todo'[u] \in Seq(SetupCall)
      OBVIOUS
    <3>2. todo[u] \in Seq(SetupCall) /\ todo[u] # <<>> /\ NextCall(u).call = "mq_send"
      BY <1>4, <3>1 DEF SetupInv, Prepared, Blocked
    <3>3. NextCall(u) \in SetupCall /\ Tail(todo[u]) \in Seq(SetupCall)
      BY <3>2, HeadTailProperties DEF NextCall
    <3>4. NextCall(u) = Log
      BY <3>2, <3>3 DEF SetupCall
    <3>5. NextCall(u).msg.id = "LOGGER"
      BY <3>4 DEF Log, Send, Msg
    <3>6. \E script \in {todo[u], Tail(todo[u])} : Run(u, ErrnoOverwritten(pc[u]), script)
      BY <1>4, <3>5 DEF Interrupted
    <3>7. PICK script \in {todo[u], Tail(todo[u])} : Run(u, ErrnoOverwritten(pc[u]), script)
      BY <3>6
    <3> QED
      BY <3>2, <3>3, <3>7 DEF Run, TypeOK, TasksTypeOK
  <2> QED
    BY <2>1, <2>3, <2>4, <2>5 DEF SetupInv, Prepared
<1> QED
  BY <1>2, <1>3, <1>4

(***************************************************************************)
(* A task that is aware of its queue stays so.                             *)
(***************************************************************************)
LEMMA AwareLasts ==
  ASSUME TypeOK, WakeupInv, ServerStep \/ ClientStep, ~Die, NEW t \in Task, Aware(t)
  PROVE  Aware(t)'
<1>0. t \in Thread
  BY MainInThread
<1>1. CASE pc[t] = "setup"
  <2>1. Kept(t)
    BY <1>1, StepKeeps DEF TaskSigwait
  <2> QED
    BY <1>1, <2>1 DEF Aware, Kept
<1>2. CASE pc[t] # "setup"
  <2>1. Rested(t)' /\ pc'[t] # "setup"
    BY <1>2, RestLasts, NoSetup DEF Aware, Rested
  <2> QED
    BY <2>1 DEF Aware, Rested
<1> QED
  BY <1>1, <1>2

LEMMA AwareSignal ==
  ASSUME TypeOK, WakeupInv, NEW s, UserSignal(s), ~Die, NEW t \in Task, Aware(t)
  PROVE  Aware(t)'
<1>0. t \in Thread /\ t # "main" /\ Awake(t)
  BY MainInThread, TaskAssumption, AwakeAll
<1>1. PICK u \in Thread : handleCtrlC(u)
  BY DEF UserSignal
<1>2. /\ pending' = (IF u = "main" THEN Raised(u) ELSE pending) /\ UNCHANGED <<queue, registered>>
      /\ UNCHANGED <<pc, todo>> \/ (Blocked(u) /\ Interrupted(u))
  BY <1>1 DEF handleCtrlC, UserSignal
<1>3. Watching(t) => Watching(t)'
  <2>1. Kept(t)
    BY <1>0, <1>2, KernelKeeps, MainInThread DEF TypeOK, mqVars
  <2> QED
    BY <2>1 DEF Kept
<1>4. \/ pc'[t] = pc[t]
      \/ /\ pc[t] \in Calling
         /\ \E label \in {pc[t], ErrnoOverwritten(pc[t])} : pc'[t] \in {label, Continue[label]}
  BY <1>0, <1>2, InterruptedType DEF Blocked
<1>5. pc'[t] \in {"setup", "loop", "sigwait", "round"} =>
        pc[t] \in {"setup", "loop", "sigwait", "round", "again"}
  BY <1>4 DEF Calling, Continue, ErrnoOverwritten
<1>6. pc[t] = "again" => Watching(t)
  BY <1>0 DEF Awake
<1> QED
  BY <1>3, <1>5, <1>6 DEF Aware

\* A task that is aware of its queue does not sleep on messages.
LEMMA AwareSleeps ==
  ASSUME TypeOK, NEW t \in Task, Aware(t), Asleep(t)
  PROVE  queue[t] = <<>>
BY DEF Aware, Asleep, Watching

\* A kick, or a message for a task that has registered, makes it aware.
LEMMA KickWakes ==
  ASSUME TypeOK, NEW t \in Task, pthread_kill(t)
  PROVE  Aware(t)'
BY MainInThread, RaisedType DEF Aware, Watching, pthread_kill, TypeOK, MQTypeOK

(***************************************************************************)
(* How many messages the scripts hold.                                     *)
(***************************************************************************)
\* Two scripts one after the other.
LEMMA AtMostBoth ==
  ASSUME NEW T, NEW a \in Seq(T), NEW b \in Seq(T), NEW t,
         NEW j \in 0..2, NEW k \in 0..2, AtMost(j, a, t), AtMost(k, b, t), NEW n \in 0..2, n = j + k
  PROVE  AtMost(n, a \o b, t)
<1> DEFINE A == {i \in 1..Len(a) : SendsTo(a[i], t)}
           B == {i \in 1..Len(b) : SendsTo(b[i], t)}
           S == {i \in 1..Len(a \o b) : SendsTo((a \o b)[i], t)}
<1>1. /\ Len(a) \in Nat /\ Len(b) \in Nat /\ Len(a \o b) = Len(a) + Len(b)
      /\ \A i \in 1..Len(a) : (a \o b)[i] = a[i]
      /\ \A i \in 1..Len(b) : (a \o b)[Len(a) + i] = b[i]
  BY LenProperties, ConcatProperties
<1>2. \A i \in S : i \in Nat /\ (i \in A \/ i - Len(a) \in B)
  <2>1. SUFFICES ASSUME NEW i \in S, i > Len(a) PROVE i - Len(a) \in B
    BY <1>1
  <2>2. i - Len(a) \in 1..Len(b) /\ (a \o b)[Len(a) + (i - Len(a))] = b[i - Len(a)] /\ Len(a) + (i - Len(a)) = i
    BY <1>1, <2>1
  <2> QED
    BY <2>2
<1>3. /\ j = 0 => A = {}
      /\ j = 1 => \A i, l \in A : i = l
      /\ j = 2 => \A i, l, m \in A : i = l \/ l = m \/ i = m
      /\ k = 0 => B = {}
      /\ k = 1 => \A i, l \in B : i = l
      /\ k = 2 => \A i, l, m \in B : i = l \/ l = m \/ i = m
  BY DEF AtMost
<1> HIDE DEF A, B, S
<1>4. \A i, l \in S : i - Len(a) = l - Len(a) => i = l
  BY <1>1, <1>2
<1>5. CASE j = 0
  <2>1. \A i \in S : i - Len(a) \in B
    BY <1>2, <1>3, <1>5
  <2>2. /\ k = 0 => S = {}
        /\ k = 1 => \A i, l \in S : i = l
        /\ k = 2 => \A i, l, m \in S : i = l \/ l = m \/ i = m
    BY <1>3, <1>4, <2>1
  <2>3. AtMost(k, a \o b, t)
    BY <2>2 DEF AtMost, S
  <2>4. n = k
    BY <1>5
  <2> QED
    BY <2>3, <2>4
<1>6. CASE k = 0
  <2>1. \A i \in S : i \in A
    BY <1>2, <1>3, <1>6
  <2>2. /\ j = 0 => S = {}
        /\ j = 1 => \A i, l \in S : i = l
        /\ j = 2 => \A i, l, m \in S : i = l \/ l = m \/ i = m
    BY <1>3, <2>1
  <2>3. AtMost(j, a \o b, t)
    BY <2>2 DEF AtMost, S
  <2>4. n = j
    BY <1>6
  <2> QED
    BY <2>3, <2>4
<1>7. CASE j = 1 /\ k = 1
  <2>1. \A i, l, m \in S : i = l \/ l = m \/ i = m
    BY <1>2, <1>3, <1>4, <1>7
  <2>2. AtMost(2, a \o b, t)
    <3>1. 2 # 0 /\ 2 # 1
      OBVIOUS
    <3> QED
      BY <2>1, <3>1, Zenon DEF AtMost, S
  <2>3. n = 2
    BY <1>7
  <2> QED
    BY <2>2, <2>3
<1> QED
  BY <1>5, <1>6, <1>7

LEMMA AtMostBeside ==
  ASSUME NEW T, NEW a \in Seq(T), NEW b \in Seq(T), NEW t, NEW k \in 0..2,
         AtMost(k, a, t), AtMost(0, b, t)
  PROVE  AtMost(k, a \o b, t) /\ AtMost(k, b \o a, t)
<1>1. k = k + 0 /\ k = 0 + k /\ 0 \in 0..2
  OBVIOUS
<1>2. AtMost(k, a \o b, t)
  BY <1>1, AtMostBoth
<1>3. AtMost(k, b \o a, t)
  BY <1>1, AtMostBoth
<1> QED
  BY <1>2, <1>3

LEMMA AtMostTwice ==
  ASSUME NEW T, NEW a \in Seq(T), NEW b \in Seq(T), NEW t, AtMost(1, a, t), AtMost(1, b, t)
  PROVE  AtMost(2, a \o b, t)
<1>1. 2 = 1 + 1 /\ 1 \in 0..2 /\ 2 \in 0..2
  OBVIOUS
<1> QED
  BY <1>1, AtMostBoth

\* One call, a part some servers lack, and a larger bound.
LEMMA AtMostOne ==
  ASSUME NEW c, NEW t
  PROVE  AtMost(1, <<c>>, t) /\ (~SendsTo(c, t) => AtMost(0, <<c>>, t))
<1>1. {i \in 1..Len(<<c>>) : SendsTo(<<c>>[i], t)} \subseteq {1} /\ <<c>>[1] = c
  OBVIOUS
<1>2. ~SendsTo(c, t) => {i \in 1..Len(<<c>>) : SendsTo(<<c>>[i], t)} = {}
  BY <1>1
<1> QED
  BY <1>1, <1>2 DEF AtMost

LEMMA AtMostPart ==
  ASSUME NEW k \in 0..2, NEW u, NEW s, NEW t, AtMost(k, s, t)
  PROVE  AtMost(k, ForTask(u, s), t)
<1>1. AtMost(k, <<>>, t)
  BY DEF AtMost
<1> QED
  BY <1>1 DEF ForTask

LEMMA AtMostMore ==
  ASSUME NEW s, NEW t, NEW j \in 0..2, NEW k \in 0..2, j <= k, AtMost(j, s, t)
  PROVE  AtMost(k, s, t)
<1> DEFINE S == {i \in 1..Len(s) : SendsTo(s[i], t)}
<1>1. /\ j = 0 => S = {}
      /\ j = 1 => \A i, l \in S : i = l
      /\ j = 2 => \A i, l, m \in S : i = l \/ l = m \/ i = m
  BY DEF AtMost
<1> HIDE DEF S
<1>2. /\ k = 0 => S = {}
      /\ k = 1 => \A i, l \in S : i = l
      /\ k = 2 => \A i, l, m \in S : i = l \/ l = m \/ i = m
  BY <1>1
<1> QED
  BY <1>2 DEF AtMost, S

\* The setups.
LEMMA SetupCounts ==
  /\ AtMost(2, SetupScript("temp"), "logger") /\ AtMost(2, SetupScript("light"), "logger")
  /\ AtMost(1, MainSetupScript, "logger")
<1>1. ASSUME NEW s, NEW p, NEW q, {i \in 1..Len(s) : SendsTo(s[i], "logger")} \subseteq {p, q}
      PROVE  AtMost(2, s, "logger")
  BY <1>1 DEF AtMost
<1>2. {i \in 1..Len(SetupScript("temp")) : SendsTo(SetupScript("temp")[i], "logger")} \subseteq {1, 3}
  <2>1. SetupScript("temp") = <<Log, Do("mq_notify", "temp"), Log, Do("open_i2c", "temp")>>
    BY DEF SetupScript
  <2> QED
    BY <2>1 DEF SendsTo, Do
<1>3. {i \in 1..Len(SetupScript("light")) : SendsTo(SetupScript("light")[i], "logger")} \subseteq {1, 4}
  <2>1. SetupScript("light") = <<Log, Do("mq_notify", "light"), Do("open_i2c", "light"), Log>>
    BY DEF SetupScript
  <2> QED
    BY <2>1 DEF SendsTo, Do
<1>4. AtMost(1, MainSetupScript, "logger")
  BY DEF MainSetupScript, AtMost, SendsTo, Do
<1> QED
  BY <1>1, <1>2, <1>3, <1>4

\* The requests of all rounds.
LEMMA RequestCounts ==
  ASSUME NEW d \in Driver
  PROVE  reqHeartbeats \in Seq(Call) /\ AtMost(1, reqHeartbeats, d)
<1> DEFINE a == <<Send("logger", "HEARTBEAT_REQ", "main")>>
           b == ForTask("temp", <<Send("temp", "HEARTBEAT_REQ", "main")>>)
           c == ForTask("light", <<Send("light", "HEARTBEAT_REQ", "main")>>)
<1>0. d \in {"temp", "light"}
  BY TaskAssumption DEF Driver
<1>1. a \in Seq(Call) /\ b \in Seq(Call) /\ c \in Seq(Call)
  BY MainInThread, RequestTypes, ForTaskType
<1>2. AtMost(0, a, d)
  BY <1>0, AtMostOne DEF SendsTo, Send
<1>3. reqHeartbeats = a \o b \o c
  BY DEF reqHeartbeats
<1>4. CASE d = "temp"
  <2>1. AtMost(1, b, d)
    BY AtMostOne, AtMostPart
  <2>2. AtMost(0, c, d)
    <3>1. AtMost(0, <<Send("light", "HEARTBEAT_REQ", "main")>>, d)
      BY <1>4, AtMostOne DEF SendsTo, Send
    <3> QED
      BY <3>1, AtMostPart
  <2> HIDE DEF a, b, c
  <2>3. a \o b \in Seq(Call) /\ a \o b \o c \in Seq(Call)
    BY <1>1, ConcatType
  <2>4. AtMost(1, a \o b, d)
    BY <1>1, <1>2, <2>1, AtMostBeside
  <2> DEFINE ab == a \o b
  <2> HIDE DEF ab
  <2>5. ab \in Seq(Call) /\ AtMost(1, ab, d)
    BY <2>3, <2>4 DEF ab
  <2>6. AtMost(1, ab \o c, d)
    BY <1>1, <2>2, <2>5, AtMostBeside
  <2> QED
    BY <1>3, <2>3, <2>6 DEF ab
<1>5. CASE d = "light"
  <2>1. AtMost(0, b, d)
    <3>1. AtMost(0, <<Send("temp", "HEARTBEAT_REQ", "main")>>, d)
      BY <1>5, AtMostOne DEF SendsTo, Send
    <3> QED
      BY <3>1, AtMostPart
  <2>2. AtMost(1, c, d)
    BY AtMostOne, AtMostPart
  <2> HIDE DEF a, b, c
  <2>3. a \o b \in Seq(Call) /\ a \o b \o c \in Seq(Call)
    BY <1>1, ConcatType
  <2>4. AtMost(0, a \o b, d)
    BY <1>1, <1>2, <2>1, AtMostBeside
  <2> DEFINE ab == a \o b
  <2> HIDE DEF ab
  <2>5. ab \in Seq(Call) /\ AtMost(0, ab, d)
    BY <2>3, <2>4 DEF ab
  <2>6. AtMost(1, ab \o c, d)
    BY <1>1, <2>2, <2>5, AtMostBeside
  <2> QED
    BY <1>3, <2>3, <2>6 DEF ab
<1> QED
  BY <1>0, <1>4, <1>5

\* Those of the rounds after the first.
LEMMA RoundCounts ==
  ASSUME NEW d \in Driver
  PROVE  AtMost(1, RoundScript, d) /\ AtMost(1, <<Log>> \o RoundScript, d)
<1> DEFINE rest == <<Do("pthread_kill", "logger"), Do("alarm", "main")>>
           line == <<Log>>
<1>1. /\ rest \in Seq(Call) /\ line \in Seq(Call) /\ RoundScript \in Seq(Call)
      /\ reqHeartbeats \in Seq(Call)
  <2>1. Do("pthread_kill", "logger") \in Call /\ Do("alarm", "main") \in Call /\ Log \in Call
    BY MainInThread, CallTypes DEF CallName
  <2> QED
    BY <2>1, ShortSeq, RoundType, ReqHeartbeatsType
<1>2. AtMost(0, rest, d)
  BY DEF AtMost, SendsTo, Do
<1>3. AtMost(0, line, d)
  BY AtMostOne DEF SendsTo, Log, Send, Driver
<1>4. RoundScript = reqHeartbeats \o rest
  BY DEF RoundScript
<1> HIDE DEF rest, line
<1>5. AtMost(1, reqHeartbeats \o rest, d)
  BY <1>1, <1>2, RequestCounts, AtMostBeside
<1>6. AtMost(1, RoundScript, d)
  BY <1>4, <1>5
<1>7. AtMost(1, line \o RoundScript, d)
  BY <1>1, <1>3, <1>6, AtMostBeside
<1> QED
  BY <1>6, <1>7 DEF line

\* Those of the first round, the logger's first of all.
LEMMA HeadFirst ==
  ASSUME NEW T, NEW a \in Seq(T), NEW b \in Seq(T), a # <<>>
  PROVE  a \o b # <<>> /\ Head(a \o b) = Head(a)
<1>1. /\ Len(a) \in Nat /\ Len(b) \in Nat /\ Len(a) >= 1 /\ Head(a) = a[1]
      /\ a \o b \in Seq(T) /\ Len(a \o b) = Len(a) + Len(b)
      /\ \A i \in 1..Len(a) : (a \o b)[i] = a[i]
  BY LenProperties, HeadTailProperties, ConcatProperties
<1>2. 1 \in 1..Len(a) /\ Len(a \o b) >= 1
  BY <1>1
<1>3. a \o b # <<>>
  BY <1>1, <1>2, LenProperties
<1> QED
  BY <1>1, <1>2, <1>3, HeadTailProperties

LEMMA StartupCounts ==
  /\ StartupScript \in Seq(Call) /\ StartupScript # <<>>
  /\ Head(StartupScript) = Send("logger", "HEARTBEAT_REQ", "main")
  /\ AtMost(0, Tail(StartupScript), "logger")
  /\ \A d \in Driver : AtMost(2, StartupScript, d)
<1> DEFINE first == <<Send("logger", "HEARTBEAT_REQ", "main")>>
           askTemp == ForTask("temp", <<Send("temp", "HEARTBEAT_REQ", "main")>>)
           askLight == ForTask("light", <<Send("light", "HEARTBEAT_REQ", "main")>>)
           kick == <<Do("pthread_kill", "logger")>>
           tempData == ForTask("temp", <<Send("temp", "TEMP_DATA_REQ", "main"), Do("pthread_kill", "temp")>>)
           lightData == ForTask("light", <<Send("light", "LIGHT_DATA_REQ", "main")>>)
           timer == <<Do("alarm", "main")>>
<1>1. /\ first \in Seq(Call) /\ askTemp \in Seq(Call) /\ askLight \in Seq(Call) /\ kick \in Seq(Call)
      /\ tempData \in Seq(Call) /\ lightData \in Seq(Call) /\ timer \in Seq(Call)
  <2>1. ASSUME "temp" \in Task
        PROVE  <<Send("temp", "TEMP_DATA_REQ", "main"), Do("pthread_kill", "temp")>> \in Seq(Call)
    <3>1. Send("temp", "TEMP_DATA_REQ", "main") \in Call /\ Do("pthread_kill", "temp") \in Call
      BY <2>1, MainInThread, CallTypes DEF CallName
    <3> QED
      BY <3>1, ShortSeq
  <2> QED
    BY <2>1, MainInThread, RequestTypes, DoType, ForTaskType DEF CallName
<1>2. /\ reqHeartbeats = first \o askTemp \o askLight
      /\ StartupScript = reqHeartbeats \o kick \o tempData \o lightData \o timer
  BY DEF reqHeartbeats, StartupScript
<1>3. first # <<>> /\ Head(first) = Send("logger", "HEARTBEAT_REQ", "main")
  OBVIOUS
<1>4. AtMost(1, first, "logger")
  BY AtMostOne
<1>5. ASSUME NEW t PROVE AtMost(0, kick, t) /\ AtMost(0, timer, t)
  BY AtMostOne DEF SendsTo, Do
<1>6. AtMost(0, askTemp, "logger") /\ AtMost(0, askLight, "logger") /\ AtMost(0, lightData, "logger")
  <2>1. /\ AtMost(0, <<Send("temp", "HEARTBEAT_REQ", "main")>>, "logger")
        /\ AtMost(0, <<Send("light", "HEARTBEAT_REQ", "main")>>, "logger")
        /\ AtMost(0, <<Send("light", "LIGHT_DATA_REQ", "main")>>, "logger")
    BY AtMostOne DEF SendsTo, Send
  <2> QED
    BY <2>1, AtMostPart
<1>7. ASSUME NEW t PROVE AtMost(1, tempData, t) /\ (t # "temp" => AtMost(0, tempData, t))
  <2>1. AtMost(1, <<Send("temp", "TEMP_DATA_REQ", "main"), Do("pthread_kill", "temp")>>, t)
    BY DEF AtMost, SendsTo, Do
  <2>2. t # "temp" => AtMost(0, <<Send("temp", "TEMP_DATA_REQ", "main"), Do("pthread_kill", "temp")>>, t)
    BY DEF AtMost, SendsTo, Do, Send
  <2> QED
    BY <2>1, <2>2, AtMostPart
<1>8. AtMost(1, lightData, "light") /\ AtMost(0, lightData, "temp")
  <2>1. /\ AtMost(1, <<Send("light", "LIGHT_DATA_REQ", "main")>>, "light")
        /\ AtMost(0, <<Send("light", "LIGHT_DATA_REQ", "main")>>, "temp")
    BY AtMostOne DEF SendsTo, Send
  <2> QED
    BY <2>1, AtMostPart
<1> HIDE DEF first, askTemp, askLight, kick, tempData, lightData, timer
<1> DEFINE s1 == first \o askTemp
           s3 == reqHeartbeats \o kick
           s4 == s3 \o tempData
           s5 == s4 \o lightData
<1>9. /\ s1 \in Seq(Call) /\ reqHeartbeats = s1 \o askLight /\ reqHeartbeats \in Seq(Call)
      /\ s3 \in Seq(Call) /\ s4 \in Seq(Call) /\ s5 \in Seq(Call) /\ s5 \o timer \in Seq(Call)
      /\ StartupScript = s5 \o timer
  BY <1>1, <1>2, ConcatType
<1>10. /\ StartupScript # <<>> /\ Head(StartupScript) = Send("logger", "HEARTBEAT_REQ", "main")
  <2>1. s1 # <<>> /\ Head(s1) = Head(first)
    BY <1>1, <1>3, HeadFirst
  <2> HIDE DEF s1
  <2>2. reqHeartbeats # <<>> /\ Head(reqHeartbeats) = Head(first)
    BY <1>1, <1>9, <2>1, HeadFirst
  <2>3. s3 # <<>> /\ Head(s3) = Head(first)
    BY <1>1, <1>9, <2>2, HeadFirst
  <2> HIDE DEF s3
  <2>4. s4 # <<>> /\ Head(s4) = Head(first)
    BY <1>1, <1>9, <2>3, HeadFirst
  <2> HIDE DEF s4
  <2>5. s5 # <<>> /\ Head(s5) = Head(first)
    BY <1>1, <1>9, <2>4, HeadFirst
  <2> HIDE DEF s5
  <2> QED
    BY <1>1, <1>3, <1>9, <2>5, HeadFirst
<1>11. AtMost(1, StartupScript, "logger")
  <2>1. AtMost(1, s1, "logger")
    BY <1>1, <1>4, <1>6, AtMostBeside
  <2> HIDE DEF s1
  <2>2. AtMost(1, reqHeartbeats, "logger")
    BY <1>1, <1>6, <1>9, <2>1, AtMostBeside
  <2>3. AtMost(1, s3, "logger")
    <3>1. AtMost(0, kick, "logger") /\ kick \in Seq(Call) /\ reqHeartbeats \in Seq(Call)
      BY <1>1, <1>5, <1>9
    <3> QED
      BY <2>2, <3>1, AtMostBeside
  <2> HIDE DEF s3
  <2>4. AtMost(1, s4, "logger")
    BY <1>1, <1>7, <1>9, <2>3, AtMostBeside
  <2> HIDE DEF s4
  <2>5. AtMost(1, s5, "logger")
    BY <1>1, <1>6, <1>9, <2>4, AtMostBeside
  <2> HIDE DEF s5
  <2> QED
    BY <1>1, <1>5, <1>9, <2>5, AtMostBeside
<1>12. ASSUME NEW d \in Driver PROVE AtMost(2, StartupScript, d)
  <2>1. AtMost(1, reqHeartbeats, d) /\ d \in {"temp", "light"}
    BY RequestCounts, TaskAssumption DEF Driver
  <2>2. AtMost(1, s3, d)
    <3>1. AtMost(0, kick, d) /\ kick \in Seq(Call) /\ reqHeartbeats \in Seq(Call)
      BY <1>1, <1>5, <1>9
    <3> QED
      BY <2>1, <3>1, AtMostBeside
  <2> HIDE DEF s3
  <2>3. CASE d = "temp"
    <3>1. AtMost(2, s4, d)
      BY <1>1, <1>7, <1>9, <2>2, AtMostTwice
    <3> HIDE DEF s4
    <3>2. AtMost(2, s5, d)
      BY <1>1, <1>8, <1>9, <2>3, <3>1, AtMostBeside
    <3> HIDE DEF s5
    <3> QED
      BY <1>1, <1>5, <1>9, <3>2, AtMostBeside
  <2>4. CASE d = "light"
    <3>1. AtMost(1, s4, d)
      <4>1. AtMost(0, tempData, d)
        BY <1>7, <2>4
      <4> QED
        BY <1>1, <1>9, <2>2, <4>1, AtMostBeside
    <3> HIDE DEF s4
    <3>2. AtMost(2, s5, d)
      BY <1>1, <1>8, <1>9, <2>4, <3>1, AtMostTwice
    <3> HIDE DEF s5
    <3> QED
      BY <1>1, <1>5, <1>9, <3>2, AtMostBeside
  <2> QED
    BY <2>1, <2>3, <2>4
<1>13. AtMost(0, Tail(StartupScript), "logger")
  <2>1. SendsTo(Head(StartupScript), "logger")
    BY <1>10 DEF SendsTo, Send
  <2>2. StartupScript \in Seq(Call) /\ 1 \in 0..2 /\ 1 - 1 = 0
    BY <1>9
  <2>3. AtMost(1 - 1, Tail(StartupScript), "logger")
    BY <1>10, <1>11, <2>1, <2>2, AtMostSent
  <2> QED
    BY <2>2, <2>3
<1> QED
  BY <1>9, <1>10, <1>12, <1>13

\* After its first call the exit path sends nothing.
LEMMA ExitPathCounts ==
  ASSUME TypeOK, \A t \in Task : task_state[t] = "RUNNING", NEW t
  PROVE  AtMost(0, Tail(MainTeardownScript), t)
<1> DEFINE s == MainTeardownScript
<1>1. s \in Seq(Call) /\ s # <<>>
  BY ExitPathStarts, MainTeardownType
<1>2. \A i \in 1..Len(s) : s[i].call = "mq_send" => i = 1
  BY ExitPathOrder DEF InOrder
<1> HIDE DEF s
<1>3. /\ Len(s) \in Nat /\ Len(Tail(s)) = Len(s) - 1
      /\ \A i \in 1..Len(Tail(s)) : Tail(s)[i] = s[i + 1]
  BY <1>1, HeadTailProperties, LenProperties
<1>4. \A i \in 1..Len(Tail(s)) : Tail(s)[i].call # "mq_send"
  BY <1>2, <1>3
<1> QED
  BY <1>4 DEF AtMost, SendsTo, s

LEMMA TeardownSends ==
  /\ Head(MainTeardownScript) = Send("logger", "FILE_CHANGE", "main")
  /\ 1 \in 1..Len(MainTeardownScript) /\ MainTeardownScript[1].call = "mq_send"
<1> DEFINE send == <<Send("logger", "FILE_CHANGE", "main")>>
           stop == Each("stop")
           unlink == <<Do("mq_unlink", "main")>>
           join == Each("pthread_join")
           exit == <<Do("exit", "main")>>
<1>1. /\ send \in Seq(Call) /\ stop \in Seq(Call) /\ unlink \in Seq(Call) /\ join \in Seq(Call)
      /\ exit \in Seq(Call)
  BY MainInThread, RequestTypes, DoType, EachType DEF CallName
<1>2. send # <<>> /\ Head(send) = Send("logger", "FILE_CHANGE", "main")
  OBVIOUS
<1>3. MainTeardownScript = send \o stop \o unlink \o join \o exit
  BY DEF MainTeardownScript
<1> HIDE DEF send, stop, unlink, join, exit
<1> DEFINE s2 == send \o stop
           s3 == s2 \o unlink
           s4 == s3 \o join
<1>4. s2 \in Seq(Call) /\ s3 \in Seq(Call) /\ s4 \in Seq(Call) /\ MainTeardownScript = s4 \o exit
  BY <1>1, <1>3, ConcatType
<1>5. s2 # <<>> /\ Head(s2) = Head(send)
  BY <1>1, <1>2, HeadFirst
<1> HIDE DEF s2
<1>6. s3 # <<>> /\ Head(s3) = Head(send)
  BY <1>1, <1>4, <1>5, HeadFirst
<1> HIDE DEF s3
<1>7. s4 # <<>> /\ Head(s4) = Head(send)
  BY <1>1, <1>4, <1>6, HeadFirst
<1> HIDE DEF s4
<1>8. MainTeardownScript # <<>> /\ Head(MainTeardownScript) = Head(send)
  BY <1>1, <1>4, <1>7, HeadFirst
<1>9. 1 \in 1..Len(MainTeardownScript) /\ MainTeardownScript[1] = Head(MainTeardownScript)
  BY <1>8, MainTeardownType, HeadTailProperties, LenProperties
<1> QED
  BY <1>2, <1>8, <1>9 DEF Send

(***************************************************************************)
(* Who writes to the queues of the tasks.                                  *)
(***************************************************************************)
LEMMA MainSends ==
  ASSUME TypeOK, MainStep, ~Die, NEW t \in Task
  PROVE  /\ Len(queue[t]) \in Nat
         /\ \/ queue'[t] = queue[t] /\ (pc["main"] \in Calling => ~SendsTo(NextCall("main"), t))
            \/ /\ pc["main"] \in Calling /\ SendsTo(NextCall("main"), t)
               /\ Len(queue'[t]) = Len(queue[t]) + 1
<1>0. "main" \in Thread /\ t \in Thread /\ Len(queue[t]) \in Nat
  BY MainInThread, LenProperties DEF TypeOK, MQTypeOK
<1>1. CASE CommonCall("main")
  <2> DEFINE c == NextCall("main")
  <2>1. /\ c \in Call /\ c.to \in Thread
        /\ c.call = "mq_send" => c.msg \in Message /\ mq_send(c.to, c.msg)
        /\ c.call # "mq_send" => UNCHANGED queue
    BY <1>0, <1>1, CallSends
  <2> HIDE DEF c
  <2>2. CASE SendsTo(c, t)
    <3>1. mq_send(t, c.msg) /\ c.msg \in Message
      BY <2>1, <2>2 DEF SendsTo
    <3>2. Len(queue'[t]) = Len(queue[t]) + 1
      BY <1>0, <3>1, SentArrives
    <3> QED
      BY <1>0, <1>1, <2>2, <3>2 DEF CommonCall, c
  <2>3. CASE ~SendsTo(c, t)
    <3>1. queue'[t] = queue[t]
      BY <1>0, <2>1, <2>3, SentArrives DEF SendsTo
    <3> QED
      BY <1>0, <2>3, <3>1 DEF c
  <2> QED
    BY <2>2, <2>3
<1>2. CASE ~CommonCall("main")
  <2>1. \/ MainCalls /\ NextCall("main").call \notin {"mq_send", "pthread_kill", "mq_notify"}
        \/ MainLoops /\ pc["main"] \notin Calling
    BY <1>2, MainStepCases
  <2>2. queue'[t] = queue[t]
    BY <2>1, MainLeavesQueues
  <2> QED
    BY <1>0, <2>1, <2>2 DEF SendsTo
<1> QED
  BY <1>1, <1>2

\* Main writes to the drivers in a round only.
LEMMA DriversAsked ==
  ASSUME TypeOK, AllPermitted, pc["main"] \in Calling, todo["main"] # <<>>,
         NEW d \in Driver, SendsTo(NextCall("main"), d)
  PROVE  pc["main"] = "round"
<1>1. NextCall("main") \in Permitted("main", pc["main"]) /\ d \in {"temp", "light"}
  BY MainInThread, RestPermitted, TaskAssumption DEF Driver
<1> QED
  BY <1>1 DEF Permitted, SendsTo

LEMMA OtherSends ==
  ASSUME TypeOK, AllPermitted, ~Die, ClientTargets \subseteq {"main"},
         ClientStep \/ \E u \in Task : ServerTask(u), NEW d \in Driver
  PROVE  /\ Len(queue'[d]) <= Len(queue[d]) /\ (queue[d] = <<>> => queue'[d] = <<>>)
         /\ pc'["main"] = pc["main"] /\ todo'["main"] = todo["main"]
<1>0. /\ d \in Task /\ d \in Thread /\ d # "main" /\ "main" \in Thread /\ d \in {"temp", "light"}
      /\ queue[d] \in Seq(Message) /\ Len(queue[d]) \in Nat
  BY MainInThread, TaskAssumption, LenProperties DEF Driver, TypeOK, MQTypeOK
<1>1. CASE ClientStep
  <2>1. queue'[d] = queue[d]
    BY <1>0, <1>1 DEF ClientStep, ClientSend, mq_send, TypeOK, MQTypeOK
  <2> QED
    BY <1>0, <1>1, <2>1 DEF ClientStep, ClientSend, taskVars
<1>2. ASSUME NEW u \in Task, ServerTask(u)
      PROVE  /\ Len(queue'[d]) <= Len(queue[d]) /\ (queue[d] = <<>> => queue'[d] = <<>>)
             /\ pc'["main"] = pc["main"] /\ todo'["main"] = todo["main"]
  <2>0. u \in Thread /\ u # "main" /\ TaskStep(u)
    BY <1>2, MainInThread, TaskAssumption DEF ServerTask
  <2>1. pc'["main"] = pc["main"] /\ todo'["main"] = todo["main"]
    BY <1>0, <2>0, TaskStepCases
  <2>2. CASE CommonCall(u)
    <3> DEFINE c == NextCall(u)
    <3>1. /\ c \in Call /\ c.to \in Thread
          /\ c.call = "mq_send" => c.msg \in Message /\ mq_send(c.to, c.msg)
          /\ c.call # "mq_send" => UNCHANGED queue
      BY <2>0, <2>2, CallSends
    <3>2. c \in Permitted(u, pc[u])
      BY <2>0, <2>2, RestPermitted DEF CommonCall
    <3>3. c.call = "mq_send" => c.to # d
      BY <1>0, <2>0, <3>2 DEF Permitted
    <3> HIDE DEF c
    <3>4. queue'[d] = queue[d]
      BY <1>0, <3>1, <3>3, SentArrives
    <3> QED
      BY <1>0, <2>1, <3>4
  <2>3. CASE TaskReceive(u)
    <3>1. queue' = [queue EXCEPT ![u] = Tail(@)] /\ queue[u] # <<>>
      BY <2>3 DEF TaskReceive, mq_receive
    <3>2. CASE u = d
      <4>1. queue'[d] = Tail(queue[d])
        BY <1>0, <3>1, <3>2 DEF TypeOK, MQTypeOK
      <4>2. Len(Tail(queue[d])) = Len(queue[d]) - 1
        BY <1>0, <3>1, <3>2, HeadTailProperties
      <4> QED
        BY <1>0, <2>1, <3>1, <3>2, <4>1, <4>2
    <3>3. CASE u # d
      BY <1>0, <2>1, <3>1, <3>3 DEF TypeOK, MQTypeOK
    <3> QED
      BY <3>2, <3>3
  <2>4. CASE TaskLoop(u) \/ TaskSigwait(u) \/ TaskNotify(u) \/ TaskReceiveEmpty(u)
    <3>1. queue' = queue
      BY <2>4 DEF TaskLoop, TaskSigwait, TaskNotify, TaskReceiveEmpty, mqVars, sigwait, mq_notify
    <3> QED
      BY <1>0, <2>1, <3>1
  <2> QED
    BY <2>0, <2>2, <2>3, <2>4 DEF TaskStep
<1> QED
  BY <1>1, <1>2

\* What fits goes on fitting.
LEMMA FitsStays ==
  ASSUME TypeOK, TypeOK', NEW t \in Task, NEW n \in Nat, NEW m \in Nat, n <= m, Fits(t, n),
         Len(queue'[t]) <= Len(queue[t]),
         todo'["main"] = todo["main"] \/ IsRest(todo'["main"], todo["main"])
  PROVE  Fits(t, m)'
<1>1. /\ Len(queue[t]) \in Nat /\ Len(queue'[t]) \in Nat
      /\ todo["main"] \in Seq(Call) /\ todo'["main"] \in Seq(Call)
  BY MainInThread, LenProperties DEF TypeOK, MQTypeOK, TasksTypeOK
<1>2. PICK k \in 0..2 : AtMost(k, todo["main"], t) /\ Len(queue[t]) + k <= n
  BY DEF Fits
<1>3. AtMost(k, todo'["main"], t)
  <2>1. CASE todo'["main"] = todo["main"]
    BY <1>2, <2>1
  <2>2. CASE IsRest(todo'["main"], todo["main"])
    BY <1>1, <1>2, <2>2, AtMostRest
  <2> QED
    BY <2>1, <2>2
<1>4. Len(queue'[t]) + k <= m
  BY <1>1, <1>2
<1> QED
  BY <1>3, <1>4 DEF Fits, AtMost

LEMMA MainFits ==
  ASSUME TypeOK, TypeOK', AllPermitted, MainStep, ~Die, pc["main"] \in Calling,
         NEW t \in Task, NEW n \in Nat, Fits(t, n)
  PROVE  Fits(t, n)'
<1>1. /\ todo["main"] # <<>> /\ todo["main"] \in Seq(Call) /\ Tail(todo["main"]) \in Seq(Call)
      /\ todo'["main"] = Tail(todo["main"]) /\ NextCall("main") = Head(todo["main"])
  BY MainReturns
<1>2. CASE SendsTo(Head(todo["main"]), t)
  <2>1. Len(queue[t]) \in Nat /\ Len(queue'[t]) = Len(queue[t]) + 1
    BY <1>1, <1>2, MainSends
  <2>2. PICK k \in 0..2 : AtMost(k, todo["main"], t) /\ Len(queue[t]) + k <= n
    BY DEF Fits
  <2>3. k - 1 \in 0..1 /\ AtMost(k - 1, Tail(todo["main"]), t)
    BY <1>1, <1>2, <2>2, AtMostSent
  <2>4. k - 1 \in 0..2 /\ AtMost(k - 1, todo'["main"], t) /\ Len(queue'[t]) + (k - 1) <= n
    BY <1>1, <2>1, <2>2, <2>3
  <2> QED
    BY <2>4 DEF Fits, AtMost
<1>3. CASE ~SendsTo(Head(todo["main"]), t)
  <2>1. Len(queue[t]) \in Nat /\ queue'[t] = queue[t]
    BY <1>1, <1>3, MainSends
  <2>2. IsRest(todo'["main"], todo["main"])
    BY <1>1, TailRest
  <2> QED
    BY <2>1, <2>2, FitsStays
<1> QED
  BY <1>2, <1>3

(***************************************************************************)
(* The temperature thread, and the light thread before the first round.    *)
(***************************************************************************)
\* Main has not begun its first round, nor will it when a stop has come before;
\* then its rounds are the timer alone.
FirstRoundAhead ==
  {"setup", "loop", "sigwait", "notify", "receive", "handle", "again", "tick", "startup",
   "round", "teardown", "ended"}
Fresh ==
  /\ main_state \in {"STARTUP", "SHUTDOWN"} /\ pc["main"] \in FirstRoundAhead
  /\ pc["main"] = "round" => todo["main"] = <<Alarm>>

Unasked(d) == Fresh /\ queue[d] = <<>>

\* Main is in the round that will kick task t.
InRound(t) == pc["main"] = "round" /\ Ahead(todo["main"], Kick(t))

\* The queue of the temperature thread: it is aware of it, or main has still to
\* write to it, or is about to kick it and writes no more than fits.
TempInv ==
  "temp" \in Task =>
    Aware("temp") \/ Unasked("temp") \/ (InRound("temp") /\ Fits("temp", 2))

LEMMA FreshMain ==
  ASSUME TypeOK, AllPermitted, MainStep, ~Die, process' = "up", pc["main"] # "startup", Fresh
  PROVE  Fresh'
<1>0. "main" \in Thread
  BY MainInThread
<1>1. CASE pc["main"] \in Calling
  <2>1. /\ NextCall("main") \in Permitted("main", pc["main"])
        /\ pc'["main"] = IF Tail(todo["main"]) = <<>> THEN Continue[pc["main"]] ELSE pc["main"]
        /\ todo'["main"] = Tail(todo["main"])
    BY <1>0, <1>1, MainReturns, RestPermitted
  <2>2. NextCall("main").call # "set_error"
    BY <2>1 DEF Permitted, Fresh, FirstRoundAhead
  <2>3. main_state' = main_state
    BY <1>1, <2>2, MainStepCases DEF MainCalls, CallStop, CallSetError, CallAlarm, CallUnlink, CallJoin,
       CallExit, MainCall, mainVars
  <2>4. pc["main"] = "round" => pc'["main"] = "loop"
    <3>1. pc["main"] = "round" => Tail(todo["main"]) = Tail(<<Alarm>>)
      BY DEF Fresh
    <3>2. Tail(<<Alarm>>) = <<>>
      OBVIOUS
    <3> QED
      BY <2>1, <3>1, <3>2 DEF Continue
  <2>5. pc'["main"] \in FirstRoundAhead /\ pc'["main"] # "round"
    BY <1>1, <2>1, <2>4 DEF Fresh, FirstRoundAhead, Calling, Continue
  <2> QED
    BY <2>3, <2>5 DEF Fresh
<1>2. CASE pc["main"] \notin Calling
  <2>1. MainLoops
    BY <1>2, MainStepCases DEF MainCalls, CallStop, CallSetError, CallAlarm, CallUnlink, CallJoin, CallExit,
                               MainCall, CommonCall
  <2>2. MainLoop \/ MainSigwait \/ MainTimer \/ MainNotify \/ MainReceive \/ MainReceiveEmpty \/ MainTick
    BY <1>2, <2>1 DEF MainLoops, MainStartup, HbReceive, HbReceiveEmpty, HbCheck, HbJudge, HbRaise, Fresh,
                      FirstRoundAhead
  <2>3. main_state' = main_state
    BY <2>2 DEF MainLoop, MainSigwait, MainTimer, MainNotify, MainReceive, MainReceiveEmpty, MainTick, mainVars
  <2>4. CASE ~MainTick
    <3>1. \/ \E label \in {"sigwait", "notify", "tick", "receive"} : Goto("main", label) /\ UNCHANGED todo
          \/ \E label \in {"teardown", "handle", "again"} : \E script : Run("main", label, script)
      BY <2>2, <2>4 DEF MainLoop, MainSigwait, MainTimer, MainNotify, MainReceive, MainReceiveEmpty
    <3>2. \/ pc'["main"] \in {"sigwait", "notify", "tick", "receive"}
          \/ \E label \in {"teardown", "handle", "again"} : pc'["main"] \in {label, Continue[label]}
      BY <1>0, <3>1, RunMoves, GotoMoves
    <3> QED
      BY <2>3, <3>2 DEF Fresh, FirstRoundAhead, Continue
  <2>5. CASE MainTick
    <3>1. \/ Goto("main", "startup") /\ UNCHANGED todo
          \/ Run("main", "round", <<Alarm>>)
      BY <2>5 DEF MainTick, Fresh, Alarm
    <3>2. \/ pc'["main"] = "startup"
          \/ pc'["main"] \in {"round", "loop"} /\ todo'["main"] = <<Alarm>>
      BY <1>0, <3>1, RunMoves, GotoMoves DEF Continue
    <3> QED
      BY <2>3, <3>2 DEF Fresh, FirstRoundAhead
  <2> QED
    BY <2>4, <2>5
<1> QED
  BY <1>1, <1>2

\* So a driver goes unasked until the first round.
LEMMA UnaskedMain ==
  ASSUME TypeOK, AllPermitted, MainStep, ~Die, process' = "up", pc["main"] # "startup",
         NEW d \in Driver, Unasked(d)
  PROVE  Unasked(d)'
<1>1. Fresh' /\ d \in Task
  BY FreshMain DEF Unasked, Driver
<1>2. ASSUME pc["main"] \in Calling PROVE ~SendsTo(NextCall("main"), d)
  <2>1. SUFFICES ASSUME SendsTo(NextCall("main"), d) PROVE FALSE
    OBVIOUS
  <2>2. todo["main"] # <<>>
    BY <1>2, MainReturns
  <2>3. pc["main"] = "round"
    BY <1>2, <2>1, <2>2, DriversAsked
  <2> QED
    BY <2>1, <2>3 DEF Unasked, Fresh, Alarm, Do, NextCall, SendsTo
<1>3. queue'[d] = queue[d]
  BY <1>1, <1>2, MainSends
<1> QED
  BY <1>1, <1>3 DEF Unasked

LEMMA UnaskedOther ==
  ASSUME TypeOK, AllPermitted, ~Die, ClientTargets \subseteq {"main"},
         ClientStep \/ \E u \in Task : ServerTask(u), NEW d \in Driver, Unasked(d)
  PROVE  Unasked(d)'
<1>1. queue'[d] = <<>> /\ pc'["main"] = pc["main"] /\ todo'["main"] = todo["main"]
  BY OtherSends DEF Unasked
<1>2. main_state' = main_state
  BY DEF ClientStep, ClientSend, ServerTask, mainVars
<1> QED
  BY <1>1, <1>2 DEF Unasked, Fresh

LEMMA FreshSignal ==
  ASSUME TypeOK, NEW s, UserSignal(s), ~Die, Fresh
  PROVE  Fresh' /\ queue' = queue
<1>1. PICK u \in Thread : handleCtrlC(u)
  BY DEF UserSignal
<1>2. main_state' = "SHUTDOWN" /\ queue' = queue /\ (UNCHANGED <<pc, todo>> \/ (Blocked(u) /\ Interrupted(u)))
  BY <1>1 DEF handleCtrlC
<1>3. CASE UNCHANGED <<pc, todo>>
  BY <1>2, <1>3 DEF Fresh
<1>4. CASE Blocked(u) /\ Interrupted(u) /\ u # "main"
  <2>1. pc'["main"] = pc["main"] /\ todo'["main"] = todo["main"]
    <3>1. \E script : Run(u, ErrnoOverwritten(pc[u]), script)
      BY <1>4, InterruptedRuns
    <3> QED
      BY <1>4, <3>1, MainInThread, RunMoves
  <2> QED
    BY <1>2, <2>1 DEF Fresh
<1>5. CASE Blocked(u) /\ Interrupted(u) /\ u = "main"
  <2>1. pc["main"] \in Calling /\ pc["main"] # "round"
    BY <1>5 DEF Blocked, Fresh, Alarm, Do, NextCall
  <2>2. \E label \in {pc["main"], ErrnoOverwritten(pc["main"])} : pc'["main"] \in {label, Continue[label]}
    BY <1>5, InterruptedType
  <2>3. pc'["main"] \in FirstRoundAhead /\ pc'["main"] # "round"
    BY <2>1, <2>2 DEF Fresh, FirstRoundAhead, Calling, Continue, ErrnoOverwritten
  <2> QED
    BY <1>2, <2>3 DEF Fresh
<1> QED
  BY <1>2, <1>3, <1>4, <1>5

\* A round that is under way goes on to its kick, whoever takes a step.
LEMMA RoundMain ==
  ASSUME TypeOK, AllPermitted, MainStep, ~Die, NEW t \in Task, InRound(t)
  PROVE  InRound(t)' \/ Aware(t)'
<1>0. "main" \in Thread /\ t \in Thread /\ pc["main"] \in Calling
  BY MainInThread DEF InRound, Calling, Continue
<1>1. /\ todo["main"] # <<>> /\ todo["main"] \in Seq(Call) /\ todo'["main"] = Tail(todo["main"])
      /\ NextCall("main") = Head(todo["main"])
      /\ pc'["main"] = IF Tail(todo["main"]) = <<>> THEN Continue[pc["main"]] ELSE pc["main"]
  BY <1>0, MainReturns
<1>2. CASE Head(todo["main"]) = Kick(t)
  <2>1. NextCall("main").call = "pthread_kill" /\ NextCall("main").to = t
    BY <1>1, <1>2 DEF Kick, Do
  <2>2. CommonCall("main")
    BY <1>0, <2>1, MainStepCases
  <2>3. CallKill("main")
    BY <2>1, <2>2 DEF CommonCall, CallSend, CallNotify, CallMayDie, CallI2C, CallOpenLog, CallWriteLog
  <2>4. pthread_kill(t)
    BY <2>1, <2>3 DEF CallKill
  <2> QED
    BY <2>4, KickWakes
<1>3. CASE Head(todo["main"]) # Kick(t)
  <2>1. Ahead(Tail(todo["main"]), Kick(t))
    BY <1>1, <1>3, AheadTail DEF InRound
  <2>2. Tail(todo["main"]) # <<>>
    BY <2>1, AheadSome
  <2>3. Ahead(todo'["main"], Kick(t))
    BY <1>1, <2>1
  <2>4. pc'["main"] = "round"
    BY <1>1, <2>2 DEF InRound
  <2> QED
    BY <2>3, <2>4 DEF InRound, Ahead
<1> QED
  BY <1>2, <1>3

LEMMA RoundSignal ==
  ASSUME TypeOK, AllPermitted, NEW s, UserSignal(s), ~Die, NEW t, InRound(t)
  PROVE  /\ InRound(t)' /\ queue' = queue
         /\ todo'["main"] = todo["main"] \/ IsRest(todo'["main"], todo["main"])
<1>1. PICK u \in Thread : handleCtrlC(u)
  BY DEF UserSignal
<1>2. queue' = queue /\ (UNCHANGED <<pc, todo>> \/ (Blocked(u) /\ Interrupted(u)))
  BY <1>1 DEF handleCtrlC
<1>3. CASE UNCHANGED <<pc, todo>>
  BY <1>2, <1>3 DEF InRound
<1>4. CASE Blocked(u) /\ Interrupted(u) /\ u # "main"
  <2>1. pc'["main"] = pc["main"] /\ todo'["main"] = todo["main"]
    <3>1. \E script : Run(u, ErrnoOverwritten(pc[u]), script)
      BY <1>4, InterruptedRuns
    <3> QED
      BY <1>4, <3>1, MainInThread, RunMoves
  <2> QED
    BY <1>2, <2>1 DEF InRound, Ahead
<1>5. CASE Blocked(u) /\ Interrupted(u) /\ u = "main"
  <2>1. Kick(t).msg = NoMessage /\ "main" \in Thread
    BY MainInThread DEF Kick, Do
  <2>2. Ahead(todo'["main"], Kick(t)) /\ pc'["main"] = ErrnoOverwritten(pc["main"])
    BY <1>5, <2>1, InterruptKeeps DEF InRound
  <2>3. IsRest(todo'["main"], todo["main"])
    BY <1>5, MainInterrupted
  <2> QED
    BY <1>2, <2>2, <2>3 DEF InRound, Ahead, ErrnoOverwritten
<1> QED
  BY <1>2, <1>3, <1>4, <1>5

\* The first round.
LEMMA RoundBegins ==
  ASSUME TypeOK, MainStartup
  PROVE  /\ todo'["main"] = StartupScript /\ pc'["main"] = "round" /\ queue' = queue
         /\ main_state' = "REQ_RSP"
<1>1. Run("main", "round", StartupScript) /\ StartupScript # <<>>
  BY StartupCounts DEF MainStartup
<1> QED
  BY <1>1, MainInThread, RunMoves DEF MainStartup, mqVars

LEMMA RoundFits ==
  ASSUME TypeOK, MainStartup, NEW d \in Driver, queue[d] = <<>>
  PROVE  Fits(d, 2)'
<1>1. AtMost(2, todo'["main"], d) /\ queue'[d] = <<>>
  BY RoundBegins, StartupCounts
<1>2. 2 \in 0..2 /\ Len(queue'[d]) + 2 <= 2
  BY <1>1
<1> QED
  BY <1>1, <1>2 DEF Fits, AtMost

LEMMA TempStep ==
  ASSUME TypeOK, TypeOK', AllPermitted, WakeupInv, ServerStep \/ ClientStep, ~Die, process' = "up",
         ClientTargets \subseteq {"main"}, TempInv
  PROVE  TempInv'
<1> SUFFICES ASSUME "temp" \in Task
             PROVE  (Aware("temp") \/ Unasked("temp") \/ (InRound("temp") /\ Fits("temp", 2)))'
  BY DEF TempInv
<1>0. "temp" \in Driver
  BY DEF Driver
<1>1. CASE Aware("temp")
  BY <1>1, AwareLasts
<1>2. CASE Unasked("temp")
  <2>1. CASE MainStep /\ pc["main"] # "startup"
    BY <1>0, <1>2, <2>1, UnaskedMain
  <2>2. CASE MainStep /\ pc["main"] = "startup"
    <3>1. MainStartup
      BY <2>2 DEF MainStep, CommonCall, Calling, Continue, CallStop, CallSetError, CallAlarm, CallUnlink, CallJoin,
         CallExit, MainCall, MainLoop, MainSigwait, MainTimer, MainNotify, MainReceive, MainReceiveEmpty, MainTick,
         HbReceive, HbReceiveEmpty, HbCheck, HbJudge, HbRaise
    <3>2. InRound("temp")'
      BY <3>1, RoundBegins, StartupAsks DEF InRound, Kick, Ahead
    <3>3. Fits("temp", 2)'
      BY <1>0, <1>2, <3>1, RoundFits DEF Unasked
    <3> QED
      BY <3>2, <3>3
  <2>3. CASE ~MainStep
    BY <1>0, <1>2, <2>3, UnaskedOther DEF ServerStep
  <2> QED
    BY <2>1, <2>2, <2>3
<1>3. CASE InRound("temp") /\ Fits("temp", 2)
  <2>1. CASE MainStep
    <3>1. pc["main"] \in Calling /\ 2 \in Nat
      BY <1>3 DEF InRound, Calling, Continue
    <3>2. Fits("temp", 2)'
      BY <1>3, <2>1, <3>1, MainFits
    <3> QED
      BY <1>3, <2>1, <3>2, RoundMain
  <2>2. CASE ~MainStep
    <3>1. /\ Len(queue'["temp"]) <= Len(queue["temp"])
          /\ pc'["main"] = pc["main"] /\ todo'["main"] = todo["main"]
      BY <1>0, <2>2, OtherSends DEF ServerStep
    <3>2. Fits("temp", 2)'
      BY <1>3, <3>1, FitsStays
    <3> QED
      BY <1>3, <3>1, <3>2 DEF InRound, Ahead
  <2> QED
    BY <2>1, <2>2
<1> QED
  BY <1>1, <1>2, <1>3 DEF TempInv

LEMMA TempSignal ==
  ASSUME TypeOK, TypeOK', AllPermitted, WakeupInv, NEW s, UserSignal(s), ~Die, TempInv
  PROVE  TempInv'
<1> SUFFICES ASSUME "temp" \in Task
             PROVE  (Aware("temp") \/ Unasked("temp") \/ (InRound("temp") /\ Fits("temp", 2)))'
  BY DEF TempInv
<1>1. CASE Aware("temp")
  BY <1>1, AwareSignal
<1>2. CASE Unasked("temp")
  BY <1>2, FreshSignal DEF Unasked
<1>3. CASE InRound("temp") /\ Fits("temp", 2)
  <2>1. /\ InRound("temp")' /\ queue' = queue
        /\ todo'["main"] = todo["main"] \/ IsRest(todo'["main"], todo["main"])
    BY <1>3, RoundSignal
  <2>2. Len(queue'["temp"]) <= Len(queue["temp"])
    BY <2>1, MainInThread, LenProperties DEF TypeOK, MQTypeOK
  <2>3. Fits("temp", 2)'
    BY <1>3, <2>1, <2>2, FitsStays
  <2> QED
    BY <2>1, <2>3
<1> QED
  BY <1>1, <1>2, <1>3 DEF TempInv

(***************************************************************************)
(* The light thread, which main does not kick.                             *)
(***************************************************************************)
\* Main has heard nothing of the light thread.
IsBeat(m) == m = Msg("HEARTBEAT_RSP", "light")
Silent ==
  /\ ~hbt_rsp["light"] /\ ~IsBeat(in_buffer["main"]) /\ ~IsBeat(hb_buffer)
  /\ ~HeartbeatQueued("light")

\* Then the first verdict is the last: main asks the light thread once in the
\* first round and once more before it leaves.
Leaving == main_state \in Stopped
Behind ==
  /\ main_state # "STARTUP" /\ pc["main"] # "startup"
  /\ pc["main"] = "verdict" => Leaving \/ Ahead(todo["main"], Do("set_error", "main"))
  /\ pc["main"] \in {"judge", "raise"} => Leaving
  /\ pc["main"] = "round" => IF Leaving THEN Fits("light", 3) ELSE Fits("light", 2)
  /\ \/ pc["main"] \in {"round", "teardown", "ended"}
     \/ Len(queue["light"]) <= 2
     \/ pc["main"] = "loop" /\ Leaving

LightInv ==
  "light" \in Task => Aware("light") \/ (Silent /\ (Unasked("light") \/ Behind))

LEMMA NoBeatSent ==
  ASSUME TypeOK, NEW m \in Message, ~IsBeat(m), mq_send("main", m), ~HeartbeatQueued("light")
  PROVE  ~HeartbeatQueued("light")'
<1>1. /\ queue["main"] \in Seq(Message) /\ queue'["main"] = Append(queue["main"], m)
      /\ Len(queue["main"]) \in Nat /\ Len(queue'["main"]) = Len(queue["main"]) + 1
      /\ \A i \in 1..Len(queue["main"]) : queue'["main"][i] = queue["main"][i]
      /\ queue'["main"][Len(queue["main"]) + 1] = m
  BY MainInThread, SentArrives
<1>2. SUFFICES ASSUME NEW i \in DOMAIN queue'["main"], IsBeat(queue'["main"][i]) PROVE FALSE
  BY DEF HeartbeatQueued, IsBeat
<1>3. i \in 1..Len(queue["main"]) + 1
  BY <1>1
<1>4. i # Len(queue["main"]) + 1
  BY <1>1, <1>2
<1>5. i \in 1..Len(queue["main"]) /\ i \in DOMAIN queue["main"]
  BY <1>1, <1>3, <1>4
<1> QED
  BY <1>1, <1>2, <1>5 DEF HeartbeatQueued, IsBeat

LEMMA NoBeatRead ==
  ASSUME TypeOK, mq_receive("main"), ~HeartbeatQueued("light")
  PROVE  ~HeartbeatQueued("light")' /\ ~IsBeat(Head(queue["main"])) /\ Head(queue["main"]) \in Message
<1> DEFINE q == queue["main"]
<1>1. q \in Seq(Message) /\ q # <<>> /\ queue'["main"] = Tail(q)
  BY MainInThread DEF mq_receive, TypeOK, MQTypeOK
<1>2. \A i \in 1..Len(q) : ~IsBeat(q[i])
  BY <1>1 DEF HeartbeatQueued, IsBeat
<1> HIDE DEF q
<1>3. /\ Len(q) \in Nat /\ Len(q) >= 1 /\ Head(q) = q[1] /\ Head(q) \in Message
      /\ Tail(q) \in Seq(Message) /\ Len(Tail(q)) = Len(q) - 1
      /\ \A i \in 1..Len(Tail(q)) : Tail(q)[i] = q[i + 1]
  BY <1>1, HeadTailProperties, LenProperties
<1>4. ~IsBeat(Head(q))
  BY <1>2, <1>3
<1>5. \A i \in DOMAIN Tail(q) : i + 1 \in 1..Len(q) /\ Tail(q)[i] = q[i + 1]
  BY <1>3
<1>6. \A i \in DOMAIN Tail(q) : ~IsBeat(Tail(q)[i])
  BY <1>2, <1>5
<1> QED
  BY <1>1, <1>3, <1>4, <1>6 DEF HeartbeatQueued, IsBeat, q

LEMMA NoBeatHeard ==
  ASSUME TypeOK, "light" \in Task, NEW m \in Message \cup {NoMessage}, ~IsBeat(m), ~hbt_rsp["light"]
  PROVE  ~Heard(m)["light"]
<1>1. hbt_rsp \in [Task -> BOOLEAN]
  BY DEF TypeOK
<1>2. CASE m.id # "HEARTBEAT_RSP"
  BY <1>2 DEF Heard
<1>3. CASE m.id = "HEARTBEAT_RSP"
  <2>1. m \in Message
    BY <1>3 DEF NoMessage, Msg
  <2>2. m = [id |-> "HEARTBEAT_RSP", source |-> m.source]
    BY <1>3, <2>1 DEF Message
  <2>3. m.source # "light"
    BY <2>2 DEF IsBeat, Msg
  <2> QED
    BY <1>1, <1>3, <2>3 DEF Heard
<1> QED
  BY <1>2, <1>3

\* No call of another thread, and none of the setup, is a heartbeat of the light thread.
LEMMA SilentCall ==
  ASSUME TypeOK, AllPermitted, SetupInv, NEW u \in Thread, CommonCall(u),
         u = "light" => pc[u] = "setup", ~HeartbeatQueued("light")
  PROVE  ~HeartbeatQueued("light")'
<1> DEFINE c == NextCall(u)
<1>1. /\ c \in Call /\ c.to \in Thread
      /\ c.call = "mq_send" => c.msg \in Message /\ mq_send(c.to, c.msg)
      /\ c.call # "mq_send" => UNCHANGED queue
  BY CallSends
<1>2. c \in Permitted(u, pc[u])
  BY RestPermitted DEF CommonCall
<1>3. u = "light" => c \in SetupCall
  <2>1. SUFFICES ASSUME u = "light" PROVE c \in SetupCall
    OBVIOUS
  <2>2. todo[u] \in Seq(SetupCall) /\ todo[u] # <<>>
    BY <2>1 DEF SetupInv, Prepared, CommonCall
  <2> QED
    BY <2>2, HeadTailProperties DEF NextCall
<1> HIDE DEF c
<1>4. CASE c.call # "mq_send"
  BY <1>1, <1>4 DEF HeartbeatQueued
<1>5. CASE c.call = "mq_send" /\ c.to # "main"
  <2>1. queue'["main"] = queue["main"]
    BY <1>1, <1>5, MainInThread, SentArrives
  <2> QED
    BY <2>1 DEF HeartbeatQueued
<1>6. CASE c.call = "mq_send" /\ c.to = "main"
  <2>1. ~IsBeat(c.msg)
    <3>1. SUFFICES ASSUME IsBeat(c.msg) PROVE FALSE
      OBVIOUS
    <3>2. c.msg.id = "HEARTBEAT_RSP" /\ c.msg.source = "light"
      BY <3>1 DEF IsBeat, Msg
    <3>3. u = "light"
      BY <1>2, <1>6, <3>2 DEF Permitted, IsReply
    <3>4. c = Log
      BY <1>3, <1>6, <3>3 DEF SetupCall
    <3> QED
      BY <1>6, <3>4 DEF Log, Send
  <2> QED
    BY <1>1, <1>6, <2>1, NoBeatSent
<1> QED
  BY <1>4, <1>5, <1>6

\* Main's own steps.
LEMMA SilentMain ==
  ASSUME TypeOK, AllPermitted, SetupInv, MainStep, ~Die, "light" \in Task, Silent
  PROVE  Silent'
<1>0. /\ "main" \in Thread /\ in_buffer["main"] \in Message \cup {NoMessage}
      /\ hb_buffer \in Message \cup {NoMessage} /\ ~IsBeat(NoMessage)
      /\ in_buffer \in [Thread -> Message \cup {NoMessage}]
  BY MainInThread DEF TypeOK, TasksTypeOK, IsBeat, NoMessage, Msg
<1>1. CASE CommonCall("main") /\ UNCHANGED mainVars
  <2>1. in_buffer' = in_buffer
    BY <1>1 DEF CommonCall, CallSend, CallKill, CallNotify, CallMayDie, CallI2C, CallOpenLog, CallWriteLog
  <2>2. ~HeartbeatQueued("light")'
    BY <1>0, <1>1, SilentCall DEF Silent
  <2> QED
    BY <1>1, <2>1, <2>2 DEF Silent, mainVars
<1>2. CASE MainCalls
  BY <1>2 DEF MainCalls, CallStop, CallSetError, CallAlarm, CallUnlink, CallJoin, CallExit, Silent,
              mainVars, mqVars, pthread_kill, HeartbeatQueued
<1>3. CASE MainLoop \/ MainSigwait \/ MainTimer \/ MainStartup
  BY <1>3 DEF MainLoop, MainSigwait, MainTimer, MainStartup, sigwait, mqVars, mainVars, Silent, HeartbeatQueued
<1>4. CASE MainNotify
  <2>1. in_buffer'["main"] \in {in_buffer["main"], NoMessage}
    BY <1>0, <1>4 DEF MainNotify
  <2>2. queue' = queue /\ hbt_rsp' = hbt_rsp /\ hb_buffer' = hb_buffer
    BY <1>4 DEF MainNotify, mq_notify, mainVars
  <2> QED
    BY <1>0, <2>1, <2>2 DEF Silent, HeartbeatQueued
<1>5. CASE MainTick
  <2>1. hb_buffer' \in {hb_buffer, NoMessage}
    BY <1>5 DEF MainTick
  <2>2. queue' = queue /\ hbt_rsp' = hbt_rsp /\ in_buffer' = in_buffer
    BY <1>5 DEF MainTick, mq_notify
  <2> QED
    BY <1>0, <2>1, <2>2 DEF Silent, HeartbeatQueued
<1>6. CASE MainReceive
  <2>1. mq_receive("main") /\ hb_buffer' = hb_buffer /\ hbt_rsp' = Heard(Head(queue["main"]))
    BY <1>6 DEF MainReceive
  <2>2. ~HeartbeatQueued("light")' /\ ~IsBeat(Head(queue["main"])) /\ Head(queue["main"]) \in Message
    BY <2>1, NoBeatRead DEF Silent
  <2>3. in_buffer'["main"] = Head(queue["main"])
    BY <1>0, <1>6 DEF MainReceive
  <2>4. ~Heard(Head(queue["main"]))["light"]
    BY <2>2, NoBeatHeard DEF Silent
  <2> QED
    BY <2>1, <2>2, <2>3, <2>4 DEF Silent
<1>7. CASE MainReceiveEmpty
  <2>1. ~Heard(in_buffer["main"])["light"]
    BY <1>0, NoBeatHeard DEF Silent
  <2> QED
    BY <1>7, <2>1 DEF MainReceiveEmpty, mqVars, Silent, HeartbeatQueued
<1>8. CASE HbReceive
  <2>1. /\ mq_receive("main") /\ in_buffer' = in_buffer /\ hbt_rsp' = Heard(Head(queue["main"]))
        /\ hb_buffer' = Head(queue["main"])
    BY <1>8 DEF HbReceive
  <2>2. ~HeartbeatQueued("light")' /\ ~IsBeat(Head(queue["main"])) /\ Head(queue["main"]) \in Message
    BY <2>1, NoBeatRead DEF Silent
  <2>3. ~Heard(Head(queue["main"]))["light"]
    BY <2>2, NoBeatHeard DEF Silent
  <2> QED
    BY <2>1, <2>2, <2>3 DEF Silent
<1>9. CASE HbReceiveEmpty
  <2>1. ~Heard(hb_buffer)["light"]
    BY <1>0, NoBeatHeard DEF Silent
  <2> QED
    BY <1>9, <2>1 DEF HbReceiveEmpty, mqVars, Silent, HeartbeatQueued
<1>10. CASE HbCheck
  BY <1>10 DEF HbCheck, mqVars, Silent, HeartbeatQueued
<1>11. CASE HbJudge \/ HbRaise
  BY <1>11 DEF HbJudge, HbRaise, mqVars, mainVars, Silent, HeartbeatQueued
<1> QED
  BY <1>1, <1>2, <1>3, <1>4, <1>5, <1>6, <1>7, <1>8, <1>9, <1>10, <1>11, MainStepCases DEF MainLoops

\* Those of clients and tasks.
LEMMA SilentOther ==
  ASSUME TypeOK, AllPermitted, SetupInv, ~Die, ClientTargets \subseteq {"main"},
         ClientStep \/ \E u \in Task : ServerTask(u), "light" \in Task, ~Aware("light"), Silent
  PROVE  Silent'
<1>1. CASE ClientStep
  <2>1. mq_send("main", ClientCommand["main"]) /\ UNCHANGED <<taskVars, mainVars>>
    BY <1>1 DEF ClientStep, ClientSend
  <2>2. ClientCommand["main"] \in Message /\ ~IsBeat(ClientCommand["main"])
    BY DEF ClientCommand, Message, Msg, IsBeat
  <2>3. ~HeartbeatQueued("light")'
    BY <2>1, <2>2, NoBeatSent DEF Silent
  <2> QED
    BY <2>1, <2>3 DEF Silent, taskVars, mainVars
<1>2. ASSUME NEW u \in Task, ServerTask(u) PROVE Silent'
  <2>0. u \in Thread /\ u # "main" /\ TaskStep(u) /\ UNCHANGED mainVars
    BY <1>2, MainInThread, TaskAssumption DEF ServerTask
  <2>1. u = "light" => pc[u] \in {"setup", "loop", "sigwait"}
    <3>1. u = "light" => pc[u] \in {"setup", "loop", "sigwait", "round"} /\ pc[u] \in TaskLabel
      BY <1>2 DEF Aware, SetupInv, Prepared, Thread
    <3> QED
      BY <3>1 DEF TaskLabel
  <2>2. in_buffer'["main"] = in_buffer["main"]
    BY <2>0, MainInThread DEF TaskStep, CommonCall, CallSend, CallKill, CallNotify, CallMayDie, CallI2C,
       CallOpenLog, CallWriteLog, TaskLoop, TaskSigwait, TaskNotify, TaskReceive, TaskReceiveEmpty,
       TypeOK, TasksTypeOK
  <2>3. ~HeartbeatQueued("light")'
    <3>1. CASE CommonCall(u)
      <4>1. pc[u] \in Calling
        BY <3>1 DEF CommonCall
      <4>2. u = "light" => pc[u] = "setup"
        BY <2>1, <4>1 DEF Calling, Continue
      <4> QED
        BY <2>0, <3>1, <4>2, SilentCall DEF Silent
    <3>2. CASE ~CommonCall(u)
      <4>1. queue'["main"] = queue["main"]
        BY <2>0, <3>2, MainInThread DEF TaskStep, TaskLoop, TaskSigwait, TaskNotify, TaskReceive,
           TaskReceiveEmpty, mq_notify, mq_receive, sigwait, mqVars, TypeOK, MQTypeOK
      <4> QED
        BY <4>1 DEF Silent, HeartbeatQueued
    <3> QED
      BY <3>1, <3>2
  <2> QED
    BY <2>0, <2>2, <2>3 DEF Silent, mainVars
<1> QED
  BY <1>1, <1>2

\* What the light thread is behind with fits, and stays so until main leaves.
LEMMA FitsLength ==
  ASSUME TypeOK, NEW t \in Task, NEW n \in Nat, Fits(t, n)
  PROVE  Len(queue[t]) <= n /\ \A m \in Nat : n <= m => Fits(t, m)
<1>1. Len(queue[t]) \in Nat
  BY MainInThread, LenProperties DEF TypeOK, MQTypeOK
<1>2. PICK k \in 0..2 : AtMost(k, todo["main"], t) /\ Len(queue[t]) + k <= n
  BY DEF Fits
<1>3. Len(queue[t]) <= n /\ \A m \in Nat : n <= m => Len(queue[t]) + k <= m
  BY <1>1, <1>2
<1> QED
  BY <1>2, <1>3 DEF Fits

LEMMA BehindCall ==
  ASSUME TypeOK, TypeOK', AllPermitted, MainStep, ~Die, process' = "up", "light" \in Task, Behind,
         pc["main"] \in Calling
  PROVE  Behind'
<1> DEFINE c == NextCall("main")
<1>0. "main" \in Thread /\ "light" \in Driver /\ "light" \in Task
  BY MainInThread DEF Driver
<1>1. /\ todo["main"] # <<>> /\ todo["main"] \in Seq(Call) /\ todo'["main"] = Tail(todo["main"])
      /\ c = Head(todo["main"])
      /\ pc'["main"] = IF Tail(todo["main"]) = <<>> THEN Continue[pc["main"]] ELSE pc["main"]
  BY MainReturns
<1>2. c \in Permitted("main", pc["main"])
  BY <1>0, <1>1, RestPermitted
<1>3. IF c.call = "set_error" THEN main_state' = "ERROR" /\ pc["main"] = "verdict"
                              ELSE main_state' = main_state
  <2>1. CASE CommonCall("main") /\ UNCHANGED mainVars
    <3>1. c.call # "set_error"
      BY <2>1 DEF CommonCall, CallSend, CallKill, CallNotify, CallMayDie, CallI2C, CallOpenLog, CallWriteLog
    <3> QED
      BY <2>1, <3>1 DEF mainVars
  <2>2. CASE MainCalls
    <3>1. ~CallExit
      BY DEF CallExit
    <3> QED
      BY <1>2, <2>2, <3>1 DEF MainCalls, CallStop, CallSetError, CallAlarm, CallUnlink, CallJoin, MainCall,
                              mainVars, Permitted
  <2> QED
    BY <2>1, <2>2, MainStepCases DEF MainLoops
<1>4. pc["main"] # "round" => queue'["light"] = queue["light"]
  <2>1. pc["main"] # "round" => ~SendsTo(c, "light")
    BY <1>0, <1>1, DriversAsked
  <2> QED
    BY <1>0, <2>1, MainSends
<1> HIDE DEF c
<1>5. CASE pc["main"] = "round"
  <2>1. pc'["main"] \in {"round", "loop"} /\ main_state' = main_state
    BY <1>1, <1>3, <1>5 DEF Continue
  <2>2. IF Leaving THEN Fits("light", 3)' ELSE Fits("light", 2)'
    BY <1>5, MainFits DEF Behind
  <2>3. IF Leaving THEN TRUE ELSE Len(queue'["light"]) <= 2
    <3>1. SUFFICES ASSUME Fits("light", 2)' PROVE Len(queue'["light"]) <= 2
      BY <2>2
    <3>2. PICK k \in 0..2 : Len(queue'["light"]) + k <= 2
      BY <3>1 DEF Fits
    <3>3. Len(queue'["light"]) \in Nat
      BY <1>0, MainInThread, LenProperties DEF TypeOK, MQTypeOK
    <3> QED
      BY <3>2, <3>3
  <2> QED
    BY <2>1, <2>2, <2>3 DEF Behind, Leaving
<1>6. CASE pc["main"] = "teardown"
  <2>1. pc'["main"] \in {"teardown", "ended"} /\ main_state' = main_state
    BY <1>1, <1>3, <1>6 DEF Continue
  <2> QED
    BY <2>1 DEF Behind, Leaving
<1>7. CASE pc["main"] = "verdict"
  <2>1. pc'["main"] \in {"verdict", "judge"}
    BY <1>1, <1>7 DEF Continue
  <2>2. Len(queue'["light"]) <= 2
    BY <1>4, <1>7 DEF Behind
  <2>3. main_state' # "STARTUP" /\ (Leaving => Leaving')
    BY <1>3 DEF Behind, Leaving, Stopped
  <2>4. CASE Leaving
    BY <2>1, <2>2, <2>3, <2>4 DEF Behind
  <2>5. CASE c = Do("set_error", "main")
    <3>1. Leaving'
      BY <1>3, <2>5 DEF Do, Leaving, Stopped
    <3> QED
      BY <2>1, <2>2, <2>3, <3>1 DEF Behind
  <2>6. CASE ~Leaving /\ c # Do("set_error", "main")
    <3>1. Ahead(Tail(todo["main"]), Do("set_error", "main"))
      BY <1>1, <1>7, <2>6, AheadTail DEF Behind
    <3>2. Tail(todo["main"]) # <<>>
      BY <3>1, AheadSome
    <3>3. Ahead(todo'["main"], Do("set_error", "main")) /\ pc'["main"] = "verdict"
      BY <1>1, <1>7, <3>1, <3>2
    <3> QED
      BY <2>2, <2>3, <3>3 DEF Behind, Ahead
  <2> QED
    BY <2>4, <2>5, <2>6
<1>8. CASE pc["main"] \in {"setup", "handle", "again", "hb_handle", "hb_again"}
  <2>1. pc'["main"] \in {"setup", "loop", "handle", "receive", "again", "hb_handle", "hb_receive", "hb_again", "check"}
    BY <1>1, <1>8 DEF Continue
  <2>2. main_state' = main_state /\ Len(queue'["light"]) <= 2
    BY <1>3, <1>4, <1>8 DEF Behind
  <2> QED
    BY <2>1, <2>2 DEF Behind
<1> QED
  BY <1>5, <1>6, <1>7, <1>8 DEF Calling, Continue

\* The report about the light thread.
LEMMA ReportsLight ==
  ASSUME "light" \in Task, ~hbt_rsp["light"],
         NEW script, script = MissingReport("temp") \o MissingReport("light") \o MissingReport("logger")
  PROVE  script # <<>> /\ Ahead(script, Do("set_error", "main"))
<1> DEFINE a == MissingReport("temp")
           b == MissingReport("light")
           d == MissingReport("logger")
           e == Do("set_error", "main")
<1>1. Log \in Call /\ e \in Call
  BY MainInThread, CallTypes DEF CallName
<1>2. <<Log, e>> \in Seq(Call)
  BY <1>1, ShortSeq
<1>3. ASSUME NEW t PROVE MissingReport(t) \in Seq(Call)
  BY <1>2, EmptySeq DEF MissingReport
<1>4. b = <<Log, e>>
  BY DEF MissingReport
<1>5. Ahead(b, e)
  <2>1. 2 \in 1..Len(<<Log, e>>) /\ <<Log, e>>[2] = e
    OBVIOUS
  <2> QED
    BY <1>4, <2>1 DEF Ahead
<1>6. a \in Seq(Call) /\ b \in Seq(Call) /\ d \in Seq(Call)
  BY <1>3
<1>7. script = a \o b \o d
  OBVIOUS
<1> HIDE DEF a, b, d, e
<1>8. a \o b \in Seq(Call) /\ Ahead(a \o b, e)
  BY <1>5, <1>6, ConcatType, AheadConcat
<1> DEFINE ab == a \o b
<1> HIDE DEF ab
<1>9. Ahead(ab \o d, e)
  BY <1>6, <1>8, AheadConcat DEF ab
<1>10. Ahead(script, e)
  BY <1>7, <1>9 DEF ab
<1> QED
  BY <1>10, AheadSome DEF e

LEMMA BehindLoop ==
  ASSUME TypeOK, TypeOK', AllPermitted, MainStep, ~Die, "light" \in Task, Silent, Behind,
         pc["main"] \notin Calling
  PROVE  Behind'
<1>0. "main" \in Thread /\ "light" \in Driver /\ "light" \in Thread
  BY MainInThread DEF Driver
<1>1. MainLoops
  BY MainStepCases DEF MainCalls, CallStop, CallSetError, CallAlarm, CallUnlink, CallJoin, CallExit,
                       MainCall, CommonCall
<1>2. queue'["light"] = queue["light"] /\ Len(queue["light"]) \in Nat
  BY <1>0, <1>1, MainLeavesQueues, LenProperties DEF TypeOK, MQTypeOK
<1>3. ASSUME pc'["main"] \notin {"startup", "verdict", "judge", "raise", "round"}, main_state' = main_state,
             pc["main"] \notin {"loop", "ended"}
      PROVE  Behind'
  <2>1. Len(queue'["light"]) <= 2
    BY <1>2, <1>3 DEF Behind, Calling, Continue
  <2> QED
    BY <1>3, <2>1 DEF Behind
<1>4. CASE MainLoop
  <2>1. CASE main_state \in Stopped
    <3>1. Run("main", "teardown", MainTeardownScript) /\ main_state' = main_state
      BY <1>4, <2>1 DEF MainLoop, mainVars
    <3>2. pc'["main"] = "teardown"
      BY <1>0, <3>1, RunMoves, ExitPathStarts
    <3> QED
      BY <3>1, <3>2 DEF Behind
  <2>2. CASE main_state \notin Stopped
    <3>1. Goto("main", "sigwait") /\ UNCHANGED todo /\ main_state' = main_state /\ pc["main"] = "loop"
      BY <1>4, <2>2 DEF MainLoop, mainVars
    <3>2. pc'["main"] = "sigwait"
      BY <1>0, <3>1, GotoMoves
    <3>3. Len(queue'["light"]) <= 2
      BY <1>2, <2>2, <3>1 DEF Behind, Leaving
    <3> QED
      BY <3>1, <3>2, <3>3 DEF Behind
  <2> QED
    BY <2>1, <2>2
<1>5. CASE MainSigwait \/ MainTimer \/ MainNotify
  <2>1. /\ \E label \in {"notify", "tick", "receive"} : Goto("main", label) /\ UNCHANGED todo
        /\ main_state' = main_state /\ pc["main"] \in {"sigwait", "notify"}
    BY <1>5 DEF MainSigwait, MainTimer, MainNotify, mainVars
  <2>2. pc'["main"] \in {"notify", "tick", "receive"}
    BY <1>0, <2>1, GotoMoves
  <2> QED
    BY <1>3, <2>1, <2>2
<1>6. CASE MainReceive \/ MainReceiveEmpty \/ HbReceive \/ HbReceiveEmpty
  <2>1. /\ \E label \in {"handle", "again", "hb_handle", "hb_again"} : \E script : Run("main", label, script)
        /\ main_state' = main_state /\ pc["main"] \in {"receive", "hb_receive"}
    BY <1>6 DEF MainReceive, MainReceiveEmpty, HbReceive, HbReceiveEmpty
  <2>2. \E label \in {"handle", "again", "hb_handle", "hb_again"} : pc'["main"] \in {label, Continue[label]}
    BY <1>0, <2>1, RunMoves
  <2> QED
    BY <1>3, <2>1, <2>2 DEF Continue
<1>7. CASE MainTick
  <2>1. main_state' = main_state /\ pc["main"] = "tick" /\ main_state # "STARTUP"
    BY <1>7 DEF MainTick, Behind
  <2>2. CASE main_state = "REQ_RSP"
    <3>1. Goto("main", "hb_receive") /\ UNCHANGED todo
      BY <1>7, <2>2 DEF MainTick, Stopped
    <3>2. pc'["main"] = "hb_receive"
      BY <1>0, <3>1, GotoMoves
    <3> QED
      BY <1>3, <2>1, <3>2
  <2>3. CASE main_state # "REQ_RSP"
    <3>1. Leaving /\ Run("main", "round", <<Alarm>>)
      BY <1>7, <2>1, <2>3 DEF MainTick, Leaving, Alarm
    <3>2. pc'["main"] = "round" /\ todo'["main"] = <<Alarm>>
      BY <1>0, <3>1, RunMoves
    <3>3. Len(queue'["light"]) <= 2
      BY <1>2, <2>1 DEF Behind
    <3>4. AtMost(0, <<Alarm>>, "light")
      BY AtMostOne DEF SendsTo, Alarm, Do
    <3>5. Fits("light", 3)'
      <4>1. 0 \in 0..2 /\ Len(queue'["light"]) + 0 <= 3
        BY <1>2, <3>3
      <4> QED
        BY <3>2, <3>4, <4>1 DEF Fits, AtMost
    <3> QED
      BY <2>1, <3>1, <3>2, <3>5 DEF Behind, Leaving
  <2> QED
    BY <2>2, <2>3
<1>8. CASE MainStartup
  BY <1>8 DEF MainStartup, Behind
<1>9. CASE HbCheck
  <2> DEFINE script == MissingReport("temp") \o MissingReport("light") \o MissingReport("logger")
  <2>1. Run("main", "verdict", script) /\ main_state' = main_state /\ pc["main"] = "check"
    BY <1>9 DEF HbCheck
  <2>2. script # <<>> /\ Ahead(script, Do("set_error", "main"))
    BY ReportsLight DEF Silent
  <2> HIDE DEF script
  <2>3. pc'["main"] = "verdict" /\ todo'["main"] = script
    BY <1>0, <2>1, <2>2, RunMoves
  <2>4. Ahead(todo'["main"], Do("set_error", "main"))
    BY <2>2, <2>3
  <2>5. Len(queue'["light"]) <= 2
    BY <1>2, <2>1 DEF Behind
  <2> QED
    BY <2>1, <2>3, <2>4, <2>5 DEF Behind, Ahead
<1>10. CASE HbJudge /\ main_state = "ERROR"
  <2>1. Leaving' /\ main_state' # "STARTUP" /\ Len(queue["light"]) <= 2
    BY <1>10 DEF HbJudge, Behind, Leaving, Stopped, mainVars
  <2>2. pc'["main"] = "raise"
    BY <1>0, <1>10, GotoMoves DEF HbJudge
  <2> QED
    BY <1>2, <2>1, <2>2 DEF Behind
<1>11. CASE (HbJudge /\ main_state # "ERROR") \/ HbRaise
  <2>1. Leaving /\ Len(queue["light"]) <= 2
    BY <1>11 DEF HbJudge, HbRaise, Behind
  <2>2. PICK script \in {RoundScript, <<Log>> \o RoundScript} : Run("main", "round", script) /\ Leaving'
    BY <1>11, <2>1 DEF HbJudge, HbRaise, Leaving, Stopped, mainVars
  <2>3. AtMost(1, script, "light")
    BY <1>0, RoundCounts
  <2>4. Ahead(script, Alarm)
    BY RoundsRestart
  <2>5. script # <<>>
    BY <2>4, AheadSome
  <2>6. pc'["main"] = "round" /\ todo'["main"] = script
    BY <1>0, <2>2, <2>5, RunMoves
  <2>7. Fits("light", 3)'
    <3>1. 1 \in 0..2 /\ Len(queue'["light"]) + 1 <= 3
      BY <1>2, <2>1
    <3> QED
      BY <2>3, <2>6, <3>1 DEF Fits, AtMost
  <2> QED
    BY <2>2, <2>6, <2>7 DEF Behind, Leaving, Stopped
<1> QED
  BY <1>1, <1>4, <1>5, <1>6, <1>7, <1>8, <1>9, <1>10, <1>11 DEF MainLoops

LEMMA BehindOther ==
  ASSUME TypeOK, TypeOK', AllPermitted, ~Die, ClientTargets \subseteq {"main"}, "light" \in Task,
         ClientStep \/ \E u \in Task : ServerTask(u), Behind
  PROVE  Behind'
<1>1. /\ Len(queue'["light"]) <= Len(queue["light"])
      /\ pc'["main"] = pc["main"] /\ todo'["main"] = todo["main"]
  BY OtherSends DEF Driver
<1>2. main_state' = main_state
  BY DEF ClientStep, ClientSend, ServerTask, mainVars
<1>3. \A n \in {2, 3} : Fits("light", n) => Fits("light", n)'
  BY <1>1, FitsStays
<1>4. Len(queue["light"]) <= 2 => Len(queue'["light"]) <= 2
  <2>1. Len(queue["light"]) \in Nat /\ Len(queue'["light"]) \in Nat
    BY MainInThread, LenProperties DEF TypeOK, MQTypeOK
  <2> QED
    BY <1>1, <2>1
<1> QED
  BY <1>1, <1>2, <1>3, <1>4 DEF Behind, Leaving, Ahead

LEMMA BehindSignal ==
  ASSUME TypeOK, TypeOK', AllPermitted, NEW s, UserSignal(s), ~Die, "light" \in Task, Behind
  PROVE  Behind'
<1>0. "light" \in Thread /\ "main" \in Thread /\ Len(queue["light"]) \in Nat
  BY MainInThread, LenProperties DEF TypeOK, MQTypeOK
<1>1. PICK u \in Thread : handleCtrlC(u)
  BY DEF UserSignal
<1>2. /\ main_state' = "SHUTDOWN" /\ Leaving' /\ queue' = queue
      /\ UNCHANGED <<pc, todo>> \/ (Blocked(u) /\ Interrupted(u))
  BY <1>1 DEF handleCtrlC, Leaving, Stopped
<1>3. pc["main"] = "round" => Fits("light", 3)
  BY FitsLength DEF Behind
<1>4. CASE pc'["main"] = pc["main"] /\ todo'["main"] = todo["main"]
  <2>1. pc'["main"] = "round" => Fits("light", 3)'
    BY <1>0, <1>2, <1>3, <1>4, FitsStays
  <2>2. \/ pc'["main"] \in {"round", "teardown", "ended"}
        \/ Len(queue'["light"]) <= 2
        \/ pc'["main"] = "loop" /\ Leaving'
    BY <1>2, <1>4 DEF Behind
  <2>3. pc'["main"] # "startup" /\ main_state' # "STARTUP"
    BY <1>2, <1>4 DEF Behind
  <2> QED
    BY <1>2, <2>1, <2>2, <2>3 DEF Behind
<1>5. CASE Blocked(u) /\ Interrupted(u) /\ u = "main"
  <2>1. /\ \E label \in {pc["main"], ErrnoOverwritten(pc["main"])} : pc'["main"] \in {label, Continue[label]}
        /\ pc["main"] \in Calling /\ IsRest(todo'["main"], todo["main"])
    BY <1>5, InterruptedType, MainInterrupted DEF Blocked
  <2>2. CASE pc["main"] = "round"
    <3>1. Fits("light", 3)'
      BY <1>0, <1>2, <1>3, <2>1, <2>2, FitsStays
    <3>2. pc'["main"] \in {"round", "loop"}
      BY <2>1, <2>2 DEF Continue, ErrnoOverwritten
    <3> QED
      BY <1>2, <3>1, <3>2 DEF Behind
  <2>3. CASE pc["main"] # "round"
    <3>1. /\ pc'["main"] \notin {"startup", "round"}
          /\ pc["main"] = "teardown" => pc'["main"] \in {"teardown", "ended"}
      BY <2>1, <2>3 DEF Calling, Continue, ErrnoOverwritten
    <3>2. pc["main"] = "teardown" \/ Len(queue["light"]) <= 2
      BY <2>1, <2>3 DEF Behind, Calling, Continue
    <3> QED
      BY <1>2, <3>1, <3>2 DEF Behind
  <2> QED
    BY <2>2, <2>3
<1>6. CASE Blocked(u) /\ Interrupted(u) /\ u # "main"
  <2>1. \E script : Run(u, ErrnoOverwritten(pc[u]), script)
    BY <1>6, InterruptedRuns
  <2> QED
    BY <1>0, <1>4, <1>6, <2>1, RunMoves
<1> QED
  BY <1>2, <1>4, <1>5, <1>6

LEMMA LightStep ==
  ASSUME TypeOK, TypeOK', AllPermitted, WakeupInv, SetupInv, ServerStep \/ ClientStep, ~Die, process' = "up",
         ClientTargets \subseteq {"main"}, LightInv
  PROVE  LightInv'
<1> SUFFICES ASSUME "light" \in Task
             PROVE  (Aware("light") \/ (Silent /\ (Unasked("light") \/ Behind)))'
  BY DEF LightInv
<1>0. "light" \in Driver
  BY DEF Driver
<1>1. CASE Aware("light")
  BY <1>1, AwareLasts
<1>2. CASE ~Aware("light") /\ Silent /\ (Unasked("light") \/ Behind)
  <2>1. Silent'
    BY <1>2, SilentMain, SilentOther DEF ServerStep
  <2>2. CASE ~MainStep
    BY <1>0, <1>2, <2>1, <2>2, UnaskedOther, BehindOther DEF ServerStep
  <2>3. CASE MainStep /\ Behind
    BY <1>2, <2>1, <2>3, BehindCall, BehindLoop
  <2>4. CASE MainStep /\ Unasked("light") /\ pc["main"] # "startup"
    BY <1>0, <2>1, <2>4, UnaskedMain
  <2>5. CASE MainStep /\ Unasked("light") /\ pc["main"] = "startup"
    <3>1. MainStartup
      BY <2>5 DEF MainStep, CommonCall, Calling, Continue, CallStop, CallSetError, CallAlarm, CallUnlink, CallJoin,
         CallExit, MainCall, MainLoop, MainSigwait, MainTimer, MainNotify, MainReceive, MainReceiveEmpty, MainTick,
         HbReceive, HbReceiveEmpty, HbCheck, HbJudge, HbRaise
    <3>2. /\ pc'["main"] = "round" /\ main_state' = "REQ_RSP" /\ Fits("light", 2)'
      BY <1>0, <2>5, <3>1, RoundBegins, RoundFits DEF Unasked
    <3>3. Behind'
      BY <3>2 DEF Behind, Leaving, Stopped
    <3> QED
      BY <2>1, <3>3
  <2> QED
    BY <1>2, <2>2, <2>3, <2>4, <2>5
<1> QED
  BY <1>1, <1>2 DEF LightInv

LEMMA LightSignal ==
  ASSUME TypeOK, TypeOK', AllPermitted, WakeupInv, NEW s, UserSignal(s), ~Die, LightInv
  PROVE  LightInv'
<1> SUFFICES ASSUME "light" \in Task
             PROVE  (Aware("light") \/ (Silent /\ (Unasked("light") \/ Behind)))'
  BY DEF LightInv
<1>1. CASE Aware("light")
  BY <1>1, AwareSignal
<1>2. CASE Silent /\ (Unasked("light") \/ Behind)
  <2>1. Silent'
    <3>1. queue' = queue /\ in_buffer' = in_buffer /\ hbt_rsp' = hbt_rsp /\ hb_buffer' = hb_buffer
      BY DEF UserSignal, handleCtrlC
    <3> QED
      BY <1>2, <3>1 DEF Silent, HeartbeatQueued
  <2> QED
    BY <1>2, <2>1, FreshSignal, BehindSignal DEF Unasked
<1> QED
  BY <1>1, <1>2 DEF LightInv

(***************************************************************************)
(* The logger.                                                             *)
(***************************************************************************)
\* What main does not log.
Calm(m) == m.id \in {"CLIENT_SHUTDOWN", "NONE"}
QuietMain ==
  /\ Calm(in_buffer["main"]) /\ \A i \in 1..Len(queue["main"]) : Calm(queue["main"][i])
  /\ pc["main"] \notin {"handle", "again"}
  /\ Fresh \/ (pc["main"] = "round" /\ todo["main"] = StartupScript)
  /\ pc["main"] = "teardown" => todo["main"] = MainTeardownScript
QuietDriver(d) == queue[d] = <<>> /\ pending[d] = 0 /\ pc[d] \in {"setup", "loop", "sigwait"}

\* There is room for all that the setups still write.
Writer == {"temp", "light", "main"}
Lines(t, k) == t \in Thread /\ pc[t] = "setup" => AtMost(k, todo[t], "logger")
RoomForLines ==
  \E k \in [Writer -> 0..2] :
    /\ \A t \in Writer : Lines(t, k[t])
    /\ Len(queue["logger"]) + k["temp"] + k["light"] + k["main"] < Capacity

\* Until main's first message nobody writes but the setups.
Quiet == QuietMain /\ (\A d \in Driver : QuietDriver(d)) /\ RoomForLines

\* The queue of the logger: it is aware of it, or main writes no more to it
\* before the kick, or before its end, or the setups are all that writes.
LoggerInv ==
  \/ Aware("logger")
  \/ InRound("logger") /\ AtMost(0, todo["main"], "logger")
  \/ pc["main"] \in {"teardown", "ended"} /\ AtMost(0, todo["main"], "logger")
  \/ Quiet

LEMMA Sums ==
  ASSUME NEW n \in Nat, NEW m \in Nat, NEW a \in 0..2, NEW b \in 0..2, NEW c \in 0..2, n + a + b + c < m
  PROVE  /\ n < m
         /\ \A i, j, l \in 0..2 : i + j + l = a + b + c - 1 => n + 1 + i + j + l < m
OBVIOUS

LEMMA WriterThread == \A u \in Thread : u = "logger" \/ (u \in Writer /\ (u = "main" \/ u \in Driver))
BY TaskAssumption DEF Thread, Writer, Driver

\* Nobody has been told to stop yet.
LEMMA QuietRuns ==
  ASSUME TypeOK, StopsInOrder, QuietMain
  PROVE  \A t \in Task : task_state[t] = "RUNNING"
<1>1. CASE pc["main"] # "teardown"
  BY <1>1, AllRun
<1>2. CASE pc["main"] = "teardown"
  <2>1. InOrder(MainTeardownScript)
    BY <1>2 DEF StopsInOrder, ExitPath, QuietMain
  <2>2. 1 \in 1..Len(MainTeardownScript) /\ MainTeardownScript[1].call = "mq_send"
    BY TeardownSends
  <2> QED
    BY <2>1, <2>2 DEF InOrder
<1> QED
  BY <1>1, <1>2

\* Nobody waits.
LEMMA QuietGoes ==
  ASSUME TypeOK, AllPermitted, SetupInv, Quiet, ~Aware("logger"), NEW u \in Thread
  PROVE  ~Blocked(u)
<1> DEFINE c == NextCall(u)
<1> SUFFICES ASSUME Blocked(u) PROVE FALSE
  OBVIOUS
<1>0. /\ pc[u] \in Calling /\ todo[u] # <<>> /\ c.call = "mq_send" /\ ~HasRoom(c.to)
      /\ c \in Permitted(u, pc[u])
  BY BlockedSends DEF Blocked
<1>1. HasRoom("logger")
  <2>1. PICK k \in [Writer -> 0..2] : Len(queue["logger"]) + k["temp"] + k["light"] + k["main"] < Capacity
    BY DEF Quiet, RoomForLines
  <2>2. k["temp"] \in 0..2 /\ k["light"] \in 0..2 /\ k["main"] \in 0..2 /\ Len(queue["logger"]) \in Nat
    BY MainInThread, LenProperties DEF Writer, TypeOK, MQTypeOK
  <2> QED
    BY <2>1, <2>2, CapacityAssumption, Sums DEF HasRoom
<1>2. pc[u] = "setup" => c = Log
  <2>1. SUFFICES ASSUME pc[u] = "setup" PROVE c = Log
    OBVIOUS
  <2>2. c \in SetupCall
    BY <1>0, <2>1, HeadTailProperties DEF SetupInv, Prepared, NextCall
  <2> QED
    BY <1>0, <2>2 DEF SetupCall
<1>3. c.to # "logger"
  BY <1>0, <1>1
<1>4. pc[u] # "setup"
  BY <1>2, <1>3 DEF Log, Send
<1>5. u = "main"
  <2>1. u \in Driver => pc[u] \in {"setup", "loop", "sigwait"}
    BY DEF Quiet, QuietDriver
  <2>2. u = "logger" => pc[u] \in {"setup", "loop", "sigwait"}
    <3>1. pc["logger"] \in {"setup", "loop", "sigwait", "round"} /\ pc["logger"] \in TaskLabel
      BY TaskAssumption, MainInThread DEF Aware, SetupInv, Prepared
    <3> QED
      BY <3>1 DEF TaskLabel
  <2> QED
    BY <1>0, <1>4, <2>1, <2>2, WriterThread DEF Calling, Continue
<1>6. pc["main"] \in {"round", "teardown"}
  BY <1>0, <1>4, <1>5 DEF Quiet, QuietMain, Fresh, FirstRoundAhead, Calling, Continue
<1>7. CASE pc["main"] = "teardown"
  <2>1. c = Send("logger", "FILE_CHANGE", "main")
    BY <1>5, <1>7, TeardownSends DEF Quiet, QuietMain, NextCall
  <2> QED
    BY <1>3, <2>1 DEF Send
<1>8. CASE pc["main"] = "round" /\ todo["main"] = StartupScript
  <2>1. c = Send("logger", "HEARTBEAT_REQ", "main")
    BY <1>5, <1>8, StartupCounts DEF NextCall
  <2> QED
    BY <1>3, <2>1 DEF Send
<1>9. CASE pc["main"] = "round" /\ todo["main"] = <<Alarm>>
  <2>1. c = Alarm
    BY <1>5, <1>9 DEF NextCall
  <2> QED
    BY <1>0, <2>1 DEF Alarm, Do
<1> QED
  BY <1>6, <1>7, <1>8, <1>9 DEF Quiet, QuietMain, Fresh

\* A call of a setup.
LEMMA LinesStay ==
  ASSUME NEW t, NEW k, Lines(t, k), t \in Thread => pc'[t] = pc[t] /\ todo'[t] = todo[t]
  PROVE  Lines(t, k)'
BY DEF Lines, AtMost

LEMMA LineWritten ==
  ASSUME TypeOK, AllPermitted, SetupInv, RoomForLines, NEW u \in Thread, u # "logger", CommonCall(u), ~Die,
         pc[u] = "setup"
  PROVE  /\ RoomForLines' /\ in_buffer' = in_buffer
         /\ \A t \in Thread : t # "logger" => queue'[t] = queue[t] /\ pending'[t] = pending[t]
<1> DEFINE c == NextCall(u)
<1>0. u \in Writer /\ "logger" \in Thread /\ Len(queue["logger"]) \in Nat
  BY MainInThread, WriterThread, LenProperties DEF TypeOK, MQTypeOK
<1>1. /\ c \in SetupCall /\ todo[u] \in Seq(SetupCall) /\ todo[u] # <<>>
      /\ todo'[u] = Tail(todo[u])
      /\ pc'[u] \in {"setup", "loop"}
      /\ c = Head(todo[u]) /\ todo[u] \in Seq(Call) /\ Tail(todo[u]) \in Seq(Call)
  <2>1. todo[u] \in Seq(Call) /\ todo[u] # <<>>
    BY DEF TypeOK, TasksTypeOK, CommonCall
  <2> QED
    BY <2>1, SetupReturns, HeadTailProperties DEF NextCall
<1>2. \A t \in Thread : t # u => pc'[t] = pc[t] /\ todo'[t] = todo[t]
  <2>1. Return(u)
    BY SetupReturns
  <2> QED
    BY <2>1, RunMoves DEF Return
<1>3. in_buffer' = in_buffer
  BY DEF CommonCall, CallSend, CallKill, CallNotify, CallMayDie, CallI2C, CallOpenLog, CallWriteLog
<1>4. PICK k \in [Writer -> 0..2] :
        /\ \A t \in Writer : Lines(t, k[t])
        /\ Len(queue["logger"]) + k["temp"] + k["light"] + k["main"] < Capacity
  BY DEF RoomForLines
<1>5. /\ k[u] \in 0..2 /\ AtMost(k[u], todo[u], "logger")
      /\ k["temp"] \in 0..2 /\ k["light"] \in 0..2 /\ k["main"] \in 0..2
  BY <1>0, <1>4 DEF Lines, Writer
<1> HIDE DEF c
<1>6. CASE c = Log
  <2>1. mq_send("logger", c.msg) /\ c.msg \in Message
    BY <1>6, CallSends DEF Log, Send, c
  <2>2. Len(queue'["logger"]) = Len(queue["logger"]) + 1 /\ \A t \in Thread : t # "logger" => queue'[t] = queue[t]
    BY <1>0, <2>1, SentArrives
  <2>3. \A t \in Thread : t # "logger" => pending'[t] = pending[t]
    <3>1. pending' = Raised("logger") \/ pending' = pending
      BY <2>1 DEF mq_send
    <3>2. pending \in [Thread -> 0..SignalLimit]
      BY DEF TypeOK, MQTypeOK
    <3> QED
      BY <1>0, <3>1, <3>2, RaisedType
  <2>4. SendsTo(Head(todo[u]), "logger")
    BY <1>1, <1>6 DEF SendsTo, Log, Send
  <2>5. k[u] - 1 \in 0..1 /\ AtMost(k[u] - 1, Tail(todo[u]), "logger")
    BY <1>1, <1>5, <2>4, AtMostSent
  <2> DEFINE l == [k EXCEPT ![u] = k[u] - 1]
  <2>6. l \in [Writer -> 0..2] /\ l[u] = k[u] - 1 /\ \A t \in Writer : t # u => l[t] = k[t]
    BY <1>0, <1>5, <2>5
  <2> HIDE DEF l
  <2>7. ASSUME NEW t \in Writer PROVE Lines(t, l[t])'
    <3>1. CASE t = u
      <4>1. AtMost(l[t], todo'[t], "logger")
        BY <1>1, <2>5, <2>6, <3>1
      <4> QED
        BY <4>1 DEF Lines, AtMost
    <3>2. CASE t # u
      <4>1. Lines(t, k[t]) /\ l[t] = k[t]
        BY <1>4, <2>6, <3>2
      <4> QED
        BY <1>2, <3>2, <4>1, LinesStay
    <3> QED
      BY <3>1, <3>2
  <2> DEFINE a == k["temp"]
             b == k["light"]
             m == k["main"]
             d == l["temp"]
             e == l["light"]
             f == l["main"]
             n == Len(queue["logger"])
  <2>8. a \in 0..2 /\ b \in 0..2 /\ m \in 0..2 /\ d \in 0..2 /\ e \in 0..2 /\ f \in 0..2 /\ n \in Nat
    BY <1>0, <1>5, <2>6 DEF Writer
  <2>9. n + a + b + m < Capacity /\ Len(queue'["logger"]) = n + 1
    BY <1>4, <2>2
  <2>10. \/ d = a - 1 /\ e = b /\ f = m
         \/ d = a /\ e = b - 1 /\ f = m
         \/ d = a /\ e = b /\ f = m - 1
    BY <1>0, <2>6 DEF Writer
  <2> HIDE DEF a, b, m, d, e, f, n
  <2>11. Len(queue'["logger"]) + d + e + f < Capacity
    BY <2>8, <2>9, <2>10, CapacityAssumption
  <2>12. Len(queue'["logger"]) + l["temp"] + l["light"] + l["main"] < Capacity
    BY <2>11 DEF d, e, f
  <2> QED
    BY <1>3, <2>2, <2>3, <2>6, <2>7, <2>12 DEF RoomForLines
<1>7. CASE c # Log
  <2>1. c.call \in {"mq_notify", "open_i2c", "initLogger", "alarm"}
    BY <1>1, <1>7 DEF SetupCall
  <2>2. queue' = queue /\ pending' = pending
    BY <2>1 DEF c, CommonCall, CallSend, CallKill, CallNotify, CallMayDie, CallI2C, CallOpenLog, CallWriteLog,
                mq_notify, mqVars
  <2>3. ASSUME NEW t \in Writer PROVE Lines(t, k[t])'
    <3>1. CASE t = u
      <4>1. IsRest(todo'[u], todo[u])
        BY <1>1, TailRest
      <4>2. AtMost(k[u], todo'[u], "logger")
        BY <1>1, <1>5, <4>1, AtMostRest
      <4> QED
        BY <3>1, <4>2 DEF Lines, AtMost
    <3>2. CASE t # u
      <4>1. Lines(t, k[t])
        BY <1>4
      <4> QED
        BY <1>2, <3>2, <4>1, LinesStay
    <3> QED
      BY <3>1, <3>2
  <2> QED
    BY <1>3, <1>4, <2>2, <2>3 DEF RoomForLines
<1> QED
  BY <1>6, <1>7

\* The quiet lasts through a step of main.
LEMMA QuietLasts ==
  ASSUME Quiet, QuietMain', pc'["main"] # "setup" \/ (pc'["main"] = pc["main"] /\ todo'["main"] = todo["main"]),
         \A t \in Task : pc'[t] = pc[t] /\ todo'[t] = todo[t] /\ queue'[t] = queue[t],
         \A d \in Driver : pending'[d] = pending[d]
  PROVE  Quiet'
<1>1. \A d \in Driver : QuietDriver(d)'
  BY DEF Quiet, QuietDriver, Driver
<1>2. \A t \in Writer : \A k : Lines(t, k) => Lines(t, k)'
  <2>1. ASSUME NEW t \in Writer, NEW k, Lines(t, k) PROVE Lines(t, k)'
    <3>1. CASE t = "main"
      BY <2>1, <3>1, LinesStay DEF Lines
    <3>2. CASE t # "main"
      <4>1. t \in Thread => t \in Task
        BY <3>2 DEF Thread
      <4> QED
        BY <2>1, <4>1, LinesStay
    <3> QED
      BY <3>1, <3>2
  <2> QED
    BY <2>1
<1>3. RoomForLines'
  <2>1. queue'["logger"] = queue["logger"]
    BY TaskAssumption
  <2> QED
    BY <1>2, <2>1 DEF Quiet, RoomForLines
<1> QED
  BY <1>1, <1>3 DEF Quiet

LEMMA QuietCall ==
  ASSUME TypeOK, AllPermitted, SetupInv, MainStep, ~Die, process' = "up", Quiet, pc["main"] \in {"setup", "round"},
         todo["main"] # StartupScript \/ pc["main"] = "setup"
  PROVE  Quiet'
<1>0. "main" \in Thread /\ pc["main"] \in Calling /\ pc["main"] # "startup" /\ Fresh /\ "main" \in Writer
  BY MainInThread DEF Calling, Continue, Quiet, QuietMain, Fresh, FirstRoundAhead, Writer
<1>1. /\ todo["main"] # <<>> /\ todo["main"] \in Seq(Call) /\ Tail(todo["main"]) \in Seq(Call)
      /\ todo'["main"] = Tail(todo["main"]) /\ NextCall("main") = Head(todo["main"])
      /\ pc'["main"] = IF Tail(todo["main"]) = <<>> THEN Continue[pc["main"]] ELSE pc["main"]
  BY <1>0, MainReturns
<1>2. Fresh' /\ pc'["main"] \in {"setup", "round", "loop"}
  BY <1>0, <1>1, FreshMain DEF Continue
<1>3. \A t \in Task : pc'[t] = pc[t] /\ todo'[t] = todo[t]
  BY MainStepCases
<1>4. CASE CommonCall("main")
  <2>1. pc["main"] = "setup"
    <3>1. SUFFICES ASSUME pc["main"] = "round" PROVE FALSE
      BY <1>2
    <3>2. NextCall("main") = Alarm
      BY <1>1, <3>1 DEF Quiet, QuietMain, Fresh
    <3>3. NextCall("main").call = "alarm"
      BY <3>2 DEF Alarm, Do
    <3>4. NextCall("main").call # "alarm"
      <4> DEFINE c == NextCall("main").call
      <4>1. c \in {"mq_send", "pthread_kill", "mq_notify", "open_i2c", "read_payload", "i2c", "initLogger",
                   "logFileChange", "fputs", "fclose"}
        BY <1>4 DEF CommonCall, CallSend, CallKill, CallNotify, CallMayDie, CallI2C, CallOpenLog, CallWriteLog
      <4> QED
        BY <4>1
    <3> QED
      BY <3>3, <3>4
  <2>2. /\ RoomForLines' /\ in_buffer' = in_buffer
        /\ \A t \in Thread : t # "logger" => queue'[t] = queue[t] /\ pending'[t] = pending[t]
    BY <1>0, <1>4, <2>1, LineWritten, TaskAssumption DEF Quiet
  <2>3. \A d \in Driver : QuietDriver(d)'
    <3>1. \A d \in Driver : d \in Thread /\ d # "logger" /\ d \in Task
      BY MainInThread DEF Driver
    <3> QED
      BY <1>3, <2>2, <3>1 DEF Quiet, QuietDriver
  <2>4. QuietMain'
    BY <1>0, <1>2, <2>2 DEF Quiet, QuietMain
  <2> QED
    BY <2>2, <2>3, <2>4 DEF Quiet
<1>5. CASE MainCalls
  <2>1. NextCall("main").call = "alarm"
    <3>1. CASE pc["main"] = "setup"
      <4>1. NextCall("main") \in SetupCall
        BY <1>0, <1>1, <3>1, HeadTailProperties DEF SetupInv, Prepared
      <4> QED
        BY <1>5, <4>1 DEF SetupCall, Log, Send, MainCalls, CallStop, CallSetError, CallAlarm, CallUnlink, CallJoin,
                          CallExit, MainCall
    <3>2. CASE pc["main"] = "round"
      BY <1>1, <3>2 DEF Quiet, QuietMain, Fresh, Alarm, Do
    <3> QED
      BY <3>1, <3>2
  <2>2. queue' = queue /\ pending' = pending /\ in_buffer' = in_buffer
    BY <1>5, <2>1 DEF MainCalls, CallStop, CallSetError, CallAlarm, CallUnlink, CallJoin,
                      CallExit, MainCall, mqVars
  <2>3. \A d \in Driver : QuietDriver(d)'
    <3>1. \A d \in Driver : d \in Task
      BY DEF Driver
    <3> QED
      BY <1>3, <2>2, <3>1 DEF Quiet, QuietDriver
  <2>4. QuietMain'
    BY <1>2, <2>2 DEF Quiet, QuietMain
  <2>5. ASSUME NEW t \in Writer, NEW k \in 0..2, Lines(t, k) PROVE Lines(t, k)'
    <3>1. CASE t # "main"
      <4>1. t \in Thread => t \in Task
        BY <3>1 DEF Thread
      <4> QED
        BY <1>3, <2>5, <4>1, LinesStay
    <3>2. CASE t = "main"
      <4>1. IsRest(todo'["main"], todo["main"])
        BY <1>1, TailRest
      <4>2. pc'["main"] = "setup" => pc["main"] = "setup"
        BY <1>0, <1>1 DEF Calling, Continue
      <4>3. AtMost(k, todo["main"], "logger") => AtMost(k, todo'["main"], "logger")
        BY <1>1, <4>1, AtMostRest
      <4> QED
        BY <2>5, <3>2, <4>2, <4>3 DEF Lines, AtMost
    <3> QED
      BY <3>1, <3>2
  <2>6. RoomForLines'
    <3>1. PICK k \in [Writer -> 0..2] :
            /\ \A t \in Writer : Lines(t, k[t])
            /\ Len(queue["logger"]) + k["temp"] + k["light"] + k["main"] < Capacity
      BY DEF Quiet, RoomForLines
    <3>2. \A t \in Writer : Lines(t, k[t])'
      BY <2>5, <3>1
    <3> QED
      BY <2>2, <3>1, <3>2 DEF RoomForLines
  <2> QED
    BY <2>3, <2>4, <2>6 DEF Quiet
<1> QED
  BY <1>0, <1>4, <1>5, MainStepCases

LEMMA QuietLoop ==
  ASSUME TypeOK, AllPermitted, MainStep, ~Die, process' = "up", Quiet, pc["main"] \notin Calling
  PROVE  Quiet'
<1>0. /\ "main" \in Thread /\ "main" \notin Task
      /\ in_buffer \in [Thread -> Message \cup {NoMessage}] /\ pending \in [Thread -> 0..SignalLimit]
      /\ queue["main"] \in Seq(Message)
  BY MainInThread, TaskAssumption DEF TypeOK, TasksTypeOK, MQTypeOK
<1>1. MainLoops
  BY MainStepCases DEF MainCalls, CallStop, CallSetError, CallAlarm, CallUnlink, CallJoin, CallExit,
                       MainCall, CommonCall
<1>2. \A t \in Task : pc'[t] = pc[t] /\ todo'[t] = todo[t] /\ queue'[t] = queue[t]
  BY <1>1, MainStepCases, MainLeavesQueues
<1>3. Fresh /\ pc["main"] \in {"loop", "sigwait", "notify", "receive", "tick", "startup", "ended"}
  BY DEF Quiet, QuietMain, Fresh, FirstRoundAhead, Calling, Continue
<1>4. \A d \in Driver : d \in Thread /\ d # "main"
  BY MainInThread, TaskAssumption DEF Driver
<1>5. CASE MainStartup
  <2>1. pc'["main"] = "round" /\ todo'["main"] = StartupScript /\ queue' = queue
    BY <1>5, RoundBegins
  <2>2. in_buffer' = in_buffer /\ pending' = pending
    BY <1>5 DEF MainStartup, mqVars
  <2>3. QuietMain'
    BY <2>1, <2>2 DEF Quiet, QuietMain
  <2> QED
    BY <1>2, <2>1, <2>2, <2>3, QuietLasts
<1>6. ASSUME pc["main"] # "startup", pc'["main"] \notin {"setup", "handle", "again"},
             \A d \in Driver : pending'[d] = pending[d],
             Calm(in_buffer'["main"]), \A i \in 1..Len(queue'["main"]) : Calm(queue'["main"][i]),
             pc'["main"] = "teardown" => todo'["main"] = MainTeardownScript
      PROVE  Quiet'
  <2>1. Fresh'
    BY <1>3, <1>6, FreshMain
  <2>2. QuietMain'
    BY <1>6, <2>1 DEF QuietMain
  <2> QED
    BY <1>2, <1>6, <2>2, QuietLasts
<1>7. /\ Calm(in_buffer["main"]) /\ \A i \in 1..Len(queue["main"]) : Calm(queue["main"][i])
  BY DEF Quiet, QuietMain
<1>8. CASE MainLoop
  <2>1. /\ pc["main"] = "loop" /\ pending' = pending /\ in_buffer' = in_buffer /\ queue' = queue
        /\ \/ Run("main", "teardown", MainTeardownScript)
           \/ Goto("main", "sigwait") /\ UNCHANGED todo
    BY <1>8 DEF MainLoop, mqVars
  <2>2. \/ pc'["main"] = "teardown" /\ todo'["main"] = MainTeardownScript
        \/ pc'["main"] = "sigwait"
    BY <1>0, <2>1, RunMoves, GotoMoves, ExitPathStarts
  <2> QED
    BY <1>6, <1>7, <2>1, <2>2
<1>9. CASE MainSigwait \/ MainTimer
  <2>1. /\ pc["main"] = "sigwait" /\ in_buffer' = in_buffer /\ queue' = queue
        /\ \E label \in {"notify", "tick"} : Goto("main", label) /\ UNCHANGED todo
        /\ \A d \in Driver : pending'[d] = pending[d]
    BY <1>0, <1>4, <1>9 DEF MainSigwait, MainTimer, sigwait, mqVars
  <2>2. pc'["main"] \in {"notify", "tick"}
    BY <1>0, <2>1, GotoMoves
  <2> QED
    BY <1>6, <1>7, <2>1, <2>2
<1>10. CASE MainNotify
  <2>1. /\ pc["main"] = "notify" /\ queue' = queue /\ pending' = pending
        /\ Goto("main", "receive") /\ UNCHANGED todo
    BY <1>10 DEF MainNotify, mq_notify
  <2>2. pc'["main"] = "receive"
    BY <1>0, <2>1, GotoMoves
  <2>3. in_buffer'["main"] \in {in_buffer["main"], NoMessage}
    BY <1>0, <1>10 DEF MainNotify
  <2>4. Calm(NoMessage)
    BY DEF Calm, NoMessage, Msg
  <2>5. Calm(in_buffer'["main"])
    BY <1>7, <2>3, <2>4
  <2> QED
    BY <1>6, <1>7, <2>1, <2>2, <2>5
<1>11. CASE MainReceive
  <2> DEFINE q == queue["main"]
  <2>1. /\ pc["main"] = "receive" /\ q # <<>> /\ queue' = [queue EXCEPT !["main"] = Tail(q)]
        /\ in_buffer' = [in_buffer EXCEPT !["main"] = Head(q)] /\ pending' = pending
        /\ Run("main", "handle", MainScript(Head(q)))
    BY <1>11 DEF MainReceive, mq_receive
  <2>2. in_buffer'["main"] = Head(q) /\ queue'["main"] = Tail(q)
    BY <1>0, <2>1 DEF TypeOK, MQTypeOK
  <2>3. q \in Seq(Message) /\ \A i \in 1..Len(q) : Calm(q[i])
    BY <1>0, <1>7
  <2> HIDE DEF q
  <2>4. /\ Len(q) \in Nat /\ Len(q) >= 1 /\ Head(q) = q[1] /\ Len(Tail(q)) = Len(q) - 1
        /\ \A i \in 1..Len(Tail(q)) : Tail(q)[i] = q[i + 1]
    BY <2>1, <2>3, HeadTailProperties, LenProperties
  <2>5. Calm(Head(q))
    BY <2>3, <2>4
  <2>6. ASSUME NEW i \in 1..Len(Tail(q)) PROVE Calm(Tail(q)[i])
    <3>1. i + 1 \in 1..Len(q) /\ Tail(q)[i] = q[i + 1]
      BY <2>4
    <3> QED
      BY <2>3, <3>1
  <2>7. MainScript(Head(q)) = <<>>
    BY <2>5 DEF Calm, MainScript, LogFor
  <2>8. pc'["main"] = "receive"
    BY <1>0, <2>1, <2>7, RunMoves DEF Continue
  <2> QED
    BY <1>6, <2>1, <2>2, <2>5, <2>6, <2>8
<1>12. CASE MainReceiveEmpty
  <2>1. /\ pc["main"] = "receive" /\ queue' = queue /\ in_buffer' = in_buffer /\ pending' = pending
        /\ Run("main", "again", MainScript(in_buffer["main"]))
    BY <1>12 DEF MainReceiveEmpty, mqVars
  <2>2. MainScript(in_buffer["main"]) = <<>>
    BY <1>7 DEF Calm, MainScript, LogFor
  <2>3. pc'["main"] = "loop"
    BY <1>0, <2>1, <2>2, RunMoves DEF Continue
  <2> QED
    BY <1>6, <1>7, <2>1, <2>3
<1>13. CASE MainTick
  <2>1. /\ pc["main"] = "tick" /\ queue' = queue /\ in_buffer' = in_buffer /\ pending' = pending
        /\ \/ Goto("main", "startup") /\ UNCHANGED todo
           \/ Run("main", "round", <<Alarm>>)
    BY <1>3, <1>13 DEF MainTick, mq_notify, Fresh, Alarm
  <2>2. pc'["main"] \in {"startup", "round", "loop"}
    BY <1>0, <2>1, RunMoves, GotoMoves DEF Continue
  <2> QED
    BY <1>6, <1>7, <2>1, <2>2
<1>14. ~(HbReceive \/ HbReceiveEmpty \/ HbCheck \/ HbJudge \/ HbRaise)
  BY <1>3 DEF HbReceive, HbReceiveEmpty, HbCheck, HbJudge, HbRaise
<1> QED
  BY <1>1, <1>5, <1>8, <1>9, <1>10, <1>11, <1>12, <1>13, <1>14 DEF MainLoops

LEMMA LoggerMain ==
  ASSUME TypeOK, AllPermitted, SetupInv, StopsInOrder, MainStep, ~Die, process' = "up",
         LoggerInv, ~Aware("logger")
  PROVE  LoggerInv'
<1>0. "main" \in Thread /\ "logger" \in Task
  BY MainInThread, TaskAssumption
<1>1. ASSUME pc["main"] \in Calling, AtMost(0, todo["main"], "logger")
      PROVE  AtMost(0, todo["main"], "logger")'
  <2>1. /\ todo["main"] # <<>> /\ todo["main"] \in Seq(Call) /\ Tail(todo["main"]) \in Seq(Call)
        /\ todo'["main"] = Tail(todo["main"])
    BY <1>1, MainReturns
  <2>2. IsRest(todo'["main"], todo["main"])
    BY <2>1, TailRest
  <2>3. 0 \in 0..2 /\ todo'["main"] \in Seq(Call)
    BY <2>1
  <2>4. AtMost(0, todo'["main"], "logger")
    BY <1>1, <2>1, <2>2, <2>3, AtMostRest
  <2> QED
    BY <2>4 DEF AtMost
<1>2. CASE InRound("logger") /\ AtMost(0, todo["main"], "logger")
  <2>1. pc["main"] \in Calling
    BY <1>2 DEF InRound, Calling, Continue
  <2>2. InRound("logger")' \/ Aware("logger")'
    BY <1>0, <1>2, RoundMain
  <2> QED
    BY <1>1, <1>2, <2>1, <2>2 DEF LoggerInv
<1>3. CASE pc["main"] \in {"teardown", "ended"} /\ AtMost(0, todo["main"], "logger")
  <2>1. pc["main"] = "teardown"
    <3>1. SUFFICES ASSUME pc["main"] = "ended" PROVE FALSE
      BY <1>3
    <3> QED
      BY <3>1, MainStepCases DEF MainCalls, CallStop, CallSetError, CallAlarm, CallUnlink, CallJoin, CallExit,
         MainCall, CommonCall, MainLoops, MainLoop, MainSigwait, MainTimer, MainNotify, MainReceive,
         MainReceiveEmpty, MainTick, MainStartup, HbReceive, HbReceiveEmpty, HbCheck, HbJudge, HbRaise,
         Calling, Continue
  <2>2. pc["main"] \in Calling
    BY <2>1 DEF Calling, Continue
  <2>3. pc'["main"] \in {"teardown", "ended"}
    BY <2>1, <2>2, MainReturns DEF Continue
  <2> QED
    BY <1>1, <1>3, <2>2, <2>3 DEF LoggerInv
<1>4. CASE Quiet
  <2>1. CASE pc["main"] = "teardown"
    <3>1. pc["main"] \in Calling /\ todo["main"] = MainTeardownScript
      BY <1>4, <2>1 DEF Calling, Continue, Quiet, QuietMain
    <3>2. pc'["main"] \in {"teardown", "ended"} /\ todo'["main"] = Tail(MainTeardownScript)
      BY <2>1, <3>1, MainReturns DEF Continue
    <3>3. AtMost(0, todo'["main"], "logger")
      BY <1>4, <3>2, QuietRuns, ExitPathCounts DEF Quiet
    <3> QED
      BY <3>2, <3>3 DEF LoggerInv, AtMost
  <2>2. CASE pc["main"] = "round" /\ todo["main"] = StartupScript
    <3>1. pc["main"] \in Calling /\ InRound("logger")
      BY <1>0, <2>2, StartupAsks DEF Calling, Continue, InRound, Kick
    <3>2. todo'["main"] = Tail(StartupScript)
      BY <2>2, <3>1, MainReturns
    <3>3. InRound("logger")' \/ Aware("logger")'
      BY <1>0, <3>1, RoundMain
    <3>4. AtMost(0, todo'["main"], "logger")
      BY <3>2, StartupCounts
    <3> QED
      BY <3>3, <3>4 DEF LoggerInv, AtMost
  <2>3. CASE pc["main"] \in {"setup", "round"} /\ (todo["main"] # StartupScript \/ pc["main"] = "setup")
    BY <1>4, <2>3, QuietCall DEF LoggerInv
  <2>4. CASE pc["main"] \notin Calling
    BY <1>4, <2>4, QuietLoop DEF LoggerInv
  <2>5. pc["main"] \notin {"handle", "again", "hb_handle", "hb_again", "verdict"}
    BY <1>4 DEF Quiet, QuietMain, Fresh, FirstRoundAhead
  <2> QED
    BY <2>1, <2>2, <2>3, <2>4, <2>5 DEF Calling, Continue
<1> QED
  BY <1>2, <1>3, <1>4 DEF LoggerInv

\* The quiet lasts through a step of anybody else, as far as its own lines are.
LEMMA QuietElse ==
  ASSUME Quiet, pc'["main"] = pc["main"], todo'["main"] = todo["main"], main_state' \in {main_state, "SHUTDOWN"},
         in_buffer'["main"] = in_buffer["main"],
         \A i \in 1..Len(queue'["main"]) : Calm(queue'["main"][i]),
         \A d \in Driver : QuietDriver(d)', RoomForLines'
  PROVE  Quiet'
<1>1. Fresh \/ (pc["main"] = "round" /\ todo["main"] = StartupScript)
  BY DEF Quiet, QuietMain
<1>2. Fresh => Fresh'
  BY DEF Fresh
<1> QED
  BY <1>1, <1>2 DEF Quiet, QuietMain

\* Nothing changes of what the setups write.
LEMMA RoomStays ==
  ASSUME RoomForLines, Len(queue'["logger"]) = Len(queue["logger"]),
         \A t \in Writer : t \in Thread => pc'[t] = pc[t] /\ todo'[t] = todo[t]
  PROVE  RoomForLines'
<1>1. PICK k \in [Writer -> 0..2] :
        /\ \A t \in Writer : Lines(t, k[t])
        /\ Len(queue["logger"]) + k["temp"] + k["light"] + k["main"] < Capacity
  BY DEF RoomForLines
<1>2. \A t \in Writer : Lines(t, k[t])'
  BY <1>1, LinesStay
<1> QED
  BY <1>1, <1>2 DEF RoomForLines

\* A client tells main to shut down.
LEMMA QuietClient ==
  ASSUME TypeOK, ClientStep, ClientTargets \subseteq {"main"}, Quiet
  PROVE  Quiet'
<1>0. "main" \in Thread /\ "logger" \in Thread /\ "logger" # "main"
  BY MainInThread
<1>1. mq_send("main", ClientCommand["main"]) /\ UNCHANGED <<taskVars, mainVars>>
  BY DEF ClientStep, ClientSend
<1>2. ClientCommand["main"] \in Message /\ Calm(ClientCommand["main"])
  BY DEF ClientCommand, Message, Msg, Calm
<1>3. pc' = pc /\ todo' = todo /\ in_buffer' = in_buffer /\ main_state' = main_state
  BY <1>1 DEF taskVars, mainVars
<1>4. /\ Len(queue["main"]) \in Nat /\ Len(queue'["main"]) = Len(queue["main"]) + 1
      /\ \A i \in 1..Len(queue["main"]) : queue'["main"][i] = queue["main"][i]
      /\ queue'["main"][Len(queue["main"]) + 1] = ClientCommand["main"]
      /\ \A t \in Thread : t # "main" => queue'[t] = queue[t]
  BY <1>0, <1>1, <1>2, SentArrives
<1>5. ASSUME NEW i \in 1..Len(queue'["main"]) PROVE Calm(queue'["main"][i])
  <2>1. i \in 1..Len(queue["main"]) \/ i = Len(queue["main"]) + 1
    BY <1>4
  <2>2. \A j \in 1..Len(queue["main"]) : Calm(queue["main"][j])
    BY DEF Quiet, QuietMain
  <2> QED
    BY <1>2, <1>4, <2>1, <2>2
<1>6. \A d \in Driver : QuietDriver(d)'
  <2>1. ASSUME NEW d \in Driver PROVE QuietDriver(d)'
    <3>1. d \in Thread /\ d # "main"
      BY MainInThread, TaskAssumption DEF Driver
    <3>2. pending'[d] = pending[d]
      <4>1. pending' = Raised("main") \/ pending' = pending
        BY <1>1 DEF mq_send
      <4>2. pending \in [Thread -> 0..SignalLimit]
        BY DEF TypeOK, MQTypeOK
      <4> QED
        BY <1>0, <3>1, <4>1, <4>2, RaisedType
    <3> QED
      BY <1>3, <1>4, <3>1, <3>2 DEF Quiet, QuietDriver
  <2> QED
    BY <2>1
<1>7. RoomForLines'
  BY <1>0, <1>3, <1>4, RoomStays DEF Quiet
<1> QED
  BY <1>3, <1>5, <1>6, <1>7, QuietElse

\* A driver gets through its setup and sleeps.
LEMMA QuietDrives ==
  ASSUME TypeOK, AllPermitted, SetupInv, StopsInOrder, NEW u \in Driver, ServerTask(u), ~Die, Quiet
  PROVE  Quiet'
<1>0. u \in Task /\ u \in Thread /\ u # "logger" /\ u # "main" /\ "main" \in Thread
  BY MainInThread, TaskAssumption DEF Driver
<1>1. TaskStep(u) /\ UNCHANGED mainVars
  BY DEF ServerTask
<1>2. \A v \in Thread : v # u => pc'[v] = pc[v] /\ todo'[v] = todo[v]
  BY <1>0, <1>1, TaskStepCases
<1>3. queue[u] = <<>> /\ pending[u] = 0 /\ pc[u] \in {"setup", "loop", "sigwait"}
  BY DEF Quiet, QuietDriver
<1>4. main_state' = main_state
  BY <1>1 DEF mainVars
<1>5. CASE CommonCall(u)
  <2>1. pc[u] = "setup"
    BY <1>3, <1>5 DEF CommonCall, Calling, Continue
  <2>2. /\ RoomForLines' /\ in_buffer' = in_buffer
        /\ \A t \in Thread : t # "logger" => queue'[t] = queue[t] /\ pending'[t] = pending[t]
    BY <1>0, <1>5, <2>1, LineWritten DEF Quiet
  <2>3. pc'[u] \in {"setup", "loop"}
    BY <1>0, <1>5, <2>1, SetupReturns
  <2>4. ASSUME NEW d \in Driver PROVE QuietDriver(d)'
    <3>1. d \in Thread /\ d # "logger"
      BY MainInThread DEF Driver
    <3> QED
      BY <1>2, <2>2, <2>3, <3>1 DEF Quiet, QuietDriver
  <2>5. queue'["main"] = queue["main"] /\ pc'["main"] = pc["main"] /\ todo'["main"] = todo["main"]
    BY <1>0, <1>2, <2>2, TaskAssumption
  <2>6. \A i \in 1..Len(queue'["main"]) : Calm(queue'["main"][i])
    BY <2>5 DEF Quiet, QuietMain
  <2> QED
    BY <1>4, <2>2, <2>4, <2>5, <2>6, QuietElse
<1>6. CASE TaskLoop(u)
  <2>1. task_state[u] = "RUNNING"
    BY <1>0, QuietRuns DEF Quiet
  <2>2. /\ pc[u] = "loop" /\ Goto(u, "sigwait") /\ UNCHANGED todo
        /\ queue' = queue /\ pending' = pending /\ in_buffer' = in_buffer
    BY <1>6, <2>1 DEF TaskLoop, mqVars
  <2>3. pc'[u] = "sigwait" /\ todo' = todo
    BY <1>0, <2>2, GotoMoves
  <2>4. ASSUME NEW d \in Driver PROVE QuietDriver(d)'
    <3>1. d \in Thread
      BY MainInThread DEF Driver
    <3> QED
      BY <1>2, <2>2, <2>3, <3>1 DEF Quiet, QuietDriver
  <2>5. RoomForLines'
    <3>1. PICK k \in [Writer -> 0..2] :
            /\ \A t \in Writer : Lines(t, k[t])
            /\ Len(queue["logger"]) + k["temp"] + k["light"] + k["main"] < Capacity
      BY DEF Quiet, RoomForLines
    <3>2. ASSUME NEW t \in Writer PROVE Lines(t, k[t])'
      <4>1. CASE t = u
        BY <2>3, <4>1 DEF Lines
      <4>2. CASE t # u
        <5>1. Lines(t, k[t])
          BY <3>1
        <5> QED
          BY <1>2, <4>2, <5>1, LinesStay
      <4> QED
        BY <4>1, <4>2
    <3> QED
      BY <2>2, <3>1, <3>2 DEF RoomForLines
  <2>6. pc'["main"] = pc["main"] /\ todo'["main"] = todo["main"]
    BY <1>0, <1>2
  <2>7. \A i \in 1..Len(queue'["main"]) : Calm(queue'["main"][i])
    BY <2>2 DEF Quiet, QuietMain
  <2> QED
    BY <1>4, <2>2, <2>4, <2>5, <2>6, <2>7, QuietElse
<1>7. ~(TaskSigwait(u) \/ TaskNotify(u) \/ TaskReceive(u) \/ TaskReceiveEmpty(u))
  BY <1>3 DEF TaskSigwait, sigwait, TaskNotify, TaskReceive, TaskReceiveEmpty
<1> QED
  BY <1>1, <1>5, <1>6, <1>7 DEF TaskStep

\* The logger gets through its setup; once it wakes it is aware of its queue.
LEMMA QuietLogs ==
  ASSUME TypeOK, AllPermitted, SetupInv, StopsInOrder, ServerTask("logger"), ~Die, Quiet, ~Aware("logger")
  PROVE  Quiet' \/ Aware("logger")'
<1>0. "logger" \in Task /\ "logger" \in Thread /\ "main" \in Thread /\ "logger" # "main"
  BY MainInThread, TaskAssumption
<1>1. TaskStep("logger") /\ UNCHANGED mainVars
  BY DEF ServerTask
<1>2. \A v \in Thread : v # "logger" => pc'[v] = pc[v] /\ todo'[v] = todo[v]
  BY <1>0, <1>1, TaskStepCases
<1>3. pc["logger"] \in {"setup", "loop", "sigwait"}
  <2>1. pc["logger"] \in {"setup", "loop", "sigwait", "round"} /\ pc["logger"] \in TaskLabel
    BY <1>0 DEF Aware, SetupInv, Prepared
  <2> QED
    BY <2>1 DEF TaskLabel
<1>4. main_state' = main_state
  BY <1>1 DEF mainVars
<1>5. ASSUME queue' = queue, pending' = pending, in_buffer' = in_buffer PROVE Quiet'
  <2>1. ASSUME NEW d \in Driver PROVE QuietDriver(d)'
    <3>1. d \in Thread /\ d # "logger"
      BY MainInThread DEF Driver
    <3> QED
      BY <1>2, <1>5, <3>1 DEF Quiet, QuietDriver
  <2>2. \A t \in Writer : t # "logger"
    BY DEF Writer
  <2>3. RoomForLines'
    BY <1>2, <1>5, <2>2, RoomStays DEF Quiet
  <2>4. pc'["main"] = pc["main"] /\ todo'["main"] = todo["main"]
    BY <1>0, <1>2
  <2>5. \A i \in 1..Len(queue'["main"]) : Calm(queue'["main"][i])
    BY <1>5 DEF Quiet, QuietMain
  <2> QED
    BY <1>4, <1>5, <2>1, <2>3, <2>4, <2>5, QuietElse
<1>6. CASE CommonCall("logger")
  <2> DEFINE c == NextCall("logger")
  <2>1. pc["logger"] = "setup"
    BY <1>3, <1>6 DEF CommonCall, Calling, Continue
  <2>2. c \in SetupCall
    BY <1>0, <1>6, <2>1, SetupReturns
  <2>3. c # Log
    <3>1. c \in Permitted("logger", "setup")
      BY <1>0, <1>6, <2>1, RestPermitted DEF CommonCall
    <3> QED
      BY <3>1 DEF Permitted, IsReply, Log, Send, Msg
  <2>4. c.call \in {"mq_notify", "open_i2c", "initLogger", "alarm"}
    BY <2>2, <2>3 DEF SetupCall
  <2>5. queue' = queue /\ pending' = pending /\ in_buffer' = in_buffer
    BY <1>6, <2>4 DEF CommonCall, CallSend, CallKill, CallNotify, CallMayDie, CallI2C, CallOpenLog,
                      CallWriteLog, mq_notify, mqVars
  <2> QED
    BY <1>5, <2>5
<1>7. CASE TaskLoop("logger")
  <2>1. queue' = queue /\ pending' = pending /\ in_buffer' = in_buffer
    BY <1>7 DEF TaskLoop, mqVars
  <2> QED
    BY <1>5, <2>1
<1>8. CASE TaskSigwait("logger")
  <2>1. pc'["logger"] = "notify"
    BY <1>0, <1>8, GotoMoves DEF TaskSigwait
  <2> QED
    BY <2>1 DEF Aware
<1>9. ~(TaskNotify("logger") \/ TaskReceive("logger") \/ TaskReceiveEmpty("logger"))
  BY <1>3 DEF TaskNotify, TaskReceive, TaskReceiveEmpty
<1> QED
  BY <1>1, <1>6, <1>7, <1>8, <1>9 DEF TaskStep

LEMMA LoggerOther ==
  ASSUME TypeOK, AllPermitted, SetupInv, StopsInOrder, ~Die, ClientTargets \subseteq {"main"},
         ClientStep \/ \E u \in Task : ServerTask(u), LoggerInv, ~Aware("logger")
  PROVE  LoggerInv'
<1>1. CASE Quiet
  <2>1. ASSUME NEW u \in Task, ServerTask(u) PROVE Quiet' \/ Aware("logger")'
    <3>1. u \in Driver \/ u = "logger"
      BY DEF Driver
    <3> QED
      BY <1>1, <2>1, <3>1, QuietDrives, QuietLogs
  <2> QED
    BY <1>1, <2>1, QuietClient DEF LoggerInv
<1>2. CASE ~Quiet
  <2>1. pc'["main"] = pc["main"] /\ todo'["main"] = todo["main"]
    <3>1. CASE ClientStep
      BY <3>1 DEF ClientStep, ClientSend, taskVars
    <3>2. ASSUME NEW u \in Task, ServerTask(u) PROVE pc'["main"] = pc["main"] /\ todo'["main"] = todo["main"]
      BY <3>2, MainInThread, TaskAssumption, TaskStepCases DEF ServerTask
    <3> QED
      BY <3>1, <3>2
  <2> QED
    BY <1>2, <2>1 DEF LoggerInv, InRound, Ahead, AtMost
<1> QED
  BY <1>1, <1>2

LEMMA LoggerSignal ==
  ASSUME TypeOK, TypeOK', AllPermitted, SetupInv, OnTheWayOut, NEW s, UserSignal(s), ~Die,
         LoggerInv, ~Aware("logger")
  PROVE  LoggerInv'
<1>0. "main" \in Thread /\ "logger" \in Task
  BY MainInThread, TaskAssumption
<1>1. PICK u \in Thread : handleCtrlC(u)
  BY DEF UserSignal
<1>2. /\ main_state' = "SHUTDOWN" /\ queue' = queue /\ in_buffer' = in_buffer
      /\ pending' = (IF u = "main" THEN Raised(u) ELSE pending)
      /\ UNCHANGED <<pc, todo>> \/ (Blocked(u) /\ Interrupted(u))
  BY <1>1 DEF handleCtrlC
<1>3. CASE InRound("logger") /\ AtMost(0, todo["main"], "logger")
  <2>1. /\ InRound("logger")'
        /\ todo'["main"] = todo["main"] \/ IsRest(todo'["main"], todo["main"])
    BY <1>3, RoundSignal
  <2>2. todo["main"] \in Seq(Call) /\ todo'["main"] \in Seq(Call) /\ 0 \in 0..2
    BY <1>0 DEF TypeOK, TasksTypeOK
  <2>3. AtMost(0, todo'["main"], "logger")
    <3>1. CASE todo'["main"] = todo["main"]
      BY <1>3, <3>1
    <3>2. CASE IsRest(todo'["main"], todo["main"])
      BY <1>3, <2>2, <3>2, AtMostRest
    <3> QED
      BY <2>1, <3>1, <3>2
  <2> QED
    BY <2>1, <2>3 DEF LoggerInv, AtMost
<1>4. CASE pc["main"] \in {"teardown", "ended"} /\ AtMost(0, todo["main"], "logger")
  <2>1. pc'["main"] = pc["main"] /\ todo'["main"] = todo["main"]
    <3>1. CASE UNCHANGED <<pc, todo>>
      BY <3>1
    <3>2. CASE Blocked(u) /\ Interrupted(u)
      <4>1. u # "main"
        BY <1>4, <3>2, NotInterrupted DEF Blocked, Calling, Continue
      <4>2. \E script : Run(u, ErrnoOverwritten(pc[u]), script)
        BY <3>2, InterruptedRuns
      <4> QED
        BY <1>0, <4>1, <4>2, RunMoves
    <3> QED
      BY <1>2, <3>1, <3>2
  <2> QED
    BY <1>4, <2>1 DEF LoggerInv, AtMost
<1>5. CASE Quiet
  <2>1. pc' = pc /\ todo' = todo
    BY <1>2, <1>5, QuietGoes
  <2>2. ASSUME NEW d \in Driver PROVE QuietDriver(d)'
    <3>1. d \in Thread /\ d # "main"
      BY MainInThread, TaskAssumption DEF Driver
    <3>2. pending'[d] = pending[d]
      <4>1. pending \in [Thread -> 0..SignalLimit]
        BY DEF TypeOK, MQTypeOK
      <4> QED
        BY <1>0, <1>2, <3>1, <4>1, RaisedType
    <3> QED
      BY <1>2, <1>5, <2>1, <3>2 DEF Quiet, QuietDriver
  <2>3. RoomForLines'
    BY <1>2, <1>5, <2>1, RoomStays DEF Quiet
  <2>4. \A i \in 1..Len(queue'["main"]) : Calm(queue'["main"][i])
    BY <1>2, <1>5 DEF Quiet, QuietMain
  <2>5. Quiet'
    BY <1>2, <1>5, <2>1, <2>2, <2>3, <2>4, QuietElse
  <2> QED
    BY <2>5 DEF LoggerInv
<1> QED
  BY <1>3, <1>4, <1>5 DEF LoggerInv

LEMMA LoggerStep ==
  ASSUME TypeOK, AllPermitted, WakeupInv, SetupInv, StopsInOrder, ServerStep \/ ClientStep, ~Die, process' = "up",
         ClientTargets \subseteq {"main"}, LoggerInv
  PROVE  LoggerInv'
<1>1. CASE Aware("logger")
  BY <1>1, AwareLasts, TaskAssumption DEF LoggerInv
<1>2. CASE ~Aware("logger")
  BY <1>2, LoggerMain, LoggerOther DEF ServerStep
<1> QED
  BY <1>1, <1>2

(***************************************************************************)
(* The invariant, and the theorem.                                         *)
(***************************************************************************)
\* The invariant of the queues of the tasks.
RoomInv ==
  /\ process = "up" => SetupInv /\ LoggerInv /\ TempInv /\ LightInv
  /\ process = "dead" => pc["main"] = "ended"

\* Two messages per task.
LEMMA TaskCount ==
  ASSUME Uncrowded, NEW a \in 0..2, NEW b \in 0..2,
         "temp" \notin Task => a = 0, "light" \notin Task => b = 0
  PROVE  /\ a + b + 1 < Capacity
         /\ Driver # {} => Capacity > 2
<1> DEFINE one == {"logger"}
<1>1. IsFiniteSet(one) /\ Cardinality(one) = 1
  BY FS_Singleton
<1>2. ASSUME NEW x, x # "logger" PROVE IsFiniteSet(one \cup {x}) /\ Cardinality(one \cup {x}) = 2
  BY <1>1, <1>2, FS_AddElement
<1>3. Cardinality((one \cup {"temp"}) \cup {"light"}) = 3
  <2>1. IsFiniteSet(one \cup {"temp"}) /\ Cardinality(one \cup {"temp"}) = 2
    BY <1>2
  <2>2. "light" \notin one \cup {"temp"}
    OBVIOUS
  <2> QED
    BY <2>1, <2>2, FS_AddElement
<1>4. Capacity \in Nat
  BY CapacityAssumption
<1>5. CASE "temp" \notin Task /\ "light" \notin Task
  <2>1. Task = one /\ Driver = {}
    BY <1>5, TaskAssumption DEF Driver
  <2>2. Capacity >= 2
    BY <1>1, <1>4, <2>1 DEF Uncrowded
  <2> QED
    BY <1>4, <1>5, <2>1, <2>2
<1>6. CASE \E x \in {"temp", "light"} : Task = one \cup {x}
  <2>0. PICK x \in {"temp", "light"} : Task = one \cup {x}
    BY <1>6
  <2>1. Capacity >= 4
    <3>1. Cardinality(Task) = 2
      BY <1>2, <2>0
    <3> QED
      BY <1>4, <3>1 DEF Uncrowded
  <2>2. a = 0 \/ b = 0
    BY <1>6
  <2> QED
    BY <1>4, <2>1, <2>2
<1>7. CASE Task = (one \cup {"temp"}) \cup {"light"}
  <2>1. Capacity >= 6
    BY <1>3, <1>4, <1>7 DEF Uncrowded
  <2> QED
    BY <1>4, <2>1
<1>8. \/ "temp" \notin Task /\ "light" \notin Task
      \/ \E x \in {"temp", "light"} : Task = one \cup {x}
      \/ Task = (one \cup {"temp"}) \cup {"light"}
  BY TaskAssumption
<1> QED
  BY <1>5, <1>6, <1>7, <1>8

LEMMA InitRoom ==
  ASSUME Uncrowded, Init
  PROVE  RoomInv
<1>0. /\ process = "up" /\ \A t \in Thread : pc[t] = "setup" /\ queue[t] = <<>> /\ pending[t] = 0
      /\ \A t \in Thread : in_buffer[t] = NoMessage /\ todo[t] = FirstScripts[t]
      /\ main_state = "STARTUP" /\ hb_buffer = NoMessage /\ \A t \in Task : ~hbt_rsp[t]
  BY DEF Init, TasksInit, MQInit
<1>1. /\ "main" \in Thread /\ "logger" \in Thread /\ "main" \notin Task /\ \A t \in Task : t \in Thread
      /\ todo["main"] = MainSetupScript /\ \A t \in Task : todo[t] = SetupScript(t)
  BY <1>0, MainInThread, TaskAssumption DEF FirstScripts
<1>2. SetupInv
  <2>1. ASSUME NEW t \in Thread PROVE Prepared(t)
    <3>1. t \in Task \/ t = "main"
      BY DEF Thread
    <3>2. todo[t] \in Seq(SetupCall)
      BY <1>1, <3>1, SetupScripts
    <3> QED
      BY <1>0, <3>2 DEF Prepared, TaskLabel
  <2> QED
    BY <2>1 DEF SetupInv
<1>3. Fresh
  BY <1>0, <1>1 DEF Fresh, FirstRoundAhead
<1>4. TempInv
  BY <1>0, <1>1, <1>3 DEF TempInv, Unasked
<1>5. LightInv
  <2>1. "light" \in Task => ~HeartbeatQueued("light")
    BY <1>0, <1>1 DEF HeartbeatQueued
  <2>2. ~IsBeat(NoMessage)
    BY DEF IsBeat, NoMessage, Msg
  <2> QED
    BY <1>0, <1>1, <1>3, <2>1, <2>2 DEF LightInv, Silent, Unasked
<1>6. QuietMain
  <2>1. Calm(NoMessage) /\ Len(queue["main"]) = 0
    BY <1>0, <1>1 DEF Calm, NoMessage, Msg
  <2> QED
    BY <1>0, <1>1, <1>3, <2>1 DEF QuietMain
<1>7. \A d \in Driver : QuietDriver(d)
  BY <1>0, <1>1 DEF QuietDriver, Driver
<1>8. RoomForLines
  <2> DEFINE Mine(t) == IF t = "main" THEN 1 ELSE IF t \in Task THEN 2 ELSE 0
             k == [t \in Writer |-> Mine(t)]
  <2>1. /\ k \in [Writer -> 0..2] /\ \A t \in Writer : k[t] = Mine(t)
        /\ "temp" \in Writer /\ "light" \in Writer /\ "main" \in Writer
    BY DEF Writer
  <2>2. /\ k["main"] = 1 /\ k["temp"] \in 0..2 /\ k["light"] \in 0..2
        /\ "temp" \notin Task => k["temp"] = 0
        /\ "light" \notin Task => k["light"] = 0
    BY <2>1
  <2>3. ASSUME NEW t \in Writer PROVE Lines(t, k[t])
    <3>1. CASE t = "main"
      BY <1>1, <2>2, <3>1, SetupCounts DEF Lines
    <3>2. CASE t # "main" /\ t \in Task
      <4>1. k[t] = 2 /\ t \in {"temp", "light"} /\ todo[t] = SetupScript(t)
        BY <1>1, <2>1, <3>2 DEF Writer
      <4> QED
        BY <4>1, SetupCounts DEF Lines
    <3>3. CASE t # "main" /\ t \notin Task
      BY <3>3 DEF Lines, Thread
    <3> QED
      BY <3>1, <3>2, <3>3
  <2> HIDE DEF k
  <2> DEFINE a == k["temp"]
             b == k["light"]
  <2>4. a \in 0..2 /\ b \in 0..2 /\ ("temp" \notin Task => a = 0) /\ ("light" \notin Task => b = 0)
    BY <2>2
  <2> HIDE DEF a, b
  <2>5. a + b + 1 < Capacity
    BY <2>4, TaskCount
  <2>6. Len(queue["logger"]) = 0
    BY <1>0, <1>1
  <2>7. 0 + a + b + 1 < Capacity
    BY <2>4, <2>5
  <2>8. Len(queue["logger"]) + k["temp"] + k["light"] + k["main"] < Capacity
    BY <2>2, <2>6, <2>7 DEF a, b
  <2> QED
    BY <2>1, <2>3, <2>8 DEF RoomForLines
<1>9. LoggerInv
  BY <1>6, <1>7, <1>8 DEF LoggerInv, Quiet
<1> QED
  BY <1>0, <1>2, <1>4, <1>5, <1>9 DEF RoomInv

\* A stutter.
LEMMA RoomUnchanged ==
  ASSUME RoomInv, UNCHANGED vars
  PROVE  RoomInv'
<1>1. /\ queue' = queue /\ registered' = registered /\ pending' = pending /\ pc' = pc /\ todo' = todo
      /\ in_buffer' = in_buffer /\ process' = process /\ main_state' = main_state
      /\ hbt_rsp' = hbt_rsp /\ hb_buffer' = hb_buffer
  BY DEF vars, mqVars, taskVars, mainVars
<1>2. /\ SetupInv => SetupInv'
      /\ \A t : Aware(t) => Aware(t)'
      /\ \A t : InRound(t) => InRound(t)'
      /\ \A t : Unasked(t) => Unasked(t)'
      /\ \A t, n : Fits(t, n) => Fits(t, n)'
  BY <1>1 DEF SetupInv, Prepared, Aware, Watching, InRound, Ahead, Unasked, Fresh, Fits, AtMost
<1>3. TempInv => TempInv'
  BY <1>2 DEF TempInv
<1>4. Silent => Silent'
  BY <1>1 DEF Silent, HeartbeatQueued
<1>5. Behind => Behind'
  BY <1>1, <1>2 DEF Behind, Leaving, Ahead
<1>6. LightInv => LightInv'
  BY <1>2, <1>4, <1>5 DEF LightInv
<1>7. Quiet => Quiet'
  BY <1>1 DEF Quiet, QuietMain, Fresh, QuietDriver, RoomForLines, Lines, AtMost
<1>8. LoggerInv => LoggerInv'
  BY <1>1, <1>2, <1>7 DEF LoggerInv, AtMost
<1> QED
  BY <1>1, <1>2, <1>3, <1>6, <1>8 DEF RoomInv

\* The process dies with all its threads.
LEMMA DeadEnds ==
  ASSUME TypeOK, process = "up", Next, process' = "dead"
  PROVE  pc'["main"] = "ended"
<1>1. CASE Die
  BY <1>1, MainInThread DEF Die
<1>2. CASE ~Die
  <2>1. \A t : CommonCall(t) => process' = process
    BY <1>2 DEF CommonCall, CallSend, CallKill, CallNotify, CallMayDie, CallI2C, CallOpenLog, CallWriteLog
  <2>2. MainCalls => process' \in {process, "exited"}
    BY <1>2 DEF MainCalls, CallStop, CallSetError, CallAlarm, CallUnlink, CallJoin, CallExit
  <2>3. MainLoops => process' = process
    BY <1>2 DEF MainLoops, MainLoop, MainSigwait, MainTimer, MainNotify, MainReceive, MainReceiveEmpty, MainTick,
           MainStartup, HbReceive, HbReceiveEmpty, HbCheck, HbJudge, HbRaise
  <2>4. MainStep => process' \in {process, "exited"}
    BY <1>2, <2>1, <2>2, <2>3, MainStepCases
  <2>5. \A t : ServerTask(t) => process' = process
    BY <2>1 DEF ServerTask, TaskStep, TaskLoop, TaskSigwait, TaskNotify, TaskReceive, TaskReceiveEmpty
  <2>6. \A s : UserSignal(s) => process' = process
    BY <1>2 DEF UserSignal, handleCtrlC
  <2>7. \A t : ClientSend(t) => process' = process
    BY DEF ClientSend, taskVars
  <2> QED
    BY <2>4, <2>5, <2>6, <2>7 DEF Next, ServerStep, Terminated
<1> QED
  BY <1>1, <1>2

LEMMA NextRoom ==
  ASSUME Uncrowded, TypeOK, TypeOK', ExitInv, WakeupInv, HangInv, RoomInv, [Next]_vars
  PROVE  RoomInv'
<1>1. CASE UNCHANGED vars
  BY <1>1, RoomUnchanged
<1>2. CASE process # "up" /\ Next
  BY <1>2, RoomUnchanged DEF Next, Restart, Terminated, Uncrowded
<1>3. CASE process = "up" /\ Next /\ process' # "up"
  BY <1>3, DeadEnds DEF RoomInv
<1>4. CASE process = "up" /\ Next /\ process' = "up"
  <2>1. /\ ~Die /\ AllPermitted /\ OnTheWayOut /\ StopsInOrder /\ ClientTargets \subseteq {"main"}
        /\ SetupInv /\ LoggerInv /\ TempInv /\ LightInv
    BY <1>4 DEF Die, ExitInv, HangInv, RoomInv, Uncrowded
  <2>2. CASE ServerStep \/ ClientStep
    BY <1>4, <2>1, <2>2, SetupStep, LoggerStep, TempStep, LightStep DEF RoomInv
  <2>3. ASSUME NEW s, UserSignal(s) PROVE RoomInv'
    <3>1. LoggerInv'
      <4>1. CASE Aware("logger")
        BY <2>1, <2>3, <4>1, AwareSignal, TaskAssumption DEF LoggerInv
      <4>2. CASE ~Aware("logger")
        BY <2>1, <2>3, <4>2, LoggerSignal
      <4> QED
        BY <4>1, <4>2
    <3> QED
      BY <1>4, <2>1, <2>3, <3>1, SetupSignal, TempSignal, LightSignal DEF RoomInv
  <2>4. ServerStep \/ ClientStep \/ \E s \in StopSignals : UserSignal(s)
    BY <1>4 DEF Next, ClientStep, Restart, Terminated
  <2> QED
    BY <2>2, <2>3, <2>4
<1> QED
  BY <1>1, <1>2, <1>3, <1>4

\* Main finds room for what it sends.
LEMMA RoomForMain ==
  ASSUME Uncrowded, TypeOK, ExitInv, RoomInv
  PROVE  NotWedged
<1> DEFINE t == NextCall("main").to
<1> SUFFICES ASSUME Blocked("main"), Asleep(t) PROVE FALSE
  BY DEF NotWedged, Target
<1>0. "main" \in Thread /\ pc["main"] \in Calling /\ todo["main"] # <<>> /\ ~HasRoom(t)
  BY MainInThread DEF Blocked
<1>1. process = "up"
  <2>1. pc["main"] # "ended"
    BY <1>0 DEF Calling, Continue
  <2>2. process # "exited" /\ process # "dead"
    BY <1>0, <2>1 DEF ExitInv, ExitReapsAll, RoomInv
  <2> QED
    BY <2>2 DEF TypeOK, TasksTypeOK
<1>2. AllPermitted /\ SetupInv /\ LoggerInv /\ TempInv /\ LightInv
  BY <1>1 DEF ExitInv, RoomInv
<1>3. t \in Thread /\ queue[t] # <<>> /\ SendsTo(NextCall("main"), t)
  BY <1>0, <1>2, BlockedSends DEF SendsTo
<1>4. t # "main"
  BY <1>0 DEF Asleep, Calling, Continue
<1>5. t \in Task /\ ~Aware(t)
  BY <1>3, <1>4, AwareSleeps DEF Thread
<1>6. \A k \in 0..2 : AtMost(k, todo["main"], t) => k # 0
  <2>1. todo["main"] \in Seq(Call)
    BY <1>0 DEF TypeOK, TasksTypeOK
  <2>2. 1 \in 1..Len(todo["main"]) /\ todo["main"][1] = NextCall("main")
    BY <1>0, <2>1, HeadTailProperties, LenProperties DEF NextCall
  <2> QED
    BY <1>3, <2>2 DEF AtMost
<1>7. CASE t = "logger"
  <2>1. ~AtMost(0, todo["main"], "logger")
    BY <1>6, <1>7
  <2>2. Quiet
    BY <1>2, <1>5, <1>7, <2>1 DEF LoggerInv
  <2> QED
    BY <1>0, <1>2, <1>5, <1>7, <2>2, QuietGoes
<1>8. CASE t \in Driver
  <2>1. pc["main"] = "round"
    BY <1>0, <1>2, <1>3, <1>8, DriversAsked
  <2>2. Fits(t, 2) \/ Fits(t, 3)
    <3>1. CASE t = "temp"
      BY <1>2, <1>3, <1>5, <3>1 DEF TempInv, Unasked
    <3>2. CASE t = "light"
      BY <1>2, <1>3, <1>5, <2>1, <3>2 DEF LightInv, Unasked, Behind
    <3> QED
      BY <1>8, <3>1, <3>2, TaskAssumption DEF Driver
  <2>3. Len(queue[t]) \in Nat
    BY <1>3, LenProperties DEF TypeOK, MQTypeOK
  <2>4. Len(queue[t]) <= 2
    <3>1. PICK k \in 0..2 : AtMost(k, todo["main"], t) /\ Len(queue[t]) + k <= 3
      BY <2>2, <2>3 DEF Fits
    <3> QED
      BY <1>6, <2>3, <3>1
  <2>5. Capacity > 2
    <3>1. 0 \in 0..2 /\ Driver # {}
      BY <1>8
    <3> QED
      BY <3>1, TaskCount
  <2> QED
    BY <1>0, <2>3, <2>4, <2>5, CapacityAssumption DEF HasRoom
<1> QED
  BY <1>5, <1>7, <1>8 DEF Driver

(***************************************************************************)
(* As long as clients only tell main to shut down, and nothing is left in  *)
(* the queues by an earlier server, main never waits for a task that       *)
(* sleeps: queues of two messages per task have room for all that is       *)
(* written before the tasks wake (main.c:129, 184-211 and 466-487).        *)
(***************************************************************************)
THEOREM NotWedgedUncrowded == Uncrowded => (Spec => []NotWedged)
<1> SUFFICES ASSUME Uncrowded PROVE Spec => []NotWedged
  OBVIOUS
<1>1. Init => RoomInv
  BY InitRoom
<1>2. TypeOK /\ TypeOK' /\ ExitInv /\ WakeupInv /\ HangInv /\ RoomInv /\ [Next]_vars => RoomInv'
  BY NextRoom
<1>3. TypeOK /\ ExitInv /\ RoomInv => NotWedged
  BY RoomForMain
<1> QED
  BY <1>1, <1>2, <1>3, TypeCorrect, ExitInvariant, AlwaysAwake, HangInvariant, PTL DEF Spec
===============================================================================
