----------------------------- MODULE ServerProofs -----------------------------
(***************************************************************************)
(* What holds of the server for every set of tasks, every queue capacity,  *)
(* every signal limit and every pattern of stop signals and clients.       *)
(***************************************************************************)
EXTENDS ServerProperties, SequenceTheorems, TLAPS

(***************************************************************************)
(* The kernel objects and the three tasks keep their types.               *)
(***************************************************************************)
\* Every call a thread may have to make is well-formed: its name, its target
\* thread and its message are what Call says.
LEMMA CallTypes ==
  ASSUME NEW t \in Thread
  PROVE  /\ Log \in Call
         /\ \A name \in CallName : Do(name, t) \in Call
         /\ \A s \in Task : Send("main", "HEARTBEAT_RSP", s) \in Call
         /\ Send("main", "TEMP_VALUE", "temp") \in Call
         /\ Send("main", "LIGHT_VALUE", "light") \in Call
         /\ Send(t, "HEARTBEAT_REQ", "main") \in Call
         /\ Send(t, "TEMP_DATA_REQ", "main") \in Call
         /\ Send(t, "LIGHT_DATA_REQ", "main") \in Call
         /\ Send("logger", "FILE_CHANGE", "main") \in Call
<1>1. /\ Msg("LOGGER", "server") \in Message
      /\ \A s \in Task : Msg("HEARTBEAT_RSP", s) \in Message
      /\ Msg("TEMP_VALUE", "temp") \in Message
      /\ Msg("LIGHT_VALUE", "light") \in Message
      /\ Msg("HEARTBEAT_REQ", "main") \in Message
      /\ Msg("TEMP_DATA_REQ", "main") \in Message
      /\ Msg("LIGHT_DATA_REQ", "main") \in Message
      /\ Msg("FILE_CHANGE", "main") \in Message
  BY DEF Message, Msg
<1>2. "main" \in Thread /\ "logger" \in Thread
  BY TaskAssumption DEF Thread
<1>3. \A to \in Thread : \A id, source :
        Msg(id, source) \in Message => Send(to, id, source) \in Call
  BY DEF Send, Call
<1>4. \A name \in CallName : Do(name, t) \in Call
  BY DEF Do, Call
<1> QED
  BY <1>1, <1>2, <1>3, <1>4 DEF Log

\* Scripts are short tuples of calls.
LEMMA ShortSeq ==
  ASSUME NEW S, NEW a \in S, NEW b \in S, NEW c \in S, NEW d \in S
  PROVE  /\ <<>> \in Seq(S)
         /\ <<a>> \in Seq(S)
         /\ <<a, b>> \in Seq(S)
         /\ <<a, b, c>> \in Seq(S)
         /\ <<a, b, c, d>> \in Seq(S)
OBVIOUS

\* A script for one kind of message is a script for any.
LEMMA OnType ==
  ASSUME NEW S, NEW id, NEW m, NEW script \in Seq(S)
  PROVE  On(id, m, script) \in Seq(S)
BY DEF On

\* The stretches of code the tasks run consist of such calls.
LEMMA ScriptTypes ==
  ASSUME NEW t \in Task
  PROVE  /\ SetupScript(t) \in Seq(Call)
         /\ TeardownScript(t) \in Seq(Call)
         /\ \A m : Script(t, m) \in Seq(Call)
<1>1. t \in Thread /\ t \in {"temp", "light", "logger"}
  BY TaskAssumption DEF Thread
<1>2. Do("mq_notify", t) \in Call /\ Do("open_i2c", t) \in Call
      /\ Do("read_payload", t) \in Call /\ Do("i2c", t) \in Call
      /\ Do("initLogger", t) \in Call /\ Do("fputs", t) \in Call
      /\ Do("logFileChange", t) \in Call /\ Do("fclose", t) \in Call
  BY <1>1, CallTypes DEF CallName
<1>3. Log \in Call /\ Send("main", "HEARTBEAT_RSP", t) \in Call
  BY <1>1, CallTypes
<1>4. Send("main", "TEMP_VALUE", "temp") \in Call /\ Send("main", "LIGHT_VALUE", "light") \in Call
  BY <1>1, CallTypes
<1>5. SetupScript(t) \in Seq(Call)
  <2>1. <<Log, Do("mq_notify", t), Log, Do("open_i2c", t)>> \in Seq(Call)
    BY <1>2, <1>3, ShortSeq
  <2>2. <<Log, Do("mq_notify", t), Do("open_i2c", t), Log>> \in Seq(Call)
    BY <1>2, <1>3, ShortSeq
  <2>3. <<Do("mq_notify", t), Do("initLogger", t)>> \in Seq(Call)
    BY <1>2, ShortSeq
  <2>4. CASE t = "temp"
    BY <2>1, <2>4 DEF SetupScript
  <2>5. CASE t = "light"
    BY <2>2, <2>5 DEF SetupScript
  <2>6. CASE t = "logger"
    BY <2>3, <2>6 DEF SetupScript
  <2> QED
    BY <1>1, <2>4, <2>5, <2>6
<1>6. TeardownScript(t) \in Seq(Call)
  BY <1>2, <1>3 DEF TeardownScript
<1>7. ASSUME NEW m PROVE Script(t, m) \in Seq(Call)
  <2>1. CASE t = "temp"
    <3> DEFINE value == <<Log>> \o Payload("temp", m) \o <<Send("main", "TEMP_VALUE", "temp")>>
               beat  == <<Send("main", "HEARTBEAT_RSP", "temp"), Do("i2c", "temp")>>
    <3>1. <<Log>> \in Seq(Call) /\ <<Send("main", "TEMP_VALUE", "temp")>> \in Seq(Call)
      BY <1>3, <1>4, ShortSeq
    <3>2. Payload("temp", m) \in Seq(Call)
      BY <1>2, <2>1, ShortSeq DEF Payload
    <3>3. value \in Seq(Call)
      BY <3>1, <3>2, ConcatProperties
    <3>4. beat \in Seq(Call)
      BY <1>2, <1>3, <2>1, ShortSeq
    <3>5. TempScript(m) = On("TEMP_DATA_REQ", m, value) \o On("HEARTBEAT_REQ", m, beat)
      BY DEF TempScript
    <3>6. TempScript(m) \in Seq(Call)
      BY <3>3, <3>4, <3>5, OnType, ConcatProperties
    <3> QED
      BY <2>1, <3>6 DEF Script
  <2>2. CASE t = "light"
    <3> DEFINE value == <<Log, Do("i2c", "light"), Send("main", "LIGHT_VALUE", "light")>>
               beat  == <<Send("main", "HEARTBEAT_RSP", "light")>>
    <3>1. value \in Seq(Call) /\ beat \in Seq(Call)
      BY <1>2, <1>3, <1>4, <2>2, ShortSeq
    <3>2. LightScript(m) = On("LIGHT_DATA_REQ", m, value) \o On("HEARTBEAT_REQ", m, beat)
      BY DEF LightScript
    <3>3. LightScript(m) \in Seq(Call)
      BY <3>1, <3>2, OnType, ConcatProperties
    <3> QED
      BY <2>2, <3>3 DEF Script
  <2>3. CASE t = "logger"
    <3> DEFINE change == <<Do("logFileChange", "logger")>>
               beat   == <<Send("main", "HEARTBEAT_RSP", "logger")>>
    <3>1. change \in Seq(Call) /\ beat \in Seq(Call) /\ <<Do("fputs", "logger")>> \in Seq(Call)
      BY <1>2, <1>3, <2>3, ShortSeq
    <3>2. Payload("logger", m) \in Seq(Call)
      BY <1>2, <2>3, ShortSeq DEF Payload
    <3>3. logMessage(m) \in Seq(Call)
      BY <3>1, <3>2, ConcatProperties DEF logMessage
    <3>4. LoggerScript(m) = On("LOGGER", m, logMessage(m)) \o On("FILE_CHANGE", m, change)
                              \o On("HEARTBEAT_REQ", m, beat)
      BY DEF LoggerScript
    <3>5. /\ On("LOGGER", m, logMessage(m)) \in Seq(Call)
          /\ On("FILE_CHANGE", m, change) \in Seq(Call)
          /\ On("HEARTBEAT_REQ", m, beat) \in Seq(Call)
      BY <3>1, <3>3, OnType
    <3>6. LoggerScript(m) \in Seq(Call)
      BY <3>4, <3>5, ConcatProperties
    <3> QED
      BY <2>3, <3>6 DEF Script
  <2> QED
    BY <1>1, <2>1, <2>2, <2>3
<1> QED
  BY <1>5, <1>6, <1>7

(***************************************************************************)
(* The kernel objects.                                                     *)
(***************************************************************************)
\* A further signal stays within the limit and is there to be taken.
LEMMA RaisedType ==
  ASSUME NEW t \in Thread, pending \in [Thread -> 0..SignalLimit]
  PROVE  /\ Raised(t) \in [Thread -> 0..SignalLimit]
         /\ \A u \in Thread : pending[u] > 0 => Raised(t)[u] > 0
         /\ \A u \in Thread : u # t => Raised(t)[u] = pending[u]
         /\ Raised(t)[t] > 0
BY SignalLimitAssumption DEF Raised

\* A send keeps the queues within their capacity.
LEMMA SendType ==
  ASSUME MQTypeOK, NEW t \in Thread, NEW m \in Message, mq_send(t, m)
  PROVE  MQTypeOK'
<1>1. queue[t] \in Seq(Message) /\ Len(queue[t]) < Capacity
  BY DEF MQTypeOK, mq_send, HasRoom
<1>2. Append(queue[t], m) \in Seq(Message) /\ Len(Append(queue[t], m)) = Len(queue[t]) + 1
  BY <1>1, AppendProperties
<1>3. Len(queue[t]) \in Nat /\ Capacity \in Nat
  BY <1>1, LenProperties, CapacityAssumption
<1>4. queue' = [queue EXCEPT ![t] = Append(queue[t], m)]
  BY DEF mq_send
<1>5. queue' \in [Thread -> Seq(Message)] /\ \A u \in Thread : Len(queue'[u]) <= Capacity
  BY <1>1, <1>2, <1>3, <1>4 DEF MQTypeOK
<1>6. registered' \in [Thread -> BOOLEAN] /\ pending' \in [Thread -> 0..SignalLimit]
  BY RaisedType DEF MQTypeOK, mq_send
<1> QED
  BY <1>5, <1>6 DEF MQTypeOK

\* A receive returns a message of the protocol.
LEMMA ReceiveType ==
  ASSUME MQTypeOK, NEW t \in Thread, mq_receive(t)
  PROVE  MQTypeOK' /\ Head(queue[t]) \in Message
<1>1. queue[t] \in Seq(Message) /\ Len(queue[t]) <= Capacity /\ queue[t] # <<>>
  BY DEF MQTypeOK, mq_receive
<1>2. /\ Head(queue[t]) \in Message
      /\ Tail(queue[t]) \in Seq(Message)
      /\ Len(Tail(queue[t])) = Len(queue[t]) - 1
  BY <1>1, HeadTailProperties
<1>3. Len(queue[t]) \in Nat /\ Capacity \in Nat
  BY <1>1, LenProperties, CapacityAssumption
<1>4. queue' = [queue EXCEPT ![t] = Tail(queue[t])]
  BY DEF mq_receive
<1>5. queue' \in [Thread -> Seq(Message)] /\ \A u \in Thread : Len(queue'[u]) <= Capacity
  BY <1>1, <1>2, <1>3, <1>4 DEF MQTypeOK
<1> QED
  BY <1>2, <1>5 DEF MQTypeOK, mq_receive

\* The other operations on kernel objects keep their types.
LEMMA KernelTypes ==
  ASSUME MQTypeOK, NEW t \in Thread,
         pthread_kill(t) \/ mq_notify(t) \/ sigwait(t) \/ UNCHANGED mqVars
  PROVE  MQTypeOK'
<1>1. CASE pthread_kill(t)
  BY <1>1, RaisedType DEF MQTypeOK, pthread_kill
<1>2. CASE mq_notify(t)
  BY <1>2 DEF MQTypeOK, mq_notify
<1>3. CASE sigwait(t)
  <2>1. pending' \in [Thread -> 0..SignalLimit]
    BY <1>3, SignalLimitAssumption DEF MQTypeOK, sigwait
  <2> QED
    BY <1>3, <2>1 DEF MQTypeOK, sigwait
<1>4. CASE UNCHANGED mqVars
  BY <1>4 DEF MQTypeOK, mqVars
<1> QED
  BY <1>1, <1>2, <1>3, <1>4

(***************************************************************************)
(* Moving from stretch to stretch.                                         *)
(***************************************************************************)
\* A thread that starts on a script is in that stretch, or already past it.
LEMMA RunType ==
  ASSUME NEW t \in Thread, NEW label \in Calling, NEW script \in Seq(Call),
         pc \in [Thread -> Label], todo \in [Thread -> Seq(Call)],
         Run(t, label, script)
  PROVE  /\ pc' \in [Thread -> Label]
         /\ todo' \in [Thread -> Seq(Call)]
         /\ pc'[t] \in {label, Continue[label]}
         /\ \A u \in Thread : u # t => pc'[u] = pc[u]
<1>1. label \in Label /\ Continue[label] \in Label
  BY DEF Label, Calling, Continue
<1>2. todo' = [todo EXCEPT ![t] = script]
  BY DEF Run
<1>3. pc' = [pc EXCEPT ![t] = label] \/ pc' = [pc EXCEPT ![t] = Continue[label]]
  BY DEF Run
<1> QED
  BY <1>1, <1>2, <1>3

\* A thread that moves without a script.
LEMMA GotoType ==
  ASSUME NEW t \in Thread, NEW label \in Label, pc \in [Thread -> Label], Goto(t, label)
  PROVE  /\ pc' \in [Thread -> Label]
         /\ pc'[t] = label
         /\ \A u \in Thread : u # t => pc'[u] = pc[u]
BY DEF Goto

\* A spoilt errno leaves the thread in a stretch with calls.
LEMMA ErrnoType == \A label \in Calling : ErrnoOverwritten(label) \in Calling
BY DEF ErrnoOverwritten, Calling, Continue

\* The next call names a thread and, if it sends, carries a message.
LEMMA NextCallType ==
  ASSUME NEW t \in Thread, todo \in [Thread -> Seq(Call)], todo[t] # <<>>
  PROVE  /\ NextCall(t) \in Call
         /\ NextCall(t).to \in Thread
         /\ NextCall(t).call = "mq_send" => NextCall(t).msg \in Message
         /\ Tail(todo[t]) \in Seq(Call)
<1>1. NextCall(t) \in Call /\ Tail(todo[t]) \in Seq(Call)
  BY HeadTailProperties DEF NextCall
<1>2. \A c \in Call : c.to \in Thread /\ (c.call = "mq_send" => c.msg \in Message)
  BY DEF Call, CallName
<1> QED
  BY <1>1, <1>2

\* A thread that returns from a call is in the same stretch, or past it.
LEMMA ReturnType ==
  ASSUME NEW t \in Thread, pc \in [Thread -> Label], todo \in [Thread -> Seq(Call)],
         pc[t] \in Calling, todo[t] # <<>>, Return(t)
  PROVE  /\ pc' \in [Thread -> Label]
         /\ todo' \in [Thread -> Seq(Call)]
         /\ pc'[t] \in {pc[t], Continue[pc[t]]}
         /\ \A u \in Thread : u # t => pc'[u] = pc[u]
<1>1. Tail(todo[t]) \in Seq(Call)
  BY NextCallType
<1>2. Run(t, pc[t], Tail(todo[t]))
  BY DEF Return
<1> QED
  BY <1>1, <1>2, RunType

\* Repeated log lines are a script.
LEMMA RepeatType ==
  ASSUME NEW n \in Nat
  PROVE  Repeat(Log, n) \in Seq(Call)
<1>1. Log \in Call
  BY CallTypes, TaskAssumption DEF Thread
<1>2. Repeat(Log, n) \in [1..n -> Call]
  BY <1>1 DEF Repeat
<1> QED
  BY <1>2, SeqDef

(***************************************************************************)
(* The steps of a task.                                                    *)
(***************************************************************************)
LEMMA DieType ==
  ASSUME MQTypeOK, TasksTypeOK, Die, task_state' \in [Task -> {"RUNNING", "SHUTDOWN"}]
  PROVE  MQTypeOK' /\ TasksTypeOK'
<1>1. "ended" \in Label /\ <<>> \in Seq(Call) /\ 0 \in 0..SignalLimit
  BY SignalLimitAssumption DEF Label
<1> QED
  BY <1>1 DEF Die, MQTypeOK, TasksTypeOK

\* A call that any thread may make keeps all types.
LEMMA CommonCallType ==
  ASSUME MQTypeOK, TasksTypeOK, NEW t \in Thread, CommonCall(t)
  PROVE  MQTypeOK' /\ TasksTypeOK'
<1>1. /\ pc[t] \in Calling /\ todo[t] # <<>>
      /\ pc \in [Thread -> Label] /\ todo \in [Thread -> Seq(Call)]
  BY DEF CommonCall, TasksTypeOK
<1>2. /\ NextCall(t).to \in Thread
      /\ NextCall(t).call = "mq_send" => NextCall(t).msg \in Message
      /\ Tail(todo[t]) \in Seq(Call)
  BY <1>1, NextCallType
<1>3. Return(t) => pc' \in [Thread -> Label] /\ todo' \in [Thread -> Seq(Call)]
  BY <1>1, ReturnType
<1>4. CASE CallSend(t)
  BY <1>2, <1>3, <1>4, SendType DEF CallSend, TasksTypeOK
<1>5. CASE CallKill(t)
  BY <1>2, <1>3, <1>5, KernelTypes DEF CallKill, TasksTypeOK
<1>6. CASE CallNotify(t)
  BY <1>3, <1>6, KernelTypes DEF CallNotify, TasksTypeOK
<1>7. CASE CallMayDie(t)
  <2>1. CASE Die
    BY <1>7, <2>1, DieType DEF CallMayDie, TasksTypeOK
  <2>2. CASE Return(t) /\ UNCHANGED <<mqVars, in_buffer, process, out_file>>
    BY <1>3, <1>7, <2>2, KernelTypes DEF CallMayDie, TasksTypeOK
  <2> QED
    BY <1>7, <2>1, <2>2 DEF CallMayDie
<1>8. CASE CallI2C(t)
  <2>1. ASSUME NEW n \in 1..MaxSensorErrors,
               Run(t, ErrnoOverwritten(pc[t]), Repeat(Log, n) \o Tail(todo[t]))
        PROVE  pc' \in [Thread -> Label] /\ todo' \in [Thread -> Seq(Call)]
    <3>1. Repeat(Log, n) \o Tail(todo[t]) \in Seq(Call)
      BY <1>2, RepeatType, ConcatProperties, MaxSensorErrorsAssumption
    <3>2. ErrnoOverwritten(pc[t]) \in Calling
      BY <1>1, ErrnoType
    <3> QED
      BY <1>1, <2>1, <3>1, <3>2, RunType
  <2>2. pc' \in [Thread -> Label] /\ todo' \in [Thread -> Seq(Call)]
    BY <1>3, <1>8, <2>1 DEF CallI2C
  <2>3. MQTypeOK'
    BY <1>8, KernelTypes DEF CallI2C
  <2> QED
    BY <1>8, <2>2, <2>3 DEF CallI2C, TasksTypeOK
<1>9. CASE CallOpenLog(t)
  <2>1. CASE Die
    BY <1>9, <2>1, DieType DEF CallOpenLog, TasksTypeOK
  <2>2. CASE Return(t) /\ UNCHANGED <<mqVars, in_buffer, process>>
             /\ out_file' \in {"none", "open", "NULL", "closed"}
    BY <1>3, <1>9, <2>2, KernelTypes DEF CallOpenLog, TasksTypeOK
  <2> QED
    BY <1>9, <2>1, <2>2 DEF CallOpenLog, Opened
<1>10. CASE CallWriteLog(t)
  <2>1. CASE Die
    BY <1>10, <2>1, DieType DEF CallWriteLog, TasksTypeOK
  <2>2. CASE Return(t) /\ UNCHANGED <<mqVars, in_buffer, process>>
             /\ out_file' \in {"closed", out_file}
    BY <1>3, <1>10, <2>2, KernelTypes DEF CallWriteLog, TasksTypeOK
  <2> QED
    BY <1>10, <2>1, <2>2 DEF CallWriteLog
<1> QED
  BY <1>4, <1>5, <1>6, <1>7, <1>8, <1>9, <1>10 DEF CommonCall

\* So does every step of a task's own loop.
LEMMA TaskStepType ==
  ASSUME MQTypeOK, TasksTypeOK, NEW t \in Task, TaskStep(t)
  PROVE  MQTypeOK' /\ TasksTypeOK'
<1>1. t \in Thread
  BY DEF Thread
<1>2. pc \in [Thread -> Label] /\ todo \in [Thread -> Seq(Call)]
  BY DEF TasksTypeOK
<1>3. {"teardown", "handle", "again"} \subseteq Calling
      /\ {"sigwait", "notify", "receive"} \subseteq Label
  BY DEF Calling, Continue, Label
<1>4. CASE CommonCall(t)
  BY <1>1, <1>4, CommonCallType
<1>5. CASE TaskLoop(t)
  <2>1. MQTypeOK'
    BY <1>1, <1>5, KernelTypes DEF TaskLoop
  <2>2. CASE task_state[t] = "RUNNING"
    BY <1>1, <1>2, <1>3, <1>5, <2>1, <2>2, GotoType DEF TaskLoop, TasksTypeOK
  <2>3. CASE task_state[t] # "RUNNING"
    BY <1>1, <1>2, <1>3, <1>5, <2>1, <2>3, RunType, ScriptTypes DEF TaskLoop, TasksTypeOK
  <2> QED
    BY <2>2, <2>3
<1>6. CASE TaskSigwait(t)
  BY <1>1, <1>2, <1>3, <1>6, KernelTypes, GotoType DEF TaskSigwait, TasksTypeOK
<1>7. CASE TaskNotify(t)
  BY <1>1, <1>2, <1>3, <1>7, KernelTypes, GotoType DEF TaskNotify, TasksTypeOK
<1>8. CASE TaskReceive(t)
  <2>1. MQTypeOK' /\ Head(queue[t]) \in Message
    BY <1>1, <1>8, ReceiveType DEF TaskReceive
  <2>2. Script(t, Head(queue[t])) \in Seq(Call)
    BY ScriptTypes
  <2>3. pc' \in [Thread -> Label] /\ todo' \in [Thread -> Seq(Call)]
    BY <1>1, <1>2, <1>3, <1>8, <2>2, RunType DEF TaskReceive
  <2> QED
    BY <1>8, <2>1, <2>3 DEF TaskReceive, TasksTypeOK
<1>9. CASE TaskReceiveEmpty(t)
  <2>1. PICK m \in BufferReadings(t) : Run(t, "again", Script(t, m))
    BY <1>9 DEF TaskReceiveEmpty
  <2>2. Script(t, m) \in Seq(Call)
    BY ScriptTypes
  <2>3. pc' \in [Thread -> Label] /\ todo' \in [Thread -> Seq(Call)]
    BY <1>1, <1>2, <1>3, <2>1, <2>2, RunType
  <2>4. MQTypeOK'
    BY <1>1, <1>9, KernelTypes DEF TaskReceiveEmpty
  <2> QED
    BY <1>9, <2>3, <2>4 DEF TaskReceiveEmpty, TasksTypeOK
<1> QED
  BY <1>4, <1>5, <1>6, <1>7, <1>8, <1>9 DEF TaskStep

(***************************************************************************)
(* The server.                                                             *)
(***************************************************************************)
\* The threads that are always there.
LEMMA MainInThread == "main" \in Thread /\ "logger" \in Thread /\ Task \subseteq Thread
BY TaskAssumption DEF Thread

(***************************************************************************)
(* The stretches of main's code consist of well-formed calls.              *)
(***************************************************************************)
LEMMA ForTaskType ==
  ASSUME NEW t, NEW script, t \in Task => script \in Seq(Call)
  PROVE  ForTask(t, script) \in Seq(Call)
BY EmptySeq DEF ForTask

\* Joining two scripts gives a script.
LEMMA ConcatType ==
  ASSUME NEW a \in Seq(Call), NEW b \in Seq(Call)
  PROVE  a \o b \in Seq(Call)
BY ConcatProperties

\* A single call without a message is a script.
LEMMA DoType ==
  ASSUME NEW t \in Thread, NEW name \in CallName
  PROVE  <<Do(name, t)>> \in Seq(Call)
BY CallTypes, ShortSeq

\* Main's messages, each as a script of its own where it is used as one.
LEMMA RequestTypes ==
  ASSUME NEW t \in Thread
  PROVE  /\ <<Send(t, "HEARTBEAT_REQ", "main")>> \in Seq(Call)
         /\ Send(t, "TEMP_DATA_REQ", "main") \in Call
         /\ <<Send(t, "LIGHT_DATA_REQ", "main")>> \in Seq(Call)
         /\ <<Send("logger", "FILE_CHANGE", "main")>> \in Seq(Call)
         /\ <<Log>> \in Seq(Call)
BY CallTypes, ShortSeq

\* reqHeartbeats (main.c:454) consists of well-formed calls.
LEMMA ReqHeartbeatsType == reqHeartbeats \in Seq(Call)
<1>1. /\ <<Send("logger", "HEARTBEAT_REQ", "main")>> \in Seq(Call)
      /\ ForTask("temp", <<Send("temp", "HEARTBEAT_REQ", "main")>>) \in Seq(Call)
      /\ ForTask("light", <<Send("light", "HEARTBEAT_REQ", "main")>>) \in Seq(Call)
  BY MainInThread, RequestTypes, ForTaskType
<1> QED
  BY <1>1, ConcatType DEF reqHeartbeats

\* So does the first SIGALRM branch (main.c:184-216).
LEMMA StartupType == StartupScript \in Seq(Call)
<1> DEFINE temp  == <<Send("temp", "TEMP_DATA_REQ", "main"), Do("pthread_kill", "temp")>>
           light == <<Send("light", "LIGHT_DATA_REQ", "main")>>
<1>1. "temp" \in Task => temp \in Seq(Call)
  BY MainInThread, CallTypes, ShortSeq DEF CallName
<1>2. "light" \in Task => light \in Seq(Call)
  BY MainInThread, RequestTypes
<1>3. ForTask("temp", temp) \in Seq(Call) /\ ForTask("light", light) \in Seq(Call)
  BY <1>1, <1>2, ForTaskType
<1>4. <<Do("pthread_kill", "logger")>> \in Seq(Call) /\ <<Do("alarm", "main")>> \in Seq(Call)
  BY MainInThread, DoType DEF CallName
<1> HIDE DEF temp, light
<1>5. StartupScript = reqHeartbeats \o <<Do("pthread_kill", "logger")>>
                      \o ForTask("temp", temp) \o ForTask("light", light)
                      \o <<Do("alarm", "main")>>
  BY DEF StartupScript, temp, light
<1> QED
  BY <1>3, <1>4, <1>5, ReqHeartbeatsType, ConcatType

\* So does what follows processHeartbeats, with its log line or without.
LEMMA RoundType == RoundScript \in Seq(Call) /\ <<Log>> \o RoundScript \in Seq(Call)
<1>1. <<Do("pthread_kill", "logger"), Do("alarm", "main")>> \in Seq(Call)
  BY MainInThread, CallTypes, ShortSeq DEF CallName
<1>2. <<Log>> \in Seq(Call)
  BY MainInThread, RequestTypes
<1> QED
  BY <1>1, <1>2, ReqHeartbeatsType, ConcatType DEF RoundScript

\* One call for every task.
LEMMA EachType ==
  ASSUME NEW name \in CallName
  PROVE  Each(name) \in Seq(Call)
<1>1. ForTask("temp", <<Do(name, "temp")>>) \in Seq(Call)
      /\ ForTask("light", <<Do(name, "light")>>) \in Seq(Call)
      /\ <<Do(name, "logger")>> \in Seq(Call)
  BY MainInThread, DoType, ForTaskType
<1> QED
  BY <1>1, ConcatType DEF Each

\* So does main's code after its loop (main.c:224-352).
LEMMA MainTeardownType == MainTeardownScript \in Seq(Call)
<1>1. Each("stop") \in Seq(Call) /\ Each("pthread_join") \in Seq(Call)
  BY EachType DEF CallName
<1>2. <<Do("mq_unlink", "main")>> \in Seq(Call) /\ <<Do("exit", "main")>> \in Seq(Call)
  BY MainInThread, DoType DEF CallName
<1>3. <<Send("logger", "FILE_CHANGE", "main")>> \in Seq(Call)
  BY MainInThread, RequestTypes
<1> QED
  BY <1>1, <1>2, <1>3, ConcatType DEF MainTeardownScript

\* So do main's set-up, its handling of a message and its verdict.
LEMMA MainScriptTypes ==
  /\ MainSetupScript \in Seq(Call)
  /\ <<Do("alarm", "main")>> \in Seq(Call)
  /\ \A m : MainScript(m) \in Seq(Call) /\ HbScript(m) \in Seq(Call)
  /\ MissingReport("temp") \o MissingReport("light") \o MissingReport("logger") \in Seq(Call)
<1>1. Do("mq_notify", "main") \in Call /\ Do("alarm", "main") \in Call
      /\ Do("set_error", "main") \in Call /\ Log \in Call
  BY MainInThread, CallTypes DEF CallName
<1>2. MainSetupScript \in Seq(Call) /\ <<Do("alarm", "main")>> \in Seq(Call)
  BY <1>1, ShortSeq DEF MainSetupScript
<1>3. \A ids, m : LogFor(ids, m) \in Seq(Call)
  <2> TAKE ids, m
  <2>1. Payload("main", m) \in Seq(Call)
    BY MainInThread, DoType, ShortSeq, <1>1 DEF CallName, Payload
  <2>2. <<Log>> \in Seq(Call) /\ <<>> \in Seq(Call)
    BY <1>1, ShortSeq
  <2> QED
    BY <2>1, <2>2, ConcatType DEF LogFor
<1>4. \A t : MissingReport(t) \in Seq(Call)
  BY <1>1, ShortSeq DEF MissingReport
<1> QED
  BY <1>2, <1>3, <1>4, ConcatType DEF MainScript, HbScript

(***************************************************************************)
(* Type correctness.                                                       *)
(***************************************************************************)
\* Every thread begins with a script.
LEMMA FirstScriptTypes == FirstScripts \in [Thread -> Seq(Call)]
<1>1. \A t \in Thread : (IF t = "main" THEN MainSetupScript ELSE SetupScript(t)) \in Seq(Call)
  BY ScriptTypes, MainScriptTypes DEF Thread
<1> QED
  BY <1>1 DEF FirstScripts

\* All variables start with their types.
LEMMA InitType == Init => TypeOK
<1> SUFFICES ASSUME Init PROVE TypeOK
  OBVIOUS
<1>1. MQTypeOK
  BY CapacityAssumption, SignalLimitAssumption, EmptySeq DEF Init, MQInit, MQTypeOK
<1>2. FirstScripts \in [Thread -> Seq(Call)]
  BY FirstScriptTypes
<1>3. "setup" \in Label
  BY DEF Label, Calling, Continue
<1>4. TasksTypeOK
  BY <1>2, <1>3 DEF Init, TasksInit, TasksTypeOK
<1> QED
  BY <1>1, <1>4 DEF Init, TypeOK, Stopped

\* The types of the variables only main writes, for a step that writes none.
MainTypeOK ==
  /\ main_state \in {"STARTUP", "REQ_RSP"} \cup Stopped
  /\ hbt_rsp \in [Task -> BOOLEAN]
  /\ hb_buffer \in Message \cup {NoMessage}
  /\ alarm \in BOOLEAN
  /\ caught \subseteq {"SIGINT", "SIGTERM"}
  /\ linked \in BOOLEAN

\* TypeOK, split by the module that declares the variables.
LEMMA TypeParts == TypeOK <=> MQTypeOK /\ TasksTypeOK /\ MainTypeOK
BY DEF TypeOK, MainTypeOK

\* A step of another thread keeps the types of main's variables.
LEMMA MainUnchanged ==
  ASSUME MainTypeOK, UNCHANGED mainVars
  PROVE  MainTypeOK'
BY DEF MainTypeOK, mainVars

\* Counting a heartbeat keeps the type of hbt_rsp.
LEMMA HeardType ==
  ASSUME MainTypeOK, NEW m
  PROVE  Heard(m) \in [Task -> BOOLEAN]
BY DEF MainTypeOK, Heard

\* The calls only main makes.
LEMMA MainCallType ==
  ASSUME TypeOK,
         CallStop \/ CallSetError \/ CallAlarm \/ CallUnlink \/ CallJoin \/ CallExit
  PROVE  TypeOK'
<1>1. /\ pc["main"] \in Calling /\ todo["main"] # <<>>
      /\ pc \in [Thread -> Label] /\ todo \in [Thread -> Seq(Call)]
      /\ MQTypeOK /\ TasksTypeOK
  BY DEF TypeOK, TasksTypeOK, MainCall,
         CallStop, CallSetError, CallAlarm, CallUnlink, CallJoin, CallExit
<1>2. task_state' \in [Task -> {"RUNNING", "SHUTDOWN"}]
  BY <1>1 DEF TasksTypeOK, CallStop, CallSetError, CallAlarm, CallUnlink, CallJoin, CallExit
<1>3. MainTypeOK'
  BY DEF TypeOK, MainTypeOK, Stopped, mainVars,
         CallStop, CallSetError, CallAlarm, CallUnlink, CallJoin, CallExit
<1>4. CASE Die
  BY <1>1, <1>2, <1>3, <1>4, DieType DEF TypeOK, MainTypeOK
<1>5. CASE ~Die
  <2>1. Return("main") /\ UNCHANGED <<in_buffer, out_file>> /\ process' \in {process, "exited"}
    BY <1>5 DEF CallStop, CallSetError, CallAlarm, CallUnlink, CallJoin, CallExit
  <2>2. pc' \in [Thread -> Label] /\ todo' \in [Thread -> Seq(Call)]
    BY <1>1, <2>1, MainInThread, ReturnType
  <2>3. Target \in Thread
    BY <1>1, MainInThread, NextCallType DEF Target
  <2>4. MQTypeOK'
    <3>1. CASE CallUnlink
      BY <1>1, <3>1 DEF CallUnlink, MQTypeOK
    <3>2. CASE ~CallUnlink
      BY <1>1, <1>5, <2>3, <3>2, KernelTypes
      DEF CallStop, CallSetError, CallAlarm, CallJoin, CallExit
    <3> QED
      BY <3>1, <3>2
  <2>5. TasksTypeOK'
    BY <1>1, <1>2, <2>1, <2>2 DEF TasksTypeOK
  <2> QED
    BY <1>3, <2>4, <2>5 DEF TypeOK, MainTypeOK
<1> QED
  BY <1>4, <1>5

\* Main's loop.
LEMMA MainLoopType ==
  ASSUME TypeOK,
         MainLoop \/ MainSigwait \/ MainTimer \/ MainNotify \/ MainReceive
         \/ MainReceiveEmpty \/ MainTick \/ MainStartup
  PROVE  TypeOK'
<1>1. MQTypeOK /\ TasksTypeOK /\ MainTypeOK
  BY TypeParts
<1>2. pc \in [Thread -> Label] /\ todo \in [Thread -> Seq(Call)]
  BY <1>1 DEF TasksTypeOK
<1>3. {"teardown", "handle", "again", "round"} \subseteq Calling
      /\ {"sigwait", "notify", "receive", "tick", "startup", "hb_receive"} \subseteq Label
  BY DEF Calling, Continue, Label
<1>4. CASE MainLoop
  <2>1. pc' \in [Thread -> Label] /\ todo' \in [Thread -> Seq(Call)]
    BY <1>2, <1>3, <1>4, MainInThread, GotoType, RunType, MainTeardownType DEF MainLoop
  <2> QED
    BY <1>1, <1>4, <2>1, MainInThread, KernelTypes, MainUnchanged, TypeParts
    DEF MainLoop, TasksTypeOK, TypeOK, MainTypeOK
<1>5. CASE MainSigwait
  BY <1>1, <1>2, <1>3, <1>5, MainInThread, GotoType, KernelTypes, MainUnchanged
  DEF MainSigwait, TasksTypeOK, TypeOK, MainTypeOK
<1>6. CASE MainTimer
  <2>1. MainTypeOK'
    BY <1>1, <1>6 DEF MainTimer, MainTypeOK
  <2> QED
    BY <1>1, <1>2, <1>3, <1>6, <2>1, MainInThread, GotoType, KernelTypes
    DEF MainTimer, TasksTypeOK, TypeOK, MainTypeOK
<1>7. CASE MainNotify
  BY <1>1, <1>2, <1>3, <1>7, MainInThread, GotoType, KernelTypes, MainUnchanged
  DEF MainNotify, TasksTypeOK, TypeOK, MainTypeOK
<1>8. CASE MainReceive
  <2>1. MQTypeOK' /\ Head(queue["main"]) \in Message
    BY <1>1, <1>8, MainInThread, ReceiveType DEF MainReceive
  <2>2. pc' \in [Thread -> Label] /\ todo' \in [Thread -> Seq(Call)]
    BY <1>2, <1>3, <1>8, MainInThread, RunType, MainScriptTypes DEF MainReceive
  <2>3. MainTypeOK'
    BY <1>1, <1>8, HeardType DEF MainReceive, MainTypeOK
  <2>4. TasksTypeOK'
    BY <1>1, <1>8, <2>1, <2>2 DEF MainReceive, TasksTypeOK
  <2> QED
    BY <2>1, <2>3, <2>4 DEF TypeOK, MainTypeOK
<1>9. CASE MainReceiveEmpty
  <2>1. pc' \in [Thread -> Label] /\ todo' \in [Thread -> Seq(Call)]
    BY <1>2, <1>3, <1>9, MainInThread, RunType, MainScriptTypes DEF MainReceiveEmpty
  <2>2. MainTypeOK'
    BY <1>1, <1>9, HeardType DEF MainReceiveEmpty, MainTypeOK
  <2> QED
    BY <1>1, <1>9, <2>1, <2>2, MainInThread, KernelTypes
    DEF MainReceiveEmpty, TasksTypeOK, TypeOK, MainTypeOK
<1>10. CASE MainTick
  <2>1. pc' \in [Thread -> Label] /\ todo' \in [Thread -> Seq(Call)]
    BY <1>2, <1>3, <1>10, MainInThread, GotoType, RunType, MainScriptTypes DEF MainTick
  <2>2. MainTypeOK'
    BY <1>1, <1>10 DEF MainTick, MainTypeOK
  <2> QED
    BY <1>1, <1>10, <2>1, <2>2, MainInThread, KernelTypes
    DEF MainTick, TasksTypeOK, TypeOK, MainTypeOK
<1>11. CASE MainStartup
  <2>1. pc' \in [Thread -> Label] /\ todo' \in [Thread -> Seq(Call)]
    BY <1>2, <1>3, <1>11, MainInThread, RunType, StartupType DEF MainStartup
  <2>2. MainTypeOK'
    BY <1>1, <1>11 DEF MainStartup, MainTypeOK
  <2> QED
    BY <1>1, <1>11, <2>1, <2>2, MainInThread, KernelTypes
    DEF MainStartup, TasksTypeOK, TypeOK, MainTypeOK
<1> QED
  BY <1>4, <1>5, <1>6, <1>7, <1>8, <1>9, <1>10, <1>11

\* processHeartbeats.
LEMMA HeartbeatType ==
  ASSUME TypeOK, HbReceive \/ HbReceiveEmpty \/ HbCheck \/ HbJudge \/ HbRaise
  PROVE  TypeOK'
<1>1. MQTypeOK /\ TasksTypeOK /\ MainTypeOK
  BY TypeParts
<1>2. pc \in [Thread -> Label] /\ todo \in [Thread -> Seq(Call)]
  BY <1>1 DEF TasksTypeOK
<1>3. {"hb_handle", "hb_again", "verdict", "round"} \subseteq Calling /\ "raise" \in Label
  BY DEF Calling, Continue, Label
<1>4. CASE HbReceive
  <2>1. MQTypeOK' /\ Head(queue["main"]) \in Message
    BY <1>1, <1>4, MainInThread, ReceiveType DEF HbReceive
  <2>2. pc' \in [Thread -> Label] /\ todo' \in [Thread -> Seq(Call)]
    BY <1>2, <1>3, <1>4, MainInThread, RunType, MainScriptTypes DEF HbReceive
  <2>3. MainTypeOK'
    BY <1>1, <1>4, <2>1, HeardType DEF HbReceive, MainTypeOK
  <2>4. TasksTypeOK'
    BY <1>1, <1>4, <2>2 DEF HbReceive, TasksTypeOK
  <2> QED
    BY <2>1, <2>3, <2>4 DEF TypeOK, MainTypeOK
<1>5. CASE HbReceiveEmpty
  <2>1. pc' \in [Thread -> Label] /\ todo' \in [Thread -> Seq(Call)]
    BY <1>2, <1>3, <1>5, MainInThread, RunType, MainScriptTypes DEF HbReceiveEmpty
  <2>2. MainTypeOK'
    BY <1>1, <1>5, HeardType DEF HbReceiveEmpty, MainTypeOK
  <2> QED
    BY <1>1, <1>5, <2>1, <2>2, MainInThread, KernelTypes
    DEF HbReceiveEmpty, TasksTypeOK, TypeOK, MainTypeOK
<1>6. CASE HbCheck
  <2>1. pc' \in [Thread -> Label] /\ todo' \in [Thread -> Seq(Call)]
    BY <1>2, <1>3, <1>6, MainInThread, RunType, MainScriptTypes DEF HbCheck
  <2>2. MainTypeOK'
    BY <1>1, <1>6 DEF HbCheck, MainTypeOK
  <2> QED
    BY <1>1, <1>6, <2>1, <2>2, MainInThread, KernelTypes
    DEF HbCheck, TasksTypeOK, TypeOK, MainTypeOK
<1>7. CASE HbJudge
  <2>1. pc' \in [Thread -> Label] /\ todo' \in [Thread -> Seq(Call)]
    BY <1>2, <1>3, <1>7, MainInThread, GotoType, RunType, RoundType DEF HbJudge
  <2> QED
    BY <1>1, <1>7, <2>1, MainInThread, KernelTypes, MainUnchanged
    DEF HbJudge, TasksTypeOK, TypeOK, MainTypeOK
<1>8. CASE HbRaise
  <2>1. /\ UNCHANGED <<queue, task_state, hbt_rsp, hb_buffer, alarm, linked>>
        /\ MainTypeOK'
    BY <1>1, <1>8 DEF HbRaise, MainTypeOK, Stopped
  <2>2. CASE Die
    BY <1>1, <2>1, <2>2, DieType DEF TasksTypeOK, TypeOK, MainTypeOK
  <2>3. CASE ~Die
    <3>1. /\ Run("main", "round", RoundScript)
          /\ pending' = Raised("main")
          /\ UNCHANGED <<registered, in_buffer, process, out_file>>
      BY <1>8, <2>3 DEF HbRaise
    <3>2. pc' \in [Thread -> Label] /\ todo' \in [Thread -> Seq(Call)]
      BY <1>2, <1>3, <3>1, MainInThread, RunType, RoundType
    <3>3. MQTypeOK'
      BY <1>1, <2>1, <3>1, MainInThread, RaisedType DEF MQTypeOK
    <3>4. TasksTypeOK'
      BY <1>1, <2>1, <3>1, <3>2 DEF TasksTypeOK
    <3> QED
      BY <2>1, <3>3, <3>4 DEF TypeOK, MainTypeOK
  <2> QED
    BY <2>2, <2>3
<1> QED
  BY <1>4, <1>5, <1>6, <1>7, <1>8

(***************************************************************************)
(* Stop signals.                                                           *)
(***************************************************************************)
\* An interrupted call goes on with a script made of what was left.
LEMMA InterruptedRuns ==
  ASSUME TypeOK, NEW t \in Thread, Blocked(t), Interrupted(t)
  PROVE  \E script \in Seq(Call) : Run(t, ErrnoOverwritten(pc[t]), script)
<1>1. todo[t] \in Seq(Call) /\ todo[t] # <<>>
  BY DEF TypeOK, TasksTypeOK, Blocked
<1>2. Tail(todo[t]) \in Seq(Call)
  BY <1>1, HeadTailProperties
<1>3. <<Log>> \o Tail(todo[t]) \in Seq(Call)
  BY <1>2, RequestTypes, ConcatType
<1>4. \A n \in 1..Len(todo[t]) : SubSeq(todo[t], n + 1, Len(todo[t])) \in Seq(Call)
  <2> TAKE n \in 1..Len(todo[t])
  <2>1. Len(todo[t]) \in Nat /\ n + 1 \in 1..(Len(todo[t]) + 1)
    BY <1>1, LenProperties
  <2> QED
    BY <1>1, <2>1, SubSeqProperties
<1> QED
  BY <1>1, <1>2, <1>3, <1>4 DEF Interrupted

\* Where an interrupted call leaves its thread.
LEMMA InterruptedType ==
  ASSUME TypeOK, NEW t \in Thread, Blocked(t), Interrupted(t)
  PROVE  /\ pc' \in [Thread -> Label]
         /\ todo' \in [Thread -> Seq(Call)]
         /\ \E label \in {pc[t], ErrnoOverwritten(pc[t])} : pc'[t] \in {label, Continue[label]}
         /\ \A u \in Thread : u # t => pc'[u] = pc[u]
<1>1. PICK script \in Seq(Call) : Run(t, ErrnoOverwritten(pc[t]), script)
  BY InterruptedRuns
<1>2. ErrnoOverwritten(pc[t]) \in Calling
  BY ErrnoType DEF Blocked
<1> QED
  BY <1>1, <1>2, RunType DEF TypeOK, TasksTypeOK

\* A stop signal keeps all types, whichever thread handles it.
LEMMA SignalType ==
  ASSUME TypeOK, NEW s, UserSignal(s)
  PROVE  TypeOK'
<1>1. MQTypeOK /\ TasksTypeOK /\ MainTypeOK
  BY TypeParts
<1>2. UNCHANGED <<task_state, hbt_rsp, hb_buffer, alarm, linked>>
  BY DEF UserSignal
<1>3. MainTypeOK'
  BY <1>1 DEF UserSignal, handleCtrlC, MainTypeOK, Stopped
<1>4. CASE Die
  BY <1>1, <1>2, <1>3, <1>4, DieType DEF TasksTypeOK, TypeOK, MainTypeOK
<1>5. ASSUME NEW t \in Thread, handleCtrlC(t), ~Die
      PROVE  TypeOK'
  <2>1. /\ pending' = IF t = "main" THEN Raised(t) ELSE pending
        /\ UNCHANGED <<pc, todo>> \/ (Blocked(t) /\ Interrupted(t))
        /\ UNCHANGED <<queue, registered, in_buffer, process, out_file>>
    BY <1>5 DEF handleCtrlC
  <2>2. pc' \in [Thread -> Label] /\ todo' \in [Thread -> Seq(Call)]
    BY <1>1, <2>1, InterruptedType DEF TasksTypeOK
  <2>3. MQTypeOK'
    BY <1>1, <2>1, RaisedType DEF MQTypeOK
  <2>4. TasksTypeOK'
    BY <1>1, <1>2, <2>1, <2>2 DEF TasksTypeOK
  <2> QED
    BY <1>3, <2>3, <2>4 DEF TypeOK, MainTypeOK
<1> QED
  BY <1>4, <1>5 DEF UserSignal

\* A client's command is a message of the protocol.
LEMMA ClientType ==
  ASSUME TypeOK, NEW t \in Thread, ClientSend(t)
  PROVE  TypeOK'
<1>1. ClientCommand[t] \in Message
  <2>1. t \in {"temp", "light", "logger", "main"}
    BY TaskAssumption DEF Thread
  <2> QED
    BY <2>1 DEF ClientCommand, Message, Msg
<1>2. MQTypeOK'
  BY <1>1, SendType DEF ClientSend, TypeOK
<1>3. TasksTypeOK'
  BY DEF ClientSend, TypeOK, TasksTypeOK, taskVars
<1>4. MainTypeOK'
  BY MainUnchanged DEF ClientSend, TypeOK, MainTypeOK
<1> QED
  BY <1>2, <1>3, <1>4 DEF TypeOK, MainTypeOK

\* A message of an ended server is one too.
LEMMA LeftoverType ==
  ASSUME NEW m \in Message
  PROVE  /\ Leftover(m) \in Message
         /\ Leftover(m).id = m.id
BY DEF Leftover, ByAddress, Message

\* What the next server finds, or makes, in place of the queue of one thread.
LEMMA LeftoverSeq ==
  ASSUME NEW q \in Seq(Message)
  PROVE  /\ [i \in DOMAIN q |-> Leftover(q[i])] \in Seq(Message)
         /\ Len([i \in DOMAIN q |-> Leftover(q[i])]) = Len(q)
         /\ DOMAIN [i \in DOMAIN q |-> Leftover(q[i])] = DOMAIN q
<1> DEFINE left == [i \in DOMAIN q |-> Leftover(q[i])]
<1>1. Len(q) \in Nat /\ DOMAIN q = 1..Len(q)
  BY LenProperties
<1>2. \A i \in 1..Len(q) : Leftover(q[i]) \in Message
  BY ElementOfSeq, LeftoverType
<1>3. left \in [1..Len(q) -> Message]
  BY <1>1, <1>2
<1>4. left \in Seq(Message)
  BY <1>1, <1>3, SeqDef
<1>5. DOMAIN left = 1..Len(q)
  BY <1>3
<1> HIDE DEF left
<1>6. Len(left) = Len(q)
  BY <1>1, <1>4, <1>5, LenProperties
<1> QED
  BY <1>1, <1>4, <1>5, <1>6 DEF left

\* A new server starts with the types of the first one.
LEMMA RestartType ==
  ASSUME TypeOK, Restart
  PROVE  TypeOK'
<1>1. queue \in [Thread -> Seq(Message)] /\ \A t \in Thread : Len(queue[t]) <= Capacity
  BY DEF TypeOK, MQTypeOK
<1>2. queue' \in [Thread -> Seq(Message)] /\ \A t \in Thread : Len(queue'[t]) <= Capacity
  <2>1. CASE linked
    <3>1. queue' = [t \in Thread |-> [i \in DOMAIN queue[t] |-> Leftover(queue[t][i])]]
      BY <2>1 DEF Restart
    <3>2. ASSUME NEW t \in Thread
          PROVE  /\ [i \in DOMAIN queue[t] |-> Leftover(queue[t][i])] \in Seq(Message)
                 /\ Len([i \in DOMAIN queue[t] |-> Leftover(queue[t][i])]) <= Capacity
      <4>1. queue[t] \in Seq(Message) /\ Len(queue[t]) <= Capacity
        BY <1>1
      <4> QED
        BY <4>1, LeftoverSeq
    <3> QED
      BY <3>1, <3>2
  <2>2. CASE ~linked
    <3>1. queue' = [t \in Thread |-> <<>>]
      BY <2>2 DEF Restart
    <3> QED
      BY <3>1, EmptySeq, CapacityAssumption
  <2> QED
    BY <2>1, <2>2
<1>3. MQTypeOK'
  BY <1>2, SignalLimitAssumption DEF Restart, MQTypeOK
<1>4. "setup" \in Label
  BY DEF Label, Calling, Continue
<1>5. TasksTypeOK'
  BY <1>4, FirstScriptTypes DEF Restart, TasksTypeOK
<1>6. MainTypeOK'
  BY DEF Restart, MainTypeOK, Stopped
<1> QED
  BY <1>3, <1>5, <1>6 DEF TypeOK, MainTypeOK

\* Every step keeps the types of all variables.
LEMMA NextType == TypeOK /\ [Next]_vars => TypeOK'
<1> SUFFICES ASSUME TypeOK, [Next]_vars PROVE TypeOK'
  OBVIOUS
<1>1. MQTypeOK /\ TasksTypeOK /\ MainTypeOK
  BY TypeParts
<1>2. CASE MainStep
  <2>1. CASE CommonCall("main") /\ UNCHANGED mainVars
    BY <1>1, <2>1, MainInThread, CommonCallType, MainUnchanged DEF TypeOK, MainTypeOK
  <2> QED
    BY <1>2, <2>1, MainCallType, MainLoopType, HeartbeatType DEF MainStep
<1>3. ASSUME NEW t \in Task, ServerTask(t) PROVE TypeOK'
  BY <1>1, <1>3, TaskStepType, MainUnchanged DEF ServerTask, TypeOK, MainTypeOK
<1>4. ASSUME NEW s \in StopSignals, UserSignal(s) PROVE TypeOK'
  BY <1>4, SignalType
<1>5. ASSUME NEW t \in ClientTargets, ClientSend(t) PROVE TypeOK'
  BY <1>5, ClientType, ClientTargetsAssumption
<1>6. CASE UNCHANGED vars
  BY <1>6 DEF vars, mqVars, taskVars, mainVars, TypeOK, MQTypeOK, TasksTypeOK
<1>7. CASE Restart
  BY <1>7, RestartType
<1> QED
  BY <1>2, <1>3, <1>4, <1>5, <1>6, <1>7 DEF Next, ServerStep, Terminated

(***************************************************************************)
(* The variables always have their types: no queue outgrows its capacity,  *)
(* no signal is queued beyond the limit, and every script a thread runs,   *)
(* also after an interrupted call, consists of well-formed calls.          *)
(***************************************************************************)
THEOREM TypeCorrect == Spec => []TypeOK
<1>1. Init => TypeOK
  BY InitType
<1>2. TypeOK /\ [Next]_vars => TypeOK'
  BY NextType
<1> QED
  BY <1>1, <1>2, PTL DEF Spec

(***************************************************************************)
(* No lost wake-up.  WakeupInv is the conjunction of Awake(t) over all     *)
(* threads; each step is shown to keep Awake of the thread that takes it   *)
(* and not to spoil that of the others.                                    *)
(***************************************************************************)
Awake(t) ==
  /\ pc[t] = "setup" => in_buffer[t] = NoMessage
  /\ pc[t] \in {"receive", "handle", "hb_receive", "hb_handle"} => Listening(t)
  /\ pc[t] \in {"again", "hb_again", "check", "verdict", "judge", "raise"} => Watching(t)
  /\ pc[t] \in {"loop", "sigwait", "tick", "startup", "round"}
       => in_buffer[t] = NoMessage \/ Watching(t)

\* What wakes thread t is not lost in this step.
Kept(t) == (Listening(t) => Listening(t)') /\ (Watching(t) => Watching(t)')

\* The invariant, thread by thread.
LEMMA AwakeAll == WakeupInv <=> \A t \in Thread : Awake(t)
BY DEF WakeupInv, Awake

\* What watches for any message also listens for the next.
LEMMA WatchingListens == \A t : Watching(t) => Listening(t)
BY DEF Watching, Listening

\* No operation on a kernel object loses a wake-up, except a thread's own
\* sigwait; that one is followed by mq_notify.
LEMMA SendKeeps ==
  ASSUME MQTypeOK, NEW to \in Thread, NEW m \in Message, mq_send(to, m), NEW u \in Thread
  PROVE  Kept(u)
<1>1. pending[u] > 0 => pending'[u] > 0
  BY RaisedType DEF MQTypeOK, mq_send
<1>2. CASE u = to /\ queue[to] = <<>> /\ registered[to]
  <2>1. pending'[u] > 0
    BY <1>2, RaisedType DEF MQTypeOK, mq_send
  <2> QED
    BY <2>1 DEF Kept, Listening, Watching
<1>3. CASE u = to /\ ~(queue[to] = <<>> /\ registered[to])
  BY <1>1, <1>3 DEF Kept, Listening, Watching, mq_send
<1>4. CASE u # to
  <2>1. queue'[u] = queue[u] /\ registered'[u] = registered[u]
    BY <1>4 DEF MQTypeOK, mq_send
  <2> QED
    BY <1>1, <2>1 DEF Kept, Listening, Watching
<1> QED
  BY <1>2, <1>3, <1>4

\* Reading a message loses no wake-up, not even the reader's own.
LEMMA ReceiveKeeps ==
  ASSUME MQTypeOK, NEW t \in Thread, mq_receive(t), NEW u \in Thread
  PROVE  Kept(u)
<1>1. registered' = registered /\ pending' = pending /\ queue[t] # <<>>
  BY DEF mq_receive
<1>2. u # t => queue'[u] = queue[u]
  BY DEF MQTypeOK, mq_receive
<1> QED
  BY <1>1, <1>2 DEF Kept, Listening, Watching

\* Neither do registering, raising a signal and another thread's sigwait.
LEMMA KernelKeeps ==
  ASSUME MQTypeOK, NEW t \in Thread, NEW u \in Thread,
         \/ pthread_kill(t) \/ mq_notify(t) \/ UNCHANGED mqVars
         \/ pending' = Raised(t) /\ UNCHANGED <<queue, registered>>
         \/ sigwait(t) /\ u # t
  PROVE  Kept(u)
<1>1. CASE pending' = Raised(t) /\ UNCHANGED <<queue, registered>>
  BY <1>1, RaisedType DEF MQTypeOK, Kept, Listening, Watching
<1>2. CASE pthread_kill(t)
  BY <1>1, <1>2 DEF pthread_kill
<1>3. CASE mq_notify(t)
  BY <1>3 DEF MQTypeOK, mq_notify, Kept, Listening, Watching
<1>4. CASE UNCHANGED mqVars
  BY <1>4 DEF mqVars, Kept, Listening, Watching
<1>5. CASE sigwait(t) /\ u # t
  BY <1>5 DEF MQTypeOK, sigwait, Kept, Listening, Watching
<1> QED
  BY <1>1, <1>2, <1>3, <1>4, <1>5

\* A thread that stays where it is keeps what it had.
LEMMA StandsStill ==
  ASSUME NEW u \in Thread, Awake(u), Kept(u), pc'[u] = pc[u], in_buffer'[u] = in_buffer[u]
  PROVE  Awake(u)'
BY WatchingListens DEF Awake, Kept

\* A thread that makes a call of a stretch, and with that perhaps ends it.
LEMMA CallMoves ==
  ASSUME NEW t \in Thread, Awake(t), Kept(t), in_buffer'[t] = in_buffer[t],
         pc[t] \in Calling,
         NEW label \in {pc[t], ErrnoOverwritten(pc[t])},
         pc'[t] \in {label, Continue[label]}
  PROVE  Awake(t)'
<1>1. /\ Continue["setup"] = "loop" /\ Continue["handle"] = "receive"
      /\ Continue["again"] = "loop" /\ Continue["teardown"] = "ended"
      /\ Continue["hb_handle"] = "hb_receive" /\ Continue["hb_again"] = "check"
      /\ Continue["verdict"] = "judge" /\ Continue["round"] = "loop"
  BY DEF Continue
<1>2. pc[t] \in {"setup", "handle", "again", "teardown", "hb_handle", "hb_again",
                 "verdict", "round"}
  BY DEF Calling, Continue
<1>3. Listening(t) \/ Watching(t) => Listening(t)'
  BY WatchingListens DEF Kept
<1>4. Watching(t) => Watching(t)'
  BY DEF Kept
<1> QED
  BY <1>1, <1>2, <1>3, <1>4 DEF Awake, ErrnoOverwritten

\* mq_notify leaves the thread listening, and watching if its queue is empty.
LEMMA NotifyListens ==
  ASSUME MQTypeOK, NEW t \in Thread, mq_notify(t)
  PROVE  Listening(t)'
BY DEF MQTypeOK, mq_notify, Listening

\* A thread of a dead process is never asleep on messages.
LEMMA DieAwake ==
  ASSUME Die, NEW u \in Thread
  PROVE  Awake(u)'
<1>1. pc'[u] = "ended"
  BY DEF Die
<1> QED
  BY <1>1 DEF Awake

\* Calls any thread makes keep every thread's invariant.
LEMMA CommonCallAwake ==
  ASSUME TypeOK, NEW t \in Thread, CommonCall(t), \A u \in Thread : Awake(u)
  PROVE  \A u \in Thread : Awake(u)'
<1>1. /\ MQTypeOK /\ pc \in [Thread -> Label] /\ todo \in [Thread -> Seq(Call)]
      /\ pc[t] \in Calling /\ todo[t] # <<>>
  BY DEF TypeOK, TasksTypeOK, CommonCall
<1>2. /\ NextCall(t).to \in Thread
      /\ NextCall(t).call = "mq_send" => NextCall(t).msg \in Message
      /\ Tail(todo[t]) \in Seq(Call)
  BY <1>1, NextCallType
<1>3. CASE Die
  BY <1>3, DieAwake
<1>4. ASSUME ~Die, NEW u \in Thread
      PROVE  Awake(u)'
  <2>1. in_buffer' = in_buffer
    BY <1>4 DEF CommonCall, CallSend, CallKill, CallNotify, CallMayDie, CallI2C,
        CallOpenLog, CallWriteLog
  <2>2. Kept(u)
    BY <1>1, <1>2, <1>4, SendKeeps, KernelKeeps
    DEF CommonCall, CallSend, CallKill, CallNotify, CallMayDie, CallI2C,
        CallOpenLog, CallWriteLog
  <2>3. PICK label \in {pc[t], ErrnoOverwritten(pc[t])}, script \in Seq(Call) :
          Run(t, label, script)
    <3>1. CASE Return(t)
      BY <1>2, <3>1 DEF Return
    <3>2. CASE \E n \in 1..MaxSensorErrors :
                 Run(t, ErrnoOverwritten(pc[t]), Repeat(Log, n) \o Tail(todo[t]))
      <4>1. PICK n \in 1..MaxSensorErrors :
                   Run(t, ErrnoOverwritten(pc[t]), Repeat(Log, n) \o Tail(todo[t]))
        BY <3>2
      <4>2. Repeat(Log, n) \o Tail(todo[t]) \in Seq(Call)
        BY <1>2, RepeatType, ConcatType, MaxSensorErrorsAssumption
      <4> QED
        BY <4>1, <4>2
    <3> QED
      BY <1>4, <3>1, <3>2 DEF CommonCall, CallSend, CallKill, CallNotify, CallMayDie, CallI2C,
        CallOpenLog, CallWriteLog
  <2>4. label \in Calling
    BY <1>1, ErrnoType
  <2>5. /\ pc'[t] \in {label, Continue[label]}
        /\ \A v \in Thread : v # t => pc'[v] = pc[v]
    BY <1>1, <2>3, <2>4, RunType
  <2>6. CASE u = t
    BY <1>1, <2>1, <2>2, <2>5, <2>6, CallMoves
  <2>7. CASE u # t
    BY <2>1, <2>2, <2>5, <2>7, StandsStill
  <2> QED
    BY <2>6, <2>7
<1> QED
  BY <1>3, <1>4

\* The steps of a task's loop.
LEMMA TaskAwake ==
  ASSUME TypeOK, NEW t \in Task, TaskStep(t), \A u \in Thread : Awake(u)
  PROVE  \A u \in Thread : Awake(u)'
<1>1. MQTypeOK /\ pc \in [Thread -> Label] /\ todo \in [Thread -> Seq(Call)] /\ t \in Thread
  BY DEF TypeOK, TasksTypeOK, Thread
<1>2. in_buffer \in [Thread -> Message \cup {NoMessage}]
  BY DEF TypeOK, TasksTypeOK
<1>3. /\ {"teardown", "handle", "again"} \subseteq Calling
      /\ {"sigwait", "notify", "receive"} \subseteq Label
      /\ Continue["teardown"] = "ended" /\ Continue["handle"] = "receive"
      /\ Continue["again"] = "loop"
  BY DEF Calling, Continue, Label
<1>4. CASE CommonCall(t)
  BY <1>1, <1>4, CommonCallAwake
<1>5. CASE TaskLoop(t)
  <2>1. /\ pc[t] = "loop" /\ in_buffer' = in_buffer
        /\ \A u \in Thread : Kept(u)
    BY <1>1, <1>5, KernelKeeps DEF TaskLoop
  <2>2. /\ pc'[t] \in {"sigwait", "teardown", "ended"}
        /\ \A u \in Thread : u # t => pc'[u] = pc[u]
    BY <1>1, <1>3, <1>5, GotoType, RunType, ScriptTypes DEF TaskLoop
  <2>3. Awake(t)'
    BY <1>1, <2>1, <2>2 DEF Awake, Kept
  <2> QED
    BY <2>1, <2>2, <2>3, StandsStill
<1>6. CASE TaskSigwait(t)
  <2>1. /\ pc'[t] = "notify" /\ in_buffer' = in_buffer
        /\ \A u \in Thread : u # t => pc'[u] = pc[u] /\ Kept(u)
    BY <1>1, <1>3, <1>6, GotoType, KernelKeeps DEF TaskSigwait
  <2>2. Awake(t)'
    BY <2>1 DEF Awake
  <2> QED
    BY <2>1, <2>2, StandsStill
<1>7. CASE TaskNotify(t)
  <2>1. /\ pc'[t] = "receive" /\ in_buffer' = in_buffer /\ Listening(t)'
        /\ \A u \in Thread : Kept(u) /\ (u # t => pc'[u] = pc[u])
    BY <1>1, <1>3, <1>7, GotoType, KernelKeeps, NotifyListens DEF TaskNotify
  <2>2. Awake(t)'
    BY <2>1 DEF Awake
  <2> QED
    BY <2>1, <2>2, StandsStill
<1>8. CASE TaskReceive(t)
  <2>1. /\ pc[t] = "receive" /\ \A u \in Thread : Kept(u)
        /\ \A u \in Thread : u # t => in_buffer'[u] = in_buffer[u]
    BY <1>1, <1>2, <1>8, ReceiveKeeps DEF TaskReceive
  <2>2. /\ pc'[t] \in {"handle", "receive"}
        /\ \A u \in Thread : u # t => pc'[u] = pc[u]
    BY <1>1, <1>3, <1>8, RunType, ScriptTypes DEF TaskReceive
  <2>3. Awake(t)'
    BY <1>1, <2>1, <2>2 DEF Awake, Kept
  <2> QED
    BY <2>1, <2>2, <2>3, StandsStill
<1>9. CASE TaskReceiveEmpty(t)
  <2>1. /\ pc[t] = "receive" /\ queue[t] = <<>> /\ in_buffer' = in_buffer
        /\ \A u \in Thread : Kept(u)
    BY <1>1, <1>9, KernelKeeps DEF TaskReceiveEmpty
  <2>2. PICK m \in BufferReadings(t) : Run(t, "again", Script(t, m))
    BY <1>9 DEF TaskReceiveEmpty
  <2>3. /\ pc'[t] \in {"again", "loop"}
        /\ \A u \in Thread : u # t => pc'[u] = pc[u]
    BY <1>1, <1>3, <2>2, RunType, ScriptTypes
  <2>4. Watching(t) /\ Watching(t)'
    BY <1>1, <2>1 DEF Awake, Kept, Listening, Watching
  <2>5. Awake(t)'
    BY <2>3, <2>4 DEF Awake
  <2> QED
    BY <2>1, <2>3, <2>5, StandsStill
<1> QED
  BY <1>4, <1>5, <1>6, <1>7, <1>8, <1>9 DEF TaskStep

\* Calls only main makes.
LEMMA MainCallAwake ==
  ASSUME TypeOK, \A u \in Thread : Awake(u),
         CallStop \/ CallSetError \/ CallAlarm \/ CallUnlink \/ CallJoin \/ CallExit
  PROVE  \A u \in Thread : Awake(u)'
<1>1. /\ MQTypeOK /\ pc \in [Thread -> Label] /\ todo \in [Thread -> Seq(Call)]
      /\ pc["main"] \in Calling /\ todo["main"] # <<>>
  BY DEF TypeOK, TasksTypeOK, CallStop, CallSetError, CallAlarm, CallUnlink, CallJoin,
         CallExit, MainCall
<1>2. CASE Die
  BY <1>2, DieAwake
<1>3. CASE ~Die
  <2>1. Return("main") /\ in_buffer' = in_buffer
    BY <1>3 DEF CallStop, CallSetError, CallAlarm, CallUnlink, CallJoin, CallExit
  <2>2. Target \in Thread
    BY <1>1, MainInThread, NextCallType DEF Target
  <2>3. \A u \in Thread : u # "main" \/ ~CallUnlink => Kept(u)
    <3>1. CASE CallUnlink
      BY <1>1, <3>1 DEF CallUnlink, MQTypeOK, Kept, Listening, Watching
    <3>2. CASE ~CallUnlink
      BY <1>1, <1>3, <2>2, <3>2, KernelKeeps
      DEF CallStop, CallSetError, CallAlarm, CallJoin, CallExit
    <3> QED
      BY <3>1, <3>2
  <2>4. /\ pc'["main"] \in {pc["main"], Continue[pc["main"]]}
        /\ \A u \in Thread : u # "main" => pc'[u] = pc[u]
    BY <1>1, <2>1, MainInThread, ReturnType
  <2>5. Awake("main")'
    <3>1. CASE CallUnlink
      <4>1. pc'["main"] \in {"teardown", "ended"}
        BY <2>4, <3>1 DEF CallUnlink, Continue
      <4> QED
        BY <4>1 DEF Awake
    <3>2. CASE ~CallUnlink
      BY <1>1, <2>1, <2>3, <2>4, <3>2, MainInThread, CallMoves
    <3> QED
      BY <3>1, <3>2
  <2> QED
    BY <2>1, <2>3, <2>4, <2>5, StandsStill
<1> QED
  BY <1>2, <1>3

\* Main's loop, except for its two drains.
LEMMA MainLoopAwake ==
  ASSUME TypeOK, \A u \in Thread : Awake(u),
         MainLoop \/ MainSigwait \/ MainTimer \/ MainNotify \/ MainTick \/ MainStartup
  PROVE  \A u \in Thread : Awake(u)'
<1>1. /\ MQTypeOK /\ pc \in [Thread -> Label] /\ todo \in [Thread -> Seq(Call)]
      /\ in_buffer \in [Thread -> Message \cup {NoMessage}]
  BY DEF TypeOK, TasksTypeOK
<1>2. /\ {"teardown", "round"} \subseteq Calling
      /\ {"sigwait", "notify", "receive", "tick", "startup", "hb_receive"} \subseteq Label
      /\ Continue["teardown"] = "ended" /\ Continue["round"] = "loop"
  BY DEF Calling, Continue, Label
<1>3. Awake("main") /\ "main" \in Thread
  BY MainInThread
<1>4. CASE MainLoop
  <2>1. pc["main"] = "loop" /\ in_buffer' = in_buffer /\ \A u \in Thread : Kept(u)
    BY <1>1, <1>4, KernelKeeps DEF MainLoop
  <2>2. /\ pc'["main"] \in {"sigwait", "teardown", "ended"}
        /\ \A u \in Thread : u # "main" => pc'[u] = pc[u]
    BY <1>1, <1>2, <1>3, <1>4, GotoType, RunType, MainTeardownType DEF MainLoop
  <2>3. Awake("main")'
    BY <1>3, <2>1, <2>2 DEF Awake, Kept
  <2> QED
    BY <2>1, <2>2, <2>3, StandsStill
<1>5. CASE MainSigwait
  <2>1. /\ pc'["main"] = "notify" /\ in_buffer' = in_buffer
        /\ \A u \in Thread : u # "main" => pc'[u] = pc[u] /\ Kept(u)
    BY <1>1, <1>2, <1>3, <1>5, GotoType, KernelKeeps DEF MainSigwait
  <2>2. Awake("main")'
    BY <2>1 DEF Awake
  <2> QED
    BY <2>1, <2>2, StandsStill
<1>6. CASE MainTimer
  <2>1. pc["main"] = "sigwait" /\ in_buffer' = in_buffer /\ \A u \in Thread : Kept(u)
    BY <1>1, <1>6, KernelKeeps DEF MainTimer
  <2>2. pc'["main"] = "tick" /\ \A u \in Thread : u # "main" => pc'[u] = pc[u]
    BY <1>1, <1>2, <1>3, <1>6, GotoType DEF MainTimer
  <2>3. Awake("main")'
    BY <1>3, <2>1, <2>2 DEF Awake, Kept
  <2> QED
    BY <2>1, <2>2, <2>3, StandsStill
<1>7. CASE MainNotify
  <2>1. /\ Listening("main")' /\ \A u \in Thread : Kept(u)
        /\ \A u \in Thread : u # "main" => in_buffer'[u] = in_buffer[u]
    BY <1>1, <1>3, <1>7, NotifyListens, KernelKeeps DEF MainNotify
  <2>2. pc'["main"] = "receive" /\ \A u \in Thread : u # "main" => pc'[u] = pc[u]
    BY <1>1, <1>2, <1>3, <1>7, GotoType DEF MainNotify
  <2>3. Awake("main")'
    BY <2>1, <2>2 DEF Awake
  <2> QED
    BY <2>1, <2>2, <2>3, StandsStill
<1>8. CASE MainTick
  <2>1. /\ pc["main"] = "tick" /\ in_buffer' = in_buffer
        /\ Listening("main")' /\ \A u \in Thread : Kept(u)
    BY <1>1, <1>3, <1>8, NotifyListens, KernelKeeps DEF MainTick
  <2>2. /\ pc'["main"] \in {"startup", "hb_receive", "round", "loop"}
        /\ \A u \in Thread : u # "main" => pc'[u] = pc[u]
    BY <1>1, <1>2, <1>3, <1>8, GotoType, RunType, MainScriptTypes DEF MainTick
  <2>3. Awake("main")'
    BY <1>3, <2>1, <2>2 DEF Awake, Kept
  <2> QED
    BY <2>1, <2>2, <2>3, StandsStill
<1>9. CASE MainStartup
  <2>1. pc["main"] = "startup" /\ in_buffer' = in_buffer /\ \A u \in Thread : Kept(u)
    BY <1>1, <1>3, <1>9, KernelKeeps DEF MainStartup
  <2>2. /\ pc'["main"] \in {"round", "loop"}
        /\ \A u \in Thread : u # "main" => pc'[u] = pc[u]
    BY <1>1, <1>2, <1>3, <1>9, RunType, StartupType DEF MainStartup
  <2>3. Awake("main")'
    BY <1>3, <2>1, <2>2 DEF Awake, Kept
  <2> QED
    BY <2>1, <2>2, <2>3, StandsStill
<1> QED
  BY <1>4, <1>5, <1>6, <1>7, <1>8, <1>9

\* Main's two drains, in its loop and in processHeartbeats, and the verdict.
LEMMA DrainAwake ==
  ASSUME TypeOK, \A u \in Thread : Awake(u),
         \/ MainReceive \/ MainReceiveEmpty \/ HbReceive \/ HbReceiveEmpty
         \/ HbCheck \/ HbJudge \/ HbRaise
  PROVE  \A u \in Thread : Awake(u)'
<1>1. /\ MQTypeOK /\ pc \in [Thread -> Label] /\ todo \in [Thread -> Seq(Call)]
      /\ in_buffer \in [Thread -> Message \cup {NoMessage}]
  BY DEF TypeOK, TasksTypeOK
<1>2. /\ {"handle", "again", "hb_handle", "hb_again", "verdict", "round"} \subseteq Calling
      /\ Continue["handle"] = "receive" /\ Continue["again"] = "loop"
      /\ Continue["hb_handle"] = "hb_receive" /\ Continue["hb_again"] = "check"
      /\ Continue["verdict"] = "judge" /\ Continue["round"] = "loop"
      /\ "raise" \in Label
  BY DEF Calling, Continue, Label
<1>3. Awake("main") /\ "main" \in Thread
  BY MainInThread
<1>4. CASE MainReceive \/ HbReceive
  <2>1. /\ pc["main"] \in {"receive", "hb_receive"} /\ \A u \in Thread : Kept(u)
        /\ \A u \in Thread : u # "main" => in_buffer'[u] = in_buffer[u]
    BY <1>1, <1>3, <1>4, ReceiveKeeps DEF MainReceive, HbReceive
  <2>2. PICK label \in {"handle", "hb_handle"}, script \in Seq(Call) : Run("main", label, script)
    BY <1>4, MainScriptTypes DEF MainReceive, HbReceive
  <2>3. /\ pc'["main"] \in {"handle", "receive", "hb_handle", "hb_receive"}
        /\ \A u \in Thread : u # "main" => pc'[u] = pc[u]
    BY <1>1, <1>2, <1>3, <2>2, RunType
  <2>4. Awake("main")'
    BY <1>3, <2>1, <2>3 DEF Awake, Kept
  <2> QED
    BY <2>1, <2>3, <2>4, StandsStill
<1>5. CASE MainReceiveEmpty \/ HbReceiveEmpty
  <2>1. /\ pc["main"] \in {"receive", "hb_receive"} /\ queue["main"] = <<>>
        /\ in_buffer' = in_buffer /\ \A u \in Thread : Kept(u)
    BY <1>1, <1>3, <1>5, KernelKeeps DEF MainReceiveEmpty, HbReceiveEmpty
  <2>2. PICK label \in {"again", "hb_again"}, script \in Seq(Call) : Run("main", label, script)
    BY <1>5, MainScriptTypes DEF MainReceiveEmpty, HbReceiveEmpty
  <2>3. /\ pc'["main"] \in {"again", "loop", "hb_again", "check"}
        /\ \A u \in Thread : u # "main" => pc'[u] = pc[u]
    BY <1>1, <1>2, <1>3, <2>2, RunType
  <2>4. Watching("main")'
    BY <1>3, <2>1 DEF Awake, Kept, Listening, Watching
  <2>5. Awake("main")'
    BY <2>3, <2>4 DEF Awake
  <2> QED
    BY <2>1, <2>3, <2>5, StandsStill
<1>6. CASE HbCheck
  <2>1. pc["main"] = "check" /\ in_buffer' = in_buffer /\ \A u \in Thread : Kept(u)
    BY <1>1, <1>3, <1>6, KernelKeeps DEF HbCheck
  <2>2. /\ pc'["main"] \in {"verdict", "judge"}
        /\ \A u \in Thread : u # "main" => pc'[u] = pc[u]
    BY <1>1, <1>2, <1>3, <1>6, RunType, MainScriptTypes DEF HbCheck
  <2>3. Awake("main")'
    BY <1>3, <2>1, <2>2 DEF Awake, Kept
  <2> QED
    BY <2>1, <2>2, <2>3, StandsStill
<1>7. CASE HbJudge
  <2>1. pc["main"] = "judge" /\ in_buffer' = in_buffer /\ \A u \in Thread : Kept(u)
    BY <1>1, <1>3, <1>7, KernelKeeps DEF HbJudge
  <2>2. /\ pc'["main"] \in {"round", "loop", "raise"}
        /\ \A u \in Thread : u # "main" => pc'[u] = pc[u]
    BY <1>1, <1>2, <1>3, <1>7, GotoType, RunType, RoundType DEF HbJudge
  <2>3. Awake("main")'
    BY <1>3, <2>1, <2>2 DEF Awake, Kept
  <2> QED
    BY <2>1, <2>2, <2>3, StandsStill
<1>8. CASE HbRaise /\ ~Die
  <2>1. /\ pc["main"] = "raise" /\ UNCHANGED <<queue, registered, in_buffer>>
        /\ pending' = Raised("main")
        /\ Run("main", "round", RoundScript)
    BY <1>8 DEF HbRaise
  <2>2. \A u \in Thread : Kept(u)
    BY <1>1, <1>3, <2>1, KernelKeeps DEF mqVars
  <2>3. /\ pc'["main"] \in {"round", "loop"}
        /\ \A u \in Thread : u # "main" => pc'[u] = pc[u]
    BY <1>1, <1>2, <1>3, <2>1, RunType, RoundType
  <2>4. Awake("main")'
    BY <1>3, <2>1, <2>2, <2>3 DEF Awake, Kept
  <2> QED
    BY <2>1, <2>2, <2>3, <2>4, StandsStill
<1>9. CASE HbRaise /\ Die
  BY <1>9, DieAwake
<1> QED
  BY <1>4, <1>5, <1>6, <1>7, <1>8, <1>9

\* A stop signal, on whichever thread handleCtrlC runs.
LEMMA SignalAwake ==
  ASSUME TypeOK, \A u \in Thread : Awake(u), NEW s, UserSignal(s)
  PROVE  \A u \in Thread : Awake(u)'
<1>1. MQTypeOK
  BY DEF TypeOK
<1>2. CASE Die
  BY <1>2, DieAwake
<1>3. ASSUME NEW t \in Thread, handleCtrlC(t), ~Die
      PROVE  \A u \in Thread : Awake(u)'
  <2>1. /\ pending' = IF t = "main" THEN Raised(t) ELSE pending
        /\ UNCHANGED <<pc, todo>> \/ (Blocked(t) /\ Interrupted(t))
        /\ UNCHANGED <<queue, registered, in_buffer>>
    BY <1>3 DEF handleCtrlC
  <2>2. \A u \in Thread : Kept(u)
    BY <1>1, <2>1, KernelKeeps DEF mqVars
  <2>3. CASE UNCHANGED <<pc, todo>>
    BY <2>1, <2>2, <2>3, StandsStill
  <2>4. CASE Blocked(t) /\ Interrupted(t)
    <3>1. PICK label \in {pc[t], ErrnoOverwritten(pc[t])} : pc'[t] \in {label, Continue[label]}
      BY <2>4, InterruptedType
    <3>2. pc[t] \in Calling
      BY <2>4 DEF Blocked
    <3>3. Awake(t)'
      BY <2>1, <2>2, <3>1, <3>2, CallMoves
    <3>4. \A u \in Thread : u # t => pc'[u] = pc[u]
      BY <2>4, InterruptedType
    <3> QED
      BY <2>1, <2>2, <3>3, <3>4, StandsStill
  <2> QED
    BY <2>1, <2>3, <2>4
<1> QED
  BY <1>2, <1>3 DEF UserSignal

\* No thread has read anything at the start.
LEMMA InitAwake == Init => WakeupInv
<1> SUFFICES ASSUME Init, NEW t \in Thread PROVE Awake(t)
  BY AwakeAll
<1>1. pc[t] = "setup" /\ in_buffer[t] = NoMessage
  BY DEF Init
<1> QED
  BY <1>1 DEF Awake

\* WakeupInv is inductive relative to TypeOK.
LEMMA NextAwake == TypeOK /\ WakeupInv /\ [Next]_vars => WakeupInv'
<1> SUFFICES ASSUME TypeOK, WakeupInv, [Next]_vars PROVE WakeupInv'
  OBVIOUS
<1>1. MQTypeOK /\ \A u \in Thread : Awake(u)
  BY AwakeAll DEF TypeOK
<1>2. (\A u \in Thread : Awake(u)') => WakeupInv'
  BY DEF WakeupInv, Awake
<1>3. CASE MainStep
  BY <1>1, <1>2, <1>3, MainInThread, CommonCallAwake, MainCallAwake, MainLoopAwake, DrainAwake
  DEF MainStep
<1>4. ASSUME NEW t \in Task, ServerTask(t) PROVE WakeupInv'
  BY <1>1, <1>2, <1>4, TaskAwake DEF ServerTask
<1>5. ASSUME NEW s \in StopSignals, UserSignal(s) PROVE WakeupInv'
  BY <1>1, <1>2, <1>5, SignalAwake
<1>6. ASSUME NEW t \in ClientTargets, ClientSend(t) PROVE WakeupInv'
  <2>1. t \in Thread /\ UNCHANGED <<pc, in_buffer>> /\ mq_send(t, ClientCommand[t])
    BY <1>6, ClientTargetsAssumption DEF ClientSend, taskVars
  <2>2. ClientCommand[t] \in Message
    <3>1. t \in {"temp", "light", "logger", "main"}
      BY <2>1, TaskAssumption DEF Thread
    <3> QED
      BY <3>1 DEF ClientCommand, Message, Msg
  <2> QED
    BY <1>1, <1>2, <2>1, <2>2, SendKeeps, StandsStill
<1>7. CASE UNCHANGED vars
  BY <1>7 DEF vars, mqVars, taskVars, WakeupInv, Listening, Watching
<1>8. CASE Restart
  <2>1. ASSUME NEW t \in Thread PROVE Awake(t)'
    <3>1. pc'[t] = "setup" /\ in_buffer'[t] = NoMessage
      BY <1>8 DEF Restart
    <3> QED
      BY <3>1 DEF Awake
  <2> QED
    BY <1>2, <2>1
<1> QED
  BY <1>3, <1>4, <1>5, <1>6, <1>7, <1>8 DEF Next, ServerStep, Terminated

(***************************************************************************)
(* At every point of its loop a thread is woken by the next message, or    *)
(* has a signal to take already: the inductive form of NoLostWakeup.       *)
(***************************************************************************)
THEOREM AlwaysAwake == Spec => []WakeupInv
<1>1. Init => WakeupInv
  BY InitAwake
<1>2. TypeOK /\ WakeupInv /\ [Next]_vars => WakeupInv'
  BY NextAwake
<1> QED
  BY <1>1, <1>2, TypeCorrect, PTL DEF Spec

(***************************************************************************)
(* No thread that has drained its queue once ever sleeps in sigwait on     *)
(* messages that nobody will wake it for.                                  *)
(***************************************************************************)
THEOREM WakeupNeverLost == Spec => []NoLostWakeup
<1>1. WakeupInv => NoLostWakeup
  BY DEF WakeupInv, NoLostWakeup, Watching
<1> QED
  BY <1>1, AlwaysAwake, PTL

(***************************************************************************)
(* Mailboxes.  The queues, notifications and event loops of the tasks      *)
(* implement the mailboxes of Mailbox, across the end of a server and the  *)
(* start of the next.                                                      *)
(***************************************************************************)
\* The variables of Mailbox, in terms of the server's.
Box    == [t \in Task |-> Ids(queue[t])]
Last   == [t \in Task |-> in_buffer[t].id]
Sleeping == {t \in Task : pc[t] = "sigwait" /\ pending[t] = 0}

\* A step of the mailboxes, or one they do not see.
MailStep == [Mailboxes!MailNext]_Mailboxes!mailVars

(***************************************************************************)
(* Ids commutes with the operations on queues.                             *)
(***************************************************************************)
\* The ids of a queue are a sequence of the same length.
LEMMA IdsSeq ==
  ASSUME NEW q \in Seq(Message)
  PROVE  /\ Ids(q) \in Seq({m.id : m \in Message})
         /\ Len(Ids(q)) = Len(q)
         /\ \A i \in 1..Len(q) : Ids(q)[i] = q[i].id
<1>1. Len(q) \in Nat /\ DOMAIN q = 1..Len(q)
  BY LenProperties
<1>2. \A i \in 1..Len(q) : q[i].id \in {m.id : m \in Message}
  BY ElementOfSeq
<1>3. Ids(q) = [i \in 1..Len(q) |-> q[i].id]
  BY <1>1 DEF Ids
<1>4. Ids(q) \in [1..Len(q) -> {m.id : m \in Message}]
  BY <1>2, <1>3
<1>5. Ids(q) \in Seq({m.id : m \in Message})
  BY <1>1, <1>4, SeqDef
<1>6. DOMAIN Ids(q) = 1..Len(q)
  BY <1>3
<1>7. Len(Ids(q)) = Len(q)
  BY <1>1, <1>5, <1>6, LenProperties
<1> QED
  BY <1>3, <1>5, <1>7

\* An empty queue is an empty mailbox, and only that.
LEMMA IdsEmpty ==
  ASSUME NEW q \in Seq(Message)
  PROVE  Ids(q) = <<>> <=> q = <<>>
<1>1. Ids(q) \in Seq({m.id : m \in Message}) /\ Len(Ids(q)) = Len(q)
  BY IdsSeq
<1> QED
  BY <1>1, EmptySeq

\* A message sent is mail delivered.
LEMMA IdsAppend ==
  ASSUME NEW q \in Seq(Message), NEW m \in Message
  PROVE  Ids(Append(q, m)) = Append(Ids(q), m.id)
<1> DEFINE S == {n.id : n \in Message}
           a == Ids(Append(q, m))
           b == Append(Ids(q), m.id)
<1>1. /\ Append(q, m) \in Seq(Message) /\ Len(Append(q, m)) = Len(q) + 1
      /\ \A i \in 1..Len(q) : Append(q, m)[i] = q[i]
      /\ Append(q, m)[Len(q) + 1] = m
  BY AppendProperties
<1>2. Ids(q) \in Seq(S) /\ Len(Ids(q)) = Len(q) /\ m.id \in S /\ Len(q) \in Nat
      /\ \A i \in 1..Len(q) : Ids(q)[i] = q[i].id
  BY IdsSeq, LenProperties
<1>3. a \in Seq(S) /\ Len(a) = Len(q) + 1
      /\ \A i \in 1..Len(q) + 1 : a[i] = Append(q, m)[i].id
  BY <1>1, IdsSeq
<1>4. b \in Seq(S) /\ Len(b) = Len(q) + 1 /\ b[Len(q) + 1] = m.id
      /\ \A i \in 1..Len(q) : b[i] = q[i].id
  BY <1>2, AppendProperties
<1>5. \A i \in 1..Len(q) + 1 : a[i] = b[i]
  <2> TAKE i \in 1..Len(q) + 1
  <2>1. CASE i = Len(q) + 1
    BY <1>1, <1>3, <1>4, <2>1
  <2>2. CASE i # Len(q) + 1
    <3>1. i \in 1..Len(q)
      BY <1>2, <2>2
    <3> QED
      BY <1>1, <1>3, <1>4, <3>1
  <2> QED
    BY <2>1, <2>2
<1> HIDE DEF a, b
<1>6. a = b
  BY <1>3, <1>4, <1>5, SeqEqual
<1> QED
  BY <1>6 DEF a, b

\* A message received is mail taken.
LEMMA IdsTail ==
  ASSUME NEW q \in Seq(Message), q # <<>>
  PROVE  /\ Ids(Tail(q)) = Tail(Ids(q))
         /\ Head(Ids(q)) = Head(q).id
         /\ Ids(q) # <<>>
<1> DEFINE S == {n.id : n \in Message}
           a == Ids(Tail(q))
           b == Tail(Ids(q))
<1>1. /\ Head(q) = q[1] /\ Tail(q) \in Seq(Message) /\ Len(Tail(q)) = Len(q) - 1
      /\ \A i \in 1..Len(Tail(q)) : Tail(q)[i] = q[i + 1]
  BY HeadTailProperties
<1>2. Ids(q) \in Seq(S) /\ Len(Ids(q)) = Len(q) /\ Len(q) \in Nat /\ Ids(q) # <<>>
      /\ \A i \in 1..Len(q) : Ids(q)[i] = q[i].id
  BY IdsSeq, IdsEmpty, LenProperties
<1>3. Len(q) > 0
  BY <1>2, EmptySeq
<1>4. a \in Seq(S) /\ Len(a) = Len(q) - 1 /\ \A i \in 1..Len(q) - 1 : a[i] = q[i + 1].id
  <2>1. a \in Seq(S) /\ Len(a) = Len(Tail(q)) /\ \A i \in 1..Len(Tail(q)) : a[i] = Tail(q)[i].id
    BY <1>1, IdsSeq
  <2> QED
    BY <1>1, <1>2, <2>1
<1>5. /\ Head(Ids(q)) = Ids(q)[1] /\ b \in Seq(S) /\ Len(b) = Len(q) - 1
      /\ \A i \in 1..Len(q) - 1 : b[i] = Ids(q)[i + 1]
  BY <1>2, HeadTailProperties
<1>6. \A i \in 1..Len(q) - 1 : a[i] = b[i]
  BY <1>2, <1>4, <1>5
<1> HIDE DEF a, b
<1>7. a = b
  BY <1>4, <1>5, <1>6, SeqEqual
<1>8. Head(Ids(q)) = Head(q).id
  BY <1>1, <1>2, <1>3, <1>5
<1> QED
  BY <1>2, <1>7, <1>8 DEF a, b

\* The messages an ended server left are the mail they were.
LEMMA IdsLeftover ==
  ASSUME NEW q \in Seq(Message)
  PROVE  Ids([i \in DOMAIN q |-> Leftover(q[i])]) = Ids(q)
<1>1. \A i \in DOMAIN q : Leftover(q[i]).id = q[i].id
  BY ElementOfSeq, LeftoverType, LenProperties
<1> QED
  BY <1>1 DEF Ids

(***************************************************************************)
(* Steps of the mailboxes.                                                 *)
(***************************************************************************)
\* What the mailboxes call "nothing taken yet".
LEMMA NothingIsNone ==
  ASSUME TypeOK, NEW t \in Task
  PROVE  Last[t] # NoMessage.id <=> in_buffer[t] # NoMessage
<1>1. in_buffer[t] \in Message \cup {NoMessage}
  BY DEF TypeOK, TasksTypeOK, Thread
<1>2. \A m \in Message : m.id # NoMessage.id
  BY DEF Message, NoMessage, Msg
<1> QED
  BY <1>1, <1>2 DEF Last

\* A step that brings no mail may wake one reader, or put one that has taken
\* mail before to sleep on an empty mailbox.
LEMMA QuietStep ==
  ASSUME TypeOK, TypeOK', WakeupInv', Box' = Box, Last' = Last, NEW r \in Task,
         \A t \in Task : t # r => (t \in Sleeping)' = (t \in Sleeping)
  PROVE  MailStep
<1>1. CASE r \in Sleeping'
  <2>1. Sleeping' = Sleeping \cup {r}
    BY <1>1 DEF Sleeping
  <2>2. pc'[r] = "sigwait" /\ pending'[r] = 0
    BY <1>1 DEF Sleeping
  <2>3. in_buffer'[r] = NoMessage \/ Watching(r)'
    BY <2>2 DEF WakeupInv, Thread
  <2>4. pending'[r] = 0 => ~(pending'[r] > 0)
    OBVIOUS
  <2>5. in_buffer'[r] = NoMessage \/ queue'[r] = <<>>
    BY <2>2, <2>3, <2>4 DEF Watching
  <2>6. CASE queue'[r] = <<>>
    <3>1. Box'[r] = <<>>
      BY <2>6, IdsEmpty, EmptySeq DEF Box
    <3> QED
      BY <2>1, <3>1 DEF MailStep, Mailboxes!MailNext, Mailboxes!Sleep, Box, Last, Sleeping
  <2>7. CASE in_buffer'[r] = NoMessage
    <3>1. Last[r] = NoMessage.id
      BY <2>7 DEF Last
    <3> QED
      BY <2>1, <3>1
      DEF MailStep, Mailboxes!MailNext, Mailboxes!Sleep, Mailboxes!Started, Box, Last, Sleeping
  <2> QED
    BY <2>5, <2>6, <2>7
<1>2. CASE r \notin Sleeping'
  <2>1. Sleeping' = Sleeping \ {r}
    BY <1>2 DEF Sleeping
  <2> QED
    BY <2>1 DEF MailStep, Mailboxes!MailNext, Mailboxes!Wake, Box, Last, Sleeping
<1> QED
  BY <1>1, <1>2

\* Mail delivered wakes a sleeping reader that has taken mail before: it slept
\* on an empty queue, and registered.
LEMMA DeliverStep ==
  ASSUME TypeOK, WakeupInv, NEW r \in Thread, NEW m \in Message, mq_send(r, m),
         Last' = Last,
         \A t \in Task : (pc'[t] = "sigwait") = (pc[t] = "sigwait")
  PROVE  MailStep
<1>1. /\ queue \in [Thread -> Seq(Message)] /\ pending \in [Thread -> 0..SignalLimit]
      /\ Task \subseteq Thread
  BY DEF TypeOK, MQTypeOK, Thread
<1>2. \A t \in Thread : t # r => queue'[t] = queue[t] /\ pending'[t] = pending[t]
  BY <1>1, RaisedType DEF mq_send
<1>3. CASE r \notin Task
  <2>1. Box' = Box
    BY <1>1, <1>2, <1>3 DEF Box
  <2>2. Sleeping' = Sleeping
    BY <1>1, <1>2, <1>3 DEF Sleeping
  <2> QED
    BY <2>1, <2>2 DEF MailStep, Mailboxes!mailVars, Box, Last, Sleeping
<1>4. CASE r \in Task
  <2>1. queue'[r] = Append(queue[r], m)
    BY <1>1 DEF mq_send
  <2>2. Ids(queue'[r]) = Append(Ids(queue[r]), m.id)
    BY <1>1, <2>1, IdsAppend
  <2>3. Box' = [Box EXCEPT ![r] = Append(Box[r], m.id)]
    BY <1>1, <1>2, <1>4, <2>2 DEF Box
  <2>4. pending[r] > 0 => pending'[r] > 0
    BY <1>1, RaisedType DEF mq_send
  <2>5. Sleeping' \in {Sleeping, Sleeping \ {r}}
    <3>1. \A t \in Task : t # r => (t \in Sleeping' <=> t \in Sleeping)
      BY <1>1, <1>2 DEF Sleeping
    <3>2. r \in Sleeping' => r \in Sleeping
      <4>1. pending[r] \in 0..SignalLimit /\ SignalLimit \in Nat
        BY <1>1, SignalLimitAssumption
      <4>2. r \in Sleeping' => pc[r] = "sigwait" /\ pending'[r] = 0
        BY <1>4 DEF Sleeping
      <4>3. pending'[r] = 0 => pending[r] = 0
        BY <2>4, <4>1
      <4> QED
        BY <1>4, <4>2, <4>3 DEF Sleeping
    <3>3. Sleeping \subseteq Task /\ Sleeping' \subseteq Task
      BY DEF Sleeping
    <3> HIDE DEF Sleeping
    <3>4. Sleeping' = Sleeping \/ Sleeping' = Sleeping \ {r}
      BY <3>1, <3>2, <3>3
    <3> QED
      BY <3>4
  <2>6. Last[r] # NoMessage.id => r \notin Sleeping'
    <3>1. SUFFICES ASSUME in_buffer[r] # NoMessage, pc[r] = "sigwait" PROVE pending'[r] > 0
      BY <1>4, NothingIsNone DEF Sleeping
    <3>2. Watching(r)
      BY <1>1, <1>4, <3>1 DEF WakeupInv
    <3>3. CASE pending[r] > 0
      BY <2>4, <3>3
    <3>4. CASE registered[r] /\ queue[r] = <<>>
      BY <1>1, <3>4, RaisedType DEF mq_send
    <3> QED
      BY <3>2, <3>3, <3>4 DEF Watching
  <2>7. Sleeping' \in IF Last[r] # NoMessage.id THEN {Sleeping \ {r}} ELSE {Sleeping, Sleeping \ {r}}
    <3> HIDE DEF Sleeping, Last
    <3> QED
      BY <2>5, <2>6
  <2>8. m.id \in {n.id : n \in Message}
    OBVIOUS
  <2> QED
    BY <1>4, <2>3, <2>7, <2>8
    DEF MailStep, Mailboxes!MailNext, Mailboxes!Deliver, Mailboxes!Started, Box, Last, Sleeping
<1> QED
  BY <1>3, <1>4

\* A task that receives takes the oldest mail.
LEMMA TakeStep ==
  ASSUME TypeOK, NEW r \in Task, TaskReceive(r)
  PROVE  MailStep
<1>1. /\ queue \in [Thread -> Seq(Message)] /\ pc \in [Thread -> Label]
      /\ in_buffer \in [Thread -> Message \cup {NoMessage}]
      /\ todo \in [Thread -> Seq(Call)] /\ Task \subseteq Thread
  BY DEF TypeOK, MQTypeOK, TasksTypeOK, Thread
<1>2. /\ pc[r] = "receive" /\ queue[r] # <<>> /\ pending' = pending
      /\ queue' = [queue EXCEPT ![r] = Tail(queue[r])]
      /\ in_buffer' = [in_buffer EXCEPT ![r] = Head(queue[r])]
  BY DEF TaskReceive, mq_receive
<1>3. pc'[r] # "sigwait" /\ \A t \in Thread : t # r => pc'[t] = pc[t]
  <2>1. Script(r, Head(queue[r])) \in Seq(Call) /\ "handle" \in Calling
        /\ Continue["handle"] = "receive"
    BY ScriptTypes DEF Calling, Continue
  <2>2. pc'[r] \in {"handle", "receive"} /\ \A t \in Thread : t # r => pc'[t] = pc[t]
    BY <1>1, <2>1, RunType DEF TaskReceive
  <2> QED
    BY <2>2
<1>4. Sleeping' = Sleeping /\ r \notin Sleeping
  BY <1>1, <1>2, <1>3 DEF Sleeping
<1>5. /\ Ids(Tail(queue[r])) = Tail(Ids(queue[r])) /\ Ids(queue[r]) # <<>>
      /\ Head(Ids(queue[r])) = Head(queue[r]).id
  BY <1>1, <1>2, IdsTail
<1>6. Box' = [Box EXCEPT ![r] = Tail(Box[r])] /\ Box[r] # <<>>
  BY <1>1, <1>2, <1>5 DEF Box
<1>7. Last' = [Last EXCEPT ![r] = Head(Box[r])]
  BY <1>1, <1>2, <1>5 DEF Box, Last
<1> QED
  BY <1>4, <1>6, <1>7 DEF MailStep, Mailboxes!MailNext, Mailboxes!Take, Box, Last, Sleeping

\* The end of the process, wherever it strikes.
LEMMA CrashStep ==
  ASSUME Die
  PROVE  MailStep
<1>1. Box' = Box
  BY DEF Die, Box
<1>2. Last' = [r \in Task |-> NoMessage.id]
  BY DEF Die, Last, Thread
<1>3. Sleeping' = {}
  BY DEF Die, Sleeping, Thread
<1> QED
  BY <1>1, <1>2, <1>3 DEF MailStep, Mailboxes!MailNext, Mailboxes!Crash, Box, Last, Sleeping

\* The next server, on the queues of the last or on new ones.
LEMMA ReopenStep ==
  ASSUME TypeOK, Restart
  PROVE  MailStep
<1>1. queue \in [Thread -> Seq(Message)] /\ Task \subseteq Thread
  BY DEF TypeOK, MQTypeOK, Thread
<1>2. Last' = [r \in Task |-> NoMessage.id]
  BY <1>1 DEF Restart, Last
<1>3. Sleeping' = {}
  BY <1>1 DEF Restart, Sleeping
<1>4. Box' \in {Box, [r \in Task |-> <<>>]}
  <2>1. CASE linked
    <3>1. \A t \in Task : Ids(queue'[t]) = Ids(queue[t])
      BY <1>1, <2>1, IdsLeftover DEF Restart
    <3> QED
      BY <3>1 DEF Box
  <2>2. CASE ~linked
    <3>1. \A t \in Task : Ids(queue'[t]) = <<>>
      BY <1>1, <2>2, IdsEmpty, EmptySeq DEF Restart
    <3> QED
      BY <3>1 DEF Box
  <2> QED
    BY <2>1, <2>2
<1> QED
  BY <1>2, <1>3, <1>4 DEF MailStep, Mailboxes!MailNext, Mailboxes!Reopen, Box, Last, Sleeping

\* A step that moves no mail and concerns the sleep of at most one thread.
LEMMA SilentStep ==
  ASSUME TypeOK, TypeOK', WakeupInv', NEW r \in Thread,
         \A t \in Task : queue'[t] = queue[t] /\ in_buffer'[t] = in_buffer[t],
         \A t \in Task :
           t # r => (pc'[t] = "sigwait") = (pc[t] = "sigwait") /\ pending'[t] = pending[t]
  PROVE  MailStep
<1>1. Box' = Box /\ Last' = Last
  BY DEF Box, Last
<1>2. \A t \in Task : t # r => (t \in Sleeping)' = (t \in Sleeping)
  BY DEF Sleeping
<1>3. CASE r \in Task
  BY <1>1, <1>2, <1>3, QuietStep
<1>4. CASE r \notin Task
  <2>1. "logger" \in Task /\ \A t \in Task : t # r
    BY <1>4, TaskAssumption
  <2>2. \A t \in Task : t # "logger" => (t \in Sleeping)' = (t \in Sleeping)
    BY <1>2, <2>1
  <2> QED
    BY <1>1, <2>1, <2>2, QuietStep
<1> QED
  BY <1>3, <1>4

\* A thread that makes a call is not asleep, before or after.
LEMMA CallerAwake ==
  ASSUME TypeOK, NEW t \in Thread, pc[t] \in Calling,
         NEW label \in {pc[t], ErrnoOverwritten(pc[t])},
         NEW script \in Seq(Call), Run(t, label, script)
  PROVE  \A u \in Thread : (pc'[u] = "sigwait") = (pc[u] = "sigwait")
<1>1. pc \in [Thread -> Label] /\ todo \in [Thread -> Seq(Call)]
  BY DEF TypeOK, TasksTypeOK
<1>2. label \in Calling
  BY ErrnoType
<1>3. pc'[t] \in {label, Continue[label]} /\ \A u \in Thread : u # t => pc'[u] = pc[u]
  BY <1>1, <1>2, RunType
<1>4. \A l \in Calling : l # "sigwait" /\ Continue[l] # "sigwait"
  BY DEF Calling, Continue
<1>5. pc[t] # "sigwait" /\ pc'[t] # "sigwait"
  BY <1>2, <1>3, <1>4
<1> QED
  BY <1>3, <1>5

\* Operations on kernel objects other than queues concern one thread's signals.
LEMMA OneSignalled ==
  ASSUME TypeOK, NEW t \in Thread,
         pthread_kill(t) \/ mq_notify(t) \/ sigwait(t) \/ UNCHANGED mqVars
  PROVE  /\ queue' = queue
         /\ \A u \in Thread : u # t => pending'[u] = pending[u]
<1>1. pending \in [Thread -> 0..SignalLimit]
  BY DEF TypeOK, MQTypeOK
<1> QED
  BY <1>1, RaisedType DEF pthread_kill, mq_notify, sigwait, mqVars

\* A call any thread makes.
LEMMA CommonCallMail ==
  ASSUME TypeOK, TypeOK', WakeupInv, WakeupInv', NEW t \in Thread, CommonCall(t)
  PROVE  MailStep
<1>1. /\ pc \in [Thread -> Label] /\ todo \in [Thread -> Seq(Call)]
      /\ pc[t] \in Calling /\ todo[t] # <<>>
  BY DEF TypeOK, TasksTypeOK, CommonCall
<1>2. /\ NextCall(t).to \in Thread
      /\ NextCall(t).call = "mq_send" => NextCall(t).msg \in Message
      /\ Tail(todo[t]) \in Seq(Call)
  BY <1>1, NextCallType
<1>3. Return(t) => \A u \in Thread : (pc'[u] = "sigwait") = (pc[u] = "sigwait")
  BY <1>1, <1>2, CallerAwake DEF Return
<1>4. CASE Die
  BY <1>4, CrashStep
<1>5. CASE CallSend(t)
  <2>1. /\ mq_send(NextCall(t).to, NextCall(t).msg)
        /\ NextCall(t).msg \in Message /\ Return(t) /\ in_buffer' = in_buffer
    BY <1>2, <1>5 DEF CallSend
  <2>2. Last' = Last
    BY <2>1 DEF Last
  <2>3. \A u \in Task : (pc'[u] = "sigwait") = (pc[u] = "sigwait")
    BY <1>3, <2>1, MainInThread
  <2> QED
    BY <1>2, <2>1, <2>2, <2>3, DeliverStep
<1>6. CASE CallKill(t) \/ CallNotify(t)
  <2>1. PICK u \in Thread : pthread_kill(u) \/ mq_notify(u)
    BY <1>2, <1>6 DEF CallKill, CallNotify
  <2>2. Return(t) /\ in_buffer' = in_buffer
    BY <1>6 DEF CallKill, CallNotify
  <2>3. /\ queue' = queue
        /\ \A v \in Thread : v # u => pending'[v] = pending[v]
    BY <2>1, OneSignalled
  <2> QED
    BY <1>3, <2>2, <2>3, MainInThread, SilentStep
<1>7. CASE (CallMayDie(t) \/ CallI2C(t) \/ CallOpenLog(t) \/ CallWriteLog(t)) /\ ~Die
  <2>1. UNCHANGED <<queue, pending, in_buffer>>
    BY <1>7 DEF CallMayDie, CallI2C, CallOpenLog, CallWriteLog, mqVars
  <2>2. \A u \in Thread : (pc'[u] = "sigwait") = (pc[u] = "sigwait")
    <3>1. CASE Return(t)
      BY <1>3, <3>1
    <3>2. ASSUME NEW n \in 1..MaxSensorErrors,
                 Run(t, ErrnoOverwritten(pc[t]), Repeat(Log, n) \o Tail(todo[t]))
          PROVE  \A u \in Thread : (pc'[u] = "sigwait") = (pc[u] = "sigwait")
      <4>1. Repeat(Log, n) \o Tail(todo[t]) \in Seq(Call)
        BY <1>2, RepeatType, ConcatType, MaxSensorErrorsAssumption
      <4> QED
        BY <1>1, <3>2, <4>1, CallerAwake
    <3> QED
      BY <1>7, <3>1, <3>2 DEF CallMayDie, CallI2C, CallOpenLog, CallWriteLog
  <2> QED
    BY <2>1, <2>2, MainInThread, SilentStep
<1> QED
  BY <1>4, <1>5, <1>6, <1>7 DEF CommonCall

\* A step of a task's loop.
LEMMA TaskMail ==
  ASSUME TypeOK, TypeOK', WakeupInv, WakeupInv', NEW t \in Task, TaskStep(t)
  PROVE  MailStep
<1>1. t \in Thread /\ pc \in [Thread -> Label] /\ todo \in [Thread -> Seq(Call)]
  BY DEF TypeOK, TasksTypeOK, Thread
<1>2. CASE CommonCall(t)
  BY <1>1, <1>2, CommonCallMail
<1>3. CASE TaskReceive(t)
  BY <1>3, TakeStep
<1>4. CASE TaskLoop(t) \/ TaskSigwait(t) \/ TaskNotify(t) \/ TaskReceiveEmpty(t)
  <2>1. /\ in_buffer' = in_buffer /\ queue' = queue
        /\ \A u \in Thread : u # t => pending'[u] = pending[u]
    BY <1>1, <1>4, OneSignalled DEF TaskLoop, TaskSigwait, TaskNotify, TaskReceiveEmpty
  <2>2. \A u \in Thread : u # t => pc'[u] = pc[u]
    BY <1>1, <1>4 DEF TaskLoop, TaskSigwait, TaskNotify, TaskReceiveEmpty, Goto, Run
  <2> QED
    BY <1>1, <2>1, <2>2, MainInThread, SilentStep
<1> QED
  BY <1>2, <1>3, <1>4 DEF TaskStep

\* Main's own steps move only its own queue and its own program counter, except
\* that they may signal a task.
LEMMA MainMail ==
  ASSUME TypeOK, TypeOK', WakeupInv, WakeupInv', MainStep
  PROVE  MailStep
<1>1. /\ pc \in [Thread -> Label] /\ todo \in [Thread -> Seq(Call)]
      /\ in_buffer \in [Thread -> Message \cup {NoMessage}] /\ queue \in [Thread -> Seq(Message)]
      /\ "main" \in Thread /\ "main" \notin Task /\ Task \subseteq Thread
  BY MainInThread, TaskAssumption DEF TypeOK, MQTypeOK, TasksTypeOK
<1>2. CASE CommonCall("main")
  BY <1>1, <1>2, CommonCallMail
<1>3. CASE Die
  BY <1>3, CrashStep
<1>4. CASE (CallStop \/ CallSetError \/ CallAlarm \/ CallUnlink \/ CallJoin \/ CallExit) /\ ~Die
  <2>1. /\ pc["main"] \in Calling /\ todo["main"] # <<>> /\ Return("main")
        /\ in_buffer' = in_buffer /\ (pthread_kill(Target) \/ UNCHANGED <<queue, pending>>)
    BY <1>4 DEF mqVars, MainCall, CallStop, CallSetError, CallAlarm, CallUnlink, CallJoin, CallExit
  <2>2. Target \in Thread
    BY <1>1, <2>1, NextCallType DEF Target
  <2>3. /\ queue' = queue
        /\ \A u \in Thread : u # Target => pending'[u] = pending[u]
    BY <2>1, <2>2, OneSignalled
  <2>4. \A u \in Thread : u # "main" => pc'[u] = pc[u]
    BY <1>1, <2>1, ReturnType
  <2>5. \A u \in Task : u # "main" /\ u \in Thread
    BY <1>1
  <2>6. \A u \in Task : queue'[u] = queue[u] /\ in_buffer'[u] = in_buffer[u] /\ pc'[u] = pc[u]
    BY <2>1, <2>3, <2>4, <2>5
  <2> QED
    BY <2>2, <2>3, <2>5, <2>6, SilentStep
<1>5. CASE \/ MainLoop \/ MainSigwait \/ MainTimer \/ MainNotify \/ MainReceive
           \/ MainReceiveEmpty \/ MainTick \/ MainStartup
           \/ HbReceive \/ HbReceiveEmpty \/ HbCheck \/ HbJudge
           \/ (HbRaise /\ ~Die)
  <2>1. \A u \in Task : pc'[u] = pc[u]
    BY <1>1, <1>5
    DEF MainLoop, MainSigwait, MainTimer, MainNotify, MainReceive, MainReceiveEmpty,
        MainTick, MainStartup, HbReceive, HbReceiveEmpty, HbCheck, HbJudge,
        HbRaise, Goto, Run
  <2>2. \A u \in Task : in_buffer'[u] = in_buffer[u]
    BY <1>1, <1>5
    DEF MainLoop, MainSigwait, MainTimer, MainNotify, MainReceive, MainReceiveEmpty,
        MainTick, MainStartup, HbReceive, HbReceiveEmpty, HbCheck, HbJudge,
        HbRaise
  <2>3. \/ pthread_kill("main") \/ mq_notify("main") \/ sigwait("main")
        \/ UNCHANGED mqVars \/ mq_receive("main")
        \/ pending' = Raised("main") /\ UNCHANGED queue
    BY <1>5
    DEF MainLoop, MainSigwait, MainTimer, MainNotify, MainReceive, MainReceiveEmpty,
        MainTick, MainStartup, HbReceive, HbReceiveEmpty, HbCheck, HbJudge,
        HbRaise, mqVars
  <2>4. \A u \in Task : queue'[u] = queue[u] /\ pending'[u] = pending[u]
    <3>1. CASE mq_receive("main")
      BY <1>1, <3>1 DEF mq_receive
    <3>2. CASE pending' = Raised("main") /\ UNCHANGED queue
      BY <1>1, <3>2, RaisedType DEF TypeOK, MQTypeOK
    <3> QED
      BY <1>1, <2>3, <3>1, <3>2, OneSignalled
  <2> QED
    BY <1>1, <2>1, <2>2, <2>4, SilentStep
<1> QED
  BY <1>2, <1>3, <1>4, <1>5 DEF MainStep

\* A stop signal puts no thread to sleep and wakes none but main.
LEMMA SignalMail ==
  ASSUME TypeOK, TypeOK', WakeupInv', NEW s, UserSignal(s)
  PROVE  MailStep
<1>1. CASE Die
  BY <1>1, CrashStep
<1>2. ASSUME NEW t \in Thread, handleCtrlC(t), ~Die
      PROVE  MailStep
  <2>1. /\ pending' = IF t = "main" THEN Raised(t) ELSE pending
        /\ UNCHANGED <<pc, todo>> \/ (Blocked(t) /\ Interrupted(t))
        /\ UNCHANGED <<queue, in_buffer>>
    BY <1>2 DEF UserSignal, handleCtrlC
  <2>2. \A u \in Thread : (pc'[u] = "sigwait") = (pc[u] = "sigwait")
    <3>1. CASE Blocked(t) /\ Interrupted(t)
      <4>1. PICK script \in Seq(Call) : Run(t, ErrnoOverwritten(pc[t]), script)
        BY <3>1, InterruptedRuns
      <4> QED
        BY <3>1, <4>1, CallerAwake DEF Blocked
    <3> QED
      BY <2>1, <3>1
  <2>3. \A u \in Task : pending'[u] = pending[u]
    BY <2>1, MainInThread, TaskAssumption, RaisedType DEF TypeOK, MQTypeOK
  <2> QED
    BY <2>1, <2>2, <2>3, MainInThread, SilentStep
<1> QED
  BY <1>1, <1>2 DEF UserSignal

\* Every step of the server, its users and its clients is one of the mailboxes.
LEMMA NextMail == TypeOK /\ TypeOK' /\ WakeupInv /\ WakeupInv' /\ [Next]_vars => MailStep
<1> SUFFICES ASSUME TypeOK, TypeOK', WakeupInv, WakeupInv', [Next]_vars PROVE MailStep
  OBVIOUS
<1>1. CASE MainStep
  BY <1>1, MainMail
<1>2. ASSUME NEW t \in Task, ServerTask(t) PROVE MailStep
  BY <1>2, TaskMail DEF ServerTask
<1>3. ASSUME NEW s \in StopSignals, UserSignal(s) PROVE MailStep
  BY <1>3, SignalMail
<1>4. ASSUME NEW t \in ClientTargets, ClientSend(t) PROVE MailStep
  <2>1. /\ t \in Thread /\ mq_send(t, ClientCommand[t])
        /\ UNCHANGED <<pc, in_buffer>>
    BY <1>4, ClientTargetsAssumption DEF ClientSend, taskVars
  <2>2. ClientCommand[t] \in Message
    <3>1. t \in {"temp", "light", "logger", "main"}
      BY <2>1, TaskAssumption DEF Thread
    <3> QED
      BY <3>1 DEF ClientCommand, Message, Msg
  <2>3. Last' = Last /\ \A u \in Task : (pc'[u] = "sigwait") = (pc[u] = "sigwait")
    BY <2>1 DEF Last
  <2> QED
    BY <2>1, <2>2, <2>3, DeliverStep
<1>5. CASE Restart
  BY <1>5, ReopenStep
<1>6. CASE UNCHANGED vars
  BY <1>6 DEF vars, mqVars, taskVars, MailStep, Mailboxes!mailVars, Ids
<1> QED
  BY <1>1, <1>2, <1>3, <1>4, <1>5, <1>6 DEF Next, ServerStep, Terminated

\* The server starts with empty mailboxes and no reader asleep.
LEMMA InitMail == Init => Mailboxes!MailInit
<1> SUFFICES ASSUME Init PROVE Mailboxes!MailInit
  OBVIOUS
<1>1. \A t \in Task : Ids(queue[t]) = <<>>
  BY IdsEmpty, EmptySeq, MainInThread DEF Init, MQInit
<1>2. \A t \in Task : in_buffer[t] = NoMessage /\ pc[t] = "setup"
  BY MainInThread DEF Init
<1> QED
  BY <1>1, <1>2 DEF Mailboxes!MailInit

(***************************************************************************)
(* The queues, notifications and event loops implement the mailboxes: a    *)
(* task that has read its queue once sleeps only while the queue is empty, *)
(* and takes its messages in order and each once, also across a restart.   *)
(***************************************************************************)
THEOREM MailboxesImplemented == Spec => ImplementsMailbox
<1>1. Init => Mailboxes!MailInit
  BY InitMail
<1>2. TypeOK /\ TypeOK' /\ WakeupInv /\ WakeupInv' /\ [Next]_vars
        => [Mailboxes!MailNext]_Mailboxes!mailVars
  BY NextMail DEF MailStep
<1> QED
  BY <1>1, <1>2, TypeCorrect, AlwaysAwake, PTL DEF Spec, ImplementsMailbox, Mailboxes!MailSpec
===============================================================================
