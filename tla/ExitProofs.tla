------------------------------ MODULE ExitProofs ------------------------------
(***************************************************************************)
(* A regular exit leaves nothing behind, for every set of tasks, every     *)
(* capacity and every pattern of stop signals, clients and restarts.       *)
(***************************************************************************)
EXTENDS ServerProofs

\* The calls on the log file, which only the logger makes.
LogFileCall == {"initLogger", "fputs", "logFileChange", "fclose"}

\* The calls only main's code after the loop makes, and the messages that answer
\* a request of main.
ExitCall == {"stop", "pthread_join", "exit"}
IsReply(c) == c.call = "mq_send" /\ c.msg.id \in {"HEARTBEAT_RSP", "TEMP_VALUE", "LIGHT_VALUE"}

\* The calls thread u may have to make in stretch `label': only the logger
\* touches the log file, only the code after the loop stops threads and leaves
\* the process, only a verdict reports an error, only main's requests go to the
\* drivers, only these read sensors, a thread answers for itself, and the logger
\* sends nothing but answers.
Permitted(u, label) ==
  {c \in Call : /\ c.call \in LogFileCall => u = "logger"
                /\ c.call \in ExitCall => label = "teardown"
                /\ c.call = "set_error" => label = "verdict"
                /\ c.call = "mq_send" /\ c.to \in {"temp", "light"} => u = "main" /\ label = "round"
                /\ c.call = "i2c" => u \in {"temp", "light"}
                /\ IsReply(c) => c.to = "main" /\ c.msg.source = u
                /\ u = "logger" /\ c.call = "mq_send" => IsReply(c)}

AllPermitted == \A u \in Thread : todo[u] \in Seq(Permitted(u, pc[u]))

\* The calls of main's exit path: the only message is the one main cannot be
\* interrupted in without ending the process.
TeardownCall ==
  {c \in Call : /\ c.call \in {"mq_send", "stop", "mq_unlink", "pthread_join", "exit"}
                /\ c.call = "mq_send" => c.to = "logger" /\ c.msg.id = "FILE_CHANGE"}

\* Call c is still to come in script s.
Ahead(s, c) == \E i \in 1..Len(s) : s[i] = c

\* What is left of the exit path still ends in exit, and whatever is not done
\* yet is still ahead: the unlinking, and a join for every thread that runs.
StillToDo(s) ==
  /\ s \in Seq(TeardownCall) /\ s # <<>>
  /\ \A i \in 1..Len(s) : s[i].call = "exit" <=> i = Len(s)
  /\ linked => Ahead(s, Do("mq_unlink", "main"))
  /\ \A t \in Task : pc[t] = "ended" \/ Ahead(s, Do("pthread_join", t))

\* Where main and the logger stand on their way out.
OnTheWayOut ==
  /\ pc["main"] # "ended"
  /\ pc["main"] = "teardown" => StillToDo(todo["main"])
  /\ pc["logger"] = "teardown" => todo["logger"] = <<Do("fclose", "logger")>>
  /\ pc["logger"] = "ended" => out_file = "closed"

ExitInv == ExitReapsAll /\ (process = "up" => AllPermitted /\ OnTheWayOut)

(***************************************************************************)
(* The scripts hold permitted calls only.                                  *)
(***************************************************************************)
\* Calls only some threads make, or only at some places.
Special == LogFileCall \cup ExitCall \cup {"set_error"}

\* Calls of main's requests, of main and the drivers, of a verdict and of the
\* logger.
RoundCall   == {c \in Call : c.call \notin Special \cup {"i2c"} /\ ~IsReply(c)}
Ordinary(u) == {c \in Call : /\ c.call \notin Special
                             /\ c.call = "mq_send" => c.to \notin {"temp", "light"}
                             /\ c.call = "i2c" => u \in {"temp", "light"}
                             /\ IsReply(c) => c.to = "main" /\ c.msg.source = u /\ u # "main"}
VerdictCall == {c \in Call : c \in Ordinary("main") \/ c.call = "set_error"}
LoggerCall  == {c \in Call : /\ c.call \notin ExitCall \cup {"set_error", "i2c"}
                             /\ c.call = "mq_send" => c = Send("main", "HEARTBEAT_RSP", "logger")}

\* An ordinary call is permitted to main and the drivers everywhere; the logger
\* may use its file, and main may do more at two places.
LEMMA OrdinaryPermitted ==
  ASSUME NEW label
  PROVE  /\ \A u : u # "logger" => Seq(Ordinary(u)) \subseteq Seq(Permitted(u, label))
         /\ Seq(LoggerCall) \subseteq Seq(Permitted("logger", label))
         /\ Seq(RoundCall) \subseteq Seq(Permitted("main", "round"))
         /\ Seq(VerdictCall) \subseteq Seq(Permitted("main", "verdict"))
         /\ Seq(Ordinary("main")) \subseteq Seq(RoundCall)
<1>1. ASSUME NEW u, u # "logger" PROVE Ordinary(u) \subseteq Permitted(u, label)
  BY <1>1 DEF Ordinary, Permitted, Special
<1>2. LoggerCall \subseteq Permitted("logger", label)
  BY DEF LoggerCall, Permitted, LogFileCall, ExitCall, IsReply, Send, Msg
<1>3. /\ RoundCall \subseteq Permitted("main", "round")
      /\ Ordinary("main") \subseteq RoundCall
  BY DEF Ordinary, Permitted, RoundCall, Special
<1>4. VerdictCall \subseteq Permitted("main", "verdict")
  BY DEF Ordinary, VerdictCall, Permitted, Special, LogFileCall, ExitCall, IsReply
<1> QED
  BY <1>1, <1>2, <1>3, <1>4, SeqMonotonic

\* Sends are ordinary, and all other calls but those on the file and exit.
LEMMA OrdinaryCalls ==
  ASSUME NEW t \in Thread, NEW u
  PROVE  /\ Log \in Ordinary(u)
         /\ \A name \in CallName \ (Special \cup {"i2c"}) :
              Do(name, t) \in Ordinary(u) /\ Do(name, t) \in RoundCall
         /\ u \in {"temp", "light"} => Do("i2c", t) \in Ordinary(u)
         /\ u \in Task => Send("main", "HEARTBEAT_RSP", u) \in Ordinary(u)
         /\ u = "temp" => Send("main", "TEMP_VALUE", u) \in Ordinary(u)
         /\ u = "light" => Send("main", "LIGHT_VALUE", u) \in Ordinary(u)
         /\ Send(t, "HEARTBEAT_REQ", "main") \in RoundCall
         /\ Send(t, "TEMP_DATA_REQ", "main") \in RoundCall
         /\ Send(t, "LIGHT_DATA_REQ", "main") \in RoundCall
<1>1. \A to, id, source :
        /\ Send(to, id, source) \in Call /\ id \notin {"HEARTBEAT_RSP", "TEMP_VALUE", "LIGHT_VALUE"} =>
             /\ Send(to, id, source) \in RoundCall
             /\ to \notin {"temp", "light"} => Send(to, id, source) \in Ordinary(u)
        /\ Send(to, id, source) \in Call /\ to = "main" /\ source = u /\ u # "main" =>
             Send(to, id, source) \in Ordinary(u)
  BY DEF Ordinary, RoundCall, IsReply, Send, Msg, Special, LogFileCall, ExitCall
<1>2. \A name \in CallName : Do(name, t).call = name /\ name # "mq_send" /\ ~IsReply(Do(name, t))
  BY DEF Do, CallName, IsReply
<1>3. /\ u \in Task => Send("main", "HEARTBEAT_RSP", u) \in Ordinary(u)
      /\ u = "temp" => Send("main", "TEMP_VALUE", u) \in Ordinary(u)
      /\ u = "light" => Send("main", "LIGHT_VALUE", u) \in Ordinary(u)
  BY <1>1, CallTypes, TaskAssumption
<1>4. u \in {"temp", "light"} => Do("i2c", t) \in Ordinary(u)
  BY <1>2, CallTypes DEF Ordinary, CallName, Special, LogFileCall, ExitCall
<1> QED
  BY <1>1, <1>2, <1>3, <1>4, CallTypes DEF Ordinary, RoundCall, Log

\* The parts scripts are put together from, over any set of calls.
LEMMA Parts ==
  ASSUME NEW S
  PROVE  /\ \A a, b \in Seq(S) : a \o b \in Seq(S)
         /\ \A t, script : (t \in Task => script \in Seq(S)) => ForTask(t, script) \in Seq(S)
         /\ \A id, m : \A script \in Seq(S) : On(id, m, script) \in Seq(S)
<1>1. <<>> \in Seq(S)
  BY EmptySeq
<1> QED
  BY <1>1, ConcatProperties DEF ForTask, On

\* Main's scripts up to the exit path.
LEMMA MainOrdinary ==
  /\ MainSetupScript \in Seq(Ordinary("main"))
  /\ StartupScript \in Seq(RoundCall)
  /\ RoundScript \in Seq(RoundCall)
  /\ <<Log>> \o RoundScript \in Seq(RoundCall)
  /\ <<Do("alarm", "main")>> \in Seq(Ordinary("main"))
  /\ \A m : MainScript(m) \in Seq(Ordinary("main")) /\ HbScript(m) \in Seq(Ordinary("main"))
  /\ MissingReport("temp") \o MissingReport("light") \o MissingReport("logger") \in Seq(VerdictCall)
<1>1. /\ Do("mq_notify", "main") \in Ordinary("main") /\ Do("alarm", "main") \in Ordinary("main")
      /\ Do("read_payload", "main") \in Ordinary("main") /\ Log \in Ordinary("main")
      /\ Do("pthread_kill", "logger") \in RoundCall /\ Do("alarm", "main") \in RoundCall
      /\ "temp" \in Task => Do("pthread_kill", "temp") \in RoundCall
  BY MainInThread, OrdinaryCalls DEF CallName, Special, LogFileCall, ExitCall
<1>2. /\ <<Send("logger", "HEARTBEAT_REQ", "main")>> \in Seq(RoundCall)
      /\ ForTask("temp", <<Send("temp", "HEARTBEAT_REQ", "main")>>) \in Seq(RoundCall)
      /\ ForTask("light", <<Send("light", "HEARTBEAT_REQ", "main")>>) \in Seq(RoundCall)
  BY MainInThread, OrdinaryCalls, ShortSeq, Parts
<1>3. reqHeartbeats \in Seq(RoundCall)
  BY <1>2, Parts DEF reqHeartbeats
<1>4. StartupScript \in Seq(RoundCall)
  <2> DEFINE temp  == <<Send("temp", "TEMP_DATA_REQ", "main"), Do("pthread_kill", "temp")>>
             light == <<Send("light", "LIGHT_DATA_REQ", "main")>>
  <2>1. "temp" \in Task => temp \in Seq(RoundCall)
    BY <1>1, MainInThread, OrdinaryCalls, ShortSeq
  <2>2. "light" \in Task => light \in Seq(RoundCall)
    BY MainInThread, OrdinaryCalls, ShortSeq
  <2>3. ForTask("temp", temp) \in Seq(RoundCall) /\ ForTask("light", light) \in Seq(RoundCall)
    BY <2>1, <2>2, Parts
  <2>4. <<Do("pthread_kill", "logger")>> \in Seq(RoundCall) /\ <<Do("alarm", "main")>> \in Seq(RoundCall)
    BY <1>1, ShortSeq
  <2> HIDE DEF temp, light
  <2>5. StartupScript = reqHeartbeats \o <<Do("pthread_kill", "logger")>>
                        \o ForTask("temp", temp) \o ForTask("light", light)
                        \o <<Do("alarm", "main")>>
    BY DEF StartupScript, temp, light
  <2> QED
    BY <1>3, <2>3, <2>4, <2>5, Parts
<1>5. RoundScript \in Seq(RoundCall) /\ <<Log>> \o RoundScript \in Seq(RoundCall)
  <2>1. /\ <<Do("pthread_kill", "logger"), Do("alarm", "main")>> \in Seq(RoundCall)
        /\ <<Log>> \in Seq(RoundCall)
    BY <1>1, ShortSeq, OrdinaryPermitted
  <2> QED
    BY <1>3, <2>1, Parts DEF RoundScript
<1>6. \A ids, m : LogFor(ids, m) \in Seq(Ordinary("main"))
  <2> TAKE ids, m
  <2>1. Payload("main", m) \in Seq(Ordinary("main"))
    BY <1>1, ShortSeq DEF Payload
  <2>2. <<Log>> \in Seq(Ordinary("main")) /\ <<>> \in Seq(Ordinary("main"))
    BY <1>1, ShortSeq
  <2> QED
    BY <2>1, <2>2, Parts DEF LogFor
<1>7. \A t : MissingReport(t) \in Seq(VerdictCall)
  <2>1. Log \in VerdictCall /\ Do("set_error", "main") \in VerdictCall
    BY <1>1, MainInThread, CallTypes DEF VerdictCall, CallName, Do
  <2> QED
    BY <2>1, ShortSeq, EmptySeq DEF MissingReport
<1>8. MainSetupScript \in Seq(Ordinary("main")) /\ <<Do("alarm", "main")>> \in Seq(Ordinary("main"))
  BY <1>1, ShortSeq DEF MainSetupScript
<1>9. \A m : MainScript(m) \in Seq(Ordinary("main")) /\ HbScript(m) \in Seq(Ordinary("main"))
  BY <1>6 DEF MainScript, HbScript
<1> QED
  BY <1>4, <1>5, <1>7, <1>8, <1>9, Parts

\* The drivers' scripts.
LEMMA DriverOrdinary ==
  ASSUME NEW t \in Task, t # "logger"
  PROVE  /\ SetupScript(t) \in Seq(Ordinary(t))
         /\ TeardownScript(t) \in Seq(Ordinary(t))
         /\ \A m : Script(t, m) \in Seq(Ordinary(t))
<1>1. t \in Thread /\ t \in {"temp", "light"}
  BY TaskAssumption DEF Thread
<1>2. /\ Do("mq_notify", t) \in Ordinary(t) /\ Do("open_i2c", t) \in Ordinary(t)
      /\ Do("read_payload", t) \in Ordinary(t) /\ Do("i2c", t) \in Ordinary(t)
      /\ Log \in Ordinary(t) /\ Send("main", "HEARTBEAT_RSP", t) \in Ordinary(t)
      /\ t = "temp" => Send("main", "TEMP_VALUE", "temp") \in Ordinary(t)
      /\ t = "light" => Send("main", "LIGHT_VALUE", "light") \in Ordinary(t)
  BY <1>1, OrdinaryCalls DEF CallName, Special, LogFileCall, ExitCall
<1>3. /\ <<Log, Do("mq_notify", t), Log, Do("open_i2c", t)>> \in Seq(Ordinary(t))
      /\ <<Log, Do("mq_notify", t), Do("open_i2c", t), Log>> \in Seq(Ordinary(t))
      /\ <<Log>> \in Seq(Ordinary(t))
  BY <1>2, ShortSeq
<1>4. SetupScript(t) \in Seq(Ordinary(t)) /\ TeardownScript(t) \in Seq(Ordinary(t))
  <2>1. t = "temp" => SetupScript(t) = <<Log, Do("mq_notify", t), Log, Do("open_i2c", t)>>
    BY DEF SetupScript
  <2>2. t = "light" => SetupScript(t) = <<Log, Do("mq_notify", t), Do("open_i2c", t), Log>>
    BY DEF SetupScript
  <2> QED
    BY <1>1, <1>3, <2>1, <2>2 DEF TeardownScript
<1>5. ASSUME NEW m PROVE Script(t, m) \in Seq(Ordinary(t))
  <2>1. CASE t = "temp"
    <3> DEFINE value == <<Log>> \o Payload("temp", m) \o <<Send("main", "TEMP_VALUE", "temp")>>
               beat  == <<Send("main", "HEARTBEAT_RSP", "temp"), Do("i2c", "temp")>>
    <3>1. /\ <<Log>> \in Seq(Ordinary(t)) /\ <<Send("main", "TEMP_VALUE", "temp")>> \in Seq(Ordinary(t))
          /\ beat \in Seq(Ordinary(t)) /\ Payload("temp", m) \in Seq(Ordinary(t))
      BY <1>2, <2>1, ShortSeq DEF Payload
    <3>2. value \in Seq(Ordinary(t))
      BY <3>1, Parts
    <3> HIDE DEF value, beat
    <3>3. TempScript(m) = On("TEMP_DATA_REQ", m, value) \o On("HEARTBEAT_REQ", m, beat)
      BY DEF TempScript, value, beat
    <3>4. TempScript(m) \in Seq(Ordinary(t))
      BY <3>1, <3>2, <3>3, Parts
    <3> QED
      BY <2>1, <3>4 DEF Script
  <2>2. CASE t = "light"
    <3> DEFINE value == <<Log, Do("i2c", "light"), Send("main", "LIGHT_VALUE", "light")>>
               beat  == <<Send("main", "HEARTBEAT_RSP", "light")>>
    <3>1. value \in Seq(Ordinary(t)) /\ beat \in Seq(Ordinary(t))
      BY <1>2, <2>2, ShortSeq
    <3> HIDE DEF value, beat
    <3>2. LightScript(m) = On("LIGHT_DATA_REQ", m, value) \o On("HEARTBEAT_REQ", m, beat)
      BY DEF LightScript, value, beat
    <3>3. LightScript(m) \in Seq(Ordinary(t))
      BY <3>1, <3>2, Parts
    <3> QED
      BY <2>2, <3>3 DEF Script
  <2> QED
    BY <1>1, <2>1, <2>2
<1> QED
  BY <1>4, <1>5

\* The logger's scripts.
LEMMA LoggerPermitted ==
  /\ SetupScript("logger") \in Seq(LoggerCall)
  /\ TeardownScript("logger") \in Seq(LoggerCall)
  /\ \A m : Script("logger", m) \in Seq(LoggerCall)
<1> DEFINE S == LoggerCall
<1>1. /\ Do("mq_notify", "logger") \in S /\ Do("initLogger", "logger") \in S
      /\ Do("fclose", "logger") \in S /\ Do("logFileChange", "logger") \in S
      /\ Do("fputs", "logger") \in S /\ Do("read_payload", "logger") \in S
  <2>1. \A name \in CallName : Do(name, "logger") \in Call /\ Do(name, "logger").call = name
    BY MainInThread, CallTypes DEF Do
  <2> QED
    BY <2>1 DEF CallName, ExitCall, LoggerCall
<1>2. Send("main", "HEARTBEAT_RSP", "logger") \in S
  <2>1. Send("main", "HEARTBEAT_RSP", "logger") \in Call
    BY MainInThread, TaskAssumption, CallTypes
  <2> QED
    BY <2>1 DEF LoggerCall, ExitCall, Send
<1> HIDE DEF S
<1>3. /\ <<Do("mq_notify", "logger"), Do("initLogger", "logger")>> \in Seq(S)
      /\ <<Do("fclose", "logger")>> \in Seq(S) /\ <<Do("fputs", "logger")>> \in Seq(S)
      /\ <<Do("logFileChange", "logger")>> \in Seq(S)
      /\ <<Send("main", "HEARTBEAT_RSP", "logger")>> \in Seq(S)
      /\ <<Do("read_payload", "logger")>> \in Seq(S) /\ <<>> \in Seq(S)
  BY <1>1, <1>2, ShortSeq
<1>4. SetupScript("logger") \in Seq(S) /\ TeardownScript("logger") \in Seq(S)
  BY <1>3 DEF SetupScript, TeardownScript
<1>5. ASSUME NEW m PROVE Script("logger", m) \in Seq(S)
  <2> DEFINE change == <<Do("logFileChange", "logger")>>
             beat   == <<Send("main", "HEARTBEAT_RSP", "logger")>>
  <2>1. logMessage(m) \in Seq(S)
    BY <1>3, Parts DEF logMessage, Payload
  <2>2. change \in Seq(S) /\ beat \in Seq(S)
    BY <1>3
  <2> HIDE DEF change, beat
  <2>3. LoggerScript(m) = On("LOGGER", m, logMessage(m)) \o On("FILE_CHANGE", m, change)
                            \o On("HEARTBEAT_REQ", m, beat)
    BY DEF LoggerScript, change, beat
  <2>4. LoggerScript(m) \in Seq(S)
    BY <2>1, <2>2, <2>3, Parts
  <2> QED
    BY <2>4 DEF Script
<1> QED
  BY <1>4, <1>5 DEF S

\* What the loops hand to Run.
LEMMA ScriptsPermitted ==
  ASSUME NEW t \in Task
  PROVE  /\ \A label : SetupScript(t) \in Seq(Permitted(t, label))
         /\ \A label : TeardownScript(t) \in Seq(Permitted(t, label))
         /\ \A label, m : Script(t, m) \in Seq(Permitted(t, label))
<1>1. CASE t = "logger"
  BY <1>1, LoggerPermitted, OrdinaryPermitted
<1>2. CASE t # "logger"
  BY <1>2, DriverOrdinary, OrdinaryPermitted
<1> QED
  BY <1>1, <1>2

(***************************************************************************)
(* Permitted calls stay permitted.                                         *)
(***************************************************************************)
\* A thread that starts on a script of permitted calls.
LEMMA RunPermits ==
  ASSUME TypeOK, AllPermitted, NEW t \in Thread, NEW label,
         NEW script \in Seq(Permitted(t, label)), Run(t, label, script)
  PROVE  AllPermitted'
<1>1. /\ pc \in [Thread -> Label] /\ todo \in [Thread -> Seq(Call)]
      /\ todo' = [todo EXCEPT ![t] = script]
      /\ pc' = [pc EXCEPT ![t] = IF script = <<>> THEN Continue[label] ELSE label]
  BY DEF TypeOK, TasksTypeOK, Run
<1>2. todo'[t] \in Seq(Permitted(t, pc'[t]))
  <2>1. CASE script = <<>>
    BY <1>1, <2>1, EmptySeq
  <2>2. CASE script # <<>>
    BY <1>1, <2>2
  <2> QED
    BY <2>1, <2>2
<1>3. \A u \in Thread : u # t => todo'[u] = todo[u] /\ pc'[u] = pc[u]
  BY <1>1
<1> QED
  BY <1>2, <1>3 DEF AllPermitted

\* A thread that moves on without a script, where nothing special is permitted.
LEMMA GotoPermits ==
  ASSUME TypeOK, AllPermitted, NEW t \in Thread, pc[t] \notin {"teardown", "round", "verdict"},
         NEW label, Goto(t, label), UNCHANGED todo
  PROVE  AllPermitted'
<1>1. pc' = [pc EXCEPT ![t] = label] /\ pc \in [Thread -> Label]
  BY DEF Goto, TypeOK, TasksTypeOK
<1>2. Permitted(t, pc[t]) \subseteq Permitted(t, pc'[t])
  BY DEF Permitted
<1>3. Seq(Permitted(t, pc[t])) \subseteq Seq(Permitted(t, pc'[t]))
  BY <1>2, SeqMonotonic
<1>4. todo'[t] \in Seq(Permitted(t, pc'[t]))
  BY <1>3 DEF AllPermitted
<1>5. \A u \in Thread : u # t => todo'[u] = todo[u] /\ pc'[u] = pc[u]
  BY <1>1
<1> QED
  BY <1>4, <1>5 DEF AllPermitted

\* Heartbeats come from the tasks, and each reading from its driver.
LEMMA OwnReplies ==
  ASSUME NEW u \in Thread, NEW label, NEW c \in Permitted(u, label), c.call = "mq_send"
  PROVE  /\ c.msg.id = "HEARTBEAT_RSP" => u \in Task /\ c.msg.source = u
         /\ c.msg.id = "TEMP_VALUE" => u = "temp"
         /\ c.msg.id = "LIGHT_VALUE" => u = "light"
<1>1. c.msg \in Message
  BY DEF Permitted, Call, CallName
<1>2. IsReply(c) => c.msg.source = u
  BY DEF Permitted
<1>3. u # "gone"
  BY TaskAssumption DEF Thread
<1> QED
  BY <1>1, <1>2, <1>3, TaskAssumption DEF Message, IsReply

\* What is left after a call, also after a failed or an interrupted one.
LEMMA RestPermitted ==
  ASSUME TypeOK, AllPermitted, NEW t \in Thread, pc[t] \in Calling, todo[t] # <<>>,
         NEW S, S = Permitted(t, pc[t])
  PROVE  /\ NextCall(t) \in S /\ Tail(todo[t]) \in Seq(S) /\ todo[t] \in Seq(S)
         /\ Permitted(t, ErrnoOverwritten(pc[t])) = S
         /\ t # "logger" => /\ \A n \in Nat : Repeat(Log, n) \in Seq(S)
                            /\ <<Log>> \o Tail(todo[t]) \in Seq(S)
         /\ \A n \in 1..Len(todo[t]) : SubSeq(todo[t], n + 1, Len(todo[t])) \in Seq(S)
<1>1. todo[t] \in Seq(S)
  BY DEF AllPermitted
<1>2. Permitted(t, ErrnoOverwritten(pc[t])) = S
  BY DEF Permitted, ErrnoOverwritten
<1>3. t # "logger" => Log \in S
  BY CallTypes DEF Permitted, Log, Send, Msg, LogFileCall, ExitCall, IsReply
<1>4. NextCall(t) \in S /\ Tail(todo[t]) \in Seq(S)
  BY <1>1, HeadTailProperties DEF NextCall
<1>5. ASSUME t # "logger", NEW n \in Nat PROVE Repeat(Log, n) \in Seq(S)
  <2>1. Repeat(Log, n) \in [1..n -> S]
    BY <1>3, <1>5 DEF Repeat
  <2> QED
    BY <2>1, SeqDef
<1>6. t # "logger" => <<Log>> \o Tail(todo[t]) \in Seq(S)
  BY <1>3, <1>4, ShortSeq, ConcatProperties
<1>7. ASSUME NEW n \in 1..Len(todo[t])
      PROVE  SubSeq(todo[t], n + 1, Len(todo[t])) \in Seq(S)
  <2>1. Len(todo[t]) \in Nat /\ n + 1 \in 1..(Len(todo[t]) + 1)
    BY <1>1, LenProperties
  <2> QED
    BY <1>1, <2>1, SubSeqProperties
<1> QED
  BY <1>1, <1>2, <1>4, <1>5, <1>6, <1>7

\* A thread that returns from a call.
LEMMA ReturnPermits ==
  ASSUME TypeOK, AllPermitted, NEW t \in Thread, pc[t] \in Calling, todo[t] # <<>>, Return(t)
  PROVE  AllPermitted'
BY RestPermitted, RunPermits DEF Return

\* A call any thread makes; only the logger's can concern the file.
LEMMA CommonCallPermits ==
  ASSUME TypeOK, AllPermitted, NEW t \in Thread, CommonCall(t), ~Die
  PROVE  /\ AllPermitted'
         /\ t # "logger" => out_file' = out_file
<1>0. pc[t] \in Calling /\ todo[t] # <<>>
  BY DEF CommonCall
<1>1. /\ NextCall(t) \in Permitted(t, pc[t])
      /\ Permitted(t, ErrnoOverwritten(pc[t])) = Permitted(t, pc[t])
      /\ Tail(todo[t]) \in Seq(Permitted(t, pc[t]))
      /\ NextCall(t).call = "i2c" => \A n \in Nat : Repeat(Log, n) \in Seq(Permitted(t, pc[t]))
  <2>1. NextCall(t) \in Permitted(t, pc[t])
    BY <1>0, RestPermitted
  <2>2. NextCall(t).call = "i2c" => t # "logger"
    BY <2>1 DEF Permitted
  <2> QED
    BY <1>0, <2>1, <2>2, RestPermitted
<1>2. ASSUME Return(t) PROVE AllPermitted'
  BY <1>0, <1>2, ReturnPermits
<1>3. ASSUME NextCall(t).call = "i2c",
             \E n \in 1..MaxSensorErrors :
               Run(t, ErrnoOverwritten(pc[t]), Repeat(Log, n) \o Tail(todo[t]))
      PROVE  AllPermitted'
  <2>1. PICK n \in 1..MaxSensorErrors :
          Run(t, ErrnoOverwritten(pc[t]), Repeat(Log, n) \o Tail(todo[t]))
    BY <1>3
  <2>2. n \in Nat
    BY MaxSensorErrorsAssumption
  <2>3. Repeat(Log, n) \o Tail(todo[t]) \in Seq(Permitted(t, pc[t]))
    BY <1>1, <1>3, <2>2, ConcatProperties
  <2> QED
    BY <1>1, <2>1, <2>3, RunPermits
<1>4. AllPermitted'
  BY <1>2, <1>3
  DEF CommonCall, CallSend, CallKill, CallNotify, CallMayDie, CallI2C, CallOpenLog, CallWriteLog
<1>5. ASSUME t # "logger" PROVE out_file' = out_file
  <2>1. NextCall(t).call \notin LogFileCall
    BY <1>1, <1>5 DEF Permitted
  <2> QED
    BY <2>1
    DEF LogFileCall, CommonCall, CallSend, CallKill, CallNotify, CallMayDie, CallI2C,
        CallOpenLog, CallWriteLog
<1> QED
  BY <1>4, <1>5

\* An interrupted call.
LEMMA InterruptedPermits ==
  ASSUME TypeOK, AllPermitted, NEW t \in Thread, Blocked(t), Interrupted(t)
  PROVE  AllPermitted'
<1>1. pc[t] \in Calling /\ todo[t] # <<>>
  BY DEF Blocked
<1>2. \E script \in Seq(Permitted(t, pc[t])) : Run(t, ErrnoOverwritten(pc[t]), script)
  <2>1. NextCall(t) \in Permitted(t, pc[t]) /\ NextCall(t).call = "mq_send"
    BY <1>1, RestPermitted DEF Blocked
  <2>2. NextCall(t).msg.id \in {"TEMP_VALUE", "LIGHT_VALUE"} => t # "logger"
    BY <2>1, OwnReplies
  <2> QED
    BY <1>1, <2>2, RestPermitted DEF Interrupted
<1>3. Permitted(t, ErrnoOverwritten(pc[t])) = Permitted(t, pc[t])
  BY <1>1, RestPermitted
<1> QED
  BY <1>2, <1>3, RunPermits

(***************************************************************************)
(* Every step that does not end the process keeps the calls permitted.     *)
(***************************************************************************)
\* Main's own calls.
LEMMA MainCallPermits ==
  ASSUME TypeOK, AllPermitted, ~Die,
         CallStop \/ CallSetError \/ CallAlarm \/ CallUnlink \/ CallJoin \/ CallExit
  PROVE  AllPermitted'
<1>1. pc["main"] \in Calling /\ todo["main"] # <<>> /\ Return("main")
  BY DEF MainCall, CallStop, CallSetError, CallAlarm, CallUnlink, CallJoin, CallExit
<1> QED
  BY <1>1, MainInThread, ReturnPermits

\* Main's scripts are permitted, the one of its exit path only there.
LEMMA MainPermitted ==
  /\ \A label : Seq(Ordinary("main")) \subseteq Seq(Permitted("main", label))
  /\ MainTeardownScript \in Seq(TeardownCall)
  /\ MainTeardownScript \in Seq(Permitted("main", "teardown"))
<1>1. TeardownCall \subseteq Permitted("main", "teardown")
  BY DEF TeardownCall, Permitted, LogFileCall, ExitCall, IsReply
<1>2. ASSUME NEW name \in {"stop", "pthread_join"} PROVE Each(name) \in Seq(TeardownCall)
  <2>1. \A t \in Thread : Do(name, t) \in TeardownCall
    BY <1>2, CallTypes DEF TeardownCall, CallName, Do
  <2>2. /\ ForTask("temp", <<Do(name, "temp")>>) \in Seq(TeardownCall)
        /\ ForTask("light", <<Do(name, "light")>>) \in Seq(TeardownCall)
        /\ <<Do(name, "logger")>> \in Seq(TeardownCall)
    BY <2>1, MainInThread, ShortSeq, Parts
  <2> QED
    BY <2>2, Parts DEF Each
<1>3. /\ Do("mq_unlink", "main") \in TeardownCall /\ Do("exit", "main") \in TeardownCall
      /\ Send("logger", "FILE_CHANGE", "main") \in TeardownCall
  BY MainInThread, CallTypes DEF TeardownCall, CallName, Do, Send, Msg
<1>4. /\ <<Do("mq_unlink", "main")>> \in Seq(TeardownCall)
      /\ <<Do("exit", "main")>> \in Seq(TeardownCall)
      /\ <<Send("logger", "FILE_CHANGE", "main")>> \in Seq(TeardownCall)
  BY <1>3, ShortSeq
<1>5. MainTeardownScript \in Seq(TeardownCall)
  BY <1>2, <1>4, Parts DEF MainTeardownScript
<1> QED
  BY <1>1, <1>5, OrdinaryPermitted, SeqMonotonic

\* Main's loop and processHeartbeats.
LEMMA MainLoopPermits ==
  ASSUME TypeOK, AllPermitted, ~Die,
         \/ MainLoop \/ MainSigwait \/ MainTimer \/ MainNotify \/ MainReceive
         \/ MainReceiveEmpty \/ MainTick \/ MainStartup
         \/ HbReceive \/ HbReceiveEmpty \/ HbCheck \/ HbJudge \/ HbRaise
  PROVE  AllPermitted'
<1>1. "main" \in Thread
  BY MainInThread
<1>2. CASE MainLoop
  BY <1>1, <1>2, MainPermitted, RunPermits, GotoPermits DEF MainLoop
<1>3. CASE MainSigwait \/ MainTimer \/ MainNotify
  BY <1>1, <1>3, GotoPermits DEF MainSigwait, MainTimer, MainNotify
<1>4. CASE MainReceive \/ MainReceiveEmpty
  <2>1. \E m : \E label \in {"handle", "again"} : Run("main", label, MainScript(m))
    BY <1>4 DEF MainReceive, MainReceiveEmpty
  <2> QED
    BY <1>1, <2>1, MainOrdinary, MainPermitted, RunPermits
<1>5. CASE HbReceive \/ HbReceiveEmpty
  <2>1. \E m : \E label \in {"hb_handle", "hb_again"} : Run("main", label, HbScript(m))
    BY <1>5 DEF HbReceive, HbReceiveEmpty
  <2> QED
    BY <1>1, <2>1, MainOrdinary, MainPermitted, RunPermits
<1>6. CASE MainTick
  <2>1. pc["main"] \notin {"teardown", "round", "verdict"}
    BY <1>6 DEF MainTick
  <2>2. \/ Goto("main", "startup") /\ UNCHANGED todo
        \/ Goto("main", "hb_receive") /\ UNCHANGED todo
        \/ Run("main", "round", <<Do("alarm", "main")>>)
    BY <1>6 DEF MainTick
  <2> QED
    BY <1>1, <2>1, <2>2, MainOrdinary, MainPermitted, RunPermits, GotoPermits
<1>7. CASE MainStartup
  BY <1>1, <1>7, MainOrdinary, OrdinaryPermitted, RunPermits DEF MainStartup
<1>8. CASE HbCheck
  BY <1>1, <1>8, MainOrdinary, OrdinaryPermitted, RunPermits DEF HbCheck
<1>9. CASE HbJudge
  <2>1. \/ Run("main", "round", <<Log>> \o RoundScript)
        \/ pc["main"] = "judge" /\ Goto("main", "raise") /\ UNCHANGED todo
    BY <1>9 DEF HbJudge
  <2> QED
    BY <1>1, <2>1, MainOrdinary, OrdinaryPermitted, RunPermits, GotoPermits
<1>10. CASE HbRaise
  BY <1>1, <1>10, MainOrdinary, OrdinaryPermitted, RunPermits DEF HbRaise
<1> QED
  BY <1>2, <1>3, <1>4, <1>5, <1>6, <1>7, <1>8, <1>9, <1>10

\* The steps of a task.
LEMMA TaskPermits ==
  ASSUME TypeOK, AllPermitted, NEW t \in Task, TaskStep(t), ~Die
  PROVE  /\ AllPermitted'
         /\ t # "logger" => out_file' = out_file
<1>1. t \in Thread
  BY MainInThread
<1>2. CASE CommonCall(t)
  BY <1>1, <1>2, CommonCallPermits
<1>3. ASSUME TaskLoop(t) \/ TaskSigwait(t) \/ TaskNotify(t) \/ TaskReceive(t) \/ TaskReceiveEmpty(t)
      PROVE  AllPermitted' /\ out_file' = out_file
  <2>1. out_file' = out_file
    BY <1>3 DEF TaskLoop, TaskSigwait, TaskNotify, TaskReceive, TaskReceiveEmpty
  <2>2. CASE TaskLoop(t)
    BY <1>1, <2>1, <2>2, ScriptsPermitted, RunPermits, GotoPermits DEF TaskLoop
  <2>3. CASE TaskSigwait(t) \/ TaskNotify(t)
    BY <1>1, <2>1, <2>3, GotoPermits DEF TaskSigwait, TaskNotify
  <2>4. CASE TaskReceive(t) \/ TaskReceiveEmpty(t)
    <3>1. \E m : \E label \in {"handle", "again"} : Run(t, label, Script(t, m))
      BY <2>4 DEF TaskReceive, TaskReceiveEmpty
    <3> QED
      BY <1>1, <2>1, <3>1, ScriptsPermitted, RunPermits
  <2> QED
    BY <1>3, <2>2, <2>3, <2>4
<1> QED
  BY <1>2, <1>3 DEF TaskStep

(***************************************************************************)
(* The exit path.                                                          *)
(***************************************************************************)
\* A call in either part of a script is in the script.
LEMMA AheadConcat ==
  ASSUME NEW S, NEW a \in Seq(S), NEW b \in Seq(S), NEW c, Ahead(a, c) \/ Ahead(b, c)
  PROVE  Ahead(a \o b, c)
<1>1. /\ Len(a) \in Nat /\ Len(b) \in Nat /\ Len(a \o b) = Len(a) + Len(b)
      /\ \A i \in 1..Len(a) : (a \o b)[i] = a[i]
      /\ \A i \in 1..Len(b) : (a \o b)[Len(a) + i] = b[i]
  BY ConcatProperties, LenProperties
<1>2. CASE Ahead(a, c)
  <2>1. PICK i \in 1..Len(a) : a[i] = c
    BY <1>2 DEF Ahead
  <2>2. i \in 1..Len(a \o b) /\ (a \o b)[i] = c
    BY <1>1, <2>1
  <2> QED
    BY <2>2 DEF Ahead
<1>3. CASE Ahead(b, c)
  <2>1. PICK i \in 1..Len(b) : b[i] = c
    BY <1>3 DEF Ahead
  <2>2. Len(a) + i \in 1..Len(a \o b) /\ (a \o b)[Len(a) + i] = c
    BY <1>1, <2>1
  <2> QED
    BY <2>2 DEF Ahead
<1> QED
  BY <1>2, <1>3

\* A call other than the first is still ahead after the first.
LEMMA AheadTail ==
  ASSUME NEW S, NEW s \in Seq(S), s # <<>>, NEW c, Ahead(s, c), c # Head(s)
  PROVE  Ahead(Tail(s), c)
<1>1. PICK i \in 1..Len(s) : s[i] = c
  BY DEF Ahead
<1>2. /\ Len(s) \in Nat /\ Head(s) = s[1] /\ Len(Tail(s)) = Len(s) - 1
      /\ \A j \in 1..Len(Tail(s)) : Tail(s)[j] = s[j + 1]
  BY HeadTailProperties, LenProperties
<1>3. i # 1
  BY <1>1, <1>2
<1>4. i - 1 \in 1..Len(Tail(s)) /\ Tail(s)[i - 1] = c
  BY <1>1, <1>2, <1>3
<1> QED
  BY <1>4 DEF Ahead

\* The calls of Each are those for all tasks.
LEMMA EachTask ==
  ASSUME NEW name \in CallName, NEW t \in Task
  PROVE  Ahead(Each(name), Do(name, t))
<1>1. /\ ForTask("temp", <<Do(name, "temp")>>) \in Seq(Call)
      /\ ForTask("light", <<Do(name, "light")>>) \in Seq(Call)
      /\ <<Do(name, "logger")>> \in Seq(Call)
  BY MainInThread, DoType, ForTaskType
<1>2. \A c : Ahead(<<c>>, c)
  <2> TAKE c
  <2>1. 1 \in 1..Len(<<c>>) /\ <<c>>[1] = c
    OBVIOUS
  <2> QED
    BY <2>1 DEF Ahead
<1>3. \/ t = "temp" /\ Ahead(ForTask("temp", <<Do(name, "temp")>>), Do(name, t))
      \/ t = "light" /\ Ahead(ForTask("light", <<Do(name, "light")>>), Do(name, t))
      \/ t = "logger" /\ Ahead(<<Do(name, "logger")>>, Do(name, t))
  BY <1>2, TaskAssumption DEF ForTask
<1>4. ForTask("temp", <<Do(name, "temp")>>) \o ForTask("light", <<Do(name, "light")>>) \in Seq(Call)
  BY <1>1, ConcatType
<1> QED
  BY <1>1, <1>3, <1>4, AheadConcat DEF Each

\* At the start of the exit path everything is ahead.
LEMMA ExitPathStarts ==
  /\ MainTeardownScript \in Seq(TeardownCall) /\ MainTeardownScript # <<>>
  /\ \A i \in 1..Len(MainTeardownScript) :
       MainTeardownScript[i].call = "exit" <=> i = Len(MainTeardownScript)
  /\ Ahead(MainTeardownScript, Do("mq_unlink", "main"))
  /\ \A t \in Task : Ahead(MainTeardownScript, Do("pthread_join", t))
<1> DEFINE send   == <<Send("logger", "FILE_CHANGE", "main")>>
           stop   == Each("stop")
           unlink == <<Do("mq_unlink", "main")>>
           join   == Each("pthread_join")
           exit   == <<Do("exit", "main")>>
           front  == send \o stop \o unlink \o join
           S      == {c \in TeardownCall : c.call # "exit"}
<1>1. /\ Do("mq_unlink", "main") \in S /\ Send("logger", "FILE_CHANGE", "main") \in S
      /\ \A t \in Thread : Do("stop", t) \in S /\ Do("pthread_join", t) \in S
  BY MainInThread, CallTypes DEF TeardownCall, CallName, Do, Send, Msg
<1>2. ASSUME NEW name \in {"stop", "pthread_join"} PROVE Each(name) \in Seq(S)
  <2> HIDE DEF S
  <2>1. /\ ForTask("temp", <<Do(name, "temp")>>) \in Seq(S)
        /\ ForTask("light", <<Do(name, "light")>>) \in Seq(S)
        /\ <<Do(name, "logger")>> \in Seq(S)
    BY <1>1, <1>2, MainInThread, ShortSeq, Parts
  <2> QED
    BY <2>1, Parts DEF Each
<1>3. send \in Seq(S) /\ unlink \in Seq(S) /\ stop \in Seq(S) /\ join \in Seq(S)
  <2> HIDE DEF S
  <2>1. send \in Seq(S) /\ unlink \in Seq(S)
    BY <1>1, ShortSeq
  <2> QED
    BY <1>2, <2>1
<1>4. MainTeardownScript = front \o exit
  BY DEF MainTeardownScript
<1>5. S \subseteq TeardownCall /\ \A c \in S : c.call # "exit"
  OBVIOUS
<1>6. Ahead(unlink, Do("mq_unlink", "main")) /\ \A t \in Task : Ahead(join, Do("pthread_join", t))
  <2>1. 1 \in 1..Len(unlink) /\ unlink[1] = Do("mq_unlink", "main")
    OBVIOUS
  <2>2. Ahead(unlink, Do("mq_unlink", "main"))
    BY <2>1 DEF Ahead
  <2> QED
    BY <2>2, EachTask DEF CallName
<1>7. exit[1].call = "exit" /\ Len(exit) = 1
  BY DEF Do
<1> HIDE DEF S, send, stop, unlink, join, exit
<1>8. send \o stop \in Seq(S) /\ send \o stop \o unlink \in Seq(S) /\ front \in Seq(S)
  BY <1>3, ConcatProperties
<1>9. Ahead(front, Do("mq_unlink", "main")) /\ \A t \in Task : Ahead(front, Do("pthread_join", t))
  BY <1>3, <1>6, <1>8, AheadConcat
<1> HIDE DEF front
<1>10. MainTeardownScript \in Seq(TeardownCall) /\ exit \in Seq(TeardownCall) /\ front \in Seq(TeardownCall)
  <2>1. Do("exit", "main") \in TeardownCall
    BY MainInThread, CallTypes DEF TeardownCall, CallName, Do
  <2>2. exit \in Seq(TeardownCall)
    BY <2>1, ShortSeq DEF exit
  <2> QED
    BY <1>5, <1>8, <2>2, MainPermitted, SeqMonotonic
<1>11. /\ Len(front) \in Nat /\ Len(front \o exit) = Len(front) + 1
       /\ \A i \in 1..Len(front) : (front \o exit)[i] = front[i] /\ front[i] \in S
       /\ (front \o exit)[Len(front) + 1] = exit[1]
  <2>1. /\ Len(front) \in Nat /\ Len(front \o exit) = Len(front) + Len(exit)
        /\ \A i \in 1..Len(front) : (front \o exit)[i] = front[i]
        /\ \A i \in 1..Len(exit) : (front \o exit)[Len(front) + i] = exit[i]
    BY <1>10, ConcatProperties, LenProperties
  <2>2. \A i \in 1..Len(front) : front[i] \in S
    BY <1>8, ElementOfSeq
  <2>3. 1 \in 1..Len(exit)
    BY <1>7
  <2> QED
    BY <1>7, <2>1, <2>2, <2>3
<1>12. ASSUME NEW i \in 1..Len(front \o exit)
       PROVE  (front \o exit)[i].call = "exit" <=> i = Len(front \o exit)
  <2>1. i \in 1..Len(front) \/ i = Len(front) + 1
    BY <1>11
  <2>2. CASE i \in 1..Len(front)
    <3>1. (front \o exit)[i] \in S
      BY <1>11, <2>2
    <3>2. (front \o exit)[i].call # "exit"
      BY <1>5, <3>1
    <3>3. i # Len(front \o exit)
      BY <1>11, <2>2
    <3> QED
      BY <3>2, <3>3
  <2>3. CASE i = Len(front) + 1
    BY <1>7, <1>11, <2>3
  <2> QED
    BY <2>1, <2>2, <2>3
<1>13. front \o exit # <<>>
  BY <1>4, <1>10, <1>11, EmptySeq
<1>14. /\ Ahead(front \o exit, Do("mq_unlink", "main"))
       /\ \A t \in Task : Ahead(front \o exit, Do("pthread_join", t))
  BY <1>9, <1>10, AheadConcat
<1> QED
  BY <1>4, <1>10, <1>12, <1>13, <1>14

(***************************************************************************)
(* Which steps matter to the exit path.                                    *)
(***************************************************************************)
\* A thread that starts on a script, and the threads that do not.
LEMMA RunMoves ==
  ASSUME TypeOK, NEW t \in Thread, NEW label, NEW script, Run(t, label, script)
  PROVE  /\ todo'[t] = script
         /\ script = <<>> => pc'[t] = Continue[label]
         /\ script # <<>> => pc'[t] = label
         /\ \A u \in Thread : u # t => pc'[u] = pc[u] /\ todo'[u] = todo[u]
BY DEF TypeOK, TasksTypeOK, Run

\* A thread that moves without a script.
LEMMA GotoMoves ==
  ASSUME TypeOK, NEW t \in Thread, NEW label, Goto(t, label), UNCHANGED todo
  PROVE  /\ pc'[t] = label
         /\ \A u \in Thread : u # t => pc'[u] = pc[u] /\ todo'[u] = todo[u]
BY DEF TypeOK, TasksTypeOK, Goto

\* Only the exit path leads to its end.
LEMMA NoShortcut ==
  ASSUME NEW label \in Calling, label # "teardown"
  PROVE  /\ {label, Continue[label]} \cap {"teardown", "ended"} = {}
         /\ ErrnoOverwritten(label) \in Calling /\ ErrnoOverwritten(label) # "teardown"
BY DEF Calling, Continue, ErrnoOverwritten

\* A step of one thread that neither main nor the logger takes on its exit path.
LEMMA Elsewhere ==
  ASSUME OnTheWayOut, NEW t \in Thread, pc[t] # "ended",
         \A u \in Thread : u # t => pc'[u] = pc[u] /\ todo'[u] = todo[u],
         t \in {"main", "logger"} => pc'[t] \notin {"teardown", "ended"},
         t # "main" => UNCHANGED linked,
         t # "logger" => UNCHANGED out_file
  PROVE  OnTheWayOut'
<1>1. pc'["main"] # "ended"
  BY MainInThread DEF OnTheWayOut
<1>2. pc'["main"] = "teardown" => StillToDo(todo["main"])'
  <2>1. SUFFICES ASSUME pc'["main"] = "teardown" PROVE StillToDo(todo["main"])'
    OBVIOUS
  <2>2. t # "main" /\ pc["main"] = "teardown" /\ todo'["main"] = todo["main"] /\ linked' = linked
    BY <2>1, MainInThread
  <2>3. \A u \in Task : pc[u] = "ended" => pc'[u] = "ended"
    BY MainInThread
  <2> QED
    BY <2>2, <2>3 DEF OnTheWayOut, StillToDo, Ahead
<1>3. pc'["logger"] = "teardown" => todo'["logger"] = <<Do("fclose", "logger")>>
  BY MainInThread DEF OnTheWayOut
<1>4. pc'["logger"] = "ended" => out_file' = "closed"
  BY MainInThread DEF OnTheWayOut
<1> QED
  BY <1>1, <1>2, <1>3, <1>4 DEF OnTheWayOut

\* A step that moves no thread.
LEMMA NobodyMoves ==
  ASSUME OnTheWayOut, UNCHANGED <<pc, todo, linked, out_file>>
  PROVE  OnTheWayOut'
BY DEF OnTheWayOut, StillToDo, Ahead

\* A call or an interrupted call outside the exit path.
LEMMA CallElsewhere ==
  ASSUME TypeOK, OnTheWayOut, NEW t \in Thread, pc[t] \in Calling,
         t \in {"main", "logger"} => pc[t] # "teardown",
         NEW label \in {pc[t], ErrnoOverwritten(pc[t])}, NEW script, Run(t, label, script),
         t # "main" => UNCHANGED linked,
         t # "logger" => UNCHANGED out_file
  PROVE  OnTheWayOut'
<1>1. pc[t] # "ended"
  BY DEF Calling, Continue
<1>2. t \in {"main", "logger"} => pc'[t] \notin {"teardown", "ended"}
  <2>1. pc'[t] \in {label, Continue[label]}
    BY RunMoves
  <2>2. SUFFICES ASSUME pc[t] # "teardown" PROVE {label, Continue[label]} \cap {"teardown", "ended"} = {}
    BY <2>1
  <2> QED
    BY <2>2, NoShortcut
<1>3. \A u \in Thread : u # t => pc'[u] = pc[u] /\ todo'[u] = todo[u]
  BY RunMoves
<1> QED
  BY <1>1, <1>2, <1>3, Elsewhere

\* A call of the exit path other than the last leaves the rest of it to do.
LEMMA ExitPathGoesOn ==
  ASSUME TypeOK, OnTheWayOut, pc["main"] = "teardown", NextCall("main").call # "exit",
         Run("main", "teardown", Tail(todo["main"])), UNCHANGED out_file,
         linked' => linked /\ NextCall("main").call # "mq_unlink",
         NextCall("main").call = "pthread_join" => pc[Target] = "ended"
  PROVE  OnTheWayOut'
<1> DEFINE s == todo["main"]
           r == Tail(s)
<1>1. /\ s \in Seq(TeardownCall) /\ s # <<>>
      /\ \A i \in 1..Len(s) : s[i].call = "exit" <=> i = Len(s)
      /\ linked => Ahead(s, Do("mq_unlink", "main"))
      /\ \A t \in Task : pc[t] = "ended" \/ Ahead(s, Do("pthread_join", t))
  BY DEF OnTheWayOut, StillToDo
<1>2. /\ Len(s) \in Nat \ {0} /\ NextCall("main") = s[1] /\ Head(s) = s[1]
      /\ r \in Seq(TeardownCall) /\ Len(r) = Len(s) - 1
      /\ \A i \in 1..Len(r) : r[i] = s[i + 1]
  BY <1>1, HeadTailProperties, EmptySeq DEF NextCall
<1>3. Len(s) # 1
  BY <1>1, <1>2
<1>4. r # <<>> /\ Len(r) \in Nat \ {0}
  <2>1. Len(r) \in Nat \ {0}
    BY <1>2, <1>3
  <2>2. Len(<<>>) = 0
    OBVIOUS
  <2> QED
    BY <2>1, <2>2
<1>5. \A i \in 1..Len(r) : r[i].call = "exit" <=> i = Len(r)
  BY <1>1, <1>2
<1>6. /\ pc'["main"] = "teardown" /\ todo'["main"] = r
      /\ \A u \in Thread : u # "main" => pc'[u] = pc[u] /\ todo'[u] = todo[u]
  <2>1. Run("main", "teardown", r)
    OBVIOUS
  <2> HIDE DEF r
  <2> QED
    BY <1>4, <2>1, MainInThread, RunMoves
<1>7. linked' => Ahead(r, Do("mq_unlink", "main"))
  <2>1. SUFFICES ASSUME linked' PROVE Ahead(r, Do("mq_unlink", "main"))
    OBVIOUS
  <2>2. Do("mq_unlink", "main") # Head(s)
    BY <1>2, <2>1 DEF Do
  <2> QED
    BY <1>1, <2>1, <2>2, AheadTail
<1>8. ASSUME NEW t \in Task PROVE pc'[t] = "ended" \/ Ahead(r, Do("pthread_join", t))
  <2>1. t \in Thread /\ t # "main"
    BY MainInThread, TaskAssumption
  <2>2. CASE pc[t] = "ended"
    BY <1>6, <2>1, <2>2
  <2>3. CASE pc[t] # "ended"
    <3>1. Do("pthread_join", t) # Head(s)
      <4>1. SUFFICES ASSUME Do("pthread_join", t) = Head(s) PROVE FALSE
        OBVIOUS
      <4>2. NextCall("main").call = "pthread_join" /\ Target = t
        BY <1>2, <4>1 DEF Do, Target
      <4> QED
        BY <2>3, <4>2
    <3> QED
      BY <1>1, <2>3, <3>1, AheadTail
  <2> QED
    BY <2>2, <2>3
<1> HIDE DEF r
<1>9. StillToDo(todo["main"])'
  <2>1. /\ todo'["main"] \in Seq(TeardownCall) /\ todo'["main"] # <<>>
        /\ \A i \in 1..Len(todo'["main"]) : todo'["main"][i].call = "exit" <=> i = Len(todo'["main"])
    BY <1>2, <1>4, <1>5, <1>6
  <2>2. /\ linked' => Ahead(todo'["main"], Do("mq_unlink", "main"))
        /\ \A t \in Task : pc'[t] = "ended" \/ Ahead(todo'["main"], Do("pthread_join", t))
    BY <1>6, <1>7, <1>8
  <2> QED
    BY <2>1, <2>2 DEF StillToDo, Ahead
<1>10. pc'["logger"] = pc["logger"] /\ todo'["logger"] = todo["logger"]
  BY <1>6, MainInThread, TaskAssumption
<1> QED
  BY <1>6, <1>9, <1>10 DEF OnTheWayOut

\* The calls any thread makes, up to the logger's last and main's exit path.
LEMMA CommonCallOnTheWay ==
  ASSUME TypeOK, AllPermitted, OnTheWayOut, NEW t \in Thread, CommonCall(t), ~Die,
         UNCHANGED linked
  PROVE  OnTheWayOut'
<1>1. pc[t] \in Calling /\ todo[t] # <<>>
  BY DEF CommonCall
<1>2. t # "logger" => UNCHANGED out_file
  BY CommonCallPermits
<1>3. CASE t \in {"main", "logger"} => pc[t] # "teardown"
  <2>1. \E label \in {pc[t], ErrnoOverwritten(pc[t])} : \E script : Run(t, label, script)
    BY DEF CommonCall, CallSend, CallKill, CallNotify, CallMayDie, CallI2C, CallOpenLog,
           CallWriteLog, Return
  <2> QED
    BY <1>1, <1>2, <1>3, <2>1, CallElsewhere
<1>4. CASE t = "logger" /\ pc[t] = "teardown"
  <2>1. todo["logger"] = <<Do("fclose", "logger")>> /\ NextCall("logger").call = "fclose"
    BY <1>4 DEF OnTheWayOut, NextCall, Do
  <2>2. out_file' = "closed" /\ Run("logger", "teardown", Tail(todo["logger"]))
    BY <1>4, <2>1 DEF CommonCall, CallSend, CallKill, CallNotify, CallMayDie, CallI2C,
                      CallOpenLog, CallWriteLog, Return
  <2>3. Tail(todo["logger"]) = <<>> /\ Continue["teardown"] = "ended"
    BY <2>1 DEF Continue
  <2>4. /\ pc'["logger"] = "ended"
        /\ \A u \in Thread : u # "logger" => pc'[u] = pc[u] /\ todo'[u] = todo[u]
    BY <2>2, <2>3, MainInThread, RunMoves
  <2>5. pc'["main"] = "teardown" => StillToDo(todo["main"])'
    <3>1. \A u \in Task : pc[u] = "ended" => pc'[u] = "ended"
      BY <2>4, MainInThread
    <3>2. pc'["main"] = pc["main"] /\ todo'["main"] = todo["main"] /\ linked' = linked
      BY <2>4, MainInThread, TaskAssumption
    <3> QED
      BY <3>1, <3>2 DEF OnTheWayOut, StillToDo, Ahead
  <2> QED
    <3>1. pc'["main"] # "ended"
      BY <2>4, MainInThread, TaskAssumption DEF OnTheWayOut
    <3> QED
      BY <2>2, <2>4, <2>5, <3>1 DEF OnTheWayOut
<1>5. CASE t = "main" /\ pc[t] = "teardown"
  <2>1. StillToDo(todo["main"])
    BY <1>5 DEF OnTheWayOut
  <2>2. NextCall("main") \in TeardownCall /\ Tail(todo["main"]) \in Seq(TeardownCall)
    BY <2>1, HeadTailProperties DEF StillToDo, NextCall
  <2>3. NextCall("main").call = "mq_send" /\ Run("main", "teardown", Tail(todo["main"]))
    BY <1>5, <2>2 DEF TeardownCall, CommonCall, CallSend, CallKill, CallNotify, CallMayDie,
                      CallI2C, CallOpenLog, CallWriteLog, Return
  <2>4. UNCHANGED out_file
    BY <1>2, <1>5
  <2> QED
    BY <1>5, <2>3, <2>4, ExitPathGoesOn
<1> QED
  BY <1>3, <1>4, <1>5

\* A step of a loop that does not enter the exit path.
LEMMA LoopElsewhere ==
  ASSUME TypeOK, OnTheWayOut, NEW t \in Thread, pc[t] # "ended",
         NEW label,
         \/ label \notin {"teardown", "ended"} /\ Goto(t, label) /\ UNCHANGED todo
         \/ label \in Calling \ {"teardown"} /\ \E script : Run(t, label, script),
         UNCHANGED <<linked, out_file>>
  PROVE  OnTheWayOut'
<1>1. CASE label \notin {"teardown", "ended"} /\ Goto(t, label) /\ UNCHANGED todo
  <2>1. pc'[t] = label /\ \A u \in Thread : u # t => pc'[u] = pc[u] /\ todo'[u] = todo[u]
    BY <1>1, GotoMoves
  <2> QED
    BY <1>1, <2>1, Elsewhere
<1>2. CASE label \in Calling \ {"teardown"} /\ \E script : Run(t, label, script)
  <2>1. /\ pc'[t] \in {label, Continue[label]}
        /\ \A u \in Thread : u # t => pc'[u] = pc[u] /\ todo'[u] = todo[u]
    BY <1>2, RunMoves
  <2>2. pc'[t] \notin {"teardown", "ended"}
    BY <1>2, <2>1, NoShortcut
  <2> QED
    BY <2>1, <2>2, Elsewhere
<1> QED
  BY <1>1, <1>2

\* Main enters its exit path with everything ahead of it.
LEMMA MainLoopOnTheWay ==
  ASSUME TypeOK, OnTheWayOut, MainLoop
  PROVE  OnTheWayOut'
<1>1. UNCHANGED <<linked, out_file>> /\ pc["main"] = "loop"
  BY DEF MainLoop, mainVars
<1>2. CASE Goto("main", "sigwait") /\ UNCHANGED todo
  BY <1>1, <1>2, MainInThread, LoopElsewhere
<1>3. CASE Run("main", "teardown", MainTeardownScript)
  <2>1. /\ todo'["main"] = MainTeardownScript /\ pc'["main"] = "teardown"
        /\ \A u \in Thread : u # "main" => pc'[u] = pc[u] /\ todo'[u] = todo[u]
    BY <1>3, MainInThread, RunMoves, ExitPathStarts
  <2>2. StillToDo(todo["main"])'
    BY <2>1, ExitPathStarts DEF StillToDo, Ahead
  <2>3. pc'["logger"] = pc["logger"] /\ todo'["logger"] = todo["logger"]
    BY <2>1, MainInThread, TaskAssumption
  <2> QED
    BY <1>1, <2>1, <2>2, <2>3 DEF OnTheWayOut
<1> QED
  BY <1>2, <1>3 DEF MainLoop

\* The rest of main's loop and processHeartbeats do not enter it.
LEMMA MainRoundsOnTheWay ==
  ASSUME TypeOK, OnTheWayOut, ~Die,
         \/ MainSigwait \/ MainTimer \/ MainNotify \/ MainReceive
         \/ MainReceiveEmpty \/ MainTick \/ MainStartup
         \/ HbReceive \/ HbReceiveEmpty \/ HbCheck \/ HbJudge \/ HbRaise
  PROVE  OnTheWayOut'
<1>1. UNCHANGED <<linked, out_file>>
  BY DEF MainSigwait, MainTimer, MainNotify, MainReceive, MainReceiveEmpty, MainTick, MainStartup,
         HbReceive, HbReceiveEmpty, HbCheck, HbJudge, HbRaise, mainVars
<1>2. "main" \in Thread /\ pc["main"] # "ended"
  BY MainInThread DEF OnTheWayOut
<1>3. {"handle", "again", "round", "hb_handle", "hb_again", "verdict"} \subseteq Calling \ {"teardown"}
  BY DEF Calling, Continue
<1>4. \/ \E label \in {"notify", "tick", "receive", "startup", "hb_receive", "raise"} :
           Goto("main", label) /\ UNCHANGED todo
      \/ \E label \in {"handle", "again", "round", "hb_handle", "hb_again", "verdict"} : \E script :
           Run("main", label, script)
  <2>1. CASE MainSigwait \/ MainTimer \/ MainNotify
    BY <2>1 DEF MainSigwait, MainTimer, MainNotify
  <2>2. CASE MainReceive \/ MainReceiveEmpty \/ MainStartup
    BY <2>2 DEF MainReceive, MainReceiveEmpty, MainStartup
  <2>3. CASE MainTick
    BY <2>3 DEF MainTick
  <2>4. CASE HbReceive \/ HbReceiveEmpty \/ HbCheck
    BY <2>4 DEF HbReceive, HbReceiveEmpty, HbCheck
  <2>5. CASE HbJudge \/ HbRaise
    BY <2>5 DEF HbJudge, HbRaise
  <2> QED
    BY <2>1, <2>2, <2>3, <2>4, <2>5
<1>5. CASE \E label \in {"notify", "tick", "receive", "startup", "hb_receive", "raise"} :
             Goto("main", label) /\ UNCHANGED todo
  BY <1>1, <1>2, <1>5, LoopElsewhere
<1>6. CASE \E label \in {"handle", "again", "round", "hb_handle", "hb_again", "verdict"} : \E script :
             Run("main", label, script)
  BY <1>1, <1>2, <1>3, <1>6, LoopElsewhere
<1> QED
  BY <1>4, <1>5, <1>6

\* Main's own calls, up to exit.
LEMMA MainCallOnTheWay ==
  ASSUME TypeOK, OnTheWayOut,
         CallStop \/ CallSetError \/ CallAlarm \/ CallUnlink \/ CallJoin
  PROVE  OnTheWayOut' /\ process' = process
<1>1. /\ pc["main"] \in Calling /\ Return("main")
      /\ UNCHANGED <<process, out_file>>
  BY DEF CallStop, CallSetError, CallAlarm, CallUnlink, CallJoin, MainCall, mainVars
<1>2. NextCall("main").call # "exit"
  BY DEF CallStop, CallSetError, CallAlarm, CallUnlink, CallJoin, MainCall
<1>3. linked' => linked /\ NextCall("main").call # "mq_unlink"
  BY DEF CallStop, CallSetError, CallAlarm, CallUnlink, CallJoin, MainCall, mainVars
<1>4. NextCall("main").call = "pthread_join" => pc[Target] = "ended"
  BY DEF CallStop, CallSetError, CallAlarm, CallUnlink, CallJoin, MainCall
<1>5. ASSUME pc["main"] = "teardown" PROVE OnTheWayOut'
  <2>1. Run("main", "teardown", Tail(todo["main"]))
    BY <1>1, <1>5 DEF Return, Run
  <2> QED
    BY <1>1, <1>2, <1>3, <1>4, <1>5, <2>1, ExitPathGoesOn
<1>6. ASSUME pc["main"] # "teardown" PROVE OnTheWayOut'
  <2>1. Run("main", pc["main"], Tail(todo["main"]))
    BY <1>1 DEF Return
  <2>2. "main" \in Thread /\ pc["main"] \in {pc["main"], ErrnoOverwritten(pc["main"])}
    BY MainInThread
  <2> QED
    BY <1>1, <1>6, <2>1, <2>2, CallElsewhere
<1> QED
  BY <1>1, <1>5, <1>6

\* Exit, when nothing else is left to do.
LEMMA ExitLeavesNothing ==
  ASSUME TypeOK, AllPermitted, OnTheWayOut, CallExit, ~Die
  PROVE  process' = "exited" /\ ExitReapsAll'
<1> DEFINE s == todo["main"]
<1>1. /\ pc["main"] \in Calling /\ s # <<>> /\ NextCall("main").call = "exit"
      /\ process' = "exited" /\ Run("main", pc["main"], Tail(s))
      /\ UNCHANGED <<linked, out_file>>
  BY DEF CallExit, MainCall, Return
<1>2. pc["main"] = "teardown"
  <2>1. NextCall("main") \in Permitted("main", pc["main"])
    BY <1>1, MainInThread, RestPermitted
  <2> QED
    BY <1>1, <2>1 DEF Permitted, ExitCall
<1>3. /\ s \in Seq(TeardownCall)
      /\ \A i \in 1..Len(s) : s[i].call = "exit" <=> i = Len(s)
      /\ linked => Ahead(s, Do("mq_unlink", "main"))
      /\ \A t \in Task : pc[t] = "ended" \/ Ahead(s, Do("pthread_join", t))
  BY <1>2 DEF OnTheWayOut, StillToDo
<1>4. /\ Len(s) \in Nat \ {0} /\ NextCall("main") = s[1]
      /\ Tail(s) \in Seq(TeardownCall) /\ Len(Tail(s)) = Len(s) - 1
  BY <1>1, <1>3, HeadTailProperties, EmptySeq DEF NextCall
<1>5. Len(s) = 1
  <2>1. 1 \in 1..Len(s) /\ s[1].call = "exit"
    BY <1>1, <1>4
  <2> QED
    BY <1>3, <2>1
<1>6. \A c : Ahead(s, c) => c.call = "exit"
  BY <1>1, <1>4, <1>5 DEF Ahead
<1>7. ~linked /\ \A t \in Task : pc[t] = "ended"
  <2>1. \A t : Do("mq_unlink", t).call # "exit" /\ Do("pthread_join", t).call # "exit"
    BY DEF Do
  <2> QED
    BY <1>3, <1>6, <2>1
<1>8. Tail(s) = <<>> /\ Continue["teardown"] = "ended"
  <2>1. Len(Tail(s)) = 0
    BY <1>4, <1>5
  <2>2. Tail(s) = <<>>
    BY <1>4, <2>1, EmptySeq
  <2> QED
    BY <2>2 DEF Continue
<1>9. /\ pc'["main"] = "ended"
      /\ \A u \in Thread : u # "main" => pc'[u] = pc[u]
  <2>1. Run("main", "teardown", <<>>)
    BY <1>1, <1>2, <1>8 DEF Run
  <2> QED
    BY <1>8, <2>1, MainInThread, RunMoves
<1>10. \A u \in Thread : pc'[u] = "ended"
  BY <1>7, <1>9 DEF Thread
<1>11. out_file = "closed"
  BY <1>7, TaskAssumption DEF OnTheWayOut
<1> QED
  BY <1>1, <1>7, <1>10, <1>11 DEF ExitReapsAll

\* The steps of a task.
LEMMA TaskOnTheWay ==
  ASSUME TypeOK, AllPermitted, OnTheWayOut, NEW t \in Task, TaskStep(t), ~Die, UNCHANGED linked
  PROVE  OnTheWayOut'
<1>1. t \in Thread /\ t # "main" /\ {"handle", "again"} \subseteq Calling \ {"teardown"}
  BY MainInThread, TaskAssumption DEF Calling, Continue
<1>2. CASE CommonCall(t)
  BY <1>1, <1>2, CommonCallOnTheWay
<1>3. CASE TaskLoop(t)
  <2>1. pc[t] = "loop" /\ UNCHANGED out_file
    BY <1>3 DEF TaskLoop
  <2>2. CASE Goto(t, "sigwait") /\ UNCHANGED todo
    BY <1>1, <2>1, <2>2, LoopElsewhere
  <2>3. CASE Run(t, "teardown", TeardownScript(t))
    <3>1. /\ todo'[t] = TeardownScript(t)
          /\ \A u \in Thread : u # t => pc'[u] = pc[u] /\ todo'[u] = todo[u]
      BY <1>1, <2>3, RunMoves
    <3>2. CASE t # "logger"
      BY <1>1, <2>1, <3>1, <3>2, Elsewhere
    <3>3. CASE t = "logger"
      <4>1. TeardownScript(t) = <<Do("fclose", "logger")>> /\ TeardownScript(t) # <<>>
        BY <3>3 DEF TeardownScript
      <4>2. pc'["logger"] = "teardown"
        BY <1>1, <2>3, <3>3, <4>1, RunMoves
      <4>3. /\ pc'["main"] = pc["main"] /\ todo'["main"] = todo["main"]
            /\ \A u \in Task : pc[u] = "ended" => pc'[u] = "ended"
        BY <1>1, <2>1, <3>1, <3>3, MainInThread
      <4>4. pc'["main"] = "teardown" => StillToDo(todo["main"])'
        BY <4>3 DEF OnTheWayOut, StillToDo, Ahead
      <4> QED
        BY <3>1, <3>3, <4>1, <4>2, <4>3, <4>4 DEF OnTheWayOut
    <3> QED
      BY <3>2, <3>3
  <2> QED
    BY <1>3, <2>2, <2>3 DEF TaskLoop
<1>4. CASE TaskSigwait(t) \/ TaskNotify(t)
  <2>1. /\ pc[t] \in {"sigwait", "notify"} /\ UNCHANGED <<todo, out_file>>
        /\ \E label \in {"notify", "receive"} : Goto(t, label)
    BY <1>4 DEF TaskSigwait, TaskNotify
  <2> QED
    BY <1>1, <2>1, LoopElsewhere
<1>5. CASE TaskReceive(t) \/ TaskReceiveEmpty(t)
  <2>1. /\ pc[t] = "receive" /\ UNCHANGED out_file
        /\ \E label \in {"handle", "again"} : \E script : Run(t, label, script)
    BY <1>5 DEF TaskReceive, TaskReceiveEmpty
  <2> QED
    BY <1>1, <2>1, LoopElsewhere
<1> QED
  BY <1>2, <1>3, <1>4, <1>5 DEF TaskStep

\* No call of the two exit paths is one that goes on after an interruption.
LEMMA NotInterrupted ==
  ASSUME OnTheWayOut, NEW t \in {"main", "logger"}, Blocked(t), Interrupted(t)
  PROVE  pc[t] # "teardown"
<1>1. SUFFICES ASSUME pc[t] = "teardown" PROVE FALSE
  OBVIOUS
<1>2. NextCall(t).call = "mq_send"
  BY DEF Blocked
<1>3. CASE t = "logger"
  BY <1>1, <1>2, <1>3 DEF OnTheWayOut, NextCall, Do
<1>4. CASE t = "main"
  <2>1. NextCall("main") \in TeardownCall
    BY <1>1, <1>4, HeadTailProperties DEF OnTheWayOut, StillToDo, NextCall
  <2>2. NextCall("main").msg.id = "FILE_CHANGE"
    BY <1>2, <1>4, <2>1 DEF TeardownCall
  <2> QED
    BY <1>4, <2>2 DEF Interrupted
<1> QED
  BY <1>3, <1>4

\* handleCtrlC, on whichever thread it runs.
LEMMA SignalOnTheWay ==
  ASSUME TypeOK, AllPermitted, OnTheWayOut, NEW t \in Thread, handleCtrlC(t), ~Die,
         UNCHANGED linked
  PROVE  AllPermitted' /\ OnTheWayOut' /\ process' = process
<1>1. /\ UNCHANGED <<pc, todo>> \/ (Blocked(t) /\ Interrupted(t))
      /\ UNCHANGED <<out_file, process>>
  BY DEF handleCtrlC
<1>2. CASE UNCHANGED <<pc, todo>>
  BY <1>1, <1>2, NobodyMoves DEF AllPermitted
<1>3. CASE Blocked(t) /\ Interrupted(t)
  <2>1. pc[t] \in Calling
    BY <1>3 DEF Blocked
  <2>2. PICK script \in Seq(Call) : Run(t, ErrnoOverwritten(pc[t]), script)
    BY <1>3, InterruptedRuns
  <2>3. OnTheWayOut'
    BY <1>1, <1>3, <2>1, <2>2, NotInterrupted, CallElsewhere
  <2>4. AllPermitted'
    BY <1>3, InterruptedPermits
  <2> QED
    BY <1>1, <2>3, <2>4
<1> QED
  BY <1>1, <1>2, <1>3

\* A server that starts is far from its exit.
LEMMA StartPermits ==
  \A t \in Thread : FirstScripts[t] \in Seq(Permitted(t, "setup"))
<1> SUFFICES ASSUME NEW t \in Thread PROVE FirstScripts[t] \in Seq(Permitted(t, "setup"))
  OBVIOUS
<1>1. FirstScripts[t] = IF t = "main" THEN MainSetupScript ELSE SetupScript(t)
  BY DEF FirstScripts
<1>2. CASE t = "main"
  BY <1>1, <1>2, MainOrdinary, MainPermitted
<1>3. CASE t # "main"
  BY <1>1, <1>3, ScriptsPermitted DEF Thread
<1> QED
  BY <1>2, <1>3

\* A server that starts satisfies the invariant.
LEMMA InitExit == Init => ExitInv
<1> SUFFICES ASSUME Init PROVE ExitInv
  OBVIOUS
<1>1. process = "up" /\ pc = [t \in Thread |-> "setup"] /\ todo = FirstScripts
  BY DEF Init, TasksInit
<1>2. AllPermitted
  BY <1>1, StartPermits DEF AllPermitted
<1>3. OnTheWayOut
  BY <1>1, MainInThread DEF OnTheWayOut
<1> QED
  BY <1>1, <1>2, <1>3 DEF ExitInv, ExitReapsAll

\* Main's steps.
LEMMA MainExit ==
  ASSUME TypeOK, process = "up", AllPermitted, OnTheWayOut, MainStep, ~Die
  PROVE  ExitInv'
<1>1. CASE CommonCall("main") /\ UNCHANGED mainVars
  <2>1. UNCHANGED <<process, linked>>
    BY <1>1 DEF mainVars, CommonCall, CallSend, CallKill, CallNotify, CallMayDie, CallI2C,
                CallOpenLog, CallWriteLog
  <2> QED
    BY <1>1, <2>1, MainInThread, CommonCallPermits, CommonCallOnTheWay DEF ExitInv, ExitReapsAll
<1>2. CASE CallStop \/ CallSetError \/ CallAlarm \/ CallUnlink \/ CallJoin
  BY <1>2, MainCallPermits, MainCallOnTheWay DEF ExitInv, ExitReapsAll
<1>3. CASE CallExit
  BY <1>3, ExitLeavesNothing DEF ExitInv
<1>4. CASE \/ MainLoop \/ MainSigwait \/ MainTimer \/ MainNotify \/ MainReceive
           \/ MainReceiveEmpty \/ MainTick \/ MainStartup
           \/ HbReceive \/ HbReceiveEmpty \/ HbCheck \/ HbJudge \/ HbRaise
  <2>1. process' = process
    BY <1>4 DEF MainLoop, MainSigwait, MainTimer, MainNotify, MainReceive, MainReceiveEmpty,
                MainTick, MainStartup, HbReceive, HbReceiveEmpty, HbCheck, HbJudge,
                HbRaise
  <2>2. AllPermitted'
    BY <1>4, MainLoopPermits
  <2>3. OnTheWayOut'
    BY <1>4, MainLoopOnTheWay, MainRoundsOnTheWay
  <2> QED
    BY <2>1, <2>2, <2>3 DEF ExitInv, ExitReapsAll
<1> QED
  BY <1>1, <1>2, <1>3, <1>4 DEF MainStep

\* No step of the server, its users, its clients or a restart breaks the invariant.
LEMMA NextExit == TypeOK /\ ExitInv /\ [Next]_vars => ExitInv'
<1> SUFFICES ASSUME TypeOK, ExitInv, [Next]_vars PROVE ExitInv'
  OBVIOUS
<1>1. CASE UNCHANGED vars
  <2>1. UNCHANGED <<pc, todo, process, linked, out_file>>
    BY <1>1 DEF vars, taskVars, mainVars
  <2>2. ExitReapsAll' /\ (AllPermitted => AllPermitted')
    BY <2>1 DEF ExitInv, ExitReapsAll, AllPermitted
  <2> QED
    BY <2>1, <2>2, NobodyMoves DEF ExitInv
<1>2. CASE Die
  BY <1>2 DEF Die, ExitInv, ExitReapsAll
<1>3. CASE Restart
  <2>1. process' = "up" /\ pc' = [t \in Thread |-> "setup"] /\ todo' = FirstScripts
    BY <1>3 DEF Restart
  <2>2. AllPermitted'
    BY <2>1, StartPermits DEF AllPermitted
  <2>3. OnTheWayOut'
    BY <2>1, MainInThread DEF OnTheWayOut
  <2> QED
    BY <2>1, <2>2, <2>3 DEF ExitInv, ExitReapsAll
<1>4. ASSUME process = "up", ~Die, MainStep PROVE ExitInv'
  BY <1>4, MainExit DEF ExitInv
<1>5. ASSUME process = "up", ~Die, NEW t \in Task, ServerTask(t) PROVE ExitInv'
  <2>1. TaskStep(t) /\ UNCHANGED linked
    BY <1>5 DEF ServerTask, mainVars
  <2>2. process' = process
    BY <1>5, <2>1 DEF TaskStep, CommonCall, CallSend, CallKill, CallNotify, CallMayDie, CallI2C,
        CallOpenLog, CallWriteLog, TaskLoop, TaskSigwait, TaskNotify, TaskReceive, TaskReceiveEmpty
  <2> QED
    BY <1>5, <2>1, <2>2, TaskPermits, TaskOnTheWay DEF ExitInv, ExitReapsAll
<1>6. ASSUME process = "up", ~Die, NEW s \in StopSignals, UserSignal(s) PROVE ExitInv'
  <2>1. PICK t \in Thread : handleCtrlC(t)
    BY <1>6 DEF UserSignal
  <2>2. UNCHANGED linked
    BY <1>6 DEF UserSignal
  <2> QED
    BY <1>6, <2>1, <2>2, SignalOnTheWay DEF ExitInv, ExitReapsAll
<1>7. ASSUME process = "up", NEW t \in ClientTargets, ClientSend(t) PROVE ExitInv'
  <2>1. UNCHANGED <<pc, todo, process, linked, out_file>>
    BY <1>7 DEF ClientSend, taskVars, mainVars
  <2>2. AllPermitted' /\ OnTheWayOut'
    BY <1>7, <2>1, NobodyMoves DEF ExitInv, AllPermitted
  <2> QED
    BY <1>7, <2>1, <2>2 DEF ExitInv, ExitReapsAll
<1> QED
  BY <1>1, <1>2, <1>3, <1>4, <1>5, <1>6, <1>7 DEF Next, ServerStep, Terminated

\* The invariant holds in every state.
THEOREM ExitInvariant == Spec => []ExitInv
<1>1. Init => ExitInv
  BY InitExit
<1>2. TypeOK /\ ExitInv /\ [Next]_vars => ExitInv'
  BY NextExit
<1> QED
  BY <1>1, <1>2, TypeCorrect, PTL DEF Spec

(***************************************************************************)
(* A server that returns from main() has unlinked its queues, closed its   *)
(* log file and joined every thread after it had ended by itself, however  *)
(* many stop signals arrive and on whichever thread they are handled.      *)
(***************************************************************************)
THEOREM ExitReaps == Spec => []ExitReapsAll
<1>1. ExitInv => ExitReapsAll
  BY DEF ExitInv
<1> QED
  BY <1>1, ExitInvariant, PTL
===============================================================================
