-------------------------------- MODULE Tasks --------------------------------
(***************************************************************************)
(* The event loop of the temperature, light and logger threads             *)
(* (src/temp_driver.c, src/light_driver.c, src/logger.c).                  *)
(*                                                                         *)
(* A thread that runs a stretch of code with calls another thread can      *)
(* observe holds those calls, in program order, in todo[t] and performs    *)
(* them one step at a time; pc[t] says which stretch it is in.  A send to  *)
(* a full queue leaves the thread where it is.                             *)
(***************************************************************************)
EXTENDS MessageQueues

CONSTANTS
  MaxSensorErrors,  \* error lines a failing conversation with a sensor may log;
                    \* 0 for sensors that always answer
  LogMayFail        \* fopen of the log file may fail

ASSUME MaxSensorErrorsAssumption == MaxSensorErrors \in Nat
ASSUME LogMayFailAssumption == LogMayFail \in BOOLEAN

VARIABLES
  pc,           \* pc[t]: where thread t is in its code
  todo,         \* todo[t]: the calls it still makes before it moves on
  in_buffer,    \* in_buffer[t]: what its receive buffer holds
  task_state,   \* temp_state, light_state and logger_state
  process,      \* the process all threads live in
  out_file      \* the logger's file: not opened yet, open, NULL, or closed

taskVars == <<pc, todo, in_buffer, task_state, process, out_file>>

(***************************************************************************)
(* Calls, and the stretches of code that make them.                        *)
(***************************************************************************)
CallName == {"mq_notify", "pthread_kill", "pthread_join", "open_i2c", "i2c",
             "read_payload", "initLogger", "fputs", "logFileChange",
             "fclose", "stop", "set_error", "alarm", "mq_unlink", "exit"}

Call == [call : {"mq_send"}, to : Thread, msg : Message]
          \cup [call : CallName, to : Thread, msg : {NoMessage}]

Do(call, t)         == [call |-> call, to |-> t, msg |-> NoMessage]
Send(to, id, source) == [call |-> "mq_send", to |-> to, msg |-> Msg(id, source)]
Log                  == Send("logger", "LOGGER", "server")
Repeat(call, n)     == [i \in 1..n |-> call]

\* Where a thread goes when a stretch has no calls left.
Continue ==
  [ setup |-> "loop", handle |-> "receive", again |-> "loop", teardown |-> "ended",
    hb_handle |-> "hb_receive", hb_again |-> "check", verdict |-> "judge",
    round |-> "loop" ]

\* The drain loops test errno for EAGAIN after handling the buffer once more:
\* a call in that last stretch that fails hides EAGAIN and the loop goes on.
ErrnoOverwritten(label) ==
  IF label = "again" THEN "handle" ELSE IF label = "hb_again" THEN "hb_handle" ELSE label

Calling == DOMAIN Continue
Label   == Calling \cup {"loop", "sigwait", "notify", "receive", "ended", "tick",
                         "startup", "hb_receive", "check", "judge", "raise"}

\* Thread t is in stretch `label' with the calls `script' to make.
Run(t, label, script) ==
  /\ todo' = [todo EXCEPT ![t] = script]
  /\ pc' = [pc EXCEPT ![t] = IF script = <<>> THEN Continue[label] ELSE label]

Goto(t, label) == pc' = [pc EXCEPT ![t] = label]

NextCall(t) == Head(todo[t])
Return(t) == Run(t, pc[t], Tail(todo[t]))

TasksTypeOK ==
  /\ pc \in [Thread -> Label]
  /\ todo \in [Thread -> Seq(Call)]
  /\ in_buffer \in [Thread -> Message \cup {NoMessage}]
  /\ task_state \in [Task -> {"RUNNING", "SHUTDOWN"}]
  /\ process \in {"up", "exited", "dead"}
  /\ out_file \in {"none", "open", "NULL", "closed"}

(***************************************************************************)
(* What each task does before its loop, for a message, and after its loop. *)
(***************************************************************************)
SetupScript(t) ==
  [ temp   |-> <<Log, Do("mq_notify", t), Log, Do("open_i2c", t)>>,
    light  |-> <<Log, Do("mq_notify", t), Do("open_i2c", t), Log>>,
    logger |-> <<Do("mq_notify", t), Do("initLogger", t)>> ][t]

TeardownScript(t) == IF t = "logger" THEN <<Do("fclose", t)>> ELSE <<Log>>

\* A payload is passed by address.  That of a client is an address of the
\* client's own memory, that of an ended server one of no process at all.
Payload(t, m) == IF m.source \in {"client", "gone"} THEN <<Do("read_payload", t)>> ELSE <<>>

On(id, m, script) == IF m.id = id THEN script ELSE <<>>

TempScript(m) ==
  On("TEMP_DATA_REQ", m,
     <<Log>> \o Payload("temp", m) \o <<Send("main", "TEMP_VALUE", "temp")>>)
  \o On("HEARTBEAT_REQ", m, <<Send("main", "HEARTBEAT_RSP", "temp"), Do("i2c", "temp")>>)

LightScript(m) ==
  On("LIGHT_DATA_REQ", m,
     <<Log, Do("i2c", "light"), Send("main", "LIGHT_VALUE", "light")>>)
  \o On("HEARTBEAT_REQ", m, <<Send("main", "HEARTBEAT_RSP", "light")>>)

\* A line with a source the logger does not know, such as the client's, is
\* dropped before anything of it is read.
logMessage(m) ==
  IF m.source = "client" THEN <<>> ELSE Payload("logger", m) \o <<Do("fputs", "logger")>>

\* Wrong variant: the answer carries the source of the request, an index main
\* has no flag for.
LoggerScript_echo(m) ==
  On("LOGGER", m, logMessage(m)) \o On("FILE_CHANGE", m, <<Do("logFileChange", "logger")>>)
  \o On("HEARTBEAT_REQ", m, <<Send("main", "HEARTBEAT_RSP", m.source)>>)

LoggerScript(m) ==
  On("LOGGER", m, logMessage(m)) \o On("FILE_CHANGE", m, <<Do("logFileChange", "logger")>>)
  \o On("HEARTBEAT_REQ", m, <<Send("main", "HEARTBEAT_RSP", "logger")>>)

Script(t, m) ==
  [temp |-> TempScript(m), light |-> LightScript(m), logger |-> LoggerScript(m)][t]

\* A buffer that was never filled is stack memory: zeroes, which read as a
\* HEARTBEAT_REQ (the first Message_Type), or bytes that match no id.
BufferReadings(t) ==
  IF in_buffer[t] = NoMessage THEN {NoMessage, Msg("HEARTBEAT_REQ", "main")}
                              ELSE {in_buffer[t]}

\* The end of the process is the end of all its threads, with their stacks,
\* notifications and signals; the queues stay.
Die ==
  /\ process' = "dead"
  /\ pc' = [t \in Thread |-> "ended"]
  /\ todo' = [t \in Thread |-> <<>>]
  /\ in_buffer' = [t \in Thread |-> NoMessage]
  /\ registered' = [t \in Thread |-> FALSE]
  /\ pending' = [t \in Thread |-> 0]
  /\ out_file' = "none"
  /\ UNCHANGED queue

TasksInit ==
  /\ task_state = [t \in Task |-> "RUNNING"]
  /\ process = "up"
  /\ out_file = "none"

(***************************************************************************)
(* The calls any thread makes.                                             *)
(***************************************************************************)
CallSend(t) ==
  /\ NextCall(t).call = "mq_send"
  /\ mq_send(NextCall(t).to, NextCall(t).msg)
  /\ Return(t)
  /\ UNCHANGED <<in_buffer, task_state, process, out_file>>

CallKill(t) ==
  /\ NextCall(t).call = "pthread_kill"
  /\ pthread_kill(NextCall(t).to)
  /\ Return(t)
  /\ UNCHANGED <<in_buffer, task_state, process, out_file>>

CallNotify(t) ==
  /\ NextCall(t).call = "mq_notify"
  /\ mq_notify(t)
  /\ Return(t)
  /\ UNCHANGED <<in_buffer, task_state, process, out_file>>

\* initTempDriver and initLightDriver call exit(1) when the bus cannot be
\* opened; reading an address of another process, or of none, either faults or
\* yields some value, which only selects a unit or the text of a line.
CallMayDie(t) ==
  /\ NextCall(t).call \in {"open_i2c", "read_payload"}
  /\ \/ Return(t) /\ UNCHANGED <<mqVars, in_buffer, process, out_file>>
     \/ Die
  /\ UNCHANGED task_state

\* Every failed write or read of a conversation sends an error line to the
\* logger and leaves its error in errno; the conversation goes on regardless.
CallI2C(t) ==
  /\ NextCall(t).call = "i2c"
  /\ \/ Return(t)
     \/ \E n \in 1..MaxSensorErrors :
          Run(t, ErrnoOverwritten(pc[t]), Repeat(Log, n) \o Tail(todo[t]))
  /\ UNCHANGED <<mqVars, in_buffer, task_state, process, out_file>>

\* initLogger and logFileChange close and open a file of the name they are
\* given and write a first line into it; a name that cannot be opened leaves
\* NULL.  fclose and fputs of NULL end the process.
Opened(out_file_before, bad_name) ==
  /\ out_file_before # "NULL"
  /\ out_file' \in {"open"} \cup IF LogMayFail \/ bad_name THEN {"NULL"} ELSE {}

CallOpenLog(t) ==
  /\ \/ /\ \/ NextCall(t).call = "initLogger" /\ Opened("none", FALSE)
           \/ NextCall(t).call = "logFileChange" /\ Opened(out_file, in_buffer[t].source = "gone")
        /\ Return(t)
        /\ UNCHANGED <<mqVars, in_buffer, process>>
     \/ NextCall(t).call = "initLogger" /\ LogMayFail /\ Die
     \/ NextCall(t).call = "logFileChange" /\ out_file = "NULL" /\ Die
  /\ UNCHANGED task_state

\* Wrong variant: a file that is not there is passed over.
CallWriteLog_silent(t) ==
  /\ NextCall(t).call \in {"fputs", "fclose"}
  /\ out_file' = IF NextCall(t).call = "fclose" THEN "closed" ELSE out_file
  /\ Return(t)
  /\ UNCHANGED <<mqVars, in_buffer, task_state, process>>

CallWriteLog(t) ==
  /\ NextCall(t).call \in {"fputs", "fclose"}
  /\ \/ /\ out_file = "open"
        /\ out_file' = IF NextCall(t).call = "fclose" THEN "closed" ELSE out_file
        /\ Return(t)
        /\ UNCHANGED <<mqVars, in_buffer, process>>
     \/ out_file # "open" /\ Die
  /\ UNCHANGED task_state

CommonCall(t) ==
  /\ pc[t] \in Calling
  /\ todo[t] # <<>>
  /\ \/ CallSend(t) \/ CallKill(t) \/ CallNotify(t) \/ CallMayDie(t) \/ CallI2C(t)
     \/ CallOpenLog(t) \/ CallWriteLog(t)

(***************************************************************************)
(* The loop: while (state > SHUTDOWN) { sigwait; mq_notify; drain }.       *)
(***************************************************************************)
TaskLoop(t) ==
  /\ pc[t] = "loop"
  /\ IF task_state[t] = "RUNNING"
       THEN Goto(t, "sigwait") /\ UNCHANGED todo
       ELSE Run(t, "teardown", TeardownScript(t))
  /\ UNCHANGED <<mqVars, in_buffer, task_state, process, out_file>>

TaskSigwait(t) ==
  /\ pc[t] = "sigwait"
  /\ sigwait(t)
  /\ Goto(t, "notify")
  /\ UNCHANGED <<todo, in_buffer, task_state, process, out_file>>

\* Wrong variant: the registration is taken for a permanent one.
TaskNotify_once(t) ==
  /\ pc[t] = "notify"
  /\ Goto(t, "receive")
  /\ UNCHANGED <<mqVars, todo, in_buffer, task_state, process, out_file>>

TaskNotify(t) ==
  /\ pc[t] = "notify"
  /\ mq_notify(t)
  /\ Goto(t, "receive")
  /\ UNCHANGED <<todo, in_buffer, task_state, process, out_file>>

TaskReceive(t) ==
  /\ pc[t] = "receive"
  /\ mq_receive(t)
  /\ in_buffer' = [in_buffer EXCEPT ![t] = Head(queue[t])]
  /\ Run(t, "handle", Script(t, Head(queue[t])))
  /\ UNCHANGED <<task_state, process, out_file>>

\* EAGAIN is not told apart from a received message: the test for it is the
\* loop condition, evaluated only after the buffer has been handled once more.
TaskReceiveEmpty(t) ==
  /\ pc[t] = "receive"
  /\ queue[t] = <<>>
  /\ \E m \in BufferReadings(t) : Run(t, "again", Script(t, m))
  /\ UNCHANGED <<mqVars, in_buffer, task_state, process, out_file>>

TaskStep(t) ==
  \/ CommonCall(t)
  \/ TaskLoop(t)
  \/ TaskSigwait(t)
  \/ TaskNotify(t)
  \/ TaskReceive(t)
  \/ TaskReceiveEmpty(t)
===============================================================================
