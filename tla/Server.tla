-------------------------------- MODULE Server --------------------------------
(***************************************************************************)
(* The server process: the main thread (src/main.c) with its heartbeat     *)
(* timer and stop signals, composed with the three tasks, and the clients  *)
(* (src/client.c) as the environment that fills the queues.                *)
(***************************************************************************)
EXTENDS Tasks

CONSTANTS
  HeartbeatPeriod,   \* the work HEARTBEAT_PERIOD is assumed to be long enough for
  StopSignals,       \* the signals a user may send to the server
  ClientTargets,     \* the queues clients may send their commands to
  Restarts           \* a server that has come to an end may be started again

\* "arbitrary": none; "covers_setup": the tasks' setup; "covers_round": in
\* addition all the work one period hands out.
ASSUME HeartbeatPeriodAssumption ==
  HeartbeatPeriod \in {"arbitrary", "covers_setup", "covers_round"}
ASSUME StopSignalsAssumption == StopSignals \subseteq {"SIGINT", "SIGTERM"}
ASSUME ClientTargetsAssumption == ClientTargets \subseteq Thread
ASSUME RestartsAssumption == Restarts \in BOOLEAN

VARIABLES
  main_state,   \* the state of the main thread
  hbt_rsp,      \* hbt_rsp[t]: main has seen a heartbeat of t since the last verdict
  hb_buffer,    \* the receive buffer in processHeartbeats' own frame
  alarm,        \* the heartbeat timer is running
  caught,       \* the stop signals handleCtrlC is still installed for
  linked        \* the queue names exist

mainVars == <<main_state, hbt_rsp, hb_buffer, alarm, caught, linked>>
vars == <<mqVars, taskVars, mainVars>>

Stopped == {"SHUTDOWN", "ERROR"}    \* not (main_state > STATE_SHUTDOWN)

TypeOK ==
  /\ MQTypeOK
  /\ TasksTypeOK
  /\ main_state \in {"STARTUP", "REQ_RSP"} \cup Stopped
  /\ hbt_rsp \in [Task -> BOOLEAN]
  /\ hb_buffer \in Message \cup {NoMessage}
  /\ alarm \in BOOLEAN
  /\ caught \subseteq {"SIGINT", "SIGTERM"}
  /\ linked \in BOOLEAN

(***************************************************************************)
(* The stretches of main's code.                                           *)
(***************************************************************************)
ForTask(t, script) == IF t \in Task THEN script ELSE <<>>

\* Wrong variant: one task is not asked.
reqHeartbeats_noLight ==
  <<Send("logger", "HEARTBEAT_REQ", "main")>>
  \o ForTask("temp", <<Send("temp", "HEARTBEAT_REQ", "main")>>)

reqHeartbeats ==
  <<Send("logger", "HEARTBEAT_REQ", "main")>>
  \o ForTask("temp", <<Send("temp", "HEARTBEAT_REQ", "main")>>)
  \o ForTask("light", <<Send("light", "HEARTBEAT_REQ", "main")>>)

MainSetupScript == <<Do("mq_notify", "main"), Log, Do("alarm", "main")>>

\* Wrong variant: nobody wakes the logger, whose queue filled before it registered.
StartupScript_noKick ==
  reqHeartbeats
  \o ForTask("temp", <<Send("temp", "TEMP_DATA_REQ", "main"), Do("pthread_kill", "temp")>>)
  \o ForTask("light", <<Send("light", "LIGHT_DATA_REQ", "main")>>)
  \o <<Do("alarm", "main")>>

StartupScript ==
  reqHeartbeats \o <<Do("pthread_kill", "logger")>>
  \o ForTask("temp", <<Send("temp", "TEMP_DATA_REQ", "main"), Do("pthread_kill", "temp")>>)
  \o ForTask("light", <<Send("light", "LIGHT_DATA_REQ", "main")>>)
  \o <<Do("alarm", "main")>>

\* Wrong variant: the timer is not started again.
RoundScript_noAlarm == reqHeartbeats \o <<Do("pthread_kill", "logger")>>

RoundScript == reqHeartbeats \o <<Do("pthread_kill", "logger"), Do("alarm", "main")>>

Each(call) == ForTask("temp", <<Do(call, "temp")>>) \o ForTask("light", <<Do(call, "light")>>)
              \o <<Do(call, "logger")>>


MainTeardownScript_noJoin ==
  <<Send("logger", "FILE_CHANGE", "main")>> \o Each("stop")
  \o <<Do("mq_unlink", "main"), Do("exit", "main")>>

MainTeardownScript ==
  <<Send("logger", "FILE_CHANGE", "main")>> \o Each("stop") \o <<Do("mq_unlink", "main")>>
  \o Each("pthread_join") \o <<Do("exit", "main")>>

\* Readings are logged; processHeartbeats logs only those of the temperature.
LogFor(ids, m) == IF m.id \in ids THEN Payload("main", m) \o <<Log>> ELSE <<>>
MainScript(m) == LogFor({"TEMP_VALUE", "LIGHT_VALUE"}, m)
HbScript(m) == LogFor({"TEMP_VALUE"}, m)

Heard(m) == IF m.id = "HEARTBEAT_RSP" THEN [hbt_rsp EXCEPT ![m.source] = TRUE]
                                      ELSE hbt_rsp

\* What the verdict of processHeartbeats does about task t.
MissingReport(t) ==
  IF t \in Task /\ ~hbt_rsp[t] THEN <<Log, Do("set_error", "main")>> ELSE <<>>

FirstScripts == [t \in Thread |-> IF t = "main" THEN MainSetupScript ELSE SetupScript(t)]

Init ==
  /\ MQInit
  /\ TasksInit
  /\ pc = [t \in Thread |-> "setup"]
  /\ todo = FirstScripts
  /\ in_buffer = [t \in Thread |-> NoMessage]
  /\ main_state = "STARTUP"
  /\ hbt_rsp = [t \in Task |-> FALSE]
  /\ hb_buffer = NoMessage
  /\ alarm = FALSE
  /\ caught = {"SIGINT", "SIGTERM"}
  /\ linked = TRUE

(***************************************************************************)
(* The calls only main makes.                                              *)
(***************************************************************************)
MainCall(name) ==
  /\ pc["main"] \in Calling
  /\ todo["main"] # <<>>
  /\ NextCall("main").call = name

Target == NextCall("main").to

\* Wrong variant: the flag alone does not end a sigwait.
CallStop_noKick ==
  /\ MainCall("stop")
  /\ task_state' = [task_state EXCEPT ![Target] = "SHUTDOWN"]
  /\ Return("main")
  /\ UNCHANGED <<mqVars, in_buffer, process, out_file, mainVars>>

\* temp_state = STATE_SHUTDOWN; pthread_kill(temp_thread, TEMP_DRIVER_SIGNO);
CallStop ==
  /\ MainCall("stop")
  /\ task_state' = [task_state EXCEPT ![Target] = "SHUTDOWN"]
  /\ pthread_kill(Target)
  /\ Return("main")
  /\ UNCHANGED <<in_buffer, process, out_file, mainVars>>

CallSetError ==
  /\ MainCall("set_error")
  /\ main_state' = "ERROR"
  /\ Return("main")
  /\ UNCHANGED <<mqVars, in_buffer, task_state, process, out_file,
                 hbt_rsp, hb_buffer, alarm, caught, linked>>

CallAlarm ==
  /\ MainCall("alarm")
  /\ alarm' = TRUE
  /\ Return("main")
  /\ UNCHANGED <<mqVars, in_buffer, task_state, process, out_file,
                 main_state, hbt_rsp, hb_buffer, caught, linked>>

\* mq_close and mq_unlink of all four queues, after the loop.  main's registration
\* goes with the descriptor it was made through; threads that have a queue open
\* keep using it.
CallUnlink ==
  /\ pc["main"] = "teardown"
  /\ MainCall("mq_unlink")
  /\ registered' = [registered EXCEPT !["main"] = FALSE]
  /\ linked' = FALSE
  /\ Return("main")
  /\ UNCHANGED <<queue, pending, in_buffer, task_state, process, out_file,
                 main_state, hbt_rsp, hb_buffer, alarm, caught>>

CallJoin ==
  /\ MainCall("pthread_join")
  /\ pc[Target] = "ended"
  /\ Return("main")
  /\ UNCHANGED <<mqVars, in_buffer, task_state, process, out_file, mainVars>>

\* The board's LED is blinked through a file whose fopen is not checked.
CallExit ==
  /\ MainCall("exit")
  /\ main_state' = "ERROR"
  /\ \/ /\ process' = "exited"
        /\ Return("main")
        /\ UNCHANGED <<mqVars, in_buffer, out_file>>
     \/ Die
  /\ UNCHANGED <<task_state, hbt_rsp, hb_buffer, alarm, caught, linked>>

(***************************************************************************)
(* Main's loop.                                                            *)
(***************************************************************************)
MainLoop ==
  /\ pc["main"] = "loop"
  /\ IF main_state \in Stopped
       THEN Run("main", "teardown", MainTeardownScript)
       ELSE Goto("main", "sigwait") /\ UNCHANGED todo
  /\ UNCHANGED <<mqVars, in_buffer, task_state, process, out_file, mainVars>>

MainSigwait ==
  /\ pc["main"] = "sigwait"
  /\ sigwait("main")
  /\ Goto("main", "notify")
  /\ UNCHANGED <<todo, in_buffer, task_state, process, out_file, mainVars>>

\* All the work handed out so far is done and every task waits for a signal.
Quiescent == \A t \in Thread : pending[t] = 0 /\ pc[t] = "sigwait"

PeriodOver ==
  /\ HeartbeatPeriod # "arbitrary" /\ main_state = "STARTUP" =>
       \A t \in Task : pc[t] # "setup"
  /\ HeartbeatPeriod = "covers_round" => Quiescent

\* sigwait returns SIGALRM.
MainTimer ==
  /\ pc["main"] = "sigwait"
  /\ alarm
  /\ PeriodOver
  /\ alarm' = FALSE
  /\ Goto("main", "tick")
  /\ UNCHANGED <<mqVars, todo, in_buffer, task_state, process, out_file,
                 main_state, hbt_rsp, hb_buffer, caught, linked>>

\* Wrong variant: main does not register again before it drains.
MainNotify_once ==
  /\ pc["main"] = "notify"
  /\ Goto("main", "receive")
  /\ UNCHANGED <<mqVars, todo, in_buffer, task_state, process, out_file, mainVars>>

\* in_buffer is a local of the block entered next: it keeps what was in its
\* place on the stack or has become indeterminate.
MainNotify ==
  /\ pc["main"] = "notify"
  /\ mq_notify("main")
  /\ \E m \in {in_buffer["main"], NoMessage} :
       in_buffer' = [in_buffer EXCEPT !["main"] = m]
  /\ Goto("main", "receive")
  /\ UNCHANGED <<todo, task_state, process, out_file, mainVars>>

\* Wrong variant: heartbeats are left to processHeartbeats.
MainReceive_noHeartbeats ==
  /\ pc["main"] = "receive"
  /\ mq_receive("main")
  /\ in_buffer' = [in_buffer EXCEPT !["main"] = Head(queue["main"])]
  /\ Run("main", "handle", MainScript(Head(queue["main"])))
  /\ UNCHANGED <<task_state, process, out_file, mainVars>>

MainReceive ==
  /\ pc["main"] = "receive"
  /\ mq_receive("main")
  /\ LET m == Head(queue["main"])
     IN  /\ in_buffer' = [in_buffer EXCEPT !["main"] = m]
         /\ hbt_rsp' = Heard(m)
         /\ Run("main", "handle", MainScript(m))
  /\ UNCHANGED <<task_state, process, out_file, main_state, hb_buffer, alarm, caught, linked>>

MainReceiveEmpty ==
  /\ pc["main"] = "receive"
  /\ queue["main"] = <<>>
  /\ hbt_rsp' = Heard(in_buffer["main"])
  /\ Run("main", "again", MainScript(in_buffer["main"]))
  /\ UNCHANGED <<mqVars, in_buffer, task_state, process, out_file,
                 main_state, hb_buffer, alarm, caught, linked>>

\* The SIGALRM branch: which of its arms is taken is read off main_state here
\* and acted upon in the next step.
MainTick ==
  /\ pc["main"] = "tick"
  /\ mq_notify("main")
  /\ \/ /\ main_state = "STARTUP"
        /\ Goto("main", "startup")
        /\ UNCHANGED <<todo, hb_buffer>>
     \/ /\ main_state = "REQ_RSP"
        /\ hb_buffer' \in {hb_buffer, NoMessage}
        /\ Goto("main", "hb_receive")
        /\ UNCHANGED todo
     \/ /\ main_state \in Stopped
        /\ Run("main", "round", <<Do("alarm", "main")>>)
        /\ UNCHANGED hb_buffer
  /\ UNCHANGED <<in_buffer, task_state, process, out_file,
                 main_state, hbt_rsp, alarm, caught, linked>>

MainStartup ==
  /\ pc["main"] = "startup"
  /\ main_state' = "REQ_RSP"
  /\ Run("main", "round", StartupScript)
  /\ UNCHANGED <<mqVars, in_buffer, task_state, process, out_file,
                 hbt_rsp, hb_buffer, alarm, caught, linked>>

(***************************************************************************)
(* processHeartbeats.                                                      *)
(***************************************************************************)
\* Wrong variant: heartbeats are left to main's own drain.
HbReceive_noHeartbeats ==
  /\ pc["main"] = "hb_receive"
  /\ mq_receive("main")
  /\ hb_buffer' = Head(queue["main"])
  /\ Run("main", "hb_handle", HbScript(Head(queue["main"])))
  /\ UNCHANGED <<in_buffer, task_state, process, out_file, main_state, hbt_rsp, alarm, caught, linked>>

HbReceive ==
  /\ pc["main"] = "hb_receive"
  /\ mq_receive("main")
  /\ hb_buffer' = Head(queue["main"])
  /\ hbt_rsp' = Heard(Head(queue["main"]))
  /\ Run("main", "hb_handle", HbScript(Head(queue["main"])))
  /\ UNCHANGED <<in_buffer, task_state, process, out_file, main_state, alarm, caught, linked>>

HbReceiveEmpty ==
  /\ pc["main"] = "hb_receive"
  /\ queue["main"] = <<>>
  /\ hbt_rsp' = Heard(hb_buffer)
  /\ Run("main", "hb_again", HbScript(hb_buffer))
  /\ UNCHANGED <<mqVars, in_buffer, task_state, process, out_file,
                 main_state, hb_buffer, alarm, caught, linked>>

\* Report every task without a heartbeat and start counting anew.
HbCheck ==
  /\ pc["main"] = "check"
  /\ Run("main", "verdict",
         MissingReport("temp") \o MissingReport("light") \o MissingReport("logger"))
  /\ hbt_rsp' = [t \in Task |-> FALSE]
  /\ UNCHANGED <<mqVars, in_buffer, task_state, process, out_file,
                 main_state, hb_buffer, alarm, caught, linked>>

\* Main goes on to the next requests, unless a task was missing: a stop signal
\* may still come between this test and the raise().
HbJudge ==
  /\ pc["main"] = "judge"
  /\ \/ main_state # "ERROR" /\ Run("main", "round", <<Log>> \o RoundScript)
     \/ main_state = "ERROR" /\ Goto("main", "raise") /\ UNCHANGED todo
  /\ UNCHANGED <<mqVars, in_buffer, task_state, process, out_file, mainVars>>

\* raise(SIGINT) runs handleCtrlC at once, unless a SIGINT already used it up:
\* signal() has System V semantics here and the handler is installed for one
\* delivery.  The requests of the next round go out even so.
HbRaise ==
  /\ pc["main"] = "raise"
  /\ \/ /\ "SIGINT" \in caught
        /\ main_state' = "SHUTDOWN"
        /\ caught' = caught \ {"SIGINT"}
        /\ pending' = Raised("main")
        /\ Run("main", "round", RoundScript)
        /\ UNCHANGED <<registered, in_buffer, process, out_file>>
     \/ /\ "SIGINT" \notin caught
        /\ Die
        /\ UNCHANGED <<main_state, caught>>
  /\ UNCHANGED <<queue, task_state, hbt_rsp, hb_buffer, alarm, linked>>

MainStep ==
  \/ CommonCall("main") /\ UNCHANGED mainVars
  \/ CallStop \/ CallSetError \/ CallAlarm \/ CallUnlink \/ CallJoin \/ CallExit
  \/ MainLoop \/ MainSigwait \/ MainTimer \/ MainNotify
  \/ MainReceive \/ MainReceiveEmpty
  \/ MainTick \/ MainStartup
  \/ HbReceive \/ HbReceiveEmpty \/ HbCheck \/ HbJudge \/ HbRaise

(***************************************************************************)
(* Stop signals, clients, and the whole.                                   *)
(***************************************************************************)
Blocked(t) ==
  /\ pc[t] \in Calling
  /\ todo[t] # <<>>
  /\ NextCall(t).call = "mq_send"
  /\ ~HasRoom(NextCall(t).to)

\* What a blocked mq_send that fails with EINTR makes its caller do: main gives
\* up the rest of reqHeartbeats; a driver logs that it could not send a reading,
\* and logFromLight calls itself again; every other failure is ignored.
Interrupted(t) ==
  LET id == NextCall(t).msg.id
      Resume(script) == Run(t, ErrnoOverwritten(pc[t]), script)
      Requests(n) == \A i \in 1..n : todo[t][i].msg.id = "HEARTBEAT_REQ"
  IN  \/ /\ id = "HEARTBEAT_REQ"
         /\ \E n \in 1..Len(todo[t]) :
              /\ Requests(n)
              /\ n < Len(todo[t]) => ~Requests(n + 1)
              /\ Resume(SubSeq(todo[t], n + 1, Len(todo[t])))
      \/ id \in {"TEMP_VALUE", "LIGHT_VALUE"} /\ Resume(<<Log>> \o Tail(todo[t]))
      \/ id = "LOGGER" /\ t = "light" /\ Resume(todo[t])
      \/ id = "LOGGER" /\ t # "light" /\ Resume(Tail(todo[t]))
      \/ id = "HEARTBEAT_RSP" /\ Resume(Tail(todo[t]))

\* main() returns when one of these could not be sent.
Vital == {"TEMP_DATA_REQ", "LIGHT_DATA_REQ", "FILE_CHANGE"}

\* handleCtrlC on the thread t the kernel picks; raise() directs the wake-up to
\* that thread, and only main ever takes HEARTBEAT_SIGNO.
handleCtrlC(t) ==
  /\ main_state' = "SHUTDOWN"
  /\ \/ /\ pending' = IF t = "main" THEN Raised(t) ELSE pending
        /\ UNCHANGED <<pc, todo>> \/ (Blocked(t) /\ Interrupted(t))
        /\ UNCHANGED <<queue, registered, in_buffer, process, out_file>>
     \/ Blocked(t) /\ NextCall(t).msg.id \in Vital /\ Die

UserSignal(s) ==
  /\ \/ /\ s \in caught
        /\ caught' = caught \ {s}
        /\ \E t \in Thread : pc[t] # "ended" /\ handleCtrlC(t)
     \/ /\ s \notin caught
        /\ Die
        /\ UNCHANGED <<main_state, caught>>
  /\ UNCHANGED <<task_state, hbt_rsp, hb_buffer, alarm, linked>>

ClientSend(t) ==
  /\ mq_send(t, ClientCommand[t])
  /\ UNCHANGED <<taskVars, mainVars>>

ServerTask(t) ==
  /\ TaskStep(t)
  /\ UNCHANGED mainVars

\* The next server opens the queues by name (O_CREAT without O_EXCL): it finds
\* what the last one left behind, unless that one got as far as mq_unlink.
Restart ==
  /\ Restarts
  /\ queue' = IF linked THEN [t \in Thread |-> [i \in DOMAIN queue[t] |-> Leftover(queue[t][i])]]
                        ELSE [t \in Thread |-> <<>>]
  /\ registered' = [t \in Thread |-> FALSE]
  /\ pending' = [t \in Thread |-> 0]
  /\ pc' = [t \in Thread |-> "setup"]
  /\ todo' = FirstScripts
  /\ in_buffer' = [t \in Thread |-> NoMessage]
  /\ task_state' = [t \in Task |-> "RUNNING"]
  /\ process' = "up"
  /\ out_file' = "none"
  /\ main_state' = "STARTUP"
  /\ hbt_rsp' = [t \in Task |-> FALSE]
  /\ hb_buffer' = NoMessage
  /\ alarm' = FALSE
  /\ caught' = {"SIGINT", "SIGTERM"}
  /\ linked' = TRUE

Terminated == process # "up" /\ UNCHANGED vars

ServerStep == MainStep \/ \E t \in Task : ServerTask(t)

Next ==
  \/ /\ process = "up"
     /\ \/ ServerStep
        \/ \E s \in StopSignals : UserSignal(s)
        \/ \E t \in ClientTargets : ClientSend(t)
  \/ process # "up" /\ Restart
  \/ Terminated

Spec == Init /\ [][Next]_vars

\* Every thread is scheduled.  A timer that has expired is not starved by other
\* signals: sigwait takes SIGALRM, the lower number, first.
Fairness ==
  /\ WF_vars(process = "up" /\ MainStep)
  /\ SF_vars(process = "up" /\ MainTimer)
  /\ \A t \in Task : WF_vars(process = "up" /\ ServerTask(t))

FairSpec == Spec /\ Fairness
===============================================================================
