--------------------------- MODULE ServerProperties ---------------------------
(***************************************************************************)
(* What makes the server correct, and what its own comments and README say *)
(* of it.                                                                  *)
(***************************************************************************)
EXTENDS Server

(***************************************************************************)
(* Waking up.                                                              *)
(***************************************************************************)
\* A thread that has once been woken and drained its queue never sleeps in
\* sigwait on messages nobody will wake it for: mq_notify fires only when an
\* empty queue receives a message and is re-armed by hand, before the drain,
\* in every loop (temp_driver.c:48, light_driver.c:46, logger.c:53, main.c:140).
NoLostWakeup ==
  \A t \in Thread :
    pc[t] = "sigwait" /\ in_buffer[t] # NoMessage /\ queue[t] # <<>> => pending[t] > 0

\* Something will wake thread t, or has: for the next message, or at all.
Listening(t) == registered[t] \/ pending[t] > 0
Watching(t)  == pending[t] > 0 \/ (registered[t] /\ queue[t] = <<>>)

\* Why that is so, at every point of the loops: a drain that is under way has
\* registered before its first mq_receive, so that when it has seen the queue
\* empty any later message has raised the signal, and nothing from there to the
\* next sigwait undoes it.
WakeupInv ==
  \A t \in Thread :
    /\ pc[t] = "setup" => in_buffer[t] = NoMessage
    /\ pc[t] \in {"receive", "handle", "hb_receive", "hb_handle"} => Listening(t)
    /\ pc[t] \in {"again", "hb_again", "check", "verdict", "judge", "raise"}
         => Watching(t)
    /\ pc[t] \in {"loop", "sigwait", "tick", "startup", "round"}
         => in_buffer[t] = NoMessage \/ Watching(t)

\* While the server is up, whatever is put into a queue is eventually read: also
\* the first messages, which arrive before the reader has registered and raise
\* no signal (the pthread_kill calls of main.c:187, 199 and 214 make up for it).
MessagesRead ==
  \A t \in Thread : queue[t] # <<>> ~> (queue[t] = <<>> \/ process = "dead")

\* The queues keep the promise of Mailbox to each task, across the end of a
\* server and the start of the next: a task that has once read its queue sleeps
\* only while the queue is empty, and takes its messages in order, each once
\* (temp_driver.c:45-62, light_driver.c:43-59, logger.c:48-63).  A message is
\* its id here, which survives the server that sent it.
Ids(q) == [i \in DOMAIN q |-> q[i].id]
Mailboxes ==
  INSTANCE Mailbox WITH
    Reader  <- Task,
    Mail    <- {m.id : m \in Message},
    Nothing <- NoMessage.id,
    box     <- [t \in Task |-> Ids(queue[t])],
    last    <- [t \in Task |-> in_buffer[t].id],
    asleep  <- {t \in Task : pc[t] = "sigwait" /\ pending[t] = 0}

ImplementsMailbox == Mailboxes!MailSpec

(***************************************************************************)
(* Heartbeats.                                                             *)
(***************************************************************************)
HeartbeatQueued(t) ==
  \E i \in DOMAIN queue["main"] : queue["main"][i] = Msg("HEARTBEAT_RSP", t)

\* A heartbeat a task has sent counts in the next verdict, whichever of the two
\* drains of main's queue reads it and however it races with the timer: it
\* leaves the queue only into hbt_rsp, and only the verdict clears hbt_rsp
\* (main.c:152-175, 367-398).
HeartbeatKept ==
  [][process = "up" =>
       \A t \in Task :
         /\ HeartbeatQueued(t) => HeartbeatQueued(t)' \/ hbt_rsp'[t]
         /\ hbt_rsp[t] => hbt_rsp'[t] \/ pc["main"] = "check"]_vars

\* As long as the tasks finish their work within HEARTBEAT_PERIOD no heartbeat
\* is reported missing: the error state is only reached on the way out, where
\* main.c:327 enters it unconditionally.  This is so whatever stops are requested,
\* while nobody but main writes to the light queue: main kicks the other threads
\* (main.c:187, 199) but not the light thread, which never wakes if its queue was
\* not empty when it registered (light_driver.c:25).
NoFalseAlarm == main_state = "ERROR" => process # "up"

\* The timer is re-armed on every path, so verdicts go on for ever.
RoundsRecur == []<>(pc["main"] = "check" \/ process = "dead")

\* Main and the task it joins wait for each other, the task for room in main's
\* queue.
WaitingForEachOther ==
  MainCall("pthread_join") /\ Blocked(Target) /\ NextCall(Target).to = "main"


\* processHeartbeats promises to "ensure all heartbeats are received"
\* (main.c:355): a task is counted only on receiving a heartbeat from it.
CountedOnReceipt ==
  [][\A t \in Task : ~hbt_rsp[t] /\ hbt_rsp'[t] => queue'["main"] # queue["main"]]_vars

(***************************************************************************)
(* Stopping.                                                               *)
(***************************************************************************)
\* Exit leaves nothing behind: every thread was joined after it had ended by
\* itself, no queue name is left, and the log file was closed (main.c:239-325).
ExitReapsAll ==
  process = "exited" =>
    ~linked /\ out_file = "closed" /\ \A t \in Thread : pc[t] = "ended"

\* A server whose log file cannot be reopened does not run on without a log:
\* the next line, or the next fclose, ends it (logger.c:151, 163 and 80).
LogLossIsFatal == out_file = "NULL" ~> process # "up"

\* The threads never all wait for each other, with or without a stop under way.
ServerCanStep == process = "up" => ENABLED ServerStep

\* A stop request is acted upon: once handleCtrlC has stored SHUTDOWN, all
\* threads come to an end.  The window in which main.c:185 overwrites the store
\* is left out here and is the subject of StopIsFinal.
StopCompletes ==
  (main_state = "SHUTDOWN" /\ pc["main"] # "startup") ~> process # "up"

\* "set all threads to SHUTDOWN state one by one then reap all resources"
\* (main.c:17): a stop request is never taken back.
StopIsFinal == [][main_state = "SHUTDOWN" => main_state' \in Stopped]_vars

(***************************************************************************)
(* Hanging.                                                                *)
(***************************************************************************)
\* Thread t sleeps in sigwait and no signal of its own is on its way.
Asleep(t) == pc[t] = "sigwait" /\ pending[t] = 0

\* Thread t can only go on if another thread does something first.
Stuck(t) ==
  \/ pc[t] = "ended"
  \/ Asleep(t) /\ (t = "main" => ~alarm)
  \/ Blocked(t)
  \/ t = "main" /\ MainCall("pthread_join") /\ pc[Target] # "ended"

Hang == process = "up" /\ \A t \in Thread : Stuck(t)

\* Whatever the timing, the signals, the clients and the queues' capacity, the
\* server hangs in one of three ways only, all of them a wait for room in a full
\* queue whose reader does not come: that of main, which waits elsewhere itself;
\* that of a logger that has left its loop before the drivers, which main stops
\* first but does not wait for (main.c:240-249); or that of a task nobody has
\* woken yet.  In particular main sleeps only with its timer running (main.c:130,
\* 216) and joins only threads it has kicked, so that neither a sleeping main nor
\* the join of a sleeping thread is ever the end of it.
HangsAreFullQueues ==
  Hang =>
    \E t \in Thread :
      /\ Blocked(t)
      /\ LET reader == NextCall(t).to
         IN  \/ reader = "main"
             \/ reader = "logger" /\ t # "main" /\ pc["logger"] = "ended"
             \/ Asleep(reader) /\ in_buffer[reader] = NoMessage

(***************************************************************************)
(* Clients.                                                                *)
(***************************************************************************)
\* "The server will keep running even if the Client is initialized and closed
\* several times" (README.md:44): main never waits for room in the queue of a
\* task that sleeps and that nobody but main would wake.
NotWedged == ~(Blocked("main") /\ Asleep(Target))
===============================================================================
