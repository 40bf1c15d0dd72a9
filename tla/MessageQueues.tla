---------------------------- MODULE MessageQueues ----------------------------
(***************************************************************************)
(* The kernel objects the threads communicate with, as the program uses    *)
(* them: one POSIX message queue per reading thread, at most one           *)
(* notification registration per queue, and the queued real-time signals   *)
(* (35 .. 38) each thread takes with sigwait.  Queues are opened with NULL *)
(* attributes, so their length is the system default; readers open theirs  *)
(* O_NONBLOCK, writers do not, so a send to a full queue blocks.           *)
(***************************************************************************)
EXTENDS Protocol, Naturals, Sequences

CONSTANTS
  Capacity,     \* messages a queue holds (fs.mqueue.msg_default, 10 on Linux)
  SignalLimit   \* queued instances of one real-time signal (RLIMIT_SIGPENDING)

ASSUME CapacityAssumption == Capacity \in Nat \ {0}
ASSUME SignalLimitAssumption == SignalLimit \in Nat \ {0}

VARIABLES
  queue,        \* queue[t]: the messages in the queue thread t reads
  registered,   \* registered[t]: mq_notify on that queue is armed
  pending       \* pending[t]: instances of t's real-time signal t can take

mqVars == <<queue, registered, pending>>

MQTypeOK ==
  /\ queue \in [Thread -> Seq(Message)]
  /\ \A t \in Thread : Len(queue[t]) <= Capacity
  /\ registered \in [Thread -> BOOLEAN]
  /\ pending \in [Thread -> 0..SignalLimit]

MQInit ==
  /\ queue = [t \in Thread |-> <<>>]
  /\ registered = [t \in Thread |-> FALSE]
  /\ pending = [t \in Thread |-> 0]

HasRoom(t) == Len(queue[t]) < Capacity

\* One more instance of t's signal, unless the limit drops it.
Raised(t) == [pending EXCEPT ![t] = IF @ < SignalLimit THEN @ + 1 ELSE @]

\* pthread_kill(t, signo), or raise(signo) by t itself.
pthread_kill(t) ==
  /\ pending' = Raised(t)
  /\ UNCHANGED <<queue, registered>>

\* A message that reaches an empty queue consumes the registration and raises
\* the reader's signal; a message that reaches a non-empty queue does neither.
mq_send(t, m) ==
  /\ HasRoom(t)
  /\ queue' = [queue EXCEPT ![t] = Append(@, m)]
  /\ IF queue[t] = <<>> /\ registered[t]
       THEN /\ registered' = [registered EXCEPT ![t] = FALSE]
            /\ pending' = Raised(t)
       ELSE UNCHANGED <<registered, pending>>

\* Registering twice fails with EBUSY and leaves the registration in place.
mq_notify(t) ==
  /\ registered' = [registered EXCEPT ![t] = TRUE]
  /\ UNCHANGED <<queue, pending>>

\* A successful non-blocking mq_receive of the oldest message.
mq_receive(t) ==
  /\ queue[t] # <<>>
  /\ queue' = [queue EXCEPT ![t] = Tail(@)]
  /\ UNCHANGED <<registered, pending>>

\* sigwait returns for one queued instance of t's signal.
sigwait(t) ==
  /\ pending[t] > 0
  /\ pending' = [pending EXCEPT ![t] = @ - 1]
  /\ UNCHANGED <<queue, registered>>
===============================================================================
