-------------------------------- MODULE Client --------------------------------
(***************************************************************************)
(* The client program (src/client.c): its start, its menu, its SIGINT      *)
(* handler and its end, for several clients at terminals of their own.     *)
(* What its commands do to the server's queues is ClientSend of Server;    *)
(* here those queues are only full or not.                                 *)
(*                                                                         *)
(* The build is -std=c99 with _POSIX_SOURCE, so signal() is the System V   *)
(* one: the handler is reset when it is entered, and a system call it      *)
(* interrupts fails with EINTR.  No program sends to the clients' queue,   *)
(* so the loop's branch for CLIENT_SIGNO is never taken and is left out.   *)
(***************************************************************************)
EXTENDS Integers, Sequences, FiniteSets

CONSTANTS
  Client,        \* the terminals clients are started at
  Lines,         \* Lines[c]: the lines the user at c types
  QueueMsgSize,  \* QUEUE_MSG_SIZE, the size of the buffer for a log line
  Troubled,      \* the server's queues that may be full or fail to open
  MaxStarts      \* bound: clients started in all

ASSUME ClientAssumption ==
  /\ IsFiniteSet(Client) /\ "none" \notin Client /\ MaxStarts \in Nat
  /\ QueueMsgSize \in Nat /\ QueueMsgSize >= 2

EndOfLine == "newline"

\* Characters up to the end of a line, and that end.
IsRestOfLine(chars) ==
  /\ chars \in Seq(STRING)
  /\ \A i \in 1..Len(chars) : chars[i] = EndOfLine <=> i = Len(chars)

\* A line is any characters and its end.
ASSUME LinesAssumption ==
  \A c \in Client : \A line \in Lines[c] : IsRestOfLine(line) /\ line # <<>>

VARIABLES
  at,            \* at[c]: where client c is
  client_state,  \* client_state[c]: RUNNING or SHUTDOWN
  handler,       \* handler[c]: what SIGINT does to c
  inHandler,     \* inHandler[c]: c is in handleSigint
  blocked,       \* blocked[c]: CLIENT_SIGNO, SIGUSR1 and SIGUSR2 are blocked
  pending,       \* pending[c]: the signals of those that wait for a sigwait
  input,         \* input[c]: what is left of the line c read last
  mychar,        \* mychar[c]: the selection made from the menu
  mine,          \* mine[c]: the queue c's client_queue is, 0 for none
  missing,       \* missing[c]: the server's queues c could not open
  code,          \* code[c]: how the last client at c ended
  name,          \* the queue that is linked as /client, 0 for none
  registrant,    \* registrant[q]: the client registered with mq_notify
  full,          \* the server's queues that are full
  starts,        \* clients started so far
  odd,           \* history: what c was given for its menus, since its last log
                 \* text, has an odd number of characters, ends included
  late           \* history: the line c was given last is one selection and its
                 \* end, and what came before it was odd

signalVars == <<client_state, handler, inHandler, blocked, pending>>
historyVars == <<odd, late>>
menuVars == <<input, mychar, historyVars>>
queueVars == <<mine, missing, name, registrant>>
vars == <<at, signalVars, menuVars, queueVars, code, full, starts>>

Running(c) == at[c] # "ended"

\* The queue a selection sends to.
Command == [a |-> "temp", b |-> "light", c |-> "logger", d |-> "main"]

\* A queue that is neither linked nor open is gone; its number is used again.
Queue == 1..Cardinality(Client)

Init ==
  /\ at = [c \in Client |-> "ended"]
  /\ client_state = [c \in Client |-> "RUNNING"]
  /\ handler = [c \in Client |-> "default"]
  /\ inHandler = [c \in Client |-> FALSE]
  /\ blocked = [c \in Client |-> FALSE]
  /\ pending = [c \in Client |-> {}]
  /\ input = [c \in Client |-> <<>>]
  /\ mychar = [c \in Client |-> "none"]
  /\ mine = [c \in Client |-> 0]
  /\ missing = [c \in Client |-> {}]
  /\ code = [c \in Client |-> "none"]
  /\ name = 0
  /\ registrant = [q \in Queue |-> "none"]
  /\ full = {}
  /\ starts = 0
  /\ odd = [c \in Client |-> FALSE]
  /\ late = [c \in Client |-> FALSE]

\* The main program of c is about to do `here' and no signal handler runs.
At(c, here) == at[c] = here /\ ~inHandler[c]

GoTo(c, there) == at' = [at EXCEPT ![c] = there]

\* The process ends: its signals, its descriptors and its registration go.
End(c, status) ==
  /\ at' = [at EXCEPT ![c] = "ended"]
  /\ code' = [code EXCEPT ![c] = status]
  /\ client_state' = [client_state EXCEPT ![c] = "RUNNING"]
  /\ handler' = [handler EXCEPT ![c] = "default"]
  /\ inHandler' = [inHandler EXCEPT ![c] = FALSE]
  /\ blocked' = [blocked EXCEPT ![c] = FALSE]
  /\ pending' = [pending EXCEPT ![c] = {}]
  /\ input' = [input EXCEPT ![c] = <<>>]
  /\ mychar' = [mychar EXCEPT ![c] = "none"]
  /\ odd' = [odd EXCEPT ![c] = FALSE]
  /\ late' = [late EXCEPT ![c] = FALSE]
  /\ mine' = [mine EXCEPT ![c] = 0]
  /\ missing' = [missing EXCEPT ![c] = {}]
  /\ registrant' = [q \in Queue |->
                      IF registrant[q] = c THEN "none" ELSE registrant[q]]
  /\ UNCHANGED <<full, starts>>

(***************************************************************************)
(* The start of a client.                                                  *)
(***************************************************************************)
\* A SIGINT before the handler is installed ends a client that has done nothing.
Start(c) ==
  /\ at[c] = "ended"
  /\ starts < MaxStarts
  /\ starts' = starts + 1
  /\ handler' = [handler EXCEPT ![c] = "handleSigint"]
  /\ code' = [code EXCEPT ![c] = "none"]
  /\ GoTo(c, "mq_open_client")
  /\ UNCHANGED <<client_state, inHandler, blocked, pending, menuVars, queueVars, full>>

\* A queue is created under the name unless there is one.
OpenClientQueue(c) ==
  /\ At(c, "mq_open_client")
  /\ \/ End(c, "1") /\ UNCHANGED name
     \/ LET q == IF name # 0 THEN name
                 ELSE CHOOSE new \in Queue : \A d \in Client : mine[d] # new
        IN  /\ name' = q
            /\ mine' = [mine EXCEPT ![c] = q]
            /\ GoTo(c, "mq_open_servers")
            /\ UNCHANGED <<signalVars, menuVars, missing, registrant, code, full, starts>>

\* Only main_queue and temp_queue are tested; the tests after logger_queue and
\* light_queue look at main_queue once more.
OpenServerQueues(c) ==
  /\ At(c, "mq_open_servers")
  /\ \E failed \in SUBSET Troubled :
       \/ /\ failed \cap {"main", "temp"} # {}
          /\ End(c, "1")
          /\ UNCHANGED name
       \/ /\ failed \cap {"main", "temp"} = {}
          /\ missing' = [missing EXCEPT ![c] = failed]
          /\ GoTo(c, "pthread_sigmask")
          /\ UNCHANGED <<signalVars, menuVars, mine, name, registrant, code, full, starts>>

SetMask(c) ==
  /\ At(c, "pthread_sigmask")
  /\ blocked' = [blocked EXCEPT ![c] = TRUE]
  /\ GoTo(c, "mq_notify")
  /\ UNCHANGED <<client_state, handler, inHandler, pending, menuVars, queueVars, code,
                 full, starts>>

Registered(c) ==
  registrant' = [registrant EXCEPT ![mine[c]] = IF @ = "none" THEN c ELSE @]

\* Wrong variant: the second client of a queue stays.
Notify_unchecked(c) ==
  /\ At(c, "mq_notify")
  /\ Registered(c)
  /\ GoTo(c, "while")
  /\ UNCHANGED <<signalVars, menuVars, mine, missing, name, code, full, starts>>

\* A queue has one registration: a client that finds it taken returns -1 and
\* leaves the queue linked.
Notify(c) ==
  /\ At(c, "mq_notify")
  /\ \/ /\ registrant[mine[c]] = "none"
        /\ Registered(c)
        /\ GoTo(c, "while")
        /\ UNCHANGED <<signalVars, menuVars, mine, missing, name, code, full, starts>>
     \/ /\ registrant[mine[c]] # "none"
        /\ End(c, "-1")
        /\ UNCHANGED name

(***************************************************************************)
(* The loop and its menu.                                                  *)
(***************************************************************************)
\* The last selection means nothing any more.
While(c) ==
  /\ At(c, "while")
  /\ GoTo(c, IF client_state[c] = "SHUTDOWN" THEN "mq_close_client" ELSE "sigwait")
  /\ mychar' = [mychar EXCEPT ![c] = "none"]
  /\ UNCHANGED <<signalVars, input, historyVars, queueVars, code, full, starts>>

\* sigwait takes one of the pending signals; SIGUSR1 brings up the menu.
Sigwait(c) ==
  /\ At(c, "sigwait")
  /\ \E sig \in pending[c] :
       /\ pending' = [pending EXCEPT ![c] = @ \ {sig}]
       /\ GoTo(c, IF sig = "SIGUSR1" THEN "getchar" ELSE "while")
  /\ Registered(c)
  /\ UNCHANGED <<client_state, handler, inHandler, blocked, menuVars, mine, missing, name,
                 code, full, starts>>

Reads == {"getchar", "getchar_waste", "fgets"}

\* What the history says of a line.
Noted(c, line) ==
  /\ odd' = [odd EXCEPT ![c] = @ # (Len(line) % 2 = 1)]
  /\ late' = [late EXCEPT ![c] = odd[c] /\ Len(line) = 2]

\* Wrong variant: lines are handed over before they are asked for.
TypeLine_ahead(c, line) ==
  /\ at[c] \in Reads
  /\ input' = [input EXCEPT ![c] = @ \o line]
  /\ Noted(c, line)
  /\ UNCHANGED <<at, signalVars, mychar, queueVars, code, full, starts>>

\* A terminal hands over whole lines, and only to a read that waits for one.
TypeLine(c, line) ==
  /\ at[c] \in Reads
  /\ input[c] = <<>>
  /\ input' = [input EXCEPT ![c] = line]
  /\ Noted(c, line)
  /\ UNCHANGED <<at, signalVars, mychar, queueVars, code, full, starts>>

\* mychar = getchar();
Getchar(c) ==
  /\ At(c, "getchar")
  /\ input[c] # <<>>
  /\ mychar' = [mychar EXCEPT ![c] = Head(input[c])]
  /\ input' = [input EXCEPT ![c] = Tail(@)]
  /\ GoTo(c, "getchar_waste")
  /\ UNCHANGED <<signalVars, historyVars, queueVars, code, full, starts>>

\* What the switch does with a selection.
Selected(c) ==
  GoTo(c, IF mychar[c] \notin DOMAIN Command THEN "while"
          ELSE IF mychar[c] = "c" THEN "fgets" ELSE "mq_send")

\* Wrong variant: what is left of the line is dropped with the waste.
GetcharWaste_line(c) ==
  /\ At(c, "getchar_waste")
  /\ input[c] # <<>>
  /\ input' = [input EXCEPT ![c] = <<>>]
  /\ Selected(c)
  /\ UNCHANGED <<signalVars, mychar, historyVars, queueVars, code, full, starts>>

\* waste = getchar();
GetcharWaste(c) ==
  /\ At(c, "getchar_waste")
  /\ input[c] # <<>>
  /\ input' = [input EXCEPT ![c] = Tail(@)]
  /\ Selected(c)
  /\ UNCHANGED <<signalVars, mychar, historyVars, queueVars, code, full, starts>>

\* fgets takes what there is of the line, but no more than its buffer holds: the
\* rest of a longer text is left to the next menu.
Fgets(c) ==
  /\ At(c, "fgets")
  /\ input[c] # <<>>
  /\ LET rest == SubSeq(input[c], QueueMsgSize, Len(input[c]))
     IN  /\ input' = [input EXCEPT ![c] = rest]
         /\ odd' = [odd EXCEPT ![c] = Len(rest) % 2 = 1]
  /\ GoTo(c, "mq_send")
  /\ UNCHANGED <<signalVars, mychar, late, queueVars, code, full, starts>>

\* A queue that was not opened fails at once; a full one makes the client wait.
MqSend(c) ==
  /\ At(c, "mq_send")
  /\ Command[mychar[c]] \in missing[c] \/ Command[mychar[c]] \notin full
  /\ GoTo(c, "while")
  /\ UNCHANGED <<signalVars, menuVars, queueVars, code, full, starts>>

(***************************************************************************)
(* The end of a client.                                                    *)
(***************************************************************************)
CloseClientQueue(c) ==
  /\ At(c, "mq_close_client")
  /\ registrant' = [registrant EXCEPT ![mine[c]] = IF @ = c THEN "none" ELSE @]
  /\ mine' = [mine EXCEPT ![c] = 0]
  /\ GoTo(c, "mq_close_servers")
  /\ UNCHANGED <<signalVars, menuVars, missing, name, code, full, starts>>

\* Wrong variant: only main_queue and temp_queue are closed with a test.
CloseServerQueues_tested(c) ==
  /\ At(c, "mq_close_servers")
  /\ GoTo(c, "mq_unlink")
  /\ UNCHANGED <<signalVars, menuVars, queueVars, code, full, starts>>

\* A queue that was not opened cannot be closed.
CloseServerQueues(c) ==
  /\ At(c, "mq_close_servers")
  /\ \/ missing[c] # {} /\ End(c, "1") /\ UNCHANGED name
     \/ /\ missing[c] = {}
        /\ GoTo(c, "mq_unlink")
        /\ UNCHANGED <<signalVars, menuVars, queueVars, code, full, starts>>

\* The name goes, whichever queue it is the name of by now.
Unlink(c) ==
  /\ At(c, "mq_unlink")
  /\ name' = 0
  /\ End(c, IF name = 0 THEN "1" ELSE "0")

(***************************************************************************)
(* Signals, and the server's side of its queues.                           *)
(***************************************************************************)
\* SIGINT enters the handler and resets it.
SIGINT(c) ==
  /\ Running(c)
  /\ \/ handler[c] = "default" /\ End(c, "killed") /\ UNCHANGED name
     \/ /\ handler[c] = "handleSigint"
        /\ handler' = [handler EXCEPT ![c] = "default"]
        /\ inHandler' = [inHandler EXCEPT ![c] = TRUE]
        /\ UNCHANGED <<at, client_state, blocked, pending, menuVars, queueVars, code, full, starts>>

\* A call the handler interrupts while it waits fails; the client goes on after it.
Waits(c) ==
  \/ at[c] \in Reads /\ input[c] = <<>>
  \/ at[c] = "mq_send" /\ Command[mychar[c]] \in full \ missing[c]

Interrupted(c) ==
  IF at[c] = "getchar" THEN GoTo(c, "getchar_waste") /\ mychar' = [mychar EXCEPT ![c] = "EOF"]
  ELSE UNCHANGED mychar
       /\ IF at[c] = "getchar_waste" THEN Selected(c)
          ELSE GoTo(c, IF at[c] = "fgets" THEN "mq_send" ELSE "while")

\* The client goes on where it was, or after the call that was interrupted.
Resumed(c) ==
  \/ Waits(c) /\ Interrupted(c)
  \/ UNCHANGED <<at, mychar>>

\* Wrong variant: the handler is not installed again.
handleSigint_once(c) ==
  /\ inHandler[c]
  /\ inHandler' = [inHandler EXCEPT ![c] = FALSE]
  /\ client_state' = [client_state EXCEPT ![c] = "SHUTDOWN"]
  /\ pending' = [pending EXCEPT ![c] = @ \cup {"SIGUSR2"}]
  /\ Resumed(c)
  /\ UNCHANGED <<handler, blocked, input, historyVars, queueVars, code, full, starts>>

\* Wrong variant: the handler does not raise SIGUSR2.
handleSigint_quiet(c) ==
  /\ inHandler[c]
  /\ handler' = [handler EXCEPT ![c] = "handleSigint"]
  /\ inHandler' = [inHandler EXCEPT ![c] = FALSE]
  /\ client_state' = [client_state EXCEPT ![c] = "SHUTDOWN"]
  /\ Resumed(c)
  /\ UNCHANGED <<blocked, pending, input, historyVars, queueVars, code, full, starts>>

\* Until SIGUSR2 is blocked, raising it kills the client.
handleSigint(c) ==
  /\ inHandler[c]
  /\ \/ ~blocked[c] /\ End(c, "killed") /\ UNCHANGED name
     \/ /\ blocked[c]
        /\ handler' = [handler EXCEPT ![c] = "handleSigint"]
        /\ inHandler' = [inHandler EXCEPT ![c] = FALSE]
        /\ client_state' = [client_state EXCEPT ![c] = "SHUTDOWN"]
        /\ pending' = [pending EXCEPT ![c] = @ \cup {"SIGUSR2"}]
        /\ Resumed(c)
        /\ UNCHANGED <<blocked, input, historyVars, queueVars, code, full, starts>>

\* A user who types asks for the menu.
SIGUSR1(c) ==
  /\ Running(c)
  /\ Lines[c] # {}
  /\ \/ ~blocked[c] /\ End(c, "killed") /\ UNCHANGED name
     \/ /\ blocked[c]
        /\ pending' = [pending EXCEPT ![c] = @ \cup {"SIGUSR1"}]
        /\ UNCHANGED <<at, client_state, handler, inHandler, blocked, menuVars, queueVars, code,
                       full, starts>>

\* The server, if there is one, and other clients empty and fill a queue.
ServerQueueChanges(q) ==
  /\ full' = IF q \in full THEN full \ {q} ELSE full \cup {q}
  /\ UNCHANGED <<at, signalVars, menuVars, queueVars, code, starts>>

\* What the main program of c does of itself.
Main(c) ==
  \/ OpenClientQueue(c) \/ OpenServerQueues(c) \/ SetMask(c) \/ Notify(c)
  \/ While(c) \/ Sigwait(c)
  \/ Getchar(c) \/ GetcharWaste(c) \/ Fgets(c) \/ MqSend(c)
  \/ CloseClientQueue(c) \/ CloseServerQueues(c) \/ Unlink(c)

Next ==
  \/ \E c \in Client :
       \/ Start(c) \/ Main(c) \/ handleSigint(c)
       \/ \E line \in Lines[c] : TypeLine(c, line)
       \/ SIGINT(c) \/ SIGUSR1(c)
  \/ \E q \in Troubled : ServerQueueChanges(q)

\* A client goes on when it can, in its handler and, however many signals come,
\* after it; nobody has to type, and no queue to be emptied.
Fairness == \A c \in Client : WF_vars(handleSigint(c)) /\ SF_vars(Main(c))

Spec == Init /\ [][Next]_vars /\ Fairness

(***************************************************************************)
(* Properties.                                                             *)
(***************************************************************************)
InLoop(c) == at[c] \in {"while", "sigwait", "mq_send"} \cup Reads

ClientTypeOK ==
  /\ at \in [Client -> {"ended", "mq_open_client", "mq_open_servers", "pthread_sigmask", "mq_notify",
                       "while", "sigwait", "mq_send", "mq_close_client", "mq_close_servers",
                       "mq_unlink"} \cup Reads]
  /\ client_state \in [Client -> {"RUNNING", "SHUTDOWN"}]
  /\ handler \in [Client -> {"default", "handleSigint"}]
  /\ inHandler \in [Client -> BOOLEAN] /\ blocked \in [Client -> BOOLEAN]
  /\ pending \in [Client -> SUBSET {"SIGUSR1", "SIGUSR2"}]
  /\ DOMAIN mychar = Client /\ \A c \in Client : IsRestOfLine(input[c])
  /\ mine \in [Client -> Queue \cup {0}] /\ name \in Queue \cup {0}
  /\ missing \in [Client -> SUBSET Troubled] /\ full \subseteq Troubled
  /\ registrant \in [Queue -> Client \cup {"none"}]
  /\ starts \in 0..MaxStarts /\ odd \in [Client -> BOOLEAN] /\ late \in [Client -> BOOLEAN]

\* Of the clients in their loops each holds the registration of its own queue;
\* two run side by side only on two queues, one of which has lost its name
\* (client.c:86, 153, 189).
LoopsApart ==
  \A c \in Client : InLoop(c) =>
    /\ mine[c] # 0 /\ registrant[mine[c]] = c
    /\ \A d \in Client \ {c} : InLoop(d) => mine[c] # name \/ mine[d] # name

\* Each menu takes two characters.  A client that has been given an odd number
\* of them (an empty line, a longer one, what fgets has left of a long text) is
\* one late: it reads the first character of the next line as waste, for a menu
\* that has selected the end of the line before.  A single selection entered
\* then is lost: neither that menu nor the next one, which selects its line's
\* end, sends anything.  Two wrongs make it right again, and of a longer line
\* another character may be acted upon (client.c:123-124, 291).
LateSelectionIsLost ==
  [][\A c \in Client : late[c] => at'[c] \notin {"fgets", "mq_send"}]_vars

\* "Sending SIGINT AKA Ctrl+C will close the client" (README.md:44): it does,
\* unless the client waits for a line or for room in a queue of the server.
SigintCloses ==
  \A c \in Client : client_state[c] = "SHUTDOWN" ~> (~Running(c) \/ Waits(c))

\* A client in its loop is killed only by a SIGINT that meets the handler before
\* it has installed itself again (client.c:9).
KilledOnlyInHandler ==
  [][\A c \in Client : InLoop(c) /\ ~Running(c)' => inHandler[c] /\ code'[c] = "killed"]_vars

\* A client that could not open a queue of the server runs all the same, but
\* never returns 0 and never unlinks the clients' queue (client.c:49, 56, 168).
MissingQueueTells ==
  [][\A c \in Client : missing[c] # {} /\ ~Running(c)' =>
       code'[c] # "0" /\ name' = name]_vars
===============================================================================
