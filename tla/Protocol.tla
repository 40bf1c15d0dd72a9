------------------------------- MODULE Protocol -------------------------------
(***************************************************************************)
(* The vocabulary the threads of the server and the client share: who they *)
(* are, which messages exist and who sends which one (inc/common.h).       *)
(* A message_t is abstracted to its id and its source; timestamp, length,  *)
(* priority and payload are not told apart by the protocol.                *)
(***************************************************************************)

CONSTANT
  Task          \* the tasks that answer heartbeats; the program runs all three

ASSUME TaskAssumption == Task \subseteq {"temp", "light", "logger"} /\ "logger" \in Task

\* Every thread of the server process reads one message queue of its own.
Thread == Task \cup {"main"}

Msg(id, source) == [id |-> id, source |-> source]

\* Which sources put which message ids into a queue, over the whole program.
\* The log lines of the server's own threads are not told apart.  "gone" is a
\* server process that has ended: its payload address means nothing any more.
Message ==
       [id : {"HEARTBEAT_REQ"},                   source : {"main"}]
  \cup [id : {"FILE_CHANGE"},                     source : {"main", "gone"}]
  \cup [id : {"HEARTBEAT_RSP"},                   source : Task]
  \cup [id : {"TEMP_DATA_REQ"},                   source : {"main", "client", "gone"}]
  \cup [id : {"LIGHT_DATA_REQ"},                  source : {"main", "client"}]
  \cup [id : {"TEMP_VALUE"},                      source : {"temp", "gone"}]
  \cup [id : {"LIGHT_VALUE"},                     source : {"light", "gone"}]
  \cup [id : {"LOGGER"},                          source : {"server", "client", "gone"}]
  \cup [id : {"CLIENT_SHUTDOWN"},                 source : {"client"}]

\* What a message of the server is to the process that is started next: the
\* queue keeps the address of the payload, not the payload.
ByAddress == {"FILE_CHANGE", "TEMP_DATA_REQ", "TEMP_VALUE", "LIGHT_VALUE", "LOGGER"}
Leftover(m) ==
  IF m.id \in ByAddress /\ m.source # "client" THEN [m EXCEPT !.source = "gone"] ELSE m

\* A receive buffer that was never filled, or a call that carries no message.
NoMessage == Msg("NONE", "main")

\* What the four commands of the client put into the server's queues.
ClientCommand ==
  [ temp   |-> Msg("TEMP_DATA_REQ", "client"),
    light  |-> Msg("LIGHT_DATA_REQ", "client"),
    logger |-> Msg("LOGGER", "client"),
    main   |-> Msg("CLIENT_SHUTDOWN", "client") ]
===============================================================================
