----------------------------- MODULE ClientProofs -----------------------------
(***************************************************************************)
(* Theorems about the client, for any number of terminals, any lines typed *)
(* and any number of starts.                                               *)
(*                                                                         *)
(* The inductive invariant ClientInv says of each client, by the place it  *)
(* is at, which queue it has, whether it holds its registration, what is   *)
(* blocked and what SIGINT does to it.  LateInv says how what is left of   *)
(* its line goes with what it was given before.                            *)
(***************************************************************************)
EXTENDS Client, TLAPS, FiniteSetTheorems, SequenceTheorems

\* Where a client is in its loop, and where it has the clients' queue open.
Loop == {"while", "sigwait", "mq_send"} \cup Reads
Holding == {"mq_open_servers", "pthread_sigmask", "mq_notify", "mq_close_client"} \cup Loop

\* Where a client can be.
Place ==
  {"ended", "mq_open_client", "mq_open_servers", "pthread_sigmask", "mq_notify",
   "while", "sigwait", "mq_send", "mq_close_client", "mq_close_servers", "mq_unlink"} \cup Reads

\* What is true of one client.
ProcessOK(c) ==
  /\ at[c] \in {"ended", "mq_open_client", "mq_unlink"} => missing[c] = {}
  /\ at[c] \in {"ended", "mq_open_client"} => mine[c] = 0
  /\ at[c] \in Holding => mine[c] \in Queue
  /\ at[c] \in Loop \cup {"mq_notify"} => blocked[c]
  /\ Running(c) /\ handler[c] = "default" => inHandler[c]
  /\ at[c] \in Loop => registrant[mine[c]] = c

\* The inductive invariant.
ClientInv ==
  /\ ClientTypeOK
  /\ DOMAIN input = Client
  /\ \A c \in Client : ProcessOK(c)

\* No characters are the rest of a line, and the line is read.
LEMMA NothingLeft == IsRestOfLine(<<>>)
BY DEF IsRestOfLine

\* A read takes one character of a line; after the end nothing is left.
LEMMA OneRead ==
  ASSUME NEW s, IsRestOfLine(s), s # <<>>
  PROVE  /\ IsRestOfLine(Tail(s))
         /\ Len(s) \in Nat \ {0} /\ Len(Tail(s)) = Len(s) - 1
         /\ Tail(s) = <<>> => Head(s) = EndOfLine
<1>1. /\ s \in Seq(STRING) /\ Len(s) \in Nat
      /\ \A i \in 1..Len(s) : s[i] = EndOfLine <=> i = Len(s)
  BY DEF IsRestOfLine
<1>2. /\ Head(s) = s[1] /\ Tail(s) \in Seq(STRING) /\ Len(Tail(s)) = Len(s) - 1
      /\ \A i \in 1..Len(Tail(s)) : Tail(s)[i] = s[i + 1]
  BY <1>1, HeadTailProperties
<1>3. Len(s) # 0
  BY <1>1, EmptySeq
<1>4. IsRestOfLine(Tail(s))
  <2>1. ASSUME NEW i \in 1..Len(Tail(s)) PROVE Tail(s)[i] = EndOfLine <=> i = Len(Tail(s))
    <3>0. Len(s) \in Nat /\ Len(Tail(s)) = Len(s) - 1
      BY <1>1, <1>2
    <3>1. i + 1 \in 1..Len(s) /\ (i + 1 = Len(s) <=> i = Len(Tail(s)))
      BY <3>0
    <3> QED BY <1>1, <1>2, <3>1
  <2> QED BY <1>2, <2>1 DEF IsRestOfLine
<1>5. Tail(s) = <<>> => Head(s) = EndOfLine
  <2>1. Tail(s) = <<>> => Len(Tail(s)) = 0
    <3>1. Len(<<>>) = 0
      OBVIOUS
    <3> QED BY <3>1, Zenon
  <2>2. Len(Tail(s)) = 0 => 1 = Len(s) /\ 1 \in 1..Len(s)
    <3>1. \A n \in Nat : \A t : t = n - 1 /\ t = 0 => 1 = n /\ 1 \in 1..n
      OBVIOUS
    <3>2. Len(s) \in Nat /\ Len(Tail(s)) = Len(s) - 1
      BY <1>1, <1>2
    <3> QED BY <3>1, <3>2, Zenon
  <2>3. 1 \in 1..Len(s) /\ 1 = Len(s) => s[1] = EndOfLine
    BY <1>1
  <2>4. Head(s) = s[1]
    BY <1>2
  <2> QED BY <2>1, <2>2, <2>3, <2>4, Zenon
<1> QED BY <1>1, <1>2, <1>3, <1>4, <1>5

\* What fgets leaves of a line is the rest of it.
LEMMA TextRead ==
  ASSUME NEW s, IsRestOfLine(s), NEW m \in Nat \ {0}
  PROVE  IsRestOfLine(SubSeq(s, m, Len(s)))
<1> DEFINE r == SubSeq(s, m, Len(s))
<1>1. /\ s \in Seq(STRING) /\ Len(s) \in Nat
      /\ \A i \in 1..Len(s) : s[i] = EndOfLine <=> i = Len(s)
  BY DEF IsRestOfLine
<1>2. \A i \in m..Len(s) : i \in 1..Len(s)
  BY <1>1
<1>3. /\ r \in Seq(STRING)
      /\ Len(r) = IF m <= Len(s) THEN Len(s) - m + 1 ELSE 0
      /\ \A i \in 1..(Len(s) - m + 1) : r[i] = s[m + i - 1]
  BY <1>1, <1>2, SubSeqProperties
<1>4. ASSUME NEW i \in 1..Len(r) PROVE r[i] = EndOfLine <=> i = Len(r)
  <2>1. /\ i \in 1..(Len(s) - m + 1) /\ m + i - 1 \in 1..Len(s)
        /\ m + i - 1 = Len(s) <=> i = Len(r)
    <3> HIDE DEF r
    <3> QED BY <1>1, <1>3
  <2> QED BY <1>1, <1>3, <2>1
<1> QED BY <1>3, <1>4 DEF IsRestOfLine

\* There are n numbers from 1 to n.
LEMMA IntervalCardinality ==
  ASSUME NEW n \in Nat
  PROVE  IsFiniteSet(1..n) /\ Cardinality(1..n) = n
<1>1. 1 \in Int /\ n \in Int
  OBVIOUS
<1>2. IsFiniteSet(1..n) /\ Cardinality(1..n) = IF 1 > n THEN 0 ELSE n - 1 + 1
  BY <1>1, FS_Interval
<1>3. (IF 1 > n THEN 0 ELSE n - 1 + 1) = n
  OBVIOUS
<1> QED BY <1>2, <1>3

\* With as many queues as clients, one is free for a client that has none yet.
LEMMA FreeQueue ==
  ASSUME ClientInv, NEW c \in Client, at[c] = "mq_open_client"
  PROVE  \E new \in Queue : \A d \in Client : mine[d] # new
<1> DEFINE others == Client \ {c}
           taken == {mine[d] : d \in others}
           f == [d \in others |-> mine[d]]
           n == Cardinality(Client)
<1>1. n \in Nat /\ IsFiniteSet(others) /\ Cardinality(others) = n - 1
  BY ClientAssumption, FS_RemoveElement, FS_CardinalityType
<1>2. IsFiniteSet(taken) /\ Cardinality(taken) <= Cardinality(others)
  <2>1. f \in Surjection(others, taken)
    BY DEF Surjection
  <2> QED BY <1>1, <2>1, FS_Surjection
<1>3. Cardinality(taken) \in Nat
  BY <1>2, FS_CardinalityType
<1>4. Queue = 1..n /\ IsFiniteSet(Queue) /\ Cardinality(Queue) = n
  BY <1>1, IntervalCardinality DEF Queue
<1>5. ~(Queue \subseteq taken)
  <2>1. Queue \subseteq taken => Cardinality(Queue) <= Cardinality(taken)
    BY <1>2, FS_Subset
  <2>2. Cardinality(taken) <= n - 1
    BY <1>1, <1>2
  <2>3. Cardinality(Queue) = n
    BY <1>4
  <2>4. n \in Nat
    BY <1>1
  <2> HIDE DEF taken, n
  <2> QED BY <1>3, <2>1, <2>2, <2>3, <2>4
<1>6. PICK new \in Queue : new \notin taken
  BY <1>5
<1>7. mine[c] = 0
  BY DEF ClientInv, ProcessOK
<1>8. new # 0
  <2>1. new \in 1..n
    BY <1>4, <1>6
  <2>2. n \in Nat
    BY <1>1
  <2> HIDE DEF n
  <2> QED BY <2>1, <2>2
<1> QED BY <1>6, <1>7, <1>8
\* A client that ends frees what it held and nothing of another client.
LEMMA EndKeeps ==
  ASSUME ClientInv, NEW d \in Client, NEW s, End(d, s), name' \in Queue \cup {0}
  PROVE  ClientInv'
<1>1. ClientTypeOK'
  BY NothingLeft DEF ClientInv, ClientTypeOK, End, Reads
<1>2. ASSUME NEW c \in Client PROVE ProcessOK(c)'
  <2>1. CASE c = d
    BY <2>1 DEF ClientInv, ClientTypeOK, ProcessOK, End,
        Running, Holding, Loop, Reads
  <2>2. CASE c # d
    <3>1. /\ at'[c] = at[c] /\ handler'[c] = handler[c] /\ inHandler'[c] = inHandler[c]
          /\ blocked'[c] = blocked[c] /\ input'[c] = input[c] /\ mine'[c] = mine[c]
          /\ missing'[c] = missing[c]
      BY <2>2 DEF ClientInv, ClientTypeOK, End
    <3>2. \A q \in Queue : registrant[q] = c => registrant'[q] = c
      BY <2>2 DEF End
    <3>3. ProcessOK(c)
      BY DEF ClientInv
    <3> QED BY <3>1, <3>2, <3>3 DEF ProcessOK,
        Running, Holding, Loop, Reads
  <2> QED BY <2>1, <2>2
<1>3. DOMAIN input' = Client
  BY DEF ClientInv, End
<1> QED BY <1>1, <1>2, <1>3 DEF ClientInv

\* mq_notify takes a registration only if there is none.
LEMMA RegisteredKeeps ==
  ASSUME ClientInv, NEW d \in Client, mine[d] \in Queue, Registered(d)
  PROVE  /\ registrant' \in [Queue -> Client \cup {"none"}]
         /\ \A q \in Queue : registrant[q] # "none" => registrant'[q] = registrant[q]
         /\ registrant[mine[d]] = "none" => registrant'[mine[d]] = d
BY ClientAssumption DEF ClientInv, ClientTypeOK, Registered

\* Each action keeps the invariant: the start of a client (client.c:16-86),
LEMMA StartKeeps ==
  ASSUME ClientInv, NEW d \in Client, Start(d)
  PROVE  ClientInv'
<1>1. ClientTypeOK'
  BY ClientAssumption DEF ClientInv, ClientTypeOK, Start, GoTo, menuVars, historyVars, queueVars, Reads
<1>2. ASSUME NEW c \in Client PROVE ProcessOK(c)'
  BY DEF ClientInv, ClientTypeOK, ProcessOK, Start, GoTo, menuVars, historyVars, queueVars,
        Running, Holding, Loop, Reads
<1> QED BY <1>1, <1>2 DEF ClientInv, Start, menuVars, historyVars

\* the clients' queue (client.c:33),
LEMMA OpenClientQueueKeeps ==
  ASSUME ClientInv, NEW d \in Client, OpenClientQueue(d)
  PROVE  ClientInv'
<1>1. CASE End(d, "1") /\ UNCHANGED name
  BY <1>1, EndKeeps DEF ClientInv, ClientTypeOK
<1>2. CASE ~(End(d, "1") /\ UNCHANGED name)
  <2> DEFINE q == IF name # 0 THEN name ELSE CHOOSE new \in Queue : \A e \in Client : mine[e] # new
  <2>1. /\ at[d] = "mq_open_client" /\ name' = q /\ mine' = [mine EXCEPT ![d] = q]
        /\ at' = [at EXCEPT ![d] = "mq_open_servers"]
        /\ UNCHANGED <<signalVars, menuVars, missing, registrant, code, full, starts>>
    BY <1>2 DEF OpenClientQueue, At, GoTo
  <2>2. q \in Queue
    BY <2>1, FreeQueue DEF ClientInv, ClientTypeOK
  <2> HIDE DEF q
  <2>3. ClientTypeOK'
    BY <2>1, <2>2 DEF ClientInv, ClientTypeOK, signalVars, menuVars, historyVars, Reads
  <2>4. ASSUME NEW c \in Client PROVE ProcessOK(c)'
    BY <2>1, <2>2 DEF ClientInv, ClientTypeOK, ProcessOK, signalVars, menuVars, historyVars,
        Running, Holding, Loop, Reads
  <2> QED BY <2>1, <2>3, <2>4 DEF ClientInv, menuVars, historyVars
<1> QED BY <1>1, <1>2 DEF OpenClientQueue

\* the queues of the server (client.c:41-67),
LEMMA OpenServerQueuesKeeps ==
  ASSUME ClientInv, NEW d \in Client, OpenServerQueues(d)
  PROVE  ClientInv'
<1>1. CASE End(d, "1") /\ UNCHANGED name
  BY <1>1, EndKeeps DEF ClientInv, ClientTypeOK
<1>2. ASSUME NEW failed \in SUBSET Troubled, missing' = [missing EXCEPT ![d] = failed],
             at[d] = "mq_open_servers", at' = [at EXCEPT ![d] = "pthread_sigmask"],
             UNCHANGED <<signalVars, menuVars, mine, name, registrant, code, full, starts>>
      PROVE  ClientInv'
  <2>3. ClientTypeOK'
    BY <1>2 DEF ClientInv, ClientTypeOK, signalVars, menuVars, historyVars, Reads
  <2>4. ASSUME NEW c \in Client PROVE ProcessOK(c)'
    BY <1>2 DEF ClientInv, ClientTypeOK, ProcessOK, signalVars, menuVars, historyVars,
        Running, Holding, Loop, Reads
  <2> QED BY <1>2, <2>3, <2>4 DEF ClientInv, menuVars, historyVars
<1>3. PICK failed \in SUBSET Troubled :
        \/ End(d, "1") /\ UNCHANGED name
        \/ /\ missing' = [missing EXCEPT ![d] = failed]
           /\ at' = [at EXCEPT ![d] = "pthread_sigmask"]
           /\ UNCHANGED <<signalVars, menuVars, mine, name, registrant, code, full, starts>>
  BY Zenon DEF OpenServerQueues, GoTo
<1>4. at[d] = "mq_open_servers"
  BY DEF OpenServerQueues, At
<1> QED BY <1>1, <1>2, <1>3, <1>4

\* the signal mask (client.c:76),
LEMMA SetMaskKeeps ==
  ASSUME ClientInv, NEW d \in Client, SetMask(d)
  PROVE  ClientInv'
<1>1. ClientTypeOK'
  BY DEF ClientInv, ClientTypeOK, SetMask, At, GoTo, menuVars, historyVars, queueVars, Reads
<1>2. ASSUME NEW c \in Client PROVE ProcessOK(c)'
  BY DEF ClientInv, ClientTypeOK, ProcessOK, SetMask, At, GoTo, menuVars, historyVars, queueVars,
        Running, Holding, Loop, Reads
<1> QED BY <1>1, <1>2 DEF ClientInv, SetMask, menuVars, historyVars

\* the registration (client.c:86),
LEMMA NotifyKeeps ==
  ASSUME ClientInv, NEW d \in Client, Notify(d)
  PROVE  ClientInv'
<1>1. CASE End(d, "-1") /\ UNCHANGED name
  BY <1>1, EndKeeps DEF ClientInv, ClientTypeOK
<1>2. CASE ~(End(d, "-1") /\ UNCHANGED name)
  <2>1. /\ at[d] = "mq_notify" /\ registrant[mine[d]] = "none" /\ Registered(d)
        /\ at' = [at EXCEPT ![d] = "while"]
        /\ UNCHANGED <<signalVars, menuVars, mine, missing, name, code, full, starts>>
    BY <1>2 DEF Notify, At, GoTo
  <2>2. mine[d] \in Queue
    BY <2>1 DEF ClientInv, ProcessOK, Holding
  <2>3. /\ registrant' \in [Queue -> Client \cup {"none"}]
        /\ \A q \in Queue : registrant[q] # "none" => registrant'[q] = registrant[q]
        /\ registrant'[mine[d]] = d
    BY <2>1, <2>2, RegisteredKeeps
  <2>4. ClientTypeOK'
    BY <2>1, <2>3 DEF ClientInv, ClientTypeOK, signalVars, menuVars, historyVars, Reads
  <2>5. ASSUME NEW c \in Client PROVE ProcessOK(c)'
    BY <2>1, <2>2, <2>3, ClientAssumption
      DEF ClientInv, ClientTypeOK, ProcessOK, signalVars, menuVars, historyVars,
        Running, Holding, Loop, Reads
  <2> QED BY <2>1, <2>4, <2>5 DEF ClientInv, menuVars, historyVars
<1> QED BY <1>1, <1>2 DEF Notify

\* sigwait and the next registration (client.c:98-106),
LEMMA SigwaitKeeps ==
  ASSUME ClientInv, NEW d \in Client, Sigwait(d)
  PROVE  ClientInv'
<1>1. mine[d] \in Queue
  BY DEF ClientInv, ProcessOK, Holding, Loop, Sigwait, At
<1>2. /\ registrant' \in [Queue -> Client \cup {"none"}]
      /\ \A q \in Queue : registrant[q] # "none" => registrant'[q] = registrant[q]
  BY <1>1, RegisteredKeeps DEF Sigwait
<1>3. PICK sig \in pending[d] :
        /\ pending' = [pending EXCEPT ![d] = @ \ {sig}]
        /\ at' = [at EXCEPT ![d] = IF sig = "SIGUSR1" THEN "getchar" ELSE "while"]
  BY DEF Sigwait, GoTo
<1>4. /\ at[d] = "sigwait"
      /\ UNCHANGED <<client_state, handler, inHandler, blocked, menuVars, mine, missing, name,
                 code, full, starts>>
  BY DEF Sigwait, At
<1>5. ClientTypeOK'
  BY <1>2, <1>3, <1>4 DEF ClientInv, ClientTypeOK, menuVars, historyVars, Reads
<1>6. ASSUME NEW c \in Client PROVE ProcessOK(c)'
  BY <1>2, <1>3, <1>4, ClientAssumption DEF ClientInv, ClientTypeOK, ProcessOK, menuVars, historyVars,
        Running, Holding, Loop, Reads
<1> QED BY <1>4, <1>5, <1>6 DEF ClientInv, menuVars, historyVars

\* a line typed,
LEMMA TypeLineKeeps ==
  ASSUME ClientInv, NEW d \in Client, NEW line \in Lines[d], TypeLine(d, line)
  PROVE  ClientInv'
<1>1. IsRestOfLine(line)
  BY LinesAssumption
<1>2. /\ input' = [input EXCEPT ![d] = line]
      /\ UNCHANGED <<at, signalVars, mychar, queueVars, code, full, starts>>
  BY DEF TypeLine
<1>3. odd' \in [Client -> BOOLEAN] /\ late' \in [Client -> BOOLEAN]
  <2>1. odd \in [Client -> BOOLEAN] /\ late \in [Client -> BOOLEAN]
    BY DEF ClientInv, ClientTypeOK
  <2>2. \E v \in BOOLEAN : odd' = [odd EXCEPT ![d] = v]
    BY Zenon DEF TypeLine, Noted
  <2>3. \E v \in BOOLEAN : late' = [late EXCEPT ![d] = v]
    <3>1. odd[d] \in BOOLEAN
      BY <2>1
    <3>2. (odd[d] /\ Len(line) = 2) \in BOOLEAN
      BY Zenon
    <3> QED BY <3>2, Zenon DEF TypeLine, Noted
  <2> QED BY <2>1, <2>2, <2>3
<1>4. ClientTypeOK'
  BY <1>1, <1>2, <1>3 DEF ClientInv, ClientTypeOK, signalVars, queueVars
<1>5. ASSUME NEW c \in Client PROVE ProcessOK(c)'
  BY <1>2 DEF ClientInv, ClientTypeOK, ProcessOK, signalVars, queueVars,
        Running, Holding, Loop, Reads
<1> QED BY <1>2, <1>4, <1>5 DEF ClientInv

\* a step of the menu (client.c:119-148),
LEMMA MenuKeeps ==
  ASSUME ClientInv, NEW d \in Client, at[d] \in Loop,
         NEW l \in Loop, at' = [at EXCEPT ![d] = l],
         NEW line, IsRestOfLine(line), input' = [input EXCEPT ![d] = line],
         DOMAIN mychar' = Client,
         odd' \in [Client -> BOOLEAN], late' = late,
         UNCHANGED <<signalVars, queueVars, full, starts>>
  PROVE  ClientInv'
<1>1. ClientTypeOK'
  <2>1. \A c \in Client : IsRestOfLine(input'[c])
    BY DEF ClientInv, ClientTypeOK
  <2>2. at' \in [Client -> Place]
    BY DEF ClientInv, ClientTypeOK, Loop, Place, Reads
  <2> QED BY <2>1, <2>2 DEF ClientInv, ClientTypeOK, signalVars, queueVars, Place
<1>2. ASSUME NEW c \in Client PROVE ProcessOK(c)'
  BY DEF ClientInv, ClientTypeOK, ProcessOK, signalVars, queueVars,
        Running, Holding, Loop, Reads
<1>3. DOMAIN input' = Client
  BY DEF ClientInv
<1> QED BY <1>1, <1>2, <1>3 DEF ClientInv

\* Whatever the selection, the client stays in its loop.
LEMMA SelectedStays ==
  ASSUME NEW d \in Client, Selected(d)
  PROVE  \E l \in Loop : at' = [at EXCEPT ![d] = l]
BY DEF Selected, GoTo, Loop, Reads

\* The steps of the menu keep the invariant,
LEMMA LoopKeeps ==
  ASSUME ClientInv, NEW d \in Client,
         \/ Getchar(d) \/ GetcharWaste(d) \/ Fgets(d) \/ MqSend(d)
  PROVE  ClientInv'
<1>0. /\ IsRestOfLine(input[d]) /\ DOMAIN mychar = Client
      /\ odd \in [Client -> BOOLEAN] /\ late \in [Client -> BOOLEAN]
  BY DEF ClientInv, ClientTypeOK
<1>1. CASE Getchar(d)
  <2>1. /\ at[d] = "getchar" /\ at' = [at EXCEPT ![d] = "getchar_waste"]
        /\ input' = [input EXCEPT ![d] = Tail(input[d])] /\ input[d] # <<>>
        /\ DOMAIN mychar' = DOMAIN mychar /\ odd' = odd /\ late' = late
        /\ UNCHANGED <<signalVars, queueVars, full, starts>>
    BY <1>1 DEF Getchar, At, GoTo, historyVars
  <2>2. IsRestOfLine(Tail(input[d]))
    BY <1>0, <2>1, OneRead
  <2>3. at[d] \in Loop /\ "getchar_waste" \in Loop
    BY <2>1 DEF Loop, Reads
  <2> QED BY <1>0, <2>1, <2>2, <2>3, MenuKeeps
<1>2. CASE GetcharWaste(d)
  <2>1. /\ at[d] = "getchar_waste"
        /\ input' = [input EXCEPT ![d] = Tail(input[d])] /\ input[d] # <<>>
        /\ mychar' = mychar /\ odd' = odd /\ late' = late
        /\ UNCHANGED <<signalVars, queueVars, full, starts>>
    BY <1>2 DEF GetcharWaste, At, historyVars
  <2>2. IsRestOfLine(Tail(input[d]))
    BY <1>0, <2>1, OneRead
  <2>3. at[d] \in Loop
    BY <2>1 DEF Loop, Reads
  <2>4. PICK l \in Loop : at' = [at EXCEPT ![d] = l]
    BY <1>2, SelectedStays DEF GetcharWaste
  <2> QED BY <1>0, <2>1, <2>2, <2>3, <2>4, MenuKeeps
<1>3. CASE Fgets(d)
  <2> DEFINE rest == SubSeq(input[d], QueueMsgSize, Len(input[d]))
  <2>1. /\ at[d] = "fgets" /\ at' = [at EXCEPT ![d] = "mq_send"]
        /\ input' = [input EXCEPT ![d] = rest]
        /\ odd' = [odd EXCEPT ![d] = Len(rest) % 2 = 1]
        /\ mychar' = mychar /\ late' = late
        /\ UNCHANGED <<signalVars, queueVars, full, starts>>
    BY <1>3 DEF Fgets, At, GoTo
  <2>2. IsRestOfLine(rest)
    BY <1>0, ClientAssumption, TextRead
  <2>3. odd' \in [Client -> BOOLEAN]
    <3>1. \E v \in BOOLEAN : odd' = [odd EXCEPT ![d] = v]
      BY <2>1, Zenon
    <3> QED BY <1>0, <3>1
  <2>4. at[d] \in Loop /\ "mq_send" \in Loop
    BY <2>1 DEF Loop, Reads
  <2> HIDE DEF rest
  <2> QED BY <1>0, <2>1, <2>2, <2>3, <2>4, MenuKeeps
<1>4. CASE MqSend(d)
  <2>1. /\ at[d] = "mq_send" /\ at' = [at EXCEPT ![d] = "while"]
        /\ UNCHANGED <<signalVars, menuVars, queueVars, code, full, starts>>
    BY <1>4 DEF MqSend, At, GoTo
  <2>2. ClientTypeOK'
    BY <2>1 DEF ClientInv, ClientTypeOK, signalVars, menuVars, historyVars, queueVars, Reads
  <2>3. ASSUME NEW c \in Client PROVE ProcessOK(c)'
    BY <2>1
      DEF ClientInv, ClientTypeOK, ProcessOK, signalVars, menuVars, historyVars, queueVars,
        Running, Holding, Loop, Reads
  <2> QED BY <2>1, <2>2, <2>3 DEF ClientInv, menuVars, historyVars
<1> QED BY <1>1, <1>2, <1>3, <1>4

\* and so do the loop's test (client.c:96),
LEMMA WhileKeeps ==
  ASSUME ClientInv, NEW d \in Client, While(d)
  PROVE  ClientInv'
<1>1. /\ at[d] = "while"
      /\ at' = [at EXCEPT ![d] = "mq_close_client"] \/ at' = [at EXCEPT ![d] = "sigwait"]
      /\ UNCHANGED <<signalVars, input, historyVars, queueVars, full, starts>>
      /\ mychar' = [mychar EXCEPT ![d] = "none"]
  BY DEF While, At, GoTo
<1>2. ClientTypeOK'
  <2>1. at' \in [Client -> Place]
    <3>1. at \in [Client -> Place]
      BY DEF ClientInv, ClientTypeOK, Place
    <3>2. "sigwait" \in Place /\ "mq_close_client" \in Place
      BY DEF Place
    <3> QED BY <1>1, <3>1, <3>2
  <2>2. DOMAIN mychar' = Client
    BY <1>1 DEF ClientInv, ClientTypeOK
  <2> QED BY <1>1, <2>1, <2>2 DEF ClientInv, ClientTypeOK, signalVars, historyVars, queueVars, Place
<1>3. ASSUME NEW c \in Client PROVE ProcessOK(c)'
  BY <1>1 DEF ClientInv, ClientTypeOK, ProcessOK, signalVars, queueVars,
        Running, Holding, Loop, Reads
<1> QED BY <1>1, <1>2, <1>3 DEF ClientInv

\* the end of the client (client.c:153-197),
LEMMA CloseKeeps ==
  ASSUME ClientInv, NEW d \in Client,
         CloseClientQueue(d) \/ CloseServerQueues(d) \/ Unlink(d)
  PROVE  ClientInv'
<1>1. CASE CloseClientQueue(d)
  <2>1. /\ at[d] = "mq_close_client" /\ at' = [at EXCEPT ![d] = "mq_close_servers"]
        /\ registrant' = [registrant EXCEPT ![mine[d]] = IF @ = d THEN "none" ELSE @]
        /\ mine' = [mine EXCEPT ![d] = 0]
        /\ UNCHANGED <<signalVars, menuVars, missing, name, code, full, starts>>
    BY <1>1 DEF CloseClientQueue, At, GoTo
  <2>2. /\ registrant' \in [Queue -> Client \cup {"none"}]
        /\ \A q \in Queue : registrant[q] # d => registrant'[q] = registrant[q]
    <3>1. registrant \in [Queue -> Client \cup {"none"}]
      BY DEF ClientInv, ClientTypeOK
    <3>2. mine[d] \in Queue
      BY <2>1 DEF ClientInv, ProcessOK, Holding
    <3> QED BY <2>1, <3>1, <3>2
  <2>3. ClientTypeOK'
    BY <2>1, <2>2 DEF ClientInv, ClientTypeOK, signalVars, menuVars, historyVars, Reads
  <2>4. ASSUME NEW c \in Client PROVE ProcessOK(c)'
    BY <2>1, <2>2 DEF ClientInv, ClientTypeOK, ProcessOK, signalVars, menuVars, historyVars,
        Running, Holding, Loop, Reads
  <2> QED BY <2>1, <2>3, <2>4 DEF ClientInv, menuVars, historyVars
<1>2. CASE CloseServerQueues(d)
  <2>1. CASE End(d, "1") /\ UNCHANGED name
    BY <2>1, EndKeeps DEF ClientInv, ClientTypeOK
  <2>2. CASE ~(End(d, "1") /\ UNCHANGED name)
    <3>1. /\ at[d] = "mq_close_servers" /\ at' = [at EXCEPT ![d] = "mq_unlink"]
          /\ missing[d] = {}
          /\ UNCHANGED <<signalVars, menuVars, queueVars, code, full, starts>>
      BY <1>2, <2>2 DEF CloseServerQueues, At, GoTo
    <3>2. ClientTypeOK'
      BY <3>1 DEF ClientInv, ClientTypeOK, signalVars, menuVars, historyVars, queueVars, Reads
    <3>3. ASSUME NEW c \in Client PROVE ProcessOK(c)'
      BY <3>1 DEF ClientInv, ClientTypeOK, ProcessOK, signalVars, menuVars, historyVars, queueVars,
        Running, Holding, Loop, Reads
    <3> QED BY <3>1, <3>2, <3>3 DEF ClientInv, menuVars, historyVars
  <2> QED BY <1>2, <2>1, <2>2 DEF CloseServerQueues
<1>3. CASE Unlink(d)
  BY <1>3, EndKeeps DEF Unlink
<1> QED BY <1>1, <1>2, <1>3

\* a signal that arrives,
LEMMA SignalKeeps ==
  ASSUME ClientInv, NEW d \in Client, SIGINT(d) \/ SIGUSR1(d)
  PROVE  ClientInv'
<1>1. CASE End(d, "killed") /\ UNCHANGED name
  BY <1>1, EndKeeps DEF ClientInv, ClientTypeOK
<1>2. CASE ~(End(d, "killed") /\ UNCHANGED name)
  <2>1. /\ \/ handler' = [handler EXCEPT ![d] = "default"] /\ inHandler' = [inHandler EXCEPT ![d] = TRUE]
              /\ UNCHANGED pending
           \/ pending' = [pending EXCEPT ![d] = @ \cup {"SIGUSR1"}] /\ UNCHANGED <<handler, inHandler>>
        /\ UNCHANGED <<at, client_state, blocked, menuVars, queueVars, code, full, starts>>
    BY <1>2 DEF SIGINT, SIGUSR1
  <2>2. ClientTypeOK'
    <3>1. /\ handler \in [Client -> {"default", "handleSigint"}]
          /\ inHandler \in [Client -> BOOLEAN]
          /\ pending \in [Client -> SUBSET {"SIGUSR1", "SIGUSR2"}]
      BY DEF ClientInv, ClientTypeOK
    <3>2. handler' \in [Client -> {"default", "handleSigint"}]
      BY <2>1, <3>1
    <3>3. inHandler' \in [Client -> BOOLEAN]
      BY <2>1, <3>1
    <3>4. pending' \in [Client -> SUBSET {"SIGUSR1", "SIGUSR2"}]
      BY <2>1, <3>1
    <3> QED BY <2>1, <3>2, <3>3, <3>4 DEF ClientInv, ClientTypeOK, menuVars, historyVars, queueVars
  <2>3. ASSUME NEW c \in Client PROVE ProcessOK(c)'
    BY <2>1 DEF ClientInv, ClientTypeOK, ProcessOK, menuVars, historyVars, queueVars, Running
  <2> QED BY <2>1, <2>2, <2>3 DEF ClientInv, menuVars, historyVars
<1> QED BY <1>1, <1>2

\* and the handler (client.c:7-13).
LEMMA HandlerKeeps ==
  ASSUME ClientInv, NEW d \in Client, handleSigint(d)
  PROVE  ClientInv'
<1>1. CASE End(d, "killed") /\ UNCHANGED name
  BY <1>1, EndKeeps DEF ClientInv, ClientTypeOK
<1>2. CASE ~(End(d, "killed") /\ UNCHANGED name)
  <2>1. /\ handler' = [handler EXCEPT ![d] = "handleSigint"]
        /\ inHandler' = [inHandler EXCEPT ![d] = FALSE]
        /\ client_state' = [client_state EXCEPT ![d] = "SHUTDOWN"]
        /\ pending' = [pending EXCEPT ![d] = @ \cup {"SIGUSR2"}]
        /\ Resumed(d)
        /\ UNCHANGED <<blocked, input, historyVars, queueVars, code, full, starts>>
    BY <1>2 DEF handleSigint
  <2>2. \/ at' = at
        \/ at[d] \in Loop /\ \E l \in Loop : at' = [at EXCEPT ![d] = l]
    <3>1. Waits(d) => at[d] \in Loop
      BY DEF Waits, Loop
    <3>2. Interrupted(d) => \E l \in Loop : at' = [at EXCEPT ![d] = l]
      BY SelectedStays DEF Interrupted, GoTo, Loop, Reads
    <3> QED BY <2>1, <3>1, <3>2 DEF Resumed
  <2>3. mychar' = mychar \/ mychar' = [mychar EXCEPT ![d] = "EOF"]
    BY <2>1 DEF Resumed, Interrupted
  <2>4. ClientTypeOK'
    <3>1. DOMAIN mychar' = Client
      BY <2>3 DEF ClientInv, ClientTypeOK
    <3> QED BY <2>1, <2>2, <3>1 DEF ClientInv, ClientTypeOK, historyVars, queueVars, Loop, Reads
  <2>5. ASSUME NEW c \in Client PROVE ProcessOK(c)'
    BY <2>1, <2>2 DEF ClientInv, ClientTypeOK, ProcessOK, queueVars,
        Running, Holding, Loop, Reads
  <2> QED BY <2>1, <2>3, <2>4, <2>5 DEF ClientInv
<1> QED BY <1>1, <1>2 DEF handleSigint

\* The invariant holds initially.
LEMMA ClientInit == Init => ClientInv
<1> SUFFICES ASSUME Init PROVE ClientInv
  OBVIOUS
<1>1. ClientTypeOK
  BY ClientAssumption, NothingLeft DEF Init, ClientTypeOK
<1>2. ASSUME NEW c \in Client PROVE ProcessOK(c)
  BY DEF Init, ProcessOK,
        Running, Holding, Loop, Reads
<1> QED BY <1>1, <1>2 DEF Init, ClientInv

\* The invariant is inductive.
LEMMA ClientNext == ClientInv /\ [Next]_vars => ClientInv'
<1> SUFFICES ASSUME ClientInv, [Next]_vars PROVE ClientInv'
  OBVIOUS
<1>1. ASSUME NEW d \in Client, Start(d) PROVE ClientInv'
  BY <1>1, StartKeeps
<1>2. ASSUME NEW d \in Client, Main(d) PROVE ClientInv'
  BY <1>2, OpenClientQueueKeeps, OpenServerQueuesKeeps, SetMaskKeeps, NotifyKeeps, WhileKeeps,
     SigwaitKeeps, LoopKeeps, CloseKeeps DEF Main
<1>3. ASSUME NEW d \in Client, handleSigint(d) PROVE ClientInv'
  BY <1>3, HandlerKeeps
<1>4. ASSUME NEW d \in Client, NEW line \in Lines[d], TypeLine(d, line) PROVE ClientInv'
  BY <1>4, TypeLineKeeps
<1>5. ASSUME NEW d \in Client, SIGINT(d) \/ SIGUSR1(d) PROVE ClientInv'
  BY <1>5, SignalKeeps
<1>6. ASSUME NEW q \in Troubled, ServerQueueChanges(q) PROVE ClientInv'
  <2>1. ClientTypeOK'
    BY <1>6 DEF ServerQueueChanges, ClientInv, ClientTypeOK, signalVars, menuVars, historyVars, queueVars
  <2>2. ASSUME NEW c \in Client PROVE ProcessOK(c)'
    BY <1>6
      DEF ServerQueueChanges, ClientInv, ProcessOK, signalVars, menuVars, historyVars, queueVars, Running
  <2> QED BY <1>6, <2>1, <2>2 DEF ClientInv, ServerQueueChanges, menuVars, historyVars
<1>7. CASE UNCHANGED vars
  <2>1. ClientTypeOK'
    BY <1>7 DEF vars, ClientInv, ClientTypeOK, signalVars, menuVars, historyVars, queueVars
  <2>2. ASSUME NEW c \in Client PROVE ProcessOK(c)'
    BY <1>7 DEF vars, ClientInv, ProcessOK, signalVars, menuVars, historyVars, queueVars, Running
  <2> QED BY <1>7, <2>1, <2>2 DEF ClientInv, vars, menuVars, historyVars
<1> QED BY <1>1, <1>2, <1>3, <1>4, <1>5, <1>6, <1>7 DEF Next

\* Type correctness of the client: ClientTypeOK.
THEOREM ClientTyped == Spec => []ClientTypeOK
<1>1. ClientInv => ClientTypeOK
  BY DEF ClientInv
<1> QED BY <1>1, ClientInit, ClientNext, PTL DEF Spec

\* No two clients in their loops share a queue, however many are started and
\* whenever one of them unlinks it (client.c:86, 153, 189).
THEOREM LoopsStayApart == Spec => []LoopsApart
<1>1. ClientInv => LoopsApart
  <2> SUFFICES ASSUME ClientInv, NEW c \in Client, InLoop(c)
               PROVE  /\ mine[c] # 0 /\ registrant[mine[c]] = c
                      /\ \A d \in Client \ {c} : InLoop(d) => mine[c] # name \/ mine[d] # name
    BY DEF LoopsApart
  <2>1. \A d \in Client : InLoop(d) => mine[d] \in Queue /\ registrant[mine[d]] = d
    BY DEF InLoop, ClientInv, ProcessOK, Holding, Loop
  <2>2. 0 \notin Queue
    <3> DEFINE n == Cardinality(Client)
    <3>1. n \in Nat
      BY ClientAssumption, FS_CardinalityType
    <3> HIDE DEF n
    <3>2. 0 \notin 1..n
      BY <3>1
    <3> QED BY <3>2 DEF n, Queue
  <2> QED BY <2>1, <2>2
<1> QED BY <1>1, ClientInit, ClientNext, PTL DEF Spec
\* Every client has an exit code.
CodeOK == DOMAIN code = Client

\* Every step leaves every client an exit code.
LEMMA CodeNext == CodeOK /\ [Next]_vars => CodeOK'
<1> SUFFICES ASSUME CodeOK, [Next]_vars PROVE CodeOK'
  OBVIOUS
<1>1. ASSUME NEW d, NEW s, End(d, s) PROVE CodeOK'
  BY <1>1 DEF End, CodeOK
<1>2. ASSUME UNCHANGED code PROVE CodeOK'
  BY <1>2 DEF CodeOK
<1>3. ASSUME NEW d \in Client, Start(d) PROVE CodeOK'
  BY <1>3 DEF Start, CodeOK
<1>4. ASSUME NEW d \in Client, Main(d) PROVE CodeOK'
  BY <1>1, <1>2, <1>4
    DEF Main, OpenClientQueue, OpenServerQueues, SetMask, Notify, While, Sigwait,
     Getchar, GetcharWaste, Fgets, MqSend, CloseClientQueue, CloseServerQueues, Unlink
<1>5. ASSUME NEW d \in Client, handleSigint(d) \/ SIGINT(d) \/ SIGUSR1(d) PROVE CodeOK'
  BY <1>1, <1>2, <1>5 DEF handleSigint, SIGINT, SIGUSR1
<1>6. ASSUME NEW d \in Client, NEW line \in Lines[d], TypeLine(d, line) PROVE CodeOK'
  BY <1>2, <1>6 DEF TypeLine
<1>7. ASSUME NEW q \in Troubled, ServerQueueChanges(q) PROVE CodeOK'
  BY <1>2, <1>7 DEF ServerQueueChanges
<1> QED BY <1>2, <1>3, <1>4, <1>5, <1>6, <1>7 DEF Next, vars

\* A client ends by returning early, at one of four places, or by a signal.
EndsAtItsOwnHand(c) ==
  /\ at[c] \in {"mq_open_client", "mq_open_servers", "mq_notify", "mq_close_servers"}
  /\ code'[c] # "0" /\ name' = name

EndsBySignal(c) == (inHandler[c] \/ ~blocked[c]) /\ code'[c] = "killed" /\ name' = name

\* There are no other ways to end.
LEMMA EndsHow ==
  ASSUME ClientInv, CodeOK, [Next]_vars, NEW c \in Client, Running(c), ~Running(c)'
  PROVE  EndsAtItsOwnHand(c) \/ EndsBySignal(c) \/ at[c] = "mq_unlink"
<1>1. at[c] # "ended" /\ at'[c] = "ended" /\ at \in [Client -> Place]
  BY DEF Running, ClientInv, ClientTypeOK, Place
<1>2. ASSUME NEW d \in Client, NEW l, at' = [at EXCEPT ![d] = l], l # "ended" PROVE FALSE
  BY <1>1, <1>2
<1>3. ASSUME UNCHANGED at PROVE FALSE
  BY <1>1, <1>3
<1>4. ASSUME NEW d \in Client, NEW s, End(d, s) PROVE d = c /\ code'[c] = s
  <2>1. d = c
    BY <1>1, <1>4 DEF End
  <2> QED BY <1>4, <2>1 DEF End, CodeOK
<1>5. ASSUME NEW d \in Client, Selected(d) PROVE FALSE
  <2>1. PICK l \in Loop : at' = [at EXCEPT ![d] = l]
    BY <1>5, SelectedStays
  <2>2. l # "ended"
    BY <2>1 DEF Loop, Reads
  <2> QED BY <1>2, <2>1, <2>2
<1>6. ASSUME NEW d \in Client, Start(d) PROVE FALSE
  BY <1>2, <1>6 DEF Start, GoTo
<1>7. ASSUME NEW d \in Client, Main(d)
      PROVE  EndsAtItsOwnHand(c) \/ at[c] = "mq_unlink"
  <2>1. CASE OpenClientQueue(d)
    <3>1. at[d] = "mq_open_client" /\ End(d, "1") /\ name' = name
      BY <1>2, <2>1 DEF OpenClientQueue, At, GoTo
    <3> QED BY <1>4, <3>1 DEF EndsAtItsOwnHand
  <2>2. CASE OpenServerQueues(d)
    <3>1. at[d] = "mq_open_servers" /\ End(d, "1") /\ name' = name
      BY <1>2, <2>2 DEF OpenServerQueues, At, GoTo
    <3> QED BY <1>4, <3>1 DEF EndsAtItsOwnHand
  <2>3. CASE Notify(d)
    <3>1. at[d] = "mq_notify" /\ End(d, "-1") /\ name' = name
      BY <1>2, <2>3 DEF Notify, At, GoTo
    <3> QED BY <1>4, <3>1 DEF EndsAtItsOwnHand
  <2>4. CASE CloseServerQueues(d)
    <3>1. at[d] = "mq_close_servers" /\ End(d, "1") /\ name' = name
      BY <1>2, <2>4 DEF CloseServerQueues, At, GoTo
    <3> QED BY <1>4, <3>1 DEF EndsAtItsOwnHand
  <2>5. CASE Unlink(d)
    <3>1. at[d] = "mq_unlink" /\ d = c
      BY <1>4, <2>5 DEF Unlink, At
    <3> QED BY <3>1
  <2>6. CASE SetMask(d) \/ While(d) \/ Sigwait(d) \/ Getchar(d) \/ Fgets(d) \/ MqSend(d)
              \/ CloseClientQueue(d)
    BY <1>2, <2>6 DEF SetMask, While, Sigwait, Getchar, Fgets, MqSend, CloseClientQueue, GoTo
  <2>7. CASE GetcharWaste(d)
    BY <1>5, <2>7 DEF GetcharWaste
  <2> QED BY <1>7, <2>1, <2>2, <2>3, <2>4, <2>5, <2>6, <2>7 DEF Main
<1>8. ASSUME NEW d \in Client, SIGINT(d) PROVE EndsBySignal(c)
  <2>1. handler[d] = "default" /\ End(d, "killed") /\ name' = name
    BY <1>3, <1>8 DEF SIGINT
  <2>2. d = c /\ code'[c] = "killed"
    BY <1>4, <2>1
  <2>3. inHandler[c]
    BY <2>1, <2>2 DEF ClientInv, ProcessOK
  <2> QED BY <2>1, <2>2, <2>3 DEF EndsBySignal
<1>9. ASSUME NEW d \in Client, SIGUSR1(d) PROVE EndsBySignal(c)
  <2>1. ~blocked[d] /\ End(d, "killed") /\ name' = name
    BY <1>3, <1>9 DEF SIGUSR1
  <2> QED BY <1>4, <2>1 DEF EndsBySignal
<1>10. ASSUME NEW d \in Client, handleSigint(d) PROVE EndsBySignal(c)
  <2>1. ASSUME Resumed(d) PROVE FALSE
    BY <1>2, <1>3, <1>5, <2>1 DEF Resumed, Interrupted, GoTo
  <2>2. inHandler[d] /\ End(d, "killed") /\ name' = name
    BY <1>10, <2>1 DEF handleSigint
  <2> QED BY <1>4, <2>2 DEF EndsBySignal
<1>11. ASSUME NEW d \in Client, NEW line \in Lines[d], TypeLine(d, line) PROVE FALSE
  BY <1>3, <1>11 DEF TypeLine
<1>12. ASSUME NEW q \in Troubled, ServerQueueChanges(q) PROVE FALSE
  BY <1>3, <1>12 DEF ServerQueueChanges
<1> QED BY <1>3, <1>6, <1>7, <1>8, <1>9, <1>10, <1>11, <1>12 DEF Next, vars

\* Whatever signals arrive, only a SIGINT during the handler kills a client in
\* its loop (client.c:9).
THEOREM KilledOnlyInHandlerHolds == Spec => KilledOnlyInHandler
<1> DEFINE Kept == \A c \in Client :
              InLoop(c) /\ ~Running(c)' => inHandler[c] /\ code'[c] = "killed"
<1>1. ClientInv /\ CodeOK /\ [Next]_vars => [Kept]_vars
  <2> SUFFICES ASSUME ClientInv, CodeOK, [Next]_vars, NEW c \in Client, InLoop(c), ~Running(c)'
               PROVE  inHandler[c] /\ code'[c] = "killed"
    OBVIOUS
  <2>1. /\ Running(c) /\ blocked[c] /\ at[c] # "mq_unlink"
        /\ at[c] \notin {"mq_open_client", "mq_open_servers", "mq_notify", "mq_close_servers"}
    BY DEF ClientInv, ProcessOK, InLoop, Loop, Running, Reads
  <2> QED BY <2>1, EndsHow DEF EndsAtItsOwnHand, EndsBySignal
<1>2. Init => CodeOK
  BY DEF Init, CodeOK
<1> QED BY <1>1, <1>2, ClientInit, ClientNext, CodeNext, PTL DEF Spec, KilledOnlyInHandler

\* A client that could not open a queue of the server never returns 0 and never
\* unlinks the clients' queue (client.c:49, 56, 168).
THEOREM MissingQueueTellsHolds == Spec => MissingQueueTells
<1> DEFINE Kept == \A c \in Client :
              missing[c] # {} /\ ~Running(c)' => code'[c] # "0" /\ name' = name
<1>1. ClientInv /\ CodeOK /\ [Next]_vars => [Kept]_vars
  <2> SUFFICES ASSUME ClientInv, CodeOK, [Next]_vars, NEW c \in Client, missing[c] # {}, ~Running(c)'
               PROVE  code'[c] # "0" /\ name' = name
    OBVIOUS
  <2>1. Running(c) /\ at[c] # "mq_unlink"
    BY DEF ClientInv, ProcessOK, Running
  <2> QED BY <2>1, EndsHow DEF EndsAtItsOwnHand, EndsBySignal
<1>2. Init => CodeOK
  BY DEF Init, CodeOK
<1> QED BY <1>1, <1>2, ClientInit, ClientNext, CodeNext, PTL DEF Spec, MissingQueueTells

(***************************************************************************)
(* A client that is one character late in its menus.                       *)
(***************************************************************************)
\* An odd number of characters; odd and even alternate.
Odd(n) == n % 2 = 1

LEMMA OddAlternates ==
  /\ ~Odd(0) /\ Odd(1) /\ ~Odd(2)
  /\ \A n \in Nat \ {0} : Odd(n - 1) <=> ~Odd(n)
BY DEF Odd

\* Where a client is before its loop, and where it can be while it is late.
Outside == {"ended", "mq_open_client", "mq_open_servers", "pthread_sigmask", "mq_notify"}
MayBeLate == {"getchar_waste", "while", "sigwait", "getchar",
              "mq_close_client", "mq_close_servers", "mq_unlink"}

\* Between menus what is left of a line is odd exactly when the history is;
\* half-way through a menu it is the other way round.  A read that SIGINT has
\* cut ends that, but stops the loop, too.
InStep(c) ==
  /\ at[c] \in Outside => input[c] = <<>> /\ ~odd[c] /\ ~late[c]
  /\ \/ at[c] \in {"sigwait", "getchar", "fgets"}
     \/ at[c] \in {"while", "mq_send"} /\ client_state[c] = "RUNNING"
     => (odd[c] <=> Odd(Len(input[c])))
  /\ /\ at[c] = "getchar_waste"
     /\ client_state[c] = "RUNNING" \/ mychar[c] \in DOMAIN Command
     => (odd[c] <=> ~Odd(Len(input[c])))
  /\ at[c] = "getchar_waste" /\ input[c] = <<>> => mychar[c] \in {EndOfLine, "EOF"}

\* A late client reads its line's selection as the waste of a selection that
\* sends nothing, and has its line's end for the next one.
LateOK(c) ==
  /\ late[c] => at[c] \in MayBeLate
  /\ late[c] /\ at[c] = "getchar_waste" =>
       /\ mychar[c] \notin DOMAIN Command
       /\ input[c] # <<>> => Len(input[c]) = 2
  /\ late[c] /\ at[c] \in {"sigwait", "getchar"} => Len(input[c]) = 1
  /\ late[c] /\ at[c] = "while" => Len(input[c]) = 1 \/ client_state[c] = "SHUTDOWN"

LateInv == \A c \in Client : InStep(c) /\ LateOK(c)

\* The four selections that send something; the end of a line is none.
LEMMA Selections ==
  /\ DOMAIN Command = {"a", "b", "c", "d"}
  /\ EndOfLine \notin DOMAIN Command /\ "EOF" \notin DOMAIN Command
BY DEF Command, EndOfLine

\* A selection that sends nothing leads to the top of the loop, one that sends
\* does so because it is one.
LEMMA SelectedWhere ==
  ASSUME NEW d \in Client, Selected(d)
  PROVE  \E l \in {"while", "fgets", "mq_send"} :
           /\ at' = [at EXCEPT ![d] = l]
           /\ l # "while" <=> mychar[d] \in DOMAIN Command
<1>1. CASE mychar[d] \notin DOMAIN Command
  BY <1>1 DEF Selected, GoTo
<1>2. CASE mychar[d] \in DOMAIN Command /\ mychar[d] = "c"
  BY <1>2 DEF Selected, GoTo
<1>3. CASE mychar[d] \in DOMAIN Command /\ mychar[d] # "c"
  BY <1>3 DEF Selected, GoTo
<1> QED BY <1>1, <1>2, <1>3

\* Each step keeps the invariant: what other clients do,
LEMMA LateSame ==
  ASSUME NEW c \in Client, InStep(c), LateOK(c), at'[c] = at[c], input'[c] = input[c],
         mychar'[c] = mychar[c], odd'[c] = odd[c], late'[c] = late[c],
         client_state'[c] = client_state[c]
  PROVE  InStep(c)' /\ LateOK(c)'
BY DEF InStep, LateOK

\* the functions the invariant is about,
LEMMA LateDomains ==
  ASSUME ClientInv
  PROVE  /\ DOMAIN at = Client /\ DOMAIN client_state = Client /\ DOMAIN input = Client
         /\ DOMAIN mychar = Client /\ DOMAIN odd = Client /\ DOMAIN late = Client
         /\ client_state \in [Client -> {"RUNNING", "SHUTDOWN"}]
         /\ odd \in [Client -> BOOLEAN] /\ late \in [Client -> BOOLEAN]
BY DEF ClientInv, ClientTypeOK

\* the end of a client,
LEMMA LateEnd ==
  ASSUME ClientInv, LateInv, NEW d \in Client, NEW s, End(d, s)
  PROVE  LateInv'
<1>1. ASSUME NEW c \in Client PROVE InStep(c)' /\ LateOK(c)'
  <2>1. CASE c = d
    <3>1. at'[c] = "ended" /\ odd'[c] = FALSE /\ late'[c] = FALSE /\ input'[c] = <<>>
      BY <2>1, LateDomains DEF End
    <3> QED BY <3>1 DEF InStep, LateOK
  <2>2. CASE c # d
    BY <2>2, LateSame, LateDomains DEF End, LateInv
  <2> QED BY <2>1, <2>2
<1> QED BY <1>1 DEF LateInv

\* a step that changes nothing the invariant is about,
LEMMA LateUnchanged ==
  ASSUME LateInv, UNCHANGED <<at, input, mychar, odd, late, client_state>>
  PROVE  LateInv'
BY LateSame DEF LateInv

\* a step of one client,
LEMMA LateStep ==
  ASSUME ClientInv, LateInv, NEW d \in Client, InStep(d)', LateOK(d)',
         \E l : at' = [at EXCEPT ![d] = l],
         \A c \in Client \ {d} :
           /\ input'[c] = input[c] /\ mychar'[c] = mychar[c] /\ odd'[c] = odd[c]
           /\ late'[c] = late[c] /\ client_state'[c] = client_state[c]
  PROVE  LateInv'
<1>1. ASSUME NEW c \in Client \ {d} PROVE at'[c] = at[c]
  BY LateDomains
<1>2. ASSUME NEW c \in Client \ {d} PROVE InStep(c)' /\ LateOK(c)'
  BY <1>1, LateSame DEF LateInv
<1> QED BY <1>2 DEF LateInv

\* a step that reads nothing,
LEMMA LateGoesOn ==
  ASSUME ClientInv, LateInv, NEW d \in Client, NEW l, at' = [at EXCEPT ![d] = l],
         UNCHANGED <<input, odd, late, client_state>>,
         \A c \in Client \ {d} : mychar'[c] = mychar[c],
         l \in Outside => at[d] \in Outside,
         l \in {"sigwait", "while"} =>
           \/ at[d] \in Outside \cup {"sigwait"}
           \/ at[d] \in {"while", "mq_send"} /\ (l = "while" \/ client_state[d] = "RUNNING"),
         l = "getchar" => at[d] = "sigwait",
         l \notin {"getchar_waste", "fgets", "mq_send"}, l \in Place
  PROVE  LateInv'
<1>1. at'[d] = l /\ InStep(d) /\ LateOK(d) /\ odd[d] \in BOOLEAN
  BY LateDomains DEF LateInv
<1>2. at[d] \in Outside => ~Odd(Len(input[d]))
  <2>1. Len(<<>>) = 0
    OBVIOUS
  <2> QED BY <1>1, <2>1, OddAlternates DEF InStep
<1>3. InStep(d)'
  BY <1>1, <1>2 DEF InStep, Outside
<1>4. LateOK(d)'
  BY <1>1 DEF LateOK, InStep, Outside, MayBeLate, Place, Reads
<1> QED BY <1>3, <1>4, LateStep


\* what a client does before, around and after its menu,
LEMMA LateMain ==
  ASSUME ClientInv, LateInv, NEW d \in Client,
         \/ OpenClientQueue(d) \/ OpenServerQueues(d) \/ SetMask(d) \/ Notify(d)
         \/ While(d) \/ Sigwait(d) \/ MqSend(d)
         \/ CloseClientQueue(d) \/ CloseServerQueues(d) \/ Unlink(d)
  PROVE  LateInv'
<1>1. ASSUME NEW s, End(d, s) PROVE LateInv'
  BY <1>1, LateEnd
<1>2. ASSUME NEW l \in {"mq_open_servers", "pthread_sigmask", "mq_notify", "while"},
             at[d] \in Outside,
             at' = [at EXCEPT ![d] = l], UNCHANGED <<client_state, menuVars>>
      PROVE  LateInv'
  BY <1>2, LateGoesOn DEF Place, menuVars, historyVars
<1>3. ASSUME NEW l \in {"mq_close_servers", "mq_unlink"},
             at' = [at EXCEPT ![d] = l], UNCHANGED <<client_state, menuVars>>
      PROVE  LateInv'
  BY <1>3, LateGoesOn DEF Outside, Place, menuVars, historyVars
<1>4. CASE OpenClientQueue(d)
  BY <1>1, <1>2, <1>4 DEF OpenClientQueue, At, GoTo, signalVars, Outside
<1>5. CASE OpenServerQueues(d)
  BY <1>1, <1>2, <1>5 DEF OpenServerQueues, At, GoTo, signalVars, Outside
<1>6. CASE SetMask(d)
  BY <1>2, <1>6 DEF SetMask, At, GoTo, Outside
<1>7. CASE Notify(d)
  BY <1>1, <1>2, <1>7 DEF Notify, At, GoTo, signalVars, Outside
<1>8. CASE While(d)
  <2>1. /\ at[d] = "while" /\ UNCHANGED <<input, odd, late, client_state>>
        /\ mychar' = [mychar EXCEPT ![d] = "none"]
        /\ at' = [at EXCEPT ![d] = IF client_state[d] = "SHUTDOWN" THEN "mq_close_client" ELSE "sigwait"]
    BY <1>8 DEF While, At, GoTo, signalVars, historyVars
  <2>2. \A c \in Client \ {d} : mychar'[c] = mychar[c]
    BY <2>1
  <2>3. client_state[d] \in {"RUNNING", "SHUTDOWN"}
    BY LateDomains
  <2> QED BY <2>1, <2>2, <2>3, LateGoesOn DEF Outside, Place
<1>9. CASE Sigwait(d)
  <2>1. PICK sig \in pending[d] : at' = [at EXCEPT ![d] = IF sig = "SIGUSR1" THEN "getchar" ELSE "while"]
    BY <1>9 DEF Sigwait, GoTo
  <2>2. at[d] = "sigwait" /\ UNCHANGED <<client_state, menuVars>>
    BY <1>9 DEF Sigwait, At
  <2> QED BY <2>1, <2>2, LateGoesOn DEF menuVars, historyVars, Outside, Place, Reads
<1>10. CASE MqSend(d)
  <2>1. at' = [at EXCEPT ![d] = "while"] /\ at[d] = "mq_send" /\ UNCHANGED <<client_state, menuVars>>
    BY <1>10 DEF MqSend, At, GoTo, signalVars
  <2> QED BY <2>1, LateGoesOn DEF menuVars, historyVars, Outside, Place
<1>11. CASE CloseClientQueue(d)
  BY <1>3, <1>11 DEF CloseClientQueue, GoTo, signalVars
<1>12. CASE CloseServerQueues(d)
  BY <1>1, <1>3, <1>12 DEF CloseServerQueues, GoTo, signalVars
<1>13. CASE Unlink(d)
  BY <1>1, <1>13 DEF Unlink
<1> QED BY <1>4, <1>5, <1>6, <1>7, <1>8, <1>9, <1>10, <1>11, <1>12, <1>13

\* a read of the menu (client.c:119-148),
LEMMA LateMenu ==
  ASSUME ClientInv, LateInv, NEW d \in Client, Getchar(d) \/ GetcharWaste(d) \/ Fgets(d)
  PROVE  LateInv'
<1>1. /\ InStep(d) /\ LateOK(d) /\ IsRestOfLine(input[d])
      /\ odd[d] \in BOOLEAN /\ late[d] \in BOOLEAN
  BY LateDomains DEF LateInv, ClientInv, ClientTypeOK
<1>2. input[d] # <<>> /\ UNCHANGED <<client_state, late>>
  BY DEF Getchar, GetcharWaste, Fgets, signalVars, historyVars
<1>3. /\ Len(input[d]) \in Nat \ {0}
      /\ Odd(Len(Tail(input[d]))) <=> ~Odd(Len(input[d]))
      /\ Len(Tail(input[d])) = Len(input[d]) - 1
      /\ Tail(input[d]) = <<>> => Head(input[d]) = EndOfLine
  BY <1>1, <1>2, OneRead, OddAlternates
<1>4. InStep(d)' /\ LateOK(d)'
  <2>1. CASE Getchar(d)
    <3>1. /\ at[d] = "getchar" /\ at'[d] = "getchar_waste" /\ late'[d] = late[d]
          /\ mychar'[d] = Head(input[d]) /\ input'[d] = Tail(input[d]) /\ odd'[d] = odd[d]
      BY <2>1, LateDomains DEF Getchar, At, GoTo, historyVars
    <3>2. InStep(d)'
      BY <1>1, <1>3, <3>1 DEF InStep, Outside
    <3>3. late[d] => Tail(input[d]) = <<>>
      <4>1. late[d] => Len(input[d]) = 1
        BY <1>1, <3>1 DEF LateOK
      <4>2. late[d] => Len(Tail(input[d])) = 0
        BY <1>3, <4>1
      <4> QED BY <1>1, <1>2, <4>2, OneRead, EmptySeq DEF IsRestOfLine
    <3>4. LateOK(d)'
      BY <1>3, <3>1, <3>3, Selections DEF LateOK, MayBeLate
    <3> QED BY <3>2, <3>4
  <2>2. CASE GetcharWaste(d)
    <3>1. /\ at[d] = "getchar_waste" /\ late'[d] = late[d] /\ client_state'[d] = client_state[d]
          /\ mychar'[d] = mychar[d] /\ input'[d] = Tail(input[d]) /\ odd'[d] = odd[d]
      BY <2>2, LateDomains DEF GetcharWaste, At, historyVars, signalVars
    <3>2. PICK l \in {"while", "fgets", "mq_send"} :
            /\ at' = [at EXCEPT ![d] = l]
            /\ l # "while" <=> mychar[d] \in DOMAIN Command
      BY <2>2, SelectedWhere DEF GetcharWaste
    <3>3. at'[d] = l
      BY <3>2, LateDomains
    <3>4. InStep(d)'
      BY <1>1, <1>3, <3>1, <3>2, <3>3 DEF InStep, Outside
    <3>5. late[d] => l = "while" /\ Len(Tail(input[d])) = 1
      <4>1. late[d] => Len(input[d]) = 2 /\ l = "while"
        BY <1>1, <1>2, <3>1, <3>2 DEF LateOK
      <4> QED BY <1>3, <4>1
    <3>6. LateOK(d)'
      BY <3>1, <3>3, <3>5 DEF LateOK, MayBeLate
    <3> QED BY <3>4, <3>6
  <2>3. CASE Fgets(d)
    <3> DEFINE rest == SubSeq(input[d], QueueMsgSize, Len(input[d]))
    <3>1. /\ at[d] = "fgets" /\ at'[d] = "mq_send" /\ late'[d] = late[d]
          /\ input'[d] = rest /\ odd'[d] = Odd(Len(rest))
      BY <2>3, LateDomains DEF Fgets, At, GoTo, Odd
    <3> HIDE DEF rest
    <3>2. InStep(d)'
      BY <3>1 DEF InStep, Outside
    <3>3. LateOK(d)'
      BY <1>1, <3>1 DEF LateOK, MayBeLate
    <3> QED BY <3>2, <3>3
  <2> QED BY <2>1, <2>2, <2>3
<1>5. \E l : at' = [at EXCEPT ![d] = l]
  BY SelectedStays DEF Getchar, GetcharWaste, Fgets, GoTo
<1>6. ASSUME NEW c \in Client \ {d}
      PROVE  /\ input'[c] = input[c] /\ mychar'[c] = mychar[c] /\ odd'[c] = odd[c]
             /\ late'[c] = late[c] /\ client_state'[c] = client_state[c]
  BY LateDomains DEF Getchar, GetcharWaste, Fgets, signalVars, historyVars
<1> QED BY <1>4, <1>5, <1>6, LateStep

\* a line typed,
LEMMA LateTyped ==
  ASSUME ClientInv, LateInv, NEW d \in Client, NEW line \in Lines[d], TypeLine(d, line)
  PROVE  LateInv'
<1>1. /\ at[d] \in Reads /\ input[d] = <<>> /\ input' = [input EXCEPT ![d] = line]
      /\ odd' = [odd EXCEPT ![d] = @ # Odd(Len(line))]
      /\ late' = [late EXCEPT ![d] = odd[d] /\ Len(line) = 2]
      /\ UNCHANGED <<at, client_state, mychar>>
  BY DEF TypeLine, Noted, signalVars, Odd
<1>2. /\ InStep(d) /\ LateOK(d) /\ odd[d] \in BOOLEAN /\ IsRestOfLine(line) /\ line # <<>>
      /\ at'[d] = at[d] /\ mychar'[d] = mychar[d] /\ client_state'[d] = client_state[d]
  BY <1>1, LinesAssumption DEF LateInv, ClientInv, ClientTypeOK
<1>3. /\ input'[d] = line /\ odd'[d] = (odd[d] # Odd(Len(line)))
      /\ late'[d] = (odd[d] /\ Len(line) = 2)
  BY <1>1, LateDomains
<1>4. ~Odd(Len(input[d])) /\ Odd(Len(line)) \in BOOLEAN
  <2>1. Len(<<>>) = 0
    OBVIOUS
  <2> QED BY <1>1, <2>1, OddAlternates DEF Odd
<1>5. InStep(d)' /\ LateOK(d)'
  <2>1. CASE at[d] \in {"getchar", "fgets"}
    <3>1. ~odd[d]
      BY <1>2, <1>4, <2>1 DEF InStep
    <3>2. InStep(d)'
      BY <1>2, <1>3, <1>4, <2>1, <3>1 DEF InStep, Outside
    <3>3. LateOK(d)'
      BY <1>2, <1>3, <2>1, <3>1 DEF LateOK
    <3> QED BY <3>2, <3>3
  <2>2. CASE at[d] = "getchar_waste"
    <3>1. mychar[d] \notin DOMAIN Command
      BY <1>1, <1>2, <2>2, Selections DEF InStep
    <3>2. client_state[d] = "RUNNING" => odd[d]
      BY <1>2, <1>4, <2>2 DEF InStep
    <3>3. InStep(d)'
      BY <1>2, <1>3, <1>4, <2>2, <3>1, <3>2 DEF InStep, Outside
    <3>4. LateOK(d)'
      BY <1>2, <1>3, <2>2, <3>1 DEF LateOK, MayBeLate
    <3> QED BY <3>3, <3>4
  <2> QED BY <1>1, <2>1, <2>2 DEF Reads
<1>6. \E l : at' = [at EXCEPT ![d] = l]
  <2>1. at' = [at EXCEPT ![d] = at[d]]
    BY <1>1 DEF ClientInv, ClientTypeOK
  <2> QED BY <2>1
<1>7. ASSUME NEW c \in Client \ {d}
      PROVE  /\ input'[c] = input[c] /\ mychar'[c] = mychar[c] /\ odd'[c] = odd[c]
             /\ late'[c] = late[c] /\ client_state'[c] = client_state[c]
  BY <1>1, LateDomains
<1> QED BY <1>5, <1>6, <1>7, LateStep

\* and the handler, which stops the loop (client.c:7-13).
LEMMA LateHandler ==
  ASSUME ClientInv, LateInv, NEW d \in Client, handleSigint(d)
  PROVE  LateInv'
<1>1. CASE End(d, "killed")
  BY <1>1, LateEnd
<1>2. CASE ~End(d, "killed")
  <2>1. /\ client_state' = [client_state EXCEPT ![d] = "SHUTDOWN"] /\ Resumed(d)
        /\ UNCHANGED <<input, odd, late>>
    BY <1>2 DEF handleSigint, historyVars
  <2>2. /\ InStep(d) /\ LateOK(d) /\ client_state'[d] = "SHUTDOWN"
        /\ input'[d] = input[d] /\ odd'[d] = odd[d] /\ late'[d] = late[d]
    BY <2>1, LateDomains DEF LateInv
  <2>3. /\ InStep(d)' /\ LateOK(d)'
        /\ \E l : at' = [at EXCEPT ![d] = l]
        /\ \A c \in Client \ {d} : mychar'[c] = mychar[c]
    <3>1. CASE UNCHANGED <<at, mychar>>
      <4>1. at' = [at EXCEPT ![d] = at[d]]
        BY <3>1 DEF ClientInv, ClientTypeOK
      <4> QED BY <2>2, <3>1, <4>1 DEF InStep, LateOK
    <3>2. CASE Waits(d) /\ Interrupted(d) /\ at[d] = "getchar"
      <4>1. at' = [at EXCEPT ![d] = "getchar_waste"] /\ mychar' = [mychar EXCEPT ![d] = "EOF"]
        BY <3>2 DEF Interrupted, GoTo
      <4>2. at'[d] = "getchar_waste" /\ mychar'[d] = "EOF" /\ input[d] = <<>>
        BY <3>2, <4>1, LateDomains DEF Waits
      <4>3. InStep(d)' /\ LateOK(d)'
        BY <2>2, <4>2, Selections DEF InStep, LateOK, Outside, MayBeLate
      <4>4. \A c \in Client \ {d} : mychar'[c] = mychar[c]
        BY <4>1
      <4>5. \E l : at' = [at EXCEPT ![d] = l]
        BY <4>1
      <4> QED BY <4>3, <4>4, <4>5
    <3>3. CASE Waits(d) /\ Interrupted(d) /\ at[d] = "getchar_waste"
      <4>1. input[d] = <<>> /\ mychar' = mychar /\ Selected(d)
        BY <3>3 DEF Waits, Interrupted
      <4>2. mychar[d] \notin DOMAIN Command
        BY <2>2, <3>3, <4>1, Selections DEF InStep
      <4>3. at' = [at EXCEPT ![d] = "while"]
        BY <4>1, <4>2, SelectedWhere
      <4>4. at'[d] = "while"
        BY <4>3, LateDomains
      <4>5. InStep(d)' /\ LateOK(d)'
        BY <2>2, <4>1, <4>4 DEF InStep, LateOK, Outside, MayBeLate
      <4> QED BY <4>1, <4>3, <4>5
    <3>4. CASE Waits(d) /\ Interrupted(d) /\ at[d] \in {"fgets", "mq_send"}
      <4>1. ~late[d]
        BY <2>2, <3>4 DEF LateOK, MayBeLate
      <4>2. PICK l \in {"mq_send", "while"} : at' = [at EXCEPT ![d] = l] /\ mychar' = mychar
        BY <3>4 DEF Interrupted, GoTo
      <4>3. at'[d] = l
        BY <4>2, LateDomains
      <4>4. InStep(d)' /\ LateOK(d)'
        BY <2>2, <4>1, <4>3 DEF InStep, LateOK, Outside
      <4> QED BY <4>2, <4>4
    <3> QED BY <2>1, <3>1, <3>2, <3>3, <3>4 DEF Resumed, Waits, Reads
  <2>4. ASSUME NEW c \in Client \ {d}
        PROVE  /\ input'[c] = input[c] /\ odd'[c] = odd[c]
               /\ late'[c] = late[c] /\ client_state'[c] = client_state[c]
    BY <2>1, LateDomains
  <2> QED BY <2>3, <2>4, LateStep
<1> QED BY <1>1, <1>2

\* The invariant holds initially and is inductive.
LEMMA LateInit == Init => LateInv
<1>1. ASSUME Init, NEW c \in Client PROVE InStep(c) /\ LateOK(c)
  BY <1>1 DEF Init, InStep, LateOK
<1> QED BY <1>1 DEF LateInv

LEMMA LateNext == ClientInv /\ LateInv /\ [Next]_vars => LateInv'
<1> SUFFICES ASSUME ClientInv, LateInv, [Next]_vars PROVE LateInv'
  OBVIOUS
<1>1. ASSUME NEW d \in Client, Start(d) PROVE LateInv'
  <2>1. at[d] = "ended" /\ at' = [at EXCEPT ![d] = "mq_open_client"]
        /\ UNCHANGED <<client_state, menuVars>>
    BY <1>1 DEF Start, GoTo
  <2> QED BY <2>1, LateGoesOn DEF menuVars, historyVars, Outside, Place
<1>2. ASSUME NEW d \in Client, Main(d) PROVE LateInv'
  BY <1>2, LateMain, LateMenu DEF Main
<1>3. ASSUME NEW d \in Client, handleSigint(d) PROVE LateInv'
  BY <1>3, LateHandler
<1>4. ASSUME NEW d \in Client, NEW line \in Lines[d], TypeLine(d, line) PROVE LateInv'
  BY <1>4, LateTyped
<1>5. ASSUME NEW d \in Client, SIGINT(d) \/ SIGUSR1(d) PROVE LateInv'
  BY <1>5, LateEnd, LateUnchanged DEF SIGINT, SIGUSR1, menuVars, historyVars
<1>6. ASSUME NEW q \in Troubled, ServerQueueChanges(q) PROVE LateInv'
  BY <1>6, LateUnchanged DEF ServerQueueChanges, menuVars, historyVars, signalVars
<1>7. CASE UNCHANGED vars
  BY <1>7, LateUnchanged DEF vars, menuVars, historyVars, signalVars
<1> QED BY <1>1, <1>2, <1>3, <1>4, <1>5, <1>6, <1>7 DEF Next

\* Whatever lines were typed before, whatever their lengths, a single selection
\* that a client one character late is given is lost: nothing is sent before the
\* next line is handed over (client.c:123-124, 291).
THEOREM LateSelectionIsLostHolds == Spec => LateSelectionIsLost
<1> DEFINE Kept == \A c \in Client : late[c] => at'[c] \notin {"fgets", "mq_send"}
<1>1. ClientInv /\ LateInv /\ [Next]_vars => [Kept]_vars
  <2> SUFFICES ASSUME ClientInv, LateInv, [Next]_vars, NEW c \in Client, late[c],
                      at'[c] \in {"fgets", "mq_send"}
               PROVE  FALSE
    OBVIOUS
  <2>1. at[c] \in MayBeLate
    BY DEF LateInv, LateOK
  <2>2. ~late'[c]
    BY LateNext DEF LateInv, LateOK, MayBeLate
  <2>3. ASSUME UNCHANGED late PROVE FALSE
    BY <2>2, <2>3
  <2>4. ASSUME NEW d \in Client, NEW s, End(d, s) PROVE FALSE
    <3>1. d = c
      BY <2>2, <2>4, LateDomains DEF End
    <3>2. at'[c] = "ended"
      BY <2>4, <3>1, LateDomains DEF End
    <3> QED BY <3>2
  <2>5. ASSUME NEW d \in Client, Main(d) PROVE FALSE
    BY <2>3, <2>4, <2>5
      DEF Main, OpenClientQueue, OpenServerQueues, SetMask, Notify, While, Sigwait, Getchar,
          GetcharWaste, Fgets, MqSend, CloseClientQueue, CloseServerQueues, Unlink,
          menuVars, historyVars
  <2>6. ASSUME NEW d \in Client, Start(d) \/ handleSigint(d) \/ SIGINT(d) \/ SIGUSR1(d) PROVE FALSE
    BY <2>3, <2>4, <2>6 DEF Start, handleSigint, SIGINT, SIGUSR1, menuVars, historyVars
  <2>7. ASSUME NEW d \in Client, NEW line \in Lines[d], TypeLine(d, line) PROVE FALSE
    <3>1. at' = at
      BY <2>7 DEF TypeLine
    <3> QED BY <2>1, <3>1 DEF MayBeLate
  <2>8. ASSUME NEW q \in Troubled, ServerQueueChanges(q) PROVE FALSE
    BY <2>3, <2>8 DEF ServerQueueChanges, menuVars, historyVars
  <2> QED BY <2>3, <2>5, <2>6, <2>7, <2>8 DEF Next, vars, menuVars, historyVars
<1> QED BY <1>1, ClientInit, ClientNext, LateInit, LateNext, PTL DEF Spec, LateSelectionIsLost
===============================================================================
