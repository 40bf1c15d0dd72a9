-------------------------------- MODULE Mailbox --------------------------------
(***************************************************************************)
(* What a message queue with mq_notify, a registration renewed by hand and *)
(* sigwait is meant to add up to: one mailbox per reader, delivered in     *)
(* order, whose reader sleeps only while the mailbox is empty and is woken *)
(* by the next delivery.                                                   *)
(*                                                                         *)
(* The promise begins with the first mail a reader has taken.  Before that *)
(* the program lets mail arrive unnoticed, because its queues are filled   *)
(* before their readers register; main wakes the readers by hand then.     *)
(***************************************************************************)
EXTENDS Naturals, Sequences

CONSTANTS
  Reader,
  Mail,
  Nothing      \* no mail

VARIABLES
  box,         \* box[r]: the unread mail of r, oldest first
  last,        \* last[r]: what r has taken last, if anything
  asleep       \* the readers that wait to be woken

mailVars == <<box, last, asleep>>

Started(r) == last[r] # Nothing

MailInit ==
  /\ box = [r \in Reader |-> <<>>]
  /\ last = [r \in Reader |-> Nothing]
  /\ asleep = {}

\* Mail for a sleeping reader that has started wakes it.
Deliver(r, m) ==
  /\ box' = [box EXCEPT ![r] = Append(@, m)]
  /\ asleep' \in IF Started(r) THEN {asleep \ {r}} ELSE {asleep, asleep \ {r}}
  /\ UNCHANGED last

Take(r) ==
  /\ r \notin asleep
  /\ box[r] # <<>>
  /\ box' = [box EXCEPT ![r] = Tail(@)]
  /\ last' = [last EXCEPT ![r] = Head(box[r])]
  /\ UNCHANGED asleep

\* A reader that has started goes to sleep on an empty mailbox only.
Sleep(r) ==
  /\ Started(r) => box[r] = <<>>
  /\ asleep' = asleep \cup {r}
  /\ UNCHANGED <<box, last>>

\* A signal that brings no mail.
Wake(r) ==
  /\ asleep' = asleep \ {r}
  /\ UNCHANGED <<box, last>>

\* The end of the readers' process takes what they know, not what they were sent.
Crash ==
  /\ last' = [r \in Reader |-> Nothing]
  /\ asleep' = {}
  /\ UNCHANGED box

\* New readers on the mailboxes the last ones left, or on new ones.
Reopen ==
  /\ last' = [r \in Reader |-> Nothing]
  /\ asleep' = {}
  /\ box' \in {box, [r \in Reader |-> <<>>]}

MailNext ==
  \/ \E r \in Reader :
       \/ \E m \in Mail : Deliver(r, m)
       \/ Take(r) \/ Sleep(r) \/ Wake(r)
  \/ Crash
  \/ Reopen

MailSpec == MailInit /\ [][MailNext]_mailVars
================================================================================
