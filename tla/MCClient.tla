------------------------------- MODULE MCClient -------------------------------
(***************************************************************************)
(* Two terminals: the user at the first one enters the log command, with   *)
(* and without a character in front of it, and empty lines; nobody types   *)
(* at the second.  The buffer for a log line holds two characters.         *)
(***************************************************************************)
EXTENDS Client

MCLines ==
  [ one |-> {<<"c", EndOfLine>>, <<EndOfLine>>, <<"a", "c", EndOfLine>>},
    two |-> {} ]
===============================================================================
