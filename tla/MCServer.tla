------------------------------- MODULE MCServer -------------------------------
(***************************************************************************)
(* The server as TLC runs it.  The constants of every instance are values, *)
(* given in its .cfg; task names are the strings of Protocol and are told  *)
(* apart by the code, so there is no symmetry to exploit.                  *)
(***************************************************************************)
EXTENDS ServerProperties
===============================================================================
