----------------------------- MODULE MCStdoutPump -----------------------------
(* StdoutPump for TLC: all its constants are numbers, given in the cfg files. *)
EXTENDS StdoutPump
===============================================================================
