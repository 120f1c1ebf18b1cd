----------------------------- MODULE MCSourceStage -----------------------------
(* SourceStage for TLC: all its constants are numbers, given in the cfg file. *)
EXTENDS SourceStage
===============================================================================
