---------------------------- MODULE MCStagedSources ----------------------------
(* StagedSources for TLC: two staged requests and one that is not. *)
EXTENDS StagedSources

CONSTANTS r1, r2, legacy

Two == {r1, r2, legacy}
TwoStaged == {r1, r2}
===============================================================================
