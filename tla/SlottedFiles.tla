------------------------------ MODULE SlottedFiles ------------------------------
(***************************************************************************)
(* What the Staging Gate promises: a staged file exists only while its     *)
(* owner holds one of a fixed number of slots.                             *)
(***************************************************************************)
EXTENDS Naturals, FiniteSets

CONSTANTS
  Owners,   \* whoever stages a file
  Places    \* how many slots there are

VARIABLES
  busy,    \* the owners holding a slot
  files    \* the owners whose file is on disk

slottedVars == <<busy, files>>

Init == busy = {} /\ files = {}

Take(o) ==
  /\ o \notin busy
  /\ Cardinality(busy) < Places
  /\ busy' = busy \cup {o}
  /\ UNCHANGED files

\* A file is made under a slot, and gone before the slot returns.
Make(o) == o \in busy /\ files' = files \cup {o} /\ UNCHANGED busy
Remove(o) == o \in files /\ files' = files \ {o} /\ UNCHANGED busy
Return(o) == o \in busy \ files /\ busy' = busy \ {o} /\ UNCHANGED files

\* A crash: nobody owns anything.
Reset == busy' = {} /\ files' = {}

Next == Reset \/ \E o \in Owners : Take(o) \/ Make(o) \/ Remove(o) \/ Return(o)

Spec == Init /\ [][Next]_slottedVars
===============================================================================
