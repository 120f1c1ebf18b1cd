---------------------------- MODULE CoalescedFeeds ----------------------------
(***************************************************************************)
(* What feed serving promises of a cached Feed, with no clock, no lock and *)
(* no upstream in sight: a Feed is missing, or has a servable copy that is *)
(* full or degraded; at most one worker regenerates it at a time; and the  *)
(* end of a regeneration may bring a full copy at any time but a degraded  *)
(* one only where nothing servable was left.                               *)
(***************************************************************************)
CONSTANTS Feeds, Workers

VARIABLES
  held,    \* held[k]: "missing", "degraded" or "full"
  passes   \* passes[k]: the workers that regenerate k

States == {"missing", "degraded", "full"}

Init ==
  /\ held = [k \in Feeds |-> "missing"]
  /\ passes = [k \in Feeds |-> {}]

Begin(w, k) ==
  /\ passes[k] = {}
  /\ passes' = [passes EXCEPT ![k] = {w}]
  /\ UNCHANGED held

\* What a regeneration of k may leave behind.
MayLeave(k) ==
  {held[k], "full"} \cup (IF held[k] = "missing" THEN {"degraded"} ELSE {})

Finish(w, k) ==
  /\ passes[k] = {w}
  /\ passes' = [passes EXCEPT ![k] = {}]
  /\ \E s \in MayLeave(k) : held' = [held EXCEPT ![k] = s]

\* Time passes: some copies leave their Stale Window.
Lapse ==
  /\ UNCHANGED passes
  /\ \E gone \in SUBSET Feeds :
       held' = [k \in Feeds |-> IF k \in gone THEN "missing" ELSE held[k]]

Next ==
  \/ Lapse
  \/ \E w \in Workers, k \in Feeds : Begin(w, k) \/ Finish(w, k)

Spec == Init /\ [][Next]_<<held, passes>>
===============================================================================
