---------------------------- MODULE DeclaredTransfer ----------------------------
(***************************************************************************)
(* What a transcode response promises its client: the declared number of   *)
(* bytes in order and nothing more, or a transfer that visibly breaks.  A  *)
(* transfer that ends short without breaking is not among its behaviours.  *)
(***************************************************************************)
EXTENDS Naturals

CONSTANT Declared   \* the length the response declares

VARIABLES
  given,   \* how many bytes the client has been given
  status   \* "open", "complete", "broken" or "abandoned"

transferVars == <<given, status>>

Init == given = 0 /\ status = "open"

\* The next bytes of the stream reach the client.
Give ==
  /\ status = "open"
  /\ given' \in (given + 1)..Declared
  /\ UNCHANGED status

\* The stream ends as it should: with all that was declared.
Complete ==
  /\ status = "open"
  /\ given = Declared
  /\ status' = "complete"
  /\ UNCHANGED given

\* The client sees an error, or goes away.
Break == status = "open" /\ status' = "broken" /\ UNCHANGED given
Abandon == status \in {"open", "broken"} /\ status' = "abandoned" /\ UNCHANGED given

Next == Give \/ Complete \/ Break \/ Abandon

Spec == Init /\ [][Next]_transferVars
===============================================================================
