-------------------------- MODULE MCTranscodeRequests --------------------------
(* TranscodeRequests for TLC: ten bytes, of which one is a tenth of a second. *)
EXTENDS TranscodeRequests

SomeRanges ==
    {[form |-> "garbage"], [form |-> "from", first |-> 4], [form |-> "suffix", first |-> 10],
     [form |-> "span", first |-> 3, last |-> 5], [form |-> "span", first |-> 7, last |-> 2]}
===============================================================================
