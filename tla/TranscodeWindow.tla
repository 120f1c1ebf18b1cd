---------------------------- MODULE TranscodeWindow ----------------------------
(***************************************************************************)
(* What a transcode request derives from its raw facts                     *)
(* (src/transcoder/request.rs, media_sizing.rs): the advertised length, the *)
(* byte window of a Range header, where it starts in the source, and       *)
(* whether the answer is partial.                                          *)
(*                                                                         *)
(* A Range header is what the parser's regular expression can make of it:  *)
(*   [form |-> "absent"]                   no header                       *)
(*   [form |-> "garbage"]                  no digits, or too large a number *)
(*   [form |-> "from",   first |-> n]      bytes=n-                        *)
(*   [form |-> "suffix", first |-> n]      bytes=-n                        *)
(*   [form |-> "span",   first |-> n, last |-> m]   bytes=n-m              *)
(***************************************************************************)
EXTENDS Integers

CONSTANTS
    Duration,  \* the episode's length in seconds, as the enclosure url states it
    Bitrate,   \* in kbit per second
    Kilo       \* 1000

ASSUME WindowAssumption == {Duration, Bitrate, Kilo} \subseteq Nat

StreamableBytes(seconds, kbits) == (seconds * kbits * Kilo) \div 8

Total == StreamableBytes(Duration, Bitrate)

First(range) == IF range.form = "absent" THEN 0 ELSE range.first

\* The regular expression finds no end in "bytes=-n" either: a suffix is read as
\* a start.
Last(range) == IF range.form = "span" THEN range.last ELSE Total - 1

Malformed(range) ==
    \/ range.form = "garbage"
    \/ Total = 0
    \/ First(range) = Last(range)

Unsatisfiable(range) ==
    /\ ~Malformed(range)
    /\ First(range) > Last(range) \/ First(range) > Total

\* A start within a tenth of a second counts as the beginning; seek_secs is
\* First / Total * Duration.
Noise(first) == 10 * first * Duration <= Total

\* Mutation: the window's inclusive end counted as exclusive.
Window_Exclusive(range) ==
    [first |-> First(range), last |-> Last(range),
     expected |-> Last(range) - First(range), partial |-> ~Noise(First(range))]

Window(range) ==
    [first |-> First(range), last |-> Last(range),
     expected |-> Last(range) - First(range) + 1, partial |-> ~Noise(First(range))]
===============================================================================
