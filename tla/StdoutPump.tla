------------------------------- MODULE StdoutPump -------------------------------
(***************************************************************************)
(* One transcode from the spawn of ffmpeg to the end of the response, as   *)
(* src/src/transcoder/stdout_pump.rs and the stream of transcoder/mod.rs   *)
(* run it: a thread pumps ffmpeg's stdout into a bounded channel, a second *)
(* one turns anything on stderr into an error, and the response stream     *)
(* hands the channel's items to the client.  Bytes are positions in the    *)
(* declared stream: an item carries the span [from, to) it fills.          *)
(***************************************************************************)
EXTENDS Naturals, Sequences

CONSTANTS
  Expected,       \* expected_bytes_count, the declared length
  Buffer,         \* BUFFER_SIZE, the most one read returns
  Capacity,       \* channel_size
  MaxInterrupts   \* MAX_CONSECUTIVE_READ_INTERRUPTS

ASSUME PumpAssumption ==
  /\ Expected \in Nat
  /\ {Buffer, Capacity} \subseteq Nat \ {0}
  /\ MaxInterrupts \in Nat

VARIABLES
  ffmpeg,    \* the child: running, closing (stdout closed), exited, reaped
  said,      \* did ffmpeg write anything on stderr?
  pump,      \* what the stdout thread does next
  sent,      \* PumpState.sent_bytes_count
  streak,    \* PumpState.interrupt_streak
  hand,      \* the item the stdout thread is about to send
  watcher,   \* what the stderr thread does next
  channel,   \* the items sent and not yet received
  door,      \* the receiving end: open, closed (rx.close) or dropped
  stream,    \* the response stream: awaiting an item, resting between two polls,
             \* ended, or dropped with the response
  got,       \* the bytes the client was given
  real,      \* how many of them ffmpeg produced
  broken     \* was the client given an error?

childVars == <<ffmpeg, said>>
pumpVars == <<pump, sent, streak, hand>>
clientVars == <<stream, got, real, broken>>
vars == <<childVars, pumpVars, watcher, channel, door, clientVars>>

-------------------------------------------------------------------------------
(* Items *)

Positions == 0..Expected
Item == [kind : {"audio", "padding", "error"}, from : Positions, to : Positions]

Audio(from, to) == [kind |-> "audio", from |-> from, to |-> to]
Padding(from) ==
  [kind |-> "padding", from |-> from,
   to |-> IF from + Buffer < Expected THEN from + Buffer ELSE Expected]
Failure == [kind |-> "error", from |-> 0, to |-> 0]

TypeOK ==
  /\ ffmpeg \in {"running", "closing", "exited", "reaped"}
  /\ said \in BOOLEAN
  /\ pump \in {"reading", "sending", "truncating", "padding", "failing", "waiting",
               "stopping", "done"}
  /\ sent \in Positions
  /\ streak \in 0..MaxInterrupts
  /\ hand \in Item
  /\ watcher \in {"reading", "surfacing", "done"}
  /\ channel \in Seq(Item) /\ Len(channel) <= Capacity
  /\ door \in {"open", "closed", "dropped"}
  /\ stream \in {"awaiting", "resting", "ended", "dropped"}
  /\ got \in Positions
  /\ real \in 0..got
  /\ broken \in BOOLEAN

-------------------------------------------------------------------------------
(* blocking_send: it waits while the channel is full and fails once the        *)
(* receiver is closed or gone.                                                 *)

Accepted(item) ==
  /\ door = "open"
  /\ Len(channel) < Capacity
  /\ channel' = Append(channel, item)

Rejected == door # "open" /\ UNCHANGED channel

-------------------------------------------------------------------------------
(* The stdout thread (pump_ffmpeg_stdout, next_pump_decision) *)

\* Mutation: every clean EOF counts as a finished stream.
TooShort_Never(missing) == FALSE

\* A clean EOF that misses more than MAX_OK_SHORTFALL_RATIO of what was declared.
TooShort(missing) == 10 * missing > Expected

Overruns(n) == sent + n > Expected

\* Continue and Truncate: a read returned n bytes.
ReadSome(n) ==
  /\ pump = "reading"
  /\ ffmpeg # "reaped"
  /\ streak' = 0
  /\ IF Overruns(n)
       THEN pump' = "truncating" /\ hand' = Audio(sent, Expected) /\ UNCHANGED sent
       ELSE pump' = "sending" /\ hand' = Audio(sent, sent + n) /\ sent' = sent + n
  /\ UNCHANGED <<childVars, watcher, channel, door, clientVars>>

\* Pad or Fail: stdout reached its end.
ReadEOF ==
  /\ pump = "reading"
  /\ ffmpeg \in {"closing", "exited"}
  /\ streak' = 0
  /\ IF TooShort(Expected - sent)
       THEN pump' = "failing" /\ UNCHANGED hand
       ELSE /\ hand' = Padding(sent)
            /\ pump' = IF sent < Expected THEN "padding" ELSE "waiting"
  /\ UNCHANGED <<childVars, sent, watcher, channel, door, clientVars>>

\* Retry or Fail: the read was interrupted; only consecutive interruptions count.
ReadInterrupted ==
  /\ pump = "reading"
  /\ IF streak >= MaxInterrupts
       THEN pump' = "failing" /\ UNCHANGED streak
       ELSE streak' = streak + 1 /\ UNCHANGED pump
  /\ UNCHANGED <<childVars, sent, hand, watcher, channel, door, clientVars>>

ReadError ==
  /\ pump = "reading"
  /\ pump' = "failing"
  /\ UNCHANGED <<childVars, sent, streak, hand, watcher, channel, door, clientVars>>

\* Mutation: a chunk that finds the channel full is dropped.
SendChunk_Lossy ==
  /\ pump = "sending"
  /\ \/ Accepted(hand) /\ pump' = "reading"
     \/ Len(channel) = Capacity /\ pump' = "reading" /\ UNCHANGED channel
     \/ Rejected /\ pump' = "stopping"
  /\ UNCHANGED <<childVars, sent, streak, hand, watcher, door, clientVars>>

\* A chunk is forwarded; a rejection means the client is gone (Kill).
SendChunk ==
  /\ pump = "sending"
  /\ \/ Accepted(hand) /\ pump' = "reading"
     \/ Rejected /\ pump' = "stopping"
  /\ UNCHANGED <<childVars, sent, streak, hand, watcher, door, clientVars>>

\* The last chunk of an over-delivering ffmpeg.
SendLast ==
  /\ pump = "truncating"
  /\ Accepted(hand) \/ Rejected
  /\ pump' = "stopping"
  /\ UNCHANGED <<childVars, sent, streak, hand, watcher, door, clientVars>>

\* One buffer of NUL bytes; rejections are ignored, the loop runs to its end.
SendPadding ==
  /\ pump = "padding"
  /\ Accepted(hand) \/ Rejected
  /\ IF hand.to < Expected
       THEN hand' = Padding(hand.to) /\ UNCHANGED pump
       ELSE pump' = "waiting" /\ UNCHANGED hand
  /\ UNCHANGED <<childVars, sent, streak, watcher, door, clientVars>>

\* Mutation: the thread stops without telling the client why.
SendFailure_Silent ==
  /\ pump = "failing"
  /\ pump' = "stopping"
  /\ UNCHANGED <<childVars, sent, streak, hand, watcher, channel, door, clientVars>>

\* fail_transfer: the terminating error.
SendFailure ==
  /\ pump = "failing"
  /\ Accepted(Failure) \/ Rejected
  /\ pump' = "stopping"
  /\ UNCHANGED <<childVars, sent, streak, hand, watcher, door, clientVars>>

\* Mutation: the child is waited for, not killed.
Stop_WaitOnly ==
  /\ pump = "stopping"
  /\ ffmpeg = "exited"
  /\ pump' = "done"
  /\ ffmpeg' = "reaped"
  /\ UNCHANGED <<said, sent, streak, hand, watcher, channel, door, clientVars>>

\* stop_child: kill and reap.
Stop ==
  /\ pump = "stopping"
  /\ pump' = "done"
  /\ ffmpeg' = "reaped"
  /\ UNCHANGED <<said, sent, streak, hand, watcher, channel, door, clientVars>>

\* After a clean EOF the child is waited for, not killed.
Wait ==
  /\ pump = "waiting"
  /\ ffmpeg = "exited"
  /\ pump' = "done"
  /\ ffmpeg' = "reaped"
  /\ UNCHANGED <<said, sent, streak, hand, watcher, channel, door, clientVars>>

PumpStep ==
  \/ \E n \in 1..Buffer : ReadSome(n)
  \/ ReadEOF \/ ReadInterrupted \/ ReadError
  \/ SendChunk \/ SendLast \/ SendPadding \/ SendFailure \/ Stop \/ Wait

-------------------------------------------------------------------------------
(* The stderr thread (run_stderr_thread, stderr_read_decision) *)

\* read_to_string returns at the end of stderr: with what ffmpeg wrote, or empty.
StderrClosed ==
  /\ watcher = "reading"
  /\ ffmpeg \in {"exited", "reaped"}
  /\ watcher' = IF said THEN "surfacing" ELSE "done"
  /\ UNCHANGED <<childVars, pumpVars, channel, door, clientVars>>

\* Reading stderr failed.
StderrBroken ==
  /\ watcher = "reading"
  /\ watcher' = "surfacing"
  /\ UNCHANGED <<childVars, pumpVars, channel, door, clientVars>>

\* The error goes to the client; the read after it finds stderr closed.
SendComplaint ==
  /\ watcher = "surfacing"
  /\ Accepted(Failure) \/ Rejected
  /\ watcher' = "done"
  /\ UNCHANGED <<childVars, pumpVars, door, clientVars>>

WatcherStep == StderrClosed \/ StderrBroken \/ SendComplaint

-------------------------------------------------------------------------------
(* The response stream (get_transcode_stream) and its client *)

\* Mutation: the stream ends with the stdout thread, the stderr thread or not.
SendersGone_StdoutOnly == pump = "done"

\* Both threads dropped their sender.
SendersGone == pump = "done" /\ watcher = "done"

\* rx.recv() returns an item, which is yielded; an error closes the receiver.
Receive ==
  /\ stream = "awaiting"
  /\ channel # <<>>
  /\ channel' = Tail(channel)
  /\ stream' = "resting"
  /\ LET item == Head(channel)
     IN IF item.kind = "error"
          THEN broken' = TRUE /\ door' = "closed" /\ UNCHANGED <<got, real>>
          ELSE /\ got' = got + (item.to - item.from)
               /\ real' = IF item.kind = "audio" THEN got' ELSE real
               /\ UNCHANGED <<broken, door>>
  /\ UNCHANGED <<childVars, pumpVars, watcher>>

\* rx.recv() returns None.
EndStream ==
  /\ stream = "awaiting"
  /\ channel = <<>>
  /\ SendersGone
  /\ stream' = "ended"
  /\ door' = "dropped"
  /\ UNCHANGED <<childVars, pumpVars, watcher, channel, got, real, broken>>

StreamStep == Receive \/ EndStream

\* The server asks for the next item once the client took the last one; a stream
\* that failed is not polled again.
Poll ==
  /\ stream = "resting"
  /\ ~broken
  /\ stream' = "awaiting"
  /\ UNCHANGED <<childVars, pumpVars, watcher, channel, door, got, real, broken>>

\* The response is dropped: the client is gone, or it saw the error.
DropStream ==
  /\ stream \in {"awaiting", "resting"}
  /\ stream' = "dropped"
  /\ door' = "dropped"
  /\ channel' = <<>>
  /\ UNCHANGED <<childVars, pumpVars, watcher, got, real, broken>>

-------------------------------------------------------------------------------
(* ffmpeg *)

Complain ==
  /\ ffmpeg \in {"running", "closing"}
  /\ ~said
  /\ said' = TRUE
  /\ UNCHANGED <<ffmpeg, pumpVars, watcher, channel, door, clientVars>>

CloseStdout ==
  /\ ffmpeg = "running"
  /\ ffmpeg' = "closing"
  /\ UNCHANGED <<said, pumpVars, watcher, channel, door, clientVars>>

Exit ==
  /\ ffmpeg \in {"running", "closing"}
  /\ ffmpeg' = "exited"
  /\ UNCHANGED <<said, pumpVars, watcher, channel, door, clientVars>>

-------------------------------------------------------------------------------
(* Specification *)

Init ==
  /\ ffmpeg = "running" /\ said = FALSE
  /\ pump = "reading" /\ sent = 0 /\ streak = 0 /\ hand = Failure
  /\ watcher = "reading"
  /\ channel = <<>> /\ door = "open"
  /\ stream = "awaiting" /\ got = 0 /\ real = 0 /\ broken = FALSE

\* Nothing is left to do.
Over == stream \in {"ended", "dropped"} /\ SendersGone /\ UNCHANGED vars

Next ==
  \/ PumpStep \/ WatcherStep \/ StreamStep \/ Poll \/ DropStream
  \/ Complain \/ CloseStdout \/ Exit \/ Over

Spec == Init /\ [][Next]_vars

\* Both threads and the stream run, reads return, an ffmpeg that closed its stdout
\* exits, and a response that failed is dropped.
Fairness ==
  /\ WF_vars(PumpStep) /\ WF_vars(StderrClosed \/ SendComplaint) /\ WF_vars(StreamStep)
  /\ WF_vars(ffmpeg = "closing" /\ Exit)
  /\ WF_vars(broken /\ DropStream)

FairSpec == Spec /\ Fairness

\* A client that takes what it is given.
PatientClient == WF_vars(Poll)

-------------------------------------------------------------------------------
(* Properties *)

\* A stream that ends without an error gave its client exactly the declared length,
\* at most a tenth of it padding (Pad, Fail, Truncate).
EndsCompleteOrBroken ==
  stream = "ended" => got = Expected /\ 10 * (Expected - real) <= Expected

\* "ANY line ffmpeg writes to stderr fails the stream": however the two threads
\* race, a stream that ended well had an ffmpeg that never complained.
StderrFailsStream == stream = "ended" => ~said

\* Items reach the client gapless and in order, across over-delivery, padding and
\* the second thread's errors.
Gapless ==
  [][got' # got => Head(channel).from = got /\ Head(channel).to = got']_vars

\* Whatever ends the transfer, ffmpeg is stopped and reaped, as long as its reads
\* return (stop_child, ChildGuard).
AlwaysReaped == stream \in {"ended", "dropped"} ~> ffmpeg = "reaped"

\* A client that keeps reading sees the stream end or break.
TransferEnds == PatientClient => <>(stream \in {"ended", "dropped"})

\* The response implements the declared transfer.
Promise == INSTANCE DeclaredTransfer
  WITH Declared <- Expected,
       given <- got,
       status <- CASE stream = "ended" -> "complete"
                   [] stream = "dropped" -> "abandoned"
                   [] OTHER -> IF broken THEN "broken" ELSE "open"

RefinesDeclaredTransfer == Promise!Spec

-------------------------------------------------------------------------------
(* The inductive invariants *)

NoErrorBefore(i) == \A j \in 1..(i - 1) : channel[j].kind # "error"
NoErrorQueued == \A j \in 1..Len(channel) : channel[j].kind # "error"

\* As long as the receiver is open, the items up to the first error continue what
\* the client has without a gap.
ChainInv ==
  door = "open" =>
    \A i \in 1..Len(channel) :
      NoErrorBefore(i) /\ channel[i].kind # "error"
        => /\ channel[i].from = IF i = 1 THEN got ELSE channel[i - 1].to
           /\ channel[i].from <= channel[i].to

\* Where the next item put into the channel has to begin.
Front == IF channel = <<>> THEN got ELSE channel[Len(channel)].to

\* The stdout thread continues where the channel ends, and is through only at the
\* declared length; a queued error or a closed receiver ends that obligation.
FrontInv ==
  door = "open" /\ NoErrorQueued =>
    /\ pump = "reading" => Front = sent
    /\ pump \in {"sending", "truncating", "padding"} => Front = hand.from
    /\ pump \in {"waiting", "stopping", "done"} => Front = Expected

HandInv ==
  /\ pump = "sending" => hand.kind = "audio" /\ hand.from <= hand.to /\ hand.to = sent
  /\ pump = "truncating" => hand.kind = "audio" /\ hand.to = Expected
  /\ pump = "padding" =>
       hand.kind = "padding" /\ sent <= hand.from /\ hand = Padding(hand.from)

\* Padding exists only after a clean EOF near enough to the declared length.
PaddedInv ==
  /\ pump = "padding" => ~TooShort(Expected - sent)
  /\ \A i \in 1..Len(channel) : channel[i].kind = "padding" =>
       /\ pump \in {"padding", "waiting", "done"}
       /\ ~TooShort(Expected - sent)
       /\ sent <= channel[i].from
  /\ real # got =>
       /\ pump \in {"padding", "waiting", "done"}
       /\ ~TooShort(Expected - sent)
       /\ sent <= real

\* The stderr thread is through only with an error surfaced or nothing to surface.
WatcherInv ==
  /\ watcher = "done" /\ door = "open" /\ NoErrorQueued
       => ffmpeg \in {"exited", "reaped"} /\ ~said
  /\ broken => door # "open"
  /\ door = "closed" <=> broken /\ stream = "resting"
  /\ door = "dropped" <=> stream \in {"ended", "dropped"}

\* The thread is through only once ffmpeg is reaped, the stream ends after both.
EndInv ==
  /\ pump = "done" => ffmpeg = "reaped"
  /\ stream = "ended" => SendersGone

PumpInv ==
  /\ ChainInv /\ FrontInv /\ HandInv /\ PaddedInv /\ WatcherInv /\ EndInv
  /\ EndsCompleteOrBroken /\ StderrFailsStream
===============================================================================
