---------------------------- MODULE StdoutPumpProofs ----------------------------
(***************************************************************************)
(* Proofs about StdoutPump, for any declared length, buffer, channel size  *)
(* and bound on interruptions.                                             *)
(***************************************************************************)
EXTENDS StdoutPump, SequenceTheorems, TLAPS

-------------------------------------------------------------------------------
(* Items and the channel *)

LEMMA ItemTypes ==
  /\ Failure \in Item
  /\ \A f, t \in Positions : Audio(f, t) \in Item
  /\ \A f \in Positions :
       /\ Padding(f) \in Item
       /\ Padding(f).from = f /\ f <= Padding(f).to /\ Padding(f).kind = "padding"
  BY PumpAssumption DEF Failure, Audio, Padding, Item, Positions

LEMMA ItemFields ==
  ASSUME NEW item \in Item
  PROVE  item.from \in Positions /\ item.to \in Positions
  BY DEF Item

LEMMA AppendFacts ==
  ASSUME NEW s \in Seq(Item), NEW x \in Item
  PROVE  /\ Append(s, x) \in Seq(Item)
         /\ Append(s, x) # <<>>
         /\ Len(Append(s, x)) = Len(s) + 1
         /\ \A i \in 1..Len(s) : Append(s, x)[i] = s[i]
         /\ Append(s, x)[Len(s) + 1] = x
  OBVIOUS

LEMMA TailFacts ==
  ASSUME NEW s \in Seq(Item), s # <<>>
  PROVE  /\ Tail(s) \in Seq(Item)
         /\ Len(Tail(s)) = Len(s) - 1
         /\ Len(s) \in Nat \ {0}
         /\ \A i \in 1..(Len(s) - 1) : Tail(s)[i] = s[i + 1]
         /\ Head(s) = s[1] /\ Head(s) \in Item
         /\ (Tail(s) = <<>> <=> Len(s) = 1)
<1>1. Tail(s) \in Seq(Item) /\ Len(Tail(s)) = Len(s) - 1 /\ Head(s) \in Item
  BY HeadTailProperties
<1>2. \A i \in 1..(Len(s) - 1) : Tail(s)[i] = s[i + 1]
  BY <1>1, HeadTailProperties
<1>3. Len(s) \in Nat \ {0}
  BY EmptySeq
<1>4. Tail(s) = <<>> <=> Len(s) = 1
  <2>1. Tail(s) # <<>> => Len(Tail(s)) \in Nat \ {0}
    BY <1>1, EmptySeq
  <2>2. Tail(s) = <<>> => Len(Tail(s)) = 0
    BY EmptySeq
  <2>3. QED
    BY <1>1, <1>3, <2>1, <2>2
<1>5. Head(s) = s[1]
  OBVIOUS
<1>6. QED
  BY <1>1, <1>2, <1>3, <1>4, <1>5

\* Appending an item that continues the chain keeps the chain.
LEMMA AcceptedKeepsChain ==
  ASSUME TypeOK, ChainInv, NEW item \in Item, Accepted(item), UNCHANGED <<got, door>>,
         item.kind # "error" /\ NoErrorQueued
           => Front = item.from /\ item.from <= item.to
  PROVE  ChainInv'
<1>1. channel \in Seq(Item) /\ channel' = Append(channel, item) /\ door = "open"
  BY DEF TypeOK, Accepted
<1>2. SUFFICES ASSUME NEW i \in 1..Len(channel'), NoErrorBefore(i)',
                      channel'[i].kind # "error"
               PROVE  /\ channel'[i].from = IF i = 1 THEN got ELSE channel'[i - 1].to
                      /\ channel'[i].from <= channel'[i].to
  BY DEF ChainInv
<1>3. CASE i \in 1..Len(channel)
  <2>1. channel'[i] = channel[i] /\ (i # 1 => channel'[i - 1] = channel[i - 1])
    BY <1>1, <1>3, AppendFacts
  <2>2. NoErrorBefore(i)
    BY <1>1, <1>2, <1>3, AppendFacts DEF NoErrorBefore
  <2>3. QED
    BY <1>1, <1>2, <1>3, <2>1, <2>2 DEF ChainInv
<1>4. CASE i = Len(channel) + 1
  <2>1. NoErrorQueued
    BY <1>1, <1>2, <1>4, AppendFacts DEF NoErrorBefore, NoErrorQueued
  <2>2. channel'[i] = item
    BY <1>1, <1>4, AppendFacts
  <2>3. Front = item.from /\ item.from <= item.to
    BY <1>2, <2>1, <2>2
  <2>4. Front = IF i = 1 THEN got ELSE channel'[i - 1].to
    <3>1. CASE channel = <<>>
      BY <1>1, <1>4, <3>1 DEF Front
    <3>2. CASE channel # <<>>
      <4>1. Len(channel) \in Nat \ {0}
        BY <1>1, <3>2, TailFacts
      <4>2. channel'[Len(channel)] = channel[Len(channel)]
        BY <1>1, <4>1, AppendFacts
      <4>3. QED
        BY <1>4, <3>2, <4>1, <4>2 DEF Front
    <3>3. QED
      BY <3>1, <3>2
  <2>5. QED
    BY <2>2, <2>3, <2>4
<1>5. QED
  BY <1>1, <1>2, <1>3, <1>4, AppendFacts

\* What the channel's end is after an item was put in.
LEMMA AcceptedMovesFront ==
  ASSUME TypeOK, NEW item \in Item, Accepted(item)
  PROVE  /\ Front' = item.to
         /\ NoErrorQueued' <=> NoErrorQueued /\ item.kind # "error"
<1>1. channel \in Seq(Item) /\ channel' = Append(channel, item)
  BY DEF TypeOK, Accepted
<1>2. Front' = item.to
  BY <1>1, AppendFacts DEF Front
<1>3. NoErrorQueued' <=> NoErrorQueued /\ item.kind # "error"
  BY <1>1, AppendFacts DEF NoErrorQueued
<1>4. QED
  BY <1>2, <1>3

\* Receiving an item other than an error keeps the chain, and its end.
LEMMA ReceiveKeepsChain ==
  ASSUME TypeOK, ChainInv, FrontInv, door = "open", Receive, Head(channel).kind # "error"
  PROVE  /\ Head(channel).from = got /\ got <= got' /\ got' = Head(channel).to
         /\ ChainInv'
         /\ Front' = Front
         /\ NoErrorQueued' => NoErrorQueued
<1> DEFINE item == Head(channel)
<1>1. /\ channel \in Seq(Item) /\ channel # <<>> /\ channel' = Tail(channel)
      /\ got' = got + (item.to - item.from) /\ UNCHANGED door
      /\ got \in Positions
  BY DEF Receive, TypeOK
<1>2. /\ item \in Item /\ item = channel[1] /\ Len(channel) \in Nat \ {0}
      /\ Len(channel') = Len(channel) - 1
      /\ \A i \in 1..Len(channel') : channel'[i] = channel[i + 1]
      /\ (channel' = <<>> <=> Len(channel) = 1)
      /\ channel[1].kind # "error"
  BY <1>1, TailFacts
<1>3. item.from = got /\ item.from <= item.to
  BY <1>1, <1>2 DEF ChainInv, NoErrorBefore
<1>4. got <= got' /\ got' = item.to
  BY <1>1, <1>2, <1>3, ItemFields, PumpAssumption DEF Positions
<1>5. ChainInv'
  <2>1. SUFFICES ASSUME NEW i \in 1..Len(channel'), NoErrorBefore(i)',
                        channel'[i].kind # "error"
                 PROVE  /\ channel'[i].from = IF i = 1 THEN got' ELSE channel'[i - 1].to
                        /\ channel'[i].from <= channel'[i].to
    BY DEF ChainInv
  <2>2. channel'[i] = channel[i + 1] /\ i + 1 \in 1..Len(channel)
    BY <1>2
  <2>3. NoErrorBefore(i + 1)
    <3>1. SUFFICES ASSUME NEW j \in 1..i PROVE channel[j].kind # "error"
      BY DEF NoErrorBefore
    <3>2. CASE j = 1
      BY <1>2, <3>2
    <3>3. CASE j # 1
      <4>1. channel[j] = channel'[j - 1] /\ j - 1 \in 1..(i - 1)
        BY <1>2, <3>3
      <4>2. QED
        BY <2>1, <4>1 DEF NoErrorBefore
    <3>4. QED
      BY <3>2, <3>3
  <2>4. channel[i + 1].from = channel[i].to /\ channel[i + 1].from <= channel[i + 1].to
    BY <2>1, <2>2, <2>3 DEF ChainInv
  <2>5. channel[i].to = IF i = 1 THEN got' ELSE channel'[i - 1].to
    BY <1>2, <1>4, <2>1
  <2>6. QED
    BY <2>2, <2>4, <2>5
<1>6. Front' = Front
  <2>1. CASE Len(channel) = 1
    BY <1>1, <1>2, <1>4, <2>1 DEF Front
  <2>2. CASE Len(channel) # 1
    BY <1>1, <1>2, <2>2 DEF Front
  <2>3. QED
    BY <2>1, <2>2
<1>7. NoErrorQueued' => NoErrorQueued
  <2>1. SUFFICES ASSUME NoErrorQueued', NEW i \in 1..Len(channel)
                 PROVE  channel[i].kind # "error"
    BY DEF NoErrorQueued
  <2>2. CASE i = 1
    BY <1>2, <2>2
  <2>3. CASE i # 1
    <3>1. channel[i] = channel'[i - 1] /\ i - 1 \in 1..Len(channel')
      BY <1>2, <2>3
    <3>2. QED
      BY <2>1, <3>1 DEF NoErrorQueued
  <2>4. QED
    BY <2>2, <2>3
<1>8. QED
  BY <1>3, <1>4, <1>5, <1>6, <1>7

-------------------------------------------------------------------------------
(* Type correctness *)

LEMMA SendTypes ==
  ASSUME TypeOK, NEW item \in Item, Accepted(item) \/ Rejected
  PROVE  channel' \in Seq(Item) /\ Len(channel') <= Capacity
<1>1. CASE Accepted(item)
  BY <1>1, AppendFacts, PumpAssumption, LenProperties DEF TypeOK, Accepted
<1>2. CASE Rejected
  BY <1>2 DEF TypeOK, Rejected
<1>3. QED
  BY <1>1, <1>2

LEMMA PumpStepTypes ==
  ASSUME TypeOK, HandInv, PumpStep
  PROVE  TypeOK'
<1>1. ASSUME NEW n \in 1..Buffer, ReadSome(n) PROVE TypeOK'
  <2>1. sent + n \in Nat /\ (~Overruns(n) => sent + n \in Positions)
    BY PumpAssumption DEF TypeOK, Overruns, Positions
  <2>2. hand' \in Item /\ sent' \in Positions
    <3>1. CASE Overruns(n)
      BY <1>1, <3>1, ItemTypes, PumpAssumption DEF ReadSome, TypeOK, Positions
    <3>2. CASE ~Overruns(n)
      BY <1>1, <2>1, <3>2, ItemTypes DEF ReadSome, TypeOK
    <3>3. QED
      BY <3>1, <3>2
  <2>3. QED
    BY <1>1, <2>2, PumpAssumption DEF ReadSome, TypeOK, childVars, clientVars
<1>2. CASE ReadEOF
  BY <1>2, ItemTypes, PumpAssumption DEF ReadEOF, TypeOK, childVars, clientVars
<1>3. CASE ReadInterrupted
  BY <1>3, PumpAssumption DEF ReadInterrupted, TypeOK, childVars, clientVars
<1>4. CASE ReadError
  BY <1>4 DEF ReadError, TypeOK, childVars, clientVars
<1>5. CASE SendChunk
  <2>1. channel' \in Seq(Item) /\ Len(channel') <= Capacity
    BY <1>5, SendTypes DEF SendChunk, TypeOK
  <2>2. QED
    BY <1>5, <2>1 DEF SendChunk, TypeOK, childVars, clientVars
<1>6. CASE SendLast
  <2>1. channel' \in Seq(Item) /\ Len(channel') <= Capacity
    BY <1>6, SendTypes DEF SendLast, TypeOK
  <2>2. QED
    BY <1>6, <2>1 DEF SendLast, TypeOK, childVars, clientVars
<1>7. CASE SendPadding
  <2>1. channel' \in Seq(Item) /\ Len(channel') <= Capacity
    BY <1>7, SendTypes DEF SendPadding, TypeOK
  <2>2. hand' \in Item
    BY <1>7, ItemTypes, ItemFields DEF SendPadding, TypeOK
  <2>3. QED
    BY <1>7, <2>1, <2>2 DEF SendPadding, TypeOK, childVars, clientVars
<1>8. CASE SendFailure
  <2>1. channel' \in Seq(Item) /\ Len(channel') <= Capacity
    BY <1>8, SendTypes, ItemTypes DEF SendFailure
  <2>2. QED
    BY <1>8, <2>1 DEF SendFailure, TypeOK, childVars, clientVars
<1>9. CASE Stop
  BY <1>9 DEF Stop, TypeOK, clientVars
<1>10. CASE Wait
  BY <1>10 DEF Wait, TypeOK, clientVars
<1>11. QED
  BY <1>1, <1>2, <1>3, <1>4, <1>5, <1>6, <1>7, <1>8, <1>9, <1>10 DEF PumpStep

LEMMA ReceiveTypes ==
  ASSUME TypeOK, PumpInv, Receive
  PROVE  TypeOK'
<1>1. channel' \in Seq(Item) /\ Len(channel') <= Capacity
  BY TailFacts, LenProperties, PumpAssumption DEF Receive, TypeOK
<1>2. door = "open"
  BY DEF Receive, PumpInv, WatcherInv, TypeOK
<1>3. CASE Head(channel).kind = "error"
  BY <1>1, <1>3 DEF Receive, TypeOK, childVars, pumpVars
<1>4. CASE Head(channel).kind # "error"
  <2>1. got <= got' /\ got' \in Positions
    <3>1. Head(channel) \in Item
      BY TailFacts DEF Receive, TypeOK
    <3>2. got <= got' /\ got' = Head(channel).to
      BY <1>2, <1>4, ReceiveKeepsChain DEF PumpInv
    <3>3. QED
      BY <3>1, <3>2, ItemFields
  <2>2. real' \in 0..got'
    BY <1>4, <2>1, PumpAssumption DEF Receive, TypeOK, Positions
  <2>3. QED
    BY <1>1, <1>4, <2>1, <2>2 DEF Receive, TypeOK, childVars, pumpVars
<1>5. QED
  BY <1>3, <1>4

LEMMA StepTypes ==
  ASSUME TypeOK, PumpInv, [Next]_vars
  PROVE  TypeOK'
<1>1. CASE PumpStep
  BY <1>1, PumpStepTypes DEF PumpInv
<1>2. CASE StderrClosed
  BY <1>2 DEF StderrClosed, TypeOK, childVars, pumpVars, clientVars
<1>3. CASE StderrBroken
  BY <1>3 DEF StderrBroken, TypeOK, childVars, pumpVars, clientVars
<1>4. CASE SendComplaint
  <2>1. channel' \in Seq(Item) /\ Len(channel') <= Capacity
    BY <1>4, SendTypes, ItemTypes DEF SendComplaint
  <2>2. QED
    BY <1>4, <2>1 DEF SendComplaint, TypeOK, childVars, pumpVars, clientVars
<1>5. CASE Receive
  BY <1>5, ReceiveTypes
<1>6. CASE EndStream
  BY <1>6 DEF EndStream, TypeOK, childVars, pumpVars
<1>7. CASE Poll
  BY <1>7 DEF Poll, TypeOK, childVars, pumpVars
<1>8. CASE DropStream
  BY <1>8, EmptySeq, PumpAssumption DEF DropStream, TypeOK, childVars, pumpVars
<1>9. CASE Complain \/ CloseStdout \/ Exit
  BY <1>9 DEF Complain, CloseStdout, Exit, TypeOK, childVars, pumpVars, clientVars
<1>10. CASE UNCHANGED vars
  BY <1>10 DEF TypeOK, vars, childVars, pumpVars, clientVars
<1>11. QED
  BY <1>1, <1>2, <1>3, <1>4, <1>5, <1>6, <1>7, <1>8, <1>9, <1>10
  DEF Next, WatcherStep, StreamStep, Over

-------------------------------------------------------------------------------
(* The chain of items and the two threads' place in it *)

LEMMA QuietChannel ==
  ASSUME UNCHANGED <<channel, got, door>>
  PROVE  /\ ChainInv => ChainInv'
         /\ Front' = Front
         /\ NoErrorQueued' <=> NoErrorQueued
  BY DEF ChainInv, NoErrorBefore, Front, NoErrorQueued

\* A rejected send leaves nothing to show: the receiver is closed for good.
LEMMA RejectedKeepsChain ==
  ASSUME Rejected, UNCHANGED <<got, door>>
  PROVE  ChainInv' /\ FrontInv'
  BY DEF Rejected, ChainInv, FrontInv

\* What the stdout thread puts into the channel continues it.
LEMMA HandContinues ==
  ASSUME TypeOK, PumpInv, pump \in {"sending", "truncating", "padding"}, Accepted(hand),
         UNCHANGED <<got, door>>
  PROVE  /\ hand \in Item /\ hand.kind # "error"
         /\ ChainInv'
         /\ NoErrorQueued' => NoErrorQueued /\ Front' = hand.to
<1>1. hand \in Item /\ hand.kind # "error" /\ hand.from <= hand.to
  <2>1. hand \in Item /\ hand.from \in Positions /\ hand.to \in Positions
    BY ItemFields DEF TypeOK
  <2>2. CASE pump = "sending"
    BY <2>1, <2>2 DEF PumpInv, HandInv
  <2>3. CASE pump = "truncating"
    BY <2>1, <2>3, PumpAssumption DEF PumpInv, HandInv, Positions
  <2>4. CASE pump = "padding"
    BY <2>1, <2>4, ItemTypes DEF PumpInv, HandInv
  <2>5. QED
    BY <2>2, <2>3, <2>4
<1>2. NoErrorQueued => Front = hand.from
  BY DEF PumpInv, FrontInv, Accepted
<1>3. ChainInv'
  BY <1>1, <1>2, AcceptedKeepsChain DEF PumpInv
<1>4. NoErrorQueued' => NoErrorQueued /\ Front' = hand.to
  BY <1>1, AcceptedMovesFront
<1>5. QED
  BY <1>1, <1>3, <1>4

\* A queued error ends every obligation.
LEMMA FailureKeepsChain ==
  ASSUME TypeOK, PumpInv, Accepted(Failure), UNCHANGED <<got, door>>
  PROVE  ChainInv' /\ FrontInv' /\ ~NoErrorQueued'
<1>1. Failure \in Item /\ Failure.kind = "error"
  BY ItemTypes DEF Failure
<1>2. ChainInv'
  BY <1>1, AcceptedKeepsChain DEF PumpInv
<1>3. ~NoErrorQueued'
  BY <1>1, AcceptedMovesFront
<1>4. QED
  BY <1>2, <1>3 DEF FrontInv

LEMMA PumpStepChain ==
  ASSUME TypeOK, PumpInv, PumpStep
  PROVE  ChainInv' /\ FrontInv'
<1>1. ASSUME NEW n \in 1..Buffer, ReadSome(n) PROVE ChainInv' /\ FrontInv'
  <2>1. hand'.from = sent
    BY <1>1 DEF ReadSome, Audio
  <2>2. QED
    BY <1>1, <2>1, QuietChannel DEF ReadSome, PumpInv, FrontInv, clientVars
<1>2. CASE ReadEOF
  <2>1. UNCHANGED <<channel, got, door>>
    BY <1>2 DEF ReadEOF, clientVars
  <2>2. pump' = "padding" => hand'.from = sent
    BY <1>2, ItemTypes DEF ReadEOF, TypeOK
  <2>3. pump' = "waiting" => sent = Expected
    BY <1>2, PumpAssumption DEF ReadEOF, TypeOK, Positions
  <2>4. pump = "reading" /\ pump' \in {"failing", "padding", "waiting"}
    BY <1>2 DEF ReadEOF
  <2>5. QED
    BY <2>1, <2>2, <2>3, <2>4, QuietChannel DEF PumpInv, FrontInv
<1>3. CASE ReadInterrupted \/ ReadError
  BY <1>3, QuietChannel
  DEF ReadInterrupted, ReadError, PumpInv, FrontInv, clientVars
<1>4. CASE SendChunk
  <2>1. CASE Rejected
    BY <1>4, <2>1, RejectedKeepsChain DEF SendChunk, clientVars
  <2>2. CASE Accepted(hand) /\ pump' = "reading"
    <3>1. ChainInv' /\ (NoErrorQueued' => Front' = hand.to)
      BY <1>4, <2>2, HandContinues DEF SendChunk, clientVars
    <3>2. hand.to = sent /\ UNCHANGED sent
      BY <1>4 DEF SendChunk, PumpInv, HandInv
    <3>3. QED
      BY <2>2, <3>1, <3>2 DEF FrontInv
  <2>3. QED
    BY <1>4, <2>1, <2>2 DEF SendChunk
<1>5. CASE SendLast
  <2>1. CASE Rejected
    BY <1>5, <2>1, RejectedKeepsChain DEF SendLast, clientVars
  <2>2. CASE Accepted(hand)
    <3>1. ChainInv' /\ (NoErrorQueued' => Front' = hand.to)
      BY <1>5, <2>2, HandContinues DEF SendLast, clientVars
    <3>2. hand.to = Expected /\ pump' = "stopping"
      BY <1>5 DEF SendLast, PumpInv, HandInv
    <3>3. QED
      BY <3>1, <3>2 DEF FrontInv
  <2>3. QED
    BY <1>5, <2>1, <2>2 DEF SendLast
<1>6. CASE SendPadding
  <2>1. CASE Rejected
    BY <1>6, <2>1, RejectedKeepsChain DEF SendPadding, clientVars
  <2>2. CASE Accepted(hand)
    <3>1. ChainInv' /\ (NoErrorQueued' => Front' = hand.to) /\ hand.to \in Positions
      BY <1>6, <2>2, HandContinues, ItemFields DEF SendPadding, clientVars
    <3>2. CASE hand.to < Expected
      <4>1. hand'.from = hand.to /\ pump' = "padding"
        BY <1>6, <3>1, <3>2, ItemTypes DEF SendPadding
      <4>2. QED
        BY <3>1, <4>1 DEF FrontInv
    <3>3. CASE ~(hand.to < Expected)
      <4>1. hand.to = Expected /\ pump' = "waiting"
        BY <1>6, <3>1, <3>3, PumpAssumption DEF SendPadding, Positions
      <4>2. QED
        BY <3>1, <4>1 DEF FrontInv
    <3>4. QED
      BY <3>2, <3>3
  <2>3. QED
    BY <1>6, <2>1, <2>2 DEF SendPadding
<1>7. CASE SendFailure
  BY <1>7, RejectedKeepsChain, FailureKeepsChain DEF SendFailure, clientVars
<1>8. CASE Stop \/ Wait
  BY <1>8, QuietChannel DEF Stop, Wait, PumpInv, FrontInv, clientVars
<1>9. QED
  BY <1>1, <1>2, <1>3, <1>4, <1>5, <1>6, <1>7, <1>8 DEF PumpStep

LEMMA StepChain ==
  ASSUME TypeOK, PumpInv, [Next]_vars
  PROVE  ChainInv' /\ FrontInv'
<1>1. CASE PumpStep
  BY <1>1, PumpStepChain
<1>2. CASE SendComplaint
  <2>1. CASE Rejected
    BY <1>2, <2>1, RejectedKeepsChain DEF SendComplaint, clientVars
  <2>2. CASE Accepted(Failure)
    BY <1>2, <2>2, FailureKeepsChain DEF SendComplaint, clientVars
  <2>3. QED
    BY <1>2, <2>1, <2>2 DEF SendComplaint
<1>3. CASE Receive
  <2>1. CASE Head(channel).kind = "error"
    BY <1>3, <2>1 DEF Receive, ChainInv, FrontInv
  <2>2. CASE Head(channel).kind # "error"
    <3>1. door = "open"
      BY <1>3 DEF Receive, PumpInv, WatcherInv, TypeOK
    <3>2. /\ ChainInv' /\ Front' = Front /\ (NoErrorQueued' => NoErrorQueued)
      BY <1>3, <2>2, <3>1, ReceiveKeepsChain DEF PumpInv
    <3>3. QED
      BY <1>3, <3>1, <3>2 DEF Receive, PumpInv, FrontInv, pumpVars
  <2>3. QED
    BY <2>1, <2>2
<1>4. CASE EndStream \/ DropStream
  BY <1>4 DEF EndStream, DropStream, ChainInv, FrontInv
<1>5. CASE \/ StderrClosed \/ StderrBroken \/ Poll \/ Complain \/ CloseStdout \/ Exit
           \/ UNCHANGED vars
  <2>1. UNCHANGED <<channel, got, door, pump, sent, hand>>
    BY <1>5 DEF StderrClosed, StderrBroken, Poll, Complain, CloseStdout, Exit,
                vars, pumpVars, clientVars
  <2>2. QED
    BY <2>1, QuietChannel DEF PumpInv, FrontInv
<1>6. QED
  BY <1>1, <1>2, <1>3, <1>4, <1>5 DEF Next, WatcherStep, StreamStep, Over

-------------------------------------------------------------------------------
(* The other parts of the invariant *)

LEMMA StepHand ==
  ASSUME TypeOK, PumpInv, [Next]_vars
  PROVE  HandInv'
<1>1. ASSUME NEW n \in 1..Buffer, ReadSome(n) PROVE HandInv'
  <2>1. CASE Overruns(n)
    BY <1>1, <2>1 DEF ReadSome, HandInv, Audio
  <2>2. CASE ~Overruns(n)
    BY <1>1, <2>2 DEF ReadSome, HandInv, Audio, TypeOK, Positions
  <2>3. QED
    BY <2>1, <2>2
<1>2. CASE ReadEOF
  <2>1. pump' = "padding" => hand' = Padding(sent) /\ hand'.from = sent /\ hand'.kind = "padding"
    BY <1>2, ItemTypes DEF ReadEOF, TypeOK
  <2>2. pump' \in {"failing", "padding", "waiting"} /\ UNCHANGED sent
    BY <1>2 DEF ReadEOF
  <2>3. QED
    BY <2>1, <2>2 DEF HandInv, TypeOK, Positions
<1>3. CASE SendPadding
  <2>1. /\ pump = "padding" /\ UNCHANGED sent /\ sent <= hand.from
        /\ hand.from <= hand.to /\ hand.from \in Positions /\ hand.to \in Positions
    BY <1>3, ItemTypes, ItemFields DEF SendPadding, PumpInv, HandInv, TypeOK
  <2>2. CASE hand.to < Expected
    <3>1. /\ pump' = "padding" /\ hand' = Padding(hand.to)
          /\ hand'.from = hand.to /\ hand'.kind = "padding"
      BY <1>3, <2>1, <2>2, ItemTypes DEF SendPadding
    <3>2. QED
      BY <2>1, <3>1 DEF HandInv, TypeOK, Positions
  <2>3. CASE ~(hand.to < Expected)
    BY <1>3, <2>3 DEF SendPadding, HandInv
  <2>4. QED
    BY <2>2, <2>3
<1>4. CASE \/ ReadInterrupted \/ ReadError \/ SendChunk \/ SendLast \/ SendFailure
           \/ Stop \/ Wait
  BY <1>4 DEF ReadInterrupted, ReadError, SendChunk, SendLast, SendFailure, Stop, Wait,
              HandInv, PumpInv
<1>5. CASE UNCHANGED <<pump, sent, hand>>
  BY <1>5 DEF HandInv, PumpInv
<1>6. CASE ~PumpStep
  <2>1. UNCHANGED <<pump, sent, hand>>
    BY <1>6 DEF Next, WatcherStep, StreamStep, Over, StderrClosed, StderrBroken,
                SendComplaint, Receive, EndStream, Poll, DropStream, Complain,
                CloseStdout, Exit, vars, pumpVars
  <2>2. QED
    BY <1>5, <2>1
<1>7. QED
  BY <1>1, <1>2, <1>3, <1>4, <1>6 DEF PumpStep

\* PaddedInv speaks of each queued item: what one send adds to it.
LEMMA SendKeepsPadded ==
  ASSUME TypeOK, PumpInv, NEW item \in Item, Accepted(item) \/ Rejected,
         UNCHANGED <<sent, got, real>>,
         pump \in {"padding", "waiting", "done"} => pump' \in {"padding", "waiting", "done"},
         pump' = "padding" => pump = "padding",
         item.kind = "padding" => pump = "padding" /\ sent <= item.from
  PROVE  PaddedInv'
<1>1. ASSUME NEW i \in 1..Len(channel'), channel'[i].kind = "padding"
      PROVE  /\ pump \in {"padding", "waiting", "done"}
             /\ ~TooShort(Expected - sent)
             /\ sent <= channel'[i].from
  <2>1. CASE Rejected
    BY <1>1, <2>1 DEF Rejected, PumpInv, PaddedInv
  <2>2. CASE Accepted(item)
    <3>1. channel \in Seq(Item) /\ channel' = Append(channel, item)
      BY <2>2 DEF Accepted, TypeOK
    <3>2. CASE i \in 1..Len(channel)
      <4>1. channel'[i] = channel[i]
        BY <3>1, <3>2, AppendFacts
      <4>2. QED
        BY <1>1, <3>2, <4>1 DEF PumpInv, PaddedInv
    <3>3. CASE i = Len(channel) + 1
      <4>1. channel'[i] = item
        BY <3>1, <3>3, AppendFacts
      <4>2. QED
        BY <1>1, <4>1 DEF PumpInv, PaddedInv
    <3>4. QED
      BY <3>1, <3>2, <3>3, AppendFacts
  <2>3. QED
    BY <2>1, <2>2
<1>2. QED
  BY <1>1 DEF PumpInv, PaddedInv, TooShort

LEMMA StepPadded ==
  ASSUME TypeOK, PumpInv, [Next]_vars
  PROVE  PaddedInv'
<1>1. ASSUME NEW n \in 1..Buffer, ReadSome(n) PROVE PaddedInv'
  BY <1>1 DEF ReadSome, PumpInv, PaddedInv, TooShort, clientVars
<1>2. CASE ReadEOF
  BY <1>2 DEF ReadEOF, PumpInv, PaddedInv, TooShort, clientVars
<1>3. CASE ReadInterrupted \/ ReadError
  BY <1>3 DEF ReadInterrupted, ReadError, PumpInv, PaddedInv, TooShort, clientVars
<1>4. CASE SendChunk
  BY <1>4, SendKeepsPadded DEF SendChunk, PumpInv, HandInv, TypeOK, clientVars
<1>5. CASE SendLast
  BY <1>5, SendKeepsPadded DEF SendLast, PumpInv, HandInv, TypeOK, clientVars
<1>6. CASE SendPadding
  BY <1>6, SendKeepsPadded DEF SendPadding, PumpInv, HandInv, TypeOK, clientVars
<1>7. CASE SendFailure
  BY <1>7, SendKeepsPadded, ItemTypes DEF SendFailure, Failure, clientVars
<1>8. CASE Stop \/ Wait
  BY <1>8 DEF Stop, Wait, PumpInv, PaddedInv, TooShort, clientVars
<1>9. CASE SendComplaint
  BY <1>9, SendKeepsPadded, ItemTypes DEF SendComplaint, Failure, pumpVars, clientVars
<1>10. CASE Receive
  <2>1. /\ channel \in Seq(Item) /\ channel # <<>> /\ channel' = Tail(channel)
        /\ UNCHANGED <<pump, sent>>
    BY <1>10 DEF Receive, TypeOK, pumpVars
  <2>2. /\ Head(channel) = channel[1] /\ Len(channel) \in Nat \ {0}
        /\ Len(channel') = Len(channel) - 1
        /\ \A i \in 1..Len(channel') : channel'[i] = channel[i + 1]
    BY <2>1, TailFacts
  <2>3. ASSUME NEW i \in 1..Len(channel'), channel'[i].kind = "padding"
        PROVE  /\ pump \in {"padding", "waiting", "done"}
               /\ ~TooShort(Expected - sent)
               /\ sent <= channel'[i].from
    <3>1. channel'[i] = channel[i + 1] /\ i + 1 \in 1..Len(channel)
      BY <2>2
    <3>2. QED
      BY <2>3, <3>1 DEF PumpInv, PaddedInv
  <2>4. CASE Head(channel).kind = "error"
    BY <1>10, <2>1, <2>3, <2>4 DEF Receive, PumpInv, PaddedInv, TooShort
  <2>5. CASE Head(channel).kind = "audio"
    BY <1>10, <2>1, <2>3, <2>5 DEF Receive, PumpInv, PaddedInv, TooShort
  <2>6. CASE Head(channel).kind = "padding"
    <3>1. real' = real
      BY <1>10, <2>6 DEF Receive
    <3>2. /\ pump \in {"padding", "waiting", "done"} /\ ~TooShort(Expected - sent)
          /\ sent <= channel[1].from
      BY <2>2, <2>6 DEF PumpInv, PaddedInv
    <3>3. door = "open"
      BY <1>10 DEF Receive, PumpInv, WatcherInv, TypeOK
    <3>4. channel[1].from = got
      BY <1>10, <2>2, <2>6, <3>3, ReceiveKeepsChain DEF PumpInv
    <3>5. sent <= real
      BY <3>2, <3>4 DEF PumpInv, PaddedInv, TypeOK, Positions
    <3>6. QED
      BY <2>1, <2>3, <3>1, <3>2, <3>5 DEF PaddedInv, TooShort
  <2>7. QED
    <3>1. Head(channel) \in Item
      BY <2>1, TailFacts
    <3>2. QED
      BY <2>4, <2>5, <2>6, <3>1 DEF Item
<1>11. CASE DropStream
  BY <1>11, EmptySeq DEF DropStream, PumpInv, PaddedInv, TooShort, pumpVars
<1>12. CASE \/ StderrClosed \/ StderrBroken \/ EndStream \/ Poll \/ Complain
            \/ CloseStdout \/ Exit \/ UNCHANGED vars
  BY <1>12 DEF StderrClosed, StderrBroken, EndStream, Poll, Complain, CloseStdout, Exit,
               PumpInv, PaddedInv, TooShort, vars, pumpVars, clientVars
<1>13. QED
  BY <1>1, <1>2, <1>3, <1>4, <1>5, <1>6, <1>7, <1>8, <1>9, <1>10, <1>11, <1>12
  DEF Next, PumpStep, WatcherStep, StreamStep, Over

\* A send leaves the watcher's obligation to the errors still queued.
LEMMA SendKeepsWatcher ==
  ASSUME TypeOK, PumpInv, NEW item \in Item, Accepted(item) \/ Rejected,
         UNCHANGED <<childVars, watcher, door, broken, stream>>
  PROVE  WatcherInv'
<1>1. NoErrorQueued' /\ door = "open" => NoErrorQueued
  BY AcceptedMovesFront DEF Rejected
<1>2. QED
  BY <1>1 DEF PumpInv, WatcherInv, childVars

LEMMA StepWatcher ==
  ASSUME TypeOK, PumpInv, [Next]_vars
  PROVE  WatcherInv'
<1>1. CASE \/ \E n \in 1..Buffer : ReadSome(n)
           \/ ReadEOF \/ ReadInterrupted \/ ReadError
  <2>1. UNCHANGED <<ffmpeg, said, watcher, channel, door, stream, broken>>
    BY <1>1 DEF ReadSome, ReadEOF, ReadInterrupted, ReadError, childVars, clientVars
  <2>2. QED
    BY <2>1 DEF PumpInv, WatcherInv, NoErrorQueued
<1>2. CASE SendChunk
  BY <1>2, SendKeepsWatcher DEF SendChunk, TypeOK, clientVars
<1>3. CASE SendLast
  BY <1>3, SendKeepsWatcher DEF SendLast, TypeOK, clientVars
<1>4. CASE SendPadding
  BY <1>4, SendKeepsWatcher DEF SendPadding, TypeOK, clientVars
<1>5. CASE SendFailure
  BY <1>5, SendKeepsWatcher, ItemTypes DEF SendFailure, clientVars
<1>6. CASE Stop \/ Wait
  BY <1>6 DEF Stop, Wait, PumpInv, WatcherInv, NoErrorQueued, clientVars
<1>7. CASE StderrClosed \/ StderrBroken
  BY <1>7 DEF StderrClosed, StderrBroken, PumpInv, WatcherInv, NoErrorQueued, TypeOK,
              childVars, clientVars
<1>8. CASE SendComplaint
  <2>1. door' = "open" => ~NoErrorQueued'
    BY <1>8, FailureKeepsChain DEF SendComplaint, Rejected, clientVars
  <2>2. QED
    BY <1>8, <2>1 DEF SendComplaint, PumpInv, WatcherInv, clientVars
<1>9. CASE Receive
  <2>1. door = "open" /\ stream = "awaiting" /\ ~broken
    BY <1>9 DEF Receive, PumpInv, WatcherInv, TypeOK
  <2>2. CASE Head(channel).kind = "error"
    BY <1>9, <2>1, <2>2 DEF Receive, WatcherInv
  <2>3. CASE Head(channel).kind # "error"
    <3>1. NoErrorQueued' => NoErrorQueued
      BY <1>9, <2>1, <2>3, ReceiveKeepsChain DEF PumpInv
    <3>2. QED
      BY <1>9, <2>1, <2>3, <3>1 DEF Receive, PumpInv, WatcherInv, childVars
  <2>4. QED
    BY <2>2, <2>3
<1>10. CASE EndStream \/ DropStream
  BY <1>10 DEF EndStream, DropStream, WatcherInv
<1>11. CASE Poll
  BY <1>11 DEF Poll, PumpInv, WatcherInv, NoErrorQueued, TypeOK, childVars
<1>12. CASE Complain \/ CloseStdout \/ Exit
  BY <1>12 DEF Complain, CloseStdout, Exit, PumpInv, WatcherInv, NoErrorQueued, clientVars
<1>13. CASE UNCHANGED vars
  BY <1>13 DEF PumpInv, WatcherInv, NoErrorQueued, vars, childVars, clientVars
<1>14. QED
  BY <1>1, <1>2, <1>3, <1>4, <1>5, <1>6, <1>7, <1>8, <1>9, <1>10, <1>11, <1>12, <1>13
  DEF Next, PumpStep, WatcherStep, StreamStep, Over

\* A thread that is through stays through, and ffmpeg stays reaped.
LEMMA StepEnd ==
  ASSUME TypeOK, PumpInv, [Next]_vars
  PROVE  EndInv'
<1>1. CASE PumpStep
  BY <1>1 DEF PumpStep, ReadSome, ReadEOF, ReadInterrupted, ReadError, SendChunk, SendLast,
              SendPadding, SendFailure, Stop, Wait, PumpInv, EndInv, SendersGone,
              childVars, clientVars
<1>2. CASE WatcherStep
  BY <1>2 DEF WatcherStep, StderrClosed, StderrBroken, SendComplaint,
              PumpInv, EndInv, SendersGone, childVars, pumpVars, clientVars
<1>3. CASE StreamStep \/ Poll \/ DropStream
  BY <1>3 DEF StreamStep, Receive, EndStream, Poll, DropStream,
              PumpInv, EndInv, SendersGone, childVars, pumpVars
<1>4. CASE Complain \/ CloseStdout \/ Exit \/ UNCHANGED vars
  BY <1>4 DEF Complain, CloseStdout, Exit, PumpInv, EndInv, SendersGone,
              vars, childVars, pumpVars, clientVars
<1>5. QED
  BY <1>1, <1>2, <1>3, <1>4 DEF Next, Over

\* The end of the stream: both promises are kept when it comes, and stay kept.
LEMMA StepPromises ==
  ASSUME TypeOK, PumpInv, [Next]_vars
  PROVE  EndsCompleteOrBroken' /\ StderrFailsStream'
<1>1. CASE EndStream
  <2>1. /\ channel = <<>> /\ pump = "done" /\ watcher = "done" /\ stream = "awaiting"
        /\ UNCHANGED <<said, got, real>>
    BY <1>1 DEF EndStream, SendersGone, childVars
  <2>2. door = "open" /\ NoErrorQueued
    BY <2>1, EmptySeq DEF PumpInv, WatcherInv, TypeOK, NoErrorQueued
  <2>3. got = Expected
    BY <2>1, <2>2 DEF PumpInv, FrontInv, Front
  <2>4. 10 * (Expected - real) <= Expected
    <3>1. CASE real = got
      BY <2>3, <3>1, PumpAssumption
    <3>2. CASE real # got
      BY <2>3, <3>2, PumpAssumption
      DEF PumpInv, PaddedInv, TooShort, TypeOK, Positions
    <3>3. QED
      BY <3>1, <3>2
  <2>5. ~said
    BY <2>1, <2>2 DEF PumpInv, WatcherInv
  <2>6. QED
    BY <2>1, <2>3, <2>4, <2>5 DEF EndsCompleteOrBroken, StderrFailsStream
<1>2. CASE ~EndStream
  <2>1. CASE stream' # "ended"
    BY <2>1 DEF EndsCompleteOrBroken, StderrFailsStream
  <2>2. CASE stream' = "ended"
    <3>1. stream = "ended" /\ UNCHANGED <<got, real>>
      BY <1>2, <2>2 DEF Next, PumpStep, WatcherStep, StreamStep, Over, ReadSome, ReadEOF,
        ReadInterrupted, ReadError, SendChunk, SendLast, SendPadding, SendFailure, Stop,
        Wait, StderrClosed, StderrBroken, SendComplaint, Receive, Poll, DropStream,
        Complain, CloseStdout, Exit, vars, childVars, clientVars
    <3>2. ffmpeg = "reaped"
      BY <3>1 DEF PumpInv, EndInv, SendersGone
    <3>3. UNCHANGED said
      BY <1>2, <3>1, <3>2 DEF Next, PumpStep, WatcherStep, StreamStep, Over, ReadSome,
        ReadEOF, ReadInterrupted, ReadError, SendChunk, SendLast, SendPadding, SendFailure,
        Stop, Wait, StderrClosed, StderrBroken, SendComplaint, Receive, Poll, DropStream,
        Complain, CloseStdout, Exit, vars, childVars
    <3>4. QED
      BY <3>1, <3>3 DEF PumpInv, EndsCompleteOrBroken, StderrFailsStream
  <2>3. QED
    BY <2>1, <2>2
<1>3. QED
  BY <1>1, <1>2

-------------------------------------------------------------------------------
(* Theorems *)

LEMMA InitInv == Init => TypeOK /\ PumpInv
<1> SUFFICES ASSUME Init PROVE TypeOK /\ PumpInv
  OBVIOUS
<1>1. channel \in Seq(Item) /\ Len(channel) = 0 /\ channel = <<>>
  BY EmptySeq DEF Init
<1>2. TypeOK
  <2>1. 0 \in Positions /\ 0 <= Capacity /\ 0 \in 0..MaxInterrupts /\ 0 \in 0..0
    BY PumpAssumption DEF Positions
  <2>2. hand \in Item
    BY ItemTypes DEF Init
  <2>3. QED
    BY <1>1, <2>1, <2>2 DEF Init, TypeOK
<1>3. ChainInv /\ FrontInv
  BY <1>1 DEF Init, ChainInv, FrontInv, Front
<1>4. HandInv /\ PaddedInv /\ WatcherInv /\ EndInv
  BY <1>1 DEF Init, HandInv, PaddedInv, WatcherInv, EndInv
<1>5. QED
  BY <1>2, <1>3, <1>4 DEF Init, PumpInv, EndsCompleteOrBroken, StderrFailsStream

LEMMA StepInv ==
  ASSUME TypeOK, PumpInv, [Next]_vars
  PROVE  TypeOK' /\ PumpInv'
  BY StepTypes, StepChain, StepHand, StepPadded, StepWatcher, StepEnd, StepPromises
  DEF PumpInv

LEMMA InvariantHolds == Spec => [](TypeOK /\ PumpInv)
  BY InitInv, StepInv, PTL DEF Spec

\* Every variable keeps its type: the channel never exceeds its size and no count
\* ever leaves the declared length.
THEOREM PumpTypeCorrect == Spec => []TypeOK
  BY InvariantHolds, PTL

\* The inductive invariant: the queued items continue what the client has, the
\* threads continue the queued items, and padding and errors are where they belong.
THEOREM PumpInvariant == Spec => []PumpInv
  BY InvariantHolds, PTL

\* A response that ends without an error delivered exactly the declared length, at
\* most a tenth of it padding (next_pump_decision, pump_ffmpeg_stdout).
THEOREM CompleteOrBroken == Spec => []EndsCompleteOrBroken
  BY InvariantHolds, PTL DEF PumpInv

\* However the two threads race, a response that ends without an error had an ffmpeg
\* that wrote nothing on stderr (run_stderr_thread).
THEOREM StderrAlwaysFails == Spec => []StderrFailsStream
  BY InvariantHolds, PTL DEF PumpInv

\* The client is given the bytes of the declared stream in order and without a gap.
THEOREM DeliveryIsGapless == Spec => Gapless
<1>1. ASSUME TypeOK, PumpInv, [Next]_vars
      PROVE  [got' # got => Head(channel).from = got /\ Head(channel).to = got']_vars
  <2>1. SUFFICES ASSUME Next, got' # got
                 PROVE  Head(channel).from = got /\ Head(channel).to = got'
    BY <1>1
  <2>2. Receive /\ Head(channel).kind # "error"
    BY <2>1 DEF Next, PumpStep, WatcherStep, StreamStep, Over, ReadSome, ReadEOF,
      ReadInterrupted, ReadError, SendChunk, SendLast, SendPadding, SendFailure, Stop,
      Wait, StderrClosed, StderrBroken, SendComplaint, Receive, EndStream, Poll,
      DropStream, Complain, CloseStdout, Exit, vars, clientVars
  <2>3. door = "open"
    BY <1>1, <2>2 DEF Receive, PumpInv, WatcherInv, TypeOK
  <2>4. QED
    BY <1>1, <2>2, <2>3, ReceiveKeepsChain DEF PumpInv
<1>2. QED
  BY <1>1, InvariantHolds, PTL DEF Spec, Gapless

\* The response implements the declared transfer: every step of the threads, of
\* ffmpeg and of the client is a step of DeclaredTransfer or leaves it unchanged.
THEOREM ImplementsDeclaredTransfer == Spec => RefinesDeclaredTransfer
<1>1. Init => Promise!Init
  BY DEF Init, Promise!Init
<1>2. ASSUME TypeOK, PumpInv, TypeOK', PumpInv', [Next]_vars
      PROVE  [Promise!Next]_(Promise!transferVars)
  <2>1. CASE Receive
    <3>1. door = "open" /\ stream = "awaiting" /\ ~broken /\ stream' = "resting"
      BY <1>2, <2>1 DEF Receive, PumpInv, WatcherInv, TypeOK
    <3>2. CASE Head(channel).kind = "error"
      BY <2>1, <3>1, <3>2 DEF Receive, Promise!Next, Promise!Break
    <3>3. CASE Head(channel).kind # "error"
      <4>1. got <= got' /\ got' \in Positions /\ got \in Positions
        BY <1>2, <2>1, <3>1, <3>3, ReceiveKeepsChain DEF PumpInv, TypeOK
      <4>2. got' # got => got' \in (got + 1)..Expected
        BY <4>1, PumpAssumption DEF Positions
      <4>3. UNCHANGED broken
        BY <2>1, <3>3 DEF Receive
      <4>4. QED
        BY <3>1, <4>2, <4>3 DEF Promise!Next, Promise!Give, Promise!transferVars
    <3>4. QED
      BY <3>2, <3>3
  <2>2. CASE EndStream
    <3>1. stream = "awaiting" /\ ~broken /\ stream' = "ended" /\ UNCHANGED got
      BY <1>2, <2>2 DEF EndStream, PumpInv, WatcherInv, TypeOK
    <3>2. got = Expected
      BY <1>2, <3>1 DEF PumpInv, EndsCompleteOrBroken
    <3>3. QED
      BY <3>1, <3>2 DEF Promise!Next, Promise!Complete
  <2>3. CASE DropStream
    BY <2>3 DEF DropStream, Promise!Next, Promise!Abandon
  <2>4. CASE Poll
    BY <2>4 DEF Poll, Promise!transferVars
  <2>5. CASE ~(Receive \/ EndStream \/ DropStream \/ Poll)
    <3>1. UNCHANGED <<stream, got, broken>>
      BY <1>2, <2>5 DEF Next, PumpStep, WatcherStep, StreamStep, Over, ReadSome, ReadEOF,
        ReadInterrupted, ReadError, SendChunk, SendLast, SendPadding, SendFailure, Stop,
        Wait, StderrClosed, StderrBroken, SendComplaint, Complain, CloseStdout, Exit,
        vars, clientVars
    <3>2. QED
      BY <3>1 DEF Promise!transferVars
  <2>6. QED
    BY <2>1, <2>2, <2>3, <2>4, <2>5
<1>3. QED
  BY <1>1, <1>2, InvariantHolds, PTL DEF Spec, RefinesDeclaredTransfer, Promise!Spec
===============================================================================
