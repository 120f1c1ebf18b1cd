--------------------------- MODULE FeedPollingProofs ---------------------------
(***************************************************************************)
(* Whatever versions were started before, wherever their starts and their  *)
(* writes were cut off: a process that serves finds no copy that another   *)
(* version generated.  And whatever the windows: no answer is used beyond  *)
(* its promised age, and a 304 stands for the body it was decided on.      *)
(***************************************************************************)
EXTENDS FeedPolling, SequenceTheorems, TLAPS

Commands == {"HSET", "EXPIRE", "SET"}

IsPipe(pipe) == pipe.ops \in Seq(Commands)

PipesInv == IsPipe(late) /\ IsPipe(job.pipe)

\* Only a serving process asks and passes.
ServingInv == job # NoJob \/ ask.at # "idle" => proc = "up"

\* The version key: read before the process serves, and set.
StampInv ==
  /\ proc \in {"down", "flushing", "stamping", "up"}
  /\ proc # "down" => running \in Versions
  /\ proc = "stamping" => stamped \in {"none", running}
  /\ proc = "up" => stamped = running
  /\ proc \in {"flushing", "stamping"} => late = NoPipe

\* Whoever may still write is of the stamped version, and so is the copy.
WritersInv ==
  /\ late # NoPipe => stamped = running /\ running \in Versions
  /\ hash # NoHash => hash.by = stamped /\ stamped # "none"

ForeignInv == PipesInv /\ ServingInv /\ StampInv /\ WritersInv

-------------------------------------------------------------------------------
(* Pipelines *)

LEMMA Pipes ==
  /\ IsPipe(NoPipe)
  /\ \A body : IsPipe(StorePipe(body))
  /\ \A grant : IsPipe(RenewPipe(grant))
BY DEF IsPipe, NoPipe, StorePipe, RenewPipe, Pipe, Commands

LEMMA RestIsPipe ==
  ASSUME NEW pipe, IsPipe(pipe), pipe.ops # <<>> PROVE IsPipe(Rest(pipe))
PROOF
  <1>1. Tail(pipe.ops) \in Seq(Commands)
    BY HeadTailProperties DEF IsPipe
  <1> QED
    BY <1>1, Pipes DEF Rest, IsPipe, Pipe

LEMMA AgedIsPipe ==
  ASSUME NEW pipe, IsPipe(pipe)
  PROVE  IsPipe(Aged(pipe)) /\ (pipe = NoPipe => Aged(pipe) = NoPipe)
BY DEF Aged, IsPipe, Pipe, NoPipe

\* A command writes a copy of the running version, or leaves the copy's version alone.
LEMMA ExecuteKeeps ==
  ASSUME NEW pipe, IsPipe(pipe), Execute(pipe), running \in Versions, stamped = running,
         hash # NoHash => hash.by = stamped
  PROVE  /\ UNCHANGED stamped /\ IsPipe(Rest(pipe))
         /\ hash' # NoHash => hash'.by = stamped /\ stamped # "none"
PROOF
  <1>1. pipe.ops # <<>> /\ UNCHANGED stamped
    BY DEF Execute
  <1>3. stamped # "none"
    BY PollingAssumption
  <1>4. \/ hash' = Hash(pipe.body, running, pipe.age,
                       IF hash = NoHash THEN Forever ELSE hash.ttl)
        \/ hash' = NoHash
        \/ hash # NoHash /\ hash' = Hash(hash.body, hash.by, hash.age, StaleWindow)
        \/ hash' = hash
    BY DEF Execute
  <1>5. hash' # NoHash => hash'.by = stamped
    BY <1>4 DEF Hash
  <1> QED
    BY <1>1, <1>3, <1>5, RestIsPipe

-------------------------------------------------------------------------------

LEMMA InitEstablishes == Init => ForeignInv
BY Pipes
DEF Init, ForeignInv, PipesInv, ServingInv, StampInv, WritersInv, NoJob, Job, NoAsk

\* A serving process goes on with its request and its pass.
LEMMA PassGoesOn ==
  ASSUME ForeignInv, UNCHANGED <<store, proc, running, late>>, IsPipe(job.pipe)',
         proc = "up"
  PROVE  ForeignInv'
BY DEF ForeignInv, PipesInv, ServingInv, StampInv, WritersInv, store

LEMMA AskKeeps == ForeignInv /\ Ask => ForeignInv'
BY PassGoesOn DEF Ask, ForeignInv, PipesInv

LEMMA ServeKeeps == ForeignInv /\ (ServeFresh \/ ServeStale) => ForeignInv'
PROOF
  <1> SUFFICES ASSUME ForeignInv, ServeFresh \/ ServeStale PROVE ForeignInv'
    OBVIOUS
  <1>1. UNCHANGED <<store, proc, running, late>> /\ proc = "up"
    BY DEF ServeFresh, ServeStale, Serve, ForeignInv, ServingInv
  <1>2. IsPipe(job'.pipe)
    BY Pipes DEF ServeFresh, ServeStale, Released, ForeignInv, PipesInv, Job, NoJob
  <1> QED
    BY <1>1, <1>2, PassGoesOn

LEMMA MissKeeps == ForeignInv /\ (Miss \/ TakeSlot) => ForeignInv'
PROOF
  <1> SUFFICES ASSUME ForeignInv, Miss \/ TakeSlot PROVE ForeignInv'
    OBVIOUS
  <1>1. UNCHANGED <<store, proc, running, late>> /\ proc = "up"
    BY DEF Miss, TakeSlot, ForeignInv, ServingInv
  <1>2. IsPipe(job'.pipe)
    <2>1. \/ job' = job
          \/ job' = Job("converting", FALSE, Nothing, NoPipe)
          \/ job' = Job("checking", FALSE, Nothing, NoPipe)
      BY DEF Miss, TakeSlot
    <2>2. CASE job' = job
      BY <2>2 DEF ForeignInv, PipesInv
    <2>3. CASE job'.pipe = NoPipe
      BY <2>3, Pipes
    <2> QED
      BY <2>1, <2>2, <2>3 DEF Job
  <1> QED
    BY <1>1, <1>2, PassGoesOn

LEMMA PassKeeps == ForeignInv /\ (Load \/ Probe \/ Convert \/ PassFails) => ForeignInv'
PROOF
  <1> SUFFICES ASSUME ForeignInv, Load \/ Probe \/ Convert \/ PassFails PROVE ForeignInv'
    OBVIOUS
  <1>1. UNCHANGED <<store, proc, running, late>>
    BY DEF Load, Probe, Convert, PassFails
  <1>2. job.at # "none"
    BY DEF Load, Probe, Convert, PassFails
  <1>3. proc = "up"
    BY <1>2 DEF ForeignInv, ServingInv, NoJob, Job
  <1>4. IsPipe(job'.pipe)
    BY Pipes DEF Load, Probe, Convert, PassFails, NoJob, Job
  <1> QED
    BY <1>1, <1>3, <1>4, PassGoesOn

\* Whose pipeline is orphaned was serving: it is of the stamped version.
LEMMA LeaveKeeps == ForeignInv /\ Leave => ForeignInv'
PROOF
  <1> SUFFICES ASSUME ForeignInv, Leave PROVE ForeignInv'
    OBVIOUS
  <1>1. proc = "up" /\ UNCHANGED <<store, proc, running>>
    BY DEF Leave, ForeignInv, ServingInv
  <1>2. late' \in {late, job.pipe} /\ (job' = job \/ job' = NoJob)
    BY DEF Leave, Orphaned
  <1> QED
    BY <1>1, <1>2, Pipes
    DEF ForeignInv, PipesInv, ServingInv, StampInv, WritersInv, store, NoJob, Job

LEMMA StopKeeps == ForeignInv /\ Stop => ForeignInv'
PROOF
  <1> SUFFICES ASSUME ForeignInv, Stop PROVE ForeignInv'
    OBVIOUS
  <1>1. /\ proc # "down" /\ proc' = "down" /\ late' \in {late, job.pipe}
        /\ job' = NoJob /\ ask' = NoAsk /\ UNCHANGED <<store, running>>
    BY DEF Stop, Orphaned
  <1>2. job = NoJob => job.pipe = NoPipe
    BY DEF NoJob, Job
  <1> QED
    BY <1>1, <1>2, Pipes
    DEF ForeignInv, PipesInv, ServingInv, StampInv, WritersInv, store, NoJob, Job, NoAsk

LEMMA LandKeeps == ForeignInv /\ (Land \/ CutShort) => ForeignInv'
PROOF
  <1> SUFFICES ASSUME ForeignInv, Land \/ CutShort PROVE ForeignInv'
    OBVIOUS
  <1>1. CASE Land
    <2>1. /\ late # NoPipe /\ Execute(late) /\ late' = Rest(late) /\ IsPipe(late)
          /\ UNCHANGED <<proc, running, job, ask>>
      BY <1>1 DEF Land, ForeignInv, PipesInv
    <2>2. running \in Versions /\ stamped = running /\ (hash # NoHash => hash.by = stamped)
      BY <2>1 DEF ForeignInv, WritersInv
    <2>3. /\ UNCHANGED stamped /\ IsPipe(Rest(late))
          /\ hash' # NoHash => hash'.by = stamped /\ stamped # "none"
      BY <2>1, <2>2, ExecuteKeeps
    <2> QED
      BY <2>1, <2>2, <2>3 DEF ForeignInv, PipesInv, ServingInv, StampInv, WritersInv
  <1>2. CASE CutShort
    BY <1>2, Pipes
    DEF CutShort, store, ForeignInv, PipesInv, ServingInv, StampInv, WritersInv
  <1> QED
    BY <1>1, <1>2

LEMMA WriteKeeps == ForeignInv /\ (Write \/ WriteFails) => ForeignInv'
PROOF
  <1> SUFFICES ASSUME ForeignInv, Write \/ WriteFails PROVE ForeignInv'
    OBVIOUS
  <1>1. job.at = "writing" /\ job # NoJob /\ UNCHANGED <<proc, running>>
    BY DEF Write, WriteFails, NoJob, Job
  <1>2. proc = "up" /\ running \in Versions /\ stamped = running /\ IsPipe(job.pipe)
        /\ (hash # NoHash => hash.by = stamped)
    BY <1>1 DEF ForeignInv, ServingInv, StampInv, WritersInv, PipesInv
  <1>3. CASE Write
    <2>1. /\ Execute(job.pipe) /\ UNCHANGED late
          /\ job' = NoJob \/ job'.pipe = Rest(job.pipe)
      BY <1>3 DEF Write, EndPass, Job
    <2>2. /\ UNCHANGED stamped /\ IsPipe(Rest(job.pipe))
          /\ hash' # NoHash => hash'.by = stamped /\ stamped # "none"
      BY <1>2, <2>1, ExecuteKeeps
    <2>3. IsPipe(job'.pipe)
      BY <2>1, <2>2, Pipes DEF NoJob, Job
    <2> QED
      BY <1>1, <1>2, <2>1, <2>2, <2>3
      DEF ForeignInv, PipesInv, ServingInv, StampInv, WritersInv
  <1>4. CASE WriteFails
    <2>1. late' \in {late, job.pipe} /\ job' = NoJob /\ UNCHANGED store
      BY <1>4 DEF WriteFails, Orphaned, EndPass
    <2>2. IsPipe(job'.pipe)
      BY <2>1, Pipes DEF NoJob, Job
    <2> QED
      BY <1>1, <1>2, <2>1, <2>2
      DEF ForeignInv, PipesInv, ServingInv, StampInv, WritersInv, store
  <1> QED
    BY <1>3, <1>4

\* A start waits for what its predecessor sent, and flushes what it left.
LEMMA StartKeeps == ForeignInv /\ StartStep => ForeignInv'
PROOF
  <1> SUFFICES ASSUME ForeignInv, StartStep PROVE ForeignInv'
    OBVIOUS
  <1>1. CASE \E version \in Versions : Start(version)
    BY <1>1 DEF Start, ForeignInv, PipesInv, ServingInv, StampInv, WritersInv, store
  <1>2. CASE Flush
    BY <1>2 DEF Flush, ForeignInv, PipesInv, ServingInv, StampInv, WritersInv
  <1>3. CASE Stamp
    <2>1. running \in Versions /\ running # "none"
      BY <1>3, PollingAssumption DEF Stamp, ForeignInv, StampInv
    <2> QED
      BY <1>3, <2>1 DEF Stamp, ForeignInv, PipesInv, ServingInv, StampInv, WritersInv
  <1> QED
    BY <1>1, <1>2, <1>3 DEF StartStep

LEMMA TickKeeps == ForeignInv /\ Tick => ForeignInv'
PROOF
  <1> SUFFICES ASSUME ForeignInv, Tick PROVE ForeignInv'
    OBVIOUS
  <1>1. /\ late' = Aged(late) /\ UNCHANGED <<stamped, proc, running>>
        /\ job' = Job(job.at, job.background, job.copy, Aged(job.pipe))
    BY DEF Tick
  <1>2. hash' = NoHash \/ (hash # NoHash /\ hash'.by = hash.by)
    BY DEF Tick, Hash
  <1>3. job = NoJob => job' = NoJob
    <2>1. Aged(NoPipe) = NoPipe
      BY AgedIsPipe, Pipes
    <2> QED
      BY <1>1, <2>1 DEF NoJob, Job
  <1>4. ask.at = "idle" => ask'.at = "idle"
    BY DEF Tick
  <1>5. IsPipe(late') /\ IsPipe(job'.pipe) /\ (late = NoPipe => late' = NoPipe)
    BY <1>1, AgedIsPipe DEF ForeignInv, PipesInv, Job
  <1> QED
    BY <1>1, <1>2, <1>3, <1>4, <1>5
    DEF ForeignInv, PipesInv, ServingInv, StampInv, WritersInv

LEMMA NextKeeps == ForeignInv /\ [Next]_vars => ForeignInv'
PROOF
  <1> SUFFICES ASSUME ForeignInv, [Next]_vars PROVE ForeignInv'
    OBVIOUS
  <1>1. CASE Publish \/ UNCHANGED vars
    BY <1>1
    DEF Publish, vars, store, ForeignInv, PipesInv, ServingInv, StampInv, WritersInv
  <1> QED
    BY <1>1, AskKeeps, ServeKeeps, MissKeeps, PassKeeps, LeaveKeeps, StopKeeps, LandKeeps,
       WriteKeeps, StartKeeps, TickKeeps
    DEF Next, ClientStep, PassStep

\* Once a process serves, the cache holds no copy of another version: whatever ran before,
\* and wherever a start, a flush or a pipeline was cut off.
THEOREM ServesOwnVersion == Spec => []NoForeignCopy
PROOF
  <1>1. ForeignInv => NoForeignCopy
    BY DEF ForeignInv, StampInv, WritersInv, NoForeignCopy
  <1> QED
    BY <1>1, InitEstablishes, NextKeeps, PTL DEF Spec

-------------------------------------------------------------------------------
(* What clients are promised of a copy's age                                     *)

\* A marker never has more than a Fresh TTL to live, whoever wrote it and whichever
\* body it stands beside; nor does one that a pass, or an orphaned pipeline, will
\* still write: what a probe may renew with, the copy it loaded was young enough for.
GrantOK(pipe) == pipe.grant \in 0..FreshTTL /\ pipe.age \in Nat

MarkerInv ==
  /\ marker \in 0..FreshTTL
  /\ GrantOK(job.pipe) /\ GrantOK(late)
  /\ job.copy.age \in 0..MaxFresh

\* Ages and delays are counted in whole seconds.
ClockInv == hash.age \in Nat /\ ask.seen.age \in Nat /\ delay \in Nat

AnswerInv == MarkerInv /\ ClockInv

LEMMA Grants ==
  /\ GrantOK(NoPipe)
  /\ \A body : GrantOK(StorePipe(body))
  /\ \A age \in 0..MaxFresh : GrantOK(RenewPipe(Smaller(MaxFresh - age, FreshTTL)))
BY PollingAssumption DEF GrantOK, NoPipe, StorePipe, RenewPipe, Smaller, Pipe

LEMMA NothingIsNew ==
  NoHash.age = 0 /\ Nothing.age = 0 /\ NoAsk.seen = Nothing
  /\ NoJob.pipe = NoPipe /\ NoJob.copy = Nothing
BY DEF NoHash, Hash, Nothing, NoAsk, NoJob, Job

LEMMA OlderIsNat ==
  ASSUME NEW age \in Nat PROVE Older(age) \in Nat
PROOF
  <1>1. MaxAge \in Nat
    BY PollingAssumption DEF MaxAge, Larger
  <1> QED
    BY <1>1 DEF Older, Smaller

\* What Redis executes of a pipeline leaves it with a marker the pipeline was granted.
LEMMA ExecuteCounts ==
  ASSUME NEW pipe, GrantOK(pipe), Execute(pipe), AnswerInv
  PROVE  hash'.age \in Nat /\ marker' \in 0..FreshTTL /\ GrantOK(Rest(pipe))
PROOF
  <1>1. hash'.age \in Nat
    <2>1. \/ hash' = Hash(pipe.body, running, pipe.age,
                          IF hash = NoHash THEN Forever ELSE hash.ttl)
          \/ hash' = NoHash
          \/ hash' = Hash(hash.body, hash.by, hash.age, StaleWindow)
          \/ hash' = hash
      BY DEF Execute
    <2> QED
      BY <2>1, NothingIsNew DEF Hash, GrantOK, AnswerInv, ClockInv
  <1>2. marker' \in {marker, pipe.grant}
    BY DEF Execute
  <1>3. GrantOK(Rest(pipe))
    BY Grants DEF Rest, GrantOK, Pipe
  <1> QED
    BY <1>1, <1>2, <1>3 DEF GrantOK, AnswerInv, MarkerInv

LEMMA InitCounts == Init => AnswerInv
BY PollingAssumption, NothingIsNew, Grants DEF Init, AnswerInv, MarkerInv, ClockInv

\* The request comes and goes, and asks: the store and the pipelines stay.
LEMMA ClientCounts == AnswerInv /\ (ClientStep \/ Leave) => AnswerInv'
PROOF
  <1> SUFFICES ASSUME AnswerInv, ClientStep \/ Leave PROVE AnswerInv'
    OBVIOUS
  <1>1. UNCHANGED store
    BY DEF ClientStep, Ask, ServeFresh, ServeStale, Serve, Miss, TakeSlot, Leave
  <1>2. /\ delay' \in {delay, 0}
        /\ ask'.seen \in {ask.seen, Nothing, [body |-> hash.body, age |-> hash.age]}
        /\ late' \in {late, job.pipe}
        /\ job'.pipe \in {job.pipe, NoPipe} /\ job'.copy \in {job.copy, Nothing}
    <2>1. CASE Ask \/ TakeSlot
      BY <2>1 DEF Ask, TakeSlot, Hgetall, Job
    <2>2. CASE ServeFresh \/ ServeStale
      <3>1. delay' = 0 /\ ask' = NoAsk /\ UNCHANGED late
        BY <2>2 DEF ServeFresh, ServeStale, Serve, Answer
      <3>2. job' \in {job, NoJob, Job("loading", TRUE, Nothing, NoPipe)}
        BY <2>2 DEF ServeFresh, ServeStale, Released
      <3> QED
        BY <3>1, <3>2, NothingIsNew DEF Job
    <2>3. CASE Miss
      <3>1. delay' = 0 /\ ask'.seen = NoAsk.seen /\ UNCHANGED late
        BY <2>3 DEF Miss, NoAsk
      <3>2. job' \in {job, Job("converting", FALSE, Nothing, NoPipe)}
        BY <2>3 DEF Miss
      <3> QED
        BY <3>1, <3>2, NothingIsNew DEF Job
    <2>4. CASE Leave
      <3>1. /\ delay' = 0 /\ ask' = NoAsk /\ late' \in {late, job.pipe}
            /\ job' \in {job, NoJob}
        BY <2>4 DEF Leave, Orphaned
      <3> QED
        BY <3>1, NothingIsNew
    <2> QED
      BY <2>1, <2>2, <2>3, <2>4 DEF ClientStep
  <1> QED
    BY <1>1, <1>2, NothingIsNew, Grants, PollingAssumption
    DEF AnswerInv, MarkerInv, ClockInv, store

\* A pass is granted what the copy it loaded has left of its Fresh Period.
LEMMA PassCounts == AnswerInv /\ (PassStep \/ PassFails \/ WriteFails) => AnswerInv'
PROOF
  <1> SUFFICES ASSUME AnswerInv, PassStep \/ PassFails \/ WriteFails PROVE AnswerInv'
    OBVIOUS
  <1>1. CASE Load
    <2>1. UNCHANGED <<store, late, ask, delay>> /\ job'.pipe = NoPipe
      BY <1>1, NothingIsNew DEF Load, Job
    <2>2. job'.copy.age \in 0..MaxFresh
      BY <1>1, NothingIsNew, PollingAssumption DEF Load, Job, AnswerInv, ClockInv
    <2> QED
      BY <2>1, <2>2, Grants DEF AnswerInv, MarkerInv, ClockInv, store
  <1>2. CASE Probe
    <2>1. UNCHANGED <<store, late, ask, delay>> /\ job'.copy = Nothing
      BY <1>2 DEF Probe, Job
    <2>2. GrantOK(job'.pipe)
      BY <1>2, Grants DEF Probe, Job, AnswerInv, MarkerInv
    <2> QED
      BY <2>1, <2>2, NothingIsNew, PollingAssumption DEF AnswerInv, MarkerInv, ClockInv, store
  <1>3. CASE Convert
    <2>1. UNCHANGED <<store, late, ask, delay>> /\ job'.copy = Nothing /\ GrantOK(job'.pipe)
      BY <1>3, Grants DEF Convert, Job
    <2> QED
      BY <2>1, NothingIsNew, PollingAssumption DEF AnswerInv, MarkerInv, ClockInv, store
  <1>4. CASE Write
    <2>1. GrantOK(job.pipe) /\ Execute(job.pipe) /\ UNCHANGED late
      BY <1>4 DEF Write, AnswerInv, MarkerInv
    <2>2. hash'.age \in Nat /\ marker' \in 0..FreshTTL /\ GrantOK(Rest(job.pipe))
      BY <2>1, ExecuteCounts
    <2>3. /\ job'.pipe \in {NoPipe, Rest(job.pipe)} /\ job'.copy \in {job.copy, Nothing}
          /\ delay' \in {delay, 0} /\ ask'.seen \in {ask.seen, Nothing}
      BY <1>4, NothingIsNew DEF Write, EndPass, Answer, Job
    <2> QED
      BY <2>1, <2>2, <2>3, NothingIsNew, Grants, PollingAssumption
      DEF AnswerInv, MarkerInv, ClockInv
  <1>5. CASE PassFails \/ WriteFails
    <2>1. /\ UNCHANGED store /\ late' \in {late, job.pipe}
          /\ job'.pipe \in {job.pipe, NoPipe} /\ job'.copy \in {job.copy, Nothing}
          /\ delay' \in {delay, 0} /\ ask'.seen \in {ask.seen, Nothing}
      BY <1>5, NothingIsNew DEF PassFails, WriteFails, Orphaned, EndPass, Answer, Job
    <2> QED
      BY <2>1, NothingIsNew, Grants, PollingAssumption
      DEF AnswerInv, MarkerInv, ClockInv, store
  <1> QED
    BY <1>1, <1>2, <1>3, <1>4, <1>5 DEF PassStep

\* Starts, stops and orphaned pipelines.
LEMMA ProcessCounts ==
  AnswerInv /\ (StartStep \/ Stop \/ Land \/ CutShort) => AnswerInv'
PROOF
  <1> SUFFICES ASSUME AnswerInv, StartStep \/ Stop \/ Land \/ CutShort PROVE AnswerInv'
    OBVIOUS
  <1>1. CASE StartStep
    <2>1. /\ UNCHANGED <<job, late, ask, delay>>
          /\ hash' \in {hash, NoHash} /\ marker' \in {marker, 0}
      BY <1>1 DEF StartStep, Start, Flush, Stamp, store
    <2> QED
      BY <2>1, NothingIsNew, PollingAssumption DEF AnswerInv, MarkerInv, ClockInv
  <1>2. CASE Stop \/ CutShort
    <2>1. /\ UNCHANGED store /\ late' \in {late, job.pipe, NoPipe}
          /\ job' \in {job, NoJob} /\ ask' \in {ask, NoAsk} /\ delay' \in {delay, 0}
      BY <1>2 DEF Stop, CutShort, Orphaned
    <2> QED
      BY <2>1, NothingIsNew, Grants, PollingAssumption
      DEF AnswerInv, MarkerInv, ClockInv, store
  <1>3. CASE Land
    <2>1. GrantOK(late) /\ Execute(late) /\ late' = Rest(late) /\ UNCHANGED <<job, ask, delay>>
      BY <1>3 DEF Land, AnswerInv, MarkerInv
    <2> QED
      BY <2>1, ExecuteCounts DEF AnswerInv, MarkerInv, ClockInv
  <1> QED
    BY <1>1, <1>2, <1>3

LEMMA TickCounts == AnswerInv /\ Tick => AnswerInv'
PROOF
  <1> SUFFICES ASSUME AnswerInv, Tick PROVE AnswerInv'
    OBVIOUS
  <1>1. hash'.age \in Nat
    <2>1. \/ hash' = NoHash
          \/ \E ttl : hash' = Hash(hash.body, hash.by, Older(hash.age), ttl)
      BY DEF Tick
    <2> QED
      BY <2>1, NothingIsNew, OlderIsNat DEF Hash, AnswerInv, ClockInv
  <1>2. ask'.seen.age \in Nat
    <2>1. ask'.seen \in {Nothing, [body |-> ask.seen.body, age |-> Older(ask.seen.age)], ask.seen}
      BY DEF Tick
    <2> QED
      BY <2>1, NothingIsNew, OlderIsNat DEF AnswerInv, ClockInv
  <1>3. delay' \in Nat /\ marker' \in 0..FreshTTL
    BY PollingAssumption DEF Tick, Larger, AnswerInv, MarkerInv, ClockInv
  <1>4. \A pipe : GrantOK(pipe) => GrantOK(Aged(pipe))
    BY DEF GrantOK, Aged, Pipe
  <1>5. GrantOK(job'.pipe) /\ GrantOK(late') /\ job'.copy = job.copy
    BY <1>4 DEF Tick, Job, AnswerInv, MarkerInv
  <1> QED
    BY <1>1, <1>2, <1>3, <1>5 DEF AnswerInv, MarkerInv, ClockInv

LEMMA AnswerInvariant == Spec => []AnswerInv
PROOF
  <1>1. AnswerInv /\ [Next]_vars => AnswerInv'
    <2>1. AnswerInv /\ (Publish \/ UNCHANGED vars) => AnswerInv'
      BY DEF Publish, vars, store, AnswerInv, MarkerInv, ClockInv
    <2> QED
      BY <2>1, ClientCounts, PassCounts, ProcessCounts, TickCounts DEF Next
  <1> QED
    BY <1>1, InitCounts, PTL DEF Spec

\* For any windows and however slow Redis is: no answer lets a client that heeds its
\* max-age use a copy longer than promised, whichever store the marker belongs to.
THEOREM NeverOlderThanPromised == Spec => PromiseKept
PROOF
  <1>1. ASSUME AnswerInv, ServeFresh PROVE Judged + marker <= Promise
    <2>1. Judged <= MaxFresh /\ Judged \in Int /\ marker \in 0..FreshTTL
      BY <1>1 DEF ServeFresh, Freshness, Judged, AnswerInv, MarkerInv, ClockInv
    <2> QED
      BY <2>1, PollingAssumption DEF Promise, Larger
  <1>2. ASSUME AnswerInv, ServeStale PROVE Judged + StaleServe <= Promise
    <2>1. Judged < StaleWindow /\ Judged \in Int
      BY <1>2 DEF ServeStale, Freshness, Judged, AnswerInv, MarkerInv, ClockInv
    <2> QED
      BY <2>1, PollingAssumption DEF Promise, Larger
  <1>3. AnswerInv /\ [Next]_vars
          => [/\ ServeFresh => Judged + marker <= Promise
              /\ ServeStale => Judged + StaleServe <= Promise]_vars
    BY <1>1, <1>2
  <1> QED
    BY <1>3, AnswerInvariant, PTL DEF Spec, PromiseKept

===============================================================================
