------------------------------ MODULE SourceStage ------------------------------
(***************************************************************************)
(* One Source Stage, from the probe to the staged file: ranged GETs fetch  *)
(* the chunks of a plan into one file, a window of them at a time, each    *)
(* with its retries; an origin that ignores Range is staged by one         *)
(* open-ended GET instead.  What an origin serves is named by its total,   *)
(* and every byte of the file by the source it came from, so that a file   *)
(* put together from two sources shows.  The file has been created; its    *)
(* creation and the guard's slot are StagedSources' subject.               *)
(***************************************************************************)
EXTENDS Naturals, FiniteSets

CONSTANTS
  Totals,         \* the totals of the sources that may answer (a byte count each)
  ChunkSize,      \* limits.chunk_size
  Concurrency,    \* limits.concurrency, floored at one
  MaxAttempts,    \* limits.max_attempts
  MaxPlanChunks   \* MAX_PLAN_CHUNKS

ASSUME StageAssumption ==
  /\ Totals \subseteq Nat \ {0}
  /\ {ChunkSize, Concurrency, MaxAttempts, MaxPlanChunks} \subseteq Nat \ {0}

\* The chunks, and the open-ended GET numbered after them.
Open == MaxPlanChunks
Chunks == 0..(MaxPlanChunks - 1)
Fetches == Chunks \cup {Open}

Positions == UNION {0..(t - 1) : t \in Totals}

VARIABLES
  stage,      \* probing, staging, fallback, verified or failed
  total,      \* the origin total the plan is built from (0: no plan)
  launched,   \* how many chunks were handed out, the probe being chunk 0
  finished,   \* the chunks accounted finished
  task,       \* what each fetch does
  attempts,   \* the attempts each fetch used
  claimed,    \* the source that answers its current attempt
  received,   \* the bytes of that attempt's body so far
  there,      \* is the staged file in the temp dir?
  file,       \* the source each byte of the file came from (0: a hole)
  size,       \* the length of the file
  retries,    \* StageState.retries_charged
  report      \* the byte count handed over

planVars == <<stage, total, launched, finished>>
fetchVars == <<task, attempts, claimed, received>>
diskVars == <<there, file, size>>
vars == <<planVars, fetchVars, diskVars, retries, report>>

Busy == {"asking", "writing", "pausing"}

TypeOK ==
  /\ stage \in {"probing", "staging", "fallback", "verified", "failed"}
  /\ total \in Totals \cup {0}
  /\ launched \in 1..MaxPlanChunks
  /\ finished \subseteq Chunks
  /\ task \in [Fetches -> Busy \cup {"idle", "delivered", "failed", "cancelled"}]
  /\ attempts \in [Fetches -> 0..MaxAttempts]
  /\ claimed \in [Fetches -> Totals \cup {0}]
  /\ received \in [Fetches -> Nat]
  /\ there \in BOOLEAN
  /\ file \in [Positions -> Totals \cup {0}]
  /\ {size, retries, report} \subseteq Nat

-------------------------------------------------------------------------------
(* The plan *)

AtMost(m, n) == IF m <= n THEN m ELSE n

ChunkCount(t) == (t + ChunkSize - 1) \div ChunkSize
Offset(i) == i * ChunkSize

\* The bytes chunk i owes when the source has t bytes.
SpanLen(i, t) == AtMost(ChunkSize, t - Offset(i))

\* How many chunks are handed out once those in fin are finished (launch_next, until
\* the window is full).
Window(fin, t) == AtMost(ChunkCount(t), Cardinality(fin) + Concurrency)

\* The chunks the stage waits for.
InFlight == 1..(launched - 1) \ finished

Complete == finished = 0..(ChunkCount(total) - 1)

\* The stage loop's spawning: from here to the end of the window.
Launch(fin, t) ==
  /\ launched' = Window(fin, t)
  /\ LET new == launched..(Window(fin, t) - 1)
     IN /\ task' = [i \in Fetches |-> IF i \in new THEN "asking" ELSE task[i]]
        /\ attempts' = [i \in Fetches |-> IF i \in new THEN 1 ELSE attempts[i]]

-------------------------------------------------------------------------------
(* One fetch *)

\* The stage waits for fetch i: the probe and the open-ended GET are awaited by the
\* stage itself, the other chunks are tasks of their own.
Awaited(i) ==
  \/ i = 0 /\ stage = "probing"
  \/ i = Open /\ stage = "fallback"
  \/ i \in InFlight /\ stage = "staging"

\* A task of its own may still be in the middle of a poll when the stage aborts it.
MayRun(i) == Awaited(i) \/ (i \in InFlight /\ stage = "failed")

\* retry_or_fail
RetryOrFail(i) ==
  task' = [task EXCEPT ![i] = IF attempts[i] < MaxAttempts THEN "pausing" ELSE "failed"]

\* Mutation: the total a chunk's answer declares is not compared with the plan's.
Serves_AnyTotal(i, t) == Offset(i) < t

\* The Content-Range of an answer serves exactly the requested span: of any source for
\* the probe, of the planned one for a chunk.
Serves(i, t) == i = 0 \/ t = total

\* How an attempt opens the staged file: for writing, never to create it.
OpenOptions(i) == IF i = Open THEN {"write", "truncate"} ELSE {"write"}

\* The file is in the temp dir once the open is over; the open fails where it is not.
Opened(i) == there \/ "create" \in OpenOptions(i)

\* A ranged GET is answered with 206 and a Content-Range that fits; the file is opened.
Answer(i) ==
  /\ task[i] = "asking" /\ i # Open /\ MayRun(i)
  /\ \E t \in Totals :
       /\ Serves(i, t)
       /\ claimed' = [claimed EXCEPT ![i] = t]
       /\ received' = [received EXCEPT ![i] = 0]
  /\ IF Opened(i) THEN task' = [task EXCEPT ![i] = "writing"] ELSE RetryOrFail(i)
  /\ there' = Opened(i)
  /\ UNCHANGED <<planVars, attempts, file, size, retries, report>>

\* The open-ended GET is answered with 200: the file is opened and truncated.
AnswerOpen ==
  /\ task[Open] = "asking" /\ Awaited(Open)
  /\ \E t \in Totals : claimed' = [claimed EXCEPT ![Open] = t]
  /\ received' = [received EXCEPT ![Open] = 0]
  /\ IF Opened(Open)
       THEN /\ task' = [task EXCEPT ![Open] = "writing"]
            /\ file' = [p \in Positions |-> 0] /\ size' = 0
       ELSE RetryOrFail(Open) /\ UNCHANGED <<file, size>>
  /\ there' = Opened(Open)
  /\ UNCHANGED <<planVars, attempts, retries, report>>

\* What the current attempt of fetch i may write.
Owed(i) ==
  CASE i = Open -> claimed[i]
    [] i = 0 -> SpanLen(i, claimed[i])
    [] OTHER -> SpanLen(i, total)

\* One more byte of the body reaches the file, wherever the file is by now.
WriteByte(i) ==
  /\ task[i] = "writing" /\ MayRun(i)
  /\ received[i] < Owed(i)
  /\ received' = [received EXCEPT ![i] = @ + 1]
  /\ LET p == (IF i = Open THEN 0 ELSE Offset(i)) + received[i]
     IN /\ file' = IF there THEN [file EXCEPT ![p] = claimed[i]] ELSE file
        /\ size' = IF there /\ size <= p THEN p + 1 ELSE size
  /\ UNCHANGED <<planVars, task, attempts, claimed, there, retries, report>>

\* The body streamed to its end: a ranged one owes its whole span, an open-ended one
\* at least a byte.
BodyEnds(i) ==
  /\ task[i] = "writing" /\ MayRun(i)
  /\ CASE i = Open ->
            task' = [task EXCEPT ![i] = IF received[i] = 0 THEN "failed" ELSE "delivered"]
       [] OTHER -> IF received[i] = Owed(i)
                     THEN task' = [task EXCEPT ![i] = "delivered"]
                     ELSE RetryOrFail(i)
  /\ UNCHANGED <<planVars, attempts, claimed, received, diskVars, retries, report>>

\* What a fresh connection may beat: a broken or silent transport, an overloaded server,
\* a failing write.
Breaks(i) ==
  /\ task[i] \in {"asking", "writing"} /\ MayRun(i)
  /\ RetryOrFail(i)
  /\ UNCHANGED <<planVars, attempts, claimed, received, diskVars, retries, report>>

\* What it cannot: another status, a Content-Range that does not fit, a body that goes
\* on past its span (none of it is written), a plan chunk answered with a full body.
Hopeless(i) ==
  /\ \/ task[i] = "asking"
     \/ task[i] = "writing" /\ i # Open
  /\ MayRun(i)
  /\ task' = [task EXCEPT ![i] = "failed"]
  /\ UNCHANGED <<planVars, attempts, claimed, received, diskVars, retries, report>>

\* The backoff is over: a fresh connection.
Again(i) ==
  /\ task[i] = "pausing" /\ Awaited(i)
  /\ task' = [task EXCEPT ![i] = "asking"]
  /\ attempts' = [attempts EXCEPT ![i] = @ + 1]
  /\ UNCHANGED <<planVars, claimed, received, diskVars, retries, report>>

\* An aborted task stops at its next await.
Cancel(i) ==
  /\ i \in InFlight /\ stage = "failed"
  /\ task[i] \in Busy
  /\ task' = [task EXCEPT ![i] = "cancelled"]
  /\ UNCHANGED <<planVars, attempts, claimed, received, diskVars, retries, report>>

-------------------------------------------------------------------------------
(* The stage *)

\* Mutation: the attempts of the probe are not charged.
FallBack_Forgets ==
  /\ stage = "probing" /\ task[0] = "asking"
  /\ stage' = "fallback"
  /\ task' = [task EXCEPT ![0] = "failed", ![Open] = "asking"]
  /\ attempts' = [attempts EXCEPT ![Open] = 1]
  /\ UNCHANGED <<total, launched, finished, claimed, received, diskVars, retries, report>>

\* The probe is answered with 200: the origin ignores Range, and the source is staged
\* with one open-ended GET.
FallBack ==
  /\ stage = "probing" /\ task[0] = "asking"
  /\ stage' = "fallback"
  /\ task' = [task EXCEPT ![0] = "failed", ![Open] = "asking"]
  /\ attempts' = [attempts EXCEPT ![Open] = 1]
  /\ retries' = retries + (attempts[0] - 1)
  /\ UNCHANGED <<total, launched, finished, claimed, received, diskVars, report>>

\* The probe is delivered: the plan is built and its first window launched, unless the
\* source needs more chunks than a plan holds.
BuildPlan ==
  /\ stage = "probing" /\ task[0] = "delivered"
  /\ retries' = retries + (attempts[0] - 1)
  /\ IF ChunkCount(claimed[0]) > MaxPlanChunks
       THEN stage' = "failed" /\ UNCHANGED <<total, launched, finished, task, attempts>>
       ELSE /\ stage' = "staging"
            /\ total' = claimed[0]
            /\ finished' = {0}
            /\ Launch({0}, claimed[0])
  /\ UNCHANGED <<claimed, received, diskVars, report>>

\* Mutation: the freed place in the window stays empty.
Join_NoRelaunch(i) ==
  /\ stage = "staging" /\ i \in InFlight /\ task[i] = "delivered"
  /\ retries' = retries + (attempts[i] - 1)
  /\ finished' = finished \cup {i}
  /\ UNCHANGED <<stage, total, launched, fetchVars, diskVars, report>>

\* One join over the chunks in flight returns a delivered one: it is charged and
\* accounted, and the freed window launches the next.
Join(i) ==
  /\ stage = "staging" /\ i \in InFlight /\ task[i] = "delivered"
  /\ retries' = retries + (attempts[i] - 1)
  /\ finished' = finished \cup {i}
  /\ Launch(finished \cup {i}, total)
  /\ UNCHANGED <<stage, total, claimed, received, diskVars, report>>

\* A fetch the stage waits for has failed: whatever is in flight is aborted.
AbortAndFail(i) ==
  /\ task[i] = "failed" /\ Awaited(i)
  /\ stage' = "failed"
  /\ UNCHANGED <<total, launched, finished, fetchVars, diskVars, retries, report>>

\* Every chunk is staged: the final byte verification.
Measure ==
  /\ stage = "staging" /\ Complete
  /\ IF size = total
       THEN stage' = "verified" /\ report' = size
       ELSE stage' = "failed" /\ UNCHANGED report
  /\ UNCHANGED <<total, launched, finished, fetchVars, diskVars, retries>>

\* The open-ended body ended cleanly.
Received ==
  /\ stage = "fallback" /\ task[Open] = "delivered"
  /\ stage' = "verified"
  /\ report' = received[Open]
  /\ retries' = retries + (attempts[Open] - 1)
  /\ UNCHANGED <<total, launched, finished, fetchVars, diskVars>>

\* The total stage deadline, or the caller drops the stage: it stops where it awaits.
Deadline ==
  /\ stage \in {"probing", "staging", "fallback"}
  /\ \A i \in {0, Open} : Awaited(i) => task[i] \in Busy
  /\ stage' = "failed"
  /\ UNCHANGED <<total, launched, finished, fetchVars, diskVars, retries, report>>

\* The guard of the failed stage deletes the file, whatever aborted chunks still do with
\* it: the next open of one of them fails, a handle already open writes into nothing.
Discard ==
  /\ stage = "failed" /\ there
  /\ there' = FALSE
  /\ UNCHANGED <<planVars, fetchVars, file, size, retries, report>>

-------------------------------------------------------------------------------
(* Specification *)

Init ==
  /\ stage = "probing" /\ total = 0 /\ launched = 1 /\ finished = {}
  /\ task = [i \in Fetches |-> IF i = 0 THEN "asking" ELSE "idle"]
  /\ attempts = [i \in Fetches |-> IF i = 0 THEN 1 ELSE 0]
  /\ claimed = [i \in Fetches |-> 0]
  /\ received = [i \in Fetches |-> 0]
  /\ there = TRUE /\ file = [p \in Positions |-> 0] /\ size = 0
  /\ retries = 0 /\ report = 0

FetchStep(i) ==
  \/ Answer(i) \/ WriteByte(i) \/ BodyEnds(i) \/ Breaks(i) \/ Hopeless(i) \/ Again(i)
  \/ Cancel(i)

StageStep ==
  \/ FallBack \/ AnswerOpen \/ BuildPlan \/ Measure \/ Received
  \/ \E i \in Fetches : Join(i) \/ AbortAndFail(i)

\* Nothing is left to do.
Over ==
  /\ stage = "verified" \/ (stage = "failed" /\ ~there)
  /\ \A i \in InFlight : task[i] \notin Busy
  /\ UNCHANGED vars

Next == StageStep \/ Deadline \/ Discard \/ Over \/ \E i \in Fetches : FetchStep(i)

Spec == Init /\ [][Next]_vars

\* A ranged attempt ends (it has a deadline of its own), the stage acts on what it
\* joins, and the open-ended GET, which has none, is cut off by the stage's.
Fairness ==
  /\ \A i \in Chunks : WF_vars(FetchStep(i))
  /\ WF_vars(BuildPlan \/ Measure \/ Received \/ \E i \in Fetches : Join(i) \/ AbortAndFail(i))
  /\ WF_vars(stage = "fallback" /\ Deadline)
  /\ WF_vars(Discard)

FairSpec == Spec /\ Fairness

-------------------------------------------------------------------------------
(* Properties *)

\* A staged file that is handed over is the whole of one source, as long as reported,
\* and nobody still writes into it: whatever the chunks' order, retries and half-written
\* attempts were, and although several sources may have answered.  Only the open-ended
\* GET, whose body declares no length, may have ended early.
HandedOverWhole ==
  stage = "verified" =>
    /\ there
    /\ report = size
    /\ \E t \in Totals :
         /\ \A p \in 0..(size - 1) : file[p] = t
         /\ attempts[Open] = 0 => size = t
    /\ \A i \in Fetches : task[i] \notin Busy

\* The stage loop always has something to wait for until its plan is complete: the arm
\* for a stalled loop (NothingInFlight) is never reached, and the window is kept.
NeverStalled ==
  stage = "staging" =>
    /\ Complete \/ InFlight # {}
    /\ Cardinality(InFlight) <= Concurrency

\* chunk_retries: every request beyond the first of each fetch (the fetch and the number
\* of its attempt), the probe's included when the open-ended GET takes over.
RetriesAccounted ==
  stage = "verified" =>
    retries = Cardinality({r \in Fetches \X (2..MaxAttempts) : r[2] <= attempts[r[1]]})

\* Every stage ends, with the file or without: attempts end by their own deadline, the
\* open-ended GET by the stage's.
StageEnds == <>(stage = "verified" \/ (stage = "failed" /\ ~there))
===============================================================================
