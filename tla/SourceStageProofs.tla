--------------------------- MODULE SourceStageProofs ---------------------------
(***************************************************************************)
(* Proofs about SourceStage, for any totals, chunk size, window, number of *)
(* attempts and size of a plan: a file that is handed over is the whole of *)
(* one source, the stage loop always has something to wait for, and every  *)
(* retry is charged once.                                                  *)
(***************************************************************************)
EXTENDS SourceStage, FiniteSetTheorems, TLAPS

Answered(i) == task[i] \in {"writing", "delivered"}

\* The plan is built from the probe's total, its window is full, and what is finished was
\* handed out.
PlanInv ==
  /\ total = 0 => launched = 1 /\ finished = {}
  /\ total # 0 =>
       /\ ChunkCount(total) <= MaxPlanChunks
       /\ 0 \in finished /\ finished \subseteq 0..(launched - 1)
       /\ launched = Window(finished, total)
  /\ stage = "staging" => total # 0
  /\ stage \in {"probing", "fallback"} => total = 0

\* Which fetches have begun, and which attempts are left to those that pause.
TaskInv ==
  /\ \A i \in Chunks : i >= launched => task[i] = "idle"
  /\ \A i \in Fetches : task[i] # "idle" => attempts[i] >= 1
  /\ \A i \in Fetches : task[i] = "pausing" => attempts[i] < MaxAttempts
  /\ \A i \in finished : task[i] = "delivered"
  /\ stage \in {"probing", "staging"} => task[Open] = "idle" /\ attempts[Open] = 0
  /\ stage = "fallback" => task[0] = "failed"

\* What answers: one source for all chunks of a plan, and no more of it than is owed.
AnswerInv ==
  /\ \A i \in Fetches : Answered(i) => claimed[i] \in Totals /\ received[i] <= Owed(i)
  /\ \A i \in Chunks : task[i] = "delivered" => received[i] = Owed(i)
  /\ total # 0 => \A i \in Chunks : i = 0 \/ Answered(i) => claimed[i] = total

\* Where the bytes are: every chunk's behind its offset, the open-ended GET's from the
\* start of a file that has nothing else.
BytesInv ==
  /\ stage # "failed" => there
  /\ stage \in {"probing", "staging"} =>
       \A i \in Chunks : Answered(i) =>
         \A k \in 0..(received[i] - 1) :
           file[Offset(i) + k] = claimed[i] /\ Offset(i) + k < size
  /\ stage = "fallback" /\ Answered(Open) =>
       /\ size = received[Open]
       /\ \A p \in 0..(size - 1) : file[p] = claimed[Open]

StageInv == TypeOK /\ PlanInv /\ TaskInv /\ AnswerInv /\ BytesInv /\ HandedOverWhole

-------------------------------------------------------------------------------
(* The arithmetic of a plan *)

\* A chunk ends where the next one begins.
LEMMA OffsetsAdvance ==
  ASSUME NEW i \in Nat, NEW j \in Nat, i < j
  PROVE  Offset(i) \in Nat /\ Offset(i) + ChunkSize <= Offset(j)
PROOF
  <1>1. (i + 1) * ChunkSize <= j * ChunkSize
    BY StageAssumption
  <1>2. (i + 1) * ChunkSize = i * ChunkSize + ChunkSize
    BY StageAssumption
  <1> QED
    BY <1>1, <1>2, StageAssumption DEF Offset

LEMMA OffsetType == ASSUME NEW i \in Nat PROVE Offset(i) \in Nat
BY StageAssumption DEF Offset

\* Rounding down to whole chunks.
LEMMA WholeChunks ==
  ASSUME NEW n \in Nat
  PROVE  /\ n \div ChunkSize \in Nat
         /\ Offset(n \div ChunkSize) <= n
         /\ n < Offset(n \div ChunkSize) + ChunkSize
BY StageAssumption DEF Offset

\* Spans of different chunks do not meet.
LEMMA SpansDisjoint ==
  ASSUME NEW i \in Nat, NEW j \in Nat, i # j,
         NEW k \in 0..(ChunkSize - 1), NEW m \in 0..(ChunkSize - 1)
  PROVE  Offset(i) + k # Offset(j) + m
PROOF
  <1>1. CASE i < j
    BY <1>1, OffsetsAdvance, OffsetType, StageAssumption
  <1>2. CASE j < i
    BY <1>2, OffsetsAdvance, OffsetType, StageAssumption
  <1> QED
    BY <1>1, <1>2

\* Every planned chunk owes at least a byte, and none beyond the source's end.
LEMMA SpanFits ==
  ASSUME NEW t \in Nat \ {0}, NEW i \in Nat, i < ChunkCount(t)
  PROVE  SpanLen(i, t) \in 1..ChunkSize /\ Offset(i) + SpanLen(i, t) <= t
PROOF
  <1>1. ChunkCount(t) \in Nat /\ Offset(ChunkCount(t)) <= t + ChunkSize - 1
    BY WholeChunks, StageAssumption DEF ChunkCount
  <1>2. Offset(i) \in Nat /\ Offset(i) + ChunkSize <= Offset(ChunkCount(t))
    BY <1>1, OffsetsAdvance
  <1>3. Offset(i) < t
    BY <1>1, <1>2, OffsetType, StageAssumption
  <1> QED
    BY <1>2, <1>3, StageAssumption DEF SpanLen, AtMost

LEMMA CountType ==
  ASSUME NEW t \in Nat \ {0} PROVE ChunkCount(t) \in Nat \ {0}
PROOF
  <1>1. /\ ChunkCount(t) \in Nat
        /\ t + ChunkSize - 1 < Offset(ChunkCount(t)) + ChunkSize
    BY WholeChunks, StageAssumption DEF ChunkCount
  <1>2. Offset(0) = 0
    BY StageAssumption DEF Offset
  <1> QED
    BY <1>1, <1>2, StageAssumption

\* Together the spans leave no byte out.
LEMMA SpansTile ==
  ASSUME NEW t \in Nat \ {0}, NEW p \in 0..(t - 1)
  PROVE  \E i \in 0..(ChunkCount(t) - 1) : \E k \in 0..(SpanLen(i, t) - 1) : p = Offset(i) + k
PROOF
  <1> DEFINE i == p \div ChunkSize
  <1>1. i \in Nat /\ Offset(i) <= p /\ p < Offset(i) + ChunkSize /\ Offset(i) \in Nat
    BY WholeChunks, OffsetType
  <1>2. ChunkCount(t) \in Nat /\ t + ChunkSize - 1 < Offset(ChunkCount(t)) + ChunkSize
    BY WholeChunks, StageAssumption DEF ChunkCount
  <1>3. i < ChunkCount(t)
    <2>1. CASE i = ChunkCount(t)
      BY <2>1, <1>1, <1>2, StageAssumption
    <2>2. CASE ChunkCount(t) < i
      BY <2>2, <1>1, <1>2, OffsetsAdvance, OffsetType, StageAssumption
    <2> QED
      BY <1>1, <1>2, <2>1, <2>2
  <1>4. p - Offset(i) \in 0..(SpanLen(i, t) - 1)
    BY <1>1, StageAssumption DEF SpanLen, AtMost
  <1> HIDE DEF i
  <1> QED
    BY <1>1, <1>2, <1>3, <1>4

-------------------------------------------------------------------------------
(* What the invariant says of one fetch *)

LEMMA Numbers ==
  /\ Chunks \subseteq Nat /\ Chunks \subseteq Fetches /\ 0 \in Chunks
  /\ Open \in Fetches /\ Open \notin Chunks /\ Open # 0
  /\ \A i \in Fetches : i \in Chunks \/ i = Open
  /\ Totals \subseteq Nat \ {0}
BY StageAssumption DEF Chunks, Fetches, Open

\* What an answered chunk owes lies within the source that answered.
LEMMA OwedFits ==
  ASSUME StageInv, NEW i \in Chunks, Answered(i)
  PROVE  /\ claimed[i] \in Totals
         /\ Owed(i) \in 1..ChunkSize
         /\ Offset(i) + Owed(i) <= claimed[i]
PROOF
  <1>1. claimed[i] \in Nat \ {0} /\ claimed[i] \in Totals /\ i \in Nat /\ i # Open
    BY Numbers DEF StageInv, AnswerInv
  <1>2. CASE i = 0
    <2>1. Owed(i) = SpanLen(i, claimed[i])
      BY <1>1, <1>2 DEF Owed
    <2> QED
      BY <1>1, <1>2, <2>1, SpanFits, CountType
  <1>3. CASE i # 0
    <2>1. i < launched
      BY <1>1 DEF StageInv, TaskInv, Answered, TypeOK
    <2>2. total # 0
      BY <1>1, <1>3, <2>1 DEF StageInv, PlanInv
    <2>3. total = claimed[i] /\ Owed(i) = SpanLen(i, claimed[i])
      BY <1>1, <1>3, <2>2 DEF StageInv, AnswerInv, Owed
    <2>4. launched <= ChunkCount(total) /\ ChunkCount(total) \in Nat
      <3>1. ChunkCount(total) \in Nat
        BY <1>1, <2>3, CountType
      <3>2. launched = Window(finished, total)
        BY <2>2 DEF StageInv, PlanInv
      <3> QED
        BY <3>1, <3>2 DEF Window, AtMost, StageInv, TypeOK
    <2> QED
      BY <1>1, <2>1, <2>3, <2>4, SpanFits DEF StageInv, TypeOK
  <1> QED
    BY <1>2, <1>3

\* A fetch that runs has not been joined; the stage is not over for it.
LEMMA Running ==
  ASSUME StageInv, NEW i \in Fetches, MayRun(i)
  PROVE  /\ stage # "verified"
         /\ i = Open => stage = "fallback"
         /\ stage = "fallback" => i = Open
         /\ i = 0 => total = 0
         /\ i \in Chunks => i < launched
         /\ i # Open /\ i # 0 => total # 0
PROOF
  <1>1. launched \in 1..MaxPlanChunks
    BY DEF StageInv, TypeOK
  <1>2. i \in InFlight => i \in Chunks /\ i # 0 /\ i < launched /\ i # Open
    BY <1>1, Numbers DEF InFlight, Chunks, Open
  <1> QED
    BY <1>1, <1>2, Numbers DEF MayRun, Awaited, StageInv, PlanInv

\* A fetch that stops, pauses or starts anew leaves the rest as it is.
LEMMA TaskMoves ==
  ASSUME StageInv, NEW i \in Fetches, task[i] \in Busy, stage # "verified",
         NEW s \in {"asking", "pausing", "failed", "cancelled"},
         task' = [task EXCEPT ![i] = s],
         attempts' \in [Fetches -> 0..MaxAttempts], attempts'[i] >= 1,
         \A j \in Fetches : j # i => attempts'[j] = attempts[j],
         s = "pausing" => attempts'[i] < MaxAttempts,
         claimed' \in [Fetches -> Totals \cup {0}], received' \in [Fetches -> Nat],
         \A j \in Fetches : j # i => claimed'[j] = claimed[j] /\ received'[j] = received[j],
         i = 0 => total = 0 \/ claimed'[i] = claimed[i],
         UNCHANGED <<planVars, diskVars, retries, report>>
  PROVE  StageInv'
PROOF
  <1>1. TypeOK'
    BY DEF StageInv, TypeOK, Busy, planVars, diskVars
  <1>2. PlanInv'
    BY DEF StageInv, PlanInv, planVars, Window
  <1>3. TaskInv'
    <2>1. task' \in [Fetches -> Busy \cup {"idle", "delivered", "failed", "cancelled"}]
          /\ \A j \in Fetches : j # i => task'[j] = task[j]
      BY DEF StageInv, TypeOK, Busy
    <2>2. task'[i] = s /\ task[i] \notin {"idle", "delivered", "failed"}
      BY DEF StageInv, TypeOK, Busy
    <2>3. stage \in {"probing", "staging"} => i # Open
      BY <2>2 DEF StageInv, TaskInv
    <2>4. i \notin finished /\ (i \in Chunks => ~(i >= launched))
      BY <2>2 DEF StageInv, TaskInv
    <2>5. finished \subseteq Fetches
      BY Numbers DEF StageInv, TypeOK
    <2> QED
      BY <2>1, <2>2, <2>3, <2>4, <2>5, Numbers DEF StageInv, TaskInv, planVars
  <1>4. \A j \in Fetches : Answered(j)' =>
          /\ Answered(j) /\ j # i /\ task'[j] = task[j]
          /\ claimed'[j] = claimed[j] /\ received'[j] = received[j] /\ Owed(j)' = Owed(j)
    BY DEF StageInv, TypeOK, Answered, Owed, SpanLen, AtMost, Offset, planVars
  <1>5. AnswerInv'
    <2>1. \A j \in Fetches : Answered(j)' => (claimed[j] \in Totals /\ received[j] <= Owed(j))'
      BY <1>4 DEF StageInv, AnswerInv
    <2>2. \A j \in Chunks : (task[j] = "delivered")' => (received[j] = Owed(j))'
      BY <1>4, Numbers DEF StageInv, AnswerInv, Answered
    <2>3. total' # 0 => \A j \in Chunks : j = 0 \/ Answered(j)' => claimed'[j] = total'
      BY <1>4, Numbers DEF StageInv, AnswerInv, planVars
    <2> QED
      BY <2>1, <2>2, <2>3 DEF AnswerInv
  <1>6. BytesInv'
    BY <1>4, Numbers DEF StageInv, BytesInv, planVars, diskVars, Offset
  <1>7. HandedOverWhole'
    BY DEF HandedOverWhole, planVars
  <1> QED
    BY <1>1, <1>2, <1>3, <1>5, <1>6, <1>7 DEF StageInv

LEMMA RetryMoves ==
  ASSUME StageInv, NEW i \in Fetches, task[i] \in {"asking", "writing"}, MayRun(i), RetryOrFail(i),
         claimed' \in [Fetches -> Totals \cup {0}], received' \in [Fetches -> Nat],
         \A j \in Fetches : j # i => claimed'[j] = claimed[j] /\ received'[j] = received[j],
         UNCHANGED <<planVars, attempts, diskVars, retries, report>>
  PROVE  StageInv'
PROOF
  <1>1. PICK s \in {"pausing", "failed"} :
          /\ task' = [task EXCEPT ![i] = s]
          /\ s = "pausing" => attempts[i] < MaxAttempts
    BY DEF RetryOrFail
  <1>2. stage # "verified" /\ (i = 0 => total = 0)
    BY Running
  <1>3. attempts \in [Fetches -> 0..MaxAttempts] /\ attempts[i] >= 1 /\ task[i] \in Busy
    BY DEF StageInv, TypeOK, TaskInv, Busy
  <1> QED
    BY <1>1, <1>2, <1>3, TaskMoves

-------------------------------------------------------------------------------
(* The steps of a fetch *)

LEMMA BreaksKeeps == \A i \in Fetches : StageInv /\ Breaks(i) => StageInv'
PROOF
  <1> SUFFICES ASSUME NEW i \in Fetches, StageInv, Breaks(i) PROVE StageInv'
    OBVIOUS
  <1>1. claimed' \in [Fetches -> Totals \cup {0}] /\ received' \in [Fetches -> Nat]
    BY DEF Breaks, StageInv, TypeOK
  <1> QED
    BY <1>1, RetryMoves DEF Breaks

LEMMA HopelessKeeps ==
  \A i \in Fetches : StageInv /\ (Hopeless(i) \/ Cancel(i)) => StageInv'
PROOF
  <1> SUFFICES ASSUME NEW i \in Fetches, StageInv, Hopeless(i) \/ Cancel(i) PROVE StageInv'
    OBVIOUS
  <1>1. PICK s \in {"failed", "cancelled"} : task' = [task EXCEPT ![i] = s]
    BY DEF Hopeless, Cancel
  <1>2. /\ task[i] \in Busy /\ MayRun(i)
        /\ UNCHANGED <<planVars, attempts, claimed, received, diskVars, retries, report>>
    BY DEF Hopeless, Cancel, Busy, MayRun
  <1>3. /\ claimed \in [Fetches -> Totals \cup {0}] /\ received \in [Fetches -> Nat]
        /\ attempts \in [Fetches -> 0..MaxAttempts] /\ attempts[i] >= 1
    BY <1>2 DEF StageInv, TypeOK, TaskInv, Busy
  <1> QED
    BY <1>1, <1>2, <1>3, Running, TaskMoves

LEMMA AgainKeeps == \A i \in Fetches : StageInv /\ Again(i) => StageInv'
PROOF
  <1> SUFFICES ASSUME NEW i \in Fetches, StageInv, Again(i) PROVE StageInv'
    OBVIOUS
  <1>1. /\ task[i] = "pausing" /\ task[i] \in Busy /\ MayRun(i)
        /\ task' = [task EXCEPT ![i] = "asking"]
        /\ attempts' = [attempts EXCEPT ![i] = @ + 1]
        /\ UNCHANGED <<planVars, claimed, received, diskVars, retries, report>>
    BY DEF Again, Busy, MayRun
  <1>2. /\ claimed \in [Fetches -> Totals \cup {0}] /\ received \in [Fetches -> Nat]
        /\ attempts \in [Fetches -> 0..MaxAttempts] /\ attempts[i] < MaxAttempts
        /\ MaxAttempts \in Nat
    BY <1>1, StageAssumption DEF StageInv, TypeOK, TaskInv
  <1>3. /\ attempts' \in [Fetches -> 0..MaxAttempts] /\ attempts'[i] >= 1
        /\ \A j \in Fetches : j # i => attempts'[j] = attempts[j]
    BY <1>1, <1>2
  <1> QED
    BY <1>1, <1>2, <1>3, Running, TaskMoves

\* No attempt creates the file it opens.
LEMMA OpensWhatExists == \A i \in Fetches : there \in BOOLEAN => Opened(i) = there
BY DEF Opened, OpenOptions

\* A ranged answer: its body starts at the first byte of the span.
LEMMA AnswerKeeps == \A i \in Fetches : StageInv /\ Answer(i) => StageInv'
PROOF
  <1> SUFFICES ASSUME NEW i \in Fetches, StageInv, Answer(i) PROVE StageInv'
    OBVIOUS
  <1>1. PICK t \in Totals :
          /\ Serves(i, t)
          /\ claimed' = [claimed EXCEPT ![i] = t] /\ received' = [received EXCEPT ![i] = 0]
    BY DEF Answer
  <1>2. /\ task[i] = "asking" /\ i # Open /\ i \in Chunks /\ MayRun(i)
        /\ Opened(i) = there
        /\ UNCHANGED <<planVars, attempts, diskVars, retries, report>>
    BY Numbers, OpensWhatExists DEF Answer, diskVars, StageInv, TypeOK
  <1>3. /\ claimed' \in [Fetches -> Totals \cup {0}] /\ received' \in [Fetches -> Nat]
        /\ \A j \in Fetches : j # i => claimed'[j] = claimed[j] /\ received'[j] = received[j]
        /\ claimed'[i] = t /\ received'[i] = 0
    BY <1>1 DEF StageInv, TypeOK
  <1>4. CASE ~there
    <2>1. RetryOrFail(i)
      BY <1>2, <1>4 DEF Answer
    <2> QED
      BY <1>2, <1>3, <2>1, RetryMoves
  <1>5. CASE there
    <2>1. task' = [task EXCEPT ![i] = "writing"]
      BY <1>2, <1>5 DEF Answer
    <2>2. /\ task'[i] = "writing" /\ \A j \in Fetches : j # i => task'[j] = task[j]
          /\ task' \in [Fetches -> Busy \cup {"idle", "delivered", "failed", "cancelled"}]
      BY <2>1 DEF StageInv, TypeOK, Busy
    <2>3. i < launched /\ stage # "verified" /\ (i # 0 => total # 0) /\ (i = 0 => total = 0)
          /\ i \notin finished
      BY <1>2, Running DEF StageInv, TaskInv
    <2>4. TypeOK'
      BY <1>2, <1>3, <2>2 DEF StageInv, TypeOK, planVars, diskVars
    <2>5. PlanInv'
      BY <1>2 DEF StageInv, PlanInv, planVars, Window
    <2>6. TaskInv'
      <3>1. launched \in Nat /\ finished \subseteq Fetches /\ i \in Nat
        BY <1>2, Numbers, StageAssumption DEF StageInv, TypeOK
      <3>2. stage # "fallback"
        BY <1>2, Running
      <3> QED
        BY <1>2, <2>2, <2>3, <3>1, <3>2, Numbers DEF StageInv, TaskInv, planVars
    <2>7. \A j \in Fetches : j # i =>
            /\ Answered(j)' = Answered(j) /\ Owed(j)' = Owed(j) /\ task'[j] = task[j]
            /\ claimed'[j] = claimed[j] /\ received'[j] = received[j]
      BY <1>2, <1>3, <2>2 DEF Answered, Owed, SpanLen, AtMost, Offset, planVars
    <2>8. t = IF i = 0 THEN t ELSE total
      BY <1>1, <1>3 DEF Serves
    <2>9. AnswerInv'
      <3>1. Owed(i)' = SpanLen(i, t)
        BY <1>2, <1>3, <2>8 DEF Owed, planVars, SpanLen, AtMost, Offset
      <3>2. i < ChunkCount(t)
        <4>1. t \in Nat \ {0} /\ ChunkCount(t) \in Nat \ {0} /\ i \in Nat
          BY <1>2, Numbers, CountType
        <4>2. CASE i = 0
          BY <4>1, <4>2
        <4>3. CASE i # 0
          BY <1>2, <2>3, <2>8, <4>1, <4>3 DEF StageInv, PlanInv, Window, AtMost, TypeOK
        <4> QED
          BY <4>2, <4>3
      <3>3. Owed(i)' \in Nat
        BY <1>2, <3>1, <3>2, Numbers, SpanFits
      <3>4. \A j \in Fetches : Answered(j)' => (claimed[j] \in Totals /\ received[j] <= Owed(j))'
        BY <1>3, <2>7, <3>3 DEF StageInv, AnswerInv
      <3>5. \A j \in Chunks : (task[j] = "delivered")' => (received[j] = Owed(j))'
        BY <2>2, <2>7, Numbers DEF StageInv, AnswerInv
      <3>6. total' # 0 => \A j \in Chunks : j = 0 \/ Answered(j)' => claimed'[j] = total'
        BY <1>2, <1>3, <2>3, <2>7, <2>8, Numbers DEF StageInv, AnswerInv, planVars
      <3> QED
        BY <3>4, <3>5, <3>6 DEF AnswerInv
    <2>10. BytesInv'
      BY <1>2, <1>3, <2>3, <2>7, Running, Numbers
      DEF StageInv, BytesInv, planVars, diskVars, Offset
    <2>11. HandedOverWhole'
      BY <1>2, <2>3 DEF HandedOverWhole, planVars
    <2> QED
      BY <2>4, <2>5, <2>6, <2>9, <2>10, <2>11 DEF StageInv
  <1> QED
    BY <1>4, <1>5

\* The next byte of a chunk lands on no other chunk's.
LEMMA WriteByteKeeps == \A i \in Fetches : StageInv /\ WriteByte(i) => StageInv'
PROOF
  <1> SUFFICES ASSUME NEW i \in Fetches, StageInv, WriteByte(i) PROVE StageInv'
    OBVIOUS
  <1> DEFINE p == (IF i = Open THEN 0 ELSE Offset(i)) + received[i]
  <1>1. /\ task[i] = "writing" /\ MayRun(i) /\ received[i] < Owed(i)
        /\ received' = [received EXCEPT ![i] = @ + 1]
        /\ file' = IF there THEN [file EXCEPT ![p] = claimed[i]] ELSE file
        /\ size' = IF there /\ size <= p THEN p + 1 ELSE size
        /\ UNCHANGED <<planVars, task, attempts, claimed, there, retries, report>>
    BY DEF WriteByte
  <1>2. /\ Answered(i) /\ claimed[i] \in Totals /\ claimed[i] \in Nat \ {0}
        /\ received[i] \in Nat /\ size \in Nat
    BY <1>1, Numbers DEF Answered, StageInv, AnswerInv, TypeOK
  <1>3. Owed(i) \in Nat /\ p \in 0..(claimed[i] - 1)
    <2>1. CASE i = Open
      <3>1. Owed(i) = claimed[i] /\ p = received[i]
        BY <1>2, <2>1, Numbers DEF Owed
      <3> HIDE DEF p
      <3> QED
        BY <1>1, <1>2, <3>1
    <2>2. CASE i \in Chunks
      BY <1>1, <1>2, <2>2, OwedFits, OffsetType, Numbers
    <2> QED
      BY <2>1, <2>2, Numbers
  <1>4. p \in Positions /\ p \in Nat
    BY <1>2, <1>3 DEF Positions
  <1>5. /\ received' \in [Fetches -> Nat] /\ received'[i] = received[i] + 1
        /\ \A j \in Fetches : j # i => received'[j] = received[j]
    BY <1>1, <1>2 DEF StageInv, TypeOK
  <1>6. there => /\ file' \in [Positions -> Totals \cup {0}] /\ file'[p] = claimed[i]
                 /\ \A q \in Positions : q # p => file'[q] = file[q]
    BY <1>1, <1>2, <1>4 DEF StageInv, TypeOK
  <1>7. size' \in Nat /\ size <= size' /\ (there => p < size')
    BY <1>1, <1>2, <1>4
  <1> HIDE DEF p
  <1>8. TypeOK'
    BY <1>1, <1>5, <1>6, <1>7 DEF StageInv, TypeOK, planVars
  <1>9. PlanInv' /\ TaskInv'
    BY <1>1 DEF StageInv, PlanInv, TaskInv, planVars, Window
  <1>10. \A j \in Fetches : Answered(j)' = Answered(j) /\ Owed(j)' = Owed(j)
    BY <1>1 DEF Answered, Owed, SpanLen, AtMost, Offset, planVars
  <1>11. AnswerInv'
    <2>1. \A j \in Fetches : Answered(j)' => (claimed[j] \in Totals /\ received[j] <= Owed(j))'
      BY <1>1, <1>2, <1>3, <1>5, <1>10 DEF StageInv, AnswerInv
    <2>2. \A j \in Chunks : (task[j] = "delivered")' => (received[j] = Owed(j))'
      BY <1>1, <1>5, <1>10, Numbers DEF StageInv, AnswerInv
    <2>3. total' # 0 => \A j \in Chunks : j = 0 \/ Answered(j)' => claimed'[j] = total'
      BY <1>1, <1>10, Numbers DEF StageInv, AnswerInv, planVars
    <2> QED
      BY <2>1, <2>2, <2>3 DEF AnswerInv
  <1>12. BytesInv'
    <2>1. CASE stage = "failed"
      BY <1>1, <2>1 DEF BytesInv, planVars
    <2>2. CASE stage = "fallback"
      <3>1. i = Open /\ there
        BY <1>1, <2>2, Running DEF StageInv, BytesInv
      <3>2. p = received[i]
        BY <1>2, <3>1 DEF p
      <3>3. size = p /\ \A q \in 0..(size - 1) : q \in Positions /\ q # p /\ file[q] = claimed[i]
        BY <1>2, <1>3, <2>2, <3>1, <3>2 DEF StageInv, BytesInv, Positions
      <3>4. size' = p + 1
        BY <1>1, <1>4, <3>1, <3>3 DEF p
      <3> QED
        BY <1>1, <1>4, <1>5, <1>6, <2>2, <3>1, <3>2, <3>3, <3>4 DEF BytesInv, planVars
    <2>3. CASE stage \in {"probing", "staging"}
      <3>1. i \in Chunks /\ there /\ i # Open
        BY <1>1, <2>3, Running, Numbers DEF StageInv, BytesInv
      <3>2. p = Offset(i) + received[i]
        BY <3>1 DEF p
      <3>3. ASSUME NEW j \in Chunks, Answered(j)', NEW k \in 0..(received'[j] - 1)
            PROVE  file'[Offset(j) + k] = claimed'[j] /\ Offset(j) + k < size'
        <4>1. CASE j = i /\ k = received[i]
          BY <1>1, <1>6, <1>7, <3>1, <3>2, <4>1
        <4>2. CASE ~(j = i /\ k = received[i])
          <5>1. Answered(j) /\ j \in Nat /\ i \in Nat /\ j \in Fetches
            BY <1>10, <3>1, <3>3, Numbers
          <5>2. k \in 0..(received[j] - 1)
            BY <1>2, <1>5, <4>2, <5>1 DEF StageInv, TypeOK
          <5>3. received[j] <= Owed(j) /\ Owed(j) \in 1..ChunkSize /\ received[j] \in Nat
                /\ Offset(j) + Owed(j) <= claimed[j] /\ claimed[j] \in Totals
                /\ Offset(j) \in Nat /\ claimed[j] \in Nat
            BY <5>1, OwedFits, OffsetType, Numbers DEF StageInv, AnswerInv, TypeOK
          <5>4. Offset(j) + k # p
            <6>1. CASE j = i
              BY <1>2, <3>2, <4>2, <5>3, <5>2, <6>1
            <6>2. CASE j # i
              <7>1. received[i] \in 0..(ChunkSize - 1) /\ k \in 0..(ChunkSize - 1)
                BY <1>1, <1>2, <3>1, <5>2, <5>3, OwedFits, StageAssumption
              <7> QED
                BY <3>2, <5>1, <6>2, <7>1, SpansDisjoint
            <6> QED
              BY <6>1, <6>2
          <5>5. Offset(j) + k \in Positions /\ Offset(j) + k \in Nat
            <6>1. Offset(j) + k \in 0..(claimed[j] - 1)
              BY <5>2, <5>3
            <6> QED
              BY <5>3, <6>1 DEF Positions
          <5>6. file[Offset(j) + k] = claimed[j] /\ Offset(j) + k < size
            BY <2>3, <5>1, <5>2 DEF StageInv, BytesInv
          <5> QED
            BY <1>1, <1>2, <1>6, <1>7, <3>1, <5>4, <5>5, <5>6
        <4> QED
          BY <4>1, <4>2
      <3> QED
        BY <1>1, <2>3, <3>1, <3>3 DEF BytesInv, planVars, Offset
    <2> QED
      BY <1>1, <2>1, <2>2, <2>3, Running DEF StageInv, TypeOK
  <1>13. HandedOverWhole'
    BY <1>1, Running DEF HandedOverWhole, planVars
  <1> QED
    BY <1>8, <1>9, <1>11, <1>12, <1>13 DEF StageInv

LEMMA BodyEndsKeeps == \A i \in Fetches : StageInv /\ BodyEnds(i) => StageInv'
PROOF
  <1> SUFFICES ASSUME NEW i \in Fetches, StageInv, BodyEnds(i) PROVE StageInv'
    OBVIOUS
  <1>1. /\ task[i] = "writing" /\ MayRun(i) /\ task[i] \in Busy
        /\ UNCHANGED <<planVars, attempts, claimed, received, diskVars, retries, report>>
    BY DEF BodyEnds, Busy
  <1>2. /\ claimed \in [Fetches -> Totals \cup {0}] /\ received \in [Fetches -> Nat]
        /\ attempts \in [Fetches -> 0..MaxAttempts] /\ attempts[i] >= 1
    BY <1>1 DEF StageInv, TypeOK, TaskInv
  <1>3. CASE RetryOrFail(i)
    BY <1>1, <1>2, <1>3, RetryMoves
  <1>4. CASE task' = [task EXCEPT ![i] = "failed"]
    BY <1>1, <1>2, <1>4, Running, TaskMoves
  <1>5. CASE task' = [task EXCEPT ![i] = "delivered"] /\ (i # Open => received[i] = Owed(i))
    <2>1. /\ task'[i] = "delivered" /\ \A j \in Fetches : j # i => task'[j] = task[j]
          /\ task' \in [Fetches -> Busy \cup {"idle", "delivered", "failed", "cancelled"}]
      BY <1>5 DEF StageInv, TypeOK
    <2>2. TypeOK' /\ PlanInv'
      BY <1>1, <2>1 DEF StageInv, TypeOK, PlanInv, planVars, diskVars, Window
    <2>3. TaskInv'
      <3>1. finished \subseteq Fetches /\ stage # "verified" /\ (i = Open => stage = "fallback")
            /\ (stage = "fallback" => i = Open) /\ (i \in Chunks => ~(i >= launched))
        BY <1>1, Running, Numbers DEF StageInv, TypeOK, TaskInv
      <3> QED
        BY <1>1, <1>2, <2>1, <3>1, Numbers DEF StageInv, TaskInv, planVars
    <2>4. \A j \in Fetches : Answered(j)' = Answered(j) /\ Owed(j)' = Owed(j)
      BY <1>1, <2>1 DEF Answered, Owed, SpanLen, AtMost, Offset, planVars
    <2>5. AnswerInv'
      <3>1. \A j \in Fetches : Answered(j)' => (claimed[j] \in Totals /\ received[j] <= Owed(j))'
        BY <1>1, <2>4 DEF StageInv, AnswerInv
      <3>2. \A j \in Chunks : (task[j] = "delivered")' => (received[j] = Owed(j))'
        BY <1>1, <1>5, <2>1, <2>4, Numbers DEF StageInv, AnswerInv
      <3>3. total' # 0 => \A j \in Chunks : j = 0 \/ Answered(j)' => claimed'[j] = total'
        BY <1>1, <2>4, Numbers DEF StageInv, AnswerInv, planVars
      <3> QED
        BY <3>1, <3>2, <3>3 DEF AnswerInv
    <2>6. BytesInv'
      BY <1>1, <2>4, Numbers DEF StageInv, BytesInv, planVars, diskVars, Offset
    <2>7. HandedOverWhole'
      BY <1>1, Running DEF HandedOverWhole, planVars
    <2> QED
      BY <2>2, <2>3, <2>5, <2>6, <2>7 DEF StageInv
  <1> QED
    BY <1>3, <1>4, <1>5 DEF BodyEnds

\* The open-ended GET starts over on a file that it empties.
LEMMA AnswerOpenKeeps == StageInv /\ AnswerOpen => StageInv'
PROOF
  <1> SUFFICES ASSUME StageInv, AnswerOpen PROVE StageInv'
    OBVIOUS
  <1>1. PICK t \in Totals : claimed' = [claimed EXCEPT ![Open] = t]
    BY DEF AnswerOpen
  <1>2. /\ task[Open] = "asking" /\ MayRun(Open)
        /\ received' = [received EXCEPT ![Open] = 0]
        /\ task' = [task EXCEPT ![Open] = "writing"]
        /\ file' = [p \in Positions |-> 0] /\ size' = 0
        /\ UNCHANGED <<planVars, attempts, there, retries, report>>
    <2>1. Awaited(Open) /\ Open \in Fetches /\ Open \notin Chunks
      BY Numbers DEF AnswerOpen
    <2>2. stage = "fallback"
      BY <2>1, Running DEF MayRun
    <2>3. Opened(Open) = there /\ there
      BY <2>1, <2>2, OpensWhatExists DEF StageInv, BytesInv, TypeOK
    <2> QED
      BY <2>1, <2>3 DEF AnswerOpen, MayRun
  <1>3. stage = "fallback" /\ total = 0 /\ finished = {} /\ finished \subseteq Fetches
    BY <1>2, Running, Numbers DEF StageInv, PlanInv
  <1>4. /\ task'[Open] = "writing" /\ received'[Open] = 0 /\ claimed'[Open] = t
        /\ \A j \in Chunks : /\ task'[j] = task[j] /\ received'[j] = received[j]
                              /\ claimed'[j] = claimed[j]
    BY <1>1, <1>2, Numbers DEF StageInv, TypeOK
  <1>5. TypeOK'
    BY <1>1, <1>2, Numbers DEF StageInv, TypeOK, planVars, Busy
  <1>6. PlanInv' /\ TaskInv'
    BY <1>2, <1>3, <1>4, Numbers DEF StageInv, PlanInv, TaskInv, planVars, Window
  <1>7. /\ Owed(Open)' = t /\ t \in Nat
        /\ \A j \in Chunks : Answered(j)' = Answered(j) /\ Owed(j)' = Owed(j)
    BY <1>2, <1>4, Numbers DEF Answered, Owed, SpanLen, AtMost, Offset, planVars
  <1>8. AnswerInv'
    <2>1. \A j \in Fetches : Answered(j)' => (claimed[j] \in Totals /\ received[j] <= Owed(j))'
      BY <1>4, <1>7, Numbers DEF StageInv, AnswerInv
    <2>2. \A j \in Chunks : (task[j] = "delivered")' => (received[j] = Owed(j))'
      BY <1>4, <1>7, Numbers DEF StageInv, AnswerInv
    <2> QED
      BY <1>2, <1>3, <2>1, <2>2 DEF AnswerInv, planVars
  <1>9. BytesInv'
    BY <1>2, <1>3, <1>4 DEF StageInv, BytesInv, planVars
  <1>10. HandedOverWhole'
    BY <1>2, <1>3 DEF HandedOverWhole, planVars
  <1> QED
    BY <1>5, <1>6, <1>8, <1>9, <1>10 DEF StageInv

LEMMA FetchKeeps == \A i \in Fetches : StageInv /\ FetchStep(i) => StageInv'
BY AnswerKeeps, WriteByteKeeps, BodyEndsKeeps, BreaksKeeps, HopelessKeeps, AgainKeeps DEF FetchStep

-------------------------------------------------------------------------------
(* The steps of the stage *)

\* The window moves on: what is launched was idle, and belongs to the plan.
LEMMA LaunchKeeps ==
  ASSUME StageInv, NEW fin \in SUBSET (0..(launched - 1)), NEW t \in Totals,
         0 \in fin, \A i \in fin : task[i] = "delivered",
         ChunkCount(t) <= MaxPlanChunks,
         total = 0 \/ total = t, launched <= Window(fin, t),
         Launch(fin, t), total' = t, finished' = fin, stage' = "staging",
         stage \in {"probing", "staging"}, claimed[0] = t, retries' \in Nat,
         UNCHANGED <<claimed, received, diskVars, report>>
  PROVE  StageInv'
PROOF
  <1> DEFINE new == launched..(Window(fin, t) - 1)
  <1>1. /\ launched' = Window(fin, t)
        /\ task' = [i \in Fetches |-> IF i \in new THEN "asking" ELSE task[i]]
        /\ attempts' = [i \in Fetches |-> IF i \in new THEN 1 ELSE attempts[i]]
    BY DEF Launch
  <1>2. t \in Nat \ {0} /\ ChunkCount(t) \in Nat \ {0} /\ MaxPlanChunks \in Nat
    BY Numbers, CountType, StageAssumption
  <1>3. launched \in 1..MaxPlanChunks
    BY DEF StageInv, TypeOK
  <1>4. fin \subseteq Chunks /\ Cardinality(fin) \in Nat
    <2>1. IsFiniteSet(0..(launched - 1))
      BY <1>3, FS_Interval
    <2>2. IsFiniteSet(fin)
      BY <2>1, FS_Subset
    <2>3. Cardinality(fin) \in Nat
      BY <2>2, FS_CardinalityType
    <2> QED
      BY <1>2, <1>3, <2>3 DEF Chunks
  <1>5. Window(fin, t) \in Nat /\ Window(fin, t) <= ChunkCount(t)
    BY <1>2, <1>4, StageAssumption DEF Window, AtMost
  <1>6. new \subseteq Chunks /\ \A i \in new : task[i] = "idle" /\ i # 0
    BY <1>2, <1>3, <1>5 DEF Chunks, StageInv, TaskInv
  <1>7. \A i \in Fetches : Answered(i)' = Answered(i) /\ (Answered(i) => i \notin new)
    BY <1>1, <1>6, Numbers DEF Answered
  <1> HIDE DEF new
  <1>8. TypeOK'
    <2>1. launched' \in 1..MaxPlanChunks
      BY <1>1, <1>2, <1>3, <1>5
    <2>2. 1 \in 0..MaxAttempts
      BY StageAssumption
    <2> QED
      BY <1>1, <1>2, <1>4, <2>1, <2>2 DEF StageInv, TypeOK, Busy, diskVars
  <1>9. PlanInv'
    <2>1. fin \subseteq 0..(Window(fin, t) - 1)
      BY <1>3, <1>5
    <2> QED
      BY <1>1, <1>2, <2>1 DEF PlanInv, Window, ChunkCount, AtMost
  <1>10. TaskInv'
    <2>1. \A i \in Chunks : i >= launched' => i >= launched /\ i \notin new
      BY <1>1, <1>3, <1>5, Numbers DEF new
    <2>2. fin \cap new = {}
      BY <1>6
    <2>3. 1 < MaxAttempts \/ "asking" # "pausing"
      OBVIOUS
    <2>4. Open \notin new
      BY <1>6, Numbers
    <2> QED
      BY <1>1, <1>4, <1>6, <2>1, <2>2, <2>4, Numbers DEF StageInv, TaskInv
  <1>11. AnswerInv'
    <2>1. \A i \in Fetches : Answered(i) => Owed(i)' = Owed(i)
      <3> SUFFICES ASSUME NEW i \in Fetches, Answered(i) PROVE Owed(i)' = Owed(i)
        OBVIOUS
      <3>1. CASE i = Open \/ i = 0
        BY <3>1 DEF Owed, SpanLen, AtMost, Offset
      <3>2. CASE i # Open /\ i # 0
        <4>1. i \in Chunks /\ i \in Nat /\ ~(i >= launched)
          BY <3>2, Numbers DEF StageInv, TaskInv, Answered
        <4>2. total # 0
          BY <1>3, <3>2, <4>1 DEF StageInv, PlanInv
        <4> QED
          BY <3>2, <4>2 DEF Owed, SpanLen, AtMost, Offset
      <3> QED
        BY <3>1, <3>2
    <2>2. \A i \in Chunks : task'[i] = "delivered" => task[i] = "delivered" /\ Answered(i)
      BY <1>1, Numbers DEF Answered
    <2>3. \A i \in Chunks : i = 0 \/ Answered(i) => claimed[i] = t
      <3> SUFFICES ASSUME NEW i \in Chunks, Answered(i), i # 0 PROVE claimed[i] = t
        OBVIOUS
      <3>1. i \in Nat /\ ~(i >= launched)
        BY Numbers DEF StageInv, TaskInv, Answered
      <3>2. total # 0
        BY <1>3, <3>1 DEF StageInv, PlanInv
      <3> QED
        BY <3>2 DEF StageInv, AnswerInv
    <2> QED
      BY <1>7, <2>1, <2>2, <2>3, Numbers DEF StageInv, AnswerInv
  <1>12. BytesInv'
    BY <1>7, Numbers DEF StageInv, BytesInv, diskVars, Offset
  <1>13. HandedOverWhole'
    BY DEF HandedOverWhole
  <1> QED
    BY <1>8, <1>9, <1>10, <1>11, <1>12, <1>13 DEF StageInv

LEMMA BuildPlanKeeps == StageInv /\ BuildPlan => StageInv'
PROOF
  <1> SUFFICES ASSUME StageInv, BuildPlan PROVE StageInv'
    OBVIOUS
  <1>1. /\ stage = "probing" /\ task[0] = "delivered" /\ retries' = retries + (attempts[0] - 1)
        /\ UNCHANGED <<claimed, received, diskVars, report>>
    BY DEF BuildPlan
  <1>2. retries' \in Nat
    BY <1>1, Numbers DEF StageInv, TypeOK, TaskInv
  <1>3. Answered(0) /\ claimed[0] \in Totals /\ total = 0 /\ launched = 1
    BY <1>1, Numbers DEF Answered, StageInv, AnswerInv, PlanInv
  <1>4. CASE ChunkCount(claimed[0]) > MaxPlanChunks
    <2>1. stage' = "failed" /\ UNCHANGED <<total, launched, finished, task, attempts>>
      BY <1>4 DEF BuildPlan
    <2> QED
      BY <1>1, <1>2, <2>1
      DEF StageInv, TypeOK, PlanInv, TaskInv, AnswerInv, BytesInv, HandedOverWhole, Answered, Owed,
          SpanLen, AtMost, Offset, diskVars, Window, ChunkCount
  <1>5. CASE ~(ChunkCount(claimed[0]) > MaxPlanChunks)
    <2>1. stage' = "staging" /\ total' = claimed[0] /\ finished' = {0} /\ Launch({0}, claimed[0])
      BY <1>5 DEF BuildPlan
    <2>2. ChunkCount(claimed[0]) \in Nat \ {0} /\ ChunkCount(claimed[0]) <= MaxPlanChunks
      <3>1. claimed[0] \in Nat \ {0}
        BY <1>3, Numbers
      <3>2. ChunkCount(claimed[0]) \in Nat \ {0}
        BY <3>1, CountType
      <3> QED
        BY <1>5, <3>2, StageAssumption
    <2>3. launched <= Window({0}, claimed[0])
      <3>1. Cardinality({0}) = 1
        BY FS_Singleton
      <3> QED
        BY <1>3, <2>2, <3>1, StageAssumption DEF Window, AtMost
    <2>4. {0} \in SUBSET (0..(launched - 1))
      BY <1>3
    <2> QED
      BY <1>1, <1>2, <1>3, <2>1, <2>2, <2>3, <2>4, LaunchKeeps
  <1> QED
    BY <1>4, <1>5

\* The stage loop frees a place in the window with every chunk it accounts.
LEMMA WindowGrows ==
  ASSUME StageInv, stage = "staging", NEW i \in InFlight
  PROVE  /\ total \in Totals
         /\ finished \cup {i} \in SUBSET (0..(launched - 1))
         /\ launched <= Window(finished \cup {i}, total)
PROOF
  <1>1. total # 0 /\ total \in Totals /\ launched \in 1..MaxPlanChunks /\ MaxPlanChunks \in Nat
    BY StageAssumption DEF StageInv, TypeOK, PlanInv
  <1>2. finished \subseteq 0..(launched - 1) /\ launched = Window(finished, total)
    BY <1>1 DEF StageInv, PlanInv
  <1>3. IsFiniteSet(finished)
    <2>1. launched - 1 \in Int /\ finished \in SUBSET (0..(launched - 1))
      BY <1>1, <1>2
    <2>2. IsFiniteSet(0..(launched - 1))
      BY <2>1, FS_Interval
    <2> QED
      BY <2>1, <2>2, FS_Subset
  <1>4. /\ Cardinality(finished) \in Nat
        /\ Cardinality(finished \cup {i}) \in {Cardinality(finished), Cardinality(finished) + 1}
    BY <1>3, FS_CardinalityType, FS_AddElement
  <1>5. ChunkCount(total) \in Nat
    BY <1>1, Numbers, CountType
  <1> QED
    BY <1>1, <1>2, <1>4, <1>5, StageAssumption DEF Window, AtMost, InFlight

LEMMA JoinKeeps == \A i \in Fetches : StageInv /\ Join(i) => StageInv'
PROOF
  <1> SUFFICES ASSUME NEW i \in Fetches, StageInv, Join(i) PROVE StageInv'
    OBVIOUS
  <1>1. /\ stage = "staging" /\ i \in InFlight /\ task[i] = "delivered"
        /\ retries' = retries + (attempts[i] - 1)
        /\ finished' = finished \cup {i} /\ Launch(finished \cup {i}, total)
        /\ UNCHANGED <<stage, total, claimed, received, diskVars, report>>
    BY DEF Join
  <1>2. retries' \in Nat
    BY <1>1 DEF StageInv, TypeOK, TaskInv
  <1>3. total # 0
    BY <1>1 DEF StageInv, PlanInv
  <1>4. 0 \in finished /\ ChunkCount(total) <= MaxPlanChunks /\ claimed[0] = total
    BY <1>3, Numbers DEF StageInv, PlanInv, AnswerInv
  <1>5. \A j \in finished \cup {i} : task[j] = "delivered"
    BY <1>1 DEF StageInv, TaskInv
  <1> QED
    BY <1>1, <1>2, <1>4, <1>5, WindowGrows, LaunchKeeps

LEMMA FallBackKeeps == StageInv /\ FallBack => StageInv'
PROOF
  <1> SUFFICES ASSUME StageInv, FallBack PROVE StageInv'
    OBVIOUS
  <1>1. /\ stage = "probing" /\ task[0] = "asking" /\ stage' = "fallback"
        /\ task' = [task EXCEPT ![0] = "failed", ![Open] = "asking"]
        /\ attempts' = [attempts EXCEPT ![Open] = 1]
        /\ retries' = retries + (attempts[0] - 1)
        /\ UNCHANGED <<total, launched, finished, claimed, received, diskVars, report>>
    BY DEF FallBack
  <1>2. /\ task'[0] = "failed" /\ task'[Open] = "asking" /\ attempts'[Open] = 1
        /\ \A j \in Chunks : attempts'[j] = attempts[j] /\ (j # 0 => task'[j] = task[j])
    BY <1>1, Numbers DEF StageInv, TypeOK
  <1>3. total = 0 /\ launched = 1 /\ finished = {}
    BY <1>1 DEF StageInv, PlanInv
  <1>4. TypeOK'
    <2>1. 1 \in 0..MaxAttempts /\ retries' \in Nat
      BY <1>1, Numbers, StageAssumption DEF StageInv, TypeOK, TaskInv
    <2> QED
      BY <1>1, <2>1, Numbers DEF StageInv, TypeOK, Busy, diskVars
  <1>5. PlanInv'
    BY <1>1, <1>3 DEF PlanInv
  <1>10. TaskInv'
    <2>1. \A j \in Chunks : j >= launched' => task'[j] = "idle"
      BY <1>1, <1>2, <1>3, Numbers DEF StageInv, TaskInv
    <2>2. \A j \in Fetches : task'[j] # "idle" => attempts'[j] >= 1
      <3>1. \A j \in Chunks : task'[j] # "idle" => task[j] # "idle" /\ attempts'[j] = attempts[j]
        BY <1>1, <1>2
      <3>2. \A j \in Chunks : task'[j] # "idle" => attempts'[j] >= 1
        BY <3>1, Numbers DEF StageInv, TaskInv
      <3> QED
        BY <1>2, <3>2, Numbers
    <2>3. \A j \in Fetches : task'[j] = "pausing" => attempts'[j] < MaxAttempts
      BY <1>2, Numbers DEF StageInv, TaskInv
    <2> QED
      BY <1>1, <1>2, <1>3, <2>1, <2>2, <2>3 DEF TaskInv
  <1>6. \A j \in Fetches : Answered(j)' => j \in Chunks /\ Answered(j) /\ Owed(j)' = Owed(j)
    BY <1>1, <1>2, Numbers DEF Answered, Owed, SpanLen, AtMost, Offset
  <1>7. AnswerInv'
    <2>1. \A j \in Fetches : Answered(j)' => (claimed[j] \in Totals /\ received[j] <= Owed(j))'
      BY <1>1, <1>6 DEF StageInv, AnswerInv
    <2>2. \A j \in Chunks : (task[j] = "delivered")' => (received[j] = Owed(j))'
      BY <1>1, <1>2, <1>6, Numbers DEF StageInv, AnswerInv, Answered
    <2> QED
      BY <1>1, <1>3, <2>1, <2>2 DEF AnswerInv
  <1>8. BytesInv'
    BY <1>1, <1>2 DEF StageInv, BytesInv, Answered, diskVars
  <1>9. HandedOverWhole'
    BY <1>1 DEF HandedOverWhole
  <1> QED
    BY <1>4, <1>5, <1>7, <1>8, <1>9, <1>10 DEF StageInv

\* A stage that gives up, or whose file goes, hands nothing over.
LEMMA FailedKeeps ==
  ASSUME StageInv, stage' = "failed", there' \in BOOLEAN,
         UNCHANGED <<total, launched, finished, fetchVars, file, size, retries, report>>
  PROVE  StageInv'
BY DEF StageInv, TypeOK, PlanInv, TaskInv, AnswerInv, BytesInv, HandedOverWhole, Answered, Owed,
       SpanLen, AtMost, Offset, fetchVars, Window, ChunkCount

\* Every chunk finished: no byte of the plan is missing, and nobody is at work.
LEMMA MeasureKeeps == StageInv /\ Measure => StageInv'
PROOF
  <1> SUFFICES ASSUME StageInv, Measure PROVE StageInv'
    OBVIOUS
  <1>1. /\ stage = "staging" /\ Complete
        /\ UNCHANGED <<total, launched, finished, fetchVars, diskVars, retries>>
    BY DEF Measure
  <1>2. CASE size # total
    <2>1. stage' = "failed" /\ UNCHANGED report
      BY <1>2 DEF Measure
    <2> QED
      BY <1>1, <2>1, FailedKeeps DEF diskVars, StageInv, TypeOK
  <1>3. CASE size = total
    <2>1. stage' = "verified" /\ report' = size
      BY <1>3 DEF Measure
    <2>2. /\ total # 0 /\ total \in Totals /\ total \in Nat \ {0} /\ there
          /\ ChunkCount(total) \in Nat
      BY <1>1, Numbers, CountType DEF StageInv, PlanInv, TypeOK, BytesInv
    <2>3. \A i \in 0..(ChunkCount(total) - 1) :
            i \in Chunks /\ task[i] = "delivered" /\ Answered(i)
      BY <1>1 DEF Complete, StageInv, TaskInv, TypeOK, Answered
    <2>4. \A p \in 0..(size - 1) : file[p] = total
      <3> SUFFICES ASSUME NEW p \in 0..(total - 1) PROVE file[p] = total
        BY <1>3
      <3>1. PICK i \in 0..(ChunkCount(total) - 1) :
              \E k \in 0..(SpanLen(i, total) - 1) : p = Offset(i) + k
        BY <2>2, SpansTile
      <3>2. i \in Chunks /\ Answered(i) /\ claimed[i] = total /\ received[i] = Owed(i) /\ i # Open
        BY <2>2, <2>3, Numbers DEF StageInv, AnswerInv
      <3>3. Owed(i) = SpanLen(i, total)
        BY <3>2 DEF Owed
      <3> QED
        BY <1>1, <3>1, <3>2, <3>3 DEF StageInv, BytesInv
    <2>5. \A i \in Fetches : task[i] \notin Busy
      <3> SUFFICES ASSUME NEW i \in Chunks PROVE task[i] \notin Busy
        BY <1>1, Numbers DEF StageInv, TaskInv, Busy
      <3>1. CASE i \in 0..(ChunkCount(total) - 1)
        BY <2>3, <3>1 DEF Busy
      <3>2. CASE i \notin 0..(ChunkCount(total) - 1)
        <4>1. i >= ChunkCount(total)
          BY <2>2, <3>2, Numbers
        <4>2. launched <= ChunkCount(total)
          BY <2>2, StageAssumption DEF StageInv, PlanInv, TypeOK, Window, AtMost
        <4>3. task[i] = "idle"
          BY <2>2, <4>1, <4>2, Numbers, StageAssumption DEF StageInv, TaskInv, TypeOK
        <4> QED
          BY <4>3 DEF Busy
      <3> QED
        BY <3>1, <3>2
    <2>6. HandedOverWhole'
      BY <1>1, <1>3, <2>1, <2>2, <2>4, <2>5 DEF HandedOverWhole, fetchVars, diskVars, Busy
    <2> QED
      BY <1>1, <2>1, <2>6
      DEF StageInv, TypeOK, PlanInv, TaskInv, AnswerInv, BytesInv, Answered, Owed, SpanLen, AtMost,
          Offset, fetchVars, diskVars, Window, ChunkCount
  <1> QED
    BY <1>2, <1>3

LEMMA ReceivedKeeps == StageInv /\ Received => StageInv'
PROOF
  <1> SUFFICES ASSUME StageInv, Received PROVE StageInv'
    OBVIOUS
  <1>1. /\ stage = "fallback" /\ task[Open] = "delivered" /\ stage' = "verified"
        /\ report' = received[Open] /\ retries' = retries + (attempts[Open] - 1)
        /\ UNCHANGED <<total, launched, finished, fetchVars, diskVars>>
    BY DEF Received
  <1>2. /\ Answered(Open) /\ attempts[Open] >= 1 /\ claimed[Open] \in Totals
        /\ launched = 1 /\ task[0] = "failed" /\ there
    BY <1>1, Numbers DEF Answered, StageInv, TaskInv, AnswerInv, BytesInv, PlanInv
  <1>3. size = received[Open] /\ \A p \in 0..(size - 1) : file[p] = claimed[Open]
    BY <1>1, <1>2 DEF StageInv, BytesInv
  <1>4. \A i \in Fetches : task[i] \notin Busy
    <2>1. \A i \in Chunks : i # 0 => i >= 1
      BY Numbers
    <2> QED
      BY <1>1, <1>2, <2>1, Numbers DEF StageInv, TaskInv, Busy
  <1>5. retries' \in Nat /\ report' \in Nat
    BY <1>1, <1>2, Numbers DEF StageInv, TypeOK
  <1>6. HandedOverWhole'
    BY <1>1, <1>2, <1>3, <1>4 DEF HandedOverWhole, fetchVars, diskVars, Busy
  <1> QED
    BY <1>1, <1>2, <1>5, <1>6
    DEF StageInv, TypeOK, PlanInv, TaskInv, AnswerInv, BytesInv, Answered, Owed, SpanLen, AtMost,
        Offset, fetchVars, diskVars, Window, ChunkCount

LEMMA StageKeeps == StageInv /\ (StageStep \/ Deadline \/ Discard) => StageInv'
PROOF
  <1> SUFFICES ASSUME StageInv, StageStep \/ Deadline \/ Discard PROVE StageInv'
    OBVIOUS
  <1>1. CASE Deadline \/ Discard \/ \E i \in Fetches : AbortAndFail(i)
    <2>1. /\ stage' = "failed" /\ there' \in BOOLEAN
          /\ UNCHANGED <<total, launched, finished, fetchVars, file, size, retries, report>>
      BY <1>1 DEF Deadline, Discard, AbortAndFail, planVars, diskVars, StageInv, TypeOK
    <2> QED
      BY <2>1, FailedKeeps
  <1> QED
    BY <1>1, FallBackKeeps, AnswerOpenKeeps, BuildPlanKeeps, MeasureKeeps, ReceivedKeeps, JoinKeeps
    DEF StageStep

LEMMA InitStage == Init => StageInv
PROOF
  <1> SUFFICES ASSUME Init PROVE StageInv
    OBVIOUS
  <1>1. TypeOK
    BY StageAssumption DEF Init, TypeOK, Busy, Chunks
  <1>2. \A i \in Fetches : ~Answered(i) /\ task[i] # "pausing" /\ (i # 0 => task[i] = "idle")
    BY DEF Init, Answered
  <1>3. TaskInv
    BY <1>2, Numbers DEF Init, TaskInv
  <1> QED
    BY <1>1, <1>2, <1>3, Numbers
    DEF Init, StageInv, PlanInv, AnswerInv, BytesInv, HandedOverWhole

LEMMA NextStage == StageInv /\ [Next]_vars => StageInv'
PROOF
  <1> SUFFICES ASSUME StageInv, [Next]_vars PROVE StageInv'
    OBVIOUS
  <1>1. CASE UNCHANGED vars
    BY <1>1
    DEF vars, planVars, fetchVars, diskVars, StageInv, TypeOK, PlanInv, TaskInv, AnswerInv,
        BytesInv, HandedOverWhole, Answered, Owed, SpanLen, AtMost, Offset, Window, ChunkCount
  <1> QED
    BY <1>1, StageKeeps, FetchKeeps DEF Next, Over

-------------------------------------------------------------------------------
(* The retries charged *)

\* The requests beyond the first that the fetches in C made: the fetch and the attempt.
Retried(C, tries) == {r \in C \X (2..MaxAttempts) : r[2] <= tries[r[1]]}

\* What has been charged while a stage goes on, and what never began.
ChargeInv ==
  /\ \A i \in Chunks : i >= launched => attempts[i] = 0
  /\ stage = "probing" => retries = 0
  /\ stage = "staging" => retries = Cardinality(Retried(finished, attempts))
  /\ stage = "fallback" => retries = Cardinality(Retried({0}, attempts))
  /\ RetriesAccounted

LEMMA RetriedAgree ==
  ASSUME NEW C, NEW a, NEW b, \A i \in C : a[i] = b[i]
  PROVE  Retried(C, a) = Retried(C, b)
BY DEF Retried

\* Fetches that were not retried, or never began, add nothing.
LEMMA RetriedOnly ==
  ASSUME NEW C, NEW D, C \subseteq D, NEW a, \A i \in D \ C : a[i] \in {0, 1}
  PROVE  Retried(D, a) = Retried(C, a)
BY StageAssumption DEF Retried

\* One more fetch charged: its attempts but the first.
LEMMA RetriedOneMore ==
  ASSUME NEW C \in SUBSET Fetches, NEW i \in Fetches, i \notin C,
         NEW a \in [Fetches -> 0..MaxAttempts], a[i] >= 1
  PROVE  Cardinality(Retried(C \cup {i}, a)) = Cardinality(Retried(C, a)) + (a[i] - 1)
PROOF
  <1> DEFINE All == Fetches \X (2..MaxAttempts)
  <1>1. IsFiniteSet(All)
    <2>1. IsFiniteSet(Chunks) /\ IsFiniteSet(2..MaxAttempts)
      BY StageAssumption, FS_Interval DEF Chunks
    <2>2. IsFiniteSet(Fetches)
      BY <2>1, FS_AddElement DEF Fetches
    <2> QED
      BY <2>1, <2>2, FS_Product
  <1>2. Retried(C, a) \in SUBSET All /\ Retried({i}, a) \in SUBSET All
    BY DEF Retried
  <1> HIDE DEF All
  <1>3. /\ IsFiniteSet(Retried(C, a)) /\ IsFiniteSet(Retried({i}, a))
        /\ Cardinality(Retried(C, a)) \in Nat
    BY <1>1, <1>2, FS_Subset, FS_CardinalityType
  <1>4. Retried(C \cup {i}, a) = Retried(C, a) \cup Retried({i}, a)
    BY DEF Retried
  <1>5. Retried(C, a) \cap Retried({i}, a) = {}
    BY DEF Retried
  <1>6. Cardinality(Retried({i}, a)) = a[i] - 1
    <2> DEFINE f == [n \in 2..a[i] |-> <<i, n>>]
    <2>1. a[i] \in 1..MaxAttempts /\ MaxAttempts \in Nat
      BY StageAssumption
    <2>2. f \in Bijection(2..a[i], Retried({i}, a))
      <3>1. \A n \in 2..a[i] : <<i, n>> \in Retried({i}, a)
        BY <2>1 DEF Retried
      <3>2. \A r \in Retried({i}, a) : r[2] \in 2..a[i] /\ r = <<i, r[2]>>
        BY <2>1 DEF Retried
      <3>3. f \in Injection(2..a[i], Retried({i}, a))
        BY <3>1 DEF Injection, IsInjective
      <3>4. f \in Surjection(2..a[i], Retried({i}, a))
        BY <3>1, <3>2 DEF Surjection
      <3> QED
        BY <3>3, <3>4 DEF Bijection
    <2>3. IsFiniteSet(2..a[i]) /\ Cardinality(2..a[i]) = a[i] - 1
      BY <2>1, FS_Interval
    <2> HIDE DEF f
    <2>4. Cardinality(Retried({i}, a)) = Cardinality(2..a[i])
      <3>1. ExistsBijection(2..a[i], Retried({i}, a))
        BY <2>2 DEF ExistsBijection
      <3> QED
        BY <2>3, <3>1, FS_Bijection
    <2> QED
      BY <2>3, <2>4
  <1>7. Cardinality(Retried(C \cup {i}, a)) =
          Cardinality(Retried(C, a)) + Cardinality(Retried({i}, a))
             - Cardinality(Retried(C, a) \cap Retried({i}, a))
    BY <1>3, <1>4, FS_Union
  <1>8. a[i] \in Nat /\ Cardinality(Retried(C, a) \cap Retried({i}, a)) = 0
    BY <1>5, FS_EmptySet
  <1> QED
    BY <1>3, <1>6, <1>7, <1>8

LEMMA FirstCharged ==
  ASSUME NEW a \in [Fetches -> 0..MaxAttempts], a[0] >= 1
  PROVE  Cardinality(Retried({0}, a)) = a[0] - 1
PROOF
  <1>1. Retried({}, a) = {} /\ {} \cup {0} = {0}
    BY DEF Retried
  <1>2. {} \in SUBSET Fetches /\ 0 \in Fetches /\ 0 \notin {}
    BY Numbers
  <1>3. Cardinality(Retried({} \cup {0}, a)) = Cardinality(Retried({}, a)) + (a[0] - 1)
    BY <1>2, RetriedOneMore
  <1>4. a[0] \in Nat
    BY <1>2
  <1> QED
    BY <1>1, <1>3, <1>4, FS_EmptySet

LEMMA InitCharge == Init => ChargeInv
BY Numbers DEF Init, ChargeInv, RetriesAccounted

LEMMA AgainCharge == \A i \in Fetches : StageInv /\ ChargeInv /\ Again(i) => ChargeInv'
PROOF
  <1> SUFFICES ASSUME NEW i \in Fetches, StageInv, ChargeInv, Again(i) PROVE ChargeInv'
    OBVIOUS
  <1>1. /\ Awaited(i) /\ attempts' = [attempts EXCEPT ![i] = @ + 1]
        /\ UNCHANGED <<stage, total, launched, finished, retries>>
    BY DEF Again, planVars
  <1>2. MayRun(i)
    BY <1>1 DEF MayRun
  <1>3. /\ stage # "verified" /\ (i \in Chunks => i < launched)
        /\ (stage = "staging" => i \notin finished) /\ (stage = "fallback" => i # 0)
        /\ finished \subseteq Fetches /\ launched \in Nat
    BY <1>1, <1>2, Running, Numbers, StageAssumption DEF Awaited, InFlight, StageInv, TypeOK, TaskInv
  <1>4. \A j \in Fetches : j # i => attempts'[j] = attempts[j]
    BY <1>1 DEF StageInv, TypeOK
  <1>5. stage = "staging" => Retried(finished, attempts') = Retried(finished, attempts)
    BY <1>3, <1>4, RetriedAgree
  <1>6. stage = "fallback" => Retried({0}, attempts') = Retried({0}, attempts)
    BY <1>3, <1>4, RetriedAgree, Numbers
  <1>7. \A j \in Chunks : j >= launched => attempts'[j] = 0
    BY <1>3, <1>4, Numbers DEF ChargeInv
  <1> QED
    BY <1>1, <1>3, <1>5, <1>6, <1>7 DEF ChargeInv, RetriesAccounted

LEMMA SameCharge ==
  ASSUME ChargeInv, UNCHANGED <<stage, launched, finished, attempts, retries>>
  PROVE  ChargeInv'
BY DEF ChargeInv, RetriesAccounted, Retried

LEMMA FetchCharge == \A i \in Fetches : StageInv /\ ChargeInv /\ FetchStep(i) => ChargeInv'
PROOF
  <1> SUFFICES ASSUME NEW i \in Fetches, StageInv, ChargeInv, FetchStep(i) PROVE ChargeInv'
    OBVIOUS
  <1>1. CASE Again(i)
    BY <1>1, AgainCharge
  <1>2. CASE ~Again(i)
    <2>1. UNCHANGED <<stage, launched, finished, attempts, retries>>
      BY <1>2 DEF FetchStep, Answer, WriteByte, BodyEnds, Breaks, Hopeless, Cancel, planVars
    <2> QED
      BY <2>1, SameCharge
  <1> QED
    BY <1>1, <1>2

LEMMA FailedCharge ==
  ASSUME ChargeInv, stage' = "failed", UNCHANGED <<launched, attempts>>
  PROVE  ChargeInv'
BY DEF ChargeInv, RetriesAccounted

LEMMA FallBackCharge == StageInv /\ ChargeInv /\ FallBack => ChargeInv'
PROOF
  <1> SUFFICES ASSUME StageInv, ChargeInv, FallBack PROVE ChargeInv'
    OBVIOUS
  <1>1. /\ stage = "probing" /\ task[0] = "asking" /\ stage' = "fallback"
        /\ attempts' = [attempts EXCEPT ![Open] = 1]
        /\ retries' = retries + (attempts[0] - 1)
        /\ UNCHANGED launched
    BY DEF FallBack
  <1>2. attempts \in [Fetches -> 0..MaxAttempts] /\ attempts[0] >= 1 /\ retries = 0
    BY <1>1, Numbers DEF StageInv, TypeOK, TaskInv, ChargeInv
  <1>3. /\ attempts' \in [Fetches -> 0..MaxAttempts]
        /\ \A j \in Chunks : attempts'[j] = attempts[j]
    BY <1>1, <1>2, Numbers, StageAssumption
  <1>4. Cardinality(Retried({0}, attempts')) = attempts'[0] - 1 /\ attempts'[0] = attempts[0]
    BY <1>2, <1>3, Numbers, FirstCharged
  <1>5. attempts[0] \in Nat
    BY <1>2, Numbers
  <1>6. retries' = Cardinality(Retried({0}, attempts'))
    BY <1>1, <1>2, <1>4, <1>5
  <1>7. \A j \in Chunks : j >= launched => attempts'[j] = 0
    BY <1>3 DEF ChargeInv
  <1> QED
    BY <1>1, <1>6, <1>7 DEF ChargeInv, RetriesAccounted

\* What is launched was not charged and had made no request.
LEMMA LaunchCharge ==
  ASSUME StageInv, ChargeInv, NEW fin \in SUBSET (0..(launched - 1)), NEW t,
         Launch(fin, t), Window(fin, t) \in Nat, launched <= Window(fin, t)
  PROVE  /\ \A i \in Chunks : i >= launched' => attempts'[i] = 0
         /\ Retried(fin, attempts') = Retried(fin, attempts)
PROOF
  <1>1. launched' = Window(fin, t) /\ launched \in 1..MaxPlanChunks /\ MaxPlanChunks \in Nat
    BY StageAssumption DEF Launch, StageInv, TypeOK
  <1>2. attempts' = [i \in Fetches |-> IF i \in launched..(Window(fin, t) - 1) THEN 1 ELSE attempts[i]]
    BY DEF Launch
  <1>3. fin \subseteq Chunks
    BY <1>1 DEF Chunks
  <1>4. \A i \in fin : attempts'[i] = attempts[i]
    BY <1>1, <1>2, <1>3, Numbers
  <1>5. \A i \in Chunks : i >= launched' => attempts'[i] = 0
    BY <1>1, <1>2, Numbers DEF ChargeInv
  <1> QED
    BY <1>4, <1>5, RetriedAgree

LEMMA BuildPlanCharge == StageInv /\ ChargeInv /\ BuildPlan => ChargeInv'
PROOF
  <1> SUFFICES ASSUME StageInv, ChargeInv, BuildPlan PROVE ChargeInv'
    OBVIOUS
  <1>1. stage = "probing" /\ task[0] = "delivered" /\ retries' = retries + (attempts[0] - 1)
    BY DEF BuildPlan
  <1>2. attempts \in [Fetches -> 0..MaxAttempts] /\ attempts[0] >= 1 /\ retries = 0
    BY <1>1, Numbers DEF StageInv, TypeOK, TaskInv, ChargeInv
  <1>3. CASE ChunkCount(claimed[0]) > MaxPlanChunks
    BY <1>3, FailedCharge DEF BuildPlan
  <1>4. CASE ~(ChunkCount(claimed[0]) > MaxPlanChunks)
    <2>1. stage' = "staging" /\ finished' = {0} /\ Launch({0}, claimed[0])
      BY <1>4 DEF BuildPlan
    <2>2. launched = 1
      BY <1>1 DEF StageInv, PlanInv
    <2>3. {0} \in SUBSET (0..(launched - 1))
      BY <2>2
    <2>4. claimed[0] \in Nat \ {0}
      BY <1>1, Numbers DEF StageInv, AnswerInv, Answered
    <2>5. ChunkCount(claimed[0]) \in Nat \ {0} /\ Cardinality({0}) = 1
      BY <2>4, CountType, FS_Singleton
    <2>6. Window({0}, claimed[0]) \in Nat /\ launched <= Window({0}, claimed[0])
      BY <2>2, <2>5, StageAssumption DEF Window, AtMost
    <2>7. /\ \A i \in Chunks : i >= launched' => attempts'[i] = 0
          /\ Retried({0}, attempts') = Retried({0}, attempts)
      BY <2>1, <2>3, <2>6, LaunchCharge
    <2>8. retries' = Cardinality(Retried({0}, attempts)) /\ attempts[0] \in Nat
      <3>1. attempts[0] \in Nat
        BY <1>2, Numbers
      <3> QED
        BY <1>1, <1>2, <3>1, FirstCharged
    <2> QED
      BY <2>1, <2>7, <2>8 DEF ChargeInv, RetriesAccounted
  <1> QED
    BY <1>3, <1>4

LEMMA JoinCharge == \A i \in Fetches : StageInv /\ ChargeInv /\ Join(i) => ChargeInv'
PROOF
  <1> SUFFICES ASSUME NEW i \in Fetches, StageInv, ChargeInv, Join(i) PROVE ChargeInv'
    OBVIOUS
  <1>1. /\ stage = "staging" /\ i \in InFlight /\ task[i] = "delivered"
        /\ retries' = retries + (attempts[i] - 1)
        /\ finished' = finished \cup {i} /\ Launch(finished \cup {i}, total) /\ stage' = stage
    BY DEF Join
  <1>2. /\ finished \cup {i} \in SUBSET (0..(launched - 1)) /\ total \in Totals
        /\ launched <= Window(finished \cup {i}, total)
    BY <1>1, WindowGrows
  <1>3. finished \in SUBSET Fetches /\ i \notin finished
    BY <1>1, Numbers DEF StageInv, TypeOK, InFlight
  <1>4. attempts \in [Fetches -> 0..MaxAttempts] /\ attempts[i] >= 1
    BY <1>1 DEF StageInv, TypeOK, TaskInv
  <1>5. Window(finished \cup {i}, total) \in Nat
    <2>1. IsFiniteSet(0..(launched - 1))
      <3>1. 0 \in Int /\ launched - 1 \in Int
        BY StageAssumption DEF StageInv, TypeOK
      <3> QED
        BY <3>1, FS_Interval
    <2>2. Cardinality(finished \cup {i}) \in Nat
      BY <1>2, <2>1, FS_Subset, FS_CardinalityType
    <2>3. ChunkCount(total) \in Nat
      BY <1>2, Numbers, CountType
    <2> QED
      BY <2>2, <2>3, StageAssumption DEF Window, AtMost
  <1>6. Cardinality(Retried(finished \cup {i}, attempts)) =
          Cardinality(Retried(finished, attempts)) + (attempts[i] - 1)
    BY <1>3, <1>4, RetriedOneMore
  <1>7. /\ \A j \in Chunks : j >= launched' => attempts'[j] = 0
        /\ Retried(finished \cup {i}, attempts') = Retried(finished \cup {i}, attempts)
    BY <1>1, <1>2, <1>5, LaunchCharge
  <1>8. retries = Cardinality(Retried(finished, attempts))
    BY <1>1 DEF ChargeInv
  <1> QED
    BY <1>1, <1>6, <1>7, <1>8 DEF ChargeInv, RetriesAccounted

LEMMA MeasureCharge == StageInv /\ ChargeInv /\ Measure => ChargeInv'
PROOF
  <1> SUFFICES ASSUME StageInv, ChargeInv, Measure PROVE ChargeInv'
    OBVIOUS
  <1>1. /\ stage = "staging" /\ Complete /\ stage' \in {"verified", "failed"}
        /\ UNCHANGED <<launched, finished, attempts, retries>>
    BY DEF Measure, fetchVars
  <1>2. total # 0 /\ launched = Window(finished, total) /\ total \in Totals /\ launched \in Nat
    BY <1>1, StageAssumption DEF StageInv, PlanInv, TypeOK
  <1>3. ChunkCount(total) \in Nat
    BY <1>2, Numbers, CountType
  <1>4. launched <= ChunkCount(total)
    <2>1. Cardinality(finished) \in Nat
      <3>1. finished = 0..(ChunkCount(total) - 1) /\ ChunkCount(total) - 1 \in Int
        BY <1>1, <1>3 DEF Complete
      <3>2. IsFiniteSet(0..(ChunkCount(total) - 1))
        BY <3>1, FS_Interval
      <3> QED
        BY <3>1, <3>2, FS_CardinalityType
    <2> QED
      BY <1>2, <1>3, <2>1, StageAssumption DEF Window, AtMost
  <1>5. \A i \in Fetches \ finished : attempts[i] \in {0, 1}
    BY <1>1, <1>2, <1>3, <1>4, Numbers DEF ChargeInv, Complete, StageInv, TaskInv
  <1>6. finished \subseteq Fetches
    BY Numbers DEF StageInv, TypeOK
  <1>7. Retried(Fetches, attempts) = Retried(finished, attempts)
    BY <1>5, <1>6, RetriedOnly
  <1>8. retries = Cardinality(Retried(Fetches, attempts))
    BY <1>1, <1>7 DEF ChargeInv
  <1> QED
    BY <1>1, <1>8 DEF ChargeInv, RetriesAccounted, Retried

LEMMA ReceivedCharge == StageInv /\ ChargeInv /\ Received => ChargeInv'
PROOF
  <1> SUFFICES ASSUME StageInv, ChargeInv, Received PROVE ChargeInv'
    OBVIOUS
  <1>1. /\ stage = "fallback" /\ task[Open] = "delivered" /\ stage' = "verified"
        /\ retries' = retries + (attempts[Open] - 1)
        /\ UNCHANGED <<launched, finished, attempts>>
    BY DEF Received, fetchVars
  <1>2. attempts \in [Fetches -> 0..MaxAttempts] /\ attempts[Open] >= 1 /\ launched = 1
    BY <1>1, Numbers DEF StageInv, TypeOK, TaskInv, PlanInv
  <1>3. Cardinality(Retried({0} \cup {Open}, attempts)) = Cardinality(Retried({0}, attempts)) + (attempts[Open] - 1)
    <2>1. {0} \in SUBSET Fetches /\ Open \in Fetches /\ Open \notin {0}
      BY Numbers
    <2> QED
      BY <1>2, <2>1, RetriedOneMore
  <1>4. \A i \in Fetches \ ({0} \cup {Open}) : attempts[i] \in {0, 1}
    BY <1>2, Numbers DEF ChargeInv
  <1>5. Retried(Fetches, attempts) = Retried({0} \cup {Open}, attempts)
    <2>1. {0} \cup {Open} \subseteq Fetches
      BY Numbers
    <2> QED
      BY <1>4, <2>1, RetriedOnly
  <1>6. retries' = Cardinality(Retried(Fetches, attempts))
    BY <1>1, <1>3, <1>5 DEF ChargeInv
  <1> QED
    BY <1>1, <1>6 DEF ChargeInv, RetriesAccounted, Retried

LEMMA NextCharge == StageInv /\ ChargeInv /\ [Next]_vars => ChargeInv'
PROOF
  <1> SUFFICES ASSUME StageInv, ChargeInv, [Next]_vars PROVE ChargeInv'
    OBVIOUS
  <1>1. CASE \E i \in Fetches : FetchStep(i) \/ Join(i)
    BY <1>1, FetchCharge, JoinCharge
  <1>2. CASE FallBack \/ BuildPlan \/ Measure \/ Received
    BY <1>2, FallBackCharge, BuildPlanCharge, MeasureCharge, ReceivedCharge
  <1>3. CASE Deadline \/ \E i \in Fetches : AbortAndFail(i)
    BY <1>3, FailedCharge DEF Deadline, AbortAndFail, fetchVars
  <1>4. CASE AnswerOpen \/ Discard \/ Over \/ UNCHANGED vars
    <2>1. UNCHANGED <<stage, launched, finished, attempts, retries>>
      BY <1>4 DEF AnswerOpen, Discard, Over, vars, planVars, fetchVars
    <2> QED
      BY <2>1, SameCharge
  <1> QED
    BY <1>1, <1>2, <1>3, <1>4 DEF Next, StageStep

-------------------------------------------------------------------------------
(* Results *)

\* The inductive invariant: the plan and its window, who may be at work, whose answer it is,
\* and which bytes of the file are whose.
THEOREM StageInvariant == Spec => []StageInv
BY InitStage, NextStage, PTL DEF Spec

\* Whatever the chunks' order, retries and half-written attempts were, and whichever sources
\* answered: a file that is handed over is the whole of one source, as long as reported, and
\* nobody still writes into it.
THEOREM WholeFileHandedOver == Spec => []HandedOverWhole
PROOF
  <1>1. StageInv => HandedOverWhole
    BY DEF StageInv
  <1> QED
    BY <1>1, StageInvariant, PTL

\* The stage loop has a chunk to wait for until the plan is complete, and never more of them
\* than the window allows.
THEOREM LoopNeverStalls == Spec => []NeverStalled
PROOF
  <1>1. StageInv => NeverStalled
    <2> SUFFICES ASSUME StageInv, stage = "staging"
                 PROVE  (Complete \/ InFlight # {}) /\ Cardinality(InFlight) <= Concurrency
      BY DEF NeverStalled
    <2> DEFINE handed == 0..(launched - 1)
    <2>1. total # 0 /\ total \in Totals /\ launched \in Nat \ {0}
      BY StageAssumption DEF StageInv, TypeOK, PlanInv
    <2>2. finished \subseteq handed /\ 0 \in finished /\ launched = Window(finished, total)
      BY <2>1 DEF StageInv, PlanInv
    <2>3. InFlight = handed \ finished
      BY <2>1, <2>2 DEF InFlight
    <2>4. IsFiniteSet(handed) /\ Cardinality(handed) = launched
      BY <2>1, FS_Interval
    <2>5. /\ IsFiniteSet(finished) /\ Cardinality(finished) \in Nat
          /\ handed \cap finished = finished
      BY <2>2, <2>4, FS_Subset, FS_CardinalityType
    <2> HIDE DEF handed
    <2>6. Cardinality(InFlight) = launched - Cardinality(finished)
      <3>1. Cardinality(handed \ finished) = Cardinality(handed) - Cardinality(handed \cap finished)
        BY <2>4, FS_Difference
      <3> QED
        BY <2>3, <2>4, <2>5, <3>1
    <2>7. ChunkCount(total) \in Nat
      BY <2>1, Numbers, CountType
    <2>8. Cardinality(InFlight) <= Concurrency
      BY <2>1, <2>2, <2>5, <2>6, <2>7, StageAssumption DEF Window, AtMost
    <2>9. ASSUME InFlight = {} PROVE Complete
      <3>1. finished = handed /\ Cardinality(finished) = launched
        BY <2>2, <2>3, <2>4, <2>9
      <3>2. launched = ChunkCount(total)
        BY <2>1, <2>2, <2>7, <3>1, StageAssumption DEF Window, AtMost
      <3> QED
        BY <3>1, <3>2 DEF Complete, handed
    <2> QED
      BY <2>8, <2>9
  <1> QED
    BY <1>1, StageInvariant, PTL

\* The retries reported with a staged file are the requests its fetches made beyond their
\* first, each of them once.
THEOREM RetriesAreRequests == Spec => []RetriesAccounted
PROOF
  <1>1. ChargeInv => RetriesAccounted
    BY DEF ChargeInv
  <1> QED
    BY <1>1, InitCharge, NextCharge, StageInvariant, PTL DEF Spec
===============================================================================
