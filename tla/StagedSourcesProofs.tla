-------------------------- MODULE StagedSourcesProofs --------------------------
(***************************************************************************)
(* Proofs about StagedSources, for any requests, gate capacity and number  *)
(* of crashes, with and without failing disk operations.                   *)
(***************************************************************************)
EXTENDS StagedSources, FiniteSetTheorems, SequenceTheorems, TLAPS

-------------------------------------------------------------------------------
(* Type correctness *)

LEMMA GotoTypes ==
  ASSUME TypeOK, NEW r \in Requests, NEW stage \in Stages, Goto(r, stage)
  PROVE  /\ pc' \in [Requests -> Stages]
         /\ pc'[r] = stage
         /\ \A q \in Requests \ {r} : pc'[q] = pc[q]
  BY DEF Goto, TypeOK

\* Dropping a guard keeps the files typed, whatever the disk does.
LEMMA DropGuardTypes ==
  ASSUME TypeOK, StagingInv, NEW r \in Requests, DropGuard(r)
  PROVE  guards' \subseteq Direct /\ disk' \subseteq Direct /\ strays' \subseteq disk'
  BY DEF DropGuard, TypeOK, StagingInv, FileInv

LEMMA GiveUpTypes ==
  ASSUME TypeOK, NEW r \in Requests, GiveUp(r)
  PROVE  TypeOK'
<1>1. CASE pc[r] = "queued"
  <2>1. PICK i \in 1..Len(queue) :
          queue' = SubSeq(queue, 1, i - 1) \o SubSeq(queue, i + 1, Len(queue))
    BY <1>1 DEF GiveUp, Building
  <2>2. SubSeq(queue, 1, i - 1) \in Seq(Direct) /\ SubSeq(queue, i + 1, Len(queue)) \in Seq(Direct)
    BY LenProperties, SubSeqProperties DEF TypeOK
  <2>3. queue' \in Seq(Direct)
    BY <2>1, <2>2, ConcatProperties
  <2>4. QED
    BY <1>1, <2>3, GotoTypes
    DEF GiveUp, TypeOK, Stages, Building, procVars, ownVars, fileVars
<1>2. CASE pc[r] # "queued"
  BY <1>2, GotoTypes DEF GiveUp, TypeOK, Stages, Building, procVars, ownVars, fileVars
<1>3. QED
  BY <1>1, <1>2

LEMMA ArriveTypes ==
  ASSUME TypeOK, NEW r \in Requests, Arrive(r)
  PROVE  TypeOK'
<1>1. CASE r \in Direct
  <2>1. Append(queue, r) \in Seq(Direct)
    BY <1>1 DEF TypeOK
  <2>2. QED
    BY <1>1, <2>1, GotoTypes
    DEF Arrive, TypeOK, Stages, Building, procVars, ownVars, fileVars
<1>2. CASE r \notin Direct
  BY <1>2, GotoTypes DEF Arrive, TypeOK, Stages, Building, procVars, ownVars, fileVars
<1>3. QED
  BY <1>1, <1>2

LEMMA AcquireTypes ==
  ASSUME TypeOK, NEW r \in Requests, Acquire(r)
  PROVE  TypeOK'
<1>1. r \in Direct /\ Tail(queue) \in Seq(Direct)
  BY HeadTailProperties DEF Acquire, TypeOK
<1>2. QED
  BY <1>1, GotoTypes DEF Acquire, TypeOK, Stages, Building, procVars, fileVars

\* Giving up touches no file: it ends the wait, or begins the dropping.
LEMMA GiveUpMoves ==
  ASSUME NEW r \in Requests, GiveUp(r)
  PROVE  /\ UNCHANGED <<guards, pool, disk, strays>>
         /\ \/ pc[r] = "queued" /\ Goto(r, "over")
            \/ pc[r] \in Building /\ Goto(r, "dropping")
  BY DEF GiveUp, procVars, ownVars, fileVars

LEMMA StepTypes ==
  ASSUME TypeOK, StagingInv, [Next]_vars
  PROVE  TypeOK'
<1> USE DEF procVars, ownVars, fileVars
<1>1. ASSUME NEW r \in Requests, Arrive(r) \/ Acquire(r) \/ GiveUp(r) PROVE TypeOK'
  BY <1>1, ArriveTypes, AcquireTypes, GiveUpTypes
<1>2. ASSUME NEW r \in Requests,
             \/ Resolved(r) \/ ResolveFails(r) \/ Preflight(r) \/ Created(r) \/ StageDone(r)
             \/ Evict(r) \/ EndStream(r)
      PROVE  TypeOK'
  BY <1>2, GotoTypes DEF Resolved, ResolveFails, Preflight, Created, StageDone, Evict,
                         EndStream, TypeOK, Stages, Building
<1>3. ASSUME NEW r \in Requests, StageFails(r) \/ DropFile(r) PROVE TypeOK'
  BY <1>3, GotoTypes, DropGuardTypes DEF StageFails, DropFile, TypeOK, Stages, Building
<1>4. ASSUME NEW r \in Requests, Release(r) PROVE TypeOK'
  BY <1>4, GotoTypes DEF Release, TypeOK, Stages
<1>5. ASSUME NEW r \in Requests, StartStream(r) PROVE TypeOK'
  BY <1>5, GotoTypes DEF StartStream, TypeOK, Stages
<1>6. ASSUME NEW r \in Requests, CreateRuns(r) PROVE TypeOK'
  BY <1>6 DEF CreateRuns, TypeOK
<1>7. ASSUME NEW r \in Requests, Ffmpeg(r) PROVE TypeOK'
  BY <1>7 DEF Ffmpeg, OpenSource, ChildExits, TypeOK
<1>8. CASE Crash
  <2>1. crashes' \in 0..MaxCrashes
    BY <1>8, StagingAssumption DEF Crash, TypeOK
  <2>2. queue' \in Seq(Direct)
    BY <1>8, EmptySeq DEF Crash
  <2>3. QED
    BY <1>8, <2>1, <2>2 DEF Crash, TypeOK, Stages
<1>9. CASE Startup
  BY <1>9 DEF Startup, TypeOK
<1>10. CASE UNCHANGED vars
  BY <1>10 DEF TypeOK, vars
<1>11. QED
  BY <1>1, <1>2, <1>3, <1>4, <1>5, <1>6, <1>7, <1>8, <1>9, <1>10 DEF Next, Proceed, Over

-------------------------------------------------------------------------------
(* Slots *)

LEMMA SlotsAreFinite ==
  ASSUME TypeOK
  PROVE  IsFiniteSet(slots)
  BY StagingAssumption, FS_Subset DEF TypeOK

LEMMA StepSlots ==
  ASSUME TypeOK, StagingInv, [Next]_vars
  PROVE  SlotInv'
<1> USE DEF procVars, ownVars, fileVars, SlotInv, Stages, Building
<1>1. ASSUME NEW r \in Requests, Acquire(r) PROVE SlotInv'
  <2>1. r \in Direct
    BY <1>1, HeadTailProperties DEF Acquire, TypeOK
  <2>2. Cardinality(slots') <= Capacity
    <3>1. r \notin slots
      BY <1>1 DEF Acquire, StagingInv
    <3>2. Cardinality(slots') = Cardinality(slots) + 1
      BY <1>1, <3>1, SlotsAreFinite, FS_AddElement DEF Acquire
    <3>3. Cardinality(slots) \in Nat
      BY SlotsAreFinite, FS_CardinalityType
    <3>4. QED
      BY <1>1, <3>2, <3>3, StagingAssumption DEF Acquire
  <2>3. QED
    BY <1>1, <2>1, <2>2, GotoTypes, StagingAssumption DEF Acquire, StagingInv
<1>2. ASSUME NEW r \in Requests, Release(r) PROVE SlotInv'
  <2>1. Cardinality(slots') <= Cardinality(slots)
    BY <1>2, SlotsAreFinite, FS_Subset DEF Release
  <2>2. Cardinality(slots) \in Nat /\ Cardinality(slots') \in Nat
    BY <1>2, SlotsAreFinite, FS_CardinalityType, FS_Subset DEF Release
  <2>3. Cardinality(slots') <= Capacity
    BY <2>1, <2>2, StagingAssumption DEF StagingInv
  <2>4. QED
    BY <1>2, <2>3, GotoTypes, StagingAssumption DEF Release, StagingInv
<1>3. ASSUME NEW r \in Requests, Arrive(r) PROVE SlotInv'
  BY <1>3, GotoTypes, StagingAssumption DEF Arrive, StagingInv
<1>4. ASSUME NEW r \in Requests,
             \/ Resolved(r) \/ ResolveFails(r) \/ Preflight(r) \/ Created(r) \/ StageDone(r)
             \/ StageFails(r) \/ Evict(r) \/ DropFile(r) \/ StartStream(r) \/ EndStream(r)
      PROVE  SlotInv'
  <2>1. PICK stage \in Stages \ {"new", "queued", "over"} : Goto(r, stage)
    BY <1>4 DEF Resolved, ResolveFails, Preflight, Created, StageDone, StageFails, Evict,
                DropFile, StartStream, EndStream
  <2>2. pc[r] \notin {"new", "queued", "over"} /\ UNCHANGED slots
    BY <1>4 DEF Resolved, ResolveFails, Preflight, Created, StageDone, StageFails, Evict,
                DropFile, StartStream, EndStream
  <2>3. QED
    BY <2>1, <2>2, GotoTypes, StagingAssumption DEF StagingInv
<1>5. ASSUME NEW r \in Requests, GiveUp(r) PROVE SlotInv'
  BY <1>5, GotoTypes, StagingAssumption DEF GiveUp, StagingInv
<1>6. CASE Crash
  BY <1>6, FS_EmptySet, StagingAssumption DEF Crash
<1>7. CASE UNCHANGED <<pc, slots>>
  BY <1>7 DEF StagingInv
<1>8. CASE \/ Startup \/ UNCHANGED vars \/ \E r \in Requests : CreateRuns(r) \/ Ffmpeg(r)
  BY <1>7, <1>8 DEF Startup, vars, CreateRuns, Ffmpeg, OpenSource, ChildExits
<1>9. QED
  BY <1>1, <1>2, <1>3, <1>4, <1>5, <1>6, <1>8 DEF Next, Proceed, Over

-------------------------------------------------------------------------------
(* Guards *)

LEMMA StepGuards ==
  ASSUME TypeOK, StagingInv, [Next]_vars
  PROVE  GuardInv'
<1> USE StagingAssumption DEF procVars, ownVars, fileVars, GuardInv, Stages, Building, TypeOK
<1>1. ASSUME NEW r \in Requests, Arrive(r) PROVE GuardInv'
  BY <1>1, GotoTypes DEF Arrive, StagingInv
<1>2. ASSUME NEW r \in Requests, Acquire(r) PROVE GuardInv'
  BY <1>2, GotoTypes DEF Acquire, StagingInv
<1>3. ASSUME NEW r \in Requests, Resolved(r) PROVE GuardInv'
  BY <1>3, GotoTypes DEF Resolved, StagingInv
<1>4. ASSUME NEW r \in Requests,
             ResolveFails(r) \/ Preflight(r) \/ Evict(r) \/ Release(r)
      PROVE  GuardInv'
  BY <1>4, GotoTypes DEF ResolveFails, Preflight, Evict, Release, StagingInv
<1>5. ASSUME NEW r \in Requests,
             Created(r) \/ StageDone(r) \/ StartStream(r) \/ EndStream(r)
      PROVE  GuardInv'
  BY <1>5, GotoTypes DEF Created, StageDone, StartStream, EndStream, StagingInv
<1>6. ASSUME NEW r \in Requests, StageFails(r) \/ DropFile(r) PROVE GuardInv'
  BY <1>6, GotoTypes DEF StageFails, DropFile, DropGuard, StagingInv
<1>7. ASSUME NEW r \in Requests, GiveUp(r) PROVE GuardInv'
  BY <1>7, GiveUpMoves, GotoTypes DEF StagingInv
<1>8. CASE Crash
  BY <1>8 DEF Crash, StagingInv
<1>9. CASE UNCHANGED <<pc, guards>>
  BY <1>9 DEF StagingInv
<1>10. CASE \/ Startup \/ UNCHANGED vars \/ \E r \in Requests : CreateRuns(r) \/ Ffmpeg(r)
  BY <1>9, <1>10 DEF Startup, vars, CreateRuns, Ffmpeg, OpenSource, ChildExits
<1> HIDE DEF procVars, ownVars, fileVars, GuardInv, Stages, Building, TypeOK
<1>11. QED
  BY <1>1, <1>2, <1>3, <1>4, <1>5, <1>6, <1>7, <1>8, <1>10 DEF Next, Proceed, Over

-------------------------------------------------------------------------------
(* Files *)

LEMMA StepFiles ==
  ASSUME TypeOK, StagingInv, [Next]_vars
  PROVE  FileInv'
<1> USE StagingAssumption
    DEF procVars, ownVars, fileVars, FileInv, OnlyKnownStrays, Owned, Stages, Building, TypeOK
<1>1. ASSUME NEW r \in Requests, Arrive(r) PROVE FileInv'
  BY <1>1, GotoTypes DEF Arrive, StagingInv
<1>2. ASSUME NEW r \in Requests, Acquire(r) PROVE FileInv'
  BY <1>2, GotoTypes DEF Acquire, StagingInv
<1>3. ASSUME NEW r \in Requests, Resolved(r) PROVE FileInv'
  BY <1>3, GotoTypes DEF Resolved, StagingInv
<1>4. ASSUME NEW r \in Requests,
             ResolveFails(r) \/ Preflight(r) \/ Evict(r) \/ Release(r)
      PROVE  FileInv'
  BY <1>4, GotoTypes DEF ResolveFails, Preflight, Evict, Release, StagingInv, GuardInv
<1>5. ASSUME NEW r \in Requests,
             Created(r) \/ StageDone(r) \/ StartStream(r) \/ EndStream(r)
      PROVE  FileInv'
  BY <1>5, GotoTypes DEF Created, StageDone, StartStream, EndStream, StagingInv
<1>6. ASSUME NEW r \in Requests, StageFails(r) \/ DropFile(r) PROVE FileInv'
  BY <1>6, GotoTypes DEF StageFails, DropFile, DropGuard, StagingInv
<1>7. ASSUME NEW r \in Requests, GiveUp(r) PROVE FileInv'
  BY <1>7, GiveUpMoves, GotoTypes DEF StagingInv
<1>8. ASSUME NEW r \in Requests, CreateRuns(r) PROVE FileInv'
  BY <1>8 DEF CreateRuns, StagingInv
<1>9. CASE Crash
  BY <1>9 DEF Crash, StagingInv
<1>10. CASE Startup
  BY <1>10 DEF Startup, StagingInv, DownInv, GuardInv
<1>11. CASE UNCHANGED <<pc, guards, pool, disk, strays>>
  BY <1>11 DEF StagingInv
<1>12. CASE UNCHANGED vars \/ \E r \in Requests : Ffmpeg(r)
  BY <1>11, <1>12 DEF vars, Ffmpeg, OpenSource, ChildExits
<1> HIDE DEF procVars, ownVars, fileVars, FileInv, OnlyKnownStrays, Owned, Stages, Building,
             TypeOK
<1>13. QED
  BY <1>1, <1>2, <1>3, <1>4, <1>5, <1>6, <1>7, <1>8, <1>9, <1>10, <1>12
  DEF Next, Proceed, Over

-------------------------------------------------------------------------------
(* A process that is down *)

\* While the process is down nothing happens but its start.
LEMMA StepDown ==
  ASSUME TypeOK, StagingInv, [Next]_vars
  PROVE  DownInv'
<1> USE DEF procVars, ownVars, fileVars, DownInv
<1>1. CASE Crash
  BY <1>1 DEF Crash
<1>2. CASE Startup
  BY <1>2 DEF Startup
<1>3. CASE UNCHANGED vars
  BY <1>3 DEF vars, StagingInv
<1>4. ASSUME NEW r \in Requests,
             Arrive(r) \/ Proceed(r) \/ CreateRuns(r) \/ GiveUp(r) \/ EndStream(r)
      PROVE  up /\ up' = up
  BY <1>4 DEF Arrive, Proceed, Acquire, Resolved, ResolveFails, Preflight, Created, StageDone,
              StageFails, Evict, DropFile, Release, StartStream, CreateRuns, GiveUp,
              EndStream, StagingInv, TypeOK, Building
<1>5. ASSUME NEW r \in Requests, Ffmpeg(r) PROVE UNCHANGED <<up, slots, guards, pool, pc>>
  BY <1>5 DEF Ffmpeg, OpenSource, ChildExits
<1>6. QED
  BY <1>1, <1>2, <1>3, <1>4, <1>5 DEF Next, Over, StagingInv

-------------------------------------------------------------------------------
(* Theorems *)

LEMMA InitInv ==
  ASSUME Init
  PROVE  TypeOK /\ StagingInv
<1> USE StagingAssumption DEF Init
<1>1. Cardinality({}) = 0 /\ queue \in Seq(Direct)
  BY FS_EmptySet, EmptySeq
<1>2. TypeOK
  <2>1. crashes \in 0..MaxCrashes /\ pc \in [Requests -> Stages]
    BY DEF Stages
  <2>2. child \in [Requests -> {"none", "starting", "reading", "gone"}]
    OBVIOUS
  <2>3. QED
    BY <1>1, <2>1, <2>2 DEF TypeOK
<1>3. SlotInv /\ GuardInv /\ FileInv /\ DownInv
  BY <1>1 DEF SlotInv, GuardInv, FileInv, DownInv, OnlyKnownStrays, Owned
<1>4. QED
  BY <1>2, <1>3 DEF StagingInv

LEMMA InvariantHolds == Spec => [](TypeOK /\ StagingInv)
<1>1. TypeOK /\ StagingInv /\ [Next]_vars => (TypeOK /\ StagingInv)'
  BY StepTypes, StepSlots, StepGuards, StepFiles, StepDown DEF StagingInv
<1>2. QED
  BY <1>1, InitInv, PTL DEF Spec

\* The state of the staging machinery is always well typed.
THEOREM StagingTypeCorrect == Spec => []TypeOK
  BY InvariantHolds, PTL

\* Slots, guards, files and a process that is down fit together, always.
THEOREM StagingInvariant == Spec => []StagingInv
  BY InvariantHolds, PTL

\* "One slot per Staged Source on disk" (StagedSource), for every capacity of the gate
\* and however many requests, crashes and failing removals there are.
THEOREM OwnedFilesBounded == Spec => []OwnedWithinCapacity
<1>1. ASSUME TypeOK, StagingInv PROVE OwnedWithinCapacity
  <2>1. guards \subseteq slots
    BY <1>1 DEF StagingInv, SlotInv, GuardInv, TypeOK
  <2>2. Owned \subseteq slots
    BY <1>1, <2>1 DEF StagingInv, FileInv, OnlyKnownStrays
  <2>3. /\ Cardinality(Owned) <= Cardinality(slots)
        /\ Cardinality(Owned) \in Nat /\ Cardinality(slots) \in Nat
    BY <1>1, <2>2, SlotsAreFinite, FS_Subset, FS_CardinalityType
  <2>4. QED
    BY <1>1, <2>3, StagingAssumption DEF OwnedWithinCapacity, StagingInv, SlotInv
<1>2. QED
  BY <1>1, InvariantHolds, PTL

\* Every staged file is deleted by a guard that is alive, or is a known stray.
THEOREM OnlyKnownFilesLeft == Spec => []OnlyKnownStrays
<1>1. StagingInv => OnlyKnownStrays
  BY DEF StagingInv, FileInv
<1>2. QED
  BY <1>1, InvariantHolds, PTL

\* The source of a transcode in progress stays on disk.
THEOREM SourceIsThere == Spec => []SourceStays
<1>1. StagingInv => SourceStays
  BY DEF StagingInv, FileInv, SourceStays
<1>2. QED
  BY <1>1, InvariantHolds, PTL

-------------------------------------------------------------------------------
(* Refinement *)

\* A dropped guard removes its file, if it owns one.
LEMMA DropGuardRemoves ==
  ASSUME TypeOK, StagingInv, NEW r \in Requests, DropGuard(r), UNCHANGED slots
  PROVE  Promise!Remove(r) \/ UNCHANGED <<slots, Owned>>
<1>1. Owned' = Owned \ {r}
  BY DEF DropGuard, Owned, StagingInv, FileInv, OnlyKnownStrays
<1>2. QED
  BY <1>1 DEF Promise!Remove

\* A file appears under its owner's slot, or astray.
LEMMA CreateMakes ==
  ASSUME TypeOK, StagingInv, NEW r \in Requests, CreateRuns(r)
  PROVE  Promise!Make(r) \/ UNCHANGED <<slots, Owned>>
<1>1. guards \subseteq slots /\ r \notin disk /\ r \notin strays
  BY DEF CreateRuns, TypeOK, StagingInv, SlotInv, GuardInv, FileInv
<1>2. CASE r \in guards
  BY <1>1, <1>2 DEF CreateRuns, Owned, ownVars, Promise!Make
<1>3. CASE r \notin guards
  BY <1>1, <1>3 DEF CreateRuns, Owned, ownVars
<1>4. QED
  BY <1>2, <1>3

LEMMA StepRefines ==
  ASSUME TypeOK, StagingInv, [Next]_vars
  PROVE  [Promise!Next]_<<slots, Owned>>
<1> USE DEF procVars, ownVars, fileVars
<1>1. ASSUME NEW r \in Requests, Acquire(r) PROVE Promise!Take(r)
  <2>1. r \notin slots
    BY <1>1 DEF Acquire, StagingInv, SlotInv
  <2>2. Promise!Cardinality(slots) = Cardinality(slots)
    BY DEF Promise!Cardinality, Cardinality
  <2>3. QED
    BY <1>1, <2>1, <2>2 DEF Acquire, Owned, Promise!Take
<1>2. ASSUME NEW r \in Requests, Release(r)
      PROVE  Promise!Return(r) \/ UNCHANGED <<slots, Owned>>
  <2>1. r \notin Owned /\ UNCHANGED Owned
    BY <1>2 DEF Release, StagingInv, GuardInv, FileInv, OnlyKnownStrays, Owned
  <2>2. QED
    BY <1>2, <2>1 DEF Release, Promise!Return
<1>3. ASSUME NEW r \in Requests, StageFails(r) \/ DropFile(r)
      PROVE  Promise!Remove(r) \/ UNCHANGED <<slots, Owned>>
  BY <1>3, DropGuardRemoves DEF StageFails, DropFile
<1>4. ASSUME NEW r \in Requests, CreateRuns(r)
      PROVE  Promise!Make(r) \/ UNCHANGED <<slots, Owned>>
  BY <1>4, CreateMakes
<1>5. CASE Crash
  BY <1>5 DEF Crash, Owned, Promise!Reset, Promise!Next
<1>6. CASE Startup
  <2>1. Owned = {} /\ Owned' = {}
    BY <1>6 DEF Startup, Owned, StagingInv, DownInv, FileInv, OnlyKnownStrays
  <2>2. UNCHANGED slots
    BY <1>6 DEF Startup
  <2>3. QED
    BY <2>1, <2>2
<1>7. ASSUME NEW r \in Requests,
             \/ Arrive(r) \/ Resolved(r) \/ ResolveFails(r) \/ Preflight(r) \/ Created(r)
             \/ StageDone(r) \/ Evict(r) \/ StartStream(r) \/ GiveUp(r) \/ EndStream(r)
             \/ Ffmpeg(r)
      PROVE  UNCHANGED <<slots, Owned>>
  BY <1>7 DEF Arrive, Resolved, ResolveFails, Preflight, Created, StageDone, Evict, StartStream,
              GiveUp, EndStream, Ffmpeg, OpenSource, ChildExits, Owned
<1>8. CASE UNCHANGED vars
  BY <1>8 DEF vars, Owned
<1> HIDE DEF procVars, ownVars, fileVars
<1>9. ASSUME NEW r \in Requests,
             Arrive(r) \/ Proceed(r) \/ CreateRuns(r) \/ GiveUp(r) \/ EndStream(r) \/ Ffmpeg(r)
      PROVE  \/ Promise!Take(r) \/ Promise!Make(r) \/ Promise!Remove(r) \/ Promise!Return(r)
             \/ UNCHANGED <<slots, Owned>>
  BY <1>1, <1>2, <1>3, <1>4, <1>7, <1>9 DEF Proceed
<1>10. CASE \E r \in Requests : \/ Arrive(r) \/ Proceed(r) \/ CreateRuns(r) \/ GiveUp(r)
                                \/ EndStream(r) \/ Ffmpeg(r)
  BY <1>9, <1>10 DEF Promise!Next
<1>11. QED
  BY <1>5, <1>6, <1>8, <1>10 DEF Next, Over

\* The owned files implement the gate's promise: made only under a slot, gone before the
\* slot returns, however requests give up, stages fail, creations run late and the process
\* dies (StagedSource's field order, StagedFileGuard's drop, sweep_orphans).
THEOREM ImplementsSlottedFiles == Spec => RefinesSlottedFiles
<1>1. Init => Promise!Init
  BY DEF Init, Promise!Init, Owned
<1>2. TypeOK /\ StagingInv /\ [Next]_vars => [Promise!Next]_<<slots, Owned>>
  BY StepRefines
<1>3. QED
  BY <1>1, <1>2, InvariantHolds, PTL
  DEF Spec, RefinesSlottedFiles, Promise!Spec, Promise!slottedVars
===============================================================================
