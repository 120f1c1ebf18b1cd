------------------------------ MODULE StagedSources ------------------------------
(***************************************************************************)
(* The life of staged sources: the Staging Gate, the resolver's slot, the  *)
(* guard that owns the temp file, the transcode that reads it, the         *)
(* construction timeout of the server, and the Startup Sweep.  One request *)
(* stages at most one file, named after it (the uuid of reserve_in); what  *)
(* the stage fetches into the file is SourceStage's subject.               *)
(***************************************************************************)
EXTENDS Naturals, Sequences, FiniteSets

CONSTANTS
  Requests,     \* the transcode requests
  Direct,       \* those whose provider streams direct media: they are staged
  Capacity,     \* STAGE_CONCURRENCY, floored at one (stage_gate_of)
  DiskErrors,   \* may creating or removing a file fail?
  MaxCrashes    \* bound: how often the process dies

ASSUME StagingAssumption ==
  /\ IsFiniteSet(Requests)
  /\ Direct \subseteq Requests
  /\ Capacity \in Nat \ {0}
  /\ DiskErrors \in BOOLEAN
  /\ MaxCrashes \in Nat

VARIABLES
  up,        \* is the process serving?
  crashes,   \* how often it died
  pc,        \* how far each request got
  queue,     \* the requests waiting for a slot, first come first served
  slots,     \* the requests holding a permit of the gate
  guards,    \* the requests whose StagedFileGuard is alive
  pool,      \* the file creations handed to the blocking pool and not yet run
  disk,      \* the staged files in the temp dir
  child,     \* the ffmpeg of each request: none, starting, reading, gone
  strays     \* the files nobody will delete before the next sweep

procVars == <<up, crashes>>
ownVars == <<slots, guards>>
fileVars == <<disk, strays>>
vars == <<procVars, pc, queue, ownVars, pool, fileVars, child>>

Building == {"resolving", "preflight", "creating", "fetching", "evicting"}
Stages ==
  {"new", "queued", "built", "streaming", "dropping", "releasing", "over"} \cup Building

TypeOK ==
  /\ up \in BOOLEAN
  /\ crashes \in 0..MaxCrashes
  /\ pc \in [Requests -> Stages]
  /\ queue \in Seq(Direct)
  /\ slots \subseteq Direct
  /\ guards \subseteq Direct
  /\ pool \subseteq Direct
  /\ disk \subseteq Direct
  /\ child \in [Requests -> {"none", "starting", "reading", "gone"}]
  /\ strays \subseteq disk

Goto(r, stage) == pc' = [pc EXCEPT ![r] = stage]

-------------------------------------------------------------------------------
(* The resolver *)

\* The one staging decision: a staged request queues for a slot, any other goes on
\* without one.
Arrive(r) ==
  /\ up
  /\ pc[r] = "new"
  /\ IF r \in Direct
       THEN Goto(r, "queued") /\ queue' = Append(queue, r)
       ELSE Goto(r, "resolving") /\ UNCHANGED queue
  /\ UNCHANGED <<procVars, ownVars, pool, fileVars, child>>

\* The gate serves its waiters in the order they came.
Acquire(r) ==
  /\ pc[r] = "queued"
  /\ queue # <<>> /\ r = Head(queue)
  /\ Cardinality(slots) < Capacity
  /\ queue' = Tail(queue)
  /\ slots' = slots \cup {r}
  /\ Goto(r, "resolving")
  /\ UNCHANGED <<procVars, guards, pool, fileVars, child>>

\* get_stream_url has the Stream URL.  The stage reserves its guard and hands the
\* creation of the file to the blocking pool; the legacy check is the preflight.
Resolved(r) ==
  /\ pc[r] = "resolving"
  /\ IF r \in Direct
       THEN /\ Goto(r, "creating")
            /\ guards' = guards \cup {r}
            /\ pool' = pool \cup {r}
       ELSE Goto(r, "preflight") /\ UNCHANGED <<guards, pool>>
  /\ UNCHANGED <<procVars, queue, slots, fileVars, child>>

\* get_stream_url failed: nothing to evict, the slot drops.
ResolveFails(r) ==
  /\ pc[r] = "resolving"
  /\ Goto(r, "releasing")
  /\ UNCHANGED <<procVars, queue, ownVars, pool, fileVars, child>>

\* The preflight passes; or it does not and the cached resolution is evicted.
Preflight(r) ==
  /\ pc[r] = "preflight"
  /\ Goto(r, "built") \/ Goto(r, "evicting")
  /\ UNCHANGED <<procVars, queue, ownVars, pool, fileVars, child>>

\* The blocking pool creates the file, whether or not anybody still waits for it.
CreateRuns(r) ==
  /\ up
  /\ r \in pool
  /\ pool' = pool \ {r}
  /\ \/ disk' = disk \cup {r}
     \/ DiskErrors /\ UNCHANGED disk
  /\ strays' = IF r \in guards THEN strays ELSE strays \cup (disk' \ disk)
  /\ UNCHANGED <<procVars, pc, queue, ownVars, child>>

\* File::create returned.
Created(r) ==
  /\ pc[r] = "creating"
  /\ r \in disk
  /\ Goto(r, "fetching")
  /\ UNCHANGED <<procVars, queue, ownVars, pool, fileVars, child>>

\* The source is staged and verified; the guard crosses the seam.
StageDone(r) ==
  /\ pc[r] = "fetching"
  /\ Goto(r, "built")
  /\ UNCHANGED <<procVars, queue, ownVars, pool, fileVars, child>>

-------------------------------------------------------------------------------
(* Dropping what is owned *)

\* StagedFileGuard::drop, of a guard that is still there.  A file that cannot be
\* removed is nobody's from here on.
DropGuard(r) ==
  /\ guards' = guards \ {r}
  /\ \/ disk' = disk \ (guards \cap {r}) /\ UNCHANGED strays
     \/ DiskErrors /\ UNCHANGED disk /\ strays' = strays \cup (disk \cap {r})

\* Mutation: a failed stage forgets its file.
StageFails_Leaky(r) ==
  /\ pc[r] \in {"creating", "fetching"}
  /\ guards' = guards \ {r}
  /\ Goto(r, "evicting")
  /\ UNCHANGED <<procVars, queue, slots, pool, fileVars, child>>

\* The stage fails or runs into its own deadline: check drops the guard and the
\* cached resolution is evicted.
StageFails(r) ==
  /\ pc[r] \in {"creating", "fetching"}
  /\ DropGuard(r)
  /\ Goto(r, "evicting")
  /\ UNCHANGED <<procVars, queue, slots, pool, child>>

Evict(r) ==
  /\ pc[r] = "evicting"
  /\ Goto(r, "releasing")
  /\ UNCHANGED <<procVars, queue, ownVars, pool, fileVars, child>>

\* Mutation: a request that gives up in the queue keeps its place.
GiveUp_Ghost(r) ==
  \/ /\ pc[r] = "queued"
     /\ Goto(r, "over")
     /\ UNCHANGED <<procVars, queue, ownVars, pool, fileVars, child>>
  \/ /\ pc[r] \in Building
     /\ Goto(r, "dropping")
     /\ UNCHANGED <<procVars, queue, ownVars, pool, fileVars, child>>

\* The construction timeout fires, or the client is gone: the future is dropped
\* where it stands.
GiveUp(r) ==
  \/ /\ pc[r] = "queued"
     /\ \E i \in 1..Len(queue) :
          /\ queue[i] = r
          /\ queue' = SubSeq(queue, 1, i - 1) \o SubSeq(queue, i + 1, Len(queue))
     /\ Goto(r, "over")
     /\ UNCHANGED <<procVars, ownVars, pool, fileVars, child>>
  \/ /\ pc[r] \in Building
     /\ Goto(r, "dropping")
     /\ UNCHANGED <<procVars, queue, ownVars, pool, fileVars, child>>

\* Mutation: the slot drops before the file.
DropFile_SlotFirst(r) ==
  /\ pc[r] = "dropping"
  /\ slots' = slots \ {r}
  /\ Goto(r, "releasing")
  /\ UNCHANGED <<procVars, queue, guards, pool, fileVars, child>>

\* The file goes first ...
DropFile(r) ==
  /\ pc[r] = "dropping"
  /\ DropGuard(r)
  /\ Goto(r, "releasing")
  /\ UNCHANGED <<procVars, queue, slots, pool, child>>

\* Mutation: a request that ends without a file keeps its slot.
Release_KeepsSlot(r) ==
  /\ pc[r] = "releasing"
  /\ slots' = IF child[r] = "none" THEN slots ELSE slots \ {r}
  /\ Goto(r, "over")
  /\ UNCHANGED <<procVars, queue, guards, pool, fileVars, child>>

\* ... then the slot returns to the gate.
Release(r) ==
  /\ pc[r] = "releasing"
  /\ slots' = slots \ {r}
  /\ Goto(r, "over")
  /\ UNCHANGED <<procVars, queue, guards, pool, fileVars, child>>

-------------------------------------------------------------------------------
(* The transcode *)

\* The first poll of the response spawns ffmpeg.
StartStream(r) ==
  /\ pc[r] = "built"
  /\ Goto(r, "streaming")
  /\ child' = [child EXCEPT ![r] = "starting"]
  /\ UNCHANGED <<procVars, queue, ownVars, pool, fileVars>>

\* ffmpeg opens its input: the staged file, which has to exist by name.
OpenSource(r) ==
  /\ child[r] = "starting"
  /\ child' = [child EXCEPT ![r] = IF r \in Direct \ disk THEN "gone" ELSE "reading"]
  /\ UNCHANGED <<procVars, pc, queue, ownVars, pool, fileVars>>

ChildExits(r) ==
  /\ child[r] \in {"starting", "reading"}
  /\ child' = [child EXCEPT ![r] = "gone"]
  /\ UNCHANGED <<procVars, pc, queue, ownVars, pool, fileVars>>

\* The stream ended, failed or lost its client, started or not: what it owns is
\* dropped, whatever ffmpeg does.
EndStream(r) ==
  /\ pc[r] \in {"built", "streaming"}
  /\ Goto(r, "dropping")
  /\ UNCHANGED <<procVars, queue, ownVars, pool, fileVars, child>>

-------------------------------------------------------------------------------
(* Crash and startup *)

\* The process dies: no drop runs.
Crash ==
  /\ up
  /\ crashes < MaxCrashes
  /\ up' = FALSE
  /\ crashes' = crashes + 1
  /\ pc' = [r \in Requests |-> IF pc[r] = "new" THEN "new" ELSE "over"]
  /\ queue' = <<>>
  /\ slots' = {} /\ guards' = {} /\ pool' = {}
  /\ strays' = disk
  /\ UNCHANGED <<disk, child>>

\* Mutation: the sweep runs beside the first requests.
Startup_SweepsLate ==
  \/ ~up /\ up' = TRUE /\ UNCHANGED <<crashes, pc, queue, ownVars, pool, fileVars, child>>
  \/ /\ up /\ disk # {}
     /\ disk' = {} /\ strays' = {}
     /\ UNCHANGED <<procVars, pc, queue, ownVars, pool, child>>

\* main: the sweep, best effort, before the gate exists and anybody is served.
Startup ==
  /\ ~up
  /\ up' = TRUE
  /\ \E kept \in SUBSET disk :
       /\ kept # {} => DiskErrors
       /\ disk' = kept /\ strays' = kept
  /\ UNCHANGED <<crashes, pc, queue, ownVars, pool, child>>

-------------------------------------------------------------------------------
(* Specification *)

Init ==
  /\ up = FALSE /\ crashes = 0
  /\ pc = [r \in Requests |-> "new"]
  /\ queue = <<>>
  /\ slots = {} /\ guards = {} /\ pool = {}
  /\ disk = {} /\ strays = {}
  /\ child = [r \in Requests |-> "none"]

\* Everything a request does by itself.
Proceed(r) ==
  \/ Acquire(r) \/ Resolved(r) \/ ResolveFails(r) \/ Preflight(r) \/ Created(r)
  \/ StageDone(r) \/ StageFails(r) \/ Evict(r) \/ DropFile(r) \/ Release(r)
  \/ StartStream(r)

Ffmpeg(r) == OpenSource(r) \/ ChildExits(r)

\* Nothing is left to do.
Over ==
  /\ up
  /\ \A r \in Requests : pc[r] = "over" /\ child[r] \in {"none", "gone"}
  /\ pool = {}
  /\ UNCHANGED vars

Next ==
  \/ Startup \/ Crash \/ Over
  \/ \E r \in Requests :
       Arrive(r) \/ Proceed(r) \/ CreateRuns(r) \/ GiveUp(r) \/ EndStream(r) \/ Ffmpeg(r)

Spec == Init /\ [][Next]_vars

\* Dropping runs to its end once it began, the blocking pool runs what it was given,
\* a construction that lasts too long is cut off, and every stream ends (StdoutPump:
\* its client leaves, or keeps reading).
Fairness ==
  /\ WF_vars(Startup)
  /\ \A r \in Requests :
       /\ WF_vars(Acquire(r)) /\ WF_vars(DropFile(r) \/ Release(r))
       /\ WF_vars(CreateRuns(r))
       /\ WF_vars(pc[r] \in Building /\ GiveUp(r))
       /\ WF_vars(EndStream(r))

FairSpec == Spec /\ Fairness

-------------------------------------------------------------------------------
(* Properties *)

\* The staged files that somebody will delete.
Owned == disk \ strays

\* "One slot per Staged Source on disk": with the file dropped before its slot there
\* is never a window holding more owned files than slots (StagedSource).
OwnedWithinCapacity == Cardinality(Owned) <= Capacity

\* Whatever ends a request, its file is deleted; left behind are only the files of a
\* crash, of a failed removal, and of a creation that outlived its guard.
OnlyKnownStrays == Owned \subseteq guards

\* A transcode in progress keeps its source: no other request, no late creation and
\* no sweep takes it away.
SourceStays == \A r \in Direct : pc[r] = "streaming" => r \in disk

\* The gate serves everybody who waits, as long as streams end.
NobodyStarves == \A r \in Requests : pc[r] = "queued" ~> pc[r] # "queued"

\* Every slot comes back.
SlotsReturn == \A r \in Requests : r \in slots ~> r \notin slots

\* The owned files implement the slotted files of the gate's promise.
Promise == INSTANCE SlottedFiles
  WITH Owners <- Requests, Places <- Capacity, busy <- slots, files <- Owned

RefinesSlottedFiles == Promise!Spec

\* "There is no unowned window": every staged file has a guard that deletes it.
NoUnownedFile == disk \subseteq guards

-------------------------------------------------------------------------------
(* The inductive invariant *)

\* A slot is held exactly from the end of the queue to the release.
SlotInv ==
  /\ Cardinality(slots) <= Capacity
  /\ slots = {r \in Direct : pc[r] \notin {"new", "queued", "over"}}

\* A guard lives from the reservation until it is dropped.
GuardInv ==
  /\ guards \subseteq {r \in Direct :
                         pc[r] \in {"creating", "fetching", "built", "streaming", "dropping"}}
  /\ \A r \in Direct : pc[r] \in {"creating", "fetching", "built", "streaming"} => r \in guards
  /\ \A r \in Direct : pc[r] # "preflight"
  /\ \A r \in Requests \ Direct : pc[r] \notin {"queued", "creating", "fetching"}

\* A file is created at most once, under its guard or astray.
FileInv ==
  /\ pool \cap disk = {}
  /\ strays \cap guards = {}
  /\ \A r \in pool \cup disk : pc[r] \notin {"new", "queued", "resolving"}
  /\ \A r \in pool : pc[r] \notin {"fetching", "built", "streaming"}
  /\ \A r \in Direct : pc[r] \in {"fetching", "built", "streaming"} => r \in disk
  /\ OnlyKnownStrays

\* A process that is down owns nothing.
DownInv ==
  ~up => /\ slots = {} /\ guards = {} /\ pool = {}
         /\ \A r \in Requests : pc[r] \in {"new", "over"}

StagingInv == SlotInv /\ GuardInv /\ FileInv /\ DownInv
===============================================================================
