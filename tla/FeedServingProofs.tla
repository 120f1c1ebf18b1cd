--------------------------- MODULE FeedServingProofs ---------------------------
(***************************************************************************)
(* Proofs about FeedServing, for any feeds, workers, windows and bounds.   *)
(***************************************************************************)
EXTENDS FeedServing, FiniteSetTheorems, TLAPS

-------------------------------------------------------------------------------
(* Type correctness *)

\* A pass that ends leaves well-typed locals behind.
LEMMA EndTypes ==
  ASSUME TypeOK, NEW w \in Workers, End(w)
  PROVE  /\ pc' \in [Workers -> Stages]
         /\ feed' \in [Workers -> Feeds \cup {NoFeed}]
         /\ slot' \in [Workers -> Locks \cup {NoLock}]
         /\ draft' \in [Workers -> Draft]
         /\ grant' \in [Workers -> Nat]
         /\ \A v \in Workers : pc'[v] # "idle" => feed'[v] \in Feeds
  BY DEF End, TypeOK, Stages, Draft, NoDraft

\* So does a pass that moves on to another stage with its feed.
LEMMA AdvanceTypes ==
  ASSUME TypeOK, NEW w \in Workers, pc[w] # "idle",
         NEW stage \in Stages, Advance(w, stage), UNCHANGED feed
  PROVE  /\ pc' \in [Workers -> Stages]
         /\ \A v \in Workers : pc'[v] # "idle" => feed'[v] \in Feeds
  BY DEF Advance, TypeOK

\* Taking a lock from the map keeps the map well typed.
LEMMA TakeLockTypes ==
  ASSUME TypeOK, NEW k \in Feeds, NEW l \in Locks, TakeLock(k, l)
  PROVE  tracked' \in [Feeds -> Locks \cup {NoLock}]
  BY DEF TakeLock, Swept, TypeOK

LEMMA NextResetIsNat ==
  ASSUME NEW t \in Nat
  PROVE  NextReset(t) \in Nat
  BY PolicyAssumption DEF NextReset

\* Storing or landing a draft keeps the store well typed.
LEMMA WriteTypes ==
  ASSUME TypeOK, NEW k \in Feeds, NEW d \in Draft, Write(k, d)
  PROVE  copy' \in [Feeds -> Copy] /\ marker' \in [Feeds -> Nat]
<1>1. StoreTTLs(d) \subseteq Nat
  BY PolicyAssumption DEF StoreTTLs
<1>2. QED
  BY <1>1, PolicyAssumption DEF Write, TypeOK, Copy, Draft

LEMMA InitTypes == Init => TypeOK
  BY FeedsAssumption, PolicyAssumption
  DEF Init, TypeOK, Copy, NoCopy, Draft, NoDraft, Stages

LEMMA FailOverTypes ==
  ASSUME TypeOK, NEW w \in Workers, pc[w] # "idle", FailOver(w)
  PROVE  /\ pc' \in [Workers -> Stages]
         /\ feed' \in [Workers -> Feeds \cup {NoFeed}]
         /\ slot' \in [Workers -> Locks \cup {NoLock}]
         /\ draft' \in [Workers -> Draft]
         /\ grant' \in [Workers -> Nat]
         /\ \A v \in Workers : pc'[v] # "idle" => feed'[v] \in Feeds
<1>1. CASE w \in Tasks /\ End(w)
  BY <1>1, EndTypes
<1>2. CASE ~(w \in Tasks /\ End(w))
  BY <1>2, AdvanceTypes DEF FailOver, TypeOK, Stages
<1>. QED
  BY <1>1, <1>2

LEMMA PassTypes ==
  ASSUME TypeOK, NEW w \in Workers, PassStep(w)
  PROVE  TypeOK'
<1>. USE DEF storeVars
<1>1. CASE CheckBreaker(w)
  <2>1. CASE End(w)
    BY <1>1, <2>1, EndTypes DEF CheckBreaker, TypeOK
  <2>2. CASE ~End(w)
    <3>1. PICK stage \in {"loading", "converting", "degrading"} :
            Advance(w, stage) /\ UNCHANGED <<feed, slot, draft, grant>>
      BY <1>1, <2>2 DEF CheckBreaker
    <3>. QED
      BY <1>1, <3>1, AdvanceTypes DEF CheckBreaker, TypeOK, Stages
  <2>. QED
    BY <2>1, <2>2
<1>2. CASE ConvertOk(w)
  BY <1>2, AdvanceTypes DEF ConvertOk, TypeOK, Stages, Draft
<1>3. CASE ConvertOutOfQuota(w)
  BY <1>3, AdvanceTypes DEF ConvertOutOfQuota, TypeOK, Stages
<1>4. CASE ConvertFail(w)
  BY <1>4, FailOverTypes DEF ConvertFail, TypeOK
<1>5. CASE Trip(w)
  <2>1. NextReset(now) \in Nat
    BY NextResetIsNat DEF TypeOK
  <2>. QED
    BY <1>5, <2>1, FailOverTypes DEF Trip, TypeOK
<1>6. CASE Store(w)
  <2>1. feed[w] \in Feeds /\ draft[w] \in Draft
    BY <1>6 DEF Store, TypeOK
  <2>2. copy' \in [Feeds -> Copy] /\ marker' \in [Feeds -> Nat]
    <3>1. CASE Write(feed[w], draft[w])
      BY <2>1, <3>1, WriteTypes
    <3>2. CASE UNCHANGED <<copy, marker>>
      BY <3>2 DEF TypeOK
    <3>. QED
      BY <1>6, <3>1, <3>2 DEF Store
  <2>. QED
    BY <1>6, <2>2, EndTypes DEF Store, TypeOK
<1>. QED
  BY <1>1, <1>2, <1>3, <1>4, <1>5, <1>6 DEF PassStep

LEMMA RequestTypes ==
  ASSUME TypeOK, NEW r \in Requests, RequestStep(r)
  PROVE  TypeOK'
<1>. r \in Workers
  BY DEF Workers
<1>. USE DEF storeVars
<1>1. CASE ServeFresh(r)
  BY <1>1, EndTypes DEF ServeFresh, TypeOK
<1>2. ASSUME NEW t \in Tasks, ServeStale(r, t)
      PROVE  TypeOK'
  BY <1>2 DEF ServeStale, TypeOK, Stages, Workers
<1>3. CASE CacheMiss(r)
  BY <1>3, AdvanceTypes DEF CacheMiss, TypeOK, Stages
<1>4. CASE AskSlot(r)
  <2>1. PICK l \in Locks : TakeLock(feed[r], l) /\ slot' = [slot EXCEPT ![r] = l]
    BY <1>4 DEF AskSlot
  <2>2. feed[r] \in Feeds
    BY <1>4 DEF AskSlot, TypeOK
  <2>. QED
    BY <1>4, <2>1, <2>2, TakeLockTypes, AdvanceTypes DEF AskSlot, TypeOK, Stages
<1>5. CASE AcquireSlot(r)
  BY <1>5, AdvanceTypes DEF AcquireSlot, TypeOK, Stages
<1>6. CASE DegradeOk(r)
  BY <1>6, AdvanceTypes DEF DegradeOk, TypeOK, Stages, Draft
<1>7. CASE DegradeFail(r)
  BY <1>7, EndTypes DEF DegradeFail, TypeOK
<1>8. CASE PassStep(r)
  BY <1>8, PassTypes
<1>. QED
  BY <1>1, <1>2, <1>3, <1>4, <1>5, <1>6, <1>7, <1>8 DEF RequestStep

LEMMA TaskTypes ==
  ASSUME TypeOK, NEW t \in Tasks, TaskStep(t)
  PROVE  TypeOK'
<1>. t \in Workers
  BY DEF Workers
<1>. USE DEF storeVars
<1>1. CASE TryBegin(t)
  <2>1. PICK l \in Locks :
          /\ TakeLock(feed[t], l)
          /\ \/ /\ Advance(t, "gating")
                /\ slot' = [slot EXCEPT ![t] = l]
                /\ UNCHANGED <<feed, draft, grant>>
             \/ End(t)
    BY <1>1 DEF TryBegin
  <2>2. feed[t] \in Feeds
    BY <1>1 DEF TryBegin, TypeOK
  <2>3. tracked' \in [Feeds -> Locks \cup {NoLock}]
    BY <2>1, <2>2, TakeLockTypes
  <2>4. CASE End(t)
    BY <1>1, <2>3, <2>4, EndTypes DEF TryBegin, TypeOK
  <2>5. CASE ~End(t)
    BY <1>1, <2>1, <2>3, <2>5, AdvanceTypes DEF TryBegin, TypeOK, Stages
  <2>. QED
    BY <2>4, <2>5
<1>2. CASE LoadCopy(t)
  <2>1. CASE End(t)
    BY <1>2, <2>1, EndTypes DEF LoadCopy, TypeOK
  <2>2. CASE Advance(t, "converting") /\ UNCHANGED <<feed, slot, draft, grant>>
    BY <1>2, <2>2, AdvanceTypes DEF LoadCopy, TypeOK, Stages
  <2>3. CASE /\ Probeable(feed[t])
             /\ Advance(t, "probing")
             /\ grant' = [grant EXCEPT ![t] = AtMost(MaxFresh - Age(feed[t]), FreshTTL)]
             /\ UNCHANGED <<feed, slot, draft>>
    <3>1. AtMost(MaxFresh - Age(feed[t]), FreshTTL) \in Nat
      BY <1>2, <2>3, PolicyAssumption DEF AtMost, Age, Probeable, TypeOK, Copy, LoadCopy
    <3>. QED
      BY <1>2, <2>3, <3>1, AdvanceTypes DEF LoadCopy, TypeOK, Stages
  <2>. QED
    BY <1>2, <2>1, <2>2, <2>3 DEF LoadCopy
<1>3. CASE ProbeUnchanged(t)
  BY <1>3, AdvanceTypes DEF ProbeUnchanged, TypeOK, Stages
<1>4. CASE ProbeChanged(t)
  BY <1>4, AdvanceTypes DEF ProbeChanged, TypeOK, Stages
<1>5. CASE Renew(t)
  <2>1. marker' \in [Feeds -> Nat]
    BY <1>5, PolicyAssumption DEF Renew, TypeOK
  <2>2. copy' \in [Feeds -> Copy]
    <3>1. now + StaleWindow \in Nat
      BY PolicyAssumption DEF TypeOK
    <3>2. \A k \in Feeds : [copy[k] EXCEPT !.expires = now + StaleWindow] \in Copy
      BY <3>1 DEF TypeOK, Copy
    <3>. QED
      BY <1>5, <3>2 DEF Renew, TypeOK
  <2>. QED
    BY <1>5, <2>1, <2>2, EndTypes DEF Renew, TypeOK
<1>6. CASE PassStep(t)
  BY <1>6, PassTypes
<1>. QED
  BY <1>1, <1>2, <1>3, <1>4, <1>5, <1>6 DEF TaskStep

LEMMA TickTypes == TypeOK /\ Tick => TypeOK'
  BY PolicyAssumption DEF TypeOK, Tick, workVars, Copy, NoCopy

LEMMA NextTypes == TypeOK /\ [Next]_vars => TypeOK'
<1>. SUFFICES ASSUME TypeOK, [Next]_vars
              PROVE  TypeOK'
  OBVIOUS
<1>. USE DEF storeVars
<1>1. ASSUME NEW r \in Requests, NEW k \in Feeds, Arrive(r, k)
      PROVE  TypeOK'
  BY <1>1 DEF Arrive, Advance, TypeOK, Workers, Stages
<1>2. ASSUME NEW r \in Requests, Abandon(r)
      PROVE  TypeOK'
  BY <1>2, EndTypes DEF Abandon, TypeOK, Workers
<1>3. ASSUME NEW x \in late, Land(x[1], x[2])
      PROVE  TypeOK'
  <2>1. x[1] \in Feeds /\ x[2] \in Draft
    BY DEF TypeOK
  <2>. QED
    BY <1>3, <2>1, WriteTypes DEF Land, workVars, TypeOK
<1>4. CASE UNCHANGED vars
  BY <1>4 DEF vars, TypeOK
<1>. QED
  BY <1>1, <1>2, <1>3, <1>4, RequestTypes, TaskTypes, TickTypes DEF Next

\* Every reachable state is well typed; in particular no revalidation computes a
\* negative Fresh TTL to renew with, whatever the policy's windows are.
THEOREM TypeCorrect == Spec => []TypeOK
<1>1. Init => TypeOK
  BY InitTypes
<1>2. TypeOK /\ [Next]_vars => TypeOK'
  BY NextTypes
<1>. QED
  BY <1>1, <1>2, PTL DEF Spec

-------------------------------------------------------------------------------
(* One upstream pass per feed *)

\* The lock map cannot outgrow its limit: with this many feeds it is never swept.
NeverSwept == Cardinality(Feeds) <= MaxTracked

LEMMA SweptIsTracked ==
  ASSUME NeverSwept, TypeOK
  PROVE  Swept = tracked
<1>. DEFINE T == {k \in Feeds : tracked[k] # NoLock}
<1>1. IsFiniteSet(T) /\ Cardinality(T) <= Cardinality(Feeds)
  BY FeedsAssumption, FS_Subset
<1>2. Cardinality(T) \in Nat /\ Cardinality(Feeds) \in Nat
  BY <1>1, FeedsAssumption, FS_CardinalityType
<1>3. ~(Cardinality(T) > MaxTracked)
  BY <1>1, <1>2, PolicyAssumption DEF NeverSwept
<1>. QED
  BY <1>3 DEF Swept

\* The lock taken for k is the one the map tracks from then on, and it was the
\* tracked one already if anybody referenced that.
LEMMA TakeLockEffect ==
  ASSUME NeverSwept, TypeOK, SlotInv, NEW k \in Feeds, NEW l \in Locks, TakeLock(k, l)
  PROVE  /\ tracked'[k] = l
         /\ l # NoLock
         /\ \A w \in Workers : slot[w] # NoLock => slot[w] = tracked'[feed[w]]
<1>1. tracked' = [tracked EXCEPT ![k] = l] /\ (tracked[k] # NoLock => l = tracked[k])
  BY SweptIsTracked DEF TakeLock
<1>2. ASSUME NEW w \in Workers, slot[w] # NoLock
      PROVE  slot[w] = tracked'[feed[w]]
  <2>1. pc[w] # "idle" /\ slot[w] = tracked[feed[w]]
    BY <1>2 DEF SlotInv, Holds, HoldingStages
  <2>2. feed[w] \in Feeds
    BY <2>1 DEF TypeOK
  <2>. QED
    BY <1>1, <1>2, <2>1, <2>2 DEF TypeOK
<1>. QED
  BY <1>1, <1>2, FeedsAssumption DEF TypeOK

\* A pass that ends gives its slot back.
LEMMA EndSlots ==
  ASSUME TypeOK, SlotInv, NEW w \in Workers, End(w), UNCHANGED tracked
  PROVE  SlotInv'
  BY DEF End, TypeOK, SlotInv, Holds, HoldingStages

\* A worker that moves on without touching its slot keeps its part in it.
LEMMA AdvanceSlots ==
  ASSUME TypeOK, SlotInv, NEW w \in Workers, NEW stage \in Stages, Advance(w, stage),
         UNCHANGED <<feed, slot, tracked>>,
         \/ Holds(w) /\ stage \in HoldingStages
         \/ ~Holds(w) /\ pc[w] # "queued" /\ stage \in {"lookup", "asking"}
  PROVE  SlotInv'
  BY DEF Advance, TypeOK, SlotInv, Holds, HoldingStages

LEMMA FailOverSlots ==
  ASSUME TypeOK, SlotInv, NEW w \in Workers, Holds(w), FailOver(w), UNCHANGED tracked
  PROVE  SlotInv'
<1>1. CASE End(w)
  BY <1>1, EndSlots
<1>2. CASE ~End(w)
  BY <1>2, AdvanceSlots DEF FailOver, Stages, HoldingStages
<1>. QED
  BY <1>1, <1>2

LEMMA PassSlots ==
  ASSUME TypeOK, SlotInv, NEW w \in Workers, PassStep(w)
  PROVE  SlotInv'
<1>1. Holds(w) /\ UNCHANGED tracked
  BY DEF PassStep, CheckBreaker, ConvertOk, ConvertOutOfQuota, ConvertFail, Trip,
         Store, Holds, HoldingStages
<1>2. CASE CheckBreaker(w)
  <2>1. CASE End(w)
    BY <1>1, <2>1, EndSlots
  <2>2. CASE ~End(w)
    BY <1>1, <1>2, <2>2, AdvanceSlots DEF CheckBreaker, Stages, HoldingStages
  <2>. QED
    BY <2>1, <2>2
<1>3. CASE ConvertOk(w)
  BY <1>1, <1>3, AdvanceSlots DEF ConvertOk, Stages, HoldingStages
<1>4. CASE ConvertOutOfQuota(w)
  BY <1>1, <1>4, AdvanceSlots DEF ConvertOutOfQuota, Stages, HoldingStages
<1>5. CASE ConvertFail(w)
  BY <1>1, <1>5, FailOverSlots DEF ConvertFail
<1>6. CASE Trip(w)
  BY <1>1, <1>6, FailOverSlots DEF Trip
<1>7. CASE Store(w)
  BY <1>1, <1>7, EndSlots DEF Store
<1>. QED
  BY <1>2, <1>3, <1>4, <1>5, <1>6, <1>7 DEF PassStep

LEMMA RequestSlots ==
  ASSUME NeverSwept, TypeOK, SlotInv, NEW r \in Requests, RequestStep(r)
  PROVE  SlotInv'
<1>. r \in Workers
  BY DEF Workers
<1>1. CASE ServeFresh(r)
  BY <1>1, EndSlots DEF ServeFresh
<1>2. ASSUME NEW t \in Tasks, ServeStale(r, t)
      PROVE  SlotInv'
  <2>1. /\ t \in Workers /\ r # t /\ pc[t] = "idle"
        /\ pc' = [pc EXCEPT ![r] = "idle", ![t] = "spawned"]
        /\ feed' = [feed EXCEPT ![r] = NoFeed, ![t] = feed[r]]
        /\ slot' = [slot EXCEPT ![r] = NoLock]
        /\ UNCHANGED tracked
    BY <1>2, FeedsAssumption DEF ServeStale, Workers
  <2>. QED
    BY <2>1 DEF TypeOK, SlotInv, Holds, HoldingStages
<1>3. CASE CacheMiss(r)
  BY <1>3, AdvanceSlots DEF CacheMiss, Stages, Holds, HoldingStages
<1>4. CASE AskSlot(r)
  <2>1. PICK l \in Locks : TakeLock(feed[r], l) /\ slot' = [slot EXCEPT ![r] = l]
    BY <1>4 DEF AskSlot
  <2>2. feed[r] \in Feeds
    BY <1>4 DEF AskSlot, TypeOK
  <2>. QED
    BY <1>4, <2>1, <2>2, TakeLockEffect
    DEF AskSlot, Advance, TypeOK, SlotInv, Holds, HoldingStages
<1>5. CASE AcquireSlot(r)
  BY <1>5 DEF AcquireSlot, Advance, TypeOK, SlotInv, Holds, HoldingStages
<1>6. CASE DegradeOk(r)
  BY <1>6, AdvanceSlots DEF DegradeOk, Stages, Holds, HoldingStages
<1>7. CASE DegradeFail(r)
  BY <1>7, EndSlots DEF DegradeFail
<1>8. CASE PassStep(r)
  BY <1>8, PassSlots
<1>. QED
  BY <1>1, <1>2, <1>3, <1>4, <1>5, <1>6, <1>7, <1>8 DEF RequestStep

LEMMA TaskSlots ==
  ASSUME NeverSwept, TypeOK, SlotInv, NEW t \in Tasks, TaskStep(t)
  PROVE  SlotInv'
<1>. t \in Workers
  BY DEF Workers
<1>1. CASE TryBegin(t)
  <2>1. PICK l \in Locks :
          /\ TakeLock(feed[t], l)
          /\ \/ /\ ~InUse(l)
                /\ Advance(t, "gating")
                /\ slot' = [slot EXCEPT ![t] = l]
                /\ UNCHANGED <<feed, draft, grant>>
             \/ End(t)
    BY <1>1 DEF TryBegin
  <2>2. feed[t] \in Feeds /\ pc[t] = "spawned"
    BY <1>1 DEF TryBegin, TypeOK
  <2>3. \A w \in Workers : slot[w] # NoLock => slot[w] = tracked'[feed[w]]
    BY <2>1, <2>2, TakeLockEffect
  <2>4. CASE End(t)
    BY <2>2, <2>3, <2>4 DEF End, TypeOK, SlotInv, Holds, HoldingStages
  <2>5. CASE ~End(t)
    <3>1. l # NoLock /\ tracked'[feed[t]] = l
      BY <2>1, <2>2, TakeLockEffect
    <3>. QED
      BY <2>1, <2>2, <2>3, <2>5, <3>1
      DEF Advance, InUse, TypeOK, SlotInv, Holds, HoldingStages
  <2>. QED
    BY <2>4, <2>5
<1>2. CASE LoadCopy(t)
  <2>1. CASE End(t)
    BY <1>2, <2>1, EndSlots DEF LoadCopy
  <2>2. CASE ~End(t)
    BY <1>2, <2>2, AdvanceSlots DEF LoadCopy, Stages, Holds, HoldingStages
  <2>. QED
    BY <2>1, <2>2
<1>3. CASE ProbeUnchanged(t)
  BY <1>3, AdvanceSlots DEF ProbeUnchanged, Stages, Holds, HoldingStages
<1>4. CASE ProbeChanged(t)
  BY <1>4, AdvanceSlots DEF ProbeChanged, Stages, Holds, HoldingStages
<1>5. CASE Renew(t)
  BY <1>5, EndSlots DEF Renew
<1>6. CASE PassStep(t)
  BY <1>6, PassSlots
<1>. QED
  BY <1>1, <1>2, <1>3, <1>4, <1>5, <1>6 DEF TaskStep

LEMMA NextSlots ==
  ASSUME NeverSwept
  PROVE  TypeOK /\ SlotInv /\ [Next]_vars => SlotInv'
<1>. SUFFICES ASSUME TypeOK, SlotInv, [Next]_vars
              PROVE  SlotInv'
  OBVIOUS
<1>1. ASSUME NEW r \in Requests, NEW k \in Feeds, Arrive(r, k)
      PROVE  SlotInv'
  BY <1>1 DEF Arrive, Advance, TypeOK, SlotInv, Holds, HoldingStages, Workers
<1>2. ASSUME NEW r \in Requests, Abandon(r)
      PROVE  SlotInv'
  BY <1>2, EndSlots DEF Abandon, Workers
<1>3. ASSUME NEW x \in late, Land(x[1], x[2])
      PROVE  SlotInv'
  BY <1>3 DEF Land, workVars, SlotInv, Holds
<1>4. CASE Tick
  BY <1>4 DEF Tick, workVars, SlotInv, Holds
<1>5. CASE UNCHANGED vars
  BY <1>5 DEF vars, SlotInv, Holds
<1>. QED
  BY <1>1, <1>2, <1>3, <1>4, <1>5, RequestSlots, TaskSlots DEF Next

LEMMA SlotInvariant ==
  ASSUME NeverSwept
  PROVE  Spec => [](TypeOK /\ SlotInv)
<1>1. Init => TypeOK /\ SlotInv
  BY InitTypes DEF Init, SlotInv, Holds, HoldingStages
<1>2. TypeOK /\ SlotInv /\ [Next]_vars => (TypeOK /\ SlotInv)'
  BY NextTypes, NextSlots
<1>. QED
  BY <1>1, <1>2, PTL DEF Spec

LEMMA SlotInvExcludes == SlotInv => OnePassPerFeed
<1>. SUFFICES ASSUME SlotInv, NEW v \in Workers, NEW w \in Workers,
                     Holds(v), Holds(w), feed[v] = feed[w]
              PROVE  v = w
  BY DEF OnePassPerFeed
<1>1. slot[v] = tracked[feed[v]] /\ slot[w] = tracked[feed[w]]
  BY DEF SlotInv
<1>. QED
  BY <1>1 DEF SlotInv

\* While the lock map is not swept, no two workers are ever past the slot of the
\* same feed: with failing stores and vanishing clients, for any number of them.
THEOREM SinglePass ==
  ASSUME NeverSwept
  PROVE  Spec => []OnePassPerFeed
  BY SlotInvariant, SlotInvExcludes, PTL

-------------------------------------------------------------------------------
(* The ladder: gaps are filled, servable copies are neither replaced by a        *)
(* Degraded Feed nor withheld from a client                                      *)

\* Redis answers and clients wait for their answer.
Reliable == ~StoreFaults /\ ~Disconnects

\* What the store shows of k depends on k's own record, marker and the clock.
LEMMA ServableFrame ==
  ASSUME NEW k \in Feeds, now' = now, copy'[k] = copy[k], marker'[k] = marker[k]
  PROVE  Servable(k)' <=> Servable(k)
  BY DEF Servable, IsFresh, HasBody, Age

\* Time alone never makes a copy servable again.
LEMMA TickFrame ==
  ASSUME TypeOK, Tick, NEW k \in Feeds, ~Servable(k)
  PROVE  ~Servable(k)'
<1>1. now \in Nat /\ now' = now + 1 /\ copy[k] \in Copy /\ marker[k] \in Nat
  BY PolicyAssumption DEF Tick, TypeOK
<1>2. CASE copy[k].expires > now + 1
  <2>1. copy'[k] = copy[k] /\ marker'[k] \in {marker[k], 0}
    BY <1>2 DEF Tick
  <2>2. marker'[k] > now + 1 => marker[k] > now
    BY <1>1, <2>1
  <2>. QED
    BY <1>1, <1>2, <2>1, <2>2, PolicyAssumption
    DEF Servable, IsFresh, HasBody, Age, Copy
<1>3. CASE ~(copy[k].expires > now + 1)
  BY <1>1, <1>3 DEF Tick, Servable, HasBody, NoCopy
<1>. QED
  BY <1>2, <1>3

\* A worker moves on without writing: it may commit to regenerating only a feed
\* without a servable copy.
LEMMA AdvanceLadder ==
  ASSUME TypeOK, LadderInv, NEW w \in Workers, NEW stage \in Stages, Advance(w, stage),
         UNCHANGED <<now, copy, marker, feed, late>>, pc[w] # "idle",
         w \in Requests /\ stage \in CommittedStages => ~Servable(feed[w]),
         \A t \in Tasks : ~draft'[t].degraded,
         w \in Tasks => stage # "degrading"
  PROVE  LadderInv'
<1>1. ASSUME NEW r \in Requests, pc'[r] \in CommittedStages
      PROVE  ~Servable(feed[r])'
  <2>1. r \in Workers /\ pc[r] # "idle"
    BY <1>1 DEF Advance, TypeOK, Workers, CommittedStages
  <2>2. feed[r] \in Feeds
    BY <2>1 DEF TypeOK
  <2>3. ~Servable(feed[r])
    BY <1>1, <2>1 DEF Advance, LadderInv, TypeOK
  <2>. QED
    BY <2>2, <2>3, ServableFrame DEF Servable, IsFresh, HasBody, Age
<1>2. ASSUME NEW t \in Tasks
      PROVE  pc'[t] # "degrading" /\ ~draft'[t].degraded
  BY DEF Advance, LadderInv, TypeOK, Workers
<1>. QED
  BY <1>1, <1>2 DEF LadderInv

\* A pass ends, having written at most the record of its own feed.
LEMMA EndLadder ==
  ASSUME TypeOK, OnePassPerFeed, LadderInv, NEW w \in Workers, End(w), late' = late,
         now' = now,
         \A k \in Feeds : ~(Holds(w) /\ k = feed[w])
                            => copy'[k] = copy[k] /\ marker'[k] = marker[k]
  PROVE  LadderInv'
<1>1. ASSUME NEW r \in Requests, pc'[r] \in CommittedStages
      PROVE  ~Servable(feed[r])'
  <2>1. r \in Workers /\ r # w /\ pc'[r] = pc[r] /\ feed'[r] = feed[r]
    BY <1>1 DEF End, TypeOK, Workers, CommittedStages
  <2>2. feed[r] \in Feeds /\ Holds(r) /\ ~Servable(feed[r])
    BY <1>1, <2>1 DEF TypeOK, LadderInv, CommittedStages, Holds, HoldingStages
  <2>3. ~(Holds(w) /\ feed[r] = feed[w])
    BY <2>1, <2>2 DEF OnePassPerFeed
  <2>4. copy'[feed[r]] = copy[feed[r]] /\ marker'[feed[r]] = marker[feed[r]]
    BY <2>2, <2>3
  <2>. QED
    BY <2>1, <2>2, <2>4, ServableFrame DEF Servable, IsFresh, HasBody, Age
<1>2. ASSUME NEW t \in Tasks
      PROVE  pc'[t] # "degrading" /\ ~draft'[t].degraded
  BY DEF End, LadderInv, TypeOK, Workers, NoDraft
<1>. QED
  BY <1>1, <1>2 DEF LadderInv

LEMMA FailOverLadder ==
  ASSUME TypeOK, OnePassPerFeed, LadderInv, NEW w \in Workers,
         pc[w] \in {"converting", "tripping"}, FailOver(w),
         UNCHANGED <<now, copy, marker, late>>
  PROVE  LadderInv'
<1>1. CASE End(w)
  BY <1>1, EndLadder
<1>2. CASE ~End(w)
  <2>1. w \in Requests /\ Advance(w, "degrading") /\ UNCHANGED <<feed, draft>>
    BY <1>2 DEF FailOver
  <2>2. ~Servable(feed[w])
    BY <2>1 DEF LadderInv, CommittedStages
  <2>3. w \notin Tasks /\ \A t \in Tasks : ~draft'[t].degraded
    BY <2>1, FeedsAssumption DEF LadderInv
  <2>. QED
    BY <2>1, <2>2, <2>3, AdvanceLadder DEF Stages
<1>. QED
  BY <1>1, <1>2

LEMMA PassLadder ==
  ASSUME Reliable, TypeOK, OnePassPerFeed, LadderInv, NEW w \in Workers, PassStep(w)
  PROVE  LadderInv'
<1>. USE DEF storeVars
<1>1. \A t \in Tasks : t \in Workers /\ t \notin Requests /\ ~draft[t].degraded
  BY FeedsAssumption DEF LadderInv, Workers
<1>2. CASE CheckBreaker(w)
  <2>1. CASE End(w)
    BY <1>2, <2>1, EndLadder DEF CheckBreaker
  <2>2. CASE ~End(w)
    <3>1. PICK stage \in {"loading", "converting", "degrading"} :
            /\ Advance(w, stage) /\ UNCHANGED <<feed, draft>>
            /\ w \in Tasks => stage # "degrading"
      BY <1>1, <1>2, <2>2 DEF CheckBreaker
    <3>2. w \in Requests => ~Servable(feed[w])
      BY <1>2 DEF CheckBreaker, LadderInv, CommittedStages
    <3>. QED
      BY <1>1, <1>2, <3>1, <3>2, AdvanceLadder DEF CheckBreaker, Stages
  <2>. QED
    BY <2>1, <2>2
<1>3. CASE ConvertOk(w)
  <2>1. \A t \in Tasks : ~draft'[t].degraded
    BY <1>1, <1>3 DEF ConvertOk, TypeOK
  <2>2. w \in Requests => ~Servable(feed[w])
    BY <1>3 DEF ConvertOk, LadderInv, CommittedStages
  <2>. QED
    BY <1>3, <2>1, <2>2, AdvanceLadder DEF ConvertOk, Stages
<1>4. CASE ConvertOutOfQuota(w)
  <2>1. w \in Requests => ~Servable(feed[w])
    BY <1>4 DEF ConvertOutOfQuota, LadderInv, CommittedStages
  <2>. QED
    BY <1>1, <1>4, <2>1, AdvanceLadder DEF ConvertOutOfQuota, Stages
<1>5. CASE ConvertFail(w)
  BY <1>5, FailOverLadder DEF ConvertFail
<1>6. CASE Trip(w)
  BY <1>6, FailOverLadder DEF Trip
<1>7. CASE Store(w)
  <2>1. Holds(w) /\ feed[w] \in Feeds
    BY <1>7 DEF Store, Holds, HoldingStages, TypeOK
  <2>2. \A k \in Feeds : k # feed[w] => copy'[k] = copy[k] /\ marker'[k] = marker[k]
    BY <1>7, <2>1 DEF Store, Write, TypeOK
  <2>. QED
    BY <1>7, <2>1, <2>2, EndLadder DEF Store
<1>. QED
  BY <1>2, <1>3, <1>4, <1>5, <1>6, <1>7 DEF PassStep

LEMMA RequestLadder ==
  ASSUME Reliable, TypeOK, OnePassPerFeed, LadderInv, NEW r \in Requests, RequestStep(r)
  PROVE  LadderInv'
<1>. USE DEF storeVars
<1>0. r \in Workers /\ r \notin Tasks /\ \A t \in Tasks : t \in Workers /\ ~draft[t].degraded
  BY FeedsAssumption DEF LadderInv, Workers
<1>1. CASE ServeFresh(r)
  BY <1>0, <1>1, EndLadder DEF ServeFresh
<1>2. ASSUME NEW t \in Tasks, ServeStale(r, t)
      PROVE  LadderInv'
  <2>1. /\ pc' = [pc EXCEPT ![r] = "idle", ![t] = "spawned"]
        /\ feed' = [feed EXCEPT ![r] = NoFeed, ![t] = feed[r]]
        /\ UNCHANGED <<now, copy, marker, late, draft>>
    BY <1>2 DEF ServeStale
  <2>2. ASSUME NEW q \in Requests, pc'[q] \in CommittedStages
        PROVE  ~Servable(feed[q])'
    <3>1. q \in Workers /\ q # r /\ q # t /\ pc'[q] = pc[q] /\ feed'[q] = feed[q]
      BY <1>0, <2>1, <2>2, FeedsAssumption DEF TypeOK, Workers, CommittedStages
    <3>2. feed[q] \in Feeds /\ ~Servable(feed[q])
      BY <2>2, <3>1 DEF TypeOK, LadderInv, CommittedStages
    <3>. QED
      BY <2>1, <3>1, <3>2, ServableFrame DEF Servable, IsFresh, HasBody, Age
  <2>3. \A u \in Tasks : pc'[u] # "degrading"
    BY <1>0, <2>1 DEF TypeOK, LadderInv
  <2>. QED
    BY <1>0, <2>1, <2>2, <2>3 DEF LadderInv
<1>3. CASE CacheMiss(r)
  <2>1. ~Servable(feed[r]) /\ pc[r] # "idle"
    BY <1>3 DEF CacheMiss, Reliable
  <2>2. PICK stage \in {"asking", "gating"} : Advance(r, stage)
    BY <1>3 DEF CacheMiss
  <2>. QED
    BY <1>0, <1>3, <2>1, <2>2, AdvanceLadder DEF CacheMiss, Stages
<1>4. CASE AskSlot(r)
  BY <1>0, <1>4, AdvanceLadder DEF AskSlot, Stages, CommittedStages
<1>5. CASE AcquireSlot(r)
  BY <1>0, <1>5, AdvanceLadder DEF AcquireSlot, Stages, CommittedStages
<1>6. CASE DegradeOk(r)
  <2>1. \A t \in Tasks : ~draft'[t].degraded
    BY <1>0, <1>6 DEF DegradeOk, TypeOK
  <2>2. ~Servable(feed[r])
    BY <1>6 DEF DegradeOk, LadderInv, CommittedStages
  <2>. QED
    BY <1>0, <1>6, <2>1, <2>2, AdvanceLadder DEF DegradeOk, Stages
<1>7. CASE DegradeFail(r)
  BY <1>0, <1>7, EndLadder DEF DegradeFail
<1>8. CASE PassStep(r)
  BY <1>0, <1>8, PassLadder
<1>. QED
  BY <1>1, <1>2, <1>3, <1>4, <1>5, <1>6, <1>7, <1>8 DEF RequestStep

LEMMA TaskLadder ==
  ASSUME Reliable, TypeOK, OnePassPerFeed, LadderInv, NEW t \in Tasks, TaskStep(t)
  PROVE  LadderInv'
<1>. USE DEF storeVars
<1>0. t \in Workers /\ t \notin Requests /\ \A u \in Tasks : ~draft[u].degraded
  BY FeedsAssumption DEF LadderInv, Workers
<1>1. CASE TryBegin(t)
  <2>1. CASE End(t)
    BY <1>0, <1>1, <2>1, EndLadder DEF TryBegin
  <2>2. CASE ~End(t)
    BY <1>0, <1>1, <2>2, AdvanceLadder DEF TryBegin, Stages
  <2>. QED
    BY <2>1, <2>2
<1>2. CASE LoadCopy(t)
  <2>1. CASE End(t)
    BY <1>0, <1>2, <2>1, EndLadder DEF LoadCopy
  <2>2. CASE ~End(t)
    BY <1>0, <1>2, <2>2, AdvanceLadder DEF LoadCopy, Stages
  <2>. QED
    BY <2>1, <2>2
<1>3. CASE ProbeUnchanged(t)
  BY <1>0, <1>3, AdvanceLadder DEF ProbeUnchanged, Stages
<1>4. CASE ProbeChanged(t)
  BY <1>0, <1>4, AdvanceLadder DEF ProbeChanged, Stages
<1>5. CASE Renew(t)
  <2>1. Holds(t) /\ feed[t] \in Feeds
    BY <1>0, <1>5 DEF Renew, Holds, HoldingStages, TypeOK
  <2>2. \A k \in Feeds : k # feed[t] => copy'[k] = copy[k] /\ marker'[k] = marker[k]
    BY <1>5, <2>1 DEF Renew, TypeOK
  <2>. QED
    BY <1>0, <1>5, <2>1, <2>2, EndLadder DEF Renew
<1>6. CASE PassStep(t)
  BY <1>0, <1>6, PassLadder
<1>. QED
  BY <1>1, <1>2, <1>3, <1>4, <1>5, <1>6 DEF TaskStep

LEMMA NextLadder ==
  ASSUME Reliable
  PROVE  TypeOK /\ OnePassPerFeed /\ LadderInv /\ [Next]_vars => LadderInv'
<1>. SUFFICES ASSUME TypeOK, OnePassPerFeed, LadderInv, [Next]_vars
              PROVE  LadderInv'
  OBVIOUS
<1>. USE DEF storeVars
<1>1. ASSUME NEW r \in Requests, NEW k \in Feeds, Arrive(r, k)
      PROVE  LadderInv'
  <2>1. /\ r \in Workers /\ r \notin Tasks /\ UNCHANGED <<now, copy, marker, late, draft>>
        /\ pc' = [pc EXCEPT ![r] = "lookup"] /\ feed' = [feed EXCEPT ![r] = k]
    BY <1>1, FeedsAssumption DEF Arrive, Advance, Workers
  <2>2. ASSUME NEW q \in Requests, pc'[q] \in CommittedStages
        PROVE  ~Servable(feed[q])'
    <3>1. q \in Workers /\ q # r /\ pc'[q] = pc[q] /\ feed'[q] = feed[q]
      BY <2>1, <2>2 DEF TypeOK, Workers, CommittedStages
    <3>2. feed[q] \in Feeds /\ ~Servable(feed[q])
      BY <2>2, <3>1 DEF TypeOK, LadderInv, CommittedStages
    <3>. QED
      BY <2>1, <3>1, <3>2, ServableFrame DEF Servable, IsFresh, HasBody, Age
  <2>3. \A t \in Tasks : pc'[t] # "degrading" /\ ~draft'[t].degraded
    BY <2>1 DEF TypeOK, LadderInv, Workers
  <2>. QED
    BY <2>1, <2>2, <2>3 DEF LadderInv
<1>2. ASSUME NEW r \in Requests, Abandon(r)
      PROVE  LadderInv'
  BY <1>2 DEF Abandon, Reliable
<1>3. ASSUME NEW x \in late, Land(x[1], x[2])
      PROVE  LadderInv'
  BY DEF LadderInv
<1>4. CASE Tick
  <2>1. ASSUME NEW q \in Requests, pc'[q] \in CommittedStages
        PROVE  ~Servable(feed[q])'
    <3>1. q \in Workers /\ pc'[q] = pc[q] /\ feed'[q] = feed[q]
      BY <1>4 DEF Tick, workVars, Workers
    <3>2. feed[q] \in Feeds /\ ~Servable(feed[q])
      BY <2>1, <3>1 DEF TypeOK, LadderInv, CommittedStages
    <3>. QED
      BY <1>4, <3>1, <3>2, TickFrame DEF Servable, IsFresh, HasBody, Age
  <2>. QED
    BY <1>4, <2>1 DEF Tick, workVars, LadderInv
<1>5. CASE UNCHANGED vars
  BY <1>5 DEF vars, LadderInv, Servable, IsFresh, HasBody, Age
<1>. QED
  BY <1>1, <1>2, <1>3, <1>4, <1>5, RequestLadder, TaskLadder DEF Next

LEMMA ServingInvariant ==
  ASSUME NeverSwept, Reliable
  PROVE  Spec => [](TypeOK /\ OnePassPerFeed /\ LadderInv)
<1>1. Init => LadderInv
  BY FeedsAssumption
  DEF Init, LadderInv, CommittedStages, Workers, NoDraft
<1>2. TypeOK /\ OnePassPerFeed /\ LadderInv /\ [Next]_vars => LadderInv'
  BY NextLadder
<1>. QED
  BY <1>1, <1>2, TypeCorrect, SinglePass, PTL DEF Spec

\* Who writes the record of a feed: the stores of its passes; a renewal keeps what
\* the copy is, and the clock can only expire it.
LEMMA CopyWriters ==
  ASSUME TypeOK, late = {}, [Next]_vars, NEW k \in Feeds
  PROVE  \/ copy'[k] = NoCopy
         \/ copy'[k].gen = copy[k].gen /\ copy'[k].degraded = copy[k].degraded
         \/ \E w \in Workers : feed[w] = k /\ Store(w) /\ Write(k, draft[w])
<1>. DEFINE Kept == copy'[k].gen = copy[k].gen /\ copy'[k].degraded = copy[k].degraded
            Stored == \E w \in Workers : feed[w] = k /\ Store(w) /\ Write(k, draft[w])
<1>. USE DEF storeVars
<1>1. ASSUME NEW w \in Workers, PassStep(w)
      PROVE  Kept \/ Stored
  <2>1. CASE Store(w)
    <3>1. CASE feed[w] = k
      BY <2>1, <3>1 DEF Store
    <3>2. CASE feed[w] # k
      <4>1. copy'[k] = copy[k]
        BY <2>1, <3>2 DEF Store, Write, TypeOK
      <4>. QED
        BY <4>1
    <3>. QED
      BY <3>1, <3>2
  <2>2. CASE ~Store(w)
    <3>1. copy' = copy
      BY <1>1, <2>2 DEF PassStep, CheckBreaker, ConvertOk, ConvertOutOfQuota, ConvertFail, Trip
    <3>. QED
      BY <3>1
  <2>. QED
    BY <2>1, <2>2
<1>2. ASSUME NEW r \in Requests, RequestStep(r)
      PROVE  Kept \/ Stored
  <2>1. CASE PassStep(r)
    BY <1>1, <2>1 DEF Workers
  <2>2. CASE ~PassStep(r)
    <3>1. copy' = copy
      BY <1>2, <2>2 DEF RequestStep, ServeFresh, ServeStale, CacheMiss, AskSlot, AcquireSlot,
                        DegradeOk, DegradeFail
    <3>. QED
      BY <3>1
  <2>. QED
    BY <2>1, <2>2
<1>3. ASSUME NEW t \in Tasks, TaskStep(t)
      PROVE  Kept \/ Stored
  <2>1. CASE PassStep(t)
    BY <1>1, <2>1 DEF Workers
  <2>2. CASE Renew(t)
    <3>1. \/ copy' = copy
          \/ copy' = [copy EXCEPT ![feed[t]].expires = now + StaleWindow]
      BY <2>2 DEF Renew
    <3>2. ASSUME copy' = [copy EXCEPT ![feed[t]].expires = now + StaleWindow]
          PROVE  Kept
      <4>1. CASE feed[t] = k
        <5>1. copy[k] \in Copy
          BY DEF TypeOK
        <5>2. copy'[k] = [copy[k] EXCEPT !.expires = now + StaleWindow]
          BY <3>2, <4>1 DEF TypeOK
        <5>. QED
          BY <5>1, <5>2 DEF Copy
      <4>2. CASE feed[t] # k
        <5>1. copy'[k] = copy[k]
          BY <3>2, <4>2 DEF TypeOK
        <5>. QED
          BY <5>1
      <4>. QED
        BY <4>1, <4>2
    <3>. QED
      BY <3>1, <3>2
  <2>3. CASE ~PassStep(t) /\ ~Renew(t)
    <3>1. copy' = copy
      BY <1>3, <2>3 DEF TaskStep, TryBegin, LoadCopy, ProbeUnchanged, ProbeChanged
    <3>. QED
      BY <3>1
  <2>. QED
    BY <2>1, <2>2, <2>3
<1>4. ASSUME NEW r \in Requests, Abandon(r) \/ \E j \in Feeds : Arrive(r, j)
      PROVE  Kept
  <2>1. copy' = copy
    BY <1>4 DEF Abandon, Arrive
  <2>. QED
    BY <2>1
<1>5. CASE Tick
  <2>1. copy'[k] = copy[k] \/ copy'[k] = NoCopy
    BY <1>5 DEF Tick, TypeOK
  <2>. QED
    BY <2>1
<1>6. CASE UNCHANGED vars
  <2>1. copy' = copy
    BY <1>6 DEF vars
  <2>. QED
    BY <2>1
<1>. QED
  BY <1>2, <1>3, <1>4, <1>5, <1>6 DEF Next

\* While the map is not swept, the store answers and clients stay, no interleaving
\* of requests and revalidations puts a degraded copy over a servable full one.
THEOREM FullCopiesSurvive ==
  ASSUME NeverSwept, Reliable
  PROVE  Spec => NeverDowngraded
<1>1. ASSUME TypeOK, LadderInv, [Next]_vars, NEW k \in Feeds,
             Servable(k), ~copy[k].degraded, HasBody(k)'
      PROVE  ~copy'[k].degraded
  <2>1. ASSUME NEW w \in Workers, feed[w] = k, Store(w), Write(k, draft[w])
        PROVE  ~copy'[k].degraded
    <3>1. w \in Tasks
      BY <1>1, <2>1 DEF Store, LadderInv, CommittedStages, Workers
    <3>2. ~draft[w].degraded
      BY <1>1, <3>1 DEF LadderInv
    <3>3. copy'[k].degraded = draft[w].degraded
      BY <1>1, <2>1 DEF Write, TypeOK
    <3>. QED
      BY <3>2, <3>3
  <2>2. late = {}
    BY <1>1 DEF LadderInv
  <2>3. copy'[k] = NoCopy => ~copy'[k].degraded
    BY DEF NoCopy
  <2>. QED
    BY <1>1, <2>1, <2>2, <2>3, CopyWriters
<1>2. TypeOK /\ LadderInv /\ [Next]_vars
        => [\A k \in Feeds :
              Servable(k) /\ ~copy[k].degraded /\ HasBody(k)' => ~copy'[k].degraded]_vars
  BY <1>1
<1>. QED
  BY <1>2, ServingInvariant, PTL DEF Spec, NeverDowngraded

\* Under the same assumptions a request fails only when there is nothing to serve,
\* even with the copies other passes stored while it waited.
THEOREM StaleBeforeError ==
  ASSUME NeverSwept, Reliable
  PROVE  Spec => StalePreferredToFailing
<1>1. ASSUME TypeOK, LadderInv, [Next]_vars, NEW r \in Requests,
             r \notin failed, r \in failed'
      PROVE  ~Servable(feed[r])
  <2>1. \A q \in Requests : DegradeFail(q)
                              => pc[q] = "degrading" /\ (q # r => r \notin failed')
    BY <1>1 DEF DegradeFail
  <2>2. \A w \in Workers : PassStep(w) => failed' = failed
    BY DEF PassStep, CheckBreaker, ConvertOk, ConvertOutOfQuota, ConvertFail, Trip, Store
  <2>3. \A q \in Requests : RequestStep(q) /\ ~DegradeFail(q) => failed' = failed
    BY <2>2 DEF RequestStep, ServeFresh, ServeStale, CacheMiss, AskSlot, AcquireSlot,
                DegradeOk, Workers
  <2>4. \A t \in Tasks : TaskStep(t) => failed' = failed
    BY <2>2 DEF TaskStep, TryBegin, LoadCopy, ProbeUnchanged, ProbeChanged, Renew, Workers
  <2>5. \A q \in Requests : Abandon(q) => failed' = failed
    BY DEF Abandon
  <2>6. \A q \in Requests, k \in Feeds : Arrive(q, k) => failed' \subseteq failed
    BY DEF Arrive
  <2>7. Tick \/ UNCHANGED vars \/ (\E x \in late : Land(x[1], x[2])) => failed' = failed
    BY DEF Tick, Land, vars, workVars
  <2>8. \E q \in Requests : DegradeFail(q)
    BY <1>1, <2>3, <2>4, <2>5, <2>6, <2>7 DEF Next
  <2>9. DegradeFail(r)
    BY <1>1, <2>1, <2>8
  <2>. QED
    BY <1>1, <2>1, <2>9 DEF LadderInv, CommittedStages
<1>2. TypeOK /\ LadderInv /\ [Next]_vars
        => [\A r \in Requests :
              r \notin failed /\ r \in failed' => ~Servable(feed[r])]_vars
  BY <1>1
<1>. QED
  BY <1>2, ServingInvariant, PTL DEF Spec, StalePreferredToFailing

-------------------------------------------------------------------------------
(* The Quota Breaker *)

\* Until the next reset comes, a second that passes keeps that reset the next one.
LEMMA NextResetStays ==
  ASSUME NEW t \in Nat, NextReset(t) > t + 1
  PROVE  NextReset(t + 1) = NextReset(t)
<1>. DEFINE q == t \div QuotaPeriod
            p == (t + 1) \div QuotaPeriod
<1>. QuotaPeriod \in Nat /\ QuotaPeriod > 0
  BY PolicyAssumption
<1>1. q \in Nat /\ q * QuotaPeriod <= t /\ t < (q + 1) * QuotaPeriod
  BY SMTT(30)
<1>2. p \in Nat /\ p * QuotaPeriod <= t + 1 /\ t + 1 < (p + 1) * QuotaPeriod
  BY SMTT(30)
<1>3. (q + 1) * QuotaPeriod > t + 1
  BY DEF NextReset
<1>. HIDE DEF q, p
<1>4. ~(p > q)
  <2>. SUFFICES ASSUME p >= q + 1
                PROVE  FALSE
    BY <1>1, <1>2
  <2>1. p * QuotaPeriod >= (q + 1) * QuotaPeriod
    BY <1>1, <1>2
  <2>. QED
    BY <2>1, <1>1, <1>2, <1>3
<1>5. ~(q > p)
  <2>. SUFFICES ASSUME q >= p + 1
                PROVE  FALSE
    BY <1>1, <1>2
  <2>1. q * QuotaPeriod >= (p + 1) * QuotaPeriod
    BY <1>1, <1>2
  <2>. QED
    BY <2>1, <1>1, <1>2
<1>. QED
  BY <1>1, <1>2, <1>4, <1>5 DEF NextReset, p, q

\* Only a pass that ran out of quota writes the breaker's key, and only the clock
\* moves the clock.
LEMMA BreakerWriters ==
  ASSUME [Next]_vars
  PROVE  \/ Tick
         \/ now' = now /\ breaker' \in {breaker, NextReset(now)}
<1>. USE DEF storeVars
<1>1. ASSUME NEW w \in Workers, PassStep(w)
      PROVE  now' = now /\ breaker' \in {breaker, NextReset(now)}
  BY <1>1 DEF PassStep, CheckBreaker, ConvertOk, ConvertOutOfQuota, ConvertFail, Trip, Store
<1>2. ASSUME NEW r \in Requests, RequestStep(r)
      PROVE  now' = now /\ breaker' \in {breaker, NextReset(now)}
  BY <1>1, <1>2 DEF RequestStep, ServeFresh, ServeStale, CacheMiss, AskSlot, AcquireSlot,
                    DegradeOk, DegradeFail, Workers
<1>3. ASSUME NEW t \in Tasks, TaskStep(t)
      PROVE  now' = now /\ breaker' \in {breaker, NextReset(now)}
  BY <1>1, <1>3 DEF TaskStep, TryBegin, LoadCopy, ProbeUnchanged, ProbeChanged, Renew, Workers
<1>4. ASSUME NEW r \in Requests, Abandon(r) \/ \E k \in Feeds : Arrive(r, k)
      PROVE  now' = now /\ breaker' = breaker
  BY <1>4 DEF Abandon, Arrive
<1>5. ASSUME NEW x \in late, Land(x[1], x[2])
      PROVE  now' = now /\ breaker' = breaker
  BY <1>5 DEF Land
<1>. QED
  BY <1>2, <1>3, <1>4, <1>5 DEF Next, vars

\* For any quota period and however many passes trip it, with failing stores and
\* vanishing clients: an open breaker closes at the provider's next reset.
THEOREM BreakerClosesAtReset == Spec => []BreakerHoldsUntilReset
<1>1. Init => BreakerHoldsUntilReset
  BY DEF Init, BreakerHoldsUntilReset
<1>2. TypeOK /\ BreakerHoldsUntilReset /\ [Next]_vars => BreakerHoldsUntilReset'
  <2>. SUFFICES ASSUME TypeOK, BreakerHoldsUntilReset, [Next]_vars, breaker' > now'
                PROVE  breaker' = NextReset(now)'
    BY DEF BreakerHoldsUntilReset
  <2>. now \in Nat /\ breaker \in Nat
    BY PolicyAssumption DEF TypeOK
  <2>1. CASE Tick
    <3>1. now' = now + 1 /\ breaker' = breaker /\ breaker > now + 1
      BY <2>1 DEF Tick
    <3>2. breaker = NextReset(now)
      BY <3>1 DEF BreakerHoldsUntilReset
    <3>3. NextReset(now + 1) = NextReset(now)
      BY <3>1, <3>2, NextResetStays
    <3>. QED
      BY <3>1, <3>2, <3>3 DEF NextReset
  <2>2. CASE now' = now /\ breaker' \in {breaker, NextReset(now)}
    BY <2>2 DEF BreakerHoldsUntilReset, NextReset
  <2>. QED
    BY <2>1, <2>2, BreakerWriters
<1>. QED
  BY <1>1, <1>2, TypeCorrect, PTL DEF Spec

-------------------------------------------------------------------------------
(* One failing call per feed and quota period                                    *)

\* The stages of a pass that found the breaker closed and has not converted yet.
UpstreamStages == {"loading", "probing", "renewing", "converting"}

\* No pass is on its way to converting a feed that met the exhausted quota, and
\* what keeps the next one away is the open breaker or, until that is written,
\* the slot of the pass about to open it.
ExhaustedInv ==
  /\ \A w \in Workers : pc[w] \in UpstreamStages => feed[w] \notin exhausted
  /\ \A k \in exhausted :
       /\ k \in Metered
       /\ \/ breaker > now
          \/ \E w \in Workers : pc[w] = "tripping" /\ feed[w] = k

LEMMA NextResetLater ==
  ASSUME NEW t \in Nat
  PROVE  NextReset(t) \in Nat /\ NextReset(t) > t
<1>. DEFINE q == t \div QuotaPeriod
<1>. QuotaPeriod \in Nat /\ QuotaPeriod > 0
  BY PolicyAssumption
<1>1. q \in Nat /\ t < (q + 1) * QuotaPeriod
  BY SMTT(30)
<1>. QED
  BY <1>1, NextResetIsNat DEF NextReset

\* A step that keeps the quota's state, moves nobody into the upstream stages
\* and nobody out of opening the breaker keeps the invariant.
LEMMA QuietExhausted ==
  ASSUME ExhaustedInv, UNCHANGED <<now, breaker, exhausted>>,
         \A v \in Workers :
           /\ pc[v] = "tripping" => pc'[v] = "tripping" /\ feed'[v] = feed[v]
           /\ pc'[v] \in UpstreamStages => pc[v] \in UpstreamStages /\ feed'[v] = feed[v]
  PROVE  ExhaustedInv'
  BY DEF ExhaustedInv

LEMMA EndExhausted ==
  ASSUME TypeOK, ExhaustedInv, NEW w \in Workers, End(w), pc[w] # "tripping",
         UNCHANGED <<now, breaker, exhausted>>
  PROVE  ExhaustedInv'
<1>1. \A v \in Workers : v # w => pc'[v] = pc[v] /\ feed'[v] = feed[v]
  BY DEF End, TypeOK
<1>2. pc'[w] = "idle"
  BY DEF End, TypeOK
<1>. QED
  BY <1>1, <1>2, QuietExhausted DEF UpstreamStages

LEMMA AdvanceExhausted ==
  ASSUME TypeOK, ExhaustedInv, NEW w \in Workers, NEW stage \in Stages, Advance(w, stage),
         pc[w] # "tripping", stage \in UpstreamStages => pc[w] \in UpstreamStages,
         UNCHANGED <<now, breaker, exhausted, feed>>
  PROVE  ExhaustedInv'
<1>1. \A v \in Workers : pc'[v] = IF v = w THEN stage ELSE pc[v]
  BY DEF Advance, TypeOK
<1>. QED
  BY <1>1, QuietExhausted

\* Only a pass that finds the breaker closed goes on to the upstream, and nobody
\* else is opening it for the feed whose slot that pass holds.
LEMMA CheckBreakerExhausted ==
  ASSUME Reliable, TypeOK, OnePassPerFeed, ExhaustedInv,
         NEW w \in Workers, CheckBreaker(w)
  PROVE  ExhaustedInv'
<1>. DEFINE k == feed[w]
<1>1. pc[w] = "gating" /\ UNCHANGED <<now, breaker, exhausted>> /\ Holds(w)
  BY DEF CheckBreaker, storeVars, Holds, HoldingStages
<1>2. PICK open \in SeenOpen(k) :
        \/ ~open /\ UNCHANGED feed
              /\ Advance(w, IF w \in Tasks THEN "loading" ELSE "converting")
        \/ open /\ Advance(w, "degrading") /\ UNCHANGED feed
        \/ open /\ End(w)
  BY DEF CheckBreaker
<1>3. open = BreakerOpen(k)
  BY DEF SeenOpen, Reliable
<1>4. CASE open
  BY <1>1, <1>2, <1>4, EndExhausted, AdvanceExhausted DEF Stages, UpstreamStages
<1>5. CASE ~open
  <2>1. k \notin exhausted
    <3>. SUFFICES ASSUME k \in exhausted
                  PROVE  FALSE
      OBVIOUS
    <3>1. PICK v \in Workers : pc[v] = "tripping" /\ feed[v] = k
      BY <1>3, <1>5 DEF ExhaustedInv, BreakerOpen
    <3>2. v = w
      BY <1>1, <3>1 DEF OnePassPerFeed, Holds, HoldingStages
    <3>. QED
      BY <1>1, <3>1, <3>2
  <2>2. \A v \in Workers : v # w => pc'[v] = pc[v]
    BY <1>2, <1>5 DEF Advance, TypeOK
  <2>3. UNCHANGED feed /\ pc'[w] # "tripping"
    BY <1>2, <1>5 DEF Advance, TypeOK
  <2>. QED
    BY <1>1, <2>1, <2>2, <2>3 DEF ExhaustedInv
<1>. QED
  BY <1>4, <1>5

\* A conversion that runs out of quota is the only pass of its feed, and goes on
\* to open the breaker.
LEMMA OutOfQuotaExhausted ==
  ASSUME TypeOK, OnePassPerFeed, ExhaustedInv, NEW w \in Workers, ConvertOutOfQuota(w)
  PROVE  ExhaustedInv'
<1>1. /\ pc[w] = "converting" /\ feed[w] \in Metered
      /\ exhausted' = exhausted \cup {feed[w]}
      /\ \A v \in Workers : pc'[v] = IF v = w THEN "tripping" ELSE pc[v]
      /\ UNCHANGED <<now, breaker, feed>>
  BY DEF ConvertOutOfQuota, Advance, TypeOK
<1>2. \A v \in Workers : v # w /\ pc[v] \in UpstreamStages => feed[v] # feed[w]
  BY <1>1 DEF OnePassPerFeed, Holds, HoldingStages, UpstreamStages
<1>. QED
  BY <1>1, <1>2 DEF ExhaustedInv, UpstreamStages

\* Opening the breaker covers every feed that met the exhausted quota.
LEMMA TripExhausted ==
  ASSUME Reliable, TypeOK, ExhaustedInv, NEW w \in Workers, Trip(w)
  PROVE  ExhaustedInv'
<1>1. now' = now /\ exhausted' = exhausted /\ breaker' > now'
  BY NextResetLater DEF Trip, Reliable, TypeOK
<1>2. \A v \in Workers : v # w => pc'[v] = pc[v] /\ feed'[v] = feed[v]
  BY DEF Trip, FailOver, End, Advance, TypeOK
<1>3. pc'[w] \in {"idle", "degrading"}
  BY DEF Trip, FailOver, End, Advance, TypeOK
<1>. QED
  BY <1>1, <1>2, <1>3 DEF ExhaustedInv, UpstreamStages

LEMMA PassExhausted ==
  ASSUME Reliable, TypeOK, OnePassPerFeed, ExhaustedInv, NEW w \in Workers, PassStep(w)
  PROVE  ExhaustedInv'
<1>1. CASE ConvertOk(w)
  BY <1>1, AdvanceExhausted DEF ConvertOk, storeVars, Stages, UpstreamStages
<1>2. CASE ConvertFail(w)
  <2>1. pc[w] = "converting" /\ UNCHANGED <<now, breaker, exhausted>> /\ FailOver(w)
    BY <1>2 DEF ConvertFail, storeVars
  <2>2. CASE End(w)
    BY <2>1, <2>2, EndExhausted
  <2>3. CASE ~End(w)
    BY <2>1, <2>3, AdvanceExhausted DEF FailOver, Stages, UpstreamStages
  <2>. QED
    BY <2>2, <2>3
<1>3. CASE Store(w)
  BY <1>3, EndExhausted DEF Store
<1>. QED
  BY <1>1, <1>2, <1>3, CheckBreakerExhausted, OutOfQuotaExhausted, TripExhausted DEF PassStep

LEMMA RequestExhausted ==
  ASSUME Reliable, TypeOK, OnePassPerFeed, ExhaustedInv, NEW r \in Requests, RequestStep(r)
  PROVE  ExhaustedInv'
<1>. r \in Workers
  BY DEF Workers
<1>. USE DEF storeVars
<1>1. CASE ServeFresh(r) \/ DegradeFail(r)
  BY <1>1, EndExhausted DEF ServeFresh, DegradeFail
<1>2. ASSUME NEW t \in Tasks, ServeStale(r, t)
      PROVE  ExhaustedInv'
  <2>1. /\ t \in Workers /\ r # t
        /\ \A v \in Workers \ {r, t} : pc'[v] = pc[v] /\ feed'[v] = feed[v]
        /\ pc[r] # "tripping" /\ pc[t] # "tripping"
        /\ pc'[r] = "idle" /\ pc'[t] = "spawned"
    BY <1>2, FeedsAssumption DEF ServeStale, Workers, TypeOK
  <2>2. UNCHANGED <<now, breaker, exhausted>>
    BY <1>2 DEF ServeStale
  <2>. QED
    BY <2>1, <2>2, QuietExhausted DEF UpstreamStages
<1>3. CASE CacheMiss(r) \/ AskSlot(r) \/ AcquireSlot(r) \/ DegradeOk(r)
  <2>1. /\ UNCHANGED <<now, breaker, exhausted, feed>> /\ pc[r] # "tripping"
        /\ \E stage \in Stages \ UpstreamStages : Advance(r, stage)
    BY <1>3 DEF CacheMiss, AskSlot, AcquireSlot, DegradeOk, Stages, UpstreamStages
  <2>. QED
    BY <2>1, AdvanceExhausted
<1>4. CASE PassStep(r)
  BY <1>4, PassExhausted
<1>. QED
  BY <1>1, <1>2, <1>3, <1>4 DEF RequestStep

LEMMA TaskExhausted ==
  ASSUME Reliable, TypeOK, OnePassPerFeed, ExhaustedInv, NEW t \in Tasks, TaskStep(t)
  PROVE  ExhaustedInv'
<1>. t \in Workers
  BY DEF Workers
<1>. USE DEF storeVars
<1>1. CASE TryBegin(t) \/ LoadCopy(t) \/ ProbeUnchanged(t) \/ ProbeChanged(t) \/ Renew(t)
  <2>1. UNCHANGED <<now, breaker, exhausted>> /\ pc[t] # "tripping"
    BY <1>1 DEF TryBegin, LoadCopy, ProbeUnchanged, ProbeChanged, Renew
  <2>2. \/ End(t)
        \/ pc[t] = "spawned" /\ Advance(t, "gating") /\ UNCHANGED feed
        \/ /\ pc[t] \in UpstreamStages /\ UNCHANGED feed
           /\ \E stage \in UpstreamStages : Advance(t, stage)
    BY <1>1 DEF TryBegin, LoadCopy, ProbeUnchanged, ProbeChanged, Renew, UpstreamStages
  <2>. QED
    BY <2>1, <2>2, EndExhausted, AdvanceExhausted DEF Stages, UpstreamStages
<1>2. CASE PassStep(t)
  BY <1>2, PassExhausted
<1>. QED
  BY <1>1, <1>2 DEF TaskStep

\* The breaker lasts until the reset, and the reset forgets the exhausted quota.
LEMMA TickExhausted ==
  ASSUME TypeOK, BreakerHoldsUntilReset, ExhaustedInv, Tick
  PROVE  ExhaustedInv'
<1>1. UNCHANGED <<pc, feed>> /\ now' = now + 1
  BY DEF Tick, workVars
<1>2. NextReset(now) \in Nat /\ NextReset(now) > now /\ now \in Nat
  BY NextResetLater DEF TypeOK
<1>3. CASE now + 1 = NextReset(now)
  BY <1>3 DEF Tick, ExhaustedInv
<1>4. CASE now + 1 # NextReset(now)
  <2>1. exhausted' = exhausted
    BY <1>4 DEF Tick
  <2>2. breaker > now => breaker' > now'
    BY <1>1, <1>2, <1>4 DEF Tick, BreakerHoldsUntilReset
  <2>. QED
    BY <1>1, <2>1, <2>2 DEF ExhaustedInv
<1>. QED
  BY <1>3, <1>4

LEMMA NextExhausted ==
  ASSUME Reliable, TypeOK, OnePassPerFeed, BreakerHoldsUntilReset, ExhaustedInv, late = {},
         [Next]_vars
  PROVE  ExhaustedInv'
<1>1. ASSUME NEW r \in Requests, NEW k \in Feeds, Arrive(r, k)
      PROVE  ExhaustedInv'
  <2>1. /\ r \in Workers /\ pc[r] = "idle" /\ pc'[r] = "lookup"
        /\ \A v \in Workers \ {r} : pc'[v] = pc[v] /\ feed'[v] = feed[v]
        /\ UNCHANGED <<now, breaker, exhausted>>
    BY <1>1 DEF Arrive, Advance, TypeOK, Workers, storeVars
  <2>. QED
    BY <2>1, QuietExhausted DEF UpstreamStages
<1>2. \A r \in Requests : ~Abandon(r)
  BY DEF Abandon, Reliable
<1>3. CASE UNCHANGED vars
  BY <1>3 DEF vars, ExhaustedInv
<1>. QED
  BY <1>1, <1>2, <1>3, RequestExhausted, TaskExhausted, TickExhausted DEF Next

\* With a store that answers and clients that stay, a feed whose conversion met
\* the exhausted quota is not converted again, by any request or revalidation,
\* until the quota is reset: for any feeds, workers, windows and quota period.
THEOREM OneFailingCallPerReset ==
  ASSUME NeverSwept, Reliable
  PROVE  Spec => []NoSecondExhaustion
<1>1. Init => ExhaustedInv
  BY DEF Init, ExhaustedInv, UpstreamStages
<1>2. /\ TypeOK /\ OnePassPerFeed /\ LadderInv /\ BreakerHoldsUntilReset
      /\ ExhaustedInv /\ [Next]_vars
      => ExhaustedInv'
  BY NextExhausted DEF LadderInv
<1>3. ExhaustedInv => NoSecondExhaustion
  BY DEF ExhaustedInv, NoSecondExhaustion, UpstreamStages
<1>. QED
  BY <1>1, <1>2, <1>3, ServingInvariant, BreakerClosesAtReset, PTL DEF Spec

-------------------------------------------------------------------------------
(* Generations: what is cached, what is about to be stored and what a probe may *)
(* renew                                                                         *)

\* A body is never older than its generation says and lives for a full Stale
\* Window from then on at least; Redis keeps nothing of one that expired.
CopyInv ==
  \A k \in Feeds :
    /\ copy[k].gen <= now
    /\ HasBody(k) => copy[k].gen + StaleWindow <= copy[k].expires
    /\ ~HasBody(k) => copy[k] = NoCopy

\* A body about to be stored is no older than the one it replaces, and newer if
\* it is a Degraded Feed.
DraftInv ==
  \A w \in Workers : pc[w] = "storing" =>
    /\ draft[w].gen <= now
    /\ copy[feed[w]].gen <= draft[w].gen
    /\ draft[w].degraded /\ HasBody(feed[w]) => copy[feed[w]].gen < draft[w].gen

\* Behind a probe there is a full copy, or none by now, and time to renew it for.
ProbeInv ==
  \A w \in Workers : pc[w] \in {"probing", "renewing"} =>
    ~copy[feed[w]].degraded /\ grant[w] >= 1

AgeInv == CopyInv /\ DraftInv /\ ProbeInv

\* Who writes the record of a feed: the clock that expires it, the renewals and
\* the stores of its own passes.
LEMMA RecordWriters ==
  ASSUME TypeOK, late = {}, [Next]_vars, NEW k \in Feeds
  PROVE  \/ Tick
         \/ now' = now /\ copy'[k] = copy[k] /\ marker'[k] = marker[k]
         \/ \E t \in Tasks : feed[t] = k /\ Renew(t)
         \/ \E w \in Workers : feed[w] = k /\ Store(w)
<1>. DEFINE Same == now' = now /\ copy'[k] = copy[k] /\ marker'[k] = marker[k]
            Renewed == \E t \in Tasks : feed[t] = k /\ Renew(t)
            Stored == \E w \in Workers : feed[w] = k /\ Store(w)
<1>. USE DEF storeVars
<1>1. ASSUME NEW w \in Workers, PassStep(w)
      PROVE  Same \/ Stored
  <2>1. CASE Store(w)
    BY <2>1 DEF Store, Write, TypeOK
  <2>2. CASE ~Store(w)
    BY <1>1, <2>2 DEF PassStep, CheckBreaker, ConvertOk, ConvertOutOfQuota, ConvertFail, Trip
  <2>. QED
    BY <2>1, <2>2
<1>2. ASSUME NEW r \in Requests, RequestStep(r)
      PROVE  Same \/ Stored
  BY <1>1, <1>2 DEF RequestStep, ServeFresh, ServeStale, CacheMiss, AskSlot, AcquireSlot,
                    DegradeOk, DegradeFail, Workers
<1>3. ASSUME NEW t \in Tasks, TaskStep(t)
      PROVE  Same \/ Renewed \/ Stored
  <2>1. CASE Renew(t)
    BY <2>1 DEF Renew, TypeOK
  <2>2. CASE ~Renew(t)
    BY <1>1, <1>3, <2>2
    DEF TaskStep, TryBegin, LoadCopy, ProbeUnchanged, ProbeChanged, Workers
  <2>. QED
    BY <2>1, <2>2
<1>4. ASSUME NEW r \in Requests, Abandon(r) \/ \E j \in Feeds : Arrive(r, j)
      PROVE  Same
  BY <1>4 DEF Abandon, Arrive
<1>. QED
  BY <1>2, <1>3, <1>4 DEF Next, vars

\* What a store that answers holds of the feed after a store ...
LEMMA StoreEffect ==
  ASSUME ~StoreFaults, TypeOK, NEW w \in Workers, Store(w)
  PROVE  /\ feed[w] \in Feeds /\ now' = now
         /\ copy'[feed[w]] = [gen |-> draft[w].gen, degraded |-> draft[w].degraded,
                              expires |-> now + StaleWindow]
         /\ marker'[feed[w]] \in Nat /\ marker'[feed[w]] > now
<1>1. feed[w] \in Feeds /\ now' = now /\ Write(feed[w], draft[w]) /\ now \in Nat
  BY PolicyAssumption DEF Store, TypeOK
<1>2. \A ttl \in StoreTTLs(draft[w]) : ttl \in Nat /\ ttl > 0
  BY PolicyAssumption DEF StoreTTLs
<1>. QED
  BY <1>1, <1>2 DEF Write, TypeOK

\* ... and after a renewal.
LEMMA RenewEffect ==
  ASSUME ~StoreFaults, TypeOK, NEW t \in Workers, Renew(t)
  PROVE  /\ feed[t] \in Feeds /\ now' = now
         /\ marker'[feed[t]] = now + grant[t]
         /\ HasBody(feed[t]) =>
              copy'[feed[t]] = [gen |-> copy[feed[t]].gen, degraded |-> copy[feed[t]].degraded,
                                expires |-> now + StaleWindow]
         /\ ~HasBody(feed[t]) => copy'[feed[t]] = copy[feed[t]]
<1>1. feed[t] \in Feeds /\ now' = now
  BY DEF Renew, TypeOK
<1>2. copy[feed[t]] \in Copy
  BY <1>1 DEF TypeOK
<1>3. HasBody(feed[t]) => copy'[feed[t]] = [copy[feed[t]] EXCEPT !.expires = now + StaleWindow]
  BY <1>1 DEF Renew, TypeOK
<1>. QED
  BY <1>1, <1>2, <1>3 DEF Renew, TypeOK, Copy

LEMMA TickEffect ==
  ASSUME TypeOK, Tick, NEW k \in Feeds
  PROVE  /\ now \in Nat /\ now' = now + 1
         /\ copy[k].expires > now + 1 => copy'[k] = copy[k]
         /\ ~(copy[k].expires > now + 1) => copy'[k] = NoCopy
         /\ marker'[k] \in {marker[k], 0}
  BY PolicyAssumption DEF Tick, TypeOK

\* A worker comes to a store, a probe or a renewal by the step that begins it, and
\* stays there with its locals until it takes the next one.
LEMMA WorkerFrame ==
  ASSUME TypeOK, late = {}, [Next]_vars, NEW w \in Workers,
         pc'[w] \in {"storing", "probing", "renewing"}
  PROVE  \/ /\ pc'[w] = pc[w] /\ feed'[w] = feed[w]
            /\ draft'[w] = draft[w] /\ grant'[w] = grant[w]
         \/ ConvertOk(w) \/ DegradeOk(w)
         \/ LoadCopy(w) \/ ProbeUnchanged(w)
<1>. DEFINE Same == /\ pc'[w] = pc[w] /\ feed'[w] = feed[w]
                    /\ draft'[w] = draft[w] /\ grant'[w] = grant[w]
            Came == ConvertOk(w) \/ DegradeOk(w) \/ LoadCopy(w) \/ ProbeUnchanged(w)
<1>0. \A v \in Workers : End(v) => Same
  BY DEF End, TypeOK
<1>1. \A v \in Workers, s \in Stages :
        Advance(v, s) /\ UNCHANGED <<feed, draft, grant>> /\ s \notin {"storing", "probing", "renewing"}
          => Same
  BY DEF Advance, TypeOK
<1>2. ASSUME NEW v \in Workers, PassStep(v)
      PROVE  Same \/ Came
  <2>1. CASE ConvertOk(v)
    BY <2>1 DEF ConvertOk, Advance, TypeOK
  <2>2. CASE CheckBreaker(v) \/ ConvertOutOfQuota(v)
    BY <2>2, <1>0, <1>1 DEF CheckBreaker, ConvertOutOfQuota, Stages
  <2>3. CASE ConvertFail(v) \/ Trip(v) \/ Store(v)
    BY <2>3, <1>0, <1>1 DEF ConvertFail, Trip, FailOver, Store, Stages
  <2>. QED
    BY <1>2, <2>1, <2>2, <2>3 DEF PassStep
<1>3. ASSUME NEW r \in Requests, RequestStep(r)
      PROVE  Same \/ Came
  <2>. r \in Workers
    BY DEF Workers
  <2>1. CASE DegradeOk(r)
    BY <2>1 DEF DegradeOk, Advance, TypeOK
  <2>2. CASE \E t \in Tasks : ServeStale(r, t)
    BY <2>2 DEF ServeStale, TypeOK
  <2>3. CASE ServeFresh(r) \/ DegradeFail(r)
    BY <2>3, <1>0 DEF ServeFresh, DegradeFail
  <2>4. CASE CacheMiss(r) \/ AskSlot(r) \/ AcquireSlot(r)
    BY <2>4, <1>1 DEF CacheMiss, AskSlot, AcquireSlot, Stages
  <2>. QED
    BY <1>2, <1>3, <2>1, <2>2, <2>3, <2>4 DEF RequestStep
<1>4. ASSUME NEW t \in Tasks, TaskStep(t)
      PROVE  Same \/ Came
  <2>. t \in Workers
    BY DEF Workers
  <2>1. CASE LoadCopy(t)
    BY <2>1, <1>0 DEF LoadCopy, Advance, TypeOK
  <2>2. CASE ProbeUnchanged(t)
    BY <2>2 DEF ProbeUnchanged, Advance, TypeOK
  <2>3. CASE TryBegin(t) \/ ProbeChanged(t) \/ Renew(t)
    BY <2>3, <1>0, <1>1 DEF TryBegin, ProbeChanged, Renew, Stages
  <2>. QED
    BY <1>2, <1>4, <2>1, <2>2, <2>3 DEF TaskStep
<1>5. ASSUME NEW r \in Requests, Abandon(r) \/ \E k \in Feeds : Arrive(r, k)
      PROVE  Same
  BY <1>0, <1>5 DEF Abandon, Arrive, Advance, TypeOK, Workers
<1>6. CASE Tick \/ UNCHANGED vars
  BY <1>6 DEF Tick, vars, workVars
<1>. QED
  BY <1>2, <1>3, <1>4, <1>5, <1>6 DEF Next

LEMMA NextCopies ==
  ASSUME Reliable, TypeOK, LadderInv, AgeInv, [Next]_vars
  PROVE  CopyInv'
<1>. SUFFICES ASSUME NEW k \in Feeds
              PROVE  /\ copy'[k].gen <= now'
                     /\ copy'[k].expires > now' => copy'[k].gen + StaleWindow <= copy'[k].expires
                     /\ ~(copy'[k].expires > now') => copy'[k] = NoCopy
  BY DEF CopyInv, HasBody
<1>. /\ now \in Nat /\ StaleWindow \in Nat /\ StaleWindow > 0 /\ copy[k] \in Copy /\ NoCopy \in Copy
     /\ \A w \in Workers : draft[w] \in Draft
  BY PolicyAssumption DEF TypeOK, Copy, NoCopy
<1>0. /\ copy[k].gen <= now
      /\ copy[k].expires > now => copy[k].gen + StaleWindow <= copy[k].expires
      /\ ~(copy[k].expires > now) => copy[k] = NoCopy
  BY DEF AgeInv, CopyInv, HasBody
<1>1. CASE Tick
  BY <1>0, <1>1, TickEffect DEF Copy, NoCopy
<1>2. CASE now' = now /\ copy'[k] = copy[k] /\ marker'[k] = marker[k]
  BY <1>0, <1>2
<1>3. ASSUME NEW t \in Tasks, feed[t] = k, Renew(t)
      PROVE  /\ copy'[k].gen <= now'
             /\ copy'[k].expires > now' => copy'[k].gen + StaleWindow <= copy'[k].expires
             /\ ~(copy'[k].expires > now') => copy'[k] = NoCopy
  <2>1. now' = now
    BY <1>3, RenewEffect DEF Reliable, Workers
  <2>2. CASE copy[k].expires > now
    <3>1. copy'[k] = [gen |-> copy[k].gen, degraded |-> copy[k].degraded,
                      expires |-> now + StaleWindow]
      BY <1>3, <2>2, RenewEffect DEF Reliable, HasBody, Workers
    <3>. QED
      BY <1>0, <2>1, <3>1 DEF Copy
  <2>3. CASE ~(copy[k].expires > now)
    <3>1. copy'[k] = copy[k]
      BY <1>3, <2>3, RenewEffect DEF Reliable, HasBody, Workers
    <3>. QED
      BY <1>0, <2>1, <3>1
  <2>. QED
    BY <2>2, <2>3
<1>4. ASSUME NEW w \in Workers, feed[w] = k, Store(w)
      PROVE  /\ copy'[k].gen <= now'
             /\ copy'[k].expires > now' => copy'[k].gen + StaleWindow <= copy'[k].expires
             /\ ~(copy'[k].expires > now') => copy'[k] = NoCopy
  <2>1. draft[w].gen <= now
    BY <1>4 DEF AgeInv, DraftInv, Store
  <2>2. /\ now' = now
        /\ copy'[k] = [gen |-> draft[w].gen, degraded |-> draft[w].degraded,
                       expires |-> now + StaleWindow]
    BY <1>4, StoreEffect DEF Reliable
  <2>. QED
    BY <2>1, <2>2 DEF Draft
<1>5. late = {}
  BY DEF LadderInv
<1>. QED
  BY <1>1, <1>2, <1>3, <1>4, <1>5, RecordWriters

\* While a worker is past the slot of its feed, others leave the feed's record
\* alone; only the clock may empty it.
LEMMA RecordOfPass ==
  ASSUME Reliable, TypeOK, OnePassPerFeed, LadderInv, [Next]_vars,
         NEW w \in Workers, Holds(w), ~Store(w), ~Renew(w)
  PROVE  /\ now' \in Nat /\ now <= now'
         /\ copy'[feed[w]] = copy[feed[w]] \/ copy'[feed[w]] = NoCopy
<1>1. feed[w] \in Feeds /\ late = {} /\ now \in Nat
  BY PolicyAssumption DEF TypeOK, Holds, HoldingStages, LadderInv
<1>2. \A t \in Tasks : ~(feed[t] = feed[w] /\ Renew(t))
  BY DEF OnePassPerFeed, Renew, Holds, HoldingStages, Workers
<1>3. \A v \in Workers : ~(feed[v] = feed[w] /\ Store(v))
  BY DEF OnePassPerFeed, Store, Holds, HoldingStages
<1>. QED
  BY <1>1, <1>2, <1>3, RecordWriters, TickEffect

LEMMA NextDrafts ==
  ASSUME Reliable, TypeOK, OnePassPerFeed, LadderInv, AgeInv, [Next]_vars
  PROVE  DraftInv'
<1>. SUFFICES ASSUME NEW w \in Workers, pc'[w] = "storing"
              PROVE  /\ draft'[w].gen <= now'
                     /\ copy'[feed'[w]].gen <= draft'[w].gen
                     /\ draft'[w].degraded /\ copy'[feed'[w]].expires > now'
                          => copy'[feed'[w]].gen < draft'[w].gen
  BY DEF DraftInv, HasBody
<1>. /\ now \in Nat /\ StaleWindow \in Nat /\ StaleWindow > 0 /\ draft[w] \in Draft
     /\ \A k \in Feeds : copy[k] \in Copy
  BY PolicyAssumption DEF TypeOK
<1>0. late = {} /\ NoCopy \in Copy /\ NoCopy.gen = 0 /\ NoCopy.expires = 0
  BY DEF LadderInv, NoCopy, Copy
<1>1. CASE pc'[w] = pc[w] /\ feed'[w] = feed[w] /\ draft'[w] = draft[w]
  <2>1. Holds(w) /\ ~Store(w) /\ ~Renew(w) /\ feed[w] \in Feeds
    BY <1>1 DEF Holds, HoldingStages, Store, Renew, End, TypeOK
  <2>2. /\ draft[w].gen <= now
        /\ copy[feed[w]].gen <= draft[w].gen
        /\ draft[w].degraded /\ copy[feed[w]].expires > now => copy[feed[w]].gen < draft[w].gen
    BY <1>1 DEF AgeInv, DraftInv, HasBody
  <2>. QED
    BY <1>0, <1>1, <2>1, <2>2, RecordOfPass DEF Copy, Draft
<1>2. CASE ConvertOk(w)
  <2>1. /\ draft'[w] = [gen |-> now, degraded |-> FALSE] /\ feed[w] \in Feeds
        /\ UNCHANGED <<now, copy, feed>>
    BY <1>2 DEF ConvertOk, TypeOK, storeVars
  <2>. QED
    BY <2>1 DEF AgeInv, CopyInv, Copy
<1>3. CASE DegradeOk(w)
  <2>1. /\ draft'[w] = [gen |-> now, degraded |-> TRUE] /\ feed[w] \in Feeds
        /\ UNCHANGED <<now, copy, feed>>
    BY <1>3 DEF DegradeOk, TypeOK, storeVars
  <2>2. w \in Requests
    BY <1>3 DEF DegradeOk, LadderInv, Workers
  <2>3. ~Servable(feed[w])
    BY <1>3, <2>2 DEF DegradeOk, LadderInv, CommittedStages
  <2>4. copy[feed[w]].gen <= now
    BY <2>1 DEF AgeInv, CopyInv
  <2>5. copy[feed[w]].expires > now => copy[feed[w]].gen < now
    BY <2>1, <2>3, <2>4 DEF Servable, HasBody, Age, Copy
  <2>. QED
    BY <2>1, <2>4, <2>5
<1>4. ~(LoadCopy(w) \/ ProbeUnchanged(w))
  BY DEF LoadCopy, ProbeUnchanged, End, Advance, TypeOK
<1>. QED
  BY <1>0, <1>1, <1>2, <1>3, <1>4, WorkerFrame

LEMMA NextProbes ==
  ASSUME Reliable, TypeOK, OnePassPerFeed, LadderInv, AgeInv, [Next]_vars
  PROVE  ProbeInv'
<1>. SUFFICES ASSUME NEW w \in Workers, pc'[w] \in {"probing", "renewing"}
              PROVE  ~copy'[feed'[w]].degraded /\ grant'[w] >= 1
  BY DEF ProbeInv
<1>. /\ now \in Nat /\ \A k \in Feeds : copy[k] \in Copy
  BY PolicyAssumption DEF TypeOK
<1>0. late = {} /\ ~NoCopy.degraded
  BY DEF LadderInv, NoCopy
<1>1. CASE pc'[w] = pc[w] /\ feed'[w] = feed[w] /\ grant'[w] = grant[w]
  <2>1. Holds(w) /\ ~Store(w) /\ ~Renew(w)
    BY <1>1 DEF Holds, HoldingStages, Store, Renew, End, TypeOK
  <2>2. ~copy[feed[w]].degraded /\ grant[w] >= 1
    BY <1>1 DEF AgeInv, ProbeInv
  <2>. QED
    BY <1>0, <1>1, <2>1, <2>2, RecordOfPass
<1>2. CASE LoadCopy(w)
  <2>1. /\ feed[w] \in Feeds /\ UNCHANGED <<copy, feed>> /\ Probeable(feed[w])
        /\ grant'[w] = AtMost(MaxFresh - Age(feed[w]), FreshTTL)
    BY <1>2 DEF LoadCopy, End, Advance, TypeOK, storeVars
  <2>. QED
    BY <2>1, PolicyAssumption DEF Probeable, AtMost, Age, Copy
<1>3. CASE ProbeUnchanged(w)
  BY <1>3 DEF ProbeUnchanged, AgeInv, ProbeInv, storeVars
<1>4. ~(ConvertOk(w) \/ DegradeOk(w))
  BY DEF ConvertOk, DegradeOk, Advance, TypeOK
<1>. QED
  BY <1>0, <1>1, <1>2, <1>3, <1>4, WorkerFrame

CacheInv == TypeOK /\ SlotInv /\ OnePassPerFeed /\ LadderInv /\ AgeInv

LEMMA CacheInvariant ==
  ASSUME NeverSwept, Reliable
  PROVE  Spec => []CacheInv
<1>1. Init => AgeInv
  BY FeedsAssumption DEF Init, AgeInv, CopyInv, DraftInv, ProbeInv, HasBody, NoCopy
<1>2. TypeOK /\ OnePassPerFeed /\ LadderInv /\ AgeInv /\ [Next]_vars => AgeInv'
  BY NextCopies, NextDrafts, NextProbes DEF AgeInv
<1>. QED
  BY <1>1, <1>2, ServingInvariant, SlotInvariant, PTL DEF Spec, CacheInv

\* While the map is not swept, the store answers and clients stay, whatever order
\* requests, revalidations and the clock go in, a stored Feed only ever gives way
\* to one that was generated later, or at the same moment.
THEOREM NewerReplacesOlder ==
  ASSUME NeverSwept, Reliable
  PROVE  Spec => GenerationsAdvance
<1>1. ASSUME CacheInv, [Next]_vars, NEW k \in Feeds, HasBody(k), HasBody(k)'
      PROVE  copy'[k].gen >= copy[k].gen
  <2>. late = {} /\ TypeOK /\ now \in Nat /\ now' \in Nat /\ copy[k] \in Copy
    BY <1>1, NextTypes, PolicyAssumption DEF CacheInv, LadderInv, TypeOK
  <2>1. CASE copy'[k] = NoCopy
    BY <1>1, <2>1 DEF HasBody, NoCopy
  <2>2. CASE copy'[k].gen = copy[k].gen
    BY <2>2 DEF Copy
  <2>3. ASSUME NEW w \in Workers, feed[w] = k, Store(w), Write(k, draft[w])
        PROVE  copy'[k].gen >= copy[k].gen
    <3>1. copy'[k].gen = draft[w].gen
      BY <2>3 DEF Write, TypeOK
    <3>2. copy[k].gen <= draft[w].gen /\ draft[w] \in Draft
      BY <1>1, <2>3 DEF CacheInv, AgeInv, DraftInv, Store, TypeOK
    <3>. QED
      BY <3>1, <3>2 DEF Copy, Draft
  <2>. QED
    BY <1>1, <2>1, <2>2, <2>3, CopyWriters
<1>2. CacheInv /\ [Next]_vars
        => [\A k \in Feeds : HasBody(k) /\ HasBody(k)' => copy'[k].gen >= copy[k].gen]_vars
  BY <1>1
<1>. QED
  BY <1>2, CacheInvariant, PTL DEF Spec, GenerationsAdvance

\* Under the same assumptions nobody prolongs the marker of a Degraded Feed: not
\* the probe that was answered for the full copy before it, nor a second store.
THEOREM DegradedNeverProlonged ==
  ASSUME NeverSwept, Reliable
  PROVE  Spec => DegradedExpiresSoon
<1>1. ASSUME CacheInv, [Next]_vars, NEW k \in Feeds, HasBody(k), copy[k].degraded,
             HasBody(k)', copy'[k].degraded, copy'[k].gen = copy[k].gen
      PROVE  marker'[k] <= marker[k]
  <2>. TypeOK /\ late = {} /\ now \in Nat /\ copy[k] \in Copy /\ marker[k] \in Nat
    BY <1>1, PolicyAssumption DEF CacheInv, LadderInv, TypeOK
  <2>1. CASE Tick
    BY <2>1, TickEffect
  <2>2. \A t \in Tasks : ~(feed[t] = k /\ Renew(t))
    BY <1>1 DEF CacheInv, AgeInv, ProbeInv, Renew, Workers
  <2>3. ASSUME NEW w \in Workers, feed[w] = k, Store(w)
        PROVE  FALSE
    <3>1. copy'[k] = [gen |-> draft[w].gen, degraded |-> draft[w].degraded,
                      expires |-> now + StaleWindow]
      BY <1>1, <2>3, StoreEffect DEF Reliable
    <3>2. draft[w].degraded => copy[k].gen < draft[w].gen
      BY <1>1, <2>3 DEF CacheInv, AgeInv, DraftInv, Store
    <3>3. draft[w] \in Draft
      BY DEF TypeOK
    <3>. QED
      BY <1>1, <3>1, <3>2, <3>3 DEF Copy, Draft
  <2>. QED
    BY <1>1, <2>1, <2>2, <2>3, RecordWriters
<1>2. CacheInv /\ [Next]_vars
        => [\A k \in Feeds :
              /\ HasBody(k) /\ copy[k].degraded
              /\ HasBody(k)' /\ copy'[k].degraded /\ copy'[k].gen = copy[k].gen
              => marker'[k] <= marker[k]]_vars
  BY <1>1
<1>. QED
  BY <1>2, CacheInvariant, PTL DEF Spec, DegradedExpiresSoon

\* The Fresh Period ends before the Stale Window does: a day against a week in the
\* defaults, which no code enforces of the configured values.
WindowsNested == MaxFresh + 1 < StaleWindow

\* With nested windows a Fresh copy always spends time as a Stale one before it is
\* gone, although markers are prolonged and jittered and bodies re-anchored by
\* renewals; without them nested a Feed can turn from Fresh into a miss at once.
THEOREM StaleBeforeGone ==
  ASSUME NeverSwept, Reliable, WindowsNested
  PROVE  Spec => FreshAgesThroughStale
<1>1. ASSUME CacheInv, [Next]_vars, NEW k \in Feeds, IsFresh(k)
      PROVE  Servable(k)'
  <2>. /\ TypeOK /\ late = {} /\ now \in Nat /\ copy[k] \in Copy /\ marker[k] \in Nat
       /\ MaxFresh \in Nat /\ StaleWindow \in Nat /\ StaleWindow > 0
    BY <1>1, PolicyAssumption DEF CacheInv, LadderInv, TypeOK
  <2>0. /\ copy[k].expires > now /\ now - copy[k].gen <= MaxFresh
        /\ copy[k].gen <= now /\ copy[k].gen + StaleWindow <= copy[k].expires
        /\ MaxFresh + 1 < StaleWindow
    BY <1>1 DEF CacheInv, AgeInv, CopyInv, IsFresh, HasBody, Age, WindowsNested
  <2>. SUFFICES copy'[k].expires > now' /\ now' - copy'[k].gen < StaleWindow
    BY DEF Servable, HasBody, Age
  <2>1. CASE Tick
    BY <2>0, <2>1, TickEffect DEF Copy
  <2>2. CASE now' = now /\ copy'[k] = copy[k]
    BY <2>0, <2>2 DEF Copy
  <2>3. ASSUME NEW t \in Tasks, feed[t] = k, Renew(t)
        PROVE  copy'[k].expires > now' /\ now' - copy'[k].gen < StaleWindow
    <3>1. /\ now' = now
          /\ copy'[k] = [gen |-> copy[k].gen, degraded |-> copy[k].degraded,
                         expires |-> now + StaleWindow]
      BY <2>0, <2>3, RenewEffect DEF Reliable, HasBody, Workers
    <3>. QED
      BY <2>0, <3>1 DEF Copy
  <2>4. ASSUME NEW w \in Workers, feed[w] = k, Store(w)
        PROVE  copy'[k].expires > now' /\ now' - copy'[k].gen < StaleWindow
    <3>1. copy[k].gen <= draft[w].gen /\ draft[w] \in Draft
      BY <1>1, <2>4 DEF CacheInv, AgeInv, DraftInv, Store, TypeOK
    <3>2. /\ now' = now
          /\ copy'[k] = [gen |-> draft[w].gen, degraded |-> draft[w].degraded,
                         expires |-> now + StaleWindow]
      BY <2>4, StoreEffect DEF Reliable
    <3>. QED
      BY <2>0, <3>1, <3>2 DEF Copy, Draft
  <2>. QED
    BY <1>1, <2>1, <2>2, <2>3, <2>4, RecordWriters
<1>2. CacheInv /\ [Next]_vars => [\A k \in Feeds : IsFresh(k) => Servable(k)']_vars
  BY <1>1
<1>. QED
  BY <1>2, CacheInvariant, PTL DEF Spec, FreshAgesThroughStale

-------------------------------------------------------------------------------
(* The ladder implements CoalescedFeeds *)

Held == [k \in Feeds |-> Condition(k)]
Passing(k) == {w \in Workers : Holds(w) /\ feed[w] = k}
Passes == [k \in Feeds |-> Passing(k)]

\* A step of the cache's promise, or none.
Promised ==
  \/ \E w \in Workers, k \in Feeds : Coalesced!Begin(w, k) \/ Coalesced!Finish(w, k)
  \/ Coalesced!Lapse
  \/ UNCHANGED <<Held, Passes>>

LEMMA HeldFrame ==
  ASSUME now' = now, copy' = copy, marker' = marker
  PROVE  Held' = Held
  BY DEF Held, Condition, Servable, IsFresh, HasBody, Age

LEMMA PassesFrame ==
  ASSUME \A w \in Workers : (Holds(w))' <=> Holds(w),
         \A w \in Workers : Holds(w) => feed'[w] = feed[w]
  PROVE  Passes' = Passes
<1>1. \A k \in Feeds : Passing(k)' = Passing(k)
  BY DEF Passing
<1>. QED
  BY <1>1 DEF Passes

\* A worker gets past the slot of a feed nobody else was past.
LEMMA BeginPromised ==
  ASSUME TypeOK, NEW w \in Workers, NEW k \in Feeds, feed[w] = k, ~Holds(w),
         \A v \in Workers : Holds(v) => feed[v] # k,
         NEW stage \in HoldingStages, Advance(w, stage),
         UNCHANGED <<now, copy, marker, feed>>
  PROVE  Promised
<1>1. (Holds(w))' /\ \A v \in Workers \ {w} : (Holds(v))' <=> Holds(v)
  BY DEF Holds, Advance, TypeOK
<1>2. Passing(k) = {} /\ Passing(k)' = {w}
  BY <1>1 DEF Passing
<1>3. \A j \in Feeds \ {k} : Passing(j)' = Passing(j)
  BY <1>1 DEF Passing
<1>4. Passes[k] = {} /\ Passes' = [Passes EXCEPT ![k] = {w}]
  BY <1>2, <1>3 DEF Passes
<1>5. Held' = Held
  BY HeldFrame
<1>6. Coalesced!Begin(w, k)
  BY <1>4, <1>5 DEF Coalesced!Begin, Passes, Passing, Held
<1>. QED
  BY <1>6 DEF Promised

\* A pass ends and leaves its feed in a condition it may leave it in.
LEMMA FinishPromised ==
  ASSUME TypeOK, OnePassPerFeed, NEW w \in Workers, NEW k \in Feeds, feed[w] = k,
         Holds(w), End(w),
         Condition(k)' \in Coalesced!MayLeave(k),
         \A j \in Feeds \ {k} : Condition(j)' = Condition(j)
  PROVE  Promised
<1>1. /\ ~(Holds(w))'
      /\ \A v \in Workers \ {w} : ((Holds(v))' <=> Holds(v)) /\ feed'[v] = feed[v]
  BY DEF Holds, HoldingStages, End, TypeOK
<1>2. Passing(k) = {w}
  BY DEF Passing, OnePassPerFeed
<1>3. Passing(k)' = {}
  BY <1>1, <1>2 DEF Passing
<1>4. \A j \in Feeds \ {k} : Passing(j)' = Passing(j)
  BY <1>1 DEF Passing
<1>5. Passes[k] = {w} /\ Passes' = [Passes EXCEPT ![k] = {}]
  BY <1>2, <1>3, <1>4 DEF Passes
<1>6. Held' = [Held EXCEPT ![k] = Condition(k)']
  BY DEF Held
<1>7. Coalesced!Finish(w, k)
  BY <1>5, <1>6 DEF Coalesced!Finish, Passes, Passing, Held
<1>. QED
  BY <1>7 DEF Promised

\* A pass ends without having written.
LEMMA EndPromised ==
  ASSUME TypeOK, OnePassPerFeed, NEW w \in Workers, End(w), UNCHANGED <<now, copy, marker>>
  PROVE  Promised
<1>1. CASE Holds(w)
  <2>1. PICK k \in Feeds : feed[w] = k
    BY <1>1 DEF TypeOK, Holds, HoldingStages
  <2>2. \A j \in Feeds : Condition(j)' = Condition(j)
    BY DEF Condition, Servable, IsFresh, HasBody, Age
  <2>3. Condition(k) \in Coalesced!MayLeave(k)
    BY DEF Coalesced!MayLeave
  <2>. QED
    BY <1>1, <2>1, <2>2, <2>3, FinishPromised
<1>2. CASE ~Holds(w)
  <2>1. \A v \in Workers : ((Holds(v))' <=> Holds(v)) /\ (Holds(v) => feed'[v] = feed[v])
    BY <1>2 DEF Holds, HoldingStages, End, TypeOK
  <2>. QED
    BY <2>1, PassesFrame, HeldFrame DEF Promised
<1>. QED
  BY <1>1, <1>2

\* A worker moves on, on the same side of its slot.
LEMMA AdvancePromised ==
  ASSUME TypeOK, NEW w \in Workers, NEW stage \in Stages, Advance(w, stage),
         Holds(w) <=> stage \in HoldingStages, UNCHANGED <<now, copy, marker, feed>>
  PROVE  Promised
<1>1. \A v \in Workers : ((Holds(v))' <=> Holds(v)) /\ (Holds(v) => feed'[v] = feed[v])
  BY DEF Holds, Advance, TypeOK
<1>. QED
  BY <1>1, PassesFrame, HeldFrame DEF Promised

\* A stored draft, full or degraded, is something the pass may leave behind.
LEMMA StorePromised ==
  ASSUME Reliable, CacheInv, NEW w \in Workers, Store(w)
  PROVE  Promised
<1>. TypeOK /\ OnePassPerFeed
  BY DEF CacheInv
<1>1. PICK k \in Feeds : feed[w] = k
  BY DEF Store, TypeOK
<1>. /\ now \in Nat /\ copy[k] \in Copy /\ draft[w] \in Draft
     /\ StaleWindow \in Nat /\ StaleWindow > 0 /\ MaxFresh \in Nat
  BY PolicyAssumption DEF TypeOK
<1>2. /\ now' = now
      /\ copy'[k] = [gen |-> draft[w].gen, degraded |-> draft[w].degraded,
                     expires |-> now + StaleWindow]
      /\ marker'[k] > now
  BY <1>1, StoreEffect DEF Reliable
<1>3. draft[w].gen <= now /\ copy[k].gen <= draft[w].gen
  BY <1>1 DEF CacheInv, AgeInv, DraftInv, Store
<1>4. /\ Servable(k)' <=> now - draft[w].gen <= MaxFresh \/ now - draft[w].gen < StaleWindow
      /\ copy'[k].degraded = draft[w].degraded
  BY <1>2 DEF Servable, IsFresh, HasBody, Age, Draft
<1>5. Servable(k) => Servable(k)'
  BY <1>3, <1>4 DEF Servable, IsFresh, HasBody, Age, Copy, Draft
<1>6. draft[w].degraded => ~Servable(k)
  BY <1>1 DEF CacheInv, LadderInv, CommittedStages, Store, Workers
<1>7. Condition(k)' \in Coalesced!MayLeave(k)
  BY <1>4, <1>5, <1>6 DEF Condition, Coalesced!MayLeave
<1>8. \A j \in Feeds \ {k} : copy'[j] = copy[j] /\ marker'[j] = marker[j]
  BY <1>1 DEF Store, Write, TypeOK
<1>9. \A j \in Feeds \ {k} : Condition(j)' = Condition(j)
  BY <1>2, <1>8 DEF Condition, Servable, IsFresh, HasBody, Age
<1>. QED
  BY <1>1, <1>7, <1>9, FinishPromised DEF Store, Holds, HoldingStages

\* So is a renewed copy: a full one, or none by now.
LEMMA RenewPromised ==
  ASSUME Reliable, CacheInv, NEW t \in Workers, Renew(t)
  PROVE  Promised
<1>. TypeOK /\ OnePassPerFeed
  BY DEF CacheInv
<1>1. PICK k \in Feeds : feed[t] = k
  BY DEF Renew, TypeOK
<1>. /\ now \in Nat /\ copy[k] \in Copy /\ grant[t] \in Nat
     /\ StaleWindow \in Nat /\ StaleWindow > 0 /\ MaxFresh \in Nat
  BY PolicyAssumption DEF TypeOK
<1>2. now' = now /\ marker'[k] = now + grant[t]
  BY <1>1, RenewEffect DEF Reliable
<1>3. ~copy[k].degraded /\ grant[t] >= 1
  BY <1>1 DEF CacheInv, AgeInv, ProbeInv, Renew
<1>4. ASSUME HasBody(k)
      PROVE  Condition(k)' \in Coalesced!MayLeave(k)
  <2>1. copy'[k] = [gen |-> copy[k].gen, degraded |-> copy[k].degraded,
                    expires |-> now + StaleWindow]
    BY <1>1, <1>4, RenewEffect DEF Reliable
  <2>2. /\ Servable(k) => Servable(k)'
        /\ ~copy'[k].degraded
    BY <1>2, <1>3, <2>1 DEF Servable, IsFresh, HasBody, Age, Copy
  <2>. QED
    BY <2>2 DEF Condition, Coalesced!MayLeave
<1>5. ASSUME ~HasBody(k)
      PROVE  Condition(k)' \in Coalesced!MayLeave(k)
  <2>1. copy'[k] = copy[k]
    BY <1>1, <1>5, RenewEffect DEF Reliable
  <2>2. ~Servable(k) /\ ~Servable(k)'
    BY <1>2, <1>5, <2>1 DEF Servable, HasBody
  <2>. QED
    BY <2>2 DEF Condition, Coalesced!MayLeave
<1>6. Condition(k)' \in Coalesced!MayLeave(k)
  BY <1>4, <1>5
<1>7. \A j \in Feeds \ {k} : copy'[j] = copy[j] /\ marker'[j] = marker[j]
  BY <1>1 DEF Renew, TypeOK
<1>8. \A j \in Feeds \ {k} : Condition(j)' = Condition(j)
  BY <1>2, <1>7 DEF Condition, Servable, IsFresh, HasBody, Age
<1>. QED
  BY <1>1, <1>6, <1>8, FinishPromised DEF Renew, Holds, HoldingStages

LEMMA PassPromised ==
  ASSUME Reliable, CacheInv, NEW w \in Workers, PassStep(w)
  PROVE  Promised
<1>. TypeOK /\ OnePassPerFeed
  BY DEF CacheInv
<1>. USE DEF storeVars
<1>1. CASE Store(w)
  BY <1>1, StorePromised
<1>2. CASE ~Store(w)
  <2>1. UNCHANGED <<now, copy, marker>> /\ Holds(w)
    BY <1>2 DEF PassStep, CheckBreaker, ConvertOk, ConvertOutOfQuota, ConvertFail, Trip,
                Holds, HoldingStages
  <2>2. \/ End(w)
        \/ /\ UNCHANGED feed
           /\ \E stage \in {"loading", "converting", "degrading", "storing", "tripping"} :
                Advance(w, stage)
    BY <1>2 DEF PassStep, CheckBreaker, ConvertOk, ConvertOutOfQuota, ConvertFail, Trip, FailOver
  <2>. QED
    BY <2>1, <2>2, EndPromised, AdvancePromised DEF Stages, HoldingStages
<1>. QED
  BY <1>1, <1>2

LEMMA RequestPromised ==
  ASSUME Reliable, CacheInv, NEW r \in Requests, RequestStep(r)
  PROVE  Promised
<1>. TypeOK /\ OnePassPerFeed /\ SlotInv /\ r \in Workers
  BY DEF CacheInv, Workers
<1>. USE DEF storeVars
<1>1. CASE ServeFresh(r) \/ DegradeFail(r)
  BY <1>1, EndPromised DEF ServeFresh, DegradeFail
<1>2. ASSUME NEW t \in Tasks, ServeStale(r, t)
      PROVE  Promised
  <2>. t \in Workers /\ t # r
    BY FeedsAssumption DEF Workers
  <2>1. /\ pc' = [pc EXCEPT ![r] = "idle", ![t] = "spawned"] /\ pc[t] = "idle"
        /\ feed' = [feed EXCEPT ![r] = NoFeed, ![t] = feed[r]]
        /\ slot' = [slot EXCEPT ![r] = NoLock]
        /\ UNCHANGED <<now, copy, marker>>
    BY <1>2 DEF ServeStale
  <2>2. PICK k \in Feeds : feed[r] = k
    BY <1>2 DEF ServeStale, TypeOK
  <2>3. /\ ~(Holds(r))' /\ ~Holds(t) /\ ~(Holds(t))'
        /\ \A v \in Workers \ {r, t} : ((Holds(v))' <=> Holds(v)) /\ feed'[v] = feed[v]
    BY <2>1 DEF Holds, HoldingStages, TypeOK
  <2>4. CASE ~Holds(r)
    BY <2>1, <2>3, <2>4, PassesFrame, HeldFrame DEF Promised
  <2>5. CASE Holds(r)
    <3>1. Passing(k) = {r} /\ Passing(k)' = {}
      <4>1. Passing(k) = {r}
        BY <2>2, <2>5 DEF Passing, OnePassPerFeed
      <4>. QED
        BY <2>3, <4>1 DEF Passing
    <3>2. \A j \in Feeds \ {k} : Passing(j)' = Passing(j)
      BY <2>2, <2>3 DEF Passing
    <3>3. Passes[k] = {r} /\ Passes' = [Passes EXCEPT ![k] = {}]
      BY <3>1, <3>2 DEF Passes
    <3>4. Held' = Held
      BY <2>1, HeldFrame
    <3>5. Held' = [Held EXCEPT ![k] = Held[k]] /\ Held[k] \in Coalesced!MayLeave(k)
      BY <3>4 DEF Held, Coalesced!MayLeave
    <3>6. Coalesced!Finish(r, k)
      BY <3>3, <3>5 DEF Coalesced!Finish, Passes, Passing, Held
    <3>. QED
      BY <3>6 DEF Promised
  <2>. QED
    BY <2>4, <2>5
<1>3. CASE CacheMiss(r) \/ AskSlot(r) \/ DegradeOk(r)
  <2>1. /\ UNCHANGED <<now, copy, marker, feed>>
        /\ \E stage \in Stages : Advance(r, stage) /\ (Holds(r) <=> stage \in HoldingStages)
    BY <1>3 DEF CacheMiss, AskSlot, DegradeOk, Holds, HoldingStages, Stages
  <2>. QED
    BY <2>1, AdvancePromised
<1>4. CASE AcquireSlot(r)
  <2>1. PICK k \in Feeds : feed[r] = k
    BY <1>4 DEF AcquireSlot, TypeOK
  <2>2. ASSUME NEW v \in Workers, Holds(v), feed[v] = k
        PROVE  FALSE
    <3>1. slot[v] = tracked[k] /\ slot[r] = tracked[k]
      BY <1>4, <2>1, <2>2 DEF SlotInv, AcquireSlot
    <3>. QED
      BY <1>4, <2>2, <3>1 DEF AcquireSlot
  <2>. QED
    BY <1>4, <2>1, <2>2, BeginPromised DEF AcquireSlot, Holds, HoldingStages
<1>5. CASE PassStep(r)
  BY <1>5, PassPromised
<1>. QED
  BY <1>1, <1>2, <1>3, <1>4, <1>5 DEF RequestStep

LEMMA TaskPromised ==
  ASSUME NeverSwept, Reliable, CacheInv, NEW t \in Tasks, TaskStep(t)
  PROVE  Promised
<1>. TypeOK /\ OnePassPerFeed /\ SlotInv /\ t \in Workers
  BY DEF CacheInv, Workers
<1>. USE DEF storeVars
<1>1. CASE TryBegin(t)
  <2>1. PICK k \in Feeds : feed[t] = k
    BY <1>1 DEF TryBegin, TypeOK
  <2>2. PICK l \in Locks :
          /\ TakeLock(k, l)
          /\ \/ ~InUse(l) /\ Advance(t, "gating") /\ UNCHANGED feed
             \/ End(t)
    BY <1>1, <2>1 DEF TryBegin
  <2>3. UNCHANGED <<now, copy, marker>>
    BY <1>1 DEF TryBegin
  <2>4. CASE End(t)
    BY <2>3, <2>4, EndPromised
  <2>5. CASE ~End(t)
    <3>1. ASSUME NEW v \in Workers, Holds(v), feed[v] = k
          PROVE  FALSE
      <4>1. slot[v] # NoLock
        BY <3>1 DEF SlotInv
      <4>2. slot[v] = tracked[k] /\ tracked[k] # NoLock
        BY <3>1, <4>1 DEF SlotInv
      <4>3. l = tracked[k]
        BY <2>2, <4>2, SweptIsTracked DEF TakeLock
      <4>. QED
        BY <2>2, <2>5, <4>2, <4>3 DEF InUse
    <3>. QED
      BY <1>1, <2>1, <2>2, <2>3, <2>5, <3>1, BeginPromised
      DEF TryBegin, Holds, HoldingStages
  <2>. QED
    BY <2>4, <2>5
<1>2. CASE Renew(t)
  BY <1>2, RenewPromised
<1>3. CASE LoadCopy(t) \/ ProbeUnchanged(t) \/ ProbeChanged(t)
  <2>1. UNCHANGED <<now, copy, marker>> /\ Holds(t)
    BY <1>3 DEF LoadCopy, ProbeUnchanged, ProbeChanged, Holds, HoldingStages
  <2>2. \/ End(t)
        \/ UNCHANGED feed /\ \E stage \in {"probing", "renewing", "converting"} : Advance(t, stage)
    BY <1>3 DEF LoadCopy, ProbeUnchanged, ProbeChanged
  <2>. QED
    BY <2>1, <2>2, EndPromised, AdvancePromised DEF Stages, HoldingStages
<1>4. CASE PassStep(t)
  BY <1>4, PassPromised
<1>. QED
  BY <1>1, <1>2, <1>3, <1>4 DEF TaskStep

\* What the clock does to the cache: it takes copies away, and changes no other.
LEMMA TickPromised ==
  ASSUME TypeOK, Tick
  PROVE  Promised
<1>. DEFINE gone == {k \in Feeds : ~Servable(k)'}
<1>1. \A k \in Feeds : Condition(k)' = IF k \in gone THEN "missing" ELSE Condition(k)
  <2>. SUFFICES ASSUME NEW k \in Feeds, Servable(k)'
                PROVE  Condition(k)' = Condition(k)
    BY DEF Condition
  <2>1. Servable(k)
    BY TickFrame
  <2>2. copy'[k] = copy[k]
    BY TickEffect DEF Servable, HasBody, NoCopy
  <2>. QED
    BY <2>1, <2>2 DEF Condition
<1>2. Held' = [k \in Feeds |-> IF k \in gone THEN "missing" ELSE Held[k]]
  BY <1>1 DEF Held
<1>3. Passes' = Passes
  BY PassesFrame DEF Tick, workVars, Holds
<1>4. gone \in SUBSET Feeds
  OBVIOUS
<1>. HIDE DEF gone
<1>5. Coalesced!Lapse
  BY <1>2, <1>3, <1>4 DEF Coalesced!Lapse, Passes, Passing, Held
<1>. QED
  BY <1>5 DEF Promised

LEMMA NextPromised ==
  ASSUME NeverSwept, Reliable, CacheInv, [Next]_vars
  PROVE  Promised
<1>. TypeOK
  BY DEF CacheInv
<1>1. ASSUME NEW r \in Requests, NEW k \in Feeds, Arrive(r, k)
      PROVE  Promised
  <2>1. \A v \in Workers : ((Holds(v))' <=> Holds(v)) /\ (Holds(v) => feed'[v] = feed[v])
    BY <1>1 DEF Arrive, Advance, Holds, HoldingStages, TypeOK
  <2>. QED
    BY <1>1, <2>1, PassesFrame, HeldFrame DEF Arrive, storeVars, Promised
<1>2. \A r \in Requests : ~Abandon(r)
  BY DEF Abandon, Reliable
<1>3. late = {}
  BY DEF CacheInv, LadderInv
<1>4. CASE UNCHANGED vars
  <2>1. UNCHANGED <<now, copy, marker, pc, feed>>
    BY <1>4 DEF vars
  <2>. QED
    BY <2>1, PassesFrame, HeldFrame DEF Holds, Promised
<1>. QED
  BY <1>1, <1>2, <1>3, <1>4, RequestPromised, TaskPromised, TickPromised DEF Next

\* While the map is not swept, the store answers and clients stay, every step of
\* every request, revalidation and the clock is a step of the coalesced,
\* never-downgrading cache, for any feeds, workers, windows and TTLs.
THEOREM ImplementsCoalescedFeeds ==
  ASSUME NeverSwept, Reliable
  PROVE  Spec => RefinesCoalesced
<1>1. Init => Coalesced!Init
  <2>. SUFFICES ASSUME Init
                PROVE  Held = [k \in Feeds |-> "missing"] /\ Passes = [k \in Feeds |-> {}]
    BY DEF Coalesced!Init, Held, Passes, Passing
  <2>. QED
    BY DEF Init, Held, Condition, Servable, HasBody, NoCopy, Passes, Passing, Holds,
           HoldingStages
<1>2. CacheInv /\ [Next]_vars
        => [Coalesced!Next]_(<<[k \in Feeds |-> Condition(k)],
                               [k \in Feeds |-> {w \in Workers : Holds(w) /\ feed[w] = k}]>>)
  BY NextPromised DEF Promised, Coalesced!Next, Held, Passes, Passing
<1>. QED
  BY <1>1, <1>2, CacheInvariant, PTL DEF Spec, RefinesCoalesced, Coalesced!Spec
===============================================================================
