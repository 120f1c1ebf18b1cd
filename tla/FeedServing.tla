------------------------------ MODULE FeedServing ------------------------------
(***************************************************************************)
(* The Degradation Ladder of src/src/feed_serving/mod.rs: requests serve a *)
(* Feed from the cache or regenerate it under a per-feed slot, background  *)
(* revalidations renew or regenerate the Stale copies those requests       *)
(* served, and the Quota Breaker preempts metered work.  Redis is one      *)
(* shared store whose commands take effect in one step; upstream calls     *)
(* (conversion, probe, quota-free generation) answer whenever they like.   *)
(***************************************************************************)
EXTENDS Naturals, FiniteSets

CONSTANTS
  Feeds,         \* Canonical Feed Keys
  Metered,       \* feeds of a provider with a metered API (YouTube with a key)
  Requests,      \* serving requests; each may be made again once answered
  Tasks,         \* background revalidations that may run at the same time
  Locks,         \* identities a slot's Arc<Mutex> can have
  NoLock, NoFeed,
  FreshTTL,      \* policy.fresh_ttl_secs
  Jitter,        \* policy.fresh_ttl_jitter_secs
  DegradedTTL,   \* policy.degraded_fresh_ttl_secs
  MaxFresh,      \* policy.max_fresh_period_secs, the Fresh Period
  StaleWindow,   \* policy.stale_window_secs
  QuotaPeriod,   \* time between two quota resets of the metered provider
  MaxTracked,    \* MAX_TRACKED_REGENERATION_LOCKS
  MaxTime,       \* bound on the clock
  MaxLate,       \* bound on abandoned writes still on their way to Redis
  StoreFaults,   \* may Redis commands fail?
  Disconnects    \* may a client go away while its request is served?

Workers == Requests \cup Tasks

ASSUME FeedsAssumption ==
  /\ IsFiniteSet(Feeds)
  /\ Metered \subseteq Feeds
  /\ NoFeed \notin Feeds
  /\ NoLock \notin Locks
  /\ Requests \cap Tasks = {}

ASSUME PolicyAssumption ==
  /\ {FreshTTL, DegradedTTL, MaxFresh, StaleWindow, QuotaPeriod} \subseteq Nat \ {0}
  /\ {Jitter, MaxTracked, MaxTime, MaxLate} \subseteq Nat
  /\ {StoreFaults, Disconnects} \subseteq BOOLEAN

VARIABLES
  now,       \* the clock, in seconds
  copy,      \* copy[k]: the feed hash of k with the second Redis expires it
  marker,    \* marker[k]: the second the fresh marker of k expires
  breaker,   \* the reset time stored under the breaker key (0: no key)
  tracked,   \* REGENERATION_LOCKS: the lock tracked for a feed, or NoLock
  pc,        \* where a worker is between two awaits
  feed,      \* the feed a worker works for
  slot,      \* the lock a worker waits for or holds
  draft,     \* the copy a worker generated and is about to store
  grant,     \* the Fresh TTL a probing revalidation will renew with
  failed,    \* the requests whose last answer was an error
  late,      \* writes an abandoned request had already sent
  exhausted  \* history: feeds whose conversion met the exhausted quota since
             \* the last reset

storeVars == <<copy, marker, breaker, late, exhausted>>
workVars == <<pc, feed, slot, draft, grant, failed>>
vars == <<now, copy, marker, breaker, tracked, pc, feed, slot, draft, grant,
          failed, late, exhausted>>

-------------------------------------------------------------------------------
(* Types *)

Stages == {"idle", "lookup", "asking", "queued", "recheck", "spawned", "gating",
           "loading", "probing", "renewing", "converting", "tripping",
           "degrading", "storing"}

\* The stages in which a worker owns the slot of its feed.
HoldingStages == {"recheck", "gating", "loading", "probing", "renewing",
                  "converting", "tripping", "degrading", "storing"}

Copy == [gen : Nat, degraded : BOOLEAN, expires : Nat]
NoCopy == [gen |-> 0, degraded |-> FALSE, expires |-> 0]

Draft == [gen : Nat, degraded : BOOLEAN]
NoDraft == [gen |-> 0, degraded |-> FALSE]

TypeOK ==
  /\ now \in 0..MaxTime
  /\ copy \in [Feeds -> Copy]
  /\ marker \in [Feeds -> Nat]
  /\ breaker \in Nat
  /\ tracked \in [Feeds -> Locks \cup {NoLock}]
  /\ pc \in [Workers -> Stages]
  /\ feed \in [Workers -> Feeds \cup {NoFeed}]
  /\ slot \in [Workers -> Locks \cup {NoLock}]
  /\ draft \in [Workers -> Draft]
  /\ grant \in [Workers -> Nat]
  /\ failed \subseteq Requests
  /\ late \subseteq Feeds \X Draft
  /\ exhausted \subseteq Feeds
  /\ \A w \in Workers : pc[w] # "idle" => feed[w] \in Feeds

-------------------------------------------------------------------------------
(* What a read of the store shows *)

Age(k) == now - copy[k].gen
HasBody(k) == copy[k].expires > now

\* classify_freshness: Fresh needs the marker and an age within the Fresh Period.
IsFresh(k) == HasBody(k) /\ marker[k] > now /\ Age(k) <= MaxFresh
Servable(k) == HasBody(k) /\ (IsFresh(k) \/ Age(k) < StaleWindow)
IsStale(k) == Servable(k) /\ ~IsFresh(k)

BreakerOpen(k) == k \in Metered /\ breaker > now

\* A failed read of the breaker counts as closed.
SeenOpen(k) == IF StoreFaults THEN {FALSE, BreakerOpen(k)} ELSE {BreakerOpen(k)}

\* Mutation: the breaker holds a full period instead of until the next reset.
NextReset_FullPeriod(t) == t + QuotaPeriod

\* The provider's next quota reset after time t (next_quota_reset).
NextReset(t) == (t \div QuotaPeriod + 1) * QuotaPeriod

AtMost(m, n) == IF m <= n THEN m ELSE n

-------------------------------------------------------------------------------
(* The regeneration slots *)

Holds(w) == pc[w] \in HoldingStages

\* The lock map as regeneration_lock leaves it for the entry it then takes.
Swept == IF Cardinality({k \in Feeds : tracked[k] # NoLock}) > MaxTracked
         THEN [k \in Feeds |-> NoLock]
         ELSE tracked

\* An Arc nobody references, neither the map nor a worker.
Unreferenced(map) ==
  Locks \ ({map[k] : k \in Feeds} \cup {slot[w] : w \in Workers})

\* Mutation: every caller gets a lock of its own.
TakeLock_Private(k, l) ==
  /\ Unreferenced(Swept) # {}
  /\ l = CHOOSE m \in Unreferenced(Swept) : TRUE
  /\ tracked' = [Swept EXCEPT ![k] = l]

\* regeneration_lock: the map's lock for k, a new one when it has none.
TakeLock(k, l) ==
  /\ IF Swept[k] = NoLock
       THEN /\ Unreferenced(Swept) # {}
            /\ l = CHOOSE m \in Unreferenced(Swept) : TRUE
       ELSE l = Swept[k]
  /\ tracked' = [Swept EXCEPT ![k] = l]

\* Mutation: a revalidation never finds its lock in use.
InUse_Never(l) == FALSE

\* Somebody waits for lock l or holds it.
InUse(l) == \E w \in Workers : slot[w] = l

Advance(w, stage) == pc' = [pc EXCEPT ![w] = stage]

\* The worker's pass ends: its locals go, and with them the slot guard.
End(w) ==
  /\ pc' = [pc EXCEPT ![w] = "idle"]
  /\ feed' = [feed EXCEPT ![w] = NoFeed]
  /\ slot' = [slot EXCEPT ![w] = NoLock]
  /\ draft' = [draft EXCEPT ![w] = NoDraft]
  /\ grant' = [grant EXCEPT ![w] = 0]

-------------------------------------------------------------------------------
(* serve: the cache rungs *)

\* A client asks for feed k; the Canonical Feed Key is known from here on.
Arrive(r, k) ==
  /\ pc[r] = "idle"
  /\ Advance(r, "lookup")
  /\ feed' = [feed EXCEPT ![r] = k]
  /\ failed' = failed \ {r}
  /\ UNCHANGED <<now, storeVars, tracked, slot, draft, grant>>

\* serve_from_cache finds a Fresh copy.
ServeFresh(r) ==
  /\ pc[r] \in {"lookup", "recheck"}
  /\ IsFresh(feed[r])
  /\ End(r)
  /\ UNCHANGED <<now, storeVars, tracked, failed>>

\* serve_from_cache finds a Stale copy: it is served and its revalidation is
\* spawned, here on a free member of the bounded pool Tasks.
ServeStale(r, t) ==
  /\ pc[r] \in {"lookup", "recheck"}
  /\ IsStale(feed[r])
  /\ pc[t] = "idle"
  /\ pc' = [pc EXCEPT ![r] = "idle", ![t] = "spawned"]
  /\ feed' = [feed EXCEPT ![r] = NoFeed, ![t] = feed[r]]
  /\ slot' = [slot EXCEPT ![r] = NoLock]
  /\ UNCHANGED <<now, storeVars, tracked, draft, grant, failed>>

\* Nothing servable, or the read failed.  The first miss goes for the slot, the
\* second one, under the slot, on down the ladder.
CacheMiss(r) ==
  /\ \/ pc[r] = "lookup" /\ Advance(r, "asking")
     \/ pc[r] = "recheck" /\ Advance(r, "gating")
  /\ ~Servable(feed[r]) \/ StoreFaults
  /\ UNCHANGED <<now, storeVars, tracked, feed, slot, draft, grant, failed>>

\* begin_regeneration, up to the point where the request waits for its turn.
AskSlot(r) ==
  /\ pc[r] = "asking"
  /\ \E l \in Locks : TakeLock(feed[r], l) /\ slot' = [slot EXCEPT ![r] = l]
  /\ Advance(r, "queued")
  /\ UNCHANGED <<now, storeVars, feed, draft, grant, failed>>

\* Mutation: the cache is not read again under the slot.
AcquireSlot_NoRecheck(r) ==
  /\ pc[r] = "queued"
  /\ \A w \in Workers : Holds(w) => slot[w] # slot[r]
  /\ Advance(r, "gating")
  /\ UNCHANGED <<now, storeVars, tracked, feed, slot, draft, grant, failed>>

\* tokio's mutex hands the lock to one of the waiters.
AcquireSlot(r) ==
  /\ pc[r] = "queued"
  /\ \A w \in Workers : Holds(w) => slot[w] # slot[r]
  /\ Advance(r, "recheck")
  /\ UNCHANGED <<now, storeVars, tracked, feed, slot, draft, grant, failed>>

-------------------------------------------------------------------------------
(* revalidate: the rungs before the conversion *)

\* try_begin_regeneration: a lock in use ends the revalidation at once.
TryBegin(t) ==
  /\ pc[t] = "spawned"
  /\ \E l \in Locks :
       /\ TakeLock(feed[t], l)
       /\ \/ /\ ~InUse(l)
             /\ Advance(t, "gating")
             /\ slot' = [slot EXCEPT ![t] = l]
             /\ UNCHANGED <<feed, draft, grant>>
          \/ InUse(l) /\ End(t)
  /\ UNCHANGED <<now, storeVars, failed>>

\* The Quota Breaker, consulted under the slot by requests and revalidations.
CheckBreaker(w) ==
  /\ pc[w] = "gating"
  /\ \E open \in SeenOpen(feed[w]) :
       \/ /\ ~open
          /\ Advance(w, IF w \in Tasks THEN "loading" ELSE "converting")
          /\ UNCHANGED <<feed, slot, draft, grant>>
       \/ /\ open /\ w \in Requests
          /\ Advance(w, "degrading")
          /\ UNCHANGED <<feed, slot, draft, grant>>
       \/ open /\ w \in Tasks /\ End(w)
  /\ UNCHANGED <<now, storeVars, tracked, failed>>

\* Mutation: a probe may renew a Degraded Feed as well.
Probeable_Degraded(k) == Age(k) < MaxFresh /\ k \in Metered

\* A probe may renew a full copy within its Fresh Period; only a metered
\* conversion recorded the state a probe needs.
Probeable(k) == Age(k) < MaxFresh /\ ~copy[k].degraded /\ k \in Metered

\* The copy the revalidation works on, whatever its freshness by now.
LoadCopy(t) ==
  /\ pc[t] = "loading"
  /\ LET k == feed[t]
     IN \/ /\ ~HasBody(k) \/ StoreFaults
           /\ End(t)
        \/ /\ HasBody(k) /\ Probeable(k)
           /\ Advance(t, "probing")
           /\ grant' = [grant EXCEPT ![t] = AtMost(MaxFresh - Age(k), FreshTTL)]
           /\ UNCHANGED <<feed, slot, draft>>
        \/ /\ HasBody(k) /\ ~Probeable(k)
           /\ Advance(t, "converting")
           /\ UNCHANGED <<feed, slot, draft, grant>>
  /\ UNCHANGED <<now, storeVars, tracked, failed>>

\* The probe answers "unchanged", or "changed" or fails.
ProbeUnchanged(t) ==
  /\ pc[t] = "probing"
  /\ Advance(t, "renewing")
  /\ UNCHANGED <<now, storeVars, tracked, feed, slot, draft, grant, failed>>

ProbeChanged(t) ==
  /\ pc[t] = "probing"
  /\ Advance(t, "converting")
  /\ UNCHANGED <<now, storeVars, tracked, feed, slot, draft, grant, failed>>

\* renew_freshness: SET the marker, re-anchor the body's expiry when there is one.
Renew(t) ==
  /\ pc[t] = "renewing"
  /\ \/ /\ marker' = [marker EXCEPT ![feed[t]] = now + grant[t]]
        /\ copy' = IF HasBody(feed[t])
                   THEN [copy EXCEPT ![feed[t]].expires = now + StaleWindow]
                   ELSE copy
     \/ StoreFaults /\ UNCHANGED <<marker, copy>>
  /\ End(t)
  /\ UNCHANGED <<now, breaker, late, exhausted, tracked, failed>>

-------------------------------------------------------------------------------
(* The conversion and what follows from its failure *)

\* generate_rss_feed answers with a Feed.
ConvertOk(w) ==
  /\ pc[w] = "converting"
  /\ draft' = [draft EXCEPT ![w] = [gen |-> now, degraded |-> FALSE]]
  /\ Advance(w, "storing")
  /\ UNCHANGED <<now, storeVars, tracked, feed, slot, grant, failed>>

\* It fails with the typed QuotaExhausted case: the breaker comes first.
ConvertOutOfQuota(w) ==
  /\ pc[w] = "converting"
  /\ feed[w] \in Metered
  /\ Advance(w, "tripping")
  /\ exhausted' = exhausted \cup {feed[w]}
  /\ UNCHANGED <<now, copy, marker, breaker, late, tracked, feed, slot, draft, grant,
                 failed>>

\* Mutation: only the failure of a revalidation is handled.
FailOver_TasksOnly(w) == w \in Tasks /\ End(w)

\* What a failed conversion leads to: a request degrades, a revalidation ends
\* and leaves the stale body alone.
FailOver(w) ==
  \/ /\ w \in Requests
     /\ Advance(w, "degrading")
     /\ UNCHANGED <<feed, slot, draft, grant>>
  \/ w \in Tasks /\ End(w)

ConvertFail(w) ==
  /\ pc[w] = "converting"
  /\ FailOver(w)
  /\ UNCHANGED <<now, storeVars, tracked, failed>>

\* open_quota_breaker, best effort.
Trip(w) ==
  /\ pc[w] = "tripping"
  /\ breaker' \in {NextReset(now)} \cup (IF StoreFaults THEN {breaker} ELSE {})
  /\ FailOver(w)
  /\ UNCHANGED <<now, copy, marker, late, exhausted, tracked, failed>>

\* degrade: the quota-free generation answers, or the ladder is exhausted.
DegradeOk(r) ==
  /\ pc[r] = "degrading"
  /\ draft' = [draft EXCEPT ![r] = [gen |-> now, degraded |-> TRUE]]
  /\ Advance(r, "storing")
  /\ UNCHANGED <<now, storeVars, tracked, feed, slot, grant, failed>>

DegradeFail(r) ==
  /\ pc[r] = "degrading"
  /\ End(r)
  /\ failed' = failed \cup {r}
  /\ UNCHANGED <<now, storeVars, tracked>>

\* The Fresh TTLs a stored copy may get: fixed for a Degraded Feed, jittered
\* (0..Jitter-1 seconds on top) for a full one.
StoreTTLs(d) ==
  IF d.degraded THEN {DegradedTTL}
  ELSE {FreshTTL} \cup {FreshTTL + j : j \in 0..(Jitter - 1)}

\* Mutation: the body expires with its fresh marker.
Write_ShortBody(k, d) ==
  \E ttl \in StoreTTLs(d) :
    /\ copy' = [copy EXCEPT ![k] = [gen |-> d.gen, degraded |-> d.degraded,
                                    expires |-> now + ttl]]
    /\ marker' = [marker EXCEPT ![k] = now + ttl]

\* store_and_report reaches Redis: the hash, its expiry and the marker.
Write(k, d) ==
  /\ copy' = [copy EXCEPT ![k] = [gen |-> d.gen, degraded |-> d.degraded,
                                  expires |-> now + StaleWindow]]
  /\ \E ttl \in StoreTTLs(d) : marker' = [marker EXCEPT ![k] = now + ttl]

\* The generated body is stored, or the failure to store it is tolerated; either
\* way a request is answered with it.
Store(w) ==
  /\ pc[w] = "storing"
  /\ \/ Write(feed[w], draft[w])
     \/ StoreFaults /\ UNCHANGED <<copy, marker>>
  /\ End(w)
  /\ UNCHANGED <<now, breaker, late, exhausted, tracked, failed>>

-------------------------------------------------------------------------------
(* The environment *)

\* The client goes away: the request's future is dropped at its current await.
\* A write it had sent may still be on its way.
Abandon(r) ==
  /\ Disconnects
  /\ pc[r] # "idle"
  /\ End(r)
  /\ \/ UNCHANGED late
     \/ /\ pc[r] = "storing"
        /\ Cardinality(late) < MaxLate
        /\ late' = late \cup {<<feed[r], draft[r]>>}
  /\ UNCHANGED <<now, copy, marker, breaker, exhausted, tracked, failed>>

\* An abandoned write arrives at Redis.
Land(k, d) ==
  /\ <<k, d>> \in late
  /\ Write(k, d)
  /\ late' = late \ {<<k, d>>}
  /\ UNCHANGED <<now, breaker, exhausted, tracked, workVars>>

\* A second passes and Redis drops what expires; at a reset the provider's quota
\* is whole again.
Tick ==
  /\ now < MaxTime
  /\ now' = now + 1
  /\ copy' = [k \in Feeds |-> IF copy[k].expires > now + 1 THEN copy[k] ELSE NoCopy]
  /\ marker' = [k \in Feeds |-> IF marker[k] > now + 1 THEN marker[k] ELSE 0]
  /\ breaker' = IF breaker > now + 1 THEN breaker ELSE 0
  /\ exhausted' = IF now + 1 = NextReset(now) THEN {} ELSE exhausted
  /\ UNCHANGED <<late, tracked, workVars>>

-------------------------------------------------------------------------------
(* Specification *)

Init ==
  /\ now = 0
  /\ copy = [k \in Feeds |-> NoCopy]
  /\ marker = [k \in Feeds |-> 0]
  /\ breaker = 0
  /\ tracked = [k \in Feeds |-> NoLock]
  /\ pc = [w \in Workers |-> "idle"]
  /\ feed = [w \in Workers |-> NoFeed]
  /\ slot = [w \in Workers |-> NoLock]
  /\ draft = [w \in Workers |-> NoDraft]
  /\ grant = [w \in Workers |-> 0]
  /\ failed = {}
  /\ late = {}
  /\ exhausted = {}

\* Steps requests and revalidations share.
PassStep(w) ==
  \/ CheckBreaker(w) \/ ConvertOk(w) \/ ConvertOutOfQuota(w) \/ ConvertFail(w)
  \/ Trip(w) \/ Store(w)

RequestStep(r) ==
  \/ ServeFresh(r) \/ (\E t \in Tasks : ServeStale(r, t)) \/ CacheMiss(r)
  \/ AskSlot(r) \/ AcquireSlot(r) \/ DegradeOk(r) \/ DegradeFail(r)
  \/ PassStep(r)

TaskStep(t) ==
  \/ TryBegin(t) \/ LoadCopy(t) \/ ProbeUnchanged(t) \/ ProbeChanged(t)
  \/ Renew(t) \/ PassStep(t)

Next ==
  \/ \E r \in Requests, k \in Feeds : Arrive(r, k)
  \/ \E r \in Requests : RequestStep(r) \/ Abandon(r)
  \/ \E t \in Tasks : TaskStep(t)
  \/ \E x \in late : Land(x[1], x[2])
  \/ Tick

Spec == Init /\ [][Next]_vars

\* The runtime polls every runnable task; tokio's mutex is FIFO, so a waiter
\* that keeps coming up is served (strong fairness), and so is a request that
\* keeps finding a free background task.  That an upstream call answers at all
\* is an assumption on the upstream.
Fairness ==
  /\ \A r \in Requests : SF_vars(RequestStep(r))
  /\ \A t \in Tasks : WF_vars(TaskStep(t))

FairSpec == Spec /\ Fairness

-------------------------------------------------------------------------------
(* Properties *)

\* Requests and revalidations of one Feed share one upstream pass: no two
\* workers are past the regeneration slot of the same feed (begin_regeneration,
\* try_begin_regeneration), although the slot is a lock found through a map.
OnePassPerFeed ==
  \A v, w \in Workers : Holds(v) /\ Holds(w) /\ feed[v] = feed[w] => v = w

\* The Degraded Feed rung only fills a gap: a copy from a full conversion that
\* may still be served is never overwritten by a degraded one (serve, degrade).
NeverDowngraded ==
  [][\A k \in Feeds :
       Servable(k) /\ ~copy[k].degraded /\ HasBody(k)' => ~copy'[k].degraded]_vars

\* "Serving within the Stale Window is always preferred over failing": when a
\* request ends in an error, no servable copy of its feed exists (serve).
StalePreferredToFailing ==
  [][\A r \in Requests :
       r \notin failed /\ r \in failed' => ~Servable(feed[r])]_vars

\* A store never puts an older generation over a newer one (convert_and_store).
GenerationsAdvance ==
  [][\A k \in Feeds : HasBody(k) /\ HasBody(k)' => copy'[k].gen >= copy[k].gen]_vars

\* A Degraded Feed is Fresh for its own short TTL only: once stored, no step of
\* anybody prolongs the marker over it, so that the full feed comes back as soon
\* as the upstream allows (degrade, revalidate).
DegradedExpiresSoon ==
  [][\A k \in Feeds :
       /\ HasBody(k) /\ copy[k].degraded
       /\ HasBody(k)' /\ copy'[k].degraded /\ copy'[k].gen = copy[k].gen
       => marker'[k] <= marker[k]]_vars

\* A Fresh copy goes through the Stale Window: no single step of anybody turns it
\* into a miss, so it is revalidated in the background before a client waits.
FreshAgesThroughStale ==
  [][\A k \in Feeds : IsFresh(k) => Servable(k)']_vars

\* The breaker holds until the provider's next reset and not a moment longer,
\* however many passes open it (open_breaker_if_quota_exhausted).
BreakerHoldsUntilReset == breaker > now => breaker = NextReset(now)

\* A Feed that met the exhausted quota is not converted a second time before the
\* reset, neither by the requests that queued behind the failing conversion nor by
\* revalidations: "opening the breaker so no further request pays the failing-call
\* cost" (serve, revalidate, open_breaker_if_quota_exhausted).
NoSecondExhaustion ==
  \A w \in Workers : pc[w] = "converting" => feed[w] \notin exhausted

\* Every request is answered and every revalidation ends, provided the upstream
\* calls answer (serve, revalidate).
EverybodyFinishes == \A w \in Workers : pc[w] # "idle" ~> pc[w] = "idle"

\* The serving ladder implements the coalesced, never-downgrading cache.
Condition(k) == IF ~Servable(k) THEN "missing"
                ELSE IF copy[k].degraded THEN "degraded" ELSE "full"

Coalesced == INSTANCE CoalescedFeeds
  WITH held <- [k \in Feeds |-> Condition(k)],
       passes <- [k \in Feeds |-> {w \in Workers : Holds(w) /\ feed[w] = k}]

RefinesCoalesced == Coalesced!Spec

-------------------------------------------------------------------------------
(* Inductive invariants *)

\* As long as the lock map is never swept, a worker that waits for a slot or
\* holds it references the very lock the map tracks for its feed, and a lock has
\* at most one holder.
SlotInv ==
  /\ \A w \in Workers : slot[w] # NoLock <=> (pc[w] = "queued" \/ Holds(w))
  /\ \A w \in Workers : slot[w] # NoLock => slot[w] = tracked[feed[w]]
  /\ \A v, w \in Workers : Holds(v) /\ Holds(w) /\ slot[v] = slot[w] => v = w

\* With a store that answers and clients that stay, a request past its second
\* cache check holds the slot of a feed without a servable copy, and only
\* requests generate degraded copies.
CommittedStages == {"gating", "converting", "tripping", "degrading", "storing"}

LadderInv ==
  /\ late = {}
  /\ \A r \in Requests : pc[r] \in CommittedStages => ~Servable(feed[r])
  /\ \A t \in Tasks : pc[t] # "degrading" /\ ~draft[t].degraded
===============================================================================
