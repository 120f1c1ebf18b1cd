# A TLA+ verification of vod2pod-rss

vod2pod-rss turns a YouTube, PeerTube or generic feed into a podcast: it serves
RSS feeds it converts (and caches in Redis), and transcodes an episode's media
on demand with ffmpeg, after staging the source to a local file. This directory
holds TLA+ models of the parts of it where things happen at the same time,
fail, or wait for each other; the TLC runs that check them; and machine-checked
proofs of what matters most. `PROJECT.json` maps every definition to the source
lines it stands for.

## 1. Inventory

| part | state it keeps | operations | interacts with |
|---|---|---|---|
| **Feed Serving** `src/src/feed_serving/mod.rs` | `REGENERATION_LOCKS` (lock per Canonical Feed Key, process wide), nothing else of its own | `serve`, `revalidate` (spawned by a Stale serve) | Redis through `FeedCacheStore`; a provider; the server |
| **Redis feed cache** `feed_serving/redis_cache.rs` | in Redis: feed hash (expires with the Stale Window), fresh marker (expires with the Fresh TTL), breaker key, usage counter | `load_state`, `store_and_report`, `renew_freshness`, `quota_breaker_open`, `open_quota_breaker`, `bump_quota_usage`: one pipelined round trip each | Feed Serving |
| **YouTube provider** `provider/youtube/*` | in Redis: the channel of a handle (9999999 s), the stream URL of a video (900 s) | conversion (paginated Data API), probe, atom fallback, canonical id, stream URL (cached 900 s in Redis, evicted when the check stage fails) | Feed Serving, resolver |
| **Generic, PeerTube providers** `provider/*` | none | unmetered conversion; stream URL by yt-dlp | same |
| **Stream URL resolver** `transcoder/stream_url.rs` | the Staging Slot of the request | `resolve`: slot, stream URL, check stage, eviction | provider, staging |
| **Staging** `transcoder/staging/*` | the Staging Gate (semaphore), staged files on disk, per stage: plan, scheduler, retry ledger | `check` (the Source Stage), `stage_to`, chunk tasks, open-ended fallback, startup sweep | origin (HTTP), disk, resolver |
| **Transcoder and stdout pump** `transcoder/mod.rs`, `stdout_pump.rs` | ffmpeg child, channel of 100 items, pump counters | two threads (stdout, stderr) and the response stream | ffmpeg, client |
| **Transcode request** `transcoder/request.rs`, `media_sizing.rs` | none | Range parsing, byte window, seek, deadline | server |
| **Server** `server/*` | none | routes; conditional GET; construction timeout | everything above |
| **Startup** `main.rs` | Redis `version` key | sweep, gate, timeout assertion, flush on a new version | Redis, disk |
| **RSS transcodizer, episode identity, configuration** | none | pure rewriting and lookups | providers, server |

What is hard here, and what makes each part correct:

* *Feed Serving*: polls of the same feed race with each other and with
  background revalidations; every await is a point where the cache, the breaker
  or the lock map may have changed; Redis may fail at each call; a client may
  vanish at each await. Correct means: one upstream pass per feed, stale before
  error, never a degraded copy over a full one, one failing call per feed until
  the quota is reset, and everybody answered.
* *Redis cache*: two records with different lifetimes must fit each other.
* *Staging*: chunks fetched in parallel, each with retries, must assemble into
  exactly the source or fail; at most *capacity* staged files may exist,
  whatever client, timeout or crash ends a transcode.
* *Stdout pump*: two threads and a bounded channel; a broken transfer must never
  look complete, and ffmpeg must always be reaped.
* *Conversion*: a playlist that changes between the calls of one conversion, calls
  that fail one by one; pages, budget, probe and guids must still agree.
* *Identity*: the key and the conversion of a request work out the channel
  independently, and what has no identity goes by a normalized url; no entry may be
  filled with another entry's Feed.
* *Transcode request*: windows of resumed requests must tile the stream; the cached
  stream URL is shared by requests that find it dead at different times.
* *Polling and startup*: 304 answers, the promise of a bounded age, and a cache left
  by another version.

## 2. Plan

Written so that the most important behaviour comes first; each module keeps its
parameters as constants with named assumptions, one action per operation, and
no recursive operator, so that it can be proved about.

| module | content | state |
|---|---|---|
| `FeedServing`, `CoalescedFeeds` | the ladder and its abstract promise | modelled, checked; all safety proved |
| `StdoutPump`, `DeclaredTransfer` | pump threads, channel, client; the promise of a response | modelled, checked; all safety proved |
| `StagedSources`, `SlottedFiles` | gate, slots, guards, files, crash and sweep; the promise of the gate | modelled, checked; all safety proved |
| `SourceStage` | plan, scheduler, attempts, fallback, verification | modelled, checked; all safety proved |
| `FeedPolling` | the Redis operations command by command, conditional GET, startup flush | modelled, checked; all safety proved |
| `YouTubeFeeds` | conversion with pages and batches, probe, atom rung, guids, injection | modelled, checked; all safety proved |
| `TranscodeWindow`, `TranscodeRequests` | Range to window; resolution behind its cache, eviction, deadline, resuming clients | modelled, checked; all safety proved |
| `FeedIdentity` | Canonical Feed Keys, the handle cache, what a conversion fetches | modelled, checked; all safety proved |

Every invariant, action property and refinement of the passing runs is now a theorem;
what only the runs show is liveness (section 5). What is left: weaker hypotheses for
the ladder's theorems (`Reliable` excludes both lost store operations and vanished clients),
and more of the parts listed as partly modelled.

## 3. How the modules correspond to the code

### FeedServing (`feed_serving/mod.rs`, `redis_cache.rs`, `quota.rs`)

A *worker* is a request or a spawned revalidation; `pc[w]` names the await it
is at, and an action is everything it does between two awaits.

| state | code |
|---|---|
| `copy[k]` | the feed hash: which conversion it came from (`gen`, its `generated_at` second), whether it is degraded, when Redis expires it |
| `marker[k]` | the fresh marker's expiry |
| `breaker` | the reset time stored under the breaker key |
| `tracked[k]`, `slot[w]` | `REGENERATION_LOCKS` and the `Arc<Mutex>` a worker waits for or holds |
| `draft[w]`, `grant[w]` | locals carried over an await: the generated feed, the Fresh TTL a revalidation will renew with |
| `late` | writes an abandoned request had already sent to Redis |
| `failed` | the requests whose last answer was an error |
| `exhausted` | a ghost: the feeds whose conversion met the exhausted quota since the last reset |

| action | code |
|---|---|
| `Arrive`, `ServeFresh`, `ServeStale`, `CacheMiss` | `serve`: load, classify, answer or fall through; a Stale serve spawns a revalidation |
| `AskSlot`, `AcquireSlot` | `regeneration_lock` (with its sweep) and the lock, then the second look at the cache |
| `TryBegin` | `revalidate`'s `try_lock`: leave if somebody regenerates |
| `CheckBreaker`, `LoadCopy`, `ProbeUnchanged`, `ProbeChanged`, `Renew` | the quota gate, the probe and the renewal |
| `ConvertOk`, `ConvertOutOfQuota`, `ConvertFail`, `Trip` | the conversion, typed exhaustion and the opening of the breaker |
| `DegradeOk`, `DegradeFail`, `Store` | the quota-free generation and the write of a feed |
| `Abandon`, `Land` | the client goes away at an await; what it had sent may still arrive |
| `Tick` | the clock, with the expiries it brings |

A Redis operation is one step: each is one pipelined round trip. What happens
when its commands come apart is `FeedPolling`'s subject. The freshness
rules, the two TTLs and the next quota reset are computed as the code does, on
a clock of whole seconds. A feed's bytes, ETag and headers are abstracted to
the generation.

`CoalescedFeeds` is what this promises a reader: per feed, *missing*, *degraded*
or *full*; one pass at a time; a pass may leave a full copy always and a degraded
one only where nothing was servable. The refinement (`RefinesCoalesced`) maps a
feed to its servable copy and its passes to the workers inside the slot.

### StdoutPump (`transcoder/mod.rs`, `stdout_pump.rs`)

Three parties around a bounded channel: the stdout thread (`ReadSome`,
`ReadEOF`, `ReadInterrupted`, `ReadError`, the `Send...` actions, `Stop`,
`Wait`), the stderr watcher (`StderrClosed`, `StderrBroken`, `SendComplaint`)
and the response stream (`Receive`, `EndStream`, `Poll`, `DropStream`); ffmpeg is
a fourth (`Complain`, `CloseStdout`, `Exit`; external). Bytes are positions, so an
item is an interval of the declared stream and a gap or overlap is visible.
Padding, the one-tenth tolerance and the overrun check are the code's
arithmetic. `DeclaredTransfer` is the promise: the declared bytes in order, or
a transfer that visibly breaks.

### StagedSources (`check_stage.rs`, `stream_url.rs`, `transcoder/mod.rs`, `main.rs`)

Per request, `pc[r]` runs from `Arrive` through the gate (`Acquire`), the stream
URL (`Resolved`, `ResolveFails`), the preflight, the creation of the file
on the blocking pool (`CreateRuns` apart from `Created`, because dropping the
future does not cancel it), the stage (`StageDone`, `StageFails`, `Evict`),
and the stream (`StartStream`, `EndStream`). `GiveUp` is the future dropped at any of
these awaits. Dropping a guard is two steps, the file and then the slot
(`DropFile`, `Release`): other requests run in between. `Crash` and `Startup`
are the process; ffmpeg's hold on an unlinked file is `OpenSource`/`ChildExits`.
`strays` is a ghost: the files that exist without a guard for a known reason
(a late creation, a failed unlink, a crash). A request is served once;
a repeated request is another one. `SlottedFiles` is the promise: a file under a
slot, gone before the slot returns. What happens during `fetching` is:

### SourceStage (`fetcher.rs`, `chunk_plan.rs`)

One Source Stage. `stage`, `total`, `launched` and `finished` are the
stage's future (`stage_within_budget`, `StageScheduler`); `task`, `attempts`,
`claimed` and `received` are one entry per fetch: chunk 0 is the probe, the last
number is the open-ended GET. `Answer`, `WriteByte`, `BodyEnds`, `Breaks`,
`Hopeless` and `Again` are `drive_chunk_attempts` and `attempt_chunk` with
`attempt_verdict` and `retry_or_fail`; `BuildPlan`, `Join`, `AbortAndFail`,
`Measure`, `FallBack`, `AnswerOpen` and `Received` are the stage's loop;
`Deadline` is the total budget or a dropped caller; `Cancel` is an aborted task
reaching its next await, which it may do only after finishing the poll it is in;
`Discard` is the guard. An attempt opens the file with the options of the code
(`OpenOptions`: never *create*), so one that comes after the guard removed it fails
there (`Opened`) and is retried or given up. A byte of the file is named by the source it came from, and
a source by its total: two sources of equal totals cannot be told apart, by
the model or by the code. The body arrives byte by byte, so that an attempt
may break anywhere. File creation and the slot are StagedSources' subject.

### FeedPolling (`redis_cache.rs`, `feed_serving/mod.rs`, `server/mod.rs`, `headers.rs`, `main.rs`)

One feed, one pass at a time (the slot is FeedServing's), one polling client. A
*pipeline* is the list of commands still to run, with their arguments;
`Execute` runs the first, so that other connections come in between, and
`CutShort` loses the rest. `hash` and `marker` are the two keys with their
seconds to live; `Hgetall` and the answers of `Ask` read them one after the other,
as `load_state` does. `job` is the pass (`Miss`, `TakeSlot`, `Load`, `Probe`,
`Convert`, `Write`, `PassFails`, `WriteFails`), `ask` the request, `NotModified` the
304 decision over what the client `held`. `Start`, `Flush`, `Stamp` and `Stop` are the
process; a pipeline whose sender died is `late` until `Land`, and a new process starts only
after it: Redis runs what it was sent within `MaxDelay` seconds, a restart takes longer (one
that did not could leave a copy of the old version; `NoForeignCopy` rests on this). Time is relative: `Tick`
ages copies and expires keys, and may come at any point but for the pipelines,
which take at most `MaxDelay` seconds.

### YouTubeFeeds (`provider/youtube/*`, `rss_transcodizer`)

One pass at a time over one playlist that YouTube may change between any two calls
(`Publish`, `Withdraw`). `Detail`, `Page`, `Batch` and `Convert` are the metered
conversion, with `Asked`, `LastPage` and `Batches` its page and batch arithmetic and
`Units` its accounting; each call may be refused or break (`CallFails`). A batch that
fails is dropped (`BatchEnds`), as in the code. `Snapshot` is the recorded probe
state, `Probe` compares it with the playlist of that moment. `FetchAtom`, `LookUp` and
`Degrade` are the atom rung with its remembered durations; `Serve` is the injection,
which refuses an episode without a duration. A video is the number of its publication
time; titles, texts and images are left out.

### TranscodeWindow, TranscodeRequests (`request.rs`, `media_sizing.rs`, `server/mod.rs`, `stream_url.rs`)

`TranscodeWindow` is the arithmetic: the advertised length, the window of a Range,
the start in the source and the verdict on a request. A header is what the regular
expression makes of it. In `TranscodeRequests` clients send such requests (`Head`,
`Get`), the resolution looks in the cache, runs yt-dlp and stores what it said
(`LookupHit`, `LookupMiss`, `Resolve`, `CacheSet`, each step apart), the check stage
finds the url alive or dead (`CheckPasses`, `CheckFails`, `Evict`), the construction
deadline may end any of it (`TimesOut`), and the answer delivers its window or breaks.
YouTube's edge may rotate, which kills older urls. A downloader asks for what it
lacks until it has the whole; `held` records how many bytes and how far from their
place.

### FeedIdentity (`provider/macros.rs`, `feed_serving/mod.rs`, `identity.rs`, `api.rs`, `atom.rs`)

A url is what it is told by: provider, form of its path, the name in it, whether the
path goes on, and the parts its normalization works on: the `www.` or `m.` of its host,
the page (scheme, rest of the host, path), the pairs of its query, and a spelling (port,
order of the pairs, fragment, trailing slash). `CanonicalUrl` does what `canonicalize_url`
does: it drops prefix and spelling and joins the decoded pairs. A pair is given by the
fields its decoded text reads as, so an escaped `&` makes one pair of several fields and
`Joined` forgets where pairs end. `Id` and `ReadFromUrl` are the other keys. Each actor
runs a request: `Ask` takes the key off the url or starts the resolution of a handle
(`LookUp`, `YtDlp`, `Save`: the handle cache as `concurrent_cached` implements it), then
`Serve` answers from the copy under the key or `Convert` starts a rung, the Feed Conversion
or the Degraded Feed. Each rung works out the channel again (`Attempt`, `ThroughYtDlp`)
and ends in `Fetch`; a conversion that fails, in the resolution too, may go over to the
Degraded Feed (`FallOver`), and what a rung cannot take is `Unsupported`: with an API key
an atom url is only taken by the degraded one. Handles change hands (`Move`), resolutions and copies expire
(`Forget`, `Expire`). `past` is a ghost: the channels a handle named so far.
`task[a].lapsed` is another: the resolution that gave the task its key was forgotten
since. Whether a copy is Fresh is left open: it may be served or regenerated at any time.

## 4. The runs

Every property has a mutant: a definition replaced by the form a plausible bug
would give it (the `Mutation:` operators beside the definitions), under which
TLC finds that property violated in the same run.

| run | question | result |
|---|---|---|
| `serving_core` | two metered feeds, two requests and a revalidation, a clock that reaches past every lifetime | stale before error, no downgrade, no Fresh copy that vanishes, generations in order; one failing call per feed until the reset, and the breaker holds until then for both feeds; implements `CoalescedFeeds` feed by feed |
| `serving_faulty` | Redis failures and vanishing clients together, with fairness | one pass per feed; every request is answered, every revalidation ends |
| `feed_polling` | Redis command by command, cut pipelines, a client with validators, restarts and new versions | no copy of another version is read or served; served copies keep the promised age; once the upstream rests a client that asks conditionally becomes current |
| `feed_identity` | with an API key: a handle that changes hands, a channel url and two urls that are normalized to one text, failing resolutions and conversions | a copy is served to urls that stand for it or merge with one that does; a handle is resolved once |
| `conversion` | a changing playlist, failing calls, both rungs | within the page budget; units reported; the probe says *unchanged* exactly when the head of the playlist is; one guid per episode; an undisturbed conversion is complete |
| `transcode_requests` | a resuming downloader and another client on a shared URL cache, rotations, faults | a download that ends is whole and in place; a dead cached URL does not fail a client forever |
| `pump` | every interleaving of the threads, ffmpeg and client | complete or visibly broken, in order, reaped, ended |
| `staged` | two requests for one slot and one without, disk errors, timeouts, a crash | an owned file has a slot and a guard; nobody starves; slots return |
| `source_stage` | changing sources, breaking attempts, a deadline anywhere | what is handed over is one whole source; the window never stalls; every request is accounted for; every stage ends |
| `staged_unowned` | does every staged file have an owner? | violated by a creation that outlives its dropped future |
| `lost_batches` | can a conversion succeed with nothing in it? | violated: failed batches of lookups are dropped |
| `degraded_unservable` | can a stored feed always be served? | violated: the atom rung keeps episodes without a duration, the injection refuses them |

What the fault run leaves out, and why. With failing reads, `NeverDowngraded`,
`StalePreferredToFailing` and `NoSecondExhaustion` do not hold and are not
meant to: a lost read counts as a miss and as a closed breaker by design. With
vanishing clients, a degraded write already sent may land after the next pass
wrote, so the properties about the order of writes are stated for clients that
stay.

### Known disagreements

Besides the three runs above that expect a violation, reading the code beside its
documents showed:

* A renewal anchors the rest of the Fresh Period after the probe (`mod.rs:553`,
  `577-578`): a slow probe makes the marker outlive the period by its duration.
  `PromiseKept` allows for it (`MaxDelay`).
* The breaker is read once per pass, by a revalidation before its probe (`mod.rs:547`), by
  a request when it holds the slot (`mod.rs:457`): when another feed's pass opens it
  meanwhile, the conversion that follows is still attempted, where `CONTEXT.md:80-81` says
  that none is while it is open. `NoSecondExhaustion` holds and bounds it: a feed that met the exhausted quota does not ask again before the reset.
* `canonicalize_url` is not one-to-one (`mod.rs:290-323`). It sorts the decoded query pairs
  and joins them unescaped, so an escaped `&` or `=` inside a value may read as another pair
  of another url, and it drops `www.` and `m.` of any host. `?tag=a&user=b` and
  `?tag=a%26user=b` of one site share a key and so a copy, although a test is named
  `test_canonicalize_url_keeps_distinct_feeds_distinct` (`tests.rs:1333`). `ServesItsOwn`
  makes an exception of such urls (`Merged`): without it `feed_identity`, which has that
  pair of urls, fails. It says that a copy reaches a url of another Feed in no other way
  but through a handle that changed hands.
* Clearing the lock map at its limit (`mod.rs:345-352`) lets a second pass run beside
  the first, where `CONTEXT.md:36-37` wants one per feed; the comment accepts it.
  The theorems `SinglePass` and after it assume that the map is not cleared.
* An ended stream's ffmpeg may hold its unlinked file for a moment
  (`transcoder/mod.rs:137`), so storage exceeds the slots of `CONTEXT.md:134-137` by it.
* A Range of one byte is answered 400 and an end beyond the length is accepted
  (`request.rs:190`, `228-232`, beside `41-43`).
* `CONTEXT.md:69-72` and `mod.rs:325-329` want two Source URLs of one Feed to share one
  key. A handle whose resolution fails goes by its url (`identity.rs:46`), an atom url
  and `/channel/ID/videos` have keys of their own: one Feed gets several entries,
  converted and metered separately. `ServesItsOwn` is about what each of them holds.

### Bounds

* FeedServing, `serving_core`: Fresh TTL 1, Fresh Period 2, Stale Window 4, quota
  reset every 2 seconds and a clock up to 4, so every classification of a copy occurs
  and the breaker opens and closes more than once. Two feeds share breaker and lock map;
  two requests and one revalidation are the least that let a request wait behind one
  pass while another starts. Feeds, and requests, are interchangeable (`Alike`); the run
  states no liveness. `serving_faulty` has one feed and a shorter clock: it is about
  slots and faults. `MaxLate` allows one write in flight after its request was abandoned.
  Requests may be repeated without bound.
* FeedPolling: Fresh TTL 1, Fresh Period 2, Stale Window 3: a copy is Fresh, Stale and
  gone. Two bodies and two versions are the least that differ; one fault, so that what
  follows it must heal; round trips of a second put a boundary inside a pipeline.
* FeedIdentity: two channels and one handle, four urls, two actors: one converts
  while the other's key is worked out. Handle and channel may meet under the key of a
  channel, and the two urls of a site differ in nothing but where the pairs of their
  queries end. Atom and playlist urls and other spellings of these are
  left to the theorems, which cover every number and every url, with an API key and without.
* YouTubeFeeds: at most three items in pages of two, from playlists of none, three (the
  limit itself) and four (beyond it), so that the last page is full, partial or
  left out; one short, one untimed video; two changes, so that one conversion
  may see both.
* TranscodeRequests: ten bytes, one of them a tenth of a second, so that the seek
  threshold lies inside; ranges of every form; a URL that expires within the clock; one
  rotation; two faults.
* StdoutPump: 20 declared bytes make a tenth two whole bytes, so exact,
  tolerated and intolerable shortfalls and overruns occur; a channel of two
  fills and drains; one interruption shows the retry.
* StagedSources: two staged requests on one slot are the least with contention;
  a legacy request shares the process but not the gate; one crash and the sweep
  after it. The theorems cover every number of each.
* SourceStage: totals of 1 (a single short chunk), 3 (a short last chunk), 7 (a
  full plan of four) and 9 (one chunk too many); two chunks in flight, so a
  window refills and chunks end out of order; three attempts, so a retry of a
  retry occurs.

### Fairness

* FeedServing: weak fairness of a revalidation's steps (the runtime polls every
  runnable task; that an upstream call answers or fails at all is an assumption
  on the upstream, see the hazards), strong fairness of a request's steps,
  because waiting for the slot is enabled only when it is free: tokio's mutex
  queues its waiters first come first served. The clock is not fair.
* FeedPolling: the process starts, the client asks and its request and the pass go on,
  pipelines are carried out, and seconds pass.
* TranscodeRequests: a request's own steps go on (the runtime polls it, its calls answer
  or the deadline ends it), and a downloader asks again. Faults and rotations are
  bounded, not fair.
* StdoutPump: the threads are scheduled, an ffmpeg that closed its stdout exits,
  and a broken stream is dropped by the server. That ffmpeg writes or ends is
  assumed by the read's fairness; that the client reads is a premise of
  `TransferEnds` only. The watcher's read error is possible but never assumed.
* StagedSources: the process restarts, the semaphore is fair, the blocking pool
  runs what it was given, construction is under a timeout (`GiveUp` while
  building) and streams end. Nothing is assumed of the origin.
* SourceStage: a ranged attempt ends by its own deadline, the loop handles what
  it joins, the open-ended GET, which has no deadline of its own, is ended by
  the stage's, and a failed stage's guard is dropped.

## 5. What is proved

All constants are arbitrary, within the named assumptions of the modules.

**FeedServingProofs.** `TypeCorrect` needs nothing more, nor does `BreakerClosesAtReset`:
whoever opens the breaker writes the next reset, which is the same until it has passed.
`SinglePass` assumes `NeverSwept` (the feeds fit the lock map: a sweep in the middle of a
pass lets another begin), and holds with store faults and disconnects.
The others also assume `Reliable` (a store that answers, clients that stay).
`OneFailingCallPerReset` is about who converts after a failing call: `ExhaustedInv` says
that a feed whose quota is known to be exhausted has either an open breaker or a worker
that holds its slot and is about to open it, so whoever gets the slot next finds the
breaker open, and that it stays open until the second that forgets the exhaustion.

`OnePassPerFeed` is not inductive: nothing in it keeps a second worker from taking a
different lock. The invariant adds `SlotInv` (a worker that waits for or holds a lock has
the one tracked for its feed, and each lock has one holder) and `LadderInv` (a request that
got as far as converting found nothing servable under the slot, and since only the slot's
holder writes, nothing is servable still). `FullCopiesSurvive` and `StaleBeforeError` follow
from it. What becomes of a copy with time needs `AgeInv`: a body lives for a Stale Window
from its generation on at least (`CopyInv`), a body about to be stored is no older than the
one it replaces, and newer if it is degraded (`DraftInv`), and behind a probe or a renewal there is no Degraded Feed (`ProbeInv`). It gives
`NewerReplacesOlder`, `DegradedNeverProlonged` and `StaleBeforeGone`. The last also needs
`WindowsNested`, a Stale Window more than a second longer than the Fresh Period. That is so of
the defaults (7 days and 24 hours, `configs/mod.rs:13-17`), but no code enforces it:
configured the other way round, a copy turns from Fresh into a miss. In
`ImplementsCoalescedFeeds` every step of the ladder maps to a step of `CoalescedFeeds` or to
a stutter.

**StdoutPumpProofs.** `PumpInv` says that the channel continues what the client
has without a gap (`ChainInv`), that the threads continue the channel
(`FrontInv`, `HandInv`), that padding follows only a clean end within tolerance
(`PaddedInv`), that a word on stderr is on its way as an error until the stream
broke (`WatcherInv`), and what a finished thread or stream has left behind
(`EndInv`). `CompleteOrBroken`, `StderrAlwaysFails`, `DeliveryIsGapless` and the
refinement of `DeclaredTransfer` follow.

**StagedSourcesProofs.** `StagingInv` ties the four records of a request
together: who may hold a slot (`SlotInv`), which stages have a guard
(`GuardInv`), which files may be on disk and which creations pending
(`FileInv`), and that a process that is down owns nothing (`DownInv`). The bound
on owned files is then that owned files have guards, guards have slots, and
slots are bounded by the capacity. The refinement of `SlottedFiles` follows.

**FeedIdentityProofs.** Two requests meet only in the copies, so `IdentityInv` says where
each piece of state comes from: a key fits the url it was worked out for, now or when
its handle named another channel (`Fits`, over `past`); a resolution names a channel its
url stands for; a copy was stored for some url that fits its key. `CopiesServeTheirOwn`
then needs one lemma, `SharedKey`: two urls with one key name one Feed, or two channels
that one handle named, or are normalized to one text although their hosts or queries
differ (`Merged`). Nothing is assumed of the normalization but that urls which agree in
all its parts name the same (`IdentityAssumption`). A task that goes over to another rung
stays right because a rung starts from the url again (`AttemptRight`). For `HandlesResolveOnce` the invariant adds that a task whose key is
an id either still finds its resolution or was told that it lapsed.

**FeedPollingProofs.** `NoForeignCopy` is about a process that serves; the invariant
`ForeignInv` covers the processes before it. Whatever is in Redis carries the version of
the version key (`WritersInv`), a pipeline nobody waits for was sent by that version too, a
start has no such pipeline next to it and stamps only over its own version or over an empty
database (`StampInv`), and only a serving process has passes and requests (`ServingInv`).
`PromiseKept` rests on `AnswerInv`: a marker never has more than a Fresh TTL to live, whoever
wrote it and beside whichever body, and neither has one that a pass or an orphaned pipeline
will still write (`MarkerInv`).

**SourceStageProofs.** `StageInv` has one conjunct for each thing that makes a staged file
whole: the window is exactly what the finished chunks allow (`PlanInv`); a chunk beyond the
window has not begun, a finished one is delivered (`TaskInv`); all answers under a plan claim
its total, and a delivered chunk has all it owes (`AnswerInv`); what a chunk received is in
the file behind the chunk's offset, from the source it claims (`BytesInv`). With the
arithmetic of a plan, that its chunks cover the total, `WholeFileHandedOver` and
`LoopNeverStalls` follow. `ChargeInv` is for `RetriesAreRequests`: it says which fetches have
been charged in each stage (none while probing, the finished chunks while staging, the probe
in the fallback) and that a chunk not yet launched made no attempt. The retries are stated as
a set of pairs, a fetch and an attempt after its first, so that no sum has to be computed.

**TranscodeRequestsProofs.** `DownloadInv` follows a download through the pipeline: while a
request is built it asks for what its downloader lacks (`BuildInv`); while it is answered, its
window runs to the end of the stream and what was received fits what is held
(`StreamInv`); and nothing held is ever far from its place (`FileInv`). The lemma
`ResumeWindow` says which window a resuming Range gets.

**YouTubeFeedsProofs.** `PassInv` says what a pass holds and has called at each await:
pages within the budget, then batches. It gives `ConversionWithinBudget` and
`UnitsAreCalls`. `SnapInv` says that a snapshot was taken in the shape the probe asks again,
of the playlist the first page was cut from (`ProbeComparesLikeWithLike`); `GuidInv` says that
every guid given is the one the video's identity makes (`OneGuidForGood`). `UndisturbedConversionComplete` needs
`StillInv`, that the pages of a playlist that held still are its beginning, and lemmas
on the sort (`SortedIs`), on the batches, which between them ask for every video
(`BatchesFound`), and on the shaping, which keeps order and loses nothing that can be shaped
(`ShapedKeepsOrder`, `CompleteShape`). Its assumption `PlaylistsDistinct` says that no
playlist lists a video twice, as an uploads playlist does not. The sort and the shaping are
defined by positions and ranks, not by recursion, so that they can be reasoned about.
Attempting `WithinBudget` showed that an earlier form claimed too much: the atom rung takes
what the atom feed lists even when fewer items are configured.

**Only model-checked.** The liveness properties: `EverybodyFinishes`, `EventuallyCurrent`,
`RetriesHeal`, `AlwaysReaped`, `TransferEnds`, `NobodyStarves`, `SlotsReturn` and
`StageEnds`. Liveness under fairness rests on ENABLED, which is out of the prover's reach.
So are inductions over data and anything recursive; no module here needs them.

## 6. Not modelled

* Two processes over one Redis, as in a rolling update: the slots and the lock map are
  process wide, and nothing else in the code coordinates.
* The day the quota resets: `next_quota_reset` is the next multiple of a period, so the
  days of 23 and 25 hours are not.
* Configuration and its defaults (its numbers are the constants), the whitelists, the
  health check and index page, PeerTube's stream lookup, the usage counter, which
  nothing reads back.
* RSS rewriting, atom parsing, yt-dlp's output, ffmpeg's arguments,
  configuration parsing, logging: data transformation or pure I/O; their
  outcomes (success, failure, exhaustion) are choices of the models above.
* A clock that steps back, and a probe or conversion that never answers: the
  code relies on neither happening (a call that hangs holds its feed's slot).
* A configured chunk size of zero, which underflows before the plan can refuse
  it; it is listed under the hazards.
