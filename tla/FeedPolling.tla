------------------------------ MODULE FeedPolling ------------------------------
(***************************************************************************)
(* One feed between Redis, the server and a polling podcatcher: the Redis   *)
(* adapter command by command (src/feed_serving/redis_cache.rs), the        *)
(* freshness verdict and the pass that refreshes a copy                     *)
(* (src/feed_serving/mod.rs), the conditional answers (src/server/mod.rs,   *)
(* headers.rs), and the start of the process, which flushes the database on *)
(* a new version (src/main.rs).                                             *)
(*                                                                         *)
(* FeedServing takes a pipeline for one atomic step.  Here it is what Redis *)
(* executes: one command after another, other connections' commands in      *)
(* between, and cut off after any of them when its connection goes.         *)
(*                                                                         *)
(* Time is relative: copies have ages, keys have seconds to live, and a     *)
(* second may always pass.                                                  *)
(***************************************************************************)
EXTENDS Integers, Sequences

CONSTANTS
    Contents,     \* what the upstream may show
    Versions,     \* the program's versions that may be started
    Kinds,        \* "etag": the client sends back both validators, "date": the date only
    FreshTTL,     \* policy.fresh_ttl_secs, the jitter included
    MaxFresh,     \* policy.max_fresh_period_secs
    StaleWindow,  \* policy.stale_window_secs
    StaleServe,   \* policy.stale_serve_max_age_secs
    MaxDelay,     \* bound on the seconds a round trip to Redis takes
    MaxFaults     \* bound on cut connections, failed reads and failed conversions

ASSUME PollingAssumption ==
    /\ {FreshTTL, MaxFresh, StaleWindow} \subseteq Nat \ {0}
    /\ {StaleServe, MaxDelay, MaxFaults} \subseteq Nat
    /\ Kinds \subseteq {"etag", "date"}
    /\ "none" \notin Contents \cup Versions

VARIABLES
    content,   \* what the upstream shows
    hash,      \* the feed hash: its body, the version that made it, age, seconds to live
    marker,    \* the fresh marker's seconds to live; 0: no key
    stamped,   \* the "version" key
    proc,      \* the process: "down", starting or "up"
    running,   \* its version
    job,       \* the pass that holds the regeneration slot
    late,      \* a pipeline nobody waits for, still at Redis
    ask,       \* the client's request
    delay,     \* the seconds since its cache check read the clock
    kind,      \* the validators the client sends
    held,      \* what the client holds
    faults     \* faults so far

store == <<hash, marker, stamped>>
vars == <<content, hash, marker, stamped, proc, running, job, late, ask,
          delay, kind, held, faults>>

Larger(m, n) == IF m < n THEN n ELSE m
Smaller(m, n) == IF m < n THEN m ELSE n

\* The oldest a copy may be when a client that heeds max-age stops using it.
Promise == Larger(MaxFresh + FreshTTL, StaleWindow + StaleServe)

\* Copies beyond this age are unusable, however slow the check.
MaxAge == Larger(MaxFresh, StaleWindow) + MaxDelay + 1

NoBody == "none"
Forever == -1
Hash(body, by, age, ttl) == [body |-> body, by |-> by, age |-> age, ttl |-> ttl]
NoHash == Hash(NoBody, "none", 0, 0)
Nothing == [body |-> NoBody, age |-> 0]
Pipe(ops, body, age, grant) == [ops |-> ops, body |-> body, age |-> age, grant |-> grant]
NoPipe == Pipe(<<>>, NoBody, 0, 0)
Job(at, background, copy, pipe) ==
    [at |-> at, background |-> background, copy |-> copy, pipe |-> pipe]
NoJob == Job("none", FALSE, Nothing, NoPipe)
NoAsk == [at |-> "idle", seen |-> Nothing]

Init ==
    /\ content \in Contents
    /\ hash = NoHash /\ marker = 0 /\ stamped = "none"
    /\ proc = "down" /\ running = "none"
    /\ job = NoJob /\ late = NoPipe
    /\ ask = NoAsk /\ delay = 0
    /\ kind \in Kinds
    /\ held = [body |-> NoBody, stamp |-> 0]
    /\ faults = 0

Fault == faults < MaxFaults /\ faults' = faults + 1

-----------------------------------------------------------------------------
(* Redis.                                                                   *)

\* store_and_report and renew_freshness.
StorePipe(body) == Pipe(<<"HSET", "EXPIRE", "SET">>, body, 0, FreshTTL)
RenewPipe(grant) == Pipe(<<"SET", "EXPIRE">>, NoBody, 0, grant)

\* The next command of a pipeline.  HSET leaves the key's time to live alone.
Execute(pipe) ==
    /\ pipe.ops # <<>>
    /\ UNCHANGED stamped
    /\ \/ /\ Head(pipe.ops) = "HSET"
          /\ hash' = Hash(pipe.body, running, pipe.age,
                          IF hash = NoHash THEN Forever ELSE hash.ttl)
          /\ UNCHANGED marker
       \/ /\ Head(pipe.ops) = "EXPIRE"
          /\ hash' = IF hash = NoHash THEN NoHash
                     ELSE Hash(hash.body, hash.by, hash.age, StaleWindow)
          /\ UNCHANGED marker
       \/ /\ Head(pipe.ops) = "SET"
          /\ marker' = pipe.grant /\ UNCHANGED hash

Rest(pipe) ==
    IF Len(pipe.ops) = 1 THEN NoPipe
    ELSE Pipe(Tail(pipe.ops), pipe.body, pipe.age, pipe.grant)

\* The pipeline of a dropped future or a dead process: what is left of it was
\* sent, or not.  CutShort loses the rest of what was.
Orphaned(pipe) == late' \in {late, IF late = NoPipe THEN pipe ELSE late}

Land ==
    /\ late # NoPipe
    /\ Execute(late) /\ late' = Rest(late)
    /\ UNCHANGED <<content, proc, running, job, ask, delay, kind, held, faults>>

CutShort ==
    /\ late # NoPipe
    /\ late' = NoPipe
    /\ UNCHANGED <<content, store, proc, running, job, ask, delay, kind, held, faults>>

-----------------------------------------------------------------------------
(* The process starts: flush_redis_on_new_version before the server binds.  *)

\* Mutation: the version is exchanged where it is read.
Start_Exchange(version) ==
    /\ proc = "down" /\ late = NoPipe
    /\ running' = version
    /\ proc' = IF stamped \in {"none", version} THEN "stamping" ELSE "flushing"
    /\ stamped' = version
    /\ UNCHANGED <<content, hash, marker, job, late, ask, delay, kind, held, faults>>

\* Some version starts, after whatever its predecessor sent is done with, and
\* reads the "version" key.
Start(version) ==
    /\ proc = "down" /\ late = NoPipe
    /\ running' = version
    /\ proc' = IF stamped \in {"none", version} THEN "stamping" ELSE "flushing"
    /\ UNCHANGED <<content, store, job, late, ask, delay, kind, held, faults>>

Flush ==
    /\ proc = "flushing"
    /\ proc' = "stamping"
    /\ hash' = NoHash /\ marker' = 0 /\ stamped' = "none"
    /\ UNCHANGED <<content, running, job, late, ask, delay, kind, held, faults>>

Stamp ==
    /\ proc = "stamping"
    /\ proc' = "up"
    /\ stamped' = running
    /\ UNCHANGED <<content, hash, marker, running, job, late, ask, delay, kind, held, faults>>

\* A crash, a restart, a new deployment, or a Redis that fails the start.
Stop ==
    /\ proc # "down"
    /\ proc' = "down"
    /\ Orphaned(job.pipe)
    /\ job' = NoJob /\ ask' = NoAsk /\ delay' = 0
    /\ UNCHANGED <<content, store, running, kind, held, faults>>

-----------------------------------------------------------------------------
(* The answer: conditional_response.                                        *)

\* Mutation: the dates compared the wrong way round.
NotModified_Reversed(body, age) ==
    /\ held.body # NoBody
    /\ IF kind = "etag" THEN held.body = body ELSE held.stamp >= age

\* If-None-Match first, the date only without it.  The date is the second in
\* which the client's copy was generated.
NotModified(body, age) ==
    /\ held.body # NoBody
    /\ IF kind = "etag" THEN held.body = body ELSE held.stamp <= age

\* The client keeps a body and its date over a 304.
Answer(body, age) ==
    /\ held' = IF NotModified(body, age) THEN held
               ELSE [body |-> body, stamp |-> IF kind = "date" THEN age ELSE 0]
    /\ ask' = NoAsk /\ delay' = 0

-----------------------------------------------------------------------------
(* serve: the cache check, the slot, the second check.                      *)

\* Mutation: what Redis still has is good enough.
Freshness_TrustsRedis(seen, age) ==
    IF seen = Nothing THEN "none" ELSE IF marker > 0 THEN "fresh" ELSE "stale"

\* classify_freshness.
Freshness(seen, age) ==
    IF seen = Nothing THEN "none"
    ELSE IF marker > 0 /\ age <= MaxFresh THEN "fresh"
    ELSE IF age < StaleWindow THEN "stale" ELSE "none"

\* The clock is read, and Redis executes HGETALL.
Hgetall == ask' = [at |-> "ttl", seen |-> [body |-> hash.body, age |-> hash.age]]

Ask ==
    /\ proc = "up" /\ ask.at = "idle"
    /\ Hgetall
    /\ UNCHANGED <<content, store, proc, running, job, late, delay, kind, held, faults>>

Judged == ask.seen.age - delay

\* A pass that was to convert after its second check ends with it.
Released == IF job.at = "checking" THEN NoJob ELSE job

Serve ==
    /\ ask.at = "ttl"
    /\ Answer(ask.seen.body, ask.seen.age)
    /\ UNCHANGED <<content, store, proc, running, late, kind, faults>>

\* max-age: what the marker has left.
ServeFresh ==
    /\ Freshness(ask.seen, Judged) = "fresh"
    /\ Serve
    /\ job' = Released

\* max-age: StaleServe.  The revalidation is spawned; a busy slot ends it.
ServeStale ==
    /\ Freshness(ask.seen, Judged) = "stale"
    /\ Serve
    /\ job' = IF Released = NoJob
              THEN Job("loading", TRUE, Nothing, NoPipe) ELSE job

\* No usable copy, or Redis failed: wait for the slot, or, holding it, convert.
Miss ==
    /\ ask.at = "ttl"
    /\ \/ Freshness(ask.seen, Judged) = "none" /\ UNCHANGED faults
       \/ Fault
    /\ IF job.at = "checking"
       THEN /\ ask' = [NoAsk EXCEPT !.at = "served by pass"]
            /\ job' = Job("converting", FALSE, Nothing, NoPipe)
       ELSE ask' = [NoAsk EXCEPT !.at = "queued"] /\ UNCHANGED job
    /\ delay' = 0
    /\ UNCHANGED <<content, store, proc, running, late, kind, held>>

TakeSlot ==
    /\ ask.at = "queued" /\ job = NoJob
    /\ job' = Job("checking", FALSE, Nothing, NoPipe)
    /\ Hgetall
    /\ UNCHANGED <<content, store, proc, running, late, delay, kind, held, faults>>

\* The client goes away; its future is dropped, and with it the pass it ran.
Leave ==
    /\ ask.at # "idle"
    /\ Fault
    /\ ask' = NoAsk /\ delay' = 0
    /\ IF job.background THEN UNCHANGED <<job, late>> ELSE Orphaned(job.pipe) /\ job' = NoJob
    /\ UNCHANGED <<content, store, proc, running, kind, held>>

-----------------------------------------------------------------------------
(* The pass: revalidate and convert_and_store.                              *)

\* Past the Fresh Period there is nothing to probe.
Load ==
    /\ job.at = "loading"
    /\ job' = IF hash = NoHash THEN NoJob
              ELSE IF hash.age < MaxFresh
                   THEN Job("probing", TRUE, [body |-> hash.body, age |-> hash.age], NoPipe)
                   ELSE Job("converting", TRUE, Nothing, NoPipe)
    /\ UNCHANGED <<content, store, proc, running, late, ask, delay, kind, held, faults>>

\* The probe compares the loaded copy's state with the upstream.
Probe ==
    /\ job.at = "probing"
    /\ job' = IF job.copy.body = content
              THEN Job("writing", TRUE, Nothing,
                       RenewPipe(Smaller(MaxFresh - job.copy.age, FreshTTL)))
              ELSE Job("converting", TRUE, Nothing, NoPipe)
    /\ UNCHANGED <<content, store, proc, running, late, ask, delay, kind, held, faults>>

Convert ==
    /\ job.at = "converting"
    /\ job' = Job("writing", job.background, Nothing, StorePipe(content))
    /\ UNCHANGED <<content, store, proc, running, late, ask, delay, kind, held, faults>>

\* A failed probe converts; a failed load or conversion ends the pass, and a
\* request is answered without a feed.
PassFails ==
    /\ Fault
    /\ \/ /\ job.at = "probing"
          /\ job' = Job("converting", TRUE, Nothing, NoPipe)
          /\ UNCHANGED ask
       \/ /\ job.at \in {"loading", "converting"}
          /\ job' = NoJob
          /\ ask' = IF job.background THEN ask ELSE NoAsk
    /\ UNCHANGED <<content, store, proc, running, late, delay, kind, held>>

\* The pass ends; the request that ran it is answered with what it generated,
\* stored or not.
EndPass ==
    /\ job' = NoJob
    /\ IF job.background THEN UNCHANGED <<held, ask, delay>>
       ELSE Answer(job.pipe.body, job.pipe.age)

Write ==
    /\ job.at = "writing"
    /\ Execute(job.pipe)
    /\ IF Rest(job.pipe) = NoPipe THEN EndPass
       ELSE /\ job' = Job(job.at, job.background, job.copy, Rest(job.pipe))
            /\ UNCHANGED <<held, ask, delay>>
    /\ UNCHANGED <<content, proc, running, late, kind, faults>>

\* The connection breaks: what was sent may still be executed.
WriteFails ==
    /\ job.at = "writing"
    /\ Fault
    /\ Orphaned(job.pipe)
    /\ EndPass
    /\ UNCHANGED <<content, store, proc, running, kind>>

-----------------------------------------------------------------------------
(* Time and the upstream.                                                   *)

Older(age) == Smaller(age + 1, MaxAge)
Aged(pipe) ==
    IF pipe.body = NoBody THEN pipe
    ELSE Pipe(pipe.ops, pipe.body, pipe.age + 1, pipe.grant)

\* A second passes, no round trip takes longer than MaxDelay.
Tick ==
    /\ ask.at = "ttl" => delay < MaxDelay
    /\ job.pipe.age < MaxDelay /\ late.age < MaxDelay
    /\ delay' = IF ask.at = "ttl" THEN delay + 1 ELSE 0
    /\ hash' = IF hash = NoHash \/ hash.ttl = 1 THEN NoHash
               ELSE Hash(hash.body, hash.by, Older(hash.age),
                         IF hash.ttl = Forever THEN Forever ELSE hash.ttl - 1)
    /\ marker' = Larger(marker - 1, 0)
    /\ late' = Aged(late)
    /\ job' = Job(job.at, job.background, job.copy, Aged(job.pipe))
    /\ ask' = [ask EXCEPT !.seen =
                 IF ask.seen = Nothing THEN Nothing
                 ELSE [body |-> ask.seen.body, age |-> Older(ask.seen.age)]]
    /\ held' = IF held.body = NoBody \/ kind = "etag" THEN held
               ELSE [held EXCEPT !.stamp = Older(@)]
    /\ UNCHANGED <<content, stamped, proc, running, kind, faults>>

Publish ==
    /\ content' \in Contents \ {content}
    /\ UNCHANGED <<store, proc, running, job, late, ask, delay, kind, held, faults>>

-----------------------------------------------------------------------------
StartStep == (\E version \in Versions : Start(version)) \/ Flush \/ Stamp
ClientStep == Ask \/ ServeFresh \/ ServeStale \/ Miss \/ TakeSlot
PassStep == Load \/ Probe \/ Convert \/ Write

Next ==
    \/ StartStep \/ ClientStep \/ PassStep
    \/ Land \/ CutShort \/ Stop \/ Leave \/ PassFails \/ WriteFails
    \/ Tick \/ Publish

Spec == Init /\ [][Next]_vars

\* Time passes, a stopped process is started again, the client polls again, and
\* Redis and the upstream answer.
FairSpec ==
    /\ Spec
    /\ WF_vars(Tick) /\ WF_vars(StartStep) /\ WF_vars(ClientStep)
    /\ WF_vars(PassStep) /\ WF_vars(Land \/ CutShort)

-----------------------------------------------------------------------------
(* Properties.                                                              *)

\* Once a process serves, the cache holds no copy that another version
\* generated, wherever earlier starts were interrupted and whichever versions
\* came before (flush_redis_on_new_version).
NoForeignCopy ==
    proc = "up" /\ hash # NoHash => hash.by = running

\* A client that heeds max-age never uses a copy beyond the Fresh Period plus
\* one Fresh TTL, or beyond the Stale Window plus the stale max-age, counted on
\* the clock its request was judged by: also when the marker it was judged by
\* belongs to another store than the body, or Redis never got the expiry.
PromiseKept ==
    [][/\ ServeFresh => Judged + marker <= Promise
       /\ ServeStale => Judged + StaleServe <= Promise]_vars

\* When the upstream settles and the process stays up, the client ends up with
\* what the upstream shows, whatever copies, markers and validators are left over.
EventuallyCurrent ==
    <>[](proc = "up") /\ <>[][content' = content]_vars => <>[](held.body = content)
===============================================================================
