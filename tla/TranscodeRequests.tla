--------------------------- MODULE TranscodeRequests ---------------------------
(***************************************************************************)
(* The transcode route (src/server/mod.rs) from a client's request to its  *)
(* answer, with what the requests for one episode share: the stream url    *)
(* that yt-dlp resolved, kept in Redis for a fixed time and evicted when a *)
(* request finds it unreachable (src/transcoder/stream_url.rs,             *)
(* src/provider/youtube/mod.rs).  Clients are external: one downloads the  *)
(* episode, resuming where it was cut off; others ask for any range.       *)
(*                                                                         *)
(* YouTube's edge (external) may rotate: urls of an earlier edge are dead. *)
(* What happens inside the check stage is SourceStage's subject, the slot  *)
(* a staged request waits for is StagedSources', and the stream itself     *)
(* StdoutPump's: here it delivers its window in order or breaks.           *)
(***************************************************************************)
EXTENDS TranscodeWindow, FiniteSets

CONSTANTS
    Clients,
    Downloaders,   \* the clients that download and resume
    Ranges,        \* the headers the others may send
    UrlTTL,        \* how long a resolved url is cached (900 s)
    MaxTime,       \* bound on the clock
    MaxRotations,  \* bound on the rotations of YouTube's edge
    MaxFaults      \* bound on failed Redis or yt-dlp calls and time-outs

ASSUME RequestsAssumption ==
    /\ Downloaders \subseteq Clients
    /\ {UrlTTL, MaxTime, MaxRotations, MaxFaults} \subseteq Nat

VARIABLES
    now,
    edge,      \* the edge whose urls work
    faults,    \* faults so far
    cache,     \* the cached resolution
    pc,        \* what a client's request is at
    range,     \* the Range header of its request
    url,       \* the edge of the url its request resolved to
    status,    \* the last answer's status
    sent,      \* how many bytes of the window were delivered
    held       \* what a downloader has: how many bytes, how far they are shifted

world == <<now, edge, faults>>
vars == <<now, edge, faults, cache, pc, range, url, status, sent, held>>

NoUrl == -1
NotCached == [url |-> NoUrl, expires |-> 0]
NoRange == [form |-> "absent"]

Cached == cache # NotCached /\ now < cache.expires
Alive(u) == u = edge

Init ==
    /\ now = 0 /\ edge = 0 /\ faults = 0
    /\ cache = NotCached
    /\ pc = [c \in Clients |-> "idle"]
    /\ range = [c \in Clients |-> NoRange]
    /\ url = [c \in Clients |-> NoUrl]
    /\ status = [c \in Clients |-> 0]
    /\ sent = [c \in Clients |-> 0]
    /\ held = [c \in Clients |-> [count |-> 0, shift |-> 0, whole |-> FALSE]]

Move(c, to) == pc' = [pc EXCEPT ![c] = to]

\* A fault the environment has left.
Fault == faults < MaxFaults /\ faults' = faults + 1

-----------------------------------------------------------------------------
(* The request and the answers that need no source.                         *)

Verdict(r) ==
    IF Malformed(r) THEN 400 ELSE IF Unsatisfiable(r) THEN 416 ELSE 200

\* transcode_to_mp3, HEAD: the answer derives from the window alone.
Head(c, r) ==
    /\ pc[c] = "idle"
    /\ status' = [status EXCEPT ![c] = Verdict(r)]
    /\ range' = [range EXCEPT ![c] = r]
    /\ UNCHANGED <<world, cache, pc, url, sent, held>>

\* Transcoding disabled, or a url no provider lists.
Forbidden(c) ==
    /\ pc[c] = "idle"
    /\ status' = [status EXCEPT ![c] = 403]
    /\ UNCHANGED <<world, cache, pc, range, url, sent, held>>

\* GET: a request that can be built goes to its resolution.
Get(c, r) ==
    /\ pc[c] = "idle"
    /\ range' = [range EXCEPT ![c] = r]
    /\ IF Verdict(r) = 200
       THEN Move(c, "lookup") /\ status' = [status EXCEPT ![c] = 0]
       ELSE status' = [status EXCEPT ![c] = Verdict(r)] /\ UNCHANGED pc
    /\ UNCHANGED <<world, cache, url, sent, held>>

\* The client (external): from the start, or from the byte it lacks.
ResumeRange(c) ==
    IF held[c].count = 0 THEN NoRange ELSE [form |-> "from", first |-> held[c].count]

Ask(c) ==
    IF c \in Downloaders
    THEN ~held[c].whole /\ Get(c, ResumeRange(c))
    ELSE \E r \in Ranges : Get(c, r)

-----------------------------------------------------------------------------
(* Resolution: get_stream_url behind its cache, the check stage, eviction.  *)

\* Whatever fails the resolution is answered 503.
Unavailable(c) ==
    /\ Move(c, "idle")
    /\ status' = [status EXCEPT ![c] = 503]
    /\ url' = [url EXCEPT ![c] = NoUrl]
    /\ range' = [range EXCEPT ![c] = NoRange]
    /\ UNCHANGED <<now, edge, sent, held>>

LookupHit(c) ==
    /\ pc[c] = "lookup" /\ Cached
    /\ url' = [url EXCEPT ![c] = cache.url]
    /\ Move(c, "checking")
    /\ UNCHANGED <<world, cache, range, status, sent, held>>

LookupMiss(c) ==
    /\ pc[c] = "lookup" /\ ~Cached
    /\ Move(c, "resolving")
    /\ UNCHANGED <<world, cache, range, url, status, sent, held>>

\* A cache that cannot be read or written fails the resolution (ADR 0003), and
\* so does yt-dlp; what it could not resolve is not cached.
LookupFails(c) ==
    /\ pc[c] \in {"lookup", "resolving", "caching"}
    /\ Fault
    /\ Unavailable(c)
    /\ UNCHANGED cache

\* yt-dlp answers with a url of today's edge.
Resolve(c) ==
    /\ pc[c] = "resolving"
    /\ url' = [url EXCEPT ![c] = edge]
    /\ Move(c, "caching")
    /\ UNCHANGED <<world, cache, range, status, sent, held>>

\* concurrent_cached stores what the function returned, whoever else resolved or
\* evicted meanwhile.
CacheSet(c) ==
    /\ pc[c] = "caching"
    /\ cache' = [url |-> url[c], expires |-> now + UrlTTL]
    /\ Move(c, "checking")
    /\ UNCHANGED <<world, range, url, status, sent, held>>

\* The check stage passed: ffmpeg is started and the answer begins.
CheckPasses(c) ==
    /\ pc[c] = "checking"
    /\ Alive(url[c])
    /\ Move(c, "streaming")
    /\ status' = [status EXCEPT ![c] = IF Window(range[c]).partial THEN 206 ELSE 200]
    /\ sent' = [sent EXCEPT ![c] = 0]
    /\ held' = [held EXCEPT ![c] = IF Window(range[c]).partial THEN @
                                    ELSE [count |-> 0, shift |-> 0, whole |-> FALSE]]
    /\ UNCHANGED <<world, cache, range, url>>

\* The url is dead (or the stage failed on it): evict, then fail.
CheckFails(c) ==
    /\ pc[c] = "checking"
    /\ \/ ~Alive(url[c]) /\ UNCHANGED faults
       \/ Alive(url[c]) /\ Fault
    /\ Move(c, "evicting")
    /\ UNCHANGED <<now, edge, cache, range, url, status, sent, held>>

\* Mutation: the failed request leaves the entry.
Evict_Never(c) ==
    /\ pc[c] = "evicting"
    /\ UNCHANGED <<cache, faults>>
    /\ Unavailable(c)

\* Best effort: the entry goes, whichever url it holds by now; a failing Redis
\* keeps it.
Evict(c) ==
    /\ pc[c] = "evicting"
    /\ \/ cache' = NotCached /\ UNCHANGED faults
       \/ Fault /\ UNCHANGED cache
    /\ Unavailable(c)

\* The construction deadline: the future is dropped where it is, the eviction
\* with it.
TimesOut(c) ==
    /\ pc[c] \in {"lookup", "resolving", "caching", "checking", "evicting"}
    /\ Fault
    /\ Unavailable(c)
    /\ UNCHANGED cache

-----------------------------------------------------------------------------
(* The body.                                                                *)

\* A downloader puts the bytes of a partial answer behind those it has, and
\* takes any other answer for the whole file.  The others' bytes are left out.
Receive(c) ==
    /\ pc[c] = "streaming"
    /\ c \in Downloaders
    /\ LET w == Window(range[c])
           shift == w.first + sent[c] - held[c].count
       IN  /\ sent[c] < w.expected
           /\ sent' = [sent EXCEPT ![c] = @ + 1]
           /\ held' = [held EXCEPT ![c].count = @ + 1,
                                   ![c].shift = IF shift > @ THEN shift ELSE @]
    /\ UNCHANGED <<world, cache, pc, range, url, status>>

AnswerEnds(c) ==
    /\ pc[c] = "streaming"
    /\ Move(c, "idle")
    /\ sent' = [sent EXCEPT ![c] = 0]
    /\ url' = [url EXCEPT ![c] = NoUrl]
    /\ range' = [range EXCEPT ![c] = NoRange]
    /\ status' = [status EXCEPT ![c] = 0]
    /\ UNCHANGED <<now, edge, cache>>

\* The answer's declared length is delivered, and a downloader takes the file
\* for complete.
Finish(c) ==
    /\ AnswerEnds(c)
    /\ c \in Downloaders => sent[c] = Window(range[c]).expected
    /\ held' = IF c \in Downloaders THEN [held EXCEPT ![c].whole = TRUE] ELSE held
    /\ UNCHANGED faults

\* The connection is cut, or the transcode broke off visibly, before the declared
\* length was there.
Break(c) ==
    /\ AnswerEnds(c)
    /\ c \in Downloaders => sent[c] < Window(range[c]).expected
    /\ Fault
    /\ UNCHANGED held

-----------------------------------------------------------------------------
Tick ==
    /\ now < MaxTime
    /\ now' = now + 1
    /\ cache' = IF cache # NotCached /\ now' >= cache.expires THEN NotCached ELSE cache
    /\ UNCHANGED <<edge, faults, pc, range, url, status, sent, held>>

Rotate ==
    /\ edge < MaxRotations
    /\ edge' = edge + 1
    /\ UNCHANGED <<now, faults, cache, pc, range, url, status, sent, held>>

Pipeline(c) ==
    \/ LookupHit(c) \/ LookupMiss(c) \/ Resolve(c) \/ CacheSet(c)
    \/ CheckPasses(c) \/ CheckFails(c) \/ Evict(c) \/ Receive(c) \/ Finish(c)

Next ==
    \/ Tick \/ Rotate
    \/ \E c \in Clients :
         \/ c \notin Downloaders /\ ((\E r \in Ranges : Head(c, r)) \/ Forbidden(c))
         \/ Ask(c) \/ LookupFails(c) \/ TimesOut(c) \/ Break(c)
         \/ Pipeline(c)

Spec == Init /\ [][Next]_vars

\* Requests are polled, Redis and yt-dlp answer once their faults are spent, and
\* a downloader tries again.
FairSpec ==
    Spec /\ \A c \in Clients : WF_vars(Pipeline(c)) /\ (c \in Downloaders => WF_vars(Ask(c)))

-----------------------------------------------------------------------------
(* Properties.                                                              *)

\* However often a download is cut off and resumed, what it ends with has at
\* least the advertised length less a tenth of a second, and every byte of it
\* lies at most a tenth of a second from its place: the windows of resumed
\* requests tile the stream (decide_transcode_window).
DownloadWhole ==
    \A c \in Downloaders :
      /\ Noise(held[c].shift)
      /\ held[c].whole => held[c].count <= Total /\ Noise(Total - held[c].count)

\* Once the edge and the faults settle, a dead cached url does not keep a client
\* from its episode: a request that finds it dead evicts it, and some retry
\* streams; no waiting for the time to live is needed (the clock is not fair).
\* A downloader one byte short cannot be helped: the one-byte range it needs is
\* refused as malformed.
RetriesHeal ==
    \A c \in Downloaders :
      pc[c] = "idle" ~> (pc[c] = "streaming" \/ held[c].whole \/ held[c].count = Total - 1)
===============================================================================
