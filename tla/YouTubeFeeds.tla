----------------------------- MODULE YouTubeFeeds -----------------------------
(***************************************************************************)
(* How a YouTube feed comes about (src/provider/youtube): the metered      *)
(* conversion (a detail call, pages of playlist items, batches of video    *)
(* lookups that run at the same time), the Freshness Probe that later      *)
(* asks whether the result still matches the playlist, the quota-free atom *)
(* rung with its remembered duration lookups, and the injection that turns *)
(* a stored feed into an answer (src/rss_transcodizer).  The playlist is   *)
(* YouTube's (external): it may change between any two calls, and every    *)
(* call may be refused for lack of quota or break.                         *)
(*                                                                         *)
(* A video is the number of its publication time.  Its title, description, *)
(* artwork and author are left out: no property is about them.             *)
(***************************************************************************)
EXTENDS Integers, Sequences, FiniteSets, SequencesExt

CONSTANTS
    Videos,        \* the videos there may be, numbered in order of publication
    Sources,       \* the playlists to begin with, first position first
    Shorts,        \* those of 180 seconds or less
    Untimed,       \* those YouTube reports no duration for (premieres, private)
    MaxItems,      \* YOUTUBE_MAX_RESULTS
    PerCall,       \* what one page, and one batch of lookups, can hold (50)
    AtomCap,       \* how many entries YouTube's atom feed lists (external)
    FilterShorts,  \* YOUTUBE_FILTER_SHORTS
    MaxChanges     \* bound on the changes of the playlist

ASSUME ConversionAssumption ==
    /\ Videos \subseteq Nat
    /\ Sources \subseteq Seq(Videos)
    /\ Shorts \subseteq Videos /\ Untimed \subseteq Videos
    /\ MaxItems \in Nat \ {0} /\ PerCall \in Nat \ {0} /\ AtomCap \in Nat
    /\ FilterShorts \in BOOLEAN
    /\ MaxChanges \in Nat

VARIABLES
    source,      \* the playlist as YouTube has it now
    changes,     \* how often it changed
    pc,          \* what the pass in progress awaits
    items,       \* the playlist items fetched so far
    page,        \* request_count: the pages fetched after the first
    token,       \* next_page_token: the position the next page starts behind
    snap,        \* the first page's snapshot
    lookups,     \* one entry per batch of video lookups (API) or video (atom)
    feed,        \* the feed the last successful pass left behind
    outcome,     \* how the last metered conversion ended
    verdict,     \* what the last probe answered
    answer,      \* what the last request for the stored feed was answered
    \* ghosts, which no action reads
    calls,       \* the API calls this pass made
    moved,       \* the playlist changed during this pass
    seen,        \* the playlist the first page was cut from
    guids        \* per video, the guids it was ever stored under

upstream == <<source, changes>>
fetch == <<items, page, token, snap, lookups>>
ghosts == <<calls, moved, seen, guids>>
vars == <<source, changes, pc, items, page, token, snap, lookups, feed,
          outcome, verdict, answer, ghosts>>

NoFeed == [kind |-> "none", episodes |-> <<>>, snap |-> <<>>, units |-> 0, origin |-> <<>>]
NotSnapped == [total |-> -1, ids |-> <<>>, newest |-> 0, size |-> 0]

Least(a, b) == IF a <= b THEN a ELSE b
Mentioned(s) == {s[i] : i \in DOMAIN s}
Prefix(s, n) == SubSeq(s, 1, Least(n, Len(s)))
Cut(s, from, n) == SubSeq(s, from + 1, Least(from + n, Len(s)))
Newest(s) == IF s = <<>> THEN 0 ELSE CHOOSE v \in Mentioned(s) : \A w \in Mentioned(s) : w <= v

-----------------------------------------------------------------------------
(* Pagination, snapshot, batches and shaping.                               *)

FirstPageSize == Least(MaxItems, PerCall)
MaxConsecutive == MaxItems \div PerCall + 1

\* Mutation: later pages ask for a full page whatever is left of the budget.
Asked_FullPages == IF page = 0 THEN FirstPageSize ELSE PerCall

\* What the next page asks for.
Asked == IF page = 0 THEN FirstPageSize ELSE Least(MaxItems - Len(items), PerCall)

\* Mutation: a fingerprint of the number of videos without their ids.
Snapshot_TotalOnly(s, size) ==
    [total |-> Len(s), ids |-> <<>>, newest |-> Newest(Prefix(s, size)), size |-> size]

\* first_page_snapshot, with the shape the page was asked in.
Snapshot(s, size) ==
    [total |-> Len(s), ids |-> Prefix(s, size), newest |-> Newest(Prefix(s, size)), size |-> size]

Batches(s) == 1..((Len(s) + PerCall - 1) \div PerCall)
BatchOf(i) == (i - 1) \div PerCall + 1

\* sort_by_key: the orders of a sequence's positions that bring the oldest to the front.
OldestFirst(s) ==
    {p \in Bijection(DOMAIN s, DOMAIN s) : \A i, j \in DOMAIN s : i < j => s[p[i]] <= s[p[j]]}

\* The watch url, the metered rung's guid of a video.
ApiGuid(v) == [scheme |-> "watch", id |-> v]
EntryId(v) == [scheme |-> "yt:video", id |-> v]

\* Mutation: an entry id of the atom feed used as the guid.
AtomGuid_EntryId(entry) == entry

\* The atom rung's: the entry id re-keyed onto the watch url.
AtomGuid(entry) == IF entry.scheme = "yt:video" THEN ApiGuid(entry.id) ELSE entry

LengthOf(v) == IF v \in Shorts THEN "short" ELSE "long"

\* shorts_filter_admits: "zero" is the duration a lookup that printed nothing
\* usable gets on the atom rung.
Admits(length, rung) ==
    IF length = "unknown" THEN rung = "atom"
    ELSE ~(FilterShorts /\ length \in {"short", "zero"})

Episode(v, guid, length) == [video |-> v, guid |-> guid, length |-> length]

\* shape_episode over a feed: those admitted, in the order they come in.
Shaped(s, rung) ==
    LET kept == {i \in DOMAIN s : Admits(s[i].length, rung)}
        rank(i) == Cardinality({j \in kept : j <= i})
    IN  [n \in 1..Cardinality(kept) |-> s[CHOOSE i \in kept : rank(i) = n]]

\* The videos some answered batch gave a duration for; a batch that did not
\* answer contributes none.
Timed == {items[i] : i \in {j \in DOMAIN items : lookups[BatchOf(j)] = "answered"}} \ Untimed

\* build_channel_items_from_playlist: the durations are found by video id.
ApiEpisodes ==
    Shaped([i \in DOMAIN items |->
              Episode(items[i], ApiGuid(items[i]),
                      IF items[i] \in Timed THEN LengthOf(items[i]) ELSE "unknown")], "api")

AtomEpisodes ==
    Shaped([i \in DOMAIN items |->
              Episode(items[i], AtomGuid(EntryId(items[i])), lookups[items[i]])], "atom")

\* Mutation: request_count taken for the number of pages.
Units_PagesOff == 1 + page + Cardinality(Batches(items))

\* api_requests: the detail call, the pages, the batches.
Units == 1 + (page + 1) + Cardinality(Batches(items))

-----------------------------------------------------------------------------
Init ==
    /\ source \in Sources
    /\ changes = 0
    /\ pc = "idle"
    /\ items = <<>> /\ page = 0 /\ token = 0 /\ snap = NotSnapped /\ lookups = <<>>
    /\ feed = NoFeed
    /\ outcome = "none"
    /\ verdict = "none" /\ answer = "none"
    /\ calls = 0 /\ moved = FALSE /\ seen = <<>>
    /\ guids = [v \in Videos |-> {}]

(* YouTube (external): a video is published, or one goes.                    *)
Changed(s) ==
    /\ changes < MaxChanges
    /\ changes' = changes + 1
    /\ source' = s
    /\ moved' = (pc # "idle")
    /\ UNCHANGED <<pc, fetch, feed, outcome, verdict, answer,
                   calls, seen, guids>>

Publish(v) ==
    /\ v \notin Mentioned(source)
    /\ Changed(<<v>> \o source) \/ Changed(source \o <<v>>)
Withdraw(v) == \E i \in DOMAIN source : source[i] = v /\ Changed(RemoveAt(source, i))

-----------------------------------------------------------------------------
(* The metered conversion.                                                  *)

\* generate_rss_feed with an API key: the id, for a handle by way of yt-dlp,
\* whose failure is nobody's quota.
StartConversion ==
    /\ pc = "idle"
    /\ pc' = "detail"
    /\ items' = <<>> /\ page' = 0 /\ token' = 0 /\ snap' = NotSnapped /\ lookups' = <<>>
    /\ calls' = 0 /\ moved' = FALSE /\ seen' = <<>>
    /\ UNCHANGED <<upstream, feed, outcome, verdict, answer, guids>>

Unresolved ==
    /\ pc = "idle"
    /\ outcome' = "other"
    /\ UNCHANGED <<upstream, pc, fetch, feed, verdict, answer, ghosts>>

\* youtube_quota_typed over whatever fetch_from_api failed with.
Typed(why) == IF why = "refused" THEN "quota" ELSE "other"

\* What a pass carried goes with it.
PassEnds ==
    /\ pc' = "idle"
    /\ items' = <<>> /\ page' = 0 /\ token' = 0 /\ snap' = NotSnapped /\ lookups' = <<>>
    /\ calls' = 0 /\ moved' = FALSE /\ seen' = <<>>

Fails(why) ==
    /\ PassEnds
    /\ outcome' = Typed(why)
    /\ UNCHANGED <<upstream, feed, verdict, answer, guids>>

\* A call that is not answered: refused for lack of quota, or broken.
CallFails ==
    \E why \in {"refused", "broken"} : Fails(why)

\* fetch_playlist or fetch_channel; an answer without the item fails too.
Detail ==
    /\ pc = "detail"
    /\ pc' = "page"
    /\ calls' = calls + 1
    /\ UNCHANGED <<upstream, fetch, feed, outcome, verdict, answer,
                   moved, seen, guids>>

DetailFails == pc = "detail" /\ CallFails

\* Mutation: only the full pages of the budget are fetched.
LastPage_FullOnly(more) == ~more \/ page + 1 = MaxItems \div PerCall

\* fetch_playlist_items, one turn of its loop.
LastPage(more) == ~more \/ page = MaxConsecutive

Page ==
    /\ pc = "page"
    /\ calls' = calls + 1
    /\ LET got == Cut(source, token, Asked)
           more == token + Asked < Len(source)
           all == items \o got
       IN  /\ snap' = IF page = 0 THEN Snapshot(source, Asked) ELSE snap
           /\ seen' = IF page = 0 THEN source ELSE seen
           /\ token' = token + Asked
           /\ IF LastPage(more)
              THEN /\ \E p \in OldestFirst(all) : items' = [i \in DOMAIN all |-> all[p[i]]]
                   /\ lookups' = [b \in Batches(all) |-> "sent"]
                   /\ pc' = "batches"
                   /\ UNCHANGED page
              ELSE /\ items' = all
                   /\ page' = page + 1
                   /\ UNCHANGED <<lookups, pc>>
    /\ UNCHANGED <<upstream, feed, outcome, verdict, answer, moved, guids>>

PageFails == pc = "page" /\ CallFails

\* create_duration_url_map: every batch is under way at once (join_all).  One
\* that is refused for lack of quota or breaks is "lost"; one answered with
\* another status than success is "odd".
BatchEnds(b, how) ==
    /\ pc = "batches"
    /\ b \in DOMAIN lookups /\ lookups[b] = "sent"
    /\ lookups' = [lookups EXCEPT ![b] = how]
    /\ calls' = calls + 1
    /\ UNCHANGED <<upstream, pc, items, page, token, snap, feed, outcome,
                   verdict, answer, moved, seen, guids>>

Batch == \E b \in DOMAIN lookups : \E how \in {"answered", "odd", "lost"} : BatchEnds(b, how)

Stored(f) ==
    /\ feed' = f
    /\ verdict' = "none" /\ answer' = "none"
    /\ guids' = [v \in Videos |->
                   guids[v] \cup {e.guid : e \in {x \in Mentioned(f.episodes) : x.video = v}}]

\* The flatten() over the batches' results: a lost one is no result and is
\* dropped, whatever it was lost to; an odd one fails the conversion.
Convert ==
    /\ pc = "batches"
    /\ \A b \in DOMAIN lookups : lookups[b] \notin {"sent", "odd"}
    /\ Stored([kind |-> "full", episodes |-> ApiEpisodes, snap |-> snap,
               units |-> Units, origin |-> seen])
    /\ outcome' = "ok"
    /\ PassEnds
    /\ UNCHANGED upstream

ConvertFails ==
    /\ pc = "batches"
    /\ \A b \in DOMAIN lookups : lookups[b] # "sent"
    /\ \E b \in DOMAIN lookups : lookups[b] = "odd"
    /\ Fails("broken")

-----------------------------------------------------------------------------
(* The quota-free rung.                                                     *)

\* generate_rss_feed_via_atom up to the parsed feed; `lookups` is now kept by
\* video.
FetchAtom ==
    /\ pc = "idle"
    /\ feed.kind # "full"   \* the ladder degrades only where nothing full can be served
    /\ pc' = "atom"
    /\ items' = Prefix(source, AtomCap)
    /\ lookups' = [v \in Mentioned(Prefix(source, AtomCap)) |-> "sent"]
    /\ page' = 0 /\ token' = 0 /\ snap' = NotSnapped
    /\ calls' = 0 /\ moved' = FALSE /\ seen' = source
    /\ UNCHANGED <<upstream, feed, outcome, verdict, answer, guids>>

\* get_youtube_video_duration_with_ytdlp: a time-out counts as an unknown
\* duration and output that is no duration as zero seconds.  Both are kept for a
\* day like a real answer, so that any of these may also be a remembered one.
LookUp(v, how) ==
    /\ pc = "atom"
    /\ v \in DOMAIN lookups /\ lookups[v] = "sent"
    /\ lookups' = [lookups EXCEPT ![v] = how]
    /\ UNCHANGED <<upstream, pc, items, page, token, snap, feed, outcome, verdict, answer, ghosts>>

LookUpSome ==
    \E v \in DOMAIN lookups : \E how \in {LengthOf(v), "unknown", "zero", "error"} : LookUp(v, how)

\* One failed lookup fails the rung; otherwise the entries are shaped.
Degrade ==
    /\ pc = "atom"
    /\ \A v \in DOMAIN lookups : lookups[v] \notin {"sent", "error"}
    /\ Stored([kind |-> "degraded", episodes |-> AtomEpisodes, snap |-> <<>>,
               units |-> 0, origin |-> <<>>])
    /\ PassEnds
    /\ UNCHANGED <<upstream, outcome>>

DegradeFails ==
    /\ pc = "atom"
    /\ \A v \in DOMAIN lookups : lookups[v] # "sent"
    /\ \E v \in DOMAIN lookups : lookups[v] = "error"
    /\ PassEnds
    /\ UNCHANGED <<upstream, feed, outcome, verdict, answer, guids>>

-----------------------------------------------------------------------------
(* The stored feed: the probe, the answer, the end of its Stale Window.     *)

Expire ==
    /\ pc = "idle"
    /\ feed # NoFeed
    /\ feed' = NoFeed
    /\ verdict' = "none" /\ answer' = "none"
    /\ UNCHANGED <<upstream, pc, fetch, outcome, ghosts>>

\* probe_feed_freshness: one page of the recorded shape, compared with the
\* recorded snapshot.
ProbeSize == feed.snap.size
Unchanged == Snapshot(source, ProbeSize) = feed.snap

Probe ==
    /\ pc = "idle"
    /\ feed.kind = "full"
    /\ verdict' = IF Unchanged THEN "unchanged" ELSE "changed"
    /\ UNCHANGED <<upstream, pc, fetch, feed, outcome, answer, ghosts>>

ProbeFails ==
    /\ pc = "idle"
    /\ feed.kind = "full"
    /\ verdict' = "none"
    /\ UNCHANGED <<upstream, pc, fetch, feed, outcome, answer, ghosts>>

\* serve_feed: inject_vod2pod_customizations fails on an item without a
\* duration, and with it the whole answer (409).
Injectable(f) == \A i \in DOMAIN f.episodes : f.episodes[i].length # "unknown"

Serve ==
    /\ feed.kind # "none"
    /\ answer' = IF Injectable(feed) THEN "feed" ELSE "conflict"
    /\ UNCHANGED <<upstream, pc, fetch, feed, outcome, verdict, ghosts>>

-----------------------------------------------------------------------------
Next ==
    \/ \E v \in Videos : Publish(v) \/ Withdraw(v)
    \/ StartConversion \/ Unresolved \/ Detail \/ DetailFails \/ Page \/ PageFails
    \/ Batch \/ Convert \/ ConvertFails
    \/ FetchAtom \/ LookUpSome \/ Degrade \/ DegradeFails
    \/ Probe \/ ProbeFails \/ Serve \/ Expire

Spec == Init /\ [][Next]_vars

-----------------------------------------------------------------------------
(* Properties.                                                              *)

\* However the playlist changes between the calls, a metered conversion never
\* keeps more than the configured number of items, and its calls are bounded by
\* what that number needs and two pages more (fetch_playlist_items).  The atom
\* rung takes what the atom feed lists, whatever that number is.
WithinBudget ==
    /\ pc # "atom" => Len(items) <= MaxItems
    /\ calls <= 1 + (MaxItems \div PerCall + 2) + Cardinality(Batches([i \in 1..MaxItems |-> 0]))

\* The quota units a successful conversion reports, which the usage counter is
\* bumped by, are the calls it made, those of the failed batches included
\* (fetch_from_api).
UnitsReported ==
    [][Convert => feed'.units = calls]_vars

\* The probe compares like with like: "changed" means the playlist is not what
\* the conversion saw, and "unchanged" means it begins with the very videos the
\* conversion's first page had and is as long (fetch_probe_page,
\* probe_state_unchanged; the page shape is the recorded one).
ProbeExact ==
    [][Probe =>
         /\ verdict' = "changed" => source # feed.origin
         /\ verdict' = "unchanged" =>
              /\ Prefix(source, FirstPageSize) = Prefix(feed.origin, FirstPageSize)
              /\ Len(source) = Len(feed.origin)]_vars

\* An episode keeps one guid, whichever rung produced the feeds that carried it
\* and whenever (episode_identity, frozen by ADR 0002).
OneGuidPerEpisode == \A v \in Videos : Cardinality(guids[v]) <= 1

\* When the playlist held still during the conversion and every batch was
\* answered, the feed has each of the first MaxItems videos that can be shaped,
\* once, oldest first: pages neither overlap nor leave gaps, and batches find
\* every video (fetch_playlist_items, create_duration_url_map).
UndisturbedFeedComplete ==
    [][(/\ Convert /\ ~moved
        /\ \A b \in DOMAIN lookups : lookups[b] = "answered") =>
         LET videos == [i \in DOMAIN feed'.episodes |-> feed'.episodes[i].video]
         IN  /\ Mentioned(videos) = {v \in Mentioned(Prefix(source, MaxItems)) :
                                       v \notin Untimed /\ ~(FilterShorts /\ v \in Shorts)}
             /\ \A i, j \in DOMAIN videos : i < j => videos[i] < videos[j]]_vars

\* "subscribers never receive a silent empty feed": a conversion of a playlist
\* with videos to show does not succeed with none.
NoSilentEmptyFeed ==
    feed.kind = "full" /\ feed.episodes = <<>> =>
      \A v \in Mentioned(Prefix(feed.origin, MaxItems)) : v \in Untimed \cup Shorts

\* "a lookup failure must not shrink the feed", and the Degraded Feed exists "so
\* that subscribers never receive an error": a stored feed is served.
StoredFeedServed == answer # "conflict"
===============================================================================
