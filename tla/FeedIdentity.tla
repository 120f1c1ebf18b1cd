------------------------------- MODULE FeedIdentity -------------------------------
(***************************************************************************)
(* Which cache entry a Source URL belongs to.  A request dispatches its    *)
(* Source URL to a provider, derives the Canonical Feed Key, and serves or *)
(* converts the Feed under it.  A YouTube handle names a channel only      *)
(* through yt-dlp, whose answers Redis keeps by url; the key and the       *)
(* conversion each resolve on their own, and the handle may change hands   *)
(* in between.  Freshness is FeedServing's subject: here a copy is served, *)
(* regenerated or expires whenever the ladder may do so.                   *)
(***************************************************************************)
EXTENDS Sequences, SequencesExt

CONSTANTS
  Actors,      \* the requests, each with the revalidation it leaves behind
  Channels,    \* the YouTube channels
  Handles,     \* the names yt-dlp resolves to a channel
  Others,      \* what the remaining urls name: playlists, pages of other sites
  SourceUrls,  \* the Source URLs asked for: see Urls
  Metered,     \* is there an API key? Without one every rung reads the atom feed
  NoName       \* no channel or Feed; also the name of a playlist url without an id

\* A Source URL: the provider it dispatches to, what its path says it is, whom it names,
\* whether the path goes on behind the name (/channel/ID/videos), the www. or m. its host
\* begins with, the scheme, the rest of the host and the path, the pairs of its query in
\* sorted order, and how it spells port, order of the pairs, fragment and trailing slash.
\* A pair is given as the key=value fields its decoded text reads as: several if it holds
\* an escaped &.
Urls ==
  [provider : {"youtube", "peertube", "generic"},
   form : {"playlist", "channel", "handle", "atom", "other"},
   name : Channels \cup Handles \cup Others \cup {NoName},
   tail : BOOLEAN, sub : {"", "www", "m"}, page : STRING, query : Seq(Seq(STRING)),
   spelling : {"plain", "variant"}]

\* Urls that only differ in their spelling are urls of one Feed.
ASSUME IdentityAssumption ==
  /\ SourceUrls \subseteq Urls
  /\ \A u \in SourceUrls :
       /\ u.form = "handle" <=> u.name \in Handles
       /\ u.form \in {"channel", "atom"} <=> u.name \in Channels
       /\ u.provider # "youtube" => u.form = "other"
       /\ u.tail => u.form \in {"channel", "handle"}
  /\ \A u, v \in SourceUrls :
       u.sub = v.sub /\ u.page = v.page /\ u.query = v.query
         => u.provider = v.provider /\ u.form = v.form /\ u.name = v.name
  /\ Metered \in BOOLEAN
  /\ NoName \notin Channels \cup Others

VARIABLES
  owner,      \* the channel a handle names today
  past,       \* the channels a handle named until now
  resolved,   \* the handle cache: the channel yt-dlp named for a url
  copies,     \* the Feed stored under each Canonical Feed Key
  task        \* what each actor does

vars == <<owner, past, resolved, copies, task>>

-------------------------------------------------------------------------------
(* Keys *)

\* The fields of a normalized query: its decoded pairs, joined with nothing escaped again.
Joined(query) == FlattenSeq(query)

\* canonicalize_url: the url without its spelling and without www. and m.
CanonicalUrl(u) == [by |-> "url", page |-> u.page, query |-> Joined(u.query)]

\* yt:playlist:ID and yt:channel:ID; all that the path has behind /channel/ is the id.
Id(form, name, tail) == [by |-> "id", form |-> form, name |-> name, tail |-> tail]

Keys ==
  {CanonicalUrl(u) : u \in SourceUrls} \cup {Id("channel", c, FALSE) : c \in Channels}
    \cup {Id(u.form, u.name, u.tail) : u \in SourceUrls}

\* The id stands in the url.
ReadFromUrl(u) == u.form = "channel" \/ (u.form = "playlist" /\ u.name # NoName)

\* A conversion asks yt-dlp for the channel, also where the url names it.
ThroughYtDlp(u) == u.form \in {"channel", "handle"}

\* What the ladder generates a Feed by: the Feed Conversion, of a request or a
\* revalidation, and the quota-free generation of the Degraded Feed.
Rungs == {"conversion", "degraded"}

\* What a rung takes no url of: YouTube urls that name neither playlist nor channel; an
\* atom url, which the metered API has no id for; quota-free, what YouTube does not serve.
Unsupported(u, rung) ==
  \/ u.provider = "youtube" /\ u.form = "other"
  \/ u.form = "atom" /\ Metered /\ rung # "degraded"
  \/ u.provider # "youtube" /\ rung = "degraded"

Tasks ==
  [at : {"looking", "running", "saving", "keyed", "fetching"}, for : {"key"} \cup Rungs,
   url : SourceUrls, key : Keys, name : Channels \cup Others \cup {NoName},
   lapsed : BOOLEAN]

Idle == [at |-> "idle"]

TypeOK ==
  /\ owner \in [Handles -> Channels]
  /\ past \in [Handles -> SUBSET Channels]
  /\ resolved \in [SourceUrls -> Channels \cup {NoName}]
  /\ copies \in [Keys -> Channels \cup Others \cup {NoName}]
  /\ task \in [Actors -> Tasks \cup {Idle}]

-------------------------------------------------------------------------------
(* Resolving a channel *)

Becomes(a, t) == task' = [task EXCEPT ![a] = t]

\* Task t goes on with its url.
GoOn(t, at, for, key, name) ==
  [at |-> at, for |-> for, url |-> t.url, key |-> key, name |-> name, lapsed |-> t.lapsed]

\* Rung by rung, what to fetch is worked out from the Source URL, and not from the key.
Attempt(t, rung) ==
  IF ThroughYtDlp(t.url) THEN GoOn(t, "looking", rung, t.key, NoName)
  ELSE GoOn(t, "fetching", rung, t.key, t.url.name)

\* A failed conversion leads to the Degraded Feed if it was a request's; that of a
\* revalidation ends there, and so does a failed Degraded Feed.
FallOver(a) ==
  \/ task[a].for = "conversion" /\ Becomes(a, Attempt(task[a], "degraded"))
  \/ Becomes(a, Idle)

\* It is for the key of the request, or for a rung.
Resolved(a, c) ==
  IF task[a].for = "key"
    THEN Becomes(a, GoOn(task[a], "keyed", "key", Id("channel", c, FALSE), NoName))
    ELSE Becomes(a, GoOn(task[a], "fetching", task[a].for, task[a].key, c))

\* It fails: the key falls back to the normalized url, the rung fails.
Unresolved(a) ==
  IF task[a].for = "key"
    THEN Becomes(a, GoOn(task[a], "keyed", "key", CanonicalUrl(task[a].url), NoName))
    ELSE FallOver(a)

\* The handle cache is asked, by the url as it is spelled; Redis may fail.
LookUp(a) ==
  /\ task[a].at = "looking"
  /\ LET c == resolved[task[a].url]
     IN \/ c # NoName /\ Resolved(a, c)
        \/ /\ c = NoName
           /\ Becomes(a, GoOn(task[a], "running", task[a].for, task[a].key, NoName))
        \/ Unresolved(a)
  /\ UNCHANGED <<owner, past, resolved, copies>>

\* yt-dlp prints the channel of today; or it cannot be run, hangs, or prints no url.
YtDlp(a) ==
  /\ task[a].at = "running"
  /\ LET u == task[a].url
         c == IF u.form = "handle" THEN owner[u.name] ELSE u.name
     IN \/ Becomes(a, GoOn(task[a], "saving", task[a].for, task[a].key, c))
        \/ Unresolved(a)
  /\ UNCHANGED <<owner, past, resolved, copies>>

\* Mutation: the answer is not kept.
Save_Forgets(a) ==
  /\ task[a].at = "saving"
  /\ Resolved(a, task[a].name) \/ Unresolved(a)
  /\ UNCHANGED <<owner, past, resolved, copies>>

\* Mutation: the answer is kept by the host, for every url of it.
Save_ByHost(a) ==
  /\ task[a].at = "saving"
  /\ \/ /\ resolved' = [u \in SourceUrls |->
                         IF ThroughYtDlp(u) THEN task[a].name ELSE resolved[u]]
        /\ Resolved(a, task[a].name)
     \/ UNCHANGED resolved /\ Unresolved(a)
  /\ UNCHANGED <<owner, past, copies>>

\* The answer is kept; one that cannot be kept is an error.
Save(a) ==
  /\ task[a].at = "saving"
  /\ \/ /\ resolved' = [resolved EXCEPT ![task[a].url] = task[a].name]
        /\ Resolved(a, task[a].name)
     \/ UNCHANGED resolved /\ Unresolved(a)
  /\ UNCHANGED <<owner, past, copies>>

-------------------------------------------------------------------------------
(* A request *)

\* Only YouTube has ids; the other providers, and the YouTube urls that name neither
\* playlist nor channel, go by their normalized url.
Ask(a) ==
  /\ task[a].at = "idle"
  /\ \E u \in SourceUrls :
       Becomes(a,
         [at |-> IF u.form = "handle" THEN "looking" ELSE "keyed", for |-> "key", url |-> u,
          key |-> IF ReadFromUrl(u) THEN Id(u.form, u.name, u.tail) ELSE CanonicalUrl(u),
          name |-> NoName, lapsed |-> FALSE])
  /\ UNCHANGED <<owner, past, resolved, copies>>

\* The regeneration slot of a key: whoever converts under it holds it.
SlotFree(key) ==
  \A b \in Actors :
    task[b].at # "idle" /\ task[b].for # "key" => task[b].key # key

\* The stored copy is served, whoever stored it.
Serve(a) ==
  /\ task[a].at = "keyed"
  /\ copies[task[a].key] # NoName
  /\ Becomes(a, Idle)
  /\ UNCHANGED <<owner, past, resolved, copies>>

\* There is no copy, or it could not be read: a conversion, or with an open breaker
\* nothing but the Degraded Feed.  There is a Stale copy that is not found unchanged: the
\* conversion of its revalidation.
Convert(a) ==
  /\ task[a].at = "keyed"
  /\ SlotFree(task[a].key)
  /\ \E rung \in Rungs :
       /\ rung = "degraded" => task[a].url.provider = "youtube"
       /\ Becomes(a, Attempt(task[a], rung))
  /\ UNCHANGED <<owner, past, resolved, copies>>

\* The Feed of that name is fetched, and stored under the key unless its store fails; or
\* the rung fails, as it does for what it cannot take and for a playlist without an id.
Fetch(a) ==
  /\ task[a].at = "fetching"
  /\ LET t == task[a]
     IN \/ /\ ~Unsupported(t.url, t.for) /\ t.name # NoName
           /\ copies' \in {copies, [copies EXCEPT ![t.key] = t.name]}
           /\ Becomes(a, Idle)
        \/ UNCHANGED copies /\ FallOver(a)
  /\ UNCHANGED <<owner, past, resolved>>

-------------------------------------------------------------------------------
(* The world *)

\* A handle is given up and taken by another channel.
Move(h) ==
  /\ \E c \in Channels :
       /\ owner' = [owner EXCEPT ![h] = c]
       /\ past' = [past EXCEPT ![h] = @ \cup {c}]
  /\ UNCHANGED <<resolved, copies, task>>

\* Task t has its key from the resolution of the handle u.
KeyedBy(t, u) == t.at # "idle" /\ t.url = u /\ u.form = "handle" /\ t.key.by = "id"

\* The time to live of a resolution ends; it lapsed for the tasks it gave their key.
Forget(u) ==
  /\ resolved[u] # NoName
  /\ resolved' = [resolved EXCEPT ![u] = NoName]
  /\ task' = [a \in Actors |->
       IF KeyedBy(task[a], u) THEN [task[a] EXCEPT !.lapsed = TRUE] ELSE task[a]]
  /\ UNCHANGED <<owner, past, copies>>

\* A copy leaves its Stale Window.
Expire(k) ==
  /\ copies[k] # NoName
  /\ copies' = [copies EXCEPT ![k] = NoName]
  /\ UNCHANGED <<owner, past, resolved, task>>

-------------------------------------------------------------------------------
(* Specification *)

Init ==
  /\ owner \in [Handles -> Channels]
  /\ past = [h \in Handles |-> {owner[h]}]
  /\ resolved = [u \in SourceUrls |-> NoName]
  /\ copies = [k \in Keys |-> NoName]
  /\ task = [a \in Actors |-> Idle]

Request(a) ==
  Ask(a) \/ LookUp(a) \/ YtDlp(a) \/ Save(a) \/ Serve(a) \/ Convert(a) \/ Fetch(a)

Next ==
  \/ \E a \in Actors : Request(a)
  \/ \E h \in Handles : Move(h)
  \/ \E u \in SourceUrls : Forget(u)
  \/ \E k \in Keys : Expire(k)

Spec == Init /\ [][Next]_vars

-------------------------------------------------------------------------------
(* Properties *)

\* Two channels that one handle named, one after the other.
Confused(c, d) == \E h \in Handles : {c, d} \subseteq past[h]

\* The Feeds a url stands for: the one it names; for a handle any channel it named.
StandsFor(u, f) == IF u.form = "handle" THEN f \in past[u.name] ELSE f = u.name

\* Urls of different hosts (m.site, www.site, site) or different queries that one
\* normalized url stands for: canonicalize_url drops the prefix and joins the decoded
\* pairs with nothing escaped again.
Merged(u, v) ==
  /\ u.page = v.page /\ Joined(u.query) = Joined(v.query)
  /\ u.sub # v.sub \/ u.query # v.query

\* Served f, a subscriber of u sees its own Feed, or that of a channel which shared a
\* handle with its own.
SeesItsOwn(u, f) ==
  \/ StandsFor(u, f)
  \/ \E c \in Channels : StandsFor(u, c) /\ Confused(c, f)

\* Whoever is served a stored copy is served the Feed of the url it asked for, although
\* others stored the copy, under keys and names they worked out at other times, of other
\* spellings and on other rungs: keys bring two Feeds together only where urls merge.
ServesItsOwn ==
  \A a \in Actors :
    task[a].at = "keyed" /\ copies[task[a].key] # NoName
      => LET u == task[a].url
             f == copies[task[a].key]
         IN \/ SeesItsOwn(u, f)
            \/ \E v \in SourceUrls : Merged(u, v) /\ StandsFor(v, f)

\* "No extra work is done on the happy path" (identity.rs:20-22): the conversion of a
\* handle, or its Degraded Feed, runs yt-dlp again only if the key's own resolution failed
\* or was forgotten since.
ResolvedOnce ==
  \A a \in Actors :
    task[a].at = "running" /\ task[a].for # "key" /\ task[a].url.form = "handle"
      => task[a].key.by = "url" \/ task[a].lapsed
===============================================================================
