---------------------------- MODULE FeedIdentityProofs ----------------------------
(***************************************************************************)
(* Whatever Source URLs, channels and handles there are, whatever fails    *)
(* and whenever handles change hands: a stored copy is only served for     *)
(* urls that stand for it or merge with one that does, and the happy path  *)
(* resolves a handle once.                                                 *)
(***************************************************************************)
EXTENDS FeedIdentity, TLAPS

\* Key k may be worked out for url u.
Fits(u, k) ==
  \/ k = CanonicalUrl(u)
  \/ ReadFromUrl(u) /\ k = Id(u.form, u.name, u.tail)
  \/ u.form = "handle" /\ \E c \in past[u.name] : k = Id("channel", c, FALSE)

\* What holds of a task that is not idle: its key fits its url; only a handle is resolved
\* for a key, and yt-dlp is asked about handles and channel urls only; what it saves is a
\* channel, and what it saves or fetches a Feed its url stands for; the key of a handle
\* that is an id was resolved and still is, or was forgotten since, and only if so a rung
\* runs yt-dlp again.
TaskRight(t) ==
  t.at # "idle" =>
    /\ Fits(t.url, t.key)
    /\ t.for = "key" /\ t.at # "keyed" => t.url.form = "handle"
    /\ t.at \in {"looking", "running", "saving"} => ThroughYtDlp(t.url)
    /\ t.at = "saving" => t.name \in Channels
    /\ t.at \in {"saving", "fetching"} /\ t.name # NoName => StandsFor(t.url, t.name)
    /\ t.url.form = "handle" /\ t.key.by = "id"
         => /\ t.lapsed \/ resolved[t.url] # NoName
            /\ t.at = "running" /\ t.for # "key" => t.lapsed

\* Every resolution names a channel of its url; every copy is a Feed that some url stands
\* for whose key it is stored under.
OwnersArePast == \A h \in Handles : owner[h] \in past[h]

ResolutionsStand ==
  \A u \in SourceUrls : resolved[u] # NoName => StandsFor(u, resolved[u]) /\ ThroughYtDlp(u)

TasksRight == \A a \in Actors : TaskRight(task[a])

CopiesStand ==
  \A k \in Keys : copies[k] # NoName =>
    \E u \in SourceUrls : Fits(u, k) /\ StandsFor(u, copies[k])

IdentityInv == TypeOK /\ OwnersArePast /\ ResolutionsStand /\ TasksRight /\ CopiesStand

-------------------------------------------------------------------------------

LEMMA Shapes ==
  /\ \A u \in SourceUrls : CanonicalUrl(u) \in Keys /\ Id(u.form, u.name, u.tail) \in Keys
  /\ \A c \in Channels : Id("channel", c, FALSE) \in Keys
  /\ \A u \in SourceUrls :
       /\ u.form = "handle" <=> u.name \in Handles
       /\ u.form = "channel" => u.name \in Channels
       /\ u.form # "handle" => u.name \in Channels \cup Others \cup {NoName}
  /\ Idle \notin Tasks
PROOF
  <1>1. Idle \notin Tasks
    BY DEF Idle, Tasks
  <1> QED
    BY <1>1, IdentityAssumption DEF Keys, Urls

LEMMA TwoKinds ==
  /\ \A u : CanonicalUrl(u).by = "url"
  /\ \A form, name, tail : Id(form, name, tail).by = "id"
BY DEF CanonicalUrl, Id

LEMMA OneKind ==
  ASSUME NEW u, NEW k, Fits(u, k)
  PROVE  k.by = "url" \/ k.by = "id"
PROOF
  <1>1. CASE k = CanonicalUrl(u)
    BY <1>1, TwoKinds
  <1>2. CASE k = Id(u.form, u.name, u.tail)
    BY <1>2, TwoKinds
  <1>3. CASE \E c \in past[u.name] : k = Id("channel", c, FALSE)
    BY <1>3, TwoKinds
  <1> QED
    BY <1>1, <1>2, <1>3 DEF Fits

LEMMA InitEstablishes == Init => IdentityInv
PROOF
  <1> SUFFICES ASSUME Init PROVE IdentityInv
    OBVIOUS
  <1>1. \A a \in Actors : task[a].at = "idle"
    BY DEF Init, Idle
  <1>2. TypeOK
    BY DEF Init, TypeOK
  <1>3. OwnersArePast
    BY DEF Init, OwnersArePast
  <1>4. ResolutionsStand /\ TasksRight /\ CopiesStand
    BY <1>1 DEF Init, ResolutionsStand, TasksRight, TaskRight, CopiesStand
  <1> QED
    BY <1>2, <1>3, <1>4 DEF IdentityInv


\* A step of one actor: what its task becomes must be right afterwards, and so must what
\* it stores.
LEMMA OneTask ==
  ASSUME IdentityInv, NEW a \in Actors, NEW t \in Tasks \cup {Idle},
         Becomes(a, t), TaskRight(t)', UNCHANGED <<owner, past>>,
         resolved' \in [SourceUrls -> Channels \cup {NoName}],
         \A u \in SourceUrls : resolved[u] # NoName => resolved'[u] # NoName,
         ResolutionsStand',
         copies' \in [Keys -> Channels \cup Others \cup {NoName}], CopiesStand'
  PROVE  IdentityInv'
PROOF
  <1>1. TypeOK'
    BY DEF IdentityInv, TypeOK, Becomes
  <1>2. OwnersArePast'
    BY DEF IdentityInv, OwnersArePast
  <1>3. TasksRight'
    <2> SUFFICES ASSUME NEW b \in Actors PROVE TaskRight(task[b])'
      BY DEF TasksRight
    <2>1. CASE b = a
      BY <2>1 DEF IdentityInv, TypeOK, Becomes, TaskRight
    <2>2. CASE b # a
      <3>1. task'[b] = task[b] /\ TaskRight(task[b]) /\ task[b] \in Tasks \cup {Idle}
        BY <2>2 DEF IdentityInv, TasksRight, TypeOK, Becomes
      <3>2. task[b].at # "idle" => task[b].url \in SourceUrls
        BY <3>1 DEF Tasks, Idle
      <3> QED
        BY <3>1, <3>2 DEF TaskRight, Fits, StandsFor
    <2> QED
      BY <2>1, <2>2
  <1> QED
    BY <1>1, <1>2, <1>3 DEF IdentityInv

\* Most steps store nothing.
LEMMA OnlyTask ==
  ASSUME IdentityInv, NEW a \in Actors, NEW t \in Tasks \cup {Idle}, TaskRight(t),
         Becomes(a, t), UNCHANGED <<owner, past, resolved, copies>>
  PROVE  IdentityInv'
PROOF
  <1>1. ResolutionsStand' /\ CopiesStand'
    BY DEF IdentityInv, ResolutionsStand, CopiesStand, StandsFor, Fits
  <1>2. TaskRight(t)'
    BY DEF TaskRight, Fits, StandsFor
  <1>3. /\ resolved' \in [SourceUrls -> Channels \cup {NoName}]
        /\ copies' \in [Keys -> Channels \cup Others \cup {NoName}]
    BY DEF IdentityInv, TypeOK
  <1> QED
    BY <1>1, <1>2, <1>3, OneTask

LEMMA IdleRight == TaskRight(Idle) /\ Idle \in Tasks \cup {Idle}
  BY DEF TaskRight, Idle

\* What the invariant says of a task at work.
LEMMA AtWork ==
  ASSUME IdentityInv, NEW a \in Actors, task[a].at # "idle"
  PROVE  task[a] \in Tasks /\ TaskRight(task[a]) /\ Fits(task[a].url, task[a].key)
BY DEF IdentityInv, TypeOK, TasksRight, TaskRight, Idle

\* The task that a resolution makes of t, and what a failure may make of it.
ResolvedTask(t, c) ==
  IF t.for = "key" THEN GoOn(t, "keyed", "key", Id("channel", c, FALSE), NoName)
  ELSE GoOn(t, "fetching", t.for, t.key, c)

UnresolvedTasks(t) ==
  IF t.for = "key" THEN {GoOn(t, "keyed", "key", CanonicalUrl(t.url), NoName)}
  ELSE {Idle, Attempt(t, "degraded")}

\* A task told a channel of its url is right if the resolution is kept, before or after
\* the step.
LEMMA ResolvedRight ==
  ASSUME NEW t \in Tasks, TaskRight(t), NEW c \in Channels, StandsFor(t.url, c),
         t.at \in {"looking", "saving"}
  PROVE  /\ ResolvedTask(t, c) \in Tasks
         /\ resolved[t.url] # NoName => TaskRight(ResolvedTask(t, c))
         /\ UNCHANGED past /\ resolved'[t.url] # NoName => TaskRight(ResolvedTask(t, c))'
PROOF
  <1>1. /\ t.url \in SourceUrls /\ t.key \in Keys /\ t.at # "idle"
        /\ t.for \in {"key"} \cup Rungs /\ Id("channel", c, FALSE) \in Keys
    BY Shapes DEF Tasks
  <1>2. Fits(t.url, t.key)
    BY <1>1 DEF TaskRight
  <1>3. CASE t.for = "key"
    <2>1. Fits(t.url, Id("channel", c, FALSE))
      BY <1>1, <1>3 DEF TaskRight, Fits, StandsFor
    <2> DEFINE n == GoOn(t, "keyed", "key", Id("channel", c, FALSE), NoName)
    <2>2. /\ n \in Tasks /\ n.at = "keyed" /\ n.url = t.url
          /\ n.key = Id("channel", c, FALSE)
      BY <1>1 DEF GoOn, Tasks
    <2>3. ResolvedTask(t, c) = n
      BY <1>3 DEF ResolvedTask
    <2> HIDE DEF n
    <2>4. UNCHANGED past => Fits(n.url, n.key)'
      BY <2>1, <2>2 DEF Fits
    <2> QED
      BY <2>1, <2>2, <2>3, <2>4 DEF TaskRight
  <1>4. CASE t.for # "key"
    <2> DEFINE n == GoOn(t, "fetching", t.for, t.key, c)
    <2>1. /\ n \in Tasks /\ n.at = "fetching" /\ n.for = t.for
          /\ n.url = t.url /\ n.key = t.key /\ n.name = c
      BY <1>1 DEF GoOn, Tasks
    <2>2. ResolvedTask(t, c) = n
      BY <1>4 DEF ResolvedTask
    <2> HIDE DEF n
    <2>3. UNCHANGED past => Fits(n.url, n.key)' /\ StandsFor(n.url, n.name)'
      BY <1>2, <2>1 DEF Fits, StandsFor
    <2> QED
      BY <1>1, <1>2, <2>1, <2>2, <2>3 DEF TaskRight
  <1> QED
    BY <1>1, <1>3, <1>4

\* Whatever a task with a key that fits was about: on the next rung it is right, for the
\* rung starts from the url.
LEMMA AttemptRight ==
  ASSUME NEW t \in Tasks, TaskRight(t), NEW rung \in Rungs
  PROVE  Attempt(t, rung) \in Tasks /\ TaskRight(Attempt(t, rung))
PROOF
  <1>1. /\ t.url \in SourceUrls /\ t.key \in Keys /\ t.at # "idle"
        /\ rung # "key" /\ Fits(t.url, t.key)
    BY DEF Tasks, Rungs, TaskRight
  <1>2. CASE ThroughYtDlp(t.url)
    <2> DEFINE n == GoOn(t, "looking", rung, t.key, NoName)
    <2>1. /\ n \in Tasks /\ n.at = "looking" /\ n.for = rung /\ n.url = t.url
          /\ n.key = t.key /\ n.lapsed = t.lapsed
      BY <1>1 DEF GoOn, Tasks
    <2>2. Attempt(t, rung) = n
      BY <1>2 DEF Attempt
    <2> HIDE DEF n
    <2> QED
      BY <1>1, <1>2, <2>1, <2>2 DEF TaskRight
  <1>3. CASE ~ThroughYtDlp(t.url)
    <2> DEFINE n == GoOn(t, "fetching", rung, t.key, t.url.name)
    <2>1. t.url.form # "handle" /\ t.url.name \in Channels \cup Others \cup {NoName}
      BY <1>1, <1>3, Shapes DEF ThroughYtDlp
    <2>2. /\ n \in Tasks /\ n.at = "fetching" /\ n.for = rung /\ n.url = t.url
          /\ n.key = t.key /\ n.name = t.url.name
      BY <1>1, <2>1 DEF GoOn, Tasks
    <2>3. Attempt(t, rung) = n
      BY <1>3 DEF Attempt
    <2> HIDE DEF n
    <2> QED
      BY <1>1, <2>1, <2>2, <2>3 DEF TaskRight, StandsFor
  <1> QED
    BY <1>2, <1>3

LEMMA UnresolvedRight ==
  ASSUME NEW t \in Tasks, TaskRight(t), NEW n \in UnresolvedTasks(t)
  PROVE  n \in Tasks \cup {Idle} /\ TaskRight(n)
PROOF
  <1>1. CASE t.for = "key"
    <2>1. t.url \in SourceUrls /\ CanonicalUrl(t.url) \in Keys
      BY Shapes DEF Tasks
    <2>2. n = GoOn(t, "keyed", "key", CanonicalUrl(t.url), NoName)
      BY <1>1 DEF UnresolvedTasks
    <2>3. n \in Tasks /\ n.at = "keyed" /\ n.url = t.url /\ n.key = CanonicalUrl(t.url)
      BY <2>1, <2>2 DEF GoOn, Tasks
    <2>4. CanonicalUrl(t.url).by = "url"
      BY TwoKinds
    <2> QED
      BY <2>3, <2>4 DEF TaskRight, Fits
  <1>2. CASE t.for # "key"
    BY <1>2, IdleRight, AttemptRight DEF UnresolvedTasks, Rungs
  <1> QED
    BY <1>1, <1>2

LEMMA Steps ==
  ASSUME NEW a \in Actors
  PROVE  /\ \A c : Resolved(a, c) <=> Becomes(a, ResolvedTask(task[a], c))
         /\ Unresolved(a) => \E n \in UnresolvedTasks(task[a]) : Becomes(a, n)
         /\ FallOver(a) => \E n \in {Idle, Attempt(task[a], "degraded")} : Becomes(a, n)
BY DEF Resolved, Unresolved, FallOver, ResolvedTask, UnresolvedTasks

LEMMA UnresolvedStep ==
  ASSUME IdentityInv, NEW a \in Actors, task[a].at # "idle", Unresolved(a),
         UNCHANGED <<owner, past, resolved, copies>>
  PROVE  IdentityInv'
PROOF
  <1>1. PICK n \in UnresolvedTasks(task[a]) : Becomes(a, n)
    BY Steps
  <1> QED
    BY <1>1, AtWork, UnresolvedRight, OnlyTask

-------------------------------------------------------------------------------

LEMMA LookUpKeeps ==
  ASSUME IdentityInv, NEW a \in Actors, LookUp(a) PROVE IdentityInv'
PROOF
  <1> DEFINE t == task[a]
  <1>1. t.at = "looking" /\ t.at # "idle" /\ UNCHANGED <<owner, past, resolved, copies>>
    BY DEF LookUp
  <1>2. t \in Tasks /\ TaskRight(t)
    BY <1>1, AtWork
  <1>3. t.url \in SourceUrls /\ t.key \in Keys /\ t.for \in {"key"} \cup Rungs
    BY <1>2 DEF Tasks
  <1>4. CASE resolved[t.url] # NoName /\ Resolved(a, resolved[t.url])
    <2>1. resolved[t.url] \in Channels /\ StandsFor(t.url, resolved[t.url])
      BY <1>3, <1>4 DEF IdentityInv, TypeOK, ResolutionsStand
    <2>2. ResolvedTask(t, resolved[t.url]) \in Tasks
          /\ TaskRight(ResolvedTask(t, resolved[t.url]))
      BY <1>1, <1>2, <1>4, <2>1, ResolvedRight
    <2> QED
      BY <1>1, <1>4, <2>2, Steps, OnlyTask
  <1>5. CASE resolved[t.url] = NoName
             /\ Becomes(a, GoOn(t, "running", t.for, t.key, NoName))
    <2> DEFINE n == GoOn(t, "running", t.for, t.key, NoName)
    <2>1. /\ n \in Tasks /\ n.at = "running" /\ n.url = t.url /\ n.key = t.key
          /\ n.lapsed = t.lapsed /\ n.for = t.for
      BY <1>2, <1>3 DEF GoOn, Tasks
    <2>2. Becomes(a, n)
      BY <1>5
    <2> HIDE DEF n
    <2>3. TaskRight(n)
      BY <1>1, <1>2, <1>5, <2>1 DEF TaskRight
    <2> QED
      BY <1>1, <2>1, <2>2, <2>3, OnlyTask
  <1>6. CASE Unresolved(a)
    BY <1>1, <1>6, UnresolvedStep
  <1> QED
    BY <1>4, <1>5, <1>6 DEF LookUp

LEMMA YtDlpKeeps ==
  ASSUME IdentityInv, NEW a \in Actors, YtDlp(a) PROVE IdentityInv'
PROOF
  <1> DEFINE t == task[a]
             c == IF t.url.form = "handle" THEN owner[t.url.name] ELSE t.url.name
             n == GoOn(t, "saving", t.for, t.key, c)
  <1>1. t.at = "running" /\ t.at # "idle" /\ UNCHANGED <<owner, past, resolved, copies>>
    BY DEF YtDlp
  <1>2. t \in Tasks /\ TaskRight(t)
    BY <1>1, AtWork
  <1>3. t.url \in SourceUrls /\ t.key \in Keys /\ t.for \in {"key"} \cup Rungs
    BY <1>2 DEF Tasks
  <1>4. CASE Becomes(a, n)
    <2>1. ThroughYtDlp(t.url)
      BY <1>1, <1>2 DEF TaskRight
    <2>2. c \in Channels /\ StandsFor(t.url, c)
      BY <1>3, <2>1, Shapes
      DEF IdentityInv, TypeOK, OwnersArePast, StandsFor, ThroughYtDlp
    <2>3. /\ n \in Tasks /\ n.at = "saving" /\ n.url = t.url /\ n.key = t.key
          /\ n.lapsed = t.lapsed /\ n.for = t.for /\ n.name = c
      BY <1>2, <1>3, <2>2 DEF GoOn, Tasks
    <2> HIDE DEF n, c
    <2>4. TaskRight(n)
      BY <1>1, <1>2, <2>1, <2>2, <2>3 DEF TaskRight
    <2> QED
      BY <1>1, <1>4, <2>3, <2>4, OnlyTask
  <1>5. CASE Unresolved(a)
    BY <1>1, <1>5, UnresolvedStep
  <1> QED
    BY <1>4, <1>5 DEF YtDlp

LEMMA SaveKeeps ==
  ASSUME IdentityInv, NEW a \in Actors, Save(a) PROVE IdentityInv'
PROOF
  <1>1. task[a].at = "saving" /\ task[a].at # "idle" /\ UNCHANGED <<owner, past, copies>>
    BY DEF Save
  <1>2. PICK t \in Tasks : t = task[a]
    BY <1>1, AtWork
  <1>3. t.at = "saving" /\ t.url \in SourceUrls /\ TaskRight(t)
    BY <1>1, <1>2, AtWork DEF Tasks
  <1>4. /\ t.name \in Channels /\ t.name # NoName
        /\ StandsFor(t.url, t.name) /\ ThroughYtDlp(t.url)
    BY <1>3, IdentityAssumption DEF TaskRight
  <1>5. CASE resolved' = [resolved EXCEPT ![t.url] = t.name] /\ Resolved(a, t.name)
    <2>1. PICK n : n = ResolvedTask(t, t.name)
      OBVIOUS
    <2>2. /\ resolved' \in [SourceUrls -> Channels \cup {NoName}]
          /\ resolved'[t.url] = t.name
          /\ \A u \in SourceUrls : u # t.url => resolved'[u] = resolved[u]
      BY <1>3, <1>4, <1>5 DEF IdentityInv, TypeOK
    <2>3. ResolutionsStand' /\ CopiesStand'
      BY <1>1, <1>4, <2>2
      DEF IdentityInv, ResolutionsStand, CopiesStand, StandsFor, Fits
    <2>4. n \in Tasks /\ TaskRight(n)'
      BY <1>1, <1>3, <1>4, <2>1, <2>2, ResolvedRight
    <2>5. copies' \in [Keys -> Channels \cup Others \cup {NoName}]
      BY <1>1 DEF IdentityInv, TypeOK
    <2>6. Becomes(a, n)
      BY <1>2, <1>5, <2>1, Steps
    <2>7. \A u \in SourceUrls : resolved[u] # NoName => resolved'[u] # NoName
      BY <1>4, <2>2
    <2> QED
      BY <1>1, <2>2, <2>3, <2>4, <2>5, <2>6, <2>7, OneTask
  <1>6. CASE UNCHANGED resolved /\ Unresolved(a)
    BY <1>1, <1>6, UnresolvedStep
  <1> QED
    BY <1>2, <1>5, <1>6 DEF Save

\* Asking: what is read from the url fits it.
LEMMA AskKeeps ==
  ASSUME IdentityInv, NEW a \in Actors, Ask(a) PROVE IdentityInv'
PROOF
  <1>1. PICK u \in SourceUrls :
          Becomes(a,
            [at |-> IF u.form = "handle" THEN "looking" ELSE "keyed", for |-> "key",
             url |-> u,
             key |-> IF ReadFromUrl(u) THEN Id(u.form, u.name, u.tail)
                     ELSE CanonicalUrl(u),
             name |-> NoName, lapsed |-> FALSE])
    BY DEF Ask
  <1> DEFINE key == IF ReadFromUrl(u) THEN Id(u.form, u.name, u.tail) ELSE CanonicalUrl(u)
             t == [at |-> IF u.form = "handle" THEN "looking" ELSE "keyed",
                   for |-> "key", url |-> u, key |-> key, name |-> NoName,
                   lapsed |-> FALSE]
  <1>2. /\ key \in Keys /\ Fits(u, key)
        /\ u.form = "handle" => key.by = "url"
    BY Shapes DEF Fits, ReadFromUrl, CanonicalUrl
  <1>3. Becomes(a, t)
    BY <1>1
  <1> HIDE DEF key
  <1>4. t \in Tasks
    BY <1>2 DEF Tasks
  <1>5. TaskRight(t)
    BY <1>2 DEF TaskRight, ThroughYtDlp
  <1> QED
    BY <1>3, <1>4, <1>5, OnlyTask DEF Ask

LEMMA ServeKeeps ==
  ASSUME IdentityInv, NEW a \in Actors, Serve(a) PROVE IdentityInv'
BY IdleRight, OnlyTask DEF Serve

LEMMA ConvertKeeps ==
  ASSUME IdentityInv, NEW a \in Actors, Convert(a) PROVE IdentityInv'
PROOF
  <1>1. /\ task[a].at = "keyed" /\ task[a].at # "idle"
        /\ UNCHANGED <<owner, past, resolved, copies>>
    BY DEF Convert
  <1>2. PICK t \in Tasks : t = task[a]
    BY <1>1, AtWork
  <1>3. PICK rung \in Rungs : Becomes(a, Attempt(t, rung))
    BY <1>2 DEF Convert
  <1>4. t \in Tasks /\ TaskRight(t)
    BY <1>1, <1>2, AtWork
  <1> QED
    BY <1>1, <1>3, <1>4, AttemptRight, OnlyTask

LEMMA FetchKeeps ==
  ASSUME IdentityInv, NEW a \in Actors, Fetch(a) PROVE IdentityInv'
PROOF
  <1>1. /\ task[a].at = "fetching" /\ task[a].at # "idle"
        /\ UNCHANGED <<owner, past, resolved>>
    BY DEF Fetch
  <1>2. PICK t \in Tasks : t = task[a]
    BY <1>1, AtWork
  <1>3. /\ t.at = "fetching" /\ t.url \in SourceUrls /\ t.key \in Keys /\ TaskRight(t)
        /\ t.name \in Channels \cup Others \cup {NoName} /\ t.at # "idle"
    BY <1>1, <1>2, AtWork DEF Tasks
  <1>4. /\ resolved' \in [SourceUrls -> Channels \cup {NoName}]
        /\ \A u \in SourceUrls : resolved[u] # NoName => resolved'[u] # NoName
        /\ ResolutionsStand' /\ TaskRight(Idle)' /\ Idle \in Tasks \cup {Idle}
    BY <1>1 DEF IdentityInv, TypeOK, ResolutionsStand, StandsFor, TaskRight, Idle
  <1>5. CASE /\ t.name # NoName /\ copies' = [copies EXCEPT ![t.key] = t.name]
             /\ Becomes(a, Idle)
    <2>1. /\ copies' \in [Keys -> Channels \cup Others \cup {NoName}]
          /\ copies'[t.key] = t.name
          /\ \A k \in Keys : k # t.key => copies'[k] = copies[k]
      BY <1>3, <1>5 DEF IdentityInv, TypeOK
    <2>2. Fits(t.url, t.key) /\ StandsFor(t.url, t.name)
      BY <1>3, <1>5 DEF TaskRight
    <2>3. CopiesStand'
      BY <1>1, <1>3, <2>1, <2>2 DEF IdentityInv, CopiesStand, Fits, StandsFor
    <2> QED
      BY <1>1, <1>4, <1>5, <2>1, <2>3, OneTask
  <1>6. CASE UNCHANGED copies /\ Becomes(a, Idle)
    BY <1>1, <1>6, IdleRight, OnlyTask
  <1>7. CASE UNCHANGED copies /\ FallOver(a)
    <2>1. PICK n \in {Idle, Attempt(t, "degraded")} : Becomes(a, n)
      BY <1>2, <1>7, Steps
    <2>2. n \in Tasks \cup {Idle} /\ TaskRight(n)
      BY <1>3, <2>1, IdleRight, AttemptRight DEF Rungs
    <2> QED
      BY <1>1, <1>7, <2>1, <2>2, OnlyTask
  <1> QED
    BY <1>2, <1>5, <1>6, <1>7 DEF Fetch

-------------------------------------------------------------------------------
(* The world *)

\* A handle that moves takes nothing away: what stood for it still does.
LEMMA MoveKeeps ==
  ASSUME IdentityInv, NEW h \in Handles, Move(h) PROVE IdentityInv'
PROOF
  <1>1. PICK c \in Channels :
          /\ owner' = [owner EXCEPT ![h] = c]
          /\ past' = [past EXCEPT ![h] = @ \cup {c}]
          /\ UNCHANGED <<resolved, copies, task>>
    BY DEF Move
  <1>2. TypeOK'
    BY <1>1 DEF IdentityInv, TypeOK
  <1>3. OwnersArePast'
    BY <1>1 DEF IdentityInv, TypeOK, OwnersArePast
  <1>4. \A g \in Handles : past[g] \subseteq past'[g]
    BY <1>1 DEF IdentityInv, TypeOK
  <1>5. /\ \A u \in SourceUrls : \A f : StandsFor(u, f) => StandsFor(u, f)'
        /\ \A u \in SourceUrls : \A k : Fits(u, k) => Fits(u, k)'
    BY <1>4, Shapes DEF StandsFor, Fits
  <1>6. ResolutionsStand' /\ CopiesStand'
    BY <1>1, <1>5 DEF IdentityInv, ResolutionsStand, CopiesStand
  <1>7. TasksRight'
    <2> SUFFICES ASSUME NEW a \in Actors PROVE TaskRight(task[a])'
      BY DEF TasksRight
    <2>1. TaskRight(task[a]) /\ (task[a].at # "idle" => task[a].url \in SourceUrls)
      BY AtWork DEF IdentityInv, TasksRight, Tasks
    <2> QED
      BY <1>1, <1>5, <2>1 DEF TaskRight
  <1> QED
    BY <1>2, <1>3, <1>6, <1>7 DEF IdentityInv

\* It lapsed for whoever has its key from the resolution.
LEMMA ForgetKeeps ==
  ASSUME IdentityInv, NEW u \in SourceUrls, Forget(u) PROVE IdentityInv'
PROOF
  <1>1. /\ resolved' = [resolved EXCEPT ![u] = NoName]
        /\ task' = [a \in Actors |->
             IF KeyedBy(task[a], u) THEN [task[a] EXCEPT !.lapsed = TRUE] ELSE task[a]]
        /\ UNCHANGED <<owner, past, copies>>
    BY DEF Forget
  <1>2. \A a \in Actors : /\ task[a].at = "idle" => task'[a] = task[a]
                          /\ task[a].at # "idle" => task'[a] \in Tasks
    BY <1>1, AtWork DEF Tasks, KeyedBy
  <1>3. TypeOK'
    BY <1>1, <1>2 DEF IdentityInv, TypeOK
  <1>4. OwnersArePast' /\ CopiesStand' /\ ResolutionsStand'
    BY <1>1
    DEF IdentityInv, TypeOK, OwnersArePast, CopiesStand, ResolutionsStand, StandsFor, Fits
  <1>5. TasksRight'
    <2> SUFFICES ASSUME NEW a \in Actors PROVE TaskRight(task[a])'
      BY DEF TasksRight
    <2>1. CASE task[a].at = "idle"
      BY <1>2, <2>1 DEF TaskRight
    <2>2. CASE KeyedBy(task[a], u)
      <3>1. task[a] \in Tasks /\ TaskRight(task[a])
        BY <2>2, AtWork DEF KeyedBy
      <3>2. /\ task'[a].at = task[a].at /\ task'[a].for = task[a].for
            /\ task'[a].url = task[a].url /\ task'[a].key = task[a].key
            /\ task'[a].name = task[a].name /\ task'[a].lapsed = TRUE
        BY <1>1, <2>2, <3>1 DEF Tasks
      <3> QED
        BY <1>1, <2>2, <3>1, <3>2 DEF TaskRight, Fits, StandsFor, KeyedBy
    <2>3. CASE task[a].at # "idle" /\ ~KeyedBy(task[a], u)
      <3>1. task[a] \in Tasks /\ TaskRight(task[a])
        BY <2>3, AtWork
      <3>2. /\ task'[a] = task[a] /\ task[a].url \in SourceUrls
            /\ task[a].url # u => resolved'[task[a].url] = resolved[task[a].url]
        BY <1>1, <2>3, <3>1 DEF IdentityInv, TypeOK, Tasks
      <3> QED
        BY <1>1, <2>3, <3>1, <3>2 DEF TaskRight, Fits, StandsFor, KeyedBy
    <2> QED
      BY <2>1, <2>2, <2>3
  <1> QED
    BY <1>3, <1>4, <1>5 DEF IdentityInv

LEMMA ExpireKeeps ==
  ASSUME IdentityInv, NEW k \in Keys, Expire(k) PROVE IdentityInv'
PROOF
  <1>1. copies' = [copies EXCEPT ![k] = NoName] /\ UNCHANGED <<owner, past, resolved, task>>
    BY DEF Expire
  <1>2. TypeOK' /\ OwnersArePast' /\ ResolutionsStand' /\ CopiesStand'
    BY <1>1
    DEF IdentityInv, TypeOK, OwnersArePast, ResolutionsStand, CopiesStand, StandsFor, Fits
  <1>3. TasksRight'
    BY <1>1 DEF IdentityInv, TasksRight, TaskRight, Fits, StandsFor
  <1> QED
    BY <1>2, <1>3 DEF IdentityInv

-------------------------------------------------------------------------------

\* The invariant is inductive.
LEMMA NextKeeps == IdentityInv /\ [Next]_vars => IdentityInv'
PROOF
  <1> SUFFICES ASSUME IdentityInv, [Next]_vars PROVE IdentityInv'
    OBVIOUS
  <1>1. ASSUME NEW a \in Actors, Request(a) PROVE IdentityInv'
    BY <1>1, AskKeeps, LookUpKeeps, YtDlpKeeps, SaveKeeps, ServeKeeps, ConvertKeeps,
       FetchKeeps
    DEF Request
  <1>2. ASSUME NEW h \in Handles, Move(h) PROVE IdentityInv'
    BY <1>2, MoveKeeps
  <1>3. ASSUME NEW u \in SourceUrls, Forget(u) PROVE IdentityInv'
    BY <1>3, ForgetKeeps
  <1>4. ASSUME NEW k \in Keys, Expire(k) PROVE IdentityInv'
    BY <1>4, ExpireKeeps
  <1>5. CASE UNCHANGED vars
    BY <1>5
    DEF vars, IdentityInv, TypeOK, OwnersArePast, ResolutionsStand, TasksRight, TaskRight,
        CopiesStand, Fits, StandsFor
  <1> QED
    BY <1>1, <1>2, <1>3, <1>4, <1>5 DEF Next

\* Types, and what every task, resolution and copy stands for, hold always.
THEOREM IdentityHolds == Spec => []IdentityInv
PROOF
  <1> QED
    BY InitEstablishes, NextKeeps, PTL DEF Spec

\* Two urls that share a key are spellings of one Feed, or of two channels that one handle
\* named, or urls that are normalized to the same text.
LEMMA SharedKey ==
  ASSUME IdentityInv, NEW u \in SourceUrls, NEW v \in SourceUrls, NEW k,
         Fits(u, k), Fits(v, k), NEW f \in Channels \cup Others, StandsFor(v, f)
  PROVE  SeesItsOwn(u, f) \/ Merged(u, v)
PROOF
  <1>1. /\ u.form = "handle" <=> u.name \in Handles
        /\ v.form = "handle" <=> v.name \in Handles
        /\ u.form \in {"channel", "atom"} <=> u.name \in Channels
        /\ v.form \in {"channel", "atom"} <=> v.name \in Channels
    BY IdentityAssumption
  <1>2. CASE u.form = v.form /\ u.name = v.name
    BY <1>2 DEF SeesItsOwn, StandsFor
  <1>3. CASE k.by = "url"
    <2>1. k = CanonicalUrl(u) /\ k = CanonicalUrl(v)
      BY <1>3, TwoKinds DEF Fits
    <2>2. u.page = v.page /\ Joined(u.query) = Joined(v.query)
      BY <2>1 DEF CanonicalUrl
    <2>3. CASE u.sub = v.sub /\ u.query = v.query
      BY <1>2, <2>2, <2>3, IdentityAssumption
    <2> QED
      BY <2>2, <2>3 DEF Merged
  <1>4. CASE k.by = "id" /\ u.form # "handle" /\ v.form # "handle"
    <2>1. k = Id(u.form, u.name, u.tail) /\ k = Id(v.form, v.name, v.tail)
      BY <1>4, TwoKinds DEF Fits
    <2> QED
      BY <1>2, <2>1 DEF Id
  <1>5. CASE k.by = "id" /\ u.form = "handle"
    <2>1. PICK c \in past[u.name] : k = Id("channel", c, FALSE)
      BY <1>5, TwoKinds DEF Fits, ReadFromUrl
    <2>2. c \in Channels /\ StandsFor(u, c)
      BY <1>1, <1>5, <2>1 DEF IdentityInv, TypeOK, StandsFor
    <2>3. CASE v.form = "handle"
      <3>1. PICK d \in past[v.name] : k = Id("channel", d, FALSE)
        BY <1>5, <2>3, TwoKinds DEF Fits, ReadFromUrl
      <3>2. c = d
        BY <2>1, <3>1 DEF Id
      <3>3. Confused(c, f)
        BY <1>1, <2>3, <3>1, <3>2 DEF Confused, StandsFor
      <3> QED
        BY <2>2, <3>3 DEF SeesItsOwn
    <2>4. CASE v.form # "handle"
      <3>1. k = Id(v.form, v.name, v.tail)
        BY <1>5, <2>4, TwoKinds DEF Fits
      <3>2. v.name = c /\ f = c
        BY <2>1, <2>4, <3>1 DEF Id, StandsFor
      <3> QED
        BY <2>2, <3>2 DEF SeesItsOwn
    <2> QED
      BY <2>3, <2>4
  <1>6. CASE k.by = "id" /\ u.form # "handle" /\ v.form = "handle"
    <2>1. PICK d \in past[v.name] : k = Id("channel", d, FALSE)
      BY <1>6, TwoKinds DEF Fits, ReadFromUrl
    <2>2. k = Id(u.form, u.name, u.tail)
      BY <1>6, TwoKinds DEF Fits
    <2>3. u.name = d /\ d \in Channels /\ StandsFor(u, d)
      BY <1>1, <1>6, <2>1, <2>2 DEF IdentityInv, TypeOK, Id, StandsFor
    <2>4. Confused(d, f)
      BY <1>1, <1>6, <2>1 DEF Confused, StandsFor
    <2> QED
      BY <2>3, <2>4 DEF SeesItsOwn
  <1>7. k.by = "url" \/ k.by = "id"
    BY OneKind
  <1> QED
    BY <1>3, <1>4, <1>5, <1>6, <1>7

\* A stored copy is only served for urls it stands for, whoever stored it, on whatever
\* rung and under whatever spelling: keys bring two Feeds together only where a handle
\* changed hands or canonicalize_url makes one text of urls of different Feeds.
THEOREM CopiesServeTheirOwn == Spec => []ServesItsOwn
PROOF
  <1>1. IdentityInv => ServesItsOwn
    <2> SUFFICES ASSUME IdentityInv, NEW a \in Actors, task[a].at = "keyed",
                        copies[task[a].key] # NoName
                 PROVE  \/ SeesItsOwn(task[a].url, copies[task[a].key])
                        \/ \E v \in SourceUrls :
                             Merged(task[a].url, v) /\ StandsFor(v, copies[task[a].key])
      BY DEF ServesItsOwn
    <2> DEFINE f == copies[task[a].key]
    <2>1. /\ task[a].url \in SourceUrls /\ task[a].key \in Keys
          /\ Fits(task[a].url, task[a].key)
      BY AtWork DEF Tasks
    <2>2. f \in Channels \cup Others
      BY <2>1 DEF IdentityInv, TypeOK
    <2>3. PICK v \in SourceUrls : Fits(v, task[a].key) /\ StandsFor(v, f)
      BY <2>1 DEF IdentityInv, CopiesStand
    <2> QED
      BY <2>1, <2>2, <2>3, SharedKey
  <1> QED
    BY <1>1, IdentityHolds, PTL

\* yt-dlp is run a second time for a handle only if the key had to fall back to the url,
\* or the resolution was forgotten while the request was under way.
THEOREM HandlesResolveOnce == Spec => []ResolvedOnce
PROOF
  <1>1. IdentityInv => ResolvedOnce
    <2> SUFFICES ASSUME IdentityInv, NEW a \in Actors, task[a].at = "running",
                        task[a].for # "key", task[a].url.form = "handle"
                 PROVE  task[a].key.by = "url" \/ task[a].lapsed
      BY DEF ResolvedOnce
    <2>1. TaskRight(task[a]) /\ task[a].key.by \in {"url", "id"}
      BY AtWork, OneKind
    <2> QED
      BY <2>1 DEF TaskRight
  <1> QED
    BY <1>1, IdentityHolds, PTL
===============================================================================
