------------------------ MODULE TranscodeRequestsProofs ------------------------
(***************************************************************************)
(* Proofs about TranscodeRequests, for any length, bitrate, clients,       *)
(* ranges, faults and rotations: a download is whole, however often it was *)
(* cut off and resumed.                                                    *)
(***************************************************************************)
EXTENDS TranscodeRequests, TLAPS

Building == {"lookup", "resolving", "caching", "checking", "evicting"}
Stages == {"idle", "streaming"} \cup Building
Headers == Ranges \cup {NoRange} \cup [form : {"from"}, first : Nat]
Download == [count : Nat, shift : Nat, whole : BOOLEAN]

TypeInv ==
  /\ pc \in [Clients -> Stages]
  /\ range \in [Clients -> Headers]
  /\ sent \in [Clients -> Nat]
  /\ held \in [Clients -> Download]

\* While a downloader's request is built it asks for what the downloader lacks, and
\* the window it asks for is one that is served.
BuildInv(c) ==
  pc[c] \in Building => range[c] = ResumeRange(c) /\ Verdict(range[c]) = 200 /\ ~held[c].whole

\* While it is answered, the window runs to the end of the stream; a partial answer
\* began where the downloader's bytes ended, any other one began its file anew.
StreamInv(c) ==
  pc[c] = "streaming" =>
    /\ ~held[c].whole
    /\ First(range[c]) \in Nat /\ Last(range[c]) = Total - 1
    /\ sent[c] <= Total - First(range[c])
    /\ held[c].count = IF Noise(First(range[c])) THEN sent[c] ELSE First(range[c]) + sent[c]

\* What is whole is long enough, and nothing is ever far from its place.
FileInv(c) ==
  /\ Noise(held[c].shift)
  /\ held[c].whole => held[c].count <= Total /\ Noise(Total - held[c].count)

DownloadInv == TypeInv /\ \A c \in Downloaders : BuildInv(c) /\ StreamInv(c) /\ FileInv(c)

-------------------------------------------------------------------------------
(* The window of a resumed download                                              *)

LEMMA TotalIsNat == Total \in Nat
BY WindowAssumption DEF Total, StreamableBytes

LEMMA StartIsNoise == Noise(0)
BY TotalIsNat, WindowAssumption DEF Noise

\* What a downloader asks for reaches to the end; it is served only if it is not empty.
LEMMA ResumeWindow ==
  ASSUME TypeInv, NEW c \in Clients, NEW r, r = ResumeRange(c), Verdict(r) = 200
  PROVE  /\ First(r) = held[c].count
         /\ Last(r) = Total - 1
         /\ First(r) < Total
<1>1. held[c].count \in Nat /\ Total \in Nat
  BY TotalIsNat DEF TypeInv, Download
<1>2. First(r) = held[c].count /\ Last(r) = Total - 1
  BY <1>1 DEF ResumeRange, NoRange, First, Last
<1>3. ~Malformed(r) /\ ~Unsatisfiable(r)
  BY DEF Verdict
<1>. QED
  BY <1>1, <1>2, <1>3 DEF Unsatisfiable

\* A step that leaves a client's request and its file alone leaves its part alone.
LEMMA Untouched ==
  ASSUME NEW c \in Downloaders, BuildInv(c), StreamInv(c), FileInv(c),
         pc'[c] = pc[c], range'[c] = range[c], sent'[c] = sent[c], held'[c] = held[c]
  PROVE  BuildInv(c)' /\ StreamInv(c)' /\ FileInv(c)'
BY DEF BuildInv, StreamInv, FileInv, ResumeRange

-------------------------------------------------------------------------------
(* The steps                                                                     *)

\* Whatever happens to another client's request.
OnlyOf(d) ==
  \A c \in Clients \ {d} :
    pc'[c] = pc[c] /\ range'[c] = range[c] /\ sent'[c] = sent[c] /\ held'[c] = held[c]

LEMMA OneClient ==
  ASSUME DownloadInv, TypeInv', NEW d \in Clients, OnlyOf(d),
         d \in Downloaders => BuildInv(d)' /\ StreamInv(d)' /\ FileInv(d)'
  PROVE  DownloadInv'
<1>1. ASSUME NEW c \in Downloaders, c # d
      PROVE  BuildInv(c)' /\ StreamInv(c)' /\ FileInv(c)'
  BY <1>1, Untouched, RequestsAssumption DEF DownloadInv, OnlyOf
<1>. QED
  BY <1>1 DEF DownloadInv

LEMMA GetKeeps ==
  ASSUME DownloadInv, NEW d \in Clients, Ask(d)
  PROVE  DownloadInv'
<1>. TypeInv
  BY DEF DownloadInv
<1>1. PICK r : /\ Get(d, r)
               /\ r \in Ranges \/ r = ResumeRange(d)
               /\ d \in Downloaders => r = ResumeRange(d) /\ ~held[d].whole
  BY DEF Ask
<1>2. r \in Headers
  BY <1>1 DEF Headers, ResumeRange, TypeInv, Download
<1>3. TypeInv'
  BY <1>1, <1>2 DEF Get, Move, TypeInv, Stages, Building
<1>4. OnlyOf(d)
  BY <1>1 DEF Get, Move, OnlyOf, TypeInv
<1>5. ASSUME d \in Downloaders
      PROVE  BuildInv(d)' /\ StreamInv(d)' /\ FileInv(d)'
  <2>1. /\ pc[d] = "idle" /\ range'[d] = r /\ held' = held
        /\ pc'[d] # "idle" => Verdict(r) = 200 /\ pc'[d] = "lookup"
    BY <1>1 DEF Get, Move, TypeInv
  <2>2. FileInv(d)'
    BY <1>5, <2>1 DEF DownloadInv, FileInv
  <2>3. BuildInv(d)' /\ StreamInv(d)'
    BY <1>1, <1>5, <2>1 DEF BuildInv, StreamInv, ResumeRange, Building
  <2>. QED
    BY <2>2, <2>3
<1>. QED
  BY <1>3, <1>4, <1>5, OneClient

\* A request on its way to its answer, and one that gets none.
LEMMA BuildKeeps ==
  ASSUME DownloadInv, NEW d \in Clients,
         \/ LookupHit(d) \/ LookupMiss(d) \/ Resolve(d) \/ CacheSet(d) \/ CheckFails(d)
         \/ LookupFails(d) \/ TimesOut(d) \/ Evict(d)
  PROVE  DownloadInv'
<1>. TypeInv
  BY DEF DownloadInv
<1>1. /\ pc[d] \in Building /\ sent' = sent /\ held' = held
      /\ \/ UNCHANGED range /\ \E s \in Building : pc' = [pc EXCEPT ![d] = s]
         \/ pc' = [pc EXCEPT ![d] = "idle"] /\ range' = [range EXCEPT ![d] = NoRange]
  BY DEF LookupHit, LookupMiss, Resolve, CacheSet, CheckFails, LookupFails, TimesOut, Evict,
         Unavailable, Move, Building
<1>2. TypeInv'
  BY <1>1 DEF TypeInv, Stages, Headers
<1>3. OnlyOf(d)
  BY <1>1 DEF OnlyOf, TypeInv
<1>4. ASSUME d \in Downloaders
      PROVE  BuildInv(d)' /\ StreamInv(d)' /\ FileInv(d)'
  <2>1. \/ pc'[d] \in Building /\ range'[d] = range[d]
        \/ pc'[d] = "idle"
    BY <1>1 DEF TypeInv
  <2>. QED
    BY <1>1, <1>4, <2>1
    DEF DownloadInv, BuildInv, StreamInv, FileInv, Building, ResumeRange
<1>. QED
  BY <1>2, <1>3, <1>4, OneClient

\* The answer begins: behind the bytes the downloader has, or with a new file.
LEMMA CheckPassesKeeps ==
  ASSUME DownloadInv, NEW d \in Clients, CheckPasses(d)
  PROVE  DownloadInv'
<1>. TypeInv
  BY DEF DownloadInv
<1>1. /\ pc[d] = "checking" /\ UNCHANGED range
      /\ pc' = [pc EXCEPT ![d] = "streaming"] /\ sent' = [sent EXCEPT ![d] = 0]
      /\ held' = [held EXCEPT ![d] = IF Noise(First(range[d]))
                                     THEN [count |-> 0, shift |-> 0, whole |-> FALSE]
                                     ELSE held[d]]
  BY DEF CheckPasses, Move, Window, TypeInv
<1>2. TypeInv'
  BY <1>1 DEF TypeInv, Stages, Download
<1>3. OnlyOf(d)
  BY <1>1 DEF OnlyOf, TypeInv
<1>4. ASSUME d \in Downloaders
      PROVE  BuildInv(d)' /\ StreamInv(d)' /\ FileInv(d)'
  <2>1. range[d] = ResumeRange(d) /\ Verdict(range[d]) = 200 /\ ~held[d].whole
    BY <1>1, <1>4 DEF DownloadInv, BuildInv, Building
  <2>2. /\ First(range[d]) = held[d].count /\ Last(range[d]) = Total - 1
        /\ First(range[d]) < Total
    BY <2>1, ResumeWindow
  <2>3. /\ pc'[d] = "streaming" /\ sent'[d] = 0 /\ range'[d] = range[d]
        /\ held'[d] = IF Noise(First(range[d]))
                      THEN [count |-> 0, shift |-> 0, whole |-> FALSE] ELSE held[d]
    BY <1>1 DEF TypeInv
  <2>4. held[d].count \in Nat /\ Total \in Nat
    BY TotalIsNat DEF TypeInv, Download
  <2>5. StreamInv(d)'
    BY <2>1, <2>2, <2>3, <2>4 DEF StreamInv
  <2>6. FileInv(d)'
    BY <1>4, <2>1, <2>3, StartIsNoise DEF DownloadInv, FileInv
  <2>7. BuildInv(d)'
    BY <2>3 DEF BuildInv, Building
  <2>. QED
    BY <2>5, <2>6, <2>7
<1>. QED
  BY <1>2, <1>3, <1>4, OneClient

\* A byte arrives: at its place if the answer is partial, shifted by the window's start
\* if the client was given the stream from there as the whole of it.
LEMMA ReceiveKeeps ==
  ASSUME DownloadInv, NEW d \in Clients, Receive(d)
  PROVE  DownloadInv'
<1>. TypeInv
  BY DEF DownloadInv
<1>. DEFINE F == First(range[d])
            shift == F + sent[d] - held[d].count
<1>1. /\ pc[d] = "streaming" /\ d \in Downloaders /\ UNCHANGED <<pc, range>>
      /\ sent[d] < Last(range[d]) - F + 1
      /\ sent' = [sent EXCEPT ![d] = sent[d] + 1]
      /\ held' = [held EXCEPT ![d].count = @ + 1,
                              ![d].shift = IF shift > @ THEN shift ELSE @]
  BY DEF Receive, Window, TypeInv
<1>2. /\ held[d].count \in Nat /\ held[d].shift \in Nat /\ held[d].whole \in BOOLEAN
      /\ sent[d] \in Nat /\ Total \in Nat
  BY TotalIsNat DEF TypeInv, Download
<1>3. /\ ~held[d].whole /\ F \in Nat /\ Last(range[d]) = Total - 1
      /\ held[d].count = IF Noise(F) THEN sent[d] ELSE F + sent[d]
  BY <1>1 DEF DownloadInv, StreamInv
<1>. HIDE DEF F
<1>4. /\ sent'[d] = sent[d] + 1 /\ range'[d] = range[d] /\ pc'[d] = "streaming"
      /\ held'[d] = [count |-> held[d].count + 1,
                     shift |-> IF shift > held[d].shift THEN shift ELSE held[d].shift,
                     whole |-> held[d].whole]
  <2>1. held[d] \in Download
    BY DEF TypeInv
  <2>2. held'[d] = [held[d] EXCEPT !.count = @ + 1,
                                   !.shift = IF shift > @ THEN shift ELSE @]
    BY <1>1 DEF TypeInv
  <2>. QED
    BY <1>1, <2>1, <2>2 DEF TypeInv, Download
<1>5. held'[d].shift \in Nat /\ held'[d].shift \in {held[d].shift, F, 0}
  BY <1>2, <1>3, <1>4
<1>6. held'[d].shift = F /\ F # 0 /\ held'[d].shift # held[d].shift => Noise(F)
  BY <1>2, <1>3, <1>4
<1>7. TypeInv'
  <2>1. held'[d] \in Download /\ sent'[d] \in Nat
    BY <1>2, <1>4, <1>5 DEF Download
  <2>. QED
    BY <1>1, <2>1 DEF TypeInv
<1>8. OnlyOf(d)
  BY <1>1 DEF OnlyOf, TypeInv
<1>9. FileInv(d)'
  <2>1. Noise(held[d].shift)
    BY <1>1 DEF DownloadInv, FileInv
  <2>2. Noise(held'[d].shift)
    BY <1>5, <1>6, <2>1, StartIsNoise
  <2>. QED
    BY <1>3, <1>4, <2>2 DEF FileInv, Noise
<1>10. StreamInv(d)'
  BY <1>1, <1>2, <1>3, <1>4 DEF StreamInv, F
<1>11. BuildInv(d)'
  BY <1>4 DEF BuildInv, Building
<1>. QED
  BY <1>7, <1>8, <1>9, <1>10, <1>11, OneClient

\* The answer ends, complete or not.
LEMMA EndKeeps ==
  ASSUME DownloadInv, NEW d \in Clients, Finish(d) \/ Break(d)
  PROVE  DownloadInv'
<1>. TypeInv
  BY DEF DownloadInv
<1>1. /\ pc[d] = "streaming" /\ pc' = [pc EXCEPT ![d] = "idle"]
      /\ sent' = [sent EXCEPT ![d] = 0] /\ range' = [range EXCEPT ![d] = NoRange]
      /\ \/ held' = held
         \/ /\ d \in Downloaders /\ sent[d] = Last(range[d]) - First(range[d]) + 1
            /\ held' = [held EXCEPT ![d].whole = TRUE]
  BY DEF Finish, Break, AnswerEnds, Move, Window
<1>2. TypeInv'
  BY <1>1 DEF TypeInv, Stages, Headers, Download
<1>3. OnlyOf(d)
  BY <1>1 DEF OnlyOf, TypeInv
<1>4. ASSUME d \in Downloaders
      PROVE  BuildInv(d)' /\ StreamInv(d)' /\ FileInv(d)'
  <2>1. pc'[d] = "idle"
    BY <1>1 DEF TypeInv
  <2>2. CASE held' = held
    BY <1>4, <2>1, <2>2 DEF DownloadInv, BuildInv, StreamInv, FileInv, Building
  <2>3. CASE /\ sent[d] = Last(range[d]) - First(range[d]) + 1
             /\ held' = [held EXCEPT ![d].whole = TRUE]
    <3>1. /\ held[d].count \in Nat /\ sent[d] \in Nat /\ Total \in Nat
          /\ held'[d].count = held[d].count /\ held'[d].shift = held[d].shift
      BY <2>3, TotalIsNat DEF TypeInv, Download
    <3>2. /\ First(range[d]) \in Nat /\ Last(range[d]) = Total - 1
          /\ held[d].count = IF Noise(First(range[d])) THEN sent[d]
                             ELSE First(range[d]) + sent[d]
      BY <1>1, <1>4 DEF DownloadInv, StreamInv
    <3>3. held[d].count <= Total /\ Total - held[d].count \in {0, First(range[d])}
          /\ (Total - held[d].count # 0 => Noise(First(range[d])))
      BY <2>3, <3>1, <3>2
    <3>4. Noise(Total - held[d].count) /\ Noise(held[d].shift)
      BY <1>4, <3>3, StartIsNoise DEF DownloadInv, FileInv
    <3>. QED
      BY <2>1, <3>1, <3>3, <3>4 DEF BuildInv, StreamInv, FileInv, Building, Noise
  <2>. QED
    BY <1>1, <2>2, <2>3
<1>. QED
  BY <1>2, <1>3, <1>4, OneClient

\* What only other clients do, and the world.
LEMMA OtherKeeps ==
  ASSUME DownloadInv,
         \/ Tick \/ Rotate \/ UNCHANGED vars
         \/ \E d \in Clients \ Downloaders : (\E r \in Ranges : Head(d, r)) \/ Forbidden(d)
  PROVE  DownloadInv'
<1>. TypeInv
  BY DEF DownloadInv
<1>1. UNCHANGED <<pc, sent, held>>
  BY DEF Tick, Rotate, vars, Head, Forbidden
<1>2. \/ UNCHANGED range
      \/ \E d \in Clients \ Downloaders, r \in Ranges : range' = [range EXCEPT ![d] = r]
  BY DEF Tick, Rotate, vars, Head, Forbidden
<1>3. TypeInv'
  BY <1>1, <1>2 DEF TypeInv, Headers
<1>4. \A c \in Downloaders : range'[c] = range[c]
  BY <1>2, RequestsAssumption DEF TypeInv
<1>. QED
  BY <1>1, <1>3, <1>4, Untouched DEF DownloadInv

\* However often a download is cut off and resumed, whichever answers were partial and
\* whatever other clients did to the shared url: a file that counts as whole has the
\* advertised length less a tenth of a second at most, and no byte of it is further than
\* that from its place.
THEOREM DownloadsAreWhole == Spec => []DownloadWhole
<1>1. Init => DownloadInv
  BY StartIsNoise, RequestsAssumption
  DEF Init, DownloadInv, TypeInv, Stages, Building, Headers, Download, BuildInv, StreamInv,
      FileInv
<1>2. DownloadInv /\ [Next]_vars => DownloadInv'
  BY GetKeeps, BuildKeeps, CheckPassesKeeps, ReceiveKeeps, EndKeeps, OtherKeeps
  DEF Next, Pipeline
<1>3. DownloadInv => DownloadWhole
  BY DEF DownloadInv, FileInv, DownloadWhole
<1>. QED
  BY <1>1, <1>2, <1>3, PTL DEF Spec
===============================================================================
