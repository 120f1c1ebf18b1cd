-------------------------- MODULE YouTubeFeedsProofs --------------------------
(***************************************************************************)
(* However the playlist changes between two calls, whichever call is       *)
(* refused or breaks, and however many videos, pages and batches there     *)
(* are: a conversion stays within its budget and reports the calls it      *)
(* made, the probe compares like with like, an episode keeps its guid, and *)
(* a conversion that nothing disturbed misses no video.                    *)
(***************************************************************************)
EXTENDS YouTubeFeeds, FiniteSetTheorems, SequenceTheorems, TLAPS

-------------------------------------------------------------------------------
(* Numbers, positions, batches and shaping.                                 *)

\* A set of numbers has a least one.
LEMMA Smallest ==
  ASSUME NEW T, T \subseteq Nat, T # {}
  PROVE  \E m \in T : \A n \in T : m <= n
PROOF
  <1> DEFINE Below == {ss \in Nat \X Nat : ss[1] < ss[2]}
  <1>1. IsWellFoundedOn(Below, Nat)
    BY NatLessThanWellFounded DEF OpToRel
  <1>2. PICK m \in T : \A n \in T : ~(<<n, m>> \in Below)
    <2> HIDE DEF Below
    <2> QED
      BY <1>1, WFMin
  <1>3. ASSUME NEW n \in T PROVE m <= n
    <2>1. n \in Nat /\ m \in Nat
      OBVIOUS
    <2>2. n < m => <<n, m>> \in Below
      BY <2>1
    <2> QED
      BY <1>2, <2>1, <2>2
  <1> QED
    BY <1>3

\* Dividing keeps the order.
LEMMA DivideMonotone ==
  ASSUME NEW n \in Nat, NEW m \in Nat, n <= m, NEW d \in Nat \ {0}
  PROVE  n \div d \in Nat /\ m \div d \in Nat /\ n \div d <= m \div d
OBVIOUS

\* The first n of a sequence.
LEMMA PrefixOf ==
  ASSUME NEW S, NEW s \in Seq(S), NEW n \in Nat
  PROVE  /\ Prefix(s, n) \in Seq(S)
         /\ Len(Prefix(s, n)) = Least(n, Len(s))
         /\ \A i \in 1..Least(n, Len(s)) : Prefix(s, n)[i] = s[i]
BY DEF Prefix, Least

\* A page: at most n of the sequence, and exactly its part behind a position it has.
LEMMA CutOf ==
  ASSUME NEW S, NEW s \in Seq(S), NEW from \in Nat, NEW n \in Nat
  PROVE  /\ Cut(s, from, n) \in Seq(S)
         /\ Len(Cut(s, from, n)) <= n
         /\ from <= Len(s) => 
              /\ Len(Cut(s, from, n)) = Least(from + n, Len(s)) - from
              /\ \A i \in 1..(Least(from + n, Len(s)) - from) : Cut(s, from, n)[i] = s[from + i]
BY DEF Cut, Least

\* How many batches there are, and that each item is in one of them.
LEMMA BatchesFound ==
  ASSUME NEW s, Len(s) \in Nat
  PROVE  /\ IsFiniteSet(Batches(s))
         /\ Cardinality(Batches(s)) = (Len(s) + PerCall - 1) \div PerCall
         /\ \A i \in 1..Len(s) : BatchOf(i) \in Batches(s)
PROOF
  <1> DEFINE k == (Len(s) + PerCall - 1) \div PerCall
  <1>1. PerCall \in Nat \ {0} /\ Len(s) + PerCall - 1 \in Nat
    BY ConversionAssumption
  <1>2. k \in Nat
    BY <1>1, DivideMonotone
  <1>3. IsFiniteSet(Batches(s)) /\ Cardinality(Batches(s)) = k
    <2> HIDE DEF k
    <2>1. Batches(s) = 1..k
      BY DEF Batches, k
    <2>2. IsFiniteSet(1..k) /\ Cardinality(1..k) = k
      BY <1>2, FS_Interval
    <2> QED
      BY <2>1, <2>2
  <1>4. ASSUME NEW i \in 1..Len(s) PROVE BatchOf(i) \in Batches(s)
    <2>1. i - 1 \in Nat /\ Len(s) - 1 \in Nat /\ i - 1 <= Len(s) - 1
      OBVIOUS
    <2>2. /\ (i - 1) \div PerCall \in Nat
          /\ (i - 1) \div PerCall <= (Len(s) - 1) \div PerCall
      BY <2>1, <1>1, DivideMonotone
    <2>3. k = (Len(s) - 1) \div PerCall + 1
      BY <1>1, <2>1
    <2> HIDE DEF k
    <2>4. BatchOf(i) \in 1..k
      BY <2>2, <2>3, <1>2, <2>1, <1>1 DEF BatchOf
    <2> QED
      BY <2>4 DEF Batches, k
  <1> QED
    BY <1>3, <1>4

\* What is kept of a sequence of n entries, one by one.
UpTo(kept, m) == {j \in kept : j <= m}

\* The count of what is kept up to a position grows by one at each kept position.
LEMMA UpToGrows ==
  ASSUME NEW n \in Nat, NEW kept \in SUBSET (1..n)
  PROVE  /\ IsFiniteSet(kept) /\ Cardinality(kept) \in Nat
         /\ \A m \in Nat : IsFiniteSet(UpTo(kept, m)) /\ Cardinality(UpTo(kept, m)) \in Nat
                           /\ Cardinality(UpTo(kept, m)) <= Cardinality(kept)
         /\ Cardinality(UpTo(kept, 0)) = 0
         /\ UpTo(kept, n) = kept
         /\ \A m \in Nat \ {0} :
               Cardinality(UpTo(kept, m)) =
                 IF m \in kept THEN Cardinality(UpTo(kept, m - 1)) + 1
                 ELSE Cardinality(UpTo(kept, m - 1))
PROOF
  <1>1. IsFiniteSet(kept) /\ Cardinality(kept) \in Nat
    <2>1. IsFiniteSet(1..n)
      BY FS_Interval
    <2>2. IsFiniteSet(kept)
      BY <2>1, FS_Subset
    <2> QED
      BY <2>2, FS_CardinalityType
  <1>2. ASSUME NEW m \in Nat
        PROVE  IsFiniteSet(UpTo(kept, m)) /\ Cardinality(UpTo(kept, m)) \in Nat
               /\ Cardinality(UpTo(kept, m)) <= Cardinality(kept)
    <2>1. UpTo(kept, m) \in SUBSET kept
      BY DEF UpTo
    <2> QED
      BY <2>1, <1>1, FS_Subset, FS_CardinalityType
  <1>3. UpTo(kept, 0) = {} /\ UpTo(kept, n) = kept
    <2>1. \A j \in kept : ~(j <= 0) /\ j <= n
      OBVIOUS
    <2>2. UpTo(kept, 0) = {}
      BY <2>1 DEF UpTo
    <2>3. UpTo(kept, n) = kept
      BY <2>1, Zenon DEF UpTo
    <2> QED
      BY <2>2, <2>3
  <1>4. ASSUME NEW m \in Nat \ {0}
        PROVE  Cardinality(UpTo(kept, m)) =
                 IF m \in kept THEN Cardinality(UpTo(kept, m - 1)) + 1
                 ELSE Cardinality(UpTo(kept, m - 1))
    <2>0. \A j \in kept : j \in Nat /\ (j <= m <=> j <= m - 1 \/ j = m)
      OBVIOUS
    <2>1. UpTo(kept, m) = IF m \in kept THEN UpTo(kept, m - 1) \cup {m} ELSE UpTo(kept, m - 1)
      BY <2>0 DEF UpTo
    <2>2. m \notin UpTo(kept, m - 1) /\ m - 1 \in Nat
      BY DEF UpTo
    <2>3. IsFiniteSet(UpTo(kept, m - 1))
      BY <1>2, <2>2
    <2>4. Cardinality(UpTo(kept, m - 1) \cup {m}) = Cardinality(UpTo(kept, m - 1)) + 1
      BY <2>2, <2>3, FS_AddElement
    <2> QED
      BY <2>1, <2>4
  <1> QED
    BY <1>1, <1>2, <1>3, <1>4, FS_EmptySet

\* Each rank belongs to an entry that is kept.
LEMMA RankTaken ==
  ASSUME NEW n \in Nat, NEW kept \in SUBSET (1..n), NEW r \in 1..Cardinality(kept)
  PROVE  \E i \in kept : Cardinality(UpTo(kept, i)) = r
PROOF
  <1> DEFINE T == {m \in Nat : r <= Cardinality(UpTo(kept, m))}
  <1>1. n \in T /\ r \in Nat \ {0}
    BY UpToGrows
  <1>2. PICK m \in T : \A k \in T : m <= k
    <2> HIDE DEF T
    <2>1. T \subseteq Nat
      BY DEF T
    <2> QED
      BY <1>1, <2>1, Smallest
  <1>3. m \in Nat \ {0}
    BY <1>1, UpToGrows
  <1>4. m - 1 \in Nat /\ m - 1 \notin T
    BY <1>2, <1>3
  <1>5. /\ Cardinality(UpTo(kept, m - 1)) \in Nat /\ Cardinality(UpTo(kept, m - 1)) < r
        /\ r <= Cardinality(UpTo(kept, m))
    <2>1. Cardinality(UpTo(kept, m - 1)) \in Nat
      BY <1>4, UpToGrows
    <2> QED
      BY <1>4, <2>1, <1>1
  <1>6. m \in kept /\ Cardinality(UpTo(kept, m)) = Cardinality(UpTo(kept, m - 1)) + 1
    BY <1>3, <1>5, <1>1, UpToGrows
  <1> QED
    BY <1>5, <1>6, <1>1

\* Ranks follow positions, and no two entries share one.
LEMMA RanksOrdered ==
  ASSUME NEW n \in Nat, NEW kept \in SUBSET (1..n), NEW i \in kept, NEW j \in kept, i <= j
  PROVE  /\ Cardinality(UpTo(kept, i)) \in 1..Cardinality(kept)
         /\ Cardinality(UpTo(kept, i)) <= Cardinality(UpTo(kept, j))
         /\ Cardinality(UpTo(kept, i)) = Cardinality(UpTo(kept, j)) => i = j
PROOF
  <1>1. i \in Nat \ {0} /\ j \in Nat \ {0}
    OBVIOUS
  <1>2. IsFiniteSet(UpTo(kept, j)) /\ UpTo(kept, i) \in SUBSET UpTo(kept, j)
    <2>1. IsFiniteSet(UpTo(kept, j))
      BY <1>1, UpToGrows
    <2>2. \A k \in kept : k <= i => k <= j
      BY <1>1
    <2> QED
      BY <2>1, <2>2 DEF UpTo
  <1>3. /\ Cardinality(UpTo(kept, i)) <= Cardinality(UpTo(kept, j))
        /\ Cardinality(UpTo(kept, i)) = Cardinality(UpTo(kept, j)) => UpTo(kept, i) = UpTo(kept, j)
    BY <1>2, FS_Subset
  <1>4. UpTo(kept, i) = UpTo(kept, j) => i = j
    BY <1>1 DEF UpTo
  <1>5. Cardinality(UpTo(kept, i)) \in 1..Cardinality(kept)
    <2>1. i - 1 \in Nat
      BY <1>1
    <2>2. /\ Cardinality(UpTo(kept, i - 1)) \in Nat
          /\ Cardinality(UpTo(kept, i)) = Cardinality(UpTo(kept, i - 1)) + 1
          /\ Cardinality(UpTo(kept, i)) <= Cardinality(kept)
          /\ Cardinality(kept) \in Nat
      BY <1>1, <2>1, UpToGrows
    <2> QED
      BY <2>2
  <1> QED
    BY <1>3, <1>4, <1>5

\* Shaping keeps the admitted entries, all of them, in their order.
LEMMA ShapedKeepsOrder ==
  ASSUME NEW n \in Nat, NEW s, DOMAIN s = 1..n, NEW rung
  PROVE  \E pos \in [DOMAIN Shaped(s, rung) -> {i \in 1..n : Admits(s[i].length, rung)}] :
           /\ Len(Shaped(s, rung)) \in Nat /\ DOMAIN Shaped(s, rung) = 1..Len(Shaped(s, rung))
           /\ \A r \in DOMAIN Shaped(s, rung) : Shaped(s, rung)[r] = s[pos[r]]
           /\ \A q, r \in DOMAIN Shaped(s, rung) : q < r => pos[q] < pos[r]
           /\ \A i \in 1..n : Admits(s[i].length, rung)
                              => \E r \in DOMAIN Shaped(s, rung) : pos[r] = i
PROOF
  <1> DEFINE kept == {i \in 1..n : Admits(s[i].length, rung)}
             Rank(i) == Cardinality(UpTo(kept, i))
             pos == [r \in 1..Cardinality(kept) |-> CHOOSE i \in kept : Rank(i) = r]
             S == Shaped(s, rung)
  <1>1. S = [r \in 1..Cardinality(kept) |-> s[CHOOSE i \in kept : Rank(i) = r]]
    BY DEF Shaped, UpTo
  <1> HIDE DEF kept, S
  <1>2. kept \in SUBSET (1..n) /\ Cardinality(kept) \in Nat
    <2>1. kept \in SUBSET (1..n)
      BY DEF kept
    <2> QED
      BY <2>1, UpToGrows
  <1>0. \A i \in kept : i \in Nat
    BY <1>2
  <1>3. \A r \in 1..Cardinality(kept) : pos[r] \in kept /\ Rank(pos[r]) = r
    <2> SUFFICES ASSUME NEW r \in 1..Cardinality(kept)
                 PROVE  pos[r] \in kept /\ Rank(pos[r]) = r
      OBVIOUS
    <2>1. \E i \in kept : Rank(i) = r
      BY <1>2, RankTaken
    <2> QED
      BY <2>1
  <1>4. \A q, r \in 1..Cardinality(kept) : q < r => pos[q] < pos[r]
    <2> SUFFICES ASSUME NEW q \in 1..Cardinality(kept), NEW r \in 1..Cardinality(kept), q < r
                 PROVE  pos[q] < pos[r]
      OBVIOUS
    <2>1. pos[q] \in kept /\ pos[r] \in kept /\ Rank(pos[q]) = q /\ Rank(pos[r]) = r
      BY <1>3
    <2> HIDE DEF pos
    <2>3. pos[q] \in Nat /\ pos[r] \in Nat
      BY <2>1, <1>0
    <2>2. pos[r] <= pos[q] => Rank(pos[r]) <= Rank(pos[q])
      BY <2>1, <2>3, <1>2, RanksOrdered
    <2> QED
      BY <2>1, <2>2, <2>3
  <1>5. \A i \in kept : \E r \in 1..Cardinality(kept) : pos[r] = i
    <2> SUFFICES ASSUME NEW i \in kept
                 PROVE  \E r \in 1..Cardinality(kept) : pos[r] = i
      OBVIOUS
    <2>1. i \in Nat /\ i <= i
      BY <1>2
    <2>2. Rank(i) \in 1..Cardinality(kept)
      BY <2>1, <1>2, RanksOrdered
    <2> DEFINE k == pos[Rank(i)]
    <2>3. k \in kept /\ Rank(k) = Rank(i)
      BY <2>2, <1>3
    <2> HIDE DEF pos, k
    <2>4. k \in Nat
      BY <2>3, <1>2
    <2>5. k = i
      <3>1. CASE k <= i
        BY <3>1, <2>3, <1>2, RanksOrdered
      <3>2. CASE i <= k
        BY <3>2, <2>3, <1>2, RanksOrdered
      <3> QED
        BY <3>1, <3>2, <2>1, <2>4
    <2> QED
      BY <2>2, <2>5 DEF k
  <1>6. DOMAIN S = 1..Cardinality(kept) /\ Len(S) = Cardinality(kept)
    BY <1>1, <1>2
  <1>7. \A r \in DOMAIN S : S[r] = s[pos[r]]
    BY <1>1, <1>6
  <1>8. pos \in [DOMAIN S -> kept]
    BY <1>3, <1>6
  <1> HIDE DEF pos
  <1>9. /\ Len(S) \in Nat /\ DOMAIN S = 1..Len(S)
        /\ \A q, r \in DOMAIN S : q < r => pos[q] < pos[r]
        /\ \A i \in kept : \E r \in DOMAIN S : pos[r] = i
    BY <1>2, <1>4, <1>5, <1>6
  <1>10. \A i \in 1..n : Admits(s[i].length, rung) => i \in kept
    BY DEF kept
  <1> SUFFICES
        /\ pos \in [DOMAIN S -> kept]
        /\ Len(S) \in Nat /\ DOMAIN S = 1..Len(S)
        /\ \A r \in DOMAIN S : S[r] = s[pos[r]]
        /\ \A q, r \in DOMAIN S : q < r => pos[q] < pos[r]
        /\ \A i \in 1..n : Admits(s[i].length, rung) => \E r \in DOMAIN S : pos[r] = i
    BY Zenon DEF kept, S
  <1> QED
    BY <1>7, <1>8, <1>9, <1>10

-------------------------------------------------------------------------------
(* What a pass holds at each of its awaits.                                 *)

Steps == {"idle", "detail", "page", "batches", "atom"}
Ends == {"sent", "answered", "odd", "lost"}

\* The batches that are no longer under way.
Ended(s, l) == {b \in Batches(s) : l[b] # "sent"}

\* The variables' types where the proofs need them.
TypeInv ==
    /\ source \in Seq(Videos) /\ pc \in Steps
    /\ items \in Seq(Videos) /\ page \in Nat /\ token \in Nat
    /\ calls \in Nat /\ moved \in BOOLEAN

CountInv ==
    /\ pc \in {"idle", "detail"} => items = <<>> /\ page = 0 /\ token = 0 /\ calls = 0
    /\ pc = "page" =>
         /\ Len(items) <= MaxItems
         /\ page <= MaxConsecutive /\ calls = 1 + page
         /\ page = 0 => items = <<>> /\ token = 0
    /\ pc = "batches" =>
         /\ Len(items) <= MaxItems
         /\ page <= MaxConsecutive /\ calls = 2 + page + Cardinality(Ended(items, lookups))
         /\ lookups \in [Batches(items) -> Ends]
    /\ pc = "atom" => calls = 0

PassInv == TypeInv /\ CountInv

\* The pages a conversion may turn, and the size of the first.
LEMMA Bounds ==
  /\ MaxConsecutive \in Nat /\ FirstPageSize \in Nat \ {0}
  /\ FirstPageSize <= MaxItems /\ FirstPageSize <= PerCall
PROOF
  <1>1. MaxItems \div PerCall \in Nat
    BY ConversionAssumption, DivideMonotone
  <1> QED
    BY <1>1, ConversionAssumption DEF MaxConsecutive, FirstPageSize, Least

\* A page never asks for more than what is left of the budget.
LEMMA AskedFits ==
  ASSUME TypeInv, CountInv, pc = "page"
  PROVE  Asked \in Nat /\ Len(items) + Asked <= MaxItems /\ Asked <= PerCall
PROOF
  <1>1. Len(items) \in Nat
    BY DEF TypeInv
  <1>2. CASE page = 0
    BY <1>1, <1>2, Bounds DEF CountInv, Asked
  <1>3. CASE page # 0
    BY <1>1, <1>3, ConversionAssumption DEF CountInv, Asked, Least
  <1> QED
    BY <1>2, <1>3

\* What a page brings, whatever became of the playlist since the last.
LEMMA PageFits ==
  ASSUME TypeInv, CountInv, pc = "page"
  PROVE  /\ items \o Cut(source, token, Asked) \in Seq(Videos)
         /\ Len(items \o Cut(source, token, Asked)) <= MaxItems
PROOF
  <1> DEFINE got == Cut(source, token, Asked)
  <1>1. Asked \in Nat /\ Len(items) + Asked <= MaxItems
    BY AskedFits
  <1>2. got \in Seq(Videos) /\ Len(got) <= Asked
    BY <1>1, CutOf DEF TypeInv
  <1>3. items \in Seq(Videos) /\ MaxItems \in Nat
    BY ConversionAssumption DEF TypeInv
  <1> HIDE DEF got
  <1>4. items \o got \in Seq(Videos) /\ Len(items \o got) = Len(items) + Len(got)
    BY <1>2, <1>3
  <1>5. Len(got) \in Nat /\ Len(items) \in Nat
    BY <1>2, <1>3
  <1>6. Len(items \o got) <= MaxItems
    BY <1>1, <1>2, <1>3, <1>4, <1>5
  <1> QED
    BY <1>4, <1>6 DEF got

\* Sorting neither loses nor repeats a position.
LEMMA SortedIs ==
  ASSUME NEW s \in Seq(Videos), NEW p \in OldestFirst(s)
  PROVE  LET t == [i \in DOMAIN s |-> s[p[i]]]
         IN  /\ t \in Seq(Videos) /\ Len(t) = Len(s)
             /\ Mentioned(t) = Mentioned(s)
             /\ \A i, j \in DOMAIN t : i < j => t[i] <= t[j]
             /\ (\A i, j \in DOMAIN s : i # j => s[i] # s[j])
                  => \A i, j \in DOMAIN t : i # j => t[i] # t[j]
PROOF
  <1> DEFINE t == [i \in DOMAIN s |-> s[p[i]]]
  <1>1. /\ p \in [DOMAIN s -> DOMAIN s]
        /\ \A i, j \in DOMAIN s : i # j => p[i] # p[j]
        /\ \A j \in DOMAIN s : \E i \in DOMAIN s : p[i] = j
        /\ \A i, j \in DOMAIN s : i < j => s[p[i]] <= s[p[j]]
    BY DEF OldestFirst, Bijection, Injection, Surjection, IsInjective
  <1>2. DOMAIN s = 1..Len(s) /\ Len(s) \in Nat /\ \A i \in DOMAIN s : s[i] \in Videos
    OBVIOUS
  <1>3. t \in Seq(Videos) /\ Len(t) = Len(s) /\ DOMAIN t = DOMAIN s
    BY <1>1, <1>2
  <1>4. \A i \in DOMAIN s : t[i] = s[p[i]]
    OBVIOUS
  <1> HIDE DEF t
  <1>5. Mentioned(t) = Mentioned(s)
    BY <1>1, <1>3, <1>4 DEF Mentioned
  <1> QED
    BY <1>1, <1>3, <1>4, <1>5 DEF t

\* PassInv holds at first, and every step keeps it.
LEMMA InitPass == Init => PassInv
PROOF
  <1>1. <<>> \in Seq(Videos)
    OBVIOUS
  <1>2. Init => source \in Seq(Videos)
    BY ConversionAssumption DEF Init
  <1>3. Init => TypeInv
    <2> SUFFICES ASSUME Init PROVE TypeInv
      OBVIOUS
    <2>1. pc \in Steps /\ page \in Nat /\ token \in Nat /\ calls \in Nat /\ moved \in BOOLEAN
      BY DEF Init, Steps
    <2>2. items \in Seq(Videos)
      BY <1>1 DEF Init
    <2> QED
      BY <1>2, <2>1, <2>2 DEF TypeInv
  <1>4. Init => CountInv
    BY DEF Init, CountInv
  <1> QED
    BY <1>3, <1>4 DEF PassInv

\* A playlist that changed is one.
LEMMA ChangedIsPlaylist ==
  ASSUME TypeInv, NEW v \in Videos, Publish(v) \/ Withdraw(v)
  PROVE  source' \in Seq(Videos)
PROOF
  <1>1. CASE Publish(v)
    <2>1. source \in Seq(Videos) /\ <<v>> \in Seq(Videos)
      BY DEF TypeInv
    <2>2. source' = <<v>> \o source \/ source' = source \o <<v>>
      BY <1>1 DEF Publish, Changed
    <2> DEFINE one == <<v>>
    <2> HIDE DEF one
    <2>3. one \o source \in Seq(Videos) /\ source \o one \in Seq(Videos)
      BY <2>1 DEF one
    <2> QED
      BY <2>2, <2>3 DEF one
  <1>2. CASE Withdraw(v)
    <2>1. PICK i \in DOMAIN source : source' = RemoveAt(source, i)
      BY <1>2 DEF Withdraw, Changed
    <2>2. source \in Seq(Videos) /\ i \in 1..Len(source)
      BY DEF TypeInv
    <2>3. SubSeq(source, 1, i - 1) \in Seq(Videos) /\ SubSeq(source, i + 1, Len(source)) \in Seq(Videos)
      BY <2>2
    <2> QED
      BY <2>1, <2>3 DEF RemoveAt
  <1> QED
    BY <1>1, <1>2

LEMMA PagePass ==
  ASSUME PassInv, Page PROVE PassInv'
PROOF
  <1> DEFINE all == items \o Cut(source, token, Asked)
  <1>1. TypeInv /\ CountInv /\ pc = "page" /\ calls = 1 + page
    BY DEF PassInv, Page, CountInv
  <1>2. all \in Seq(Videos) /\ Len(all) <= MaxItems /\ Len(all) \in Nat
    BY <1>1, PageFits
  <1>3. /\ calls' = calls + 1 /\ token' = token + Asked /\ UNCHANGED <<source, moved>>
        /\ Asked \in Nat
    BY <1>1, AskedFits DEF Page, upstream
  <1>4. CASE LastPage(token + Asked < Len(source))
    <2>1. PICK p \in OldestFirst(all) : items' = [i \in DOMAIN all |-> all[p[i]]]
      BY <1>4 DEF Page
    <2>2. items' \in Seq(Videos) /\ Len(items') = Len(all)
      <3> HIDE DEF all
      <3> QED
        BY <1>2, <2>1, SortedIs
    <2>3. pc' = "batches" /\ page' = page /\ lookups' = [b \in Batches(all) |-> "sent"]
      BY <1>4 DEF Page
    <2> HIDE DEF all
    <2>4. Batches(items') = Batches(all)
      BY <2>2 DEF Batches
    <2>5. Ended(items', lookups') = {}
      BY <2>3, <2>4 DEF Ended
    <2>6. Cardinality(Ended(items', lookups')) = 0
      BY <2>5, FS_EmptySet
    <2>7. lookups' \in [Batches(items') -> Ends]
      BY <2>3, <2>4 DEF Ends
    <2> QED
      BY <1>1, <1>2, <1>3, <2>2, <2>3, <2>6, <2>7 DEF PassInv, TypeInv, CountInv, Steps
  <1>5. CASE ~LastPage(token + Asked < Len(source))
    <2>1. items' = all /\ page' = page + 1 /\ UNCHANGED <<lookups, pc>>
      BY <1>5 DEF Page
    <2>2. page + 1 <= MaxConsecutive
      BY <1>1, <1>5, Bounds DEF CountInv, LastPage, TypeInv
    <2> HIDE DEF all
    <2> QED
      BY <1>1, <1>2, <1>3, <2>1, <2>2 DEF PassInv, TypeInv, CountInv, Steps
  <1> QED
    BY <1>4, <1>5

LEMMA BatchPass ==
  ASSUME PassInv, Batch PROVE PassInv'
PROOF
  <1>1. PICK b \in DOMAIN lookups, how \in {"answered", "odd", "lost"} : BatchEnds(b, how)
    BY DEF Batch
  <1>2. /\ pc = "batches" /\ lookups[b] = "sent"
        /\ lookups' = [lookups EXCEPT ![b] = how] /\ calls' = calls + 1
        /\ UNCHANGED <<source, pc, items, page, token, moved>>
    BY <1>1 DEF BatchEnds, upstream
  <1>3. lookups \in [Batches(items) -> Ends] /\ calls = 2 + page + Cardinality(Ended(items, lookups))
        /\ Len(items) \in Nat /\ page \in Nat
    BY <1>2 DEF PassInv, CountInv, TypeInv
  <1>4. lookups' \in [Batches(items) -> Ends]
    BY <1>2, <1>3 DEF Ends
  <1>5. Ended(items, lookups') = Ended(items, lookups) \cup {b} /\ b \notin Ended(items, lookups)
    BY <1>1, <1>2, <1>3 DEF Ended
  <1>6. IsFiniteSet(Ended(items, lookups))
    <2>1. IsFiniteSet(Batches(items))
      BY <1>3, BatchesFound
    <2> QED
      BY <2>1, FS_Subset DEF Ended
  <1>7. /\ Cardinality(Ended(items, lookups')) = Cardinality(Ended(items, lookups)) + 1
        /\ Cardinality(Ended(items, lookups)) \in Nat
    BY <1>5, <1>6, FS_AddElement, FS_CardinalityType
  <1>8. /\ Cardinality(Ended(items', lookups')) = Cardinality(Ended(items, lookups)) + 1
        /\ lookups' \in [Batches(items') -> Ends]
    BY <1>2, <1>4, <1>7
  <1> HIDE DEF Ended, Batches
  <1>9. TypeInv'
    BY <1>2, <1>3 DEF PassInv, TypeInv
  <1>10. CountInv'
    BY <1>2, <1>3, <1>7, <1>8 DEF PassInv, CountInv
  <1> QED
    BY <1>9, <1>10 DEF PassInv

LEMMA EndsPass ==
  ASSUME PassInv, PassEnds, source' \in Seq(Videos) PROVE PassInv'
PROOF
  <1>1. <<>> \in Seq(Videos)
    OBVIOUS
  <1> QED
    BY <1>1 DEF PassEnds, PassInv, TypeInv, CountInv, Steps

LEMMA NextPass == PassInv /\ [Next]_vars => PassInv'
PROOF
  <1> SUFFICES ASSUME PassInv, [Next]_vars PROVE PassInv'
    OBVIOUS
  <1> USE DEF PassInv
  <1>0. source \in Seq(Videos)
    BY DEF TypeInv
  <1>1. ASSUME NEW v \in Videos, Publish(v) \/ Withdraw(v) PROVE PassInv'
    <2>1. source' \in Seq(Videos)
      BY <1>1, ChangedIsPlaylist
    <2>2. UNCHANGED <<pc, items, page, token, lookups, calls>> /\ moved' \in BOOLEAN
      BY <1>1 DEF Publish, Withdraw, Changed, fetch
    <2> QED
      BY <2>1, <2>2 DEF TypeInv, CountInv, Ended
  <1>2. CASE StartConversion
    <2>1. <<>> \in Seq(Videos)
      OBVIOUS
    <2> QED
      BY <1>2, <2>1 DEF StartConversion, TypeInv, CountInv, Steps, upstream
  <1>3. CASE Detail
    BY <1>3, Bounds, ConversionAssumption DEF Detail, TypeInv, CountInv, Steps, upstream, fetch
  <1>4. CASE Page
    BY <1>4, PagePass
  <1>5. CASE Batch
    BY <1>5, BatchPass
  <1>6. CASE DetailFails \/ PageFails \/ Convert \/ ConvertFails \/ Degrade \/ DegradeFails
    <2>1. PassEnds /\ source' = source
      BY <1>6 DEF DetailFails, PageFails, Convert, ConvertFails, Degrade, DegradeFails, CallFails,
                  Fails, upstream
    <2> QED
      BY <1>0, <2>1, EndsPass
  <1>7. CASE FetchAtom
    <2>1. Prefix(source, AtomCap) \in Seq(Videos)
      BY <1>0, PrefixOf, ConversionAssumption
    <2> QED
      BY <1>7, <2>1 DEF FetchAtom, TypeInv, CountInv, Steps, upstream
  <1>8. CASE LookUpSome
    BY <1>8 DEF LookUpSome, LookUp, TypeInv, CountInv, upstream, ghosts
  <1>9. CASE Unresolved \/ Probe \/ ProbeFails \/ Serve \/ Expire \/ UNCHANGED vars
    <2>1. UNCHANGED <<source, pc, items, page, token, lookups, calls, moved>>
      BY <1>9 DEF Unresolved, Probe, ProbeFails, Serve, Expire, vars, upstream, fetch, ghosts
    <2> QED
      BY <2>1 DEF TypeInv, CountInv, Ended
  <1> QED
    BY <1>1, <1>2, <1>3, <1>4, <1>5, <1>6, <1>7, <1>8, <1>9 DEF Next

LEMMA PassInvariant == Spec => []PassInv
PROOF
  <1> QED
    BY InitPass, NextPass, PTL DEF Spec

-------------------------------------------------------------------------------
(* Budget and units.                                                        *)

\* No more batches have ended than were sent.
LEMMA EndedBounded ==
  ASSUME Len(items) \in Nat
  PROVE  /\ IsFiniteSet(Batches(items)) /\ Cardinality(Batches(items)) \in Nat
         /\ Cardinality(Ended(items, lookups)) \in Nat
         /\ Cardinality(Ended(items, lookups)) <= Cardinality(Batches(items))
PROOF
  <1>1. IsFiniteSet(Batches(items))
    BY BatchesFound
  <1>2. Ended(items, lookups) \in SUBSET Batches(items)
    BY DEF Ended
  <1> QED
    BY <1>1, <1>2, FS_Subset, FS_CardinalityType

\* What a pass holds and has called stays within what MaxItems needs.
LEMMA PassWithinBudget == PassInv => WithinBudget
PROOF
  <1> SUFFICES ASSUME PassInv PROVE WithinBudget
    OBVIOUS
  <1> DEFINE most == Cardinality(Batches([i \in 1..MaxItems |-> 0]))
             q == MaxItems \div PerCall
  <1>1. /\ MaxItems \in Nat \ {0} /\ PerCall \in Nat \ {0} /\ q \in Nat /\ MaxConsecutive = q + 1
        /\ Len(items) \in Nat /\ page \in Nat
    BY ConversionAssumption, DivideMonotone DEF PassInv, TypeInv, MaxConsecutive
  <1>2. most = (MaxItems + PerCall - 1) \div PerCall /\ most \in Nat
    <2>1. Len([i \in 1..MaxItems |-> 0]) = MaxItems
      BY <1>1
    <2>2. (MaxItems + PerCall - 1) \div PerCall \in Nat
      BY <1>1, DivideMonotone
    <2> QED
      BY <1>1, <2>1, <2>2, BatchesFound
  <1>3. Len(items) <= MaxItems => Cardinality(Batches(items)) <= most
    <2>1. Cardinality(Batches(items)) = (Len(items) + PerCall - 1) \div PerCall
      BY <1>1, BatchesFound
    <2> SUFFICES ASSUME Len(items) <= MaxItems PROVE Cardinality(Batches(items)) <= most
      OBVIOUS
    <2>2. /\ Len(items) + PerCall - 1 \in Nat /\ MaxItems + PerCall - 1 \in Nat
          /\ Len(items) + PerCall - 1 <= MaxItems + PerCall - 1
      BY <1>1
    <2>3. (Len(items) + PerCall - 1) \div PerCall <= (MaxItems + PerCall - 1) \div PerCall
      BY <1>1, <2>2, DivideMonotone
    <2> QED
      BY <1>2, <2>1, <2>3
  <1>4. pc # "atom" => Len(items) <= MaxItems
    BY <1>1 DEF PassInv, TypeInv, CountInv, Steps
  <1> HIDE DEF most, q
  <1>5. calls <= 1 + (q + 2) + most
    <2>1. CASE pc = "batches"
      BY <2>1, <1>1, <1>2, <1>3, EndedBounded DEF PassInv, CountInv
    <2>2. CASE pc = "page"
      BY <2>2, <1>1, <1>2 DEF PassInv, CountInv
    <2>3. CASE pc \in {"idle", "detail", "atom"}
      BY <2>3, <1>1, <1>2 DEF PassInv, CountInv
    <2> QED
      BY <2>1, <2>2, <2>3 DEF PassInv, TypeInv, Steps
  <1> QED
    BY <1>4, <1>5 DEF WithinBudget, most, q

\* However the playlist changes between the calls, a metered conversion keeps no
\* more items than configured and makes no more calls than they need and two pages.
THEOREM ConversionWithinBudget == Spec => []WithinBudget
PROOF
  <1> QED
    BY PassInvariant, PassWithinBudget, PTL

\* Every unit reported to the usage counter was a call, and every call is reported.
THEOREM UnitsAreCalls == Spec => UnitsReported
PROOF
  <1>1. PassInv /\ [Next]_vars => [Convert => feed'.units = calls]_vars
    <2> SUFFICES ASSUME PassInv, Convert PROVE feed'.units = calls
      OBVIOUS
    <2>1. /\ pc = "batches" /\ feed'.units = 1 + (page + 1) + Cardinality(Batches(items))
          /\ \A b \in DOMAIN lookups : lookups[b] # "sent"
      BY DEF Convert, Stored, Units
    <2>2. /\ calls = 2 + page + Cardinality(Ended(items, lookups)) /\ page \in Nat
          /\ DOMAIN lookups = Batches(items) /\ Len(items) \in Nat
      BY <2>1 DEF PassInv, CountInv, TypeInv
    <2>3. Ended(items, lookups) = Batches(items)
      BY <2>1, <2>2 DEF Ended
    <2> QED
      BY <2>1, <2>2, <2>3, EndedBounded
  <1> QED
    BY <1>1, PassInvariant, PTL DEF Spec, UnitsReported

(* The snapshot and the probe.                                              *)

\* A snapshot was taken in the shape the probe asks again, of the playlist that the first
\* page was cut from.
SnapInv ==
    /\ (pc = "page" /\ page # 0) \/ pc = "batches" => snap = Snapshot(seen, FirstPageSize)
    /\ feed.kind = "full" => feed.snap = Snapshot(feed.origin, FirstPageSize)

\* The snapshot stays that of the playlist the first page was cut from.
LEMMA NextSnap == PassInv /\ SnapInv /\ [Next]_vars => SnapInv'
PROOF
  <1> SUFFICES ASSUME PassInv, SnapInv, [Next]_vars PROVE SnapInv'
    OBVIOUS
  <1>1. ASSUME NEW v \in Videos, Publish(v) \/ Withdraw(v) PROVE SnapInv'
    BY <1>1 DEF Publish, Withdraw, Changed, fetch, SnapInv
  <1>2. CASE StartConversion
    BY <1>2 DEF StartConversion, SnapInv
  <1>3. CASE Detail
    BY <1>3 DEF Detail, SnapInv, PassInv, CountInv, fetch
  <1>4. CASE Page
    <2>1. /\ pc = "page" /\ UNCHANGED feed
          /\ snap' = IF page = 0 THEN Snapshot(source, Asked) ELSE snap
          /\ seen' = IF page = 0 THEN source ELSE seen
      BY <1>4 DEF Page
    <2>2. page = 0 => Asked = FirstPageSize
      BY DEF Asked
    <2>3. snap' = Snapshot(seen', FirstPageSize)
      BY <2>1, <2>2 DEF SnapInv
    <2> QED
      BY <2>1, <2>3 DEF SnapInv
  <1>5. CASE Batch
    BY <1>5 DEF Batch, BatchEnds, SnapInv
  <1>6. CASE Convert
    <2>1. pc = "batches" /\ pc' = "idle"
      BY <1>6 DEF Convert, PassEnds
    <2>2. feed'.snap = snap /\ feed'.origin = seen
      BY <1>6 DEF Convert, Stored
    <2> QED
      BY <2>1, <2>2 DEF SnapInv
  <1>7. CASE DetailFails \/ PageFails \/ ConvertFails \/ DegradeFails
    BY <1>7 DEF DetailFails, PageFails, ConvertFails, DegradeFails, CallFails, Fails, PassEnds, SnapInv
  <1>8. CASE Degrade
    BY <1>8 DEF Degrade, Stored, PassEnds, SnapInv
  <1>9. CASE FetchAtom
    BY <1>9 DEF FetchAtom, SnapInv
  <1>10. CASE LookUpSome
    BY <1>10 DEF LookUpSome, LookUp, ghosts, SnapInv
  <1>11. CASE Unresolved \/ Probe \/ ProbeFails \/ Serve \/ UNCHANGED vars
    BY <1>11 DEF Unresolved, Probe, ProbeFails, Serve, vars, fetch, ghosts, SnapInv
  <1>12. CASE Expire
    BY <1>12 DEF Expire, NoFeed, fetch, ghosts, SnapInv
  <1> QED
    BY <1>1, <1>2, <1>3, <1>4, <1>5, <1>6, <1>7, <1>8, <1>9, <1>10, <1>11, <1>12 DEF Next

\* What a probe answers says of the playlist.
LEMMA ProbeStep == SnapInv /\ Probe =>
         /\ verdict' = "changed" => source # feed.origin
         /\ verdict' = "unchanged" =>
              /\ Prefix(source, FirstPageSize) = Prefix(feed.origin, FirstPageSize)
              /\ Len(source) = Len(feed.origin)
PROOF
  <1> SUFFICES ASSUME SnapInv, Probe
               PROVE  /\ verdict' = "changed" => source # feed.origin
                      /\ verdict' = "unchanged" =>
                           /\ Prefix(source, FirstPageSize) = Prefix(feed.origin, FirstPageSize)
                           /\ Len(source) = Len(feed.origin)
    OBVIOUS
  <1>1. feed.snap = Snapshot(feed.origin, FirstPageSize) /\ ProbeSize = FirstPageSize
    BY DEF Probe, SnapInv, ProbeSize, Snapshot
  <1>2. verdict' = "changed" => Snapshot(source, FirstPageSize) # Snapshot(feed.origin, FirstPageSize)
    BY <1>1 DEF Probe, Unchanged
  <1>3. verdict' = "unchanged" => Snapshot(source, FirstPageSize) = Snapshot(feed.origin, FirstPageSize)
    BY <1>1 DEF Probe, Unchanged
  <1>4. Snapshot(source, FirstPageSize) = Snapshot(feed.origin, FirstPageSize)
          => /\ Prefix(source, FirstPageSize) = Prefix(feed.origin, FirstPageSize)
             /\ Len(source) = Len(feed.origin)
    BY DEF Snapshot
  <1> QED
    BY <1>2, <1>3, <1>4

\* A probe compares the playlist with the one the stored feed was made of.
THEOREM ProbeComparesLikeWithLike == Spec => ProbeExact
PROOF
  <1>1. Init => SnapInv
    BY DEF Init, SnapInv, NoFeed
  <1>2. Spec => []SnapInv
    BY <1>1, PassInvariant, NextSnap, PTL DEF Spec
  <1>3. SnapInv /\ [Next]_vars =>
          [Probe =>
             /\ verdict' = "changed" => source # feed.origin
             /\ verdict' = "unchanged" =>
                  /\ Prefix(source, FirstPageSize) = Prefix(feed.origin, FirstPageSize)
                  /\ Len(source) = Len(feed.origin)]_vars
    BY ProbeStep
  <1> QED
    BY <1>2, <1>3, PTL DEF Spec, ProbeExact

(* Guids.                                                                   *)

GuidInv == \A v \in Videos : guids[v] \subseteq {ApiGuid(v)}

Keyed(s) == \A e \in Mentioned(s) : e.guid = ApiGuid(e.video)

\* Shaping leaves out entries and adds none.
LEMMA ShapedMentions ==
  ASSUME NEW n \in Nat, NEW s, DOMAIN s = 1..n, NEW rung
  PROVE  Mentioned(Shaped(s, rung)) = {e \in Mentioned(s) : Admits(e.length, rung)}
PROOF
  <1>1. PICK pos \in [DOMAIN Shaped(s, rung) -> {i \in 1..n : Admits(s[i].length, rung)}] :
           /\ \A r \in DOMAIN Shaped(s, rung) : Shaped(s, rung)[r] = s[pos[r]]
           /\ \A i \in 1..n : Admits(s[i].length, rung)
                              => \E r \in DOMAIN Shaped(s, rung) : pos[r] = i
    BY ShapedKeepsOrder
  <1> HIDE DEF Admits
  <1>2. ASSUME NEW e \in Mentioned(Shaped(s, rung))
        PROVE  e \in Mentioned(s) /\ Admits(e.length, rung)
    <2>1. PICK r \in DOMAIN Shaped(s, rung) : e = Shaped(s, rung)[r]
      BY DEF Mentioned
    <2>2. e = s[pos[r]] /\ pos[r] \in DOMAIN s /\ Admits(s[pos[r]].length, rung)
      BY <1>1, <2>1
    <2> QED
      BY <2>2 DEF Mentioned
  <1>3. ASSUME NEW e \in Mentioned(s), Admits(e.length, rung)
        PROVE  e \in Mentioned(Shaped(s, rung))
    <2>1. PICK i \in 1..n : e = s[i]
      BY DEF Mentioned
    <2>2. PICK r \in DOMAIN Shaped(s, rung) : pos[r] = i
      BY <1>1, <1>3, <2>1
    <2> QED
      BY <1>1, <2>1, <2>2 DEF Mentioned
  <1> QED
    BY <1>2, <1>3

\* Both rungs give an episode the same guid.
LEMMA EpisodesKeyed ==
  ASSUME TypeInv PROVE Keyed(ApiEpisodes) /\ Keyed(AtomEpisodes)
PROOF
  <1> DEFINE api == [i \in DOMAIN items |->
               Episode(items[i], ApiGuid(items[i]),
                       IF items[i] \in Timed THEN LengthOf(items[i]) ELSE "unknown")]
             atom == [i \in DOMAIN items |->
               Episode(items[i], AtomGuid(EntryId(items[i])), lookups[items[i]])]
  <1>1. DOMAIN items = 1..Len(items) /\ Len(items) \in Nat
    BY DEF TypeInv
  <1>2. Keyed(api)
    BY DEF Keyed, Mentioned, Episode
  <1>3. \A v : AtomGuid(EntryId(v)) = ApiGuid(v)
    BY DEF AtomGuid, EntryId, ApiGuid
  <1>4. Keyed(atom)
    BY <1>3 DEF Keyed, Mentioned, Episode
  <1>5. DOMAIN api = 1..Len(items) /\ DOMAIN atom = 1..Len(items)
    BY <1>1
  <1>6. ApiEpisodes = Shaped(api, "api") /\ AtomEpisodes = Shaped(atom, "atom")
    BY DEF ApiEpisodes, AtomEpisodes
  <1> HIDE DEF api, atom
  <1>7. /\ Mentioned(ApiEpisodes) \subseteq Mentioned(api)
        /\ Mentioned(AtomEpisodes) \subseteq Mentioned(atom)
    BY <1>1, <1>5, <1>6, ShapedMentions
  <1> QED
    BY <1>2, <1>4, <1>7 DEF Keyed

\* Storing such a feed adds no other guid.
LEMMA StoredGuids ==
  ASSUME GuidInv, NEW f, Keyed(f.episodes), Stored(f) PROVE GuidInv'
PROOF
  <1> SUFFICES ASSUME NEW v \in Videos PROVE guids'[v] \subseteq {ApiGuid(v)}
    BY DEF GuidInv
  <1>1. guids'[v] = guids[v] \cup {e.guid : e \in {x \in Mentioned(f.episodes) : x.video = v}}
    BY DEF Stored
  <1> QED
    BY <1>1 DEF Keyed, GuidInv

\* Only the two conversions add guids.
LEMMA NextGuid == PassInv /\ GuidInv /\ [Next]_vars => GuidInv'
PROOF
  <1> SUFFICES ASSUME PassInv, GuidInv, [Next]_vars PROVE GuidInv'
    OBVIOUS
  <1>1. CASE Convert
    <2>1. Keyed(ApiEpisodes)
      BY EpisodesKeyed DEF PassInv
    <2> DEFINE f == [kind |-> "full", episodes |-> ApiEpisodes, snap |-> snap,
                     units |-> Units, origin |-> seen]
    <2>2. Stored(f) /\ f.episodes = ApiEpisodes
      BY <1>1 DEF Convert
    <2> HIDE DEF f
    <2> QED
      BY <2>1, <2>2, StoredGuids
  <1>2. CASE Degrade
    <2>1. Keyed(AtomEpisodes)
      BY EpisodesKeyed DEF PassInv
    <2> DEFINE f == [kind |-> "degraded", episodes |-> AtomEpisodes, snap |-> <<>>,
                     units |-> 0, origin |-> <<>>]
    <2>2. Stored(f) /\ f.episodes = AtomEpisodes
      BY <1>2 DEF Degrade
    <2> HIDE DEF f
    <2> QED
      BY <2>1, <2>2, StoredGuids
  <1>3. CASE ~Convert /\ ~Degrade
    <2>1. guids' = guids
      BY <1>3 DEF Next, Publish, Withdraw, Changed, StartConversion, Unresolved, Detail, DetailFails,
           Page, PageFails, CallFails, Fails, Batch, BatchEnds, ConvertFails, FetchAtom, LookUpSome,
           LookUp, DegradeFails, Probe, ProbeFails, Serve, Expire, vars, ghosts
    <2> QED
      BY <2>1 DEF GuidInv
  <1> QED
    BY <1>1, <1>2, <1>3

\* An episode keeps one guid, whatever rungs its feeds came from.
THEOREM OneGuidForGood == Spec => []OneGuidPerEpisode
PROOF
  <1>1. Init => GuidInv
    BY DEF Init, GuidInv
  <1>2. GuidInv => OneGuidPerEpisode
    <2> SUFFICES ASSUME GuidInv, NEW v \in Videos PROVE Cardinality(guids[v]) <= 1
      BY DEF OneGuidPerEpisode
    <2>1. guids[v] = {} \/ guids[v] = {ApiGuid(v)}
      BY DEF GuidInv
    <2> QED
      BY <2>1, FS_EmptySet, FS_Singleton
  <1> QED
    BY <1>1, <1>2, PassInvariant, NextGuid, PTL DEF Spec

-------------------------------------------------------------------------------
(* A conversion during which the playlist holds still.                      *)

\* No playlist lists a video twice.
NoRepeats(s) == \A i, j \in DOMAIN s : i # j => s[i] # s[j]

PlaylistsDistinct == \A s \in Sources : NoRepeats(s)

\* The videos of a finished pagination, oldest first.
InOrder(s) == \A i, j \in DOMAIN s : i < j => s[i] < s[j]

\* As long as the playlist holds still, the pages fetched are its beginning, up to where
\* the next page starts, and that is as far as so many pages can reach.
StillInv ==
    /\ NoRepeats(source)
    /\ pc = "page" /\ page # 0 /\ ~moved =>
         /\ Len(items) = token /\ token <= Len(source)
         /\ \A i \in DOMAIN items : items[i] = source[i]
         /\ page * PerCall <= token \/ token = MaxItems
    /\ pc = "batches" /\ ~moved =>
         /\ Mentioned(items) = Mentioned(Prefix(source, MaxItems))
         /\ InOrder(items)

\* Sequences with the same entries mention the same.
LEMMA MentionedEqual ==
  ASSUME NEW s, NEW t, DOMAIN s = DOMAIN t, \A i \in DOMAIN s : s[i] = t[i]
  PROVE  Mentioned(s) = Mentioned(t)
BY DEF Mentioned

\* Publishing and withdrawing let no video appear twice.
LEMMA PlaylistsStayDistinct ==
  ASSUME TypeInv, NoRepeats(source), NEW v \in Videos, Publish(v) \/ Withdraw(v)
  PROVE  NoRepeats(source')
PROOF
  <1>1. source \in Seq(Videos) /\ Len(source) \in Nat /\ DOMAIN source = 1..Len(source)
    BY DEF TypeInv
  <1>2. CASE Publish(v)
    <2>1. \A i \in DOMAIN source : source[i] # v
      BY <1>2 DEF Publish, Mentioned
    <2> DEFINE one == <<v>>
    <2>2. one \in Seq(Videos) /\ Len(one) = 1 /\ one[1] = v
      OBVIOUS
    <2>3. source' = one \o source \/ source' = source \o one
      BY <1>2 DEF Publish, Changed
    <2> HIDE DEF one
    <2>6. /\ one \o source \in Seq(Videos) /\ Len(one \o source) = Len(source) + 1
          /\ \A i \in 1..(Len(source) + 1) :
               (one \o source)[i] = IF i <= 1 THEN one[i] ELSE source[i - 1]
      <3>1. /\ one \o source \in Seq(Videos) /\ Len(one \o source) = Len(one) + Len(source)
            /\ \A i \in 1..(Len(one) + Len(source)) :
                 (one \o source)[i] = IF i <= Len(one) THEN one[i] ELSE source[i - Len(one)]
        BY <1>1, <2>2, ConcatProperties
      <3> QED
        BY <1>1, <2>2, <3>1
    <2>7. /\ source \o one \in Seq(Videos) /\ Len(source \o one) = Len(source) + 1
          /\ \A i \in 1..(Len(source) + 1) :
               (source \o one)[i] = IF i <= Len(source) THEN source[i] ELSE one[i - Len(source)]
      <3>1. /\ source \o one \in Seq(Videos) /\ Len(source \o one) = Len(source) + Len(one)
            /\ \A i \in 1..(Len(source) + Len(one)) :
                 (source \o one)[i] = IF i <= Len(source) THEN source[i] ELSE one[i - Len(source)]
        BY <1>1, <2>2, ConcatProperties
      <3> QED
        BY <2>2, <3>1
    <2>4. CASE source' = one \o source
      <3>1. /\ DOMAIN source' = 1..(Len(source) + 1)
            /\ \A i \in 1..(Len(source) + 1) : source'[i] = IF i = 1 THEN v ELSE source[i - 1]
        BY <1>1, <2>2, <2>4, <2>6
      <3> QED
        BY <1>1, <2>1, <3>1 DEF NoRepeats
    <2>5. CASE source' = source \o one
      <3>1. /\ DOMAIN source' = 1..(Len(source) + 1)
            /\ \A i \in 1..(Len(source) + 1) :
                 source'[i] = IF i = Len(source) + 1 THEN v ELSE source[i]
        BY <1>1, <2>2, <2>5, <2>7
      <3> QED
        BY <1>1, <2>1, <3>1 DEF NoRepeats
    <2> QED
      BY <2>3, <2>4, <2>5
  <1>3. CASE Withdraw(v)
    <2>1. PICK k \in DOMAIN source : source' = RemoveAt(source, k)
      BY <1>3 DEF Withdraw, Changed
    <2> DEFINE front == SubSeq(source, 1, k - 1)
               back == SubSeq(source, k + 1, Len(source))
    <2>2. /\ front \in Seq(Videos) /\ Len(front) = k - 1
          /\ \A i \in 1..(k - 1) : front[i] = source[i]
          /\ back \in Seq(Videos) /\ Len(back) = Len(source) - k
          /\ \A i \in 1..(Len(source) - k) : back[i] = source[i + k]
      BY <1>1
    <2>3. source' = front \o back /\ k \in 1..Len(source)
      BY <1>1, <2>1 DEF RemoveAt
    <2> HIDE DEF front, back
    <2>5. /\ front \o back \in Seq(Videos) /\ Len(front \o back) = Len(front) + Len(back)
          /\ \A i \in 1..(Len(front) + Len(back)) :
               (front \o back)[i] = IF i <= Len(front) THEN front[i] ELSE back[i - Len(front)]
      BY <2>2, ConcatProperties
    <2>6. Len(front) = k - 1 /\ Len(front) + Len(back) = Len(source) - 1
      BY <1>1, <2>2, <2>3
    <2>4. /\ DOMAIN source' = 1..(Len(source) - 1)
          /\ \A i \in 1..(Len(source) - 1) :
               source'[i] = IF i <= k - 1 THEN source[i] ELSE source[i + 1]
      <3>1. \A i \in 1..(Len(source) - 1) : ~(i <= k - 1) =>
               i - (k - 1) \in 1..(Len(source) - k) /\ i - (k - 1) + k = i + 1
        BY <1>1, <2>3
      <3> QED
        <4> DEFINE both == front \o back
        <4> HIDE DEF both
        <4>1. DOMAIN both = 1..(Len(source) - 1)
          <5>1. both \in Seq(Videos) /\ Len(both) = Len(source) - 1
            BY <2>5, <2>6 DEF both
          <5> QED
            BY <5>1
        <4>2. ASSUME NEW i \in 1..(Len(source) - 1)
              PROVE  both[i] = IF i <= k - 1 THEN source[i] ELSE source[i + 1]
          <5>1. both[i] = IF i <= k - 1 THEN front[i] ELSE back[i - (k - 1)]
            BY <2>5, <2>6 DEF both
          <5>2. i <= k - 1 => front[i] = source[i]
            BY <1>1, <2>2, <2>3
          <5>3. ~(i <= k - 1) => back[i - (k - 1)] = source[i + 1]
            BY <2>2, <3>1
          <5> QED
            BY <5>1, <5>2, <5>3
        <4> QED
          BY <2>3, <4>1, <4>2 DEF both
    <2> SUFFICES ASSUME NEW i \in DOMAIN source', NEW j \in DOMAIN source', i # j
                 PROVE  source'[i] # source'[j]
      BY DEF NoRepeats
    <2> DEFINE was(n) == IF n <= k - 1 THEN n ELSE n + 1
    <2>7. source'[i] = source[was(i)] /\ source'[j] = source[was(j)]
      BY <2>4
    <2>8. was(i) \in DOMAIN source /\ was(j) \in DOMAIN source /\ was(i) # was(j)
      <3>1. i \in 1..(Len(source) - 1) /\ j \in 1..(Len(source) - 1)
        BY <2>4
      <3> QED
        BY <1>1, <2>3, <3>1
    <2> QED
      BY <2>7, <2>8 DEF NoRepeats
  <1> QED
    BY <1>2, <1>3

\* One more page of a playlist that held still.
LEMMA StillPage ==
  ASSUME PassInv, StillInv, Page, ~moved
  PROVE  LET all == items \o Cut(source, token, Asked)
         IN  /\ token <= Len(source)
             /\ all \in Seq(Videos) /\ Len(all) = Least(token + Asked, Len(source))
             /\ \A i \in DOMAIN all : all[i] = source[i]
             /\ token + Asked <= MaxItems
             /\ (page + 1) * PerCall <= token + Asked \/ token + Asked = MaxItems
PROOF
  <1> DEFINE got == Cut(source, token, Asked)
             all == items \o got
  <1>1. /\ TypeInv /\ CountInv /\ pc = "page"
        /\ source \in Seq(Videos) /\ items \in Seq(Videos) /\ token \in Nat /\ page \in Nat
        /\ MaxItems \in Nat \ {0} /\ PerCall \in Nat \ {0}
    BY ConversionAssumption DEF PassInv, Page, TypeInv
  <1>2. Asked \in Nat /\ Len(items) + Asked <= MaxItems
    BY <1>1, AskedFits
  <1>3. Len(items) = token /\ token <= Len(source) /\ \A i \in DOMAIN items : items[i] = source[i]
    <2>1. CASE page = 0
      BY <1>1, <2>1 DEF CountInv
    <2>2. CASE page # 0
      BY <1>1, <2>2 DEF StillInv
    <2> QED
      BY <2>1, <2>2
  <1>4. (page + 1) * PerCall <= token + Asked \/ token + Asked = MaxItems
    <2>1. CASE page = 0
      BY <1>1, <2>1 DEF CountInv, Asked, FirstPageSize, Least
    <2>2. CASE page # 0
      <3>1. page * PerCall <= token \/ token = MaxItems
        BY <1>1, <2>2 DEF StillInv
      <3>2. Asked = PerCall \/ token + Asked = MaxItems
        BY <1>1, <1>3, <2>2 DEF Asked, Least
      <3>3. (page + 1) * PerCall = page * PerCall + PerCall /\ page * PerCall \in Nat
        BY <1>1
      <3> HIDE DEF Asked
      <3> QED
        BY <1>1, <1>2, <1>3, <3>1, <3>2, <3>3
    <2> QED
      BY <2>1, <2>2
  <1>5. /\ got \in Seq(Videos) /\ Len(got) = Least(token + Asked, Len(source)) - token
        /\ \A i \in 1..(Least(token + Asked, Len(source)) - token) : got[i] = source[token + i]
    BY <1>1, <1>2, <1>3, CutOf
  <1>6. Least(token + Asked, Len(source)) \in Nat /\ token <= Least(token + Asked, Len(source))
    BY <1>1, <1>2, <1>3 DEF Least
  <1> HIDE DEF got
  <1>7. /\ all \in Seq(Videos) /\ Len(all) = Least(token + Asked, Len(source))
        /\ \A i \in 1..Len(all) : all[i] = IF i <= token THEN items[i] ELSE got[i - token]
    BY <1>1, <1>3, <1>5, <1>6
  <1>8. \A i \in DOMAIN all : all[i] = source[i]
    <2> HIDE DEF all
    <2> SUFFICES ASSUME NEW i \in DOMAIN all PROVE all[i] = source[i]
      OBVIOUS
    <2>1. i \in 1..Len(all)
      BY <1>7
    <2>2. CASE i <= token
      <3>1. i \in DOMAIN items
        BY <1>1, <1>3, <2>1, <2>2, <1>6, <1>7
      <3> QED
        BY <1>3, <1>7, <2>1, <2>2, <3>1
    <2>3. CASE ~(i <= token)
      <3>1. i - token \in 1..(Least(token + Asked, Len(source)) - token) /\ token + (i - token) = i
        BY <1>1, <1>6, <1>7, <2>1, <2>3
      <3> QED
        BY <1>5, <1>7, <2>1, <2>3, <3>1
    <2> QED
      BY <2>2, <2>3
  <1> QED
    BY <1>1, <1>2, <1>3, <1>4, <1>7, <1>8 DEF got

\* The last page a conversion may ask for reaches what it may keep.
LEMMA EnoughPages == (MaxConsecutive + 1) * PerCall > MaxItems
PROOF
  <1> DEFINE q == MaxItems \div PerCall
  <1>1. MaxItems \in Nat \ {0} /\ PerCall \in Nat \ {0}
    BY ConversionAssumption
  <1>2. q \in Nat /\ MaxItems < q * PerCall + PerCall
    BY <1>1
  <1>3. MaxConsecutive = q + 1
    BY DEF MaxConsecutive
  <1> HIDE DEF q
  <1>4. (q + 1 + 1) * PerCall = q * PerCall + PerCall + PerCall
    BY <1>1, <1>2
  <1>5. q * PerCall \in Nat
    BY <1>1, <1>2
  <1> QED
    BY <1>1, <1>2, <1>3, <1>4, <1>5

\* The pages of a playlist that holds still join up, and the last one reaches
\* MaxItems or the playlist's end.
LEMMA PageStill ==
  ASSUME PassInv, StillInv, Page PROVE StillInv'
PROOF
  <1> DEFINE all == items \o Cut(source, token, Asked)
  <1>1. /\ TypeInv /\ CountInv /\ pc = "page"
        /\ source \in Seq(Videos) /\ token \in Nat /\ page \in Nat /\ Asked \in Nat
        /\ MaxItems \in Nat \ {0} /\ PerCall \in Nat \ {0}
        /\ token' = token + Asked /\ UNCHANGED <<source, moved>>
    <2>1. TypeInv /\ CountInv /\ pc = "page"
      BY DEF PassInv, Page
    <2> QED
      BY <2>1, AskedFits, ConversionAssumption DEF TypeInv, Page, upstream
  <1>2. NoRepeats(source')
    BY <1>1 DEF StillInv
  <1>3. CASE moved
    BY <1>1, <1>2, <1>3 DEF StillInv
  <1>4. CASE ~moved
    <2>1. /\ token <= Len(source)
          /\ all \in Seq(Videos) /\ Len(all) = Least(token + Asked, Len(source))
          /\ \A i \in DOMAIN all : all[i] = source[i]
          /\ token + Asked <= MaxItems
          /\ (page + 1) * PerCall <= token + Asked \/ token + Asked = MaxItems
      BY <1>4, StillPage
    <2>2. CASE ~LastPage(token + Asked < Len(source))
      <3>1. items' = all /\ page' = page + 1 /\ pc' = "page" /\ token + Asked < Len(source)
        BY <1>1, <2>2 DEF Page, LastPage
      <3> HIDE DEF all
      <3>2. Len(all) = token + Asked
        BY <1>1, <2>1, <3>1 DEF Least
      <3> QED
        BY <1>1, <1>2, <2>1, <3>1, <3>2 DEF StillInv
    <2>3. CASE LastPage(token + Asked < Len(source))
      <3>1. pc' = "batches"
        BY <2>3 DEF Page
      <3>2. PICK p \in OldestFirst(all) : items' = [i \in DOMAIN all |-> all[p[i]]]
        BY <2>3 DEF Page
      <3>3. Len(all) = Least(MaxItems, Len(source))
        <4>1. CASE ~(token + Asked < Len(source))
          BY <1>1, <2>1, <4>1 DEF Least
        <4>2. CASE page = MaxConsecutive
          <5>1. (page + 1) * PerCall > MaxItems
            BY <1>1, <4>2, EnoughPages
          <5>2. token + Asked = MaxItems
            BY <1>1, <2>1, <5>1
          <5> QED
            BY <2>1, <5>2
        <4> QED
          BY <2>3, <4>1, <4>2 DEF LastPage
      <3> HIDE DEF all
      <3>4. DOMAIN all = 1..Len(all) /\ DOMAIN source = 1..Len(source) /\ Len(all) \in Nat
            /\ DOMAIN all \subseteq DOMAIN source
        BY <1>1, <2>1, <3>3 DEF Least
      <3>5. Mentioned(all) = Mentioned(Prefix(source, MaxItems))
        <4>1. /\ Prefix(source, MaxItems) \in Seq(Videos)
              /\ Len(Prefix(source, MaxItems)) = Least(MaxItems, Len(source))
              /\ \A i \in 1..Least(MaxItems, Len(source)) : Prefix(source, MaxItems)[i] = source[i]
          BY <1>1, PrefixOf
        <4> DEFINE first == Prefix(source, MaxItems)
        <4> HIDE DEF first
        <4>2. DOMAIN first = DOMAIN all /\ \A i \in DOMAIN all : all[i] = first[i]
          BY <2>1, <3>3, <3>4, <4>1 DEF first
        <4> QED
          BY <4>2, MentionedEqual DEF first
      <3>6. \A i, j \in DOMAIN all : i # j => all[i] # all[j]
        BY <2>1, <3>4 DEF StillInv, NoRepeats
      <3> DEFINE t == [i \in DOMAIN all |-> all[p[i]]]
      <3>9. /\ t \in Seq(Videos)
            /\ Mentioned(t) = Mentioned(all)
            /\ \A i, j \in DOMAIN t : i < j => t[i] <= t[j]
            /\ \A i, j \in DOMAIN t : i # j => t[i] # t[j]
        <4>1. all \in Seq(Videos)
          BY <2>1
        <4> QED
          BY <3>2, <3>6, <4>1, SortedIs DEF t
      <3>10. items' = t
        BY <3>2
      <3> HIDE DEF t
      <3>7. /\ items' \in Seq(Videos)
            /\ Mentioned(items') = Mentioned(all)
            /\ \A i, j \in DOMAIN items' : i < j => items'[i] <= items'[j]
            /\ \A i, j \in DOMAIN items' : i # j => items'[i] # items'[j]
        BY <3>9, <3>10
      <3>8. InOrder(items')
        <4>1. \A i \in DOMAIN items' : i \in Nat /\ items'[i] \in Nat
          <5>1. Len(items') \in Nat /\ DOMAIN items' = 1..Len(items') /\ \A i \in DOMAIN items' : items'[i] \in Videos
            BY <3>7
          <5>2. \A v \in Videos : v \in Nat
            BY ConversionAssumption
          <5> QED
            BY <5>1, <5>2
        <4> QED
          BY <3>7, <4>1 DEF InOrder
      <3> QED
        BY <1>1, <1>2, <3>1, <3>5, <3>7, <3>8 DEF StillInv
    <2> QED
      BY <2>2, <2>3
  <1> QED
    BY <1>3, <1>4

\* The pages of a playlist that holds still stay its beginning.
LEMMA NextStill == PassInv /\ StillInv /\ [Next]_vars => StillInv'
PROOF
  <1> SUFFICES ASSUME PassInv, StillInv, [Next]_vars PROVE StillInv'
    OBVIOUS
  <1>1. ASSUME NEW v \in Videos, Publish(v) \/ Withdraw(v) PROVE StillInv'
    <2>1. NoRepeats(source')
      BY <1>1, PlaylistsStayDistinct DEF PassInv, StillInv
    <2>2. pc' = pc /\ moved' = (pc # "idle")
      BY <1>1 DEF Publish, Withdraw, Changed
    <2> QED
      BY <2>1, <2>2 DEF StillInv
  <1>2. CASE Page
    BY <1>2, PageStill
  <1>3. CASE Batch
    BY <1>3 DEF Batch, BatchEnds, StillInv, upstream
  <1>4. CASE Detail
    BY <1>4 DEF Detail, StillInv, upstream, fetch, PassInv, CountInv
  <1>5. CASE StartConversion \/ FetchAtom \/ LookUpSome
    BY <1>5 DEF StartConversion, FetchAtom, LookUpSome, LookUp, StillInv, upstream
  <1>6. CASE DetailFails \/ PageFails \/ Convert \/ ConvertFails \/ Degrade \/ DegradeFails
    BY <1>6 DEF DetailFails, PageFails, Convert, ConvertFails, Degrade, DegradeFails, CallFails,
                Fails, PassEnds, StillInv, upstream
  <1>7. CASE Unresolved \/ Probe \/ ProbeFails \/ Serve \/ Expire \/ UNCHANGED vars
    BY <1>7 DEF Unresolved, Probe, ProbeFails, Serve, Expire, vars, StillInv, upstream, fetch, ghosts
  <1> QED
    BY <1>1, <1>2, <1>3, <1>4, <1>5, <1>6, <1>7 DEF Next

\* What a conversion makes of its items once every batch was answered.
LEMMA CompleteShape ==
  ASSUME PassInv, pc = "batches", InOrder(items),
         \A b \in DOMAIN lookups : lookups[b] = "answered"
  PROVE  LET videos == [i \in DOMAIN ApiEpisodes |-> ApiEpisodes[i].video]
         IN  /\ Mentioned(videos) = {v \in Mentioned(items) :
                                       v \notin Untimed /\ ~(FilterShorts /\ v \in Shorts)}
             /\ \A i, j \in DOMAIN videos : i < j => videos[i] < videos[j]
PROOF
  <1> DEFINE api == [i \in DOMAIN items |->
               Episode(items[i], ApiGuid(items[i]),
                       IF items[i] \in Timed THEN LengthOf(items[i]) ELSE "unknown")]
             videos == [i \in DOMAIN ApiEpisodes |-> ApiEpisodes[i].video]
             good(v) == v \notin Untimed /\ ~(FilterShorts /\ v \in Shorts)
  <1>1. /\ Len(items) \in Nat /\ DOMAIN items = 1..Len(items)
        /\ lookups \in [Batches(items) -> Ends]
    BY DEF PassInv, TypeInv, CountInv
  <1>2. \A i \in DOMAIN items : lookups[BatchOf(i)] = "answered"
    BY <1>1, BatchesFound
  <1>3. Timed = Mentioned(items) \ Untimed
    BY <1>2 DEF Timed, Mentioned
  <1>4. \A i \in DOMAIN items : items[i] \in Timed <=> items[i] \notin Untimed
    BY <1>3 DEF Mentioned
  <1>5. /\ DOMAIN api = DOMAIN items
        /\ \A i \in DOMAIN items : api[i].video = items[i] /\ (Admits(api[i].length, "api") <=> good(items[i]))
    BY <1>4 DEF Episode, Admits, LengthOf
  <1>6. ApiEpisodes = Shaped(api, "api")
    BY DEF ApiEpisodes
  <1> HIDE DEF api
  <1>7. PICK pos \in [DOMAIN ApiEpisodes -> {i \in DOMAIN items : Admits(api[i].length, "api")}] :
           /\ Len(ApiEpisodes) \in Nat /\ DOMAIN ApiEpisodes = 1..Len(ApiEpisodes)
           /\ \A r \in DOMAIN ApiEpisodes : ApiEpisodes[r] = api[pos[r]]
           /\ \A q, r \in DOMAIN ApiEpisodes : q < r => pos[q] < pos[r]
           /\ \A i \in DOMAIN items : Admits(api[i].length, "api")
                              => \E r \in DOMAIN ApiEpisodes : pos[r] = i
    BY <1>1, <1>5, <1>6, ShapedKeepsOrder
  <1>8. /\ DOMAIN videos = DOMAIN ApiEpisodes
        /\ \A r \in DOMAIN videos : pos[r] \in DOMAIN items /\ videos[r] = items[pos[r]] /\ good(items[pos[r]])
    BY <1>5, <1>7
  <1> HIDE DEF videos
  <1>9. \A i, j \in DOMAIN videos : i < j => videos[i] < videos[j]
    BY <1>7, <1>8 DEF InOrder
  <1>10. ASSUME NEW v \in Mentioned(videos) PROVE v \in Mentioned(items) /\ good(v)
    BY <1>8 DEF Mentioned
  <1>11. ASSUME NEW v \in Mentioned(items), good(v) PROVE v \in Mentioned(videos)
    <2>1. PICK i \in DOMAIN items : items[i] = v
      BY DEF Mentioned
    <2>2. PICK r \in DOMAIN ApiEpisodes : pos[r] = i
      BY <1>5, <1>7, <1>11, <2>1
    <2> QED
      BY <1>8, <2>1, <2>2 DEF Mentioned
  <1>12. Mentioned(videos) = {v \in Mentioned(items) : good(v)}
    BY <1>10, <1>11
  <1> QED
    BY <1>9, <1>12 DEF videos

\* A conversion that nothing disturbed has each of the first MaxItems videos that can be
\* shaped, once, oldest first.
THEOREM UndisturbedConversionComplete ==
  ASSUME PlaylistsDistinct PROVE Spec => UndisturbedFeedComplete
PROOF
  <1>1. Init => StillInv
    BY DEF Init, StillInv, PlaylistsDistinct
  <1>2. Spec => []StillInv
    BY <1>1, PassInvariant, NextStill, PTL DEF Spec
  <1>3. PassInv /\ StillInv /\ [Next]_vars =>
          [(/\ Convert /\ ~moved
            /\ \A b \in DOMAIN lookups : lookups[b] = "answered") =>
             LET videos == [i \in DOMAIN feed'.episodes |-> feed'.episodes[i].video]
             IN  /\ Mentioned(videos) = {v \in Mentioned(Prefix(source, MaxItems)) :
                                           v \notin Untimed /\ ~(FilterShorts /\ v \in Shorts)}
                 /\ \A i, j \in DOMAIN videos : i < j => videos[i] < videos[j]]_vars
    <2> SUFFICES ASSUME PassInv, StillInv, Convert, ~moved,
                        \A b \in DOMAIN lookups : lookups[b] = "answered"
                 PROVE  LET videos == [i \in DOMAIN feed'.episodes |-> feed'.episodes[i].video]
             IN  /\ Mentioned(videos) = {v \in Mentioned(Prefix(source, MaxItems)) :
                                           v \notin Untimed /\ ~(FilterShorts /\ v \in Shorts)}
                 /\ \A i, j \in DOMAIN videos : i < j => videos[i] < videos[j]
      OBVIOUS
    <2>1. pc = "batches" /\ feed'.episodes = ApiEpisodes
      BY DEF Convert, Stored
    <2>2. InOrder(items) /\ Mentioned(items) = Mentioned(Prefix(source, MaxItems))
      BY <2>1 DEF StillInv
    <2> QED
      BY <2>1, <2>2, CompleteShape
  <1> QED
    BY <1>2, <1>3, PassInvariant, PTL DEF Spec, UndisturbedFeedComplete
===============================================================================
