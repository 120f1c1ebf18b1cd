---------------------------- MODULE MCFeedServing ----------------------------
(***************************************************************************)
(* FeedServing for TLC.  The map references at most one lock per feed and  *)
(* a worker at most one, so with this many a new one is always to be had.  *)
(* Locks are numbered and chosen by number, so they are not symmetric;     *)
(* requests are, and so are feeds that are all metered.                    *)
(***************************************************************************)
EXTENDS FeedServing, TLC

EnoughLocks == 1..(Cardinality(Feeds) + Cardinality(Workers))

Alike == Permutations(Requests) \cup Permutations(Feeds)
===============================================================================
