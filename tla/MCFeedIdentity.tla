----------------------------- MODULE MCFeedIdentity -----------------------------
(***************************************************************************)
(* FeedIdentity for TLC: a handle, a channel, and two urls of one other    *)
(* site whose queries are joined to the same text.                         *)
(***************************************************************************)
EXTENDS FeedIdentity

CONSTANTS A, B, h, p, q, a1, a2

YouTube(form, name, page) ==
  [provider |-> "youtube", form |-> form, name |-> name, tail |-> FALSE, sub |-> "www",
   page |-> page, query |-> << >>, spelling |-> "plain"]

Site(name, query) ==
  [provider |-> "generic", form |-> "other", name |-> name, tail |-> FALSE, sub |-> "",
   page |-> "https://site/feed", query |-> query, spelling |-> "plain"]

\* The queries are ?tag=a&user=b and ?tag=a%26user=b.
Subscribed ==
  {YouTube("handle", h, "https://youtube.com/@h"),
   YouTube("channel", A, "https://youtube.com/channel/A"),
   Site(p, << <<"tag=a">>, <<"user=b">> >>), Site(q, << <<"tag=a", "user=b">> >>)}

Alike == Permutations(Actors)
===============================================================================
