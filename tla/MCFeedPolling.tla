---------------------------- MODULE MCFeedPolling -----------------------------
(* FeedPolling for TLC. *)
EXTENDS FeedPolling

TwoContents == {"a", "b"}
TwoVersions == {"v1", "v2"}
BothKinds == {"etag", "date"}
===============================================================================
