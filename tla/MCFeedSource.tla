---------------------------- MODULE MCFeedSource ----------------------------
(***************************************************************************)
(* FeedSource for TLC: two entries that share an item id, one without a    *)
(* link, and a window that is wider than the cap.                          *)
(***************************************************************************)
EXTENDS FeedSource, TLC

MCEntries == {"a", "repost", "b", "linkless"}
MCKeys == {"a", "b", "linkless"}
MCKeyOf == [e \in MCEntries |-> IF e = "repost" THEN "a" ELSE e]
=============================================================================
