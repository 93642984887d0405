----------------------------- MODULE MCCrawler -----------------------------
(* A small instance of Crawler for TLC.                                    *)
EXTENDS Crawler

CONSTANTS root, u1, u2, u3, u4

MCUrls == {root, u1, u2, u3, u4}

(* Links that overlap, so that a page is reached on paths of different     *)
(* lengths, one back to the target and one set larger than the room left.  *)
MCLinkSets ==
  {{}, {u1}, {u1, u2}, {u2, u3}, {u3, u4}, {root, u4}, {u2, u3, u4}}
=============================================================================
