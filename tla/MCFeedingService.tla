-------------------------- MODULE MCFeedingService --------------------------
(* Small instances of FeedingService for TLC. *)
EXTENDS FeedingService, TLC

CONSTANTS c1, c2, k1, k2

(* Two calls with the same key, two calls with keys of their own *)
SameKey == (c1 :> k1) @@ (c2 :> k1)
OwnKeys == (c1 :> k1) @@ (c2 :> k2)
=============================================================================
