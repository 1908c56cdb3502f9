------------------------------ MODULE MCFeeds ------------------------------
(* Feeds for TLC: turns are alike, and so are the currencies and customers    *)
(* beyond the first, which is the dollar (keep_warm) or anyone.               *)
EXTENDS Feeds, TLC

SameCallers == Permutations(Callers)
=============================================================================
