------------------------- MODULE MCDelayedNotifier -------------------------
(* DelayedNotifier for TLC: symmetric workers and requests.                *)
EXTENDS DelayedNotifier, TLC

SystemSymmetry ==
    Permutations(Ids) \cup Permutations(Workers) \cup Permutations(Requests)
=============================================================================
