----------------------------- MODULE MCDelayQueue -----------------------------
(* DelayQueue for TLC: a scheduled_at in the past, one half a millisecond  *)
(* away and one further away than a retry's backoff.                       *)
EXTENDS DelayQueue

PastNearFar == {-1, 1, 5}
=============================================================================
