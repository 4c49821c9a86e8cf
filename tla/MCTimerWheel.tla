----------------------------- MODULE MCTimerWheel -----------------------------
(* TimerWheel for TLC: a wheel of few slots and waits of more than two     *)
(* turns, so that entries of one slot are turns apart.                     *)
EXTENDS TimerWheel, TLC

CONSTANTS w1, w2, w3

MCWaiters == {w1, w2, w3}
Alike == Permutations(MCWaiters)
==============================================================================
