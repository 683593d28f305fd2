---------------------------- MODULE MCRateLimit ----------------------------
(* A small instance of RateLimit alone for TLC: a route with two limits.   *)
EXTENDS RateLimit, TLC

TwoLimits == 1..2
TwoAmounts == <<3, 7>>
TwoPeriods == <<2, 6>>
=============================================================================
