----------------------------- MODULE MCRecovery -----------------------------
(* A small instance of Recovery for TLC: two workers, and two limits of a  *)
(* route, small but such that a burst gets through around a window's end.  *)
EXTENDS Recovery, TLC

TwoLimits == 1..2
SmallAmounts == <<1, 2>>
SmallPeriods == <<1, 3>>
=============================================================================
