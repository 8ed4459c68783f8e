----------------------------- MODULE MCMonitor -----------------------------
(* Three endpoints, codes on either side of 400, times of either parity.  *)
EXTENDS Monitor, TLC

CONSTANTS e1, e2, e3

MCSymmetry == Permutations(Endpoints)
=============================================================================
