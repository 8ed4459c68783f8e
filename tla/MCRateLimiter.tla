--------------------------- MODULE MCRateLimiter ---------------------------
(* One key allowed two requests in three ticks, one allowed one in two.    *)
EXTENDS RateLimiter, TLC

CONSTANTS k1, k2

MCLimit == k1 :> 2 @@ k2 :> 1
MCWindow == k1 :> 3 @@ k2 :> 2
============================================================================
