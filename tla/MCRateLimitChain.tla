-------------------------- MODULE MCRateLimitChain --------------------------
(* The chain with two requests in flight and limits reached in a few steps. *)
EXTENDS RateLimitChain

CONSTANTS p, q, u, e, r1, r2

MCKeys == {GlobalKey} \cup {IPKey(ip) : ip \in IPs}
            \cup {AnonymousKey(ip) : ip \in IPs} \cup {UserKey(user) : user \in Users}
            \cup UNION {APIKeys(x) : x \in Endpoints}

\* Two requests in all within two ticks, one within a tick for every other key.
MCLimit == [k \in MCKeys |-> IF k[1] = "global" THEN 2 ELSE 1]
MCWindow == [k \in MCKeys |-> IF k[1] = "global" THEN 2 ELSE 1]
=============================================================================
