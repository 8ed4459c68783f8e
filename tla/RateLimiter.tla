---------------------------- MODULE RateLimiter ----------------------------
(***************************************************************************)
(* internal/middleware/ratelimit/ratelimit.go: MemoryRateLimiter.          *)
(*                                                                         *)
(* The limiters of the gateway differ in their limit and window only, and  *)
(* their keys are disjoint, so one function over all the keys stands for   *)
(* all the limiters.  Allow and Reset run under the limiter's mutex and    *)
(* read the clock inside it: each is one step, and the times recorded for  *)
(* a key never decrease.  A recorded time carries a number, because two    *)
(* requests may be recorded at the same reading of the clock and the slice *)
(* keeps both.                                                             *)
(***************************************************************************)
EXTENDS Integers, FiniteSets

CONSTANTS
  Keys,    \* the keys of all the limiters
  Limit,   \* the limit of the limiter a key belongs to
  Window,  \* and its window
  MaxTime  \* bound: the last reading of the clock

ASSUME LimiterAssumption ==
  /\ Limit \in [Keys -> Nat]
  /\ Window \in [Keys -> Nat]
  /\ MaxTime \in Nat

VARIABLES
  now,       \* time.Now(), monotonic
  requests,  \* the times recorded for each key
  granted    \* history: every grant of each key since its last reset

limiterVars == <<requests, granted>>

Grants == [id : Nat, at : Nat]

\* The grants of k in the window that ends at t, its start excluded.
InWindow(k, t) == {g \in granted[k] : t - Window[k] < g.at /\ g.at <= t}

----------------------------------------------------------------------------

LimiterInit ==
  /\ now = 0
  /\ requests = [k \in Keys |-> {}]
  /\ granted = [k \in Keys |-> {}]

\* Fault: a time is dropped a tick too early.
ValidTooFew(k) == {r \in requests[k] : r.at > now - Window[k] + 1}

\* The recorded times after the start of the window: those Allow keeps.
Valid(k) == {r \in requests[k] : r.at > now - Window[k]}

Permits(k) == Cardinality(Valid(k)) < Limit[k]

\* Fault: the start of the window is recorded instead of the time.
GrantAtStart(k) ==
  /\ Permits(k)
  /\ LET g == [id |-> Cardinality(granted[k]), at |-> now - Window[k]]
     IN /\ requests' = [requests EXCEPT ![k] = Valid(k) \cup {g}]
        /\ granted' = [granted EXCEPT ![k] = @ \cup {g}]

Grant(k) ==
  /\ Permits(k)
  /\ LET g == [id |-> Cardinality(granted[k]), at |-> now]
     IN /\ requests' = [requests EXCEPT ![k] = Valid(k) \cup {g}]
        /\ granted' = [granted EXCEPT ![k] = @ \cup {g}]

\* Fault: the time of a rejected request is recorded too.
RejectRecorded(k) ==
  /\ ~Permits(k)
  /\ requests' = [requests EXCEPT ![k] =
                    Valid(k) \cup {[id |-> Cardinality(granted[k]), at |-> now]}]
  /\ UNCHANGED granted

Reject(k) ==
  /\ ~Permits(k)
  /\ requests' = [requests EXCEPT ![k] = Valid(k)]
  /\ UNCHANGED granted

Allow(k) == (Grant(k) \/ Reject(k)) /\ UNCHANGED now

Reset(k) ==
  /\ requests' = [requests EXCEPT ![k] = {}]
  /\ granted' = [granted EXCEPT ![k] = {}]
  /\ UNCHANGED now

Tick ==
  /\ now < MaxTime
  /\ now' = now + 1
  /\ UNCHANGED limiterVars

LimiterNext == Tick \/ \E k \in Keys : Allow(k) \/ Reset(k)

LimiterSpec == LimiterInit /\ [][LimiterNext]_<<now, limiterVars>>

----------------------------------------------------------------------------

LimiterTypeOK ==
  /\ now \in Nat
  /\ requests \in [Keys -> SUBSET Grants]
  /\ granted \in [Keys -> SUBSET Grants]

\* The promise of a limiter: no window of its length, wherever it starts and
\* however the calls fall in it, holds more grants than the limit.  A counter
\* reset on the minute would let twice the limit through around the minute.
WindowBound ==
  \A k \in Keys : \A t \in 0..MaxTime : Cardinality(InWindow(k, t)) <= Limit[k]

\* And the converse: a request is turned away only when the limit has been
\* used up by grants of the last window; neither rejected requests nor grants
\* that have left the window count.
NoFalseReject ==
  \A k \in Keys : ~Permits(k) => Cardinality(InWindow(k, now)) >= Limit[k]

============================================================================
