------------------------- MODULE RateLimiterProofs -------------------------
(***************************************************************************)
(* The sliding-window bound of MemoryRateLimiter, for every limit, window  *)
(* and set of keys.                                                        *)
(*                                                                         *)
(* WindowBound is not inductive: it says nothing of the slice Allow reads. *)
(* KeyInv adds that the slice is part of the history, that it lacks no     *)
(* grant young enough to count, and that it is no longer than the limit;   *)
(* a window that ends now or later then lies inside the slice, and one     *)
(* that ended earlier can receive no more grants.                          *)
(***************************************************************************)
EXTENDS RateLimiter, FiniteSetTheorems, TLAPS

KeyInv(k) ==
  /\ IsFiniteSet(granted[k])
  /\ requests[k] \subseteq granted[k]
  /\ \A g \in granted[k] : g.id < Cardinality(granted[k]) /\ g.at <= now
  /\ \A g \in granted[k] : g.at > now - Window[k] => g \in requests[k]
  /\ Cardinality(requests[k]) <= Limit[k]
  /\ \A t \in Int : Cardinality(InWindow(k, t)) <= Limit[k]

LimiterInv == LimiterTypeOK /\ \A k \in Keys : KeyInv(k)

----------------------------------------------------------------------------

\* A part of a finite set of grants is finite and no larger.
LEMMA Part ==
  ASSUME NEW S, IsFiniteSet(S), NEW T \in SUBSET S
  PROVE  IsFiniteSet(T) /\ Cardinality(T) \in Nat /\ Cardinality(S) \in Nat
         /\ Cardinality(T) <= Cardinality(S)
BY FS_Subset, FS_CardinalityType

\* The bound for the windows that end now or later, once the slice is known to
\* hold what counts.
LEMMA RecentWindows ==
  ASSUME LimiterTypeOK, NEW k \in Keys,
         IsFiniteSet(requests[k]), Cardinality(requests[k]) <= Limit[k],
         \A g \in granted[k] : g.at > now - Window[k] => g \in requests[k],
         NEW t \in Int, t >= now
  PROVE  Cardinality(InWindow(k, t)) <= Limit[k]
<1>1. \A g \in granted[k] : g.at \in Int
  BY DEF LimiterTypeOK, Grants
<1>2. Window[k] \in Int /\ Limit[k] \in Int /\ now \in Int
  BY LimiterAssumption DEF LimiterTypeOK
<1>3. InWindow(k, t) \in SUBSET requests[k]
  BY <1>1, <1>2 DEF InWindow
<1> QED BY <1>2, <1>3, Part

LEMMA GrantKey ==
  ASSUME LimiterTypeOK, NEW k \in Keys, KeyInv(k), Grant(k), UNCHANGED now
  PROVE  LimiterTypeOK' /\ KeyInv(k)'
<1> DEFINE g == [id |-> Cardinality(granted[k]), at |-> now]
<1>1. /\ requests' = [requests EXCEPT ![k] = Valid(k) \cup {g}]
      /\ granted' = [granted EXCEPT ![k] = @ \cup {g}]
      /\ Cardinality(Valid(k)) < Limit[k]
  BY DEF Grant, Permits
<1>2. /\ IsFiniteSet(granted[k]) /\ Cardinality(granted[k]) \in Nat
      /\ Valid(k) \subseteq requests[k] /\ requests[k] \subseteq granted[k]
      /\ IsFiniteSet(Valid(k)) /\ Cardinality(Valid(k)) \in Nat
  BY Part DEF KeyInv, Valid
<1>3. /\ Window[k] \in Nat /\ Limit[k] \in Nat /\ now \in Nat
      /\ \A f \in granted[k] : f.at \in Nat /\ f.id \in Nat
  BY LimiterAssumption DEF LimiterTypeOK, Grants
<1>4. g \in Grants /\ g.id = Cardinality(granted[k]) /\ g.at = now
  BY <1>2, <1>3 DEF Grants
<1> HIDE DEF g
<1>5. LimiterTypeOK'
  BY <1>1, <1>2, <1>4 DEF LimiterTypeOK
<1>6. g \notin granted[k]
  BY <1>2, <1>3, <1>4 DEF KeyInv
<1>7. granted'[k] = granted[k] \cup {g} /\ requests'[k] = Valid(k) \cup {g}
  BY <1>1 DEF LimiterTypeOK
<1>8. IsFiniteSet(granted'[k]) /\ Cardinality(granted'[k]) = Cardinality(granted[k]) + 1
  BY <1>2, <1>6, <1>7, FS_AddElement
<1>9. requests'[k] \subseteq granted'[k]
  BY <1>2, <1>7
<1>10. \A f \in granted'[k] : f.id < Cardinality(granted'[k]) /\ f.at <= now
  BY <1>2, <1>3, <1>4, <1>7, <1>8 DEF KeyInv
<1>11. \A f \in granted'[k] : f.at > now - Window[k] => f \in requests'[k]
  BY <1>7 DEF KeyInv, Valid
<1>12. g \notin Valid(k)
  BY <1>2, <1>6
<1>13. IsFiniteSet(requests'[k]) /\ Cardinality(requests'[k]) = Cardinality(Valid(k)) + 1
  BY <1>2, <1>7, <1>12, FS_AddElement
<1>14. Cardinality(requests'[k]) <= Limit[k]
  BY <1>1, <1>2, <1>3, <1>13
<1>15. ASSUME NEW t \in Int
       PROVE  Cardinality(InWindow(k, t)') <= Limit[k]
  <2>1. CASE t < now
    <3>1. InWindow(k, t)' = InWindow(k, t)
      BY <1>3, <1>4, <1>7, <2>1 DEF InWindow
    <3> QED BY <3>1 DEF KeyInv
  <2>2. CASE t >= now
    <3>1. \A f \in granted'[k] : f.at \in Nat
      BY <1>3, <1>4, <1>7
    <3>2. InWindow(k, t)' \in SUBSET requests'[k]
      BY <1>3, <1>11, <2>2, <3>1 DEF InWindow
    <3> QED BY <1>3, <1>13, <1>14, <3>2, Part
  <2> QED BY <1>3, <2>1, <2>2
<1> QED BY <1>5, <1>8, <1>9, <1>10, <1>11, <1>14, <1>15 DEF KeyInv

LEMMA RejectKey ==
  ASSUME LimiterTypeOK, NEW k \in Keys, KeyInv(k), Reject(k), UNCHANGED now
  PROVE  LimiterTypeOK' /\ KeyInv(k)'
<1>1. requests' = [requests EXCEPT ![k] = Valid(k)] /\ UNCHANGED granted
  BY DEF Reject
<1>2. Valid(k) \subseteq requests[k] /\ requests'[k] = Valid(k)
  BY <1>1 DEF Valid, LimiterTypeOK
<1>3. LimiterTypeOK'
  BY <1>1, <1>2 DEF LimiterTypeOK
<1>4. Limit[k] \in Nat
  BY LimiterAssumption
<1>5. IsFiniteSet(requests[k]) /\ Cardinality(requests'[k]) <= Limit[k]
  BY <1>2, <1>4, Part DEF KeyInv
<1>6. \A g \in granted'[k] : g.at > now - Window[k] => g \in requests'[k]
  BY <1>1, <1>2 DEF KeyInv, Valid
<1>7. \A t \in Int : InWindow(k, t)' = InWindow(k, t)
  BY <1>1 DEF InWindow
<1> QED BY <1>1, <1>2, <1>3, <1>5, <1>6, <1>7 DEF KeyInv

LEMMA ResetKey ==
  ASSUME LimiterTypeOK, NEW k \in Keys, Reset(k)
  PROVE  LimiterTypeOK' /\ KeyInv(k)'
<1>1. requests'[k] = {} /\ granted'[k] = {} /\ UNCHANGED now
  BY DEF Reset, LimiterTypeOK
<1>2. LimiterTypeOK'
  BY DEF Reset, LimiterTypeOK
<1>3. \A t \in Int : InWindow(k, t)' = {}
  BY <1>1 DEF InWindow
<1>4. Limit[k] \in Nat
  BY LimiterAssumption
<1> QED BY <1>1, <1>2, <1>3, <1>4, FS_EmptySet DEF KeyInv

LEMMA TickKeys ==
  ASSUME LimiterInv, Tick
  PROVE  LimiterInv'
<1>1. now \in Nat /\ now' = now + 1 /\ UNCHANGED limiterVars
  BY DEF Tick, LimiterInv, LimiterTypeOK
<1>2. LimiterTypeOK'
  BY <1>1 DEF LimiterInv, LimiterTypeOK, limiterVars
<1>3. ASSUME NEW k \in Keys
      PROVE  KeyInv(k)'
  <2>1. Window[k] \in Nat /\ \A g \in granted[k] : g.at \in Nat
    BY LimiterAssumption DEF LimiterInv, LimiterTypeOK, Grants
  <2>2. \A g \in granted[k] : /\ g.at <= now'
                              /\ g.at > now' - Window[k] => g.at > now - Window[k]
    BY <1>1, <2>1 DEF LimiterInv, KeyInv
  <2>3. \A t \in Int : InWindow(k, t)' = InWindow(k, t)
    BY <1>1 DEF InWindow, limiterVars
  <2> QED BY <1>1, <2>2, <2>3 DEF LimiterInv, KeyInv, limiterVars
<1> QED BY <1>2, <1>3 DEF LimiterInv

\* What one key's step leaves of the others.
LEMMA OtherKeys ==
  ASSUME LimiterTypeOK, NEW k \in Keys, NEW j \in Keys, j # k, KeyInv(j), UNCHANGED now,
         Grant(k) \/ Reject(k) \/ Reset(k)
  PROVE  KeyInv(j)'
<1>1. granted'[j] = granted[j] /\ requests'[j] = requests[j]
  BY DEF Grant, Reject, Reset, LimiterTypeOK
<1>2. \A t \in Int : InWindow(j, t)' = InWindow(j, t)
  BY <1>1 DEF InWindow
<1> QED BY <1>1, <1>2 DEF KeyInv

LEMMA LimiterInitInv == LimiterInit => LimiterInv
<1> SUFFICES ASSUME LimiterInit PROVE LimiterInv
  OBVIOUS
<1>1. LimiterTypeOK
  BY DEF LimiterInit, LimiterTypeOK
<1>2. ASSUME NEW k \in Keys
      PROVE  KeyInv(k)
  <2>1. requests[k] = {} /\ granted[k] = {} /\ \A t \in Int : InWindow(k, t) = {}
    BY DEF LimiterInit, InWindow
  <2>2. Limit[k] \in Nat
    BY LimiterAssumption
  <2> QED BY <2>1, <2>2, FS_EmptySet DEF KeyInv
<1> QED BY <1>1, <1>2 DEF LimiterInv

LEMMA LimiterNextInv == LimiterInv /\ [LimiterNext]_<<now, limiterVars>> => LimiterInv'
<1> SUFFICES ASSUME LimiterInv, [LimiterNext]_<<now, limiterVars>> PROVE LimiterInv'
  OBVIOUS
<1>1. CASE UNCHANGED <<now, limiterVars>>
  BY <1>1 DEF limiterVars, LimiterInv, LimiterTypeOK, KeyInv, InWindow
<1>2. CASE Tick
  BY <1>2, TickKeys
<1>3. ASSUME NEW k \in Keys, Allow(k) \/ Reset(k)
      PROVE  LimiterInv'
  <2>1. UNCHANGED now /\ (Grant(k) \/ Reject(k) \/ Reset(k))
    BY <1>3 DEF Allow, Reset
  <2>2. LimiterTypeOK' /\ KeyInv(k)'
    BY <2>1, GrantKey, RejectKey, ResetKey DEF LimiterInv
  <2>3. \A j \in Keys : j # k => KeyInv(j)'
    BY <2>1, OtherKeys DEF LimiterInv
  <2> QED BY <2>2, <2>3 DEF LimiterInv
<1> QED BY <1>1, <1>2, <1>3 DEF LimiterNext

LEMMA BoundsFollow == LimiterInv => WindowBound /\ NoFalseReject
<1> SUFFICES ASSUME LimiterInv, NEW k \in Keys
             PROVE  /\ \A t \in 0..MaxTime : Cardinality(InWindow(k, t)) <= Limit[k]
                    /\ ~Permits(k) => Cardinality(InWindow(k, now)) >= Limit[k]
  BY DEF WindowBound, NoFalseReject
<1>1. \A t \in 0..MaxTime : Cardinality(InWindow(k, t)) <= Limit[k]
  BY LimiterAssumption DEF LimiterInv, KeyInv
<1>2. ASSUME ~Permits(k)
      PROVE  Cardinality(InWindow(k, now)) >= Limit[k]
  <2>1. now \in Nat /\ Limit[k] \in Nat /\ Window[k] \in Nat
        /\ \A g \in granted[k] : g.at \in Nat
    BY LimiterAssumption DEF LimiterInv, LimiterTypeOK, Grants
  <2>2. InWindow(k, now) \in SUBSET granted[k] /\ IsFiniteSet(granted[k])
    BY DEF InWindow, LimiterInv, KeyInv
  <2>3. Valid(k) \in SUBSET InWindow(k, now)
    BY <2>1 DEF Valid, InWindow, LimiterInv, KeyInv
  <2>4. IsFiniteSet(InWindow(k, now))
    BY <2>2, Part
  <2>5. Cardinality(Valid(k)) <= Cardinality(InWindow(k, now))
        /\ Cardinality(Valid(k)) \in Nat /\ Cardinality(InWindow(k, now)) \in Nat
    BY <2>3, <2>4, Part
  <2> QED BY <1>2, <2>1, <2>5 DEF Permits
<1> QED BY <1>1, <1>2

THEOREM LimiterInvariance == LimiterSpec => []LimiterInv
BY LimiterInitInv, LimiterNextInv, PTL DEF LimiterSpec

\* Whatever the limit, the window and the pattern of requests, no window of
\* that length ever holds more grants than the limit.
THEOREM SlidingWindow == LimiterSpec => []WindowBound
BY LimiterInvariance, BoundsFollow, PTL

\* And a request is turned away only when the limit really is used up.
THEOREM RejectsJustly == LimiterSpec => []NoFalseReject
BY LimiterInvariance, BoundsFollow, PTL

\* Recorded times and grants keep their types.
THEOREM LimiterTypes == LimiterSpec => []LimiterTypeOK
<1>1. LimiterInv => LimiterTypeOK
  BY DEF LimiterInv
<1> QED BY <1>1, LimiterInvariance, PTL

============================================================================
