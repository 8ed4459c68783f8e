------------------------ MODULE RateLimitChainProofs ------------------------
(***************************************************************************)
(* The chain implements its limiters, for every set of requests,           *)
(* addresses, users and endpoints; so no window of any key admits more     *)
(* than the limit, whatever the requests' interleaving.                    *)
(*                                                                         *)
(* The step to worry about is the one that puts a new limiter in the map:  *)
(* it must not empty the slices of a limiter already in use.  ChainInv     *)
(* says why it does not.  While a request is about to write, it holds      *)
(* m.mutex and its endpoint is still missing (HoldersInv); an endpoint     *)
(* that is missing has nothing recorded (MissingInv).                      *)
(***************************************************************************)
EXTENDS RateLimitChain, RateLimiterProofs

\* What ChainTypeOK says of the chain's own variables, in the form the steps
\* preserve.  Nothing is said here of what a slice holds.
TypeInv ==
  /\ now \in Nat
  /\ requests = [k \in Keys |-> requests[k]]
  /\ granted = [k \in Keys |-> granted[k]]
  /\ limiters \subseteq {"ip", "user"} \cup Endpoints
  /\ mapMutex \in Requests \cup {Nobody}
  /\ stage \in [Requests -> Stages]
  /\ from \in [Requests -> Origins \cup {Nobody}]
  /\ userID \in [Requests -> Users \cup {NoUser}]
  /\ \A r \in Requests : stage[r] # "idle" => from[r] \in Origins

\* The writer of the map has the mutex, and its endpoint is still missing;
\* a request that will call Allow has found its limiter.
HoldersInv ==
  \A r \in Requests :
    /\ mapMutex = r <=> stage[r] = "api write"
    /\ stage[r] = "api write" => from[r].endpoint \notin limiters
    /\ stage[r] = "api allow" => from[r].endpoint \in limiters

MissingInv == \A e \in Endpoints \ limiters : \A k \in APIKeys(e) : requests[k] = {}

ChainInv == TypeInv /\ HoldersInv /\ MissingInv

----------------------------------------------------------------------------
(* The keys of an endpoint's limiter are its own.                          *)

LEMMA APIKeysApart ==
  ASSUME NEW e \in Endpoints, NEW k \in APIKeys(e)
  PROVE  k \in Keys /\ k[1] = "api" /\ k[2] = e
BY ChainAssumption DEF APIKeys, APIKeyByIP, APIKeyByUser

\* The key each stage takes from, for a request that is under way.
LEMMA TakenKeys ==
  ASSUME TypeInv, NEW r \in Requests, stage[r] # "idle"
  PROVE  /\ GlobalKey \in Keys /\ GlobalKey[1] # "api"
         /\ IPKey(from[r].ip) \in Keys /\ IPKey(from[r].ip)[1] # "api"
         /\ UserLimitKey(r) \in Keys /\ UserLimitKey(r)[1] # "api"
         /\ APILimitKey(r) \in APIKeys(from[r].endpoint)
         /\ APILimitKey(r) \in Keys
<1>1. /\ from[r].ip \in IPs /\ from[r].user \in Users /\ from[r].endpoint \in Endpoints
      /\ userID[r] \in Users \cup {NoUser}
  BY DEF TypeInv, Origins
<1>2. GlobalKey \in Keys /\ GlobalKey[1] # "api"
  BY ChainAssumption DEF GlobalKey
<1>3. \A ip \in IPs : IPKey(ip) \in Keys /\ IPKey(ip)[1] # "api"
  BY ChainAssumption DEF IPKey
<1>4. \A ip \in IPs : AnonymousKey(ip) \in Keys /\ AnonymousKey(ip)[1] # "api"
  BY ChainAssumption DEF AnonymousKey
<1>5. \A user \in Users : UserKey(user) \in Keys /\ UserKey(user)[1] # "api"
  BY ChainAssumption DEF UserKey
<1>6. UserLimitKey(r) \in Keys /\ UserLimitKey(r)[1] # "api"
  BY <1>1, <1>4, <1>5 DEF UserLimitKey
<1>7. APILimitKey(r) \in APIKeys(from[r].endpoint)
  BY <1>1 DEF APILimitKey, APIKeys
<1> QED BY <1>1, <1>2, <1>3, <1>6, <1>7, APIKeysApart

\* The name of a limiter is not the key of a request, the global one apart.
LEMMA NameIsNoKey ==
  ASSUME NEW name, NEW k \in Keys, k = <<name>>
  PROVE  k = GlobalKey
<1>1. /\ \A ip : <<name>> # IPKey(ip) /\ <<name>> # AnonymousKey(ip)
      /\ \A user : <<name>> # UserKey(user)
      /\ \A e, ip : <<name>> # APIKeyByIP(e, ip) /\ <<name>> # APIKeyByUser(e, ip)
  BY DEF IPKey, AnonymousKey, UserKey, APIKeyByIP, APIKeyByUser
<1> QED BY <1>1, ChainAssumption DEF APIKeys

----------------------------------------------------------------------------
(* Taking a grant.                                                         *)

\* A limiter's answer is a step of the limiter; it records something under no
\* other key.
LEMMA TakeStep ==
  ASSUME TypeInv, NEW r \in Requests, NEW k \in Keys, NEW next \in Stages, Take(r, k, next)
  PROVE  /\ Allow(k)
         /\ requests' = [j \in Keys |-> requests'[j]]
         /\ granted' = [j \in Keys |-> granted'[j]]
         /\ \A j \in Keys \ {k} : requests'[j] = requests[j]
         /\ UNCHANGED <<now, limiters, mapMutex, from, userID>>
         /\ \/ stage' = [stage EXCEPT ![r] = next]
            \/ stage' = [stage EXCEPT ![r] = "rejected"]
<1> USE DEF Take, Go
<1>1. CASE Grant(k) /\ Go(r, next)
  BY <1>1 DEF Grant, Allow, TypeInv
<1>2. CASE Reject(k) /\ Go(r, "rejected")
  BY <1>2 DEF Reject, Allow, TypeInv
<1> QED BY <1>1, <1>2

\* A stage that takes a grant keeps the invariant, whatever the key, unless
\* its limiter is missing.
LEMMA TakeInv ==
  ASSUME ChainInv, NEW r \in Requests, NEW k \in Keys, NEW next \in Stages \ {"idle", "api write", "api allow"},
         stage[r] \notin {"idle", "api write"}, Take(r, k, next),
         k[1] # "api" \/ (k \in APIKeys(from[r].endpoint) /\ from[r].endpoint \in limiters)
  PROVE  ChainInv' /\ Allow(k)
<1>1. /\ Allow(k)
      /\ requests' = [j \in Keys |-> requests'[j]]
      /\ granted' = [j \in Keys |-> granted'[j]]
      /\ \A j \in Keys \ {k} : requests'[j] = requests[j]
      /\ UNCHANGED <<now, limiters, mapMutex, from, userID>>
      /\ \/ stage' = [stage EXCEPT ![r] = next]
         \/ stage' = [stage EXCEPT ![r] = "rejected"]
  BY TakeStep DEF ChainInv
<1>2. TypeInv'
  BY <1>1, ZenonT(60) DEF ChainInv, TypeInv, Stages
<1>3. HoldersInv'
  BY <1>1, ZenonT(60) DEF ChainInv, TypeInv, HoldersInv
<1>4. MissingInv'
  <2> SUFFICES ASSUME NEW e \in Endpoints \ limiters, NEW j \in APIKeys(e)
               PROVE  requests'[j] = {}
    BY <1>1 DEF MissingInv, APIKeys, APIKeyByIP, APIKeyByUser
  <2>1. j \in Keys /\ j[1] = "api" /\ j[2] = e
    BY APIKeysApart
  <2>2. from[r].endpoint \in Endpoints
    BY DEF ChainInv, TypeInv, Origins
  <2>3. j # k
    <3>1. CASE k[1] # "api"
      BY <2>1, <3>1
    <3>2. CASE k \in APIKeys(from[r].endpoint) /\ from[r].endpoint \in limiters
      <4>1. k[2] = from[r].endpoint
        BY <2>2, <3>2, APIKeysApart, Zenon
      <4> QED BY <2>1, <3>2, <4>1
    <3> QED BY <3>1, <3>2
  <2>4. requests[j] = {}
    BY DEF ChainInv, MissingInv
  <2> QED BY <1>1, <2>1, <2>3, <2>4
<1> QED BY <1>1, <1>2, <1>3, <1>4 DEF ChainInv

\* A stage that only moves on, to a place that asks for nothing.
LEMMA PassInv ==
  ASSUME ChainInv, NEW r \in Requests, NEW next \in Stages \ {"idle", "api write", "api allow"},
         stage[r] \notin {"idle", "api write"}, Pass(r, next)
  PROVE  ChainInv' /\ UNCHANGED <<now, limiterVars>>
<1>1. /\ UNCHANGED <<now, requests, granted, limiters, mapMutex, from, userID>>
      /\ stage' = [stage EXCEPT ![r] = next]
  BY DEF Pass, Go, limiterVars
<1>2. TypeInv'
  BY <1>1 DEF ChainInv, TypeInv
<1>3. HoldersInv'
  BY <1>1 DEF ChainInv, TypeInv, HoldersInv
<1>4. MissingInv'
  BY <1>1 DEF ChainInv, MissingInv, APIKeys, APIKeyByIP, APIKeyByUser
<1> QED BY <1>1, <1>2, <1>3, <1>4 DEF ChainInv, limiterVars

----------------------------------------------------------------------------
(* The steps of a request.                                                 *)

LEMMA ArriveInv ==
  ASSUME ChainInv, NEW r \in Requests, Arrive(r)
  PROVE  ChainInv' /\ UNCHANGED <<now, limiterVars>>
<1>1. /\ UNCHANGED <<now, requests, granted, limiters, mapMutex, userID>>
      /\ stage[r] = "idle" /\ stage' = [stage EXCEPT ![r] = "global"]
  BY DEF Arrive, Go, limiterVars
<1>2. PICK ip \in IPs, user \in Users, e \in Endpoints :
        from' = [from EXCEPT ![r] = [ip |-> ip, user |-> user, endpoint |-> e]]
  BY DEF Arrive
<1>3. from'[r] \in Origins /\ \A q \in Requests \ {r} : from'[q] = from[q]
  BY <1>2 DEF ChainInv, TypeInv, Origins
<1>4. TypeInv'
  BY <1>1, <1>2, <1>3 DEF ChainInv, TypeInv, Stages, Origins
<1>5. HoldersInv'
  BY <1>1, <1>3 DEF ChainInv, TypeInv, HoldersInv
<1>6. MissingInv'
  BY <1>1 DEF ChainInv, MissingInv, APIKeys, APIKeyByIP, APIKeyByUser
<1> QED BY <1>1, <1>4, <1>5, <1>6 DEF ChainInv, limiterVars

LEMMA LimitsInv ==
  ASSUME ChainInv, NEW r \in Requests,
         GlobalRateLimit(r) \/ IPRateLimit(r) \/ UserRateLimit(r)
  PROVE  ChainInv' /\ (UNCHANGED <<now, limiterVars>> \/ \E k \in Keys : Allow(k))
<1>1. stage[r] \in {"global", "ip", "ip read", "user", "user read"}
  BY DEF GlobalRateLimit, IPRateLimit, UserRateLimit
<1>2. /\ GlobalKey \in Keys /\ GlobalKey[1] # "api"
      /\ IPKey(from[r].ip) \in Keys /\ IPKey(from[r].ip)[1] # "api"
      /\ UserLimitKey(r) \in Keys /\ UserLimitKey(r)[1] # "api"
  BY <1>1, TakenKeys DEF ChainInv
<1>3. AfterIP \in {"user", "auth"}
  BY DEF AfterIP
<1> DEFINE Places == Stages \ {"idle", "api write", "api allow"}
<1>4. {"ip", "ip read", "user", "user read", "auth"} \subseteq Places
  BY DEF Stages
<1>5. CASE GlobalRateLimit(r)
  BY <1>1, <1>2, <1>4, <1>5, TakeInv DEF GlobalRateLimit
<1>6. CASE IPRateLimit(r)
  <2>1. CASE Pass(r, "ip read")
    BY <1>1, <1>4, <2>1, PassInv
  <2>2. CASE Pass(r, AfterIP)
    BY <1>1, <1>3, <1>4, <2>2, PassInv
  <2>3. CASE Take(r, IPKey(from[r].ip), AfterIP)
    BY <1>1, <1>2, <1>3, <1>4, <2>3, TakeInv
  <2> QED BY <1>6, <2>1, <2>2, <2>3 DEF IPRateLimit
<1>7. CASE UserRateLimit(r)
  <2>0. "api" \in Places
    BY DEF Stages
  <2>1. CASE Pass(r, "user read")
    BY <1>1, <1>4, <2>1, PassInv
  <2>2. CASE Pass(r, "api")
    BY <1>1, <2>0, <2>2, PassInv
  <2>3. CASE Take(r, UserLimitKey(r), "api")
    BY <1>1, <1>2, <2>0, <2>3, TakeInv
  <2> QED BY <1>7, <2>1, <2>2, <2>3 DEF UserRateLimit
<1> QED BY <1>5, <1>6, <1>7

\* Making a limiter, if this is the step that puts it in the map, leaves every
\* slice as it was: those of the new limiter were empty.
LEMMA CreateInv ==
  ASSUME ChainInv, NEW r \in Requests, stage[r] \in {"api", "api write"},
         GetOrCreateAPILimiter(r)
  PROVE  ChainInv' /\ UNCHANGED <<now, limiterVars>>
<1>1. from[r].endpoint \in Endpoints
  BY DEF ChainInv, TypeInv, Origins
<1>2. CASE stage[r] = "api" /\ from[r].endpoint \in limiters
  <2>1. /\ UNCHANGED <<now, requests, granted, limiters, mapMutex, from, userID>>
        /\ stage' = [stage EXCEPT ![r] = "api allow"]
    BY <1>2 DEF GetOrCreateAPILimiter, Go, limiterVars
  <2>2. TypeInv'
    BY <1>2, <2>1 DEF ChainInv, TypeInv, Stages
  <2>3. HoldersInv'
    BY <1>2, <2>1 DEF ChainInv, TypeInv, HoldersInv
  <2>4. MissingInv'
    BY <2>1 DEF ChainInv, MissingInv, APIKeys, APIKeyByIP, APIKeyByUser
  <2> QED BY <2>1, <2>2, <2>3, <2>4 DEF ChainInv, limiterVars
<1>3. CASE stage[r] = "api" /\ from[r].endpoint \notin limiters
  <2>1. /\ UNCHANGED <<now, requests, granted, limiters, from, userID>>
        /\ stage' = [stage EXCEPT ![r] = "api write"]
        /\ mapMutex = Nobody /\ mapMutex' = r
    BY <1>3 DEF GetOrCreateAPILimiter, Go, limiterVars
  <2>2. TypeInv'
    BY <1>3, <2>1 DEF ChainInv, TypeInv, Stages
  <2>3. HoldersInv'
    BY <1>3, <2>1, ChainAssumption DEF ChainInv, TypeInv, HoldersInv
  <2>4. MissingInv'
    BY <2>1 DEF ChainInv, MissingInv, APIKeys, APIKeyByIP, APIKeyByUser
  <2> QED BY <2>1, <2>2, <2>3, <2>4 DEF ChainInv, limiterVars
<1>4. CASE stage[r] = "api write"
  <2>1. /\ limiters' = limiters \cup {from[r].endpoint}
        /\ requests' = [k \in Keys |-> IF k \in APIKeys(from[r].endpoint) THEN {} ELSE requests[k]]
        /\ UNCHANGED <<now, granted, from, userID>>
        /\ stage' = [stage EXCEPT ![r] = "api allow"] /\ mapMutex' = Nobody
    BY <1>4 DEF GetOrCreateAPILimiter, Go
  <2>2. from[r].endpoint \notin limiters
    BY <1>4 DEF ChainInv, HoldersInv
  <2>3. \A k \in APIKeys(from[r].endpoint) : requests[k] = {}
    BY <1>1, <2>2 DEF ChainInv, MissingInv
  <2>4. requests = [k \in Keys |-> requests[k]]
    BY DEF ChainInv, TypeInv
  <2>5. requests' = requests
    BY <2>1, <2>3, <2>4, Zenon
  <2>6. TypeInv'
    BY <1>1, <1>4, <2>1, <2>5 DEF ChainInv, TypeInv, Stages
  <2>7. HoldersInv'
    BY <1>4, <2>1, ChainAssumption DEF ChainInv, TypeInv, HoldersInv
  <2>8. MissingInv'
    BY <2>1, <2>5, ZenonT(60) DEF ChainInv, MissingInv, APIKeys, APIKeyByIP, APIKeyByUser
  <2> QED BY <2>1, <2>5, <2>6, <2>7, <2>8 DEF ChainInv, limiterVars
<1> QED BY <1>2, <1>3, <1>4

LEMMA APIInv ==
  ASSUME ChainInv, NEW r \in Requests, APIRateLimit(r)
  PROVE  ChainInv' /\ (UNCHANGED <<now, limiterVars>> \/ \E k \in Keys : Allow(k))
<1>1. "auth" \in Stages \ {"idle", "api write", "api allow"}
  BY DEF Stages
<1>2. CASE stage[r] = "api" /\ Pass(r, "auth")
  BY <1>1, <1>2, PassInv
<1>3. CASE stage[r] \in {"api", "api write"} /\ GetOrCreateAPILimiter(r)
  BY <1>3, CreateInv
<1>4. CASE stage[r] = "api allow" /\ Take(r, APILimitKey(r), "auth")
  <2>1. APILimitKey(r) \in Keys /\ APILimitKey(r) \in APIKeys(from[r].endpoint)
    BY <1>4, TakenKeys DEF ChainInv
  <2>2. from[r].endpoint \in limiters
    BY <1>4 DEF ChainInv, HoldersInv
  <2> QED BY <1>1, <1>4, <2>1, <2>2, TakeInv
<1> QED BY <1>2, <1>3, <1>4 DEF APIRateLimit

LEMMA LeaveInv ==
  ASSUME ChainInv, NEW r \in Requests, Authenticate(r) \/ Respond(r)
  PROVE  ChainInv' /\ UNCHANGED <<now, limiterVars>>
<1>1. /\ UNCHANGED <<now, requests, granted, limiters, mapMutex>>
      /\ stage[r] \in {"auth", "handler", "rejected"}
      /\ \/ stage' = [stage EXCEPT ![r] = "idle"]
         \/ /\ \E s \in {"handler", "rejected"} : stage' = [stage EXCEPT ![r] = s]
            /\ UNCHANGED from
      /\ \/ UNCHANGED from
         \/ from' = [from EXCEPT ![r] = Nobody] /\ stage' = [stage EXCEPT ![r] = "idle"]
      /\ \/ stage[r] = "auth" /\ userID' = [userID EXCEPT ![r] = from[r].user]
         \/ UNCHANGED userID
         \/ userID' = [userID EXCEPT ![r] = NoUser]
  BY DEF Authenticate, Respond, Go, limiterVars
<1>2. from[r].user \in Users
  BY <1>1 DEF ChainInv, TypeInv, Origins
<1>3. TypeInv'
  BY <1>1, <1>2 DEF ChainInv, TypeInv, Stages
<1>4. HoldersInv'
  BY <1>1 DEF ChainInv, TypeInv, HoldersInv
<1>5. MissingInv'
  BY <1>1 DEF ChainInv, MissingInv, APIKeys, APIKeyByIP, APIKeyByUser
<1> QED BY <1>1, <1>3, <1>4, <1>5 DEF ChainInv, limiterVars

\* The administrator's reset is a reset of the global limiter's one key.
LEMMA ResetInv ==
  ASSUME ChainInv, NEW name, ResetRateLimit(name)
  PROVE  ChainInv' /\ GlobalKey \in Keys /\ Reset(GlobalKey)
<1>1. /\ requests' = [k \in Keys |->
                        IF k = GlobalKey \/ (name \in limiters /\ k = <<name>>)
                          THEN {} ELSE requests[k]]
      /\ granted' = [granted EXCEPT ![GlobalKey] = {}]
      /\ UNCHANGED <<now, limiters, mapMutex, stage, from, userID>>
  BY DEF ResetRateLimit, chainVars
<1>2. GlobalKey \in Keys
  BY ChainAssumption
<1>3. requests = [k \in Keys |-> requests[k]]
  BY DEF ChainInv, TypeInv
<1>4. requests' = [requests EXCEPT ![GlobalKey] = {}]
  <2>1. \A k \in Keys : k = GlobalKey \/ (name \in limiters /\ k = <<name>>) <=> k = GlobalKey
    BY NameIsNoKey
  <2> QED BY <1>1, <1>3, <2>1
<1>5. TypeInv'
  BY <1>1, <1>2, <1>4 DEF ChainInv, TypeInv
<1>6. HoldersInv'
  BY <1>1 DEF ChainInv, HoldersInv
<1>7. MissingInv'
  <2> SUFFICES ASSUME NEW e \in Endpoints \ limiters, NEW k \in APIKeys(e)
               PROVE  requests'[k] = {}
    BY <1>1 DEF MissingInv, APIKeys, APIKeyByIP, APIKeyByUser
  <2>1. k \in Keys /\ requests[k] = {}
    BY APIKeysApart DEF ChainInv, MissingInv
  <2> QED BY <1>1, <2>1
<1> QED BY <1>1, <1>2, <1>4, <1>5, <1>6, <1>7 DEF ChainInv, Reset

LEMMA TickInv ==
  ASSUME ChainInv, Tick, UNCHANGED chainVars
  PROVE  ChainInv'
<1>1. /\ UNCHANGED <<requests, granted, limiters, mapMutex, stage, from, userID>>
      /\ now' = now + 1
  BY DEF Tick, limiterVars, chainVars
<1>2. TypeInv'
  BY <1>1 DEF ChainInv, TypeInv
<1>3. HoldersInv'
  BY <1>1 DEF ChainInv, HoldersInv
<1>4. MissingInv'
  BY <1>1 DEF ChainInv, MissingInv, APIKeys, APIKeyByIP, APIKeyByUser
<1> QED BY <1>2, <1>3, <1>4 DEF ChainInv

----------------------------------------------------------------------------

LEMMA InitChain == Init => ChainInv
<1> SUFFICES ASSUME Init PROVE ChainInv
  OBVIOUS
<1>1. /\ now = 0 /\ requests = [k \in Keys |-> {}] /\ granted = [k \in Keys |-> {}]
      /\ limiters = Installed /\ mapMutex = Nobody
      /\ stage = [r \in Requests |-> "idle"]
      /\ from = [r \in Requests |-> Nobody]
      /\ userID = [r \in Requests |-> NoUser]
  BY DEF Init, LimiterInit
<1>2. TypeInv
  BY <1>1, ChainAssumption DEF TypeInv, Stages
<1>3. HoldersInv
  BY <1>1, ChainAssumption DEF HoldersInv
<1>4. MissingInv
  BY <1>1, APIKeysApart DEF MissingInv
<1> QED BY <1>2, <1>3, <1>4 DEF ChainInv

\* Every step keeps the invariant and is a step of the limiters or leaves
\* them alone.
LEMMA NextChain ==
  ASSUME ChainInv, [Next]_vars
  PROVE  ChainInv' /\ [LimiterNext]_<<now, limiterVars>>
<1>1. ASSUME NEW r \in Requests, Arrive(r) \/ Step(r)
      PROVE  ChainInv' /\ (UNCHANGED <<now, limiterVars>> \/ \E k \in Keys : Allow(k))
  BY <1>1, ArriveInv, LimitsInv, APIInv, LeaveInv DEF Step
<1>2. ASSUME NEW name \in {"ip", "user"} \cup Endpoints, ResetRateLimit(name)
      PROVE  ChainInv' /\ \E k \in Keys : Reset(k)
  BY <1>2, ResetInv
<1>3. CASE Tick /\ UNCHANGED chainVars
  BY <1>3, TickInv DEF LimiterNext
<1>4. CASE UNCHANGED vars
  <2>1. UNCHANGED <<now, limiterVars>>
    BY <1>4 DEF vars
  <2>2. ChainInv'
    BY <1>4 DEF vars, limiterVars, chainVars, ChainInv, TypeInv, HoldersInv, MissingInv,
                APIKeys, APIKeyByIP, APIKeyByUser
  <2> QED BY <2>1, <2>2
<1>5. CASE Crash
  <2>1. UNCHANGED <<now, limiterVars, chainVars>>
    BY <1>5 DEF Crash
  <2>2. ChainInv'
    BY <2>1 DEF limiterVars, chainVars, ChainInv, TypeInv, HoldersInv, MissingInv,
                APIKeys, APIKeyByIP, APIKeyByUser
  <2> QED BY <2>1, <2>2
<1> QED BY <1>1, <1>2, <1>3, <1>4, <1>5 DEF Next, Run, LimiterNext

THEOREM ChainInvariance == Spec => []ChainInv
<1>1. ChainInv /\ [Next]_vars => ChainInv'
  BY NextChain
<1> QED BY <1>1, InitChain, PTL DEF Spec

\* The chain of middlewares implements its limiters: installing an endpoint's
\* limiter on demand (getOrCreateAPILimiter) never empties one in use, and the
\* administrator's reset is a reset of the global limiter alone.
THEOREM ChainKeepsLimiters == Spec => KeepsLimiters
<1>1. Init => LimiterInit
  BY DEF Init
<1>2. ChainInv /\ [Next]_vars => [LimiterNext]_<<now, limiterVars>>
  BY NextChain
<1> QED BY <1>1, <1>2, ChainInvariance, PTL DEF Spec, KeepsLimiters, LimiterSpec

\* So the bound of a limiter is a bound on the requests the whole gateway lets
\* through: in no window more than its limit for each key, whatever the
\* interleaving of Allow in the four middlewares.
THEOREM ChainBound == Spec => []WindowBound
<1> QED BY ChainKeepsLimiters, SlidingWindow, PTL DEF KeepsLimiters

----------------------------------------------------------------------------
(* The types, those of the histories included.                             *)

HistoryInv ==
  /\ byUser \in [Users -> SUBSET Grants]
  /\ \A user \in Users : IsFiniteSet(byUser[user])
  /\ alive \in BOOLEAN

\* A request the user limiter lets through is one grant more for its user.
LEMMA UserHistory ==
  ASSUME ChainInv, HistoryInv, NEW r \in Requests, UserRateLimit(r)
  PROVE  byUser' \in [Users -> SUBSET Grants] /\ \A user \in Users : IsFiniteSet(byUser'[user])
<1>1. CASE UNCHANGED byUser
  BY <1>1 DEF HistoryInv
<1>2. CASE /\ stage[r] = "user read"
           /\ byUser' = [byUser EXCEPT ![from[r].user] =
                           @ \cup {[id |-> Cardinality(@), at |-> now]}]
  <2> DEFINE u == from[r].user
             g == [id |-> Cardinality(byUser[u]), at |-> now]
  <2>1. u \in Users
    BY <1>2 DEF ChainInv, TypeInv, Origins
  <2>2. IsFiniteSet(byUser[u]) /\ byUser[u] \in SUBSET Grants
    BY <2>1 DEF HistoryInv
  <2>3. Cardinality(byUser[u]) \in Nat
    BY <2>2, FS_CardinalityType
  <2>4. g \in Grants
    BY <2>3 DEF ChainInv, TypeInv, Grants
  <2>5. IsFiniteSet(byUser[u] \cup {g})
    BY <2>2, FS_AddElement
  <2> HIDE DEF g
  <2>6. byUser' = [byUser EXCEPT ![u] = byUser[u] \cup {g}]
    BY <1>2, <2>1 DEF g, HistoryInv
  <2> HIDE DEF u
  <2>7. byUser' \in [Users -> SUBSET Grants]
    BY <2>1, <2>2, <2>4, <2>6 DEF HistoryInv
  <2>8. ASSUME NEW user \in Users PROVE IsFiniteSet(byUser'[user])
    BY <2>1, <2>5, <2>6, <2>8 DEF HistoryInv
  <2> QED BY <2>7, <2>8
<1> QED BY <1>1, <1>2 DEF UserRateLimit, Pass

LEMMA NextHistory ==
  ASSUME ChainInv, HistoryInv, [Next]_vars
  PROVE  HistoryInv'
<1>1. ASSUME NEW r \in Requests, alive, Arrive(r) \/ Step(r), UNCHANGED alive
      PROVE  HistoryInv'
  <2>1. CASE UserRateLimit(r)
    BY <1>1, <2>1, UserHistory DEF HistoryInv
  <2>2. CASE ~UserRateLimit(r)
    <3>1. UNCHANGED byUser
      BY <1>1, <2>2 DEF Arrive, Step, GlobalRateLimit, IPRateLimit, APIRateLimit,
                        GetOrCreateAPILimiter, Pass, Authenticate, Respond
    <3> QED BY <1>1, <3>1 DEF HistoryInv
  <2> QED BY <2>1, <2>2
<1>2. ASSUME NEW name, ResetRateLimit(name), UNCHANGED alive PROVE HistoryInv'
  BY <1>2 DEF ResetRateLimit, chainVars, HistoryInv
<1>3. CASE Tick /\ UNCHANGED <<chainVars, alive>>
  BY <1>3 DEF chainVars, HistoryInv
<1>4. CASE Crash
  BY <1>4 DEF Crash, chainVars, HistoryInv
<1>5. CASE UNCHANGED vars
  BY <1>5 DEF vars, chainVars, HistoryInv
<1> QED BY <1>1, <1>2, <1>3, <1>4, <1>5 DEF Next, Run

\* The state of the chain is well typed, and m.mutex is held by exactly the
\* request that is putting a limiter in the map.
THEOREM ChainTypes == Spec => []ChainTypeOK
<1>1. Init => HistoryInv
  <2> SUFFICES ASSUME Init PROVE HistoryInv
    OBVIOUS
  <2>1. byUser = [u \in Users |-> {}] /\ alive = TRUE
    BY DEF Init
  <2> QED BY <2>1, FS_EmptySet DEF HistoryInv
<1>2. ChainInv /\ HistoryInv /\ [Next]_vars => HistoryInv'
  BY NextHistory
<1>3. LimiterTypeOK /\ ChainInv /\ HistoryInv => ChainTypeOK
  BY DEF ChainInv, TypeInv, HoldersInv, HistoryInv, ChainTypeOK
<1>4. Spec => []LimiterTypeOK
  BY ChainKeepsLimiters, LimiterTypes, PTL DEF KeepsLimiters
<1> QED BY <1>1, <1>2, <1>3, <1>4, ChainInvariance, PTL DEF Spec
=============================================================================
