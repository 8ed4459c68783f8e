--------------------------- MODULE RateLimitChain ---------------------------
(***************************************************************************)
(* internal/middleware/ratelimit/ratelimit.go: RateLimitMiddleware, the    *)
(* four middlewares every request goes through in the order the router     *)
(* installs them: global, IP, user and API endpoint.  Each takes a grant   *)
(* from its limiter or answers 429; a grant taken earlier is not given     *)
(* back.  Authentication comes after them (router.go).                     *)
(*                                                                         *)
(* Requests are goroutines and interleave between any two steps.  The map  *)
(* m.limiters is read without a lock by IPRateLimit, UserRateLimit and     *)
(* ResetRateLimit and written under m.mutex by getOrCreateAPILimiter; a    *)
(* read or a write of it is a step that begins and one that ends.  When a  *)
(* read and a write overlap, Go's runtime may notice it, and stops the     *)
(* process if it does.  ResetRateLimit's own read does not crash here: no  *)
(* route of the program reaches it.                                        *)
(*                                                                         *)
(* Left out: the response bodies and headers, the branch on                *)
(* RateLimit.Enabled (the router installs nothing when it is off).         *)
(***************************************************************************)
EXTENDS RateLimiter

CONSTANTS
  Requests,   \* request goroutines
  IPs,        \* what getClientIP can return
  Users,      \* the users requests come from
  Endpoints,  \* method and path of a request
  APILimited, \* those with an entry in config.RateLimit.APILimit
  Installed,  \* which of "ip" and "user" NewRateLimitMiddleware puts in the map
  Dynamic,    \* the routes are set up by SetupWithProxy, else by Setup
  NoUser,     \* no user_id in the context of the request
  Nobody      \* m.mutex is free

GlobalKey == <<"global">>
IPKey(ip) == <<"ip", ip>>
AnonymousKey(ip) == <<"user", "anonymous", ip>>
UserKey(user) == <<"user", user>>
APIKeyByIP(e, ip) == <<"api", e, "ip", ip>>
APIKeyByUser(e, user) == <<"api", e, "user", user>>

APIKeys(e) == {APIKeyByIP(e, ip) : ip \in IPs} \cup {APIKeyByUser(e, u) : u \in Users}

ASSUME ChainAssumption ==
  /\ Keys = {GlobalKey} \cup {IPKey(ip) : ip \in IPs}
              \cup {AnonymousKey(ip) : ip \in IPs} \cup {UserKey(u) : u \in Users}
              \cup UNION {APIKeys(e) : e \in Endpoints}
  /\ APILimited \subseteq Endpoints
  /\ Endpoints \cap {"ip", "user"} = {}
  /\ Installed \subseteq {"ip", "user"}
  /\ Dynamic \in BOOLEAN
  /\ NoUser \notin Users
  /\ Nobody \notin Requests

VARIABLES
  limiters,  \* the keys of m.limiters: "ip", "user", and endpoints
  mapMutex,  \* m.mutex
  stage,     \* where a request is
  from,      \* ip, user and endpoint of a request, Nobody between requests
  userID,    \* the user_id in its context
  byUser,    \* history: when the user limiter let a user's requests through
  alive      \* the process has not been stopped by the runtime

chainVars == <<limiters, mapMutex, stage, from, userID, byUser>>
vars == <<now, limiterVars, chainVars, alive>>

Stages == {"idle", "global", "ip", "ip read", "user", "user read", "api", "api write",
           "api allow", "auth", "handler", "rejected"}

Go(r, s) == stage' = [stage EXCEPT ![r] = s]

\* limiter.Allow(key), and on to the next stage or to the 429.
Take(r, key, next) ==
  /\ UNCHANGED <<now, limiters, mapMutex, from, userID>>
  /\ \/ Grant(key) /\ Go(r, next)
     \/ Reject(key) /\ Go(r, "rejected")

Pass(r, next) ==
  /\ Go(r, next)
  /\ UNCHANGED <<now, limiterVars, limiters, mapMutex, from, userID, byUser>>

----------------------------------------------------------------------------

Arrive(r) ==
  /\ stage[r] = "idle"
  /\ \E ip \in IPs, u \in Users, e \in Endpoints :
       from' = [from EXCEPT ![r] = [ip |-> ip, user |-> u, endpoint |-> e]]
  /\ Go(r, "global")
  /\ UNCHANGED <<now, limiterVars, limiters, mapMutex, userID, byUser>>

GlobalRateLimit(r) ==
  stage[r] = "global" /\ Take(r, GlobalKey, "ip") /\ UNCHANGED byUser

\* The next middleware after IPRateLimit.
AfterIP == IF Dynamic THEN "user" ELSE "auth"

IPRateLimit(r) ==
  \/ stage[r] = "ip" /\ Pass(r, "ip read")
  \/ /\ stage[r] = "ip read"
     /\ IF "ip" \in limiters
          THEN Take(r, IPKey(from[r].ip), AfterIP) /\ UNCHANGED byUser
          ELSE Pass(r, AfterIP)

\* The user limiter's key: the user in the context, or else the address.
UserLimitKey(r) ==
  IF userID[r] = NoUser THEN AnonymousKey(from[r].ip) ELSE UserKey(userID[r])

UserRateLimit(r) ==
  \/ stage[r] = "user" /\ Pass(r, "user read")
  \/ /\ stage[r] = "user read"
     /\ IF "user" \in limiters
          THEN /\ Take(r, UserLimitKey(r), "api")
               /\ byUser' = IF Permits(UserLimitKey(r))
                             THEN [byUser EXCEPT ![from[r].user] =
                                     @ \cup {[id |-> Cardinality(@), at |-> now]}]
                             ELSE byUser
          ELSE Pass(r, "api")

\* Fault: the map is looked up before m.mutex is taken, and the limiter is
\* put in without looking again.
CreateUnchecked(r) ==
  \/ /\ stage[r] = "api"
     /\ IF from[r].endpoint \in limiters THEN Pass(r, "api allow") ELSE Pass(r, "api write")
  \/ /\ stage[r] = "api write"
     /\ limiters' = limiters \cup {from[r].endpoint}
     /\ requests' = [k \in Keys |-> IF k \in APIKeys(from[r].endpoint) THEN {} ELSE requests[k]]
     /\ Go(r, "api allow")
     /\ UNCHANGED <<now, granted, mapMutex, from, userID, byUser>>

\* Fault: the early return does not unlock.
CreateKeepsMutex(r) ==
  \/ /\ stage[r] = "api"
     /\ mapMutex = Nobody
     /\ mapMutex' = r
     /\ Go(r, IF from[r].endpoint \in limiters THEN "api allow" ELSE "api write")
     /\ UNCHANGED <<now, limiterVars, limiters, from, userID, byUser>>
  \/ /\ stage[r] = "api write"
     /\ limiters' = limiters \cup {from[r].endpoint}
     /\ requests' = [k \in Keys |-> IF k \in APIKeys(from[r].endpoint) THEN {} ELSE requests[k]]
     /\ mapMutex' = Nobody
     /\ Go(r, "api allow")
     /\ UNCHANGED <<now, granted, from, userID, byUser>>

\* Lookup under m.mutex; a missing limiter is made, empty, and put in the map
\* before the mutex is released.
GetOrCreateAPILimiter(r) ==
  \/ /\ stage[r] = "api"
     /\ mapMutex = Nobody
     /\ IF from[r].endpoint \in limiters
          THEN Go(r, "api allow") /\ UNCHANGED mapMutex
          ELSE Go(r, "api write") /\ mapMutex' = r
     /\ UNCHANGED <<now, limiterVars, limiters, from, userID, byUser>>
  \/ /\ stage[r] = "api write"
     /\ limiters' = limiters \cup {from[r].endpoint}
     /\ requests' = [k \in Keys |-> IF k \in APIKeys(from[r].endpoint) THEN {} ELSE requests[k]]
     /\ mapMutex' = Nobody
     /\ Go(r, "api allow")
     /\ UNCHANGED <<now, granted, from, userID, byUser>>

APILimitKey(r) ==
  IF userID[r] = NoUser THEN APIKeyByIP(from[r].endpoint, from[r].ip)
                        ELSE APIKeyByUser(from[r].endpoint, userID[r])

APIRateLimit(r) ==
  \/ stage[r] = "api" /\ from[r].endpoint \notin APILimited /\ Pass(r, "auth")
  \/ /\ stage[r] \in {"api", "api write"}
     /\ from[r].endpoint \in APILimited
     /\ GetOrCreateAPILimiter(r)
  \/ stage[r] = "api allow" /\ Take(r, APILimitKey(r), "auth") /\ UNCHANGED byUser

\* The JWT middleware of the route: a valid token puts the user in the context.
\* Without one a route open to everybody goes on and any other answers 401.
Authenticate(r) ==
  /\ stage[r] = "auth"
  /\ \/ userID' = [userID EXCEPT ![r] = from[r].user] /\ Go(r, "handler")
     \/ \E s \in {"handler", "rejected"} : Go(r, s) /\ UNCHANGED userID
  /\ UNCHANGED <<now, limiterVars, limiters, mapMutex, from, byUser>>

Respond(r) ==
  /\ stage[r] \in {"handler", "rejected"}
  /\ Go(r, "idle")
  /\ from' = [from EXCEPT ![r] = Nobody]
  /\ userID' = [userID EXCEPT ![r] = NoUser]
  /\ UNCHANGED <<now, limiterVars, limiters, mapMutex, byUser>>

\* The admin endpoint of a handler made by NewWithRateLimit: the limiter called
\* name forgets the key that is its own name, which no request is counted
\* under; the global one forgets all.
ResetRateLimit(name) ==
  /\ requests' = [k \in Keys |->
                    IF k = GlobalKey \/ (name \in limiters /\ k = <<name>>)
                      THEN {} ELSE requests[k]]
  /\ granted' = [granted EXCEPT ![GlobalKey] = {}]
  /\ UNCHANGED <<now, chainVars>>

MapRead(r) == stage[r] \in {"ip read", "user read"}

\* "concurrent map read and map write", which gin.Recovery cannot catch.
Crash ==
  /\ alive
  /\ \E r, w \in Requests : MapRead(r) /\ stage[w] = "api write"
  /\ alive' = FALSE
  /\ UNCHANGED <<now, limiterVars, chainVars>>

----------------------------------------------------------------------------

Init ==
  /\ LimiterInit
  /\ limiters = Installed
  /\ mapMutex = Nobody
  /\ stage = [r \in Requests |-> "idle"]
  /\ from = [r \in Requests |-> Nobody]
  /\ userID = [r \in Requests |-> NoUser]
  /\ byUser = [u \in Users |-> {}]
  /\ alive = TRUE

Step(r) ==
  \/ GlobalRateLimit(r) \/ IPRateLimit(r) \/ UserRateLimit(r) \/ APIRateLimit(r)
  \/ Authenticate(r) \/ Respond(r)

Run(r) == alive /\ Step(r) /\ UNCHANGED alive

Next ==
  \/ \E r \in Requests : Run(r) \/ (alive /\ Arrive(r) /\ UNCHANGED alive)
  \/ /\ alive
     /\ \E name \in {"ip", "user"} \cup Endpoints : ResetRateLimit(name)
     /\ UNCHANGED alive
  \/ Tick /\ UNCHANGED <<chainVars, alive>>
  \/ Crash

Spec == Init /\ [][Next]_vars

\* A request goroutine that can run does; m.mutex is fair as any sync.Mutex.
FairSpec == Spec /\ \A r \in Requests : SF_vars(Run(r))

----------------------------------------------------------------------------

Origins == [ip : IPs, user : Users, endpoint : Endpoints]

ChainTypeOK ==
  /\ LimiterTypeOK
  /\ limiters \subseteq {"ip", "user"} \cup Endpoints
  /\ mapMutex \in Requests \cup {Nobody}
  /\ stage \in [Requests -> Stages]
  /\ \A r \in Requests : mapMutex = r <=> stage[r] = "api write"
  /\ from \in [Requests -> Origins \cup {Nobody}]
  /\ userID \in [Requests -> Users \cup {NoUser}]
  /\ byUser \in [Users -> SUBSET Grants]
  /\ alive \in BOOLEAN

\* The chain uses its limiters as a limiter may be used: making an endpoint's
\* limiter on demand, from two requests at once, never throws away what the
\* limiter has recorded.  So every bound of RateLimiter holds of the chain.
KeepsLimiters == LimiterSpec

\* Every request that arrives is answered, unless the process dies of the race
\* on the map: no order of requests leaves m.mutex locked or a request waiting
\* for it for ever.
Answered == \A r \in Requests : stage[r] # "idle" ~> (stage[r] = "idle" \/ ~alive)

\* "At most N requests of each user in a window" (the user limit as
\* tests/unit/middleware_ratelimit_test.go:114 states it).
UserQuota ==
  \A u \in Users : \A t \in 0..MaxTime :
    Cardinality({g \in byUser[u] : t - Window[UserKey(u)] < g.at /\ g.at <= t})
      <= Limit[UserKey(u)]

=============================================================================
