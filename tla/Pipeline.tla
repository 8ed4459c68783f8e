------------------------------ MODULE Pipeline ------------------------------
(***************************************************************************)
(* One request's way through the gateway: main loads the configuration and *)
(* the routes, gin dispatches the request to its chain of handlers, and    *)
(* each of these passes it on or answers it.  The parts are those of       *)
(* Config, Tokens, Filters, Routes and Forwarding; what the handlers share *)
(* between requests (registry, maintenance mode, limiters, metrics) is in  *)
(* the modules about them and is here a choice among its answers.  All     *)
(* else a request has for itself, so one at a time is enough.  The tokens  *)
(* come from a service that issues them with pkg/auth; a request keeps the *)
(* one it came with, so new ones are issued between requests.              *)
(*                                                                         *)
(* Left out: the text of answers, response headers, Monitor.Enabled.       *)
(***************************************************************************)
EXTENDS Config, Forwarding

CONSTANTS
  Files,     \* what may be in config.yaml, or NoFile
  Arrivals,  \* the requests: method, path, credential, query, body, origin, connection
  Claimed,   \* the identity headers a request comes with
  Checks,    \* the checks added to the health checker: name, critical
  NoToken,   \* there is no Authorization header, or not a bearer's
  NoPair, NoRequest, Nothing,
  Start, MaxTime  \* bounds of the clock

ASSUME PipelineAssumption ==
  /\ Files \subseteq Configurations \cup {NoFile}
  /\ Checks \in Seq([name : STRING, critical : BOOLEAN])
  /\ \A j, k \in DOMAIN Checks : Checks[j].name = Checks[k].name => j = k
  /\ Start \in Nat /\ MaxTime \in Nat /\ Start <= MaxTime
  /\ NoRequest \notin Arrivals
  /\ \A a \in Arrivals : /\ a.body \in Bodies /\ a.body.unread /\ ~a.body.parsed
                         /\ a.query \in Texts
                         /\ a.connection \subseteq IdentityHeaders
  /\ DOMAIN Claimed = IdentityHeaders

\* A pair expires after 1970: no duration is that far below zero.
ASSUME DurationAssumption ==
  \A file \in Files \ {NoFile} : file["expiration"] + Start > 0 /\ file["refresh"] + Start > 0

\* gin refuses, at the start, two endpoints a request could not be told apart by.
ASSUME EndpointsDistinct ==
  \A a \in Arrivals, dynamic, read \in BOOLEAN :
    Dispatch(dynamic, read, a.method, a.path) \in Endpoints(dynamic, read) \cup {NotFound}

VARIABLES
  now,       \* the clock
  config,    \* *config.Config
  loaded,    \* LoadConfig has read services.yaml
  pair,      \* the last pair of tokens issued, for whom and how
  phase,     \* of the process and of the request it serves
  request,   \* the request, with its token and the time it came
  endpoint,  \* where gin dispatches it
  handlers, index,  \* gin.Context: the chain and the place in it
  context,   \* gin.Context: the user's id and company
  headers,   \* the identity headers of the request
  body,      \* the body of the request, as the handlers have left it
  matched,   \* the route MatchRoute finds
  received,  \* what the instance got
  health,    \* HealthChecker.Check
  reply,     \* the status of the answer
  records    \* what the logging middleware told the monitor of the request

process == <<now, config, loaded, pair>>
given == <<request, endpoint, handlers>>
work == <<context, headers, body, matched, received, health>>
vars == <<process, phase, given, index, work, reply, records>>

Nobody == [id |-> Blank, company |-> Blank]

----------------------------------------------------------------------------
(* main, and the service that issues tokens.                               *)

Load ==
  /\ phase = "boot"
  /\ \E file \in Files :
       IF Loads(file)
         THEN /\ config' = Loaded(file)
              /\ loaded' \in BOOLEAN
              /\ phase' = "idle"
         ELSE phase' = "dead" /\ UNCHANGED <<config, loaded>>
  /\ UNCHANGED <<now, pair, given, index, work, reply, records>>

Issue(u, how) ==
  /\ pair' = [owner |-> u, by |-> how,
              tokens |-> TokenPair(u, now, config["expiration"], config["refresh"])]
  /\ UNCHANGED <<now, config, loaded, phase, given, index, work, reply, records>>

Login == phase = "idle" /\ \E u \in Users : Issue(u, "login")

\* Anybody may ask, with either token of the last pair.
Renew ==
  /\ phase = "idle" /\ pair # NoPair
  /\ \E u \in Users : /\ \E token \in {pair.tokens.access, pair.tokens.refresh} : Renews(token, u, now)
                      /\ Issue(u, "renewal")

Tick ==
  /\ phase = "idle" /\ now < MaxTime
  /\ now' = now + 1
  /\ UNCHANGED <<config, loaded, pair, phase, given, index, work, reply, records>>

----------------------------------------------------------------------------
(* A request comes.                                                        *)

\* A foreign token has all an access token needs but the signature.
Token(credential) ==
  CASE credential = "access" -> pair.tokens.access
    [] credential = "refresh" -> pair.tokens.refresh
    [] credential = "foreign" -> [pair.tokens.access EXCEPT !.secret = NoSecret]
    [] OTHER -> NoToken

\* The global middlewares behind logging, and the endpoint's handlers.
Handlers(c, e) ==
  <<"cors", "xss", "sql">> \o (IF c["limited"] = 1 THEN <<"limit">> ELSE <<>>) \o e.chain

Arrive ==
  /\ phase = "idle"
  /\ \E a \in Arrivals :
       /\ a.credential # "none" => pair # NoPair
       /\ request' = [method |-> a.method, path |-> a.path, query |-> a.query, body |-> a.body,
                      origin |-> a.origin, connection |-> a.connection,
                      token |-> Token(a.credential), at |-> now]
       /\ endpoint' = Dispatch(config["dynamic"] = 1, loaded, a.method, a.path)
       /\ body' = a.body
  /\ handlers' = Handlers(config, endpoint')
  /\ phase' = "busy"
  /\ UNCHANGED <<process, index, context, headers, matched, received, health, reply, records>>

----------------------------------------------------------------------------
(* gin.Context.                                                            *)

At(handler) ==
  /\ phase = "busy"
  /\ index \in DOMAIN handlers /\ handlers[index] = handler

\* The handler returns, and the next one has its turn.
Pass == index' = index + 1 /\ UNCHANGED <<phase, given, reply, records>>

\* The handler answers, and no other has its turn.
Abort(status) ==
  /\ index' = Len(handlers) + 1
  /\ reply' = status
  /\ UNCHANGED <<phase, given, records>>

Panic == phase' = "panicked" /\ UNCHANGED <<given, index, reply, records>>

\* Fault: there is no gin.Recovery.
NoRecovery == FALSE

\* Fault: gin.Recovery is outside of the logging middleware.
RecoverOutside ==
  /\ phase = "panicked"
  /\ phase' = "answered"
  /\ reply' = IF reply = "none" THEN "500" ELSE reply
  /\ UNCHANGED <<process, given, index, work, records>>

\* gin.Recovery changes the status of an answer that has not begun.
Recover ==
  /\ phase = "panicked"
  /\ phase' = "busy"
  /\ index' = Len(handlers) + 1
  /\ reply' = IF reply = "none" THEN "500" ELSE reply
  /\ UNCHANGED <<process, given, work, records>>

\* The logging middleware is the outermost.
Log ==
  /\ phase = "busy" /\ index > Len(handlers)
  /\ records' = Append(records, reply)
  /\ phase' = "answered"
  /\ UNCHANGED <<process, given, index, work, reply>>

\* gin takes its context back.
Release ==
  /\ phase = "answered"
  /\ phase' = "idle"
  /\ request' = NoRequest
  /\ endpoint' = NotFound
  /\ handlers' = <<>>
  /\ index' = 1
  /\ context' = Nobody
  /\ headers' = Claimed
  /\ body' = Nothing
  /\ matched' = 0
  /\ received' = Nothing
  /\ health' = Nothing
  /\ reply' = "none"
  /\ records' = <<>>
  /\ UNCHANGED process

----------------------------------------------------------------------------
(* The global middlewares.                                                 *)

\* gin-contrib/cors: a request of the same origin has none.
Cors ==
  /\ At("cors")
  /\ CASE request.origin = "denied" -> Abort("403")
       [] request.origin = "allowed" /\ request.method = "OPTIONS" -> Abort("204")
       [] OTHER -> Pass
  /\ UNCHANGED <<process, work>>

XSSProtection ==
  /\ At("xss")
  /\ IF config["xss"] = 1 /\ XSSRefuses(request.method, request.query, body)
       THEN Abort("400") ELSE Pass
  /\ body' = IF config["xss"] = 1 /\ request.method \in WithBody THEN AfterXSS(body) ELSE body
  /\ UNCHANGED <<process, context, headers, matched, received, health>>

SQLInjectionProtection ==
  /\ At("sql")
  /\ IF config["sql"] = 1 /\ SQLRefuses(request.method, request.query, body)
       THEN Abort("400") ELSE Pass
  /\ body' = IF config["sql"] = 1 /\ request.method \in WithBody THEN AfterSQL(body) ELSE body
  /\ UNCHANGED <<process, context, headers, matched, received, health>>

\* RateLimitChain says which.
RateLimit ==
  /\ At("limit")
  /\ Pass \/ Abort("429")
  /\ UNCHANGED <<process, work>>

----------------------------------------------------------------------------
(* JWTMiddleware.                                                          *)

\* The three readings of the clock while a token is validated.
Readings == {t \in (now .. MaxTime) \X (now .. MaxTime) \X (now .. MaxTime) :
               t[1] <= t[2] /\ t[2] <= t[3]}

Accepts(t) == request.token # NoToken /\ ValidateToken(request.token, t[1], t[2], t[3])

\* Fault: what the instance is told is left to the context.
IdentifyInContext ==
  /\ headers' = headers
  /\ context' = [id |-> request.token.user.id, company |-> request.token.user.company]

\* What is set in the request and in the context is the token's user.
Identify ==
  /\ headers' = CreateAuthHeaders(request.token.user)
  /\ context' = [id |-> request.token.user.id, company |-> request.token.user.company]

Unidentified == UNCHANGED <<headers, context>>

\* Common to the three middlewares, which may fail with this status.
Validating(handler, t) ==
  /\ At(handler)
  /\ now' = t[3]
  /\ UNCHANGED <<config, loaded, pair, body, matched, received, health>>

Authenticate ==
  \E t \in Readings :
    /\ Validating("authenticate", t)
    /\ IF Accepts(t) THEN Pass /\ Identify ELSE Abort("401") /\ Unidentified

RequireRoles ==
  \E t \in Readings :
    /\ Validating("roles", t)
    /\ CASE ~Accepts(t) -> Abort("401") /\ Unidentified
         [] Accepts(t) /\ ~ValidateRole(request.token.user, endpoint.roles) ->
              Abort("403") /\ Unidentified
         [] OTHER -> Pass /\ Identify

OptionalAuth ==
  \E t \in Readings :
    /\ Validating("optional", t)
    /\ Pass
    /\ IF Accepts(t) THEN Identify ELSE Unidentified

----------------------------------------------------------------------------
(* ProxyHandler.                                                           *)

\* The service is found by the beginning of the path; its instance would be
\* asked through the proxy service there is not.
LegacyProxy ==
  /\ At("proxy") /\ config["dynamic"] = 0
  /\ Abort("404") \/ Abort("503") \/ Panic
  /\ UNCHANGED <<process, work>>

\* Fault: the error of MatchRoute is not looked at.
ProxyAnyway ==
  /\ At("proxy") /\ config["dynamic"] = 1
  /\ matched' = MatchRoute(loaded, request.method, request.path)
  /\ \/ Abort("503")
     \/ phase' = "sending" /\ UNCHANGED <<given, index, reply, records>>
  /\ UNCHANGED <<process, context, headers, body, received, health>>

\* The maintenance mode and the registry are Gateway's.
Proxy ==
  /\ At("proxy") /\ config["dynamic"] = 1
  /\ LET k == MatchRoute(loaded, request.method, request.path)
     IN \/ Abort("503") /\ UNCHANGED matched
        \/ k = 0 /\ Abort("404") /\ UNCHANGED matched
        \/ /\ k # 0
           /\ matched' = k
           /\ phase' = "sending"
           /\ UNCHANGED <<given, index, reply, records>>
  /\ UNCHANGED <<process, context, headers, body, received, health>>

\* The instance gets the request and answers; the answer may break off, which
\* makes the reverse proxy panic, before or after its status is sent.  Gateway
\* says how long that may take.
Forward ==
  /\ phase = "sending"
  /\ \E got \in Deliveries(Table[matched], body) :
       received' = [path |-> SentPath(Table[matched], request.path),
                    headers |-> RemoveHopByHop(Customized(Table[matched], headers, context),
                                               request.connection),
                    got |-> got]
  /\ \E answer \in {"upstream", "broken", "nothing"} :
       /\ phase' = IF answer = "upstream" THEN "busy" ELSE "panicked"
       /\ reply' = IF answer = "nothing" THEN "none" ELSE "upstream"
  /\ index' = index + 1
  /\ UNCHANGED <<process, given, context, headers, body, matched, health, records>>

\* The instance cannot be reached, the transport has failed, the client has left
\* or the deadline for reading the request has passed.
BadGateway ==
  /\ phase = "sending"
  /\ phase' = "busy"
  /\ index' = index + 1
  /\ reply' = "502"
  /\ UNCHANGED <<process, given, work, records>>

----------------------------------------------------------------------------
(* HealthChecker.                                                          *)

\* Check, with its copy of the checks.
StartChecks ==
  /\ At("health")
  /\ phase' = "checking"
  /\ health' = [left |-> Checks, results |-> <<>>, overall |-> "healthy", critical |-> FALSE]
  /\ UNCHANGED <<process, given, index, context, headers, body, matched, received, reply, records>>

\* Fault: the last failure decides how bad it is.
AfterLast(h, check, status) ==
  [left |-> Tail(h.left),
   results |-> [n \in DOMAIN h.results \cup {check.name} |->
                  IF n = check.name THEN status ELSE h.results[n]],
   overall |-> IF status = "unhealthy" THEN "degraded" ELSE h.overall,
   critical |-> IF status = "unhealthy" THEN check.critical ELSE h.critical]

After(h, check, status) ==
  [left |-> Tail(h.left),
   results |-> [n \in DOMAIN h.results \cup {check.name} |->
                  IF n = check.name THEN status ELSE h.results[n]],
   overall |-> IF status = "unhealthy" /\ ~check.critical THEN "degraded" ELSE h.overall,
   critical |-> h.critical \/ (status = "unhealthy" /\ check.critical)]

\* runCheck: a check that takes too long has failed.
RunCheck ==
  /\ phase = "checking" /\ health.left # <<>>
  /\ \E status \in {"healthy", "unhealthy"} : health' = After(health, Head(health.left), status)
  /\ UNCHANGED <<process, phase, given, index, context, headers, body, matched, received,
                 reply, records>>

ReportHealth ==
  /\ phase = "checking" /\ health.left = <<>>
  /\ phase' = "busy"
  /\ index' = index + 1
  /\ reply' = IF health.critical THEN "503" ELSE "200"
  /\ UNCHANGED <<process, given, work, records>>

----------------------------------------------------------------------------
(* The other handlers, whose state is elsewhere or whose answer is fixed.  *)

Answers == [report |-> {"200"}, get |-> {"200", "404"}, register |-> {"200", "400"},
            deregister |-> {"200", "500"}, prometheus |-> {"501"}, missing |-> {"404"}]

Serve ==
  /\ \E h \in DOMAIN Answers : At(h) /\ \E status \in Answers[h] : Abort(status)
  /\ UNCHANGED <<process, work>>

----------------------------------------------------------------------------

Init ==
  /\ now = Start
  /\ config = NoFile
  /\ loaded = FALSE
  /\ pair = NoPair
  /\ phase = "boot"
  /\ request = NoRequest
  /\ endpoint = NotFound
  /\ handlers = <<>>
  /\ index = 1
  /\ context = Nobody
  /\ headers = Claimed
  /\ body = Nothing
  /\ matched = 0
  /\ received = Nothing
  /\ health = Nothing
  /\ reply = "none"
  /\ records = <<>>

Middleware == Cors \/ XSSProtection \/ SQLInjectionProtection \/ RateLimit
Identification == Authenticate \/ RequireRoles \/ OptionalAuth
Handling == LegacyProxy \/ Proxy \/ StartChecks \/ RunCheck \/ ReportHealth \/ Serve
Serving == Middleware \/ Identification \/ Handling \/ Recover \/ Log \/ Release

Next == Load \/ Login \/ Renew \/ Tick \/ Arrive \/ Serving \/ Forward \/ BadGateway

Spec == Init /\ [][Next]_vars

\* A goroutine that can run does.  The checks keep to their timeout; nothing
\* makes a client come, a user log in or, here, an instance answer.
FairSpec == Spec /\ WF_vars(Serving)

----------------------------------------------------------------------------

PipelineTypeOK ==
  /\ now \in Start .. MaxTime
  /\ phase \in {"boot", "dead", "idle", "busy", "sending", "checking", "panicked",
               "answered"}
  /\ phase \notin {"boot", "dead"} => config \in Configurations
  /\ loaded \in BOOLEAN
  /\ index \in 1 .. Len(handlers) + 1
  /\ phase = "sending" => matched \in DOMAIN Table
  /\ received # Nothing => received.got \in 0 .. request.body.size
  /\ phase = "checking" => Len(health.left) <= Len(Checks)
  /\ Len(records) <= 1

\* A token that says who its bearer is, at time t.
Current(token, t) ==
  /\ token # NoToken
  /\ token.secret = Secret
  /\ token.user \in Users
  /\ token.issuedAt <= t /\ t < token.expiresAt

Identified == \E t \in request.at .. now : Current(request.token, t)

Entitled(roles) == roles # {} => \E role \in roles : HasRole(request.token.user, role)

\* README.md:313, the middleware's "token validation, role permissions": the
\* route gin finds brings the handlers that look at the token, the route
\* MatchRoute finds says where the request goes.  A request is sent on only with
\* the token gin's route asks for, which was valid at some moment since the
\* request came, and one of its roles; where gin's is the one that MatchRoute
\* finds, those are what services.yaml asks for.  Nothing more is true: a
\* request that comes by another way, as by /api/v1/proxy, which only looks at
\* a token if there is one, meets none of the demands of MatchRoute's route.
\* The administration is behind a token and its role always.
Authorised ==
  /\ phase = "sending" =>
       LET r == Table[matched]
       IN /\ Authenticates(endpoint) => Identified
          /\ Entitled(endpoint.roles)
          /\ NeedsToken(r) /\ endpoint \in EndpointsOf(r) => Identified /\ Entitled(RolesOf(r))
  /\ At("report") /\ Head(endpoint.path) = "admin" => Identified /\ Entitled({"admin"})

\* The parts of the request that both filters are there to look at.
Flagged(r) ==
  \/ r.method = "GET" /\ r.query # {}
  \/ r.method \in WithBody /\ r.body.type = "json" /\ r.body.text # {}
  \/ r.method \in WithBody /\ r.body.type \in {"form", "multipart"} /\ r.body.values # {}

\* Nothing either filter objects to gets to an instance or to a handler of the
\* gateway, although each reads the body the other needs, and whatever
\* config.yaml says of them ("enabled by default", config.go:240).
Screened ==
  /\ phase = "sending" => ~Flagged(request)
  /\ \A h \in DOMAIN Answers \ {"missing"} : At(h) => ~Flagged(request)

\* What services.yaml allows of a body; 0 is any size.
Allowed(r) == IF r.maxBodySize > 0 THEN r.maxBodySize ELSE MaxBodyOf[r.service]

\* An instance that answers has got the whole body, which the filters have read
\* before, unless it is larger than allowed.  The forms the filters parse are
\* not put back: such a request fails, and one of unknown length arrives empty.
DeliveredWhole ==
  received # Nothing =>
    \/ received.got = request.body.size
    \/ 0 < Allowed(Table[matched]) /\ Allowed(Table[matched]) < request.body.size
    \/ request.body.type \in {"form", "multipart"} /\ request.body.chunked

\* ARCHITECTURE.md:137: an instance is told the id, the company and the role of
\* the token's user.  Behind every endpoint that asks for a token, whichever
\* route MatchRoute finds, what an instance is told is never what the request
\* said itself: it is the token's, but for a role that services.yaml sets, and
\* nothing of what the request names in its Connection header.
IdentityForwarded ==
  received # Nothing /\ Authenticates(endpoint) =>
    \A h \in IdentityHeaders :
      \/ h \in request.connection /\ received.headers[h] = Blank
      \/ /\ h \notin request.connection
         /\ \/ received.headers[h] = CreateAuthHeaders(request.token.user)[h]
            \/ /\ h = "role" /\ h \in DOMAIN HeadersSet(Table[matched])
               /\ received.headers[h] = HeadersSet(Table[matched])[h]

\* Of the limiters a configuration installs, only one made for a rule of
\* api_limit, which setDefaults and validate do not look at, can be without a
\* single request to grant: for the others, what is missing, 0 or negative in
\* the file is replaced or refused.
LimitsUsable ==
  phase \notin {"boot", "dead"} /\ config["limited"] = 1 =>
    \A l \in DOMAIN Limits(config) : Limits(config)[l] > 0 \/ l = "api"

\* Only the owner of a pair gets another for it, and not after the time of its
\* refresh token.
RenewedByOwner ==
  [][pair' # pair /\ pair'.by = "renewal" =>
       /\ pair # NoPair
       /\ pair'.owner = pair.owner
       /\ now < pair.tokens.refresh.exp]_vars

\* The monitor is told of every request once, with the status its client got,
\* the panics included.
RecordedAsAnswered ==
  phase = "answered" => reply # "none" /\ records = <<reply>>

\* /health is 503 when a critical check failed, and only then; a failure of
\* another one is reported and the answer is still 200.
HealthExplained ==
  phase = "busy" /\ health # Nothing =>
    LET failed == {k \in DOMAIN Checks : health.results[Checks[k].name] = "unhealthy"}
    IN /\ reply = "503" <=> \E k \in failed : Checks[k].critical
       /\ health.overall = "degraded" <=> \E k \in failed : ~Checks[k].critical

\* Every request is answered and recorded, or sent to an instance; how long
\* that may take is in Gateway.
Answered == phase \in {"busy", "checking", "panicked", "answered"} ~> phase \in {"idle", "sending"}

\* ARCHITECTURE.md:105: "/api/v1/users/*" goes to the user service.  A request
\* that gin takes to a route of services.yaml is not told that there is none.
RoutesServed ==
  phase = "answered" /\ config["dynamic"] = 1
    /\ endpoint \in ServiceEndpoints(loaded) => reply # "404"
=============================================================================
