# A formal model of expense-api-gateway

TLA+ modules, TLC configurations and TLAPS proofs for the gateway in this
repository: a Go program that takes HTTP requests, limits their rate, finds an
instance of the service they are for in an in-memory registry, and forwards
them. Paths below are relative to the repository.

## 1. The system

| component | source | state | operations |
|---|---|---|---|
| service discovery | `internal/service/discovery` | instances by name and id, their health, the watch channels, one `RWMutex`, `stopCh` | Register, Deregister, Discover, Watch, Start, Stop, the health-check loop and the checks it spawns |
| rate limiter | `internal/middleware/ratelimit`, `MemoryRateLimiter` | the times recorded for each key, a mutex | Allow, Reset |
| rate-limit middlewares | the same file, `RateLimitMiddleware` | the map of limiters, a mutex only its writer takes | Global, IP, User and API middlewares, ResetRateLimit |
| proxy service and handlers | `internal/service/proxy/proxy_service.go`, `internal/handler` | two copies of the maintenance mode | proxy a request, register, deregister, toggle maintenance |
| process | `cmd/api/main.go` | the HTTP server | construct, serve, signal, Shutdown with a deadline |
| monitor | `internal/service/monitor`, `internal/middleware/logging` | counters, in total and by endpoint | RecordRequest, ResetMetrics, GetTopEndpoints |
| route parser | `internal/service/proxy/route_parser.go` | the routes, read once | LoadConfig, MatchRoute |
| router | `internal/router` | gin's tree of endpoints | the order of the middlewares, static and dynamic routes |
| JWT and roles | `internal/middleware/auth`, `internal/infrastructure/jwt`, `internal/domain/auth.go`, `pkg/auth` | none but the key | issue, validate, refresh a token; role checks; the identity an instance is told |
| health endpoint | `pkg/healthcheck` | the checks, the result of one series of them | AddCheck, Check, Handler |
| configuration | `internal/config` | read once | Load |
| XSS and SQL injection filters | `internal/middleware/security` | how far the body of the request has been read | refuse or pass on a request |
| CORS | `internal/middleware/cors` | none | answer or pass on a request |
| data types | `internal/domain/route.go`, `errors.go`, `internal/dto` | none | constructors |

How they interact. `main` loads the configuration, ends if it is not valid, and
builds one of two routers. Every request is a goroutine. gin finds its endpoint
and runs a chain of handlers over it: logging, CORS, recovery, the two filters,
the rate limits, then what the endpoint asks for (token, roles) and its handler.
With the dynamic routes (`configs/config.yaml:133` selects them) the handler of a
proxied endpoint is `ProxyGinRequest`, which reads the maintenance flag, looks for
the route a second time with `MatchRoute`, calls `Discover` and forwards to the
first instance. The handlers of `/api/v1/services` call the same registry from
other goroutines; the administrator's toggle writes the flag that requests
read; the logging middleware records every answer in the monitor. Nothing is
persisted: a restart starts from the initial state.

What is hard here: one lock that a goroutine takes twice (`notifyWatchers`
calls `Discover` under `Lock`); pointers and flags used after the lock that
protected them is released, or without one; checks that finish after the
instance they check was replaced; a map written under a mutex and read without
it; a sliding window that must bound every window and not only the aligned
ones; a shutdown with requests in flight; one request whose route is found by two
routers with different rules, whose body is read by two filters and a transport,
and whose token is looked at up to three times while the clock runs. `PROJECT.json` lists each hazard at
its line with the properties aimed at it.

What makes each part correct:

* discovery: calls are linearizable, its lock excludes, handed-out instances
  stay healthy, calls return, loops end, unhealthy instances recover;
* limiter and middlewares: no window holds more than the limit, nobody is
  turned away who had room, and the middlewares never throw a limiter away;
* gateway: the announced maintenance mode is the one requests meet and toggles
  that collide do not part its two copies for good, answers agree with what the
  registry held, requests and the shutdown come to an end;
* monitor: the breakdowns add up and the reports are in order;
* pipeline: a request is forwarded only with the token and role that the endpoint
  gin took it by asks for; what a filter objects to gets nowhere; an instance
  that answers got the whole body; what it is told of the user is not what the
  client claimed; every request is answered and recorded once, panics included;
* configuration and tokens: no limiter is installed with a limit that lets
  nothing through, those of the API rules apart, and only the owner of a pair of
  tokens renews it.

## 2. The modules

| module | models | state and actions |
|---|---|---|
| `Registry` | the promise of `ServiceDiscovery` | a call is open, takes effect in one step, is done; one action per method |
| `Discovery` | `InMemoryDiscovery` | a goroutine per caller, per check, per Watch sender and for the loop; `pc` says where it is, `mutex` is the `RWMutex`; a section under the lock is one action named after its function |
| `RateLimiter` | `MemoryRateLimiter` | `requests` is the map of times, `granted` a history of every grant; Grant, Reject, Reset, Tick |
| `RateLimitChain` | `RateLimitMiddleware` | EXTENDS `RateLimiter`; `stage` says which middleware a request is in; a read and the write of the limiter map are steps that begin and end, and `Crash` is what Go's runtime may do when they overlap |
| `Gateway` | handler, proxy service, main | composes `Registry` (`Reg!`); an action per step of `ProxyGinRequest`, per access to a maintenance flag, per step of the shutdown; `ReadDeadline` is what the server's `ReadTimeout` does to a request that was forwarded; `settled`, `mode`, `offered` and `gap` are histories |
| `Monitor` | `Monitor` | counters as records, one action per operation; GetTopEndpoints is an operator, the two loops of its exchange sort are recursive functions |
| `Config` | `internal/config` | operators: SetDefaults, Validate, Loads, the Limits of every limiter installed |
| `Tokens` | `pkg/auth`, `infrastructure/jwt`, `domain/auth.go` | operators: the two kinds of token, ValidateToken with its three readings of the clock, Renews, HasRole |
| `Filters` | `middleware/security` | operators: what each filter refuses and what it leaves of the body |
| `Routes` | `router.go`, `route_parser.go` | operators: MatchRoute, and gin's Dispatch over the endpoints of either router |
| `Forwarding` | `proxy_service.go` from the target URL on | operators: SentPath, Customized headers and what RemoveHopByHop leaves of them, Announced length, Deliveries |
| `Pipeline` | `main`, gin's context, every middleware and handler | composes the five above: one action per handler, which passes the request on, answers it, or panics; `handlers` and `index` are gin's chain, `phase` says where process and request are |
| `MC*` | | the small instances TLC checks |
| `*Proofs`, `DiscoveryRefines` | | theorems |

`Discovery` implements `Registry` (property `Linearizable`), and `Gateway` uses
the registry through `Registry` alone, with nothing for `Start` to register, as
`main` never calls it. `RateLimitChain` implements
`RateLimiter` (property `KeepsLimiters`), so what is proved of a limiter holds
of the chain. Definitions that begin with "Fault:" are plausible mistakes in the
definition after them; each property is checked to fail under one of them.

Conventions. An instance in `Discovery` stands for one `*ServiceInstance`
pointer: registering again under the same name and id is another pointer, so a
check that holds the old one is told apart from the new entry. A key of a
limiter is a tuple, as the code's keys are formatted from the same parts. A
recorded time carries a number because the code's slice may hold one time
twice. A path is the sequence of its segments; a text is the set of features of
it that a filter's patterns find; a body is what its sender made it plus how far
it has been read. A time is a number of seconds.

`Pipeline` and the concurrent modules meet at three actions. `RateLimit` may
pass a request or answer 429, whichever `RateLimitChain` decides; `Proxy` may
answer 503 at any time, for the maintenance mode and the registry of `Gateway`;
`Log` hands a status to the monitor, which `Monitor` counts. Everything else of a
request (context, headers, body, chain) belongs to its goroutine, so `Pipeline`
follows one request at a time and loses no interleaving. The clock runs while a
token is validated, where the code reads it, and between requests; nothing else
of a request depends on it.

No route issues tokens: `Login` and `Renew` stand for a service that uses
`pkg/auth` as `tests/` do, and give the requests of the model their tokens.

## 3. The runs

| run | shows | bounds |
|---|---|---|
| `discovery_safe` | types, mutual exclusion, handed-out instances stay healthy, a notification under the lock is the last event, the refinement of `Registry` | 2 callers, 2 pointers with one id under 2 names, one of them configured, 1 watch channel, at most 1 check outstanding per instance |
| `discovery_live` | calls return, the loop and the sender end, unhealthy instances recover | 2 callers, 1 name, 1 pointer, 1 channel |
| `discovery_watch` | **violated**: registering a watched service returns | as above |
| `rate_limiter` | the bound of every window, no false reject | 2 keys (2 in 3 ticks, 1 in 2), 6 ticks |
| `rate_limit_chain` | the bound for the chain, the refinement of `RateLimiter`, every request is answered while the process lives | 2 requests in flight, 2 addresses, 1 user, 1 limited endpoint, clock 0..1 |
| `user_quota` | **violated**: a user's quota holds | as above |
| `gateway` | answers against the registry, requests and shutdown end | 1 request, 1 operator, 1 administrator, 1 service with 2 instances (one with the empty id), a target with a route and one without |
| `gateway_modes` | maintenance mode, the two flags come together again | as `gateway` with 2 administrators, who are symmetric, and 1 instance |
| `gateway_two_admins` | **violated**: the two flags agree | 2 administrators |
| `monitor` | the breakdowns add up, the average is within what was measured, the sort is right for every map order | 3 endpoints, codes 200, 302, 404, times 1 and 4, 5 requests between resets |
| `pipeline` | authorisation, screening, delivery, identity, usable limits, one true record of each request, the health report, renewal by the owner, every request is answered | 6 routes, 2 users, 6 files, 3 health checks, clock 2..5, some 100 requests (below) |
| `param_routes` | **violated**: a request that gin takes to a route is not told that there is none | as `pipeline` |

Why the bounds are enough. The races in discovery need two goroutines, besides
the loop and its checks, and two pointers that collide; more callers only
queue at the lock, and the safety properties about it are proved for any
number. A window is compared with the grants in it, so a limit that is reached
and a clock of two windows give every relative position of request, window start
and expiry; again the bound is proved in general. The chain needs two requests
to meet at one missing limiter. In `gateway` requests do not interact with each
other except through the registry and the flag, so one request against one
operator and one administrator has all their races with it; two requests at once
would only multiply the states. Toggles race with each other: `gateway_modes` has
two administrators, each of whom toggles any number of times, and the theorems
have any number. What a request finds in the registry plays no part there, so one
instance is enough. Five requests on three endpoints reach every
order of counts, ties included.

`pipeline` has a route of every kind: without a token, with one, with roles, with
a parameter, with a limit on the body, with a role header of its own, and two
outside of the groups, which `/api/v1/proxy` reaches too: one of them asks for a
token at its own endpoint. A user has a role by either of its two claims.
A request comes with no token, an access token, a refresh token or one of another
key; with JSON, form, multipart or other text of every feature either filter
looks for or none, readable or not, chunked or not, shorter than, as long as and
longer than the length allowed; from the same, an allowed or a denied origin; it
claims an identity of its own in its headers, and may name identity headers in its
`Connection` header. A configuration file is missing, empty, good, or bad in its
limit, expiry or port; one has an API rule without a limit.
Four ticks of the clock are enough for a token to be issued, valid, at each of
its boundaries, and expired within one validation. Three health checks, one of
them critical, fail in every combination and order. This gives some 275000
states.

`MaxPending`, `MaxTime` (with `Start`, which is 2 so that a time before it
and Go's zero differ) and `MaxRequests` bound
what the program does not; every other set is finite by configuration.

Deadlock checking is off where the modelled program may really stop: discovery
after a notification (the finding), the chain after the runtime stopped
the process, the gateway after it exited, the pipeline when `main` ends on a
configuration it cannot use (`phase = "dead"`). It is on for the limiter and the
monitor.

### Fairness

Only what the code's scheduling gives. Goroutines that can run are run (weak
fairness of their steps). `Lock` is strongly fair because Go's mutexes hand over
to a waiter of more than a millisecond, and so is the loop's exit because a
`select` with several ready cases picks at random. The ticker fires. The deadline
of `Shutdown` passes, and the deadline of the server's reads (`main.go:73`), which
ends a forwarded request once it has been read to its end (`ReadDeadline`; before
that, while the instance still takes its body, nobody reads from the connection,
and no deadline of a read ends anything). Clients, operators, administrators,
readers of watch channels, Stop, signals and upstream instances owe nothing: an
instance may hang, and it may refuse to take a body for ever, which
`RequestAnswered` excepts. In `Pipeline` the
handlers of a request that has come are weakly fair (`WF_vars(Serving)`): the
health checks keep their own timeout (`healthcheck.go`, `context.WithTimeout`),
while an instance may take as long as it likes, so `Answered` promises only that
a request is answered or with an instance.

## 4. Proofs

| theorem | says, for all values of the constants |
|---|---|
| `DiscoveryProofs!TypeCorrect`, `MutualExclusion`, `NotifyIsFinal`, `HandedOutStaysHealthy` | `Spec => []TypeOK`, `[]Exclusive`, `NotifyFreezes`, `[]HandedOutHealthy` |
| `DiscoveryRefines!Refinement` | `Spec => Linearizable`: the locked registry implements `Registry` |
| `RateLimiterProofs!LimiterTypes`, `SlidingWindow`, `RejectsJustly` | `LimiterSpec => []LimiterTypeOK`, `[]WindowBound`, `[]NoFalseReject` |
| `RateLimitChainProofs!ChainKeepsLimiters`, `ChainBound`, `ChainTypes` | `Spec => KeepsLimiters`, `[]WindowBound`, `[]ChainTypeOK` |
| `GatewayProofs!MaintenanceHolds`, `FlagsComeTogether` | with the dynamic routes, `Spec => []MaintenanceObeyed`, `[]FlagsRejoin`, with any number of administrators |
| `GatewayProofs!AnswersAgree`, `GatewayTypes` | `Spec => []AnsweredFromRegistry`, `[]GatewayTypeOK` |
| `PipelineProofs!Authorisation`, `Identity` | `Spec => []Authorised`, `[]IdentityForwarded` |
| `PipelineProofs!Screening`, `Delivery` | `Spec => []Screened`, `[](Measured /\ DeliveredWhole)` |
| `PipelineProofs!UsableLimits`, `OwnersRenew` | `Spec => []LimitsUsable`, `RenewedByOwner` |
| `PipelineProofs!AnswersRecorded`, `Types` | `Spec => []RecordedAsAnswered`, `[]PipelineTypeOK` |
| `PipelineProofs!HealthReported` | `Spec => [](Checking /\ HealthExplained)`, for every list of checks |
| `MonitorProofs!AverageWithin`, `MonitorTypes` | `Spec => []AverageMeasured`, `[]MonitorTypeOK` |
| `MonitorProofs!BooksAlwaysBalance`, `BusiestAlwaysFirst` | `Spec => []BooksBalance`, `[]BusiestFirst` |

Assumptions are named in the modules that declare the constants, and TLC
evaluates them in every run. Most say that the constants are of their kind and
that identifiers of different kinds differ. The others are conditions on what
the operator of a gateway writes or on the world:

* `MonitorAssumption`: there are finitely many status codes (they have three
  digits), so that counts can be added over them;
* `ConfigAssumption`: the defaults that `setDefaults` fills in are positive and
  turn the filters on;
* `DurationAssumption`: no token duration in a file is so far below zero that a
  token would expire before 1970, where an expiry of 0 means that there is none;
* `EndpointsDistinct`: a request has at most one best endpoint. gin panics at the
  start otherwise.

Nothing is assumed of how gin's endpoint and the route of `MatchRoute` relate,
since the code does not relate them.

The arguments:

* Discovery. `Exclusive` is not inductive: whether a goroutine may enter
  depends on what the mutex recorded of the others. `LockInv` adds that the
  recorded writer is exactly the goroutine past `Lock`, that readers and
  waiters are in `Discover`, and that a notifier found no reader left.
  `NotifyIsFinal` then follows step by step: nobody holds the lock for reading
  and the writer waits, so no step can change the registry.
  `HandedOutStaysHealthy` needs that an instance that is held is never the
  fresh argument of a registration and that a check only ever raises health.
* The refinement. A call of `Registry` is open from its first step to its return
  (`CallPhase`, `CallMade`), and takes effect in the step of `Discovery` that
  writes or reads the maps under the lock; the lock, the notification, the
  loop's rounds and the channels are stutters or `Registry`'s change of health.
  That a step maps to a step needs two facts beyond `Inv`: `PlacesInv`, an
  instance sits under its own name and id and its name is known, so a `Put`
  or a `Remove` is at the place that `Registry` computes; and `CallersInv`, a
  caller's place agrees with the call it makes, so what happens at `write` is
  the effect of that call and of no other. There is a lemma for each action.
* Limiter. The slice is not all the history, so `WindowBound` needs two
  facts: every grant of the window that ends now is still in the slice, and
  every grant is numbered below the number of grants. Older windows
  cannot gain a grant.
* Chain. The step that installs a limiter empties its slices. It empties
  nothing: its writer holds `m.mutex` while the endpoint is missing
  (`HoldersInv`), and a missing endpoint has nothing recorded (`MissingInv`).
  The types add that the histories of the users stay finite (`HistoryInv`).
* Gateway. Of toggles that collide nothing is known but that they end, so the
  invariants speak of the time from a toggle that begins while no other is under
  way until the next one begins (`settled`): then there is at most one toggle,
  which one place after the other makes `local`, the handler's copy, the proxy's
  and what is `told` the same (`FlagInv`), and a request that met the mode of that
  time still meets it (`ModeInv`). Before, the copies may differ, as
  `gateway_two_admins` shows. `Answering` follows the request: what Discover returned is among what was offered
  since (`AnswerOf`). It needs that the registry knows the name of whatever is
  registered (`KnownInv`), since otherwise Discover's error would not mean that
  there is no instance.
* Pipeline. The invariants build on each other. `Settled`: the configuration is
  one that loads, the tokens are a pair that was issued. `Arrived`: the
  chain is CORS, the filters, perhaps the limits, then handlers that look at the
  token, then exactly one that answers (`Shape`, `Proper`, the latter from a case
  for each endpoint of the two routers). `Counted`: the index is within it, and
  there is a status exactly when the chain is through. `Looked`: if the index is
  past a token check, the token was valid at some reading of the clock since
  the request came; if past a role check, its user has a role. `Routed`: what is
  sent goes where `MatchRoute` says. A request that is sent is past all but the
  last of its endpoint's handlers, whence `Authorised`: what the endpoint asks for
  was there. Where the endpoint is one made from the route of `MatchRoute`, its
  chain has all that route asks for (`ChainAsks`). `IdentityForwarded` follows the
  headers from there through `Customized` and `RemoveHopByHop`.
  `Filtered` gives the body as each filter leaves it, from which `Screened` and
  `DeliveredWhole` follow, and `Placed` completes the types. `Checking` is the
  invariant of the health endpoint's loop: after n checks, what is left is the
  list from n + 1 on, there is a result for each name of the first n, and the
  overall status is what those that failed make it.
* Monitor. `NextTime` stays between its arguments, and an entry that exists has
  counted a request, so no time is averaged with the zero of a fresh entry.
  The books are sums, and a sum is a fold, of which the library states no
  theorem. The lemmas about totals close the gap: the function over subsets
  that the fold speaks of exists (`SumsExist`, level by level, by an induction
  over sets of naturals that follows from their well-foundedness, `Counting`),
  any element can be taken out first (`SumsSplit`), and so a place that gains
  d raises the total by d (`TotalGains`). With that, `BooksBalance` is inductive
  together with the types and the finiteness of the endpoints. `BusiestFirst`
  speaks of one state. `LoopExists` gives the functions of the two loops of the
  sort, `PassFixes` says that pass i puts into place i a count no less than
  all behind it and leaves the places before i, and an injective list of all
  endpoints stays one, so that whatever is cut off was listed.

Only model-checked: all liveness (`Answered`, `RequestAnswered`, `ShutdownEnds`,
`CallsReturn` and the others of discovery), which is out of the prover's reach.
Every invariant and every safety property of the passing runs is proved.

## 5. What the runs say of the code

* `discovery_watch`: `Register` holds `d.mutex` when `notifyWatchers` calls
  `Discover`, which waits for it (`discovery.go:194`). The first registration
  of a watched name never returns and the registry is locked for good.
  `tests/unit/service_discovery_test.go:144-155` expects it to return.
* `user_quota`: the user limit is installed before authentication
  (`ratelimit.go:199`), so it counts addresses and not users;
  `tests/unit/middleware_ratelimit_test.go:114` says "per user".
* `param_routes`: `patternToRegex` (`route_parser.go:173`) looks for a parameter
  behind a backslash that `QuoteMeta` does not write, so `/:path` matches only
  itself. gin dispatches `GET /api/v1/users/x` to `ProxyGinRequest`, which answers
  404. Most groups of `configs/services.yaml` have such a
  pattern (line 41), and `docs/ARCHITECTURE.md:105` sends `/api/v1/users/*` to the
  user service.
* `gateway_two_admins`: two toggles at once leave the handler and the proxy
  service in different modes (`handler.go:349`). They stay so until a toggle that
  meets no other (`FlagsRejoin`).

Facts met on the way that the models depend on. `main.go` never calls `Start`,
`Stop` or `Watch` of the registry, so production has no health checks and does
not meet the first finding; the module models the type as its tests use it. The
health check itself always succeeds (`simulateHealthCheck`). With the
dynamic routes the parameter is called `service` and the handlers ask for `id`:
`Deregister` is called with the empty id (`ParamID`). With the static ones the
handler that finds an instance dereferences a nil proxy service and
`gin.Recovery` answers. No route reaches `ResetRateLimit`, as `main.go` builds its
handler without the middleware; the module models it as such a handler
would call it. It resets a key that is the limiter's own name, under which nothing
is counted, and the global limiter whatever name it is given. Reads of the limiter
map race with its one writer: the runtime may stop the process (`Crash`), and
`Answered` says so.

Of forwarding and its time limits:

* `ProxyGinRequest` reads no `route.Timeout` (`ProxyRequest` does,
  `proxy_service.go:148`, and no route reaches it): the timeouts of
  `configs/services.yaml`, 30 s to 300 s (line 101), never apply. What ends a
  request to an instance that hangs is the server's `ReadTimeout` of 30 s: when the
  deadline of its reads passes, the server cancels the request it is serving, and
  the reverse proxy answers 502. A route of 300 s is cut off as well as one of 30 s.
* The server watches the connection only once the request has been read to its
  end. While an instance is still to take the rest of a body, no deadline applies.
  The `WriteTimeout` ends no wait: it makes a late write of the answer fail, which
  the model counts as an answer.

Of the pipeline:

* A route outside of the groups may ask for a token, and the endpoint made for it
  does (`router.go:232-237`). The same path behind `/api/v1/proxy` runs
  `OptionalAuth` only, and `MatchRoute` finds that route by its suffix; the proxy
  service leaves tokens and roles to the middlewares (`proxy_service.go:84-94`). So
  `Authorised` says what the endpoint guarantees, and of the route only where the
  endpoint is its own. `configs/services.yaml` has no route outside of its groups
  (line 178).
* `docs/ARCHITECTURE.md:137` has the gateway set the identity headers. They are
  set, but `httputil.ReverseProxy` then takes out every header that the client
  names in `Connection`, these included, and what `services.yaml` configures for
  the route or the service goes over the role (`proxy_service.go:328-335`).
  `IdentityForwarded` says precisely what an instance may be told.
* The rules of `rate_limit.api_limit` are neither defaulted nor validated
  (`config.go:56`, `192-206`, `260-270`): one whose count is missing, 0 or negative
  gets a limiter that turns every request away. `LimitsUsable` excepts them.
* `setDefaults` cannot tell 0 or "false" from a setting that is left out: no file
  turns a filter off, and a limit of 0 becomes the default. Negative windows are
  not refused.
* The keys that `configs/config.yaml:32` uses for the durations of tokens are not
  those `config.go:46` reads, so the defaults apply.
* `GetService` asks for `name`, which the dynamic routes call `service`.
* The parser, the manager and the service compare a token's expiry by different
  rules (`>=`, `>`, `<=`); only the middle one decides, whence
  `ErrTokenExpired` is returned only if the clock moves between two readings.
  A refresh token is refused as an access token because its claims have neither
  user nor expiry of the other kind; an access token is refused as a refresh
  token because it has no subject.
* `proxy_service.go:315` makes a target URL with the path of the request, to which
  the reverse proxy joins the path of the request once more (`SentPath`).
  `strip_prefix` strips the pattern of the route, with which no path in a group
  begins.
* `customizeRequest` (`proxy_service.go:359`) announces the length that is
  allowed instead of the length there is. The transport reports an error for a
  shorter body, unless the instance answers first, and for a longer one what is
  beyond the limit is cut. `Deliveries` gives what an instance that answers may
  have got; `BadGateway` is always possible.
* The filters parse forms to the end and do not put them back: such a request
  fails, or arrives empty if its length was unknown. `DeliveredWhole` says
  precisely which bodies arrive.
* The `Content-Type` that routes add replaces the one of a multipart request,
  boundary included; headers other than the identity are not modelled.
* `main.go` adds no health check, so `/health` is always 200 there; the model takes
  any list of checks.
* The identifiers of tokens (`jwt.go:191`) are a rune of a time of day, nothing
  reads them, and the model has none.

## 6. Not modelled

* Data types: `domain/route.go`, `domain/errors.go` and `dto` are plain records and
  constructors; nothing in the program imports `dto`.
* `ProxyRequest` and what it calls (`proxy_service.go:73-198`): reached only from
  the legacy handler of the static routes, whose proxy service is nil. The
  panic that ends it there is in `LegacyProxy` and `Pick`.
* The regular expressions of the filters, which the features of a text stand
  for, and the Sanitize functions, which no request goes through.
* `*` in patterns, which no route of `services.yaml` has, prefixes that end inside
  a segment, gin's redirects of trailing slashes.
* `CustomCORS` and the stock health check functions, which nothing uses.
* Statistics, response headers and texts, `LastSeen` and `LastUpdated`, logging.
* Which of several instances answers: an instance has no reachability of its
  own, so nothing here says anything about failover or round robin
  (`README.md:52-54`). `ProxyGinRequest` has neither: it takes the first instance
  of a list in map order and answers 502 when that one fails.

## 7. Plan

Done, in this order: `Discovery` with `Registry`, `RateLimiter`,
`RateLimitChain`, `Gateway`, `Monitor`; then `Config`, `Tokens`, `Filters`,
`Routes`, `Forwarding` and `Pipeline`, which composes them; the proofs of every
safety property of these, the refinement `Discovery => Registry` among them. Left:

1. `Gateway`: reachability of instances, for what a client gets when the first
   instance is down and another is not.

To check: `tlc -config <cfg> <MC module>` for each run in `PROJECT.json`,
`tlapm <module>` for each `*Proofs` module and for `DiscoveryRefines`.
