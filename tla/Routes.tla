------------------------------- MODULE Routes -------------------------------
(***************************************************************************)
(* internal/router/router.go and internal/service/proxy/route_parser.go:   *)
(* the two places that find the route of a request.  gin dispatches it to  *)
(* a chain of handlers, which checks the token and the roles; when the     *)
(* last of them is ProxyHandler, MatchRoute looks for the route once more, *)
(* with rules of its own, to find the service to forward to.               *)
(*                                                                         *)
(* A path is the sequence of its segments.  Table holds services.yaml in   *)
(* the order MatchRoute goes through it, the routes of the groups first.   *)
(*                                                                         *)
(* Left out: "*" in patterns, which no route of services.yaml has; prefixes*)
(* that end inside a segment; gin's redirects of trailing slashes.         *)
(***************************************************************************)
EXTENDS Naturals, Sequences, SequencesExt

CONSTANTS
  Methods,   \* the HTTP methods
  Table,     \* the routes of services.yaml
  MaxBodyOf, \* what services.yaml says of the services, of which some may be missing
  HeadersOf, \* the headers it has set for them
  Params,    \* the segments of patterns that begin with ":"
  CatchAll   \* "/*path", of the proxy routes

RouteFields == {"prefix", "guarded", "pattern", "methods", "service", "authRequired",
                "roles", "maxBodySize", "stripPrefix", "rewritePath", "headers"}

\* X-User-ID, X-Company-ID and X-User-Role; no other headers are modelled.
IdentityHeaders == {"id", "company", "role"}

ASSUME RoutesAssumption ==
  /\ DOMAIN Table = 1 .. Len(Table) /\ Len(Table) \in Nat
  /\ \A k \in DOMAIN Table :
       /\ DOMAIN Table[k] = RouteFields
       /\ Table[k].guarded \in BOOLEAN /\ Table[k].authRequired \in BOOLEAN
       /\ Table[k].methods \subseteq Methods
       /\ Table[k].maxBodySize \in Nat
       /\ DOMAIN Table[k].headers \subseteq IdentityHeaders
  /\ DOMAIN HeadersOf = DOMAIN MaxBodyOf
  /\ \A s \in DOMAIN MaxBodyOf : /\ MaxBodyOf[s] \in Nat
                                /\ DOMAIN HeadersOf[s] \subseteq IdentityHeaders

----------------------------------------------------------------------------
(* RouteParser.                                                            *)

\* A parameter of a pattern is matched as it is spelled: patternToRegex looks
\* for it behind a backslash that QuoteMeta does not write.  The expression is
\* anchored at its end only.
MatchRoutePattern(pattern, path) == IsSuffix(pattern, path)

MatchMethod(methods, method) == methods = {} \/ method \in methods

Matches(r, method, path) ==
  /\ IsPrefix(r.prefix, path)
  /\ MatchRoutePattern(r.pattern, path)
  /\ MatchMethod(r.methods, method)

\* LoadConfig keeps what it had, which is nothing, when it cannot read the file.
Routes(loaded) == IF loaded THEN Table ELSE <<>>

\* The first route that matches, if its service is there; 0 is an error.
MatchRoute(loaded, method, path) ==
  LET matching == {k \in DOMAIN Routes(loaded) : Matches(Table[k], method, path)}
      first == CHOOSE k \in matching : \A m \in matching : k <= m
  IN IF matching = {} \/ Table[first].service \notin DOMAIN MaxBodyOf THEN 0 ELSE first

----------------------------------------------------------------------------
(* gin: a tree of the registered paths, and the handlers of each.          *)

Endpoint(method, path, chain, roles) ==
  [method |-> method, path |-> path, chain |-> chain, roles |-> roles]

API(path) == <<"api", "v1">> \o path

\* An endpoint of the gateway's own, and one of its administration.
Own(method, path, handler) == Endpoint(method, path, <<handler>>, {})

Admin(method, path, handler) ==
  Endpoint(method, <<"admin">> \o path, <<"authenticate", "roles", handler>>, {"admin"})

\* What Setup and SetupWithProxy have in common.
Common ==
  {Own("GET", <<"health">>, "health"),
   Own("GET", <<"metrics">>, "prometheus"),
   Own("GET", API(<<"system", "status">>), "report"),
   Own("GET", API(<<"system", "metrics">>), "report"),
   Own("POST", API(<<"system", "metrics", "reset">>), "report"),
   Own("GET", API(<<"services">>), "report"),
   Admin("GET", <<"config">>, "report"),
   Admin("POST", <<"config", "reload">>, "report"),
   Admin("GET", <<"routes">>, "report"),
   Admin("POST", <<"maintenance">>, "report"),
   Admin("GET", <<"rate-limit", "stats">>, "report"),
   Admin("POST", <<"rate-limit", "reset">>, "report")}
  \cup {Endpoint(m, API(<<"proxy", CatchAll>>), <<"optional", "proxy">>, {}) : m \in Methods}

StaticEndpoints ==
  Common \cup
    {Own("GET", API(<<"services", ":name">>), "get"),
     Own("POST", API(<<"services", ":name", "register">>), "register"),
     Own("DELETE", API(<<"services", ":name", ":id">>), "deregister")}

ProxyEndpoints ==
  Common \cup
    {Own("GET", API(<<"services", ":service">>), "get"),
     Own("POST", API(<<"services">>), "register"),
     Own("DELETE", API(<<"services", ":service">>), "deregister"),
     Admin("GET", <<"proxy", "stats">>, "report")}

\* setupRoute and setupDynamicRoutes: the group's middleware, then the route's.
Authenticated(flag) == IF flag THEN <<"authenticate">> ELSE <<>>

RolesOf(r) == IF r.authRequired THEN r.roles ELSE {}

ChainOf(r) ==
  Authenticated(r.guarded) \o Authenticated(r.authRequired)
    \o (IF RolesOf(r) = {} THEN <<>> ELSE <<"roles">>) \o <<"proxy">>

MethodsOf(r) ==
  IF r.methods = {} THEN Methods \cap {"GET", "POST", "PUT", "DELETE", "PATCH", "OPTIONS"}
  ELSE r.methods

EndpointsOf(r) ==
  {Endpoint(m, r.prefix \o r.pattern, ChainOf(r), RolesOf(r)) : m \in MethodsOf(r)}

ServiceEndpoints(loaded) ==
  UNION {EndpointsOf(Routes(loaded)[k]) : k \in DOMAIN Routes(loaded)}

Endpoints(dynamic, loaded) ==
  IF dynamic THEN ProxyEndpoints \cup ServiceEndpoints(loaded) ELSE StaticEndpoints

\* A parameter takes any one segment, and a catch-all the rest.
GinMatches(pattern, path) ==
  /\ \/ Len(path) = Len(pattern)
     \/ Len(path) > Len(pattern) /\ Last(pattern) = CatchAll
  /\ \A k \in DOMAIN pattern : pattern[k] \in {path[k], CatchAll} \cup Params

\* Where two patterns first differ, gin takes the one that has the segment.
Closer(p, q) ==
  \E k \in DOMAIN p \cap DOMAIN q :
    /\ \A j \in 1 .. k - 1 : p[j] = q[j]
    /\ p[k] \notin Params \cup {CatchAll} /\ q[k] \in Params \cup {CatchAll}

Candidates(dynamic, loaded, method, path) ==
  {e \in Endpoints(dynamic, loaded) : e.method = method /\ GinMatches(e.path, path)}

\* The endpoint of a request.  A request without one goes through the global
\* middlewares and is answered 404.
NotFound == Endpoint("", <<>>, <<"missing">>, {})

Dispatch(dynamic, loaded, method, path) ==
  LET found == Candidates(dynamic, loaded, method, path)
  IN IF found = {} THEN NotFound
     ELSE CHOOSE e \in found : \A f \in found \ {e} : Closer(e.path, f.path)

\* What a route of services.yaml asks of the requests it is for.
NeedsToken(r) == r.guarded \/ r.authRequired

Authenticates(e) == \E i \in DOMAIN e.chain : e.chain[i] = "authenticate"

\* A handler of the chain has one of this name before it.
Behind(chain, i, handler) == \E j \in 1 .. i - 1 : chain[j] = handler
=============================================================================
