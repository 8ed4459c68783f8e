----------------------------- MODULE Forwarding -----------------------------
(***************************************************************************)
(* internal/service/proxy/proxy_service.go: what ProxyGinRequest makes of  *)
(* a request before httputil.ReverseProxy sends it, what that makes of it, *)
(* and what the instance can get of it: its path, the headers that say     *)
(* whose it is, its body.                                                  *)
(*                                                                         *)
(* Left out: the other headers; customizeResponse, which adds two headers  *)
(* to the answer; ProxyRequest, which only the static routes' handler      *)
(* calls, without a proxy service (see Pipeline, LegacyProxy).             *)
(***************************************************************************)
EXTENDS Routes, Filters, Tokens

\* buildTargetURL.  The prefix it strips is the pattern, and only a route
\* outside of the groups has a pattern that a path can begin with.
TargetPath(r, path) ==
  CASE r.stripPrefix /\ IsPrefix(r.pattern, path) ->
         SubSeq(path, Len(r.pattern) + 1, Len(path))
    [] ~r.stripPrefix /\ r.rewritePath # <<>> -> r.rewritePath
    [] OTHER -> path

\* NewSingleHostReverseProxy takes the target for a base to add the path of
\* the request to.
SentPath(r, path) == TargetPath(r, path) \o path

\* Headers h, set where there were others already.
Over(h, others) ==
  [k \in DOMAIN h \cup DOMAIN others |-> IF k \in DOMAIN h THEN h[k] ELSE others[k]]

\* setRequestHeaders: the service's headers go over the route's, and these over
\* those the handlers of the chain have set.
HeadersSet(r) == Over(HeadersOf[r.service], r.headers)

\* customizeRequest: over all of them goes what the context knows of the user,
\* which is no role.
Customized(r, headers, context) ==
  LET set == Over(HeadersSet(r), headers)
  IN IF context.id = Blank THEN set
     ELSE [set EXCEPT !.id = context.id, !.company = context.company]

\* Then the reverse proxy takes out the headers a client has named in its
\* Connection header.
RemoveHopByHop(headers, connection) ==
  [h \in DOMAIN headers |-> IF h \in connection THEN Blank ELSE headers[h]]

\* The length that is announced to the instance: the most that the route, or
\* its service, allows when that is set, and else what the client said.
Unknown == -1

AnnouncedAsIs(r, b) == IF b.chunked THEN Unknown ELSE b.size

\* Fault: what the service allows comes before what the route does.
AnnouncedByService(r, b) ==
  CASE MaxBodyOf[r.service] > 0 -> MaxBodyOf[r.service]
    [] MaxBodyOf[r.service] = 0 /\ r.maxBodySize > 0 -> r.maxBodySize
    [] OTHER -> AnnouncedAsIs(r, b)

Announced(r, b) ==
  CASE r.maxBodySize > 0 -> r.maxBodySize
    [] r.maxBodySize = 0 /\ MaxBodyOf[r.service] > 0 -> MaxBodyOf[r.service]
    [] OTHER -> AnnouncedAsIs(r, b)

\* Whether the reverse proxy leaves the body out.
NoBody(b) == b.size = 0 /\ ~b.chunked

\* How many bytes there are to send.
Available(b) == IF b.unread THEN b.size ELSE 0

\* How many bytes an instance may have got when it answers.  The transport
\* sends what it can of the length announced, and reports an error if the body
\* is shorter or longer, which an answer of the instance may forestall once
\* there are bytes to answer.
Deliveries(r, b) ==
  LET length == Announced(r, b)
      n == Available(b)
  IN CASE NoBody(b) -> IF length > 0 THEN {} ELSE {0}
       [] ~NoBody(b) /\ length \in {Unknown, n} -> {n}
       [] ~NoBody(b) /\ length \notin {Unknown, n} /\ n = 0 -> {}
       [] OTHER -> {IF n < length THEN n ELSE length}
=============================================================================
