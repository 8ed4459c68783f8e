----------------------------- MODULE MCPipeline -----------------------------
(* Routes of each kind there is in services.yaml, and two outside of the   *)
(* groups, one of them protected; a route and a service with a role of     *)
(* their own; a member and an administrator; a file of each kind.          *)
EXTENDS Pipeline

MCMethods == {"GET", "POST", "DELETE", "OPTIONS"}
MCParams == {":path", ":service", ":name", ":id"}

Route(prefix, pattern, methods, service) ==
  [prefix |-> prefix, guarded |-> FALSE, pattern |-> pattern, methods |-> methods,
   service |-> service, authRequired |-> FALSE, roles |-> {}, maxBodySize |-> 0,
   stripPrefix |-> TRUE, rewritePath |-> <<>>, headers |-> <<>>]

MCTable ==
  <<Route(API(<<"auth">>), <<"login">>, {"POST"}, "auth"),
    [Route(API(<<"auth">>), <<"logout">>, {"POST"}, "auth") EXCEPT !.authRequired = TRUE],
    [Route(API(<<"users">>), <<":path">>, {"GET"}, "user") EXCEPT
       !.guarded = TRUE, !.authRequired = TRUE, !.roles = {"user", "admin"}],
    [Route(API(<<"files">>), <<"upload">>, {"POST"}, "file") EXCEPT
       !.guarded = TRUE, !.authRequired = TRUE, !.roles = {"user", "manager"},
       !.maxBodySize = 3, !.headers = "role" :> "sender"],
    [Route(<<>>, <<"status">>, {}, "gateway") EXCEPT
       !.stripPrefix = FALSE, !.rewritePath = <<"internal">>],
    [Route(<<>>, <<"audit">>, {"GET"}, "gateway") EXCEPT
       !.authRequired = TRUE, !.roles = {"admin"}, !.headers = "role" :> "reader"]>>

MCMaxBodyOf == [s \in {"auth", "user", "file", "gateway"} |->
                  IF s = "gateway" THEN 0 ELSE 2]

MCHeadersOf == [s \in DOMAIN MCMaxBodyOf |->
                  IF s = "gateway" THEN "role" :> "auditor" ELSE <<>>]

MCUsers == {[id |-> "m", company |-> "c", role |-> "user", roles |-> {}],
            [id |-> "a", company |-> "c", role |-> "guest", roles |-> {"admin"}]}

MCClaimed == [id |-> "m", company |-> "d", role |-> "admin"]

MCChecks == <<[name |-> "db", critical |-> TRUE], [name |-> "cache", critical |-> FALSE],
              [name |-> "log", critical |-> FALSE]>>

----------------------------------------------------------------------------
(* config.yaml.                                                            *)

MCDefault == [k \in Defaulted |-> IF k \in {"secret", "expiration", "xss", "sql"} THEN 1 ELSE 2]

Empty == [k \in Settings |-> 0]
Dynamic == [Empty EXCEPT !["dynamic"] = 1, !["limited"] = 1, !["ipRequests"] = 1, !["api"] = 1]

MCFiles ==
  {NoFile, Empty, Dynamic,
   [Dynamic EXCEPT !["ipRequests"] = -1],
   [Dynamic EXCEPT !["limited"] = 0, !["expiration"] = -1, !["ipRequests"] = -1],
   [Dynamic EXCEPT !["port"] = 9]}

----------------------------------------------------------------------------
(* The requests.                                                           *)

NoText == [type |-> "other", size |-> 0, chunked |-> FALSE, text |-> {}, values |-> {},
           readable |-> TRUE, unread |-> TRUE, parsed |-> FALSE]

From(method, path) ==
  [method |-> method, path |-> path, credential |-> "none", query |-> {}, body |-> NoText,
   origin |-> "same", connection |-> {}]

With(requests, credentials) ==
  {[r EXCEPT !.credential = c] : r \in requests, c \in credentials}

SignIn == From("POST", API(<<"auth", "login">>))
Logout == [From("POST", API(<<"auth", "logout">>)) EXCEPT
             !.body = [NoText EXCEPT !.type = "json", !.size = 2]]
Upload == From("POST", API(<<"files", "upload">>))
Status == From("GET", API(<<"proxy", "status">>))
Audit == From("GET", API(<<"proxy", "audit">>))

Sized == {[NoText EXCEPT !.type = t, !.size = n, !.chunked = c] :
            t \in {"json", "form", "other"}, n \in {2, 3, 4}, c \in BOOLEAN}

Texted == {[NoText EXCEPT !.type = t, !.size = 2, !.text = {f}, !.values = v] :
             t \in {"json", "multipart"}, f \in {"markup", "statement"},
             v \in {{}, {"markup"}, {"dangerousWords"}}}

MCArrivals ==
  With({Logout, From("GET", API(<<"users", "x">>)), From("GET", API(<<"users", ":path">>)),
        [Upload EXCEPT !.body = [NoText EXCEPT !.type = "json", !.size = 3]],
        From("GET", <<"audit">>), From("GET", <<"admin", "config">>)},
       {"none", "access", "refresh", "foreign"})
  \cup {[r EXCEPT !.credential = "access", !.connection = c] :
          r \in {Logout, Audit}, c \in {{"id"}, {"company", "role"}}}
  \cup With({Status, Audit}, {"none", "access", "refresh"})
  \cup {From("GET", <<"health">>), From("GET", <<"metrics">>), From("GET", <<"nowhere">>),
        From("GET", API(<<"services", "x">>)), From("DELETE", API(<<"services", "x">>)),
        From("POST", API(<<"services">>)), From("GET", API(<<"services">>))}
  \cup {[Status EXCEPT !.query = {f}] : f \in {"encodedMarkup", "functionName"}}
  \cup {[Status EXCEPT !.origin = o] : o \in {"allowed", "denied"}}
  \cup {[From("OPTIONS", <<"status">>) EXCEPT !.origin = o] : o \in {"same", "allowed"}}
  \cup {[SignIn EXCEPT !.body = b] : b \in Sized \cup Texted}
  \cup {[From("POST", <<"status">>) EXCEPT !.body = b] : b \in Sized}
  \cup {[Upload EXCEPT !.body = b, !.credential = "access"] : b \in Sized}
  \cup {[SignIn EXCEPT !.body = [NoText EXCEPT !.type = t, !.size = 2, !.readable = FALSE]] :
          t \in {"json", "form"}}
=============================================================================
