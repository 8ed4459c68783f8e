--------------------------- MODULE PipelineProofs ---------------------------
(***************************************************************************)
(* What holds of every request, whatever the table of routes, the users,   *)
(* the configuration files and the requests are.                           *)
(*                                                                         *)
(* None of the properties is inductive: each speaks of a moment late in    *)
(* the chain.  The invariants carry it there from the arrival: Settled for *)
(* the process, Arrived for the chain, Counted for the place in it,        *)
(* Looked, Filtered and Routed for what the handlers behind that place     *)
(* have found, Checking for the health checks that have run.               *)
(***************************************************************************)
EXTENDS Pipeline, WellFoundedInduction, TLAPS

----------------------------------------------------------------------------
(* The chains of handlers.                                                 *)

Preliminary == {"authenticate", "roles", "optional"}
Final == {"proxy", "health", "report", "get", "register", "deregister", "prometheus", "missing"}
Names == {"cors", "xss", "sql", "limit"} \cup Preliminary \cup Final

\* What the proofs need of a chain: its last handler answers, those before it
\* look at the token, with the roles if the endpoint has any, and the
\* administration's do so with its own.
Proper(e) ==
  /\ e.chain \in Seq(Names)
  /\ Len(e.chain) > 0
  /\ \A i \in 1 .. Len(e.chain) - 1 : e.chain[i] \in Preliminary
  /\ e.chain[Len(e.chain)] \in Final
  /\ e.roles # {} => \E i \in DOMAIN e.chain : e.chain[i] = "roles"
  /\ \A i \in DOMAIN e.chain : e.chain[i] = "report" /\ Head(e.path) = "admin" =>
       /\ Behind(e.chain, i, "authenticate")
       /\ Behind(e.chain, i, "roles")
       /\ e.roles = {"admin"}

LEMMA OwnProper ==
  ASSUME NEW method, NEW path, NEW h \in Final,
         Head(path) # "admin" \/ h # "report"
  PROVE  Proper(Own(method, path, h))
  BY DEF Own, Endpoint, Proper, Final, Names

LEMMA AdminProper ==
  ASSUME NEW method, NEW path
  PROVE  Proper(Admin(method, path, "report"))
<1> DEFINE c == <<"authenticate", "roles", "report">>
<1>0. {"authenticate", "roles", "report"} \subseteq Names
  BY DEF Names, Preliminary, Final
<1>1. /\ c \in Seq(Names) /\ Len(c) = 3 /\ DOMAIN c = 1 .. 3
      /\ c[1] = "authenticate" /\ c[2] = "roles" /\ c[3] = "report"
  BY <1>0
<1> HIDE DEF c
<1>2. \A i \in 1 .. Len(c) - 1 : c[i] \in Preliminary
  <2>1. c[1] \in Preliminary /\ c[2] \in Preliminary
    BY <1>1 DEF Preliminary
  <2>2. \A i \in 1 .. Len(c) - 1 : i = 1 \/ i = 2
    BY <1>1
  <2> QED BY <2>1, <2>2
<1>3. \A i \in DOMAIN c : c[i] = "report" =>
        Behind(c, i, "authenticate") /\ Behind(c, i, "roles")
  <2> SUFFICES ASSUME NEW i \in DOMAIN c, c[i] = "report"
               PROVE  Behind(c, i, "authenticate") /\ Behind(c, i, "roles")
    OBVIOUS
  <2>1. i = 3
    BY <1>1
  <2>2. 1 \in 1 .. i - 1 /\ 2 \in 1 .. i - 1
    BY <2>1
  <2> QED BY <1>1, <2>2 DEF Behind
<1>4. /\ Admin(method, path, "report").chain = c
      /\ Admin(method, path, "report").roles = {"admin"}
  BY DEF Admin, Endpoint, c
<1>5. c[Len(c)] \in Final
  BY <1>1 DEF Final
<1> DEFINE e == Admin(method, path, "report")
<1> HIDE DEF e
<1>6. e.chain = c /\ e.roles = {"admin"}
  BY <1>4 DEF e
<1>7. Proper(e)
  <2>1. \A i \in DOMAIN e.chain : e.chain[i] = "report" /\ Head(e.path) = "admin" =>
          /\ Behind(e.chain, i, "authenticate")
          /\ Behind(e.chain, i, "roles")
          /\ e.roles = {"admin"}
    BY <1>3, <1>6
  <2>2. e.chain \in Seq(Names) /\ Len(e.chain) > 0
    BY <1>1, <1>6
  <2>3. \A i \in 1 .. Len(e.chain) - 1 : e.chain[i] \in Preliminary
    BY <1>2, <1>6
  <2>4. e.chain[Len(e.chain)] \in Final
    BY <1>5, <1>6
  <2>5. e.roles # {} => \E i \in DOMAIN e.chain : e.chain[i] = "roles"
    <3>1. 2 \in DOMAIN e.chain /\ e.chain[2] = "roles"
      BY <1>1, <1>6
    <3> QED BY <3>1
  <2> HIDE DEF c
  <2> QED BY <2>1, <2>2, <2>3, <2>4, <2>5 DEF Proper
<1> QED BY <1>7 DEF e

LEMMA Concatenated ==
  ASSUME NEW S, NEW s \in Seq(S), NEW t \in Seq(S)
  PROVE  /\ s \o t \in Seq(S)
         /\ Len(s \o t) = Len(s) + Len(t) /\ Len(s) \in Nat /\ Len(t) \in Nat
         /\ \A i \in 1 .. Len(s) : (s \o t)[i] = s[i]
         /\ \A i \in 1 .. Len(t) : (s \o t)[Len(s) + i] = t[i]
<1>1. s \o t \in Seq(S)
  OBVIOUS
<1>2. Len(s \o t) = Len(s) + Len(t) /\ Len(s) \in Nat /\ Len(t) \in Nat
  OBVIOUS
<1>3. \A i \in 1 .. Len(s) : (s \o t)[i] = s[i]
  OBVIOUS
<1>4. \A i \in 1 .. Len(t) : (s \o t)[Len(s) + i] = t[i]
  OBVIOUS
<1> QED BY <1>1, <1>2, <1>3, <1>4

\* A handler is in a chain.
Has(s, v) == \E i \in 1 .. Len(s) : s[i] = v

LEMMA InConcatenated ==
  ASSUME NEW S, NEW s \in Seq(S), NEW t \in Seq(S), NEW v
  PROVE  /\ s \o t \in Seq(S)
         /\ Has(s, v) \/ Has(t, v) => Has(s \o t, v)
<1> DEFINE q == s \o t
<1>1. /\ Len(q) = Len(s) + Len(t) /\ Len(s) \in Nat /\ Len(t) \in Nat
      /\ \A i \in 1 .. Len(s) : q[i] = s[i]
      /\ \A i \in 1 .. Len(t) : q[Len(s) + i] = t[i]
  BY Concatenated
<1>2. q \in Seq(S)
  OBVIOUS
<1> HIDE DEF q
<1>3. ASSUME NEW i \in 1 .. Len(s), s[i] = v PROVE Has(q, v)
  BY <1>1, <1>3 DEF Has
<1>4. ASSUME NEW i \in 1 .. Len(t), t[i] = v PROVE Has(q, v)
  <2>1. Len(s) + i \in 1 .. Len(q) /\ q[Len(s) + i] = v
    BY <1>1, <1>4
  <2> QED BY <2>1 DEF Has
<1>5. q \in Seq(S) /\ (Has(s, v) \/ Has(t, v) => Has(q, v))
  BY <1>2, <1>3, <1>4 DEF Has
<1> QED BY <1>5 DEF q

LEMMA ChainShape ==
  ASSUME NEW r
  PROVE  /\ ChainOf(r) \in Seq(Names)
         /\ Len(ChainOf(r)) > 0
         /\ \A i \in 1 .. Len(ChainOf(r)) - 1 : ChainOf(r)[i] \in Preliminary
         /\ ChainOf(r)[Len(ChainOf(r))] = "proxy"
<1> DEFINE a == Authenticated(r.guarded)
           b == Authenticated(r.authRequired)
           c == IF RolesOf(r) = {} THEN <<>> ELSE <<"roles">>
           front == a \o b \o c
<1>1. a \in Seq(Preliminary) /\ b \in Seq(Preliminary) /\ c \in Seq(Preliminary)
  <2> DEFINE one == <<"authenticate">>
             two == <<"roles">>
  <2>1. one \in Seq(Preliminary) /\ two \in Seq(Preliminary) /\ <<>> \in Seq(Preliminary)
    BY DEF Preliminary
  <2>2. \A flag : Authenticated(flag) = one \/ Authenticated(flag) = <<>>
    BY DEF Authenticated
  <2>3. c = two \/ c = <<>>
    OBVIOUS
  <2> HIDE DEF one, two
  <2> QED BY <2>1, <2>2, <2>3
<1> HIDE DEF a, b, c
<1>2. front \in Seq(Preliminary)
  BY <1>1
<1>3. ChainOf(r) = front \o <<"proxy">>
  BY DEF ChainOf, a, b, c
<1> HIDE DEF front
<1>4. \A i \in 1 .. Len(front) : front[i] \in Preliminary
  BY <1>2
<1>5. /\ Len(front \o <<"proxy">>) = Len(front) + 1
      /\ \A i \in 1 .. Len(front) : (front \o <<"proxy">>)[i] = front[i]
      /\ (front \o <<"proxy">>)[Len(front) + 1] = "proxy"
      /\ Len(front) \in Nat
  BY <1>2
<1>6. front \o <<"proxy">> \in Seq(Names)
  <2>1. front \in Seq(Names)
    BY <1>2 DEF Names
  <2>2. <<"proxy">> \in Seq(Names)
    BY DEF Names, Final
  <2> QED BY <2>1, <2>2
<1> QED BY <1>3, <1>4, <1>5, <1>6

\* What services.yaml asks for is in the chain.
LEMMA ChainAsks ==
  ASSUME NEW r
  PROVE  /\ NeedsToken(r) => Has(ChainOf(r), "authenticate")
         /\ RolesOf(r) # {} => Has(ChainOf(r), "roles")
<1> DEFINE a == Authenticated(r.guarded)
           b == Authenticated(r.authRequired)
           c == IF RolesOf(r) = {} THEN <<>> ELSE <<"roles">>
           p == <<"proxy">>
           T == {"authenticate", "roles", "proxy"}
<1>1. ChainOf(r) = a \o b \o c \o p
  BY DEF ChainOf
<1>2. a \in Seq(T) /\ b \in Seq(T) /\ c \in Seq(T) /\ p \in Seq(T)
  <2> DEFINE one == <<"authenticate">>
             two == <<"roles">>
  <2>1. one \in Seq(T) /\ two \in Seq(T) /\ <<>> \in Seq(T) /\ p \in Seq(T)
    OBVIOUS
  <2>2. \A flag : Authenticated(flag) = one \/ Authenticated(flag) = <<>>
    BY DEF Authenticated
  <2>3. c = two \/ c = <<>>
    OBVIOUS
  <2> HIDE DEF one, two, p, c, T
  <2> QED BY <2>1, <2>2, <2>3
<1>3. r.guarded => Has(a, "authenticate")
  BY DEF Authenticated, Has
<1>4. r.authRequired => Has(b, "authenticate")
  BY DEF Authenticated, Has
<1>5. RolesOf(r) # {} => Has(c, "roles")
  BY DEF Has
<1> HIDE DEF a, b, c, p, T
<1>6. a \o b \in Seq(T) /\ (Has(a, "authenticate") \/ Has(b, "authenticate") => Has(a \o b, "authenticate"))
  BY <1>2, InConcatenated
<1>7. \A v : Has(a \o b, v) \/ Has(c, v) => Has(a \o b \o c, v)
  BY <1>2, <1>6, InConcatenated
<1>8. a \o b \o c \in Seq(T)
  BY <1>2, <1>6
<1>9. \A v : Has(a \o b \o c, v) => Has(a \o b \o c \o p, v)
  BY <1>2, <1>8, InConcatenated
<1> QED BY <1>1, <1>3, <1>4, <1>5, <1>6, <1>7, <1>9 DEF NeedsToken

LEMMA ProxyProper ==
  ASSUME NEW method, NEW path
  PROVE  Proper(Endpoint(method, path, <<"optional", "proxy">>, {}))
<1> DEFINE c == <<"optional", "proxy">>
           e == Endpoint(method, path, c, {})
<1>1. {"optional", "proxy"} \subseteq Names
  BY DEF Names, Preliminary, Final
<1>2. c \in Seq(Names)
  BY <1>1
<1>3. Len(c) = 2 /\ c[1] = "optional" /\ c[2] = "proxy"
  OBVIOUS
<1> HIDE DEF c
<1>4. e.chain = c /\ e.roles = {}
  BY DEF Endpoint
<1> HIDE DEF e
<1>5. c[1] \in Preliminary /\ c[Len(c)] \in Final
  BY <1>3 DEF Preliminary, Final
<1>6. \A i \in DOMAIN c : c[i] # "report"
  <2>1. \A i \in DOMAIN c : i = 1 \/ i = 2
    BY <1>2, <1>3
  <2> QED BY <1>3, <2>1
<1>7. \A i \in 1 .. Len(c) - 1 : c[i] \in Preliminary
  <2>1. \A i \in 1 .. Len(c) - 1 : i = 1
    BY <1>3
  <2> QED BY <1>5, <2>1
<1>8. Proper(e)
  <2>1. Len(c) > 0
    BY <1>3
  <2> QED BY <1>2, <1>4, <1>5, <1>6, <1>7, <2>1 DEF Proper
<1> QED BY <1>8 DEF e, c

LEMMA ServiceProper ==
  ASSUME NEW method, NEW path, NEW r
  PROVE  Proper(Endpoint(method, path, ChainOf(r), RolesOf(r)))
<1> DEFINE c == ChainOf(r)
           e == Endpoint(method, path, c, RolesOf(r))
<1>1. e.chain = c /\ e.roles = RolesOf(r)
  BY DEF Endpoint
<1>2. /\ c \in Seq(Names) /\ Len(c) > 0
      /\ \A i \in 1 .. Len(c) - 1 : c[i] \in Preliminary
      /\ c[Len(c)] = "proxy"
      /\ RolesOf(r) # {} => \E i \in 1 .. Len(c) : c[i] = "roles"
  BY ChainShape, ChainAsks DEF Has
<1> HIDE DEF c, e
<1>3. \A i \in DOMAIN c : c[i] # "report"
  <2>1. \A i \in DOMAIN c : i \in 1 .. Len(c) - 1 \/ i = Len(c)
    BY <1>2
  <2> QED BY <1>2, <2>1 DEF Preliminary
<1>4. c[Len(c)] \in Final
  BY <1>2 DEF Final
<1>5. RolesOf(r) # {} => \E i \in DOMAIN c : c[i] = "roles"
  BY <1>2
<1>6. Proper(e)
  BY <1>1, <1>2, <1>3, <1>4, <1>5 DEF Proper
<1> QED BY <1>6 DEF e, c

LEMMA HeadOfConcat ==
  ASSUME NEW S, NEW s \in Seq(S), NEW t \in Seq(S), Len(s) > 0
  PROVE  Head(s \o t) = s[1]
<1> DEFINE q == s \o t
<1>1. q \in Seq(S)
  OBVIOUS
<1>2. Len(q) = Len(s) + Len(t) /\ Len(s) \in Nat /\ Len(t) \in Nat
  OBVIOUS
<1>3. q[1] = s[1]
  BY <1>2
<1> HIDE DEF q
<1>4. Len(q) > 0
  BY <1>2
<1>5. Head(q) = s[1]
  BY <1>1, <1>3, <1>4
<1> QED BY <1>5 DEF q

LEMMA APIHead ==
  ASSUME NEW S, NEW p \in Seq(S)
  PROVE  Head(API(p)) # "admin"
<1> DEFINE T == S \cup {"api", "v1"}
           api == <<"api", "v1">>
<1>1. "api" \in T /\ "v1" \in T /\ p \in Seq(T)
  OBVIOUS
<1> HIDE DEF T
<1>2. api \in Seq(T) /\ Len(api) = 2 /\ api[1] = "api"
  BY <1>1
<1> HIDE DEF api
<1>3. Head(api \o p) = "api"
  <2>1. Len(api) > 0
    BY <1>2
  <2> QED BY <1>1, <1>2, <2>1, HeadOfConcat
<1> QED BY <1>3 DEF API, api

LEMMA CommonProper ==
  ASSUME NEW e \in Common
  PROVE  Proper(e)
<1>1. /\ "health" \in Final /\ "prometheus" \in Final /\ "report" \in Final
  BY DEF Final
<1>2. /\ Head(API(<<"system", "status">>)) # "admin"
      /\ Head(API(<<"system", "metrics">>)) # "admin"
      /\ Head(API(<<"system", "metrics", "reset">>)) # "admin"
      /\ Head(API(<<"services">>)) # "admin"
  <2> DEFINE S == {"system", "status", "metrics", "reset", "services"}
  <2>1. /\ <<"system", "status">> \in Seq(S) /\ <<"system", "metrics">> \in Seq(S)
        /\ <<"system", "metrics", "reset">> \in Seq(S) /\ <<"services">> \in Seq(S)
    OBVIOUS
  <2> HIDE DEF S
  <2> QED BY <2>1, APIHead
<1>3. \/ \E p : e = Own("GET", p, "health") \/ e = Own("GET", p, "prometheus")
      \/ \E m, p : e = Own(m, p, "report") /\ Head(p) # "admin"
      \/ \E m, p : e = Admin(m, p, "report")
      \/ \E m, p : e = Endpoint(m, p, <<"optional", "proxy">>, {})
  BY <1>2 DEF Common
<1> QED BY <1>1, <1>3, OwnProper, AdminProper, ProxyProper

LEMMA EndpointProper ==
  ASSUME NEW dynamic, NEW read, NEW e \in Endpoints(dynamic, read) \cup {NotFound}
  PROVE  Proper(e)
<1>1. {"get", "register", "deregister", "missing"} \subseteq Final
  BY DEF Final
<1>2. CASE e \in StaticEndpoints
  <2>1. \/ e \in Common
        \/ \E m, p : \E h \in {"get", "register", "deregister"} : e = Own(m, p, h)
    BY <1>2 DEF StaticEndpoints
  <2> QED BY <1>1, <2>1, CommonProper, OwnProper
<1>3. CASE e \in ProxyEndpoints
  <2>1. \/ e \in Common
        \/ \E m, p : \E h \in {"get", "register", "deregister"} : e = Own(m, p, h)
        \/ \E m, p : e = Admin(m, p, "report")
    BY <1>3 DEF ProxyEndpoints
  <2> QED BY <1>1, <2>1, CommonProper, OwnProper, AdminProper
<1>4. CASE e \in ServiceEndpoints(read)
  <2>1. \E m, p, r : e = Endpoint(m, p, ChainOf(r), RolesOf(r))
    BY <1>4 DEF ServiceEndpoints, EndpointsOf
  <2> QED BY <2>1, ServiceProper
<1>5. CASE e = NotFound
  <2>1. e = Own("", <<>>, "missing")
    BY <1>5 DEF NotFound, Own
  <2> QED BY <1>1, <2>1, OwnProper
<1> QED BY <1>2, <1>3, <1>4, <1>5 DEF Endpoints

Global == {"cors", "xss", "sql", "limit"}

\* What the proofs need of all the handlers of a request.
Shape(h, e) ==
  /\ h \in Seq(Names)
  /\ Len(h) > 3
  /\ h[1] = "cors" /\ h[2] = "xss" /\ h[3] = "sql"
  /\ h[Len(h)] \in Final
  /\ \A i \in 1 .. Len(h) - 1 : h[i] \notin Final
  /\ \A i \in DOMAIN h : i > 3 => h[i] \notin {"cors", "xss", "sql"}
  /\ \E n \in {3, 4} : /\ Len(h) = n + Len(e.chain)
                        /\ \A i \in DOMAIN e.chain : h[n + i] = e.chain[i]

LEMMA HandlersShape ==
  ASSUME NEW c, NEW e, Proper(e)
  PROVE  Shape(Handlers(c, e), e)
<1> DEFINE three == <<"cors", "xss", "sql">>
           limit == IF c["limited"] = 1 THEN <<"limit">> ELSE <<>>
           front == three \o limit
           h == front \o e.chain
<1>0. {"cors", "xss", "sql", "limit"} \subseteq Global
  BY DEF Global
<1>1. /\ three \in Seq(Global) /\ Len(three) = 3
      /\ three[1] = "cors" /\ three[2] = "xss" /\ three[3] = "sql"
  BY <1>0
<1>2. \/ limit \in Seq(Global) /\ Len(limit) = 0
      \/ limit \in Seq(Global) /\ Len(limit) = 1 /\ limit[1] = "limit"
  BY <1>0
<1> HIDE DEF three, limit
<1> DEFINE n == Len(front)
<1>3. /\ front \in Seq(Global) /\ n = 3 + Len(limit)
      /\ \A i \in 1 .. 3 : front[i] = three[i]
      /\ \A i \in 1 .. Len(limit) : front[3 + i] = limit[i]
  <2>0. three \in Seq(Global)
    BY <1>1
  <2>1. limit \in Seq(Global)
    BY <1>2
  <2>2. /\ front \in Seq(Global) /\ Len(front) = Len(three) + Len(limit)
        /\ \A i \in 1 .. Len(three) : front[i] = three[i]
        /\ \A i \in 1 .. Len(limit) : front[Len(three) + i] = limit[i]
    <3> HIDE DEF front
    <3>1. front = three \o limit
      BY DEF front
    <3> QED BY <3>1, <2>0, <2>1, Concatenated, SMTT(30)
  <2> HIDE DEF front
  <2> QED BY <1>1, <2>2
<1>4. /\ n \in {3, 4}
      /\ front[1] = "cors" /\ front[2] = "xss" /\ front[3] = "sql"
      /\ n = 4 => front[4] = "limit"
  <2>1. 1 \in 1 .. 3 /\ 2 \in 1 .. 3 /\ 3 \in 1 .. 3
    OBVIOUS
  <2>2. Len(limit) = 1 => front[3 + 1] = limit[1]
    BY <1>3
  <2> QED BY <1>1, <1>2, <1>3, <2>1, <2>2
<1> HIDE DEF front
<1>5. e.chain \in Seq(Names) /\ Len(e.chain) > 0 /\ Len(e.chain) \in Nat
  BY DEF Proper
<1>6. front \in Seq(Names)
  BY <1>3 DEF Global, Names
<1>7. h \in Seq(Names) /\ Len(h) = n + Len(e.chain)
  BY <1>5, <1>6
<1>8. \A i \in 1 .. n : h[i] = front[i]
  BY <1>4, <1>5, <1>6
<1>9. \A i \in 1 .. Len(e.chain) : h[n + i] = e.chain[i]
  BY <1>4, <1>5, <1>6
<1>10. Handlers(c, e) = h
  BY <1>1, <1>2, <1>5 DEF Handlers, front, three, limit
<1> HIDE DEF h, n
<1>11. \A i \in DOMAIN h : i > n => /\ i - n \in 1 .. Len(e.chain)
                                  /\ h[i] = e.chain[i - n]
  <2> SUFFICES ASSUME NEW i \in DOMAIN h, i > n
               PROVE  i - n \in 1 .. Len(e.chain) /\ h[i] = e.chain[i - n]
    OBVIOUS
  <2>1. i \in 1 .. n + Len(e.chain)
    BY <1>7
  <2>2. i - n \in 1 .. Len(e.chain) /\ n + (i - n) = i
    BY <1>4, <1>5, <2>1
  <2> QED BY <1>9, <2>2
<1>12. h[Len(h)] \in Final
  <2>1. Len(e.chain) \in 1 .. Len(e.chain)
    BY <1>5
  <2> QED BY <1>7, <1>9, <2>1 DEF Proper
<1>13. \A i \in 1 .. Len(h) - 1 : h[i] \notin Final
  <2> SUFFICES ASSUME NEW i \in 1 .. Len(h) - 1 PROVE h[i] \notin Final
    OBVIOUS
  <2>1. CASE i <= n
    <3>1. h[i] = "cors" \/ h[i] = "xss" \/ h[i] = "sql" \/ h[i] = "limit"
      BY <1>4, <1>8, <2>1
    <3> QED BY <3>1 DEF Final
  <2>2. CASE i > n
    <3>1. i - n \in 1 .. Len(e.chain) - 1
      BY <1>4, <1>5, <1>7, <2>2
    <3>2. h[i] \in Preliminary
      BY <1>7, <1>11, <2>2, <3>1 DEF Proper
    <3> QED BY <3>2 DEF Preliminary, Final
  <2> QED BY <1>4, <2>1, <2>2
<1>14. \A i \in DOMAIN h : i > 3 => h[i] \notin {"cors", "xss", "sql"}
  <2> SUFFICES ASSUME NEW i \in DOMAIN h, i > 3 PROVE h[i] \notin {"cors", "xss", "sql"}
    OBVIOUS
  <2>1. CASE i <= n
    <3>1. i = 4 /\ n = 4 /\ 4 \in 1 .. n
      BY <1>4, <1>7, <2>1
    <3>2. h[i] = "limit"
      BY <1>4, <1>8, <3>1
    <3> QED BY <3>2
  <2>2. CASE i > n
    <3>1. h[i] \in Preliminary \cup Final
      <4>1. h[i] = e.chain[i - n] /\ i - n \in 1 .. Len(e.chain)
        BY <1>11, <2>2
      <4>2. CASE i - n = Len(e.chain)
        BY <4>1, <4>2 DEF Proper
      <4>3. CASE i - n # Len(e.chain)
        <5>1. i - n \in 1 .. Len(e.chain) - 1
          BY <1>5, <4>1, <4>3
        <5> QED BY <4>1, <5>1 DEF Proper
      <4> QED BY <4>2, <4>3
    <3> QED BY <3>1 DEF Preliminary, Final
  <2> QED BY <1>4, <1>7, <2>1, <2>2
<1>15. Shape(h, e)
  <2>1. Len(h) > 3
    BY <1>4, <1>5, <1>7
  <2>2. h[1] = "cors" /\ h[2] = "xss" /\ h[3] = "sql"
    BY <1>4, <1>8
  <2>3. DOMAIN e.chain = 1 .. Len(e.chain)
    BY <1>5
  <2> QED BY <1>4, <1>7, <1>9, <1>12, <1>13, <1>14, <2>1, <2>2, <2>3 DEF Shape
<1> QED BY <1>10, <1>15

----------------------------------------------------------------------------
(* The configuration, the clock and the tokens.                            *)

\* What a token says of its bearer, of whatever kind it is.
Sound(token) ==
  \/ token.secret # Secret
  \/ token.expiresAt = 0
  \/ token.user \in Users /\ token.issuedAt \in Int /\ token.expiresAt \in Int

IssuedPair(p) ==
  \E u \in Users, t, e, r \in Int :
    p.owner = u /\ p.tokens = TokenPair(u, t, e, r) /\ t + r > 0

Settled ==
  /\ now \in Start .. MaxTime
  /\ loaded \in BOOLEAN
  /\ phase \in {"boot", "dead", "idle", "busy", "sending", "checking", "panicked", "answered"}
  /\ phase \notin {"boot", "dead"} => \E file \in Files : Loads(file) /\ config = Loaded(file)
  /\ pair # NoPair => IssuedPair(pair)

LEMMA LoadedUsable ==
  ASSUME NEW file \in Files, Loads(file)
  PROVE  /\ Loaded(file) \in Configurations
         /\ Loaded(file)["xss"] = 1 /\ Loaded(file)["sql"] = 1
         /\ Loaded(file)["refresh"] + Start > 0
         /\ Loaded(file)["limited"] = 1 =>
              /\ Loaded(file)["global"] > 0
              /\ Loaded(file)["ipRequests"] > 0
              /\ Loaded(file)["userRequests"] > 0
<1> USE ConfigAssumption, PipelineAssumption
<1>1. file \in Configurations /\ file # NoFile
  BY DEF Loads
<1>2. file["refresh"] + Start > 0
  BY <1>1, DurationAssumption
<1>3. /\ Flags \subseteq Settings /\ Amounts \subseteq Settings
      /\ Defaulted \subseteq Settings
      /\ {"xss", "sql"} \subseteq Flags
      /\ {"refresh", "global", "ipRequests", "userRequests"} \subseteq Amounts
      /\ {"xss", "sql", "refresh", "global", "ipRequests", "userRequests"} \subseteq Defaulted
      /\ "limited" \notin Defaulted /\ "limited" \in Settings
  BY DEF Flags, Amounts, Settings, Defaulted
<1>4. \A k \in Settings : file[k] \in Int
  BY <1>1 DEF Configurations
<1>5. \A f \in Flags : file[f] \in {0, 1}
  BY <1>1 DEF Configurations
<1>6. \A k \in Defaulted : Default[k] \in Nat /\ Default[k] > 0
  OBVIOUS
<1> DEFINE c == Loaded(file)
<1>7. \A k \in Settings : c[k] = IF k \in Defaulted /\ file[k] = 0 THEN Default[k] ELSE file[k]
  BY DEF Loaded, SetDefaults
<1>8. c \in [Settings -> Int]
  <2>1. \A k \in Settings : c[k] \in Int
    BY <1>4, <1>6, <1>7
  <2> QED BY <2>1 DEF Loaded, SetDefaults
<1>9. Validate(c)
  BY DEF Loads, Loaded
<1> HIDE DEF c
<1>10. c["xss"] = 1 /\ c["sql"] = 1
  BY <1>3, <1>5, <1>7
<1>11. \A f \in Flags : c[f] \in {0, 1}
  <2> SUFFICES ASSUME NEW f \in Flags PROVE c[f] \in {0, 1}
    OBVIOUS
  <2>1. f \in Settings /\ (f \in Defaulted => f = "xss" \/ f = "sql")
    BY <1>3 DEF Flags, Amounts, Settings, Defaulted
  <2> QED BY <1>5, <1>7, <1>10, <2>1
<1>12. c["refresh"] + Start > 0
  BY <1>2, <1>3, <1>4, <1>6, <1>7
<1>13. c["limited"] = 1 => c["global"] > 0 /\ c["ipRequests"] > 0 /\ c["userRequests"] > 0
  <2> SUFFICES ASSUME c["limited"] = 1
               PROVE  c["global"] > 0 /\ c["ipRequests"] > 0 /\ c["userRequests"] > 0
    OBVIOUS
  <2>1. c["global"] > 0 /\ c["ipRequests"] >= 0 /\ c["userRequests"] >= 0
    BY <1>9 DEF Validate
  <2>2. c["ipRequests"] # 0 /\ c["userRequests"] # 0
    BY <1>3, <1>6, <1>7
  <2>3. c["ipRequests"] \in Int /\ c["userRequests"] \in Int
    BY <1>3, <1>8
  <2> QED BY <2>1, <2>2, <2>3
<1> QED BY <1>8, <1>10, <1>11, <1>12, <1>13 DEF c, Configurations

LEMMA Clock == Start \in Nat /\ MaxTime \in Nat /\ Start <= MaxTime
  BY PipelineAssumption

LEMMA SettledInit == Init => Settled
<1> SUFFICES ASSUME Init PROVE Settled
  OBVIOUS
<1>1. now \in Start .. MaxTime
  BY Clock DEF Init
<1> QED BY <1>1 DEF Init, Settled

\* A step of a request: it leaves alone what the request came with.
Ongoing ==
  /\ config' = config /\ loaded' = loaded /\ pair' = pair
  /\ request' = request /\ endpoint' = endpoint /\ handlers' = handlers
  /\ now' \in now .. MaxTime
  /\ phase \in {"busy", "sending", "checking", "panicked"}
  /\ phase' \in {"busy", "sending", "checking", "panicked", "answered"}

LEMMA ServingOngoing ==
  ASSUME Settled,
         Middleware \/ Identification \/ Handling \/ Recover \/ Log \/ Forward \/ BadGateway
  PROVE  Ongoing
<1> USE Clock DEF Settled, Ongoing, process, given, work
<1>1. now \in now .. MaxTime
  OBVIOUS
<1>2. \A t \in Readings : t[3] \in now .. MaxTime
  BY DEF Readings
<1>3. CASE Cors
  BY <1>1, <1>3 DEF Cors, At, Pass, Abort
<1>4. CASE XSSProtection
  BY <1>1, <1>4 DEF XSSProtection, At, Pass, Abort
<1>5. CASE SQLInjectionProtection
  BY <1>1, <1>5 DEF SQLInjectionProtection, At, Pass, Abort
<1>6. CASE RateLimit
  BY <1>1, <1>6 DEF RateLimit, At, Pass, Abort
<1>7. CASE Authenticate
  BY <1>2, <1>7 DEF Authenticate, Validating, At, Pass, Abort
<1>8. CASE RequireRoles
  BY <1>2, <1>8 DEF RequireRoles, Validating, At, Pass, Abort
<1>9. CASE OptionalAuth
  BY <1>2, <1>9 DEF OptionalAuth, Validating, At, Pass, Abort
<1>10. CASE LegacyProxy
  BY <1>1, <1>10 DEF LegacyProxy, At, Abort, Panic
<1>11. CASE Proxy
  BY <1>1, <1>11 DEF Proxy, At, Abort
<1>12. CASE StartChecks
  BY <1>1, <1>12 DEF StartChecks, At
<1>13. CASE RunCheck
  BY <1>1, <1>13 DEF RunCheck
<1>14. CASE ReportHealth
  BY <1>1, <1>14 DEF ReportHealth
<1>15. CASE Serve
  BY <1>1, <1>15 DEF Serve, At, Abort
<1>16. CASE Recover
  BY <1>1, <1>16 DEF Recover
<1>17. CASE Log
  BY <1>1, <1>17 DEF Log
<1>18. CASE Forward
  BY <1>1, <1>18 DEF Forward
<1>19. CASE BadGateway
  BY <1>1, <1>19 DEF BadGateway
<1> QED
  BY <1>3, <1>4, <1>5, <1>6, <1>7, <1>8, <1>9, <1>10, <1>11, <1>12, <1>13, <1>14, <1>15,
     <1>16, <1>17, <1>18, <1>19 DEF Middleware, Identification, Handling

LEMMA IssueSettled ==
  ASSUME Settled, phase = "idle", NEW u \in Users, NEW how, Issue(u, how)
  PROVE  Settled'
<1>1. PICK file \in Files : Loads(file) /\ config = Loaded(file)
  BY DEF Settled
<1>2. config["expiration"] \in Int /\ config["refresh"] \in Int /\ now + config["refresh"] > 0
  <2>1. config \in [Settings -> Int] /\ config["refresh"] + Start > 0
    BY <1>1, LoadedUsable DEF Configurations
  <2>2. "expiration" \in Settings /\ "refresh" \in Settings
    BY DEF Settings, Amounts
  <2>3. config["expiration"] \in Int /\ config["refresh"] \in Int
    BY <2>1, <2>2
  <2> QED BY <2>1, <2>3, Clock DEF Settled
<1>3. IssuedPair(pair')
  <2>1. now \in Int
    BY Clock DEF Settled
  <2>2. /\ pair'.owner = u
        /\ pair'.tokens = TokenPair(u, now, config["expiration"], config["refresh"])
    BY DEF Issue
  <2> QED BY <1>2, <2>1, <2>2 DEF IssuedPair
<1> QED BY <1>3 DEF Settled, Issue

LEMMA SettledStep ==
  ASSUME Settled, [Next]_vars
  PROVE  Settled'
<1> USE DEF Settled, process
<1>1. CASE Load
  BY <1>1 DEF Load
<1>2. CASE Login \/ Renew
  <2>1. phase = "idle" /\ \E u \in Users, how \in {"login", "renewal"} : Issue(u, how)
    BY <1>2 DEF Login, Renew
  <2> QED BY <2>1, IssueSettled
<1>3. CASE Tick
  BY <1>3, Clock DEF Tick
<1>4. CASE Arrive
  BY <1>4 DEF Arrive
<1>5. CASE Release
  BY <1>5 DEF Release
<1>6. CASE \/ Middleware \/ Identification \/ Handling \/ Recover \/ Log \/ Forward
           \/ BadGateway
  <2>1. Ongoing
    BY <1>6, ServingOngoing
  <2> QED BY <2>1, Clock DEF Ongoing
<1>7. CASE UNCHANGED vars
  BY <1>7 DEF vars
<1> QED BY <1>1, <1>2, <1>3, <1>4, <1>5, <1>6, <1>7 DEF Next, Serving

THEOREM Settlement == Spec => []Settled
<1>1. Init => Settled
  BY SettledInit
<1>2. Settled /\ [Next]_vars => Settled'
  BY SettledStep
<1> QED BY <1>1, <1>2, PTL DEF Spec

\* Whatever is in config.yaml, the gateway that has started gives each of its
\* limiters a positive number, but for those of the rules of api_limit.
THEOREM UsableLimits == Spec => []LimitsUsable
<1>1. ASSUME Settled, phase \notin {"boot", "dead"}, config["limited"] = 1,
             NEW l \in DOMAIN Limits(config), l # "api"
      PROVE  Limits(config)[l] > 0
  <2>1. config["global"] > 0 /\ config["ipRequests"] > 0 /\ config["userRequests"] > 0
    BY <1>1, LoadedUsable DEF Settled
  <2>2. l \in {"global", "ip", "user"}
    BY <1>1 DEF Limits
  <2> QED BY <2>1, <2>2 DEF Limits
<1>2. Settled => LimitsUsable
  BY <1>1 DEF LimitsUsable
<1> QED BY <1>2, Settlement, PTL

LEMMA RenewalOwned ==
  ASSUME Settled, [Next]_vars, pair' # pair, pair'.by = "renewal"
  PROVE  pair # NoPair /\ pair'.owner = pair.owner /\ now < pair.tokens.refresh.exp
<1>1. Renew
  <2>1. ~Login
    BY DEF Login, Issue
  <2>2. ~(Load \/ Tick \/ Arrive \/ Release \/ UNCHANGED vars)
    BY DEF Load, Tick, Arrive, Release, vars, process
  <2>3. ~(\/ Middleware \/ Identification \/ Handling \/ Recover \/ Log \/ Forward
          \/ BadGateway)
    BY ServingOngoing DEF Ongoing
  <2> QED BY <2>1, <2>2, <2>3 DEF Next, Serving
<1>2. PICK u \in Users, token \in {pair.tokens.access, pair.tokens.refresh} :
        Renews(token, u, now) /\ Issue(u, "renewal")
  BY <1>1 DEF Renew
<1>3. pair # NoPair /\ IssuedPair(pair)
  BY <1>1 DEF Renew, Settled
<1>4. PICK v \in Users, t \in Int, e \in Int, r \in Int :
        pair.owner = v /\ pair.tokens = TokenPair(v, t, e, r) /\ t + r > 0
  BY <1>3 DEF IssuedPair
<1>5. token = pair.tokens.refresh /\ u.id = v.id
  <2>1. pair.tokens.access.subject = Blank
    <3>1. pair.tokens.access = AccessToken(v, t, e)
      BY <1>4 DEF TokenPair
    <3> QED BY <3>1 DEF AccessToken
  <2>2. u.id # Blank /\ token.subject = u.id
    BY <1>2, TokensAssumption DEF Renews
  <2>3. pair.tokens.refresh.subject = v.id
    BY <1>4 DEF TokenPair, RefreshToken
  <2> QED BY <1>2, <2>1, <2>2, <2>3
<1>6. now < pair.tokens.refresh.exp
  <2>1. token.exp = t + r
    BY <1>4, <1>5 DEF TokenPair, RefreshToken
  <2>2. token.exp # 0
    BY <1>4, <2>1
  <2> QED BY <1>2, <1>5, <2>2 DEF Renews, ValidateRefreshToken, StandardValid
<1>7. pair'.owner = u
  BY <1>2 DEF Issue
<1> QED BY <1>3, <1>4, <1>5, <1>6, <1>7, TokensAssumption

\* A new pair is for the owner of the old one, and made before its end.
THEOREM OwnersRenew == Spec => RenewedByOwner
<1>1. Settled /\ [Next]_vars =>
        [pair' # pair /\ pair'.by = "renewal" =>
           pair # NoPair /\ pair'.owner = pair.owner /\ now < pair.tokens.refresh.exp]_vars
  BY RenewalOwned
<1> QED BY <1>1, Settlement, PTL DEF Spec, RenewedByOwner

----------------------------------------------------------------------------
(* What a request comes with.                                              *)

Serviced == phase \notin {"boot", "dead", "idle"}

Arrived ==
  Serviced =>
    /\ \E a \in Arrivals : /\ request.method = a.method /\ request.path = a.path
                         /\ request.query = a.query /\ request.body = a.body
    /\ endpoint = Dispatch(config["dynamic"] = 1, loaded, request.method, request.path)
    /\ Proper(endpoint)
    /\ Shape(handlers, endpoint)
    /\ request.at \in Start .. now
    /\ request.token # NoToken => Sound(request.token)

LEMMA TokenSound ==
  ASSUME Settled, NEW credential, credential # "none" => pair # NoPair,
         Token(credential) # NoToken
  PROVE  Sound(Token(credential))
<1>1. credential \in {"access", "refresh", "foreign"} /\ pair # NoPair
  BY DEF Token
<1>2. PICK u \in Users, t \in Int, e \in Int, r \in Int : pair.tokens = TokenPair(u, t, e, r)
  BY <1>1 DEF Settled, IssuedPair
<1>3. pair.tokens.access = AccessToken(u, t, e) /\ pair.tokens.refresh = RefreshToken(u, t, r)
  BY <1>2 DEF TokenPair
<1>4. CASE credential = "access"
  <2>1. AccessToken(u, t, e).user = u
    BY DEF AccessToken
  <2>2. AccessToken(u, t, e).issuedAt = t /\ AccessToken(u, t, e).expiresAt = t + e
    BY DEF AccessToken
  <2> QED BY <1>3, <1>4, <2>1, <2>2 DEF Token, Sound
<1>5. CASE credential = "refresh"
  <2>1. RefreshToken(u, t, r).expiresAt = 0
    BY DEF RefreshToken
  <2> QED BY <1>3, <1>5, <2>1 DEF Token, Sound
<1>6. CASE credential = "foreign"
  <2>1. [AccessToken(u, t, e) EXCEPT !.secret = NoSecret].secret = NoSecret
    BY DEF AccessToken
  <2> QED BY <1>3, <1>6, <2>1, TokensAssumption DEF Token, Sound
<1> QED BY <1>1, <1>4, <1>5, <1>6

LEMMA ArriveArrived ==
  ASSUME Settled, Arrive
  PROVE  Arrived'
<1>1. PICK a \in Arrivals :
        /\ a.credential # "none" => pair # NoPair
        /\ request' = [method |-> a.method, path |-> a.path, query |-> a.query, body |-> a.body,
                       origin |-> a.origin, connection |-> a.connection, token |-> Token(a.credential), at |-> now]
        /\ endpoint' = Dispatch(config["dynamic"] = 1, loaded, a.method, a.path)
  BY DEF Arrive
<1>2. /\ request'.method = a.method /\ request'.path = a.path /\ request'.query = a.query
      /\ request'.body = a.body /\ request'.token = Token(a.credential) /\ request'.at = now
  BY <1>1
<1>3. now' = now /\ config' = config /\ loaded' = loaded /\ handlers' = Handlers(config, endpoint')
  BY DEF Arrive, process
<1>4. Proper(endpoint')
  <2>1. loaded \in BOOLEAN /\ (config["dynamic"] = 1) \in BOOLEAN
    BY DEF Settled
  <2>2. endpoint' \in Endpoints(config["dynamic"] = 1, loaded) \cup {NotFound}
    BY <1>1, <2>1, EndpointsDistinct
  <2> QED BY <2>2, EndpointProper
<1>5. Shape(handlers', endpoint')
  BY <1>3, <1>4, HandlersShape
<1>6. request'.at \in Start .. now'
  BY <1>2, <1>3, Clock DEF Settled
<1>7. request'.token # NoToken => Sound(request'.token)
  BY <1>1, <1>2, TokenSound
<1> QED BY <1>1, <1>2, <1>3, <1>4, <1>5, <1>6, <1>7 DEF Arrived

LEMMA ArrivedStep ==
  ASSUME Settled, Arrived, [Next]_vars
  PROVE  Arrived'
<1> USE DEF Arrived, Serviced, process
<1>1. CASE Load \/ Login \/ Renew \/ Tick \/ Release
  BY <1>1 DEF Load, Login, Renew, Issue, Tick, Release
<1>2. CASE Arrive
  BY <1>2, ArriveArrived
<1>3. CASE \/ Middleware \/ Identification \/ Handling \/ Recover \/ Log \/ Forward
           \/ BadGateway
  <2>1. Ongoing
    BY <1>3, ServingOngoing
  <2>2. request.at \in Start .. now => request.at \in Start .. now'
    BY <2>1, Clock DEF Ongoing, Settled
  <2> QED BY <2>1, <2>2 DEF Ongoing
<1>4. CASE UNCHANGED vars
  BY <1>4 DEF vars, given
<1> QED BY <1>1, <1>2, <1>3, <1>4 DEF Next, Serving

----------------------------------------------------------------------------
(* The place in the chain, and the answer.                                 *)

\* Handlers have a turn as long as nothing has been answered or received.
Turn == phase \in {"busy", "sending", "checking"} /\ index <= Len(handlers)

Counted ==
  /\ ~Serviced => index = 1 /\ received = Nothing /\ reply = "none" /\ records = <<>>
  /\ phase \in {"busy", "sending", "checking", "panicked"} =>
       records = <<>> /\ index \in 1 .. Len(handlers) + 1
  /\ Turn => received = Nothing /\ reply = "none"
  /\ phase = "busy" /\ index > Len(handlers) => reply # "none"
  /\ phase \in {"sending", "checking"} => index = Len(handlers)

\* A handler that is not the last one passes the request on, or answers it.
Passing ==
  /\ phase = "busy" /\ index \in DOMAIN handlers /\ handlers[index] \notin Final
  /\ Pass \/ \E status : status # "none" /\ Abort(status)
  /\ matched' = matched /\ received' = received

LEMMA MiddlewarePassing ==
  ASSUME Middleware \/ Identification
  PROVE  Passing
<1> USE DEF Passing, At, Final, work
<1>1. \A status \in {"403", "204", "400", "429", "401"} : status # "none"
  OBVIOUS
<1>2. CASE Cors
  BY <1>1, <1>2 DEF Cors
<1>3. CASE XSSProtection
  BY <1>1, <1>3 DEF XSSProtection
<1>4. CASE SQLInjectionProtection
  BY <1>1, <1>4 DEF SQLInjectionProtection
<1>5. CASE RateLimit
  BY <1>1, <1>5 DEF RateLimit
<1>6. CASE Authenticate
  BY <1>1, <1>6 DEF Authenticate, Validating
<1>7. CASE RequireRoles
  BY <1>1, <1>7 DEF RequireRoles, Validating
<1>8. CASE OptionalAuth
  BY <1>1, <1>8 DEF OptionalAuth, Validating
<1> QED BY <1>2, <1>3, <1>4, <1>5, <1>6, <1>7, <1>8 DEF Middleware, Identification

\* The last handler answers, begins what it has to wait for, or panics.
Concluding ==
  /\ phase = "busy" /\ index \in DOMAIN handlers /\ handlers[index] \in Final
  /\ \/ \E status : status # "none" /\ Abort(status)
     \/ Panic
     \/ phase' \in {"sending", "checking"} /\ UNCHANGED <<given, index, reply, records>>
  /\ received' = received

LEMMA HandlingConcluding ==
  ASSUME LegacyProxy \/ Proxy \/ StartChecks \/ Serve
  PROVE  Concluding
<1> USE DEF Concluding, At, work
<1>1. \A status \in {"404", "503"} : status # "none"
  OBVIOUS
<1>2. CASE LegacyProxy
  BY <1>1, <1>2 DEF LegacyProxy, Final
<1>3. CASE Proxy
  BY <1>1, <1>3 DEF Proxy, Final
<1>4. CASE StartChecks
  BY <1>4 DEF StartChecks, Final
<1>5. CASE Serve
  <2>1. PICK h \in DOMAIN Answers : At(h) /\ \E status \in Answers[h] : Abort(status)
    BY <1>5 DEF Serve
  <2>2. h \in Final /\ \A status \in Answers[h] : status # "none"
    <3>1. h \in {"report", "get", "register", "deregister", "prometheus", "missing"}
      BY DEF Answers
    <3>2. h \in Final
      BY <3>1 DEF Final
    <3>3. Answers[h] \subseteq {"200", "404", "400", "500", "501"}
      BY <3>1 DEF Answers
    <3> QED BY <3>2, <3>3
  <2>3. received' = received
    BY <1>5 DEF Serve
  <2> QED BY <2>1, <2>2, <2>3
<1> QED BY <1>2, <1>3, <1>4, <1>5

LEMMA CountedStep ==
  ASSUME Settled, Arrived, Counted, [Next]_vars
  PROVE  Counted'
<1> USE DEF Counted, Turn, Serviced
<1> DEFINE n == Len(handlers)
<1>1. Serviced => /\ n \in Nat /\ n > 3 /\ DOMAIN handlers = 1 .. n
                  /\ \A i \in 1 .. n : handlers[i] \in Final <=> i = n
  <2> SUFFICES ASSUME Serviced
               PROVE  /\ n \in Nat /\ n > 3 /\ DOMAIN handlers = 1 .. n
                      /\ \A i \in 1 .. n : handlers[i] \in Final <=> i = n
    OBVIOUS
  <2>1. Shape(handlers, endpoint)
    BY DEF Arrived
  <2>2. n \in Nat /\ n > 3 /\ DOMAIN handlers = 1 .. n
    BY <2>1 DEF Shape
  <2>3. handlers[n] \in Final /\ \A i \in 1 .. n - 1 : handlers[i] \notin Final
    BY <2>1 DEF Shape
  <2> HIDE DEF n
  <2>4. \A i \in 1 .. n : i = n \/ i \in 1 .. n - 1
    BY <2>2
  <2>5. n \notin 1 .. n - 1
    BY <2>2
  <2> QED BY <2>2, <2>3, <2>4, <2>5
<1>2. CASE Load \/ Login \/ Renew \/ Tick
  BY <1>2 DEF Load, Login, Renew, Issue, Tick, work
<1>3. CASE Arrive
  <2>1. Arrived' /\ Serviced'
    BY <1>3, ArriveArrived DEF Arrive
  <2>2. Len(handlers') \in Nat /\ Len(handlers') > 3
    BY <2>1 DEF Arrived, Shape
  <2> QED BY <1>3, <2>2 DEF Arrive
<1>4. CASE Middleware \/ Identification
  <2>1. Passing /\ handlers' = handlers
    BY <1>4, MiddlewarePassing, ServingOngoing DEF Ongoing
  <2>2. index \in 1 .. n /\ index # n
    BY <1>1, <2>1 DEF Passing
  <2>3. phase' = "busy" /\ records' = records /\ received' = received
    BY <2>1 DEF Passing, Pass, Abort
  <2>4. \/ index' = index + 1 /\ reply' = reply
        \/ index' = n + 1 /\ reply' # "none"
    BY <2>1 DEF Passing, Pass, Abort
  <2>5. Len(handlers') = n /\ n \in Nat /\ phase = "busy"
    BY <1>1, <2>1 DEF Passing
  <2> HIDE DEF n
  <2>6. index' \in 1 .. n + 1 /\ (index' > n => reply' # "none")
          /\ (index' <= n => reply' = reply)
    BY <2>2, <2>4, <2>5
  <2> QED BY <2>2, <2>3, <2>5, <2>6 DEF n
<1>5. CASE LegacyProxy \/ Proxy \/ StartChecks \/ Serve
  <2>1. Concluding /\ handlers' = handlers
    BY <1>5, HandlingConcluding, ServingOngoing DEF Ongoing, Handling
  <2>2. index = n
    BY <1>1, <2>1 DEF Concluding
  <2>3. /\ phase' \in {"busy", "panicked", "sending", "checking"}
        /\ records' = records /\ received' = received
    BY <2>1 DEF Concluding, Abort, Panic
  <2>4. \/ phase' = "busy" /\ index' = n + 1 /\ reply' # "none"
        \/ phase' # "busy" /\ index' = index /\ reply' = reply
    BY <2>1 DEF Concluding, Abort, Panic
  <2>5. Len(handlers') = n /\ n \in Nat /\ n > 3 /\ phase = "busy"
    BY <1>1, <2>1 DEF Concluding
  <2> HIDE DEF n
  <2>6. index' \in 1 .. n + 1 /\ (phase' = "busy" => index' > n /\ reply' # "none")
    BY <2>2, <2>4, <2>5
  <2> QED BY <2>2, <2>3, <2>4, <2>5, <2>6 DEF n
<1>6. CASE RunCheck
  BY <1>6 DEF RunCheck, given
<1>7. CASE ReportHealth
  BY <1>1, <1>7 DEF ReportHealth, given, work
<1>8. CASE Forward
  BY <1>1, <1>8 DEF Forward, given
<1>9. CASE BadGateway
  BY <1>1, <1>9 DEF BadGateway, given, work
<1>10. CASE Recover
  <2>1. /\ phase' = "busy" /\ index' = n + 1 /\ reply' # "none"
        /\ records' = records /\ Len(handlers') = n /\ Serviced
    <3>1. reply' # "none"
      BY <1>10 DEF Recover
    <3>2. phase' = "busy" /\ index' = n + 1 /\ records' = records /\ handlers' = handlers
      BY <1>10 DEF Recover, given
    <3>3. Serviced
      BY <1>10 DEF Recover
    <3> QED BY <3>1, <3>2, <3>3
  <2>2. records = <<>> /\ n + 1 \in 1 .. n + 1 /\ n + 1 > n
    <3>1. n \in Nat
      BY <1>1, <2>1
    <3>2. records = <<>>
      BY <1>10 DEF Recover
    <3> HIDE DEF n
    <3> QED BY <3>1, <3>2
  <2> QED BY <2>1, <2>2
<1>11. CASE Log
  BY <1>11 DEF Log, given, work
<1>12. CASE Release
  BY <1>12 DEF Release
<1>13. CASE UNCHANGED vars
  BY <1>13 DEF vars, given, work
<1> QED
  BY <1>2, <1>3, <1>4, <1>5, <1>6, <1>7, <1>8, <1>9, <1>10, <1>11, <1>12, <1>13
     DEF Next, Serving, Handling

THEOREM Progress == Spec => [](Settled /\ Arrived /\ Counted)
<1>1. Init => Settled /\ Arrived /\ Counted
  <2>1. Init => Arrived /\ Counted
    BY DEF Init, Arrived, Counted, Turn, Serviced
  <2> QED BY <2>1, SettledInit
<1>2. Settled /\ Arrived /\ Counted /\ [Next]_vars => (Settled /\ Arrived /\ Counted)'
  BY SettledStep, ArrivedStep, CountedStep
<1> QED BY <1>1, <1>2, PTL DEF Spec

LEMMA RecordedStep ==
  ASSUME Settled, Counted, RecordedAsAnswered, [Next]_vars
  PROVE  RecordedAsAnswered'
<1>1. CASE phase' # "answered"
  BY <1>1 DEF RecordedAsAnswered
<1>2. CASE Log
  <2>1. records = <<>>
    BY <1>2 DEF Log, Counted
  <2>2. records' = <<reply>> /\ reply' = reply
    BY <1>2, <2>1 DEF Log
  <2>3. reply # "none"
    BY <1>2 DEF Log, Counted
  <2> QED BY <2>2, <2>3 DEF RecordedAsAnswered
<1>3. CASE UNCHANGED vars
  BY <1>3 DEF vars, RecordedAsAnswered
<1>4. CASE Load \/ Login \/ Renew \/ Tick \/ Arrive \/ Release
  <2>1. phase' # "answered"
    BY <1>4 DEF Load, Login, Renew, Issue, Tick, Arrive, Release
  <2> QED BY <1>1, <2>1
<1>5. CASE Middleware \/ Identification
  <2>1. phase' # "answered"
    BY <1>5, MiddlewarePassing DEF Passing, Pass, Abort
  <2> QED BY <1>1, <2>1
<1>6. CASE LegacyProxy \/ Proxy \/ StartChecks \/ Serve
  <2>1. phase' # "answered"
    BY <1>6, HandlingConcluding DEF Concluding, Abort, Panic
  <2> QED BY <1>1, <2>1
<1>7. CASE RunCheck \/ ReportHealth \/ Forward \/ BadGateway \/ Recover
  <2>1. phase' # "answered"
    BY <1>7 DEF RunCheck, ReportHealth, Forward, BadGateway, Recover
  <2> QED BY <1>1, <2>1
<1> QED BY <1>2, <1>3, <1>4, <1>5, <1>6, <1>7 DEF Next, Serving, Handling

\* Every request is recorded once, as it was answered.
THEOREM AnswersRecorded == Spec => []RecordedAsAnswered
<1>1. Init => RecordedAsAnswered
  BY DEF Init, RecordedAsAnswered
<1> QED BY <1>1, Progress, RecordedStep, PTL DEF Spec

----------------------------------------------------------------------------
(* The token and the roles.                                                *)

Carried ==
  /\ headers = CreateAuthHeaders(request.token.user)
  /\ context = [id |-> request.token.user.id, company |-> request.token.user.company]

\* What the handlers that have had their turn have seen to.
Looked ==
  Turn => \A j \in 1 .. index - 1 :
            /\ handlers[j] \in {"authenticate", "roles"} => Identified /\ Carried
            /\ handlers[j] = "roles" => Entitled(endpoint.roles)

\* What is being sent, and where.
Routed ==
  phase = "sending" =>
    /\ handlers[index] = "proxy" /\ config["dynamic"] = 1
    /\ matched = MatchRoute(loaded, request.method, request.path) /\ matched # 0

LEMMA AcceptedIdentified ==
  ASSUME Settled, Arrived, Serviced, NEW t \in Readings, Accepts(t),
         now' = t[3], request' = request
  PROVE  Identified'
<1>1. /\ t[2] \in Int /\ t[3] \in Int /\ now <= t[2] /\ t[2] <= t[3]
  BY Clock DEF Readings, Settled
<1>2. request.token # NoToken /\ Sound(request.token) /\ request.at \in Start .. now
  BY DEF Accepts, Arrived
<1>3. /\ request.token.secret = Secret
      /\ request.token.expiresAt > t[2] /\ request.token.issuedAt <= t[2]
  BY DEF Accepts, ValidateToken, IsValid
<1>4. t[2] > 0 \/ t[2] = 0
  BY <1>1, Clock DEF Settled
<1>5. request.token.user \in Users
  BY <1>1, <1>2, <1>3, <1>4 DEF Sound
<1>6. request.token.issuedAt \in Int /\ request.token.expiresAt \in Int
  BY <1>1, <1>2, <1>3, <1>4 DEF Sound
<1>7. Current(request.token, t[2])
  BY <1>1, <1>2, <1>3, <1>5, <1>6 DEF Current
<1>8. t[2] \in request.at .. now'
  BY <1>1, <1>2, Clock DEF Settled
<1> QED BY <1>7, <1>8 DEF Identified

LEMMA IdentifiedKept ==
  ASSUME Settled, Arrived, Serviced, Identified, request' = request, now' \in now .. MaxTime
  PROVE  Identified'
<1>1. PICK t \in request.at .. now : Current(request.token, t)
  BY DEF Identified
<1>2. t \in request.at .. now'
  BY Clock DEF Settled, Arrived
<1> QED BY <1>1, <1>2 DEF Identified

\* How the handlers that look at the token pass a request on.
LEMMA IdentificationLooks ==
  ASSUME Settled, Arrived, Identification, Turn'
  PROVE  /\ index' = index + 1 /\ phase' = "busy" /\ phase = "busy"
         /\ \/ Identified' /\ Carried'
            \/ handlers[index] = "optional" /\ UNCHANGED <<headers, context>>
         /\ handlers[index] = "roles" => Entitled(endpoint.roles)
<1> USE DEF Validating, At
<1>1. Ongoing /\ Serviced
  BY ServingOngoing DEF Ongoing, Serviced
<1>2. ~\E status : Abort(status)
  <2>1. Len(handlers) \in Nat /\ handlers' = handlers
    BY <1>1 DEF Ongoing, Arrived, Shape
  <2> QED BY <2>1 DEF Abort, Turn
<1>3. ASSUME Identify
      PROVE  Carried'
  BY <1>1, <1>3 DEF Identify, Carried, Ongoing
<1>4. CASE Authenticate
  <2>1. PICK t \in Readings : /\ Validating("authenticate", t)
                             /\ Accepts(t) /\ Pass /\ Identify
    BY <1>2, <1>4 DEF Authenticate
  <2>2. Identified'
    BY <1>1, <2>1, AcceptedIdentified DEF Ongoing
  <2> QED BY <1>3, <2>1, <2>2 DEF Pass
<1>5. CASE RequireRoles
  <2>1. PICK t \in Readings :
          /\ Validating("roles", t)
          /\ Accepts(t) /\ ValidateRole(request.token.user, endpoint.roles)
          /\ Pass /\ Identify
    BY <1>2, <1>5 DEF RequireRoles
  <2>2. Identified'
    BY <1>1, <2>1, AcceptedIdentified DEF Ongoing
  <2>3. Entitled(endpoint.roles)
    BY <2>1 DEF ValidateRole, Entitled
  <2> QED BY <1>3, <2>1, <2>2, <2>3 DEF Pass
<1>6. CASE OptionalAuth
  <2>1. PICK t \in Readings : /\ Validating("optional", t) /\ Pass
                             /\ IF Accepts(t) THEN Identify ELSE Unidentified
    BY <1>6 DEF OptionalAuth
  <2>2. CASE Accepts(t)
    <3>1. Identified'
      BY <1>1, <2>1, <2>2, AcceptedIdentified DEF Ongoing
    <3> QED BY <1>3, <2>1, <2>2, <3>1 DEF Pass
  <2>3. CASE ~Accepts(t)
    BY <2>1, <2>3 DEF Unidentified, Pass
  <2> QED BY <2>2, <2>3
<1> QED BY <1>4, <1>5, <1>6 DEF Identification

\* How a turn comes about.
LEMMA TurnStep ==
  ASSUME Settled, Arrived, Counted, [Next]_vars, Turn'
  PROVE  \/ Arrive /\ index' = 1
         \/ /\ Middleware \/ Identification
            /\ Ongoing /\ Serviced /\ Turn /\ index \in 1 .. Len(handlers) /\ Pass
         \/ /\ Ongoing /\ Serviced /\ Turn /\ index' = index
            /\ headers' = headers /\ context' = context /\ body' = body
         \/ UNCHANGED vars
<1>1. ASSUME Ongoing
      PROVE  /\ Serviced /\ Len(handlers) \in Nat /\ handlers' = handlers
             /\ DOMAIN handlers = 1 .. Len(handlers)
             /\ ~\E status : Abort(status)
  <2>1. Serviced
    BY <1>1 DEF Ongoing, Serviced
  <2>2. Len(handlers) \in Nat /\ handlers' = handlers /\ DOMAIN handlers = 1 .. Len(handlers)
    BY <1>1, <2>1 DEF Ongoing, Arrived, Shape
  <2>3. ~\E status : Abort(status)
    BY <2>2 DEF Abort, Turn
  <2> QED BY <2>1, <2>2, <2>3
<1>2. CASE Load \/ Login \/ Renew \/ Tick \/ Release
  BY <1>2 DEF Load, Login, Renew, Issue, Tick, Release, Turn
<1>3. CASE Arrive
  BY <1>3 DEF Arrive, Counted, Serviced
\* None comes after the last handler's.
<1>4. CASE ReportHealth \/ Forward \/ BadGateway \/ Recover \/ Log
  <2>1. Len(handlers) \in Nat /\ handlers' = handlers
    BY <1>1, <1>4, ServingOngoing DEF Handling
  <2>2. index' = Len(handlers) + 1 \/ phase' = "answered"
    <3>1. CASE ReportHealth \/ Forward \/ BadGateway
      <4>1. index = Len(handlers) /\ index' = index + 1
        BY <3>1 DEF ReportHealth, Forward, BadGateway, Counted
      <4> QED BY <2>1, <4>1
    <3>2. CASE Recover \/ Log
      BY <2>1, <3>2 DEF Recover, Log
    <3> QED BY <1>4, <3>1, <3>2
  <2> QED BY <2>1, <2>2 DEF Turn
<1>5. CASE Middleware \/ Identification
  <2>1. Passing /\ Ongoing
    BY <1>5, MiddlewarePassing, ServingOngoing
  <2>2. index \in 1 .. Len(handlers) /\ phase = "busy" /\ Pass
    BY <1>1, <2>1 DEF Passing
  <2> QED BY <1>1, <1>5, <2>1, <2>2 DEF Turn
<1>6. CASE LegacyProxy \/ Proxy \/ StartChecks \/ Serve
  <2>1. Concluding /\ Ongoing
    BY <1>6, HandlingConcluding, ServingOngoing DEF Handling
  <2>2. index \in 1 .. Len(handlers) /\ phase = "busy" /\ index' = index
    BY <1>1, <2>1 DEF Concluding, Panic, Turn
  <2>3. headers' = headers /\ context' = context /\ body' = body
    BY <1>6 DEF LegacyProxy, Proxy, StartChecks, Serve, work
  <2> QED BY <1>1, <2>1, <2>2, <2>3 DEF Turn
<1>7. CASE RunCheck
  <2>1. Ongoing
    BY <1>7, ServingOngoing DEF Handling
  <2>2. /\ index' = index /\ headers' = headers /\ context' = context /\ body' = body
        /\ phase' = phase
    BY <1>7 DEF RunCheck
  <2> QED BY <1>1, <2>1, <2>2 DEF Turn
<1> QED BY <1>2, <1>3, <1>4, <1>5, <1>6, <1>7 DEF Next, Serving, Handling

LEMMA LookedStep ==
  ASSUME Settled, Arrived, Counted, Looked, [Next]_vars
  PROVE  Looked'
<1> SUFFICES ASSUME Turn',
                    NEW j \in 1 .. index' - 1
             PROVE  /\ handlers'[j] \in {"authenticate", "roles"} => Identified' /\ Carried'
                    /\ handlers'[j] = "roles" => Entitled(endpoint.roles)'
  BY DEF Looked
<1> USE DEF Looked
<1>1. CASE Arrive /\ index' = 1
  BY <1>1
\* A handler that does not look at the token leaves what was seen.
<1>2. CASE /\ Turn /\ Ongoing /\ Serviced
           /\ headers' = headers /\ context' = context
           /\ \/ index' = index
              \/ index' = index + 1 /\ handlers[index] \notin {"authenticate", "roles"}
  <2>1. index \in Nat
    BY <1>2 DEF Counted, Turn, Arrived, Shape
  <2>2. j \in 1 .. index - 1 \/ handlers[j] \notin {"authenticate", "roles"}
    BY <1>2, <2>1
  <2>3. CASE j \in 1 .. index - 1
    <3>1. handlers[j] \in {"authenticate", "roles"} => Identified' /\ Carried'
      BY <1>2, <2>3, IdentifiedKept DEF Carried, Ongoing
    <3> QED BY <1>2, <2>3, <3>1 DEF Entitled, Ongoing
  <2> QED BY <1>2, <2>2, <2>3 DEF Ongoing
<1>3. CASE /\ Middleware \/ Identification
           /\ Ongoing /\ Serviced /\ Turn /\ index \in 1 .. Len(handlers) /\ Pass
  <2>1. CASE Middleware
    <3>1. headers' = headers /\ context' = context
      BY <2>1 DEF Middleware, Cors, XSSProtection, SQLInjectionProtection, RateLimit, work
    <3>2. At("cors") \/ At("xss") \/ At("sql") \/ At("limit")
      BY <2>1 DEF Middleware, Cors, XSSProtection, SQLInjectionProtection, RateLimit
    <3>3. handlers[index] \notin {"authenticate", "roles"}
      BY <3>2 DEF At
    <3> QED BY <1>2, <1>3, <3>1, <3>3 DEF Pass
  <2>2. CASE Identification
    <3>1. /\ index' = index + 1
          /\ \/ Identified' /\ Carried'
             \/ handlers[index] = "optional" /\ UNCHANGED <<headers, context>>
          /\ handlers[index] = "roles" => Entitled(endpoint.roles)
      BY <2>2, IdentificationLooks
    <3>2. CASE Identified' /\ Carried'
      <4>1. j = index \/ j \in 1 .. index - 1
        BY <1>3, <3>1
      <4>2. handlers[j] = "roles" => Entitled(endpoint.roles)
        BY <1>3, <3>1, <4>1
      <4>3. Entitled(endpoint.roles)' <=> Entitled(endpoint.roles)
        BY <1>3 DEF Ongoing, Entitled
      <4> QED BY <1>3, <3>2, <4>2, <4>3 DEF Ongoing
    <3> QED BY <1>2, <1>3, <3>1, <3>2
  <2> QED BY <1>3, <2>1, <2>2
<1>4. CASE UNCHANGED vars
  BY <1>4 DEF vars, process, given, work, Turn, Identified, Carried, Entitled
<1> QED BY <1>1, <1>2, <1>3, <1>4, TurnStep

LEMMA RoutedStep ==
  ASSUME Settled, Arrived, Counted, Routed, [Next]_vars
  PROVE  Routed'
<1> SUFFICES ASSUME phase' = "sending" PROVE Routed'
  BY DEF Routed
<1>1. Proxy \/ UNCHANGED vars
  <2>1. ~(Load \/ Login \/ Renew \/ Tick \/ Arrive \/ Release)
    BY DEF Load, Login, Renew, Issue, Tick, Arrive, Release
  <2>2. ~(Middleware \/ Identification)
    BY MiddlewarePassing DEF Passing, Pass, Abort
  <2>3. ~(LegacyProxy \/ StartChecks \/ Serve)
    BY DEF LegacyProxy, StartChecks, Serve, At, Abort, Panic
  <2>4. ~(RunCheck \/ ReportHealth \/ Forward \/ BadGateway \/ Recover \/ Log)
    BY DEF RunCheck, ReportHealth, Forward, BadGateway, Recover, Log
  <2> QED BY <2>1, <2>2, <2>3, <2>4 DEF Next, Serving, Handling
<1>2. CASE Proxy
  <2>1. /\ matched' = MatchRoute(loaded, request.method, request.path) /\ matched' # 0
        /\ handlers[index] = "proxy" /\ config["dynamic"] = 1 /\ index' = index
    BY <1>2 DEF Proxy, At, Abort
  <2>2. Ongoing
    BY <1>2, ServingOngoing DEF Handling
  <2> QED BY <2>1, <2>2 DEF Routed, Ongoing
<1>3. CASE UNCHANGED vars
  BY <1>3 DEF vars, process, given, work, Routed
<1> QED BY <1>1, <1>2, <1>3

LEMMA UnreadMatchesNothing ==
  ASSUME NEW method, NEW path
  PROVE  MatchRoute(FALSE, method, path) = 0
<1>1. DOMAIN Routes(FALSE) = {}
  BY DEF Routes
<1>2. {k \in DOMAIN Routes(FALSE) : Matches(Table[k], method, path)} = {}
  BY <1>1
<1> QED BY <1>2 DEF MatchRoute

\* A handler behind another one is in the request's handlers too.
LEMMA BehindLooked ==
  ASSUME Arrived, Counted, Looked, Turn,
         NEW n \in {3, 4}, NEW i \in DOMAIN endpoint.chain, index = n + i,
         \A k \in DOMAIN endpoint.chain : handlers[n + k] = endpoint.chain[k]
  PROVE  /\ Behind(endpoint.chain, i, "authenticate") => Identified /\ Carried
         /\ Behind(endpoint.chain, i, "roles") => Identified /\ Carried /\ Entitled(endpoint.roles)
<1>1. DOMAIN endpoint.chain = 1 .. Len(endpoint.chain) /\ Len(endpoint.chain) \in Nat
  BY DEF Arrived, Turn, Serviced, Proper
<1>2. \A k \in 1 .. i - 1 : /\ n + k \in 1 .. index - 1
                            /\ handlers[n + k] = endpoint.chain[k]
  <2> SUFFICES ASSUME NEW k \in 1 .. i - 1
               PROVE  n + k \in 1 .. index - 1 /\ handlers[n + k] = endpoint.chain[k]
    OBVIOUS
  <2>1. k \in DOMAIN endpoint.chain /\ n + k \in 1 .. index - 1
    BY <1>1
  <2> QED BY <2>1
<1> QED BY <1>2 DEF Behind, Looked

\* A request that is sent has been through all of its endpoint's handlers but
\* the last.
LEMMA SentLooked ==
  ASSUME Settled, Arrived, Counted, Looked, Routed, phase = "sending"
  PROVE  /\ Authenticates(endpoint) => Identified /\ Carried
         /\ endpoint.roles # {} => Entitled(endpoint.roles)
<1>1. Turn /\ index = Len(handlers) /\ Shape(handlers, endpoint) /\ Proper(endpoint)
  BY DEF Counted, Arrived, Serviced, Turn, Shape
<1>2. PICK n \in {3, 4} : /\ Len(handlers) = n + Len(endpoint.chain)
                         /\ \A i \in DOMAIN endpoint.chain : handlers[n + i] = endpoint.chain[i]
  BY <1>1 DEF Shape
<1> DEFINE i == Len(endpoint.chain)
<1>3. /\ DOMAIN endpoint.chain = 1 .. i /\ i \in DOMAIN endpoint.chain /\ index = n + i
      /\ endpoint.chain[i] \in Final
  BY <1>1, <1>2 DEF Proper
<1> HIDE DEF i
<1>4. ASSUME NEW v \in {"authenticate", "roles"}, NEW k \in DOMAIN endpoint.chain,
             endpoint.chain[k] = v
      PROVE  Behind(endpoint.chain, i, v)
  <2>1. k # i
    BY <1>3, <1>4 DEF Final
  <2>2. k \in 1 .. i - 1
    BY <1>3, <2>1
  <2> QED BY <1>4, <2>2 DEF Behind
<1>5. Authenticates(endpoint) => Identified /\ Carried
  BY <1>1, <1>2, <1>3, <1>4, BehindLooked DEF Authenticates
<1>6. endpoint.roles # {} => Entitled(endpoint.roles)
  <2> SUFFICES ASSUME endpoint.roles # {} PROVE Entitled(endpoint.roles)
    OBVIOUS
  <2>1. Behind(endpoint.chain, i, "roles")
    BY <1>1, <1>4 DEF Proper
  <2> QED BY <1>1, <1>2, <1>3, <2>1, BehindLooked
<1> QED BY <1>5, <1>6

\* The endpoint a route of services.yaml is made into asks for what it asks.
LEMMA EndpointAsks ==
  ASSUME NEW r, NEW e \in EndpointsOf(r)
  PROVE  e.roles = RolesOf(r) /\ (NeedsToken(r) => Authenticates(e))
<1>1. e.chain = ChainOf(r) /\ e.roles = RolesOf(r)
  <2>1. PICK m \in MethodsOf(r) : e = Endpoint(m, r.prefix \o r.pattern, ChainOf(r), RolesOf(r))
    BY DEF EndpointsOf
  <2> QED BY <2>1 DEF Endpoint
<1>2. DOMAIN ChainOf(r) = 1 .. Len(ChainOf(r))
  BY ChainShape
<1> QED BY <1>1, <1>2, ChainAsks DEF Authenticates, Has

LEMMA SentAuthorised ==
  ASSUME Settled, Arrived, Counted, Looked, Routed, phase = "sending"
  PROVE  /\ Authenticates(endpoint) => Identified
         /\ Entitled(endpoint.roles)
         /\ NeedsToken(Table[matched]) /\ endpoint \in EndpointsOf(Table[matched]) =>
              Identified /\ Entitled(RolesOf(Table[matched]))
<1>1. Entitled(endpoint.roles)
  BY SentLooked DEF Entitled
<1>2. ASSUME NeedsToken(Table[matched]), endpoint \in EndpointsOf(Table[matched])
      PROVE  Identified /\ Entitled(RolesOf(Table[matched]))
  <2>1. endpoint.roles = RolesOf(Table[matched]) /\ Authenticates(endpoint)
    BY <1>2, EndpointAsks
  <2> QED BY <1>1, <2>1, SentLooked
<1> QED BY <1>1, <1>2, SentLooked

LEMMA AdministratorsOnly ==
  ASSUME Arrived, Counted, Looked, At("report"), Head(endpoint.path) = "admin"
  PROVE  Identified /\ Entitled({"admin"})
<1>1. /\ Shape(handlers, endpoint) /\ Proper(endpoint) /\ phase = "busy"
      /\ index \in 1 .. Len(handlers) /\ handlers[index] = "report" /\ Turn
  BY DEF At, Arrived, Serviced, Shape, Turn
<1>2. index = Len(handlers)
  <2>1. handlers[index] \in Final
    BY <1>1 DEF Final
  <2>2. index \notin 1 .. Len(handlers) - 1
    BY <1>1, <2>1 DEF Shape
  <2>3. Len(handlers) \in Nat
    BY <1>1 DEF Shape
  <2> QED BY <1>1, <2>2, <2>3
<1>3. PICK n \in {3, 4} : /\ Len(handlers) = n + Len(endpoint.chain)
                         /\ \A i \in DOMAIN endpoint.chain : handlers[n + i] = endpoint.chain[i]
  BY <1>1 DEF Shape
<1> DEFINE i == Len(endpoint.chain)
<1>4. i \in DOMAIN endpoint.chain /\ index = n + i
  BY <1>1, <1>2, <1>3 DEF Proper
<1> HIDE DEF i
<1>5. endpoint.chain[i] = "report"
  BY <1>1, <1>3, <1>4
<1>6. Behind(endpoint.chain, i, "roles") /\ endpoint.roles = {"admin"}
  BY <1>1, <1>4, <1>5 DEF Proper
<1> QED BY <1>1, <1>3, <1>4, <1>6, BehindLooked

THEOREM Guarding == Spec => [](Settled /\ Arrived /\ Counted /\ Looked /\ Routed)
<1>1. Init => Looked /\ Routed
  BY DEF Init, Looked, Routed, Turn
<1> QED BY <1>1, Progress, LookedStep, RoutedStep, PTL DEF Spec

\* A request is sent on, or administers the gateway, only with the token and
\* the role that its endpoint asks for, and where that is made from the route
\* MatchRoute finds, with those services.yaml asks for.
THEOREM Authorisation == Spec => []Authorised
<1>1. Settled /\ Arrived /\ Counted /\ Looked /\ Routed => Authorised
  BY SentAuthorised, AdministratorsOnly DEF Authorised
<1> QED BY <1>1, Guarding, PTL

----------------------------------------------------------------------------
(* What the instance got.                                                  *)

LEMMA ReceivedStep ==
  ASSUME Settled, Arrived, Counted, [Next]_vars, received' # Nothing
  PROVE  \/ Forward
         \/ /\ received' = received /\ matched' = matched /\ request' = request
            /\ endpoint' = endpoint
<1>1. CASE Load \/ Login \/ Renew \/ Tick \/ Arrive \/ Release
  <2>1. ~Serviced \/ Release
    BY <1>1 DEF Load, Login, Renew, Issue, Tick, Arrive, Serviced
  <2>2. received' = received \/ received' = Nothing
    BY <1>1 DEF Load, Login, Renew, Issue, Tick, Arrive, Release, work
  <2>3. ~Release
    BY DEF Release
  <2> QED BY <2>1, <2>2, <2>3 DEF Counted
<1>2. CASE Middleware \/ Identification
  <2>1. Passing /\ Ongoing
    BY <1>2, MiddlewarePassing, ServingOngoing
  <2> QED BY <2>1 DEF Passing, Ongoing
<1>3. CASE LegacyProxy \/ Proxy \/ StartChecks \/ Serve
  <2>1. Concluding /\ Ongoing
    BY <1>3, HandlingConcluding, ServingOngoing DEF Handling
  <2>2. Turn
    <3>1. Serviced
      BY <2>1 DEF Concluding, Serviced
    <3> QED BY <2>1, <3>1 DEF Concluding, Turn, Arrived, Shape
  <2> QED BY <2>1, <2>2 DEF Concluding, Counted
<1>4. CASE RunCheck \/ ReportHealth \/ BadGateway \/ Recover \/ Log
  BY <1>4 DEF RunCheck, ReportHealth, BadGateway, Recover, Log, given, work
<1>5. CASE UNCHANGED vars
  BY <1>5 DEF vars, given, work
<1> QED BY <1>1, <1>2, <1>3, <1>4, <1>5 DEF Next, Serving, Handling

LEMMA Least ==
  ASSUME NEW T, T \subseteq Nat, T # {}
  PROVE  \E x \in T : \A y \in T : x <= y
<1> DEFINE R == OpToRel(<, Nat)
<1>1. IsWellFoundedOn(R, Nat)
  BY NatLessThanWellFounded
<1>2. \A x, y \in Nat : y < x => <<y, x>> \in R
  BY DEF OpToRel
<1> HIDE DEF R
<1>3. PICK x \in T : \A y \in T : ~(<<y, x>> \in R)
  BY <1>1, WFMin
<1>4. \A y \in T : ~(y < x)
  BY <1>2, <1>3
<1>5. \A y \in T : x <= y
  BY <1>4
<1> QED BY <1>5

LEMMA MatchedServed ==
  ASSUME NEW loadedTable \in BOOLEAN, NEW method, NEW path,
         MatchRoute(loadedTable, method, path) # 0
  PROVE  /\ MatchRoute(loadedTable, method, path) \in DOMAIN Table
         /\ Table[MatchRoute(loadedTable, method, path)].service \in DOMAIN MaxBodyOf
<1> DEFINE matching == {k \in DOMAIN Routes(loadedTable) : Matches(Table[k], method, path)}
           first == CHOOSE k \in matching : \A m \in matching : k <= m
<1>1. matching # {} /\ MatchRoute(loadedTable, method, path) = first
  BY DEF MatchRoute
<1>2. Table[first].service \in DOMAIN MaxBodyOf
  BY DEF MatchRoute
<1>3. loadedTable = TRUE
  BY UnreadMatchesNothing
<1>4. matching \subseteq DOMAIN Table
  BY <1>3 DEF Routes
<1>5. matching \subseteq Nat
  BY <1>4, RoutesAssumption
<1>6. first \in matching
  <2> HIDE DEF matching
  <2>1. \E k \in matching : \A m \in matching : k <= m
    BY <1>1, <1>5, Least
  <2> QED BY <2>1
<1> HIDE DEF first, matching
<1> QED BY <1>1, <1>2, <1>4, <1>6

LEMMA SentInTable ==
  ASSUME Settled, Routed, phase = "sending"
  PROVE  DOMAIN HeadersSet(Table[matched]) \subseteq IdentityHeaders
<1>1. loaded \in BOOLEAN
  BY DEF Settled, PipelineTypeOK
<1>2. matched \in DOMAIN Table /\ Table[matched].service \in DOMAIN MaxBodyOf
  BY <1>1, MatchedServed DEF Routed
<1>3. /\ DOMAIN Table[matched].headers \subseteq IdentityHeaders
      /\ DOMAIN HeadersOf[Table[matched].service] \subseteq IdentityHeaders
  BY <1>2, RoutesAssumption
<1> QED BY <1>3 DEF HeadersSet, Over

\* What an instance is told of the user u.
Told(u, h) ==
  \/ h \in request.connection /\ received.headers[h] = Blank
  \/ /\ h \notin request.connection
     /\ \/ received.headers[h] = CreateAuthHeaders(u)[h]
        \/ /\ h = "role" /\ h \in DOMAIN HeadersSet(Table[matched])
           /\ received.headers[h] = HeadersSet(Table[matched])[h]

LEMMA CustomizedIdentity ==
  ASSUME NEW r, DOMAIN HeadersSet(r) \subseteq IdentityHeaders, NEW u, u.id # Blank,
         NEW c, c.id = u.id, c.company = u.company
  PROVE  LET to == Customized(r, CreateAuthHeaders(u), c)
         IN /\ DOMAIN to = IdentityHeaders
            /\ to["id"] = u.id /\ to["company"] = u.company
            /\ \/ to["role"] = u.role
               \/ "role" \in DOMAIN HeadersSet(r) /\ to["role"] = HeadersSet(r)["role"]
<1> DEFINE own == CreateAuthHeaders(u)
           set == Over(HeadersSet(r), own)
           to == [set EXCEPT !.id = c.id, !.company = c.company]
<1>1. DOMAIN own = IdentityHeaders /\ own["role"] = u.role
  BY DEF CreateAuthHeaders, IdentityHeaders
<1> HIDE DEF own
<1>2. set = [h \in IdentityHeaders |-> IF h \in DOMAIN HeadersSet(r) THEN HeadersSet(r)[h] ELSE own[h]]
  <2>1. DOMAIN HeadersSet(r) \cup DOMAIN own = IdentityHeaders
    BY <1>1
  <2> QED BY <2>1 DEF Over
<1> HIDE DEF set
<1>3. /\ DOMAIN to = IdentityHeaders /\ to["id"] = c.id /\ to["company"] = c.company
      /\ to["role"] = set["role"]
  BY <1>2 DEF IdentityHeaders
<1>4. Customized(r, own, c) = to
  BY DEF Customized, set
<1> HIDE DEF to
<1>5. "role" \in IdentityHeaders
  BY DEF IdentityHeaders
<1>6. /\ DOMAIN to = IdentityHeaders
      /\ to["id"] = u.id /\ to["company"] = u.company
      /\ \/ to["role"] = u.role
         \/ "role" \in DOMAIN HeadersSet(r) /\ to["role"] = HeadersSet(r)["role"]
  BY <1>1, <1>2, <1>3, <1>5
<1> QED BY <1>4, <1>6 DEF own

LEMMA ForwardCarries ==
  ASSUME Settled, Arrived, Counted, Looked, Routed, Forward, Authenticates(endpoint),
         NEW h \in IdentityHeaders
  PROVE  Told(request.token.user, h)'
<1>1. Identified /\ Carried
  BY SentLooked DEF Forward
<1> DEFINE u == request.token.user
           r == Table[matched]
           to == Customized(r, headers, context)
<1>2. u.id # Blank /\ headers = CreateAuthHeaders(u) /\ context.id = u.id /\ context.company = u.company
  BY <1>1, TokensAssumption DEF Identified, Current, Carried
<1>3. DOMAIN HeadersSet(r) \subseteq IdentityHeaders
  BY SentInTable DEF Forward
<1>4. /\ received'.headers = RemoveHopByHop(to, request.connection)
      /\ request' = request /\ matched' = matched
  BY DEF Forward, given
<1> HIDE DEF u, r
<1>5. /\ DOMAIN to = IdentityHeaders
      /\ to["id"] = u.id /\ to["company"] = u.company
      /\ \/ to["role"] = u.role
         \/ "role" \in DOMAIN HeadersSet(r) /\ to["role"] = HeadersSet(r)["role"]
  BY <1>2, <1>3, CustomizedIdentity
<1> HIDE DEF to
<1>6. received'.headers[h] = IF h \in request.connection THEN Blank ELSE to[h]
  BY <1>4, <1>5 DEF RemoveHopByHop
<1>7. \/ to[h] = CreateAuthHeaders(u)[h]
      \/ h = "role" /\ h \in DOMAIN HeadersSet(r) /\ to[h] = HeadersSet(r)[h]
  BY <1>5 DEF CreateAuthHeaders, IdentityHeaders
<1> QED BY <1>4, <1>6, <1>7 DEF Told, u, r

LEMMA ForwardedStep ==
  ASSUME Settled, Arrived, Counted, Looked, Routed, IdentityForwarded, [Next]_vars
  PROVE  IdentityForwarded'
<1> SUFFICES ASSUME received' # Nothing, Authenticates(endpoint'), NEW h \in IdentityHeaders
             PROVE  Told(request.token.user, h)'
  BY DEF IdentityForwarded, Told
<1>1. CASE Forward
  <2>1. endpoint' = endpoint
    BY <1>1 DEF Forward, given
  <2> QED BY <1>1, <2>1, ForwardCarries
<1>2. CASE /\ received' = received /\ matched' = matched /\ request' = request
           /\ endpoint' = endpoint
  BY <1>2 DEF IdentityForwarded, Told
<1> QED BY <1>1, <1>2, ReceivedStep

\* Behind an endpoint that asks for a token an instance learns whose it is, or
\* what services.yaml says instead, and never what the request said itself.
THEOREM Identity == Spec => []IdentityForwarded
<1>1. Init => IdentityForwarded
  BY DEF Init, IdentityForwarded
<1> QED BY <1>1, Guarding, ForwardedStep, PTL DEF Spec

----------------------------------------------------------------------------
(* The filters.                                                            *)

\* The body of the request behind the first filter and behind the second.
BehindXSS == IF request.method \in WithBody THEN AfterXSS(request.body) ELSE request.body
BehindSQL == IF request.method \in WithBody THEN AfterSQL(BehindXSS) ELSE BehindXSS

Filtered ==
  Turn =>
    /\ index <= 2 => body = request.body
    /\ index = 3 => body = BehindXSS
    /\ index > 3 => body = BehindSQL
    /\ index > 2 => ~XSSRefuses(request.method, request.query, request.body)
    /\ index > 3 => ~SQLRefuses(request.method, request.query, BehindXSS)

LEMMA FilteredStep ==
  ASSUME Settled, Arrived, Counted, Filtered, [Next]_vars
  PROVE  Filtered'
<1> SUFFICES ASSUME Turn' PROVE Filtered'
  BY DEF Filtered
<1>1. CASE Arrive /\ index' = 1
  <2>1. body' = request'.body
    BY <1>1 DEF Arrive
  <2> QED BY <1>1, <2>1 DEF Filtered
<1>2. ASSUME Ongoing
      PROVE  /\ BehindXSS' = BehindXSS /\ BehindSQL' = BehindSQL
             /\ request' = request
  BY <1>2 DEF Ongoing, BehindXSS, BehindSQL
<1>3. CASE Turn /\ Ongoing /\ index' = index /\ body' = body
  BY <1>2, <1>3 DEF Filtered
<1>4. CASE /\ Middleware \/ Identification
           /\ Ongoing /\ Serviced /\ Turn /\ index \in 1 .. Len(handlers) /\ Pass
  <2>1. /\ handlers[1] = "cors" /\ handlers[2] = "xss" /\ handlers[3] = "sql"
        /\ \A i \in 1 .. Len(handlers) : i > 3 => handlers[i] \notin {"cors", "xss", "sql"}
        /\ index \in Nat /\ index > 0 /\ index' = index + 1
    BY <1>4 DEF Arrived, Shape, Pass
  <2>2. config["xss"] = 1 /\ config["sql"] = 1
    BY <1>4, LoadedUsable DEF Settled, Serviced
  <2>3. ~\E status : Abort(status)
    <3>1. Len(handlers) \in Nat /\ handlers' = handlers
      BY <1>4 DEF Ongoing, Arrived, Shape
    <3> QED BY <3>1 DEF Abort, Turn
  <2>4. CASE Cors
    <3>1. index = 1 /\ body' = body
      BY <1>4, <2>1, <2>4 DEF Cors, At, work
    <3> QED BY <1>2, <1>4, <2>1, <3>1 DEF Filtered
  <2>5. CASE XSSProtection
    <3>1. index = 2
      BY <1>4, <2>1, <2>5 DEF XSSProtection, At
    <3>2. body = request.body
      BY <1>4, <3>1 DEF Filtered
    <3>3. /\ ~XSSRefuses(request.method, request.query, request.body)
          /\ body' = BehindXSS
      BY <2>2, <2>3, <2>5, <3>2 DEF XSSProtection, BehindXSS
    <3> QED BY <1>2, <1>4, <2>1, <3>1, <3>3 DEF Filtered
  <2>6. CASE SQLInjectionProtection
    <3>1. index = 3
      BY <1>4, <2>1, <2>6 DEF SQLInjectionProtection, At
    <3>2. body = BehindXSS /\ ~XSSRefuses(request.method, request.query, request.body)
      BY <1>4, <3>1 DEF Filtered
    <3>3. /\ ~SQLRefuses(request.method, request.query, BehindXSS)
          /\ body' = BehindSQL
      BY <2>2, <2>3, <2>6, <3>2 DEF SQLInjectionProtection, BehindSQL
    <3> QED BY <1>2, <1>4, <2>1, <3>1, <3>2, <3>3 DEF Filtered
  <2>7. CASE RateLimit \/ Identification
    <3>1. body' = body /\ handlers[index] \notin {"cors", "xss", "sql"}
      <4>1. body' = body
        BY <2>7 DEF RateLimit, Identification, Authenticate, RequireRoles, OptionalAuth,
                    Validating, work
      <4>2. At("limit") \/ At("authenticate") \/ At("roles") \/ At("optional")
        BY <2>7 DEF RateLimit, Identification, Authenticate, RequireRoles, OptionalAuth,
                    Validating
      <4> QED BY <4>1, <4>2 DEF At
    <3>2. index > 3
      BY <2>1, <3>1
    <3> QED BY <1>2, <1>4, <2>1, <3>1, <3>2 DEF Filtered
  <2> QED BY <1>4, <2>4, <2>5, <2>6, <2>7 DEF Middleware
<1>5. CASE UNCHANGED vars
  BY <1>5 DEF vars, process, given, work, Turn, Filtered, BehindXSS, BehindSQL
<1> QED BY <1>1, <1>3, <1>4, <1>5, TurnStep

\* What neither filter refuses has nothing that either of them looks for.
LEMMA NotFlagged ==
  ASSUME request.body \in Bodies, request.body.unread, ~request.body.parsed,
         request.query \in Texts,
         ~XSSRefuses(request.method, request.query, request.body),
         ~SQLRefuses(request.method, request.query, BehindXSS)
  PROVE  ~Flagged(request)
<1> DEFINE b == request.body
<1>1. b.text \in Texts /\ b.values \in Texts
  BY DEF Bodies
<1>2. \A text \in Texts : ~IsXSSAttack(text) /\ ~IsSQLInjection(text) => text = {}
  BY DEF Texts, IsXSSAttack, IsSQLInjection
<1>3. CASE request.method = "GET"
  <2>1. request.query = {}
    BY <1>2, <1>3 DEF XSSRefuses, SQLRefuses
  <2> QED BY <1>3, <2>1 DEF Flagged, WithBody
<1>4. CASE request.method \in WithBody
  <2>1. request.method # "GET" /\ BehindXSS = AfterXSS(b)
    BY <1>4 DEF WithBody, BehindXSS
  <2>2. ~XSSInBody(b) /\ ~SQLInBody(AfterXSS(b))
    BY <1>4, <2>1 DEF XSSRefuses, SQLRefuses
  <2> HIDE DEF b
  <2>3. CASE b.type = "json"
    <3>1. AfterXSS(b) = b
      BY <2>3 DEF AfterXSS
    <3>2. Remaining(b) = b.text
      BY DEF Remaining, b
    <3>3. ~IsXSSAttack(b.text) /\ ~IsSQLInjection(b.text)
      BY <2>2, <2>3, <3>1, <3>2 DEF XSSInBody, SQLInBody
    <3> QED BY <1>1, <1>2, <2>1, <2>3, <3>3 DEF Flagged, b
  <2>4. CASE b.type \in {"form", "multipart"}
    <3>1. AfterXSS(b) = Parsed(b)
      BY <2>4 DEF AfterXSS
    <3>2. Parsed(b).type = b.type /\ Parsed(b).values = b.values
      BY DEF Parsed, Bodies, b
    <3>3. ~IsXSSAttack(b.values) /\ ~IsSQLInjection(b.values)
      BY <2>2, <2>4, <3>1, <3>2 DEF XSSInBody, SQLInBody
    <3> QED BY <1>1, <1>2, <2>1, <2>4, <3>3 DEF Flagged, b
  <2>5. CASE b.type \notin {"json", "form", "multipart"}
    BY <2>1, <2>5 DEF Flagged, b
  <2> QED BY <2>3, <2>4, <2>5
<1>5. CASE request.method # "GET" /\ request.method \notin WithBody
  BY <1>5 DEF Flagged
<1> QED BY <1>3, <1>4, <1>5

LEMMA RequestGiven ==
  ASSUME Arrived, Serviced
  PROVE  /\ request.body \in Bodies /\ request.body.unread /\ ~request.body.parsed
         /\ request.query \in Texts
  BY PipelineAssumption DEF Arrived

LEMMA LastScreened ==
  ASSUME Settled, Arrived, Counted, Filtered, Turn, handlers[index] \in Final
  PROVE  ~Flagged(request)
<1>1. Serviced /\ Shape(handlers, endpoint) /\ index \in 1 .. Len(handlers)
  BY DEF Arrived, Counted, Turn, Serviced
<1>2. index > 3 /\ index > 2
  <2>1. handlers[1] \notin Final /\ handlers[2] \notin Final /\ handlers[3] \notin Final
    BY <1>1 DEF Shape, Final
  <2> QED BY <1>1, <2>1
<1>3. /\ ~XSSRefuses(request.method, request.query, request.body)
      /\ ~SQLRefuses(request.method, request.query, BehindXSS)
  BY <1>2 DEF Filtered
<1> QED BY <1>1, <1>3, RequestGiven, NotFlagged

THEOREM Filtering == Spec => [](Settled /\ Arrived /\ Counted /\ Routed /\ Filtered)
<1>1. Init => Filtered
  BY DEF Init, Filtered, Turn
<1> QED BY <1>1, Guarding, FilteredStep, PTL DEF Spec

\* Nothing a filter objects to gets past both of them.
THEOREM Screening == Spec => []Screened
<1>1. Settled /\ Arrived /\ Counted /\ Routed /\ Filtered => Screened
  <2> SUFFICES ASSUME Settled, Arrived, Counted, Routed, Filtered
               PROVE  Screened
    OBVIOUS
  <2>1. ASSUME phase = "sending" PROVE ~Flagged(request)
    <3>1. Turn /\ handlers[index] = "proxy"
      BY <2>1 DEF Turn, Counted, Routed, Arrived, Serviced, Shape
    <3> QED BY <3>1, LastScreened DEF Final
  <2>2. ASSUME NEW h \in DOMAIN Answers \ {"missing"}, At(h) PROVE ~Flagged(request)
    <3>1. Turn /\ handlers[index] = h
      BY <2>2 DEF At, Turn, Arrived, Serviced, Shape
    <3>2. h \in Final
      BY DEF Answers, Final
    <3> QED BY <3>1, <3>2, LastScreened
  <2> QED BY <2>1, <2>2 DEF Screened
<1> QED BY <1>1, Filtering, PTL

----------------------------------------------------------------------------
(* The body an instance gets.                                              *)

\* Which bytes there are behind the filters.
LEMMA BehindFilters ==
  ASSUME request.body \in Bodies, request.body.unread
  PROVE  /\ BehindSQL.size = request.body.size /\ BehindSQL.chunked = request.body.chunked
         /\ BehindSQL.unread \/ request.body.type \in {"form", "multipart"}
         /\ BehindSQL.unread \in BOOLEAN
<1> DEFINE b == request.body
           fields == {"type", "size", "chunked", "text", "values", "readable", "unread", "parsed"}
           Same(c) == /\ DOMAIN c = fields /\ c.type = b.type /\ c.size = b.size
                      /\ c.chunked = b.chunked /\ c.unread \in BOOLEAN
<1>1. Same(b)
  BY DEF Bodies
<1>2. \A c : Same(c) => Same(Parsed(c))
  BY DEF Parsed
<1> HIDE DEF Same
<1>3. b.type \notin {"form", "multipart"} => BehindSQL = b
  BY DEF BehindSQL, BehindXSS, AfterXSS, AfterSQL
<1>4. BehindXSS = b \/ BehindXSS = Parsed(b)
  BY DEF BehindXSS, AfterXSS
<1>5. BehindSQL = BehindXSS \/ BehindSQL = Parsed(BehindXSS)
  BY DEF BehindSQL, AfterSQL
<1>6. Same(BehindSQL)
  BY <1>1, <1>2, <1>4, <1>5
<1> QED BY <1>3, <1>6 DEF Same

LEMMA DeliveriesWhole ==
  ASSUME NEW r, r.maxBodySize \in Nat, MaxBodyOf[r.service] \in Nat,
         NEW b, b.size \in Nat, b.chunked \in BOOLEAN, b.unread \in BOOLEAN,
         NEW got \in Deliveries(r, b)
  PROVE  /\ got \in 0 .. b.size
         /\ \/ got = b.size
            \/ b.unread /\ 0 < Allowed(r) /\ Allowed(r) < b.size
            \/ ~b.unread /\ b.chunked
<1> DEFINE n == Available(b)
           length == Announced(r, b)
<1>1. n \in {0, b.size} /\ (b.unread => n = b.size) /\ (~b.unread => n = 0)
  BY DEF Available
<1>2. \/ length > 0 /\ length = Allowed(r) /\ length \in Nat
      \/ length = Unknown /\ b.chunked
      \/ length = b.size /\ ~b.chunked
  <2>1. CASE r.maxBodySize > 0
    <3>1. length = r.maxBodySize /\ Allowed(r) = r.maxBodySize
      BY <2>1 DEF Announced, Allowed
    <3> QED BY <2>1, <3>1
  <2>2. CASE r.maxBodySize = 0 /\ MaxBodyOf[r.service] > 0
    <3>1. length = MaxBodyOf[r.service] /\ Allowed(r) = MaxBodyOf[r.service]
      BY <2>2 DEF Announced, Allowed
    <3> QED BY <2>2, <3>1
  <2>3. CASE ~(r.maxBodySize > 0) /\ ~(MaxBodyOf[r.service] > 0)
    <3>1. length = AnnouncedAsIs(r, b)
      BY <2>3 DEF Announced
    <3> QED BY <3>1 DEF AnnouncedAsIs
  <2> QED BY <2>1, <2>2, <2>3
<1>3. CASE NoBody(b)
  <2>1. b.size = 0 /\ got = 0
    BY <1>3 DEF Deliveries, NoBody
  <2> QED BY <2>1
<1>4. CASE ~NoBody(b) /\ length \in {Unknown, n}
  <2>1. got = n
    BY <1>4 DEF Deliveries
  <2>2. b.unread \/ b.chunked
    <3>1. CASE length = Unknown
      BY <1>2, <3>1 DEF Unknown
    <3>2. CASE length = n /\ ~b.unread
      BY <1>1, <1>2, <1>4, <3>2 DEF NoBody, Unknown
    <3> QED BY <1>4, <3>1, <3>2
  <2> QED BY <1>1, <2>1, <2>2
<1>5. CASE ~NoBody(b) /\ length \notin {Unknown, n}
  <2>1. n # 0 /\ got = IF n < length THEN n ELSE length
    BY <1>5 DEF Deliveries
  <2>2. n = b.size /\ b.unread
    BY <1>1, <2>1
  <2>3. length > 0 /\ length = Allowed(r) /\ length \in Nat
    BY <1>2, <1>5, <2>2
  <2> HIDE DEF n, length
  <2>4. CASE n < length
    BY <2>1, <2>2, <2>4
  <2>5. CASE ~(n < length)
    BY <1>5, <2>1, <2>2, <2>3, <2>5
  <2> QED BY <2>4, <2>5
<1> QED BY <1>3, <1>4, <1>5

LEMMA ForwardWhole ==
  ASSUME Settled, Arrived, Counted, Routed, Filtered, Forward
  PROVE  /\ matched \in DOMAIN Table
         /\ received'.got \in 0 .. request.body.size
         /\ \/ received'.got = request.body.size
            \/ 0 < Allowed(Table[matched]) /\ Allowed(Table[matched]) < request.body.size
            \/ request.body.type \in {"form", "multipart"} /\ request.body.chunked
<1>1. Serviced /\ Turn /\ index > 3 /\ phase = "sending"
  BY DEF Forward, Serviced, Turn, Counted, Arrived, Shape
<1>2. body = BehindSQL
  BY <1>1 DEF Filtered
<1>3. request.body \in Bodies /\ request.body.unread
  BY <1>1, RequestGiven
<1>4. matched \in DOMAIN Table /\ Table[matched].service \in DOMAIN MaxBodyOf
  BY <1>1, MatchedServed DEF Routed, Settled
<1>5. Table[matched].maxBodySize \in Nat /\ MaxBodyOf[Table[matched].service] \in Nat
  BY <1>4, RoutesAssumption
<1>6. received'.got \in Deliveries(Table[matched], body)
  BY DEF Forward
<1>7. /\ body.size = request.body.size /\ body.chunked = request.body.chunked
      /\ body.unread \/ request.body.type \in {"form", "multipart"}
      /\ body.unread \in BOOLEAN
  BY <1>2, <1>3, BehindFilters
<1>8. request.body.size \in Nat /\ request.body.chunked \in BOOLEAN
  BY <1>3 DEF Bodies
<1>9. /\ received'.got \in 0 .. body.size
      /\ \/ received'.got = body.size
         \/ body.unread /\ 0 < Allowed(Table[matched]) /\ Allowed(Table[matched]) < body.size
         \/ ~body.unread /\ body.chunked
  BY <1>5, <1>6, <1>7, <1>8, DeliveriesWhole
<1> QED BY <1>4, <1>7, <1>9

\* The type invariant's conjuncts that are more than a set of names.
Measured == received # Nothing => received.got \in 0 .. request.body.size

LEMMA DeliveredStep ==
  ASSUME Settled, Arrived, Counted, Routed, Filtered, Measured, DeliveredWhole, [Next]_vars
  PROVE  (Measured /\ DeliveredWhole)'
<1> SUFFICES ASSUME received' # Nothing
             PROVE  (Measured /\ DeliveredWhole)'
  BY DEF Measured, DeliveredWhole
<1>1. CASE Forward
  <2>1. matched' = matched /\ request' = request
    BY <1>1 DEF Forward, given
  <2> QED BY <1>1, <2>1, ForwardWhole DEF Measured, DeliveredWhole
<1>2. CASE received' = received /\ matched' = matched /\ request' = request
  BY <1>2 DEF Measured, DeliveredWhole
<1> QED BY <1>1, <1>2, ReceivedStep

\* An instance that answers has got the whole body, with the exceptions the
\* property names.
THEOREM Delivery == Spec => [](Measured /\ DeliveredWhole)
<1>1. Init => Measured /\ DeliveredWhole
  BY DEF Init, Measured, DeliveredWhole
<1> QED BY <1>1, Filtering, DeliveredStep, PTL DEF Spec

----------------------------------------------------------------------------
(* The health checks.                                                      *)

CheckRecords == [name : STRING, critical : BOOLEAN]

LEMMA ChecksListed ==
  /\ Checks \in Seq(CheckRecords)
  /\ Len(Checks) \in Nat
  /\ DOMAIN Checks = 1 .. Len(Checks)
  /\ \A k \in 1 .. Len(Checks) : Checks[k] \in CheckRecords
<1>1. Checks \in Seq(CheckRecords)
  BY PipelineAssumption DEF CheckRecords
<1> QED BY ONLY <1>1

\* The first n checks have run; those of them h calls unhealthy.
Failed(h, n) == {k \in 1 .. n : h.results[Checks[k].name] = "unhealthy"}

\* h says of the first n checks what it should, and has the others left.
SoFar(h, n) ==
  /\ h.left \in Seq(CheckRecords)
  /\ Len(h.left) = Len(Checks) - n
  /\ \A k \in 1 .. Len(h.left) : h.left[k] = Checks[n + k]
  /\ DOMAIN h.results = {Checks[k].name : k \in 1 .. n}
  /\ h.overall = "degraded" <=> \E k \in Failed(h, n) : ~Checks[k].critical
  /\ h.critical \in BOOLEAN
  /\ h.critical <=> \E k \in Failed(h, n) : Checks[k].critical

\* The checks run in their order, and only the last answer of a request whose
\* checks are through speaks of them.
Checking ==
  /\ health # Nothing =>
       phase \in {"checking", "answered"} \/ (phase = "busy" /\ index > Len(handlers))
  /\ phase = "checking" => \E n \in 0 .. Len(Checks) : SoFar(health, n)
  /\ HealthExplained

LEMMA StartSoFar ==
  SoFar([left |-> Checks, results |-> <<>>, overall |-> "healthy", critical |-> FALSE], 0)
<1> DEFINE h == [left |-> Checks, results |-> <<>>, overall |-> "healthy", critical |-> FALSE]
<1>1. Failed(h, 0) = {} /\ {Checks[k].name : k \in 1 .. 0} = {}
  BY DEF Failed
<1>2. DOMAIN h.results = {}
  OBVIOUS
<1>3. /\ h.left \in Seq(CheckRecords)
      /\ Len(h.left) = Len(Checks) - 0
      /\ \A k \in 1 .. Len(h.left) : h.left[k] = Checks[0 + k]
  BY ChecksListed
<1>4. h.overall # "degraded" /\ h.critical = FALSE
  OBVIOUS
<1> HIDE DEF h
<1>5. SoFar(h, 0)
  BY <1>1, <1>2, <1>3, <1>4 DEF SoFar
<1> QED BY <1>5 DEF h

\* No two checks have one name: a result is that of its check.
LEMMA AfterSoFar ==
  ASSUME NEW h, NEW n \in 0 .. Len(Checks), SoFar(h, n), h.left # <<>>,
         NEW status \in {"healthy", "unhealthy"}
  PROVE  n + 1 \in 0 .. Len(Checks) /\ SoFar(After(h, Head(h.left), status), n + 1)
<1> DEFINE g == After(h, Head(h.left), status)
           c == Checks[n + 1]
           left == h.left
<1>1. /\ left \in Seq(CheckRecords) /\ left # <<>> /\ Len(left) = Len(Checks) - n
      /\ \A k \in 1 .. Len(left) : left[k] = Checks[n + k]
  BY DEF SoFar
<1>2. n + 1 \in 1 .. Len(Checks) /\ Head(h.left) = c
  <2> HIDE DEF left
  <2>1. Len(left) \in Nat /\ Len(left) > 0 /\ Head(left) = left[1]
    BY <1>1
  <2>2. n + 1 \in 1 .. Len(Checks) /\ 1 \in 1 .. Len(left)
    BY <1>1, <2>1, ChecksListed
  <2>3. Head(left) = c
    BY <1>1, <2>1, <2>2
  <2> QED BY <2>2, <2>3 DEF left
<1>3. /\ g.left \in Seq(CheckRecords)
      /\ Len(g.left) = Len(Checks) - (n + 1)
      /\ \A k \in 1 .. Len(g.left) : g.left[k] = Checks[n + 1 + k]
  <2>1. g.left = Tail(left)
    BY DEF After
  <2> HIDE DEF left, g
  <2>2. /\ Tail(left) \in Seq(CheckRecords) /\ Len(Tail(left)) = Len(left) - 1
        /\ \A k \in 1 .. Len(left) - 1 : Tail(left)[k] = left[k + 1]
    BY <1>1
  <2>3. Len(Tail(left)) = Len(Checks) - (n + 1)
    BY <1>1, <2>2, ChecksListed
  <2>4. ASSUME NEW k \in 1 .. Len(left) - 1 PROVE Tail(left)[k] = Checks[n + 1 + k]
    <3>1. k + 1 \in 1 .. Len(left) /\ n + (k + 1) = n + 1 + k
      BY <1>1, ChecksListed
    <3> QED BY <1>1, <2>2, <3>1
  <2> QED BY <2>1, <2>2, <2>3, <2>4
<1>4. g.results = [m \in DOMAIN h.results \cup {c.name} |->
                     IF m = c.name THEN status ELSE h.results[m]]
  BY <1>2 DEF After
<1>5. \A k \in 1 .. n + 1 : k \in 1 .. n \/ k = n + 1
  OBVIOUS
<1>6. DOMAIN g.results = {Checks[k].name : k \in 1 .. n + 1}
  <2>1. DOMAIN g.results = {Checks[k].name : k \in 1 .. n} \cup {c.name}
    BY <1>4 DEF SoFar
  <2> HIDE DEF g
  <2> QED BY <1>5, <2>1
<1>7. g.results[c.name] = status
  BY <1>4
<1>8. \A k \in 1 .. n : g.results[Checks[k].name] = h.results[Checks[k].name]
  <2> SUFFICES ASSUME NEW k \in 1 .. n
               PROVE  g.results[Checks[k].name] = h.results[Checks[k].name]
    OBVIOUS
  <2>1. Checks[k].name # c.name
    BY <1>2, ChecksListed, PipelineAssumption
  <2>2. Checks[k].name \in DOMAIN h.results
    BY DEF SoFar
  <2> HIDE DEF g, c
  <2> QED BY <1>4, <2>1, <2>2
<1>9. Failed(g, n + 1) = Failed(h, n) \cup (IF status = "unhealthy" THEN {n + 1} ELSE {})
  <2> HIDE DEF g
  <2> QED BY <1>5, <1>7, <1>8 DEF Failed
<1>10. /\ g.overall = IF status = "unhealthy" /\ ~c.critical THEN "degraded" ELSE h.overall
       /\ g.critical = (h.critical \/ (status = "unhealthy" /\ c.critical))
  BY <1>2 DEF After
<1>11. g.overall = "degraded" <=> \E k \in Failed(g, n + 1) : ~Checks[k].critical
  <2> HIDE DEF g
  <2>1. h.overall = "degraded" <=> \E k \in Failed(h, n) : ~Checks[k].critical
    BY DEF SoFar
  <2> QED BY <1>9, <1>10, <2>1
<1>12. g.critical \in BOOLEAN
  <2> HIDE DEF g
  <2> QED BY <1>10
<1>13. g.critical <=> \E k \in Failed(g, n + 1) : Checks[k].critical
  <2> HIDE DEF g
  <2>1. h.critical <=> \E k \in Failed(h, n) : Checks[k].critical
    BY DEF SoFar
  <2> QED BY <1>9, <1>10, <2>1
<1>14. SoFar(g, n + 1)
  <2> HIDE DEF g, c
  <2> QED BY <1>3, <1>6, <1>11, <1>12, <1>13 DEF SoFar
<1> QED BY <1>2, <1>14

\* A step of a request that has not come to its health checks.
LEMMA Unchecked ==
  ASSUME Checking, health' = health, phase' # "checking",
         phase \notin {"checking", "answered"}, ~(phase = "busy" /\ index > Len(handlers))
  PROVE  Checking'
<1>1. health = Nothing
  BY DEF Checking
<1> QED BY <1>1 DEF Checking, HealthExplained

LEMMA CheckingReported ==
  ASSUME Checking, Counted, ReportHealth
  PROVE  Checking'
<1>1. phase = "checking" /\ health.left = <<>>
  BY DEF ReportHealth
<1>2. PICK n \in 0 .. Len(Checks) : SoFar(health, n)
  BY <1>1 DEF Checking
<1>3. n = Len(Checks)
  <2>1. Len(health.left) = 0 /\ Len(health.left) = Len(Checks) - n
    BY <1>1, <1>2 DEF SoFar
  <2>2. 0 = Len(Checks) - n
    BY <2>1
  <2>3. Len(Checks) \in Nat
    BY ChecksListed
  <2>4. n \in Nat
    BY <2>3
  <2> QED BY <2>2, <2>3, <2>4
<1>4. Failed(health, n) = {k \in DOMAIN Checks : health.results[Checks[k].name] = "unhealthy"}
  BY <1>3, ChecksListed DEF Failed
<1>5. /\ phase' = "busy" /\ health' = health /\ handlers' = handlers
      /\ index' > Len(handlers)
      /\ reply' = IF health.critical THEN "503" ELSE "200"
  BY <1>1 DEF ReportHealth, work, given, Counted
<1>6. reply' = "503" <=> \E k \in Failed(health, n) : Checks[k].critical
  BY <1>2, <1>5 DEF SoFar
<1>7. health.overall = "degraded" <=> \E k \in Failed(health, n) : ~Checks[k].critical
  BY <1>2 DEF SoFar
<1>8. HealthExplained'
  BY <1>4, <1>5, <1>6, <1>7 DEF HealthExplained
<1> QED BY <1>5, <1>8 DEF Checking

LEMMA CheckingStep ==
  ASSUME Settled, Arrived, Counted, Checking, [Next]_vars
  PROVE  Checking'
<1>1. Serviced => DOMAIN handlers = 1 .. Len(handlers) /\ Len(handlers) \in Nat
  BY DEF Arrived, Shape
<1>2. CASE Load \/ Login \/ Renew \/ Tick \/ Arrive
  BY <1>2, Unchecked DEF Load, Login, Renew, Issue, Tick, Arrive, work
<1>3. CASE Middleware \/ Identification \/ LegacyProxy \/ Proxy \/ Serve
  <2>1. health' = health /\ phase' # "checking"
    BY <1>3 DEF Middleware, Cors, XSSProtection, SQLInjectionProtection, RateLimit,
                Identification, Authenticate, RequireRoles, OptionalAuth, Validating,
                LegacyProxy, Proxy, Serve, At, Pass, Abort, Panic, work
  <2>2. phase = "busy" /\ index \in DOMAIN handlers
    BY <1>3, MiddlewarePassing, HandlingConcluding DEF Passing, Concluding
  <2>3. ~(index > Len(handlers))
    BY <1>1, <2>2 DEF Serviced
  <2> QED BY <2>1, <2>2, <2>3, Unchecked
<1>4. CASE Forward \/ BadGateway \/ Recover
  BY <1>4, Unchecked DEF Forward, BadGateway, Recover, work
<1>5. CASE StartChecks
  <2>1. /\ phase' = "checking"
        /\ health' = [left |-> Checks, results |-> <<>>, overall |-> "healthy", critical |-> FALSE]
    BY <1>5 DEF StartChecks
  <2>2. SoFar(health', 0) /\ 0 \in 0 .. Len(Checks)
    BY <2>1, StartSoFar, ChecksListed
  <2> QED BY <2>1, <2>2 DEF Checking, HealthExplained, SoFar, Failed
<1>6. CASE RunCheck
  <2>1. PICK status \in {"healthy", "unhealthy"} : health' = After(health, Head(health.left), status)
    BY <1>6 DEF RunCheck
  <2>2. phase = "checking" /\ phase' = "checking" /\ health.left # <<>>
    BY <1>6 DEF RunCheck
  <2>3. PICK n \in 0 .. Len(Checks) : SoFar(health, n)
    BY <2>2 DEF Checking
  <2>4. n + 1 \in 0 .. Len(Checks) /\ SoFar(health', n + 1)
    BY <2>1, <2>2, <2>3, AfterSoFar
  <2> QED BY <2>2, <2>4 DEF Checking, HealthExplained, SoFar, Failed
<1>7. CASE ReportHealth
  BY <1>7, CheckingReported
<1>8. CASE Log
  BY <1>8 DEF Log, work, Checking, HealthExplained
<1>9. CASE Release
  BY <1>9 DEF Release, Checking, HealthExplained
<1>10. CASE UNCHANGED vars
  BY <1>10 DEF vars, work, given, Checking, HealthExplained, SoFar, Failed
<1> QED
  BY <1>2, <1>3, <1>4, <1>5, <1>6, <1>7, <1>8, <1>9, <1>10 DEF Next, Serving, Handling

\* The report of the health endpoint is that of its checks, however many there
\* are and whichever fail: 503 for a critical one, "degraded" for another.
THEOREM HealthReported == Spec => [](Checking /\ HealthExplained)
<1>1. Init => Checking
  BY DEF Init, Checking, HealthExplained
<1>2. Checking => HealthExplained
  BY DEF Checking
<1> QED BY <1>1, <1>2, Progress, CheckingStep, PTL DEF Spec

----------------------------------------------------------------------------
----------------------------------------------------------------------------
(* The type invariant.                                                     *)

Placed == index \in 1 .. Len(handlers) + 1

LEMMA PlacedStep ==
  ASSUME Settled, Arrived, Counted, Placed, [Next]_vars
  PROVE  Placed'
<1>1. CASE phase' \in {"busy", "sending", "checking", "panicked"}
  BY <1>1, CountedStep DEF Counted, Placed
<1>2. CASE phase' \in {"boot", "dead", "idle"}
  <2>1. ASSUME Ongoing PROVE FALSE
    BY <1>2, <2>1 DEF Ongoing
  <2>2. Load \/ Login \/ Renew \/ Tick \/ Release \/ UNCHANGED vars
    <3>1. ~Arrive
      BY <1>2 DEF Arrive
    <3> QED BY <2>1, <3>1, ServingOngoing DEF Next, Serving
  <2>3. CASE Release
    BY <2>3 DEF Release, Placed
  <2>4. CASE Load \/ Login \/ Renew \/ Tick \/ UNCHANGED vars
    BY <2>4 DEF Load, Login, Renew, Issue, Tick, vars, given, Placed
  <2> QED BY <2>2, <2>3, <2>4
<1>3. CASE phase' = "answered"
  <2>1. Log \/ UNCHANGED vars
    <3>1. ~(Load \/ Login \/ Renew \/ Tick \/ Arrive \/ Release)
      BY <1>3 DEF Load, Login, Renew, Issue, Tick, Arrive, Release
    <3>2. ~(Middleware \/ Identification)
      BY <1>3, MiddlewarePassing DEF Passing, Pass, Abort
    <3>3. ~(LegacyProxy \/ Proxy \/ StartChecks \/ Serve)
      BY <1>3, HandlingConcluding DEF Concluding, Abort, Panic
    <3>4. ~(RunCheck \/ ReportHealth \/ Forward \/ BadGateway \/ Recover)
      BY <1>3 DEF RunCheck, ReportHealth, Forward, BadGateway, Recover
    <3> QED BY <3>1, <3>2, <3>3, <3>4 DEF Next, Serving, Handling
  <2> QED BY <2>1 DEF Log, vars, given, Placed
<1> QED BY <1>1, <1>2, <1>3, SettledStep DEF Settled

LEMMA TypesImplied ==
  ASSUME Settled, Counted, Routed, Measured, Placed, Checking, RecordedAsAnswered
  PROVE  PipelineTypeOK
<1>1. phase \notin {"boot", "dead"} => config \in Configurations
  BY LoadedUsable DEF Settled
<1>2. phase = "sending" => matched \in DOMAIN Table
  BY MatchedServed DEF Settled, Routed
<1>3. Len(records) <= 1
  <2>1. records = <<>> \/ phase = "answered"
    BY DEF Counted, Serviced, Settled
  <2>2. CASE phase = "answered"
    <3>1. records = <<reply>>
      BY <2>2 DEF RecordedAsAnswered
    <3>2. Len(<<reply>>) = 1
      OBVIOUS
    <3> QED BY <3>1, <3>2
  <2> QED BY <2>1, <2>2
<1>4. phase = "checking" => Len(health.left) <= Len(Checks)
  <2> SUFFICES ASSUME phase = "checking" PROVE Len(health.left) <= Len(Checks)
    OBVIOUS
  <2> DEFINE l == Len(health.left)
             m == Len(Checks)
  <2>1. PICK n \in 0 .. m : l = m - n
    BY DEF Checking, SoFar
  <2>2. m \in Nat
    BY ChecksListed
  <2> HIDE DEF l, m
  <2>3. l <= m
    BY <2>1, <2>2
  <2> QED BY <2>3 DEF l, m
<1> QED BY <1>1, <1>2, <1>3, <1>4 DEF PipelineTypeOK, Settled, Measured, Placed

\* Every variable has a value of its type.
THEOREM Types == Spec => []PipelineTypeOK
<1>1. Init => Placed
  BY DEF Init, Placed
<1>2. Spec => []Placed
  BY <1>1, Progress, PlacedStep, PTL DEF Spec
<1> QED BY <1>2, Guarding, Delivery, HealthReported, AnswersRecorded, TypesImplied, PTL
=============================================================================
