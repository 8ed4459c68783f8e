------------------------------ MODULE Monitor ------------------------------
(***************************************************************************)
(* internal/service/monitor/monitor.go: the counters behind                *)
(* /api/v1/system/metrics.  The logging middleware records every request   *)
(* when it is answered, an operator resets the counters at any moment.     *)
(* RecordRequest and ResetMetrics hold the mutex from end to end, and the  *)
(* readers hold it for reading: each is one step.                          *)
(*                                                                         *)
(* Left out: LastUpdated, and the collection loop, which reads the         *)
(* counters and logs them.                                                 *)
(***************************************************************************)
EXTENDS Integers, Sequences, FiniteSets, Functions

CONSTANTS
  Endpoints,   \* paths of requests
  Codes,       \* status codes
  Times,       \* response times
  MaxRequests  \* bound: requests recorded between two resets

ASSUME MonitorAssumption ==
  /\ Codes \subseteq Nat /\ IsFiniteSet(Codes)   \* of three digits
  /\ Times \subseteq Nat
  /\ MaxRequests \in Nat

VARIABLES
  metrics,    \* Metrics without its endpoints
  endpoints,  \* EndpointMetrics: a record for each endpoint that has an entry
  seen        \* history: the response times of each endpoint since the reset

vars == <<metrics, endpoints, seen>>

Empty == [requestCount |-> 0, errorCount |-> 0, responseTime |-> 0,
          statusCodes |-> [c \in Codes |-> 0]]

----------------------------------------------------------------------------

IsError(c) == c >= 400

\* Fault: the new time alone is halved.
NextTimeSum(m, t) == IF m.requestCount = 0 THEN t ELSE m.responseTime + t \div 2

\* Half of what was there and half of the new one, the first one as it is.
NextTime(m, t) == IF m.requestCount = 0 THEN t ELSE (m.responseTime + t) \div 2

\* The same updates for the whole and for an endpoint.
Counted(m, c, t) ==
  [requestCount |-> m.requestCount + 1,
   errorCount |-> m.errorCount + (IF IsError(c) THEN 1 ELSE 0),
   responseTime |-> NextTime(m, t),
   statusCodes |-> [m.statusCodes EXCEPT ![c] = @ + 1]]

\* Fault: the first request of an endpoint makes its entry and is not counted.
EntryUncounted(e, c, t) ==
  IF e \in DOMAIN endpoints THEN [endpoints EXCEPT ![e] = Counted(@, c, t)]
  ELSE [f \in DOMAIN endpoints \cup {e} |-> IF f = e THEN Empty ELSE endpoints[f]]

\* The entry of the endpoint, made when there is none.
Entry(e, c, t) ==
  [f \in DOMAIN endpoints \cup {e} |->
     IF f # e THEN endpoints[f]
     ELSE Counted(IF e \in DOMAIN endpoints THEN endpoints[e] ELSE Empty, c, t)]

RecordRequest(e, c, t) ==
  /\ metrics.requestCount < MaxRequests
  /\ metrics' = Counted(metrics, c, t)
  /\ endpoints' = Entry(e, c, t)
  /\ seen' = [seen EXCEPT ![e] = @ \cup {t}]

\* Fault: the totals alone are reset.
ResetTotals ==
  /\ metrics' = Empty
  /\ UNCHANGED endpoints
  /\ seen' = [e \in Endpoints |-> {}]

ResetMetrics ==
  /\ metrics' = Empty
  /\ endpoints' = [e \in {} |-> Empty]
  /\ seen' = [e \in Endpoints |-> {}]

(***************************************************************************)
(* GetTopEndpoints: the endpoints in the arbitrary order of the map, sorted *)
(* by exchanging any two that are out of order, and cut at the limit.      *)
(***************************************************************************)

\* Fault: the two are compared the other way round.
ExchangeUp(list, i, j) ==
  IF endpoints[list[i]].requestCount > endpoints[list[j]].requestCount
    THEN [list EXCEPT ![i] = list[j], ![j] = list[i]] ELSE list

Exchange(list, i, j) ==
  IF endpoints[list[i]].requestCount < endpoints[list[j]].requestCount
    THEN [list EXCEPT ![i] = list[j], ![j] = list[i]] ELSE list

\* The inner loop: place i against every place behind it.
Pass(list, i) ==
  LET upTo[j \in i..Len(list)] == IF j = i THEN list ELSE Exchange(upTo[j - 1], i, j)
  IN upTo[Len(list)]

\* The outer loop.  The last place has none behind it: its pass does nothing.
Passes(list) ==
  LET upTo[i \in 0..Len(list)] == IF i = 0 THEN list ELSE Pass(upTo[i - 1], i)
  IN upTo[Len(list)]

GetTopEndpoints(list, limit) ==
  LET sorted == Passes(list)
  IN IF Len(sorted) > limit THEN SubSeq(sorted, 1, limit) ELSE sorted

----------------------------------------------------------------------------

Init ==
  /\ metrics = Empty
  /\ endpoints = [e \in {} |-> Empty]
  /\ seen = [e \in Endpoints |-> {}]

Next ==
  \/ \E e \in Endpoints, c \in Codes, t \in Times : RecordRequest(e, c, t)
  \/ ResetMetrics

Spec == Init /\ [][Next]_vars

----------------------------------------------------------------------------

MonitorTypeOK ==
  LET Counters == [requestCount : Nat, errorCount : Nat, responseTime : Nat,
                   statusCodes : [Codes -> Nat]]
  IN /\ metrics \in Counters
     /\ DOMAIN endpoints \subseteq Endpoints
     /\ \A e \in DOMAIN endpoints : endpoints[e] \in Counters /\ endpoints[e].requestCount > 0
     /\ seen \in [Endpoints -> SUBSET Times]

Total(f) == FoldFunction(LAMBDA a, b : a + b, 0, f)

\* The books balance, whatever was recorded and reset: the total is the sum
\* over the endpoints and over the status codes, for every code the total is
\* the sum over the endpoints, and the errors are the codes from 400 on.  The
\* error rate of a report is therefore one of the requests it reports.
BooksBalance ==
  /\ metrics.requestCount = Total([e \in DOMAIN endpoints |-> endpoints[e].requestCount])
  /\ \A c \in Codes :
       metrics.statusCodes[c] = Total([e \in DOMAIN endpoints |-> endpoints[e].statusCodes[c]])
  /\ \A m \in {metrics} \cup {endpoints[e] : e \in DOMAIN endpoints} :
       /\ m.requestCount = Total(m.statusCodes)
       /\ m.errorCount = Total([c \in Codes |-> IF c >= 400 THEN m.statusCodes[c] ELSE 0])

\* The "average" response time halves the distance to each new one.  It is not
\* the mean, but it is never outside what was measured since the reset.
Between(x, S) == (\E t \in S : t <= x) /\ (\E t \in S : x <= t)

AverageMeasured ==
  /\ metrics.requestCount > 0 => Between(metrics.responseTime, UNION {seen[e] : e \in Endpoints})
  /\ \A e \in DOMAIN endpoints : Between(endpoints[e].responseTime, seen[e])

\* Whatever order the map lists the endpoints in, the busiest come first, each
\* once, and none that is left out was busier than one that is listed.
BusiestFirst ==
  \A list \in {s \in [1..Cardinality(DOMAIN endpoints) -> DOMAIN endpoints] : IsInjective(s)} :
    \A limit \in 0..(Cardinality(DOMAIN endpoints) + 1) :
      LET top == GetTopEndpoints(list, limit)
          count(e) == endpoints[e].requestCount
      IN /\ IsInjective(top)
         /\ \A i, j \in DOMAIN top : i < j => count(top[i]) >= count(top[j])
         /\ \A e \in DOMAIN endpoints \ {top[i] : i \in DOMAIN top} :
              \A i \in DOMAIN top : count(top[i]) >= count(e)
         /\ Len(top) < limit => \A e \in DOMAIN endpoints : \E i \in DOMAIN top : top[i] = e
=============================================================================
