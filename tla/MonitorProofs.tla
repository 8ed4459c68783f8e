--------------------------- MODULE MonitorProofs ---------------------------
(***************************************************************************)
(* The counters are well typed, the smoothed response time never leaves    *)
(* the range of what was measured since the reset, the books balance and   *)
(* the busiest endpoints are listed first, for every number of endpoints,  *)
(* codes and requests.                                                     *)
(*                                                                         *)
(* AverageMeasured needs the types: that an entry, once made, has counted  *)
(* a request is what keeps its first time from being averaged with 0.      *)
(* BooksBalance is inductive with the types and the finiteness of the      *)
(* endpoints, once TotalGains says what one value adds to a sum.           *)
(* BusiestFirst is no matter of steps: the two loops of the sort are       *)
(* followed through their places, for any counters of the right types.     *)
(***************************************************************************)
EXTENDS Monitor, FiniteSetTheorems, SequenceTheorems, WellFoundedInduction, TLAPS

Counters == [requestCount : Nat, errorCount : Nat, responseTime : Nat,
             statusCodes : [Codes -> Nat]]

\* One request more leaves counters counters.
LEMMA CountedTypes ==
  ASSUME NEW m \in Counters, NEW c \in Codes, NEW t \in Times
  PROVE  /\ Counted(m, c, t) \in Counters
         /\ Counted(m, c, t).requestCount > 0
         /\ Counted(m, c, t).responseTime = NextTime(m, t)
<1>1. t \in Nat /\ m.responseTime \in Nat /\ m.requestCount \in Nat /\ m.errorCount \in Nat
  BY MonitorAssumption DEF Counters
<1>2. NextTime(m, t) \in Nat
  BY <1>1 DEF NextTime
<1>3. [m.statusCodes EXCEPT ![c] = @ + 1] \in [Codes -> Nat]
  BY DEF Counters
<1>4. m.errorCount + (IF IsError(c) THEN 1 ELSE 0) \in Nat
  BY <1>1
<1> QED BY <1>1, <1>2, <1>3, <1>4 DEF Counted, Counters

LEMMA EmptyTypes == Empty \in Counters /\ Empty.requestCount = 0
BY DEF Empty, Counters

\* The smoothed time moves towards the new one and not past it.
LEMMA Smoothed ==
  ASSUME NEW m \in Counters, NEW t \in Times, NEW S \in SUBSET Times,
         m.requestCount > 0 => Between(m.responseTime, S)
  PROVE  Between(NextTime(m, t), S \cup {t})
<1>1. t \in Nat /\ m.responseTime \in Nat /\ m.requestCount \in Nat /\ S \subseteq Nat
  BY MonitorAssumption DEF Counters
<1>2. CASE m.requestCount = 0
  BY <1>1, <1>2 DEF NextTime, Between
<1>3. CASE m.requestCount > 0
  <2>1. PICK lo \in S : lo <= m.responseTime
    BY <1>3 DEF Between
  <2>2. PICK hi \in S : m.responseTime <= hi
    BY <1>3 DEF Between
  <2>3. NextTime(m, t) = (m.responseTime + t) \div 2
    BY <1>1, <1>3 DEF NextTime
  <2>4. lo \in Nat /\ hi \in Nat
    BY <1>1
  <2>5. /\ lo <= (m.responseTime + t) \div 2 \/ t <= (m.responseTime + t) \div 2
        /\ (m.responseTime + t) \div 2 <= hi \/ (m.responseTime + t) \div 2 <= t
    BY <1>1, <2>1, <2>2, <2>4
  <2> QED BY <2>3, <2>4, <2>5 DEF Between
<1> QED BY <1>1, <1>2, <1>3

Measured == MonitorTypeOK /\ AverageMeasured

LEMMA InitMeasured == Init => Measured
<1> SUFFICES ASSUME Init PROVE Measured
  OBVIOUS
<1>1. MonitorTypeOK
  BY EmptyTypes DEF Init, MonitorTypeOK, Counters
<1>2. AverageMeasured
  BY EmptyTypes DEF Init, AverageMeasured
<1> QED BY <1>1, <1>2 DEF Measured

LEMMA ResetMeasured == ResetMetrics => Measured'
<1> SUFFICES ASSUME ResetMetrics PROVE Measured'
  OBVIOUS
<1>1. MonitorTypeOK'
  BY EmptyTypes DEF ResetMetrics, MonitorTypeOK, Counters
<1>2. AverageMeasured'
  BY EmptyTypes DEF ResetMetrics, AverageMeasured
<1> QED BY <1>1, <1>2 DEF Measured

LEMMA RecordMeasured ==
  ASSUME Measured, NEW e \in Endpoints, NEW c \in Codes, NEW t \in Times, RecordRequest(e, c, t)
  PROVE  Measured'
<1> DEFINE old == IF e \in DOMAIN endpoints THEN endpoints[e] ELSE Empty
           all(s) == UNION {s[f] : f \in Endpoints}
<1>1. /\ metrics \in Counters /\ DOMAIN endpoints \subseteq Endpoints
      /\ \A f \in DOMAIN endpoints : endpoints[f] \in Counters /\ endpoints[f].requestCount > 0
      /\ seen \in [Endpoints -> SUBSET Times]
  BY DEF Measured, MonitorTypeOK, Counters
<1>2. old \in Counters
  BY <1>1, EmptyTypes
<1>3. /\ metrics' = Counted(metrics, c, t)
      /\ seen' = [seen EXCEPT ![e] = @ \cup {t}]
      /\ DOMAIN endpoints' = DOMAIN endpoints \cup {e}
      /\ endpoints'[e] = Counted(old, c, t)
      /\ \A f \in DOMAIN endpoints \ {e} : endpoints'[f] = endpoints[f]
  BY DEF RecordRequest, Entry
<1>4. MonitorTypeOK'
  <2>1. metrics' \in Counters
    BY <1>1, <1>3, CountedTypes
  <2>2. endpoints'[e] \in Counters /\ endpoints'[e].requestCount > 0
    BY <1>2, <1>3, CountedTypes
  <2>3. \A f \in DOMAIN endpoints' : endpoints'[f] \in Counters /\ endpoints'[f].requestCount > 0
    BY <1>1, <1>3, <2>2
  <2>4. seen' \in [Endpoints -> SUBSET Times]
    BY <1>1, <1>3
  <2>5. DOMAIN endpoints' \subseteq Endpoints
    BY <1>1, <1>3
  <2> QED BY <2>1, <2>3, <2>4, <2>5 DEF MonitorTypeOK, Counters
<1>5. Between(metrics'.responseTime, all(seen'))
  <2>1. all(seen) \in SUBSET Times
    BY <1>1
  <2>2. metrics.requestCount > 0 => Between(metrics.responseTime, all(seen))
    BY DEF Measured, AverageMeasured
  <2>3. Between(NextTime(metrics, t), all(seen) \cup {t})
    <3> HIDE DEF all
    <3> QED BY <1>1, <2>1, <2>2, Smoothed
  <2>4. all(seen') = all(seen) \cup {t}
    BY <1>1, <1>3
  <2>5. metrics'.responseTime = NextTime(metrics, t)
    BY <1>1, <1>3, CountedTypes
  <2> QED BY <2>3, <2>4, <2>5
<1>6. ASSUME NEW f \in DOMAIN endpoints' PROVE Between(endpoints'[f].responseTime, seen'[f])
  <2>1. CASE f = e
    <3>1. seen[e] \in SUBSET Times /\ seen'[e] = seen[e] \cup {t}
      BY <1>1, <1>3
    <3>2. old.requestCount > 0 => Between(old.responseTime, seen[e])
      BY EmptyTypes DEF Measured, AverageMeasured
    <3>3. endpoints'[e].responseTime = NextTime(old, t)
      BY <1>2, <1>3, CountedTypes
    <3>4. Between(NextTime(old, t), seen[e] \cup {t})
      <4> HIDE DEF old
      <4> QED BY <1>2, <3>1, <3>2, Smoothed
    <3> QED BY <2>1, <3>1, <3>3, <3>4
  <2>2. CASE f # e
    <3>1. f \in DOMAIN endpoints /\ endpoints'[f] = endpoints[f] /\ seen'[f] = seen[f]
      BY <1>1, <1>3, <2>2
    <3> QED BY <3>1 DEF Measured, AverageMeasured
  <2> QED BY <2>1, <2>2
<1>7. AverageMeasured'
  BY <1>5, <1>6 DEF AverageMeasured
<1> QED BY <1>4, <1>7 DEF Measured

\* Types and the range of the response time, of every state.
THEOREM MeasuredAlways == Spec => []Measured
<1>1. Measured /\ [Next]_vars => Measured'
  <2> SUFFICES ASSUME Measured, [Next]_vars PROVE Measured'
    OBVIOUS
  <2>1. ASSUME NEW e \in Endpoints, NEW c \in Codes, NEW t \in Times, RecordRequest(e, c, t)
        PROVE  Measured'
    BY <2>1, RecordMeasured
  <2>2. CASE ResetMetrics
    BY <2>2, ResetMeasured
  <2>3. CASE UNCHANGED vars
    BY <2>3 DEF vars, Measured, MonitorTypeOK, AverageMeasured, Between
  <2> QED BY <2>1, <2>2, <2>3 DEF Next
<1> QED BY <1>1, InitMeasured, PTL DEF Spec

\* The counters are well typed, and every endpoint that has an entry has
\* counted a request.
THEOREM MonitorTypes == Spec => []MonitorTypeOK
<1>1. Measured => MonitorTypeOK
  BY DEF Measured
<1> QED BY <1>1, MeasuredAlways, PTL

\* The response time that is reported, of the whole and of each endpoint, lies
\* between the least and the greatest that was measured since the reset.
THEOREM AverageWithin == Spec => []AverageMeasured
<1>1. Measured => AverageMeasured
  BY DEF Measured
<1> QED BY <1>1, MeasuredAlways, PTL

----------------------------------------------------------------------------
(***************************************************************************)
(* Totals.  Total is a fold: a function over the subsets of the domain,    *)
(* defined by taking out one element after the other.  That there is such  *)
(* a function, and that the order in which the elements are taken out does *)
(* not matter, is what these lemmas establish.                             *)
(***************************************************************************)

\* Induction over the naturals, for a set of them.
LEMMA Counting ==
  ASSUME NEW T \in SUBSET Nat, 0 \in T, \A n \in T : n + 1 \in T
  PROVE  \A n \in Nat : n \in T
<1> DEFINE R == OpToRel(<, Nat)
<1>1. IsWellFoundedOn(R, Nat)
  BY NatLessThanWellFounded
<1>2. \A x, y \in Nat : y < x => <<y, x>> \in R
  BY DEF OpToRel
<1> HIDE DEF R
<1> SUFFICES ASSUME Nat \ T # {} PROVE FALSE
  OBVIOUS
<1>3. PICK x \in Nat \ T : \A y \in Nat \ T : ~(<<y, x>> \in R)
  BY <1>1, WFMin
<1>4. \A y \in Nat \ T : ~(y < x)
  BY <1>2, <1>3
<1>5. x - 1 \in Nat /\ x - 1 < x
  BY <1>3
<1>6. x - 1 \in T
  BY <1>4, <1>5
<1>7. (x - 1) + 1 \in T
  BY <1>6
<1> QED BY <1>3, <1>7

\* What a sum over s is, when g has the sums over the smaller sets.
Step(f, s, g) == IF s = {} THEN 0 ELSE LET x == CHOOSE x \in s : TRUE IN f[x] + g[s \ {x}]

\* The sums of f over the subsets of its domain.
Sums(f) == CHOOSE g : g = [s \in SUBSET DOMAIN f |-> Step(f, s, g)]

\* A total is the sum over the whole domain.
LEMMA TotalSums == ASSUME NEW f PROVE Total(f) = Sums(f)[DOMAIN f]
BY DEF Total, FoldFunction, FoldFunctionOnSet, MapThenFoldSet, Sums, Step

\* A subset of a finite set has fewer elements without one of them.
LEMMA Smaller ==
  ASSUME NEW S, IsFiniteSet(S), NEW s \in SUBSET S
  PROVE  /\ IsFiniteSet(s) /\ Cardinality(s) \in Nat
         /\ \A x \in s : s \ {x} \in SUBSET S /\ Cardinality(s \ {x}) = Cardinality(s) - 1
         /\ Cardinality(s) = 0 <=> s = {}
<1>1. IsFiniteSet(s) /\ Cardinality(s) \in Nat
  BY FS_Subset, FS_CardinalityType
<1>2. \A x \in s : Cardinality(s \ {x}) = Cardinality(s) - 1
  BY <1>1, FS_RemoveElement
<1>3. Cardinality(s) = 0 <=> s = {}
  BY <1>1, FS_EmptySet
<1> QED BY <1>1, <1>2, <1>3

LEMMA StepTypes ==
  ASSUME NEW S, NEW f \in [S -> Nat], NEW g \in [SUBSET S -> Nat], NEW s \in SUBSET S
  PROVE  Step(f, s, g) \in Nat
<1>1. CASE s = {}
  BY <1>1 DEF Step
<1>2. CASE s # {}
  <2> DEFINE x == CHOOSE x \in s : TRUE
  <2>1. x \in s
    BY <1>2
  <2>2. f[x] \in Nat /\ g[s \ {x}] \in Nat
    BY <2>1
  <2>3. Step(f, s, g) = f[x] + g[s \ {x}]
    BY <1>2 DEF Step
  <2> HIDE DEF x
  <2> QED BY <2>2, <2>3
<1> QED BY <1>1, <1>2

\* What is summed.
Summable(S, f) == IsFiniteSet(S) /\ f \in [S -> Nat]

\* Some function has the sums over up to n elements.
SumsUpTo(S, f, n) ==
  \E g \in [SUBSET S -> Nat] :
    \A s \in SUBSET S : Cardinality(s) <= n => g[s] = Step(f, s, g)

\* There is one for every n.
LEMMA SumsExist ==
  ASSUME NEW S, NEW f, Summable(S, f)
  PROVE  \A n \in Nat : SumsUpTo(S, f, n)
<1> USE DEF Summable, SumsUpTo
<1> DEFINE UpTo(g, n) == \A s \in SUBSET S : Cardinality(s) <= n => g[s] = Step(f, s, g)
           Has(n) == \E g \in [SUBSET S -> Nat] : UpTo(g, n)
           T == {n \in Nat : Has(n)}
<1>1. Has(0)
  <2> DEFINE g == [s \in SUBSET S |-> 0]
  <2>1. \A s \in SUBSET S : Cardinality(s) <= 0 => s = {}
    BY Smaller
  <2>2. UpTo(g, 0)
    BY <2>1 DEF Step
  <2> QED BY <2>2
<1>2. ASSUME NEW n \in Nat, Has(n) PROVE Has(n + 1)
  <2>1. PICK g \in [SUBSET S -> Nat] : UpTo(g, n)
    BY <1>2
  <2> DEFINE h == [s \in SUBSET S |-> Step(f, s, g)]
  <2>2. h \in [SUBSET S -> Nat]
    BY StepTypes
  <2>3. \A s \in SUBSET S : Cardinality(s) <= n => h[s] = g[s]
    BY <2>1
  <2>4. ASSUME NEW s \in SUBSET S, Cardinality(s) <= n + 1 PROVE h[s] = Step(f, s, h)
    <3>1. CASE s = {}
      BY <3>1 DEF Step
    <3>2. CASE s # {}
      <4> DEFINE x == CHOOSE x \in s : TRUE
      <4>1. x \in s
        BY <3>2
      <4>2. s \ {x} \in SUBSET S /\ Cardinality(s \ {x}) <= n
        BY <2>4, <4>1, Smaller
      <4>3. h[s \ {x}] = g[s \ {x}]
        BY <2>3, <4>2
      <4>4. h[s] = Step(f, s, g)
        BY <2>4
      <4> HIDE DEF h
      <4>5. Step(f, s, g) = f[x] + g[s \ {x}] /\ Step(f, s, h) = f[x] + h[s \ {x}]
        BY <3>2 DEF Step
      <4> QED BY <4>3, <4>4, <4>5
    <3> QED BY <3>1, <3>2
  <2>5. UpTo(h, n + 1)
    BY <2>4
  <2> HIDE DEF h, UpTo
  <2> QED BY <2>2, <2>5
<1>3. \A n \in Nat : Has(n)
  <2> HIDE DEF Has
  <2>1. T \in SUBSET Nat /\ 0 \in T /\ \A n \in T : n + 1 \in T
    BY <1>1, <1>2
  <2>2. \A n \in Nat : n \in T
    <3> HIDE DEF T
    <3> QED BY <2>1, Counting
  <2> QED BY <2>2
<1> QED BY <1>3

\* The sums are defined, and are naturals.
LEMMA SumsDefined ==
  ASSUME NEW S, IsFiniteSet(S), NEW f \in [S -> Nat]
  PROVE  /\ \A s \in SUBSET S : Sums(f)[s] = Step(f, s, Sums(f))
         /\ Sums(f) = [s \in SUBSET S |-> Step(f, s, Sums(f))]
<1>1. Cardinality(S) \in Nat
  BY FS_CardinalityType
<1>2. PICK g \in [SUBSET S -> Nat] :
        \A s \in SUBSET S : Cardinality(s) <= Cardinality(S) => g[s] = Step(f, s, g)
  <2>1. Summable(S, f)
    BY DEF Summable
  <2>2. SumsUpTo(S, f, Cardinality(S))
    BY <1>1, <2>1, SumsExist
  <2> QED BY <2>2 DEF SumsUpTo
<1>3. \A s \in SUBSET S : Cardinality(s) <= Cardinality(S)
  BY FS_Subset
<1>4. g = [s \in SUBSET S |-> Step(f, s, g)]
  BY <1>2, <1>3
<1>5. DOMAIN f = S
  OBVIOUS
<1>6. Sums(f) = [s \in SUBSET S |-> Step(f, s, Sums(f))]
  BY <1>4, <1>5 DEF Sums
<1> QED BY <1>6

\* Any element of a set can be taken out of the sum over it.
LEMMA SumsSplit ==
  ASSUME NEW S, IsFiniteSet(S), NEW f \in [S -> Nat]
  PROVE  /\ Sums(f)[{}] = 0
         /\ \A s \in SUBSET S : Sums(f)[s] \in Nat
         /\ \A s \in SUBSET S : \A y \in s : Sums(f)[s] = f[y] + Sums(f)[s \ {y}]
<1> DEFINE Split(s) == Sums(f)[s] \in Nat /\ \A y \in s : Sums(f)[s] = f[y] + Sums(f)[s \ {y}]
           Done(n) == \A s \in SUBSET S : Cardinality(s) <= n => Split(s)
           T == {n \in Nat : Done(n)}
<1>1. Sums(f)[{}] = 0
  BY SumsDefined DEF Step
<1>2. Done(0)
  <2>1. \A s \in SUBSET S : Cardinality(s) <= 0 => s = {}
    BY Smaller
  <2>2. Split({})
    BY <1>1
  <2> HIDE DEF Split
  <2> QED BY <2>1, <2>2
<1>3. ASSUME NEW n \in Nat, Done(n) PROVE Done(n + 1)
  <2>1. ASSUME NEW s \in SUBSET S, Cardinality(s) <= n + 1 PROVE Split(s)
    <3>1. CASE s = {}
      BY <1>1, <3>1
    <3>2. CASE s # {}
      <4> DEFINE x == CHOOSE x \in s : TRUE
      <4>1. x \in s
        BY <3>2
      <4>2. \A y \in s : s \ {y} \in SUBSET S /\ Cardinality(s \ {y}) <= n
        BY <2>1, Smaller
      <4>3. \A y \in s : Split(s \ {y})
        <5> HIDE DEF Split
        <5> QED BY <1>3, <4>2
      <4>4. Sums(f)[s] = f[x] + Sums(f)[s \ {x}]
        <5>1. Sums(f)[s] = Step(f, s, Sums(f))
          BY SumsDefined
        <5> QED BY <3>2, <5>1 DEF Step
      <4> HIDE DEF x
      <4>5. Sums(f)[s] \in Nat
        <5>1. f[x] \in Nat /\ Sums(f)[s \ {x}] \in Nat
          BY <4>1, <4>3
        <5> QED BY <4>4, <5>1
      <4>6. ASSUME NEW y \in s, y # x PROVE Sums(f)[s] = f[y] + Sums(f)[s \ {y}]
        <5>1. Sums(f)[s \ {x}] = f[y] + Sums(f)[(s \ {x}) \ {y}]
          BY <4>1, <4>3, <4>6
        <5>2. Sums(f)[s \ {y}] = f[x] + Sums(f)[(s \ {y}) \ {x}]
          BY <4>1, <4>3, <4>6
        <5>3. Sums(f)[(s \ {x}) \ {y}] = Sums(f)[(s \ {y}) \ {x}]
          <6>1. (s \ {x}) \ {y} = (s \ {y}) \ {x}
            OBVIOUS
          <6> QED BY <6>1, Zenon
        <5>4. Sums(f)[(s \ {y}) \ {x}] \in Nat
          <6>1. PICK t \in SUBSET S : t = s \ {y}
            BY <4>2
          <6>2. x \in t /\ Cardinality(t) \in Nat /\ Cardinality(t) <= n
            BY <4>1, <4>2, <4>6, <6>1, Smaller
          <6>3. t \ {x} \in SUBSET S /\ Cardinality(t \ {x}) = Cardinality(t) - 1
            BY <6>2, Smaller
          <6>4. Cardinality(t \ {x}) <= n
            BY <6>2, <6>3
          <6> QED BY <1>3, <6>1, <6>3, <6>4
        <5>5. f[x] \in Nat /\ f[y] \in Nat
          BY <4>1
        <5> QED BY <4>4, <5>1, <5>2, <5>3, <5>4, <5>5
      <4> QED BY <4>4, <4>5, <4>6
    <3> QED BY <3>1, <3>2
  <2> QED BY <2>1
<1>4. \A n \in Nat : Done(n)
  <2> HIDE DEF Done
  <2>1. T \in SUBSET Nat /\ 0 \in T /\ \A n \in T : n + 1 \in T
    BY <1>2, <1>3
  <2>2. \A n \in Nat : n \in T
    <3> HIDE DEF T
    <3> QED BY <2>1, Counting
  <2> QED BY <2>2
<1>5. ASSUME NEW s \in SUBSET S PROVE Split(s)
  <2>1. Cardinality(s) \in Nat
    BY Smaller
  <2> HIDE DEF Split
  <2> QED BY <1>4, <2>1
<1> QED BY <1>1, <1>5

\* A sum depends on the values that are summed alone.
LEMMA SumsAgree ==
  ASSUME NEW S, IsFiniteSet(S), NEW f \in [S -> Nat],
         NEW R, IsFiniteSet(R), NEW h \in [R -> Nat],
         NEW u, u \subseteq S, u \subseteq R, \A x \in u : f[x] = h[x]
  PROVE  Sums(f)[u] = Sums(h)[u]
<1> DEFINE Done(n) == \A s \in SUBSET u : Cardinality(s) <= n => Sums(f)[s] = Sums(h)[s]
           T == {n \in Nat : Done(n)}
<1>0. IsFiniteSet(u)
  BY FS_Subset
<1>1. Done(0)
  <2>1. \A s \in SUBSET u : Cardinality(s) <= 0 => s = {}
    BY <1>0, Smaller
  <2>2. Sums(f)[{}] = 0 /\ Sums(h)[{}] = 0
    BY SumsSplit
  <2> QED BY <2>1, <2>2
<1>2. ASSUME NEW n \in Nat, Done(n) PROVE Done(n + 1)
  <2>1. ASSUME NEW s \in SUBSET u, Cardinality(s) <= n + 1 PROVE Sums(f)[s] = Sums(h)[s]
    <3>1. CASE s = {}
      BY <3>1, SumsSplit
    <3>2. CASE s # {}
      <4>1. PICK x \in s : TRUE
        BY <3>2
      <4>2. s \ {x} \in SUBSET u /\ Cardinality(s \ {x}) <= n
        BY <1>0, <2>1, Smaller
      <4>3. Sums(f)[s \ {x}] = Sums(h)[s \ {x}]
        BY <1>2, <4>2
      <4>4. Sums(f)[s] = f[x] + Sums(f)[s \ {x}] /\ Sums(h)[s] = h[x] + Sums(h)[s \ {x}]
        <5>1. s \in SUBSET S /\ s \in SUBSET R
          OBVIOUS
        <5> QED BY <5>1, SumsSplit
      <4> QED BY <4>3, <4>4
    <3> QED BY <3>1, <3>2
  <2> QED BY <2>1
<1>3. \A n \in Nat : Done(n)
  <2> HIDE DEF Done
  <2>1. T \in SUBSET Nat /\ 0 \in T /\ \A n \in T : n + 1 \in T
    BY <1>1, <1>2
  <2>2. \A n \in Nat : n \in T
    <3> HIDE DEF T
    <3> QED BY <2>1, Counting
  <2> QED BY <2>2
<1>4. Cardinality(u) \in Nat
  BY <1>0, FS_CardinalityType
<1> QED BY <1>3, <1>4

\* Nothing adds up to nothing.
LEMMA TotalZero ==
  ASSUME NEW S, IsFiniteSet(S), NEW f \in [S -> Nat], \A x \in S : f[x] = 0
  PROVE  Total(f) = 0
<1> DEFINE Done(n) == \A s \in SUBSET S : Cardinality(s) <= n => Sums(f)[s] = 0
           T == {n \in Nat : Done(n)}
<1>1. Done(0)
  <2>1. \A s \in SUBSET S : Cardinality(s) <= 0 => s = {}
    BY Smaller
  <2> QED BY <2>1, SumsSplit
<1>2. ASSUME NEW n \in Nat, Done(n) PROVE Done(n + 1)
  <2>1. ASSUME NEW s \in SUBSET S, Cardinality(s) <= n + 1 PROVE Sums(f)[s] = 0
    <3>1. CASE s = {}
      BY <3>1, SumsSplit
    <3>2. CASE s # {}
      <4>1. PICK x \in s : TRUE
        BY <3>2
      <4>2. s \ {x} \in SUBSET S /\ Cardinality(s \ {x}) <= n
        BY <2>1, Smaller
      <4>3. Sums(f)[s \ {x}] = 0
        BY <1>2, <4>2
      <4>4. Sums(f)[s] = f[x] + Sums(f)[s \ {x}]
        BY SumsSplit
      <4> QED BY <4>3, <4>4
    <3> QED BY <3>1, <3>2
  <2> QED BY <2>1
<1>3. \A n \in Nat : Done(n)
  <2> HIDE DEF Done
  <2>1. T \in SUBSET Nat /\ 0 \in T /\ \A n \in T : n + 1 \in T
    BY <1>1, <1>2
  <2>2. \A n \in Nat : n \in T
    <3> HIDE DEF T
    <3> QED BY <2>1, Counting
  <2> QED BY <2>2
<1>4. Cardinality(S) \in Nat
  BY FS_CardinalityType
<1>5. Sums(f)[S] = 0 /\ DOMAIN f = S
  BY <1>3, <1>4
<1> QED BY <1>5, TotalSums

\* The same for the sum over the whole domain.
LEMMA SumsWhole ==
  ASSUME NEW S, NEW f, Summable(S, f), NEW y \in S
  PROVE  /\ Sums(f)[S] = f[y] + Sums(f)[S \ {y}]
         /\ Sums(f)[S \ {y}] \in Nat /\ f[y] \in Nat
<1>1. IsFiniteSet(S) /\ f \in [S -> Nat] /\ S \in SUBSET S /\ S \ {y} \in SUBSET S
  BY DEF Summable
<1>2. Sums(f)[S] = f[y] + Sums(f)[S \ {y}]
  BY <1>1, SumsSplit
<1>3. Sums(f)[S \ {y}] \in Nat
  BY <1>1, SumsSplit
<1> QED BY <1>1, <1>2, <1>3

\* One value more, or another one at one place, changes a total by what that
\* place gains.
LEMMA TotalGains ==
  ASSUME NEW S, NEW f, Summable(S, f), NEW e, NEW h, Summable(S \cup {e}, h),
         \A x \in S \ {e} : h[x] = f[x],
         NEW d \in Nat, h[e] = (IF e \in S THEN f[e] ELSE 0) + d
  PROVE  Total(h) = Total(f) + d
<1> DEFINE R == S \cup {e}
<1>1. /\ Summable(R, h) /\ e \in R
      /\ IsFiniteSet(S) /\ f \in [S -> Nat] /\ IsFiniteSet(R) /\ h \in [R -> Nat]
  BY DEF Summable
<1>2. /\ S \ {e} \subseteq S /\ S \ {e} \subseteq R /\ R \ {e} = S \ {e}
      /\ DOMAIN h = R /\ DOMAIN f = S
  BY <1>1
<1> HIDE DEF R
<1>3. Sums(f)[S \ {e}] = Sums(h)[S \ {e}]
  BY <1>1, <1>2, SumsAgree
<1>4. Total(h) = Sums(h)[R] /\ Total(f) = Sums(f)[S]
  BY <1>2, TotalSums
<1>5. Sums(h)[R] = h[e] + Sums(h)[S \ {e}] /\ Sums(h)[S \ {e}] \in Nat /\ h[e] \in Nat
  <2>1. Sums(h)[R] = h[e] + Sums(h)[R \ {e}] /\ Sums(h)[R \ {e}] \in Nat /\ h[e] \in Nat
    BY <1>1, SumsWhole
  <2> QED BY <1>2, <2>1
<1>6. CASE e \in S
  <2>1. Sums(f)[S] = f[e] + Sums(f)[S \ {e}] /\ f[e] \in Nat
    BY <1>6, SumsWhole
  <2> QED BY <1>3, <1>4, <1>5, <1>6, <2>1
<1>7. CASE e \notin S
  <2>1. S \ {e} = S
    BY <1>7
  <2>2. Total(f) = Sums(f)[S \ {e}]
    BY <1>4, <2>1
  <2> QED BY <1>3, <1>4, <1>5, <1>7, <2>2
<1> QED BY <1>6, <1>7

----------------------------------------------------------------------------
(***************************************************************************)
(* The books.                                                              *)
(***************************************************************************)

Balanced(m) ==
  /\ m.requestCount = Total(m.statusCodes)
  /\ m.errorCount = Total([c \in Codes |-> IF c >= 400 THEN m.statusCodes[c] ELSE 0])

Books == MonitorTypeOK /\ IsFiniteSet(DOMAIN endpoints) /\ BooksBalance

\* Nothing was counted, nothing is in the books.
LEMMA EmptyBalanced == Balanced(Empty)
<1> DEFINE z == [c \in Codes |-> 0]
           y == [c \in Codes |-> IF c >= 400 THEN Empty.statusCodes[c] ELSE 0]
<1>1. Empty.statusCodes = z /\ Empty.requestCount = 0 /\ Empty.errorCount = 0
  BY DEF Empty
<1>2. z \in [Codes -> Nat] /\ \A c \in Codes : z[c] = 0
  OBVIOUS
<1>3. y \in [Codes -> Nat] /\ \A c \in Codes : y[c] = 0
  BY <1>1
<1>4. IsFiniteSet(Codes)
  BY MonitorAssumption
<1>5. Total(z) = 0
  <2> HIDE DEF z
  <2> QED BY <1>2, <1>4, TotalZero
<1>6. Total(y) = 0
  <2> HIDE DEF y
  <2> QED BY <1>3, <1>4, TotalZero
<1> QED BY <1>1, <1>5, <1>6 DEF Balanced

\* One request more is counted once among the codes, and once among the errors
\* when it is one.
LEMMA CountedBalanced ==
  ASSUME NEW m \in Counters, Balanced(m), NEW c \in Codes, NEW t \in Times
  PROVE  Balanced(Counted(m, c, t))
<1> DEFINE n == Counted(m, c, t)
           errors(k) == [d \in Codes |-> IF d >= 400 THEN k.statusCodes[d] ELSE 0]
           gain == IF IsError(c) THEN 1 ELSE 0
<1>1. /\ n.requestCount = m.requestCount + 1 /\ n.errorCount = m.errorCount + gain
      /\ n.statusCodes = [m.statusCodes EXCEPT ![c] = @ + 1]
  BY DEF Counted
<1>2. m.statusCodes \in [Codes -> Nat] /\ n.statusCodes \in [Codes -> Nat]
  BY <1>1 DEF Counters
<1>3. n.statusCodes[c] = m.statusCodes[c] + 1
      /\ \A d \in Codes \ {c} : n.statusCodes[d] = m.statusCodes[d]
  BY <1>1, <1>2
<1> HIDE DEF n
<1>4. Codes \cup {c} = Codes
  OBVIOUS
<1>5. IsFiniteSet(Codes) /\ Codes \subseteq Nat
  BY MonitorAssumption
<1>6. Total(n.statusCodes) = Total(m.statusCodes) + 1
  <2>1. Summable(Codes, m.statusCodes) /\ Summable(Codes, n.statusCodes)
    BY <1>2, <1>5 DEF Summable
  <2>2. Summable(Codes \cup {c}, n.statusCodes)
    BY <1>4, <2>1, Zenon
  <2>3. n.statusCodes[c] = (IF c \in Codes THEN m.statusCodes[c] ELSE 0) + 1
    BY <1>3
  <2> QED BY <1>3, <2>1, <2>2, <2>3, TotalGains
<1>7. Total(errors(n)) = Total(errors(m)) + gain
  <2>1. errors(m) \in [Codes -> Nat] /\ errors(n) \in [Codes -> Nat]
    BY <1>2
  <2>2. Summable(Codes, errors(m)) /\ Summable(Codes, errors(n))
    <3> HIDE DEF errors
    <3> QED BY <1>5, <2>1 DEF Summable
  <2>3. Summable(Codes \cup {c}, errors(n))
    BY <1>4, <2>2, Zenon
  <2>4. \A d \in Codes \ {c} : errors(n)[d] = errors(m)[d]
    BY <1>3
  <2>5. errors(n)[c] = errors(m)[c] + gain
    BY <1>2, <1>3 DEF IsError
  <2>6. errors(n)[c] = (IF c \in Codes THEN errors(m)[c] ELSE 0) + gain
    BY <2>5
  <2>7. gain \in Nat
    OBVIOUS
  <2> HIDE DEF errors, gain
  <2> QED BY <2>2, <2>3, <2>4, <2>6, <2>7, TotalGains
<1>8. m.requestCount = Total(m.statusCodes) /\ m.errorCount = Total(errors(m))
  BY DEF Balanced
<1>9. Balanced(n)
  BY <1>1, <1>6, <1>7, <1>8 DEF Balanced
<1> QED BY <1>9 DEF n

\* The books of the whole against those of the endpoints.
Booked(m, es) ==
  /\ m.requestCount = Total([e \in DOMAIN es |-> es[e].requestCount])
  /\ \A c \in Codes : m.statusCodes[c] = Total([e \in DOMAIN es |-> es[e].statusCodes[c]])

LEMMA BooksParts ==
  BooksBalance <=>
    /\ Booked(metrics, endpoints)
    /\ Balanced(metrics)
    /\ \A e \in DOMAIN endpoints : Balanced(endpoints[e])
<1> DEFINE all == {metrics} \cup {endpoints[e] : e \in DOMAIN endpoints}
<1>1. BooksBalance <=> Booked(metrics, endpoints) /\ \A m \in all : Balanced(m)
  BY DEF BooksBalance, Booked, Balanced
<1>2. (\A m \in all : Balanced(m)) <=>
        Balanced(metrics) /\ \A e \in DOMAIN endpoints : Balanced(endpoints[e])
  OBVIOUS
<1> QED BY <1>1, <1>2

\* Nothing is recorded of anything.
LEMMA NothingBooked ==
  ASSUME NEW es, es = [e \in {} |-> Empty]
  PROVE  DOMAIN es = {} /\ Booked(Empty, es)
<1>1. DOMAIN es = {}
  OBVIOUS
<1>2. ASSUME NEW f, f \in [{} -> Nat] PROVE Total(f) = 0
  BY <1>2, FS_EmptySet, TotalZero
<1>3. Total([e \in DOMAIN es |-> es[e].requestCount]) = 0
  BY <1>1, <1>2
<1>4. \A c \in Codes : Total([e \in DOMAIN es |-> es[e].statusCodes[c]]) = 0
  BY <1>1, <1>2
<1> QED BY <1>1, <1>3, <1>4 DEF Empty, Booked

\* The totals over the endpoints gain what the one that is recorded gains.
LEMMA RecordBooks ==
  ASSUME Books, NEW e \in Endpoints, NEW c \in Codes, NEW t \in Times, RecordRequest(e, c, t)
  PROVE  BooksBalance' /\ IsFiniteSet(DOMAIN endpoints')
<1> DEFINE D == DOMAIN endpoints
           old == IF e \in D THEN endpoints[e] ELSE Empty
           requests == [f \in D |-> endpoints[f].requestCount]
           withCode(d) == [f \in D |-> endpoints[f].statusCodes[d]]
<1>1. /\ metrics \in Counters /\ IsFiniteSet(D)
      /\ \A f \in D : endpoints[f] \in Counters
  BY DEF Books, MonitorTypeOK, Counters
<1>2. old \in Counters /\ Balanced(old)
  BY <1>1, EmptyTypes, EmptyBalanced, BooksParts DEF Books
<1>3. /\ metrics' = Counted(metrics, c, t)
      /\ DOMAIN endpoints' = D \cup {e}
      /\ endpoints'[e] = Counted(old, c, t)
      /\ \A f \in D \ {e} : endpoints'[f] = endpoints[f]
  BY DEF RecordRequest, Entry
<1>4. IsFiniteSet(D \cup {e})
  BY <1>1, FS_AddElement
<1>5. \A f \in D \cup {e} : endpoints'[f] \in Counters /\ Balanced(endpoints'[f])
  <2>1. endpoints'[e] \in Counters /\ Balanced(endpoints'[e])
    <3> HIDE DEF old
    <3> QED BY <1>2, <1>3, CountedTypes, CountedBalanced
  <2>2. \A f \in D \ {e} : endpoints'[f] \in Counters /\ Balanced(endpoints'[f])
    BY <1>1, <1>3, BooksParts DEF Books
  <2> QED BY <2>1, <2>2
<1>6. Balanced(metrics')
  BY <1>1, <1>3, CountedBalanced, BooksParts DEF Books
<1>7. metrics'.requestCount = Total(requests')
  <2>1. metrics'.requestCount = metrics.requestCount + 1
    BY <1>3 DEF Counted
  <2>2. Summable(D, requests)
    BY <1>1 DEF Summable, Counters
  <2>3. Summable(D \cup {e}, requests')
    BY <1>3, <1>4, <1>5 DEF Summable, Counters
  <2>4. \A f \in D \ {e} : requests'[f] = requests[f]
    BY <1>3
  <2>5. requests'[e] = (IF e \in D THEN requests[e] ELSE 0) + 1
    BY <1>3 DEF Counted, Empty
  <2>6. metrics.requestCount = Total(requests)
    BY BooksParts DEF Books, Booked
  <2> HIDE DEF requests
  <2>7. Total(requests') = Total(requests) + 1
    BY <2>2, <2>3, <2>4, <2>5, TotalGains
  <2> QED BY <2>1, <2>6, <2>7
<1>8. ASSUME NEW d \in Codes PROVE metrics'.statusCodes[d] = Total(withCode(d)')
  <2> DEFINE gain == IF d = c THEN 1 ELSE 0
  <2>1. metrics'.statusCodes[d] = metrics.statusCodes[d] + gain
    BY <1>1, <1>3 DEF Counted, Counters
  <2>2. Summable(D, withCode(d))
    BY <1>1 DEF Summable, Counters
  <2>3. Summable(D \cup {e}, withCode(d)')
    BY <1>3, <1>4, <1>5 DEF Summable, Counters
  <2>4. \A f \in D \ {e} : withCode(d)'[f] = withCode(d)[f]
    BY <1>3
  <2>5. endpoints'[e].statusCodes[d] = old.statusCodes[d] + gain
    <3> HIDE DEF old
    <3> QED BY <1>2, <1>3 DEF Counted, Counters
  <2>6. withCode(d)'[e] = (IF e \in D THEN withCode(d)[e] ELSE 0) + gain
    BY <1>3, <2>5 DEF Empty
  <2>7. metrics.statusCodes[d] = Total(withCode(d))
    BY BooksParts DEF Books, Booked
  <2>8. gain \in Nat
    OBVIOUS
  <2> HIDE DEF withCode, gain
  <2>9. Total(withCode(d)') = Total(withCode(d)) + gain
    BY <2>2, <2>3, <2>4, <2>6, <2>8, TotalGains
  <2> QED BY <2>1, <2>7, <2>9
<1>9. \A m \in {metrics'} \cup {endpoints'[f] : f \in D \cup {e}} : Balanced(m)
  BY <1>5, <1>6
<1>10. BooksBalance'
  BY <1>3, <1>7, <1>8, <1>9 DEF BooksBalance, Balanced
<1> QED BY <1>3, <1>4, <1>10

LEMMA BooksAlways == Spec => []Books
<1>1. Init => Books
  <2> SUFFICES ASSUME Init PROVE Books
    OBVIOUS
  <2>1. MonitorTypeOK
    BY InitMeasured DEF Measured
  <2>2. DOMAIN endpoints = {} /\ BooksBalance
    BY NothingBooked, EmptyBalanced, BooksParts DEF Init
  <2> QED BY <2>1, <2>2, FS_EmptySet DEF Books
<1>2. Books /\ MonitorTypeOK' /\ [Next]_vars => Books'
  <2> SUFFICES ASSUME Books, MonitorTypeOK', [Next]_vars PROVE Books'
    OBVIOUS
  <2>1. ASSUME NEW e \in Endpoints, NEW c \in Codes, NEW t \in Times, RecordRequest(e, c, t)
        PROVE  Books'
    BY <2>1, RecordBooks DEF Books
  <2>2. CASE ResetMetrics
    <3>1. metrics' = Empty /\ DOMAIN endpoints' = {} /\ Booked(Empty, endpoints')
      BY <2>2, NothingBooked DEF ResetMetrics
    <3>2. BooksBalance'
      BY <3>1, EmptyBalanced DEF BooksBalance, Booked, Balanced
    <3> QED BY <3>1, <3>2, FS_EmptySet DEF Books
  <2>3. CASE UNCHANGED vars
    <3>1. metrics' = metrics /\ endpoints' = endpoints
      BY <2>3 DEF vars
    <3>2. BooksBalance' <=> BooksBalance
      BY <3>1 DEF BooksBalance
    <3> QED BY <3>1, <3>2 DEF Books
  <2> QED BY <2>1, <2>2, <2>3 DEF Next
<1> QED BY <1>1, <1>2, MonitorTypes, PTL DEF Spec

\* The books balance in every state: what is reported of the whole is what is
\* reported of the endpoints, whatever was recorded and reset before.
THEOREM BooksAlwaysBalance == Spec => []BooksBalance
<1>1. Books => BooksBalance
  BY DEF Books
<1> QED BY <1>1, BooksAlways, PTL

----------------------------------------------------------------------------
(***************************************************************************)
(* The exchange sort of GetTopEndpoints.                                   *)
(***************************************************************************)

\* A loop over a..b whose body is F is defined, and keeps what F keeps.
Looped(X, a, b, F, x) ==
  \E g \in [a..b -> X] : g[a] = x /\ \A j \in (a + 1)..b : g[j] = F[j][g[j - 1]]

LEMMA LoopExists ==
  ASSUME NEW X, NEW a \in Nat, NEW b \in Nat, a <= b, NEW F \in [a..b -> [X -> X]], NEW x \in X
  PROVE  Looped(X, a, b, F, x)
<1> DEFINE UpTo(g, n) == g[a] = x /\ \A j \in (a + 1)..n : j <= b => g[j] = F[j][g[j - 1]]
           Has(n) == \E g \in [a..b -> X] : UpTo(g, n)
           T == {n \in Nat : Has(n)}
<1>1. Has(0)
  <2> DEFINE g == [j \in a..b |-> x]
  <2>1. g \in [a..b -> X] /\ UpTo(g, 0)
    OBVIOUS
  <2> QED BY <2>1
<1>2. ASSUME NEW n \in Nat, Has(n) PROVE Has(n + 1)
  <2>1. PICK g \in [a..b -> X] : UpTo(g, n)
    BY <1>2
  <2>2. CASE n + 1 \notin (a + 1)..b
    <3>1. UpTo(g, n + 1)
      BY <2>1, <2>2
    <3> HIDE DEF UpTo
    <3> QED BY <3>1
  <2>3. CASE n + 1 \in (a + 1)..b
    <3> DEFINE h == [g EXCEPT ![n + 1] = F[n + 1][g[n]]]
    <3>1. n \in a..b /\ n + 1 \in a..b
      BY <2>3
    <3>2. F[n + 1][g[n]] \in X
      BY <3>1
    <3>3. h \in [a..b -> X]
      BY <3>2
    <3>4. h[n + 1] = F[n + 1][g[n]] /\ \A j \in a..n : h[j] = g[j]
      BY <3>1
    <3> HIDE DEF h
    <3>5. ASSUME NEW j \in (a + 1)..(n + 1) PROVE h[j] = F[j][h[j - 1]]
      <4>1. j - 1 \in a..n /\ h[j - 1] = g[j - 1]
        BY <3>4
      <4>2. CASE j = n + 1
        BY <3>1, <3>4, <4>1, <4>2
      <4>3. CASE j # n + 1
        <5>1. j \in (a + 1)..n /\ j \in a..n /\ j <= b
          BY <3>1, <4>3
        <5> QED BY <2>1, <3>4, <4>1, <5>1
      <4> QED BY <4>2, <4>3
    <3>6. h[a] = x
      BY <2>1, <3>1, <3>4
    <3>7. UpTo(h, n + 1)
      BY <3>5, <3>6
    <3> HIDE DEF UpTo
    <3> QED BY <3>3, <3>7
  <2> QED BY <2>2, <2>3
<1>3. Has(b)
  <2> HIDE DEF Has
  <2>1. T \in SUBSET Nat /\ 0 \in T /\ \A n \in T : n + 1 \in T
    BY <1>1, <1>2
  <2>2. \A n \in Nat : n \in T
    <3> HIDE DEF T
    <3> QED BY <2>1, Counting
  <2> QED BY <2>2
<1>4. PICK g \in [a..b -> X] : UpTo(g, b)
  BY <1>3
<1>5. \A j \in (a + 1)..b : g[j] = F[j][g[j - 1]]
  BY <1>4
<1> QED BY <1>4, <1>5 DEF Looped

Count(e) == endpoints[e].requestCount

\* The orders of the endpoints, each once.
Lists(n) == {s \in [1..n -> DOMAIN endpoints] : IsInjective(s)}

\* The first p places hold nothing that is less than what is behind it.
Top(s, p, n) == \A k \in 1..p : \A m \in (k + 1)..n : Count(s[k]) >= Count(s[m])

CountsKnown == \A e \in DOMAIN endpoints : Count(e) \in Nat

LEMMA ListLen ==
  ASSUME NEW n \in Nat, NEW s \in Lists(n)
  PROVE  /\ s \in [1..n -> DOMAIN endpoints] /\ IsInjective(s)
         /\ s \in Seq(DOMAIN endpoints) /\ Len(s) = n /\ DOMAIN s = 1..n
BY DEF Lists

\* An exchange keeps the endpoints in the list and brings the greater forward.
LEMMA Exchanges ==
  ASSUME CountsKnown, NEW n \in Nat, NEW s \in Lists(n), NEW i \in 1..n, NEW j \in (i + 1)..n
  PROVE  /\ Exchange(s, i, j) \in Lists(n)
         /\ \A k \in 1..n \ {i, j} : Exchange(s, i, j)[k] = s[k]
         /\ Exchange(s, i, j)[i] \in {s[i], s[j]} /\ Exchange(s, i, j)[j] \in {s[i], s[j]}
         /\ Count(Exchange(s, i, j)[i]) >= Count(s[i])
         /\ Count(Exchange(s, i, j)[i]) >= Count(Exchange(s, i, j)[j])
<1> DEFINE x == [s EXCEPT ![i] = s[j], ![j] = s[i]]
<1>1. s \in [1..n -> DOMAIN endpoints] /\ IsInjective(s) /\ i \in 1..n /\ j \in 1..n /\ i # j
  BY ListLen
<1>2. Count(s[i]) \in Nat /\ Count(s[j]) \in Nat
  BY <1>1 DEF CountsKnown
<1>3. /\ x \in [1..n -> DOMAIN endpoints] /\ x[i] = s[j] /\ x[j] = s[i]
      /\ \A k \in 1..n \ {i, j} : x[k] = s[k]
  BY <1>1
<1>4. IsInjective(x)
  <2> HIDE DEF x
  <2> QED BY <1>1, <1>3 DEF IsInjective
<1>5. x \in Lists(n)
  <2> HIDE DEF x
  <2> QED BY <1>3, <1>4 DEF Lists
<1>6. Exchange(s, i, j) = IF Count(s[i]) < Count(s[j]) THEN x ELSE s
  BY DEF Exchange, Count
<1> HIDE DEF x
<1>7. CASE Count(s[i]) < Count(s[j])
  BY <1>2, <1>3, <1>5, <1>6, <1>7
<1>8. CASE ~(Count(s[i]) < Count(s[j]))
  BY <1>2, <1>6, <1>8
<1> QED BY <1>7, <1>8

\* A pass fixes one place more.
LEMMA PassFixes ==
  ASSUME CountsKnown, NEW n \in Nat, NEW s \in Lists(n), NEW i \in 1..n
  PROVE  Pass(s, i) \in Lists(n) /\ (Top(s, i - 1, n) => Top(Pass(s, i), i, n))
<1> DEFINE Eq(g) == g = [j \in i..n |-> IF j = i THEN s ELSE Exchange(g[j - 1], i, j)]
           upTo == CHOOSE g : Eq(g)
           F == [j \in i..n |-> [t \in Lists(n) |-> IF j = i THEN t ELSE Exchange(t, i, j)]]
<1>1. Pass(s, i) = upTo[n]
  BY ListLen DEF Pass
<1>2. F \in [i..n -> [Lists(n) -> Lists(n)]]
  <2>1. \A j \in i..n : \A t \in Lists(n) :
          (IF j = i THEN t ELSE Exchange(t, i, j)) \in Lists(n)
    BY Exchanges
  <2> QED BY <2>1
<1>3. Looped(Lists(n), i, n, F, s)
  <2> HIDE DEF F
  <2> QED BY <1>2, LoopExists
<1>4. PICK g \in [i..n -> Lists(n)] : g[i] = s /\ \A j \in (i + 1)..n : g[j] = F[j][g[j - 1]]
  BY <1>3 DEF Looped
<1>5. ASSUME NEW j \in (i + 1)..n PROVE g[j] = Exchange(g[j - 1], i, j)
  <2>1. g[j] = F[j][g[j - 1]]
    BY <1>4
  <2>2. g[j - 1] \in Lists(n) /\ j \in i..n /\ j # i
    OBVIOUS
  <2>3. \A t \in Lists(n) : F[j][t] = Exchange(t, i, j)
    BY <2>2
  <2> HIDE DEF F
  <2> QED BY <2>1, <2>2, <2>3
<1>6. Eq(g)
  BY <1>4, <1>5
<1>7. Eq(upTo)
  <2> HIDE DEF Eq
  <2> QED BY <1>6
<1>8. upTo[i] = s /\ \A j \in (i + 1)..n : upTo[j] = Exchange(upTo[j - 1], i, j)
  <2> HIDE DEF upTo
  <2> QED BY <1>7
<1> HIDE DEF upTo, F
<1> DEFINE Good(t, j) == /\ t \in Lists(n) /\ (Top(s, i - 1, n) => Top(t, i - 1, n))
                         /\ \A k \in (i + 1)..j : Count(t[i]) >= Count(t[k])
           T == {d \in Nat : i + d <= n => Good(upTo[i + d], i + d)}
<1>9. Good(s, i)
  OBVIOUS
<1>10. ASSUME NEW j \in (i + 1)..n, Good(upTo[j - 1], j - 1) PROVE Good(upTo[j], j)
  <2> DEFINE t == upTo[j - 1]
             u == upTo[j]
  <2>1. /\ t \in Lists(n) /\ (Top(s, i - 1, n) => Top(t, i - 1, n))
        /\ \A k \in (i + 1)..(j - 1) : Count(t[i]) >= Count(t[k])
    BY <1>10
  <2>2. u = Exchange(t, i, j)
    BY <1>8
  <2> HIDE DEF t, u
  <2>3. /\ u \in Lists(n)
        /\ \A k \in 1..n \ {i, j} : u[k] = t[k]
        /\ u[i] \in {t[i], t[j]} /\ u[j] \in {t[i], t[j]}
        /\ Count(u[i]) >= Count(t[i]) /\ Count(u[i]) >= Count(u[j])
    BY <2>1, <2>2, Exchanges
  <2>4. \A k \in 1..n : Count(t[k]) \in Nat /\ Count(u[k]) \in Nat
    <3>1. t \in [1..n -> DOMAIN endpoints] /\ u \in [1..n -> DOMAIN endpoints]
      BY <2>1, <2>3 DEF Lists
    <3> QED BY <3>1 DEF CountsKnown
  <2>5. ASSUME Top(s, i - 1, n) PROVE Top(u, i - 1, n)
    <3> SUFFICES ASSUME NEW k \in 1..(i - 1), NEW m \in (k + 1)..n PROVE Count(u[k]) >= Count(u[m])
      BY DEF Top
    <3>1. u[k] = t[k] /\ \A l \in (k + 1)..n : Count(t[k]) >= Count(t[l])
      BY <2>1, <2>3, <2>5 DEF Top
    <3>2. u[m] \in {t[m], t[i], t[j]}
      BY <2>3
    <3>3. i \in (k + 1)..n /\ j \in (k + 1)..n
      OBVIOUS
    <3> QED BY <3>1, <3>2, <3>3
  <2>6. ASSUME NEW k \in (i + 1)..j PROVE Count(u[i]) >= Count(u[k])
    <3>1. CASE k = j
      BY <2>3, <3>1
    <3>2. CASE k # j
      <4>1. k \in (i + 1)..(j - 1) /\ k \in 1..n \ {i, j}
        BY <3>2
      <4>2. u[k] = t[k] /\ Count(t[i]) >= Count(t[k])
        BY <2>1, <2>3, <4>1
      <4> QED BY <2>3, <2>4, <4>1, <4>2
    <3> QED BY <3>1, <3>2
  <2>7. Good(u, j)
    BY <2>3, <2>5, <2>6
  <2> QED BY <2>7 DEF u
<1> HIDE DEF Good
<1>11. 0 \in T
  BY <1>8, <1>9
<1>12. ASSUME NEW d \in T PROVE d + 1 \in T
  <2> SUFFICES ASSUME i + (d + 1) <= n PROVE Good(upTo[i + (d + 1)], i + (d + 1))
    OBVIOUS
  <2>1. Good(upTo[i + d], i + d)
    OBVIOUS
  <2>2. PICK j \in (i + 1)..n : j = i + (d + 1)
    OBVIOUS
  <2>3. j - 1 = i + d
    BY <2>2
  <2>4. Good(upTo[j], j)
    BY <1>10, <2>1, <2>3
  <2> QED BY <2>2, <2>4
<1>13. T \in SUBSET Nat
  OBVIOUS
<1>14. n - i \in T
  <2>1. \A d \in Nat : d \in T
    <3> HIDE DEF T
    <3> QED BY <1>11, <1>12, <1>13, Counting
  <2> QED BY <2>1
<1>15. Good(upTo[n], n)
  <2>1. i + (n - i) = n
    OBVIOUS
  <2> QED BY <1>14, <2>1
<1>16. Top(s, i - 1, n) => Top(upTo[n], i, n)
  <2> SUFFICES ASSUME Top(s, i - 1, n) PROVE Top(upTo[n], i, n)
    OBVIOUS
  <2>1. Top(upTo[n], i - 1, n) /\ \A k \in (i + 1)..n : Count(upTo[n][i]) >= Count(upTo[n][k])
    BY <1>15 DEF Good
  <2> QED BY <2>1 DEF Top
<1> QED BY <1>1, <1>15, <1>16 DEF Good

LEMMA PassesSort ==
  ASSUME CountsKnown, NEW n \in Nat, NEW s \in Lists(n)
  PROVE  Passes(s) \in Lists(n) /\ Top(Passes(s), n, n)
<1> DEFINE Eq(g) == g = [i \in 0..n |-> IF i = 0 THEN s ELSE Pass(g[i - 1], i)]
           upTo == CHOOSE g : Eq(g)
           F == [i \in 0..n |-> [t \in Lists(n) |-> IF i = 0 THEN t ELSE Pass(t, i)]]
<1>1. Passes(s) = upTo[n]
  BY ListLen DEF Passes
<1>2. F \in [0..n -> [Lists(n) -> Lists(n)]]
  <2>1. \A i \in 0..n : \A t \in Lists(n) : (IF i = 0 THEN t ELSE Pass(t, i)) \in Lists(n)
    BY PassFixes
  <2> QED BY <2>1
<1>3. Looped(Lists(n), 0, n, F, s)
  <2> HIDE DEF F
  <2> QED BY <1>2, LoopExists
<1>4. PICK g \in [0..n -> Lists(n)] : g[0] = s /\ \A i \in (0 + 1)..n : g[i] = F[i][g[i - 1]]
  BY <1>3 DEF Looped
<1>5. ASSUME NEW i \in 1..n PROVE g[i] = Pass(g[i - 1], i)
  <2>1. g[i] = F[i][g[i - 1]]
    <3> HIDE DEF F
    <3>1. i \in (0 + 1)..n
      OBVIOUS
    <3> QED BY <1>4, <3>1
  <2>2. g[i - 1] \in Lists(n) /\ i \in 0..n /\ i # 0
    OBVIOUS
  <2>3. \A t \in Lists(n) : F[i][t] = Pass(t, i)
    BY <2>2
  <2> HIDE DEF F
  <2> QED BY <2>1, <2>2, <2>3
<1>6. Eq(g)
  BY <1>4, <1>5
<1>7. Eq(upTo)
  <2> HIDE DEF Eq
  <2> QED BY <1>6
<1>8. upTo[0] = s /\ \A i \in 1..n : upTo[i] = Pass(upTo[i - 1], i)
  <2> HIDE DEF upTo
  <2> QED BY <1>7
<1> HIDE DEF upTo, F, Eq
<1> DEFINE T == {i \in Nat : i <= n => upTo[i] \in Lists(n) /\ Top(upTo[i], i, n)}
<1>9. 0 \in T
  BY <1>8 DEF Top
<1>10. ASSUME NEW i \in T PROVE i + 1 \in T
  <2> SUFFICES ASSUME i + 1 <= n PROVE upTo[i + 1] \in Lists(n) /\ Top(upTo[i + 1], i + 1, n)
    OBVIOUS
  <2>1. upTo[i] \in Lists(n) /\ Top(upTo[i], i, n)
    OBVIOUS
  <2>2. PICK j \in 1..n : j = i + 1
    OBVIOUS
  <2>3. j - 1 = i
    BY <2>2
  <2>4. upTo[j] = Pass(upTo[i], j)
    BY <1>8, <2>3
  <2>5. Top(upTo[i], j - 1, n)
    BY <2>1, <2>3
  <2> QED BY <2>1, <2>2, <2>4, <2>5, PassFixes
<1>11. n \in T
  <2>1. T \in SUBSET Nat
    OBVIOUS
  <2> HIDE DEF T
  <2> QED BY <1>9, <1>10, <2>1, Counting
<1> QED BY <1>1, <1>11

\* What is returned is the list, sorted and cut.
LEMMA TopEndpoints ==
  ASSUME CountsKnown, NEW n \in Nat, NEW s \in Lists(n), NEW limit \in Nat,
         IsFiniteSet(DOMAIN endpoints), n = Cardinality(DOMAIN endpoints)
  PROVE  LET top == GetTopEndpoints(s, limit)
         IN /\ IsInjective(top)
            /\ \A i, j \in DOMAIN top : i < j => Count(top[i]) >= Count(top[j])
            /\ \A e \in DOMAIN endpoints \ {top[i] : i \in DOMAIN top} :
                 \A i \in DOMAIN top : Count(top[i]) >= Count(e)
            /\ Len(top) < limit => \A e \in DOMAIN endpoints : \E i \in DOMAIN top : top[i] = e
<1> DEFINE p == Passes(s)
           top == GetTopEndpoints(s, limit)
           q == IF n > limit THEN limit ELSE n
<1>1. p \in Lists(n) /\ Top(p, n, n)
  BY PassesSort
<1> HIDE DEF p
<1>2. /\ p \in [1..n -> DOMAIN endpoints] /\ IsInjective(p)
      /\ p \in Seq(DOMAIN endpoints) /\ Len(p) = n /\ DOMAIN p = 1..n
  BY <1>1, ListLen
<1>3. q \in Nat /\ q <= n /\ q <= limit /\ (q < limit => q = n)
  OBVIOUS
<1>4. Len(top) = q /\ DOMAIN top = 1..q /\ \A i \in 1..q : top[i] = p[i]
  <2>1. CASE n > limit
    <3>1. top = SubSeq(p, 1, limit)
      BY <1>2, <2>1 DEF GetTopEndpoints, p
    <3>2. \A i \in 1..limit : p[i] \in DOMAIN endpoints
      BY <1>2, <2>1
    <3>3. /\ SubSeq(p, 1, limit) \in Seq(DOMAIN endpoints)
          /\ Len(SubSeq(p, 1, limit)) = limit
          /\ \A i \in 1..limit : SubSeq(p, 1, limit)[i] = p[i]
      BY <3>2, SubSeqProperties
    <3> QED BY <2>1, <3>1, <3>3
  <2>2. CASE ~(n > limit)
    <3>1. top = p
      BY <1>2, <2>2 DEF GetTopEndpoints, p
    <3> QED BY <1>2, <2>2, <3>1
  <2> QED BY <2>1, <2>2
<1>5. ASSUME NEW e \in DOMAIN endpoints PROVE \E i \in 1..n : p[i] = e
  <2>1. p \in Injection(1..n, DOMAIN endpoints)
    BY <1>2 DEF Injection
  <2>2. Cardinality(1..n) = n
    BY FS_Interval
  <2>3. p \in Surjection(1..n, DOMAIN endpoints)
    BY <2>1, <2>2, FS_Injection
  <2> QED BY <2>3 DEF Surjection
<1> HIDE DEF q, top
<1>6. IsInjective(top)
  BY <1>2, <1>3, <1>4 DEF IsInjective
<1>7. \A k \in 1..n : \A m \in (k + 1)..n : Count(p[k]) >= Count(p[m])
  BY <1>1 DEF Top
<1>8. \A i, j \in DOMAIN top : i < j => Count(top[i]) >= Count(top[j])
  BY <1>3, <1>4, <1>7
<1>9. ASSUME NEW e \in DOMAIN endpoints \ {top[i] : i \in DOMAIN top}, NEW i \in DOMAIN top
      PROVE  Count(top[i]) >= Count(e)
  <2>1. PICK m \in 1..n : p[m] = e
    BY <1>5
  <2>2. ~(m <= q)
    BY <1>3, <1>4, <2>1
  <2>3. i \in 1..n /\ m \in (i + 1)..n
    BY <1>3, <1>4, <2>2
  <2> QED BY <1>4, <1>7, <2>1, <2>3
<1>10. Len(top) < limit => \A e \in DOMAIN endpoints : \E i \in DOMAIN top : top[i] = e
  BY <1>3, <1>4, <1>5
<1> QED BY <1>6, <1>8, <1>9, <1>10 DEF top

\* Whatever order the map gives the endpoints in, and wherever the list is cut,
\* GetTopEndpoints returns the busiest of them, in order.
THEOREM BusiestAlwaysFirst == Spec => []BusiestFirst
<1>1. Books => BusiestFirst
  <2> SUFFICES ASSUME Books PROVE BusiestFirst
    OBVIOUS
  <2> DEFINE n == Cardinality(DOMAIN endpoints)
  <2>1. n \in Nat /\ IsFiniteSet(DOMAIN endpoints)
    BY FS_CardinalityType DEF Books
  <2>2. CountsKnown
    BY DEF Books, MonitorTypeOK, CountsKnown, Count
  <2>3. \A s \in {t \in [1..n -> DOMAIN endpoints] : IsInjective(t)} : s \in Lists(n)
    BY DEF Lists
  <2>4. \A limit \in 0..(n + 1) : limit \in Nat
    BY <2>1
  <2> HIDE DEF n
  <2>5. n = Cardinality(DOMAIN endpoints)
    BY DEF n
  <2> QED BY <2>1, <2>2, <2>3, <2>4, <2>5, TopEndpoints DEF BusiestFirst, Count
<1> QED BY <1>1, BooksAlways, PTL
=============================================================================
