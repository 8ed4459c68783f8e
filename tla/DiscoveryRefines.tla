-------------------------- MODULE DiscoveryRefines --------------------------
(***************************************************************************)
(* The proof that Discovery implements Registry: every call of the service *)
(* registry takes effect in one step between its call and its return, for  *)
(* any names, ids, instances, callers and channels.                        *)
(*                                                                         *)
(* The map from Discovery to Registry hides the lock, the goroutines and   *)
(* the channels.  What it needs beyond Inv is that the registry is in      *)
(* order (an instance sits under its own name and id, and its name is      *)
(* known) and that a caller's place agrees with the call it makes.         *)
(***************************************************************************)
EXTENDS DiscoveryProofs

\* An instance sits under its own name and id, and its name is known.
PlacesInv ==
  \A n \in Names, d \in Ids :
    services[n][d] # NoInstance =>
      n \in known /\ NameOf[services[n][d]] = n /\ IdOf[services[n][d]] = d

\* The place of a caller agrees with the call it makes.
CallerInv(p) ==
  /\ pc[p] \in {"idle", "lock", "write", "notify", "discover", "starting"}
  /\ pc[p] = "idle" => request[p] = NoRequest
  /\ pc[p] \in {"lock", "write"} =>
       request[p].op \in {"register", "start", "deregister", "watch"}
  /\ pc[p] = "discover" => request[p].op = "discover" /\ subject[p] = request[p].name
  /\ request[p].op = "start" => request[p].inst \in Configured

CallersInv == \A p \in Callers : CallerInv(p)

RInv == Inv /\ PlacesInv /\ CallersInv

----------------------------------------------------------------------------
(* Steps of one goroutine.                                                 *)

\* The caller q stays where it is, with its request.
Untouched(q) == pc'[q] = pc[q] /\ request'[q] = request[q] /\ subject'[q] = subject[q]

LEMMA CallerPlaces ==
  /\ \A p \in Callers : p \in Goroutines /\ p # Loop /\ p \notin Instances /\ p \notin Chans
  /\ \A i \in Instances : i \in Goroutines
  /\ \A c \in Chans : c \in Goroutines
  /\ Loop \in Goroutines
BY ConstantsAssumption DEF Goroutines

\* Resume of a caller: a call inside Start goes back to Start, any other returns.
LEMMA ResumeCaller ==
  ASSUME TypeOK, NEW p \in Callers, Resume(p)
  PROVE  /\ \A q \in Callers \ {p} : pc'[q] = pc[q] /\ request'[q] = request[q]
         /\ request[p].op = "start" => pc'[p] = "starting" /\ request'[p] = request[p]
         /\ request[p].op # "start" => pc'[p] = "idle" /\ request'[p] = NoRequest
BY CallerPlaces DEF Resume, TypeOK

\* Resume of a check moves no caller.
LEMMA ResumeCheck ==
  ASSUME TypeOK, NEW p \in Instances, Resume(p)
  PROVE  \A q \in Callers : pc'[q] = pc[q] /\ request'[q] = request[q]
BY CallerPlaces DEF Resume, TypeOK

\* notifyWatchers of a caller: with a watcher it is stuck in "notify".
LEMMA NotifyCaller ==
  ASSUME TypeOK, NEW p \in Callers, NEW n, NotifyWatchers(p, n)
  PROVE  /\ \A q \in Callers \ {p} : Untouched(q)
         /\ \/ pc'[p] = "notify" /\ request'[p] = request[p]
            \/ request[p].op = "start" /\ pc'[p] = "starting" /\ request'[p] = request[p]
            \/ request[p].op # "start" /\ pc'[p] = "idle" /\ request'[p] = NoRequest
<1>1. CASE watchers[n] = {}
  BY <1>1, ResumeCaller DEF NotifyWatchers, Untouched
<1>2. CASE watchers[n] # {}
  BY <1>2, CallerPlaces DEF NotifyWatchers, Untouched, TypeOK
<1> QED BY <1>1, <1>2

LEMMA NotifyCheck ==
  ASSUME TypeOK, NEW p \in Instances, NEW n, NotifyWatchers(p, n)
  PROVE  \A q \in Callers : Untouched(q)
<1>1. CASE watchers[n] = {}
  BY <1>1, ResumeCheck DEF NotifyWatchers, Untouched
<1>2. CASE watchers[n] # {}
  BY <1>2, CallerPlaces DEF NotifyWatchers, Untouched, TypeOK
<1> QED BY <1>1, <1>2

\* A step of a check, a sender, a reader, the loop or Stop, seen by the callers.
LEMMA OthersStep ==
  ASSUME TypeOK,
         \/ \E i \in Instances : CheckInstanceHealth(i)
         \/ \E c \in Chans : Sender(c) \/ Receive(c)
         \/ \E p \in Goroutines \ Callers : Lock(p) \/ Discover(p)
         \/ PerformHealthChecks \/ Tick \/ LoopStop \/ Stop
  PROVE  /\ \A q \in Callers : Untouched(q)
         /\ UNCHANGED <<services, known, answer>>
<1> USE CallerPlaces
<1>1. ASSUME NEW i \in Instances, CheckInstanceHealth(i)
      PROVE  \A q \in Callers : Untouched(q)
  <2>1. CASE NotifyWatchers(i, NameOf[i])
    BY <2>1, NotifyCheck
  <2>2. CASE Resume(i) /\ UNCHANGED subject
    BY <2>2, ResumeCheck DEF Untouched
  <2> QED BY <1>1, <2>1, <2>2 DEF CheckInstanceHealth
<1>2. ASSUME NEW i \in Instances, CheckInstanceHealth(i)
      PROVE  UNCHANGED <<services, known, answer>>
  BY <1>2 DEF CheckInstanceHealth
<1>3. ASSUME NEW c \in Chans, Sender(c) \/ Receive(c)
      PROVE  /\ \A q \in Callers : Untouched(q)
             /\ UNCHANGED <<services, known, answer>>
  BY <1>3 DEF Sender, SenderStart, SenderSend, SenderStop, Receive, Untouched, TypeOK, registry
<1>4. ASSUME NEW p \in Goroutines \ Callers, Lock(p)
      PROVE  /\ \A q \in Callers : Untouched(q)
             /\ UNCHANGED <<services, known, answer>>
  BY <1>4 DEF Lock, Untouched, TypeOK, registry
<1>5. ASSUME NEW p \in Goroutines \ Callers, Discover(p)
      PROVE  /\ \A q \in Callers : Untouched(q)
             /\ UNCHANGED <<services, known, answer>>
  <2>1. UNCHANGED <<services, known, answer>>
    BY <1>5 DEF Discover, DiscoverReturn, SenderDiscover, NotifyReturn, registry, TypeOK
  <2>2. \A q \in Callers : subject'[q] = subject[q]
    BY <1>5 DEF Discover, TypeOK
  <2>3. \A q \in Callers : pc'[q] = pc[q] /\ request'[q] = request[q]
    BY <1>5 DEF Discover, DiscoverReturn, SenderDiscover, NotifyReturn, Resume, TypeOK
  <2> QED BY <2>1, <2>2, <2>3 DEF Untouched
<1>6. CASE PerformHealthChecks
  BY <1>6 DEF PerformHealthChecks, Registered, Untouched, registry
<1>7. CASE Tick \/ LoopStop \/ Stop
  BY <1>7 DEF Tick, LoopStop, Stop, Untouched, TypeOK, registry
<1> QED BY <1>1, <1>2, <1>3, <1>4, <1>5, <1>6, <1>7


----------------------------------------------------------------------------
(* The registry is in order.                                               *)

LEMMA RegisterPlaces ==
  ASSUME TypeOK, PlacesInv, NEW p \in Goroutines, Register(p)
  PROVE  PlacesInv'
<1> DEFINE i == request[p].inst
           m == NameOf[i]
           e == IdOf[i]
<1>1. p \in Callers /\ request[p].op \in {"register", "start"}
  BY DEF Register
<1>2. i \in Instances
  BY <1>1 DEF TypeOK, Requests
<1>3. m \in Names /\ e \in Ids
  BY <1>2, ConstantsAssumption
<1>4. known' = known \cup {m} /\ services' = [services EXCEPT ![m][e] = i]
  BY DEF Register
<1>5. NameOf[i] = m /\ IdOf[i] = e
  OBVIOUS
<1> HIDE DEF i, m, e
<1> SUFFICES ASSUME NEW n \in Names, NEW d \in Ids, services'[n][d] # NoInstance
             PROVE  n \in known' /\ NameOf[services'[n][d]] = n /\ IdOf[services'[n][d]] = d
  BY DEF PlacesInv
<1>6. CASE n = m /\ d = e
  BY <1>3, <1>4, <1>5, <1>6 DEF TypeOK
<1>7. CASE ~(n = m /\ d = e)
  <2>1. services'[n][d] = services[n][d]
    BY <1>3, <1>4, <1>7 DEF TypeOK
  <2> QED BY <1>4, <2>1 DEF PlacesInv
<1> QED BY <1>6, <1>7

LEMMA DeregisterPlaces ==
  ASSUME TypeOK, PlacesInv, NEW p \in Goroutines, DeregisterFound(p)
  PROVE  PlacesInv'
<1>1. p \in Callers /\ request[p].op = "deregister" /\ known' = known
  BY DEF DeregisterFound
<1>2. request[p].id \in Ids
  BY <1>1 DEF TypeOK, Requests
<1>3. PICK m \in known : services' = [services EXCEPT ![m][request[p].id] = NoInstance]
  BY DEF DeregisterFound
<1>4. \A n \in Names, d \in Ids :
        services'[n][d] # NoInstance => services'[n][d] = services[n][d]
  BY <1>2, <1>3 DEF TypeOK
<1> QED BY <1>1, <1>4 DEF PlacesInv

\* Only a registration or a deregistration changes the maps.
LEMMA MapsKept ==
  ASSUME TypeOK, [Next]_vars, \A p \in Goroutines : ~Register(p) /\ ~DeregisterFound(p)
  PROVE  UNCHANGED <<services, known>>
<1>1. ASSUME Environment PROVE UNCHANGED <<services, known>>
  BY <1>1 DEF Environment, CallRegister, CallDeregister, CallDiscover, CallWatch, CallStart,
              Call, Receive, Tick, Stop, registry
<1>2. ASSUME NEW p \in Goroutines, Run(p) PROVE UNCHANGED <<services, known>>
  BY <1>2 DEF Run, Lock, Discover, DeregisterMissing, Watch, CheckInstanceHealth, registry
<1>3. ASSUME NEW p \in Callers, StartRegister(p) \/ StartReturn(p)
      PROVE  UNCHANGED <<services, known>>
  BY <1>3 DEF StartRegister, StartReturn, registry
<1>4. ASSUME NEW c \in Chans, Sender(c) PROVE UNCHANGED <<services, known>>
  BY <1>4 DEF Sender, SenderStart, SenderSend, SenderStop, registry
<1>5. CASE PerformHealthChecks \/ LoopStop \/ UNCHANGED vars
  BY <1>5 DEF PerformHealthChecks, LoopStop, vars, registry
<1> QED BY <1>1, <1>2, <1>3, <1>4, <1>5 DEF Next

LEMMA NextPlaces == TypeOK /\ PlacesInv /\ [Next]_vars => PlacesInv'
<1> SUFFICES ASSUME TypeOK, PlacesInv, [Next]_vars PROVE PlacesInv'
  OBVIOUS
<1>1. CASE \E p \in Goroutines : Register(p) \/ DeregisterFound(p)
  BY <1>1, RegisterPlaces, DeregisterPlaces
<1>2. CASE \A p \in Goroutines : ~Register(p) /\ ~DeregisterFound(p)
  BY <1>2, MapsKept DEF PlacesInv
<1> QED BY <1>1, <1>2

----------------------------------------------------------------------------
(* The place of a caller agrees with its call.                             *)

LEMMA OneCallerInv ==
  ASSUME CallersInv, NEW p \in Callers, \A q \in Callers \ {p} : Untouched(q), CallerInv(p)'
  PROVE  CallersInv'
<1>1. ASSUME NEW q \in Callers, q # p PROVE CallerInv(q)'
  BY <1>1 DEF CallersInv, CallerInv, Untouched
<1> QED BY <1>1 DEF CallersInv

LEMMA InitCallers == Init => CallersInv
BY CallerPlaces DEF Init, CallersInv, CallerInv, NoRequest

LEMMA CallCallers ==
  ASSUME TypeOK, CallersInv, NEW p \in Callers,
         \/ CallRegister(p) \/ CallDeregister(p) \/ CallDiscover(p) \/ CallWatch(p)
         \/ CallStart(p) \/ StartRegister(p) \/ StartReturn(p)
  PROVE  CallersInv'
<1> USE CallerPlaces
<1>1. ASSUME NEW r, Call(p, r), r.op \in {"register", "deregister", "watch"}
      PROVE  CallersInv'
  <2>1. \A q \in Callers \ {p} : Untouched(q)
    BY <1>1 DEF Call, Untouched, TypeOK
  <2>2. CallerInv(p)'
    BY <1>1 DEF Call, CallerInv, TypeOK
  <2> QED BY <2>1, <2>2, OneCallerInv
<1>2. CASE CallRegister(p) \/ CallDeregister(p) \/ CallWatch(p)
  BY <1>1, <1>2 DEF CallRegister, CallDeregister, CallWatch
<1>3. CASE CallDiscover(p)
  <2>1. \A q \in Callers \ {p} : Untouched(q)
    BY <1>3 DEF CallDiscover, Untouched, TypeOK
  <2>2. CallerInv(p)'
    BY <1>3 DEF CallDiscover, CallerInv, TypeOK
  <2> QED BY <2>1, <2>2, OneCallerInv
<1>4. CASE CallStart(p) \/ StartRegister(p) \/ StartReturn(p)
  <2>1. \A q \in Callers \ {p} : Untouched(q)
    BY <1>4 DEF CallStart, StartRegister, StartReturn, Untouched, TypeOK
  <2>2. CallerInv(p)'
    BY <1>4 DEF CallStart, StartRegister, StartReturn, CallersInv, CallerInv, NoRequest, TypeOK
  <2> QED BY <2>1, <2>2, OneCallerInv
<1> QED BY <1>2, <1>3, <1>4

LEMMA RunCallers ==
  ASSUME TypeOK, LockInv, CallersInv, NEW p \in Callers, Run(p)
  PROVE  CallersInv'
<1> USE CallerPlaces
<1>1. CASE Lock(p)
  <2>1. \A q \in Callers \ {p} : Untouched(q)
    BY <1>1 DEF Lock, Untouched, TypeOK
  <2>2. CallerInv(p)'
    BY <1>1 DEF Lock, CallersInv, CallerInv, TypeOK
  <2> QED BY <2>1, <2>2, OneCallerInv
<1>2. CASE Discover(p)
  <2>1. DiscoverReturn(p) /\ request[p].op = "discover"
    BY <1>2 DEF Discover, LockInv, Reading, CallersInv, CallerInv, SenderDiscover, NotifyReturn
  <2>2. \A q \in Callers \ {p} : Untouched(q)
    BY <1>2, <2>1, ResumeCaller DEF Discover, DiscoverReturn, Untouched, TypeOK
  <2>3. CallerInv(p)'
    BY <2>1, ResumeCaller DEF DiscoverReturn, CallerInv, NoRequest
  <2> QED BY <2>2, <2>3, OneCallerInv
<1>3. ASSUME NEW n, NotifyWatchers(p, n) PROVE CallersInv'
  <2>1. CallerInv(p)'
    BY <1>3, NotifyCaller DEF CallersInv, CallerInv, NoRequest
  <2> QED BY <1>3, <2>1, NotifyCaller, OneCallerInv
<1>4. CASE Register(p) \/ DeregisterFound(p)
  BY <1>3, <1>4 DEF Register, DeregisterFound
<1>5. CASE DeregisterMissing(p)
  <2>1. Resume(p) /\ UNCHANGED subject
    BY <1>5 DEF DeregisterMissing
  <2>2. CallerInv(p)'
    BY <2>1, ResumeCaller DEF CallersInv, CallerInv, NoRequest
  <2> QED BY <2>1, <2>2, ResumeCaller, OneCallerInv DEF Untouched
<1>6. CASE Watch(p)
  <2>1. \A q \in Callers \ {p} : Untouched(q)
    BY <1>6 DEF Watch, Untouched, TypeOK
  <2>2. CallerInv(p)'
    BY <1>6 DEF Watch, CallerInv, NoRequest, TypeOK
  <2> QED BY <2>1, <2>2, OneCallerInv
<1>7. ~CheckInstanceHealth(p)
  BY DEF CheckInstanceHealth
<1> QED BY <1>1, <1>2, <1>4, <1>5, <1>6, <1>7 DEF Run

\* Run of a goroutine that is no caller.
LEMMA RunOthers ==
  ASSUME NEW p \in Goroutines \ Callers, Run(p)
  PROVE  Lock(p) \/ Discover(p) \/ (p \in Instances /\ CheckInstanceHealth(p))
BY DEF Run, Register, DeregisterFound, DeregisterMissing, Watch, CheckInstanceHealth

LEMMA NextCallers == TypeOK /\ LockInv /\ CallersInv /\ [Next]_vars => CallersInv'
<1> SUFFICES ASSUME TypeOK, LockInv, CallersInv, [Next]_vars PROVE CallersInv'
  OBVIOUS
<1>1. ASSUME \A q \in Callers : Untouched(q) PROVE CallersInv'
  BY <1>1 DEF CallersInv, CallerInv, Untouched
<1>2. ASSUME NEW p \in Goroutines, Run(p) PROVE CallersInv'
  <2>1. CASE p \in Callers
    BY <1>2, <2>1, RunCallers
  <2>2. CASE p \notin Callers
    BY <1>1, <1>2, <2>2, RunOthers, OthersStep
  <2> QED BY <2>1, <2>2
<1>3. ASSUME NEW c \in Chans, Sender(c) \/ Receive(c) PROVE CallersInv'
  BY <1>1, <1>3, OthersStep
<1>4. CASE PerformHealthChecks \/ Tick \/ LoopStop \/ Stop
  BY <1>1, <1>4, OthersStep
<1>5. CASE UNCHANGED vars
  BY <1>1, <1>5 DEF vars, Untouched
<1> QED BY <1>2, <1>3, <1>4, <1>5, CallCallers DEF Next, Environment

LEMMA RefinesInv == Spec => []RInv
<1>1. Init => PlacesInv /\ CallersInv
  BY InitCallers DEF Init, PlacesInv
<1>2. Inv /\ PlacesInv /\ CallersInv /\ [Next]_vars => (PlacesInv /\ CallersInv)'
  BY NextPlaces, NextCallers DEF Inv, TypeInv
<1> QED BY <1>1, <1>2, Invariance, PTL DEF Spec, RInv

----------------------------------------------------------------------------
(* What a step looks like to Registry.                                     *)

\* Nothing Registry sees of the caller q changes.
LEMMA SeenKept ==
  ASSUME NEW q \in Callers, pc'[q] = pc[q], request'[q] = request[q]
  PROVE  CallPhase'[q] = CallPhase[q] /\ CallMade'[q] = CallMade[q]
BY DEF CallPhase, CallMade, Starting

\* A step in which only p is seen to move.
LEMMA OneCallerSeen ==
  ASSUME NEW p \in Callers,
         \A q \in Callers \ {p} : pc'[q] = pc[q] /\ request'[q] = request[q]
  PROVE  /\ CallPhase' = [CallPhase EXCEPT ![p] = CallPhase'[p]]
         /\ CallMade' = [CallMade EXCEPT ![p] = CallMade'[p]]
<1>1. \A q \in Callers \ {p} : CallPhase'[q] = CallPhase[q] /\ CallMade'[q] = CallMade[q]
  BY SeenKept
<1>2. /\ CallPhase = [q \in Callers |-> CallPhase[q]]
      /\ CallPhase' = [q \in Callers |-> CallPhase'[q]]
      /\ CallMade = [q \in Callers |-> CallMade[q]]
      /\ CallMade' = [q \in Callers |-> CallMade'[q]]
  BY DEF CallPhase, CallMade
<1>3. CallPhase' = [CallPhase EXCEPT ![p] = CallPhase'[p]]
  BY <1>1, <1>2
<1>4. CallMade' = [CallMade EXCEPT ![p] = CallMade'[p]]
  BY <1>1, <1>2
<1> QED BY <1>3, <1>4

\* The same call is seen when p's call is the same.
LEMMA SameCallSeen ==
  ASSUME NEW p \in Callers, CallMade'[p] = CallMade[p],
         \A q \in Callers \ {p} : pc'[q] = pc[q] /\ request'[q] = request[q]
  PROVE  CallMade' = CallMade
<1>1. \A q \in Callers : CallMade'[q] = CallMade[q]
  BY SeenKept
<1>2. /\ CallMade = [q \in Callers |-> CallMade[q]]
      /\ CallMade' = [q \in Callers |-> CallMade'[q]]
  BY DEF CallMade
<1> QED BY <1>1, <1>2

\* Registry sees no step.
LEMMA Unseen ==
  ASSUME \A q \in Callers : CallPhase'[q] = CallPhase[q] /\ CallMade'[q] = CallMade[q],
         UNCHANGED <<services, known, health, answer>>
  PROVE  UNCHANGED Atomic!vars
<1>1. /\ CallPhase = [q \in Callers |-> CallPhase[q]]
      /\ CallPhase' = [q \in Callers |-> CallPhase'[q]]
      /\ CallMade = [q \in Callers |-> CallMade[q]]
      /\ CallMade' = [q \in Callers |-> CallMade'[q]]
  BY DEF CallPhase, CallMade
<1>2. CallPhase' = CallPhase /\ CallMade' = CallMade
  BY <1>1
<1> QED BY <1>2 DEF Atomic!vars

\* A call outside Start takes effect in its critical section, and returns at
\* once or is stuck in a notification.
LEMMA SectionEffect ==
  ASSUME NEW p \in Callers,
         pc[p] \in {"write", "discover"}, request[p].op # "start",
         \A q \in Callers \ {p} : pc'[q] = pc[q] /\ request'[q] = request[q],
         \/ pc'[p] = "notify" /\ request'[p] = request[p]
         \/ pc'[p] = "idle" /\ request'[p] = NoRequest
  PROVE  /\ CallPhase[p] = "open"
         /\ \/ /\ CallPhase' = [CallPhase EXCEPT ![p] = "idle"]
               /\ CallMade' = [CallMade EXCEPT ![p] = [op |-> "none"]]
            \/ /\ CallPhase' = [CallPhase EXCEPT ![p] = "done"]
               /\ CallMade' = CallMade
<1>1. CallPhase[p] = "open"
  BY DEF CallPhase
<1>2. CASE pc'[p] = "notify" /\ request'[p] = request[p]
  <2>1. CallPhase'[p] = "done"
    BY <1>2 DEF CallPhase
  <2>2. CallMade'[p] = CallMade[p]
    BY <1>2 DEF CallMade, Starting
  <2>3. CallMade' = CallMade
    BY <2>2, SameCallSeen
  <2> QED BY <1>1, <2>1, <2>3, OneCallerSeen
<1>3. CASE pc'[p] = "idle" /\ request'[p] = NoRequest
  <2>1. CallPhase'[p] = "idle"
    BY <1>3 DEF CallPhase
  <2>2. CallMade'[p] = [op |-> "none"]
    BY <1>3 DEF CallMade, Starting, NoRequest
  <2> QED BY <1>1, <2>1, <2>2, OneCallerSeen
<1> QED BY <1>2, <1>3

\* A caller calls.
LEMMA InvokeSeen ==
  ASSUME NEW p \in Callers, pc[p] = "idle", pc'[p] \notin {"idle", "notify"},
         \A q \in Callers \ {p} : pc'[q] = pc[q] /\ request'[q] = request[q],
         answer' = [answer EXCEPT ![p] = Nothing],
         UNCHANGED <<services, known>>,
         CallMade'[p] \in Atomic!Calls,
         \/ health' = health
         \/ /\ CallMade'[p].op = "register"
            /\ CallMade'[p].inst \notin Registered
            /\ \E h \in HealthStatus : health' = [health EXCEPT ![CallMade'[p].inst] = h]
  PROVE  Atomic!Invoke(p)
<1>1. CallPhase[p] = "idle" /\ CallPhase'[p] = "open"
  BY DEF CallPhase
<1>2. /\ CallPhase' = [CallPhase EXCEPT ![p] = "open"]
      /\ CallMade' = [CallMade EXCEPT ![p] = CallMade'[p]]
  BY <1>1, OneCallerSeen
<1> HIDE DEF CallMade
<1>3. Atomic!None = Nothing /\ Registered = Atomic!Present
  BY DEF Nothing, Atomic!None, Registered, Atomic!Present
<1> QED BY <1>1, <1>2, <1>3 DEF Atomic!Invoke, HealthStatus

----------------------------------------------------------------------------
(* Each step of Discovery is a step of Registry or none.                   *)

LEMMA CallRefines ==
  ASSUME RInv, NEW p \in Callers, NEW r \in Requests, Call(p, r),
         r.op \in {"register", "deregister", "watch"},
         \/ UNCHANGED health
         \/ /\ r.op = "register"
            /\ r.inst \notin Registered
            /\ \E h \in HealthStatus : health' = [health EXCEPT ![r.inst] = h]
  PROVE  Atomic!Invoke(p)
<1> TypeOK /\ p \in Goroutines
  BY CallerPlaces DEF RInv, Inv, TypeInv
<1>1. /\ pc[p] = "idle" /\ pc'[p] = "lock"
      /\ request'[p] = r
      /\ \A q \in Callers \ {p} : pc'[q] = pc[q] /\ request'[q] = request[q]
      /\ answer' = [answer EXCEPT ![p] = Nothing]
      /\ UNCHANGED <<services, known>>
  BY CallerPlaces DEF Call, TypeOK
<1>2. CallMade'[p] = IF r.op = "watch" THEN [op |-> "watch"] ELSE r
  BY <1>1 DEF CallMade, Starting
<1>3. CallMade'[p] \in Atomic!Calls
  BY <1>2 DEF Requests, Atomic!Calls
<1> QED BY <1>1, <1>2, <1>3, InvokeSeen

LEMMA CallerCallRefines ==
  ASSUME RInv, NEW p \in Callers,
         CallRegister(p) \/ CallDeregister(p) \/ CallDiscover(p) \/ CallWatch(p) \/ CallStart(p)
  PROVE  Atomic!Invoke(p)
<1> TypeOK /\ p \in Goroutines
  BY CallerPlaces DEF RInv, Inv, TypeInv
<1>1. CASE CallRegister(p)
  <2>1. PICK i \in Instances, h \in HealthStatus :
          Fresh(i) /\ Call(p, [op |-> "register", inst |-> i]) /\ health' = [health EXCEPT ![i] = h]
    BY <1>1 DEF CallRegister
  <2>2. i \notin Registered
    BY <2>1 DEF Fresh
  <2>3. [op |-> "register", inst |-> i] \in Requests
    BY DEF Requests
  <2> QED BY <2>1, <2>2, <2>3, CallRefines
<1>2. CASE CallDeregister(p)
  <2>1. PICK d \in Ids : Call(p, [op |-> "deregister", id |-> d]) /\ UNCHANGED health
    BY <1>2 DEF CallDeregister
  <2>2. [op |-> "deregister", id |-> d] \in Requests
    BY DEF Requests
  <2> QED BY <2>1, <2>2, CallRefines
<1>3. CASE CallWatch(p)
  <2>1. PICK n \in Names : Call(p, [op |-> "watch", name |-> n]) /\ UNCHANGED health
    BY <1>3 DEF CallWatch
  <2>2. [op |-> "watch", name |-> n] \in Requests
    BY DEF Requests
  <2> QED BY <2>1, <2>2, CallRefines
<1>4. CASE CallDiscover(p)
  <2>1. PICK n \in Names :
          /\ pc[p] = "idle" /\ pc' = [pc EXCEPT ![p] = "discover"]
          /\ request' = [request EXCEPT ![p] = [op |-> "discover", name |-> n]]
          /\ answer' = [answer EXCEPT ![p] = Nothing]
          /\ UNCHANGED registry
    BY <1>4 DEF CallDiscover
  <2>2. /\ pc'[p] = "discover" /\ request'[p] = [op |-> "discover", name |-> n]
        /\ \A q \in Callers \ {p} : pc'[q] = pc[q] /\ request'[q] = request[q]
    BY <2>1, CallerPlaces DEF TypeOK
  <2>3. CallMade'[p] = [op |-> "discover", name |-> n]
    BY <2>2 DEF CallMade, Starting
  <2>4. CallMade'[p] \in Atomic!Calls
    BY <2>3 DEF Atomic!Calls
  <2> QED BY <2>1, <2>2, <2>4, InvokeSeen DEF registry
<1>5. CASE CallStart(p)
  <2>1. /\ pc[p] = "idle" /\ pc'[p] = "starting" /\ request' = request
        /\ \A q \in Callers \ {p} : pc'[q] = pc[q] /\ request'[q] = request[q]
        /\ answer' = [answer EXCEPT ![p] = Nothing]
        /\ UNCHANGED <<services, known, health>>
    BY <1>5, CallerPlaces DEF CallStart, TypeOK, registry
  <2>2. CallMade'[p] = [op |-> "start"]
    BY <2>1 DEF CallMade, Starting
  <2>3. CallMade'[p] \in Atomic!Calls
    BY <2>2 DEF Atomic!Calls
  <2> QED BY <2>1, <2>3, InvokeSeen
<1> QED BY <1>1, <1>2, <1>3, <1>4, <1>5

LEMMA RegisterRefines ==
  ASSUME RInv, NEW p \in Callers, Register(p)
  PROVE  Atomic!Register(p) \/ Atomic!Preload(p)
<1> TypeOK
  BY DEF RInv, Inv, TypeInv
<1>1. /\ pc[p] = "write"
      /\ answer' = [answer EXCEPT ![p] = Succeeded]
      /\ NotifyWatchers(p, NameOf[request[p].inst])
      /\ UNCHANGED health
      /\ request[p].inst \in Instances
  BY DEF Register, Holds, TypeOK, Requests
<1>2. Atomic!Put(request[p].inst)
  BY DEF Register, Atomic!Put
<1>3. /\ \A q \in Callers \ {p} : pc'[q] = pc[q] /\ request'[q] = request[q]
      /\ \/ pc'[p] = "notify" /\ request'[p] = request[p]
         \/ request[p].op = "start" /\ pc'[p] = "starting" /\ request'[p] = request[p]
         \/ request[p].op # "start" /\ pc'[p] = "idle" /\ request'[p] = NoRequest
  BY <1>1, NotifyCaller DEF Untouched
<1>4. answer' = [answer EXCEPT ![p] = Atomic!Ok]
  BY <1>1 DEF Succeeded, Atomic!Ok
<1>5. CASE request[p].op = "register"
  <2>1. CallMade[p] = request[p]
    BY <1>1, <1>5 DEF CallMade, Starting
  <2>2. /\ pc[p] \in {"write", "discover"} /\ request[p].op # "start"
        /\ \/ pc'[p] = "notify" /\ request'[p] = request[p]
           \/ pc'[p] = "idle" /\ request'[p] = NoRequest
    BY <1>1, <1>3, <1>5
  <2>3. Atomic!Effect(p, Atomic!Ok)
    BY <1>3, <1>4, <2>2, SectionEffect DEF Atomic!Effect
  <2> QED BY <1>1, <1>2, <1>5, <2>1, <2>3 DEF Atomic!Register
<1>6. CASE request[p].op = "start"
  <2> request[p].inst \in Configured
    BY <1>6 DEF RInv, CallersInv, CallerInv
  <2>1. CallMade[p].op = "start" /\ CallPhase[p] = "open"
    BY <1>1, <1>6 DEF CallMade, CallPhase, Starting
  <2>2. CallMade'[p] = CallMade[p]
    BY <1>3, <1>6 DEF CallMade, Starting
  <2>3. CallMade' = CallMade
    BY <1>3, <2>2, SameCallSeen
  <2>4. CallPhase'[p] \in {"open", "done"}
    BY <1>3, <1>6 DEF CallPhase
  <2>5. CallPhase' = CallPhase \/ CallPhase' = [CallPhase EXCEPT ![p] = "done"]
    BY <1>3, <2>1, <2>4, OneCallerSeen DEF CallPhase
  <2> QED BY <1>1, <1>2, <1>4, <2>1, <2>3, <2>5 DEF Atomic!Preload
<1> QED BY <1>5, <1>6 DEF Register

LEMMA DeregisterRefines ==
  ASSUME RInv, NEW p \in Callers, DeregisterFound(p) \/ DeregisterMissing(p)
  PROVE  Atomic!Deregister(p)
<1> TypeOK
  BY DEF RInv, Inv, TypeInv
<1> DEFINE held == {n \in Names : services[n][CallMade[p].id] # NoInstance}
<1>1. /\ pc[p] = "write" /\ request[p].op = "deregister" /\ request[p].id \in Ids
      /\ UNCHANGED <<known, health>>
  BY DEF DeregisterFound, DeregisterMissing, Holds, TypeOK, Requests, registry
<1>2. CallMade[p] = request[p]
  BY <1>1 DEF CallMade, Starting
<1>3. held = {n \in known : services[n][request[p].id] # NoInstance}
  BY <1>1, <1>2 DEF RInv, PlacesInv, TypeOK
<1>4. CASE DeregisterFound(p)
  <2>1. PICK n \in known :
          /\ services[n][request[p].id] # NoInstance
          /\ services' = [services EXCEPT ![n][request[p].id] = NoInstance]
          /\ answer' = [answer EXCEPT ![p] = Succeeded]
          /\ NotifyWatchers(p, n)
    BY <1>4 DEF DeregisterFound
  <2>2. n \in held
    BY <1>3, <2>1
  <2>3. /\ \A q \in Callers \ {p} : pc'[q] = pc[q] /\ request'[q] = request[q]
        /\ \/ pc'[p] = "notify" /\ request'[p] = request[p]
           \/ pc'[p] = "idle" /\ request'[p] = NoRequest
    BY <1>1, <2>1, NotifyCaller DEF Untouched
  <2>4. answer' = [answer EXCEPT ![p] = Atomic!Ok]
    BY <2>1 DEF Succeeded, Atomic!Ok
  <2>5. Atomic!Effect(p, Atomic!Ok)
    BY <1>1, <2>3, <2>4, SectionEffect DEF Atomic!Effect
  <2> QED BY <1>1, <1>2, <2>1, <2>2, <2>5 DEF Atomic!Deregister
<1>5. CASE DeregisterMissing(p)
  <2>1. /\ \A n \in known : services[n][request[p].id] = NoInstance
        /\ answer' = [answer EXCEPT ![p] = Failed]
        /\ Resume(p)
        /\ UNCHANGED services
    BY <1>5 DEF DeregisterMissing, registry
  <2>2. held = {}
    BY <1>3, <2>1
  <2>3. /\ \A q \in Callers \ {p} : pc'[q] = pc[q] /\ request'[q] = request[q]
        /\ pc'[p] = "idle" /\ request'[p] = NoRequest
    BY <1>1, <2>1, ResumeCaller
  <2>4. answer' = [answer EXCEPT ![p] = Atomic!Error]
    BY <2>1 DEF Failed, Atomic!Error
  <2>5. Atomic!Effect(p, Atomic!Error)
    BY <1>1, <2>3, <2>4, SectionEffect DEF Atomic!Effect
  <2> QED BY <1>1, <1>2, <2>1, <2>2, <2>5 DEF Atomic!Deregister
<1> QED BY <1>4, <1>5

\* What Discover reads under its lock is what Registry promises of one step.
LEMMA HealthyPresent ==
  ASSUME TypeOK, PlacesInv, NEW n \in Names
  PROVE  Healthy(n) = {i \in Atomic!Present : NameOf[i] = n /\ health[i] = "healthy"}
<1>1. ASSUME NEW i \in Instances, NEW d \in Ids, services[n][d] = i
      PROVE  i \in Atomic!Present /\ NameOf[i] = n
  BY <1>1, ConstantsAssumption DEF PlacesInv, Atomic!Present
<1>2. ASSUME NEW i \in Atomic!Present, NameOf[i] = n
      PROVE  i \in Instances /\ \E d \in Ids : services[n][d] = i
  BY <1>2, ConstantsAssumption DEF Atomic!Present
<1>3. \A i \in Healthy(n) : i \in Atomic!Present /\ NameOf[i] = n /\ health[i] = "healthy"
  BY <1>1 DEF Healthy
<1>4. \A i \in Atomic!Present : NameOf[i] = n /\ health[i] = "healthy" => i \in Healthy(n)
  BY <1>2 DEF Healthy
<1> QED BY <1>3, <1>4

LEMMA DiscoverRefines ==
  ASSUME RInv, NEW p \in Callers, Discover(p)
  PROVE  Atomic!Discover(p)
<1> TypeOK /\ PlacesInv
  BY DEF RInv, Inv, TypeInv
<1>1. /\ pc[p] = "discover" /\ request[p].op = "discover" /\ subject[p] = request[p].name
      /\ DiscoverReturn(p)
  BY CallerPlaces
     DEF Discover, SenderDiscover, NotifyReturn, RInv, Inv, LockInv, Reading, CallersInv, CallerInv
<1>2. CallMade[p] = request[p] /\ request[p].name \in Names
  BY <1>1 DEF CallMade, Starting, TypeOK, Requests
<1>3. UNCHANGED <<services, known, health>>
  BY DEF Discover, registry
<1>4. /\ \A q \in Callers \ {p} : pc'[q] = pc[q] /\ request'[q] = request[q]
      /\ pc'[p] = "idle" /\ request'[p] = NoRequest
  BY <1>1, ResumeCaller DEF DiscoverReturn
<1> DEFINE r == IF CallMade[p].name \in known
                  THEN [status |-> "ok",
                        found |-> {i \in Atomic!Present :
                                     NameOf[i] = CallMade[p].name /\ health[i] = "healthy"}]
                  ELSE Atomic!Error
<1>5. answer' = [answer EXCEPT ![p] = r]
  <2>1. Healthy(subject[p]) =
          {i \in Atomic!Present : NameOf[i] = CallMade[p].name /\ health[i] = "healthy"}
    BY <1>1, <1>2, HealthyPresent, Zenon
  <2>2. r = IF subject[p] \in known THEN [status |-> "ok", found |-> Healthy(subject[p])] ELSE Failed
    BY <1>1, <1>2, <2>1, Zenon DEF Failed, Atomic!Error
  <2> HIDE DEF r
  <2> QED BY <1>1, <2>2 DEF DiscoverReturn
<1>6. Atomic!Effect(p, r)
  <2> HIDE DEF r
  <2> QED BY <1>1, <1>4, <1>5, SectionEffect DEF Atomic!Effect
<1> QED BY <1>1, <1>2, <1>3, <1>6 DEF Atomic!Discover

LEMMA WatchRefines ==
  ASSUME RInv, NEW p \in Callers, Watch(p)
  PROVE  Atomic!Watch(p)
<1> TypeOK
  BY DEF RInv, Inv, TypeInv
<1>1. /\ pc[p] = "write" /\ request[p].op = "watch"
      /\ UNCHANGED <<services, known, health>>
  BY DEF Watch, Holds, registry
<1>2. /\ \A q \in Callers \ {p} : pc'[q] = pc[q] /\ request'[q] = request[q]
      /\ pc'[p] = "idle" /\ request'[p] = NoRequest
  BY CallerPlaces DEF Watch, TypeOK
<1>3. answer' = [answer EXCEPT ![p] = Atomic!Ok]
  BY DEF Watch, Succeeded, Atomic!Ok
<1>4. Atomic!Effect(p, Atomic!Ok)
  BY <1>1, <1>2, <1>3, SectionEffect DEF Atomic!Effect
<1>5. CallMade[p].op = "watch"
  BY <1>1 DEF CallMade, Starting
<1> QED BY <1>1, <1>4, <1>5 DEF Atomic!Watch

LEMMA StartReturnRefines ==
  ASSUME RInv, NEW p \in Callers, StartReturn(p)
  PROVE  Atomic!Start(p)
<1> TypeOK
  BY DEF RInv, Inv, TypeInv
<1>1. /\ \A q \in Callers \ {p} : pc'[q] = pc[q] /\ request'[q] = request[q]
      /\ pc[p] = "starting" /\ pc'[p] = "idle" /\ request'[p] = NoRequest
      /\ UNCHANGED <<services, known, health>>
  BY CallerPlaces DEF StartReturn, TypeOK, registry
<1>2. CallMade[p].op = "start" /\ CallPhase[p] = "open"
  BY <1>1 DEF CallMade, CallPhase, Starting
<1>3. CallPhase'[p] = "idle" /\ CallMade'[p] = [op |-> "none"]
  BY <1>1 DEF CallMade, CallPhase, Starting, NoRequest
<1>4. answer' = [answer EXCEPT ![p] = Atomic!Ok]
  BY DEF StartReturn, Succeeded, Atomic!Ok
<1> QED BY <1>1, <1>2, <1>3, <1>4, OneCallerSeen DEF Atomic!Start, Atomic!Effect

\* Asking for the lock, and Start going on to its next instance, are not seen.
LEMMA CallerUnseen ==
  ASSUME RInv, NEW p \in Callers, Lock(p) \/ StartRegister(p)
  PROVE  UNCHANGED Atomic!vars
<1> TypeOK
  BY DEF RInv, Inv, TypeInv
<1>1. /\ \A q \in Callers \ {p} : pc'[q] = pc[q] /\ request'[q] = request[q]
      /\ pc[p] \in {"lock", "starting"} /\ pc'[p] \in {"lock", "write"}
      /\ UNCHANGED <<services, known, health, answer>>
  BY CallerPlaces DEF Lock, StartRegister, TypeOK, registry
<1>2. CallMade'[p] = CallMade[p]
  BY DEF Lock, StartRegister, CallMade, Starting, TypeOK
<1>3. CallPhase'[p] = CallPhase[p]
  BY <1>1 DEF CallPhase
<1>4. \A q \in Callers : CallPhase'[q] = CallPhase[q] /\ CallMade'[q] = CallMade[q]
  BY <1>1, <1>2, <1>3, SeenKept
<1> QED BY <1>1, <1>4, Unseen

LEMMA OthersUnseen ==
  ASSUME \A q \in Callers : Untouched(q),
         UNCHANGED <<services, known, health, answer>>
  PROVE  UNCHANGED Atomic!vars
BY SeenKept, Unseen DEF Untouched

LEMMA CheckRefines ==
  ASSUME RInv, NEW i \in Instances, CheckInstanceHealth(i)
  PROVE  Atomic!Recover
<1>1. TypeOK
  BY DEF RInv, Inv, TypeInv
<1>2. /\ \A q \in Callers : Untouched(q)
      /\ UNCHANGED <<services, known, answer>>
  BY <1>1, OthersStep
<1>3. health' = [health EXCEPT ![i] = "healthy"]
  BY DEF CheckInstanceHealth, SimulateHealthCheck
<1>4. \A q \in Callers : CallPhase'[q] = CallPhase[q] /\ CallMade'[q] = CallMade[q]
  BY <1>2, SeenKept DEF Untouched
<1>5. CallPhase' = CallPhase
  BY <1>4 DEF CallPhase
<1>6. CallMade' = CallMade
  BY <1>4 DEF CallMade
<1> QED BY <1>2, <1>3, <1>5, <1>6 DEF Atomic!Recover

LEMMA InitRefines == Init => Atomic!Init
<1> SUFFICES ASSUME Init PROVE Atomic!Init
  OBVIOUS
<1>1. \A p \in Callers : pc[p] = "idle" /\ request[p] = NoRequest
  BY CallerPlaces DEF Init
<1>2. CallPhase = [p \in Callers |-> "idle"]
  BY <1>1 DEF CallPhase
<1>3. CallMade = [p \in Callers |-> [op |-> "none"]]
  BY <1>1 DEF CallMade, Starting, NoRequest
<1> QED BY <1>2, <1>3 DEF Init, Atomic!Init, Atomic!None, Nothing

LEMMA NextRefines == RInv /\ [Next]_vars => [Atomic!Next]_Atomic!vars
<1> SUFFICES ASSUME RInv, [Next]_vars PROVE Atomic!Next \/ UNCHANGED Atomic!vars
  OBVIOUS
<1> TypeOK
  BY DEF RInv, Inv, TypeInv
<1>1. ASSUME NEW p \in Callers,
             \/ CallRegister(p) \/ CallDeregister(p) \/ CallDiscover(p) \/ CallWatch(p)
             \/ CallStart(p)
      PROVE  Atomic!Next
  BY <1>1, CallerCallRefines DEF Atomic!Next
<1>2. ASSUME NEW p \in Callers, Run(p)
      PROVE  Atomic!Next \/ UNCHANGED Atomic!vars
  <2>1. CASE Lock(p)
    BY <2>1, CallerUnseen
  <2>2. CASE Discover(p)
    BY <2>2, DiscoverRefines DEF Atomic!Next
  <2>3. CASE Register(p)
    BY <2>3, RegisterRefines DEF Atomic!Next
  <2>4. CASE DeregisterFound(p) \/ DeregisterMissing(p)
    BY <2>4, DeregisterRefines DEF Atomic!Next
  <2>5. CASE Watch(p)
    BY <2>5, WatchRefines DEF Atomic!Next
  <2>6. ~CheckInstanceHealth(p)
    BY CallerPlaces DEF CheckInstanceHealth
  <2> QED BY <1>2, <2>1, <2>2, <2>3, <2>4, <2>5, <2>6 DEF Run
<1>3. ASSUME NEW p \in Goroutines \ Callers, Run(p)
      PROVE  Atomic!Next \/ UNCHANGED Atomic!vars
  <2>1. CASE p \in Instances /\ CheckInstanceHealth(p)
    BY <2>1, CheckRefines DEF Atomic!Next
  <2>2. CASE Lock(p) \/ Discover(p)
    <3>1. UNCHANGED health
      BY <2>2 DEF Lock, Discover, registry
    <3> QED BY <1>3, <2>2, <3>1, OthersStep, OthersUnseen
  <2> QED BY <1>3, <2>1, <2>2, RunOthers
<1>4. ASSUME NEW p \in Callers, StartRegister(p) \/ StartReturn(p)
      PROVE  Atomic!Next \/ UNCHANGED Atomic!vars
  BY <1>4, CallerUnseen, StartReturnRefines DEF Atomic!Next
<1>5. ASSUME NEW c \in Chans, Sender(c) \/ Receive(c)
      PROVE  UNCHANGED Atomic!vars
  <2>1. UNCHANGED health
    BY <1>5 DEF Sender, SenderStart, SenderSend, SenderStop, Receive, registry
  <2> QED BY <1>5, <2>1, OthersStep, OthersUnseen
<1>6. CASE PerformHealthChecks \/ Tick \/ LoopStop \/ Stop
  <2>1. UNCHANGED health
    BY <1>6 DEF PerformHealthChecks, Tick, LoopStop, Stop, registry
  <2> QED BY <1>6, <2>1, OthersStep, OthersUnseen
<1>7. CASE UNCHANGED vars
  BY <1>7, OthersUnseen DEF vars, Untouched
<1> QED BY <1>1, <1>2, <1>3, <1>4, <1>5, <1>6, <1>7 DEF Next, Environment

\* The registry is linearizable: with any number of callers, instances, checks
\* and watches, whatever the order of their steps, every call of Register,
\* Deregister, Discover, Watch and Start takes effect in one step between its
\* call and its return, with the answer Registry gives there.
THEOREM Refinement == Spec => Linearizable
<1>1. Init => Atomic!Init
  BY InitRefines
<1>2. RInv /\ [Next]_vars => [Atomic!Next]_Atomic!vars
  BY NextRefines
<1> QED BY <1>1, <1>2, RefinesInv, PTL DEF Spec, Linearizable, Atomic!Spec

============================================================================
