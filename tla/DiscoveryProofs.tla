-------------------------- MODULE DiscoveryProofs --------------------------
(***************************************************************************)
(* Proofs about Discovery, for any names, ids, instances, callers and      *)
(* channels.                                                               *)
(*                                                                         *)
(* TypeOK is inductive together with Outstanding: a check that runs is one *)
(* of those counted.  LockInv says how the lock's words and the places of  *)
(* the goroutines agree; mutual exclusion and the freeze follow from it.   *)
(* HandedOutHealthy is inductive with the types alone.                     *)
(***************************************************************************)
EXTENDS Discovery, TLAPS

\* A goroutine checking an instance is one of the checks outstanding on it.
Outstanding == \A i \in Instances : pc[i] # "idle" => pending[i] > 0

TypeInv == TypeOK /\ Outstanding

\* The places of a goroutine that has asked for RLock.
Reading == {"discover", "read"}

LockInv ==
  /\ \A p \in Goroutines : pc[p] \in {"write", "notify"} => mutex.writer = p
  /\ mutex.writer # Nobody => pc[mutex.writer] \in {"write", "notify"}
  /\ \A p \in Goroutines : pc[p] = "notify" => mutex.readers = {}
  /\ \A p \in mutex.readers : pc[p] \in Reading
  /\ \A p \in mutex.waiting : pc[p] \in Reading \cup {"notify"}
  /\ mutex.waiting # {} => mutex.writer # Nobody
  /\ mutex.readers \cap mutex.waiting = {}

\* Start is called once: while it runs there is no loop yet.
StartInv ==
  \A p \in Callers : Starting(p) =>
    pc[Loop] = "off" /\ \A q \in Callers : Starting(q) => q = p

Inv == TypeInv /\ StartInv /\ LockInv

----------------------------------------------------------------------------
(* Types.                                                                  *)

LEMMA RLockedType ==
  ASSUME TypeOK, NEW p \in Goroutines
  PROVE  RLocked(p) \in [writer : Goroutines \cup {Nobody},
                         readers : SUBSET Goroutines, waiting : SUBSET Goroutines]
BY DEF TypeOK, RLocked

LEMMA UnlockedType ==
  ASSUME TypeOK
  PROVE  Unlocked \in [writer : Goroutines \cup {Nobody},
                       readers : SUBSET Goroutines, waiting : SUBSET Goroutines]
BY DEF TypeOK, Unlocked

\* What Resume leaves behind is well typed and counts the checks right.
LEMMA ResumeType ==
  ASSUME TypeInv, NEW p \in Goroutines, pc[p] # "idle", Resume(p)
  PROVE  /\ pc' \in [Goroutines -> {"off", "idle", "lock", "write", "notify", "discover",
                            "starting", "select", "start", "read", "send", "exited"}]
         /\ request' \in [Callers -> Requests]
         /\ pending' \in [Instances -> Nat]
         /\ Outstanding'
<1> USE DEF TypeInv, TypeOK
<1>1. pc' \in [Goroutines -> {"off", "idle", "lock", "write", "notify", "discover",
                            "starting", "select", "start", "read", "send", "exited"}]
  BY DEF Resume
<1>2. request' \in [Callers -> Requests]
  BY DEF Resume, Requests, NoRequest
<1>3. pending' \in [Instances -> Nat]
  BY DEF Resume, Outstanding
<1>4. ASSUME NEW i \in Instances, pc'[i] # "idle"
      PROVE  pending'[i] > 0
  <2> i \in Goroutines /\ i \notin Callers
    BY ConstantsAssumption DEF Goroutines
  <2>1. CASE i = p
    BY <1>4, <2>1 DEF Resume
  <2>2. CASE i # p
    BY <1>4, <2>2 DEF Resume, Outstanding
  <2> QED BY <2>1, <2>2
<1> QED BY <1>1, <1>2, <1>3, <1>4 DEF Outstanding

LEMMA NotifyType ==
  ASSUME TypeInv, NEW p \in Goroutines, NEW n \in Names, pc[p] # "idle", NotifyWatchers(p, n)
  PROVE  /\ pc' \in [Goroutines -> {"off", "idle", "lock", "write", "notify", "discover",
                            "starting", "select", "start", "read", "send", "exited"}]
         /\ request' \in [Callers -> Requests]
         /\ pending' \in [Instances -> Nat]
         /\ subject' \in [Goroutines -> Names \cup {NoName}]
         /\ mutex' \in [writer : Goroutines \cup {Nobody},
                        readers : SUBSET Goroutines, waiting : SUBSET Goroutines]
         /\ Outstanding'
<1> TypeOK BY DEF TypeInv
<1>1. CASE watchers[n] = {}
  BY <1>1, ResumeType, UnlockedType DEF NotifyWatchers, TypeOK
<1>2. CASE watchers[n] # {}
  <2>1. mutex' = RLocked(p) /\ pc' = [pc EXCEPT ![p] = "notify"]
        /\ subject' = [subject EXCEPT ![p] = n] /\ UNCHANGED <<pending, request>>
    BY <1>2 DEF NotifyWatchers
  <2>2. Outstanding'
    BY <2>1, ConstantsAssumption DEF TypeInv, TypeOK, Outstanding, Goroutines
  <2> QED BY <2>1, <2>2, RLockedType DEF TypeOK
<1> QED BY <1>1, <1>2

\* The places of checks are untouched when callers, the loop or senders move.
LEMMA OtherPlaces ==
  ASSUME TypeInv, NEW p \in Callers \cup Chans \cup {Loop}, NEW l,
         pc' = [pc EXCEPT ![p] = l], UNCHANGED pending
  PROVE  Outstanding'
BY ConstantsAssumption DEF TypeInv, TypeOK, Outstanding, Goroutines

LEMMA SamePlaces ==
  ASSUME TypeInv, UNCHANGED <<pc, pending>>
  PROVE  Outstanding'
BY DEF TypeInv, Outstanding

LEMMA CallType ==
  ASSUME TypeInv, NEW p \in Callers, NEW r \in Requests, Call(p, r),
         health' \in [Instances -> HealthStatus]
  PROVE  TypeInv'
<1>1. p \in Goroutines
  BY DEF Goroutines
<1>2. TypeOK'
  BY <1>1 DEF Call, channels, TypeInv, TypeOK, Nothing
<1>3. Outstanding'
  BY OtherPlaces DEF Call
<1> QED BY <1>2, <1>3 DEF TypeInv

LEMMA EnvironmentType == TypeInv /\ Environment => TypeInv'
<1> SUFFICES ASSUME TypeInv, Environment PROVE TypeInv'
  OBVIOUS
<1> USE DEF TypeInv
<1>1. ASSUME NEW p \in Callers, CallRegister(p)
      PROVE  TypeInv'
  <2>1. PICK i \in Instances, h \in HealthStatus :
          Call(p, [op |-> "register", inst |-> i]) /\ health' = [health EXCEPT ![i] = h]
    BY <1>1 DEF CallRegister
  <2>2. [op |-> "register", inst |-> i] \in Requests
    BY DEF Requests
  <2>3. health' \in [Instances -> HealthStatus]
    BY <2>1 DEF TypeOK
  <2> QED BY <2>1, <2>2, <2>3, CallType
<1>2. ASSUME NEW p \in Callers, CallDeregister(p)
      PROVE  TypeInv'
  <2>1. PICK d \in Ids : Call(p, [op |-> "deregister", id |-> d]) /\ UNCHANGED health
    BY <1>2 DEF CallDeregister
  <2>2. [op |-> "deregister", id |-> d] \in Requests
    BY DEF Requests
  <2> QED BY <2>1, <2>2, CallType DEF TypeOK
<1>3. ASSUME NEW p \in Callers, CallWatch(p)
      PROVE  TypeInv'
  <2>1. PICK n \in Names : Call(p, [op |-> "watch", name |-> n]) /\ UNCHANGED health
    BY <1>3 DEF CallWatch
  <2>2. [op |-> "watch", name |-> n] \in Requests
    BY DEF Requests
  <2> QED BY <2>1, <2>2, CallType DEF TypeOK
<1>4. ASSUME NEW p \in Callers, CallDiscover(p)
      PROVE  TypeInv'
  <2>1. PICK n \in Names :
          /\ pc' = [pc EXCEPT ![p] = "discover"]
          /\ request' = [request EXCEPT ![p] = [op |-> "discover", name |-> n]]
          /\ answer' = [answer EXCEPT ![p] = Nothing]
          /\ mutex' = RLocked(p)
          /\ subject' = [subject EXCEPT ![p] = n]
          /\ UNCHANGED <<registry, channels, stopped, pending, todo>>
    BY <1>4 DEF CallDiscover
  <2>2. p \in Goroutines
    BY DEF Goroutines
  <2>3. [op |-> "discover", name |-> n] \in Requests
    BY DEF Requests
  <2>4. TypeOK'
    BY <2>1, <2>2, <2>3, RLockedType DEF TypeOK, registry, channels, Nothing
  <2> QED BY <2>1, <2>4, OtherPlaces
<1>5. ASSUME NEW p \in Callers, CallStart(p)
      PROVE  TypeInv'
  <2>1. p \in Goroutines
    BY DEF Goroutines
  <2>2. TypeOK'
    BY <1>5, <2>1 DEF CallStart, TypeOK, registry, channels, Nothing
  <2> QED BY <1>5, <2>2, OtherPlaces DEF CallStart
<1>6. ASSUME NEW c \in Chans, Receive(c)
      PROVE  TypeInv'
  <2>1. TypeOK'
    BY <1>6 DEF Receive, TypeOK, registry
  <2> QED BY <1>6, <2>1, SamePlaces DEF Receive
<1>7. CASE Tick
  <2>1. Loop \in Goroutines
    BY DEF Goroutines
  <2>2. pc' \in [Goroutines -> {"off", "idle", "lock", "write", "notify", "discover",
                               "starting", "select", "start", "read", "send", "exited"}]
    BY <1>7, <2>1 DEF Tick, TypeOK
  <2>3. TypeOK'
    BY <1>7, <2>2 DEF Tick, TypeOK, registry, channels
  <2> QED BY <1>7, <2>3, OtherPlaces DEF Tick
<1>8. CASE Stop
  <2>1. TypeOK'
    BY <1>8 DEF Stop, TypeOK, registry, channels
  <2> QED BY <1>8, <2>1, SamePlaces DEF Stop
<1> QED BY <1>1, <1>2, <1>3, <1>4, <1>5, <1>6, <1>7, <1>8 DEF Environment

LEMMA RunType == ASSUME TypeInv, NEW p \in Goroutines, Run(p) PROVE TypeInv'
<1> USE DEF TypeInv
<1>1. CASE Lock(p)
  <2>1. pc' \in [Goroutines -> {"off", "idle", "lock", "write", "notify", "discover",
                               "starting", "select", "start", "read", "send", "exited"}]
    BY <1>1 DEF Lock, TypeOK
  <2>2. mutex' \in [writer : Goroutines \cup {Nobody},
                    readers : SUBSET Goroutines, waiting : SUBSET Goroutines]
    BY <1>1 DEF Lock, TypeOK
  <2>3. TypeOK'
    BY <1>1, <2>1, <2>2 DEF Lock, TypeOK, registry, channels
  <2>4. Outstanding'
    BY <1>1 DEF Lock, TypeOK, Outstanding
  <2> QED BY <2>3, <2>4
<1>2. CASE Discover(p)
  <2>1. Healthy(subject[p]) \subseteq Instances
    BY DEF Healthy
  <2>2. mutex' \in [writer : Goroutines \cup {Nobody},
                    readers : SUBSET Goroutines, waiting : SUBSET Goroutines]
    <3>1. mutex \in [writer : Goroutines \cup {Nobody},
                    readers : SUBSET Goroutines, waiting : SUBSET Goroutines]
      BY DEF TypeOK
    <3>2. \/ mutex' = RUnlocked(p)
          \/ mutex' = [Unlocked EXCEPT !.readers = (mutex.readers \cup mutex.waiting) \ {p}]
      BY <1>2 DEF Discover, DiscoverReturn, SenderDiscover, NotifyReturn
    <3> QED BY <3>1, <3>2 DEF RUnlocked, Unlocked
  <2>3. subject' \in [Goroutines -> Names \cup {NoName}]
    BY <1>2 DEF Discover, TypeOK
  <2>4. CASE DiscoverReturn(p)
    <3>1. pc[p] # "idle" /\ Resume(p)
      BY <2>4 DEF DiscoverReturn
    <3> QED BY <1>2, <2>1, <2>2, <2>3, <2>4, <3>1, ResumeType
            DEF Discover, DiscoverReturn, TypeOK, registry, Failed
  <2>5. CASE SenderDiscover(p)
    <3>1. TypeOK'
      BY <1>2, <2>1, <2>2, <2>3, <2>5 DEF Discover, SenderDiscover, TypeOK, registry
    <3>2. Outstanding'
      BY <2>5 DEF SenderDiscover, TypeOK, Outstanding
    <3> QED BY <3>1, <3>2
  <2>6. CASE NotifyReturn(p)
    <3>1. pc[p] # "idle" /\ Resume(p)
      BY <2>6 DEF NotifyReturn
    <3>2. buffer' \in [Chans -> SUBSET SUBSET Instances]
      BY <2>1, <2>6 DEF NotifyReturn, TypeOK
    <3> QED BY <1>2, <2>2, <2>3, <2>6, <3>1, <3>2, ResumeType
            DEF Discover, NotifyReturn, TypeOK, registry
  <2> QED BY <1>2, <2>4, <2>5, <2>6 DEF Discover
<1>3. CASE Register(p)
  <2> DEFINE i == request[p].inst
             n == NameOf[i]
  <2>1. p \in Callers /\ request[p].op \in {"register", "start"} /\ pc[p] = "write"
    BY <1>3 DEF Register, Holds
  <2>2. i \in Instances
    BY <2>1 DEF TypeOK, Requests
  <2>3. n \in Names /\ IdOf[i] \in Ids
    BY <2>2, ConstantsAssumption
  <2>4. /\ known' = known \cup {n}
        /\ services' = [services EXCEPT ![n][IdOf[i]] = i]
        /\ answer' = [answer EXCEPT ![p] = Succeeded]
        /\ NotifyWatchers(p, n)
        /\ UNCHANGED <<health, channels, stopped, todo>>
    BY <1>3 DEF Register
  <2> HIDE DEF i, n
  <2> QED BY <2>1, <2>2, <2>3, <2>4, NotifyType DEF TypeOK, channels, Succeeded
<1>4. CASE DeregisterFound(p)
  <2>1. PICK n \in known :
          /\ services' = [services EXCEPT ![n][request[p].id] = NoInstance]
          /\ answer' = [answer EXCEPT ![p] = Succeeded]
          /\ NotifyWatchers(p, n)
    BY <1>4 DEF DeregisterFound
  <2>2. pc[p] = "write" /\ UNCHANGED <<known, health, channels, stopped, todo>>
    BY <1>4 DEF DeregisterFound, Holds
  <2> QED BY <2>1, <2>2, NotifyType DEF TypeOK, channels, Succeeded
<1>5. CASE DeregisterMissing(p)
  <2>1. pc[p] # "idle" /\ Resume(p)
    BY <1>5 DEF DeregisterMissing, Holds
  <2> QED BY <1>5, <2>1, ResumeType, UnlockedType
          DEF DeregisterMissing, TypeOK, registry, channels, Failed
<1>6. CASE Watch(p)
  <2>1. p \in Callers /\ request[p].op = "watch"
    BY <1>6 DEF Watch
  <2>2. request[p].name \in Names
    BY <2>1 DEF TypeOK, Requests
  <2>3. TypeOK'
    BY <1>6, <2>1, <2>2, UnlockedType
       DEF Watch, TypeOK, registry, Succeeded, NoRequest, Requests, Goroutines
  <2>4. Outstanding'
    BY <1>6, <2>1, <2>2, ConstantsAssumption DEF Watch, TypeOK, Outstanding, Goroutines
  <2> QED BY <2>3, <2>4
<1>7. CASE CheckInstanceHealth(p)
  <2>1. p \in Instances /\ pc[p] = "write" /\ NameOf[p] \in Names
    BY <1>7, ConstantsAssumption DEF CheckInstanceHealth, Holds
  <2>2. health' \in [Instances -> HealthStatus]
    BY <1>7 DEF CheckInstanceHealth, TypeOK, HealthStatus
  <2>3. UNCHANGED <<services, known, channels, stopped, answer, todo>>
    BY <1>7 DEF CheckInstanceHealth
  <2>4. CASE NotifyWatchers(p, NameOf[p])
    BY <2>1, <2>2, <2>3, <2>4, NotifyType DEF TypeOK, channels
  <2>5. CASE mutex' = Unlocked /\ Resume(p) /\ UNCHANGED subject
    BY <2>1, <2>2, <2>3, <2>5, ResumeType, UnlockedType DEF TypeOK, channels
  <2> QED BY <1>7, <2>4, <2>5 DEF CheckInstanceHealth
<1> QED BY <1>1, <1>2, <1>3, <1>4, <1>5, <1>6, <1>7 DEF Run

LEMMA OtherType ==
  ASSUME TypeInv,
         \/ \E p \in Callers : StartRegister(p) \/ StartReturn(p)
         \/ \E c \in Chans : Sender(c)
         \/ PerformHealthChecks
         \/ LoopStop
  PROVE  TypeInv'
<1> USE DEF TypeInv
<1>1. ASSUME NEW p \in Callers, StartRegister(p)
      PROVE  TypeInv'
  <2>1. p \in Goroutines
    BY DEF Goroutines
  <2>2. PICK i \in todo :
          todo' = todo \ {i} /\ request' = [request EXCEPT ![p] = [op |-> "start", inst |-> i]]
    BY <1>1 DEF StartRegister
  <2>3. [op |-> "start", inst |-> i] \in Requests
    BY ConstantsAssumption DEF TypeOK, Requests
  <2>4. TypeOK'
    BY <1>1, <2>1, <2>2, <2>3 DEF StartRegister, TypeOK, registry, channels
  <2> QED BY <1>1, <2>4, OtherPlaces DEF StartRegister
<1>2. ASSUME NEW p \in Callers, StartReturn(p)
      PROVE  TypeInv'
  <2>1. p \in Goroutines /\ Loop \in Goroutines
    BY DEF Goroutines
  <2>2. TypeOK'
    BY <1>2, <2>1 DEF StartReturn, TypeOK, registry, channels, NoRequest, Requests, Succeeded
  <2>3. Outstanding'
    BY <1>2, ConstantsAssumption DEF StartReturn, TypeOK, Outstanding, Goroutines
  <2> QED BY <2>2, <2>3
<1>3. ASSUME NEW c \in Chans, Sender(c)
      PROVE  TypeInv'
  <2>1. c \in Goroutines
    BY DEF Goroutines
  <2>2. TypeOK'
    <3>1. CASE SenderStart(c)
      BY <2>1, <3>1, RLockedType DEF SenderStart, TypeOK, registry, channels
    <3>2. CASE SenderSend(c)
      BY <2>1, <3>2 DEF SenderSend, TypeOK, registry
    <3>3. CASE SenderStop(c)
      BY <2>1, <3>3 DEF SenderStop, TypeOK, registry
    <3> QED BY <1>3, <3>1, <3>2, <3>3 DEF Sender
  <2> QED BY <1>3, <2>2, OtherPlaces DEF Sender, SenderStart, SenderSend, SenderStop
<1>4. CASE PerformHealthChecks
  <2>1. TypeOK'
    BY <1>4, UnlockedType DEF PerformHealthChecks, TypeOK, registry, channels
  <2>2. Outstanding'
    BY <1>4, ConstantsAssumption
       DEF PerformHealthChecks, Holds, TypeOK, Outstanding, Goroutines
  <2> QED BY <2>1, <2>2
<1>5. CASE LoopStop
  <2>1. Loop \in Goroutines
    BY DEF Goroutines
  <2>2. TypeOK'
    BY <1>5, <2>1 DEF LoopStop, TypeOK, registry, channels
  <2> QED BY <1>5, <2>2, OtherPlaces DEF LoopStop
<1> QED BY <1>1, <1>2, <1>3, <1>4, <1>5

LEMMA InitType == Init => TypeInv
<1> SUFFICES ASSUME Init PROVE TypeInv
  OBVIOUS
<1>1. TypeOK
  BY DEF Init, TypeOK, NoRequest, Requests, Nothing, HealthStatus
<1>2. Outstanding
  BY ConstantsAssumption DEF Init, Outstanding, Goroutines
<1> QED BY <1>1, <1>2 DEF TypeInv

LEMMA NextType == TypeInv /\ [Next]_vars => TypeInv'
<1> SUFFICES ASSUME TypeInv, [Next]_vars PROVE TypeInv'
  OBVIOUS
<1>1. CASE UNCHANGED vars
  BY <1>1 DEF vars, TypeInv, TypeOK, Outstanding
<1>2. CASE Next
  BY <1>2, EnvironmentType, RunType, OtherType DEF Next
<1> QED BY <1>1, <1>2

\* Type correctness, with the count of outstanding checks it needs: a check
\* that ends was one of those counted, so the count never goes below zero.
THEOREM TypeCorrect == Spec => [](TypeOK /\ Outstanding)
BY InitType, NextType, PTL DEF Spec, TypeInv

----------------------------------------------------------------------------
(* Start and the loop.                                                     *)

LEMMA InitStart == Init => StartInv
BY ConstantsAssumption DEF Init, StartInv, Starting, Goroutines, NoRequest

\* Steps of anyone but CallStart and StartReturn.
LEMMA QuietStart ==
  ASSUME StartInv, \A q \in Callers : Starting(q)' => Starting(q),
         pc[Loop] = "off" => pc'[Loop] = "off"
  PROVE  StartInv'
BY DEF StartInv

\* Moving one goroutine elsewhere than into Start, its request at most dropped.
LEMMA MoveStart ==
  ASSUME TypeOK, StartInv, NEW p \in Goroutines, NEW l,
         pc' = [pc EXCEPT ![p] = l],
         p = Loop => pc[p] # "off",
         l = "starting" => request[p].op = "start",
         p \in Callers \/ l # "starting",
         \A q \in Callers : request'[q] = request[q] \/ request'[q].op # "start"
  PROVE  StartInv'
<1>1. \A q \in Callers : q \in Goroutines /\ q # Loop
  BY ConstantsAssumption DEF Goroutines
<1>2. \A q \in Callers : Starting(q)' => Starting(q)
  BY <1>1 DEF Starting, TypeOK
<1>3. pc[Loop] = "off" => pc'[Loop] = "off"
  BY DEF TypeOK, Goroutines
<1> QED BY <1>2, <1>3, QuietStart

LEMMA ResumeStart ==
  ASSUME TypeOK, StartInv, NEW p \in Goroutines, p = Loop => pc[p] # "off", Resume(p)
  PROVE  StartInv'
<1> DEFINE l == IF p \in Callers
                  THEN IF request[p].op = "start" THEN "starting" ELSE "idle"
                ELSE IF p \in Instances /\ pending[p] > 1 THEN "lock"
                ELSE "idle"
<1>1. pc' = [pc EXCEPT ![p] = l] /\ (l = "starting" => p \in Callers /\ request[p].op = "start")
  BY DEF Resume
<1>2. \A q \in Callers : request'[q] = request[q] \/ request'[q].op # "start"
  BY DEF Resume, TypeOK, NoRequest
<1> HIDE DEF l
<1> QED BY <1>1, <1>2, MoveStart

LEMMA NotifyStart ==
  ASSUME TypeOK, StartInv, NEW p \in Goroutines, NEW n, pc[p] = "write", NotifyWatchers(p, n)
  PROVE  StartInv'
BY ResumeStart, MoveStart DEF NotifyWatchers

LEMMA EnvironmentStart == ASSUME TypeOK, StartInv, Environment PROVE StartInv'
<1>1. \A p \in Callers : p \in Goroutines /\ p # Loop
  BY ConstantsAssumption DEF Goroutines
<1>2. ASSUME NEW p \in Callers, NEW r, Call(p, r), r.op # "start"
      PROVE  StartInv'
  BY <1>1, <1>2, MoveStart DEF Call, TypeOK
<1>3. ASSUME NEW p \in Callers, CallRegister(p) \/ CallDeregister(p) \/ CallWatch(p)
      PROVE  StartInv'
  BY <1>2, <1>3 DEF CallRegister, CallDeregister, CallWatch
<1>4. ASSUME NEW p \in Callers, CallDiscover(p)
      PROVE  StartInv'
  <2>1. PICK n \in Names :
          /\ pc' = [pc EXCEPT ![p] = "discover"]
          /\ request' = [request EXCEPT ![p] = [op |-> "discover", name |-> n]]
    BY <1>4 DEF CallDiscover
  <2>2. \A q \in Callers : request'[q] = request[q] \/ request'[q].op # "start"
    BY <2>1 DEF TypeOK
  <2> QED BY <1>1, <2>1, <2>2, MoveStart
<1>5. ASSUME NEW p \in Callers, CallStart(p)
      PROVE  StartInv'
  <2>1. /\ pc[Loop] = "off" /\ pc' = [pc EXCEPT ![p] = "starting"]
        /\ \A q \in Callers : ~Starting(q)
        /\ request' = request
    BY <1>5 DEF CallStart, Starting
  <2> QED BY <1>1, <2>1 DEF StartInv, Starting, TypeOK
<1>6. CASE (\E c \in Chans : Receive(c)) \/ Stop
  BY <1>6 DEF Receive, Stop, StartInv, Starting
<1>7. CASE Tick
  BY <1>7, MoveStart DEF Tick, Goroutines
<1> QED BY <1>3, <1>4, <1>5, <1>6, <1>7 DEF Environment

LEMMA RunStart == ASSUME TypeOK, StartInv, NEW p \in Goroutines, Run(p) PROVE StartInv'
<1>1. CASE Lock(p)
  BY <1>1, MoveStart DEF Lock
<1>2. CASE Discover(p)
  BY <1>2, ResumeStart, MoveStart DEF Discover, DiscoverReturn, SenderDiscover, NotifyReturn
<1>3. CASE Register(p) \/ DeregisterFound(p)
  BY <1>3, NotifyStart DEF Register, DeregisterFound, Holds
<1>4. CASE DeregisterMissing(p)
  BY <1>4, ResumeStart DEF DeregisterMissing, Holds
<1>5. CASE Watch(p)
  <2>1. PICK c \in Chans : pc' = [pc EXCEPT ![p] = "idle", ![c] = "start"]
    BY <1>5 DEF Watch
  <2>2. p \in Callers /\ c \in Goroutines /\ c # Loop /\ p # Loop
    BY <1>5, ConstantsAssumption DEF Watch, Goroutines
  <2>3. \A q \in Callers : Starting(q)' => Starting(q)
    BY <1>5, <2>1, <2>2, ConstantsAssumption
       DEF Watch, Starting, TypeOK, NoRequest, Goroutines
  <2> QED BY <2>1, <2>2, <2>3, QuietStart DEF TypeOK, Goroutines
<1>6. CASE CheckInstanceHealth(p)
  BY <1>6, NotifyStart, ResumeStart DEF CheckInstanceHealth, Holds
<1> QED BY <1>1, <1>2, <1>3, <1>4, <1>5, <1>6 DEF Run

LEMMA OtherStart ==
  ASSUME TypeOK, StartInv,
         \/ \E p \in Callers : StartRegister(p) \/ StartReturn(p)
         \/ \E c \in Chans : Sender(c)
         \/ PerformHealthChecks
         \/ LoopStop
  PROVE  StartInv'
<1>1. /\ \A p \in Callers : p \in Goroutines /\ p # Loop
      /\ \A c \in Chans : c \in Goroutines /\ c \notin Callers /\ c # Loop
      /\ Loop \in Goroutines
  BY ConstantsAssumption DEF Goroutines
<1>2. ASSUME NEW p \in Callers, StartRegister(p)
      PROVE  StartInv'
  BY <1>1, <1>2, QuietStart DEF StartRegister, Starting, TypeOK
<1>3. ASSUME NEW p \in Callers, StartReturn(p)
      PROVE  StartInv'
  <2>1. \A q \in Callers : ~Starting(q)'
    BY <1>1, <1>3 DEF StartReturn, StartInv, Starting, TypeOK, NoRequest
  <2> QED BY <2>1 DEF StartInv
<1>4. ASSUME NEW c \in Chans, Sender(c)
      PROVE  StartInv'
  BY <1>1, <1>4, MoveStart DEF Sender, SenderStart, SenderSend, SenderStop
<1>5. CASE PerformHealthChecks
  <2>1. \A q \in Callers : Starting(q)' => Starting(q)
    BY <1>1, <1>5 DEF PerformHealthChecks, Starting, TypeOK
  <2> QED BY <1>5, <2>1, QuietStart DEF PerformHealthChecks, Holds
<1>6. CASE LoopStop
  BY <1>1, <1>6, MoveStart DEF LoopStop
<1> QED BY <1>2, <1>3, <1>4, <1>5, <1>6

LEMMA NextStart == TypeOK /\ StartInv /\ [Next]_vars => StartInv'
<1> SUFFICES ASSUME TypeOK, StartInv, [Next]_vars PROVE StartInv'
  OBVIOUS
<1>1. CASE UNCHANGED vars
  BY <1>1 DEF vars, StartInv, Starting
<1>2. CASE Next
  BY <1>2, EnvironmentStart, RunStart, OtherStart DEF Next
<1> QED BY <1>1, <1>2

----------------------------------------------------------------------------
(* The lock.                                                               *)

\* Steps that leave the lock alone and move one goroutine between places
\* outside it.
LEMMA AsideLock ==
  ASSUME TypeOK, LockInv, UNCHANGED mutex, NEW p \in Goroutines, NEW l,
         pc' = [pc EXCEPT ![p] = l],
         pc[p] \notin {"write", "notify", "discover", "read"},
         l \notin {"write", "notify"}
  PROVE  LockInv'
BY ConstantsAssumption DEF TypeOK, LockInv, Reading

LEMMA AsideLocks ==
  ASSUME LockInv, UNCHANGED mutex,
         \A q \in Goroutines : \/ pc'[q] = pc[q]
                               \/ /\ pc[q] \notin {"write", "notify", "discover", "read"}
                                  /\ pc'[q] \notin {"write", "notify"},
         mutex.readers \subseteq Goroutines, mutex.waiting \subseteq Goroutines,
         mutex.writer \in Goroutines \cup {Nobody}
  PROVE  LockInv'
BY DEF LockInv, Reading

\* A goroutine asks for RLock from a place outside the lock.
LEMMA AsksToRead ==
  ASSUME TypeOK, LockInv, NEW p \in Goroutines, NEW l \in Reading,
         mutex' = RLocked(p), pc' = [pc EXCEPT ![p] = l],
         pc[p] \notin {"write", "notify", "discover", "read"}
  PROVE  LockInv'
<1>1. CASE mutex.writer = Nobody
  BY <1>1, ConstantsAssumption DEF TypeOK, LockInv, Reading, RLocked
<1>2. CASE mutex.writer # Nobody
  BY <1>2, ConstantsAssumption DEF TypeOK, LockInv, Reading, RLocked
<1> QED BY <1>1, <1>2

\* The writer leaves: the goroutines that waited at RLock come in.
LEMMA WriterLeaves ==
  ASSUME TypeOK, LockInv, NEW p \in Goroutines, Holds(p), mutex' = Unlocked,
         pc'[p] \notin {"write", "notify"},
         \A q \in Goroutines \ {p} : pc'[q] = pc[q] \/ (pc[q] \notin Reading /\ pc'[q] \notin {"write", "notify"})
  PROVE  LockInv'
<1>1. mutex.writer = p /\ mutex' = [writer |-> Nobody, readers |-> mutex.waiting, waiting |-> {}]
  BY DEF Holds, LockInv, Unlocked
<1>2. \A q \in Goroutines : pc'[q] \notin {"write", "notify"}
  BY <1>1 DEF LockInv
<1>3. \A q \in mutex.waiting : q # p /\ pc[q] \in Reading
  BY <1>1, ConstantsAssumption DEF LockInv, Holds, Reading, TypeOK
<1>4. \A q \in mutex.waiting : pc'[q] \in Reading
  BY <1>3 DEF TypeOK
<1> QED BY <1>1, <1>2, <1>4 DEF LockInv

LEMMA NotifyLock ==
  ASSUME TypeOK, LockInv, NEW p \in Goroutines, NEW n, Holds(p), NotifyWatchers(p, n)
  PROVE  LockInv'
<1>1. CASE watchers[n] = {}
  <2>1. mutex' = Unlocked /\ Resume(p)
    BY <1>1 DEF NotifyWatchers
  <2> QED BY <2>1, WriterLeaves DEF Resume, TypeOK
<1>2. CASE watchers[n] # {}
  <2>1. mutex' = RLocked(p) /\ pc' = [pc EXCEPT ![p] = "notify"]
    BY <1>2 DEF NotifyWatchers
  <2>2. mutex.writer = p /\ p # Nobody
    BY ConstantsAssumption DEF LockInv, Holds
  <2> QED BY <2>1, <2>2 DEF RLocked, LockInv, Holds, TypeOK, Reading
<1> QED BY <1>1, <1>2

LEMMA InitLock == Init => LockInv
BY DEF Init, LockInv, Goroutines

LEMMA EnvironmentLock == ASSUME TypeOK, LockInv, Environment PROVE LockInv'
<1>1. \A p \in Callers : p \in Goroutines
  BY DEF Goroutines
<1>2. ASSUME NEW p \in Callers,
             CallRegister(p) \/ CallDeregister(p) \/ CallWatch(p) \/ CallStart(p)
      PROVE  LockInv'
  BY <1>1, <1>2, AsideLock
     DEF CallRegister, CallDeregister, CallWatch, CallStart, Call
<1>3. ASSUME NEW p \in Callers, CallDiscover(p)
      PROVE  LockInv'
  BY <1>1, <1>3, AsksToRead DEF CallDiscover, Reading
<1>4. CASE (\E c \in Chans : Receive(c)) \/ Stop
  BY <1>4 DEF Receive, Stop, LockInv
<1>5. CASE Tick
  BY <1>5, AsideLock DEF Tick, Goroutines
<1> QED BY <1>2, <1>3, <1>4, <1>5 DEF Environment

LEMMA RunLock == ASSUME TypeOK, LockInv, NEW p \in Goroutines, Run(p) PROVE LockInv'
<1>1. CASE Lock(p)
  BY <1>1, ConstantsAssumption DEF Lock, LockInv, TypeOK, Reading
<1>2. CASE Discover(p)
  <2>1. p \in mutex.readers /\ pc[p] \in Reading
    BY <1>2 DEF Discover, LockInv
  <2>2. mutex' = RUnlocked(p) /\ \E l : pc' = [pc EXCEPT ![p] = l] /\ l \notin {"write", "notify"}
    BY <1>2, <2>1 DEF Discover, DiscoverReturn, SenderDiscover, NotifyReturn, Resume, Reading
  <2> QED BY <2>1, <2>2, ConstantsAssumption DEF LockInv, RUnlocked, TypeOK, Reading
<1>3. CASE Register(p)
  BY <1>3, NotifyLock DEF Register
<1>4. CASE DeregisterFound(p)
  BY <1>4, NotifyLock DEF DeregisterFound
<1>5. CASE DeregisterMissing(p)
  BY <1>5, WriterLeaves DEF DeregisterMissing, Resume, TypeOK
<1>6. CASE Watch(p)
  BY <1>6, WriterLeaves DEF Watch, TypeOK, Reading
<1>7. CASE CheckInstanceHealth(p)
  <2>1. Holds(p)
    BY <1>7 DEF CheckInstanceHealth
  <2>2. CASE NotifyWatchers(p, NameOf[p])
    BY <2>1, <2>2, NotifyLock
  <2>3. CASE mutex' = Unlocked /\ Resume(p)
    BY <2>1, <2>3, WriterLeaves DEF Resume, TypeOK
  <2> QED BY <1>7, <2>2, <2>3 DEF CheckInstanceHealth
<1> QED BY <1>1, <1>2, <1>3, <1>4, <1>5, <1>6, <1>7 DEF Run

LEMMA OtherLock ==
  ASSUME TypeOK, LockInv, StartInv,
         \/ \E p \in Callers : StartRegister(p) \/ StartReturn(p)
         \/ \E c \in Chans : Sender(c)
         \/ PerformHealthChecks
         \/ LoopStop
  PROVE  LockInv'
<1>1. \A p \in Callers \cup Chans \cup {Loop} : p \in Goroutines
  BY DEF Goroutines
<1>2. ASSUME NEW p \in Callers, StartRegister(p)
      PROVE  LockInv'
  <2>1. p \in Goroutines /\ pc[p] = "starting" /\ pc' = [pc EXCEPT ![p] = "lock"]
        /\ UNCHANGED mutex
    BY <1>1, <1>2 DEF StartRegister
  <2> QED BY <2>1, AsideLock
<1>3. ASSUME NEW p \in Callers, StartReturn(p)
      PROVE  LockInv'
  <2>1. p \in Goroutines /\ Loop \in Goroutines /\ pc[p] = "starting"
        /\ pc' = [pc EXCEPT ![p] = "idle", ![Loop] = "select"] /\ UNCHANGED mutex
    BY <1>1, <1>3 DEF StartReturn
  <2>2. pc[Loop] = "off"
    BY <1>3 DEF StartReturn, StartInv, Starting
  <2>3. \A q \in Goroutines : \/ pc'[q] = pc[q]
                              \/ /\ pc[q] \notin {"write", "notify", "discover", "read"}
                                 /\ pc'[q] \notin {"write", "notify"}
    BY <2>1, <2>2 DEF TypeOK
  <2> QED BY <2>1, <2>3, AsideLocks DEF TypeOK
<1>4. ASSUME NEW c \in Chans, Sender(c)
      PROVE  LockInv'
  <2>1. CASE SenderStart(c)
    BY <1>1, <2>1, AsksToRead DEF SenderStart, Reading
  <2>2. CASE SenderSend(c) \/ SenderStop(c)
    BY <1>1, <2>2, AsideLock DEF SenderSend, SenderStop
  <2> QED BY <1>4, <2>1, <2>2 DEF Sender
<1>5. CASE PerformHealthChecks
  <2>1. Loop \in Goroutines /\ Holds(Loop) /\ mutex' = Unlocked
    BY <1>1, <1>5 DEF PerformHealthChecks
  <2> QED BY <1>5, <2>1, WriterLeaves DEF PerformHealthChecks, Reading
<1>6. CASE LoopStop
  BY <1>1, <1>6, AsideLock DEF LoopStop
<1> QED BY <1>2, <1>3, <1>4, <1>5, <1>6

LEMMA NextLock == TypeOK /\ StartInv /\ LockInv /\ [Next]_vars => LockInv'
<1> SUFFICES ASSUME TypeOK, StartInv, LockInv, [Next]_vars PROVE LockInv'
  OBVIOUS
<1>1. CASE UNCHANGED vars
  BY <1>1 DEF vars, LockInv
<1>2. CASE Next
  BY <1>2, EnvironmentLock, RunLock, OtherLock DEF Next
<1> QED BY <1>1, <1>2

THEOREM Invariance == Spec => []Inv
<1>1. Init => Inv
  BY InitType, InitStart, InitLock DEF Inv
<1>2. Inv /\ [Next]_vars => Inv'
  BY NextType, NextStart, NextLock DEF Inv, TypeInv
<1> QED BY <1>1, <1>2, PTL DEF Spec

LEMMA LockExcludes == Inv => Exclusive
<1> SUFFICES ASSUME Inv,
                    NEW p \in Goroutines, NEW q \in Goroutines,
                    Inside(p), Inside(q), p # q
             PROVE  p \in mutex.readers /\ q \in mutex.readers
  BY DEF Exclusive, Inv, LockInv
<1> QED BY DEF Inv, LockInv, Inside, Holds

\* The registry's maps are never read by one goroutine while another writes
\* them, and never written by two, whatever mixture of calls, checks, watches
\* and stops is under way.
THEOREM MutualExclusion == Spec => []Exclusive
BY Invariance, LockExcludes, PTL

----------------------------------------------------------------------------
(* A notification of a watched service freezes the registry.               *)

LEMMA FrozenStep ==
  ASSUME Inv, [Next]_vars, NEW r \in Goroutines, pc[r] = "notify"
  PROVE  /\ UNCHANGED <<services, known, watchers>>
         /\ \A i \in Registered : health'[i] = health[i]
         /\ \A p \in Goroutines :
              /\ pc[p] = "notify" => pc'[p] = "notify"
              /\ pc[p] \in {"discover", "lock", "read"} => pc'[p] = pc[p]
<1> DEFINE Stays == {"notify", "discover", "lock", "read"}
           Same == /\ UNCHANGED <<services, known, watchers>>
                   /\ \A i \in Registered : health'[i] = health[i]
                   /\ \A p \in Goroutines : pc[p] \in Stays => pc'[p] = pc[p]
<1> SUFFICES Same
  OBVIOUS
<1>1. /\ mutex.writer # Nobody
      /\ mutex.readers = {}
      /\ \A p \in Goroutines : ~Holds(p)
  BY ConstantsAssumption DEF Inv, LockInv, Holds
<1>2. /\ \A p \in Callers \cup Chans \cup {Loop} : p \in Goroutines
      /\ TypeOK
  BY DEF Goroutines, Inv, TypeInv
<1>3. CASE UNCHANGED vars
  BY <1>3 DEF vars
<1>4. ASSUME NEW p \in Goroutines, Run(p)
      PROVE  FALSE
  BY <1>1, <1>4 DEF Run, Lock, Discover, Register, DeregisterFound, DeregisterMissing,
                    Watch, CheckInstanceHealth
<1>5. CASE PerformHealthChecks
  BY <1>1, <1>2, <1>5 DEF PerformHealthChecks
<1>6. ASSUME NEW p \in Callers, CallRegister(p)
      PROVE  Same
  <2>1. PICK i \in Instances, h \in HealthStatus :
          Fresh(i) /\ Call(p, [op |-> "register", inst |-> i])
                   /\ health' = [health EXCEPT ![i] = h]
    BY <1>6 DEF CallRegister
  <2>2. \A j \in Registered : health'[j] = health[j]
    BY <2>1 DEF Fresh
  <2>3. pc[p] = "idle" /\ pc' = [pc EXCEPT ![p] = "lock"]
        /\ UNCHANGED <<services, known, watchers>>
    BY <2>1 DEF Call, channels
  <2> QED BY <1>2, <2>2, <2>3 DEF TypeOK
<1>7. ASSUME NEW p \in Callers,
             \/ CallDeregister(p) \/ CallWatch(p) \/ CallDiscover(p) \/ CallStart(p)
             \/ StartRegister(p)
      PROVE  Same
  <2>1. UNCHANGED <<services, known, watchers, health>>
    BY <1>7 DEF CallDeregister, CallWatch, CallDiscover, CallStart, StartRegister, Call,
                registry, channels
  <2>2. pc[p] \in {"idle", "starting"} /\ \E l : pc' = [pc EXCEPT ![p] = l]
    BY <1>7 DEF CallDeregister, CallWatch, CallDiscover, CallStart, StartRegister, Call
  <2> QED BY <1>2, <2>1, <2>2 DEF TypeOK
<1>8. ASSUME NEW p \in Callers, StartReturn(p)
      PROVE  Same
  <2>1. pc[Loop] = "off"
    BY <1>8 DEF StartReturn, Inv, StartInv, Starting
  <2> QED BY <1>2, <1>8, <2>1 DEF StartReturn, TypeOK, registry, channels
<1>9. ASSUME NEW c \in Chans, Sender(c)
      PROVE  Same
  BY <1>2, <1>9 DEF Sender, SenderStart, SenderSend, SenderStop, TypeOK, registry, channels
<1>10. CASE Tick \/ LoopStop
  BY <1>2, <1>10 DEF Tick, LoopStop, TypeOK, registry, channels
<1>11. CASE (\E c \in Chans : Receive(c)) \/ Stop
  BY <1>11 DEF Receive, Stop, registry, channels
<1> QED BY <1>3, <1>4, <1>5, <1>6, <1>7, <1>8, <1>9, <1>10, <1>11 DEF Next, Environment

\* However many goroutines there are and whatever they do, the first change to
\* a watched service stops the registry for good.
THEOREM NotifyIsFinal == Spec => NotifyFreezes
<1>1. Inv /\ [Next]_vars =>
        [Notifying =>
           /\ UNCHANGED <<services, known, watchers>>
           /\ \A i \in Registered : health'[i] = health[i]
           /\ \A p \in Goroutines :
                /\ pc[p] = "notify" => pc'[p] = "notify"
                /\ pc[p] \in {"discover", "lock", "read"} => pc'[p] = pc[p]]_vars
  BY FrozenStep DEF Notifying
<1> QED BY <1>1, Invariance, PTL DEF Spec, NotifyFreezes

----------------------------------------------------------------------------
(* What Discover handed out stays healthy.                                 *)

\* No health falls, and a caller, a sender or a channel holds what it held, or
\* else instances that are healthy now.
LEMMA HandedKept ==
  ASSUME TypeOK, HandedOutHealthy,
         \A i \in Instances : health[i] = "healthy" => health'[i] = "healthy",
         \A q \in Callers : \/ answer'[q].found = answer[q].found
                            \/ \A i \in answer'[q].found : health'[i] = "healthy",
         \A c \in Chans : \/ snapshot'[c] = snapshot[c]
                          \/ \A i \in snapshot'[c] : health'[i] = "healthy",
         \A c \in Chans : \A b \in buffer'[c] :
           b \in buffer[c] \/ \A i \in b : health'[i] = "healthy"
  PROVE  HandedOutHealthy'
<1>1. /\ \A q \in Callers : answer[q].found \subseteq Instances
      /\ \A c \in Chans : snapshot[c] \subseteq Instances
      /\ \A c \in Chans : \A b \in buffer[c] : b \subseteq Instances
  BY DEF TypeOK
<1>2. \A q \in Callers : \A i \in answer'[q].found : health'[i] = "healthy"
  BY <1>1 DEF HandedOutHealthy
<1>3. \A c \in Chans : \A i \in snapshot'[c] : health'[i] = "healthy"
  BY <1>1 DEF HandedOutHealthy
<1>4. \A c \in Chans : \A b \in buffer'[c] : \A i \in b : health'[i] = "healthy"
  BY <1>1 DEF HandedOutHealthy
<1> QED BY <1>2, <1>3, <1>4 DEF HandedOutHealthy

LEMMA DiscoverHanded ==
  ASSUME TypeOK, HandedOutHealthy, NEW p \in Goroutines, Discover(p)
  PROVE  HandedOutHealthy'
<1>1. health' = health /\ \A n \in Names \cup {NoName} : \A i \in Healthy(n) : health'[i] = "healthy"
  BY DEF Discover, registry, Healthy
<1>2. subject[p] \in Names \cup {NoName}
  BY DEF TypeOK
<1>3. CASE DiscoverReturn(p)
  <2>1. \A q \in Callers : \/ answer'[q].found = answer[q].found
                           \/ \A i \in answer'[q].found : health'[i] = "healthy"
    BY <1>1, <1>2, <1>3 DEF DiscoverReturn, TypeOK, Failed
  <2> QED BY <1>1, <1>3, <2>1, HandedKept DEF DiscoverReturn
<1>4. CASE SenderDiscover(p)
  <2>1. \A c \in Chans : \/ snapshot'[c] = snapshot[c]
                         \/ \A i \in snapshot'[c] : health'[i] = "healthy"
    BY <1>1, <1>2, <1>4 DEF SenderDiscover, TypeOK
  <2> QED BY <1>1, <1>4, <2>1, HandedKept DEF SenderDiscover
<1>5. CASE NotifyReturn(p)
  <2>1. \A c \in Chans : \A b \in buffer'[c] :
          b \in buffer[c] \/ \A i \in b : health'[i] = "healthy"
    BY <1>1, <1>2, <1>5 DEF NotifyReturn, TypeOK
  <2> QED BY <1>1, <1>5, <2>1, HandedKept DEF NotifyReturn
<1> QED BY <1>3, <1>4, <1>5 DEF Discover

LEMMA CallHanded ==
  ASSUME TypeOK, HandedOutHealthy, NEW p \in Callers,
         answer' = [answer EXCEPT ![p] = Nothing],
         UNCHANGED <<health, snapshot, buffer>>
  PROVE  HandedOutHealthy'
<1>1. \A q \in Callers : \/ answer'[q].found = answer[q].found
                         \/ \A i \in answer'[q].found : health'[i] = "healthy"
  BY DEF TypeOK, Nothing
<1> QED BY <1>1, HandedKept

LEMMA RegisterHanded ==
  ASSUME TypeOK, HandedOutHealthy, NEW p \in Callers, CallRegister(p)
  PROVE  HandedOutHealthy'
<1>1. PICK i \in Instances, h \in HealthStatus :
        Fresh(i) /\ Call(p, [op |-> "register", inst |-> i]) /\ health' = [health EXCEPT ![i] = h]
  BY DEF CallRegister
<1>2. \A j \in Instances : j # i => health'[j] = health[j]
  BY <1>1 DEF TypeOK
<1>3. answer' = [answer EXCEPT ![p] = Nothing] /\ UNCHANGED <<snapshot, buffer>>
  BY <1>1 DEF Call, channels
<1>4. \A q \in Callers : \A j \in answer'[q].found : j \in answer[q].found
  BY <1>3 DEF TypeOK, Nothing
<1>5. \A q \in Callers : \A j \in answer[q].found : j # i
  BY <1>1 DEF Fresh
<1>6. \A c \in Chans : i \notin snapshot[c] /\ \A b \in buffer[c] : i \notin b
  BY <1>1 DEF Fresh
<1>7. \A q \in Callers : \A j \in answer'[q].found : health'[j] = "healthy"
  BY <1>2, <1>4, <1>5 DEF HandedOutHealthy, TypeOK
<1>8. \A c \in Chans : /\ \A j \in snapshot'[c] : health'[j] = "healthy"
                       /\ \A b \in buffer'[c] : \A j \in b : health'[j] = "healthy"
  BY <1>2, <1>3, <1>6 DEF HandedOutHealthy, TypeOK
<1> QED BY <1>7, <1>8 DEF HandedOutHealthy

LEMMA SenderHanded ==
  ASSUME TypeOK, HandedOutHealthy, NEW c \in Chans, Sender(c) \/ Receive(c)
  PROVE  HandedOutHealthy'
<1>1. UNCHANGED <<health, answer>>
  BY DEF Sender, SenderStart, SenderSend, SenderStop, Receive, registry
<1>2. \A d \in Chans : /\ snapshot'[d] = snapshot[d] \/ snapshot'[d] = {}
                       /\ \/ buffer'[d] = buffer[d] \/ buffer'[d] = {}
                          \/ buffer'[d] = {snapshot[d]}
  BY DEF Sender, SenderStart, SenderSend, SenderStop, Receive, channels, TypeOK
<1>3. \A d \in Chans : \A b \in buffer'[d] :
        b \in buffer[d] \/ \A i \in b : health'[i] = "healthy"
  BY <1>1, <1>2 DEF HandedOutHealthy
<1> QED BY <1>1, <1>2, <1>3, HandedKept

LEMMA SectionHanded ==
  ASSUME TypeOK, HandedOutHealthy, NEW p \in Goroutines,
         \/ Lock(p) \/ Register(p) \/ DeregisterFound(p) \/ DeregisterMissing(p) \/ Watch(p)
         \/ CheckInstanceHealth(p)
  PROVE  HandedOutHealthy'
<1>1. UNCHANGED <<snapshot, buffer>>
  BY DEF Lock, Register, DeregisterFound, DeregisterMissing, Watch, CheckInstanceHealth, channels
<1>2. \A q \in Callers : answer'[q].found = answer[q].found \/ answer'[q].found = {}
  BY DEF Lock, Register, DeregisterFound, DeregisterMissing, Watch, CheckInstanceHealth,
         TypeOK, Succeeded, Failed
<1>3. \A i \in Instances : health[i] = "healthy" => health'[i] = "healthy"
  <2>1. CASE CheckInstanceHealth(p)
    BY <2>1 DEF CheckInstanceHealth, SimulateHealthCheck, TypeOK
  <2>2. CASE ~CheckInstanceHealth(p)
    BY <2>2 DEF Lock, Register, DeregisterFound, DeregisterMissing, Watch, registry
  <2> QED BY <2>1, <2>2
<1> QED BY <1>1, <1>2, <1>3, HandedKept

LEMMA NextHanded == TypeOK /\ HandedOutHealthy /\ [Next]_vars => HandedOutHealthy'
<1> SUFFICES ASSUME TypeOK, HandedOutHealthy, [Next]_vars PROVE HandedOutHealthy'
  OBVIOUS
<1>1. CASE UNCHANGED vars
  BY <1>1 DEF vars, HandedOutHealthy
<1>2. ASSUME NEW p \in Goroutines, Run(p)
      PROVE  HandedOutHealthy'
  BY <1>2, DiscoverHanded, SectionHanded DEF Run
<1>3. ASSUME NEW p \in Callers, CallRegister(p)
      PROVE  HandedOutHealthy'
  BY <1>3, RegisterHanded
<1>4. ASSUME NEW p \in Callers,
             CallDeregister(p) \/ CallWatch(p) \/ CallDiscover(p) \/ CallStart(p)
      PROVE  HandedOutHealthy'
  BY <1>4, CallHanded
     DEF CallDeregister, CallWatch, CallDiscover, CallStart, Call, registry, channels
<1>5. ASSUME NEW p \in Callers, StartRegister(p)
      PROVE  HandedOutHealthy'
  BY <1>5 DEF StartRegister, registry, channels, HandedOutHealthy
<1>6. ASSUME NEW p \in Callers, StartReturn(p)
      PROVE  HandedOutHealthy'
  <2>1. \A q \in Callers : answer'[q].found = answer[q].found \/ answer'[q].found = {}
    BY <1>6 DEF StartReturn, TypeOK, Succeeded
  <2> QED BY <1>6, <2>1, HandedKept DEF StartReturn, registry, channels
<1>7. ASSUME NEW c \in Chans, Sender(c) \/ Receive(c)
      PROVE  HandedOutHealthy'
  BY <1>7, SenderHanded
<1>8. CASE PerformHealthChecks \/ LoopStop \/ Tick \/ Stop
  BY <1>8 DEF PerformHealthChecks, LoopStop, Tick, Stop, registry, channels, HandedOutHealthy
<1> QED BY <1>1, <1>2, <1>3, <1>4, <1>5, <1>6, <1>7, <1>8 DEF Next, Environment

\* Whoever holds an instance Discover returned may send to it at any later
\* time: no check marks it unhealthy, however the calls interleave.
THEOREM HandedOutStaysHealthy == Spec => []HandedOutHealthy
<1>1. Init => HandedOutHealthy
  BY DEF Init, HandedOutHealthy, Nothing
<1>2. TypeOK /\ HandedOutHealthy /\ [Next]_vars => HandedOutHealthy'
  BY NextHanded
<1>3. Spec => []TypeOK
  BY TypeCorrect, PTL
<1> QED BY <1>1, <1>2, <1>3, PTL DEF Spec

============================================================================
