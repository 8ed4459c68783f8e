----------------------------- MODULE Discovery -----------------------------
(***************************************************************************)
(* internal/service/discovery/discovery.go: InMemoryDiscovery, the registry *)
(* the gateway looks its upstream services up in.                          *)
(*                                                                         *)
(* Every operation is a goroutine of its own.  A goroutine asks for the    *)
(* RWMutex, is granted it, runs its critical section in one step and       *)
(* releases the lock; between two steps any other goroutine may run.  The  *)
(* goroutines are the callers (HTTP handlers, tests), the health-check     *)
(* loop, the checks that loop spawns, and the sender each Watch spawns.    *)
(* An instance stands for one *ServiceInstance: two registrations under    *)
(* the same name and id are two instances, so that a goroutine holding the *)
(* older pointer is told apart from the registry's newer entry.            *)
(*                                                                         *)
(* Left out: address, port, tags, meta, LastSeen (nothing reads them back),*)
(* logging, and the health URL, which the check never requests.            *)
(***************************************************************************)
EXTENDS Naturals, FiniteSets

CONSTANTS
  Names,       \* service names
  Ids,         \* instance ids
  Instances,   \* *ServiceInstance pointers, also the goroutine checking each
  NameOf,      \* ServiceInstance.Name, fixed when the pointer is made
  IdOf,        \* ServiceInstance.ID
  Configured,  \* the instances Start makes from config.Discovery.Services
  Callers,     \* goroutines that call the interface
  Loop,        \* the goroutine of healthCheckLoop
  Chans,       \* channels made by Watch, also the goroutine sending on each
  Nobody,      \* no goroutine
  NoInstance,  \* a missing key of an inner map
  NoName,      \* no name
  MaxPending   \* bound: checks outstanding on one instance

Goroutines == Callers \cup Instances \cup Chans \cup {Loop}

ASSUME ConstantsAssumption ==
  /\ NameOf \in [Instances -> Names]
  /\ IdOf \in [Instances -> Ids]
  /\ Configured \subseteq Instances
  /\ NoInstance \notin Instances
  /\ NoName \notin Names
  /\ Nobody \notin Goroutines
  /\ Loop \notin Callers \cup Instances \cup Chans
  /\ Callers \cap Instances = {}
  /\ Callers \cap Chans = {}
  /\ Instances \cap Chans = {}
  /\ MaxPending \in Nat \ {0}

VARIABLES
  services,  \* services[name][id], NoInstance where the inner map has no key
  known,     \* the keys of the outer map: names that ever had an instance
  health,    \* ServiceInstance.Health, by pointer
  watchers,  \* the channels registered for a name
  buffer,    \* the values in each channel, of capacity one
  snapshot,  \* what the sender of a channel is about to send
  stopped,   \* stopCh is closed
  mutex,     \* the RWMutex
  pc,        \* where each goroutine is
  request,   \* the call a caller is making
  answer,    \* what the last call of a caller returned
  subject,   \* the name a goroutine inside Discover asks for
  pending,   \* the checks outstanding on an instance
  todo       \* the configured instances Start has still to register

registry == <<services, known, health>>
channels == <<watchers, buffer, snapshot>>
vars == <<services, known, health, watchers, buffer, snapshot, stopped, mutex,
          pc, request, answer, subject, pending, todo>>

\* "unhealthy" stands for "critical" and any other text as well: the code asks
\* only whether a status is "healthy".
HealthStatus == {"healthy", "unhealthy"}

Requests ==
  [op : {"none"}]
    \cup [op : {"register", "start"}, inst : Instances]
    \cup [op : {"deregister"}, id : Ids]
    \cup [op : {"discover", "watch"}, name : Names]

NoRequest == [op |-> "none"]
Nothing == [status |-> "none", found |-> {}]
Succeeded == [status |-> "ok", found |-> {}]
Failed == [status |-> "error", found |-> {}]

(***************************************************************************)
(* sync.RWMutex.  Lock takes the writer's place first, which makes every   *)
(* later RLock wait, and then waits for the readers that are inside.       *)
(* Unlock admits all the readers that waited before another writer may     *)
(* enter.  The lock knows nothing of goroutines: an RLock made by the      *)
(* goroutine that holds Lock waits like any other.                         *)
(***************************************************************************)
Unlocked == [writer |-> Nobody, readers |-> mutex.waiting, waiting |-> {}]

RLocked(p) ==
  IF mutex.writer = Nobody THEN [mutex EXCEPT !.readers = @ \cup {p}]
                           ELSE [mutex EXCEPT !.waiting = @ \cup {p}]

RUnlocked(p) == [mutex EXCEPT !.readers = @ \ {p}]

\* p holds Lock and every reader has left.
Holds(p) == pc[p] = "write" /\ mutex.readers = {}

Lock(p) ==
  /\ pc[p] = "lock"
  /\ mutex.writer = Nobody
  /\ mutex' = [mutex EXCEPT !.writer = p]
  /\ pc' = [pc EXCEPT ![p] = "write"]
  /\ UNCHANGED <<registry, channels, stopped, request, answer, subject, pending, todo>>

----------------------------------------------------------------------------
(* What the operations share.                                              *)

\* Fault: Discover returns every instance of the name.
HealthyUnfiltered(n) == {i \in Instances : \E d \in Ids : services[n][d] = i}

\* Fault: the result is made with the length of the map before it is appended
\* to, so it begins with nil pointers.
HealthyPadded(n) ==
  {i \in HealthyUnfiltered(n) : health[i] = "healthy"} \cup {NoInstance}

Healthy(n) ==
  {i \in Instances : /\ \E d \in Ids : services[n][d] = i
                     /\ health[i] = "healthy"}

Registered == {i \in Instances : services[NameOf[i]][IdOf[i]] = i}

\* The goroutine p is through with its call of a locking function: a caller
\* returns or, inside Start, goes on to the next instance; a check ends, and
\* another one outstanding on the same instance takes its place.
Resume(p) ==
  /\ pc' = [pc EXCEPT ![p] =
       IF p \in Callers
         THEN IF request[p].op = "start" THEN "starting" ELSE "idle"
       ELSE IF p \in Instances /\ pending[p] > 1 THEN "lock"
       ELSE "idle"]
  /\ pending' = IF p \in Instances THEN [pending EXCEPT ![p] = @ - 1] ELSE pending
  /\ request' = IF p \in Callers /\ request[p].op # "start"
                  THEN [request EXCEPT ![p] = NoRequest] ELSE request

\* Fault: notifyWatchers runs after Unlock instead of before.
NotifyAfterUnlock(p, n) ==
  IF watchers[n] = {}
    THEN /\ mutex' = Unlocked
         /\ Resume(p)
         /\ UNCHANGED subject
    ELSE /\ mutex' = [Unlocked EXCEPT !.readers = @ \cup {p}]
         /\ pc' = [pc EXCEPT ![p] = "notify"]
         /\ subject' = [subject EXCEPT ![p] = n]
         /\ UNCHANGED <<pending, request>>

\* notifyWatchers(n) and the deferred Unlock of the section p is in.  With a
\* watcher it calls Discover, so RLock, while p holds Lock.
NotifyWatchers(p, n) ==
  IF watchers[n] = {}
    THEN /\ mutex' = Unlocked
         /\ Resume(p)
         /\ UNCHANGED subject
    ELSE /\ mutex' = RLocked(p)
         /\ pc' = [pc EXCEPT ![p] = "notify"]
         /\ subject' = [subject EXCEPT ![p] = n]
         /\ UNCHANGED <<pending, request>>

----------------------------------------------------------------------------
(* A caller makes a call.                                                  *)

\* A POST body is bound to a new pointer: i is one that nothing refers to.
Fresh(i) ==
  /\ i \notin Configured \cup Registered
  /\ pending[i] = 0
  /\ \A p \in Callers : /\ i \notin answer[p].found
                        /\ request[p].op = "register" => request[p].inst # i
  /\ \A c \in Chans : i \notin snapshot[c] /\ \A b \in buffer[c] : i \notin b

Call(p, r) ==
  /\ pc[p] = "idle"
  /\ pc' = [pc EXCEPT ![p] = "lock"]
  /\ request' = [request EXCEPT ![p] = r]
  /\ answer' = [answer EXCEPT ![p] = Nothing]
  /\ UNCHANGED <<services, known, channels, stopped, mutex, subject, pending, todo>>

CallRegister(p) ==
  \E i \in Instances, h \in HealthStatus :
    /\ Fresh(i)
    /\ Call(p, [op |-> "register", inst |-> i])
    /\ health' = [health EXCEPT ![i] = h]

CallDeregister(p) ==
  \E d \in Ids : Call(p, [op |-> "deregister", id |-> d]) /\ UNCHANGED health

\* The first conjunct bounds the channels ever made.
CallWatch(p) ==
  /\ Cardinality({q \in Callers : request[q].op = "watch"}) <
       Cardinality({c \in Chans : pc[c] = "off"})
  /\ \E n \in Names : Call(p, [op |-> "watch", name |-> n])
  /\ UNCHANGED health

\* Fault: Discover takes no lock.
CallDiscoverUnlocked(p) ==
  \E n \in Names :
    /\ pc[p] = "idle"
    /\ pc' = [pc EXCEPT ![p] = "discover"]
    /\ request' = [request EXCEPT ![p] = [op |-> "discover", name |-> n]]
    /\ answer' = [answer EXCEPT ![p] = Nothing]
    /\ mutex' = [mutex EXCEPT !.readers = @ \cup {p}]
    /\ subject' = [subject EXCEPT ![p] = n]
    /\ UNCHANGED <<registry, channels, stopped, pending, todo>>

\* Discover up to its RLock, which is granted or joins those waiting.
CallDiscover(p) ==
  \E n \in Names :
    /\ pc[p] = "idle"
    /\ pc' = [pc EXCEPT ![p] = "discover"]
    /\ request' = [request EXCEPT ![p] = [op |-> "discover", name |-> n]]
    /\ answer' = [answer EXCEPT ![p] = Nothing]
    /\ mutex' = RLocked(p)
    /\ subject' = [subject EXCEPT ![p] = n]
    /\ UNCHANGED <<registry, channels, stopped, pending, todo>>

----------------------------------------------------------------------------
(* Critical sections under Lock.                                           *)

Register(p) ==
  /\ p \in Callers
  /\ Holds(p)
  /\ request[p].op \in {"register", "start"}
  /\ LET i == request[p].inst
         n == NameOf[i]
     IN /\ known' = known \cup {n}
        /\ services' = [services EXCEPT ![n][IdOf[i]] = i]
        /\ answer' = [answer EXCEPT ![p] = Succeeded]
        /\ NotifyWatchers(p, n)
  /\ UNCHANGED <<health, channels, stopped, todo>>

\* Fault: the loop over the names goes on after a hit.
DeregisterEverywhere(p) ==
  /\ p \in Callers
  /\ Holds(p)
  /\ request[p].op = "deregister"
  /\ \E n \in known :
       /\ services[n][request[p].id] # NoInstance
       /\ services' = [m \in Names |-> [services[m] EXCEPT ![request[p].id] = NoInstance]]
       /\ answer' = [answer EXCEPT ![p] = Succeeded]
       /\ NotifyWatchers(p, n)
  /\ UNCHANGED <<known, health, channels, stopped, todo>>

\* The names are visited in an arbitrary order, the first with the id loses it.
DeregisterFound(p) ==
  /\ p \in Callers
  /\ Holds(p)
  /\ request[p].op = "deregister"
  /\ \E n \in known :
       /\ services[n][request[p].id] # NoInstance
       /\ services' = [services EXCEPT ![n][request[p].id] = NoInstance]
       /\ answer' = [answer EXCEPT ![p] = Succeeded]
       /\ NotifyWatchers(p, n)
  /\ UNCHANGED <<known, health, channels, stopped, todo>>

\* Fault: the error path does not unlock.
DeregisterKeepsLock(p) ==
  /\ p \in Callers
  /\ Holds(p)
  /\ request[p].op = "deregister"
  /\ \A n \in known : services[n][request[p].id] = NoInstance
  /\ answer' = [answer EXCEPT ![p] = Failed]
  /\ Resume(p)
  /\ UNCHANGED <<registry, channels, stopped, mutex, subject, todo>>

DeregisterMissing(p) ==
  /\ p \in Callers
  /\ Holds(p)
  /\ request[p].op = "deregister"
  /\ \A n \in known : services[n][request[p].id] = NoInstance
  /\ answer' = [answer EXCEPT ![p] = Failed]
  /\ mutex' = Unlocked
  /\ Resume(p)
  /\ UNCHANGED <<registry, channels, stopped, subject, todo>>

\* The channel joins the watchers and the goroutine that sends the current
\* instances is started; Watch returns without waiting for it.
Watch(p) ==
  /\ p \in Callers
  /\ Holds(p)
  /\ request[p].op = "watch"
  /\ LET n == request[p].name
     IN \E c \in Chans :
          /\ pc[c] = "off"
          /\ watchers' = [watchers EXCEPT ![n] = @ \cup {c}]
          /\ subject' = [subject EXCEPT ![c] = n]
          /\ pc' = [pc EXCEPT ![p] = "idle", ![c] = "start"]
  /\ mutex' = Unlocked
  /\ request' = [request EXCEPT ![p] = NoRequest]
  /\ answer' = [answer EXCEPT ![p] = Succeeded]
  /\ UNCHANGED <<registry, buffer, snapshot, stopped, pending, todo>>

\* Fault: only the healthy instances are checked.
PerformOnHealthy ==
  /\ Holds(Loop)
  /\ LET checked == {i \in Registered : health[i] = "healthy"}
     IN /\ pending' = [i \in Instances |->
                         IF i \in checked THEN pending[i] + 1 ELSE pending[i]]
        /\ pc' = [p \in Goroutines |->
                    IF p = Loop THEN "select"
                    ELSE IF p \in checked /\ pc[p] = "idle" THEN "lock"
                    ELSE pc[p]]
  /\ mutex' = Unlocked
  /\ UNCHANGED <<registry, channels, stopped, request, answer, subject, todo>>

\* A check is started on every instance; each keeps the pointer it was given.
PerformHealthChecks ==
  /\ Holds(Loop)
  /\ pending' = [i \in Instances |->
                   IF i \in Registered THEN pending[i] + 1 ELSE pending[i]]
  /\ pc' = [p \in Goroutines |->
              IF p = Loop THEN "select"
              ELSE IF p \in Registered /\ pc[p] = "idle" THEN "lock"
              ELSE pc[p]]
  /\ mutex' = Unlocked
  /\ UNCHANGED <<registry, channels, stopped, request, answer, subject, todo>>

\* simulateHealthCheck answers true, always.
SimulateHealthCheck == {TRUE}

CheckInstanceHealth(i) ==
  /\ i \in Instances
  /\ Holds(i)
  /\ \E healthy \in SimulateHealthCheck :
       health' = [health EXCEPT ![i] = IF healthy THEN "healthy" ELSE "unhealthy"]
  /\ IF health'[i] # health[i]
       THEN NotifyWatchers(i, NameOf[i])
       ELSE mutex' = Unlocked /\ Resume(i) /\ UNCHANGED subject
  /\ UNCHANGED <<services, known, channels, stopped, answer, todo>>

----------------------------------------------------------------------------
(* Discover under RLock, for whoever called it.                            *)

\* Discover of the caller p returns.
DiscoverReturn(p) ==
  /\ pc[p] = "discover"
  /\ answer' = [answer EXCEPT ![p] =
                  IF subject[p] \in known
                    THEN [status |-> "ok", found |-> Healthy(subject[p])]
                    ELSE Failed]
  /\ mutex' = RUnlocked(p)
  /\ Resume(p)
  /\ UNCHANGED <<buffer, snapshot>>

\* Fault: the sender tries again when the service is not found.
SenderRetries(c) ==
  /\ pc[c] = "read"
  /\ snapshot' = [snapshot EXCEPT ![c] =
                    IF subject[c] \in known THEN Healthy(subject[c]) ELSE {}]
  /\ pc' = [pc EXCEPT ![c] = IF subject[c] \in known THEN "send" ELSE "start"]
  /\ mutex' = RUnlocked(c)
  /\ UNCHANGED <<buffer, answer, pending, request>>

\* Discover of the sender c returns: it sends what it got or, after an error, ends.
SenderDiscover(c) ==
  /\ pc[c] = "read"
  /\ snapshot' = [snapshot EXCEPT ![c] =
                    IF subject[c] \in known THEN Healthy(subject[c]) ELSE {}]
  /\ pc' = [pc EXCEPT ![c] = IF subject[c] \in known THEN "send" ELSE "exited"]
  /\ mutex' = RUnlocked(c)
  /\ UNCHANGED <<buffer, answer, pending, request>>

\* Discover of notifyWatchers returns: every watcher with room gets the
\* instances, the others are passed over, and the section p is in ends.
NotifyReturn(p) ==
  /\ pc[p] = "notify"
  /\ buffer' = [c \in Chans |->
       IF c \in watchers[subject[p]] /\ buffer[c] = {} /\ subject[p] \in known
         THEN {Healthy(subject[p])} ELSE buffer[c]]
  /\ mutex' = [Unlocked EXCEPT !.readers = (mutex.readers \cup mutex.waiting) \ {p}]
  /\ Resume(p)
  /\ UNCHANGED <<snapshot, answer>>

Discover(p) ==
  /\ p \in mutex.readers
  /\ (DiscoverReturn(p) \/ SenderDiscover(p) \/ NotifyReturn(p))
  /\ subject' = [subject EXCEPT ![p] = NoName]
  /\ UNCHANGED <<registry, watchers, stopped, todo>>

----------------------------------------------------------------------------
(* The goroutine Watch starts, and the reader of its channel.              *)

SenderStart(c) ==
  /\ pc[c] = "start"
  /\ mutex' = RLocked(c)
  /\ pc' = [pc EXCEPT ![c] = "read"]
  /\ UNCHANGED <<registry, channels, stopped, request, answer, subject, pending, todo>>

\* select: send when there is room, or end when stopCh is closed.
SenderSend(c) ==
  /\ pc[c] = "send"
  /\ buffer[c] = {}
  /\ buffer' = [buffer EXCEPT ![c] = {snapshot[c]}]
  /\ snapshot' = [snapshot EXCEPT ![c] = {}]
  /\ pc' = [pc EXCEPT ![c] = "exited"]
  /\ UNCHANGED <<registry, watchers, stopped, mutex, request, answer, subject, pending, todo>>

SenderStop(c) ==
  /\ pc[c] = "send"
  /\ stopped
  /\ snapshot' = [snapshot EXCEPT ![c] = {}]
  /\ pc' = [pc EXCEPT ![c] = "exited"]
  /\ UNCHANGED <<registry, watchers, buffer, stopped, mutex, request, answer, subject, pending, todo>>

Receive(c) ==
  /\ buffer[c] # {}
  /\ buffer' = [buffer EXCEPT ![c] = {}]
  /\ UNCHANGED <<registry, watchers, snapshot, stopped, mutex, pc, request, answer,
                 subject, pending, todo>>

----------------------------------------------------------------------------
(* Start, the health-check loop and Stop.  Both functions are called once:  *)
(* a second Stop closes a closed channel, which panics.                    *)

CallStart(p) ==
  /\ pc[p] = "idle"
  /\ pc[Loop] = "off"
  /\ \A q \in Callers : pc[q] # "starting" /\ request[q].op # "start"
  /\ pc' = [pc EXCEPT ![p] = "starting"]
  /\ answer' = [answer EXCEPT ![p] = Nothing]
  /\ UNCHANGED <<registry, channels, stopped, mutex, request, subject, pending, todo>>

StartRegister(p) ==
  /\ pc[p] = "starting"
  /\ \E i \in todo :
       /\ todo' = todo \ {i}
       /\ request' = [request EXCEPT ![p] = [op |-> "start", inst |-> i]]
  /\ pc' = [pc EXCEPT ![p] = "lock"]
  /\ UNCHANGED <<registry, channels, stopped, mutex, answer, subject, pending>>

StartReturn(p) ==
  /\ pc[p] = "starting"
  /\ todo = {}
  /\ pc' = [pc EXCEPT ![p] = "idle", ![Loop] = "select"]
  /\ request' = [request EXCEPT ![p] = NoRequest]
  /\ answer' = [answer EXCEPT ![p] = Succeeded]
  /\ UNCHANGED <<registry, channels, stopped, mutex, subject, pending, todo>>

\* The ticker fires.  The second guard bounds the checks outstanding.
Tick ==
  /\ pc[Loop] = "select"
  /\ \A i \in Instances : pending[i] < MaxPending
  /\ pc' = [pc EXCEPT ![Loop] = "lock"]
  /\ UNCHANGED <<registry, channels, stopped, mutex, request, answer, subject, pending, todo>>

\* Fault: the loop waits for the ticker only.
LoopIgnoresStop == FALSE

LoopStop ==
  /\ pc[Loop] = "select"
  /\ stopped
  /\ pc' = [pc EXCEPT ![Loop] = "exited"]
  /\ UNCHANGED <<registry, channels, stopped, mutex, request, answer, subject, pending, todo>>

Stop ==
  /\ ~stopped
  /\ stopped' = TRUE
  /\ UNCHANGED <<registry, channels, mutex, pc, request, answer, subject, pending, todo>>

----------------------------------------------------------------------------

Init ==
  /\ services = [n \in Names |-> [d \in Ids |-> NoInstance]]
  /\ known = {}
  /\ health = [i \in Instances |-> "healthy"]
  /\ watchers = [n \in Names |-> {}]
  /\ buffer = [c \in Chans |-> {}]
  /\ snapshot = [c \in Chans |-> {}]
  /\ stopped = FALSE
  /\ mutex = [writer |-> Nobody, readers |-> {}, waiting |-> {}]
  /\ pc = [p \in Goroutines |-> IF p \in Chans \cup {Loop} THEN "off" ELSE "idle"]
  /\ request = [p \in Callers |-> NoRequest]
  /\ answer = [p \in Callers |-> Nothing]
  /\ subject = [p \in Goroutines |-> NoName]
  /\ pending = [i \in Instances |-> 0]
  /\ todo = Configured

\* What a caller decides to do, and the passing of time.
Environment ==
  \/ \E p \in Callers : \/ CallRegister(p) \/ CallDeregister(p) \/ CallDiscover(p)
                        \/ CallWatch(p) \/ CallStart(p)
  \/ \E c \in Chans : Receive(c)
  \/ Tick
  \/ Stop

\* What a goroutine does once it is started.
Run(p) ==
  \/ Lock(p) \/ Discover(p)
  \/ Register(p) \/ DeregisterFound(p) \/ DeregisterMissing(p) \/ Watch(p)
  \/ CheckInstanceHealth(p)

Sender(c) == SenderStart(c) \/ SenderSend(c) \/ SenderStop(c)

Next ==
  \/ Environment
  \/ \E p \in Goroutines : Run(p)
  \/ \E p \in Callers : StartRegister(p) \/ StartReturn(p)
  \/ \E c \in Chans : Sender(c)
  \/ PerformHealthChecks
  \/ LoopStop

Spec == Init /\ [][Next]_vars

(***************************************************************************)
(* The scheduler runs every goroutine that can run.  Lock is fair in the   *)
(* strong sense: Go's mutex hands itself to a waiter of more than 1 ms.    *)
(* So is the loop's exit: a select with several ready cases picks one at   *)
(* random.  The ticker keeps firing.  Nothing makes a caller call, Stop be *)
(* called or a channel be read.                                            *)
(***************************************************************************)
Fairness ==
  /\ \A p \in Goroutines : SF_vars(Lock(p)) /\ WF_vars(Run(p))
  /\ \A p \in Callers : WF_vars(StartRegister(p) \/ StartReturn(p))
  /\ \A c \in Chans : WF_vars(Sender(c))
  /\ WF_vars(PerformHealthChecks)
  /\ SF_vars(LoopStop)
  /\ WF_vars(Tick)

FairSpec == Spec /\ Fairness

----------------------------------------------------------------------------
(* Types.                                                                  *)

TypeOK ==
  /\ services \in [Names -> [Ids -> Instances \cup {NoInstance}]]
  /\ known \in SUBSET Names
  /\ health \in [Instances -> HealthStatus]
  /\ watchers \in [Names -> SUBSET Chans]
  /\ buffer \in [Chans -> SUBSET SUBSET Instances]
  /\ snapshot \in [Chans -> SUBSET Instances]
  /\ stopped \in BOOLEAN
  /\ mutex \in [writer : Goroutines \cup {Nobody},
                readers : SUBSET Goroutines, waiting : SUBSET Goroutines]
  /\ pc \in [Goroutines -> {"off", "idle", "lock", "write", "notify", "discover",
                            "starting", "select", "start", "read", "send", "exited"}]
  /\ request \in [Callers -> Requests]
  /\ answer \in [Callers -> [status : {"none", "ok", "error"}, found : SUBSET Instances]]
  /\ subject \in [Goroutines -> Names \cup {NoName}]
  /\ pending \in [Instances -> Nat]
  /\ todo \in SUBSET Configured

(* Safety.                                                                 *)

Inside(p) == p \in mutex.readers \/ Holds(p) \/ pc[p] = "notify"

\* Mutual exclusion, on which the plain maps depend: whoever is inside a
\* section that writes the maps, the health or the watchers (Lock of Register,
\* Deregister, Watch, performHealthChecks, checkInstanceHealth) is alone, and
\* only the goroutine recorded as the writer is ever past Lock.
Exclusive ==
  /\ \A p \in Goroutines : pc[p] \in {"write", "notify"} => mutex.writer = p
  /\ \A p, q \in Goroutines :
       Inside(p) /\ Inside(q) /\ p # q => p \in mutex.readers /\ q \in mutex.readers

\* Discover returns pointers, and its callers use them long after RUnlock
\* (ProxyGinRequest sends to one, a watcher reads its channel later).  Whatever
\* was registered, replaced, deregistered or checked meanwhile, no instance
\* that was handed out as healthy is ever seen unhealthy by its holder.
HandedOutHealthy ==
  /\ \A p \in Callers : \A i \in answer[p].found : health[i] = "healthy"
  /\ \A c \in Chans :
       /\ \A i \in snapshot[c] : health[i] = "healthy"
       /\ \A b \in buffer[c] : \A i \in b : health[i] = "healthy"

Notifying == \E p \in Goroutines : pc[p] = "notify"

\* A change to a watched service is the last thing that ever happens to the
\* registry: notifyWatchers calls Discover, which waits at RLock for the Lock
\* its own goroutine holds, so the notifier never returns, no entry, health or
\* watcher changes again, and no Discover gets an answer.
NotifyFreezes ==
  [][Notifying =>
       /\ UNCHANGED <<services, known, watchers>>
       /\ \A i \in Registered : health'[i] = health[i]
       /\ \A p \in Goroutines :
            /\ pc[p] = "notify" => pc'[p] = "notify"
            /\ pc[p] \in {"discover", "lock", "read"} => pc'[p] = pc[p]]_vars

----------------------------------------------------------------------------
(* The registry is linearizable: it implements Registry.                   *)

Starting(p) == pc[p] = "starting" \/ request[p].op = "start"

\* Where each caller is, and the call it makes, as Registry sees them.
CallPhase == [p \in Callers |-> CASE pc[p] = "idle" -> "idle"
                                  [] pc[p] = "notify" -> "done"
                                  [] OTHER -> "open"]

CallMade == [p \in Callers |-> IF Starting(p) THEN [op |-> "start"]
                               ELSE IF request[p].op = "watch" THEN [op |-> "watch"]
                               ELSE request[p]]

Atomic == INSTANCE Registry WITH phase <- CallPhase, call <- CallMade

\* Every call of Register, Deregister, Discover, Watch and Start takes effect
\* in one step between its call and its return, as Registry says.
Linearizable == Atomic!Spec

----------------------------------------------------------------------------
(* Liveness.                                                               *)

\* Every call returns, unless a change to a watched service is stuck: no call
\* waits for ever for readers, for other writers, for health checks, for the
\* sender of a Watch or for the reader of its channel.
CallsReturn == \A p \in Callers : pc[p] # "idle" ~> (pc[p] = "idle" \/ Notifying)

\* After Stop the health-check loop ends, whatever it was doing, unless it is
\* waiting for a lock that is never released.
LoopEnds == stopped /\ pc[Loop] \in {"select", "lock", "write"} ~> (pc[Loop] = "exited" \/ Notifying)

\* The goroutine a Watch starts does not outlive its delivery.
SenderEnds == \A c \in Chans : pc[c] = "start" ~> (pc[c] = "exited" \/ Notifying)

\* An instance that registers as unhealthy is found by the health checks: as
\* long as the loop runs it becomes healthy or is taken out or replaced.
UnhealthyRecovers ==
  \A i \in Instances :
    (i \in Registered /\ health[i] = "unhealthy" /\ pc[Loop] \in {"select", "lock", "write"})
      ~> (i \notin Registered \/ health[i] = "healthy" \/ pc[Loop] = "exited" \/ Notifying)

\* A watcher is told of a registration (the test of Watch waits for it at
\* tests/unit/service_discovery_test.go:147): registering a watched service
\* returns.
WatchedRegisterReturns ==
  \A p \in Callers :
    (request[p].op = "register" /\ watchers[NameOf[request[p].inst]] # {}) ~> pc[p] = "idle"

============================================================================
