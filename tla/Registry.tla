------------------------------ MODULE Registry ------------------------------
(***************************************************************************)
(* What the service registry promises its callers, whatever locks and      *)
(* goroutines it is made of: every call takes effect in one step between   *)
(* the moment it is made and the moment it returns.  A registration puts   *)
(* the instance in, a deregistration takes exactly one instance with the   *)
(* id out or fails when there is none, and Discover returns the instances  *)
(* of the name that are registered and healthy in that one step.  Between  *)
(* calls the health of an instance may only rise.  The interface is        *)
(* ServiceDiscovery of internal/service/discovery/discovery.go.            *)
(***************************************************************************)
EXTENDS FiniteSets

CONSTANTS Names, Ids, Instances, NameOf, IdOf, Configured, Callers, NoInstance

VARIABLES
  services,  \* the instance registered under a name and id, or NoInstance
  known,     \* the names that ever had one
  health,    \* "healthy" or "unhealthy"
  phase,     \* of a caller: "idle", "open" until the call takes effect, then "done"
  call,      \* the call a caller is making
  answer     \* what its last call returned

vars == <<services, known, health, phase, call, answer>>

None == [status |-> "none", found |-> {}]
Ok == [status |-> "ok", found |-> {}]
Error == [status |-> "error", found |-> {}]

Calls ==
  [op : {"none", "start", "watch"}]
    \cup [op : {"register"}, inst : Instances]
    \cup [op : {"deregister"}, id : Ids]
    \cup [op : {"discover"}, name : Names]

Present == {i \in Instances : services[NameOf[i]][IdOf[i]] = i}

Init ==
  /\ services = [n \in Names |-> [d \in Ids |-> NoInstance]]
  /\ known = {}
  /\ health \in [Instances -> {"healthy", "unhealthy"}]
  /\ phase = [p \in Callers |-> "idle"]
  /\ call = [p \in Callers |-> [op |-> "none"]]
  /\ answer = [p \in Callers |-> None]

\* A caller calls; the instance it registers is its own until then.
Invoke(p) ==
  /\ phase[p] = "idle"
  /\ phase' = [phase EXCEPT ![p] = "open"]
  /\ answer' = [answer EXCEPT ![p] = None]
  /\ \E r \in Calls :
       /\ call' = [call EXCEPT ![p] = r]
       /\ \/ health' = health
          \/ /\ r.op = "register"
             /\ r.inst \notin Present
             /\ \E h \in {"healthy", "unhealthy"} : health' = [health EXCEPT ![r.inst] = h]
  /\ UNCHANGED <<services, known>>

\* The call of p takes effect with the answer r, and returns now or later.
Effect(p, r) ==
  /\ phase[p] = "open"
  /\ answer' = [answer EXCEPT ![p] = r]
  /\ \/ /\ phase' = [phase EXCEPT ![p] = "idle"]
        /\ call' = [call EXCEPT ![p] = [op |-> "none"]]
     \/ /\ phase' = [phase EXCEPT ![p] = "done"]
        /\ call' = call

Put(i) ==
  /\ services' = [services EXCEPT ![NameOf[i]][IdOf[i]] = i]
  /\ known' = known \cup {NameOf[i]}

Register(p) ==
  /\ call[p].op = "register"
  /\ Effect(p, Ok)
  /\ Put(call[p].inst)
  /\ UNCHANGED health

Deregister(p) ==
  /\ call[p].op = "deregister"
  /\ LET held == {n \in Names : services[n][call[p].id] # NoInstance}
     IN IF held = {}
          THEN Effect(p, Error) /\ UNCHANGED services
          ELSE /\ Effect(p, Ok)
               /\ \E n \in held :
                    services' = [services EXCEPT ![n][call[p].id] = NoInstance]
  /\ UNCHANGED <<known, health>>

Discover(p) ==
  /\ call[p].op = "discover"
  /\ LET n == call[p].name
     IN Effect(p, IF n \in known
                    THEN [status |-> "ok",
                          found |-> {i \in Present : NameOf[i] = n /\ health[i] = "healthy"}]
                    ELSE Error)
  /\ UNCHANGED <<services, known, health>>

Watch(p) ==
  /\ call[p].op = "watch"
  /\ Effect(p, Ok)
  /\ UNCHANGED <<services, known, health>>

\* Start registers the configured instances one after the other, other calls in
\* between.
Preload(p) ==
  /\ call[p].op = "start"
  /\ phase[p] = "open"
  /\ \E i \in Configured : Put(i)
  /\ answer' = [answer EXCEPT ![p] = Ok]
  /\ \/ phase' = phase
     \/ phase' = [phase EXCEPT ![p] = "done"]
  /\ UNCHANGED <<health, call>>

Start(p) ==
  /\ call[p].op = "start"
  /\ Effect(p, Ok)
  /\ UNCHANGED <<services, known, health>>

\* A health check succeeds.
Recover ==
  /\ \E i \in Instances : health' = [health EXCEPT ![i] = "healthy"]
  /\ UNCHANGED <<services, known, phase, call, answer>>

Next ==
  \/ \E p \in Callers : \/ Invoke(p) \/ Register(p) \/ Deregister(p) \/ Discover(p)
                        \/ Watch(p) \/ Preload(p) \/ Start(p)
  \/ Recover

Spec == Init /\ [][Next]_vars
=============================================================================
