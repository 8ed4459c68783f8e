------------------------------ MODULE Gateway ------------------------------
(***************************************************************************)
(* The gateway as its clients meet it: handler.Handler, proxy.ProxyService *)
(* and main.go around the service registry.  Clients send requests to be   *)
(* proxied, operators register and deregister instances, administrators    *)
(* toggle maintenance mode, instances come and go, and a signal ends the   *)
(* process.  Every one of them is a goroutine; the registry is used as     *)
(* Registry promises, which Discovery implements.                          *)
(*                                                                         *)
(* The maintenance mode is kept twice, in the handler and in the proxy     *)
(* service, in plain booleans that several goroutines read and write: each *)
(* read and each write of one is a step.                                   *)
(*                                                                         *)
(* Left out: what is forwarded (URL, headers, body), the limits of         *)
(* RateLimitChain, how a path is matched (RouteOf gives the result),       *)
(* upgraded connections and pipelined requests.                            *)
(***************************************************************************)
EXTENDS FiniteSets

CONSTANTS
  Names, Ids, Instances, NameOf, IdOf, NoInstance,  \* of the registry
  NoId,       \* the empty id, which an instance may be registered under
  Requests,   \* goroutines serving requests to be proxied
  Operators,  \* goroutines serving calls of /api/v1/services
  Admins,     \* goroutines serving POST /admin/maintenance
  Targets,    \* method and path of a request
  RouteOf,    \* the service a target is routed to
  NoRoute,    \* no route matches
  Dynamic     \* the routes are set up by SetupWithProxy, else by Setup

Callers == Requests \cup Operators

ASSUME GatewayAssumption ==
  /\ NameOf \in [Instances -> Names]
  /\ IdOf \in [Instances -> Ids]
  /\ NoInstance \notin Instances
  /\ NoId \in Ids
  /\ RouteOf \in [Targets -> Names \cup {NoRoute}]
  /\ NoRoute \notin Names
  /\ Dynamic \in BOOLEAN
  /\ Requests \cap Operators = {}

VARIABLES
  services, known, health, phase, call, answer,  \* of the registry
  handlerFlag,  \* Handler.maintenanceMode
  proxyFlag,    \* *ProxyService.maintenanceMode
  admin,        \* where a toggle is
  local,        \* the value a toggle has read
  told,         \* the mode the last toggle answered
  stage,        \* where a request is
  target,       \* of a request
  chosen,       \* the instance a request is sent to
  reply,        \* what a request was answered
  server,       \* http.Server and the process
  settled,      \* history: the last toggle to begin met no other
  mode,         \* history: the mode announced when a request came, if no toggle began since
  offered,      \* history: the instances its service has had since a request came
  gap           \* history: whether its service has been without one since

registryVars == <<services, known, health, phase, call, answer>>
modeVars == <<handlerFlag, proxyFlag, admin, local, told>>
requestVars == <<stage, target, chosen, reply>>
history == <<settled, mode, offered, gap>>
vars == <<registryVars, modeVars, requestVars, server, history>>

\* main never calls Start, so nothing is configured for it.
Reg == INSTANCE Registry WITH Configured <- {}

Running == server \in {"serving", "draining"}

\* What Discover would return now to r.
Serving(r) ==
  {i \in Reg!Present : NameOf[i] = RouteOf[target[r]] /\ health[i] = "healthy"}

\* The histories after a step, a change of the registry included.
Observe ==
  /\ offered' = [r \in Requests |->
       IF stage'[r] = "idle" THEN {}
       ELSE IF stage[r] = "idle" THEN Serving(r)'
       ELSE offered[r] \cup Serving(r)']
  /\ gap' = [r \in Requests |->
       IF stage'[r] = "idle" THEN gap[r]
       ELSE (stage[r] # "idle" /\ gap[r]) \/ Serving(r)' = {}]

----------------------------------------------------------------------------
(* ProxyHandler: a request to be proxied.                                  *)

Go(r, s) == stage' = [stage EXCEPT ![r] = s]

Reply(r, s) ==
  /\ Go(r, "idle")
  /\ reply' = [reply EXCEPT ![r] = s]
  /\ chosen' = [chosen EXCEPT ![r] = NoInstance]
  /\ UNCHANGED target

Arrive(r) ==
  /\ server = "serving"
  /\ stage[r] = "idle"
  /\ Go(r, IF Dynamic THEN "check" ELSE "match")
  /\ \E t \in Targets : target' = [target EXCEPT ![r] = t]
  /\ reply' = [reply EXCEPT ![r] = "none"]
  /\ mode' = [mode EXCEPT ![r] =
       IF ~settled \/ \E a \in Admins : admin[a] # "idle" THEN "changing"
       ELSE IF told THEN "on" ELSE "off"]
  /\ UNCHANGED <<registryVars, modeVars, chosen, server, settled>>
  /\ Observe

\* Fault: the handler does not look at the mode.
CheckNothing(r) ==
  /\ Running
  /\ stage[r] = "check"
  /\ Go(r, "match")
  /\ UNCHANGED <<registryVars, modeVars, target, chosen, reply, server, settled, mode>>
  /\ Observe

CheckMaintenance(r) ==
  /\ Running
  /\ stage[r] = "check"
  /\ IF proxyFlag
       THEN Reply(r, "maintenance")
       ELSE Go(r, "match") /\ UNCHANGED <<target, chosen, reply>>
  /\ UNCHANGED <<registryVars, modeVars, server, settled, mode>>
  /\ Observe

MatchRoute(r) ==
  /\ Running
  /\ stage[r] = "match"
  /\ IF RouteOf[target[r]] = NoRoute
       THEN Reply(r, "not found") /\ UNCHANGED registryVars
       ELSE /\ Reg!Invoke(r)
            /\ call'[r] = [op |-> "discover", name |-> RouteOf[target[r]]]
            /\ Go(r, "discover")
            /\ UNCHANGED <<target, chosen, reply>>
  /\ UNCHANGED <<modeVars, server, settled, mode>>
  /\ Observe

\* Fault: any instance of the service is good.
DiscoverUnhealthy(r) ==
  /\ Running
  /\ stage[r] = "discover"
  /\ answer' = [answer EXCEPT ![r] =
       IF RouteOf[target[r]] \in known
         THEN [status |-> "ok", found |-> {i \in Reg!Present : NameOf[i] = RouteOf[target[r]]}]
         ELSE Reg!Error]
  /\ phase' = [phase EXCEPT ![r] = "idle"]
  /\ call' = [call EXCEPT ![r] = [op |-> "none"]]
  /\ Go(r, "pick")
  /\ UNCHANGED <<services, known, health, modeVars, target, chosen, reply, server, settled, mode>>
  /\ Observe

\* Discover, called by the handler of r, takes effect and returns.
Discover(r) ==
  /\ Running
  /\ stage[r] = "discover"
  /\ Reg!Discover(r)
  /\ phase'[r] = "idle"
  /\ Go(r, "pick")
  /\ UNCHANGED <<modeVars, target, chosen, reply, server, settled, mode>>
  /\ Observe

\* Fault: an empty list of instances is not looked for.
PickUnchecked(r) ==
  /\ Running
  /\ stage[r] = "pick"
  /\ IF answer[r].status # "ok"
       THEN Reply(r, "unavailable")
       ELSE /\ \E i \in Instances \cup {NoInstance} :
                 /\ i \in answer[r].found \/ (answer[r].found = {} /\ i = NoInstance)
                 /\ chosen' = [chosen EXCEPT ![r] = i]
            /\ Go(r, "send")
            /\ UNCHANGED <<target, reply>>
  /\ UNCHANGED <<registryVars, modeVars, server, settled, mode>>
  /\ Observe

\* The first of the instances, which Discover lists in an arbitrary order.  The
\* static routes have no proxy service: their handler panics, and gin.Recovery
\* answers.  The server may have read all of the request by now ("await"), as
\* it has when there is no body, or have the rest of its body to read ("send").
Pick(r) ==
  /\ Running
  /\ stage[r] = "pick"
  /\ IF answer[r].found = {}
       THEN Reply(r, "unavailable")
     ELSE IF ~Dynamic
       THEN Reply(r, "panic")
       ELSE /\ \E i \in answer[r].found : chosen' = [chosen EXCEPT ![r] = i]
            /\ \E s \in {"send", "await"} : Go(r, s)
            /\ UNCHANGED <<target, reply>>
  /\ UNCHANGED <<registryVars, modeVars, server, settled, mode>>
  /\ Observe

\* The instance takes the rest of the body.
Sent(r) ==
  /\ Running
  /\ stage[r] = "send"
  /\ Go(r, "await")
  /\ UNCHANGED <<registryVars, modeVars, target, chosen, reply, server, settled, mode>>
  /\ Observe

\* The reverse proxy gets an answer or an error from the instance, or the
\* client closes its connection, which cancels the request.
Forward(r) ==
  /\ Running
  /\ stage[r] \in {"send", "await"}
  /\ \E s \in {"upstream", "bad gateway"} : Reply(r, s)
  /\ UNCHANGED <<registryVars, modeVars, server, settled, mode>>
  /\ Observe

\* Fault: the server has no ReadTimeout.
NoReadTimeout(r) == FALSE

\* The server's ReadTimeout, the only deadline of a request: no timeout of a
\* route is looked at.  Once all of the request is read, the server watches the
\* connection, and the deadline of its reads ends that and cancels the request:
\* the reverse proxy gives up, after the status of the instance if it came.
ReadDeadline(r) ==
  /\ Running
  /\ stage[r] = "await"
  /\ \E s \in {"upstream", "bad gateway"} : Reply(r, s)
  /\ UNCHANGED <<registryVars, modeVars, server, settled, mode>>
  /\ Observe

----------------------------------------------------------------------------
(* RegisterService and DeregisterService.                                  *)

\* The dynamic routes name their parameter "service" and the handler asks for
\* "id": it gets the empty string.
ParamID(d) == IF Dynamic THEN NoId ELSE d

OperatorCall(o) ==
  /\ server = "serving"
  /\ Reg!Invoke(o)
  /\ \/ \E i \in Instances : /\ i \notin UNION {answer[p].found : p \in Callers}
                             /\ \A p \in Callers : call[p].op = "register" => call[p].inst # i
                             /\ call'[o] = [op |-> "register", inst |-> i]
     \/ \E d \in Ids : call'[o] = [op |-> "deregister", id |-> ParamID(d)]
  /\ UNCHANGED <<modeVars, requestVars, server, settled, mode>>
  /\ Observe

OperatorReturn(o) ==
  /\ Running
  /\ (Reg!Register(o) \/ Reg!Deregister(o))
  /\ phase'[o] = "idle"
  /\ UNCHANGED <<modeVars, requestVars, server, settled, mode>>
  /\ Observe

----------------------------------------------------------------------------
(* ToggleMaintenanceMode, a step for each access to a flag.                *)

\* Common to its steps: a goes from one place to the next.
Toggle(a, here, there) ==
  /\ admin[a] = here
  /\ admin' = [admin EXCEPT ![a] = there]
  /\ UNCHANGED <<registryVars, requestVars, server>>
  /\ Observe

ToggleRead(a) ==
  /\ server = "serving"
  /\ Toggle(a, "idle", "write")
  /\ local' = [local EXCEPT ![a] = ~handlerFlag]
  /\ settled' = \A b \in Admins : admin[b] = "idle"
  /\ mode' = [r \in Requests |-> IF stage[r] = "idle" THEN mode[r] ELSE "changing"]
  /\ UNCHANGED <<handlerFlag, proxyFlag, told>>

ToggleWrite(a) ==
  /\ Running
  /\ Toggle(a, "write", IF Dynamic THEN "reread" ELSE "report")
  /\ handlerFlag' = local[a]
  /\ UNCHANGED <<proxyFlag, local, told, settled, mode>>

ToggleReread(a) ==
  /\ Running
  /\ Toggle(a, "reread", "sync")
  /\ local' = [local EXCEPT ![a] = handlerFlag]
  /\ UNCHANGED <<handlerFlag, proxyFlag, told, settled, mode>>

\* Fault: the mode is handed over only when it is turned on.
SyncOnlyOn(a) ==
  /\ Running
  /\ Toggle(a, "sync", "report")
  /\ proxyFlag' = (proxyFlag \/ local[a])
  /\ UNCHANGED <<handlerFlag, local, told, settled, mode>>

\* SetMaintenanceMode.
ToggleSync(a) ==
  /\ Running
  /\ Toggle(a, "sync", "report")
  /\ proxyFlag' = local[a]
  /\ UNCHANGED <<handlerFlag, local, told, settled, mode>>

ToggleReport(a) ==
  /\ Running
  /\ Toggle(a, "report", "idle")
  /\ told' = handlerFlag
  /\ local' = [local EXCEPT ![a] = FALSE]
  /\ UNCHANGED <<handlerFlag, proxyFlag, settled, mode>>

----------------------------------------------------------------------------
(* main, and the world around.                                             *)

Busy ==
  \/ \E r \in Requests : stage[r] # "idle"
  \/ \E a \in Admins : admin[a] # "idle"
  \/ \E o \in Operators : phase[o] # "idle"

Become(s) ==
  /\ server' = s
  /\ UNCHANGED <<registryVars, modeVars, requestVars, history>>

Signal == server = "serving" /\ Become("draining")

\* Fault: the shutdown has no deadline.
WaitForEver == FALSE

\* Shutdown returns once nothing is in flight, or else after 30 s with an
\* error, which ends the process with what is in flight.
Exit == server = "draining" /\ ~Busy /\ Become("exited")
Kill == server = "draining" /\ Busy /\ Become("killed")

----------------------------------------------------------------------------

Init ==
  /\ Reg!Init
  /\ health = [i \in Instances |-> "healthy"]
  /\ handlerFlag = FALSE
  /\ proxyFlag = FALSE
  /\ admin = [a \in Admins |-> "idle"]
  /\ local = [a \in Admins |-> FALSE]
  /\ told = FALSE
  /\ stage = [r \in Requests |-> "idle"]
  /\ target \in [Requests -> Targets]
  /\ chosen = [r \in Requests |-> NoInstance]
  /\ reply = [r \in Requests |-> "none"]
  /\ server = "serving"
  /\ settled = TRUE
  /\ mode = [r \in Requests |-> "off"]
  /\ offered = [r \in Requests |-> {}]
  /\ gap = [r \in Requests |-> FALSE]

Serve(r) == CheckMaintenance(r) \/ MatchRoute(r) \/ Discover(r) \/ Pick(r)

Toggling(a) == ToggleWrite(a) \/ ToggleReread(a) \/ ToggleSync(a) \/ ToggleReport(a)

Next ==
  \/ \E r \in Requests : Arrive(r) \/ Serve(r) \/ Sent(r) \/ Forward(r) \/ ReadDeadline(r)
  \/ \E o \in Operators : OperatorCall(o) \/ OperatorReturn(o)
  \/ \E a \in Admins : ToggleRead(a) \/ Toggling(a)
  \/ Signal \/ Exit \/ Kill

Spec == Init /\ [][Next]_vars

\* The scheduler runs every handler that can run, and the deadlines pass: of
\* Shutdown, and of the connection a request came by.  Nothing makes a client
\* come or leave, an administrator act, or an instance answer or take a body.
Fairness ==
  /\ \A r \in Requests : WF_vars(Serve(r)) /\ WF_vars(ReadDeadline(r))
  /\ \A o \in Operators : WF_vars(OperatorReturn(o))
  /\ \A a \in Admins : WF_vars(Toggling(a))
  /\ WF_vars(Exit \/ Kill)

FairSpec == Spec /\ Fairness

----------------------------------------------------------------------------

GatewayTypeOK ==
  /\ handlerFlag \in BOOLEAN /\ proxyFlag \in BOOLEAN /\ told \in BOOLEAN
  /\ admin \in [Admins -> {"idle", "write", "reread", "sync", "report"}]
  /\ local \in [Admins -> BOOLEAN]
  /\ stage \in [Requests -> {"idle", "check", "match", "discover", "pick", "send", "await"}]
  /\ target \in [Requests -> Targets]
  /\ chosen \in [Requests -> Instances \cup {NoInstance}]
  /\ \A r \in Requests : stage[r] \in {"send", "await"} => chosen[r] \in Instances
  /\ \A r \in Requests : stage[r] = "discover" => phase[r] = "open" /\ call[r].op = "discover"
  /\ reply \in [Requests -> {"none", "maintenance", "not found", "unavailable", "panic",
                             "upstream", "bad gateway"}]
  /\ server \in {"serving", "draining", "exited", "killed"}
  /\ settled \in BOOLEAN
  /\ mode \in [Requests -> {"on", "off", "changing"}]
  /\ offered \in [Requests -> SUBSET Instances]
  /\ gap \in [Requests -> BOOLEAN]

\* The mode an administrator was last told is the mode clients meet, once the
\* last toggle has met no other: a request that comes after "enabled" was
\* answered and before the next toggle begins gets no further than the
\* maintenance check, and one that comes after "disabled" is not turned away.
MaintenanceObeyed ==
  \A r \in Requests :
    /\ mode[r] = "on" => \/ stage[r] = "check"
                         \/ stage[r] = "idle" /\ reply[r] \in {"none", "maintenance"}
    /\ mode[r] = "off" => reply[r] # "maintenance"

Quiet == \A a \in Admins : admin[a] = "idle"

\* Toggles at once may leave the two copies of the mode apart, but not for
\* good: the next toggle to run by itself hands over what the handler has, and
\* the copies agree when it is done, whatever has happened before.
FlagsRejoin == Quiet /\ settled => handlerFlag = proxyFlag

\* "Synchronised to the proxy service" (handler.go:351): whenever no toggle is
\* under way the two copies of the mode agree.
FlagsAgree == Quiet => handlerFlag = proxyFlag

\* The registry may change at any moment between Discover and the forwarding,
\* so this is all a client can be promised: it is sent to an instance of its
\* service that was registered and healthy at some moment since it came, and
\* told "not available" only if at some moment there was none.
AnsweredFromRegistry ==
  \A r \in Requests :
    /\ stage[r] \in {"send", "await"} => chosen[r] \in offered[r]
    /\ reply[r] = "unavailable" => gap[r]

\* Every request is answered, the ones sent to an instance that hangs included,
\* unless the process is killed first or the instance never takes the body.
\* Nothing of a toggle, a registration or a shutdown holds a request up.
RequestAnswered ==
  \A r \in Requests :
    stage[r] # "idle" ~> (stage[r] \in {"idle", "send"} \/ server = "killed")

\* After the signal the process ends, with or without a clean exit.
ShutdownEnds == server = "draining" ~> server \in {"exited", "killed"}
=============================================================================
