--------------------------- MODULE GatewayProofs ---------------------------
(***************************************************************************)
(* Maintenance mode is obeyed by every number of requests, and toggled by  *)
(* every number of administrators, two at once included, as long as the    *)
(* routes are the dynamic ones: toggles that meet leave the two flags      *)
(* apart, and the next toggle that meets no other brings them together.    *)
(*                                                                         *)
(* The two flags disagree in the middle of a toggle, and after toggles     *)
(* that met, so neither FlagsRejoin nor MaintenanceObeyed is inductive.    *)
(* FlagInv follows a toggle that met no other from step to step, and       *)
(* ModeInv ties the mode a request met on arrival to the flags for as long *)
(* as it has not been answered.                                            *)
(*                                                                         *)
(* What requests are answered is proved for any number of everything:      *)
(* Answering relates what a request has got from the registry to the       *)
(* histories of what its service offered meanwhile.                        *)
(***************************************************************************)
EXTENDS Gateway, TLAPS

FlagTypes ==
  /\ handlerFlag \in BOOLEAN /\ proxyFlag \in BOOLEAN /\ told \in BOOLEAN
  /\ admin \in [Admins -> {"idle", "write", "reread", "sync", "report"}]
  /\ local \in [Admins -> BOOLEAN]
  /\ stage \in [Requests -> {"idle", "check", "match", "discover", "pick", "send", "await"}]
  /\ reply \in [Requests -> {"none", "maintenance", "not found", "unavailable", "panic",
                             "upstream", "bad gateway"}]
  /\ mode \in [Requests -> {"on", "off", "changing"}]
  /\ settled \in BOOLEAN

AllIdle == \A a \in Admins : admin[a] = "idle"

\* If the last toggle to begin met no other, it is the only one there may be:
\* where the two flags, its answer and its own copy stand.
FlagInv == settled =>
  /\ AllIdle => handlerFlag = proxyFlag /\ told = handlerFlag
  /\ \A a \in Admins : admin[a] # "idle" => \A b \in Admins \ {a} : admin[b] = "idle"
  /\ \A a \in Admins :
       /\ admin[a] = "write" => local[a] = ~handlerFlag
       /\ admin[a] = "sync" => local[a] = handlerFlag
       /\ admin[a] = "report" => proxyFlag = handlerFlag

\* A request that is under way and met a settled mode still meets it.
ModeInv ==
  \A r \in Requests :
    /\ stage[r] # "idle" /\ mode[r] # "changing" =>
         settled /\ AllIdle /\ (told <=> mode[r] = "on")
    /\ stage[r] # "idle" => reply[r] = "none"

FlagsInv == FlagTypes /\ FlagInv /\ ModeInv /\ MaintenanceObeyed

LEMMA InitFlags == Init => FlagsInv
<1> SUFFICES ASSUME Init PROVE FlagsInv
  OBVIOUS
<1>1. FlagTypes
  BY DEF Init, FlagTypes
<1>2. FlagInv
  BY DEF Init, FlagInv
<1>3. ModeInv /\ MaintenanceObeyed
  BY DEF Init, ModeInv, MaintenanceObeyed
<1> QED BY <1>1, <1>2, <1>3 DEF FlagsInv

\* A step that is no business of the flags.
LEMMA Aside ==
  ASSUME FlagsInv, UNCHANGED <<modeVars, stage, reply, settled, mode>>
  PROVE  FlagsInv'
BY DEF FlagsInv, FlagTypes, FlagInv, ModeInv, AllIdle, MaintenanceObeyed, modeVars

\* A request that is let on or answered, after the maintenance check.
LEMMA Onward ==
  ASSUME FlagsInv, NEW r \in Requests,
         stage[r] \in {"match", "discover", "pick", "send", "await"},
         UNCHANGED <<modeVars, settled, mode>>,
         \/ /\ \E s \in {"discover", "pick", "send", "await"} : stage' = [stage EXCEPT ![r] = s]
            /\ reply' = reply
         \/ /\ stage' = [stage EXCEPT ![r] = "idle"]
            /\ \E s \in {"not found", "unavailable", "panic", "upstream", "bad gateway"} :
                 reply' = [reply EXCEPT ![r] = s]
  PROVE  FlagsInv'
<1>1. mode[r] # "on"
  BY DEF FlagsInv, MaintenanceObeyed
<1>2. FlagTypes'
  <2>1. stage' \in [Requests -> {"idle", "check", "match", "discover", "pick", "send", "await"}]
    BY ZenonT(60) DEF FlagsInv, FlagTypes
  <2>2. reply' \in [Requests -> {"none", "maintenance", "not found", "unavailable", "panic",
                                 "upstream", "bad gateway"}]
    BY DEF FlagsInv, FlagTypes
  <2> QED BY <2>1, <2>2 DEF FlagsInv, FlagTypes, modeVars
<1>3. FlagInv'
  BY DEF FlagsInv, FlagInv, AllIdle, modeVars
<1>4. ModeInv'
  BY ZenonT(60) DEF FlagsInv, FlagTypes, ModeInv, AllIdle, modeVars
<1>5. MaintenanceObeyed'
  <2> SUFFICES ASSUME NEW q \in Requests
               PROVE  /\ mode[q] = "on" => \/ stage'[q] = "check"
                                           \/ stage'[q] = "idle" /\ reply'[q] \in {"none", "maintenance"}
                      /\ mode[q] = "off" => reply'[q] # "maintenance"
    BY DEF MaintenanceObeyed
  <2>1. CASE q = r
    <3>1. reply'[q] = reply[q] \/ reply'[q] # "maintenance"
      BY <2>1 DEF FlagsInv, FlagTypes
    <3> QED BY <1>1, <2>1, <3>1 DEF FlagsInv, MaintenanceObeyed
  <2>2. CASE q # r
    <3>1. reply'[q] = reply[q] /\ stage'[q] = stage[q]
      BY <2>2 DEF FlagsInv, FlagTypes
    <3> QED BY <3>1 DEF FlagsInv, MaintenanceObeyed
  <2> QED BY <2>1, <2>2
<1> QED BY <1>2, <1>3, <1>4, <1>5 DEF FlagsInv

LEMMA ArriveFlags ==
  ASSUME Dynamic, FlagsInv, NEW r \in Requests, Arrive(r) PROVE FlagsInv'
<1>1. /\ UNCHANGED <<modeVars, settled>> /\ stage' = [stage EXCEPT ![r] = "check"]
      /\ reply' = [reply EXCEPT ![r] = "none"]
      /\ mode' = [mode EXCEPT ![r] =
           IF ~settled \/ \E a \in Admins : admin[a] # "idle" THEN "changing"
           ELSE IF told THEN "on" ELSE "off"]
  BY DEF Arrive, Go
<1>2. FlagTypes' /\ FlagInv'
  BY <1>1 DEF FlagsInv, FlagTypes, FlagInv, AllIdle, modeVars
<1>3. ModeInv'
  BY <1>1 DEF FlagsInv, FlagTypes, ModeInv, AllIdle, modeVars
<1>4. MaintenanceObeyed'
  BY <1>1, ZenonT(60) DEF FlagsInv, FlagTypes, MaintenanceObeyed
<1> QED BY <1>2, <1>3, <1>4 DEF FlagsInv

LEMMA CheckFlags ==
  ASSUME FlagsInv, NEW r \in Requests, CheckMaintenance(r) PROVE FlagsInv'
<1>1. UNCHANGED <<modeVars, settled, mode>> /\ stage[r] = "check"
  BY DEF CheckMaintenance
<1>2. mode[r] # "changing" => handlerFlag = proxyFlag /\ (proxyFlag <=> mode[r] = "on")
  BY <1>1 DEF FlagsInv, FlagTypes, FlagInv, ModeInv
<1>3. CASE proxyFlag
  <2>1. stage' = [stage EXCEPT ![r] = "idle"] /\ reply' = [reply EXCEPT ![r] = "maintenance"]
    BY <1>3 DEF CheckMaintenance, Reply, Go
  <2> QED BY <1>1, <1>2, <1>3, <2>1, ZenonT(60)
          DEF FlagsInv, FlagTypes, FlagInv, ModeInv, AllIdle, MaintenanceObeyed, modeVars
<1>4. CASE ~proxyFlag
  <2>1. stage' = [stage EXCEPT ![r] = "match"] /\ reply' = reply
    BY <1>4 DEF CheckMaintenance, Go
  <2> QED BY <1>1, <1>2, <1>4, <2>1
          DEF FlagsInv, FlagTypes, FlagInv, ModeInv, AllIdle, MaintenanceObeyed, modeVars
<1> QED BY <1>3, <1>4

LEMMA ServeFlags ==
  ASSUME FlagsInv, NEW r \in Requests,
         MatchRoute(r) \/ Discover(r) \/ Pick(r) \/ Sent(r) \/ Forward(r) \/ ReadDeadline(r)
  PROVE  FlagsInv'
<1>1. /\ UNCHANGED <<modeVars, settled, mode>>
      /\ stage[r] \in {"match", "discover", "pick", "send", "await"}
  BY DEF MatchRoute, Discover, Pick, Sent, Forward, ReadDeadline
<1>2. CASE MatchRoute(r)
  BY <1>1, <1>2, Onward DEF MatchRoute, Reply, Go
<1>3. CASE Discover(r)
  BY <1>1, <1>3, Onward DEF Discover, Go
<1>4. CASE Pick(r)
  BY <1>1, <1>4, Onward DEF Pick, Reply, Go
<1>5. CASE Sent(r)
  BY <1>1, <1>5, Onward DEF Sent, Go
<1>6. CASE Forward(r) \/ ReadDeadline(r)
  BY <1>1, <1>6, Onward DEF Forward, ReadDeadline, Reply, Go
<1> QED BY <1>2, <1>3, <1>4, <1>5, <1>6

\* A toggle begins: every request under way is released from the mode it met.
\* Of the toggles before, nothing matters but that they are over.
LEMMA ReadFlags ==
  ASSUME FlagsInv, NEW a \in Admins, ToggleRead(a) PROVE FlagsInv'
<1>1. /\ admin[a] = "idle" /\ admin' = [admin EXCEPT ![a] = "write"]
      /\ local' = [local EXCEPT ![a] = ~handlerFlag]
      /\ settled' = AllIdle
      /\ mode' = [r \in Requests |-> IF stage[r] = "idle" THEN mode[r] ELSE "changing"]
      /\ UNCHANGED <<handlerFlag, proxyFlag, told, stage, reply>>
  BY DEF ToggleRead, Toggle, requestVars, AllIdle
<1>2. FlagTypes'
  BY <1>1 DEF FlagsInv, FlagTypes, AllIdle
<1>3. FlagInv'
  BY <1>1 DEF FlagsInv, FlagTypes, FlagInv, AllIdle
<1>4. ModeInv'
  BY <1>1 DEF FlagsInv, ModeInv
<1>5. MaintenanceObeyed'
  BY <1>1 DEF FlagsInv, MaintenanceObeyed
<1> QED BY <1>2, <1>3, <1>4, <1>5 DEF FlagsInv

\* The toggle goes on: no request is bound to a settled mode.
LEMMA TogglingFlags ==
  ASSUME Dynamic, FlagsInv, NEW a \in Admins, Toggling(a) PROVE FlagsInv'
<1>1. /\ admin[a] # "idle" /\ ~AllIdle
      /\ UNCHANGED <<stage, reply, settled, mode>>
  BY DEF Toggling, ToggleWrite, ToggleReread, ToggleSync, ToggleReport, Toggle, requestVars, AllIdle
<1>2. /\ FlagTypes /\ settled' = settled /\ admin[a] \in {"write", "reread", "sync", "report"}
      /\ settled => \A b \in Admins \ {a} : admin[b] = "idle"
  BY <1>1 DEF FlagsInv, FlagTypes, FlagInv
<1>3. FlagTypes'
  BY <1>1, <1>2 DEF FlagTypes, Toggling, ToggleWrite, ToggleReread, ToggleSync, ToggleReport, Toggle
<1>4. FlagInv'
  <2> SUFFICES ASSUME settled, FlagInv PROVE FlagInv'
    BY <1>2 DEF FlagsInv, FlagInv
  <2>1. CASE ToggleWrite(a) \/ ToggleReread(a)
    <3>1. \/ admin'[a] = "reread"
          \/ admin'[a] = "sync" /\ local'[a] = handlerFlag'
      BY <1>2, <2>1 DEF ToggleWrite, ToggleReread, Toggle, FlagTypes
    <3>2. \A b \in Admins \ {a} : admin'[b] = "idle"
      BY <1>2, <2>1 DEF ToggleWrite, ToggleReread, Toggle, FlagTypes
    <3> QED BY <3>1, <3>2 DEF FlagInv, AllIdle
  <2>2. CASE ToggleSync(a)
    <3>1. /\ admin' = [admin EXCEPT ![a] = "report"] /\ admin[a] = "sync"
          /\ proxyFlag' = local[a] /\ handlerFlag' = handlerFlag /\ told' = told
      BY <2>2 DEF ToggleSync, Toggle
    <3>2. local[a] = handlerFlag /\ admin'[a] = "report"
      BY <1>2, <3>1 DEF FlagInv, FlagTypes
    <3>3. \A b \in Admins \ {a} : admin'[b] = "idle"
      BY <1>2, <3>1 DEF FlagTypes
    <3> QED BY <3>1, <3>2, <3>3 DEF FlagInv, AllIdle
  <2>3. CASE ToggleReport(a)
    <3>1. /\ admin' = [admin EXCEPT ![a] = "idle"] /\ admin[a] = "report"
          /\ told' = handlerFlag /\ handlerFlag' = handlerFlag /\ proxyFlag' = proxyFlag
      BY <2>3 DEF ToggleReport, Toggle
    <3>2. handlerFlag = proxyFlag
      BY <1>2, <3>1 DEF FlagInv
    <3>3. \A b \in Admins : admin'[b] = "idle"
      BY <1>2, <3>1 DEF FlagTypes
    <3> QED BY <3>1, <3>2, <3>3 DEF FlagInv, AllIdle
  <2> QED BY <2>1, <2>2, <2>3 DEF Toggling
<1>5. ModeInv' /\ MaintenanceObeyed'
  BY <1>1 DEF FlagsInv, FlagTypes, ModeInv, MaintenanceObeyed
<1> QED BY <1>3, <1>4, <1>5 DEF FlagsInv

LEMMA NextFlags ==
  ASSUME Dynamic, FlagsInv, [Next]_vars PROVE FlagsInv'
<1>1. ASSUME NEW r \in Requests, Arrive(r) \/ Serve(r) \/ Sent(r) \/ Forward(r) \/ ReadDeadline(r)
      PROVE  FlagsInv'
  BY <1>1, ArriveFlags, CheckFlags, ServeFlags DEF Serve
<1>2. ASSUME NEW o \in Operators, OperatorCall(o) \/ OperatorReturn(o) PROVE FlagsInv'
  BY <1>2, Aside DEF OperatorCall, OperatorReturn, requestVars
<1>3. ASSUME NEW a \in Admins, ToggleRead(a) \/ Toggling(a) PROVE FlagsInv'
  BY <1>3, ReadFlags, TogglingFlags
<1>4. CASE Signal \/ Exit \/ Kill
  BY <1>4, Aside DEF Signal, Exit, Kill, Become, requestVars, history
<1>5. CASE UNCHANGED vars
  BY <1>5, Aside DEF vars, requestVars, history
<1> QED BY <1>1, <1>2, <1>3, <1>4, <1>5 DEF Next

\* Under the dynamic routes, however many administrators there are and however
\* their toggles meet: once a toggle has met no other, the mode it answered is
\* the mode every request meets until the next one begins.
THEOREM MaintenanceHolds ==
  ASSUME Dynamic
  PROVE  Spec => []MaintenanceObeyed
<1>1. FlagsInv /\ [Next]_vars => FlagsInv'
  BY NextFlags
<1>2. FlagsInv => MaintenanceObeyed
  BY DEF FlagsInv
<1> QED BY <1>1, <1>2, InitFlags, PTL DEF Spec

\* Under the dynamic routes, with any number of administrators toggling at
\* once: a toggle that meets no other leaves the two copies of the mode equal,
\* also when the toggles before it have left them apart.
THEOREM FlagsComeTogether ==
  ASSUME Dynamic
  PROVE  Spec => []FlagsRejoin
<1>1. FlagsInv /\ [Next]_vars => FlagsInv'
  BY NextFlags
<1>2. FlagsInv => FlagsRejoin
  BY DEF FlagsInv, FlagInv, AllIdle, FlagsRejoin, Quiet
<1> QED BY <1>1, <1>2, InitFlags, PTL DEF Spec

----------------------------------------------------------------------------
(* What a request is answered, whatever the administrators and operators   *)
(* do.  A request keeps what Discover returned while the registry changes; *)
(* AnswerOf says what the histories have recorded by then: the instances   *)
(* it got are among those offered, and if it got none there was a gap.     *)

Answers == [status : {"none", "ok", "error"}, found : SUBSET Instances]

RegistryTypes ==
  /\ services \in [Names -> [Ids -> Instances \cup {NoInstance}]]
  /\ phase \in [Callers -> {"idle", "open", "done"}]
  /\ call \in [Callers -> Reg!Calls]
  /\ answer \in [Callers -> Answers]

\* Discover knows the name of whatever is registered, so its error means that
\* there is no instance.
KnownInv == \A i \in Reg!Present : NameOf[i] \in known

RequestTypes ==
  /\ target \in [Requests -> Targets]
  /\ chosen \in [Requests -> Instances \cup {NoInstance}]
  /\ server \in {"serving", "draining", "exited", "killed"}
  /\ offered \in [Requests -> SUBSET Instances]
  /\ gap \in [Requests -> BOOLEAN]

AnswerOf(r) ==
  /\ stage[r] = "discover" =>
       phase[r] = "open" /\ call[r] = [op |-> "discover", name |-> RouteOf[target[r]]]
  /\ stage[r] # "discover" => phase[r] = "idle"
  /\ stage[r] = "pick" => answer[r].found \subseteq offered[r]
  /\ stage[r] = "pick" /\ answer[r].found = {} => gap[r]
  /\ stage[r] \in {"send", "await"} => chosen[r] \in offered[r]
  /\ stage[r] # "idle" => reply[r] = "none"
  /\ reply[r] = "unavailable" => gap[r]

Answering ==
  /\ RegistryTypes /\ KnownInv
  /\ FlagTypes /\ RequestTypes
  /\ \A r \in Requests : AnswerOf(r)

\* A call of the registry, in progress or done, keeps the registry's types and
\* is nothing to other callers.
LEMMA RegistryKept ==
  ASSUME RegistryTypes, KnownInv, NEW p \in Callers,
         Reg!Invoke(p) \/ Reg!Register(p) \/ Reg!Deregister(p) \/ Reg!Discover(p)
  PROVE  /\ RegistryTypes' /\ KnownInv'
         /\ \A q \in Callers \ {p} :
              phase'[q] = phase[q] /\ call'[q] = call[q] /\ answer'[q] = answer[q]
<1> USE GatewayAssumption
<1>1. CASE Reg!Invoke(p)
  <2>1. UNCHANGED <<services, known>>
    BY <1>1 DEF Reg!Invoke
  <2>2. PICK r \in Reg!Calls : call' = [call EXCEPT ![p] = r]
    BY <1>1 DEF Reg!Invoke
  <2>3. phase' = [phase EXCEPT ![p] = "open"] /\ answer' = [answer EXCEPT ![p] = Reg!None]
    BY <1>1 DEF Reg!Invoke
  <2>4. Reg!None \in Answers
    BY DEF Reg!None, Answers
  <2>5. RegistryTypes'
    BY <2>1, <2>2, <2>3, <2>4 DEF RegistryTypes
  <2>6. KnownInv'
    BY <2>1 DEF KnownInv, Reg!Present
  <2> QED BY <2>2, <2>3, <2>5, <2>6 DEF RegistryTypes
<1>2. ASSUME NEW a \in Answers, Reg!Effect(p, a)
      PROVE  /\ phase' \in [Callers -> {"idle", "open", "done"}]
             /\ call' \in [Callers -> Reg!Calls]
             /\ answer' \in [Callers -> Answers]
             /\ \A q \in Callers \ {p} :
                  phase'[q] = phase[q] /\ call'[q] = call[q] /\ answer'[q] = answer[q]
  <2>1. [op |-> "none"] \in Reg!Calls
    BY DEF Reg!Calls
  <2>2. answer' = [answer EXCEPT ![p] = a]
    BY <1>2 DEF Reg!Effect
  <2>3. \/ phase' = [phase EXCEPT ![p] = "idle"] /\ call' = [call EXCEPT ![p] = [op |-> "none"]]
        \/ phase' = [phase EXCEPT ![p] = "done"] /\ call' = call
    BY <1>2 DEF Reg!Effect
  <2> QED BY <2>1, <2>2, <2>3 DEF RegistryTypes
<1>3. Reg!Ok \in Answers /\ Reg!Error \in Answers
  BY DEF Reg!Ok, Reg!Error, Answers
<1>4. CASE Reg!Register(p)
  <2>1. Reg!Effect(p, Reg!Ok) /\ Reg!Put(call[p].inst) /\ call[p].op = "register"
    BY <1>4 DEF Reg!Register
  <2>2. call[p].inst \in Instances
    BY <2>1 DEF RegistryTypes, Reg!Calls
  <2> DEFINE i == call[p].inst
  <2>3. /\ services' = [services EXCEPT ![NameOf[i]][IdOf[i]] = i]
        /\ known' = known \cup {NameOf[i]}
    BY <2>1 DEF Reg!Put
  <2> HIDE DEF i
  <2>4. NameOf[i] \in Names /\ IdOf[i] \in Ids
    BY <2>2 DEF i
  <2>5. services' \in [Names -> [Ids -> Instances \cup {NoInstance}]]
    BY <2>2, <2>3, <2>4 DEF RegistryTypes, i
  <2>6. ASSUME NEW j \in Instances, services'[NameOf[j]][IdOf[j]] = j
        PROVE  NameOf[j] \in known'
    <3>1. NameOf[j] \in Names /\ IdOf[j] \in Ids
      OBVIOUS
    <3>2. CASE NameOf[j] = NameOf[i]
      BY <2>3, <3>2
    <3>3. CASE NameOf[j] # NameOf[i]
      <4>1. services'[NameOf[j]] = services[NameOf[j]]
        BY <2>3, <2>4, <3>1, <3>3 DEF RegistryTypes
      <4> QED BY <2>3, <2>6, <4>1 DEF KnownInv, Reg!Present
    <3> QED BY <3>2, <3>3
  <2>7. KnownInv'
    BY <2>6 DEF KnownInv, Reg!Present
  <2> QED BY <1>2, <1>3, <2>1, <2>5, <2>7 DEF RegistryTypes
<1>5. CASE Reg!Deregister(p)
  <2>1. /\ Reg!Effect(p, Reg!Ok) \/ Reg!Effect(p, Reg!Error)
        /\ known' = known
    BY <1>5 DEF Reg!Deregister
  <2>2. call[p].op = "deregister" /\ call[p].id \in Ids
    BY <1>5 DEF Reg!Deregister, RegistryTypes, Reg!Calls
  <2>3. \/ services' = services
        \/ \E n \in Names : services' = [services EXCEPT ![n][call[p].id] = NoInstance]
    BY <1>5 DEF Reg!Deregister
  <2>4. services' \in [Names -> [Ids -> Instances \cup {NoInstance}]]
    <3>1. CASE services' = services
      BY <3>1 DEF RegistryTypes
    <3>2. ASSUME NEW n \in Names, services' = [services EXCEPT ![n][call[p].id] = NoInstance]
          PROVE  services' \in [Names -> [Ids -> Instances \cup {NoInstance}]]
      <4> DEFINE row == [services[n] EXCEPT ![call[p].id] = NoInstance]
      <4>1. row \in [Ids -> Instances \cup {NoInstance}]
        BY DEF RegistryTypes
      <4>2. services' = [services EXCEPT ![n] = row]
        BY <3>2
      <4> QED BY <4>1, <4>2 DEF RegistryTypes
    <3> QED BY <2>3, <3>1, <3>2
  <2>5. ASSUME NEW n \in Names, NEW d \in Ids
        PROVE  services'[n][d] \in {services[n][d], NoInstance}
    BY <2>2, <2>3 DEF RegistryTypes
  <2>6. KnownInv'
    BY <2>1, <2>5 DEF KnownInv, Reg!Present
  <2> QED BY <1>2, <1>3, <2>1, <2>4, <2>6 DEF RegistryTypes
<1>6. CASE Reg!Discover(p)
  <2>1. PICK a \in Answers : Reg!Effect(p, a)
    <3> DEFINE n == call[p].name
               some == [status |-> "ok",
                        found |-> {i \in Reg!Present : NameOf[i] = n /\ health[i] = "healthy"}]
    <3>1. some \in Answers
      BY DEF Answers, Reg!Present
    <3>2. Reg!Effect(p, IF n \in known THEN some ELSE Reg!Error)
      BY <1>6 DEF Reg!Discover
    <3> QED BY <1>3, <3>1, <3>2
  <2>2. UNCHANGED <<services, known>>
    BY <1>6 DEF Reg!Discover
  <2>3. KnownInv'
    BY <2>2 DEF KnownInv, Reg!Present
  <2> QED BY <1>2, <2>1, <2>2, <2>3 DEF RegistryTypes
<1> QED BY <1>1, <1>4, <1>5, <1>6

\* What a step adds to the histories.
LEMMA Observed ==
  ASSUME RequestTypes, Observe
  PROVE  /\ offered' \in [Requests -> SUBSET Instances] /\ gap' \in [Requests -> BOOLEAN]
         /\ \A r \in Requests :
              /\ stage'[r] = "idle" => gap'[r] = gap[r]
              /\ stage'[r] # "idle" => /\ Serving(r)' \subseteq offered'[r]
                                       /\ Serving(r)' = {} => gap'[r]
              /\ stage[r] # "idle" /\ stage'[r] # "idle" =>
                   offered[r] \subseteq offered'[r] /\ (gap[r] => gap'[r])
<1>1. \A r \in Requests : Serving(r)' \subseteq Instances
  BY DEF Serving, Reg!Present
<1>2. /\ offered' = [r \in Requests |->
            IF stage'[r] = "idle" THEN {}
            ELSE IF stage[r] = "idle" THEN Serving(r)'
            ELSE offered[r] \cup Serving(r)']
      /\ gap' = [r \in Requests |->
            IF stage'[r] = "idle" THEN gap[r]
            ELSE (stage[r] # "idle" /\ gap[r]) \/ Serving(r)' = {}]
  BY DEF Observe
<1> HIDE DEF Serving
<1>3. offered' \in [Requests -> SUBSET Instances]
  BY <1>1, <1>2 DEF RequestTypes
<1>4. gap' \in [Requests -> BOOLEAN]
  BY <1>2 DEF RequestTypes
<1>5. ASSUME NEW r \in Requests
      PROVE  /\ stage'[r] = "idle" => gap'[r] = gap[r]
             /\ stage'[r] # "idle" => /\ Serving(r)' \subseteq offered'[r]
                                      /\ Serving(r)' = {} => gap'[r]
             /\ stage[r] # "idle" /\ stage'[r] # "idle" =>
                  offered[r] \subseteq offered'[r] /\ (gap[r] => gap'[r])
  BY <1>2, Zenon
<1> QED BY <1>3, <1>4, <1>5

\* Another step than r's own does not change what r is to be answered.
LEMMA StillAnswering ==
  ASSUME RequestTypes, Observe, NEW r \in Requests, AnswerOf(r),
         stage'[r] = stage[r], target'[r] = target[r], chosen'[r] = chosen[r],
         reply'[r] = reply[r], phase'[r] = phase[r], call'[r] = call[r],
         answer'[r] = answer[r]
  PROVE  AnswerOf(r)'
<1>1. /\ stage[r] = "idle" => gap'[r] = gap[r]
      /\ stage[r] # "idle" => offered[r] \subseteq offered'[r] /\ (gap[r] => gap'[r])
  BY Observed
<1>2. (reply[r] = "unavailable" => gap[r]) => (reply'[r] = "unavailable" => gap'[r])
  BY <1>1, Zenon
<1> QED BY <1>1, <1>2 DEF AnswerOf

LEMMA InitAnswering == Init => Answering
<1> SUFFICES ASSUME Init PROVE Answering
  OBVIOUS
<1>1. RegistryTypes
  <2>1. Reg!None \in Answers /\ [op |-> "none"] \in Reg!Calls
    BY DEF Reg!None, Answers, Reg!Calls
  <2> QED BY <2>1 DEF Init, Reg!Init, RegistryTypes
<1>2. KnownInv
  BY GatewayAssumption DEF Init, Reg!Init, KnownInv, Reg!Present
<1>3. FlagTypes
  BY DEF Init, FlagTypes
<1>4. RequestTypes
  BY DEF Init, RequestTypes
<1>5. ASSUME NEW r \in Requests PROVE AnswerOf(r)
  BY DEF Init, Reg!Init, AnswerOf, Callers
<1> QED BY <1>1, <1>2, <1>3, <1>4, <1>5 DEF Answering

\* A step that is neither a request's nor a call of the registry.
LEMMA AsideAnswering ==
  ASSUME Answering, UNCHANGED <<registryVars, requestVars>>, FlagTypes', server' = server, Observe
  PROVE  Answering'
<1>1. UNCHANGED <<services, known, phase, call, answer, stage, target, chosen, reply>>
  BY DEF registryVars, requestVars
<1>2. RegistryTypes' /\ KnownInv'
  BY <1>1 DEF Answering, RegistryTypes, KnownInv, Reg!Present
<1>3. RequestTypes'
  BY <1>1, Observed DEF Answering, RequestTypes
<1>4. ASSUME NEW r \in Requests PROVE AnswerOf(r)'
  BY <1>1, StillAnswering DEF Answering
<1> QED BY <1>2, <1>3, <1>4 DEF Answering

LEMMA BecomeAnswering ==
  ASSUME Answering, NEW s \in {"draining", "exited", "killed"}, Become(s) \/ UNCHANGED vars
  PROVE  Answering'
<1>1. /\ UNCHANGED <<services, known, phase, call, answer, handlerFlag, proxyFlag, admin, local,
                    told, stage, target, chosen, reply, settled, mode, offered, gap>>
      /\ server' \in {s, server}
  BY DEF Become, vars, registryVars, modeVars, requestVars, history
<1>2. RegistryTypes' /\ KnownInv'
  BY <1>1 DEF Answering, RegistryTypes, KnownInv, Reg!Present
<1>3. FlagTypes' /\ RequestTypes'
  BY <1>1 DEF Answering, FlagTypes, RequestTypes
<1>4. ASSUME NEW r \in Requests PROVE AnswerOf(r)'
  BY <1>1 DEF Answering, AnswerOf
<1> QED BY <1>2, <1>3, <1>4 DEF Answering

LEMMA TogglesAnswering ==
  ASSUME Answering, NEW a \in Admins, ToggleRead(a) \/ Toggling(a)
  PROVE  Answering'
<1>1. PICK here, there \in {"idle", "write", "reread", "sync", "report"} : Toggle(a, here, there)
  BY DEF ToggleRead, Toggling, ToggleWrite, ToggleReread, ToggleSync, ToggleReport
<1>2. /\ UNCHANGED <<registryVars, requestVars, server>> /\ Observe
      /\ admin' = [admin EXCEPT ![a] = there]
  BY <1>1 DEF Toggle
<1>3. /\ UNCHANGED <<stage, reply>>
  BY <1>2 DEF requestVars
<1>4. /\ handlerFlag' \in {handlerFlag, local[a]}
      /\ proxyFlag' \in {proxyFlag, local[a]}
      /\ told' \in {told, handlerFlag}
      /\ settled' \in {settled, \A b \in Admins : admin[b] = "idle"}
      /\ local' = local \/ \E b \in {~handlerFlag, handlerFlag, FALSE} : local' = [local EXCEPT ![a] = b]
      /\ \/ mode' = mode
         \/ mode' = [r \in Requests |-> IF stage[r] = "idle" THEN mode[r] ELSE "changing"]
  BY DEF ToggleRead, Toggling, ToggleWrite, ToggleReread, ToggleSync, ToggleReport
<1>5. FlagTypes
  BY DEF Answering
<1>6. local[a] \in BOOLEAN
  BY <1>5 DEF FlagTypes
<1>7. local' \in [Admins -> BOOLEAN]
  <2>1. local \in [Admins -> BOOLEAN] /\ handlerFlag \in BOOLEAN
    BY <1>5 DEF FlagTypes
  <2>2. CASE local' = local
    BY <2>1, <2>2
  <2>3. ASSUME NEW b \in BOOLEAN, local' = [local EXCEPT ![a] = b]
        PROVE  local' \in [Admins -> BOOLEAN]
    BY <2>1, <2>3
  <2> QED BY <1>4, <2>1, <2>2, <2>3
<1>8. admin' \in [Admins -> {"idle", "write", "reread", "sync", "report"}]
  BY <1>2, <1>5 DEF FlagTypes
<1>9. mode' \in [Requests -> {"on", "off", "changing"}]
  BY <1>4, <1>5 DEF FlagTypes
<1>10. handlerFlag' \in BOOLEAN /\ proxyFlag' \in BOOLEAN /\ told' \in BOOLEAN /\ settled' \in BOOLEAN
  BY <1>4, <1>5, <1>6 DEF FlagTypes
<1>11. FlagTypes'
  BY <1>3, <1>5, <1>7, <1>8, <1>9, <1>10 DEF FlagTypes
<1> QED BY <1>2, <1>11, AsideAnswering

LEMMA OperatorsAnswering ==
  ASSUME Answering, NEW o \in Operators, OperatorCall(o) \/ OperatorReturn(o)
  PROVE  Answering'
<1>1. /\ Reg!Invoke(o) \/ Reg!Register(o) \/ Reg!Deregister(o)
      /\ UNCHANGED <<modeVars, requestVars, server, settled, mode>> /\ Observe
  BY DEF OperatorCall, OperatorReturn
<1>2. o \in Callers /\ o \notin Requests
  BY GatewayAssumption DEF Callers
<1>3. /\ RegistryTypes' /\ KnownInv'
      /\ \A q \in Callers \ {o} :
           phase'[q] = phase[q] /\ call'[q] = call[q] /\ answer'[q] = answer[q]
  BY <1>1, <1>2, RegistryKept DEF Answering
<1>4. UNCHANGED <<stage, target, chosen, reply, server, settled, mode, handlerFlag, proxyFlag, admin,
                  local, told>>
  BY <1>1 DEF modeVars, requestVars
<1>5. FlagTypes'
  BY <1>4 DEF Answering, FlagTypes
<1>6. RequestTypes'
  BY <1>1, <1>4, Observed DEF Answering, RequestTypes
<1>7. ASSUME NEW r \in Requests PROVE AnswerOf(r)'
  <2>1. r \in Callers \ {o}
    BY <1>2 DEF Callers
  <2> QED BY <1>1, <1>3, <1>4, <2>1, StillAnswering DEF Answering
<1> QED BY <1>3, <1>5, <1>6, <1>7 DEF Answering

\* A step of a request: it remains to show what it is answered itself.
LEMMA RequestAnswering ==
  ASSUME Answering, NEW r \in Requests, Observe, UNCHANGED <<modeVars, server, settled>>,
         mode' \in [Requests -> {"on", "off", "changing"}],
         RegistryTypes', KnownInv',
         \A q \in Callers \ {r} :
           phase'[q] = phase[q] /\ call'[q] = call[q] /\ answer'[q] = answer[q],
         NEW s \in {"idle", "check", "match", "discover", "pick", "send", "await"},
         stage' = [stage EXCEPT ![r] = s],
         NEW t \in Targets, target' = [target EXCEPT ![r] = t],
         NEW c \in Instances \cup {NoInstance}, chosen' = [chosen EXCEPT ![r] = c],
         NEW a \in {"none", "maintenance", "not found", "unavailable", "panic", "upstream",
                    "bad gateway"},
         reply' = [reply EXCEPT ![r] = a],
         AnswerOf(r)'
  PROVE  Answering'
<1>1. FlagTypes /\ RequestTypes
  BY DEF Answering
<1>2. FlagTypes'
  BY <1>1 DEF FlagTypes, modeVars
<1>3. RequestTypes'
  BY <1>1, Observed DEF RequestTypes
<1>4. ASSUME NEW q \in Requests PROVE AnswerOf(q)'
  <2>1. CASE q = r
    BY <2>1
  <2>2. CASE q # r
    <3>1. stage'[q] = stage[q] /\ target'[q] = target[q] /\ chosen'[q] = chosen[q] /\ reply'[q] = reply[q]
      BY <1>1, <2>2 DEF FlagTypes, RequestTypes
    <3>2. q \in Callers \ {r}
      BY <2>2 DEF Callers
    <3> QED BY <1>1, <3>1, <3>2, StillAnswering DEF Answering
  <2> QED BY <2>1, <2>2
<1> QED BY <1>2, <1>3, <1>4 DEF Answering

\* A step of a request that leaves the registry and its calls alone.
LEMMA AloneAnswering ==
  ASSUME Answering, NEW r \in Requests, Observe, UNCHANGED <<registryVars, modeVars, server, settled>>,
         stage[r] # "discover",
         mode' \in [Requests -> {"on", "off", "changing"}],
         NEW s \in {"idle", "check", "match", "send", "await"}, stage' = [stage EXCEPT ![r] = s],
         NEW t \in Targets, target' = [target EXCEPT ![r] = t],
         NEW c \in Instances \cup {NoInstance}, chosen' = [chosen EXCEPT ![r] = c],
         NEW a \in {"none", "maintenance", "not found", "unavailable", "panic", "upstream",
                    "bad gateway"},
         reply' = [reply EXCEPT ![r] = a],
         s # "idle" => a = "none",
         s \in {"send", "await"} => c \in offered'[r],
         a = "unavailable" => gap'[r]
  PROVE  Answering'
<1>1. UNCHANGED <<services, known, phase, call, answer>>
  BY DEF registryVars
<1>2. RegistryTypes' /\ KnownInv'
  BY <1>1 DEF Answering, RegistryTypes, KnownInv, Reg!Present
<1>3. FlagTypes /\ RequestTypes /\ AnswerOf(r)
  BY DEF Answering
<1>4. stage'[r] = s /\ chosen'[r] = c /\ reply'[r] = a /\ phase'[r] = "idle"
  BY <1>1, <1>3 DEF FlagTypes, RequestTypes, AnswerOf
<1>5. AnswerOf(r)'
  BY <1>4 DEF AnswerOf
<1> QED BY <1>1, <1>2, <1>5, RequestAnswering

LEMMA ArriveAnswering ==
  ASSUME Answering, NEW r \in Requests, Arrive(r) PROVE Answering'
<1>1. PICK t \in Targets : target' = [target EXCEPT ![r] = t]
  BY DEF Arrive
<1>2. FlagTypes /\ RequestTypes
  BY DEF Answering
<1>3. /\ Observe /\ UNCHANGED <<registryVars, modeVars, server, settled>> /\ stage[r] = "idle"
      /\ reply' = [reply EXCEPT ![r] = "none"]
  BY DEF Arrive
<1>4. mode' \in [Requests -> {"on", "off", "changing"}]
  BY <1>2 DEF Arrive, FlagTypes
<1>5. PICK s \in {"check", "match"} : stage' = [stage EXCEPT ![r] = s]
  BY DEF Arrive, Go
<1>6. chosen[r] \in Instances \cup {NoInstance} /\ chosen' = [chosen EXCEPT ![r] = chosen[r]]
  BY <1>2 DEF Arrive, RequestTypes
<1> QED BY <1>1, <1>3, <1>4, <1>5, <1>6, AloneAnswering

\* A reply that needs no instance, or is given where there was a gap.
LEMMA ReplyAnswering ==
  ASSUME Answering, NEW r \in Requests, Observe,
         UNCHANGED <<registryVars, modeVars, server, settled, mode>>,
         stage[r] \notin {"idle", "discover"},
         NEW a \in {"maintenance", "not found", "unavailable", "panic", "upstream", "bad gateway"},
         Reply(r, a), a = "unavailable" => gap[r]
  PROVE  Answering'
<1>1. FlagTypes /\ RequestTypes
  BY DEF Answering
<1>2. /\ stage' = [stage EXCEPT ![r] = "idle"] /\ reply' = [reply EXCEPT ![r] = a]
      /\ chosen' = [chosen EXCEPT ![r] = NoInstance]
      /\ target[r] \in Targets /\ target' = [target EXCEPT ![r] = target[r]]
  BY <1>1 DEF Reply, Go, RequestTypes
<1>3. gap'[r] = gap[r]
  BY <1>1, <1>2, Observed DEF FlagTypes
<1>4. mode' \in [Requests -> {"on", "off", "changing"}]
  BY <1>1 DEF FlagTypes
<1> QED BY <1>2, <1>3, <1>4, AloneAnswering

LEMMA CheckAnswering ==
  ASSUME Answering, NEW r \in Requests, CheckMaintenance(r) PROVE Answering'
<1>1. FlagTypes /\ RequestTypes /\ AnswerOf(r)
  BY DEF Answering
<1>2. /\ Observe /\ UNCHANGED <<registryVars, modeVars, server, settled, mode>> /\ stage[r] = "check"
  BY DEF CheckMaintenance
<1>3. CASE proxyFlag
  BY <1>2, <1>3, ReplyAnswering DEF CheckMaintenance
<1>4. CASE ~proxyFlag
  <2>1. stage' = [stage EXCEPT ![r] = "match"] /\ UNCHANGED <<target, chosen, reply>>
    BY <1>4 DEF CheckMaintenance, Go
  <2>2. /\ reply[r] = "none" /\ reply' = [reply EXCEPT ![r] = "none"]
        /\ target[r] \in Targets /\ target' = [target EXCEPT ![r] = target[r]]
        /\ chosen[r] \in Instances \cup {NoInstance} /\ chosen' = [chosen EXCEPT ![r] = chosen[r]]
        /\ mode' \in [Requests -> {"on", "off", "changing"}]
    BY <1>1, <1>2, <2>1 DEF FlagTypes, RequestTypes, AnswerOf
  <2> QED BY <1>2, <2>1, <2>2, AloneAnswering
<1> QED BY <1>3, <1>4

LEMMA MatchAnswering ==
  ASSUME Answering, NEW r \in Requests, MatchRoute(r) PROVE Answering'
<1>1. FlagTypes /\ RequestTypes /\ AnswerOf(r) /\ RegistryTypes /\ KnownInv
  BY DEF Answering
<1>2. /\ Observe /\ UNCHANGED <<modeVars, server, settled, mode>> /\ stage[r] = "match"
  BY DEF MatchRoute
<1>3. CASE RouteOf[target[r]] = NoRoute
  <2>1. Reply(r, "not found") /\ UNCHANGED registryVars
    BY <1>3 DEF MatchRoute
  <2> QED BY <1>2, <2>1, ReplyAnswering
<1>4. CASE RouteOf[target[r]] # NoRoute
  <2>1. /\ Reg!Invoke(r) /\ call'[r] = [op |-> "discover", name |-> RouteOf[target[r]]]
        /\ stage' = [stage EXCEPT ![r] = "discover"] /\ UNCHANGED <<target, chosen, reply>>
    BY <1>4 DEF MatchRoute, Go
  <2>2. /\ reply[r] = "none" /\ reply' = [reply EXCEPT ![r] = "none"]
        /\ target[r] \in Targets /\ target' = [target EXCEPT ![r] = target[r]]
        /\ chosen[r] \in Instances \cup {NoInstance} /\ chosen' = [chosen EXCEPT ![r] = chosen[r]]
        /\ mode' \in [Requests -> {"on", "off", "changing"}]
    BY <1>1, <1>2, <2>1 DEF FlagTypes, RequestTypes, AnswerOf
  <2>3. r \in Callers
    BY DEF Callers
  <2>4. /\ RegistryTypes' /\ KnownInv'
        /\ \A q \in Callers \ {r} :
             phase'[q] = phase[q] /\ call'[q] = call[q] /\ answer'[q] = answer[q]
    BY <1>1, <2>1, <2>3, RegistryKept
  <2>5. stage'[r] = "discover" /\ reply'[r] = "none" /\ phase'[r] = "open"
    BY <1>1, <2>1, <2>2, <2>3, ZenonT(60) DEF FlagTypes, RegistryTypes, Reg!Invoke
  <2>6. AnswerOf(r)'
    BY <2>1, <2>5 DEF AnswerOf
  <2> QED BY <1>2, <2>1, <2>2, <2>4, <2>6, RequestAnswering
<1> QED BY <1>3, <1>4

\* Discover finds what is offered at that moment, an unknown name nothing.
LEMMA DiscoverAnswering ==
  ASSUME Answering, NEW r \in Requests, Discover(r) PROVE Answering'
<1>1. FlagTypes /\ RequestTypes /\ AnswerOf(r) /\ RegistryTypes /\ KnownInv
  BY DEF Answering
<1>2. /\ Observe /\ UNCHANGED <<modeVars, target, chosen, reply, server, settled, mode>>
      /\ stage[r] = "discover" /\ Reg!Discover(r) /\ phase'[r] = "idle"
      /\ stage' = [stage EXCEPT ![r] = "pick"]
  BY DEF Discover, Go
<1>3. r \in Callers
  BY DEF Callers
<1>4. /\ RegistryTypes' /\ KnownInv'
      /\ \A q \in Callers \ {r} :
           phase'[q] = phase[q] /\ call'[q] = call[q] /\ answer'[q] = answer[q]
  BY <1>1, <1>2, <1>3, RegistryKept
<1>5. /\ reply[r] = "none" /\ reply' = [reply EXCEPT ![r] = "none"]
      /\ target[r] \in Targets /\ target' = [target EXCEPT ![r] = target[r]]
      /\ chosen[r] \in Instances \cup {NoInstance} /\ chosen' = [chosen EXCEPT ![r] = chosen[r]]
      /\ mode' \in [Requests -> {"on", "off", "changing"}]
      /\ stage'[r] = "pick"
  BY <1>1, <1>2 DEF FlagTypes, RequestTypes, AnswerOf
<1>6. UNCHANGED <<services, known, health>>
  BY <1>2 DEF Reg!Discover
<1>7. Serving(r)' = Serving(r)
  BY <1>2, <1>6 DEF Serving, Reg!Present
<1>8. Serving(r)' \subseteq offered'[r] /\ (Serving(r)' = {} => gap'[r])
  BY <1>1, <1>2, <1>5, Observed
<1>9. answer'[r].found = Serving(r)
  <2> DEFINE n == RouteOf[target[r]]
  <2>1. call[r].name = n
    BY <1>1, <1>2 DEF AnswerOf
  <2>2. Reg!Effect(r, IF n \in known
                        THEN [status |-> "ok",
                              found |-> {i \in Reg!Present : NameOf[i] = n /\ health[i] = "healthy"}]
                        ELSE Reg!Error)
    BY <1>2, <2>1 DEF Reg!Discover
  <2>3. CASE n \in known
    <3>1. answer' = [answer EXCEPT ![r] =
            [status |-> "ok",
             found |-> {i \in Reg!Present : NameOf[i] = n /\ health[i] = "healthy"}]]
      BY <2>2, <2>3 DEF Reg!Effect
    <3> QED BY <1>1, <1>3, <3>1 DEF RegistryTypes, Serving
  <2>4. CASE n \notin known
    <3>1. answer' = [answer EXCEPT ![r] = Reg!Error]
      BY <2>2, <2>4 DEF Reg!Effect
    <3>2. answer'[r].found = {}
      BY <1>1, <1>3, <3>1 DEF RegistryTypes, Reg!Error
    <3>3. Serving(r) = {}
      BY <1>1, <2>4 DEF KnownInv, Serving
    <3> QED BY <3>2, <3>3
  <2> QED BY <2>3, <2>4
<1>10. answer'[r].found \subseteq offered'[r] /\ (answer'[r].found = {} => gap'[r])
  BY <1>7, <1>8, <1>9
<1>11. AnswerOf(r)'
  BY <1>2, <1>5, <1>10 DEF AnswerOf
<1> QED BY <1>2, <1>4, <1>5, <1>11, RequestAnswering

LEMMA PickAnswering ==
  ASSUME Answering, NEW r \in Requests, Pick(r) PROVE Answering'
<1>1. FlagTypes /\ RequestTypes /\ AnswerOf(r) /\ RegistryTypes
  BY DEF Answering
<1>2. /\ Observe /\ UNCHANGED <<registryVars, modeVars, server, settled, mode>> /\ stage[r] = "pick"
  BY DEF Pick
<1>3. answer[r].found \subseteq offered[r] /\ (answer[r].found = {} => gap[r])
  BY <1>1, <1>2, Zenon DEF AnswerOf
<1>4. ASSUME NEW a \in {"unavailable", "panic"}, Reply(r, a), a = "unavailable" => gap[r]
      PROVE  Answering'
  BY <1>2, <1>4, ReplyAnswering
<1>5. ASSUME NEW i \in answer[r].found, chosen' = [chosen EXCEPT ![r] = i],
             NEW s \in {"send", "await"}, Go(r, s), UNCHANGED <<target, reply>>
      PROVE  Answering'
  <2>1. offered[r] \subseteq Instances
    BY <1>1 DEF RequestTypes
  <2>2. i \in Instances \cup {NoInstance} /\ i \in offered[r]
    BY <1>3, <2>1
  <2>3. stage' = [stage EXCEPT ![r] = s] /\ stage'[r] = s
    BY <1>1, <1>5 DEF Go, FlagTypes
  <2>4. offered[r] \subseteq offered'[r]
    BY <1>1, <1>2, <2>3, Observed
  <2>5. /\ reply[r] = "none" /\ reply' = [reply EXCEPT ![r] = "none"]
        /\ target[r] \in Targets /\ target' = [target EXCEPT ![r] = target[r]]
        /\ mode' \in [Requests -> {"on", "off", "changing"}]
    BY <1>1, <1>2, <1>5 DEF FlagTypes, RequestTypes, AnswerOf
  <2> QED BY <1>2, <1>5, <2>2, <2>3, <2>4, <2>5, AloneAnswering
<1> QED BY <1>3, <1>4, <1>5 DEF Pick

LEMMA SentAnswering ==
  ASSUME Answering, NEW r \in Requests, Sent(r) PROVE Answering'
<1>1. FlagTypes /\ RequestTypes /\ AnswerOf(r)
  BY DEF Answering
<1>2. /\ Observe /\ UNCHANGED <<registryVars, modeVars, target, chosen, reply, server, settled, mode>>
      /\ stage[r] = "send" /\ stage' = [stage EXCEPT ![r] = "await"]
  BY DEF Sent, Go
<1>3. stage'[r] = "await"
  BY <1>1, <1>2 DEF FlagTypes
<1>4. chosen[r] \in offered[r] /\ offered[r] \subseteq offered'[r]
  BY <1>1, <1>2, <1>3, Observed DEF AnswerOf
<1>5. /\ reply[r] = "none" /\ reply' = [reply EXCEPT ![r] = "none"]
      /\ target[r] \in Targets /\ target' = [target EXCEPT ![r] = target[r]]
      /\ chosen[r] \in Instances \cup {NoInstance} /\ chosen' = [chosen EXCEPT ![r] = chosen[r]]
      /\ mode' \in [Requests -> {"on", "off", "changing"}]
  BY <1>1, <1>2 DEF FlagTypes, RequestTypes, AnswerOf
<1> QED BY <1>2, <1>4, <1>5, AloneAnswering

\* What ends a request that is sent: the instance, its client or the deadline.
LEMMA ForwardAnswering ==
  ASSUME Answering, NEW r \in Requests, Forward(r) \/ ReadDeadline(r) PROVE Answering'
<1>1. PICK s \in {"upstream", "bad gateway"} : Reply(r, s)
  BY DEF Forward, ReadDeadline
<1>2. /\ Observe /\ UNCHANGED <<registryVars, modeVars, server, settled, mode>>
      /\ stage[r] \in {"send", "await"}
  BY DEF Forward, ReadDeadline
<1> QED BY <1>1, <1>2, ReplyAnswering

LEMMA NextAnswering == Answering /\ [Next]_vars => Answering'
<1> SUFFICES ASSUME Answering, [Next]_vars PROVE Answering'
  OBVIOUS
<1>1. ASSUME NEW r \in Requests, Arrive(r) \/ Serve(r) \/ Sent(r) \/ Forward(r) \/ ReadDeadline(r)
      PROVE  Answering'
  BY <1>1, ArriveAnswering, CheckAnswering, MatchAnswering, DiscoverAnswering, PickAnswering,
     SentAnswering, ForwardAnswering DEF Serve
<1>2. ASSUME NEW o \in Operators, OperatorCall(o) \/ OperatorReturn(o) PROVE Answering'
  BY <1>2, OperatorsAnswering
<1>3. ASSUME NEW a \in Admins, ToggleRead(a) \/ Toggling(a) PROVE Answering'
  BY <1>3, TogglesAnswering
<1>4. CASE Signal \/ Exit \/ Kill
  BY <1>4, BecomeAnswering DEF Signal, Exit, Kill
<1>5. CASE UNCHANGED vars
  BY <1>5, BecomeAnswering
<1> QED BY <1>1, <1>2, <1>3, <1>4, <1>5 DEF Next

\* With any number of requests, operators and administrators: a request is
\* sent only to an instance its service had since it came, and is told there
\* is none only if at some moment there was none.
THEOREM AnswersAgree == Spec => []AnsweredFromRegistry
<1>1. Answering => AnsweredFromRegistry
  BY DEF Answering, AnswerOf, AnsweredFromRegistry
<1> QED BY <1>1, InitAnswering, NextAnswering, PTL DEF Spec

\* Every variable of the gateway keeps its type, and a request that waits for
\* Discover is one the registry is serving.
THEOREM GatewayTypes == Spec => []GatewayTypeOK
<1>1. Answering => GatewayTypeOK
  <2> SUFFICES ASSUME Answering PROVE GatewayTypeOK
    OBVIOUS
  <2>1. FlagTypes /\ RequestTypes /\ \A r \in Requests : AnswerOf(r)
    BY DEF Answering
  <2>2. \A r \in Requests : stage[r] \in {"send", "await"} => chosen[r] \in Instances
    BY <2>1 DEF AnswerOf, RequestTypes
  <2>3. ASSUME NEW r \in Requests, stage[r] = "discover"
        PROVE  phase[r] = "open" /\ call[r].op = "discover"
    <3>1. phase[r] = "open" /\ call[r] = [op |-> "discover", name |-> RouteOf[target[r]]]
      BY <2>1, <2>3, Zenon DEF AnswerOf
    <3> QED BY <3>1
  <2> QED BY <2>1, <2>2, <2>3 DEF FlagTypes, RequestTypes, GatewayTypeOK
<1> QED BY <1>1, InitAnswering, NextAnswering, PTL DEF Spec
=============================================================================
