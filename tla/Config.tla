------------------------------- MODULE Config -------------------------------
(***************************************************************************)
(* internal/config/config.go: Load reads config.yaml once, when the        *)
(* process starts.  A configuration gives each setting a number.  Go's     *)
(* zero value, which is also what a setting has that the file leaves out   *)
(* or turns off, is 0; a flag that is on is 1; a text is some number that  *)
(* is not 0; a duration may be negative.  One rule stands for all that     *)
(* rate_limit.api_limit may have.                                          *)
(*                                                                         *)
(* Left out: the settings of which nothing in the program depends but      *)
(* their text or a time the HTTP server uses.                              *)
(***************************************************************************)
EXTENDS Integers

Flags == {"dynamic", "limited", "xss", "sql", "api"}
Amounts == {"port", "secret", "expiration", "refresh", "global",
            "ipRequests", "ipWindow", "userRequests", "userWindow",
            "apiRequests", "apiWindow"}
Settings == Flags \cup Amounts

\* Those that setDefaults fills in: not those of the rules of api_limit.
Defaulted == Settings \ {"dynamic", "limited", "api", "apiRequests", "apiWindow"}

CONSTANTS
  Default,  \* the value setDefaults gives them
  MaxPort,  \* 65535
  NoFile    \* config.yaml cannot be read or parsed

ASSUME ConfigAssumption ==
  /\ Default \in [Defaulted -> Nat \ {0}]
  /\ Default["port"] <= MaxPort
  /\ Default["xss"] = 1 /\ Default["sql"] = 1
  /\ MaxPort \in Nat

Configurations ==
  {c \in [Settings -> Int] : \A f \in Flags : c[f] \in {0, 1}}

\* 0 cannot be told from a setting that is left out, nor "false" from a flag
\* that is: a limit of 0 becomes the default, and no file turns a filter off.
SetDefaults(c) ==
  [k \in Settings |-> IF k \in Defaulted /\ c[k] = 0 THEN Default[k] ELSE c[k]]

\* Fault: of the limits only the global one is looked at.
ValidatePartly(c) ==
  /\ 0 < c["port"] /\ c["port"] <= MaxPort
  /\ c["secret"] # 0
  /\ c["limited"] = 1 => c["global"] > 0

Validate(c) ==
  /\ 0 < c["port"] /\ c["port"] <= MaxPort
  /\ c["secret"] # 0
  /\ c["limited"] = 1 => /\ c["global"] > 0
                         /\ c["ipRequests"] >= 0
                         /\ c["userRequests"] >= 0

\* Whether Load returns a configuration, and which.
Loads(file) == file # NoFile /\ Validate(SetDefaults(file))
Loaded(file) == SetDefaults(file)

\* The limiters that are installed, and the number of requests each is given:
\* NewRateLimitMiddleware's three, and the one APIRateLimit makes for a rule.
Limits(c) ==
  [l \in {"global", "ip", "user"} \cup (IF c["api"] = 1 THEN {"api"} ELSE {}) |->
     CASE l = "global" -> c["global"]
       [] l = "ip" -> c["ipRequests"]
       [] l = "user" -> c["userRequests"]
       [] l = "api" -> c["apiRequests"]]
=============================================================================
