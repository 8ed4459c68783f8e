SPECIFICATION Spec
CONSTANTS
  Default <- MCDefault
  MaxPort = 5
  NoFile = NoFile
  Users <- MCUsers
  Secret = Secret
  NoSecret = NoSecret
  Methods <- MCMethods
  Table <- MCTable
  MaxBodyOf <- MCMaxBodyOf
  HeadersOf <- MCHeadersOf
  Params <- MCParams
  CatchAll = CatchAll
  Files <- MCFiles
  Arrivals <- MCArrivals
  Claimed <- MCClaimed
  Checks <- MCChecks
  NoToken = NoToken
  NoPair = NoPair
  NoRequest = NoRequest
  Nothing = Nothing
  Start = 2
  MaxTime = 5
INVARIANT RoutesServed
CHECK_DEADLOCK FALSE
