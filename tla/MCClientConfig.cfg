SPECIFICATION Spec
CONSTANTS
  c1 = c1
  c2 = c2
  Clients <- BothClients
  h = h
  u = u
  w = w
  Apps = {h}
  NoHTTP = NoHTTP
  AppTimeout <- OneMinute
  Timeouts = {0, 5}
  None = None
  Tokens <- SomeTokens
  Users <- SomeUsers
  Passwords <- SomePasswords
  MaxOptions = 3
SYMMETRY Swap
INVARIANTS
  TokenWins
  OwnTimeout
  AppTimeoutIsAskedFor
CHECK_DEADLOCK FALSE
