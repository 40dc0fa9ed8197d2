SPECIFICATION Spec
CONSTANTS
  Undecodable = Undecodable
  Nil = Nil
  Codes = {}
  OpIndexes = {}
  MaxResponseBytes = 2
  Callers = {c1}
  Windows = {1, 2}
  Exchanges <- RoundTrips
  MaxEpoch = 4
  MaxStatements = 2
INVARIANTS
  RetentionWasTrue
  SetReportsItsUpdate
  StatusWasTrue
