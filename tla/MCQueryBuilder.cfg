SPECIFICATION Spec
CONSTANTS
  Undecodable = Undecodable
  Nil = Nil
  Codes = {}
  OpIndexes = {}
  MaxResponseBytes = 2
  Asked <- Conditions
  Projections <- Lists
  Bounds = {0, 1}
  Exchanges <- RoundTrips
  MaxConditions = 2
INVARIANTS
  ConditionsMeanWhatWasAsked
  TruncatedTellsOfLastRows
