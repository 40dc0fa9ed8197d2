SPECIFICATION Spec
CONSTANTS
  Undecodable = Undecodable
  Nil = Nil
  Codes = {}
  OpIndexes = {}
  MaxResponseBytes = 2
  Conditions = {"even", "notFirst"}
  Rows <- Table
  Satisfying <- Filtered
  Limits <- SomeLimits
  Constants = {0, 1}
  Projections <- SomeProjections
  Exchanges <- RoundTrips
  MaxStaged = 2
INVARIANT PagesOfTheSearch
PROPERTY EveryPageBringsHits
