SPECIFICATION Spec
CONSTANTS
  Undecodable = Undecodable
  Nil = Nil
  Codes = {c1}
  OpIndexes = {0, 1}
  MaxResponseBytes = 3
  MaxSize = 6
  Statuses = {200, 299, 300, 307, 401, 404, 409, 500}
  Ids = {0, 2, 7, 10, 11}
  Values = {a, b}
  Unset = Unset
  Scalars = {false, empty, text}
  MultiByte <- SomeRunes
  MaxPieces = 3
INVARIANT NetworkErrorsAreTyped
CHECK_DEADLOCK FALSE
