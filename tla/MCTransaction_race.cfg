\* Two transactions, one of them shared by goroutines, and direct calls use one
\* key; every call returns, even if the daemon never answers.
SPECIFICATION FairSpec
CONSTANTS
  Undecodable = Undecodable
  Nil = Nil
  Codes = {}
  OpIndexes = {}
  MaxResponseBytes = 4
  v1 = v1
  v2 = v2
  Txns = {t1, t2}
  Shared = {t2}
  Direct = Direct
  ReqIds = {r1, r2}
  Unused = Unused
  Keys = {k1}
  NoKey = NoKey
  Nobody = Nobody
  CellMaps <- OneRow
  UpdateMaps <- NoMaps
  RowIds = {}
  PKs = {}
  Returnings = {FALSE}
  MaxOps = 1
  RefusalStatuses = {403}
INVARIANTS
  IInv
  OneAckPerTransaction
  FailedStaysRetryable
  RefusalMeansNotApplied
PROPERTIES
  EveryCallReturns
