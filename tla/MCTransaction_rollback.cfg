\* What the docs say of Rollback after a failed Commit.
SPECIFICATION Spec
CONSTANTS
  Undecodable = Undecodable
  Nil = Nil
  Codes = {}
  OpIndexes = {}
  MaxResponseBytes = 4
  v1 = v1
  v2 = v2
  Txns = {t1}
  Shared = {}
  Direct = Direct
  ReqIds = {r1}
  Unused = Unused
  Keys = {k1}
  NoKey = NoKey
  Nobody = Nobody
  CellMaps <- OneRow
  UpdateMaps <- NoMaps
  RowIds = {}
  PKs = {}
  Returnings = {FALSE}
  MaxOps = 1
  RefusalStatuses = {409}
PROPERTIES
  RollbackAfterFailureRefused
