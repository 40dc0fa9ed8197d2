\* Batches of up to two operations of every kind.
SPECIFICATION Spec
CONSTANTS
  Undecodable = Undecodable
  Nil = Nil
  Codes = {}
  OpIndexes = {}
  MaxResponseBytes = 4
  v1 = v1
  v2 = v2
  Txns = {t1}
  Shared = {}
  Direct = Direct
  ReqIds = {r1, r2}
  Unused = Unused
  Keys = {}
  NoKey = NoKey
  Nobody = Nobody
  CellMaps <- OneRow
  UpdateMaps <- NothingOrColumn
  RowIds = {5}
  PKs = {7}
  Returnings = {FALSE}
  MaxOps = 2
  RefusalStatuses = {}
SYMMETRY Symmetry
INVARIANTS
  TypeOK
  CommittedMeansDurable
