\* Three attempts, at once or not, of one transaction and of direct calls, any of them late or lost.
SPECIFICATION Spec
CONSTANTS
  Undecodable = Undecodable
  Nil = Nil
  Codes = {}
  OpIndexes = {}
  MaxResponseBytes = 4
  v1 = v1
  v2 = v2
  Txns = {t1}
  Shared = {t1}
  Direct = Direct
  ReqIds = {r1, r2, r3}
  Unused = Unused
  Keys = {k1}
  NoKey = NoKey
  Nobody = Nobody
  CellMaps <- TwoColumns
  UpdateMaps <- NoMaps
  RowIds = {}
  PKs = {}
  Returnings = {FALSE}
  MaxOps = 1
  RefusalStatuses = {307}
SYMMETRY Symmetry
INVARIANTS
  AtMostOncePerKey
  AckedIsDurable
  NoSpuriousMismatch
PROPERTIES
  ServiceSpec
