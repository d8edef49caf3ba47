CONSTANTS
  N = 3
  Names = {"a", "b", "c"}
  Modes = {"tiered", "memory"}
  PENDING_CREATE_MAX = 1
  FIRST_NAMED_NS_ID = 1
  Founded <- TwoTiered
  DROPPED_NS_MAX = 1
  Workloads <- ThreeCellWorkloads
SPECIFICATION FairSpec
CHECK_DEADLOCK FALSE
INVARIANTS
  CellsAgreeBetweenDdls ServedIsCatalogued ResidueExplained FilesOutliveCatalog DropIsFinal
  IdsNeverReused RefusedOnlyInDropWindow
PROPERTY DdlAnswered
