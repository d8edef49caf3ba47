CONSTANTS
  HASHES = 1
  WINDOW = 3
  FILE_RECORDS = 2
  RELOC_ORIGIN_CAP = 1
  SHADOW_TICKETS_CAP = 2
  PIN_CAP = 3
  DISPLACE_REGISTER_CAP = 2
  Keys = {1}
  LogKeepsUp = FALSE
  Workloads <- StaleTwinWorkloads
SPECIFICATION Spec
CHECK_DEADLOCK FALSE
PROPERTY BootKeepsCovered
