SPECIFICATION Spec
CONSTANTS
  None = None
  NaN = NaN
  Empty = Empty
  DefaultDataDir = "/var/lib/teku"
  PEERS_WARN_BELOW = 2
  FINALITY_WARN_ABOVE = 3
  FINALITY_FAIL_ABOVE = 6
  SLOTS_PER_EPOCH = 2
  DISK_WARN_BELOW = 5
  DISK_FAIL_BELOW = 2
  MEM_WARN_BELOW = 1
  RESTARTS_FAIL_AT = 5
  LOAD_WARN_ABOVE_PER_CPU = 1
  LOAD_FAIL_ABOVE_PER_CPU = 2
  Nodes <- MCNodes
  Givens <- MCGivens
  MAX_TROUBLE = 2
INVARIANTS
    ReportIsComplete
    OutageCostsOnce
    DefaultsFitTheNode
