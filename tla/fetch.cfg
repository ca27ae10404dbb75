CONSTANTS
  None = None
  PC_COUNT = 9
  FetchAddrs <- Pcs
  NoFetchAddr = None
  NUM_WAYS = 4
  ONE_WAY_DEPTH = 2
  FETCH_INSTR_NUM = 3
  Targets <- TwoTargets
SPECIFICATION FairSpec
INVARIANTS
  TypeOK
  FetchInOrder
PROPERTIES
  Supplied
