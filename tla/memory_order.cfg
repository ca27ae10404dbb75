CONSTANTS
  ARCH_REG_COUNT = 1
  FRL_DEPTH = 1
  NUM_CHECKPOINT = 1
  ROB_DEPTH = 3
  LSQ_DEPTH = 2
  SAB_DEPTH = 4
  SB_DEPTH = 2
  LSB_DEPTH = 2
  MAX_STORES = 3
  Addrs = {a1, a2}
  NoAddr = NoAddr
  FLUSH_AFTER_COMMIT = FALSE
  FLUSH_COUNTED = FALSE
  Mixes <- BranchOrFence
SPECIFICATION Spec
VIEW ByDepth
SYMMETRY AddrSymmetry
INVARIANTS
  TypeOK
  LoadsSeeProgramOrder
  AddressBufferExact
  JuniorCountersExact
  FenceHoldsLoads
  AnswersAreTaken
PROPERTIES
  WritesInProgramOrder
