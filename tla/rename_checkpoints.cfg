CONSTANTS
  ARCH_REG_COUNT = 2
  FRL_DEPTH = 2
  ROB_DEPTH = 4
  NUM_CHECKPOINT = 2
  Instructions <- BranchMix
SPECIFICATION Spec
VIEW LiveState
INVARIANTS
  BranchHasCheckpoint
