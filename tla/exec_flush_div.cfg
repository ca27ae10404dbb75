CONSTANTS
  ARCH_REG_COUNT = 1
  FRL_DEPTH = 1
  NUM_CHECKPOINT = 1
  ROB_DEPTH = 4
  QUEUE_DEPTH = 2
  MUL_CYCLES = 2
  DIV_CYCLES = 3
  LSB_DEPTH = 2
  SOURCES = 1
  REFETCH = 1
  Mixes <- BranchAndDiv
SPECIFICATION Spec
VIEW ByDepth
PROPERTIES
  OlderSurvivesFlush
