CONSTANTS
  ARCH_REG_COUNT = 2
  FRL_DEPTH = 1
  ROB_DEPTH = 2
  NUM_CHECKPOINT = 2
  Instructions <- LegalMix
SPECIFICATION FairSpec
PROPERTIES
  HeadProgress
  StallsReleased
