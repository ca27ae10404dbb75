CONSTANTS
  ARCH_REG_COUNT = 3
  FRL_DEPTH = 2
  ROB_DEPTH = 2
  NUM_CHECKPOINT = 2
  Instructions <- AllKinds
SPECIFICATION Spec
VIEW LiveState
INVARIANTS
  TypeOK
  RegistersConserved
  RenamingFollowsProgramOrder
  Stage2FindsEntry
  SerializingIsYoungest
  CsrPortExclusive
  ReadyBitsTruthful
PROPERTIES
  TrapIsPrecise
