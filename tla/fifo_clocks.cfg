CONSTANTS
  ADDR_WIDTH = 2
  SKEW = FALSE
  FIFO_DEPTH = 4
  ALMOST_FULL_GAP = 1
  ALMOST_EMPTY_GAP = 1
  Zero = Zero
  one = one
  Data <- Words
SPECIFICATION FairSpec
INVARIANTS
  TypeOK
  ViewsLag
  AlmostFullInTime
PROPERTIES
  ImplementsPointerFifo
  WordsInOrder
  EachSideLearns
