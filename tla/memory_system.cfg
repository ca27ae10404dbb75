CONSTANTS
  LINES = 2
  WORDS_PER_LINE = 2
  NUM_SETS = 1
  NUM_WAYS = 1
  I_SETS = 2
  I_WAYS = 1
  LoadWords <- OtherLine
  StoreWords <- LastWord
  FetchWords <- LastWord
SPECIFICATION FairSpec
INVARIANTS
  TypeOK
  FetchesSeeFence
  CleanAtDone
PROPERTIES
  ImplementsPorts
  Answered
