SPECIFICATION FairSpec
CONSTANTS
  Sizes = {0, 1, 2}
  MaxMessages = 3
  MaxTorn = 7
  RxDepth = 1
CHECK_DEADLOCK FALSE
INVARIANTS
  AnswersMatchCommands
  ListensInDataMode
  OnlyCutOffBlocks
PROPERTIES
  CarriesMessages
  DropOnlyIfGone
  GoneCountsDown
  GoneIsNoticed
