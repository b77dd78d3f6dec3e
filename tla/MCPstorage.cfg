CONSTANTS
  PageWords = 6
  NumPages = 3
  BlockWords = 2
  BlockCount = 8
  PSTORAGE_CMD_QUEUE_SIZE = 2
  SD_CMD_MAX_TRIES = 2
  Requests <- MCRequests
  MaxRequests = 2
  MaxEnds = 2

SPECIFICATION Spec

VIEW MCView

INVARIANTS KeptInFlash GivenUpAfterTries

PROPERTIES NotifiedIsStored EveryCommandEnds

