SPECIFICATION FairSpec
CONSTANTS
  BUF_LEN = 3
  FIFO_LEN = 1
  TIMEOUT = 2
  Counts = {2}
  MaxBytes = 4
INVARIANTS
  TransmitterNotStuck
  ReceiverNotDeaf
PROPERTIES
  OutputIsQueue
  InputIsQueue
  WriteEnds
  OutputDelivered
