SPECIFICATION Spec
CONSTANTS
  Now = 2
  Floor = 1
  HotCutoff = 2
  HotStartups = {TRUE}
  RxTimes = {1, 2}
  ObsWrites = {"insert"}
  MaxTx = 2
  MaxObs = 3
  MaxFaults = 0
  MaxMemory = 0
  ChunkSize = 1
  MergeBatch = 1
  TxLimit = 1
  ObsLimit = 1
  VerifyAttempts = 2
  InitTx = 1
  History <- MixedHistory
INVARIANT NotMergedTwice
