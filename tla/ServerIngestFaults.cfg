SPECIFICATION FairSpec
CONSTANTS
  Now = 2
  Floor = 1
  HotCutoff = 2
  HotStartups = {TRUE, FALSE}
  RxTimes = {2}
  ObsWrites = {"insert"}
  MaxTx = 2
  MaxObs = 2
  MaxFaults = 1
  MaxMemory = 3
  ChunkSize = 1
  MergeBatch = 1
  TxLimit = 1
  ObsLimit = 1
  VerifyAttempts = 2
  InitTx = 1
  History <- OldHistory
INVARIANTS CursorCovers ConsistentUnlessReplayed
PROPERTIES LoadEnds NewTransmissionsArrive
