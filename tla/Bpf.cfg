CONSTANTS NPids = 2
          Names = {"sh", "game"}
          BufferSize = 1
          MaxExecs = 2
          MaxFaults = 2
          MayStop = TRUE
SPECIFICATION FairSpec
INVARIANTS TypeOK NothingUsedFreed
PROPERTIES StopReturns Detection
CHECK_DEADLOCK FALSE
