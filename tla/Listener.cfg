CONSTANTS NPids = 2
          Names = {"sh", "game"}
          SocketBuffer = 1
          MaxExecs = 1
          Faults = {"bad", "deaf", "null", "zero"}
          MaxFaults = 1
          Modes = {TRUE, FALSE}
          MayStop = TRUE
SPECIFICATION FairSpec
INVARIANTS TypeOK NoUseAfterDestroy
PROPERTIES StopReturns Detection DetectionByScanning
CHECK_DEADLOCK FALSE
