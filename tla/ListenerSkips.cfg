CONSTANTS NPids = 1
          Names = {"sh", "game"}
          SocketBuffer = 2
          MaxExecs = 1
          Faults = {}
          MaxFaults = 0
          Modes = {FALSE}
          MayStop = FALSE
SPECIFICATION Spec
PROPERTIES SkipsOnlyEqual
