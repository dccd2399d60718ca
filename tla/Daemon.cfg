CONSTANTS Capacity = 2
          Processes = 2
          Options = {"manual-scanning", "benchmark"}
          BenchmarkCounts = {0, 3}
          MaxSignals = 2
SPECIFICATION FairSpec
INVARIANTS NobodyLeftBehind Outlived
PROPERTIES ShutsDown ImplementsLock
CHECK_DEADLOCK FALSE
