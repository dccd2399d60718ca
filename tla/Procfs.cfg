CONSTANTS Callers = {"main", "event"}
          SkipExeFailures = 2
          MaxDenials = 3
          Leader = t0
          Threads = {t0, t1, t2}
SPECIFICATION Spec
INVARIANTS TypeOK OnlyDenialsCount NoThreadSkipped GoneForAReason
