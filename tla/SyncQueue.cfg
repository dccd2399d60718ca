CONSTANTS Producers = {main, event}
          Readers = {r1, r2}
          Ops = {"poll", "pop"}
          MaxPushes = 2
          NoThread = NoThread
          Nothing = Nothing
SPECIFICATION FairSpec
INVARIANTS FrontNeverEmpty WakeupsCover
PROPERTIES ImplementsFifo Delivery
