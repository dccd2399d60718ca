CONSTANTS Producers = {main, event}
          Scanner = main
          ScanSize = 2
          MaxPushes = 3
          Size = 2
          Wrap = 10
          Backlog = 6
          UsedBefore = {0, 9}
          Nothing = Nothing
SPECIFICATION FairSpec
INVARIANTS TypeOK SlotExclusive NoLoss NoEmptyWait
PROPERTIES FifoWhileItFits Delivery
