CONSTANTS Instances = {service, byhand}
          Service = service
          NoObject = NoObject
          Orphan = Orphan
          MaxCrashes = 1
          Clients = {c1}
          MaxEdits = 1
          MaxRequests = 2
          AttachMayFail = TRUE
SPECIFICATION FairServiceSpec
INVARIANTS AtMostOneOwner NoUnaskedReload
PROPERTIES BackUnlessOrphaned IdleRequestServed
