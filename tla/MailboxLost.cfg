CONSTANTS Instances = {service}
          Service = service
          NoObject = NoObject
          Orphan = Orphan
          MaxCrashes = 0
          Clients = {c1}
          MaxEdits = 2
          MaxRequests = 2
          AttachMayFail = FALSE
SPECIFICATION FairServiceSpec
PROPERTIES EveryRequestServed
