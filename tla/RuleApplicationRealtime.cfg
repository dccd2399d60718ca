CONSTANTS Pids = {p1}
          Bystanders = {}
          Names = {"game", "audio", "sh"}
          RuleOf <- MCRuleOf
          RtRules = {"audio"}
          Configs <- MCConfigs
          FileKeys = {"latnice"}
          Kernels = {TRUE, FALSE}
          Denials = TRUE
          MaxChanges = 2
          MaxReloads = 0
SPECIFICATION Spec
PROPERTIES RealtimeNotSliced
CHECK_DEADLOCK FALSE
