CONSTANTS Pids = {p1, p2}
          Bystanders = {p2}
          Names = {"game", "audio", "sh"}
          RuleOf <- MCRuleOf
          RtRules = {"audio"}
          Configs <- MCConfigs
          FileKeys = {"latnice"}
          Kernels = {TRUE, FALSE}
          Denials = TRUE
          MaxChanges = 1
          MaxReloads = 1
SPECIFICATION MCSpec
INVARIANTS TypeOK LastRuleWins LatniceSettled
PROPERTIES AllHandled
CHECK_DEADLOCK FALSE
