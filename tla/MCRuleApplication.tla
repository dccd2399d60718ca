-------------------------- MODULE MCRuleApplication --------------------------
(* RuleApplication with a few rules: an ordinary one, one that makes the   *)
(* process realtime and moves it to a slice, and a name without a rule.    *)
EXTENDS RuleApplication

CONSTANT Bystanders   \* processes that start as ordinary shells

MCRuleOf == [game |-> {"nice", "cgroup"},
             audio |-> {"sched", "oom", "cgroup"},
             sh |-> {}]

AllOn == [k \in Keys |-> TRUE]

(* Everything on; latency nice off; cgroups off too.                       *)
MCConfigs == {AllOn, [AllOn EXCEPT !["latnice"] = FALSE],
              [AllOn EXCEPT !["latnice"] = FALSE, !["cgroup"] = FALSE]}

(* Two processes that start alike differ in their pids only: one of them   *)
(* starts as anything, the other as a shell, which may exec any program.   *)
MCInit == /\ Init
          /\ \A p \in Bystanders : name[p] = "sh" /\ ~realtime[p] /\ cur[1] # p

MCSpec == MCInit /\ [][Next]_vars /\ Fairness
=============================================================================
