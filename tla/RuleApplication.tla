--------------------------- MODULE RuleApplication ---------------------------
(***************************************************************************)
(* Worker::work (src/worker.cpp): what the worker does with each process   *)
(* it takes from the queue, with the calls it makes to the kernel          *)
(* (priority.cpp) and to systemd (cgroups.cpp), while processes exec and   *)
(* exit and while a reload changes the configuration it reads              *)
(* (config.cpp).                                                           *)
(*                                                                         *)
(* An attribute of a process is "own" until a rule sets it; then it is     *)
(* written as the name of the program whose rule did.  The kernel and      *)
(* systemd are the environment: a call may succeed, find no process, be    *)
(* denied, or fail otherwise.  systemd makes one scope per pid, and        *)
(* refuses to make it again as long as the process lives.                  *)
(***************************************************************************)
EXTENDS Naturals, Sequences, FiniteSets

CONSTANTS Pids, Names,
          RuleOf,       \* what the rule of a name sets; {} when there is no rule
          RtRules,      \* names whose rule has the scheduler rr or fifo
          Configs,      \* configurations the daemon may have started with
          FileKeys,     \* keys set by the lines of the configuration file
          Kernels,      \* what the kernel may say of latency nice: it has it or not
          Denials,      \* calls may be denied or fail
          MaxChanges,   \* bound: exec calls
          MaxReloads    \* bound: reloads

Attrs == {"nice", "latnice", "sched", "ionice", "oom", "cgroup"}
Keys == Attrs \cup {"workaround"}

ASSUME RulesAssumption == /\ RuleOf \in [Names -> SUBSET Attrs]
                          /\ RtRules \subseteq {n \in Names : "sched" \in RuleOf[n]}
                          /\ {"own", "none"} \cap Names = {}
ASSUME ConfigAssumption == /\ Configs \subseteq [Keys -> BOOLEAN]
                           /\ FileKeys \subseteq Keys
                           /\ Kernels \subseteq BOOLEAN
ASSUME BoundAssumption == MaxChanges \in Nat /\ MaxReloads \in Nat

VARIABLES alive, name,    \* kernel: the processes
          realtime,       \* kernel: scheduled rr or fifo
          attr,           \* kernel and systemd: who set each attribute of each process
          changes,
          supported,      \* kernel: it has latency nice
          process_queue,  \* processes reported to the worker: <<pid, name>>
          wpc,            \* where the worker is: "poll", an attribute, "rt_move"
          cur,            \* the process it handles
          is_realtime,    \* what it read of that process at first
          config,         \* the keys that are "true"
          unread,         \* lines of the file the reload has still to assign
          file,           \* what the file says
          reloading, reloads,
          handled,        \* history: the last name each process was handled under
          troubled        \* history: processes for which a call failed

processVars == <<alive, name, realtime, attr, changes, supported>>
configVars == <<config, unread, file, reloading, reloads>>
workerVars == <<wpc, cur, is_realtime>>
historyVars == <<handled, troubled>>
vars == <<alive, name, realtime, attr, changes, supported, process_queue, wpc, cur,
          is_realtime, config, unread, file, reloading, reloads, handled, troubled>>

Init == /\ alive = [p \in Pids |-> TRUE]
        /\ name \in [Pids -> Names]
        /\ realtime \in [Pids -> BOOLEAN]
        /\ attr = [p \in Pids |-> [a \in Attrs |-> "own"]]
        /\ changes = 0
        /\ supported \in Kernels
        /\ \E p, q \in Pids : process_queue \in {<<>>, <<<<p, name[p]>>>>,
                                             <<<<p, name[p]>>, <<q, name[q]>>>>}
        /\ wpc = "poll"
        /\ \E p \in Pids : cur = <<p, name[p]>>
        /\ is_realtime = FALSE
        /\ config \in Configs /\ (config["latnice"] => supported)
        /\ unread = {} /\ file = config /\ reloading = FALSE /\ reloads = 0
        /\ handled = [p \in Pids |-> "none"]
        /\ troubled = {}

-----------------------------------------------------------------------------
(* Processes, and what the listener reports of them *)

Exec(p) == /\ alive[p] /\ changes < MaxChanges
           /\ changes' = changes + 1
           /\ \E n \in Names :
                 /\ name' = [name EXCEPT ![p] = n]
                 /\ process_queue' = Append(process_queue, <<p, n>>)
           /\ UNCHANGED <<alive, realtime, attr, supported>>
           /\ UNCHANGED configVars /\ UNCHANGED workerVars /\ UNCHANGED historyVars

Exit(p) == /\ alive[p]
           /\ alive' = [alive EXCEPT ![p] = FALSE]
           /\ UNCHANGED <<name, realtime, attr, changes, supported, process_queue>>
           /\ UNCHANGED configVars /\ UNCHANGED workerVars /\ UNCHANGED historyVars

-----------------------------------------------------------------------------
(* Config::reload, on the thread that reads the reload messages *)

BeginReload == /\ ~reloading /\ reloads < MaxReloads
               /\ reloading' = TRUE
               /\ reloads' = reloads + 1
               /\ unread' = FileKeys
               /\ file' \in [FileKeys -> BOOLEAN]
               /\ UNCHANGED <<config, process_queue>>
               /\ UNCHANGED processVars /\ UNCHANGED workerVars /\ UNCHANGED historyVars

(* config[trim(key)] = trim(value): the keys change one by one, under the  *)
(* eyes of the worker.                                                     *)
AssignLine(k) == /\ reloading /\ k \in unread
                 /\ config' = [config EXCEPT ![k] = file[k]]
                 /\ unread' = unread \ {k}
                 /\ UNCHANGED <<file, reloading, reloads, process_queue>>
                 /\ UNCHANGED processVars /\ UNCHANGED workerVars /\ UNCHANGED historyVars

(* Mutant: the support of the kernel is not looked at.                     *)
MutEndReload == /\ reloading /\ unread = {}
                /\ reloading' = FALSE
                /\ UNCHANGED <<config, unread, file, reloads, process_queue>>
                /\ UNCHANGED processVars /\ UNCHANGED workerVars /\ UNCHANGED historyVars

(* "Disable latency nice if not supported by the kernel."                  *)
EndReload == /\ reloading /\ unread = {}
             /\ reloading' = FALSE
             /\ config' = [config EXCEPT !["latnice"] = @ /\ supported]
             /\ UNCHANGED <<unread, file, reloads, process_queue>>
             /\ UNCHANGED processVars /\ UNCHANGED workerVars /\ UNCHANGED historyVars

-----------------------------------------------------------------------------
(* The worker *)

Pid == cur[1]
Rule == RuleOf[cur[2]]

(* poll returns a process; the rule is looked up and the scheduling read.  *)
Poll == /\ wpc = "poll" /\ process_queue # <<>>
        /\ cur' = Head(process_queue)
        /\ process_queue' = Tail(process_queue)
        /\ is_realtime' = (realtime[cur'[1]] /\ alive[cur'[1]])
        /\ wpc' = IF RuleOf[cur'[2]] = {} THEN "rt_move" ELSE "nice"
        /\ UNCHANGED processVars /\ UNCHANGED configVars /\ UNCHANGED historyVars

(* The order of the attributes.                                            *)
NextStep(a) == [nice |-> "latnice", latnice |-> "sched", sched |-> "ionice",
                ionice |-> "oom", oom |-> "cgroup"][a]

(* Is the attribute to be set, by the configuration and the rule?  A rule  *)
(* with a nice value sets the latency nice too.                            *)
Wanted(a) == /\ config[a]
             /\ \/ a \in Rule
                \/ a = "latnice" /\ "nice" \in Rule

(* The worker is done with the process, and goes on with the next one.     *)
Done == /\ wpc' = "poll"
        /\ handled' = [handled EXCEPT ![Pid] = cur[2]]

Skip == /\ wpc \in Attrs \ {"cgroup"}
        /\ ~Wanted(wpc)
        /\ wpc' = NextStep(wpc)
        /\ UNCHANGED <<cur, is_realtime, process_queue>>
        /\ UNCHANGED processVars /\ UNCHANGED configVars /\ UNCHANGED historyVars

(* Mutant: the tests of the results are inverted, as that of               *)
(* add_pid_to_cgroup is.                                                   *)
MutApply == /\ wpc \in Attrs \ {"cgroup"}
            /\ Wanted(wpc) /\ alive[Pid]
            /\ attr' = [attr EXCEPT ![Pid][wpc] = cur[2]]
            /\ realtime' = IF wpc = "sched"
                           THEN [realtime EXCEPT ![Pid] = cur[2] \in RtRules]
                           ELSE realtime
            /\ Done
            /\ UNCHANGED <<alive, name, changes, supported, cur, is_realtime,
                           process_queue, troubled>>
            /\ UNCHANGED configVars

(* The call succeeds.                                                      *)
Apply == /\ wpc \in Attrs \ {"cgroup"}
         /\ Wanted(wpc) /\ alive[Pid]
         /\ attr' = [attr EXCEPT ![Pid][wpc] = cur[2]]
         /\ realtime' = IF wpc = "sched"
                        THEN [realtime EXCEPT ![Pid] = cur[2] \in RtRules]
                        ELSE realtime
         /\ wpc' = NextStep(wpc)
         /\ UNCHANGED <<alive, name, changes, supported, cur, is_realtime, process_queue>>
         /\ UNCHANGED configVars /\ UNCHANGED historyVars

(* The process is gone, or so it seems when the thread that was visited    *)
(* last (ThreadPriorities) has ended: the rest is skipped, the realtime    *)
(* move included.                                                          *)
ApplyGone == /\ wpc \in Attrs \ {"cgroup"}
             /\ Wanted(wpc)
             /\ \/ ~alive[Pid] /\ UNCHANGED troubled
                \/ wpc \in {"nice", "latnice"} /\ troubled' = troubled \cup {Pid}
             /\ Done
             /\ UNCHANGED <<cur, is_realtime, process_queue>>
             /\ UNCHANGED processVars /\ UNCHANGED configVars

(* Mutant: nobody catches the exception, and the thread goes down.         *)
MutApplyDenied == /\ Denials
                  /\ wpc \in Attrs \ {"cgroup"}
                  /\ Wanted(wpc) /\ alive[Pid]
                  /\ troubled' = troubled \cup {Pid}
                  /\ wpc' = "terminated"
                  /\ UNCHANGED <<cur, is_realtime, process_queue, handled>>
                  /\ UNCHANGED processVars /\ UNCHANGED configVars

(* EPERM or EACCES: test_errno throws, the handler of the loop catches,    *)
(* and only the realtime move is left.  An oom_score_adj that cannot be    *)
(* opened makes the worker go on with the next process instead.            *)
ApplyDenied == /\ Denials
               /\ wpc \in Attrs \ {"cgroup"}
               /\ Wanted(wpc) /\ alive[Pid]
               /\ troubled' = troubled \cup {Pid}
               /\ IF wpc = "oom" THEN Done ELSE wpc' = "rt_move" /\ UNCHANGED handled
               /\ UNCHANGED <<cur, is_realtime, process_queue>>
               /\ UNCHANGED processVars /\ UNCHANGED configVars

(* Any other errno: test_errno returns -1, which a bool takes for true; an *)
(* unknown class or an invalid I/O priority is true as well.  An unknown   *)
(* scheduler makes the worker go on with the next process.                 *)
ApplyFails == /\ Denials
              /\ wpc \in Attrs \ {"cgroup"}
              /\ Wanted(wpc) /\ alive[Pid]
              /\ troubled' = troubled \cup {Pid}
              /\ \/ wpc' = NextStep(wpc) /\ UNCHANGED handled
                 \/ wpc = "sched" /\ Done
              /\ UNCHANGED <<cur, is_realtime, process_queue>>
              /\ UNCHANGED processVars /\ UNCHANGED configVars

(* StartTransientUnit of ananicy-ng-<pid>.scope in a slice (mode "fail").  *)
(* format_slice_name makes ".slice" of the name "" of the root, which is   *)
(* no valid unit name.                                                     *)
Accepts(p, slice) == alive[p] /\ slice # "" /\ attr[p]["cgroup"] = "own"

add_pid_to_cgroup(p, slice) ==
    attr' = IF Accepts(p, slice) THEN [attr EXCEPT ![p]["cgroup"] = slice] ELSE attr

(* "Cgroups are not compatible with realtime scheduling for now", or the   *)
(* rule has no cgroup.                                                     *)
SkipCgroup == /\ wpc = "cgroup"
              /\ (is_realtime /\ config["workaround"]) \/ ~Wanted("cgroup")
              /\ wpc' = "rt_move"
              /\ UNCHANGED <<cur, is_realtime, process_queue>>
              /\ UNCHANGED processVars /\ UNCHANGED configVars /\ UNCHANGED historyVars

(* add_pid_to_cgroup returns 0 for success, which worker.cpp:115 takes for *)
(* a failure: the worker goes on with the next process.                    *)
MoveToCgroup == /\ wpc = "cgroup"
                /\ ~(is_realtime /\ config["workaround"]) /\ Wanted("cgroup")
                /\ add_pid_to_cgroup(Pid, cur[2])
                /\ IF Accepts(Pid, cur[2]) THEN Done ELSE wpc' = "rt_move" /\ UNCHANGED handled
                /\ UNCHANGED <<alive, name, realtime, changes, supported, cur, is_realtime,
                               process_queue, troubled>>
                /\ UNCHANGED configVars

(* "Moving realtime process to root cgroup"                                *)
RtMove == /\ wpc = "rt_move"
          /\ IF is_realtime /\ config["workaround"]
             THEN add_pid_to_cgroup(Pid, "")
             ELSE UNCHANGED attr
          /\ Done
          /\ UNCHANGED <<alive, name, realtime, changes, supported, cur, is_realtime,
                         process_queue, troubled>>
          /\ UNCHANGED configVars

Worker == \/ Poll \/ Skip \/ Apply \/ ApplyGone \/ ApplyDenied \/ ApplyFails
          \/ SkipCgroup \/ MoveToCgroup \/ RtMove

-----------------------------------------------------------------------------

Next == \/ \E p \in Pids : Exec(p) \/ Exit(p)
        \/ BeginReload \/ (\E k \in FileKeys : AssignLine(k)) \/ EndReload
        \/ Worker

(* The worker runs.                                                        *)
Fairness == WF_vars(Worker)

Spec == Init /\ [][Next]_vars

FairSpec == Spec /\ Fairness

-----------------------------------------------------------------------------

(* Every variable keeps its type.                                          *)
TypeOK == /\ alive \in [Pids -> BOOLEAN] /\ name \in [Pids -> Names]
          /\ realtime \in [Pids -> BOOLEAN]
          /\ attr \in [Pids -> [Attrs -> Names \cup {"own"}]]
          /\ supported \in BOOLEAN
          /\ changes \in 0..MaxChanges /\ reloads \in 0..MaxReloads
          /\ process_queue \in Seq(Pids \X Names)
          /\ wpc \in Attrs \cup {"poll", "rt_move"}
          /\ cur \in Pids \X Names
          /\ is_realtime \in BOOLEAN /\ reloading \in BOOLEAN
          /\ config \in [Keys -> BOOLEAN] /\ unread \subseteq FileKeys
          /\ handled \in [Pids -> Names \cup {"none"}] /\ troubled \subseteq Pids

(* Once the worker has caught up, a process it has handled, for which no   *)
(* call failed, has every attribute of the rule of its present name, under *)
(* whatever names it was handled before.  The slice is that of the first   *)
(* rule that asked for one.                                                *)
CaughtUp == wpc = "poll" /\ process_queue = <<>> /\ reloads = 0

LastRuleWins ==
    CaughtUp => \A p \in Pids :
        alive[p] /\ handled[p] # "none" /\ p \notin troubled
        => /\ handled[p] = name[p]
           /\ \A a \in RuleOf[name[p]] \ {"cgroup"} : config[a] => attr[p][a] = name[p]
           /\ config["latnice"] /\ "nice" \in RuleOf[name[p]] => attr[p]["latnice"] = name[p]

(* A call for one process that is denied or fails, and a process that      *)
(* exits in the middle, keep the worker neither from the reports of other  *)
(* processes nor from later ones of the same: once a process is reported,  *)
(* all its reports are handled, the last under its present name, and the   *)
(* worker is back at the queue (worker.cpp:30, 118-122).                   *)
Reported(p) == \E i \in 1..Len(process_queue) : process_queue[i][1] = p

AllHandled == \A p \in Pids :
    Reported(p) ~> (wpc = "poll" /\ ~Reported(p) /\ handled[p] = name[p])

(* Between reloads, the worker is never told to set the latency nice on a  *)
(* kernel without it.                                                      *)
LatniceSettled == ~reloading /\ config["latnice"] => supported

(* "Cgroups are not compatible with realtime scheduling for now"           *)
(* (worker.cpp:109-110): with the workaround on, no realtime process is    *)
(* moved to the slice of a rule.                                           *)
RealtimeNotSliced ==
    [][\A p \in Pids : attr'[p]["cgroup"] # attr[p]["cgroup"] /\ config["workaround"]
                          => ~realtime[p]]_vars
=============================================================================
