----------------------------- MODULE BpfListener -----------------------------
(***************************************************************************)
(* ProcessQueue in the build with USE_BPF_PROC_IMPL: the programs in the   *)
(* kernel that tell of forks and execs, the thread that polls their buffer *)
(* and pushes processes, its restart after an error, and the stop, which   *)
(* reaches the thread through two flags, g_exiting and the stop token.     *)
(*                                                                         *)
(* The queue to the worker is in order (ProcessFifo), so what matters of   *)
(* it is the last name pushed for each process.  One thread pushes at a    *)
(* time here (the scans of --manual-scanning, made by main beside the      *)
(* event thread, are in ProcessListener), so a process is read and pushed  *)
(* in one step.  A use of what was freed, undefined, ends in "aborted".    *)
(***************************************************************************)
EXTENDS Naturals, SequencesExt

CONSTANTS NPids,      \* processes are 1..NPids, in the order /proc lists them
          Names,
          BufferSize, \* records the perf buffer can hold
          MaxExecs,   \* bound: execs
          MaxFaults,  \* bound: errors of poll and of initialize
          MayStop

Pids == 1..NPids

ASSUME BpfAssumption == /\ NPids \in Nat /\ BufferSize \in Nat
                        /\ MaxExecs \in Nat /\ MaxFaults \in Nat
                        /\ MayStop \in BOOLEAN
                        /\ Names \cap {"unborn", "gone"} = {}

VARIABLES name, execs,    \* kernel: as in ProcessListener
          prev_exec,      \* kernel: the static prev_pid of handle_exec
          prev_fork,      \* kernel: the static prev_pid of handle_fork
          records,        \* kernel: events in the perf buffer
          bpf_program,    \* m_bpf_program: "null", "live" or "freed"
          perf_buffer,    \* m_perf_buffer: "null" or "live"
          m_status,
          g_exiting, stop_requested,
          epc, main,      \* where the two threads are
          cursor,         \* of the scan: no process below it is to be read
          faults,         \* errors so far
          reported,       \* history: the last name pushed for each process
          missed,         \* history: processes that changed without being noticed
          overtaken       \* history: a restart went on between the two flags of a stop

kernelVars == <<name, execs, prev_exec, prev_fork>>
programVars == <<records, bpf_program, perf_buffer, m_status>>
flags == <<g_exiting, stop_requested>>
historyVars == <<reported, missed, overtaken>>
vars == <<name, execs, prev_exec, prev_fork, records, bpf_program, perf_buffer,
          m_status, g_exiting, stop_requested, epc, main, cursor, faults,
          reported, missed, overtaken>>

Alive(p) == name[p] \in Names

Init == /\ name \in [Pids -> {"unborn"} \cup Names]
        /\ execs = 0 /\ prev_exec = 0 /\ prev_fork = 0
        /\ records = <<>>
        /\ bpf_program = "null" /\ perf_buffer = "null"
        /\ m_status = TRUE
        /\ g_exiting = FALSE /\ stop_requested = FALSE
        /\ epc = "unstarted" /\ main = "scan"
        /\ cursor = 1 /\ faults = 0
        /\ reported = [p \in Pids |-> "unborn"]
        /\ missed = {} /\ overtaken = FALSE

-----------------------------------------------------------------------------
(* The kernel: handle_exec and handle_fork of ananicy_cpp_ng.bpf.c         *)

Attached == bpf_program = "live"

(* bpf_perf_event_output: a record that does not fit is lost.              *)
Output(p, prev_pid) ==
    records' = IF Attached /\ Len(records) < BufferSize
               THEN Append(records, [pid |-> p, prev_pid |-> prev_pid]) ELSE records

(* Nothing will be pushed for what p does now: the scan that precedes the  *)
(* programs has gone past it, or its record is lost, or tells of the same  *)
(* process as the one before.                                              *)
Unnoticed(p, prev_pid) ==
    IF Attached THEN Len(records) >= BufferSize \/ prev_pid = p
    ELSE "scan" \notin {main, epc} \/ cursor > p

Exec(p) == /\ Alive(p) /\ execs < MaxExecs
           /\ execs' = execs + 1
           /\ \E n \in Names \ {name[p]} : name' = [name EXCEPT ![p] = n]
           /\ Output(p, prev_exec)
           /\ prev_exec' = IF Attached THEN p ELSE prev_exec
           /\ missed' = IF Unnoticed(p, prev_exec) THEN missed \cup {p} ELSE missed
           /\ UNCHANGED <<prev_fork, bpf_program, perf_buffer, m_status, epc, main,
                          cursor, faults, reported, overtaken>>
           /\ UNCHANGED flags

(* The record is about the process that forks, not about its child.        *)
Fork(parent, p) ==
    /\ Alive(parent) /\ name[p] = "unborn"
    /\ name' = [name EXCEPT ![p] = name[parent]]
    /\ Output(parent, prev_fork)
    /\ prev_fork' = IF Attached THEN parent ELSE prev_fork
    /\ missed' = IF Attached \/ Unnoticed(p, 0) THEN missed \cup {p} ELSE missed
    /\ UNCHANGED <<execs, prev_exec, bpf_program, perf_buffer, m_status, epc, main,
                   cursor, faults, reported, overtaken>>
    /\ UNCHANGED flags

Exit(p) == /\ Alive(p)
           /\ name' = [name EXCEPT ![p] = "gone"]
           /\ UNCHANGED <<execs, prev_exec, prev_fork, epc, main, cursor, faults>>
           /\ UNCHANGED <<programVars, flags, historyVars>>

Kernel == \E p \in Pids : Exec(p) \/ Exit(p) \/ \E parent \in Pids : Fork(parent, p)

-----------------------------------------------------------------------------
(* The parts of init() and destroy(), made by main or by the event thread  *)

ToRead == {p \in Pids : p >= cursor /\ Alive(p)}

(* Mutant: the iterator is incremented once more.                          *)
MutNextOf(p) == p + 2

NextOf(p) == p + 1

ScanOne == /\ \E p \in ToRead :
                 /\ \A q \in ToRead : p <= q
                 /\ reported' = [reported EXCEPT ![p] = name[p]]
                 /\ missed' = missed \ {p}
                 /\ cursor' = NextOf(p)
           /\ UNCHANGED <<overtaken, epc, main, faults>>
           /\ UNCHANGED <<kernelVars, programVars, flags>>

(* BPFProgram::initialize: it works; or the perf buffer cannot be made,    *)
(* the program is freed and its pointer kept.  A new program has new       *)
(* statics.                                                                *)
Initialize(initialized) ==
    /\ records' = <<>>
    /\ prev_exec' = 0 /\ prev_fork' = 0
    /\ bpf_program' = IF initialized THEN "live" ELSE "freed"
    /\ perf_buffer' = IF initialized THEN "live" ELSE "null"
    /\ m_status' = (m_status /\ initialized)

(* destroy_bpf_program takes null pointers, but not one to what was freed. *)
Destroy == /\ bpf_program' = "null" /\ perf_buffer' = "null"
           /\ records' = <<>> /\ UNCHANGED m_status

Faulty == faults < MaxFaults /\ faults' = faults + 1

-----------------------------------------------------------------------------
(* The event thread *)

Continues(at, to) == /\ epc = at /\ epc' = to
                     /\ UNCHANGED <<main, cursor>> /\ UNCHANGED kernelVars

(* Mutant: the thread is restarted whether or not it is to stop.           *)
MutLoop == /\ Continues("loop", "check")
           /\ UNCHANGED <<overtaken, faults, programVars, flags, reported, missed>>

(* while (... && !stop_token.stop_requested())                             *)
Loop == /\ Continues("loop", IF stop_requested THEN "ended" ELSE "check")
        /\ overtaken' = (overtaken \/ (~stop_requested /\ main = "stopping" /\ ~g_exiting))
        /\ UNCHANGED <<faults, programVars, flags, reported, missed>>

(* while (!g_exiting)                                                      *)
Check == /\ Continues("check", IF g_exiting THEN "ended" ELSE "poll")
         /\ UNCHANGED <<faults, programVars, flags, historyVars>>

(* perf_buffer__poll without a record, and handle_event for each record:   *)
(* the records of one CPU are in order, those of different ones are not.   *)
PollNothing == /\ perf_buffer = "live" /\ records = <<>>
               /\ Continues("poll", "check")
               /\ UNCHANGED <<faults, programVars, flags, historyVars>>

Skips(record) == record.pid = record.prev_pid

PollEvent ==
    /\ perf_buffer = "live"
    /\ (Continues("poll", "check") \/ Continues("poll", "poll"))
    /\ \E i \in DOMAIN records :
          LET p == records[i].pid
          IN /\ records' = RemoveAt(records, i)
             /\ IF Skips(records[i]) THEN UNCHANGED <<reported, missed>>
                ELSE /\ reported' = [reported EXCEPT ![p] = name[p]]
                     /\ missed' = missed \ {p}
    /\ UNCHANGED <<overtaken, faults, bpf_program, perf_buffer, m_status, flags>>

PollFails == /\ perf_buffer = "live" /\ Faulty
             /\ Continues("poll", "failed")
             /\ UNCHANGED <<programVars, flags, historyVars>>

(* poll of a buffer that is not there: a restart that failed               *)
PollInvalid == /\ epc = "poll" /\ perf_buffer # "live"
               /\ epc' = "crashed" /\ main' = "aborted"
               /\ UNCHANGED <<cursor, faults, kernelVars, programVars, flags, historyVars>>

(* handle_events returned EXIT_FAILURE                                     *)
Failed == /\ Continues("failed", IF stop_requested THEN "ended" ELSE "destroy")
          /\ g_exiting' = (g_exiting \/ ~stop_requested)
          /\ UNCHANGED <<stop_requested, faults, programVars, historyVars>>

(* Mutant: only the programs are made again.                               *)
MutRestart == /\ epc = "destroy" /\ epc' = "scan"
              /\ Destroy
              /\ UNCHANGED <<main, cursor, faults, kernelVars, flags, historyVars>>

(* m_bpf_program.destroy(), and full_scan of init()                        *)
Restart == /\ epc = "destroy" /\ epc' = "scan"
           /\ Destroy /\ cursor' = 1
           /\ UNCHANGED <<main, faults, kernelVars, flags, historyVars>>

Rescan == epc = "scan" /\ ScanOne

(* g_exiting.store(false), over whatever a stop has stored                 *)
RescanDone == /\ ToRead = {}
              /\ Continues("scan", "initialize")
              /\ g_exiting' = FALSE
              /\ UNCHANGED <<stop_requested, faults, programVars, historyVars>>

Reinitialize == /\ epc = "initialize" /\ epc' = "loop"
                /\ \/ Initialize(TRUE) /\ UNCHANGED faults
                   \/ Initialize(FALSE) /\ Faulty
                /\ UNCHANGED <<name, execs, main, cursor, flags, historyVars>>

(* Opening, loading or attaching fails: initialize_bpf_program returns     *)
(* null, which bpf_program_init_events dereferences.                       *)
ReinitializeCrash == /\ epc = "initialize" /\ Faulty
                     /\ epc' = "crashed" /\ main' = "aborted"
                     /\ UNCHANGED <<cursor, kernelVars, programVars, flags, historyVars>>

EventThread == /\ main # "aborted"
               /\ \/ Loop \/ Check \/ PollNothing \/ PollEvent \/ PollFails \/ PollInvalid
                  \/ Failed \/ Restart \/ Rescan \/ RescanDone
                  \/ Reinitialize \/ ReinitializeCrash

-----------------------------------------------------------------------------
(* The main thread *)

Moves(at, to) == /\ main = at /\ main' = to
                 /\ UNCHANGED <<cursor, historyVars>>

FirstScan == main = "scan" /\ ScanOne

FirstScanDone == /\ ToRead = {}
                 /\ Moves("scan", "initialize")
                 /\ g_exiting' = FALSE
                 /\ UNCHANGED <<stop_requested, epc, faults, kernelVars, programVars>>

FirstInitialize ==
    /\ Moves("initialize", "start")
    /\ \/ Initialize(TRUE) /\ UNCHANGED faults
       \/ Initialize(FALSE) /\ Faulty
    /\ UNCHANGED <<name, execs, epc, flags>>

FirstInitializeCrash == /\ Moves("initialize", "aborted") /\ Faulty
                        /\ UNCHANGED <<epc, kernelVars, programVars, flags>>

(* start(); or main returns, and the destructor joins a thread that was    *)
(* never started, in a noexcept function.                                  *)
Start == /\ Moves("start", IF m_status THEN "serving" ELSE "aborted")
         /\ epc' = IF m_status THEN "loop" ELSE epc
         /\ UNCHANGED <<faults, kernelVars, programVars, flags>>

(* stop(): g_exiting.store(true), request_stop(), join(), destroy()        *)
StoreExiting == /\ Moves("serving", "stopping") /\ MayStop
                /\ g_exiting' = TRUE
                /\ UNCHANGED <<stop_requested, epc, faults, kernelVars, programVars>>

RequestStop == /\ Moves("stopping", "joining")
               /\ stop_requested' = TRUE
               /\ UNCHANGED <<g_exiting, epc, faults, kernelVars, programVars>>

(* Mutant: stop() does not join the thread.                                *)
MutJoin == /\ Moves("joining", "destroying")
           /\ UNCHANGED <<epc, faults, kernelVars, programVars, flags>>

Join == /\ epc = "ended"
        /\ Moves("joining", "destroying")
        /\ UNCHANGED <<epc, faults, kernelVars, programVars, flags>>

(* The second free of a program whose restart failed aborts.  The          *)
(* destructor calls stop() again, which finds the stop requested and the   *)
(* pointers null.                                                          *)
StopDestroys == /\ Moves("destroying", IF bpf_program = "freed" THEN "aborted" ELSE "stopped")
                /\ Destroy
                /\ UNCHANGED <<epc, faults, kernelVars, flags>>

MainThread == \/ FirstScan \/ FirstScanDone \/ FirstInitialize \/ FirstInitializeCrash
              \/ Start \/ StoreExiting \/ RequestStop \/ Join \/ StopDestroys

-----------------------------------------------------------------------------

Next == Kernel \/ EventThread \/ MainThread

(* Both threads run; a signal may never come.                              *)
Fairness == WF_vars(EventThread) /\ WF_vars(MainThread /\ ~StoreExiting)

Spec == Init /\ [][Next]_vars
FairSpec == Spec /\ Fairness

-----------------------------------------------------------------------------

(* Every variable keeps its type.                                          *)
TypeOK == /\ name \in [Pids -> Names \cup {"unborn", "gone"}]
          /\ execs \in 0..MaxExecs /\ faults \in 0..MaxFaults
          /\ {prev_exec, prev_fork} \subseteq Pids \cup {0}
          /\ records \in Seq([pid : Pids, prev_pid : Pids \cup {0}])
          /\ Len(records) <= BufferSize
          /\ bpf_program \in {"null", "live", "freed"} /\ perf_buffer \in {"null", "live"}
          /\ {m_status, g_exiting, stop_requested, overtaken} \subseteq BOOLEAN
          /\ epc \in {"unstarted", "loop", "check", "poll", "failed", "destroy", "scan",
                      "initialize", "ended", "crashed"}
          /\ main \in {"scan", "initialize", "start", "serving", "stopping", "joining",
                       "destroying", "stopped", "aborted"}
          /\ cursor \in 1..(NPids + 1)
          /\ reported \in [Pids -> Names \cup {"unborn", "gone"}]
          /\ missed \subseteq Pids

(* As long as every program that a restart asks for is made, no buffer is  *)
(* polled that was destroyed and no program is freed twice, however a stop *)
(* falls into the restart.  (After a failed one m_status is FALSE.)        *)
NothingUsedFreed ==
    /\ epc = "poll" => perf_buffer = "live" \/ ~m_status
    /\ main = "destroying" => bpf_program = "live" \/ ~m_status

(* stop() returns, although the restart stores false over its g_exiting:   *)
(* the loop around handle_events looks at the stop token.  The exception   *)
(* is a restart that does all of that between the two flags of the stop.   *)
StopReturns == main = "joining" ~> main \in {"stopped", "aborted"} \/ overtaken

Stopped == main \in {"stopping", "joining", "destroying", "stopped", "aborted"}

(* While the listener serves, a process that keeps its name is reported    *)
(* under it, but for the changes that go unnoticed: a child is known only  *)
(* once it execs or forks, a second exec in a row is skipped, and a lost   *)
(* record is not made up for.                                              *)
Detection ==
    \A p \in Pids, n \in Names :
        (<>[](name[p] = n)) => <>[](reported[p] = n \/ p \in missed \/ Stopped)
=============================================================================
