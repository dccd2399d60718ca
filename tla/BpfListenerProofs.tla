--------------------------- MODULE BpfListenerProofs ---------------------------
(***************************************************************************)
(* Proofs about BpfListener: the types of its variables; and that, as long *)
(* as the programs that a restart asks for are made, the thread polls no   *)
(* buffer that was destroyed and frees no program twice, wherever a        *)
(* stop falls into a restart, for any number of processes, records and     *)
(* errors.                                                                 *)
(***************************************************************************)
EXTENDS BpfListener, TLAPS

USE DEF kernelVars, programVars, flags, historyVars, Continues, Moves

Live == bpf_program = "live" /\ perf_buffer = "live"

(* The places of the event thread at which the programs are there          *)
WithPrograms == {"loop", "check", "poll", "failed", "destroy"}

(* The thread is started with programs, and only leaves them behind to     *)
(* make new ones; main waits for its end before it destroys them.          *)
HasPrograms ==
    /\ m_status => /\ epc \in WithPrograms => Live
                   /\ epc = "ended" /\ main \notin {"stopped", "aborted"} => Live
                   /\ main = "start" => Live
    /\ main \in {"scan", "initialize", "start"} => epc = "unstarted"
    /\ main \in {"destroying", "stopped"} => epc = "ended"

(* The kernel and the scans move nothing that it tells of.                 *)
Still == UNCHANGED <<epc, main, bpf_program, perf_buffer, m_status>>

LEMMA KernelStill == Kernel => Still
  BY DEF Kernel, Exec, Fork, Exit, Output, Still

LEMMA ScanStill == ScanOne => Still
  BY DEF ScanOne, Still

LEMMA StillKeeps == HasPrograms /\ Still => HasPrograms'
  BY DEF HasPrograms, Still, WithPrograms, Live

LEMMA EventThreadStep == HasPrograms /\ EventThread => HasPrograms'
<1> SUFFICES ASSUME HasPrograms, EventThread PROVE HasPrograms'
  OBVIOUS
<1>1. CASE Rescan
  BY <1>1, ScanStill, StillKeeps DEF Rescan
<1> USE DEF HasPrograms, WithPrograms, Live
<1>2. CASE Loop \/ Check \/ PollNothing \/ PollFails \/ Failed
  BY <1>2 DEF Loop, Check, PollNothing, PollFails, Failed
<1>3. CASE PollEvent
  BY <1>3 DEF PollEvent
<1>4. CASE Restart \/ RescanDone
  BY <1>4 DEF Restart, Destroy, RescanDone
<1>5. CASE Reinitialize
  BY <1>5 DEF Reinitialize, Initialize
<1>6. CASE PollInvalid \/ ReinitializeCrash
  BY <1>6 DEF PollInvalid, ReinitializeCrash
<1> QED
  BY <1>1, <1>2, <1>3, <1>4, <1>5, <1>6 DEF EventThread

LEMMA MainThreadStep == HasPrograms /\ MainThread => HasPrograms'
<1> SUFFICES ASSUME HasPrograms, MainThread PROVE HasPrograms'
  OBVIOUS
<1>1. CASE FirstScan
  BY <1>1, ScanStill, StillKeeps DEF FirstScan
<1> USE DEF HasPrograms, WithPrograms, Live
<1>2. CASE FirstScanDone \/ FirstInitializeCrash \/ Start
  BY <1>2 DEF FirstScanDone, FirstInitializeCrash, Start
<1>3. CASE FirstInitialize
  BY <1>3 DEF FirstInitialize, Initialize
<1>4. CASE StoreExiting \/ RequestStop \/ Join
  BY <1>4 DEF StoreExiting, RequestStop, Join
<1>5. CASE StopDestroys
  BY <1>5 DEF StopDestroys, Destroy
<1> QED
  BY <1>1, <1>2, <1>3, <1>4, <1>5 DEF MainThread

(* A stop that falls into a restart, before or after its scan or between   *)
(* the two flags, neither polls what was destroyed nor frees it again      *)
(* (process.cpp:98-116, 288-301).                                          *)
THEOREM ProgramsInUseLive == Spec => []NothingUsedFreed
<1>1. Init => HasPrograms
  BY DEF Init, HasPrograms, WithPrograms
<1>2. HasPrograms /\ [Next]_vars => HasPrograms'
  <2>1. HasPrograms /\ UNCHANGED vars => HasPrograms'
    BY StillKeeps DEF vars, Still
  <2> QED
    BY <2>1, KernelStill, StillKeeps, EventThreadStep, MainThreadStep DEF Next
<1>3. HasPrograms => NothingUsedFreed
  BY DEF HasPrograms, WithPrograms, Live, NothingUsedFreed
<1> QED
  BY <1>1, <1>2, <1>3, PTL DEF Spec

-----------------------------------------------------------------------------
(* Types *)

Record == [pid : Pids, prev_pid : Pids \cup {0}]

LEMMA TypeInit == Init => TypeOK
<1> SUFFICES ASSUME Init PROVE TypeOK
  OBVIOUS
<1>1. /\ records \in Seq(Record) /\ Len(records) <= BufferSize
  BY BpfAssumption DEF Init
<1>2. /\ name \in [Pids -> Names \cup {"unborn", "gone"}]
      /\ reported \in [Pids -> Names \cup {"unborn", "gone"}]
  BY DEF Init
<1>3. execs \in 0..MaxExecs /\ faults \in 0..MaxFaults /\ cursor \in 1..(NPids + 1)
  BY BpfAssumption DEF Init
<1> QED
  BY <1>1, <1>2, <1>3 DEF Init, TypeOK, Record

(* What the kernel does to the buffer: one record more, or none            *)
LEMMA OutputTypes ==
    ASSUME TypeOK, NEW p \in Pids, NEW prev_pid \in Pids \cup {0}, Output(p, prev_pid)
    PROVE  records' \in Seq(Record) /\ Len(records') <= BufferSize
<1> DEFINE r == [pid |-> p, prev_pid |-> prev_pid]
<1>1. /\ records \in Seq(Record) /\ Len(records) <= BufferSize /\ r \in Record
  BY DEF TypeOK, Record
<1> HIDE DEF r
<1>2. CASE records' = Append(records, r) /\ Len(records) < BufferSize
  BY <1>1, <1>2, BpfAssumption
<1>3. CASE records' = records
  BY <1>1, <1>3
<1> QED
  BY <1>2, <1>3 DEF Output, r

LEMMA KernelTypes == TypeOK /\ Kernel => TypeOK'
<1> SUFFICES ASSUME TypeOK, NEW p \in Pids,
                    Exec(p) \/ Exit(p) \/ \E parent \in Pids : Fork(parent, p)
             PROVE  TypeOK'
  BY DEF Kernel
<1>1. CASE Exec(p)
  <2>1. records' \in Seq(Record) /\ Len(records') <= BufferSize
    BY <1>1, OutputTypes DEF Exec, TypeOK
  <2>2. execs' \in 0..MaxExecs /\ prev_exec' \in Pids \cup {0} /\ missed' \subseteq Pids
    BY <1>1, BpfAssumption DEF Exec, TypeOK
  <2>3. name' \in [Pids -> Names \cup {"unborn", "gone"}]
    BY <1>1 DEF Exec, TypeOK
  <2>4. UNCHANGED <<prev_fork, bpf_program, perf_buffer, m_status, g_exiting, epc, main,
                    stop_requested, cursor, faults, reported, overtaken>>
    BY <1>1 DEF Exec
  <2> QED
    BY <2>1, <2>2, <2>3, <2>4 DEF TypeOK, Record
<1>2. CASE Exit(p)
  <2>1. name' \in [Pids -> Names \cup {"unborn", "gone"}]
    BY <1>2 DEF Exit, TypeOK
  <2> QED
    BY <1>2, <2>1 DEF Exit, TypeOK
<1>3. CASE \E parent \in Pids : Fork(parent, p)
  <2>1. PICK parent \in Pids : Fork(parent, p)
    BY <1>3
  <2>2. records' \in Seq(Record) /\ Len(records') <= BufferSize
    BY <2>1, OutputTypes DEF Fork, TypeOK
  <2>3. name' \in [Pids -> Names \cup {"unborn", "gone"}]
    BY <2>1 DEF Fork, TypeOK
  <2>4. prev_fork' \in Pids \cup {0} /\ missed' \subseteq Pids
    BY <2>1 DEF Fork, TypeOK
  <2>5. UNCHANGED <<execs, prev_exec, bpf_program, perf_buffer, m_status, g_exiting,
                    stop_requested, epc, main, cursor, faults, reported, overtaken>>
    BY <2>1 DEF Fork
  <2> QED
    BY <2>2, <2>3, <2>4, <2>5 DEF TypeOK, Record
<1> QED
  BY <1>1, <1>2, <1>3

LEMMA ScanTypes ==
    ASSUME TypeOK, ScanOne, epc' = epc, main' = main PROVE TypeOK'
<1>1. PICK p \in ToRead : /\ reported' = [reported EXCEPT ![p] = name[p]]
                          /\ missed' = missed \ {p} /\ cursor' = p + 1
  BY DEF ScanOne, NextOf
<1>2. p \in Pids /\ p + 1 \in 1..(NPids + 1)
  BY BpfAssumption DEF ToRead, Pids
<1>3. /\ reported' \in [Pids -> Names \cup {"unborn", "gone"}]
      /\ missed' \subseteq Pids /\ cursor' \in 1..(NPids + 1)
  BY <1>1, <1>2 DEF TypeOK
<1> QED
  BY <1>3 DEF ScanOne, TypeOK

(* A record that was handled leaves the buffer, from wherever it stood.    *)
LEMMA PollTypes == TypeOK /\ PollEvent => TypeOK'
<1> SUFFICES ASSUME TypeOK, PollEvent PROVE TypeOK'
  OBVIOUS
<1>1. PICK i \in DOMAIN records :
         /\ records' = RemoveAt(records, i)
         /\ \/ UNCHANGED <<reported, missed>>
            \/ /\ reported' = [reported EXCEPT ![records[i].pid] = name[records[i].pid]]
               /\ missed' = missed \ {records[i].pid}
  BY DEF PollEvent
<1>2. records \in Seq(Record) /\ i \in 1..Len(records) /\ records[i].pid \in Pids
  <2>1. records \in Seq(Record)
    BY DEF TypeOK, Record
  <2>2. DOMAIN records = 1..Len(records) /\ records[i] \in Record
    BY <2>1
  <2> QED
    BY <2>1, <2>2 DEF Record
<1>3. records' \in Seq(Record) /\ Len(records') = Len(records) - 1
  <2> DEFINE before == SubSeq(records, 1, i - 1)
             after  == SubSeq(records, i + 1, Len(records))
  <2>1. records' = before \o after
    BY <1>1 DEF RemoveAt
  <2>2. Len(records) \in Nat /\ i \in Nat /\ 1 <= i /\ i <= Len(records)
    BY <1>2
  <2>3. before \in Seq(Record) /\ Len(before) = i - 1
    BY <1>2, <2>2
  <2>4. after \in Seq(Record) /\ Len(after) = Len(records) - i
    BY <1>2, <2>2
  <2> HIDE DEF before, after
  <2> QED
    BY <2>1, <2>2, <2>3, <2>4
<1>4. Len(records') <= BufferSize
  BY <1>2, <1>3, BpfAssumption DEF TypeOK
<1>5. reported' \in [Pids -> Names \cup {"unborn", "gone"}] /\ missed' \subseteq Pids
  BY <1>1, <1>2 DEF TypeOK
<1>6. /\ epc' \in {"check", "poll"}
      /\ UNCHANGED <<name, execs, prev_exec, prev_fork, main, cursor, overtaken, faults,
                     bpf_program, perf_buffer, m_status, g_exiting, stop_requested>>
  BY DEF PollEvent
<1> QED
  BY <1>3, <1>4, <1>5, <1>6 DEF TypeOK, Record

LEMMA FaultyTypes == TypeOK /\ Faulty => faults' \in 0..MaxFaults
  BY BpfAssumption DEF Faulty, TypeOK

LEMMA NoRecords == <<>> \in Seq(Record) /\ Len(<<>>) = 0 /\ 0 <= BufferSize
  BY BpfAssumption

LEMMA EventThreadTypes == TypeOK /\ EventThread => TypeOK'
<1> SUFFICES ASSUME TypeOK, EventThread PROVE TypeOK'
  OBVIOUS
<1>1. CASE Loop \/ Check \/ PollNothing \/ Failed \/ RescanDone
  BY <1>1 DEF Loop, Check, PollNothing, Failed, RescanDone, TypeOK
<1>2. CASE PollEvent
  BY <1>2, PollTypes
<1>3. CASE PollFails \/ PollInvalid \/ ReinitializeCrash
  BY <1>3, FaultyTypes DEF PollFails, PollInvalid, ReinitializeCrash, TypeOK
<1>4. CASE Restart
  <2>1. cursor' \in 1..(NPids + 1)
    BY <1>4, BpfAssumption DEF Restart
  <2> QED
    BY <1>4, <2>1, NoRecords DEF Restart, Destroy, TypeOK, Record
<1>5. CASE Rescan
  BY <1>5, ScanTypes DEF Rescan, ScanOne
<1>6. CASE Reinitialize
  <2>1. faults' \in 0..MaxFaults
    BY <1>6, FaultyTypes DEF Reinitialize, TypeOK
  <2> QED
    BY <1>6, <2>1, NoRecords DEF Reinitialize, Initialize, TypeOK, Record
<1> QED
  BY <1>1, <1>2, <1>3, <1>4, <1>5, <1>6 DEF EventThread

LEMMA MainThreadTypes == TypeOK /\ MainThread => TypeOK'
<1> SUFFICES ASSUME TypeOK, MainThread PROVE TypeOK'
  OBVIOUS
<1>1. CASE FirstScan
  BY <1>1, ScanTypes DEF FirstScan, ScanOne
<1>2. CASE FirstInitializeCrash
  BY <1>2, FaultyTypes DEF FirstInitializeCrash, TypeOK
<1>3. CASE FirstScanDone \/ Start \/ StoreExiting \/ RequestStop \/ Join
  BY <1>3 DEF FirstScanDone, Start, StoreExiting, RequestStop, Join, TypeOK
<1>4. CASE FirstInitialize
  <2>1. faults' \in 0..MaxFaults
    BY <1>4, FaultyTypes DEF FirstInitialize, TypeOK
  <2> QED
    BY <1>4, <2>1, NoRecords DEF FirstInitialize, Initialize, TypeOK, Record
<1>5. CASE StopDestroys
  BY <1>5, NoRecords DEF StopDestroys, Destroy, TypeOK, Record
<1> QED
  BY <1>1, <1>2, <1>3, <1>4, <1>5 DEF MainThread

(* The variables keep their types: the buffer holds records of processes,  *)
(* and never more of them than fit (ananicy_cpp_ng.bpf.c:49-111).           *)
THEOREM BpfTypeCorrect == Spec => []TypeOK
<1>1. TypeOK /\ [Next]_vars => TypeOK'
  <2>1. TypeOK /\ UNCHANGED vars => TypeOK'
    BY DEF vars, TypeOK
  <2> QED
    BY <2>1, KernelTypes, EventThreadTypes, MainThreadTypes DEF Next
<1> QED
  BY <1>1, TypeInit, PTL DEF Spec
=============================================================================
