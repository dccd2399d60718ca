------------------------- MODULE ProcessListenerProofs -------------------------
(***************************************************************************)
(* Proofs about ProcessListener: the types of its variables, and that the  *)
(* event thread never receives from a netlink program that was destroyed,  *)
(* whatever fails and whenever the stop comes, for any number of           *)
(* processes, names, events and faults.                                    *)
(***************************************************************************)
EXTENDS ProcessListener, TLAPS

USE DEF kernelVars, socketVars, commands, threadVars, OnlyControl

(* The places of the event thread from which it may come to receive        *)
(* without making a program first                                          *)
MayReceive == {"check", "recv", "resolve", "push", "failed"}

(* There is a program wherever the event thread may come to receive; main  *)
(* starts the thread with one, and destroys it when the thread has ended   *)
(* for good.                                                               *)
HasProgram == /\ epc \in MayReceive => socket # "closed"
              /\ main = "start" => socket # "closed"
              /\ main \in {"scan", "connect", "start"} => epc = "unstarted"
              /\ main = "stopped" => epc = "ended"

(* The scans and the kernel move nothing that it tells of.                 *)
Still == UNCHANGED <<epc, main, socket>>

LEMMA ScanStill ==
    ASSUME NEW s \in Scanners, ScanRead(s) \/ ScanPush(s)
    PROVE  Still
  BY DEF ScanRead, ScanPush, Still

LEMMA KernelStill == Kernel => Still
<1> SUFFICES ASSUME NEW p \in Pids, Fork(p) \/ Exec(p) \/ Exit(p) PROVE Still
  BY DEF Kernel
<1>1. Notify(p) \/ Notify(0) => socket' = socket
  BY DEF Notify
<1> QED
  BY <1>1 DEF Fork, Exec, Exit, Changes, Still

LEMMA StillKeeps == HasProgram /\ Still => HasProgram'
  BY DEF HasProgram, Still, MayReceive

LEMMA EventThreadStep == HasProgram /\ EventThread => HasProgram'
<1> SUFFICES ASSUME HasProgram, EventThread PROVE HasProgram'
  OBVIOUS
<1> USE DEF HasProgram, MayReceive
<1>1. CASE Check \/ RecvFails \/ RecvNothing \/ RescanDone \/ RecvCrash
  BY <1>1 DEF Check, RecvFails, RecvNothing, RescanDone, RecvCrash
<1>2. CASE RecvZero \/ RecvEvent \/ Resolve \/ PushEvent
  BY <1>2 DEF RecvZero, RecvEvent, Resolve, PushEvent
<1>3. CASE Restart
  BY <1>3 DEF Restart
<1>4. CASE Rescan
  BY <1>4, ScanStill, StillKeeps DEF Rescan, Scanners
<1>5. CASE Reconnect
  BY <1>5 DEF Reconnect, Connect
<1> QED
  BY <1>1, <1>2, <1>3, <1>4, <1>5 DEF EventThread

LEMMA MainThreadStep == HasProgram /\ MainThread => HasProgram'
<1> SUFFICES ASSUME HasProgram, MainThread PROVE HasProgram'
  OBVIOUS
<1>1. CASE FirstScan \/ ManualScan
  BY <1>1, ScanStill, StillKeeps DEF FirstScan, ManualScan, Scanners
<1> USE DEF HasProgram, MayReceive
<1>2. CASE FirstConnect
  BY <1>2 DEF FirstConnect, Connect
<1>3. CASE FirstScanDone \/ Start
  BY <1>3 DEF FirstScanDone, Start
<1>4. CASE BeginScan \/ EndScan \/ RequestStop
  BY <1>4 DEF BeginScan, EndScan, RequestStop
<1>5. CASE Join
  BY <1>5 DEF Join
<1> QED
  BY <1>1, <1>2, <1>3, <1>4, <1>5 DEF MainThread

LEMMA ProgramKept == HasProgram /\ [Next]_vars => HasProgram'
<1>1. HasProgram /\ UNCHANGED vars => HasProgram'
  BY StillKeeps DEF vars, Still
<1> QED
  BY <1>1, KernelStill, StillKeeps, EventThreadStep, MainThreadStep DEF Next

LEMMA ProgramAlways == Spec => []HasProgram
<1>1. Init => HasProgram
  BY DEF Init, HasProgram, MayReceive
<1> QED
  BY <1>1, ProgramKept, PTL DEF Spec

(* stop() joins the event thread before it destroys the program, and a     *)
(* restart makes a program before the thread receives again                *)
(* (process.cpp:173-190, 288-301).                                         *)
THEOREM NothingDestroyedUsed == Spec => []NoUseAfterDestroy
<1>1. HasProgram => NoUseAfterDestroy
  BY DEF HasProgram, MayReceive, NoUseAfterDestroy
<1> QED
  BY <1>1, ProgramAlways, PTL

-----------------------------------------------------------------------------
(* Types *)

Born(p) == p = 0 \/ name[p] # "unborn"

(* No event tells of a process before it is born, so the event thread      *)
(* never pushes one.                                                       *)
BornFirst == /\ \A i \in 1..Len(backlog) : Born(backlog[i])
             /\ epc = "resolve" => /\ found["event"].pid \in Pids
                                   /\ Born(found["event"].pid)

TypeInv == TypeOK /\ BornFirst

LEMMA TypeInit == Init => TypeInv
<1> SUFFICES ASSUME Init PROVE TypeInv
  OBVIOUS
<1> USE ListenerAssumption DEF Init
<1>1. backlog \in Seq(Pids \cup {0}) /\ Len(backlog) = 0
  OBVIOUS
<1>2. /\ name \in [Pids -> Names \cup {"unborn", "gone"}]
      /\ reported \in [Pids -> Names \cup {"unborn", "gone"}]
  OBVIOUS
<1>3. cursor \in [Scanners -> 1..(NPids + 1)]
  OBVIOUS
<1>4. found \in [Scanners -> [pid : Pids \cup {0}, name : Names \cup {"gone"}]]
  BY DEF Nobody
<1>5. manual_scanning \in BOOLEAN /\ overrun \in BOOLEAN /\ stop_requested \in BOOLEAN
  OBVIOUS
<1>6. execs \in 0..MaxExecs /\ faults \in 0..MaxFaults /\ Len(backlog) <= SocketBuffer
  OBVIOUS
<1>7. BornFirst
  BY <1>1 DEF BornFirst
<1>8. /\ socket = "closed" /\ prev_pid = 0 /\ missed = {}
      /\ epc = "unstarted" /\ main = "scan"
  OBVIOUS
<1> HIDE DEF Init
<1>9. TypeOK
  BY <1>1, <1>2, <1>3, <1>4, <1>5, <1>6, <1>8 DEF TypeOK
<1> QED
  BY <1>7, <1>9 DEF TypeInv

LEMMA NotifyTypes ==
    ASSUME TypeInv, NEW e \in Pids \cup {0}, Notify(e),
           \A p \in Pids : name[p] # "unborn" => name'[p] # "unborn",
           e = 0 \/ name'[e] # "unborn"
    PROVE  /\ socket' = socket /\ overrun' \in BOOLEAN
           /\ backlog' \in Seq(Pids \cup {0}) /\ Len(backlog') <= SocketBuffer
           /\ \A i \in 1..Len(backlog') : backlog'[i] = 0 \/ name'[backlog'[i]] # "unborn"
<1>1. /\ backlog \in Seq(Pids \cup {0}) /\ Len(backlog) <= SocketBuffer
      /\ SocketBuffer \in Nat /\ overrun \in BOOLEAN
  BY ListenerAssumption DEF TypeInv, TypeOK
<1>2. \A i \in 1..Len(backlog) : backlog[i] = 0 \/ name'[backlog[i]] # "unborn"
  BY <1>1 DEF TypeInv, BornFirst, Born
<1>3. CASE backlog' = Append(backlog, e) /\ Len(backlog) < SocketBuffer
  <2>1. /\ backlog' \in Seq(Pids \cup {0}) /\ Len(backlog') = Len(backlog) + 1
        /\ \A i \in 1..Len(backlog) : backlog'[i] = backlog[i]
        /\ backlog'[Len(backlog) + 1] = e
    BY <1>1, <1>3
  <2>2. overrun' \in BOOLEAN /\ socket' = socket
    BY <1>1, <1>3 DEF Notify
  <2> QED
    BY <1>1, <1>2, <1>3, <2>1, <2>2
<1>4. CASE UNCHANGED backlog
  BY <1>1, <1>2, <1>4 DEF Notify
<1> QED
  BY <1>3, <1>4 DEF Notify

LEMMA KernelTypes == TypeInv /\ Kernel => TypeInv'
<1> SUFFICES ASSUME TypeInv, NEW p \in Pids, Fork(p) \/ Exec(p) \/ Exit(p)
             PROVE  TypeInv'
  BY DEF Kernel
<1>1. p # 0 /\ name \in [Pids -> Names \cup {"unborn", "gone"}]
  BY ListenerAssumption DEF Pids, TypeInv, TypeOK
<1>2. /\ name' \in [Pids -> Names \cup {"unborn", "gone"}]
      /\ name'[p] # "unborn" /\ \A q \in Pids \ {p} : name'[q] = name[q]
  BY <1>1, ListenerAssumption DEF Fork, Exec, Exit, Alive
<1>3. /\ socket' = socket /\ overrun' \in BOOLEAN
      /\ backlog' \in Seq(Pids \cup {0}) /\ Len(backlog') <= SocketBuffer
      /\ \A i \in 1..Len(backlog') : backlog'[i] = 0 \/ name'[backlog'[i]] # "unborn"
  <2>1. CASE Notify(p)
    BY <1>1, <1>2, <2>1, NotifyTypes
  <2>2. CASE Notify(0)
    BY <1>1, <1>2, <2>2, NotifyTypes
  <2> QED
    BY <2>1, <2>2 DEF Fork, Exec, Exit, Changes
<1>4. /\ execs' \in 0..MaxExecs /\ faults' = faults /\ reported' = reported
      /\ missed' \subseteq Pids /\ UNCHANGED threadVars
  BY ListenerAssumption DEF TypeInv, TypeOK, Fork, Exec, Exit, Changes
<1>5. BornFirst'
  BY <1>1, <1>2, <1>3, <1>4 DEF BornFirst, Born, TypeInv
<1>6. TypeOK'
  BY <1>2, <1>3, <1>4 DEF TypeInv, TypeOK
<1> QED
  BY <1>5, <1>6 DEF TypeInv

(* What the event thread is about to resolve is not what main has found.   *)
LEMMA ScanTypes ==
    ASSUME TypeInv, NEW s \in Scanners, s = "event" => epc # "resolve",
           ScanRead(s) \/ ScanPush(s)
    PROVE  TypeInv'
<1> USE DEF TypeInv, TypeOK
<1>1. CASE ScanRead(s)
  <2>1. PICK p \in ToRead(s) :
           /\ found' = [found EXCEPT ![s] = [pid |-> p, name |-> name[p]]]
           /\ cursor' = [cursor EXCEPT ![s] = p + 1]
           /\ missed' = missed \ {p}
    BY <1>1 DEF ScanRead
  <2>2. p \in Pids /\ name[p] \in Names /\ p + 1 \in 1..(NPids + 1)
    BY ListenerAssumption DEF ToRead, Alive, Pids
  <2>3. /\ found' \in [Scanners -> [pid : Pids \cup {0}, name : Names \cup {"gone"}]]
        /\ cursor' \in [Scanners -> 1..(NPids + 1)] /\ missed' \subseteq Pids
    BY <2>1, <2>2
  <2>4. UNCHANGED <<name, execs, socket, backlog, overrun, prev_pid, epc, main,
                    stop_requested, manual_scanning, faults, reported>>
    BY <1>1 DEF ScanRead
  <2>5. epc = "resolve" => found'["event"] = found["event"]
    BY <2>1 DEF Scanners
  <2> QED
    BY <2>3, <2>4, <2>5 DEF BornFirst, Born
<1>2. CASE ScanPush(s)
  <2>1. /\ reported' = [reported EXCEPT ![found[s].pid] = found[s].name]
        /\ found' = [found EXCEPT ![s] = Nobody]
    BY <1>2 DEF ScanPush, PushFound
  <2>2. /\ found' \in [Scanners -> [pid : Pids \cup {0}, name : Names \cup {"gone"}]]
        /\ reported' \in [Pids -> Names \cup {"unborn", "gone"}]
    BY <2>1 DEF Nobody
  <2>3. UNCHANGED <<name, execs, socket, backlog, overrun, prev_pid, epc, main,
                    cursor, stop_requested, manual_scanning, faults, missed>>
    BY <1>2 DEF ScanPush
  <2>4. epc = "resolve" => found'["event"] = found["event"]
    BY <2>1 DEF Scanners
  <2> QED
    BY <2>2, <2>3, <2>4 DEF BornFirst, Born
<1> QED
  BY <1>1, <1>2

(* A new socket, or none, has no events.                                   *)
LEMMA EmptyBacklog ==
    TypeOK /\ backlog' = <<>>
        => /\ backlog' \in Seq(Pids \cup {0}) /\ Len(backlog') = 0
           /\ Len(backlog') <= SocketBuffer
  BY ListenerAssumption

LEMMA ConnectTypes ==
    ASSUME TypeInv, Connect, epc' # "resolve",
           epc' \in {epc, "check"}, main' \in {main, "start"}
    PROVE  TypeInv'
<1>0. overrun' \in BOOLEAN
  BY DEF Connect
<1>1. socket' \in {"open", "bad", "deaf", "null"} /\ faults' \in 0..MaxFaults
  <2>1. faults \in 0..MaxFaults /\ MaxFaults \in Nat
    BY ListenerAssumption DEF TypeInv, TypeOK
  <2> QED
    BY <2>1 DEF Connect
<1>2. UNCHANGED <<name, execs, reported, missed, prev_pid, cursor, found,
                  stop_requested, manual_scanning>> /\ backlog' = <<>>
  BY DEF Connect
<1>3. TypeOK'
  BY <1>0, <1>1, <1>2, EmptyBacklog DEF TypeInv, TypeOK
<1>4. BornFirst'
  BY <1>2, EmptyBacklog DEF TypeInv, BornFirst
<1> QED
  BY <1>3, <1>4 DEF TypeInv

LEMMA RecvEventTypes == TypeInv /\ RecvEvent => TypeInv'
<1> SUFFICES ASSUME TypeInv, RecvEvent PROVE TypeInv'
  OBVIOUS
<1> DEFINE e == Head(backlog)
<1>1. /\ backlog \in Seq(Pids \cup {0}) /\ backlog # <<>> /\ backlog' = Tail(backlog)
  BY DEF RecvEvent, TypeInv, TypeOK
<1>2. /\ backlog' \in Seq(Pids \cup {0}) /\ Len(backlog') = Len(backlog) - 1
      /\ \A i \in 1..Len(backlog') : backlog'[i] = backlog[i + 1]
  BY <1>1
<1>3. e \in Pids \cup {0} /\ Born(e) /\ Len(backlog) \in Nat /\ Len(backlog) > 0
  BY <1>1 DEF TypeInv, BornFirst
<1>4. Len(backlog') <= SocketBuffer
  BY <1>2, <1>3, ListenerAssumption DEF TypeInv, TypeOK
<1>5. UNCHANGED <<name, execs, socket, overrun, reported, main, cursor,
                  stop_requested, manual_scanning, faults>>
  BY DEF RecvEvent
<1>6. \A i \in 1..Len(backlog') : Born(backlog'[i])
  BY <1>2, <1>3 DEF TypeInv, BornFirst
<1>7. CASE Skips(e)
  <2>1. /\ epc' = "check" /\ missed' \subseteq Pids /\ UNCHANGED <<prev_pid, found>>
    BY <1>3, <1>7 DEF RecvEvent, TypeInv, TypeOK
  <2> QED
    BY <1>2, <1>4, <1>5, <1>6, <2>1 DEF TypeInv, TypeOK, BornFirst, Born
<1>8. CASE ~Skips(e)
  <2>1. /\ epc' = "resolve" /\ prev_pid' = e /\ UNCHANGED missed
        /\ found' = [found EXCEPT !["event"] = [pid |-> e, name |-> "gone"]]
    BY <1>8 DEF RecvEvent
  <2>2. /\ found' \in [Scanners -> [pid : Pids \cup {0}, name : Names \cup {"gone"}]]
        /\ found'["event"].pid = e
    BY <1>3, <2>1 DEF TypeInv, TypeOK, Scanners
  <2>3. e \in Pids
    BY <1>3, <1>8 DEF Skips
  <2> QED
    BY <1>2, <1>3, <1>4, <1>5, <1>6, <2>1, <2>2, <2>3 DEF TypeInv, TypeOK, BornFirst, Born
<1> QED
  BY <1>7, <1>8

LEMMA EventThreadTypes == TypeInv /\ EventThread => TypeInv'
<1> SUFFICES ASSUME TypeInv, EventThread PROVE TypeInv'
  OBVIOUS
<1>1. CASE Check \/ RecvFails \/ RecvNothing \/ RescanDone \/ RecvCrash
  BY <1>1 DEF Check, RecvFails, RecvNothing, RescanDone, RecvCrash, TypeInv, TypeOK,
              BornFirst, Born
<1>2. CASE RecvZero
  BY <1>2, ListenerAssumption DEF RecvZero, TypeInv, TypeOK, BornFirst, Born
<1>3. CASE RecvEvent
  BY <1>3, RecvEventTypes
<1>4. CASE Resolve
  <2> DEFINE p == found["event"].pid
  <2>1. p \in Pids /\ name[p] \in Names \cup {"gone"}
    BY <1>4 DEF Resolve, TypeInv, TypeOK, BornFirst, Born, Pids
  <2>2. /\ found' \in [Scanners -> [pid : Pids \cup {0}, name : Names \cup {"gone"}]]
        /\ missed' \subseteq Pids /\ epc' = "push"
    BY <1>4, <2>1 DEF Resolve, TypeInv, TypeOK, Scanners
  <2>3. UNCHANGED <<name, execs, socket, backlog, overrun, reported, prev_pid, main,
                    cursor, stop_requested, manual_scanning, faults>>
    BY <1>4 DEF Resolve
  <2> QED
    BY <2>2, <2>3 DEF TypeInv, TypeOK, BornFirst, Born
<1>5. CASE PushEvent
  <2>1. /\ found' \in [Scanners -> [pid : Pids \cup {0}, name : Names \cup {"gone"}]]
        /\ reported' \in [Pids -> Names \cup {"unborn", "gone"}]
    BY <1>5 DEF PushEvent, PushFound, TypeInv, TypeOK, Scanners, Nobody
  <2>2. UNCHANGED <<name, execs, socket, backlog, overrun, missed, prev_pid, main,
                    cursor, stop_requested, manual_scanning, faults>> /\ epc' = "check"
    BY <1>5 DEF PushEvent
  <2> QED
    BY <2>1, <2>2 DEF TypeInv, TypeOK, BornFirst, Born
<1>6. CASE Restart
  <2>1. CASE epc' = "ended" /\ UNCHANGED <<socket, backlog, overrun, cursor>>
    BY <1>6, <2>1 DEF Restart, TypeInv, TypeOK, BornFirst, Born
  <2>2. CASE epc' = "scan"
    <3>1. cursor' \in [Scanners -> 1..(NPids + 1)]
      BY <1>6, <2>2, ListenerAssumption DEF Restart, TypeInv, TypeOK
    <3>2. /\ socket' = "closed" /\ backlog' = <<>> /\ overrun' = FALSE
          /\ UNCHANGED <<name, execs, reported, missed, prev_pid, main, found,
                         stop_requested, manual_scanning, faults>>
      BY <1>6, <2>2 DEF Restart
    <3>3. overrun' \in BOOLEAN
      BY <3>2
    <3> QED
      BY <2>2, <3>1, <3>2, <3>3, EmptyBacklog DEF TypeInv, TypeOK, BornFirst
  <2> QED
    BY <1>6, <2>1, <2>2 DEF Restart
<1>7. CASE Rescan
  BY <1>7, ScanTypes DEF Rescan, Scanners
<1>8. CASE Reconnect
  BY <1>8, ConnectTypes DEF Reconnect
<1> QED
  BY <1>1, <1>2, <1>3, <1>4, <1>5, <1>6, <1>7, <1>8 DEF EventThread

LEMMA MainThreadTypes == TypeInv /\ HasProgram /\ MainThread => TypeInv'
<1> SUFFICES ASSUME TypeInv, HasProgram, MainThread PROVE TypeInv'
  OBVIOUS
<1>1. CASE FirstScan \/ ManualScan
  BY <1>1, ScanTypes DEF FirstScan, ManualScan, Scanners
<1>2. CASE FirstConnect
  <2>1. epc # "resolve"
    BY <1>2 DEF FirstConnect, HasProgram
  <2> QED
    BY <1>2, <2>1, ConnectTypes DEF FirstConnect
<1>3. CASE FirstScanDone \/ EndScan
  BY <1>3 DEF FirstScanDone, EndScan, TypeInv, TypeOK, BornFirst, Born
<1>4. CASE Start
  BY <1>4 DEF Start, TypeInv, TypeOK, BornFirst, Born
<1>5. CASE BeginScan
  <2>1. cursor' \in [Scanners -> 1..(NPids + 1)]
    <3>1. 1 \in 1..(NPids + 1)
      BY ListenerAssumption
    <3>2. cursor' = [cursor EXCEPT !["main"] = 1]
      BY <1>5 DEF BeginScan
    <3> QED
      BY <3>1, <3>2 DEF TypeInv, TypeOK
  <2>2. UNCHANGED <<name, execs, socket, backlog, overrun, reported, missed, prev_pid,
                    epc, found, stop_requested, manual_scanning, faults>>
        /\ main' = "manual"
    BY <1>5 DEF BeginScan
  <2> QED
    BY <2>1, <2>2 DEF TypeInv, TypeOK, BornFirst, Born
<1>6. CASE RequestStop
  BY <1>6 DEF RequestStop, TypeInv, TypeOK, BornFirst, Born
<1>7. CASE Join
  <2>1. /\ socket' = "closed" /\ backlog' = <<>> /\ overrun' \in BOOLEAN
        /\ main' = "stopped" /\ epc = "ended"
        /\ UNCHANGED <<name, execs, reported, missed, prev_pid, epc, cursor, found,
                       stop_requested, manual_scanning, faults>>
    BY <1>7 DEF Join
  <2> QED
    BY <2>1, EmptyBacklog DEF TypeInv, TypeOK, BornFirst
<1> QED
  BY <1>1, <1>2, <1>3, <1>4, <1>5, <1>6, <1>7 DEF MainThread

(* The variables of the listener keep their types: the event thread reads  *)
(* and pushes only processes that were born (process.cpp:120-158).         *)
THEOREM ListenerTypeCorrect == Spec => []TypeOK
<1>1. TypeInv /\ HasProgram /\ [Next]_vars => TypeInv'
  <2>1. TypeInv /\ UNCHANGED vars => TypeInv'
    BY DEF vars, TypeInv, TypeOK, BornFirst, Born
  <2> QED
    BY <2>1, KernelTypes, EventThreadTypes, MainThreadTypes DEF Next
<1>2. TypeInv => TypeOK
  BY DEF TypeInv
<1> QED
  BY <1>1, <1>2, TypeInit, ProgramAlways, PTL DEF Spec
=============================================================================
