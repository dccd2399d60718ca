------------------------ MODULE ThreadPrioritiesProofs ------------------------
(***************************************************************************)
(* Proofs about ThreadPriorities: the types of its variables, that the     *)
(* count of get_command_from_pid never exceeds the denials, that no thread *)
(* is passed over, and that a process is taken for gone only for a reason, *)
(* for any number of callers, threads and denials.                         *)
(***************************************************************************)
EXTENDS ThreadPriorities, FiniteSetTheorems, TLAPS

USE CallersAssumption, CommandAssumption, ThreadsAssumption
    DEF nameVars, threadVars, workerVars, WorkerOnly, Outcomes, Goes

(* The denials that are still to be counted: a caller that has loaded the  *)
(* count leaves room for them all, so nothing it may store is too much.    *)
Counting == {c \in Callers : at[c] \in {"load", "store"}}

RoomToCount == /\ exe_fail_count + Cardinality(Counting) <= denials
               /\ \A c \in Callers :
                     at[c] = "store" => loaded[c] + Cardinality(Counting) <= denials

(* The threads in the life of the process: a process that runs has its     *)
(* leader, one that is gone has none, and a listing has only threads that  *)
(* were born.                                                              *)
Lives == /\ process = "runs" => Leader \in threads
         /\ process = "gone" => threads = {}
         /\ threads \cap unborn = {}
         /\ listing \cap unborn = {} /\ listed \subseteq listing

(* The threads that live are visited, or still listed.                     *)
Visited == set \cup refused \cup late

Underway == /\ wpc = "loop" => threads \subseteq Visited \cup listed
            /\ wpc \in Outcomes => threads \subseteq Visited
            /\ wpc = "loop" /\ errcode = "ESRCH"
                  => process = "gone" \/ ~(listing \subseteq threads)
            /\ GoneForAReason

IInv == TypeOK /\ RoomToCount /\ Lives /\ Underway

LEMMA CountingFinite == IsFiniteSet(Counting) /\ Cardinality(Counting) \in Nat
  BY FS_Subset, FS_CardinalityType DEF Counting

LEMMA InitInv == Init => IInv
<1> SUFFICES ASSUME Init PROVE IInv
  OBVIOUS
<1>1. Counting = {}
  BY DEF Init, NameInit, Counting
<1>2. Cardinality(Counting) = 0
  BY <1>1, FS_EmptySet
<1>3. RoomToCount
  BY <1>2 DEF Init, NameInit, RoomToCount
<1>4. TypeOK /\ Lives /\ Underway
  BY DEF Init, NameInit, TypeOK, NameTypeOK, Lives, Underway, GoneForAReason
<1> QED
  BY <1>3, <1>4 DEF IInv

(* A step of a caller: the set of those that count grows with a denial,    *)
(* and shrinks when one of them stores.                                    *)
LEMMA CallerStep ==
    ASSUME NameTypeOK, RoomToCount, NEW c \in Callers, get_command_from_pid(c)
    PROVE  NameTypeOK' /\ RoomToCount' /\ process' = process
<1> USE DEF NameTypeOK
<1>1. CASE Call(c) \/ ReadCmdline(c) \/ Test(c) \/ ReadComm(c) \/ Reset(c) \/ LoadCount(c)
  <2>1. Counting' = Counting
    BY <1>1 DEF Counting, Call, ReadCmdline, Test, ReadComm, Reset, LoadCount
  <2>2. Cardinality(Counting') = Cardinality(Counting) /\ Cardinality(Counting) \in Nat
    BY <2>1, CountingFinite
  <2>3. CASE Reset(c)
    BY <2>2, <2>3 DEF Reset, RoomToCount
  <2>4. CASE LoadCount(c)
    BY <2>2, <2>4 DEF LoadCount, RoomToCount
  <2>5. CASE Call(c) \/ ReadCmdline(c) \/ Test(c) \/ ReadComm(c)
    BY <2>2, <2>5 DEF Call, ReadCmdline, Test, ReadComm, RoomToCount
  <2> QED
    BY <1>1, <2>3, <2>4, <2>5
<1>2. CASE ReadExe(c)
  <2>1. CASE denials' = denials
    <3>1. Counting' = Counting
      BY <1>2, <2>1 DEF Counting, ReadExe
    <3>2. Cardinality(Counting') = Cardinality(Counting) /\ Cardinality(Counting) \in Nat
      BY <3>1, CountingFinite
    <3> QED
      BY <1>2, <2>1, <3>2 DEF ReadExe, RoomToCount
  <2>2. CASE denials' = denials + 1 /\ denials < MaxDenials /\ at' = [at EXCEPT ![c] = "load"]
    <3>1. Counting' = Counting \cup {c} /\ c \notin Counting
      BY <1>2, <2>2 DEF Counting, ReadExe
    <3>2. Cardinality(Counting') = Cardinality(Counting) + 1 /\ Cardinality(Counting) \in Nat
      BY <3>1, CountingFinite, FS_AddElement
    <3> QED
      BY <1>2, <2>2, <3>2 DEF ReadExe, RoomToCount
  <2> QED
    BY <1>2, <2>1, <2>2 DEF ReadExe
<1>3. CASE StoreCount(c)
  <2>1. Counting' = Counting \ {c} /\ c \in Counting
    BY <1>3 DEF Counting, StoreCount
  <2>2. Cardinality(Counting') = Cardinality(Counting) - 1 /\ Cardinality(Counting') \in Nat
        /\ Cardinality(Counting) \in Nat
    BY <2>1, CountingFinite, FS_RemoveElement, FS_CardinalityType
  <2>3. loaded[c] + Cardinality(Counting) <= denials
    BY <1>3 DEF StoreCount, RoomToCount
  <2>4. loaded[c] + 1 \in 0..MaxDenials
    BY <2>2, <2>3
  <2> QED
    BY <1>3, <2>2, <2>3, <2>4 DEF StoreCount, RoomToCount
<1> QED
  BY <1>1, <1>2, <1>3 DEF get_command_from_pid

(* Exit and Reap leave the callers alone.                                  *)
LEMMA CallersUnchanged ==
    ASSUME NameTypeOK, RoomToCount,
           UNCHANGED <<exe_fail_count, at, loaded, denials>>,
           process' \in {"runs", "zombie", "gone"}
    PROVE  NameTypeOK' /\ RoomToCount'
  BY DEF NameTypeOK, RoomToCount, Counting

(* What a step of the kernel leaves of the invariant.                      *)
LEMMA KernelStep == IInv /\ Kernel => IInv'
<1> SUFFICES ASSUME IInv, Kernel PROVE IInv'
  OBVIOUS
<1> USE DEF IInv, TypeOK
<1>1. NameTypeOK' /\ RoomToCount'
  <2>1. UNCHANGED <<exe_fail_count, at, loaded, denials>>
    BY DEF Kernel, ThreadExit, ThreadExec, Clone, ProcessExit, ProcessReaped, Exit, Reap
  <2>2. process' \in {"runs", "zombie", "gone"}
    BY DEF Kernel, ThreadExit, ThreadExec, Clone, ProcessExit, ProcessReaped, Exit, Reap,
           NameTypeOK
  <2> QED
    BY <2>1, <2>2, CallersUnchanged
<1> USE DEF Lives, Underway, Visited, GoneForAReason
<1>2. ASSUME NEW t \in Threads, ThreadExit(t) PROVE IInv'
  BY <1>1, <1>2 DEF ThreadExit
<1>3. ASSUME NEW t \in Threads, ThreadExec(t) PROVE IInv'
  BY <1>1, <1>3 DEF ThreadExec
<1>4. ASSUME NEW t \in Threads, NEW u \in Threads, Clone(t, u) PROVE IInv'
  BY <1>1, <1>4 DEF Clone
<1>5. CASE ProcessExit
  BY <1>1, <1>5 DEF ProcessExit, Exit
<1>6. CASE ProcessReaped
  BY <1>1, <1>6 DEF ProcessReaped, Reap
<1> QED
  BY <1>2, <1>3, <1>4, <1>5, <1>6 DEF Kernel

(* The worker: what it visits it sets, or the kernel refuses it, or it is  *)
(* not there.                                                              *)
LEMMA WorkerStep == IInv /\ Worker => IInv'
<1> SUFFICES ASSUME IInv, Worker PROVE IInv'
  OBVIOUS
<1> USE DEF IInv, TypeOK
<1>1. NameTypeOK' /\ RoomToCount' /\ threads' = threads /\ unborn' = unborn
      /\ process' = process
  <2>1. UNCHANGED <<nameVars, threads, unborn>>
    BY DEF Worker, Open, Visit, Vanishes, TestErrno, NextValue
  <2> QED
    BY <2>1, CallersUnchanged DEF NameTypeOK
<1> USE DEF Lives, Underway, Visited, GoneForAReason
<1>2. CASE Open
  BY <1>1, <1>2 DEF Open
<1>3. CASE Visit
  <2>1. PICK t \in listed : /\ Sets(t) \/ NotThere(t) \/ Refuses(t)
                            /\ listed' = listed \ {t}
    BY <1>3 DEF Visit
  <2>2. CASE Sets(t)
    BY <1>1, <1>3, <2>1, <2>2 DEF Sets, Visit
  <2>3. CASE NotThere(t)
    BY <1>1, <1>3, <2>1, <2>3 DEF NotThere, Visit
  <2>4. CASE Refuses(t)
    BY <1>1, <1>3, <2>1, <2>4 DEF Refuses, Visit
  <2> QED
    BY <2>1, <2>2, <2>3, <2>4
<1>4. CASE Vanishes
  BY <1>1, <1>4 DEF Vanishes
<1>5. CASE TestErrno
  BY <1>1, <1>5 DEF TestErrno
<1>6. CASE NextValue
  BY <1>1, <1>6 DEF NextValue
<1> QED
  BY <1>2, <1>3, <1>4, <1>5, <1>6 DEF Worker

LEMMA AlwaysInv == Spec => []IInv
<1>1. IInv /\ [Next]_vars => IInv'
  <2> SUFFICES ASSUME IInv, [Next]_vars PROVE IInv'
    OBVIOUS
  <2>1. ASSUME NEW c \in Callers, get_command_from_pid(c), UNCHANGED <<threadVars, workerVars>>
        PROVE  IInv'
    BY <2>1, CallerStep DEF IInv, TypeOK, Lives, Underway, Visited, GoneForAReason
  <2>2. CASE UNCHANGED vars
    BY <2>2, CallersUnchanged
       DEF vars, IInv, TypeOK, NameTypeOK, Lives, Underway, Visited, GoneForAReason
  <2> QED
    BY <2>1, <2>2, KernelStep, WorkerStep DEF Next
<1> QED
  BY <1>1, InitInv, PTL DEF Spec

(* The types hold for any number of callers, threads and denials.          *)
THEOREM ProcfsTypeCorrect == Spec => []TypeOK
<1>1. IInv => TypeOK
  BY DEF IInv
<1> QED
  BY <1>1, AlwaysInv, PTL

(* Only reads that were denied count against the second method of          *)
(* get_command_from_pid (process.cpp:224-247), however many callers lose   *)
(* each other's updates.                                                   *)
THEOREM DenialsCounted == Spec => []OnlyDenialsCount
<1>1. IInv => OnlyDenialsCount
  BY CountingFinite DEF IInv, TypeOK, NameTypeOK, RoomToCount, OnlyDenialsCount
<1> QED
  BY <1>1, AlwaysInv, PTL

(* set_priority passes no thread over, whatever threads are made and end   *)
(* under the listing (priority.cpp:41-65).                                 *)
THEOREM ThreadsReached == Spec => []NoThreadSkipped
<1>1. IInv => NoThreadSkipped
  BY DEF IInv, Underway, Visited, NoThreadSkipped
<1> QED
  BY <1>1, AlwaysInv, PTL

(* "Process not found" is never said of a process whose listed threads all *)
(* live (priority.cpp:26-28).                                              *)
THEOREM NotFoundForAReason == Spec => []GoneForAReason
<1>1. IInv => GoneForAReason
  BY DEF IInv, Underway
<1> QED
  BY <1>1, AlwaysInv, PTL
=============================================================================
