----------------------------- MODULE DaemonProofs -----------------------------
(***************************************************************************)
(* Proofs about Daemon: the types of its variables, that nobody is left    *)
(* behind when the worker ends, that the threads end before what they use  *)
(* is destroyed, and that the daemon does with its shared memory object    *)
(* what SingletonLock lets an instance do, for every capacity of the       *)
(* queue, every number of processes and signals, and every set of options. *)
(***************************************************************************)
EXTENDS Daemon, TLAPS

USE QueueAssumption, OptionsAssumption
    DEF settings, signalVars, readerVars, objectVars, Running, Ends, Producers,
        HandlerOnly, ReaderOnly, ReaderGoes, MainGoes, MainOnly, MayAbortIf

(* The object is gone once main has left its loop to stop the threads.     *)
Stopping == {"event", "worker", "destroy", "join", "exited"}

(* What makes it so: main pushes only while it scans, the event thread     *)
(* owes nothing once it has ended, main asks the worker to stop only after *)
(* it has joined the event thread, never to scan again, and joins the      *)
(* worker before it destroys anything.                                     *)
StopOrder == /\ main \notin {"scan", "rescan", "aborted"} => to_push["main"] = 0
             /\ event = "ended" => to_push["event"] = 0
             /\ "worker" \in stops => /\ event = "ended" /\ to_push["main"] = 0
                                      /\ main \in {"worker", "destroy", "join"} \cup Ends
             /\ worker = "ended" => "worker" \in stops
             /\ main \in {"destroy", "join"} \/ destroyed > 0 => worker = "ended"

Removal == main \in Stopping => ~object

(* main destroys each of its locals once.                                  *)
Destruction == /\ main \notin {"destroy", "join"} \cup Ends => destroyed = 0
               /\ main = "destroy" => destroyed < 6

LEMMA NumberOfLocals == Len(Locals) = 6
  BY DEF Locals

IInv == TypeOK /\ Destruction /\ StopOrder /\ Removal

LEMMA GoneDestroyed == ASSUME NEW o, TypeOK, Gone(o) PROVE destroyed > 0
  BY DEF Gone, TypeOK, Locals

LEMMA InitInv == Init => IInv
<1> SUFFICES ASSUME Init PROVE IInv
  OBVIOUS
<1>1. /\ to_push \in [Producers -> 0..(Processes + 1)] /\ queue \in 0..Capacity
      /\ benchmark_count \in BenchmarkCounts /\ processed \in 0..benchmark_count
      /\ signals \in 0..MaxSignals /\ options \subseteq Options
  BY DEF Init
<1>2. destroyed \in 0..Len(Locals)
  BY DEF Init, Locals
<1>3. /\ odd_rules \subseteq Oddities /\ freq_ok \in BOOLEAN
      /\ main = "created" /\ event = "unstarted" /\ worker = "unstarted"
      /\ stops = {} /\ signal = "none" /\ reader = "check"
      /\ object \in BOOLEAN /\ m_need_exit \in BOOLEAN
  BY DEF Init
<1>4. TypeOK
  BY <1>1, <1>2, <1>3 DEF TypeOK
<1>5. Destruction /\ StopOrder /\ Removal
  BY DEF Init, StopOrder, Removal, Stopping, Destruction
<1> QED
  BY <1>4, <1>5 DEF IInv

(* The types, action by action.                                            *)
LEMMA TypeStep == TypeOK /\ Destruction /\ [Next]_vars => TypeOK'
<1> SUFFICES ASSUME TypeOK, Destruction, [Next]_vars PROVE TypeOK'
  OBVIOUS
<1> USE DEF TypeOK
<1>1. CASE Signal
  BY <1>1 DEF Signal
<1>2. CASE Notify
  BY <1>2 DEF Notify
<1>3. CASE Main
  <2>0. CASE HandleSignals
    BY <2>0 DEF HandleSignals
  <2>1. CASE Start
    BY <2>1 DEF Start
  <2>2. CASE StartFails
    BY <2>2 DEF StartFails
  <2>3. CASE StartWorker
    BY <2>3 DEF StartWorker
  <2>4. CASE Loop
    BY <2>4 DEF Loop
  <2>5. CASE Wait
    BY <2>5 DEF Wait
  <2>6. CASE WaitEnds
    BY <2>6 DEF WaitEnds
  <2>7. CASE Rescanned
    BY <2>7 DEF Rescanned
  <2>8. CASE Test
    <3>1. main' \in {"remove", "rescan", "loop"}
      BY <2>8 DEF Test
    <3>2. to_push' \in [Producers -> 0..(Processes + 1)]
      BY <2>8 DEF Test
    <3> QED
      BY <2>8, <3>1, <3>2 DEF Test
  <2>9. CASE Remove \/ StopWorker
    <3>1. stops' \subseteq {"event", "worker"} /\ main' \in {"event", "worker"}
      BY <2>9 DEF Remove, StopWorker
    <3>2. object' \in BOOLEAN
      BY <2>9 DEF Remove, StopWorker
    <3> QED
      BY <2>9, <3>1, <3>2 DEF Remove, StopWorker
  <2>10. CASE Return \/ Exit
    BY <2>10 DEF Return, Exit
  <2>11. CASE Destroy
    BY <2>11, NumberOfLocals DEF Destroy, Destruction
  <2> QED
    BY <1>3, <2>0, <2>1, <2>2, <2>3, <2>4, <2>5, <2>6, <2>7, <2>8, <2>9, <2>10, <2>11
       DEF Main
<1>4. CASE Reader
  <2>1. CASE ReaderCheck
    BY <2>1 DEF ReaderCheck
  <2>2. CASE ReaderLook
    BY <2>2 DEF ReaderLook
  <2>3. CASE ReaderReload
    BY <2>3 DEF ReaderReload
  <2> QED
    BY <1>4, <2>1, <2>2, <2>3 DEF Reader
<1>5. CASE EventCheck
  BY <1>5 DEF EventCheck
<1>10. CASE EventFails \/ EarlySignal \/ ScanThrows
  <2>1. /\ main' = "aborted"
        /\ UNCHANGED <<event, worker, queue, to_push, stops, processed>>
        /\ UNCHANGED <<settings, signalVars, readerVars, objectVars>>
    BY <1>10 DEF EventFails, EarlySignal, ScanThrows
  <2> QED
    BY <2>1
<1>6. CASE WorkerCheck
  BY <1>6 DEF WorkerCheck
<1>7. CASE WorkerPoll
  BY <1>7 DEF WorkerPoll
<1>8. CASE \E t \in Producers : Push(t)
  BY <1>8 DEF Push
<1>9. CASE UNCHANGED vars
  BY <1>9 DEF vars
<1> QED
  BY <1>1, <1>2, <1>3, <1>4, <1>5, <1>6, <1>7, <1>8, <1>9, <1>10 DEF Next

(* The order of the stop sequence and of the destructions, action by       *)
(* action.                                                                 *)
LEMMA OrderStep ==
    TypeOK /\ Destruction /\ StopOrder /\ [Next]_vars => Destruction' /\ StopOrder'
<1> SUFFICES ASSUME TypeOK, Destruction, StopOrder, [Next]_vars
             PROVE  Destruction' /\ StopOrder'
  OBVIOUS
<1> USE NumberOfLocals DEF TypeOK, Destruction, StopOrder
<1>1. CASE Signal
  BY <1>1 DEF Signal
<1>2. CASE Notify
  BY <1>2 DEF Notify
<1>3. CASE Main
  <2>0. CASE HandleSignals
    BY <2>0 DEF HandleSignals
  <2>1. CASE Start
    BY <2>1 DEF Start
  <2>2. CASE StartFails
    BY <2>2 DEF StartFails
  <2>3. CASE StartWorker
    BY <2>3 DEF StartWorker
  <2>4. CASE Loop
    BY <2>4 DEF Loop
  <2>5. CASE Wait
    BY <2>5 DEF Wait
  <2>6. CASE WaitEnds \/ Rescanned
    BY <2>6 DEF WaitEnds, Rescanned
  <2>7. CASE Test
    BY <2>7 DEF Test
  <2>8. CASE Remove \/ StopWorker
    BY <2>8 DEF Remove, StopWorker
  <2>9. CASE Return \/ Exit
    BY <2>9 DEF Return, Exit
  <2>10. CASE Destroy
    BY <2>10 DEF Destroy
  <2> QED
    BY <1>3, <2>0, <2>1, <2>2, <2>3, <2>4, <2>5, <2>6, <2>7, <2>8, <2>9, <2>10 DEF Main
<1>4. CASE Reader
  <2>1. CASE ReaderCheck
    BY <2>1 DEF ReaderCheck
  <2>2. CASE ReaderLook
    BY <2>2 DEF ReaderLook
  <2>3. CASE ReaderReload
    BY <2>3 DEF ReaderReload
  <2> QED
    BY <1>4, <2>1, <2>2, <2>3 DEF Reader
<1>5. CASE EventCheck
  BY <1>5 DEF EventCheck
<1>10. CASE EventFails \/ EarlySignal \/ ScanThrows
  <2>1. /\ main' = "aborted"
        /\ UNCHANGED <<event, worker, queue, to_push, stops, processed>>
        /\ UNCHANGED <<settings, signalVars, readerVars, objectVars>>
    BY <1>10 DEF EventFails, EarlySignal, ScanThrows
  <2> QED
    BY <2>1
<1>6. CASE WorkerCheck
  BY <1>6 DEF WorkerCheck
<1>7. CASE WorkerPoll
  BY <1>7 DEF WorkerPoll
<1>8. CASE \E t \in Producers : Push(t)
  BY <1>8 DEF Push
<1>9. CASE UNCHANGED vars
  BY <1>9 DEF vars
<1> QED
  BY <1>1, <1>2, <1>3, <1>4, <1>5, <1>6, <1>7, <1>8, <1>9, <1>10 DEF Next

(* The object is removed before main stops its threads.                    *)
LEMMA RemovalStep == TypeOK /\ Removal /\ [Next]_vars => Removal'
<1> SUFFICES ASSUME TypeOK, Removal, [Next]_vars PROVE Removal'
  OBVIOUS
<1> USE DEF TypeOK, Removal, Stopping
<1>1. CASE Signal \/ Notify
  BY <1>1 DEF Signal, Notify
<1>2. CASE Main
  <2>1. CASE HandleSignals \/ Start \/ StartFails \/ StartWorker
    BY <2>1 DEF HandleSignals, Start, StartFails, StartWorker
  <2>2. CASE Loop \/ Wait \/ WaitEnds \/ Test \/ Rescanned
    BY <2>2 DEF Loop, Wait, WaitEnds, Test, Rescanned
  <2>3. CASE Remove \/ StopWorker \/ Return \/ Destroy \/ Exit
    BY <2>3 DEF Remove, StopWorker, Return, Destroy, Exit
  <2> QED
    BY <1>2, <2>1, <2>2, <2>3 DEF Main
<1>3. CASE Reader
  BY <1>3 DEF Reader, ReaderCheck, ReaderLook, ReaderReload
<1>4. CASE EarlySignal \/ ScanThrows \/ EventCheck \/ EventFails
  BY <1>4 DEF EarlySignal, ScanThrows, EventCheck, EventFails
<1>5. CASE WorkerCheck \/ WorkerPoll \/ \E t \in Producers : Push(t)
  BY <1>5 DEF WorkerCheck, WorkerPoll, Push
<1>6. CASE UNCHANGED vars
  BY <1>6 DEF vars
<1> QED
  BY <1>1, <1>2, <1>3, <1>4, <1>5, <1>6 DEF Next

LEMMA AlwaysInv == Spec => []IInv
  BY InitInv, TypeStep, OrderStep, RemovalStep, PTL DEF Spec, IInv

(* Every variable keeps its type.                                          *)
THEOREM DaemonTypeCorrect == Spec => []TypeOK
  BY AlwaysInv, PTL DEF IInv

(* Once the worker has ended, no producer has anything left to push: the   *)
(* order in which main stops the threads (main.cpp:289-292) is enough.     *)
THEOREM StopOrderKept == Spec => []NobodyLeftBehind
<1>1. IInv => NobodyLeftBehind
  BY DEF IInv, StopOrder, NobodyLeftBehind
<1> QED
  BY <1>1, AlwaysInv, PTL

(* The event thread and the worker end before main destroys what they use. *)
THEOREM NothingOutlived == Spec => []Outlived
<1>1. IInv => Outlived
  BY GoneDestroyed DEF IInv, StopOrder, Outlived
<1> QED
  BY <1>1, AlwaysInv, PTL

-----------------------------------------------------------------------------
(* The daemon as an instance of the lock *)

(* A step that ends the process and leaves the object as it is, is a crash *)
(* to the lock.                                                            *)
LEMMA AbortIsCrash ==
    ASSUME Running, main' = "aborted", UNCHANGED object PROVE Lock!Next
<1>1. Lock!Crash("daemon")
  <2>1. Phase # "ended" /\ Phase' = "ended"
    BY DEF Phase
  <2>2. main # "aborted"
    OBVIOUS
  <2> QED
    BY <2>1, <2>2 DEF Lock!Crash, Lock!Goes
<1> QED
  BY <1>1 DEF Lock!Next

(* A step that keeps main in its phase, and the object, is none.           *)
LEMMA PhaseKept ==
    ASSUME Phase' = Phase, UNCHANGED object,
           main' \in Ends <=> main \in Ends, main' = "aborted" <=> main = "aborted"
    PROVE  UNCHANGED Lock!vars
  BY DEF Lock!vars

LEMMA LockStep == TypeOK /\ Removal /\ [Next]_vars => [Lock!Next]_(Lock!vars)
<1> SUFFICES ASSUME TypeOK, Removal, Next PROVE [Lock!Next]_(Lock!vars)
  BY PhaseKept DEF vars, Phase
<1>1. ASSUME UNCHANGED main, UNCHANGED object PROVE UNCHANGED Lock!vars
  BY <1>1, PhaseKept DEF Phase
<1>2. ASSUME Running, UNCHANGED object, MayAbortIf(TRUE) PROVE [Lock!Next]_(Lock!vars)
  BY <1>1, <1>2, AbortIsCrash
<1>3. CASE Signal \/ Notify
  <2>1. Running /\ UNCHANGED object
    BY <1>3 DEF Signal, Notify
  <2>2. MayAbortIf(TRUE) \/ (main = "wait" /\ main' = "test")
    BY <1>3 DEF Signal, Notify
  <2>3. CASE main = "wait" /\ main' = "test"
    BY <2>1, <2>3, PhaseKept DEF Phase
  <2> QED
    BY <1>2, <2>1, <2>2, <2>3
<1>4. CASE Main
  <2>1. CASE HandleSignals \/ Start \/ StartWorker \/ Wait \/ WaitEnds \/ Rescanned
    <3>1. /\ UNCHANGED object /\ main \in {"created", "scan", "start", "enter", "wait", "rescan"}
          /\ main' \in {"aborted", "scan", "start", "loop", "wait", "test"}
      BY <2>1 DEF HandleSignals, Start, StartWorker, Wait, WaitEnds, Rescanned
    <3>2. CASE main' = "aborted"
      BY <3>1, <3>2, AbortIsCrash
    <3>3. CASE main' # "aborted"
      BY <3>1, <3>3, PhaseKept DEF Phase
    <3> QED
      BY <3>2, <3>3
  <2>2. CASE StartFails
    <3>1. /\ main = "scan" /\ main' = "aborted" /\ ~object'
          /\ Phase = "serving" /\ Phase' = "ended"
      BY <2>2 DEF StartFails, Phase
    <3>2. Lock!ListenerFails("daemon")
      BY <3>1 DEF Lock!ListenerFails, Lock!Goes
    <3> QED
      BY <3>2 DEF Lock!Next
  <2>3. CASE Loop \/ Test
    <3>1. /\ UNCHANGED object /\ main \in {"loop", "test"}
          /\ main' \in {"remove", "enter", "rescan", "loop"}
      BY <2>3 DEF Loop, Test
    <3>2. CASE main' = "remove"
      <4>1. Phase = "serving" /\ Phase' = "stopping"
        BY <3>1, <3>2 DEF Phase
      <4>2. Lock!Terminate("daemon")
        BY <3>1, <3>2, <4>1 DEF Lock!Terminate, Lock!Goes
      <4> QED
        BY <4>2 DEF Lock!Next
    <3>3. CASE main' # "remove"
      BY <3>1, <3>3, PhaseKept DEF Phase
    <3> QED
      BY <3>2, <3>3
  <2>4. CASE Remove
    <3>1. /\ main = "remove" /\ main' = "event" /\ ~object'
          /\ Phase = "stopping" /\ Phase' = "removed"
      BY <2>4 DEF Remove, Phase
    <3>2. Lock!Remove("daemon")
      BY <3>1 DEF Lock!Remove, Lock!Goes
    <3> QED
      BY <3>2 DEF Lock!Next, Lock!Proceeds
  <2>5. CASE StopWorker \/ Destroy
    <3>1. /\ UNCHANGED object
          /\ \/ main = "event" /\ main' = "worker"
             \/ main = "destroy" /\ main' \in {"destroy", "join"}
      BY <2>5 DEF StopWorker, Destroy
    <3> QED
      BY <3>1, PhaseKept DEF Phase
  <2>6. CASE Return
    <3>1. /\ main = "worker" /\ main' = "destroy" /\ UNCHANGED object
          /\ Phase = "removed" /\ Phase' = "joining"
      BY <2>6 DEF Return, Phase
    <3>2. Lock!Return("daemon")
      BY <3>1 DEF Lock!Return, Lock!Goes
    <3> QED
      BY <3>2 DEF Lock!Next, Lock!Proceeds
  <2>7. CASE Exit
    <3>1. /\ main = "join" /\ main' = "exited" /\ UNCHANGED object /\ ~object
          /\ Phase = "joining" /\ Phase' = "ended"
      BY <2>7 DEF Exit, Phase, Removal, Stopping
    <3>2. Lock!Exit("daemon")
      BY <3>1 DEF Lock!Exit, Lock!Goes
    <3> QED
      BY <3>2 DEF Lock!Next, Lock!Proceeds
  <2> QED
    BY <1>4, <2>1, <2>2, <2>3, <2>4, <2>5, <2>6, <2>7 DEF Main
<1>5. CASE Reader
  BY <1>2, <1>5 DEF Reader, ReaderCheck, ReaderLook, ReaderReload
<1>6. CASE EarlySignal \/ ScanThrows \/ EventFails
  BY <1>6, AbortIsCrash DEF EarlySignal, ScanThrows, EventFails
<1>7. CASE EventCheck \/ WorkerCheck \/ \E t \in Producers : Push(t)
  BY <1>1, <1>7 DEF EventCheck, WorkerCheck, Push
<1>8. CASE WorkerPoll
  BY <1>2, <1>8 DEF WorkerPoll
<1> QED
  BY <1>3, <1>4, <1>5, <1>6, <1>7, <1>8 DEF Next

(* Every step of the daemon is one the lock lets an instance take, or none *)
(* to the lock: its proofs hold of what the daemon does with the object,   *)
(* and only a crash before the removal leaves the object behind.           *)
THEOREM DaemonImplementsLock == Spec => ImplementsLock
<1>1. IInv /\ [Next]_vars => [Lock!Next]_(Lock!vars)
  BY LockStep DEF IInv
<1> QED
  BY <1>1, AlwaysInv, PTL DEF Spec, ImplementsLock
=============================================================================
