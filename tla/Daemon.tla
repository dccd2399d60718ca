-------------------------------- MODULE Daemon --------------------------------
(***************************************************************************)
(* The life of the daemon: main (main.cpp:223-305) with its                *)
(* InterruptHandler (utils.cpp), the event thread that pushes processes,   *)
(* the worker that polls them (worker.cpp), the queue between them, which  *)
(* blocks its producers when it is full, the thread that reloads the       *)
(* configuration, and the objects they use, until main destroys them.      *)
(* This module composes the threads; what each does with a process is in   *)
(* ProcessListener and RuleApplication, how the queue works in AtomicRing, *)
(* and how requests reach the reader in ReloadMailbox.                     *)
(*                                                                         *)
(* There is no end to what the kernel reports, a signal may come at any    *)
(* point, before its handler is in place too, and a failed socket makes    *)
(* the event thread scan /proc again at any time, while it is being        *)
(* stopped included; the scan or the restart may go wrong and take the     *)
(* process with it.  Any number of reload requests comes, for a file with  *)
(* anything in it.  SIGKILL is left to SingletonLock, whose instance this  *)
(* daemon is.                                                              *)
(***************************************************************************)
EXTENDS Naturals, Sequences

CONSTANTS Capacity,        \* processes the queue holds
          Processes,       \* processes a scan of /proc finds
          Options,         \* command-line options that may be given
          BenchmarkCounts, \* values --benchmark-count may have; 0: not given
          MaxSignals       \* bound: signals

(* A start-up scan that finds more than the queue holds never ends: no     *)
(* consumer exists yet.                                                    *)
ASSUME QueueAssumption == /\ Capacity \in Nat \ {0}
                          /\ Processes \in 0..Capacity
ASSUME OptionsAssumption == /\ Options \subseteq {"benchmark", "manual-scanning"}
                            /\ BenchmarkCounts \subseteq Nat /\ MaxSignals \in Nat

Producers == {"main", "event"}

(* The locals of main that others use, in the order of their destruction;  *)
(* the callback and the reader are members of the singleton.               *)
Locals == <<"worker", "listener", "ih", "rules", "conf", "callback">>

VARIABLES options, benchmark_count,
          odd_rules,     \* a rule has a type that is no string, or a CPUQuota
                         \* that is no number
          freq_ok,       \* the check_freq of the configuration is a number
          object,        \* the shared memory object is there
          destroyed,     \* how many of the locals are destroyed
          reader,        \* where the thread that reads the reload requests is
          m_need_exit,   \* of the InterruptHandler
          signal,        \* where the signal handler is
          signals,       \* signals so far
          main,          \* where the main thread is
          event,         \* where the event thread is
          worker,        \* where the worker is
          queue,         \* number of processes in the queue
          to_push,       \* of each producer: processes it still has to push
          stops,         \* threads that were asked to stop
          processed      \* processed_count, as far as benchmark_count

(* The arguments and the environment of the process do not change.         *)
settings == <<options, benchmark_count, odd_rules>>

(* What the signal handler changes, what the reader changes, and what main *)
(* leaves behind or takes away.                                            *)
signalVars == <<m_need_exit, signal, signals>>
readerVars == <<reader, freq_ok>>
objectVars == <<object, destroyed>>

vars == <<options, benchmark_count, odd_rules, freq_ok, object, destroyed, reader,
          m_need_exit, signal, signals, main, event, worker, queue, to_push, stops,
          processed>>

Ends == {"exited", "aborted"}

Oddities == {"type", "CPUQuota"}

Running == main \notin Ends

Gone(o) == \E i \in 1..destroyed : Locals[i] = o

(* The step may end the process, if b: it uses what was destroyed, or an   *)
(* exception leaves a noexcept function.                                   *)
MayAbortIf(b) == \/ UNCHANGED main
                 \/ b /\ main' = "aborted"

(* The object is created, and the reader started (main.cpp:217-223).       *)
Init == /\ options \in SUBSET Options
        /\ benchmark_count \in BenchmarkCounts
        /\ odd_rules \in SUBSET Oddities /\ freq_ok \in BOOLEAN
        /\ "manual-scanning" \in options => freq_ok
        /\ object = TRUE /\ destroyed = 0
        /\ reader = "check"
        /\ m_need_exit = FALSE
        /\ signal = "none" /\ signals = 0
        /\ main = "created"
        /\ event = "unstarted"
        /\ worker = "unstarted"
        /\ queue = 0
        /\ to_push = [t \in Producers |-> 0]
        /\ stops = {}
        /\ processed = 0

(* process_queue.push, of a scan or of an event                            *)
Push(t) == /\ Running
           /\ to_push[t] > 0
           /\ queue < Capacity
           /\ queue' = queue + 1
           /\ to_push' = [to_push EXCEPT ![t] = @ - 1]
           /\ UNCHANGED <<main, event, worker, stops, processed>>
           /\ UNCHANGED <<settings, signalVars, readerVars, objectVars>>

-----------------------------------------------------------------------------
(* SIGINT or SIGTERM, once the handler is in place: on_signal.  Nothing    *)
(* takes the handler away, which refers to the InterruptHandler after that *)
(* is destroyed.                                                           *)

HandlerOnly == /\ UNCHANGED <<event, worker, queue, to_push, stops, processed>>
               /\ UNCHANGED <<settings, readerVars, objectVars>>

Signal == /\ Running /\ main # "created"
          /\ signal = "none" /\ signals < MaxSignals
          /\ signal' = "notify"
          /\ signals' = signals + 1
          /\ m_need_exit' = TRUE
          /\ MayAbortIf(Gone("ih"))
          /\ HandlerOnly

(* notify_all wakes main only if it waits already.                         *)
Notify == /\ Running
          /\ signal = "notify"
          /\ signal' = "none"
          /\ IF main = "wait" /\ "benchmark" \notin options
             THEN main' = "test" ELSE MayAbortIf(Gone("ih"))
          /\ UNCHANGED <<m_need_exit, signals>>
          /\ HandlerOnly

-----------------------------------------------------------------------------
(* The reader of reload requests, a member of the singleton *)

ReaderOnly == /\ UNCHANGED <<event, worker, queue, to_push, stops, processed>>
              /\ UNCHANGED <<settings, signalVars, objectVars>>

ReaderGoes(to) == reader' = to /\ UNCHANGED <<main, freq_ok>> /\ ReaderOnly

(* Mutant: the loop has no end.                                            *)
MutReaderCheck == /\ Running /\ reader = "check"
                  /\ ReaderGoes("look")

(* while (!stop_token.stop_requested()): the destructor of the jthread     *)
(* requests it, and joins.                                                 *)
ReaderCheck == /\ Running /\ reader = "check"
               /\ ReaderGoes(IF main = "join" THEN "ended" ELSE "look")

(* The segment holds "RELOAD", or it does not.                             *)
ReaderLook == /\ Running /\ reader = "look"
              /\ \E to \in {"check", "reload"} : ReaderGoes(to)

(* m_reload_callback(): conf.reload().  What the file says of check_freq   *)
(* replaces what was there, if it says anything.                           *)
ReaderReload == /\ Running /\ reader = "reload"
                /\ reader' = "check"
                /\ freq_ok' \in BOOLEAN
                /\ MayAbortIf(Gone("conf") \/ Gone("callback"))
                /\ ReaderOnly

Reader == ReaderCheck \/ ReaderLook \/ ReaderReload

-----------------------------------------------------------------------------
(* The main thread *)

MainGoes(to) == /\ main' = to
                /\ UNCHANGED <<event, worker, queue, to_push, stops, processed>>
                /\ UNCHANGED <<settings, readerVars>>

MainOnly(to) == MainGoes(to) /\ UNCHANGED <<signalVars, objectVars>>

(* create_cgroups is noexcept, and takes a CPUQuota for a number; then the *)
(* handler is in place, and the listener scans /proc (main.cpp:228-237).   *)
HandleSignals == /\ main = "created"
                 /\ IF "CPUQuota" \in odd_rules
                    THEN main' = "aborted" /\ UNCHANGED to_push
                    ELSE main' = "scan" /\ to_push' = [to_push EXCEPT !["main"] = Processes]
                 /\ UNCHANGED <<event, worker, queue, stops, processed>>
                 /\ UNCHANGED <<settings, signalVars, readerVars, objectVars>>

(* SIGINT or SIGTERM before that ends the process at once.                 *)
EarlySignal == /\ main = "created"
               /\ MainOnly("aborted")

(* What a scan throws when /proc cannot be read leaves the noexcept init,  *)
(* or main.                                                                *)
ScanThrows == /\ main \in {"scan", "rescan"}
              /\ MainOnly("aborted")

Start == /\ main = "scan" /\ to_push["main"] = 0
         /\ main' = "start"
         /\ event' = "check"
         /\ UNCHANGED <<worker, queue, to_push, stops, processed>>
         /\ UNCHANGED <<settings, signalVars, readerVars, objectVars>>

(* !processListener.status(): the object is removed, then the destructor   *)
(* of the listener joins a thread that was never started, and throws.      *)
StartFails == /\ main = "scan" /\ to_push["main"] = 0
              /\ MainGoes("aborted")
              /\ object' = FALSE
              /\ m_need_exit' = TRUE
              /\ UNCHANGED <<signal, signals, destroyed>>

StartWorker == /\ main = "start"
               /\ main' = "loop"
               /\ worker' = "check"
               /\ UNCHANGED <<event, queue, to_push, stops, processed>>
               /\ UNCHANGED <<settings, signalVars, readerVars, objectVars>>

(* while (!ih.should_exit()), then on the way to wait_for: a notification  *)
(* that comes here finds nobody.                                           *)
Loop == /\ main = "loop"
        /\ MainOnly(IF m_need_exit THEN "remove" ELSE "enter")

(* With --benchmark: sleep_for(30s).  Otherwise conf.check_freq(), which   *)
(* lets std::stoul throw: nobody catches it.                               *)
Wait == /\ main = "enter"
        /\ MainOnly(IF freq_ok \/ "benchmark" \in options THEN "wait" ELSE "aborted")

(* wait_for has no predicate: check_freq seconds pass, or it wakes for no  *)
(* reason.                                                                 *)
WaitEnds == /\ main = "wait"
            /\ MainOnly("test")

(* benchmark_count.has_value() && processed_processes() >= benchmark_count *)
Enough == benchmark_count > 0 /\ processed >= benchmark_count

Test == /\ main = "test"
        /\ main' = IF m_need_exit \/ "benchmark" \in options \/ Enough THEN "remove"
                   ELSE IF "manual-scanning" \in options THEN "rescan" ELSE "loop"
        /\ to_push' = IF main' = "rescan" THEN [to_push EXCEPT !["main"] = Processes]
                      ELSE to_push
        /\ UNCHANGED <<event, worker, queue, stops, processed>>
        /\ UNCHANGED <<settings, signalVars, readerVars, objectVars>>

Rescanned == /\ main = "rescan" /\ to_push["main"] = 0
             /\ MainOnly("loop")

(* Mutant: the object is not removed.                                      *)
MutRemove == /\ main = "remove"
             /\ main' = "event" /\ stops' = stops \cup {"event"}
             /\ UNCHANGED <<event, worker, queue, to_push, processed>>
             /\ UNCHANGED <<settings, signalVars, readerVars, objectVars>>

(* close_shm() and remove(), then the listener is asked to stop.           *)
Remove == /\ main = "remove"
          /\ main' = "event" /\ stops' = stops \cup {"event"}
          /\ object' = FALSE
          /\ UNCHANGED <<event, worker, queue, to_push, processed, destroyed>>
          /\ UNCHANGED <<settings, signalVars, readerVars>>

(* Mutants: the worker is stopped before the listener; stop() does not     *)
(* join.                                                                   *)
MutStopWorker == /\ main = "event"
                 /\ main' = "worker" /\ stops' = stops \cup {"worker"}
                 /\ UNCHANGED <<event, worker, queue, to_push, processed>>
                 /\ UNCHANGED <<settings, signalVars, readerVars, objectVars>>
MutReturn == /\ main = "worker"
             /\ MainGoes("destroy")
             /\ m_need_exit' = TRUE
             /\ UNCHANGED <<signal, signals, objectVars>>

(* processListener.stop() returns, and worker.stop() begins.               *)
StopWorker == /\ main = "event" /\ event = "ended"
              /\ main' = "worker" /\ stops' = stops \cup {"worker"}
              /\ UNCHANGED <<event, worker, queue, to_push, processed>>
              /\ UNCHANGED <<settings, signalVars, readerVars, objectVars>>

(* worker.stop() returns; ih.stop(), and the end of main                   *)
Return == /\ main = "worker" /\ worker = "ended"
          /\ MainGoes("destroy")
          /\ m_need_exit' = TRUE
          /\ UNCHANGED <<signal, signals, objectVars>>

(* The locals go in the reverse order of their construction; the singleton *)
(* last, and of its members the callback before the thread that uses it.   *)
Destroy == /\ main = "destroy"
           /\ destroyed' = destroyed + 1
           /\ MainGoes(IF destroyed' = Len(Locals) THEN "join" ELSE "destroy")
           /\ UNCHANGED <<signalVars, object>>

Exit == /\ main = "join" /\ reader = "ended"
        /\ MainOnly("exited")

(* The steps of main, which go on as long as they can                      *)
Main == \/ HandleSignals \/ Start \/ StartFails \/ StartWorker
        \/ Loop \/ Wait \/ WaitEnds \/ Test \/ Rescanned
        \/ Remove \/ StopWorker \/ Return \/ Destroy \/ Exit

-----------------------------------------------------------------------------
(* The event thread *)

(* One turn of its loops: the stop token, then recv, which finds nothing,  *)
(* an event to push, a failure that leads to a scan, or the end of the     *)
(* connection (process.cpp:128), after which the thread ends unasked.      *)
EventCheck == /\ Running
              /\ event = "check" /\ to_push["event"] = 0
              /\ IF "event" \in stops
                 THEN event' = "ended" /\ UNCHANGED to_push
                 ELSE \/ UNCHANGED <<event, to_push>>
                      \/ /\ \E n \in {1, Processes} :
                                to_push' = [to_push EXCEPT !["event"] = n]
                         /\ UNCHANGED event
                      \/ event' = "ended" /\ UNCHANGED to_push
              /\ UNCHANGED <<main, worker, queue, stops, processed>>
              /\ UNCHANGED <<settings, signalVars, readerVars, objectVars>>

(* A restart that goes wrong takes the process with it: its scan throws    *)
(* out of the noexcept init, or it has left no program, through which the  *)
(* thread receives unless it is told to stop before (ProcessListener and   *)
(* BpfListener have the detail).                                           *)
EventFails == /\ Running
              /\ event = "check"
              /\ to_push["event"] > 0 \/ "event" \notin stops
              /\ main' = "aborted"
              /\ UNCHANGED <<event, worker, queue, to_push, stops, processed>>
              /\ UNCHANGED <<settings, signalVars, readerVars, objectVars>>

-----------------------------------------------------------------------------
(* The worker *)

(* The outer loop looks at the stop token; the inner one ends when a poll  *)
(* comes back empty.                                                       *)
WorkerCheck == /\ Running
               /\ worker = "check"
               /\ worker' = IF "worker" \in stops THEN "ended" ELSE "poll"
               /\ UNCHANGED <<main, event, queue, to_push, stops, processed>>
               /\ UNCHANGED <<settings, signalVars, readerVars, objectVars>>

(* get_rule is noexcept: a rule with a type that is no string ends the     *)
(* process.                                                                *)
WorkerPoll == /\ Running
              /\ worker = "poll"
              /\ IF queue = 0
                 THEN worker' = "check" /\ UNCHANGED <<main, queue, processed>>
                 ELSE /\ queue' = queue - 1
                      /\ processed' = IF processed < benchmark_count THEN processed + 1
                                      ELSE processed
                      /\ MayAbortIf("type" \in odd_rules)
                      /\ UNCHANGED worker
              /\ UNCHANGED <<event, to_push, stops>>
              /\ UNCHANGED <<settings, signalVars, readerVars, objectVars>>

-----------------------------------------------------------------------------

Next == \/ Signal \/ Notify
        \/ Main \/ EarlySignal \/ ScanThrows
        \/ Reader
        \/ EventCheck \/ EventFails
        \/ WorkerCheck \/ WorkerPoll
        \/ \E t \in Producers : Push(t)

(* Threads run; a producer that waits for room gets it (a slot of the ring *)
(* is waited for by the holder of its ticket).  Neither signals nor events *)
(* nor reload requests need come: the event thread must only see that it   *)
(* is to stop.                                                             *)
Fairness == /\ WF_vars(Notify) /\ WF_vars(Main) /\ WF_vars(Reader)
            /\ WF_vars("event" \in stops /\ EventCheck)
            /\ WF_vars(WorkerCheck) /\ WF_vars(WorkerPoll)
            /\ \A t \in Producers : SF_vars(Push(t))

Spec == Init /\ [][Next]_vars

FairSpec == Spec /\ Fairness

-----------------------------------------------------------------------------

(* Every variable keeps its type.                                          *)
TypeOK == /\ options \subseteq Options /\ benchmark_count \in BenchmarkCounts
          /\ odd_rules \subseteq Oddities /\ freq_ok \in BOOLEAN
          /\ object \in BOOLEAN /\ destroyed \in 0..Len(Locals)
          /\ reader \in {"check", "look", "reload", "ended"}
          /\ m_need_exit \in BOOLEAN
          /\ signal \in {"none", "notify"} /\ signals \in 0..MaxSignals
          /\ main \in Ends \cup {"created", "scan", "start", "loop", "enter", "wait", "test", "rescan",
                                "remove", "event", "worker", "destroy", "join"}
          /\ event \in {"unstarted", "check", "ended"}
          /\ worker \in {"unstarted", "check", "poll", "ended"}
          /\ queue \in 0..Capacity
          /\ to_push \in [Producers -> 0..(Processes + 1)]
          /\ stops \subseteq {"event", "worker"}
          /\ processed \in 0..benchmark_count

(* A signal ends the daemon, whenever it comes: during start-up, when its  *)
(* notification finds nobody waiting, while producers wait for room in the *)
(* queue, in the middle of a reload, and although the inner loop of the    *)
(* worker (worker.cpp:30) does not look at the stop token and the kernel   *)
(* never stops reporting.                                                  *)
ShutsDown == m_need_exit ~> main \in Ends

(* After the worker has ended nothing enters the queue, where it would     *)
(* stay, and nobody waits for room in it.                                  *)
NobodyLeftBehind == worker = "ended" => \A t \in Producers : to_push[t] = 0

(* The event thread and the worker do not outlive what they use: the       *)
(* listener with its queue, the rules, the configuration (main.cpp:282-305 *)
(* in the reverse order of main.cpp:136-250).  The reader and the signal   *)
(* handler do.                                                             *)
Outlived == /\ event = "check" => ~Gone("listener")
            /\ worker \in {"check", "poll"} =>
                   \A o \in {"worker", "listener", "rules", "conf"} : ~Gone(o)

(* The daemon as an instance of SingletonLock.                             *)
Phase == CASE main \in Ends -> "ended"
           [] main = "remove" -> "stopping"
           [] main \in {"event", "worker"} -> "removed"
           [] main \in {"destroy", "join"} -> "joining"
           [] OTHER -> "serving"

Lock == INSTANCE SingletonLock
        WITH Instances <- {"daemon"}, Service <- "daemon",
             NoObject <- "none", Orphan <- "orphan", MaxCrashes <- 1,
             shm <- IF ~object THEN "none" ELSE IF Running THEN "daemon" ELSE "orphan",
             pc <- [i \in {"daemon"} |-> Phase],
             crashes <- IF main = "aborted" THEN 1 ELSE 0

(* Whatever main and its threads do, and wherever one of them ends the     *)
(* process, the object of the daemon goes through what the lock lets an    *)
(* instance do: it is removed once, when main leaves its loop and before   *)
(* it stops a thread (main.cpp:286-292), or when the listener failed (243);*)
(* an end that is no crash leaves none behind, and neither does a crash    *)
(* after the removal - what the reader and the handler do with destroyed   *)
(* objects included.                                                       *)
ImplementsLock == [][Lock!Next]_(Lock!vars)
=============================================================================
