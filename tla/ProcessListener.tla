--------------------------- MODULE ProcessListener ---------------------------
(***************************************************************************)
(* ProcessQueue (src/platform/linux/process.cpp) with the netlink listener *)
(* of libananicycppng_netlink: the thread that learns of processes from    *)
(* the kernel's process connector and pushes them to the worker, the scans *)
(* of /proc at start-up and after a failure, the scans the main thread     *)
(* makes with --manual-scanning, and the stop.                             *)
(*                                                                         *)
(* The kernel is the environment: processes are born, change their name    *)
(* and exit at any time; the connector queues an event on the socket, or   *)
(* drops it and reports an overrun when the socket buffer is full.         *)
(* The queue to the worker is in order (ProcessFifo), so what matters of   *)
(* it here is the last name it was given for each process.                 *)
(***************************************************************************)
EXTENDS Naturals, Sequences, FiniteSets

CONSTANTS NPids,        \* processes are 1..NPids, in the order /proc lists them
          Names,        \* what get_command_from_pid makes of a live process
          SocketBuffer, \* events the socket can hold
          MaxExecs,     \* bound: changes of name
          Faults,       \* outcomes of initialize(), besides a working socket,
                        \* and of recv, that may occur
          MaxFaults,    \* bound: how often
          Modes,        \* whether --manual-scanning may be given
          MayStop

Pids == 1..NPids

ASSUME ListenerAssumption ==
    /\ NPids \in Nat /\ SocketBuffer \in Nat /\ MaxExecs \in Nat /\ MaxFaults \in Nat
    /\ Faults \subseteq {"bad", "deaf", "null", "zero"}
    /\ Modes \subseteq BOOLEAN /\ MayStop \in BOOLEAN
    /\ Names \cap {"unborn", "gone"} = {}

VARIABLES name,       \* kernel: the name of each process, "unborn" or "gone"
          execs,      \* kernel: changes of name so far
          socket,     \* "closed" (no program), "open", "bad" (descriptor -1),
                      \* "deaf" (not subscribed) or "null" (no memory)
          backlog,    \* kernel: events waiting on the socket; 0: not a birth or name
          overrun,    \* kernel: ENOBUFS is pending
          prev_pid,   \* the static of handle_events
          epc,        \* where the event thread is
          main,       \* where the main thread is
          cursor,     \* of each scan: no process below it is still to be read
          found,      \* what each thread read of /proc and is about to push
          stop_requested,
          manual_scanning, \* the option of main
          faults,     \* faults so far
          reported,   \* history: the last name pushed for each process
          missed      \* history: processes that changed without being noticed

kernelVars == <<name, execs>>
socketVars == <<socket, backlog, overrun>>
commands == <<stop_requested, manual_scanning>>
threadVars == <<prev_pid, epc, main, cursor, found, commands>>
vars == <<name, execs, socket, backlog, overrun, prev_pid, epc, main, cursor,
          found, stop_requested, manual_scanning, faults, reported, missed>>

(* A step that only moves the threads on.                                  *)
OnlyControl == UNCHANGED <<name, execs, socket, backlog, overrun, prev_pid, cursor,
                           found, stop_requested, manual_scanning, faults, reported,
                           missed>>

Scanners == {"main", "event"}
Nobody == [pid |-> 0, name |-> "gone"]

Alive(p) == name[p] \in Names

Init == /\ name \in [Pids -> {"unborn"} \cup Names]
        /\ execs = 0
        /\ socket = "closed"
        /\ backlog = <<>>
        /\ overrun = FALSE
        /\ prev_pid = 0
        /\ epc = "unstarted"
        /\ main = "scan"
        /\ cursor = [s \in Scanners |-> 1]
        /\ found = [s \in Scanners |-> Nobody]
        /\ stop_requested = FALSE
        /\ manual_scanning \in Modes
        /\ faults = 0
        /\ reported = [p \in Pids |-> "unborn"]
        /\ missed = {}

-----------------------------------------------------------------------------
(* The kernel *)

(* An event about a process (0: an event of another kind) reaches the      *)
(* socket, if it is subscribed.                                            *)
Notify(e) ==
    IF socket # "open" THEN UNCHANGED socketVars
    ELSE /\ UNCHANGED socket
         /\ IF Len(backlog) < SocketBuffer
            THEN backlog' = Append(backlog, e) /\ UNCHANGED overrun
            ELSE overrun' = TRUE /\ UNCHANGED backlog

(* The scan of /proc that precedes a subscription has gone past p, and     *)
(* the subscription is not there yet.                                      *)
InGap(p) == \/ main = "connect" \/ epc = "connect"
            \/ main = "scan" /\ cursor["main"] > p
            \/ epc = "scan" /\ cursor["event"] > p

Changes(p) == /\ Notify(p)
              /\ missed' = IF InGap(p) THEN missed \cup {p} ELSE missed
              /\ UNCHANGED <<faults, reported>>
              /\ UNCHANGED threadVars

(* fork: the child has the name of its parent                              *)
Fork(p) == /\ name[p] = "unborn"
           /\ \E n \in Names : name' = [name EXCEPT ![p] = n]
           /\ UNCHANGED execs
           /\ Changes(p)

(* exec, or a change of comm                                               *)
Exec(p) == /\ Alive(p)
           /\ execs < MaxExecs
           /\ execs' = execs + 1
           /\ \E n \in Names \ {name[p]} : name' = [name EXCEPT ![p] = n]
           /\ Changes(p)

Exit(p) == /\ Alive(p)
           /\ name' = [name EXCEPT ![p] = "gone"]
           /\ Notify(0)
           /\ UNCHANGED <<execs, faults, reported, missed>>
           /\ UNCHANGED threadVars

Kernel == \E p \in Pids : Fork(p) \/ Exec(p) \/ Exit(p)

-----------------------------------------------------------------------------
(* The steps of full_scan, made by the main thread or the event thread *)

ToRead(s) == {p \in Pids : p >= cursor[s] /\ Alive(p)}

(* Mutant: the scan skips the process after each one it reads.             *)
MutSkipNext(s) ==
    /\ found[s] = Nobody
    /\ \E p \in ToRead(s) :
          /\ \A q \in ToRead(s) : p <= q
          /\ found' = [found EXCEPT ![s] = [pid |-> p, name |-> name[p]]]
          /\ cursor' = [cursor EXCEPT ![s] = p + 2]
          /\ missed' = missed \ {p}
    /\ UNCHANGED <<reported, prev_pid, epc, main, commands, faults>>
    /\ UNCHANGED kernelVars /\ UNCHANGED socketVars

(* The next process of /proc, and get_command_from_pid.                    *)
ScanRead(s) ==
    /\ found[s] = Nobody
    /\ \E p \in ToRead(s) :
          /\ \A q \in ToRead(s) : p <= q
          /\ found' = [found EXCEPT ![s] = [pid |-> p, name |-> name[p]]]
          /\ cursor' = [cursor EXCEPT ![s] = p + 1]
          /\ missed' = missed \ {p}
    /\ UNCHANGED <<reported, prev_pid, epc, main, commands, faults>>
    /\ UNCHANGED kernelVars /\ UNCHANGED socketVars

(* process_queue.push(Process{pid, name})                                  *)
PushFound(s) == /\ reported' = [reported EXCEPT ![found[s].pid] = found[s].name]
                /\ found' = [found EXCEPT ![s] = Nobody]

ScanPush(s) == /\ found[s] # Nobody
               /\ PushFound(s)
               /\ UNCHANGED <<missed, prev_pid, epc, main, cursor, commands, faults>>
               /\ UNCHANGED kernelVars /\ UNCHANGED socketVars

ScanDone(s) == found[s] = Nobody /\ ToRead(s) = {}

(* m_netlink_program.initialize(): only a failed calloc is reported as a   *)
(* failure.  set_event_subscription returns the number of bytes sent or    *)
(* -1, and initialize_netlink_program takes 0 for the failure              *)
(* (netlink_program_utils.c:86-91), so a socket that could not be opened   *)
(* or subscribed is taken for a good one.                                  *)
Connect == /\ backlog' = <<>> /\ overrun' = FALSE
           /\ \/ socket' = "open" /\ UNCHANGED faults
              \/ /\ faults < MaxFaults
                 /\ faults' = faults + 1
                 /\ socket' \in Faults \cap {"bad", "deaf", "null"}
           /\ UNCHANGED <<reported, missed, prev_pid, cursor, found, commands>>
           /\ UNCHANGED kernelVars

-----------------------------------------------------------------------------
(* The event thread *)

(* Mutant: only the loop around handle_events looks at the stop token.     *)
MutCheck == /\ epc = "check"
            /\ epc' = "recv"
            /\ UNCHANGED main /\ OnlyControl

(* while (!stop_token.stop_requested()), of handle_events and of the       *)
(* thread around it                                                        *)
Check == /\ epc = "check"
         /\ epc' = IF stop_requested THEN "ended" ELSE "recv"
         /\ UNCHANGED main /\ OnlyControl

(* recv fails: ENOBUFS, or EBADF on a socket that never was.               *)
RecvFails == /\ epc = "recv"
             /\ overrun \/ socket = "bad"
             /\ epc' = "failed"
             /\ UNCHANGED main /\ OnlyControl

(* recv times out after 500 ms: EAGAIN.                                    *)
RecvNothing == /\ epc = "recv"
               /\ socket \in {"open", "deaf"} /\ backlog = <<>> /\ ~overrun
               /\ epc' = "check"
               /\ UNCHANGED main /\ OnlyControl

(* recv returns 0, which ends the thread for good.                         *)
RecvZero == /\ epc = "recv"
            /\ socket \in {"open", "deaf"} /\ ~overrun
            /\ "zero" \in Faults /\ faults < MaxFaults
            /\ faults' = faults + 1
            /\ epc' = "ended"
            /\ UNCHANGED <<reported, missed, prev_pid, main, cursor, found, commands>>
            /\ UNCHANGED kernelVars /\ UNCHANGED socketVars

(* "Don't add process to the queue, if it's equal to the previous one"     *)
(* (process.cpp:144-152): the pids are compared, not the processes.        *)
Skips(e) == e = 0 \/ e = prev_pid

RecvEvent ==
    /\ epc = "recv"
    /\ backlog # <<>> /\ ~overrun
    /\ backlog' = Tail(backlog)
    /\ LET e == Head(backlog)
       IN IF Skips(e)
          THEN /\ epc' = "check"
               /\ missed' = IF e # 0 /\ Alive(e) /\ reported[e] # name[e]
                            THEN missed \cup {e} ELSE missed
               /\ UNCHANGED <<prev_pid, found>>
          ELSE /\ epc' = "resolve"
               /\ prev_pid' = e
               /\ found' = [found EXCEPT !["event"] = [pid |-> e, name |-> "gone"]]
               /\ UNCHANGED missed
    /\ UNCHANGED <<socket, overrun, reported, main, cursor, commands, faults>>
    /\ UNCHANGED kernelVars

(* get_command_from_pid reads the name the process has by now ("" when it  *)
(* has exited, written "gone").                                            *)
Resolve == /\ epc = "resolve"
           /\ LET p == found["event"].pid
              IN /\ found' = [found EXCEPT !["event"].name = name[p]]
                 /\ missed' = missed \ {p}
           /\ epc' = "push"
           /\ UNCHANGED <<reported, prev_pid, main, cursor, commands, faults>>
           /\ UNCHANGED kernelVars /\ UNCHANGED socketVars

PushEvent == /\ epc = "push"
             /\ PushFound("event")
             /\ epc' = "check"
             /\ UNCHANGED <<missed, prev_pid, main, cursor, commands, faults>>
             /\ UNCHANGED kernelVars /\ UNCHANGED socketVars

(* Mutant: the restart does not scan.                                      *)
MutNoRescan == /\ epc = "failed"
               /\ IF stop_requested
                  THEN epc' = "ended" /\ UNCHANGED <<socket, backlog, overrun>>
                  ELSE /\ socket' = "closed" /\ backlog' = <<>> /\ overrun' = FALSE
                       /\ epc' = "connect"
               /\ UNCHANGED <<reported, missed, prev_pid, main, cursor, found,
                              commands, faults>>
               /\ UNCHANGED kernelVars

(* handle_events returned EXIT_FAILURE: destroy(), then init().            *)
Restart == /\ epc = "failed"
           /\ IF stop_requested
              THEN epc' = "ended" /\ UNCHANGED <<socket, backlog, overrun, cursor>>
              ELSE /\ socket' = "closed" /\ backlog' = <<>> /\ overrun' = FALSE
                   /\ cursor' = [cursor EXCEPT !["event"] = 1]
                   /\ epc' = "scan"
           /\ UNCHANGED <<reported, missed, prev_pid, main, found, commands, faults>>
           /\ UNCHANGED kernelVars

Rescan == epc = "scan" /\ (ScanRead("event") \/ ScanPush("event"))

RescanDone == /\ epc = "scan" /\ ScanDone("event")
              /\ epc' = "connect"
              /\ UNCHANGED main /\ OnlyControl

Reconnect == /\ epc = "connect"
             /\ Connect
             /\ epc' = "check"
             /\ UNCHANGED main

(* pool_message dereferences the program that initialize() did not create; *)
(* m_status is not looked at after start-up.                               *)
RecvCrash == /\ epc = "recv" /\ socket = "null"
             /\ epc' = "crashed" /\ main' = "aborted"
             /\ OnlyControl

EventThread == /\ main # "aborted"
               /\ \/ Check \/ RecvFails \/ RecvNothing \/ RecvZero \/ RecvEvent
                  \/ Resolve \/ PushEvent \/ Restart \/ Rescan \/ RescanDone
                  \/ Reconnect \/ RecvCrash

-----------------------------------------------------------------------------
(* The main thread *)

(* The constructor: a scan, then the subscription.                         *)
FirstScan == main = "scan" /\ (ScanRead("main") \/ ScanPush("main"))

FirstScanDone == /\ main = "scan" /\ ScanDone("main")
                 /\ main' = "connect"
                 /\ UNCHANGED epc /\ OnlyControl

FirstConnect == /\ main = "connect"
                /\ Connect
                /\ main' = "start"
                /\ UNCHANGED epc

(* start(), or the early return of main: the destructor of a ProcessQueue  *)
(* whose thread was never started joins it, in a noexcept function.        *)
Start == /\ main = "start"
         /\ IF socket = "null"
            THEN main' = "aborted" /\ UNCHANGED epc
            ELSE main' = "serving" /\ epc' = "check"
         /\ OnlyControl

(* Mutant: the iterator over /proc is not started again.                   *)
MutBeginScan == /\ main = "serving" /\ manual_scanning
                /\ main' = "manual"
                /\ UNCHANGED epc /\ OnlyControl

(* processListener.full_scan() of main.cpp:275-278                         *)
BeginScan == /\ main = "serving" /\ manual_scanning
             /\ main' = "manual"
             /\ cursor' = [cursor EXCEPT !["main"] = 1]
             /\ UNCHANGED <<reported, missed, prev_pid, epc, found, commands, faults>>
             /\ UNCHANGED kernelVars /\ UNCHANGED socketVars

ManualScan == main = "manual" /\ (ScanRead("main") \/ ScanPush("main"))

EndScan == /\ main = "manual" /\ ScanDone("main")
           /\ main' = "serving"
           /\ UNCHANGED epc /\ OnlyControl

(* stop(): request_stop()                                                  *)
RequestStop == /\ main = "serving" /\ MayStop
               /\ main' = "joining"
               /\ stop_requested' = TRUE
               /\ UNCHANGED <<reported, missed, prev_pid, epc, cursor, found, manual_scanning,
                              faults>>
               /\ UNCHANGED kernelVars /\ UNCHANGED socketVars

(* Mutant: stop() destroys the program without joining the thread.         *)
MutNoJoin == /\ main = "joining"
             /\ main' = "stopped"
             /\ socket' = "closed" /\ backlog' = <<>> /\ overrun' = FALSE
             /\ UNCHANGED <<reported, missed, prev_pid, epc, cursor, found,
                            commands, faults>>
             /\ UNCHANGED kernelVars

(* stop(): join(), then destroy()                                          *)
Join == /\ main = "joining" /\ epc = "ended"
        /\ main' = "stopped"
        /\ socket' = "closed" /\ backlog' = <<>> /\ overrun' = FALSE
        /\ UNCHANGED <<reported, missed, prev_pid, epc, cursor, found,
                       commands, faults>>
        /\ UNCHANGED kernelVars

MainThread == \/ FirstScan \/ FirstScanDone \/ FirstConnect \/ Start
              \/ BeginScan \/ ManualScan \/ EndScan \/ RequestStop \/ Join

-----------------------------------------------------------------------------

Next == Kernel \/ EventThread \/ MainThread

(* Both threads run.  RequestStop, a signal, may never come.               *)
Fairness == /\ WF_vars(EventThread /\ ~RecvZero)
            /\ WF_vars(MainThread /\ ~RequestStop)

Spec == Init /\ [][Next]_vars

FairSpec == Spec /\ Fairness

-----------------------------------------------------------------------------

(* Every variable keeps its type.                                          *)
TypeOK == /\ name \in [Pids -> Names \cup {"unborn", "gone"}]
          /\ execs \in 0..MaxExecs
          /\ socket \in {"closed", "open", "bad", "deaf", "null"}
          /\ backlog \in Seq(Pids \cup {0}) /\ Len(backlog) <= SocketBuffer
          /\ overrun \in BOOLEAN
          /\ prev_pid \in Pids \cup {0}
          /\ epc \in {"unstarted", "check", "recv", "resolve", "push", "failed",
                      "scan", "connect", "ended", "crashed"}
          /\ main \in {"scan", "connect", "start", "serving", "manual", "joining",
                       "stopped", "aborted"}
          /\ cursor \in [Scanners -> 1..(NPids + 1)]
          /\ found \in [Scanners -> [pid : Pids \cup {0}, name : Names \cup {"gone"}]]
          /\ stop_requested \in BOOLEAN /\ manual_scanning \in BOOLEAN
          /\ faults \in 0..MaxFaults
          /\ reported \in [Pids -> Names \cup {"unborn", "gone"}]
          /\ missed \subseteq Pids

(* The program the event thread receives from is never the one that was    *)
(* destroyed: stop() destroys it only once the thread has ended, and a     *)
(* restart makes a new one before it receives again.                       *)
NoUseAfterDestroy == epc = "recv" => socket # "closed"

(* stop() returns: recv has a timeout, so the thread sees the request,     *)
(* whatever it was doing (a restart included).                             *)
StopReturns == main = "joining" ~> main \in {"stopped", "aborted"}

(* The listener does not serve any more, or was never subscribed.          *)
Stopped == main \in {"joining", "stopped", "aborted"}
Deaf == socket = "deaf" \/ epc = "ended"

(* While it serves, a process that keeps its name is in the end reported   *)
(* under that name, unless its last change fell between the scan and the   *)
(* subscription, or was skipped for having the pid of the event before it: *)
(* overruns and bad sockets lose nothing, thanks to the scan that follows  *)
(* them.                                                                   *)
Detection ==
    \A p \in Pids, n \in Names :
        (<>[](name[p] = n)) => <>[](reported[p] = n \/ p \in missed \/ Deaf \/ Stopped)

(* With manual scanning there is no exception: a later scan finds what the *)
(* events did not tell, or told too late, even if there are none.          *)
DetectionByScanning ==
    \A p \in Pids, n \in Names :
        manual_scanning /\ (<>[](name[p] = n)) => <>[](reported[p] = n \/ Stopped)

(* "Don't add process to the queue, if it's equal to the previous one"     *)
(* (process.cpp:144-145): an event about a live process is skipped only if *)
(* the process, pid and name (process.hpp:35-37), was pushed already.      *)
SkipsOnlyEqual ==
    [][RecvEvent /\ epc' = "check"
         => LET e == Head(backlog) IN e = 0 \/ ~Alive(e) \/ reported[e] = name[e]]_vars
=============================================================================
