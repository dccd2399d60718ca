--------------------------- MODULE ThreadPriorities ---------------------------
(***************************************************************************)
(* set_priority and set_latency_nice (priority.cpp:41-87): the worker      *)
(* lists the threads of a process in /proc and makes a call for each of    *)
(* them, while the process of CommandName, whose name others are reading,  *)
(* makes threads, ends them, execs and ends.                               *)
(*                                                                         *)
(* The listing is taken when the directory is opened, in an order that is  *)
(* the kernel's business.  A thread starts with the value of the one that  *)
(* makes it.                                                               *)
(***************************************************************************)
EXTENDS CommandName

CONSTANTS Leader,   \* the thread with the pid of the process
          Threads   \* the threads it may have, Leader included

ASSUME ThreadsAssumption == Leader \in Threads

VARIABLES threads,  \* kernel: those that live
          unborn,   \* kernel: those that are still to be made
          set,      \* kernel: those with the value of the rule
          late,     \* kernel: those made since the listing, or in its place
          wpc,      \* where the worker is
          listed,   \* the entries of the listing it has still to visit
          errcode,
          listing,  \* history: the whole of it
          refused   \* history: threads for which the call failed

threadVars == <<threads, unborn, set, late>>
workerVars == <<wpc, listed, errcode, listing, refused>>
vars == <<nameVars, threadVars, workerVars>>

Init == /\ NameInit
        /\ threads \in {ts \in SUBSET Threads : Leader \in ts}
        /\ unborn = Threads \ threads
        /\ set = {} /\ late = {}
        /\ wpc = "idle"
        /\ listed = {} /\ listing = {} /\ refused = {}
        /\ errcode = "0"

-----------------------------------------------------------------------------
(* The kernel *)

Clone(t, u) == /\ t \in threads /\ u \in unborn
               /\ process = "runs"
               /\ threads' = threads \cup {u}
               /\ unborn' = unborn \ {u}
               /\ set' = IF t \in set THEN set \cup {u} ELSE set
               /\ late' = late \cup {u}
               /\ UNCHANGED <<nameVars, workerVars>>

ThreadExit(t) == /\ t \in threads \ {Leader}
                 /\ threads' = threads \ {t}
                 /\ UNCHANGED <<nameVars, unborn, set, late, workerVars>>

(* The thread that execs takes the place of the leader, with its own       *)
(* value, and the others end.                                              *)
ThreadExec(t) == /\ t \in threads
                 /\ process = "runs"
                 /\ threads' = {Leader}
                 /\ set' = IF t \in set THEN {Leader} ELSE {}
                 /\ late' = IF t \in set THEN {} ELSE {Leader}
                 /\ UNCHANGED <<nameVars, unborn, workerVars>>

ProcessExit == /\ Exit
               /\ threads' = {Leader}
               /\ UNCHANGED <<unborn, set, late, workerVars>>

ProcessReaped == /\ Reap
                 /\ threads' = {}
                 /\ UNCHANGED <<unborn, set, late, workerVars>>

Kernel == \/ \E t \in Threads : \/ ThreadExit(t) \/ ThreadExec(t)
                                \/ \E u \in Threads : Clone(t, u)
          \/ ProcessExit \/ ProcessReaped

-----------------------------------------------------------------------------
(* The worker *)

WorkerOnly == UNCHANGED <<nameVars, threads, unborn>>

(* directory_iterator: the directory is there, or an exception leads to    *)
(* return 0.  (Each call is for a new value.)                              *)
Open == /\ wpc = "idle"
        /\ IF process = "gone"
           THEN wpc' = "gone" /\ UNCHANGED <<listed, listing>>
           ELSE wpc' = "loop" /\ listed' = threads /\ listing' = threads
        /\ errcode' = "0"
        /\ set' = {} /\ late' = {} /\ refused' = {}
        /\ WorkerOnly

(* The answer of the kernel for one thread                                 *)
Sets(t) == /\ t \in threads
           /\ set' = set \cup {t}
           /\ errcode' = "0"
           /\ UNCHANGED refused

NotThere(t) == /\ t \notin threads
               /\ errcode' = "ESRCH"
               /\ UNCHANGED <<set, refused>>

Refuses(t) == /\ t \in threads
              /\ errcode' \in {"EPERM", "other"}
              /\ refused' = refused \cup {t}
              /\ UNCHANGED set

(* Mutant: an error ends the loop.                                         *)
MutVisit == /\ wpc = "loop"
            /\ \E t \in listed : /\ Sets(t) \/ NotThere(t) \/ Refuses(t)
                                 /\ listed' = IF errcode' = "0" THEN listed \ {t} ELSE {}
            /\ UNCHANGED <<wpc, listing, late>>
            /\ WorkerOnly

(* errno = 0; setpriority or set_latnice; errcode = errno                  *)
Visit == /\ wpc = "loop"
         /\ \E t \in listed : /\ Sets(t) \/ NotThere(t) \/ Refuses(t)
                              /\ listed' = listed \ {t}
         /\ UNCHANGED <<wpc, listing, late>>
         /\ WorkerOnly

(* The entries are there from the first read of the directory on; the last *)
(* read, which finds no more of them, throws when the process is gone.     *)
Vanishes == /\ wpc = "loop" /\ listed = {} /\ process = "gone"
            /\ wpc' = "gone"
            /\ UNCHANGED <<listed, errcode, listing, refused, set, late>>
            /\ WorkerOnly

(* Mutant: a call that is refused is taken for one of a missing process.   *)
MutTestErrno == /\ wpc = "loop" /\ listed = {} /\ process # "gone"
                /\ wpc' = IF errcode = "0" THEN "applied"
                          ELSE IF errcode = "other" THEN "failed" ELSE "gone"
                /\ UNCHANGED <<listed, errcode, listing, refused, set, late>>
                /\ WorkerOnly

(* test_errno, with the error of the thread that was visited last: 1; 0,   *)
(* although the process may live when that thread has ended; an exception; *)
(* or -1, which the bool takes for true                                    *)
TestErrno == /\ wpc = "loop" /\ listed = {} /\ process # "gone"
             /\ wpc' = CASE errcode = "0" -> "applied"
                         [] errcode = "ESRCH" -> "gone"
                         [] errcode = "EPERM" -> "denied"
                         [] OTHER -> "failed"
             /\ UNCHANGED <<listed, errcode, listing, refused, set, late>>
             /\ WorkerOnly

Outcomes == {"applied", "gone", "denied", "failed"}

(* The worker comes to the next value.                                     *)
NextValue == /\ wpc \in Outcomes
              /\ wpc' = "idle"
              /\ UNCHANGED <<listed, errcode, listing, refused, set, late>>
              /\ WorkerOnly

Worker == Open \/ Visit \/ Vanishes \/ TestErrno \/ NextValue

-----------------------------------------------------------------------------

Next == \/ Kernel
        \/ \E c \in Callers : get_command_from_pid(c) /\ UNCHANGED <<threadVars, workerVars>>
        \/ Worker

Spec == Init /\ [][Next]_vars

-----------------------------------------------------------------------------

(* Every variable keeps its type.                                          *)
TypeOK == /\ NameTypeOK
          /\ threads \subseteq Threads /\ unborn \subseteq Threads
          /\ set \subseteq Threads /\ late \subseteq Threads
          /\ wpc \in {"idle", "loop"} \cup Outcomes
          /\ listed \subseteq Threads /\ listing \subseteq Threads
          /\ refused \subseteq Threads
          /\ errcode \in {"0", "ESRCH", "EPERM", "other"}

(* However a call ends, errors on the way included, every thread that      *)
(* lives has the value, but those the kernel refused it for, and those     *)
(* made by a thread that had not got it yet (or that put itself in the     *)
(* place of the leader, by an exec, which is reported again).              *)
NoThreadSkipped ==
    wpc \in Outcomes => \A t \in threads : t \in set \cup refused \cup late

(* "Process not found" (priority.cpp:27), for which the worker drops the   *)
(* rest of the rule: the process is gone, or at least one of its threads   *)
(* has ended since they were listed - the last of them will do.            *)
GoneForAReason == wpc = "gone" => process = "gone" \/ ~(listing \subseteq threads)
=============================================================================
