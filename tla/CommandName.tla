----------------------------- MODULE CommandName -----------------------------
(***************************************************************************)
(* get_command_from_pid (process.cpp:194-264): the name of a process, by   *)
(* the first of three methods that gives one - its command line, the file  *)
(* it executes, its comm.  The event thread and, with --manual-scanning,   *)
(* main call it at the same time, for a process that ends and is reaped    *)
(* meanwhile.                                                              *)
(*                                                                         *)
(* The second method is given up once it has been denied often enough;     *)
(* the count is a plain static, which the callers read and write without   *)
(* a lock.  Of the name itself, only the method that finds it is told.     *)
(***************************************************************************)
EXTENDS Naturals, FiniteSets

CONSTANTS Callers,
          SkipExeFailures, \* COMMAND_NAME_HEURISTIC_SKIP_EXE_FAILURES
          MaxDenials       \* bound: denied reads of the link

ASSUME CallersAssumption == IsFiniteSet(Callers)
ASSUME CommandAssumption == SkipExeFailures \in Nat \ {0} /\ MaxDenials \in Nat

VARIABLES process,        \* kernel: "runs", "zombie", "gone"
          exe_fail_count,
          at,             \* where each caller is
          loaded,         \* what it has loaded of the count, to add one
          denials         \* history: reads of the link that were denied

nameVars == <<process, exe_fail_count, at, loaded, denials>>

NameInit == /\ process = "runs"
            /\ exe_fail_count = 0
            /\ at = [c \in Callers |-> "idle"]
            /\ loaded = [c \in Callers |-> 0]
            /\ denials = 0

-----------------------------------------------------------------------------
(* The kernel *)

Exit == /\ process = "runs"
        /\ process' = "zombie"
        /\ UNCHANGED <<exe_fail_count, at, loaded, denials>>

Reap == /\ process = "zombie"
        /\ process' = "gone"
        /\ UNCHANGED <<exe_fail_count, at, loaded, denials>>

-----------------------------------------------------------------------------
(* The callers *)

Goes(c, to) == at' = [at EXCEPT ![c] = to]

Call(c) == /\ at[c] = "idle"
           /\ Goes(c, "cmdline")
           /\ UNCHANGED <<process, exe_fail_count, loaded, denials>>

(* The last component of cmdline[0], and the call returns.  A kernel       *)
(* thread and a zombie have no command line, and a process in the middle   *)
(* of an exec has none yet; one that is gone leaves the stream empty.      *)
ReadCmdline(c) == /\ at[c] = "cmdline"
                  /\ \/ process = "runs" /\ Goes(c, "idle")
                     \/ Goes(c, "test")
                  /\ UNCHANGED <<process, exe_fail_count, loaded, denials>>

(* exe_fail_count < COMMAND_NAME_HEURISTIC_SKIP_EXE_FAILURES               *)
Test(c) == /\ at[c] = "test"
           /\ Goes(c, IF exe_fail_count < SkipExeFailures THEN "exe" ELSE "comm")
           /\ UNCHANGED <<process, exe_fail_count, loaded, denials>>

(* Mutant: every error counts, not only EACCES and EPERM.                  *)
MutReadExe(c) == /\ at[c] = "exe"
                 /\ \/ process = "runs" /\ Goes(c, "reset")
                    \/ Goes(c, "load")
                 /\ UNCHANGED <<process, exe_fail_count, loaded, denials>>

(* read_symlink: the path of the file, or no permission, or no file (a     *)
(* kernel thread, a zombie, a process that is gone).                       *)
ReadExe(c) == /\ at[c] = "exe"
              /\ \/ process = "runs" /\ Goes(c, "reset") /\ UNCHANGED denials
                 \/ /\ process # "gone" /\ denials < MaxDenials
                    /\ denials' = denials + 1
                    /\ Goes(c, "load")
                 \/ Goes(c, "comm") /\ UNCHANGED denials
              /\ UNCHANGED <<process, exe_fail_count, loaded>>

(* exe_fail_count = 0; return exe_name                                     *)
Reset(c) == /\ at[c] = "reset"
            /\ exe_fail_count' = 0
            /\ Goes(c, "idle")
            /\ UNCHANGED <<process, loaded, denials>>

(* exe_fail_count++: the other caller may come between the two.            *)
LoadCount(c) == /\ at[c] = "load"
                /\ loaded' = [loaded EXCEPT ![c] = exe_fail_count]
                /\ Goes(c, "store")
                /\ UNCHANGED <<process, exe_fail_count, denials>>

(* Mutant: a denial counts twice.                                          *)
MutStoreCount(c) == /\ at[c] = "store"
                    /\ exe_fail_count' = loaded[c] + 2
                    /\ loaded' = [loaded EXCEPT ![c] = 0]
                    /\ Goes(c, "comm")
                    /\ UNCHANGED <<process, denials>>

StoreCount(c) == /\ at[c] = "store"
                 /\ exe_fail_count' = loaded[c] + 1
                 /\ loaded' = [loaded EXCEPT ![c] = 0]
                 /\ Goes(c, "comm")
                 /\ UNCHANGED <<process, denials>>

(* The comm of a process that is gone is an empty line, and the name.      *)
ReadComm(c) == /\ at[c] = "comm"
               /\ Goes(c, "idle")
               /\ UNCHANGED <<process, exe_fail_count, loaded, denials>>

get_command_from_pid(c) == \/ Call(c) \/ ReadCmdline(c)
                           \/ Test(c) \/ ReadExe(c)
                           \/ Reset(c) \/ LoadCount(c) \/ StoreCount(c)
                           \/ ReadComm(c)

-----------------------------------------------------------------------------

NameTypeOK == /\ process \in {"runs", "zombie", "gone"}
              /\ exe_fail_count \in 0..MaxDenials
              /\ at \in [Callers -> {"idle", "cmdline", "test", "exe", "reset", "load",
                                     "store", "comm"}]
              /\ loaded \in [Callers -> 0..MaxDenials]
              /\ denials \in 0..MaxDenials

(* Whatever updates of the count are lost, or undo a reset, it is never    *)
(* more than the denials there were: processes that have no link or vanish *)
(* in the middle of a call, which is normal, never make the callers give   *)
(* the method up.  (That the failures come "in a row", process.cpp:220, is *)
(* not kept: a reset is lost when the other caller stores.)                *)
OnlyDenialsCount == exe_fail_count <= denials
=============================================================================
