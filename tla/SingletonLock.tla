---------------------------- MODULE SingletonLock ----------------------------
(***************************************************************************)
(* At most one daemon: the shared memory object of SingletonProcess        *)
(* (singleton_process.cpp) and the places where main.cpp creates it,       *)
(* removes it, or leaves it behind.  The object outlives the process that  *)
(* created it, and is removed by name, by whoever asks.                    *)
(*                                                                         *)
(* Instances are invocations of "ananicy-cpp-ng start".  Service is the    *)
(* one systemd starts, again each time it ends (ananicy-cpp-ng.service:    *)
(* Restart=always); the others are started by hand.  Signals, crashes and  *)
(* failures of the listener may hit an instance at any point.              *)
(*                                                                         *)
(* ReloadMailbox adds the thread of each instance that reads the reload    *)
(* requests, and checks the properties stated here on the whole.           *)
(***************************************************************************)
EXTENDS Naturals, FiniteSets

CONSTANTS Instances, Service,
          NoObject,      \* the name of the shared memory does not exist
          Orphan,        \* it exists, and the process that created it is gone
          MaxCrashes     \* bound: ends of an instance that skip its stop sequence

ASSUME InstancesAssumption == /\ Service \in Instances
                              /\ {NoObject, Orphan} \cap Instances = {}
                              /\ NoObject # Orphan
ASSUME CrashesAssumption == MaxCrashes \in Nat

VARIABLES shm,      \* the instance that created the object of that name
          pc,       \* where each instance is
          crashes

vars == <<shm, pc, crashes>>

Points == {"ended", "starting", "serving", "stopping", "removed", "joining"}

Init == /\ shm = NoObject
        /\ pc = [i \in Instances |-> "ended"]
        /\ crashes = 0

Goes(i, to) == pc' = [pc EXCEPT ![i] = to]

(* main, up to main.cpp:217                                                *)
Launch(i) == /\ pc[i] = "ended"
             /\ Goes(i, "starting")
             /\ UNCHANGED <<shm, crashes>>

(* Mutant: shm_open without O_EXCL.                                        *)
MutNoExcl(i) == /\ pc[i] = "starting"
                /\ shm' = (IF shm = NoObject THEN i ELSE shm)
                /\ Goes(i, "serving")
                /\ UNCHANGED crashes

(* try_create(): shm_open with O_CREAT | O_EXCL.  An instance that is      *)
(* refused exits at once, and removes nothing.                             *)
TryCreate(i) == /\ pc[i] = "starting"
                /\ IF shm = NoObject
                   THEN shm' = i /\ Goes(i, "serving")
                   ELSE Goes(i, "ended") /\ UNCHANGED shm
                /\ UNCHANGED crashes

(* SIGTERM, with the handler of the InterruptHandler in place              *)
(* (main.cpp:230); main leaves its loop.                                   *)
Terminate(i) == /\ pc[i] = "serving"
                /\ Goes(i, "stopping")
                /\ UNCHANGED <<shm, crashes>>

(* Mutant: main removes another name.                                      *)
MutRemoveOther(i) == /\ pc[i] = "stopping"
                     /\ Goes(i, "removed")
                     /\ UNCHANGED <<shm, crashes>>

(* close_shm(), remove(): the name goes away, whoever created it, while    *)
(* the threads of the instance still run (main.cpp:286-287).               *)
Remove(i) == /\ pc[i] = "stopping"
             /\ shm' = NoObject
             /\ Goes(i, "removed")
             /\ UNCHANGED crashes

(* The listener and the worker are stopped, and main returns: the          *)
(* destructor of the singleton begins to join the reader.                  *)
Return(i) == /\ pc[i] = "removed"
             /\ Goes(i, "joining")
             /\ UNCHANGED <<shm, crashes>>

(* The reader is joined, and the process ends.                             *)
Exit(i) == /\ pc[i] = "joining"
           /\ Goes(i, "ended")
           /\ UNCHANGED <<shm, crashes>>

(* The listener could not be initialized: main removes the object before   *)
(* it goes down (main.cpp:240-246).                                        *)
ListenerFails(i) == /\ pc[i] = "serving" /\ crashes < MaxCrashes
                    /\ crashes' = crashes + 1
                    /\ shm' = NoObject
                    /\ Goes(i, "ended")

(* SIGKILL, std::terminate, a crash; or SIGTERM before the handler is in   *)
(* place: nothing removes the object.                                      *)
Crash(i) == /\ pc[i] # "ended" /\ crashes < MaxCrashes
            /\ crashes' = crashes + 1
            /\ shm' = (IF shm = i THEN Orphan ELSE shm)
            /\ Goes(i, "ended")

(* ananicy-cpp-ng --force-remove-semaphore unlinks whatever is there.  The *)
(* environment is taken to heed the warning "Don't use it, unless you know *)
(* what you are doing" (main.cpp:57) and to use it, if ever, only once the *)
(* owner of the object is gone.                                            *)
ForceRemove == /\ shm = Orphan
               /\ shm' = NoObject
               /\ UNCHANGED <<pc, crashes>>

Proceeds(i) == TryCreate(i) \/ Remove(i) \/ Return(i) \/ Exit(i)

Next == \/ \E i \in Instances : \/ Launch(i) \/ Proceeds(i) \/ Terminate(i)
                                \/ ListenerFails(i) \/ Crash(i)
        \/ ForceRemove

(* Instances run, and systemd starts the service again.  Nobody need come  *)
(* to clear an orphan.                                                     *)
Fairness == /\ \A i \in Instances : WF_vars(Proceeds(i))
            /\ WF_vars(Launch(Service))

Spec == Init /\ [][Next]_vars

FairSpec == Spec /\ Fairness

-----------------------------------------------------------------------------

(* Every variable keeps its type.                                          *)
TypeOK == /\ shm \in Instances \cup {NoObject, Orphan}
          /\ pc \in [Instances -> Points]
          /\ crashes \in 0..MaxCrashes

Owns(i) == pc[i] \in {"serving", "stopping"}

(* At most one instance believes it is the daemon, although the object is  *)
(* removed by name and an instance is refused on its mere existence.       *)
AtMostOneOwner == \A i, j \in Instances : Owns(i) /\ Owns(j) => i = j

(* The object an instance relies on is there, and its own, until it        *)
(* removes it: no other instance, starting, refused, failing or stopping   *)
(* late, takes it away.                                                    *)
OwnerHoldsObject == \A i \in Instances : Owns(i) => shm = i

(* Restart=always (ananicy-cpp-ng.service:14) brings a daemon back after   *)
(* any end of the last one - a stop, however late, a listener that failed, *)
(* a refused or crashed start - but one: a daemon that was killed while    *)
(* the object was its own leaves an orphan, on which every start is        *)
(* refused until somebody clears it.                                       *)
BackUnlessOrphaned == (\A i \in Instances : pc[i] # "serving")
                         ~> ((\E i \in Instances : pc[i] = "serving") \/ shm = Orphan)
=============================================================================
