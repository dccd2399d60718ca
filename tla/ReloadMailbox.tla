---------------------------- MODULE ReloadMailbox ----------------------------
(***************************************************************************)
(* "ananicy-cpp-ng --reload": the System V shared memory segment through   *)
(* which an invocation (a client) asks the daemon to read its              *)
(* configuration file again (singleton_process.cpp), and the thread of the *)
(* daemon that polls it, over the instances of SingletonLock that start,   *)
(* stop and crash around it.                                               *)
(*                                                                         *)
(* The segment is plain memory, without a lock.  "RELOAD" is written by a  *)
(* copy and erased by a memset that each take more than one store: the     *)
(* text is in two parts, the head (with the first character, which the     *)
(* reader tests) and the tail.  The segment outlives every process, and an *)
(* instance that stops polls it until the last moment, beside its          *)
(* successor.                                                              *)
(***************************************************************************)
EXTENDS SingletonLock

CONSTANTS Clients,
          MaxEdits,      \* bound: changes of the configuration file
          MaxRequests,   \* bound: invocations with --reload
          AttachMayFail  \* a reader may fail to obtain the segment

ASSUME MailboxAssumption == /\ IsFiniteSet(Clients)
                            /\ MaxEdits \in Nat /\ MaxRequests \in Nat
                            /\ AttachMayFail \in BOOLEAN

Parts == {"head", "tail"}

VARIABLES segment,    \* the segment exists
          buffer,     \* the parts of "RELOAD" that are in it
          unwritten,  \* of each client: the parts it has still to write
          rpc,        \* where the reader of each instance is
          unerased,   \* the parts its memset has still to erase
          file,       \* version of the configuration file
          loaded,     \* version each instance has read; 0 when there is none
          asked,      \* history: requests begun
          reloads     \* history: reloads begun by the instance that runs

segmentVars == <<segment, buffer>>
clientVars == <<unwritten, asked>>
readerVars == <<rpc, unerased, loaded, reloads>>

serviceVars == <<vars, segmentVars, clientVars, readerVars, file>>

(* Earlier daemons may have left a segment with anything in it.            *)
ServiceInit == /\ Init
               /\ segment \in BOOLEAN
               /\ buffer \in SUBSET Parts
               /\ ~segment => buffer = {}
               /\ unwritten = [c \in Clients |-> {}]
               /\ rpc = [i \in Instances |-> "ended"]
               /\ unerased = [i \in Instances |-> {}]
               /\ file = 0
               /\ loaded = [i \in Instances |-> 0]
               /\ asked = (IF buffer = {} THEN 0 ELSE 1)
               /\ reloads = [i \in Instances |-> 0]

-----------------------------------------------------------------------------
(* The administrator *)

Edit == /\ file < MaxEdits
        /\ file' = file + 1
        /\ UNCHANGED <<vars, segmentVars, clientVars, readerVars>>

(* --reload: try_open, which only wants the object to be there, then       *)
(* try_write.  While the first daemon ever has not made the segment yet,   *)
(* try_write fails, which nobody is told.                                  *)
Request(c) == /\ shm # NoObject /\ segment
              /\ unwritten[c] = {}
              /\ asked < MaxRequests
              /\ asked' = asked + 1
              /\ unwritten' = [unwritten EXCEPT ![c] = Parts]
              /\ UNCHANGED <<vars, segmentVars, readerVars, file>>

(* copy_n, then "Reload signal has been sent"                              *)
WritePart(c, x) == /\ x \in unwritten[c]
                   /\ buffer' = buffer \cup {x}
                   /\ unwritten' = [unwritten EXCEPT ![c] = @ \ {x}]
                   /\ UNCHANGED <<vars, segment, readerVars, file, asked>>

-----------------------------------------------------------------------------
(* read_queue, in the instance i *)

ReaderGoes(i, to) == rpc' = [rpc EXCEPT ![i] = to]

ReaderOnly == UNCHANGED <<vars, clientVars, file>>

(* The segment is made, empty, if it does not exist (IPC_CREAT).           *)
Attach(i) == /\ rpc[i] = "attach"
             /\ \/ ReaderGoes(i, "look") /\ segment' = TRUE
                \/ AttachMayFail /\ ReaderGoes(i, "ended") /\ UNCHANGED segment
             /\ UNCHANGED <<buffer, unerased, loaded, reloads>>
             /\ ReaderOnly

(* while (!stop_token.stop_requested()), then buffer[0] == '\0': sleep for *)
(* one second                                                              *)
Look(i) == /\ rpc[i] = "look"
           /\ ReaderGoes(i, IF pc[i] = "joining" THEN "ended"
                            ELSE IF "head" \in buffer THEN "compare" ELSE "asleep")
           /\ UNCHANGED <<segmentVars, unerased, loaded, reloads>>
           /\ ReaderOnly

(* Mutant: after the sleep the buffer is erased unread.                    *)
MutWake(i) == /\ rpc[i] = "asleep"
              /\ ReaderGoes(i, "erase")
              /\ unerased' = [unerased EXCEPT ![i] = Parts]
              /\ UNCHANGED <<segmentVars, loaded, reloads>>
              /\ ReaderOnly

Wake(i) == /\ rpc[i] = "asleep"
           /\ ReaderGoes(i, "compare")
           /\ UNCHANGED <<segmentVars, unerased, loaded, reloads>>
           /\ ReaderOnly

(* message == "RELOAD"; whatever it was, it is erased in the end           *)
Compare(i) == /\ rpc[i] = "compare"
              /\ IF buffer = Parts
                 THEN /\ ReaderGoes(i, "reload")
                      /\ reloads' = [reloads EXCEPT ![i] = @ + 1]
                      /\ UNCHANGED unerased
                 ELSE /\ ReaderGoes(i, "erase")
                      /\ unerased' = [unerased EXCEPT ![i] = Parts]
                      /\ UNCHANGED reloads
              /\ UNCHANGED <<segmentVars, loaded>>
              /\ ReaderOnly

(* Mutant: what was served is not erased.                                  *)
MutReloadKeeps(i) == /\ rpc[i] = "reload"
                     /\ loaded' = [loaded EXCEPT ![i] = file]
                     /\ ReaderGoes(i, "look")
                     /\ UNCHANGED <<segmentVars, unerased, reloads>>
                     /\ ReaderOnly

(* m_reload_callback(): conf.reload() reads the file (main.cpp:223).       *)
Reload(i) == /\ rpc[i] = "reload"
             /\ loaded' = [loaded EXCEPT ![i] = file]
             /\ ReaderGoes(i, "erase")
             /\ unerased' = [unerased EXCEPT ![i] = Parts]
             /\ UNCHANGED <<segmentVars, reloads>>
             /\ ReaderOnly

(* memset                                                                  *)
ErasePart(i, x) == /\ rpc[i] = "erase" /\ x \in unerased[i]
                   /\ buffer' = buffer \ {x}
                   /\ unerased' = [unerased EXCEPT ![i] = @ \ {x}]
                   /\ ReaderGoes(i, IF unerased[i] = {x} THEN "look" ELSE "erase")
                   /\ UNCHANGED <<segment, loaded, reloads>>
                   /\ ReaderOnly

Reader(i) == \/ Attach(i) \/ Look(i) \/ Wake(i) \/ Compare(i) \/ Reload(i)
             \/ \E x \in Parts : ErasePart(i, x)

-----------------------------------------------------------------------------
(* The instance around its reader *)

OfMain == UNCHANGED <<segmentVars, clientVars, file>>

(* The memory of a process goes with it.                                   *)
Forgotten(i) == /\ loaded' = [loaded EXCEPT ![i] = 0]
                /\ reloads' = [reloads EXCEPT ![i] = 0]

(* The configuration is read before the object is created (main.cpp:136).  *)
LaunchAndLoad(i) == /\ Launch(i)
                    /\ loaded' = [loaded EXCEPT ![i] = file]
                    /\ UNCHANGED <<rpc, unerased, reloads>>
                    /\ OfMain

(* start_read_queue follows try_create (main.cpp:223).                     *)
CreateAndRead(i) == /\ TryCreate(i)
                    /\ IF shm = NoObject
                       THEN ReaderGoes(i, "attach") /\ UNCHANGED <<loaded, reloads>>
                       ELSE Forgotten(i) /\ UNCHANGED rpc
                    /\ UNCHANGED unerased
                    /\ OfMain

(* The destructor of the jthread joins it.                                 *)
ExitJoined(i) == /\ Exit(i) /\ rpc[i] = "ended"
                 /\ Forgotten(i) /\ UNCHANGED <<rpc, unerased>>
                 /\ OfMain

(* What has nothing to do with the reader                                  *)
Alone == UNCHANGED readerVars /\ OfMain

(* A process that ends at once takes its reader along, in the middle of    *)
(* whatever that does.                                                     *)
Dies(i) == /\ ListenerFails(i) \/ Crash(i)
           /\ ReaderGoes(i, "ended")
           /\ unerased' = [unerased EXCEPT ![i] = {}]
           /\ Forgotten(i)
           /\ OfMain

Advances(i) == \/ CreateAndRead(i) \/ ExitJoined(i)
               \/ (Remove(i) \/ Return(i)) /\ Alone

ServiceNext ==
    \/ Edit
    \/ \E c \in Clients : Request(c) \/ \E x \in Parts : WritePart(c, x)
    \/ \E i \in Instances : \/ Reader(i)
                            \/ LaunchAndLoad(i) \/ Advances(i)
                            \/ Terminate(i) /\ Alone
                            \/ Dies(i)
    \/ ForceRemove /\ Alone

(* The fairness of SingletonLock; each reader runs, and a client that has  *)
(* begun to write goes on.                                                 *)
ServiceFairness == /\ \A i \in Instances : WF_vars(Advances(i))
                   /\ WF_vars(LaunchAndLoad(Service))
                   /\ \A i \in Instances : WF_readerVars(Reader(i))
                   /\ \A c \in Clients : WF_clientVars(\E x \in Parts : WritePart(c, x))

ServiceSpec == ServiceInit /\ [][ServiceNext]_serviceVars

FairServiceSpec == ServiceSpec /\ ServiceFairness

-----------------------------------------------------------------------------

(* Every variable keeps its type.                                          *)
ServiceTypeOK == /\ TypeOK
                 /\ segment \in BOOLEAN /\ buffer \subseteq Parts
                 /\ unwritten \in [Clients -> SUBSET Parts]
                 /\ rpc \in [Instances -> {"attach", "look", "asleep", "compare",
                                           "reload", "erase", "ended"}]
                 /\ unerased \in [Instances -> SUBSET Parts]
                 /\ file \in 0..MaxEdits
                 /\ loaded \in [Instances -> 0..MaxEdits]
                 /\ asked \in Nat /\ reloads \in [Instances -> Nat]

(* No request is served twice by a daemon, and none is made up from the    *)
(* pieces of several that were torn, or that another reader erases at the  *)
(* same time (singleton_process.cpp:138-145): a daemon does not reload     *)
(* more often than anybody was asked to.                                   *)
NoUnaskedReload == \A i \in Instances : reloads[i] <= asked

(* A whole request found by a reader that sleeps is served, with the file  *)
(* as it was or newer, whatever other clients write meanwhile - unless an  *)
(* instance that is about to end still reads beside it.                    *)
IdleRequestServed ==
    \A v \in 1..MaxEdits, i \in Instances :
        (/\ rpc[i] = "asleep" /\ \A j \in Instances \ {i} : rpc[j] = "ended"
         /\ buffer = Parts /\ file = v) ~> (loaded[i] >= v \/ rpc[i] = "ended")

(* "Reload configuration/rules" (main.cpp:60), "Reload signal has been     *)
(* sent" (singleton_process.cpp:97): after a request is sent, a daemon     *)
(* comes to have read the file as it was then, or newer.                   *)
EveryRequestServed ==
    \A v \in 1..MaxEdits, c \in Clients :
        unwritten[c] # {} /\ file = v ~> \E i \in Instances : loaded[i] >= v
=============================================================================
