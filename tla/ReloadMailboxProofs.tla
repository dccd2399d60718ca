------------------------- MODULE ReloadMailboxProofs -------------------------
(***************************************************************************)
(* Proofs about SingletonLock and ReloadMailbox, for any number of         *)
(* instances, clients, requests and crashes: there is one owner of the     *)
(* object, with the mailbox the instances still obey SingletonLock, and no *)
(* daemon reloads more often than anybody was asked to.                    *)
(*                                                                         *)
(* The first is inductive with the types, as OwnerHoldsObject, and implies *)
(* AtMostOneOwner: the object has one creator.                             *)
(*                                                                         *)
(* The last follows from what becomes of the first characters of the       *)
(* requests.  Each request writes one.  It is still to be written, or it   *)
(* is in the segment, where a reader may take it for a request once, and   *)
(* then erases it before it looks again.                                   *)
(***************************************************************************)
EXTENDS ReloadMailbox, FiniteSetTheorems, TLAPS

(* The lock *)

IInv == TypeOK /\ OwnerHoldsObject

LEMMA InitInv == Init => IInv
  BY CrashesAssumption DEF Init, IInv, TypeOK, OwnerHoldsObject, Owns, Points

LEMMA StepInv == IInv /\ [Next]_vars => IInv'
<1> SUFFICES ASSUME IInv, [Next]_vars PROVE IInv'
  OBVIOUS
<1> USE InstancesAssumption, CrashesAssumption
        DEF IInv, TypeOK, OwnerHoldsObject, Owns, Points, Goes
<1>1. ASSUME NEW i \in Instances, Launch(i) PROVE IInv'
  BY <1>1 DEF Launch
<1>2. ASSUME NEW i \in Instances, Proceeds(i) PROVE IInv'
  <2>1. CASE TryCreate(i)
    BY <2>1 DEF TryCreate
  <2>2. CASE Remove(i)
    BY <2>2 DEF Remove
  <2>3. CASE Return(i) \/ Exit(i)
    BY <2>3 DEF Return, Exit
  <2> QED
    BY <1>2, <2>1, <2>2, <2>3 DEF Proceeds
<1>3. ASSUME NEW i \in Instances, Terminate(i) PROVE IInv'
  BY <1>3 DEF Terminate
<1>4. ASSUME NEW i \in Instances, ListenerFails(i) PROVE IInv'
  BY <1>4 DEF ListenerFails
<1>5. ASSUME NEW i \in Instances, Crash(i) PROVE IInv'
  BY <1>5 DEF Crash
<1>6. CASE ForceRemove
  BY <1>6 DEF ForceRemove
<1>7. CASE UNCHANGED vars
  BY <1>7 DEF vars
<1> QED
  BY <1>1, <1>2, <1>3, <1>4, <1>5, <1>6, <1>7 DEF Next

(* The types alone are inductive, too.                                     *)
LEMMA LockTypeStep == TypeOK /\ [Next]_vars => TypeOK'
<1> SUFFICES ASSUME TypeOK, [Next]_vars PROVE TypeOK'
  OBVIOUS
<1> USE InstancesAssumption, CrashesAssumption DEF TypeOK, Points, Goes
<1>1. ASSUME NEW i \in Instances,
             Launch(i) \/ Proceeds(i) \/ Terminate(i) \/ ListenerFails(i) \/ Crash(i)
      PROVE  TypeOK'
  BY <1>1 DEF Launch, Proceeds, TryCreate, Remove, Return, Exit, Terminate,
              ListenerFails, Crash
<1> QED
  BY <1>1 DEF Next, ForceRemove, vars

LEMMA AlwaysInv == Spec => []IInv
  BY InitInv, StepInv, PTL DEF Spec

(* The variables of the lock keep their types.                             *)
THEOREM LockTypeCorrect == Spec => []TypeOK
  BY AlwaysInv, PTL DEF IInv

(* Until an instance removes it, the object it relies on is its own.       *)
THEOREM OwnershipKept == Spec => []OwnerHoldsObject
  BY AlwaysInv, PTL DEF IInv

(* No two instances are the daemon at the same time, through any number of *)
(* crashes, refusals and restarts.                                         *)
THEOREM MutualExclusion == Spec => []AtMostOneOwner
<1>1. IInv => AtMostOneOwner
  BY DEF IInv, OwnerHoldsObject, AtMostOneOwner
<1> QED
  BY <1>1, AlwaysInv, PTL

-----------------------------------------------------------------------------
(* The mailbox *)

ServiceInv == ServiceTypeOK
              /\ \A i \in Instances : pc[i] \in {"ended", "starting"} => rpc[i] = "ended"

(* Clients that have still to write the first character                    *)
Unbegun == {c \in Clients : "head" \in unwritten[c]}

(* The reader will erase the first character before it looks at it again.  *)
WillErase(i) == \/ rpc[i] = "reload"
                \/ rpc[i] = "erase" /\ "head" \in unerased[i]

Found == IF "head" \in buffer THEN 1 ELSE 0

FoundBy(i) == IF "head" \in buffer /\ ~WillErase(i) THEN 1 ELSE 0

Counted == /\ Cardinality(Unbegun) + Found <= asked
           /\ \A i \in Instances :
                  reloads[i] + Cardinality(Unbegun) + FoundBy(i) <= asked

-----------------------------------------------------------------------------

LEMMA ServiceInitInv == ServiceInit => ServiceInv
<1> SUFFICES ASSUME ServiceInit PROVE ServiceInv
  OBVIOUS
<1>1. TypeOK
  BY InitInv DEF ServiceInit, IInv
<1>2. file \in 0..MaxEdits /\ loaded \in [Instances -> 0..MaxEdits]
  BY MailboxAssumption DEF ServiceInit
<1> QED
  BY <1>1, <1>2 DEF ServiceInit, ServiceInv, ServiceTypeOK

(* Every step is one of the lock, or leaves the lock alone.                *)
LEMMA LockStep == [ServiceNext]_serviceVars => [Next]_vars
<1> SUFFICES ASSUME [ServiceNext]_serviceVars PROVE [Next]_vars
  OBVIOUS
<1>1. CASE Edit
  BY <1>1 DEF Edit
<1>2. CASE \E c \in Clients : Request(c) \/ \E x \in Parts : WritePart(c, x)
  BY <1>2 DEF Request, WritePart
<1>3. ASSUME NEW i \in Instances, Reader(i) PROVE UNCHANGED vars
  BY <1>3 DEF Reader, Attach, Look, Wake, Compare, Reload, ErasePart, ReaderOnly
<1>4. ASSUME NEW i \in Instances,
             LaunchAndLoad(i) \/ Advances(i) \/ (Terminate(i) /\ Alone) \/ Dies(i)
      PROVE  Next
  <2>1. Launch(i) \/ Proceeds(i) \/ Terminate(i) \/ ListenerFails(i) \/ Crash(i)
    BY <1>4 DEF LaunchAndLoad, Advances, CreateAndRead, ExitJoined, Dies, Proceeds
  <2> QED
    BY <2>1 DEF Next
<1>5. CASE ForceRemove /\ Alone
  BY <1>5 DEF Next
<1>6. CASE UNCHANGED serviceVars
  BY <1>6 DEF serviceVars
<1> QED
  BY <1>1, <1>2, <1>3, <1>4, <1>5, <1>6 DEF ServiceNext

(* The types, and that a process which does not run has no reader.         *)
LEMMA ServiceStepInv == ServiceInv /\ [ServiceNext]_serviceVars => ServiceInv'
<1> SUFFICES ASSUME ServiceInv, [ServiceNext]_serviceVars PROVE ServiceInv'
  OBVIOUS
<1> USE MailboxAssumption DEF ServiceInv, ServiceTypeOK
<1>1. TypeOK'
  BY LockStep, LockTypeStep
<1> USE DEF Parts
<1>2. CASE Edit
  BY <1>1, <1>2 DEF Edit, vars, segmentVars, clientVars, readerVars
<1>3. ASSUME NEW c \in Clients, Request(c) PROVE ServiceInv'
  BY <1>1, <1>3 DEF Request, vars, segmentVars, readerVars
<1>4. ASSUME NEW c \in Clients, NEW x \in Parts, WritePart(c, x) PROVE ServiceInv'
  BY <1>1, <1>4 DEF WritePart, vars, readerVars
<1>5. ASSUME NEW i \in Instances, Reader(i) PROVE ServiceInv'
  <2> USE <1>1 DEF ReaderGoes, ReaderOnly, vars, segmentVars, clientVars
  <2>1. CASE Attach(i)
    BY <2>1 DEF Attach
  <2>2. CASE Look(i)
    BY <2>2 DEF Look
  <2>3. CASE Wake(i)
    BY <2>3 DEF Wake
  <2>4. CASE Compare(i)
    BY <2>4 DEF Compare
  <2>5. CASE Reload(i)
    BY <2>5 DEF Reload
  <2>6. CASE \E x \in Parts : ErasePart(i, x)
    BY <2>6 DEF ErasePart
  <2> QED
    BY <1>5, <2>1, <2>2, <2>3, <2>4, <2>5, <2>6 DEF Reader
<1> USE DEF OfMain, Alone, Forgotten, Goes, segmentVars, clientVars
<1>6. ASSUME NEW i \in Instances, LaunchAndLoad(i) PROVE ServiceInv'
  BY <1>1, <1>6 DEF LaunchAndLoad, Launch, TypeOK
<1>7. ASSUME NEW i \in Instances, Advances(i) PROVE ServiceInv'
  <2>1. CASE CreateAndRead(i)
    BY <1>1, <2>1 DEF CreateAndRead, TryCreate, ReaderGoes, TypeOK
  <2>2. CASE ExitJoined(i)
    BY <1>1, <2>2 DEF ExitJoined, Exit, TypeOK
  <2>3. CASE (Remove(i) \/ Return(i)) /\ Alone
    BY <1>1, <2>3 DEF Remove, Return, TypeOK, readerVars
  <2> QED
    BY <1>7, <2>1, <2>2, <2>3 DEF Advances
<1>8. ASSUME NEW i \in Instances, Terminate(i), Alone PROVE ServiceInv'
  BY <1>1, <1>8 DEF Terminate, TypeOK, readerVars
<1>9. ASSUME NEW i \in Instances, Dies(i) PROVE ServiceInv'
  BY <1>1, <1>9 DEF Dies, ListenerFails, Crash, ReaderGoes, TypeOK
<1>10. CASE ForceRemove /\ Alone
  BY <1>1, <1>10 DEF ForceRemove, readerVars
<1>11. CASE UNCHANGED serviceVars
  BY <1>1, <1>11 DEF serviceVars, vars, readerVars
<1> QED
  BY <1>2, <1>3, <1>4, <1>5, <1>6, <1>7, <1>8, <1>9, <1>10, <1>11 DEF ServiceNext

LEMMA AlwaysServiceInv == ServiceSpec => []ServiceInv
  BY ServiceInitInv, ServiceStepInv, PTL DEF ServiceSpec

(* The variables of the instances, their readers and the segment keep      *)
(* their types.                                                            *)
THEOREM ServiceTypeCorrect == ServiceSpec => []ServiceTypeOK
  BY AlwaysServiceInv, PTL DEF ServiceInv

-----------------------------------------------------------------------------

LEMMA UnbegunFinite == IsFiniteSet(Unbegun) /\ Cardinality(Unbegun) \in Nat
<1>1. Unbegun \subseteq Clients
  BY DEF Unbegun
<1> QED
  BY <1>1, MailboxAssumption, FS_Subset, FS_CardinalityType

(* A step in which no client does anything, and each reader, as far as it  *)
(* remembers its reloads, loses as many first characters as it reloads.    *)
LEMMA NoClient ==
    ASSUME ServiceInv, ServiceInv', Counted,
           UNCHANGED clientVars, Found' <= Found,
           \A i \in Instances : \/ reloads'[i] + FoundBy(i)' <= reloads[i] + FoundBy(i)
                                \/ reloads'[i] = 0
    PROVE  Counted'
<1>1. Unbegun' = Unbegun /\ asked' = asked
  BY DEF clientVars, Unbegun
<1>2. Cardinality(Unbegun)' + Found' <= asked'
  BY <1>1, UnbegunFinite DEF Counted, ServiceInv, ServiceTypeOK, Found
<1>3. ASSUME NEW i \in Instances
      PROVE  reloads'[i] + Cardinality(Unbegun)' + FoundBy(i)' <= asked'
  <2>1. reloads[i] \in Nat /\ reloads'[i] \in Nat /\ asked \in Nat
    BY DEF ServiceInv, ServiceTypeOK
  <2>2. FoundBy(i)' <= Found' /\ FoundBy(i) \in {0, 1} /\ FoundBy(i)' \in {0, 1}
        /\ Found' \in {0, 1}
    BY DEF Found, FoundBy
  <2>3. reloads[i] + Cardinality(Unbegun) + FoundBy(i) <= asked
    BY DEF Counted
  <2> QED
    BY <1>1, <1>2, <2>1, <2>2, <2>3, UnbegunFinite
<1> QED
  BY <1>2, <1>3 DEF Counted

LEMMA RequestStep ==
    ASSUME ServiceInv, Counted, NEW c \in Clients, Request(c)
    PROVE  Counted'
<1>1. Unbegun' = Unbegun \cup {c} /\ c \notin Unbegun
  BY DEF Request, Unbegun, Parts, ServiceInv, ServiceTypeOK
<1>2. Cardinality(Unbegun)' = Cardinality(Unbegun) + 1
  BY <1>1, UnbegunFinite, FS_AddElement
<1>3. /\ asked' = asked + 1 /\ UNCHANGED reloads
      /\ Found' = Found /\ \A i \in Instances : FoundBy(i)' = FoundBy(i)
  BY DEF Request, segmentVars, readerVars, Found, FoundBy, WillErase
<1> QED
  BY <1>2, <1>3, UnbegunFinite
     DEF Counted, Found, FoundBy, ServiceInv, ServiceTypeOK

LEMMA WriteStep ==
    ASSUME ServiceInv, Counted, NEW c \in Clients, NEW x \in Parts, WritePart(c, x)
    PROVE  Counted'
<1>0. /\ asked' = asked /\ asked \in Nat /\ UNCHANGED readerVars
      /\ reloads \in [Instances -> Nat]
  BY DEF WritePart, ServiceInv, ServiceTypeOK
<1>1. CASE x = "head"
  <2>1. Unbegun' = Unbegun \ {c} /\ c \in Unbegun
    BY <1>1 DEF WritePart, Unbegun, ServiceInv, ServiceTypeOK
  <2>2. Cardinality(Unbegun)' = Cardinality(Unbegun) - 1
    BY <2>1, UnbegunFinite, FS_RemoveElement
  <2>3. Found' \in {0, 1} /\ \A i \in Instances : FoundBy(i)' \in {0, 1}
    BY DEF Found, FoundBy
  <2>4. Found \in {0, 1} /\ \A i \in Instances : FoundBy(i) \in {0, 1}
    BY DEF Found, FoundBy
  <2>5. UNCHANGED reloads
    BY <1>0 DEF readerVars
  <2> QED
    BY <1>0, <2>2, <2>3, <2>4, <2>5, UnbegunFinite DEF Counted
<1>2. CASE x = "tail"
  <2>1. Unbegun' = Unbegun
    BY <1>2 DEF WritePart, Unbegun, ServiceInv, ServiceTypeOK
  <2>2. Found' = Found /\ \A i \in Instances : FoundBy(i)' = FoundBy(i)
    BY <1>2, <1>0 DEF WritePart, Found, FoundBy, WillErase, readerVars
  <2>3. UNCHANGED reloads
    BY <1>0 DEF readerVars
  <2> QED
    BY <1>0, <2>1, <2>2, <2>3 DEF Counted
<1> QED
  BY <1>1, <1>2 DEF Parts

LEMMA ReaderStep ==
    ASSUME ServiceInv, ServiceInv', Counted, NEW i \in Instances, Reader(i)
    PROVE  Counted'
<1> USE DEF ServiceInv, ServiceTypeOK, ReaderGoes, ReaderOnly, segmentVars, clientVars,
            Found, FoundBy, WillErase, Parts
<1>1. CASE Attach(i)
  BY <1>1, NoClient DEF Attach
<1>2. CASE Look(i)
  BY <1>2, NoClient DEF Look
<1>3. CASE Wake(i)
  BY <1>3, NoClient DEF Wake
<1>4. CASE Compare(i)
  BY <1>4, NoClient DEF Compare
<1>5. CASE Reload(i)
  BY <1>5, NoClient DEF Reload
<1>6. CASE \E x \in Parts : ErasePart(i, x)
  BY <1>6, NoClient DEF ErasePart
<1> QED
  BY <1>1, <1>2, <1>3, <1>4, <1>5, <1>6 DEF Reader

LEMMA CountedStep ==
    ServiceInv /\ ServiceInv' /\ Counted /\ [ServiceNext]_serviceVars => Counted'
<1> SUFFICES ASSUME ServiceInv, ServiceInv', Counted, [ServiceNext]_serviceVars
             PROVE  Counted'
  OBVIOUS
<1>1. CASE \E c \in Clients : Request(c) \/ \E x \in Parts : WritePart(c, x)
  BY <1>1, RequestStep, WriteStep
<1>2. CASE \E i \in Instances : Reader(i)
  BY <1>2, ReaderStep
<1> USE DEF Found, FoundBy, WillErase, ServiceInv, ServiceTypeOK, OfMain, Forgotten,
            readerVars, segmentVars
<1>3. CASE Edit
  BY <1>3, NoClient DEF Edit
<1>4. ASSUME NEW i \in Instances, LaunchAndLoad(i) PROVE Counted'
  BY <1>4, NoClient DEF LaunchAndLoad
<1>5. ASSUME NEW i \in Instances, CreateAndRead(i) PROVE Counted'
  BY <1>5, NoClient DEF CreateAndRead, TryCreate, ReaderGoes
<1>6. ASSUME NEW i \in Instances, ExitJoined(i) PROVE Counted'
  BY <1>6, NoClient DEF ExitJoined
<1>7. ASSUME NEW i \in Instances, Dies(i) PROVE Counted'
  BY <1>7, NoClient DEF Dies, ReaderGoes
<1>8. CASE Alone
  BY <1>8, NoClient DEF Alone
<1>9. CASE UNCHANGED serviceVars
  BY <1>9, NoClient DEF serviceVars
<1> QED
  BY <1>1, <1>2, <1>3, <1>4, <1>5, <1>6, <1>7, <1>8, <1>9 DEF ServiceNext, Advances

(* However many clients write over each other and over the readers, and    *)
(* wherever a reader dies, a daemon reloads at most once for each request. *)
THEOREM ReloadsAsked == ServiceSpec => []NoUnaskedReload
<1>1. ServiceInit => Counted
  <2> SUFFICES ASSUME ServiceInit PROVE Counted
    OBVIOUS
  <2>1. Unbegun = {}
    BY DEF ServiceInit, Unbegun
  <2>2. Cardinality(Unbegun) = 0
    BY <2>1, FS_EmptySet
  <2> QED
    BY <2>2 DEF ServiceInit, Counted, Found, FoundBy
<1>2. ServiceInv /\ Counted => NoUnaskedReload
  BY UnbegunFinite DEF ServiceInv, ServiceTypeOK, Counted, FoundBy, NoUnaskedReload
<1> QED
  BY <1>1, <1>2, AlwaysServiceInv, CountedStep, PTL DEF ServiceSpec

(* The readers and the segment do not disturb the lock: whatever is proved *)
(* of SingletonLock holds of the whole.                                    *)
THEOREM ServiceImplementsLock == ServiceSpec => Spec
<1>1. ServiceInit => Init
  BY DEF ServiceInit
<1> QED
  BY <1>1, LockStep, PTL DEF ServiceSpec, Spec

(* No two instances are the daemon at the same time, whatever their        *)
(* readers do.                                                             *)
THEOREM OneDaemon == ServiceSpec => []AtMostOneOwner
  BY ServiceImplementsLock, MutualExclusion, PTL
=============================================================================
