-------------------------- MODULE SyncQueueProofs --------------------------
(***************************************************************************)
(* Proofs about SyncQueue, for any number of producers and readers and any *)
(* number of pushes: type correctness, the mutex protocol, that front() is *)
(* never called on an empty queue, that no wake-up is lost, and that the   *)
(* queue implements ProcessFifo.                                           *)
(***************************************************************************)
EXTENDS SyncQueue, FiniteSetTheorems, TLAPS

(* Program points of each kind of thread, and those that hold the mutex.   *)
ProducerPoints == {"idle", "push", "emplace", "unlock"}
ReaderPoints == {"idle", "call", "test", "asleep", "woken", "expired",
                 "last_test", "take", "unlock"}
Holding == {"emplace", "test", "last_test", "take", "unlock"}

(* Each thread stays in its own operations.                                *)
PointsOK == /\ \A p \in Producers : pc[p] \in ProducerPoints
            /\ \A r \in Readers : pc[r] \in ReaderPoints

(* The mutex is held by the thread whose program point says so.            *)
MutexOK == \A t \in Threads : pc[t] \in Holding <=> m_mutex = t

(* Only a poll times out; only a returning call has something to return;   *)
(* the process about to be emplaced is one of Elements.                    *)
CallsOK == /\ \A r \in Readers : pc[r] \in {"expired", "last_test"} => op[r] = "poll"
           /\ \A r \in Readers : pc[r] # "unlock" => value[r] = Nothing
           /\ \A p \in Producers : pc[p] \in {"push", "emplace"} => pushes[p] \in 1..MaxPushes

(* The inductive invariant: a reader between its test and its front() owns *)
(* the mutex, so nobody empties the queue under it.                        *)
IInv == TypeOK /\ PointsOK /\ MutexOK /\ CallsOK /\ FrontNeverEmpty

USE DEF Threads, ProducerPoints, ReaderPoints, Holding

LEMMA InitInv == Init => IInv
  BY OpsAssumption, ThreadsAssumption, MaxPushesAssumption
     DEF Init, IInv, TypeOK, PointsOK, MutexOK, CallsOK, FrontNeverEmpty

LEMMA StepInv == IInv /\ [Next]_vars => IInv'
<1> SUFFICES ASSUME IInv, [Next]_vars PROVE IInv'
  OBVIOUS
<1> USE ThreadsAssumption, OpsAssumption, MaxPushesAssumption, NothingAssumption
        DEF IInv, TypeOK, PointsOK, MutexOK, CallsOK, FrontNeverEmpty
<1>1. ASSUME NEW t \in Threads, Lock(t) PROVE IInv'
  <2>1. pc[t] \in {"push", "call", "woken", "expired"} /\ m_mutex = NoThread
    BY <1>1 DEF Lock, Acquired
  <2>2. \A u \in Threads : pc[u] \notin Holding
    BY <2>1
  <2>3. /\ pc' = [pc EXCEPT ![t] = Acquired[pc[t]]]
        /\ Acquired["push"] = "emplace" /\ Acquired["call"] = "test"
        /\ Acquired["woken"] = "test" /\ Acquired["expired"] = "last_test"
    BY <1>1 DEF Lock, Acquired
  <2>4. TypeOK' /\ PointsOK' /\ MutexOK'
    BY <1>1, <2>1, <2>2, <2>3 DEF Lock
  <2>5. CallsOK' /\ FrontNeverEmpty'
    BY <1>1, <2>1, <2>2, <2>3 DEF Lock
  <2> QED
    BY <2>4, <2>5
<1>2. ASSUME NEW t \in Threads, Unlock(t) PROVE IInv'
  BY <1>2 DEF Unlock
<1>3. ASSUME NEW p \in Producers, CallPush(p) PROVE IInv'
  BY <1>3 DEF CallPush
<1>4. ASSUME NEW p \in Producers, Emplace(p) PROVE IInv'
  <2>1. <<p, pushes[p]>> \in Elements
    BY <1>4 DEF Emplace, Elements
  <2>2. m_queue' \in Seq(Elements) /\ m_queue' # <<>>
    BY <1>4, <2>1 DEF Emplace
  <2>3. CASE Asleep = {} /\ pc' = [pc EXCEPT ![p] = "unlock"]
    BY <1>4, <2>2, <2>3 DEF Emplace
  <2>4. ASSUME NEW r \in Asleep, pc' = [pc EXCEPT ![p] = "unlock", ![r] = "woken"]
        PROVE IInv'
    BY <1>4, <2>2, <2>4 DEF Emplace, Asleep
  <2> QED
    BY <1>4, <2>3, <2>4 DEF Emplace, NotifyOne
<1>5. ASSUME NEW r \in Readers, Read(r) PROVE IInv'
  <2>1. ASSUME NEW o \in Ops, CallRead(r, o) PROVE IInv'
    BY <2>1 DEF CallRead
  <2>2. CASE Test(r)
    BY <2>2 DEF Test
  <2>3. CASE LastTest(r)
    BY <2>3 DEF LastTest
  <2>4. CASE Take(r)
    <3>1. m_queue # <<>>
      BY <2>4 DEF Take
    <3>2. m_queue' \in Seq(Elements) /\ Head(m_queue) \in Elements
      BY <2>4, <3>1 DEF Take
    <3>3. \A s \in Readers : s # r => pc[s] # "take"
      BY <2>4 DEF Take
    <3> QED
      BY <2>4, <3>2, <3>3 DEF Take
  <2> QED
    BY <1>5, <2>1, <2>2, <2>3, <2>4 DEF Read
<1>6. ASSUME NEW r \in Readers, Timeout(r) PROVE IInv'
  BY <1>6 DEF Timeout
<1>7. ASSUME NEW r \in Readers, SpuriousWakeup(r) PROVE IInv'
  BY <1>7 DEF SpuriousWakeup
<1>8. CASE UNCHANGED vars
  BY <1>8 DEF vars
<1> QED
  BY <1>1, <1>2, <1>3, <1>4, <1>5, <1>6, <1>7, <1>8 DEF Next, Push

LEMMA AlwaysInv == Spec => []IInv
  BY InitInv, StepInv, PTL DEF Spec

(* The variables of the queue keep their types.                            *)
THEOREM TypeCorrect == Spec => []TypeOK
  BY AlwaysInv, PTL DEF IInv

(* front() is never called on an empty std::queue.                         *)
THEOREM FrontSafe == Spec => []FrontNeverEmpty
  BY AlwaysInv, PTL DEF IInv

-----------------------------------------------------------------------------
(* No wake-up is lost *)

LEMMA ReadersFinite == \A S \in SUBSET Readers : IsFiniteSet(S) /\ Cardinality(S) \in Nat
  BY ThreadsAssumption, FS_Subset, FS_CardinalityType

(* The readers on their way to the queue only become more.                 *)
LEMMA MoreOnTheWay == ASSUME OnTheWay \subseteq OnTheWay'
                      PROVE  Cardinality(OnTheWay) <= Cardinality(OnTheWay')
  <1>1. OnTheWay' \in SUBSET Readers /\ OnTheWay \in SUBSET Readers
    BY DEF OnTheWay
  <1>2. IsFiniteSet(OnTheWay')
    BY <1>1, ReadersFinite
  <1> QED
    BY <1>2, FS_Subset

LEMMA InitWakeups == Init => WakeupsCover
  BY ThreadsAssumption DEF Init, WakeupsCover, Asleep

LEMMA StepWakeups == IInv /\ WakeupsCover /\ [Next]_vars => WakeupsCover'
<1> SUFFICES ASSUME IInv, WakeupsCover, [Next]_vars, Asleep' # {}
             PROVE  Len(m_queue') <= Cardinality(OnTheWay')
  BY DEF WakeupsCover
<1> USE ThreadsAssumption DEF IInv, TypeOK, PointsOK
<1>a. /\ Len(m_queue) \in Nat
      /\ Cardinality(OnTheWay) \in Nat /\ Cardinality(OnTheWay') \in Nat
  <2>1. OnTheWay \in SUBSET Readers /\ OnTheWay' \in SUBSET Readers
    BY DEF OnTheWay
  <2> QED
    BY <2>1, ReadersFinite
(* Enough for every step but Emplace and Take.                             *)
<1>b. ASSUME m_queue' = m_queue, OnTheWay \subseteq OnTheWay', Asleep' \subseteq Asleep
      PROVE  Len(m_queue') <= Cardinality(OnTheWay')
  BY <1>a, <1>b, MoreOnTheWay DEF WakeupsCover
(* Nobody waits for anything when the queue is empty.                      *)
<1>c. ASSUME m_queue' = <<>> PROVE Len(m_queue') <= Cardinality(OnTheWay')
  BY <1>a, <1>c
<1>1. ASSUME NEW t \in Threads, Lock(t) PROVE Len(m_queue') <= Cardinality(OnTheWay')
  BY <1>1, <1>b DEF Lock, Acquired, OnTheWay, Asleep
<1>2. ASSUME NEW t \in Threads, Unlock(t) PROVE Len(m_queue') <= Cardinality(OnTheWay')
  BY <1>2, <1>b DEF Unlock, OnTheWay, Asleep
<1>3. ASSUME NEW p \in Producers, CallPush(p) PROVE Len(m_queue') <= Cardinality(OnTheWay')
  BY <1>3, <1>b DEF CallPush, OnTheWay, Asleep
<1>4. ASSUME NEW p \in Producers, Emplace(p) PROVE Len(m_queue') <= Cardinality(OnTheWay')
  <2>1. PICK r \in Asleep : pc' = [pc EXCEPT ![p] = "unlock", ![r] = "woken"]
    <3>1. CASE Asleep = {} /\ pc' = [pc EXCEPT ![p] = "unlock"]
      BY <3>1 DEF Asleep
    <3> QED
      BY <1>4, <3>1 DEF Emplace, NotifyOne
  <2>2. r \in Readers /\ r \notin OnTheWay
    BY DEF Asleep, OnTheWay
  <2>3. OnTheWay' = OnTheWay \cup {r}
    BY <2>1, <2>2 DEF OnTheWay
  <2>4. OnTheWay \in SUBSET Readers
    BY DEF OnTheWay
  <2>5. Cardinality(OnTheWay') = Cardinality(OnTheWay) + 1
    BY <2>2, <2>3, <2>4, ReadersFinite, FS_AddElement
  <2>6. Len(m_queue') = Len(m_queue) + 1
    BY <1>4 DEF Emplace
  <2>7. Len(m_queue) <= Cardinality(OnTheWay)
    BY DEF WakeupsCover
  <2> QED
    BY <1>a, <2>5, <2>6, <2>7
<1>5. ASSUME NEW r \in Readers, Read(r) PROVE Len(m_queue') <= Cardinality(OnTheWay')
  <2>1. ASSUME NEW o \in Ops, CallRead(r, o) PROVE Len(m_queue') <= Cardinality(OnTheWay')
    BY <2>1, <1>b DEF CallRead, OnTheWay, Asleep
  <2>2. CASE Test(r) /\ m_queue # <<>>
    BY <2>2, <1>b DEF Test, OnTheWay, Asleep
  <2>3. CASE LastTest(r) /\ m_queue # <<>>
    BY <2>3, <1>b DEF LastTest, OnTheWay, Asleep
  <2>4. CASE (Test(r) \/ LastTest(r)) /\ m_queue = <<>>
    BY <2>4, <1>c DEF Test, LastTest
  <2>5. CASE Take(r)
    <3>1. r \in OnTheWay /\ OnTheWay' = OnTheWay \ {r} /\ Asleep' = Asleep
      BY <2>5 DEF Take, OnTheWay, Asleep
    <3>2. OnTheWay \in SUBSET Readers
      BY DEF OnTheWay
    <3>3. Cardinality(OnTheWay') = Cardinality(OnTheWay) - 1
      BY <3>1, <3>2, ReadersFinite, FS_RemoveElement
    <3>4. Len(m_queue') = Len(m_queue) - 1
      BY <2>5 DEF Take, FrontNeverEmpty
    <3>5. Len(m_queue) <= Cardinality(OnTheWay)
      BY <3>1 DEF WakeupsCover
    <3> QED
      BY <1>a, <3>3, <3>4, <3>5
  <2> QED
    BY <1>5, <2>1, <2>2, <2>3, <2>4, <2>5 DEF Read
<1>6. ASSUME NEW r \in Readers, Timeout(r) PROVE Len(m_queue') <= Cardinality(OnTheWay')
  BY <1>6, <1>b DEF Timeout, OnTheWay, Asleep
<1>7. ASSUME NEW r \in Readers, SpuriousWakeup(r) PROVE Len(m_queue') <= Cardinality(OnTheWay')
  BY <1>7, <1>b DEF SpuriousWakeup, OnTheWay, Asleep
<1>8. CASE UNCHANGED vars
  BY <1>8, <1>b DEF vars, OnTheWay, Asleep
<1> QED
  BY <1>1, <1>2, <1>3, <1>4, <1>5, <1>6, <1>7, <1>8 DEF Next, Push

(* While a reader sleeps, each process in the queue has a reader of its    *)
(* own on the way to it: one notify_one per push loses no wake-up.         *)
THEOREM NoLostWakeup == Spec => []WakeupsCover
<1>1. Init => WakeupsCover
  BY InitWakeups
<1>2. IInv /\ WakeupsCover /\ [Next]_vars => WakeupsCover'
  BY StepWakeups
<1> QED
  BY <1>1, <1>2, AlwaysInv, PTL DEF Spec

-----------------------------------------------------------------------------
(* The queue implements ProcessFifo *)

LEMMA InitFifo == Init => Fifo!FifoInit
  BY ThreadsAssumption DEF Init, Fifo!FifoInit, Asking

LEMMA StepFifo == IInv /\ [Next]_vars => [Fifo!FifoNext]_Fifo!fifoVars
<1> SUFFICES ASSUME IInv, [Next]_vars PROVE [Fifo!FifoNext]_Fifo!fifoVars
  OBVIOUS
<1> USE ThreadsAssumption, OpsAssumption
        DEF IInv, TypeOK, PointsOK, CallsOK, FrontNeverEmpty
<1>a. ASSUME UNCHANGED <<m_queue, Asking, value>> PROVE [Fifo!FifoNext]_Fifo!fifoVars
  BY <1>a DEF Fifo!fifoVars
<1>1. ASSUME NEW t \in Threads, Lock(t) PROVE [Fifo!FifoNext]_Fifo!fifoVars
  <2>1. Asking' = Asking
    BY <1>1 DEF Lock, Acquired, Asking
  <2> QED
    BY <1>1, <1>a, <2>1 DEF Lock
<1>2. ASSUME NEW t \in Threads, Unlock(t) PROVE [Fifo!FifoNext]_Fifo!fifoVars
  <2>1. CASE t \in Producers
    <3>1. Asking' = Asking /\ value' = value /\ m_queue' = m_queue
      BY <1>2, <2>1 DEF Unlock, Asking
    <3> QED
      BY <3>1, <1>a
  <2>2. CASE t \in Readers
    <3>1. Asking[t] = "answered" /\ Asking' = [Asking EXCEPT ![t] = "no"]
      BY <1>2, <2>2 DEF Unlock, Asking
    <3>2. value' = [value EXCEPT ![t] = Nothing] /\ m_queue' = m_queue
      BY <1>2, <2>2 DEF Unlock
    <3>3. Fifo!Return(t)
      BY <3>1, <3>2 DEF Fifo!Return
    <3> QED
      BY <2>2, <3>3 DEF Fifo!FifoNext
  <2> QED
    BY <2>1, <2>2
<1>3. ASSUME NEW p \in Producers, CallPush(p) PROVE [Fifo!FifoNext]_Fifo!fifoVars
  <2>1. Asking' = Asking
    BY <1>3 DEF CallPush, Asking
  <2> QED
    BY <1>3, <1>a, <2>1 DEF CallPush
<1>4. ASSUME NEW p \in Producers, Emplace(p) PROVE [Fifo!FifoNext]_Fifo!fifoVars
  <2>1. Asking' = Asking
    <3>1. CASE Asleep = {} /\ pc' = [pc EXCEPT ![p] = "unlock"]
      BY <1>4, <3>1 DEF Emplace, Asking
    <3>2. ASSUME NEW r \in Asleep, pc' = [pc EXCEPT ![p] = "unlock", ![r] = "woken"]
          PROVE  Asking' = Asking
      BY <1>4, <3>2 DEF Emplace, Asking, Asleep
    <3> QED
      BY <1>4, <3>1, <3>2 DEF Emplace, NotifyOne
  <2>2. <<p, pushes[p]>> \in Elements
    BY <1>4 DEF Emplace, Elements
  <2>3. Fifo!Put(<<p, pushes[p]>>)
    BY <1>4, <2>1 DEF Emplace, Fifo!Put
  <2> QED
    BY <2>2, <2>3 DEF Fifo!FifoNext
<1>5. ASSUME NEW r \in Readers, Read(r) PROVE [Fifo!FifoNext]_Fifo!fifoVars
  <2>1. ASSUME NEW o \in Ops, CallRead(r, o) PROVE [Fifo!FifoNext]_Fifo!fifoVars
    <3>1. Asking[r] = "no" /\ Asking' = [Asking EXCEPT ![r] = o]
      BY <2>1 DEF CallRead, Asking
    <3>2. Fifo!Ask(r, o)
      BY <2>1, <3>1 DEF CallRead, Fifo!Ask
    <3> QED
      BY <3>2 DEF Fifo!FifoNext
  <2>2. CASE Test(r)
    <3>1. Asking' = Asking
      BY <2>2 DEF Test, Asking
    <3> QED
      BY <2>2, <1>a, <3>1 DEF Test
  <2>3. CASE LastTest(r) /\ m_queue # <<>>
    <3>1. Asking' = Asking
      BY <2>3 DEF LastTest, Asking
    <3> QED
      BY <2>3, <1>a, <3>1 DEF LastTest
  <2>4. CASE LastTest(r) /\ m_queue = <<>>
    <3>1. Asking[r] = "poll" /\ Asking' = [Asking EXCEPT ![r] = "answered"]
      BY <2>4 DEF LastTest, Asking
    <3>2. Fifo!Refuse(r)
      BY <2>4, <3>1 DEF LastTest, Fifo!Refuse
    <3> QED
      BY <3>2 DEF Fifo!FifoNext
  <2>5. CASE Take(r)
    <3>1. Asking[r] \in {"poll", "pop"} /\ Asking' = [Asking EXCEPT ![r] = "answered"]
      BY <2>5 DEF Take, Asking
    <3>2. Fifo!Give(r)
      BY <2>5, <3>1 DEF Take, Fifo!Give
    <3> QED
      BY <3>2 DEF Fifo!FifoNext
  <2> QED
    BY <1>5, <2>1, <2>2, <2>3, <2>4, <2>5 DEF Read
<1>6. ASSUME NEW r \in Readers, Timeout(r) PROVE [Fifo!FifoNext]_Fifo!fifoVars
  <2>1. Asking' = Asking
    BY <1>6 DEF Timeout, Asking
  <2> QED
    BY <1>6, <1>a, <2>1 DEF Timeout
<1>7. ASSUME NEW r \in Readers, SpuriousWakeup(r) PROVE [Fifo!FifoNext]_Fifo!fifoVars
  <2>1. Asking' = Asking
    BY <1>7 DEF SpuriousWakeup, Asking
  <2> QED
    BY <1>7, <1>a, <2>1 DEF SpuriousWakeup
<1>8. CASE UNCHANGED vars
  BY <1>8, <1>a DEF vars, Asking
<1> QED
  BY <1>1, <1>2, <1>3, <1>4, <1>5, <1>6, <1>7, <1>8 DEF Next, Push

(* Every behaviour of the mutex queue is one of the abstract queue:        *)
(* processes are handed out once each, in the order they were pushed, and  *)
(* a poll is refused only by an empty queue.                               *)
THEOREM Refinement == Spec => ImplementsFifo
<1>1. Init => Fifo!FifoInit
  BY InitFifo
<1>2. IInv /\ [Next]_vars => [Fifo!FifoNext]_Fifo!fifoVars
  BY StepFifo
<1> QED
  BY <1>1, <1>2, AlwaysInv, PTL DEF Spec, ImplementsFifo, Fifo!FifoSpec
=============================================================================
