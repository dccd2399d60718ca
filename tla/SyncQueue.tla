----------------------------- MODULE SyncQueue -----------------------------
(***************************************************************************)
(* synchronized_queue<Process> of include/utility/synchronized_queue.hpp  *)
(* in the build without USE_EXPERIMENTAL_IMPL: a std::queue guarded by a   *)
(* mutex, with a condition variable on which readers wait for a process.  *)
(* (AtomicRing models the lock-free queue of the other build.)            *)
(*                                                                         *)
(* A thread is a producer (the event thread, and the main thread while it  *)
(* scans /proc) or a reader (the worker).  Each step below is one piece of *)
(* code that runs without another thread being able to see its middle: the *)
(* acquisition of the mutex, a test of the predicate together with the     *)
(* atomic release-and-sleep it may lead to, the change of the queue, the   *)
(* release of the mutex.                                                   *)
(***************************************************************************)
EXTENDS Naturals, Sequences, FiniteSets

CONSTANTS Producers,   \* threads that push
          Readers,     \* threads that poll or pop
          Ops,         \* the reading operations the readers use
          MaxPushes,   \* bound: pushes of each producer
          NoThread,    \* the owner of a free mutex
          Nothing      \* std::nullopt

Threads == Producers \cup Readers

ASSUME ThreadsAssumption == /\ Producers \cap Readers = {}
                            /\ NoThread \notin Threads
                            /\ IsFiniteSet(Readers)
ASSUME OpsAssumption == Ops \subseteq {"poll", "pop"}
ASSUME MaxPushesAssumption == MaxPushes \in Nat

(* The k-th process pushed by a producer.                                  *)
Elements == Producers \X (1..MaxPushes)

ASSUME NothingAssumption == Nothing \notin Elements

VARIABLES m_queue,    \* std::queue<T>
          m_mutex,    \* the thread that holds the mutex
          pc,         \* where each thread is
          op,         \* the operation each reader is in
          value,      \* what it will return
          pushes      \* pushes started by each producer

vars == <<m_queue, m_mutex, pc, op, value, pushes>>

(* Readers blocked in m_cond_not_empty; they do not hold the mutex.        *)
Asleep == {r \in Readers : pc[r] = "asleep"}

Init == /\ m_queue = <<>>
        /\ m_mutex = NoThread
        /\ pc = [t \in Threads |-> "idle"]
        /\ op \in [Readers -> Ops]
        /\ value = [r \in Readers |-> Nothing]
        /\ pushes = [p \in Producers |-> 0]

(* Mutant: a wait without a predicate trusts every wake-up.                *)
MutTrustingWait == [push |-> "emplace", call |-> "test",
                    woken |-> "take", expired |-> "last_test"]

(* std::unique_lock<std::mutex> lock(m_mutex), and the re-acquisition that *)
(* ends a wait: where the thread goes on with the mutex held.              *)
Acquired == [push |-> "emplace", call |-> "test",
             woken |-> "test", expired |-> "last_test"]

Lock(t) == /\ pc[t] \in DOMAIN Acquired
           /\ m_mutex = NoThread
           /\ m_mutex' = t
           /\ pc' = [pc EXCEPT ![t] = Acquired[pc[t]]]
           /\ UNCHANGED <<m_queue, op, value, pushes>>

(* The lock goes out of scope and the operation returns.                   *)
Unlock(t) == /\ pc[t] = "unlock"
             /\ m_mutex' = NoThread
             /\ pc' = [pc EXCEPT ![t] = "idle"]
             /\ value' = [r \in Readers |-> IF r = t THEN Nothing ELSE value[r]]
             /\ UNCHANGED <<m_queue, op, pushes>>

-----------------------------------------------------------------------------
(* push *)

CallPush(p) == /\ pc[p] = "idle"
               /\ pushes[p] < MaxPushes
               /\ pushes' = [pushes EXCEPT ![p] = @ + 1]
               /\ pc' = [pc EXCEPT ![p] = "push"]
               /\ UNCHANGED <<m_queue, m_mutex, op, value>>

(* Mutant: push does not notify.                                           *)
MutNoNotify(p) == pc' = [pc EXCEPT ![p] = "unlock"]

(* notify_one: one of the readers asleep, if there is one, stops waiting.  *)
NotifyOne(p) ==
    \/ /\ Asleep = {}
       /\ pc' = [pc EXCEPT ![p] = "unlock"]
    \/ \E r \in Asleep : pc' = [pc EXCEPT ![p] = "unlock", ![r] = "woken"]

(* m_queue.emplace(v); m_cond_not_empty.notify_one()                       *)
Emplace(p) == /\ pc[p] = "emplace"
              /\ m_queue' = Append(m_queue, <<p, pushes[p]>>)
              /\ NotifyOne(p)
              /\ UNCHANGED <<m_mutex, op, value, pushes>>

-----------------------------------------------------------------------------
(* poll(timeout) and pop() *)

CallRead(r, o) == /\ pc[r] = "idle"
                  /\ op' = [op EXCEPT ![r] = o]
                  /\ pc' = [pc EXCEPT ![r] = "call"]
                  /\ UNCHANGED <<m_queue, m_mutex, value, pushes>>

(* The predicate, evaluated with the mutex held: the wait ends, or the     *)
(* thread releases the mutex and sleeps in one step.                       *)
Test(r) == /\ pc[r] = "test"
           /\ IF m_queue # <<>>
              THEN /\ pc' = [pc EXCEPT ![r] = "take"]
                   /\ UNCHANGED m_mutex
              ELSE /\ pc' = [pc EXCEPT ![r] = "asleep"]
                   /\ m_mutex' = NoThread
           /\ UNCHANGED <<m_queue, op, value, pushes>>

(* A condition variable may wake a waiter nobody notified.                 *)
SpuriousWakeup(r) == /\ pc[r] = "asleep"
                     /\ pc' = [pc EXCEPT ![r] = "woken"]
                     /\ UNCHANGED <<m_queue, m_mutex, op, value, pushes>>

(* The deadline of a poll passes, in the wait or on the way out of it.     *)
Timeout(r) == /\ op[r] = "poll"
              /\ pc[r] \in {"asleep", "woken"}
              /\ pc' = [pc EXCEPT ![r] = "expired"]
              /\ UNCHANGED <<m_queue, m_mutex, op, value, pushes>>

(* Mutant: an expired wait is taken for an empty queue.                    *)
MutExpiredMeansEmpty(r) == /\ pc[r] = "last_test"
                           /\ pc' = [pc EXCEPT ![r] = "unlock"]
                           /\ UNCHANGED <<m_queue, m_mutex, op, value, pushes>>

(* wait_for evaluates the predicate a last time after the deadline, and    *)
(* poll evaluates it again, still under the mutex.                         *)
LastTest(r) == /\ pc[r] = "last_test"
               /\ pc' = [pc EXCEPT ![r] = IF m_queue = <<>> THEN "unlock" ELSE "take"]
               /\ UNCHANGED <<m_queue, m_mutex, op, value, pushes>>

(* Mutant: front() without pop().                                          *)
MutTakeNoPop(r) == /\ pc[r] = "take"
                   /\ value' = [value EXCEPT ![r] = Head(m_queue)]
                   /\ pc' = [pc EXCEPT ![r] = "unlock"]
                   /\ UNCHANGED <<m_queue, m_mutex, op, pushes>>

(* T front = m_queue.front(); m_queue.pop(): front of an empty std::queue  *)
(* is undefined.                                                           *)
Take(r) == /\ pc[r] = "take"
           /\ value' = [value EXCEPT ![r] = Head(m_queue)]
           /\ m_queue' = Tail(m_queue)
           /\ pc' = [pc EXCEPT ![r] = "unlock"]
           /\ UNCHANGED <<m_mutex, op, pushes>>

-----------------------------------------------------------------------------

Push(p) == CallPush(p) \/ Emplace(p)

Read(r) == \/ \E o \in Ops : CallRead(r, o)
           \/ Test(r)
           \/ LastTest(r)
           \/ Take(r)

Next == \/ \E t \in Threads : Lock(t) \/ Unlock(t)
        \/ \E p \in Producers : Push(p)
        \/ \E r \in Readers : Read(r) \/ Timeout(r) \/ SpuriousWakeup(r)

(* A thread that can run runs; the deadline of a poll passes; the mutex is *)
(* handed to a thread that keeps asking for it; the worker polls again     *)
(* after each answer (worker.cpp:29-30).  Nothing is assumed of producers  *)
(* between two pushes, nor of spurious wake-ups.                           *)
Fairness == /\ \A t \in Threads : SF_vars(Lock(t)) /\ WF_vars(Unlock(t))
            /\ \A p \in Producers : WF_vars(Emplace(p))
            /\ \A r \in Readers : WF_vars(Read(r)) /\ WF_vars(Timeout(r))

Spec == Init /\ [][Next]_vars

FairSpec == Spec /\ Fairness

-----------------------------------------------------------------------------

(* Every variable keeps its type.                                          *)
TypeOK == /\ m_queue \in Seq(Elements)
          /\ m_mutex \in Threads \cup {NoThread}
          /\ pc \in [Threads -> {"idle", "push", "emplace", "unlock", "call", "test",
                                 "asleep", "woken", "expired", "last_test", "take"}]
          /\ op \in [Readers -> Ops]
          /\ value \in [Readers -> Elements \cup {Nothing}]
          /\ pushes \in [Producers -> 0..MaxPushes]

(* front() is never called on an empty queue: between the test of a reader *)
(* and its front()/pop(), no other thread empties the queue                *)
(* (synchronized_queue.hpp:75-80 and 86-91).                               *)
FrontNeverEmpty == \A r \in Readers : pc[r] = "take" => m_queue # <<>>

(* No wake-up is lost: while a reader sleeps, each process in the queue    *)
(* has a reader of its own on its way to it (notify_one once per push,     *)
(* under the mutex, is enough).                                            *)
OnTheWay == {r \in Readers : pc[r] \in {"woken", "expired", "test", "last_test", "take"}}

WakeupsCover == Asleep # {} => Len(m_queue) <= Cardinality(OnTheWay)

(* What a reader asks of the queue, seen from outside.                     *)
Asking == [r \in Readers |-> CASE pc[r] = "idle" -> "no"
                               [] pc[r] = "unlock" -> "answered"
                               [] OTHER -> op[r]]

Fifo == INSTANCE ProcessFifo WITH queue <- m_queue, asking <- Asking, answer <- value

(* The queue implements ProcessFifo: emplace is the instant of a push,     *)
(* front()/pop() or the last test that of a read (worker.cpp:30 relies on  *)
(* it: an empty answer means that the queue was empty).                    *)
ImplementsFifo == Fifo!FifoSpec

(* Every process pushed leaves the queue, as long as readers keep reading  *)
(* (a wake-up lost for good would leave it there).                         *)
Queued(e) == \E i \in 1..Len(m_queue) : m_queue[i] = e

Delivery == \A e \in Elements : Queued(e) ~> ~Queued(e)
=============================================================================
