----------------------------- MODULE AtomicRing -----------------------------
(***************************************************************************)
(* synchronized_queue<Process> of the default build                       *)
(* (USE_EXPERIMENTAL_IMPL): the lock-free ring AtomicQueueB2 of            *)
(* include/utility/atomic_queue/atomic_queue.h, with poll added on top of *)
(* it by synchronized_queue.hpp.  push is not overridden, so it neither    *)
(* takes the mutex nor notifies: a poll notices a process only by testing  *)
(* the counters, before it sleeps and when it wakes.                       *)
(*                                                                         *)
(* A producer claims a ticket by incrementing head_, then waits for the    *)
(* slot of its ticket to be EMPTY; the one consumer (the worker) takes a   *)
(* ticket by incrementing tail_ and waits for its slot to be STORED.  The  *)
(* steps are the atomic operations; memory is sequentially consistent.     *)
(* The mutex of poll is taken by the worker alone, and is left out.        *)
(***************************************************************************)
EXTENDS Naturals, FiniteSets, SequencesExt

CONSTANTS Producers,   \* threads that push
          Scanner,     \* the producer that is the main thread
          ScanSize,    \* pushes of the scan that precedes every other thread
          MaxPushes,   \* bound: pushes of each producer
          Size,        \* slots of the ring (32768 in the code)
          Wrap,        \* head_ and tail_ are unsigned: numbers below Wrap (2^32)
          Backlog,     \* assumed: processes claimed and not yet handed over
          UsedBefore,  \* how many pushes the empty ring may have seen already
          Nothing      \* std::nullopt, and the contents of an empty slot

ASSUME RingAssumption == /\ Size \in Nat \ {0} /\ Wrap \in Nat
                         /\ Wrap % Size = 0
                         /\ Size + Cardinality(Producers) < Wrap \div 2
                         /\ UsedBefore \subseteq 0..(Wrap - 1)
                         /\ IsFiniteSet(Producers) /\ Scanner \in Producers
                         /\ MaxPushes \in Nat

Elements == Producers \X (1..MaxPushes)

VARIABLES head, tail,    \* head_, tail_
          state, slot,   \* states_, elements_
          pc, ticket,    \* of each producer: where it is, its value of head
          pushes,        \* pushes claimed by each producer
          wpc, wticket,  \* of the worker: where it is, its value of tail
          value,         \* what its poll will return
          claimed,       \* history: processes claimed and not handed over, in order
          overfull       \* history: they were once more than the ring has slots

producerVars == <<pc, ticket, pushes>>
workerVars == <<wpc, wticket, value>>
vars == <<head, tail, state, slot, pc, ticket, pushes, wpc, wticket, value, claimed,
          overfull>>

Slots == 0..(Size - 1)

(* remap_index permutes the slots to spread them over cache lines: which   *)
(* permutation makes no difference here.                                   *)
SlotOf(t) == t % Size

(* Mutants: the counters are compared instead of subtracted; the size is   *)
(* off by one.                                                             *)
MutCompare == IF head > tail THEN head - tail ELSE 0
MutSizePlusOne == (head + 1 + Wrap - tail) % Wrap

(* static_cast<int>(head - tail), clamped at 0                             *)
WasSize == LET d == (head + Wrap - tail) % Wrap
           IN IF d < Wrap \div 2 THEN d ELSE 0

WasEmpty == WasSize = 0

Init == /\ head \in UsedBefore
        /\ tail = head
        /\ state = [i \in Slots |-> "EMPTY"]
        /\ slot = [i \in Slots |-> Nothing]
        /\ pc = [p \in Producers |-> "idle"]
        /\ ticket = [p \in Producers |-> 0]
        /\ pushes = [p \in Producers |-> 0]
        /\ wpc = "idle"
        /\ wticket = 0
        /\ value = Nothing
        /\ claimed = <<>>
        /\ overfull = FALSE

(* The constructor of ProcessQueue scans /proc before the event thread and *)
(* the worker exist (main.cpp:237, 248-251).                               *)
Started == \/ pushes[Scanner] > ScanSize
           \/ pushes[Scanner] = ScanSize /\ pc[Scanner] = "idle"

-----------------------------------------------------------------------------
(* push *)

(* Mutant: the counter does not wrap.                                      *)
MutClaimNoWrap(p) == /\ pc[p] = "idle"
                     /\ pushes[p] < MaxPushes
                     /\ p = Scanner \/ Started
                     /\ Len(claimed) < Backlog
                     /\ ticket' = [ticket EXCEPT ![p] = head]
                     /\ head' = head + 1
                     /\ pushes' = [pushes EXCEPT ![p] = @ + 1]
                     /\ claimed' = Append(claimed, <<p, pushes[p] + 1>>)
                     /\ overfull' = (overfull \/ Len(claimed) >= Size)
                     /\ pc' = [pc EXCEPT ![p] = "claimed"]
                     /\ UNCHANGED <<tail, state, slot>>
                     /\ UNCHANGED workerVars

Claim(p) == /\ pc[p] = "idle"
            /\ pushes[p] < MaxPushes
            /\ p = Scanner \/ Started
            /\ Len(claimed) < Backlog
            /\ ticket' = [ticket EXCEPT ![p] = head]
            /\ head' = (head + 1) % Wrap
            /\ pushes' = [pushes EXCEPT ![p] = @ + 1]
            /\ claimed' = Append(claimed, <<p, pushes[p] + 1>>)
            /\ overfull' = (overfull \/ Len(claimed) >= Size)
            /\ pc' = [pc EXCEPT ![p] = "claimed"]
            /\ UNCHANGED <<tail, state, slot>>
            /\ UNCHANGED workerVars

(* Mutants: the producer does not wait for its slot; it waits only while   *)
(* another producer is storing.                                            *)
MutStoreAnyway(p) == /\ pc[p] = "claimed"
                     /\ state' = [state EXCEPT ![SlotOf(ticket[p])] = "STORING"]
                     /\ pc' = [pc EXCEPT ![p] = "storing"]
                     /\ UNCHANGED <<head, tail, slot, ticket, pushes, claimed, overfull>>
                     /\ UNCHANGED workerVars
MutStoreOverStored(p) == /\ state[SlotOf(ticket[p])] \in {"EMPTY", "STORED"}
                         /\ MutStoreAnyway(p)

(* The compare-exchange of the state of the slot succeeds; until then the  *)
(* producer spins.                                                         *)
BeginStore(p) == /\ pc[p] = "claimed"
                 /\ state[SlotOf(ticket[p])] = "EMPTY"
                 /\ state' = [state EXCEPT ![SlotOf(ticket[p])] = "STORING"]
                 /\ pc' = [pc EXCEPT ![p] = "storing"]
                 /\ UNCHANGED <<head, tail, slot, ticket, pushes, claimed, overfull>>
                 /\ UNCHANGED workerVars

EndStore(p) == /\ pc[p] = "storing"
               /\ slot' = [slot EXCEPT ![SlotOf(ticket[p])] = <<p, pushes[p]>>]
               /\ state' = [state EXCEPT ![SlotOf(ticket[p])] = "STORED"]
               /\ pc' = [pc EXCEPT ![p] = "idle"]
               /\ UNCHANGED <<head, tail, ticket, pushes, claimed, overfull>>
               /\ UNCHANGED workerVars

-----------------------------------------------------------------------------
(* poll *)

Poll == /\ wpc = "idle" /\ Started
        /\ wpc' = "test"
        /\ UNCHANGED <<head, tail, state, slot, wticket, value, claimed, overfull>>
        /\ UNCHANGED producerVars

(* The predicate of wait_for, before the thread sleeps.                    *)
Test == /\ wpc = "test"
        /\ wpc' = IF WasEmpty THEN "asleep" ELSE "pop"
        /\ UNCHANGED <<head, tail, state, slot, wticket, value, claimed, overfull>>
        /\ UNCHANGED producerVars

SpuriousWakeup == /\ wpc = "asleep"
                  /\ wpc' = "test"
                  /\ UNCHANGED <<head, tail, state, slot, wticket, value, claimed, overfull>>
                  /\ UNCHANGED producerVars

Timeout == /\ wpc = "asleep"
           /\ wpc' = "last_test"
           /\ UNCHANGED <<head, tail, state, slot, wticket, value, claimed, overfull>>
           /\ UNCHANGED producerVars

(* The predicate after the deadline.                                       *)
LastTest == /\ wpc = "last_test"
            /\ wpc' = IF WasEmpty THEN "answered" ELSE "pop"
            /\ UNCHANGED <<head, tail, state, slot, wticket, value, claimed, overfull>>
            /\ UNCHANGED producerVars

(* poll tests once more, then pop takes a ticket: nothing but the worker   *)
(* changes tail_ in between.                                               *)
TakeTicket == /\ wpc = "pop"
              /\ IF WasEmpty
                 THEN /\ wpc' = "answered"
                      /\ UNCHANGED <<tail, wticket>>
                 ELSE /\ wpc' = "load"
                      /\ wticket' = tail
                      /\ tail' = (tail + 1) % Wrap
              /\ UNCHANGED <<head, state, slot, value, claimed, overfull>>
              /\ UNCHANGED producerVars

(* The compare-exchange succeeds; until then the worker spins, whatever    *)
(* the timeout of its poll.                                                *)
BeginLoad == /\ wpc = "load"
             /\ state[SlotOf(wticket)] = "STORED"
             /\ state' = [state EXCEPT ![SlotOf(wticket)] = "LOADING"]
             /\ wpc' = "loading"
             /\ UNCHANGED <<head, tail, slot, wticket, value, claimed, overfull>>
             /\ UNCHANGED producerVars

(* What remains of the processes claimed when one is handed over           *)
Without(processes, e) ==
    IF \E i \in DOMAIN processes : processes[i] = e
    THEN RemoveAt(processes, CHOOSE i \in DOMAIN processes : processes[i] = e)
    ELSE processes

(* Mutant: the slot is not given back.                                     *)
MutKeepSlot == /\ wpc = "loading"
               /\ value' = slot[SlotOf(wticket)]
               /\ claimed' = Without(claimed, slot[SlotOf(wticket)])
               /\ wpc' = "answered"
               /\ UNCHANGED <<head, tail, state, slot, wticket, overfull>>
               /\ UNCHANGED producerVars

EndLoad == /\ wpc = "loading"
           /\ value' = slot[SlotOf(wticket)]
           /\ slot' = [slot EXCEPT ![SlotOf(wticket)] = Nothing]
           /\ state' = [state EXCEPT ![SlotOf(wticket)] = "EMPTY"]
           /\ claimed' = Without(claimed, slot[SlotOf(wticket)])
           /\ wpc' = "answered"
           /\ UNCHANGED <<head, tail, wticket, overfull>>
           /\ UNCHANGED producerVars

Return == /\ wpc = "answered"
          /\ wpc' = "idle"
          /\ value' = Nothing
          /\ UNCHANGED <<head, tail, state, slot, wticket, claimed, overfull>>
          /\ UNCHANGED producerVars

-----------------------------------------------------------------------------

Push(p) == Claim(p) \/ BeginStore(p) \/ EndStore(p)

Worker == \/ Poll \/ Test \/ Timeout \/ LastTest
          \/ TakeTicket \/ BeginLoad \/ EndLoad \/ Return

Next == (\E p \in Producers : Push(p)) \/ Worker \/ SpuriousWakeup

(* A producer that claimed a ticket and the worker keep running; the scan  *)
(* at start-up goes through the whole of /proc.  The deadline of a poll is *)
(* absolute: spurious wake-ups do not postpone it (strong fairness).       *)
Fairness == /\ \A p \in Producers : WF_vars(BeginStore(p)) /\ WF_vars(EndStore(p))
            /\ WF_vars(~Started /\ Claim(Scanner))
            /\ WF_vars(Worker) /\ SF_vars(Timeout)

Spec == Init /\ [][Next]_vars

FairSpec == Spec /\ Fairness

-----------------------------------------------------------------------------

(* Every variable keeps its type.                                          *)
TypeOK == /\ head \in 0..(Wrap - 1) /\ tail \in 0..(Wrap - 1)
          /\ state \in [Slots -> {"EMPTY", "STORING", "STORED", "LOADING"}]
          /\ slot \in [Slots -> Elements \cup {Nothing}]
          /\ pc \in [Producers -> {"idle", "claimed", "storing"}]
          /\ ticket \in [Producers -> 0..(Wrap - 1)]
          /\ pushes \in [Producers -> 0..MaxPushes]
          /\ wpc \in {"idle", "test", "asleep", "last_test", "pop", "load",
                      "loading", "answered"}
          /\ wticket \in 0..(Wrap - 1)
          /\ value \in Elements \cup {Nothing}
          /\ claimed \in Seq(Elements)
          /\ overfull \in BOOLEAN

StoringIn(i) == {p \in Producers : pc[p] = "storing" /\ SlotOf(ticket[p]) = i}

(* No two threads touch the Process in a slot at the same time, even when  *)
(* the tickets of several producers and of the worker meet in one slot     *)
(* (the ring is overfull): the state of the slot says who may.             *)
SlotExclusive ==
    \A i \in Slots :
        /\ Cardinality(StoringIn(i)) = (IF state[i] = "STORING" THEN 1 ELSE 0)
        /\ (wpc = "loading" /\ SlotOf(wticket) = i) <=> state[i] = "LOADING"

(* No process is lost, duplicated or overwritten: one that was claimed and *)
(* not handed over is either with its producer or in exactly one slot.     *)
WithProducer == {p \in Producers : pc[p] # "idle"}
Full == {i \in Slots : state[i] \in {"STORED", "LOADING"}}

NoLoss == /\ Len(claimed) = Cardinality(WithProducer) + Cardinality(Full)
          /\ {claimed[i] : i \in 1..Len(claimed)} =
                 {<<p, pushes[p]>> : p \in WithProducer} \cup {slot[i] : i \in Full}

(* poll took a ticket on the strength of head_ alone, and waits for its    *)
(* slot without a deadline: there is always a producer about to fill that  *)
(* very slot, or a process already in it.                                  *)
NoEmptyWait ==
    wpc = "load" => \/ state[SlotOf(wticket)] \in {"STORING", "STORED"}
                    \/ \E p \in Producers : /\ pc[p] = "claimed"
                                            /\ SlotOf(ticket[p]) = SlotOf(wticket)

(* The abstract queue: a push takes effect when it claims its ticket.      *)
Asking == CASE wpc = "idle" -> "no" [] wpc = "answered" -> "answered" [] OTHER -> "poll"

Fifo == INSTANCE ProcessFifo
            WITH Readers <- {"worker"},
                 queue <- claimed,
                 answer <- [r \in {"worker"} |-> value],
                 asking <- [r \in {"worker"} |-> Asking]

(* Until the ring is overfull it is that queue: processes come out in the  *)
(* order in which they were claimed, although they are stored in any       *)
(* order, and a poll comes back empty-handed only from an empty queue      *)
(* (atomic_queue.h:302 "FIFO").  Once a producer has had to wait for its   *)
(* slot, a later ticket of the slot may overtake it.                       *)
FifoWhileItFits ==
    [][overfull' \/ Fifo!FifoNext]_<<claimed, Asking, value>>

(* Every process claimed is handed over.                                   *)
Queued(e) == \E i \in 1..Len(claimed) : claimed[i] = e

Delivery == \A e \in Elements : Queued(e) ~> ~Queued(e)
=============================================================================
