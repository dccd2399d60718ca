--------------------------- MODULE AtomicRingProofs ---------------------------
(***************************************************************************)
(* Proofs about AtomicRing, for any number of slots, producers, pushes and *)
(* tickets that meet in one slot, wherever the counters wrap: no two       *)
(* threads touch the process in a slot at the same time, no process is     *)
(* lost, the worker never waits for a slot that nobody fills, and until it *)
(* is overfull the ring is a first-in first-out queue.                     *)
(***************************************************************************)
EXTENDS AtomicRing, FiniteSetTheorems, TLAPS

LEMMA CountUpTo == ASSUME NEW n \in Nat
                   PROVE  IsFiniteSet(0..n) /\ Cardinality(0..n) = n + 1
  BY FS_Interval

(* What most steps need of the constants                                   *)
LEMMA Sizes == /\ Size \in Nat /\ Size > 0 /\ Wrap \in Nat /\ Size < Wrap
               /\ UsedBefore \subseteq 0..(Wrap - 1)
               /\ IsFiniteSet(Producers) /\ MaxPushes \in Nat
<1>1. Cardinality(Producers) \in Nat
  BY RingAssumption, FS_CardinalityType
<1>2. Size + Cardinality(Producers) < Wrap
  BY <1>1, RingAssumption
<1> QED
  BY <1>1, <1>2, RingAssumption

USE Sizes DEF producerVars, workerVars, Slots

(* The types the argument needs: those of the counters, the states and the *)
(* places of the threads.                                                  *)
RingTypes == /\ head \in 0..(Wrap - 1) /\ tail \in 0..(Wrap - 1)
             /\ state \in [Slots -> {"EMPTY", "STORING", "STORED", "LOADING"}]
             /\ pc \in [Producers -> {"idle", "claimed", "storing"}]
             /\ ticket \in [Producers -> 0..(Wrap - 1)]
             /\ wpc \in {"idle", "test", "asleep", "last_test", "pop", "load",
                         "loading", "answered"}
             /\ wticket \in 0..(Wrap - 1)

(* The state of a slot names the one thread that is in it.  That two       *)
(* producers are never in one slot does not follow from their tickets,     *)
(* which may meet, but from the compare-exchange: a slot is entered EMPTY, *)
(* or STORED by the worker, and left by the one who entered it.            *)
Owners == /\ \A p \in Producers :
                pc[p] = "storing" => state[SlotOf(ticket[p])] = "STORING"
          /\ \A p, q \in Producers :
                /\ pc[p] = "storing" /\ pc[q] = "storing"
                /\ SlotOf(ticket[p]) = SlotOf(ticket[q])
                => p = q
          /\ \A i \in Slots :
                state[i] = "STORING" =>
                    \E p \in Producers : pc[p] = "storing" /\ SlotOf(ticket[p]) = i
          /\ wpc = "loading" => state[SlotOf(wticket)] = "LOADING"
          /\ \A i \in Slots : state[i] = "LOADING" => wpc = "loading" /\ SlotOf(wticket) = i

IInv == RingTypes /\ Owners

(* The slot of a ticket is a slot, and the counters wrap.                  *)
LEMMA SlotOfType == \A t \in Nat : SlotOf(t) \in Slots
  BY DEF SlotOf

LEMMA WrapType == \A t \in 0..(Wrap - 1) : (t + 1) % Wrap \in 0..(Wrap - 1)
  OBVIOUS

LEMMA TicketSlots ==
    RingTypes => /\ \A p \in Producers : SlotOf(ticket[p]) \in Slots
                 /\ SlotOf(wticket) \in Slots
<1> SUFFICES ASSUME RingTypes
             PROVE  /\ \A p \in Producers : SlotOf(ticket[p]) \in Slots
                    /\ SlotOf(wticket) \in Slots
  OBVIOUS
<1>1. \A p \in Producers : ticket[p] \in Nat
  BY DEF RingTypes
<1>2. wticket \in Nat
  BY DEF RingTypes
<1> QED
  BY <1>1, <1>2, SlotOfType

LEMMA InitInv == Init => IInv
  BY DEF Init, IInv, RingTypes, Owners

LEMMA TypeStep == RingTypes /\ [Next]_vars => RingTypes'
<1> SUFFICES ASSUME RingTypes, [Next]_vars PROVE RingTypes'
  OBVIOUS
<1> USE DEF RingTypes
<1>1. ASSUME NEW p \in Producers, Push(p) PROVE RingTypes'
  <2>1. CASE Claim(p)
    BY <2>1, WrapType DEF Claim
  <2>2. CASE BeginStore(p)
    BY <2>2 DEF BeginStore
  <2>3. CASE EndStore(p)
    BY <2>3 DEF EndStore
  <2> QED
    BY <1>1, <2>1, <2>2, <2>3 DEF Push
<1>2. CASE Worker
  <2>1. CASE TakeTicket
    BY <2>1, WrapType DEF TakeTicket
  <2>2. CASE BeginLoad \/ EndLoad
    BY <2>2 DEF BeginLoad, EndLoad
  <2>3. CASE Poll \/ Test \/ Timeout \/ LastTest \/ Return
    BY <2>3 DEF Poll, Test, Timeout, LastTest, Return
  <2> QED
    BY <1>2, <2>1, <2>2, <2>3 DEF Worker
<1>3. CASE SpuriousWakeup
  BY <1>3 DEF SpuriousWakeup
<1>4. CASE UNCHANGED vars
  BY <1>4 DEF vars
<1> QED
  BY <1>1, <1>2, <1>3, <1>4 DEF Next

LEMMA OwnersStep == IInv /\ [Next]_vars => Owners'
<1> SUFFICES ASSUME IInv, [Next]_vars PROVE Owners'
  OBVIOUS
<1>1. /\ \A p \in Producers : SlotOf(ticket[p]) \in Slots
      /\ SlotOf(wticket) \in Slots
  BY TicketSlots DEF IInv
<1> USE DEF IInv, RingTypes, Owners
<1>2. ASSUME NEW p \in Producers, Push(p) PROVE Owners'
  <2>1. CASE Claim(p)
    <3>1. /\ pc' = [pc EXCEPT ![p] = "claimed"] /\ pc[p] = "idle"
          /\ \A q \in Producers \ {p} : ticket'[q] = ticket[q]
          /\ UNCHANGED <<state, wpc, wticket>>
      BY <2>1 DEF Claim
    <3> QED
      BY <3>1
  <2>2. CASE BeginStore(p)
    BY <1>1, <2>2 DEF BeginStore
  <2>3. CASE EndStore(p)
    BY <1>1, <2>3 DEF EndStore
  <2> QED
    BY <1>2, <2>1, <2>2, <2>3 DEF Push
<1>3. CASE Worker
  <2>1. CASE TakeTicket
    BY <2>1 DEF TakeTicket
  <2>2. CASE BeginLoad
    BY <1>1, <2>2 DEF BeginLoad
  <2>3. CASE EndLoad
    BY <1>1, <2>3 DEF EndLoad
  <2>4. CASE Poll \/ Test \/ Timeout \/ LastTest \/ Return
    BY <2>4 DEF Poll, Test, Timeout, LastTest, Return
  <2> QED
    BY <1>3, <2>1, <2>2, <2>3, <2>4 DEF Worker
<1>4. CASE SpuriousWakeup
  BY <1>4 DEF SpuriousWakeup
<1>5. CASE UNCHANGED vars
  BY <1>5 DEF vars
<1> QED
  BY <1>2, <1>3, <1>4, <1>5 DEF Next

(* What the state of each slot says of the threads in it.                  *)
LEMMA OwnersExclusive == IInv => SlotExclusive
<1> SUFFICES ASSUME IInv, NEW i \in Slots
             PROVE  /\ Cardinality(StoringIn(i)) = (IF state[i] = "STORING" THEN 1 ELSE 0)
                    /\ (wpc = "loading" /\ SlotOf(wticket) = i) <=> state[i] = "LOADING"
  BY DEF SlotExclusive
<1> USE DEF IInv, Owners
<1>1. CASE state[i] = "STORING"
  <2>1. PICK p \in Producers : pc[p] = "storing" /\ SlotOf(ticket[p]) = i
    BY <1>1
  <2>2. StoringIn(i) = {p}
    BY <2>1 DEF StoringIn
  <2> QED
    BY <1>1, <2>2, FS_Singleton
<1>2. CASE state[i] # "STORING"
  <2>1. StoringIn(i) = {}
    BY <1>2 DEF StoringIn
  <2> QED
    BY <1>2, <2>1, FS_EmptySet
<1> QED
  BY <1>1, <1>2

(* do_pop_any and do_push_any (atomic_queue.h:203-252): the state byte of  *)
(* a slot lets one thread at a time touch its Process, however many        *)
(* tickets there are for the slot.                                         *)
THEOREM SlotsExclusive == Spec => []SlotExclusive
<1>1. IInv /\ [Next]_vars => IInv'
  BY TypeStep, OwnersStep DEF IInv
<1> QED
  BY <1>1, InitInv, OwnersExclusive, PTL DEF Spec

-----------------------------------------------------------------------------
(* Counters that wrap *)

(* How far the counter t is ahead of tail_                                 *)
Ahead(t) == (t + Wrap - tail) % Wrap

(* Subtraction of unsigned numbers                                         *)
LEMMA Subtract ==
    ASSUME NEW a \in 0..(Wrap - 1), NEW b \in 0..(Wrap - 1)
    PROVE  (a + Wrap - b) % Wrap = IF b <= a THEN a - b ELSE a + Wrap - b
  OBVIOUS

LEMMA Increment ==
    ASSUME NEW a \in 0..(Wrap - 1)
    PROVE  (a + 1) % Wrap = IF a + 1 = Wrap THEN 0 ELSE a + 1
  OBVIOUS

LEMMA Advance ==
    ASSUME NEW a \in 0..(Wrap - 1), NEW k \in 1..Wrap
    PROVE  (a + k - 1) % Wrap = IF a + k - 1 < Wrap THEN a + k - 1 ELSE a + k - 1 - Wrap
  OBVIOUS

LEMMA Division ==
    ASSUME NEW n \in Nat
    PROVE  n % Size = n - Size * (n \div Size) /\ n \div Size \in Int
  OBVIOUS

(* The ring divides the range of the counters, so tickets less than a ring *)
(* apart have different slots, also where the counters wrap.               *)
LEMMA SlotsApart ==
    ASSUME NEW a \in 0..(Wrap - 1), NEW j \in 1..Size, NEW k \in 1..Size, j < k
    PROVE  SlotOf((a + j - 1) % Wrap) # SlotOf((a + k - 1) % Wrap)
<1> DEFINE t == (a + j - 1) % Wrap
           u == (a + k - 1) % Wrap
           rounds == Wrap \div Size
<1>1. Wrap = Size * rounds /\ rounds \in Int
  BY RingAssumption, Division
<1>2. t \in Nat /\ u \in Nat /\ (u - t = k - j \/ u - t = k - j - Wrap)
  BY Advance
<1> HIDE DEF t, u
<1>3. t % Size = t - Size * (t \div Size) /\ t \div Size \in Int
  BY <1>2, Division
<1>4. u % Size = u - Size * (u \div Size) /\ u \div Size \in Int
  BY <1>2, Division
<1> HIDE DEF rounds
<1>5. SUFFICES ASSUME t % Size = u % Size PROVE FALSE
  BY DEF SlotOf, t, u
<1>6. \A m \in Int : Size * m # k - j
  OBVIOUS
<1> DEFINE m == (u \div Size) - (t \div Size)
<1>7. m \in Int /\ Size * m = u - t
  BY <1>2, <1>3, <1>4, <1>5
<1>8. Size * (m + rounds) = u - t + Wrap
  BY <1>1, <1>2, <1>7
<1>9. u - t # k - j
  BY <1>6, <1>7
<1>10. u - t # k - j - Wrap
  <2>1. m + rounds \in Int
    BY <1>1, <1>7
  <2>2. Size * (m + rounds) # k - j
    BY <1>6, <2>1
  <2> QED
    BY <1>2, <1>8, <2>2
<1> QED
  BY <1>2, <1>9, <1>10

-----------------------------------------------------------------------------
(* What is left when a process is handed over *)

LEMMA WithoutOne ==
    ASSUME NEW S, NEW processes \in Seq(S), NEW k \in 1..Len(processes),
           \A i, j \in 1..Len(processes) : processes[i] = processes[j] => i = j
    PROVE  LET rest == Without(processes, processes[k])
           IN /\ rest \in Seq(S) /\ Len(rest) = Len(processes) - 1
              /\ \A i \in 1..Len(rest) : rest[i] = IF i < k THEN processes[i]
                                                            ELSE processes[i + 1]
<1> DEFINE rest == Without(processes, processes[k])
           before == SubSeq(processes, 1, k - 1)
           after == SubSeq(processes, k + 1, Len(processes))
<1>1. rest = RemoveAt(processes, k)
  <2>1. k \in DOMAIN processes /\ DOMAIN processes = 1..Len(processes)
    OBVIOUS
  <2>2. (CHOOSE i \in DOMAIN processes : processes[i] = processes[k]) = k
    BY <2>1
  <2> QED
    BY <2>1, <2>2 DEF Without
<1>2. rest = before \o after
  BY <1>1 DEF RemoveAt
<1>3. before \in Seq(S) /\ Len(before) = k - 1 /\ \A i \in 1..(k - 1) : before[i] = processes[i]
  OBVIOUS
<1>4. /\ after \in Seq(S) /\ Len(after) = Len(processes) - k
      /\ \A i \in 1..(Len(processes) - k) : after[i] = processes[k + i]
  OBVIOUS
<1> HIDE DEF before, after
<1>5. rest \in Seq(S) /\ Len(rest) = Len(processes) - 1
  BY <1>2, <1>3, <1>4
<1>6. ASSUME NEW i \in 1..Len(rest)
      PROVE  rest[i] = IF i < k THEN processes[i] ELSE processes[i + 1]
  <2>1. CASE i < k
    BY <1>2, <1>3, <1>4, <1>5, <2>1
  <2>2. CASE i >= k
    <3>1. i - Len(before) \in 1..Len(after) /\ rest[i] = after[i - Len(before)]
      BY <1>2, <1>3, <1>4, <1>5, <2>2
    <3>2. after[i - Len(before)] = processes[k + (i - (k - 1))]
      BY <1>3, <1>4, <3>1
    <3> QED
      BY <2>2, <3>1, <3>2
  <2> QED
    BY <2>1, <2>2
<1> QED
  BY <1>5, <1>6

-----------------------------------------------------------------------------
(* No process is lost *)

RingContents == /\ slot \in [Slots -> Elements \cup {Nothing}]
                /\ pushes \in [Producers -> 0..MaxPushes]
                /\ value \in Elements \cup {Nothing}
                /\ claimed \in Seq(Elements)
                /\ overfull \in BOOLEAN

(* The process that the producer p is pushing                              *)
InHand(p) == <<p, pushes[p]>>

(* What NoLoss leaves out: a process is claimed once, and no two of the    *)
(* places where the processes are hold the same one.  A producer numbers   *)
(* its pushes, so what it claims next is none of those.                    *)
Once == /\ \A j, k \in 1..Len(claimed) : claimed[j] = claimed[k] => j = k
        /\ \A k \in 1..Len(claimed) : claimed[k][2] <= pushes[claimed[k][1]]
        /\ \A p \in WithProducer : pushes[p] > 0
        /\ \A i \in Full : slot[i] \in Elements
        /\ \A i, j \in Full : slot[i] = slot[j] => i = j
        /\ \A i \in Full, p \in WithProducer : slot[i] # InHand(p)

(* NoLoss: every process claimed is in hand or in a slot, and every one    *)
(* that is there was claimed.                                              *)
Somewhere ==
    /\ \A k \in 1..Len(claimed) : \/ \E p \in WithProducer : claimed[k] = InHand(p)
                                  \/ \E i \in Full : claimed[k] = slot[i]
    /\ \A p \in WithProducer : \E k \in 1..Len(claimed) : claimed[k] = InHand(p)
    /\ \A i \in Full : \E k \in 1..Len(claimed) : claimed[k] = slot[i]

Counted == Len(claimed) = Cardinality(WithProducer) + Cardinality(Full)

Contents == RingContents /\ Once /\ Counted /\ Somewhere

LEMMA FinitePlaces ==
    /\ \A S \in SUBSET Producers : IsFiniteSet(S) /\ Cardinality(S) \in Nat
    /\ \A S \in SUBSET Slots : IsFiniteSet(S) /\ Cardinality(S) \in Nat
    /\ Cardinality(Slots) = Size
<1>1. IsFiniteSet(Slots) /\ Cardinality(Slots) = Size
  <2>1. PICK last \in Nat : last = Size - 1
    OBVIOUS
  <2>2. IsFiniteSet(0..last) /\ Cardinality(0..last) = last + 1
    BY CountUpTo
  <2>3. Slots = 0..last /\ last + 1 = Size
    BY <2>1
  <2> QED
    BY <2>2, <2>3
<1> QED
  BY <1>1, FS_Subset, FS_CardinalityType

LEMMA Places == /\ IsFiniteSet(WithProducer) /\ Cardinality(WithProducer) \in Nat
                /\ IsFiniteSet(Full) /\ Cardinality(Full) \in Nat
  BY FinitePlaces DEF WithProducer, Full

LEMMA NothingLost == Contents => NoLoss
<1> SUFFICES ASSUME Contents PROVE NoLoss
  OBVIOUS
<1>1. ASSUME NEW k \in 1..Len(claimed)
      PROVE  claimed[k] \in {<<p, pushes[p]>> : p \in WithProducer} \cup {slot[i] : i \in Full}
  BY DEF Contents, Somewhere, InHand
<1>2. ASSUME NEW p \in WithProducer
      PROVE  <<p, pushes[p]>> \in {claimed[i] : i \in 1..Len(claimed)}
  BY DEF Contents, Somewhere, InHand
<1>3. ASSUME NEW i \in Full PROVE slot[i] \in {claimed[k] : k \in 1..Len(claimed)}
  BY DEF Contents, Somewhere
<1>4. {claimed[i] : i \in 1..Len(claimed)} =
         {<<p, pushes[p]>> : p \in WithProducer} \cup {slot[i] : i \in Full}
  BY <1>1, <1>2, <1>3
<1> QED
  BY <1>4 DEF NoLoss, Contents, Counted

LEMMA InitContents == Init => Contents
<1> SUFFICES ASSUME Init PROVE Contents
  OBVIOUS
<1> USE DEF Init
<1>1. WithProducer = {} /\ Full = {} /\ Len(claimed) = 0
  BY DEF WithProducer, Full
<1>2. Counted
  BY <1>1, FS_EmptySet DEF Counted
<1>3. RingContents
  <2>1. 0 \in 0..MaxPushes /\ claimed \in Seq(Elements)
    OBVIOUS
  <2>2. slot \in [Slots -> Elements \cup {Nothing}] /\ pushes \in [Producers -> 0..MaxPushes]
    BY <2>1
  <2> QED
    BY <2>1, <2>2 DEF RingContents
<1> HIDE DEF Init
<1>4. Once /\ Somewhere
  BY <1>1 DEF Once, Somewhere
<1> QED
  BY <1>2, <1>3, <1>4 DEF Contents

LEMMA ClaimKeeps ==
    ASSUME IInv, Contents, NEW p \in Producers, Claim(p) PROVE Contents'
<1> DEFINE e == <<p, pushes[p] + 1>>
<1>1. /\ pc \in [Producers -> {"idle", "claimed", "storing"}]
      /\ claimed \in Seq(Elements) /\ pushes \in [Producers -> 0..MaxPushes]
  BY DEF IInv, RingTypes, Contents, RingContents
<1>2. /\ p \notin WithProducer /\ WithProducer' = WithProducer \cup {p}
      /\ Full' = Full
  BY <1>1 DEF Claim, WithProducer, Full
<1>3. /\ pushes' = [pushes EXCEPT ![p] = @ + 1] /\ pushes[p] + 1 \in 1..MaxPushes
      /\ claimed' = Append(claimed, e) /\ slot' = slot /\ value' = value
      /\ overfull' \in BOOLEAN
  BY <1>1 DEF Claim, Contents, RingContents
<1>4. e \in Elements
  BY <1>3 DEF Elements
<1>5. /\ Len(claimed') = Len(claimed) + 1 /\ claimed' \in Seq(Elements)
      /\ claimed'[Len(claimed) + 1] = e
      /\ \A k \in 1..Len(claimed) : claimed'[k] = claimed[k]
  BY <1>1, <1>3, <1>4
<1>6. \A k \in 1..Len(claimed) : claimed[k] # e
  <2> SUFFICES ASSUME NEW k \in 1..Len(claimed), claimed[k] = e PROVE FALSE
    OBVIOUS
  <2>1. claimed[k][2] <= pushes[p]
    BY DEF Contents, Once
  <2> QED
    BY <1>1, <2>1
<1> HIDE DEF e
<1>7. /\ InHand(p)' = e
      /\ \A q \in WithProducer : InHand(q)' = InHand(q) /\ q # p
  BY <1>1, <1>2, <1>3 DEF InHand, WithProducer, e
<1>8. RingContents'
  BY <1>1, <1>3, <1>5 DEF Contents, RingContents
<1>9. Once'
  <2>1. \A j, k \in 1..Len(claimed') : claimed'[j] = claimed'[k] => j = k
    <3>1. /\ Len(claimed) \in Nat
          /\ \A k \in 1..Len(claimed') : k = Len(claimed) + 1 \/ k \in 1..Len(claimed)
      BY <1>1, <1>5
    <3>2. \A j, k \in 1..Len(claimed) : claimed[j] = claimed[k] => j = k
      BY DEF Contents, Once
    <3> QED
      BY <1>5, <1>6, <3>1, <3>2
  <2>2. \A k \in 1..Len(claimed') : claimed'[k][2] <= pushes'[claimed'[k][1]]
    <3> SUFFICES ASSUME NEW k \in 1..Len(claimed')
                 PROVE  claimed'[k][2] <= pushes'[claimed'[k][1]]
      OBVIOUS
    <3>1. CASE k = Len(claimed) + 1
      BY <1>1, <1>3, <1>5, <3>1 DEF e
    <3>2. CASE k \in 1..Len(claimed)
      <4>1. claimed'[k] = claimed[k] /\ claimed[k][2] <= pushes[claimed[k][1]]
        BY <1>5, <3>2 DEF Contents, Once
      <4>2. claimed[k] \in Producers \X (1..MaxPushes)
        BY <1>1, <3>2 DEF Elements
      <4> QED
        BY <1>1, <1>3, <4>1, <4>2
    <3> QED
      BY <1>1, <1>5, <3>1, <3>2
  <2>3. \A q \in WithProducer' : pushes'[q] > 0
    BY <1>1, <1>2, <1>3 DEF Contents, Once, WithProducer
  <2>4. \A i \in Full', q \in WithProducer' : slot'[i] # InHand(q)'
    <3>1. \A i \in Full : slot[i] # e
      BY <1>6 DEF Contents, Somewhere
    <3> QED
      BY <1>2, <1>3, <1>7, <3>1 DEF Contents, Once
  <2> QED
    BY <1>2, <1>3, <2>1, <2>2, <2>3, <2>4 DEF Contents, Once
<1>10. Counted'
  <2>1. Cardinality(WithProducer') = Cardinality(WithProducer) + 1
    BY <1>2, Places, FS_AddElement
  <2> QED
    BY <1>1, <1>2, <1>5, <2>1, Places DEF Contents, Counted
<1>11. Somewhere'
  <2>1. /\ Len(claimed) \in Nat /\ Len(claimed) + 1 \in 1..Len(claimed')
        /\ 1..Len(claimed) \subseteq 1..Len(claimed')
    BY <1>1, <1>5
  <2>2. \A k \in 1..Len(claimed') : \/ \E q \in WithProducer' : claimed'[k] = InHand(q)'
                                    \/ \E i \in Full' : claimed'[k] = slot'[i]
    <3> SUFFICES ASSUME NEW k \in 1..Len(claimed')
                 PROVE  \/ \E q \in WithProducer' : claimed'[k] = InHand(q)'
                        \/ \E i \in Full' : claimed'[k] = slot'[i]
      OBVIOUS
    <3>1. CASE k = Len(claimed) + 1
      BY <1>2, <1>5, <1>7, <3>1
    <3>2. CASE k \in 1..Len(claimed)
      BY <1>2, <1>3, <1>5, <1>7, <3>2 DEF Contents, Somewhere
    <3> QED
      BY <1>5, <2>1, <3>1, <3>2
  <2>3. \A q \in WithProducer' : \E k \in 1..Len(claimed') : claimed'[k] = InHand(q)'
    BY <1>2, <1>5, <1>7, <2>1 DEF Contents, Somewhere
  <2>4. \A i \in Full' : \E k \in 1..Len(claimed') : claimed'[k] = slot'[i]
    BY <1>2, <1>3, <1>5, <2>1 DEF Contents, Somewhere
  <2> QED
    BY <2>2, <2>3, <2>4 DEF Somewhere
<1> QED
  BY <1>8, <1>9, <1>10, <1>11 DEF Contents

(* Steps that move no process                                              *)
LEMMA NothingMoves ==
    ASSUME Contents, UNCHANGED <<slot, pushes, claimed, overfull>>,
           WithProducer' = WithProducer, Full' = Full, value' \in {value, Nothing}
    PROVE  Contents'
<1>1. \A p : InHand(p)' = InHand(p)
  BY DEF InHand
<1>2. RingContents'
  BY DEF Contents, RingContents
<1>3. Once' /\ Somewhere'
  BY <1>1 DEF Contents, Once, Somewhere
<1>4. Counted'
  BY DEF Contents, Counted
<1> QED
  BY <1>2, <1>3, <1>4 DEF Contents

(* The process goes from the hand of the producer to the slot, which       *)
(* nobody else touches.                                                    *)
LEMMA EndStoreKeeps ==
    ASSUME IInv, Contents, NEW p \in Producers, EndStore(p) PROVE Contents'
<1> DEFINE i == SlotOf(ticket[p])
<1>1. /\ i \in Slots /\ state[i] = "STORING"
      /\ state \in [Slots -> {"EMPTY", "STORING", "STORED", "LOADING"}]
      /\ pc \in [Producers -> {"idle", "claimed", "storing"}]
      /\ claimed \in Seq(Elements) /\ pushes \in [Producers -> 0..MaxPushes]
      /\ slot \in [Slots -> Elements \cup {Nothing}]
  BY TicketSlots DEF IInv, RingTypes, Owners, EndStore, Contents, RingContents
<1>2. /\ slot' = [slot EXCEPT ![i] = InHand(p)] /\ state' = [state EXCEPT ![i] = "STORED"]
      /\ pc[p] = "storing" /\ pc' = [pc EXCEPT ![p] = "idle"]
      /\ UNCHANGED <<pushes, claimed, value, overfull>>
  BY DEF EndStore, InHand
<1> HIDE DEF i
<1>3. p \in WithProducer /\ WithProducer' = WithProducer \ {p}
  BY <1>1, <1>2 DEF WithProducer
<1>4. i \notin Full /\ Full' = Full \cup {i}
  BY <1>1, <1>2 DEF Full
<1>5. /\ slot'[i] = InHand(p) /\ \A j \in Full : slot'[j] = slot[j]
      /\ \A q : InHand(q)' = InHand(q)
  BY <1>1, <1>2, <1>4 DEF Full, InHand
<1>6. InHand(p) \in Elements
  <2>1. pushes[p] \in 1..MaxPushes
    BY <1>1, <1>3 DEF Contents, Once
  <2> QED
    BY <2>1 DEF InHand, Elements
<1>7. RingContents'
  BY <1>1, <1>2, <1>6 DEF Contents, RingContents
<1>8. Once'
  <2>1. \A j \in Full : slot[j] # InHand(p)
    BY <1>3 DEF Contents, Once
  <2>2. \A q \in WithProducer' : InHand(q) # InHand(p)
    BY <1>3 DEF InHand
  <2>3. /\ \A j \in Full' : slot'[j] \in Elements
        /\ \A j, h \in Full' : slot'[j] = slot'[h] => j = h
    BY <1>4, <1>5, <1>6, <2>1 DEF Contents, Once
  <2>4. \A j \in Full', q \in WithProducer' : slot'[j] # InHand(q)'
    BY <1>3, <1>4, <1>5, <2>2 DEF Contents, Once
  <2> QED
    BY <1>2, <1>3, <2>3, <2>4 DEF Contents, Once
<1>9. Counted'
  <2>1. Cardinality(WithProducer') = Cardinality(WithProducer) - 1
    BY <1>3, Places, FS_RemoveElement
  <2>2. Cardinality(Full') = Cardinality(Full) + 1
    BY <1>4, Places, FS_AddElement
  <2> QED
    BY <1>2, <2>1, <2>2, Places DEF Contents, Counted
<1>10. Somewhere'
  BY <1>2, <1>3, <1>4, <1>5 DEF Contents, Somewhere
<1> QED
  BY <1>7, <1>8, <1>9, <1>10 DEF Contents

(* The process that the worker takes out is the one it took the state of,  *)
(* and the only one of its kind.                                           *)
LEMMA EndLoadKeeps ==
    ASSUME IInv, Contents, EndLoad PROVE Contents'
<1> DEFINE i == SlotOf(wticket)
           e == slot[i]
<1>1. /\ i \in Slots /\ state[i] = "LOADING" /\ i \in Full
      /\ state \in [Slots -> {"EMPTY", "STORING", "STORED", "LOADING"}]
      /\ claimed \in Seq(Elements)
      /\ slot \in [Slots -> Elements \cup {Nothing}]
  BY TicketSlots DEF IInv, RingTypes, Owners, EndLoad, Contents, RingContents, Full
<1>2. /\ slot' = [slot EXCEPT ![i] = Nothing] /\ state' = [state EXCEPT ![i] = "EMPTY"]
      /\ claimed' = Without(claimed, e) /\ value' = e
      /\ UNCHANGED <<pushes, pc, overfull>>
  BY DEF EndLoad
<1> HIDE DEF i
<1>3. WithProducer' = WithProducer /\ Full' = Full \ {i}
  BY <1>1, <1>2 DEF WithProducer, Full
<1>4. /\ \A j \in Full' : slot'[j] = slot[j] /\ slot[j] # e
      /\ \A q : InHand(q)' = InHand(q)
  BY <1>1, <1>2, <1>3 DEF Full, InHand, Contents, Once
<1> HIDE DEF e
<1>5. e \in Elements /\ \A q \in WithProducer : InHand(q) # e
  BY <1>1 DEF Contents, Once, e
<1>6. PICK k \in 1..Len(claimed) : claimed[k] = e
  BY <1>1 DEF Contents, Somewhere, e
<1>7. /\ claimed' \in Seq(Elements) /\ Len(claimed') = Len(claimed) - 1
      /\ \A j \in 1..Len(claimed') : claimed'[j] = IF j < k THEN claimed[j]
                                                           ELSE claimed[j + 1]
  <2>1. \A a, b \in 1..Len(claimed) : claimed[a] = claimed[b] => a = b
    BY DEF Contents, Once
  <2>2. claimed' = Without(claimed, claimed[k])
    BY <1>2, <1>6
  <2> QED
    BY <1>1, <2>1, <2>2, WithoutOne
<1>8. /\ \A j \in 1..Len(claimed') : \E h \in 1..Len(claimed) :
            h # k /\ claimed'[j] = claimed[h] /\ h = IF j < k THEN j ELSE j + 1
      /\ \A h \in 1..Len(claimed) : h # k => \E j \in 1..Len(claimed') :
            claimed'[j] = claimed[h]
  <2>1. Len(claimed) \in Nat /\ Len(claimed') \in Nat
    BY <1>1, <1>7
  <2>2. ASSUME NEW j \in 1..Len(claimed')
        PROVE  \E h \in 1..Len(claimed) :
                  h # k /\ claimed'[j] = claimed[h] /\ h = IF j < k THEN j ELSE j + 1
    BY <1>7, <2>1
  <2>3. ASSUME NEW h \in 1..Len(claimed), h # k
        PROVE  \E j \in 1..Len(claimed') : claimed'[j] = claimed[h]
    <3>1. CASE h < k
      BY <1>7, <2>1, <3>1
    <3>2. CASE h > k
      <4>1. h - 1 \in 1..Len(claimed') /\ ~(h - 1 < k) /\ (h - 1) + 1 = h
        BY <1>7, <2>1, <3>2
      <4> QED
        BY <1>7, <4>1
    <3> QED
      BY <2>1, <2>3, <3>1, <3>2
  <2> QED
    BY <2>2, <2>3
<1>9. RingContents'
  BY <1>1, <1>2, <1>5, <1>7 DEF Contents, RingContents
<1>10. Once'
  <2>1. \A j, h \in 1..Len(claimed') : claimed'[j] = claimed'[h] => j = h
    <3> SUFFICES ASSUME NEW j \in 1..Len(claimed'), NEW h \in 1..Len(claimed'),
                        claimed'[j] = claimed'[h]
                 PROVE  j = h
      OBVIOUS
    <3>1. PICK a \in 1..Len(claimed) : claimed'[j] = claimed[a] /\ a = IF j < k THEN j ELSE j + 1
      BY <1>8
    <3>2. PICK b \in 1..Len(claimed) : claimed'[h] = claimed[b] /\ b = IF h < k THEN h ELSE h + 1
      BY <1>8
    <3>3. a = b
      BY <3>1, <3>2 DEF Contents, Once
    <3> QED
      BY <3>1, <3>2, <3>3
  <2>2. \A j \in 1..Len(claimed') : claimed'[j][2] <= pushes'[claimed'[j][1]]
    <3> SUFFICES ASSUME NEW j \in 1..Len(claimed')
                 PROVE  claimed'[j][2] <= pushes'[claimed'[j][1]]
      OBVIOUS
    <3>1. PICK h \in 1..Len(claimed) : claimed'[j] = claimed[h]
      BY <1>8
    <3> QED
      BY <1>2, <3>1 DEF Contents, Once
  <2> QED
    BY <1>2, <1>3, <1>4, <2>1, <2>2 DEF Contents, Once
<1>11. Counted'
  <2>1. Cardinality(Full') = Cardinality(Full) - 1
    BY <1>1, <1>3, Places, FS_RemoveElement
  <2> QED
    BY <1>1, <1>3, <1>7, <2>1, Places DEF Contents, Counted
<1>12. Somewhere'
  <2>1. \A j \in 1..Len(claimed') : claimed'[j] # e
    BY <1>6, <1>8 DEF Contents, Once
  <2>2. \A j \in 1..Len(claimed') : \/ \E q \in WithProducer' : claimed'[j] = InHand(q)'
                                    \/ \E h \in Full' : claimed'[j] = slot'[h]
    <3> SUFFICES ASSUME NEW j \in 1..Len(claimed')
                 PROVE  \/ \E q \in WithProducer' : claimed'[j] = InHand(q)'
                        \/ \E h \in Full' : claimed'[j] = slot'[h]
      OBVIOUS
    <3>1. PICK h \in 1..Len(claimed) : claimed'[j] = claimed[h]
      BY <1>8
    <3>2. CASE \E q \in WithProducer : claimed[h] = InHand(q)
      BY <1>3, <1>4, <3>1, <3>2
    <3>3. CASE \E a \in Full : claimed[h] = slot[a]
      BY <1>3, <1>4, <2>1, <3>1, <3>3 DEF e
    <3> QED
      BY <3>2, <3>3 DEF Contents, Somewhere
  <2>3. \A q \in WithProducer' : \E j \in 1..Len(claimed') : claimed'[j] = InHand(q)'
    <3> SUFFICES ASSUME NEW q \in WithProducer'
                 PROVE  \E j \in 1..Len(claimed') : claimed'[j] = InHand(q)'
      OBVIOUS
    <3>1. InHand(q)' = InHand(q) /\ InHand(q) # e /\ q \in WithProducer
      BY <1>3, <1>4, <1>5
    <3>2. PICK a \in 1..Len(claimed) : claimed[a] = InHand(q)
      BY <3>1 DEF Contents, Somewhere
    <3> QED
      BY <1>6, <1>8, <3>1, <3>2
  <2>4. \A h \in Full' : \E j \in 1..Len(claimed') : claimed'[j] = slot'[h]
    <3> SUFFICES ASSUME NEW h \in Full'
                 PROVE  \E j \in 1..Len(claimed') : claimed'[j] = slot'[h]
      OBVIOUS
    <3>1. slot'[h] = slot[h] /\ slot[h] # e /\ h \in Full
      BY <1>3, <1>4
    <3>2. PICK a \in 1..Len(claimed) : claimed[a] = slot[h]
      BY <3>1 DEF Contents, Somewhere
    <3> QED
      BY <1>6, <1>8, <3>1, <3>2
  <2> QED
    BY <2>2, <2>3, <2>4 DEF Somewhere
<1> QED
  BY <1>9, <1>10, <1>11, <1>12 DEF Contents

LEMMA ContentsStep == IInv /\ Contents /\ [Next]_vars => Contents'
<1> SUFFICES ASSUME IInv, Contents, [Next]_vars PROVE Contents'
  OBVIOUS
<1>1. ASSUME NEW p \in Producers, Push(p) PROVE Contents'
  <2>1. CASE BeginStore(p)
    <3>1. WithProducer' = WithProducer
      BY <2>1 DEF BeginStore, WithProducer, IInv, RingTypes
    <3>2. Full' = Full
      BY <2>1, TicketSlots DEF BeginStore, Full, IInv, RingTypes
    <3> QED
      BY <2>1, <3>1, <3>2, NothingMoves DEF BeginStore
  <2> QED
    BY <1>1, <2>1, ClaimKeeps, EndStoreKeeps DEF Push
<1>2. CASE BeginLoad
  <2>1. Full' = Full
    BY <1>2, TicketSlots DEF BeginLoad, Full, IInv, RingTypes
  <2> QED
    BY <1>2, <2>1, NothingMoves DEF BeginLoad, WithProducer
<1>3. CASE Poll \/ Test \/ Timeout \/ LastTest \/ TakeTicket \/ Return \/ SpuriousWakeup
           \/ UNCHANGED vars
  BY <1>3, NothingMoves
     DEF Poll, Test, Timeout, LastTest, TakeTicket, Return, SpuriousWakeup, vars,
         WithProducer, Full
<1> QED
  BY <1>1, <1>2, <1>3, EndLoadKeeps DEF Next, Worker

LEMMA ContentsAlways == Spec => [](IInv /\ Contents)
<1>1. IInv /\ [Next]_vars => IInv'
  BY TypeStep, OwnersStep DEF IInv
<1> QED
  BY <1>1, InitInv, InitContents, ContentsStep, PTL DEF Spec

(* The variables of the ring keep their types.                             *)
THEOREM RingTypeCorrect == Spec => []TypeOK
<1>1. IInv /\ Contents => TypeOK
  BY DEF IInv, RingTypes, Contents, RingContents, TypeOK
<1> QED
  BY <1>1, ContentsAlways, PTL

(* A process that was claimed is with its producer or in one slot until it *)
(* is handed over, whatever the interleaving of pushes, also when more of  *)
(* them are under way than the ring has slots (atomic_queue.h:203-252).    *)
THEOREM NothingLostInRing == Spec => []NoLoss
  BY ContentsAlways, NothingLost, PTL

-----------------------------------------------------------------------------
(* The worker never waits for a slot that nobody fills *)

Loading == wpc \in {"load", "loading"}

One(b) == IF b THEN 1 ELSE 0

(* Tickets that nobody has taken yet, and producers that wait for the slot *)
(* i or store in it                                                        *)
Untaken(i) == {t \in 0..(Wrap - 1) : Ahead(t) < Ahead(head) /\ SlotOf(t) = i}
Waiting(i) == {p \in WithProducer : SlotOf(ticket[p]) = i}

(* The counters tell how many processes there are, up to the one the       *)
(* worker has a ticket for.                                                *)
Distance == Len(claimed) = Ahead(head) + One(Loading)

(* When the ring is overfull, the producers of one slot may store in       *)
(* another order than that of their tickets, so a ticket does not say who  *)
(* fills its slot.  But the slot is filled as often as there are tickets.  *)
Balanced == \A i \in Slots :
               Cardinality(Waiting(i)) + One(i \in Full)
                  = Cardinality(Untaken(i)) + One(Loading /\ SlotOf(wticket) = i)

Balance == Distance /\ Balanced

LEMMA OneType == \A b \in BOOLEAN : One(b) \in {0, 1}
  BY DEF One

LEMMA AheadValue ==
    ASSUME RingTypes, NEW t \in 0..(Wrap - 1)
    PROVE  Ahead(t) = IF tail <= t THEN t - tail ELSE t + Wrap - tail
  BY Subtract DEF Ahead, RingTypes

LEMMA AheadType ==
    ASSUME RingTypes, NEW t \in 0..(Wrap - 1) PROVE Ahead(t) \in 0..(Wrap - 1)
  BY AheadValue DEF RingTypes

LEMMA AheadInjective ==
    ASSUME RingTypes, NEW t \in 0..(Wrap - 1), NEW u \in 0..(Wrap - 1), Ahead(t) = Ahead(u)
    PROVE  t = u
  BY AheadValue DEF RingTypes

LEMMA FiniteTickets ==
    /\ \A i : IsFiniteSet(Untaken(i)) /\ Cardinality(Untaken(i)) \in Nat
    /\ \A i : IsFiniteSet(Waiting(i)) /\ Cardinality(Waiting(i)) \in Nat
<1>1. PICK last \in Nat : last = Wrap - 1
  OBVIOUS
<1>2. IsFiniteSet(0..(Wrap - 1))
  BY <1>1, CountUpTo
<1>3. ASSUME NEW i PROVE IsFiniteSet(Untaken(i)) /\ IsFiniteSet(Waiting(i))
  <2>1. Untaken(i) \in SUBSET (0..(Wrap - 1)) /\ Waiting(i) \in SUBSET Producers
    BY DEF Untaken, Waiting, WithProducer
  <2> QED
    BY <1>2, <2>1, FS_Subset, FinitePlaces
<1> QED
  BY <1>3, FS_CardinalityType

LEMMA Half == Wrap \div 2 \in Nat /\ Wrap \div 2 < Wrap
  OBVIOUS

(* Each process is with a producer or in a slot of its own, so the         *)
(* difference of the counters stays positive as a signed number.           *)
LEMMA FewEnough ==
    ASSUME NEW W \in SUBSET Producers, NEW F \in SUBSET Slots
    PROVE  Cardinality(W) + Cardinality(F) < Wrap \div 2
<1>1. /\ Cardinality(W) <= Cardinality(Producers) /\ Cardinality(Producers) \in Nat
      /\ Cardinality(F) <= Size
      /\ Cardinality(W) \in Nat /\ Cardinality(F) \in Nat
  BY FinitePlaces, FS_Subset, FS_CardinalityType
<1> QED
  BY <1>1, RingAssumption

LEMMA LenBounded == Contents => Len(claimed) \in Nat /\ Len(claimed) < Wrap \div 2
<1>1. WithProducer \in SUBSET Producers /\ Full \in SUBSET Slots
  BY DEF WithProducer, Full
<1> QED
  BY <1>1, FewEnough DEF Contents, RingContents, Counted

LEMMA WasEmptyMeans ==
    ASSUME RingTypes, Contents, Distance
    PROVE  /\ WasEmpty <=> Ahead(head) = 0
           /\ Ahead(head) \in 0..(Wrap - 1)
<1>1. Ahead(head) \in 0..(Wrap - 1)
  BY AheadValue DEF RingTypes
<1>2. Ahead(head) < Wrap \div 2
  BY <1>1, LenBounded DEF Distance, One
<1>3. WasSize = Ahead(head)
  BY <1>1, <1>2 DEF WasSize, Ahead
<1> QED
  BY <1>1, <1>3 DEF WasEmpty

LEMMA InitBalance == Init => Balance
<1> SUFFICES ASSUME Init PROVE Balance
  OBVIOUS
<1>1. RingTypes
  BY InitInv DEF IInv
<1>2. Ahead(head) = 0 /\ ~Loading /\ Len(claimed) = 0
  BY <1>1, AheadValue DEF Init, Loading, RingTypes
<1>3. ASSUME NEW i \in Slots
      PROVE  Waiting(i) = {} /\ Untaken(i) = {} /\ i \notin Full
  <2>1. Waiting(i) = {} /\ i \notin Full
    BY DEF Init, Waiting, WithProducer, Full
  <2>2. \A t \in 0..(Wrap - 1) : ~(Ahead(t) < Ahead(head))
    BY <1>1, <1>2, AheadValue DEF RingTypes
  <2> QED
    BY <2>1, <2>2 DEF Untaken
<1>4. Balanced
  BY <1>2, <1>3, FS_EmptySet DEF Balanced, One
<1> QED
  BY <1>2, <1>4 DEF Balance, Distance, One

(* Steps that take no ticket and move no process between hands and slots   *)
LEMMA BalanceKept ==
    ASSUME Balance, UNCHANGED <<head, tail, ticket, wticket, Loading>>,
           Len(claimed') = Len(claimed), WithProducer' = WithProducer, Full' = Full
    PROVE  Balance'
<1>1. \A t : Ahead(t)' = Ahead(t)
  BY DEF Ahead
<1>2. \A i : Untaken(i)' = Untaken(i) /\ Waiting(i)' = Waiting(i)
  BY <1>1 DEF Untaken, Waiting, SlotOf
<1> QED
  BY <1>1, <1>2 DEF Balance, Distance, Balanced, SlotOf

LEMMA ClaimBalances ==
    ASSUME IInv, Contents, Contents', Balance, NEW p \in Producers, Claim(p)
    PROVE  Balance'
<1>1. /\ RingTypes /\ head \in 0..(Wrap - 1) /\ tail \in 0..(Wrap - 1)
      /\ ticket \in [Producers -> 0..(Wrap - 1)]
  BY DEF IInv, RingTypes
<1>2. /\ head' = (head + 1) % Wrap /\ ticket' = [ticket EXCEPT ![p] = head]
      /\ UNCHANGED <<tail, wpc, wticket>>
      /\ p \notin WithProducer /\ WithProducer' = WithProducer \cup {p}
      /\ Full' = Full
  BY DEF Claim, WithProducer, Full, IInv, RingTypes
<1>3. Len(claimed') = Len(claimed) + 1 /\ Len(claimed) \in Nat
  BY DEF Claim, Contents, RingContents
<1>4. Ahead(head)' = Ahead(head) + 1
  <2>1. Ahead(head)' = (head' + Wrap - tail) % Wrap
    BY <1>2 DEF Ahead
  <2>2. Len(claimed') < Wrap \div 2
    <3>1. WithProducer' \in SUBSET Producers /\ Full' \in SUBSET Slots
      BY DEF WithProducer, Full
    <3> QED
      BY <3>1, FewEnough DEF Contents, Counted
  <2>3. Ahead(head) + 1 < Wrap /\ Ahead(head) \in Nat
    <3>1. Ahead(head) \in Nat /\ Ahead(head) <= Len(claimed)
      BY <1>1, <1>3, AheadValue DEF Balance, Distance, One
    <3> QED
      BY <1>3, <2>2, <3>1, Half
  <2>4. head' \in 0..(Wrap - 1)
    BY <1>1, <1>2, WrapType
  <2>5. Ahead(head)' = IF tail <= head' THEN head' - tail ELSE head' + Wrap - tail
    BY <1>1, <2>1, <2>4, Subtract
  <2>6. Ahead(head) = IF tail <= head THEN head - tail ELSE head + Wrap - tail
    BY <1>1, AheadValue
  <2>7. head' = IF head + 1 = Wrap THEN 0 ELSE head + 1
    BY <1>1, <1>2, Increment
  <2> QED
    BY <1>1, <2>3, <2>5, <2>6, <2>7
<1>5. Distance'
  <2>1. One(Loading)' = One(Loading) /\ One(Loading) \in {0, 1}
    BY <1>2 DEF One, Loading
  <2>2. Ahead(head) \in Nat
    BY <1>1, AheadType
  <2> QED
    BY <1>3, <1>4, <2>1, <2>2 DEF Balance, Distance
<1>6. ASSUME NEW i \in Slots
      PROVE  /\ Untaken(i)' = IF i = SlotOf(head) THEN Untaken(i) \cup {head} ELSE Untaken(i)
             /\ head \notin Untaken(i)
  <2>1. ASSUME NEW t \in 0..(Wrap - 1)
        PROVE  (t + Wrap - tail') % Wrap < Ahead(head)' <=> Ahead(t) < Ahead(head) \/ t = head
    <3>1. (t + Wrap - tail') % Wrap = Ahead(t)
      BY <1>2 DEF Ahead
    <3> QED
      BY <1>1, <1>4, <3>1, AheadType, AheadInjective
  <2>2. head \notin Untaken(i)
    BY <1>1, AheadType DEF Untaken
  <2>3. Untaken(i)' = {t \in 0..(Wrap - 1) :
                          (t + Wrap - tail') % Wrap < Ahead(head)' /\ SlotOf(t) = i}
    BY DEF Untaken, Ahead, SlotOf
  <2> QED
    BY <1>1, <2>1, <2>2, <2>3 DEF Untaken
<1>7. ASSUME NEW i \in Slots
      PROVE  /\ Waiting(i)' = IF i = SlotOf(head) THEN Waiting(i) \cup {p} ELSE Waiting(i)
             /\ p \notin Waiting(i)
  <2>1. \A q \in WithProducer : q \in Producers /\ ticket'[q] = ticket[q]
    BY <1>1, <1>2 DEF WithProducer
  <2>2. ticket'[p] = head
    BY <1>1, <1>2
  <2> QED
    BY <1>2, <2>1, <2>2 DEF Waiting, SlotOf
<1>8. ASSUME NEW i \in Slots
      PROVE  (Cardinality(Waiting(i)) + One(i \in Full)
                 = Cardinality(Untaken(i)) + One(Loading /\ SlotOf(wticket) = i))'
  <2>1. /\ Cardinality(Waiting(i)) + One(i \in Full)
              = Cardinality(Untaken(i)) + One(Loading /\ SlotOf(wticket) = i)
        /\ One(i \in Full)' = One(i \in Full)
        /\ One(Loading /\ SlotOf(wticket) = i)' = One(Loading /\ SlotOf(wticket) = i)
    BY <1>2 DEF Balance, Balanced, One, Loading, SlotOf
  <2>2. One(i \in Full) \in {0, 1} /\ One(Loading /\ SlotOf(wticket) = i) \in {0, 1}
    BY DEF One
  <2>3. CASE i = SlotOf(head)
    <3>1. Cardinality(Untaken(i)') = Cardinality(Untaken(i)) + 1
      <4>1. Untaken(i)' = Untaken(i) \cup {head} /\ head \notin Untaken(i)
        BY <1>6, <2>3
      <4> QED
        BY <4>1, FiniteTickets, FS_AddElement
    <3>2. Cardinality(Waiting(i)') = Cardinality(Waiting(i)) + 1
      <4>1. Waiting(i)' = Waiting(i) \cup {p} /\ p \notin Waiting(i)
        BY <1>7, <2>3
      <4> QED
        BY <4>1, FiniteTickets, FS_AddElement
    <3> QED
      BY <2>1, <2>2, <3>1, <3>2, FiniteTickets
  <2>4. CASE i # SlotOf(head)
    BY <1>6, <1>7, <2>1, <2>4
  <2> QED
    BY <2>3, <2>4
<1> QED
  BY <1>5, <1>8 DEF Balance, Balanced

LEMMA EndStoreBalances ==
    ASSUME IInv, Balance, NEW p \in Producers, EndStore(p)
    PROVE  Balance'
<1> DEFINE here == SlotOf(ticket[p])
<1>1. /\ here \in Slots /\ state[here] = "STORING" /\ pc[p] = "storing"
      /\ state \in [Slots -> {"EMPTY", "STORING", "STORED", "LOADING"}]
      /\ pc \in [Producers -> {"idle", "claimed", "storing"}]
  BY TicketSlots DEF EndStore, IInv, RingTypes, Owners
<1>2. /\ state' = [state EXCEPT ![here] = "STORED"] /\ pc' = [pc EXCEPT ![p] = "idle"]
      /\ UNCHANGED <<head, tail, ticket, wpc, wticket, claimed>>
  BY DEF EndStore
<1> HIDE DEF here
<1>3. /\ p \in WithProducer /\ WithProducer' = WithProducer \ {p}
      /\ here \notin Full /\ Full' = Full \cup {here}
  BY <1>1, <1>2 DEF WithProducer, Full
<1>4. Distance'
  BY <1>2 DEF Balance, Distance, Ahead, Loading
<1>5. \A i : Untaken(i)' = Untaken(i) /\ Loading' = Loading
  BY <1>2 DEF Untaken, Ahead, Loading
<1>6. ASSUME NEW i \in Slots
      PROVE  (Cardinality(Waiting(i)) + One(i \in Full)
                 = Cardinality(Untaken(i)) + One(Loading /\ SlotOf(wticket) = i))'
  <2>1. /\ Cardinality(Waiting(i)) + One(i \in Full)
              = Cardinality(Untaken(i)) + One(Loading /\ SlotOf(wticket) = i)
        /\ One(Loading /\ SlotOf(wticket) = i)' = One(Loading /\ SlotOf(wticket) = i)
    BY <1>2, <1>5 DEF Balance, Balanced, One, SlotOf
  <2>2. Waiting(i)' = Waiting(i) \ {p} /\ (p \in Waiting(i) <=> i = here)
    BY <1>2, <1>3 DEF Waiting, SlotOf, here
  <2>3. CASE i = here
    <3>1. Cardinality(Waiting(i)') = Cardinality(Waiting(i)) - 1
      BY <2>2, <2>3, FiniteTickets, FS_RemoveElement
    <3>2. One(i \in Full) = 0 /\ One(i \in Full)' = 1
      BY <1>3, <2>3 DEF One
    <3>3. Cardinality(Waiting(i)') + One(i \in Full)' = Cardinality(Waiting(i)) + One(i \in Full)
      BY <3>1, <3>2, FiniteTickets
    <3> QED
      BY <1>5, <2>1, <3>3
  <2>4. CASE i # here
    <3>1. Waiting(i)' = Waiting(i)
      BY <2>2, <2>4
    <3>2. One(i \in Full)' = One(i \in Full)
      BY <1>3, <2>4 DEF One
    <3> QED
      BY <1>5, <2>1, <3>1, <3>2
  <2> QED
    BY <2>3, <2>4
<1> QED
  BY <1>4, <1>6 DEF Balance, Balanced

LEMMA EndLoadBalances ==
    ASSUME IInv, Contents, Contents', Balance, EndLoad
    PROVE  Balance'
<1> DEFINE here == SlotOf(wticket)
<1>1. /\ here \in Slots /\ state[here] = "LOADING" /\ wpc = "loading"
      /\ state \in [Slots -> {"EMPTY", "STORING", "STORED", "LOADING"}]
  BY TicketSlots DEF EndLoad, IInv, RingTypes, Owners
<1>2. /\ state' = [state EXCEPT ![here] = "EMPTY"] /\ wpc' = "answered"
      /\ UNCHANGED <<head, tail, ticket, pc, wticket>>
  BY DEF EndLoad
<1> HIDE DEF here
<1>3. /\ WithProducer' = WithProducer
      /\ here \in Full /\ Full' = Full \ {here}
      /\ Loading /\ ~Loading'
  BY <1>1, <1>2 DEF WithProducer, Full, Loading
<1>4. \A i : Untaken(i)' = Untaken(i) /\ Waiting(i)' = Waiting(i)
  BY <1>2, <1>3 DEF Untaken, Ahead, Waiting, SlotOf
<1>5. Distance'
  <2>1. Cardinality(Full') = Cardinality(Full) - 1
    BY <1>3, Places, FS_RemoveElement
  <2>2. Len(claimed') = Len(claimed) - 1
    BY <1>3, <2>1, Places DEF Contents, Counted
  <2>3. Ahead(head)' = Ahead(head) /\ Ahead(head) \in Nat
    BY <1>2, AheadType DEF Ahead, IInv, RingTypes
  <2>4. One(Loading) = 1 /\ One(Loading)' = 0
    BY <1>3 DEF One
  <2> QED
    BY <2>2, <2>3, <2>4 DEF Balance, Distance
<1>6. ASSUME NEW i \in Slots
      PROVE  (Cardinality(Waiting(i)) + One(i \in Full)
                 = Cardinality(Untaken(i)) + One(Loading /\ SlotOf(wticket) = i))'
  <2>1. Cardinality(Waiting(i)) + One(i \in Full)
           = Cardinality(Untaken(i)) + One(Loading /\ SlotOf(wticket) = i)
    BY DEF Balance, Balanced
  <2>2. One(Loading /\ SlotOf(wticket) = i)' = 0
    BY <1>3 DEF One
  <2>3. CASE i = here
    <3>1. One(i \in Full) = 1 /\ One(i \in Full)' = 0
      BY <1>3, <2>3 DEF One
    <3>2. One(Loading /\ SlotOf(wticket) = i) = 1
      BY <1>3, <2>3 DEF One, here
    <3> QED
      BY <1>4, <2>1, <2>2, <3>1, <3>2, FiniteTickets
  <2>4. CASE i # here
    <3>1. One(i \in Full)' = One(i \in Full)
      BY <1>3, <2>4 DEF One
    <3>2. One(Loading /\ SlotOf(wticket) = i) = 0
      BY <2>4 DEF One, here
    <3> QED
      BY <1>4, <2>1, <2>2, <3>1, <3>2
  <2> QED
    BY <2>3, <2>4
<1> QED
  BY <1>5, <1>6 DEF Balance, Balanced

LEMMA TakeTicketBalances ==
    ASSUME IInv, Contents, Balance, TakeTicket
    PROVE  Balance'
<1>1. /\ RingTypes /\ head \in 0..(Wrap - 1) /\ tail \in 0..(Wrap - 1)
      /\ wpc = "pop" /\ ~Loading
      /\ UNCHANGED <<head, ticket, claimed>>
      /\ WithProducer' = WithProducer /\ Full' = Full
  BY DEF IInv, RingTypes, TakeTicket, Loading, WithProducer, Full
<1>2. CASE WasEmpty
  <2>1. UNCHANGED <<tail, wticket, Loading>>
    BY <1>1, <1>2 DEF TakeTicket, Loading
  <2> QED
    BY <1>1, <2>1, BalanceKept
<1>3. CASE ~WasEmpty
  <2>1. /\ wticket' = tail /\ tail' = (tail + 1) % Wrap /\ Loading'
    BY <1>3 DEF TakeTicket, Loading
  <2>2. Ahead(head) \in 1..(Wrap - 1)
    BY <1>1, <1>3, WasEmptyMeans DEF Balance
  <2>3. ASSUME NEW t \in 0..(Wrap - 1)
        PROVE  (t + Wrap - tail') % Wrap = IF t = tail THEN Wrap - 1 ELSE Ahead(t) - 1
    <3>1. tail' \in 0..(Wrap - 1) /\ tail' = IF tail + 1 = Wrap THEN 0 ELSE tail + 1
      BY <1>1, <2>1, WrapType, Increment
    <3>2. (t + Wrap - tail') % Wrap = IF tail' <= t THEN t - tail' ELSE t + Wrap - tail'
      BY <3>1, Subtract
    <3> QED
      BY <1>1, <3>1, <3>2, AheadValue
  <2>4. Ahead(tail) = 0
    BY <1>1, AheadValue
  <2>5. Ahead(head)' = Ahead(head) - 1
    <3>1. Ahead(head)' = (head + Wrap - tail') % Wrap
      BY <1>1 DEF Ahead
    <3> QED
      BY <1>1, <2>2, <2>3, <2>4, <3>1
  <2>6. Distance'
    <3>1. One(Loading) = 0 /\ One(Loading)' = 1
      BY <1>1, <2>1 DEF One
    <3> QED
      BY <1>1, <2>2, <2>5, <3>1 DEF Balance, Distance
  <2>7. ASSUME NEW i \in Slots
        PROVE  /\ Untaken(i)' = Untaken(i) \ {tail} /\ (tail \in Untaken(i) <=> i = SlotOf(tail))
               /\ Waiting(i)' = Waiting(i)
    <3>1. ASSUME NEW t \in 0..(Wrap - 1)
          PROVE  (t + Wrap - tail') % Wrap < Ahead(head)' <=> Ahead(t) < Ahead(head) /\ t # tail
      <4>1. Ahead(t) \in 0..(Wrap - 1)
        BY <1>1, AheadType
      <4> QED
        BY <2>2, <2>3, <2>5, <4>1
    <3>2. Untaken(i)' = {t \in 0..(Wrap - 1) :
                            (t + Wrap - tail') % Wrap < Ahead(head)' /\ SlotOf(t) = i}
      BY DEF Untaken, Ahead, SlotOf
    <3>3. Untaken(i)' = Untaken(i) \ {tail}
      BY <3>1, <3>2 DEF Untaken
    <3>4. tail \in Untaken(i) <=> i = SlotOf(tail)
      BY <1>1, <2>2, <2>4 DEF Untaken
    <3>5. Waiting(i)' = Waiting(i)
      BY <1>1 DEF Waiting, SlotOf
    <3> QED
      BY <3>3, <3>4, <3>5
  <2>8. ASSUME NEW i \in Slots
        PROVE  (Cardinality(Waiting(i)) + One(i \in Full)
                   = Cardinality(Untaken(i)) + One(Loading /\ SlotOf(wticket) = i))'
    <3>1. /\ Cardinality(Waiting(i)) + One(i \in Full)
                = Cardinality(Untaken(i)) + One(Loading /\ SlotOf(wticket) = i)
          /\ One(i \in Full)' = One(i \in Full)
          /\ One(Loading /\ SlotOf(wticket) = i) = 0
      BY <1>1 DEF Balance, Balanced, One
    <3>2. CASE i = SlotOf(tail)
      <4>1. Cardinality(Untaken(i)') = Cardinality(Untaken(i)) - 1
        BY <2>7, <3>2, FiniteTickets, FS_RemoveElement
      <4>2. One(Loading /\ SlotOf(wticket) = i)' = 1
        BY <2>1, <3>2 DEF One, SlotOf
      <4> QED
        BY <2>7, <3>1, <4>1, <4>2, FiniteTickets
    <3>3. CASE i # SlotOf(tail)
      <4>1. Untaken(i)' = Untaken(i)
        BY <2>7, <3>3
      <4>2. One(Loading /\ SlotOf(wticket) = i)' = 0
        BY <2>1, <3>3 DEF One, SlotOf
      <4> QED
        BY <2>7, <3>1, <4>1, <4>2
    <3> QED
      BY <3>2, <3>3
  <2> QED
    BY <2>6, <2>8 DEF Balance, Balanced
<1> QED
  BY <1>2, <1>3

LEMMA BalanceStep ==
    IInv /\ Contents /\ Contents' /\ Balance /\ [Next]_vars => Balance'
<1> SUFFICES ASSUME IInv, Contents, Contents', Balance, [Next]_vars PROVE Balance'
  OBVIOUS
<1>1. ASSUME NEW p \in Producers, Push(p) PROVE Balance'
  <2>1. CASE BeginStore(p)
    <3>1. WithProducer' = WithProducer
      BY <2>1 DEF BeginStore, WithProducer, IInv, RingTypes
    <3>2. Full' = Full
      BY <2>1, TicketSlots DEF BeginStore, Full, IInv, RingTypes
    <3>3. UNCHANGED <<head, tail, ticket, wticket, Loading, claimed>>
      BY <2>1 DEF BeginStore, Loading
    <3> QED
      BY <3>1, <3>2, <3>3, BalanceKept
  <2> QED
    BY <1>1, <2>1, ClaimBalances, EndStoreBalances DEF Push
<1>2. CASE BeginLoad
  <2>1. Full' = Full
    BY <1>2, TicketSlots DEF BeginLoad, Full, IInv, RingTypes
  <2>2. UNCHANGED <<head, tail, ticket, wticket, Loading, claimed, WithProducer>>
    BY <1>2 DEF BeginLoad, Loading, WithProducer
  <2> QED
    BY <2>1, <2>2, BalanceKept
<1>3. CASE Poll \/ Test \/ Timeout \/ LastTest \/ Return \/ SpuriousWakeup
           \/ UNCHANGED vars
  <2>1. UNCHANGED <<head, tail, ticket, wticket, Loading, claimed, WithProducer, Full>>
    BY <1>3 DEF Poll, Test, Timeout, LastTest, Return, SpuriousWakeup, vars, Loading,
                WithProducer, Full
  <2> QED
    BY <2>1, BalanceKept
<1> QED
  BY <1>1, <1>2, <1>3, TakeTicketBalances, EndLoadBalances DEF Next, Worker

LEMMA BalanceAlways == Spec => [](IInv /\ Contents /\ Balance)
<1>1. IInv /\ [Next]_vars => IInv'
  BY TypeStep, OwnersStep DEF IInv
<1> QED
  BY <1>1, InitInv, InitContents, InitBalance, ContentsStep, BalanceStep, PTL DEF Spec

(* The slot of the worker's ticket is still to be filled once more than    *)
(* there are tickets for it behind that of the worker.                     *)
LEMMA BalanceFills == IInv /\ Balance => NoEmptyWait
<1> SUFFICES ASSUME IInv, Balance, wpc = "load"
             PROVE  \/ state[SlotOf(wticket)] \in {"STORING", "STORED"}
                    \/ \E p \in Producers : /\ pc[p] = "claimed"
                                            /\ SlotOf(ticket[p]) = SlotOf(wticket)
  BY DEF NoEmptyWait
<1> DEFINE here == SlotOf(wticket)
<1>1. here \in Slots
  BY TicketSlots DEF IInv
<1>2. Cardinality(Waiting(here)) + One(here \in Full) >= 1
  <2>1. One(Loading /\ SlotOf(wticket) = here) = 1
    BY DEF One, Loading
  <2> QED
    BY <1>1, <2>1, FiniteTickets DEF Balance, Balanced
<1>3. CASE here \in Full
  BY <1>3 DEF Full, IInv, Owners
<1>4. CASE here \notin Full
  <2>1. Waiting(here) # {}
    BY <1>2, <1>4, FS_EmptySet DEF One
  <2>2. PICK p \in Producers : pc[p] # "idle" /\ SlotOf(ticket[p]) = here
    BY <2>1 DEF Waiting, WithProducer
  <2> QED
    BY <2>2 DEF IInv, RingTypes, Owners
<1> QED
  BY <1>3, <1>4

(* pop takes its ticket because head_ is ahead of tail_, whether or not    *)
(* the push has stored anything yet, and then spins for as long as it      *)
(* takes (atomic_queue.h:203-227, synchronized_queue.hpp): some producer   *)
(* is about to fill its slot, or the process is there.  So it is in an     *)
(* overfull ring too, where the producer that fills the slot need not be   *)
(* the one with the ticket of the worker.                                  *)
THEOREM NeverWaitsInVain == Spec => []NoEmptyWait
  BY BalanceAlways, BalanceFills, PTL

-----------------------------------------------------------------------------
(* First in, first out, until the ring is overfull *)

(* The ticket of the oldest process claimed, and those that follow         *)
First == IF Loading THEN wticket ELSE tail
Nth(k) == (First + k - 1) % Wrap

(* While no two tickets in use share a slot, the k-th process of the queue *)
(* is with the producer that has the k-th ticket, or in the slot of it.    *)
InOrder ==
    /\ Loading => tail = (wticket + 1) % Wrap
    /\ ~overfull =>
        /\ Len(claimed) <= Size
        /\ \A k \in 1..Len(claimed) :
              \/ \E p \in WithProducer : ticket[p] = Nth(k) /\ claimed[k] = InHand(p)
              \/ SlotOf(Nth(k)) \in Full /\ slot[SlotOf(Nth(k))] = claimed[k]

LEMMA InitInOrder == Init => InOrder
  BY DEF Init, InOrder, Loading

LEMMA FirstType == RingTypes => First \in 0..(Wrap - 1)
  BY DEF RingTypes, First

(* The next push gets the ticket after those of the processes claimed.     *)
LEMMA NextTicket ==
    ASSUME RingTypes, Contents, Balance, InOrder
    PROVE  head = Nth(Len(claimed) + 1)
<1>1. Len(claimed) \in Nat /\ Len(claimed) + 1 \in 1..Wrap
  BY LenBounded, Half
<1>2. head \in 0..(Wrap - 1) /\ tail \in 0..(Wrap - 1) /\ wticket \in 0..(Wrap - 1)
  BY DEF RingTypes
<1>3. Nth(Len(claimed) + 1) = IF First + Len(claimed) < Wrap THEN First + Len(claimed)
                                                          ELSE First + Len(claimed) - Wrap
  <2>1. PICK n \in 1..Wrap : n = Len(claimed) + 1
    BY <1>1
  <2>2. Nth(n) = IF First + n - 1 < Wrap THEN First + n - 1 ELSE First + n - 1 - Wrap
    BY FirstType, Advance DEF Nth
  <2>3. First + n - 1 = First + Len(claimed)
    BY <1>1, <2>1, FirstType
  <2> QED
    BY <2>1, <2>2, <2>3
<1>4. Ahead(head) = IF tail <= head THEN head - tail ELSE head + Wrap - tail
  BY <1>2, AheadValue
<1>5. CASE ~Loading
  <2>1. First = tail /\ Len(claimed) = Ahead(head)
    BY <1>1, <1>2, <1>4, <1>5 DEF First, Balance, Distance, One
  <2> QED
    BY <1>1, <1>2, <1>3, <1>4, <2>1
<1>6. CASE Loading
  <2>1. First = wticket /\ Len(claimed) = Ahead(head) + 1
    BY <1>1, <1>2, <1>4, <1>6 DEF First, Balance, Distance, One
  <2>2. tail = IF wticket + 1 = Wrap THEN 0 ELSE wticket + 1
    BY <1>2, <1>6, Increment DEF InOrder
  <2> QED
    BY <1>1, <1>2, <1>3, <1>4, <2>1, <2>2
<1> QED
  BY <1>5, <1>6

(* Steps that leave the tickets, the hands and the slots alone             *)
LEMMA InOrderKept ==
    ASSUME InOrder, UNCHANGED <<tail, ticket, wticket, pushes, slot, claimed, overfull, Loading>>,
           WithProducer' = WithProducer, Full' = Full
    PROVE  InOrder'
<1>1. \A k : Nth(k)' = Nth(k) /\ SlotOf(Nth(k))' = SlotOf(Nth(k))
  BY DEF Nth, First, SlotOf
<1>2. \A p : InHand(p)' = InHand(p)
  BY DEF InHand
<1> QED
  BY <1>1, <1>2 DEF InOrder

LEMMA ClaimInOrder ==
    ASSUME IInv, Contents, Balance, InOrder, NEW p \in Producers, Claim(p)
    PROVE  InOrder'
<1>1. /\ RingTypes /\ p \notin WithProducer /\ WithProducer' = WithProducer \cup {p}
      /\ Full' = Full
      /\ ticket' = [ticket EXCEPT ![p] = head] /\ ticket \in [Producers -> 0..(Wrap - 1)]
      /\ pushes' = [pushes EXCEPT ![p] = @ + 1] /\ pushes \in [Producers -> 0..MaxPushes]
      /\ claimed' = Append(claimed, <<p, pushes[p] + 1>>) /\ claimed \in Seq(Elements)
      /\ overfull' = (overfull \/ Len(claimed) >= Size)
      /\ UNCHANGED <<tail, slot, wpc, wticket>>
  BY DEF Claim, WithProducer, Full, IInv, RingTypes, Contents, RingContents
<1>2. \A k : Nth(k)' = Nth(k) /\ SlotOf(Nth(k))' = SlotOf(Nth(k))
  BY <1>1 DEF Nth, First, Loading, SlotOf
<1>3. Loading' => tail' = (wticket' + 1) % Wrap
  BY <1>1 DEF InOrder, Loading
<1>4. SUFFICES ASSUME ~overfull'
               PROVE  /\ Len(claimed') <= Size
                      /\ \A k \in 1..Len(claimed') :
                           \/ \E q \in WithProducer' : ticket'[q] = Nth(k)' /\ claimed'[k] = InHand(q)'
                           \/ SlotOf(Nth(k))' \in Full' /\ slot'[SlotOf(Nth(k))'] = claimed'[k]
  BY <1>3 DEF InOrder
<1>5. Len(claimed) \in Nat /\ Len(claimed) < Size /\ ~overfull
  <2>1. ~(overfull \/ Len(claimed) >= Size)
    BY <1>1, <1>4
  <2> QED
    BY <1>1, <2>1
<1>6. PICK n \in Nat : n = Len(claimed)
  BY <1>5
<1>7. /\ Len(claimed') = n + 1
      /\ \A k \in 1..n : claimed'[k] = claimed[k]
      /\ claimed'[n + 1] = <<p, pushes[p] + 1>>
  BY <1>1, <1>6
<1>8. \A q \in WithProducer : ticket'[q] = ticket[q] /\ InHand(q)' = InHand(q)
  BY <1>1 DEF InHand, WithProducer
<1>9. ASSUME NEW k \in 1..n
      PROVE  \/ \E q \in WithProducer' : ticket'[q] = Nth(k)' /\ claimed'[k] = InHand(q)'
             \/ SlotOf(Nth(k))' \in Full' /\ slot'[SlotOf(Nth(k))'] = claimed'[k]
  <2>1. CASE \E q \in WithProducer : ticket[q] = Nth(k) /\ claimed[k] = InHand(q)
    BY <1>1, <1>2, <1>7, <1>8, <2>1
  <2>2. CASE SlotOf(Nth(k)) \in Full /\ slot[SlotOf(Nth(k))] = claimed[k]
    BY <1>1, <1>2, <1>7, <2>2
  <2> QED
    BY <1>5, <1>6, <2>1, <2>2 DEF InOrder
<1>10. /\ p \in WithProducer' /\ ticket'[p] = Nth(n + 1)'
       /\ claimed'[n + 1] = InHand(p)'
  <2>1. ticket'[p] = head /\ InHand(p)' = <<p, pushes[p] + 1>> /\ p \in WithProducer'
    BY <1>1 DEF InHand
  <2>2. head = Nth(n + 1)
    BY <1>1, <1>6, NextTicket
  <2> QED
    BY <1>2, <1>7, <2>1, <2>2
<1>11. ASSUME NEW k \in 1..(n + 1)
       PROVE  \/ \E q \in WithProducer' : ticket'[q] = Nth(k)' /\ claimed'[k] = InHand(q)'
              \/ SlotOf(Nth(k))' \in Full' /\ slot'[SlotOf(Nth(k))'] = claimed'[k]
  <2>1. k \in 1..n \/ k = n + 1
    OBVIOUS
  <2> QED
    BY <1>9, <1>10, <2>1
<1> QED
  BY <1>5, <1>6, <1>7, <1>11

LEMMA EndStoreInOrder ==
    ASSUME IInv, Contents, InOrder, NEW p \in Producers, EndStore(p)
    PROVE  InOrder'
<1> DEFINE here == SlotOf(ticket[p])
<1>1. /\ here \in Slots /\ state[here] = "STORING" /\ pc[p] = "storing"
      /\ state \in [Slots -> {"EMPTY", "STORING", "STORED", "LOADING"}]
      /\ pc \in [Producers -> {"idle", "claimed", "storing"}]
  BY TicketSlots DEF EndStore, IInv, RingTypes, Owners
<1>2. /\ state' = [state EXCEPT ![here] = "STORED"] /\ pc' = [pc EXCEPT ![p] = "idle"]
      /\ slot' = [slot EXCEPT ![here] = InHand(p)]
      /\ UNCHANGED <<head, tail, ticket, pushes, wpc, wticket, claimed, overfull>>
  BY DEF EndStore, InHand
<1>3. /\ WithProducer' = WithProducer \ {p}
      /\ here \notin Full /\ Full' = Full \cup {here}
  BY <1>1, <1>2 DEF WithProducer, Full
<1>4. /\ \A k : Nth(k)' = Nth(k) /\ SlotOf(Nth(k))' = SlotOf(Nth(k))
      /\ \A q : InHand(q)' = InHand(q)
      /\ Loading' = Loading
  BY <1>2 DEF Nth, First, Loading, SlotOf, InHand
<1>5. slot'[here] = InHand(p) /\ \A i \in Full : slot'[i] = slot[i]
  <2>1. slot \in [Slots -> Elements \cup {Nothing}]
    BY DEF Contents, RingContents
  <2> QED
    BY <1>1, <1>2, <1>3, <2>1 DEF Full
<1>6. ASSUME NEW k \in 1..Len(claimed), ~overfull
      PROVE  \/ \E q \in WithProducer' : ticket'[q] = Nth(k)' /\ claimed'[k] = InHand(q)'
             \/ SlotOf(Nth(k))' \in Full' /\ slot'[SlotOf(Nth(k))'] = claimed'[k]
  <2>1. CASE \E q \in WithProducer \ {p} : ticket[q] = Nth(k) /\ claimed[k] = InHand(q)
    BY <1>2, <1>3, <1>4, <2>1
  <2>2. CASE ticket[p] = Nth(k) /\ claimed[k] = InHand(p)
    BY <1>2, <1>3, <1>4, <1>5, <2>2
  <2>3. CASE SlotOf(Nth(k)) \in Full /\ slot[SlotOf(Nth(k))] = claimed[k]
    BY <1>2, <1>3, <1>4, <1>5, <2>3
  <2> QED
    BY <1>6, <2>1, <2>2, <2>3 DEF InOrder
<1> QED
  BY <1>2, <1>4, <1>6 DEF InOrder

LEMMA TakeTicketInOrder ==
    ASSUME InOrder, TakeTicket PROVE InOrder'
<1>1. /\ ~Loading /\ WithProducer' = WithProducer /\ Full' = Full
      /\ UNCHANGED <<ticket, pushes, slot, claimed, overfull>>
  BY DEF TakeTicket, Loading, WithProducer, Full
<1>2. CASE WasEmpty
  <2>1. UNCHANGED <<tail, wticket, Loading>>
    BY <1>1, <1>2 DEF TakeTicket, Loading
  <2> QED
    BY <1>1, <2>1, InOrderKept
<1>3. CASE ~WasEmpty
  <2>1. wticket' = tail /\ tail' = (tail + 1) % Wrap /\ Loading'
    BY <1>3 DEF TakeTicket, Loading
  <2>2. First' = First
    BY <1>1, <2>1 DEF First
  <2>3. /\ \A k : Nth(k)' = Nth(k) /\ SlotOf(Nth(k))' = SlotOf(Nth(k))
        /\ \A q : InHand(q)' = InHand(q)
    BY <1>1, <2>2 DEF Nth, SlotOf, InHand
  <2> QED
    BY <1>1, <2>1, <2>3 DEF InOrder
<1> QED
  BY <1>2, <1>3

(* The process in the slot of the worker's ticket is the oldest: another   *)
(* one of the queue would be in a slot of its own.                         *)
LEMMA OldestFirst ==
    ASSUME IInv, Contents, InOrder, wpc = "loading", ~overfull
    PROVE  Len(claimed) >= 1 /\ slot[SlotOf(wticket)] = claimed[1]
<1> DEFINE here == SlotOf(wticket)
<1>1. /\ here \in Full /\ Loading /\ First = wticket /\ wticket \in 0..(Wrap - 1)
  BY TicketSlots DEF IInv, RingTypes, Owners, Full, Loading, First
<1> HIDE DEF here
<1>2. PICK k \in 1..Len(claimed) : claimed[k] = slot[here]
  BY <1>1 DEF Contents, Somewhere
<1>3. \A q \in WithProducer : claimed[k] # InHand(q)
  BY <1>1, <1>2 DEF Contents, Once
<1>4. SlotOf(Nth(k)) \in Full /\ slot[SlotOf(Nth(k))] = claimed[k]
  BY <1>3 DEF InOrder
<1>5. SlotOf(Nth(k)) = here
  BY <1>1, <1>2, <1>4 DEF Contents, Once
<1>6. Len(claimed) \in Nat /\ Len(claimed) <= Size
  BY LenBounded DEF InOrder
<1>7. Nth(1) = wticket
  BY <1>1, Advance DEF Nth
<1>8. k = 1
  <2> SUFFICES ASSUME k # 1 PROVE FALSE
    OBVIOUS
  <2>1. 1 \in 1..Size /\ k \in 1..Size /\ 1 < k
    BY <1>6
  <2>2. SlotOf(Nth(1)) # SlotOf(Nth(k))
    BY <1>1, <2>1, SlotsApart DEF Nth
  <2> QED
    BY <1>5, <1>7, <2>2 DEF here
<1> QED
  BY <1>2, <1>6, <1>8 DEF here

LEMMA HandsOverOldest ==
    ASSUME IInv, Contents, InOrder, EndLoad, ~overfull
    PROVE  /\ claimed # <<>> /\ claimed' = Tail(claimed) /\ value' = Head(claimed)
           /\ Len(claimed') = Len(claimed) - 1
           /\ \A j \in 1..Len(claimed') : claimed'[j] = claimed[j + 1]
<1>1. /\ Len(claimed) >= 1 /\ slot[SlotOf(wticket)] = claimed[1]
      /\ claimed \in Seq(Elements)
      /\ \A j, k \in 1..Len(claimed) : claimed[j] = claimed[k] => j = k
  BY OldestFirst DEF EndLoad, Contents, RingContents, Once
<1>2. claimed' = Without(claimed, claimed[1]) /\ value' = claimed[1]
  BY <1>1 DEF EndLoad
<1>3. /\ claimed' \in Seq(Elements) /\ Len(claimed') = Len(claimed) - 1
      /\ \A j \in 1..Len(claimed') : claimed'[j] = IF j < 1 THEN claimed[j] ELSE claimed[j + 1]
  <2>1. 1 \in 1..Len(claimed)
    BY <1>1
  <2> QED
    BY <1>1, <1>2, <2>1, WithoutOne
<1>4. \A j \in 1..Len(claimed') : claimed'[j] = claimed[j + 1]
  BY <1>1, <1>3
<1>5. claimed' = Tail(claimed)
  <2>1. /\ Tail(claimed) \in Seq(Elements) /\ Len(Tail(claimed)) = Len(claimed) - 1
        /\ \A j \in 1..(Len(claimed) - 1) : Tail(claimed)[j] = claimed[j + 1]
    BY <1>1
  <2> QED
    BY <1>3, <1>4, <2>1
<1> QED
  BY <1>1, <1>2, <1>3, <1>4, <1>5

LEMMA EndLoadInOrder ==
    ASSUME IInv, Contents, InOrder, EndLoad PROVE InOrder'
<1> DEFINE here == SlotOf(wticket)
<1>1. /\ here \in Slots /\ wpc = "loading" /\ Loading /\ First = wticket
      /\ wticket \in 0..(Wrap - 1)
      /\ state \in [Slots -> {"EMPTY", "STORING", "STORED", "LOADING"}]
      /\ slot \in [Slots -> Elements \cup {Nothing}]
  BY TicketSlots DEF EndLoad, IInv, RingTypes, Loading, First, Contents, RingContents
<1>2. /\ state' = [state EXCEPT ![here] = "EMPTY"] /\ slot' = [slot EXCEPT ![here] = Nothing]
      /\ wpc' = "answered" /\ UNCHANGED <<head, tail, ticket, pushes, pc, wticket, overfull>>
  BY DEF EndLoad
<1> HIDE DEF here
<1>3. /\ WithProducer' = WithProducer /\ Full' = Full \ {here}
      /\ \A q : InHand(q)' = InHand(q)
      /\ \A i \in Full' : slot'[i] = slot[i]
      /\ ~Loading' /\ First' = (wticket + 1) % Wrap
  BY <1>1, <1>2 DEF WithProducer, Full, InHand, Loading, First, InOrder
<1>4. SUFFICES ASSUME ~overfull'
               PROVE  /\ Len(claimed') <= Size
                      /\ \A k \in 1..Len(claimed') :
                           \/ \E q \in WithProducer' : ticket'[q] = Nth(k)' /\ claimed'[k] = InHand(q)'
                           \/ SlotOf(Nth(k))' \in Full' /\ slot'[SlotOf(Nth(k))'] = claimed'[k]
  BY <1>3 DEF InOrder
<1>5. ~overfull /\ Len(claimed) \in Nat /\ Len(claimed) <= Size
  BY <1>2, <1>4, LenBounded DEF InOrder
<1>6. /\ Len(claimed') = Len(claimed) - 1
      /\ \A k \in 1..Len(claimed') : claimed'[k] = claimed[k + 1]
  BY <1>5, HandsOverOldest
<1>7. ASSUME NEW k \in 1..Len(claimed')
      PROVE  \/ \E q \in WithProducer' : ticket'[q] = Nth(k)' /\ claimed'[k] = InHand(q)'
             \/ SlotOf(Nth(k))' \in Full' /\ slot'[SlotOf(Nth(k))'] = claimed'[k]
  <2>1. k + 1 \in 1..Len(claimed) /\ k \in 1..Size /\ k + 1 \in 1..Size
        /\ 1 < k + 1 /\ 1 \in 1..Size
    BY <1>5, <1>6
  <2>2. Nth(k)' = Nth(k + 1)
    <3>1. Nth(k)' = (((wticket + 1) % Wrap) + k - 1) % Wrap
      BY <1>3 DEF Nth
    <3>2. Nth(k + 1) = IF wticket + k < Wrap THEN wticket + k ELSE wticket + k - Wrap
      <4>1. PICK n \in 1..Wrap : n = k + 1
        BY <2>1
      <4>2. Nth(n) = IF wticket + n - 1 < Wrap THEN wticket + n - 1 ELSE wticket + n - 1 - Wrap
        BY <1>1, Advance DEF Nth
      <4> QED
        BY <1>1, <2>1, <4>1, <4>2
    <3>3. PICK next \in 0..(Wrap - 1) : next = (wticket + 1) % Wrap
      BY <1>1, WrapType
    <3>4. next = IF wticket + 1 = Wrap THEN 0 ELSE wticket + 1
      BY <1>1, <3>3, Increment
    <3>5. Nth(k)' = IF next + k - 1 < Wrap THEN next + k - 1 ELSE next + k - 1 - Wrap
      <4>1. k \in 1..Wrap
        BY <2>1
      <4> QED
        BY <3>1, <3>3, <4>1, Advance
    <3>6. k \in Nat /\ k >= 1 /\ k <= Size
      BY <2>1
    <3> QED
      BY <1>1, <3>2, <3>4, <3>5, <3>6
  <2>3. SlotOf(Nth(k + 1)) # here
    <3>1. Nth(1) = wticket
      BY <1>1, Advance DEF Nth
    <3>2. SlotOf(Nth(1)) # SlotOf(Nth(k + 1))
      BY <1>1, <2>1, SlotsApart DEF Nth
    <3> QED
      BY <3>1, <3>2 DEF here
  <2>4. SlotOf(Nth(k))' = SlotOf(Nth(k + 1))
    BY <2>2 DEF SlotOf
  <2>5. CASE \E q \in WithProducer : ticket[q] = Nth(k + 1) /\ claimed[k + 1] = InHand(q)
    BY <1>2, <1>3, <1>6, <2>2, <2>5
  <2>6. CASE SlotOf(Nth(k + 1)) \in Full /\ slot[SlotOf(Nth(k + 1))] = claimed[k + 1]
    BY <1>3, <1>6, <2>3, <2>4, <2>6
  <2> QED
    BY <1>5, <2>1, <2>5, <2>6 DEF InOrder
<1> QED
  BY <1>5, <1>6, <1>7

LEMMA InOrderStep ==
    IInv /\ Contents /\ Balance /\ InOrder /\ [Next]_vars => InOrder'
<1> SUFFICES ASSUME IInv, Contents, Balance, InOrder, [Next]_vars PROVE InOrder'
  OBVIOUS
<1>1. ASSUME NEW p \in Producers, Push(p) PROVE InOrder'
  <2>1. CASE BeginStore(p)
    <3>1. WithProducer' = WithProducer
      BY <2>1 DEF BeginStore, WithProducer, IInv, RingTypes
    <3>2. Full' = Full
      BY <2>1, TicketSlots DEF BeginStore, Full, IInv, RingTypes
    <3>3. UNCHANGED <<tail, ticket, wticket, pushes, slot, claimed, overfull, Loading>>
      BY <2>1 DEF BeginStore, Loading
    <3> QED
      BY <3>1, <3>2, <3>3, InOrderKept
  <2> QED
    BY <1>1, <2>1, ClaimInOrder, EndStoreInOrder DEF Push
<1>2. CASE BeginLoad
  <2>1. Full' = Full
    BY <1>2, TicketSlots DEF BeginLoad, Full, IInv, RingTypes
  <2>2. UNCHANGED <<tail, ticket, wticket, pushes, slot, claimed, overfull, Loading, WithProducer>>
    BY <1>2 DEF BeginLoad, Loading, WithProducer
  <2> QED
    BY <2>1, <2>2, InOrderKept
<1>3. CASE Poll \/ Test \/ Timeout \/ LastTest \/ Return \/ SpuriousWakeup
           \/ UNCHANGED vars
  <2>1. UNCHANGED <<tail, ticket, wticket, pushes, slot, claimed, overfull, Loading,
                    WithProducer, Full>>
    BY <1>3 DEF Poll, Test, Timeout, LastTest, Return, SpuriousWakeup, vars, Loading,
                WithProducer, Full
  <2> QED
    BY <2>1, InOrderKept
<1> QED
  BY <1>1, <1>2, <1>3, TakeTicketInOrder, EndLoadInOrder DEF Next, Worker

(* The counters agree only when the queue is empty, as long as the worker  *)
(* has no ticket.                                                          *)
LEMMA EmptyRing ==
    ASSUME IInv, Contents, Balance, ~Loading, WasEmpty PROVE claimed = <<>>
<1>1. Len(claimed) = 0
  BY WasEmptyMeans DEF IInv, Balance, Distance, One
<1> QED
  BY <1>1 DEF Contents, RingContents

LEMMA FifoStep ==
    ASSUME IInv, Contents, Balance, InOrder, [Next]_vars, ~overfull'
    PROVE  Fifo!FifoNext \/ UNCHANGED <<claimed, Asking, value>>
<1> DEFINE answer == [r \in {"worker"} |-> value]
           asking == [r \in {"worker"} |-> Asking]
<1>1. ASSUME NEW p \in Producers, Push(p)
      PROVE  Fifo!FifoNext \/ UNCHANGED <<claimed, Asking, value>>
  <2>1. CASE Claim(p)
    <3>1. /\ claimed' = Append(claimed, <<p, pushes[p] + 1>>)
          /\ UNCHANGED <<wpc, value, Asking>>
      BY <2>1 DEF Claim, Asking
    <3>2. <<p, pushes[p] + 1>> \in Elements
      BY <2>1 DEF Claim, Elements, Contents, RingContents
    <3>3. Fifo!Put(<<p, pushes[p] + 1>>)
      BY <3>1 DEF Fifo!Put
    <3> QED
      BY <3>2, <3>3 DEF Fifo!FifoNext
  <2>2. CASE BeginStore(p) \/ EndStore(p)
    BY <2>2 DEF BeginStore, EndStore, Asking
  <2> QED
    BY <1>1, <2>1, <2>2 DEF Push
<1>2. CASE Poll
  <2>1. Fifo!Ask("worker", "poll")
    <3>1. Asking = "no" /\ Asking' = "poll" /\ UNCHANGED <<claimed, value>>
      BY <1>2 DEF Poll, Asking
    <3> QED
      BY <3>1 DEF Fifo!Ask
  <2> QED
    BY <2>1 DEF Fifo!FifoNext
<1>3. CASE LastTest \/ TakeTicket
  <2>1. /\ Asking = "poll" /\ ~Loading /\ UNCHANGED <<claimed, value>>
        /\ IF WasEmpty THEN Asking' = "answered" ELSE Asking' = "poll"
    BY <1>3 DEF LastTest, TakeTicket, Asking, Loading
  <2>2. CASE WasEmpty
    <3>1. Fifo!Refuse("worker")
      BY <2>1, <2>2, EmptyRing DEF Fifo!Refuse
    <3> QED
      BY <3>1 DEF Fifo!FifoNext
  <2> QED
    BY <2>1, <2>2
<1>4. CASE EndLoad
  <2>1. ~overfull /\ Asking = "poll" /\ Asking' = "answered"
    BY <1>4 DEF EndLoad, Asking
  <2>2. claimed # <<>> /\ claimed' = Tail(claimed) /\ value' = Head(claimed)
    BY <1>4, <2>1, HandsOverOldest
  <2>3. Fifo!Give("worker")
    BY <2>1, <2>2 DEF Fifo!Give
  <2> QED
    BY <2>3 DEF Fifo!FifoNext
<1>5. CASE Return
  <2>1. Asking = "answered" /\ Asking' = "no" /\ value' = Nothing /\ claimed' = claimed
    BY <1>5 DEF Return, Asking
  <2>2. Fifo!Return("worker")
    BY <2>1 DEF Fifo!Return
  <2> QED
    BY <2>2 DEF Fifo!FifoNext
<1>6. CASE Test \/ Timeout \/ SpuriousWakeup \/ BeginLoad \/ UNCHANGED vars
  BY <1>6 DEF Test, Timeout, SpuriousWakeup, BeginLoad, vars, Asking
<1> QED
  BY <1>1, <1>2, <1>3, <1>4, <1>5, <1>6 DEF Next, Worker

(* Until the ring is overfull it is a first-in first-out queue             *)
(* (atomic_queue.h:302 "FIFO") whose operations take effect at one         *)
(* instant, across the wrapping of the counters: processes come out in the *)
(* order of their tickets though the producers store them in any order,    *)
(* and a poll that times out met an empty queue.                           *)
THEOREM FirstInFirstOut == Spec => FifoWhileItFits
<1>1. IInv /\ [Next]_vars => IInv'
  BY TypeStep, OwnersStep DEF IInv
<1>2. IInv /\ Contents /\ Balance /\ InOrder /\ [Next]_vars
         => [overfull' \/ Fifo!FifoNext]_<<claimed, Asking, value>>
  BY FifoStep
<1> QED
  BY <1>1, <1>2, InitInv, InitContents, InitBalance, InitInOrder, ContentsStep, BalanceStep,
     InOrderStep, PTL DEF Spec, FifoWhileItFits
=============================================================================
