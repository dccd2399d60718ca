---------------------------- MODULE ProcessFifo ----------------------------
(***************************************************************************)
(* What the users of synchronized_queue (the process listener, which      *)
(* pushes, and the worker, which polls) may assume of it, whatever its    *)
(* implementation: an unbounded first-in first-out queue whose operations *)
(* take effect at one instant between their call and their return.  A     *)
(* poll may come back empty-handed only if the queue was empty at some    *)
(* instant of the call; a pop never comes back empty-handed.              *)
(***************************************************************************)
EXTENDS Sequences

CONSTANTS Elements,   \* the processes that may be pushed
          Readers,    \* threads that take from the queue
          Nothing     \* std::nullopt

VARIABLES queue,      \* the processes pushed and not yet taken, oldest first
          asking,     \* what each reader is doing
          answer      \* what the queue answered it

fifoVars == <<queue, asking, answer>>

FifoInit == /\ queue = <<>>
            /\ asking = [r \in Readers |-> "no"]
            /\ answer = [r \in Readers |-> Nothing]

(* push *)
Put(e) == /\ queue' = Append(queue, e)
          /\ UNCHANGED <<asking, answer>>

(* a reader calls poll or pop *)
Ask(r, o) == /\ asking[r] = "no"
             /\ asking' = [asking EXCEPT ![r] = o]
             /\ UNCHANGED <<queue, answer>>

(* the call obtains the oldest process *)
Give(r) == /\ asking[r] \in {"poll", "pop"}
           /\ queue # <<>>
           /\ queue' = Tail(queue)
           /\ answer' = [answer EXCEPT ![r] = Head(queue)]
           /\ asking' = [asking EXCEPT ![r] = "answered"]

(* the call obtains nothing: only a poll, only from an empty queue *)
Refuse(r) == /\ asking[r] = "poll"
             /\ queue = <<>>
             /\ asking' = [asking EXCEPT ![r] = "answered"]
             /\ UNCHANGED <<queue, answer>>

(* the call returns *)
Return(r) == /\ asking[r] = "answered"
             /\ asking' = [asking EXCEPT ![r] = "no"]
             /\ answer' = [answer EXCEPT ![r] = Nothing]
             /\ UNCHANGED queue

FifoNext == \/ \E e \in Elements : Put(e)
            \/ \E r \in Readers : \/ \E o \in {"poll", "pop"} : Ask(r, o)
                                  \/ Give(r)
                                  \/ Refuse(r)
                                  \/ Return(r)

FifoSpec == FifoInit /\ [][FifoNext]_fifoVars
=============================================================================
