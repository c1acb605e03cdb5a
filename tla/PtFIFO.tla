------------------------------- MODULE PtFIFO -------------------------------
(***************************************************************************)
(* The FIFO of utility.c: a ring of size + 1 slots, of which one stays     *)
(* free, with the position of the first item and the one after the last.   *)
(* struct FIFO is used by one thread (the queues of the transport client), *)
(* struct ptFIFO by several (the output queue of the transport server): a  *)
(* mutex, and one condition variable for readers and writers alike.        *)
(*                                                                         *)
(* A call holds the mutex from its start, or from its last wake-up, to its *)
(* return or to its next wait: that is one step.                           *)
(***************************************************************************)
EXTENDS Integers, Sequences, FiniteSets

CONSTANTS
  Reader, Writer,   \* threads that call ptFIFO_read, ptFIFO_write
  Element,          \* what is written; never NULL
  size,
  NULL

ASSUME FIFOAssumption ==
  /\ Reader \intersect Writer = {}
  /\ size \in Nat \ {0}
  /\ NULL \notin Element

VARIABLES
  index_start, index_end, data,
  pc,        \* per thread: "out", "lock" (wants the mutex), "asleep"
  timeout,   \* per thread, during a call: 0, 1 (a delay) or -1 (for ever)
  item,      \* per writer, during a call: the item it brings
  result     \* per thread, until its next call: the item moved, or NULL

ring     == <<index_start, index_end, data>>
callVars == <<pc, timeout, item, result>>
fifoVars == <<ring, callVars>>

Thread == Reader \union Writer

(* ptFIFO_new clears all slots but the last one.                           *)
FIFOInit ==
  /\ index_start = 0 /\ index_end = 0
  /\ \E v \in Element \union {NULL} :
       data = [i \in 0 .. size |-> IF i < size THEN NULL ELSE v]
  /\ pc = [t \in Thread |-> "out"]
  /\ timeout = [t \in Thread |-> 0]
  /\ item = [t \in Writer |-> NULL]
  /\ result = [t \in Thread |-> NULL]

-----------------------------------------------------------------------------
(* Positions.                                                              *)
After(i) == IF i + 1 > size THEN 0 ELSE i + 1
IsEmpty == index_start = index_end
IsFull == After(index_end) = index_start

(* What FIFO_read and FIFO_write do to a ring that is not empty, not full: *)
(* ptFIFO_read and ptFIFO_write do the same under the mutex.               *)
Take ==
  /\ data' = [data EXCEPT ![index_start] = NULL]
  /\ index_start' = After(index_start)
  /\ UNCHANGED index_end
Add(v) ==
  /\ data' = [data EXCEPT ![index_end] = v]
  /\ index_end' = After(index_end)
  /\ UNCHANGED index_start

-----------------------------------------------------------------------------
Call(t) ==
  /\ pc[t] = "out"
  /\ pc' = [pc EXCEPT ![t] = "lock"]
  /\ \E d \in {0, 1, -1} : timeout' = [timeout EXCEPT ![t] = d]
  /\ IF t \in Writer THEN \E v \in Element : item' = [item EXCEPT ![t] = v]
                     ELSE UNCHANGED item
  /\ result' = [result EXCEPT ![t] = NULL]
  /\ UNCHANGED ring

(* The call is over, with its parameters.                                  *)
Return(t, v) ==
  /\ result' = [result EXCEPT ![t] = v]
  /\ timeout' = [timeout EXCEPT ![t] = 0]
  /\ item' = [u \in Writer |-> IF u = t THEN NULL ELSE item[u]]

(* pthread_cond_broadcast, then the call returns v.  Mutant: one of the    *)
(* threads that sleep is woken, as by pthread_cond_signal.                 *)
SignalAndReturn(t, v) ==
  /\ LET asleep == {u \in Thread : pc[u] = "asleep"}
     IN  \E woken \in SUBSET asleep :
           /\ Cardinality(woken) = (IF asleep = {} THEN 0 ELSE 1)
           /\ pc' = [u \in Thread |-> IF u \in woken THEN "lock"
                                      ELSE IF u = t THEN "out" ELSE pc[u]]
  /\ Return(t, v)
BroadcastAndReturn(t, v) ==
  /\ pc' = [u \in Thread |-> IF pc[u] = "asleep" THEN "lock"
                             ELSE IF u = t THEN "out" ELSE pc[u]]
  /\ Return(t, v)

ReturnNULL(t) ==
  /\ pc' = [pc EXCEPT ![t] = "out"]
  /\ Return(t, NULL)

(* The FIFO cannot serve the call: it returns at once, or releases the     *)
(* mutex and sleeps.                                                       *)
WaitOrReturn(t) ==
  /\ \/ timeout[t] = 0 /\ ReturnNULL(t)
     \/ /\ timeout[t] # 0
        /\ pc' = [pc EXCEPT ![t] = "asleep"]
        /\ UNCHANGED <<timeout, item, result>>
  /\ UNCHANGED ring

ptFIFO_read(t) ==
  /\ pc[t] = "lock"
  /\ \/ IsEmpty /\ WaitOrReturn(t)
     \/ /\ ~IsEmpty
        /\ Take
        /\ BroadcastAndReturn(t, data[index_start])

(* Mutant: room is looked for in the slot that is written.                 *)
ptFIFO_writeLastSlot(t) ==
  /\ pc[t] = "lock"
  /\ \/ IsFull /\ data[index_end] # NULL /\ WaitOrReturn(t)
     \/ /\ ~(IsFull /\ data[index_end] # NULL)
        /\ Add(item[t])
        /\ BroadcastAndReturn(t, item[t])
ptFIFO_write(t) ==
  /\ pc[t] = "lock"
  /\ \/ IsFull /\ WaitOrReturn(t)
     \/ /\ ~IsFull
        /\ Add(item[t])
        /\ BroadcastAndReturn(t, item[t])

(* ETIMEDOUT: the call returns without looking at the FIFO again.          *)
TimedOut(t) ==
  /\ pc[t] = "asleep" /\ timeout[t] = 1
  /\ ReturnNULL(t)
  /\ UNCHANGED ring

(* A wait on a condition variable may end for no reason.                   *)
WakeUp(t) ==
  /\ pc[t] = "asleep"
  /\ pc' = [pc EXCEPT ![t] = "lock"]
  /\ UNCHANGED <<ring, timeout, item, result>>

FIFONext ==
  \/ \E t \in Thread : Call(t) \/ TimedOut(t) \/ WakeUp(t)
  \/ \E t \in Reader : ptFIFO_read(t)
  \/ \E t \in Writer : ptFIFO_write(t)

FIFOSpec == FIFOInit /\ [][FIFONext]_fifoVars

-----------------------------------------------------------------------------
(* The types of the variables.                                             *)
FIFOTypeOK ==
  /\ index_start \in 0 .. size /\ index_end \in 0 .. size
  /\ data \in [0 .. size -> Element \union {NULL}]
  /\ pc \in [Thread -> {"out", "lock", "asleep"}]
  /\ timeout \in [Thread -> {0, 1, -1}]
  /\ item \in [Writer -> Element \union {NULL}]
  /\ result \in [Thread -> Element \union {NULL}]

(* What the ring holds, oldest first.                                      *)
queue ==
  LET used == (index_end - index_start + size + 1) % (size + 1)
  IN  [k \in 1 .. used |-> data[(index_start + k - 1) % (size + 1)]]

(* No reader sleeps in ptFIFO_read while there is something to read, and   *)
(* no writer sleeps in ptFIFO_write while there is room, although both     *)
(* wait on the same condition variable and any of them may be woken first. *)
NoLostWakeUp ==
  /\ \A t \in Reader : pc[t] = "asleep" => IsEmpty
  /\ \A t \in Writer : pc[t] = "asleep" => IsFull

Queue == INSTANCE BoundedQueue

(* With any number of threads on the same ring, every call takes effect at *)
(* once on a bounded queue or leaves it alone: what ptFIFO_read and        *)
(* ptFIFO_write promise.                                                   *)
ImplementsBoundedQueue == Queue!Spec
=============================================================================
