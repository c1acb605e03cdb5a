---------------------------- MODULE BoundedQueue ----------------------------
(***************************************************************************)
(* What the FIFO shared by the threads of the transport server promises:   *)
(* a bounded first-in first-out queue on which each call either takes      *)
(* effect at once or gives up.                                             *)
(***************************************************************************)
EXTENDS Naturals, Sequences

CONSTANTS Reader, Writer, Element, size, NULL

VARIABLES
  queue,   \* what the FIFO holds, oldest first
  result   \* per thread: what its last call returned

Init == queue = <<>> /\ result = [t \in Reader \union Writer |-> NULL]

Get(t) ==
  /\ queue # <<>>
  /\ queue' = Tail(queue)
  /\ result' = [result EXCEPT ![t] = Head(queue)]

Put(t) ==
  /\ Len(queue) < size
  /\ \E v \in Element : queue' = Append(queue, v) /\ result' = [result EXCEPT ![t] = v]

GiveUp(t) ==
  /\ result' = [result EXCEPT ![t] = NULL]
  /\ UNCHANGED queue

Next ==
  \/ \E t \in Reader : Get(t)
  \/ \E t \in Writer : Put(t)
  \/ \E t \in Reader \union Writer : GiveUp(t)

Spec == Init /\ [][Next]_<<queue, result>>
=============================================================================
