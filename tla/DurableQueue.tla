---------------------------- MODULE DurableQueue ----------------------------
(***************************************************************************)
(* What the permanent FIFO promises: messages are handed out in the order  *)
(* they were written, none skipped and none twice between two crashes; a   *)
(* message stays until it is acknowledged; a crash gives back everything   *)
(* that was not acknowledged, except that the newest messages, those not   *)
(* yet saved, may be gone.                                                 *)
(***************************************************************************)
EXTENDS Integers, Sequences

VARIABLES
  pending,  \* messages accepted and not acknowledged, oldest first
  taken,    \* those handed to the consumer since the last crash
  saved,    \* how many of pending a crash cannot take
  written   \* how many messages were ever accepted

vars == <<pending, taken, saved, written>>

Init == pending = <<>> /\ taken = <<>> /\ saved = 0 /\ written = 0

Put ==
  /\ written' = written + 1
  /\ pending' = Append(pending, written')
  /\ saved' \in saved .. Len(pending)
  /\ UNCHANGED taken

Take ==
  /\ Len(taken) < Len(pending)
  /\ taken' = Append(taken, pending[Len(taken) + 1])
  /\ UNCHANGED <<pending, saved, written>>

Ack ==
  /\ taken # <<>>
  /\ taken' = Tail(taken)
  /\ pending' = Tail(pending)
  /\ saved' = IF saved = 0 THEN 0 ELSE saved - 1
  /\ UNCHANGED written

Save ==
  /\ saved' \in saved .. Len(pending)
  /\ UNCHANGED <<pending, taken, written>>

Crash ==
  /\ \E k \in saved .. Len(pending) :
       /\ pending' = SubSeq(pending, 1, k)
       /\ saved' = k
  /\ taken' = <<>>
  /\ UNCHANGED written

Next == Put \/ Take \/ Ack \/ Save \/ Crash

Spec == Init /\ [][Next]_vars

=============================================================================
