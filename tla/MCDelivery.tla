----------------------------- MODULE MCDelivery -----------------------------
(***************************************************************************)
(* The transport and the three structures that it stands on: the FIFO      *)
(* between the two threads of the server, which module Transport has as    *)
(* the sequence output_queue; the buffer in which the client finds the     *)
(* server's lines, which it has as the sequence down of a link; and the    *)
(* permanent FIFO of the client, which it has as a count of messages that  *)
(* are handed out in order until they are acknowledged.                    *)
(*                                                                         *)
(* An instance runs one of the four, chosen in its initial state, and the  *)
(* others stay in their initial state.                                     *)
(***************************************************************************)
EXTENDS Transport, PtFIFO, LineBuffer

CONSTANTS
  Size, MaxEnds, Kills,   \* of PermFIFO
  MaxStored               \* bound: its MaxMsg

VARIABLES
  mode, file, fileOld, fileNew, table_client, table_disk, currentId,
  lastIdOut, lastOutOffset, nextIdInClientTable, lastIdOnDisk, ackOnDisk,
  takenStored, stored, ackedStored, ends,
  part    \* the part that runs

P == INSTANCE PermFIFO WITH
       MaxMsg <- MaxStored, written <- stored, acked <- ackedStored,
       taken <- takenStored

transportVars == vars
storageVars ==
  <<mode, file, fileOld, fileNew, table_client, table_disk, currentId,
    lastIdOut, lastOutOffset, nextIdInClientTable, lastIdOnDisk, ackOnDisk,
    takenStored, stored, ackedStored, ends>>
deliveryVars == <<transportVars, fifoVars, lineVars, storageVars, part>>

DeliveryInit ==
  /\ Init /\ FIFOInit /\ LineBufferInit /\ P!Init
  /\ part \in {"transfer", "fifo", "lines", "storage"}
  /\ part = "fifo" \/ data[size] = NULL

Transfer(A) ==
  part = "transfer" /\ A /\ UNCHANGED <<fifoVars, lineVars, storageVars, part>>
FIFO(A) ==
  part = "fifo" /\ A /\ UNCHANGED <<transportVars, lineVars, storageVars, part>>
Lines(A) ==
  part = "lines" /\ A /\ UNCHANGED <<transportVars, fifoVars, storageVars, part>>
Storage(A) ==
  part = "storage" /\ A /\ UNCHANGED <<transportVars, fifoVars, lineVars, part>>

DeliveryNext ==
  Transfer(Next) \/ FIFO(FIFONext) \/ Lines(LineBufferNext) \/ Storage(P!Next)

(* The fairness of Transport and that of PermFIFO.                         *)
DeliverySpec ==
  /\ DeliveryInit /\ [][DeliveryNext]_deliveryVars
  /\ \A c \in Client : WF_deliveryVars(Transfer(ClientStep(c)))
  /\ WF_deliveryVars(Transfer(Accept)) /\ WF_deliveryVars(Transfer(Push))
  /\ \A s \in Slot : /\ WF_deliveryVars(Transfer(Read(s) \/ ReadEnd(s)))
                     /\ WF_deliveryVars(Transfer(SendAcks(s)))
  /\ WF_deliveryVars(Transfer(GetFile)) /\ WF_deliveryVars(Transfer(AckFile))
  /\ WF_deliveryVars(Storage(P!Read)) /\ WF_deliveryVars(Storage(P!Ack))
  /\ WF_deliveryVars(Storage(P!Start))

-----------------------------------------------------------------------------
(* The permanent FIFO implements DurableQueue: order, and no loss but of   *)
(* the newest unsaved messages, through stops, kills and start-ups.        *)
ImplementsQueue == P!ImplementsQueue

(* A message that the permanent FIFO holds does not stay there for ever    *)
(* while the transport client keeps reading and acknowledging.             *)
PendingDrains == P!PendingDrains
=============================================================================
