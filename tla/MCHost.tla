------------------------------- MODULE MCHost -------------------------------
(***************************************************************************)
(* The way of a message to the disk of its host: the connection of a       *)
(* process that logs to infoLoggerD, the reception by infoLoggerD, and the *)
(* file-backed FIFO in which it keeps what it sends on.  They meet at a    *)
(* socket and at a function call, and share no state: an instance runs one *)
(* of them, chosen in its initial state, and the others stay in their      *)
(* initial state.                                                          *)
(***************************************************************************)
EXTENDS PermFIFO, DaemonRx, InfoLoggerClient

VARIABLE part    \* the part that runs

storageVars == vars
hostVars == <<storageVars, rxVars, clientVars, part>>

HostInit ==
  /\ Init /\ RxInit /\ ClientInit
  /\ part \in {"client", "reception", "storage"}
  /\ part = "client" \/ txSocket = "open"

Connection(A) == part = "client" /\ A /\ UNCHANGED <<storageVars, rxVars, part>>
Reception(A) == part = "reception" /\ A /\ UNCHANGED <<storageVars, clientVars, part>>
Storage(A) == part = "storage" /\ A /\ UNCHANGED <<rxVars, clientVars, part>>

HostNext == Connection(ClientNext) \/ Reception(RxNext) \/ Storage(Next)

(* The fairness of InfoLoggerClient and of DaemonRx.                       *)
HostSpec ==
  /\ HostInit /\ [][HostNext]_hostVars
  /\ \A t \in Caller : WF_hostVars(Connection(SendStep(t)))
  /\ WF_hostVars(Connection(ReconnectAborted \/ FlushOne \/ Flushed \/ Leave))
  /\ SF_hostVars(Connection(Reconnect))
  /\ WF_hostVars(Connection(Destroyed))
  /\ WF_hostVars(Reception(Daemon))
=============================================================================
