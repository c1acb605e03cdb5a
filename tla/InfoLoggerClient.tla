-------------------------- MODULE InfoLoggerClient --------------------------
(***************************************************************************)
(* The connection of a process that logs to the local infoLoggerD          *)
(* (InfoLoggerClient.cxx): send() writes to a UNIX socket; when that fails *)
(* the messages are kept in a buffer, and a thread tries to reconnect and  *)
(* to flush it.  send() and the thread share the socket and the buffer     *)
(* under a mutex; the destructor and send() join the thread.               *)
(*                                                                         *)
(* A message is the rank of its call to send(), in the order in which the  *)
(* calls obtain the mutex.  A socket is open or not, and its other end is  *)
(* held by the daemon or was closed.                                       *)
(***************************************************************************)
EXTENDS Integers, Sequences, FiniteSets

CONSTANTS
  Caller,               \* threads of the process that log
  maxMessagesBuffered,
  MaxSends,             \* bound: number of calls to send()
  MaxCloses,            \* bound: times the daemon closes the connection
  Closes                \* when it may do so: see CloseTimes

CloseTimes == {"not flushing", "flushing"}

Nobody == "nobody"
Thread == "reconnect"

ASSUME ClientAssumption ==
  /\ Caller \cap {Nobody, Thread} = {}
  /\ maxMessagesBuffered \in Nat /\ MaxSends \in Nat /\ MaxCloses \in Nat
  /\ Closes \subseteq CloseTimes

VARIABLES
  pc,              \* per caller: where it is in send()
  message,         \* per caller: the message it sends
  mutex,           \* Nobody, a caller or Thread
  txSocket,        \* "none", or "open"
  peer,            \* the other end: "daemon" or "closed"
  messageBuffer,
  reconnectThread, \* "none", "loop", "flush", "leave" (unlocked), "ended"
  reconnectAbort,
  destructor,      \* "no", "join", "done"
  inSocket,        \* messages written that the daemon has not read yet
  received,        \* messages the daemon has read
  calls,           \* number of calls to send() so far
  closes

threadVars == <<reconnectThread, reconnectAbort>>
readVars == <<received, closes>>
clientVars == <<pc, message, mutex, txSocket, peer, messageBuffer, threadVars,
          destructor, inSocket, calls, readVars>>

-----------------------------------------------------------------------------
(* The constructor connects or, when that fails, starts the thread.        *)
ClientInit ==
  /\ pc = [t \in Caller |-> "idle"] /\ message = [t \in Caller |-> 0]
  /\ mutex = Nobody
  /\ messageBuffer = <<>> /\ inSocket = <<>> /\ received = <<>>
  /\ reconnectAbort = FALSE /\ destructor = "no" /\ calls = 0 /\ closes = 0
  /\ \/ txSocket = "open" /\ peer = "daemon" /\ reconnectThread = "none"
     \/ txSocket = "none" /\ peer = "closed" /\ reconnectThread = "loop"

-----------------------------------------------------------------------------
(* send() is called: it waits for the mutex.                               *)
Call(t) ==
  /\ pc[t] = "idle" /\ destructor = "no"
  /\ calls + Cardinality({u \in Caller : pc[u] = "lock"}) < MaxSends
  /\ pc' = [pc EXCEPT ![t] = "lock"]
  /\ UNCHANGED <<message, mutex, txSocket, peer, messageBuffer, threadVars,
                 destructor, inSocket, calls, readVars>>

(* The mutex is taken.  With a socket, a previous thread has to be joined; *)
(* without, the message is for the buffer.                                 *)
Lock(t) ==
  /\ pc[t] = "lock"
  /\ mutex = Nobody
  /\ calls' = calls + 1
  /\ message' = [message EXCEPT ![t] = calls']
  /\ mutex' = t
  /\ IF txSocket = "open"
     THEN /\ pc' = [pc EXCEPT ![t] = "join"]
          /\ reconnectAbort' = IF reconnectThread # "none" THEN TRUE
                                                           ELSE reconnectAbort
     ELSE pc' = [pc EXCEPT ![t] = "buffer"] /\ UNCHANGED reconnectAbort
  /\ UNCHANGED <<txSocket, peer, messageBuffer, reconnectThread, destructor,
                 inSocket, readVars>>

(* Mutant: send() does not wait for the end of the previous thread.        *)
JoinNoWait(t) ==
  /\ pc[t] = "join"
  /\ pc' = [pc EXCEPT ![t] = "write"]
  /\ UNCHANGED <<message, mutex, txSocket, peer, messageBuffer, threadVars,
                 destructor, inSocket, calls, readVars>>

Join(t) ==
  /\ pc[t] = "join"
  /\ reconnectThread \in {"none", "ended"}
  /\ reconnectThread' = "none"
  /\ pc' = [pc EXCEPT ![t] = "write"]
  /\ UNCHANGED <<message, mutex, txSocket, peer, messageBuffer, reconnectAbort,
                 destructor, inSocket, calls, readVars>>

(* Mutant: reconnectThreadStart does not reset reconnectAbort.             *)
WriteKeepsAbort(t) ==
  /\ pc[t] = "write"
  /\ \/ /\ peer = "daemon"
        /\ inSocket' = Append(inSocket, message[t])
        /\ pc' = [pc EXCEPT ![t] = "idle"]
        /\ mutex' = Nobody
        /\ UNCHANGED <<txSocket, threadVars>>
     \/ /\ peer = "closed"
        /\ pc' = [pc EXCEPT ![t] = "buffer"]
        /\ txSocket' = "none"
        /\ reconnectThread' = "loop"
        /\ UNCHANGED <<reconnectAbort, inSocket, mutex>>
  /\ UNCHANGED <<message, peer, messageBuffer, destructor, calls, readVars>>

(* The call returns 0, or the socket is closed and the thread is started.  *)
WriteMessage(t) ==
  /\ pc[t] = "write"
  /\ \/ /\ peer = "daemon"
        /\ inSocket' = Append(inSocket, message[t])
        /\ pc' = [pc EXCEPT ![t] = "idle"]
        /\ mutex' = Nobody
        /\ UNCHANGED <<txSocket, threadVars>>
     \/ /\ peer = "closed"
        /\ pc' = [pc EXCEPT ![t] = "buffer"]
        /\ txSocket' = "none"
        /\ reconnectAbort' = FALSE
        /\ reconnectThread' = "loop"
        /\ UNCHANGED <<inSocket, mutex>>
  /\ UNCHANGED <<message, peer, messageBuffer, destructor, calls, readVars>>

(* Mutant: the mutex is not given back when the buffer is full.            *)
BufferUnchanged ==
  UNCHANGED <<message, txSocket, peer, threadVars, destructor, inSocket,
              calls, readVars>>
BufferKeepsMutex(t) ==
  /\ pc[t] = "buffer"
  /\ pc' = [pc EXCEPT ![t] = "idle"]
  /\ IF Len(messageBuffer) < maxMessagesBuffered
     THEN messageBuffer' = Append(messageBuffer, message[t]) /\ mutex' = Nobody
     ELSE UNCHANGED <<messageBuffer, mutex>>
  /\ BufferUnchanged

(* The call returns -1; when the buffer is full the message is lost.       *)
Buffer(t) ==
  /\ pc[t] = "buffer"
  /\ messageBuffer' = IF Len(messageBuffer) < maxMessagesBuffered
                      THEN Append(messageBuffer, message[t]) ELSE messageBuffer
  /\ pc' = [pc EXCEPT ![t] = "idle"]
  /\ mutex' = Nobody
  /\ BufferUnchanged

SendStep(t) == Lock(t) \/ Join(t) \/ WriteMessage(t) \/ Buffer(t)

-----------------------------------------------------------------------------
(* The thread of reconnect(): end when asked to, else (after the timer)    *)
(* try the mutex and connect; a failure leaves everything as it was.       *)
ThreadUnchanged == UNCHANGED <<pc, message, destructor, calls, readVars>>

ReconnectAborted ==
  /\ reconnectThread = "loop" /\ reconnectAbort
  /\ reconnectThread' = "ended"
  /\ UNCHANGED <<mutex, txSocket, peer, messageBuffer, reconnectAbort, inSocket>>
  /\ ThreadUnchanged

(* Mutant: the mutex is not held while the buffer is flushed.              *)
ReconnectUnlocked ==
  /\ reconnectThread = "loop" /\ ~reconnectAbort
  /\ mutex = Nobody
  /\ reconnectThread' = "flush"
  /\ txSocket' = "open" /\ peer' = "daemon" /\ inSocket' = <<>>
  /\ UNCHANGED <<mutex, messageBuffer, reconnectAbort>>
  /\ ThreadUnchanged

Reconnect ==
  /\ reconnectThread = "loop" /\ ~reconnectAbort
  /\ mutex = Nobody
  /\ mutex' = Thread
  /\ reconnectThread' = "flush"
  /\ txSocket' = "open" /\ peer' = "daemon" /\ inSocket' = <<>>
  /\ UNCHANGED <<messageBuffer, reconnectAbort>>
  /\ ThreadUnchanged

(* One turn of the loop over the buffer: the message goes, or the socket   *)
(* is closed; the loop ends when the buffer is empty.                      *)
FlushOne ==
  /\ reconnectThread = "flush"
  /\ messageBuffer # <<>>
  /\ IF txSocket = "open" /\ peer = "daemon"
     THEN /\ inSocket' = Append(inSocket, Head(messageBuffer))
          /\ messageBuffer' = Tail(messageBuffer)
          /\ UNCHANGED txSocket
     ELSE /\ txSocket' = "none"
          /\ UNCHANGED <<inSocket, messageBuffer>>
  /\ UNCHANGED <<mutex, peer, threadVars>>
  /\ ThreadUnchanged

(* (The other exit, after a failure, is not there: the buffer is empty     *)
(* only when no message failed.)                                           *)
Flushed ==
  /\ reconnectThread = "flush"
  /\ messageBuffer = <<>>
  /\ mutex' = Nobody
  /\ reconnectThread' = "leave"
  /\ UNCHANGED <<txSocket, peer, messageBuffer, reconnectAbort, inSocket>>
  /\ ThreadUnchanged

Leave ==
  /\ reconnectThread = "leave"
  /\ reconnectThread' = "ended"
  /\ UNCHANGED <<mutex, txSocket, peer, messageBuffer, reconnectAbort, inSocket>>
  /\ ThreadUnchanged

ThreadStep == ReconnectAborted \/ Reconnect \/ FlushOne \/ Flushed \/ Leave

-----------------------------------------------------------------------------
(* The destructor, when no call is in progress.                            *)
DestroyClient ==
  /\ destructor = "no"
  /\ \A t \in Caller : pc[t] = "idle"
  /\ destructor' = "join"
  /\ reconnectAbort' = IF reconnectThread # "none" THEN TRUE ELSE reconnectAbort
  /\ UNCHANGED <<pc, message, mutex, txSocket, peer, messageBuffer,
                 reconnectThread, inSocket, calls, readVars>>

Destroyed ==
  /\ destructor = "join"
  /\ reconnectThread \in {"none", "ended"}
  /\ reconnectThread' = "none"
  /\ destructor' = "done"
  /\ txSocket' = "none"
  /\ UNCHANGED <<pc, message, mutex, peer, messageBuffer, reconnectAbort,
                 inSocket, calls, readVars>>

-----------------------------------------------------------------------------
(* infoLoggerD: reads what was sent; closes the connection when it stops,  *)
(* or at once when it has too many clients, with what it has not read.     *)
DaemonRead ==
  /\ peer = "daemon" /\ inSocket # <<>>
  /\ received' = Append(received, Head(inSocket))
  /\ inSocket' = Tail(inSocket)
  /\ UNCHANGED <<pc, message, mutex, txSocket, peer, messageBuffer, threadVars,
                 destructor, calls, closes>>

DaemonClose ==
  /\ peer = "daemon"
  /\ closes < MaxCloses
  /\ closes' = closes + 1
  /\ \/ "not flushing" \in Closes /\ mutex # Thread
     \/ "flushing" \in Closes /\ mutex = Thread
  /\ peer' = "closed" /\ inSocket' = <<>>
  /\ UNCHANGED <<pc, message, mutex, txSocket, messageBuffer, threadVars,
                 destructor, calls, received>>

-----------------------------------------------------------------------------
ClientNext ==
  \/ \E t \in Caller : Call(t) \/ SendStep(t)
  \/ ThreadStep
  \/ DestroyClient \/ Destroyed
  \/ DaemonRead \/ DaemonClose

ClientSpec == ClientInit /\ [][ClientNext]_clientVars

(* The callers inside send(), the thread and the destructor are scheduled. *)
(* The thread's try_lock succeeds some day when the mutex is free again    *)
(* and again, and the daemon is there again some day.                      *)
ClientFairSpec ==
  /\ ClientSpec
  /\ \A t \in Caller : WF_clientVars(SendStep(t))
  /\ WF_clientVars(ReconnectAborted \/ FlushOne \/ Flushed \/ Leave)
  /\ SF_clientVars(Reconnect)
  /\ WF_clientVars(Destroyed)

-----------------------------------------------------------------------------
(* Messages leave in the order of the calls, none twice: those buffered    *)
(* while the daemon was away go before any sent after the reconnection.    *)
SentInOrder ==
  LET all == received \o inSocket \o messageBuffer
  IN  \A i, j \in 1 .. Len(all) : i < j => all[i] < all[j]

(* send() never starts a second thread over one that still runs (which     *)
(* would end the process), and none is left when the object is gone.       *)
OneThread ==
  /\ \A t \in Caller : pc[t] = "write" => reconnectThread = "none"
  /\ destructor = "done" => reconnectThread = "none"

(* A call to send() returns, and so does the destructor: neither waits for *)
(* a mutex never given back, nor, holding it, for a thread that wants it.  *)
CallsReturn ==
  /\ \A t \in Caller : pc[t] # "idle" ~> pc[t] = "idle"
  /\ destructor = "join" ~> destructor = "done"

(* "Failed to flush buffer, will reconnect": a client without a socket     *)
(* gets one, as long as it is not destroyed.                               *)
WillReconnect == txSocket = "none" ~> txSocket = "open" \/ destructor # "no"

=============================================================================
