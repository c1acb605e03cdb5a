----------------------------- MODULE HostProofs -----------------------------
(***************************************************************************)
(* Proofs about a host that logs: the library, and both ends of its        *)
(* connection to infoLoggerD.                                              *)
(*                                                                         *)
(* The process that logs (InfoLoggerClient), for any number of threads,    *)
(* calls and lost connections, and any size of the buffer: send() and the  *)
(* destructor never meet a thread that still runs, and messages leave in   *)
(* the order of the calls.                                                 *)
(*                                                                         *)
(* The reception by infoLoggerD (DaemonRx), for any number of clients and  *)
(* bytes, length of lines and limit on connections: poll's answers are     *)
(* looked up where the client's own socket is, and however the reads cut   *)
(* what a client writes, each byte of its text is passed on once.          *)
(*                                                                         *)
(* The protection against floods of messages (InfoLoggerAPI), for any      *)
(* limits and any times of the calls: what goes out in one second is       *)
(* bounded, and each message is sent, stored in the file or dropped, as    *)
(* the notices say.                                                        *)
(*                                                                         *)
(* The messages of one place in the code (AutoMute), for any limit and     *)
(* interval: no more of them go out between two reports than the limit,    *)
(* and every one that does not is counted in one report.                   *)
(*                                                                         *)
(* The redirection of the standard output (Redirection), for any number of *)
(* texts, messages and redirections: the terminal gets what is printed     *)
(* once and in order, and each message once, but for what is dropped when  *)
(* a redirection ends.                                                     *)
(***************************************************************************)
EXTENDS InfoLoggerClient, DaemonRx, InfoLoggerAPI, AutoMute, Redirection,
        OrderedSequences, FiniteSetTheorems

ClientTypeOK ==
  /\ pc \in [Caller -> {"idle", "lock", "join", "write", "buffer"}]
  /\ message \in [Caller -> Nat]
  /\ mutex \in Caller \union {Nobody, Thread}
  /\ txSocket \in {"none", "open"} /\ peer \in {"daemon", "closed"}
  /\ reconnectThread \in {"none", "loop", "flush", "leave", "ended"}
  /\ destructor \in {"no", "join", "done"}
  /\ calls \in Nat
  /\ messageBuffer \in Seq(Nat) /\ inSocket \in Seq(Nat) /\ received \in Seq(Nat)

(* A caller past the mutex holds it, with the message of the last call; it *)
(* closes or uses the socket that it found, and when it writes no thread   *)
(* is left.                                                                *)
Holds(t) == pc[t] \in {"join", "write", "buffer"}
CallerInv(t) ==
  /\ Holds(t) => mutex = t /\ message[t] = calls
  /\ pc[t] \in {"join", "write"} => txSocket = "open"
  /\ pc[t] = "buffer" => txSocket = "none"
  /\ pc[t] = "write" => reconnectThread = "none"

(* The thread holds the mutex while it flushes; nothing waits in the       *)
(* buffer behind a socket that callers may use.                            *)
ThreadInv ==
  /\ reconnectThread = "flush" <=> mutex = Thread
  /\ txSocket = "open" /\ reconnectThread # "flush" => messageBuffer = <<>>

DestructorInv ==
  /\ destructor # "no" => \A t \in Caller : pc[t] = "idle"
  /\ destructor = "done" => reconnectThread = "none"

(* What was received, is on its way and waits is in order; the message of  *)
(* the caller that holds the mutex is above all of it.                     *)
OrderInv ==
  /\ Increasing(received) /\ Increasing(inSocket) /\ Increasing(messageBuffer)
  /\ Precedes(received, inSocket) /\ Precedes(received, messageBuffer)
  /\ Precedes(inSocket, messageBuffer)
UpTo(n) ==
  AllBelow(received, n) /\ AllBelow(inSocket, n) /\ AllBelow(messageBuffer, n)
CallsInv ==
  /\ UpTo(calls + 1)
  /\ \A t \in Caller : Holds(t) => UpTo(calls)

ClientInv ==
  /\ ClientTypeOK /\ (\A t \in Caller : CallerInv(t)) /\ ThreadInv /\ DestructorInv
  /\ OrderInv /\ CallsInv

-----------------------------------------------------------------------------
(* A bound holds of a higher number.                                       *)
LEMMA BoundRaised ==
  ASSUME NEW s \in Seq(Nat), NEW n \in Nat, AllBelow(s, n)
  PROVE  AllBelow(s, n + 1)
<1>1. \A i \in 1 .. Len(s) : s[i] \in Nat
  OBVIOUS
<1> QED BY <1>1 DEF AllBelow

(* The constructor.                                                        *)
LEMMA ClientInvInit == ClientInit => ClientInv
<1> SUFFICES ASSUME ClientInit PROVE ClientInv
  OBVIOUS
<1>1. ClientTypeOK
  BY DEF ClientInit, ClientTypeOK
<1>2. \A t \in Caller : pc[t] = "idle"
  BY DEF ClientInit
<1>3. ThreadInv
  BY DEF ClientInit, ThreadInv, Nobody, Thread
<1>4. OrderInv /\ CallsInv
  BY <1>2, EmptyOrdered DEF ClientInit, OrderInv, CallsInv, UpTo, Holds
<1> QED BY <1>1, <1>2, <1>3, <1>4 DEF ClientInv, CallerInv, Holds, DestructorInv, ClientInit

(* A caller waits for the mutex.                                           *)
LEMMA CallKeepsInv ==
  ASSUME ClientInv, NEW t \in Caller, Call(t)
  PROVE  ClientInv'
<1>0. /\ pc[t] = "idle" /\ pc' = [pc EXCEPT ![t] = "lock"] /\ destructor = "no"
      /\ UNCHANGED <<message, mutex, txSocket, peer, messageBuffer, reconnectThread,
                     destructor, inSocket, calls, received>>
  BY DEF Call, threadVars, readVars
<1>1. ClientTypeOK'
  BY <1>0 DEF ClientInv, ClientTypeOK
<1>2. \A u \in Caller : IF u = t THEN pc'[u] = "lock" ELSE pc'[u] = pc[u]
  BY <1>0 DEF ClientInv, ClientTypeOK
<1>3. \A u \in Caller : Holds(u)' => Holds(u)
  BY <1>2 DEF Holds
<1>4. \A u \in Caller : CallerInv(u)'
  BY <1>0, <1>2, <1>3 DEF ClientInv, CallerInv
<1>5. ThreadInv' /\ DestructorInv' /\ OrderInv'
  BY <1>0 DEF ClientInv, ThreadInv, DestructorInv, OrderInv
<1>6. CallsInv'
  BY <1>0, <1>3 DEF ClientInv, CallsInv, UpTo
<1> QED BY <1>1, <1>4, <1>5, <1>6 DEF ClientInv

(* The mutex is taken; the message gets the next number.                   *)
LEMMA LockKeepsInv ==
  ASSUME ClientInv, NEW t \in Caller, Lock(t)
  PROVE  ClientInv'
<1>0. /\ pc[t] = "lock" /\ mutex = Nobody /\ mutex' = t /\ calls' = calls + 1
      /\ message' = [message EXCEPT ![t] = calls']
      /\ \/ txSocket = "open" /\ pc' = [pc EXCEPT ![t] = "join"]
         \/ txSocket # "open" /\ pc' = [pc EXCEPT ![t] = "buffer"]
      /\ UNCHANGED <<txSocket, peer, messageBuffer, reconnectThread, destructor,
                     inSocket, received>>
  BY DEF Lock, readVars
<1>t. t # Nobody /\ t # Thread /\ Nobody # Thread /\ \A u \in Caller : u # Nobody
  BY ClientAssumption DEF Nobody, Thread
<1>1. ClientTypeOK'
  <2>1. calls' \in Nat
    BY <1>0 DEF ClientInv, ClientTypeOK
  <2>2. message' \in [Caller -> Nat]
    BY <1>0, <2>1 DEF ClientInv, ClientTypeOK
  <2>3. pc' \in [Caller -> {"idle", "lock", "join", "write", "buffer"}]
    BY <1>0 DEF ClientInv, ClientTypeOK
  <2> QED BY <1>0, <2>1, <2>2, <2>3 DEF ClientInv, ClientTypeOK
<1>2. \A u \in Caller :
        IF u = t THEN /\ message'[u] = calls + 1
                      /\ pc'[u] = IF txSocket = "open" THEN "join" ELSE "buffer"
        ELSE pc'[u] = pc[u] /\ message'[u] = message[u]
  BY <1>0 DEF ClientInv, ClientTypeOK
<1>3. \A u \in Caller : ~Holds(u)
  BY <1>0, <1>t DEF ClientInv, CallerInv
<1>4. ASSUME NEW u \in Caller PROVE CallerInv(u)'
  <2>1. CASE u = t
    BY <1>0, <1>2, <2>1 DEF CallerInv, Holds, ClientInv, ClientTypeOK
  <2>2. CASE u # t
    BY <1>0, <1>2, <1>3, <2>2 DEF CallerInv, Holds
  <2> QED BY <2>1, <2>2
<1>5. ThreadInv' /\ OrderInv'
  BY <1>0, <1>t DEF ClientInv, ThreadInv, OrderInv
<1>6. DestructorInv'
  <2>1. destructor = "no"
    BY <1>0 DEF ClientInv, DestructorInv, ClientTypeOK
  <2> QED BY <1>0, <2>1 DEF DestructorInv
<1>7. CallsInv'
  <2>1. /\ AllBelow(received, calls + 1) /\ AllBelow(inSocket, calls + 1)
        /\ AllBelow(messageBuffer, calls + 1)
    BY DEF ClientInv, CallsInv, UpTo
  <2>2. calls + 1 \in Nat /\ received \in Seq(Nat) /\ inSocket \in Seq(Nat)
        /\ messageBuffer \in Seq(Nat)
    BY DEF ClientInv, ClientTypeOK
  <2>3. /\ AllBelow(received, calls' + 1) /\ AllBelow(inSocket, calls' + 1)
        /\ AllBelow(messageBuffer, calls' + 1)
    BY <1>0, <2>1, <2>2, BoundRaised
  <2> QED BY <1>0, <2>1, <2>3 DEF CallsInv, UpTo
<1> QED BY <1>1, <1>4, <1>5, <1>6, <1>7 DEF ClientInv

(* The previous thread has ended.                                          *)
LEMMA JoinKeepsInv ==
  ASSUME ClientInv, NEW t \in Caller, Join(t)
  PROVE  ClientInv'
<1>0. /\ pc[t] = "join" /\ pc' = [pc EXCEPT ![t] = "write"]
      /\ reconnectThread \in {"none", "ended"} /\ reconnectThread' = "none"
      /\ UNCHANGED <<message, mutex, txSocket, peer, messageBuffer,
                     destructor, inSocket, calls, received>>
  BY DEF Join, readVars
<1>1. ClientTypeOK'
  BY <1>0 DEF ClientInv, ClientTypeOK
<1>2. \A u \in Caller : IF u = t THEN pc'[u] = "write" ELSE pc'[u] = pc[u]
  BY <1>0 DEF ClientInv, ClientTypeOK
<1>3. \A u \in Caller : Holds(u)' => Holds(u)
  BY <1>0, <1>2 DEF Holds
<1>4. \A u \in Caller : CallerInv(u)'
  BY <1>0, <1>2, <1>3 DEF ClientInv, CallerInv
<1>5. ThreadInv' /\ OrderInv'
  BY <1>0 DEF ClientInv, ThreadInv, OrderInv
<1>6. DestructorInv'
  BY <1>0 DEF ClientInv, DestructorInv
<1>7. CallsInv'
  BY <1>0, <1>3 DEF ClientInv, CallsInv, UpTo
<1> QED BY <1>1, <1>4, <1>5, <1>6, <1>7 DEF ClientInv

(* Only the caller that holds the mutex is past it.                        *)
LEMMA OthersOut ==
  ASSUME ClientInv, NEW t \in Caller, Holds(t)
  PROVE  /\ mutex = t /\ message[t] = calls /\ mutex # Thread /\ UpTo(calls)
         /\ \A u \in Caller : u # t => ~Holds(u)
         /\ destructor = "no" /\ reconnectThread # "flush"
<1>1. mutex = t /\ message[t] = calls /\ \A u \in Caller : u # t => ~Holds(u)
  BY DEF ClientInv, CallerInv
<1>2. t # Thread
  BY ClientAssumption DEF Thread
<1>3. reconnectThread # "flush"
  BY <1>1, <1>2 DEF ClientInv, ThreadInv
<1>4. UpTo(calls)
  BY DEF ClientInv, CallsInv
<1>5. destructor = "no"
  BY DEF ClientInv, DestructorInv, Holds
<1> QED BY <1>1, <1>2, <1>3, <1>4, <1>5

(* The message goes to the socket: nothing is in the buffer.               *)
LEMMA WriteKeepsInv ==
  ASSUME ClientInv, NEW t \in Caller, WriteMessage(t)
  PROVE  ClientInv'
<1>0. /\ pc[t] = "write" /\ Holds(t) /\ txSocket = "open" /\ reconnectThread = "none"
      /\ UNCHANGED <<message, peer, messageBuffer, destructor, calls, received>>
  BY DEF WriteMessage, readVars, ClientInv, CallerInv, Holds
<1>1. /\ mutex = t /\ message[t] = calls /\ mutex # Thread /\ UpTo(calls)
      /\ \A u \in Caller : u # t => ~Holds(u)
      /\ destructor = "no" /\ reconnectThread # "flush" /\ messageBuffer = <<>>
  BY <1>0, OthersOut DEF ClientInv, ThreadInv
<1>t. /\ received \in Seq(Nat) /\ inSocket \in Seq(Nat) /\ calls \in Nat
      /\ pc \in [Caller -> {"idle", "lock", "join", "write", "buffer"}]
  BY DEF ClientInv, ClientTypeOK
<1>2. CASE /\ inSocket' = Append(inSocket, message[t])
           /\ pc' = [pc EXCEPT ![t] = "idle"] /\ mutex' = Nobody
           /\ UNCHANGED <<txSocket, threadVars>>
  <2>1. ClientTypeOK'
    BY <1>0, <1>1, <1>2, AppendProperties DEF ClientInv, ClientTypeOK, threadVars
  <2>2. \A u \in Caller : IF u = t THEN pc'[u] = "idle" ELSE pc'[u] = pc[u]
    BY <1>2, <1>t
  <2>3. \A u \in Caller : ~Holds(u)'
    BY <1>1, <2>2 DEF Holds
  <2>4. \A u \in Caller : CallerInv(u)'
    BY <2>3 DEF CallerInv, Holds
  <2>5. ThreadInv'
    BY <1>0, <1>1, <1>2 DEF ThreadInv, threadVars, Nobody, Thread
  <2>6. DestructorInv'
    BY <1>0, <1>1 DEF DestructorInv
  <2>7. OrderInv' /\ CallsInv'
    <3>1. /\ AllBelow(received, calls) /\ AllBelow(inSocket, calls)
          /\ Increasing(received) /\ Increasing(inSocket) /\ Precedes(received, inSocket)
      BY <1>1 DEF ClientInv, OrderInv, UpTo
    <3>2. inSocket' = Append(inSocket, calls)
      BY <1>1, <1>2
    <3>3. Increasing(inSocket') /\ Precedes(received, inSocket')
      BY <1>t, <3>1, <3>2, AppendIncreasing, AppendBounds
    <3>4. /\ AllBelow(received, calls + 1) /\ AllBelow(inSocket, calls + 1)
      BY <1>t, <3>1, BoundRaised
    <3>5. AllBelow(inSocket', calls + 1)
      BY <1>t, <3>2, <3>4, AppendBounds
    <3> QED BY <1>0, <1>1, <2>3, <3>1, <3>3, <3>4, <3>5, EmptyOrdered
            DEF OrderInv, CallsInv, UpTo
  <2> QED BY <2>1, <2>4, <2>5, <2>6, <2>7 DEF ClientInv
<1>3. CASE /\ pc' = [pc EXCEPT ![t] = "buffer"] /\ txSocket' = "none"
           /\ reconnectThread' = "loop" /\ UNCHANGED <<inSocket, mutex>>
  <2>1. ClientTypeOK'
    BY <1>0, <1>3 DEF ClientInv, ClientTypeOK
  <2>2. \A u \in Caller : IF u = t THEN pc'[u] = "buffer" ELSE pc'[u] = pc[u]
    BY <1>3, <1>t
  <2>3. \A u \in Caller : CallerInv(u)'
    BY <1>0, <1>1, <1>3, <2>2 DEF CallerInv, Holds
  <2>4. ThreadInv' /\ DestructorInv' /\ OrderInv'
    BY <1>0, <1>1, <1>3 DEF ClientInv, ThreadInv, DestructorInv, OrderInv
  <2>5. CallsInv'
    BY <1>0, <1>1, <1>3 DEF ClientInv, CallsInv, UpTo
  <2> QED BY <2>1, <2>3, <2>4, <2>5 DEF ClientInv
<1> QED BY <1>2, <1>3 DEF WriteMessage

(* The message goes to the buffer, if there is room.                       *)
LEMMA BufferKeepsInv ==
  ASSUME ClientInv, NEW t \in Caller, Buffer(t)
  PROVE  ClientInv'
<1>0. /\ pc[t] = "buffer" /\ Holds(t) /\ txSocket = "none" /\ mutex' = Nobody
      /\ pc' = [pc EXCEPT ![t] = "idle"]
      /\ messageBuffer' \in {messageBuffer, Append(messageBuffer, message[t])}
      /\ UNCHANGED <<message, txSocket, peer, reconnectThread, destructor, inSocket,
                     calls, received>>
  BY DEF Buffer, BufferUnchanged, threadVars, readVars, ClientInv, CallerInv, Holds
<1>1. /\ mutex = t /\ message[t] = calls /\ mutex # Thread /\ UpTo(calls)
      /\ \A u \in Caller : u # t => ~Holds(u)
      /\ destructor = "no" /\ reconnectThread # "flush"
  BY <1>0, OthersOut
<1>t. /\ received \in Seq(Nat) /\ inSocket \in Seq(Nat) /\ messageBuffer \in Seq(Nat)
      /\ calls \in Nat
      /\ pc \in [Caller -> {"idle", "lock", "join", "write", "buffer"}]
  BY DEF ClientInv, ClientTypeOK
<1>2. ClientTypeOK'
  <2>1. messageBuffer' \in Seq(Nat)
    <3>1. Append(messageBuffer, calls) \in Seq(Nat)
      BY <1>t, AppendProperties
    <3> QED BY <1>0, <1>1, <1>t, <3>1
  <2> QED BY <1>0, <2>1 DEF ClientInv, ClientTypeOK
<1>3. \A u \in Caller : IF u = t THEN pc'[u] = "idle" ELSE pc'[u] = pc[u]
  BY <1>0, <1>t
<1>4. \A u \in Caller : ~Holds(u)'
  BY <1>1, <1>3 DEF Holds
<1>5. \A u \in Caller : CallerInv(u)'
  BY <1>4 DEF CallerInv, Holds
<1>6. ThreadInv' /\ DestructorInv'
  BY <1>0, <1>1 DEF ThreadInv, DestructorInv, Nobody, Thread
<1>7. OrderInv' /\ CallsInv'
  <2>1. /\ AllBelow(received, calls) /\ AllBelow(inSocket, calls)
        /\ AllBelow(messageBuffer, calls)
        /\ Increasing(received) /\ Increasing(inSocket) /\ Increasing(messageBuffer)
        /\ Precedes(received, inSocket) /\ Precedes(received, messageBuffer)
        /\ Precedes(inSocket, messageBuffer)
    BY <1>1 DEF ClientInv, OrderInv, UpTo
  <2>2. /\ AllBelow(received, calls + 1) /\ AllBelow(inSocket, calls + 1)
        /\ AllBelow(messageBuffer, calls + 1)
    BY <1>t, <2>1, BoundRaised
  <2>3. /\ Increasing(messageBuffer') /\ Precedes(received, messageBuffer')
        /\ Precedes(inSocket, messageBuffer') /\ AllBelow(messageBuffer', calls + 1)
    <3>1. CASE messageBuffer' = messageBuffer
      BY <2>1, <2>2, <3>1
    <3>2. CASE messageBuffer' = Append(messageBuffer, calls)
      BY <1>t, <2>1, <2>2, <3>2, AppendIncreasing, AppendBounds
    <3> QED BY <1>0, <1>1, <3>1, <3>2
  <2> QED BY <1>0, <1>4, <2>1, <2>2, <2>3 DEF OrderInv, CallsInv, UpTo
<1> QED BY <1>2, <1>5, <1>6, <1>7 DEF ClientInv

-----------------------------------------------------------------------------
(* The thread leaves its loop, or ends.                                    *)
LEMMA ThreadEndsKeepsInv ==
  ASSUME ClientInv, ReconnectAborted \/ Leave
  PROVE  ClientInv'
<1>0. /\ reconnectThread \in {"loop", "leave"} /\ reconnectThread' = "ended"
      /\ UNCHANGED <<pc, message, mutex, txSocket, peer, messageBuffer,
                     destructor, inSocket, calls, received>>
  BY DEF ReconnectAborted, Leave, ThreadUnchanged, readVars
<1>1. ClientTypeOK'
  BY <1>0 DEF ClientInv, ClientTypeOK
<1>2. \A u \in Caller : CallerInv(u)'
  BY <1>0 DEF ClientInv, CallerInv, Holds
<1>3. ThreadInv' /\ DestructorInv' /\ OrderInv'
  BY <1>0 DEF ClientInv, ThreadInv, DestructorInv, OrderInv
<1>4. CallsInv'
  BY <1>0 DEF ClientInv, CallsInv, UpTo, Holds
<1> QED BY <1>1, <1>2, <1>3, <1>4 DEF ClientInv

(* A new socket: what was on its way by the previous one is lost.          *)
LEMMA ReconnectKeepsInv ==
  ASSUME ClientInv, Reconnect
  PROVE  ClientInv'
<1>0. /\ reconnectThread = "loop" /\ reconnectThread' = "flush"
      /\ mutex = Nobody /\ mutex' = Thread
      /\ txSocket' = "open" /\ peer' = "daemon" /\ inSocket' = <<>>
      /\ UNCHANGED <<pc, message, messageBuffer, destructor, calls, received>>
  BY DEF Reconnect, ThreadUnchanged, readVars
<1>1. ClientTypeOK'
  BY <1>0 DEF ClientInv, ClientTypeOK
<1>2. ASSUME NEW u \in Caller PROVE ~Holds(u) /\ ~Holds(u)' /\ CallerInv(u)'
  <2>1. u # Nobody
    BY ClientAssumption
  <2>2. ~Holds(u)
    BY <1>0, <2>1 DEF ClientInv, CallerInv
  <2> QED BY <1>0, <2>2 DEF CallerInv, Holds
<1>3. ThreadInv' /\ DestructorInv'
  BY <1>0 DEF ClientInv, ThreadInv, DestructorInv
<1>4. OrderInv'
  BY <1>0, EmptyOrdered DEF ClientInv, OrderInv
<1>5. CallsInv'
  BY <1>0, <1>2, EmptyOrdered DEF ClientInv, CallsInv, UpTo
<1> QED BY <1>1, <1>2, <1>3, <1>4, <1>5 DEF ClientInv

(* The thread holds the mutex: no caller does.                             *)
LEMMA FlushAlone ==
  ASSUME ClientInv, reconnectThread = "flush", UNCHANGED pc
  PROVE  mutex = Thread /\ \A u \in Caller : ~Holds(u) /\ ~Holds(u)'
<1>1. mutex = Thread
  BY DEF ClientInv, ThreadInv
<1>2. \A u \in Caller : u # Thread
  BY ClientAssumption
<1>3. \A u \in Caller : ~Holds(u)
  BY <1>1, <1>2 DEF ClientInv, CallerInv
<1> QED BY <1>1, <1>3 DEF Holds

(* The head of the buffer goes to the end of the socket, or the socket is  *)
(* closed.                                                                 *)
LEMMA FlushKeepsInv ==
  ASSUME ClientInv, FlushOne
  PROVE  ClientInv'
<1>0. /\ reconnectThread = "flush" /\ messageBuffer # <<>>
      /\ UNCHANGED <<pc, message, mutex, peer, reconnectThread, destructor,
                     calls, received>>
      /\ \/ /\ inSocket' = Append(inSocket, Head(messageBuffer))
            /\ messageBuffer' = Tail(messageBuffer)
            /\ UNCHANGED txSocket
         \/ txSocket' = "none" /\ UNCHANGED <<inSocket, messageBuffer>>
  BY DEF FlushOne, ThreadUnchanged, threadVars, readVars
<1>1. mutex = Thread /\ \A u \in Caller : ~Holds(u) /\ ~Holds(u)'
  BY <1>0, FlushAlone
<1>2. \A u \in Caller : CallerInv(u)'
  BY <1>1 DEF CallerInv, Holds
<1>3. ThreadInv' /\ DestructorInv'
  BY <1>0, <1>1 DEF ClientInv, ThreadInv, DestructorInv
<1>t. /\ received \in Seq(Nat) /\ inSocket \in Seq(Nat) /\ messageBuffer \in Seq(Nat)
      /\ calls + 1 \in Nat
  BY DEF ClientInv, ClientTypeOK
<1>4. CASE txSocket' = "none" /\ UNCHANGED <<inSocket, messageBuffer>>
  <2>1. ClientTypeOK' /\ OrderInv'
    BY <1>0, <1>4 DEF ClientInv, ClientTypeOK, OrderInv
  <2>2. CallsInv'
    BY <1>0, <1>1, <1>4 DEF ClientInv, CallsInv, UpTo
  <2> QED BY <1>2, <1>3, <2>1, <2>2 DEF ClientInv
<1>5. CASE /\ inSocket' = Append(inSocket, Head(messageBuffer))
           /\ messageBuffer' = Tail(messageBuffer)
           /\ UNCHANGED txSocket
  <2> DEFINE x == Head(messageBuffer)
             rest == Tail(messageBuffer)
  <2>1. /\ Increasing(received) /\ Increasing(inSocket) /\ Increasing(messageBuffer)
        /\ Precedes(received, inSocket) /\ Precedes(received, messageBuffer)
        /\ Precedes(inSocket, messageBuffer)
        /\ AllBelow(received, calls + 1) /\ AllBelow(inSocket, calls + 1)
        /\ AllBelow(messageBuffer, calls + 1)
    BY DEF ClientInv, OrderInv, CallsInv, UpTo
  <2>2. /\ rest \in Seq(Nat) /\ x \in Nat
        /\ Increasing(rest) /\ AllAbove(x, rest)
        /\ AllBelow(rest, calls + 1) /\ x < calls + 1
        /\ Precedes(received, rest) /\ AllBelow(received, x)
        /\ Precedes(inSocket, rest) /\ AllBelow(inSocket, x)
    BY <1>0, <1>t, <2>1, TailOrdered
  <2> HIDE DEF x, rest
  <2>3. /\ Append(inSocket, x) \in Seq(Nat) /\ Increasing(Append(inSocket, x))
        /\ Precedes(received, Append(inSocket, x))
        /\ Precedes(Append(inSocket, x), rest)
        /\ AllBelow(Append(inSocket, x), calls + 1)
    BY <1>t, <2>1, <2>2, AppendProperties, AppendIncreasing, AppendBounds
  <2>4. inSocket' = Append(inSocket, x) /\ messageBuffer' = rest
    BY <1>5 DEF x, rest
  <2>5. ClientTypeOK' /\ OrderInv'
    BY <1>0, <1>5, <2>1, <2>2, <2>3, <2>4 DEF ClientInv, ClientTypeOK, OrderInv
  <2>6. CallsInv'
    BY <1>0, <1>1, <2>1, <2>2, <2>3, <2>4 DEF CallsInv, UpTo
  <2> QED BY <1>2, <1>3, <2>5, <2>6 DEF ClientInv
<1> QED BY <1>0, <1>4, <1>5

(* The buffer is empty: the mutex is given back.                           *)
LEMMA FlushedKeepsInv ==
  ASSUME ClientInv, Flushed
  PROVE  ClientInv'
<1>0. /\ reconnectThread = "flush" /\ messageBuffer = <<>> /\ mutex' = Nobody
      /\ reconnectThread' = "leave"
      /\ UNCHANGED <<pc, message, txSocket, peer, messageBuffer, destructor,
                     inSocket, calls, received>>
  BY DEF Flushed, ThreadUnchanged, readVars
<1>1. \A u \in Caller : ~Holds(u) /\ ~Holds(u)'
  BY <1>0, FlushAlone
<1>2. ClientTypeOK' /\ OrderInv'
  BY <1>0 DEF ClientInv, ClientTypeOK, OrderInv
<1>3. \A u \in Caller : CallerInv(u)'
  BY <1>1 DEF CallerInv, Holds
<1>4. ThreadInv' /\ DestructorInv'
  BY <1>0 DEF ClientInv, ThreadInv, DestructorInv, Nobody, Thread
<1>5. CallsInv'
  BY <1>0, <1>1 DEF ClientInv, CallsInv, UpTo
<1> QED BY <1>2, <1>3, <1>4, <1>5 DEF ClientInv

-----------------------------------------------------------------------------
(* The destructor starts when no call is in progress, and ends when the    *)
(* thread has.                                                             *)
LEMMA DestructorKeepsInv ==
  ASSUME ClientInv, DestroyClient \/ Destroyed
  PROVE  ClientInv'
<1>0. /\ UNCHANGED <<pc, message, mutex, peer, messageBuffer, inSocket, calls,
                     received>>
      /\ \/ /\ \A t \in Caller : pc[t] = "idle"
            /\ destructor' = "join" /\ UNCHANGED <<txSocket, reconnectThread>>
         \/ /\ destructor = "join" /\ destructor' = "done" /\ txSocket' = "none"
            /\ reconnectThread \in {"none", "ended"} /\ reconnectThread' = "none"
  BY DEF DestroyClient, Destroyed, readVars
<1>1. ClientTypeOK' /\ OrderInv'
  BY <1>0 DEF ClientInv, ClientTypeOK, OrderInv
<1>2. DestructorInv'
  BY <1>0 DEF ClientInv, DestructorInv
<1>3. \A u \in Caller : pc'[u] = "idle" /\ pc[u] = "idle"
  BY <1>0 DEF ClientInv, DestructorInv
<1>4. \A u \in Caller : CallerInv(u)'
  BY <1>3 DEF CallerInv, Holds
<1>5. ThreadInv'
  BY <1>0 DEF ClientInv, ThreadInv
<1>6. CallsInv'
  BY <1>0, <1>3 DEF ClientInv, CallsInv, UpTo, Holds
<1> QED BY <1>1, <1>2, <1>4, <1>5, <1>6 DEF ClientInv

(* The daemon reads the first message on its way, or closes.               *)
LEMMA DaemonKeepsInv ==
  ASSUME ClientInv, DaemonRead \/ DaemonClose
  PROVE  ClientInv'
<1>0. /\ UNCHANGED <<pc, message, mutex, txSocket, messageBuffer, reconnectThread,
                     destructor, calls>>
      /\ peer' \in {"daemon", "closed"}
      /\ \/ /\ inSocket # <<>> /\ received' = Append(received, Head(inSocket))
            /\ inSocket' = Tail(inSocket)
         \/ inSocket' = <<>> /\ received' = received
  BY DEF DaemonRead, DaemonClose, threadVars, ClientInv, ClientTypeOK
<1>1. (\A u \in Caller : CallerInv(u)') /\ ThreadInv' /\ DestructorInv'
  BY <1>0 DEF ClientInv, CallerInv, ThreadInv, DestructorInv, Holds
<1>t. /\ received \in Seq(Nat) /\ inSocket \in Seq(Nat) /\ messageBuffer \in Seq(Nat)
      /\ calls \in Nat /\ calls + 1 \in Nat
  BY DEF ClientInv, ClientTypeOK
<1>2. /\ Increasing(received) /\ Increasing(inSocket) /\ Increasing(messageBuffer)
      /\ Precedes(received, inSocket) /\ Precedes(received, messageBuffer)
      /\ Precedes(inSocket, messageBuffer)
      /\ UpTo(calls + 1) /\ \A u \in Caller : Holds(u) => UpTo(calls)
  BY DEF ClientInv, OrderInv, CallsInv
<1>3. /\ inSocket' \in Seq(Nat) /\ received' \in Seq(Nat)
      /\ Increasing(received') /\ Increasing(inSocket')
      /\ Precedes(received', inSocket') /\ Precedes(received', messageBuffer)
      /\ Precedes(inSocket', messageBuffer)
      /\ \A n \in Nat : AllBelow(received, n) /\ AllBelow(inSocket, n) =>
                          AllBelow(received', n) /\ AllBelow(inSocket', n)
  <2>1. CASE /\ inSocket # <<>> /\ received' = Append(received, Head(inSocket))
             /\ inSocket' = Tail(inSocket)
    <3> DEFINE x == Head(inSocket)
               rest == Tail(inSocket)
    <3>1. /\ rest \in Seq(Nat) /\ x \in Nat
          /\ Increasing(rest) /\ AllAbove(x, rest)
          /\ Precedes(received, rest) /\ AllBelow(received, x)
          /\ Precedes(rest, messageBuffer) /\ AllAbove(x, messageBuffer)
          /\ \A n : AllBelow(inSocket, n) => AllBelow(rest, n) /\ x < n
      BY <1>t, <1>2, <2>1, TailOrdered
    <3> HIDE DEF x, rest
    <3>2. /\ Append(received, x) \in Seq(Nat) /\ Increasing(Append(received, x))
          /\ Precedes(Append(received, x), rest)
          /\ Precedes(Append(received, x), messageBuffer)
          /\ \A n : AllBelow(received, n) /\ x < n => AllBelow(Append(received, x), n)
      BY <1>t, <1>2, <3>1, AppendProperties, AppendIncreasing, AppendBounds
    <3>3. received' = Append(received, x) /\ inSocket' = rest
      BY <2>1 DEF x, rest
    <3> QED BY <3>1, <3>2, <3>3
  <2>2. CASE inSocket' = <<>> /\ received' = received
    <3>1. <<>> \in Seq(Nat)
      OBVIOUS
    <3> QED BY <1>t, <1>2, <2>2, <3>1, EmptyOrdered
  <2> QED BY <1>0, <2>1, <2>2
<1>4. ClientTypeOK' /\ OrderInv'
  BY <1>0, <1>2, <1>3 DEF ClientInv, ClientTypeOK, OrderInv
<1>5. CallsInv'
  BY <1>0, <1>t, <1>2, <1>3 DEF CallsInv, UpTo, Holds
<1> QED BY <1>1, <1>4, <1>5 DEF ClientInv

-----------------------------------------------------------------------------
(* Every step keeps the invariant.                                         *)
LEMMA ClientInvNext == ClientInv /\ [ClientNext]_clientVars => ClientInv'
<1> SUFFICES ASSUME ClientInv, [ClientNext]_clientVars PROVE ClientInv'
  OBVIOUS
<1>1. CASE UNCHANGED clientVars
  <2>1. UNCHANGED <<pc, message, mutex, txSocket, peer, messageBuffer, reconnectThread,
                    destructor, inSocket, received, calls>>
    BY <1>1 DEF clientVars, threadVars, readVars
  <2>2. ClientTypeOK' /\ (\A t \in Caller : CallerInv(t)') /\ ThreadInv'
        /\ DestructorInv' /\ OrderInv'
    BY <2>1 DEF ClientInv, ClientTypeOK, CallerInv, ThreadInv, DestructorInv, OrderInv,
                Holds
  <2>3. CallsInv'
    BY <2>1 DEF ClientInv, CallsInv, UpTo, Holds
  <2> QED BY <2>2, <2>3 DEF ClientInv
<1>2. ASSUME NEW t \in Caller, SendStep(t) PROVE ClientInv'
  BY <1>2, LockKeepsInv, JoinKeepsInv, WriteKeepsInv, BufferKeepsInv DEF SendStep
<1>3. CASE ThreadStep
  BY <1>3, ThreadEndsKeepsInv, ReconnectKeepsInv, FlushKeepsInv, FlushedKeepsInv
     DEF ThreadStep
<1> QED BY <1>1, <1>2, <1>3, CallKeepsInv, DestructorKeepsInv, DaemonKeepsInv DEF ClientNext

(* Who holds the mutex, what the thread is doing and which messages are    *)
(* where, at every step of send(), reconnect(), the destructor and the     *)
(* daemon.                                                                 *)
THEOREM ClientInvariant == ClientSpec => []ClientInv
BY ClientInvInit, ClientInvNext, PTL DEF ClientSpec

(* reconnectThreadStart, called by send(), never meets a thread that was   *)
(* not joined, and none is left by the destructor.                         *)
THEOREM NoThreadLeft == ClientSpec => []OneThread
<1>1. ClientInv => OneThread
  BY DEF ClientInv, CallerInv, DestructorInv, OneThread
<1> QED BY <1>1, ClientInvariant, PTL

(* What the daemon has read, what is on its way and what waits in          *)
(* messageBuffer are in the order of the calls of send(), none twice,      *)
(* through any number of disconnections and flushes.                       *)
THEOREM SendsInOrder == ClientSpec => []SentInOrder
<1>1. ASSUME ClientInv PROVE SentInOrder
  <2> DEFINE s == received \o inSocket
  <2>1. /\ received \in Seq(Nat) /\ inSocket \in Seq(Nat) /\ messageBuffer \in Seq(Nat)
        /\ Increasing(received) /\ Increasing(inSocket) /\ Increasing(messageBuffer)
        /\ Precedes(received, inSocket) /\ Precedes(received, messageBuffer)
        /\ Precedes(inSocket, messageBuffer)
    BY <1>1 DEF ClientInv, ClientTypeOK, OrderInv
  <2>2. s \in Seq(Nat) /\ Increasing(s) /\ Precedes(s, messageBuffer)
    BY <2>1, ConcatIncreasing, ConcatPrecedes
  <2> HIDE DEF s
  <2>3. Increasing(s \o messageBuffer)
    BY <2>1, <2>2, ConcatIncreasing
  <2> QED BY <2>3 DEF SentInOrder, Increasing, s
<1> QED BY <1>1, ClientInvariant, PTL


-----------------------------------------------------------------------------
(* The bytes of lists of messages.                                         *)
Octet == Nat      \* what a byte is
Flat(ms) == Seqs!FlattenSeq(ms)

(* f gives the first i messages one behind the other, for i up to n.       *)
FlatLoop(ms, n, f) ==
  f = [i \in 1 .. n |-> IF i = 1 THEN ms[i] ELSE f[i - 1] \o ms[i]]

(* The loop goes on to the next message.                                   *)
LEMMA FlatLoopGoesOn ==
  ASSUME NEW ms, NEW n \in Nat, NEW f, FlatLoop(ms, n, f)
  PROVE  \E g : FlatLoop(ms, n + 1, g)
<1> DEFINE last == IF n = 0 THEN ms[n + 1] ELSE f[n] \o ms[n + 1]
           g == [i \in 1 .. n + 1 |-> IF i = n + 1 THEN last ELSE f[i]]
           h(i) == IF i = 1 THEN ms[i] ELSE g[i - 1] \o ms[i]
<1>1. \A i \in 1 .. n : f[i] = IF i = 1 THEN ms[i] ELSE f[i - 1] \o ms[i]
  BY DEF FlatLoop
<1> HIDE DEF last
<1>2. g[n + 1] = last /\ \A i \in 1 .. n : g[i] = f[i]
  OBVIOUS
<1>3. ASSUME NEW i \in 1 .. n + 1 PROVE (IF i = n + 1 THEN last ELSE f[i]) = h(i)
  <2>1. CASE i = n + 1
    <3>1. i - 1 = n /\ (n # 0 => n \in 1 .. n /\ i # 1) /\ (n = 0 => i = 1)
      BY <2>1
    <3>2. n # 0 => g[i - 1] = f[n]
      BY <1>2, <3>1
    <3> HIDE DEF g
    <3> QED BY <2>1, <3>1, <3>2 DEF last
  <2>2. CASE i # n + 1
    <3>1. i \in 1 .. n /\ (i # 1 => i - 1 \in 1 .. n)
      BY <2>2
    <3>2. i # 1 => g[i - 1] = f[i - 1]
      BY <1>2, <3>1
    <3>3. f[i] = h(i)
      <4> HIDE DEF g
      <4> QED BY <1>1, <3>1, <3>2
    <3> QED BY <2>2, <3>3
  <2> QED BY <2>1, <2>2
<1>4. g = [i \in 1 .. n + 1 |-> h(i)]
  BY <1>3
<1>5. FlatLoop(ms, n + 1, g)
  BY <1>4, Zenon DEF FlatLoop
<1> QED BY <1>5

(* So there is such a function.                                            *)
LEMMA FlatLoopEnds ==
  ASSUME NEW ms, NEW n \in Nat
  PROVE  \E f : FlatLoop(ms, n, f)
<1> DEFINE T == {m \in Nat : \E f : FlatLoop(ms, m, f)}
<1>1. 0 \in T
  <2> DEFINE f == [i \in 1 .. 0 |-> <<>>]
  <2>1. FlatLoop(ms, 0, f)
    BY DEF FlatLoop
  <2> QED BY <2>1
<1>2. \A m \in Nat : m \in T => m + 1 \in T
  BY FlatLoopGoesOn
<1> HIDE DEF T
<1>3. n \in T
  BY <1>1, <1>2, InductionOnNat
<1> QED BY <1>3 DEF T

(* Its value for the last message is what the community module computes.   *)
LEMMA FlatIs ==
  ASSUME NEW ms, Len(ms) \in Nat, Len(ms) # 0
  PROVE  \E f : FlatLoop(ms, Len(ms), f) /\ Flat(ms) = f[Len(ms)]
<1> DEFINE f == CHOOSE f : FlatLoop(ms, Len(ms), f)
<1>1. FlatLoop(ms, Len(ms), f)
  BY FlatLoopEnds
<1>2. Flat(ms) = f[Len(ms)]
  BY DEF Flat, FlatLoop, Seqs!FlattenSeq
<1> QED BY <1>1, <1>2

(* The loop does the same on messages that are the same.                   *)
LEMMA FlatLoopUnique ==
  \A s, t, f, g : \A n \in Nat :
    FlatLoop(s, n, f) /\ FlatLoop(t, n, g) /\ (\A i \in 1 .. n : s[i] = t[i])
      => \A i \in 1 .. n : f[i] = g[i]
<1> SUFFICES ASSUME NEW s, NEW t, NEW f, NEW g, NEW n \in Nat,
                    FlatLoop(s, n, f), FlatLoop(t, n, g), \A i \in 1 .. n : s[i] = t[i]
             PROVE  \A i \in 1 .. n : f[i] = g[i]
  OBVIOUS
<1>1. \A i \in 1 .. n : /\ f[i] = IF i = 1 THEN s[i] ELSE f[i - 1] \o s[i]
                        /\ g[i] = IF i = 1 THEN t[i] ELSE g[i - 1] \o t[i]
  BY DEF FlatLoop
<1> DEFINE T == {i \in Nat : i \in 1 .. n => f[i] = g[i]}
<1>2. 0 \in T
  OBVIOUS
<1>3. ASSUME NEW i \in Nat, i \in T PROVE i + 1 \in T
  <2> SUFFICES ASSUME i + 1 \in 1 .. n PROVE f[i + 1] = g[i + 1]
    OBVIOUS
  <2>1. (i + 1) - 1 = i /\ (i # 0 => i \in 1 .. n /\ i + 1 # 1) /\ (i = 0 => i + 1 = 1)
    OBVIOUS
  <2>2. (i # 0 => f[i] = g[i]) /\ s[i + 1] = t[i + 1]
    BY <1>3, <2>1
  <2> QED BY <1>1, <2>1, <2>2
<1> HIDE DEF T
<1>4. \A i \in Nat : i \in T
  BY <1>2, <1>3, InductionOnNat
<1> QED BY <1>4 DEF T

(* No message, no byte.                                                    *)
LEMMA FlatNothing == Flat(<<>>) = <<>>
BY DEF Flat, Seqs!FlattenSeq

(* They are a sequence of the bytes in the messages.                       *)
LEMMA FlatType ==
  ASSUME NEW S, NEW ms \in Seq(Seq(S))
  PROVE  Flat(ms) \in Seq(S)
<1>1. Len(ms) \in Nat
  OBVIOUS
<1>2. CASE Len(ms) = 0
  <2>1. ms = <<>>
    BY <1>2, EmptySeq
  <2> QED BY <2>1, FlatNothing, EmptySeq
<1>3. CASE Len(ms) # 0
  <2>1. PICK f : FlatLoop(ms, Len(ms), f) /\ Flat(ms) = f[Len(ms)]
    BY <1>1, <1>3, FlatIs
  <2>2. \A i \in 1 .. Len(ms) : f[i] = IF i = 1 THEN ms[i] ELSE f[i - 1] \o ms[i]
    BY <2>1 DEF FlatLoop
  <2> DEFINE T == {i \in Nat : i \in 1 .. Len(ms) => f[i] \in Seq(S)}
  <2>3. 0 \in T
    OBVIOUS
  <2>4. ASSUME NEW i \in Nat, i \in T PROVE i + 1 \in T
    <3> SUFFICES ASSUME i + 1 \in 1 .. Len(ms) PROVE f[i + 1] \in Seq(S)
      OBVIOUS
    <3>1. (i + 1) - 1 = i /\ (i # 0 => i \in 1 .. Len(ms) /\ i + 1 # 1) /\ (i = 0 => i + 1 = 1)
      BY <1>1
    <3>2. ms[i + 1] \in Seq(S)
      BY ElementOfSeq
    <3>3. CASE i = 0
      BY <2>2, <3>1, <3>2, <3>3
    <3>4. CASE i # 0
      <4>1. f[i] \in Seq(S) /\ f[i + 1] = f[i] \o ms[i + 1]
        BY <2>2, <2>4, <3>1, <3>4
      <4> QED BY <3>2, <4>1, ConcatProperties
    <3> QED BY <3>3, <3>4
  <2> HIDE DEF T
  <2>5. Len(ms) \in T
    BY <1>1, <2>3, <2>4, InductionOnNat
  <2> QED BY <1>1, <1>3, <2>1, <2>5 DEF T
<1> QED BY <1>2, <1>3

(* One more message comes behind the others.                               *)
LEMMA FlatAppend ==
  ASSUME NEW S, NEW ms \in Seq(Seq(S)), NEW l \in Seq(S)
  PROVE  Flat(Append(ms, l)) = Flat(ms) \o l
<1> DEFINE t == Append(ms, l)
           n == Len(ms)
<1>1. /\ n \in Nat /\ Len(t) = n + 1 /\ t[n + 1] = l
      /\ \A i \in 1 .. n : t[i] = ms[i]
  BY AppendProperties
<1> HIDE DEF t
<1>2. PICK g : FlatLoop(t, n + 1, g) /\ Flat(t) = g[n + 1]
  BY <1>1, FlatIs
<1>3. \A i \in 1 .. n + 1 : g[i] = IF i = 1 THEN t[i] ELSE g[i - 1] \o t[i]
  BY <1>2 DEF FlatLoop
<1>4. CASE n = 0
  <2>1. ms = <<>>
    BY <1>4, EmptySeq
  <2>2. Flat(ms) \o l = l
    BY <2>1, FlatNothing, ConcatEmptySeq
  <2>3. g[n + 1] = l
    BY <1>1, <1>3, <1>4
  <2> QED BY <1>2, <2>2, <2>3 DEF t
<1>5. CASE n # 0
  <2>1. PICK f : FlatLoop(ms, n, f) /\ Flat(ms) = f[n]
    BY <1>1, <1>5, FlatIs
  <2> DEFINE h == [i \in 1 .. n |-> g[i]]
  <2>2. FlatLoop(t, n, h)
    <3> DEFINE v(i) == IF i = 1 THEN t[i] ELSE h[i - 1] \o t[i]
    <3>1. ASSUME NEW i \in 1 .. n PROVE g[i] = v(i)
      <4>1. i \in 1 .. n + 1 /\ (i # 1 => i - 1 \in 1 .. n)
        BY <1>1
      <4>2. i # 1 => h[i - 1] = g[i - 1]
        BY <4>1
      <4> HIDE DEF h
      <4> QED BY <1>3, <4>1, <4>2
    <3>2. h = [i \in 1 .. n |-> v(i)]
      <4> HIDE DEF v
      <4> QED BY <3>1
    <3> QED BY <3>2, Zenon DEF FlatLoop
  <2> HIDE DEF h, n
  <2>3. n \in 1 .. n /\ n + 1 \in 1 .. n + 1 /\ n + 1 # 1 /\ (n + 1) - 1 = n
    BY <1>1, <1>5
  <2>4. h[n] = f[n]
    <3>1. \A i \in 1 .. n : h[i] = f[i]
      BY <1>1, <2>1, <2>2, FlatLoopUnique
    <3> QED BY <2>3, <3>1
  <2>5. h[n] = g[n]
    BY <2>3 DEF h
  <2>6. g[n + 1] = g[n] \o l
    BY <1>1, <1>3, <2>3
  <2> QED BY <1>2, <2>1, <2>4, <2>5, <2>6 DEF t
<1> QED BY <1>4, <1>5

-----------------------------------------------------------------------------
(* The text of a sequence: one byte more is an end of line, or more text.  *)
LEMMA TextAppend ==
  ASSUME NEW s \in Seq(Octet), NEW b \in Octet
  PROVE  TextOf(Append(s, b)) = IF IsEnd(b) THEN TextOf(s) ELSE Append(TextOf(s), b)
<1> DEFINE t == Append(s, b)
           gone == {i \in DOMAIN s : IsEnd(s[i])}
           dropped == {i \in DOMAIN t : IsEnd(t[i])}
<1>1. /\ t \in Seq(Octet) /\ Len(s) \in Nat /\ Len(t) = Len(s) + 1 /\ t[Len(s) + 1] = b
      /\ \A i \in 1 .. Len(s) : t[i] = s[i]
  BY AppendProperties
<1>2. DOMAIN s = 1 .. Len(s) /\ DOMAIN t = 1 .. Len(s) + 1
  BY <1>1, LenProperties
<1> HIDE DEF t
<1>3. \A i \in 1 .. Len(s) : i \in dropped <=> i \in gone
  BY <1>1, <1>2
<1>4. Len(s) + 1 \in dropped <=> IsEnd(b)
  BY <1>1, <1>2
<1> HIDE DEF gone, dropped
<1>5. Erased(t, dropped) = IF Len(s) + 1 \in dropped THEN Erased(s, gone) ELSE Append(Erased(s, gone), b)
  BY <1>3, ErasedAppend DEF t
<1>6. TextOf(t) = Erased(t, dropped) /\ TextOf(s) = Erased(s, gone)
  BY DEF TextOf, gone, dropped
<1> QED BY <1>4, <1>5, <1>6 DEF t

-----------------------------------------------------------------------------
(* The scan of a read: f gives what it has after its first i bytes.        *)
ScanLoop(buffer, data, n, f) ==
  f = [i \in 0 .. n |-> IF i = 0 THEN [ix |-> 1, buffer |-> buffer, lines |-> <<>>]
                        ELSE PushTo(f[i - 1], data, i)]

(* The scan goes on to the next byte.                                      *)
LEMMA ScanLoopGoesOn ==
  ASSUME NEW buffer, NEW data, NEW n \in Nat, NEW f, ScanLoop(buffer, data, n, f)
  PROVE  \E g : ScanLoop(buffer, data, n + 1, g)
<1> DEFINE start == [ix |-> 1, buffer |-> buffer, lines |-> <<>>]
           last == PushTo(f[n], data, n + 1)
           g == [i \in 0 .. n + 1 |-> IF i = n + 1 THEN last ELSE f[i]]
           h(i) == IF i = 0 THEN start ELSE PushTo(g[i - 1], data, i)
<1>1. \A i \in 0 .. n : f[i] = IF i = 0 THEN start ELSE PushTo(f[i - 1], data, i)
  BY DEF ScanLoop
<1> HIDE DEF start, last
<1>2. g[n + 1] = last /\ \A i \in 0 .. n : g[i] = f[i]
  OBVIOUS
<1>3. ASSUME NEW i \in 0 .. n + 1 PROVE (IF i = n + 1 THEN last ELSE f[i]) = h(i)
  <2>1. CASE i = n + 1
    <3>1. i # 0 /\ i - 1 = n /\ n \in 0 .. n
      BY <2>1
    <3>2. g[i - 1] = f[n]
      BY <1>2, <3>1
    <3> HIDE DEF g
    <3> QED BY <2>1, <3>1, <3>2 DEF last
  <2>2. CASE i # n + 1
    <3>1. i \in 0 .. n /\ (i # 0 => i - 1 \in 0 .. n)
      BY <2>2
    <3>2. i # 0 => g[i - 1] = f[i - 1]
      BY <1>2, <3>1
    <3>3. f[i] = h(i)
      <4> HIDE DEF g
      <4> QED BY <1>1, <3>1, <3>2
    <3> QED BY <2>2, <3>3
  <2> QED BY <2>1, <2>2
<1>4. g = [i \in 0 .. n + 1 |-> h(i)]
  BY <1>3
<1>5. ScanLoop(buffer, data, n + 1, g)
  BY <1>4, Zenon DEF ScanLoop, start
<1> QED BY <1>5

(* So there is such a function.                                            *)
LEMMA ScanLoopEnds ==
  ASSUME NEW buffer, NEW data, NEW n \in Nat
  PROVE  \E f : ScanLoop(buffer, data, n, f)
<1> DEFINE T == {m \in Nat : \E f : ScanLoop(buffer, data, m, f)}
<1>1. 0 \in T
  <2> DEFINE f == [i \in 0 .. 0 |-> [ix |-> 1, buffer |-> buffer, lines |-> <<>>]]
  <2>1. ScanLoop(buffer, data, 0, f)
    BY DEF ScanLoop
  <2> QED BY <2>1
<1>2. \A m \in Nat : m \in T => m + 1 \in T
  BY ScanLoopGoesOn
<1> HIDE DEF T
<1>3. n \in T
  BY <1>1, <1>2, InductionOnNat
<1> QED BY <1>3 DEF T

(* Its value at the last byte is what the read comes to (Split).           *)
LEMMA SplitIs ==
  ASSUME NEW buffer, NEW data, Len(data) \in Nat
  PROVE  \E f : ScanLoop(buffer, data, Len(data), f) /\ Split(buffer, data) = f[Len(data)]
<1> DEFINE f == CHOOSE f : ScanLoop(buffer, data, Len(data), f)
<1>1. ScanLoop(buffer, data, Len(data), f)
  BY ScanLoopEnds
<1>2. Split(buffer, data) = f[Len(data)]
  BY DEF Split, ScanLoop
<1> QED BY <1>1, <1>2

-----------------------------------------------------------------------------
(* What a client writes, up to byte n.                                     *)
BytesTo(n) == [b \in 1 .. n |-> b]

(* They are bytes, and the next one comes behind.                          *)
LEMMA BytesToNext ==
  ASSUME NEW n \in Nat
  PROVE  /\ BytesTo(n) \in Seq(Octet)
         /\ BytesTo(n + 1) = Append(BytesTo(n), n + 1)
<1> DEFINE u == BytesTo(n)
           v == BytesTo(n + 1)
           w == Append(u, n + 1)
<1>1. /\ u \in Seq(Octet) /\ Len(u) = n /\ \A b \in 1 .. n : u[b] = b
  BY DEF BytesTo, Octet
<1>2. v \in Seq(Octet) /\ Len(v) = n + 1 /\ \A b \in 1 .. n + 1 : v[b] = b
  BY DEF BytesTo, Octet
<1> HIDE DEF u, v
<1>3. n + 1 \in Octet
  BY DEF Octet
<1>4. /\ w \in Seq(Octet) /\ Len(w) = n + 1 /\ w[n + 1] = n + 1
      /\ \A b \in 1 .. n : w[b] = u[b]
  BY <1>1, <1>3, AppendProperties
<1> HIDE DEF w
<1>5. \A b \in 1 .. n + 1 : w[b] = b
  <2>1. \A b \in 1 .. n + 1 : b \in 1 .. n \/ b = n + 1
    OBVIOUS
  <2> QED BY <1>1, <1>4, <2>1
<1>6. v = w
  BY <1>2, <1>4, <1>5, SeqEqual
<1> QED BY <1>1, <1>6 DEF u, v, w

(* An element appended to the second of two sequences, or to their whole.  *)
LEMMA ConcatAppend ==
  ASSUME NEW S, NEW s \in Seq(S), NEW t \in Seq(S), NEW x \in S
  PROVE  s \o Append(t, x) = Append(s \o t, x)
<1> DEFINE one == <<x>>
<1>1. one \in Seq(S) /\ s \o t \in Seq(S)
  BY ConcatProperties
<1>2. Append(t, x) = t \o one /\ Append(s \o t, x) = (s \o t) \o one
  BY <1>1, AppendIsConcat
<1> HIDE DEF one
<1>3. (s \o t) \o one = s \o (t \o one)
  BY <1>1, ConcatAssociative
<1> QED BY <1>2, <1>3

(* After i bytes of data, which come after the first r of the client, the  *)
(* messages ms passed on before, those of this read, the buffer and the    *)
(* bytes not pushed yet have the text of what was read.                    *)
Scanned == [ix : Nat, buffer : Seq(Octet), lines : Seq(Seq(Octet))]
Held(ms, s) == Flat(ms \o s.lines) \o s.buffer
ScanOK(ms, s, data, i, r) ==
  /\ s \in Scanned /\ s.ix \in 1 .. i + 1
  /\ TextOf(Held(ms, s) \o SubSeq(data, s.ix, i)) = TextOf(BytesTo(r + i))

(* Nothing but an end of line is left over at the end of a read.           *)
PushedAll(s, data) ==
  s.ix = Len(data) + 1 \/ (s.ix = Len(data) /\ IsEnd(data[Len(data)]))

(* Each byte scanned keeps it so, and the last leaves nothing unpushed.    *)
LEMMA PushKeeps ==
  ASSUME NEW ms \in Seq(Seq(Octet)), NEW r \in Nat, NEW data \in Seq(Octet),
         \A k \in 1 .. Len(data) : data[k] = r + k,
         NEW i \in Nat, i < Len(data), NEW s, ScanOK(ms, s, data, i, r)
  PROVE  /\ ScanOK(ms, PushTo(s, data, i + 1), data, i + 1, r)
         /\ i + 1 = Len(data) => PushedAll(PushTo(s, data, i + 1), data)
<1> DEFINE b == data[i + 1]
           L == ms \o s.lines
           A == Held(ms, s)
           P == SubSeq(data, s.ix, i)
           Q == SubSeq(data, s.ix, i + 1)
           to == PushTo(s, data, i + 1)
           n == ToPush(data, i + 1, s.ix)
           full == s.buffer \o SubSeq(data, s.ix, s.ix + n - 1)
<1>1. /\ s = [ix |-> s.ix, buffer |-> s.buffer, lines |-> s.lines]
      /\ s.ix \in 1 .. i + 1 /\ s.buffer \in Seq(Octet) /\ s.lines \in Seq(Seq(Octet))
      /\ Len(data) \in Nat /\ s.ix \in Nat
  BY LenProperties DEF ScanOK, Scanned
<1>2. b \in Octet /\ b = (r + i) + 1 /\ r + i \in Nat /\ r + (i + 1) = (r + i) + 1
  <2>1. i + 1 \in 1 .. Len(data)
    BY <1>1
  <2>2. data[i + 1] = r + (i + 1)
    BY <2>1
  <2> QED BY <2>2 DEF Octet
<1>3. /\ P \in Seq(Octet) /\ Q = Append(P, b)
  BY <1>1, PartAppend
<1>4. L \in Seq(Seq(Octet)) /\ Flat(L) \in Seq(Octet)
  <2>1. L \in Seq(Seq(Octet))
    BY <1>1, ConcatProperties
  <2> HIDE DEF L
  <2> QED BY <2>1, FlatType
<1>5. A = Flat(L) \o s.buffer /\ A \in Seq(Octet)
  BY <1>1, <1>4, ConcatProperties DEF Held
<1> HIDE DEF P, Q, L, A, b
<1>6. /\ A \o P \in Seq(Octet) /\ A \o Q = Append(A \o P, b)
  <2>1. A \in Seq(Octet) /\ P \in Seq(Octet) /\ b \in Octet
    BY <1>2, <1>3, <1>5
  <2>2. A \o P \in Seq(Octet)
    BY <2>1, ConcatProperties
  <2>3. A \o Append(P, b) = Append(A \o P, b)
    BY <2>1, ConcatAppend
  <2> QED BY <1>3, <2>2, <2>3
<1>7. BytesTo(r + i) \in Seq(Octet) /\ BytesTo(r + (i + 1)) = Append(BytesTo(r + i), b)
  BY <1>2, BytesToNext
<1>8. TextOf(A \o P) = TextOf(BytesTo(r + i))
  BY DEF ScanOK, A, P
<1> DEFINE ap == A \o P
           u == BytesTo(r + i)
<1>9. /\ TextOf(Append(ap, b)) = IF IsEnd(b) THEN TextOf(ap) ELSE Append(TextOf(ap), b)
      /\ TextOf(Append(u, b)) = IF IsEnd(b) THEN TextOf(u) ELSE Append(TextOf(u), b)
  <2>1. ap \in Seq(Octet) /\ u \in Seq(Octet) /\ b \in Octet
    BY <1>2, <1>6, <1>7
  <2> HIDE DEF ap, u
  <2> QED BY <2>1, TextAppend
<1>10. /\ TextOf(A \o Q) = TextOf(BytesTo(r + (i + 1)))
       /\ IsEnd(b) => TextOf(A \o P) = TextOf(BytesTo(r + (i + 1)))
  BY <1>6, <1>7, <1>8, <1>9
<1> HIDE DEF ap, u
<1>11. n = IF IsEnd(b) THEN i + 1 - s.ix ELSE IF i + 1 = Len(data) THEN i + 1 - s.ix + 1 ELSE 0
  <2>1. ToPush(data, i + 1, s.ix)
          = IF IsEnd(data[i + 1]) THEN i + 1 - s.ix
            ELSE IF i + 1 = Len(data) THEN i + 1 - s.ix + 1 ELSE 0
    <3>1. CASE IsEnd(data[i + 1])
      BY <1>1, <3>1 DEF ToPush
    <3>2. CASE ~IsEnd(data[i + 1]) /\ i + 1 = Len(data)
      BY <1>1, <3>2 DEF ToPush
    <3>3. CASE ~IsEnd(data[i + 1]) /\ i + 1 # Len(data)
      BY <1>1, <3>3 DEF ToPush
    <3> QED BY <3>1, <3>2, <3>3
  <2> QED BY <2>1 DEF b
<1>12. to = IF n = 0 THEN s
            ELSE IF IsEnd(b)
            THEN [ix |-> (i + 1) + 1, buffer |-> <<>>, lines |-> Append(s.lines, full)]
            ELSE [ix |-> (i + 1) + 1, buffer |-> full, lines |-> s.lines]
  BY DEF PushTo, b
<1>13. SubSeq(data, (i + 1) + 1, i + 1) = <<>>
  BY SubSeqEmpty
<1>14. ms \o s.lines = L
  BY DEF L
<1> HIDE DEF to, n
<1>15. CASE n = 0
  <2>1. to = s
    BY <1>12, <1>15
  <2>2. s.ix \in 1 .. (i + 1) + 1
    BY <1>1
  <2>3. ScanOK(ms, s, data, i + 1, r)
    BY <1>10, <2>2 DEF ScanOK, A, Q
  <2>4. i + 1 = Len(data) => IsEnd(b) /\ s.ix = i + 1
    BY <1>1, <1>11, <1>15
  <2> QED BY <2>1, <2>3, <2>4 DEF PushedAll, to, b
<1>16. CASE n # 0 /\ IsEnd(b)
  <2>1. s.ix + n - 1 = i
    BY <1>1, <1>11, <1>16
  <2>2. full = s.buffer \o P
    BY <2>1 DEF P
  <2> HIDE DEF full
  <2>3. full \in Seq(Octet)
    BY <1>1, <1>3, <2>2, ConcatProperties
  <2>4. to = [ix |-> (i + 1) + 1, buffer |-> <<>>, lines |-> Append(s.lines, full)]
    BY <1>12, <1>16
  <2>5. to.ix = (i + 1) + 1 /\ to.buffer = <<>> /\ to.lines = Append(s.lines, full)
    BY <2>4
  <2>6. Append(s.lines, full) \in Seq(Seq(Octet))
    BY <1>1, <2>3, AppendProperties
  <2>7. to \in Scanned /\ to.ix \in 1 .. (i + 1) + 1
    BY <2>4, <2>5, <2>6, EmptySeq DEF Scanned
  <2>8. ms \o Append(s.lines, full) = Append(L, full)
    <3> DEFINE ls == s.lines
               SN == Seq(Octet)
    <3>1. ms \in Seq(SN) /\ ls \in Seq(SN) /\ full \in SN
      BY <1>1, <2>3
    <3> HIDE DEF ls, SN
    <3>2. ms \o Append(ls, full) = Append(ms \o ls, full)
      BY <3>1, ConcatAppend
    <3> QED BY <3>2 DEF L, ls
  <2>9. Flat(Append(L, full)) = Flat(L) \o full
    BY <1>4, <2>3, FlatAppend
  <2>10. Flat(L) \o full = A \o P
    <3>1. (Flat(L) \o s.buffer) \o P = Flat(L) \o (s.buffer \o P)
      <4> DEFINE F == Flat(L)
                 buf == s.buffer
      <4>1. F \in Seq(Octet) /\ buf \in Seq(Octet) /\ P \in Seq(Octet)
        BY <1>1, <1>3, <1>4
      <4> HIDE DEF F, buf
      <4>2. (F \o buf) \o P = F \o (buf \o P)
        BY <4>1, ConcatAssociative, SMTT(30)
      <4> QED BY <4>2 DEF F, buf
    <3> QED BY <1>5, <2>2, <3>1
  <2>11. Held(ms, to) = A \o P
    <3>1. Held(ms, to) = (A \o P) \o <<>>
      BY <2>5, <2>8, <2>9, <2>10 DEF Held
    <3> QED BY <1>6, <3>1, ConcatEmptySeq
  <2>12. Held(ms, to) \o SubSeq(data, to.ix, i + 1) = A \o P
    BY <1>6, <1>13, <2>5, <2>11, ConcatEmptySeq
  <2>13. ScanOK(ms, to, data, i + 1, r)
    BY <1>10, <1>16, <2>7, <2>12 DEF ScanOK
  <2> QED BY <2>5, <2>13 DEF PushedAll, to
<1>17. CASE n # 0 /\ ~IsEnd(b)
  <2>1. s.ix + n - 1 = i + 1 /\ i + 1 = Len(data)
    BY <1>1, <1>11, <1>17
  <2>2. full = s.buffer \o Q
    BY <2>1 DEF Q
  <2>3. Q \in Seq(Octet)
    BY <1>2, <1>3, AppendProperties
  <2> HIDE DEF full
  <2>4. full \in Seq(Octet)
    BY <1>1, <2>2, <2>3, ConcatProperties
  <2>5. to = [ix |-> (i + 1) + 1, buffer |-> full, lines |-> s.lines]
    BY <1>12, <1>17
  <2>6. to.ix = (i + 1) + 1 /\ to.buffer = full /\ to.lines = s.lines
    BY <2>5
  <2>7. to \in Scanned /\ to.ix \in 1 .. (i + 1) + 1
    BY <1>1, <2>4, <2>5, <2>6 DEF Scanned
  <2>8. Held(ms, to) = A \o Q
    <3>1. (Flat(L) \o s.buffer) \o Q = Flat(L) \o (s.buffer \o Q)
      <4> DEFINE F == Flat(L)
                 buf == s.buffer
      <4>1. F \in Seq(Octet) /\ buf \in Seq(Octet) /\ Q \in Seq(Octet)
        BY <1>1, <1>4, <2>3
      <4> HIDE DEF F, buf
      <4>2. (F \o buf) \o Q = F \o (buf \o Q)
        BY <4>1, ConcatAssociative, SMTT(30)
      <4> QED BY <4>2 DEF F, buf
    <3> QED BY <1>5, <1>14, <2>2, <2>6, <3>1 DEF Held
  <2>9. A \o Q \in Seq(Octet)
    BY <1>5, <2>3, ConcatProperties
  <2>10. Held(ms, to) \o SubSeq(data, to.ix, i + 1) = A \o Q
    BY <1>13, <2>6, <2>8, <2>9, ConcatEmptySeq
  <2>11. ScanOK(ms, to, data, i + 1, r)
    BY <1>10, <2>7, <2>10 DEF ScanOK
  <2> QED BY <2>1, <2>6, <2>11 DEF PushedAll, to
<1> QED BY <1>15, <1>16, <1>17

(* It is so before the first byte.                                         *)
LEMMA ScanStarts ==
  ASSUME NEW ms \in Seq(Seq(Octet)), NEW buffer \in Seq(Octet), NEW data, NEW r \in Nat,
         TextOf(Flat(ms) \o buffer) = TextOf(BytesTo(r))
  PROVE  ScanOK(ms, [ix |-> 1, buffer |-> buffer, lines |-> <<>>], data, 0, r)
<1> DEFINE s == [ix |-> 1, buffer |-> buffer, lines |-> <<>>]
           SN == Seq(Octet)
<1>1. s.ix = 1 /\ s.buffer = buffer /\ s.lines = <<>>
  OBVIOUS
<1>2. s \in Scanned
  BY EmptySeq DEF Scanned
<1>3. ms \o <<>> = ms
  <2>1. ms \in Seq(SN)
    OBVIOUS
  <2> HIDE DEF SN
  <2> QED BY <2>1, ConcatEmptySeq
<1> HIDE DEF s
<1>4. Held(ms, s) = Flat(ms) \o buffer
  BY <1>1, <1>3 DEF Held
<1>5. Held(ms, s) \in Seq(Octet)
  BY <1>4, FlatType, ConcatProperties
<1>6. SubSeq(data, 1, 0) = <<>>
  BY SubSeqEmpty
<1>7. Held(ms, s) \o SubSeq(data, s.ix, 0) = Held(ms, s)
  BY <1>1, <1>5, <1>6, ConcatEmptySeq
<1>8. ScanOK(ms, s, data, 0, r)
  <2>1. s.ix \in 1 .. 0 + 1 /\ r + 0 = r
    BY <1>1
  <2>2. TextOf(Held(ms, s) \o SubSeq(data, s.ix, 0)) = TextOf(BytesTo(r + 0))
    BY <1>4, <1>7, <2>1
  <2> QED BY <1>2, <2>1, <2>2 DEF ScanOK
<1> QED BY <1>8 DEF s

(* What the read leaves in the buffer and what it passes on come, with the *)
(* messages passed on before, to the text of all that was read.            *)
ReadOK(ms, s, r) ==
  /\ s.buffer \in Seq(Octet) /\ s.lines \in Seq(Seq(Octet))
  /\ TextOf(Held(ms, s)) = TextOf(BytesTo(r))

(* It is so when the last byte has been scanned.                           *)
LEMMA ReadEnds ==
  ASSUME NEW ms \in Seq(Seq(Octet)), NEW r \in Nat, NEW data \in Seq(Octet), NEW s,
         ScanOK(ms, s, data, Len(data), r), PushedAll(s, data), Len(data) # 0
  PROVE  ReadOK(ms, s, r + Len(data))
<1> DEFINE n == Len(data)
           A == Held(ms, s)
           last == data[n]
<1>1. /\ n \in Nat /\ n \in 1 .. n /\ s.buffer \in Seq(Octet) /\ s.lines \in Seq(Seq(Octet))
      /\ TextOf(A \o SubSeq(data, s.ix, n)) = TextOf(BytesTo(r + n))
  BY DEF ScanOK, Scanned
<1>2. A \in Seq(Octet)
  <2>1. ms \o s.lines \in Seq(Seq(Octet))
    <3> DEFINE ls == s.lines
               SN == Seq(Octet)
    <3>1. ms \in Seq(SN) /\ ls \in Seq(SN)
      BY <1>1
    <3> HIDE DEF ls, SN
    <3>2. ms \o ls \in Seq(SN)
      BY <3>1, ConcatProperties
    <3> QED BY <3>2 DEF ls, SN
  <2>2. Flat(ms \o s.lines) \in Seq(Octet)
    BY <2>1, FlatType
  <2> QED BY <1>1, <2>2, ConcatProperties DEF Held
<1> HIDE DEF A
<1>3. last \in Octet
  BY <1>1, ElementOfSeq
<1>4. CASE s.ix = n + 1
  <2>1. SubSeq(data, n + 1, n) = <<>>
    BY <1>1, SubSeqEmpty
  <2>2. A \o SubSeq(data, s.ix, n) = A
    BY <1>2, <1>4, <2>1, ConcatEmptySeq
  <2> QED BY <1>1, <2>2 DEF ReadOK, A
<1>5. CASE s.ix = n /\ IsEnd(last)
  <2>1. SubSeq(data, n, n) = <<last>>
    <3>1. SubSeq(data, n, n) = SubSeq(data, n, n - 1) \o <<last>>
      <4>1. n \in 1 .. Len(data) /\ n \in n .. Len(data)
        BY <1>1
      <4> QED BY <4>1, SubSeqRecursiveSecond
    <3>2. SubSeq(data, n, n - 1) = <<>>
      BY <1>1, SubSeqEmpty
    <3> DEFINE one == <<last>>
    <3>3. one \in Seq(Octet)
      BY <1>3
    <3> HIDE DEF one
    <3>4. <<>> \o one = one
      BY <3>3, ConcatEmptySeq
    <3> QED BY <3>1, <3>2, <3>4 DEF one
  <2> HIDE DEF last
  <2>2. A \o <<last>> = Append(A, last)
    BY <1>2, <1>3, AppendIsConcat
  <2>3. TextOf(Append(A, last)) = TextOf(A)
    BY <1>2, <1>3, <1>5, TextAppend
  <2> QED BY <1>1, <1>5, <2>1, <2>2, <2>3 DEF ReadOK, A
<1> QED BY <1>4, <1>5 DEF PushedAll

(* So it is after any read that is not empty.                              *)
LEMMA SplitKeeps ==
  ASSUME NEW ms \in Seq(Seq(Octet)), NEW buffer \in Seq(Octet), NEW r \in Nat,
         TextOf(Flat(ms) \o buffer) = TextOf(BytesTo(r)),
         NEW data \in Seq(Octet), Len(data) # 0, \A k \in 1 .. Len(data) : data[k] = r + k
  PROVE  ReadOK(ms, Split(buffer, data), r + Len(data))
<1> DEFINE n == Len(data)
<1>1. n \in Nat
  OBVIOUS
<1>2. PICK f : ScanLoop(buffer, data, n, f) /\ Split(buffer, data) = f[n]
  BY <1>1, SplitIs
<1>3. \A i \in 0 .. n : f[i] = IF i = 0 THEN [ix |-> 1, buffer |-> buffer, lines |-> <<>>]
                               ELSE PushTo(f[i - 1], data, i)
  BY <1>2 DEF ScanLoop
<1> DEFINE T == {i \in Nat : i <= n => ScanOK(ms, f[i], data, i, r)}
<1>4. 0 \in T
  <2>1. f[0] = [ix |-> 1, buffer |-> buffer, lines |-> <<>>]
    BY <1>1, <1>3
  <2> QED BY <2>1, ScanStarts
<1>5. ASSUME NEW i \in Nat, i \in T, i + 1 <= n
      PROVE  /\ ScanOK(ms, f[i + 1], data, i + 1, r)
             /\ i + 1 = n => PushedAll(f[i + 1], data)
  <2>1. i < n /\ i + 1 \in 0 .. n /\ i + 1 # 0 /\ (i + 1) - 1 = i
    BY <1>1, <1>5
  <2>2. f[i + 1] = PushTo(f[i], data, i + 1)
    BY <1>3, <2>1
  <2>3. ScanOK(ms, f[i], data, i, r)
    BY <1>5, <2>1
  <2> QED BY <2>1, <2>2, <2>3, PushKeeps
<1>6. \A i \in Nat : i \in T => i + 1 \in T
  BY <1>5
<1>7. \A i \in Nat : i \in T
  <2> HIDE DEF T
  <2> QED BY <1>4, <1>6, InductionOnNat
<1>8. PICK m \in Nat : m + 1 = n /\ m \in T /\ m + 1 <= n
  <2>1. n - 1 \in Nat /\ (n - 1) + 1 = n /\ (n - 1) + 1 <= n
    BY <1>1
  <2> HIDE DEF T, n
  <2> QED BY <1>7, <2>1
<1>9. ScanOK(ms, f[n], data, n, r) /\ PushedAll(f[n], data)
  <2> HIDE DEF T, n
  <2>1. /\ ScanOK(ms, f[m + 1], data, m + 1, r)
        /\ m + 1 = n => PushedAll(f[m + 1], data)
    BY <1>5, <1>8
  <2> QED BY <1>8, <2>1
<1> QED BY <1>2, <1>9, ReadEnds

-----------------------------------------------------------------------------
(* The list of clients, with what the daemon holds of each.                *)
Connection == [client : Client, socket : Client \union {Closed}, buffer : Seq(Octet), pollIx : Int]

Accepted(c, ln) == ln[c] \in {"open", "closed"}
Passed(me, rd, st) ==
  TextOf(Flat(st[me.client]) \o me.buffer) = TextOf(BytesTo(rd[me.client]))
EntryOK(me, ln, rd, st) ==
  /\ Accepted(me.client, ln)
  /\ me.socket \in {me.client, Closed}
  /\ Passed(me, rd, st)
AllOK(list, ln, rd, st) == \A i \in 1 .. Len(list) : EntryOK(list[i], ln, rd, st)
Once(list) ==
  \A i, j \in 1 .. Len(list) : list[i].client = list[j].client => i = j
AllOpen(list) == \A i \in 1 .. Len(list) : list[i].socket = list[i].client
Pollable(list, polled) ==
  polled # <<>> =>
    /\ Len(polled) = Len(list) + 1
    /\ polled[1] = rxSocket
    /\ \A i \in 1 .. Len(list) :
         list[i].pollIx \in 1 .. Len(polled) /\ polled[list[i].pollIx] = list[i].client
Waiting(queue, ln) ==
  /\ \A i \in 1 .. Len(queue) : ln[queue[i]] = "pending"
  /\ \A i, j \in 1 .. Len(queue) : queue[i] = queue[j] => i = j

RxType ==
  /\ backlog \in Seq(Client)
  /\ link \in [Client -> {"none", "pending", "open", "refused", "closed"}]
  /\ wrote \in [Client -> Nat] /\ read \in [Client -> Nat]
  /\ clients \in Seq(Connection)
  /\ fds \in Seq(Client \union {rxSocket, Closed})
  /\ turn \in Nat
  /\ sent \in [Client -> Seq(Seq(Octet))]

(* A client not accepted yet has not been read.                            *)
NotYetRead ==
  \A c \in Client : link[c] \in {"none", "pending"} => read[c] = 0 /\ sent[c] = <<>>

RxInv ==
  /\ RxType
  /\ NotYetRead
  /\ Waiting(backlog, link)
  /\ AllOK(clients, link, read, sent)
  /\ Once(clients)
  /\ turn = 0 => AllOpen(clients)
  /\ Pollable(clients, fds)
  /\ 1 \in revents => backlog # <<>>

(* All this holds of a daemon just started.                                *)
LEMMA RxStarts == RxInit => RxInv
BY EmptySeq DEF RxInit, RxInv, RxType, NotYetRead, Waiting, AllOK, Once, AllOpen, Pollable

(* The operations on the list of clients that are left of it.              *)
Gone(list) == {i \in DOMAIN list : list[i].socket = Closed}

(* Without the closed connections.                                         *)
LEMMA ErasedList ==
  ASSUME NEW list \in Seq(Connection), Once(list)
  PROVE  LET rem == Erased(list, Gone(list)) IN
         /\ rem \in Seq(Connection) /\ Once(rem)
         /\ \A k \in 1 .. Len(rem) : \E i \in 1 .. Len(list) :
              rem[k] = list[i] /\ list[i].socket # Closed
<1> DEFINE rem == Erased(list, Gone(list))
<1>1. rem \in Seq(Connection)
  <2> HIDE DEF Connection, Gone
  <2> QED BY ErasedType
<1>2. PICK at : Places(at, rem, list, Gone(list), Len(list))
  <2> HIDE DEF Connection, Gone
  <2> QED BY ErasedPlaces
<1> HIDE DEF rem
<1>3. /\ Len(rem) \in Nat /\ Len(list) \in Nat /\ DOMAIN list = 1 .. Len(list)
  BY <1>1, LenProperties
<1>4. \A k \in 1 .. Len(rem) : /\ at[k] \in 1 .. Len(list) /\ at[k] \notin Gone(list)
                               /\ rem[k] = list[at[k]]
  BY <1>2 DEF Places
<1>5. \A k, l \in 1 .. Len(rem) : k < l => at[k] < at[l]
  BY <1>2 DEF Places
<1>6. \A k \in 1 .. Len(rem) : \E i \in 1 .. Len(list) : rem[k] = list[i] /\ list[i].socket # Closed
  BY <1>3, <1>4 DEF Gone
<1>7. ASSUME NEW k \in 1 .. Len(rem), NEW l \in 1 .. Len(rem), rem[k].client = rem[l].client
      PROVE  k = l
  <2>1. at[k] \in Nat /\ at[l] \in Nat /\ at[k] = at[l]
    BY <1>3, <1>4, <1>7 DEF Once
  <2>2. ~ (k < l) /\ ~ (l < k)
    BY <1>5, <2>1
  <2> QED BY <1>3, <2>2
<1> QED BY <1>1, <1>6, <1>7 DEF Once, rem

(* With a connection accepted at the end.                                  *)
LEMMA AppendedList ==
  ASSUME NEW list \in Seq(Connection), Once(list), NEW c \in Client,
         \A k \in 1 .. Len(list) : list[k].client # c
  PROVE  LET new == Append(list, NewConnection(c)) IN
         /\ new \in Seq(Connection) /\ Once(new)
         /\ \A k \in 1 .. Len(new) : \/ k \in 1 .. Len(list) /\ new[k] = list[k]
                                     \/ new[k] = NewConnection(c)
<1> DEFINE x == NewConnection(c)
           new == Append(list, x)
<1>1. x \in Connection /\ x.client = c
  BY EmptySeq DEF NewConnection, Connection
<1> HIDE DEF x
<1>2. /\ new \in Seq(Connection) /\ Len(new) = Len(list) + 1 /\ new[Len(list) + 1] = x
      /\ \A k \in 1 .. Len(list) : new[k] = list[k]
  <2> HIDE DEF Connection
  <2> QED BY <1>1, AppendProperties
<1>3. Len(list) \in Nat
  BY LenProperties
<1> HIDE DEF new
<1>4. \A k \in 1 .. Len(new) : k \in 1 .. Len(list) \/ k = Len(list) + 1
  BY <1>2, <1>3
<1>5. Once(new)
  BY <1>1, <1>2, <1>4 DEF Once
<1> QED BY <1>2, <1>4, <1>5 DEF new, x

(* The list and its members.                                               *)
LEMMA ListType ==
  ASSUME RxInv
  PROVE  /\ clients \in Seq(Connection) /\ Len(clients) \in Nat
         /\ DOMAIN clients = 1 .. Len(clients)
         /\ \A i \in 1 .. Len(clients) : clients[i] \in Connection /\ clients[i].client \in Client
<1>1. clients \in Seq(Connection) /\ Len(clients) \in Nat /\ DOMAIN clients = 1 .. Len(clients)
  BY LenProperties DEF RxInv, RxType
<1>2. \A i \in 1 .. Len(clients) : clients[i] \in Connection
  BY <1>1, ElementOfSeq
<1> QED BY <1>1, <1>2 DEF Connection

(* Nothing has been read of a client just accepted.                        *)
LEMMA NewPassed ==
  ASSUME NEW c, NEW rd, NEW st, rd[c] = 0, st[c] = <<>>
  PROVE  Passed(NewConnection(c), rd, st)
<1> DEFINE u == BytesTo(0)
<1>1. u = <<>>
  BY DEF BytesTo
<1>2. Flat(<<>>) \o <<>> = <<>>
  <2>1. <<>> \in Seq(Octet)
    BY EmptySeq
  <2> QED BY <2>1, FlatNothing, ConcatEmptySeq
<1> HIDE DEF u
<1>3. NewConnection(c).client = c /\ NewConnection(c).buffer = <<>>
  BY DEF NewConnection
<1> QED BY <1>1, <1>2, <1>3 DEF Passed, u

(* The steps of the clients.                                               *)
LEMMA ConnectKeeps ==
  ASSUME RxInv, NEW c \in Client, Connect(c)
  PROVE  RxInv'
<1>1. /\ link[c] = "none" /\ link' = [link EXCEPT ![c] = "pending"]
      /\ backlog' = Append(backlog, c)
      /\ UNCHANGED <<hup, wrote, read, clients, fds, revents, turn, sent>>
  BY DEF Connect, DaemonUnchanged
<1>2. RxType /\ Len(backlog) \in Nat /\ Len(clients) \in Nat
  BY LenProperties DEF RxInv, RxType
<1>3. /\ backlog' \in Seq(Client) /\ Len(backlog') = Len(backlog) + 1
      /\ backlog'[Len(backlog) + 1] = c /\ backlog' # <<>>
      /\ \A i \in 1 .. Len(backlog) : backlog'[i] = backlog[i]
  <2>1. backlog \in Seq(Client)
    BY <1>2 DEF RxType
  <2>2. /\ Append(backlog, c) \in Seq(Client) /\ Len(Append(backlog, c)) = Len(backlog) + 1
        /\ Append(backlog, c)[Len(backlog) + 1] = c /\ Append(backlog, c) # <<>>
        /\ \A i \in 1 .. Len(backlog) : Append(backlog, c)[i] = backlog[i]
    BY <2>1, AppendProperties
  <2> QED BY <1>1, <2>2
<1>4. \A d \in Client : link'[d] = IF d = c THEN "pending" ELSE link[d]
  BY <1>1, <1>2 DEF RxType
<1>5. \A i \in 1 .. Len(backlog') : i \in 1 .. Len(backlog) \/ i = Len(backlog) + 1
  BY <1>2, <1>3
<1>6. Waiting(backlog', link')
  <2>1. \A i \in 1 .. Len(backlog) : backlog[i] \in Client /\ backlog[i] # c
    <3>1. \A i \in 1 .. Len(backlog) : backlog[i] \in Client
      BY <1>2, ElementOfSeq DEF RxType
    <3> QED BY <1>1, <3>1 DEF RxInv, Waiting
  <2>2. \A i \in 1 .. Len(backlog) : link[backlog[i]] = "pending"
    BY DEF RxInv, Waiting
  <2>3. \A i, j \in 1 .. Len(backlog) : backlog[i] = backlog[j] => i = j
    BY DEF RxInv, Waiting
  <2>4. \A i \in 1 .. Len(backlog') : link'[backlog'[i]] = "pending"
    BY <1>3, <1>4, <1>5, <2>1, <2>2
  <2>5. \A i, j \in 1 .. Len(backlog') : backlog'[i] = backlog'[j] => i = j
    BY <1>3, <1>5, <2>1, <2>3
  <2> QED BY <2>4, <2>5 DEF Waiting
<1>7. AllOK(clients, link', read, sent)
  <2>1. \A i \in 1 .. Len(clients) : clients[i].client \in Client
    BY ListType
  <2> QED BY <1>1, <1>4, <2>1 DEF RxInv, AllOK, EntryOK, Accepted
<1>8. RxType'
  BY <1>1, <1>2, <1>3 DEF RxType
<1>9. NotYetRead'
  BY <1>1, <1>4 DEF RxInv, NotYetRead
<1> QED BY <1>1, <1>3, <1>6, <1>7, <1>8, <1>9 DEF RxInv

(* Writing: nothing the daemon has is changed.                             *)
LEMMA WritesKeeps ==
  ASSUME ReceptionAssumption, RxInv, NEW c \in Client, Writes(c)
  PROVE  RxInv'
<1>1. RxType
  BY DEF RxInv
<1>2. PICK n \in wrote[c] + 1 .. MaxBytes : wrote' = [wrote EXCEPT ![c] = n]
  BY DEF Writes
<1>3. n \in Nat
  BY <1>1, <1>2 DEF RxType, ReceptionAssumption
<1>4. UNCHANGED <<backlog, link, hup, read, clients, fds, revents, turn, sent>>
  BY DEF Writes, DaemonUnchanged
<1>5. RxType'
  BY <1>1, <1>2, <1>3, <1>4 DEF RxType
<1> QED BY <1>4, <1>5 DEF RxInv, NotYetRead

(* Closing: neither.                                                       *)
LEMMA HangupKeeps ==
  ASSUME RxInv, NEW c \in Client, Hangup(c)
  PROVE  RxInv'
BY DEF RxInv, RxType, NotYetRead, Hangup, DaemonUnchanged

(* The steps of the daemon.                                                *)
LEMMA PollKeeps ==
  ASSUME RxInv, Poll
  PROVE  RxInv'
<1>1. /\ turn = 0 /\ UNCHANGED <<backlog, link, hup, wrote, read, sent>>
      /\ revents' = {i \in DOMAIN fds' : Readable(fds'[i])}
      /\ turn' \in Nat
  BY DEF Poll, outside
<1>2. /\ clients \in Seq(Connection) /\ Len(clients) \in Nat
      /\ DOMAIN clients = 1 .. Len(clients)
      /\ \A i \in 1 .. Len(clients) : clients[i] \in Connection /\ clients[i].client \in Client
  BY ListType
<1>3. /\ RxType /\ AllOK(clients, link, read, sent) /\ Once(clients) /\ AllOpen(clients)
      /\ Pollable(clients, fds)
  BY <1>1 DEF RxInv
<1>4. /\ clients' \in Seq(Connection) /\ fds' \in Seq(Client \union {rxSocket, Closed})
      /\ AllOK(clients', link, read, sent) /\ Once(clients') /\ AllOpen(clients')
      /\ Pollable(clients', fds') /\ fds' # <<>>
  <2>1. CASE fds = <<>>
    <3> DEFINE n == Len(clients)
               sockets == [i \in DOMAIN clients |-> clients[i].socket]
               polled == <<rxSocket>> \o sockets
               list == WithPollIx(clients)
    <3>1. fds' = polled /\ clients' = list
      BY <2>1 DEF Poll
    <3>2. \A i \in 1 .. n : /\ [clients[i] EXCEPT !.pollIx = i + 1] \in Connection
                            /\ [clients[i] EXCEPT !.pollIx = i + 1].client = clients[i].client
                            /\ [clients[i] EXCEPT !.pollIx = i + 1].socket = clients[i].socket
                            /\ [clients[i] EXCEPT !.pollIx = i + 1].buffer = clients[i].buffer
                            /\ [clients[i] EXCEPT !.pollIx = i + 1].pollIx = i + 1
      <4> TAKE i \in 1 .. n
      <4> DEFINE me == clients[i]
      <4>1. me \in Connection /\ i + 1 \in Int
        BY <1>2
      <4> HIDE DEF me
      <4>2. /\ [me EXCEPT !.pollIx = i + 1] \in Connection
            /\ [me EXCEPT !.pollIx = i + 1].client = me.client
            /\ [me EXCEPT !.pollIx = i + 1].socket = me.socket
            /\ [me EXCEPT !.pollIx = i + 1].buffer = me.buffer
            /\ [me EXCEPT !.pollIx = i + 1].pollIx = i + 1
        BY <4>1 DEF Connection
      <4> QED BY <4>2 DEF me
    <3>3. list = [i \in 1 .. n |-> [clients[i] EXCEPT !.pollIx = i + 1]]
      BY <1>2 DEF WithPollIx
    <3>4. list \in Seq(Connection) /\ Len(list) = n
      <4> HIDE DEF Connection
      <4> QED BY <1>2, <3>2, <3>3
    <3>5. \A i \in 1 .. n : /\ list[i].client = clients[i].client
                            /\ list[i].socket = clients[i].socket
                            /\ list[i].buffer = clients[i].buffer
                            /\ list[i].pollIx = i + 1
      BY <3>2, <3>3
    <3>6. sockets \in Seq(Client \union {rxSocket, Closed}) /\ Len(sockets) = n
      <4> DEFINE S == Client \union {rxSocket, Closed}
      <4>1. \A i \in 1 .. n : clients[i].socket \in S
        BY <1>2 DEF Connection
      <4>2. sockets = [i \in 1 .. n |-> clients[i].socket]
        BY <1>2
      <4> HIDE DEF S
      <4>3. sockets \in Seq(S) /\ Len(sockets) = n
        BY <1>2, <4>1, <4>2
      <4> QED BY <4>3 DEF S
    <3>7. \A i \in 1 .. n : sockets[i] = clients[i].client
      BY <1>2, <1>3 DEF AllOpen
    <3> HIDE DEF list, sockets
    <3>8. /\ polled \in Seq(Client \union {rxSocket, Closed}) /\ Len(polled) = 1 + n
          /\ polled[1] = rxSocket
          /\ \A i \in 1 .. n : polled[i + 1] = sockets[i]
      <4> DEFINE S == Client \union {rxSocket, Closed}
                 one == <<rxSocket>>
      <4>1. one \in Seq(S) /\ Len(one) = 1 /\ one[1] = rxSocket
            /\ sockets \in Seq(S) /\ Len(sockets) = n
        BY <3>6
      <4> HIDE DEF S, one
      <4>2. /\ one \o sockets \in Seq(S) /\ Len(one \o sockets) = 1 + n
            /\ \A i \in 1 .. 1 + n : (one \o sockets)[i] = IF i <= 1 THEN one[i] ELSE sockets[i - 1]
        <5>1. /\ one \o sockets \in Seq(S)
              /\ Len(one \o sockets) = Len(one) + Len(sockets)
              /\ \A i \in 1 .. Len(one) + Len(sockets) :
                   (one \o sockets)[i] = IF i <= Len(one) THEN one[i] ELSE sockets[i - Len(one)]
          BY <4>1, ConcatProperties, ZenonT(40)
        <5> HIDE DEF n
        <5> QED BY <4>1, <5>1
      <4>3. 1 \in 1 .. 1 + n /\ \A i \in 1 .. n : i + 1 \in 1 .. 1 + n /\ ~(i + 1 <= 1) /\ (i + 1) - 1 = i
        BY <1>2
      <4> QED BY <4>1, <4>2, <4>3 DEF S, one
    <3> HIDE DEF polled, n
    <3>9. \A i \in 1 .. n : i + 1 \in 1 .. Len(polled) /\ polled[i + 1] = clients[i].client
      BY <1>2, <3>7, <3>8 DEF n
    <3>10. Pollable(list, polled) /\ polled # <<>>
      BY <1>2, <3>4, <3>5, <3>8, <3>9 DEF Pollable, n
    <3>11. AllOK(list, link, read, sent)
      <4>1. \A i \in 1 .. n : EntryOK(list[i], link, read, sent)
        BY <1>3, <3>5 DEF AllOK, EntryOK, Passed, n
      <4> QED BY <3>4, <4>1 DEF AllOK
    <3>12. Once(list) /\ AllOpen(list)
      BY <1>3, <3>4, <3>5 DEF Once, AllOpen, n
    <3> QED BY <3>1, <3>4, <3>8, <3>10, <3>11, <3>12
  <2>2. CASE fds # <<>>
    BY <1>2, <1>3, <2>2 DEF Poll, RxType
  <2> QED BY <2>1, <2>2
<1>5. 1 \in revents' => backlog' # <<>>
  <2>1. fds'[1] = rxSocket
    BY <1>4 DEF Pollable
  <2> QED BY <1>1, <2>1 DEF Readable
<1>6. RxType'
  BY <1>1, <1>3, <1>4 DEF RxType
<1>7. NotYetRead' /\ Waiting(backlog', link')
  BY <1>1 DEF RxInv, NotYetRead
<1>8. AllOK(clients', link', read', sent')
  BY <1>1, <1>4
<1> QED BY <1>4, <1>5, <1>6, <1>7, <1>8 DEF RxInv

(* A client with nothing to read is passed over.                           *)
LEMMA SkipKeeps ==
  ASSUME RxInv, Skip
  PROVE  RxInv'
<1>1. /\ turn' = turn + 1 /\ turn \in Nat
      /\ UNCHANGED <<backlog, link, hup, wrote, read, clients, fds, revents, sent>>
  BY DEF Skip, outside, RxInv, RxType
<1>2. RxType'
  BY <1>1 DEF RxInv, RxType
<1>3. turn' # 0
  BY <1>1
<1> QED BY <1>1, <1>2, <1>3 DEF RxInv, NotYetRead

(* A connection is closed: what was passed on remains.                     *)
LEMMA CloseKeeps ==
  ASSUME RxInv, CloseClient
  PROVE  RxInv'
<1> DEFINE me == clients[turn]
           c == me.client
           mine == [me EXCEPT !.socket = Closed]
<1>1. /\ turn \in 1 .. Len(clients) /\ link' = [link EXCEPT ![c] = "closed"]
      /\ clients' = [clients EXCEPT ![turn].socket = Closed]
      /\ turn' = turn + 1
      /\ UNCHANGED <<backlog, hup, wrote, read, fds, revents, sent>>
  BY ListType DEF CloseClient
<1>2. /\ clients \in Seq(Connection) /\ Len(clients) \in Nat
      /\ DOMAIN clients = 1 .. Len(clients)
      /\ \A i \in 1 .. Len(clients) : clients[i] \in Connection /\ clients[i].client \in Client
  BY ListType
<1>3. /\ RxType /\ AllOK(clients, link, read, sent) /\ Once(clients)
      /\ Pollable(clients, fds) /\ Waiting(backlog, link)
  BY DEF RxInv
<1>4. /\ c \in Client /\ link[c] \in {"open", "closed"}
      /\ \A d \in Client : link'[d] = IF d = c THEN "closed" ELSE link[d]
  BY <1>1, <1>2, <1>3 DEF RxType, AllOK, EntryOK, Accepted
<1>5. /\ mine \in Connection /\ mine.client = c /\ mine.socket = Closed
      /\ mine.buffer = me.buffer /\ mine.pollIx = me.pollIx
  BY <1>1, <1>2 DEF Connection
<1>6. /\ clients' = [clients EXCEPT ![turn] = mine]
      /\ clients' \in Seq(Connection) /\ Len(clients') = Len(clients)
  <2>1. clients' = [clients EXCEPT ![turn] = mine]
    BY <1>1
  <2> DEFINE n == Len(clients)
             list == [clients EXCEPT ![turn] = mine]
  <2>2. list = [i \in 1 .. n |-> IF i = turn THEN mine ELSE clients[i]]
    BY <1>1, <1>2
  <2>3. \A i \in 1 .. n : (IF i = turn THEN mine ELSE clients[i]) \in Connection
    BY <1>2, <1>5
  <2> HIDE DEF mine, Connection, list
  <2>4. list \in Seq(Connection) /\ Len(list) = n
    BY <1>2, <2>2, <2>3
  <2> QED BY <2>1, <2>4 DEF list
<1>7. \A i \in 1 .. Len(clients) :
        /\ clients'[i].client = clients[i].client /\ clients'[i].buffer = clients[i].buffer
        /\ clients'[i].pollIx = clients[i].pollIx
        /\ clients'[i].socket \in {clients[i].socket, Closed}
  <2> HIDE DEF mine
  <2> QED BY <1>1, <1>2, <1>5, <1>6
<1>8. AllOK(clients', link', read, sent)
  <2>1. \A i \in 1 .. Len(clients) : EntryOK(clients[i], link, read, sent)
    BY <1>3 DEF AllOK
  <2>2. \A i \in 1 .. Len(clients) : EntryOK(clients'[i], link', read, sent)
    BY <1>2, <1>4, <1>7, <2>1 DEF EntryOK, Accepted, Passed
  <2> QED BY <1>6, <2>2 DEF AllOK
<1>9. Once(clients') /\ Pollable(clients', fds)
  BY <1>3, <1>6, <1>7 DEF Once, Pollable
<1>10. Waiting(backlog, link')
  <2>1. \A i \in 1 .. Len(backlog) : backlog[i] \in Client
    BY <1>3, ElementOfSeq DEF RxType
  <2> QED BY <1>3, <1>4, <2>1 DEF Waiting
<1>11. RxType'
  <2>1. link' \in [Client -> {"none", "pending", "open", "refused", "closed"}]
    BY <1>1, <1>3, <1>4 DEF RxType
  <2>2. turn' \in Nat
    BY <1>1, <1>3 DEF RxType
  <2> HIDE DEF c, mine
  <2> QED BY <1>1, <1>3, <1>6, <2>1, <2>2 DEF RxType
<1>12. NotYetRead'
  BY <1>1, <1>4 DEF RxInv, NotYetRead
<1>13. turn' # 0
  BY <1>1
<1> QED BY <1>1, <1>8, <1>9, <1>10, <1>11, <1>12, <1>13 DEF RxInv

(* A read, by SplitKeeps for the client, and no change for the others.     *)
LEMMA ReadKeeps ==
  ASSUME RxInv, ReadData
  PROVE  RxInv'
<1> DEFINE me == clients[turn]
           c == me.client
<1>1. PICK n \in 1 .. wrote[c] - read[c] :
        LET s == Split(me.buffer, [i \in 1 .. n |-> read[c] + i]) IN
        /\ read' = [read EXCEPT ![c] = @ + n]
        /\ clients' = [clients EXCEPT ![turn].buffer = s.buffer]
        /\ sent' = [sent EXCEPT ![c] = @ \o s.lines]
  BY DEF ReadData
<1>2. /\ turn \in 1 .. Len(clients) /\ turn' = turn + 1
      /\ UNCHANGED <<backlog, link, hup, wrote, fds, revents>>
  BY ListType DEF ReadData, outside
<1>3. /\ clients \in Seq(Connection) /\ Len(clients) \in Nat
      /\ DOMAIN clients = 1 .. Len(clients)
      /\ \A i \in 1 .. Len(clients) : clients[i] \in Connection /\ clients[i].client \in Client
  BY ListType
<1>4. /\ RxType /\ AllOK(clients, link, read, sent) /\ Once(clients)
      /\ Pollable(clients, fds) /\ NotYetRead
  BY DEF RxInv
<1> DEFINE r == read[c]
           ms == sent[c]
           data == [i \in 1 .. n |-> r + i]
           s == Split(me.buffer, data)
           mine == [me EXCEPT !.buffer = s.buffer]
<1>5. /\ c \in Client /\ r \in Nat /\ n \in Nat /\ n # 0 /\ ms \in Seq(Seq(Octet))
      /\ me.buffer \in Seq(Octet) /\ link[c] \in {"open", "closed"}
      /\ TextOf(Flat(ms) \o me.buffer) = TextOf(BytesTo(r))
  <2>1. me \in Connection /\ c \in Client /\ EntryOK(me, link, read, sent)
    BY <1>2, <1>3, <1>4 DEF AllOK
  <2>2. me.buffer \in Seq(Octet)
    BY <2>1 DEF Connection
  <2>3. r \in Nat /\ wrote[c] \in Nat /\ ms \in Seq(Seq(Octet))
    BY <1>4, <2>1 DEF RxType
  <2>4. n \in Nat /\ n # 0
    BY <1>1, <2>3
  <2> QED BY <2>1, <2>2, <2>3, <2>4 DEF EntryOK, Accepted, Passed
<1>6. data \in Seq(Octet) /\ Len(data) = n /\ \A k \in 1 .. Len(data) : data[k] = r + k
  <2>1. \A i \in 1 .. n : r + i \in Octet
    BY <1>5 DEF Octet
  <2> HIDE DEF r
  <2> QED BY <1>5, <2>1
<1>7. /\ read' = [read EXCEPT ![c] = r + n]
      /\ clients' = [clients EXCEPT ![turn] = mine]
      /\ sent' = [sent EXCEPT ![c] = ms \o s.lines]
  BY <1>1
<1>8. ReadOK(ms, s, r + n)
  <2> DEFINE buf == me.buffer
  <2>1. /\ ms \in Seq(Seq(Octet)) /\ buf \in Seq(Octet) /\ r \in Nat
        /\ TextOf(Flat(ms) \o buf) = TextOf(BytesTo(r))
        /\ data \in Seq(Octet) /\ Len(data) # 0 /\ \A k \in 1 .. Len(data) : data[k] = r + k
    BY <1>5, <1>6
  <2> HIDE DEF ms, buf, r, data
  <2>2. ReadOK(ms, Split(buf, data), r + Len(data))
    BY <2>1, SplitKeeps
  <2> QED BY <1>6, <2>2 DEF buf
<1> HIDE DEF s
<1>9. s.buffer \in Seq(Octet) /\ ms \o s.lines \in Seq(Seq(Octet))
  <2> DEFINE ls == s.lines
             SN == Seq(Octet)
  <2>1. s.buffer \in SN /\ ls \in Seq(SN) /\ ms \in Seq(SN)
    BY <1>5, <1>8 DEF ReadOK
  <2> HIDE DEF ls, SN, ms
  <2>2. ms \o ls \in Seq(SN)
    BY <2>1, ConcatProperties
  <2> QED BY <2>1, <2>2 DEF ls, SN
<1>10. /\ mine \in Connection /\ mine.client = c /\ mine.socket = me.socket
       /\ mine.buffer = s.buffer /\ mine.pollIx = me.pollIx
  <2>1. me \in Connection
    BY <1>2, <1>3
  <2> DEFINE you == me
  <2> HIDE DEF you
  <2> QED BY <1>9, <2>1 DEF Connection
<1>11. clients' \in Seq(Connection) /\ Len(clients') = Len(clients)
  <2> DEFINE m == Len(clients)
             list == [clients EXCEPT ![turn] = mine]
  <2>1. list = [i \in 1 .. m |-> IF i = turn THEN mine ELSE clients[i]]
    BY <1>2, <1>3
  <2>2. \A i \in 1 .. m : (IF i = turn THEN mine ELSE clients[i]) \in Connection
    BY <1>3, <1>10
  <2> HIDE DEF mine, Connection, list
  <2>3. list \in Seq(Connection) /\ Len(list) = m
    BY <1>3, <2>1, <2>2
  <2> QED BY <1>7, <2>3 DEF list
<1>12. \A i \in 1 .. Len(clients) :
         /\ clients'[i].client = clients[i].client
         /\ clients'[i].socket = clients[i].socket
         /\ clients'[i].pollIx = clients[i].pollIx
         /\ clients'[i].buffer = IF i = turn THEN s.buffer ELSE clients[i].buffer
  <2> HIDE DEF mine
  <2> QED BY <1>2, <1>3, <1>7, <1>10
<1>13. \A d \in Client : /\ read'[d] = IF d = c THEN r + n ELSE read[d]
                         /\ sent'[d] = IF d = c THEN ms \o s.lines ELSE sent[d]
  BY <1>4, <1>5, <1>7 DEF RxType
<1>14. AllOK(clients', link', read', sent')
  <2>1. ASSUME NEW i \in 1 .. Len(clients) PROVE EntryOK(clients'[i], link, read', sent')
    <3>1. EntryOK(clients[i], link, read, sent) /\ clients[i].client \in Client
      BY <1>3, <1>4 DEF AllOK
    <3>2. CASE i = turn
      <4>1. Passed(clients'[i], read', sent')
        BY <1>5, <1>8, <1>12, <1>13, <3>2 DEF Passed, ReadOK, Held
      <4> QED BY <1>12, <3>1, <4>1 DEF EntryOK
    <3>3. CASE i # turn
      <4>1. clients[i].client # c
        BY <1>2, <1>4, <3>3 DEF Once
      <4>2. Passed(clients'[i], read', sent')
        BY <1>12, <1>13, <3>1, <3>3, <4>1 DEF EntryOK, Passed
      <4> QED BY <1>12, <3>1, <4>2 DEF EntryOK
    <3> QED BY <3>2, <3>3
  <2> QED BY <1>2, <1>11, <2>1 DEF AllOK
<1>15. Once(clients') /\ Pollable(clients', fds')
  BY <1>2, <1>4, <1>11, <1>12 DEF Once, Pollable
<1>16. RxType'
  <2>1. read' \in [Client -> Nat]
    BY <1>4, <1>5, <1>7, SMTT(30) DEF RxType
  <2>2. sent' \in [Client -> Seq(Seq(Octet))]
    <3> DEFINE SSN == Seq(Seq(Octet))
               new == ms \o s.lines
    <3>1. sent \in [Client -> SSN] /\ new \in SSN
      BY <1>4, <1>9 DEF RxType
    <3> HIDE DEF SSN, new
    <3>2. [sent EXCEPT ![c] = new] \in [Client -> SSN]
      BY <3>1
    <3> QED BY <1>7, <3>2 DEF SSN, new
  <2>3. turn' \in Nat
    BY <1>2, <1>3
  <2> QED BY <1>2, <1>4, <1>11, <2>1, <2>2, <2>3 DEF RxType
<1>17. NotYetRead'
  BY <1>2, <1>4, <1>5, <1>13 DEF NotYetRead
<1>18. turn' # 0
  BY <1>2, <1>3
<1> QED BY <1>2, <1>14, <1>15, <1>16, <1>17, <1>18 DEF RxInv

(* The list changes: the poll structure is emptied then.                   *)
LEMMA EndLoopKeeps ==
  ASSUME RxInv, EndLoop
  PROVE  RxInv'
<1> DEFINE rem == Remaining
           c == Head(backlog)
<1>1. /\ clients \in Seq(Connection) /\ Len(clients) \in Nat
      /\ \A i \in 1 .. Len(clients) : clients[i] \in Connection /\ clients[i].client \in Client
  BY ListType
<1>2. /\ RxType /\ AllOK(clients, link, read, sent) /\ Once(clients) /\ NotYetRead
      /\ Waiting(backlog, link) /\ Pollable(clients, fds) /\ (1 \in revents => backlog # <<>>)
  BY DEF RxInv
<1>3. /\ fds' = Renewed(clients') /\ revents' = {} /\ turn' = 0
      /\ UNCHANGED <<hup, wrote, read, sent>>
  BY DEF EndLoop
<1>4. /\ rem \in Seq(Connection) /\ Once(rem)
      /\ \A k \in 1 .. Len(rem) : \E i \in 1 .. Len(clients) :
           rem[k] = clients[i] /\ clients[i].socket # Closed
  <2>1. rem = Erased(clients, Gone(clients))
    BY DEF Remaining, Gone
  <2> QED BY <1>1, <1>2, <2>1, ErasedList
<1> HIDE DEF rem
<1>5. AllOK(rem, link, read, sent) /\ AllOpen(rem) /\ \A k \in 1 .. Len(rem) : rem[k].client \in Client
  BY <1>1, <1>2, <1>4 DEF AllOK, AllOpen, EntryOK
<1>6. /\ backlog' \in Seq(Client) /\ Waiting(backlog', link') /\ clients' \in Seq(Connection)
      /\ link' \in [Client -> {"none", "pending", "open", "refused", "closed"}]
      /\ Once(clients') /\ AllOpen(clients') /\ AllOK(clients', link', read, sent)
      /\ \A d \in Client : link'[d] \in {"none", "pending"} => link[d] = link'[d]
  <2>1. CASE clients' = rem /\ UNCHANGED <<backlog, link>>
    BY <1>2, <1>4, <1>5, <2>1 DEF RxType
  <2>2. CASE 1 \in revents /\ backlog' = Tail(backlog)
    <3>1. /\ backlog \in Seq(Client) /\ backlog # <<>> /\ Len(backlog) \in Nat /\ Len(backlog) # 0
      BY <1>2, <2>2 DEF RxType
    <3>2. /\ c \in Client /\ c = backlog[1] /\ backlog' \in Seq(Client)
          /\ Len(backlog') = Len(backlog) - 1
          /\ \A i \in 1 .. Len(backlog') : backlog'[i] = backlog[i + 1]
      BY <2>2, <3>1, HeadTailProperties
    <3> HIDE DEF c
    <3>3. link[c] = "pending" /\ \A i \in 1 .. Len(backlog') : link[backlog'[i]] = "pending" /\ backlog'[i] # c
      <4>1. 1 \in 1 .. Len(backlog) /\ \A i \in 1 .. Len(backlog') : i + 1 \in 1 .. Len(backlog) /\ i + 1 # 1
        BY <3>1, <3>2
      <4> QED BY <1>2, <3>2, <4>1 DEF Waiting
    <3>4. \A i, j \in 1 .. Len(backlog') : backlog'[i] = backlog'[j] => i = j
      <4>1. \A i \in 1 .. Len(backlog') : i + 1 \in 1 .. Len(backlog)
        BY <3>1, <3>2
      <4>2. \A i, j \in 1 .. Len(backlog') : i + 1 = j + 1 => i = j
        BY <3>1, <3>2
      <4> QED BY <1>2, <3>2, <4>1, <4>2 DEF Waiting
    <3>5. \A i \in 1 .. Len(backlog') : backlog'[i] \in Client
      BY <3>2, ElementOfSeq
    <3>6. \A k \in 1 .. Len(rem) : rem[k].client # c /\ rem[k].client \in Client
      BY <1>5, <3>3 DEF AllOK, EntryOK, Accepted
    <3>7. CASE link' = [link EXCEPT ![c] = "refused"] /\ clients' = rem
      <4>1. \A d \in Client : link'[d] = IF d = c THEN "refused" ELSE link[d]
        BY <1>2, <3>7 DEF RxType
      <4>2. link' \in [Client -> {"none", "pending", "open", "refused", "closed"}]
        BY <1>2, <3>7 DEF RxType
      <4>3. Waiting(backlog', link')
        BY <3>3, <3>4, <3>5, <4>1 DEF Waiting
      <4>4. AllOK(rem, link', read, sent)
        BY <1>5, <3>6, <4>1 DEF AllOK, EntryOK, Accepted
      <4> QED BY <1>4, <1>5, <3>2, <3>7, <4>1, <4>2, <4>3, <4>4
    <3>8. CASE link' = [link EXCEPT ![c] = "open"] /\ clients' = Append(rem, NewConnection(c))
      <4>1. \A d \in Client : link'[d] = IF d = c THEN "open" ELSE link[d]
        BY <1>2, <3>8 DEF RxType
      <4>2. link' \in [Client -> {"none", "pending", "open", "refused", "closed"}]
        BY <1>2, <3>8 DEF RxType
      <4>3. Waiting(backlog', link')
        BY <3>3, <3>4, <3>5, <4>1 DEF Waiting
      <4> DEFINE x == NewConnection(c)
      <4>4. /\ clients' \in Seq(Connection) /\ Once(clients')
            /\ \A k \in 1 .. Len(clients') : \/ k \in 1 .. Len(rem) /\ clients'[k] = rem[k]
                                             \/ clients'[k] = x
        BY <1>4, <3>2, <3>6, <3>8, AppendedList
      <4>5. x.client = c /\ x.socket = c
        BY DEF NewConnection
      <4>6. Passed(x, read, sent)
        <5>1. read[c] = 0 /\ sent[c] = <<>>
          BY <1>2, <3>2, <3>3 DEF NotYetRead
        <5> QED BY <5>1, NewPassed
      <4> HIDE DEF x
      <4>7. EntryOK(x, link', read, sent)
        BY <3>2, <4>1, <4>5, <4>6 DEF EntryOK, Accepted
      <4>8. \A k \in 1 .. Len(rem) : EntryOK(rem[k], link', read, sent)
        BY <1>5, <3>6, <4>1 DEF AllOK, EntryOK, Accepted
      <4>9. AllOK(clients', link', read, sent)
        BY <4>4, <4>7, <4>8 DEF AllOK
      <4>10. AllOpen(clients')
        BY <1>5, <4>4, <4>5 DEF AllOpen
      <4> QED BY <3>2, <4>1, <4>2, <4>3, <4>4, <4>9, <4>10
    <3> QED BY <2>2, <3>7, <3>8 DEF EndLoop, rem, c
  <2> QED BY <2>1, <2>2 DEF EndLoop, rem
<1>7. fds' \in Seq(Client \union {rxSocket, Closed}) /\ Pollable(clients', fds')
  <2>1. CASE clients' = clients
    BY <1>2, <1>3, <2>1 DEF Renewed, RxType
  <2>2. CASE clients' # clients
    <3>1. fds' = <<>>
      BY <1>3, <2>2 DEF Renewed
    <3> QED BY <3>1, EmptySeq DEF Pollable
  <2> QED BY <2>1, <2>2
<1>8. RxType'
  BY <1>2, <1>3, <1>6, <1>7 DEF RxType
<1>9. NotYetRead'
  BY <1>2, <1>3, <1>6 DEF NotYetRead
<1> QED BY <1>3, <1>6, <1>7, <1>8, <1>9 DEF RxInv

(* Every step keeps all this.                                              *)
LEMMA RxKeeps ==
  ASSUME ReceptionAssumption, RxInv, [RxNext]_rxVars
  PROVE  RxInv'
<1>1. CASE UNCHANGED rxVars
  BY <1>1 DEF rxVars, outside, RxInv, RxType, NotYetRead
<1>2. CASE Daemon
  BY <1>2, PollKeeps, SkipKeeps, ReadKeeps, CloseKeeps, EndLoopKeeps DEF Daemon
<1>3. CASE \E c \in Client : Connect(c) \/ Writes(c) \/ Hangup(c)
  BY <1>3, ConnectKeeps, WritesKeeps, HangupKeeps
<1> QED BY <1>1, <1>2, <1>3 DEF RxNext

(* So they hold in every state.                                            *)
LEMMA RxInvHolds == RxSpec => []RxInv
<1>1. RxInit => RxInv
  BY RxStarts
<1>2. RxInv /\ [RxNext]_rxVars => RxInv'
  BY ReceptionAssumption, RxKeeps
<1> QED BY <1>1, <1>2, PTL DEF RxSpec

(* pollIx of a client of the list is the entry of its socket, whatever     *)
(* connections were accepted and removed in the loop (infoLoggerD.cxx:     *)
(* 482-492, 502, 559-604).                                                 *)
THEOREM PollsRight == RxSpec => []PollsItsOwn
<1>1. RxInv => PollsItsOwn
  <2> SUFFICES ASSUME RxInv, fds # <<>> PROVE PollsItsOwn
    BY DEF PollsItsOwn
  <2>1. DOMAIN clients = 1 .. Len(clients)
    BY ListType
  <2>2. DOMAIN fds = 1 .. Len(fds)
    BY LenProperties DEF RxInv, RxType
  <2> QED BY <2>1, <2>2 DEF RxInv, Pollable, PollsItsOwn
<1> QED BY <1>1, RxInvHolds, PTL

(* However the reads cut what a client writes, its text is in the          *)
(* messages passed on and the buffer, each byte once and in order.         *)
THEOREM BytesPassedOn == RxSpec => []BytesInOrder
<1>1. RxInv => BytesInOrder
  <2> SUFFICES ASSUME RxInv PROVE BytesInOrder
    OBVIOUS
  <2>1. DOMAIN clients = 1 .. Len(clients)
    BY ListType
  <2>2. \A i \in DOMAIN clients : Passed(clients[i], read, sent)
    BY <2>1 DEF RxInv, AllOK, EntryOK
  <2> QED BY <2>2 DEF BytesInOrder, Passed, Flat, BytesTo
<1> QED BY <1>1, RxInvHolds, PTL
-----------------------------------------------------------------------------
(* Counting positions: those from i to j that are in T.                    *)
Count(T, i, j) == Cardinality({k \in i .. j : k \in T})

(* The next position counts, or does not.                                  *)
LEMMA CountNext ==
  ASSUME NEW T, NEW i \in Int, NEW j \in Int, i <= j + 1
  PROVE  /\ Count(T, i, j) \in Nat
         /\ Count(T, i, j + 1) = Count(T, i, j) + IF j + 1 \in T THEN 1 ELSE 0
<1> DEFINE A == {k \in i .. j : k \in T}
           B == {k \in i .. j + 1 : k \in T}
<1>1. IsFiniteSet(A) /\ Cardinality(A) \in Nat
  <2>1. IsFiniteSet(i .. j)
    BY FS_Interval
  <2>2. A \in SUBSET (i .. j)
    OBVIOUS
  <2> HIDE DEF A
  <2> QED BY <2>1, <2>2, FS_Subset, FS_CardinalityType
<1>2. CASE j + 1 \in T
  <2>1. B = A \cup {j + 1} /\ j + 1 \notin A
    BY <1>2
  <2> HIDE DEF A, B
  <2>2. Cardinality(B) = Cardinality(A) + 1
    BY <1>1, <2>1, FS_AddElement
  <2> QED BY <1>1, <1>2, <2>2 DEF Count, A, B
<1>3. CASE j + 1 \notin T
  <2>1. B = A
    BY <1>3
  <2> HIDE DEF A, B
  <2> QED BY <1>1, <1>3, <2>1 DEF Count, A, B
<1> QED BY <1>2, <1>3

(* There is none to count.                                                 *)
LEMMA CountNone ==
  ASSUME NEW T, NEW i \in Int, NEW j \in Int, \A k \in i .. j : k \notin T
  PROVE  Count(T, i, j) = 0
<1>1. {k \in i .. j : k \in T} = {}
  OBVIOUS
<1> QED BY <1>1, FS_EmptySet DEF Count

(* Sets that are the same there.                                           *)
LEMMA CountSame ==
  ASSUME NEW T, NEW U, NEW i, NEW j, \A k \in i .. j : k \in T <=> k \in U
  PROVE  Count(T, i, j) = Count(U, i, j)
<1>1. {k \in i .. j : k \in T} = {k \in i .. j : k \in U}
  OBVIOUS
<1> QED BY <1>1 DEF Count

-----------------------------------------------------------------------------
(* What pushMessage logs: events appended one by one.                      *)
Kinds == {"sent", "stored", "dropped", "detected", "overflow", "resumed"}
Events == [kind : Kinds, time : Nat, stored : Nat, dropped : Nat]
Floods == [messageCount : Nat, msgs_sec : Nat, msgs_min : Nat, msgs_lastmin : Nat,
           time_lastsec : Nat, time_lastmin : Nat, floodMode : 0 .. 2,
           file_msg : Nat, file_msg_drop : Nat]

(* One event after those that a call has logged already.                   *)
LEMMA AppendsOne ==
  \A S : \A s, t \in Seq(S) : \A x \in S :
    s \o (t \o <<x>>) = Append(s \o t, x) /\ s \o t \in Seq(S)
<1> SUFFICES ASSUME NEW S, NEW s \in Seq(S), NEW t \in Seq(S), NEW x \in S
             PROVE  s \o (t \o <<x>>) = Append(s \o t, x) /\ s \o t \in Seq(S)
  OBVIOUS
<1> DEFINE a == <<x>>
           st == s \o t
<1>1. a \in Seq(S) /\ st \in Seq(S)
  BY ConcatProperties
<1> HIDE DEF a, st
<1>2. Append(st, x) = st \o <<x>>
  BY <1>1, AppendIsConcat
<1>3. s \o (t \o a) = st \o a
  BY <1>1, ConcatAssociative DEF st
<1> QED BY <1>1, <1>2, <1>3 DEF a, st

(* And two events.                                                         *)
LEMMA AppendsTwo ==
  \A S : \A s, t \in Seq(S) : \A x, y \in S :
    s \o (t \o <<x, y>>) = Append(Append(s \o t, x), y)
<1> SUFFICES ASSUME NEW S, NEW s \in Seq(S), NEW t \in Seq(S), NEW x \in S, NEW y \in S
             PROVE  s \o (t \o <<x, y>>) = Append(Append(s \o t, x), y)
  OBVIOUS
<1> DEFINE a == <<x>>
           c == <<x, y>>
           ta == t \o a
<1>1. a \in Seq(S) /\ ta \in Seq(S) /\ c = a \o <<y>>
  <2>1. a \in Seq(S) /\ ta \in Seq(S)
    BY ConcatProperties
  <2> DEFINE b == <<y>>
             ab == a \o b
  <2>2. b \in Seq(S) /\ Len(a) = 1 /\ Len(b) = 1 /\ a[1] = x /\ b[1] = y
        /\ a \in Seq(S)
    BY <2>1
  <2>3. c \in Seq(S) /\ Len(c) = 2 /\ c[1] = x /\ c[2] = y
    OBVIOUS
  <2> HIDE DEF a, b
  <2>4. /\ ab \in Seq(S) /\ Len(ab) = Len(a) + Len(b)
        /\ \A i \in 1 .. Len(a) + Len(b) : ab[i] = IF i <= Len(a) THEN a[i] ELSE b[i - Len(a)]
    BY <2>2, ConcatProperties
  <2> HIDE DEF ab, c
  <2>5. Len(ab) = 2 /\ ab[1] = x /\ ab[2] = y
    BY <2>2, <2>4
  <2>6. \A i \in 1 .. 2 : i = 1 \/ i = 2
    OBVIOUS
  <2>7. c = ab
    BY <2>3, <2>4, <2>5, <2>6, SeqEqual
  <2> QED BY <2>1, <2>7 DEF ab, b
<1> HIDE DEF a, ta, c
<1>2. t \o (a \o <<y>>) = ta \o <<y>>
  <2> DEFINE b == <<y>>
  <2>1. b \in Seq(S)
    OBVIOUS
  <2> HIDE DEF b
  <2>2. (t \o a) \o b = t \o (a \o b)
    <3>1. t \in Seq(S) /\ a \in Seq(S) /\ b \in Seq(S)
      BY <1>1, <2>1
    <3> QED BY <3>1, ConcatAssociative
  <2> QED BY <2>2 DEF b, ta
<1>3. s \o (ta \o <<y>>) = Append(s \o ta, y)
  BY <1>1, AppendsOne
<1>4. s \o ta = Append(s \o t, x)
  BY AppendsOne DEF ta, a
<1> QED BY <1>1, <1>2, <1>3, <1>4 DEF c

(* A flood is under way, or begins with this message, g and l being the    *)
(* counters and the log then.                                              *)
Begun(g, l) ==
  LET f == Counted(flood) IN
  \/ f.floodMode # 0 /\ g = f /\ l = log
  \/ /\ f.floodMode = 0 /\ TooMany(f)
     /\ \E mode \in {1, 2} : g = Detected(f, mode)
     /\ l = Append(log, Event("detected"))

InFloodIs(g, l) ==
  \/ /\ Quiet(g) /\ flood' = FloodReset(Counted(g))
     /\ log' = Append(Append(l, Resumed(g)), Event("sent"))
  \/ /\ ~Quiet(g) /\ g.floodMode = 1 /\ g.file_msg < flood_maxmsg_file
     /\ flood' = [g EXCEPT !.file_msg = @ + 1]
     /\ log' = Append(l, Event("stored"))
  \/ /\ ~Quiet(g) /\ g.floodMode = 1 /\ g.file_msg >= flood_maxmsg_file
     /\ flood' = [Counted(g) EXCEPT !.floodMode = 2, !.file_msg_drop = @ + 1]
     /\ log' = Append(Append(l, Event("overflow")), Event("dropped"))
  \/ /\ ~Quiet(g) /\ g.floodMode = 2
     /\ flood' = [g EXCEPT !.file_msg_drop = @ + 1]
     /\ log' = Append(l, Event("dropped"))

(* A message is counted in its second and in its minute.                   *)
LEMMA CountedType ==
  ASSUME now \in Nat, NEW f \in Floods
  PROVE  /\ Counted(f) \in Floods
         /\ Counted(f).floodMode = f.floodMode
         /\ Counted(f).file_msg = f.file_msg /\ Counted(f).file_msg_drop = f.file_msg_drop
         /\ Counted(f).messageCount = f.messageCount + 1
         /\ Counted(f).msgs_sec = IF now - f.time_lastsec > 1 THEN 1 ELSE f.msgs_sec + 1
         /\ Counted(f).time_lastsec = IF now - f.time_lastsec > 1 THEN now ELSE f.time_lastsec
         /\ Counted(f).msgs_lastmin
              = IF now - f.time_lastmin > MinuteLength THEN f.msgs_min ELSE f.msgs_lastmin
         /\ Counted(f).time_lastmin
              = IF now - f.time_lastmin > MinuteLength THEN now ELSE f.time_lastmin
<1> DEFINE sec == now - f.time_lastsec > 1
           min == now - f.time_lastmin > MinuteLength
           s == IF sec THEN 1 ELSE f.msgs_sec + 1
           ls == IF sec THEN now ELSE f.time_lastsec
           m == IF min THEN 1 ELSE f.msgs_min + 1
           lm == IF min THEN f.msgs_min ELSE f.msgs_lastmin
           tm == IF min THEN now ELSE f.time_lastmin
           c == f.messageCount + 1
<1>1. /\ f.messageCount \in Nat /\ f.msgs_sec \in Nat /\ f.msgs_min \in Nat
      /\ f.msgs_lastmin \in Nat /\ f.time_lastsec \in Nat /\ f.time_lastmin \in Nat
  BY DEF Floods
<1>2. /\ s \in Nat /\ ls \in Nat /\ m \in Nat /\ lm \in Nat /\ tm \in Nat /\ c \in Nat
  BY <1>1
<1>3. Counted(f) = [f EXCEPT !.messageCount = c, !.msgs_sec = s, !.time_lastsec = ls,
                             !.msgs_min = m, !.msgs_lastmin = lm, !.time_lastmin = tm]
  BY DEF Counted
<1> HIDE DEF s, ls, m, lm, tm, c
<1>4. /\ Counted(f) \in Floods
      /\ Counted(f).floodMode = f.floodMode
      /\ Counted(f).file_msg = f.file_msg /\ Counted(f).file_msg_drop = f.file_msg_drop
      /\ Counted(f).messageCount = c /\ Counted(f).msgs_sec = s
      /\ Counted(f).time_lastsec = ls /\ Counted(f).msgs_lastmin = lm
      /\ Counted(f).time_lastmin = tm
  BY <1>2, <1>3 DEF Floods
<1> QED BY <1>4 DEF c, s, ls, lm, tm

(* A flood begins: no message is stored or dropped yet, and the notice of  *)
(* it is counted.                                                          *)
LEMMA DetectedType ==
  ASSUME now \in Nat, NEW f \in Floods, NEW mode \in {1, 2}
  PROVE  /\ Detected(f, mode) \in Floods
         /\ Detected(f, mode).floodMode = mode
         /\ Detected(f, mode).file_msg = 0 /\ Detected(f, mode).file_msg_drop = 0
         /\ Detected(f, mode).messageCount = f.messageCount + 1
         /\ Detected(f, mode).msgs_sec = Counted(f).msgs_sec
         /\ Detected(f, mode).time_lastsec = Counted(f).time_lastsec
         /\ Detected(f, mode).msgs_lastmin = Counted(f).msgs_lastmin
         /\ Detected(f, mode).time_lastmin = Counted(f).time_lastmin
<1> DEFINE g == Counted(f)
<1>1. g \in Floods /\ g.messageCount = f.messageCount + 1
  BY CountedType
<1> HIDE DEF g
<1>2. Detected(f, mode) = [g EXCEPT !.floodMode = mode, !.file_msg = 0, !.file_msg_drop = 0]
  BY DEF Detected, g
<1>3. mode \in 0 .. 2
  OBVIOUS
<1> DEFINE d == Detected(f, mode)
<1>4. d \in Floods /\ d.floodMode = mode /\ d.file_msg = 0 /\ d.file_msg_drop = 0
  <2> HIDE DEF d
  <2>1. d = [g EXCEPT !.floodMode = mode, !.file_msg = 0, !.file_msg_drop = 0]
    BY <1>2 DEF d
  <2> QED BY <1>1, <1>3, <2>1 DEF Floods
<1>5. /\ d.messageCount = g.messageCount /\ d.msgs_sec = g.msgs_sec
      /\ d.time_lastsec = g.time_lastsec /\ d.msgs_lastmin = g.msgs_lastmin
      /\ d.time_lastmin = g.time_lastmin
  <2> HIDE DEF d
  <2>1. d = [g EXCEPT !.floodMode = mode, !.file_msg = 0, !.file_msg_drop = 0]
    BY <1>2 DEF d
  <2> QED BY <1>1, <2>1 DEF Floods
<1> HIDE DEF d
<1> QED BY <1>1, <1>4, <1>5 DEF g, d

(* The events that are logged.                                             *)
LEMMA EventType ==
  ASSUME now \in Nat
  PROVE  /\ \A k \in Kinds : Event(k) \in Events /\ Event(k).kind = k /\ Event(k).time = now
         /\ \A f \in Floods : /\ Resumed(f) \in Events /\ Resumed(f).kind = "resumed"
                              /\ Resumed(f).time = now /\ Resumed(f).stored = f.file_msg
                              /\ Resumed(f).dropped = f.file_msg_drop
BY DEF Event, Resumed, Events, Floods, Kinds

(* What the flood does with the message, event by event.                   *)
LEMMA InFloodDoes ==
  ASSUME now \in Nat, log \in Seq(Events), NEW g \in Floods, NEW es \in Seq(Events),
         InFlood(g, es)
  PROVE  InFloodIs(g, log \o es)
<1>1. /\ Event("sent") \in Events /\ Event("stored") \in Events /\ Event("dropped") \in Events
      /\ Event("overflow") \in Events /\ Resumed(g) \in Events
  BY EventType DEF Kinds
<1> HIDE DEF Events, Floods
<1>2. \A x \in Events : log \o (es \o <<x>>) = Append(log \o es, x)
  <2> DEFINE E == Events
             l == log
  <2>1. l \in Seq(E) /\ es \in Seq(E)
    OBVIOUS
  <2> HIDE DEF E, l
  <2>2. ASSUME NEW x \in E PROVE l \o (es \o <<x>>) = Append(l \o es, x)
    BY <2>1, AppendsOne
  <2> QED BY <2>2 DEF E, l
<1>3. \A x, y \in Events : log \o (es \o <<x, y>>) = Append(Append(log \o es, x), y)
  <2> DEFINE E == Events
             l == log
  <2>1. l \in Seq(E) /\ es \in Seq(E)
    OBVIOUS
  <2> HIDE DEF E, l
  <2>2. ASSUME NEW x \in E, NEW y \in E
        PROVE  l \o (es \o <<x, y>>) = Append(Append(l \o es, x), y)
    BY <2>1, AppendsTwo, SMTT(30)
  <2> QED BY <2>2 DEF E, l
<1> QED BY <1>1, <1>2, <1>3 DEF InFlood, InFloodIs, Resumes, Logs

(* pushMessage sends, or is in a flood, under way or begun by this call.   *)
LEMMA PushDoes ==
  ASSUME now \in Nat, flood \in Floods, log \in Seq(Events), PushMessage
  PROVE  \/ /\ Counted(flood).floodMode = 0 /\ ~TooMany(Counted(flood))
            /\ flood' = Counted(flood) /\ log' = Append(log, Event("sent"))
         \/ \E g \in Floods, l \in Seq(Events) : Begun(g, l) /\ InFloodIs(g, l)
<1> DEFINE f == Counted(flood)
           det == Event("detected")
<1>1. f \in Floods
  BY CountedType
<1>2. det \in Events /\ Event("sent") \in Events
  BY EventType DEF Kinds
<1> HIDE DEF Events, Floods, f, det
<1>3. <<>> \in Seq(Events) /\ <<det>> \in Seq(Events)
  BY <1>2
<1>4. log \o <<>> = log
  BY ConcatEmptySeq
<1>5. /\ log \o <<det>> = Append(log, det) /\ Append(log, det) \in Seq(Events)
      /\ log \o <<Event("sent")>> = Append(log, Event("sent"))
  BY <1>2, AppendIsConcat, AppendProperties
<1>6. CASE f.floodMode = 0 /\ ~TooMany(f) /\ flood' = f /\ Logs(<<Event("sent")>>)
  BY <1>5, <1>6 DEF Logs, f
<1>7. CASE /\ f.floodMode = 0 /\ TooMany(f)
           /\ \E mode \in {1, 2} : InFlood(Detected(f, mode), <<det>>)
  <2>1. PICK mode \in {1, 2} : InFlood(Detected(f, mode), <<det>>)
    BY <1>7
  <2>2. Detected(f, mode) \in Floods
    BY <1>1, DetectedType
  <2>3. InFloodIs(Detected(f, mode), log \o <<det>>)
    BY <1>3, <2>1, <2>2, InFloodDoes
  <2>4. Begun(Detected(f, mode), Append(log, det))
    BY <1>7 DEF Begun, f, det
  <2> QED BY <1>5, <2>2, <2>3, <2>4
<1>8. CASE f.floodMode # 0 /\ InFlood(f, <<>>)
  <2>1. InFloodIs(f, log \o <<>>)
    BY <1>1, <1>3, <1>8, InFloodDoes
  <2>2. Begun(f, log)
    BY <1>8 DEF Begun, f
  <2> QED BY <1>1, <1>4, <2>1, <2>2
<1> QED BY <1>6, <1>7, <1>8 DEF PushMessage, f, det

-----------------------------------------------------------------------------
(* The messages sent at one time.                                          *)
SentAt(l, t) == {i \in 1 .. Len(l) : l[i].kind = "sent" /\ l[i].time = t}
Sent(l, t) == Cardinality(SentAt(l, t))

(* One more event: one more message sent at its time, or not.              *)
LEMMA SentNext ==
  ASSUME NEW l \in Seq(Events), NEW e \in Events, NEW t
  PROVE  /\ Append(l, e) \in Seq(Events)
         /\ Sent(l, t) \in Nat
         /\ Sent(Append(l, e), t)
              = Sent(l, t) + IF e.kind = "sent" /\ e.time = t THEN 1 ELSE 0
<1> DEFINE n == Len(l)
           m == Append(l, e)
           T == SentAt(l, t)
           U == SentAt(m, t)
<1>1. /\ n \in Nat /\ m \in Seq(Events) /\ Len(m) = n + 1 /\ m[n + 1] = e
      /\ \A i \in 1 .. n : m[i] = l[i]
  <2> HIDE DEF Events
  <2> QED BY AppendProperties
<1> HIDE DEF m, n
<1>2. /\ T = {k \in 1 .. n : k \in U} /\ U = {k \in 1 .. n + 1 : k \in U}
      /\ (n + 1 \in U <=> e.kind = "sent" /\ e.time = t)
  BY <1>1 DEF SentAt, n
<1> HIDE DEF T, U
<1>3. Cardinality(T) = Count(U, 1, n) /\ Cardinality(U) = Count(U, 1, n + 1)
  BY <1>2 DEF Count
<1>4. /\ Count(U, 1, n) \in Nat
      /\ Count(U, 1, n + 1) = Count(U, 1, n) + IF n + 1 \in U THEN 1 ELSE 0
  BY <1>1, CountNext
<1> QED BY <1>1, <1>2, <1>3, <1>4 DEF Sent, T, U, m

(* No message is sent at a time that no event has.                         *)
LEMMA NoneSent ==
  ASSUME NEW l, NEW t, \A i \in 1 .. Len(l) : l[i].time # t
  PROVE  Sent(l, t) = 0
<1>1. SentAt(l, t) = {}
  BY DEF SentAt
<1> QED BY <1>1, FS_EmptySet DEF Sent

(* A flood ended at that time.                                             *)
EndedAt(l, t) == \E i \in 1 .. Len(l) : l[i].kind = "resumed" /\ l[i].time = t

(* Only the notice of its end makes it so.                                 *)
LEMMA EndedNext ==
  ASSUME NEW l \in Seq(Events), NEW e \in Events, NEW t
  PROVE  EndedAt(Append(l, e), t) <=> EndedAt(l, t) \/ (e.kind = "resumed" /\ e.time = t)
<1> DEFINE n == Len(l)
           m == Append(l, e)
<1>1. /\ n \in Nat /\ Len(m) = n + 1 /\ m[n + 1] = e
      /\ \A i \in 1 .. n : m[i] = l[i]
  <2> HIDE DEF Events
  <2> QED BY AppendProperties
<1> HIDE DEF m, n
<1>2. \A i \in 1 .. n + 1 : i \in 1 .. n \/ i = n + 1
  BY <1>1
<1>3. n + 1 \in 1 .. n + 1 /\ \A i \in 1 .. n : i \in 1 .. n + 1
  BY <1>1
<1> QED BY <1>1, <1>2, <1>3 DEF EndedAt, n, m

(* What the counters allow to have been sent in the second that is now, if *)
(* no flood ended in it: as many as are counted since the last second that *)
(* began.                                                                  *)
Window(f) ==
  IF f.floodMode # 0 THEN flood_maxmsg_sec
  ELSE IF now - f.time_lastsec > 1 THEN 0 ELSE f.msgs_sec

RateOK(f, l) ==
  /\ f \in Floods /\ f.time_lastsec <= now
  /\ f.floodMode = 0 => f.msgs_sec <= flood_maxmsg_sec
  /\ Sent(l, now) <= Window(f) \/ EndedAt(l, now)

(* When a message has been counted and not been logged yet.                *)
CountedOK(f, l) ==
  /\ f \in Floods /\ f.time_lastsec <= now
  /\ now - f.time_lastsec <= 1
  /\ \/ EndedAt(l, now)
     \/ /\ Sent(l, now) <= flood_maxmsg_sec
        /\ f.floodMode = 0 => Sent(l, now) + 1 <= f.msgs_sec

(* Counting the message leaves room for it.                                *)
LEMMA CountedRate ==
  ASSUME FloodAssumption, now \in Nat, NEW f, NEW l \in Seq(Events),
         RateOK(f, l) \/ (CountedOK(f, l) /\ f.floodMode # 0), Sent(l, now) \in Nat
  PROVE  CountedOK(Counted(f), l)
<1> DEFINE g == Counted(f)
<1>1. f \in Floods /\ f.time_lastsec <= now
  BY DEF RateOK, CountedOK
<1>2. f.msgs_sec \in Nat /\ f.time_lastsec \in Nat /\ flood_maxmsg_sec \in Nat
  BY <1>1 DEF Floods, FloodAssumption
<1>3. /\ g \in Floods /\ g.floodMode = f.floodMode
      /\ g.msgs_sec = IF now - f.time_lastsec > 1 THEN 1 ELSE f.msgs_sec + 1
      /\ g.time_lastsec = IF now - f.time_lastsec > 1 THEN now ELSE f.time_lastsec
  BY <1>1, CountedType
<1> HIDE DEF g
<1>4. g.time_lastsec <= now /\ now - g.time_lastsec <= 1
  BY <1>1, <1>2, <1>3
<1>5. CASE EndedAt(l, now)
  BY <1>3, <1>4, <1>5 DEF CountedOK, g
<1>6. CASE RateOK(f, l) /\ ~EndedAt(l, now)
  <2>1. Window(f) \in Nat /\ Window(f) <= flood_maxmsg_sec /\ Sent(l, now) <= Window(f)
    BY <1>2, <1>6 DEF RateOK, Window
  <2>2. Sent(l, now) <= flood_maxmsg_sec
    BY <1>2, <2>1
  <2>3. f.floodMode = 0 => Window(f) + 1 <= g.msgs_sec
    BY <1>2, <1>3 DEF Window
  <2>4. g.msgs_sec \in Nat
    BY <1>3 DEF Floods
  <2>5. f.floodMode = 0 => Sent(l, now) + 1 <= g.msgs_sec
    BY <2>1, <2>3, <2>4
  <2> QED BY <1>3, <1>4, <2>2, <2>5 DEF CountedOK, g
<1>7. CASE CountedOK(f, l) /\ f.floodMode # 0 /\ ~EndedAt(l, now)
  BY <1>3, <1>4, <1>7 DEF CountedOK, g
<1> QED BY <1>5, <1>6, <1>7

(* A message or a notice that is not sent is logged in a flood.            *)
LEMMA NotSentRate ==
  ASSUME FloodAssumption, now \in Nat, NEW l \in Seq(Events), NEW e \in Events, e.kind # "sent",
         NEW f, CountedOK(f, l)
  PROVE  /\ Append(l, e) \in Seq(Events) /\ CountedOK(f, Append(l, e))
         /\ f.floodMode # 0 => RateOK(f, Append(l, e))
<1>1. Append(l, e) \in Seq(Events) /\ Sent(l, now) \in Nat /\ Sent(Append(l, e), now) = Sent(l, now)
  BY SentNext
<1>2. CountedOK(f, Append(l, e))
  BY <1>1, EndedNext DEF CountedOK
<1>3. f.floodMode # 0 => RateOK(f, Append(l, e))
  BY <1>2 DEF CountedOK, RateOK, Window
<1> QED BY <1>1, <1>2, <1>3

(* The log up to now, and what was sent in earlier seconds.                *)
Past(l) ==
  /\ l \in Seq(Events)
  /\ \A i \in 1 .. Len(l) : l[i].time <= now
  /\ \A t \in Nat : t < now => Sent(l, t) <= flood_maxmsg_sec \/ EndedAt(l, t)

RateInv == now \in Nat /\ Past(log) /\ RateOK(flood, log)

(* An event of the present changes nothing that is past.                   *)
LEMMA PastAppend ==
  ASSUME now \in Nat, NEW l, Past(l), NEW e \in Events, e.time = now
  PROVE  Past(Append(l, e))
<1> DEFINE m == Append(l, e)
<1>1. l \in Seq(Events)
  BY DEF Past
<1>2. /\ m \in Seq(Events) /\ Len(m) = Len(l) + 1 /\ m[Len(l) + 1] = e
      /\ \A i \in 1 .. Len(l) : m[i] = l[i]
  <2> HIDE DEF Events
  <2> QED BY <1>1, AppendProperties
<1>3. Len(l) \in Nat
  BY <1>1
<1>4. \A t \in Nat : t < now => Sent(m, t) = Sent(l, t) /\ (EndedAt(l, t) => EndedAt(m, t))
  <2> TAKE t \in Nat
  <2> HAVE t < now
  <2>1. Sent(l, t) \in Nat /\ Sent(m, t) = Sent(l, t) + 0
    BY <1>1, SentNext
  <2>2. EndedAt(l, t) => EndedAt(m, t)
    BY <1>1, EndedNext
  <2> QED BY <2>1, <2>2
<1> HIDE DEF m
<1>5. \A i \in 1 .. Len(m) : i \in 1 .. Len(l) \/ i = Len(l) + 1
  BY <1>2, <1>3
<1>6. \A i \in 1 .. Len(m) : m[i].time <= now
  BY <1>2, <1>5 DEF Past
<1>7. \A t \in Nat : t < now => Sent(m, t) <= flood_maxmsg_sec \/ EndedAt(m, t)
  BY <1>4 DEF Past
<1> QED BY <1>2, <1>6, <1>7 DEF Past, m

(* Those that pushMessage logs are of the present.                         *)
LEMMA EventsAppended ==
  ASSUME now \in Nat, NEW l, Past(l), NEW g \in Floods
  PROVE  /\ \A k \in Kinds : Past(Append(l, Event(k)))
         /\ Past(Append(l, Resumed(g)))
<1>1. /\ \A k \in Kinds : Event(k) \in Events /\ Event(k).time = now
      /\ Resumed(g) \in Events /\ Resumed(g).time = now
  BY EventType
<1> QED BY <1>1, PastAppend

(* floodReset.                                                             *)
LEMMA ResetType ==
  ASSUME FloodAssumption, now \in Nat, NEW c \in Floods
  PROVE  /\ FloodReset(c) \in Floods
         /\ FloodReset(c).time_lastsec = now /\ FloodReset(c).time_lastmin = now
         /\ FloodReset(c).floodMode = 0 /\ FloodReset(c).msgs_sec = 0
         /\ FloodReset(c).msgs_lastmin = flood_maxmsg_reset
         /\ FloodReset(c).messageCount = c.messageCount
<1> DEFINE f == FloodReset(c)
<1>1. /\ 0 \in Nat /\ 0 \in 0 .. 2 /\ flood_maxmsg_reset \in Nat
  BY DEF FloodAssumption
<1>2. f = [c EXCEPT !.msgs_sec = 0, !.msgs_min = 0, !.msgs_lastmin = flood_maxmsg_reset,
                    !.time_lastsec = now, !.time_lastmin = now,
                    !.floodMode = 0, !.file_msg = 0, !.file_msg_drop = 0]
  BY DEF FloodReset
<1> HIDE DEF f
<1>3. f \in Floods
  BY <1>1, <1>2 DEF Floods
<1>4. /\ f.time_lastsec = now /\ f.time_lastmin = now /\ f.floodMode = 0
      /\ f.msgs_sec = 0 /\ f.msgs_lastmin = flood_maxmsg_reset
      /\ f.messageCount = c.messageCount
  BY <1>2, Zenon DEF Floods
<1> QED BY <1>3, <1>4 DEF f

(* The flood ends: the message is sent, and the counters start again.      *)
LEMMA ResumesRate ==
  ASSUME FloodAssumption, now \in Nat, NEW g \in Floods, NEW l \in Seq(Events)
  PROVE  RateOK(FloodReset(Counted(g)), Append(Append(l, Resumed(g)), Event("sent")))
<1> DEFINE e == Event("sent")
           m == Append(l, Resumed(g))
           f == FloodReset(Counted(g))
<1>1. /\ Resumed(g) \in Events /\ Resumed(g).kind = "resumed" /\ Resumed(g).time = now
      /\ e \in Events
  BY EventType DEF Kinds
<1>2. m \in Seq(Events)
  <2> HIDE DEF Events
  <2> QED BY <1>1, AppendProperties
<1>3. EndedAt(m, now)
  BY <1>1, EndedNext
<1>4. EndedAt(Append(m, e), now)
  <2> HIDE DEF m, e
  <2> QED BY <1>1, <1>2, <1>3, EndedNext
<1>5. /\ f \in Floods /\ f.time_lastsec = now /\ f.floodMode = 0 /\ f.msgs_sec = 0
  BY CountedType, ResetType
<1>6. flood_maxmsg_sec \in Nat
  BY DEF FloodAssumption
<1> HIDE DEF f, e, m
<1>7. RateOK(f, Append(m, e))
  BY <1>4, <1>5, <1>6 DEF RateOK
<1> QED BY <1>7 DEF f, e, m

(* The counters of the file, counted on.                                   *)
LEMMA FileUp ==
  ASSUME NEW g \in Floods
  PROVE  /\ \A f : f = [g EXCEPT !.file_msg = @ + 1] =>
              /\ f \in Floods /\ f.file_msg = g.file_msg + 1
              /\ f.file_msg_drop = g.file_msg_drop /\ f.floodMode = g.floodMode
              /\ f.messageCount = g.messageCount /\ f.time_lastsec = g.time_lastsec
              /\ f.time_lastmin = g.time_lastmin /\ f.msgs_lastmin = g.msgs_lastmin
         /\ \A f : f = [g EXCEPT !.file_msg_drop = @ + 1] =>
              /\ f \in Floods /\ f.file_msg = g.file_msg
              /\ f.file_msg_drop = g.file_msg_drop + 1 /\ f.floodMode = g.floodMode
              /\ f.messageCount = g.messageCount /\ f.time_lastsec = g.time_lastsec
              /\ f.time_lastmin = g.time_lastmin /\ f.msgs_lastmin = g.msgs_lastmin
         /\ \A f : f = [g EXCEPT !.floodMode = 2, !.file_msg_drop = @ + 1] =>
              /\ f \in Floods /\ f.file_msg = g.file_msg
              /\ f.file_msg_drop = g.file_msg_drop + 1 /\ f.floodMode = 2
              /\ f.messageCount = g.messageCount /\ f.time_lastsec = g.time_lastsec
              /\ f.time_lastmin = g.time_lastmin /\ f.msgs_lastmin = g.msgs_lastmin
<1> DEFINE x == g.file_msg + 1
           y == g.file_msg_drop + 1
<1>1. x \in Nat /\ y \in Nat
  BY DEF Floods
<1>2. ASSUME NEW f, f = [g EXCEPT !.file_msg = @ + 1]
      PROVE  f = [g EXCEPT !.file_msg = x]
  BY <1>2
<1>3. ASSUME NEW f, f = [g EXCEPT !.file_msg_drop = @ + 1]
      PROVE  f = [g EXCEPT !.file_msg_drop = y]
  BY <1>3
<1>4. ASSUME NEW f, f = [g EXCEPT !.floodMode = 2, !.file_msg_drop = @ + 1]
      PROVE  f = [g EXCEPT !.floodMode = 2, !.file_msg_drop = y]
  BY <1>4
<1> HIDE DEF x, y
<1>5. ASSUME NEW f, f = [g EXCEPT !.file_msg = x]
      PROVE  /\ f \in Floods /\ f.file_msg = x
             /\ f.file_msg_drop = g.file_msg_drop /\ f.floodMode = g.floodMode
             /\ f.messageCount = g.messageCount /\ f.time_lastsec = g.time_lastsec
             /\ f.time_lastmin = g.time_lastmin /\ f.msgs_lastmin = g.msgs_lastmin
  BY <1>1, <1>5 DEF Floods
<1>6. ASSUME NEW f, f = [g EXCEPT !.file_msg_drop = y]
      PROVE  /\ f \in Floods /\ f.file_msg = g.file_msg
             /\ f.file_msg_drop = y /\ f.floodMode = g.floodMode
             /\ f.messageCount = g.messageCount /\ f.time_lastsec = g.time_lastsec
             /\ f.time_lastmin = g.time_lastmin /\ f.msgs_lastmin = g.msgs_lastmin
  BY <1>1, <1>6 DEF Floods
<1>7. ASSUME NEW f, f = [g EXCEPT !.floodMode = 2, !.file_msg_drop = y]
      PROVE  /\ f \in Floods /\ f.file_msg = g.file_msg
             /\ f.file_msg_drop = y /\ f.floodMode = 2
             /\ f.messageCount = g.messageCount /\ f.time_lastsec = g.time_lastsec
             /\ f.time_lastmin = g.time_lastmin /\ f.msgs_lastmin = g.msgs_lastmin
  <2>1. 2 \in 0 .. 2
    OBVIOUS
  <2> QED BY <1>1, <1>7, <2>1 DEF Floods
<1> QED BY <1>2, <1>3, <1>4, <1>5, <1>6, <1>7 DEF x, y

(* Counters of the file do not matter here.                                *)
LEMMA FileCounted ==
  ASSUME NEW l, NEW f, NEW g, CountedOK(g, l), f \in Floods,
         f.time_lastsec = g.time_lastsec, f.floodMode # 0
  PROVE  CountedOK(f, l)
BY DEF CountedOK

(* A message of a flood keeps to the rate, also when the flood ends with it.*)
LEMMA InFloodRate ==
  ASSUME FloodAssumption, now \in Nat, NEW g, NEW l, g.floodMode # 0,
         Past(l), CountedOK(g, l), InFloodIs(g, l)
  PROVE  Past(log') /\ RateOK(flood', log')
<1>1. l \in Seq(Events) /\ g \in Floods
  BY DEF Past, CountedOK
<1>2. /\ \A k \in Kinds : Event(k) \in Events /\ Event(k).kind = k
      /\ {"sent", "stored", "dropped", "overflow"} \subseteq Kinds
  BY EventType DEF Kinds
<1>3. CASE /\ Quiet(g) /\ flood' = FloodReset(Counted(g))
           /\ log' = Append(Append(l, Resumed(g)), Event("sent"))
  <2>1. RateOK(flood', log')
    BY <1>1, <1>3, ResumesRate
  <2>2. Past(Append(l, Resumed(g)))
    BY <1>1, EventsAppended
  <2>3. Past(log')
    BY <1>1, <1>2, <1>3, <2>2, EventsAppended
  <2> QED BY <2>1, <2>3
<1>4. ASSUME NEW k \in {"stored", "dropped"}, NEW f, NEW m \in Seq(Events), Past(m), CountedOK(f, m),
             f.floodMode # 0
      PROVE  Past(Append(m, Event(k))) /\ RateOK(f, Append(m, Event(k)))
  <2>1. k \in Kinds /\ Event(k) \in Events /\ Event(k).kind # "sent"
    BY <1>2
  <2>2. Past(Append(m, Event(k)))
    BY <1>1, <1>4, <2>1, EventsAppended
  <2> QED BY <1>4, <2>1, <2>2, NotSentRate
<1>5. CASE flood' = [g EXCEPT !.file_msg = @ + 1] /\ log' = Append(l, Event("stored"))
  <2> DEFINE f == flood'
  <2>1. f \in Floods /\ f.time_lastsec = g.time_lastsec /\ f.time_lastmin = g.time_lastmin
        /\ f.msgs_lastmin = g.msgs_lastmin /\ f.floodMode # 0
    BY <1>1, <1>5, FileUp
  <2> HIDE DEF f
  <2>2. CountedOK(f, l)
    BY <2>1, FileCounted
  <2> QED BY <1>1, <1>4, <1>5, <2>1, <2>2 DEF f
<1>6. CASE flood' = [g EXCEPT !.file_msg_drop = @ + 1] /\ log' = Append(l, Event("dropped"))
  <2> DEFINE f == flood'
  <2>1. f \in Floods /\ f.time_lastsec = g.time_lastsec /\ f.time_lastmin = g.time_lastmin
        /\ f.msgs_lastmin = g.msgs_lastmin /\ f.floodMode # 0
    BY <1>1, <1>6, FileUp
  <2> HIDE DEF f
  <2>2. CountedOK(f, l)
    BY <2>1, FileCounted
  <2> QED BY <1>1, <1>4, <1>6, <2>1, <2>2 DEF f
<1>7. CASE /\ flood' = [Counted(g) EXCEPT !.floodMode = 2, !.file_msg_drop = @ + 1]
           /\ log' = Append(Append(l, Event("overflow")), Event("dropped"))
  <2> DEFINE c == Counted(g)
             f == flood'
             m == Append(l, Event("overflow"))
  <2>1. Sent(l, now) \in Nat
    BY <1>1, SentNext, <1>2
  <2>2. CountedOK(c, l)
    BY <1>1, <2>1, CountedRate
  <2> HIDE DEF c
  <2>3. c \in Floods
    BY <2>2 DEF CountedOK
  <2>4. f \in Floods /\ f.time_lastsec = c.time_lastsec /\ f.time_lastmin = c.time_lastmin
        /\ f.msgs_lastmin = c.msgs_lastmin /\ f.floodMode # 0
    <3>1. flood' = [c EXCEPT !.floodMode = 2, !.file_msg_drop = @ + 1]
      BY <1>7 DEF c
    <3>2. ASSUME NEW h, h = [c EXCEPT !.floodMode = 2, !.file_msg_drop = @ + 1]
          PROVE  /\ h \in Floods /\ h.floodMode = 2 /\ h.time_lastsec = c.time_lastsec
                 /\ h.time_lastmin = c.time_lastmin /\ h.msgs_lastmin = c.msgs_lastmin
      BY <2>3, <3>2, FileUp
    <3> QED BY <3>1, <3>2
  <2> HIDE DEF f
  <2>5. CountedOK(f, l)
    BY <2>2, <2>4, FileCounted
  <2>6. m \in Seq(Events) /\ CountedOK(f, m)
    <3>1. Event("overflow") \in Events /\ Event("overflow").kind # "sent"
      BY <1>2
    <3> QED BY <1>1, <2>5, <3>1, NotSentRate
  <2>7. Past(m)
    BY <1>1, <1>2, EventsAppended
  <2> HIDE DEF m
  <2>8. Past(Append(m, Event("dropped"))) /\ RateOK(f, Append(m, Event("dropped")))
    BY <1>4, <2>4, <2>6, <2>7
  <2> QED BY <1>7, <2>8 DEF c, f, m
<1> QED BY <1>3, <1>5, <1>6, <1>7 DEF InFloodIs

(* The notice that a flood begins is counted too.                          *)
LEMMA CountedOn ==
  ASSUME FloodAssumption, now \in Nat, NEW f, NEW g, NEW l, Sent(l, now) \in Nat,
         CountedOK(f, l), g \in Floods, g.floodMode # 0,
         g.time_lastsec = Counted(f).time_lastsec
  PROVE  CountedOK(g, l)
<1>1. f \in Floods /\ f.time_lastsec <= now /\ f.time_lastsec \in Nat
  BY DEF CountedOK, Floods
<1>2. g.time_lastsec = IF now - f.time_lastsec > 1 THEN now ELSE f.time_lastsec
  BY <1>1, CountedType
<1>3. g.time_lastsec <= now /\ now - g.time_lastsec <= 1
  BY <1>1, <1>2
<1> QED BY <1>3 DEF CountedOK

(* Initially nothing has been sent.                                        *)
LEMMA RateInvInit ==
  ASSUME FloodAssumption, FloodInit
  PROVE  RateInv
<1>1. /\ now = 0 /\ log = <<>> /\ flood_maxmsg_sec \in Nat /\ flood_maxmsg_reset \in Nat
  BY DEF FloodInit, FloodAssumption
<1>2. /\ flood \in Floods /\ flood.time_lastsec = 0 /\ flood.time_lastmin = 0
      /\ flood.msgs_sec = 0 /\ flood.floodMode = 0
  BY <1>1 DEF FloodInit, Floods
<1>3. \A t : Sent(log, t) = 0
  BY <1>1, NoneSent
<1>4. Past(log)
  <2>1. log \in Seq(Events) /\ Len(log) = 0
    BY <1>1
  <2> QED BY <1>1, <2>1 DEF Past
<1>5. RateOK(flood, log)
  BY <1>1, <1>2, <1>3 DEF RateOK, Window
<1> QED BY <1>1, <1>4, <1>5 DEF RateInv

(* A call counts, may begin a flood, and sends, stores or drops.           *)
LEMMA RateInvPush ==
  ASSUME FloodAssumption, RateInv, PushMessage
  PROVE  RateInv'
<1> DEFINE f == Counted(flood)
<1>1. /\ now \in Nat /\ now' = now /\ Past(log) /\ log \in Seq(Events)
      /\ RateOK(flood, log) /\ flood \in Floods /\ flood_maxmsg_sec \in Nat
  BY DEF RateInv, PushMessage, Past, RateOK, FloodAssumption
<1>2. /\ \A k \in Kinds : Event(k) \in Events /\ Event(k).kind = k /\ Event(k).time = now
      /\ {"sent", "detected"} \subseteq Kinds
  BY <1>1, EventType DEF Kinds
<1>3. Sent(log, now) \in Nat
  BY <1>1, <1>2, SentNext
<1>4. CountedOK(f, log)
  BY <1>1, <1>3, CountedRate
<1>5. Past(log') /\ RateOK(flood', log')
  <2>1. CASE f.floodMode = 0 /\ ~TooMany(f) /\ flood' = f /\ log' = Append(log, Event("sent"))
    <3> HIDE DEF f
    <3>1. Past(log')
      <4>1. Past(Append(log, Event("sent")))
        BY <1>1, <1>2, PastAppend
      <4> QED BY <2>1, <4>1
    <3>2. /\ Sent(log', now) = Sent(log, now) + 1
          /\ EndedAt(log, now) => EndedAt(log', now)
      <4>1. /\ Sent(Append(log, Event("sent")), now) = Sent(log, now) + 1
            /\ EndedAt(log, now) => EndedAt(Append(log, Event("sent")), now)
        BY <1>1, <1>2, SentNext, EndedNext
      <4> QED BY <2>1, <4>1
    <3>3. f.msgs_sec \in Nat /\ f.msgs_sec <= flood_maxmsg_sec
      <4>1. f \in Floods
        BY <1>4 DEF CountedOK
      <4>2. f.msgs_sec \in Nat
        BY <4>1 DEF Floods
      <4>3. ~(f.msgs_sec > flood_maxmsg_sec)
        BY <2>1 DEF TooMany
      <4> QED BY <1>1, <4>2, <4>3
    <3>4. Window(f) = f.msgs_sec
      <4>1. f.time_lastsec \in Nat /\ now - f.time_lastsec <= 1 /\ f.floodMode = 0
        BY <1>4, <2>1 DEF CountedOK, Floods
      <4> QED BY <1>1, <4>1 DEF Window
    <3>5. Sent(log', now) <= Window(f) \/ EndedAt(log', now)
      BY <1>4, <2>1, <3>2, <3>4 DEF CountedOK
    <3>6. RateOK(f, log')
      BY <1>4, <2>1, <3>3, <3>5 DEF RateOK, CountedOK
    <3> QED BY <2>1, <3>1, <3>6
  <2>2. ASSUME NEW g \in Floods, NEW l \in Seq(Events), Begun(g, l), InFloodIs(g, l)
        PROVE  Past(log') /\ RateOK(flood', log')
    <3>1. CASE f.floodMode # 0 /\ g = f /\ l = log
      BY <1>1, <1>4, <2>2, <3>1, InFloodRate
    <3>2. CASE /\ \E mode \in {1, 2} : g = Detected(f, mode)
               /\ l = Append(log, Event("detected"))
      <4> HIDE DEF f
      <4>1. PICK mode \in {1, 2} : g = Detected(f, mode)
        BY <3>2
      <4>2. f \in Floods
        BY <1>4 DEF CountedOK
      <4>3. g.floodMode = mode /\ g.time_lastsec = Counted(f).time_lastsec
        BY <1>1, <4>1, <4>2, DetectedType
      <4>4. Past(l) /\ l \in Seq(Events) /\ CountedOK(f, l)
        BY <1>1, <1>2, <1>4, <3>2, PastAppend, NotSentRate
      <4>5. Sent(l, now) \in Nat
        BY <1>2, <4>4, SentNext
      <4>6. CountedOK(g, l)
        BY <1>1, <4>3, <4>4, <4>5, CountedOn
      <4> QED BY <1>1, <2>2, <4>3, <4>4, <4>6, InFloodRate
    <3> QED BY <2>2, <3>1, <3>2 DEF Begun, f
  <2> QED BY <1>1, <2>1, <2>2, PushDoes
<1>6. (Past(log) /\ RateOK(flood, log))'
  BY <1>1, <1>5 DEF Past, RateOK, Window, EndedAt, Sent, SentAt
<1> QED BY <1>1, <1>6 DEF RateInv

(* A second ends: what was sent in it is in the past, and nothing has been *)
(* sent in the next.                                                       *)
LEMMA RateInvTick ==
  ASSUME FloodAssumption, RateInv, Tick
  PROVE  RateInv'
<1>1. /\ now \in Nat /\ now' = now + 1 /\ flood' = flood /\ log' = log
      /\ Past(log) /\ RateOK(flood, log) /\ flood \in Floods
      /\ flood_maxmsg_sec \in Nat
  BY DEF RateInv, Tick, RateOK, FloodAssumption
<1>2. /\ flood.msgs_sec \in Nat /\ flood.time_lastsec \in Nat
      /\ flood.time_lastsec <= now
      /\ flood.floodMode = 0 => flood.msgs_sec <= flood_maxmsg_sec
  BY <1>1 DEF RateOK, Floods
<1>3. Sent(log, now) <= flood_maxmsg_sec \/ EndedAt(log, now)
  <2>1. Window(flood) \in Nat /\ Window(flood) <= flood_maxmsg_sec
    BY <1>1, <1>2 DEF Window
  <2>2. Sent(log, now) \in Nat
    <3>1. log \in Seq(Events) /\ Event("sent") \in Events
      BY <1>1, EventType DEF Past, Kinds
    <3> QED BY <3>1, SentNext
  <2> QED BY <1>1, <2>1, <2>2 DEF RateOK
<1>4. Sent(log, now + 1) = 0
  <2>1. \A i \in 1 .. Len(log) : log[i].time # now + 1
    <3> SUFFICES ASSUME NEW i \in 1 .. Len(log), log[i].time = now + 1 PROVE FALSE
      OBVIOUS
    <3> QED BY <1>1 DEF Past
  <2> QED BY <2>1, NoneSent
<1>5. Past(log)'
  <2>1. \A i \in 1 .. Len(log) : log[i].time <= now + 1
    <3> TAKE i \in 1 .. Len(log)
    <3>1. log[i] \in Events /\ log[i].time <= now
      BY <1>1 DEF Past
    <3>2. log[i].time \in Nat
      BY <3>1 DEF Events
    <3> QED BY <1>1, <3>1, <3>2
  <2>2. ASSUME NEW t \in Nat, t < now + 1
        PROVE  Sent(log, t) <= flood_maxmsg_sec \/ EndedAt(log, t)
    <3>1. CASE t < now
      BY <1>1, <3>1 DEF Past
    <3>2. CASE t = now
      BY <1>3, <3>2
    <3> QED BY <1>1, <2>2, <3>1, <3>2
  <2>3. log \in Seq(Events)
    BY <1>1 DEF Past
  <2> QED BY <1>1, <2>1, <2>2, <2>3 DEF Past, EndedAt, Sent, SentAt
<1>6. RateOK(flood, log)'
  <2>1. (Window(flood) \in Nat)'
    BY <1>1, <1>2 DEF Window
  <2>2. (Sent(log, now) <= Window(flood))'
    BY <1>1, <1>4, <2>1
  <2> QED BY <1>1, <1>2, <2>2 DEF RateOK
<1> QED BY <1>1, <1>5, <1>6 DEF RateInv

(* The protection of pushMessage bounds what goes out in any second in     *)
(* which no flood ends, whenever floods began and ended before.            *)
THEOREM RateHolds == APISpec => []RateBounded
<1> USE FloodAssumption
<1>1. APIInit => RateInv
  BY RateInvInit DEF APIInit
<1>2. RateInv /\ [APINext]_apiVars => RateInv'
  <2> SUFFICES ASSUME RateInv, [APINext]_apiVars PROVE RateInv'
    OBVIOUS
  <2>1. CASE PushMessage
    BY <2>1, RateInvPush
  <2>2. CASE Tick
    BY <2>2, RateInvTick
  <2>3. CASE UNCHANGED floodVars
    BY <2>3 DEF floodVars, RateInv, Past, RateOK, Window, EndedAt, Sent, SentAt
  <2> QED BY <2>1, <2>2, <2>3 DEF APINext, HistoryCall, apiVars
<1>3. RateInv => RateBounded
  <2> SUFFICES ASSUME RateInv, NEW t \in 0 .. MaxNow
               PROVE  Sent(log, t) > flood_maxmsg_sec => EndedAt(log, t)
    BY DEF RateBounded, SentIn, Sent, SentAt, EndedAt
  <2>1. /\ now \in Nat /\ Past(log) /\ RateOK(flood, log) /\ flood \in Floods
        /\ flood_maxmsg_sec \in Nat /\ MaxNow \in Nat /\ flood.msgs_sec \in Nat
    BY DEF RateInv, RateOK, FloodAssumption, Floods
  <2>2. Sent(log, t) \in Nat
    <3>1. log \in Seq(Events) /\ Event("sent") \in Events
      BY <2>1, EventType DEF Past, Kinds
    <3> QED BY <3>1, SentNext
  <2>3. CASE t < now
    BY <2>1, <2>2, <2>3 DEF Past
  <2>4. CASE t = now
    <3>1. Window(flood) \in Nat /\ Window(flood) <= flood_maxmsg_sec
      BY <2>1 DEF RateOK, Window
    <3> QED BY <2>1, <2>2, <2>4, <3>1 DEF RateOK
  <2>5. CASE t > now
    <3>1. \A i \in 1 .. Len(log) : log[i].time # t
      <4> SUFFICES ASSUME NEW i \in 1 .. Len(log), log[i].time = t PROVE FALSE
        OBVIOUS
      <4> QED BY <2>1, <2>5 DEF Past
    <3>2. Sent(log, t) = 0
      BY <3>1, NoneSent
    <3> QED BY <2>1, <3>2
  <2> QED BY <2>1, <2>3, <2>4, <2>5
<1> QED BY <1>1, <1>2, <1>3, PTL DEF APISpec

-----------------------------------------------------------------------------
(* The events of some kinds from the i-th to the j-th of a log, as Number  *)
(* counts them in log.                                                     *)
NumberIn(l, kinds, i, j) == Cardinality({k \in i .. j : l[k].kind \in kinds})

(* What a log has up to its n-th event: a flood that began with event c    *)
(* and has not ended, or none.                                             *)
Open(l, n, c) ==
  /\ c \in 1 .. n /\ l[c].kind = "detected"
  /\ \A k \in c + 1 .. n : l[k].kind \notin {"detected", "resumed"}
NoneOpen(l, n) ==
  \/ \A k \in 1 .. n : l[k].kind # "detected"
  \/ \E c, r \in 1 .. n :
       /\ c < r /\ l[c].kind = "detected" /\ l[r].kind = "resumed"
       /\ \A k \in c + 1 .. n : l[k].kind # "detected"

(* What FloodAccounts says of event i, the flood being named.              *)
Accounted(l, i) ==
  \/ l[i].kind = "sent" /\ NoneOpen(l, i)
  \/ /\ l[i].kind \in {"detected", "stored", "dropped", "overflow"}
     /\ \E c \in 1 .. i : Open(l, i, c)
  \/ /\ l[i].kind = "resumed"
     /\ \E c \in 1 .. i - 1 :
          /\ Open(l, i - 1, c)
          /\ l[i].stored = NumberIn(l, {"stored"}, c, i)
          /\ l[i].dropped = NumberIn(l, {"dropped"}, c, i)
          /\ l[i].stored > 0 /\ l[i].dropped > 0 =>
               NumberIn(l, {"overflow"}, c, i) = 1

(* A log that grows: its events stay, and one more is counted or not.      *)
LEMMA LogNext ==
  ASSUME NEW l \in Seq(Events), NEW e \in Events
  PROVE  /\ Len(l) \in Nat /\ Append(l, e) \in Seq(Events)
         /\ Len(Append(l, e)) = Len(l) + 1 /\ Append(l, e)[Len(l) + 1] = e
         /\ \A i \in 1 .. Len(l) : Append(l, e)[i] = l[i]
<1> HIDE DEF Events
<1> QED BY AppendProperties

(* One more event: one more of its kind, those before as they were.        *)
LEMMA NumberNext ==
  ASSUME NEW l \in Seq(Events), NEW e \in Events, NEW kinds,
         NEW i \in Int, i > 0, i <= Len(l) + 1
  PROVE  /\ NumberIn(l, kinds, i, Len(l)) \in Nat
         /\ NumberIn(Append(l, e), kinds, i, Len(l) + 1)
              = NumberIn(l, kinds, i, Len(l)) + IF e.kind \in kinds THEN 1 ELSE 0
         /\ \A j \in 0 .. Len(l) :
              NumberIn(Append(l, e), kinds, i, j) = NumberIn(l, kinds, i, j)
<1> DEFINE n == Len(l)
           m == Append(l, e)
           T == {k \in 1 .. n + 1 : m[k].kind \in kinds}
<1>1. n \in Nat /\ m[n + 1] = e /\ \A k \in 1 .. n : m[k] = l[k]
  BY LogNext
<1> HIDE DEF m, n
<1>2. ASSUME NEW j \in 0 .. n
      PROVE  {k \in i .. j : l[k].kind \in kinds} = {k \in i .. j : k \in T}
  BY <1>1, <1>2
<1>3. ASSUME NEW j \in 0 .. n + 1
      PROVE  {k \in i .. j : m[k].kind \in kinds} = {k \in i .. j : k \in T}
  BY <1>1, <1>3
<1>4. n + 1 \in T <=> e.kind \in kinds
  BY <1>1
<1> HIDE DEF T
<1>5. /\ \A j \in 0 .. n : NumberIn(l, kinds, i, j) = Count(T, i, j)
      /\ \A j \in 0 .. n + 1 : NumberIn(m, kinds, i, j) = Count(T, i, j)
  BY <1>2, <1>3 DEF NumberIn, Count
<1>6. /\ Count(T, i, n) \in Nat
      /\ Count(T, i, n + 1) = Count(T, i, n) + IF n + 1 \in T THEN 1 ELSE 0
  <2>1. i <= n + 1
    BY DEF n
  <2> QED BY <1>1, <2>1, CountNext
<1>7. /\ NumberIn(l, kinds, i, n) \in Nat
      /\ NumberIn(m, kinds, i, n + 1)
           = NumberIn(l, kinds, i, n) + IF e.kind \in kinds THEN 1 ELSE 0
      /\ \A j \in 0 .. n : NumberIn(m, kinds, i, j) = NumberIn(l, kinds, i, j)
  BY <1>1, <1>4, <1>5, <1>6
<1> QED BY <1>7 DEF m, n

(* What is said of an event stays true when the log grows.                 *)
LEMMA AccountedStays ==
  ASSUME NEW l \in Seq(Events), NEW e \in Events, NEW i \in 1 .. Len(l), Accounted(l, i)
  PROVE  Accounted(Append(l, e), i)
<1> DEFINE m == Append(l, e)
<1>1. Len(l) \in Nat /\ \A k \in 1 .. Len(l) : m[k] = l[k]
  BY LogNext
<1>2. \A kinds : \A c \in 1 .. i : NumberIn(m, kinds, c, i) = NumberIn(l, kinds, c, i)
  <2> TAKE kinds
  <2> TAKE c \in 1 .. i
  <2>1. c \in Int /\ c > 0 /\ c <= Len(l) + 1 /\ i \in 0 .. Len(l)
    BY <1>1
  <2> QED BY <2>1, NumberNext
<1> HIDE DEF m
<1>3. NoneOpen(l, i) => NoneOpen(m, i)
  BY <1>1 DEF NoneOpen
<1>4. \A c, n \in 1 .. i : Open(l, n, c) => Open(m, n, c)
  BY <1>1 DEF Open
<1>5. CASE l[i].kind = "sent" /\ NoneOpen(l, i)
  BY <1>1, <1>3, <1>5 DEF Accounted, m
<1>6. CASE /\ l[i].kind \in {"detected", "stored", "dropped", "overflow"}
           /\ \E c \in 1 .. i : Open(l, i, c)
  <2>1. m[i].kind \in {"detected", "stored", "dropped", "overflow"}
    BY <1>1, <1>6
  <2>2. \E c \in 1 .. i : Open(m, i, c)
    BY <1>1, <1>4, <1>6
  <2> QED BY <2>1, <2>2 DEF Accounted, m
<1>7. ASSUME NEW c \in 1 .. i - 1, l[i].kind = "resumed", Open(l, i - 1, c),
             l[i].stored = NumberIn(l, {"stored"}, c, i),
             l[i].dropped = NumberIn(l, {"dropped"}, c, i),
             l[i].stored > 0 /\ l[i].dropped > 0 => NumberIn(l, {"overflow"}, c, i) = 1
      PROVE  Accounted(m, i)
  <2>1. m[i] = l[i] /\ c \in 1 .. i /\ i - 1 \in 1 .. i
    BY <1>1
  <2>2. Open(m, i - 1, c)
    BY <1>4, <1>7, <2>1
  <2>3. /\ NumberIn(m, {"stored"}, c, i) = NumberIn(l, {"stored"}, c, i)
        /\ NumberIn(m, {"dropped"}, c, i) = NumberIn(l, {"dropped"}, c, i)
        /\ NumberIn(m, {"overflow"}, c, i) = NumberIn(l, {"overflow"}, c, i)
    BY <1>2, <2>1
  <2> QED BY <1>7, <2>1, <2>2, <2>3 DEF Accounted
<1> QED BY <1>5, <1>6, <1>7 DEF Accounted, m

-----------------------------------------------------------------------------
(* The flood under way and its counters.                                   *)
InStep(f, l, c) ==
  /\ Open(l, Len(l), c)
  /\ NumberIn(l, {"stored"}, c, Len(l)) = f.file_msg
  /\ NumberIn(l, {"dropped"}, c, Len(l)) = f.file_msg_drop
  /\ f.floodMode = 1 =>
       f.file_msg_drop = 0 /\ NumberIn(l, {"overflow"}, c, Len(l)) = 0
  /\ f.floodMode = 2 /\ f.file_msg > 0 => NumberIn(l, {"overflow"}, c, Len(l)) = 1

LogOK(l, p) ==
  /\ l \in Seq(Events)
  /\ NumberIn(l, User, 1, Len(l)) = p
  /\ \A i \in 1 .. Len(l) : Accounted(l, i)

AccountsOK(f, l, p) ==
  /\ f \in Floods /\ LogOK(l, p) /\ Len(l) = f.messageCount
  /\ f.floodMode = 0 => NoneOpen(l, Len(l))
  /\ f.floodMode # 0 => \E c \in 1 .. Len(l) : InStep(f, l, c)

AccountsInv == now \in Nat /\ pushes \in Nat /\ AccountsOK(flood, log, pushes)

(* One more event that is accounted for.                                   *)
LEMMA LogOKNext ==
  ASSUME NEW l, NEW p \in Nat, LogOK(l, p), NEW e \in Events,
         Accounted(Append(l, e), Len(l) + 1)
  PROVE  LogOK(Append(l, e), p + IF e.kind \in User THEN 1 ELSE 0)
<1> DEFINE m == Append(l, e)
<1>1. l \in Seq(Events)
  BY DEF LogOK
<1>2. m \in Seq(Events) /\ Len(m) = Len(l) + 1 /\ Len(l) \in Nat
  BY <1>1, LogNext
<1>3. NumberIn(m, User, 1, Len(m)) = p + IF e.kind \in User THEN 1 ELSE 0
  <2>1. 1 \in Int /\ 1 > 0 /\ 1 <= Len(l) + 1
    BY <1>2
  <2>2. NumberIn(m, User, 1, Len(l) + 1)
          = NumberIn(l, User, 1, Len(l)) + IF e.kind \in User THEN 1 ELSE 0
    BY <1>1, <2>1, NumberNext
  <2> QED BY <1>2, <2>2 DEF LogOK
<1>4. \A i \in 1 .. Len(l) : Accounted(m, i)
  BY <1>1, AccountedStays DEF LogOK
<1>5. \A i \in 1 .. Len(m) : i \in 1 .. Len(l) \/ i = Len(l) + 1
  BY <1>2
<1> HIDE DEF m
<1>6. \A i \in 1 .. Len(m) : Accounted(m, i)
  BY <1>4, <1>5 DEF m
<1> QED BY <1>2, <1>3, <1>6 DEF LogOK, m

(* An event of a flood under way is part of it and counted there.          *)
LEMMA InFloodNext ==
  ASSUME NEW l, NEW p \in Nat, LogOK(l, p), NEW e \in Events,
         e.kind \in {"stored", "dropped", "overflow"},
         NEW f, NEW c \in 1 .. Len(l), InStep(f, l, c)
  PROVE  /\ LogOK(Append(l, e), p + IF e.kind \in User THEN 1 ELSE 0)
         /\ c \in 1 .. Len(l) + 1 /\ Len(Append(l, e)) = Len(l) + 1
         /\ Open(Append(l, e), Len(l) + 1, c)
         /\ \A kinds : /\ NumberIn(l, kinds, c, Len(l)) \in Nat
                       /\ NumberIn(Append(l, e), kinds, c, Len(l) + 1)
                            = NumberIn(l, kinds, c, Len(l)) + IF e.kind \in kinds THEN 1 ELSE 0
<1> DEFINE m == Append(l, e)
           n == Len(l)
<1>1. l \in Seq(Events)
  BY DEF LogOK
<1>2. /\ m \in Seq(Events) /\ Len(m) = n + 1 /\ n \in Nat /\ m[n + 1] = e
      /\ \A i \in 1 .. n : m[i] = l[i]
  BY <1>1, LogNext
<1>3. \A kinds : /\ NumberIn(l, kinds, c, n) \in Nat
                 /\ NumberIn(m, kinds, c, n + 1)
                      = NumberIn(l, kinds, c, n) + IF e.kind \in kinds THEN 1 ELSE 0
  <2> TAKE kinds
  <2>1. c \in Int /\ c > 0 /\ c <= Len(l) + 1
    BY <1>2
  <2> QED BY <1>1, <2>1, NumberNext
<1>4. Open(l, n, c)
  BY DEF InStep
<1> HIDE DEF m, n
<1>5. Open(m, n + 1, c) /\ c \in 1 .. n + 1
  <2>1. \A k \in c + 1 .. n + 1 : k \in c + 1 .. n \/ k = n + 1
    BY <1>2, <1>4 DEF Open
  <2>2. \A k \in c + 1 .. n : k \in 1 .. n
    BY <1>2, <1>4 DEF Open
  <2> QED BY <1>2, <1>4, <2>1, <2>2 DEF Open
<1>6. Accounted(m, n + 1)
  BY <1>2, <1>5 DEF Accounted
<1>7. LogOK(m, p + IF e.kind \in User THEN 1 ELSE 0)
  BY <1>6, LogOKNext DEF m, n
<1> QED BY <1>2, <1>3, <1>5, <1>7 DEF m, n

(* pushMessage when a flood is under way or has just been detected: the    *)
(* message is counted, and not logged yet.                                 *)
Midway(g, l, p) ==
  /\ g \in Floods /\ LogOK(l, p) /\ Len(l) + 1 = g.messageCount
  /\ g.floodMode # 0 /\ \E c \in 1 .. Len(l) : InStep(g, l, c)

(* A message of a flood is accounted for.                                  *)
LEMMA InFloodAccounts ==
  ASSUME FloodAssumption, now \in Nat, NEW p \in Nat, NEW g, NEW l,
         Midway(g, l, p), InFloodIs(g, l)
  PROVE  AccountsOK(flood', log', p + 1)
<1> DEFINE n == Len(l)
<1>1. /\ g \in Floods /\ LogOK(l, p) /\ l \in Seq(Events) /\ n \in Nat
      /\ g.messageCount = n + 1 /\ g.floodMode # 0 /\ g.floodMode \in 0 .. 2
      /\ g.file_msg \in Nat /\ g.file_msg_drop \in Nat
  BY DEF Midway, LogOK, Floods
<1>2. PICK c \in 1 .. n : InStep(g, l, c)
  BY DEF Midway
<1>3. /\ \A k \in Kinds : Event(k) \in Events /\ Event(k).kind = k
      /\ {"sent", "stored", "dropped", "overflow"} \subseteq Kinds
      /\ Resumed(g) \in Events /\ Resumed(g).kind = "resumed"
      /\ Resumed(g).stored = g.file_msg /\ Resumed(g).dropped = g.file_msg_drop
  BY <1>1, EventType DEF Kinds
<1>4. /\ "stored" \in User /\ "dropped" \in User /\ "sent" \in User
      /\ "overflow" \notin User /\ "resumed" \notin User
  BY DEF User
<1>5. CASE /\ flood' = FloodReset(Counted(g))
           /\ log' = Append(Append(l, Resumed(g)), Event("sent"))
  <2> DEFINE r == Resumed(g)
             e == Event("sent")
             m == Append(l, r)
             h == Append(m, e)
  <2>1. r \in Events /\ e \in Events
    BY <1>3
  <2>2. /\ m \in Seq(Events) /\ Len(m) = n + 1 /\ m[n + 1] = r
        /\ \A i \in 1 .. n : m[i] = l[i]
    BY <1>1, <2>1, LogNext
  <2>3. \A kinds : /\ NumberIn(l, kinds, c, n) \in Nat
                   /\ NumberIn(m, kinds, c, n + 1)
                        = NumberIn(l, kinds, c, n) + IF r.kind \in kinds THEN 1 ELSE 0
    <3> TAKE kinds
    <3>1. c \in Int /\ c > 0 /\ c <= Len(l) + 1
      BY <1>1
    <3> QED BY <1>1, <2>1, <3>1, NumberNext
  <2> HIDE DEF m
  <2>4. /\ NumberIn(m, {"stored"}, c, n + 1) = g.file_msg
        /\ NumberIn(m, {"dropped"}, c, n + 1) = g.file_msg_drop
        /\ NumberIn(m, {"overflow"}, c, n + 1) = NumberIn(l, {"overflow"}, c, n)
    <3>1. r.kind \notin {"stored"} /\ r.kind \notin {"dropped"} /\ r.kind \notin {"overflow"}
      BY <1>3
    <3>2. /\ NumberIn(l, {"stored"}, c, n) = g.file_msg
          /\ NumberIn(l, {"dropped"}, c, n) = g.file_msg_drop
      BY <1>2 DEF InStep
    <3> QED BY <2>3, <3>1, <3>2
  <2>5. Open(l, n, c)
    BY <1>2 DEF InStep
  <2>6. Open(m, n, c) /\ n \in 1 .. n
    BY <1>1, <2>2, <2>5 DEF Open
  <2>7. g.file_msg > 0 /\ g.file_msg_drop > 0 => NumberIn(l, {"overflow"}, c, n) = 1
    BY <1>1, <1>2 DEF InStep
  <2>8. Accounted(m, n + 1)
    <3>1. (n + 1) - 1 = n /\ c \in 1 .. (n + 1) - 1
      BY <1>1
    <3> QED BY <1>3, <2>2, <2>4, <2>6, <2>7, <3>1 DEF Accounted
  <2>9. LogOK(m, p)
    <3>1. LogOK(m, p + IF r.kind \in User THEN 1 ELSE 0)
      BY <1>1, <2>1, <2>8, LogOKNext DEF m
    <3> QED BY <1>1, <1>3, <1>4, <3>1
  <2>10. /\ h \in Seq(Events) /\ Len(h) = n + 2 /\ h[n + 2] = e
         /\ \A i \in 1 .. n + 1 : h[i] = m[i]
    <3>1. /\ h \in Seq(Events) /\ Len(h) = Len(m) + 1 /\ h[Len(m) + 1] = e
          /\ \A i \in 1 .. Len(m) : h[i] = m[i]
      BY <2>1, <2>2, LogNext
    <3> QED BY <1>1, <2>2, <3>1
  <2> HIDE DEF h, e
  <2>11. NoneOpen(h, n + 2)
    <3>1. c \in 1 .. n + 2 /\ n + 1 \in 1 .. n + 2 /\ c < n + 1
      BY <1>1
    <3>2. h[c].kind = "detected" /\ h[n + 1].kind = "resumed"
      BY <1>1, <1>3, <2>2, <2>6, <2>10 DEF Open
    <3>3. \A k \in c + 1 .. n + 2 : h[k].kind # "detected"
      <4> TAKE k \in c + 1 .. n + 2
      <4>1. CASE k \in c + 1 .. n
        BY <1>1, <2>6, <2>10, <4>1 DEF Open
      <4>2. CASE k = n + 1
        BY <3>2, <4>2
      <4>3. CASE k = n + 2
        BY <1>3, <2>10, <4>3 DEF e
      <4> QED BY <1>1, <4>1, <4>2, <4>3
    <3> QED BY <3>1, <3>2, <3>3 DEF NoneOpen
  <2>12. Accounted(h, n + 2)
    BY <1>3, <2>10, <2>11 DEF Accounted, e
  <2>13. LogOK(h, p + 1)
    <3>1. Len(m) + 1 = n + 2
      BY <1>1, <2>2
    <3>2. LogOK(h, p + IF e.kind \in User THEN 1 ELSE 0)
      BY <2>1, <2>9, <2>12, <3>1, LogOKNext DEF h
    <3> QED BY <1>3, <1>4, <3>2 DEF e
  <2>14. /\ flood' \in Floods /\ flood'.floodMode = 0
         /\ flood'.messageCount = n + 2
    <3>1. Counted(g) \in Floods /\ Counted(g).messageCount = n + 2
      BY <1>1, CountedType
    <3> QED BY <1>5, <3>1, ResetType
  <2> QED BY <1>5, <2>10, <2>11, <2>13, <2>14 DEF AccountsOK, h, m, e
<1>6. ASSUME NEW k \in {"stored", "dropped"}, NEW f \in Floods, NEW h, NEW q \in Nat,
             LogOK(h, q), NEW d \in 1 .. Len(h), InStep(f, h, d),
             NEW f2 \in Floods, f2.messageCount = Len(h) + 1, f2.floodMode = f.floodMode,
             f2.floodMode \in {1, 2}, k = "stored" => f2.floodMode = 1,
             k = "dropped" => f2.floodMode = 2,
             f2.file_msg = f.file_msg + IF k = "stored" THEN 1 ELSE 0,
             f2.file_msg_drop = f.file_msg_drop + IF k = "dropped" THEN 1 ELSE 0
      PROVE  AccountsOK(f2, Append(h, Event(k)), q + 1)
  <2> DEFINE e == Event(k)
             m == Append(h, e)
             z == Len(h)
  <2>1. e \in Events /\ e.kind = k /\ e.kind \in {"stored", "dropped", "overflow"}
        /\ e.kind \in User /\ k \notin {"overflow"}
    BY <1>3, <1>4
  <2>2. /\ f.file_msg \in Nat /\ f.file_msg_drop \in Nat
    BY DEF Floods
  <2> HIDE DEF e
  <2>3. /\ LogOK(m, q + IF e.kind \in User THEN 1 ELSE 0)
        /\ d \in 1 .. z + 1 /\ Len(m) = z + 1 /\ Open(m, z + 1, d)
        /\ \A kinds : /\ NumberIn(h, kinds, d, z) \in Nat
                      /\ NumberIn(m, kinds, d, z + 1)
                           = NumberIn(h, kinds, d, z) + IF e.kind \in kinds THEN 1 ELSE 0
    BY <1>6, <2>1, InFloodNext
  <2> HIDE DEF m, z
  <2>4. LogOK(m, q + 1)
    BY <2>1, <2>3
  <2>5. /\ NumberIn(m, {"stored"}, d, z + 1)
             = NumberIn(h, {"stored"}, d, z) + IF k = "stored" THEN 1 ELSE 0
        /\ NumberIn(m, {"dropped"}, d, z + 1)
             = NumberIn(h, {"dropped"}, d, z) + IF k = "dropped" THEN 1 ELSE 0
        /\ NumberIn(m, {"overflow"}, d, z + 1) = NumberIn(h, {"overflow"}, d, z)
    BY <2>1, <2>3
  <2>6. /\ NumberIn(h, {"stored"}, d, z) = f.file_msg
        /\ NumberIn(h, {"dropped"}, d, z) = f.file_msg_drop
        /\ f.floodMode = 1 => f.file_msg_drop = 0 /\ NumberIn(h, {"overflow"}, d, z) = 0
        /\ f.floodMode = 2 /\ f.file_msg > 0 => NumberIn(h, {"overflow"}, d, z) = 1
    BY <1>6 DEF InStep, z
  <2>7. InStep(f2, m, d)
    <3>1. CASE k = "stored"
      BY <1>6, <2>2, <2>3, <2>5, <2>6, <3>1, SMTT(30) DEF InStep
    <3>2. CASE k = "dropped"
      BY <1>6, <2>2, <2>3, <2>5, <2>6, <3>2, SMTT(30) DEF InStep
    <3> QED BY <3>1, <3>2
  <2>8. Len(m) = f2.messageCount /\ f2.floodMode # 0
    BY <1>6, <2>3 DEF z
  <2> QED BY <2>3, <2>4, <2>7, <2>8 DEF AccountsOK, m, e
<1>10. ASSUME NEW f \in Floods, NEW h, NEW q \in Nat,
              LogOK(h, q), NEW d \in 1 .. Len(h), InStep(f, h, d),
              NEW f2 \in Floods, f2.messageCount = Len(h) + 1, f2.floodMode = f.floodMode,
              f2.floodMode = 1, f2.file_msg = f.file_msg + 1,
              f2.file_msg_drop = f.file_msg_drop
      PROVE  AccountsOK(f2, Append(h, Event("stored")), q + 1)
  <2>1. /\ f.file_msg \in Nat /\ f.file_msg_drop \in Nat
    BY DEF Floods
  <2>2. /\ "stored" \in {"stored", "dropped"} /\ f2.floodMode \in {1, 2}
        /\ "stored" = "stored" => f2.floodMode = 1
        /\ "stored" = "dropped" => f2.floodMode = 2
        /\ f2.file_msg = f.file_msg + IF "stored" = "stored" THEN 1 ELSE 0
        /\ f2.file_msg_drop = f.file_msg_drop + IF "stored" = "dropped" THEN 1 ELSE 0
    BY <1>10, <2>1
  <2> QED BY <1>6, <1>10, <2>2
<1>11. ASSUME NEW f \in Floods, NEW h, NEW q \in Nat,
              LogOK(h, q), NEW d \in 1 .. Len(h), InStep(f, h, d),
              NEW f2 \in Floods, f2.messageCount = Len(h) + 1, f2.floodMode = f.floodMode,
              f2.floodMode = 2, f2.file_msg = f.file_msg,
              f2.file_msg_drop = f.file_msg_drop + 1
      PROVE  AccountsOK(f2, Append(h, Event("dropped")), q + 1)
  <2>1. /\ f.file_msg \in Nat /\ f.file_msg_drop \in Nat
    BY DEF Floods
  <2>2. /\ "dropped" \in {"stored", "dropped"} /\ f2.floodMode \in {1, 2}
        /\ "dropped" = "stored" => f2.floodMode = 1
        /\ "dropped" = "dropped" => f2.floodMode = 2
        /\ f2.file_msg = f.file_msg + IF "dropped" = "stored" THEN 1 ELSE 0
        /\ f2.file_msg_drop = f.file_msg_drop + IF "dropped" = "dropped" THEN 1 ELSE 0
    BY <1>11, <2>1
  <2> QED BY <1>6, <1>11, <2>2
<1>7. CASE /\ g.floodMode = 1 /\ flood' = [g EXCEPT !.file_msg = @ + 1]
           /\ log' = Append(l, Event("stored"))
  <2>1. /\ flood' \in Floods /\ flood'.file_msg = g.file_msg + 1
        /\ flood'.file_msg_drop = g.file_msg_drop /\ flood'.floodMode = g.floodMode
        /\ flood'.messageCount = g.messageCount
    BY <1>1, <1>7, FileUp
  <2>2. AccountsOK(flood', Append(l, Event("stored")), p + 1)
    BY <1>1, <1>2, <1>10, <1>7, <2>1
  <2> QED BY <1>7, <2>2
<1>8. CASE /\ g.floodMode = 2 /\ flood' = [g EXCEPT !.file_msg_drop = @ + 1]
           /\ log' = Append(l, Event("dropped"))
  <2>1. /\ flood' \in Floods /\ flood'.file_msg = g.file_msg
        /\ flood'.file_msg_drop = g.file_msg_drop + 1 /\ flood'.floodMode = g.floodMode
        /\ flood'.messageCount = g.messageCount
    <3>1. g \in Floods /\ flood' = [g EXCEPT !.file_msg_drop = @ + 1]
      BY <1>1, <1>8
    <3> QED BY <3>1, FileUp
  <2>2. AccountsOK(flood', Append(l, Event("dropped")), p + 1)
    BY <1>1, <1>2, <1>11, <1>8, <2>1
  <2> QED BY <1>8, <2>2
<1>9. CASE /\ g.floodMode = 1 /\ g.file_msg >= flood_maxmsg_file
           /\ flood' = [Counted(g) EXCEPT !.floodMode = 2, !.file_msg_drop = @ + 1]
           /\ log' = Append(Append(l, Event("overflow")), Event("dropped"))
  <2> DEFINE e == Event("overflow")
             m == Append(l, e)
             u == [g EXCEPT !.floodMode = 2]
  <2>1. e \in Events /\ e.kind = "overflow"
    BY <1>3
  <2> HIDE DEF e
  <2>2. /\ LogOK(m, p + IF e.kind \in User THEN 1 ELSE 0)
        /\ c \in 1 .. n + 1 /\ Len(m) = n + 1 /\ Open(m, n + 1, c)
        /\ \A kinds : /\ NumberIn(l, kinds, c, n) \in Nat
                      /\ NumberIn(m, kinds, c, n + 1)
                           = NumberIn(l, kinds, c, n) + IF e.kind \in kinds THEN 1 ELSE 0
    BY <1>1, <1>2, <2>1, InFloodNext
  <2> HIDE DEF m
  <2>3. LogOK(m, p)
    BY <1>1, <1>4, <2>1, <2>2
  <2>4. /\ NumberIn(m, {"stored"}, c, n + 1) = NumberIn(l, {"stored"}, c, n)
        /\ NumberIn(m, {"dropped"}, c, n + 1) = NumberIn(l, {"dropped"}, c, n)
        /\ NumberIn(m, {"overflow"}, c, n + 1) = NumberIn(l, {"overflow"}, c, n) + 1
    BY <2>1, <2>2
  <2>5. u \in Floods /\ u.floodMode = 2 /\ u.file_msg = g.file_msg
        /\ u.file_msg_drop = g.file_msg_drop
    <3>1. 2 \in 0 .. 2
      OBVIOUS
    <3> QED BY <1>1, <3>1 DEF Floods
  <2> HIDE DEF u
  <2>6. InStep(u, m, c)
    BY <1>2, <1>9, <2>2, <2>4, <2>5, SMTT(30) DEF InStep
  <2>7. /\ Counted(g) \in Floods /\ Counted(g).file_msg = g.file_msg
        /\ Counted(g).file_msg_drop = g.file_msg_drop
        /\ Counted(g).messageCount = n + 2
    BY <1>1, CountedType
  <2>8. /\ flood' \in Floods /\ flood'.file_msg = g.file_msg
        /\ flood'.file_msg_drop = g.file_msg_drop + 1 /\ flood'.floodMode = 2
        /\ flood'.messageCount = n + 2
    <3> DEFINE x == Counted(g)
    <3>1. x \in Floods /\ x.file_msg = g.file_msg /\ x.file_msg_drop = g.file_msg_drop
          /\ x.messageCount = n + 2
      BY <2>7
    <3>2. flood' = [x EXCEPT !.floodMode = 2, !.file_msg_drop = @ + 1]
      BY <1>9
    <3> HIDE DEF x
    <3>3. ASSUME NEW h, h = [x EXCEPT !.floodMode = 2, !.file_msg_drop = @ + 1]
          PROVE  /\ h \in Floods /\ h.file_msg = x.file_msg
                 /\ h.file_msg_drop = x.file_msg_drop + 1 /\ h.floodMode = 2
                 /\ h.messageCount = x.messageCount
      BY <3>1, <3>3, FileUp
    <3> QED BY <3>1, <3>2, <3>3
  <2>9. c \in 1 .. Len(m) /\ Len(m) + 1 = n + 2
    BY <1>1, <2>2
  <2>10. AccountsOK(flood', Append(m, Event("dropped")), p + 1)
    BY <1>11, <2>3, <2>5, <2>6, <2>8, <2>9
  <2> QED BY <1>9, <2>10 DEF m, e
<1> QED BY <1>5, <1>7, <1>8, <1>9 DEF InFloodIs

(* There is one, if one is found.                                          *)
LEMMA CountSome ==
  ASSUME NEW T, NEW i \in Int, NEW j \in Int, NEW k \in i .. j, k \in T
  PROVE  Count(T, i, j) > 0
<1> DEFINE A == {x \in i .. j : x \in T}
<1>1. IsFiniteSet(A) /\ Cardinality(A) \in Nat
  <2>1. IsFiniteSet(i .. j)
    BY FS_Interval
  <2>2. A \in SUBSET (i .. j)
    OBVIOUS
  <2> HIDE DEF A
  <2> QED BY <2>1, <2>2, FS_Subset, FS_CardinalityType
<1>2. k \in A
  OBVIOUS
<1> HIDE DEF A
<1>3. Cardinality(A) # 0
  BY <1>1, <1>2, FS_EmptySet
<1> QED BY <1>1, <1>3 DEF Count, A

(* FloodOf of a log.                                                       *)
FloodIn(l, i) ==
  LET starts == {k \in 1 .. i : l[k].kind = "detected"}
      first  == CHOOSE k \in starts : \A j \in starts : j <= k
  IN  IF starts = {} \/ NumberIn(l, {"resumed"}, first, i - 1) > 0 THEN 0 ELSE first

(* The flood that an event is part of is the last that began, if it had    *)
(* not ended.                                                              *)
LEMMA FloodLast ==
  ASSUME NEW l, NEW i \in Nat, NEW c \in 1 .. i, l[c].kind = "detected",
         \A k \in c + 1 .. i : l[k].kind # "detected"
  PROVE  FloodIn(l, i) = IF NumberIn(l, {"resumed"}, c, i - 1) > 0 THEN 0 ELSE c
<1> DEFINE starts == {k \in 1 .. i : l[k].kind = "detected"}
           first  == CHOOSE k \in starts : \A j \in starts : j <= k
<1>1. c \in starts /\ starts \subseteq Int
  OBVIOUS
<1>2. \A j \in starts : j <= c
  <2> SUFFICES ASSUME NEW j \in 1 .. i, l[j].kind = "detected", ~(j <= c) PROVE FALSE
    OBVIOUS
  <2> QED OBVIOUS
<1>3. FloodIn(l, i) = IF starts = {} \/ NumberIn(l, {"resumed"}, first, i - 1) > 0
                      THEN 0 ELSE first
  BY DEF FloodIn
<1> HIDE DEF starts
<1>4. first \in starts /\ \A j \in starts : j <= first
  BY <1>1, <1>2
<1> HIDE DEF first
<1>5. first = c
  BY <1>1, <1>2, <1>4
<1> QED BY <1>1, <1>3, <1>5

(* The flood of an event is the one that is open there.                    *)
LEMMA FloodOpen ==
  ASSUME NEW l, NEW i \in Nat, NEW n \in Nat, n = i \/ n = i - 1,
         NEW c \in 1 .. n, Open(l, n, c), l[i].kind # "detected" \/ n = i
  PROVE  FloodIn(l, i) = c
<1>1. /\ c \in 1 .. i /\ l[c].kind = "detected"
      /\ \A k \in c + 1 .. i : l[k].kind # "detected"
      /\ \A k \in c .. i - 1 : l[k].kind \notin {"resumed"}
  BY DEF Open
<1> DEFINE T == {k \in Int : l[k].kind \in {"resumed"}}
<1>2. NumberIn(l, {"resumed"}, c, i - 1) = Count(T, c, i - 1)
  <2>1. {k \in c .. i - 1 : l[k].kind \in {"resumed"}} = {k \in c .. i - 1 : k \in T}
    OBVIOUS
  <2> HIDE DEF T
  <2> QED BY <2>1 DEF NumberIn, Count
<1>3. \A k \in c .. i - 1 : k \notin T
  BY <1>1
<1> HIDE DEF T
<1>4. c \in Int /\ i - 1 \in Int
  BY <1>1
<1>5. Count(T, c, i - 1) = 0
  BY <1>3, <1>4, CountNone
<1>6. FloodIn(l, i) = IF NumberIn(l, {"resumed"}, c, i - 1) > 0 THEN 0 ELSE c
  BY <1>1, FloodLast
<1> QED BY <1>2, <1>5, <1>6

(* An event after the end of a flood is in none.                           *)
LEMMA FloodClosed ==
  ASSUME NEW l, NEW i \in Nat, NoneOpen(l, i), l[i].kind # "resumed"
  PROVE  FloodIn(l, i) = 0
<1>1. CASE \A k \in 1 .. i : l[k].kind # "detected"
  <2>1. {k \in 1 .. i : l[k].kind = "detected"} = {}
    BY <1>1
  <2> QED BY <2>1 DEF FloodIn
<1>2. ASSUME NEW c \in 1 .. i, NEW r \in 1 .. i, c < r, l[c].kind = "detected",
             l[r].kind = "resumed", \A k \in c + 1 .. i : l[k].kind # "detected"
      PROVE  FloodIn(l, i) = 0
  <2> DEFINE T == {k \in Int : l[k].kind \in {"resumed"}}
  <2>1. NumberIn(l, {"resumed"}, c, i - 1) = Count(T, c, i - 1)
    <3>1. {k \in c .. i - 1 : l[k].kind \in {"resumed"}} = {k \in c .. i - 1 : k \in T}
      OBVIOUS
    <3> HIDE DEF T
    <3> QED BY <3>1 DEF NumberIn, Count
  <2>2. r \in c .. i - 1 /\ r \in T /\ c \in Int /\ i - 1 \in Int
    BY <1>2
  <2> HIDE DEF T
  <2>3. Count(T, c, i - 1) > 0
    BY <2>2, CountSome
  <2>4. FloodIn(l, i) = IF NumberIn(l, {"resumed"}, c, i - 1) > 0 THEN 0 ELSE c
    BY <1>2, FloodLast
  <2> QED BY <2>1, <2>3, <2>4
<1> QED BY <1>1, <1>2 DEF NoneOpen

-----------------------------------------------------------------------------
(* The accounts start with nothing.                                        *)
LEMMA AccountsInit ==
  ASSUME FloodAssumption, FloodInit
  PROVE  AccountsInv
<1>1. /\ now = 0 /\ pushes = 0 /\ log = <<>> /\ log \in Seq(Events) /\ Len(log) = 0
      /\ flood_maxmsg_reset \in Nat
  BY DEF FloodInit, FloodAssumption
<1>2. flood \in Floods /\ flood.floodMode = 0 /\ flood.messageCount = 0
  BY <1>1 DEF FloodInit, Floods
<1>3. NumberIn(log, User, 1, 0) = 0
  <2>1. {k \in 1 .. 0 : log[k].kind \in User} = {}
    OBVIOUS
  <2> QED BY <2>1, FS_EmptySet DEF NumberIn
<1>4. NoneOpen(log, 0)
  BY DEF NoneOpen
<1> QED BY <1>1, <1>2, <1>3, <1>4 DEF AccountsInv, AccountsOK, LogOK

(* A call is counted and its message sent, stored or dropped, once.        *)
LEMMA AccountsPush ==
  ASSUME FloodAssumption, AccountsInv, PushMessage
  PROVE  AccountsInv'
<1> DEFINE f == Counted(flood)
           n == Len(log)
<1>1. /\ now \in Nat /\ now' = now /\ pushes \in Nat /\ pushes' = pushes + 1
      /\ flood \in Floods /\ LogOK(log, pushes) /\ log \in Seq(Events)
      /\ n = flood.messageCount /\ n \in Nat
  BY DEF AccountsInv, AccountsOK, LogOK, PushMessage
<1>2. /\ f \in Floods /\ f.floodMode = flood.floodMode /\ f.file_msg = flood.file_msg
      /\ f.file_msg_drop = flood.file_msg_drop /\ f.messageCount = n + 1
  BY <1>1, CountedType
<1>3. /\ \A k \in Kinds : Event(k) \in Events /\ Event(k).kind = k
      /\ {"sent", "detected"} \subseteq Kinds /\ "sent" \in User /\ "detected" \notin User
  BY <1>1, EventType DEF Kinds, User
<1> HIDE DEF f
<1>4. AccountsOK(flood', log', pushes + 1)
  <2>1. CASE f.floodMode = 0 /\ ~TooMany(f) /\ flood' = f /\ log' = Append(log, Event("sent"))
    <3> DEFINE e == Event("sent")
               m == Append(log, e)
    <3>1. e \in Events /\ e.kind = "sent"
      BY <1>3
    <3>2. /\ m \in Seq(Events) /\ Len(m) = n + 1 /\ m[n + 1] = e
          /\ \A i \in 1 .. n : m[i] = log[i]
      BY <1>1, <3>1, LogNext
    <3> HIDE DEF m, e, n
    <3>3. NoneOpen(log, n)
      BY <1>2, <2>1 DEF AccountsInv, AccountsOK, n
    <3>4. NoneOpen(m, n + 1)
      <4>1. \A k \in 1 .. n + 1 : k \in 1 .. n \/ k = n + 1
        BY <1>1
      <4>2. CASE \A k \in 1 .. n : log[k].kind # "detected"
        BY <3>1, <3>2, <4>1, <4>2 DEF NoneOpen
      <4>3. ASSUME NEW c \in 1 .. n, NEW r \in 1 .. n, c < r, log[c].kind = "detected",
                   log[r].kind = "resumed", \A k \in c + 1 .. n : log[k].kind # "detected"
            PROVE  NoneOpen(m, n + 1)
        <5>1. c \in 1 .. n + 1 /\ r \in 1 .. n + 1
          BY <1>1
        <5>2. m[c].kind = "detected" /\ m[r].kind = "resumed"
          BY <3>2, <4>3
        <5>3. \A k \in c + 1 .. n + 1 : m[k].kind # "detected"
          <6> TAKE k \in c + 1 .. n + 1
          <6>1. k \in 1 .. n + 1 /\ (k \in c + 1 .. n \/ k = n + 1)
            BY <1>1
          <6> QED BY <3>1, <3>2, <4>1, <4>3, <6>1
        <5> QED BY <4>3, <5>1, <5>2, <5>3 DEF NoneOpen
      <4> QED BY <3>3, <4>2, <4>3 DEF NoneOpen
    <3>5. Accounted(m, n + 1)
      BY <3>1, <3>2, <3>4 DEF Accounted
    <3>6. LogOK(m, pushes + 1)
      <4>1. LogOK(m, pushes + IF e.kind \in User THEN 1 ELSE 0)
        BY <1>1, <3>1, <3>5, LogOKNext DEF m, n
      <4> QED BY <1>3, <3>1, <4>1
    <3> QED BY <1>2, <2>1, <3>2, <3>4, <3>6 DEF AccountsOK, m, e
  <2>2. ASSUME NEW g \in Floods, NEW l \in Seq(Events), Begun(g, l), InFloodIs(g, l)
        PROVE  AccountsOK(flood', log', pushes + 1)
    <3>1. CASE f.floodMode # 0 /\ g = f /\ l = log
      <4>1. PICK c \in 1 .. n : InStep(flood, log, c)
        BY <1>2, <3>1 DEF AccountsInv, AccountsOK
      <4>2. InStep(f, log, c)
        BY <1>2, <4>1 DEF InStep
      <4>3. Midway(f, log, pushes)
        BY <1>1, <1>2, <3>1, <4>2 DEF Midway
      <4> QED BY <1>1, <2>2, <3>1, <4>3, InFloodAccounts
    <3>2. CASE /\ \E mode \in {1, 2} : g = Detected(f, mode)
               /\ l = Append(log, Event("detected"))
      <4>1. PICK mode \in {1, 2} : g = Detected(f, mode)
        BY <3>2
      <4>2. /\ g.floodMode = mode /\ g.file_msg = 0 /\ g.file_msg_drop = 0
            /\ g.messageCount = n + 2
        <5>1. g.messageCount = f.messageCount + 1 /\ g.floodMode = mode /\ g.file_msg = 0
              /\ g.file_msg_drop = 0
          BY <1>1, <1>2, <4>1, DetectedType
        <5> QED BY <1>1, <1>2, <5>1
      <4> DEFINE e == Event("detected")
      <4>3. e \in Events /\ e.kind = "detected"
        BY <1>3
      <4>4. l = Append(log, e)
        BY <3>2
      <4> HIDE DEF e
      <4>5. /\ l \in Seq(Events) /\ Len(l) = n + 1 /\ l[n + 1] = e
            /\ \A i \in 1 .. n : l[i] = log[i]
        BY <1>1, <4>3, <4>4, LogNext
      <4>6. Open(l, n + 1, n + 1)
        BY <1>1, <4>3, <4>5 DEF Open
      <4>7. Accounted(l, n + 1)
        BY <1>1, <4>3, <4>5, <4>6 DEF Accounted
      <4>8. LogOK(l, pushes)
        <5>1. LogOK(l, pushes + IF e.kind \in User THEN 1 ELSE 0)
          BY <1>1, <4>3, <4>4, <4>7, LogOKNext
        <5> QED BY <1>1, <1>3, <4>3, <5>1
      <4>9. /\ NumberIn(l, {"stored"}, n + 1, n + 1) = 0
            /\ NumberIn(l, {"dropped"}, n + 1, n + 1) = 0
            /\ NumberIn(l, {"overflow"}, n + 1, n + 1) = 0
        <5>1. \A k \in n + 1 .. n + 1 : l[k].kind = "detected"
          BY <1>1, <4>3, <4>5
        <5>2. /\ {k \in n + 1 .. n + 1 : l[k].kind \in {"stored"}} = {}
              /\ {k \in n + 1 .. n + 1 : l[k].kind \in {"dropped"}} = {}
              /\ {k \in n + 1 .. n + 1 : l[k].kind \in {"overflow"}} = {}
          BY <5>1
        <5> QED BY <5>2, FS_EmptySet DEF NumberIn
      <4>10. InStep(g, l, n + 1) /\ n + 1 \in 1 .. Len(l)
        BY <1>1, <4>2, <4>5, <4>6, <4>9 DEF InStep
      <4>11. Midway(g, l, pushes)
        BY <1>1, <2>2, <4>2, <4>5, <4>8, <4>10 DEF Midway
      <4> QED BY <1>1, <2>2, <4>11, InFloodAccounts
    <3> QED BY <2>2, <3>1, <3>2 DEF Begun, f
  <2> QED BY <1>1, <2>1, <2>2, PushDoes DEF f
<1> QED BY <1>1, <1>4 DEF AccountsInv

(* Every message is accounted for, in its flood or outside of any.         *)
THEOREM AccountsHold == APISpec => []FloodAccounts
<1> USE FloodAssumption
<1>1. APIInit => AccountsInv
  BY AccountsInit DEF APIInit
<1>2. AccountsInv /\ [APINext]_apiVars => AccountsInv'
  <2> SUFFICES ASSUME AccountsInv, [APINext]_apiVars PROVE AccountsInv'
    OBVIOUS
  <2>1. CASE PushMessage
    BY <2>1, AccountsPush
  <2>2. CASE Tick
    BY <2>2 DEF Tick, AccountsInv
  <2>3. CASE UNCHANGED floodVars
    BY <2>3 DEF floodVars, AccountsInv
  <2> QED BY <2>1, <2>2, <2>3 DEF APINext, HistoryCall, apiVars
<1>3. AccountsInv => FloodAccounts
  <2> SUFFICES ASSUME AccountsInv PROVE FloodAccounts
    OBVIOUS
  <2>1. /\ log \in Seq(Events) /\ NumberIn(log, User, 1, Len(log)) = pushes
        /\ \A i \in 1 .. Len(log) : Accounted(log, i)
        /\ Len(log) = flood.messageCount
    BY DEF AccountsInv, AccountsOK, LogOK
  <2>2. \A kinds, i, j : Number(kinds, i, j) = NumberIn(log, kinds, i, j)
    BY DEF Number, NumberIn
  <2>3. \A i : FloodOf(i) = FloodIn(log, i)
    BY <2>2 DEF FloodOf, FloodIn
  <2>4. ASSUME NEW i \in 1 .. Len(log)
        PROVE  LET e == log[i]
                   f == FloodOf(i)
               IN  /\ e.kind \in {"stored", "dropped", "overflow", "resumed"} => f # 0
                   /\ e.kind = "sent" => f = 0
                   /\ e.kind = "resumed" =>
                        /\ e.stored = Number({"stored"}, f, i)
                        /\ e.dropped = Number({"dropped"}, f, i)
                        /\ e.stored > 0 /\ e.dropped > 0 =>
                             Number({"overflow"}, f, i) = 1
    <3>1. Accounted(log, i) /\ i \in Nat /\ i > 0 /\ i - 1 \in Nat
      BY <2>1
    <3>2. CASE log[i].kind = "sent" /\ NoneOpen(log, i)
      <4>1. FloodIn(log, i) = 0
        BY <3>1, <3>2, FloodClosed
      <4> QED BY <2>3, <3>2, <4>1
    <3>3. CASE /\ log[i].kind \in {"detected", "stored", "dropped", "overflow"}
               /\ \E c \in 1 .. i : Open(log, i, c)
      <4>1. PICK c \in 1 .. i : Open(log, i, c)
        BY <3>3
      <4>2. FloodIn(log, i) = c
        BY <3>1, <4>1, FloodOpen
      <4>3. c # 0
        BY <4>1
      <4> QED BY <2>3, <3>3, <4>2, <4>3
    <3>4. ASSUME log[i].kind = "resumed", NEW c \in 1 .. i - 1, Open(log, i - 1, c),
                 log[i].stored = NumberIn(log, {"stored"}, c, i),
                 log[i].dropped = NumberIn(log, {"dropped"}, c, i),
                 log[i].stored > 0 /\ log[i].dropped > 0 => NumberIn(log, {"overflow"}, c, i) = 1
          PROVE  LET e == log[i]
                     f == FloodOf(i)
                 IN  /\ e.kind \in {"stored", "dropped", "overflow", "resumed"} => f # 0
                     /\ e.kind = "sent" => f = 0
                     /\ e.kind = "resumed" =>
                          /\ e.stored = Number({"stored"}, f, i)
                          /\ e.dropped = Number({"dropped"}, f, i)
                          /\ e.stored > 0 /\ e.dropped > 0 =>
                               Number({"overflow"}, f, i) = 1
      <4>1. FloodIn(log, i) = c
        BY <3>1, <3>4, FloodOpen
      <4>2. FloodOf(i) = c /\ c # 0
        BY <2>3, <4>1, <3>1
      <4> QED BY <2>2, <3>4, <4>2
    <3> QED BY <3>1, <3>2, <3>3, <3>4 DEF Accounted
  <2> QED BY <2>1, <2>2, <2>4 DEF FloodAccounts
<1> QED BY <1>1, <1>2, <1>3, PTL DEF APISpec
-----------------------------------------------------------------------------
(* What is logged with a token, and the token.                             *)
MuteKinds == {"message", "discarded", "report", "restored", "exceeded"}
Entries == [kind : MuteKinds, n : Int, total : Int]
Tokens == [count : Nat, t0 : Int, t1 : Int, ndiscarded : Int, ndiscardedtotal : Int]

(* The reports and the beginnings of verbose phases among the first i      *)
(* entries of a log, the last of each, and the entries of one kind from    *)
(* the i-th to the j-th.                                                   *)
IsReport(e) == e.kind = "report"
Begins(e) == e.kind \in {"exceeded", "restored"} \/ (e.kind = "report" /\ e.n = 0)
ReportIn(l, i) == LastIn({k \in 1 .. i : l[k].kind = "report"})
PhaseIn(l, i) ==
  LastIn({k \in 1 .. i : \/ l[k].kind \in {"exceeded", "restored"}
                        \/ (l[k].kind = "report" /\ l[k].n = 0)})
KindIn(l, kind, i, j) == Cardinality({k \in i .. j : l[k].kind = kind})

(* The last of a set to which a greater element is added.                  *)
LEMMA LastAdded ==
  ASSUME NEW S, S \subseteq Int, NEW x \in S, \A j \in S : j <= x
  PROVE  LastIn(S) = x
<1> DEFINE y == CHOOSE k \in S : \A j \in S : j <= k
<1>1. y \in S /\ \A j \in S : j <= y
  OBVIOUS
<1>2. LastIn(S) = y
  BY DEF LastIn
<1> HIDE DEF y
<1> QED BY <1>1, <1>2

(* One more entry: what it changes, and what it leaves alone.              *)
LEMMA EntryNext ==
  ASSUME NEW l \in Seq(Entries), NEW e \in Entries
  PROVE  /\ Len(l) \in Nat /\ Append(l, e) \in Seq(Entries)
         /\ Len(Append(l, e)) = Len(l) + 1 /\ Append(l, e)[Len(l) + 1] = e
         /\ \A i \in 1 .. Len(l) : Append(l, e)[i] = l[i]
         /\ ReportIn(Append(l, e), Len(l) + 1)
              = IF IsReport(e) THEN Len(l) + 1 ELSE ReportIn(l, Len(l))
         /\ PhaseIn(Append(l, e), Len(l) + 1)
              = IF Begins(e) THEN Len(l) + 1 ELSE PhaseIn(l, Len(l))
         /\ \A i \in 0 .. Len(l) : /\ ReportIn(Append(l, e), i) = ReportIn(l, i)
                                   /\ PhaseIn(Append(l, e), i) = PhaseIn(l, i)
<1> DEFINE n == Len(l)
           m == Append(l, e)
<1>1. /\ n \in Nat /\ m \in Seq(Entries) /\ Len(m) = n + 1 /\ m[n + 1] = e
      /\ \A i \in 1 .. n : m[i] = l[i]
  <2> HIDE DEF Entries
  <2> QED BY AppendProperties
<1> HIDE DEF m, n
<1> DEFINE RL(i) == {k \in 1 .. i : l[k].kind = "report"}
           RM(i) == {k \in 1 .. i : m[k].kind = "report"}
           PL(i) == {k \in 1 .. i : \/ l[k].kind \in {"exceeded", "restored"}
                                    \/ (l[k].kind = "report" /\ l[k].n = 0)}
           PM(i) == {k \in 1 .. i : \/ m[k].kind \in {"exceeded", "restored"}
                                    \/ (m[k].kind = "report" /\ m[k].n = 0)}
<1>2. /\ \A i : ReportIn(l, i) = LastIn(RL(i)) /\ PhaseIn(l, i) = LastIn(PL(i))
      /\ \A i : ReportIn(m, i) = LastIn(RM(i)) /\ PhaseIn(m, i) = LastIn(PM(i))
  BY DEF ReportIn, PhaseIn
<1>3. \A i \in 0 .. n : RM(i) = RL(i) /\ PM(i) = PL(i)
  BY <1>1
<1>4. /\ RM(n + 1) = IF IsReport(e) THEN RL(n) \cup {n + 1} ELSE RL(n)
      /\ PM(n + 1) = IF Begins(e) THEN PL(n) \cup {n + 1} ELSE PL(n)
  <2>1. \A k \in 1 .. n + 1 : k \in 1 .. n \/ k = n + 1
    BY <1>1
  <2>2. \A k \in 1 .. n : k \in 1 .. n + 1 /\ k # n + 1
    BY <1>1
  <2>3. n + 1 \in 1 .. n + 1
    BY <1>1
  <2>4. RM(n + 1) = IF IsReport(e) THEN RL(n) \cup {n + 1} ELSE RL(n)
    BY <1>1, <2>1, <2>2, <2>3 DEF IsReport
  <2>5. PM(n + 1) = IF Begins(e) THEN PL(n) \cup {n + 1} ELSE PL(n)
    BY <1>1, <2>1, <2>2, <2>3 DEF Begins
  <2> QED BY <2>4, <2>5
<1>5. /\ RL(n) \subseteq 1 .. n /\ PL(n) \subseteq 1 .. n
  OBVIOUS
<1> HIDE DEF RL, RM, PL, PM
<1>6. ASSUME NEW S, S \subseteq 1 .. n PROVE LastIn(S \cup {n + 1}) = n + 1
  <2> DEFINE U == S \cup {n + 1}
  <2>1. U \subseteq Int /\ n + 1 \in U /\ \A j \in U : j <= n + 1
    BY <1>1, <1>6
  <2> HIDE DEF U
  <2> QED BY <2>1, LastAdded DEF U
<1>7. /\ ReportIn(m, n + 1) = IF IsReport(e) THEN n + 1 ELSE ReportIn(l, n)
      /\ PhaseIn(m, n + 1) = IF Begins(e) THEN n + 1 ELSE PhaseIn(l, n)
  BY <1>2, <1>4, <1>5, <1>6
<1>8. \A i \in 0 .. n : ReportIn(m, i) = ReportIn(l, i) /\ PhaseIn(m, i) = PhaseIn(l, i)
  BY <1>2, <1>3
<1> QED BY <1>1, <1>7, <1>8 DEF m, n

(* One more entry: one more of its kind, those before as they were.        *)
LEMMA KindNext ==
  ASSUME NEW l \in Seq(Entries), NEW e \in Entries, NEW kind,
         NEW i \in Int, i > 0, i <= Len(l) + 1
  PROVE  /\ KindIn(l, kind, i, Len(l)) \in Nat
         /\ KindIn(Append(l, e), kind, i, Len(l) + 1)
              = KindIn(l, kind, i, Len(l)) + IF e.kind = kind THEN 1 ELSE 0
         /\ \A j \in 0 .. Len(l) :
              KindIn(Append(l, e), kind, i, j) = KindIn(l, kind, i, j)
<1> DEFINE n == Len(l)
           m == Append(l, e)
           T == {k \in 1 .. n + 1 : m[k].kind = kind}
<1>1. n \in Nat /\ m[n + 1] = e /\ \A k \in 1 .. n : m[k] = l[k]
  BY EntryNext
<1> HIDE DEF m, n
<1>2. ASSUME NEW j \in 0 .. n
      PROVE  {k \in i .. j : l[k].kind = kind} = {k \in i .. j : k \in T}
  BY <1>1, <1>2
<1>3. ASSUME NEW j \in 0 .. n + 1
      PROVE  {k \in i .. j : m[k].kind = kind} = {k \in i .. j : k \in T}
  BY <1>1, <1>3
<1>4. n + 1 \in T <=> e.kind = kind
  BY <1>1
<1> HIDE DEF T
<1>5. /\ \A j \in 0 .. n : KindIn(l, kind, i, j) = Count(T, i, j)
      /\ \A j \in 0 .. n + 1 : KindIn(m, kind, i, j) = Count(T, i, j)
  BY <1>2, <1>3 DEF KindIn, Count
<1>6. /\ Count(T, i, n) \in Nat
      /\ Count(T, i, n + 1) = Count(T, i, n) + IF n + 1 \in T THEN 1 ELSE 0
  <2>1. i <= n + 1
    BY DEF n
  <2> QED BY <1>1, <2>1, CountNext
<1>7. /\ KindIn(l, kind, i, n) \in Nat
      /\ KindIn(m, kind, i, n + 1) = KindIn(l, kind, i, n) + IF e.kind = kind THEN 1 ELSE 0
      /\ \A j \in 0 .. n : KindIn(m, kind, i, j) = KindIn(l, kind, i, j)
  BY <1>1, <1>4, <1>5, <1>6
<1> QED BY <1>7 DEF m, n

(* None of a kind at the end.                                              *)
LEMMA KindNone ==
  ASSUME NEW l, NEW kind, NEW i \in Int, NEW j \in Int, i > j
  PROVE  KindIn(l, kind, i, j) = 0
<1>1. {k \in i .. j : l[k].kind = kind} = {}
  OBVIOUS
<1> QED BY <1>1, FS_EmptySet DEF KindIn

-----------------------------------------------------------------------------
(* What MuteAccounts says of entry i.                                      *)
Reported(l, i) ==
  /\ ReportIn(l, i - 1) \in 0 .. i - 1 /\ ReportIn(l, i) \in 0 .. i /\ PhaseIn(l, i) \in 0 .. i
  /\ l[i].kind = "report" =>
       /\ l[i].n = KindIn(l, "discarded", ReportIn(l, i - 1) + 1, i)
       /\ l[i].n > 0 =>
            PhaseIn(l, i) > 0 /\ l[i].total = KindIn(l, "discarded", PhaseIn(l, i), i)
  /\ KindIn(l, "message", ReportIn(l, i) + 1, i) <= maxMsg

(* What is said of an entry stays true when the log grows.                 *)
LEMMA ReportedStays ==
  ASSUME NEW l \in Seq(Entries), NEW e \in Entries, NEW i \in 1 .. Len(l), Reported(l, i)
  PROVE  Reported(Append(l, e), i)
<1> DEFINE m == Append(l, e)
<1>1. /\ Len(l) \in Nat /\ m[i] = l[i]
      /\ \A j \in 0 .. Len(l) : ReportIn(m, j) = ReportIn(l, j) /\ PhaseIn(m, j) = PhaseIn(l, j)
  BY EntryNext
<1>2. i \in 0 .. Len(l) /\ i - 1 \in 0 .. Len(l)
  BY <1>1
<1>3. \A kind : \A c \in 1 .. i + 1 : KindIn(m, kind, c, i) = KindIn(l, kind, c, i)
  <2> TAKE kind
  <2> TAKE c \in 1 .. i + 1
  <2>1. c \in Int /\ c > 0 /\ c <= Len(l) + 1
    BY <1>1
  <2>2. \A j \in 0 .. Len(l) : KindIn(m, kind, c, j) = KindIn(l, kind, c, j)
    BY <2>1, KindNext, ZenonT(40)
  <2> HIDE DEF m
  <2> QED BY <1>2, <2>2
<1> HIDE DEF m
<1>4. /\ ReportIn(m, i) = ReportIn(l, i) /\ ReportIn(m, i - 1) = ReportIn(l, i - 1)
      /\ PhaseIn(m, i) = PhaseIn(l, i)
  BY <1>1, <1>2
<1> DEFINE a == ReportIn(l, i - 1)
           b == ReportIn(l, i)
           p == PhaseIn(l, i)
<1>5. /\ a \in 0 .. i - 1 /\ b \in 0 .. i /\ p \in 0 .. i
      /\ l[i].kind = "report" =>
           /\ l[i].n = KindIn(l, "discarded", a + 1, i)
           /\ l[i].n > 0 => p > 0 /\ l[i].total = KindIn(l, "discarded", p, i)
      /\ KindIn(l, "message", b + 1, i) <= maxMsg
  BY DEF Reported
<1> HIDE DEF a, b, p
<1>6. /\ a + 1 \in 1 .. i + 1 /\ b + 1 \in 1 .. i + 1
      /\ p > 0 => p \in 1 .. i + 1
  BY <1>5
<1>7. /\ KindIn(m, "discarded", a + 1, i) = KindIn(l, "discarded", a + 1, i)
      /\ KindIn(m, "message", b + 1, i) = KindIn(l, "message", b + 1, i)
      /\ p > 0 => KindIn(m, "discarded", p, i) = KindIn(l, "discarded", p, i)
  BY <1>3, <1>6
<1>8. /\ ReportIn(m, i - 1) = a /\ ReportIn(m, i) = b /\ PhaseIn(m, i) = p
  BY <1>4 DEF a, b, p
<1>9. Reported(m, i)
  BY <1>1, <1>5, <1>7, <1>8 DEF Reported
<1> QED BY <1>9 DEF m

-----------------------------------------------------------------------------
(* A log of which everything is reported, and what the last report and     *)
(* the last phase leave open: messages logged, and messages discarded.     *)
MuteLogOK(l) ==
  /\ l \in Seq(Entries)
  /\ \A i \in 1 .. Len(l) : Reported(l, i)
  /\ ReportIn(l, Len(l)) \in 0 .. Len(l) /\ PhaseIn(l, Len(l)) \in 0 .. Len(l)
Since(l, kind) == KindIn(l, kind, ReportIn(l, Len(l)) + 1, Len(l))
InPhase(l) == KindIn(l, "discarded", PhaseIn(l, Len(l)), Len(l))

(* An entry that is no report.                                             *)
LEMMA EntryAdded ==
  ASSUME MuteAssumption, NEW l, MuteLogOK(l), NEW e \in Entries, e.kind # "report",
         Since(l, "message") + (IF e.kind = "message" THEN 1 ELSE 0) <= maxMsg
  PROVE  /\ MuteLogOK(Append(l, e))
         /\ Since(l, "message") \in Nat /\ Since(l, "discarded") \in Nat
         /\ Since(Append(l, e), "message")
              = Since(l, "message") + IF e.kind = "message" THEN 1 ELSE 0
         /\ Since(Append(l, e), "discarded")
              = Since(l, "discarded") + IF e.kind = "discarded" THEN 1 ELSE 0
         /\ Begins(e) => PhaseIn(Append(l, e), Len(l) + 1) > 0 /\ InPhase(Append(l, e)) = 0
         /\ ~Begins(e) =>
              /\ PhaseIn(Append(l, e), Len(l) + 1) = PhaseIn(l, Len(l))
              /\ PhaseIn(l, Len(l)) > 0 =>
                   /\ InPhase(l) \in Nat
                   /\ InPhase(Append(l, e)) = InPhase(l) + IF e.kind = "discarded" THEN 1 ELSE 0
         /\ Len(Append(l, e)) = Len(l) + 1
<1> DEFINE m == Append(l, e)
           n == Len(l)
           R == ReportIn(l, n)
           P == PhaseIn(l, n)
           P2 == PhaseIn(m, n + 1)
<1>1. l \in Seq(Entries) /\ R \in 0 .. n /\ P \in 0 .. n
  BY DEF MuteLogOK
<1>2. /\ n \in Nat /\ m \in Seq(Entries) /\ Len(m) = n + 1 /\ m[n + 1] = e
      /\ \A i \in 1 .. n : m[i] = l[i]
      /\ ReportIn(m, n + 1) = R /\ ReportIn(m, n) = R
      /\ P2 = IF Begins(e) THEN n + 1 ELSE P
  <2>1. Len(l) \in Nat /\ Len(l) \in 0 .. Len(l) /\ ~IsReport(e)
    BY <1>1 DEF IsReport
  <2> QED BY <1>1, <2>1, EntryNext
<1>3. \A kind : /\ KindIn(l, kind, R + 1, n) \in Nat
                /\ KindIn(m, kind, R + 1, n + 1)
                     = KindIn(l, kind, R + 1, n) + IF e.kind = kind THEN 1 ELSE 0
  <2> TAKE kind
  <2>1. R + 1 \in Int /\ R + 1 > 0 /\ R + 1 <= Len(l) + 1
    BY <1>1, <1>2
  <2> QED BY <1>1, <2>1, KindNext
<1>4. P > 0 =>
        /\ KindIn(l, "discarded", P, n) \in Nat
        /\ KindIn(m, "discarded", P, n + 1)
             = KindIn(l, "discarded", P, n) + IF e.kind = "discarded" THEN 1 ELSE 0
  <2> HAVE P > 0
  <2>1. P \in Int /\ P <= Len(l) + 1
    BY <1>1, <1>2
  <2> QED BY <1>1, <2>1, KindNext
<1>5. Begins(e) => KindIn(m, "discarded", n + 1, n + 1) = 0
  <2> HAVE Begins(e)
  <2>1. n + 1 \in Int /\ n + 1 > 0 /\ n + 1 <= Len(l) + 1 /\ e.kind # "discarded"
    BY <1>2 DEF Begins
  <2>2. KindIn(m, "discarded", n + 1, Len(l) + 1) = KindIn(l, "discarded", n + 1, Len(l)) + 0
    BY <1>1, <2>1, KindNext
  <2>3. KindIn(l, "discarded", n + 1, n) = 0
    BY <1>2, KindNone
  <2> QED BY <2>2, <2>3
<1>6. Since(l, "message") = KindIn(l, "message", R + 1, n)
      /\ Since(l, "discarded") = KindIn(l, "discarded", R + 1, n)
  BY DEF Since
<1> HIDE DEF m, n, R, P, P2
<1>7. /\ Since(m, "message") = KindIn(m, "message", R + 1, n + 1)
      /\ Since(m, "discarded") = KindIn(m, "discarded", R + 1, n + 1)
      /\ InPhase(m) = KindIn(m, "discarded", P2, n + 1)
  BY <1>2 DEF Since, InPhase, P2
<1>8. InPhase(l) = KindIn(l, "discarded", P, n)
  BY DEF InPhase, P, n
<1>9. P2 \in 0 .. n + 1 /\ R \in 0 .. n + 1
  BY <1>1, <1>2
<1>10. Reported(m, n + 1)
  <2>1. (n + 1) - 1 = n /\ R \in 0 .. n
    BY <1>1, <1>2
  <2>2. KindIn(m, "message", R + 1, n + 1) <= maxMsg
    BY <1>3, <1>6
  <2>3. PhaseIn(m, n + 1) \in 0 .. n + 1
    BY <1>9 DEF P2
  <2> QED BY <1>2, <1>9, <2>1, <2>2, <2>3 DEF Reported
<1>11. MuteLogOK(m)
  <2>1. \A i \in 1 .. n : Reported(m, i)
    BY <1>1, ReportedStays DEF MuteLogOK, m, n
  <2>2. \A i \in 1 .. n + 1 : i \in 1 .. n \/ i = n + 1
    BY <1>2
  <2>3. \A i \in 1 .. Len(m) : Reported(m, i)
    BY <1>2, <1>10, <2>1, <2>2
  <2>4. PhaseIn(m, n + 1) \in 0 .. n + 1
    BY <1>9 DEF P2
  <2> QED BY <1>2, <1>9, <2>3, <2>4 DEF MuteLogOK
<1>12. Begins(e) => P2 > 0 /\ InPhase(m) = 0
  BY <1>2, <1>5, <1>7
<1>13. ~Begins(e) =>
         /\ P2 = P
         /\ P > 0 =>
              /\ InPhase(l) \in Nat
              /\ InPhase(m) = InPhase(l) + IF e.kind = "discarded" THEN 1 ELSE 0
  BY <1>2, <1>4, <1>7, <1>8
<1> QED BY <1>2, <1>3, <1>6, <1>7, <1>11, <1>12, <1>13 DEF m, n, P, P2

(* A report, of the messages discarded since the last one and in the phase.*)
LEMMA ReportAdded ==
  ASSUME MuteAssumption, NEW l, MuteLogOK(l), NEW e \in Entries, e.kind = "report",
         e.n = Since(l, "discarded"),
         e.n > 0 => PhaseIn(l, Len(l)) > 0 /\ e.total = InPhase(l)
  PROVE  /\ MuteLogOK(Append(l, e)) /\ Len(Append(l, e)) = Len(l) + 1
         /\ Since(Append(l, e), "message") = 0 /\ Since(Append(l, e), "discarded") = 0
         /\ e.n = 0 => PhaseIn(Append(l, e), Len(l) + 1) > 0 /\ InPhase(Append(l, e)) = 0
         /\ e.n # 0 => /\ PhaseIn(Append(l, e), Len(l) + 1) = PhaseIn(l, Len(l))
                       /\ InPhase(Append(l, e)) = InPhase(l)
<1> DEFINE m == Append(l, e)
           n == Len(l)
           R == ReportIn(l, n)
           P == PhaseIn(l, n)
           P2 == PhaseIn(m, n + 1)
<1>1. l \in Seq(Entries) /\ R \in 0 .. n /\ P \in 0 .. n
  BY DEF MuteLogOK
<1>2. /\ n \in Nat /\ m \in Seq(Entries) /\ Len(m) = n + 1 /\ m[n + 1] = e
      /\ \A i \in 1 .. n : m[i] = l[i]
      /\ ReportIn(m, n + 1) = n + 1 /\ ReportIn(m, n) = R
      /\ P2 = IF e.n = 0 THEN n + 1 ELSE P
  <2>1. /\ Len(l) \in Nat /\ Len(l) \in 0 .. Len(l) /\ IsReport(e)
        /\ Begins(e) <=> e.n = 0
    BY <1>1 DEF IsReport, Begins
  <2> QED BY <1>1, <2>1, EntryNext
<1>3. \A kind : \A i \in 1 .. n + 1 : /\ KindIn(l, kind, i, n) \in Nat
                                     /\ KindIn(m, kind, i, n + 1)
                                          = KindIn(l, kind, i, n) + IF e.kind = kind THEN 1 ELSE 0
  <2> TAKE kind
  <2> TAKE i \in 1 .. n + 1
  <2>1. i \in Int /\ i > 0 /\ i <= Len(l) + 1
    BY <1>2
  <2> QED BY <1>1, <2>1, KindNext
<1>4. Since(l, "discarded") = KindIn(l, "discarded", R + 1, n) /\ InPhase(l) = KindIn(l, "discarded", P, n)
  BY DEF Since, InPhase
<1>5. Since(l, "discarded") \in Nat
  <2>1. R + 1 \in 1 .. n + 1
    BY <1>1, <1>2
  <2> QED BY <1>3, <1>4, <2>1
<1> HIDE DEF m, n, R, P, P2
<1>6. /\ Since(m, "message") = KindIn(m, "message", (n + 1) + 1, n + 1)
      /\ Since(m, "discarded") = KindIn(m, "discarded", (n + 1) + 1, n + 1)
      /\ InPhase(m) = KindIn(m, "discarded", P2, n + 1)
  BY <1>2 DEF Since, InPhase, P2
<1>7. /\ KindIn(m, "message", (n + 1) + 1, n + 1) = 0
      /\ KindIn(m, "discarded", (n + 1) + 1, n + 1) = 0
      /\ KindIn(l, "discarded", n + 1, n) = 0
  BY <1>2, KindNone
<1>8. /\ n + 1 \in 1 .. n + 1 /\ R + 1 \in 1 .. n + 1
      /\ P > 0 => P \in 1 .. n + 1
  BY <1>1, <1>2
<1>9. /\ KindIn(m, "discarded", n + 1, n + 1) = 0
      /\ KindIn(m, "discarded", R + 1, n + 1) = e.n
      /\ P > 0 => KindIn(m, "discarded", P, n + 1) = InPhase(l)
  <2>1. e.kind # "discarded"
    OBVIOUS
  <2>2. \A i \in 1 .. n + 1 : KindIn(m, "discarded", i, n + 1) = KindIn(l, "discarded", i, n)
    BY <1>3, <2>1
  <2> QED BY <1>4, <1>7, <1>8, <2>2
<1>10. e.n > 0 => P > 0 /\ e.total = InPhase(l)
  BY DEF P, n
<1>11. e.n \in Nat
  BY <1>5
<1>12. Reported(m, n + 1)
  <2>1. (n + 1) - 1 = n /\ R \in 0 .. n /\ n + 1 \in 0 .. n + 1 /\ P2 \in 0 .. n + 1
    BY <1>1, <1>2
  <2>2. e.n > 0 => P2 > 0 /\ e.total = KindIn(m, "discarded", P2, n + 1)
    BY <1>2, <1>9, <1>10, <1>11
  <2>3. KindIn(m, "message", (n + 1) + 1, n + 1) <= maxMsg
    BY <1>7 DEF MuteAssumption
  <2>4. /\ ReportIn(m, (n + 1) - 1) = R /\ ReportIn(m, n + 1) = n + 1 /\ PhaseIn(m, n + 1) = P2
    BY <1>2, <2>1 DEF P2
  <2> HIDE DEF P2
  <2> QED BY <1>2, <1>9, <2>1, <2>2, <2>3, <2>4 DEF Reported
<1>13. MuteLogOK(m)
  <2>1. \A i \in 1 .. n : Reported(m, i)
    BY <1>1, ReportedStays DEF MuteLogOK, m, n
  <2>2. \A i \in 1 .. n + 1 : i \in 1 .. n \/ i = n + 1
    BY <1>2
  <2>3. \A i \in 1 .. Len(m) : Reported(m, i)
    BY <1>2, <1>12, <2>1, <2>2
  <2>4. PhaseIn(m, n + 1) \in 0 .. n + 1 /\ n + 1 \in 0 .. n + 1
    BY <1>1, <1>2 DEF P2
  <2> QED BY <1>2, <2>3, <2>4 DEF MuteLogOK
<1>14. /\ e.n = 0 => P2 > 0 /\ InPhase(m) = 0
       /\ e.n # 0 => P2 = P /\ InPhase(m) = InPhase(l)
  BY <1>2, <1>6, <1>9, <1>10, <1>11
<1> QED BY <1>2, <1>6, <1>7, <1>13, <1>14 DEF m, n, P, P2

(* The token keeps the account of the log: the messages discarded since    *)
(* the last report and in the phase, and a number that those logged do not *)
(* pass.                                                                   *)
TokenOK(t, l) ==
  /\ t \in Tokens /\ MuteLogOK(l)
  /\ Since(l, "message") <= t.count /\ Since(l, "message") <= maxMsg
  /\ t.count >= 1 => t.ndiscarded = Since(l, "discarded")
  /\ t.count = 0 => t.ndiscarded <= 0
  /\ t.count <= maxMsg => Since(l, "discarded") = 0
  /\ t.count >= maxMsg => t.ndiscardedtotal >= 0
  /\ t.ndiscardedtotal >= 0 =>
       PhaseIn(l, Len(l)) > 0 /\ t.ndiscardedtotal = InPhase(l)

MuteInv == steady \in Int /\ TokenOK(token, muteLog)

(* Initially nothing has been logged, and the token is unused.             *)
LEMMA MuteInvInit ==
  ASSUME MuteAssumption, MuteInit
  PROVE  MuteInv
<1>1. /\ steady = 0 /\ muteLog = <<>> /\ muteLog \in Seq(Entries) /\ Len(muteLog) = 0
      /\ maxMsg \in Nat \ {0}
  BY DEF MuteInit, MuteAssumption
<1>2. /\ token \in Tokens /\ token.count = 0 /\ token.ndiscarded = -1
      /\ token.ndiscardedtotal = -1
  BY DEF MuteInit, Tokens, Unset
<1>3. ReportIn(muteLog, 0) = 0 /\ PhaseIn(muteLog, 0) = 0
  <2>1. \A S : S = {} => LastIn(S) = 0
    BY DEF LastIn
  <2>2. /\ {k \in 1 .. 0 : muteLog[k].kind = "report"} = {}
        /\ {k \in 1 .. 0 : \/ muteLog[k].kind \in {"exceeded", "restored"}
                           \/ (muteLog[k].kind = "report" /\ muteLog[k].n = 0)} = {}
    OBVIOUS
  <2> QED BY <2>1, <2>2 DEF ReportIn, PhaseIn
<1>4. \A kind : KindIn(muteLog, kind, 1, 0) = 0
  BY KindNone
<1>5. \A kind : Since(muteLog, kind) = 0
  BY <1>1, <1>3, <1>4 DEF Since
<1>6. MuteLogOK(muteLog)
  BY <1>1, <1>3 DEF MuteLogOK
<1> QED BY <1>1, <1>2, <1>5, <1>6 DEF MuteInv, TokenOK

(* The token when the call has been counted.                               *)
LEMMA StartedType ==
  ASSUME MuteAssumption, steady \in Int, NEW l, NEW tok, TokenOK(tok, l)
  PROVE  LET t == IntervalStarted([tok EXCEPT !.count = @ + 1])
         IN  /\ t \in Tokens /\ t.count = tok.count + 1
             /\ t.ndiscarded = Since(l, "discarded")
             /\ t.ndiscardedtotal = tok.ndiscardedtotal
<1> DEFINE c == tok.count + 1
           t == IntervalStarted([tok EXCEPT !.count = @ + 1])
           u == [tok EXCEPT !.count = c]
<1>1. tok \in Tokens /\ tok.count \in Nat /\ c \in Nat /\ c >= 1 /\ 0 \in Int
  BY DEF TokenOK, Tokens
<1>2. t = IntervalStarted(u)
  OBVIOUS
<1> HIDE DEF c
<1>3. /\ u \in Tokens /\ u.count = c /\ u.ndiscarded = tok.ndiscarded
      /\ u.ndiscardedtotal = tok.ndiscardedtotal
  BY <1>1 DEF Tokens
<1> HIDE DEF u, t
<1>4. CASE c = 1
  <2>1. t = [u EXCEPT !.t0 = steady, !.ndiscarded = 0]
    BY <1>2, <1>3, <1>4 DEF IntervalStarted
  <2>2. tok.count = 0
    BY <1>1, <1>4 DEF c
  <2>3. Since(l, "discarded") = 0
    BY <2>2 DEF TokenOK, MuteAssumption
  <2>4. t \in Tokens /\ t.count = c /\ t.ndiscarded = 0 /\ t.ndiscardedtotal = u.ndiscardedtotal
    BY <1>1, <1>3, <2>1 DEF Tokens
  <2> QED BY <1>3, <2>3, <2>4 DEF t, c
<1>5. CASE c # 1
  <2>1. t = u
    BY <1>2, <1>3, <1>5 DEF IntervalStarted
  <2>2. tok.count >= 1
    BY <1>1, <1>5 DEF c
  <2>3. tok.ndiscarded = Since(l, "discarded")
    BY <2>2 DEF TokenOK
  <2> QED BY <1>3, <2>1, <2>3 DEF t, c
<1> QED BY <1>4, <1>5

(* The end of an interval.                                                 *)
LEMMA MuteEnds ==
  ASSUME MuteAssumption, steady \in Int, MuteLogOK(muteLog), NEW t \in Tokens,
         t.count >= 1, t.ndiscarded = Since(muteLog, "discarded"),
         t.ndiscarded > 0 => t.count > maxMsg /\ t.ndiscardedtotal >= 0,
         t.ndiscardedtotal >= 0 =>
           PhaseIn(muteLog, Len(muteLog)) > 0 /\ t.ndiscardedtotal = InPhase(muteLog),
         Ends(t)
  PROVE  TokenOK(token', muteLog')
<1> DEFINE l == muteLog
           r == Report(t)
           l1 == Append(l, r)
           rest == Entry("restored")
           l2 == IF IsQuiet(t) /\ t.ndiscarded # 0 THEN Append(l1, rest) ELSE l1
           e == Entry("message")
           l3 == Append(l2, e)
<1>1. /\ maxMsg \in Nat /\ maxMsg >= 1 /\ l \in Seq(Entries)
      /\ t.ndiscarded \in Int /\ t.ndiscardedtotal \in Int /\ t.count \in Nat
  BY DEF MuteAssumption, MuteLogOK, Tokens
<1>2. /\ r \in Entries /\ r.kind = "report" /\ r.n = t.ndiscarded /\ r.total = t.ndiscardedtotal
      /\ rest \in Entries /\ rest.kind = "restored" /\ e \in Entries /\ e.kind = "message"
  BY <1>1 DEF Report, Entry, Entries, MuteKinds
<1>3. muteLog' = l3
  <2>1. muteLog' = l \o <<r>>
           \o (IF IsQuiet(t) /\ t.ndiscarded # 0 THEN <<rest>> ELSE <<>>) \o <<e>>
    BY DEF Ends
  <2> DEFINE E == Entries
  <2>2. l \in Seq(E) /\ r \in E /\ rest \in E /\ e \in E
    BY <1>1, <1>2
  <2> HIDE DEF E, r, rest, e, l
  <2>3. l \o <<r>> = l1 /\ l1 \in Seq(E)
    BY <2>2, AppendIsConcat, AppendProperties
  <2> HIDE DEF l1
  <2>4. l1 \o <<rest>> = Append(l1, rest) /\ Append(l1, rest) \in Seq(E)
    BY <2>2, <2>3, AppendIsConcat, AppendProperties
  <2>5. l1 \o <<>> = l1
    BY <2>3, ConcatEmptySeq
  <2>6. l1 \o (IF IsQuiet(t) /\ t.ndiscarded # 0 THEN <<rest>> ELSE <<>>) = l2 /\ l2 \in Seq(E)
    BY <2>3, <2>4, <2>5
  <2> HIDE DEF l2
  <2>7. l2 \o <<e>> = l3
    BY <2>2, <2>6, AppendIsConcat
  <2> QED BY <2>1, <2>3, <2>6, <2>7
<1> HIDE DEF r, rest, e
<1>4. /\ MuteLogOK(l1) /\ Len(l1) = Len(l) + 1
      /\ Since(l1, "message") = 0 /\ Since(l1, "discarded") = 0
      /\ r.n = 0 => PhaseIn(l1, Len(l) + 1) > 0 /\ InPhase(l1) = 0
      /\ r.n # 0 => /\ PhaseIn(l1, Len(l) + 1) = PhaseIn(l, Len(l))
                   /\ InPhase(l1) = InPhase(l)
  <2>1. r.n = Since(l, "discarded")
    BY <1>2
  <2>2. r.n > 0 => PhaseIn(l, Len(l)) > 0 /\ r.total = InPhase(l)
    BY <1>2
  <2> QED BY <1>2, <2>1, <2>2, ReportAdded
<1> HIDE DEF l1
<1>5. Since(l, "discarded") \in Nat
  <2>1. ReportIn(l, Len(l)) + 1 \in Int /\ ReportIn(l, Len(l)) + 1 > 0
        /\ ReportIn(l, Len(l)) + 1 <= Len(l) + 1
    BY <1>1 DEF MuteLogOK
  <2> HIDE DEF l
  <2> QED BY <1>1, <1>2, <2>1, KindNext DEF Since
<1>6. t.ndiscarded \in Nat
  BY <1>5
<1>7. /\ MuteLogOK(l2) /\ Since(l2, "message") = 0 /\ Since(l2, "discarded") = 0
      /\ IsQuiet(t) => PhaseIn(l2, Len(l2)) > 0 /\ InPhase(l2) = 0
      /\ ~IsQuiet(t) => /\ PhaseIn(l2, Len(l2)) = PhaseIn(l, Len(l))
                       /\ InPhase(l2) = InPhase(l)
  <2>1. CASE IsQuiet(t) /\ t.ndiscarded # 0
    <3>1. l2 = Append(l1, rest)
      BY <2>1
    <3>2. Begins(rest) /\ rest.kind # "report" /\ rest.kind # "message" /\ rest.kind # "discarded"
      BY <1>2 DEF Begins
    <3>3. Since(l1, "message") + (IF rest.kind = "message" THEN 1 ELSE 0) <= maxMsg
      BY <1>1, <1>4, <3>2
    <3> DEFINE h == Append(l1, rest)
    <3>4. /\ MuteLogOK(h)
          /\ Since(h, "message") = Since(l1, "message") + IF rest.kind = "message" THEN 1 ELSE 0
          /\ Since(h, "discarded")
               = Since(l1, "discarded") + IF rest.kind = "discarded" THEN 1 ELSE 0
          /\ PhaseIn(h, Len(l1) + 1) > 0 /\ InPhase(h) = 0
          /\ Len(h) = Len(l1) + 1
      BY <1>2, <1>4, <3>2, <3>3, EntryAdded
    <3> HIDE DEF h
    <3>5. l2 = h
      BY <3>1 DEF h
    <3> HIDE DEF l2
    <3> QED BY <1>4, <2>1, <3>2, <3>4, <3>5
  <2>2. CASE ~(IsQuiet(t) /\ t.ndiscarded # 0)
    <3>1. l2 = l1
      BY <2>2
    <3>2. ~IsQuiet(t) => t.ndiscarded # 0
      BY DEF IsQuiet
    <3> HIDE DEF l2
    <3> QED BY <1>2, <1>4, <2>2, <3>1, <3>2
  <2> QED BY <2>1, <2>2
<1> HIDE DEF l2
<1>8. /\ MuteLogOK(l3) /\ Since(l3, "message") = 1 /\ Since(l3, "discarded") = 0
      /\ IsQuiet(t) => PhaseIn(l3, Len(l3)) > 0 /\ InPhase(l3) = 0
      /\ ~IsQuiet(t) /\ PhaseIn(l, Len(l)) > 0 =>
           PhaseIn(l3, Len(l3)) = PhaseIn(l, Len(l)) /\ InPhase(l3) = InPhase(l)
  <2>1. ~Begins(e) /\ e.kind # "report" /\ e.kind # "discarded"
    BY <1>2 DEF Begins
  <2>2. Since(l2, "message") + (IF e.kind = "message" THEN 1 ELSE 0) <= maxMsg
    BY <1>1, <1>2, <1>7
  <2>3. /\ MuteLogOK(l3)
        /\ Since(l3, "message") = Since(l2, "message") + IF e.kind = "message" THEN 1 ELSE 0
        /\ Since(l3, "discarded") = Since(l2, "discarded") + IF e.kind = "discarded" THEN 1 ELSE 0
        /\ PhaseIn(l3, Len(l2) + 1) = PhaseIn(l2, Len(l2))
        /\ PhaseIn(l2, Len(l2)) > 0 =>
             /\ InPhase(l2) \in Nat
             /\ InPhase(l3) = InPhase(l2) + IF e.kind = "discarded" THEN 1 ELSE 0
        /\ Len(l3) = Len(l2) + 1
    BY <1>2, <1>7, <2>1, <2>2, EntryAdded
  <2> HIDE DEF l3
  <2>4. PhaseIn(l2, Len(l2)) > 0 => InPhase(l3) = InPhase(l2)
    BY <2>1, <2>3
  <2>5. Since(l3, "message") = 1 /\ Since(l3, "discarded") = 0
    BY <1>2, <1>7, <2>1, <2>3
  <2> QED BY <1>7, <2>3, <2>4, <2>5
<1> DEFINE t2 == token'
<1>9. /\ t2 \in Tokens /\ t2.ndiscarded = 0
      /\ IsQuiet(t) => t2.count = 1 /\ t2.ndiscardedtotal = 0
      /\ ~IsQuiet(t) => t2.count = t.count /\ t2.ndiscardedtotal = t.ndiscardedtotal
  <2> DEFINE c == IF IsQuiet(t) THEN 1 ELSE t.count
             d == IF IsQuiet(t) THEN 0 ELSE t.ndiscardedtotal
  <2>1. c \in Nat /\ d \in Int /\ 0 \in Int
    BY <1>1
  <2>2. t2 = [t EXCEPT !.count = c, !.ndiscardedtotal = d, !.t0 = steady, !.t1 = steady,
                       !.ndiscarded = 0]
    BY DEF Ends, NewInterval, Tokens
  <2> HIDE DEF c, d, t2
  <2>3. t2 \in Tokens /\ t2.ndiscarded = 0 /\ t2.count = c /\ t2.ndiscardedtotal = d
    BY <2>1, <2>2 DEF Tokens
  <2> QED BY <2>3 DEF c, d
<1> HIDE DEF t2, l3, l
<1>10. TokenOK(t2, l3)
  <2>1. CASE IsQuiet(t)
    BY <1>1, <1>8, <1>9, <2>1 DEF TokenOK
  <2>2. CASE ~IsQuiet(t)
    <3>1. t.ndiscarded > 0
      BY <1>6, <2>2 DEF IsQuiet
    <3>2. /\ t.count > maxMsg /\ t.ndiscardedtotal >= 0
          /\ PhaseIn(l, Len(l)) > 0 /\ t.ndiscardedtotal = InPhase(l)
      BY <3>1 DEF l
    <3> QED BY <1>1, <1>8, <1>9, <2>2, <3>2 DEF TokenOK
  <2> QED BY <2>1, <2>2
<1> QED BY <1>3, <1>10 DEF t2

(* A message or a discarded one, logged at the end.                        *)
LEMMA MuteGoesOn ==
  ASSUME MuteAssumption, NEW l, MuteLogOK(l), NEW t \in Tokens, NEW e \in Entries,
         t.count >= 1, t.ndiscarded = Since(l, "discarded"),
         Since(l, "message") < t.count, Since(l, "message") <= maxMsg,
         t.count - 1 <= maxMsg => Since(l, "discarded") = 0,
         t.count > maxMsg => t.ndiscardedtotal >= 0,
         t.ndiscardedtotal >= 0 =>
           PhaseIn(l, Len(l)) > 0 /\ t.ndiscardedtotal = InPhase(l),
         NEW t2 \in Tokens, t2.count = t.count,
         \/ /\ e.kind = "message" /\ t.count < maxMsg
            /\ t2.ndiscarded = t.ndiscarded /\ t2.ndiscardedtotal = t.ndiscardedtotal
         \/ /\ e.kind = "discarded" /\ t.count > maxMsg
            /\ t2.ndiscarded = t.ndiscarded + 1
            /\ t2.ndiscardedtotal = t.ndiscardedtotal + 1
  PROVE  TokenOK(t2, Append(l, e))
<1> DEFINE m == Append(l, e)
           d == IF e.kind = "discarded" THEN 1 ELSE 0
<1>1. /\ maxMsg \in Nat /\ maxMsg >= 1 /\ t.count \in Nat
      /\ t.ndiscarded \in Int /\ t.ndiscardedtotal \in Int
      /\ e.kind # "report" /\ ~Begins(e)
      /\ d \in {0, 1}
  BY DEF MuteAssumption, Tokens, Begins
<1>2. Since(l, "message") \in Nat
  <2> DEFINE R == ReportIn(l, Len(l))
  <2>1. l \in Seq(Entries) /\ R + 1 \in Int /\ R + 1 > 0 /\ R + 1 <= Len(l) + 1
    BY DEF MuteLogOK
  <2>2. Since(l, "message") = KindIn(l, "message", R + 1, Len(l))
    BY DEF Since
  <2> HIDE DEF R
  <2> QED BY <2>1, <2>2, KindNext
<1>3. Since(l, "message") + (IF e.kind = "message" THEN 1 ELSE 0) <= maxMsg
  BY <1>1, <1>2
<1>4. /\ MuteLogOK(m) /\ Len(m) = Len(l) + 1
      /\ Since(l, "discarded") \in Nat
      /\ Since(m, "message") = Since(l, "message") + IF e.kind = "message" THEN 1 ELSE 0
      /\ Since(m, "discarded") = Since(l, "discarded") + d
      /\ PhaseIn(m, Len(l) + 1) = PhaseIn(l, Len(l))
      /\ PhaseIn(l, Len(l)) > 0 => InPhase(l) \in Nat /\ InPhase(m) = InPhase(l) + d
  BY <1>1, <1>3, EntryAdded
<1> HIDE DEF m
<1>5. CASE /\ e.kind = "message" /\ t.count < maxMsg
           /\ t2.ndiscarded = t.ndiscarded /\ t2.ndiscardedtotal = t.ndiscardedtotal
  <2>1. d = 0 /\ Since(m, "message") = Since(l, "message") + 1 /\ Since(m, "discarded") = Since(l, "discarded")
    BY <1>4, <1>5
  <2>2. PhaseIn(l, Len(l)) > 0 => InPhase(m) = InPhase(l)
    BY <1>4, <2>1
  <2> QED BY <1>1, <1>2, <1>4, <1>5, <2>1, <2>2 DEF TokenOK, m
<1>6. CASE /\ e.kind = "discarded" /\ t.count > maxMsg
           /\ t2.ndiscarded = t.ndiscarded + 1
           /\ t2.ndiscardedtotal = t.ndiscardedtotal + 1
  <2>1. /\ d = 1 /\ Since(m, "message") = Since(l, "message")
        /\ Since(m, "discarded") = Since(l, "discarded") + 1
    BY <1>2, <1>4, <1>6
  <2>2. PhaseIn(l, Len(l)) > 0 /\ InPhase(m) = InPhase(l) + 1 /\ t.ndiscardedtotal = InPhase(l)
    BY <1>4, <1>6, <2>1
  <2> QED BY <1>1, <1>2, <1>4, <1>6, <2>1, <2>2 DEF TokenOK, m
<1> QED BY <1>5, <1>6

(* The last message before those that follow are discarded, and the        *)
(* announcement.                                                           *)
LEMMA MuteExceeds ==
  ASSUME MuteAssumption, NEW l, MuteLogOK(l), NEW e \in Entries, e.kind = "message",
         NEW x \in Entries, x.kind = "exceeded",
         Since(l, "message") < maxMsg, Since(l, "discarded") = 0,
         NEW t2 \in Tokens, t2.count = maxMsg, t2.ndiscarded = 0, t2.ndiscardedtotal = 0
  PROVE  TokenOK(t2, Append(Append(l, e), x))
<1> DEFINE m == Append(l, e)
           h == Append(m, x)
<1>1. /\ maxMsg \in Nat /\ maxMsg >= 1
      /\ e.kind # "report" /\ e.kind # "discarded" /\ ~Begins(e)
      /\ x.kind # "report" /\ x.kind # "discarded" /\ x.kind # "message" /\ Begins(x)
  BY DEF MuteAssumption, Begins
<1>2. Since(l, "message") \in Nat
  <2> DEFINE R == ReportIn(l, Len(l))
  <2>1. l \in Seq(Entries) /\ R + 1 \in Int /\ R + 1 > 0 /\ R + 1 <= Len(l) + 1
    BY DEF MuteLogOK
  <2>2. Since(l, "message") = KindIn(l, "message", R + 1, Len(l))
    BY DEF Since
  <2> HIDE DEF R
  <2> QED BY <2>1, <2>2, KindNext
<1>3. Since(l, "message") + (IF e.kind = "message" THEN 1 ELSE 0) <= maxMsg
  BY <1>1, <1>2
<1>4. /\ MuteLogOK(m) /\ Len(m) = Len(l) + 1
      /\ Since(m, "message") = Since(l, "message") + IF e.kind = "message" THEN 1 ELSE 0
      /\ Since(m, "discarded") = Since(l, "discarded") + IF e.kind = "discarded" THEN 1 ELSE 0
  BY <1>1, <1>3, EntryAdded
<1> HIDE DEF m
<1>5. Since(m, "message") + (IF x.kind = "message" THEN 1 ELSE 0) <= maxMsg
  BY <1>1, <1>2, <1>4
<1>6. /\ MuteLogOK(h) /\ Len(h) = Len(m) + 1
      /\ Since(h, "message") = Since(m, "message") + IF x.kind = "message" THEN 1 ELSE 0
      /\ Since(h, "discarded") = Since(m, "discarded") + IF x.kind = "discarded" THEN 1 ELSE 0
      /\ PhaseIn(h, Len(m) + 1) > 0 /\ InPhase(h) = 0
  BY <1>1, <1>4, <1>5, EntryAdded
<1> HIDE DEF h
<1> QED BY <1>1, <1>2, <1>4, <1>6 DEF TokenOK, h, m

(* A call with the token.                                                  *)
LEMMA MuteInvLog ==
  ASSUME MuteAssumption, MuteInv, LogMuted
  PROVE  MuteInv'
<1> DEFINE t == IntervalStarted([token EXCEPT !.count = @ + 1])
           l == muteLog
           e == Entry("message")
           x == Entry("exceeded")
           d == Entry("discarded")
<1>1. /\ steady \in Int /\ steady' = steady /\ TokenOK(token, l)
      /\ maxMsg \in Nat /\ maxMsg >= 1
  BY DEF MuteInv, LogMuted, MuteAssumption
<1>2. /\ t \in Tokens /\ t.count = token.count + 1 /\ t.ndiscarded = Since(l, "discarded")
      /\ t.ndiscardedtotal = token.ndiscardedtotal
  BY <1>1, StartedType
<1>3. /\ e \in Entries /\ e.kind = "message" /\ x \in Entries /\ x.kind = "exceeded"
      /\ d \in Entries /\ d.kind = "discarded"
  BY DEF Entry, Entries, MuteKinds
<1>4. \/ EndOfInterval(t) /\ Ends(t)
      \/ ~EndOfInterval(t) /\ t.count <= maxMsg /\ LogsMessage(t)
      \/ /\ ~EndOfInterval(t) /\ t.count > maxMsg
         /\ token' = [t EXCEPT !.ndiscarded = @ + 1, !.ndiscardedtotal = @ + 1,
                               !.t1 = steady]
         /\ muteLog' = Append(muteLog, d)
  BY DEF LogMuted
<1> HIDE DEF t, e, x, d
<1>5. /\ token.count \in Nat /\ t.count \in Nat /\ t.count >= 1 /\ MuteLogOK(l)
      /\ t.ndiscarded \in Int /\ t.ndiscardedtotal \in Int
      /\ Since(l, "message") <= token.count /\ Since(l, "message") <= maxMsg
      /\ token.count <= maxMsg => Since(l, "discarded") = 0
      /\ token.count >= maxMsg => t.ndiscardedtotal >= 0
      /\ t.ndiscardedtotal >= 0 =>
           PhaseIn(l, Len(l)) > 0 /\ t.ndiscardedtotal = InPhase(l)
  BY <1>1, <1>2 DEF TokenOK, Tokens
<1>6. l \in Seq(Entries) /\ Since(l, "message") \in Nat
  <2> DEFINE R == ReportIn(l, Len(l))
  <2>1. l \in Seq(Entries) /\ R + 1 \in Int /\ R + 1 > 0 /\ R + 1 <= Len(l) + 1
    BY <1>5 DEF MuteLogOK
  <2>2. Since(l, "message") = KindIn(l, "message", R + 1, Len(l))
    BY DEF Since
  <2> HIDE DEF R, l
  <2> QED BY <1>3, <2>1, <2>2, KindNext
<1>7. TokenOK(token', muteLog')
  <2>1. CASE Ends(t)
    <3>1. t.ndiscarded > 0 => t.count > maxMsg /\ t.ndiscardedtotal >= 0
      BY <1>1, <1>2, <1>5
    <3> QED BY <1>1, <1>2, <1>5, <2>1, <3>1, MuteEnds
  <2>2. CASE t.count = maxMsg /\ LogsMessage(t)
    <3> DEFINE t2 == token'
    <3>1. t2 = [t EXCEPT !.t0 = steady, !.t1 = steady, !.ndiscarded = 0, !.ndiscardedtotal = 0]
      BY <2>2 DEF LogsMessage
    <3> HIDE DEF t2
    <3>2. t2 \in Tokens /\ t2.count = t.count /\ t2.ndiscarded = 0 /\ t2.ndiscardedtotal = 0
      <4>1. 0 \in Int
        OBVIOUS
      <4> QED BY <1>1, <1>2, <3>1, <4>1 DEF Tokens
    <3>3. muteLog' = Append(Append(l, e), x)
      <4>1. muteLog' = l \o <<e, x>>
        BY <2>2 DEF LogsMessage, e, x
      <4> DEFINE E == Entries
      <4>2. l \in Seq(E) /\ e \in E /\ x \in E
        BY <1>3, <1>6
      <4> HIDE DEF E, l
      <4>3. /\ <<>> \in Seq(E)
            /\ l \o (<<>> \o <<e, x>>) = Append(Append(l \o <<>>, e), x)
        BY <4>2, AppendsTwo
      <4>4. l \o <<>> = l /\ <<>> \o <<e, x>> = <<e, x>>
        BY <4>2, ConcatEmptySeq
      <4> QED BY <4>1, <4>3, <4>4
    <3>4. Since(l, "message") < maxMsg /\ Since(l, "discarded") = 0
      BY <1>1, <1>2, <1>5, <1>6, <2>2
    <3> HIDE DEF l
    <3>5. TokenOK(t2, Append(Append(l, e), x))
      BY <1>3, <1>5, <2>2, <3>2, <3>4, MuteExceeds
    <3> QED BY <3>3, <3>5 DEF t2
  <2>3. ASSUME NEW y \in Entries, NEW t2 \in Tokens, t2.count = t.count,
               \/ /\ y.kind = "message" /\ t.count < maxMsg
                  /\ t2.ndiscarded = t.ndiscarded /\ t2.ndiscardedtotal = t.ndiscardedtotal
               \/ /\ y.kind = "discarded" /\ t.count > maxMsg
                  /\ t2.ndiscarded = t.ndiscarded + 1
                  /\ t2.ndiscardedtotal = t.ndiscardedtotal + 1
        PROVE  TokenOK(t2, Append(l, y))
    <3>1. /\ Since(l, "message") < t.count
          /\ t.count - 1 <= maxMsg => Since(l, "discarded") = 0
          /\ t.count > maxMsg => t.ndiscardedtotal >= 0
      BY <1>1, <1>2, <1>5, <1>6
    <3> HIDE DEF l
    <3> QED BY <1>2, <1>5, <2>3, <3>1, MuteGoesOn
  <2>4. CASE t.count < maxMsg /\ LogsMessage(t)
    <3> DEFINE t2 == token'
    <3>1. t2 = [t EXCEPT !.t1 = steady] /\ muteLog' = Append(l, e)
      BY <1>1, <1>5, <2>4 DEF LogsMessage, e
    <3> HIDE DEF t2
    <3>2. /\ t2 \in Tokens /\ t2.count = t.count /\ t2.ndiscarded = t.ndiscarded
          /\ t2.ndiscardedtotal = t.ndiscardedtotal
      BY <1>1, <1>2, <3>1 DEF Tokens
    <3> QED BY <1>3, <2>3, <2>4, <3>1, <3>2 DEF t2
  <2>5. CASE /\ t.count > maxMsg
             /\ token' = [t EXCEPT !.ndiscarded = @ + 1, !.ndiscardedtotal = @ + 1,
                                   !.t1 = steady]
             /\ muteLog' = Append(muteLog, d)
    <3> DEFINE t2 == token'
               a == t.ndiscarded + 1
               b == t.ndiscardedtotal + 1
    <3>1. t2 = [t EXCEPT !.ndiscarded = a, !.ndiscardedtotal = b, !.t1 = steady]
      BY <2>5
    <3>2. a \in Int /\ b \in Int
      BY <1>5
    <3> HIDE DEF t2, a, b
    <3>3. /\ t2 \in Tokens /\ t2.count = t.count /\ t2.ndiscarded = a
          /\ t2.ndiscardedtotal = b
      BY <1>1, <1>2, <3>1, <3>2 DEF Tokens
    <3>4. TokenOK(t2, Append(l, d))
      BY <1>3, <2>3, <2>5, <3>3 DEF a, b
    <3> QED BY <2>5, <3>4 DEF t2
  <2> QED BY <1>1, <1>4, <1>5, <2>1, <2>2, <2>4, <2>5
<1> QED BY <1>1, <1>7 DEF MuteInv

(* Every message that is not logged is in one report, and no more are      *)
(* logged between two reports than the token allows.                       *)
THEOREM MuteHolds == MuteSpec => []MuteAccounts
<1> USE MuteAssumption
<1>1. MuteInit => MuteInv
  BY MuteInvInit
<1>2. MuteInv /\ [MuteNext]_muteVars => MuteInv'
  <2> SUFFICES ASSUME MuteInv, [MuteNext]_muteVars PROVE MuteInv'
    OBVIOUS
  <2>1. CASE LogMuted
    BY <2>1, MuteInvLog
  <2>2. CASE SteadyTick
    BY <2>2 DEF SteadyTick, MuteInv
  <2>3. CASE UNCHANGED muteVars
    BY <2>3 DEF muteVars, MuteInv
  <2> QED BY <2>1, <2>2, <2>3 DEF MuteNext
<1>3. MuteInv => MuteAccounts
  <2> SUFFICES ASSUME MuteInv PROVE MuteAccounts
    OBVIOUS
  <2>1. /\ \A i, j : Discarded(i, j) = KindIn(muteLog, "discarded", i, j)
        /\ \A i : LastReport(i) = ReportIn(muteLog, i)
        /\ \A i : Phase(i) = PhaseIn(muteLog, i)
    BY DEF Discarded, KindIn, LastReport, ReportIn, Phase, PhaseIn
  <2>2. \A i \in 1 .. Len(muteLog) : Reported(muteLog, i)
    BY DEF MuteInv, TokenOK, MuteLogOK
  <2>3. token.ndiscarded > 0 => token.ndiscarded = Since(muteLog, "discarded")
    <3>1. token.count \in Nat
      BY DEF MuteInv, TokenOK, Tokens
    <3> QED BY <3>1 DEF MuteInv, TokenOK, Tokens
  <2>4. Since(muteLog, "discarded")
          = KindIn(muteLog, "discarded", ReportIn(muteLog, Len(muteLog)) + 1, Len(muteLog))
    BY DEF Since
  <2>5. \A i, j : Cardinality({k \in i .. j : muteLog[k].kind = "message"})
                    = KindIn(muteLog, "message", i, j)
    BY DEF KindIn
  <2> QED BY <2>1, <2>2, <2>3, <2>4, <2>5 DEF MuteAccounts, Reported
<1> QED BY <1>1, <1>2, <1>3, PTL DEF MuteSpec

-----------------------------------------------------------------------------
(* What is printed and logged.                                             *)
Outgoing(p, l) == 1 .. p \union {-i : i \in 1 .. l}

(* y may come after x: not what came, nor what was printed before.         *)
Later(x, y) == (x > 0 /\ y > 0 => x < y) /\ (x = y => x = LineEnd)
InTurn(s) == \A i, j \in 1 .. Len(s) : i < j => Later(s[i], s[j])
Then(s, t) == \A i \in 1 .. Len(s), j \in 1 .. Len(t) : Later(s[i], t[j])

(* Two texts, one behind the other.                                        *)
LEMMA TwoTexts ==
  ASSUME NEW s \in Seq(Int), NEW t \in Seq(Int)
  PROVE  /\ InTurn(s \o t) <=> InTurn(s) /\ InTurn(t) /\ Then(s, t)
         /\ \A u \in Seq(Int) : Then(s \o t, u) <=> Then(s, u) /\ Then(t, u)
         /\ \A u \in Seq(Int) : Then(u, s \o t) <=> Then(u, s) /\ Then(u, t)
         /\ Letters(s \o t) = Letters(s) \union Letters(t)
<1> DEFINE c == s \o t
           m == Len(s)
           n == Len(t)
<1>1. /\ m \in Nat /\ n \in Nat /\ c \in Seq(Int) /\ Len(c) = m + n
      /\ \A i \in 1 .. m + n : c[i] = IF i <= m THEN s[i] ELSE t[i - m]
  BY ConcatProperties
<1>2. DOMAIN s = 1 .. m /\ DOMAIN t = 1 .. n /\ DOMAIN c = 1 .. Len(c)
  BY <1>1
<1> HIDE DEF c, m, n
<1>3. \A i \in 1 .. m : i \in 1 .. Len(c) /\ c[i] = s[i]
  BY <1>1
<1>4. \A j \in 1 .. n : j + m \in 1 .. Len(c) /\ c[j + m] = t[j]
  <2> SUFFICES ASSUME NEW j \in 1 .. n PROVE j + m \in 1 .. Len(c) /\ c[j + m] = t[j]
    OBVIOUS
  <2>1. j + m \in 1 .. m + n /\ ~(j + m <= m) /\ (j + m) - m = j
    BY <1>1
  <2> QED BY <1>1, <2>1
<1>5. \A k \in 1 .. Len(c) : \/ k \in 1 .. m /\ c[k] = s[k]
                             \/ k - m \in 1 .. n /\ c[k] = t[k - m] /\ ~(k <= m)
  BY <1>1
<1>6. InTurn(c) => InTurn(s) /\ InTurn(t) /\ Then(s, t)
  <2> SUFFICES ASSUME InTurn(c) PROVE InTurn(s) /\ InTurn(t) /\ Then(s, t)
    OBVIOUS
  <2>1. ASSUME NEW i \in 1 .. m, NEW j \in 1 .. m, i < j PROVE Later(s[i], s[j])
    BY <1>3, <2>1 DEF InTurn
  <2>2. ASSUME NEW i \in 1 .. n, NEW j \in 1 .. n, i < j PROVE Later(t[i], t[j])
    <3>1. i + m < j + m
      BY <1>1, <2>2
    <3> QED BY <1>4, <3>1 DEF InTurn
  <2>3. ASSUME NEW i \in 1 .. m, NEW j \in 1 .. n PROVE Later(s[i], t[j])
    <3>1. i < j + m
      BY <1>1
    <3> QED BY <1>3, <1>4, <3>1 DEF InTurn
  <2> QED BY <2>1, <2>2, <2>3 DEF InTurn, Then, m, n
<1>7. ASSUME InTurn(s), InTurn(t), Then(s, t) PROVE InTurn(c)
  <2> SUFFICES ASSUME NEW i \in 1 .. Len(c), NEW j \in 1 .. Len(c), i < j
               PROVE  Later(c[i], c[j])
    BY DEF InTurn
  <2>1. CASE i <= m /\ j <= m
    <3>1. i \in 1 .. m /\ j \in 1 .. m
      BY <1>1, <2>1
    <3> QED BY <1>3, <1>7, <3>1 DEF InTurn, m
  <2>2. CASE i <= m /\ ~(j <= m)
    <3>1. i \in 1 .. m /\ j - m \in 1 .. n /\ c[j] = t[j - m]
      BY <1>1, <1>5, <2>2
    <3> QED BY <1>3, <1>7, <3>1 DEF Then, m, n
  <2>3. CASE ~(i <= m)
    <3>1. i - m \in 1 .. n /\ j - m \in 1 .. n /\ i - m < j - m
      BY <1>1, <2>3
    <3>2. c[i] = t[i - m] /\ c[j] = t[j - m]
      BY <1>1, <1>5, <2>3
    <3> QED BY <1>7, <3>1, <3>2 DEF InTurn, n
  <2> QED BY <2>1, <2>2, <2>3
<1>8. ASSUME NEW u \in Seq(Int)
      PROVE  /\ Then(c, u) <=> Then(s, u) /\ Then(t, u)
             /\ Then(u, c) <=> Then(u, s) /\ Then(u, t)
  <2>1. Then(c, u) => Then(s, u) /\ Then(t, u)
    BY <1>3, <1>4 DEF Then, m, n
  <2>2. Then(s, u) /\ Then(t, u) => Then(c, u)
    BY <1>5 DEF Then, m, n
  <2>3. Then(u, c) => Then(u, s) /\ Then(u, t)
    BY <1>3, <1>4 DEF Then, m, n
  <2>4. Then(u, s) /\ Then(u, t) => Then(u, c)
    BY <1>5 DEF Then, m, n
  <2> QED BY <2>1, <2>2, <2>3, <2>4
<1>9. Letters(c) = Letters(s) \union Letters(t)
  <2>1. {c[k] : k \in 1 .. Len(c)} = {s[i] : i \in 1 .. m} \union {t[j] : j \in 1 .. n}
    <3>1. \A k \in 1 .. Len(c) : c[k] \in {s[i] : i \in 1 .. m} \union {t[j] : j \in 1 .. n}
      BY <1>5
    <3>2. \A i \in 1 .. m : s[i] \in {c[k] : k \in 1 .. Len(c)}
      BY <1>3
    <3>3. \A j \in 1 .. n : t[j] \in {c[k] : k \in 1 .. Len(c)}
      BY <1>4
    <3> QED BY <3>1, <3>2, <3>3
  <2> QED BY <1>2, <2>1 DEF Letters
<1> QED BY <1>6, <1>7, <1>8, <1>9 DEF c

(* A text cut in two.                                                      *)
LEMMA TextCut ==
  ASSUME NEW s \in Seq(Int), NEW n \in 0 .. Len(s)
  PROVE  /\ SubSeq(s, 1, n) \in Seq(Int) /\ SubSeq(s, n + 1, Len(s)) \in Seq(Int)
         /\ SubSeq(s, 1, n) \o SubSeq(s, n + 1, Len(s)) = s
<1>1. Len(s) \in Nat /\ n \in Nat /\ n <= Len(s)
  OBVIOUS
<1>2. \A i \in 1 .. Len(s) : s[i] \in Int
  BY ElementOfSeq
<1>3. SubSeq(s, 1, n) \in Seq(Int)
  <2>1. \A i \in 1 .. n : s[i] \in Int
    BY <1>1, <1>2
  <2> QED BY <1>1, <2>1, SubSeqProperties
<1>4. SubSeq(s, n + 1, Len(s)) \in Seq(Int)
  <2>1. \A i \in n + 1 .. Len(s) : s[i] \in Int
    BY <1>1, <1>2
  <2> QED BY <1>1, <2>1, SubSeqProperties
<1>5. SubSeq(s, 1, n) \o SubSeq(s, n + 1, Len(s)) = SubSeq(s, 1, Len(s))
  <2>1. 1 \in 1 .. Len(s) + 1 /\ n \in 1 - 1 .. Len(s) /\ Len(s) \in n .. Len(s)
    BY <1>1
  <2> QED BY <2>1, ConcatAdjacentSubSeq
<1> QED BY <1>3, <1>4, <1>5, SubSeqFull

(* No text: anything may follow and precede it.                            *)
LEMMA EmptyText ==
  /\ <<>> \in Seq(Int) /\ Letters(<<>>) = {} /\ InTurn(<<>>)
  /\ \A s : Then(s, <<>>) /\ Then(<<>>, s)
<1>1. 1 .. Len(<<>>) = {} /\ DOMAIN <<>> = {} /\ <<>> \in Seq(Int)
  OBVIOUS
<1> QED BY <1>1 DEF Letters, InTurn, Then

(* A text with a new letter, and what it may follow and precede.           *)
LEMMA NewText ==
  ASSUME NEW x \in Int, x # LineEnd, NEW t \in {<<x>>, <<x, LineEnd>>}
  PROVE  /\ t \in Seq(Int) /\ InTurn(t) /\ Letters(t) = {x}
         /\ \A s \in Seq(Int) :
              (\A y \in Letters(s) : Later(y, x)) => Then(s, t)
         /\ \A s \in Seq(Int) :
              (\A y \in Letters(s) : Later(x, y)) => Then(t, s)
<1>0. LineEnd \in Int /\ LineEnd = 0
  BY DEF LineEnd
<1>a. <<x>> \in Seq(Int) /\ Len(<<x>>) = 1 /\ <<x>>[1] = x
  OBVIOUS
<1>b. /\ <<x, LineEnd>> \in Seq(Int) /\ Len(<<x, LineEnd>>) = 2
      /\ <<x, LineEnd>>[1] = x /\ <<x, LineEnd>>[2] = LineEnd
  BY <1>0
<1>c. t = <<x>> \/ t = <<x, LineEnd>>
  OBVIOUS
<1>1. /\ t \in Seq(Int) /\ t[1] = x
      /\ Len(t) = 1 \/ (Len(t) = 2 /\ t[2] = LineEnd)
  <2>1. CASE t = <<x>>
    <3>1. t \in Seq(Int) /\ Len(t) = 1 /\ t[1] = x
      <4> HIDE <1>b, <1>c
      <4> QED BY <1>a, <2>1
    <3> QED BY <3>1
  <2>2. CASE t = <<x, LineEnd>>
    BY <1>b, <2>2, Zenon
  <2> QED BY <1>c, <2>1, <2>2
<1> HIDE <1>a, <1>b
<1>d. DOMAIN t = 1 .. Len(t) /\ Len(t) \in Nat
  <2> HIDE <1>1, <1>c
  <2> QED BY <1>1
<1>2. ASSUME NEW i \in 1 .. Len(t) PROVE (i = 1 /\ t[i] = x) \/ (i = 2 /\ t[i] = LineEnd)
  BY <1>1, <1>d
<1>3. InTurn(t)
  BY <1>0, <1>1, <1>2, <1>d DEF InTurn, Later
<1>4. Letters(t) = {x}
  <2>1. 1 \in DOMAIN t
    BY <1>1, <1>d
  <2>2. x \in {t[i] : i \in DOMAIN t}
    BY <1>1, <2>1
  <2>3. \A z \in {t[i] : i \in DOMAIN t} : z = x \/ z = LineEnd
    BY <1>d, <1>2
  <2> QED BY <2>2, <2>3 DEF Letters
<1>5. ASSUME NEW s \in Seq(Int), NEW i \in 1 .. Len(s)
      PROVE  s[i] \in Int /\ (s[i] = LineEnd \/ s[i] \in Letters(s))
  <2>1. DOMAIN s = 1 .. Len(s) /\ s[i] \in Int
    OBVIOUS
  <2> QED BY <2>1 DEF Letters
<1>6. ASSUME NEW s \in Seq(Int), \A y \in Letters(s) : Later(y, x) PROVE Then(s, t)
  <2> SUFFICES ASSUME NEW i \in 1 .. Len(s), NEW j \in 1 .. Len(t) PROVE Later(s[i], t[j])
    BY DEF Then
  <2>1. s[i] \in Int /\ (s[i] = LineEnd \/ Later(s[i], x))
    BY <1>5, <1>6
  <2>2. t[j] = x \/ t[j] = LineEnd
    BY <1>2
  <2> QED BY <1>0, <2>1, <2>2 DEF Later
<1>7. ASSUME NEW s \in Seq(Int), \A y \in Letters(s) : Later(x, y) PROVE Then(t, s)
  <2> SUFFICES ASSUME NEW i \in 1 .. Len(s), NEW j \in 1 .. Len(t) PROVE Later(t[j], s[i])
    BY DEF Then
  <2>1. s[i] \in Int /\ (s[i] = LineEnd \/ Later(x, s[i]))
    BY <1>5, <1>7
  <2>2. t[j] = x \/ t[j] = LineEnd
    BY <1>2
  <2> QED BY <1>0, <2>1, <2>2 DEF Later
<1> QED BY <1>1, <1>3, <1>4, <1>6, <1>7

(* A letter of the first of two texts is not in the second one.            *)
LEMMA TextsApart ==
  ASSUME NEW s \in Seq(Int), NEW t \in Seq(Int), Then(s, t)
  PROVE  Letters(s) \intersect Letters(t) = {}
<1>1. DOMAIN s = 1 .. Len(s) /\ DOMAIN t = 1 .. Len(t)
  OBVIOUS
<1>2. ASSUME NEW z \in Letters(s), z \in Letters(t) PROVE FALSE
  <2>1. PICK i \in 1 .. Len(s) : s[i] = z /\ z # LineEnd
    BY <1>1 DEF Letters
  <2>2. PICK j \in 1 .. Len(t) : t[j] = z
    BY <1>1, <1>2 DEF Letters
  <2> QED BY <2>1, <2>2 DEF Then, Later
<1> QED BY <1>2

-----------------------------------------------------------------------------
(* The text of terminal, buffer and pipe, when what is in x was dropped.   *)
Kept(a, b, c, x, p, l) ==
  /\ InTurn(a) /\ InTurn(b) /\ InTurn(c) /\ Then(a, b) /\ Then(a, c) /\ Then(b, c)
  /\ Letters(a) \union Letters(b) \union Letters(c) = Outgoing(p, l) \ x
  /\ x \subseteq Outgoing(p, l)

Fresh(y, p, l, q, m) ==
  /\ y \in Int /\ y # LineEnd /\ y \notin Outgoing(p, l)
  /\ Outgoing(q, m) = Outgoing(p, l) \union {y}
  /\ \A z \in Outgoing(p, l) : Later(z, y)

(* What is printed next is new, and comes after everything.                *)
LEMMA FreshPrint ==
  ASSUME NEW p \in Nat, NEW l \in Nat
  PROVE  Fresh(p + 1, p, l, p + 1, l)
<1>1. ASSUME NEW z \in Outgoing(p, l) PROVE z \in Int /\ z <= p /\ z # 0
  BY DEF Outgoing
<1>2. Outgoing(p + 1, l) = Outgoing(p, l) \union {p + 1}
  <2>1. 1 .. p + 1 = 1 .. p \union {p + 1}
    OBVIOUS
  <2> QED BY <2>1 DEF Outgoing
<1> QED BY <1>1, <1>2 DEF Fresh, Later, LineEnd

(* So is what is logged next; it may also precede everything.              *)
LEMMA FreshLog ==
  ASSUME NEW p \in Nat, NEW l \in Nat
  PROVE  /\ Fresh(-(l + 1), p, l, p, l + 1)
         /\ \A z \in Outgoing(p, l) : Later(-(l + 1), z)
<1>1. ASSUME NEW z \in Outgoing(p, l) PROVE z \in Int /\ z >= -l /\ z # 0
  BY DEF Outgoing
<1>2. Outgoing(p, l + 1) = Outgoing(p, l) \union {-(l + 1)}
  <2>1. \A i \in 1 .. l + 1 : i \in 1 .. l \/ i = l + 1
    OBVIOUS
  <2>2. \A i \in 1 .. l : i \in 1 .. l + 1
    OBVIOUS
  <2>3. l + 1 \in 1 .. l + 1
    OBVIOUS
  <2>4. {-i : i \in 1 .. l + 1} = {-i : i \in 1 .. l} \union {-(l + 1)}
    BY <2>1, <2>2, <2>3
  <2> QED BY <2>4 DEF Outgoing
<1>3. -(l + 1) \in Int /\ -(l + 1) < 0 /\ -(l + 1) < -l
  OBVIOUS
<1> QED BY <1>1, <1>2, <1>3 DEF Fresh, Later, LineEnd

(* A new text goes to the end of everything.                               *)
LEMMA KeptAtEnd ==
  ASSUME NEW a \in Seq(Int), NEW b \in Seq(Int), NEW c \in Seq(Int), NEW x,
         NEW p, NEW l, NEW q, NEW m, NEW y, Kept(a, b, c, x, p, l), Fresh(y, p, l, q, m),
         NEW t \in {<<y>>, <<y, LineEnd>>}
  PROVE  c \o t \in Seq(Int) /\ Kept(a, b, c \o t, x, q, m)
<1>1. y \in Int /\ y # LineEnd
  BY DEF Fresh
<1>2. /\ t \in Seq(Int) /\ InTurn(t) /\ Letters(t) = {y}
      /\ \A s \in Seq(Int) : (\A z \in Letters(s) : Later(z, y)) => Then(s, t)
  BY <1>1, NewText
<1>3. \A z \in Letters(a) \union Letters(b) \union Letters(c) : Later(z, y)
  BY DEF Kept, Fresh
<1>4. Then(a, t) /\ Then(b, t) /\ Then(c, t)
  BY <1>2, <1>3
<1>5. c \o t \in Seq(Int)
  BY <1>2, ConcatProperties
<1>6. InTurn(c \o t) /\ Letters(c \o t) = Letters(c) \union {y}
  BY <1>2, <1>4, TwoTexts DEF Kept
<1>7. Then(a, c \o t) /\ Then(b, c \o t)
  BY <1>2, <1>4, TwoTexts DEF Kept
<1>8. y \notin x
  BY DEF Kept, Fresh
<1> QED BY <1>5, <1>6, <1>7, <1>8 DEF Kept, Fresh

(* A new text goes behind the terminal's, if it may precede the rest.      *)
LEMMA KeptAtFront ==
  ASSUME NEW a \in Seq(Int), NEW b \in Seq(Int), NEW c \in Seq(Int), NEW x,
         NEW p, NEW l, NEW q, NEW m, NEW y, Kept(a, b, c, x, p, l), Fresh(y, p, l, q, m),
         \A z \in Letters(b) \union Letters(c) : Later(y, z),
         NEW t \in {<<y>>, <<y, LineEnd>>}
  PROVE  a \o t \in Seq(Int) /\ Kept(a \o t, b, c, x, q, m)
<1>1. y \in Int /\ y # LineEnd
  BY DEF Fresh
<1>2. /\ t \in Seq(Int) /\ InTurn(t) /\ Letters(t) = {y}
      /\ \A s \in Seq(Int) : (\A z \in Letters(s) : Later(z, y)) => Then(s, t)
      /\ \A s \in Seq(Int) : (\A z \in Letters(s) : Later(y, z)) => Then(t, s)
  BY <1>1, NewText
<1>3. \A z \in Letters(a) : Later(z, y)
  BY DEF Kept, Fresh
<1>4. Then(a, t) /\ Then(t, b) /\ Then(t, c)
  BY <1>2, <1>3
<1>5. a \o t \in Seq(Int)
  BY <1>2, ConcatProperties
<1>6. InTurn(a \o t) /\ Letters(a \o t) = Letters(a) \union {y}
  BY <1>2, <1>4, TwoTexts DEF Kept
<1>7. Then(a \o t, b) /\ Then(a \o t, c)
  BY <1>2, <1>4, TwoTexts DEF Kept
<1>8. y \notin x
  BY DEF Kept, Fresh
<1> QED BY <1>5, <1>6, <1>7, <1>8 DEF Kept, Fresh

(* A beginning of the last text moves to the end of the one before it.     *)
LEMMA KeptRead ==
  ASSUME NEW a \in Seq(Int), NEW b \in Seq(Int), NEW c \in Seq(Int), NEW x,
         NEW p, NEW l, Kept(a, b, c, x, p, l), NEW n \in 0 .. Len(c)
  PROVE  /\ b \o SubSeq(c, 1, n) \in Seq(Int) /\ SubSeq(c, n + 1, Len(c)) \in Seq(Int)
         /\ Kept(a, b \o SubSeq(c, 1, n), SubSeq(c, n + 1, Len(c)), x, p, l)
<1> DEFINE f == SubSeq(c, 1, n)
           g == SubSeq(c, n + 1, Len(c))
<1>1. f \in Seq(Int) /\ g \in Seq(Int) /\ f \o g = c
  BY TextCut
<1> HIDE DEF f, g
<1>2. b \o f \in Seq(Int)
  BY <1>1, ConcatProperties
<1>3. InTurn(f) /\ InTurn(g) /\ Then(f, g) /\ Letters(c) = Letters(f) \union Letters(g)
  BY <1>1, TwoTexts DEF Kept
<1>4. Then(a, f) /\ Then(a, g) /\ Then(b, f) /\ Then(b, g)
  BY <1>1, TwoTexts DEF Kept
<1>5. InTurn(b \o f) /\ Letters(b \o f) = Letters(b) \union Letters(f)
  BY <1>1, <1>3, <1>4, TwoTexts DEF Kept
<1>6. Then(a, b \o f) /\ Then(b \o f, g)
  BY <1>1, <1>3, <1>4, TwoTexts DEF Kept
<1>7. Kept(a, b \o f, g, x, p, l)
  BY <1>3, <1>4, <1>5, <1>6 DEF Kept
<1> QED BY <1>1, <1>2, <1>7 DEF f, g

(* The first of the buffer's text goes to the terminal.                    *)
LEMMA KeptPush ==
  ASSUME NEW a \in Seq(Int), NEW b \in Seq(Int), NEW c \in Seq(Int), NEW x,
         NEW p, NEW l, Kept(a, b, c, x, p, l), NEW n \in 0 .. Len(b)
  PROVE  /\ a \o SubSeq(b, 1, n) \in Seq(Int) /\ SubSeq(b, n + 1, Len(b)) \in Seq(Int)
         /\ Kept(a \o SubSeq(b, 1, n), SubSeq(b, n + 1, Len(b)), c, x, p, l)
<1> DEFINE f == SubSeq(b, 1, n)
           g == SubSeq(b, n + 1, Len(b))
<1>1. f \in Seq(Int) /\ g \in Seq(Int) /\ f \o g = b
  BY TextCut
<1> HIDE DEF f, g
<1>2. a \o f \in Seq(Int)
  BY <1>1, ConcatProperties
<1>3. InTurn(f) /\ InTurn(g) /\ Then(f, g) /\ Letters(b) = Letters(f) \union Letters(g)
  BY <1>1, TwoTexts DEF Kept
<1>4. Then(a, f) /\ Then(a, g) /\ Then(f, c) /\ Then(g, c)
  BY <1>1, TwoTexts DEF Kept
<1>5. InTurn(a \o f) /\ Letters(a \o f) = Letters(a) \union Letters(f)
  BY <1>1, <1>3, <1>4, TwoTexts DEF Kept
<1>6. Then(a \o f, g) /\ Then(a \o f, c)
  BY <1>1, <1>3, <1>4, TwoTexts DEF Kept
<1>7. Kept(a \o f, g, c, x, p, l)
  BY <1>3, <1>4, <1>5, <1>6 DEF Kept
<1> QED BY <1>1, <1>2, <1>7 DEF f, g

(* The buffer, or the pipe, is dropped.                                    *)
LEMMA KeptDrop ==
  ASSUME NEW a \in Seq(Int), NEW b \in Seq(Int), NEW c \in Seq(Int), NEW x,
         NEW p, NEW l, Kept(a, b, c, x, p, l)
  PROVE  /\ Kept(a, <<>>, c, x \union Letters(b), p, l)
         /\ Kept(a, b, <<>>, x \union Letters(c), p, l)
<1>1. /\ Letters(a) \intersect Letters(b) = {} /\ Letters(a) \intersect Letters(c) = {}
      /\ Letters(b) \intersect Letters(c) = {}
  BY TextsApart DEF Kept
<1> QED BY <1>1, EmptyText DEF Kept

-----------------------------------------------------------------------------
RedirectType ==
  /\ standardOutput \in {"terminal", "pipe"} /\ stdLogTo \in {"stdout", "saved"}
  /\ pipeStdout \in Seq(Int) /\ lbStdout \in Seq(Int) /\ terminal \in Seq(Int)
  /\ prints \in Nat /\ logs \in Nat

(* How far the redirection is set up, and where a text can be.             *)
Switched ==
  /\ standardOutput = "terminal" <=> switching = "off"
  /\ switching = "off" => pipeStdout = <<>>
  /\ switching \in {"set", "on", "join"} => stdLogTo = "saved"
  /\ redirectThread \in {"read", "lines"} => switching \in {"on", "join"}
  /\ redirectThread \notin {"read", "lines"} => lbStdout = <<>>

RedirectInv ==
  /\ RedirectType /\ Switched
  /\ Kept(terminal, lbStdout, pipeStdout, lost, prints, logs)

(* At first there is no text.                                              *)
LEMMA RedirectInvInit ==
  ASSUME RedirectInit
  PROVE  RedirectInv
<1>1. RedirectType
  BY EmptyText DEF RedirectInit, RedirectType
<1>2. Switched
  BY DEF RedirectInit, Switched
<1>3. Outgoing(0, 0) = {}
  BY DEF Outgoing
<1>4. Kept(<<>>, <<>>, <<>>, {}, 0, 0)
  BY <1>3, EmptyText DEF Kept
<1> QED BY <1>1, <1>2, <1>4 DEF RedirectInv, RedirectInit

(* A text is written where descriptor 1 leads, at the end of everything.   *)
LEMMA OutputKeeps ==
  ASSUME RedirectInv, NEW y, NEW t \in {<<y>>, <<y, LineEnd>>},
         Fresh(y, prints, logs, prints', logs'),
         prints' \in Nat, logs' \in Nat, Output(t),
         UNCHANGED <<ioVars, lbStdout, lost, switching, redirectThread>>
  PROVE  RedirectInv'
<1>1. CASE standardOutput = "terminal"
  <2>1. terminal' = terminal \o t /\ pipeStdout' = pipeStdout
    BY <1>1 DEF Output
  <2>2. pipeStdout = <<>> /\ lbStdout = <<>>
    BY <1>1 DEF RedirectInv, Switched
  <2>3. \A z \in Letters(lbStdout) \union Letters(pipeStdout) : Later(y, z)
    BY <2>2, EmptyText
  <2>4. /\ terminal \o t \in Seq(Int)
        /\ Kept(terminal \o t, lbStdout, pipeStdout, lost, prints', logs')
    BY <2>3, KeptAtFront DEF RedirectInv, RedirectType
  <2> QED BY <2>1, <2>4 DEF RedirectInv, RedirectType, Switched, ioVars
<1>2. CASE standardOutput # "terminal"
  <2>1. pipeStdout' = pipeStdout \o t /\ terminal' = terminal
    BY <1>2 DEF Output
  <2>2. switching # "off"
    BY <1>2 DEF RedirectInv, Switched
  <2>4. /\ pipeStdout \o t \in Seq(Int)
        /\ Kept(terminal, lbStdout, pipeStdout \o t, lost, prints', logs')
    BY KeptAtEnd DEF RedirectInv, RedirectType
  <2> QED BY <2>1, <2>2, <2>4 DEF RedirectInv, RedirectType, Switched, ioVars
<1> QED BY <1>1, <1>2

(* The program prints, where descriptor 1 leads.                           *)
LEMMA PrintKeeps ==
  ASSUME RedirectInv, PrintText
  PROVE  RedirectInv'
<1>1. prints \in Nat /\ logs \in Nat /\ prints' = prints + 1 /\ logs' = logs
  BY DEF RedirectInv, RedirectType, PrintText
<1>2. Fresh(prints', prints, logs, prints', logs')
  BY <1>1, FreshPrint
<1>3. PICK t \in {<<prints'>>, <<prints', LineEnd>>} : Output(t)
  BY DEF PrintText
<1>4. UNCHANGED <<ioVars, lbStdout, lost, switching, redirectThread>>
  BY DEF PrintText
<1>5. prints' \in Nat /\ logs' \in Nat
  BY <1>1
<1> QED BY <1>2, <1>3, <1>4, <1>5, OutputKeeps

(* The library logs, on the terminal when it can.                          *)
LEMMA LogKeeps ==
  ASSUME RedirectInv, LogText
  PROVE  RedirectInv'
<1> DEFINE y == -logs'
           t == <<y, LineEnd>>
<1>1. prints \in Nat /\ logs \in Nat /\ logs' = logs + 1 /\ prints' = prints
  BY DEF RedirectInv, RedirectType, LogText
<1>2. Fresh(y, prints, logs, prints', logs') /\ \A z \in Outgoing(prints, logs) : Later(y, z)
  BY <1>1, FreshLog
<1>3. /\ Logged(t) /\ t \in {<<y>>, <<y, LineEnd>>}
      /\ UNCHANGED <<ioVars, lbStdout, lost, switching, redirectThread>>
  BY DEF LogText
<1>5. prints' \in Nat /\ logs' \in Nat
  BY <1>1
<1> HIDE DEF y, t
<1>6. CASE stdLogTo = "saved"
  <2>1. terminal' = terminal \o t /\ pipeStdout' = pipeStdout
    BY <1>3, <1>6 DEF Logged
  <2>2. \A z \in Letters(lbStdout) \union Letters(pipeStdout) : Later(y, z)
    BY <1>2 DEF RedirectInv, Kept
  <2>3. /\ terminal \o t \in Seq(Int)
        /\ Kept(terminal \o t, lbStdout, pipeStdout, lost, prints', logs')
    BY <1>2, <1>3, <2>2, KeptAtFront DEF RedirectInv, RedirectType
  <2> QED BY <1>3, <1>5, <2>1, <2>3 DEF RedirectInv, RedirectType, Switched, ioVars
<1>7. CASE stdLogTo # "saved"
  <2>1. Output(t)
    BY <1>3, <1>7 DEF Logged
  <2> QED BY <1>2, <1>3, <1>5, <2>1, OutputKeeps
<1> QED BY <1>6, <1>7

(* setStandardRedirection, but for its end, moves no text.                 *)
LEMMA SwitchKeeps ==
  ASSUME RedirectInv,
         SaveOutput \/ SetStdLog \/ StartThread \/ StopThread \/ JoinThread
  PROVE  RedirectInv'
<1>1. UNCHANGED <<pipeStdout, lbStdout, terminal, lost, prints, logs>>
  BY DEF SaveOutput, SetStdLog, StartThread, StopThread, JoinThread, textVars, counts
<1>2. RedirectType'
  BY <1>1 DEF RedirectInv, RedirectType, SaveOutput, SetStdLog, StartThread, StopThread,
              JoinThread, ioVars
<1>3. Switched'
  <2>1. CASE SaveOutput
    BY <1>1, <2>1 DEF RedirectInv, Switched, SaveOutput
  <2>2. CASE SetStdLog
    BY <1>1, <2>2 DEF RedirectInv, Switched, SetStdLog
  <2>3. CASE StartThread
    BY <1>1, <2>3 DEF RedirectInv, Switched, StartThread, ioVars
  <2>4. CASE StopThread
    BY <1>1, <2>4 DEF RedirectInv, Switched, StopThread, ioVars
  <2>5. CASE JoinThread
    BY <1>1, <2>5 DEF RedirectInv, Switched, JoinThread
  <2> QED BY <2>1, <2>2, <2>3, <2>4, <2>5
<1> QED BY <1>1, <1>2, <1>3 DEF RedirectInv

(* Descriptor 1 is the terminal's again, and the pipe is closed.           *)
LEMMA RestoreKeeps ==
  ASSUME RedirectInv, RestoreOutput
  PROVE  RedirectInv'
<1>1. /\ switching = "joined" /\ switching' = "off" /\ standardOutput' = "terminal"
      /\ lost' = lost \union Letters(pipeStdout) /\ pipeStdout' = <<>>
      /\ UNCHANGED <<stdLogTo, lbStdout, terminal, redirectThread, prints, logs>>
  BY DEF RestoreOutput, counts
<1>2. Kept(terminal, lbStdout, <<>>, lost \union Letters(pipeStdout), prints, logs)
  BY KeptDrop DEF RedirectInv, RedirectType
<1>3. Switched'
  BY <1>1 DEF RedirectInv, Switched
<1> QED BY <1>1, <1>2, <1>3, EmptyText DEF RedirectInv, RedirectType

(* The thread ends, and its buffer with it.                                *)
LEMMA EndThreadKeeps ==
  ASSUME RedirectInv, EndThread
  PROVE  RedirectInv'
<1>1. /\ redirectThread' = "ended"
      /\ lost' = lost \union Letters(lbStdout) /\ lbStdout' = <<>>
      /\ UNCHANGED <<standardOutput, stdLogTo, pipeStdout, terminal, switching, prints, logs>>
  BY DEF EndThread, counts, ioVars
<1>2. Kept(terminal, <<>>, pipeStdout, lost \union Letters(lbStdout), prints, logs)
  BY KeptDrop DEF RedirectInv, RedirectType
<1>3. Switched'
  BY <1>1 DEF RedirectInv, Switched
<1> QED BY <1>1, <1>2, <1>3, EmptyText DEF RedirectInv, RedirectType

(* The thread reads some of what is in the pipe.                           *)
LEMMA TextReadKeeps ==
  ASSUME RedirectInv, ReadPipe
  PROVE  RedirectInv'
<1>1. PICK n \in 1 .. Len(pipeStdout) :
        /\ lbStdout' = lbStdout \o SubSeq(pipeStdout, 1, n)
        /\ pipeStdout' = SubSeq(pipeStdout, n + 1, Len(pipeStdout))
  BY DEF ReadPipe
<1>2. /\ redirectThread = "read" /\ redirectThread' = "lines"
      /\ UNCHANGED <<standardOutput, stdLogTo, terminal, lost, switching, prints, logs>>
  BY DEF ReadPipe, counts, ioVars
<1>3. n \in 0 .. Len(pipeStdout)
  OBVIOUS
<1>4. /\ lbStdout' \in Seq(Int) /\ pipeStdout' \in Seq(Int)
      /\ Kept(terminal, lbStdout', pipeStdout', lost, prints, logs)
  BY <1>1, <1>3, KeptRead DEF RedirectInv, RedirectType
<1>5. Switched'
  BY <1>2 DEF RedirectInv, Switched
<1> QED BY <1>2, <1>4, <1>5 DEF RedirectInv, RedirectType

(* The thread prints a line, or finds none.                                *)
LEMMA TextPushKeeps ==
  ASSUME RedirectInv, PushLines
  PROVE  RedirectInv'
<1>1. /\ redirectThread = "lines"
      /\ UNCHANGED <<standardOutput, stdLogTo, lost, switching, prints, logs>>
  BY DEF PushLines, counts, ioVars
<1>2. switching \in {"on", "join"} /\ stdLogTo = "saved" /\ switching # "off"
  BY <1>1 DEF RedirectInv, Switched
<1>3. CASE redirectThread' = "read" /\ UNCHANGED <<pipeStdout, lbStdout, terminal>>
  <2>1. Switched'
    BY <1>1, <1>2, <1>3 DEF RedirectInv, Switched
  <2> QED BY <1>1, <1>3, <2>1 DEF RedirectInv, RedirectType
<1>4. ASSUME NEW i \in DOMAIN lbStdout, Logged(SubSeq(lbStdout, 1, i)),
             lbStdout' = SubSeq(lbStdout, i + 1, Len(lbStdout)), UNCHANGED redirectThread
      PROVE  RedirectInv'
  <2>1. terminal' = terminal \o SubSeq(lbStdout, 1, i) /\ pipeStdout' = pipeStdout
    BY <1>2, <1>4 DEF Logged
  <2>2. i \in 0 .. Len(lbStdout)
    <3>1. lbStdout \in Seq(Int)
      BY DEF RedirectInv, RedirectType
    <3> QED BY <3>1
  <2>3. /\ terminal' \in Seq(Int) /\ lbStdout' \in Seq(Int)
        /\ Kept(terminal', lbStdout', pipeStdout, lost, prints, logs)
    BY <1>4, <2>1, <2>2, KeptPush DEF RedirectInv, RedirectType
  <2>4. Switched'
    BY <1>1, <1>2, <1>4, <2>1 DEF RedirectInv, Switched
  <2> QED BY <1>1, <2>1, <2>3, <2>4 DEF RedirectInv, RedirectType
<1> QED BY <1>1, <1>3, <1>4 DEF PushLines

(* What is printed and logged goes out once.                               *)
THEOREM RedirectionHolds == RedirectSpec => []RedirectedOnce
<1>1. RedirectInit => RedirectInv
  BY RedirectInvInit
<1>2. RedirectInv /\ [RedirectNext]_redirectVars => RedirectInv'
  <2>1. RedirectInv /\ UNCHANGED redirectVars => RedirectInv'
    BY DEF redirectVars, ioVars, textVars, counts, RedirectInv, RedirectType, Switched
  <2> QED BY <2>1, PrintKeeps, LogKeeps, SwitchKeeps, RestoreKeeps, EndThreadKeeps,
             TextReadKeeps, TextPushKeeps DEF RedirectNext
<1>3. RedirectInv => RedirectedOnce
  <2> SUFFICES ASSUME RedirectInv PROVE RedirectedOnce
    OBVIOUS
  <2> DEFINE h == terminal \o lbStdout
             text == h \o pipeStdout
  <2>1. terminal \in Seq(Int) /\ lbStdout \in Seq(Int) /\ pipeStdout \in Seq(Int)
    BY DEF RedirectInv, RedirectType
  <2>2. h \in Seq(Int)
    BY <2>1, ConcatProperties
  <2>3. text \in Seq(Int)
    BY <2>1, <2>2, ConcatProperties
  <2>4. /\ InTurn(h) /\ Then(h, pipeStdout)
        /\ Letters(h) = Letters(terminal) \union Letters(lbStdout)
    BY <2>1, TwoTexts DEF RedirectInv, Kept
  <2> HIDE DEF h
  <2>5. InTurn(text) /\ Letters(text) = Letters(h) \union Letters(pipeStdout)
    BY <2>1, <2>2, <2>4, TwoTexts DEF RedirectInv, Kept
  <2>6. DOMAIN text = 1 .. Len(text)
    BY <2>3
  <2>7. Letters(text) = Outgoing(prints, logs) \ lost
    BY <2>4, <2>5 DEF RedirectInv, Kept
  <2> HIDE DEF text
  <2> QED BY <2>5, <2>6, <2>7 DEF RedirectedOnce, InTurn, Later, Outgoing, text, h
<1> QED BY <1>1, <1>2, <1>3, PTL DEF RedirectSpec
=============================================================================
