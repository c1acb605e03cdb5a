------------------------------ MODULE DaemonRx ------------------------------
(***************************************************************************)
(* The reception of messages by infoLoggerD (InfoLoggerD::doLoop): the     *)
(* table of clients, the poll structure made from it, and the cutting of   *)
(* the bytes of each client into lines, which are the messages passed on   *)
(* to the transport (TR_client_send_msg).                                  *)
(*                                                                         *)
(* The clients are external: each connects once, writes a number of lines, *)
(* in parts of any length, and may close at any time.  The bytes of a      *)
(* client are numbered; every LineLen-th one is an end of line.            *)
(***************************************************************************)
EXTENDS Integers, Sequences, FiniteSets, Erasing

Seqs == INSTANCE SequencesExt

CONSTANTS
  Client,            \* processes that log
  rxMaxConnections,  \* limit on connections, none if 0
  LineLen,           \* bytes of a line, its end included
  MaxBytes,          \* bound: bytes that a client writes
  Brief              \* bound: clients that write one byte at most

ASSUME ReceptionAssumption ==
  /\ IsFiniteSet(Client)
  /\ rxMaxConnections \in Nat
  /\ LineLen \in Nat \ {0} /\ MaxBytes \in Nat
  /\ Brief \subseteq Client

VARIABLES
  backlog,  \* clients waiting for accept, in order
  link,     \* per client: "none", "pending", "open", "refused" or "closed"
  hup,      \* clients that have closed their end
  wrote,    \* per client: number of bytes written
  read,     \* per client: number of bytes read by the daemon
  clients,  \* the daemon's list, in order
  fds,      \* poll structure: the sockets polled, <<>> when to be renewed
  revents,  \* indices in fds of the sockets that poll found ready
  turn,     \* index in clients of the next to look at; 0: before the poll
  sent      \* per client: the messages passed on

outside == <<backlog, link, hup, wrote>>
rxVars == <<outside, read, clients, fds, revents, turn, sent>>

rxSocket == "rxSocket"
Closed   == "closed socket"
Byte     == 1 .. MaxBytes
IsEnd(b) == b % LineLen = 0

(* t_clientConnection; client is not in the code.                          *)
NewConnection(c) == [client |-> c, socket |-> c, buffer |-> <<>>, pollIx |-> -1]

RxInit ==
  /\ backlog = <<>> /\ hup = {}
  /\ link = [c \in Client |-> "none"]
  /\ wrote = [c \in Client |-> 0] /\ read = [c \in Client |-> 0]
  /\ clients = <<>> /\ fds = <<>> /\ revents = {} /\ turn = 0
  /\ sent = [c \in Client |-> <<>>]

-----------------------------------------------------------------------------
(* The clients.                                                            *)
DaemonUnchanged == UNCHANGED <<read, clients, fds, revents, turn, sent>>

Connect(c) ==
  /\ link[c] = "none"
  /\ link' = [link EXCEPT ![c] = "pending"]
  /\ backlog' = Append(backlog, c)
  /\ UNCHANGED <<hup, wrote>> /\ DaemonUnchanged

Writes(c) ==
  /\ link[c] \in {"pending", "open"} /\ c \notin hup
  /\ \E n \in wrote[c] + 1 .. MaxBytes :
       /\ c \in Brief => n = 1
       /\ wrote' = [wrote EXCEPT ![c] = n]
  /\ UNCHANGED <<backlog, link, hup>> /\ DaemonUnchanged

Hangup(c) ==
  /\ link[c] \in {"pending", "open"} /\ c \notin hup
  /\ hup' = hup \union {c}
  /\ UNCHANGED <<backlog, link, wrote>> /\ DaemonUnchanged

-----------------------------------------------------------------------------
(* The beginning of doLoop.  Mutant: pollIx is the client's index in the   *)
(* list, not in the structure.                                             *)
WithPollIxFromList(list) == [i \in DOMAIN list |-> [list[i] EXCEPT !.pollIx = i]]
WithPollIx(list) == [i \in DOMAIN list |-> [list[i] EXCEPT !.pollIx = i + 1]]

(* What poll finds.  Mutant: no connection is awaited while there is no    *)
(* room for one.                                                           *)
ReadableWithRoom(s) ==
  IF s = rxSocket THEN backlog # <<>> /\ Len(clients) < rxMaxConnections
  ELSE s \in Client /\ (wrote[s] > read[s] \/ s \in hup)
Readable(s) ==
  IF s = rxSocket THEN backlog # <<>>
  ELSE s \in Client /\ (wrote[s] > read[s] \/ s \in hup)

(* The poll structure is renewed if need be; poll returns the sockets  *)
(* that are ready, or none: a time-out.                                    *)
Poll ==
  /\ turn = 0
  /\ \/ /\ fds = <<>>
        /\ fds' = <<rxSocket>> \o [i \in DOMAIN clients |-> clients[i].socket]
        /\ clients' = WithPollIx(clients)
     \/ fds # <<>> /\ UNCHANGED <<fds, clients>>
  /\ revents' = {i \in DOMAIN fds' : Readable(fds'[i])}
  /\ turn' = IF revents' = {} THEN 0 ELSE 1
  /\ UNCHANGED <<outside, read, sent>>

-----------------------------------------------------------------------------
(* nToPush, at byte i of a read, when those before ix have been pushed.    *)
(* Mutant: the last byte of the read is forgotten.                         *)
ToPushButLast(data, i, ix) ==
  IF IsEnd(data[i]) \/ i = Len(data) THEN i - ix ELSE 0
ToPush(data, i, ix) ==
  IF IsEnd(data[i]) THEN i - ix
  ELSE IF i = Len(data) THEN i - ix + 1 ELSE 0

(* The loop on the bytes of a read: what is left in the buffer, and the    *)
(* lines completed.  ix does not move when there is nothing to push.       *)
PushTo(s, data, i) ==
  LET n    == ToPush(data, i, s.ix)
      full == s.buffer \o SubSeq(data, s.ix, s.ix + n - 1)
  IN  IF n = 0 THEN s
      ELSE IF IsEnd(data[i])
      THEN [ix |-> i + 1, buffer |-> <<>>, lines |-> Append(s.lines, full)]
      ELSE [ix |-> i + 1, buffer |-> full, lines |-> s.lines]

Split(buffer, data) ==
  LET scan[i \in 0 .. Len(data)] ==
        IF i = 0 THEN [ix |-> 1, buffer |-> buffer, lines |-> <<>>]
        ELSE PushTo(scan[i - 1], data, i)
  IN  scan[Len(data)]

(* The client whose turn it is: data is read, if poll said so, or the      *)
(* connection is closed and what is left in its buffer dropped.            *)
Skip ==
  /\ turn \in DOMAIN clients
  /\ clients[turn].pollIx \notin revents
  /\ turn' = turn + 1
  /\ UNCHANGED <<outside, read, clients, fds, revents, sent>>

ReadData ==
  /\ turn \in DOMAIN clients
  /\ LET me == clients[turn]
         c  == me.client
     IN  /\ me.pollIx \in revents
         /\ \E n \in 1 .. wrote[c] - read[c] :
              LET s == Split(me.buffer, [i \in 1 .. n |-> read[c] + i]) IN
              /\ read' = [read EXCEPT ![c] = @ + n]
              /\ clients' = [clients EXCEPT ![turn].buffer = s.buffer]
              /\ sent' = [sent EXCEPT ![c] = @ \o s.lines]
  /\ turn' = turn + 1
  /\ UNCHANGED <<outside, fds, revents>>

CloseClient ==
  /\ turn \in DOMAIN clients
  /\ LET me == clients[turn]
         c  == me.client
     IN  /\ me.pollIx \in revents
         /\ wrote[c] = read[c] /\ c \in hup
         /\ clients' = [clients EXCEPT ![turn].socket = Closed]
         /\ link' = [link EXCEPT ![c] = "closed"]
  /\ turn' = turn + 1
  /\ UNCHANGED <<backlog, hup, wrote, read, fds, revents, sent>>

-----------------------------------------------------------------------------
(* The end of doLoop: the closed connections are removed from the list; a  *)
(* new one is accepted, or closed at once when there are too many; the     *)
(* poll structure is to be renewed if the list has changed.                *)
(* Mutant: the structure is renewed only when the list got shorter.        *)
Remaining == Erased(clients, {i \in DOMAIN clients : clients[i].socket = Closed})
TooManyClients(list) == rxMaxConnections > 0 /\ Len(list) >= rxMaxConnections

RenewedRemoved(list) == IF Len(list) < Len(clients) THEN <<>> ELSE fds
Renewed(list) == IF list # clients THEN <<>> ELSE fds

EndLoop ==
  /\ turn > Len(clients)
  /\ \/ /\ 1 \notin revents
        /\ clients' = Remaining
        /\ UNCHANGED <<backlog, link>>
     \/ /\ 1 \in revents
        /\ backlog' = Tail(backlog)
        /\ LET c == Head(backlog) IN
           \/ /\ TooManyClients(Remaining)
              /\ link' = [link EXCEPT ![c] = "refused"]
              /\ clients' = Remaining
           \/ /\ ~TooManyClients(Remaining)
              /\ link' = [link EXCEPT ![c] = "open"]
              /\ clients' = Append(Remaining, NewConnection(c))
  /\ fds' = Renewed(clients')
  /\ revents' = {} /\ turn' = 0
  /\ UNCHANGED <<hup, wrote, read, sent>>

Daemon == Poll \/ Skip \/ ReadData \/ CloseClient \/ EndLoop

RxNext ==
  \/ Daemon
  \/ \E c \in Client : Connect(c) \/ Writes(c) \/ Hangup(c)

RxSpec == RxInit /\ [][RxNext]_rxVars

(* The daemon runs doLoop again and again.                                 *)
RxFairSpec == RxSpec /\ WF_rxVars(Daemon)

-----------------------------------------------------------------------------
(* What poll found is looked up at pollIx: during the loop this is the     *)
(* entry of the client's own socket, and the structure has one for each    *)
(* client of the list and for no other, whatever was added and removed.    *)
PollsItsOwn ==
  fds # <<>> =>
    /\ Len(fds) = Len(clients) + 1
    /\ \A i \in DOMAIN clients :
         /\ clients[i].pollIx \in DOMAIN fds
         /\ fds[clients[i].pollIx] = clients[i].client

(* Wherever the reads cut what a client writes, each byte of its text is   *)
(* passed on once and in order, or still in the buffer.                    *)
TextOf(s) == Erased(s, {i \in DOMAIN s : IsEnd(s[i])})
BytesInOrder ==
  \A i \in DOMAIN clients :
    LET c == clients[i].client IN
    TextOf(Seqs!FlattenSeq(sent[c]) \o clients[i].buffer) =
      TextOf([b \in 1 .. read[c] |-> b])

(* A client that connects is taken, or refused, however busy the others    *)
(* keep the daemon.                                                        *)
ConnectAnswered ==
  \A c \in Client : link[c] = "pending" ~> link[c] # "pending"

(* All that a client writes is read, though it may have closed since, and  *)
(* though other clients come, go and write.                                *)
WritesRead ==
  \A c \in Client : link[c] = "open" /\ read[c] < wrote[c] ~> read[c] = wrote[c]

(* A message that is passed on is one line.                                *)
MessageIsLine ==
  \A c \in Client : \A i \in DOMAIN sent[c] :
    \A j \in DOMAIN sent[c][i] : ~IsEnd(sent[c][i][j])

=============================================================================
