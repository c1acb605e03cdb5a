----------------------------- MODULE Transport -----------------------------
(***************************************************************************)
(* The transfer of messages from the daemons to the server:                *)
(* transport_client.c (one thread in each infoLoggerD), TCP connections,   *)
(* and in infoLoggerServer the thread of transport_server.c and the main   *)
(* thread (InfoLoggerServer::doLoop), which takes files from the output    *)
(* queue, gives them to the dispatch engines and acknowledges them.        *)
(*                                                                         *)
(* In message mode a file is one message.  It stays in the client's        *)
(* input_queue, and in the permanent FIFO, until an ACK covers its number. *)
(* After a reconnection all that the queue holds is sent again.  The       *)
(* server keeps a table of connections whose slots are reused; an          *)
(* acknowledgement names a slot and the cx_id it had.                      *)
(*                                                                         *)
(* The permanent FIFO (module PermFIFO) is reduced to what the client sees *)
(* of it when nothing is lost: items numbered from 1 at each start of the  *)
(* daemon, in order, the unacknowledged ones again after a restart.        *)
(***************************************************************************)
EXTENDS Integers, Sequences, FiniteSets

CONSTANTS
  Client,       \* the daemons
  Link,         \* bound: TCP connections existing at a time, 1 .. n
  Slot,         \* the server's cx_table, 1 .. cx_table_size
  QueueLength,  \* size of a client's input_queue
  OutputLength, \* size of the server's output_queue
  AckMaxFiles,  \* TR_SERVER_ACK_MAX_FILES
  MaxMsg,       \* bound: messages written in each daemon
  MaxFaults     \* bound: broken connections, timeouts and restarts

ASSUME TransportAssumption ==
  /\ Link \subseteq Nat \ {0} /\ IsFiniteSet(Link)
  /\ Slot \subseteq Nat \ {0} /\ IsFiniteSet(Slot)
  /\ QueueLength \in Nat \ {0} /\ OutputLength \in Nat \ {0}
  /\ AckMaxFiles \in Nat /\ MaxMsg \in Nat /\ MaxFaults \in Nat

VARIABLES
  client,        \* per daemon: the state of the client thread
  link,          \* the TCP connections
  backlog,       \* those the server has not accepted yet
  cx,            \* cx_table
  cx_counter,
  pushing,       \* the slot whose file waits for the output queue, or 0
  output_queue,
  inHand,        \* the file the main thread is processing, if any
  written,       \* per daemon: number of messages put in the permanent FIFO
  acked,         \* per daemon: number of messages acknowledged to it
  processed,     \* per daemon: messages the main thread has dispatched
  faults

clientVars == <<client, written, acked>>
serverVars == <<cx, cx_counter, pushing>>
mainVars   == <<output_queue, inHand, processed>>
vars == <<clientVars, link, backlog, serverVars, mainVars, faults>>

None == 0                  \* no link, no slot, no file of the client
NoFile == [id |-> None]    \* no file of the server

-----------------------------------------------------------------------------
(* A file is a record [source, id, msg], the client and its message, id    *)
(* the number that permFIFO gave to it; the output queue has records       *)
(* [file, slot, sender], sender the cx_id of the connection.               *)

(* What goes up a connection: the line INI, a file's header and data, the  *)
(* line END; what comes down: the lines READY and ACK.                     *)
INI   == [kind |-> "INI"]
END   == [kind |-> "END"]
READY == [kind |-> "READY"]
FileSent(f) == [kind |-> "File", file |-> f]
ACK(n)      == [kind |-> "ACK", id |-> n]

FreeLink == [up |-> <<>>, down |-> <<>>, clientOpen |-> FALSE,
             serverOpen |-> FALSE]
FreeSlot == [link |-> None, cx_id |-> -1, state |-> "INIT", file |-> NoFile,
             ack_file |-> 0, non_acknowledged |-> 0]

(* Each end writes only to a peer that has not closed yet.                 *)
SendUp(l, x)   == IF l.serverOpen THEN [l EXCEPT !.up = Append(@, x)] ELSE l
SendDown(l, x) == IF l.clientOpen THEN [l EXCEPT !.down = Append(@, x)] ELSE l

(* When the client closes, what it sent may be lost from some point on.    *)
ClientCloses(l, n) ==
  IF l.serverOpen
  THEN [l EXCEPT !.clientOpen = FALSE, !.up = SubSeq(@, 1, n), !.down = <<>>]
  ELSE FreeLink
ServerCloses(l) ==
  IF l.clientOpen THEN [l EXCEPT !.serverOpen = FALSE, !.up = <<>>] ELSE FreeLink

-----------------------------------------------------------------------------
(* The client thread just started: the items of its permanent FIFO are the *)
(* messages after base.                                                    *)
Started(base) ==
  [state |-> "NOT_CONNECTED", link |-> None, input_queue |-> <<>>,
   current_file_index |-> 0, current_file |-> None, deinit |-> FALSE,
   ack_id |-> 0, base |-> base, lastIdOut |-> 0]

ClientInit ==
  /\ client = [c \in Client |-> Started(0)]
  /\ written = [c \in Client |-> 0] /\ acked = [c \in Client |-> 0]

(* TR_server_start: nobody is connected, and no file was received.         *)
ServerInit ==
  /\ cx = [s \in Slot |-> FreeSlot] /\ cx_counter = 0 /\ pushing = None
  /\ backlog = <<>> /\ output_queue = <<>>

Init ==
  /\ ClientInit /\ ServerInit
  /\ link = [k \in Link |-> FreeLink]
  /\ inHand = NoFile /\ processed = [c \in Client |-> {}]
  /\ faults = 0

Fault == faults < MaxFaults /\ faults' = faults + 1

ServerUnchanged == UNCHANGED <<backlog, serverVars, mainVars>>

-----------------------------------------------------------------------------
(* The client.                                                             *)

(* TR_client_send_msg, called by infoLoggerD.                              *)
SendMsg(c) ==
  /\ written[c] < MaxMsg
  /\ written' = [written EXCEPT ![c] = @ + 1]
  /\ UNCHANGED <<client, acked, link, faults>> /\ ServerUnchanged

(* transport_TCP_connect, and the first line sent.                         *)
Connected(up) == [up |-> up, down |-> <<>>, clientOpen |-> TRUE, serverOpen |-> TRUE]

(* STATE_NOT_CONNECTED: connect, then STATE_OPEN_CLIENT: send INI.         *)
Connect(c) ==
  /\ client[c].state = "NOT_CONNECTED"
  /\ \E k \in Link :
       /\ link[k] = FreeLink
       /\ \A j \in Link : link[j] = FreeLink => k <= j
       /\ link' = [link EXCEPT ![k] = Connected(<<INI>>)]
       /\ backlog' = Append(backlog, k)
       /\ client' = [client EXCEPT ![c].state = "OPEN_CLIENT", ![c].link = k]
  /\ UNCHANGED <<written, acked, serverVars, mainVars, faults>>

(* A line from the server.                                                 *)
Incoming(c, state, line) ==
  /\ client[c].state = state
  /\ link[client[c].link].down # <<>>
  /\ line = Head(link[client[c].link].down)
  /\ link' = [link EXCEPT ![client[c].link].down = Tail(@)]

(* Mutants: on a new connection the client goes on where it was in the     *)
(* queue, or first ends the file that it was sending.                      *)
ReadyKeepsIndex(c) ==
  /\ Incoming(c, "OPEN_CLIENT", READY)
  /\ client' = [client EXCEPT ![c].state = "CONNECTED",
                              ![c].current_file = None,
                              ![c].deinit = FALSE]
  /\ UNCHANGED <<written, acked, faults>> /\ ServerUnchanged
ReadyKeepsFile(c) ==
  /\ Incoming(c, "OPEN_CLIENT", READY)
  /\ client' = [client EXCEPT ![c].state = "CONNECTED",
                              ![c].current_file = None,
                              ![c].current_file_index = 0]
  /\ UNCHANGED <<written, acked, faults>> /\ ServerUnchanged

Ready(c) ==
  /\ Incoming(c, "OPEN_CLIENT", READY)
  /\ client' = [client EXCEPT ![c].state = "CONNECTED",
                              ![c].current_file = None,
                              ![c].current_file_index = 0,
                              ![c].deinit = FALSE]
  /\ UNCHANGED <<written, acked, faults>> /\ ServerUnchanged

(* How many files at the head of the queue an ACK removes: it stops at the *)
(* file being sent and at the first with a higher number.                  *)
Acknowledged(queue, current, ack) ==
  CHOOSE n \in 0 .. Len(queue) :
    /\ \A i \in 1 .. n : queue[i] # current /\ queue[i] <= ack
    /\ n < Len(queue) => queue[n + 1] = current \/ queue[n + 1] > ack

(* An ACK: ack_id is set, the files it covers leave input_queue and are    *)
(* acknowledged to the permanent FIFO.                                     *)
Ack(c, ack) ==
  LET me == client[c]
      n  == Acknowledged(me.input_queue, me.current_file, ack)
  IN
  /\ Incoming(c, "CONNECTED", ACK(ack))
  /\ client' = [client EXCEPT
       ![c].ack_id = ack,
       ![c].input_queue = SubSeq(@, n + 1, Len(@)),
       ![c].current_file_index = IF @ >= n THEN @ - n ELSE 0]
  /\ acked' = [acked EXCEPT
       ![c] = IF n = 0 THEN @ ELSE me.base + me.input_queue[n]]
  /\ UNCHANGED <<written, faults>> /\ ServerUnchanged

Idle(me) == me.state = "CONNECTED" /\ me.current_file = None /\ ~me.deinit

(* The next file to send: from the queue, or else from the permanent FIFO. *)
Sending(me, id) == [me EXCEPT !.current_file = id,
                              !.current_file_index = @ + 1,
                              !.deinit = TRUE]
NextFile(c) ==
  LET me == client[c]
      id == me.lastIdOut + 1
  IN
  /\ Idle(me)
  /\ \/ /\ me.current_file_index < Len(me.input_queue)
        /\ client' = [client EXCEPT ![c] =
                        Sending(me, me.input_queue[me.current_file_index + 1])]
     \/ /\ me.current_file_index >= Len(me.input_queue)
        /\ Len(me.input_queue) < QueueLength
        /\ me.base + me.lastIdOut < written[c]
        /\ client' = [client EXCEPT ![c] =
                        Sending([me EXCEPT !.input_queue = Append(@, id),
                                           !.lastIdOut = id], id)]
  /\ UNCHANGED <<written, acked, link, faults>> /\ ServerUnchanged

(* The header and data of the current file have gone through the socket.   *)
SendFile(c) ==
  LET me == client[c]
      f  == [source |-> c, id |-> me.current_file,
             msg |-> me.base + me.current_file]
  IN
  /\ me.state = "CONNECTED" /\ me.current_file # None
  /\ link' = [link EXCEPT ![me.link] = SendUp(@, FileSent(f))]
  /\ client' = [client EXCEPT ![c].current_file = None]
  /\ UNCHANGED <<written, acked, faults>> /\ ServerUnchanged

SendEnd(c) ==
  LET me == client[c] IN
  /\ me.state = "CONNECTED" /\ me.current_file = None /\ me.deinit
  /\ link' = [link EXCEPT ![me.link] = SendUp(@, END)]
  /\ client' = [client EXCEPT ![c].deinit = FALSE]
  /\ UNCHANGED <<written, acked, faults>> /\ ServerUnchanged

(* STATE_CLOSE_CLIENT, with what the client thread becomes.                *)
Disconnect(c, becomes) ==
  \E n \in 0 .. Len(link[client[c].link].up) :
    /\ link' = [link EXCEPT ![client[c].link] = ClientCloses(@, n)]
    /\ client' = [client EXCEPT ![c] = becomes]

(* Mutant: the queue is emptied.                                           *)
DisconnectedEmpty(me) == [me EXCEPT !.state = "NOT_CONNECTED", !.link = None,
                                    !.input_queue = <<>>]

Disconnected(me) == [me EXCEPT !.state = "NOT_CONNECTED", !.link = None]

(* The server has closed: lines not yet parsed are dropped.                *)
EndOfFile(c) ==
  LET me == client[c] IN
  /\ me.state # "NOT_CONNECTED"
  /\ ~link[me.link].serverOpen
  /\ Disconnect(c, Disconnected(me))
  /\ UNCHANGED <<written, acked, faults>> /\ ServerUnchanged

(* Error on the socket, no READY in time, or the watchdog.                 *)
Broken(c) ==
  LET me == client[c] IN
  /\ me.state # "NOT_CONNECTED"
  /\ Fault
  /\ Disconnect(c, Disconnected(me))
  /\ UNCHANGED <<written, acked>> /\ ServerUnchanged

(* The daemon is stopped and started: permFIFO_new numbers again, from 1,  *)
(* what was not acknowledged.                                              *)
Restart(c) ==
  LET me == client[c] IN
  /\ Fault
  /\ \/ me.state # "NOT_CONNECTED" /\ Disconnect(c, Started(acked[c]))
     \/ /\ me.state = "NOT_CONNECTED"
        /\ client' = [client EXCEPT ![c] = Started(acked[c])]
        /\ UNCHANGED link
  /\ UNCHANGED <<written, acked>> /\ ServerUnchanged

ClientStep(c) ==
  \/ Connect(c) \/ Ready(c) \/ (\E n \in 0 .. MaxMsg : Ack(c, n)) \/ NextFile(c)
  \/ SendFile(c) \/ SendEnd(c) \/ EndOfFile(c)

-----------------------------------------------------------------------------
(* The server's thread.  While it waits to write a file to the output      *)
(* queue it does nothing else.                                             *)
ServerThread == pushing = None /\ UNCHANGED clientVars

(* A slot that gets a connection is initialized.                           *)
(* Mutant: the number of the last file is left from the previous one.      *)
AcceptedKeepsAck(slot, k) ==
  [FreeSlot EXCEPT !.link = k, !.cx_id = cx_counter, !.ack_file = slot.ack_file]
Accepted(slot, k) == [FreeSlot EXCEPT !.link = k, !.cx_id = cx_counter]

Accept ==
  LET k == Head(backlog)
      free == {s \in Slot : cx[s].link = None}
  IN
  /\ ServerThread
  /\ backlog # <<>>
  /\ backlog' = Tail(backlog)
  /\ \/ \E s \in free :
          /\ \A t \in free : s <= t
          /\ cx' = [cx EXCEPT ![s] = Accepted(@, k)]
          /\ cx_counter' = cx_counter + 1
          /\ UNCHANGED link
     \/ /\ free = {}
        /\ link' = [link EXCEPT ![k] = ServerCloses(@)]
        /\ UNCHANGED <<cx, cx_counter>>
  /\ UNCHANGED <<pushing, mainVars, faults>>

(* TR_server_connection_close; ack_file and non_acknowledged stay.         *)
Closed(slot) == [slot EXCEPT !.link = None, !.cx_id = -1, !.file = NoFile]
Close(s) ==
  /\ cx' = [cx EXCEPT ![s] = Closed(@)]
  /\ link' = [link EXCEPT ![cx[s].link] = ServerCloses(@)]

(* TR_server_connection_read, one piece of input: what the slot becomes.   *)
Expected(state, x) ==
  \/ state = "INIT"
  \/ state = "WAITING_FILE_BEGIN" /\ x.kind = "File"
  \/ state = "WAITING_FILE_END" /\ x.kind = "END"

Read(s) ==
  LET x == Head(link[cx[s].link].up)
      rest == [link[cx[s].link] EXCEPT !.up = Tail(@)]
  IN
  /\ ServerThread
  /\ cx[s].link # None
  /\ link[cx[s].link].up # <<>>
  /\ IF ~Expected(cx[s].state, x) THEN Close(s) /\ UNCHANGED pushing
     ELSE \/ /\ cx[s].state = "INIT"
             /\ cx' = [cx EXCEPT ![s].state = "WAITING_FILE_BEGIN"]
             /\ link' = [link EXCEPT ![cx[s].link] = SendDown(rest, READY)]
             /\ UNCHANGED pushing
          \/ /\ cx[s].state = "WAITING_FILE_BEGIN"
             /\ cx' = [cx EXCEPT ![s].state = "WAITING_FILE_END",
                                 ![s].file = x.file]
             /\ link' = [link EXCEPT ![cx[s].link] = rest]
             /\ UNCHANGED pushing
          \/ /\ cx[s].state = "WAITING_FILE_END"
             /\ pushing' = s
             /\ link' = [link EXCEPT ![cx[s].link] = rest]
             /\ UNCHANGED cx
  /\ UNCHANGED <<backlog, cx_counter, mainVars, faults>>

ReadEnd(s) ==
  /\ ServerThread
  /\ cx[s].link # None
  /\ link[cx[s].link].up = <<>> /\ ~link[cx[s].link].clientOpen
  /\ Close(s)
  /\ UNCHANGED <<backlog, cx_counter, pushing, mainVars, faults>>

ReadError(s) ==
  /\ ServerThread
  /\ cx[s].link # None
  /\ Fault
  /\ Close(s)
  /\ UNCHANGED <<backlog, cx_counter, pushing, mainVars>>

(* ptFIFO_write, when there is room; after 11 timeouts, give up.           *)
Push ==
  LET s == pushing IN
  /\ s # None
  /\ Len(output_queue) < OutputLength
  /\ output_queue' = Append(output_queue, [file |-> cx[s].file, slot |-> s,
                                           sender |-> cx[s].cx_id])
  /\ cx' = [cx EXCEPT ![s].state = "WAITING_FILE_BEGIN", ![s].file = NoFile]
  /\ pushing' = None
  /\ UNCHANGED <<clientVars, link, backlog, cx_counter, inHand, processed, faults>>

PushTimeout ==
  /\ pushing # None
  /\ Len(output_queue) = OutputLength
  /\ Fault
  /\ Close(pushing)
  /\ pushing' = None
  /\ UNCHANGED <<clientVars, backlog, cx_counter, mainVars>>

(* Mutant: the files count as acknowledged although the send failed.       *)
AcknowledgeFilesOnce(table, s, min) ==
  LET due == table[s].link # None /\ table[s].non_acknowledged > min
      sent == SendDown(link[table[s].link], ACK(table[s].ack_file))
  IN  \/ /\ due
         /\ link' \in {link, [link EXCEPT ![table[s].link] = sent]}
         /\ cx' = [table EXCEPT ![s].non_acknowledged = 0]
      \/ ~due /\ cx' = table /\ UNCHANGED link

(* TR_server_acknowledge_files: an ACK when more than min files wait for   *)
(* one.  The send may fail, and is tried again the next time.              *)
AcknowledgeFiles(table, s, min) ==
  \/ /\ table[s].link # None /\ table[s].non_acknowledged > min
     /\ link' = [link EXCEPT ![table[s].link] = SendDown(@, ACK(table[s].ack_file))]
     /\ cx' = [table EXCEPT ![s].non_acknowledged = 0]
  \/ cx' = table /\ UNCHANGED link

(* once a second                                                           *)
SendAcks(s) ==
  /\ ServerThread
  /\ AcknowledgeFiles(cx, s, 0)
  /\ UNCHANGED <<backlog, cx_counter, pushing, mainVars, faults>>

-----------------------------------------------------------------------------
(* The main thread: TR_server_get_file and the dispatch, then              *)
(* TR_server_ack_file.                                                     *)
GetFile ==
  /\ inHand = NoFile
  /\ output_queue # <<>>
  /\ inHand' = Head(output_queue)
  /\ output_queue' = Tail(output_queue)
  /\ LET f == Head(output_queue).file
     IN  processed' = [processed EXCEPT ![f.source] = @ \union {f.msg}]
  /\ UNCHANGED <<clientVars, link, backlog, serverVars, faults>>

(* The connection that a file came by is still there, and the file's       *)
(* number is above the last one.  Mutant: any connection in that slot.     *)
CountsAnyway(f) == f.file.id > cx[f.slot].ack_file
Counts(f) == /\ cx[f.slot].cx_id = f.sender
             /\ f.file.id > cx[f.slot].ack_file

AckFile ==
  LET s == inHand.slot
      table == IF Counts(inHand)
               THEN [cx EXCEPT ![s].ack_file = inHand.file.id,
                               ![s].non_acknowledged = @ + 1]
               ELSE cx
  IN
  /\ inHand # NoFile
  /\ AcknowledgeFiles(table, s, AckMaxFiles)
  /\ inHand' = NoFile
  /\ UNCHANGED <<clientVars, backlog, cx_counter, pushing, output_queue,
                 processed, faults>>

(* The server is stopped, or dies, and is started again.                   *)
ServerRestart ==
  /\ Fault
  /\ link' = [k \in Link |-> IF link[k].serverOpen THEN ServerCloses(link[k])
                                                   ELSE link[k]]
  /\ backlog' = <<>>
  /\ cx' = [s \in Slot |-> FreeSlot] /\ cx_counter' = 0 /\ pushing' = None
  /\ output_queue' = <<>> /\ inHand' = NoFile
  /\ UNCHANGED <<clientVars, processed>>

-----------------------------------------------------------------------------
Next ==
  \/ \E c \in Client : SendMsg(c) \/ ClientStep(c) \/ Broken(c) \/ Restart(c)
  \/ Accept \/ Push \/ PushTimeout
  \/ \E s \in Slot : Read(s) \/ ReadEnd(s) \/ ReadError(s) \/ SendAcks(s)
  \/ GetFile \/ AckFile \/ ServerRestart

Spec == Init /\ [][Next]_vars

(* Each thread runs its loop: the client's, the server's (select returns   *)
(* for every socket that is ready, and every second the acknowledgements   *)
(* are sent), and the server's main one.                                   *)
FairSpec ==
  /\ Spec
  /\ \A c \in Client : WF_vars(ClientStep(c))
  /\ WF_vars(Accept) /\ WF_vars(Push)
  /\ \A s \in Slot : WF_vars(Read(s) \/ ReadEnd(s)) /\ WF_vars(SendAcks(s))
  /\ WF_vars(GetFile) /\ WF_vars(AckFile)

-----------------------------------------------------------------------------
(* The server is never given a line it cannot parse, which would make it   *)
(* close the connection: a file cut by a disconnection is never followed,  *)
(* on the same connection or in a slot used again, by something else.      *)
ProtocolInStep ==
  \A s \in Slot :
    cx[s].link # None /\ link[cx[s].link].up # <<>> /\ pushing # s =>
      Expected(cx[s].state, Head(link[cx[s].link].up))

(* TR_server_ack_file never meets a "bad order": on a connection the       *)
(* numbers of the files to acknowledge grow, whatever was resent.          *)
Waiting == (IF inHand = NoFile THEN <<>> ELSE <<inHand>>) \o output_queue
AcksInOrder ==
  \A i \in 1 .. Len(Waiting) :
    LET f == Waiting[i] IN
    f.sender = cx[f.slot].cx_id =>
      /\ f.file.id > cx[f.slot].ack_file
      /\ \A j \in 1 .. i - 1 : Waiting[j].slot = f.slot /\ Waiting[j].sender = f.sender
                               => Waiting[j].file.id < f.file.id

(* A daemon forgets only messages that the server has dispatched: no ACK   *)
(* reaches another daemon's connection in a slot used again, or a daemon   *)
(* that was restarted and numbers its messages anew.                       *)
AckedWasProcessed == \A c \in Client : 1 .. acked[c] \subseteq processed[c]

(* The messages of a daemon are dispatched in order, apart from repeats:   *)
(* never one while an earlier one has not been, whatever connections were  *)
(* lost with messages in transit or queued.                                *)
FirstsInOrder ==
  \A c \in Client : \A m \in processed[c] : 1 .. m \subseteq processed[c]

(* The client keeps in input_queue exactly what it took from the permanent *)
(* FIFO and was not acknowledged.                                          *)
QueueIsUnacked ==
  \A c \in Client :
    LET me == client[c] IN
    /\ me.base + me.lastIdOut = acked[c] + Len(me.input_queue)
    /\ \A i \in 1 .. Len(me.input_queue) :
         me.base + me.input_queue[i] = acked[c] + i

(* Every message written is in the end acknowledged.                       *)
AllAcknowledged ==
  \A c \in Client : \A m \in 1 .. MaxMsg : written[c] >= m ~> acked[c] >= m

=============================================================================
