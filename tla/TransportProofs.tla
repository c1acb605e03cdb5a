-------------------------- MODULE TransportProofs --------------------------
(***************************************************************************)
(* Proofs about the transfer of messages, for any number of daemons,       *)
(* connections, slots, messages and failures, and any size of the queues:  *)
(* the client's queue is what was not acknowledged, the protocol stays in  *)
(* step, acknowledgements are in order and only of what was dispatched,    *)
(* and messages are dispatched in order, apart from repeats.               *)
(***************************************************************************)
EXTENDS Transport, OrderedSequences, TLAPS, SequenceTheorems

-----------------------------------------------------------------------------
(* Types.                                                                  *)
File  == [source : Client, id : Nat \ {0}, msg : Nat \ {0}]
Up    == {INI, END} \union [kind : {"File"}, file : File]
Down  == {READY} \union [kind : {"ACK"}, id : Nat]
Entry == [file : File, slot : Slot, sender : Nat]

ClientState ==
  [state : {"NOT_CONNECTED", "OPEN_CLIENT", "CONNECTED"}, link : Link \union {None},
   input_queue : Seq(Nat), current_file_index : Nat, current_file : Nat,
   deinit : BOOLEAN, ack_id : Nat, base : Nat, lastIdOut : Nat]
LinkState == [up : Seq(Up), down : Seq(Down), clientOpen : BOOLEAN, serverOpen : BOOLEAN]
SlotState ==
  [link : Link \union {None}, cx_id : Int,
   state : {"INIT", "WAITING_FILE_BEGIN", "WAITING_FILE_END"},
   file : File \union {NoFile}, ack_file : Nat, non_acknowledged : Nat]

ClientTypeOK ==
  /\ client \in [Client -> ClientState]
  /\ written \in [Client -> Nat] /\ acked \in [Client -> Nat]
LinkTypeOK == link \in [Link -> LinkState] /\ backlog \in Seq(Link)
ServerTypeOK ==
  /\ cx \in [Slot -> SlotState] /\ cx_counter \in Nat
  /\ pushing \in Slot \union {None}
  /\ output_queue \in Seq(Entry) /\ inHand \in Entry \union {NoFile}
  /\ processed \in [Client -> SUBSET Nat]
TransportTypeOK == ClientTypeOK /\ LinkTypeOK /\ ServerTypeOK

(* A client's queue, its permanent FIFO having acknowledged a messages.    *)
QueueOf(me, a) ==
  /\ me.base <= a
  /\ me.base + me.lastIdOut = a + Len(me.input_queue)
  /\ \A i \in 1 .. Len(me.input_queue) : me.base + me.input_queue[i] = a + i
  /\ me.current_file_index <= Len(me.input_queue)
  /\ me.current_file # None =>
       /\ me.deinit /\ me.current_file_index >= 1
       /\ me.current_file = me.input_queue[me.current_file_index]
ClientQueues == \A c \in Client : QueueOf(client[c], acked[c])

-----------------------------------------------------------------------------
(* Who holds the ends of a connection: at most one client, and the backlog *)
(* or one slot.                                                            *)
ClientEnd(c) ==
  /\ client[c].state = "NOT_CONNECTED" <=> client[c].link = None
  /\ client[c].link # None =>
       /\ link[client[c].link].clientOpen
       /\ \A d \in Client : client[d].link = client[c].link => d = c
SlotEnd(s) ==
  IF cx[s].link = None THEN cx[s].cx_id = -1 /\ cx[s].file = NoFile
  ELSE /\ link[cx[s].link].serverOpen
       /\ cx[s].cx_id >= 0 /\ cx[s].cx_id < cx_counter
       /\ cx[s].file # NoFile <=> cx[s].state = "WAITING_FILE_END"
       /\ \A t \in Slot : cx[t].link = cx[s].link => t = s
BacklogEnd(i) ==
  /\ link[backlog[i]].serverOpen
  /\ \A s \in Slot : cx[s].link # backlog[i]
  /\ \A j \in 1 .. Len(backlog) : backlog[j] = backlog[i] => j = i
InHand == IF inHand = NoFile THEN {} ELSE {inHand}
Entries == InHand \union {output_queue[i] : i \in 1 .. Len(output_queue)}
Ends ==
  /\ \A c \in Client : ClientEnd(c)
  /\ \A s \in Slot : SlotEnd(s)
  /\ \A i \in 1 .. Len(backlog) : BacklogEnd(i)
  /\ pushing # None => cx[pushing].file # NoFile
  /\ \A k \in Link : ~link[k].serverOpen => link[k].up = <<>>
  /\ \A e \in Entries : e.sender < cx_counter

-----------------------------------------------------------------------------
(* The lines of a connection follow each other as the server expects them, *)
(* up to the next one that the client will send.                           *)
Then(kind) == IF kind = "File" THEN "END" ELSE "File"
Expects(s) ==
  IF pushing = s \/ cx[s].state = "WAITING_FILE_BEGIN" THEN "File"
  ELSE IF cx[s].state = "INIT" THEN "INI" ELSE "END"
Sends(me) ==
  IF me.state = "CONNECTED" /\ me.current_file = None /\ me.deinit THEN "END"
  ELSE "File"
Chained(up, first) ==
  /\ up # <<>> => up[1].kind = first
  /\ \A i \in 1 .. Len(up) - 1 : up[i + 1].kind = Then(up[i].kind)
LastThen(up, first, next) ==
  IF up = <<>> THEN first = next ELSE Then(up[Len(up)].kind) = next
InStep(k, first) ==
  /\ Chained(link[k].up, first)
  /\ \A c \in Client : client[c].link = k =>
       LastThen(link[k].up, first, Sends(client[c]))
Lines ==
  /\ \A s \in Slot : cx[s].link # None => InStep(cx[s].link, Expects(s))
  /\ \A i \in 1 .. Len(backlog) : InStep(backlog[i], "INI")

-----------------------------------------------------------------------------
(* The last message that a client has sent on its connection, or that was  *)
(* acknowledged before.                                                    *)
SentUpTo(me, a) ==
  IF me.state # "CONNECTED" THEN a
  ELSE a + me.current_file_index - (IF me.current_file = None THEN 0 ELSE 1)

(* Files of the same connection; files of the present one of a client.     *)
Same(f, g) == f.source = g.source /\ f.msg - f.id = g.msg - g.id
SentBy(c, f) ==
  /\ f.source = c /\ f.msg = client[c].base + f.id
  /\ f.msg <= SentUpTo(client[c], acked[c])

IsFile(up, i) == i \in 1 .. Len(up) /\ up[i].kind = "File"
(* An entry of the output queue that came by the connection in its slot.   *)
Live(e) == cx[e.slot].cx_id = e.sender

FilesUp(k) ==
  \A i, j \in 1 .. Len(link[k].up) :
    IsFile(link[k].up, i) /\ IsFile(link[k].up, j) =>
      /\ Same(link[k].up[i].file, link[k].up[j].file)
      /\ i < j => link[k].up[i].file.id < link[k].up[j].file.id

(* f, not pushed yet, comes by slot s after the entries and last ack.      *)
After(s, f) ==
  /\ cx[s].ack_file < f.id
  /\ \A e \in Entries : e.slot = s /\ Live(e) => e.file.id < f.id
FilesOfSlot(s) ==
  /\ cx[s].file # NoFile => After(s, cx[s].file)
  /\ cx[s].link # None =>
       \A i \in 1 .. Len(link[cx[s].link].up) : IsFile(link[cx[s].link].up, i) =>
         LET f == link[cx[s].link].up[i].file IN
         /\ After(s, f)
         /\ cx[s].file # NoFile => Same(cx[s].file, f) /\ cx[s].file.id < f.id
FilesQueued ==
  /\ \A e \in Entries : Live(e) => cx[e.slot].ack_file < e.file.id
  /\ \A i, j \in 1 .. Len(output_queue) :
       LET e == output_queue[i]
           f == output_queue[j]
       IN  /\ i < j /\ e.slot = f.slot /\ e.sender = f.sender /\ Live(e) =>
                e.file.id < f.file.id
           /\ inHand # NoFile /\ inHand.slot = f.slot /\ inHand.sender = f.sender
              /\ Live(f) => inHand.file.id < f.file.id
FilesSent(c) ==
  client[c].link # None =>
    /\ \A i \in 1 .. Len(link[client[c].link].up) :
         IsFile(link[client[c].link].up, i) => SentBy(c, link[client[c].link].up[i].file)
    /\ \A s \in Slot : cx[s].link = client[c].link =>
         /\ cx[s].file # NoFile => SentBy(c, cx[s].file)
         /\ \A e \in Entries : e.slot = s /\ Live(e) => SentBy(c, e.file)
         /\ client[c].base + cx[s].ack_file <= SentUpTo(client[c], acked[c])
Files ==
  /\ \A k \in Link : FilesUp(k)
  /\ \A s \in Slot : FilesOfSlot(s)
  /\ FilesQueued
  /\ \A c \in Client : FilesSent(c)

-----------------------------------------------------------------------------
(* Message m of daemon c is dispatched or will be before anything that is  *)
(* queued later; or it comes by connection k.                              *)
QueuedBefore(c, m, n) ==
  \/ m \in processed[c]
  \/ \E i \in 1 .. n : output_queue[i].file.source = c /\ output_queue[i].file.msg = m
Queued(c, m) == QueuedBefore(c, m, Len(output_queue))
Carries(k, c, m) ==
  \/ \E i \in 1 .. Len(link[k].up) :
       /\ IsFile(link[k].up, i)
       /\ link[k].up[i].file.source = c /\ link[k].up[i].file.msg = m
  \/ \E s \in Slot : /\ cx[s].link = k /\ cx[s].file # NoFile
                     /\ cx[s].file.source = c /\ cx[s].file.msg = m
Coming(k, c, n) == \A m \in 1 .. n : Queued(c, m) \/ Carries(k, c, m)

Dispatched(c, n) == 1 .. n \subseteq processed[c]
Order ==
  /\ \A c \in Client : /\ \A m \in processed[c] : Dispatched(c, m)
                       /\ Dispatched(c, acked[c])
  /\ inHand # NoFile => inHand.file.msg \in processed[inHand.file.source]
  /\ \A i \in 1 .. Len(output_queue) : \A m \in 1 .. output_queue[i].file.msg - 1 :
       QueuedBefore(output_queue[i].file.source, m, i - 1)
  /\ \A k \in Link : \A i \in 1 .. Len(link[k].up) : IsFile(link[k].up, i) =>
       Coming(k, link[k].up[i].file.source, link[k].up[i].file.msg - 1)
  /\ \A s \in Slot : cx[s].file # NoFile =>
       \A m \in 1 .. cx[s].file.msg - 1 : Queued(cx[s].file.source, m)
  /\ \A c \in Client : client[c].link # None /\ link[client[c].link].serverOpen =>
       Coming(client[c].link, c, SentUpTo(client[c], acked[c]))
Acks ==
  \A c \in Client : client[c].link # None =>
    /\ \A i \in 1 .. Len(link[client[c].link].down) :
         LET x == link[client[c].link].down[i] IN
         x.kind = "ACK" => Dispatched(c, client[c].base + x.id)
    /\ \A s \in Slot : cx[s].link = client[c].link =>
         Dispatched(c, client[c].base + cx[s].ack_file)

TransportInv == TransportTypeOK /\ ClientQueues /\ Ends /\ Lines /\ Files /\ Order /\ Acks

-----------------------------------------------------------------------------
(* One client, one link, one slot changes.                                 *)
OnlyClient(c) == \A d \in Client \ {c} : client'[d] = client[d]
OnlyLink(k)   == \A j \in Link \ {k} : link'[j] = link[j]
OnlySlot(s)   == \A t \in Slot \ {s} : cx'[t] = cx[t]

(* A client that changes, the others being as they were.                   *)
LEMMA ClientUpdated ==
  ASSUME client \in [Client -> ClientState], NEW c \in Client, NEW me \in ClientState,
         client' = [client EXCEPT ![c] = me]
  PROVE  client' \in [Client -> ClientState] /\ client'[c] = me /\ OnlyClient(c)
BY DEF OnlyClient

(* A link that changes.                                                    *)
LEMMA LinkUpdated ==
  ASSUME link \in [Link -> LinkState], NEW k \in Link, NEW l \in LinkState,
         link' = [link EXCEPT ![k] = l]
  PROVE  link' \in [Link -> LinkState] /\ link'[k] = l /\ OnlyLink(k)
BY DEF OnlyLink

(* A slot that changes.                                                    *)
LEMMA SlotUpdated ==
  ASSUME cx \in [Slot -> SlotState], NEW s \in Slot, NEW slot \in SlotState,
         cx' = [cx EXCEPT ![s] = slot]
  PROVE  cx' \in [Slot -> SlotState] /\ cx'[s] = slot /\ OnlySlot(s)
BY DEF OnlySlot

(* No link, slot or file has the name of nothing.                          *)
LEMMA Nothing ==
  /\ \A k \in Link : k # None
  /\ \A s \in Slot : s # None
  /\ \A f \in File : f # NoFile /\ f.id # None
  /\ \A e \in Entry : e # NoFile
<1>1. \A k \in Link : k # None
  BY TransportAssumption DEF None
<1>2. \A s \in Slot : s # None
  BY TransportAssumption DEF None
<1>3. \A f \in File : f # NoFile /\ f.id # None
  BY DEF File, NoFile, None
<1>4. \A e \in Entry : e # NoFile
  <2>1. DOMAIN NoFile = {"id"}
    BY DEF NoFile
  <2>2. ASSUME NEW e \in Entry PROVE "file" \in DOMAIN e
    BY DEF Entry
  <2> QED BY <2>1, <2>2
<1> QED BY <1>1, <1>2, <1>3, <1>4

(* The kinds of the lines.                                                 *)
LEMMA UpKinds ==
  /\ INI \in Up /\ INI.kind = "INI" /\ END \in Up /\ END.kind = "END"
  /\ \A f \in File : FileSent(f) \in Up /\ FileSent(f).kind = "File" /\ FileSent(f).file = f
  /\ \A x \in Up : /\ x.kind \in {"INI", "END", "File"}
                   /\ x.kind = "File" => x.file \in File
BY DEF Up, INI, END, FileSent

(* The lines from the server are READY or an ACK with its number.          *)
LEMMA DownKinds ==
  /\ READY \in Down /\ READY.kind = "READY"
  /\ \A n \in Nat : ACK(n) \in Down /\ ACK(n).kind = "ACK" /\ ACK(n).id = n
  /\ \A x \in Down : x.kind = "ACK" => x.id \in Nat
BY DEF Down, READY, ACK

(* What the ends of a connection do to it.                                 *)
LEMMA LinkFields ==
  ASSUME NEW l \in LinkState
  PROVE  /\ l.up \in Seq(Up) /\ l.down \in Seq(Down)
         /\ l.clientOpen \in BOOLEAN /\ l.serverOpen \in BOOLEAN
BY DEF LinkState

(* A free link is empty and open to nobody.                                *)
LEMMA FreeLinkFields ==
  FreeLink \in LinkState /\ FreeLink.up = <<>> /\ FreeLink.down = <<>>
  /\ ~FreeLink.clientOpen /\ ~FreeLink.serverOpen
<1>1. <<>> \in Seq(Up) /\ <<>> \in Seq(Down)
  OBVIOUS
<1> QED BY <1>1 DEF FreeLink, LinkState

(* A line is added unless the server has closed; the rest stays.           *)
LEMMA SendUpFields ==
  ASSUME NEW l \in LinkState, NEW x \in Up
  PROVE  /\ SendUp(l, x) \in LinkState
         /\ SendUp(l, x).up = IF l.serverOpen THEN Append(l.up, x) ELSE l.up
         /\ SendUp(l, x).down = l.down
         /\ SendUp(l, x).clientOpen = l.clientOpen
         /\ SendUp(l, x).serverOpen = l.serverOpen
<1> DEFINE a == Append(l.up, x)
<1>1. a \in Seq(Up)
  BY LinkFields, AppendProperties
<1> HIDE DEF a
<1>2. ASSUME NEW u \in Seq(Up)
      PROVE  LET m == [l EXCEPT !.up = u]
             IN  /\ m \in LinkState /\ m.up = u /\ m.down = l.down
                 /\ m.clientOpen = l.clientOpen /\ m.serverOpen = l.serverOpen
  BY DEF LinkState
<1>3. CASE l.serverOpen
  <2> DEFINE m == [l EXCEPT !.up = a]
  <2>1. SendUp(l, x) = m
    BY <1>3 DEF SendUp, a
  <2>2. /\ m \in LinkState /\ m.up = a /\ m.down = l.down
        /\ m.clientOpen = l.clientOpen /\ m.serverOpen = l.serverOpen
    BY <1>1, <1>2
  <2> HIDE DEF m
  <2>3. /\ SendUp(l, x) \in LinkState /\ SendUp(l, x).up = a
        /\ SendUp(l, x).down = l.down
        /\ SendUp(l, x).clientOpen = l.clientOpen /\ SendUp(l, x).serverOpen = l.serverOpen
    BY <2>1, <2>2
  <2> QED BY <1>3, <2>3 DEF a
<1>4. CASE ~l.serverOpen
  <2>1. SendUp(l, x) = l
    BY <1>4 DEF SendUp
  <2> QED BY <1>4, <2>1
<1> QED BY <1>3, <1>4

(* A line is added unless the client has closed; the rest stays.           *)
LEMMA SendDownFields ==
  ASSUME NEW l \in LinkState, NEW x \in Down
  PROVE  /\ SendDown(l, x) \in LinkState
         /\ SendDown(l, x).down = IF l.clientOpen THEN Append(l.down, x) ELSE l.down
         /\ SendDown(l, x).up = l.up
         /\ SendDown(l, x).clientOpen = l.clientOpen
         /\ SendDown(l, x).serverOpen = l.serverOpen
<1> DEFINE a == Append(l.down, x)
<1>1. a \in Seq(Down)
  BY LinkFields, AppendProperties
<1> HIDE DEF a
<1>2. ASSUME NEW u \in Seq(Down)
      PROVE  LET m == [l EXCEPT !.down = u]
             IN  /\ m \in LinkState /\ m.down = u /\ m.up = l.up
                 /\ m.clientOpen = l.clientOpen /\ m.serverOpen = l.serverOpen
  BY DEF LinkState
<1>3. CASE l.clientOpen
  <2> DEFINE m == [l EXCEPT !.down = a]
  <2>1. SendDown(l, x) = m
    BY <1>3 DEF SendDown, a
  <2>2. /\ m \in LinkState /\ m.down = a /\ m.up = l.up
        /\ m.clientOpen = l.clientOpen /\ m.serverOpen = l.serverOpen
    BY <1>1, <1>2
  <2> HIDE DEF m
  <2>3. /\ SendDown(l, x) \in LinkState /\ SendDown(l, x).down = a
        /\ SendDown(l, x).up = l.up
        /\ SendDown(l, x).clientOpen = l.clientOpen /\ SendDown(l, x).serverOpen = l.serverOpen
    BY <2>1, <2>2
  <2> QED BY <1>3, <2>3 DEF a
<1>4. CASE ~l.clientOpen
  <2>1. SendDown(l, x) = l
    BY <1>4 DEF SendDown
  <2> QED BY <1>4, <2>1
<1> QED BY <1>3, <1>4

(* up of one is a beginning of up of the other.                            *)
Beginning(u, up) ==
  Len(u) <= Len(up) /\ \A i \in 1 .. Len(u) : u[i] = up[i]

(* A client that closes leaves a beginning of what it sent.                *)
LEMMA ClientClosesFields ==
  ASSUME NEW l \in LinkState, NEW n \in 0 .. Len(l.up)
  PROVE  LET m == ClientCloses(l, n)
         IN  /\ m \in LinkState /\ Beginning(m.up, l.up)
             /\ ~m.clientOpen /\ m.serverOpen = l.serverOpen
             /\ ~l.serverOpen => m.up = <<>>
<1>1. l.up \in Seq(Up) /\ Len(l.up) \in Nat
  BY LinkFields
<1> DEFINE u == SubSeq(l.up, 1, n)
<1>2. u \in Seq(Up) /\ Len(u) = n /\ \A i \in 1 .. n : u[i] = l.up[i]
  BY <1>1
<1>3. Beginning(u, l.up)
  BY <1>1, <1>2 DEF Beginning
<1>4. Beginning(<<>>, l.up)
  BY <1>1 DEF Beginning
<1> HIDE DEF u
<1>5. CASE l.serverOpen
  <2> DEFINE m == [l EXCEPT !.clientOpen = FALSE, !.up = u, !.down = <<>>]
  <2>1. <<>> \in Seq(Down)
    OBVIOUS
  <2>2. ASSUME NEW d \in Seq(Down)
        PROVE  LET x == [l EXCEPT !.clientOpen = FALSE, !.up = u, !.down = d]
               IN  x \in LinkState /\ x.up = u /\ ~x.clientOpen /\ x.serverOpen = l.serverOpen
    BY <1>2 DEF LinkState
  <2>3. m \in LinkState /\ m.up = u /\ ~m.clientOpen /\ m.serverOpen = l.serverOpen
    BY <2>1, <2>2
  <2>4. ClientCloses(l, n) = m
    BY <1>5 DEF ClientCloses, u
  <2> HIDE DEF m
  <2> QED BY <1>3, <1>5, <2>3, <2>4
<1>6. CASE ~l.serverOpen
  <2>1. ClientCloses(l, n) = FreeLink
    BY <1>6 DEF ClientCloses
  <2>2. l.serverOpen = FALSE /\ FreeLink.serverOpen = FALSE
    BY <1>6, LinkFields, FreeLinkFields
  <2> QED BY <1>4, <1>6, <2>1, <2>2, FreeLinkFields
<1> QED BY <1>5, <1>6

(* A server that closes leaves nothing of what was sent to it.             *)
LEMMA ServerClosesFields ==
  ASSUME NEW l \in LinkState
  PROVE  LET m == ServerCloses(l)
         IN  /\ m \in LinkState /\ m.up = <<>> /\ ~m.serverOpen
             /\ l.clientOpen => m.clientOpen /\ m.down = l.down
<1>1. CASE l.clientOpen
  <2>1. <<>> \in Seq(Up)
    OBVIOUS
  <2>2. ASSUME NEW u \in Seq(Up)
        PROVE  LET x == [l EXCEPT !.serverOpen = FALSE, !.up = u]
               IN  x \in LinkState /\ x.up = u /\ ~x.serverOpen
                   /\ x.clientOpen = l.clientOpen /\ x.down = l.down
    BY DEF LinkState
  <2>3. ServerCloses(l) = [l EXCEPT !.serverOpen = FALSE, !.up = <<>>]
    BY <1>1 DEF ServerCloses
  <2> DEFINE m == [l EXCEPT !.serverOpen = FALSE, !.up = <<>>]
  <2>4. /\ m \in LinkState /\ m.up = <<>> /\ ~m.serverOpen
        /\ m.clientOpen = l.clientOpen /\ m.down = l.down
    BY <2>1, <2>2
  <2> HIDE DEF m
  <2> QED BY <1>1, <2>3, <2>4 DEF m
<1>2. CASE ~l.clientOpen
  <2>1. ServerCloses(l) = FreeLink
    BY <1>2 DEF ServerCloses
  <2> QED BY <1>2, <2>1, FreeLinkFields
<1> QED BY <1>1, <1>2

-----------------------------------------------------------------------------
(* The lines on their way up, when one is read, one is added, or some are  *)
(* lost.                                                                   *)
LEMMA TailLines ==
  ASSUME NEW up \in Seq(Up), up # <<>>
  PROVE  /\ Tail(up) \in Seq(Up) /\ Len(up) \in Nat /\ Len(Tail(up)) = Len(up) - 1
         /\ Head(up) = up[1] /\ up[1] \in Up /\ 1 \in 1 .. Len(up)
         /\ \A i \in 1 .. Len(Tail(up)) :
              i + 1 \in 2 .. Len(up) /\ Tail(up)[i] = up[i + 1]
BY HeadTailProperties

(* The files after the first line are one place further in the line.       *)
LEMMA TailFiles ==
  ASSUME NEW up \in Seq(Up), up # <<>>
  PROVE  \A i : IsFile(Tail(up), i) =>
           /\ i \in 1 .. Len(Tail(up)) /\ i + 1 \in 2 .. Len(up)
           /\ IsFile(up, i + 1) /\ Tail(up)[i].file = up[i + 1].file
<1>1. /\ Len(up) \in Nat
      /\ \A i \in 1 .. Len(Tail(up)) :
              i + 1 \in 2 .. Len(up) /\ Tail(up)[i] = up[i + 1]
  BY TailLines
<1>2. \A i \in 1 .. Len(Tail(up)) : i + 1 \in 1 .. Len(up)
  BY <1>1
<1> QED BY <1>1, <1>2 DEF IsFile

(* With one more line, the earlier ones are in place.                      *)
LEMMA AppendLines ==
  ASSUME NEW up \in Seq(Up), NEW x \in Up
  PROVE  /\ Append(up, x) \in Seq(Up) /\ Len(up) \in Nat
         /\ Len(Append(up, x)) = Len(up) + 1 /\ Append(up, x) # <<>>
         /\ \A i \in 1 .. Len(up) : i \in 1 .. Len(Append(up, x)) /\ Append(up, x)[i] = up[i]
         /\ Append(up, x)[Len(up) + 1] = x
         /\ \A i \in 1 .. Len(Append(up, x)) : i \in 1 .. Len(up) \/ i = Len(up) + 1
BY AppendProperties

(* With one more line, a file is one there was, or the new line.           *)
LEMMA AppendFiles ==
  ASSUME NEW up \in Seq(Up), NEW x \in Up
  PROVE  \A i : IsFile(Append(up, x), i) =>
           \/ /\ i \in 1 .. Len(up) /\ IsFile(up, i)
              /\ Append(up, x)[i].file = up[i].file
           \/ /\ i = Len(up) + 1 /\ x.kind = "File" /\ Append(up, x)[i].file = x.file
BY AppendLines DEF IsFile

(* The files of a beginning are files of the whole.                        *)
LEMMA BeginningFiles ==
  ASSUME NEW up \in Seq(Up), NEW u \in Seq(Up), Beginning(u, up)
  PROVE  \A i : IsFile(u, i) => IsFile(up, i) /\ u[i].file = up[i].file
BY DEF IsFile, Beginning

(* Files of a link are files.                                              *)
LEMMA FilesAreFiles ==
  ASSUME NEW up \in Seq(Up), NEW i, IsFile(up, i)
  PROVE  up[i].file \in File /\ i \in 1 .. Len(up) /\ i \in Nat
<1>1. up[i] \in Up /\ i \in 1 .. Len(up)
  BY DEF IsFile
<1> QED BY <1>1, UpKinds DEF IsFile

(* When the line expected is read, those left follow what comes after it.  *)
LEMMA ChainedTail ==
  ASSUME NEW up \in Seq(Up), up # <<>>, NEW first, Chained(up, first)
  PROVE  /\ up[1].kind = first /\ Chained(Tail(up), Then(first))
         /\ \A next : LastThen(up, first, next) => LastThen(Tail(up), Then(first), next)
<1> DEFINE r == Tail(up)
<1>1. /\ Len(up) \in Nat /\ r \in Seq(Up) /\ Len(r) = Len(up) - 1
      /\ \A i \in 1 .. Len(r) : i + 1 \in 2 .. Len(up) /\ r[i] = up[i + 1]
  BY TailLines
<1> HIDE DEF r
<1>2. up[1].kind = first
  BY DEF Chained
<1>3. r # <<>> => 1 \in 1 .. Len(r) /\ r[1] = up[2] /\ 1 \in 1 .. Len(up) - 1
  BY <1>1
<1>4. r # <<>> => r[1].kind = Then(first)
  BY <1>2, <1>3 DEF Chained
<1>5. \A i \in 1 .. Len(r) - 1 : r[i + 1].kind = Then(r[i].kind)
  <2> TAKE i \in 1 .. Len(r) - 1
  <2>1. /\ i \in 1 .. Len(r) /\ i + 1 \in 1 .. Len(r) /\ i + 1 \in 1 .. Len(up) - 1
    BY <1>1
  <2>2. r[i] = up[i + 1] /\ r[i + 1] = up[i + 1 + 1]
    BY <1>1, <2>1
  <2> QED BY <2>1, <2>2 DEF Chained
<1>6. ASSUME NEW next, LastThen(up, first, next)
      PROVE  LastThen(r, Then(first), next)
  <2>1. Then(up[Len(up)].kind) = next
    BY <1>6 DEF LastThen
  <2>2. CASE r = <<>>
    <3>1. Len(up) = 1
      BY <1>1, <2>2
    <3> QED BY <1>2, <2>1, <2>2, <3>1 DEF LastThen
  <2>3. CASE r # <<>>
    <3>1. Len(r) \in 1 .. Len(r) /\ r[Len(r)] = up[Len(up)]
      BY <1>1, <2>3
    <3> QED BY <2>1, <2>3, <3>1 DEF LastThen
  <2> QED BY <2>2, <2>3
<1> QED BY <1>2, <1>4, <1>5, <1>6 DEF Chained, r

(* The line that the client is to send follows the others.                 *)
LEMMA ChainedAppend ==
  ASSUME NEW up \in Seq(Up), NEW x \in Up, NEW first, Chained(up, first),
         LastThen(up, first, x.kind)
  PROVE  /\ Chained(Append(up, x), first)
         /\ LastThen(Append(up, x), first, Then(x.kind))
<1> DEFINE a == Append(up, x)
<1>1. /\ Len(up) \in Nat /\ Len(a) = Len(up) + 1 /\ a # <<>>
      /\ \A i \in 1 .. Len(up) : a[i] = up[i]
      /\ a[Len(up) + 1] = x
  BY AppendLines
<1> HIDE DEF a
<1>2. a[1].kind = first
  <2>1. CASE up = <<>>
    <3>1. Len(up) + 1 = 1
      BY <2>1
    <3> QED BY <1>1, <2>1, <3>1 DEF LastThen
  <2>2. CASE up # <<>>
    <3>1. 1 \in 1 .. Len(up)
      BY <1>1, <2>2
    <3> QED BY <1>1, <2>2, <3>1 DEF Chained
  <2> QED BY <2>1, <2>2
<1>3. ASSUME NEW i \in 1 .. Len(a) - 1 PROVE a[i + 1].kind = Then(a[i].kind)
  <2>1. CASE i = Len(up)
    <3>1. up # <<>> /\ i \in 1 .. Len(up)
      BY <1>1, <2>1
    <3> QED BY <1>1, <2>1, <3>1 DEF LastThen
  <2>2. CASE i # Len(up)
    <3>1. i \in 1 .. Len(up) - 1 /\ i \in 1 .. Len(up) /\ i + 1 \in 1 .. Len(up)
      BY <1>1, <2>2
    <3> QED BY <1>1, <3>1 DEF Chained
  <2> QED BY <2>1, <2>2
<1>4. LastThen(a, first, Then(x.kind))
  BY <1>1 DEF LastThen
<1> QED BY <1>2, <1>3, <1>4 DEF Chained, a

(* A beginning of lines in step is in step.                                *)
LEMMA ChainedBeginning ==
  ASSUME NEW up \in Seq(Up), NEW u \in Seq(Up), NEW first, Chained(up, first),
         Beginning(u, up)
  PROVE  Chained(u, first)
<1>1. Len(u) \in Nat /\ Len(up) \in Nat /\ Len(u) <= Len(up)
  BY DEF Beginning
<1>2. u # <<>> => 1 \in 1 .. Len(u) /\ up # <<>>
  BY <1>1
<1>3. \A i \in 1 .. Len(u) - 1 :
        i \in 1 .. Len(u) /\ i + 1 \in 1 .. Len(u) /\ i \in 1 .. Len(up) - 1
  BY <1>1
<1> QED BY <1>2, <1>3 DEF Chained, Beginning

-----------------------------------------------------------------------------
(* Fields, with their types.                                               *)
LEMMA ClientFields ==
  ASSUME ClientTypeOK, NEW c \in Client
  PROVE  /\ client[c] \in ClientState /\ acked[c] \in Nat /\ written[c] \in Nat
         /\ client[c].state \in {"NOT_CONNECTED", "OPEN_CLIENT", "CONNECTED"}
         /\ client[c].link \in Link \union {None}
         /\ client[c].input_queue \in Seq(Nat) /\ Len(client[c].input_queue) \in Nat
         /\ client[c].current_file_index \in Nat /\ client[c].current_file \in Nat
         /\ client[c].deinit \in BOOLEAN
         /\ client[c].base \in Nat /\ client[c].lastIdOut \in Nat
         /\ SentUpTo(client[c], acked[c]) \in Int
<1>1. client[c] \in ClientState /\ acked[c] \in Nat /\ written[c] \in Nat
  BY DEF ClientTypeOK
<1>2. /\ client[c].state \in {"NOT_CONNECTED", "OPEN_CLIENT", "CONNECTED"}
      /\ client[c].link \in Link \union {None}
      /\ client[c].input_queue \in Seq(Nat)
      /\ client[c].current_file_index \in Nat /\ client[c].current_file \in Nat
      /\ client[c].deinit \in BOOLEAN
      /\ client[c].base \in Nat /\ client[c].lastIdOut \in Nat
  BY <1>1 DEF ClientState
<1>3. SentUpTo(client[c], acked[c]) \in Int
  BY <1>1, <1>2 DEF SentUpTo
<1> QED BY <1>1, <1>2, <1>3

(* The fields of a link.                                                   *)
LEMMA LinkTypes ==
  ASSUME LinkTypeOK, NEW k \in Link
  PROVE  /\ link[k] \in LinkState /\ link[k].up \in Seq(Up) /\ link[k].down \in Seq(Down)
         /\ link[k].clientOpen \in BOOLEAN /\ link[k].serverOpen \in BOOLEAN
         /\ Len(link[k].up) \in Nat
<1>1. link[k] \in LinkState
  BY DEF LinkTypeOK
<1> QED BY <1>1, LinkFields

(* The backlog holds links.                                                *)
LEMMA BacklogTypes ==
  ASSUME LinkTypeOK
  PROVE  \A i \in 1 .. Len(backlog) : backlog[i] \in Link /\ backlog[i] # None
<1>1. backlog \in Seq(Link)
  BY DEF LinkTypeOK
<1> QED BY <1>1, Nothing

(* The fields of a slot.                                                   *)
LEMMA SlotFields ==
  ASSUME ServerTypeOK, NEW s \in Slot
  PROVE  /\ cx[s] \in SlotState /\ cx[s].link \in Link \union {None} /\ cx[s].cx_id \in Int
         /\ cx[s].state \in {"INIT", "WAITING_FILE_BEGIN", "WAITING_FILE_END"}
         /\ cx[s].file \in File \union {NoFile} /\ cx[s].ack_file \in Nat
         /\ cx[s].non_acknowledged \in Nat
<1>1. cx[s] \in SlotState
  BY DEF ServerTypeOK
<1> QED BY <1>1 DEF SlotState

(* The fields of a file.                                                   *)
LEMMA FileFields ==
  ASSUME NEW f \in File
  PROVE  /\ f.source \in Client /\ f.id \in Nat \ {0} /\ f.msg \in Nat \ {0}
         /\ f.id \in Nat /\ f.msg \in Nat /\ f.msg - 1 \in Nat
BY DEF File

(* The entries of the output queue and the file in hand.                   *)
LEMMA EntryTypes ==
  ASSUME ServerTypeOK
  PROVE  /\ \A e \in Entries : /\ e \in Entry /\ e.file \in File /\ e.slot \in Slot
                               /\ e.sender \in Nat
         /\ Len(output_queue) \in Nat
         /\ \A i \in 1 .. Len(output_queue) :
              output_queue[i] \in Entry /\ output_queue[i] \in Entries
         /\ inHand # NoFile => inHand \in Entries
<1>1. output_queue \in Seq(Entry) /\ inHand \in Entry \union {NoFile}
  BY DEF ServerTypeOK
<1>2. Len(output_queue) \in Nat /\ \A i \in 1 .. Len(output_queue) : output_queue[i] \in Entry
  BY <1>1
<1>3. \A e \in Entries : e \in Entry
  BY <1>1, <1>2 DEF Entries, InHand
<1>4. \A e \in Entry : e.file \in File /\ e.slot \in Slot /\ e.sender \in Nat
  BY DEF Entry
<1>5. inHand # NoFile => inHand \in Entries
  BY DEF Entries, InHand
<1>6. \A i \in 1 .. Len(output_queue) : output_queue[i] \in Entries
  BY DEF Entries
<1> QED BY <1>2, <1>3, <1>4, <1>5, <1>6

-----------------------------------------------------------------------------
(* Connections end, with what was on their way: clients and slots lose     *)
(* their connections, and the server may lose all that it has.             *)
Cut ==
  /\ acked' = acked /\ processed' = processed
  /\ \A c \in Client :
       \/ client'[c] = client[c]
       \/ /\ client'[c].link = None /\ client'[c].state = "NOT_CONNECTED"
          /\ QueueOf(client'[c], acked[c])
  /\ \A s \in Slot :
       \/ cx'[s] = cx[s]
       \/ /\ cx'[s].link = None /\ cx'[s].cx_id = -1 /\ cx'[s].file = NoFile
          /\ cx[s].link # None => ~link'[cx[s].link].serverOpen
  /\ \A k \in Link :
       /\ Beginning(link'[k].up, link[k].up)
       /\ ~link'[k].serverOpen => link'[k].up = <<>>
       /\ \A c \in Client : client'[c].link = k =>
            /\ link'[k].clientOpen /\ link'[k].down = link[k].down
            /\ link'[k].serverOpen => link[k].serverOpen /\ link'[k].up = link[k].up
  /\ \A s \in Slot : cx'[s].link # None =>
       /\ link'[cx'[s].link].serverOpen
       /\ pushing' = s <=> pushing = s
  /\ \E d \in {0, 1} : \A i \in 1 .. Len(backlog') :
       /\ i + d \in 1 .. Len(backlog) /\ backlog'[i] = backlog[i + d]
       /\ link'[backlog'[i]].serverOpen
  /\ pushing' # None => cx'[pushing'] = cx[pushing'] /\ pushing' = pushing
  /\ \/ UNCHANGED <<output_queue, inHand, cx_counter>>
     \/ /\ output_queue' = <<>> /\ inHand' = NoFile
        /\ \A s \in Slot : cx'[s].link = None
        /\ \A k \in Link : ~link'[k].serverOpen

(* A cut keeps the entries, or a restart of the server loses all.          *)
LEMMA CutEntries ==
  ASSUME Cut
  PROVE  /\ \/ Entries' = Entries /\ UNCHANGED <<output_queue, inHand, cx_counter>>
            \/ Entries' = {} /\ output_queue' = <<>> /\ inHand' = NoFile
         /\ \A e \in Entries' : e \in Entries
<1>1. CASE UNCHANGED <<output_queue, inHand, cx_counter>>
  BY <1>1 DEF Entries, InHand
<1>2. CASE output_queue' = <<>> /\ inHand' = NoFile
  <2>1. 1 .. Len(<<>>) = {}
    OBVIOUS
  <2> QED BY <1>2, <2>1 DEF Entries, InHand
<1> QED BY <1>1, <1>2 DEF Cut

(* After a cut, each end is held by at most one client, slot or place.     *)
LEMMA CutKeepsEnds ==
  ASSUME TransportInv, TransportTypeOK', Cut
  PROVE  ClientQueues' /\ Ends'
<1>1. ClientQueues'
  BY DEF Cut, TransportInv, ClientQueues
<1>t. ClientTypeOK /\ LinkTypeOK /\ ServerTypeOK /\ LinkTypeOK' /\ ServerTypeOK' /\ ClientTypeOK'
  BY DEF TransportInv, TransportTypeOK
<1>2. ASSUME NEW c \in Client PROVE ClientEnd(c)'
  <2>1. ClientEnd(c)
    BY DEF TransportInv, Ends
  <2>2. CASE client'[c].link = None
    <3>1. client'[c].state = "NOT_CONNECTED"
      BY <2>1, <2>2 DEF Cut, ClientEnd
    <3> QED BY <2>2, <3>1 DEF ClientEnd
  <2>3. CASE client'[c].link # None
    <3>1. client'[c] = client[c] /\ client'[c].link \in Link
      BY <1>t, <2>3, ClientFields DEF Cut
    <3>2. ASSUME NEW d \in Client, client'[d].link = client'[c].link PROVE d = c
      BY <2>1, <2>3, <3>1, <3>2 DEF Cut, ClientEnd
    <3>3. link'[client'[c].link].clientOpen
      BY <3>1 DEF Cut
    <3> QED BY <2>1, <2>3, <3>1, <3>2, <3>3 DEF ClientEnd
  <2> QED BY <2>2, <2>3
<1>3. ASSUME NEW s \in Slot PROVE SlotEnd(s)'
  <2>1. SlotEnd(s)
    BY DEF TransportInv, Ends
  <2>2. CASE cx'[s].link = None
    BY <2>1, <2>2 DEF Cut, SlotEnd
  <2>3. CASE cx'[s].link # None
    <3>1. cx'[s] = cx[s] /\ link'[cx'[s].link].serverOpen /\ cx_counter' = cx_counter
      BY <2>3 DEF Cut
    <3>2. ASSUME NEW t \in Slot, cx'[t].link = cx'[s].link PROVE t = s
      BY <2>1, <2>3, <3>1, <3>2 DEF Cut, SlotEnd
    <3> QED BY <2>1, <2>3, <3>1, <3>2 DEF SlotEnd
  <2> QED BY <2>2, <2>3
<1>4. ASSUME NEW i \in 1 .. Len(backlog') PROVE BacklogEnd(i)'
  <2>1. PICK d \in {0, 1} : \A j \in 1 .. Len(backlog') :
          /\ j + d \in 1 .. Len(backlog) /\ backlog'[j] = backlog[j + d]
          /\ link'[backlog'[j]].serverOpen
    BY DEF Cut
  <2>2. BacklogEnd(i + d) /\ i \in Nat
    BY <2>1 DEF TransportInv, Ends
  <2>3. ASSUME NEW s \in Slot PROVE cx'[s].link # backlog'[i]
    <3>1. backlog'[i] # None
      <4>1. backlog' \in Seq(Link)
        BY <1>t DEF LinkTypeOK
      <4> QED BY <4>1, Nothing
    <3> QED BY <2>1, <2>2, <3>1 DEF Cut, BacklogEnd
  <2>4. ASSUME NEW j \in 1 .. Len(backlog'), backlog'[j] = backlog'[i] PROVE j = i
    <3>1. j + d = i + d
      BY <2>1, <2>2, <2>4 DEF BacklogEnd
    <3> QED BY <2>1, <3>1
  <2> QED BY <2>1, <2>3, <2>4 DEF BacklogEnd
<1>5. pushing' # None => cx'[pushing'].file # NoFile
  BY DEF Cut, TransportInv, Ends
<1>6. \A k \in Link : ~link'[k].serverOpen => link'[k].up = <<>>
  BY DEF Cut
<1>7. \A e \in Entries' : e.sender < cx_counter'
  BY CutEntries DEF TransportInv, Ends
<1> QED BY <1>1, <1>2, <1>3, <1>4, <1>5, <1>6, <1>7 DEF Ends

(* What a cut leaves is in step: a beginning, and no client to go on.      *)
LEMMA CutKeepsLines ==
  ASSUME TransportInv, TransportTypeOK', Cut
  PROVE  Lines'
<1>t. ClientTypeOK /\ LinkTypeOK /\ ServerTypeOK /\ LinkTypeOK' /\ ServerTypeOK'
  BY DEF TransportInv, TransportTypeOK
<1>1. ASSUME NEW k \in Link, NEW first, InStep(k, first), link'[k].serverOpen
      PROVE  InStep(k, first)'
  <2>1. Chained(link'[k].up, first)
    <3>1. link[k].up \in Seq(Up) /\ link'[k].up \in Seq(Up)
      <4>1. link[k] \in LinkState /\ link'[k] \in LinkState
        BY <1>t DEF LinkTypeOK
      <4> QED BY <4>1, LinkFields
    <3> QED BY <1>1, <3>1, ChainedBeginning DEF Cut, InStep
  <2>2. ASSUME NEW c \in Client, client'[c].link = k
        PROVE  LastThen(link'[k].up, first, Sends(client'[c]))
    <3>1. client'[c] = client[c] /\ link'[k].up = link[k].up
      BY <1>1, <2>2, Nothing DEF Cut
    <3> QED BY <1>1, <2>2, <3>1 DEF InStep
  <2> QED BY <2>1, <2>2 DEF InStep
<1>2. ASSUME NEW s \in Slot, cx'[s].link # None PROVE InStep(cx[s].link, Expects(s))'
  <2>1. cx'[s] = cx[s] /\ cx[s].link \in Link /\ link'[cx[s].link].serverOpen
        /\ Expects(s)' = Expects(s)
    BY <1>2, <1>t, SlotFields DEF Cut, Expects
  <2>2. InStep(cx[s].link, Expects(s))
    BY <1>2, <2>1 DEF TransportInv, Lines
  <2> DEFINE k == cx[s].link
             first == Expects(s)
  <2>3. (InStep(k, first))'
    BY <2>1, <2>2, <1>1 DEF InStep
  <2> QED BY <2>1, <2>3
<1>3. ASSUME NEW i \in 1 .. Len(backlog') PROVE InStep(backlog[i], "INI")'
  <2>1. PICK d \in {0, 1} : \A j \in 1 .. Len(backlog') :
          /\ j + d \in 1 .. Len(backlog) /\ backlog'[j] = backlog[j + d]
          /\ link'[backlog'[j]].serverOpen
    BY DEF Cut
  <2>2. InStep(backlog[i + d], "INI") /\ backlog[i + d] \in Link
    <3>1. i + d \in 1 .. Len(backlog)
      BY <2>1
    <3> QED BY <1>t, <3>1, BacklogTypes DEF TransportInv, Lines
  <2> QED BY <1>1, <2>1, <2>2 DEF InStep
<1> QED BY <1>2, <1>3 DEF Lines

(* A slot or client that has a connection after a cut had it before.       *)
LEMMA CutSlots ==
  ASSUME Cut, NEW s \in Slot, cx'[s].link # None \/ cx'[s].file # NoFile \/ cx'[s].cx_id # -1
  PROVE  cx'[s] = cx[s]
BY DEF Cut

(* A client that still has a connection was not touched by the cut.        *)
LEMMA CutClients ==
  ASSUME Cut, NEW c \in Client, client'[c].link # None
  PROVE  client'[c] = client[c] /\ acked'[c] = acked[c]
BY DEF Cut

(* Files on their way after a cut were on their way before.                *)
LEMMA CutFiles ==
  ASSUME LinkTypeOK, LinkTypeOK', Cut, NEW k \in Link, NEW i, IsFile(link'[k].up, i)
  PROVE  IsFile(link[k].up, i) /\ link'[k].up[i].file = link[k].up[i].file
         /\ link'[k].serverOpen
<1>1. link[k].up \in Seq(Up) /\ link'[k].up \in Seq(Up)
  <2>1. link[k] \in LinkState /\ link'[k] \in LinkState
    BY DEF LinkTypeOK
  <2> QED BY <2>1, LinkFields
<1>2. link'[k].serverOpen
  BY DEF Cut, IsFile
<1> QED BY <1>1, <1>2, BeginningFiles DEF Cut

(* A file on its way to slot s comes after all that came by s before.      *)
LEMMA SlotFile ==
  ASSUME NEW s \in Slot, FilesOfSlot(s), NEW k, k = cx[s].link, k # None,
         NEW i, IsFile(link[k].up, i)
  PROVE  /\ After(s, link[k].up[i].file)
         /\ cx[s].file # NoFile => /\ Same(cx[s].file, link[k].up[i].file)
                                   /\ cx[s].file.id < link[k].up[i].file.id
<1>1. i \in 1 .. Len(link[cx[s].link].up) /\ IsFile(link[cx[s].link].up, i)
  BY DEF IsFile
<1> QED BY <1>1 DEF FilesOfSlot

(* A cut leaves the numbers of the files in order.                         *)
LEMMA CutKeepsFiles ==
  ASSUME TransportInv, TransportTypeOK', Cut
  PROVE  Files'
<1>t. ClientTypeOK /\ LinkTypeOK /\ ServerTypeOK /\ LinkTypeOK' /\ ServerTypeOK' /\ ClientTypeOK'
  BY DEF TransportInv, TransportTypeOK
<1>f. /\ \A k \in Link : FilesUp(k)
      /\ \A s \in Slot : FilesOfSlot(s)
      /\ FilesQueued
      /\ \A c \in Client : FilesSent(c)
  BY DEF TransportInv, Files
<1>l. ASSUME NEW e \in Entries', Live(e)'
      PROVE  e \in Entries /\ Live(e) /\ cx'[e.slot] = cx[e.slot] /\ e.slot \in Slot
  <2>1. e \in Entries
    BY CutEntries
  <2>2. e.slot \in Slot /\ e.sender \in Nat
    BY <2>1, <1>t, EntryTypes
  <2>3. cx'[e.slot] = cx[e.slot]
    <3>1. cx'[e.slot].cx_id # -1
      BY <1>l, <2>2 DEF Live
    <3> QED BY <3>1, <2>2, CutSlots
  <2> QED BY <1>l, <2>1, <2>2, <2>3 DEF Live
<1>1. ASSUME NEW k \in Link PROVE FilesUp(k)'
  BY <1>f, <1>t, CutFiles DEF FilesUp, IsFile, Cut, Beginning
<1>2. ASSUME NEW s \in Slot PROVE FilesOfSlot(s)'
  <2>1. FilesOfSlot(s)
    BY <1>f
  <2>2. cx'[s].file # NoFile => After(s, cx[s].file)'
    <3> HAVE cx'[s].file # NoFile
    <3>1. cx'[s] = cx[s]
      BY CutSlots
    <3>2. After(s, cx[s].file)
      BY <2>1, <3>1 DEF FilesOfSlot
    <3> QED BY <3>1, <3>2, <1>l DEF After
  <2>3. ASSUME cx'[s].link # None, NEW i \in 1 .. Len(link'[cx'[s].link].up),
               IsFile(link'[cx'[s].link].up, i)
        PROVE  (LET f == link[cx[s].link].up[i].file IN
                /\ After(s, f)
                /\ cx[s].file # NoFile => Same(cx[s].file, f) /\ cx[s].file.id < f.id)'
    <3>1. cx'[s] = cx[s] /\ cx[s].link \in Link
      BY <2>3, <1>t, CutSlots, SlotFields
    <3> DEFINE k == cx[s].link
    <3>2. IsFile(link[k].up, i) /\ link'[k].up[i].file = link[k].up[i].file
      <4>1. k \in Link /\ IsFile(link'[k].up, i)
        BY <2>3, <3>1
      <4> HIDE DEF k
      <4> QED BY <4>1, <1>t, CutFiles
    <3>3. k # None
      BY <2>3, <3>1
    <3>4. /\ After(s, link[k].up[i].file)
          /\ cx[s].file # NoFile => /\ Same(cx[s].file, link[k].up[i].file)
                                    /\ cx[s].file.id < link[k].up[i].file.id
      BY <2>1, <3>2, <3>3, SlotFile
    <3>5. After(s, link[cx[s].link].up[i].file)'
      BY <3>1, <3>2, <3>4, <1>l DEF After
    <3> QED BY <3>1, <3>2, <3>4, <3>5
  <2> QED BY <2>2, <2>3 DEF FilesOfSlot
<1>3. FilesQueued'
  <2>1. \A e \in Entries' : Live(e)' => cx'[e.slot].ack_file < e.file.id
    BY <1>l, <1>f DEF FilesQueued
  <2>2. ASSUME NEW i \in 1 .. Len(output_queue'), NEW j \in 1 .. Len(output_queue')
        PROVE  (LET e == output_queue[i]
                    f == output_queue[j]
                IN  /\ i < j /\ e.slot = f.slot /\ e.sender = f.sender /\ Live(e) =>
                         e.file.id < f.file.id
                    /\ inHand # NoFile /\ inHand.slot = f.slot /\ inHand.sender = f.sender
                       /\ Live(f) => inHand.file.id < f.file.id)'
    <3>1. UNCHANGED <<output_queue, inHand>>
      <4>1. 1 .. Len(<<>>) = {}
        OBVIOUS
      <4> QED BY <4>1, CutEntries
    <3>2. output_queue'[i] \in Entries' /\ output_queue'[j] \in Entries'
      BY DEF Entries
    <3>3. /\ Live(output_queue[i])' => Live(output_queue[i])
          /\ Live(output_queue[j])' => Live(output_queue[j])
      BY <3>1, <3>2, <1>l DEF Live
    <3> QED BY <3>1, <3>3, <1>f DEF FilesQueued
  <2> QED BY <2>1, <2>2 DEF FilesQueued
<1>4. ASSUME NEW c \in Client PROVE FilesSent(c)'
  <2> SUFFICES ASSUME client'[c].link # None PROVE FilesSent(c)'
    BY DEF FilesSent
  <2>1. client'[c] = client[c] /\ acked'[c] = acked[c] /\ client[c].link \in Link
    BY <1>t, CutClients, ClientFields
  <2> DEFINE k == client[c].link
  <2>2. \A f : SentBy(c, f) => SentBy(c, f)'
    BY <2>1 DEF SentBy
  <2>3. ASSUME NEW i \in 1 .. Len(link'[k].up), IsFile(link'[k].up, i)
        PROVE  SentBy(c, link[k].up[i].file)'
    <3>1. /\ IsFile(link[k].up, i) /\ link'[k].up[i].file = link[k].up[i].file
          /\ i \in 1 .. Len(link[k].up)
      BY <2>1, <2>3, <1>t, CutFiles DEF IsFile
    <3>2. SentBy(c, link[k].up[i].file)
      BY <2>1, <3>1, <1>f DEF FilesSent
    <3> QED BY <2>1, <3>1, <3>2 DEF SentBy
  <2>4. ASSUME NEW s \in Slot, cx'[s].link = k
        PROVE  /\ cx'[s].file # NoFile => SentBy(c, cx[s].file)'
               /\ \A e \in Entries' : e.slot = s /\ Live(e)' => SentBy(c, e.file)'
               /\ client'[c].base + cx'[s].ack_file <= SentUpTo(client'[c], acked'[c])
    <3>1. cx'[s] = cx[s]
      BY <2>1, <2>4, CutSlots
    <3>2. /\ cx[s].file # NoFile => SentBy(c, cx[s].file)
          /\ \A e \in Entries : e.slot = s /\ Live(e) => SentBy(c, e.file)
          /\ client[c].base + cx[s].ack_file <= SentUpTo(client[c], acked[c])
      BY <2>1, <2>4, <3>1, <1>f DEF FilesSent
    <3>3. cx'[s].file # NoFile => SentBy(c, cx[s].file)'
      BY <2>1, <3>1, <3>2 DEF SentBy
    <3>4. \A e \in Entries' : e.slot = s /\ Live(e)' => SentBy(c, e.file)'
      BY <2>2, <3>2, <1>l
    <3> QED BY <2>1, <3>1, <3>2, <3>3, <3>4
  <2> QED BY <2>1, <2>3, <2>4 DEF FilesSent
<1> QED BY <1>1, <1>2, <1>3, <1>4 DEF Files

(* A cut loses no message that an open connection counts on.               *)
LEMMA CutKeepsOrder ==
  ASSUME TransportInv, TransportTypeOK', Cut
  PROVE  Order'
<1>t. ClientTypeOK /\ LinkTypeOK /\ ServerTypeOK /\ LinkTypeOK' /\ ServerTypeOK' /\ ClientTypeOK'
  BY DEF TransportInv, TransportTypeOK
<1>q. /\ processed' = processed /\ acked' = acked
      /\ \A c, m : QueuedBefore(c, m, 0) <=> m \in processed[c]
  <2>1. 1 .. 0 = {}
    OBVIOUS
  <2> QED BY <2>1 DEF Cut, QueuedBefore
<1>1. \A c \in Client : /\ \A m \in processed'[c] : Dispatched(c, m)'
                        /\ Dispatched(c, acked[c])'
  BY <1>q DEF TransportInv, Order, Dispatched
<1>2. CASE /\ Entries' = {} /\ output_queue' = <<>> /\ inHand' = NoFile
           /\ ~UNCHANGED <<output_queue, inHand, cx_counter>>
  <2>1. /\ \A s \in Slot : cx'[s].link = None
        /\ \A k \in Link : ~link'[k].serverOpen /\ link'[k].up = <<>>
    BY <1>2 DEF Cut
  <2>2. \A s \in Slot : cx'[s].file = NoFile
    BY <2>1, CutKeepsEnds DEF Ends, SlotEnd
  <2>3. 1 .. Len(<<>>) = {}
    OBVIOUS
  <2>4. \A c \in Client : client'[c].link # None => ~link'[client'[c].link].serverOpen
    BY <2>1, <1>t, CutClients, ClientFields
  <2>5. \A k \in Link : \A i : ~IsFile(link'[k].up, i)
    BY <2>1, <2>3 DEF IsFile
  <2> QED BY <1>1, <1>2, <2>2, <2>3, <2>4, <2>5 DEF Order
<1>3. CASE UNCHANGED <<output_queue, inHand, cx_counter>>
  <2>q. \A c, m, n : QueuedBefore(c, m, n)' <=> QueuedBefore(c, m, n)
    BY <1>3, <1>q DEF QueuedBefore
  <2>1. inHand' # NoFile => inHand'.file.msg \in processed'[inHand'.file.source]
    BY <1>3, <1>q DEF TransportInv, Order
  <2>2. \A i \in 1 .. Len(output_queue') : \A m \in 1 .. output_queue'[i].file.msg - 1 :
           QueuedBefore(output_queue[i].file.source, m, i - 1)'
    <3>1. \A i \in 1 .. Len(output_queue) : \A m \in 1 .. output_queue[i].file.msg - 1 :
            QueuedBefore(output_queue[i].file.source, m, i - 1)
      BY DEF TransportInv, Order
    <3> QED BY <1>3, <1>q, <3>1 DEF QueuedBefore
  <2>3. ASSUME NEW k \in Link, NEW i \in 1 .. Len(link'[k].up), IsFile(link'[k].up, i),
               NEW m \in 1 .. link'[k].up[i].file.msg - 1,
               NEW c, c = link'[k].up[i].file.source
        PROVE  Queued(c, m)' \/ Carries(k, c, m)'
    <3>1. IsFile(link[k].up, i) /\ link'[k].up[i].file = link[k].up[i].file
          /\ link'[k].serverOpen
      BY <2>3, <1>t, CutFiles
    <3>2. Coming(k, c, link[k].up[i].file.msg - 1) /\ i \in 1 .. Len(link[k].up)
      BY <2>3, <3>1 DEF TransportInv, Order, IsFile
    <3>3. Queued(c, m) \/ Carries(k, c, m)
      BY <2>3, <3>1, <3>2 DEF Coming
    <3>4. CASE Queued(c, m)
      BY <3>4, <2>q, <1>3 DEF Queued
    <3>5. ASSUME NEW s \in Slot, cx[s].link = k, cx[s].file # NoFile,
                 cx[s].file.source = c, cx[s].file.msg = m
          PROVE  Carries(k, c, m)'
      <4>1. cx'[s] = cx[s]
        BY <3>1, <3>5, Nothing DEF Cut
      <4> QED BY <3>5, <4>1 DEF Carries
    <3>6. ASSUME NEW j \in 1 .. Len(link[k].up), IsFile(link[k].up, j),
                 link[k].up[j].file.source = c, link[k].up[j].file.msg = m
          PROVE  Carries(k, c, m)'
      <4> DEFINE f == link[k].up[i].file
                 g == link[k].up[j].file
      <4>0. link[k].up \in Seq(Up) /\ link'[k].up \in Seq(Up)
        <5>1. link[k] \in LinkState /\ link'[k] \in LinkState
          BY <1>t DEF LinkTypeOK
        <5> QED BY <5>1, LinkFields
      <4>1. f \in File /\ g \in File
        BY <3>1, <3>6, <4>0, FilesAreFiles
      <4>2. Same(f, g) /\ (i < j => f.id < g.id)
        BY <3>1, <3>2, <3>6 DEF TransportInv, Files, FilesUp
      <4>3. g.msg < f.msg
        <5>1. m \in Int /\ m <= f.msg - 1 /\ f.msg \in Nat
          BY <2>3, <3>1, <4>1, FileFields
        <5>2. g.msg = m
          BY <3>6
        <5> HIDE DEF f, g
        <5> QED BY <5>1, <5>2
      <4>4. ~(i < j) /\ i # j
        <5> HIDE DEF f, g
        <5>1. f.id \in Nat /\ g.id \in Nat /\ f.msg \in Nat /\ g.msg \in Nat
          BY <4>1, FileFields
        <5>2. ~(i < j)
          BY <4>2, <4>3, <5>1 DEF Same
        <5>3. i # j
          BY <4>3, <5>1 DEF f, g
        <5> QED BY <5>2, <5>3
      <4>5. j \in 1 .. Len(link'[k].up)
        BY <4>0, <4>4
      <4>6. link'[k].up[j] = link[k].up[j]
        BY <4>5 DEF Cut, Beginning
      <4> QED BY <3>6, <4>5, <4>6 DEF Carries, IsFile
    <3> QED BY <3>3, <3>4, <3>5, <3>6 DEF Carries
  <2>4. ASSUME NEW s \in Slot, cx'[s].file # NoFile, NEW m \in 1 .. cx'[s].file.msg - 1
        PROVE  Queued(cx[s].file.source, m)'
    <3>1. cx'[s] = cx[s]
      BY <2>4, CutSlots
    <3>2. Queued(cx[s].file.source, m)
      BY <2>4, <3>1 DEF TransportInv, Order
    <3> QED BY <1>3, <3>1, <3>2, <2>q DEF Queued
  <2>5. ASSUME NEW c \in Client, client'[c].link # None, link'[client'[c].link].serverOpen,
               NEW m \in 1 .. SentUpTo(client'[c], acked'[c])
        PROVE  Queued(c, m)' \/ Carries(client[c].link, c, m)'
    <3>1. client'[c] = client[c] /\ acked'[c] = acked[c] /\ client[c].link \in Link
      BY <1>t, <2>5, CutClients, ClientFields
    <3> DEFINE k == client[c].link
    <3>2. link[k].serverOpen /\ link'[k].up = link[k].up
      BY <2>5, <3>1 DEF Cut
    <3>3. Queued(c, m) \/ Carries(k, c, m)
      BY <2>5, <3>1, <3>2 DEF TransportInv, Order, Coming
    <3>4. ASSUME NEW s \in Slot, cx[s].link = k PROVE cx'[s] = cx[s]
      <4>1. \/ cx'[s] = cx[s]
            \/ cx[s].link # None => ~link'[cx[s].link].serverOpen
        BY DEF Cut
      <4>2. k # None /\ link'[k].serverOpen
        BY <2>5, <3>1
      <4> QED BY <3>4, <4>1, <4>2
    <3>5. Carries(k, c, m) => Carries(client[c].link, c, m)'
      <4> SUFFICES ASSUME NEW h, h = client[c].link, link'[h].up = link[h].up,
                          Carries(h, c, m)
                   PROVE  Carries(h, c, m)'
        BY <3>1, <3>2
      <4> QED BY <3>4 DEF Carries
    <3> QED BY <1>3, <3>3, <3>5, <2>q DEF Queued
  <2>6. \A k \in Link : \A i \in 1 .. Len(link'[k].up) : IsFile(link'[k].up, i) =>
          Coming(k, link[k].up[i].file.source, link[k].up[i].file.msg - 1)'
    BY <2>3 DEF Coming
  <2>7. \A c \in Client : client'[c].link # None /\ link'[client'[c].link].serverOpen =>
          Coming(client[c].link, c, SentUpTo(client[c], acked[c]))'
    BY <2>5 DEF Coming
  <2> QED BY <1>1, <2>1, <2>2, <2>4, <2>6, <2>7 DEF Order
<1> QED BY <1>2, <1>3, CutEntries

(* A cut brings no acknowledgement.                                        *)
LEMMA CutKeepsAcks ==
  ASSUME TransportInv, TransportTypeOK', Cut
  PROVE  Acks'
<1>t. ClientTypeOK /\ LinkTypeOK /\ ServerTypeOK /\ ClientTypeOK' /\ processed' = processed
  BY DEF TransportInv, TransportTypeOK, Cut
<1> SUFFICES ASSUME NEW c \in Client, client'[c].link # None
             PROVE  /\ \A i \in 1 .. Len(link'[client'[c].link].down) :
                         (LET x == link[client[c].link].down[i] IN
                          x.kind = "ACK" => Dispatched(c, client[c].base + x.id))'
                    /\ \A s \in Slot : cx'[s].link = client'[c].link =>
                         Dispatched(c, client[c].base + cx[s].ack_file)'
  BY DEF Acks
<1>1. client'[c] = client[c] /\ client[c].link \in Link
  BY <1>t, CutClients, ClientFields
<1>2. link'[client[c].link].down = link[client[c].link].down
  BY <1>1 DEF Cut
<1>3. \A s \in Slot : cx'[s].link = client'[c].link => cx'[s] = cx[s]
  BY CutSlots
<1> QED BY <1>t, <1>1, <1>2, <1>3 DEF TransportInv, Acks, Dispatched

(* A cut keeps the invariant.                                              *)
LEMMA CutKeepsInv ==
  ASSUME TransportInv, TransportTypeOK', Cut
  PROVE  TransportInv'
BY CutKeepsEnds, CutKeepsLines, CutKeepsFiles, CutKeepsOrder, CutKeepsAcks DEF TransportInv

-----------------------------------------------------------------------------
(* What a disconnected and a started client are.                           *)
LEMMA DisconnectedFields ==
  ASSUME NEW me \in ClientState, NEW a \in Nat, QueueOf(me, a)
  PROVE  LET x == Disconnected(me)
         IN  /\ x \in ClientState /\ x.link = None /\ x.state = "NOT_CONNECTED"
             /\ QueueOf(x, a)
<1> DEFINE x == Disconnected(me)
<1>1. /\ x \in ClientState /\ x.link = None /\ x.state = "NOT_CONNECTED"
      /\ x.input_queue = me.input_queue /\ x.current_file_index = me.current_file_index
      /\ x.current_file = me.current_file /\ x.deinit = me.deinit
      /\ x.base = me.base /\ x.lastIdOut = me.lastIdOut
  BY DEF ClientState, Disconnected
<1> HIDE DEF x
<1>2. QueueOf(x, a)
  BY <1>1 DEF QueueOf
<1> QED BY <1>1, <1>2 DEF x

(* A client just started has an empty queue and no connection.             *)
LEMMA StartedFields ==
  ASSUME NEW a \in Nat
  PROVE  LET x == Started(a)
         IN  /\ x \in ClientState /\ x.link = None /\ x.state = "NOT_CONNECTED"
             /\ QueueOf(x, a)
<1> DEFINE x == Started(a)
<1>1. <<>> \in Seq(Nat) /\ Len(<<>>) = 0 /\ 1 .. Len(<<>>) = {}
  OBVIOUS
<1>2. /\ x.link = None /\ x.state = "NOT_CONNECTED" /\ x.input_queue = <<>>
      /\ x.current_file_index = 0 /\ x.current_file = None
      /\ x.base = a /\ x.lastIdOut = 0
  BY DEF Started
<1>3. x \in ClientState
  BY <1>1 DEF Started, ClientState, None
<1> HIDE DEF x
<1>4. QueueOf(x, a)
  BY <1>1, <1>2 DEF QueueOf
<1> QED BY <1>2, <1>3, <1>4 DEF x

(* A client that ends, or starts again: a cut.                             *)
LEMMA ClientCuts ==
  ASSUME TransportInv, NEW c \in Client, NEW me \in ClientState,
         me.link = None, me.state = "NOT_CONNECTED", QueueOf(me, acked[c]),
         \/ client[c].state # "NOT_CONNECTED" /\ Disconnect(c, me)
         \/ /\ client[c].state = "NOT_CONNECTED"
            /\ client' = [client EXCEPT ![c] = me] /\ UNCHANGED link,
         UNCHANGED <<written, acked>>, ServerUnchanged
  PROVE  Cut /\ TransportTypeOK'
<1>t. ClientTypeOK /\ LinkTypeOK /\ ServerTypeOK
  BY DEF TransportInv, TransportTypeOK
<1>e. Ends
  BY DEF TransportInv
<1>s. /\ acked' = acked /\ written' = written /\ backlog' = backlog /\ pushing' = pushing
      /\ cx' = cx /\ UNCHANGED <<output_queue, inHand, cx_counter>> /\ processed' = processed
  BY DEF ServerUnchanged, serverVars, mainVars
<1>1. client' \in [Client -> ClientState] /\ client'[c] = me /\ OnlyClient(c)
  <2>1. client' = [client EXCEPT ![c] = me]
    BY DEF Disconnect
  <2>2. client \in [Client -> ClientState]
    BY <1>t DEF ClientTypeOK
  <2> QED BY <2>1, <2>2, ClientUpdated
<1>2. /\ link' \in [Link -> LinkState]
      /\ \A k \in Link : /\ Beginning(link'[k].up, link[k].up)
                         /\ link'[k].serverOpen = link[k].serverOpen
                         /\ ~link'[k].serverOpen => link'[k].up = <<>>
                         /\ k # client[c].link => link'[k] = link[k]
  <2>0. link \in [Link -> LinkState]
    BY <1>t DEF LinkTypeOK
  <2>1. ASSUME NEW k \in Link
        PROVE  /\ Beginning(link[k].up, link[k].up)
               /\ ~link[k].serverOpen => link[k].up = <<>>
    BY <1>e, <1>t, LinkTypes DEF Ends, Beginning
  <2>2. CASE UNCHANGED link
    BY <2>0, <2>1, <2>2
  <2>3. CASE client[c].state # "NOT_CONNECTED" /\ Disconnect(c, me)
    <3> DEFINE h == client[c].link
    <3>1. h \in Link
      <4>1. h # None
        BY <2>3, <1>e DEF Ends, ClientEnd
      <4> QED BY <4>1, <1>t, ClientFields
    <3>2. PICK n \in 0 .. Len(link[h].up) :
            link' = [link EXCEPT ![h] = ClientCloses(@, n)]
      BY <2>3 DEF Disconnect
    <3> DEFINE l == ClientCloses(link[h], n)
    <3>3. link[h] \in LinkState
      BY <2>0, <3>1
    <3>4. /\ l \in LinkState /\ Beginning(l.up, link[h].up)
          /\ l.serverOpen = link[h].serverOpen
          /\ ~link[h].serverOpen => l.up = <<>>
      BY <3>3, ClientClosesFields
    <3>5. link' = [link EXCEPT ![h] = l]
      BY <3>2
    <3> HIDE DEF h, l
    <3>6. link' \in [Link -> LinkState] /\ link'[h] = l /\ OnlyLink(h)
      BY <2>0, <3>1, <3>4, <3>5, LinkUpdated
    <3>7. \A k \in Link : k # h => link'[k] = link[k]
      BY <3>6 DEF OnlyLink
    <3>8. ASSUME NEW k \in Link
          PROVE  /\ Beginning(link'[k].up, link[k].up)
                 /\ link'[k].serverOpen = link[k].serverOpen
                 /\ ~link'[k].serverOpen => link'[k].up = <<>>
      BY <2>1, <3>4, <3>6, <3>7
    <3> QED BY <3>6, <3>7, <3>8 DEF h
  <2> QED BY <2>2, <2>3
<1>3. \A d \in Client : \/ client'[d] = client[d]
                        \/ /\ client'[d].link = None /\ client'[d].state = "NOT_CONNECTED"
                           /\ QueueOf(client'[d], acked[d])
  BY <1>1 DEF OnlyClient
<1>4. ASSUME NEW k \in Link, NEW d \in Client, client'[d].link = k
      PROVE  /\ link'[k].clientOpen /\ link'[k].down = link[k].down
             /\ link'[k].serverOpen => link[k].serverOpen /\ link'[k].up = link[k].up
  <2>1. d # c /\ client'[d] = client[d] /\ client[d].link # None
    BY <1>1, <1>4, Nothing DEF OnlyClient
  <2>2. ClientEnd(d)
    BY <1>e DEF Ends
  <2>3. link[k].clientOpen /\ client[c].link # k
    BY <1>4, <2>1, <2>2 DEF ClientEnd
  <2> QED BY <2>3, <1>2
<1>5. \A s \in Slot : cx'[s].link # None => link'[cx'[s].link].serverOpen
  BY <1>2, <1>s, <1>e, <1>t, SlotFields DEF Ends, SlotEnd
<1>6. \A i \in 1 .. Len(backlog') :
        /\ i + 0 \in 1 .. Len(backlog) /\ backlog'[i] = backlog[i + 0]
        /\ link'[backlog'[i]].serverOpen
  BY <1>2, <1>s, <1>e, <1>t, BacklogTypes DEF Ends, BacklogEnd
<1>7. Cut
  <2>1. \E d \in {0, 1} : \A i \in 1 .. Len(backlog') :
          /\ i + d \in 1 .. Len(backlog) /\ backlog'[i] = backlog[i + d]
          /\ link'[backlog'[i]].serverOpen
    BY <1>6
  <2>2. \A s \in Slot : cx'[s] = cx[s]
    BY <1>s
  <2>3. \A s \in Slot : cx'[s].link # None =>
          /\ link'[cx'[s].link].serverOpen
          /\ pushing' = s <=> pushing = s
    BY <1>s, <1>5
  <2>4. pushing' # None => cx'[pushing'] = cx[pushing'] /\ pushing' = pushing
    BY <1>s
  <2>5. \A k \in Link :
          /\ Beginning(link'[k].up, link[k].up)
          /\ ~link'[k].serverOpen => link'[k].up = <<>>
          /\ \A d \in Client : client'[d].link = k =>
               /\ link'[k].clientOpen /\ link'[k].down = link[k].down
               /\ link'[k].serverOpen => link[k].serverOpen /\ link'[k].up = link[k].up
    BY <1>2, <1>4
  <2> QED BY <1>s, <1>3, <2>1, <2>2, <2>3, <2>4, <2>5 DEF Cut
<1>8. TransportTypeOK'
  BY <1>1, <1>2, <1>s, <1>t DEF TransportTypeOK, ClientTypeOK, LinkTypeOK, ServerTypeOK
<1> QED BY <1>7, <1>8

(* The server has closed, the socket breaks or the daemon is restarted.    *)
LEMMA ClientEndings ==
  ASSUME TransportInv, NEW c \in Client, EndOfFile(c) \/ Broken(c) \/ Restart(c)
  PROVE  TransportInv'
<1>t. client[c] \in ClientState /\ acked[c] \in Nat /\ QueueOf(client[c], acked[c])
  BY ClientFields DEF TransportInv, TransportTypeOK, ClientQueues
<1>1. CASE EndOfFile(c) \/ Broken(c)
  <2> DEFINE me == Disconnected(client[c])
  <2>1. /\ me \in ClientState /\ me.link = None /\ me.state = "NOT_CONNECTED"
        /\ QueueOf(me, acked[c])
    BY <1>t, DisconnectedFields
  <2>2. /\ client[c].state # "NOT_CONNECTED" /\ Disconnect(c, me)
        /\ UNCHANGED <<written, acked>> /\ ServerUnchanged
    BY <1>1 DEF EndOfFile, Broken
  <2> HIDE DEF me
  <2> QED BY <2>1, <2>2, ClientCuts, CutKeepsInv
<1>2. CASE Restart(c)
  <2> DEFINE me == Started(acked[c])
  <2>1. /\ me \in ClientState /\ me.link = None /\ me.state = "NOT_CONNECTED"
        /\ QueueOf(me, acked[c])
    BY <1>t, StartedFields
  <2>2. /\ \/ client[c].state # "NOT_CONNECTED" /\ Disconnect(c, me)
           \/ /\ client[c].state = "NOT_CONNECTED"
              /\ client' = [client EXCEPT ![c] = me] /\ UNCHANGED link
        /\ UNCHANGED <<written, acked>> /\ ServerUnchanged
    BY <1>2 DEF Restart
  <2> HIDE DEF me
  <2> QED BY <2>1, <2>2, ClientCuts, CutKeepsInv
<1> QED BY <1>1, <1>2

-----------------------------------------------------------------------------
(* Slots that are closed or free.                                          *)
LEMMA ClosedFields ==
  ASSUME NEW slot \in SlotState
  PROVE  LET x == Closed(slot)
         IN  x \in SlotState /\ x.link = None /\ x.cx_id = -1 /\ x.file = NoFile
<1> DEFINE k == None
           n == -1
           f == NoFile
<1>1. k \in Link \union {None} /\ n \in Int /\ f \in File \union {NoFile}
  OBVIOUS
<1> DEFINE x == [slot EXCEPT !.link = k, !.cx_id = n, !.file = f]
<1>2. Closed(slot) = x
  BY DEF Closed
<1> HIDE DEF k, n, f
<1>3. x \in SlotState /\ x.link = k /\ x.cx_id = n /\ x.file = f
  BY <1>1 DEF SlotState
<1> HIDE DEF x
<1> QED BY <1>2, <1>3 DEF k, n, f

(* A free slot has no connection and no file.                              *)
LEMMA FreeSlotFields ==
  /\ FreeSlot \in SlotState /\ FreeSlot.link = None /\ FreeSlot.cx_id = -1
  /\ FreeSlot.file = NoFile /\ FreeSlot.state = "INIT" /\ FreeSlot.ack_file = 0
BY DEF SlotState, FreeSlot, None

(* When the server closes a connection, the client's end stays as it is.   *)
LEMMA ServerClosedLink ==
  ASSUME TransportInv, NEW h \in Link, UNCHANGED client,
         link' = [link EXCEPT ![h] = ServerCloses(@)]
  PROVE  /\ link' \in [Link -> LinkState] /\ ~link'[h].serverOpen
         /\ \A k \in Link :
              /\ k # h => link'[k] = link[k]
              /\ Beginning(link'[k].up, link[k].up)
              /\ ~link'[k].serverOpen => link'[k].up = <<>>
              /\ \A c \in Client : client'[c].link = k =>
                   /\ link'[k].clientOpen /\ link'[k].down = link[k].down
                   /\ link'[k].serverOpen => link[k].serverOpen /\ link'[k].up = link[k].up
<1>t. ClientTypeOK /\ LinkTypeOK /\ ServerTypeOK /\ Ends
  BY DEF TransportInv, TransportTypeOK
<1>0. link \in [Link -> LinkState] /\ link[h] \in LinkState
  BY <1>t DEF LinkTypeOK
<1> DEFINE l == ServerCloses(link[h])
<1>1. /\ l \in LinkState /\ l.up = <<>> /\ ~l.serverOpen
      /\ link[h].clientOpen => l.clientOpen /\ l.down = link[h].down
  BY <1>0, ServerClosesFields
<1>2. link' = [link EXCEPT ![h] = l]
  OBVIOUS
<1> HIDE DEF l
<1>3. link' \in [Link -> LinkState] /\ link'[h] = l /\ OnlyLink(h)
  BY <1>0, <1>1, <1>2, LinkUpdated
<1>4. \A k \in Link : k # h => link'[k] = link[k]
  BY <1>3 DEF OnlyLink
<1>5. ASSUME NEW k \in Link
      PROVE  /\ Beginning(link'[k].up, link[k].up)
             /\ ~link'[k].serverOpen => link'[k].up = <<>>
  <2>1. CASE k = h
    <3>1. Len(<<>>) = 0 /\ 1 .. Len(<<>>) = {} /\ Len(link[k].up) >= 0
      BY <1>t, LinkTypes
    <3> QED BY <1>1, <1>3, <2>1, <3>1 DEF Beginning
  <2>2. CASE k # h
    <3>1. ~link[k].serverOpen => link[k].up = <<>>
      BY <1>t DEF Ends
    <3>2. Len(link[k].up) <= Len(link[k].up)
      BY <1>t, LinkTypes
    <3> QED BY <1>4, <2>2, <3>1, <3>2 DEF Beginning
  <2> QED BY <2>1, <2>2
<1>6. ASSUME NEW k \in Link, NEW c \in Client, client'[c].link = k
      PROVE  /\ link'[k].clientOpen /\ link'[k].down = link[k].down
             /\ link'[k].serverOpen => link[k].serverOpen /\ link'[k].up = link[k].up
  <2>1. client[c].link = k /\ k # None /\ ClientEnd(c)
    BY <1>6, <1>t, Nothing DEF Ends
  <2>2. link[k].clientOpen
    BY <2>1 DEF ClientEnd
  <2>3. CASE k = h
    BY <1>1, <1>3, <2>2, <2>3
  <2>4. CASE k # h
    BY <1>4, <2>2, <2>4
  <2> QED BY <2>3, <2>4
<1> QED BY <1>1, <1>3, <1>4, <1>5, <1>6

(* A slot closed by the server: a cut.                                     *)
LEMMA CloseCuts ==
  ASSUME TransportInv, NEW s \in Slot, cx[s].link # None, Close(s),
         pushing = None \/ pushing = s, pushing' = None,
         UNCHANGED <<clientVars, backlog, cx_counter, mainVars>>
  PROVE  TransportInv'
<1>t. ClientTypeOK /\ LinkTypeOK /\ ServerTypeOK /\ Ends
  BY DEF TransportInv, TransportTypeOK
<1>s. /\ client' = client /\ acked' = acked /\ written' = written /\ backlog' = backlog
      /\ UNCHANGED <<output_queue, inHand, cx_counter>> /\ processed' = processed
  BY DEF clientVars, mainVars
<1> DEFINE h == cx[s].link
<1>h. h \in Link
  BY <1>t, SlotFields
<1>1. /\ link' \in [Link -> LinkState] /\ ~link'[h].serverOpen
      /\ \A k \in Link :
           /\ k # h => link'[k] = link[k]
           /\ Beginning(link'[k].up, link[k].up)
           /\ ~link'[k].serverOpen => link'[k].up = <<>>
           /\ \A c \in Client : client'[c].link = k =>
                /\ link'[k].clientOpen /\ link'[k].down = link[k].down
                /\ link'[k].serverOpen => link[k].serverOpen /\ link'[k].up = link[k].up
  <2>1. link' = [link EXCEPT ![h] = ServerCloses(@)]
    BY DEF Close
  <2> HIDE DEF h
  <2> QED BY <1>h, <1>s, <2>1, ServerClosedLink
<1>2. /\ cx' \in [Slot -> SlotState] /\ OnlySlot(s)
      /\ cx'[s].link = None /\ cx'[s].cx_id = -1 /\ cx'[s].file = NoFile
  <2> DEFINE x == Closed(cx[s])
  <2>1. x \in SlotState /\ x.link = None /\ x.cx_id = -1 /\ x.file = NoFile
    BY <1>t, SlotFields, ClosedFields
  <2>2. cx' = [cx EXCEPT ![s] = x]
    BY DEF Close
  <2>3. cx \in [Slot -> SlotState]
    BY <1>t DEF ServerTypeOK
  <2> HIDE DEF x
  <2> QED BY <2>1, <2>2, <2>3, SlotUpdated
<1> HIDE DEF h
<1>3. \A t \in Slot :
        \/ cx'[t] = cx[t]
        \/ /\ cx'[t].link = None /\ cx'[t].cx_id = -1 /\ cx'[t].file = NoFile
           /\ cx[t].link # None => ~link'[cx[t].link].serverOpen
  BY <1>1, <1>2 DEF OnlySlot, h
<1>4. ASSUME NEW t \in Slot, cx'[t].link # None
      PROVE  /\ link'[cx'[t].link].serverOpen
             /\ pushing' = t <=> pushing = t
  <2>1. t # s /\ cx'[t] = cx[t]
    BY <1>2, <1>4 DEF OnlySlot
  <2>2. cx[t].link # h
    BY <2>1, <1>t, <1>4 DEF Ends, SlotEnd, h
  <2>3. link[cx[t].link].serverOpen /\ cx[t].link \in Link
    BY <2>1, <1>t, <1>4, SlotFields DEF Ends, SlotEnd
  <2>4. pushing' # t /\ pushing # t
    BY <2>1, Nothing
  <2> QED BY <2>1, <2>2, <2>3, <2>4, <1>1
<1>5. \A i \in 1 .. Len(backlog') :
        /\ i + 0 \in 1 .. Len(backlog) /\ backlog'[i] = backlog[i + 0]
        /\ link'[backlog'[i]].serverOpen
  <2> TAKE i \in 1 .. Len(backlog')
  <2>1. BacklogEnd(i) /\ backlog[i] \in Link
    BY <1>s, <1>t, BacklogTypes DEF Ends
  <2>2. backlog[i] # h /\ link[backlog[i]].serverOpen
    BY <2>1 DEF BacklogEnd, h
  <2>3. i + 0 = i
    OBVIOUS
  <2> QED BY <1>1, <1>s, <2>1, <2>2, <2>3
<1>6. Cut
  <2>1. \E d \in {0, 1} : \A i \in 1 .. Len(backlog') :
          /\ i + d \in 1 .. Len(backlog) /\ backlog'[i] = backlog[i + d]
          /\ link'[backlog'[i]].serverOpen
    BY <1>5
  <2> QED BY <1>s, <1>1, <1>3, <1>4, <2>1 DEF Cut
<1>7. TransportTypeOK'
  BY <1>1, <1>2, <1>s, <1>t DEF TransportTypeOK, ClientTypeOK, LinkTypeOK, ServerTypeOK
<1> QED BY <1>6, <1>7, CutKeepsInv

(* The server does not get a line that it does not expect.                 *)
LEMMA NeverUnexpected ==
  ASSUME TransportInv, NEW s \in Slot, cx[s].link # None, link[cx[s].link].up # <<>>,
         pushing # s
  PROVE  /\ Expected(cx[s].state, Head(link[cx[s].link].up))
         /\ Head(link[cx[s].link].up).kind = Expects(s)
<1>t. ClientTypeOK /\ LinkTypeOK /\ ServerTypeOK /\ Lines
  BY DEF TransportInv, TransportTypeOK
<1>1. InStep(cx[s].link, Expects(s)) /\ cx[s].link \in Link
  BY <1>t, SlotFields DEF Lines
<1>2. Head(link[cx[s].link].up) = link[cx[s].link].up[1]
  BY <1>1, <1>t, LinkTypes, TailLines
<1>3. Head(link[cx[s].link].up).kind = Expects(s)
  BY <1>1, <1>2 DEF InStep, Chained
<1>4. cx[s].state \in {"INIT", "WAITING_FILE_BEGIN", "WAITING_FILE_END"}
  BY <1>t, SlotFields
<1> QED BY <1>3, <1>4 DEF Expects, Expected

(* The server finds a connection closed or broken.                         *)
LEMMA SlotEndings ==
  ASSUME TransportInv, NEW s \in Slot, ReadEnd(s) \/ ReadError(s)
  PROVE  TransportInv'
<1>1. cx[s].link # None /\ Close(s) /\ pushing = None /\ pushing' = None
  BY DEF ReadEnd, ReadError, ServerThread
<1>2. UNCHANGED <<clientVars, backlog, cx_counter, mainVars>>
  BY DEF ReadEnd, ReadError, ServerThread
<1> QED BY <1>1, <1>2, CloseCuts

(* The server gives up to write a file to the output queue.                *)
LEMMA PushTimeoutKeepsInv ==
  ASSUME TransportInv, PushTimeout
  PROVE  TransportInv'
<1>t. ServerTypeOK /\ Ends
  BY DEF TransportInv, TransportTypeOK
<1>1. pushing \in Slot /\ pushing' = None /\ Close(pushing)
      /\ UNCHANGED <<clientVars, backlog, cx_counter, mainVars>>
  BY <1>t DEF PushTimeout, ServerTypeOK
<1>2. cx[pushing].link # None
  BY <1>t, <1>1, Nothing DEF Ends, SlotEnd
<1> DEFINE s == pushing
<1>3. s \in Slot /\ cx[s].link # None /\ Close(s) /\ pushing = s
  BY <1>1, <1>2
<1> HIDE DEF s
<1> QED BY <1>1, <1>3, CloseCuts

(* The first of the backlog is taken from it.                              *)
LEMMA BacklogTail ==
  ASSUME LinkTypeOK, backlog # <<>>, backlog' = Tail(backlog)
  PROVE  /\ backlog' \in Seq(Link) /\ Head(backlog) = backlog[1] /\ 1 \in 1 .. Len(backlog)
         /\ \A i \in 1 .. Len(backlog') :
              i + 1 \in 2 .. Len(backlog) /\ backlog'[i] = backlog[i + 1]
<1>1. backlog \in Seq(Link)
  BY DEF LinkTypeOK
<1> QED BY <1>1, HeadTailProperties

(* A connection that finds no free slot.                                   *)
LEMMA RefuseKeepsInv ==
  ASSUME TransportInv, ServerThread, backlog # <<>>, backlog' = Tail(backlog),
         link' = [link EXCEPT ![Head(backlog)] = ServerCloses(@)],
         UNCHANGED <<cx, cx_counter, pushing, mainVars>>
  PROVE  TransportInv'
<1>t. ClientTypeOK /\ LinkTypeOK /\ ServerTypeOK /\ Ends
  BY DEF TransportInv, TransportTypeOK
<1>s. /\ client' = client /\ acked' = acked /\ written' = written /\ cx' = cx
      /\ UNCHANGED <<output_queue, inHand, cx_counter>> /\ processed' = processed
      /\ pushing' = None /\ pushing = None
  BY DEF clientVars, mainVars, ServerThread
<1>b. /\ backlog' \in Seq(Link) /\ Head(backlog) = backlog[1] /\ 1 \in 1 .. Len(backlog)
      /\ \A i \in 1 .. Len(backlog') :
           i + 1 \in 2 .. Len(backlog) /\ backlog'[i] = backlog[i + 1]
  BY <1>t, BacklogTail
<1> DEFINE h == backlog[1]
<1>h. h \in Link /\ BacklogEnd(1)
  BY <1>b, <1>t, BacklogTypes DEF Ends
<1>1. /\ link' \in [Link -> LinkState] /\ ~link'[h].serverOpen
      /\ \A k \in Link :
           /\ k # h => link'[k] = link[k]
           /\ Beginning(link'[k].up, link[k].up)
           /\ ~link'[k].serverOpen => link'[k].up = <<>>
           /\ \A c \in Client : client'[c].link = k =>
                /\ link'[k].clientOpen /\ link'[k].down = link[k].down
                /\ link'[k].serverOpen => link[k].serverOpen /\ link'[k].up = link[k].up
  <2>1. link' = [link EXCEPT ![h] = ServerCloses(@)]
    BY <1>b
  <2> HIDE DEF h
  <2> QED BY <1>h, <1>s, <2>1, ServerClosedLink
<1>4. ASSUME NEW t \in Slot, cx'[t].link # None
      PROVE  link'[cx'[t].link].serverOpen
  <2>2. cx[t].link # h /\ link[cx[t].link].serverOpen /\ cx[t].link \in Link
    BY <1>h, <1>s, <1>t, <1>4, SlotFields DEF Ends, SlotEnd, BacklogEnd
  <2> QED BY <2>2, <1>1, <1>s
<1>5. ASSUME NEW i \in 1 .. Len(backlog')
      PROVE  /\ i + 1 \in 1 .. Len(backlog) /\ backlog'[i] = backlog[i + 1]
             /\ link'[backlog'[i]].serverOpen
  <2>1. i + 1 \in 1 .. Len(backlog) /\ i + 1 # 1 /\ backlog'[i] = backlog[i + 1]
    BY <1>b
  <2>2. BacklogEnd(i + 1) /\ backlog[i + 1] \in Link
    BY <2>1, <1>t, BacklogTypes DEF Ends
  <2>3. backlog[i + 1] # h
    BY <2>1, <1>b, <1>h DEF BacklogEnd
  <2>4. link[backlog[i + 1]].serverOpen
    BY <2>2 DEF BacklogEnd
  <2> QED BY <1>1, <2>1, <2>2, <2>3, <2>4
<1>6. Cut
  <2>1. \E d \in {0, 1} : \A i \in 1 .. Len(backlog') :
          /\ i + d \in 1 .. Len(backlog) /\ backlog'[i] = backlog[i + d]
          /\ link'[backlog'[i]].serverOpen
    BY <1>5
  <2>2. \A s \in Slot : cx'[s] = cx[s]
    BY <1>s
  <2>3. \A s \in Slot : cx'[s].link # None =>
          /\ link'[cx'[s].link].serverOpen
          /\ pushing' = s <=> pushing = s
    BY <1>s, <1>4
  <2>4. \A c \in Client : client'[c] = client[c]
    BY <1>s
  <2> QED BY <1>s, <1>1, <2>1, <2>2, <2>3, <2>4 DEF Cut
<1>7. TransportTypeOK'
  BY <1>1, <1>b, <1>s, <1>t DEF TransportTypeOK, ClientTypeOK, LinkTypeOK, ServerTypeOK
<1> QED BY <1>6, <1>7, CutKeepsInv

(* The server stops and starts again: all its ends are lost.               *)
LEMMA ServerRestartKeepsInv ==
  ASSUME TransportInv, ServerRestart
  PROVE  TransportInv'
<1>t. ClientTypeOK /\ LinkTypeOK /\ ServerTypeOK /\ Ends
  BY DEF TransportInv, TransportTypeOK
<1>s. /\ client' = client /\ acked' = acked /\ written' = written /\ backlog' = <<>>
      /\ cx' = [s \in Slot |-> FreeSlot] /\ cx_counter' = 0 /\ pushing' = None
      /\ output_queue' = <<>> /\ inHand' = NoFile /\ processed' = processed
      /\ link' = [k \in Link |-> IF link[k].serverOpen THEN ServerCloses(link[k])
                                                       ELSE link[k]]
  BY DEF ServerRestart, clientVars
<1>0. Len(<<>>) = 0 /\ 1 .. Len(<<>>) = {} /\ <<>> \in Seq(Link) /\ <<>> \in Seq(Entry)
  OBVIOUS
<1>1. ASSUME NEW k \in Link
      PROVE  /\ link'[k] \in LinkState /\ ~link'[k].serverOpen /\ link'[k].up = <<>>
             /\ link[k].clientOpen => link'[k].clientOpen /\ link'[k].down = link[k].down
  <2>1. link[k] \in LinkState /\ (~link[k].serverOpen => link[k].up = <<>>)
    BY <1>t, LinkTypes DEF Ends
  <2>2. CASE link[k].serverOpen
    <3>1. link'[k] = ServerCloses(link[k])
      BY <1>s, <2>2
    <3> QED BY <2>1, <3>1, ServerClosesFields
  <2>3. CASE ~link[k].serverOpen
    <3>1. link'[k] = link[k]
      BY <1>s, <2>3
    <3> QED BY <2>1, <2>3, <3>1
  <2> QED BY <2>2, <2>3
<1>2. link' \in [Link -> LinkState]
  BY <1>1, <1>s
<1>3. \A s \in Slot : cx'[s] = FreeSlot /\ cx'[s].link = None /\ cx'[s].cx_id = -1
                      /\ cx'[s].file = NoFile
  BY <1>s, FreeSlotFields
<1>4. TransportTypeOK'
  <2>1. cx' \in [Slot -> SlotState] /\ 0 \in Nat
    BY <1>s, FreeSlotFields
  <2> QED BY <1>0, <1>2, <1>s, <1>t, <2>1
      DEF TransportTypeOK, ClientTypeOK, LinkTypeOK, ServerTypeOK
<1>5. Cut
  <2>1. ASSUME NEW k \in Link
        PROVE  /\ Beginning(link'[k].up, link[k].up)
               /\ ~link'[k].serverOpen => link'[k].up = <<>>
               /\ \A c \in Client : client'[c].link = k =>
                    /\ link'[k].clientOpen /\ link'[k].down = link[k].down
                    /\ link'[k].serverOpen => link[k].serverOpen /\ link'[k].up = link[k].up
    <3>1. Len(link[k].up) >= 0
      BY <1>t, LinkTypes
    <3>2. Beginning(link'[k].up, link[k].up)
      BY <1>0, <1>1, <3>1 DEF Beginning
    <3>3. \A c \in Client : client'[c].link = k => link[k].clientOpen
      BY <1>s, <1>t, Nothing DEF Ends, ClientEnd
    <3> QED BY <1>1, <3>2, <3>3
  <2>2. \A s \in Slot : cx[s].link # None => ~link'[cx[s].link].serverOpen
    BY <1>1, <1>t, SlotFields
  <2>3. \E d \in {0, 1} : \A i \in 1 .. Len(backlog') :
          /\ i + d \in 1 .. Len(backlog) /\ backlog'[i] = backlog[i + d]
          /\ link'[backlog'[i]].serverOpen
    BY <1>0, <1>s
  <2>4. \A c \in Client : client'[c] = client[c]
    BY <1>s
  <2>5. \A k \in Link : ~link'[k].serverOpen
    BY <1>1
  <2> QED BY <1>s, <1>3, <2>1, <2>2, <2>3, <2>4, <2>5 DEF Cut
<1> QED BY <1>4, <1>5, CutKeepsInv

(* Nothing happens but that messages are written.                          *)
LEMMA NothingKeepsInv ==
  ASSUME TransportInv, written' \in [Client -> Nat],
         UNCHANGED <<client, acked, link, backlog, serverVars, mainVars>>
  PROVE  TransportInv'
<1>t. ClientTypeOK /\ LinkTypeOK /\ ServerTypeOK /\ Ends
  BY DEF TransportInv, TransportTypeOK
<1>s. /\ client' = client /\ acked' = acked /\ link' = link /\ backlog' = backlog
      /\ cx' = cx /\ UNCHANGED <<output_queue, inHand, cx_counter>>
      /\ processed' = processed /\ pushing' = pushing
  BY DEF serverVars, mainVars
<1>1. TransportTypeOK'
  BY <1>t, <1>s DEF TransportTypeOK, ClientTypeOK, LinkTypeOK, ServerTypeOK
<1>2. Cut
  <2>1. \A i \in 1 .. Len(backlog') :
          /\ i + 0 \in 1 .. Len(backlog) /\ backlog'[i] = backlog[i + 0]
          /\ link'[backlog'[i]].serverOpen
    BY <1>s, <1>t, BacklogTypes DEF Ends, BacklogEnd
  <2>2. \E d \in {0, 1} : \A i \in 1 .. Len(backlog') :
          /\ i + d \in 1 .. Len(backlog) /\ backlog'[i] = backlog[i + d]
          /\ link'[backlog'[i]].serverOpen
    BY <2>1
  <2>3. ASSUME NEW k \in Link
        PROVE  /\ Beginning(link'[k].up, link[k].up)
               /\ ~link'[k].serverOpen => link'[k].up = <<>>
               /\ \A c \in Client : client'[c].link = k =>
                    /\ link'[k].clientOpen /\ link'[k].down = link[k].down
                    /\ link'[k].serverOpen => link[k].serverOpen /\ link'[k].up = link[k].up
    <3>1. Beginning(link[k].up, link[k].up)
      BY <1>t, LinkTypes DEF Beginning
    <3>2. ~link[k].serverOpen => link[k].up = <<>>
      BY <1>t DEF Ends
    <3>3. \A c \in Client : client[c].link = k => link[k].clientOpen
      BY <1>t, Nothing DEF Ends, ClientEnd
    <3> QED BY <1>s, <3>1, <3>2, <3>3
  <2>4. \A s \in Slot : cx'[s].link # None => link'[cx'[s].link].serverOpen
    BY <1>s, <1>t DEF Ends, SlotEnd
  <2> QED BY <1>s, <2>2, <2>3, <2>4 DEF Cut
<1> QED BY <1>1, <1>2, CutKeepsInv

-----------------------------------------------------------------------------
(* A client goes on with its connection.                                   *)
LEMMA SentFields ==
  ASSUME NEW me \in ClientState, NEW a \in Nat
  PROVE  /\ SentUpTo(me, a) \in Int
         /\ QueueOf(me, a) => me.base <= a /\ a <= SentUpTo(me, a)
<1>1. /\ me.current_file_index \in Nat /\ me.base \in Nat
      /\ me.current_file \in Nat
  BY DEF ClientState
<1> QED BY <1>1 DEF SentUpTo, QueueOf

ClientGoes(c) ==
  LET h == client[c].link IN
  /\ h # None /\ client'[c].link = h /\ client'[c].state # "NOT_CONNECTED"
  /\ client'[c].base = client[c].base
  /\ QueueOf(client'[c], acked'[c]) /\ acked[c] <= acked'[c] /\ Dispatched(c, acked'[c])
  /\ OnlyClient(c) /\ \A d \in Client \ {c} : acked'[d] = acked[d]
  /\ \A k \in Link :
       /\ link'[k].clientOpen = link[k].clientOpen /\ link'[k].serverOpen = link[k].serverOpen
       /\ k # h \/ ~link[k].serverOpen => link'[k].up = link[k].up
       /\ \A i \in 1 .. Len(link'[k].down) :
            \E j \in 1 .. Len(link[k].down) : link'[k].down[i] = link[k].down[j]
  /\ ServerUnchanged

(* The server's state is as it was when a client goes on.                  *)
LEMMA GoesServer ==
  ASSUME NEW c \in Client, ClientGoes(c)
  PROVE  /\ cx' = cx /\ cx_counter' = cx_counter /\ pushing' = pushing /\ backlog' = backlog
         /\ output_queue' = output_queue /\ inHand' = inHand /\ processed' = processed
         /\ Entries' = Entries
BY DEF ClientGoes, ServerUnchanged, serverVars, mainVars, Entries, InHand

(* A client that goes on keeps its connection.                             *)
LEMMA GoesKeepsEnds ==
  ASSUME TransportInv, TransportTypeOK', NEW c \in Client, ClientGoes(c)
  PROVE  ClientQueues' /\ Ends'
<1>t. ClientTypeOK /\ LinkTypeOK /\ ServerTypeOK /\ Ends /\ ClientQueues
  BY DEF TransportInv, TransportTypeOK
<1>s. /\ cx' = cx /\ cx_counter' = cx_counter /\ pushing' = pushing /\ backlog' = backlog
      /\ Entries' = Entries
  BY GoesServer
<1>1. ASSUME NEW d \in Client PROVE QueueOf(client[d], acked[d])'
  <2>1. QueueOf(client'[d], acked'[d])
    BY <1>t DEF ClientGoes, OnlyClient, ClientQueues
  <2> QED BY <2>1 DEF QueueOf
<1>2. ASSUME NEW d \in Client PROVE ClientEnd(d)'
  <2>1. \A e \in Client : client'[e].link = client[e].link
    BY DEF ClientGoes, OnlyClient
  <2>2. ClientEnd(d)
    BY <1>t DEF Ends
  <2>3. client'[d].state = "NOT_CONNECTED" <=> client'[d].link = None
    BY <2>2 DEF ClientGoes, OnlyClient, ClientEnd
  <2>4. client[d].link # None => link'[client[d].link].clientOpen
    BY <2>2, <1>t, ClientFields DEF ClientGoes, ClientEnd
  <2> QED BY <2>1, <2>2, <2>3, <2>4 DEF ClientEnd
<1>3. \A s \in Slot : SlotEnd(s)'
  BY <1>s, <1>t, SlotFields DEF Ends, SlotEnd, ClientGoes
<1>4. ASSUME NEW i \in 1 .. Len(backlog') PROVE BacklogEnd(i)'
  BY <1>s, <1>t, BacklogTypes DEF Ends, BacklogEnd, ClientGoes
<1>5. \A k \in Link : ~link'[k].serverOpen => link'[k].up = <<>>
  BY <1>t DEF ClientGoes, Ends
<1> QED BY <1>1, <1>2, <1>3, <1>4, <1>5, <1>s, <1>t DEF Ends, ClientQueues

(* No new ACK is on its way when a client goes on.                         *)
LEMMA GoesKeepsAcks ==
  ASSUME TransportInv, NEW c \in Client, ClientGoes(c)
  PROVE  Acks'
<1>t. ClientTypeOK /\ LinkTypeOK /\ Acks
  BY DEF TransportInv, TransportTypeOK
<1>s. cx' = cx /\ processed' = processed
  BY GoesServer
<1> SUFFICES ASSUME NEW d \in Client, client'[d].link # None
             PROVE  /\ \A i \in 1 .. Len(link'[client'[d].link].down) :
                         (LET x == link[client[d].link].down[i] IN
                          x.kind = "ACK" => Dispatched(d, client[d].base + x.id))'
                    /\ \A s \in Slot : cx'[s].link = client'[d].link =>
                         Dispatched(d, client[d].base + cx[s].ack_file)'
  BY DEF Acks
<1>1. /\ client'[d].link = client[d].link /\ client'[d].base = client[d].base
      /\ client[d].link \in Link
  BY <1>t, ClientFields DEF ClientGoes, OnlyClient
<1>2. \A i \in 1 .. Len(link'[client[d].link].down) :
        \E j \in 1 .. Len(link[client[d].link].down) :
          link'[client[d].link].down[i] = link[client[d].link].down[j]
  BY <1>1 DEF ClientGoes
<1>3. \A j \in 1 .. Len(link[client[d].link].down) :
        link[client[d].link].down[j].kind = "ACK" =>
          Dispatched(d, client[d].base + link[client[d].link].down[j].id)
  BY <1>1, <1>t DEF Acks
<1>4. \A s \in Slot : cx[s].link = client[d].link =>
        Dispatched(d, client[d].base + cx[s].ack_file)
  BY <1>1, <1>t DEF Acks
<1>6. ASSUME NEW i \in 1 .. Len(link'[client'[d].link].down)
      PROVE  (LET x == link[client[d].link].down[i] IN
              x.kind = "ACK" => Dispatched(d, client[d].base + x.id))'
  <2> DEFINE h == client[d].link
             b == client[d].base
  <2>1. PICK j \in 1 .. Len(link[h].down) : link'[h].down[i] = link[h].down[j]
    BY <1>1, <1>2, <1>6
  <2>2. link[h].down[j].kind = "ACK" => Dispatched(d, b + link[h].down[j].id)
    BY <1>3, <2>1
  <2>3. link[h].down[j].kind = "ACK" => 1 .. b + link[h].down[j].id \subseteq processed'[d]
    BY <1>s, <2>2 DEF Dispatched
  <2>4. client'[d].link = h /\ client'[d].base = b
    BY <1>1
  <2> HIDE DEF h, b
  <2> QED BY <2>1, <2>3, <2>4 DEF Dispatched
<1>7. ASSUME NEW s \in Slot, cx'[s].link = client'[d].link
      PROVE  Dispatched(d, client[d].base + cx[s].ack_file)'
  BY <1>s, <1>1, <1>4, <1>7 DEF Dispatched
<1> QED BY <1>6, <1>7

-----------------------------------------------------------------------------
(* A client goes on and nothing new goes up: it took a file from its       *)
(* queue, or a line from the server.                                       *)
ClientAdvances(c) ==
  /\ ClientGoes(c)
  /\ \A k \in Link : link'[k].up = link[k].up
  /\ SentUpTo(client[c], acked[c]) <= SentUpTo(client'[c], acked'[c])
  /\ link[client[c].link].serverOpen =>
       /\ Sends(client'[c]) = Sends(client[c])
       /\ \/ SentUpTo(client'[c], acked'[c]) = SentUpTo(client[c], acked[c])
          \/ Dispatched(c, SentUpTo(client'[c], acked'[c]))

(* Nothing is sent, and the next line to send is the same.                 *)
LEMMA AdvanceKeepsLines ==
  ASSUME TransportInv, TransportTypeOK', NEW c \in Client, ClientAdvances(c)
  PROVE  Lines'
<1>t. ClientTypeOK /\ LinkTypeOK /\ ServerTypeOK /\ Ends /\ Lines
  BY DEF TransportInv, TransportTypeOK
<1>s. cx' = cx /\ pushing' = pushing /\ backlog' = backlog
  BY GoesServer DEF ClientAdvances
<1>1. ASSUME NEW k \in Link, NEW first, link[k].serverOpen, InStep(k, first)
      PROVE  InStep(k, first)'
  <2>1. link'[k].up = link[k].up
    BY DEF ClientAdvances
  <2>2. ASSUME NEW d \in Client, client'[d].link = k
        PROVE  Sends(client'[d]) = Sends(client[d]) /\ client[d].link = k
    <3>1. client[d].link = k
      BY <2>2 DEF ClientAdvances, ClientGoes, OnlyClient
    <3>2. CASE d = c
      BY <3>1, <3>2, <1>1 DEF ClientAdvances
    <3>3. CASE d # c
      BY <3>1, <3>3 DEF ClientAdvances, ClientGoes, OnlyClient
    <3> QED BY <3>1, <3>2, <3>3
  <2> QED BY <1>1, <2>1, <2>2 DEF InStep
<1>2. ASSUME NEW s \in Slot, cx'[s].link # None PROVE InStep(cx[s].link, Expects(s))'
  <2> DEFINE k == cx[s].link
             first == Expects(s)
  <2>1. k \in Link /\ link[k].serverOpen /\ InStep(k, first) /\ first' = first
    BY <1>2, <1>s, <1>t, SlotFields DEF Ends, SlotEnd, Lines, Expects
  <2>2. (InStep(k, first))'
    BY <1>1, <1>s, <2>1 DEF InStep
  <2> QED BY <2>2
<1>3. ASSUME NEW i \in 1 .. Len(backlog') PROVE InStep(backlog[i], "INI")'
  <2>1. backlog[i] \in Link /\ link[backlog[i]].serverOpen /\ InStep(backlog[i], "INI")
    BY <1>s, <1>t, BacklogTypes DEF Ends, BacklogEnd, Lines
  <2> QED BY <2>1, <1>s, <1>1 DEF InStep
<1> QED BY <1>2, <1>3 DEF Lines

(* What was sent is not beyond what the client counts as sent.             *)
LEMMA AdvanceKeepsFiles ==
  ASSUME TransportInv, TransportTypeOK', NEW c \in Client, ClientAdvances(c)
  PROVE  Files'
<1>t. ClientTypeOK /\ LinkTypeOK /\ ServerTypeOK /\ Ends /\ Files /\ ClientTypeOK'
  BY DEF TransportInv, TransportTypeOK
<1>s. /\ cx' = cx /\ Entries' = Entries /\ output_queue' = output_queue /\ inHand' = inHand
      /\ \A k \in Link : link'[k].up = link[k].up
  BY GoesServer DEF ClientAdvances
<1>1. \A k \in Link : FilesUp(k)'
  BY <1>s, <1>t DEF Files, FilesUp
<1>2. ASSUME NEW s \in Slot PROVE FilesOfSlot(s)'
  <2>1. \A f : After(s, f)' <=> After(s, f)
    BY <1>s DEF After, Live
  <2>2. FilesOfSlot(s)
    BY <1>t DEF Files
  <2>3. cx[s].link # None => link'[cx[s].link].up = link[cx[s].link].up
    BY <1>s, <1>t, SlotFields
  <2> QED BY <1>s, <2>1, <2>2, <2>3 DEF FilesOfSlot, After, Live
<1>3. FilesQueued'
  BY <1>s, <1>t DEF Files, FilesQueued, Live
<1>4. ASSUME NEW d \in Client PROVE FilesSent(d)'
  <2> SUFFICES ASSUME client'[d].link # None PROVE FilesSent(d)'
    BY DEF FilesSent
  <2>1. /\ client'[d].link = client[d].link /\ client'[d].base = client[d].base
        /\ client[d].link \in Link
        /\ SentUpTo(client[d], acked[d]) <= SentUpTo(client'[d], acked'[d])
    <3>1. CASE d = c
      BY <3>1, <1>t, ClientFields DEF ClientAdvances, ClientGoes
    <3>2. CASE d # c
      <4>1. client'[d] = client[d] /\ acked'[d] = acked[d]
        BY <3>2 DEF ClientAdvances, ClientGoes, OnlyClient
      <4> QED BY <4>1, <1>t, ClientFields
    <3> QED BY <3>1, <3>2
  <2>2. SentUpTo(client[d], acked[d]) \in Int /\ SentUpTo(client'[d], acked'[d]) \in Int
        /\ client[d].base \in Nat
    <3>1. client'[d] \in ClientState /\ acked'[d] \in Nat
      BY <1>t DEF ClientTypeOK
    <3> QED BY <3>1, <1>t, ClientFields, SentFields
  <2>3. \A f \in File : SentBy(d, f) => SentBy(d, f)'
    BY <2>1, <2>2, FileFields DEF SentBy
  <2>4. FilesSent(d)
    BY <1>t DEF Files
  <2>5. ASSUME NEW i \in 1 .. Len(link[client[d].link].up), IsFile(link[client[d].link].up, i)
        PROVE  SentBy(d, link[client[d].link].up[i].file)'
    <3>1. link[client[d].link].up[i].file \in File
      BY <2>1, <2>5, <1>t, LinkTypes, FilesAreFiles
    <3>2. SentBy(d, link[client[d].link].up[i].file)
      BY <2>1, <2>4, <2>5 DEF FilesSent
    <3>3. link'[client'[d].link].up = link[client[d].link].up
      BY <2>1, <1>s
    <3> QED BY <3>1, <3>2, <3>3, <2>1, <2>2, FileFields DEF SentBy
  <2>6. ASSUME NEW s \in Slot, cx[s].link = client[d].link
        PROVE  /\ cx[s].file # NoFile => SentBy(d, cx[s].file)'
               /\ \A e \in Entries : e.slot = s /\ Live(e) => SentBy(d, e.file)'
               /\ client'[d].base + cx[s].ack_file <= SentUpTo(client'[d], acked'[d])
    <3>1. /\ cx[s].file # NoFile => SentBy(d, cx[s].file)
          /\ \A e \in Entries : e.slot = s /\ Live(e) => SentBy(d, e.file)
          /\ client[d].base + cx[s].ack_file <= SentUpTo(client[d], acked[d])
      BY <2>1, <2>4, <2>6 DEF FilesSent
    <3>2. cx[s].file # NoFile => SentBy(d, cx[s].file)'
      BY <3>1, <2>1, <2>2, <1>s, <1>t, SlotFields, FileFields DEF SentBy
    <3>3. \A e \in Entries : e.slot = s /\ Live(e) => SentBy(d, e.file)'
      BY <3>1, <2>3, <1>t, EntryTypes
    <3>4. client'[d].base + cx[s].ack_file <= SentUpTo(client'[d], acked'[d])
      BY <3>1, <2>1, <2>2, <1>t, SlotFields
    <3> QED BY <3>2, <3>3, <3>4
  <2> QED BY <2>1, <2>5, <2>6, <1>s DEF FilesSent, IsFile, Live
<1> QED BY <1>1, <1>2, <1>3, <1>4 DEF Files

(* What is counted as sent is on its way, queued or dispatched.            *)
LEMMA AdvanceKeepsOrder ==
  ASSUME TransportInv, TransportTypeOK', NEW c \in Client, ClientAdvances(c)
  PROVE  Order'
<1>t. ClientTypeOK /\ LinkTypeOK /\ ServerTypeOK /\ Ends /\ Order
  BY DEF TransportInv, TransportTypeOK
<1>s. /\ cx' = cx /\ output_queue' = output_queue /\ inHand' = inHand
      /\ processed' = processed
      /\ \A k \in Link : link'[k].up = link[k].up
  BY GoesServer DEF ClientAdvances
<1>q. \A d, m, n : QueuedBefore(d, m, n)' <=> QueuedBefore(d, m, n)
  BY <1>s DEF QueuedBefore
<1>c. \A k \in Link : \A d, m : Carries(k, d, m)' <=> Carries(k, d, m)
  BY <1>s DEF Carries
<1>1. \A d \in Client : /\ \A m \in processed'[d] : Dispatched(d, m)'
                        /\ Dispatched(d, acked[d])'
  <2> TAKE d \in Client
  <2>1. Dispatched(d, acked'[d])
    BY <1>t DEF ClientAdvances, ClientGoes, Order
  <2> QED BY <2>1, <1>s, <1>t DEF Order, Dispatched
<1>2. inHand' # NoFile => inHand'.file.msg \in processed'[inHand'.file.source]
  BY <1>s, <1>t DEF Order
<1>3. \A i \in 1 .. Len(output_queue') : \A m \in 1 .. output_queue'[i].file.msg - 1 :
        QueuedBefore(output_queue[i].file.source, m, i - 1)'
  <2>1. \A i \in 1 .. Len(output_queue) : \A m \in 1 .. output_queue[i].file.msg - 1 :
        QueuedBefore(output_queue[i].file.source, m, i - 1)
    BY <1>t DEF Order
  <2> QED BY <1>s, <2>1 DEF QueuedBefore
<1>4. ASSUME NEW k \in Link, NEW i \in 1 .. Len(link'[k].up), IsFile(link'[k].up, i)
      PROVE  Coming(k, link[k].up[i].file.source, link[k].up[i].file.msg - 1)'
  <2> DEFINE d == link[k].up[i].file.source
             n == link[k].up[i].file.msg - 1
  <2>1. link'[k].up = link[k].up
    BY <1>s
  <2>2. Coming(k, d, n)
    BY <2>1, <1>4, <1>t DEF Order
  <2>3. d' = d /\ n' = n
    BY <2>1
  <2> HIDE DEF d, n
  <2>4. (Coming(k, d, n))'
    BY <2>2, <2>3, <1>s, <1>q, <1>c DEF Coming, Queued
  <2> QED BY <2>4 DEF d, n
<1>5. \A s \in Slot : cx'[s].file # NoFile =>
        \A m \in 1 .. cx'[s].file.msg - 1 : Queued(cx[s].file.source, m)'
  <2>1. \A s \in Slot : cx[s].file # NoFile =>
        \A m \in 1 .. cx[s].file.msg - 1 : Queued(cx[s].file.source, m)
    BY <1>t DEF Order
  <2> QED BY <1>s, <2>1 DEF Queued, QueuedBefore
<1>6. ASSUME NEW d \in Client, client'[d].link # None, link'[client'[d].link].serverOpen,
             NEW m \in 1 .. SentUpTo(client'[d], acked'[d])
      PROVE  Queued(d, m)' \/ Carries(client[d].link, d, m)'
  <2>1. client'[d].link = client[d].link /\ client[d].link \in Link
        /\ link[client[d].link].serverOpen
    BY <1>6, <1>t, ClientFields DEF ClientAdvances, ClientGoes, OnlyClient
  <2>2. CASE SentUpTo(client'[d], acked'[d]) = SentUpTo(client[d], acked[d])
    <3>1. Queued(d, m) \/ Carries(client[d].link, d, m)
      BY <1>6, <2>1, <2>2, <1>t DEF Order, Coming
    <3>2. Queued(d, m) => Queued(d, m)'
      BY <1>s DEF Queued, QueuedBefore
    <3>3. Carries(client[d].link, d, m) => Carries(client[d].link, d, m)'
      BY <1>s, <2>1 DEF Carries
    <3> QED BY <3>1, <3>2, <3>3
  <2>3. CASE Dispatched(d, SentUpTo(client'[d], acked'[d]))
    BY <1>6, <2>3, <1>s DEF Queued, QueuedBefore, Dispatched
  <2>4. d # c => client'[d] = client[d] /\ acked'[d] = acked[d]
    BY DEF ClientAdvances, ClientGoes, OnlyClient
  <2> QED BY <2>1, <2>2, <2>3, <2>4 DEF ClientAdvances
<1>7. \A d \in Client : client'[d].link # None /\ link'[client'[d].link].serverOpen =>
        Coming(client[d].link, d, SentUpTo(client[d], acked[d]))'
  BY <1>6 DEF Coming
<1> QED BY <1>1, <1>2, <1>3, <1>4, <1>5, <1>7 DEF Order

(* A client that sends nothing keeps the invariant.                        *)
LEMMA AdvanceKeepsInv ==
  ASSUME TransportInv, TransportTypeOK', NEW c \in Client, ClientAdvances(c)
  PROVE  TransportInv'
<1>1. ClientGoes(c)
  BY DEF ClientAdvances
<1> QED BY <1>1, GoesKeepsEnds, GoesKeepsAcks, AdvanceKeepsLines, AdvanceKeepsFiles,
           AdvanceKeepsOrder DEF TransportInv

-----------------------------------------------------------------------------
(* A connected client's end of its connection.                             *)
LEMMA HasLink ==
  ASSUME TransportInv, NEW c \in Client, client[c].state # "NOT_CONNECTED"
  PROVE  /\ client[c].link \in Link /\ client[c].link # None
         /\ link[client[c].link] \in LinkState /\ link[client[c].link].clientOpen
<1>1. ClientTypeOK /\ LinkTypeOK /\ ClientEnd(c)
  BY DEF TransportInv, TransportTypeOK, Ends
<1>2. client[c].link # None /\ link[client[c].link].clientOpen
  BY <1>1 DEF ClientEnd
<1>3. client[c].link \in Link
  BY <1>1, <1>2, ClientFields
<1> QED BY <1>1, <1>2, <1>3, LinkTypes

(* A line read by the client is gone from its connection.                  *)
LEMMA IncomingLine ==
  ASSUME TransportInv, NEW c \in Client, client[c].state # "NOT_CONNECTED",
         NEW state, NEW line, Incoming(c, state, line)
  PROVE  /\ link' \in [Link -> LinkState]
         /\ \A k \in Link :
              /\ link'[k].up = link[k].up /\ link'[k].clientOpen = link[k].clientOpen
              /\ link'[k].serverOpen = link[k].serverOpen
              /\ \A i \in 1 .. Len(link'[k].down) :
                   \E j \in 1 .. Len(link[k].down) : link'[k].down[i] = link[k].down[j]
         /\ 1 \in 1 .. Len(link[client[c].link].down)
         /\ line = link[client[c].link].down[1]
<1> DEFINE h == client[c].link
           d == link[h].down
           r == Tail(d)
<1>1. h \in Link /\ link[h] \in LinkState /\ d \in Seq(Down) /\ d # <<>>
  BY HasLink, LinkFields DEF Incoming
<1>2. /\ r \in Seq(Down) /\ Head(d) = d[1] /\ 1 \in 1 .. Len(d)
      /\ \A i \in 1 .. Len(r) : i + 1 \in 1 .. Len(d) /\ r[i] = d[i + 1]
  <2> HIDE DEF d
  <2> QED BY <1>1, HeadTailProperties
<1>3. link \in [Link -> LinkState]
  BY DEF TransportInv, TransportTypeOK, LinkTypeOK
<1> DEFINE l == [link[h] EXCEPT !.down = r]
<1>4. link' = [link EXCEPT ![h] = l]
  BY DEF Incoming
<1>5. line = d[1]
  BY <1>2 DEF Incoming
<1> HIDE DEF r, d
<1>6. /\ l \in LinkState /\ l.down = r /\ l.up = link[h].up
      /\ l.clientOpen = link[h].clientOpen /\ l.serverOpen = link[h].serverOpen
  BY <1>1, <1>2 DEF LinkState
<1> HIDE DEF l
<1>7. link' \in [Link -> LinkState] /\ link'[h] = l /\ OnlyLink(h)
  <2> HIDE DEF h
  <2> QED BY <1>1, <1>3, <1>4, <1>6, LinkUpdated
<1>8. ASSUME NEW k \in Link
      PROVE  /\ link'[k].up = link[k].up /\ link'[k].clientOpen = link[k].clientOpen
             /\ link'[k].serverOpen = link[k].serverOpen
             /\ \A i \in 1 .. Len(link'[k].down) :
                  \E j \in 1 .. Len(link[k].down) : link'[k].down[i] = link[k].down[j]
  <2>1. CASE k = h
    BY <1>2, <1>6, <1>7, <2>1 DEF d
  <2>2. CASE k # h
    <3>1. link'[k] = link[k]
      BY <1>7, <2>2 DEF OnlyLink
    <3> QED BY <3>1
  <2> QED BY <2>1, <2>2
<1> QED BY <1>2, <1>5, <1>7, <1>8 DEF d

(* The line READY.                                                         *)
LEMMA ReadyKeepsInv ==
  ASSUME TransportInv, NEW c \in Client, Ready(c)
  PROVE  TransportInv'
<1>t. ClientTypeOK /\ LinkTypeOK /\ ServerTypeOK
  BY DEF TransportInv, TransportTypeOK
<1>0. client[c].state = "OPEN_CLIENT"
  BY DEF Ready, Incoming
<1>l. /\ link' \in [Link -> LinkState]
      /\ \A k \in Link :
           /\ link'[k].up = link[k].up /\ link'[k].clientOpen = link[k].clientOpen
           /\ link'[k].serverOpen = link[k].serverOpen
           /\ \A i \in 1 .. Len(link'[k].down) :
                \E j \in 1 .. Len(link[k].down) : link'[k].down[i] = link[k].down[j]
  <2>1. Incoming(c, "OPEN_CLIENT", READY)
    BY DEF Ready
  <2> QED BY <1>0, <2>1, IncomingLine
<1> DEFINE f == None
           n == 0
<1> DEFINE me == [client[c] EXCEPT !.state = "CONNECTED", !.current_file = f,
                                   !.current_file_index = n, !.deinit = FALSE]
<1>1. /\ client[c] \in ClientState /\ acked[c] \in Nat /\ QueueOf(client[c], acked[c])
      /\ f \in Nat /\ n \in Nat /\ f = None /\ n = 0
  BY <1>t, ClientFields DEF TransportInv, ClientQueues, None
<1>2. client' = [client EXCEPT ![c] = me]
  BY DEF Ready
<1> HIDE DEF f, n
<1>3. /\ me \in ClientState /\ me.state = "CONNECTED" /\ me.current_file = f
      /\ me.current_file_index = n /\ me.deinit = FALSE /\ me.link = client[c].link
      /\ me.base = client[c].base /\ me.input_queue = client[c].input_queue
      /\ me.lastIdOut = client[c].lastIdOut
  BY <1>1 DEF ClientState
<1> HIDE DEF me
<1>4. client' \in [Client -> ClientState] /\ client'[c] = me /\ OnlyClient(c)
  BY <1>2, <1>3, <1>t, ClientUpdated DEF ClientTypeOK
<1>5. QueueOf(me, acked[c])
  <2>1. Len(client[c].input_queue) \in Nat
    BY <1>t, ClientFields
  <2> QED BY <1>1, <1>3, <2>1 DEF QueueOf
<1>6. SentUpTo(me, acked[c]) = SentUpTo(client[c], acked[c]) /\ Sends(me) = Sends(client[c])
  BY <1>0, <1>1, <1>3 DEF SentUpTo, Sends
<1>7. acked' = acked /\ written' = written /\ ServerUnchanged
  BY DEF Ready
<1>8. TransportTypeOK'
  BY <1>t, <1>l, <1>4, <1>7 DEF TransportTypeOK, ClientTypeOK, LinkTypeOK, ServerTypeOK,
     ServerUnchanged, serverVars, mainVars
<1>9. ClientAdvances(c)
  <2>1. Dispatched(c, acked[c])
    BY DEF TransportInv, Order
  <2>2. client[c].link # None
    BY <1>0, HasLink
  <2>3. ClientGoes(c)
    BY <1>1, <1>3, <1>4, <1>5, <1>7, <1>l, <2>1, <2>2 DEF ClientGoes
  <2>4. SentUpTo(client[c], acked[c]) \in Int
    BY <1>t, ClientFields
  <2> QED BY <1>4, <1>6, <1>7, <1>l, <2>3, <2>4 DEF ClientAdvances
<1> QED BY <1>8, <1>9, AdvanceKeepsInv

-----------------------------------------------------------------------------
(* The next file is taken, from the queue or from the permanent FIFO.      *)
LEMMA SendingFields ==
  ASSUME NEW x \in ClientState, NEW id \in Nat
  PROVE  LET y == Sending(x, id)
         IN  /\ y \in ClientState /\ y.state = x.state /\ y.link = x.link
             /\ y.base = x.base /\ y.input_queue = x.input_queue
             /\ y.lastIdOut = x.lastIdOut /\ y.deinit = TRUE
             /\ y.current_file = id /\ y.current_file_index = x.current_file_index + 1
<1> DEFINE n == x.current_file_index + 1
<1>1. n \in Nat
  BY DEF ClientState
<1> DEFINE y == [x EXCEPT !.current_file = id, !.current_file_index = n, !.deinit = TRUE]
<1>2. Sending(x, id) = y
  BY DEF Sending
<1> HIDE DEF n
<1>3. /\ y \in ClientState /\ y.state = x.state /\ y.link = x.link
      /\ y.base = x.base /\ y.input_queue = x.input_queue
      /\ y.lastIdOut = x.lastIdOut /\ y.deinit = TRUE
      /\ y.current_file = id /\ y.current_file_index = n
  BY <1>1 DEF ClientState
<1> HIDE DEF y
<1> QED BY <1>2, <1>3 DEF n

(* A number taken from the permanent FIFO goes to the end of the queue.    *)
LEMMA TakenFields ==
  ASSUME NEW x \in ClientState, NEW id \in Nat
  PROVE  LET y == [x EXCEPT !.input_queue = Append(@, id), !.lastIdOut = id]
         IN  /\ y \in ClientState /\ y.state = x.state /\ y.link = x.link
             /\ y.base = x.base /\ y.input_queue = Append(x.input_queue, id)
             /\ y.lastIdOut = id /\ y.current_file_index = x.current_file_index
<1> DEFINE q == Append(x.input_queue, id)
<1>1. q \in Seq(Nat)
  BY AppendElements DEF ClientState
<1> HIDE DEF q
<1> DEFINE y == [x EXCEPT !.input_queue = q, !.lastIdOut = id]
<1>2. [x EXCEPT !.input_queue = Append(@, id), !.lastIdOut = id] = y
  BY DEF q
<1>3. /\ y \in ClientState /\ y.state = x.state /\ y.link = x.link
      /\ y.base = x.base /\ y.input_queue = q
      /\ y.lastIdOut = id /\ y.current_file_index = x.current_file_index
  BY <1>1 DEF ClientState
<1> HIDE DEF y
<1> QED BY <1>2, <1>3 DEF q

(* What a client becomes when it takes its next file.                      *)
LEMMA NextFileBecomes ==
  ASSUME TransportInv, NEW c \in Client, NextFile(c)
  PROVE  LET me == client[c] IN
         \E x \in ClientState :
           /\ client' = [client EXCEPT ![c] = x]
           /\ x.state = "CONNECTED" /\ x.link = me.link /\ x.base = me.base
           /\ x.current_file # None /\ x.current_file_index = me.current_file_index + 1
           /\ QueueOf(x, acked[c])
<1> DEFINE me == client[c]
           q  == me.input_queue
           a  == acked[c]
           i0 == me.current_file_index
<1>1. /\ me \in ClientState /\ a \in Nat /\ q \in Seq(Nat) /\ Len(q) \in Nat
      /\ i0 \in Nat /\ me.base \in Nat /\ me.lastIdOut \in Nat /\ QueueOf(me, a)
      /\ me.input_queue = q /\ me.current_file_index = i0
  BY ClientFields DEF TransportInv, TransportTypeOK, ClientQueues
<1>2. me.state = "CONNECTED"
  BY DEF NextFile, Idle
<1>d. \/ i0 < Len(q) /\ client' = [client EXCEPT ![c] = Sending(me, q[i0 + 1])]
      \/ /\ i0 >= Len(q)
         /\ client' = [client EXCEPT ![c] =
                          Sending([me EXCEPT !.input_queue = Append(@, me.lastIdOut + 1),
                                             !.lastIdOut = me.lastIdOut + 1],
                                  me.lastIdOut + 1)]
  BY DEF NextFile
<1> HIDE DEF me, q, a, i0
<1>3. /\ me.base <= a /\ me.base + me.lastIdOut = a + Len(q)
      /\ \A i \in 1 .. Len(q) : me.base + q[i] = a + i
      /\ i0 <= Len(q)
  BY <1>1 DEF QueueOf
<1>4. CASE i0 < Len(q) /\ client' = [client EXCEPT ![c] = Sending(me, q[i0 + 1])]
  <2> DEFINE id == q[i0 + 1]
             x == Sending(me, id)
  <2>1. i0 + 1 \in 1 .. Len(q) /\ id \in Nat /\ me.base + id = a + (i0 + 1)
    BY <1>1, <1>3, <1>4
  <2>2. id # None
    BY <1>1, <1>3, <2>1 DEF None
  <2>3. /\ x \in ClientState /\ x.state = me.state /\ x.link = me.link
        /\ x.base = me.base /\ x.input_queue = q
        /\ x.lastIdOut = me.lastIdOut /\ x.deinit = TRUE
        /\ x.current_file = id /\ x.current_file_index = i0 + 1
    <3>1. /\ x \in ClientState /\ x.state = me.state /\ x.link = me.link
          /\ x.base = me.base /\ x.input_queue = me.input_queue
          /\ x.lastIdOut = me.lastIdOut /\ x.deinit = TRUE
          /\ x.current_file = id /\ x.current_file_index = me.current_file_index + 1
      <4>1. me \in ClientState /\ id \in Nat
        BY <1>1, <2>1
      <4> HIDE DEF id
      <4> QED BY <4>1, SendingFields
    <3> HIDE DEF x
    <3> QED BY <1>1, <3>1
  <2>4. client' = [client EXCEPT ![c] = x]
    BY <1>4
  <2> HIDE DEF x
  <2>5. QueueOf(x, a)
    <3>1. i0 + 1 <= Len(q) /\ i0 + 1 >= 1
      BY <1>1, <1>4
    <3> QED BY <1>1, <1>3, <2>1, <2>3, <3>1 DEF QueueOf, id
  <2> QED BY <1>2, <2>2, <2>3, <2>4, <2>5 DEF me, a, i0
<1>5. CASE /\ i0 >= Len(q)
           /\ client' = [client EXCEPT ![c] =
                          Sending([me EXCEPT !.input_queue = Append(@, me.lastIdOut + 1),
                                             !.lastIdOut = me.lastIdOut + 1],
                                  me.lastIdOut + 1)]
  <2> DEFINE id == me.lastIdOut + 1
             y == [me EXCEPT !.input_queue = Append(@, id), !.lastIdOut = id]
             p == Append(q, id)
             x == Sending(y, id)
  <2>1. id \in Nat /\ id # None
    BY <1>1 DEF None
  <2>4. client' = [client EXCEPT ![c] = x]
    BY <1>5
  <2>2. /\ y \in ClientState /\ y.state = me.state /\ y.link = me.link
        /\ y.base = me.base /\ y.input_queue = p
        /\ y.lastIdOut = id /\ y.current_file_index = i0
    <3>1. /\ y \in ClientState /\ y.state = me.state /\ y.link = me.link
          /\ y.base = me.base /\ y.input_queue = Append(me.input_queue, id)
          /\ y.lastIdOut = id /\ y.current_file_index = me.current_file_index
      <4>1. me \in ClientState /\ id \in Nat
        BY <1>1, <2>1
      <4> HIDE DEF id
      <4> QED BY <4>1, TakenFields
    <3> HIDE DEF y
    <3> QED BY <1>1, <3>1
  <2> HIDE DEF y
  <2>3. /\ x \in ClientState /\ x.state = me.state /\ x.link = me.link
        /\ x.base = me.base /\ x.input_queue = p
        /\ x.lastIdOut = id /\ x.deinit = TRUE
        /\ x.current_file = id /\ x.current_file_index = i0 + 1
    BY <2>1, <2>2, SendingFields
  <2> HIDE DEF x
  <2>p. /\ Len(p) = Len(q) + 1 /\ p[Len(q) + 1] = id
        /\ \A i \in 1 .. Len(q) : p[i] = q[i]
        /\ \A i \in 1 .. Len(p) : i \in 1 .. Len(q) \/ i = Len(q) + 1
    BY <1>1, <2>1, AppendElements
  <2>b. me.base + id = a + (Len(q) + 1)
    <3>1. me.base \in Nat /\ me.lastIdOut \in Nat /\ a \in Nat /\ Len(q) \in Nat
          /\ me.base + me.lastIdOut = a + Len(q)
      BY <1>1, <1>3
    <3> QED BY <3>1
  <2> HIDE DEF p, id
  <2>5. QueueOf(x, a)
    <3>1. i0 = Len(q)
      BY <1>1, <1>3, <1>5
    <3>2. ASSUME NEW i \in 1 .. Len(p) PROVE me.base + p[i] = a + i
      <4>1. CASE i \in 1 .. Len(q)
        BY <4>1, <1>3, <2>p
      <4>2. CASE i = Len(q) + 1
        BY <4>2, <2>b, <2>p
      <4> QED BY <4>1, <4>2, <2>p
    <3>3. i0 + 1 <= Len(p) /\ i0 + 1 >= 1 /\ p[i0 + 1] = id /\ me.base + id = a + Len(p)
      BY <1>1, <2>b, <2>p, <3>1
    <3> QED BY <1>1, <1>3, <2>3, <3>2, <3>3 DEF QueueOf
  <2> QED BY <1>2, <2>1, <2>3, <2>4, <2>5 DEF me, a, i0
<1> QED BY <1>4, <1>5, <1>d

(* The client takes the next file to send.                                 *)
LEMMA NextFileKeepsInv ==
  ASSUME TransportInv, NEW c \in Client, NextFile(c)
  PROVE  TransportInv'
<1>t. ClientTypeOK /\ LinkTypeOK /\ ServerTypeOK
  BY DEF TransportInv, TransportTypeOK
<1>1. PICK x \in ClientState :
        /\ client' = [client EXCEPT ![c] = x]
        /\ x.state = "CONNECTED" /\ x.link = client[c].link /\ x.base = client[c].base
        /\ x.current_file # None
        /\ x.current_file_index = client[c].current_file_index + 1
        /\ QueueOf(x, acked[c])
  BY NextFileBecomes
<1>0. /\ client[c].state = "CONNECTED" /\ client[c].current_file = None /\ ~client[c].deinit
      /\ acked[c] \in Nat /\ client[c].current_file_index \in Nat
  BY <1>t, ClientFields DEF NextFile, Idle
<1>4. client' \in [Client -> ClientState] /\ client'[c] = x /\ OnlyClient(c)
  BY <1>1, <1>t, ClientUpdated DEF ClientTypeOK
<1>6. SentUpTo(x, acked[c]) = SentUpTo(client[c], acked[c]) /\ Sends(x) = Sends(client[c])
  BY <1>0, <1>1 DEF SentUpTo, Sends
<1>7. acked' = acked /\ written' = written /\ link' = link /\ ServerUnchanged
  BY DEF NextFile
<1>8. TransportTypeOK'
  BY <1>t, <1>4, <1>7 DEF TransportTypeOK, ClientTypeOK, LinkTypeOK, ServerTypeOK,
     ServerUnchanged, serverVars, mainVars
<1>9. ClientAdvances(c)
  <2>1. Dispatched(c, acked[c])
    BY DEF TransportInv, Order
  <2>2. client[c].link # None
    BY <1>0, HasLink
  <2>3. ClientGoes(c)
    BY <1>0, <1>1, <1>4, <1>7, <2>1, <2>2 DEF ClientGoes
  <2>4. SentUpTo(client[c], acked[c]) \in Int
    BY <1>t, ClientFields
  <2> QED BY <1>4, <1>6, <1>7, <2>3, <2>4 DEF ClientAdvances
<1> QED BY <1>8, <1>9, AdvanceKeepsInv

-----------------------------------------------------------------------------
(* An ACK: the files it covers leave the queue, up to the one being sent.  *)
LEMMA AcknowledgedStops ==
  ASSUME NEW queue \in Seq(Nat), NEW current \in Nat, NEW ack \in Nat
  PROVE  LET n == Acknowledged(queue, current, ack)
         IN  /\ n \in 0 .. Len(queue)
             /\ \A i \in 1 .. n : queue[i] # current /\ queue[i] <= ack
<1> DEFINE T == {n \in 0 .. Len(queue) :
                   n < Len(queue) => queue[n + 1] = current \/ queue[n + 1] > ack}
<1>1. Len(queue) \in Nat /\ Len(queue) \in T
  OBVIOUS
<1>2. T \in SUBSET Nat /\ T # {}
  BY <1>1
<1>3. PICK x \in T : \A y \in T : x <= y
  <2> HIDE DEF T
  <2> QED BY <1>2, LeastNatural
<1>4. ASSUME NEW i \in 1 .. x PROVE queue[i] # current /\ queue[i] <= ack
  <2>1. x \in 0 .. Len(queue) /\ i \in 1 .. Len(queue) /\ i - 1 \in 0 .. Len(queue)
    BY <1>1
  <2>2. i - 1 \notin T
    <3>1. x \in Nat /\ i \in Nat /\ ~(x <= i - 1)
      BY <2>1
    <3> HIDE DEF T
    <3> QED BY <1>3, <3>1
  <2>3. ~(queue[i - 1 + 1] = current \/ queue[i - 1 + 1] > ack)
    BY <2>1, <2>2
  <2>4. i - 1 + 1 = i /\ queue[i] \in Nat
    BY <2>1
  <2> QED BY <2>3, <2>4
<1>5. \E n \in 0 .. Len(queue) :
        /\ \A i \in 1 .. n : queue[i] # current /\ queue[i] <= ack
        /\ n < Len(queue) => queue[n + 1] = current \/ queue[n + 1] > ack
  BY <1>4
<1> QED BY <1>5 DEF Acknowledged

(* What a client becomes when files leave the head of its queue.           *)
LEMMA AckFields ==
  ASSUME TransportInv, NEW c \in Client, NEW ack \in Nat, Ack(c, ack)
  PROVE  LET me == client[c]
             n  == Acknowledged(me.input_queue, me.current_file, ack)
         IN  /\ n \in Nat
             /\ acked' \in [Client -> Nat] /\ acked'[c] = acked[c] + n
             /\ \A d \in Client \ {c} : acked'[d] = acked[d]
             /\ n > 0 => acked[c] + n <= me.base + ack
             /\ me.current_file # None => n < me.current_file_index
             /\ \E x \in ClientState :
                  /\ client' = [client EXCEPT ![c] = x]
                  /\ x.state = "CONNECTED" /\ x.link = me.link /\ x.base = me.base
                  /\ x.current_file = me.current_file /\ x.deinit = me.deinit
                  /\ x.current_file_index = IF me.current_file_index >= n
                                            THEN me.current_file_index - n ELSE 0
                  /\ QueueOf(x, acked[c] + n)
<1> DEFINE me == client[c]
           q  == me.input_queue
           a  == acked[c]
           i0 == me.current_file_index
           n  == Acknowledged(me.input_queue, me.current_file, ack)
<1>1. /\ me \in ClientState /\ a \in Nat /\ q \in Seq(Nat) /\ Len(q) \in Nat
      /\ i0 \in Nat /\ me.base \in Nat /\ me.lastIdOut \in Nat /\ me.current_file \in Nat
      /\ QueueOf(me, a) /\ me.input_queue = q /\ me.current_file_index = i0
      /\ acked \in [Client -> Nat]
  BY ClientFields DEF TransportInv, TransportTypeOK, ClientQueues, ClientTypeOK
<1>2. me.state = "CONNECTED"
  BY DEF Ack, Incoming
<1>n. n \in 0 .. Len(q) /\ \A i \in 1 .. n : q[i] # me.current_file /\ q[i] <= ack
  <2>1. q \in Seq(Nat) /\ me.current_file \in Nat
    BY <1>1
  <2> HIDE DEF me
  <2> QED BY <2>1, AcknowledgedStops
<1> DEFINE p == SubSeq(q, n + 1, Len(q))
           j0 == IF i0 >= n THEN i0 - n ELSE 0
           x  == [me EXCEPT !.ack_id = ack, !.input_queue = p, !.current_file_index = j0]
<1>c. client' = [client EXCEPT ![c] = x]
  BY DEF Ack
<1>a. acked' = [acked EXCEPT ![c] = IF n = 0 THEN a ELSE me.base + q[n]]
  BY DEF Ack
<1> HIDE DEF n
<1>p. p \in Seq(Nat) /\ Len(p) = Len(q) - n /\ \A i \in 1 .. Len(q) - n : p[i] = q[n + i]
  <2>1. n \in Nat /\ n + 1 \in 1 .. Len(q) + 1 /\ q \in Seq(Nat) /\ Len(q) \in Nat /\ n <= Len(q)
    BY <1>1, <1>n
  <2> HIDE DEF q
  <2>2. p \in Seq(Nat) /\ Len(p) = Len(q) - n
    BY <2>1
  <2>3. \A i \in 1 .. Len(q) - n : p[i] = q[n + i]
    BY <2>1
  <2> QED BY <2>2, <2>3
<1> HIDE DEF q, p, i0, a
<1>j. j0 \in Nat /\ n \in Nat
  BY <1>1, <1>n
<1> HIDE DEF j0, me
<1>x. /\ x \in ClientState /\ x.state = me.state /\ x.link = me.link /\ x.base = me.base
      /\ x.current_file = me.current_file /\ x.deinit = me.deinit
      /\ x.input_queue = p /\ x.current_file_index = j0 /\ x.lastIdOut = me.lastIdOut
  BY <1>1, <1>p, <1>j DEF ClientState
<1> HIDE DEF x
<1>3. /\ me.base <= a /\ me.base + me.lastIdOut = a + Len(q)
      /\ \A i \in 1 .. Len(q) : me.base + q[i] = a + i
      /\ i0 <= Len(q)
      /\ me.current_file # None =>
           /\ me.deinit /\ i0 >= 1 /\ me.current_file = q[i0]
  BY <1>1 DEF QueueOf
<1>4. me.current_file # None => n < i0
  BY <1>1, <1>3, <1>n
<1>5. n > 0 => me.base + q[n] = a + n /\ q[n] <= ack /\ q[n] \in Nat
  <2>1. n > 0 => n \in 1 .. Len(q) /\ n \in 1 .. n
    BY <1>1, <1>n
  <2>2. n > 0 => me.base + q[n] = a + n
    BY <1>3, <2>1
  <2>3. n > 0 => q[n] <= ack
    BY <1>n, <2>1
  <2>4. n > 0 => q[n] \in Nat
    BY <1>1, <2>1, ElementOfSeq
  <2> QED BY <2>2, <2>3, <2>4
<1>6. n > 0 => a + n <= me.base + ack
  <2>1. me.base \in Nat /\ a \in Nat /\ n \in Nat
    BY <1>1, <1>n
  <2> QED BY <1>5, <2>1
<1>7. /\ acked' \in [Client -> Nat] /\ acked'[c] = a + n
      /\ \A d \in Client \ {c} : acked'[d] = acked[d]
  <2> DEFINE v == IF n = 0 THEN a ELSE me.base + q[n]
  <2>1. v = a + n /\ v \in Nat
    <3>1. CASE n = 0
      BY <1>1, <3>1
    <3>2. CASE n > 0
      <4>1. v = me.base + q[n] /\ me.base + q[n] = a + n
        BY <1>5, <3>2
      <4> QED BY <1>1, <1>j, <4>1
    <3> QED BY <1>j, <3>1, <3>2
  <2> HIDE DEF v
  <2>2. acked' = [acked EXCEPT ![c] = v]
    BY <1>a DEF v
  <2> QED BY <1>1, <2>1, <2>2
<1>8. QueueOf(x, a + n)
  <2>1. me.base <= a + n /\ me.base + me.lastIdOut = a + n + Len(p)
    BY <1>1, <1>3, <1>p, <1>n
  <2>2. ASSUME NEW i \in 1 .. Len(p) PROVE me.base + p[i] = a + n + i
    <3>0. Len(q) \in Nat /\ n \in Nat /\ n <= Len(q) /\ i \in 1 .. Len(q) - n
      BY <1>1, <1>p, <1>n
    <3>1. n + i \in 1 .. Len(q) /\ p[i] = q[n + i] /\ i \in Nat /\ n \in Nat
      BY <1>p, <3>0
    <3>2. me.base + q[n + i] = a + (n + i)
      BY <1>3, <3>1
    <3> QED BY <1>1, <3>1, <3>2
  <2>3. j0 <= Len(p)
    BY <1>1, <1>3, <1>p, <1>n DEF j0
  <2>4. ASSUME me.current_file # None
        PROVE  me.deinit /\ j0 >= 1 /\ me.current_file = p[j0]
    <3>1. j0 = i0 - n /\ j0 \in 1 .. Len(q) - n /\ n + j0 = i0
      BY <1>1, <1>3, <1>4, <1>n, <2>4 DEF j0
    <3>2. p[j0] = q[n + j0]
      BY <1>p, <3>1
    <3> QED BY <1>3, <2>4, <3>1, <3>2
  <2> QED BY <1>x, <2>1, <2>2, <2>3, <2>4 DEF QueueOf
<1> QED BY <1>2, <1>4, <1>6, <1>7, <1>8, <1>c, <1>j, <1>x DEF me, a, i0, n, j0

(* The client gets an ACK.                                                 *)
LEMMA AckKeepsInv ==
  ASSUME TransportInv, NEW c \in Client, NEW ack \in Nat, Ack(c, ack)
  PROVE  TransportInv'
<1>t. ClientTypeOK /\ LinkTypeOK /\ ServerTypeOK
  BY DEF TransportInv, TransportTypeOK
<1>0. Incoming(c, "CONNECTED", ACK(ack)) /\ client[c].state = "CONNECTED"
  BY DEF Ack, Incoming
<1>l. /\ link' \in [Link -> LinkState]
      /\ \A k \in Link :
           /\ link'[k].up = link[k].up /\ link'[k].clientOpen = link[k].clientOpen
           /\ link'[k].serverOpen = link[k].serverOpen
           /\ \A i \in 1 .. Len(link'[k].down) :
                \E j \in 1 .. Len(link[k].down) : link'[k].down[i] = link[k].down[j]
      /\ 1 \in 1 .. Len(link[client[c].link].down)
      /\ ACK(ack) = link[client[c].link].down[1]
  BY <1>0, IncomingLine
<1> DEFINE n == Acknowledged(client[c].input_queue, client[c].current_file, ack)
           a == acked[c]
           b == acked'[c]
           i0 == client[c].current_file_index
<1>n. /\ n \in Nat
      /\ acked' \in [Client -> Nat] /\ b = a + n
      /\ \A d \in Client \ {c} : acked'[d] = acked[d]
      /\ n > 0 => a + n <= client[c].base + ack
      /\ client[c].current_file # None => n < i0
  BY AckFields
<1>1. PICK x \in ClientState :
        /\ client' = [client EXCEPT ![c] = x]
        /\ x.state = "CONNECTED" /\ x.link = client[c].link /\ x.base = client[c].base
        /\ x.current_file = client[c].current_file /\ x.deinit = client[c].deinit
        /\ x.current_file_index = IF i0 >= n THEN i0 - n ELSE 0
        /\ QueueOf(x, a + n)
  BY AckFields
<1> HIDE DEF n
<1>2. a \in Nat /\ i0 \in Nat /\ client[c].base \in Nat /\ b \in Nat
  BY <1>t, <1>n, ClientFields
<1>4. client' \in [Client -> ClientState] /\ client'[c] = x /\ OnlyClient(c)
  BY <1>1, <1>t, ClientUpdated DEF ClientTypeOK
<1>7. written' = written /\ ServerUnchanged
  BY DEF Ack
<1>8. TransportTypeOK'
  BY <1>t, <1>l, <1>n, <1>4, <1>7 DEF TransportTypeOK, ClientTypeOK, LinkTypeOK, ServerTypeOK,
     ServerUnchanged, serverVars, mainVars
<1>d. Dispatched(c, b)
  <2>1. CASE n = 0
    <3>1. Dispatched(c, a)
      BY DEF TransportInv, Order
    <3> QED BY <1>2, <1>n, <2>1, <3>1
  <2>2. CASE n > 0
    <3>1. client[c].link # None
      BY <1>0, HasLink
    <3>2. Dispatched(c, client[c].base + ack)
      BY <1>l, <3>1, DownKinds DEF TransportInv, Acks
    <3>3. b <= client[c].base + ack /\ client[c].base + ack \in Nat
      BY <1>2, <1>n, <2>2
    <3> HIDE DEF b
    <3> QED BY <1>2, <3>2, <3>3 DEF Dispatched
  <2> QED BY <1>n, <2>1, <2>2
<1>6. /\ Sends(x) = Sends(client[c])
      /\ SentUpTo(client[c], a) <= SentUpTo(x, b)
      /\ SentUpTo(x, b) = SentUpTo(client[c], a) \/ SentUpTo(x, b) = b
  <2>1. Sends(x) = Sends(client[c])
    BY <1>0, <1>1 DEF Sends
  <2>2. /\ SentUpTo(client[c], a) = a + i0 - (IF client[c].current_file = None THEN 0 ELSE 1)
        /\ SentUpTo(x, b) = b + (IF i0 >= n THEN i0 - n ELSE 0)
                              - (IF client[c].current_file = None THEN 0 ELSE 1)
    BY <1>0, <1>1 DEF SentUpTo
  <2> HIDE DEF a, b, i0
  <2>3. CASE client[c].current_file = None
    BY <1>2, <1>n, <2>1, <2>2, <2>3
  <2>4. CASE client[c].current_file # None
    BY <1>2, <1>n, <2>1, <2>2, <2>4
  <2> QED BY <2>3, <2>4
<1>9. ClientAdvances(c)
  <2>2. client[c].link # None
    BY <1>0, HasLink
  <2>4. a <= b /\ QueueOf(x, b)
    BY <1>1, <1>2, <1>n
  <2>3. ClientGoes(c)
    BY <1>1, <1>4, <1>7, <1>l, <1>d, <1>n, <2>2, <2>4 DEF ClientGoes
  <2> QED BY <1>4, <1>6, <1>d, <1>l, <2>3 DEF ClientAdvances
<1> QED BY <1>8, <1>9, AdvanceKeepsInv

-----------------------------------------------------------------------------
(* A client sends a line that the server will read.                        *)
ClientSends(c, x) ==
  LET h == client[c].link IN
  /\ ClientGoes(c) /\ acked' = acked
  /\ link[h].serverOpen /\ x \in Up /\ link'[h].up = Append(link[h].up, x)
  /\ x.kind = Sends(client[c]) /\ Sends(client'[c]) = Then(x.kind)
  /\ \/ /\ x.kind = "File"
        /\ x.file.source = c /\ x.file.msg = client[c].base + x.file.id
        /\ x.file.msg = SentUpTo(client[c], acked[c]) + 1
        /\ SentUpTo(client'[c], acked[c]) = x.file.msg
     \/ /\ x.kind = "END"
        /\ SentUpTo(client'[c], acked[c]) = SentUpTo(client[c], acked[c])

(* What is sent is the line that the server expects next.                  *)
LEMMA SendKeepsLines ==
  ASSUME TransportInv, TransportTypeOK', NEW c \in Client, NEW x, ClientSends(c, x)
  PROVE  Lines'
<1>t. ClientTypeOK /\ LinkTypeOK /\ ServerTypeOK /\ Ends /\ Lines
  BY DEF TransportInv, TransportTypeOK
<1>s. cx' = cx /\ pushing' = pushing /\ backlog' = backlog
  BY GoesServer DEF ClientSends
<1> DEFINE h == client[c].link
<1>h. h \in Link /\ h # None /\ link[h].up \in Seq(Up)
  <2>1. h \in Link /\ h # None
    BY <1>t, ClientFields DEF ClientSends, ClientGoes
  <2> QED BY <2>1, <1>t, LinkTypes
<1>1. ASSUME NEW k \in Link, NEW first, InStep(k, first)
      PROVE  InStep(k, first)'
  <2>1. CASE k = h
    <3>1. Chained(link[k].up, first) /\ LastThen(link[k].up, first, x.kind)
      BY <1>1, <2>1 DEF InStep, ClientSends
    <3> DEFINE u == Append(link[k].up, x)
    <3>2. link'[k].up = u /\ x \in Up
      BY <2>1 DEF ClientSends
    <3>3. Chained(u, first) /\ LastThen(u, first, Then(x.kind))
      BY <1>h, <2>1, <3>1, <3>2, ChainedAppend
    <3>4. ASSUME NEW d \in Client, client'[d].link = k PROVE Sends(client'[d]) = Then(x.kind)
      <4>1. client[d].link = h
        BY <2>1, <3>4 DEF ClientSends, ClientGoes, OnlyClient
      <4>2. d = c
        BY <4>1, <1>h, <1>t DEF Ends, ClientEnd
      <4> QED BY <4>2 DEF ClientSends
    <3> HIDE DEF u
    <3> QED BY <3>2, <3>3, <3>4 DEF InStep
  <2>2. CASE k # h
    <3>1. link'[k].up = link[k].up
      BY <2>2 DEF ClientSends, ClientGoes
    <3>2. ASSUME NEW d \in Client, client'[d].link = k
          PROVE  client'[d] = client[d]
      BY <2>2, <3>2 DEF ClientSends, ClientGoes, OnlyClient
    <3> QED BY <1>1, <3>1, <3>2 DEF InStep
  <2> QED BY <2>1, <2>2
<1>2. ASSUME NEW s \in Slot, cx'[s].link # None PROVE InStep(cx[s].link, Expects(s))'
  <2> DEFINE k == cx[s].link
             first == Expects(s)
  <2>1. k \in Link /\ InStep(k, first) /\ first' = first
    BY <1>2, <1>s, <1>t, SlotFields DEF Lines, Expects
  <2>2. (InStep(k, first))'
    BY <1>1, <1>s, <2>1 DEF InStep
  <2> QED BY <2>2
<1>3. ASSUME NEW i \in 1 .. Len(backlog') PROVE InStep(backlog[i], "INI")'
  <2>1. backlog[i] \in Link /\ InStep(backlog[i], "INI")
    BY <1>s, <1>t, BacklogTypes DEF Lines
  <2> QED BY <2>1, <1>s, <1>1 DEF InStep
<1> QED BY <1>2, <1>3 DEF Lines

(* The file that a client sends next comes after those that it has sent.   *)
LEMMA SentBefore ==
  ASSUME ClientTypeOK, NEW c \in Client, NEW f \in File, NEW g \in File,
         SentBy(c, f), g.source = c, g.msg = client[c].base + g.id,
         g.msg = SentUpTo(client[c], acked[c]) + 1
  PROVE  Same(f, g) /\ Same(g, f) /\ f.id < g.id
<1>1. /\ f.id \in Nat /\ f.msg \in Nat /\ g.id \in Nat /\ g.msg \in Nat
      /\ client[c].base \in Nat /\ SentUpTo(client[c], acked[c]) \in Int
  BY FileFields, ClientFields
<1> QED BY <1>1 DEF SentBy, Same

(* A file that is sent has a higher number than all sent before it.        *)
LEMMA SendKeepsFiles ==
  ASSUME TransportInv, TransportTypeOK', NEW c \in Client, NEW x, ClientSends(c, x)
  PROVE  Files'
<1>t. ClientTypeOK /\ LinkTypeOK /\ ServerTypeOK /\ Ends /\ Files
  BY DEF TransportInv, TransportTypeOK
<1>s. /\ cx' = cx /\ Entries' = Entries /\ output_queue' = output_queue /\ inHand' = inHand
      /\ acked' = acked
  BY GoesServer DEF ClientSends
<1> DEFINE h == client[c].link
           up == link[h].up
           u == Append(up, x)
           g == x.file
           n == SentUpTo(client[c], acked[c])
           n1 == SentUpTo(client'[c], acked[c])
<1>h. h \in Link /\ h # None /\ up \in Seq(Up) /\ x \in Up /\ link'[h].up = u
      /\ client'[c].link = h /\ client'[c].base = client[c].base
      /\ \A k \in Link : k # h => link'[k].up = link[k].up
      /\ \A d \in Client : d # c => client'[d] = client[d]
  <2>1. h \in Link /\ h # None
    BY <1>t, ClientFields DEF ClientSends, ClientGoes
  <2> QED BY <2>1, <1>t, LinkTypes DEF ClientSends, ClientGoes, OnlyClient
<1>x. /\ n \in Int /\ n1 \in Int /\ n <= n1
      /\ x.kind = "File" => /\ g \in File /\ g.source = c /\ g.msg = client[c].base + g.id
                            /\ g.msg = n + 1 /\ n1 = g.msg
  <2>1. n \in Int
    BY <1>t, ClientFields
  <2>2. x.kind = "File" => /\ g \in File /\ g.source = c /\ g.msg = client[c].base + g.id
                            /\ g.msg = n + 1 /\ n1 = g.msg
    BY <1>h, UpKinds DEF ClientSends
  <2>3. x.kind = "File" \/ n1 = n
    BY DEF ClientSends
  <2> QED BY <2>1, <2>2, <2>3
<1>u. \A i : IsFile(u, i) =>
        \/ /\ i \in 1 .. Len(up) /\ IsFile(up, i) /\ u[i].file = up[i].file
        \/ /\ i = Len(up) + 1 /\ x.kind = "File" /\ u[i].file = g
  BY <1>h, AppendFiles
<1>m. Len(up) \in Nat /\ \A i \in 1 .. Len(up) : i \in Nat /\ i < Len(up) + 1
  BY <1>h
<1>c. FilesSent(c)
  BY <1>t DEF Files
<1>b. ASSUME NEW f \in File, SentBy(c, f), x.kind = "File"
      PROVE  Same(f, g) /\ Same(g, f) /\ f.id < g.id
  BY <1>b, <1>t, <1>x, SentBefore
<1>d. \A i : IsFile(up, i) => up[i].file \in File /\ SentBy(c, up[i].file)
  BY <1>c, <1>h, FilesAreFiles DEF FilesSent, IsFile
<1> HIDE DEF h, up, u, g, n, n1
<1>1. ASSUME NEW k \in Link PROVE FilesUp(k)'
  <2>1. CASE k # h
    BY <2>1, <1>h, <1>t DEF Files, FilesUp
  <2>2. CASE k = h
    <3>1. ASSUME NEW i, NEW j, IsFile(u, i), IsFile(u, j)
          PROVE  /\ Same(u[i].file, u[j].file)
                 /\ i < j => u[i].file.id < u[j].file.id
      <4>1. CASE IsFile(up, i) /\ u[i].file = up[i].file /\ IsFile(up, j) /\ u[j].file = up[j].file
        <5>1. FilesUp(h)
          BY <1>h, <1>t DEF Files
        <5>2. i \in 1 .. Len(up) /\ j \in 1 .. Len(up)
          BY <4>1 DEF IsFile
        <5> QED BY <4>1, <5>1, <5>2 DEF FilesUp, up
      <4>2. CASE IsFile(up, i) /\ u[i].file = up[i].file /\ x.kind = "File" /\ u[j].file = g
        BY <4>2, <1>b, <1>d
      <4>3. CASE /\ i = Len(up) + 1 /\ x.kind = "File" /\ u[i].file = g
                 /\ j \in 1 .. Len(up) /\ IsFile(up, j) /\ u[j].file = up[j].file
        <5>1. ~(i < j)
          BY <4>3, <1>m
        <5> QED BY <4>3, <5>1, <1>b, <1>d
      <4>4. CASE i = Len(up) + 1 /\ j = Len(up) + 1
        <5>1. ~(i < j)
          BY <4>4, <1>m
        <5> QED BY <4>4, <5>1 DEF Same
      <4> QED BY <3>1, <4>1, <4>2, <4>3, <4>4, <1>u
    <3> QED BY <2>2, <3>1, <1>h DEF FilesUp
  <2> QED BY <2>1, <2>2
<1>a. \A s, f : After(s, f)' <=> After(s, f)
  BY <1>s DEF After, Live
<1>2. ASSUME NEW s \in Slot PROVE FilesOfSlot(s)'
  <2>0. FilesOfSlot(s) /\ cx[s].link \in Link \union {None}
    BY <1>t, SlotFields DEF Files
  <2>1. cx'[s].file # NoFile => After(s, cx[s].file)'
    BY <1>s, <2>0 DEF FilesOfSlot, After, Live
  <2>2. ASSUME cx[s].link # None, NEW i, IsFile(link'[cx[s].link].up, i),
               NEW f, f = link'[cx[s].link].up[i].file
        PROVE  After(s, f) /\ (cx[s].file # NoFile => Same(cx[s].file, f) /\ cx[s].file.id < f.id)
    <3>1. CASE cx[s].link # h
      BY <2>0, <2>2, <3>1, <1>h DEF FilesOfSlot, IsFile
    <3>2. CASE cx[s].link = h
      <4>1. CASE IsFile(up, i) /\ u[i].file = up[i].file
        BY <2>0, <2>2, <3>2, <4>1, <1>h DEF FilesOfSlot, IsFile, up
      <4>2. CASE x.kind = "File" /\ u[i].file = g
        <5>1. /\ cx[s].file # NoFile => SentBy(c, cx[s].file)
              /\ \A e \in Entries : e.slot = s /\ Live(e) => SentBy(c, e.file)
              /\ client[c].base + cx[s].ack_file <= n
          BY <3>2, <1>c, <1>h DEF FilesSent, h, n
        <5>2. f = g
          BY <2>2, <3>2, <4>2, <1>h
        <5>3. cx[s].ack_file < g.id
          <6>1. /\ g.id \in Nat /\ cx[s].ack_file \in Nat /\ client[c].base \in Nat
                /\ client[c].base + g.id = n + 1
            BY <4>2, <1>x, <1>t, FileFields, SlotFields, ClientFields
          <6> QED BY <5>1, <6>1, <1>x
        <5>4. \A e \in Entries : e.slot = s /\ Live(e) => e.file.id < g.id
          BY <4>2, <5>1, <1>b, <1>t, EntryTypes
        <5>5. cx[s].file # NoFile => Same(cx[s].file, g) /\ cx[s].file.id < g.id
          BY <4>2, <5>1, <1>b, <1>t, SlotFields
        <5> QED BY <5>2, <5>3, <5>4, <5>5 DEF After
      <4> QED BY <2>2, <3>2, <4>1, <4>2, <1>h, <1>u
    <3> QED BY <3>1, <3>2
  <2> QED BY <2>1, <2>2, <1>s, <1>a DEF FilesOfSlot, After, Live
<1>3. FilesQueued'
  BY <1>s, <1>t DEF Files, FilesQueued, Live
<1>4. ASSUME NEW d \in Client PROVE FilesSent(d)'
  <2> SUFFICES ASSUME client'[d].link # None PROVE FilesSent(d)'
    BY DEF FilesSent
  <2>0. FilesSent(d)
    BY <1>t DEF Files
  <2>1. CASE d = c
    <3>1. \A f \in File : SentBy(c, f) => SentBy(c, f)'
      <4> TAKE f \in File
      <4>1. f.msg \in Nat
        BY FileFields
      <4> QED BY <4>1, <1>h, <1>s, <1>x DEF SentBy, n, n1
    <3>2. ASSUME NEW i, IsFile(u, i), NEW f, f = u[i].file
          PROVE  SentBy(c, f)'
      <4>1. CASE IsFile(up, i) /\ u[i].file = up[i].file
        BY <3>1, <3>2, <4>1, <1>d
      <4>2. CASE x.kind = "File" /\ u[i].file = g
        BY <3>2, <4>2, <1>h, <1>s, <1>x DEF SentBy, n1
      <4> QED BY <3>2, <4>1, <4>2, <1>u
    <3>3. ASSUME NEW s \in Slot, cx[s].link = h
          PROVE  /\ cx[s].file # NoFile => SentBy(c, cx[s].file)'
                 /\ \A e \in Entries : e.slot = s /\ Live(e) => SentBy(c, e.file)'
                 /\ client[c].base + cx[s].ack_file <= n1
      <4>1. /\ cx[s].file # NoFile => SentBy(c, cx[s].file)
            /\ \A e \in Entries : e.slot = s /\ Live(e) => SentBy(c, e.file)
            /\ client[c].base + cx[s].ack_file <= n
        BY <3>3, <1>c, <1>h DEF FilesSent, h, n
      <4>2. client[c].base \in Nat /\ cx[s].ack_file \in Nat
        BY <1>t, SlotFields, ClientFields
      <4>3. client[c].base + cx[s].ack_file <= n1
        BY <4>1, <4>2, <1>x
      <4>4. \A e \in Entries : e.slot = s /\ Live(e) => SentBy(c, e.file)'
        BY <4>1, <3>1, <1>t, EntryTypes
      <4>5. cx[s].file # NoFile => SentBy(c, cx[s].file)'
        <5>1. cx[s].file # NoFile => cx[s].file \in File
          BY <1>t, SlotFields
        <5>2. cx[s].file # NoFile => cx[s].file.msg \in Nat
          BY <5>1, FileFields, SMTT(30)
        <5> QED BY <4>1, <5>2, <1>h, <1>s, <1>x DEF SentBy, n, n1
      <4> QED BY <4>3, <4>4, <4>5
    <3> QED BY <2>1, <3>2, <3>3, <1>h, <1>s DEF FilesSent, SentBy, Live, n1
  <2>2. CASE d # c
    <3>1. client'[d] = client[d] /\ client[d].link # h /\ client[d].link \in Link
      <4>1. client'[d] = client[d]
        BY <2>2 DEF ClientSends, ClientGoes, OnlyClient
      <4>2. ClientEnd(c)
        BY <1>t DEF Ends
      <4>3. client[d].link # h
        BY <2>2, <4>2, <1>h DEF ClientEnd, h
      <4>4. client[d].link \in Link
        BY <4>1, <1>t, ClientFields
      <4> QED BY <4>1, <4>3, <4>4
    <3>2. link'[client[d].link].up = link[client[d].link].up
      BY <3>1, <1>h
    <3> QED BY <2>0, <3>1, <3>2, <1>s DEF FilesSent, SentBy, Live
  <2> QED BY <2>1, <2>2
<1> QED BY <1>1, <1>2, <1>3, <1>4 DEF Files

(* All messages before the one sent are on their way, queued or done.      *)
LEMMA SendKeepsOrder ==
  ASSUME TransportInv, TransportTypeOK', NEW c \in Client, NEW x, ClientSends(c, x)
  PROVE  Order'
<1>t. ClientTypeOK /\ LinkTypeOK /\ ServerTypeOK /\ Ends /\ Order
  BY DEF TransportInv, TransportTypeOK
<1>s. /\ cx' = cx /\ output_queue' = output_queue /\ inHand' = inHand
      /\ processed' = processed /\ acked' = acked
  BY GoesServer DEF ClientSends
<1> DEFINE h == client[c].link
           up == link[h].up
           u == Append(up, x)
           g == x.file
           n == SentUpTo(client[c], acked[c])
           n1 == SentUpTo(client'[c], acked[c])
<1>h. /\ h \in Link /\ h # None /\ up \in Seq(Up) /\ x \in Up /\ link'[h].up = u
      /\ client'[c].link = h /\ link[h].serverOpen
      /\ \A k \in Link : k # h => link'[k].up = link[k].up
      /\ \A k \in Link : link'[k].serverOpen = link[k].serverOpen
      /\ \A d \in Client : d # c => client'[d] = client[d]
  <2>1. h \in Link /\ h # None
    BY <1>t, ClientFields DEF ClientSends, ClientGoes
  <2> QED BY <2>1, <1>t, LinkTypes DEF ClientSends, ClientGoes, OnlyClient
<1>x. /\ n \in Int
      /\ \/ /\ x.kind = "File" /\ g \in File /\ g.source = c /\ g.msg = n + 1 /\ n1 = g.msg
         \/ x.kind # "File" /\ n1 = n
  <2>1. n \in Int
    BY <1>t, ClientFields
  <2> QED BY <1>h, <2>1, UpKinds DEF ClientSends
<1>u. \A i : IsFile(u, i) =>
        \/ IsFile(up, i) /\ u[i].file = up[i].file
        \/ x.kind = "File" /\ u[i].file = g
  BY <1>h, AppendFiles
<1>o. /\ \A i : IsFile(up, i) => IsFile(u, i) /\ u[i].file = up[i].file
      /\ x.kind = "File" => IsFile(u, Len(up) + 1) /\ u[Len(up) + 1].file = g
  <2>1. /\ Len(up) \in Nat /\ Len(u) = Len(up) + 1
        /\ \A i \in 1 .. Len(up) : i \in 1 .. Len(u) /\ u[i] = up[i]
        /\ u[Len(up) + 1] = x
    BY <1>h, AppendLines
  <2> HIDE DEF u, up
  <2>2. Len(up) + 1 \in 1 .. Len(u)
    BY <2>1
  <2> QED BY <2>1, <2>2 DEF IsFile
<1> HIDE DEF h, up, u, g, n, n1
<1>q. \A d, m, j : QueuedBefore(d, m, j)' <=> QueuedBefore(d, m, j)
  BY <1>s DEF QueuedBefore
<1>w. \A d, m : Queued(d, m)' <=> Queued(d, m)
  BY <1>s DEF QueuedBefore, Queued
<1>c. ASSUME NEW k \in Link, NEW d, NEW m, Carries(k, d, m) PROVE Carries(k, d, m)'
  <2>1. CASE k # h
    BY <1>c, <2>1, <1>h, <1>s DEF Carries
  <2>2. CASE k = h
    <3>1. CASE \E s \in Slot : /\ cx[s].link = k /\ cx[s].file # NoFile
                               /\ cx[s].file.source = d /\ cx[s].file.msg = m
      BY <3>1, <1>s DEF Carries
    <3>2. CASE \E i \in 1 .. Len(link[k].up) :
                 /\ IsFile(link[k].up, i)
                 /\ link[k].up[i].file.source = d /\ link[k].up[i].file.msg = m
      <4>1. PICK i \in 1 .. Len(link[k].up) :
                 /\ IsFile(link[k].up, i)
                 /\ link[k].up[i].file.source = d /\ link[k].up[i].file.msg = m
        BY <3>2
      <4>2. IsFile(u, i) /\ u[i].file = up[i].file /\ i \in 1 .. Len(u)
        BY <2>2, <4>1, <1>o DEF up, IsFile
      <4> QED BY <2>2, <4>1, <4>2, <1>h DEF Carries, up
    <3> QED BY <1>c, <3>1, <3>2 DEF Carries
  <2> QED BY <2>1, <2>2
<1>1. \A d \in Client : /\ \A m \in processed'[d] : Dispatched(d, m)'
                        /\ Dispatched(d, acked[d])'
  BY <1>s, <1>t DEF Order, Dispatched
<1>2. inHand' # NoFile => inHand'.file.msg \in processed'[inHand'.file.source]
  BY <1>s, <1>t DEF Order
<1>3. \A i \in 1 .. Len(output_queue') : \A m \in 1 .. output_queue'[i].file.msg - 1 :
        QueuedBefore(output_queue[i].file.source, m, i - 1)'
  <2>1. \A i \in 1 .. Len(output_queue) : \A m \in 1 .. output_queue[i].file.msg - 1 :
        QueuedBefore(output_queue[i].file.source, m, i - 1)
    BY <1>t DEF Order
  <2> QED BY <1>s, <2>1 DEF QueuedBefore
<1>v. ASSUME NEW m \in 1 .. n, NEW k \in Link, k = h PROVE Queued(c, m)' \/ Carries(k, c, m)'
  <2>1. Coming(h, c, n)
    BY <1>t, <1>h DEF Order, h, n
  <2>2. Queued(c, m) \/ Carries(k, c, m)
    BY <2>1, <1>v DEF Coming
  <2> QED BY <2>2, <1>c, <1>w
<1>4. ASSUME NEW k \in Link, NEW i, IsFile(link'[k].up, i),
             NEW d, d = link'[k].up[i].file.source,
             NEW m \in 1 .. link'[k].up[i].file.msg - 1
      PROVE  Queued(d, m)' \/ Carries(k, d, m)'
  <2>1. CASE IsFile(link[k].up, i) /\ link'[k].up[i].file = link[k].up[i].file
    <3>1. Coming(k, d, link[k].up[i].file.msg - 1) /\ i \in 1 .. Len(link[k].up)
      BY <2>1, <1>4, <1>t DEF Order, IsFile
    <3>2. Queued(d, m) \/ Carries(k, d, m)
      BY <3>1, <2>1, <1>4 DEF Coming
    <3> QED BY <3>2, <1>c, <1>w
  <2>2. CASE k = h /\ x.kind = "File" /\ link'[k].up[i].file = g
    <3>1. d = c /\ m \in 1 .. n
      BY <1>4, <2>2, <1>x
    <3> QED BY <2>2, <3>1, <1>v
  <2> QED BY <1>4, <2>1, <2>2, <1>h, <1>u DEF up
<1>5. \A s \in Slot : cx'[s].file # NoFile =>
        \A m \in 1 .. cx'[s].file.msg - 1 : Queued(cx[s].file.source, m)'
  <2>1. \A s \in Slot : cx[s].file # NoFile =>
        \A m \in 1 .. cx[s].file.msg - 1 : Queued(cx[s].file.source, m)
    BY <1>t DEF Order
  <2> QED BY <1>s, <2>1 DEF Queued, QueuedBefore
<1>6. ASSUME NEW d \in Client, client'[d].link # None, link'[client'[d].link].serverOpen,
             NEW m \in 1 .. SentUpTo(client'[d], acked'[d]),
             NEW k, k = client'[d].link
      PROVE  Queued(d, m)' \/ Carries(k, d, m)'
  <2>1. CASE d # c
    <3>0. client'[d] = client[d]
      BY <2>1 DEF ClientSends, ClientGoes, OnlyClient
    <3>1. client'[d] = client[d] /\ k \in Link /\ client[d].link = k
      BY <1>6, <3>0, <1>t, ClientFields
    <3>2. Queued(d, m) \/ Carries(k, d, m)
      BY <1>6, <3>1, <1>h, <1>s, <1>t DEF Order, Coming
    <3> QED BY <3>1, <3>2, <1>c, <1>w
  <2>2. CASE d = c
    <3>1. k = h /\ k \in Link /\ m \in 1 .. n1 /\ m \in Int
      BY <2>2, <1>6, <1>h, <1>s DEF n1
    <3>2. CASE m \in 1 .. n
      BY <2>2, <3>1, <3>2, <1>v
    <3>3. CASE m \notin 1 .. n
      <4>1. x.kind = "File" /\ g.source = c /\ g.msg = m
        BY <3>1, <3>3, <1>x
      <4>2. IsFile(u, Len(up) + 1) /\ u[Len(up) + 1].file = g /\ Len(up) + 1 \in 1 .. Len(u)
        BY <4>1, <1>o DEF IsFile
      <4> QED BY <2>2, <3>1, <4>1, <4>2, <1>h DEF Carries
    <3> QED BY <3>2, <3>3
  <2> QED BY <2>1, <2>2
<1>7. \A k \in Link : \A i \in 1 .. Len(link'[k].up) : IsFile(link'[k].up, i) =>
        Coming(k, link[k].up[i].file.source, link[k].up[i].file.msg - 1)'
  BY <1>4 DEF Coming
<1>8. \A d \in Client : client'[d].link # None /\ link'[client'[d].link].serverOpen =>
        Coming(client[d].link, d, SentUpTo(client[d], acked[d]))'
  BY <1>6 DEF Coming
<1> QED BY <1>1, <1>2, <1>3, <1>5, <1>7, <1>8 DEF Order

(* A line that is sent keeps the invariant.                                *)
LEMMA SendKeepsInv ==
  ASSUME TransportInv, TransportTypeOK', NEW c \in Client, NEW x, ClientSends(c, x)
  PROVE  TransportInv'
<1>1. ClientGoes(c)
  BY DEF ClientSends
<1> QED BY <1>1, GoesKeepsEnds, GoesKeepsAcks, SendKeepsLines, SendKeepsFiles,
           SendKeepsOrder DEF TransportInv

(* What a client sends is added to its connection, or lost if the server   *)
(* has closed it.                                                          *)
LEMMA SendingKeepsInv ==
  ASSUME TransportInv, NEW c \in Client, client[c].state = "CONNECTED",
         NEW x \in Up, NEW me \in ClientState,
         client' = [client EXCEPT ![c] = me],
         link' = [link EXCEPT ![client[c].link] = SendUp(@, x)],
         UNCHANGED <<written, acked>>, ServerUnchanged,
         me.state = "CONNECTED", me.link = client[c].link, me.base = client[c].base,
         QueueOf(me, acked[c]),
         x.kind = Sends(client[c]), Sends(me) = Then(x.kind),
         \/ /\ x.kind = "File"
            /\ x.file.source = c /\ x.file.msg = client[c].base + x.file.id
            /\ x.file.msg = SentUpTo(client[c], acked[c]) + 1
            /\ SentUpTo(me, acked[c]) = x.file.msg
         \/ /\ x.kind = "END"
            /\ SentUpTo(me, acked[c]) = SentUpTo(client[c], acked[c])
  PROVE  TransportInv'
<1>t. ClientTypeOK /\ LinkTypeOK /\ ServerTypeOK
  BY DEF TransportInv, TransportTypeOK
<1> DEFINE h == client[c].link
           l == SendUp(link[h], x)
<1>h. h \in Link /\ h # None /\ link[h] \in LinkState
  BY HasLink
<1>1. /\ l \in LinkState
      /\ l.up = IF link[h].serverOpen THEN Append(link[h].up, x) ELSE link[h].up
      /\ l.down = link[h].down
      /\ l.clientOpen = link[h].clientOpen /\ l.serverOpen = link[h].serverOpen
  BY <1>h, SendUpFields
<1>2. link' = [link EXCEPT ![h] = l]
  OBVIOUS
<1>3. link \in [Link -> LinkState] /\ client \in [Client -> ClientState]
  BY <1>t DEF LinkTypeOK, ClientTypeOK
<1>4. client' \in [Client -> ClientState] /\ client'[c] = me /\ OnlyClient(c)
  BY <1>3, ClientUpdated
<1> HIDE DEF l
<1>5. link' \in [Link -> LinkState] /\ link'[h] = l /\ OnlyLink(h)
  <2> HIDE DEF h
  <2> QED BY <1>h, <1>1, <1>2, <1>3, LinkUpdated
<1>6. acked' = acked /\ written' = written
  OBVIOUS
<1>7. TransportTypeOK'
  BY <1>t, <1>4, <1>5, <1>6 DEF TransportTypeOK, ClientTypeOK, LinkTypeOK, ServerTypeOK,
     ServerUnchanged, serverVars, mainVars
<1>8. ClientGoes(c)
  <2>1. Dispatched(c, acked[c]) /\ acked[c] \in Nat
    BY <1>t, ClientFields DEF TransportInv, Order
  <2>2. ASSUME NEW k \in Link
        PROVE  /\ link'[k].clientOpen = link[k].clientOpen
               /\ link'[k].serverOpen = link[k].serverOpen
               /\ k # h \/ ~link[k].serverOpen => link'[k].up = link[k].up
               /\ link'[k].down = link[k].down
    <3>1. CASE k = h
      BY <1>1, <1>5, <3>1
    <3>2. CASE k # h
      BY <1>5, <3>2 DEF OnlyLink
    <3> QED BY <3>1, <3>2
  <2>3. h # None /\ client'[c].link = h /\ client'[c].state # "NOT_CONNECTED"
        /\ client'[c].base = client[c].base
    BY <1>h, <1>4
  <2>4. QueueOf(client'[c], acked'[c]) /\ acked[c] <= acked'[c] /\ Dispatched(c, acked'[c])
    BY <1>4, <1>6, <2>1
  <2> QED BY <1>4, <1>6, <2>2, <2>3, <2>4 DEF ClientGoes
<1>9. CASE link[h].serverOpen
  <2>1. ClientSends(c, x)
    BY <1>1, <1>4, <1>5, <1>6, <1>8, <1>9 DEF ClientSends
  <2> QED BY <1>7, <2>1, SendKeepsInv
<1>10. CASE ~link[h].serverOpen
  <2>1. SentUpTo(client[c], acked[c]) \in Int
    BY <1>t, ClientFields
  <2>2. SentUpTo(client[c], acked[c]) <= SentUpTo(client'[c], acked'[c])
    BY <1>4, <1>6, <2>1
  <2>3. \A k \in Link : link'[k].up = link[k].up
    BY <1>1, <1>5, <1>10 DEF OnlyLink
  <2>4. ClientAdvances(c)
    BY <1>8, <1>10, <2>2, <2>3 DEF ClientAdvances
  <2> QED BY <1>7, <2>4, AdvanceKeepsInv
<1> QED BY <1>9, <1>10

(* The client sends its current file.                                      *)
LEMMA SendFileKeepsInv ==
  ASSUME TransportInv, NEW c \in Client, SendFile(c)
  PROVE  TransportInv'
<1> DEFINE me == client[c]
           a == acked[c]
           i0 == me.current_file_index
           v == None
           y == [me EXCEPT !.current_file = v]
           f == [source |-> c, id |-> me.current_file, msg |-> me.base + me.current_file]
           x == FileSent(f)
<1>1. /\ me \in ClientState /\ a \in Nat /\ i0 \in Nat /\ me.base \in Nat
      /\ me.current_file \in Nat /\ QueueOf(me, a)
      /\ Len(me.input_queue) \in Nat
  BY ClientFields DEF TransportInv, TransportTypeOK, ClientQueues
<1>2. me.state = "CONNECTED" /\ me.current_file # None
  BY DEF SendFile
<1>3. i0 \in 1 .. Len(me.input_queue) /\ me.current_file = me.input_queue[i0] /\ me.deinit
  <2>1. me.deinit /\ i0 >= 1 /\ i0 <= Len(me.input_queue) /\ me.current_file = me.input_queue[i0]
    BY <1>1, <1>2 DEF QueueOf
  <2> QED BY <1>1, <2>1
<1>4. me.base + me.current_file = a + i0
  BY <1>1, <1>3 DEF QueueOf
<1>5. /\ f.source = c /\ f.id = me.current_file /\ f.msg = me.base + me.current_file
      /\ f \in File
  <2>1. me.current_file \in Nat \ {0} /\ me.base + me.current_file \in Nat \ {0}
    BY <1>1, <1>2 DEF None
  <2> QED BY <2>1 DEF File
<1>6. client' = [client EXCEPT ![c] = y] /\ link' = [link EXCEPT ![me.link] = SendUp(@, x)]
      /\ UNCHANGED <<written, acked>> /\ ServerUnchanged
  BY DEF SendFile
<1>7. v \in Nat /\ v = None
  BY DEF None
<1> HIDE DEF v
<1>8. /\ y \in ClientState /\ y.state = me.state /\ y.link = me.link /\ y.base = me.base
      /\ y.current_file = v /\ y.current_file_index = i0 /\ y.deinit = me.deinit
      /\ y.input_queue = me.input_queue /\ y.lastIdOut = me.lastIdOut
  BY <1>1, <1>7 DEF ClientState
<1> HIDE DEF y, f
<1>9. x \in Up /\ x.kind = "File" /\ x.file = f
  BY <1>5, UpKinds
<1> HIDE DEF x
<1>10. QueueOf(y, a)
  BY <1>1, <1>7, <1>8 DEF QueueOf
<1>11. Sends(me) = "File" /\ Sends(y) = "END" /\ Then("File") = "END"
  BY <1>2, <1>3, <1>7, <1>8 DEF Sends, Then
<1>12. SentUpTo(me, a) = a + i0 - 1 /\ SentUpTo(y, a) = a + i0
  BY <1>1, <1>2, <1>7, <1>8 DEF SentUpTo
<1>13. f.msg = SentUpTo(me, a) + 1 /\ SentUpTo(y, a) = f.msg
  BY <1>1, <1>4, <1>5, <1>12
<1>14. /\ x.kind = Sends(me) /\ Sends(y) = Then(x.kind)
       /\ x.file.source = c /\ x.file.msg = me.base + x.file.id
       /\ x.file.msg = SentUpTo(me, a) + 1 /\ SentUpTo(y, a) = x.file.msg
  BY <1>5, <1>9, <1>11, <1>13
<1>15. y.state = "CONNECTED" /\ y.link = me.link /\ y.base = me.base
  BY <1>2, <1>8
<1> QED BY <1>2, <1>6, <1>8, <1>9, <1>10, <1>14, <1>15, SendingKeepsInv

(* The client sends the line after the file.                               *)
LEMMA SendEndKeepsInv ==
  ASSUME TransportInv, NEW c \in Client, SendEnd(c)
  PROVE  TransportInv'
<1> DEFINE me == client[c]
           a == acked[c]
           y == [me EXCEPT !.deinit = FALSE]
           x == END
<1>1. me \in ClientState /\ a \in Nat /\ QueueOf(me, a)
  BY ClientFields DEF TransportInv, TransportTypeOK, ClientQueues
<1>2. me.state = "CONNECTED" /\ me.current_file = None /\ me.deinit
  BY DEF SendEnd
<1>6. client' = [client EXCEPT ![c] = y] /\ link' = [link EXCEPT ![me.link] = SendUp(@, x)]
      /\ UNCHANGED <<written, acked>> /\ ServerUnchanged
  BY DEF SendEnd
<1>8. /\ y \in ClientState /\ y.state = me.state /\ y.link = me.link /\ y.base = me.base
      /\ y.current_file = me.current_file /\ y.current_file_index = me.current_file_index
      /\ y.deinit = FALSE
      /\ y.input_queue = me.input_queue /\ y.lastIdOut = me.lastIdOut
  BY <1>1 DEF ClientState
<1> HIDE DEF y
<1>9. x \in Up /\ x.kind = "END"
  BY UpKinds
<1> HIDE DEF x
<1>10. QueueOf(y, a)
  BY <1>1, <1>2, <1>8 DEF QueueOf
<1>11. Sends(me) = "END" /\ Sends(y) = "File" /\ Then("END") = "File"
  BY <1>2, <1>8 DEF Sends, Then
<1>12. SentUpTo(y, a) = SentUpTo(me, a)
  BY <1>8 DEF SentUpTo
<1> QED BY <1>2, <1>6, <1>8, <1>9, <1>10, <1>11, <1>12, SendingKeepsInv

-----------------------------------------------------------------------------
(* A client opens a connection, by a link that nobody held.                *)
ConnectsTo(c, k) ==
  /\ k \in Link /\ link[k].up = <<>> /\ ~link[k].serverOpen
  /\ \A d \in Client : client[d].link # k
  /\ \A s \in Slot : cx[s].link # k
  /\ \A i \in 1 .. Len(backlog) : backlog[i] # k
  /\ client[c].link = None
  /\ client'[c].link = k /\ client'[c].state = "OPEN_CLIENT" /\ QueueOf(client'[c], acked[c])
  /\ OnlyClient(c) /\ OnlyLink(k)
  /\ link'[k].up = <<INI>> /\ link'[k].down = <<>>
  /\ link'[k].clientOpen /\ link'[k].serverOpen
  /\ backlog' = Append(backlog, k)
  /\ acked' = acked /\ cx' = cx /\ cx_counter' = cx_counter /\ pushing' = pushing
  /\ output_queue' = output_queue /\ inHand' = inHand /\ processed' = processed

(* The new connection has the lowest free number and holds INI.            *)
LEMMA ConnectFacts ==
  ASSUME TransportInv, NEW c \in Client, Connect(c)
  PROVE  TransportTypeOK' /\ \E k \in Link : ConnectsTo(c, k)
<1>t. ClientTypeOK /\ LinkTypeOK /\ ServerTypeOK /\ Ends
  BY DEF TransportInv, TransportTypeOK
<1>0. client[c].state = "NOT_CONNECTED" /\ client[c].link = None
  BY <1>t DEF Connect, Connected, Ends, ClientEnd
<1> DEFINE new == [up |-> <<INI>>, down |-> <<>>, clientOpen |-> TRUE, serverOpen |-> TRUE]
<1>1. PICK k \in Link :
        /\ link[k] = FreeLink
        /\ link' = [link EXCEPT ![k] = new]
        /\ backlog' = Append(backlog, k)
        /\ client' = [client EXCEPT ![c].state = "OPEN_CLIENT", ![c].link = k]
  BY DEF Connect, Connected
<1>2. UNCHANGED <<written, acked, serverVars, mainVars, faults>>
  BY DEF Connect, Connected
<1>3. /\ new \in LinkState /\ new.up = <<INI>> /\ new.down = <<>>
      /\ new.clientOpen /\ new.serverOpen
  <2>1. <<INI>> \in Seq(Up) /\ <<>> \in Seq(Down)
    BY UpKinds
  <2> QED BY <2>1 DEF LinkState
<1> HIDE DEF new
<1>4. link' \in [Link -> LinkState] /\ link'[k] = new /\ OnlyLink(k)
  BY <1>1, <1>3, <1>t, LinkUpdated DEF LinkTypeOK
<1> DEFINE me == [client[c] EXCEPT !.state = "OPEN_CLIENT", !.link = k]
<1>5. client' = [client EXCEPT ![c] = me]
  BY <1>1
<1>6. /\ client[c] \in ClientState /\ acked[c] \in Nat /\ QueueOf(client[c], acked[c])
      /\ k \in Link \union {None}
  BY <1>t, ClientFields DEF TransportInv, ClientQueues
<1>7. /\ me \in ClientState /\ me.link = k /\ me.state = "OPEN_CLIENT"
      /\ me.input_queue = client[c].input_queue
      /\ me.current_file_index = client[c].current_file_index
      /\ me.current_file = client[c].current_file /\ me.deinit = client[c].deinit
      /\ me.base = client[c].base /\ me.lastIdOut = client[c].lastIdOut
  BY <1>6 DEF ClientState
<1> HIDE DEF me
<1>8. QueueOf(me, acked[c])
  BY <1>6, <1>7 DEF QueueOf
<1>9. client' \in [Client -> ClientState] /\ client'[c] = me /\ OnlyClient(c)
  BY <1>5, <1>7, <1>t, ClientUpdated DEF ClientTypeOK
<1>10. backlog' \in Seq(Link)
  BY <1>1, <1>t, AppendProperties DEF LinkTypeOK
<1>11. TransportTypeOK'
  BY <1>2, <1>4, <1>9, <1>10, <1>t DEF TransportTypeOK, ClientTypeOK, LinkTypeOK, ServerTypeOK,
     serverVars, mainVars
<1>12. /\ \A d \in Client : client[d].link # k
       /\ \A s \in Slot : cx[s].link # k
       /\ \A i \in 1 .. Len(backlog) : backlog[i] # k
  <2>1. ~link[k].clientOpen /\ ~link[k].serverOpen /\ k # None
    BY <1>1, FreeLinkFields, Nothing
  <2>2. \A d \in Client : client[d].link # k
    BY <2>1, <1>t DEF Ends, ClientEnd
  <2>3. \A s \in Slot : cx[s].link # k
    BY <2>1, <1>t DEF Ends, SlotEnd
  <2>4. \A i \in 1 .. Len(backlog) : backlog[i] # k
    BY <2>1, <1>t DEF Ends, BacklogEnd
  <2> QED BY <2>2, <2>3, <2>4
<1>13. ConnectsTo(c, k)
  BY <1>0, <1>1, <1>2, <1>3, <1>4, <1>7, <1>8, <1>9, <1>12, FreeLinkFields
     DEF ConnectsTo, serverVars, mainVars
<1> QED BY <1>11, <1>13

(* Nothing that the server has in hand comes by the new connection.        *)
LEMMA ConnectEntries ==
  ASSUME TransportInv, NEW c \in Client, NEW k \in Link, ConnectsTo(c, k)
  PROVE  /\ Entries' = Entries /\ k # None
         /\ \A j \in Link : j # k => link'[j] = link[j]
         /\ \A d \in Client : d # c => client'[d] = client[d]
         /\ \A i : ~IsFile(link'[k].up, i)
         /\ Len(backlog) \in Nat /\ Len(backlog') = Len(backlog) + 1
         /\ \A i \in 1 .. Len(backlog) : backlog'[i] = backlog[i]
         /\ backlog'[Len(backlog) + 1] = k
         /\ \A i \in 1 .. Len(backlog') : i \in 1 .. Len(backlog) \/ i = Len(backlog) + 1
<1>1. Entries' = Entries
  BY DEF ConnectsTo, Entries, InHand
<1>2. \A i : ~IsFile(link'[k].up, i)
  <2>1. Len(<<INI>>) = 1 /\ 1 .. 1 = {1} /\ <<INI>>[1] = INI
    OBVIOUS
  <2> QED BY <2>1, UpKinds DEF IsFile, ConnectsTo
<1>3. backlog \in Seq(Link)
  BY DEF TransportInv, TransportTypeOK, LinkTypeOK
<1>4. backlog' = Append(backlog, k)
  BY DEF ConnectsTo
<1>5. /\ Len(backlog) \in Nat /\ Len(backlog') = Len(backlog) + 1
      /\ \A i \in 1 .. Len(backlog) : backlog'[i] = backlog[i]
      /\ backlog'[Len(backlog) + 1] = k
  BY <1>3, <1>4, AppendProperties
<1>6. \A i \in 1 .. Len(backlog') : i \in 1 .. Len(backlog) \/ i = Len(backlog) + 1
  BY <1>5
<1> QED BY <1>1, <1>2, <1>5, <1>6, Nothing DEF ConnectsTo, OnlyLink, OnlyClient

(* The new connection has one client and one place in the backlog.         *)
LEMMA ConnectKeepsEnds ==
  ASSUME TransportInv, TransportTypeOK', NEW c \in Client, NEW k \in Link, ConnectsTo(c, k)
  PROVE  ClientQueues' /\ Ends'
<1>t. ClientTypeOK /\ LinkTypeOK /\ ServerTypeOK /\ Ends /\ ClientQueues
  BY DEF TransportInv, TransportTypeOK
<1>e. /\ Entries' = Entries /\ k # None
      /\ \A j \in Link : j # k => link'[j] = link[j]
      /\ \A d \in Client : d # c => client'[d] = client[d]
  BY ConnectEntries
<1>b. /\ Len(backlog) \in Nat /\ Len(backlog') = Len(backlog) + 1
      /\ \A i \in 1 .. Len(backlog) : backlog'[i] = backlog[i]
      /\ backlog'[Len(backlog) + 1] = k
      /\ \A i \in 1 .. Len(backlog') : i \in 1 .. Len(backlog) \/ i = Len(backlog) + 1
  BY ConnectEntries
<1>1. ASSUME NEW d \in Client PROVE QueueOf(client[d], acked[d])'
  <2>1. QueueOf(client'[d], acked'[d])
    BY <1>e, <1>t DEF ConnectsTo, ClientQueues
  <2> QED BY <2>1 DEF QueueOf
<1>2. ASSUME NEW d \in Client PROVE ClientEnd(d)'
  <2>1. CASE d = c
    <3>1. \A e \in Client : client'[e].link = k => e = c
      BY <1>e DEF ConnectsTo
    <3> QED BY <2>1, <3>1, <1>e DEF ConnectsTo, ClientEnd
  <2>2. CASE d # c
    <3>1. client'[d] = client[d] /\ ClientEnd(d)
      BY <2>2, <1>e, <1>t DEF Ends
    <3>2. client[d].link # k /\ client[d].link \in Link \union {None}
      BY <1>t, ClientFields DEF ConnectsTo
    <3>3. client[d].link # None => link'[client[d].link] = link[client[d].link]
      BY <3>2, <1>e
    <3>4. \A e \in Client : client'[e].link = client[d].link => client[e].link = client[d].link
      BY <3>2, <1>e DEF ConnectsTo
    <3> QED BY <3>1, <3>3, <3>4 DEF ClientEnd
  <2> QED BY <2>1, <2>2
<1>3. ASSUME NEW s \in Slot PROVE SlotEnd(s)'
  <2>1. SlotEnd(s) /\ cx[s].link \in Link \union {None} /\ cx[s].link # k
    BY <1>t, SlotFields DEF Ends, ConnectsTo
  <2>2. cx[s].link # None => link'[cx[s].link] = link[cx[s].link]
    BY <2>1, <1>e
  <2> QED BY <2>1, <2>2 DEF SlotEnd, ConnectsTo
<1>4. ASSUME NEW i \in 1 .. Len(backlog') PROVE BacklogEnd(i)'
  <2>1. CASE i \in 1 .. Len(backlog)
    <3>1. BacklogEnd(i) /\ backlog[i] \in Link /\ backlog[i] # k /\ backlog'[i] = backlog[i]
      BY <2>1, <1>b, <1>t, BacklogTypes DEF Ends, ConnectsTo
    <3>2. link'[backlog'[i]].serverOpen
      BY <3>1, <1>e DEF BacklogEnd
    <3>3. \A s \in Slot : cx'[s].link # backlog'[i]
      BY <3>1 DEF BacklogEnd, ConnectsTo
    <3>4. ASSUME NEW j \in 1 .. Len(backlog'), backlog'[j] = backlog'[i] PROVE j = i
      <4>1. j \in 1 .. Len(backlog)
        BY <3>1, <3>4, <1>b
      <4> QED BY <3>1, <3>4, <4>1, <1>b DEF BacklogEnd
    <3> QED BY <3>2, <3>3, <3>4 DEF BacklogEnd
  <2>2. CASE i = Len(backlog) + 1
    <3>1. backlog'[i] = k
      BY <2>2, <1>b
    <3>2. ASSUME NEW j \in 1 .. Len(backlog'), backlog'[j] = backlog'[i] PROVE j = i
      <4>1. j \notin 1 .. Len(backlog)
        BY <3>1, <3>2, <1>b DEF ConnectsTo
      <4> QED BY <2>2, <4>1, <1>b
    <3> QED BY <3>1, <3>2 DEF BacklogEnd, ConnectsTo
  <2> QED BY <2>1, <2>2, <1>b
<1>5. pushing' # None => cx'[pushing'].file # NoFile
  BY <1>t DEF Ends, ConnectsTo
<1>6. \A j \in Link : ~link'[j].serverOpen => link'[j].up = <<>>
  BY <1>e, <1>t DEF Ends, ConnectsTo
<1>7. \A e \in Entries' : e.sender < cx_counter'
  BY <1>e, <1>t DEF Ends, ConnectsTo
<1> QED BY <1>1, <1>2, <1>3, <1>4, <1>5, <1>6, <1>7 DEF Ends, ClientQueues

(* INI is what the server expects first.                                   *)
LEMMA ConnectKeepsLines ==
  ASSUME TransportInv, TransportTypeOK', NEW c \in Client, NEW k \in Link, ConnectsTo(c, k)
  PROVE  Lines'
<1>t. ClientTypeOK /\ LinkTypeOK /\ ServerTypeOK /\ Lines
  BY DEF TransportInv, TransportTypeOK
<1>e. /\ k # None
      /\ \A j \in Link : j # k => link'[j] = link[j]
      /\ \A d \in Client : d # c => client'[d] = client[d]
      /\ \A i \in 1 .. Len(backlog) : backlog'[i] = backlog[i]
      /\ backlog'[Len(backlog) + 1] = k
      /\ \A i \in 1 .. Len(backlog') : i \in 1 .. Len(backlog) \/ i = Len(backlog) + 1
  BY ConnectEntries
<1>1. ASSUME NEW j \in Link, j # k, NEW first, InStep(j, first)
      PROVE  InStep(j, first)'
  <2>1. link'[j] = link[j]
    BY <1>1, <1>e
  <2>2. \A d \in Client : client'[d].link = j => client'[d] = client[d]
    BY <1>1, <1>e DEF ConnectsTo
  <2> QED BY <1>1, <2>1, <2>2 DEF InStep
<1>2. ASSUME NEW s \in Slot, cx'[s].link # None PROVE InStep(cx[s].link, Expects(s))'
  <2> DEFINE j == cx[s].link
             first == Expects(s)
  <2>1. j \in Link /\ j # k /\ InStep(j, first)
    BY <1>2, <1>t, SlotFields DEF Lines, ConnectsTo
  <2>2. j' = j /\ first' = first
    BY DEF ConnectsTo, Expects
  <2>3. (InStep(j, first))'
    BY <1>1, <2>1, <2>2 DEF InStep
  <2> QED BY <2>3
<1>3. ASSUME NEW i \in 1 .. Len(backlog') PROVE InStep(backlog[i], "INI")'
  <2>1. CASE i \in 1 .. Len(backlog)
    <3>1. backlog[i] \in Link /\ backlog[i] # k /\ InStep(backlog[i], "INI")
      BY <2>1, <1>t, BacklogTypes DEF Lines, ConnectsTo
    <3> QED BY <2>1, <3>1, <1>e, <1>1 DEF InStep
  <2>2. CASE i = Len(backlog) + 1
    <3>1. backlog'[i] = k /\ link'[k].up = <<INI>>
      BY <2>2, <1>e DEF ConnectsTo
    <3>2. Len(<<INI>>) = 1 /\ <<INI>>[1] = INI /\ 1 .. 1 - 1 = {} /\ <<INI>> # <<>>
      OBVIOUS
    <3>3. Chained(<<INI>>, "INI") /\ LastThen(<<INI>>, "INI", "File")
      BY <3>2, UpKinds DEF Chained, LastThen, Then
    <3>4. ASSUME NEW d \in Client, client'[d].link = k PROVE Sends(client'[d]) = "File"
      <4>1. d = c
        BY <3>4, <1>e DEF ConnectsTo
      <4> QED BY <4>1 DEF Sends, ConnectsTo
    <3> QED BY <3>1, <3>3, <3>4 DEF InStep
  <2> QED BY <2>1, <2>2, <1>e
<1> QED BY <1>2, <1>3 DEF Lines

(* There is no file yet on the new connection.                             *)
LEMMA ConnectKeepsFiles ==
  ASSUME TransportInv, TransportTypeOK', NEW c \in Client, NEW k \in Link, ConnectsTo(c, k)
  PROVE  Files'
<1>t. ClientTypeOK /\ LinkTypeOK /\ ServerTypeOK /\ Files
  BY DEF TransportInv, TransportTypeOK
<1>e. /\ Entries' = Entries /\ k # None
      /\ \A j \in Link : j # k => link'[j] = link[j]
      /\ \A d \in Client : d # c => client'[d] = client[d]
      /\ \A i : ~IsFile(link'[k].up, i)
  BY ConnectEntries
<1>s. /\ cx' = cx /\ output_queue' = output_queue /\ inHand' = inHand /\ acked' = acked
      /\ client'[c].link = k
  BY DEF ConnectsTo
<1>1. ASSUME NEW j \in Link PROVE FilesUp(j)'
  <2>1. CASE j = k
    BY <2>1, <1>e DEF FilesUp
  <2>2. CASE j # k
    BY <2>2, <1>e, <1>t DEF Files, FilesUp
  <2> QED BY <2>1, <2>2
<1>2. ASSUME NEW s \in Slot PROVE FilesOfSlot(s)'
  <2>1. FilesOfSlot(s) /\ cx[s].link \in Link \union {None} /\ cx[s].link # k
    BY <1>t, SlotFields DEF Files, ConnectsTo
  <2>2. cx[s].link # None => link'[cx[s].link] = link[cx[s].link]
    BY <2>1, <1>e
  <2> QED BY <1>s, <1>e, <2>1, <2>2 DEF FilesOfSlot, After, Live
<1>3. FilesQueued'
  BY <1>s, <1>e, <1>t DEF Files, FilesQueued, Live
<1>4. ASSUME NEW d \in Client PROVE FilesSent(d)'
  <2>1. CASE d = c
    <3>1. \A s \in Slot : cx'[s].link # k
      BY DEF ConnectsTo
    <3> QED BY <2>1, <3>1, <1>e, <1>s DEF FilesSent
  <2>2. CASE d # c
    <3>1. client'[d] = client[d] /\ FilesSent(d)
      BY <2>2, <1>e, <1>t DEF Files
    <3>2. client[d].link # None => link'[client[d].link] = link[client[d].link]
      BY <1>t, <1>e, ClientFields DEF ConnectsTo
    <3> QED BY <3>1, <3>2, <1>e, <1>s DEF FilesSent, SentBy, Live
  <2> QED BY <2>1, <2>2
<1> QED BY <1>1, <1>2, <1>3, <1>4 DEF Files

(* The client counts as sent what was acknowledged to it, no more.         *)
LEMMA ConnectKeepsOrder ==
  ASSUME TransportInv, TransportTypeOK', NEW c \in Client, NEW k \in Link, ConnectsTo(c, k)
  PROVE  Order'
<1>t. ClientTypeOK /\ LinkTypeOK /\ ServerTypeOK /\ Order
  BY DEF TransportInv, TransportTypeOK
<1>e. /\ \A j \in Link : j # k => link'[j] = link[j]
      /\ \A d \in Client : d # c => client'[d] = client[d]
      /\ \A i : ~IsFile(link'[k].up, i)
  BY ConnectEntries
<1>s. /\ cx' = cx /\ output_queue' = output_queue /\ inHand' = inHand
      /\ processed' = processed /\ acked' = acked /\ client'[c].link = k
  BY DEF ConnectsTo
<1>w. \A d, m : Queued(d, m)' <=> Queued(d, m)
  BY <1>s DEF QueuedBefore, Queued
<1>c. ASSUME NEW j \in Link, j # k, NEW d, NEW m, Carries(j, d, m) PROVE Carries(j, d, m)'
  <2>1. link'[j] = link[j]
    BY <1>c, <1>e
  <2> QED BY <1>c, <1>s, <2>1 DEF Carries
<1>1. \A d \in Client : /\ \A m \in processed'[d] : Dispatched(d, m)'
                        /\ Dispatched(d, acked[d])'
  BY <1>s, <1>t DEF Order, Dispatched
<1>2. inHand' # NoFile => inHand'.file.msg \in processed'[inHand'.file.source]
  BY <1>s, <1>t DEF Order
<1>3. \A i \in 1 .. Len(output_queue') : \A m \in 1 .. output_queue'[i].file.msg - 1 :
        QueuedBefore(output_queue[i].file.source, m, i - 1)'
  <2>1. \A i \in 1 .. Len(output_queue) : \A m \in 1 .. output_queue[i].file.msg - 1 :
        QueuedBefore(output_queue[i].file.source, m, i - 1)
    BY <1>t DEF Order
  <2> QED BY <1>s, <2>1 DEF QueuedBefore
<1>4. ASSUME NEW j \in Link, NEW i, IsFile(link'[j].up, i),
             NEW d, d = link'[j].up[i].file.source,
             NEW m \in 1 .. link'[j].up[i].file.msg - 1
      PROVE  Queued(d, m)' \/ Carries(j, d, m)'
  <2>1. j # k /\ link'[j] = link[j]
    BY <1>4, <1>e
  <2>2. Coming(j, d, link[j].up[i].file.msg - 1) /\ i \in 1 .. Len(link[j].up)
    BY <2>1, <1>4, <1>t DEF Order, IsFile
  <2>3. Queued(d, m) \/ Carries(j, d, m)
    BY <2>1, <2>2, <1>4 DEF Coming
  <2> QED BY <2>1, <2>3, <1>c, <1>w
<1>5. \A s \in Slot : cx'[s].file # NoFile =>
        \A m \in 1 .. cx'[s].file.msg - 1 : Queued(cx[s].file.source, m)'
  <2>1. \A s \in Slot : cx[s].file # NoFile =>
        \A m \in 1 .. cx[s].file.msg - 1 : Queued(cx[s].file.source, m)
    BY <1>t DEF Order
  <2> QED BY <1>s, <2>1 DEF Queued, QueuedBefore
<1>6. ASSUME NEW d \in Client, client'[d].link # None, link'[client'[d].link].serverOpen,
             NEW m \in 1 .. SentUpTo(client'[d], acked'[d]),
             NEW j, j = client'[d].link
      PROVE  Queued(d, m)' \/ Carries(j, d, m)'
  <2>1. CASE d = c
    <3>1. SentUpTo(client'[c], acked'[c]) = acked[c]
      BY <1>s DEF SentUpTo, ConnectsTo
    <3>2. Dispatched(c, acked[c])
      BY <1>t DEF Order
    <3> QED BY <1>6, <2>1, <3>1, <3>2, <1>s DEF Dispatched, Queued, QueuedBefore
  <2>2. CASE d # c
    <3>1. client'[d] = client[d] /\ j \in Link /\ client[d].link = j /\ j # k
      BY <1>6, <2>2, <1>e, <1>t, ClientFields DEF ConnectsTo
    <3>2. link'[j] = link[j]
      BY <3>1, <1>e
    <3>3. Queued(d, m) \/ Carries(j, d, m)
      BY <1>6, <3>1, <3>2, <1>s, <1>t DEF Order, Coming
    <3> QED BY <3>1, <3>3, <1>c, <1>w
  <2> QED BY <2>1, <2>2
<1>7. \A j \in Link : \A i \in 1 .. Len(link'[j].up) : IsFile(link'[j].up, i) =>
        Coming(j, link[j].up[i].file.source, link[j].up[i].file.msg - 1)'
  BY <1>4 DEF Coming
<1>8. \A d \in Client : client'[d].link # None /\ link'[client'[d].link].serverOpen =>
        Coming(client[d].link, d, SentUpTo(client[d], acked[d]))'
  BY <1>6 DEF Coming
<1> QED BY <1>1, <1>2, <1>3, <1>5, <1>7, <1>8 DEF Order

(* No ACK comes by the new connection yet.                                 *)
LEMMA ConnectKeepsAcks ==
  ASSUME TransportInv, NEW c \in Client, NEW k \in Link, ConnectsTo(c, k)
  PROVE  Acks'
<1>t. ClientTypeOK /\ Acks
  BY DEF TransportInv, TransportTypeOK
<1>e. /\ \A j \in Link : j # k => link'[j] = link[j]
      /\ \A d \in Client : d # c => client'[d] = client[d]
  BY ConnectEntries
<1> SUFFICES ASSUME NEW d \in Client, client'[d].link # None
             PROVE  /\ \A i \in 1 .. Len(link'[client'[d].link].down) :
                         (LET x == link[client[d].link].down[i] IN
                          x.kind = "ACK" => Dispatched(d, client[d].base + x.id))'
                    /\ \A s \in Slot : cx'[s].link = client'[d].link =>
                         Dispatched(d, client[d].base + cx[s].ack_file)'
  BY DEF Acks
<1>1. CASE d = c
  <2>1. 1 .. Len(<<>>) = {}
    OBVIOUS
  <2> QED BY <1>1, <2>1 DEF ConnectsTo
<1>2. CASE d # c
  <2>1. client'[d] = client[d]
    BY <1>2, <1>e
  <2>2. link'[client[d].link] = link[client[d].link]
    BY <2>1, <1>t, <1>e, ClientFields DEF ConnectsTo
  <2>3. /\ \A i \in 1 .. Len(link[client[d].link].down) :
             link[client[d].link].down[i].kind = "ACK" =>
               Dispatched(d, client[d].base + link[client[d].link].down[i].id)
        /\ \A s \in Slot : cx[s].link = client[d].link =>
             Dispatched(d, client[d].base + cx[s].ack_file)
    BY <2>1, <1>t DEF Acks
  <2> QED BY <2>1, <2>2, <2>3 DEF ConnectsTo, Dispatched
<1> QED BY <1>1, <1>2

(* A client connects.                                                      *)
LEMMA ConnectKeepsInv ==
  ASSUME TransportInv, NEW c \in Client, Connect(c)
  PROVE  TransportInv'
<1>1. PICK k \in Link : ConnectsTo(c, k)
  BY ConnectFacts
<1>2. TransportTypeOK'
  BY ConnectFacts
<1> QED BY <1>1, <1>2, ConnectKeepsEnds, ConnectKeepsLines, ConnectKeepsFiles,
           ConnectKeepsOrder, ConnectKeepsAcks DEF TransportInv

-----------------------------------------------------------------------------
(* The server gives a free slot to the first connection of the backlog.    *)
AcceptsIn(s) ==
  /\ backlog # <<>> /\ backlog' = Tail(backlog)
  /\ cx[s].link = None
  /\ cx' \in [Slot -> SlotState] /\ OnlySlot(s)
  /\ cx'[s].link = backlog[1] /\ cx'[s].cx_id = cx_counter /\ cx'[s].state = "INIT"
  /\ cx'[s].file = NoFile /\ cx'[s].ack_file = 0
  /\ cx_counter' = cx_counter + 1 /\ pushing = None /\ pushing' = None
  /\ client' = client /\ acked' = acked /\ written' = written /\ link' = link
  /\ output_queue' = output_queue /\ inHand' = inHand /\ processed' = processed

(* A slot that gets a connection is initialized.                           *)
LEMMA AcceptedFields ==
  ASSUME ServerTypeOK, NEW k \in Link, NEW slot
  PROVE  LET x == Accepted(slot, k)
         IN  /\ x \in SlotState /\ x.link = k /\ x.cx_id = cx_counter /\ x.state = "INIT"
             /\ x.file = NoFile /\ x.ack_file = 0
<1> DEFINE n == cx_counter
           x == [FreeSlot EXCEPT !.link = k, !.cx_id = n]
<1>1. n \in Int /\ k \in Link \union {None}
  BY DEF ServerTypeOK
<1>2. Accepted(slot, k) = x
  BY DEF Accepted
<1> HIDE DEF n
<1>3. /\ x \in SlotState /\ x.link = k /\ x.cx_id = n /\ x.state = FreeSlot.state
      /\ x.file = FreeSlot.file /\ x.ack_file = FreeSlot.ack_file
  BY <1>1, FreeSlotFields DEF SlotState
<1> HIDE DEF x
<1> QED BY <1>2, <1>3, FreeSlotFields DEF n

(* The connection leaves the backlog and gets a slot and a cx_id.          *)
LEMMA AcceptFacts ==
  ASSUME TransportInv, NEW s \in Slot, ServerThread, backlog # <<>>,
         backlog' = Tail(backlog), cx[s].link = None,
         cx' = [cx EXCEPT ![s] = Accepted(@, Head(backlog))],
         cx_counter' = cx_counter + 1, UNCHANGED <<link, pushing, mainVars>>
  PROVE  AcceptsIn(s) /\ TransportTypeOK'
<1>t. ClientTypeOK /\ LinkTypeOK /\ ServerTypeOK
  BY DEF TransportInv, TransportTypeOK
<1>b. /\ backlog' \in Seq(Link) /\ Head(backlog) = backlog[1] /\ 1 \in 1 .. Len(backlog)
  BY <1>t, BacklogTail
<1>k. backlog[1] \in Link
  BY <1>b, <1>t, BacklogTypes
<1> DEFINE x == Accepted(cx[s], backlog[1])
<1>1. /\ x \in SlotState /\ x.link = backlog[1] /\ x.cx_id = cx_counter /\ x.state = "INIT"
      /\ x.file = NoFile /\ x.ack_file = 0
  BY <1>k, <1>t, AcceptedFields
<1>2. cx' = [cx EXCEPT ![s] = x] /\ cx \in [Slot -> SlotState]
  BY <1>b, <1>t DEF ServerTypeOK
<1> HIDE DEF x
<1>3. cx' \in [Slot -> SlotState] /\ cx'[s] = x /\ OnlySlot(s)
  BY <1>1, <1>2, SlotUpdated
<1>4. AcceptsIn(s)
  BY <1>1, <1>3 DEF AcceptsIn, ServerThread, mainVars, clientVars
<1>5. TransportTypeOK'
  <2>1. cx_counter' \in Nat
    BY <1>t DEF ServerTypeOK
  <2> QED BY <1>b, <1>4, <1>t, <2>1 DEF AcceptsIn, TransportTypeOK, ClientTypeOK, LinkTypeOK,
             ServerTypeOK
<1> QED BY <1>4, <1>5

(* No file of the slot's earlier connections counts for the new one.       *)
LEMMA AcceptEntries ==
  ASSUME TransportInv, NEW s \in Slot, AcceptsIn(s)
  PROVE  /\ Entries' = Entries
         /\ \A t \in Slot : t # s => cx'[t] = cx[t]
         /\ \A e \in Entries : Live(e)' => e.slot # s /\ Live(e) /\ cx'[e.slot] = cx[e.slot]
         /\ BacklogEnd(1) /\ backlog[1] \in Link /\ backlog[1] # None
         /\ cx[s].file = NoFile
<1>t. LinkTypeOK /\ ServerTypeOK /\ Ends
  BY DEF TransportInv, TransportTypeOK
<1>1. Entries' = Entries
  BY DEF AcceptsIn, Entries, InHand
<1>2. \A t \in Slot : t # s => cx'[t] = cx[t]
  BY DEF AcceptsIn, OnlySlot
<1>3. ASSUME NEW e \in Entries, Live(e)'
      PROVE  e.slot # s /\ Live(e) /\ cx'[e.slot] = cx[e.slot]
  <2>1. e.slot \in Slot /\ e.sender \in Nat /\ e.sender < cx_counter /\ cx_counter \in Nat
    BY <1>t, EntryTypes DEF Ends, ServerTypeOK
  <2>2. e.slot # s
    BY <1>3, <2>1 DEF Live, AcceptsIn
  <2> QED BY <1>2, <1>3, <2>1, <2>2 DEF Live
<1>4. BacklogEnd(1) /\ backlog[1] \in Link /\ backlog[1] # None
  <2>1. 1 \in 1 .. Len(backlog)
    BY <1>t, BacklogTail DEF AcceptsIn
  <2> QED BY <1>t, <2>1, BacklogTypes DEF Ends
<1>5. cx[s].file = NoFile
  BY <1>t DEF AcceptsIn, Ends, SlotEnd
<1> QED BY <1>1, <1>2, <1>3, <1>4, <1>5

(* A connection in a slot is in the backlog no more.                       *)
LEMMA AcceptKeepsEnds ==
  ASSUME TransportInv, TransportTypeOK', NEW s \in Slot, AcceptsIn(s)
  PROVE  ClientQueues' /\ Ends'
<1>t. ClientTypeOK /\ LinkTypeOK /\ ServerTypeOK /\ Ends /\ ClientQueues
  BY DEF TransportInv, TransportTypeOK
<1>e. /\ Entries' = Entries
      /\ \A t \in Slot : t # s => cx'[t] = cx[t]
      /\ BacklogEnd(1) /\ backlog[1] \in Link /\ backlog[1] # None
  BY AcceptEntries
<1>b. /\ 1 \in 1 .. Len(backlog)
      /\ \A i \in 1 .. Len(backlog') :
           i + 1 \in 2 .. Len(backlog) /\ backlog'[i] = backlog[i + 1]
  BY <1>t, BacklogTail DEF AcceptsIn
<1>c. cx_counter \in Nat
  BY <1>t DEF ServerTypeOK
<1>1. ClientQueues'
  BY <1>t DEF ClientQueues, QueueOf, AcceptsIn
<1>2. \A d \in Client : ClientEnd(d)'
  BY <1>t DEF Ends, ClientEnd, AcceptsIn
<1>3. ASSUME NEW t \in Slot PROVE SlotEnd(t)'
  <2>1. CASE t = s
    <3>1. \A r \in Slot : cx'[r].link = backlog[1] => r = s
      BY <1>e DEF BacklogEnd
    <3>2. link'[backlog[1]].serverOpen
      BY <1>e DEF BacklogEnd, AcceptsIn
    <3>3. cx_counter >= 0 /\ cx_counter < cx_counter'
      BY <1>c DEF AcceptsIn
    <3> QED BY <2>1, <3>1, <3>2, <3>3, <1>e DEF SlotEnd, AcceptsIn
  <2>2. CASE t # s
    <3>1. cx'[t] = cx[t] /\ SlotEnd(t) /\ cx[t].link # backlog[1] /\ cx[t].cx_id \in Int
      BY <2>2, <1>e, <1>t, SlotFields DEF Ends, BacklogEnd
    <3>2. \A r \in Slot : cx'[r].link = cx[t].link => cx[r].link = cx[t].link
      BY <3>1, <1>e DEF AcceptsIn
    <3>3. cx[t].cx_id < cx_counter => cx[t].cx_id < cx_counter'
      BY <3>1, <1>c DEF AcceptsIn
    <3>4. link' = link
      BY DEF AcceptsIn
    <3> QED BY <3>1, <3>2, <3>3, <3>4 DEF SlotEnd
  <2> QED BY <2>1, <2>2
<1>4. ASSUME NEW i \in 1 .. Len(backlog') PROVE BacklogEnd(i)'
  <2>1. i + 1 \in 1 .. Len(backlog) /\ i + 1 # 1 /\ backlog'[i] = backlog[i + 1] /\ i \in Nat
    BY <1>b
  <2>2. BacklogEnd(i + 1)
    BY <2>1, <1>t DEF Ends
  <2>3. backlog[i + 1] # backlog[1]
    BY <2>1, <1>b, <1>e DEF BacklogEnd
  <2>4. \A t \in Slot : cx'[t].link # backlog'[i]
    BY <2>1, <2>2, <2>3, <1>e DEF BacklogEnd, AcceptsIn
  <2>5. ASSUME NEW j \in 1 .. Len(backlog'), backlog'[j] = backlog'[i] PROVE j = i
    <3>1. j + 1 \in 1 .. Len(backlog) /\ backlog[j + 1] = backlog[i + 1] /\ j \in Nat
      BY <2>1, <2>5, <1>b
    <3>2. j + 1 = i + 1
      BY <2>2, <3>1 DEF BacklogEnd
    <3> QED BY <2>1, <3>1, <3>2
  <2> QED BY <2>1, <2>2, <2>4, <2>5 DEF BacklogEnd, AcceptsIn
<1>5. pushing' # None => cx'[pushing'].file # NoFile
  BY DEF AcceptsIn
<1>6. \A k \in Link : ~link'[k].serverOpen => link'[k].up = <<>>
  BY <1>t DEF Ends, AcceptsIn
<1>7. \A e \in Entries' : e.sender < cx_counter'
  BY <1>c, <1>e, <1>t, EntryTypes DEF Ends, AcceptsIn
<1> QED BY <1>1, <1>2, <1>3, <1>4, <1>5, <1>6, <1>7 DEF Ends

(* The slot expects what the connection in the backlog did.                *)
LEMMA AcceptKeepsLines ==
  ASSUME TransportInv, NEW s \in Slot, AcceptsIn(s)
  PROVE  Lines'
<1>t. LinkTypeOK /\ ServerTypeOK /\ Lines
  BY DEF TransportInv, TransportTypeOK
<1>e. \A t \in Slot : t # s => cx'[t] = cx[t]
  BY AcceptEntries
<1>b. /\ 1 \in 1 .. Len(backlog)
      /\ \A i \in 1 .. Len(backlog') :
           i + 1 \in 2 .. Len(backlog) /\ backlog'[i] = backlog[i + 1]
  BY <1>t, BacklogTail DEF AcceptsIn
<1>1. ASSUME NEW k, NEW first, InStep(k, first) PROVE InStep(k, first)'
  BY <1>1 DEF InStep, AcceptsIn
<1>2. ASSUME NEW t \in Slot, cx'[t].link # None PROVE InStep(cx[t].link, Expects(t))'
  <2>1. CASE t = s
    <3>1. InStep(backlog[1], "INI")
      BY <1>b, <1>t DEF Lines
    <3>2. cx'[t].link = backlog[1] /\ Expects(t)' = "INI"
      BY <2>1, Nothing DEF AcceptsIn, Expects
    <3> QED BY <3>1, <3>2, <1>1 DEF InStep
  <2>2. CASE t # s
    <3> DEFINE k == cx[t].link
               first == Expects(t)
    <3>1. cx'[t] = cx[t] /\ InStep(k, first) /\ first' = first
      BY <1>2, <2>2, <1>e, <1>t DEF Lines, Expects, AcceptsIn
    <3>2. (InStep(k, first))'
      BY <1>1, <3>1 DEF InStep
    <3> QED BY <3>2
  <2> QED BY <2>1, <2>2
<1>3. ASSUME NEW i \in 1 .. Len(backlog') PROVE InStep(backlog[i], "INI")'
  <2>1. i + 1 \in 1 .. Len(backlog) /\ backlog'[i] = backlog[i + 1]
    BY <1>b
  <2>2. InStep(backlog[i + 1], "INI")
    BY <2>1, <1>t DEF Lines
  <2> QED BY <2>1, <2>2, <1>1 DEF InStep
<1> QED BY <1>2, <1>3 DEF Lines

(* No entry of the output queue has the new cx_id.                         *)
LEMMA AcceptKeepsFiles ==
  ASSUME TransportInv, NEW s \in Slot, AcceptsIn(s)
  PROVE  Files'
<1>t. ClientTypeOK /\ LinkTypeOK /\ ServerTypeOK /\ Files /\ ClientQueues
  BY DEF TransportInv, TransportTypeOK
<1>e. /\ Entries' = Entries
      /\ \A t \in Slot : t # s => cx'[t] = cx[t]
      /\ \A e \in Entries : Live(e)' => e.slot # s /\ Live(e) /\ cx'[e.slot] = cx[e.slot]
      /\ backlog[1] \in Link /\ backlog[1] # None
  BY AcceptEntries
<1>s. /\ client' = client /\ acked' = acked /\ link' = link
      /\ output_queue' = output_queue /\ inHand' = inHand
      /\ cx'[s].link = backlog[1] /\ cx'[s].file = NoFile /\ cx'[s].ack_file = 0
  BY DEF AcceptsIn
<1>1. \A k \in Link : FilesUp(k)'
  BY <1>s, <1>t DEF Files, FilesUp
<1>a. ASSUME NEW t \in Slot, t # s, NEW f, After(t, f) PROVE After(t, f)'
  BY <1>a, <1>e DEF After
<1>2. ASSUME NEW t \in Slot PROVE FilesOfSlot(t)'
  <2>1. CASE t = s
    <3>1. ASSUME NEW i, IsFile(link[backlog[1]].up, i)
          PROVE  0 < link[backlog[1]].up[i].file.id
      <4>1. link[backlog[1]].up[i].file \in File
        BY <3>1, <1>e, <1>t, LinkTypes, FilesAreFiles
      <4> QED BY <4>1, FileFields
    <3>2. \A e \in Entries : e.slot = s => ~Live(e)'
      BY <1>e
    <3> QED BY <2>1, <3>1, <3>2, <1>e, <1>s DEF FilesOfSlot, After, Live
  <2>2. CASE t # s
    <3>1. cx'[t] = cx[t] /\ FilesOfSlot(t)
      BY <2>2, <1>e, <1>t DEF Files
    <3>2. cx[t].file # NoFile => After(t, cx[t].file)'
      BY <2>2, <3>1, <1>a DEF FilesOfSlot, After
    <3>3. ASSUME cx[t].link # None, NEW i \in 1 .. Len(link[cx[t].link].up),
                 IsFile(link[cx[t].link].up, i)
          PROVE  LET f == link[cx[t].link].up[i].file
                 IN  /\ After(t, f) /\ \A e \in Entries : e.slot = t /\ Live(e)' => e.file.id < f.id
                     /\ cx[t].file # NoFile => Same(cx[t].file, f) /\ cx[t].file.id < f.id
      BY <3>1, <3>3, <1>e DEF FilesOfSlot, After
    <3> QED BY <2>2, <3>1, <3>2, <3>3, <1>e, <1>s DEF FilesOfSlot, After
  <2> QED BY <2>1, <2>2
<1>3. FilesQueued'
  <2>0. FilesQueued
    BY <1>t DEF Files
  <2>1. \A e \in Entries' : Live(e)' => cx'[e.slot].ack_file < e.file.id
    BY <2>0, <1>e DEF FilesQueued
  <2>2. \A i \in 1 .. Len(output_queue) : Live(output_queue[i])' => Live(output_queue[i])
    <3>1. \A i \in 1 .. Len(output_queue) : output_queue[i] \in Entries
      BY <1>t, EntryTypes
    <3> QED BY <3>1, <1>e, <1>s DEF Live
  <2> QED BY <2>0, <2>1, <2>2, <1>s DEF FilesQueued, Live
<1>4. ASSUME NEW d \in Client PROVE FilesSent(d)'
  <2> SUFFICES ASSUME client'[d].link # None PROVE FilesSent(d)'
    BY DEF FilesSent
  <2>0. FilesSent(d) /\ client[d].link # None
    BY <1>t, <1>s DEF Files
  <2>b. \A f : SentBy(d, f)' <=> SentBy(d, f)
    BY <1>s DEF SentBy
  <2>1. \A i \in 1 .. Len(link[client[d].link].up) :
          IsFile(link[client[d].link].up, i) => SentBy(d, link[client[d].link].up[i].file)
    BY <2>0 DEF FilesSent
  <2>2. ASSUME NEW t \in Slot, cx'[t].link = client[d].link
        PROVE  /\ cx'[t].file # NoFile => SentBy(d, cx'[t].file)
               /\ \A e \in Entries : e.slot = t /\ Live(e)' => SentBy(d, e.file)
               /\ client[d].base + cx'[t].ack_file <= SentUpTo(client[d], acked[d])
    <3>1. CASE t = s
      <4>1. client[d] \in ClientState /\ acked[d] \in Nat /\ QueueOf(client[d], acked[d])
            /\ client[d].base \in Nat
        BY <1>t, ClientFields DEF ClientQueues
      <4>2. client[d].base <= acked[d] /\ acked[d] <= SentUpTo(client[d], acked[d])
            /\ SentUpTo(client[d], acked[d]) \in Int
        BY <4>1, SentFields
      <4>3. client[d].base + 0 <= SentUpTo(client[d], acked[d])
        BY <4>1, <4>2
      <4> QED BY <3>1, <4>3, <1>e, <1>s
    <3>2. CASE t # s
      BY <2>0, <2>2, <3>2, <1>e DEF FilesSent
    <3> QED BY <3>1, <3>2
  <2> QED BY <2>1, <2>2, <1>e, <1>s DEF FilesSent, SentBy, Live
<1> QED BY <1>1, <1>2, <1>3, <1>4 DEF Files

(* No file is lost when a connection is accepted.                          *)
LEMMA AcceptKeepsOrder ==
  ASSUME TransportInv, NEW s \in Slot, AcceptsIn(s)
  PROVE  Order'
<1>t. ClientTypeOK /\ LinkTypeOK /\ ServerTypeOK /\ Order
  BY DEF TransportInv, TransportTypeOK
<1>e. /\ \A t \in Slot : t # s => cx'[t] = cx[t]
      /\ cx[s].file = NoFile
  BY AcceptEntries
<1>s. /\ client' = client /\ acked' = acked /\ link' = link
      /\ output_queue' = output_queue /\ inHand' = inHand /\ processed' = processed
      /\ cx'[s].file = NoFile
  BY DEF AcceptsIn
<1>w. \A d, m : Queued(d, m) => Queued(d, m)'
  BY <1>s DEF QueuedBefore, Queued
<1>c. \A k, d, m : Carries(k, d, m) => Carries(k, d, m)'
  <2> TAKE k, d, m
  <2>1. ASSUME NEW t \in Slot, cx[t].link = k, cx[t].file # NoFile,
               cx[t].file.source = d, cx[t].file.msg = m
        PROVE  Carries(k, d, m)'
    <3>1. cx'[t] = cx[t]
      BY <2>1, <1>e
    <3> QED BY <2>1, <3>1 DEF Carries
  <2> QED BY <2>1, <1>s DEF Carries
<1>n. \A k, d, n : Coming(k, d, n) => Coming(k, d, n)'
  BY <1>w, <1>c DEF Coming
<1>1. \A d \in Client : /\ \A m \in processed'[d] : Dispatched(d, m)'
                        /\ Dispatched(d, acked[d])'
  BY <1>s, <1>t DEF Order, Dispatched
<1>2. inHand' # NoFile => inHand'.file.msg \in processed'[inHand'.file.source]
  BY <1>s, <1>t DEF Order
<1>3. \A i \in 1 .. Len(output_queue') : \A m \in 1 .. output_queue'[i].file.msg - 1 :
        QueuedBefore(output_queue[i].file.source, m, i - 1)'
  <2>1. \A i \in 1 .. Len(output_queue) : \A m \in 1 .. output_queue[i].file.msg - 1 :
        QueuedBefore(output_queue[i].file.source, m, i - 1)
    BY <1>t DEF Order
  <2> QED BY <1>s, <2>1 DEF QueuedBefore
<1>4. \A k \in Link : \A i \in 1 .. Len(link'[k].up) : IsFile(link'[k].up, i) =>
        Coming(k, link[k].up[i].file.source, link[k].up[i].file.msg - 1)'
  <2>1. \A k \in Link : \A i \in 1 .. Len(link[k].up) : IsFile(link[k].up, i) =>
          Coming(k, link[k].up[i].file.source, link[k].up[i].file.msg - 1)
    BY <1>t DEF Order
  <2> QED BY <2>1, <1>s, <1>w, <1>c DEF Coming
<1>5. \A t \in Slot : cx'[t].file # NoFile =>
        \A m \in 1 .. cx'[t].file.msg - 1 : Queued(cx[t].file.source, m)'
  <2>1. \A t \in Slot : cx[t].file # NoFile =>
        \A m \in 1 .. cx[t].file.msg - 1 : Queued(cx[t].file.source, m)
    BY <1>t DEF Order
  <2>2. \A t \in Slot : cx'[t].file # NoFile => cx'[t] = cx[t]
    BY <1>e, <1>s
  <2> QED BY <1>s, <2>1, <2>2 DEF Queued, QueuedBefore
<1>6. \A d \in Client : client'[d].link # None /\ link'[client'[d].link].serverOpen =>
        Coming(client[d].link, d, SentUpTo(client[d], acked[d]))'
  <2>1. \A d \in Client : client[d].link # None /\ link[client[d].link].serverOpen =>
          Coming(client[d].link, d, SentUpTo(client[d], acked[d]))
    BY <1>t DEF Order
  <2> QED BY <2>1, <1>s, <1>w, <1>c DEF Coming
<1> QED BY <1>1, <1>2, <1>3, <1>4, <1>5, <1>6 DEF Order

(* The slot has acknowledged nothing on this connection.                   *)
LEMMA AcceptKeepsAcks ==
  ASSUME TransportInv, NEW s \in Slot, AcceptsIn(s)
  PROVE  Acks'
<1>t. ClientTypeOK /\ Acks /\ ClientQueues /\ Order
  BY DEF TransportInv, TransportTypeOK
<1>e. \A t \in Slot : t # s => cx'[t] = cx[t]
  BY AcceptEntries
<1>s. client' = client /\ link' = link /\ processed' = processed /\ cx'[s].ack_file = 0
  BY DEF AcceptsIn
<1>1. ASSUME NEW d \in Client, client[d].link # None,
             NEW t \in Slot, cx'[t].link = client[d].link
      PROVE  Dispatched(d, client[d].base + cx'[t].ack_file)
  <2>1. CASE t = s
    <3>1. client[d].base \in Nat /\ acked[d] \in Nat /\ client[d].base <= acked[d]
      BY <1>t, ClientFields DEF ClientQueues, QueueOf
    <3>2. Dispatched(d, acked[d])
      BY <1>t DEF Order
    <3>3. \A m \in 1 .. client[d].base + 0 : m \in 1 .. acked[d]
      BY <3>1
    <3> QED BY <2>1, <3>2, <3>3, <1>s DEF Dispatched
  <2>2. CASE t # s
    BY <1>1, <2>2, <1>e, <1>t DEF Acks
  <2> QED BY <2>1, <2>2
<1>2. ASSUME NEW d \in Client, client[d].link # None
      PROVE  \A i \in 1 .. Len(link[client[d].link].down) :
               LET x == link[client[d].link].down[i]
               IN  x.kind = "ACK" => Dispatched(d, client[d].base + x.id)
  BY <1>2, <1>t DEF Acks
<1> QED BY <1>1, <1>2, <1>s DEF Acks, Dispatched

(* A connection is accepted, or closed when the table is full.             *)
LEMMA AcceptKeepsInv ==
  ASSUME TransportInv, Accept
  PROVE  TransportInv'
<1>1. ServerThread /\ backlog # <<>> /\ backlog' = Tail(backlog)
      /\ UNCHANGED <<pushing, mainVars>>
  BY DEF Accept
<1>2. CASE /\ link' = [link EXCEPT ![Head(backlog)] = ServerCloses(@)]
           /\ UNCHANGED <<cx, cx_counter>>
  BY <1>1, <1>2, RefuseKeepsInv
<1>3. ASSUME NEW s \in Slot, cx[s].link = None,
             cx' = [cx EXCEPT ![s] = Accepted(@, Head(backlog))],
             cx_counter' = cx_counter + 1, UNCHANGED link
      PROVE  TransportInv'
  <2>1. AcceptsIn(s) /\ TransportTypeOK'
    BY <1>1, <1>3, AcceptFacts
  <2> QED BY <2>1, AcceptKeepsEnds, AcceptKeepsLines, AcceptKeepsFiles, AcceptKeepsOrder,
             AcceptKeepsAcks DEF TransportInv
<1> QED BY <1>2, <1>3 DEF Accept

-----------------------------------------------------------------------------
(* A slot reads the first line of its connection.                          *)
SlotReads(s) ==
  LET h == cx[s].link
      x == link[h].up[1]
  IN
  /\ h \in Link /\ link[h].up # <<>> /\ x.kind = Expects(s)
  /\ link'[h].up = Tail(link[h].up)
  /\ link'[h].clientOpen = link[h].clientOpen /\ link'[h].serverOpen = link[h].serverOpen
  /\ \A i \in 1 .. Len(link'[h].down) : link'[h].down[i].kind = "ACK" =>
       \E j \in 1 .. Len(link[h].down) : link'[h].down[i] = link[h].down[j]
  /\ OnlyLink(h) /\ OnlySlot(s)
  /\ cx'[s].link = h /\ cx'[s].cx_id = cx[s].cx_id /\ cx'[s].ack_file = cx[s].ack_file
  /\ x.kind = "File" => cx[s].file = NoFile
  /\ cx'[s].file = IF x.kind = "File" THEN x.file ELSE cx[s].file
  /\ cx'[s].file # NoFile <=> cx'[s].state = "WAITING_FILE_END"
  /\ pushing = None /\ pushing' \in {None, s} /\ (pushing' = s => cx'[s].file # NoFile)
  /\ Expects(s)' = Then(x.kind)
  /\ client' = client /\ acked' = acked /\ written' = written /\ backlog' = backlog
  /\ cx_counter' = cx_counter /\ output_queue' = output_queue /\ inHand' = inHand
  /\ processed' = processed

(* What is left of the connection, and what a slot becomes.                *)
LEMMA RestFields ==
  ASSUME NEW l \in LinkState, l.up # <<>>
  PROVE  LET m == [l EXCEPT !.up = Tail(@)]
         IN  /\ m \in LinkState /\ m.up = Tail(l.up) /\ m.down = l.down
             /\ m.clientOpen = l.clientOpen /\ m.serverOpen = l.serverOpen
<1> DEFINE r == Tail(l.up)
<1>1. r \in Seq(Up)
  BY LinkFields, TailLines
<1> HIDE DEF r
<1> DEFINE m == [l EXCEPT !.up = r]
<1>2. /\ m \in LinkState /\ m.up = r /\ m.down = l.down
      /\ m.clientOpen = l.clientOpen /\ m.serverOpen = l.serverOpen
  BY <1>1 DEF LinkState
<1>3. [l EXCEPT !.up = Tail(@)] = m
  BY DEF r
<1> HIDE DEF m
<1> QED BY <1>2, <1>3 DEF r

(* Only the state of a slot changes.                                       *)
LEMMA SlotBecomes ==
  ASSUME NEW slot \in SlotState,
         NEW state \in {"INIT", "WAITING_FILE_BEGIN", "WAITING_FILE_END"}
  PROVE  LET y == [slot EXCEPT !.state = state]
         IN  /\ y \in SlotState /\ y.link = slot.link /\ y.cx_id = slot.cx_id
             /\ y.state = state /\ y.file = slot.file /\ y.ack_file = slot.ack_file
BY DEF SlotState

(* A line is always the one expected, so that the connection stays open.   *)
LEMMA ReadFacts ==
  ASSUME TransportInv, NEW s \in Slot, Read(s)
  PROVE  SlotReads(s) /\ TransportTypeOK'
<1>t. ClientTypeOK /\ LinkTypeOK /\ ServerTypeOK /\ Ends
  BY DEF TransportInv, TransportTypeOK
<1> DEFINE h == cx[s].link
           x == link[h].up[1]
           rest == [link[h] EXCEPT !.up = Tail(@)]
<1>0. /\ pushing = None /\ UNCHANGED clientVars /\ h # None /\ link[h].up # <<>>
      /\ UNCHANGED <<backlog, cx_counter, mainVars, faults>>
  BY DEF Read, ServerThread
<1>h. h \in Link /\ link[h] \in LinkState /\ link[h].up \in Seq(Up)
  BY <1>0, <1>t, SlotFields, LinkTypes
<1>s. /\ cx[s] \in SlotState /\ SlotEnd(s)
      /\ cx[s].state \in {"INIT", "WAITING_FILE_BEGIN", "WAITING_FILE_END"}
      /\ cx[s].file # NoFile <=> cx[s].state = "WAITING_FILE_END"
  BY <1>0, <1>t, SlotFields DEF Ends, SlotEnd
<1>p. pushing # s
  BY <1>0, Nothing
<1>x. /\ Expected(cx[s].state, x) /\ x.kind = Expects(s) /\ Head(link[h].up) = x /\ x \in Up
  BY <1>0, <1>h, <1>p, TailLines, NeverUnexpected
<1>r. /\ rest \in LinkState /\ rest.up = Tail(link[h].up) /\ rest.down = link[h].down
      /\ rest.clientOpen = link[h].clientOpen /\ rest.serverOpen = link[h].serverOpen
  BY <1>0, <1>h, RestFields
<1>d. \/ /\ cx[s].state = "INIT"
         /\ cx' = [cx EXCEPT ![s].state = "WAITING_FILE_BEGIN"]
         /\ link' = [link EXCEPT ![h] = SendDown(rest, READY)]
         /\ UNCHANGED pushing
      \/ /\ cx[s].state = "WAITING_FILE_BEGIN"
         /\ cx' = [cx EXCEPT ![s].state = "WAITING_FILE_END", ![s].file = x.file]
         /\ link' = [link EXCEPT ![h] = rest]
         /\ UNCHANGED pushing
      \/ /\ cx[s].state = "WAITING_FILE_END"
         /\ pushing' = s
         /\ link' = [link EXCEPT ![h] = rest]
         /\ UNCHANGED cx
  <2> USE <1>x
  <2> QED BY DEF Read
<1>c. cx \in [Slot -> SlotState] /\ link \in [Link -> LinkState]
  BY <1>t, SMTT(30) DEF ServerTypeOK, LinkTypeOK
<1> HIDE DEF rest
<1>l. ASSUME NEW l \in LinkState, l.up = Tail(link[h].up), l.clientOpen = link[h].clientOpen,
             l.serverOpen = link[h].serverOpen,
             l.down = link[h].down \/ l.down = Append(link[h].down, READY),
             link' = [link EXCEPT ![h] = l]
      PROVE  /\ link' \in [Link -> LinkState] /\ OnlyLink(h) /\ link'[h] = l
             /\ \A i \in 1 .. Len(link'[h].down) : link'[h].down[i].kind = "ACK" =>
                  \E j \in 1 .. Len(link[h].down) : link'[h].down[i] = link[h].down[j]
  <2>1. link' \in [Link -> LinkState] /\ OnlyLink(h) /\ link'[h] = l
    <3> HIDE DEF h
    <3> QED BY <1>c, <1>h, <1>l, LinkUpdated
  <2> DEFINE d == link[h].down
             a == Append(d, READY)
  <2>2. /\ \A i \in 1 .. Len(a) : i \in 1 .. Len(d) \/ i = Len(d) + 1
        /\ \A i \in 1 .. Len(d) : a[i] = d[i]
        /\ a[Len(d) + 1] = READY
    <3>1. d \in Seq(Down) /\ READY \in Down
      BY <1>h, LinkFields, DownKinds
    <3> HIDE DEF d
    <3> QED BY <3>1, AppendProperties
  <2>3. READY.kind # "ACK"
    BY DownKinds
  <2>4. CASE l.down = d
    BY <2>1, <2>4
  <2>5. CASE l.down = a
    <3> HIDE DEF a, d
    <3> QED BY <2>1, <2>2, <2>3, <2>5 DEF d
  <2> QED BY <1>l, <2>1, <2>4, <2>5
<1> HIDE DEF h, x
<1>1. CASE /\ cx[s].state = "INIT"
           /\ cx' = [cx EXCEPT ![s].state = "WAITING_FILE_BEGIN"]
           /\ link' = [link EXCEPT ![h] = SendDown(rest, READY)]
           /\ UNCHANGED pushing
  <2> DEFINE l == SendDown(rest, READY)
             y == [cx[s] EXCEPT !.state = "WAITING_FILE_BEGIN"]
  <2>1. /\ l \in LinkState /\ l.up = rest.up
        /\ l.down = rest.down \/ l.down = Append(rest.down, READY)
        /\ l.clientOpen = rest.clientOpen /\ l.serverOpen = rest.serverOpen
    BY <1>r, DownKinds, SendDownFields
  <2>2. /\ y \in SlotState /\ y.link = cx[s].link /\ y.cx_id = cx[s].cx_id
        /\ y.state = "WAITING_FILE_BEGIN" /\ y.file = cx[s].file
        /\ y.ack_file = cx[s].ack_file
    BY <1>s, SlotBecomes
  <2>3. cx' = [cx EXCEPT ![s] = y]
    BY <1>1
  <2> HIDE DEF l, y
  <2>4. cx' \in [Slot -> SlotState] /\ OnlySlot(s) /\ cx'[s] = y
    BY <1>c, <2>2, <2>3, SlotUpdated
  <2>5. /\ link' \in [Link -> LinkState] /\ OnlyLink(h) /\ link'[h] = l
        /\ \A i \in 1 .. Len(link'[h].down) : link'[h].down[i].kind = "ACK" =>
             \E j \in 1 .. Len(link[h].down) : link'[h].down[i] = link[h].down[j]
    BY <1>1, <1>l, <1>r, <2>1 DEF l
  <2>6. x.kind = "INI" /\ Expects(s)' = "File" /\ Then("INI") = "File" /\ pushing' = None
    BY <1>0, <1>1, <1>p, <1>x, <2>2, <2>4 DEF Expects, Then
  <2>7. SlotReads(s)
    BY <1>0, <1>1, <1>h, <1>r, <1>s, <1>x, <2>1, <2>2, <2>4, <2>5, <2>6, Nothing
       DEF SlotReads, h, x, clientVars, mainVars
  <2>8. TransportTypeOK'
    BY <1>0, <1>t, <2>4, <2>5, <2>6 DEF TransportTypeOK, ClientTypeOK, LinkTypeOK, ServerTypeOK,
       clientVars, mainVars
  <2> QED BY <2>7, <2>8
<1>2. CASE /\ cx[s].state = "WAITING_FILE_BEGIN"
           /\ cx' = [cx EXCEPT ![s].state = "WAITING_FILE_END", ![s].file = x.file]
           /\ link' = [link EXCEPT ![h] = rest]
           /\ UNCHANGED pushing
  <2>6. x.kind = "File" /\ Then("File") = "END" /\ pushing' = None /\ pushing' # s
    BY <1>0, <1>2, <1>p, <1>x DEF Expects, Then
  <2> DEFINE f == x.file
             y == [cx[s] EXCEPT !.state = "WAITING_FILE_END", !.file = f]
  <2>1. f \in File /\ f # NoFile
    BY <1>x, <2>6, UpKinds, Nothing
  <2>3. cx' = [cx EXCEPT ![s] = y]
    BY <1>2
  <2> HIDE DEF f
  <2>2. /\ y \in SlotState /\ y.link = cx[s].link /\ y.cx_id = cx[s].cx_id
        /\ y.state = "WAITING_FILE_END" /\ y.file = f
        /\ y.ack_file = cx[s].ack_file
    <3>1. cx[s] \in SlotState /\ f \in File \union {NoFile}
      BY <1>s, <2>1
    <3> QED BY <3>1 DEF SlotState
  <2> HIDE DEF y
  <2>4. cx' \in [Slot -> SlotState] /\ OnlySlot(s) /\ cx'[s] = y
    BY <1>c, <2>2, <2>3, SlotUpdated
  <2>5. /\ link' \in [Link -> LinkState] /\ OnlyLink(h) /\ link'[h] = rest
        /\ \A i \in 1 .. Len(link'[h].down) : link'[h].down[i].kind = "ACK" =>
             \E j \in 1 .. Len(link[h].down) : link'[h].down[i] = link[h].down[j]
    BY <1>2, <1>l, <1>r
  <2>9. Expects(s)' = "END"
    BY <2>2, <2>4, <2>6 DEF Expects
  <2>7. SlotReads(s)
    BY <1>0, <1>2, <1>h, <1>r, <1>s, <1>x, <2>1, <2>2, <2>4, <2>5, <2>6, <2>9
       DEF SlotReads, h, x, f, clientVars, mainVars
  <2>8. TransportTypeOK'
    BY <1>0, <1>t, <2>4, <2>5, <2>6 DEF TransportTypeOK, ClientTypeOK, LinkTypeOK, ServerTypeOK,
       clientVars, mainVars
  <2> QED BY <2>7, <2>8
<1>3. CASE /\ cx[s].state = "WAITING_FILE_END"
           /\ pushing' = s
           /\ link' = [link EXCEPT ![h] = rest]
           /\ UNCHANGED cx
  <2>6. x.kind = "END" /\ Then("END") = "File" /\ Expects(s)' = "File"
    BY <1>3, <1>p, <1>x DEF Expects, Then
  <2>5. /\ link' \in [Link -> LinkState] /\ OnlyLink(h) /\ link'[h] = rest
        /\ \A i \in 1 .. Len(link'[h].down) : link'[h].down[i].kind = "ACK" =>
             \E j \in 1 .. Len(link[h].down) : link'[h].down[i] = link[h].down[j]
    BY <1>3, <1>l, <1>r
  <2>7. SlotReads(s)
    BY <1>0, <1>3, <1>h, <1>r, <1>s, <1>x, <2>5, <2>6
       DEF SlotReads, OnlySlot, h, x, clientVars, mainVars
  <2>8. TransportTypeOK'
    BY <1>0, <1>3, <1>t, <2>5 DEF TransportTypeOK, ClientTypeOK, LinkTypeOK, ServerTypeOK,
       clientVars, mainVars
  <2> QED BY <2>7, <2>8
<1> QED BY <1>1, <1>2, <1>3, <1>d

(* Reading leaves the entries, the other slots and the other links.        *)
LEMMA ReadEntries ==
  ASSUME TransportInv, NEW s \in Slot, SlotReads(s)
  PROVE  /\ Entries' = Entries
         /\ \A t \in Slot : /\ t # s => cx'[t] = cx[t]
                            /\ cx'[t].link = cx[t].link /\ cx'[t].cx_id = cx[t].cx_id
                            /\ cx'[t].ack_file = cx[t].ack_file
         /\ \A e \in Entries : Live(e)' <=> Live(e)
         /\ \A k \in Link : k # cx[s].link => link'[k] = link[k]
         /\ \A t \in Slot : cx[t].link = cx[s].link => t = s
         /\ \A k \in Link : /\ link'[k].clientOpen = link[k].clientOpen
                            /\ link'[k].serverOpen = link[k].serverOpen
         /\ cx[s].link \in Link /\ cx[s].link # None /\ link[cx[s].link].serverOpen
         /\ link[cx[s].link].up \in Seq(Up)
<1>t. LinkTypeOK /\ ServerTypeOK /\ Ends
  BY DEF TransportInv, TransportTypeOK
<1>1. Entries' = Entries
  BY DEF SlotReads, Entries, InHand
<1>2. \A t \in Slot : /\ t # s => cx'[t] = cx[t]
                      /\ cx'[t].link = cx[t].link /\ cx'[t].cx_id = cx[t].cx_id
                      /\ cx'[t].ack_file = cx[t].ack_file
  BY DEF SlotReads, OnlySlot
<1>3. \A e \in Entries : Live(e)' <=> Live(e)
  BY <1>2, <1>t, EntryTypes DEF Live
<1>4. cx[s].link \in Link /\ cx[s].link # None
  BY Nothing DEF SlotReads
<1>5. /\ \A t \in Slot : cx[t].link = cx[s].link => t = s
      /\ link[cx[s].link].serverOpen
  BY <1>4, <1>t DEF Ends, SlotEnd
<1>6. \A k \in Link : k # cx[s].link => link'[k] = link[k]
  BY DEF SlotReads, OnlyLink
<1>7. \A k \in Link : /\ link'[k].clientOpen = link[k].clientOpen
                      /\ link'[k].serverOpen = link[k].serverOpen
  BY <1>6 DEF SlotReads
<1> QED BY <1>1, <1>2, <1>3, <1>4, <1>5, <1>6, <1>7, <1>t, LinkTypes

(* Reading keeps the connection.                                           *)
LEMMA ReadKeepsEnds ==
  ASSUME TransportInv, NEW s \in Slot, SlotReads(s)
  PROVE  ClientQueues' /\ Ends'
<1>t. ClientTypeOK /\ LinkTypeOK /\ ServerTypeOK /\ Ends /\ ClientQueues
  BY DEF TransportInv, TransportTypeOK
<1>e. /\ Entries' = Entries
      /\ \A t \in Slot : /\ t # s => cx'[t] = cx[t]
                         /\ cx'[t].link = cx[t].link /\ cx'[t].cx_id = cx[t].cx_id
                         /\ cx'[t].ack_file = cx[t].ack_file
      /\ \A k \in Link : k # cx[s].link => link'[k] = link[k]
      /\ \A k \in Link : /\ link'[k].clientOpen = link[k].clientOpen
                         /\ link'[k].serverOpen = link[k].serverOpen
      /\ cx[s].link \in Link /\ cx[s].link # None /\ link[cx[s].link].serverOpen
  BY ReadEntries
<1>s. /\ client' = client /\ acked' = acked /\ backlog' = backlog
      /\ cx_counter' = cx_counter
  BY DEF SlotReads
<1>1. ClientQueues'
  BY <1>t, <1>s DEF ClientQueues, QueueOf
<1>2. \A d \in Client : ClientEnd(d)'
  BY <1>e, <1>s, <1>t, ClientFields DEF Ends, ClientEnd
<1>3. ASSUME NEW t \in Slot PROVE SlotEnd(t)'
  <2>0. SlotEnd(t) /\ cx[t].link \in Link \union {None}
    BY <1>t, SlotFields DEF Ends
  <2>1. cx[t].link # None => link'[cx[t].link].serverOpen = link[cx[t].link].serverOpen
    BY <2>0, <1>e
  <2>2. cx[t].link # None => (cx'[t].file # NoFile <=> cx'[t].state = "WAITING_FILE_END")
    BY <2>0, <1>e DEF SlotReads, SlotEnd
  <2>3. cx[t].link = None => cx'[t] = cx[t]
    BY <1>e
  <2> QED BY <2>0, <2>1, <2>2, <2>3, <1>e, <1>s DEF SlotEnd
<1>4. \A i \in 1 .. Len(backlog') : BacklogEnd(i)'
  BY <1>e, <1>s, <1>t, BacklogTypes DEF Ends, BacklogEnd
<1>5. pushing' # None => cx'[pushing'].file # NoFile
  BY DEF SlotReads
<1>6. \A k \in Link : ~link'[k].serverOpen => link'[k].up = <<>>
  BY <1>e, <1>t DEF Ends
<1>7. \A e \in Entries' : e.sender < cx_counter'
  BY <1>e, <1>s, <1>t DEF Ends
<1> QED BY <1>1, <1>2, <1>3, <1>4, <1>5, <1>6, <1>7 DEF Ends

(* The lines left are in step with what the slot expects next.             *)
LEMMA ReadKeepsLines ==
  ASSUME TransportInv, NEW s \in Slot, SlotReads(s)
  PROVE  Lines'
<1>t. ClientTypeOK /\ LinkTypeOK /\ ServerTypeOK /\ Ends /\ Lines
  BY DEF TransportInv, TransportTypeOK
<1>e. /\ \A t \in Slot : /\ t # s => cx'[t] = cx[t]
                         /\ cx'[t].link = cx[t].link
      /\ \A k \in Link : k # cx[s].link => link'[k] = link[k]
      /\ \A t \in Slot : cx[t].link = cx[s].link => t = s
      /\ cx[s].link \in Link /\ cx[s].link # None
      /\ link[cx[s].link].up \in Seq(Up)
  BY ReadEntries
<1>s. client' = client /\ backlog' = backlog
  BY DEF SlotReads
<1>1. ASSUME NEW k \in Link, k # cx[s].link, NEW first, InStep(k, first)
      PROVE  InStep(k, first)'
  <2>1. link'[k] = link[k]
    BY <1>1, <1>e
  <2> QED BY <1>1, <1>s, <2>1 DEF InStep
<1>2. ASSUME NEW t \in Slot, cx'[t].link # None PROVE InStep(cx[t].link, Expects(t))'
  <2>1. CASE t = s
    <3> DEFINE h == cx[s].link
               first == Expects(s)
               up == link[h].up
    <3>1. InStep(h, first)
      BY <1>e, <1>t DEF Lines
    <3>2. up # <<>> /\ up \in Seq(Up) /\ up[1].kind = first /\ link'[h].up = Tail(up)
          /\ Expects(s)' = Then(first) /\ cx'[s].link = h
      BY <1>e DEF SlotReads
    <3>3. Chained(up, first) /\ \A d \in Client : client[d].link = h =>
                                   LastThen(up, first, Sends(client[d]))
      BY <3>1 DEF InStep
    <3> HIDE DEF up, first
    <3>4. /\ Chained(Tail(up), Then(first))
          /\ \A next : LastThen(up, first, next) => LastThen(Tail(up), Then(first), next)
      BY <3>2, <3>3, ChainedTail
    <3> QED BY <2>1, <3>2, <3>3, <3>4, <1>s DEF InStep
  <2>2. CASE t # s
    <3> DEFINE k == cx[t].link
               first == Expects(t)
    <3>1. k \in Link /\ k # cx[s].link /\ InStep(k, first) /\ k' = k
      BY <1>2, <2>2, <1>e, <1>t, SlotFields DEF Lines
    <3>2. first' = first
      BY <2>2, <1>e, Nothing DEF Expects, SlotReads
    <3>3. (InStep(k, first))'
      BY <1>1, <3>1, <3>2 DEF InStep
    <3> QED BY <3>3
  <2> QED BY <2>1, <2>2
<1>3. ASSUME NEW i \in 1 .. Len(backlog') PROVE InStep(backlog[i], "INI")'
  <2>1. backlog[i] \in Link /\ InStep(backlog[i], "INI") /\ BacklogEnd(i)
    BY <1>s, <1>t, BacklogTypes DEF Lines, Ends
  <2>2. backlog[i] # cx[s].link
    BY <2>1 DEF BacklogEnd
  <2> QED BY <1>1, <1>s, <2>1, <2>2 DEF InStep
<1> QED BY <1>2, <1>3 DEF Lines

(* The file that is read comes after all that came before it.              *)
LEMMA ReadKeepsFiles ==
  ASSUME TransportInv, NEW s \in Slot, SlotReads(s)
  PROVE  Files'
<1>t. ClientTypeOK /\ LinkTypeOK /\ ServerTypeOK /\ Files
  BY DEF TransportInv, TransportTypeOK
<1>e. /\ Entries' = Entries
      /\ \A t \in Slot : /\ t # s => cx'[t] = cx[t]
                         /\ cx'[t].link = cx[t].link /\ cx'[t].cx_id = cx[t].cx_id
                         /\ cx'[t].ack_file = cx[t].ack_file
      /\ \A e \in Entries : Live(e)' <=> Live(e)
      /\ \A k \in Link : k # cx[s].link => link'[k] = link[k]
      /\ \A t \in Slot : cx[t].link = cx[s].link => t = s
      /\ cx[s].link \in Link /\ cx[s].link # None
      /\ link[cx[s].link].up \in Seq(Up)
  BY ReadEntries
<1>s. /\ client' = client /\ acked' = acked /\ output_queue' = output_queue /\ inHand' = inHand
  BY DEF SlotReads
<1> DEFINE h == cx[s].link
           up == link[h].up
           x == up[1]
<1>x. /\ up # <<>> /\ link'[h].up = Tail(up)
      /\ x.kind = "File" => cx[s].file = NoFile
      /\ cx'[s].file = IF x.kind = "File" THEN x.file ELSE cx[s].file
  BY DEF SlotReads
<1>r. \A i : IsFile(Tail(up), i) =>
        /\ i \in 1 .. Len(Tail(up)) /\ i \in Nat /\ i + 1 \in 1 .. Len(up) /\ 1 < i + 1
        /\ IsFile(up, i + 1) /\ Tail(up)[i].file = up[i + 1].file
  <2>1. up \in Seq(Up) /\ up # <<>>
    BY <1>e, <1>x
  <2> HIDE DEF up
  <2>2. Len(up) \in Nat
    BY <2>1
  <2>3. \A i : IsFile(Tail(up), i) =>
           /\ i \in 1 .. Len(Tail(up)) /\ i + 1 \in 2 .. Len(up)
           /\ IsFile(up, i + 1) /\ Tail(up)[i].file = up[i + 1].file
    BY <2>1, TailFiles
  <2>4. \A i : IsFile(Tail(up), i) => i \in Nat
    BY <2>1, TailLines DEF IsFile
  <2> QED BY <2>2, <2>3, <2>4
<1>1st. x.kind = "File" => IsFile(up, 1) /\ 1 \in 1 .. Len(up)
  <2>1. 1 \in 1 .. Len(up)
    BY <1>e, <1>x, TailLines
  <2> QED BY <2>1 DEF IsFile
<1>f. FilesUp(h) /\ FilesOfSlot(s)
  BY <1>e, <1>t DEF Files
<1> HIDE DEF up, x, h
<1>u. link[h].up = up /\ cx[s].link = h /\ h \in Link
  BY <1>e DEF up, h
<1>1. ASSUME NEW k \in Link PROVE FilesUp(k)'
  <2>1. CASE k = h
    <3>1. ASSUME NEW i, NEW j, IsFile(Tail(up), i), IsFile(Tail(up), j)
          PROVE  /\ Same(Tail(up)[i].file, Tail(up)[j].file)
                 /\ i < j => Tail(up)[i].file.id < Tail(up)[j].file.id
      <4>1. /\ Same(up[i + 1].file, up[j + 1].file)
            /\ i + 1 < j + 1 => up[i + 1].file.id < up[j + 1].file.id
        BY <3>1, <1>r, <1>f, <1>u DEF FilesUp
      <4>2. i \in Nat /\ j \in Nat
        BY <3>1, <1>r
      <4> QED BY <3>1, <4>1, <4>2, <1>r
    <3> QED BY <2>1, <3>1, <1>x DEF FilesUp
  <2>2. CASE k # h
    BY <2>2, <1>e, <1>u, <1>t DEF Files, FilesUp
  <2> QED BY <2>1, <2>2
<1>a. \A t \in Slot : \A f : After(t, f)' <=> After(t, f)
  BY <1>e DEF After
<1>2. ASSUME NEW t \in Slot PROVE FilesOfSlot(t)'
  <2>1. CASE t = s
    <3>1. cx'[s].file # NoFile => After(s, cx'[s].file)
      BY <1>1st, <1>f, <1>u, <1>x, <1>e DEF FilesOfSlot, x
    <3>2. ASSUME NEW i, IsFile(Tail(up), i), NEW f, f = Tail(up)[i].file
          PROVE  /\ After(s, f)
                 /\ cx'[s].file # NoFile => Same(cx'[s].file, f) /\ cx'[s].file.id < f.id
      <4>1. /\ i + 1 \in 1 .. Len(up) /\ 1 < i + 1 /\ IsFile(up, i + 1) /\ f = up[i + 1].file
        BY <3>2, <1>r
      <4>2. /\ After(s, f)
            /\ cx[s].file # NoFile => Same(cx[s].file, f) /\ cx[s].file.id < f.id
        BY <4>1, <1>e, <1>f, <1>u DEF FilesOfSlot
      <4>3. x.kind = "File" => Same(x.file, f) /\ x.file.id < f.id
        BY <4>1, <1>1st, <1>f, <1>u DEF FilesUp, x
      <4> QED BY <4>2, <4>3, <1>x
    <3>3. cx'[s].link = h /\ link'[h].up = Tail(up)
      BY <1>e, <1>u, <1>x
    <3>4. cx'[s].file # NoFile =>
            /\ cx'[s].ack_file < cx'[s].file.id
            /\ \A e \in Entries' : e.slot = s /\ Live(e)' => e.file.id < cx'[s].file.id
      BY <3>1, <1>e DEF After
    <3>5. ASSUME NEW i \in 1 .. Len(link'[cx'[s].link].up), IsFile(link'[cx'[s].link].up, i),
                 NEW f, f = link'[cx'[s].link].up[i].file
          PROVE  /\ After(s, f)'
                 /\ cx'[s].file # NoFile => Same(cx'[s].file, f) /\ cx'[s].file.id < f.id
      BY <3>2, <3>3, <3>5, <1>a
    <3> QED BY <2>1, <3>4, <3>5, <1>e DEF FilesOfSlot, After
  <2>2. CASE t # s
    <3>1. cx'[t] = cx[t] /\ FilesOfSlot(t) /\ cx[t].link # h
          /\ (cx[t].link # None => link'[cx[t].link] = link[cx[t].link])
      BY <2>2, <1>e, <1>t, <1>u, SlotFields DEF Files
    <3> QED BY <3>1, <1>e DEF FilesOfSlot, After
  <2> QED BY <2>1, <2>2
<1>3. FilesQueued'
  <2>0. FilesQueued
    BY <1>t DEF Files
  <2>1. \A e \in Entries' : Live(e)' => cx'[e.slot].ack_file < e.file.id
    BY <2>0, <1>e, <1>t, EntryTypes DEF FilesQueued
  <2>2. \A i \in 1 .. Len(output_queue) : Live(output_queue[i])' => Live(output_queue[i])
    <3>1. \A i \in 1 .. Len(output_queue) : output_queue[i] \in Entries
      BY <1>t, EntryTypes
    <3> QED BY <3>1, <1>e, <1>s DEF Live
  <2> QED BY <2>0, <2>1, <2>2, <1>s DEF FilesQueued, Live
<1>4. ASSUME NEW d \in Client PROVE FilesSent(d)'
  <2> SUFFICES ASSUME client'[d].link # None PROVE FilesSent(d)'
    BY DEF FilesSent
  <2>0. FilesSent(d) /\ client[d].link # None /\ client[d].link \in Link
    BY <1>t, <1>s, ClientFields DEF Files
  <2>1. ASSUME NEW i, IsFile(link'[client[d].link].up, i)
        PROVE  SentBy(d, link'[client[d].link].up[i].file)
    <3>1. CASE client[d].link = h
      <4>1. IsFile(up, i + 1) /\ i + 1 \in 1 .. Len(up) /\ link'[h].up[i].file = up[i + 1].file
        BY <2>1, <3>1, <1>r, <1>x
      <4> QED BY <2>0, <3>1, <4>1, <1>u DEF FilesSent
    <3>2. CASE client[d].link # h
      <4>1. link'[client[d].link] = link[client[d].link]
        BY <2>0, <3>2, <1>e, <1>u
      <4> QED BY <2>0, <2>1, <4>1 DEF FilesSent, IsFile
    <3> QED BY <3>1, <3>2
  <2>2. ASSUME NEW t \in Slot, cx'[t].link = client[d].link
        PROVE  /\ cx'[t].file # NoFile => SentBy(d, cx'[t].file)
               /\ \A e \in Entries : e.slot = t /\ Live(e)' => SentBy(d, e.file)
               /\ client[d].base + cx'[t].ack_file <= SentUpTo(client[d], acked[d])
    <3>1. /\ cx[t].file # NoFile => SentBy(d, cx[t].file)
          /\ \A e \in Entries : e.slot = t /\ Live(e)' => SentBy(d, e.file)
          /\ client[d].base + cx'[t].ack_file <= SentUpTo(client[d], acked[d])
      BY <2>0, <2>2, <1>e DEF FilesSent
    <3>2. CASE t # s
      BY <3>1, <3>2, <1>e
    <3>3. CASE t = s
      <4>1. client[d].link = h
        BY <2>2, <3>3, <1>e, <1>u
      <4>2. x.kind = "File" => SentBy(d, x.file)
        BY <2>0, <4>1, <1>1st, <1>u DEF FilesSent, x
      <4> QED BY <3>1, <3>3, <4>2, <1>x
    <3> QED BY <3>2, <3>3
  <2> QED BY <2>1, <2>2, <1>e, <1>s DEF FilesSent, SentBy, Live
<1> QED BY <1>1, <1>2, <1>3, <1>4 DEF Files

(* When a file is read, all messages before it are queued.                 *)
LEMMA ReadKeepsOrder ==
  ASSUME TransportInv, NEW s \in Slot, SlotReads(s)
  PROVE  Order'
<1>t. ClientTypeOK /\ LinkTypeOK /\ ServerTypeOK /\ Order
  BY DEF TransportInv, TransportTypeOK
<1>e. /\ \A t \in Slot : /\ t # s => cx'[t] = cx[t]
                         /\ cx'[t].link = cx[t].link
      /\ \A k \in Link : k # cx[s].link => link'[k] = link[k]
      /\ \A t \in Slot : cx[t].link = cx[s].link => t = s
      /\ \A k \in Link : link'[k].serverOpen = link[k].serverOpen
      /\ cx[s].link \in Link /\ cx[s].link # None
      /\ link[cx[s].link].up \in Seq(Up)
  BY ReadEntries
<1>s. /\ client' = client /\ acked' = acked /\ output_queue' = output_queue /\ inHand' = inHand
      /\ processed' = processed
  BY DEF SlotReads
<1> DEFINE h == cx[s].link
           up == link[h].up
           x == up[1]
<1>x. /\ up # <<>> /\ link'[h].up = Tail(up)
      /\ x.kind = "File" => cx[s].file = NoFile
      /\ cx'[s].file = IF x.kind = "File" THEN x.file ELSE cx[s].file
  BY DEF SlotReads
<1>r. /\ Len(up) \in Nat /\ Len(Tail(up)) = Len(up) - 1 /\ 1 \in 1 .. Len(up)
      /\ \A i \in 1 .. Len(Tail(up)) : Tail(up)[i] = up[i + 1]
      /\ \A i : IsFile(Tail(up), i) =>
           IsFile(up, i + 1) /\ i + 1 \in 1 .. Len(up) /\ Tail(up)[i].file = up[i + 1].file
      /\ \A i : IsFile(up, i) => up[i].file \in File
  <2>1. up \in Seq(Up) /\ up # <<>>
    BY <1>e, <1>x
  <2> HIDE DEF up
  <2>2. \A i : IsFile(Tail(up), i) =>
           IsFile(up, i + 1) /\ i + 1 \in 1 .. Len(up) /\ Tail(up)[i].file = up[i + 1].file
    BY <2>1, TailFiles DEF IsFile
  <2> QED BY <2>1, <2>2, TailLines, FilesAreFiles
<1> HIDE DEF up, x, h
<1>u. link[h].up = up /\ cx[s].link = h /\ h \in Link
  BY <1>e DEF up, h
<1>w. \A d, m : Queued(d, m) => Queued(d, m)'
  BY <1>s DEF QueuedBefore, Queued
<1>c. ASSUME NEW k \in Link, NEW d, NEW m, Carries(k, d, m) PROVE Carries(k, d, m)'
  <2>1. ASSUME NEW t \in Slot, cx[t].link = k, cx[t].file # NoFile,
               cx[t].file.source = d, cx[t].file.msg = m
        PROVE  Carries(k, d, m)'
    <3>1. cx'[t].file = cx[t].file /\ cx'[t].link = k
      BY <2>1, <1>e, <1>x
    <3> QED BY <2>1, <3>1 DEF Carries
  <2>2. ASSUME NEW i \in 1 .. Len(link[k].up), IsFile(link[k].up, i),
               link[k].up[i].file.source = d, link[k].up[i].file.msg = m
        PROVE  Carries(k, d, m)'
    <3>1. CASE k # h
      <4>1. link'[k] = link[k]
        BY <3>1, <1>e, <1>u
      <4> QED BY <2>2, <4>1 DEF Carries
    <3>2. CASE k = h /\ i = 1
      <4>1. x.kind = "File" /\ x.file.source = d /\ x.file.msg = m
        BY <2>2, <3>2, <1>u DEF IsFile, x
      <4>2. x.file \in File
        BY <2>2, <3>2, <1>r, <1>u DEF x
      <4>3. cx'[s].file = x.file /\ cx'[s].file # NoFile /\ cx'[s].link = k
        BY <3>2, <4>1, <4>2, <1>e, <1>u, <1>x, Nothing
      <4> QED BY <4>1, <4>3 DEF Carries
    <3>3. CASE k = h /\ i # 1
      <4>1. i \in 1 .. Len(up) /\ i - 1 \in 1 .. Len(Tail(up)) /\ i - 1 + 1 = i
        BY <2>2, <3>3, <1>r, <1>u
      <4>2. Tail(up)[i - 1] = up[i]
        BY <4>1, <1>r
      <4>3. IsFile(Tail(up), i - 1) /\ Tail(up)[i - 1].file = up[i].file
        BY <2>2, <3>3, <4>1, <4>2, <1>u DEF IsFile
      <4>4. link'[k].up = Tail(up)
        BY <3>3, <1>x
      <4> DEFINE j == i - 1
      <4>5. /\ j \in 1 .. Len(link'[k].up) /\ IsFile(link'[k].up, j)
            /\ link'[k].up[j].file.source = d /\ link'[k].up[j].file.msg = m
        BY <2>2, <3>3, <4>1, <4>3, <4>4, <1>u
      <4> HIDE DEF j
      <4> QED BY <4>5 DEF Carries
    <3> QED BY <3>1, <3>2, <3>3
  <2> QED BY <2>1, <2>2, <1>c DEF Carries
<1>1. \A d \in Client : /\ \A m \in processed'[d] : Dispatched(d, m)'
                        /\ Dispatched(d, acked[d])'
  BY <1>s, <1>t DEF Order, Dispatched
<1>2. inHand' # NoFile => inHand'.file.msg \in processed'[inHand'.file.source]
  BY <1>s, <1>t DEF Order
<1>3. \A i \in 1 .. Len(output_queue') : \A m \in 1 .. output_queue'[i].file.msg - 1 :
        QueuedBefore(output_queue[i].file.source, m, i - 1)'
  <2>1. \A i \in 1 .. Len(output_queue) : \A m \in 1 .. output_queue[i].file.msg - 1 :
        QueuedBefore(output_queue[i].file.source, m, i - 1)
    BY <1>t DEF Order
  <2> QED BY <1>s, <2>1 DEF QueuedBefore
<1>4. ASSUME NEW k \in Link, NEW i, IsFile(link'[k].up, i),
             NEW d, d = link'[k].up[i].file.source,
             NEW m \in 1 .. link'[k].up[i].file.msg - 1
      PROVE  Queued(d, m)' \/ Carries(k, d, m)'
  <2>1. PICK j \in 1 .. Len(link[k].up) :
          IsFile(link[k].up, j) /\ link'[k].up[i].file = link[k].up[j].file
    <3>1. CASE k = h
      <4>1. link'[k].up = Tail(up) /\ link[k].up = up
        BY <3>1, <1>u, <1>x
      <4>2. IsFile(Tail(up), i)
        BY <1>4, <4>1
      <4> DEFINE j == i + 1
      <4>3. IsFile(up, j) /\ j \in 1 .. Len(up) /\ Tail(up)[i].file = up[j].file
        BY <4>2, <1>r
      <4> HIDE DEF j
      <4> QED BY <4>1, <4>3
    <3>2. CASE k # h
      BY <1>4, <3>2, <1>e, <1>u DEF IsFile
    <3> QED BY <3>1, <3>2
  <2>2. Coming(k, d, link[k].up[j].file.msg - 1)
    BY <2>1, <1>4, <1>t DEF Order
  <2>3. Queued(d, m) \/ Carries(k, d, m)
    BY <2>1, <2>2, <1>4 DEF Coming
  <2> QED BY <2>3, <1>c, <1>w
<1>5. ASSUME NEW t \in Slot, cx'[t].file # NoFile, NEW f, f = cx'[t].file,
             NEW m \in 1 .. f.msg - 1
      PROVE  Queued(f.source, m)'
  <2>1. CASE cx'[t].file = cx[t].file
    BY <1>5, <2>1, <1>t, <1>w DEF Order
  <2>2. CASE t = s /\ x.kind = "File" /\ f = x.file
    <3>1. IsFile(up, 1) /\ up[1].file = f /\ f \in File
      BY <2>2, <1>r DEF IsFile, x
    <3>2. Coming(h, f.source, f.msg - 1)
      BY <3>1, <1>r, <1>t, <1>u DEF Order
    <3>3. Queued(f.source, m) \/ Carries(h, f.source, m)
      BY <3>2 DEF Coming
    <3>4. ASSUME NEW j \in 1 .. Len(up), IsFile(up, j),
                 up[j].file.source = f.source, up[j].file.msg = m
          PROVE  FALSE
      <4> DEFINE g == up[j].file
      <4>1. g \in File
        BY <3>4, <1>r
      <4>2. Same(f, g) /\ (1 < j => f.id < g.id)
        <5>1. FilesUp(h)
          BY <1>u DEF TransportInv, Files
        <5> QED BY <3>1, <3>4, <5>1, <1>r, <1>u DEF FilesUp
      <4>3. f.id \in Nat /\ g.id \in Nat /\ f.msg \in Nat /\ g.msg \in Nat /\ g.msg <= f.msg - 1
        BY <3>1, <3>4, <4>1, FileFields
      <4>4. j # 1
        BY <3>1, <3>4, <4>3
      <4>5. 1 < j
        BY <4>4
      <4> HIDE DEF g
      <4> QED BY <4>2, <4>3, <4>5 DEF Same
    <3>5. ASSUME NEW r \in Slot, cx[r].link = h, cx[r].file # NoFile
          PROVE  FALSE
      BY <2>2, <3>5, <1>e, <1>u, <1>x
    <3>6. Queued(f.source, m)
      BY <3>3, <3>4, <3>5, <1>u DEF Carries
    <3> QED BY <3>6, <1>w
  <2> QED BY <2>1, <2>2, <1>5, <1>e, <1>x
<1>6. ASSUME NEW d \in Client, client'[d].link # None, link'[client'[d].link].serverOpen,
             NEW m \in 1 .. SentUpTo(client'[d], acked'[d]),
             NEW k, k = client'[d].link
      PROVE  Queued(d, m)' \/ Carries(k, d, m)'
  <2>1. k \in Link /\ client[d].link = k /\ link[k].serverOpen
    BY <1>6, <1>s, <1>e, <1>t, ClientFields
  <2>2. Queued(d, m) \/ Carries(k, d, m)
    BY <1>6, <2>1, <1>s, <1>t DEF Order, Coming
  <2> QED BY <2>1, <2>2, <1>c, <1>w
<1>7. \A k \in Link : \A i \in 1 .. Len(link'[k].up) : IsFile(link'[k].up, i) =>
        Coming(k, link[k].up[i].file.source, link[k].up[i].file.msg - 1)'
  BY <1>4 DEF Coming
<1>8. \A d \in Client : client'[d].link # None /\ link'[client'[d].link].serverOpen =>
        Coming(client[d].link, d, SentUpTo(client[d], acked[d]))'
  BY <1>6 DEF Coming
<1>9. \A t \in Slot : cx'[t].file # NoFile =>
        \A m \in 1 .. cx'[t].file.msg - 1 : Queued(cx[t].file.source, m)'
  BY <1>5 DEF Queued, QueuedBefore
<1> QED BY <1>1, <1>2, <1>3, <1>7, <1>8, <1>9 DEF Order

(* Reading acknowledges nothing.                                           *)
LEMMA ReadKeepsAcks ==
  ASSUME TransportInv, NEW s \in Slot, SlotReads(s)
  PROVE  Acks'
<1>t. ClientTypeOK /\ Acks
  BY DEF TransportInv, TransportTypeOK
<1>e. /\ \A t \in Slot : /\ cx'[t].link = cx[t].link
                         /\ cx'[t].ack_file = cx[t].ack_file
      /\ \A k \in Link : k # cx[s].link => link'[k] = link[k]
  BY ReadEntries
<1>s. client' = client /\ processed' = processed
  BY DEF SlotReads
<1>1. ASSUME NEW d \in Client, client[d].link # None,
             NEW i \in 1 .. Len(link'[client[d].link].down),
             link'[client[d].link].down[i].kind = "ACK"
      PROVE  Dispatched(d, client[d].base + link'[client[d].link].down[i].id)
  <2>1. client[d].link \in Link
    BY <1>1, <1>t, ClientFields
  <2>2. \E j \in 1 .. Len(link[client[d].link].down) :
          link'[client[d].link].down[i] = link[client[d].link].down[j]
    <3>1. CASE client[d].link = cx[s].link
      BY <1>1, <3>1 DEF SlotReads
    <3>2. CASE client[d].link # cx[s].link
      <4>1. link'[client[d].link] = link[client[d].link]
        BY <3>2, <2>1, <1>e
      <4> QED BY <1>1, <4>1
    <3> QED BY <3>1, <3>2
  <2>3. \A j \in 1 .. Len(link[client[d].link].down) :
          link[client[d].link].down[j].kind = "ACK" =>
            Dispatched(d, client[d].base + link[client[d].link].down[j].id)
    BY <1>1, <1>t DEF Acks
  <2> QED BY <1>1, <2>2, <2>3
<1>2. \A d \in Client : client[d].link # None =>
        \A t \in Slot : cx'[t].link = client[d].link =>
          Dispatched(d, client[d].base + cx'[t].ack_file)
  BY <1>t, <1>e DEF Acks
<1> QED BY <1>1, <1>2, <1>s DEF Acks, Dispatched

(* A slot reads a line.                                                    *)
LEMMA ReadKeepsInv ==
  ASSUME TransportInv, NEW s \in Slot, Read(s)
  PROVE  TransportInv'
BY ReadFacts, ReadKeepsEnds, ReadKeepsLines, ReadKeepsFiles, ReadKeepsOrder, ReadKeepsAcks
   DEF TransportInv

-----------------------------------------------------------------------------
(* A slot acknowledges: the file in hand becomes its last one, or an ACK   *)
(* goes down, or both.                                                     *)
SlotAcks(s) ==
  /\ client' = client /\ acked' = acked /\ written' = written /\ backlog' = backlog
  /\ cx_counter' = cx_counter /\ pushing' = pushing /\ output_queue' = output_queue
  /\ processed' = processed
  /\ inHand' \in {inHand, NoFile}
  /\ OnlySlot(s)
  /\ cx'[s].link = cx[s].link /\ cx'[s].cx_id = cx[s].cx_id
  /\ cx'[s].state = cx[s].state /\ cx'[s].file = cx[s].file
  /\ \/ cx'[s].ack_file = cx[s].ack_file
     \/ /\ inHand # NoFile /\ inHand' = NoFile /\ inHand.slot = s /\ Live(inHand)
        /\ cx'[s].ack_file = inHand.file.id
  /\ \A k \in Link :
       /\ link'[k].up = link[k].up
       /\ link'[k].clientOpen = link[k].clientOpen /\ link'[k].serverOpen = link[k].serverOpen
       /\ \A i \in 1 .. Len(link'[k].down) :
            \/ \E j \in 1 .. Len(link[k].down) : link'[k].down[i] = link[k].down[j]
            \/ k = cx[s].link /\ link'[k].down[i] = ACK(cx'[s].ack_file)

(* The files still queued, and the slots as they were but for the numbers. *)
LEMMA AcksEntries ==
  ASSUME TransportInv, NEW s \in Slot, SlotAcks(s)
  PROVE  /\ \A e \in Entries' : e \in Entries
         /\ \A e \in Entries : Live(e)' <=> Live(e)
         /\ \A t \in Slot : /\ cx'[t].link = cx[t].link /\ cx'[t].cx_id = cx[t].cx_id
                            /\ cx'[t].state = cx[t].state /\ cx'[t].file = cx[t].file
                            /\ t # s => cx'[t].ack_file = cx[t].ack_file
<1>t. ServerTypeOK
  BY DEF TransportInv, TransportTypeOK
<1>1. \A e \in Entries' : e \in Entries
  BY DEF SlotAcks, Entries, InHand
<1>2. \A t \in Slot : /\ cx'[t].link = cx[t].link /\ cx'[t].cx_id = cx[t].cx_id
                      /\ cx'[t].state = cx[t].state /\ cx'[t].file = cx[t].file
                      /\ t # s => cx'[t].ack_file = cx[t].ack_file
  BY DEF SlotAcks, OnlySlot
<1>3. \A e \in Entries : Live(e)' <=> Live(e)
  BY <1>2, <1>t, EntryTypes DEF Live
<1> QED BY <1>1, <1>2, <1>3

(* Acknowledging leaves the connections and the lines up.                  *)
LEMMA AcksKeepEnds ==
  ASSUME TransportInv, NEW s \in Slot, SlotAcks(s)
  PROVE  ClientQueues' /\ Ends' /\ Lines'
<1>t. ClientTypeOK /\ LinkTypeOK /\ ServerTypeOK /\ Ends /\ ClientQueues /\ Lines
  BY DEF TransportInv, TransportTypeOK
<1>e. /\ \A e \in Entries' : e \in Entries
      /\ \A t \in Slot : /\ cx'[t].link = cx[t].link /\ cx'[t].cx_id = cx[t].cx_id
                         /\ cx'[t].state = cx[t].state /\ cx'[t].file = cx[t].file
  BY AcksEntries
<1>s. /\ client' = client /\ acked' = acked /\ backlog' = backlog
      /\ cx_counter' = cx_counter /\ pushing' = pushing
      /\ \A k \in Link :
           /\ link'[k].up = link[k].up
           /\ link'[k].clientOpen = link[k].clientOpen /\ link'[k].serverOpen = link[k].serverOpen
  BY DEF SlotAcks
<1>1. ClientQueues'
  BY <1>t, <1>s DEF ClientQueues, QueueOf
<1>2. \A d \in Client : ClientEnd(d)'
  BY <1>s, <1>t, ClientFields DEF Ends, ClientEnd
<1>3. \A t \in Slot : SlotEnd(t)'
  BY <1>e, <1>s, <1>t, SlotFields DEF Ends, SlotEnd
<1>4. \A i \in 1 .. Len(backlog') : BacklogEnd(i)'
  BY <1>e, <1>s, <1>t, BacklogTypes DEF Ends, BacklogEnd
<1>5. pushing' # None => cx'[pushing'].file # NoFile
  BY <1>e, <1>s, <1>t DEF Ends, ServerTypeOK
<1>6. Ends'
  BY <1>2, <1>3, <1>4, <1>5, <1>e, <1>s, <1>t DEF Ends
<1>7. ASSUME NEW k \in Link, NEW first, InStep(k, first) PROVE InStep(k, first)'
  BY <1>7, <1>s DEF InStep
<1>8. \A t \in Slot : Expects(t)' = Expects(t)
  BY <1>e, <1>s DEF Expects
<1>9. Lines'
  <2>1. \A t \in Slot : cx[t].link # None => InStep(cx[t].link, Expects(t))'
    <3> SUFFICES ASSUME NEW t \in Slot, cx[t].link # None,
                        NEW k, k = cx[t].link, NEW first, first = Expects(t)
                 PROVE  InStep(k, first)'
      BY <1>e, <1>8
    <3>1. k \in Link /\ InStep(k, first)
      BY <1>t, SlotFields DEF Lines
    <3> QED BY <3>1, <1>7
  <2>2. \A i \in 1 .. Len(backlog) : InStep(backlog[i], "INI")'
    <3> SUFFICES ASSUME NEW i \in 1 .. Len(backlog), NEW k, k = backlog[i]
                 PROVE  InStep(k, "INI")'
      BY <1>s
    <3>1. k \in Link /\ InStep(k, "INI")
      BY <1>t, BacklogTypes DEF Lines
    <3> QED BY <3>1, <1>7
  <2> QED BY <2>1, <2>2, <1>e, <1>s DEF Lines
<1> QED BY <1>1, <1>6, <1>9

(* A file that was read after those queued is above the new last number.   *)
LEMMA AcksAfter ==
  ASSUME TransportInv, NEW s \in Slot, SlotAcks(s),
         NEW t \in Slot, NEW f \in File, After(t, f)
  PROVE  cx'[t].ack_file < f.id /\ \A e \in Entries' : e.slot = t /\ Live(e)' => e.file.id < f.id
<1>t. ServerTypeOK
  BY DEF TransportInv, TransportTypeOK
<1>1. \A e \in Entries' : e.slot = t /\ Live(e)' => e.file.id < f.id
  BY AcksEntries DEF After
<1>2. CASE cx'[t].ack_file = cx[t].ack_file
  BY <1>1, <1>2 DEF After
<1>3. CASE cx'[t].ack_file # cx[t].ack_file
  <2>1. /\ t = s /\ inHand # NoFile /\ inHand.slot = s /\ Live(inHand)
        /\ cx'[t].ack_file = inHand.file.id
    BY <1>3, AcksEntries DEF SlotAcks
  <2>2. inHand \in Entries
    BY <2>1, <1>t, EntryTypes
  <2>3. inHand.file.id < f.id
    BY <2>1, <2>2 DEF After
  <2> QED BY <1>1, <2>1, <2>3
<1> QED BY <1>2, <1>3

(* The number acknowledged is below those of the files still to come.      *)
LEMMA AcksKeepFiles ==
  ASSUME TransportInv, NEW s \in Slot, SlotAcks(s)
  PROVE  Files'
<1>t. ClientTypeOK /\ LinkTypeOK /\ ServerTypeOK /\ Files
  BY DEF TransportInv, TransportTypeOK
<1>e. /\ \A e \in Entries' : e \in Entries
      /\ \A e \in Entries : Live(e)' <=> Live(e)
      /\ \A t \in Slot : /\ cx'[t].link = cx[t].link /\ cx'[t].cx_id = cx[t].cx_id
                         /\ cx'[t].state = cx[t].state /\ cx'[t].file = cx[t].file
                         /\ t # s => cx'[t].ack_file = cx[t].ack_file
  BY AcksEntries
<1>s. /\ client' = client /\ acked' = acked /\ output_queue' = output_queue
      /\ inHand' \in {inHand, NoFile}
      /\ \A k \in Link : link'[k].up = link[k].up
      /\ \/ cx'[s].ack_file = cx[s].ack_file
         \/ /\ inHand # NoFile /\ inHand' = NoFile /\ inHand.slot = s /\ Live(inHand)
            /\ cx'[s].ack_file = inHand.file.id
  BY DEF SlotAcks
<1>1. \A k \in Link : FilesUp(k)'
  BY <1>s, <1>t DEF Files, FilesUp
<1>2. ASSUME NEW t \in Slot PROVE FilesOfSlot(t)'
  <2>0. FilesOfSlot(t) /\ cx[t].file \in File \union {NoFile}
    BY <1>t, SlotFields DEF Files
  <2>1. cx[t].file # NoFile => After(t, cx[t].file)'
    <3> SUFFICES ASSUME NEW f \in File, f = cx[t].file, f # NoFile
                 PROVE  After(t, cx[t].file)'
      BY <2>0
    <3>1. After(t, f)
      BY <2>0 DEF FilesOfSlot
    <3>2. cx'[t].ack_file < f.id /\ \A e \in Entries' : e.slot = t /\ Live(e)' => e.file.id < f.id
      BY <3>1, AcksAfter, SMTT(30)
    <3> QED BY <3>2, <1>e DEF After
  <2>2. ASSUME cx[t].link # None, NEW i \in 1 .. Len(link[cx[t].link].up),
               IsFile(link[cx[t].link].up, i)
        PROVE  /\ cx'[t].ack_file < link[cx[t].link].up[i].file.id
               /\ \A e \in Entries' : e.slot = t /\ Live(e)' =>
                    e.file.id < link[cx[t].link].up[i].file.id
               /\ cx[t].file # NoFile => /\ Same(cx[t].file, link[cx[t].link].up[i].file)
                                         /\ cx[t].file.id < link[cx[t].link].up[i].file.id
    <3> DEFINE f == link[cx[t].link].up[i].file
    <3>1. f \in File
      BY <2>2, <1>t, SlotFields, LinkTypes, FilesAreFiles
    <3>2. After(t, f) /\ (cx[t].file # NoFile => Same(cx[t].file, f) /\ cx[t].file.id < f.id)
      BY <2>0, <2>2 DEF FilesOfSlot
    <3> HIDE DEF f
    <3>3. cx'[t].ack_file < f.id /\ \A e \in Entries' : e.slot = t /\ Live(e)' => e.file.id < f.id
      BY <3>1, <3>2, AcksAfter
    <3> QED BY <3>2, <3>3 DEF f
  <2>3. cx[t].link # None => link'[cx'[t].link].up = link[cx[t].link].up
    BY <1>e, <1>s, <1>t, SlotFields
  <2> QED BY <2>1, <2>2, <2>3, <1>e DEF FilesOfSlot, After
<1>3. FilesQueued'
  <2>0. FilesQueued
    BY <1>t DEF Files
  <2>1. ASSUME NEW e \in Entries', Live(e)' PROVE cx'[e.slot].ack_file < e.file.id
    <3>0. e \in Entries /\ Live(e) /\ e.slot \in Slot
      BY <2>1, <1>e, <1>t, EntryTypes
    <3>1. cx[e.slot].ack_file < e.file.id
      BY <3>0, <2>0 DEF FilesQueued
    <3>2. CASE cx'[e.slot].ack_file = cx[e.slot].ack_file
      BY <3>1, <3>2
    <3>3. CASE cx'[e.slot].ack_file # cx[e.slot].ack_file
      <4>1. /\ e.slot = s /\ inHand # NoFile /\ inHand' = NoFile /\ inHand.slot = s
            /\ Live(inHand) /\ cx'[s].ack_file = inHand.file.id
        BY <3>0, <3>3, <1>e, <1>s
      <4>2. PICK j \in 1 .. Len(output_queue) : e = output_queue[j]
        BY <4>1, <2>1, <1>s DEF Entries, InHand
      <4>3. inHand.sender = e.sender
        BY <3>0, <4>1 DEF Live
      <4>4. inHand.file.id < e.file.id
        BY <2>0, <3>0, <4>1, <4>2, <4>3 DEF FilesQueued
      <4> QED BY <4>1, <4>4
    <3> QED BY <3>2, <3>3
  <2>2. \A j \in 1 .. Len(output_queue) : Live(output_queue[j])' <=> Live(output_queue[j])
    BY <1>e, <1>s, <1>t, EntryTypes DEF Live
  <2>3. \A j \in 1 .. Len(output_queue) :
          output_queue[j].slot \in Slot /\ output_queue[j].file.id \in Nat
    BY <1>t, EntryTypes, FileFields
  <2>4. ASSUME NEW i \in 1 .. Len(output_queue), NEW j \in 1 .. Len(output_queue),
               i < j, output_queue[i].slot = output_queue[j].slot,
               output_queue[i].sender = output_queue[j].sender, Live(output_queue[i])'
        PROVE  output_queue[i].file.id < output_queue[j].file.id
    BY <2>0, <2>2, <2>4, <1>s DEF FilesQueued
  <2>5. ASSUME NEW j \in 1 .. Len(output_queue), inHand' # NoFile,
               inHand'.slot = output_queue[j].slot, inHand'.sender = output_queue[j].sender,
               Live(output_queue[j])'
        PROVE  inHand'.file.id < output_queue[j].file.id
    <3>1. inHand' = inHand
      BY <2>5, <1>s
    <3> QED BY <2>0, <2>2, <2>5, <3>1 DEF FilesQueued
  <2> QED BY <2>1, <2>4, <2>5, <1>s DEF FilesQueued
<1>4. ASSUME NEW d \in Client PROVE FilesSent(d)'
  <2>0. FilesSent(d)
    BY <1>t DEF Files
  <2> SUFFICES ASSUME client[d].link # None, NEW h, h = client[d].link, h \in Link
               PROVE  FilesSent(d)'
    BY <1>s, <1>t, ClientFields DEF FilesSent
  <2>1. \A f : SentBy(d, f)' <=> SentBy(d, f)
    BY <1>s DEF SentBy
  <2>2. \A i \in 1 .. Len(link'[h].up) :
          IsFile(link'[h].up, i) => SentBy(d, link'[h].up[i].file)
    BY <2>0, <1>s DEF FilesSent
  <2>3. ASSUME NEW t \in Slot, cx'[t].link = h
        PROVE  /\ cx'[t].file # NoFile => SentBy(d, cx'[t].file)
               /\ \A e \in Entries' : e.slot = t /\ Live(e)' => SentBy(d, e.file)
               /\ client[d].base + cx'[t].ack_file <= SentUpTo(client[d], acked[d])
    <3>1. /\ cx[t].file # NoFile => SentBy(d, cx[t].file)
          /\ \A e \in Entries : e.slot = t /\ Live(e) => SentBy(d, e.file)
          /\ client[d].base + cx[t].ack_file <= SentUpTo(client[d], acked[d])
      BY <2>0, <2>3, <1>e DEF FilesSent
    <3>2. client[d].base + cx'[t].ack_file <= SentUpTo(client[d], acked[d])
      <4>1. CASE cx'[t].ack_file = cx[t].ack_file
        BY <3>1, <4>1
      <4>2. CASE cx'[t].ack_file # cx[t].ack_file
        <5>1. /\ t = s /\ inHand # NoFile /\ inHand.slot = s /\ Live(inHand)
              /\ cx'[t].ack_file = inHand.file.id
          BY <4>2, <1>e, <1>s
        <5>2. SentBy(d, inHand.file)
          BY <3>1, <5>1, <1>t, EntryTypes
        <5> QED BY <5>1, <5>2 DEF SentBy
      <4> QED BY <4>1, <4>2
    <3> QED BY <3>1, <3>2, <1>e
  <2> QED BY <2>1, <2>2, <2>3, <1>s DEF FilesSent
<1> QED BY <1>1, <1>2, <1>3, <1>4 DEF Files

(* Acknowledging loses no message.                                         *)
LEMMA AcksKeepOrder ==
  ASSUME TransportInv, NEW s \in Slot, SlotAcks(s)
  PROVE  Order'
<1>t. ClientTypeOK /\ LinkTypeOK /\ ServerTypeOK /\ Order
  BY DEF TransportInv, TransportTypeOK
<1>e. \A t \in Slot : cx'[t].link = cx[t].link /\ cx'[t].file = cx[t].file
  BY AcksEntries
<1>s. /\ client' = client /\ acked' = acked /\ output_queue' = output_queue
      /\ processed' = processed /\ inHand' \in {inHand, NoFile}
      /\ \A k \in Link : link'[k].up = link[k].up /\ link'[k].serverOpen = link[k].serverOpen
  BY DEF SlotAcks
<1>1. \A d \in Client : /\ \A m \in processed'[d] : Dispatched(d, m)'
                        /\ Dispatched(d, acked[d])'
  BY <1>s, <1>t DEF Order, Dispatched
<1>2. inHand' # NoFile => inHand'.file.msg \in processed'[inHand'.file.source]
  BY <1>s, <1>t DEF Order
<1>3. \A i \in 1 .. Len(output_queue') : \A m \in 1 .. output_queue'[i].file.msg - 1 :
        QueuedBefore(output_queue[i].file.source, m, i - 1)'
  <2>1. \A i \in 1 .. Len(output_queue) : \A m \in 1 .. output_queue[i].file.msg - 1 :
        QueuedBefore(output_queue[i].file.source, m, i - 1)
    BY <1>t DEF Order
  <2> QED BY <1>s, <2>1 DEF QueuedBefore
<1>4. ASSUME NEW k \in Link, NEW d, NEW n, Coming(k, d, n) PROVE Coming(k, d, n)'
  <2>1. \A m : Queued(d, m) => Queued(d, m)'
    BY <1>s DEF Queued, QueuedBefore
  <2>2. \A m : Carries(k, d, m) => Carries(k, d, m)'
    BY <1>e, <1>s DEF Carries
  <2> QED BY <1>4, <2>1, <2>2 DEF Coming
<1>5. \A k \in Link : \A i \in 1 .. Len(link'[k].up) : IsFile(link'[k].up, i) =>
        Coming(k, link[k].up[i].file.source, link[k].up[i].file.msg - 1)'
  <2> SUFFICES ASSUME NEW k \in Link, NEW i \in 1 .. Len(link[k].up), IsFile(link[k].up, i),
                      NEW d, d = link[k].up[i].file.source,
                      NEW n, n = link[k].up[i].file.msg - 1
               PROVE  Coming(k, d, n)'
    BY <1>s
  <2>1. Coming(k, d, n)
    BY <1>t DEF Order
  <2> QED BY <2>1, <1>4
<1>6. \A t \in Slot : cx'[t].file # NoFile =>
        \A m \in 1 .. cx'[t].file.msg - 1 : Queued(cx[t].file.source, m)'
  BY <1>e, <1>s, <1>t DEF Order, Queued, QueuedBefore
<1>7. \A d \in Client : client'[d].link # None /\ link'[client'[d].link].serverOpen =>
        Coming(client[d].link, d, SentUpTo(client[d], acked[d]))'
  <2> SUFFICES ASSUME NEW d \in Client, client[d].link # None,
                      link'[client[d].link].serverOpen,
                      NEW k, k = client[d].link, NEW n, n = SentUpTo(client[d], acked[d])
               PROVE  Coming(k, d, n)'
    BY <1>s
  <2>1. k \in Link /\ link[k].serverOpen
    BY <1>s, <1>t, ClientFields
  <2>2. Coming(k, d, n)
    BY <2>1, <1>t DEF Order
  <2> QED BY <2>1, <2>2, <1>4
<1> QED BY <1>1, <1>2, <1>3, <1>5, <1>6, <1>7 DEF Order

(* What is acknowledged was dispatched, and all that comes before it.      *)
LEMMA AcksKeepAcks ==
  ASSUME TransportInv, NEW s \in Slot, SlotAcks(s)
  PROVE  Acks'
<1>t. ClientTypeOK /\ LinkTypeOK /\ ServerTypeOK /\ Order /\ Files /\ Acks
  BY DEF TransportInv, TransportTypeOK
<1>e. \A t \in Slot : /\ cx'[t].link = cx[t].link
                      /\ t # s => cx'[t].ack_file = cx[t].ack_file
  BY AcksEntries
<1>s. client' = client /\ processed' = processed
  BY DEF SlotAcks
<1>1. ASSUME NEW d \in Client, client[d].link # None, NEW t \in Slot, cx[t].link = client[d].link
      PROVE  Dispatched(d, client[d].base + cx'[t].ack_file)
  <2>1. CASE cx'[t].ack_file = cx[t].ack_file
    BY <1>1, <2>1, <1>t DEF Acks
  <2>2. CASE cx'[t].ack_file # cx[t].ack_file
    <3>1. /\ t = s /\ inHand # NoFile /\ inHand.slot = s /\ Live(inHand)
          /\ cx'[t].ack_file = inHand.file.id
      BY <2>2, <1>e DEF SlotAcks
    <3>2. inHand \in Entries
      BY <3>1, <1>t, EntryTypes
    <3>3. SentBy(d, inHand.file)
      BY <1>1, <3>1, <3>2, <1>t DEF Files, FilesSent
    <3>4. inHand.file.source = d /\ inHand.file.msg = client[d].base + cx'[t].ack_file
      BY <3>1, <3>3 DEF SentBy
    <3>5. inHand.file.msg \in processed[d]
      BY <3>1, <3>4, <1>t DEF Order
    <3> QED BY <3>4, <3>5, <1>t DEF Order
  <2> QED BY <2>1, <2>2
<1>2. ASSUME NEW d \in Client, client[d].link # None,
             NEW i \in 1 .. Len(link'[client[d].link].down),
             link'[client[d].link].down[i].kind = "ACK"
      PROVE  Dispatched(d, client[d].base + link'[client[d].link].down[i].id)
  <2>0. client[d].link \in Link
    BY <1>2, <1>t, ClientFields
  <2>1. CASE \E j \in 1 .. Len(link[client[d].link].down) :
               link'[client[d].link].down[i] = link[client[d].link].down[j]
    BY <1>2, <2>1, <1>t DEF Acks
  <2>2. CASE /\ client[d].link = cx[s].link
             /\ link'[client[d].link].down[i] = ACK(cx'[s].ack_file)
    <3>1. link'[client[d].link].down[i].id = cx'[s].ack_file
      BY <2>2 DEF ACK
    <3> QED BY <1>1, <1>2, <2>2, <3>1
  <2> QED BY <2>0, <2>1, <2>2 DEF SlotAcks
<1> QED BY <1>1, <1>2, <1>e, <1>s DEF Acks, Dispatched

(* A slot that acknowledges keeps the invariant.                           *)
LEMMA AcksKeepInv ==
  ASSUME TransportInv, NEW s \in Slot, SlotAcks(s), TransportTypeOK'
  PROVE  TransportInv'
BY AcksKeepEnds, AcksKeepFiles, AcksKeepOrder, AcksKeepAcks DEF TransportInv

(* TR_server_acknowledge_files, for a table of slots; n is the number of   *)
(* the last file of slot s in it.                                          *)
LEMMA AcknowledgesDown ==
  ASSUME TransportInv, NEW table \in [Slot -> SlotState], NEW s \in Slot, NEW min \in Nat,
         table[s].link = cx[s].link, AcknowledgeFiles(table, s, min)
  PROVE  /\ link' \in [Link -> LinkState] /\ cx' \in [Slot -> SlotState]
         /\ \A t \in Slot \ {s} : cx'[t] = table[t]
         /\ cx'[s].link = table[s].link /\ cx'[s].cx_id = table[s].cx_id
         /\ cx'[s].state = table[s].state /\ cx'[s].file = table[s].file
         /\ cx'[s].ack_file = table[s].ack_file
         /\ \A k \in Link :
              /\ link'[k].up = link[k].up
              /\ link'[k].clientOpen = link[k].clientOpen
              /\ link'[k].serverOpen = link[k].serverOpen
              /\ \A i \in 1 .. Len(link'[k].down) :
                   \/ \E j \in 1 .. Len(link[k].down) : link'[k].down[i] = link[k].down[j]
                   \/ k = cx[s].link /\ link'[k].down[i] = ACK(cx'[s].ack_file)
<1>t. LinkTypeOK /\ ServerTypeOK
  BY DEF TransportInv, TransportTypeOK
<1>1. CASE cx' = table /\ UNCHANGED link
  BY <1>1, <1>t DEF LinkTypeOK
<1>2. CASE /\ table[s].link # None /\ table[s].non_acknowledged > min
           /\ link' = [link EXCEPT ![table[s].link] = SendDown(@, ACK(table[s].ack_file))]
           /\ cx' = [table EXCEPT ![s].non_acknowledged = 0]
  <2> DEFINE h == cx[s].link
             x == ACK(table[s].ack_file)
             l == SendDown(link[h], x)
             zero == 0
             y == [table[s] EXCEPT !.non_acknowledged = zero]
  <2>1. h \in Link /\ table[s] \in SlotState /\ link[h] \in LinkState
    BY <1>2, <1>t, SlotFields, LinkTypes
  <2>2. x \in Down
    <3>1. table[s].ack_file \in Nat
      BY <2>1 DEF SlotState
    <3> QED BY <3>1, DownKinds
  <2>3. link' = [link EXCEPT ![h] = l] /\ cx' = [table EXCEPT ![s] = y]
    BY <1>2
  <2>4. zero \in Nat
    OBVIOUS
  <2> HIDE DEF zero
  <2>5. /\ y \in SlotState /\ y.link = table[s].link /\ y.cx_id = table[s].cx_id
        /\ y.state = table[s].state /\ y.file = table[s].file /\ y.ack_file = table[s].ack_file
    BY <2>1, <2>4 DEF SlotState
  <2>6. /\ l \in LinkState /\ l.up = link[h].up
        /\ l.clientOpen = link[h].clientOpen /\ l.serverOpen = link[h].serverOpen
        /\ l.down = IF link[h].clientOpen THEN Append(link[h].down, x) ELSE link[h].down
    BY <2>1, <2>2, SendDownFields
  <2>7. \A i \in 1 .. Len(l.down) :
          \/ \E j \in 1 .. Len(link[h].down) : l.down[i] = link[h].down[j]
          \/ l.down[i] = x
    <3> DEFINE down == link[h].down
    <3>1. down \in Seq(Down)
      BY <2>1, LinkFields, SMTT(30)
    <3>2. l.down = Append(down, x) \/ l.down = down
      BY <2>6
    <3> HIDE DEF down, x, l
    <3>3. \A i \in 1 .. Len(Append(down, x)) :
            (i \in 1 .. Len(down) /\ Append(down, x)[i] = down[i]) \/ Append(down, x)[i] = x
      BY <3>1, <2>2, AppendProperties
    <3>4. \A i \in 1 .. Len(l.down) :
            \/ \E j \in 1 .. Len(down) : l.down[i] = down[j]
            \/ l.down[i] = x
      BY <3>2, <3>3
    <3> QED BY <3>4 DEF down
  <2> HIDE DEF x, l, y, h
  <2>8. /\ cx' \in [Slot -> SlotState] /\ cx'[s] = y
        /\ \A t \in Slot \ {s} : cx'[t] = table[t]
    BY <2>3, <2>5
  <2>9. link' \in [Link -> LinkState] /\ link'[h] = l /\ OnlyLink(h)
    BY <2>1, <2>3, <2>6, <1>t, LinkUpdated DEF LinkTypeOK
  <2>10. ASSUME NEW k \in Link
         PROVE  /\ link'[k].up = link[k].up
                /\ link'[k].clientOpen = link[k].clientOpen
                /\ link'[k].serverOpen = link[k].serverOpen
                /\ \A i \in 1 .. Len(link'[k].down) :
                     \/ \E j \in 1 .. Len(link[k].down) : link'[k].down[i] = link[k].down[j]
                     \/ k = h /\ link'[k].down[i] = x
    <3>1. CASE k = h
      BY <3>1, <2>6, <2>7, <2>9
    <3>2. CASE k # h
      <4>1. link'[k] = link[k]
        BY <3>2, <2>9 DEF OnlyLink
      <4> QED BY <4>1
    <3> QED BY <3>1, <3>2
  <2> QED BY <2>5, <2>8, <2>9, <2>10 DEF h, x
<1> QED BY <1>1, <1>2 DEF AcknowledgeFiles

(* Once a second.                                                          *)
LEMMA SendAcksKeepsInv ==
  ASSUME TransportInv, NEW s \in Slot, SendAcks(s)
  PROVE  TransportInv'
<1>t. ClientTypeOK /\ LinkTypeOK /\ ServerTypeOK
  BY DEF TransportInv, TransportTypeOK
<1>0. /\ UNCHANGED <<client, written, acked, backlog, cx_counter, pushing>>
      /\ UNCHANGED <<output_queue, inHand, processed>>
      /\ AcknowledgeFiles(cx, s, 0)
  BY DEF SendAcks, ServerThread, clientVars, mainVars
<1>1. cx \in [Slot -> SlotState] /\ 0 \in Nat
  BY <1>t DEF ServerTypeOK
<1>2. /\ link' \in [Link -> LinkState] /\ cx' \in [Slot -> SlotState]
      /\ \A t \in Slot \ {s} : cx'[t] = cx[t]
      /\ cx'[s].link = cx[s].link /\ cx'[s].cx_id = cx[s].cx_id
      /\ cx'[s].state = cx[s].state /\ cx'[s].file = cx[s].file
      /\ cx'[s].ack_file = cx[s].ack_file
      /\ \A k \in Link :
           /\ link'[k].up = link[k].up
           /\ link'[k].clientOpen = link[k].clientOpen
           /\ link'[k].serverOpen = link[k].serverOpen
           /\ \A i \in 1 .. Len(link'[k].down) :
                \/ \E j \in 1 .. Len(link[k].down) : link'[k].down[i] = link[k].down[j]
                \/ k = cx[s].link /\ link'[k].down[i] = ACK(cx'[s].ack_file)
  BY <1>0, <1>1, AcknowledgesDown
<1>3. SlotAcks(s)
  BY <1>0, <1>2 DEF SlotAcks, OnlySlot
<1>4. TransportTypeOK'
  BY <1>0, <1>2, <1>t DEF TransportTypeOK, ClientTypeOK, LinkTypeOK, ServerTypeOK
<1> QED BY <1>3, <1>4, AcksKeepInv

(* The last number of a slot, and how many files it has to acknowledge.    *)
LEMMA CountedFields ==
  ASSUME NEW slot \in SlotState, NEW n \in Nat
  PROVE  LET y == [slot EXCEPT !.ack_file = n, !.non_acknowledged = @ + 1]
         IN  /\ y \in SlotState /\ y.link = slot.link /\ y.cx_id = slot.cx_id
             /\ y.state = slot.state /\ y.file = slot.file /\ y.ack_file = n
<1> DEFINE m == slot.non_acknowledged + 1
<1>1. m \in Nat
  BY DEF SlotState
<1> HIDE DEF m
<1>2. /\ [slot EXCEPT !.ack_file = n, !.non_acknowledged = m] \in SlotState
      /\ [slot EXCEPT !.ack_file = n, !.non_acknowledged = m].link = slot.link
      /\ [slot EXCEPT !.ack_file = n, !.non_acknowledged = m].cx_id = slot.cx_id
      /\ [slot EXCEPT !.ack_file = n, !.non_acknowledged = m].state = slot.state
      /\ [slot EXCEPT !.ack_file = n, !.non_acknowledged = m].file = slot.file
      /\ [slot EXCEPT !.ack_file = n, !.non_acknowledged = m].ack_file = n
  BY <1>1 DEF SlotState
<1> QED BY <1>2 DEF m

(* The main thread acknowledges the file that it has dispatched.           *)
LEMMA AckFileKeepsInv ==
  ASSUME TransportInv, AckFile
  PROVE  TransportInv'
<1>t. ClientTypeOK /\ LinkTypeOK /\ ServerTypeOK
  BY DEF TransportInv, TransportTypeOK
<1> DEFINE s == inHand.slot
           n == inHand.file.id
           y == [cx[s] EXCEPT !.ack_file = n, !.non_acknowledged = @ + 1]
           counted == [cx EXCEPT ![s] = y]
           table == IF Counts(inHand) THEN counted ELSE cx
<1>0. /\ UNCHANGED <<client, written, acked, backlog, cx_counter, pushing>>
      /\ UNCHANGED <<output_queue, processed>>
      /\ inHand # NoFile /\ inHand' = NoFile
      /\ AcknowledgeFiles(table, s, AckMaxFiles)
  BY DEF AckFile, clientVars
<1>1. s \in Slot /\ inHand \in Entry /\ n \in Nat
  BY <1>0, <1>t, EntryTypes, FileFields
<1>2. cx \in [Slot -> SlotState] /\ cx[s] \in SlotState
  BY <1>1, <1>t DEF ServerTypeOK
<1>3. /\ y \in SlotState /\ y.link = cx[s].link /\ y.cx_id = cx[s].cx_id
      /\ y.state = cx[s].state /\ y.file = cx[s].file /\ y.ack_file = n
  BY <1>1, <1>2, CountedFields
<1> HIDE DEF y, s
<1>4. /\ counted \in [Slot -> SlotState] /\ counted[s] = y
      /\ \A t \in Slot \ {s} : counted[t] = cx[t]
  BY <1>1, <1>2, <1>3
<1> HIDE DEF counted
<1>5. /\ table \in [Slot -> SlotState] /\ \A t \in Slot \ {s} : table[t] = cx[t]
      /\ table[s].link = cx[s].link /\ table[s].cx_id = cx[s].cx_id
      /\ table[s].state = cx[s].state /\ table[s].file = cx[s].file
      /\ table[s].ack_file = cx[s].ack_file \/ (Counts(inHand) /\ table[s].ack_file = n)
  <2>1. CASE Counts(inHand)
    <3>1. table = counted
      BY <2>1
    <3> HIDE DEF table
    <3> QED BY <2>1, <3>1, <1>3, <1>4
  <2>2. CASE ~Counts(inHand)
    <3>1. table = cx
      BY <2>2
    <3> HIDE DEF table
    <3> QED BY <3>1, <1>2
  <2> QED BY <2>1, <2>2
<1> HIDE DEF table, n
<1>6. AckMaxFiles \in Nat
  BY TransportAssumption
<1>7. /\ link' \in [Link -> LinkState] /\ cx' \in [Slot -> SlotState]
      /\ \A t \in Slot \ {s} : cx'[t] = table[t]
      /\ cx'[s].link = table[s].link /\ cx'[s].cx_id = table[s].cx_id
      /\ cx'[s].state = table[s].state /\ cx'[s].file = table[s].file
      /\ cx'[s].ack_file = table[s].ack_file
      /\ \A k \in Link :
           /\ link'[k].up = link[k].up
           /\ link'[k].clientOpen = link[k].clientOpen
           /\ link'[k].serverOpen = link[k].serverOpen
           /\ \A i \in 1 .. Len(link'[k].down) :
                \/ \E j \in 1 .. Len(link[k].down) : link'[k].down[i] = link[k].down[j]
                \/ k = cx[s].link /\ link'[k].down[i] = ACK(cx'[s].ack_file)
  BY <1>0, <1>1, <1>5, <1>6, AcknowledgesDown
<1>8. cx'[s].ack_file = cx[s].ack_file
      \/ (inHand.slot = s /\ Live(inHand) /\ cx'[s].ack_file = inHand.file.id)
  BY <1>5, <1>7 DEF Counts, Live, s, n
<1>9. SlotAcks(s)
  BY <1>0, <1>5, <1>7, <1>8 DEF SlotAcks, OnlySlot
<1>10. TransportTypeOK'
  BY <1>0, <1>7, <1>t DEF TransportTypeOK, ClientTypeOK, LinkTypeOK, ServerTypeOK
<1> QED BY <1>1, <1>9, <1>10, AcksKeepInv

-----------------------------------------------------------------------------
(* The file of a slot goes to the output queue, as entry e.                *)
SlotPushes(s, e) ==
  /\ pushing = s /\ pushing' = None
  /\ cx[s].file \in File /\ cx[s].link # None
  /\ e.file = cx[s].file /\ e.slot = s /\ e.sender = cx[s].cx_id
  /\ cx'[s].file = NoFile /\ cx'[s].state = "WAITING_FILE_BEGIN"
  /\ cx'[s].link = cx[s].link /\ cx'[s].cx_id = cx[s].cx_id
  /\ cx'[s].ack_file = cx[s].ack_file
  /\ OnlySlot(s)
  /\ output_queue' = Append(output_queue, e)
  /\ client' = client /\ acked' = acked /\ written' = written /\ backlog' = backlog
  /\ link' = link /\ cx_counter' = cx_counter /\ inHand' = inHand /\ processed' = processed

(* The file goes to the queue with its slot and the cx_id of it.           *)
LEMMA PushFacts ==
  ASSUME TransportInv, Push
  PROVE  \E s \in Slot : \E e \in Entry : SlotPushes(s, e) /\ TransportTypeOK'
<1>t. ClientTypeOK /\ LinkTypeOK /\ ServerTypeOK /\ Ends
  BY DEF TransportInv, TransportTypeOK
<1> DEFINE s == pushing
           f == cx[s].file
           id == cx[s].cx_id
           e == [file |-> f, slot |-> s, sender |-> id]
           nothing == NoFile
           state == "WAITING_FILE_BEGIN"
           y == [cx[s] EXCEPT !.state = state, !.file = nothing]
<1>0. /\ s # None /\ output_queue' = Append(output_queue, e) /\ pushing' = None
      /\ cx' = [cx EXCEPT ![s] = y]
      /\ UNCHANGED <<client, written, acked, link, backlog, cx_counter, inHand, processed>>
  BY DEF Push, clientVars
<1>1. s \in Slot /\ cx[s] \in SlotState /\ f # NoFile
  BY <1>0, <1>t, SlotFields DEF Ends, ServerTypeOK
<1>2. f \in File
  BY <1>1, <1>t, SlotFields
<1>3. cx[s].link # None /\ id >= 0 /\ id \in Int
  BY <1>1, <1>t, SlotFields DEF Ends, SlotEnd
<1>4. nothing \in File \union {NoFile}
      /\ state \in {"INIT", "WAITING_FILE_BEGIN", "WAITING_FILE_END"}
  OBVIOUS
<1> HIDE DEF nothing, state
<1>5. /\ y \in SlotState /\ y.link = cx[s].link /\ y.cx_id = id
      /\ y.state = state /\ y.file = nothing /\ y.ack_file = cx[s].ack_file
  BY <1>1, <1>4 DEF SlotState
<1> HIDE DEF y
<1>6. cx' \in [Slot -> SlotState] /\ cx'[s] = y /\ OnlySlot(s)
  BY <1>0, <1>1, <1>5, <1>t, SlotUpdated DEF ServerTypeOK
<1> HIDE DEF f, id
<1>7. e \in Entry /\ e.file = f /\ e.slot = s /\ e.sender = id
  <2>1. id \in Nat
    BY <1>3
  <2> QED BY <1>1, <1>2, <2>1 DEF Entry
<1> HIDE DEF e
<1>8. output_queue' \in Seq(Entry)
  BY <1>0, <1>7, <1>t, AppendProperties DEF ServerTypeOK
<1>9. SlotPushes(s, e)
  BY <1>0, <1>2, <1>3, <1>5, <1>6, <1>7 DEF SlotPushes, f, id, nothing, state
<1>10. TransportTypeOK'
  BY <1>0, <1>6, <1>8, <1>t DEF TransportTypeOK, ClientTypeOK, LinkTypeOK, ServerTypeOK
<1> QED BY <1>1, <1>7, <1>9, <1>10

(* The entries, with the new one at the end.                               *)
LEMMA PushEntries ==
  ASSUME TransportInv, NEW s \in Slot, NEW e \in Entry, SlotPushes(s, e)
  PROVE  /\ Len(output_queue) \in Nat /\ Len(output_queue') = Len(output_queue) + 1
         /\ \A i \in 1 .. Len(output_queue) :
              i \in 1 .. Len(output_queue') /\ output_queue'[i] = output_queue[i]
         /\ output_queue'[Len(output_queue) + 1] = e
         /\ \A i \in 1 .. Len(output_queue') :
              i \in 1 .. Len(output_queue) \/ i = Len(output_queue) + 1
         /\ Entries' = Entries \union {e}
         /\ \A x \in Entries' : Live(x)' <=> Live(x)
         /\ Live(e)
         /\ \A t \in Slot : /\ cx'[t].link = cx[t].link /\ cx'[t].cx_id = cx[t].cx_id
                            /\ cx'[t].ack_file = cx[t].ack_file
                            /\ t # s => cx'[t] = cx[t]
<1>t. ServerTypeOK
  BY DEF TransportInv, TransportTypeOK
<1> DEFINE q == output_queue
           r == Append(q, e)
<1>1. q \in Seq(Entry)
  BY <1>t DEF ServerTypeOK
<1>2. output_queue' = r /\ inHand' = inHand
  BY DEF SlotPushes
<1>3. /\ Len(q) \in Nat /\ Len(r) = Len(q) + 1 /\ r[Len(q) + 1] = e
      /\ \A i \in 1 .. Len(q) : r[i] = q[i]
  BY <1>1, AppendProperties
<1> HIDE DEF q, r
<1>4. /\ \A i \in 1 .. Len(q) : i \in 1 .. Len(r)
      /\ \A i \in 1 .. Len(r) : i \in 1 .. Len(q) \/ i = Len(q) + 1
      /\ Len(q) + 1 \in 1 .. Len(r)
  BY <1>3
<1>5. {r[i] : i \in 1 .. Len(r)} = {q[i] : i \in 1 .. Len(q)} \union {e}
  BY <1>3, <1>4
<1>6. Entries' = Entries \union {e}
  <2>1. Entries' = InHand \union {r[i] : i \in 1 .. Len(r)}
    BY <1>2 DEF Entries, InHand
  <2>2. Entries = InHand \union {q[i] : i \in 1 .. Len(q)}
    BY DEF Entries, q
  <2> QED BY <2>1, <2>2, <1>5
<1>7. \A t \in Slot : /\ cx'[t].link = cx[t].link /\ cx'[t].cx_id = cx[t].cx_id
                      /\ cx'[t].ack_file = cx[t].ack_file
                      /\ t # s => cx'[t] = cx[t]
  BY DEF SlotPushes, OnlySlot
<1>8. \A x \in Entries' : Live(x)' <=> Live(x)
  <2>1. \A x \in Entries' : x.slot \in Slot
    BY <1>6, <1>t, EntryTypes DEF SlotPushes
  <2> QED BY <2>1, <1>7 DEF Live
<1>9. Live(e)
  BY DEF SlotPushes, Live
<1> QED BY <1>2, <1>3, <1>4, <1>6, <1>7, <1>8, <1>9 DEF q

(* The slot expects the next file, as it did while it was pushing.         *)
LEMMA PushKeepsEnds ==
  ASSUME TransportInv, NEW s \in Slot, NEW e \in Entry, SlotPushes(s, e)
  PROVE  ClientQueues' /\ Ends' /\ Lines'
<1>t. ClientTypeOK /\ LinkTypeOK /\ ServerTypeOK /\ Ends /\ ClientQueues /\ Lines
  BY DEF TransportInv, TransportTypeOK
<1>e. /\ Entries' = Entries \union {e}
      /\ \A t \in Slot : /\ cx'[t].link = cx[t].link /\ cx'[t].cx_id = cx[t].cx_id
                         /\ t # s => cx'[t] = cx[t]
  BY PushEntries
<1>s. /\ client' = client /\ acked' = acked /\ backlog' = backlog /\ link' = link
      /\ cx_counter' = cx_counter /\ pushing = s /\ pushing' = None
      /\ cx[s].link # None /\ e.sender = cx[s].cx_id
      /\ cx'[s].file = NoFile /\ cx'[s].state = "WAITING_FILE_BEGIN"
  BY DEF SlotPushes
<1>1. ClientQueues'
  BY <1>t, <1>s DEF ClientQueues, QueueOf
<1>2. \A d \in Client : ClientEnd(d)'
  BY <1>s, <1>t DEF Ends, ClientEnd
<1>3. \A t \in Slot : SlotEnd(t)'
  BY <1>e, <1>s, <1>t DEF Ends, SlotEnd
<1>4. \A i \in 1 .. Len(backlog') : BacklogEnd(i)'
  BY <1>e, <1>s, <1>t DEF Ends, BacklogEnd
<1>5. \A x \in Entries' : x.sender < cx_counter'
  BY <1>e, <1>s, <1>t DEF Ends, SlotEnd
<1>6. Ends'
  BY <1>2, <1>3, <1>4, <1>5, <1>s, <1>t DEF Ends
<1>7. \A k, first : InStep(k, first) => InStep(k, first)'
  BY <1>s DEF InStep
<1>8. ASSUME NEW t \in Slot PROVE Expects(t)' = Expects(t)
  <2>1. CASE t = s
    BY <2>1, <1>s DEF Expects
  <2>2. CASE t # s
    BY <2>2, <1>e, <1>s, Nothing DEF Expects
  <2> QED BY <2>1, <2>2
<1>9. Lines'
  <2>1. \A t \in Slot : cx[t].link # None => InStep(cx[t].link, Expects(t))'
    <3> SUFFICES ASSUME NEW t \in Slot, cx[t].link # None,
                        NEW k, k = cx[t].link, NEW first, first = Expects(t)
                 PROVE  InStep(k, first)'
      BY <1>e, <1>8
    <3>1. InStep(k, first)
      BY <1>t DEF Lines
    <3> QED BY <3>1, <1>7
  <2>2. \A i \in 1 .. Len(backlog) : InStep(backlog[i], "INI")'
    BY <1>s, <1>t DEF Lines, InStep
  <2> QED BY <2>1, <2>2, <1>e, <1>s DEF Lines
<1> QED BY <1>1, <1>6, <1>9

(* The new entry comes after those of its connection.                      *)
LEMMA PushKeepsFiles ==
  ASSUME TransportInv, NEW s \in Slot, NEW e \in Entry, SlotPushes(s, e)
  PROVE  Files'
<1>t. ClientTypeOK /\ LinkTypeOK /\ ServerTypeOK /\ Files /\ Ends
  BY DEF TransportInv, TransportTypeOK
<1>e. /\ Len(output_queue) \in Nat
      /\ \A i \in 1 .. Len(output_queue) : output_queue'[i] = output_queue[i]
      /\ output_queue'[Len(output_queue) + 1] = e
      /\ \A i \in 1 .. Len(output_queue') :
           i \in 1 .. Len(output_queue) \/ i = Len(output_queue) + 1
      /\ Entries' = Entries \union {e}
      /\ \A x \in Entries' : Live(x)' <=> Live(x)
      /\ Live(e)
      /\ \A t \in Slot : /\ cx'[t].link = cx[t].link /\ cx'[t].cx_id = cx[t].cx_id
                         /\ cx'[t].ack_file = cx[t].ack_file
                         /\ t # s => cx'[t] = cx[t]
  BY PushEntries
<1>s. /\ client' = client /\ acked' = acked /\ link' = link /\ inHand' = inHand
      /\ cx[s].file \in File /\ cx[s].file # NoFile /\ cx[s].link # None
      /\ e.file = cx[s].file /\ e.slot = s /\ e.sender = cx[s].cx_id
      /\ cx'[s].file = NoFile
  BY Nothing DEF SlotPushes
<1>a. After(s, e.file)
  BY <1>s, <1>t DEF Files, FilesOfSlot
<1>1. \A k \in Link : FilesUp(k)'
  BY <1>s, <1>t DEF Files, FilesUp
<1>2. ASSUME NEW t \in Slot PROVE FilesOfSlot(t)'
  <2>0. FilesOfSlot(t)
    BY <1>t DEF Files
  <2>1. ASSUME NEW f, After(t, f), t = s => e.file.id < f.id PROVE After(t, f)'
    BY <2>1, <1>e, <1>s DEF After
  <2>2. CASE t # s
    <3>1. \A f : After(t, f) => After(t, f)'
      BY <2>1, <2>2
    <3>2. cx'[t] = cx[t]
      BY <2>2, <1>e
    <3> QED BY <2>0, <3>1, <3>2, <1>s DEF FilesOfSlot
  <2>3. CASE t = s
    <3> DEFINE up == link[cx[s].link].up
    <3>1. \A i \in 1 .. Len(up) : IsFile(up, i) =>
            After(s, up[i].file) /\ e.file.id < up[i].file.id
      BY <2>0, <2>3, <1>s DEF FilesOfSlot
    <3>2. \A i \in 1 .. Len(up) : IsFile(up, i) => After(s, up[i].file)'
      <4> SUFFICES ASSUME NEW i \in 1 .. Len(up), IsFile(up, i), NEW f, f = up[i].file
                   PROVE  After(s, f)'
        BY <1>e, <1>s
      <4> QED BY <3>1, <2>1, <2>3
    <3> QED BY <3>2, <2>3, <1>e, <1>s DEF FilesOfSlot
  <2> QED BY <2>2, <2>3
<1>3. FilesQueued'
  <2>0. FilesQueued
    BY <1>t DEF Files
  <2>1. \A x \in Entries' : Live(x)' => cx'[x.slot].ack_file < x.file.id
    <3>1. \A x \in Entries' : cx'[x.slot].ack_file = cx[x.slot].ack_file
      BY <1>e, <1>s, <1>t, EntryTypes
    <3> QED BY <3>1, <2>0, <1>a, <1>e, <1>s DEF FilesQueued, After
  <2>2. ASSUME NEW i \in 1 .. Len(output_queue'), NEW j \in 1 .. Len(output_queue'),
               NEW x, x = output_queue'[i], NEW f, f = output_queue'[j],
               i < j, x.slot = f.slot, x.sender = f.sender, Live(x)'
        PROVE  x.file.id < f.file.id
    <3>1. i \in 1 .. Len(output_queue) /\ x = output_queue[i] /\ x \in Entries /\ Live(x)
      <4>1. i \in 1 .. Len(output_queue)
        BY <2>2, <1>e
      <4>2. x = output_queue[i] /\ x \in Entries
        BY <4>1, <2>2, <1>e, <1>t, EntryTypes
      <4> QED BY <4>1, <4>2, <2>2, <1>e
    <3>2. CASE j \in 1 .. Len(output_queue)
      BY <2>0, <2>2, <3>1, <3>2, <1>e DEF FilesQueued
    <3>3. CASE j = Len(output_queue) + 1
      <4>1. f = e
        BY <2>2, <3>3, <1>e
      <4> QED BY <4>1, <2>2, <3>1, <1>a, <1>s DEF After
    <3> QED BY <3>2, <3>3, <1>e
  <2>3. ASSUME NEW j \in 1 .. Len(output_queue'), inHand # NoFile,
               NEW f, f = output_queue'[j],
               inHand.slot = f.slot, inHand.sender = f.sender, Live(f)'
        PROVE  inHand.file.id < f.file.id
    <3>1. CASE j \in 1 .. Len(output_queue)
      <4>1. f = output_queue[j] /\ f \in Entries
        BY <2>3, <3>1, <1>e, <1>t, EntryTypes
      <4> QED BY <4>1, <2>0, <2>3, <3>1, <1>e DEF FilesQueued
    <3>2. CASE j = Len(output_queue) + 1
      <4>1. f = e /\ inHand \in Entries
        BY <2>3, <3>2, <1>e, <1>t, EntryTypes
      <4>2. Live(inHand)
        BY <4>1, <2>3, <1>e DEF Live
      <4> QED BY <4>1, <4>2, <2>3, <1>a, <1>s DEF After
    <3> QED BY <3>1, <3>2, <1>e
  <2> QED BY <2>1, <2>2, <2>3, <1>s DEF FilesQueued, Live
<1>4. ASSUME NEW d \in Client PROVE FilesSent(d)'
  <2>0. FilesSent(d)
    BY <1>t DEF Files
  <2>1. \A f : SentBy(d, f)' <=> SentBy(d, f)
    BY <1>s DEF SentBy
  <2> SUFFICES ASSUME client[d].link # None, NEW h, h = client[d].link
               PROVE  FilesSent(d)'
    BY <1>s DEF FilesSent
  <2>2. ASSUME NEW t \in Slot, cx'[t].link = h
        PROVE  /\ cx'[t].file # NoFile => SentBy(d, cx'[t].file)
               /\ \A x \in Entries' : x.slot = t /\ Live(x)' => SentBy(d, x.file)
               /\ client[d].base + cx'[t].ack_file <= SentUpTo(client[d], acked[d])
    <3>1. /\ cx[t].file # NoFile => SentBy(d, cx[t].file)
          /\ \A x \in Entries : x.slot = t /\ Live(x) => SentBy(d, x.file)
          /\ client[d].base + cx[t].ack_file <= SentUpTo(client[d], acked[d])
      BY <2>0, <2>2, <1>e DEF FilesSent
    <3>2. cx'[t].file # NoFile => SentBy(d, cx'[t].file)
      BY <3>1, <1>e, <1>s
    <3>3. t = s => SentBy(d, e.file)
      BY <3>1, <1>s
    <3> QED BY <3>1, <3>2, <3>3, <1>e, <1>s
  <2> QED BY <2>0, <2>1, <2>2, <1>s DEF FilesSent
<1> QED BY <1>1, <1>2, <1>3, <1>4 DEF Files

(* All messages before the new entry's are queued before it.               *)
LEMMA PushKeepsOrder ==
  ASSUME TransportInv, NEW s \in Slot, NEW e \in Entry, SlotPushes(s, e)
  PROVE  Order'
<1>t. ClientTypeOK /\ LinkTypeOK /\ ServerTypeOK /\ Order
  BY DEF TransportInv, TransportTypeOK
<1> DEFINE n == Len(output_queue)
<1>e. /\ n \in Nat /\ Len(output_queue') = n + 1
      /\ \A i \in 1 .. n : i \in 1 .. Len(output_queue') /\ output_queue'[i] = output_queue[i]
      /\ output_queue'[n + 1] = e
      /\ \A i \in 1 .. Len(output_queue') : i \in 1 .. n \/ i = n + 1
      /\ \A t \in Slot : cx'[t].link = cx[t].link /\ (t # s => cx'[t] = cx[t])
  BY PushEntries
<1> HIDE DEF n
<1>s. /\ client' = client /\ acked' = acked /\ link' = link /\ inHand' = inHand
      /\ processed' = processed /\ cx[s].file # NoFile
      /\ e.file = cx[s].file /\ e.slot = s /\ cx'[s].file = NoFile
  BY Nothing DEF SlotPushes
<1>1. \A d \in Client : /\ \A m \in processed'[d] : Dispatched(d, m)'
                        /\ Dispatched(d, acked[d])'
  BY <1>s, <1>t DEF Order, Dispatched
<1>2. inHand' # NoFile => inHand'.file.msg \in processed'[inHand'.file.source]
  BY <1>s, <1>t DEF Order
<1>q. ASSUME NEW d, NEW m, NEW i \in 0 .. n, QueuedBefore(d, m, i)
      PROVE  QueuedBefore(d, m, i)' /\ Queued(d, m)'
  <2>1. CASE m \in processed[d]
    BY <2>1, <1>s DEF QueuedBefore, Queued
  <2>2. CASE m \notin processed[d]
    <3>1. PICK j \in 1 .. i : output_queue[j].file.source = d /\ output_queue[j].file.msg = m
      BY <2>2, <1>q DEF QueuedBefore
    <3>2. j \in 1 .. n /\ j \in 1 .. Len(output_queue')
      BY <3>1, <1>e
    <3>3. output_queue'[j].file.source = d /\ output_queue'[j].file.msg = m
      BY <3>1, <3>2, <1>e
    <3> QED BY <3>2, <3>3 DEF QueuedBefore, Queued
  <2> QED BY <2>1, <2>2
<1>w. \A d, m : Queued(d, m) => Queued(d, m)'
  <2>1. n \in 0 .. n
    BY <1>e
  <2> QED BY <2>1, <1>q DEF Queued, n
<1>f. \A m \in 1 .. e.file.msg - 1 : Queued(e.file.source, m)
  BY <1>s, <1>t DEF Order
<1>3. ASSUME NEW i \in 1 .. Len(output_queue'), NEW d, d = output_queue'[i].file.source,
             NEW m \in 1 .. output_queue'[i].file.msg - 1
      PROVE  QueuedBefore(d, m, i - 1)'
  <2>1. CASE i \in 1 .. n
    <3>1. d = output_queue[i].file.source /\ m \in 1 .. output_queue[i].file.msg - 1
      BY <2>1, <1>3, <1>e
    <3>2. QueuedBefore(d, m, i - 1) /\ i - 1 \in 0 .. n
      BY <2>1, <3>1, <1>e, <1>t DEF Order, n
    <3> QED BY <3>2, <1>q
  <2>2. CASE i = n + 1
    <3>1. d = e.file.source /\ m \in 1 .. e.file.msg - 1 /\ i - 1 = n /\ n \in 0 .. n
      BY <2>2, <1>3, <1>e
    <3>2. QueuedBefore(d, m, n)
      BY <3>1, <1>f DEF Queued, n
    <3>3. i - 1 \in 0 .. n /\ QueuedBefore(d, m, i - 1)
      BY <3>1, <3>2
    <3> QED BY <3>3, <1>q
  <2> QED BY <2>1, <2>2, <1>e
<1>4. ASSUME NEW k \in Link, NEW d, NEW m, Carries(k, d, m)
      PROVE  Queued(d, m)' \/ Carries(k, d, m)'
  <2>1. CASE \E i \in 1 .. Len(link[k].up) :
               /\ IsFile(link[k].up, i)
               /\ link[k].up[i].file.source = d /\ link[k].up[i].file.msg = m
    BY <2>1, <1>s DEF Carries
  <2>2. ASSUME NEW t \in Slot, cx[t].link = k, cx[t].file # NoFile,
               cx[t].file.source = d, cx[t].file.msg = m
        PROVE  Queued(d, m)' \/ Carries(k, d, m)'
    <3>1. CASE t = s
      <4>1. n + 1 \in 1 .. Len(output_queue')
        BY <1>e
      <4>2. output_queue'[n + 1].file.source = d /\ output_queue'[n + 1].file.msg = m
        BY <2>2, <3>1, <1>e, <1>s
      <4> QED BY <4>1, <4>2 DEF Queued, QueuedBefore
    <3>2. CASE t # s
      <4>1. cx'[t] = cx[t]
        BY <3>2, <1>e
      <4> QED BY <2>2, <4>1 DEF Carries
    <3> QED BY <3>1, <3>2
  <2> QED BY <2>1, <2>2, <1>4 DEF Carries
<1>5. ASSUME NEW k \in Link, NEW d, NEW l, Coming(k, d, l) PROVE Coming(k, d, l)'
  BY <1>4, <1>5, <1>w DEF Coming
<1>6. \A k \in Link : \A i \in 1 .. Len(link'[k].up) : IsFile(link'[k].up, i) =>
        Coming(k, link[k].up[i].file.source, link[k].up[i].file.msg - 1)'
  <2> SUFFICES ASSUME NEW k \in Link, NEW i \in 1 .. Len(link[k].up), IsFile(link[k].up, i),
                      NEW d, d = link[k].up[i].file.source,
                      NEW l, l = link[k].up[i].file.msg - 1
               PROVE  Coming(k, d, l)'
    BY <1>s
  <2>1. Coming(k, d, l)
    BY <1>t DEF Order
  <2> QED BY <2>1, <1>5
<1>7. \A t \in Slot : cx'[t].file # NoFile =>
        \A m \in 1 .. cx'[t].file.msg - 1 : Queued(cx[t].file.source, m)'
  <2> SUFFICES ASSUME NEW t \in Slot, cx'[t].file # NoFile, cx'[t] = cx[t],
                      NEW d, d = cx[t].file.source,
                      NEW m \in 1 .. cx[t].file.msg - 1
               PROVE  Queued(d, m)'
    BY <1>e, <1>s
  <2>1. Queued(d, m)
    BY <1>t DEF Order
  <2> QED BY <2>1, <1>w
<1>8. \A d \in Client : client'[d].link # None /\ link'[client'[d].link].serverOpen =>
        Coming(client[d].link, d, SentUpTo(client[d], acked[d]))'
  <2> SUFFICES ASSUME NEW d \in Client, client[d].link # None,
                      link[client[d].link].serverOpen,
                      NEW k, k = client[d].link, NEW l, l = SentUpTo(client[d], acked[d])
               PROVE  Coming(k, d, l)'
    BY <1>s
  <2>1. k \in Link
    BY <1>t, ClientFields
  <2>2. Coming(k, d, l)
    BY <1>t DEF Order
  <2> QED BY <2>1, <2>2, <1>5
<1>9. \A i \in 1 .. Len(output_queue') : \A m \in 1 .. output_queue'[i].file.msg - 1 :
        QueuedBefore(output_queue[i].file.source, m, i - 1)'
  BY <1>3
<1> QED BY <1>1, <1>2, <1>9, <1>6, <1>7, <1>8 DEF Order

(* ptFIFO_write, when there is room.                                       *)
LEMMA PushKeepsInv ==
  ASSUME TransportInv, Push
  PROVE  TransportInv'
<1>1. PICK s \in Slot, e \in Entry : SlotPushes(s, e) /\ TransportTypeOK'
  BY PushFacts
<1>2. Acks'
  <2>1. \A t \in Slot : cx'[t].link = cx[t].link /\ cx'[t].ack_file = cx[t].ack_file
    BY <1>1, PushEntries
  <2>2. client' = client /\ link' = link /\ processed' = processed
    BY <1>1 DEF SlotPushes
  <2>3. Acks
    BY DEF TransportInv
  <2> QED BY <2>1, <2>2, <2>3 DEF Acks, Dispatched
<1> QED BY <1>1, <1>2, PushKeepsEnds, PushKeepsFiles, PushKeepsOrder DEF TransportInv

-----------------------------------------------------------------------------
(* The main thread takes the first entry e and dispatches its file.        *)
FileTaken(e) ==
  /\ output_queue # <<>> /\ e = output_queue[1] /\ e \in Entry
  /\ inHand = NoFile /\ inHand' = e /\ output_queue' = Tail(output_queue)
  /\ e.file.msg \in processed'[e.file.source]
  /\ \A d \in Client : processed[d] \subseteq processed'[d]
  /\ \A d \in Client : \A m \in processed'[d] :
       m \in processed[d] \/ (d = e.file.source /\ m = e.file.msg)
  /\ UNCHANGED <<client, written, acked, link, backlog, cx, cx_counter, pushing>>

(* The first entry is dispatched.                                          *)
LEMMA GetFileFacts ==
  ASSUME TransportInv, GetFile
  PROVE  \E e \in Entry : FileTaken(e) /\ TransportTypeOK'
<1>t. ClientTypeOK /\ LinkTypeOK /\ ServerTypeOK
  BY DEF TransportInv, TransportTypeOK
<1> DEFINE q == output_queue
           e == Head(q)
           d == e.file.source
           m == e.file.msg
           seen == processed[d] \union {m}
<1>0. /\ inHand = NoFile /\ q # <<>> /\ inHand' = e /\ output_queue' = Tail(q)
      /\ processed' = [processed EXCEPT ![d] = seen]
      /\ UNCHANGED <<client, written, acked, link, backlog, cx, cx_counter, pushing>>
  BY DEF GetFile, clientVars, serverVars
<1>1. q \in Seq(Entry) /\ processed \in [Client -> SUBSET Nat]
  BY <1>t DEF ServerTypeOK
<1>2. e = q[1] /\ e \in Entry /\ Tail(q) \in Seq(Entry)
  BY <1>0, <1>1, HeadTailProperties
<1>3. d \in Client /\ m \in Nat /\ e.file \in File
  BY <1>2, FileFields DEF Entry
<1>4. seen \in SUBSET Nat /\ processed[d] \subseteq seen /\ m \in seen
  BY <1>1, <1>3
<1>5. \A x \in seen : x \in processed[d] \/ x = m
  OBVIOUS
<1> HIDE DEF seen, m, d
<1>6. /\ processed' \in [Client -> SUBSET Nat] /\ processed'[d] = seen
      /\ \A c \in Client \ {d} : processed'[c] = processed[c]
  BY <1>0, <1>1, <1>3, <1>4
<1>7. FileTaken(e)
  <2>1. \A c \in Client : processed[c] \subseteq processed'[c]
    BY <1>4, <1>6
  <2>2. \A c \in Client : \A x \in processed'[c] :
          x \in processed[c] \/ (c = d /\ x = m)
    BY <1>5, <1>6
  <2>3. m \in processed'[d]
    BY <1>4, <1>6
  <2> QED BY <1>0, <1>2, <2>1, <2>2, <2>3 DEF FileTaken, d, m
<1>8. TransportTypeOK'
  BY <1>0, <1>2, <1>6, <1>t DEF TransportTypeOK, ClientTypeOK, LinkTypeOK, ServerTypeOK
<1> QED BY <1>2, <1>7, <1>8

(* The entries are the same, the first of the queue being in hand.         *)
LEMMA TakenEntries ==
  ASSUME TransportInv, NEW e \in Entry, FileTaken(e)
  PROVE  /\ Entries' = Entries /\ e \in Entries
         /\ Len(output_queue) \in Nat \ {0} /\ Len(output_queue') = Len(output_queue) - 1
         /\ \A i \in 1 .. Len(output_queue') :
              /\ i + 1 \in 2 .. Len(output_queue) /\ i + 1 \in 1 .. Len(output_queue)
              /\ output_queue'[i] = output_queue[i + 1]
         /\ 1 \in 1 .. Len(output_queue) /\ output_queue[1] = e
<1>t. ServerTypeOK
  BY DEF TransportInv, TransportTypeOK
<1> DEFINE q == output_queue
           r == Tail(q)
<1>0. /\ q \in Seq(Entry) /\ q # <<>> /\ e = q[1] /\ output_queue' = r
      /\ inHand = NoFile /\ inHand' = e
  BY <1>t DEF FileTaken, ServerTypeOK
<1> HIDE DEF q
<1>1. /\ Len(q) \in Nat \ {0} /\ Len(r) = Len(q) - 1
      /\ \A i \in 1 .. Len(r) : r[i] = q[i + 1]
  BY <1>0, HeadTailProperties
<1> HIDE DEF r
<1>2. \A i \in 1 .. Len(r) : i + 1 \in 2 .. Len(q) /\ i + 1 \in 1 .. Len(q) /\ i + 1 # 1
  BY <1>1
<1>3. \A i \in 1 .. Len(q) : i = 1 \/ (i - 1 \in 1 .. Len(r) /\ i - 1 + 1 = i)
  BY <1>1
<1>4. 1 \in 1 .. Len(q)
  BY <1>1
<1>5. {e} \union {r[i] : i \in 1 .. Len(r)} = {q[i] : i \in 1 .. Len(q)}
  <2>1. ASSUME NEW i \in 1 .. Len(r) PROVE \E j \in 1 .. Len(q) : r[i] = q[j]
    BY <1>1, <1>2
  <2>2. ASSUME NEW i \in 1 .. Len(q), i # 1 PROVE \E j \in 1 .. Len(r) : q[i] = r[j]
    <3> DEFINE j == i - 1
    <3>1. j \in 1 .. Len(r) /\ q[i] = r[j]
      BY <2>2, <1>1, <1>3
    <3> HIDE DEF j
    <3> QED BY <3>1
  <2> QED BY <2>1, <2>2, <1>0, <1>4
<1>6. Entries' = {e} \union {r[i] : i \in 1 .. Len(r)}
  BY <1>0, Nothing DEF Entries, InHand
<1>7. Entries = {q[i] : i \in 1 .. Len(q)}
  BY <1>0 DEF Entries, InHand, q
<1> QED BY <1>0, <1>1, <1>2, <1>4, <1>5, <1>6, <1>7 DEF q

(* Connections and lines are as they were.                                 *)
LEMMA TakenKeepsEnds ==
  ASSUME TransportInv, NEW e \in Entry, FileTaken(e)
  PROVE  ClientQueues' /\ Ends' /\ Lines'
<1>t. Ends /\ ClientQueues /\ Lines
  BY DEF TransportInv
<1>s. /\ client' = client /\ acked' = acked /\ backlog' = backlog /\ link' = link
      /\ cx' = cx /\ cx_counter' = cx_counter /\ pushing' = pushing /\ Entries' = Entries
  BY TakenEntries DEF FileTaken
<1>1. ClientQueues'
  BY <1>t, <1>s DEF ClientQueues, QueueOf
<1>2. Ends'
  <2>1. \A d \in Client : ClientEnd(d)'
    BY <1>s, <1>t DEF Ends, ClientEnd
  <2>2. \A t \in Slot : SlotEnd(t)'
    BY <1>s, <1>t DEF Ends, SlotEnd
  <2>3. \A i \in 1 .. Len(backlog') : BacklogEnd(i)'
    BY <1>s, <1>t DEF Ends, BacklogEnd
  <2> QED BY <2>1, <2>2, <2>3, <1>s, <1>t DEF Ends
<1>3. Lines'
  <2>1. \A t \in Slot : cx[t].link # None => InStep(cx[t].link, Expects(t))'
    BY <1>s, <1>t DEF Lines, InStep, Expects
  <2>2. \A i \in 1 .. Len(backlog) : InStep(backlog[i], "INI")'
    BY <1>s, <1>t DEF Lines, InStep
  <2> QED BY <2>1, <2>2, <1>s DEF Lines
<1> QED BY <1>1, <1>2, <1>3

(* The entry in hand was before the others.                                *)
LEMMA TakenKeepsFiles ==
  ASSUME TransportInv, NEW e \in Entry, FileTaken(e)
  PROVE  Files'
<1>t. Files /\ ServerTypeOK
  BY DEF TransportInv, TransportTypeOK
<1>s. /\ client' = client /\ acked' = acked /\ link' = link /\ cx' = cx /\ Entries' = Entries
      /\ inHand' = e
  BY TakenEntries DEF FileTaken
<1>e. /\ Len(output_queue) \in Nat
      /\ \A i \in 1 .. Len(output_queue') :
           /\ i + 1 \in 2 .. Len(output_queue) /\ i + 1 \in 1 .. Len(output_queue)
           /\ output_queue'[i] = output_queue[i + 1]
      /\ 1 \in 1 .. Len(output_queue) /\ output_queue[1] = e
  BY TakenEntries
<1>1. \A k \in Link : FilesUp(k)'
  BY <1>s, <1>t DEF Files, FilesUp
<1>2. \A t \in Slot : FilesOfSlot(t)'
  BY <1>s, <1>t DEF Files, FilesOfSlot, After, Live
<1>3. FilesQueued'
  <2>0. FilesQueued
    BY <1>t DEF Files
  <2>l. \A x : Live(x)' <=> Live(x)
    BY <1>s DEF Live
  <2>1. \A x \in Entries' : Live(x)' => cx'[x.slot].ack_file < x.file.id
    BY <2>0, <2>l, <1>s DEF FilesQueued
  <2>2. ASSUME NEW i \in 1 .. Len(output_queue), NEW j \in 1 .. Len(output_queue), i < j,
               NEW x, x = output_queue[i], NEW f, f = output_queue[j],
               x.slot = f.slot, x.sender = f.sender, Live(x)
        PROVE  x.file.id < f.file.id
    BY <2>0, <2>2 DEF FilesQueued
  <2>3. ASSUME NEW i \in 1 .. Len(output_queue'), NEW j \in 1 .. Len(output_queue'), i < j,
               NEW x, x = output_queue'[i], NEW f, f = output_queue'[j],
               x.slot = f.slot, x.sender = f.sender, Live(x)
        PROVE  x.file.id < f.file.id
    <3>1. i + 1 < j + 1
      BY <2>3, <1>e
    <3> QED BY <2>2, <2>3, <3>1, <1>e
  <2>4. ASSUME NEW j \in 1 .. Len(output_queue'), NEW f, f = output_queue'[j],
               e.slot = f.slot, e.sender = f.sender, Live(f)
        PROVE  e.file.id < f.file.id
    <3>1. j + 1 \in 1 .. Len(output_queue) /\ 1 < j + 1 /\ f = output_queue[j + 1]
      BY <2>4, <1>e
    <3>2. Live(e)
      BY <2>4 DEF Live
    <3> QED BY <2>2, <2>4, <3>1, <3>2, <1>e
  <2> QED BY <2>1, <2>3, <2>4, <2>l, <1>s DEF FilesQueued
<1>4. \A d \in Client : FilesSent(d)'
  BY <1>s, <1>t DEF Files, FilesSent, SentBy, Live
<1> QED BY <1>1, <1>2, <1>3, <1>4 DEF Files

(* All messages before the one dispatched were dispatched before it.       *)
LEMMA TakenKeepsOrder ==
  ASSUME TransportInv, NEW e \in Entry, FileTaken(e)
  PROVE  Order'
<1>t. ClientTypeOK /\ LinkTypeOK /\ ServerTypeOK /\ Order
  BY DEF TransportInv, TransportTypeOK
<1>s. /\ client' = client /\ acked' = acked /\ link' = link /\ cx' = cx /\ inHand' = e
      /\ e.file.msg \in processed'[e.file.source]
      /\ \A d \in Client : processed[d] \subseteq processed'[d]
      /\ \A d \in Client : \A m \in processed'[d] :
           m \in processed[d] \/ (d = e.file.source /\ m = e.file.msg)
  BY DEF FileTaken
<1>e. /\ Len(output_queue) \in Nat \ {0} /\ Len(output_queue') = Len(output_queue) - 1
      /\ \A i \in 1 .. Len(output_queue') :
           /\ i + 1 \in 2 .. Len(output_queue) /\ i + 1 \in 1 .. Len(output_queue)
           /\ output_queue'[i] = output_queue[i + 1]
      /\ 1 \in 1 .. Len(output_queue) /\ output_queue[1] = e
  BY TakenEntries
<1>f. e.file \in File /\ e.file.source \in Client /\ e.file.msg \in Nat
  BY FileFields DEF Entry
<1>1. ASSUME NEW d \in Client
      PROVE  /\ \A m \in processed'[d] : Dispatched(d, m)'
             /\ Dispatched(d, acked[d])'
  <2>0. \A m : Dispatched(d, m) => Dispatched(d, m)'
    BY <1>s DEF Dispatched
  <2>1. Dispatched(d, acked[d])'
    <3> SUFFICES ASSUME NEW a, a = acked[d] PROVE Dispatched(d, a)'
      BY <1>s
    <3> QED BY <2>0, <1>t DEF Order
  <2>2. ASSUME NEW m, d = e.file.source, m = e.file.msg PROVE Dispatched(d, m)'
    <3>1. \A x \in 1 .. m - 1 : QueuedBefore(d, x, 1 - 1)
      BY <2>2, <1>e, <1>t DEF Order
    <3>2. 1 .. 1 - 1 = {}
      OBVIOUS
    <3>3. \A x \in 1 .. m - 1 : x \in processed[d]
      BY <3>1, <3>2 DEF QueuedBefore
    <3>4. \A x \in 1 .. m : x = m \/ x \in 1 .. m - 1
      BY <2>2, <1>f
    <3> QED BY <2>2, <3>3, <3>4, <1>s DEF Dispatched
  <2>3. ASSUME NEW m \in processed'[d] PROVE Dispatched(d, m)'
    <3>1. CASE m \in processed[d]
      BY <3>1, <2>0, <1>t DEF Order
    <3>2. CASE d = e.file.source /\ m = e.file.msg
      BY <3>2, <2>2
    <3> QED BY <3>1, <3>2, <1>s
  <2> QED BY <2>1, <2>3
<1>2. inHand' # NoFile => inHand'.file.msg \in processed'[inHand'.file.source]
  BY <1>s
<1>q. ASSUME NEW d \in Client, NEW m, NEW i \in 1 .. Len(output_queue), QueuedBefore(d, m, i)
      PROVE  QueuedBefore(d, m, i - 1)' /\ Queued(d, m)'
  <2>1. CASE m \in processed[d]
    BY <2>1, <1>s DEF QueuedBefore, Queued
  <2>2. CASE m \notin processed[d]
    <3>1. PICK j \in 1 .. i : output_queue[j].file.source = d /\ output_queue[j].file.msg = m
      BY <2>2, <1>q DEF QueuedBefore
    <3>2. CASE j = 1
      BY <3>1, <3>2, <1>e, <1>s DEF QueuedBefore, Queued
    <3>3. CASE j # 1
      <4> DEFINE p == j - 1
      <4>1. p \in 1 .. Len(output_queue') /\ p \in 1 .. i - 1 /\ p + 1 = j
        BY <3>3, <1>e
      <4> HIDE DEF p
      <4>2. output_queue'[p] = output_queue[j]
        BY <4>1, <1>e
      <4>3. output_queue'[p].file.source = d /\ output_queue'[p].file.msg = m
        BY <3>1, <4>2
      <4> QED BY <4>1, <4>3 DEF QueuedBefore, Queued
    <3> QED BY <3>2, <3>3
  <2> QED BY <2>1, <2>2
<1>w. \A d \in Client : \A m : Queued(d, m) => Queued(d, m)'
  <2>1. Len(output_queue) \in 1 .. Len(output_queue)
    BY <1>e
  <2> QED BY <2>1, <1>q DEF Queued
<1>3. ASSUME NEW i \in 1 .. Len(output_queue'), NEW d, d = output_queue'[i].file.source,
             NEW m \in 1 .. output_queue'[i].file.msg - 1
      PROVE  QueuedBefore(d, m, i - 1)'
  <2>1. /\ i + 1 \in 1 .. Len(output_queue) /\ i \in 1 .. Len(output_queue)
        /\ output_queue'[i] = output_queue[i + 1]
    BY <1>e
  <2>2. d = output_queue[i + 1].file.source /\ m \in 1 .. output_queue[i + 1].file.msg - 1
    BY <2>1, <1>3
  <2>3. QueuedBefore(d, m, i + 1 - 1) /\ i + 1 - 1 = i
    BY <2>1, <2>2, <1>t DEF Order
  <2>4. QueuedBefore(d, m, i) /\ d \in Client
    BY <2>1, <2>2, <2>3, <1>t, EntryTypes, FileFields
  <2> QED BY <2>1, <2>4, <1>q
<1>4. ASSUME NEW k, NEW d \in Client, NEW l, Coming(k, d, l) PROVE Coming(k, d, l)'
  <2>1. \A m : Carries(k, d, m) => Carries(k, d, m)'
    BY <1>s DEF Carries
  <2> QED BY <2>1, <1>4, <1>w DEF Coming
<1>5. \A k \in Link : \A i \in 1 .. Len(link'[k].up) : IsFile(link'[k].up, i) =>
        Coming(k, link[k].up[i].file.source, link[k].up[i].file.msg - 1)'
  <2> SUFFICES ASSUME NEW k \in Link, NEW i \in 1 .. Len(link[k].up), IsFile(link[k].up, i),
                      NEW d, d = link[k].up[i].file.source,
                      NEW l, l = link[k].up[i].file.msg - 1
               PROVE  Coming(k, d, l)'
    BY <1>s
  <2>1. Coming(k, d, l)
    BY <1>t DEF Order
  <2>2. d \in Client
    BY <1>t, LinkTypes, FilesAreFiles, FileFields
  <2> QED BY <2>1, <2>2, <1>4
<1>6. \A t \in Slot : cx'[t].file # NoFile =>
        \A m \in 1 .. cx'[t].file.msg - 1 : Queued(cx[t].file.source, m)'
  <2> SUFFICES ASSUME NEW t \in Slot, cx[t].file # NoFile,
                      NEW d, d = cx[t].file.source,
                      NEW m \in 1 .. cx[t].file.msg - 1
               PROVE  Queued(d, m)'
    BY <1>s
  <2>1. Queued(d, m)
    BY <1>t DEF Order
  <2>2. d \in Client
    BY <1>t, SlotFields, FileFields
  <2> QED BY <2>1, <2>2, <1>w
<1>7. \A d \in Client : client'[d].link # None /\ link'[client'[d].link].serverOpen =>
        Coming(client[d].link, d, SentUpTo(client[d], acked[d]))'
  <2> SUFFICES ASSUME NEW d \in Client, client[d].link # None,
                      link[client[d].link].serverOpen,
                      NEW k, k = client[d].link, NEW l, l = SentUpTo(client[d], acked[d])
               PROVE  Coming(k, d, l)'
    BY <1>s
  <2>1. Coming(k, d, l)
    BY <1>t DEF Order
  <2> QED BY <2>1, <1>4
<1>8. \A i \in 1 .. Len(output_queue') : \A m \in 1 .. output_queue'[i].file.msg - 1 :
        QueuedBefore(output_queue[i].file.source, m, i - 1)'
  BY <1>3
<1> QED BY <1>1, <1>2, <1>8, <1>5, <1>6, <1>7 DEF Order

(* TR_server_get_file, and the dispatch of the file.                       *)
LEMMA GetFileKeepsInv ==
  ASSUME TransportInv, GetFile
  PROVE  TransportInv'
<1>1. PICK e \in Entry : FileTaken(e) /\ TransportTypeOK'
  BY GetFileFacts
<1>2. Acks'
  <2>1. /\ client' = client /\ link' = link /\ cx' = cx
        /\ \A d \in Client : processed[d] \subseteq processed'[d]
    BY <1>1 DEF FileTaken
  <2>2. Acks
    BY DEF TransportInv
  <2>3. \A d \in Client : \A m : Dispatched(d, m) => Dispatched(d, m)'
    BY <2>1 DEF Dispatched
  <2> QED BY <2>1, <2>2, <2>3 DEF Acks, Dispatched
<1> QED BY <1>1, <1>2, TakenKeepsEnds, TakenKeepsFiles, TakenKeepsOrder DEF TransportInv

-----------------------------------------------------------------------------
(* The invariant holds at the start, and every step keeps it.              *)
LEMMA TransportInvInit ==
  ASSUME Init
  PROVE  TransportInv
<1>e. 1 .. Len(<<>>) = {}
  OBVIOUS
<1>0. /\ client = [c \in Client |-> Started(0)] /\ link = [k \in Link |-> FreeLink]
      /\ backlog = <<>> /\ cx = [s \in Slot |-> FreeSlot] /\ cx_counter = 0
      /\ pushing = None /\ output_queue = <<>> /\ inHand = NoFile
      /\ written = [c \in Client |-> 0] /\ acked = [c \in Client |-> 0]
      /\ processed = [c \in Client |-> {}]
  BY DEF Init, ClientInit, ServerInit
<1>c. /\ Started(0) \in ClientState /\ Started(0).link = None
      /\ Started(0).state = "NOT_CONNECTED" /\ QueueOf(Started(0), 0)
  BY StartedFields
<1>1. TransportTypeOK
  <2>1. ClientTypeOK
    BY <1>0, <1>c DEF ClientTypeOK
  <2>2. LinkTypeOK
    BY <1>0, FreeLinkFields DEF LinkTypeOK
  <2>3. ServerTypeOK
    BY <1>0, FreeSlotFields DEF ServerTypeOK
  <2> QED BY <2>1, <2>2, <2>3 DEF TransportTypeOK
<1>2. /\ \A c \in Client : client[c] = Started(0) /\ acked[c] = 0 /\ processed[c] = {}
      /\ \A k \in Link : link[k].up = <<>>
      /\ \A s \in Slot : cx[s].link = None /\ cx[s].cx_id = -1 /\ cx[s].file = NoFile
      /\ Entries = {}
  BY <1>0, <1>e, FreeLinkFields, FreeSlotFields DEF Entries, InHand
<1>3. ClientQueues
  BY <1>2, <1>c DEF ClientQueues
<1>4. Ends
  BY <1>0, <1>2, <1>c, <1>e DEF Ends, ClientEnd, SlotEnd
<1>5. Lines
  BY <1>0, <1>2, <1>e DEF Lines
<1>6. Files
  <2>1. \A k \in Link : FilesUp(k)
    BY <1>2, <1>e DEF FilesUp
  <2>2. \A s \in Slot : FilesOfSlot(s)
    BY <1>2 DEF FilesOfSlot
  <2>3. FilesQueued
    BY <1>0, <1>2, <1>e DEF FilesQueued
  <2>4. \A c \in Client : FilesSent(c)
    BY <1>2, <1>c DEF FilesSent
  <2> QED BY <2>1, <2>2, <2>3, <2>4 DEF Files
<1>7. Order
  <2>1. \A c \in Client : Dispatched(c, acked[c])
    BY <1>2 DEF Dispatched
  <2>2. \A k \in Link : \A i \in 1 .. Len(link[k].up) : FALSE
    BY <1>2, <1>e
  <2>3. \A i \in 1 .. Len(output_queue) : FALSE
    BY <1>0, <1>e
  <2> QED BY <1>0, <1>2, <1>c, <2>1, <2>2, <2>3 DEF Order
<1>8. Acks
  BY <1>2, <1>c DEF Acks
<1> QED BY <1>1, <1>3, <1>4, <1>5, <1>6, <1>7, <1>8 DEF TransportInv

(* Every step keeps the invariant.                                         *)
LEMMA TransportInvNext ==
  ASSUME TransportInv, [Next]_vars
  PROVE  TransportInv'
<1>t. written \in [Client -> Nat]
  BY DEF TransportInv, TransportTypeOK, ClientTypeOK
<1>1. ASSUME NEW c \in Client, SendMsg(c) PROVE TransportInv'
  <2>1. written' \in [Client -> Nat]
    BY <1>1, <1>t DEF SendMsg
  <2>2. UNCHANGED <<client, acked, link, backlog, serverVars, mainVars>>
    BY <1>1 DEF SendMsg, ServerUnchanged
  <2> QED BY <2>1, <2>2, NothingKeepsInv
<1>2. ASSUME NEW c \in Client, ClientStep(c) PROVE TransportInv'
  <2>1. ASSUME NEW n \in 0 .. MaxMsg, Ack(c, n) PROVE TransportInv'
    <3>1. n \in Nat
      BY TransportAssumption
    <3> QED BY <2>1, <3>1, AckKeepsInv
  <2>2. CASE Connect(c) \/ Ready(c) \/ NextFile(c)
    BY <2>2, ConnectKeepsInv, ReadyKeepsInv, NextFileKeepsInv
  <2>3. CASE SendFile(c) \/ SendEnd(c) \/ EndOfFile(c)
    BY <2>3, SendFileKeepsInv, SendEndKeepsInv, ClientEndings
  <2> QED BY <1>2, <2>1, <2>2, <2>3 DEF ClientStep
<1>3. ASSUME NEW c \in Client, Broken(c) \/ Restart(c) PROVE TransportInv'
  BY <1>3, ClientEndings
<1>4. CASE Accept \/ Push \/ PushTimeout
  BY <1>4, AcceptKeepsInv, PushKeepsInv, PushTimeoutKeepsInv
<1>5. ASSUME NEW s \in Slot, Read(s) \/ ReadEnd(s) \/ ReadError(s) \/ SendAcks(s)
      PROVE  TransportInv'
  BY <1>5, ReadKeepsInv, SlotEndings, SendAcksKeepsInv
<1>6. CASE GetFile \/ AckFile \/ ServerRestart
  BY <1>6, GetFileKeepsInv, AckFileKeepsInv, ServerRestartKeepsInv
<1>7. CASE UNCHANGED vars
  <2>1. /\ written' = written
        /\ UNCHANGED <<client, acked, link, backlog, serverVars, mainVars>>
    BY <1>7 DEF vars, clientVars
  <2> QED BY <2>1, <1>t, NothingKeepsInv
<1> QED BY <1>1, <1>2, <1>3, <1>4, <1>5, <1>6, <1>7 DEF Next

(* Whatever connections break and whoever restarts, the daemons' queues,   *)
(* the ends of the connections, the lines and the files on their way, and  *)
(* what was dispatched and acknowledged stay in agreement.                 *)
THEOREM TransportInvariant == Spec => []TransportInv
BY TransportInvInit, TransportInvNext, PTL DEF Spec

(* A client's input_queue is exactly what it took from its permanent FIFO  *)
(* and was not acknowledged: transport_client.c loses and repeats nothing. *)
THEOREM QueueHoldsUnacked == Spec => []QueueIsUnacked
<1>1. TransportInv => QueueIsUnacked
  BY DEF TransportInv, ClientQueues, QueueOf, QueueIsUnacked
<1> QED BY <1>1, TransportInvariant, PTL

(* The server never meets a line that it cannot parse, whatever was cut    *)
(* before: it never closes a connection for a "bad" header or file end.    *)
THEOREM ServerInStep == Spec => []ProtocolInStep
<1>1. TransportInv => ProtocolInStep
  BY NeverUnexpected DEF ProtocolInStep
<1> QED BY <1>1, TransportInvariant, PTL

(* TR_server_ack_file never meets a "bad order": the files waiting for it  *)
(* have growing numbers on each connection, above the last acknowledged.   *)
THEOREM AcksGrow == Spec => []AcksInOrder
<1>1. ASSUME TransportInv PROVE AcksInOrder
  <2>t. ServerTypeOK /\ FilesQueued
    BY <1>1 DEF TransportInv, TransportTypeOK, Files
  <2>1. /\ Len(output_queue) \in Nat /\ output_queue \in Seq(Entry)
        /\ inHand \in Entry \union {NoFile}
        /\ \A i \in 1 .. Len(output_queue) : output_queue[i] \in Entries
        /\ inHand # NoFile => inHand \in Entries
    BY <2>t, EntryTypes DEF ServerTypeOK
  <2>2. ASSUME NEW i \in 1 .. Len(output_queue), Live(output_queue[i])
        PROVE  /\ output_queue[i].file.id > cx[output_queue[i].slot].ack_file
               /\ \A j \in 1 .. i - 1 :
                    output_queue[j].slot = output_queue[i].slot
                    /\ output_queue[j].sender = output_queue[i].sender
                    => output_queue[j].file.id < output_queue[i].file.id
               /\ inHand # NoFile /\ inHand.slot = output_queue[i].slot
                  /\ inHand.sender = output_queue[i].sender
                  => inHand.file.id < output_queue[i].file.id
    <3> DEFINE f == output_queue[i]
    <3>1. f \in Entries /\ f.slot \in Slot /\ f.file \in File
      BY <2>1, <2>t, EntryTypes
    <3>2. f.file.id \in Nat /\ cx[f.slot].ack_file \in Nat /\ cx[f.slot].ack_file < f.file.id
      BY <3>1, <2>2, <2>t, FileFields, SlotFields DEF FilesQueued
    <3>3. ASSUME NEW j \in 1 .. i - 1, output_queue[j].slot = f.slot,
                 output_queue[j].sender = f.sender
          PROVE  output_queue[j].file.id < f.file.id
      <4>1. j \in 1 .. Len(output_queue) /\ j < i
        BY <2>1
      <4>2. Live(output_queue[j])
        BY <2>2, <3>3 DEF Live
      <4> QED BY <2>t, <3>3, <4>1, <4>2 DEF FilesQueued
    <3>4. inHand # NoFile /\ inHand.slot = f.slot /\ inHand.sender = f.sender
          => inHand.file.id < f.file.id
      BY <2>2, <2>t DEF FilesQueued
    <3> QED BY <3>2, <3>3, <3>4
  <2>3. CASE inHand = NoFile
    <3>1. Waiting = output_queue
      BY <2>1, <2>3 DEF Waiting
    <3> QED BY <2>2, <3>1 DEF AcksInOrder, Live
  <2>4. CASE inHand # NoFile
    <3> DEFINE w == Waiting
    <3>1. <<inHand>> \in Seq(Entry) /\ Len(<<inHand>>) = 1 /\ <<inHand>>[1] = inHand
      BY <2>1, <2>4
    <3>2. w = <<inHand>> \o output_queue
      BY <2>4 DEF Waiting
    <3>3. /\ Len(w) = Len(output_queue) + 1 /\ w[1] = inHand
          /\ \A i \in 2 .. Len(w) : w[i] = output_queue[i - 1]
      BY <2>1, <3>1, <3>2, ConcatProperties
    <3> HIDE DEF w
    <3>4. Live(inHand) => inHand.file.id > cx[inHand.slot].ack_file
      <4>1. inHand \in Entries /\ inHand.slot \in Slot /\ inHand.file \in File
        BY <2>1, <2>4, <2>t, EntryTypes
      <4> QED BY <4>1, <2>t, FileFields, SlotFields DEF FilesQueued
    <3>5. ASSUME NEW i \in 1 .. Len(w), NEW f, f = w[i], f.sender = cx[f.slot].cx_id
          PROVE  /\ f.file.id > cx[f.slot].ack_file
                 /\ \A j \in 1 .. i - 1 : w[j].slot = f.slot /\ w[j].sender = f.sender
                                          => w[j].file.id < f.file.id
      <4>1. CASE i = 1
        <5>1. f = inHand /\ 1 .. i - 1 = {}
          BY <4>1, <3>3, <3>5
        <5> QED BY <5>1, <3>4, <3>5 DEF Live
      <4>2. CASE i # 1
        <5> DEFINE p == i - 1
        <5>1. p \in 1 .. Len(output_queue) /\ f = output_queue[p]
          BY <4>2, <2>1, <3>3, <3>5
        <5>2. \A j \in 1 .. i - 1 :
                j = 1 \/ (j - 1 \in 1 .. p - 1 /\ w[j] = output_queue[j - 1])
          BY <5>1, <2>1, <3>3
        <5> HIDE DEF p
        <5>3. Live(output_queue[p])
          BY <5>1, <3>5 DEF Live
        <5>4. ASSUME NEW j \in 1 .. i - 1, w[j].slot = f.slot, w[j].sender = f.sender
              PROVE  w[j].file.id < f.file.id
          BY <5>1, <5>2, <5>3, <5>4, <2>2, <2>4, <3>3
        <5> QED BY <5>1, <5>3, <5>4, <2>2
      <4> QED BY <4>1, <4>2
    <3> QED BY <3>5 DEF AcksInOrder, w
  <2> QED BY <2>3, <2>4
<1> QED BY <1>1, TransportInvariant, PTL

(* A daemon forgets only what the server has dispatched.                   *)
THEOREM ForgetsOnlyDispatched == Spec => []AckedWasProcessed
<1>1. TransportInv => AckedWasProcessed
  BY DEF TransportInv, Order, Dispatched, AckedWasProcessed
<1> QED BY <1>1, TransportInvariant, PTL

(* The messages of a daemon are dispatched in order, apart from repeats.   *)
THEOREM DispatchedInOrder == Spec => []FirstsInOrder
<1>1. TransportInv => FirstsInOrder
  BY DEF TransportInv, Order, Dispatched, FirstsInOrder
<1> QED BY <1>1, TransportInvariant, PTL

=============================================================================
