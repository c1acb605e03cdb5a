--------------------------- MODULE OnlineClients ---------------------------
(***************************************************************************)
(* The table of connections of the dispatch engines that publish over TCP: *)
(* InfoLoggerDispatchBrowser (infoBrowser, one record per message) and     *)
(* InfoLoggerDispatchStats (statistics).  Both have the same code for it.  *)
(*                                                                         *)
(* A peer connects once.  Its end of the connection is external: it        *)
(* connects, closes, and reads, which makes room in the buffers of the     *)
(* connection; how much fits in them is counted in records.                *)
(***************************************************************************)
EXTENDS Naturals, Sequences

CONSTANTS
  Peer,
  maxClients,   \* maxClientsTx, statsMaxClients
  Room,         \* records that fit in the buffers of a connection
  NoPeer,       \* a free entry of the table: -1
  Cut           \* a record of which only the beginning was written

ASSUME OnlineAssumption ==
  maxClients \in Nat \ {0} /\ Room \in Nat \ {0} /\ NoPeer \notin Peer

VARIABLES
  clients,   \* the table
  backlog,   \* connections to accept
  peer,      \* per peer: "out", "on", "shut" (closed by it), "gone" (by the engine)
  room,      \* per peer: room left in the buffers
  got,       \* per peer: what was written to its connection
  next,      \* the entry to which the thread writes record, or 0
  record,
  offered,   \* the records that were offered to the whole table, in order
  since      \* per peer: Len(offered) when it was accepted

tableVars  == <<clients, backlog, peer, room, got>>
roundVars  == <<next, record, offered>>
onlineVars == <<tableVars, roundVars, since>>

ClientSlot == 1 .. maxClients

OnlineInit ==
  /\ clients = [i \in ClientSlot |-> NoPeer]
  /\ backlog = <<>>
  /\ peer = [p \in Peer |-> "out"]
  /\ room = [p \in Peer |-> Room]
  /\ got = [p \in Peer |-> <<>>]
  /\ next = 0 /\ record = 0 /\ offered = <<>>
  /\ since = [p \in Peer |-> 0]

-----------------------------------------------------------------------------
PeerConnects(p) ==
  /\ peer[p] = "out" /\ Len(backlog) < maxClients
  /\ peer' = [peer EXCEPT ![p] = "on"]
  /\ backlog' = Append(backlog, p)
  /\ UNCHANGED <<clients, room, got>>

PeerHangsUp(p) ==
  /\ peer[p] = "on"
  /\ peer' = [peer EXCEPT ![p] = "shut"]
  /\ UNCHANGED <<clients, backlog, room, got>>

PeerReads(p) ==
  /\ peer[p] = "on" /\ room[p] < Room
  /\ room' = [room EXCEPT ![p] = @ + 1]
  /\ UNCHANGED <<clients, backlog, peer, got>>

Peers ==
  /\ \E p \in Peer : PeerConnects(p) \/ PeerHangsUp(p) \/ PeerReads(p)
  /\ UNCHANGED <<roundVars, since>>

-----------------------------------------------------------------------------
(* The entries whose peer has closed are freed (whatever a peer sends is   *)
(* read and ignored).                                                      *)
Alive == [i \in ClientSlot |->
            IF clients[i] # NoPeer /\ peer[clients[i]] = "shut" THEN NoPeer
            ELSE clients[i]]

(* Then one connection is accepted, in the first entry that is free; when  *)
(* none is, it is closed.                                                  *)
AcceptOne ==
  LET p    == Head(backlog)
      free == {i \in ClientSlot : Alive[i] = NoPeer}
  IN
  /\ backlog # <<>>
  /\ backlog' = Tail(backlog)
  /\ \/ /\ free = {}
        /\ clients' = Alive
        /\ peer' = [peer EXCEPT ![p] = IF @ = "on" THEN "gone" ELSE @]
     \/ /\ \E i \in free : /\ \A j \in free : i <= j
                           /\ clients' = [Alive EXCEPT ![i] = p]
        /\ UNCHANGED peer
  /\ UNCHANGED <<room, got>>

Entries(c) == {c[i] : i \in ClientSlot} \ {NoPeer}

Serve ==
  /\ \/ AcceptOne
     \/ backlog = <<>> /\ clients' = Alive /\ UNCHANGED <<backlog, peer, room, got>>
  /\ since' = [p \in Peer |->
       IF p \in Entries(clients') \ Entries(clients) THEN Len(offered) ELSE since[p]]
  /\ UNCHANGED roundVars

-----------------------------------------------------------------------------
(* The engine closes the connection of entry i.                            *)
CloseEntry(i) ==
  /\ clients' = [clients EXCEPT ![i] = NoPeer]
  /\ peer' = [peer EXCEPT ![clients[i]] = IF @ = "on" THEN "gone" ELSE @]
Written(i, x) == got' = [got EXCEPT ![clients[i]] = Append(@, x)]

(* The record x is written to entry i: the whole of it fits, ...           *)
WriteAll(i, x) ==
  /\ clients[i] # NoPeer /\ room[clients[i]] > 0
  /\ Written(i, x)
  /\ room' = [room EXCEPT ![clients[i]] = @ - 1]
  /\ UNCHANGED <<clients, backlog, peer>>

(* ... or it does not, for there is less room than it takes ...            *)
WritePart(i) ==
  /\ clients[i] # NoPeer /\ room[clients[i]] = 1
  /\ Written(i, Cut)
  /\ CloseEntry(i)
  /\ UNCHANGED <<backlog, room>>

(* ... or write() fails, for the peer has closed ...                       *)
WriteFails(i) ==
  /\ clients[i] # NoPeer /\ peer[clients[i]] = "shut"
  /\ CloseEntry(i)
  /\ UNCHANGED <<backlog, room, got>>

(* ... or select() finds no room for three seconds.  Mutants: the record   *)
(* is left out but the connection is kept; there is no limit to the wait.  *)
SelectTimeoutKeeps(i) ==
  /\ clients[i] # NoPeer /\ room[clients[i]] = 0
  /\ UNCHANGED tableVars
SelectTimeoutNever(i) ==
  /\ clients[i] # NoPeer /\ peer[clients[i]] = "shut" /\ room[clients[i]] = 0
  /\ CloseEntry(i)
  /\ UNCHANGED <<backlog, room, got>>
SelectTimeout(i) ==
  /\ clients[i] # NoPeer /\ room[clients[i]] = 0
  /\ CloseEntry(i)
  /\ UNCHANGED <<backlog, room, got>>

(* The thread goes through the table with the record x.                    *)
Offer(x) ==
  /\ next = 0 /\ next' = 1
  /\ record' = x
  /\ UNCHANGED <<tableVars, offered, since>>

SendNext ==
  /\ next # 0
  /\ \/ clients[next] = NoPeer /\ UNCHANGED tableVars
     \/ WriteAll(next, record) \/ WritePart(next)
     \/ WriteFails(next) \/ SelectTimeout(next)
  /\ IF next < maxClients
     THEN next' = next + 1 /\ UNCHANGED offered
     ELSE next' = 0 /\ offered' = Append(offered, record)
  /\ UNCHANGED <<record, since>>

-----------------------------------------------------------------------------
(* What a connection is to have received: the records offered since it was *)
(* accepted, and the one being sent once its entry has been served.        *)
Due(p) ==
  SubSeq(offered, since[p] + 1, Len(offered))
    \o (IF \E i \in 1 .. next - 1 : clients[i] = p THEN <<record>> ELSE <<>>)

(* A browser that stays connected gets each record from its connection on, *)
(* once and in order; one that is too slow, or leaves, got them without a  *)
(* gap up to where it was cut off, whatever the others do and whichever    *)
(* entry of the table it took over.                                        *)
StreamUnbroken ==
  \A p \in Peer :
    /\ p \in Entries(clients) => got[p] = Due(p)
    /\ \E n \in 0 .. Len(Due(p)) :
         got[p] \in {SubSeq(Due(p), 1, n), Append(SubSeq(Due(p), 1, n), Cut)}
=============================================================================
