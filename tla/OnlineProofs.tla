---------------------------- MODULE OnlineProofs ----------------------------
(***************************************************************************)
(* Proofs about the engines that publish over TCP, for any number of       *)
(* peers, entries, records and seconds: each connection gets an unbroken   *)
(* stream of the records that were offered since it was accepted; and      *)
(* about infoBrowser, for any number of lines, clicks and connections: its *)
(* lists agree whenever no procedure is under way.                         *)
(***************************************************************************)
EXTENDS DispatchBrowser, DispatchStats, InfoBrowser, OrderedSequences

-----------------------------------------------------------------------------
(* g is what follows the first m of o; g is a beginning of that, or one    *)
(* and a record that was cut off.                                          *)
Follows(g, o, m) ==
  /\ Len(g) = Len(o) - m
  /\ \A k \in 1 .. Len(g) : g[k] = o[m + k]
Begins(g, o, m) ==
  \E n \in 0 .. Len(o) - m :
    /\ \/ Len(g) = n
       \/ Len(g) = n + 1 /\ g[n + 1] = Cut
    /\ \A k \in 1 .. n : g[k] = o[m + k]

(* A peer that got all of them got a beginning of them.                    *)
LEMMA FollowsBegins ==
  ASSUME NEW S, NEW g \in Seq(S), NEW o \in Seq(S), NEW m \in 0 .. Len(o), Follows(g, o, m)
  PROVE  Begins(g, o, m)
<1>1. Len(g) \in 0 .. Len(o) - m
  BY DEF Follows
<1> QED BY <1>1 DEF Follows, Begins

(* And so did one that got all but the end of the last one.                *)
LEMMA CutBegins ==
  ASSUME NEW S, NEW g \in Seq(S), NEW o \in Seq(S), NEW m \in 0 .. Len(o), Follows(g, o, m),
         Cut \in S
  PROVE  Begins(Append(g, Cut), o, m)
<1> DEFINE h == Append(g, Cut)
<1>1. /\ Len(g) \in Nat /\ Len(h) = Len(g) + 1 /\ h[Len(g) + 1] = Cut
      /\ \A k \in 1 .. Len(g) : h[k] = g[k]
  BY AppendProperties
<1> HIDE DEF h
<1>2. Len(g) \in 0 .. Len(o) - m
  BY DEF Follows
<1>3. Begins(h, o, m)
  BY <1>1, <1>2 DEF Follows, Begins
<1> QED BY <1>3 DEF h

(* More is offered to a peer that has left.                                *)
LEMMA BeginsMore ==
  ASSUME NEW S, NEW g \in Seq(S), NEW o \in Seq(S), NEW m \in 0 .. Len(o), NEW x \in S,
         Begins(g, o, m)
  PROVE  Begins(g, Append(o, x), m)
<1> DEFINE q == Append(o, x)
<1>1. /\ Len(o) \in Nat /\ Len(q) = Len(o) + 1
      /\ \A k \in 1 .. Len(o) : q[k] = o[k]
  BY AppendProperties
<1> HIDE DEF q
<1>2. PICK n \in 0 .. Len(o) - m :
        /\ \/ Len(g) = n
           \/ Len(g) = n + 1 /\ g[n + 1] = Cut
        /\ \A k \in 1 .. n : g[k] = o[m + k]
  BY DEF Begins
<1>3. n \in 0 .. Len(q) - m /\ \A k \in 1 .. n : m + k \in 1 .. Len(o)
  BY <1>1
<1>4. Begins(g, q, m)
  BY <1>1, <1>2, <1>3 DEF Begins
<1> QED BY <1>4 DEF q

(* A record is offered, and written to the connection.                     *)
LEMMA FollowsMore ==
  ASSUME NEW S, NEW g \in Seq(S), NEW o \in Seq(S), NEW m \in 0 .. Len(o), NEW x \in S,
         Follows(g, o, m)
  PROVE  Follows(Append(g, x), Append(o, x), m)
<1> DEFINE q == Append(o, x)  h == Append(g, x)
<1>1. /\ Len(o) \in Nat /\ Len(q) = Len(o) + 1 /\ q[Len(o) + 1] = x
      /\ \A k \in 1 .. Len(o) : q[k] = o[k]
  BY AppendProperties
<1>2. /\ Len(g) \in Nat /\ Len(h) = Len(g) + 1 /\ h[Len(g) + 1] = x
      /\ \A k \in 1 .. Len(g) : h[k] = g[k]
  BY AppendProperties
<1> HIDE DEF q, h
<1>3. Len(g) = Len(o) - m
  BY DEF Follows
<1>4. Len(h) = Len(q) - m
  BY <1>1, <1>2, <1>3
<1>5. ASSUME NEW k \in 1 .. Len(h) PROVE h[k] = q[m + k]
  <2>1. CASE k \in 1 .. Len(g)
    <3>1. m + k \in 1 .. Len(o)
      BY <1>1, <1>2, <1>3, <2>1
    <3> QED BY <1>1, <1>2, <2>1, <3>1 DEF Follows
  <2>2. CASE k = Len(g) + 1
    <3>1. m + k = Len(o) + 1
      BY <1>1, <1>2, <1>3, <2>2
    <3> QED BY <1>1, <1>2, <2>2, <3>1
  <2> QED BY <1>2, <2>1, <2>2
<1>6. Follows(h, q, m)
  BY <1>4, <1>5 DEF Follows
<1> QED BY <1>6 DEF q, h

-----------------------------------------------------------------------------
(* The invariant.  Records are in the set S: numbers of messages, or what  *)
(* the statistics engine publishes, and Cut.                               *)
OnlineTypeOK(S) ==
  /\ Cut \in S /\ record \in S /\ offered \in Seq(S)
  /\ clients \in [ClientSlot -> Peer \union {NoPeer}]
  /\ backlog \in Seq(Peer)
  /\ peer \in [Peer -> {"out", "on", "shut", "gone"}]
  /\ got \in [Peer -> Seq(S)]
  /\ next \in 0 .. maxClients
  /\ since \in [Peer -> Nat]
  /\ \A p \in Peer : since[p] <= Len(offered)

(* A peer has one entry of the table, ...                                  *)
OneEntry ==
  \A i, j \in ClientSlot : clients[i] # NoPeer /\ clients[i] = clients[j] => i = j

(* ... and none before it is accepted, which it is once.                   *)
Fresh(p) == p \notin Entries(clients) /\ got[p] = <<>>
AcceptedOnce ==
  /\ \A k, l \in 1 .. Len(backlog) : backlog[k] = backlog[l] => k = l
  /\ \A k \in 1 .. Len(backlog) : peer[backlog[k]] # "out" /\ Fresh(backlog[k])
  /\ \A p \in Peer : peer[p] = "out" => Fresh(p)

(* The entries below n have been served.  What a peer of the table is to   *)
(* have received and what it has.                                          *)
Served(c, n, p)  == \E i \in 1 .. n - 1 : c[i] = p
Line(c, n, r, o, p) == IF Served(c, n, p) THEN Append(o, r) ELSE o
Streamed(p) ==
  IF p \in Entries(clients)
  THEN Follows(got[p], Line(clients, next, record, offered, p), since[p])
  ELSE Begins(got[p], offered, since[p])

OnlineInv(S) ==
  /\ OnlineTypeOK(S) /\ OneEntry /\ AcceptedOnce
  /\ \A p \in Peer : Streamed(p)

(* The peers of a table.                                                   *)
LEMMA EntriesAre ==
  ASSUME NEW c, NEW p
  PROVE  p \in Entries(c) <=> p # NoPeer /\ \E i \in ClientSlot : c[i] = p
BY DEF Entries

(* No entry is served before the thread begins with the first one.         *)
LEMMA NoneServed ==
  ASSUME NEW c, NEW p, NEW n \in {0, 1}
  PROVE  ~ Served(c, n, p)
BY DEF Served

(* Another entry has been served.                                          *)
LEMMA ServedOn ==
  ASSUME NEW c, NEW d, NEW p, NEW n \in Nat, d[n] # p, \A j \in 1 .. n - 1 : d[j] = c[j]
  PROVE  Served(d, n + 1, p) <=> Served(c, n, p)
<1>1. \A j : j \in 1 .. n + 1 - 1 <=> j \in 1 .. n - 1 \/ (j = n /\ n # 0)
  OBVIOUS
<1>2. ASSUME Served(d, n + 1, p) PROVE Served(c, n, p)
  <2>1. PICK j \in 1 .. n + 1 - 1 : d[j] = p
    BY <1>2 DEF Served
  <2>2. j \in 1 .. n - 1
    BY <1>1, <2>1
  <2> QED BY <2>1, <2>2 DEF Served
<1>3. ASSUME Served(c, n, p) PROVE Served(d, n + 1, p)
  <2>1. PICK j \in 1 .. n - 1 : c[j] = p
    BY <1>3 DEF Served
  <2>2. j \in 1 .. n + 1 - 1
    BY <1>1, <2>1
  <2> QED BY <2>1, <2>2 DEF Served
<1> QED BY <1>2, <1>3

(* What the invariant says of the streams is StreamUnbroken.               *)
LEMMA StreamedUnbroken ==
  ASSUME NEW S, OnlineInv(S)
  PROVE  StreamUnbroken
<1> USE DEF OnlineInv, OnlineTypeOK
<1> SUFFICES ASSUME NEW p \in Peer
             PROVE  /\ p \in Entries(clients) => got[p] = Due(p)
                    /\ \E n \in 0 .. Len(Due(p)) :
                         got[p] \in {SubSeq(Due(p), 1, n), Append(SubSeq(Due(p), 1, n), Cut)}
  BY DEF StreamUnbroken
<1> DEFINE m == since[p]  g == got[p]  o == Line(clients, next, record, offered, p)
           d == SubSeq(offered, m + 1, Len(offered))
<1>1. /\ m \in 0 .. Len(offered) /\ g \in Seq(S) /\ offered \in Seq(S)
      /\ Len(offered) \in Nat /\ record \in S /\ Cut \in S
  OBVIOUS
<1>2. /\ d \in Seq(S) /\ Len(d) = Len(offered) - m
      /\ \A k \in 1 .. Len(d) : d[k] = offered[m + k]
  BY <1>1, SMTT(30)
<1>3. o \in Seq(S) /\ Len(o) >= Len(offered)
  BY <1>1, AppendProperties DEF Line
<1>4. Due(p) \in Seq(S) /\ Follows(Due(p), o, m)
  <2>1. CASE Served(clients, next, p)
    <3>1. Due(p) = d \o <<record>> /\ o = Append(offered, record)
      BY <2>1 DEF Due, Served, Line
    <3>2. Append(d, record) = d \o <<record>>
      BY <1>1, <1>2, AppendIsConcat
    <3>3. Follows(d, offered, m)
      BY <1>2 DEF Follows
    <3>4. Follows(Append(d, record), Append(offered, record), m)
      BY <1>1, <1>2, <3>3, FollowsMore
    <3>5. Append(d, record) \in Seq(S)
      BY <1>1, <1>2, AppendProperties
    <3> QED BY <3>1, <3>2, <3>4, <3>5
  <2>2. CASE ~ Served(clients, next, p)
    <3>1. Due(p) = d \o <<>> /\ o = offered
      BY <2>2 DEF Due, Served, Line
    <3>2. Due(p) = d
      BY <1>2, <3>1, ConcatEmptySeq
    <3> QED BY <1>2, <3>1, <3>2 DEF Follows
  <2> QED BY <2>1, <2>2
<1> DEFINE u == Due(p)
<1>5. /\ u \in Seq(S) /\ Len(u) = Len(o) - m /\ Len(u) \in Nat
      /\ \A k \in 1 .. Len(u) : u[k] = o[m + k]
  BY <1>4 DEF Follows
<1>6. ASSUME p \in Entries(clients) PROVE g = u
  <2>1. Follows(g, o, m)
    BY <1>6 DEF Streamed
  <2>2. Len(g) = Len(u) /\ \A k \in 1 .. Len(g) : g[k] = u[k]
    BY <1>1, <1>5, <2>1 DEF Follows
  <2> HIDE DEF u, g
  <2> QED BY <1>1, <1>5, <2>2, SeqEqual DEF g
<1>7. Begins(g, o, m)
  <2>1. CASE p \in Entries(clients)
    <3>1. Follows(g, o, m)
      BY <2>1 DEF Streamed
    <3>2. m \in 0 .. Len(o)
      BY <1>1, <1>3
    <3> QED BY <1>1, <1>3, <3>1, <3>2, FollowsBegins
  <2>2. CASE p \notin Entries(clients)
    <3>1. Begins(g, offered, m)
      BY <2>2 DEF Streamed
    <3>2. Begins(g, Append(offered, record), m)
      BY <1>1, <3>1, BeginsMore
    <3> QED BY <3>1, <3>2 DEF Line
  <2> QED BY <2>1, <2>2
<1>8. \E n \in 0 .. Len(u) : g \in {SubSeq(u, 1, n), Append(SubSeq(u, 1, n), Cut)}
  <2> HIDE DEF u, g, o, m
  <2>1. PICK n \in 0 .. Len(o) - m :
          /\ \/ Len(g) = n
             \/ Len(g) = n + 1 /\ g[n + 1] = Cut
          /\ \A k \in 1 .. n : g[k] = o[m + k]
    BY <1>7 DEF Begins
  <2> DEFINE w == SubSeq(u, 1, n)  v == Append(w, Cut)
  <2>2. n \in Nat /\ n \in 0 .. Len(u)
    BY <1>5, <2>1
  <2>3. /\ w \in Seq(S) /\ Len(w) = n
        /\ \A k \in 1 .. n : w[k] = u[k]
    BY <1>5, <2>2
  <2>4. ASSUME NEW k \in 1 .. n PROVE w[k] = g[k]
    <3>1. k \in 1 .. Len(u)
      BY <1>5, <2>2
    <3>2. w[k] = u[k] /\ u[k] = o[m + k] /\ g[k] = o[m + k]
      BY <1>5, <2>1, <2>3, <3>1
    <3> QED BY <3>2
  <2>5. /\ v \in Seq(S) /\ Len(v) = n + 1 /\ v[n + 1] = Cut
        /\ \A k \in 1 .. n : v[k] = w[k]
    <3> HIDE DEF w
    <3> QED BY <1>1, <2>3, AppendProperties
  <2> HIDE DEF w, v
  <2>6. g \in Seq(S)
    BY <1>1 DEF g
  <2>7. CASE Len(g) = n
    <3>1. g = w
      BY <2>2, <2>3, <2>4, <2>6, <2>7, SeqEqual
    <3> QED BY <2>2, <3>1 DEF w
  <2>8. CASE Len(g) = n + 1 /\ g[n + 1] = Cut
    <3>1. ASSUME NEW k \in 1 .. Len(g) PROVE g[k] = v[k]
      <4>1. k \in 1 .. n \/ k = n + 1
        BY <2>2, <2>8
      <4> QED BY <2>4, <2>5, <2>8, <4>1
    <3>2. g = v
      BY <2>2, <2>5, <2>6, <2>8, <3>1, SeqEqual
    <3> QED BY <2>2, <3>2 DEF v, w
  <2> QED BY <2>1, <2>7, <2>8
<1> QED BY <1>6, <1>8

-----------------------------------------------------------------------------
(* At first nobody is connected.                                           *)
LEMMA OnlineStarts ==
  ASSUME NEW S, OnlineInit, 0 \in S, Cut \in S
  PROVE  OnlineInv(S)
<1> USE DEF OnlineInit
<1>1. OnlineTypeOK(S)
  BY OnlineAssumption, EmptySeq DEF OnlineTypeOK
<1>2. Entries(clients) = {}
  BY DEF Entries
<1>3. OneEntry
  BY DEF OneEntry
<1>4. AcceptedOnce
  BY <1>2 DEF AcceptedOnce, Fresh
<1>5. ASSUME NEW p \in Peer PROVE Streamed(p)
  <2>1. Begins(<<>>, <<>>, 0)
    BY DEF Begins
  <2> QED BY <1>2, <2>1 DEF Streamed
<1> QED BY <1>1, <1>3, <1>4, <1>5 DEF OnlineInv

(* The set of the records may grow.                                        *)
LEMMA OnlineWidens ==
  ASSUME NEW S, NEW T, S \subseteq T, OnlineInv(S)
  PROVE  OnlineInv(T)
<1>1. OnlineTypeOK(S)
  BY DEF OnlineInv
<1>2. offered \in Seq(T)
  BY <1>1, SeqMonotonic DEF OnlineTypeOK
<1>3. ASSUME NEW p \in Peer PROVE got[p] \in Seq(T)
  <2>1. got[p] \in Seq(S)
    BY <1>1 DEF OnlineTypeOK
  <2> QED BY <2>1, SeqMonotonic
<1>4. OnlineTypeOK(T)
  BY <1>1, <1>2, <1>3 DEF OnlineTypeOK
<1> QED BY <1>4 DEF OnlineInv

(* Nothing of it depends on what the thread of an engine does elsewhere.   *)
LEMMA OnlineStays ==
  ASSUME NEW S, OnlineInv(S), UNCHANGED onlineVars
  PROVE  OnlineInv(S)'
BY DEF OnlineInv, OnlineTypeOK, OneEntry, AcceptedOnce, Fresh, Streamed, onlineVars,
       tableVars, roundVars

(* The peers connect, close and read.                                      *)
LEMMA PeersKeep ==
  ASSUME NEW S, OnlineInv(S), Peers
  PROVE  OnlineInv(S)'
<1>1. /\ UNCHANGED <<clients, got, next, record, offered, since>>
      /\ \E p \in Peer : PeerConnects(p) \/ PeerHangsUp(p) \/ PeerReads(p)
  BY DEF Peers, PeerConnects, PeerHangsUp, PeerReads, roundVars
<1>2. OnlineTypeOK(S) /\ OneEntry /\ AcceptedOnce /\ \A p \in Peer : Streamed(p)
  BY DEF OnlineInv
<1>3. OneEntry' /\ \A p \in Peer : Streamed(p)'
  BY <1>1, <1>2 DEF OneEntry, Streamed
<1>4. \A p \in Peer : Fresh(p)' = Fresh(p)
  BY <1>1 DEF Fresh
<1>5. PICK p \in Peer : PeerConnects(p) \/ PeerHangsUp(p) \/ PeerReads(p)
  BY <1>1
<1>6. /\ backlog \in Seq(Peer) /\ Len(backlog) \in Nat
      /\ \A k \in 1 .. Len(backlog) : backlog[k] \in Peer
  BY <1>2 DEF OnlineTypeOK
<1>7. OnlineTypeOK(S)' /\ AcceptedOnce'
  <2>1. CASE PeerConnects(p)
    <3>1. /\ peer[p] = "out" /\ backlog' = Append(backlog, p)
          /\ peer' = [peer EXCEPT ![p] = "on"]
      BY <2>1 DEF PeerConnects
    <3> DEFINE b == backlog'
    <3>2. /\ b \in Seq(Peer) /\ Len(b) = Len(backlog) + 1 /\ b[Len(backlog) + 1] = p
          /\ \A k \in 1 .. Len(backlog) : b[k] = backlog[k]
      BY <1>6, <3>1, AppendProperties
    <3>3. OnlineTypeOK(S)'
      BY <1>1, <1>2, <3>1, <3>2 DEF OnlineTypeOK
    <3>4. \A k \in 1 .. Len(b) : k \in 1 .. Len(backlog) \/ k = Len(backlog) + 1
      BY <1>6, <3>2
    <3>5. Fresh(p) /\ \A k \in 1 .. Len(backlog) : backlog[k] # p
      BY <1>2, <3>1 DEF AcceptedOnce
    <3>6. \A k, l \in 1 .. Len(b) : b[k] = b[l] => k = l
      BY <1>2, <3>2, <3>4, <3>5 DEF AcceptedOnce
    <3>7. \A q \in Peer : peer'[q] = IF q = p THEN "on" ELSE peer[q]
      BY <1>2, <3>1 DEF OnlineTypeOK
    <3>8. ASSUME NEW k \in 1 .. Len(b) PROVE peer'[b[k]] # "out" /\ Fresh(b[k])
      <4>1. CASE k \in 1 .. Len(backlog)
        <5>1. b[k] = backlog[k] /\ backlog[k] \in Peer /\ peer[backlog[k]] # "out"
              /\ Fresh(backlog[k])
          BY <1>2, <1>6, <3>2, <4>1 DEF AcceptedOnce
        <5> QED BY <3>7, <5>1
      <4>2. CASE k = Len(backlog) + 1
        BY <3>2, <3>5, <3>7, <4>2
      <4> QED BY <3>4, <4>1, <4>2
    <3>9. /\ \A k \in 1 .. Len(b) : b[k] \in Peer
          /\ \A q \in Peer : peer'[q] = "out" => Fresh(q)
      BY <1>2, <3>2, <3>7 DEF AcceptedOnce
    <3>10. AcceptedOnce'
      BY <1>1, <3>6, <3>8, <3>9 DEF AcceptedOnce, Fresh
    <3> QED BY <3>3, <3>10
  <2>2. CASE PeerHangsUp(p) \/ PeerReads(p)
    <3>1. /\ backlog' = backlog
          /\ \A q \in Peer : /\ peer'[q] \in {"out", "on", "shut", "gone"}
                             /\ peer'[q] = "out" <=> peer[q] = "out"
          /\ peer' \in [Peer -> {"out", "on", "shut", "gone"}]
      BY <1>2, <2>2 DEF OnlineTypeOK, PeerHangsUp, PeerReads
    <3>2. OnlineTypeOK(S)'
      BY <1>1, <1>2, <3>1 DEF OnlineTypeOK
    <3>3. AcceptedOnce'
      BY <1>2, <1>4, <1>6, <3>1 DEF AcceptedOnce
    <3> QED BY <3>2, <3>3
  <2> QED BY <1>5, <2>1, <2>2
<1> QED BY <1>3, <1>7 DEF OnlineInv

-----------------------------------------------------------------------------
(* Between two rounds, entries are freed and a connection is accepted.     *)
LEMMA ServeTable ==
  ASSUME NEW S, OnlineInv(S), Serve
  PROVE  /\ clients' \in [ClientSlot -> Peer \union {NoPeer}]
         /\ OneEntry'
         /\ backlog' = IF backlog = <<>> THEN <<>> ELSE Tail(backlog)
         /\ \A q \in Entries(clients') :
              q \in Entries(clients) \/ (backlog # <<>> /\ q = Head(backlog))
         /\ peer' \in [Peer -> {"out", "on", "shut", "gone"}]
         /\ \A q \in Peer : peer'[q] = "out" <=> peer[q] = "out"
<1>1. OnlineTypeOK(S) /\ OneEntry /\ AcceptedOnce
  BY DEF OnlineInv
<1>2. /\ Alive \in [ClientSlot -> Peer \union {NoPeer}]
      /\ \A i \in ClientSlot : Alive[i] # NoPeer => Alive[i] = clients[i]
  BY <1>1 DEF Alive, OnlineTypeOK
<1>3. CASE clients' = Alive
  <2>1. OneEntry'
    BY <1>1, <1>2, <1>3 DEF OneEntry
  <2>2. \A q \in Entries(clients') : q \in Entries(clients)
    BY <1>2, <1>3, EntriesAre
  <2>3. \/ UNCHANGED peer
        \/ backlog # <<>> /\ peer' = [peer EXCEPT ![Head(backlog)] = IF @ = "on" THEN "gone" ELSE @]
    BY <1>3 DEF Serve, AcceptOne
  <2>4. /\ peer' \in [Peer -> {"out", "on", "shut", "gone"}]
        /\ \A q \in Peer : peer'[q] = "out" <=> peer[q] = "out"
    BY <1>1, <2>3 DEF OnlineTypeOK
  <2>5. backlog' = IF backlog = <<>> THEN <<>> ELSE Tail(backlog)
    BY DEF Serve, AcceptOne
  <2> QED BY <1>2, <1>3, <2>1, <2>2, <2>4, <2>5
<1>4. CASE clients' # Alive
  <2>1. /\ backlog # <<>> /\ backlog' = Tail(backlog) /\ UNCHANGED peer
        /\ \E i \in ClientSlot : clients' = [Alive EXCEPT ![i] = Head(backlog)]
    BY <1>4 DEF Serve, AcceptOne
  <2> DEFINE h == Head(backlog)
  <2>2. PICK f \in ClientSlot : clients' = [Alive EXCEPT ![f] = h]
    BY <2>1
  <2>3. h \in Peer /\ h = backlog[1] /\ 1 \in 1 .. Len(backlog)
    BY <1>1, <2>1 DEF OnlineTypeOK
  <2>4. h \notin Entries(clients)
    BY <1>1, <2>3 DEF AcceptedOnce, Fresh
  <2> HIDE DEF h
  <2>5. \A i \in ClientSlot : clients'[i] = IF i = f THEN h ELSE Alive[i]
    BY <1>2, <2>2
  <2>6. clients' \in [ClientSlot -> Peer \union {NoPeer}]
    BY <1>2, <2>2, <2>3
  <2>7. \A i \in ClientSlot : i # f /\ clients'[i] # NoPeer =>
          clients'[i] = clients[i] /\ clients[i] # h
    BY <1>2, <2>4, <2>5, EntriesAre
  <2>8. OneEntry'
    BY <1>1, <2>5, <2>7 DEF OneEntry
  <2>9. \A q \in Entries(clients') : q \in Entries(clients) \/ q = h
    BY <2>5, <2>7, EntriesAre
  <2>10. /\ peer' \in [Peer -> {"out", "on", "shut", "gone"}]
         /\ \A q \in Peer : peer'[q] = "out" <=> peer[q] = "out"
    BY <1>1, <2>1 DEF OnlineTypeOK
  <2> QED BY <2>1, <2>6, <2>8, <2>9, <2>10 DEF h
<1> QED BY <1>3, <1>4

(* What has been sent goes on where it was; a new connection begins with   *)
(* the next record.                                                        *)
LEMMA ServeKeeps ==
  ASSUME NEW S, OnlineInv(S), next = 0, Serve
  PROVE  OnlineInv(S)'
<1>1. OnlineTypeOK(S) /\ OneEntry /\ AcceptedOnce /\ \A p \in Peer : Streamed(p)
  BY DEF OnlineInv
<1>2. /\ UNCHANGED <<got, next, record, offered>>
      /\ since' = [p \in Peer |->
           IF p \in Entries(clients') \ Entries(clients) THEN Len(offered) ELSE since[p]]
  BY DEF Serve, AcceptOne, roundVars
<1>3. /\ clients' \in [ClientSlot -> Peer \union {NoPeer}]
      /\ OneEntry'
      /\ backlog' = IF backlog = <<>> THEN <<>> ELSE Tail(backlog)
      /\ \A q \in Entries(clients') :
           q \in Entries(clients) \/ (backlog # <<>> /\ q = Head(backlog))
      /\ peer' \in [Peer -> {"out", "on", "shut", "gone"}]
      /\ \A q \in Peer : peer'[q] = "out" <=> peer[q] = "out"
  BY ServeTable
<1>4. backlog \in Seq(Peer) /\ offered \in Seq(S) /\ Len(offered) \in Nat
  BY <1>1 DEF OnlineTypeOK
<1> DEFINE b == backlog'
<1>5. b \in Seq(Peer) /\ \A k \in 1 .. Len(b) :
        /\ k + 1 \in 1 .. Len(backlog) /\ b[k] = backlog[k + 1] /\ b[k] \in Peer
        /\ backlog # <<>> /\ Head(backlog) = backlog[1]
        /\ 1 \in 1 .. Len(backlog) /\ k + 1 # 1
  <2>1. CASE backlog = <<>>
    BY <1>3, <2>1, EmptySeq
  <2>2. CASE backlog # <<>>
    <3>1. /\ b \in Seq(Peer) /\ Len(b) = Len(backlog) - 1 /\ Len(backlog) \in Nat \ {0}
          /\ \A k \in 1 .. Len(b) : b[k] = backlog[k + 1]
      BY <1>3, <1>4, <2>2, HeadTailProperties
    <3>2. \A k \in 1 .. Len(b) : b[k] \in Peer
      BY <3>1
    <3>3. Head(backlog) = backlog[1]
      BY <1>4, <2>2
    <3> HIDE DEF b
    <3> QED BY <2>2, <3>1, <3>2, <3>3
  <2> QED BY <2>1, <2>2
<1>6. OnlineTypeOK(S)'
  BY <1>1, <1>2, <1>3, <1>4, <1>5 DEF OnlineTypeOK
<1>7. ASSUME NEW q \in Peer, Fresh(q), backlog # <<>> => q # Head(backlog)
      PROVE  Fresh(q)'
  BY <1>2, <1>3, <1>7 DEF Fresh
<1>8. AcceptedOnce'
  <2> HIDE DEF b
  <2>1. \A k, l \in 1 .. Len(b) : b[k] = b[l] => k = l
    <3>1. ASSUME NEW k \in 1 .. Len(b), NEW l \in 1 .. Len(b), b[k] = b[l] PROVE k = l
      <4>1. k + 1 = l + 1
        BY <1>1, <1>5, <3>1 DEF AcceptedOnce
      <4> QED BY <4>1
    <3> QED BY <3>1
  <2>2. ASSUME NEW k \in 1 .. Len(b)
        PROVE  peer'[b[k]] # "out" /\ b[k] \notin Entries(clients') /\ got'[b[k]] = <<>>
    <3>1. b[k] \in Peer /\ peer[b[k]] # "out" /\ Fresh(b[k])
      BY <1>1, <1>5 DEF AcceptedOnce
    <3>2. b[k] # Head(backlog)
      BY <1>1, <1>5 DEF AcceptedOnce
    <3> QED BY <1>2, <1>3, <3>1, <3>2 DEF Fresh
  <2>3. ASSUME NEW q \in Peer, peer'[q] = "out"
        PROVE  q \notin Entries(clients') /\ got'[q] = <<>>
    <3>1. peer[q] = "out" /\ Fresh(q)
      BY <1>1, <1>3, <2>3 DEF AcceptedOnce
    <3>2. backlog # <<>> => q # Head(backlog)
      BY <1>1, <1>4, <3>1 DEF AcceptedOnce
    <3> QED BY <1>2, <1>3, <3>1, <3>2 DEF Fresh
  <2> QED BY <2>1, <2>2, <2>3 DEF AcceptedOnce, Fresh, b
<1>9. ASSUME NEW p \in Peer PROVE Streamed(p)'
  <2>1. /\ since[p] \in 0 .. Len(offered) /\ got[p] \in Seq(S)
        /\ ~ Served(clients', 0, p) /\ ~ Served(clients, 0, p)
    BY <1>1, <1>4, NoneServed DEF OnlineTypeOK
  <2>2. CASE p \in Entries(clients) /\ p \in Entries(clients')
    BY <1>1, <1>2, <2>1, <2>2 DEF Streamed, Line
  <2>3. CASE p \in Entries(clients) /\ p \notin Entries(clients')
    <3>1. Follows(got[p], offered, since[p])
      BY <1>1, <2>1, <2>3 DEF Streamed, Line
    <3>2. Begins(got[p], offered, since[p])
      BY <1>4, <2>1, <3>1, FollowsBegins
    <3> QED BY <1>2, <2>3, <3>2 DEF Streamed
  <2>4. CASE p \notin Entries(clients) /\ p \in Entries(clients')
    <3>1. backlog # <<>> /\ p = backlog[1] /\ 1 \in 1 .. Len(backlog)
      BY <1>3, <1>4, <2>4
    <3>2. got[p] = <<>>
      BY <1>1, <3>1 DEF AcceptedOnce, Fresh
    <3>3. since'[p] = Len(offered) /\ Follows(<<>>, offered, Len(offered))
      BY <1>2, <1>4, <2>4 DEF Follows
    <3> QED BY <1>2, <2>1, <2>4, <3>2, <3>3 DEF Streamed, Line
  <2>5. CASE p \notin Entries(clients) /\ p \notin Entries(clients')
    BY <1>1, <1>2, <2>5 DEF Streamed
  <2> QED BY <2>2, <2>3, <2>4, <2>5
<1> QED BY <1>3, <1>6, <1>8, <1>9 DEF OnlineInv

(* A round begins: no entry has been served.                               *)
LEMMA OfferKeeps ==
  ASSUME NEW S, NEW x \in S, OnlineInv(S), Offer(x)
  PROVE  OnlineInv(S)'
<1>1. OnlineTypeOK(S) /\ OneEntry /\ AcceptedOnce /\ \A p \in Peer : Streamed(p)
  BY DEF OnlineInv
<1>2. /\ next = 0 /\ next' = 1 /\ record' = x
      /\ UNCHANGED <<clients, backlog, peer, room, got, offered, since>>
  BY DEF Offer, tableVars
<1>3. OnlineTypeOK(S)'
  BY <1>1, <1>2, OnlineAssumption DEF OnlineTypeOK
<1>4. OneEntry' /\ AcceptedOnce'
  BY <1>1, <1>2 DEF OneEntry, AcceptedOnce, Fresh
<1>5. ASSUME NEW p \in Peer PROVE Streamed(p)'
  <2>1. ~ Served(clients, 0, p) /\ ~ Served(clients, 1, p)
    BY NoneServed
  <2> QED BY <1>1, <1>2, <2>1 DEF Streamed, Line
<1> QED BY <1>3, <1>4, <1>5 DEF OnlineInv

-----------------------------------------------------------------------------
(* What the thread does to the entry that it serves: nothing when it is    *)
(* free, and else the record is written and the connection kept, or the    *)
(* connection is closed, after the beginning of the record at most.        *)
LEMMA SendTable ==
  ASSUME NEW S, OnlineInv(S), SendNext
  PROVE  /\ next \in ClientSlot
         /\ clients' \in [ClientSlot -> Peer \union {NoPeer}]
         /\ \A j \in ClientSlot : j # next => clients'[j] = clients[j]
         /\ peer' \in [Peer -> {"out", "on", "shut", "gone"}]
         /\ \A p \in Peer : peer'[p] = "out" <=> peer[p] = "out"
         /\ got' \in [Peer -> Seq(S)]
         /\ \A p \in Peer : p # clients[next] => got'[p] = got[p]
         /\ clients[next] = NoPeer => clients'[next] = NoPeer
         /\ clients[next] # NoPeer =>
              \/ /\ clients'[next] = clients[next]
                 /\ got'[clients[next]] = Append(got[clients[next]], record)
              \/ /\ clients'[next] = NoPeer
                 /\ got'[clients[next]] \in
                      {got[clients[next]], Append(got[clients[next]], Cut)}
         /\ UNCHANGED <<backlog, record, since>>
<1>1. OnlineTypeOK(S)
  BY DEF OnlineInv
<1>2. next \in ClientSlot /\ UNCHANGED <<backlog, record, since>>
  BY <1>1, OnlineAssumption
  DEF SendNext, ClientSlot, OnlineTypeOK, WriteAll, WritePart, WriteFails, SelectTimeout,
      tableVars
<1> DEFINE q == clients[next]
<1>3. q \in Peer \union {NoPeer}
  BY <1>1, <1>2 DEF OnlineTypeOK
<1>4. CASE q = NoPeer
  <2>1. UNCHANGED <<clients, peer, got>>
    BY <1>4 DEF SendNext, WriteAll, WritePart, WriteFails, SelectTimeout, tableVars
  <2> QED BY <1>1, <1>2, <1>4, <2>1 DEF OnlineTypeOK
<1>5. CASE q # NoPeer /\ WriteAll(next, record)
  <2>1. got' = [got EXCEPT ![q] = Append(@, record)] /\ UNCHANGED <<clients, peer>>
    BY <1>5 DEF WriteAll, Written
  <2>2. q \in Peer /\ Append(got[q], record) \in Seq(S)
    BY <1>1, <1>3, <1>5 DEF OnlineTypeOK
  <2> HIDE DEF q
  <2>3. /\ got' \in [Peer -> Seq(S)]
        /\ \A p \in Peer : got'[p] = IF p = q THEN Append(got[q], record) ELSE got[p]
    BY <1>1, <2>1, <2>2 DEF OnlineTypeOK
  <2>4. /\ \A p \in Peer : p # q => got'[p] = got[p]
        /\ got'[q] = Append(got[q], record)
    BY <2>2, <2>3
  <2>5. clients \in [ClientSlot -> Peer \union {NoPeer}]
        /\ peer \in [Peer -> {"out", "on", "shut", "gone"}]
    BY <1>1 DEF OnlineTypeOK
  <2> QED BY <1>2, <1>5, <2>1, <2>3, <2>4, <2>5 DEF q
<1>6. CASE q # NoPeer /\ (WritePart(next) \/ WriteFails(next) \/ SelectTimeout(next))
  <2>1. /\ CloseEntry(next)
        /\ got' = [got EXCEPT ![q] = Append(@, Cut)] \/ UNCHANGED got
    BY <1>6 DEF WritePart, WriteFails, SelectTimeout, Written
  <2>2. q \in Peer /\ Append(got[q], Cut) \in Seq(S)
    BY <1>1, <1>3, <1>6 DEF OnlineTypeOK
  <2>3. /\ clients' = [clients EXCEPT ![next] = NoPeer]
        /\ peer' = [peer EXCEPT ![q] = IF @ = "on" THEN "gone" ELSE @]
    BY <2>1 DEF CloseEntry
  <2> HIDE DEF q
  <2>4. /\ got' \in [Peer -> Seq(S)]
        /\ \A p \in Peer : p # q => got'[p] = got[p]
        /\ got'[q] \in {got[q], Append(got[q], Cut)}
    BY <1>1, <2>1, <2>2 DEF OnlineTypeOK
  <2>5. /\ peer' \in [Peer -> {"out", "on", "shut", "gone"}]
        /\ \A p \in Peer : peer'[p] = "out" <=> peer[p] = "out"
    BY <1>1, <2>2, <2>3 DEF OnlineTypeOK
  <2>6. /\ clients' \in [ClientSlot -> Peer \union {NoPeer}]
        /\ clients'[next] = NoPeer
        /\ \A j \in ClientSlot : j # next => clients'[j] = clients[j]
    BY <1>1, <1>2, <2>3 DEF OnlineTypeOK
  <2> QED BY <1>2, <1>6, <2>4, <2>5, <2>6 DEF q
<1> QED BY <1>4, <1>5, <1>6 DEF SendNext

(* A peer of another entry is as far as it was, when it had been served or *)
(* not, and has been served when the round ends.                           *)
LEMMA SendOther ==
  ASSUME NEW S, OnlineInv(S), SendNext, NEW p \in Peer, p # clients[next]
  PROVE  Streamed(p)'
<1>1. OnlineTypeOK(S) /\ Streamed(p)
  BY DEF OnlineInv
<1>2. /\ next \in ClientSlot /\ \A j \in ClientSlot : j # next => clients'[j] = clients[j]
      /\ clients'[next] # p /\ got'[p] = got[p] /\ UNCHANGED <<record, since>>
  <2>1. p # NoPeer
    BY OnlineAssumption
  <2> QED BY <2>1, SendTable
<1>3. \/ next # maxClients /\ next' = next + 1 /\ UNCHANGED offered
      \/ next = maxClients /\ next' = 0 /\ offered' = Append(offered, record)
  <2>1. IF next < maxClients
        THEN next' = next + 1 /\ UNCHANGED offered
        ELSE next' = 0 /\ offered' = Append(offered, record)
    BY DEF SendNext
  <2>2. next \in 1 .. maxClients /\ maxClients \in Nat
    BY <1>2, OnlineAssumption DEF ClientSlot
  <2> QED BY <2>1, <2>2
<1>4. p \in Entries(clients') <=> p \in Entries(clients)
  BY <1>2, EntriesAre
<1>5. CASE p \in Entries(clients)
  <2>1. p \in Entries(clients') /\ \E j \in ClientSlot : j # next /\ clients[j] = p
    BY <1>4, <1>5, EntriesAre
  <2>2. Follows(got[p], Line(clients, next, record, offered, p), since[p])
    BY <1>1, <1>5 DEF Streamed
  <2>3. Line(clients', next', record', offered', p) = Line(clients, next, record, offered, p)
    <3>1. CASE next # maxClients /\ next' = next + 1 /\ UNCHANGED offered
      <4>1. Served(clients', next + 1, p) <=> Served(clients, next, p)
        <5>1. next \in 1 .. maxClients /\ maxClients \in Nat
          BY <1>2, OnlineAssumption DEF ClientSlot
        <5>2. \A j \in 1 .. next - 1 : clients'[j] = clients[j]
          BY <1>2, <5>1 DEF ClientSlot
        <5> QED BY <1>2, <5>1, <5>2, ServedOn
      <4> QED BY <1>2, <3>1, <4>1 DEF Line
    <3>2. CASE next = maxClients /\ next' = 0 /\ offered' = Append(offered, record)
      <4>1. Served(clients, next, p)
        <5>1. \A j \in ClientSlot : j # next => j \in 1 .. next - 1
          BY <3>2, OnlineAssumption DEF ClientSlot
        <5> QED BY <2>1, <5>1 DEF Served
      <4>2. ~ Served(clients', 0, p)
        BY NoneServed
      <4> QED BY <3>2, <4>1, <4>2 DEF Line
    <3> QED BY <1>3, <3>1, <3>2
  <2> QED BY <1>2, <2>1, <2>2, <2>3 DEF Streamed
<1>6. CASE p \notin Entries(clients)
  <2>1. Begins(got[p], offered, since[p])
    BY <1>1, <1>6 DEF Streamed
  <2>2. /\ got[p] \in Seq(S) /\ offered \in Seq(S) /\ record \in S
        /\ since[p] \in 0 .. Len(offered)
    BY <1>1 DEF OnlineTypeOK
  <2>3. Begins(got[p], Append(offered, record), since[p])
    BY <2>1, <2>2, BeginsMore
  <2>4. Begins(got[p], offered', since[p])
    BY <1>3, <2>1, <2>3
  <2> QED BY <1>2, <1>4, <1>6, <2>4 DEF Streamed
<1> QED BY <1>5, <1>6

(* The peer of the entry that is served had got all before the record; now *)
(* it has it too, or is out of the table.                                  *)
LEMMA SendThis ==
  ASSUME NEW S, OnlineInv(S), SendNext, NEW p \in Peer, p = clients[next]
  PROVE  Streamed(p)'
<1>1. OnlineTypeOK(S) /\ OneEntry /\ Streamed(p)
  BY DEF OnlineInv
<1>2. /\ next \in ClientSlot /\ \A j \in ClientSlot : j # next => clients'[j] = clients[j]
      /\ p # NoPeer /\ UNCHANGED <<record, since>>
      /\ \/ clients'[next] = p /\ got'[p] = Append(got[p], record)
         \/ clients'[next] = NoPeer /\ got'[p] \in {got[p], Append(got[p], Cut)}
  <2>1. p # NoPeer
    BY OnlineAssumption
  <2> QED BY <2>1, SendTable
<1>3. \/ next # maxClients /\ next' = next + 1 /\ UNCHANGED offered
      \/ next = maxClients /\ next' = 0 /\ offered' = Append(offered, record)
  <2>1. IF next < maxClients
        THEN next' = next + 1 /\ UNCHANGED offered
        ELSE next' = 0 /\ offered' = Append(offered, record)
    BY DEF SendNext
  <2>2. next \in 1 .. maxClients /\ maxClients \in Nat
    BY <1>2, OnlineAssumption DEF ClientSlot
  <2> QED BY <2>1, <2>2
<1>4. p \in Entries(clients) /\ \A j \in ClientSlot : j # next => clients[j] # p
  BY <1>1, <1>2, EntriesAre DEF OneEntry
<1>5. next \in 1 .. maxClients /\ maxClients \in Nat
  BY <1>2, OnlineAssumption DEF ClientSlot
<1>6. Follows(got[p], offered, since[p])
  <2>1. \A j \in 1 .. next - 1 : j \in ClientSlot /\ j # next
    BY <1>5 DEF ClientSlot
  <2>2. ~ Served(clients, next, p)
    BY <1>4, <2>1 DEF Served
  <2> QED BY <1>1, <1>4, <2>2 DEF Streamed, Line
<1>7. /\ got[p] \in Seq(S) /\ offered \in Seq(S) /\ record \in S /\ Cut \in S
      /\ since[p] \in 0 .. Len(offered)
  BY <1>1 DEF OnlineTypeOK
<1>8. CASE clients'[next] = p /\ got'[p] = Append(got[p], record)
  <2>1. p \in Entries(clients')
    BY <1>2, <1>8, EntriesAre
  <2>2. Follows(Append(got[p], record), Append(offered, record), since[p])
    BY <1>6, <1>7, FollowsMore
  <2>3. Line(clients', next', record', offered', p) = Append(offered, record)
    <3>1. CASE next # maxClients /\ next' = next + 1 /\ UNCHANGED offered
      <4>1. next \in 1 .. next + 1 - 1
        BY <1>5
      <4>2. Served(clients', next + 1, p)
        BY <1>8, <4>1 DEF Served
      <4> QED BY <1>2, <3>1, <4>2 DEF Line
    <3>2. CASE next = maxClients /\ next' = 0 /\ offered' = Append(offered, record)
      <4>1. ~ Served(clients', 0, p)
        BY NoneServed
      <4> QED BY <3>2, <4>1 DEF Line
    <3> QED BY <1>3, <3>1, <3>2
  <2> QED BY <1>2, <1>8, <2>1, <2>2, <2>3 DEF Streamed
<1>9. CASE clients'[next] = NoPeer /\ got'[p] \in {got[p], Append(got[p], Cut)}
  <2>1. p \notin Entries(clients')
    BY <1>2, <1>4, <1>9, EntriesAre
  <2>2. Begins(got'[p], offered, since[p])
    BY <1>6, <1>7, <1>9, FollowsBegins, CutBegins
  <2>3. got'[p] \in Seq(S)
    <3>1. Append(got[p], Cut) \in Seq(S)
      BY <1>7, AppendProperties
    <3> QED BY <1>7, <1>9, <3>1
  <2>4. Begins(got'[p], Append(offered, record), since[p])
    BY <1>7, <2>2, <2>3, BeginsMore
  <2>5. Begins(got'[p], offered', since[p])
    BY <1>3, <2>2, <2>4
  <2> QED BY <1>2, <2>1, <2>5 DEF Streamed
<1> QED BY <1>2, <1>8, <1>9

(* An entry is served.                                                     *)
LEMMA SendKeeps ==
  ASSUME NEW S, OnlineInv(S), SendNext
  PROVE  OnlineInv(S)'
<1>1. OnlineTypeOK(S) /\ OneEntry /\ AcceptedOnce
  BY DEF OnlineInv
<1>2. /\ next \in ClientSlot
      /\ clients' \in [ClientSlot -> Peer \union {NoPeer}]
      /\ \A j \in ClientSlot : j # next => clients'[j] = clients[j]
      /\ clients'[next] \in {clients[next], NoPeer}
      /\ peer' \in [Peer -> {"out", "on", "shut", "gone"}]
      /\ \A p \in Peer : peer'[p] = "out" <=> peer[p] = "out"
      /\ got' \in [Peer -> Seq(S)]
      /\ \A p \in Peer : p # clients[next] => got'[p] = got[p]
      /\ UNCHANGED <<backlog, record, since>>
  BY SendTable
<1>3. \/ next # maxClients /\ next' = next + 1 /\ UNCHANGED offered
      \/ next = maxClients /\ next' = 0 /\ offered' = Append(offered, record)
  <2>1. IF next < maxClients
        THEN next' = next + 1 /\ UNCHANGED offered
        ELSE next' = 0 /\ offered' = Append(offered, record)
    BY DEF SendNext
  <2>2. next \in 1 .. maxClients /\ maxClients \in Nat
    BY <1>2, OnlineAssumption DEF ClientSlot
  <2> QED BY <2>1, <2>2
<1>4. offered' \in Seq(S) /\ Len(offered') >= Len(offered) /\ next' \in 0 .. maxClients
  <2>1. offered \in Seq(S) /\ record \in S /\ Len(offered) \in Nat
    BY <1>1 DEF OnlineTypeOK
  <2>2. Append(offered, record) \in Seq(S) /\ Len(Append(offered, record)) = Len(offered) + 1
    BY <2>1, AppendProperties
  <2>3. next \in 1 .. maxClients /\ maxClients \in Nat
    BY <1>2, OnlineAssumption DEF ClientSlot
  <2>4. offered' \in Seq(S) /\ Len(offered') >= Len(offered)
    BY <1>3, <2>1, <2>2
  <2>5. next' \in 0 .. maxClients
    BY <1>3, <2>3
  <2> QED BY <2>4, <2>5
<1>5. OnlineTypeOK(S)'
  <2>1. ASSUME NEW p \in Peer PROVE since[p] <= Len(offered')
    BY <1>1, <1>4 DEF OnlineTypeOK
  <2> QED BY <1>1, <1>2, <1>4, <2>1 DEF OnlineTypeOK
<1>6. OneEntry'
  BY <1>1, <1>2 DEF OneEntry
<1>7. ASSUME NEW p \in Peer, Fresh(p)
      PROVE  p \notin Entries(clients') /\ got'[p] = <<>>
  <2>1. p # clients[next]
    BY <1>2, <1>7, OnlineAssumption, EntriesAre DEF Fresh
  <2>2. p \notin Entries(clients')
    BY <1>2, <1>7, EntriesAre DEF Fresh
  <2> QED BY <1>2, <1>7, <2>1, <2>2 DEF Fresh
<1>8. \A k \in 1 .. Len(backlog) : backlog[k] \in Peer
  BY <1>1 DEF OnlineTypeOK
<1>9. AcceptedOnce'
  BY <1>1, <1>2, <1>7, <1>8 DEF AcceptedOnce, Fresh
<1>10. ASSUME NEW p \in Peer PROVE Streamed(p)'
  BY SendOther, SendThis
<1> QED BY <1>5, <1>6, <1>9, <1>10 DEF OnlineInv

-----------------------------------------------------------------------------
(* The engine for browsers: between its queue and the table.  A round goes *)
(* on only for the message at the head of the queue.                       *)
BrowserInv ==
  /\ OnlineInv(Nat \union {Cut})
  /\ received \in Nat /\ input \in Seq(Nat) /\ inLoop \in BOOLEAN
  /\ inLoop => next = 0
  /\ ~inLoop => input # <<>>

(* The message at the head of the queue has been sent, or skipped.         *)
LEMMA BrowserPopsKeeps ==
  ASSUME BrowserInv, ~inLoop, BrowserPops, next' = 0
  PROVE  /\ received' \in Nat /\ input' \in Seq(Nat) /\ inLoop' \in BOOLEAN
         /\ inLoop' => next' = 0
         /\ ~inLoop' => input' # <<>>
<1>1. input \in Seq(Nat) /\ input # <<>> /\ received \in Nat
  BY DEF BrowserInv
<1>2. Tail(input) \in Seq(Nat)
  BY <1>1, HeadTailProperties
<1> QED BY <1>1, <1>2 DEF BrowserPops

(* Each browser gets the messages from its connection on, once, in order   *)
(* and without a gap, up to where it is cut off (appendMessage, sendNext   *)
(* and the loops of customLoop in InfoLoggerDispatchBrowser).              *)
THEOREM BrowserStreams == BrowserSpec => []StreamUnbroken
<1> DEFINE N == Nat \union {Cut}
<1>1. BrowserInit => BrowserInv
  <2> SUFFICES ASSUME BrowserInit PROVE BrowserInv
    OBVIOUS
  <2>1. OnlineInv(N)
    BY OnlineStarts DEF BrowserInit
  <2> QED BY <2>1, EmptySeq DEF BrowserInit, BrowserInv, OnlineInit
<1>2. BrowserInv /\ [BrowserNext]_browserVars => BrowserInv'
  <2> SUFFICES ASSUME BrowserInv, [BrowserNext]_browserVars PROVE BrowserInv'
    OBVIOUS
  <2>1. /\ OnlineInv(N) /\ next \in 0 .. maxClients
        /\ received \in Nat /\ input \in Seq(Nat) /\ inLoop \in BOOLEAN
        /\ inLoop => next = 0
        /\ ~inLoop => input # <<>>
    BY DEF BrowserInv, OnlineInv, OnlineTypeOK
  <2>2. CASE PushOnline
    <3>1. received + 1 \in Nat /\ received' = received + 1
          /\ UNCHANGED <<onlineVars, inLoop>>
          /\ input' \in {input, Append(input, received + 1)}
      BY <2>1, <2>2 DEF PushOnline
    <3>2. Append(input, received + 1) \in Seq(Nat) /\ Append(input, received + 1) # <<>>
      BY <2>1, <3>1, AppendProperties
    <3>3. OnlineInv(N)' /\ next' = next
      BY <2>1, <3>1, OnlineStays DEF onlineVars, roundVars
    <3> QED BY <2>1, <3>1, <3>2, <3>3 DEF BrowserInv
  <2>3. CASE BrowserLoop
    <3>1. /\ inLoop /\ Serve /\ inLoop' = (input = <<>>)
          /\ UNCHANGED <<received, input, next>>
      BY <2>3 DEF BrowserLoop, Serve, inputVars, roundVars
    <3>2. OnlineInv(N)'
      BY <2>1, <3>1, ServeKeeps
    <3> QED BY <2>1, <3>1, <3>2 DEF BrowserInv
  <2>4. CASE BrowserSkips
    <3>1. ~inLoop /\ next = 0 /\ BrowserPops /\ UNCHANGED onlineVars
      BY <2>4 DEF BrowserSkips
    <3>2. OnlineInv(N)' /\ next' = 0
      BY <2>1, <3>1, OnlineStays DEF onlineVars, roundVars
    <3> QED BY <3>1, <3>2, BrowserPopsKeeps DEF BrowserInv
  <2>5. CASE BrowserBegins
    <3>1. ~inLoop /\ Offer(Head(input)) /\ UNCHANGED <<received, input, inLoop>>
      BY <2>5 DEF BrowserBegins, inputVars
    <3>2. Head(input) \in N
      BY <2>1, <3>1, HeadTailProperties
    <3>3. OnlineInv(N)'
      BY <2>1, <3>1, <3>2, OfferKeeps
    <3> QED BY <2>1, <3>1, <3>3 DEF BrowserInv
  <2>6. CASE BrowserSends
    <3>1. SendNext /\ next # 0
      BY <2>6 DEF BrowserSends, SendNext
    <3>2. OnlineInv(N)' /\ ~inLoop
      BY <2>1, <3>1, SendKeeps
    <3>3. CASE next' = 0
      <4>1. BrowserPops
        BY <2>6, <3>3 DEF BrowserSends
      <4> QED BY <3>2, <3>3, <4>1, BrowserPopsKeeps DEF BrowserInv
    <3>4. CASE next' # 0
      <4>1. UNCHANGED <<received, input, inLoop>>
        BY <2>6, <3>4 DEF BrowserSends, inputVars
      <4> QED BY <2>1, <3>2, <4>1 DEF BrowserInv
    <3> QED BY <3>3, <3>4
  <2>7. CASE Peers /\ UNCHANGED <<inputVars, inLoop>>
    <3>1. OnlineInv(N)'
      BY <2>1, <2>7, PeersKeep
    <3>2. next' = next
      BY <2>7 DEF Peers, roundVars
    <3> QED BY <2>1, <2>7, <3>1, <3>2 DEF BrowserInv, inputVars
  <2>8. CASE UNCHANGED browserVars
    <3>1. OnlineInv(N)' /\ next' = next
      BY <2>1, <2>8, OnlineStays DEF browserVars, onlineVars, roundVars
    <3> QED BY <2>1, <2>8, <3>1 DEF BrowserInv, browserVars, inputVars
  <2> QED BY <2>2, <2>3, <2>4, <2>5, <2>6, <2>7, <2>8 DEF BrowserNext, BrowserStep
<1>3. BrowserInv => StreamUnbroken
  BY StreamedUnbroken DEF BrowserInv
<1> QED BY <1>1, <1>2, <1>3, PTL DEF BrowserSpec

-----------------------------------------------------------------------------
(* The engine for statistics: a round goes on only while it publishes.     *)
StatsInv ==
  /\ \E S : OnlineInv(S)
  /\ at # "publish" => next = 0

(* Each client of the statistics gets the reports from its connection on,  *)
(* once, in order and without a gap, up to where it is cut off (customLoop *)
(* of InfoLoggerDispatchStats).                                            *)
THEOREM StatisticsStream == StatsSpec => []StreamUnbroken
<1>1. StatsInit => StatsInv
  <2> SUFFICES ASSUME StatsInit PROVE StatsInv
    OBVIOUS
  <2>1. OnlineInv({0, Cut})
    BY OnlineStarts DEF StatsInit
  <2> QED BY <2>1 DEF StatsInit, StatsInv, OnlineInit
<1>2. StatsInv /\ [StatsNext]_statsVars => StatsInv'
  <2> SUFFICES ASSUME StatsInv, [StatsNext]_statsVars PROVE StatsInv'
    OBVIOUS
  <2>1. PICK S : OnlineInv(S)
    BY DEF StatsInv
  <2>2. at # "publish" => next = 0
    BY DEF StatsInv
  <2>3. CASE UNCHANGED onlineVars /\ (at' = at \/ at = "window")
    <3>1. OnlineInv(S)' /\ next' = next
      BY <2>1, <2>3, OnlineStays DEF onlineVars, roundVars
    <3> QED BY <2>2, <2>3, <3>1 DEF StatsInv
  <2>4. CASE StatsLoop
    <3>1. at # "publish" /\ Serve /\ next' = next
      BY <2>4 DEF StatsLoop, Serve, roundVars
    <3>2. OnlineInv(S)'
      BY <2>1, <2>2, <3>1, ServeKeeps
    <3> QED BY <2>2, <3>1, <3>2 DEF StatsInv
  <2>5. CASE at = "publish" /\ at' = at /\ Offer(Total)
    <3>1. PICK x : x = Total
      OBVIOUS
    <3> DEFINE T == S \union {x}
    <3>2. OnlineInv(T)
      BY <2>1, OnlineWidens
    <3>3. OnlineInv(T)'
      BY <2>5, <3>1, <3>2, OfferKeeps
    <3> QED BY <2>5, <3>3 DEF StatsInv
  <2>6. CASE SendNext /\ at' = IF next' = 0 THEN "window" ELSE at
    <3>1. OnlineInv(S)'
      BY <2>1, <2>6, SendKeeps
    <3>2. at = "publish"
      BY <2>2, <2>6 DEF SendNext
    <3> QED BY <2>6, <3>1, <3>2 DEF StatsInv
  <2>7. CASE Peers /\ at' = at
    <3>1. OnlineInv(S)'
      BY <2>1, <2>7, PeersKeep
    <3> QED BY <2>2, <2>7, <3>1 DEF StatsInv, Peers, roundVars
  <2>8. CASE Tick
    BY <2>3, <2>8 DEF Tick
  <2>9. CASE StatsPublish
    BY <2>5, <2>6, <2>9 DEF StatsPublish
  <2>10. CASE StatsWindow
    BY <2>3, <2>10 DEF StatsWindow
  <2>11. CASE StatsCount
    BY <2>3, <2>11 DEF StatsCount
  <2>12. CASE Peers /\ UNCHANGED <<clock, timeVars, windows, at, counted>>
    BY <2>7, <2>12
  <2>13. CASE UNCHANGED statsVars
    BY <2>3, <2>13 DEF statsVars
  <2> QED BY <2>4, <2>8, <2>9, <2>10, <2>11, <2>12, <2>13 DEF StatsNext
<1>3. StatsInv => StreamUnbroken
  BY StreamedUnbroken DEF StatsInv
<1> QED BY <1>1, <1>2, <1>3, PTL DEF StatsSpec

-----------------------------------------------------------------------------
(* The windows of the statistics.                                          *)
FieldCounts == [Index -> Seq({Key(m, i) : m \in StatsMessage, i \in Index})]
Window == [timeBegin : Nat, timeEnd : Nat, totalMessages : Nat, fieldCounts : FieldCounts]

Tiles(ws) ==
  \A i \in 1 .. Len(ws) :
    /\ ws[i].timeBegin < ws[i].timeEnd
    /\ i < Len(ws) => ws[i].timeEnd = ws[i + 1].timeBegin

(* The times of windows are numbers.                                       *)
LEMMA WindowTimes ==
  ASSUME NEW ws \in Seq(Window)
  PROVE  /\ Len(ws) \in Nat
         /\ \A k \in 1 .. Len(ws) :
              ws[k] \in Window /\ ws[k].timeBegin \in Nat /\ ws[k].timeEnd \in Nat
<1>1. \A k \in 1 .. Len(ws) : ws[k] \in Window
  BY ElementOfSeq
<1>2. \A w \in Window : w.timeBegin \in Nat /\ w.timeEnd \in Nat
  BY DEF Window
<1>3. Len(ws) \in Nat
  BY LenProperties
<1> QED BY <1>1, <1>2, <1>3

(* Windows that tile end in order.                                         *)
LEMMA TilesEnd ==
  ASSUME NEW ws \in Seq(Window), Tiles(ws),
         NEW i \in 1 .. Len(ws), NEW j \in 1 .. Len(ws), i <= j
  PROVE  ws[i].timeEnd <= ws[j].timeEnd
<1> DEFINE T == {d \in Nat : i + d <= Len(ws) => ws[i].timeEnd <= ws[i + d].timeEnd}
<1>1. Len(ws) \in Nat /\ \A k \in 1 .. Len(ws) : ws[k].timeBegin \in Nat /\ ws[k].timeEnd \in Nat
  BY WindowTimes
<1>2. 0 \in T
  BY <1>1
<1>3. ASSUME NEW d \in Nat, d \in T PROVE d + 1 \in T
  <2> SUFFICES ASSUME i + (d + 1) <= Len(ws) PROVE ws[i].timeEnd <= ws[i + (d + 1)].timeEnd
    OBVIOUS
  <2> DEFINE k == i + d
  <2>1. k \in 1 .. Len(ws) /\ k < Len(ws) /\ k + 1 \in 1 .. Len(ws) /\ i + (d + 1) = k + 1
    BY <1>1
  <2>2. ws[i].timeEnd <= ws[k].timeEnd
    BY <1>3, <2>1
  <2> HIDE DEF k
  <2>3. ws[k].timeEnd = ws[k + 1].timeBegin /\ ws[k + 1].timeBegin < ws[k + 1].timeEnd
    BY <2>1 DEF Tiles
  <2>4. ws[i].timeEnd <= ws[k + 1].timeEnd
    BY <1>1, <2>1, <2>2, <2>3
  <2> QED BY <2>1, <2>4
<1> HIDE DEF T
<1>4. j - i \in Nat /\ i + (j - i) = j
  BY <1>1
<1>5. j - i \in T
  BY <1>2, <1>3, <1>4, InductionOnNat
<1> QED BY <1>1, <1>4, <1>5 DEF T

(* So those that ended too long ago are the first ones.                    *)
LEMMA OldFirst ==
  ASSUME NEW ws \in Seq(Window), Tiles(ws), NEW n \in Int
  PROVE  \E k \in 0 .. Len(ws) : \A i \in 1 .. Len(ws) : ws[i].timeEnd < n <=> i <= k
<1>1. Len(ws) \in Nat /\ \A k \in 1 .. Len(ws) : ws[k].timeEnd \in Nat
  BY WindowTimes
<1> DEFINE T == {i \in 1 .. Len(ws) + 1 : i = Len(ws) + 1 \/ ~ (ws[i].timeEnd < n)}
<1>2. T \in SUBSET Nat /\ T # {}
  BY <1>1
<1>3. PICK x \in T : \A y \in T : x <= y
  BY <1>2, LeastNatural
<1>4. x \in 1 .. Len(ws) + 1 /\ x - 1 \in 0 .. Len(ws)
  BY <1>1, <1>3
<1>5. ASSUME NEW i \in 1 .. Len(ws) PROVE ws[i].timeEnd < n <=> i <= x - 1
  <2>1. CASE i < x
    <3>1. i \notin T /\ i \in 1 .. Len(ws) + 1
      BY <1>1, <1>3, <1>4, <2>1
    <3> QED BY <1>4, <2>1, <3>1
  <2>2. CASE x <= i
    <3>1. x \in 1 .. Len(ws) /\ ~ (ws[x].timeEnd < n)
      BY <1>1, <1>3, <1>4, <2>2
    <3>2. ws[x].timeEnd <= ws[i].timeEnd
      BY <2>2, <3>1, TilesEnd
    <3>3. ~ (ws[i].timeEnd < n) /\ ~ (i <= x - 1)
      BY <1>1, <1>4, <2>2, <3>1, <3>2
    <3> QED BY <3>3
  <2> QED BY <1>4, <2>1, <2>2
<1> QED BY <1>4, <1>5

(* u is what is left of v without its first k windows, which were old.     *)
Left(u, v, k, n) ==
  /\ Len(u) = Len(v) - k /\ \A j \in 1 .. Len(u) : u[j] = v[k + j]
  /\ \A j \in 1 .. k : v[j].timeEnd < n

(* What is forgotten are the first windows, but not the last one unless it *)
(* is old.                                                                 *)
LEMMA ForgotFirst ==
  ASSUME NEW ws \in Seq(Window), Tiles(ws), ws # <<>>, now \in Nat,
         ws[Len(ws)].timeEnd >= now - maxHistory
  PROVE  /\ Forgot(ws) \in Seq(Window)
         /\ \E k \in 0 .. Len(ws) : k < Len(ws) /\ Left(Forgot(ws), ws, k, now - maxHistory)
<1> DEFINE n == now - maxHistory
<1>1. n \in Int
  BY StatsAssumption
<1> HIDE DEF n
<1>2. PICK k \in 0 .. Len(ws) : \A i \in 1 .. Len(ws) : ws[i].timeEnd < n <=> i <= k
  BY <1>1, OldFirst
<1> DEFINE gone == {i \in DOMAIN ws : ws[i].timeEnd < n}  u == SubSeq(ws, k + 1, Len(ws))
<1>3. DOMAIN ws = 1 .. Len(ws) /\ Len(ws) \in Nat \ {0}
  OBVIOUS
<1>4. \A i \in 1 .. Len(ws) : i \in gone <=> i <= k
  BY <1>2, <1>3
<1>5. Forgot(ws) = Erased(ws, gone)
  BY DEF Forgot, n
<1>6. Forgot(ws) = u
  <2> HIDE DEF gone
  <2> QED BY <1>4, <1>5, ErasedFirst
<1>7. ws[Len(ws)].timeEnd \in Nat /\ ~ (ws[Len(ws)].timeEnd < n)
  <2>1. ws[Len(ws)].timeEnd \in Nat
    BY <1>3, WindowTimes
  <2> QED BY <1>1, <2>1 DEF n
<1>8. k < Len(ws)
  BY <1>2, <1>3, <1>7
<1>9. /\ u \in Seq(Window) /\ Len(u) = Len(ws) - k
      /\ \A i \in 1 .. Len(u) : u[i] = ws[k + i]
  <2>1. k + 1 \in Int /\ Len(ws) \in Int /\ k + 1 <= Len(ws)
    BY <1>3, <1>8
  <2>2. \A i \in k + 1 .. Len(ws) : ws[i] \in Window
    BY <1>3
  <2>3. /\ u \in Seq(Window)
        /\ Len(u) = IF k + 1 <= Len(ws) THEN Len(ws) - (k + 1) + 1 ELSE 0
        /\ \A i \in 1 .. Len(ws) - (k + 1) + 1 : u[i] = ws[(k + 1) + i - 1]
    BY <2>1, <2>2, SubSeqProperties
  <2> HIDE DEF u
  <2>4. Len(u) = Len(ws) - k
    BY <1>3, <2>1, <2>3
  <2>5. ASSUME NEW i \in 1 .. Len(u) PROVE u[i] = ws[k + i]
    <3>1. i \in 1 .. Len(ws) - (k + 1) + 1 /\ (k + 1) + i - 1 = k + i
      BY <1>3, <2>4
    <3> QED BY <2>3, <3>1
  <2> QED BY <2>3, <2>4, <2>5
<1> HIDE DEF u
<1>10. \A j \in 1 .. k : ws[j].timeEnd < n
  BY <1>2, <1>3
<1>11. Left(u, ws, k, n)
  BY <1>9, <1>10 DEF Left
<1> QED BY <1>6, <1>8, <1>9, <1>11 DEF n

(* What is left when the old windows are erased tiles, and the last window *)
(* is left.                                                                *)
LEMMA ForgotTiles ==
  ASSUME NEW ws \in Seq(Window), Tiles(ws), ws # <<>>, now \in Nat,
         ws[Len(ws)].timeEnd >= now - maxHistory
  PROVE  /\ Forgot(ws) \in Seq(Window) /\ Tiles(Forgot(ws)) /\ Forgot(ws) # <<>>
         /\ Forgot(ws)[Len(Forgot(ws))] = ws[Len(ws)]
<1> DEFINE u == Forgot(ws)
<1> HIDE DEF u
<1>2. PICK k \in 0 .. Len(ws) : k < Len(ws) /\ Left(u, ws, k, now - maxHistory)
  BY ForgotFirst DEF u
<1>3. Len(ws) \in Nat \ {0}
  BY EmptySeq
<1>6. u = Forgot(ws)
  BY DEF u
<1>8. k < Len(ws)
  BY <1>2
<1>9. /\ u \in Seq(Window) /\ Len(u) = Len(ws) - k
      /\ \A i \in 1 .. Len(u) : u[i] = ws[k + i]
  BY <1>2, ForgotFirst DEF Left, u
<1>10. Len(u) \in Nat \ {0} /\ u[Len(u)] = ws[Len(ws)]
  <2> DEFINE j == Len(u)
  <2>1. Len(ws) - k \in Nat \ {0} /\ k + (Len(ws) - k) = Len(ws)
    <3>1. \A l \in Nat : \A m \in 0 .. l : m < l => l - m \in Nat \ {0} /\ m + (l - m) = l
      OBVIOUS
    <3> QED BY <1>3, <1>8, <3>1
  <2>2. j \in Nat \ {0} /\ k + j = Len(ws)
    BY <1>9, <2>1
  <2>3. u[j] = ws[k + j]
    BY <1>9, <2>2
  <2> QED BY <2>2, <2>3, SMTT(30)
<1>11. ASSUME NEW i \in 1 .. Len(u)
       PROVE  /\ u[i].timeBegin < u[i].timeEnd
              /\ i < Len(u) => u[i].timeEnd = u[i + 1].timeBegin
  <2>1. k + i \in 1 .. Len(ws) /\ (i < Len(u) => k + i < Len(ws) /\ i + 1 \in 1 .. Len(u))
    BY <1>3, <1>8, <1>9
  <2>2. u[i] = ws[k + i]
    BY <1>9
  <2>3. ASSUME i < Len(u) PROVE u[i + 1] = ws[(k + i) + 1]
    <3> DEFINE j == i + 1
    <3>1. j \in 1 .. Len(u) /\ k + j = (k + i) + 1
      BY <2>1, <2>3
    <3>2. u[j] = ws[k + j]
      <4> HIDE DEF j
      <4> QED BY <1>9, <3>1
    <3> QED BY <3>1, <3>2
  <2> QED BY <2>1, <2>2, <2>3 DEF Tiles
<1>12. u # <<>>
  BY <1>10
<1> QED BY <1>6, <1>9, <1>10, <1>11, <1>12 DEF Tiles

(* The invariant: the last window began at the last reset.                 *)
TileInv ==
  /\ clock \in Nat /\ now \in Nat /\ lastTimeReset \in Nat
  /\ windows \in Seq(Window)
  /\ windows # <<>> => lastTimeReset = windows[Len(windows)].timeBegin
  /\ Tiles(windows)

(* v is ws, with its last window closed and an empty one behind it.        *)
Closed(v, ws) ==
  /\ Len(v) = Len(ws) + 1
  /\ \A j \in 1 .. Len(ws) :
       /\ v[j].timeBegin = ws[j].timeBegin /\ v[j].totalMessages = ws[j].totalMessages
       /\ v[j].fieldCounts = ws[j].fieldCounts
       /\ v[j].timeEnd = IF j = Len(ws) THEN now ELSE ws[j].timeEnd
  /\ v[Len(ws) + 1] = NewWindow

(* A window is closed and another one begins; then old ones are forgotten. *)
LEMMA ResetCloses ==
  ASSUME TileInv, Reset, now - lastTimeReset >= resetInterval \/ windows = <<>>
  PROVE  \E ws \in Seq(Window) :
           /\ windows' = Forgot(ws) /\ Tiles(ws) /\ ws # <<>> /\ ws[Len(ws)] = NewWindow
           /\ ws[Len(ws)].timeEnd >= now - maxHistory /\ Closed(ws, windows)
<1>1. /\ clock \in Nat /\ now \in Nat /\ lastTimeReset \in Nat
      /\ windows \in Seq(Window) /\ Tiles(windows)
  BY DEF TileInv
<1>2. resetInterval \in Nat \ {0} /\ maxHistory \in Nat
  BY StatsAssumption
<1> DEFINE closed == IF windows = <<>> THEN <<>>
                     ELSE [windows EXCEPT ![Len(windows)].timeEnd = now]
           ws == Append(closed, NewWindow)
<1>3. NewWindow \in Window /\ NewWindow.timeBegin = now /\ NewWindow.timeEnd = now + resetInterval
  BY <1>1, <1>2, EmptySeq DEF NewWindow, Window, FieldCounts
<1>4. /\ closed \in Seq(Window) /\ Len(closed) = Len(windows)
      /\ \A i \in 1 .. Len(closed) :
           /\ closed[i].timeBegin = windows[i].timeBegin
           /\ closed[i].timeEnd = IF i = Len(windows) THEN now ELSE windows[i].timeEnd
           /\ closed[i].totalMessages = windows[i].totalMessages
           /\ closed[i].fieldCounts = windows[i].fieldCounts
  <2>1. CASE windows = <<>>
    BY <2>1, EmptySeq
  <2>2. CASE windows # <<>>
    <3> DEFINE l == Len(windows)  e == [windows[l] EXCEPT !.timeEnd = now]
    <3>1. l \in 1 .. Len(windows) /\ windows[l] \in Window
      BY <1>1, <2>2
    <3>2. /\ e \in Window /\ e.timeBegin = windows[l].timeBegin /\ e.timeEnd = now
          /\ e.totalMessages = windows[l].totalMessages
          /\ e.fieldCounts = windows[l].fieldCounts
      BY <1>1, <3>1 DEF Window
    <3>3. closed = [windows EXCEPT ![l] = e]
      BY <2>2
    <3> HIDE DEF e, closed
    <3>4. /\ closed \in Seq(Window) /\ Len(closed) = Len(windows)
          /\ \A i \in 1 .. Len(windows) : closed[i] = IF i = l THEN e ELSE windows[i]
      BY <1>1, <3>1, <3>2, <3>3, ExceptSeq
    <3> QED BY <3>2, <3>4
  <2> QED BY <2>1, <2>2
<1> HIDE DEF closed
<1>5. /\ ws \in Seq(Window) /\ Len(ws) = Len(closed) + 1 /\ ws[Len(closed) + 1] = NewWindow
      /\ \A i \in 1 .. Len(closed) : ws[i] = closed[i]
  BY <1>3, <1>4, AppendProperties
<1>6. windows' = Forgot(ws) /\ lastTimeReset' = now
  BY DEF Reset, closed
<1> HIDE DEF ws
<1>7. Len(windows) \in Nat /\ \A i \in 1 .. Len(windows) : windows[i].timeBegin \in Nat
  BY <1>1, WindowTimes
<1>8. windows # <<>> => windows[Len(windows)].timeBegin < now
  BY <1>1, <1>2 DEF TileInv
<1>9. ASSUME NEW i \in 1 .. Len(ws)
      PROVE  /\ ws[i].timeBegin < ws[i].timeEnd
             /\ i < Len(ws) => ws[i].timeEnd = ws[i + 1].timeBegin
  <2>1. CASE i < Len(windows)
    <3>1. /\ i \in 1 .. Len(closed) /\ i + 1 \in 1 .. Len(closed)
          /\ i \in 1 .. Len(windows) /\ i # Len(windows)
      BY <1>4, <1>7, <2>1
    <3>2. /\ ws[i].timeBegin = windows[i].timeBegin /\ ws[i].timeEnd = windows[i].timeEnd
          /\ ws[i + 1].timeBegin = windows[i + 1].timeBegin
      BY <1>4, <1>5, <3>1
    <3> QED BY <1>1, <2>1, <3>1, <3>2 DEF Tiles
  <2>2. CASE i = Len(windows)
    <3>1. i \in 1 .. Len(closed) /\ windows # <<>>
      BY <1>4, <1>7, <2>2
    <3>2. ws[i].timeBegin = windows[i].timeBegin /\ ws[i].timeEnd = now
      BY <1>4, <1>5, <2>2, <3>1
    <3>3. ws[i + 1] = NewWindow
      BY <1>4, <1>5, <2>2
    <3> QED BY <1>3, <1>8, <2>2, <3>1, <3>2, <3>3
  <2>3. CASE i > Len(windows)
    <3>1. i = Len(ws) /\ ws[i] = NewWindow
      BY <1>4, <1>5, <1>7, <2>3
    <3> QED BY <1>1, <1>2, <1>3, <3>1
  <2> QED BY <1>7, <2>1, <2>2, <2>3
<1>10. Tiles(ws)
  BY <1>9 DEF Tiles
<1>11. ws # <<>> /\ ws[Len(ws)] = NewWindow
  BY <1>4, <1>5, <1>7
<1>12. ws[Len(ws)].timeEnd >= now - maxHistory
  BY <1>1, <1>2, <1>3, <1>11
<1>13. Closed(ws, windows)
  <2>1. Len(ws) = Len(windows) + 1 /\ ws[Len(windows) + 1] = NewWindow
    BY <1>4, <1>5
  <2>2. \A j \in 1 .. Len(windows) : ws[j] = closed[j] /\ j \in 1 .. Len(closed)
    BY <1>4, <1>5
  <2> QED BY <1>4, <2>1, <2>2 DEF Closed
<1> QED BY <1>5, <1>6, <1>10, <1>11, <1>12, <1>13

LEMMA ResetTiles ==
  ASSUME TileInv, Reset, now - lastTimeReset >= resetInterval \/ windows = <<>>,
         UNCHANGED <<clock, now>>
  PROVE  TileInv'
<1>1. clock \in Nat /\ now \in Nat
  BY DEF TileInv
<1>2. PICK ws \in Seq(Window) :
        /\ windows' = Forgot(ws) /\ Tiles(ws) /\ ws # <<>> /\ ws[Len(ws)] = NewWindow
        /\ ws[Len(ws)].timeEnd >= now - maxHistory
  BY ResetCloses
<1>3. NewWindow.timeBegin = now
  BY DEF NewWindow
<1>6. lastTimeReset' = now
  BY DEF Reset
<1>13. /\ Forgot(ws) \in Seq(Window) /\ Tiles(Forgot(ws))
       /\ Forgot(ws)[Len(Forgot(ws))] = NewWindow
  BY <1>1, <1>2, ForgotTiles
<1> DEFINE fs == Forgot(ws)
<1> HIDE DEF fs
<1>14. fs \in Seq(Window) /\ Tiles(fs) /\ fs[Len(fs)] = NewWindow /\ windows' = fs
  BY <1>2, <1>13 DEF fs
<1> QED BY <1>1, <1>3, <1>6, <1>14 DEF TileInv, Tiles

(* A message is counted in the last window: no time changes.               *)
LEMMA CountTiles ==
  ASSUME TileInv, StatsCount
  PROVE  TileInv'
<1>1. /\ clock \in Nat /\ now \in Nat /\ lastTimeReset \in Nat
      /\ windows \in Seq(Window) /\ Tiles(windows)
      /\ windows # <<>> => lastTimeReset = windows[Len(windows)].timeBegin
  BY DEF TileInv
<1> DEFINE l == Len(windows)
<1>2. /\ UNCHANGED <<clock, now, lastTimeReset>>
      /\ \E m \in StatsMessage : windows' = [windows EXCEPT ![l] = Counted(@, m)]
  BY DEF StatsCount, timeVars
<1>3. PICK m \in StatsMessage : windows' = [windows EXCEPT ![l] = Counted(@, m)]
  BY <1>2
<1>4. CASE windows = <<>>
  <2>1. windows' = <<>>
    BY <1>3, <1>4
  <2> QED BY <1>1, <1>2, <1>4, <2>1 DEF TileInv
<1>5. CASE windows # <<>>
  <2> DEFINE w == windows[l]  e == Counted(w, m)  v == windows'
  <2>1. l \in 1 .. Len(windows) /\ w \in Window
    BY <1>1, <1>5
  <2>2. e \in Window /\ e.timeBegin = w.timeBegin /\ e.timeEnd = w.timeEnd
    <3> HIDE DEF w
    <3>1. w.fieldCounts \in FieldCounts /\ w.totalMessages + 1 \in Nat
      BY <2>1 DEF Window
    <3> DEFINE fc == [i \in Index |->
          IF Complete(m, i) THEN Append(w.fieldCounts[i], Key(m, i)) ELSE w.fieldCounts[i]]
    <3>2. fc \in FieldCounts
      <4> DEFINE K == {Key(mm, i) : mm \in StatsMessage, i \in Index}
      <4>1. ASSUME NEW i \in Index
            PROVE  /\ w.fieldCounts[i] \in Seq(K)
                   /\ Append(w.fieldCounts[i], Key(m, i)) \in Seq(K)
        <5>1. w.fieldCounts[i] \in Seq(K)
          BY <3>1 DEF FieldCounts
        <5>2. Key(m, i) \in K
          OBVIOUS
        <5> HIDE DEF K
        <5> QED BY <5>1, <5>2, AppendProperties
      <4> QED BY <4>1 DEF FieldCounts
    <3>3. e = [w EXCEPT !.totalMessages = @ + 1, !.fieldCounts = fc]
      BY DEF Counted
    <3> HIDE DEF fc
    <3>4. e = [[w EXCEPT !.totalMessages = w.totalMessages + 1] EXCEPT !.fieldCounts = fc]
      BY <3>3
    <3> HIDE DEF e
    <3> QED BY <2>1, <3>1, <3>2, <3>4 DEF Window
  <2>3. v = [windows EXCEPT ![l] = e]
    BY <1>3
  <2> HIDE DEF e, v
  <2>4. /\ v \in Seq(Window) /\ Len(v) = Len(windows)
        /\ \A i \in 1 .. Len(windows) : v[i] = IF i = l THEN e ELSE windows[i]
    BY <1>1, <2>1, <2>2, <2>3, ExceptSeq
  <2>5. ASSUME NEW i \in 1 .. Len(v)
        PROVE  v[i].timeBegin = windows[i].timeBegin /\ v[i].timeEnd = windows[i].timeEnd
    BY <2>2, <2>4
  <2>6. Tiles(v)
    <3>1. Len(v) \in Nat /\ \A i \in 1 .. Len(v) : i < Len(v) => i + 1 \in 1 .. Len(v)
      BY <2>1, <2>4
    <3> QED BY <1>1, <2>4, <2>5, <3>1 DEF Tiles
  <2>7. lastTimeReset = v[Len(v)].timeBegin
    BY <1>1, <1>5, <2>1, <2>4, <2>5
  <2> QED BY <1>1, <1>2, <2>4, <2>6, <2>7 DEF TileInv, v
<1> QED BY <1>4, <1>5

(* Every step of the engine keeps them in order.                           *)
LEMMA TilesKept ==
  ASSUME TileInv, [StatsNext]_statsVars
  PROVE  TileInv'
<1> USE DEF timeVars
<1>1. CASE /\ clock' \in Nat /\ now' \in {now, clock}
           /\ UNCHANGED <<lastTimeReset, windows>>
  BY <1>1 DEF TileInv, Tiles
<1>2. CASE Tick
  BY <1>1, <1>2 DEF Tick, TileInv
<1>3. CASE StatsLoop
  BY <1>1, <1>3 DEF StatsLoop, TileInv
<1>4. CASE StatsPublish
  BY <1>1, <1>4 DEF StatsPublish, TileInv
<1>5. CASE StatsWindow
  <2>1. UNCHANGED <<clock, now>>
    BY <1>5 DEF StatsWindow
  <2>2. CASE now - lastTimeReset >= resetInterval \/ windows = <<>>
    <3>1. Reset
      BY <1>5, <2>2 DEF StatsWindow
    <3> QED BY <2>1, <2>2, <3>1, ResetTiles
  <2>3. CASE ~ (now - lastTimeReset >= resetInterval \/ windows = <<>>)
    <3>1. UNCHANGED <<lastTimeReset, windows>>
      BY <1>5, <2>3 DEF StatsWindow
    <3> QED BY <1>1, <2>1, <3>1 DEF TileInv
  <2> QED BY <2>2, <2>3
<1>6. CASE StatsCount
  BY <1>6, CountTiles
<1>7. CASE Peers /\ UNCHANGED <<clock, timeVars, windows, at, counted>>
  BY <1>1, <1>7 DEF TileInv
<1>8. CASE UNCHANGED statsVars
  BY <1>1, <1>8 DEF statsVars, TileInv
<1> QED BY <1>2, <1>3, <1>4, <1>5, <1>6, <1>7, <1>8 DEF StatsNext

(* Every second since the beginning of the oldest window belongs to one of *)
(* the windows, and to one only (customLoop of InfoLoggerDispatchStats).   *)
THEOREM WindowsInStep == StatsSpec => []WindowsTile
<1>1. StatsInit => TileInv
  BY StatsAssumption, EmptySeq DEF StatsInit, TileInv, Tiles, Epoch
<1>2. TileInv /\ [StatsNext]_statsVars => TileInv'
  BY TilesKept
<1>3. TileInv => WindowsTile
  BY DEF TileInv, Tiles, WindowsTile
<1> QED BY <1>1, <1>2, <1>3, PTL DEF StatsSpec

-----------------------------------------------------------------------------
(* What was counted, and what a window has of some of it.                  *)
Counts == [fields : StatsMessage, time : Nat]

(* Nothing was counted.                                                    *)
LEMMA KeysOfNone ==
  ASSUME NEW i
  PROVE  Keys(<<>>, i) = <<>>
<1> DEFINE gone == {k \in DOMAIN <<>> : ~Complete(<<>>[k].fields, i)}
           e == Erased(<<>>, gone)
<1>1. e \in Seq({})
  <2>1. <<>> \in Seq({})
    BY EmptySeq
  <2> HIDE DEF gone
  <2> QED BY <2>1, ErasedType
<1>2. \A k \in 1 .. Len(e) : FALSE
  <2> HIDE DEF e
  <2> QED BY <1>1, ElementOfSeq
<1>3. Len(e) = 0
  <2> HIDE DEF e
  <2>1. Len(e) \in Nat
    BY <1>1, LenProperties
  <2> QED BY <1>2, <2>1
<1>4. Keys(<<>>, i) = [k \in 1 .. Len(e) |-> Key(e[k].fields, i)]
  BY DEF Keys
<1> HIDE DEF e
<1>5. 1 .. Len(e) = {}
  BY <1>3
<1> QED BY <1>4, <1>5

(* One more message is counted under its key, if that is complete.         *)
LEMMA KeysOfMore ==
  ASSUME NEW s \in Seq(Counts), NEW x \in Counts, NEW i
  PROVE  Keys(Append(s, x), i) =
           IF Complete(x.fields, i) THEN Append(Keys(s, i), Key(x.fields, i)) ELSE Keys(s, i)
<1> DEFINE t == Append(s, x)
           gone == {k \in DOMAIN s : ~Complete(s[k].fields, i)}
           lost == {k \in DOMAIN t : ~Complete(t[k].fields, i)}
           e == Erased(s, gone)
           f == Erased(t, lost)
<1>1. /\ Len(s) \in Nat /\ Len(t) = Len(s) + 1 /\ t[Len(s) + 1] = x /\ t \in Seq(Counts)
      /\ \A k \in 1 .. Len(s) : t[k] = s[k]
  BY AppendProperties
<1>2. DOMAIN s = 1 .. Len(s) /\ DOMAIN t = 1 .. Len(s) + 1
  <2> HIDE DEF t
  <2> QED BY <1>1
<1>3. \A k \in 1 .. Len(s) : k \in lost <=> k \in gone
  <2> HIDE DEF t
  <2> QED BY <1>1, <1>2
<1>4. Len(s) + 1 \in lost <=> ~Complete(x.fields, i)
  <2> HIDE DEF t
  <2> QED BY <1>1, <1>2
<1>5. e \in Seq(Counts)
  <2> HIDE DEF gone
  <2> QED BY ErasedType
<1>6. f = IF Len(s) + 1 \in lost THEN e ELSE Append(e, x)
  <2> HIDE DEF gone, lost
  <2> QED BY <1>3, ErasedAppend
<1>7. Keys(s, i) = [k \in 1 .. Len(e) |-> Key(e[k].fields, i)]
  BY DEF Keys
<1>8. Keys(t, i) = [k \in 1 .. Len(f) |-> Key(f[k].fields, i)]
  BY DEF Keys
<1> HIDE DEF e, f, gone, lost
<1>9. CASE ~Complete(x.fields, i)
  <2>1. f = e
    BY <1>4, <1>6, <1>9
  <2>2. Keys(t, i) = Keys(s, i)
    BY <1>7, <1>8, <2>1
  <2> QED BY <1>9, <2>2 DEF t
<1>10. CASE Complete(x.fields, i)
  <2> DEFINE K == {Key(m, i) : m \in StatsMessage}
             p == [k \in 1 .. Len(e) |-> Key(e[k].fields, i)]
             q == [k \in 1 .. Len(f) |-> Key(f[k].fields, i)]
             y == Key(x.fields, i)
             r == Append(p, y)
             n == Len(e)
  <2>1. f = Append(e, x)
    BY <1>4, <1>6, <1>10
  <2>2. /\ n \in Nat /\ Len(f) = n + 1 /\ f[n + 1] = x /\ f \in Seq(Counts)
        /\ \A k \in 1 .. n : f[k] = e[k]
    BY <1>5, <2>1, AppendProperties
  <2>3. \A c \in Counts : Key(c.fields, i) \in K
    BY DEF Counts
  <2>4. p \in Seq(K) /\ Len(p) = n /\ \A k \in 1 .. n : p[k] = Key(e[k].fields, i)
    <3>1. \A k \in 1 .. n : Key(e[k].fields, i) \in K
      BY <1>5, <2>3, ElementOfSeq
    <3>2. p \in [1 .. n -> K]
      <4> HIDE DEF K
      <4> QED BY <3>1
    <3> HIDE DEF K
    <3> QED BY <2>2, <3>2
  <2>5. q \in Seq(K) /\ Len(q) = n + 1 /\ \A k \in 1 .. n + 1 : q[k] = Key(f[k].fields, i)
    <3>1. \A k \in 1 .. n + 1 : Key(f[k].fields, i) \in K
      BY <2>2, <2>3, ElementOfSeq
    <3>2. q \in [1 .. n + 1 -> K]
      <4> HIDE DEF K
      <4> QED BY <2>2, <3>1
    <3> HIDE DEF K
    <3> QED BY <2>2, <3>2
  <2>6. y \in K
    BY <2>3
  <2> HIDE DEF K, p, q, y, n
  <2>7. /\ r \in Seq(K) /\ Len(r) = n + 1 /\ r[n + 1] = y
        /\ \A k \in 1 .. n : r[k] = p[k]
    BY <2>4, <2>6, AppendProperties
  <2> HIDE DEF r
  <2>8. ASSUME NEW k \in 1 .. n + 1 PROVE q[k] = r[k]
    <3>1. CASE k = n + 1
      BY <2>2, <2>5, <2>7, <3>1 DEF y
    <3>2. CASE k # n + 1
      <4>1. k \in 1 .. n
        BY <2>2, <3>2
      <4> QED BY <2>2, <2>4, <2>5, <2>7, <4>1
    <3> QED BY <3>1, <3>2
  <2>9. q = r
    BY <2>5, <2>7, <2>8, SeqEqual
  <2> QED BY <1>7, <1>8, <1>10, <2>9 DEF p, q, r, y, t
<1> QED BY <1>9, <1>10

(* Where the messages of each window begin, f, and what a window has.      *)
Firsts(ws, cs) == [1 .. Len(ws) + 1 -> 1 .. Len(cs) + 1]
Holds(f, ws, cs, j) ==
  /\ f[j + 1] = f[j] + ws[j].totalMessages
  /\ \A k \in f[j] .. f[j + 1] - 1 :
       /\ ws[j].timeBegin <= cs[k].time
       /\ j < Len(ws) => cs[k].time <= ws[j].timeEnd
  /\ \A i \in Index : ws[j].fieldCounts[i] = Keys(SubSeq(cs, f[j], f[j + 1] - 1), i)
Divides(f, ws, cs, n) ==
  /\ f \in Firsts(ws, cs) /\ f[Len(ws) + 1] = Len(cs) + 1
  /\ \A k \in 1 .. f[1] - 1 : cs[k].time < n
  /\ \A j \in 1 .. Len(ws) : Holds(f, ws, cs, j)

(* The fields of windows and of counts.                                    *)
LEMMA WindowFields ==
  ASSUME NEW ws \in Seq(Window)
  PROVE  /\ Len(ws) \in Nat
         /\ \A j \in 1 .. Len(ws) :
              /\ ws[j] \in Window /\ ws[j].timeBegin \in Nat /\ ws[j].timeEnd \in Nat
              /\ ws[j].totalMessages \in Nat
<1>1. \A k \in 1 .. Len(ws) : ws[k] \in Window
  BY ElementOfSeq
<1>2. \A w \in Window : w.timeBegin \in Nat /\ w.timeEnd \in Nat /\ w.totalMessages \in Nat
  BY DEF Window
<1>3. Len(ws) \in Nat
  BY LenProperties
<1> QED BY <1>1, <1>2, <1>3

(* What was counted is a message and when.                                 *)
LEMMA CountFields ==
  ASSUME NEW cs \in Seq(Counts)
  PROVE  /\ Len(cs) \in Nat
         /\ \A k \in 1 .. Len(cs) : cs[k] \in Counts /\ cs[k].time \in Nat
<1>1. \A k \in 1 .. Len(cs) : cs[k] \in Counts
  BY ElementOfSeq
<1>2. \A c \in Counts : c.time \in Nat
  BY DEF Counts
<1>3. Len(cs) \in Nat
  BY LenProperties
<1> QED BY <1>1, <1>2, <1>3

(* The places where the windows begin, in what was counted.                *)
LEMMA FirstsFields ==
  ASSUME NEW ws \in Seq(Window), NEW cs \in Seq(Counts), NEW f \in Firsts(ws, cs)
  PROVE  \A j \in 1 .. Len(ws) + 1 : f[j] \in 1 .. Len(cs) + 1 /\ f[j] \in Nat
<1>1. Len(cs) \in Nat
  BY CountFields
<1> QED BY <1>1 DEF Firsts

(* As time goes on, more is old.                                           *)
LEMMA DividesLater ==
  ASSUME NEW ws \in Seq(Window), NEW cs \in Seq(Counts), NEW f, NEW n \in Int, NEW m \in Int,
         n <= m, Divides(f, ws, cs, n)
  PROVE  Divides(f, ws, cs, m)
<1>1. f \in Firsts(ws, cs)
  BY DEF Divides
<1>2. Len(cs) \in Nat /\ Len(ws) \in Nat /\ 1 \in 1 .. Len(ws) + 1
  BY CountFields, WindowFields
<1>3. f[1] \in 1 .. Len(cs) + 1
  BY <1>1, <1>2, FirstsFields
<1>4. ASSUME NEW k \in 1 .. f[1] - 1 PROVE cs[k].time < m
  <2>1. k \in 1 .. Len(cs)
    BY <1>2, <1>3
  <2>2. cs[k].time \in Nat /\ cs[k].time < n
    BY <2>1, CountFields DEF Divides
  <2> QED BY <2>2
<1> QED BY <1>4 DEF Divides

(* A new window has counted nothing.                                       *)
LEMMA NewWindowEmpty ==
  NewWindow.totalMessages = 0 /\ \A i \in Index : NewWindow.fieldCounts[i] = <<>>
BY DEF NewWindow

(* A window that is closed keeps what it has, and the one behind is empty. *)
LEMMA DividesClosed ==
  ASSUME NEW ws \in Seq(Window), NEW v \in Seq(Window), NEW cs \in Seq(Counts), NEW f,
         NEW n \in Int, Divides(f, ws, cs, n), Closed(v, ws),
         \A k \in 1 .. Len(cs) : cs[k].time <= now
  PROVE  \E g : Divides(g, v, cs, n)
<1> DEFINE l == Len(ws)
           c == Len(cs)
           g == [j \in 1 .. l + 2 |-> IF j = l + 2 THEN c + 1 ELSE f[j]]
<1>1. l \in Nat /\ c \in Nat /\ Len(v) = l + 1
  BY WindowFields, CountFields DEF Closed
<1>2. f \in Firsts(ws, cs) /\ f[l + 1] = c + 1
  BY DEF Divides
<1>3. \A j \in 1 .. l + 1 : f[j] \in 1 .. c + 1
  BY <1>2, FirstsFields
<1>4. (\A j \in 1 .. l + 1 : g[j] = f[j]) /\ g[l + 2] = c + 1
  BY <1>1
<1>5. g \in [1 .. l + 2 -> 1 .. c + 1]
  BY <1>1, <1>3
<1> HIDE DEF g
<1>6. g \in Firsts(v, cs) /\ g[Len(v) + 1] = Len(cs) + 1
  <2>1. Len(v) + 1 = l + 2
    BY <1>1
  <2> QED BY <1>4, <1>5, <2>1 DEF Firsts
<1>7. g[1] = f[1]
  BY <1>1, <1>4
<1>8. ASSUME NEW j \in 1 .. Len(v) PROVE Holds(g, v, cs, j)
  <2>1. CASE j = l + 1
    <3>1. g[j] = c + 1 /\ g[j + 1] = c + 1
      <4>1. j \in 1 .. l + 1 /\ j + 1 = l + 2
        BY <1>1, <2>1
      <4> QED BY <1>2, <1>4, <2>1, <4>1
    <3>2. v[j].totalMessages = 0 /\ \A i \in Index : v[j].fieldCounts[i] = <<>>
      BY <2>1, NewWindowEmpty DEF Closed
    <3>3. g[j] .. g[j + 1] - 1 = {} /\ g[j + 1] = g[j] + v[j].totalMessages
      BY <1>1, <3>1, <3>2
    <3>4. SubSeq(cs, g[j], g[j + 1] - 1) = <<>>
      <4>1. g[j] \in Int /\ g[j + 1] - 1 \in Int /\ g[j + 1] - 1 < g[j]
        BY <1>1, <3>1
      <4> QED BY <4>1, SubSeqEmpty
    <3> QED BY <3>2, <3>3, <3>4, KeysOfNone DEF Holds
  <2>2. CASE j # l + 1
    <3>1. j \in 1 .. l /\ j \in 1 .. l + 1 /\ j + 1 \in 1 .. l + 1 /\ j < Len(v)
      BY <1>1, <2>2
    <3>2. g[j] = f[j] /\ g[j + 1] = f[j + 1]
      BY <1>4, <3>1
    <3>3. Holds(f, ws, cs, j)
      BY <3>1 DEF Divides
    <3>4. /\ v[j].timeBegin = ws[j].timeBegin /\ v[j].totalMessages = ws[j].totalMessages
          /\ v[j].fieldCounts = ws[j].fieldCounts 
          /\ v[j].timeEnd = IF j = l THEN now ELSE ws[j].timeEnd
      BY <3>1 DEF Closed
    <3>5. ASSUME NEW k \in f[j] .. f[j + 1] - 1 PROVE cs[k].time <= v[j].timeEnd
      <4>1. CASE j < l
        BY <3>3, <3>4, <4>1 DEF Holds
      <4>2. CASE j = l
        <5>1. f[j] \in 1 .. c + 1 /\ f[j + 1] \in 1 .. c + 1
          BY <1>3, <3>1
        <5>2. k \in 1 .. c
          BY <1>1, <5>1
        <5> QED BY <3>4, <4>2, <5>2
      <4> QED BY <1>1, <3>1, <4>1, <4>2
    <3> QED BY <3>2, <3>3, <3>4, <3>5 DEF Holds
  <2> QED BY <2>1, <2>2
<1>9. Divides(g, v, cs, n)
  BY <1>6, <1>7, <1>8 DEF Divides
<1> QED BY <1>9

(* The windows that are left keep theirs, and the messages of those that   *)
(* were forgotten are old.                                                 *)
LEMMA DividesLeft ==
  ASSUME NEW v \in Seq(Window), NEW u \in Seq(Window), NEW cs \in Seq(Counts), NEW f,
         NEW n \in Int, NEW k \in 0 .. Len(v), k < Len(v),
         Divides(f, v, cs, n), Left(u, v, k, n)
  PROVE  \E g : Divides(g, u, cs, n)
<1> DEFINE l == Len(v)
           c == Len(cs)
           m == Len(u)
           g == [j \in 1 .. m + 1 |-> f[k + j]]
<1>1. /\ l \in Nat /\ c \in Nat /\ m \in Nat /\ k \in Nat /\ k < l
      /\ m = l - k /\ m + k = l
  BY WindowFields, CountFields DEF Left
<1>2. f \in Firsts(v, cs) /\ f[l + 1] = c + 1
  BY DEF Divides
<1>3. \A j \in 1 .. l + 1 : f[j] \in 1 .. c + 1
  BY <1>2, FirstsFields
<1>4. \A j \in 1 .. m + 1 : g[j] = f[k + j] /\ k + j \in 1 .. l + 1
  BY <1>1
<1>5. g \in [1 .. m + 1 -> 1 .. c + 1]
  BY <1>3, <1>4
<1> HIDE DEF g
<1>6. g \in Firsts(u, cs) /\ g[m + 1] = c + 1
  <2>1. m + 1 \in 1 .. m + 1 /\ k + (m + 1) = l + 1
    BY <1>1
  <2> QED BY <1>2, <1>4, <1>5, <2>1 DEF Firsts
<1>7. ASSUME NEW i \in 1 .. g[1] - 1 PROVE cs[i].time < n
  <2> DEFINE T == {j \in 1 .. k + 1 : i < f[j]}
  <2>1. g[1] = f[k + 1] /\ k + 1 \in 1 .. l + 1
    <3>1. 1 \in 1 .. m + 1
      BY <1>1
    <3> QED BY <1>4, <3>1
  <2>2. f[k + 1] \in 1 .. c + 1 /\ i < f[k + 1] /\ i \in 1 .. c
    BY <1>1, <1>3, <2>1
  <2>3. \A y \in T : y \in 1 .. k + 1 /\ i < f[y]
    OBVIOUS
  <2>4. \A y \in 1 .. k + 1 : i < f[y] => y \in T
    OBVIOUS
  <2> HIDE DEF T
  <2>5. T \in SUBSET Nat /\ T # {}
    <3>1. 1 .. k + 1 \subseteq Nat /\ k + 1 \in 1 .. k + 1
      BY <1>1
    <3>2. k + 1 \in T
      BY <2>2, <2>4, <3>1
    <3> QED BY <2>3, <3>1, <3>2
  <2>6. PICK x : x \in T /\ \A y \in T : x <= y
    BY <2>5, LeastNatural
  <2>7. x \in 1 .. k + 1 /\ i < f[x]
    BY <2>6, <2>3
  <2>8. CASE x = 1
    <3>1. 1 \in 1 .. l + 1
      BY <1>1
    <3>2. f[1] \in 1 .. c + 1
      BY <1>3, <3>1
    <3>3. i \in 1 .. f[1] - 1
      BY <1>1, <2>2, <2>7, <2>8, <3>2
    <3> QED BY <3>3 DEF Divides
  <2>9. CASE x # 1
    <3> DEFINE w == x - 1
    <3>1. w \in 1 .. k /\ w + 1 = x /\ w \in 1 .. l /\ w < l /\ w \in 1 .. l + 1 /\ w < x
          /\ w \in 1 .. k + 1
      BY <1>1, <2>7, <2>9
    <3>2. w \notin T
      BY <2>6, <3>1
    <3>3. ~(i < f[w])
      BY <2>4, <3>1, <3>2
    <3> HIDE DEF w
    <3>4. f[w] \in 1 .. c + 1 /\ f[w + 1] \in 1 .. c + 1
      <4>1. w + 1 \in 1 .. l + 1
        BY <1>1, <3>1
      <4> QED BY <1>3, <3>1, <4>1
    <3>5. i \in f[w] .. f[w + 1] - 1
      <4> DEFINE a == f[w]
                 b == f[w + 1]
      <4>1. ~(i < a) /\ i < b
        BY <2>7, <3>1, <3>3
      <4>2. i \in Nat /\ a \in Nat /\ b \in Nat
        BY <2>2, <3>4
      <4> HIDE DEF a, b
      <4>3. i \in a .. b - 1
        BY <4>1, <4>2
      <4> QED BY <4>3 DEF a, b
    <3>6. cs[i].time <= v[w].timeEnd
      BY <3>1, <3>5 DEF Divides, Holds
    <3>7. v[w].timeEnd < n
      BY <3>1 DEF Left
    <3>8. cs[i].time \in Nat /\ v[w].timeEnd \in Nat
      BY <2>2, <3>1, WindowFields, CountFields
    <3> QED BY <3>6, <3>7, <3>8
  <2> QED BY <2>8, <2>9
<1>8. ASSUME NEW j \in 1 .. m PROVE Holds(g, u, cs, j)
  <2>1. /\ j \in 1 .. m + 1 /\ j + 1 \in 1 .. m + 1 /\ k + j \in 1 .. l
        /\ k + (j + 1) = (k + j) + 1 /\ (j < m => k + j < l)
    <3>1. j \in Nat /\ 1 <= j /\ j <= m
      BY <1>1
    <3>2. j + k <= m + k
      BY <1>1, <3>1
    <3>3. k + j \in 1 .. l
      BY <1>1, <3>1, <3>2
    <3>4. j \in 1 .. m + 1 /\ j + 1 \in 1 .. m + 1 /\ k + (j + 1) = (k + j) + 1
      BY <1>1, <3>1
    <3>5. j < m => k + j < l
      BY <1>1, <3>1
    <3> QED BY <3>3, <3>4, <3>5
  <2>2. g[j] = f[k + j] /\ g[j + 1] = f[(k + j) + 1]
    BY <1>4, <2>1
  <2>3. u[j] = v[k + j]
    BY DEF Left
  <2>4. Holds(f, v, cs, k + j)
    BY <2>1 DEF Divides
  <2> QED BY <2>1, <2>2, <2>3, <2>4 DEF Holds
<1>9. Divides(g, u, cs, n)
  BY <1>6, <1>7, <1>8 DEF Divides
<1> QED BY <1>9

(* v is ws with one message more in its last window.                       *)
More(v, ws, x) ==
  /\ Len(v) = Len(ws)
  /\ \A j \in 1 .. Len(ws) - 1 : v[j] = ws[j]
  /\ v[Len(ws)].totalMessages = ws[Len(ws)].totalMessages + 1
  /\ v[Len(ws)].timeBegin = ws[Len(ws)].timeBegin
  /\ \A i \in Index : v[Len(ws)].fieldCounts[i] =
       IF Complete(x.fields, i) THEN Append(ws[Len(ws)].fieldCounts[i], Key(x.fields, i))
                                ELSE ws[Len(ws)].fieldCounts[i]

(* The last window has the message that is counted.                        *)
LEMMA DividesMore ==
  ASSUME NEW ws \in Seq(Window), NEW v \in Seq(Window), NEW cs \in Seq(Counts), NEW f,
         NEW x \in Counts, NEW n \in Int, Divides(f, ws, cs, n), ws # <<>>, More(v, ws, x),
         ws[Len(ws)].timeBegin <= x.time
  PROVE  \E g : Divides(g, v, Append(cs, x), n)
<1> DEFINE l == Len(ws)
           c == Len(cs)
           d == Append(cs, x)
           g == [j \in 1 .. l + 1 |-> IF j = l + 1 THEN c + 2 ELSE f[j]]
<1>1. l \in Nat \ {0} /\ c \in Nat /\ Len(v) = l
  <2>1. l \in Nat \ {0}
    BY EmptySeq
  <2> QED BY <2>1, CountFields DEF More
<1>2. f \in Firsts(ws, cs) /\ f[l + 1] = c + 1
  BY DEF Divides
<1>3. \A j \in 1 .. l + 1 : f[j] \in 1 .. c + 1
  BY <1>2, FirstsFields
<1>4. (\A j \in 1 .. l : g[j] = f[j]) /\ g[l + 1] = c + 2
  BY <1>1
<1>5. g \in [1 .. l + 1 -> 1 .. c + 2]
  BY <1>1, <1>3
<1>6. /\ d \in Seq(Counts) /\ Len(d) = c + 1 /\ d[c + 1] = x
      /\ \A k \in 1 .. c : d[k] = cs[k]
  BY AppendProperties
<1> HIDE DEF g, d
<1>7. g \in Firsts(v, d) /\ g[Len(v) + 1] = Len(d) + 1
  <2>1. Len(d) + 1 = c + 2
    BY <1>1, <1>6
  <2> QED BY <1>1, <1>4, <1>5, <2>1 DEF Firsts
<1>8. ASSUME NEW k \in 1 .. g[1] - 1 PROVE d[k].time < n
  <2>1. 1 \in 1 .. l /\ 1 \in 1 .. l + 1
    BY <1>1
  <2>2. g[1] = f[1] /\ f[1] \in 1 .. c + 1
    BY <1>3, <1>4, <2>1
  <2>3. k \in 1 .. c
    BY <1>1, <2>2
  <2> QED BY <1>6, <2>2, <2>3 DEF Divides
(* A part of what was counted before.                                      *)
<1>9. ASSUME NEW a \in 1 .. c + 1, NEW b \in 0 .. c
      PROVE  SubSeq(d, a, b) = SubSeq(cs, a, b)
  <2>1. CASE b < a
    <3>1. a \in Int /\ b \in Int
      BY <1>1
    <3> QED BY <2>1, <3>1, SubSeqEmpty
  <2>2. CASE a <= b
    <3>1. d = cs \o <<x>>
      BY AppendIsConcat DEF d
    <3>2. a \in 1 .. Len(cs) /\ b \in 1 .. Len(cs)
      BY <1>1, <2>2
    <3>3. <<x>> \in Seq(Counts)
      OBVIOUS
    <3> QED BY <3>1, <3>2, <3>3, SubSeqOfConcat1
  <2> QED BY <1>1, <2>1, <2>2
<1>10. ASSUME NEW j \in 1 .. l - 1 PROVE Holds(g, v, d, j)
  <2>1. /\ j \in 1 .. l /\ j + 1 \in 1 .. l /\ j \in 1 .. l + 1 /\ j + 1 \in 1 .. l + 1
        /\ j < l
    BY <1>1
  <2>2. g[j] = f[j] /\ g[j + 1] = f[j + 1] /\ v[j] = ws[j]
    BY <1>4, <2>1 DEF More
  <2>3. Holds(f, ws, cs, j)
    BY <2>1 DEF Divides
  <2>4. f[j] \in 1 .. c + 1 /\ f[j + 1] \in 1 .. c + 1
    BY <1>3, <2>1
  <2>5. f[j + 1] - 1 \in 0 .. c
    BY <1>1, <2>4
  <2>6. \A k \in f[j] .. f[j + 1] - 1 : d[k] = cs[k]
    <3>1. \A k \in f[j] .. f[j + 1] - 1 : k \in 1 .. c
      BY <1>1, <2>4
    <3> QED BY <1>6, <3>1
  <2>7. SubSeq(d, f[j], f[j + 1] - 1) = SubSeq(cs, f[j], f[j + 1] - 1)
    BY <1>9, <2>4, <2>5
  <2> QED BY <1>1, <2>1, <2>2, <2>3, <2>6, <2>7 DEF Holds
<1>11. Holds(g, v, d, l)
  <2>1. l \in 1 .. l /\ l \in 1 .. l + 1 /\ l + 1 \in 1 .. l + 1
    BY <1>1
  <2>2. g[l] = f[l] /\ g[l + 1] = c + 2 /\ f[l] \in 1 .. c + 1
    BY <1>3, <1>4, <2>1
  <2>3. Holds(f, ws, cs, l) /\ ws[l].totalMessages \in Nat
    BY <2>1, WindowFields DEF Divides
  <2>4. g[l + 1] = g[l] + v[l].totalMessages
    <3>1. c + 1 = f[l] + ws[l].totalMessages
      BY <1>2, <2>3 DEF Holds
    <3>2. v[l].totalMessages = ws[l].totalMessages + 1
      BY DEF More
    <3> DEFINE t == ws[l].totalMessages
               h == f[l]
    <3>3. t \in Nat /\ h \in Nat /\ c + 1 = h + t /\ v[l].totalMessages = t + 1
      BY <1>1, <2>2, <2>3, <3>1, <3>2
    <3>4. c + 2 = h + (t + 1)
      <4> HIDE DEF t, h
      <4> QED BY <1>1, <3>3
    <3> QED BY <2>2, <3>3, <3>4
  <2>5. ASSUME NEW k \in f[l] .. c + 1 PROVE v[l].timeBegin <= d[k].time
    <3>1. v[l].timeBegin = ws[l].timeBegin
      BY DEF More
    <3>2. CASE k = c + 1
      BY <1>6, <3>1, <3>2
    <3>3. CASE k # c + 1
      <4>1. k \in 1 .. c /\ k \in f[l] .. f[l + 1] - 1
        BY <1>1, <1>2, <2>2, <3>3
      <4> QED BY <1>6, <2>3, <3>1, <4>1 DEF Holds
    <3> QED BY <3>2, <3>3
  <2>6. SubSeq(d, f[l], c + 1) = Append(SubSeq(cs, f[l], c), x) /\ SubSeq(cs, f[l], c) \in Seq(Counts)
    <3>1. c < Len(d) /\ f[l] \in 1 .. c + 1
      BY <1>1, <1>6, <2>2
    <3>2. /\ SubSeq(d, f[l], c) \in Seq(Counts)
          /\ SubSeq(d, f[l], c + 1) = Append(SubSeq(d, f[l], c), d[c + 1])
      BY <1>1, <1>6, <3>1, PartAppend
    <3>3. c \in 0 .. c
      BY <1>1
    <3>4. SubSeq(d, f[l], c) = SubSeq(cs, f[l], c)
      BY <1>9, <2>2, <3>3
    <3> QED BY <1>6, <3>2, <3>4
  <2>7. ASSUME NEW i \in Index PROVE v[l].fieldCounts[i] = Keys(SubSeq(d, f[l], c + 1), i)
    <3> DEFINE s == SubSeq(cs, f[l], c)
    <3>1. ws[l].fieldCounts[i] = Keys(s, i)
      <4>1. f[l + 1] - 1 = c
        BY <1>1, <1>2
      <4> QED BY <2>3, <4>1 DEF Holds
    <3>2. s \in Seq(Counts)
      BY <2>6
    <3> HIDE DEF s
    <3>3. Keys(Append(s, x), i) =
            IF Complete(x.fields, i) THEN Append(Keys(s, i), Key(x.fields, i)) ELSE Keys(s, i)
      BY <3>2, KeysOfMore
    <3>4. v[l].fieldCounts[i] =
            IF Complete(x.fields, i) THEN Append(ws[l].fieldCounts[i], Key(x.fields, i))
                                     ELSE ws[l].fieldCounts[i]
      BY DEF More
    <3>5. SubSeq(d, f[l], c + 1) = Append(s, x)
      BY <2>6 DEF s
    <3> QED BY <3>1, <3>3, <3>4, <3>5
  <2>8. g[l + 1] - 1 = c + 1 /\ ~(l < Len(v))
    BY <1>1, <2>2
  <2> QED BY <2>2, <2>4, <2>5, <2>7, <2>8 DEF Holds
<1>12. ASSUME NEW j \in 1 .. Len(v) PROVE Holds(g, v, d, j)
  <2>1. j = l \/ j \in 1 .. l - 1
    BY <1>1
  <2> QED BY <1>10, <1>11, <2>1
<1>13. Divides(g, v, d, n)
  BY <1>7, <1>8, <1>12 DEF Divides
<1> QED BY <1>13 DEF d

(* The invariant: the messages can be divided, and the times that are read *)
(* do not run ahead.                                                       *)
HistoryInv ==
  /\ TileInv
  /\ counted \in Seq(Counts)
  /\ now <= clock /\ lastTimeReset <= clock
  /\ at = "queue" => windows # <<>>
  /\ \A k \in 1 .. Len(counted) : counted[k].time <= clock
  /\ at \in {"publish", "window"} => \A k \in 1 .. Len(counted) : counted[k].time <= now
  /\ \E f : Divides(f, windows, counted, clock - maxHistory)

(* A window is closed, another begins, and old ones are forgotten.         *)
LEMMA ResetDivides ==
  ASSUME HistoryInv, Reset, now - lastTimeReset >= resetInterval \/ windows = <<>>,
         at = "window"
  PROVE  windows' # <<>> /\ \E f : Divides(f, windows', counted, clock - maxHistory)
<1> DEFINE n == clock - maxHistory
<1>1. /\ TileInv /\ windows \in Seq(Window) /\ counted \in Seq(Counts) /\ now \in Nat
      /\ clock \in Nat /\ now <= clock /\ maxHistory \in Nat
  BY StatsAssumption DEF HistoryInv, TileInv
<1>2. PICK ws \in Seq(Window) :
        /\ windows' = Forgot(ws) /\ Tiles(ws) /\ ws # <<>> /\ ws[Len(ws)] = NewWindow
        /\ ws[Len(ws)].timeEnd >= now - maxHistory /\ Closed(ws, windows)
  BY <1>1, ResetCloses
<1>3. n \in Int /\ now - maxHistory <= n /\ now - maxHistory \in Int
  BY <1>1
<1>4. PICK f : Divides(f, windows, counted, n)
  BY DEF HistoryInv
<1> HIDE DEF n
<1>5. PICK g : Divides(g, ws, counted, n)
  <2>1. \A k \in 1 .. Len(counted) : counted[k].time <= now
    BY DEF HistoryInv
  <2> QED BY <1>1, <1>2, <1>3, <1>4, <2>1, DividesClosed
<1> DEFINE u == Forgot(ws)
<1>6. /\ u \in Seq(Window) /\ u # <<>>
      /\ \E k \in 0 .. Len(ws) : k < Len(ws) /\ Left(u, ws, k, now - maxHistory)
  BY <1>1, <1>2, ForgotFirst, ForgotTiles
<1> HIDE DEF u
<1>7. PICK k \in 0 .. Len(ws) : k < Len(ws) /\ Left(u, ws, k, now - maxHistory)
  BY <1>6
<1>8. Left(u, ws, k, n)
  <2>1. ASSUME NEW j \in 1 .. k PROVE ws[j].timeEnd < n
    <3>1. j \in 1 .. Len(ws) /\ ws[j].timeEnd < now - maxHistory
      <4>1. Len(ws) \in Nat
        BY WindowFields
      <4> QED BY <1>7, <4>1 DEF Left
    <3>2. ws[j].timeEnd \in Nat
      BY <3>1, WindowFields
    <3> QED BY <1>3, <3>1, <3>2
  <2> QED BY <1>7, <2>1 DEF Left
<1>9. \E h : Divides(h, u, counted, n)
  BY <1>1, <1>3, <1>5, <1>6, <1>7, <1>8, DividesLeft
<1> QED BY <1>2, <1>6, <1>9 DEF u, n

(* A message is counted in the last window.                                *)
LEMMA CountsMore ==
  ASSUME TileInv, StatsCount, windows # <<>>
  PROVE  \E x \in Counts :
           /\ counted' = Append(counted, x) /\ x.time = clock
           /\ windows' # <<>> /\ More(windows', windows, x)
<1> DEFINE l == Len(windows)
           w == windows[l]
<1>1. PICK m \in StatsMessage :
        /\ windows' = [windows EXCEPT ![l] = Counted(@, m)]
        /\ counted' = Append(counted, [fields |-> m, time |-> clock])
  BY DEF StatsCount
<1>2. windows \in Seq(Window) /\ l \in Nat \ {0} /\ clock \in Nat
  BY EmptySeq DEF TileInv
<1>3. w \in Window /\ w.totalMessages \in Nat /\ w.fieldCounts \in FieldCounts
  <2>1. l \in 1 .. Len(windows)
    BY <1>2
  <2>2. w \in Window
    BY <1>2, <2>1, ElementOfSeq
  <2> HIDE DEF w
  <2> QED BY <2>2 DEF Window
<1> DEFINE x == [fields |-> m, time |-> clock]
           e == Counted(w, m)
           v == windows'
<1>4. x \in Counts /\ x.fields = m /\ x.time = clock
  BY <1>2 DEF Counts
<1>5. /\ e.totalMessages = w.totalMessages + 1 /\ e.timeBegin = w.timeBegin
      /\ \A i \in Index : e.fieldCounts[i] =
           IF Complete(m, i) THEN Append(w.fieldCounts[i], Key(m, i)) ELSE w.fieldCounts[i]
  <2> HIDE DEF w
  <2> DEFINE fc == [i \in Index |->
        IF Complete(m, i) THEN Append(w.fieldCounts[i], Key(m, i)) ELSE w.fieldCounts[i]]
  <2>1. e = [w EXCEPT !.totalMessages = @ + 1, !.fieldCounts = fc]
    BY DEF Counted
  <2>2. \A i \in Index : fc[i] =
          IF Complete(m, i) THEN Append(w.fieldCounts[i], Key(m, i)) ELSE w.fieldCounts[i]
    OBVIOUS
  <2> HIDE DEF fc, e
  <2>3. e.totalMessages = w.totalMessages + 1 /\ e.timeBegin = w.timeBegin /\ e.fieldCounts = fc
    BY <1>3, <2>1 DEF Window
  <2> QED BY <2>2, <2>3
<1>6. v = [windows EXCEPT ![l] = e]
  BY <1>1
<1> HIDE DEF e, v
<1>7. v \in [1 .. l -> {v[i] : i \in 1 .. l}] /\ Len(v) = l
  <2>1. windows \in [1 .. l -> Window] /\ DOMAIN windows = 1 .. l
    BY <1>2, LenProperties
  <2>2. DOMAIN v = 1 .. l
    BY <1>6, <2>1
  <2>3. v = [i \in 1 .. l |-> v[i]]
    BY <1>6, <2>1
  <2> HIDE DEF l
  <2> QED BY <1>2, <2>2, <2>3
<1>8. v[l] = e /\ \A i \in 1 .. l - 1 : v[i] = windows[i]
  <2>1. DOMAIN windows = 1 .. l
    BY <1>2, LenProperties
  <2>2. l \in 1 .. l /\ \A i \in 1 .. l - 1 : i \in 1 .. l /\ i # l
    BY <1>2
  <2> HIDE DEF l
  <2> QED BY <1>6, <2>1, <2>2
<1>9. v # <<>>
  <2>1. Len(<<>>) = 0
    OBVIOUS
  <2> QED BY <1>2, <1>7, <2>1
<1>10. More(v, windows, x)
  <2> HIDE DEF x
  <2>1. v[l].totalMessages = windows[l].totalMessages + 1 /\ v[l].timeBegin = windows[l].timeBegin
    BY <1>5, <1>8
  <2>2. \A i \in Index : v[l].fieldCounts[i] =
          IF Complete(x.fields, i) THEN Append(windows[l].fieldCounts[i], Key(x.fields, i))
                                   ELSE windows[l].fieldCounts[i]
    BY <1>4, <1>5, <1>8
  <2> QED BY <1>7, <1>8, <2>1, <2>2 DEF More
<1> QED BY <1>1, <1>4, <1>9, <1>10 DEF v

(* A message is counted in the last window.                                *)
LEMMA CountDivides ==
  ASSUME HistoryInv, StatsCount
  PROVE  HistoryInv'
<1>1. /\ TileInv /\ windows \in Seq(Window) /\ counted \in Seq(Counts) /\ clock \in Nat
      /\ maxHistory \in Nat /\ lastTimeReset <= clock /\ windows # <<>> /\ at = "queue"
      /\ windows # <<>> => lastTimeReset = windows[Len(windows)].timeBegin
  BY StatsAssumption DEF HistoryInv, TileInv, StatsCount
<1>2. TileInv'
  BY <1>1, CountTiles
<1>3. PICK x \in Counts :
        /\ counted' = Append(counted, x) /\ x.time = clock
        /\ windows' # <<>> /\ More(windows', windows, x)
  BY <1>1, CountsMore
<1>4. UNCHANGED <<clock, now, lastTimeReset, at>>
  BY DEF StatsCount, timeVars
<1>5. PICK f : Divides(f, windows, counted, clock - maxHistory)
  BY DEF HistoryInv
<1> DEFINE d == Append(counted, x)
<1>6. /\ d \in Seq(Counts) /\ Len(counted) \in Nat /\ Len(d) = Len(counted) + 1
      /\ d[Len(counted) + 1] = x /\ \A k \in 1 .. Len(counted) : d[k] = counted[k]
  BY <1>1, AppendProperties
<1> HIDE DEF d
<1>7. \A k \in 1 .. Len(d) : d[k].time <= clock
  <2> SUFFICES ASSUME NEW k \in 1 .. Len(d) PROVE d[k].time <= clock
    OBVIOUS
  <2>1. CASE k = Len(counted) + 1
    BY <1>1, <1>3, <1>6, <2>1
  <2>2. CASE k # Len(counted) + 1
    <3>1. k \in 1 .. Len(counted)
      BY <1>6, <2>2
    <3> QED BY <1>6, <3>1 DEF HistoryInv
  <2> QED BY <2>1, <2>2
<1>8. windows' \in Seq(Window)
  BY <1>2 DEF TileInv
<1>9. \E g : Divides(g, windows', d, clock - maxHistory)
  <2>1. clock - maxHistory \in Int /\ windows[Len(windows)].timeBegin <= x.time
    BY <1>1, <1>3
  <2> QED BY <1>1, <1>3, <1>5, <1>8, <2>1, DividesMore DEF d
<1>10. counted' = d
  BY <1>3 DEF d
<1>11. now <= clock
  BY DEF HistoryInv
<1> QED BY <1>1, <1>2, <1>3, <1>4, <1>6, <1>7, <1>9, <1>10, <1>11 DEF HistoryInv

(* The division there is, is the one that the property computes.           *)
LEMMA DividedKept ==
  ASSUME HistoryInv
  PROVE  HistoryKept
<1> DEFINE l == Len(windows)
           c == Len(counted)
           n == clock - maxHistory
           F(g) == [j \in 1 .. l + 1 |->
                      IF j > l THEN c + 1 ELSE g[j + 1] - windows[j].totalMessages]
<1>1. PICK f : Divides(f, windows, counted, n)
  BY DEF HistoryInv
<1>2. windows \in Seq(Window) /\ counted \in Seq(Counts)
  BY DEF HistoryInv, TileInv
<1>3. l \in Nat /\ c \in Nat /\ \A j \in 1 .. l : windows[j].totalMessages \in Nat
  BY <1>2, WindowFields, CountFields
<1>4. f \in Firsts(windows, counted) /\ f[l + 1] = c + 1
  BY <1>1 DEF Divides
<1>5. \A j \in 1 .. l + 1 : f[j] \in 1 .. c + 1
  BY <1>2, <1>4, FirstsFields
<1>6. \A j \in 1 .. l : f[j + 1] = f[j] + windows[j].totalMessages
  BY <1>1 DEF Divides, Holds
<1>7. f = F(f)
  <2>1. f = [j \in 1 .. l + 1 |-> f[j]]
    BY <1>4 DEF Firsts
  <2>2. ASSUME NEW j \in 1 .. l + 1
        PROVE  f[j] = IF j > l THEN c + 1 ELSE f[j + 1] - windows[j].totalMessages
    <3>1. CASE j > l
      <4>1. j = l + 1
        BY <1>3, <3>1
      <4> QED BY <1>4, <3>1, <4>1
    <3>2. CASE ~(j > l)
      <4>1. j \in 1 .. l /\ j + 1 \in 1 .. l + 1
        BY <1>3, <3>2
      <4> DEFINE t == windows[j].totalMessages
                 a == f[j]
                 b == f[j + 1]
      <4>2. t \in Nat /\ a \in Nat /\ b \in Nat /\ b = a + t
        <5>1. f[j] \in 1 .. c + 1 /\ f[j + 1] \in 1 .. c + 1
          BY <1>5, <4>1
        <5> QED BY <1>3, <1>6, <4>1, <5>1
      <4>3. a = b - t
        <5> HIDE DEF a, b, t
        <5> QED BY <4>2
      <4> QED BY <3>2, <4>3
    <3> QED BY <3>1, <3>2
  <2> QED BY <2>1, <2>2
<1>8. \A g : g = F(g) => \A j \in 1 .. l + 1 : g[j] = f[j]
  <2> SUFFICES ASSUME NEW g, g = F(g) PROVE \A j \in 1 .. l + 1 : g[j] = f[j]
    OBVIOUS
  <2> DEFINE T == {d \in Nat : d <= l => g[l + 1 - d] = f[l + 1 - d]}
  <2>1. \A j \in 1 .. l + 1 :
          /\ g[j] = IF j > l THEN c + 1 ELSE g[j + 1] - windows[j].totalMessages
          /\ f[j] = IF j > l THEN c + 1 ELSE f[j + 1] - windows[j].totalMessages
    BY <1>7
  <2>2. 0 \in T
    <3>1. l + 1 - 0 = l + 1 /\ l + 1 > l /\ l + 1 \in 1 .. l + 1
      BY <1>3
    <3>2. g[l + 1] = c + 1 /\ f[l + 1] = c + 1
      BY <2>1, <3>1
    <3> QED BY <3>1, <3>2
  <2>3. ASSUME NEW d \in Nat, d \in T PROVE d + 1 \in T
    <3> SUFFICES ASSUME d + 1 <= l PROVE g[l + 1 - (d + 1)] = f[l + 1 - (d + 1)]
      OBVIOUS
    <3> DEFINE j == l - d
    <3>1. /\ l + 1 - (d + 1) = j /\ l + 1 - d = j + 1 /\ j \in 1 .. l + 1 /\ ~(j > l)
          /\ d <= l
      BY <1>3
    <3>2. g[j + 1] = f[j + 1]
      BY <2>3, <3>1
    <3> HIDE DEF j
    <3> QED BY <2>1, <3>1, <3>2
  <2> HIDE DEF T
  <2>4. \A d \in Nat : d \in T
    BY <2>2, <2>3, InductionOnNat
  <2> SUFFICES ASSUME NEW j \in 1 .. l + 1 PROVE g[j] = f[j]
    OBVIOUS
  <2>5. l + 1 - j \in Nat /\ l + 1 - (l + 1 - j) = j /\ l + 1 - j <= l
    BY <1>3
  <2>6. l + 1 - j \in T
    BY <2>4, <2>5
  <2> QED BY <2>5, <2>6 DEF T
<1> DEFINE from == CHOOSE g : g = F(g)
<1>9. from = F(from)
  <2> HIDE DEF F
  <2> QED BY <1>7, Zenon
<1>10. \A j \in 1 .. l + 1 : from[j] = f[j]
  <2> HIDE DEF from, F
  <2> QED BY <1>8, <1>9
<1> HIDE DEF from
<1>11. 1 \in 1 .. l + 1 /\ \A j \in 1 .. l : j \in 1 .. l + 1 /\ j + 1 \in 1 .. l + 1
  BY <1>3
<1>12. from[1] >= 1 /\ \A k \in 1 .. from[1] - 1 : counted[k].time < n
  <2>1. from[1] = f[1] /\ f[1] \in 1 .. c + 1
    BY <1>5, <1>10, <1>11
  <2>2. f[1] >= 1
    BY <1>3, <2>1
  <2> QED BY <1>1, <2>1, <2>2 DEF Divides
<1>13. ASSUME NEW j \in 1 .. l
       PROVE  /\ \A k \in from[j] .. from[j + 1] - 1 :
                   /\ windows[j].timeBegin <= counted[k].time
                   /\ j < l => counted[k].time <= windows[j].timeEnd
              /\ \A i \in Index : windows[j].fieldCounts[i] =
                   Keys(SubSeq(counted, from[j], from[j + 1] - 1), i)
  <2>1. from[j] = f[j] /\ from[j + 1] = f[j + 1]
    BY <1>10, <1>11
  <2>2. Holds(f, windows, counted, j)
    BY <1>1 DEF Divides
  <2> QED BY <2>1, <2>2 DEF Holds
<1> QED BY <1>12, <1>13 DEF HistoryKept, from, F

(* Each message is counted in the window of its time, once.                *)
THEOREM HistoryHolds == StatsSpec => []HistoryKept
<1>1. StatsInit => HistoryInv
  <2> SUFFICES ASSUME StatsInit PROVE HistoryInv
    OBVIOUS
  <2>1. TileInv
    BY StatsAssumption, EmptySeq DEF StatsInit, TileInv, Tiles, Epoch
  <2>2. /\ windows = <<>> /\ counted = <<>> /\ at = "loop" /\ now = 0 /\ lastTimeReset = 0
        /\ clock \in Nat /\ maxHistory \in Nat
    BY <2>1, StatsAssumption DEF StatsInit, TileInv
  <2>3. Len(<<>>) = 0 /\ <<>> \in Seq(Counts) /\ <<>> \in Seq(Window)
    BY EmptySeq
  <2> DEFINE f == [j \in 1 .. 1 |-> 1]
  <2>4. f \in Firsts(<<>>, <<>>) /\ f[1] = 1
    <3>1. Len(<<>>) + 1 = 1
      BY <2>3
    <3> QED BY <3>1 DEF Firsts
  <2>5. Divides(f, <<>>, <<>>, clock - maxHistory)
    <3> HIDE DEF f
    <3>1. Len(<<>>) + 1 = 1 /\ 1 .. f[1] - 1 = {} /\ 1 .. Len(<<>>) = {}
      BY <2>3, <2>4
    <3> QED BY <2>4, <3>1 DEF Divides
  <2>6. 1 .. Len(<<>>) = {}
    BY <2>3
  <2>7. now <= clock /\ lastTimeReset <= clock
    BY <2>2
  <2> HIDE DEF f
  <2> QED BY <2>1, <2>2, <2>3, <2>5, <2>6, <2>7 DEF HistoryInv
<1>2. HistoryInv /\ [StatsNext]_statsVars => HistoryInv'
  <2> SUFFICES ASSUME HistoryInv, [StatsNext]_statsVars PROVE HistoryInv'
    OBVIOUS
  <2> USE DEF timeVars
  <2>1. TileInv'
    BY TilesKept DEF HistoryInv
  <2>2. /\ windows \in Seq(Window) /\ counted \in Seq(Counts) /\ clock \in Nat /\ now \in Nat
        /\ maxHistory \in Nat /\ lastTimeReset \in Nat
    BY StatsAssumption DEF HistoryInv, TileInv
  <2>3. \A k \in 1 .. Len(counted) : counted[k].time \in Nat
    BY <2>2, CountFields
  <2>4. CASE UNCHANGED <<clock, timeVars, windows, counted>> /\ at' \in {at, "window"}
             /\ (at' = "window" => at \in {"publish", "window"})
    BY <2>1, <2>4 DEF HistoryInv
  <2>5. CASE Tick
    <3>1. clock' = clock + 1 /\ UNCHANGED <<now, lastTimeReset, windows, at, counted>>
      BY <2>5 DEF Tick
    <3>2. PICK f : Divides(f, windows, counted, clock - maxHistory)
      BY DEF HistoryInv
    <3>3. /\ clock - maxHistory \in Int /\ clock' - maxHistory \in Int
          /\ clock - maxHistory <= clock' - maxHistory
      BY <2>2, <3>1
    <3>4. Divides(f, windows, counted, clock' - maxHistory)
      BY <2>2, <3>2, <3>3, DividesLater
    <3>5. \A k \in 1 .. Len(counted) : counted[k].time <= clock'
      <4>1. \A k \in 1 .. Len(counted) : counted[k].time <= clock
        BY DEF HistoryInv
      <4> QED BY <2>2, <2>3, <3>1, <4>1
    <3>6. now <= clock' /\ lastTimeReset <= clock'
      BY <2>2, <3>1 DEF HistoryInv
    <3> QED BY <2>1, <3>1, <3>4, <3>5, <3>6 DEF HistoryInv
  <2>6. CASE StatsLoop
    <3>1. /\ now' = clock /\ at' \in {"publish", "window"}
          /\ UNCHANGED <<clock, lastTimeReset, windows, counted>>
      BY <2>6 DEF StatsLoop
    <3> QED BY <2>1, <2>2, <3>1 DEF HistoryInv
  <2>7. CASE StatsPublish
    <3>1. /\ UNCHANGED <<clock, timeVars, windows, counted>> /\ at = "publish"
          /\ at' \in {at, "window"}
      BY <2>7 DEF StatsPublish
    <3> QED BY <2>4, <3>1
  <2>8. CASE StatsWindow
    <3>1. /\ UNCHANGED <<clock, now, counted>> /\ at = "window" /\ at' = "queue"
      BY <2>8 DEF StatsWindow
    <3>2. CASE now - lastTimeReset >= resetInterval \/ windows = <<>>
      <4>1. Reset
        BY <2>8, <3>2 DEF StatsWindow
      <4>2. windows' # <<>> /\ \E f : Divides(f, windows', counted, clock - maxHistory)
        BY <3>1, <3>2, <4>1, ResetDivides
      <4>3. lastTimeReset' = now
        BY <4>1 DEF Reset
      <4> QED BY <2>1, <3>1, <4>2, <4>3 DEF HistoryInv
    <3>3. CASE ~ (now - lastTimeReset >= resetInterval \/ windows = <<>>)
      <4>1. UNCHANGED <<lastTimeReset, windows>> /\ windows # <<>>
        BY <2>8, <3>3 DEF StatsWindow
      <4> QED BY <2>1, <3>1, <4>1 DEF HistoryInv
    <3> QED BY <3>2, <3>3
  <2>9. CASE StatsCount
    BY <2>9, CountDivides
  <2>10. CASE Peers /\ UNCHANGED <<clock, timeVars, windows, at, counted>>
    BY <2>4, <2>10 DEF HistoryInv
  <2>11. CASE UNCHANGED statsVars
    BY <2>4, <2>11 DEF statsVars
  <2> QED BY <2>5, <2>6, <2>7, <2>8, <2>9, <2>10, <2>11 DEF StatsNext
<1>3. HistoryInv => HistoryKept
  BY DividedKept
<1> QED BY <1>1, <1>2, <1>3, PTL DEF StatsSpec

-----------------------------------------------------------------------------
Standing == {"connecting", "ends", "opening", "cleared", "reading", "cleaning", "display",
           "eof", "bad filter", "offline", "query ends", "querying", "retrieved",
           "processing", "formatting", "formatted"}
Frames == [at : Standing, list : Seq(Nat), start : Nat, msg : Nat, from : Nat]

BrowseType ==
  /\ online \in BOOLEAN /\ busy \in BOOLEAN
  /\ server_fd \in Sockets \cup {NoFd} /\ timers \subseteq Timers /\ timer \in Nat
  /\ watched \subseteq Sockets
  /\ log_val \in Seq(Nat) /\ log_val_Time \in Seq(Nat) /\ n_msgs \in Nat
  /\ stack \in Seq(Frames) /\ browsed \in Nat

(* Without a connection one procedure at most is under way.                *)
Alone(st) ==
  /\ server_fd = NoFd /\ timers = {} /\ watched = {}
  /\ \/ st = <<>> /\ ~online /\ ~busy
     \/ /\ Len(st) = 1
        /\ \/ st[1].at = "bad filter" /\ online
           \/ st[1].at = "ends" /\ ~online /\ ~busy
           \/ /\ st[1].at \in {"cleared", "offline", "query ends", "querying", "retrieved",
                               "processing", "formatting", "formatted"}
              /\ ~online

(* Online, procedures are nested by timers and data.  That which connects, *)
(* reads or has met the end of the stream is the innermost one, or was     *)
(* cleaning the lists, and there is one connection, one timer, or one      *)
(* procedure that will see to it.                                          *)
Outer == {"ends", "opening", "cleared", "display", "cleaning"}
Innermost == {"connecting", "reading", "eof"}
Connected ==
  /\ online /\ busy
  /\ watched \subseteq {server_fd} /\ NoFd \notin watched /\ timers \subseteq {timer}
  /\ server_fd # NoFd => timers = {}
Nests(st, i) ==
  /\ st[i].at \in Outer \/ (i = 1 /\ st[i].at \in Innermost)
  /\ st[i].at = "cleaning" => i = 1 \/ (i = 2 /\ st[1].at \in {"cleared", "ends"})
  /\ st[i].at \in {"connecting", "eof"} => server_fd = NoFd /\ timers = {}
  /\ st[i].at \in {"reading", "cleaning"} => server_fd # NoFd /\ watched = {}
Online(st) == Connected /\ \A i \in 1 .. Len(st) : Nests(st, i)

(* The lists, but for what the innermost procedure still has to assign.    *)
Shown(n) == Len(log_val) = IF n < maxmess THEN n ELSE maxmess
ToAssign == {"reading", "eof", "retrieved", "processing"}
Pending(f) ==
  /\ f.at \in {"reading", "eof"} => Shown(f.start) /\ n_msgs = f.start + Len(f.list)
  /\ f.at = "retrieved" => log_val = <<>> /\ n_msgs = 0 /\ Len(f.list) <= maxmess
  /\ f.at = "processing" =>
       log_val = <<>> /\ n_msgs = Len(f.list) /\ n_msgs <= maxmess
  /\ f.at = "formatting" => f.list = log_val
  /\ f.at \notin ToAssign => Shown(n_msgs)
Lists(st) ==
  /\ log_val_Time = log_val
  /\ \A i \in 1 .. Len(st) : st[i].at = "cleaning" => log_val = <<>> /\ n_msgs = 0
  /\ Len(st) = 0 => Shown(n_msgs)
  /\ Len(st) > 0 => Pending(st[1])

Good == BrowseType /\ (Alone(stack) \/ Online(stack)) /\ Lists(stack)
BrowseInv == nested \/ Good

-----------------------------------------------------------------------------
(* The stack with a procedure more, another one at the top, or one less.   *)
Pushed(s, f, t) ==
  /\ t \in Seq(Frames) /\ Len(t) = Len(s) + 1 /\ t[1] = f
  /\ \A i \in 2 .. Len(t) : t[i] = s[i - 1] /\ i - 1 \in 1 .. Len(s)
Replaced(s, f, t) ==
  /\ t \in Seq(Frames) /\ Len(t) = Len(s) /\ Len(s) >= 1 /\ t[1] = f
  /\ \A i \in 2 .. Len(t) : t[i] = s[i] /\ i \in 1 .. Len(s)
Popped(s, t) ==
  /\ t \in Seq(Frames) /\ Len(t) = Len(s) - 1
  /\ \A i \in 1 .. Len(t) : t[i] = s[i + 1] /\ i + 1 \in 2 .. Len(s)

(* What the ways to move on the stack make of it.                          *)
LEMMA StackMoves ==
  ASSUME NEW s \in Seq(Frames)
  PROVE  /\ Len(s) \in Nat
         /\ \A f \in Frames : Pushed(s, f, <<f>> \o s)
         /\ s # <<>> =>
              /\ Len(s) >= 1 /\ Head(s) = s[1] /\ s[1] \in Frames
              /\ \A f \in Frames : Replaced(s, f, <<f>> \o Tail(s))
              /\ Popped(s, Tail(s))
<1> DEFINE S == Frames
<1>1. s \in Seq(S) /\ Len(s) \in Nat
  OBVIOUS
<1> HIDE DEF S
<1>2. ASSUME NEW t \in Seq(S), NEW f \in S
      PROVE  /\ <<f>> \o t \in Seq(S) /\ Len(<<f>> \o t) = Len(t) + 1 /\ (<<f>> \o t)[1] = f
             /\ \A i \in 2 .. Len(t) + 1 : (<<f>> \o t)[i] = t[i - 1] /\ i - 1 \in 1 .. Len(t)
  <2> DEFINE a == <<f>>
  <2>1. a \in Seq(S) /\ Len(a) = 1 /\ a[1] = f
    OBVIOUS
  <2> HIDE DEF a
  <2> DEFINE c == a \o t
  <2>2. /\ c \in Seq(S) /\ Len(c) = Len(a) + Len(t)
        /\ \A i \in 1 .. Len(a) + Len(t) : c[i] = IF i <= Len(a) THEN a[i] ELSE t[i - Len(a)]
    BY <2>1, ConcatProperties
  <2> HIDE DEF c
  <2>3. Len(t) \in Nat
    OBVIOUS
  <2>4. Len(c) = Len(t) + 1 /\ c[1] = f
    BY <2>1, <2>2, <2>3
  <2>5. \A i \in 2 .. Len(t) + 1 : c[i] = t[i - 1] /\ i - 1 \in 1 .. Len(t)
    BY <2>1, <2>2, <2>3
  <2> QED BY <2>2, <2>4, <2>5 DEF c, a
<1>3. \A f \in Frames : Pushed(s, f, <<f>> \o s)
  BY <1>1, <1>2 DEF Pushed, S
<1>4. ASSUME s # <<>>
      PROVE  /\ Len(s) >= 1 /\ Head(s) = s[1] /\ s[1] \in S
             /\ \A f \in Frames : Replaced(s, f, <<f>> \o Tail(s))
             /\ Popped(s, Tail(s))
  <2>1. /\ Head(s) = s[1] /\ Tail(s) \in Seq(S) /\ Len(Tail(s)) = Len(s) - 1
        /\ \A i \in 1 .. Len(Tail(s)) : Tail(s)[i] = s[i + 1]
    BY <1>1, <1>4, HeadTailProperties
  <2>2. Len(s) >= 1 /\ s[1] \in S
    BY <1>1, <1>4, EmptySeq
  <2> DEFINE t == Tail(s)
  <2> HIDE DEF t
  <2>3. t \in Seq(S) /\ Len(t) = Len(s) - 1 /\ \A i \in 1 .. Len(t) : t[i] = s[i + 1]
    BY <2>1 DEF t
  <2>4. Popped(s, t)
    BY <1>1, <2>3 DEF Popped, S
  <2>5. ASSUME NEW f \in S PROVE Replaced(s, f, <<f>> \o t)
    <3> DEFINE c == <<f>> \o t
    <3>1. /\ c \in Seq(S) /\ Len(c) = Len(t) + 1 /\ c[1] = f
          /\ \A i \in 2 .. Len(t) + 1 : c[i] = t[i - 1] /\ i - 1 \in 1 .. Len(t)
      BY <1>2, <2>3
    <3> HIDE DEF c
    <3>2. Len(c) = Len(s)
      BY <1>1, <2>3, <3>1
    <3>3. \A i \in 2 .. Len(c) : c[i] = s[i] /\ i \in 1 .. Len(s)
      <4> TAKE i \in 2 .. Len(c)
      <4>1. i \in 2 .. Len(t) + 1 /\ (i - 1) + 1 = i /\ i \in 1 .. Len(s)
        BY <1>1, <2>3, <3>2
      <4>2. c[i] = t[i - 1] /\ i - 1 \in 1 .. Len(t)
        BY <3>1, <4>1
      <4>3. t[i - 1] = s[(i - 1) + 1]
        BY <2>3, <4>2
      <4> QED BY <4>1, <4>2, <4>3
    <3>4. Replaced(s, f, c)
      BY <2>2, <3>1, <3>2, <3>3 DEF Replaced, S
    <3> QED BY <3>4 DEF c
  <2> QED BY <2>1, <2>2, <2>4, <2>5 DEF t, S
<1> QED BY <1>1, <1>3, <1>4 DEF S

(* A procedure that begins, wherever it stands.                            *)
LEMMA FrameType ==
  \A p \in Standing : /\ Frame(p) \in Frames /\ Frame(p).at = p /\ Frame(p).list = <<>>
                       /\ Frame(p).start = 0
BY DEF Frame, Frames, NoFd

(* A procedure that stands somewhere is the first of the stack.            *)
LEMMA TopIs ==
  ASSUME stack \in Seq(Frames), NEW p, At(p), p # "idle"
  PROVE  /\ stack # <<>> /\ Top = stack[1] /\ Top \in Frames /\ stack[1].at = p
         /\ Len(stack) \in Nat /\ Len(stack) >= 1
<1>1. stack # <<>>
  BY DEF At, Place
<1>2. Len(stack) \in Nat /\ Len(stack) >= 1 /\ Head(stack) = stack[1] /\ stack[1] \in Frames
  BY <1>1, StackMoves
<1> QED BY <1>1, <1>2 DEF At, Place, Top

-----------------------------------------------------------------------------
(* A procedure ends with its call of update.                               *)
LEMMA LastUpdateKeeps ==
  ASSUME Good, LastUpdate
  PROVE  Good'
<1> USE DEF modeVars, netVars, listVars, countVars
<1>1. /\ BrowseType /\ (Alone(stack) \/ Online(stack)) /\ Lists(stack)
      /\ UNCHANGED <<modeVars, netVars, listVars, countVars>>
  BY DEF Good, LastUpdate
<1>2. /\ stack \in Seq(Frames) /\ stack[1].at = "ends" /\ Popped(stack, stack')
      /\ Len(stack) \in Nat /\ Len(stack) >= 1
  BY <1>1, TopIs, StackMoves DEF BrowseType, LastUpdate, Unwind
<1>3. BrowseType'
  BY <1>1, <1>2 DEF BrowseType, Popped
<1>4. (Alone(stack) \/ Online(stack))'
  <2>1. CASE Alone(stack)
    <3>1. stack' = <<>>
      BY <1>2, <2>1, EmptySeq DEF Alone, Popped
    <3> QED BY <1>1, <1>2, <2>1, <3>1 DEF Alone
  <2>2. CASE Online(stack)
    <3>1. Connected'
      BY <1>1, <2>2 DEF Online, Connected
    <3>2. ASSUME NEW i \in 1 .. Len(stack') PROVE Nests(stack, i)'
      <4>1. stack'[i] = stack[i + 1] /\ i + 1 \in 1 .. Len(stack) /\ i + 1 # 1
        BY <1>2 DEF Popped
      <4>2. Nests(stack, i + 1)
        BY <2>2, <4>1 DEF Online
      <4> QED BY <1>1, <1>2, <4>1, <4>2 DEF Nests, Outer
    <3> QED BY <3>1, <3>2 DEF Online
  <2> QED BY <1>1, <2>1, <2>2
<1>5. Lists(stack)'
  <2>1. Shown(n_msgs)
    BY <1>1, <1>2 DEF Lists, Pending, ToAssign
  <2>2. Shown(n_msgs)'
    BY <1>1, <2>1 DEF Shown
  <2>3. ASSUME Len(stack') > 0 PROVE stack'[1].at \notin ToAssign \cup {"formatting"}
    <3>1. stack'[1] = stack[2] /\ 2 \in 2 .. Len(stack) /\ Len(stack) # 1
      BY <1>2, <2>3 DEF Popped
    <3>2. Online(stack) /\ Nests(stack, 2)
      BY <1>1, <1>2, <3>1 DEF Alone, Online
    <3> QED BY <3>1, <3>2 DEF Nests, Outer, ToAssign
  <2>4. Len(stack') > 0 => Pending(stack[1])'
    BY <2>2, <2>3 DEF Pending, ToAssign
  <2>5. \A i \in 1 .. Len(stack') : stack'[i].at = "cleaning" => log_val = <<>> /\ n_msgs = 0
    BY <1>1, <1>2 DEF Lists, Popped
  <2> QED BY <1>1, <2>2, <2>4, <2>5 DEF Lists
<1> QED BY <1>3, <1>4, <1>5 DEF Good

(* The innermost procedure goes on to f.                                   *)
LEMMA GoesTo ==
  ASSUME Good, NEW p, At(p), p # "idle", NEW f \in Frames, Goto(f)
  PROVE  /\ Replaced(stack, f, stack') /\ stack' \in Seq(Frames) /\ stack[1].at = p
         /\ Top = stack[1] /\ stack[1] \in Frames /\ Len(stack) \in Nat /\ Len(stack) >= 1
         /\ Len(stack') = Len(stack) /\ stack'[1] = f
<1>1. /\ stack \in Seq(Frames) /\ stack # <<>> /\ stack[1].at = p /\ Len(stack) \in Nat
      /\ Top = stack[1] /\ stack[1] \in Frames /\ Len(stack) >= 1
  BY TopIs DEF Good, BrowseType
<1>2. Replaced(stack, f, <<f>> \o Tail(stack))
  BY <1>1, StackMoves
<1> QED BY <1>1, <1>2 DEF Goto, Replaced

(* Online, the innermost procedure goes on to f.                           *)
LEMMA GoesToOnline ==
  ASSUME Good, NEW p, At(p), p # "idle", NEW f \in Frames, Goto(f),
         Online(stack), Connected', f.at \in Outer \cup Innermost,
         f.at \in {"connecting", "eof"} => server_fd' = NoFd /\ timers' = {},
         f.at \in {"reading", "cleaning"} => server_fd' # NoFd /\ watched' = {},
         p \in {"cleared", "ends"} =>
           f.at \in {"cleared", "ends"} /\ UNCHANGED <<server_fd, watched>>
  PROVE  Online(stack)'
<1>1. /\ Replaced(stack, f, stack') /\ stack[1].at = p /\ stack' \in Seq(Frames)
      /\ Len(stack) \in Nat /\ stack'[1] = f
  BY GoesTo
<1>2. ASSUME NEW i \in 1 .. Len(stack') PROVE Nests(stack, i)'
  <2>1. CASE i = 1
    BY <1>1, <2>1 DEF Nests, Outer, Innermost
  <2>2. CASE i # 1
    <3>1. stack'[i] = stack[i] /\ i \in 1 .. Len(stack) /\ i \in 2 .. Len(stack')
      BY <1>1, <2>2 DEF Replaced
    <3>2. Nests(stack, i)
      BY <3>1 DEF Online
    <3>3. stack'[i].at \in Outer /\ stack'[i].at \notin {"connecting", "eof", "reading"}
      BY <2>2, <3>1, <3>2 DEF Nests, Outer
    <3>4. stack'[i].at = "cleaning" => i = 2 /\ p \in {"cleared", "ends"}
      BY <1>1, <2>2, <3>1, <3>2 DEF Nests
    <3> QED BY <1>1, <2>2, <3>1, <3>2, <3>3, <3>4 DEF Nests
  <2> QED BY <2>1, <2>2
<1> QED BY <1>2 DEF Online

(* ... and leaves the lists right, f being left with what is to assign.    *)
LEMMA GoesToLists ==
  ASSUME Good, NEW p, At(p), p # "idle", NEW f \in Frames, Goto(f), f.at # "cleaning",
         log_val_Time' = log_val', Pending(f)',
         p \notin {"cleared", "ends"} \/ UNCHANGED listVars \/ ClearLists
  PROVE  Lists(stack)'
<1>1. /\ Replaced(stack, f, stack') /\ stack[1].at = p /\ Len(stack) \in Nat
      /\ Len(stack) >= 1 /\ Len(stack') = Len(stack) /\ stack'[1] = f
  BY GoesTo
<1>2. ASSUME NEW i \in 1 .. Len(stack'), stack'[i].at = "cleaning"
      PROVE  log_val' = <<>> /\ n_msgs' = 0
  <2>1. i # 1 /\ stack'[i] = stack[i] /\ i \in 1 .. Len(stack)
    BY <1>1, <1>2 DEF Replaced
  <2>2. Online(stack)
    <3>1. stack # <<>> /\ Len(stack) # 1
      BY <1>1, <2>1
    <3>2. ~Alone(stack)
      BY <3>1 DEF Alone
    <3> QED BY <3>2 DEF Good
  <2>3. Nests(stack, i)
    BY <2>1, <2>2 DEF Online
  <2>4. p \in {"cleared", "ends"}
    BY <1>1, <1>2, <2>1, <2>3 DEF Nests
  <2>5. log_val = <<>> /\ n_msgs = 0
    BY <1>2, <2>1 DEF Good, Lists
  <2> QED BY <2>4, <2>5 DEF listVars, ClearLists
<1> QED BY <1>1, <1>2 DEF Lists

(* Another procedure begins inside it.                                     *)
LEMMA PushesOnline ==
  ASSUME NEW s \in Seq(Frames), NEW f \in Frames, Online(s), Pushed(s, f, stack'),
         Connected', f.at \in Outer \cup Innermost,
         f.at \in {"connecting", "eof"} => server_fd' = NoFd /\ timers' = {},
         f.at \in {"reading", "cleaning"} => server_fd' # NoFd /\ watched' = {},
         Len(s) > 0 => /\ s[1].at \in {"ends", "cleared", "display", "opening"}
                       /\ server_fd = NoFd \/ watched # {}
  PROVE  Online(stack)'
<1>1. ASSUME NEW i \in 1 .. Len(stack') PROVE Nests(stack, i)'
  <2>1. CASE i = 1
    BY <2>1 DEF Nests, Outer, Innermost, Pushed
  <2>2. CASE i # 1
    <3>1. /\ stack'[i] = s[i - 1] /\ i - 1 \in 1 .. Len(s) /\ Len(s) \in Nat
          /\ i \in 2 .. Len(stack') /\ Len(s) > 0
      BY <2>2 DEF Pushed
    <3>2. Nests(s, i - 1)
      BY <3>1 DEF Online
    <3>3. stack'[i].at \in Outer \ {"cleaning"}
      BY <3>1, <3>2 DEF Nests, Outer
    <3> QED BY <2>2, <3>3 DEF Nests, Outer
  <2> QED BY <2>1, <2>2
<1> QED BY <1>1 DEF Online

(* What is known at a place.                                               *)
LEMMA Standpoint ==
  ASSUME Good, NEW p, At(p), p # "idle"
  PROVE  /\ p \in Innermost \cup {"opening", "cleaning", "display"} =>
              Online(stack) /\ Nests(stack, 1) /\ Connected
         /\ p \in {"bad filter", "offline", "query ends", "querying", "retrieved",
                   "processing", "formatting", "formatted"} =>
              Alone(stack) /\ Len(stack) = 1 /\ server_fd = NoFd /\ timers = {} /\ watched = {}
         /\ stack[1].at = p /\ Pending(stack[1]) /\ Lists(stack) /\ log_val_Time = log_val
         /\ stack[1] = Top /\ Top \in Frames /\ Len(stack) \in Nat /\ Len(stack) >= 1
<1>1. /\ stack # <<>> /\ stack[1].at = p /\ Top = stack[1] /\ Top \in Frames
      /\ Len(stack) \in Nat /\ Len(stack) >= 1
  BY TopIs DEF Good, BrowseType
<1>2. Lists(stack) /\ Pending(stack[1]) /\ log_val_Time = log_val
  BY <1>1 DEF Good, Lists
<1>3. ASSUME p \in Innermost \cup {"opening", "cleaning", "display"}
      PROVE  Online(stack) /\ Nests(stack, 1) /\ Connected
  <2>1. ~Alone(stack)
    BY <1>1, <1>3 DEF Alone, Innermost
  <2>2. Online(stack)
    BY <2>1 DEF Good
  <2> QED BY <1>1, <2>2 DEF Online
<1>4. ASSUME p \in {"bad filter", "offline", "query ends", "querying", "retrieved",
                    "processing", "formatting", "formatted"}
      PROVE  Alone(stack) /\ Len(stack) = 1 /\ server_fd = NoFd /\ timers = {} /\ watched = {}
  <2>1. ~Online(stack)
    <3>1. 1 \in 1 .. Len(stack)
      BY <1>1
    <3>2. ~Nests(stack, 1)
      BY <1>1, <1>4 DEF Nests, Outer, Innermost
    <3> QED BY <3>1, <3>2 DEF Online
  <2>2. Alone(stack)
    BY <2>1 DEF Good
  <2> QED BY <1>1, <2>2 DEF Alone
<1> QED BY <1>1, <1>2, <1>3, <1>4

(* server_connect: refused, or a connection.                               *)
LEMMA RefusedKeeps ==
  ASSUME Good, Refused
  PROVE  Good'
<1> DEFINE f == Frame("ends")
<1>1. f \in Frames /\ f.at = "ends" /\ f.list = <<>> /\ f.start = 0
  BY FrameType DEF Standing
<1> HIDE DEF f
<1>2. /\ At("connecting") /\ Goto(f) /\ SetTimer
      /\ UNCHANGED <<modeVars, server_fd, socket, watched, listVars, browsed>>
  BY DEF Refused, f
<1>3. /\ Online(stack) /\ Nests(stack, 1) /\ Connected /\ Pending(stack[1])
      /\ stack[1].at = "connecting" /\ log_val_Time = log_val
  BY <1>2, Standpoint DEF Innermost
<1>4. server_fd = NoFd /\ timers = {}
  BY <1>3 DEF Nests
<1>5. PICK t \in Timers : timers' = timers \cup {t} /\ timer' = t
  BY <1>2 DEF SetTimer
<1>6. BrowseType'
  <2>1. stack' \in Seq(Frames)
    BY <1>1, <1>2, GoesTo
  <2> QED BY <1>2, <1>5, <2>1 DEF Good, BrowseType, Timers, modeVars, listVars
<1>7. Online(stack)'
  <2>1. Connected'
    BY <1>2, <1>3, <1>4, <1>5 DEF Connected, modeVars
  <2> QED BY <1>1, <1>2, <1>3, <2>1, GoesToOnline DEF Outer
<1>8. Lists(stack)'
  <2>1. Pending(f)'
    BY <1>1, <1>2, <1>3 DEF Pending, Shown, ToAssign, listVars
  <2> QED BY <1>1, <1>2, <1>3, <2>1, GoesToLists DEF listVars
<1> QED BY <1>6, <1>7, <1>8 DEF Good

(* The connection is opened, and its handler installed.                    *)
LEMMA OpenedKeeps ==
  ASSUME Good, Opened
  PROVE  Good'
<1> DEFINE f == Frame("ends")
<1>1. f \in Frames /\ f.at = "ends" /\ f.list = <<>> /\ f.start = 0
  BY FrameType DEF Standing
<1> HIDE DEF f
<1>2. /\ At("connecting") /\ Goto(f)
      /\ UNCHANGED <<modeVars, timers, timer, listVars, countVars>>
  BY DEF Opened, f
<1>3. /\ Online(stack) /\ Nests(stack, 1) /\ Connected /\ Pending(stack[1])
      /\ stack[1].at = "connecting" /\ log_val_Time = log_val
  BY <1>2, Standpoint DEF Innermost
<1>4. server_fd = NoFd /\ timers = {} /\ watched = {}
  BY <1>3 DEF Nests, Connected
<1>5. PICK s \in Sockets : server_fd' = s /\ watched' = watched \cup {s}
  BY DEF Opened
<1>6. BrowseType'
  <2>1. stack' \in Seq(Frames)
    BY <1>1, <1>2, GoesTo
  <2> QED BY <1>2, <1>5, <2>1 DEF Good, BrowseType, Sockets, modeVars, listVars, countVars
<1>7. Online(stack)'
  <2>1. Connected'
    BY <1>2, <1>3, <1>4, <1>5 DEF Connected, modeVars, Sockets, NoFd
  <2> QED BY <1>1, <1>2, <1>3, <2>1, GoesToOnline DEF Outer
<1>8. Lists(stack)'
  <2>1. Pending(f)'
    BY <1>1, <1>2, <1>3 DEF Pending, Shown, ToAssign, listVars
  <2> QED BY <1>1, <1>2, <1>3, <2>1, GoesToLists DEF listVars
<1> QED BY <1>6, <1>7, <1>8 DEF Good

(* resetOnline, when server_connect has returned.                          *)
LEMMA ResetOnlineKeeps ==
  ASSUME BrowseAssumption, Good, ResetOnline
  PROVE  Good'
<1> DEFINE f == Frame("ends")
<1>1. f \in Frames /\ f.at = "ends" /\ f.list = <<>> /\ f.start = 0
  BY FrameType DEF Standing
<1> HIDE DEF f
<1>2. At("opening") /\ Goto(f) /\ ClearLists /\ UNCHANGED <<modeVars, netVars, countVars>>
  BY DEF ResetOnline, f
<1>3. Online(stack) /\ Connected
  BY <1>2, Standpoint
<1>4. /\ log_val' = <<>> /\ log_val_Time' = <<>> /\ n_msgs' = 0 /\ Len(log_val') = 0
      /\ maxmess \in Nat \ {0}
  BY <1>2 DEF ClearLists, BrowseAssumption
<1>5. BrowseType'
  <2>1. stack' \in Seq(Frames)
    BY <1>1, <1>2, GoesTo
  <2> QED BY <1>2, <1>4, <2>1 DEF Good, BrowseType, modeVars, netVars, countVars
<1>6. Online(stack)'
  <2>1. Connected'
    BY <1>2, <1>3 DEF Connected, modeVars, netVars
  <2> QED BY <1>1, <1>2, <1>3, <2>1, GoesToOnline DEF Outer
<1>7. Lists(stack)'
  <2>1. Pending(f)'
    BY <1>1, <1>4 DEF Pending, Shown, ToAssign
  <2> QED BY <1>1, <1>2, <1>4, <2>1, GoesToLists
<1> QED BY <1>5, <1>6, <1>7 DEF Good

(* doClean, after its call of update, online or not.                       *)
LEMMA ClearedKeeps ==
  ASSUME Good, Cleared
  PROVE  Good'
<1> DEFINE f == Frame("ends")
<1>1. f \in Frames /\ f.at = "ends" /\ f.list = <<>> /\ f.start = 0
  BY FrameType DEF Standing
<1> HIDE DEF f
<1>2. /\ At("cleared") /\ Goto(f) /\ busy' = (busy /\ online)
      /\ UNCHANGED <<online, netVars, listVars, countVars>>
  BY DEF Cleared, f
<1>3. /\ stack[1].at = "cleared" /\ Pending(stack[1]) /\ log_val_Time = log_val
      /\ Len(stack) \in Nat /\ Len(stack) >= 1
  BY <1>2, Standpoint
<1>4. /\ stack' \in Seq(Frames) /\ Len(stack') = Len(stack) /\ stack'[1] = f
  BY <1>1, <1>2, GoesTo
<1>5. BrowseType'
  BY <1>2, <1>4 DEF Good, BrowseType, netVars, listVars, countVars
<1>6. (Alone(stack) \/ Online(stack))'
  <2>1. CASE Alone(stack)
    <3>1. ~online /\ Len(stack) = 1 /\ server_fd = NoFd /\ timers = {} /\ watched = {}
      BY <1>3, <2>1 DEF Alone
    <3> QED BY <1>1, <1>2, <1>4, <3>1 DEF Alone, netVars
  <2>2. CASE Online(stack)
    <3>1. Connected'
      BY <1>2, <2>2 DEF Online, Connected, netVars
    <3>2. UNCHANGED <<server_fd, watched>>
      BY <1>2 DEF netVars
    <3>3. Online(stack)'
      BY <1>1, <1>2, <2>2, <3>1, <3>2, GoesToOnline DEF Outer
    <3> QED BY <3>3
  <2> QED BY <2>1, <2>2 DEF Good
<1>7. Lists(stack)'
  <2>1. Pending(f)'
    BY <1>1, <1>2, <1>3 DEF Pending, Shown, ToAssign, listVars
  <2> QED BY <1>1, <1>2, <1>3, <2>1, GoesToLists DEF listVars
<1> QED BY <1>5, <1>6, <1>7 DEF Good

-----------------------------------------------------------------------------
(* The last lines of a list: all, or as many as are displayed.             *)
LEMMA LastLinesShown ==
  ASSUME BrowseAssumption, NEW s \in Seq(Nat)
  PROVE  /\ LastLines(s) \in Seq(Nat)
         /\ Len(LastLines(s)) = IF Len(s) < maxmess THEN Len(s) ELSE maxmess
<1> DEFINE n == Len(s)
<1>1. maxmess \in Nat /\ maxmess >= 1 /\ n \in Nat
  BY DEF BrowseAssumption
<1>2. \A i \in 1 .. n + 1 :
        SubSeq(s, i, n) \in Seq(Nat) /\ Len(SubSeq(s, i, n)) = n - i + 1
  <2> TAKE i \in 1 .. n + 1
  <2>1. SubSeq(s, i, n) \in Seq(Nat) /\ Len(SubSeq(s, i, n)) = IF i <= n THEN n - i + 1 ELSE 0
    BY <1>1, SubSeqProperties
  <2> HIDE DEF n
  <2> QED BY <1>1, <2>1
<1>3. CASE n > maxmess
  <2>1. n - maxmess + 1 \in 1 .. n + 1 /\ n - (n - maxmess + 1) + 1 = maxmess
    BY <1>1, <1>3
  <2>2. LastLines(s) = SubSeq(s, n - maxmess + 1, n)
    BY <1>3 DEF LastLines
  <2> QED BY <1>1, <1>2, <1>3, <2>1, <2>2
<1>4. CASE ~(n > maxmess)
  <2>1. 1 \in 1 .. n + 1 /\ n - 1 + 1 = n
    BY <1>1
  <2>2. LastLines(s) = SubSeq(s, 1, n)
    BY <1>4 DEF LastLines
  <2> QED BY <1>1, <1>2, <1>4, <2>1, <2>2
<1> QED BY <1>3, <1>4

(* What Assign does: the lists are those of what is counted.               *)
LEMMA AssignShows ==
  ASSUME BrowseAssumption, Good, NEW p \in {"reading", "eof"}, At(p), Assign
  PROVE  /\ log_val' \in Seq(Nat) /\ log_val_Time' = log_val' /\ Shown(n_msgs)' /\ n_msgs' = n_msgs
         /\ Goto(Frame("display"))
<1> DEFINE l == Top.list
           a == log_val
           c == a \o l
<1>1. /\ Pending(stack[1]) /\ log_val_Time = log_val /\ stack[1] = Top /\ stack[1].at = p
      /\ Top \in Frames
  BY Standpoint
<1>2. a \in Seq(Nat) /\ l \in Seq(Nat) /\ n_msgs \in Nat /\ Top.start \in Nat /\ maxmess \in Nat \ {0}
  BY <1>1 DEF Good, BrowseType, Frames, BrowseAssumption
<1>3. Shown(Top.start) /\ n_msgs = Top.start + Len(l)
  BY <1>1 DEF Pending
<1>4. /\ n_msgs' = n_msgs /\ Goto(Frame("display"))
      /\ n_msgs > Top.start => log_val' = LastLines(c) /\ log_val_Time' = LastLines(log_val_Time \o l)
      /\ ~(n_msgs > Top.start) => UNCHANGED <<log_val, log_val_Time>>
  BY DEF Assign
<1>5. log_val_Time \o l = c
  BY <1>1
<1> HIDE DEF l, a, c
<1>6. c \in Seq(Nat) /\ Len(c) = Len(a) + Len(l) /\ Len(a) \in Nat /\ Len(l) \in Nat
  BY <1>2, ConcatProperties DEF c
<1>7. CASE n_msgs > Top.start
  <2>1. log_val' = LastLines(c) /\ log_val_Time' = log_val'
    BY <1>4, <1>5, <1>7
  <2>2. /\ LastLines(c) \in Seq(Nat)
        /\ Len(LastLines(c)) = IF Len(c) < maxmess THEN Len(c) ELSE maxmess
    BY <1>6, LastLinesShown
  <2>3. Len(a) = IF Top.start < maxmess THEN Top.start ELSE maxmess
    BY <1>3 DEF Shown, a
  <2>4. Len(log_val') = IF n_msgs < maxmess THEN n_msgs ELSE maxmess
    <3>1. CASE Top.start < maxmess
      BY <1>2, <1>3, <1>6, <2>1, <2>2, <2>3, <3>1
    <3>2. CASE ~(Top.start < maxmess)
      <4>1. Len(a) = maxmess /\ ~(Len(c) < maxmess) /\ ~(n_msgs < maxmess)
        BY <1>2, <1>3, <1>6, <2>3, <3>2
      <4> QED BY <2>1, <2>2, <4>1
    <3> QED BY <3>1, <3>2
  <2> QED BY <1>4, <2>1, <2>2, <2>4 DEF Shown
<1>8. CASE ~(n_msgs > Top.start)
  <2>1. n_msgs = Top.start
    BY <1>2, <1>3, <1>6, <1>8
  <2> QED BY <1>1, <1>2, <1>3, <1>4, <1>8, <2>1 DEF Shown, a
<1> QED BY <1>7, <1>8

(* server_event has no more to read.                                       *)
LEMMA GetsNothingKeeps ==
  ASSUME BrowseAssumption, Good, GetsNothing
  PROVE  Good'
<1> DEFINE f == Frame("display")
<1>1. f \in Frames /\ f.at = "display" /\ f.list = <<>> /\ f.start = 0
  BY FrameType DEF Standing
<1> HIDE DEF f
<1>2. /\ At("reading") /\ Assign
      /\ UNCHANGED <<modeVars, server_fd, watched, timers, timer, countVars>>
  BY DEF GetsNothing
<1>3. /\ log_val' \in Seq(Nat) /\ log_val_Time' = log_val' /\ Shown(n_msgs)' /\ n_msgs' = n_msgs
      /\ Goto(f)
  BY <1>2, AssignShows DEF f
<1>4. Online(stack) /\ Connected
  BY <1>2, Standpoint DEF Innermost
<1>5. BrowseType'
  <2>1. stack' \in Seq(Frames)
    BY <1>1, <1>2, <1>3, GoesTo
  <2> QED BY <1>2, <1>3, <2>1 DEF Good, BrowseType, modeVars, countVars
<1>6. Online(stack)'
  <2>1. Connected'
    BY <1>2, <1>4 DEF Connected, modeVars
  <2> QED BY <1>1, <1>2, <1>3, <1>4, <2>1, GoesToOnline DEF Outer
<1>7. Lists(stack)'
  <2>1. Pending(f)'
    BY <1>1, <1>3 DEF Pending, ToAssign
  <2> QED BY <1>1, <1>2, <1>3, <2>1, GoesToLists
<1> QED BY <1>5, <1>6, <1>7 DEF Good

(* It meets the end of the stream and closes the socket, and then asks for *)
(* a timer.                                                                *)
LEMMA StreamEndedKeeps ==
  ASSUME Good, StreamEnded
  PROVE  Good'
<1>1. /\ At("reading") /\ server_fd # NoFd /\ CloseSocket /\ Goto([Top EXCEPT !.at = "eof"])
      /\ UNCHANGED <<modeVars, timers, timer, listVars, countVars>>
  BY DEF StreamEnded
<1>2. /\ Online(stack) /\ Connected /\ Pending(stack[1]) /\ stack[1] = Top /\ Top \in Frames
      /\ stack[1].at = "reading" /\ log_val_Time = log_val
  BY <1>1, Standpoint DEF Innermost
<1>3. PICK f \in Frames : /\ Goto(f) /\ f.at = "eof"
                          /\ f.list = stack[1].list /\ f.start = stack[1].start
  <2>1. [Top EXCEPT !.at = "eof"] \in Frames
    BY <1>2 DEF Frames, Standing
  <2> QED BY <1>1, <1>2, <2>1 DEF Frames
<1>4. server_fd' = NoFd /\ watched' = watched \ {server_fd} /\ timers = {} /\ timers' = {}
  BY <1>1, <1>2 DEF CloseSocket, Connected
<1>5. BrowseType'
  <2>1. stack' \in Seq(Frames)
    BY <1>1, <1>3, GoesTo
  <2> QED BY <1>1, <1>4, <2>1 DEF Good, BrowseType, modeVars, listVars, countVars, NoFd
<1>6. Online(stack)'
  <2>1. Connected'
    BY <1>1, <1>2, <1>4 DEF Connected, modeVars
  <2> QED BY <1>1, <1>2, <1>3, <1>4, <2>1, GoesToOnline DEF Innermost
<1>7. Lists(stack)'
  <2>1. Pending(f)'
    BY <1>1, <1>2, <1>3 DEF Pending, Shown, ToAssign, listVars
  <2> QED BY <1>1, <1>2, <1>3, <2>1, GoesToLists DEF listVars
<1> QED BY <1>5, <1>6, <1>7 DEF Good

(* ... and asks for a timer, the lists being those of what was read.       *)
LEMMA AfterCloseKeeps ==
  ASSUME BrowseAssumption, Good, AfterClose
  PROVE  Good'
<1> DEFINE f == Frame("display")
<1>1. f \in Frames /\ f.at = "display" /\ f.list = <<>> /\ f.start = 0
  BY FrameType DEF Standing
<1> HIDE DEF f
<1>2. /\ At("eof") /\ Assign /\ SetTimer
      /\ UNCHANGED <<modeVars, server_fd, socket, watched, countVars>>
  BY DEF AfterClose
<1>3. /\ log_val' \in Seq(Nat) /\ log_val_Time' = log_val' /\ Shown(n_msgs)' /\ n_msgs' = n_msgs
      /\ Goto(f)
  BY <1>2, AssignShows DEF f
<1>4. /\ Online(stack) /\ Connected /\ Nests(stack, 1) /\ stack[1].at = "eof"
  BY <1>2, Standpoint DEF Innermost
<1>5. server_fd = NoFd /\ timers = {}
  BY <1>4 DEF Nests
<1>6. PICK t \in Timers : timers' = timers \cup {t} /\ timer' = t
  BY <1>2 DEF SetTimer
<1>7. BrowseType'
  <2>1. stack' \in Seq(Frames)
    BY <1>1, <1>2, <1>3, GoesTo
  <2> QED BY <1>2, <1>3, <1>6, <2>1 DEF Good, BrowseType, Timers, modeVars, countVars
<1>8. Online(stack)'
  <2>1. Connected'
    BY <1>2, <1>4, <1>5, <1>6 DEF Connected, modeVars
  <2> QED BY <1>1, <1>2, <1>3, <1>4, <2>1, GoesToOnline DEF Outer
<1>9. Lists(stack)'
  <2>1. Pending(f)'
    BY <1>1, <1>3 DEF Pending, ToAssign
  <2> QED BY <1>1, <1>2, <1>3, <2>1, GoesToLists
<1> QED BY <1>7, <1>8, <1>9 DEF Good

(* The handler is installed again when the lists are displayed.            *)
LEMMA DisplayedKeeps ==
  ASSUME Good, Displayed
  PROVE  Good'
<1>1. /\ At("display") /\ Unwind /\ watched' = watched \cup ({server_fd} \ {NoFd})
      /\ UNCHANGED <<modeVars, server_fd, timers, timer, listVars, countVars>>
  BY DEF Displayed
<1>2. /\ Online(stack) /\ Connected /\ Pending(stack[1]) /\ stack[1].at = "display"
      /\ Lists(stack) /\ Len(stack) \in Nat /\ Len(stack) >= 1
  BY <1>1, Standpoint
<1>3. stack \in Seq(Frames) /\ Popped(stack, stack')
  BY <1>1, TopIs, StackMoves DEF Good, BrowseType, Unwind
<1>4. server_fd \in Sockets \cup {NoFd}
  BY DEF Good, BrowseType
<1>5. BrowseType'
  BY <1>1, <1>3, <1>4 DEF Good, BrowseType, Popped, modeVars, listVars, countVars
<1>6. \A i \in 1 .. Len(stack') :
        /\ stack'[i] = stack[i + 1] /\ i + 1 \in 1 .. Len(stack)
        /\ stack'[i].at \in Outer \ {"cleaning"}
  <2> TAKE i \in 1 .. Len(stack')
  <2>1. stack'[i] = stack[i + 1] /\ i + 1 \in 1 .. Len(stack) /\ i + 1 # 1
    BY <1>2, <1>3 DEF Popped
  <2>2. Nests(stack, i + 1)
    BY <1>2, <2>1 DEF Online
  <2> QED BY <1>2, <2>1, <2>2 DEF Nests, Outer
<1>7. Online(stack)'
  <2>1. Connected'
    BY <1>1, <1>2 DEF Connected, modeVars
  <2>2. \A i \in 1 .. Len(stack') : Nests(stack, i)'
    BY <1>6 DEF Nests, Outer
  <2> QED BY <2>1, <2>2 DEF Online
<1>8. Lists(stack)'
  <2>1. Shown(n_msgs)'
    BY <1>1, <1>2 DEF Pending, ToAssign, Shown, listVars
  <2>2. Len(stack') \in Nat
    BY <1>5 DEF BrowseType
  <2>3. Len(stack') > 0 => Pending(stack[1])'
    BY <1>6, <2>1, <2>2 DEF Pending, ToAssign, Outer
  <2>4. \A i \in 1 .. Len(stack') : stack'[i].at # "cleaning"
    BY <1>6
  <2> QED BY <1>1, <1>2, <2>1, <2>3, <2>4 DEF Lists, listVars
<1> QED BY <1>5, <1>7, <1>8 DEF Good

(* The lines of a message are added to those that server_event has.        *)
LEMMA AddLinesKeeps ==
  ASSUME Good, NEW p \in {"reading", "cleaning"}, At(p), NEW g \in Frames, NEW m \in Nat,
         Shown(g.start)', n_msgs = g.start + Len(g.list), AddLines(g, m),
         UNCHANGED <<modeVars, netVars, log_val, log_val_Time>>, browsed' \in Nat
  PROVE  Good'
<1>1. /\ Online(stack) /\ Connected /\ Nests(stack, 1) /\ stack[1].at = p
      /\ log_val_Time = log_val
  BY Standpoint DEF Innermost
<1>2. PICK n \in 0 .. 2 :
        /\ n_msgs' = n_msgs + n
        /\ Goto([g EXCEPT !.at = "reading", !.list = @ \o [i \in 1 .. n |-> m]])
  BY DEF AddLines
<1> DEFINE a == g.list
           b == [i \in 1 .. n |-> m]
           l == a \o b
           h == [g EXCEPT !.at = "reading", !.list = l]
<1>3. a \in Seq(Nat) /\ b \in Seq(Nat) /\ Len(b) = n /\ n \in Nat /\ g.start \in Nat
  BY DEF Frames
<1> HIDE DEF a, b
<1>4. l \in Seq(Nat) /\ Len(l) = Len(a) + n /\ Len(a) \in Nat
  BY <1>3, ConcatProperties
<1> HIDE DEF l
<1>5. h \in Frames /\ h.at = "reading" /\ h.list = l /\ h.start = g.start
  BY <1>4 DEF Frames, Standing
<1>6. Goto(h)
  BY <1>2 DEF a, b, l
<1>7. PICK f \in Frames : /\ Goto(f) /\ f.at = "reading" /\ f.list = l /\ f.start = g.start
  BY <1>5, <1>6
<1> HIDE DEF h
<1>8. n_msgs' = f.start + Len(f.list) /\ n_msgs' \in Nat
  BY <1>2, <1>3, <1>4, <1>7 DEF a
<1>9. BrowseType'
  <2>1. stack' \in Seq(Frames)
    BY <1>7, GoesTo
  <2> QED BY <1>8, <2>1 DEF Good, BrowseType, modeVars, netVars
<1>10. Online(stack)'
  <2>1. Connected' /\ UNCHANGED <<server_fd, watched>>
    BY <1>1 DEF Connected, modeVars, netVars
  <2>2. server_fd' # NoFd /\ watched' = {}
    BY <1>1, <2>1 DEF Nests
  <2> QED BY <1>1, <1>7, <2>1, <2>2, GoesToOnline DEF Innermost
<1>11. Lists(stack)'
  <2>1. Shown(f.start)'
    BY <1>7 DEF Shown
  <2>2. Pending(f)'
    BY <1>7, <1>8, <2>1 DEF Pending, ToAssign
  <2> QED BY <1>1, <1>7, <2>2, GoesToLists
<1> QED BY <1>9, <1>10, <1>11 DEF Good

(* ... after the lines that doClean left, when it returns, ...             *)
LEMMA AfterCleanKeeps ==
  ASSUME BrowseAssumption, Good, AfterClean
  PROVE  Good'
<1> DEFINE g == AutoCleaned(Top)
<1>1. /\ At("cleaning") /\ AddLines(g, Top.msg)
      /\ UNCHANGED <<modeVars, netVars, log_val, log_val_Time, countVars>>
  BY DEF AfterClean
<1>2. /\ Online(stack) /\ Lists(stack) /\ Top = stack[1] /\ Top \in Frames
      /\ stack[1].at = "cleaning" /\ Len(stack) \in Nat /\ Len(stack) >= 1
  BY <1>1, Standpoint
<1>3. log_val = <<>> /\ n_msgs = 0
  BY <1>2 DEF Lists
<1>4. g \in Frames /\ g.start = 0 /\ g.list = <<>> /\ Top.msg \in Nat
  <2>1. <<>> \in Seq(Nat) /\ 0 \in Nat
    OBVIOUS
  <2> QED BY <1>2, <2>1 DEF AutoCleaned, Frames
<1>5. Shown(0)' /\ n_msgs = 0 + Len(<<>>)
  BY <1>1, <1>3 DEF Shown, BrowseAssumption
<1>6. PICK f \in Frames : f.start = 0 /\ f.list = <<>> /\ AddLines(f, Top.msg)
  BY <1>1, <1>4
<1>7. browsed' \in Nat
  BY <1>1 DEF Good, BrowseType, countVars
<1>8. PICK m \in Nat : AddLines(f, m)
  BY <1>4, <1>6
<1>9. Shown(f.start)' /\ n_msgs = f.start + Len(f.list)
  BY <1>5, <1>6 DEF Shown
<1> QED BY <1>1, <1>7, <1>8, <1>9, AddLinesKeeps

(* ... or after those read before.                                         *)
LEMMA GetsMessageKeeps ==
  ASSUME Good, GetsMessage
  PROVE  Good'
<1>1. /\ At("reading") /\ browsed' = browsed + 1 /\ AddLines(Top, browsed')
      /\ UNCHANGED <<modeVars, netVars, log_val, log_val_Time>>
  BY DEF GetsMessage
<1>2. /\ Pending(stack[1]) /\ Top = stack[1] /\ Top \in Frames /\ stack[1].at = "reading"
  BY <1>1, Standpoint
<1>3. Shown(Top.start) /\ n_msgs = Top.start + Len(Top.list)
  BY <1>2 DEF Pending
<1>4. browsed' \in Nat
  BY <1>1 DEF Good, BrowseType
<1>5. PICK m \in Nat : AddLines(Top, m)
  BY <1>1, <1>4
<1>6. PICK f \in Frames : f = Top
  BY <1>2
<1>7. Shown(f.start)' /\ n_msgs = f.start + Len(f.list) /\ AddLines(f, m)
  BY <1>1, <1>3, <1>5, <1>6 DEF Shown
<1> QED BY <1>1, <1>4, <1>7, AddLinesKeeps

(* The message of the start of a run: server_event is cleaning the lists,  *)
(* and doClean begins inside it.                                           *)
LEMMA GetsStartOfRunKeeps ==
  ASSUME BrowseAssumption, Good, GetsStartOfRun
  PROVE  Good'
<1> DEFINE g == [Top EXCEPT !.at = "cleaning", !.msg = browsed']
           f == Frame("cleared")
           s == <<g>> \o Tail(stack)
<1>1. /\ At("reading") /\ server_fd # NoFd /\ browsed' = browsed + 1 /\ DoClean(s)
      /\ UNCHANGED <<online, netVars>>
  BY DEF GetsStartOfRun
<1>2. /\ Online(stack) /\ Connected /\ Nests(stack, 1) /\ stack[1].at = "reading"
      /\ Top \in Frames /\ Len(stack) \in Nat /\ Len(stack) >= 1
  BY <1>1, Standpoint DEF Innermost
<1>3. /\ busy' = (busy \/ ~online) /\ ClearLists /\ stack' = <<f>> \o s
  BY <1>1, <1>2 DEF Connected, DoClean
<1>4. browsed' \in Nat
  BY <1>1 DEF Good, BrowseType
<1>5. f \in Frames /\ f.at = "cleared"
  BY FrameType DEF Standing
<1>6. g \in Frames /\ g.at = "cleaning"
  <2> DEFINE m == browsed'
  <2>1. m \in Nat
    BY <1>4
  <2> HIDE DEF m
  <2>2. [Top EXCEPT !.at = "cleaning", !.msg = m] \in Frames
    BY <1>2, <2>1 DEF Frames, Standing
  <2> QED BY <1>2, <2>2 DEF Frames, m
<1> HIDE DEF g, f
<1>7. stack \in Seq(Frames) /\ stack # <<>>
  BY <1>1, TopIs DEF Good, BrowseType
<1>8. Replaced(stack, g, s)
  BY <1>6, <1>7, StackMoves
<1> HIDE DEF s
<1>9. s \in Seq(Frames) /\ Len(s) = Len(stack) /\ s[1] = g
  BY <1>8 DEF Replaced
<1>10. Pushed(s, f, stack')
  BY <1>3, <1>5, <1>9, StackMoves
<1>11. /\ stack' \in Seq(Frames) /\ Len(stack') = Len(stack) + 1 /\ stack'[1] = f
       /\ \A i \in 2 .. Len(stack') : stack'[i] = s[i - 1] /\ i - 1 \in 1 .. Len(s)
  BY <1>9, <1>10 DEF Pushed
<1>12. /\ log_val' = <<>> /\ log_val_Time' = <<>> /\ n_msgs' = 0 /\ Shown(0)'
  BY <1>3 DEF ClearLists, Shown, BrowseAssumption
<1>13. BrowseType'
  BY <1>1, <1>3, <1>4, <1>11, <1>12 DEF Good, BrowseType, netVars
<1>14. Online(stack)'
  <2>1. Connected'
    BY <1>1, <1>2, <1>3 DEF Connected, netVars
  <2>2. server_fd' # NoFd /\ watched' = {}
    BY <1>1, <1>2 DEF Nests, netVars
  <2>3. ASSUME NEW i \in 1 .. Len(stack') PROVE Nests(stack, i)'
    <3>1. CASE i = 1
      BY <1>5, <1>11, <3>1 DEF Nests, Outer
    <3>2. CASE i = 2
      <4>1. stack'[2] = g /\ stack'[1].at = "cleared"
        <5>1. 2 \in 2 .. Len(stack') /\ 2 - 1 = 1
          BY <1>2, <1>11
        <5> QED BY <1>5, <1>9, <1>11, <5>1
      <4> QED BY <1>6, <2>2, <3>2, <4>1 DEF Nests, Outer
    <3>3. CASE i > 2
      <4>1. i - 1 \in 2 .. Len(s) /\ stack'[i] = s[i - 1]
        BY <1>11, <3>3
      <4>2. stack'[i] = stack[i - 1] /\ i - 1 \in 1 .. Len(stack) /\ i - 1 # 1
        BY <1>8, <3>3, <4>1 DEF Replaced
      <4>3. Nests(stack, i - 1)
        BY <1>2, <4>2 DEF Online
      <4>4. stack'[i].at \in Outer \ {"cleaning"}
        BY <1>2, <4>2, <4>3 DEF Nests, Outer
      <4> QED BY <3>3, <4>4 DEF Nests, Outer
    <3> QED BY <3>1, <3>2, <3>3
  <2> QED BY <2>1, <2>3 DEF Online
<1>15. Lists(stack)'
  <2>1. Pending(f)'
    BY <1>5, <1>12 DEF Pending, ToAssign
  <2>2. Len(stack') > 0 /\ Len(stack') # 0
    BY <1>2, <1>11
  <2> QED BY <1>11, <1>12, <2>1, <2>2 DEF Lists
<1> QED BY <1>13, <1>14, <1>15 DEF Good

(* The connection is not closed while server_event reads.                  *)
LEMMA EventFailsNot ==
  ASSUME Good, EventFails
  PROVE  FALSE
<1>1. At("reading") /\ server_fd = NoFd
  BY DEF EventFails
<1>2. Nests(stack, 1) /\ stack[1].at = "reading"
  BY <1>1, Standpoint DEF Innermost
<1> QED BY <1>1, <1>2 DEF Nests

-----------------------------------------------------------------------------
(* Without a connection: the one procedure goes on, or ends.               *)
LEMMA GoesToAlone ==
  ASSUME Good, NEW p, At(p), p # "idle", NEW f \in Frames, Goto(f), Alone(stack),
         UNCHANGED netVars, ~online',
         \/ f.at = "ends" /\ ~busy'
         \/ f.at \in {"cleared", "offline", "query ends", "querying", "retrieved",
                      "processing", "formatting", "formatted"}
  PROVE  Alone(stack)'
<1>1. /\ stack # <<>> /\ server_fd = NoFd /\ timers = {} /\ watched = {}
  BY TopIs DEF Alone, Good, BrowseType
<1>2. Len(stack) = 1
  BY <1>1 DEF Alone
<1>3. Len(stack') = 1 /\ stack'[1] = f
  BY <1>2, GoesTo
<1> QED BY <1>1, <1>3 DEF Alone, netVars

(* doOnline gives up: a filter is not well formed.                         *)
LEMMA BadFilterKeeps ==
  ASSUME Good, BadFilter
  PROVE  Good'
<1> DEFINE f == Frame("ends")
<1>1. f \in Frames /\ f.at = "ends"
  BY FrameType DEF Standing
<1> HIDE DEF f
<1>2. /\ At("bad filter") /\ Goto(f) /\ online' = ~online /\ busy' = FALSE
      /\ UNCHANGED <<netVars, listVars, countVars>>
  BY DEF BadFilter, f
<1>3. /\ Alone(stack) /\ Len(stack) = 1 /\ stack[1].at = "bad filter"
      /\ Pending(stack[1]) /\ log_val_Time = log_val
  BY <1>2, Standpoint
<1>4. online
  <2>1. stack # <<>>
    BY <1>2, TopIs DEF Good, BrowseType
  <2> QED BY <1>3, <2>1 DEF Alone
<1>5. BrowseType'
  <2>1. stack' \in Seq(Frames)
    BY <1>1, <1>2, GoesTo
  <2> QED BY <1>2, <2>1 DEF Good, BrowseType, netVars, listVars, countVars
<1>6. Alone(stack)'
  BY <1>1, <1>2, <1>3, <1>4, GoesToAlone
<1>7. Lists(stack)'
  <2>1. Pending(f)'
    BY <1>1, <1>2, <1>3 DEF Pending, Shown, ToAssign, listVars
  <2> QED BY <1>1, <1>2, <1>3, <2>1, GoesToLists DEF listVars
<1> QED BY <1>5, <1>6, <1>7 DEF Good

(* doQuery, between the calls of update.                                   *)
LEMMA RetrievedKeeps ==
  ASSUME BrowseAssumption, Good, Retrieved
  PROVE  Good'
<1>1. At("querying") /\ ClearLists /\ UNCHANGED <<modeVars, netVars, countVars>>
  BY DEF Retrieved
<1>2. Alone(stack) /\ Len(stack) = 1 /\ stack[1].at = "querying"
  BY <1>1, Standpoint
<1>3. ~online
  BY <1>2 DEF Alone
<1>4. /\ log_val' = <<>> /\ log_val_Time' = <<>> /\ n_msgs' = 0 /\ Shown(0)'
      /\ maxmess \in Nat
  BY <1>1 DEF ClearLists, Shown, BrowseAssumption
<1>5. PICK f \in Frames :
        /\ Goto(f)
        /\ f.at = "query ends" \/ (f.at = "retrieved" /\ Len(f.list) <= maxmess)
  <2>1. CASE Goto(Frame("query ends"))
    <3>1. Frame("query ends") \in Frames /\ Frame("query ends").at = "query ends"
      BY FrameType DEF Standing
    <3> QED BY <2>1, <3>1
  <2>2. ASSUME NEW n \in {0, 1, maxmess},
               Goto([Frame("retrieved") EXCEPT !.list = [i \in 1 .. n |-> FromDB]])
        PROVE  \E f \in Frames : Goto(f) /\ f.at = "retrieved" /\ Len(f.list) <= maxmess
    <3> DEFINE r == Frame("retrieved")
               l == [i \in 1 .. n |-> FromDB]
               h == [r EXCEPT !.list = l]
    <3>1. r \in Frames /\ r.at = "retrieved"
      BY FrameType DEF Standing
    <3>2. l \in Seq(Nat) /\ Len(l) = n /\ n <= maxmess
      BY <1>4 DEF FromDB, BrowseAssumption
    <3> HIDE DEF r, l
    <3>3. h \in Frames /\ h.at = "retrieved" /\ h.list = l
      BY <3>1, <3>2 DEF Frames
    <3>4. Goto(h)
      BY <2>2 DEF r, l
    <3> HIDE DEF h
    <3> QED BY <3>2, <3>3, <3>4
  <2> QED BY <2>1, <2>2 DEF Retrieved
<1>6. BrowseType'
  <2>1. stack' \in Seq(Frames)
    BY <1>1, <1>5, GoesTo
  <2> QED BY <1>1, <1>4, <2>1 DEF Good, BrowseType, modeVars, netVars, countVars
<1>7. Alone(stack)'
  BY <1>1, <1>2, <1>3, <1>5, GoesToAlone DEF modeVars
<1>8. Lists(stack)'
  <2>1. Pending(f)'
    BY <1>4, <1>5 DEF Pending, ToAssign
  <2> QED BY <1>1, <1>4, <1>5, <2>1, GoesToLists
<1> QED BY <1>6, <1>7, <1>8 DEF Good

(* The rows that the database returned are counted, ...                    *)
LEMMA CountRowsKeeps ==
  ASSUME Good, CountRows
  PROVE  Good'
<1>1. /\ At("retrieved") /\ n_msgs' = Len(Top.list) /\ Goto([Top EXCEPT !.at = "processing"])
      /\ UNCHANGED <<modeVars, netVars, log_val, log_val_Time, countVars>>
  BY DEF CountRows
<1>2. /\ Alone(stack) /\ Len(stack) = 1 /\ stack[1].at = "retrieved" /\ log_val_Time = log_val
      /\ Pending(stack[1]) /\ Top = stack[1] /\ Top \in Frames
  BY <1>1, Standpoint
<1>3. ~online /\ log_val = <<>> /\ Len(Top.list) <= maxmess
  BY <1>2 DEF Alone, Pending
<1>4. PICK f \in Frames : Goto(f) /\ f.at = "processing" /\ f.list = Top.list
  <2>1. [Top EXCEPT !.at = "processing"] \in Frames
    BY <1>2 DEF Frames, Standing
  <2> QED BY <1>1, <1>2, <2>1 DEF Frames
<1>5. Top.list \in Seq(Nat)
  BY <1>2 DEF Frames
<1>6. BrowseType'
  <2>1. stack' \in Seq(Frames)
    BY <1>1, <1>4, GoesTo
  <2>2. n_msgs' \in Nat
    BY <1>1, <1>5
  <2> QED BY <1>1, <2>1, <2>2 DEF Good, BrowseType, modeVars, netVars, countVars
<1>7. Alone(stack)'
  BY <1>1, <1>2, <1>3, <1>4, GoesToAlone DEF modeVars
<1>8. Lists(stack)'
  <2>1. Pending(f)'
    BY <1>1, <1>3, <1>4 DEF Pending, ToAssign
  <2> QED BY <1>1, <1>2, <1>4, <2>1, GoesToLists
<1> QED BY <1>6, <1>7, <1>8 DEF Good

(* ... and displayed.                                                      *)
LEMMA AssignRowsKeeps ==
  ASSUME BrowseAssumption, Good, AssignRows
  PROVE  Good'
<1> DEFINE f == Frame("query ends")
<1>1. f \in Frames /\ f.at = "query ends"
  BY FrameType DEF Standing
<1> HIDE DEF f
<1>2. /\ At("processing") /\ Goto(f) /\ log_val' = Top.list /\ log_val_Time' = Top.list
      /\ UNCHANGED <<modeVars, netVars, n_msgs, countVars>>
  BY DEF AssignRows, f
<1>3. /\ Alone(stack) /\ Len(stack) = 1 /\ stack[1].at = "processing"
      /\ Pending(stack[1]) /\ Top = stack[1] /\ Top \in Frames
  BY <1>2, Standpoint
<1>4. ~online /\ Top.list \in Seq(Nat) /\ n_msgs = Len(Top.list) /\ n_msgs <= maxmess
  BY <1>3 DEF Alone, Pending, Frames
<1>5. BrowseType'
  <2>1. stack' \in Seq(Frames)
    BY <1>1, <1>2, GoesTo
  <2> QED BY <1>2, <1>4, <2>1 DEF Good, BrowseType, modeVars, netVars, countVars
<1>6. Alone(stack)'
  BY <1>1, <1>2, <1>3, <1>4, GoesToAlone DEF modeVars
<1>7. Lists(stack)'
  <2>1. n_msgs \in Nat /\ (n_msgs < maxmess \/ n_msgs = maxmess)
    BY <1>4 DEF Good, BrowseType, BrowseAssumption
  <2>2. Shown(n_msgs)' /\ log_val_Time' = log_val'
    BY <1>2, <1>4, <2>1 DEF Shown
  <2>3. Pending(f)'
    BY <1>1, <2>2 DEF Pending, ToAssign
  <2>4. PICK p \in {"processing"} : At(p)
    BY <1>2
  <2>5. p # "idle" /\ p \notin {"cleared", "ends"} /\ f.at # "cleaning"
    BY <1>1
  <2> QED BY <1>1, <1>2, <2>2, <2>3, <2>4, <2>5, GoesToLists
<1> QED BY <1>5, <1>6, <1>7 DEF Good

(* update_time, after its call of update.                                  *)
LEMMA AssignTimesKeeps ==
  ASSUME Good, AssignTimes
  PROVE  Good'
<1> DEFINE f == Frame("formatted")
<1>1. f \in Frames /\ f.at = "formatted"
  BY FrameType DEF Standing
<1> HIDE DEF f
<1>2. /\ At("formatting") /\ Goto(f) /\ log_val_Time' = Top.list
      /\ UNCHANGED <<modeVars, netVars, log_val, n_msgs, countVars>>
  BY DEF AssignTimes, f
<1>3. /\ Alone(stack) /\ Len(stack) = 1 /\ stack[1].at = "formatting"
      /\ Pending(stack[1]) /\ Top = stack[1] /\ stack # <<>>
  BY <1>2, Standpoint, TopIs DEF Good, BrowseType
<1>4. ~online /\ Top.list = log_val /\ Shown(n_msgs)
  BY <1>3 DEF Alone, Pending, ToAssign
<1>5. BrowseType'
  <2>1. stack' \in Seq(Frames)
    BY <1>1, <1>2, GoesTo
  <2> QED BY <1>2, <1>4, <2>1 DEF Good, BrowseType, modeVars, netVars, countVars
<1>6. Alone(stack)'
  <2>1. UNCHANGED <<online, busy>>
    BY <1>2 DEF modeVars
  <2> QED BY <1>1, <1>2, <1>3, <1>4, <2>1, GoesToAlone
<1>7. Lists(stack)'
  <2>1. Shown(n_msgs)' /\ log_val_Time' = log_val'
    BY <1>2, <1>4 DEF Shown
  <2>2. Pending(f)'
    BY <1>1, <2>1 DEF Pending, ToAssign
  <2>3. PICK p \in {"formatting"} : At(p)
    BY <1>2
  <2>4. p # "idle" /\ p \notin {"cleared", "ends"} /\ f.at # "cleaning"
    BY <1>1
  <2> QED BY <1>1, <1>2, <2>1, <2>2, <2>3, <2>4, GoesToLists
<1> QED BY <1>5, <1>6, <1>7 DEF Good

(* doOnline, doQuery and update_time end.                                  *)
Ending == {"offline", "query ends", "formatted"}
EndsAt(p) ==
  /\ At(p) /\ Unwind /\ busy' = FALSE
  /\ UNCHANGED <<online, netVars, listVars, countVars>>

(* The procedure of EndsAt was the only one, and its lists are right.      *)
LEMMA EndKeeps ==
  ASSUME Good, NEW p \in Ending, EndsAt(p)
  PROVE  Good'
<1>1. /\ Alone(stack) /\ Len(stack) = 1 /\ stack[1].at = p /\ Pending(stack[1])
      /\ log_val_Time = log_val /\ At(p) /\ Len(stack) \in Nat
  BY Standpoint DEF EndsAt, Ending
<1>2. stack \in Seq(Frames) /\ stack # <<>>
  BY <1>1, TopIs DEF Good, BrowseType, Ending
<1>3. Popped(stack, stack')
  BY <1>2, StackMoves DEF EndsAt, Unwind
<1>4. stack' = <<>> /\ Len(stack') = 0 /\ stack' \in Seq(Frames)
  <2>1. Len(stack') = Len(stack) - 1 /\ stack' \in Seq(Frames)
    BY <1>3 DEF Popped
  <2>2. Len(stack) = 1 /\ Len(stack) \in Nat
    BY <1>1
  <2>3. Len(stack') = 0
    BY <2>1, <2>2
  <2> QED BY <2>1, <2>3, EmptySeq
<1>5. ~online
  BY <1>1, <1>2 DEF Alone, Ending
<1>6. BrowseType'
  BY <1>4 DEF Good, EndsAt, BrowseType, netVars, listVars, countVars
<1>7. Alone(stack)'
  BY <1>1, <1>4, <1>5 DEF Alone, EndsAt, netVars
<1>8. Lists(stack)'
  <2>1. Shown(n_msgs)
    BY <1>1 DEF Pending, ToAssign, Ending
  <2>2. Shown(n_msgs)' /\ log_val_Time' = log_val'
    BY <1>1, <2>1 DEF Shown, EndsAt, listVars
  <2> QED BY <1>4, <2>2 DEF Lists
<1> QED BY <1>6, <1>7, <1>8 DEF Good

-----------------------------------------------------------------------------
(* A procedure begins in the event loop.                                   *)
LEMMA StartsInside ==
  ASSUME Good, NEW f \in Frames, stack' = <<f>> \o stack, f.at # "cleaning",
         log_val_Time' = log_val', Pending(f)', UNCHANGED listVars \/ ClearLists
  PROVE  /\ stack' \in Seq(Frames) /\ Pushed(stack, f, stack') /\ Len(stack) \in Nat
         /\ Len(stack') = Len(stack) + 1 /\ stack'[1] = f
         /\ Lists(stack)'
<1>1. stack \in Seq(Frames)
  BY DEF Good, BrowseType
<1>2. Pushed(stack, f, stack') /\ Len(stack) \in Nat
  BY <1>1, StackMoves
<1>3. /\ stack' \in Seq(Frames) /\ Len(stack') = Len(stack) + 1 /\ stack'[1] = f
      /\ \A i \in 2 .. Len(stack') : stack'[i] = stack[i - 1] /\ i - 1 \in 1 .. Len(stack)
  BY <1>2 DEF Pushed
<1>4. ASSUME NEW i \in 1 .. Len(stack'), stack'[i].at = "cleaning"
      PROVE  log_val' = <<>> /\ n_msgs' = 0
  <2>1. i \in 2 .. Len(stack')
    BY <1>2, <1>3, <1>4
  <2>2. stack[i - 1].at = "cleaning" /\ i - 1 \in 1 .. Len(stack)
    BY <1>3, <1>4, <2>1
  <2>3. log_val = <<>> /\ n_msgs = 0
    BY <2>2 DEF Good, Lists
  <2> QED BY <2>3 DEF listVars, ClearLists
<1> QED BY <1>2, <1>3, <1>4 DEF Lists

(* What is shown when nothing is left to assign.                           *)
LEMMA ShownBetween ==
  ASSUME Good, stack = <<>> \/ (stack # <<>> /\ stack[1].at \notin ToAssign)
  PROVE  Shown(n_msgs) /\ log_val_Time = log_val
<1>1. Lists(stack) /\ stack \in Seq(Frames)
  BY DEF Good, BrowseType
<1>2. CASE stack = <<>>
  BY <1>1, <1>2 DEF Lists
<1>3. CASE stack # <<>> /\ stack[1].at \notin ToAssign
  <2>1. Len(stack) > 0
    BY <1>1, <1>3, StackMoves
  <2> QED BY <1>1, <1>3, <2>1 DEF Lists, Pending
<1> QED BY <1>2, <1>3

(* Where a timer or data can find the other procedures.                    *)
LEMMA InLoop ==
  ASSUME Good, InEventLoop, timers # {} \/ watched # {}
  PROVE  /\ Online(stack) /\ Connected /\ stack \in Seq(Frames)
         /\ stack = <<>> \/ (stack # <<>> /\ stack[1].at \in {"ends", "cleared", "display"})
<1>1. Online(stack) /\ Connected
  BY DEF Good, Alone, Online
<1>2. stack \in Seq(Frames)
  BY DEF Good, BrowseType
<1>3. ASSUME stack # <<>> PROVE stack[1].at \in {"ends", "cleared", "display"}
  <2>1. Len(stack) >= 1 /\ Head(stack) = stack[1] /\ Len(stack) \in Nat
    BY <1>2, <1>3, StackMoves
  <2>2. Nests(stack, 1)
    BY <1>1, <2>1 DEF Online
  <2>3. stack[1].at \notin {"opening", "cleaning", "reading"}
    BY <1>3, <2>1 DEF InEventLoop, Place, Top
  <2>4. stack[1].at \notin {"connecting", "eof"}
    BY <1>1, <2>2 DEF Nests, Connected
  <2> QED BY <2>2, <2>3, <2>4 DEF Nests, Outer, Innermost
<1> QED BY <1>1, <1>2, <1>3

(* A timer starts server_connect, inside the other procedures or not.      *)
LEMMA TimerFiresKeeps ==
  ASSUME Good, TimerFires
  PROVE  Good'
<1> DEFINE f == Frame("connecting")
<1>1. f \in Frames /\ f.at = "connecting"
  BY FrameType DEF Standing
<1> HIDE DEF f
<1>2. PICK t \in timers : timers' = timers \ {t}
  BY DEF TimerFires
<1>3. /\ InEventLoop /\ timers # {}
      /\ UNCHANGED <<modeVars, server_fd, socket, watched, timer, listVars, countVars>>
  BY <1>2 DEF TimerFires
<1>4. /\ Online(stack) /\ Connected /\ stack \in Seq(Frames)
      /\ stack = <<>> \/ (stack # <<>> /\ stack[1].at \in {"ends", "cleared", "display"})
  BY <1>3, InLoop
<1>5. server_fd = NoFd /\ timers' = {}
  BY <1>2, <1>4 DEF Connected
<1>6. stack' = <<f>> \o stack
  BY <1>5 DEF TimerFires, ServerConnect, f
<1>7. Shown(n_msgs)' /\ log_val_Time' = log_val' /\ UNCHANGED listVars
  <2>1. Shown(n_msgs) /\ log_val_Time = log_val
    BY <1>4, ShownBetween DEF ToAssign
  <2> QED BY <1>3, <2>1 DEF Shown, listVars
<1>8. Pending(f)'
  BY <1>1, <1>7 DEF Pending, ToAssign
<1>9. stack' \in Seq(Frames) /\ Pushed(stack, f, stack') /\ Lists(stack)' /\ Len(stack) \in Nat
  BY <1>1, <1>6, <1>7, <1>8, StartsInside
<1>10. BrowseType'
  BY <1>3, <1>5, <1>9 DEF Good, BrowseType, modeVars, listVars, countVars
<1>11. Online(stack)'
  <2>1. Connected' /\ server_fd' = NoFd
    BY <1>3, <1>4, <1>5 DEF Connected, modeVars
  <2>2. Len(stack) > 0 => stack[1].at \in {"ends", "cleared", "display", "opening"}
    <3>1. stack = <<>> => Len(stack) = 0
      OBVIOUS
    <3> QED BY <1>4, <1>9, <3>1
  <2> QED BY <1>1, <1>4, <1>5, <1>9, <2>1, <2>2, PushesOnline DEF Innermost
<1> QED BY <1>9, <1>10, <1>11 DEF Good

(* Data or the end of the stream starts server_event.                      *)
LEMMA SocketEventKeeps ==
  ASSUME Good, NEW s \in Sockets, SocketEvent(s)
  PROVE  Good'
<1> DEFINE h == [Frame("reading") EXCEPT !.start = n_msgs, !.from = s]
<1>1. /\ InEventLoop /\ s \in watched /\ watched # {}
      /\ UNCHANGED <<modeVars, server_fd, socket, timers, timer, listVars, countVars>>
  BY DEF SocketEvent
<1>2. /\ Online(stack) /\ Connected /\ stack \in Seq(Frames)
      /\ stack = <<>> \/ (stack # <<>> /\ stack[1].at \in {"ends", "cleared", "display"})
  BY <1>1, InLoop
<1>3. server_fd # NoFd /\ watched \ {server_fd} = {}
  BY <1>1, <1>2 DEF Connected
<1>4. watched' = {} /\ stack' = <<h>> \o stack
  BY <1>3 DEF SocketEvent
<1>5. n_msgs \in Nat
  BY DEF Good, BrowseType
<1>6. h \in Frames /\ h.at = "reading" /\ h.start = n_msgs /\ h.list = <<>>
  <2> DEFINE r == Frame("reading")
  <2>1. r \in Frames /\ r.at = "reading" /\ r.list = <<>>
    BY FrameType DEF Standing
  <2> HIDE DEF r
  <2>2. s \in Nat
    BY DEF Sockets
  <2>3. [r EXCEPT !.start = n_msgs, !.from = s] \in Frames
    BY <1>5, <2>1, <2>2 DEF Frames
  <2> QED BY <2>1, <2>3 DEF Frames, r
<1> HIDE DEF h
<1>7. PICK f \in Frames : /\ stack' = <<f>> \o stack /\ f.at = "reading"
                          /\ f.start = n_msgs /\ f.list = <<>>
  BY <1>4, <1>6
<1>8. Shown(n_msgs) /\ log_val_Time = log_val
  BY <1>2, ShownBetween DEF ToAssign
<1>9. UNCHANGED listVars /\ log_val_Time' = log_val' /\ Shown(f.start)' /\ n_msgs' = n_msgs
  BY <1>1, <1>7, <1>8 DEF Shown, listVars
<1>10. n_msgs' = f.start + Len(f.list)
  BY <1>5, <1>7, <1>9
<1>11. Pending(f)'
  BY <1>7, <1>9, <1>10 DEF Pending, ToAssign
<1>12. stack' \in Seq(Frames) /\ Pushed(stack, f, stack') /\ Lists(stack)' /\ Len(stack) \in Nat
  BY <1>7, <1>9, <1>11, StartsInside
<1>13. BrowseType'
  BY <1>1, <1>4, <1>12 DEF Good, BrowseType, modeVars, listVars, countVars
<1>14. Online(stack)'
  <2>1. Connected' /\ server_fd' # NoFd
    BY <1>1, <1>2, <1>3, <1>4 DEF Connected, modeVars
  <2>2. Len(stack) > 0 => stack[1].at \in {"ends", "cleared", "display", "opening"}
    <3>1. stack = <<>> => Len(stack) = 0
      OBVIOUS
    <3> QED BY <1>2, <1>12, <3>1
  <2> QED BY <1>1, <1>2, <1>4, <1>7, <1>12, <2>1, <2>2, PushesOnline DEF Innermost
<1> QED BY <1>12, <1>13, <1>14 DEF Good

(* The server's end of a connection.                                       *)
LEMMA ServerClosesKeeps ==
  ASSUME Good, ServerEnds
  PROVE  Good'
<1>1. UNCHANGED <<modeVars, server_fd, watched, timers, timer, listVars, stack, browsed>>
  BY DEF ServerEnds
<1>2. BrowseType'
  BY <1>1 DEF Good, BrowseType, modeVars, listVars
<1>3. Lists(stack)'
  BY <1>1 DEF Good, Lists, Pending, Shown, listVars
<1>4. (Alone(stack) \/ Online(stack))'
  BY <1>1 DEF Good, Alone, Online, Connected, Nests, modeVars
<1> QED BY <1>2, <1>3, <1>4 DEF Good

-----------------------------------------------------------------------------
(* A click when no procedure is under way.                                 *)
Idle == ~online /\ ~busy /\ server_fd = NoFd /\ timers = {} /\ watched = {}

(* What is known when no procedure is under way.                           *)
LEMMA AtRest ==
  ASSUME Good, stack = <<>>
  PROVE  /\ Idle \/ (Connected /\ Online(stack) /\ online /\ busy)
         /\ Shown(n_msgs) /\ log_val_Time = log_val /\ log_val \in Seq(Nat)
<1>1. Len(stack) = 0
  OBVIOUS
<1>2. Alone(stack) => Idle
  BY <1>1 DEF Alone, Idle
<1>3. Online(stack) => Connected /\ online /\ busy
  BY DEF Online, Connected
<1>4. Shown(n_msgs) /\ log_val_Time = log_val
  BY ShownBetween
<1> QED BY <1>2, <1>3, <1>4 DEF Good, BrowseType

(* One procedure begins, without a connection.                             *)
BeginsAlone == {"cleared", "offline", "query ends", "querying", "formatting"}
StartsAlone(f) ==
  \/ f.at \in BeginsAlone /\ ~online'
  \/ f.at = "bad filter" /\ online'

(* A click without a connection starts the only procedure.                 *)
LEMMA ClickAlone ==
  ASSUME Good, stack = <<>>, NEW f \in Frames, stack' = <<f>> \o stack,
         server_fd' = NoFd, timers' = {}, watched' = {}, StartsAlone(f)
  PROVE  Alone(stack)'
<1>1. stack \in Seq(Frames) /\ Len(stack) = 0
  BY DEF Good, BrowseType
<1>2. Pushed(stack, f, stack') /\ Len(stack) \in Nat
  BY <1>1, StackMoves
<1>3. Len(stack') = Len(stack) + 1 /\ stack'[1] = f
  BY <1>2 DEF Pushed
<1>4. Len(stack') = 1
  BY <1>1, <1>2, <1>3
<1> QED BY <1>3, <1>4 DEF Alone, BeginsAlone, StartsAlone

(* doClean.                                                                *)
LEMMA CleanNowKeeps ==
  ASSUME BrowseAssumption, Good, CleanNow, stack = <<>>
  PROVE  Good'
<1> DEFINE f == Frame("cleared")
<1>1. f \in Frames /\ f.at = "cleared"
  BY FrameType DEF Standing
<1> HIDE DEF f
<1>2. UNCHANGED <<online, netVars, browsed>> /\ DoClean(stack)
  BY DEF CleanNow, Click
<1>3. /\ Idle \/ (Connected /\ Online(stack) /\ online /\ busy)
      /\ stack \in Seq(Frames)
  BY AtRest DEF Good, BrowseType
<1>4. ~(~online /\ busy)
  BY <1>3 DEF Idle
<1>5. busy' = (busy \/ ~online) /\ ClearLists /\ stack' = <<f>> \o stack
  BY <1>2, <1>4 DEF DoClean, f
<1>6. /\ log_val' = <<>> /\ log_val_Time' = <<>> /\ n_msgs' = 0 /\ Shown(0)'
  BY <1>5 DEF ClearLists, Shown, BrowseAssumption
<1>7. Pending(f)'
  BY <1>1, <1>6 DEF Pending, ToAssign
<1>8. stack' \in Seq(Frames) /\ Pushed(stack, f, stack') /\ Lists(stack)' /\ Len(stack) = 0
  BY <1>1, <1>5, <1>6, <1>7, StartsInside
<1>9. BrowseType'
  BY <1>2, <1>5, <1>6, <1>8 DEF Good, BrowseType, netVars
<1>10. CASE Idle
  <2>1. Alone(stack)'
    BY <1>1, <1>2, <1>5, <1>10, ClickAlone DEF Idle, netVars, BeginsAlone, StartsAlone
  <2> QED BY <1>8, <1>9, <2>1 DEF Good
<1>11. CASE Connected /\ Online(stack)
  <2>1. Connected'
    BY <1>2, <1>5, <1>11 DEF Connected, netVars
  <2>2. Online(stack)'
    <3>1. f.at \in Outer /\ f.at # "connecting" /\ f.at # "eof" /\ f.at # "reading"
          /\ f.at # "cleaning"
      BY <1>1 DEF Outer
    <3>2. ~(Len(stack) > 0)
      BY <1>8
    <3> QED BY <1>1, <1>3, <1>8, <1>11, <2>1, <3>1, <3>2, PushesOnline
  <2> QED BY <1>8, <1>9, <2>2 DEF Good
<1> QED BY <1>3, <1>10, <1>11

(* A click that the procedure refuses.                                     *)
LEMMA NothingKeeps ==
  ASSUME Good, UNCHANGED <<online, busy, netVars, listVars, stack>>, browsed' = browsed
  PROVE  Good'
<1>1. BrowseType'
  BY DEF Good, BrowseType, netVars, listVars
<1>2. Lists(stack)'
  BY DEF Good, Lists, Pending, Shown, listVars
<1>3. (Alone(stack) \/ Online(stack))'
  BY DEF Good, Alone, Online, Connected, Nests, netVars
<1> QED BY <1>1, <1>2, <1>3 DEF Good

(* doQuery.                                                                *)
QueryBegins == {"query ends", "querying"}

(* doQuery, with a filter that is well formed or not.                      *)
LEMMA QueryKeeps ==
  ASSUME BrowseAssumption, Good, Query, stack = <<>>
  PROVE  Good'
<1>1. UNCHANGED <<online, netVars>> /\ browsed' = browsed
  BY DEF Query, Click
<1>2. CASE UNCHANGED <<busy, querying, listVars, stack>>
  BY <1>1, <1>2, NothingKeeps
<1>3. ASSUME NEW p \in QueryBegins, ~busy, busy' \in BOOLEAN, stack' = <<Frame(p)>> \o stack,
             ClearLists \/ UNCHANGED listVars
      PROVE  Good'
  <2>1. Idle /\ Shown(n_msgs) /\ log_val_Time = log_val /\ log_val \in Seq(Nat)
    BY <1>3, AtRest
  <2>2. PICK f \in Frames : f.at = p /\ stack' = <<f>> \o stack
    BY <1>3, FrameType DEF QueryBegins, Standing
  <2>3. Shown(n_msgs)' /\ log_val_Time' = log_val'
    BY <1>3, <2>1 DEF Shown, ClearLists, listVars, BrowseAssumption
  <2>4. Pending(f)'
    BY <1>3, <2>2, <2>3 DEF Pending, ToAssign, QueryBegins
  <2>5. f.at # "cleaning"
    BY <1>3, <2>2 DEF QueryBegins
  <2>6. stack' \in Seq(Frames) /\ Lists(stack)'
    BY <1>3, <2>2, <2>3, <2>4, <2>5, StartsInside
  <2>7. BrowseType'
    <3>1. log_val' \in Seq(Nat) /\ log_val_Time' \in Seq(Nat) /\ n_msgs' \in Nat
      <4>1. CASE ClearLists
        BY <4>1 DEF ClearLists
      <4>2. CASE UNCHANGED listVars
        BY <2>1, <4>2 DEF Good, BrowseType, listVars
      <4> QED BY <1>3, <4>1, <4>2
    <3>2. busy' \in BOOLEAN
      BY <1>3
    <3> QED BY <1>1, <2>6, <3>1, <3>2 DEF Good, BrowseType, netVars
  <2>8. Alone(stack)'
    BY <1>1, <1>3, <2>1, <2>2, ClickAlone DEF Idle, netVars, QueryBegins, BeginsAlone, StartsAlone
  <2> QED BY <2>6, <2>7, <2>8 DEF Good
<1>4. CASE /\ ~busy /\ busy' = TRUE /\ ClearLists /\ stack' = <<Frame("query ends")>> \o stack
  BY <1>3, <1>4 DEF QueryBegins
<1>5. CASE /\ ~busy /\ busy' = TRUE /\ UNCHANGED listVars
           /\ stack' = <<Frame("querying")>> \o stack
  BY <1>3, <1>5 DEF QueryBegins
<1> QED BY <1>2, <1>4, <1>5 DEF Query

(* update_time.                                                            *)
LEMMA UpdateTimeKeeps ==
  ASSUME Good, UpdateTime, stack = <<>>
  PROVE  Good'
<1> DEFINE r == Frame("formatting")
           h == [r EXCEPT !.list = log_val]
<1>1. UNCHANGED <<online, netVars, listVars>> /\ browsed' = browsed
  BY DEF UpdateTime, Click
<1>2. CASE UNCHANGED <<busy, stack>>
  BY <1>1, <1>2, NothingKeeps
<1>3. CASE ~busy /\ busy' = TRUE /\ stack' = <<h>> \o stack
  <2>1. Idle /\ Shown(n_msgs) /\ log_val_Time = log_val /\ log_val \in Seq(Nat)
    BY <1>3, AtRest
  <2>2. r \in Frames /\ r.at = "formatting"
    BY FrameType DEF Standing
  <2> HIDE DEF r
  <2>3. h \in Frames /\ h.at = "formatting" /\ h.list = log_val
    BY <2>1, <2>2 DEF Frames
  <2> HIDE DEF h
  <2>4. PICK f \in Frames : f.at = "formatting" /\ f.list = log_val /\ stack' = <<f>> \o stack
    BY <1>3, <2>3
  <2>5. Shown(n_msgs)' /\ log_val_Time' = log_val' /\ log_val' = log_val /\ UNCHANGED listVars
    BY <1>1, <2>1 DEF Shown, listVars
  <2>6. Pending(f)'
    BY <2>4, <2>5 DEF Pending, ToAssign
  <2>7. stack' \in Seq(Frames) /\ Lists(stack)'
    BY <2>4, <2>5, <2>6, StartsInside
  <2>8. BrowseType'
    <3>1. busy' \in BOOLEAN
      BY <1>3
    <3> QED BY <1>1, <2>7, <3>1 DEF Good, BrowseType, netVars, listVars
  <2>9. Alone(stack)'
    BY <1>1, <2>1, <2>4, ClickAlone DEF Idle, netVars, BeginsAlone, StartsAlone
  <2> QED BY <2>7, <2>8, <2>9 DEF Good
<1> QED BY <1>2, <1>3 DEF UpdateTime

(* doOnline, to go offline: no connection and no timer is left.            *)
LEMMA GoOfflineKeeps ==
  ASSUME Good, GoOffline, stack = <<>>
  PROVE  Good'
<1> DEFINE f == Frame("offline")
<1>1. f \in Frames /\ f.at = "offline"
  BY FrameType DEF Standing
<1> HIDE DEF f
<1>2. /\ online /\ ~online' /\ online' \in BOOLEAN /\ CloseSocket /\ timers' = timers \ {timer}
      /\ timer' = NoFd /\ stack' = <<f>> \o stack
      /\ UNCHANGED <<busy, listVars>> /\ browsed' = browsed
  BY DEF GoOffline, Click, f
<1>3. Connected /\ Shown(n_msgs) /\ log_val_Time = log_val
  BY <1>2, AtRest DEF Idle
<1>4. timers' = {} /\ server_fd' = NoFd /\ watched' = {}
  BY <1>2, <1>3 DEF Connected, CloseSocket
<1>5. Shown(n_msgs)' /\ log_val_Time' = log_val' /\ UNCHANGED listVars
  BY <1>2, <1>3 DEF Shown, listVars
<1>6. Pending(f)'
  BY <1>1, <1>5 DEF Pending, ToAssign
<1>7. stack' \in Seq(Frames) /\ Lists(stack)'
  BY <1>1, <1>2, <1>5, <1>6, StartsInside
<1>8. BrowseType'
  BY <1>2, <1>4, <1>7 DEF Good, BrowseType, listVars, NoFd
<1>9. Alone(stack)'
  BY <1>1, <1>2, <1>4, ClickAlone DEF BeginsAlone, StartsAlone
<1> QED BY <1>7, <1>8, <1>9 DEF Good

(* doOnline, to go online.                                                 *)
LEMMA GoOnlineKeeps ==
  ASSUME BrowseAssumption, Good, GoOnline, stack = <<>>
  PROVE  Good'
<1>1. /\ Idle /\ Shown(n_msgs) /\ log_val_Time = log_val /\ log_val \in Seq(Nat)
      /\ stack \in Seq(Frames)
  BY AtRest DEF GoOnline, Good, BrowseType
<1>2. ~busy /\ online' /\ online' \in BOOLEAN /\ UNCHANGED netVars /\ browsed' = browsed
  BY <1>1 DEF GoOnline, Click, Idle
<1>3. CASE /\ busy' = TRUE /\ ClearLists /\ stack' = <<Frame("bad filter")>> \o stack
  <2> DEFINE f == Frame("bad filter")
  <2>1. f \in Frames /\ f.at = "bad filter" /\ stack' = <<f>> \o stack
    BY <1>3, FrameType DEF Standing
  <2> HIDE DEF f
  <2>2. /\ log_val' = <<>> /\ log_val_Time' = <<>> /\ n_msgs' = 0 /\ Shown(n_msgs)'
        /\ busy' \in BOOLEAN
    <3>1. log_val' = <<>> /\ log_val_Time' = <<>> /\ n_msgs' = 0
      BY <1>3 DEF ClearLists
    <3>2. Shown(n_msgs)'
      <4>1. Len(log_val') = 0 /\ n_msgs' < maxmess
        BY <3>1 DEF BrowseAssumption
      <4> QED BY <3>1, <4>1 DEF Shown
    <3>3. busy' \in BOOLEAN
      BY <1>3
    <3> QED BY <3>1, <3>2, <3>3
  <2>3. Pending(f)'
    BY <2>1, <2>2 DEF Pending, ToAssign
  <2>4. stack' \in Seq(Frames) /\ Lists(stack)'
    BY <1>3, <2>1, <2>2, <2>3, StartsInside
  <2>5. BrowseType'
    BY <1>2, <2>2, <2>4 DEF Good, BrowseType, netVars
  <2>6. Alone(stack)'
    BY <1>1, <1>2, <2>1, ClickAlone DEF Idle, netVars, StartsAlone
  <2> QED BY <2>4, <2>5, <2>6 DEF Good
<1>4. CASE /\ busy' = TRUE /\ UNCHANGED listVars
           /\ ServerConnect(<<Frame("opening")>> \o stack)
  <2> DEFINE f == Frame("opening")
             g == Frame("connecting")
             s == <<f>> \o stack
  <2>1. f \in Frames /\ f.at = "opening" /\ g \in Frames /\ g.at = "connecting"
    BY FrameType DEF Standing
  <2>2. stack' = <<g>> \o s
    BY <1>1, <1>4 DEF ServerConnect, Idle
  <2> HIDE DEF f, g
  <2>3. Pushed(stack, f, s) /\ Len(stack) = 0 /\ Len(stack) \in Nat
    BY <1>1, <2>1, StackMoves
  <2> HIDE DEF s
  <2>4. s \in Seq(Frames) /\ Len(s) = Len(stack) + 1 /\ s[1] = f
    BY <2>3 DEF Pushed
  <2>5. Len(s) = 1
    BY <2>3, <2>4
  <2>6. Pushed(s, g, stack')
    BY <2>1, <2>2, <2>4, StackMoves
  <2>7. /\ stack' \in Seq(Frames) /\ Len(stack') = Len(s) + 1 /\ stack'[1] = g
        /\ \A i \in 2 .. Len(stack') : stack'[i] = s[i - 1] /\ i - 1 \in 1 .. Len(s)
    BY <2>6 DEF Pushed
  <2>8. Len(stack') = 2 /\ stack'[2] = f
    BY <2>4, <2>5, <2>7
  <2>9. Shown(n_msgs)' /\ log_val_Time' = log_val' /\ busy' \in BOOLEAN /\ busy'
    BY <1>1, <1>4 DEF Shown, listVars
  <2>10. BrowseType'
    BY <1>2, <1>4, <2>7, <2>9 DEF Good, BrowseType, netVars, listVars
  <2>11. Online(stack)'
    <3>1. Connected' /\ server_fd' = NoFd /\ timers' = {}
      BY <1>1, <1>2, <2>9 DEF Connected, Idle, netVars
    <3>2. \A i \in 1 .. Len(stack') : i = 1 \/ i = 2
      BY <2>8
    <3>3. Nests(stack, 1)' /\ Nests(stack, 2)'
      BY <2>1, <2>7, <2>8, <3>1 DEF Nests, Outer, Innermost
    <3>4. \A i \in 1 .. Len(stack') : Nests(stack, i)'
      BY <3>2, <3>3
    <3> QED BY <3>1, <3>4 DEF Online
  <2>12. Lists(stack)'
    <3>1. Pending(g)'
      BY <2>1, <2>9 DEF Pending, ToAssign
    <3>2. \A i \in 1 .. Len(stack') : i = 1 \/ i = 2
      BY <2>8
    <3>3. \A i \in 1 .. Len(stack') : stack'[i].at # "cleaning"
      BY <2>1, <2>7, <2>8, <3>2
    <3>4. Len(stack') # 0
      BY <2>8
    <3> QED BY <2>7, <2>9, <3>1, <3>3, <3>4 DEF Lists
  <2> QED BY <2>10, <2>11, <2>12 DEF Good
<1> QED BY <1>2, <1>3, <1>4 DEF GoOnline

-----------------------------------------------------------------------------
(* No procedure is under way at the start, and the lists are empty.        *)
LEMMA BrowseInvInit ==
  ASSUME BrowseAssumption, BrowseInit
  PROVE  Good
<1>1. stack = <<>> /\ Len(stack) = 0 /\ log_val = <<>> /\ Len(log_val) = 0 /\ n_msgs = 0
  BY DEF BrowseInit
<1>2. BrowseType
  <2>1. /\ log_val \in Seq(Nat) /\ log_val_Time \in Seq(Nat) /\ n_msgs \in Nat
        /\ stack \in Seq(Frames)
    BY DEF BrowseInit
  <2>2. online \in BOOLEAN /\ busy \in BOOLEAN
    BY DEF BrowseInit
  <2>3. /\ server_fd \in Sockets \cup {NoFd} /\ timers \subseteq Timers /\ timer \in Nat
        /\ watched \subseteq Sockets /\ browsed \in Nat
    BY DEF BrowseInit, NoFd
  <2> QED BY <2>1, <2>2, <2>3 DEF BrowseType
<1>3. Alone(stack)
  BY <1>1 DEF BrowseInit, Alone
<1>4. Lists(stack)
  <2>1. log_val_Time = log_val
    BY DEF BrowseInit
  <2>2. 0 < maxmess
    BY DEF BrowseAssumption
  <2>3. Shown(n_msgs)
    BY <1>1, <2>2 DEF Shown
  <2> QED BY <1>1, <2>1, <2>3 DEF Lists
<1> QED BY <1>2, <1>3, <1>4 DEF Good

(* What a click did while a procedure was under way is not forgotten.      *)
LEMMA NestedStays ==
  ASSUME nested, [BrowseNext]_browseVars
  PROVE  nested'
<1>1. CASE UNCHANGED browseVars
  BY <1>1 DEF browseVars, countVars
<1>2. CASE Procedure
  BY <1>2 DEF Procedure, countVars, LastUpdate, Refused, Opened, BadFilter, ResetOnline,
              Offline, Cleared, AfterClean, GetsNothing, StreamEnded, AfterClose, EventFails,
              Displayed, Retrieved, CountRows, AssignRows, QueryEnds, AssignTimes, TimeEnds
<1>3. CASE EventLoop
  BY <1>3 DEF EventLoop, countVars, TimerFires, SocketEvent
<1>4. CASE Clicks
  <2>1. Click
    BY <1>4 DEF Clicks, GoOnline, GoOffline, CleanNow, Query, UpdateTime
  <2> QED BY <2>1 DEF Click
<1>5. CASE Server
  BY <1>5 DEF Server, GetsMessage, GetsStartOfRun, ServerEnds
<1> QED BY <1>1, <1>2, <1>3, <1>4, <1>5 DEF BrowseNext

(* What goes on by itself keeps the lists right, ...                       *)
LEMMA ProcedureKeeps ==
  ASSUME BrowseAssumption, Good, Procedure
  PROVE  Good'
<1>1. CASE LastUpdate   BY <1>1, LastUpdateKeeps
<1>2. CASE Refused      BY <1>2, RefusedKeeps
<1>3. CASE Opened       BY <1>3, OpenedKeeps
<1>4. CASE BadFilter    BY <1>4, BadFilterKeeps
<1>5. CASE ResetOnline  BY <1>5, ResetOnlineKeeps
<1>6. CASE Offline
  BY <1>6, EndKeeps DEF Offline, EndsAt, Ending
<1>7. CASE Cleared      BY <1>7, ClearedKeeps
<1>8. CASE AfterClean   BY <1>8, AfterCleanKeeps
<1>9. CASE GetsNothing  BY <1>9, GetsNothingKeeps
<1>10. CASE StreamEnded   BY <1>10, StreamEndedKeeps
<1>11. CASE AfterClose  BY <1>11, AfterCloseKeeps
<1>12. CASE EventFails  BY <1>12, EventFailsNot
<1>13. CASE Displayed   BY <1>13, DisplayedKeeps
<1>14. CASE Retrieved   BY <1>14, RetrievedKeeps
<1>15. CASE CountRows   BY <1>15, CountRowsKeeps
<1>16. CASE AssignRows  BY <1>16, AssignRowsKeeps
<1>17. CASE QueryEnds
  BY <1>17, EndKeeps DEF QueryEnds, EndsAt, Ending
<1>18. CASE AssignTimes BY <1>18, AssignTimesKeeps
<1>19. CASE TimeEnds
  BY <1>19, EndKeeps DEF TimeEnds, EndsAt, Ending
<1> QED BY <1>1, <1>2, <1>3, <1>4, <1>5, <1>6, <1>7, <1>8, <1>9, <1>10, <1>11, <1>12, <1>13,
           <1>14, <1>15, <1>16, <1>17, <1>18, <1>19 DEF Procedure

(* ... and so does a click when no procedure is under way.                 *)
LEMMA ClickKeeps ==
  ASSUME BrowseAssumption, Good, Clicks, ~nested'
  PROVE  Good'
<1>1. Click
  BY DEF Clicks, GoOnline, GoOffline, CleanNow, Query, UpdateTime
<1>2. stack = <<>>
  BY <1>1 DEF Click
<1>3. CASE GoOnline   BY <1>2, <1>3, GoOnlineKeeps
<1>4. CASE GoOffline  BY <1>2, <1>4, GoOfflineKeeps
<1>5. CASE CleanNow   BY <1>2, <1>5, CleanNowKeeps
<1>6. CASE Query      BY <1>2, <1>6, QueryKeeps
<1>7. CASE UpdateTime BY <1>2, <1>7, UpdateTimeKeeps
<1> QED BY <1>3, <1>4, <1>5, <1>6, <1>7 DEF Clicks

(* Every step of the browser keeps the invariant.                          *)
LEMMA BrowseStep ==
  ASSUME BrowseAssumption, BrowseInv, [BrowseNext]_browseVars
  PROVE  BrowseInv'
<1>1. CASE nested
  BY <1>1, NestedStays DEF BrowseInv
<1>2. CASE Good /\ ~nested'
  <2>1. CASE UNCHANGED browseVars
    BY <1>2, <2>1, NothingKeeps DEF BrowseInv, browseVars, modeVars, countVars
  <2>2. CASE Procedure
    BY <1>2, <2>2, ProcedureKeeps DEF BrowseInv
  <2>3. CASE EventLoop
    BY <1>2, <2>3, TimerFiresKeeps, SocketEventKeeps DEF BrowseInv, EventLoop
  <2>4. CASE Clicks
    BY <1>2, <2>4, ClickKeeps DEF BrowseInv
  <2>5. CASE Server
    BY <1>2, <2>5, GetsMessageKeeps, GetsStartOfRunKeeps, ServerClosesKeeps DEF BrowseInv, Server
  <2> QED BY <2>1, <2>2, <2>3, <2>4, <2>5 DEF BrowseNext
<1> QED BY <1>1, <1>2 DEF BrowseInv

(* Unless a click comes while a procedure is under way, the columns show   *)
(* the same messages, the last ones, whenever none is: infoBrowser.tcl     *)
(* keeps its lists right by the places where it calls update.              *)
THEOREM ListsHold == BrowseSpec => []ListsAgree
<1> USE BrowseAssumption
<1>1. BrowseInit => BrowseInv
  BY BrowseInvInit DEF BrowseInv
<1>2. BrowseInv /\ [BrowseNext]_browseVars => BrowseInv'
  BY BrowseStep
<1>3. BrowseInv => ListsAgree
  BY AtRest DEF BrowseInv, ListsAgree, Shown
<1> QED BY <1>1, <1>2, <1>3, PTL DEF BrowseSpec
=============================================================================
