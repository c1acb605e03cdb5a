------------------------- MODULE DurableQueueProofs -------------------------
(***************************************************************************)
(* Proofs about what the permanent FIFO promises, for every capacity and   *)
(* bound: no message comes back once it is acknowledged, wherever the      *)
(* process is killed; and, if it is not killed inside a record or inside   *)
(* permFIFO_ack, the FIFO implements DurableQueue.                         *)
(***************************************************************************)
EXTENDS PermFIFOProofs

-----------------------------------------------------------------------------
(* The items of a list, as a set.                                          *)
In(s) == {s[i] : i \in 1 .. Len(s)}

(* A message has one number; none was acknowledged; all were written.      *)
OneId(X)    == \A x, y \in X : x.msg = y.msg /\ x.msg # Torn => x.id = y.id
Fresh(X, a) == \A x \in X : x.msg # Torn => x.msg \notin a
Old(X, w)   == \A x \in X : x.msg <= w

(* What the next start will use of the file, or of the old one.            *)
Durable(f, old) ==
  IF f.kind = "fifo" THEN {x \in In(f.recs) : x.id > f.lastAckId}
  ELSE {x \in In(old.recs) : x.id > old.lastAckId}

(* What the process holds of items, in the file and in memory.             *)
HeldIn(recs, t, c, d) == In(recs) \union In(t) \union In(c) \union In(d)
Held == HeldIn(file.recs, taken, table_client, table_disk)

FileRight(f, w) ==
  OneId(In(f.recs)) /\ Old(In(f.recs), w) /\ (f.kind # "fifo" => f.recs = <<>>)
HistoryFiles ==
  /\ FileRight(file, written) /\ FileRight(fileOld, written)
  /\ FileRight(fileNew, written)
  /\ Fresh(Durable(file, fileOld), acked)

(* Where the start-up is, and what it has made of the files.               *)
HistoryStart ==
  /\ file.kind = "empty" => fileOld.recs = <<>>
  /\ mode \in {"copied", "swapped", "cleaned", "up"} => file.kind = "fifo"
  /\ mode = "renamed" => file.kind = "none"
  /\ mode \in {"copied", "renamed"} =>
       fileNew.kind = "fifo" /\ fileNew.lastAckId = 0 /\ Fresh(In(fileNew.recs), acked)
  /\ mode \in {"swapped", "cleaned"} => file.lastAckId = 0

(* What is in memory: nothing of it was acknowledged, and what the         *)
(* consumer has is above the last number acknowledged in the file.         *)
Above(t, ack, out) ==
  /\ \A i, j \in 1 .. Len(t) : i < j => t[i].id < t[j].id
  /\ \A x \in In(t) : ack < x.id /\ x.id <= out
  /\ ack <= out
TablesRight ==
  /\ OneId(Held) /\ Old(Held, written)
  /\ Fresh(In(taken), acked) /\ Fresh(In(table_client), acked)
  /\ Fresh(In(table_disk), acked)
  /\ Above(taken, file.lastAckId, lastIdOut)
HistoryTables ==
  IF mode = "up" THEN TablesRight
  ELSE taken = <<>> /\ table_client = <<>> /\ table_disk = <<>>

HistoryInv ==
  /\ \A m \in acked : m <= written
  /\ HistoryFiles /\ HistoryStart /\ HistoryTables

-----------------------------------------------------------------------------
(* Items of the lists that the FIFO's functions make.                      *)
LEMMA InItems ==
  ASSUME NEW s \in Seq(Item)
  PROVE  /\ In(s) \subseteq Item
         /\ \A x \in In(s) : x.id \in Nat \ {0} /\ x.msg \in Nat
<1>1. In(s) \subseteq Item
  BY DEF In
<1>2. \A x \in Item : x.id \in Nat \ {0} /\ x.msg \in Nat
  BY BoundAssumption DEF Item, Message, Torn
<1> QED BY <1>1, <1>2

(* An item is put at the end.                                              *)
LEMMA InAppend ==
  ASSUME NEW s \in Seq(Item), NEW x \in Item
  PROVE  In(Append(s, x)) = In(s) \union {x}
<1> DEFINE a == Append(s, x)
<1>1. /\ Len(a) = Len(s) + 1 /\ Len(s) \in Nat
      /\ \A i \in 1 .. Len(s) : a[i] = s[i]
      /\ a[Len(s) + 1] = x
  OBVIOUS
<1> HIDE DEF a
<1>2. In(a) \subseteq In(s) \union {x}
  <2> SUFFICES ASSUME NEW i \in 1 .. Len(a) PROVE a[i] \in In(s) \union {x}
    BY DEF In
  <2>1. i \in 1 .. Len(s) \/ i = Len(s) + 1
    BY <1>1
  <2> QED BY <1>1, <2>1 DEF In
<1>3. In(s) \union {x} \subseteq In(a)
  <2>1. \A i \in 1 .. Len(s) : i \in 1 .. Len(a)
    BY <1>1
  <2>2. Len(s) + 1 \in 1 .. Len(a)
    BY <1>1
  <2>3. x \in In(a)
    BY <1>1, <2>2 DEF In
  <2>4. In(s) \subseteq In(a)
    BY <1>1, <2>1 DEF In
  <2> QED BY <2>3, <2>4
<1> QED BY <1>2, <1>3 DEF a

(* Two lists follow each other.                                            *)
LEMMA InConcat ==
  ASSUME NEW s \in Seq(Item), NEW t \in Seq(Item)
  PROVE  In(s \o t) = In(s) \union In(t)
<1> DEFINE c == s \o t
<1>1. /\ Len(c) = Len(s) + Len(t) /\ Len(s) \in Nat /\ Len(t) \in Nat
      /\ \A i \in 1 .. Len(s) : c[i] = s[i]
      /\ \A i \in 1 .. Len(t) : c[Len(s) + i] = t[i]
      /\ \A i \in Len(s) + 1 .. Len(c) : c[i] = t[i - Len(s)]
  OBVIOUS
<1> HIDE DEF c
<1>2. In(c) \subseteq In(s) \union In(t)
  <2> SUFFICES ASSUME NEW i \in 1 .. Len(c) PROVE c[i] \in In(s) \union In(t)
    BY DEF In
  <2>1. CASE i \in 1 .. Len(s)
    BY <1>1, <2>1 DEF In
  <2>2. CASE i \notin 1 .. Len(s)
    <3>1. i \in Len(s) + 1 .. Len(c) /\ i - Len(s) \in 1 .. Len(t)
      BY <1>1, <2>2
    <3>2. c[i] = t[i - Len(s)]
      BY <1>1, <3>1
    <3> QED BY <3>1, <3>2 DEF In
  <2> QED BY <2>1, <2>2
<1>3. In(s) \subseteq In(c)
  <2>1. \A i \in 1 .. Len(s) : i \in 1 .. Len(c)
    BY <1>1
  <2> QED BY <1>1, <2>1 DEF In
<1>4. In(t) \subseteq In(c)
  <2> SUFFICES ASSUME NEW i \in 1 .. Len(t) PROVE t[i] \in In(c)
    BY DEF In
  <2>1. Len(s) + i \in 1 .. Len(c) /\ c[Len(s) + i] = t[i]
    BY <1>1
  <2> QED BY <2>1 DEF In
<1> QED BY <1>2, <1>3, <1>4 DEF c

(* A part of a list has items of the list.                                 *)
LEMMA InPart ==
  ASSUME NEW s \in Seq(Item), NEW t, NEW k, NEW n, Part(t, s, k, n)
  PROVE  In(t) \subseteq In(s)
<1>1. /\ k \in 1 .. Len(s) /\ n \in k .. Len(s) /\ Len(t) = n - k + 1
      /\ \A i \in 1 .. Len(t) : t[i] = s[k + i - 1]
  BY DEF Part
<1>2. \A i \in 1 .. Len(t) : k + i - 1 \in 1 .. Len(s)
  BY <1>1
<1> QED BY <1>1, <1>2 DEF In

(* An empty list has no item.                                              *)
LEMMA InEmpty == In(<<>>) = {} /\ <<>> \in Seq(Item)
BY DEF In

(* What is left of a list without its head.                                *)
LEMMA InTail ==
  ASSUME NEW s \in Seq(Item), s # <<>>
  PROVE  /\ Head(s) \in In(s) /\ Head(s) = s[1] /\ Tail(s) \in Seq(Item)
         /\ In(Tail(s)) \subseteq In(s)
         /\ \A x \in In(Tail(s)) : \E i \in 2 .. Len(s) : x = s[i]
<1>1. /\ Head(s) = s[1] /\ Tail(s) \in Seq(Item) /\ Len(Tail(s)) = Len(s) - 1
      /\ Len(s) \in Nat \ {0}
      /\ \A i \in 1 .. Len(s) - 1 : Tail(s)[i] = s[i + 1]
  OBVIOUS
<1>2. 1 \in 1 .. Len(s) /\ \A i \in 1 .. Len(s) - 1 : i + 1 \in 2 .. Len(s)
  BY <1>1
<1>3. \A i \in 2 .. Len(s) : i \in 1 .. Len(s)
  BY <1>1
<1>4. \A x \in In(Tail(s)) : \E i \in 2 .. Len(s) : x = s[i]
  BY <1>1, <1>2 DEF In
<1> QED BY <1>1, <1>2, <1>3, <1>4 DEF In

(* What permFIFO_ack and the start-up keep: the items above a number.      *)
LEMMA InAfter ==
  ASSUME NEW s \in Seq(Item), Consecutive(s), NEW id \in Nat
  PROVE  /\ After(s, id) \in Seq(Item) /\ Consecutive(After(s, id))
         /\ In(After(s, id)) = {x \in In(s) : x.id > id}
<1>1. CASE /\ After(s, id) = <<>>
           /\ \A i \in 1 .. Len(s) : s[i].id <= id
  <2>1. \A i \in 1 .. Len(s) : s[i].id \in Nat
    BY ItemNumbers
  <2>2. \A x \in In(s) : ~(x.id > id)
    BY <1>1, <2>1 DEF In
  <2> QED BY <1>1, <2>2, InEmpty DEF Consecutive
<1>2. ASSUME NEW k \in 1 .. Len(s), s[k].id > id,
             \A j \in 1 .. k - 1 : s[j].id <= id,
             Part(After(s, id), s, k, Len(s))
      PROVE  /\ After(s, id) \in Seq(Item) /\ Consecutive(After(s, id))
             /\ In(After(s, id)) = {x \in In(s) : x.id > id}
  <2> DEFINE t == After(s, id)
  <2>1. /\ t \in Seq(Item) /\ Len(t) = Len(s) - k + 1 /\ Len(s) \in Nat
        /\ \A i \in 1 .. Len(t) : t[i] = s[k + i - 1]
    BY <1>2 DEF Part
  <2>2. Consecutive(t)
    BY <1>2, PartOfConsecutive
  <2>3. \A i \in 1 .. Len(s) : s[i].id \in Nat /\ s[i].id = s[1].id + i - 1
    BY ItemNumbers DEF Consecutive
  <2>4. s[1].id \in Nat
    BY <2>3
  <2>5. \A i \in 1 .. Len(s) : s[i].id > id <=> i >= k
    <3> TAKE i \in 1 .. Len(s)
    <3>1. s[i].id = s[1].id + i - 1 /\ s[k].id = s[1].id + k - 1
      BY <2>3
    <3>2. CASE i >= k
      BY <1>2, <2>4, <3>1, <3>2
    <3>3. CASE ~(i >= k)
      <4>1. i \in 1 .. k - 1
        BY <3>3
      <4>2. s[i].id <= id
        BY <1>2, <4>1
      <4> QED BY <2>3, <3>3, <4>2
    <3> QED BY <3>2, <3>3
  <2> HIDE DEF t
  <2>6. In(t) \subseteq {x \in In(s) : x.id > id}
    <3> SUFFICES ASSUME NEW i \in 1 .. Len(t) PROVE t[i] \in In(s) /\ t[i].id > id
      BY DEF In
    <3>1. k + i - 1 \in 1 .. Len(s) /\ k + i - 1 >= k
      BY <2>1
    <3> QED BY <2>1, <2>5, <3>1 DEF In
  <2>7. {x \in In(s) : x.id > id} \subseteq In(t)
    <3> SUFFICES ASSUME NEW i \in 1 .. Len(s), s[i].id > id PROVE s[i] \in In(t)
      BY DEF In
    <3>1. i >= k
      BY <2>5
    <3>2. i - k + 1 \in 1 .. Len(t) /\ k + (i - k + 1) - 1 = i
      BY <2>1, <3>1
    <3>3. t[i - k + 1] = s[i]
      BY <2>1, <3>2
    <3> QED BY <3>2, <3>3 DEF In
  <2> QED BY <2>1, <2>2, <2>6, <2>7 DEF t
<1> QED BY <1>1, <1>2, AfterIsPart

(* The records up to the first torn one are records of the file.           *)
LEMMA InSound ==
  ASSUME NEW recs \in Seq(Item)
  PROVE  In(Sound(recs)) \subseteq In(recs)
<1>1. /\ Len(Sound(recs)) \in 0 .. Len(recs)
      /\ \A i \in 1 .. Len(Sound(recs)) : Sound(recs)[i] = recs[i]
  BY SoundIsPrefix
<1>2. \A i \in 1 .. Len(Sound(recs)) : i \in 1 .. Len(recs)
  BY <1>1
<1> QED BY <1>1, <1>2 DEF In

(* What ct_load reads from the file is above the number that it is given.  *)
LEMMA InLoaded ==
  ASSUME NEW whole \in Seq(Item), NEW L \in Legible(whole),
         Consecutive(Sound(whole)), NEW offset \in 0 .. Len(Sound(whole)),
         NEW id \in Nat
  PROVE  /\ Loaded(whole, L, offset, id) \in Seq(Item)
         /\ \A x \in In(Loaded(whole, L, offset, id)) : x \in In(whole) /\ x.id > id
<1> DEFINE t == Loaded(whole, L, offset, id)
<1> PICK recs : recs = Sound(whole)
  OBVIOUS
<1>0. /\ recs \in Seq(Item) /\ Consecutive(recs) /\ offset \in 0 .. Len(recs)
      /\ In(recs) \subseteq In(whole)
  BY SoundIsPrefix, InSound
<1>1. \/ t = <<>>
      \/ \E k \in offset + 1 .. Len(recs), n \in 1 .. Len(recs) :
           Part(t, recs, k, n) /\ recs[k].id > id
  BY <1>0, LoadedIsPart
<1>2. ASSUME NEW k \in offset + 1 .. Len(recs), NEW n \in 1 .. Len(recs),
             Part(t, recs, k, n), recs[k].id > id
      PROVE  t \in Seq(Item) /\ \A x \in In(t) : x \in In(recs) /\ x.id > id
  <2> HIDE DEF t
  <2>1. /\ t \in Seq(Item) /\ Len(t) = n - k + 1
        /\ \A i \in 1 .. Len(t) : t[i] = recs[k + i - 1]
    BY <1>2 DEF Part
  <2>2. \A i \in 1 .. Len(recs) : recs[i].id \in Nat /\ recs[i].id = recs[1].id + i - 1
    BY <1>0, ItemNumbers DEF Consecutive
  <2>3. ASSUME NEW i \in 1 .. Len(t) PROVE t[i] \in In(recs) /\ t[i].id > id
    <3>1. k + i - 1 \in 1 .. Len(recs) /\ k \in 1 .. Len(recs) /\ 1 \in 1 .. Len(recs)
      BY <2>1
    <3>2. /\ recs[k + i - 1].id = recs[1].id + (k + i - 1) - 1
          /\ recs[k].id = recs[1].id + k - 1 /\ recs[1].id \in Nat
      BY <2>2, <3>1
    <3>3. recs[k + i - 1].id > id
      BY <1>2, <3>2
    <3> QED BY <2>1, <3>1, <3>3 DEF In
  <2> QED BY <2>1, <2>3 DEF In
<1> HIDE DEF t
<1>3. CASE t = <<>>
  BY <1>3, InEmpty DEF t
<1> QED BY <1>0, <1>1, <1>2, <1>3 DEF t

-----------------------------------------------------------------------------
(* What the next start can read is part of what its file holds.            *)
LEMMA ReadableSet ==
  ASSUME NEW f \in File, NEW old \in File,
         Consecutive(Sound(f.recs)), Consecutive(Sound(old.recs))
  PROVE  LET r == IF f.kind = "fifo" THEN f ELSE old
         IN  In(After(Sound(r.recs), r.lastAckId)) \subseteq Durable(f, old)
<1>0. ASSUME NEW r \in File, Consecutive(Sound(r.recs))
      PROVE  In(After(Sound(r.recs), r.lastAckId))
               \subseteq {x \in In(r.recs) : x.id > r.lastAckId}
  <2>1. r.recs \in Seq(Item) /\ r.lastAckId \in Nat
    BY FileFields
  <2>2. Sound(r.recs) \in Seq(Item) /\ In(Sound(r.recs)) \subseteq In(r.recs)
    BY <2>1, SoundIsPrefix, InSound
  <2> QED BY <1>0, <2>1, <2>2, InAfter
<1>1. CASE f.kind = "fifo"
  BY <1>0, <1>1 DEF Durable
<1>2. CASE f.kind # "fifo"
  BY <1>0, <1>2 DEF Durable
<1> QED BY <1>1, <1>2

(* What the invariant of the numbers says of the files and tables.         *)
LEMMA Numbered ==
  ASSUME IInv
  PROVE  /\ file \in File /\ fileOld \in File /\ fileNew \in File
         /\ file.recs \in Seq(Item) /\ Consecutive(Sound(file.recs))
         /\ fileOld.recs \in Seq(Item) /\ Consecutive(Sound(fileOld.recs))
         /\ fileNew.recs \in Seq(Item) /\ Consecutive(Sound(fileNew.recs))
         /\ ~HasTorn(file.recs) => Consecutive(file.recs)
         /\ file.lastAckId \in Nat
         /\ taken \in Seq(Item) /\ table_client \in Seq(Item) /\ table_disk \in Seq(Item)
         /\ written \in Nat /\ lastIdOut \in Nat /\ acked \subseteq Nat
         /\ currentId \in Nat
         /\ mode = "up" =>
              /\ Consecutive(table_client) /\ Consecutive(table_disk)
              /\ table_client # <<>> => table_client[1].id = lastIdOut + 1
              /\ file.recs # <<>> => ackOnDisk
              /\ lastOutOffset \in 0 .. Len(Sound(file.recs))
<1>1. /\ file.recs \in Seq(Item) /\ fileOld.recs \in Seq(Item)
      /\ fileNew.recs \in Seq(Item) /\ file.lastAckId \in Nat
  BY FileFields DEF IInv, TypeOK
<1>2. acked \subseteq Nat /\ written \in Nat
  BY BoundAssumption DEF IInv, TypeOK, Message, Torn
<1>3. Len(Sound(file.recs)) \in Nat /\ (~HasTorn(file.recs) => Sound(file.recs) = file.recs)
  BY <1>1, SoundIsPrefix
<1> QED BY <1>1, <1>2, <1>3 DEF IInv, TypeOK, NumbersInOrder, FilesNumbered, TablesNumbered

(* A file keeps its header when only its records change.                   *)
LEMMA RecordsOnly ==
  ASSUME NEW f \in File, NEW r \in Seq(Item)
  PROVE  LET g == [f EXCEPT !.recs = r]
         IN  g.recs = r /\ g.kind = f.kind /\ g.lastAckId = f.lastAckId
BY DEF File

(* Fewer items, or items without a message, are still right.               *)
LEMMA Fewer ==
  ASSUME NEW w \in Nat, NEW a, NEW X, NEW Y, \A y \in Y : y \in X \/ y.msg = Torn
  PROVE  /\ OneId(X) => OneId(Y)
         /\ Old(X, w) => Old(Y, w)
         /\ Fresh(X, a) => Fresh(Y, a)
BY DEF OneId, Old, Fresh, Torn

-----------------------------------------------------------------------------
(* table_disk goes to the file, whole or in part: by a save, permFIFO_     *)
(* destroy or a kill inside ct_save.                                       *)
Appends ==
  /\ file'.kind = file.kind /\ file'.lastAckId = file.lastAckId
  /\ \A x \in In(file'.recs) :
       x \in In(file.recs) \/ x \in In(table_disk) \/ x.msg = Torn

(* Then what the file holds is right.                                      *)
LEMMA AppendsRight ==
  ASSUME IInv, HistoryInv, mode = "up", Appends, UNCHANGED <<fileOld, acked>>
  PROVE  /\ FileRight(file', written)
         /\ Fresh(Durable(file', fileOld'), acked)
<1>1. file.kind = "fifo" /\ TablesRight /\ Fresh(Durable(file, fileOld), acked)
  BY DEF HistoryInv, HistoryStart, HistoryTables, HistoryFiles
<1>2. \A x \in In(file'.recs) : x \in Held \/ x.msg = Torn
  BY DEF Appends, Held, HeldIn
<1>3. FileRight(file', written)
  BY <1>1, <1>2, Fewer, Numbered DEF TablesRight, FileRight, Appends
<1>4. \A x \in Durable(file', fileOld') :
        x \in Durable(file, fileOld) \/ x \in In(table_disk) \/ x.msg = Torn
  BY <1>1 DEF Appends, Durable
<1> QED BY <1>1, <1>3, <1>4 DEF TablesRight, Fresh

(* permFIFO_save_tabledisk.                                                *)
LEMMA SaveAppends ==
  ASSUME IInv, SaveTableDisk
  PROVE  Appends
<1>1. CASE table_disk = <<>>
  BY <1>1 DEF SaveTableDisk, Appends
<1>2. CASE table_disk # <<>>
  <2> DEFINE r == file.recs \o table_disk
  <2>1. r \in Seq(Item) /\ In(r) = In(file.recs) \union In(table_disk)
    BY Numbered, InConcat
  <2>2. file' = [file EXCEPT !.recs = r]
    BY <1>2 DEF SaveTableDisk
  <2> HIDE DEF r
  <2> QED BY <2>1, <2>2, Numbered, RecordsOnly DEF Appends
<1> QED BY <1>1, <1>2

(* permFIFO_flush.                                                         *)
LEMMA FlushHistory ==
  ASSUME IInv, HistoryInv, Flush
  PROVE  HistoryInv'
<1>1. /\ mode = "up" /\ mode' = "up" /\ SaveTableDisk /\ table_disk' = <<>>
      /\ UNCHANGED <<fileOld, fileNew, table_client, lastIdOut, taken, written, acked>>
  BY DEF Flush, historyVars
<1>2. Appends
  BY <1>1, SaveAppends
<1>3. HistoryFiles'
  BY <1>1, <1>2, AppendsRight DEF HistoryInv, HistoryFiles
<1>4. HistoryStart'
  BY <1>1, <1>2 DEF HistoryInv, HistoryStart, Appends
<1>5. TablesRight'
  <2>1. TablesRight
    BY <1>1 DEF HistoryInv, HistoryTables
  <2>2. \A x \in Held' : x \in Held \/ x.msg = Torn
    BY <1>1, <1>2, InEmpty DEF Held, HeldIn, Appends
  <2>3. OneId(Held') /\ Old(Held', written)
    BY <2>1, <2>2, Fewer, Numbered DEF TablesRight
  <2> QED BY <1>1, <1>2, <2>1, <2>3, InEmpty DEF TablesRight, Fresh, Appends
<1> QED BY <1>1, <1>3, <1>4, <1>5 DEF HistoryInv, HistoryTables

(* permFIFO_write: the new message was never seen before.                  *)
LEMMA WriteHistory ==
  ASSUME IInv, HistoryInv, Write
  PROVE  HistoryInv'
<1> DEFINE item == [id |-> currentId + 1, msg |-> written + 1]
<1>1. /\ mode = "up" /\ mode' = "up" /\ written' = written + 1 /\ written < MaxMsg
      /\ UNCHANGED <<fileOld, fileNew, lastIdOut, taken, acked>>
      /\ table_client' = table_client \/ table_client' = Append(table_client, item)
      /\ \/ SaveTableDisk /\ table_disk' = <<item>>
         \/ file' = file /\ table_disk' = Append(table_disk, item)
  BY DEF Write
<1>2. item \in Item /\ item.msg = written + 1
  <2>1. written + 1 \in Message
    BY <1>1, Numbered, BoundAssumption DEF Message
  <2> QED BY <2>1, Numbered, SMTT(30) DEF Item
<1> HIDE DEF item
<1>3. Appends
  BY <1>1, SaveAppends DEF Appends
<1>4. TablesRight /\ written \in Nat /\ acked \subseteq Nat
  BY <1>1, Numbered DEF HistoryInv, HistoryTables
<1>5. /\ In(table_client') \subseteq In(table_client) \union {item}
      /\ In(table_disk') \subseteq In(table_disk) \union {item}
  <2>1. /\ In(Append(table_client, item)) = In(table_client) \union {item}
        /\ In(Append(table_disk, item)) = In(table_disk) \union {item}
        /\ In(<<item>>) = {item}
    <3>1. In(<<item>>) = {item}
      BY DEF In
    <3> QED BY <1>2, <3>1, Numbered, InAppend
  <2> QED BY <1>1, <2>1
<1>6. \A m \in acked : m <= written
  BY DEF HistoryInv
<1>7. Fresh({item}, acked)
  BY <1>2, <1>4, <1>6 DEF Fresh
<1>8. FileRight(file', written') /\ Fresh(Durable(file', fileOld'), acked)
  <2>1. FileRight(file', written) /\ Fresh(Durable(file', fileOld'), acked)
    BY <1>1, <1>3, AppendsRight
  <2>2. file'.recs \in Seq(Item) /\ \A x \in In(file'.recs) : x.msg \in Nat
    BY <1>1, WriteStep, Numbered, InItems, FileFields DEF IInv, TypeOK
  <2> QED BY <1>1, <1>4, <2>1, <2>2 DEF FileRight, Old
<1>9. FileRight(fileOld', written') /\ FileRight(fileNew', written')
  <2>1. /\ FileRight(fileOld, written) /\ FileRight(fileNew, written)
        /\ \A x \in In(fileOld.recs) \union In(fileNew.recs) : x.msg \in Nat
    BY Numbered, InItems DEF HistoryInv, HistoryFiles
  <2> QED BY <1>1, <1>4, <2>1 DEF FileRight, Old
<1>10. HistoryFiles'
  BY <1>1, <1>8, <1>9 DEF HistoryFiles
<1>11. HistoryStart'
  BY <1>1, <1>3 DEF HistoryInv, HistoryStart, Appends
<1>12. TablesRight'
  <2>1. \A x \in Held' : x \in Held \union {item} \/ x.msg = Torn
    BY <1>1, <1>3, <1>5 DEF Held, HeldIn, Appends
  <2>2. \A x \in Held : x.msg \in Nat
    BY Numbered, InItems DEF Held, HeldIn
  <2>3. OneId(Held \union {item})
    <3>1. \A x \in Held : x.msg # item.msg
      BY <1>2, <1>4, <2>2 DEF TablesRight, Old
    <3> QED BY <1>4, <3>1 DEF TablesRight, OneId
  <2>4. Old(Held \union {item}, written + 1)
    BY <1>2, <1>4, <2>2 DEF TablesRight, Old
  <2>5. OneId(Held') /\ Old(Held', written')
    BY <1>1, <1>4, <2>1, <2>3, <2>4, Fewer
  <2>6. Fresh(In(table_client'), acked') /\ Fresh(In(table_disk'), acked')
    BY <1>1, <1>4, <1>5, <1>7 DEF TablesRight, Fresh
  <2> QED BY <1>1, <1>3, <1>4, <2>5, <2>6 DEF TablesRight, Appends
<1>13. \A m \in acked' : m <= written'
  BY <1>1, <1>4, <1>6
<1> QED BY <1>1, <1>10, <1>11, <1>12, <1>13 DEF HistoryInv, HistoryTables

-----------------------------------------------------------------------------
(* A read hands out an item x that was held, was not acknowledged and is   *)
(* above those handed out before, and may bring others to the consumer's   *)
(* table.                                                                  *)
Brings(c) == \A y \in In(c) : y \in Held /\ (y.msg # Torn => y.msg \notin acked)
HandsOut(x) ==
  /\ x \in Held /\ x.id > lastIdOut /\ (x.msg # Torn => x.msg \notin acked)
  /\ taken' = Append(taken, x) /\ lastIdOut' = x.id
  /\ Brings(table_client')

(* Numbers handed out stay in order.                                       *)
LEMMA AboveAppend ==
  ASSUME NEW t \in Seq(Item), NEW x \in Item, NEW ack \in Nat, NEW out \in Nat,
         Above(t, ack, out), x.id > out
  PROVE  Above(Append(t, x), ack, x.id)
<1> DEFINE a == Append(t, x)
<1>1. /\ Len(a) = Len(t) + 1 /\ Len(t) \in Nat
      /\ \A i \in 1 .. Len(t) : a[i] = t[i]
      /\ a[Len(t) + 1] = x
  OBVIOUS
<1>2. In(a) = In(t) \union {x}
  BY InAppend
<1> HIDE DEF a
<1>3. \A y \in In(t) : y.id \in Nat
  BY InItems
<1>4. x.id \in Nat
  BY DEF Item
<1>5. \A y \in In(a) : ack < y.id /\ y.id <= x.id
  BY <1>2, <1>3, <1>4 DEF Above
<1>6. ASSUME NEW i \in 1 .. Len(a), NEW j \in 1 .. Len(a), i < j
      PROVE  a[i].id < a[j].id
  <2>1. i \in 1 .. Len(t)
    BY <1>1, <1>6
  <2>2. CASE j \in 1 .. Len(t)
    BY <1>1, <2>1, <2>2, <1>6 DEF Above
  <2>3. CASE j = Len(t) + 1
    <3>1. t[i] \in In(t)
      BY <2>1 DEF In
    <3> QED BY <1>1, <1>3, <1>4, <2>1, <2>3, <3>1 DEF Above
  <2> QED BY <1>1, <2>2, <2>3
<1> QED BY <1>4, <1>5, <1>6 DEF Above, a

(* So a read keeps what is held right.                                     *)
LEMMA ReadKeeps ==
  ASSUME IInv, HistoryInv, mode = "up", ReadUnchanged,
         \/ \E x \in Item : HandsOut(x)
         \/ UNCHANGED <<lastIdOut, taken, table_client>>
  PROVE  HistoryInv'
<1>1. /\ mode' = "up"
      /\ UNCHANGED <<file, fileOld, fileNew, table_disk, written, acked>>
  BY DEF ReadUnchanged, fileVars, historyVars
<1>2. TablesRight
  BY DEF HistoryInv, HistoryTables
<1>3. HistoryFiles' /\ HistoryStart' /\ \A m \in acked' : m <= written'
  BY <1>1 DEF HistoryInv, HistoryFiles, HistoryStart
<1>4. ASSUME NEW x \in Item, HandsOut(x) PROVE TablesRight'
  <2>1. In(taken') = In(taken) \union {x}
    BY <1>4, Numbered, InAppend DEF HandsOut
  <2>2. \A y \in Held' : y \in Held
    BY <1>1, <1>4, <2>1 DEF HandsOut, Brings, Held, HeldIn
  <2>3. OneId(Held') /\ Old(Held', written')
    BY <1>1, <1>2, <2>2, Fewer, Numbered DEF TablesRight
  <2>4. Fresh(In(taken'), acked') /\ Fresh(In(table_client'), acked')
    BY <1>1, <1>2, <1>4, <2>1 DEF TablesRight, Fresh, HandsOut, Brings
  <2>5. Above(taken', file'.lastAckId, lastIdOut')
    BY <1>1, <1>2, <1>4, Numbered, AboveAppend DEF TablesRight, HandsOut
  <2> QED BY <1>1, <1>2, <2>3, <2>4, <2>5 DEF TablesRight
<1>5. ASSUME UNCHANGED <<lastIdOut, taken, table_client>> PROVE TablesRight'
  <2>1. Held' = Held
    BY <1>1, <1>5 DEF Held
  <2>2. OneId(Held') /\ Old(Held', written')
    BY <1>1, <1>2, <2>1 DEF TablesRight
  <2>3. /\ Fresh(In(taken'), acked') /\ Fresh(In(table_client'), acked')
        /\ Fresh(In(table_disk'), acked')
    BY <1>1, <1>2, <1>5 DEF TablesRight
  <2>4. Above(taken', file'.lastAckId, lastIdOut')
    BY <1>1, <1>2, <1>5 DEF TablesRight
  <2> QED BY <2>2, <2>3, <2>4 DEF TablesRight
<1> QED BY <1>1, <1>3, <1>4, <1>5 DEF HistoryInv, HistoryTables

(* permFIFO_read from table_client.                                        *)
LEMMA ReadClientTableHistory ==
  ASSUME IInv, HistoryInv, ReadClientTable
  PROVE  HistoryInv'
<1>1. /\ mode = "up" /\ ReadUnchanged /\ table_client # <<>>
      /\ lastIdOut' = Head(table_client).id
      /\ taken' = Append(taken, Head(table_client))
      /\ table_client' = Tail(table_client)
  BY DEF ReadClientTable, HandOut, CanRead
<1>2. TablesRight
  BY <1>1 DEF HistoryInv, HistoryTables
<1>3. /\ Head(table_client) \in In(table_client) /\ Head(table_client) \in Item
      /\ Head(table_client).id = lastIdOut + 1 /\ lastIdOut \in Nat
      /\ In(Tail(table_client)) \subseteq In(table_client)
  BY <1>1, Numbered, InTail, InItems
<1>4. HandsOut(Head(table_client))
  BY <1>1, <1>2, <1>3 DEF HandsOut, Brings, TablesRight, Fresh, Held, HeldIn
<1> QED BY <1>1, <1>3, <1>4, ReadKeeps

(* What is above a number in a list that nothing was acknowledged of, is   *)
(* handed out right.                                                       *)
LEMMA HeadHandedOut ==
  ASSUME NEW s \in Seq(Item), s # <<>>,
         taken' = Append(taken, Head(s)), lastIdOut' = Head(s).id,
         table_client' = Tail(s), \A y \in In(s) : y.id > lastIdOut, Brings(s)
  PROVE  Head(s) \in Item /\ HandsOut(Head(s))
BY InTail, InItems DEF HandsOut, Brings

(* permFIFO_read from table_disk.                                          *)
LEMMA ReadDiskTableHistory ==
  ASSUME IInv, HistoryInv, ReadDiskTable
  PROVE  HistoryInv'
<1> DEFINE rest == After(table_disk, lastIdOut)
<1>1. /\ mode = "up" /\ ReadUnchanged /\ rest # <<>>
      /\ lastIdOut' = Head(rest).id /\ taken' = Append(taken, Head(rest))
      /\ table_client' = Tail(rest)
  BY DEF ReadDiskTable, InDiskTable, HandOut, CanRead
<1>2. TablesRight
  BY <1>1 DEF HistoryInv, HistoryTables
<1>3. rest \in Seq(Item) /\ In(rest) = {x \in In(table_disk) : x.id > lastIdOut}
  BY <1>1, Numbered, InAfter
<1> HIDE DEF rest
<1>4. Brings(rest)
  BY <1>2, <1>3 DEF Brings, TablesRight, Fresh, Held, HeldIn
<1> QED BY <1>1, <1>3, <1>4, HeadHandedOut, ReadKeeps

(* permFIFO_read from the file: what it reads is above the number that the *)
(* header says was acknowledged.                                           *)
LEMMA ReadFileHistory ==
  ASSUME IInv, HistoryInv, ReadFile
  PROVE  HistoryInv'
<1>0. PICK L \in Legible(file.recs) :
        LET items == Loaded(file.recs, L, lastOutOffset, lastIdOut)
        IN  \/ /\ items # <<>> /\ HandOut(Head(items)) /\ table_client' = Tail(items)
            \/ UNCHANGED <<lastIdOut, taken, table_client>>
  BY Zenon DEF ReadFile
<1> DEFINE items == Loaded(file.recs, L, lastOutOffset, lastIdOut)
<1>1. /\ mode = "up" /\ ReadUnchanged
      /\ \/ /\ items # <<>> /\ lastIdOut' = Head(items).id
            /\ taken' = Append(taken, Head(items)) /\ table_client' = Tail(items)
         \/ UNCHANGED <<lastIdOut, taken, table_client>>
  BY <1>0 DEF ReadFile, HandOut, CanRead
<1>2. /\ TablesRight /\ file.kind = "fifo" /\ Fresh(Durable(file, fileOld), acked)
  BY <1>1 DEF HistoryInv, HistoryTables, HistoryStart, HistoryFiles
<1>3. /\ items \in Seq(Item)
      /\ \A x \in In(items) : x \in In(file.recs) /\ x.id > lastIdOut
  BY <1>1, Numbered, InLoaded
<1> HIDE DEF items
<1>4. \A x \in In(items) : x \in Durable(file, fileOld)
  <2>1. \A x \in In(items) : x.id \in Nat
    BY <1>3, InItems
  <2> QED BY <1>2, <1>3, <2>1, Numbered DEF Durable, TablesRight, Above
<1>5. Brings(items)
  BY <1>2, <1>3, <1>4 DEF Brings, Fresh, Held, HeldIn
<1>6. CASE items # <<>> /\ ~UNCHANGED <<lastIdOut, taken, table_client>>
  BY <1>1, <1>3, <1>5, <1>6, HeadHandedOut, ReadKeeps
<1>7. CASE UNCHANGED <<lastIdOut, taken, table_client>>
  BY <1>1, <1>7, ReadKeeps
<1> QED BY <1>1, <1>6, <1>7

-----------------------------------------------------------------------------
(* permFIFO_ack: nothing that stays in memory, or in the file above its    *)
(* new header, has the message that is acknowledged.                       *)
LEMMA AckHistory ==
  ASSUME IInv, HistoryInv, Ack
  PROVE  HistoryInv'
<1> DEFINE x == Head(taken)
           drop == lastIdOnDisk <= x.id
<1>1. /\ mode = "up" /\ mode' = "up" /\ taken # <<>> /\ taken' = Tail(taken)
      /\ acked' = acked \union {x.msg} /\ table_disk' = After(table_disk, x.id)
      /\ IF ackOnDisk
         THEN file' = FileOf(x.id, lastIdOnDisk, IF drop THEN <<>> ELSE file.recs)
         ELSE file' = file
      /\ UNCHANGED <<fileOld, fileNew, table_client, lastIdOut, written>>
  BY DEF Ack
<1>2. /\ TablesRight /\ file.kind = "fifo" /\ Fresh(Durable(file, fileOld), acked)
  BY <1>1 DEF HistoryInv, HistoryTables, HistoryStart, HistoryFiles
<1>3. /\ x \in In(taken) /\ x = taken[1] /\ taken' \in Seq(Item)
      /\ In(taken') \subseteq In(taken)
      /\ \A y \in In(taken') : \E i \in 2 .. Len(taken) : y = taken[i]
  BY <1>1, Numbered, InTail
<1>4. x \in Item /\ x.id \in Nat /\ x.msg \in Nat
  BY <1>3, Numbered, InItems
<1>5. table_disk' \in Seq(Item) /\ In(table_disk') = {y \in In(table_disk) : y.id > x.id}
  BY <1>1, <1>4, Numbered, InAfter
<1> HIDE DEF x, drop
<1>6. \A y \in Held : y.id \in Nat /\ y.msg \in Nat
  BY Numbered, InItems DEF Held, HeldIn
(* What is above x has another message than x.                             *)
<1>7. \A y \in Held : y.id > x.id => y.msg = Torn \/ y.msg # x.msg
  BY <1>2, <1>3, <1>4, <1>6 DEF TablesRight, OneId, Held, HeldIn
<1>8. \A y \in In(taken') : y.id > x.id
  <2>1. Len(taken) \in Nat /\ 1 \in 1 .. Len(taken)
    BY <1>1, Numbered
  <2>2. \A i \in 2 .. Len(taken) : i \in 1 .. Len(taken) /\ 1 < i
    BY <2>1
  <2>3. \A i \in 2 .. Len(taken) : taken[1].id < taken[i].id
    BY <1>2, <2>1, <2>2 DEF TablesRight, Above
  <2>4. \A y \in In(taken') : x.id < y.id
    BY <1>3, <2>3
  <2>5. \A y \in In(taken') : y.id \in Nat
    BY <1>3, <1>6 DEF Held, HeldIn
  <2> QED BY <1>4, <2>4, <2>5
<1>9. \A y \in In(table_client) : y.id > x.id
  <2>1. x.id <= lastIdOut /\ lastIdOut \in Nat
    BY <1>2, <1>3, Numbered DEF TablesRight, Above
  <2>2. ASSUME NEW i \in 1 .. Len(table_client)
        PROVE  table_client[i].id >= lastIdOut + 1
    <3>1. /\ table_client # <<>> /\ table_client \in Seq(Item)
          /\ Consecutive(table_client) /\ table_client[1].id = lastIdOut + 1
      BY <1>1, Numbered
    <3>2. table_client[i].id = table_client[1].id + i - 1
      BY <3>1 DEF Consecutive
    <3> QED BY <2>1, <3>1, <3>2
  <2>3. \A y \in In(table_client) : y.id >= lastIdOut + 1 /\ y.id \in Nat
    BY <1>6, <2>2 DEF In, Held, HeldIn
  <2> QED BY <1>4, <2>1, <2>3
<1>10. /\ Fresh(In(taken'), acked') /\ Fresh(In(table_client'), acked')
       /\ Fresh(In(table_disk'), acked')
  <2>1. \A y \in In(taken') \union In(table_client) \union In(table_disk') :
          y \in Held /\ y.id > x.id
    BY <1>3, <1>5, <1>8, <1>9 DEF Held, HeldIn
  <2> QED BY <1>1, <1>2, <1>3, <1>5, <1>7, <2>1 DEF TablesRight, Fresh
<1>11. /\ file'.kind = "fifo" /\ In(file'.recs) \subseteq In(file.recs)
       /\ \/ file'.lastAckId = x.id
          \/ file'.lastAckId = file.lastAckId /\ In(file'.recs) = {}
  <2>1. CASE ackOnDisk
    <3> DEFINE r == IF drop THEN <<>> ELSE file.recs
    <3>1. In(r) \subseteq In(file.recs)
      BY InEmpty
    <3>2. \A q : LET f == FileOf(x.id, lastIdOnDisk, q)
                 IN  f.kind = "fifo" /\ f.lastAckId = x.id /\ f.recs = q
      BY DEF FileOf
    <3>3. file' = FileOf(x.id, lastIdOnDisk, r)
      BY <1>1, <2>1
    <3> HIDE DEF r
    <3> QED BY <3>1, <3>2, <3>3
  <2>2. CASE ~ackOnDisk
    <3>1. file' = file /\ file.recs = <<>>
      BY <1>1, <2>2, Numbered
    <3> QED BY <1>2, <3>1, InEmpty
  <2> QED BY <2>1, <2>2
<1>12. FileRight(file', written')
  BY <1>1, <1>11, Fewer, Numbered DEF HistoryInv, HistoryFiles, FileRight
<1>13. Fresh(Durable(file', fileOld'), acked')
  <2>1. file.lastAckId < x.id /\ file.lastAckId \in Nat
    BY <1>2, <1>3, Numbered DEF TablesRight, Above
  <2>2. ASSUME NEW y \in Durable(file', fileOld')
        PROVE  y \in Held /\ y.id > x.id /\ y \in Durable(file, fileOld)
    <3>1. y \in In(file'.recs) /\ y.id > file'.lastAckId
      BY <1>11, <2>2 DEF Durable
    <3>2. y \in In(file.recs) /\ y \in Held /\ y.id > x.id
      BY <1>11, <3>1 DEF Held, HeldIn
    <3> QED BY <1>2, <1>4, <1>6, <2>1, <3>2 DEF Durable
  <2> QED BY <1>1, <1>2, <1>7, <2>2 DEF Fresh
<1>14. HistoryFiles' /\ HistoryStart'
  BY <1>1, <1>11, <1>12, <1>13 DEF HistoryInv, HistoryFiles, HistoryStart
<1>15. TablesRight'
  <2>1. \A y \in Held' : y \in Held
    BY <1>1, <1>3, <1>5, <1>11 DEF Held, HeldIn
  <2>2. OneId(Held') /\ Old(Held', written')
    BY <1>1, <1>2, <2>1, Fewer, Numbered DEF TablesRight
  <2>3. Above(taken', file'.lastAckId, lastIdOut')
    <3>1. /\ Len(taken') = Len(taken) - 1 /\ Len(taken) \in Nat
          /\ \A i \in 1 .. Len(taken) - 1 : taken'[i] = taken[i + 1]
      BY <1>1, Numbered
    <3>2. \A i \in 1 .. Len(taken) - 1 : i + 1 \in 1 .. Len(taken)
      BY <3>1
    <3>3. ASSUME NEW i \in 1 .. Len(taken'), NEW j \in 1 .. Len(taken'), i < j
          PROVE  taken'[i].id < taken'[j].id
      <4>1. i + 1 \in 1 .. Len(taken) /\ j + 1 \in 1 .. Len(taken) /\ i + 1 < j + 1
        BY <3>1, <3>3
      <4> QED BY <1>2, <3>1, <4>1 DEF TablesRight, Above
    <3>4. file'.lastAckId <= x.id /\ file'.lastAckId \in Nat
      BY <1>2, <1>3, <1>4, <1>11, Numbered, SMTT(30) DEF TablesRight, Above
    <3>5. \A y \in In(taken') : y.id \in Nat /\ y.id > x.id /\ y.id <= lastIdOut
      BY <1>2, <1>3, <1>6, <1>8 DEF TablesRight, Above, Held, HeldIn
    <3>6. x.id <= lastIdOut /\ lastIdOut \in Nat
      BY <1>2, <1>3, Numbered DEF TablesRight, Above
    <3>7. /\ \A y \in In(taken') : file'.lastAckId < y.id /\ y.id <= lastIdOut
          /\ file'.lastAckId <= lastIdOut
      BY <1>4, <3>4, <3>5, <3>6
    <3> QED BY <1>1, <3>3, <3>7 DEF Above
  <2> QED BY <1>10, <2>2, <2>3 DEF TablesRight
<1>16. \A m \in acked' : m <= written'
  <2>1. x.msg <= written
    BY <1>2, <1>3 DEF TablesRight, Old, Held, HeldIn
  <2> QED BY <1>1, <2>1 DEF HistoryInv
<1> QED BY <1>1, <1>14, <1>15, <1>16 DEF HistoryInv, HistoryTables

-----------------------------------------------------------------------------
(* The process stops.  What it had saved is right.                         *)
LEMMA StopHistory ==
  ASSUME IInv, HistoryInv, Memory(0), mode' = "down",
         UNCHANGED <<fileOld, fileNew, written, acked>>,
         file' = file \/ (mode = "up" /\ Appends)
  PROVE  HistoryInv'
<1>1. taken' = <<>> /\ table_client' = <<>> /\ table_disk' = <<>>
  BY DEF Memory
<1>2. FileRight(file', written) /\ Fresh(Durable(file', fileOld'), acked)
  BY AppendsRight DEF HistoryInv, HistoryFiles
<1>3. HistoryFiles'
  BY <1>2 DEF HistoryInv, HistoryFiles
<1>4. file'.kind = file.kind
  BY DEF Appends
<1>5. HistoryStart'
  BY <1>4 DEF HistoryInv, HistoryStart
<1> QED BY <1>1, <1>3, <1>5 DEF HistoryInv, HistoryTables

(* permFIFO_destroy appends all of table_disk.                             *)
LEMMA DestroyHistory ==
  ASSUME IInv, HistoryInv, Destroy
  PROVE  HistoryInv'
<1> DEFINE r == file.recs \o table_disk
<1>1. /\ mode = "up" /\ mode' = "down" /\ file' = [file EXCEPT !.recs = r]
      /\ Memory(0) /\ UNCHANGED <<fileOld, fileNew, written, acked>>
  BY DEF Destroy
<1>2. r \in Seq(Item) /\ In(r) = In(file.recs) \union In(table_disk)
  BY Numbered, InConcat
<1> HIDE DEF r
<1>3. Appends
  BY <1>1, <1>2, Numbered, RecordsOnly DEF Appends
<1> QED BY <1>1, <1>3, StopHistory

(* A kill: nothing, some records of table_disk, the last perhaps torn, or  *)
(* the loss of all the records.                                            *)
LEMMA KillHistory ==
  ASSUME IInv, HistoryInv, Kill
  PROVE  HistoryInv'
<1>1. /\ mode' = "down" /\ Memory(0) /\ UNCHANGED <<fileOld, fileNew, written, acked>>
  BY DEF Kill, KillIdle, KillClean, KillInSave, KillTorn, KillInAck, Killed
<1>2. ASSUME NEW t \in Seq(Item), mode = "up",
             file' = [file EXCEPT !.recs = file.recs \o t],
             \A x \in In(t) : x \in In(table_disk) \/ x.msg = Torn
      PROVE  Appends
  <2> DEFINE r == file.recs \o t
  <2>1. r \in Seq(Item) /\ In(r) = In(file.recs) \union In(t)
    BY Numbered, InConcat
  <2> HIDE DEF r
  <2> QED BY <1>2, <2>1, Numbered, RecordsOnly DEF Appends, r
<1>3. CASE KillIdle \/ KillClean
  BY <1>1, <1>3, StopHistory DEF KillIdle, KillClean
<1>4. CASE KillInSave
  <2>1. mode = "up"
    BY <1>4 DEF KillInSave
  <2>2. PICK k \in 1 .. Len(table_disk) :
          file' = [file EXCEPT !.recs = file.recs \o SubSeq(table_disk, 1, k)]
    BY <1>4 DEF KillInSave
  <2>3. Part(SubSeq(table_disk, 1, k), table_disk, 1, k)
    BY Numbered, LeadingIsPart
  <2>4. SubSeq(table_disk, 1, k) \in Seq(Item)
        /\ In(SubSeq(table_disk, 1, k)) \subseteq In(table_disk)
    BY <2>3, Numbered, InPart DEF Part
  <2>5. Appends
    BY <1>2, <2>1, <2>2, <2>4
  <2> QED BY <1>1, <2>1, <2>5, StopHistory
<1>5. CASE KillTorn
  <2>1. mode = "up"
    BY <1>5 DEF KillTorn
  <2>2. PICK k \in 1 .. Len(table_disk) :
          file' = [file EXCEPT !.recs =
                     file.recs \o SubSeq(table_disk, 1, k - 1)
                       \o <<[table_disk[k] EXCEPT !.msg = Torn]>>]
    BY <1>5 DEF KillTorn
  <2> DEFINE h == SubSeq(table_disk, 1, k - 1)
             x == [table_disk[k] EXCEPT !.msg = Torn]
             y == <<x>>
             t == h \o y
  <2>3. table_disk \in Seq(Item) /\ file.recs \in Seq(Item)
    BY Numbered
  <2>4. x \in Item /\ x.msg = Torn
    <3>1. table_disk[k] \in Item
      BY <2>3
    <3> QED BY <3>1 DEF Item, Torn
  <2>5. h \in Seq(Item) /\ In(h) \subseteq In(table_disk)
    <3>1. h \in Seq(Item) /\ Len(h) = k - 1 /\ \A i \in 1 .. k - 1 : h[i] = table_disk[i]
      BY <2>3
    <3>2. \A i \in 1 .. k - 1 : i \in 1 .. Len(table_disk)
      BY <2>3
    <3> QED BY <3>1, <3>2 DEF In
  <2> HIDE DEF h, x
  <2>6. y \in Seq(Item) /\ In(y) = {x}
    BY <2>4 DEF In
  <2> HIDE DEF y
  <2>7. t \in Seq(Item) /\ In(t) = In(h) \union {x}
    BY <2>5, <2>6, InConcat
  <2>8. (file.recs \o h) \o y = file.recs \o t
    <3>1. \A a, b, c \in Seq(Item) : (a \o b) \o c = a \o (b \o c)
      BY ConcatAssociative, SMTT(30)
    <3> QED BY <2>3, <2>5, <2>6, <3>1
  <2>9. file' = [file EXCEPT !.recs = file.recs \o t]
    BY <2>2, <2>8 DEF h, x, y
  <2>10. Appends
    BY <1>2, <2>1, <2>4, <2>5, <2>7, <2>9
  <2> QED BY <1>1, <2>1, <2>10, StopHistory
<1>6. CASE KillInAck
  <2>1. mode = "up" /\ file' = [file EXCEPT !.recs = <<>>]
    BY <1>6 DEF KillInAck
  <2>2. Appends
    BY <2>1, Numbered, RecordsOnly, InEmpty DEF Appends
  <2> QED BY <1>1, <2>1, <2>2, StopHistory
<1> QED BY <1>3, <1>4, <1>5, <1>6 DEF Kill

-----------------------------------------------------------------------------
(* The copy of the start-up gives new numbers to the same messages.        *)
LEMMA RenumberedHistory ==
  ASSUME NEW s \in Seq(Item), Consecutive(s), NEW a, NEW w
  PROVE  /\ OneId(In(s)) => OneId(In(Renumbered(s)))
         /\ Old(In(s), w) => Old(In(Renumbered(s)), w)
         /\ Fresh(In(s), a) => Fresh(In(Renumbered(s)), a)
<1> DEFINE r == Renumbered(s)
<1>1. Len(r) = Len(s) /\ Len(s) \in Nat
  BY RenumberedInOrder
<1>2. \A i \in 1 .. Len(s) : r[i].id = i /\ r[i].msg = s[i].msg
  <2> TAKE i \in 1 .. Len(s)
  <2>1. s[i] \in Item /\ i \in Nat \ {0}
    BY <1>1
  <2>2. r[i] = [s[i] EXCEPT !.id = i]
    BY DEF Renumbered
  <2> QED BY <2>1, <2>2 DEF Item
<1> HIDE DEF r
<1>3. ASSUME OneId(In(s)) PROVE OneId(In(r))
  <2> SUFFICES ASSUME NEW i \in 1 .. Len(s), NEW j \in 1 .. Len(s),
                      r[i].msg = r[j].msg, r[i].msg # Torn
               PROVE  r[i].id = r[j].id
    BY <1>1 DEF OneId, In
  <2>1. s[i].msg = s[j].msg /\ s[i].msg # Torn /\ s[i] \in In(s) /\ s[j] \in In(s)
    BY <1>2 DEF In
  <2>2. s[i].id = s[j].id
    BY <1>3, <2>1 DEF OneId
  <2>3. /\ s[i].id = s[1].id + i - 1 /\ s[j].id = s[1].id + j - 1
        /\ 1 \in 1 .. Len(s)
    BY <1>1 DEF Consecutive
  <2>4. s[1].id \in Nat
    BY <2>3, ItemNumbers
  <2>5. i \in Int /\ j \in Int
    BY <1>1
  <2>6. s[1].id + i - 1 = s[1].id + j - 1
    BY <2>2, <2>3
  <2>7. i = j
    BY <2>4, <2>5, <2>6
  <2> QED BY <2>7
<1>4. ASSUME Old(In(s), w) PROVE Old(In(r), w)
  BY <1>1, <1>2, <1>4 DEF Old, In
<1>5. ASSUME Fresh(In(s), a) PROVE Fresh(In(r), a)
  BY <1>1, <1>2, <1>5 DEF Fresh, In
<1> QED BY <1>3, <1>4, <1>5 DEF r

(* Kinds and contents of the files that the start-up makes.                *)
LEMMA MadeFiles ==
  /\ NoFile.kind = "none" /\ NoFile.recs = <<>>
  /\ EmptyFile.kind = "empty" /\ EmptyFile.recs = <<>>
  /\ NewFile.kind = "fifo" /\ NewFile.recs = <<>> /\ NewFile.lastAckId = 0
BY DEF NoFile, EmptyFile, NewFile, FileOf

(* An empty file is right, and a header is not about messages.             *)
LEMMA EmptyRight ==
  ASSUME NEW f, f.recs = <<>>, NEW w
  PROVE  FileRight(f, w)
BY InEmpty DEF FileRight, OneId, Old

(* The start-up.                                                           *)
LEMMA StartHistory ==
  ASSUME IInv, HistoryInv, Start
  PROVE  HistoryInv'
<1>1. /\ FileRight(file, written) /\ FileRight(fileOld, written)
      /\ FileRight(fileNew, written) /\ Fresh(Durable(file, fileOld), acked)
      /\ \A m \in acked : m <= written
  BY DEF HistoryInv, HistoryFiles
<1>2. /\ FileRight(NoFile, written) /\ FileRight(EmptyFile, written)
      /\ FileRight(NewFile, written)
  BY MadeFiles, EmptyRight
<1>3. written' = written /\ acked' = acked
  BY DEF Start, CleanRecoverOld, CleanCreate, CleanCreateHeader, CleanRemoveEmpty,
         CleanBackup, CleanScan, CleanCopy, CleanRenameOld, CleanRenameNew,
         CleanUnlinkOld, Open, CleanUnchanged, historyVars
<1>4. \A old : /\ Durable(NoFile, NoFile) = {} /\ Durable(NewFile, old) = {}
               /\ old.recs = <<>> => Durable(EmptyFile, old) = {}
  BY MadeFiles, InEmpty DEF Durable
<1>5. Fresh({}, acked)
  BY DEF Fresh
<1>6. ASSUME CleanUnchanged, mode # "up", mode' # "up", HistoryFiles', HistoryStart'
      PROVE  HistoryInv'
  <2>1. taken' = <<>> /\ table_client' = <<>> /\ table_disk' = <<>>
    BY <1>6 DEF HistoryInv, HistoryTables, CleanUnchanged, memVars
  <2> QED BY <1>1, <1>3, <1>6, <2>1 DEF HistoryInv, HistoryTables
<1>7. CASE CleanRecoverOld
  <2>1. /\ CleanUnchanged /\ mode = "down" /\ mode' = "down"
        /\ file.kind = "none" /\ file' = fileOld /\ fileOld' = NoFile /\ fileNew' = fileNew
    BY <1>7 DEF CleanRecoverOld
  <2>2. Durable(file', fileOld') \subseteq Durable(file, fileOld)
    BY <2>1, MadeFiles, InEmpty DEF Durable
  <2>3. HistoryFiles'
    BY <1>1, <1>2, <1>3, <2>1, <2>2 DEF HistoryFiles, Fresh
  <2>4. HistoryStart'
    BY <2>1, MadeFiles DEF HistoryStart
  <2> QED BY <1>6, <2>1, <2>3, <2>4
<1>8. CASE CleanCreate
  <2>1. /\ CleanUnchanged /\ mode = "down" /\ mode' = "created"
        /\ fileOld.kind = "none" /\ file' = EmptyFile /\ UNCHANGED <<fileOld, fileNew>>
    BY <1>8 DEF CleanCreate
  <2>2. fileOld.recs = <<>>
    BY <1>1, <2>1 DEF FileRight
  <2>3. HistoryFiles'
    BY <1>1, <1>2, <1>3, <1>4, <1>5, <2>1, <2>2 DEF HistoryFiles
  <2>4. HistoryStart'
    BY <2>1, <2>2, MadeFiles DEF HistoryStart
  <2> QED BY <1>6, <2>1, <2>3, <2>4
<1>9. CASE CleanCreateHeader
  <2>1. /\ CleanUnchanged /\ mode = "created" /\ mode' = "cleaned"
        /\ file' = NewFile /\ UNCHANGED <<fileOld, fileNew>>
    BY <1>9 DEF CleanCreateHeader
  <2>3. HistoryFiles'
    BY <1>1, <1>2, <1>3, <1>4, <1>5, <2>1 DEF HistoryFiles
  <2>4. HistoryStart'
    BY <2>1, MadeFiles DEF HistoryStart
  <2> QED BY <1>6, <2>1, <2>3, <2>4
<1>10. CASE CleanRemoveEmpty \/ CleanBackup
  <2>1. /\ CleanUnchanged /\ mode = "down" /\ mode' = "down"
        /\ file' = NoFile /\ fileOld' = NoFile /\ fileNew' = NoFile
    BY <1>10 DEF CleanRemoveEmpty, CleanBackup
  <2>3. HistoryFiles'
    BY <1>1, <1>2, <1>3, <1>4, <1>5, <2>1 DEF HistoryFiles
  <2>4. HistoryStart'
    BY <2>1, MadeFiles DEF HistoryStart
  <2> QED BY <1>6, <2>1, <2>3, <2>4
<1>11. CASE CleanScan
  <2>1. /\ CleanUnchanged /\ mode = "down" /\ mode' = "cleaned"
        /\ file.kind = "fifo" /\ file.lastAckId = 0
        /\ fileOld' = NoFile /\ fileNew' = NoFile
        /\ \/ file' = file
           \/ file' = [file EXCEPT !.currentId = Last(Sound(file.recs)).id]
    BY <1>11 DEF CleanScan
  <2>2. \A c : LET f == [file EXCEPT !.currentId = c]
               IN  f.kind = file.kind /\ f.lastAckId = file.lastAckId /\ f.recs = file.recs
    BY Numbered DEF File
  <2>3. /\ file'.kind = file.kind /\ file'.lastAckId = file.lastAckId
        /\ file'.recs = file.recs
    BY <2>1, <2>2
  <2>4. Durable(file', fileOld') = Durable(file, fileOld)
    BY <2>1, <2>3 DEF Durable
  <2>5. FileRight(file', written)
    BY <1>1, <2>3 DEF FileRight
  <2>6. HistoryFiles'
    BY <1>1, <1>2, <1>3, <2>1, <2>4, <2>5 DEF HistoryFiles
  <2>7. HistoryStart'
    BY <2>1, <2>3 DEF HistoryStart
  <2> QED BY <1>6, <2>1, <2>6, <2>7
<1>12. CASE CleanCopy
  <2> DEFINE kept == After(file.recs, file.lastAckId)
             r == Renumbered(kept)
             new == FileOf(0, Len(kept), r)
  <2>1. /\ CleanUnchanged /\ mode = "down" /\ mode' = "copied"
        /\ file.kind = "fifo" /\ ~HasTorn(file.recs)
        /\ fileOld' = NoFile /\ fileNew' = new /\ file' = file
    BY <1>12 DEF CleanCopy
  <2>2. /\ kept \in Seq(Item) /\ Consecutive(kept)
        /\ In(kept) = {x \in In(file.recs) : x.id > file.lastAckId}
    BY <2>1, Numbered, InAfter
  <2>3. new.kind = "fifo" /\ new.lastAckId = 0 /\ new.recs = r
    BY DEF FileOf
  <2>4. /\ OneId(In(kept)) /\ Old(In(kept), written) /\ Fresh(In(kept), acked)
    BY <1>1, <2>1, <2>2 DEF FileRight, Durable, OneId, Old
  <2> HIDE DEF kept
  <2>5. /\ OneId(In(r)) /\ Old(In(r), written) /\ Fresh(In(r), acked)
    BY <2>2, <2>4, RenumberedHistory
  <2> HIDE DEF r, new
  <2>6. Durable(file', fileOld') = Durable(file, fileOld)
    BY <2>1 DEF Durable
  <2>7. FileRight(fileNew', written)
    BY <2>1, <2>3, <2>5 DEF FileRight
  <2>8. HistoryFiles'
    BY <1>1, <1>2, <1>3, <2>1, <2>6, <2>7 DEF HistoryFiles
  <2>9. HistoryStart'
    BY <1>3, <2>1, <2>3, <2>5 DEF HistoryStart
  <2> QED BY <1>6, <2>1, <2>8, <2>9
<1>13. CASE CleanRenameOld
  <2>1. /\ CleanUnchanged /\ mode = "copied" /\ mode' = "renamed"
        /\ fileOld' = file /\ file' = NoFile /\ fileNew' = fileNew
    BY <1>13 DEF CleanRenameOld
  <2>2. file.kind = "fifo"
    BY <2>1 DEF HistoryInv, HistoryStart
  <2>3. Durable(file', fileOld') = Durable(file, fileOld)
    BY <2>1, <2>2, MadeFiles DEF Durable
  <2>4. HistoryFiles'
    BY <1>1, <1>2, <1>3, <2>1, <2>3 DEF HistoryFiles
  <2>5. HistoryStart'
    BY <1>3, <2>1, MadeFiles DEF HistoryInv, HistoryStart
  <2> QED BY <1>6, <2>1, <2>4, <2>5
<1>14. CASE CleanRenameNew
  <2>1. /\ CleanUnchanged /\ mode = "renamed" /\ mode' = "swapped"
        /\ file' = fileNew /\ fileNew' = NoFile /\ fileOld' = fileOld
    BY <1>14 DEF CleanRenameNew
  <2>2. /\ fileNew.kind = "fifo" /\ fileNew.lastAckId = 0
        /\ Fresh(In(fileNew.recs), acked)
    BY <2>1 DEF HistoryInv, HistoryStart
  <2>3. Durable(file', fileOld') \subseteq In(fileNew.recs)
    BY <2>1, <2>2 DEF Durable
  <2>4. HistoryFiles'
    BY <1>1, <1>2, <1>3, <2>1, <2>2, <2>3 DEF HistoryFiles, Fresh
  <2>5. HistoryStart'
    BY <1>3, <2>1, <2>2 DEF HistoryStart
  <2> QED BY <1>6, <2>1, <2>4, <2>5
<1>15. CASE CleanUnlinkOld
  <2>1. /\ CleanUnchanged /\ mode = "swapped" /\ mode' = "cleaned"
        /\ fileOld' = NoFile /\ UNCHANGED <<file, fileNew>>
    BY <1>15 DEF CleanUnlinkOld
  <2>2. file.kind = "fifo" /\ file.lastAckId = 0
    BY <2>1 DEF HistoryInv, HistoryStart
  <2>3. Durable(file', fileOld') = Durable(file, fileOld)
    BY <2>1, <2>2 DEF Durable
  <2>4. HistoryFiles'
    BY <1>1, <1>2, <1>3, <2>1, <2>3 DEF HistoryFiles
  <2>5. HistoryStart'
    BY <2>1, <2>2 DEF HistoryStart
  <2> QED BY <1>6, <2>1, <2>4, <2>5
<1>16. CASE Open
  <2>1. /\ mode = "cleaned" /\ mode' = "up" /\ UNCHANGED <<file, fileOld, fileNew>>
        /\ taken' = <<>> /\ table_client' = <<>> /\ table_disk' = <<>> /\ lastIdOut' = 0
    BY <1>16 DEF Open, Memory, fileVars
  <2>2. file.kind = "fifo" /\ file.lastAckId = 0
    BY <2>1 DEF HistoryInv, HistoryStart
  <2>3. HistoryFiles' /\ HistoryStart'
    BY <1>1, <1>3, <2>1, <2>2 DEF HistoryInv, HistoryFiles, HistoryStart
  <2>4. Held' = In(file.recs)
    BY <2>1, InEmpty DEF Held, HeldIn
  <2>5. TablesRight'
    BY <1>1, <1>3, <2>1, <2>2, <2>4, InEmpty DEF TablesRight, FileRight, Fresh, Above
  <2> QED BY <1>1, <1>3, <2>1, <2>3, <2>5 DEF HistoryInv, HistoryTables
<1> QED BY <1>7, <1>8, <1>9, <1>10, <1>11, <1>12, <1>13, <1>14, <1>15, <1>16 DEF Start

-----------------------------------------------------------------------------
(* At first nothing is held and nothing was acknowledged.                  *)
LEMMA InitHistory == Init => HistoryInv
<1> SUFFICES ASSUME Init PROVE HistoryInv
  OBVIOUS
<1>1. Durable(NoFile, NoFile) = {}
  BY MadeFiles, InEmpty DEF Durable
<1>2. FileRight(NoFile, written)
  BY MadeFiles, EmptyRight
<1> QED BY <1>1, <1>2, MadeFiles
        DEF Init, HistoryInv, HistoryFiles, HistoryStart, HistoryTables, Fresh

(* Every function, every step of the start-up and every kill.              *)
LEMMA NextHistory == IInv /\ IInv' /\ HistoryInv /\ [Next]_vars => HistoryInv'
<1> SUFFICES ASSUME IInv, HistoryInv, [Next]_vars PROVE HistoryInv'
  OBVIOUS
<1>1. CASE Read
  BY <1>1, ReadClientTableHistory, ReadDiskTableHistory, ReadFileHistory DEF Read
<1>2. CASE UNCHANGED vars
  BY <1>2 DEF HistoryInv, HistoryFiles, HistoryStart, HistoryTables, TablesRight, Held,
              vars, fileVars, memVars, historyVars
<1> QED BY <1>1, <1>2, WriteHistory, AckHistory, FlushHistory, DestroyHistory,
           StartHistory, KillHistory DEF Next

(* No message whose acknowledgement has returned is handed out again or    *)
(* kept for a later start, wherever the process is killed: in permFIFO_ack *)
(* or ct_save, between two functions, or in permFIFO_file_clean.           *)
THEOREM AcknowledgedIsGone == Spec => []AckedNeverAgain
<1>1. ASSUME IInv, HistoryInv PROVE AckedNeverAgain
  <2>1. /\ Fresh(Durable(file, fileOld), acked)
        /\ Fresh(In(taken), acked) /\ Fresh(In(table_disk), acked)
    BY <1>1, InEmpty DEF HistoryInv, HistoryFiles, HistoryTables, TablesRight, Fresh
  <2>2. In(ReadableItems) \subseteq Durable(file, fileOld)
    BY <1>1, Numbered, ReadableSet DEF ReadableItems, Recoverable
  <2>3. ASSUME NEW s, NEW m \in acked \ {Torn}, Fresh(In(s), acked)
        PROVE  ~Holds(s, m)
    BY <2>3 DEF Holds, Fresh, In
  <2>4. Fresh(In(ReadableItems), acked)
    BY <2>1, <2>2 DEF Fresh
  <2> QED BY <2>1, <2>3, <2>4 DEF AckedNeverAgain
<1> QED BY <1>1, InitHistory, NextHistory, InvariantHolds, PTL DEF Spec

-----------------------------------------------------------------------------
(* The refinement.  What is left unacknowledged, in the file and then in   *)
(* table_disk, has consecutive numbers; what the consumer took is the      *)
(* beginning of it, and table_client is what comes next.                   *)
Whole(s) == \A x \in In(s) : x.msg # Torn
Pend(f, d) == After(f.recs, f.lastAckId) \o d

Lined(p, t, c, out) ==
  /\ Len(t) + Len(c) <= Len(p)
  /\ \A i \in 1 .. Len(t) : t[i] = p[i]
  /\ \A i \in 1 .. Len(c) : c[i] = p[Len(t) + i]
  /\ \A i \in 1 .. Len(p) : p[i].id > out <=> i > Len(t)

QueueInv ==
  /\ Whole(file.recs) /\ Whole(fileOld.recs) /\ Whole(fileNew.recs) /\ Whole(table_disk)
  /\ mode = "created" => file.kind = "empty"
  /\ mode \in {"copied", "renamed"} =>
       Messages(fileNew.recs) = Messages(After(Recoverable.recs, Recoverable.lastAckId))
  /\ mode = "up" =>
       /\ \A x \in In(table_disk) : x.id > file.lastAckId
       /\ Lined(Pend(file, table_disk), taken, table_client, lastIdOut)

-----------------------------------------------------------------------------
(* Lists of consecutive numbers are known by their items.                  *)
LEMMA SameItems ==
  ASSUME NEW s \in Seq(Item), Consecutive(s), NEW t \in Seq(Item), Consecutive(t),
         In(s) = In(t)
  PROVE  s = t
<1>1. Len(s) \in Nat /\ Len(t) \in Nat
  OBVIOUS
<1>2. ASSUME NEW a \in Seq(Item), Consecutive(a), NEW b \in Seq(Item), Consecutive(b),
             In(a) \subseteq In(b), NEW i \in 1 .. Len(a)
      PROVE  \E j \in 1 .. Len(b) : /\ a[i] = b[j] /\ a[1].id + i - 1 = b[1].id + j - 1
                                    /\ a[1].id \in Nat /\ b[1].id \in Nat
  <2>1. PICK j \in 1 .. Len(b) : a[i] = b[j]
    BY <1>2 DEF In
  <2>2. 1 \in 1 .. Len(a) /\ 1 \in 1 .. Len(b) /\ i \in Int /\ j \in Int
    BY <1>2
  <2>3. a[1].id \in Nat /\ b[1].id \in Nat
    BY <2>2, ItemNumbers
  <2>4. a[i].id = a[1].id + i - 1 /\ b[j].id = b[1].id + j - 1
    BY <1>2 DEF Consecutive
  <2>5. a[1].id + i - 1 = b[1].id + j - 1
    BY <2>1, <2>4
  <2> QED BY <2>1, <2>3, <2>5
<1>3. CASE s = <<>> \/ t = <<>>
  <2>1. ASSUME NEW a \in Seq(Item), NEW b \in Seq(Item), In(a) = In(b), a = <<>>
        PROVE  b = <<>>
    <3>1. In(b) = {}
      BY <2>1, InEmpty
    <3>2. CASE b # <<>>
      <4>1. 1 \in 1 .. Len(b)
        BY <3>2
      <4> QED BY <3>1, <4>1 DEF In
    <3> QED BY <3>2
  <2> QED BY <1>3, <2>1
<1>4. CASE s # <<>> /\ t # <<>>
  <2>1. 1 \in 1 .. Len(s) /\ 1 \in 1 .. Len(t)
    BY <1>1, <1>4
  <2>2. s[1].id = t[1].id /\ s[1].id \in Nat
    <3>1. PICK j \in 1 .. Len(t) : /\ s[1].id + 1 - 1 = t[1].id + j - 1
                                   /\ s[1].id \in Nat /\ t[1].id \in Nat
      BY <1>2, <2>1
    <3>2. PICK k \in 1 .. Len(s) : t[1].id + 1 - 1 = s[1].id + k - 1
      BY <1>2, <2>1
    <3> QED BY <3>1, <3>2
  <2>3. ASSUME NEW i \in 1 .. Len(s) PROVE i \in 1 .. Len(t) /\ s[i] = t[i]
    <3>1. PICK j \in 1 .. Len(t) : s[i] = t[j] /\ s[1].id + i - 1 = t[1].id + j - 1
      BY <1>2
    <3>2. i \in Int /\ j \in Int
      BY <1>1
    <3>3. i = j
      BY <2>2, <3>1, <3>2
    <3> QED BY <3>1, <3>3
  <2>4. ASSUME NEW i \in 1 .. Len(t) PROVE i \in 1 .. Len(s)
    <3>1. PICK j \in 1 .. Len(s) : t[i] = s[j] /\ t[1].id + i - 1 = s[1].id + j - 1
      BY <1>2
    <3>2. i \in Int /\ j \in Int
      BY <1>1
    <3>3. i = j
      BY <2>2, <3>1, <3>2
    <3> QED BY <3>3
  <2>5. Len(s) = Len(t)
    <3>1. Len(s) \in 1 .. Len(s) /\ Len(t) \in 1 .. Len(t)
      BY <1>1, <2>1
    <3>2. Len(s) \in 1 .. Len(t) /\ Len(t) \in 1 .. Len(s)
      BY <2>3, <2>4, <3>1
    <3> QED BY <1>1, <3>2
  <2> QED BY <2>3, <2>5, SeqEqual
<1> QED BY <1>3, <1>4

(* A file and a table_disk whose numbers follow.                           *)
Joined(f, d) ==
  /\ f \in File /\ d \in Seq(Item) /\ Consecutive(f.recs) /\ Consecutive(d)
  /\ f.recs # <<>> /\ d # <<>> => d[1].id = Last(f.recs).id + 1

(* What is left of them.                                                   *)
LEMMA PendRight ==
  ASSUME NEW f, NEW d, Joined(f, d), NEW h, h = After(f.recs, f.lastAckId)
  PROVE  /\ h \in Seq(Item) /\ Consecutive(h)
         /\ In(h) = {x \in In(f.recs) : x.id > f.lastAckId}
         /\ Pend(f, d) = h \o d /\ Pend(f, d) \in Seq(Item) /\ Consecutive(Pend(f, d))
         /\ In(Pend(f, d)) = In(h) \union In(d)
         /\ Len(Pend(f, d)) = Len(h) + Len(d)
         /\ \A i \in 1 .. Len(h) : Pend(f, d)[i] = h[i]
         /\ \A i \in 1 .. Len(d) : Pend(f, d)[Len(h) + i] = d[i]
         /\ h # <<>> => f.recs # <<>> /\ Last(h) = Last(f.recs)
<1>1. /\ f.recs \in Seq(Item) /\ f.lastAckId \in Nat /\ Consecutive(f.recs)
      /\ d \in Seq(Item) /\ Consecutive(d)
  BY FileFields DEF Joined
<1>2. /\ h \in Seq(Item) /\ Consecutive(h)
      /\ In(h) = {x \in In(f.recs) : x.id > f.lastAckId}
  BY <1>1, InAfter
<1>3. h # <<>> => f.recs # <<>> /\ Last(h) = Last(f.recs)
  <2>1. ASSUME h # <<>> PROVE f.recs # <<>> /\ Last(h) = Last(f.recs)
    <3>1. PICK k \in 1 .. Len(f.recs) : Part(h, f.recs, k, Len(f.recs))
      BY <1>1, <2>1, AfterIsPart
    <3>2. h[Len(h)] = f.recs[Len(f.recs)]
      BY <1>1, <3>1, PartOfConsecutive
    <3>3. f.recs # <<>>
      BY <3>1
    <3> QED BY <3>2, <3>3 DEF Last
  <2> QED BY <2>1
<1>4. h # <<>> /\ d # <<>> => d[1].id = h[Len(h)].id + 1
  BY <1>3 DEF Joined, Last
<1>5. /\ h \o d \in Seq(Item) /\ Len(h \o d) = Len(h) + Len(d) /\ Consecutive(h \o d)
  BY <1>1, <1>2, <1>4, ConsecutiveConcat
<1>6. In(h \o d) = In(h) \union In(d)
  BY <1>1, <1>2, InConcat
<1>7. /\ \A i \in 1 .. Len(h) : (h \o d)[i] = h[i]
      /\ \A i \in 1 .. Len(d) : (h \o d)[Len(h) + i] = d[i]
  BY <1>1, <1>2
<1>8. Pend(f, d) = h \o d
  BY DEF Pend
<1> QED BY <1>2, <1>3, <1>5, <1>6, <1>7, <1>8

(* The messages of a list.                                                 *)
LEMMA MessagesOf ==
  ASSUME NEW s \in Seq(Item)
  PROVE  /\ Messages(s) \in Seq(Nat) /\ Len(Messages(s)) = Len(s) /\ Len(s) \in Nat
         /\ \A i \in 1 .. Len(s) : Messages(s)[i] = s[i].msg
<1>1. Len(s) \in Nat
  OBVIOUS
<1>2. \A i \in 1 .. Len(s) : s[i].msg \in Nat
  <2>1. \A i \in 1 .. Len(s) : s[i] \in In(s)
    BY DEF In
  <2> QED BY <2>1, InItems
<1> QED BY <1>1, <1>2 DEF Messages

(* ... of one with an item more at its end, ...                            *)
LEMMA MessagesAppend ==
  ASSUME NEW s \in Seq(Item), NEW x \in Item
  PROVE  Messages(Append(s, x)) = Append(Messages(s), x.msg)
<1> DEFINE a == Append(s, x)
           m == Messages(s)
           b == Append(m, x.msg)
<1>1. /\ a \in Seq(Item) /\ Len(a) = Len(s) + 1
      /\ \A i \in 1 .. Len(s) : a[i] = s[i]
      /\ a[Len(s) + 1] = x
  OBVIOUS
<1>2. m \in Seq(Nat) /\ Len(m) = Len(s) /\ \A i \in 1 .. Len(s) : m[i] = s[i].msg
  BY MessagesOf
<1>3. x.msg \in Nat
  BY BoundAssumption DEF Item, Message, Torn
<1> HIDE DEF m
<1>4. /\ b \in Seq(Nat) /\ Len(b) = Len(s) + 1
      /\ \A i \in 1 .. Len(s) : b[i] = m[i]
      /\ b[Len(s) + 1] = x.msg
  BY <1>2, <1>3
<1> HIDE DEF a, b
<1>5. /\ Messages(a) \in Seq(Nat) /\ Len(Messages(a)) = Len(s) + 1
      /\ \A i \in 1 .. Len(s) + 1 : Messages(a)[i] = a[i].msg
  BY <1>1, MessagesOf
<1>6. ASSUME NEW i \in 1 .. Len(s) + 1 PROVE Messages(a)[i] = b[i]
  <2>1. i \in 1 .. Len(s) \/ i = Len(s) + 1
    OBVIOUS
  <2> QED BY <1>1, <1>2, <1>4, <1>5, <2>1
<1>7. Messages(a) = b
  BY <1>4, <1>5, <1>6, SeqEqual
<1> QED BY <1>7 DEF a, b, m

(* ... of one without its head, ...                                        *)
LEMMA MessagesTail ==
  ASSUME NEW s \in Seq(Item), s # <<>>
  PROVE  Messages(Tail(s)) = Tail(Messages(s)) /\ Messages(s) # <<>>
<1> DEFINE m == Messages(s)
           a == Tail(s)
           b == Tail(m)
<1>1. /\ a \in Seq(Item) /\ Len(a) = Len(s) - 1 /\ Len(s) \in Nat \ {0}
      /\ \A i \in 1 .. Len(s) - 1 : a[i] = s[i + 1]
  OBVIOUS
<1>2. m \in Seq(Nat) /\ Len(m) = Len(s) /\ \A i \in 1 .. Len(s) : m[i] = s[i].msg
  BY MessagesOf
<1> HIDE DEF m
<1>3. m # <<>>
  BY <1>1, <1>2
<1>4. /\ b \in Seq(Nat) /\ Len(b) = Len(s) - 1
      /\ \A i \in 1 .. Len(s) - 1 : b[i] = m[i + 1]
  BY <1>2, <1>3
<1> HIDE DEF a, b
<1>5. /\ Messages(a) \in Seq(Nat) /\ Len(Messages(a)) = Len(s) - 1
      /\ \A i \in 1 .. Len(s) - 1 : Messages(a)[i] = a[i].msg
  BY <1>1, MessagesOf
<1>6. ASSUME NEW i \in 1 .. Len(s) - 1 PROVE Messages(a)[i] = b[i]
  <2>1. i + 1 \in 1 .. Len(s)
    BY <1>1
  <2> QED BY <1>1, <1>2, <1>4, <1>5, <2>1
<1>7. Messages(a) = b
  BY <1>4, <1>5, <1>6, SeqEqual
<1> QED BY <1>3, <1>7 DEF a, b, m

(* ... and of the beginning of one.                                        *)
LEMMA MessagesPrefix ==
  ASSUME NEW s \in Seq(Item), NEW t \in Seq(Item), Len(t) <= Len(s),
         \A i \in 1 .. Len(t) : t[i] = s[i]
  PROVE  Messages(t) = SubSeq(Messages(s), 1, Len(t))
<1> DEFINE m == Messages(s)
           b == SubSeq(m, 1, Len(t))
<1>1. Len(s) \in Nat /\ Len(t) \in Nat /\ \A i \in 1 .. Len(t) : i \in 1 .. Len(s)
  OBVIOUS
<1>2. m \in Seq(Nat) /\ Len(m) = Len(s) /\ \A i \in 1 .. Len(s) : m[i] = s[i].msg
  BY MessagesOf
<1> HIDE DEF m
<1>3. /\ b \in Seq(Nat) /\ Len(b) = Len(t)
      /\ \A i \in 1 .. Len(t) : b[i] = m[i]
  BY <1>1, <1>2
<1> HIDE DEF b
<1>4. /\ Messages(t) \in Seq(Nat) /\ Len(Messages(t)) = Len(t)
      /\ \A i \in 1 .. Len(t) : Messages(t)[i] = t[i].msg
  BY MessagesOf
<1>5. Messages(t) = b
  <2>1. /\ Messages(t) \in Seq(Nat) /\ b \in Seq(Nat) /\ Len(Messages(t)) = Len(b)
        /\ \A i \in 1 .. Len(t) : Messages(t)[i] = b[i]
    BY <1>1, <1>2, <1>3, <1>4
  <2>2. \A i \in 1 .. Len(Messages(t)) : Messages(t)[i] = b[i]
    BY <1>4, <2>1
  <2> QED BY <2>1, <2>2, SeqEqual
<1> QED BY <1>5 DEF b, m

-----------------------------------------------------------------------------
(* In a list without a torn record a sequential reader finds everything.   *)
LEMMA WholeIsSound ==
  ASSUME NEW r \in Seq(Item), Whole(r)
  PROVE  ~HasTorn(r) /\ Sound(r) = r
<1>1. ~HasTorn(r)
  BY DEF HasTorn, Whole, In
<1> QED BY <1>1, SoundIsPrefix

(* What the invariant of the numbers then says of the file.                *)
LEMMA WholeNumbered ==
  ASSUME IInv, Whole(file.recs)
  PROVE  /\ ~HasTorn(file.recs) /\ Sound(file.recs) = file.recs
         /\ file.recs \in Seq(Item) /\ Consecutive(file.recs)
         /\ mode = "up" =>
              /\ lastOutOffset \in 0 .. Len(file.recs)
              /\ file.recs # <<>> => Last(file.recs).id = lastIdOnDisk
              /\ \A i \in 1 .. lastOutOffset :
                   file.recs[i].id <= lastIdOut + Len(table_client)
<1>1. ~HasTorn(file.recs) /\ Sound(file.recs) = file.recs
  BY Numbered, WholeIsSound
<1>2. mode = "up" =>
        /\ file.recs # <<>> => Last(file.recs).id = lastIdOnDisk
        /\ \A i \in 1 .. lastOutOffset :
             file.recs[i].id <= lastIdOut + Len(table_client)
  BY <1>1 DEF IInv, NumbersInOrder, TablesNumbered
<1> QED BY <1>1, <1>2, Numbered

(* An open FIFO has numbers that follow from the file to table_disk, ...   *)
LEMMA JoinedUp ==
  ASSUME IInv, Whole(file.recs), mode = "up"
  PROVE  Joined(file, table_disk)
BY WholeNumbered DEF IInv, TypeOK, NumbersInOrder, TablesNumbered, Joined

(* ... also after a step.                                                  *)
LEMMA JoinedUpNext ==
  ASSUME IInv', Whole(file'.recs), mode' = "up"
  PROVE  Joined(file', table_disk')
<1>1. file' \in File
  BY DEF IInv, TypeOK
<1>2. Sound(file'.recs) = file'.recs
  BY <1>1, FileFields, WholeIsSound
<1>3. file'.recs # <<>> => Last(file'.recs).id = lastIdOnDisk'
  BY <1>2 DEF IInv, NumbersInOrder, TablesNumbered
<1> QED BY <1>1, <1>2, <1>3
        DEF IInv, TypeOK, NumbersInOrder, FilesNumbered, TablesNumbered, Joined

(* The mapping, of a FIFO whose file is in its place.                      *)
LEMMA MappedOpen ==
  /\ file.kind = "fifo" =>
       /\ Pending = Messages(Pend(file, table_disk))
       /\ Len(DurableItems) = Len(After(file.recs, file.lastAckId))
  /\ file'.kind = "fifo" =>
       /\ Pending' = Messages(Pend(file', table_disk'))
       /\ Len(DurableItems)' = Len(After(file'.recs, file'.lastAckId))
BY DEF Pending, DurableItems, Recoverable, Pend

(* What is added to the file is added to what it has left.                 *)
LEMMA Stored ==
  ASSUME NEW f \in File, NEW t, Joined(f, t), NEW g \in File,
         g.recs = f.recs \o t, g.lastAckId = f.lastAckId,
         \A x \in In(t) : x.id > f.lastAckId
  PROVE  After(g.recs, g.lastAckId) = Pend(f, t)
<1>1. /\ f.recs \in Seq(Item) /\ f.lastAckId \in Nat /\ Consecutive(f.recs)
      /\ t \in Seq(Item) /\ Consecutive(t)
  BY FileFields DEF Joined
<1>2. f.recs # <<>> /\ t # <<>> => t[1].id = f.recs[Len(f.recs)].id + 1
  BY DEF Joined, Last
<1>3. /\ g.recs \in Seq(Item) /\ Consecutive(g.recs)
      /\ In(g.recs) = In(f.recs) \union In(t)
  BY <1>1, <1>2, ConsecutiveConcat, InConcat
<1> DEFINE h == After(f.recs, f.lastAckId)
           l == After(g.recs, g.lastAckId)
<1>4. /\ l \in Seq(Item) /\ Consecutive(l)
      /\ In(l) = {x \in In(g.recs) : x.id > f.lastAckId}
  BY <1>1, <1>3, InAfter
<1>5. /\ In(h) = {x \in In(f.recs) : x.id > f.lastAckId}
      /\ Pend(f, t) \in Seq(Item) /\ Consecutive(Pend(f, t))
      /\ In(Pend(f, t)) = In(h) \union In(t)
  BY PendRight
<1>6. In(l) = In(Pend(f, t))
  BY <1>3, <1>4, <1>5
<1> QED BY <1>4, <1>5, <1>6, SameItems

(* permFIFO_save_tabledisk: all that is left is then in the file.          *)
LEMMA SaveStored ==
  ASSUME IInv, QueueInv, mode = "up", SaveTableDisk
  PROVE  /\ After(file'.recs, file'.lastAckId) = Pend(file, table_disk)
         /\ file'.kind = file.kind /\ file'.lastAckId = file.lastAckId
         /\ Whole(file'.recs)
<1>1. Joined(file, table_disk) /\ \A x \in In(table_disk) : x.id > file.lastAckId
  BY JoinedUp DEF QueueInv
<1> DEFINE r == file.recs \o table_disk
<1>2. r \in Seq(Item) /\ In(r) = In(file.recs) \union In(table_disk)
  BY Numbered, InConcat
<1>3. file' \in File /\ file'.recs = r /\ file'.kind = file.kind
      /\ file'.lastAckId = file.lastAckId
  <2>1. CASE table_disk = <<>>
    <3>1. r = file.recs
      BY <2>1, Numbered
    <3> QED BY <2>1, <3>1, Numbered DEF SaveTableDisk
  <2>2. CASE table_disk # <<>>
    <3>1. file' = [file EXCEPT !.recs = r]
      BY <2>2 DEF SaveTableDisk
    <3> HIDE DEF r
    <3> QED BY <1>2, <3>1, Numbered, RecordsOnly, FileFields
  <2> QED BY <2>1, <2>2
<1>4. After(file'.recs, file'.lastAckId) = Pend(file, table_disk)
  BY <1>1, <1>3, Numbered, Stored
<1>5. Whole(file'.recs)
  BY <1>2, <1>3 DEF QueueInv, Whole
<1> QED BY <1>3, <1>4, <1>5

(* The last number that is left is that of the last message written.       *)
LEMMA LastPending ==
  ASSUME IInv, Whole(file.recs), mode = "up",
         NEW p, p = Pend(file, table_disk), p # <<>>
  PROVE  p[Len(p)].id = currentId
<1> DEFINE h == After(file.recs, file.lastAckId)
<1>1. Joined(file, table_disk)
  BY JoinedUp
<1>2. /\ h \in Seq(Item) /\ p = h \o table_disk /\ Len(p) = Len(h) + Len(table_disk)
      /\ \A i \in 1 .. Len(h) : p[i] = h[i]
      /\ \A i \in 1 .. Len(table_disk) : p[Len(h) + i] = table_disk[i]
      /\ h # <<>> => file.recs # <<>> /\ Last(h) = Last(file.recs)
  BY <1>1, PendRight
<1>3. /\ table_disk # <<>> => Last(table_disk).id = currentId
      /\ file.recs # <<>> /\ table_disk = <<>> =>
           Last(file.recs).id = lastIdOnDisk /\ lastIdOnDisk = currentId
  BY WholeNumbered DEF IInv, NumbersInOrder, TablesNumbered
<1> HIDE DEF h
<1>4. Len(h) \in Nat /\ Len(table_disk) \in Nat
  BY <1>2, Numbered
<1>5. CASE table_disk # <<>>
  <2>1. Len(table_disk) \in 1 .. Len(table_disk)
    BY <1>4, <1>5, Numbered
  <2> QED BY <1>2, <1>3, <1>5, <2>1 DEF Last
<1>6. CASE table_disk = <<>>
  <2>1. Len(p) = Len(h)
    BY <1>2, <1>4, <1>6
  <2>2. h # <<>> /\ Len(h) \in 1 .. Len(h)
    <3>1. h # <<>>
      BY <1>2, <1>6
    <3> QED BY <1>2, <1>4, <3>1
  <2> QED BY <1>2, <1>3, <1>6, <2>1, <2>2 DEF Last
<1> QED BY <1>5, <1>6

(* What is expected of table_client: nothing is left behind it when the    *)
(* next number is the one that permFIFO_write gives.                       *)
LEMMA NothingBehind ==
  ASSUME IInv, QueueInv, mode = "up", lastIdOut + Len(table_client) = currentId,
         NEW p, p = Pend(file, table_disk)
  PROVE  Len(taken) + Len(table_client) = Len(p)
<1>1. /\ p \in Seq(Item) /\ Consecutive(p) /\ Len(p) \in Nat
      /\ Len(taken) \in Nat /\ Len(table_client) \in Nat
      /\ lastIdOut \in Nat /\ currentId \in Nat
  BY JoinedUp, PendRight, Numbered DEF QueueInv
<1>2. Lined(p, taken, table_client, lastIdOut)
  BY DEF QueueInv
<1>3. SUFFICES ASSUME Len(taken) + Len(table_client) < Len(p) PROVE FALSE
  BY <1>1, <1>2 DEF Lined
<1> DEFINE j == Len(taken) + 1
<1>4. /\ p # <<>> /\ j \in 1 .. Len(p) /\ Len(p) \in 1 .. Len(p) /\ 1 \in 1 .. Len(p)
      /\ j > Len(taken) /\ j \in Int
  BY <1>1, <1>3
<1>5. p[j].id > lastIdOut
  BY <1>2, <1>4 DEF Lined
<1>6. /\ p[j].id = p[1].id + j - 1 /\ p[Len(p)].id = p[1].id + Len(p) - 1
      /\ p[1].id \in Nat
  BY <1>1, <1>4, ItemNumbers DEF Consecutive
<1>7. p[Len(p)].id = currentId
  BY <1>4, LastPending DEF QueueInv
<1>8. p[1].id + j - 1 > lastIdOut /\ p[1].id + Len(p) - 1 = currentId
  BY <1>5, <1>6, <1>7
<1>9. Len(table_client) < Len(p) - Len(taken)
  BY <1>1, <1>3
<1> QED BY <1>1, <1>6, <1>8, <1>9

(* The mapped step.                                                        *)
QueueStep == Queue!Next \/ UNCHANGED <<Pending, Messages(taken), Len(DurableItems), written>>

(* An item written is the last one left.                                   *)
LEMMA LinedAppend ==
  ASSUME NEW p \in Seq(Item), NEW t \in Seq(Item), NEW c \in Seq(Item), NEW out \in Nat,
         Lined(p, t, c, out), NEW x \in Item, x.id > out
  PROVE  /\ Lined(Append(p, x), t, c, out)
         /\ Len(t) + Len(c) = Len(p) => Lined(Append(p, x), t, Append(c, x), out)
<1> DEFINE q == Append(p, x)
           d == Append(c, x)
<1>1. /\ Len(q) = Len(p) + 1 /\ Len(p) \in Nat /\ Len(t) \in Nat /\ Len(c) \in Nat
      /\ \A i \in 1 .. Len(p) : q[i] = p[i]
      /\ q[Len(p) + 1] = x
  OBVIOUS
<1>2. /\ Len(d) = Len(c) + 1
      /\ \A i \in 1 .. Len(c) : d[i] = c[i]
      /\ d[Len(c) + 1] = x
  OBVIOUS
<1> HIDE DEF q, d
<1>3. Len(t) + Len(c) <= Len(p)
  BY DEF Lined
<1>4. \A i \in 1 .. Len(t) : t[i] = q[i]
  <2>1. \A i \in 1 .. Len(t) : i \in 1 .. Len(p)
    BY <1>1, <1>3
  <2> QED BY <1>1, <2>1 DEF Lined
<1>5. \A i \in 1 .. Len(c) : c[i] = q[Len(t) + i]
  <2>1. \A i \in 1 .. Len(c) : Len(t) + i \in 1 .. Len(p)
    BY <1>1, <1>3
  <2> QED BY <1>1, <2>1 DEF Lined
<1>6. \A i \in 1 .. Len(q) : q[i].id > out <=> i > Len(t)
  <2> TAKE i \in 1 .. Len(q)
  <2>1. CASE i \in 1 .. Len(p)
    BY <1>1, <2>1 DEF Lined
  <2>2. CASE i = Len(p) + 1
    BY <1>1, <1>3, <2>2
  <2> QED BY <1>1, <2>1, <2>2
<1>7. Lined(q, t, c, out)
  BY <1>1, <1>3, <1>4, <1>5, <1>6 DEF Lined
<1>8. ASSUME Len(t) + Len(c) = Len(p) PROVE Lined(q, t, d, out)
  <2>1. Len(c) = Len(p) - Len(t)
    BY <1>1, <1>8
  <2>2. Len(t) + Len(d) <= Len(q)
    BY <1>1, <1>2, <2>1
  <2>3. ASSUME NEW i \in 1 .. Len(d) PROVE d[i] = q[Len(t) + i]
    <3>1. i \in 1 .. Len(c) \/ (i = Len(c) + 1 /\ Len(t) + i = Len(p) + 1)
      BY <1>1, <1>2, <2>1
    <3> QED BY <1>1, <1>2, <1>5, <3>1
  <2> QED BY <1>4, <1>6, <2>2, <2>3 DEF Lined
<1> QED BY <1>7, <1>8 DEF q, d

(* permFIFO_write.                                                         *)
LEMMA WriteQueue ==
  ASSUME IInv, IInv', HistoryInv, QueueInv, Write
  PROVE  QueueInv' /\ QueueStep
<1> DEFINE item == [id |-> currentId + 1, msg |-> written + 1]
           p == Pend(file, table_disk)
           q == Pend(file', table_disk')
           h == After(file.recs, file.lastAckId)
           l == After(file'.recs, file'.lastAckId)
<1>1. /\ mode = "up" /\ mode' = "up" /\ written' = written + 1 /\ written < MaxMsg
      /\ UNCHANGED <<fileOld, fileNew, lastIdOut, taken>>
      /\ \/ table_client' = table_client
         \/ /\ table_client' = Append(table_client, item)
            /\ currentId + 1 = nextIdInClientTable
      /\ \/ SaveTableDisk /\ table_disk' = <<item>>
         \/ file' = file /\ table_disk' = Append(table_disk, item)
  BY DEF Write
<1>2. item \in Item /\ item.msg = written + 1 /\ item.id = currentId + 1
      /\ written \in Nat
  <2>1. written + 1 \in Message
    BY <1>1, Numbered, BoundAssumption, SMTT(30) DEF Message
  <2> QED BY <2>1, Numbered, SMTT(30) DEF Item
<1> HIDE DEF item
<1>3. /\ p \in Seq(Item) /\ Consecutive(p) /\ In(p) = In(h) \union In(table_disk)
      /\ Len(p) = Len(h) + Len(table_disk) /\ h \in Seq(Item)
  BY <1>1, JoinedUp, PendRight DEF QueueInv
<1>0. Whole(file'.recs)
  BY <1>1, SaveStored DEF QueueInv
<1>4. /\ q \in Seq(Item) /\ Consecutive(q) /\ In(q) = In(l) \union In(table_disk')
      /\ Len(q) = Len(l) + Len(table_disk')
  BY <1>0, <1>1, JoinedUpNext, PendRight
<1>5. /\ Append(p, item) \in Seq(Item) /\ Consecutive(Append(p, item))
      /\ In(Append(p, item)) = In(p) \union {item}
  <2>1. p # <<>> => item.id = p[Len(p)].id + 1
    BY <1>1, <1>2, LastPending DEF QueueInv
  <2> QED BY <1>2, <1>3, <2>1, ConsecutiveAppend, InAppend
<1>6. /\ Len(l) = Len(h) \/ Len(l) = Len(p)
      /\ In(l) \union In(table_disk') = In(h) \union In(table_disk) \union {item}
      /\ file'.kind = file.kind /\ file'.lastAckId = file.lastAckId
      /\ Whole(file'.recs)
  <2>1. CASE SaveTableDisk /\ table_disk' = <<item>>
    <3>1. /\ l = p /\ file'.kind = file.kind /\ file'.lastAckId = file.lastAckId
          /\ Whole(file'.recs)
      BY <1>1, <2>1, SaveStored
    <3>2. In(<<item>>) = {item}
      BY DEF In
    <3> QED BY <1>3, <2>1, <3>1, <3>2
  <2>2. CASE file' = file /\ table_disk' = Append(table_disk, item)
    <3>1. In(Append(table_disk, item)) = In(table_disk) \union {item}
      BY <1>2, Numbered, InAppend
    <3> QED BY <2>2, <3>1 DEF QueueInv
  <2> QED BY <1>1, <2>1, <2>2
<1>7. q = Append(p, item)
  BY <1>3, <1>4, <1>5, <1>6, SameItems
<1>8. Lined(p, taken, table_client, lastIdOut)
  BY <1>1 DEF QueueInv
<1>9. lastIdOut + Len(table_client) <= currentId /\ lastIdOut \in Nat /\ currentId \in Nat
      /\ Len(table_client) \in Nat /\ taken \in Seq(Item) /\ table_client \in Seq(Item)
  BY <1>1, Numbered DEF IInv, NumbersInOrder, TablesNumbered
<1>10. item.id > lastIdOut
  BY <1>2, <1>9
<1> HIDE DEF p, q, h, l
<1>11. Lined(q, taken', table_client', lastIdOut')
  <2>1. CASE table_client' = table_client
    BY <1>1, <1>2, <1>3, <1>7, <1>8, <1>9, <1>10, <2>1, LinedAppend
  <2>2. CASE table_client' = Append(table_client, item)
             /\ currentId + 1 = nextIdInClientTable
    <3>1. nextIdInClientTable = lastIdOut + Len(table_client) + 1
      BY <1>1, <1>9, <2>2 DEF IInv, NumbersInOrder, TablesNumbered
    <3>2. currentId + 1 = lastIdOut + Len(table_client) + 1
      BY <2>2, <3>1
    <3>3. lastIdOut + Len(table_client) = currentId
      BY <1>9, <3>2
    <3>4. Len(taken) + Len(table_client) = Len(p)
      BY <1>1, <3>3, NothingBehind DEF p
    <3> QED BY <1>1, <1>2, <1>3, <1>7, <1>8, <1>9, <1>10, <2>2, <3>4, LinedAppend
  <2> QED BY <1>1, <2>1, <2>2
<1>12. \A x \in In(table_disk') : x.id > file'.lastAckId /\ x.msg # Torn
  <2>1. In(table_disk') \subseteq In(table_disk) \union {item}
    <3>1. In(<<item>>) = {item}
      BY DEF In
    <3> QED BY <1>1, <1>2, <3>1, Numbered, InAppend
  <2>2. file.lastAckId <= lastIdOut /\ file.lastAckId \in Nat
    BY <1>1, Numbered DEF HistoryInv, HistoryTables, TablesRight, Above
  <2>3. item.id > file.lastAckId /\ item.msg # Torn
    BY <1>2, <1>9, <1>10, <2>2 DEF Torn
  <2> QED BY <1>1, <1>6, <2>1, <2>3 DEF QueueInv, Whole
<1>13. QueueInv'
  BY <1>1, <1>6, <1>11, <1>12 DEF QueueInv, Whole, q
<1>14. file.kind = "fifo" /\ file'.kind = "fifo"
  BY <1>1, <1>6 DEF HistoryInv, HistoryStart
<1>15. /\ Pending = Messages(p) /\ Pending' = Messages(q)
       /\ Len(DurableItems) = Len(h) /\ Len(DurableItems)' = Len(l)
  BY <1>14, MappedOpen DEF p, q, h, l
<1>16. Pending' = Append(Pending, written') /\ Len(Pending) = Len(p)
  BY <1>1, <1>2, <1>3, <1>7, <1>15, MessagesAppend, MessagesOf
<1>17. Len(DurableItems)' \in Len(DurableItems) .. Len(Pending)
  <2>1. Len(h) \in Nat /\ Len(table_disk) \in Nat
    BY <1>3, Numbered
  <2> QED BY <1>3, <1>6, <1>15, <1>16, <2>1
<1>18. Queue!Put
  BY <1>1, <1>16, <1>17 DEF Queue!Put
<1> QED BY <1>13, <1>18 DEF QueueStep, Queue!Next

-----------------------------------------------------------------------------
(* The items s are those of p from place j, the first one above out.       *)
ComesNext(p, out, s, j) ==
  /\ s # <<>>
  /\ j \in 1 .. Len(p) /\ j + Len(s) - 1 <= Len(p)
  /\ \A i \in 1 .. Len(s) : s[i] = p[j + i - 1]
  /\ p[j].id > out
  /\ j > 1 => p[j - 1].id <= out

(* A read takes what comes next in what is left.                           *)
LEMMA LinedTaken ==
  ASSUME NEW p \in Seq(Item), Consecutive(p), NEW t \in Seq(Item), NEW c, NEW out \in Nat,
         Lined(p, t, c, out), NEW s \in Seq(Item), NEW j, ComesNext(p, out, s, j)
  PROVE  /\ Lined(p, Append(t, Head(s)), Tail(s), Head(s).id)
         /\ Len(Messages(t)) < Len(Messages(p))
         /\ Messages(Append(t, Head(s)))
              = Append(Messages(t), Messages(p)[Len(Messages(t)) + 1])
<1> DEFINE x == Head(s)
           r == Tail(s)
           u == Append(t, x)
<1>0. /\ s # <<>> /\ j \in 1 .. Len(p) /\ j + Len(s) - 1 <= Len(p)
      /\ \A i \in 1 .. Len(s) : s[i] = p[j + i - 1]
      /\ p[j].id > out /\ (j > 1 => p[j - 1].id <= out)
  BY DEF ComesNext
<1>1. /\ Len(p) \in Nat /\ Len(t) \in Nat /\ Len(s) \in Nat \ {0}
      /\ x = s[1] /\ x \in Item /\ Len(r) = Len(s) - 1
      /\ \A i \in 1 .. Len(s) - 1 : r[i] = s[i + 1]
  BY <1>0
<1>2. /\ Len(u) = Len(t) + 1 /\ \A i \in 1 .. Len(t) : u[i] = t[i]
      /\ u[Len(t) + 1] = x
  BY <1>1
<1>3. \A i \in 1 .. Len(p) : p[i].id \in Nat /\ p[i].id = p[1].id + i - 1
  BY ItemNumbers DEF Consecutive
<1>4. p[1].id \in Nat
  BY <1>0, <1>1, <1>3
<1> HIDE DEF x, r, u
<1>5. j = Len(t) + 1
  <2>1. j > Len(t)
    BY <1>0 DEF Lined
  <2>2. ASSUME j > 1 PROVE j - 1 <= Len(t)
    <3>1. j - 1 \in 1 .. Len(p)
      BY <1>0, <1>1, <2>2
    <3>2. ~(p[j - 1].id > out)
      BY <1>0, <1>3, <2>2, <3>1
    <3>3. ~(j - 1 > Len(t))
      BY <3>1, <3>2 DEF Lined
    <3> QED BY <1>0, <1>1, <3>3
  <2> QED BY <1>0, <1>1, <2>1, <2>2
<1>6. x = p[j]
  BY <1>0, <1>1
<1>7. Lined(p, u, r, x.id)
  <2>1. Len(u) + Len(r) <= Len(p)
    BY <1>0, <1>1, <1>2, <1>5
  <2>2. ASSUME NEW i \in 1 .. Len(u) PROVE u[i] = p[i]
    <3>1. i \in 1 .. Len(t) \/ i = j
      BY <1>1, <1>2, <1>5
    <3> QED BY <1>2, <1>5, <1>6, <3>1 DEF Lined
  <2>3. ASSUME NEW i \in 1 .. Len(r) PROVE r[i] = p[Len(u) + i]
    <3>1. /\ i \in 1 .. Len(s) - 1 /\ i + 1 \in 1 .. Len(s)
          /\ j + (i + 1) - 1 = Len(u) + i
      BY <1>1, <1>2, <1>5
    <3>2. r[i] = s[i + 1] /\ s[i + 1] = p[j + (i + 1) - 1]
      BY <1>0, <1>1, <3>1
    <3> QED BY <3>1, <3>2
  <2>4. \A i \in 1 .. Len(p) : p[i].id > x.id <=> i > Len(u)
    <3> TAKE i \in 1 .. Len(p)
    <3>1. p[i].id = p[1].id + i - 1 /\ x.id = p[1].id + j - 1
      BY <1>0, <1>3, <1>6
    <3> QED BY <1>2, <1>4, <1>5, <3>1
  <2> QED BY <2>1, <2>2, <2>3, <2>4 DEF Lined
<1>8. /\ Len(Messages(t)) = Len(t) /\ Len(Messages(p)) = Len(p)
      /\ Messages(p)[j] = x.msg
  BY <1>0, <1>6, MessagesOf
<1>9. Messages(u) = Append(Messages(t), x.msg)
  BY <1>1, MessagesAppend DEF u
<1>10. Len(Messages(t)) < Len(Messages(p))
  BY <1>0, <1>1, <1>5, <1>8
<1> QED BY <1>5, <1>7, <1>8, <1>9, <1>10 DEF x, r, u

(* permFIFO_read, wherever it finds the next item.                         *)
LEMMA ReadQueue ==
  ASSUME IInv, HistoryInv, QueueInv, mode = "up", ReadUnchanged,
         NEW p, p = Pend(file, table_disk),
         NEW s \in Seq(Item), NEW j, ComesNext(p, lastIdOut, s, j),
         HandOut(Head(s)), table_client' = Tail(s)
  PROVE  QueueInv' /\ QueueStep
<1>1. p \in Seq(Item) /\ Consecutive(p)
  BY JoinedUp, PendRight DEF QueueInv
<1>2. /\ taken \in Seq(Item) /\ lastIdOut \in Nat
      /\ Lined(p, taken, table_client, lastIdOut)
  BY Numbered DEF QueueInv
<1>3. /\ Lined(p, taken', table_client', lastIdOut')
      /\ Len(Messages(taken)) < Len(Messages(p))
      /\ Messages(taken') = Append(Messages(taken), Messages(p)[Len(Messages(taken)) + 1])
  <2> DEFINE x == Head(s)
             r == Tail(s)
             u == Append(taken, x)
  <2>1. taken' = u /\ lastIdOut' = x.id /\ table_client' = r
    BY DEF HandOut
  <2>2. /\ Lined(p, u, r, x.id)
        /\ Len(Messages(taken)) < Len(Messages(p))
        /\ Messages(u) = Append(Messages(taken), Messages(p)[Len(Messages(taken)) + 1])
    BY <1>1, <1>2, LinedTaken
  <2> HIDE DEF x, r, u
  <2> QED BY <2>1, <2>2
<1>4. UNCHANGED <<mode, file, fileOld, fileNew, table_disk, written>>
  BY DEF ReadUnchanged, fileVars, historyVars
<1>5. QueueInv'
  BY <1>3, <1>4 DEF QueueInv
<1>6. file.kind = "fifo"
  BY DEF HistoryInv, HistoryStart
<1>7. /\ Pending = Messages(p) /\ Pending' = Pending
      /\ Len(DurableItems)' = Len(DurableItems)
  BY <1>4, <1>6, MappedOpen
<1>8. Messages(taken)' = Messages(taken')
  BY DEF Messages
<1>9. Queue!Take
  BY <1>3, <1>4, <1>7, <1>8 DEF Queue!Take
<1> QED BY <1>5, <1>9 DEF QueueStep, Queue!Next

(* ... from its table, ...                                                 *)
LEMMA ReadClientTableQueue ==
  ASSUME IInv, HistoryInv, QueueInv, ReadClientTable
  PROVE  QueueInv' /\ QueueStep
<1>1. /\ mode = "up" /\ ReadUnchanged /\ table_client # <<>>
      /\ HandOut(Head(table_client)) /\ table_client' = Tail(table_client)
  BY DEF ReadClientTable, CanRead
<1> DEFINE p == Pend(file, table_disk)
           j == Len(taken) + 1
<1>2. p \in Seq(Item) /\ Len(p) \in Nat
  BY <1>1, JoinedUp, PendRight DEF QueueInv
<1>3. /\ Lined(p, taken, table_client, lastIdOut) /\ table_client \in Seq(Item)
      /\ Len(taken) \in Nat /\ Len(table_client) \in Nat \ {0} /\ lastIdOut \in Nat
  BY <1>1, Numbered DEF QueueInv
<1> HIDE DEF p
<1>4. /\ j \in 1 .. Len(p) /\ j + Len(table_client) - 1 <= Len(p)
      /\ \A i \in 1 .. Len(table_client) : Len(taken) + i = j + i - 1
  BY <1>2, <1>3 DEF Lined
<1>5. \A i \in 1 .. Len(table_client) : table_client[i] = p[j + i - 1]
  BY <1>3, <1>4 DEF Lined
<1>6. p[j].id > lastIdOut
  BY <1>3, <1>4 DEF Lined
<1>7. ASSUME j > 1 PROVE p[j - 1].id <= lastIdOut
  <2>1. j - 1 \in 1 .. Len(p) /\ ~(j - 1 > Len(taken))
    BY <1>2, <1>3, <1>4, <1>7
  <2>2. ~(p[j - 1].id > lastIdOut) /\ p[j - 1].id \in Nat
    BY <1>2, <1>3, <2>1, ItemNumbers DEF Lined
  <2> QED BY <1>3, <2>2
<1>8. ComesNext(p, lastIdOut, table_client, j)
  BY <1>1, <1>4, <1>5, <1>6, <1>7 DEF ComesNext
<1> HIDE DEF j
<1> QED BY <1>1, <1>3, <1>8, ReadQueue DEF p

(* ... from table_disk, where nothing is missing before it, ...            *)
LEMMA ReadDiskTableQueue ==
  ASSUME IInv, HistoryInv, QueueInv, ReadDiskTable
  PROVE  QueueInv' /\ QueueStep
<1> DEFINE s == After(table_disk, lastIdOut)
           p == Pend(file, table_disk)
           h == After(file.recs, file.lastAckId)
<1>1. /\ mode = "up" /\ ReadUnchanged /\ s # <<>> /\ Head(s).id = lastIdOut + 1
      /\ HandOut(Head(s)) /\ table_client' = Tail(s)
  BY DEF ReadDiskTable, CanRead, InDiskTable
<1>2. /\ p \in Seq(Item) /\ Consecutive(p) /\ h \in Seq(Item)
      /\ Len(p) = Len(h) + Len(table_disk)
      /\ \A i \in 1 .. Len(table_disk) : p[Len(h) + i] = table_disk[i]
  BY <1>1, JoinedUp, PendRight DEF QueueInv
<1>3. table_disk \in Seq(Item) /\ lastIdOut \in Nat
  BY Numbered
<1>4. PICK k \in 1 .. Len(table_disk) : Part(s, table_disk, k, Len(table_disk))
  BY <1>1, <1>3, AfterIsPart
<1> HIDE DEF s, p, h
<1> DEFINE j == Len(h) + k
<1>5. /\ s \in Seq(Item) /\ Len(s) = Len(table_disk) - k + 1
      /\ \A i \in 1 .. Len(s) : s[i] = table_disk[k + i - 1]
      /\ Len(h) \in Nat /\ Len(table_disk) \in Nat /\ Len(p) \in Nat /\ Len(s) \in Nat \ {0}
  BY <1>1, <1>2, <1>3, <1>4 DEF Part
<1>6. j \in 1 .. Len(p) /\ j + Len(s) - 1 <= Len(p) /\ j \in Nat
  BY <1>2, <1>5
<1>7. \A i \in 1 .. Len(s) : s[i] = p[j + i - 1]
  <2> TAKE i \in 1 .. Len(s)
  <2>1. k + i - 1 \in 1 .. Len(table_disk) /\ Len(h) + (k + i - 1) = j + i - 1
    BY <1>5
  <2>2. s[i] = table_disk[k + i - 1]
    BY <1>5
  <2> QED BY <1>2, <2>1, <2>2
<1>8. p[j].id = lastIdOut + 1
  <2>1. s[1] = p[j] /\ Head(s) = s[1]
    BY <1>2, <1>4, <1>5
  <2> QED BY <1>1, <2>1
<1>9. ASSUME j > 1 PROVE p[j - 1].id <= lastIdOut
  <2>1. j - 1 \in 1 .. Len(p) /\ 1 \in 1 .. Len(p)
    BY <1>6, <1>9
  <2>2. /\ p[j].id = p[1].id + j - 1 /\ p[j - 1].id = p[1].id + (j - 1) - 1
        /\ p[1].id \in Nat
    BY <1>2, <1>6, <2>1, ItemNumbers DEF Consecutive
  <2> QED BY <1>3, <1>6, <1>8, <2>2
<1>10. p[j].id > lastIdOut
  BY <1>3, <1>8
<1> HIDE DEF j
<1>11. ComesNext(p, lastIdOut, s, j)
  BY <1>1, <1>6, <1>7, <1>9, <1>10 DEF ComesNext
<1> QED BY <1>1, <1>5, <1>11, ReadQueue DEF p

(* ... or from the file, where what was read up to lastOutOffset does not  *)
(* come back.                                                              *)
LEMMA ReadFileQueue ==
  ASSUME IInv, HistoryInv, QueueInv, ReadFile
  PROVE  QueueInv' /\ QueueStep
<1>0. PICK L \in Legible(file.recs) :
        LET items == Loaded(file.recs, L, lastOutOffset, lastIdOut)
        IN  \/ items # <<>> /\ HandOut(Head(items)) /\ table_client' = Tail(items)
            \/ items = <<>> /\ UNCHANGED <<lastIdOut, taken, table_client>>
  BY Zenon DEF ReadFile
<1> DEFINE recs == file.recs
           s == Loaded(recs, L, lastOutOffset, lastIdOut)
           p == Pend(file, table_disk)
           h == After(recs, file.lastAckId)
<1>1. /\ mode = "up" /\ ReadUnchanged /\ table_client = <<>>
      /\ \/ s # <<>> /\ HandOut(Head(s)) /\ table_client' = Tail(s)
         \/ s = <<>> /\ UNCHANGED <<lastIdOut, taken, table_client>>
  BY <1>0 DEF ReadFile, CanRead
<1>2. /\ p \in Seq(Item) /\ Consecutive(p) /\ h \in Seq(Item)
      /\ Len(p) = Len(h) + Len(table_disk)
      /\ \A i \in 1 .. Len(h) : p[i] = h[i]
  BY <1>1, JoinedUp, PendRight DEF QueueInv
<1>3. /\ recs \in Seq(Item) /\ Consecutive(recs) /\ lastIdOut \in Nat
      /\ file.lastAckId \in Nat /\ lastOutOffset \in 0 .. Len(recs)
      /\ file.lastAckId <= lastIdOut /\ recs = Sound(recs)
  BY <1>1, Numbered, WholeNumbered DEF QueueInv, HistoryInv, HistoryTables, TablesRight, Above
<1>4. \A i \in 1 .. lastOutOffset : recs[i].id <= lastIdOut
  <2>1. \A i \in 1 .. lastOutOffset : recs[i].id <= lastIdOut + Len(table_client)
    BY <1>1, WholeNumbered DEF QueueInv
  <2>2. lastIdOut + Len(table_client) = lastIdOut
    BY <1>1, <1>3
  <2> QED BY <2>1, <2>2
<1>5. CASE s = <<>>
  <2>1. UNCHANGED <<mode, file, fileOld, fileNew, table_disk, written, lastIdOut, taken,
                    table_client>>
    BY <1>1, <1>5 DEF ReadUnchanged, fileVars, historyVars
  <2>2. QueueInv'
    BY <1>1, <2>1 DEF QueueInv
  <2>3. UNCHANGED <<Pending, Messages(taken), Len(DurableItems), written>>
    BY <2>1 DEF Pending, DurableItems, Recoverable
  <2> QED BY <2>2, <2>3 DEF QueueStep
<1>6. CASE s # <<>>
  <2>1. PICK k \in lastOutOffset + 1 .. Len(recs), n \in 1 .. Len(recs) :
          /\ Part(s, recs, k, n) /\ recs[k].id > lastIdOut
          /\ \A i \in lastOutOffset + 1 .. k - 1 : recs[i].id <= lastIdOut
    BY <1>3, <1>6, LoadedIsPart
  <2>2. k \in 1 .. Len(recs) /\ Len(recs) \in Nat
    BY <1>3
  <2>3. recs[k].id > file.lastAckId
    BY <1>3, <2>1, <2>2, ItemNumbers
  <2>4. PICK m \in 1 .. Len(recs) :
          /\ Part(h, recs, m, Len(recs))
          /\ \A i \in 1 .. m - 1 : recs[i].id <= file.lastAckId
    <3>1. recs[k].id \in Nat
      BY <1>3, <2>2, ItemNumbers
    <3>2. ~(recs[k].id <= file.lastAckId)
      BY <1>3, <2>3, <3>1
    <3> QED BY <1>3, <2>2, <3>2, AfterIsPart
  <2>5. k >= m
    <3>1. ASSUME ~(k >= m) PROVE FALSE
      <4>1. k \in 1 .. m - 1
        BY <2>2, <3>1
      <4>2. recs[k].id <= file.lastAckId /\ recs[k].id \in Nat
        BY <1>3, <2>2, <2>4, <4>1, ItemNumbers
      <4> QED BY <1>3, <2>3, <4>2
    <3> QED BY <3>1
  <2> HIDE DEF recs, s, p, h
  <2> DEFINE j == k - m + 1
  <2>6. /\ s \in Seq(Item) /\ Len(s) = n - k + 1 /\ n \in k .. Len(recs)
        /\ \A i \in 1 .. Len(s) : s[i] = recs[k + i - 1]
        /\ Len(s) \in Nat \ {0}
    BY <2>1, <2>2 DEF Part
  <2>7. /\ Len(h) = Len(recs) - m + 1 /\ Len(h) \in Nat
        /\ \A i \in 1 .. Len(h) : h[i] = recs[m + i - 1]
    BY <1>2, <2>2, <2>4 DEF Part
  <2>8. Len(table_disk) \in Nat /\ Len(p) \in Nat
    BY <1>2, Numbered
  <2>9. \A i \in 1 .. Len(h) : p[i] = recs[m + i - 1]
    BY <1>2, <2>7
  <2>10. /\ j \in 1 .. Len(h) /\ j + Len(s) - 1 <= Len(h) /\ j \in Nat
         /\ j \in 1 .. Len(p) /\ j + Len(s) - 1 <= Len(p)
    BY <1>2, <2>2, <2>5, <2>6, <2>7, <2>8
  <2>11. \A i \in 1 .. Len(s) : s[i] = p[j + i - 1]
    <3> TAKE i \in 1 .. Len(s)
    <3>1. j + i - 1 \in 1 .. Len(h) /\ m + (j + i - 1) - 1 = k + i - 1
      BY <2>2, <2>6, <2>7, <2>10
    <3>2. p[j + i - 1] = recs[m + (j + i - 1) - 1]
      BY <2>9, <3>1
    <3> QED BY <2>6, <3>1, <3>2
  <2>12. p[j] = recs[k]
    <3>1. m + j - 1 = k
      BY <2>2
    <3> QED BY <2>9, <2>10, <3>1
  <2>13. ASSUME j > 1 PROVE p[j - 1].id <= lastIdOut
    <3>1. j - 1 \in 1 .. Len(h) /\ m + (j - 1) - 1 = k - 1
      BY <2>2, <2>7, <2>10, <2>13
    <3>2. p[j - 1] = recs[k - 1]
      BY <2>9, <3>1
    <3>3. k - 1 \in lastOutOffset + 1 .. k - 1 \/ k - 1 \in 1 .. lastOutOffset
      BY <1>3, <2>2, <2>13
    <3> QED BY <1>4, <2>1, <3>2, <3>3 DEF recs
  <2> HIDE DEF j
  <2>14. ComesNext(p, lastIdOut, s, j)
    BY <1>6, <2>1, <2>10, <2>11, <2>12, <2>13 DEF ComesNext
  <2> QED BY <1>1, <1>6, <2>6, <2>14, ReadQueue DEF p
<1> QED BY <1>5, <1>6

-----------------------------------------------------------------------------
(* Without its head, a list of consecutive numbers keeps those above it.   *)
LEMMA TailItems ==
  ASSUME NEW s \in Seq(Item), s # <<>>, Consecutive(s)
  PROVE  /\ Tail(s) \in Seq(Item) /\ Consecutive(Tail(s))
         /\ In(Tail(s)) = {y \in In(s) : y.id > s[1].id}
<1> DEFINE r == Tail(s)
<1>1. /\ r \in Seq(Item) /\ Len(r) = Len(s) - 1 /\ Len(s) \in Nat \ {0}
      /\ \A i \in 1 .. Len(s) - 1 : r[i] = s[i + 1]
  OBVIOUS
<1> HIDE DEF r
<1>2. \A i \in 1 .. Len(s) : s[i].id = s[1].id + i - 1
  BY DEF Consecutive
<1>3. s[1].id \in Nat
  <2>1. 1 \in 1 .. Len(s)
    BY <1>1
  <2> QED BY <2>1, ItemNumbers
<1>4. \A i \in 1 .. Len(r) : i + 1 \in 1 .. Len(s) /\ r[i] = s[i + 1]
  BY <1>1
<1>5. Consecutive(r)
  <2> SUFFICES ASSUME NEW i \in 1 .. Len(r) PROVE r[i].id = r[1].id + i - 1
    BY DEF Consecutive
  <2>1. 1 \in 1 .. Len(r)
    BY <1>1
  <2>2. r[i].id = s[1].id + (i + 1) - 1 /\ r[1].id = s[1].id + (1 + 1) - 1
    BY <1>2, <1>4, <2>1
  <2> QED BY <1>1, <1>3, <2>2
<1>6. In(r) \subseteq {y \in In(s) : y.id > s[1].id}
  <2> SUFFICES ASSUME NEW i \in 1 .. Len(r) PROVE r[i] \in In(s) /\ r[i].id > s[1].id
    BY DEF In
  <2>1. r[i] \in In(s)
    BY <1>4 DEF In
  <2>2. r[i].id = s[1].id + (i + 1) - 1
    BY <1>2, <1>4
  <2> QED BY <1>1, <1>3, <2>1, <2>2
<1>7. {y \in In(s) : y.id > s[1].id} \subseteq In(r)
  <2> SUFFICES ASSUME NEW i \in 1 .. Len(s), s[i].id > s[1].id PROVE s[i] \in In(r)
    BY DEF In
  <2>1. i # 1
    BY <1>3
  <2>2. i - 1 \in 1 .. Len(r) /\ (i - 1) + 1 = i
    BY <1>1, <2>1
  <2>3. r[i - 1] = s[i]
    BY <1>4, <2>2
  <2> QED BY <2>2, <2>3 DEF In
<1> QED BY <1>1, <1>5, <1>6, <1>7 DEF r

(* The oldest item taken is the oldest one left.                           *)
LEMMA LinedTail ==
  ASSUME NEW p \in Seq(Item), NEW t \in Seq(Item), NEW c \in Seq(Item), NEW out,
         Lined(p, t, c, out), t # <<>>
  PROVE  p # <<>> /\ p[1] = Head(t) /\ Lined(Tail(p), Tail(t), c, out)
<1> DEFINE q == Tail(p)
           r == Tail(t)
<1>1. /\ Len(t) \in Nat \ {0} /\ Len(r) = Len(t) - 1 /\ Head(t) = t[1]
      /\ \A i \in 1 .. Len(t) - 1 : r[i] = t[i + 1]
      /\ Len(p) \in Nat /\ Len(c) \in Nat
  OBVIOUS
<1>2. Len(t) + Len(c) <= Len(p)
  BY DEF Lined
<1>3. p # <<>>
  BY <1>1, <1>2
<1>4. Len(q) = Len(p) - 1 /\ \A i \in 1 .. Len(p) - 1 : q[i] = p[i + 1]
  BY <1>3
<1> HIDE DEF q, r
<1>5. p[1] = Head(t)
  <2>1. 1 \in 1 .. Len(t)
    BY <1>1
  <2> QED BY <1>1, <2>1 DEF Lined
<1>6. ASSUME NEW i \in 1 .. Len(r) PROVE r[i] = q[i]
  <2>1. i \in 1 .. Len(t) - 1 /\ i \in 1 .. Len(p) - 1 /\ i + 1 \in 1 .. Len(t)
    BY <1>1, <1>2
  <2> QED BY <1>1, <1>4, <2>1 DEF Lined
<1>7. ASSUME NEW i \in 1 .. Len(c) PROVE c[i] = q[Len(r) + i]
  <2>1. Len(r) + i \in 1 .. Len(p) - 1 /\ (Len(r) + i) + 1 = Len(t) + i
    BY <1>1, <1>2
  <2> QED BY <1>4, <2>1 DEF Lined
<1>8. ASSUME NEW i \in 1 .. Len(q) PROVE q[i].id > out <=> i > Len(r)
  <2>1. i \in 1 .. Len(p) - 1 /\ i + 1 \in 1 .. Len(p) /\ (i + 1 > Len(t) <=> i > Len(r))
    BY <1>1, <1>4
  <2>2. q[i] = p[i + 1]
    BY <1>4, <2>1
  <2>3. p[i + 1].id > out <=> i + 1 > Len(t)
    BY <2>1 DEF Lined
  <2> QED BY <2>1, <2>2, <2>3
<1>9. Len(r) + Len(c) <= Len(q)
  BY <1>1, <1>2, <1>4
<1> QED BY <1>3, <1>5, <1>6, <1>7, <1>8, <1>9 DEF Lined, q, r

(* permFIFO_ack: the file keeps exactly what is above the number.          *)
LEMMA AckedFile ==
  ASSUME IInv, HistoryInv, Whole(file.recs), Ack, NEW x, x = Head(taken),
         NEW h, h = After(file.recs, file.lastAckId),
         NEW l, l = After(file'.recs, file'.lastAckId), l \in Seq(Item),
         In(l) = {y \in In(file'.recs) : y.id > file'.lastAckId}
  PROVE  /\ x \in Item /\ In(l) = {y \in In(h) : y.id > x.id}
         /\ In(file'.recs) \subseteq In(file.recs) /\ file'.kind = "fifo"
         /\ file'.lastAckId = x.id \/ file'.lastAckId = file.lastAckId
<1> DEFINE drop == lastIdOnDisk <= x.id
<1>1. /\ mode = "up" /\ taken # <<>>
      /\ IF ackOnDisk
         THEN file' = FileOf(x.id, lastIdOnDisk, IF drop THEN <<>> ELSE file.recs)
         ELSE file' = file
  BY DEF Ack
<1>2. /\ x \in In(taken) /\ x \in Item /\ x.id \in Nat
      /\ file.lastAckId < x.id /\ file.kind = "fifo" /\ file.lastAckId \in Nat
  <2>1. x \in In(taken)
    BY <1>1, Numbered, InTail
  <2>2. x \in Item /\ x.id \in Nat
    BY <2>1, Numbered, InItems
  <2> QED BY <1>1, <2>1, <2>2, Numbered
          DEF HistoryInv, HistoryTables, HistoryStart, TablesRight, Above
<1>3. In(h) = {y \in In(file.recs) : y.id > file.lastAckId}
  BY Numbered, WholeNumbered, InAfter
<1>4. \A y \in In(file.recs) : y.id \in Nat
  BY Numbered, InItems
<1>5. \A q : LET f == FileOf(x.id, lastIdOnDisk, q)
             IN  f.kind = "fifo" /\ f.lastAckId = x.id /\ f.recs = q
  BY DEF FileOf
<1>6. CASE ackOnDisk /\ ~drop
  <2>1. file'.recs = file.recs /\ file'.lastAckId = x.id /\ file'.kind = "fifo"
    BY <1>1, <1>5, <1>6
  <2> QED BY <1>2, <1>3, <1>4, <2>1
<1>7. CASE ackOnDisk /\ drop
  <2>1. file'.recs = <<>> /\ file'.lastAckId = x.id /\ file'.kind = "fifo"
    BY <1>1, <1>5, <1>7
  <2>2. ASSUME NEW y \in In(file.recs) PROVE ~(y.id > x.id)
    <3>1. PICK i \in 1 .. Len(file.recs) : y = file.recs[i]
      BY DEF In
    <3>2. /\ file.recs # <<>> /\ file.recs \in Seq(Item) /\ Consecutive(file.recs)
          /\ Last(file.recs).id = lastIdOnDisk
      BY <1>1, <3>1, WholeNumbered
    <3>3. /\ file.recs[i].id = file.recs[1].id + i - 1
          /\ file.recs[Len(file.recs)].id = file.recs[1].id + Len(file.recs) - 1
          /\ file.recs[1].id \in Nat /\ Len(file.recs) \in Nat
      BY <3>1, <3>2, LastNumber DEF Consecutive
    <3>4. y.id <= lastIdOnDisk /\ lastIdOnDisk \in Nat /\ y.id \in Nat
      BY <3>1, <3>2, <3>3, SMTT(30) DEF Last
    <3>5. lastIdOnDisk <= x.id
      BY <1>7
    <3> QED BY <1>2, <3>4, <3>5
  <2> QED BY <1>2, <1>3, <2>1, <2>2, InEmpty
<1>8. CASE ~ackOnDisk
  <2>1. file' = file /\ file.recs = <<>>
    BY <1>1, <1>8, Numbered
  <2> QED BY <1>2, <1>3, <2>1, InEmpty
<1> QED BY <1>6, <1>7, <1>8

(* permFIFO_ack.                                                           *)
LEMMA AckQueue ==
  ASSUME IInv, IInv', HistoryInv, QueueInv, Ack
  PROVE  QueueInv' /\ QueueStep
<1> DEFINE x == Head(taken)
           p == Pend(file, table_disk)
           q == Pend(file', table_disk')
           h == After(file.recs, file.lastAckId)
           l == After(file'.recs, file'.lastAckId)
<1>1. /\ mode = "up" /\ mode' = "up" /\ taken # <<>> /\ taken' = Tail(taken)
      /\ table_disk' = After(table_disk, x.id)
      /\ UNCHANGED <<fileOld, fileNew, table_client, lastIdOut, written>>
  BY DEF Ack
<1>2. /\ p \in Seq(Item) /\ Consecutive(p) /\ In(p) = In(h) \union In(table_disk)
      /\ Len(p) = Len(h) + Len(table_disk) /\ h \in Seq(Item) /\ Consecutive(h)
      /\ \A i \in 1 .. Len(h) : p[i] = h[i]
  BY <1>1, JoinedUp, PendRight DEF QueueInv
<1>0. Whole(file'.recs)
  <2>1. file'.recs = file.recs \/ file'.recs = <<>>
    BY DEF Ack, FileOf
  <2> QED BY <2>1, InEmpty DEF QueueInv, Whole
<1>3. /\ q \in Seq(Item) /\ Consecutive(q) /\ In(q) = In(l) \union In(table_disk')
      /\ l \in Seq(Item) /\ Consecutive(l)
      /\ In(l) = {y \in In(file'.recs) : y.id > file'.lastAckId}
  BY <1>0, <1>1, JoinedUpNext, PendRight
<1>4. /\ x \in Item /\ In(l) = {y \in In(h) : y.id > x.id}
      /\ In(file'.recs) \subseteq In(file.recs) /\ file'.kind = "fifo"
      /\ file'.lastAckId = x.id \/ file'.lastAckId = file.lastAckId
  <2>1. l \in Seq(Item) /\ In(l) = {y \in In(file'.recs) : y.id > file'.lastAckId}
    BY <1>3
  <2> HIDE DEF x, h, l
  <2>2. x = Head(taken) /\ h = After(file.recs, file.lastAckId)
        /\ l = After(file'.recs, file'.lastAckId)
    BY DEF x, h, l
  <2>3. Whole(file.recs)
    BY DEF QueueInv
  <2> QED BY <2>1, <2>2, <2>3, AckedFile
<1>5. In(table_disk') = {y \in In(table_disk) : y.id > x.id}
  <2>1. x.id \in Nat
    BY <1>4 DEF Item
  <2> QED BY <1>1, <2>1, Numbered, InAfter
<1>6. /\ Lined(p, taken, table_client, lastIdOut)
      /\ taken \in Seq(Item) /\ table_client \in Seq(Item)
      /\ \A y \in In(table_disk) : y.id > file.lastAckId
  BY <1>1, Numbered DEF QueueInv
<1> HIDE DEF p, q, h, l
<1>7. p # <<>> /\ p[1] = x /\ Lined(Tail(p), Tail(taken), table_client, lastIdOut)
  BY <1>1, <1>2, <1>6, LinedTail
<1> HIDE DEF x
<1>8. /\ Tail(p) \in Seq(Item) /\ Consecutive(Tail(p))
      /\ In(Tail(p)) = {y \in In(p) : y.id > x.id}
  BY <1>2, <1>7, TailItems
<1>9. In(q) = In(Tail(p))
  BY <1>2, <1>3, <1>4, <1>5, <1>8
<1>10. q = Tail(p)
  BY <1>3, <1>8, <1>9, SameItems
<1>11. Len(l) = IF Len(h) = 0 THEN 0 ELSE Len(h) - 1
  <2>1. CASE h = <<>>
    <3>1. In(l) = In(<<>>) /\ Consecutive(<<>>)
      BY <1>4, <2>1, InEmpty, SpecialFiles
    <3>2. l = <<>>
      BY <1>3, <3>1, InEmpty, SameItems
    <3> QED BY <2>1, <3>2
  <2>2. CASE h # <<>>
    <3>1. 1 \in 1 .. Len(h) /\ Len(h) # 0
      BY <1>2, <2>2
    <3>2. h[1] = x
      BY <1>2, <1>7, <3>1
    <3>3. /\ Tail(h) \in Seq(Item) /\ Consecutive(Tail(h))
          /\ In(Tail(h)) = {y \in In(h) : y.id > x.id}
      BY <1>2, <2>2, <3>2, TailItems
    <3>4. l = Tail(h)
      BY <1>3, <1>4, <3>3, SameItems
    <3>5. Len(Tail(h)) = Len(h) - 1
      BY <1>2, <2>2
    <3> QED BY <3>1, <3>4, <3>5
  <2> QED BY <2>1, <2>2
<1>12. QueueInv'
  <2>1. Lined(q, taken', table_client', lastIdOut')
    BY <1>1, <1>7, <1>10
  <2>2. \A y \in In(table_disk') : y.id > file'.lastAckId
    BY <1>4, <1>5, <1>6
  <2>3. Whole(file'.recs) /\ Whole(table_disk')
    BY <1>4, <1>5 DEF QueueInv, Whole
  <2> QED BY <1>1, <2>1, <2>2, <2>3 DEF QueueInv, q
<1>13. file.kind = "fifo"
  BY <1>1 DEF HistoryInv, HistoryStart
<1>14. /\ Pending = Messages(p) /\ Pending' = Messages(q)
       /\ Len(DurableItems) = Len(h) /\ Len(DurableItems)' = Len(l)
  BY <1>4, <1>13, MappedOpen DEF p, q, h, l
<1>15. Pending' = Tail(Pending)
  BY <1>2, <1>7, <1>10, <1>14, MessagesTail
<1>16. Messages(taken) # <<>> /\ Messages(taken)' = Tail(Messages(taken))
  <2>1. Messages(taken)' = Messages(Tail(taken))
    BY <1>1 DEF Messages
  <2> QED BY <1>1, <1>6, <2>1, MessagesTail
<1>17. Queue!Ack
  BY <1>1, <1>11, <1>14, <1>15, <1>16 DEF Queue!Ack
<1> QED BY <1>12, <1>17 DEF QueueStep, Queue!Next

(* permFIFO_flush.                                                         *)
LEMMA FlushQueue ==
  ASSUME IInv, IInv', HistoryInv, QueueInv, Flush
  PROVE  QueueInv' /\ QueueStep
<1> DEFINE p == Pend(file, table_disk)
           q == Pend(file', table_disk')
           h == After(file.recs, file.lastAckId)
           l == After(file'.recs, file'.lastAckId)
<1>1. /\ mode = "up" /\ mode' = "up" /\ SaveTableDisk /\ table_disk' = <<>>
      /\ UNCHANGED <<fileOld, fileNew, table_client, lastIdOut, taken, written>>
  BY DEF Flush, historyVars
<1>2. /\ p \in Seq(Item) /\ Len(p) = Len(h) + Len(table_disk) /\ h \in Seq(Item)
  BY <1>1, JoinedUp, PendRight DEF QueueInv
<1>0. Whole(file'.recs)
  BY <1>1, SaveStored
<1>3. l \in Seq(Item) /\ q = l \o table_disk'
  BY <1>0, <1>1, JoinedUpNext, PendRight
<1>4. l = p /\ file'.kind = file.kind /\ file'.lastAckId = file.lastAckId /\ Whole(file'.recs)
  BY <1>1, SaveStored
<1> HIDE DEF p, q, h, l
<1>5. q = p
  BY <1>1, <1>3, <1>4
<1>6. Lined(p, taken, table_client, lastIdOut)
  BY <1>1 DEF QueueInv, p
<1>7. QueueInv'
  BY <1>1, <1>4, <1>5, <1>6, InEmpty DEF QueueInv, Whole, q
<1>8. file.kind = "fifo"
  BY <1>1 DEF HistoryInv, HistoryStart
<1>9. /\ Pending = Messages(p) /\ Pending' = Messages(q)
      /\ Len(DurableItems) = Len(h) /\ Len(DurableItems)' = Len(l)
  BY <1>4, <1>8, MappedOpen DEF p, q, h, l
<1>10. Len(Pending) = Len(p) /\ Len(h) \in Nat /\ Len(table_disk) \in Nat
  BY <1>2, <1>9, Numbered, MessagesOf
<1>11. Len(DurableItems)' \in Len(DurableItems) .. Len(Pending)
  BY <1>2, <1>4, <1>9, <1>10
<1>12. Messages(taken)' = Messages(taken)
  BY <1>1 DEF Messages
<1>13. Queue!Save
  BY <1>1, <1>5, <1>9, <1>11, <1>12 DEF Queue!Save
<1> QED BY <1>7, <1>13 DEF QueueStep, Queue!Next

-----------------------------------------------------------------------------
(* The process stops with the beginning of table_disk in the file: all of  *)
(* it, nothing of it, or what ct_save had written.                         *)
LEMMA StopQueue ==
  ASSUME IInv, HistoryInv, QueueInv, mode = "up", mode' = "down", Memory(0),
         UNCHANGED <<fileOld, fileNew, written>>,
         NEW t \in Seq(Item), Len(t) <= Len(table_disk),
         \A i \in 1 .. Len(t) : t[i] = table_disk[i],
         file' \in File, file'.recs = file.recs \o t,
         file'.kind = file.kind, file'.lastAckId = file.lastAckId
  PROVE  QueueInv' /\ QueueStep
<1> DEFINE p == Pend(file, table_disk)
           q == Pend(file', table_disk')
           h == After(file.recs, file.lastAckId)
           l == After(file'.recs, file'.lastAckId)
<1>1. table_disk' = <<>> /\ taken' = <<>>
  BY DEF Memory
<1>2. /\ p \in Seq(Item) /\ Len(p) = Len(h) + Len(table_disk) /\ h \in Seq(Item)
      /\ \A i \in 1 .. Len(h) : p[i] = h[i]
      /\ \A i \in 1 .. Len(table_disk) : p[Len(h) + i] = table_disk[i]
  BY JoinedUp, PendRight DEF QueueInv
<1>3. table_disk \in Seq(Item) /\ Consecutive(table_disk) /\ file \in File
      /\ Len(t) \in Nat /\ Len(table_disk) \in Nat /\ Len(h) \in Nat
  BY <1>2, Numbered
<1>4. \A i \in 1 .. Len(t) : i \in 1 .. Len(table_disk)
  BY <1>3
<1>5. In(t) \subseteq In(table_disk)
  BY <1>4 DEF In
<1>6. Joined(file, t)
  <2>1. CASE t = <<>>
    BY <2>1, JoinedUp, SpecialFiles DEF Joined, QueueInv
  <2>2. CASE t # <<>>
    <3>1. 1 \in 1 .. Len(t) /\ table_disk # <<>>
      BY <1>3, <1>4, <2>2
    <3>2. \A i \in 1 .. Len(t) : t[i].id = t[1].id + i - 1
      BY <1>3, <1>4, <3>1 DEF Consecutive
    <3>3. Joined(file, table_disk)
      BY JoinedUp DEF QueueInv
    <3> QED BY <2>2, <3>1, <3>2, <3>3 DEF Joined, Consecutive
  <2> QED BY <2>1, <2>2
<1>7. \A x \in In(t) : x.id > file.lastAckId
  BY <1>5 DEF QueueInv
<1>8. l = Pend(file, t)
  BY <1>3, <1>6, <1>7, Stored
<1>9. /\ Pend(file, t) \in Seq(Item) /\ Len(Pend(file, t)) = Len(h) + Len(t)
      /\ \A i \in 1 .. Len(h) : Pend(file, t)[i] = h[i]
      /\ \A i \in 1 .. Len(t) : Pend(file, t)[Len(h) + i] = t[i]
  BY <1>6, PendRight
<1>10. q = l \o <<>>
  BY <1>1 DEF Pend
<1> HIDE DEF p, q, h, l
<1>11. l \in Seq(Item) /\ q = l /\ Len(l) = Len(h) + Len(t) /\ Len(l) <= Len(p)
       /\ Len(l) \in Len(h) .. Len(p)
  BY <1>2, <1>3, <1>8, <1>9, <1>10
<1>12. ASSUME NEW i \in 1 .. Len(l) PROVE l[i] = p[i]
  <2>1. CASE i \in 1 .. Len(h)
    BY <1>2, <1>8, <1>9, <2>1
  <2>2. CASE i \notin 1 .. Len(h)
    <3>1. i - Len(h) \in 1 .. Len(t) /\ Len(h) + (i - Len(h)) = i
      BY <1>3, <1>11, <2>2
    <3>2. l[i] = t[i - Len(h)] /\ p[i] = table_disk[i - Len(h)]
      BY <1>2, <1>4, <1>8, <1>9, <3>1
    <3> QED BY <3>1, <3>2
  <2> QED BY <2>1, <2>2
<1>13. Messages(l) = SubSeq(Messages(p), 1, Len(l)) /\ Len(Messages(p)) = Len(p)
  BY <1>2, <1>11, <1>12, MessagesPrefix, MessagesOf
<1>14. file.kind = "fifo"
  BY DEF HistoryInv, HistoryStart
<1>15. /\ Pending = Messages(p) /\ Pending' = Messages(q)
       /\ Len(DurableItems) = Len(h) /\ Len(DurableItems)' = Len(l)
  BY <1>14, MappedOpen DEF p, q, h, l
<1>16. Messages(taken)' = <<>>
  BY <1>1 DEF Messages
<1>17. Queue!Crash
  BY <1>11, <1>13, <1>15, <1>16 DEF Queue!Crash
<1>18. In(file'.recs) = In(file.recs) \union In(t)
  BY Numbered, InConcat
<1>19. QueueInv'
  BY <1>1, <1>5, <1>18, InEmpty DEF QueueInv, Whole
<1> QED BY <1>17, <1>19 DEF QueueStep, Queue!Next

(* permFIFO_destroy.                                                       *)
LEMMA DestroyQueue ==
  ASSUME IInv, HistoryInv, QueueInv, Destroy
  PROVE  QueueInv' /\ QueueStep
<1> DEFINE r == file.recs \o table_disk
<1>1. /\ mode = "up" /\ mode' = "down" /\ file' = [file EXCEPT !.recs = r]
      /\ Memory(0) /\ UNCHANGED <<fileOld, fileNew, written>>
  BY DEF Destroy
<1>2. r \in Seq(Item)
  BY Numbered, InConcat
<1> HIDE DEF r
<1>3. /\ file' \in File /\ file'.recs = r /\ file'.kind = file.kind
      /\ file'.lastAckId = file.lastAckId
  BY <1>1, <1>2, Numbered, RecordsOnly, FileFields
<1>4. table_disk \in Seq(Item) /\ Len(table_disk) <= Len(table_disk)
  <2>1. Len(table_disk) \in Nat
    BY Numbered
  <2> QED BY <2>1, Numbered
<1> QED BY <1>1, <1>3, <1>4, StopQueue DEF r

(* A kill, where the file is not left torn or half acknowledged.           *)
LEMMA KillQueue ==
  ASSUME IInv, HistoryInv, QueueInv, Kill, Kills \cap {"torn", "ack"} = {}
  PROVE  QueueInv' /\ QueueStep
<1>1. /\ mode' = "down" /\ Memory(0) /\ UNCHANGED <<fileOld, fileNew, written>>
  BY DEF Kill, KillIdle, KillClean, KillInSave, KillTorn, KillInAck, Killed
<1>2. /\ table_disk' = <<>> /\ taken' = <<>>
  BY <1>1 DEF Memory
<1>3. CASE KillIdle
  <2>1. mode = "up" /\ file' = file
    BY <1>3 DEF KillIdle
  <2> DEFINE t == <<>>
  <2>2. t \in Seq(Item) /\ file.recs = file.recs \o t
    BY Numbered
  <2>3. Len(t) <= Len(table_disk) /\ \A i \in 1 .. Len(t) : t[i] = table_disk[i]
    BY Numbered
  <2> HIDE DEF t
  <2> QED BY <1>1, <2>1, <2>2, <2>3, Numbered, StopQueue
<1>4. CASE KillClean
  <2>1. mode # "up" /\ file' = file
    BY <1>4 DEF KillClean
  <2>2. taken = <<>> /\ table_disk = <<>>
    BY <2>1 DEF HistoryInv, HistoryTables
  <2>3. UNCHANGED <<Pending, Messages(taken), Len(DurableItems), written>>
    BY <1>1, <1>2, <2>1, <2>2 DEF Pending, DurableItems, Recoverable
  <2>4. QueueInv'
    BY <1>1, <1>2, <2>1, <2>2 DEF QueueInv
  <2> QED BY <2>3, <2>4 DEF QueueStep
<1>5. CASE KillInSave
  <2>1. mode = "up"
    BY <1>5 DEF KillInSave
  <2>2. PICK k \in 1 .. Len(table_disk) :
          file' = [file EXCEPT !.recs = file.recs \o SubSeq(table_disk, 1, k)]
    BY <1>5 DEF KillInSave
  <2> DEFINE t == SubSeq(table_disk, 1, k)
             r == file.recs \o t
  <2>3. /\ t \in Seq(Item) /\ Len(t) = k /\ k <= Len(table_disk)
        /\ \A i \in 1 .. Len(t) : t[i] = table_disk[i]
    BY Numbered
  <2> HIDE DEF t
  <2>4. r \in Seq(Item)
    BY <2>3, Numbered, InConcat
  <2>5. file' = [file EXCEPT !.recs = r]
    BY <2>2 DEF t
  <2> HIDE DEF r
  <2>6. /\ file' \in File /\ file'.recs = r /\ file'.kind = file.kind
        /\ file'.lastAckId = file.lastAckId
    BY <2>4, <2>5, Numbered, RecordsOnly, FileFields
  <2> QED BY <1>1, <2>1, <2>3, <2>6, StopQueue DEF r
<1>6. ~KillTorn /\ ~KillInAck
  BY DEF KillTorn, KillInAck, Killed
<1> QED BY <1>3, <1>4, <1>5, <1>6 DEF Kill

-----------------------------------------------------------------------------
(* All the numbers are above 0.                                            *)
LEMMA AfterZero ==
  ASSUME NEW s \in Seq(Item), Consecutive(s)
  PROVE  After(s, 0) = s
<1>1. /\ After(s, 0) \in Seq(Item) /\ Consecutive(After(s, 0))
      /\ In(After(s, 0)) = {x \in In(s) : x.id > 0}
  BY InAfter
<1>2. \A x \in In(s) : x.id > 0
  BY InItems
<1> QED BY <1>1, <1>2, SameItems

(* The copy of the start-up holds the same messages.                       *)
LEMMA RenumberedMessages ==
  ASSUME NEW s \in Seq(Item)
  PROVE  /\ Messages(Renumbered(s)) = Messages(s)
         /\ Whole(s) => Whole(Renumbered(s))
<1> DEFINE r == Renumbered(s)
<1>1. r \in Seq(Item) /\ Len(r) = Len(s) /\ Len(s) \in Nat
  BY RenumberedInOrder
<1>2. \A i \in 1 .. Len(s) : r[i].msg = s[i].msg
  <2> TAKE i \in 1 .. Len(s)
  <2>1. s[i] \in Item /\ r[i] = [s[i] EXCEPT !.id = i]
    BY DEF Renumbered
  <2> QED BY <2>1 DEF Item
<1> HIDE DEF r
<1>3. Messages(r) = Messages(s)
  BY <1>1, <1>2, MessagesOf, SeqEqual
<1>4. Whole(s) => Whole(r)
  BY <1>1, <1>2 DEF Whole, In
<1> QED BY <1>3, <1>4 DEF r

(* Without its memory, the FIFO is what the next start will find.          *)
LEMMA MappedClosed ==
  ASSUME taken = <<>>, table_disk = <<>>, taken' = <<>>, table_disk' = <<>>,
         written' = written,
         NEW s \in Seq(Item), s = DurableItems, NEW t \in Seq(Item), t = DurableItems',
         Messages(t) = Messages(s)
  PROVE  QueueStep
<1>1. s \o <<>> = s /\ t \o <<>> = t
  OBVIOUS
<1>2. Pending = Messages(s) /\ Pending' = Messages(t)
  BY <1>1 DEF Pending
<1>3. Len(s) = Len(t)
  BY MessagesOf
<1>4. Messages(taken)' = Messages(taken)
  BY DEF Messages
<1> QED BY <1>2, <1>3, <1>4 DEF QueueStep

(* What is left in a file, ...                                             *)
LEMMA AfterIsItems ==
  ASSUME NEW s \in Seq(Item), NEW id \in Nat
  PROVE  After(s, id) \in Seq(Item)
<1>1. After(s, id) = <<>> \/ \E k \in 1 .. Len(s) : After(s, id) = SubSeq(s, k, Len(s))
  BY AfterIsSuffix
<1>2. \A k \in 1 .. Len(s) : SubSeq(s, k, Len(s)) \in Seq(Item)
  OBVIOUS
<1>3. <<>> \in Seq(Item)
  BY InEmpty
<1> QED BY <1>1, <1>2, <1>3

(* ... and in one without records.                                         *)
LEMMA NothingLeft ==
  ASSUME NEW id
  PROVE  After(<<>>, id) = <<>>
BY DEF After

(* The clean never loses, doubles or reorders a record that can be read.   *)
LEMMA StartQueue ==
  ASSUME IInv, IInv', HistoryInv, HistoryInv', QueueInv, Start
  PROVE  QueueInv' /\ QueueStep
<1> DEFINE Left(r) == After(r.recs, r.lastAckId)
<1>1. /\ mode # "up" /\ written' = written
      /\ taken = <<>> /\ table_disk = <<>> /\ taken' = <<>> /\ table_disk' = <<>>
  <2>1. mode # "up" /\ written' = written /\ (Open \/ CleanUnchanged)
    BY DEF Start, CleanRecoverOld, CleanCreate, CleanCreateHeader, CleanRemoveEmpty,
           CleanBackup, CleanScan, CleanCopy, CleanRenameOld, CleanRenameNew,
           CleanUnlinkOld, Open, CleanUnchanged, historyVars
  <2>2. taken = <<>> /\ table_disk = <<>>
    BY <2>1 DEF HistoryInv, HistoryTables
  <2>3. taken' = <<>> /\ table_disk' = <<>>
    BY <2>1, <2>2 DEF Open, Memory, CleanUnchanged, memVars
  <2> QED BY <2>1, <2>2, <2>3
<1>2. /\ Whole(file.recs) /\ Whole(fileOld.recs) /\ Whole(fileNew.recs)
      /\ Whole(table_disk')
  BY <1>1 DEF QueueInv
<1>3. /\ Whole(NoFile.recs) /\ Whole(EmptyFile.recs) /\ Whole(NewFile.recs)
      /\ Left(NoFile) = <<>> /\ Left(EmptyFile) = <<>> /\ Left(NewFile) = <<>>
  BY MadeFiles, InEmpty, NothingLeft DEF Whole
<1>4. Left(Recoverable) \in Seq(Item) /\ Left(Recoverable') \in Seq(Item)
  <2>1. ASSUME NEW f \in File PROVE Left(f) \in Seq(Item)
    <3>1. f.recs \in Seq(Item) /\ f.lastAckId \in Nat
      BY FileFields
    <3> QED BY <3>1, AfterIsItems
  <2>2. Left(file) \in Seq(Item) /\ Left(fileOld) \in Seq(Item)
    BY <2>1, Numbered
  <2>3. Left(file') \in Seq(Item) /\ Left(fileOld') \in Seq(Item)
    BY <2>1 DEF IInv, TypeOK
  <2> QED BY <2>2, <2>3 DEF Recoverable
<1>5. ASSUME Messages(Left(Recoverable')) = Messages(Left(Recoverable)) PROVE QueueStep
  <2>1. Left(Recoverable) = DurableItems /\ Left(Recoverable') = DurableItems'
    BY DEF DurableItems
  <2> QED BY <1>1, <1>4, <1>5, <2>1, MappedClosed
<1>6. /\ file.kind # "fifo" => file.recs = <<>>
      /\ fileOld.kind # "fifo" => fileOld.recs = <<>>
      /\ file.kind = "empty" => fileOld.recs = <<>>
  BY DEF HistoryInv, HistoryFiles, HistoryStart, FileRight
<1>7. fileOld.recs = <<>> => Left(fileOld) = <<>>
  BY NothingLeft
<1> HIDE DEF Left
<1>8. CASE CleanRecoverOld
  <2>1. /\ mode' = "down" /\ file.kind = "none" /\ file' = fileOld /\ fileOld' = NoFile
        /\ fileNew' = fileNew
    BY <1>8 DEF CleanRecoverOld
  <2>2. Left(Recoverable') = Left(Recoverable)
    BY <1>3, <1>6, <1>7, <2>1 DEF Recoverable
  <2>3. QueueInv'
    BY <1>2, <1>3, <2>1 DEF QueueInv
  <2> QED BY <1>5, <2>2, <2>3
<1>9. CASE CleanCreate
  <2>1. /\ mode' = "created" /\ file.kind = "none" /\ file' = EmptyFile
        /\ UNCHANGED <<fileOld, fileNew>>
    BY <1>9 DEF CleanCreate
  <2>2. Left(Recoverable') = Left(Recoverable)
    BY <2>1, MadeFiles DEF Recoverable
  <2>3. QueueInv'
    BY <1>2, <1>3, <2>1, MadeFiles DEF QueueInv
  <2> QED BY <1>5, <2>2, <2>3
<1>10. CASE CleanCreateHeader
  <2>1. /\ mode = "created" /\ mode' = "cleaned" /\ file' = NewFile
        /\ UNCHANGED <<fileOld, fileNew>>
    BY <1>10 DEF CleanCreateHeader
  <2>2. Left(Recoverable') = Left(Recoverable)
    BY <1>3, <1>6, <1>7, <2>1, MadeFiles DEF Recoverable, QueueInv
  <2>3. QueueInv'
    BY <1>2, <1>3, <2>1 DEF QueueInv
  <2> QED BY <1>5, <2>2, <2>3
<1>11. CASE CleanRemoveEmpty
  <2>1. /\ mode' = "down" /\ file.kind = "empty"
        /\ file' = NoFile /\ fileOld' = NoFile /\ fileNew' = NoFile
    BY <1>11 DEF CleanRemoveEmpty
  <2>2. Left(Recoverable') = Left(Recoverable)
    BY <1>3, <1>6, <1>7, <2>1, MadeFiles DEF Recoverable
  <2>3. QueueInv'
    BY <1>2, <1>3, <2>1 DEF QueueInv
  <2> QED BY <1>5, <2>2, <2>3
<1>12. ~CleanBackup
  <2>1. ~HasTorn(file.recs)
    BY <1>2, Numbered, WholeIsSound
  <2> QED BY <2>1 DEF CleanBackup, MayFail
<1>13. CASE CleanScan
  <2>1. /\ mode' = "cleaned" /\ file.kind = "fifo"
        /\ fileOld' = NoFile /\ fileNew' = NoFile
        /\ \/ file' = file
           \/ file' = [file EXCEPT !.currentId = Last(Sound(file.recs)).id]
    BY <1>13 DEF CleanScan
  <2>2. \A c : LET f == [file EXCEPT !.currentId = c]
               IN  f.kind = file.kind /\ f.lastAckId = file.lastAckId /\ f.recs = file.recs
    BY Numbered DEF File
  <2>3. /\ file'.kind = file.kind /\ file'.lastAckId = file.lastAckId
        /\ file'.recs = file.recs
    BY <2>1, <2>2
  <2>4. Left(Recoverable') = Left(Recoverable)
    BY <2>1, <2>3 DEF Recoverable, Left
  <2>5. QueueInv'
    BY <1>2, <1>3, <2>1, <2>3 DEF QueueInv
  <2> QED BY <1>5, <2>4, <2>5
<1>14. CASE CleanCopy
  <2> DEFINE kept == After(file.recs, file.lastAckId)
             r == Renumbered(kept)
             new == FileOf(0, Len(kept), r)
  <2>1. /\ mode' = "copied" /\ file.kind = "fifo" /\ fileOld' = NoFile
        /\ fileNew' = new /\ file' = file
    BY <1>14 DEF CleanCopy
  <2>2. new.recs = r
    BY DEF FileOf
  <2>3. kept \in Seq(Item) /\ In(kept) \subseteq In(file.recs)
    <3>1. In(kept) = {x \in In(file.recs) : x.id > file.lastAckId} /\ kept \in Seq(Item)
      BY <1>2, Numbered, WholeNumbered, InAfter
    <3> QED BY <3>1
  <2>4. Whole(kept)
    BY <1>2, <2>3 DEF Whole
  <2>5. Recoverable' = file /\ Recoverable = file /\ kept = Left(file)
    BY <2>1 DEF Recoverable, Left
  <2> HIDE DEF kept
  <2>6. Messages(r) = Messages(kept) /\ Whole(r)
    BY <2>3, <2>4, RenumberedMessages
  <2> HIDE DEF r, new
  <2>7. Messages(fileNew'.recs) = Messages(Left(Recoverable'))
    BY <2>1, <2>2, <2>5, <2>6
  <2>8. QueueInv'
    BY <1>2, <1>3, <2>1, <2>2, <2>6, <2>7 DEF QueueInv, Left
  <2> QED BY <1>5, <2>5, <2>8
<1>15. CASE CleanRenameOld
  <2>1. /\ mode = "copied" /\ mode' = "renamed"
        /\ fileOld' = file /\ file' = NoFile /\ fileNew' = fileNew
    BY <1>15 DEF CleanRenameOld
  <2>2. file.kind = "fifo"
    BY <2>1 DEF HistoryInv, HistoryStart
  <2>3. Recoverable' = Recoverable
    BY <2>1, <2>2, MadeFiles DEF Recoverable
  <2>4. Messages(fileNew'.recs) = Messages(Left(Recoverable'))
    BY <2>1, <2>3 DEF QueueInv, Left
  <2>5. QueueInv'
    BY <1>2, <1>3, <2>1, <2>4 DEF QueueInv, Left
  <2> QED BY <1>5, <2>3, <2>5
<1>16. CASE CleanRenameNew
  <2>1. /\ mode = "renamed" /\ mode' = "swapped"
        /\ file' = fileNew /\ fileNew' = NoFile /\ fileOld' = fileOld
    BY <1>16 DEF CleanRenameNew
  <2>2. fileNew.kind = "fifo" /\ fileNew.lastAckId = 0
    BY <2>1 DEF HistoryInv, HistoryStart
  <2>3. Recoverable' = fileNew
    BY <2>1, <2>2 DEF Recoverable
  <2>4. Left(Recoverable') = fileNew.recs
    BY <1>2, <2>2, <2>3, Numbered, WholeIsSound, AfterZero DEF Left
  <2>5. Messages(fileNew.recs) = Messages(Left(Recoverable))
    BY <2>1 DEF QueueInv, Left
  <2>6. QueueInv'
    BY <1>2, <1>3, <2>1 DEF QueueInv
  <2> QED BY <1>5, <2>4, <2>5, <2>6
<1>17. CASE CleanUnlinkOld
  <2>1. /\ mode = "swapped" /\ mode' = "cleaned"
        /\ fileOld' = NoFile /\ UNCHANGED <<file, fileNew>>
    BY <1>17 DEF CleanUnlinkOld
  <2>2. file.kind = "fifo"
    BY <2>1 DEF HistoryInv, HistoryStart
  <2>3. Recoverable' = Recoverable
    BY <2>1, <2>2 DEF Recoverable
  <2>4. QueueInv'
    BY <1>2, <1>3, <2>1 DEF QueueInv
  <2> QED BY <1>5, <2>3, <2>4
<1>18. CASE Open
  <2>1. /\ mode = "cleaned" /\ mode' = "up" /\ UNCHANGED <<file, fileOld, fileNew>>
        /\ table_client' = <<>> /\ lastIdOut' = 0
    BY <1>18 DEF Open, Memory, fileVars
  <2>2. Recoverable' = Recoverable
    BY <2>1 DEF Recoverable
  <2>3. Pend(file', table_disk') \in Seq(Item)
    BY <1>2, <2>1, JoinedUpNext, PendRight
  <2> DEFINE q == Pend(file', table_disk')
  <2>4. Lined(q, <<>>, <<>>, 0)
    <3> HIDE DEF q
    <3>1. q \in Seq(Item) /\ Len(q) \in Nat
      BY <2>3 DEF q
    <3>2. \A i \in 1 .. Len(q) : q[i].id > 0 /\ i > 0
      BY <3>1, ItemNumbers
    <3> QED BY <3>1, <3>2 DEF Lined
  <2>5. QueueInv'
    BY <1>1, <1>2, <2>1, <2>4, InEmpty DEF QueueInv
  <2> QED BY <1>5, <2>2, <2>5
<1> QED BY <1>8, <1>9, <1>10, <1>11, <1>12, <1>13, <1>14, <1>15, <1>16, <1>17, <1>18
        DEF Start

-----------------------------------------------------------------------------
(* At first the queue is empty.                                            *)
LEMMA InitQueue == Init => QueueInv /\ Queue!Init
<1> SUFFICES ASSUME Init PROVE QueueInv /\ Queue!Init
  OBVIOUS
<1>1. QueueInv
  BY MadeFiles, InEmpty DEF Init, QueueInv, Whole
<1>2. DurableItems = <<>>
  BY MadeFiles, NothingLeft DEF Init, DurableItems, Recoverable
<1>3. Messages(<<>>) = <<>>
  BY DEF Messages
<1>4. Queue!Init
  BY <1>2, <1>3 DEF Init, Pending, Queue!Init
<1> QED BY <1>1, <1>4

(* Every function, every step of the start-up and every kill.              *)
LEMMA NextQueue ==
  ASSUME Kills \cap {"torn", "ack"} = {},
         IInv, IInv', HistoryInv, HistoryInv', QueueInv, [Next]_vars
  PROVE  QueueInv' /\ QueueStep
<1>1. CASE Read
  BY <1>1, ReadClientTableQueue, ReadDiskTableQueue, ReadFileQueue DEF Read
<1>2. CASE UNCHANGED vars
  <2>1. QueueInv'
    BY <1>2 DEF QueueInv, Recoverable, vars, fileVars, memVars, historyVars
  <2>2. UNCHANGED <<Pending, Messages(taken), Len(DurableItems), written>>
    BY <1>2 DEF Pending, DurableItems, Recoverable, vars, fileVars, memVars, historyVars
  <2> QED BY <2>1, <2>2 DEF QueueStep
<1> QED BY <1>1, <1>2, WriteQueue, AckQueue, FlushQueue, DestroyQueue, StartQueue,
           KillQueue DEF Next

(* The permanent FIFO implements DurableQueue: through writes, reads,      *)
(* acknowledgements, saves, stops, kills of the process between two        *)
(* records of ct_save or anywhere in permFIFO_file_clean, and start-ups,   *)
(* messages come out in the order they were written, none skipped and none *)
(* twice between two stops, and a stop loses none but the newest unsaved.  *)
(* A kill inside a record or inside permFIFO_ack is excluded: there the    *)
(* code does otherwise.                                                    *)
THEOREM FIFOIsDurableQueue ==
  ASSUME Kills \cap {"torn", "ack"} = {}
  PROVE  Spec => ImplementsQueue
<1>1. Init => HistoryInv /\ QueueInv /\ Queue!Init
  BY InitHistory, InitQueue
<1>2. IInv /\ IInv' /\ HistoryInv /\ QueueInv /\ [Next]_vars
        => HistoryInv' /\ QueueInv' /\ QueueStep
  BY NextHistory, NextQueue
<1>3. QueueStep => [Queue!Next]_(Queue!vars)
  BY DEF QueueStep, Queue!vars
<1> QED BY <1>1, <1>2, <1>3, InvariantHolds, PTL DEF Spec, ImplementsQueue, Queue!Spec
=============================================================================
