---------------------------- MODULE BufferProofs ----------------------------
(***************************************************************************)
(* Proofs about the two buffers of utility.c and the text that goes        *)
(* through them.  The FIFO, for any size and any number of threads: its    *)
(* types, that no thread sleeps when it could go on, and that the ring of  *)
(* size + 1 slots is a bounded first-in first-out queue.  The line buffer, *)
(* for any chunk, block and stream of bytes: that it loses, cuts and glues *)
(* nothing.  The encoded message, for any header, text and buffer: that    *)
(* the server decodes the lines of the text.                               *)
(***************************************************************************)
EXTENDS PtFIFO, LineBuffer, InfoLoggerMessage, OrderedSequences

(* A position of the ring is a number modulo size + 1, of which the code   *)
(* computes only those below twice that.                                   *)
LEMMA Wrap ==
  ASSUME NEW n \in Nat \ {0}, NEW a \in 0 .. 2 * n - 1
  PROVE  a % n = IF a < n THEN a ELSE a - n
<1>1. CASE a < n
  BY <1>1, Z3
<1>2. CASE a >= n
  BY <1>2, Z3
<1> QED BY <1>1, <1>2

-----------------------------------------------------------------------------
(* The items of a ring d whose first is at s and whose last is before e.   *)
Slot == 0 .. size
Used(s, e) == (e - s + size + 1) % (size + 1)
Place(s, k) == (s + k - 1) % (size + 1)
Contents(s, e, d) == [k \in 1 .. Used(s, e) |-> d[Place(s, k)]]
Entry == Element \union {NULL}   \* what a slot holds
OnlyChangedAt(i, d, d1) == \A j \in Slot : j # i => d1[j] = d[j]

(* How many slots lie from one position to another, without the modulo.    *)
LEMMA UsedInRange ==
  ASSUME NEW s \in Slot, NEW e \in Slot
  PROVE  /\ Used(s, e) \in 0 .. size
         /\ Used(s, e) = IF e >= s THEN e - s ELSE e - s + size + 1
<1>1. size \in Nat /\ size + 1 \in Nat \ {0}
  BY FIFOAssumption
<1> DEFINE n == size + 1
           a == e - s + size + 1
<1>2. n \in Nat \ {0} /\ a \in 0 .. 2 * n - 1
  BY <1>1 DEF Slot
<1>3. Used(s, e) = a % n
  BY DEF Used
<1> HIDE DEF n, a
<1>4. a % n = IF a < n THEN a ELSE a - n
  BY <1>2, Wrap
<1> USE DEF n, a
<1>5. Used(s, e) = IF a < n THEN a ELSE a - n
  BY <1>3, <1>4, Zenon
<1> QED BY <1>1, <1>5 DEF Slot

(* The position of the k-th item from s on, without the modulo.            *)
LEMMA PlaceInRange ==
  ASSUME NEW s \in Slot, NEW k \in 1 .. size + 1
  PROVE  /\ Place(s, k) \in Slot
         /\ Place(s, k) = IF s + k - 1 < size + 1 THEN s + k - 1
                          ELSE s + k - 1 - (size + 1)
<1>1. size \in Nat /\ size + 1 \in Nat \ {0}
  BY FIFOAssumption
<1> DEFINE n == size + 1
           a == s + k - 1
<1>2. n \in Nat \ {0} /\ a \in 0 .. 2 * n - 1
  BY <1>1 DEF Slot
<1>3. Place(s, k) = a % n
  BY DEF Place
<1> HIDE DEF n, a
<1>4. a % n = IF a < n THEN a ELSE a - n
  BY <1>2, Wrap
<1> USE DEF n, a
<1>5. Place(s, k) = IF a < n THEN a ELSE a - n
  BY <1>3, <1>4, Zenon
<1> QED BY <1>1, <1>5 DEF Slot

(* The items of a ring are a sequence, as long as the ring is used.        *)
LEMMA ContentsIsSeq ==
  ASSUME NEW s \in Slot, NEW e \in Slot, NEW d \in [Slot -> Entry]
  PROVE  /\ Contents(s, e, d) \in Seq(Entry)
         /\ Len(Contents(s, e, d)) = Used(s, e)
<1>1. Used(s, e) \in 0 .. size /\ size \in Nat
  BY UsedInRange, FIFOAssumption
<1>2. \A k \in 1 .. Used(s, e) : d[Place(s, k)] \in Entry
  <2> TAKE k \in 1 .. Used(s, e)
  <2>1. k \in 1 .. size + 1
    BY <1>1
  <2>2. Place(s, k) \in Slot
    BY <2>1, PlaceInRange
  <2> QED BY <2>2
<1>3. Used(s, e) \in Nat
  BY <1>1
<1> HIDE DEF Used
<1>4. Contents(s, e, d) \in [1 .. Used(s, e) -> Entry]
  BY <1>2 DEF Contents
<1> QED BY <1>3, <1>4

-----------------------------------------------------------------------------
(* FIFO_read takes the first item of the ring, and leaves the others.       *)
LEMMA TakeIsTail ==
  ASSUME NEW s \in Slot, NEW e \in Slot, NEW d \in [Slot -> Entry],
         NEW d1 \in [Slot -> Entry], OnlyChangedAt(s, d, d1), s # e
  PROVE  /\ Contents(s, e, d) # <<>> /\ Head(Contents(s, e, d)) = d[s]
         /\ Contents(After(s), e, d1) = Tail(Contents(s, e, d))
<1> DEFINE u  == Used(s, e)
           s1 == After(s)
<1>0. size \in Nat
  BY FIFOAssumption
<1>1. s1 \in Slot
  BY <1>0 DEF After, Slot
<1>2. u \in 1 .. size /\ Used(s1, e) = u - 1
  <2>1. u = IF e >= s THEN e - s ELSE e - s + size + 1
    BY UsedInRange
  <2>2. Used(s1, e) = IF e >= s1 THEN e - s1 ELSE e - s1 + size + 1
    BY <1>1, UsedInRange
  <2>3. s1 = IF s + 1 > size THEN 0 ELSE s + 1
    BY DEF After
  <2> QED BY <1>0, <2>1, <2>2, <2>3 DEF Slot
<1>3. /\ Contents(s, e, d) \in Seq(Entry) /\ Len(Contents(s, e, d)) = u
      /\ Contents(s1, e, d1) \in Seq(Entry) /\ Len(Contents(s1, e, d1)) = u - 1
  <2> HIDE DEF s1
  <2>1. Contents(s, e, d) \in Seq(Entry) /\ Len(Contents(s, e, d)) = u
    BY ContentsIsSeq, Zenon
  <2>2. Contents(s1, e, d1) \in Seq(Entry) /\ Len(Contents(s1, e, d1)) = Used(s1, e)
    BY <1>1, ContentsIsSeq, Zenon
  <2> QED BY <1>2, <2>1, <2>2
<1>4. Contents(s, e, d)[1] = d[s]
  <2>1. Place(s, 1) = s
    BY <1>0, PlaceInRange DEF Slot
  <2> QED BY <1>2, <2>1 DEF Contents
<1>5. ASSUME NEW k \in 1 .. u - 1
      PROVE  Contents(s1, e, d1)[k] = Contents(s, e, d)[k + 1]
  <2>1. k \in 1 .. size + 1 /\ k + 1 \in 1 .. size + 1 /\ k + 1 \in 1 .. u
    BY <1>0, <1>2
  <2>2. Place(s1, k) =
          IF s1 + k - 1 < size + 1 THEN s1 + k - 1 ELSE s1 + k - 1 - (size + 1)
    BY <1>1, <2>1, PlaceInRange
  <2>3. Place(s, k + 1) =
          IF s + (k + 1) - 1 < size + 1 THEN s + (k + 1) - 1
          ELSE s + (k + 1) - 1 - (size + 1)
    BY <2>1, PlaceInRange
  <2>4. s1 = IF s + 1 > size THEN 0 ELSE s + 1
    BY DEF After
  <2>5. /\ Place(s1, k) = Place(s, k + 1)
        /\ Place(s1, k) # s
        /\ Place(s1, k) \in Slot
    BY <1>0, <1>2, <2>2, <2>3, <2>4 DEF Slot
  <2>6. Contents(s1, e, d1)[k] = d1[Place(s1, k)]
    BY <1>2 DEF Contents
  <2>7. Contents(s, e, d)[k + 1] = d[Place(s, k + 1)]
    BY <2>1 DEF Contents
  <2> QED BY <2>5, <2>6, <2>7 DEF OnlyChangedAt
<1>6. /\ Contents(s, e, d) # <<>> /\ Head(Contents(s, e, d)) = d[s]
      /\ Tail(Contents(s, e, d)) \in Seq(Entry)
      /\ Len(Tail(Contents(s, e, d))) = u - 1
      /\ \A k \in 1 .. u - 1 : Tail(Contents(s, e, d))[k] = Contents(s, e, d)[k + 1]
  BY <1>2, <1>3, <1>4
<1> HIDE DEF u, s1
<1>7. Contents(s1, e, d1) = Tail(Contents(s, e, d))
  BY <1>3, <1>5, <1>6, SeqEqual
<1> USE DEF s1
<1> QED BY <1>6, <1>7

(* An item written at e, where there is room, becomes the last one.        *)
LEMMA AddIsAppend ==
  ASSUME NEW s \in Slot, NEW e \in Slot, NEW d \in [Slot -> Entry],
         NEW d1 \in [Slot -> Entry], OnlyChangedAt(e, d, d1), After(e) # s
  PROVE  /\ Len(Contents(s, e, d)) < size
         /\ Contents(s, After(e), d1) = Append(Contents(s, e, d), d1[e])
<1> DEFINE u  == Used(s, e)
           e1 == After(e)
<1>0. size \in Nat
  BY FIFOAssumption
<1>1. e1 \in Slot
  BY <1>0 DEF After, Slot
<1>u. u = IF e >= s THEN e - s ELSE e - s + size + 1
  BY UsedInRange
<1>2. u \in 0 .. size - 1 /\ Used(s, e1) = u + 1
  <2>1. Used(s, e1) = IF e1 >= s THEN e1 - s ELSE e1 - s + size + 1
    BY <1>1, UsedInRange
  <2>2. e1 = IF e + 1 > size THEN 0 ELSE e + 1
    BY DEF After
  <2> QED BY <1>0, <1>u, <2>1, <2>2 DEF Slot
<1>3. /\ Contents(s, e, d) \in Seq(Entry) /\ Len(Contents(s, e, d)) = u
      /\ Contents(s, e1, d1) \in Seq(Entry) /\ Len(Contents(s, e1, d1)) = u + 1
  <2> HIDE DEF e1
  <2>1. Contents(s, e, d) \in Seq(Entry) /\ Len(Contents(s, e, d)) = u
    BY ContentsIsSeq, Zenon
  <2>2. Contents(s, e1, d1) \in Seq(Entry) /\ Len(Contents(s, e1, d1)) = Used(s, e1)
    BY <1>1, ContentsIsSeq, Zenon
  <2> QED BY <1>2, <2>1, <2>2
<1>4. ASSUME NEW k \in 1 .. u + 1
      PROVE  Contents(s, e1, d1)[k] = Append(Contents(s, e, d), d1[e])[k]
  <2> DEFINE p == Place(s, k)
  <2>1. k \in 1 .. size + 1
    BY <1>0, <1>2
  <2>2. p \in Slot
        /\ p = IF s + k - 1 < size + 1 THEN s + k - 1 ELSE s + k - 1 - (size + 1)
    BY <2>1, PlaceInRange
  <2>3. Contents(s, e1, d1)[k] = d1[p]
    BY <1>2 DEF Contents
  <2>4. CASE k = u + 1
    <3>1. p = e
      BY <1>0, <1>u, <1>2, <2>2, <2>4 DEF Slot
    <3> QED BY <1>1, <1>2, <1>3, <2>3, <2>4, <3>1
  <2>5. CASE k \in 1 .. u
    <3>1. p # e
      BY <1>0, <1>u, <1>2, <2>2, <2>5 DEF Slot
    <3>2. Contents(s, e, d)[k] = d[p]
      BY <2>5 DEF Contents
    <3>3. d1[p] = d[p]
      BY <2>2, <3>1 DEF OnlyChangedAt
    <3> QED BY <1>2, <1>3, <2>3, <2>5, <3>2, <3>3
  <2>6. k = u + 1 \/ k \in 1 .. u
    BY <1>0, <1>2
  <2> QED BY <2>4, <2>5, <2>6
<1>5. /\ Append(Contents(s, e, d), d1[e]) \in Seq(Entry)
      /\ Len(Append(Contents(s, e, d), d1[e])) = u + 1
  BY <1>3
<1> HIDE DEF u, e1
<1>6. Contents(s, e1, d1) = Append(Contents(s, e, d), d1[e])
  BY <1>3, <1>4, <1>5, SeqEqual
<1>7. Len(Contents(s, e, d)) < size
  BY <1>0, <1>2, <1>3
<1> USE DEF e1
<1> QED BY <1>6, <1>7, Zenon

(* What the model shows to the callers is what the ring contains.          *)
LEMMA QueueIsContents == queue = Contents(index_start, index_end, data)
BY Zenon DEF queue, Contents, Used, Place

(* With both positions equal, the ring holds nothing.                      *)
LEMMA EmptyIsEmpty ==
  ASSUME NEW s \in Slot, NEW d
  PROVE  Contents(s, s, d) = <<>>
<1>1. Used(s, s) = 0
  BY FIFOAssumption, UsedInRange DEF Slot
<1>2. Contents(s, s, d) = [k \in 1 .. 0 |-> d[Place(s, k)]]
  BY <1>1 DEF Contents
<1> QED BY <1>2

-----------------------------------------------------------------------------
(* The inductive invariant.  A call that is under way has its item.        *)
ItemsHeld == \A t \in Writer : pc[t] # "out" => item[t] \in Element
FIFOInv == FIFOTypeOK /\ ItemsHeld /\ NoLostWakeUp

(* The invariant holds of a new FIFO, in no call.                          *)
LEMMA FIFOInvInit == FIFOInit => FIFOInv
<1> SUFFICES ASSUME FIFOInit PROVE FIFOInv
  OBVIOUS
<1>1. FIFOTypeOK
  BY FIFOAssumption DEF FIFOInit, FIFOTypeOK
<1>2. ItemsHeld
  BY DEF FIFOInit, ItemsHeld, Thread
<1>3. NoLostWakeUp
  BY DEF FIFOInit, NoLostWakeUp, Thread
<1> QED BY <1>1, <1>2, <1>3 DEF FIFOInv

(* The ends of a call, with and without waking the others.                 *)
LEMMA ReturnKeepsInv ==
  ASSUME FIFOInv, NEW t \in Thread, NEW v \in Element \union {NULL}, Return(t, v)
  PROVE  /\ timeout' \in [Thread -> {0, 1, -1}]
         /\ item' \in [Writer -> Element \union {NULL}]
         /\ result' \in [Thread -> Element \union {NULL}]
         /\ \A u \in Writer : u # t => item'[u] = item[u]
BY DEF FIFOInv, FIFOTypeOK, Return

(* A call that moved an item wakes everyone, so no thread sleeps.          *)
LEMMA BroadcastKeepsInv ==
  ASSUME FIFOInv, NEW t \in Thread, NEW v \in Element \union {NULL},
         pc[t] = "lock", BroadcastAndReturn(t, v),
         index_start' \in Slot, index_end' \in Slot,
         data' \in [Slot -> Element \union {NULL}]
  PROVE  FIFOInv'
<1>1. /\ pc' \in [Thread -> {"out", "lock", "asleep"}]
      /\ \A u \in Thread : pc'[u] # "asleep"
      /\ \A u \in Thread : pc'[u] # "out" => u # t /\ pc[u] # "out"
  <2>1. pc \in [Thread -> {"out", "lock", "asleep"}]
    BY DEF FIFOInv, FIFOTypeOK
  <2>2. pc' = [u \in Thread |-> IF pc[u] = "asleep" THEN "lock"
                               ELSE IF u = t THEN "out" ELSE pc[u]]
    BY DEF BroadcastAndReturn
  <2>3. ASSUME NEW u \in Thread
        PROVE  /\ pc'[u] \in {"out", "lock"}
               /\ pc'[u] # "out" => u # t /\ pc[u] # "out"
    <3>1. pc'[u] = IF pc[u] = "asleep" THEN "lock" ELSE IF u = t THEN "out" ELSE pc[u]
      BY <2>2
    <3>2. pc[u] \in {"out", "lock", "asleep"}
      BY <2>1
    <3> QED BY <3>1, <3>2
  <2> QED BY <2>1, <2>2, <2>3
<1>2. Return(t, v)
  BY DEF BroadcastAndReturn
<1>3. FIFOTypeOK'
  BY <1>1, <1>2, ReturnKeepsInv DEF FIFOTypeOK, Slot
<1>4. ItemsHeld'
  BY <1>1, <1>2, ReturnKeepsInv DEF FIFOInv, ItemsHeld, Thread
<1>5. NoLostWakeUp'
  BY <1>1 DEF NoLostWakeUp, Thread
<1> QED BY <1>3, <1>4, <1>5 DEF FIFOInv

(* A call that gives up changes nothing that a sleeper waits for.          *)
LEMMA ReturnNULLKeepsInv ==
  ASSUME FIFOInv, NEW t \in Thread, ReturnNULL(t), UNCHANGED ring
  PROVE  FIFOInv'
<1>1. /\ pc' \in [Thread -> {"out", "lock", "asleep"}]
      /\ \A u \in Thread : pc'[u] # "out" => u # t /\ pc'[u] = pc[u]
  BY DEF FIFOInv, FIFOTypeOK, ReturnNULL
<1>2. Return(t, NULL)
  BY DEF ReturnNULL
<1>3. FIFOTypeOK'
  BY <1>1, <1>2, ReturnKeepsInv DEF FIFOInv, FIFOTypeOK, ring
<1>4. ItemsHeld'
  BY <1>1, <1>2, ReturnKeepsInv DEF FIFOInv, ItemsHeld, Thread
<1>5. NoLostWakeUp'
  BY <1>1 DEF FIFOInv, NoLostWakeUp, Thread, ring, IsEmpty, IsFull, After
<1> QED BY <1>3, <1>4, <1>5 DEF FIFOInv

(* A thread goes to sleep only on a ring that cannot serve it.             *)
LEMMA WaitKeepsInv ==
  ASSUME FIFOInv, NEW t \in Thread, pc[t] = "lock", WaitOrReturn(t),
         t \in Reader => IsEmpty, t \in Writer => IsFull
  PROVE  FIFOInv'
<1>1. CASE ReturnNULL(t)
  BY <1>1, ReturnNULLKeepsInv DEF WaitOrReturn
<1>2. CASE /\ pc' = [pc EXCEPT ![t] = "asleep"]
           /\ UNCHANGED <<timeout, item, result>> /\ UNCHANGED ring
  <2>1. FIFOTypeOK'
    BY <1>2 DEF FIFOInv, FIFOTypeOK, ring
  <2>2. ItemsHeld'
    BY <1>2 DEF FIFOInv, FIFOTypeOK, ItemsHeld, Thread
  <2>3. NoLostWakeUp'
    BY <1>2 DEF FIFOInv, FIFOTypeOK, NoLostWakeUp, Thread, ring, IsEmpty, IsFull, After
  <2> QED BY <2>1, <2>2, <2>3 DEF FIFOInv
<1> QED BY <1>1, <1>2 DEF WaitOrReturn

(* Both positions stay on the ring.                                        *)
LEMMA AfterInRange == \A i \in Slot : After(i) \in Slot
BY FIFOAssumption DEF After, Slot

(* Every step of every call keeps the invariant.                           *)
LEMMA FIFOInvStep == FIFOInv /\ [FIFONext]_fifoVars => FIFOInv'
<1> SUFFICES ASSUME FIFOInv, [FIFONext]_fifoVars PROVE FIFOInv'
  OBVIOUS
<1>1. ASSUME NEW t \in Thread, Call(t) PROVE FIFOInv'
  <2>1. /\ pc[t] = "out" /\ pc' = [pc EXCEPT ![t] = "lock"]
        /\ UNCHANGED ring
        /\ timeout' \in [Thread -> {0, 1, -1}]
        /\ result' \in [Thread -> Element \union {NULL}]
    BY <1>1 DEF Call, FIFOInv, FIFOTypeOK
  <2>2. /\ item' \in [Writer -> Element \union {NULL}]
        /\ \A u \in Writer : IF u = t THEN item'[u] \in Element
                                       ELSE item'[u] = item[u]
    BY <1>1, FIFOAssumption DEF Call, FIFOInv, FIFOTypeOK
  <2>3. FIFOTypeOK'
    BY <2>1, <2>2 DEF FIFOInv, FIFOTypeOK, ring
  <2>4. ItemsHeld'
    BY <2>1, <2>2 DEF FIFOInv, FIFOTypeOK, ItemsHeld, Thread
  <2>5. NoLostWakeUp'
    BY <2>1 DEF FIFOInv, FIFOTypeOK, NoLostWakeUp, Thread, ring, IsEmpty, IsFull, After
  <2> QED BY <2>3, <2>4, <2>5 DEF FIFOInv
<1>2. ASSUME NEW t \in Thread, TimedOut(t) PROVE FIFOInv'
  BY <1>2, ReturnNULLKeepsInv DEF TimedOut
<1>3. ASSUME NEW t \in Thread, WakeUp(t) PROVE FIFOInv'
  <2>1. FIFOTypeOK'
    BY <1>3 DEF WakeUp, FIFOInv, FIFOTypeOK, ring
  <2>2. ItemsHeld'
    BY <1>3 DEF WakeUp, FIFOInv, FIFOTypeOK, ItemsHeld, Thread
  <2>3. NoLostWakeUp'
    BY <1>3 DEF WakeUp, FIFOInv, FIFOTypeOK, NoLostWakeUp, Thread, ring, IsEmpty,
                IsFull, After
  <2> QED BY <2>1, <2>2, <2>3 DEF FIFOInv
<1>4. ASSUME NEW t \in Reader, ptFIFO_read(t) PROVE FIFOInv'
  <2>1. t \in Thread /\ t \notin Writer /\ pc[t] = "lock"
    BY <1>4, FIFOAssumption DEF Thread, ptFIFO_read
  <2>2. CASE IsEmpty /\ WaitOrReturn(t)
    BY <2>1, <2>2, WaitKeepsInv
  <2>3. CASE ~IsEmpty /\ Take /\ BroadcastAndReturn(t, data[index_start])
    <3>1. /\ index_start \in Slot /\ index_end \in Slot
          /\ data \in [Slot -> Element \union {NULL}]
      BY DEF FIFOInv, FIFOTypeOK, Slot
    <3>2. /\ index_start' \in Slot /\ index_end' \in Slot
          /\ data' \in [Slot -> Element \union {NULL}]
      BY <2>3, <3>1, AfterInRange DEF Take
    <3> QED BY <2>1, <2>3, <3>1, <3>2, BroadcastKeepsInv
  <2> QED BY <1>4, <2>2, <2>3 DEF ptFIFO_read
<1>5. ASSUME NEW t \in Writer, ptFIFO_write(t) PROVE FIFOInv'
  <2>1. t \in Thread /\ t \notin Reader /\ pc[t] = "lock"
    BY <1>5, FIFOAssumption DEF Thread, ptFIFO_write
  <2>2. CASE IsFull /\ WaitOrReturn(t)
    BY <2>1, <2>2, WaitKeepsInv
  <2>3. CASE ~IsFull /\ Add(item[t]) /\ BroadcastAndReturn(t, item[t])
    <3>1. /\ index_start \in Slot /\ index_end \in Slot
          /\ data \in [Slot -> Element \union {NULL}] /\ item[t] \in Element
      BY <2>1 DEF FIFOInv, FIFOTypeOK, ItemsHeld, Slot
    <3>2. /\ index_start' \in Slot /\ index_end' \in Slot
          /\ data' \in [Slot -> Element \union {NULL}]
      BY <2>3, <3>1, AfterInRange DEF Add
    <3> QED BY <2>1, <2>3, <3>1, <3>2, BroadcastKeepsInv
  <2> QED BY <1>5, <2>2, <2>3 DEF ptFIFO_write
<1>6. CASE UNCHANGED fifoVars
  BY <1>6 DEF fifoVars, ring, callVars, FIFOInv, FIFOTypeOK, ItemsHeld,
              NoLostWakeUp, IsEmpty, IsFull, After
<1> QED BY <1>1, <1>2, <1>3, <1>4, <1>5, <1>6 DEF FIFONext

(* The inductive invariant of the FIFO holds in every behaviour.           *)
THEOREM FIFOInvHolds == FIFOSpec => []FIFOInv
BY FIFOInvInit, FIFOInvStep, PTL DEF FIFOSpec

(* Type correctness of FIFO and ptFIFO, for every size.                    *)
THEOREM FIFOTypeCorrect == FIFOSpec => []FIFOTypeOK
<1>1. FIFOInv => FIFOTypeOK
  BY DEF FIFOInv
<1> QED BY <1>1, FIFOInvHolds, PTL

(* Whatever threads share a ptFIFO, none sleeps in ptFIFO_read or          *)
(* ptFIFO_write while the FIFO could serve its call.                       *)
THEOREM WakeUpsCorrect == FIFOSpec => []NoLostWakeUp
<1>1. FIFOInv => NoLostWakeUp
  BY DEF FIFOInv
<1> QED BY <1>1, FIFOInvHolds, PTL

-----------------------------------------------------------------------------
(* The refinement: every step of a call is one of BoundedQueue, or none.   *)
LEMMA QueueInit == FIFOInit => Queue!Init
<1> SUFFICES ASSUME FIFOInit PROVE Queue!Init
  OBVIOUS
<1>1. Contents(index_start, index_end, data) = <<>>
  BY FIFOAssumption, EmptyIsEmpty DEF FIFOInit, Slot
<1>2. result = [t \in Reader \union Writer |-> NULL]
  BY DEF FIFOInit, Thread
<1> QED BY <1>1, <1>2, QueueIsContents DEF Queue!Init

(* The queue is a function of the ring.                                    *)
LEMMA QueueSame == UNCHANGED ring => UNCHANGED queue
BY DEF ring, queue

(* Every step of a call is a step of BoundedQueue, or leaves it alone.     *)
LEMMA QueueStep ==
  FIFOInv /\ [FIFONext]_fifoVars => [Queue!Next]_<<queue, result>>
<1> SUFFICES ASSUME FIFOInv, [FIFONext]_fifoVars
             PROVE  [Queue!Next]_<<queue, result>>
  OBVIOUS
<1>0. /\ index_start \in Slot /\ index_end \in Slot
      /\ data \in [Slot -> Entry]
  BY DEF FIFOInv, FIFOTypeOK, Slot, Entry
<1>a. /\ queue = Contents(index_start, index_end, data)
      /\ queue' = Contents(index_start', index_end', data')
  BY Zenon DEF queue, Contents, Used, Place
<1>b. ASSUME NEW t \in Thread, ReturnNULL(t), UNCHANGED ring
      PROVE  Queue!Next
  <2>1. result' = [result EXCEPT ![t] = NULL]
    BY <1>b DEF ReturnNULL, Return
  <2> QED BY <1>b, <2>1, QueueSame DEF Queue!Next, Queue!GiveUp, Thread
<1>1. ASSUME NEW t \in Thread, Call(t) PROVE Queue!Next
  BY <1>1, QueueSame DEF Call, Queue!Next, Queue!GiveUp, Thread
<1>2. ASSUME NEW t \in Thread, TimedOut(t) PROVE Queue!Next
  BY <1>b, <1>2 DEF TimedOut
<1>3. ASSUME NEW t \in Thread, WakeUp(t) PROVE UNCHANGED <<queue, result>>
  BY <1>3, QueueSame DEF WakeUp
<1>4. ASSUME NEW t \in Thread, WaitOrReturn(t)
      PROVE  Queue!Next \/ UNCHANGED <<queue, result>>
  BY <1>b, <1>4, QueueSame DEF WaitOrReturn
<1>5. ASSUME NEW t \in Reader, ptFIFO_read(t)
      PROVE  Queue!Next \/ UNCHANGED <<queue, result>>
  <2>1. CASE WaitOrReturn(t)
    BY <1>4, <2>1 DEF Thread
  <2>2. CASE ~IsEmpty /\ Take /\ BroadcastAndReturn(t, data[index_start])
    <3>1. /\ index_start # index_end /\ index_start' = After(index_start)
          /\ data' = [data EXCEPT ![index_start] = NULL]
          /\ queue' = Contents(index_start', index_end, data')
      BY <1>a, <2>2 DEF IsEmpty, Take
    <3>2. queue # <<>> /\ Head(queue) = data[index_start] /\ queue' = Tail(queue)
      <4>1. data' \in [Slot -> Entry] /\ OnlyChangedAt(index_start, data, data')
        BY <1>0, <3>1 DEF Entry, OnlyChangedAt
      <4>2. /\ Contents(index_start, index_end, data) # <<>>
            /\ Head(Contents(index_start, index_end, data)) = data[index_start]
            /\ Contents(After(index_start), index_end, data')
                 = Tail(Contents(index_start, index_end, data))
        <5> DEFINE s == index_start
                   r == index_end
        <5>1. s \in Slot /\ r \in Slot /\ data \in [Slot -> Entry] /\ s # r
          BY <1>0, <3>1
        <5>2. data' \in [Slot -> Entry] /\ OnlyChangedAt(s, data, data')
          BY <4>1
        <5> HIDE DEF s, r
        <5>3. /\ Contents(s, r, data) # <<>> /\ Head(Contents(s, r, data)) = data[s]
              /\ Contents(After(s), r, data') = Tail(Contents(s, r, data))
          BY <5>1, <5>2, TakeIsTail
        <5> QED BY <5>3 DEF s, r
      <4> QED BY <1>a, <3>1, <4>2, Zenon
    <3>3. result' = [result EXCEPT ![t] = Head(queue)]
      BY <2>2, <3>2 DEF BroadcastAndReturn, Return
    <3> QED BY <3>2, <3>3 DEF Queue!Next, Queue!Get
  <2> QED BY <1>5, <2>1, <2>2 DEF ptFIFO_read
<1>6. ASSUME NEW t \in Writer, ptFIFO_write(t)
      PROVE  Queue!Next \/ UNCHANGED <<queue, result>>
  <2>1. CASE WaitOrReturn(t)
    BY <1>4, <2>1 DEF Thread
  <2>2. CASE ~IsFull /\ Add(item[t]) /\ BroadcastAndReturn(t, item[t])
    <3>1. item[t] \in Element
      BY <1>6 DEF FIFOInv, ItemsHeld, ptFIFO_write
    <3>2. /\ After(index_end) # index_start /\ index_end' = After(index_end)
          /\ data' = [data EXCEPT ![index_end] = item[t]]
          /\ queue' = Contents(index_start, index_end', data')
      BY <1>a, <2>2 DEF IsFull, Add
    <3>3. Len(queue) < size /\ queue' = Append(queue, item[t])
      <4>1. /\ data' \in [Slot -> Entry]
            /\ data'[index_end] = item[t] /\ OnlyChangedAt(index_end, data, data')
        BY <1>0, <3>1, <3>2 DEF Entry, OnlyChangedAt
      <4>2. /\ Len(Contents(index_start, index_end, data)) < size
            /\ Contents(index_start, After(index_end), data')
                 = Append(Contents(index_start, index_end, data), data'[index_end])
        <5>1. /\ index_start \in Slot /\ index_end \in Slot /\ data \in [Slot -> Entry]
              /\ After(index_end) # index_start
          BY <1>0, <3>2
        <5> QED BY <4>1, <5>1, AddIsAppend
      <4> QED BY <1>a, <3>2, <4>1, <4>2, Zenon
    <3>4. result' = [result EXCEPT ![t] = item[t]]
      BY <2>2 DEF BroadcastAndReturn, Return
    <3> QED BY <3>1, <3>3, <3>4 DEF Queue!Next, Queue!Put
  <2> QED BY <1>6, <2>1, <2>2 DEF ptFIFO_write
<1>7. CASE UNCHANGED fifoVars
  BY <1>7, QueueSame DEF fifoVars, callVars
<1> QED BY <1>1, <1>2, <1>3, <1>5, <1>6, <1>7 DEF FIFONext

(* ptFIFO_read and ptFIFO_write, called by any threads on a ring of any    *)
(* size, are operations of a bounded first-in first-out queue.             *)
THEOREM RingIsBoundedQueue == FIFOSpec => ImplementsBoundedQueue
<1>1. FIFOSpec => []FIFOInv
  BY FIFOInvHolds
<1> QED BY <1>1, QueueInit, QueueStep, PTL
        DEF FIFOSpec, ImplementsBoundedQueue, Queue!Spec

-----------------------------------------------------------------------------
(***************************************************************************)
(* The line buffer.                                                        *)
(***************************************************************************)
(* What a byte of the model is: a letter, an end of line, NUL or Junk.     *)
Byte == Int

-----------------------------------------------------------------------------
(* The bytes of lines, of one more at each step of the recursion.          *)
LineText(ls, n, f) ==
  f = [i \in 0 .. n |-> IF i = 0 THEN <<>> ELSE f[i - 1] \o ls[i] \o <<EOL>>]

(* The recursion goes on to the next line.                                 *)
LEMMA LineTextGoesOn ==
  ASSUME NEW ls, NEW n \in Nat, NEW f, LineText(ls, n, f)
  PROVE  LineText(ls, n + 1, [i \in 0 .. n + 1 |->
           IF i = n + 1 THEN f[n] \o ls[n + 1] \o <<EOL>> ELSE f[i]])
<1> DEFINE last == f[n] \o ls[n + 1] \o <<EOL>>
           g == [i \in 0 .. n + 1 |-> IF i = n + 1 THEN last ELSE f[i]]
           h(i) == IF i = 0 THEN <<>> ELSE g[i - 1] \o ls[i] \o <<EOL>>
<1>1. \A i \in 0 .. n : f[i] = IF i = 0 THEN <<>> ELSE f[i - 1] \o ls[i] \o <<EOL>>
  BY DEF LineText
<1>2. g[n + 1] = last /\ \A i \in 0 .. n : g[i] = f[i]
  OBVIOUS
<1>3. ASSUME NEW i \in 0 .. n + 1 PROVE (IF i = n + 1 THEN last ELSE f[i]) = h(i)
  <2>1. CASE i = n + 1
    <3>1. i # 0 /\ i - 1 = n /\ n \in 0 .. n
      BY <2>1
    <3>2. g[i - 1] = f[n]
      BY <1>2, <3>1
    <3> HIDE DEF g
    <3> QED BY <2>1, <3>1, <3>2
  <2>2. CASE i # n + 1
    <3>1. i \in 0 .. n /\ (i # 0 => i - 1 \in 0 .. n)
      BY <2>2
    <3>2. i # 0 => g[i - 1] = f[i - 1]
      BY <1>2, <3>1
    <3>3. f[i] = h(i)
      <4> HIDE DEF g
      <4> QED BY <1>1, <3>1, <3>2
    <3> QED BY <2>2, <3>3
  <2> QED BY <2>1, <2>2
<1>4. g = [i \in 0 .. n + 1 |-> h(i)]
  BY <1>3
<1> QED BY <1>4, Zenon DEF LineText

(* So there is such a function, ...                                        *)
LEMMA LineTextExists ==
  ASSUME NEW ls, NEW n \in Nat
  PROVE  \E f : LineText(ls, n, f)
<1> DEFINE T == {m \in Nat : \E f : LineText(ls, m, f)}
<1>1. 0 \in T
  <2> DEFINE f == [i \in 0 .. 0 |-> <<>>]
  <2>1. LineText(ls, 0, f)
    BY DEF LineText
  <2> QED BY <2>1
<1>2. ASSUME NEW m \in Nat, m \in T PROVE m + 1 \in T
  <2>1. PICK f : LineText(ls, m, f)
    BY <1>2
  <2>2. \E g : LineText(ls, m + 1, g)
    BY <2>1, LineTextGoesOn
  <2> QED BY <2>2
<1> HIDE DEF T
<1>3. n \in T
  BY <1>1, <1>2, InductionOnNat
<1> QED BY <1>3 DEF T

(* ... only one, which depends on the lines only.                          *)
LEMMA LineTextUnique ==
  \A ls, ms, f, g : \A n \in Nat :
    LineText(ls, n, f) /\ LineText(ms, n, g) /\ (\A i \in 1 .. n : ls[i] = ms[i])
      => \A i \in 0 .. n : f[i] = g[i]
<1> SUFFICES ASSUME NEW ls, NEW ms, NEW f, NEW g, NEW n \in Nat,
                    LineText(ls, n, f), LineText(ms, n, g),
                    \A i \in 1 .. n : ls[i] = ms[i]
             PROVE  \A i \in 0 .. n : f[i] = g[i]
  OBVIOUS
<1>1. \A i \in 0 .. n : /\ f[i] = IF i = 0 THEN <<>> ELSE f[i - 1] \o ls[i] \o <<EOL>>
                        /\ g[i] = IF i = 0 THEN <<>> ELSE g[i - 1] \o ms[i] \o <<EOL>>
  BY DEF LineText
<1> DEFINE T == {i \in Nat : i <= n => f[i] = g[i]}
<1>2. 0 \in T
  <2>1. 0 \in 0 .. n
    OBVIOUS
  <2> QED BY <1>1, <2>1
<1>3. ASSUME NEW i \in Nat, i \in T PROVE i + 1 \in T
  <2> SUFFICES ASSUME i + 1 <= n PROVE f[i + 1] = g[i + 1]
    OBVIOUS
  <2>1. i + 1 \in 0 .. n /\ i + 1 # 0 /\ (i + 1) - 1 = i /\ i + 1 \in 1 .. n
    OBVIOUS
  <2>2. f[i] = g[i] /\ ls[i + 1] = ms[i + 1]
    BY <1>3, <2>1
  <2> QED BY <1>1, <2>1, <2>2
<1> HIDE DEF T
<1>4. \A i \in Nat : i \in T
  BY <1>2, <1>3, InductionOnNat
<1> QED BY <1>4 DEF T

(* TextOf is its value for all the lines.                                  *)
LEMMA TextOfIs ==
  ASSUME NEW ls, Len(ls) \in Nat
  PROVE  \E f : LineText(ls, Len(ls), f) /\ TextOf(ls) = f[Len(ls)]
<1> DEFINE f == CHOOSE f : LineText(ls, Len(ls), f)
<1>1. LineText(ls, Len(ls), f)
  BY LineTextExists
<1>2. TextOf(ls) = f[Len(ls)]
  BY DEF TextOf, LineText
<1> QED BY <1>1, <1>2

(* A line returned adds its bytes, and an end of line.                     *)
LEMMA TextOfAppend ==
  ASSUME NEW S, NEW ls \in Seq(S), NEW l \in S
  PROVE  TextOf(Append(ls, l)) = TextOf(ls) \o l \o <<EOL>>
<1> DEFINE ms == Append(ls, l)
<1>1. /\ Len(ls) \in Nat /\ Len(ms) = Len(ls) + 1 /\ ms[Len(ls) + 1] = l
      /\ \A i \in 1 .. Len(ls) : ms[i] = ls[i]
  BY AppendProperties
<1> HIDE DEF ms
<1>2. PICK f : LineText(ls, Len(ls), f) /\ TextOf(ls) = f[Len(ls)]
  BY <1>1, TextOfIs
<1>3. PICK g : LineText(ms, Len(ls) + 1, g) /\ TextOf(ms) = g[Len(ls) + 1]
  BY <1>1, TextOfIs
<1> DEFINE n == Len(ls)
<1>4. \A i \in 0 .. n + 1 : g[i] = IF i = 0 THEN <<>> ELSE g[i - 1] \o ms[i] \o <<EOL>>
  BY <1>3 DEF LineText
<1> DEFINE h == [i \in 0 .. n |-> g[i]]
<1>5. LineText(ms, n, h)
  <2>1. ASSUME NEW i \in 0 .. n
        PROVE  g[i] = IF i = 0 THEN <<>> ELSE h[i - 1] \o ms[i] \o <<EOL>>
    <3>1. i \in 0 .. n + 1 /\ (i # 0 => i - 1 \in 0 .. n)
      BY <1>1
    <3>2. i # 0 => h[i - 1] = g[i - 1]
      BY <3>1
    <3> HIDE DEF h
    <3> QED BY <1>4, <3>1, <3>2
  <2>2. h = [i \in 0 .. n |-> IF i = 0 THEN <<>> ELSE h[i - 1] \o ms[i] \o <<EOL>>]
    BY <2>1
  <2> QED BY <2>2, Zenon DEF LineText
<1> HIDE DEF h
<1>6. n \in 0 .. n /\ n + 1 \in 0 .. n + 1 /\ n + 1 # 0 /\ (n + 1) - 1 = n
  BY <1>1
<1>7. h[n] = f[n]
  <2>1. LineText(ls, n, f) /\ n \in Nat /\ \A i \in 1 .. n : ms[i] = ls[i]
    BY <1>1, <1>2
  <2>2. \A i \in 0 .. n : h[i] = f[i]
    BY <1>5, <2>1, LineTextUnique
  <2> QED BY <1>6, <2>2
<1>8. h[n] = g[n]
  BY <1>6 DEF h
<1>9. g[n + 1] = g[n] \o l \o <<EOL>>
  BY <1>1, <1>4, <1>6
<1> QED BY <1>2, <1>3, <1>7, <1>8, <1>9 DEF ms

(* No line, no bytes.                                                      *)
LEMMA TextOfNothing == TextOf(<<>>) = <<>>
<1>1. PICK f : LineText(<<>>, 0, f) /\ TextOf(<<>>) = f[0]
  BY TextOfIs, Len(<<>>) = 0
<1>2. f[0] = <<>>
  BY <1>1 DEF LineText
<1> QED BY <1>1, <1>2

-----------------------------------------------------------------------------
(* The first k elements depend on nothing else.                            *)
LEMMA SameStart ==
  ASSUME NEW S, NEW c \in Seq(S), NEW d \in Seq(S), NEW k \in Nat,
         k <= Len(c), k <= Len(d), \A i \in 1 .. k : d[i] = c[i]
  PROVE  SubSeq(d, 1, k) = SubSeq(c, 1, k)
<1>1. \A i \in 1 .. k : c[i] \in S /\ d[i] \in S
  BY LenProperties, ElementOfSeq
<1>2. /\ SubSeq(c, 1, k) \in Seq(S) /\ Len(SubSeq(c, 1, k)) = k
      /\ \A i \in 1 .. k : SubSeq(c, 1, k)[i] = c[i]
  BY <1>1, SubSeqProperties
<1>3. /\ SubSeq(d, 1, k) \in Seq(S) /\ Len(SubSeq(d, 1, k)) = k
      /\ \A i \in 1 .. k : SubSeq(d, 1, k)[i] = d[i]
  BY <1>1, SubSeqProperties
<1> DEFINE a == SubSeq(c, 1, k)
           b == SubSeq(d, 1, k)
<1> HIDE DEF a, b
<1>4. /\ a \in Seq(S) /\ b \in Seq(S) /\ Len(b) = Len(a)
      /\ \A i \in 1 .. Len(b) : b[i] = a[i]
  BY <1>2, <1>3 DEF a, b
<1>5. b = a
  BY <1>4, SeqEqual
<1> QED BY <1>5 DEF a, b

(* A sequence d that holds the first u bytes of c and then the n bytes of  *)
(* s after the t-th starts with both.                                      *)
HoldsBoth(d, c, u, s, t, n) ==
  /\ u <= Len(c) /\ u + n <= Len(d) /\ t + n <= Len(s)
  /\ \A i \in 1 .. u : d[i] = c[i]
  /\ \A i \in 1 .. n : d[u + i] = s[t + i]
StartsWithBoth(d, c, u, s, t, n) ==
  SubSeq(d, 1, u + n) = SubSeq(c, 1, u) \o SubSeq(s, t + 1, t + n)

LEMMA StartAndMore ==
  \A c, d, s \in Seq(Byte) : \A u, t, n \in Nat :
     HoldsBoth(d, c, u, s, t, n) => StartsWithBoth(d, c, u, s, t, n)
<1> TAKE c, d, s \in Seq(Byte)
<1> TAKE u, t, n \in Nat
<1> HAVE HoldsBoth(d, c, u, s, t, n)
<1>0. /\ u <= Len(c) /\ u + n <= Len(d) /\ t + n <= Len(s)
      /\ \A i \in 1 .. u : d[i] = c[i]
      /\ \A i \in 1 .. n : d[u + i] = s[t + i]
  BY DEF HoldsBoth
<1> DEFINE a == SubSeq(d, 1, u + n)
           p == SubSeq(c, 1, u)
           q == SubSeq(s, t + 1, t + n)
<1>1. /\ a \in Seq(Byte) /\ Len(a) = u + n
      /\ \A i \in 1 .. u + n : a[i] = d[i]
  <2>1. \A i \in 1 .. u + n : d[i] \in Byte
    BY <1>0, LenProperties, ElementOfSeq
  <2> QED BY <2>1, SubSeqProperties
<1>2. /\ p \in Seq(Byte) /\ Len(p) = u
      /\ \A i \in 1 .. u : p[i] = c[i]
  <2>1. \A i \in 1 .. u : c[i] \in Byte
    BY <1>0, LenProperties, ElementOfSeq
  <2> QED BY <2>1, SubSeqProperties
<1>3. /\ q \in Seq(Byte) /\ Len(q) = n
      /\ \A i \in 1 .. n : q[i] = s[t + i]
  <2>1. \A i \in t + 1 .. t + n : s[i] \in Byte
    BY <1>0, LenProperties, ElementOfSeq
  <2>2. (t + n) - (t + 1) + 1 = n /\ (t + 1 <= t + n <=> 1 <= n)
    OBVIOUS
  <2>3. /\ q \in Seq(Byte) /\ Len(q) = IF t + 1 <= t + n THEN (t + n) - (t + 1) + 1 ELSE 0
        /\ \A i \in 1 .. (t + n) - (t + 1) + 1 : q[i] = s[(t + 1) + i - 1]
    <3> DEFINE lo == t + 1
               hi == t + n
    <3>1. lo \in Int /\ hi \in Int /\ \A i \in lo .. hi : s[i] \in Byte
      BY <2>1
    <3> HIDE DEF lo, hi
    <3>2. /\ SubSeq(s, lo, hi) \in Seq(Byte)
          /\ Len(SubSeq(s, lo, hi)) = IF lo <= hi THEN hi - lo + 1 ELSE 0
          /\ \A i \in 1 .. hi - lo + 1 : SubSeq(s, lo, hi)[i] = s[lo + i - 1]
      BY <3>1, SubSeqProperties
    <3> QED BY <3>2, Zenon DEF lo, hi
  <2>4. \A i \in 1 .. n : (t + 1) + i - 1 = t + i
    OBVIOUS
  <2> HIDE DEF q
  <2> QED BY <2>2, <2>3, <2>4
<1> HIDE DEF a, p, q
<1>4. /\ p \o q \in Seq(Byte) /\ Len(p \o q) = u + n
      /\ \A i \in 1 .. u + n : (p \o q)[i] = IF i <= u THEN p[i] ELSE q[i - u]
  BY <1>2, <1>3, ConcatProperties
<1>5. ASSUME NEW i \in 1 .. u + n PROVE a[i] = (p \o q)[i]
  <2>1. CASE i <= u
    <3>1. i \in 1 .. u
      BY <2>1
    <3>2. a[i] = d[i] /\ p[i] = c[i] /\ d[i] = c[i] /\ (p \o q)[i] = p[i]
      BY <1>0, <1>1, <1>2, <1>4, <2>1, <3>1
    <3> QED BY <3>2
  <2>2. CASE i > u
    <3>1. i - u \in 1 .. n /\ u + (i - u) = i
      BY <2>2
    <3>2. a[i] = d[i] /\ d[u + (i - u)] = s[t + (i - u)] /\ q[i - u] = s[t + (i - u)]
      BY <1>0, <1>1, <1>3, <3>1
    <3>3. (p \o q)[i] = q[i - u]
      BY <1>2, <1>4, <2>2
    <3> QED BY <3>1, <3>2, <3>3
  <2>3. i <= u \/ i > u
    OBVIOUS
  <2> QED BY <2>1, <2>2, <2>3
<1> DEFINE b == p \o q
<1> HIDE DEF b
<1>6. b \in Seq(Byte) /\ Len(a) = Len(b) /\ \A i \in 1 .. Len(a) : a[i] = b[i]
  BY <1>1, <1>4, <1>5 DEF b
<1>7. a = b
  BY <1>1, <1>6, SeqEqual
<1> QED BY <1>7 DEF a, b, p, q, StartsWithBoth

-----------------------------------------------------------------------------
(* The inductive invariant: where the data of the block end, and that the  *)
(* lines returned and these data are the bytes read.                       *)
Kept(ls, c, u) == TextOf(ls) \o SubSeq(c, 1, u)
EndsWithNUL(c, u) ==
  u > 0 => u < Len(c) /\ c[u + 1] = NUL /\ \A i \in 1 .. u : c[i] >= EOL

LineTypeOK ==
  /\ sent \in Seq(Nat) /\ taken \in 0 .. Len(sent)
  /\ buf_content \in Seq(Byte) /\ buf_used \in 0 .. Len(buf_content)
  /\ lines \in Seq(Seq(Byte)) /\ TextOf(lines) \in Seq(Byte)

LineInv ==
  /\ LineTypeOK
  /\ EndsWithNUL(buf_content, buf_used)
  /\ Kept(lines, buf_content, buf_used) = SubSeq(sent, 1, taken)

LEMMA LineInvInit == LineBufferInit => LineInv
<1> SUFFICES ASSUME LineBufferInit PROVE LineInv
  OBVIOUS
<1> USE DEF LineBufferInit
<1>1. TextOf(lines) = <<>>
  BY TextOfNothing
<1>2. LineTypeOK
  <2>1. <<>> \in Seq(Nat) /\ <<>> \in Seq(Byte) /\ <<>> \in Seq(Seq(Byte)) /\ Len(<<>>) = 0
    BY EmptySeq
  <2>2. sent \in Seq(Nat) /\ taken \in 0 .. Len(sent)
    BY <2>1
  <2>3. buf_content \in Seq(Byte) /\ buf_used \in 0 .. Len(buf_content)
    BY <2>1
  <2>4. lines \in Seq(Seq(Byte)) /\ TextOf(lines) \in Seq(Byte)
    BY <1>1, <2>1
  <2> QED BY <2>2, <2>3, <2>4 DEF LineTypeOK
<1>3. EndsWithNUL(buf_content, buf_used)
  BY DEF EndsWithNUL
<1>4. SubSeq(<<>>, 1, 0) = <<>> /\ SubSeq(sent, 1, taken) = <<>>
  BY SubSeqEmpty
<1>5. Kept(lines, buf_content, buf_used) = <<>>
  BY <1>1, <1>4, EmptySeq, ConcatEmptySeq DEF Kept
<1> QED BY <1>2, <1>3, <1>4, <1>5 DEF LineInv

(* The peer only adds to what it has sent.                                 *)
LEMMA SendingKeeps == ASSUME LineInv, PeerSends PROVE LineInv'
<1>1. PICK b \in {EOL, Len(sent) + 1} : sent' = Append(sent, b)
  BY DEF PeerSends
<1>2. sent \in Seq(Nat) /\ Len(sent) \in Nat /\ b \in Nat
  BY <1>1 DEF LineInv, LineTypeOK, EOL
<1>3. /\ sent' \in Seq(Nat) /\ Len(sent') = Len(sent) + 1
      /\ \A i \in 1 .. Len(sent) : sent'[i] = sent[i]
  BY <1>1, <1>2, AppendProperties
<1>4. UNCHANGED <<taken, buf_content, buf_used, lines>>
  BY DEF PeerSends, bufferVars
<1>5. taken \in Nat /\ taken <= Len(sent) /\ taken <= Len(sent')
  BY <1>2, <1>3 DEF LineInv, LineTypeOK
<1>6. SubSeq(sent', 1, taken) = SubSeq(sent, 1, taken)
  <2>1. \A i \in 1 .. taken : sent'[i] = sent[i]
    BY <1>2, <1>3, <1>5
  <2> QED BY <1>2, <1>3, <1>5, <2>1, SameStart
<1>7. taken' \in 0 .. Len(sent')
  BY <1>4, <1>5
<1> QED BY <1>3, <1>4, <1>6, <1>7 DEF LineInv, LineTypeOK

(* The block into which lineBuffer_add reads starts with the data, and has *)
(* room for a chunk.                                                       *)
LEMMA BlockToFillIs ==
  ASSUME LineTypeOK, BlockToFill # NoRoom
  PROVE  /\ BlockToFill \in Seq(Byte)
         /\ Len(BlockToFill) >= Len(buf_content)
         /\ Len(BlockToFill) - buf_used >= bufferChunkSize
         /\ \A i \in 1 .. buf_used : BlockToFill[i] = buf_content[i]
         /\ buf_used + 1 <= Len(buf_content) =>
              BlockToFill[buf_used + 1] = buf_content[buf_used + 1]
<1>1. /\ buf_content \in Seq(Byte) /\ Len(buf_content) \in Nat
      /\ buf_used \in Nat /\ buf_used <= Len(buf_content)
  BY DEF LineTypeOK
<1>2. bufferChunkSize \in Nat /\ bufferMaxSize \in Nat
  BY LineBufferAssumption
<1>3. CASE Len(buf_content) - buf_used < bufferChunkSize
  <2> DEFINE more == [i \in 1 .. bufferChunkSize |-> Junk]
  <2>1. BlockToFill = buf_content \o more
    BY <1>3 DEF BlockToFill, Allocate, buf_size
  <2>2. more \in Seq(Byte) /\ Len(more) = bufferChunkSize
    BY <1>2 DEF Junk, Byte
  <2> HIDE DEF more
  <2>3. /\ BlockToFill \in Seq(Byte)
        /\ Len(BlockToFill) = Len(buf_content) + bufferChunkSize
        /\ \A i \in 1 .. Len(buf_content) : BlockToFill[i] = buf_content[i]
    <3>1. /\ buf_content \o more \in Seq(Byte)
          /\ Len(buf_content \o more) = Len(buf_content) + bufferChunkSize
          /\ \A i \in 1 .. Len(buf_content) + bufferChunkSize : (buf_content \o more)[i]
                = IF i <= Len(buf_content) THEN buf_content[i] ELSE more[i - Len(buf_content)]
      BY <1>1, <2>2, ConcatProperties
    <3>2. \A i \in 1 .. Len(buf_content) : i \in 1 .. Len(buf_content) + bufferChunkSize
      BY <1>1, <1>2
    <3> QED BY <2>1, <3>1, <3>2
  <2> QED BY <1>1, <1>2, <2>3
<1>4. CASE ~(Len(buf_content) - buf_used < bufferChunkSize)
  BY <1>1, <1>2, <1>4 DEF BlockToFill, buf_size
<1> QED BY <1>3, <1>4

(* The call returns: the block may have grown.                             *)
LEMMA ReturningKeeps == ASSUME LineInv, AddReturns PROVE LineInv'
<1>1. UNCHANGED <<sent, taken, lines, buf_used>>
  BY DEF AddReturns, socketVars
<1>2. CASE UNCHANGED buf_content
  BY <1>1, <1>2 DEF LineInv, LineTypeOK
<1>3. CASE BlockToFill # NoRoom /\ buf_content' = BlockToFill
  <2>1. /\ buf_content \in Seq(Byte) /\ Len(buf_content) \in Nat
        /\ buf_used \in Nat /\ buf_used <= Len(buf_content)
    BY DEF LineInv, LineTypeOK
  <2>2. /\ buf_content' \in Seq(Byte) /\ Len(buf_content') >= Len(buf_content)
        /\ \A i \in 1 .. buf_used : buf_content'[i] = buf_content[i]
        /\ buf_used + 1 <= Len(buf_content) =>
             buf_content'[buf_used + 1] = buf_content[buf_used + 1]
    BY <1>3, BlockToFillIs DEF LineInv
  <2>3. Len(buf_content') \in Nat /\ buf_used \in 0 .. Len(buf_content')
    BY <2>1, <2>2
  <2>4. SubSeq(buf_content', 1, buf_used) = SubSeq(buf_content, 1, buf_used)
    BY <2>1, <2>2, <2>3, SameStart
  <2>5. EndsWithNUL(buf_content', buf_used)
    <3> SUFFICES ASSUME buf_used > 0 PROVE EndsWithNUL(buf_content', buf_used)
      BY DEF EndsWithNUL
    <3>1. /\ buf_used < Len(buf_content) /\ buf_content[buf_used + 1] = NUL
          /\ \A i \in 1 .. buf_used : buf_content[i] >= EOL
      BY DEF LineInv, EndsWithNUL
    <3>2. buf_used < Len(buf_content') /\ buf_content'[buf_used + 1] = NUL
      BY <2>1, <2>2, <2>3, <3>1
    <3>3. \A i \in 1 .. buf_used : buf_content'[i] >= EOL
      BY <2>2, <3>1
    <3> QED BY <3>2, <3>3 DEF EndsWithNUL
  <2> QED BY <1>1, <2>2, <2>3, <2>4, <2>5 DEF LineInv, LineTypeOK, Kept
<1> QED BY <1>2, <1>3 DEF AddReturns

(* What is written over a block, and what is left as it was.               *)
LEMMA OverwriteIs ==
  ASSUME NEW block \in Seq(Byte), NEW u \in Nat, NEW s \in Seq(Byte),
         u + Len(s) <= Len(block)
  PROVE  /\ Overwrite(block, u + 1, s) \in Seq(Byte)
         /\ Len(Overwrite(block, u + 1, s)) = Len(block)
         /\ \A i \in 1 .. u : Overwrite(block, u + 1, s)[i] = block[i]
         /\ \A i \in 1 .. Len(s) : Overwrite(block, u + 1, s)[u + i] = s[i]
<1> DEFINE h(i) == IF i \in u + 1 .. u + 1 + Len(s) - 1 THEN s[i - (u + 1) + 1] ELSE block[i]
           o == [i \in 1 .. Len(block) |-> h(i)]
<1>1. Len(block) \in Nat /\ Len(s) \in Nat
  BY LenProperties
<1>2. Overwrite(block, u + 1, s) = o
  BY DEF Overwrite
<1>3. ASSUME NEW i \in 1 .. Len(block) PROVE h(i) \in Byte
  <2>1. CASE i \in u + 1 .. u + 1 + Len(s) - 1
    <3>1. i - (u + 1) + 1 \in 1 .. Len(s)
      BY <1>1, <2>1
    <3>2. s[i - (u + 1) + 1] \in Byte
      BY <3>1, ElementOfSeq
    <3> QED BY <2>1, <3>2
  <2>2. CASE ~(i \in u + 1 .. u + 1 + Len(s) - 1)
    BY <2>2, ElementOfSeq
  <2> QED BY <2>1, <2>2
<1>4. ASSUME NEW i \in 1 .. u PROVE i \in 1 .. Len(block) /\ h(i) = block[i]
  BY <1>1
<1>5. ASSUME NEW i \in 1 .. Len(s) PROVE u + i \in 1 .. Len(block) /\ h(u + i) = s[i]
  <2>1. u + i \in u + 1 .. u + 1 + Len(s) - 1 /\ (u + i) - (u + 1) + 1 = i
    BY <1>1
  <2> QED BY <1>1, <2>1
<1>6. o \in [1 .. Len(block) -> Byte]
  <2> HIDE DEF h
  <2> QED BY <1>3
<1>7. /\ \A i \in 1 .. u : o[i] = block[i]
      /\ \A i \in 1 .. Len(s) : o[u + i] = s[i]
  <2> HIDE DEF h
  <2> QED BY <1>4, <1>5
<1> HIDE DEF o
<1>8. o \in Seq(Byte) /\ Len(o) = Len(block)
  BY <1>1, <1>6
<1> QED BY <1>2, <1>7, <1>8

(* read() puts the next bytes of the peer behind the data.                 *)
LEMMA ReadingKeeps == ASSUME LineInv, AddReads PROVE LineInv'
<1> DEFINE B == BlockToFill
<1> DEFINE room == Len(B) - buf_used - 1
<1> DEFINE n == IF Len(sent) - taken < room THEN Len(sent) - taken ELSE room
<1>1. /\ taken < Len(sent) /\ B # NoRoom /\ UNCHANGED <<sent, lines>>
      /\ taken' = taken + n /\ buf_used' = buf_used + n
      /\ buf_content' = Overwrite(B, buf_used + 1, SubSeq(sent, taken + 1, taken + n) \o <<NUL>>)
  BY DEF AddReads
<1>2. /\ sent \in Seq(Nat) /\ Len(sent) \in Nat /\ taken \in Nat
      /\ buf_content \in Seq(Byte) /\ Len(buf_content) \in Nat
      /\ buf_used \in Nat /\ buf_used <= Len(buf_content)
  BY DEF LineInv, LineTypeOK
<1>3. /\ B \in Seq(Byte) /\ Len(B) \in Nat /\ Len(B) >= Len(buf_content)
      /\ Len(B) - buf_used >= bufferChunkSize
      /\ \A i \in 1 .. buf_used : B[i] = buf_content[i]
  BY <1>1, BlockToFillIs, LenProperties DEF LineInv
<1> HIDE DEF B
<1>4. /\ n \in Nat /\ n >= 1 /\ taken + n <= Len(sent)
      /\ buf_used + n + 1 <= Len(B)
  <2>1. bufferChunkSize \in Nat /\ bufferChunkSize >= 2
    BY LineBufferAssumption
  <2>2. room \in Nat /\ room >= 1 /\ buf_used + room + 1 = Len(B)
    BY <1>2, <1>3, <2>1
  <2> HIDE DEF room
  <2>3. Len(sent) - taken \in Nat /\ Len(sent) - taken >= 1
    BY <1>1, <1>2
  <2>4. n \in Nat /\ n >= 1 /\ n <= Len(sent) - taken /\ n <= room
    BY <2>2, <2>3
  <2> HIDE DEF n
  <2> QED BY <1>2, <1>3, <2>2, <2>4
<1> HIDE DEF n
<1> DEFINE q == SubSeq(sent, taken + 1, taken + n)
<1>5. /\ q \in Seq(Byte) /\ Len(q) = n
      /\ \A i \in 1 .. n : q[i] = sent[taken + i]
  <2> DEFINE lo == taken + 1
             hi == taken + n
  <2>1. /\ lo \in Int /\ hi \in Int /\ hi - lo + 1 = n /\ lo <= hi
        /\ \A i \in 1 .. n : lo + i - 1 = taken + i
    BY <1>2, <1>4
  <2>2. \A i \in lo .. hi : sent[i] \in Byte
    <3>1. \A i \in lo .. hi : i \in 1 .. Len(sent)
      BY <1>2, <1>4
    <3>2. \A i \in 1 .. Len(sent) : sent[i] \in Nat
      BY <1>2, ElementOfSeq
    <3> HIDE DEF lo, hi
    <3> QED BY <3>1, <3>2 DEF Byte
  <2>3. q = SubSeq(sent, lo, hi)
    OBVIOUS
  <2> HIDE DEF lo, hi, q
  <2>4. /\ q \in Seq(Byte) /\ Len(q) = IF lo <= hi THEN hi - lo + 1 ELSE 0
        /\ \A i \in 1 .. hi - lo + 1 : q[i] = sent[lo + i - 1]
    BY <2>1, <2>2, <2>3, SubSeqProperties
  <2> QED BY <2>1, <2>4
<1> DEFINE s == q \o <<NUL>>
<1>6. /\ s \in Seq(Byte) /\ Len(s) = n + 1 /\ s[n + 1] = NUL
      /\ \A i \in 1 .. n : s[i] = sent[taken + i]
  <2> HIDE DEF q
  <2>1. <<NUL>> \in Seq(Byte) /\ Len(<<NUL>>) = 1 /\ <<NUL>>[1] = NUL
    BY DEF NUL, Byte
  <2>2. /\ s \in Seq(Byte) /\ Len(s) = Len(q) + 1
        /\ \A i \in 1 .. Len(q) + 1 : s[i] = IF i <= Len(q) THEN q[i] ELSE <<NUL>>[i - Len(q)]
    BY <1>5, <2>1, ConcatProperties
  <2> HIDE DEF s
  <2>3. s[n + 1] = NUL
    BY <1>4, <1>5, <2>1, <2>2
  <2> QED BY <1>4, <1>5, <2>2, <2>3
<1>7. buf_content' = Overwrite(B, buf_used + 1, s)
  BY <1>1
<1> HIDE DEF s, q
<1>8. /\ buf_content' \in Seq(Byte) /\ Len(buf_content') = Len(B)
      /\ \A i \in 1 .. buf_used : buf_content'[i] = B[i]
      /\ \A i \in 1 .. Len(s) : buf_content'[buf_used + i] = s[i]
  <2>1. buf_used + Len(s) <= Len(B)
    BY <1>2, <1>4, <1>6
  <2>2. /\ Overwrite(B, buf_used + 1, s) \in Seq(Byte)
        /\ Len(Overwrite(B, buf_used + 1, s)) = Len(B)
        /\ \A i \in 1 .. buf_used : Overwrite(B, buf_used + 1, s)[i] = B[i]
        /\ \A i \in 1 .. Len(s) : Overwrite(B, buf_used + 1, s)[buf_used + i] = s[i]
    BY <1>2, <1>3, <1>6, <2>1, OverwriteIs
  <2> QED BY <1>7, <2>2
<1>9. \A i \in 1 .. n : buf_content'[buf_used + i] = sent[taken + i]
  <2>1. \A i \in 1 .. n : i \in 1 .. Len(s)
    BY <1>4, <1>6
  <2> QED BY <1>6, <1>8, <2>1
<1>10. \A i \in 1 .. buf_used : buf_content'[i] = buf_content[i]
  BY <1>3, <1>8
<1>11. buf_content'[buf_used + n + 1] = NUL
  <2>1. n + 1 \in 1 .. Len(s) /\ buf_used + (n + 1) = buf_used + n + 1
    BY <1>2, <1>4, <1>6
  <2> QED BY <1>6, <1>8, <2>1
<1>12. LineTypeOK'
  <2>1. taken' \in 0 .. Len(sent') /\ buf_used' \in 0 .. Len(buf_content')
    BY <1>1, <1>2, <1>3, <1>4, <1>8
  <2> QED BY <1>1, <1>8, <2>1 DEF LineInv, LineTypeOK
<1>13. EndsWithNUL(buf_content', buf_used')
  <2>1. ASSUME NEW i \in 1 .. buf_used + n PROVE buf_content'[i] >= EOL
    <3>1. CASE i <= buf_used
      <4>1. i \in 1 .. buf_used
        BY <1>2, <3>1
      <4>2. buf_content[i] >= EOL
        BY <1>2, <4>1 DEF LineInv, EndsWithNUL
      <4> QED BY <1>10, <4>1, <4>2
    <3>2. CASE i > buf_used
      <4>1. i - buf_used \in 1 .. n /\ buf_used + (i - buf_used) = i
        BY <1>2, <1>4, <3>2
      <4>2. taken + (i - buf_used) \in 1 .. Len(sent)
        BY <1>2, <1>4, <4>1
      <4>3. sent[taken + (i - buf_used)] \in Nat
        BY <1>2, <4>2, ElementOfSeq
      <4>4. buf_content'[i] = sent[taken + (i - buf_used)]
        BY <1>9, <4>1
      <4> QED BY <4>3, <4>4 DEF EOL
    <3>3. i <= buf_used \/ i > buf_used
      BY <1>2
    <3> QED BY <3>1, <3>2, <3>3
  <2>2. buf_used + n < Len(buf_content')
    BY <1>2, <1>3, <1>4, <1>8
  <2> QED BY <1>1, <1>11, <2>1, <2>2 DEF EndsWithNUL
<1>14. Kept(lines', buf_content', buf_used') = SubSeq(sent', 1, taken')
  <2> DEFINE T == TextOf(lines)
             c == SubSeq(buf_content, 1, buf_used)
             r == SubSeq(sent, 1, taken)
             d == SubSeq(buf_content', 1, buf_used + n)
  <2>1. T \o c = r /\ T \in Seq(Byte)
    BY DEF LineInv, LineTypeOK, Kept
  <2>2. sent \in Seq(Byte)
    BY <1>2, SeqMonotonic DEF Byte
  <2>3. d = c \o q
    <3>1. buf_used + n <= Len(buf_content') /\ taken + n <= Len(sent)
      BY <1>2, <1>3, <1>4, <1>8
    <3>2. HoldsBoth(buf_content', buf_content, buf_used, sent, taken, n)
      BY <1>2, <1>4, <1>9, <1>10, <3>1 DEF HoldsBoth
    <3>3. SubSeq(buf_content', 1, buf_used + n)
            = SubSeq(buf_content, 1, buf_used) \o SubSeq(sent, taken + 1, taken + n)
      <4>1. StartsWithBoth(buf_content', buf_content, buf_used, sent, taken, n)
        BY <1>2, <1>4, <1>8, <2>2, <3>2, StartAndMore
      <4> QED BY <4>1 DEF StartsWithBoth
    <3> QED BY <3>3 DEF q
  <2>4. c \in Seq(Byte)
    <3>1. \A i \in 1 .. buf_used : buf_content[i] \in Byte
      BY <1>2, ElementOfSeq
    <3> QED BY <1>2, <3>1, SubSeqProperties
  <2>5. r \o q = SubSeq(sent, 1, taken + n)
    <3>1. /\ 1 \in 1 .. Len(sent) + 1 /\ taken \in 1 - 1 .. Len(sent)
          /\ taken + n \in taken .. Len(sent)
      BY <1>2, <1>4
    <3> QED BY <1>2, <3>1, ConcatAdjacentSubSeq DEF q
  <2>6. Kept(lines', buf_content', buf_used') = T \o d
    BY <1>1 DEF Kept
  <2> HIDE DEF T, c, r, d
  <2>7. T \in Seq(Byte) /\ c \in Seq(Byte) /\ q \in Seq(Byte)
    BY <1>5, <2>1, <2>4 DEF q
  <2>8. (T \o c) \o q = T \o (c \o q)
    BY <2>7, ConcatAssociative
  <2> QED BY <1>1, <2>1, <2>3, <2>5, <2>6, <2>8
<1> QED BY <1>12, <1>13, <1>14 DEF LineInv

(* strchr stops at the NUL behind the data if it meets no end of line.     *)
LEMMA EndOfLineIs ==
  ASSUME LineInv, buf_used > 0, EndOfLine # 0
  PROVE  EndOfLine \in 1 .. buf_used /\ buf_content[EndOfLine] = EOL
<1> DEFINE stop == {i \in 1 .. Len(buf_content) : buf_content[i] \in {EOL, NUL}}
           e == CHOOSE i \in stop : \A j \in stop : i <= j
<1>1. buf_used \in Nat /\ Len(buf_content) \in Nat
  BY LenProperties DEF LineInv, LineTypeOK
<1>2. buf_used < Len(buf_content) /\ buf_content[buf_used + 1] = NUL
  BY DEF LineInv, EndsWithNUL
<1>3. buf_used + 1 \in stop
  BY <1>1, <1>2
<1>4. stop # {} /\ EndOfLine = IF buf_content[e] = EOL THEN e ELSE 0
  BY <1>3 DEF EndOfLine, buf_size
<1>5. e \in stop /\ \A j \in stop : e <= j
  <2>1. stop \in SUBSET Nat
    OBVIOUS
  <2>2. \E x \in stop : \A y \in stop : x <= y
    BY <1>3, <2>1, LeastNatural
  <2> HIDE DEF stop
  <2> QED BY <2>2
<1>6. e \in 1 .. Len(buf_content)
  BY <1>5
<1>7. e <= buf_used + 1
  BY <1>3, <1>5
<1> HIDE DEF e, stop
<1>8. EndOfLine = e /\ buf_content[e] = EOL
  BY <1>4
<1>9. e # buf_used + 1
  BY <1>2, <1>8 DEF EOL, NUL
<1>10. e \in 1 .. buf_used
  BY <1>1, <1>6, <1>7, <1>9
<1> QED BY <1>8, <1>10

(* A line given away and what is left are the data there were.             *)
LEMMA TakingKeeps == ASSUME LineInv, GetLine PROVE LineInv'
<1> DEFINE e == EndOfLine
           c == buf_content
           L == SubSeq(c, 1, e - 1)
           T == TextOf(lines)
<1>1. /\ buf_used > 0 /\ e # 0 /\ lines' = Append(lines, L)
      /\ UNCHANGED <<sent, taken>>
      /\ IF e = buf_used THEN buf_content' = <<>> /\ buf_used' = 0
         ELSE /\ buf_content' = SubSeq(c, e + 1, Len(c))
              /\ buf_used' = buf_used - e
  BY DEF GetLine, socketVars, buf_size
<1>2. /\ c \in Seq(Byte) /\ Len(c) \in Nat /\ buf_used \in Nat /\ buf_used < Len(c)
      /\ c[buf_used + 1] = NUL /\ \A i \in 1 .. buf_used : c[i] >= EOL
      /\ \A i \in 1 .. Len(c) : c[i] \in Byte
      /\ lines \in Seq(Seq(Byte)) /\ T \in Seq(Byte)
      /\ sent \in Seq(Nat) /\ taken \in 0 .. Len(sent)
      /\ T \o SubSeq(c, 1, buf_used) = SubSeq(sent, 1, taken)
  BY <1>1, LenProperties, ElementOfSeq, SMTT(30) DEF LineInv, LineTypeOK, EndsWithNUL, Kept
<1>3. e \in 1 .. buf_used /\ c[e] = EOL
  BY <1>1, EndOfLineIs
<1> HIDE DEF e, c
<1>4. e \in Nat /\ e >= 1 /\ e <= buf_used /\ e <= Len(c)
  BY <1>2, <1>3
<1>5. L \in Seq(Byte) /\ SubSeq(c, 1, e) \in Seq(Byte)
  <2>1. (\A i \in 1 .. e - 1 : c[i] \in Byte) /\ (\A i \in 1 .. e : c[i] \in Byte)
    BY <1>2, <1>4, SMTT(30)
  <2>2. e - 1 \in Int /\ e \in Int
    BY <1>4
  <2> QED BY <2>1, <2>2, SubSeqProperties
<1>6. L \o <<EOL>> = SubSeq(c, 1, e)
  <2>1. 1 \in 1 .. Len(c) /\ e \in 1 .. Len(c)
    BY <1>2, <1>4
  <2>2. SubSeq(c, 1, e) = SubSeq(c, 1, e - 1) \o <<c[e]>>
    BY <1>2, <2>1, SubSeqRecursiveSecond
  <2> QED BY <1>3, <2>2
<1> DEFINE p == SubSeq(c, 1, e)
           r == SubSeq(c, e + 1, buf_used)
<1>7. /\ r \in Seq(Byte) /\ p \o r = SubSeq(c, 1, buf_used)
  <2>1. \A i \in e + 1 .. buf_used : c[i] \in Byte
    BY <1>2, <1>4
  <2>2. e + 1 \in Int /\ buf_used \in Int
    BY <1>2, <1>4
  <2>3. r \in Seq(Byte)
    BY <2>1, <2>2, SubSeqProperties
  <2>4. 1 \in 1 .. Len(c) + 1 /\ e \in 1 - 1 .. Len(c) /\ buf_used \in e .. Len(c)
    BY <1>2, <1>4
  <2>5. p \o r = SubSeq(c, 1, buf_used)
    BY <1>2, <2>4, ConcatAdjacentSubSeq
  <2> QED BY <2>3, <2>5
<1>8. TextOf(lines') = (T \o L) \o <<EOL>>
  BY <1>1, <1>2, <1>5, TextOfAppend
<1>9. <<EOL>> \in Seq(Byte)
  BY DEF EOL, Byte
<1>10. lines' \in Seq(Seq(Byte))
  BY <1>1, <1>2, <1>5, AppendProperties
<1>11. p \in Seq(Byte)
  BY <1>5
<1> HIDE DEF L, T, p, r
<1>12. TextOf(lines') = T \o p /\ T \o p \in Seq(Byte)
  <2>1. (T \o L) \o <<EOL>> = T \o (L \o <<EOL>>)
    <3>1. T \in Seq(Byte) /\ L \in Seq(Byte) /\ <<EOL>> \in Seq(Byte)
      BY <1>2, <1>5, <1>9 DEF T, L
    <3> DEFINE end == <<EOL>>
    <3> HIDE DEF end
    <3>2. (T \o L) \o end = T \o (L \o end)
      BY <3>1, ConcatAssociative DEF end
    <3> QED BY <3>2 DEF end
  <2>2. L \o <<EOL>> = p
    BY <1>6 DEF p
  <2>3. T \o p \in Seq(Byte)
    BY <1>2, <1>11, ConcatProperties
  <2> QED BY <1>8, <2>1, <2>2, <2>3
<1>13. (T \o p) \o r = SubSeq(sent', 1, taken')
  <2>1. (T \o p) \o r = T \o (p \o r)
    <3>1. T \in Seq(Byte) /\ p \in Seq(Byte) /\ r \in Seq(Byte)
      BY <1>2, <1>7, <1>11
    <3> QED BY <3>1, ConcatAssociative
  <2> QED BY <1>1, <1>2, <1>7, <2>1
<1>14. CASE e = buf_used
  <2>1. buf_content' = <<>> /\ buf_used' = 0
    BY <1>1, <1>14
  <2>2. r = <<>>
    <3>1. SubSeq(c, e + 1, buf_used) = <<>>
      BY <1>2, <1>4, <1>14, SubSeqEmpty
    <3> QED BY <3>1 DEF r
  <2>3. T \o p = SubSeq(sent', 1, taken')
    BY <1>12, <1>13, <2>2, ConcatEmptySeq
  <2>4. SubSeq(<<>>, 1, 0) = <<>> /\ <<>> \in Seq(Byte) /\ Len(<<>>) = 0
    BY SubSeqEmpty, EmptySeq
  <2>5. Kept(lines', buf_content', buf_used') = T \o p
    BY <1>12, <2>1, <2>4, ConcatEmptySeq DEF Kept
  <2>6. EndsWithNUL(buf_content', buf_used')
    BY <2>1 DEF EndsWithNUL
  <2>7. buf_content' \in Seq(Byte) /\ buf_used' \in 0 .. Len(buf_content')
    BY <2>1, <2>4
  <2>8. LineTypeOK'
    BY <1>1, <1>2, <1>10, <1>12, <2>7 DEF LineTypeOK
  <2> QED BY <2>3, <2>5, <2>6, <2>8 DEF LineInv
<1>15. CASE e # buf_used
  <2> DEFINE d == SubSeq(c, e + 1, Len(c))
             m == Len(c) - e
  <2>1. buf_content' = d /\ buf_used' = buf_used - e
    BY <1>1, <1>15
  <2>2. /\ d \in Seq(Byte) /\ Len(d) = m
        /\ \A i \in 1 .. m : d[i] = c[e + i]
    <3> DEFINE lo == e + 1
               hi == Len(c)
    <3>1. /\ lo \in Int /\ hi \in Int /\ hi - lo + 1 = m /\ lo <= hi
          /\ \A i \in 1 .. m : lo + i - 1 = e + i
      BY <1>2, <1>4
    <3>2. \A i \in lo .. hi : c[i] \in Byte
      BY <1>2, <1>4
    <3>3. d = SubSeq(c, lo, hi)
      OBVIOUS
    <3> HIDE DEF lo, hi, d, m
    <3>4. /\ d \in Seq(Byte) /\ Len(d) = IF lo <= hi THEN hi - lo + 1 ELSE 0
          /\ \A i \in 1 .. hi - lo + 1 : d[i] = c[lo + i - 1]
      BY <3>1, <3>2, <3>3, SubSeqProperties
    <3> QED BY <3>1, <3>4
  <2>3. /\ m \in Nat /\ buf_used - e \in Nat /\ buf_used - e < m
        /\ (buf_used - e) + 1 \in 1 .. m /\ e + ((buf_used - e) + 1) = buf_used + 1
        /\ \A i \in 1 .. buf_used - e : i \in 1 .. m /\ e + i \in 1 .. buf_used
    BY <1>2, <1>4, <1>15
  <2> HIDE DEF d, m
  <2>4. EndsWithNUL(d, buf_used - e)
    <3>1. d[(buf_used - e) + 1] = NUL
      BY <1>2, <2>2, <2>3
    <3>2. \A i \in 1 .. buf_used - e : d[i] >= EOL
      BY <1>2, <2>2, <2>3
    <3> QED BY <2>2, <2>3, <3>1, <3>2 DEF EndsWithNUL
  <2>5. SubSeq(d, 1, buf_used - e) = r
    <3> DEFINE u == buf_used - e
               a == SubSeq(d, 1, u)
    <3>1. \A i \in 1 .. u : d[i] \in Byte
      BY <2>2, <2>3, ElementOfSeq
    <3>2. u \in Nat /\ u \in Int
      BY <2>3
    <3> HIDE DEF u
    <3>3. a \in Seq(Byte) /\ Len(a) = u /\ \A i \in 1 .. u : a[i] = d[i]
      BY <3>1, <3>2, SubSeqProperties
    <3>4. Len(r) = u /\ \A i \in 1 .. u : r[i] = c[e + i]
      <4> DEFINE lo == e + 1
                 hi == buf_used
      <4>1. /\ lo \in Int /\ hi \in Int /\ hi - lo + 1 = u /\ (lo <= hi <=> 1 <= u)
            /\ \A i \in 1 .. u : lo + i - 1 = e + i
        BY <1>2, <1>4 DEF u
      <4>2. \A i \in lo .. hi : c[i] \in Byte
        BY <1>2, <1>4
      <4>3. r = SubSeq(c, lo, hi)
        BY DEF r
      <4> HIDE DEF lo, hi
      <4>4. /\ Len(r) = IF lo <= hi THEN hi - lo + 1 ELSE 0
            /\ \A i \in 1 .. hi - lo + 1 : r[i] = c[lo + i - 1]
        BY <4>1, <4>2, <4>3, SubSeqProperties
      <4> QED BY <3>2, <4>1, <4>4
    <3>5. \A i \in 1 .. u : d[i] = c[e + i]
      BY <2>2, <2>3 DEF u
    <3> HIDE DEF a
    <3>6. a \in Seq(Byte) /\ r \in Seq(Byte) /\ Len(a) = Len(r)
          /\ \A i \in 1 .. Len(a) : a[i] = r[i]
      BY <1>7, <3>3, <3>4, <3>5
    <3>7. a = r
      BY <3>6, SeqEqual
    <3> QED BY <3>7 DEF a, u
  <2>6. Kept(lines', buf_content', buf_used') = (T \o p) \o r
    BY <1>12, <2>1, <2>5 DEF Kept
  <2>7. EndsWithNUL(buf_content', buf_used')
    BY <2>1, <2>4
  <2>8. buf_content' \in Seq(Byte) /\ buf_used' \in 0 .. Len(buf_content')
    BY <2>1, <2>2, <2>3
  <2>9. LineTypeOK'
    BY <1>1, <1>2, <1>10, <1>12, <2>8 DEF LineTypeOK
  <2> QED BY <1>13, <2>6, <2>7, <2>9 DEF LineInv
<1> QED BY <1>14, <1>15

(* The invariant of the line buffer: whatever the peer sends and closes,   *)
(* and in whatever pieces it is read, a step keeps LineInv.                *)
LEMMA LineInvStep == LineInv /\ [LineBufferNext]_lineVars => LineInv'
<1> SUFFICES ASSUME LineInv, [LineBufferNext]_lineVars PROVE LineInv'
  OBVIOUS
<1>1. CASE PeerSends
  BY <1>1, SendingKeeps
<1>2. CASE PeerCloses
  BY <1>2 DEF PeerCloses, bufferVars, LineInv, LineTypeOK
<1>3. CASE AddStarts
  BY <1>3 DEF AddStarts, socketVars, bufferVars, LineInv, LineTypeOK
<1>4. CASE AddReads
  BY <1>4, ReadingKeeps
<1>5. CASE AddReturns
  BY <1>5, ReturningKeeps
<1>6. CASE GetLine
  BY <1>6, TakingKeeps
<1>7. CASE UNCHANGED lineVars
  BY <1>7 DEF lineVars, socketVars, bufferVars, LineInv, LineTypeOK
<1> QED BY <1>1, <1>2, <1>3, <1>4, <1>5, <1>6, <1>7 DEF LineBufferNext

(* lineBuffer_add and lineBuffer_getLine lose, cut and glue nothing:       *)
(* whatever the size of the chunks and of the block, and however the bytes *)
(* of the server arrive, the lines returned and the data left in the       *)
(* buffer are the bytes read, in order.                                    *)
THEOREM LinesAreTheBytes == LineBufferSpec => []LinesInOrder
<1>1. LineBufferInit => LineInv
  BY LineInvInit
<1>2. LineInv /\ [LineBufferNext]_lineVars => LineInv'
  BY LineInvStep
<1>3. LineInv => LinesInOrder
  BY DEF LineInv, EndsWithNUL, Kept, LinesInOrder, DataEndsWithNUL, buf_size
<1> QED BY <1>1, <1>2, <1>3, PTL DEF LineBufferSpec

-----------------------------------------------------------------------------
(* The text of a message.                                                 *)
(* What the loop of Split has gathered from the first n characters of t.   *)
SplitLoop(t, x, n, f) ==
  f = [i \in 0 .. n |-> IF i = 0 THEN <<<<>>>> ELSE Gather(f[i - 1], t[i], x)]

(* It goes on to the next character.                                       *)
LEMMA SplitLoopGoesOn ==
  ASSUME NEW t, NEW x, NEW n \in Nat, NEW f, SplitLoop(t, x, n, f)
  PROVE  \E g : SplitLoop(t, x, n + 1, g)
<1> DEFINE last == Gather(f[n], t[n + 1], x)
           g == [i \in 0 .. n + 1 |-> IF i = n + 1 THEN last ELSE f[i]]
<1>1. \A i \in 0 .. n : f[i] = IF i = 0 THEN <<<<>>>> ELSE Gather(f[i - 1], t[i], x)
  BY DEF SplitLoop
<1>2. g[n + 1] = last /\ \A i \in 0 .. n : g[i] = f[i]
  OBVIOUS
<1> DEFINE h(i) == IF i = 0 THEN <<<<>>>> ELSE Gather(g[i - 1], t[i], x)
<1>3. ASSUME NEW i \in 0 .. n + 1 PROVE (IF i = n + 1 THEN last ELSE f[i]) = h(i)
  <2>1. CASE i = n + 1
    <3>1. i # 0 /\ i - 1 = n /\ n \in 0 .. n
      BY <2>1
    <3>2. g[i - 1] = f[n]
      BY <1>2, <3>1
    <3> HIDE DEF g
    <3> QED BY <2>1, <3>1, <3>2
  <2>2. CASE i # n + 1
    <3>1. i \in 0 .. n /\ (i # 0 => i - 1 \in 0 .. n)
      BY <2>2
    <3>2. i # 0 => g[i - 1] = f[i - 1]
      BY <1>2, <3>1
    <3>3. f[i] = h(i)
      <4> HIDE DEF g
      <4> QED BY <1>1, <3>1, <3>2
    <3> QED BY <2>2, <3>3
  <2> QED BY <2>1, <2>2
<1>4. g = [i \in 0 .. n + 1 |-> h(i)]
  BY <1>3
<1>5. SplitLoop(t, x, n + 1, g)
  BY <1>4, Zenon DEF SplitLoop
<1> QED BY <1>5

(* So there is what it gathers from all of them.                           *)
LEMMA SplitLoopEnds ==
  ASSUME NEW t, NEW x, NEW n \in Nat
  PROVE  \E f : SplitLoop(t, x, n, f)
<1> DEFINE T == {m \in Nat : \E f : SplitLoop(t, x, m, f)}
<1>1. 0 \in T
  <2> DEFINE f == [i \in 0 .. 0 |-> <<<<>>>>]
  <2>1. SplitLoop(t, x, 0, f)
    BY DEF SplitLoop
  <2> QED BY <2>1
<1>2. \A m \in Nat : m \in T => m + 1 \in T
  BY SplitLoopGoesOn
<1> HIDE DEF T
<1>3. n \in T
  BY <1>1, <1>2, InductionOnNat
<1> QED BY <1>3 DEF T

(* It is decided by the characters, whatever follows them.                 *)
LEMMA SplitLoopUnique ==
  ASSUME NEW t, NEW u, NEW x, NEW n \in Nat, NEW m \in Nat, n <= m,
         NEW f, SplitLoop(t, x, n, f), NEW g, SplitLoop(u, x, m, g),
         \A i \in 1 .. n : t[i] = u[i]
  PROVE  f[n] = g[n]
<1> DEFINE T == {i \in Nat : i <= n => f[i] = g[i]}
<1>1. \A i \in 0 .. n : f[i] = IF i = 0 THEN <<<<>>>> ELSE Gather(f[i - 1], t[i], x)
  BY DEF SplitLoop
<1>2. \A i \in 0 .. m : g[i] = IF i = 0 THEN <<<<>>>> ELSE Gather(g[i - 1], u[i], x)
  BY DEF SplitLoop
<1>3. 0 \in T
  BY <1>1, <1>2
<1>4. ASSUME NEW i \in Nat, i \in T PROVE i + 1 \in T
  <2> SUFFICES ASSUME i + 1 <= n PROVE f[i + 1] = g[i + 1]
    OBVIOUS
  <2> DEFINE k == i + 1
  <2>1. k \in 1 .. n /\ k # 0 /\ k - 1 = i /\ k \in 0 .. n /\ k \in 0 .. m /\ i <= n
    OBVIOUS
  <2>2. f[i] = g[i]
    BY <1>4, <2>1
  <2> HIDE DEF k
  <2>3. f[k] = g[k]
    BY <1>1, <1>2, <2>1, <2>2
  <2> QED BY <2>3 DEF k
<1> HIDE DEF T
<1>5. n \in T
  BY <1>3, <1>4, InductionOnNat
<1> QED BY <1>5 DEF T

(* Split is what the loop has gathered at the end.                         *)
LEMMA SplitIs ==
  ASSUME NEW t, NEW x, Len(t) \in Nat
  PROVE  \E f : SplitLoop(t, x, Len(t), f) /\ Split(t, x) = f[Len(t)]
<1> DEFINE f == CHOOSE h : SplitLoop(t, x, Len(t), h)
<1>1. SplitLoop(t, x, Len(t), f)
  BY SplitLoopEnds
<1>2. Split(t, x) = f[Len(t)]
  BY Zenon DEF Split, SplitLoop
<1> QED BY <1>1, <1>2

(* Nothing is one empty part; a character more is gathered.                *)
LEMMA SplitNothing ==
  ASSUME NEW x
  PROVE  Split(<<>>, x) = <<<<>>>>
<1>1. Len(<<>>) = 0 /\ Len(<<>>) \in Nat
  OBVIOUS
<1>2. PICK f : SplitLoop(<<>>, x, 0, f) /\ Split(<<>>, x) = f[0]
  BY <1>1, SplitIs
<1>3. f[0] = <<<<>>>>
  BY <1>2 DEF SplitLoop
<1> QED BY <1>2, <1>3

LEMMA SplitMore ==
  ASSUME NEW C, NEW t \in Seq(C), NEW c \in C, NEW x
  PROVE  Split(Append(t, c), x) = Gather(Split(t, x), c, x)
<1> DEFINE u == Append(t, c)
           n == Len(t)
<1>1. /\ n \in Nat /\ Len(u) = n + 1 /\ u[n + 1] = c
      /\ \A i \in 1 .. n : t[i] = u[i]
  OBVIOUS
<1> HIDE DEF u, n
<1>2. PICK f : SplitLoop(t, x, n, f) /\ Split(t, x) = f[n]
  BY <1>1, SplitIs DEF n
<1>3. PICK g : SplitLoop(u, x, n + 1, g) /\ Split(u, x) = g[n + 1]
  <2>1. Len(u) \in Nat
    BY <1>1
  <2>2. \E g : SplitLoop(u, x, Len(u), g) /\ Split(u, x) = g[Len(u)]
    BY <2>1, SplitIs
  <2> QED BY <1>1, <2>2, Zenon
<1>4. f[n] = g[n]
  BY <1>1, <1>2, <1>3, SplitLoopUnique
<1>5. g[n + 1] = Gather(g[n], u[n + 1], x)
  <2>1. \A i \in 0 .. n + 1 : g[i] = IF i = 0 THEN <<<<>>>> ELSE Gather(g[i - 1], u[i], x)
    BY <1>3 DEF SplitLoop
  <2>2. n + 1 \in 0 .. n + 1 /\ n + 1 # 0 /\ (n + 1) - 1 = n
    BY <1>1
  <2> QED BY <2>1, <2>2
<1> QED BY <1>1, <1>2, <1>3, <1>4, <1>5 DEF u

-----------------------------------------------------------------------------
(* The parts are one at least, with the last one under way.                *)
Parts(C) == {p \in Seq(Seq(C)) : p # <<>>}
Ended(p, q) ==    \* the parts of p but its last one are the first of q
  /\ Len(p) <= Len(q)
  /\ \A i \in 1 .. Len(p) - 1 : q[i] = p[i]
WithLast(p, u) == [p EXCEPT ![Len(p)] = @ \o u]

(* A sequence with another last element.                                   *)
HasLast(p, q, w, D) ==
  /\ q \in Seq(D) /\ q # <<>> /\ Len(q) = Len(p) /\ q[Len(p)] = w
  /\ \A i \in 1 .. Len(p) - 1 : q[i] = p[i]

LEMMA ExceptLast ==
  ASSUME NEW D, NEW p \in Seq(D), p # <<>>, NEW w \in D
  PROVE  HasLast(p, [p EXCEPT ![Len(p)] = w], w, D)
<1> DEFINE n == Len(p)
           a == [p EXCEPT ![n] = w]
<1>1. n \in Nat /\ n \in 1 .. n
  OBVIOUS
<1>2. a \in Seq(D) /\ Len(a) = n /\ \A j \in 1 .. n : a[j] = IF j = n THEN w ELSE p[j]
  BY <1>1
<1> HIDE DEF a
<1>3. a # <<>>
  BY <1>1, <1>2
<1>4. a[n] = w /\ \A i \in 1 .. n - 1 : a[i] = p[i]
  BY <1>1, <1>2
<1> QED BY <1>2, <1>3, <1>4, Zenon DEF a, HasLast

(* What gathering a character, or what has no separator, makes of them.    *)
LEMMA LastIs ==
  ASSUME NEW C, NEW p \in Parts(C), NEW u \in Seq(C)
  PROVE  /\ WithLast(p, u) \in Parts(C) /\ Len(WithLast(p, u)) = Len(p)
         /\ WithLast(p, u)[Len(p)] = p[Len(p)] \o u
         /\ \A i \in 1 .. Len(p) - 1 : WithLast(p, u)[i] = p[i]
<1> DEFINE w == p[Len(p)] \o u
           D == Seq(C)
<1>1. p \in Seq(D) /\ p # <<>>
  BY DEF Parts
<1>2. w \in D
  <2>1. p[Len(p)] \in Seq(C)
    <3> HIDE DEF D
    <3>1. p[Len(p)] \in D
      BY <1>1
    <3> QED BY <3>1 DEF D
  <2> QED BY <2>1, ConcatProperties
<1>3. WithLast(p, u) = [p EXCEPT ![Len(p)] = w]
  BY Zenon DEF WithLast
<1> HIDE DEF w, D
<1>4. /\ WithLast(p, u) \in Seq(D) /\ WithLast(p, u) # <<>>
      /\ Len(WithLast(p, u)) = Len(p)
      /\ WithLast(p, u)[Len(p)] = w
      /\ \A i \in 1 .. Len(p) - 1 : WithLast(p, u)[i] = p[i]
  <2>1. HasLast(p, [p EXCEPT ![Len(p)] = w], w, D)
    BY <1>1, <1>2, ExceptLast
  <2> QED BY <1>3, <2>1, Zenon DEF HasLast
<1> QED BY <1>4, Zenon DEF Parts, D, w

LEMMA GatherIs ==
  ASSUME NEW C, NEW p \in Parts(C), NEW c \in C, NEW x
  PROVE  /\ Gather(p, c, x) \in Parts(C) /\ Ended(p, Gather(p, c, x))
         /\ c # x => Gather(p, c, x) = WithLast(p, <<c>>)
<1>1. p \in Seq(Seq(C)) /\ Len(p) \in Nat /\ Len(p) \in 1 .. Len(p)
  BY DEF Parts
<1>2. CASE c = x
  <2> DEFINE a == Append(p, <<>>)
  <2>1. <<>> \in Seq(C)
    OBVIOUS
  <2>2. /\ a \in Seq(Seq(C)) /\ a # <<>> /\ Len(a) = Len(p) + 1
        /\ \A i \in 1 .. Len(p) : a[i] = p[i]
    BY <1>1, <2>1, AppendProperties
  <2>3. Gather(p, c, x) = a
    BY <1>2 DEF Gather
  <2> HIDE DEF a
  <2>4. Len(p) <= Len(a) /\ \A i \in 1 .. Len(p) - 1 : a[i] = p[i]
    BY <1>1, <2>2
  <2> QED BY <1>2, <2>2, <2>3, <2>4 DEF Parts, Ended
<1>3. CASE c # x
  <2>1. p[Len(p)] \in Seq(C) /\ <<c>> \in Seq(C)
    BY <1>1, ElementOfSeq
  <2>2. Append(p[Len(p)], c) = p[Len(p)] \o <<c>>
    BY <2>1, AppendIsConcat
  <2>3. Gather(p, c, x) = WithLast(p, <<c>>)
    BY <1>3, <2>2 DEF Gather, WithLast
  <2>4. /\ WithLast(p, <<c>>) \in Parts(C) /\ Len(WithLast(p, <<c>>)) = Len(p)
        /\ \A i \in 1 .. Len(p) - 1 : WithLast(p, <<c>>)[i] = p[i]
    BY <2>1, LastIs
  <2> DEFINE a == WithLast(p, <<c>>)
  <2>5. Gather(p, c, x) = a /\ a \in Parts(C)
    BY <2>3, <2>4
  <2>6. /\ Len(a) = Len(p) /\ Len(p) \in Nat
        /\ \A i \in 1 .. Len(p) - 1 : a[i] = p[i]
    BY <1>1, <2>4
  <2> HIDE DEF a
  <2>7. Ended(p, a)
    BY <2>6 DEF Ended
  <2>8. Gather(p, c, x) = WithLast(p, <<c>>)
    BY <2>3
  <2> QED BY <2>5, <2>7, <2>8
<1> QED BY <1>2, <1>3

(* The parts of any text.                                                  *)
LEMMA SplitType ==
  ASSUME NEW C, NEW x, NEW t \in Seq(C)
  PROVE  Split(t, x) \in Parts(C)
<1> DEFINE T == {n \in Nat : \A u \in Seq(C) : Len(u) = n => Split(u, x) \in Parts(C)}
<1>1. 0 \in T
  <2> SUFFICES ASSUME NEW u \in Seq(C), Len(u) = 0 PROVE Split(u, x) \in Parts(C)
    OBVIOUS
  <2>1. u = <<>>
    OBVIOUS
  <2>2. <<<<>>>> \in Seq(Seq(C)) /\ <<<<>>>> # <<>>
    OBVIOUS
  <2> QED BY <2>1, <2>2, SplitNothing, Zenon DEF Parts
<1>2. ASSUME NEW n \in Nat, n \in T PROVE n + 1 \in T
  <2> SUFFICES ASSUME NEW u \in Seq(C), Len(u) = n + 1 PROVE Split(u, x) \in Parts(C)
    OBVIOUS
  <2>1. u # <<>>
    OBVIOUS
  <2>2. PICK v \in Seq(C), c \in C : u = Append(v, c)
    BY <2>1, SequenceEmptyOrAppend
  <2>3. Len(v) = n
    BY <2>2
  <2>4. Split(v, x) \in Parts(C)
    BY <1>2, <2>3
  <2>5. Split(u, x) = Gather(Split(v, x), c, x)
    BY <2>2, SplitMore
  <2> QED BY <2>4, <2>5, GatherIs
<1> HIDE DEF T
<1>3. Len(t) \in T
  BY <1>1, <1>2, InductionOnNat
<1> QED BY <1>3 DEF T

(* Parts are the same when all of them are, the last one too; so what goes *)
(* to the last part may go there at once or one after the other.           *)
LEMMA SameParts ==
  ASSUME NEW D, NEW p \in Seq(D), NEW q \in Seq(D), p # <<>>, Len(q) = Len(p),
         \A i \in 1 .. Len(p) - 1 : p[i] = q[i], p[Len(p)] = q[Len(p)]
  PROVE  p = q
<1>1. Len(p) \in Nat /\ Len(p) # 0
  OBVIOUS
<1>2. ASSUME NEW i \in 1 .. Len(p) PROVE p[i] = q[i]
  <2>1. i \in 1 .. Len(p) - 1 \/ i = Len(p)
    BY <1>1
  <2> QED BY <2>1
<1> QED BY <1>1, <1>2, SeqEqual

LEMMA LastTwice ==
  ASSUME NEW C, NEW p \in Parts(C), NEW u \in Seq(C), NEW v \in Seq(C)
  PROVE  /\ WithLast(WithLast(p, u), v) = WithLast(p, u \o v)
         /\ WithLast(p, <<>>) = p
<1> DEFINE a == WithLast(p, u)
           b == WithLast(a, v)
           d == WithLast(p, u \o v)
           e == WithLast(p, <<>>)
           D == Seq(C)
<1>1. u \o v \in Seq(C) /\ <<>> \in Seq(C)
  OBVIOUS
<1>2. /\ a \in Parts(C) /\ Len(a) = Len(p) /\ a[Len(p)] = p[Len(p)] \o u
      /\ \A i \in 1 .. Len(p) - 1 : a[i] = p[i]
  BY LastIs, Zenon
<1> HIDE DEF a
<1>3. /\ b \in Parts(C) /\ Len(b) = Len(a) /\ b[Len(a)] = a[Len(a)] \o v
      /\ \A i \in 1 .. Len(a) - 1 : b[i] = a[i]
  BY <1>2, LastIs, Zenon
<1>4. /\ d \in Parts(C) /\ Len(d) = Len(p) /\ d[Len(p)] = p[Len(p)] \o (u \o v)
      /\ \A i \in 1 .. Len(p) - 1 : d[i] = p[i]
  BY <1>1, LastIs, Zenon
<1>5. /\ e \in Parts(C) /\ Len(e) = Len(p) /\ e[Len(p)] = p[Len(p)] \o <<>>
      /\ \A i \in 1 .. Len(p) - 1 : e[i] = p[i]
  BY <1>1, LastIs, Zenon
<1> HIDE DEF b, d, e
<1>6. /\ p \in Seq(D) /\ p # <<>> /\ b \in Seq(D) /\ b # <<>>
      /\ d \in Seq(D) /\ e \in Seq(D)
  BY <1>3, <1>4, <1>5, Zenon DEF Parts
<1>7. p[Len(p)] \in Seq(C)
  <2>1. p[Len(p)] \in D
    <3> HIDE DEF D
    <3> QED BY <1>6
  <2> QED BY <2>1, Zenon
<1>8. (p[Len(p)] \o u) \o v = p[Len(p)] \o (u \o v) /\ p[Len(p)] \o <<>> = p[Len(p)]
  <2> DEFINE l == p[Len(p)]
  <2>1. l \in Seq(C)
    BY <1>7
  <2> HIDE DEF l
  <2>2. (l \o u) \o v = l \o (u \o v) /\ l \o <<>> = l
    BY <2>1
  <2> QED BY <2>2 DEF l
<1> HIDE DEF D
<1>9. b = d
  <2>1. /\ Len(d) = Len(b) /\ b[Len(b)] = d[Len(b)]
        /\ \A i \in 1 .. Len(b) - 1 : b[i] = d[i]
    BY <1>2, <1>3, <1>4, <1>8, Zenon
  <2> QED BY <1>6, <2>1, SameParts, Zenon
<1>10. e = p
  <2>1. /\ Len(p) = Len(e) /\ p[Len(p)] = e[Len(p)]
        /\ \A i \in 1 .. Len(p) - 1 : p[i] = e[i]
    BY <1>5, <1>8, Zenon
  <2>2. p = e
    BY <1>6, <2>1, SameParts, Zenon
  <2> QED BY <2>2
<1> QED BY <1>9, <1>10 DEF a, b, d, e

(* A text without a separator goes to the last part.                       *)
LEMMA SplitLine ==
  ASSUME NEW C, NEW x, NEW t \in Seq(C), NEW u \in Seq(C),
         \A i \in 1 .. Len(u) : u[i] # x
  PROVE  Split(t \o u, x) = WithLast(Split(t, x), u)
<1> DEFINE Free(w) == \A i \in 1 .. Len(w) : w[i] # x
           P(w) == Split(t \o w, x) = WithLast(Split(t, x), w)
           T == {n \in Nat : \A w \in Seq(C) : Len(w) = n /\ Free(w) => P(w)}
<1>1. Split(t, x) \in Parts(C)
  BY SplitType
<1>2. 0 \in T
  <2> SUFFICES ASSUME NEW w \in Seq(C), Len(w) = 0 PROVE P(w)
    OBVIOUS
  <2>1. w = <<>> /\ t \o w = t
    OBVIOUS
  <2>2. WithLast(Split(t, x), <<>>) = Split(t, x)
    BY <1>1, LastTwice
  <2> QED BY <2>1, <2>2
<1>3. ASSUME NEW n \in Nat, n \in T PROVE n + 1 \in T
  <2> SUFFICES ASSUME NEW w \in Seq(C), Len(w) = n + 1, Free(w) PROVE P(w)
    OBVIOUS
  <2>1. PICK v \in Seq(C), c \in C : w = Append(v, c)
    <3>1. w # <<>>
      OBVIOUS
    <3> QED BY <3>1, SequenceEmptyOrAppend
  <2>2. Len(v) = n /\ Free(v) /\ c # x
    <3>1. /\ Len(v) \in Nat /\ Len(w) = Len(v) + 1 /\ w[Len(v) + 1] = c
          /\ \A i \in 1 .. Len(v) : w[i] = v[i]
      BY <2>1
    <3> QED BY <3>1
  <2>3. P(v)
    BY <1>3, <2>2
  <2>4. t \o w = Append(t \o v, c) /\ t \o v \in Seq(C)
    BY <2>1
  <2> DEFINE p == Split(t, x)
  <2>5. Split(t \o w, x) = Gather(WithLast(p, v), c, x)
    BY <2>3, <2>4, SplitMore
  <2>6. WithLast(p, v) \in Parts(C)
    BY <1>1, LastIs
  <2>7. Split(t \o w, x) = WithLast(WithLast(p, v), <<c>>)
    <3> DEFINE a == WithLast(p, v)
    <3>1. Split(t \o w, x) = Gather(a, c, x) /\ a \in Parts(C)
      BY <2>5, <2>6, Zenon
    <3> HIDE DEF a
    <3>2. Split(t \o w, x) = WithLast(a, <<c>>)
      BY <2>2, <3>1, GatherIs
    <3> QED BY <3>2 DEF a
  <2>8. WithLast(WithLast(p, v), <<c>>) = WithLast(p, v \o <<c>>)
    <3> DEFINE u1 == <<c>>
    <3>1. p \in Parts(C) /\ u1 \in Seq(C)
      BY <1>1
    <3> HIDE DEF p, u1
    <3>2. WithLast(WithLast(p, v), u1) = WithLast(p, v \o u1)
      BY <3>1, LastTwice
    <3> QED BY <3>2 DEF u1
  <2>9. w = v \o <<c>>
    BY <2>1, AppendIsConcat
  <2> QED BY <2>7, <2>8, <2>9, Zenon
<1> HIDE DEF T
<1>4. Len(u) \in Nat /\ Len(u) \in T
  BY <1>2, <1>3, InductionOnNat
<1> QED BY <1>4 DEF T

(* What follows a text changes only its last part.                         *)
LEMMA SplitPrefix ==
  ASSUME NEW C, NEW x, NEW t \in Seq(C), NEW u \in Seq(C)
  PROVE  Ended(Split(t, x), Split(t \o u, x))
<1> DEFINE P(w) == Ended(Split(t, x), Split(t \o w, x))
           T == {n \in Nat : \A w \in Seq(C) : Len(w) = n => P(w)}
<1>1. \A v \in Seq(C) : Split(v, x) \in Parts(C) /\ Len(Split(v, x)) \in Nat
  BY SplitType DEF Parts
<1>2. 0 \in T
  <2> SUFFICES ASSUME NEW w \in Seq(C), Len(w) = 0 PROVE P(w)
    OBVIOUS
  <2>1. t \o w = t
    OBVIOUS
  <2>2. Ended(Split(t, x), Split(t, x))
    BY <1>1 DEF Ended
  <2> QED BY <2>1, <2>2
<1>3. ASSUME NEW n \in Nat, n \in T PROVE n + 1 \in T
  <2> SUFFICES ASSUME NEW w \in Seq(C), Len(w) = n + 1 PROVE P(w)
    OBVIOUS
  <2>1. PICK v \in Seq(C), c \in C : w = Append(v, c)
    <3>1. w # <<>>
      OBVIOUS
    <3> QED BY <3>1, SequenceEmptyOrAppend
  <2>2. Len(v) = n
    BY <2>1
  <2>3. P(v)
    BY <1>3, <2>2
  <2>4. t \o w = Append(t \o v, c) /\ t \o v \in Seq(C)
    BY <2>1
  <2> DEFINE p == Split(t, x)
             q == Split(t \o v, x)
             r == Split(t \o w, x)
  <2>5. r = Gather(q, c, x)
    BY <2>4, SplitMore
  <2>6. q \in Parts(C) /\ Len(p) \in Nat /\ Len(q) \in Nat
    BY <1>1, <2>4
  <2>7. Ended(q, r)
    <3> HIDE DEF p, q, r
    <3> QED BY <2>5, <2>6, GatherIs, Zenon
  <2>8. Ended(p, q)
    BY <2>3
  <2> HIDE DEF p, q, r
  <2>9. Len(r) \in Nat
    BY <1>1, <2>4 DEF r
  <2>10. Ended(p, r)
    BY <2>6, <2>7, <2>8, <2>9 DEF Ended
  <2> QED BY <2>10 DEF p, r
<1> HIDE DEF T
<1>4. Len(u) \in Nat /\ Len(u) \in T
  BY <1>2, <1>3, InductionOnNat
<1> QED BY <1>4 DEF T

-----------------------------------------------------------------------------
(* The characters that can be in the buffer.                               *)
Char == Character \union Special \union {"?", Version[1], Mark[1]}
Text == Seq(Char)

(* Texts one after the other.                                              *)
LEMMA JoinIs ==
  /\ \A t, u \in Text :
       t \o u \in Text /\ Len(t \o u) = Len(t) + Len(u) /\ Len(t) \in Nat /\ Len(u) \in Nat
  /\ \A t, u, v \in Text : (t \o u) \o v = t \o (u \o v)
BY DEF Text

Associated(t, u, v) == (t \o u) \o v = t \o (u \o v)
FourJoined(t, b, c, d) ==
  /\ (t \o (b \o c)) \o d = t \o (b \o (c \o d))
  /\ (t \o (b \o c)) \o d = ((t \o b) \o c) \o d

LEMMA JoinAgain ==
  ASSUME NEW t \in Text, NEW u \in Text, NEW v \in Text
  PROVE  Associated(t, u, v)
BY DEF Text, Associated

LEMMA JoinFour ==
  ASSUME NEW t \in Text, NEW b \in Text, NEW c \in Text, NEW d \in Text
  PROVE  FourJoined(t, b, c, d)
<1>1. b \o c \in Text
  BY DEF Text
<1>2. Associated(t, b \o c, d) /\ Associated(b, c, d) /\ Associated(t, b, c)
  BY <1>1, JoinAgain
<1> QED BY <1>2, Zenon DEF FourJoined, Associated

(* What strchr finds: the first place of a character from position i on.   *)
LEMMA FindAt ==
  ASSUME NEW t \in Text, NEW x, NEW i \in Nat \ {0}, NEW j \in i .. Len(t),
         t[j] = x, \A k \in i .. j - 1 : t[k] # x
  PROVE  Find(t, x, i) = j
<1> DEFINE at == {k \in i .. Len(t) : t[k] = x}
           First(k) == \A l \in at : k <= l
<1>1. Len(t) \in Nat /\ at \in SUBSET Nat /\ j \in at /\ j \in Nat
  BY DEF Text
<1>2. Find(t, x, i) = CHOOSE k \in at : First(k)
  BY <1>1, Zenon DEF Find
<1>3. \A k \in at : k >= j
  BY <1>1
<1> HIDE DEF at
<1>4. \A k \in at : First(k) => k = j
  BY <1>1, <1>3
<1>5. First(j)
  BY <1>1, <1>3
<1> HIDE DEF First
<1> QED BY <1>1, <1>2, <1>4, <1>5

LEMMA FindIs ==
  ASSUME NEW t \in Text, NEW x, NEW i \in Nat \ {0}
  PROVE  \/ /\ Find(t, x, i) = 0
            /\ \A k \in i .. Len(t) : t[k] # x
         \/ /\ Find(t, x, i) \in i .. Len(t) /\ t[Find(t, x, i)] = x
            /\ \A k \in i .. Find(t, x, i) - 1 : t[k] # x
<1> DEFINE at == {k \in i .. Len(t) : t[k] = x}
<1>1. Len(t) \in Nat /\ at \in SUBSET Nat
  BY DEF Text
<1>2. CASE at = {}
  <2>1. Find(t, x, i) = 0
    BY <1>2, Zenon DEF Find
  <2>2. \A k \in i .. Len(t) : t[k] # x
    BY <1>2
  <2> QED BY <2>1, <2>2
<1>3. CASE at # {}
  <2> HIDE DEF at
  <2>1. PICK j \in at : \A k \in at : j <= k
    BY <1>1, <1>3, LeastNatural
  <2>2. j \in i .. Len(t) /\ t[j] = x
    BY <2>1 DEF at
  <2>3. \A k \in i .. j - 1 : t[k] # x
    BY <1>1, <2>1, <2>2 DEF at
  <2>4. Find(t, x, i) = j
    BY <2>2, <2>3, FindAt
  <2> QED BY <2>2, <2>3, <2>4
<1> QED BY <1>2, <1>3

(* A cleaned text is as long, and has no delimiter.                        *)
LEMMA CleanIs ==
  ASSUME NEW t \in Text
  PROVE  /\ Clean(t) \in Text /\ Len(Clean(t)) = Len(t)
         /\ \A i \in 1 .. Len(t) :
              /\ Clean(t)[i] = IF t[i] \in Special THEN "?" ELSE t[i]
              /\ Clean(t)[i] # "#" /\ Clean(t)[i] # Newline
<1> DEFINE n == Len(t)
           c(i) == IF t[i] \in Special THEN "?" ELSE t[i]
           a == [i \in 1 .. n |-> c(i)]
<1>1. n \in Nat /\ \A i \in 1 .. n : t[i] \in Char
  BY DEF Text
<1>2. \A i \in 1 .. n : c(i) \in Char /\ c(i) # "#" /\ c(i) # Newline
  <2>1. "?" \in Char /\ "?" # "#" /\ "?" # Newline
    BY DEF Char, Newline
  <2>2. "#" \in Special /\ Newline \in Special
    BY DEF Special
  <2> QED BY <1>1, <2>1, <2>2
<1>3. Clean(t) = a
  BY DEF Clean
<1> HIDE DEF n, c
<1>4. a \in Text /\ Len(a) = n /\ \A i \in 1 .. n : a[i] = c(i)
  BY <1>1, <1>2 DEF Text
<1> HIDE DEF a
<1> QED BY <1>2, <1>3, <1>4 DEF n, c

(* The beginning of a text is that of any longer one.                      *)
LEMMA StartOfConcat ==
  ASSUME NEW t \in Text, NEW u \in Text, NEW k \in 0 .. Len(t)
  PROVE  /\ SubSeq(t \o u, 1, k) = SubSeq(t, 1, k)
         /\ SubSeq(t \o u, 1, Len(t)) = t
         /\ SubSeq(t, 1, Len(t)) = t
<1> DEFINE v == t \o u
           n == Len(t)
           a == SubSeq(v, 1, k)
           b == SubSeq(t, 1, k)
           d == SubSeq(v, 1, n)
<1>1. /\ v \in Text /\ n \in Nat /\ Len(v) \in Nat /\ Len(v) >= n
      /\ \A i \in 1 .. n : v[i] = t[i]
  BY DEF Text
<1> HIDE DEF v, n
<1>2. /\ a \in Text /\ Len(a) = k /\ \A i \in 1 .. k : a[i] = v[i]
      /\ d \in Text /\ Len(d) = n /\ \A i \in 1 .. n : d[i] = v[i]
  BY <1>1 DEF Text, n
<1>3. b \in Text /\ Len(b) = k /\ \A i \in 1 .. k : b[i] = t[i]
  BY <1>1 DEF Text, n
<1> HIDE DEF a, b, d
<1>4. a = b
  BY <1>1, <1>2, <1>3, SeqEqual DEF Text, n
<1>5. d = t
  BY <1>1, <1>2, SeqEqual DEF Text, n
<1>6. SubSeq(t, 1, Len(t)) = t
  BY DEF Text
<1> QED BY <1>4, <1>5, <1>6 DEF a, b, d, v, n

Begins(t, u, k, n) == SubSeq(t \o u, 1, n) = t \o SubSeq(u, 1, k)
LEMMA StartBehind ==
  ASSUME NEW t \in Text, NEW u \in Text, NEW k \in 0 .. Len(u), NEW n, n = Len(t) + k
  PROVE  Begins(t, u, k, n)
<1> DEFINE v == t \o u
           e == SubSeq(u, 1, k)
           a == SubSeq(v, 1, n)
           b == t \o e
           m == Len(t)
<1>1. m \in Nat /\ k \in Nat /\ Len(u) \in Nat /\ k <= Len(u) /\ n = m + k /\ n \in Nat
  BY DEF Text
<1>2. /\ v \in Text /\ Len(v) = m + Len(u)
      /\ \A i \in 1 .. m + Len(u) : v[i] = IF i <= m THEN t[i] ELSE u[i - m]
  BY DEF Text
<1>3. e \in Text /\ Len(e) = k /\ \A i \in 1 .. k : e[i] = u[i]
  BY <1>1 DEF Text
<1> HIDE DEF v, e
<1>4. /\ b \in Text /\ Len(b) = n
      /\ \A i \in 1 .. n : b[i] = IF i <= m THEN t[i] ELSE e[i - m]
  <2>1. t \in Seq(Char) /\ e \in Seq(Char)
    BY <1>3 DEF Text
  <2>2. /\ b \in Seq(Char) /\ Len(b) = Len(t) + Len(e)
        /\ \A i \in 1 .. Len(t) + Len(e) : b[i] = IF i <= Len(t) THEN t[i] ELSE e[i - Len(t)]
    BY <2>1, ConcatProperties
  <2> QED BY <1>1, <1>3, <2>2, Zenon DEF Text
<1> HIDE DEF m, b
<1>5. a \in Text /\ Len(a) = n /\ \A i \in 1 .. n : a[i] = v[i]
  BY <1>1, <1>2 DEF Text
<1> HIDE DEF a
<1>6. ASSUME NEW i \in 1 .. n PROVE a[i] = b[i]
  <2>1. i \in 1 .. m + Len(u) /\ a[i] = v[i]
    BY <1>1, <1>5
  <2>2. CASE i <= m
    BY <1>2, <1>4, <2>1, <2>2
  <2>3. CASE ~(i <= m)
    <3> DEFINE j == i - m
    <3>1. j \in 1 .. k
      BY <1>1, <2>3
    <3>2. v[i] = u[j] /\ b[i] = e[j]
      BY <1>2, <1>4, <2>1, <2>3
    <3> HIDE DEF j
    <3> QED BY <1>3, <2>1, <3>1, <3>2
  <2> QED BY <2>2, <2>3
<1>7. a = b
  BY <1>4, <1>5, <1>6, SeqEqual DEF Text
<1> QED BY <1>7, Zenon DEF a, b, e, v, Begins

(* Cleaning behind w the part of t that is left.                           *)
CleanEnd(v, n) == SubSeq(v, 1, n) \o Clean(SubSeq(v, n + 1, Len(v)))

LEMMA CleanBehind ==
  ASSUME NEW w \in Text, NEW t \in Text, NEW k \in Len(w) .. Len(w) + Len(t)
  PROVE  CleanEnd(SubSeq(w \o t, 1, k), Len(w)) = SubSeq(w \o Clean(t), 1, k)
<1> DEFINE n == Len(w)
           v == SubSeq(w \o t, 1, k)
           c == Clean(t)
           z == w \o c
           a == SubSeq(v, 1, n)
           b == SubSeq(v, n + 1, Len(v))
           e == Clean(b)
           l == a \o e
           r == SubSeq(z, 1, k)
<1>1. n \in Nat /\ k \in Nat /\ Len(t) \in Nat /\ n <= k /\ k <= n + Len(t)
  BY DEF Text
<1>2. /\ v \in Text /\ Len(v) = k
      /\ \A i \in 1 .. k : v[i] = IF i <= n THEN w[i] ELSE t[i - n]
  <2> DEFINE y == w \o t
  <2>1. /\ y \in Text /\ Len(y) = n + Len(t)
        /\ \A i \in 1 .. n + Len(t) : y[i] = IF i <= n THEN w[i] ELSE t[i - n]
    BY DEF Text
  <2> HIDE DEF y, n
  <2>2. \A i \in 1 .. k : y[i] \in Char /\ i \in 1 .. n + Len(t)
    BY <1>1, <2>1 DEF Text
  <2>3. v = SubSeq(y, 1, k)
    BY DEF y
  <2>4. v \in Text /\ Len(v) = k /\ \A i \in 1 .. k : v[i] = y[i]
    <3> HIDE DEF Text
    <3> DEFINE h == SubSeq(y, 1, k)
    <3>1. k \in Int /\ 1 \in Int /\ \A i \in 1 .. k : y[i] \in Char
      BY <1>1, <2>2
    <3>2. /\ h \in Seq(Char) /\ Len(h) = IF 1 <= k THEN k - 1 + 1 ELSE 0
          /\ \A i \in 1 .. k - 1 + 1 : h[i] = y[1 + i - 1]
      BY <3>1, SubSeqProperties
    <3> HIDE DEF h
    <3>3. h \in Text /\ Len(h) = k /\ \A i \in 1 .. k : h[i] = y[i]
      BY <1>1, <3>2 DEF Text
    <3> QED BY <2>3, <3>3 DEF h
  <2> QED BY <2>1, <2>2, <2>4
<1>3. /\ c \in Text /\ Len(c) = Len(t)
      /\ \A i \in 1 .. Len(t) : c[i] = IF t[i] \in Special THEN "?" ELSE t[i]
  BY CleanIs
<1> HIDE DEF n, c, v
<1>4. /\ z \in Text /\ Len(z) = n + Len(t)
      /\ \A i \in 1 .. n + Len(t) : z[i] = IF i <= n THEN w[i] ELSE c[i - n]
  <2>1. w \in Seq(Char) /\ c \in Seq(Char) /\ Len(w) = n /\ Len(c) = Len(t)
    BY <1>3 DEF Text, n
  <2>2. /\ z \in Seq(Char) /\ Len(z) = Len(w) + Len(c)
        /\ \A i \in 1 .. Len(w) + Len(c) : z[i] = IF i <= Len(w) THEN w[i] ELSE c[i - Len(w)]
    BY <2>1, ConcatProperties
  <2> QED BY <2>1, <2>2, Zenon DEF Text
<1>5. a \in Text /\ Len(a) = n /\ \A i \in 1 .. n : a[i] = v[i]
  BY <1>1, <1>2 DEF Text
<1>6. b \in Text /\ Len(b) = k - n /\ \A i \in 1 .. k - n : b[i] = v[n + i]
  BY <1>1, <1>2 DEF Text
<1> HIDE DEF z, a, b
<1>7. /\ e \in Text /\ Len(e) = k - n
      /\ \A i \in 1 .. k - n : e[i] = IF b[i] \in Special THEN "?" ELSE b[i]
  BY <1>6, CleanIs
<1>8. r \in Text /\ Len(r) = k /\ \A i \in 1 .. k : r[i] = z[i]
  BY <1>1, <1>4 DEF Text
<1> HIDE DEF e, r
<1>9. /\ l \in Text /\ Len(l) = k
      /\ \A i \in 1 .. k : l[i] = IF i <= n THEN a[i] ELSE e[i - n]
  <2>1. a \in Seq(Char) /\ e \in Seq(Char)
    BY <1>5, <1>7 DEF Text
  <2>2. /\ l \in Seq(Char) /\ Len(l) = Len(a) + Len(e)
        /\ \A i \in 1 .. Len(a) + Len(e) : l[i] = IF i <= Len(a) THEN a[i] ELSE e[i - Len(a)]
    BY <2>1
  <2> HIDE DEF l
  <2>3. Len(a) + Len(e) = k /\ Len(a) = n
    BY <1>1, <1>5, <1>7
  <2> QED BY <2>2, <2>3 DEF Text
<1> HIDE DEF l
<1>10. ASSUME NEW i \in 1 .. k PROVE l[i] = r[i]
  <2>1. CASE i <= n
    <3>1. i \in 1 .. n /\ i \in 1 .. n + Len(t)
      BY <1>1, <2>1
    <3>2. l[i] = a[i] /\ a[i] = v[i] /\ v[i] = w[i]
      BY <1>2, <1>5, <1>9, <2>1, <3>1
    <3>3. r[i] = z[i] /\ z[i] = w[i]
      BY <1>4, <1>8, <2>1, <3>1
    <3> QED BY <3>2, <3>3
  <2>2. CASE i > n
    <3> DEFINE j == i - n
    <3>1. j \in 1 .. k - n /\ n + j = i /\ j \in 1 .. Len(t) /\ i \in 1 .. n + Len(t)
          /\ ~(i <= n)
      BY <1>1, <2>2
    <3>2. l[i] = e[j] /\ z[i] = c[j] /\ r[i] = z[i] /\ v[i] = t[j]
      BY <1>2, <1>4, <1>8, <1>9, <3>1
    <3> HIDE DEF j
    <3>3. b[j] = v[i]
      BY <1>6, <3>1
    <3> QED BY <1>3, <1>7, <3>1, <3>2, <3>3
  <2> QED BY <1>1, <2>1, <2>2
<1>11. l = r
  BY <1>8, <1>9, <1>10, SeqEqual DEF Text
<1> QED BY <1>11, Zenon DEF CleanEnd, l, r, a, e, b, z, c, n, v

-----------------------------------------------------------------------------
(* What mysprintf leaves: the buffer is full once something did not fit.   *)
Room == bufferSize \in Nat \ {0}
Good(b) ==
  /\ b \in [text : Text, isError : BOOLEAN]
  /\ Len(b.text) < bufferSize
  /\ b.isError => Len(b.text) = bufferSize - 1
Whole(t) == [text |-> t, isError |-> FALSE]
Part(t)  == [text |-> SubSeq(t, 1, bufferSize - 1), isError |-> TRUE]

LEMMA WriteIs ==
  ASSUME Room, NEW b, Good(b), NEW t \in Text
  PROVE  /\ b.isError => mysprintf(b, t) = b
         /\ ~b.isError => mysprintf(b, t) =
              IF Len(b.text \o t) < bufferSize THEN Whole(b.text \o t)
              ELSE Part(b.text \o t)
         /\ ~b.isError => b = Whole(b.text)
         /\ b.text \in Text /\ b.text \o t \in Text
         /\ Len(b.text \o t) = Len(b.text) + Len(t)
         /\ Len(b.text) \in Nat /\ Len(t) \in Nat /\ bufferSize \in Nat \ {0}
<1>1. b.text \in Text /\ b \in [text : Text, isError : BOOLEAN]
  BY DEF Good
<1>2. /\ b.text \o t \in Text /\ Len(b.text \o t) = Len(b.text) + Len(t)
      /\ Len(b.text) \in Nat /\ Len(t) \in Nat /\ bufferSize \in Nat \ {0}
  BY <1>1 DEF Text, Room
<1>3. b.isError => mysprintf(b, t) = b
  BY DEF mysprintf
<1>4. ASSUME ~b.isError
      PROVE  mysprintf(b, t) = IF Len(b.text \o t) < bufferSize THEN Whole(b.text \o t)
                               ELSE Part(b.text \o t)
  <2> DEFINE w == b.text \o t
             k == Len(b.text) + Len(t)
  <2>1. mysprintf(b, t) = IF k >= bufferSize THEN Part(w) ELSE Whole(w)
    BY <1>4, Zenon DEF mysprintf, Part, Whole
  <2>2. Len(w) = k /\ k \in Nat /\ bufferSize \in Nat
    BY <1>2
  <2> HIDE DEF w, k
  <2>3. (k >= bufferSize) <=> ~(Len(w) < bufferSize)
    BY <2>2
  <2>4. mysprintf(b, t) = IF Len(w) < bufferSize THEN Whole(w) ELSE Part(w)
    BY <2>1, <2>3, Zenon
  <2> QED BY <2>4 DEF w
<1>5. ~b.isError => b = Whole(b.text)
  BY <1>1 DEF Whole
<1> QED BY <1>1, <1>2, <1>3, <1>4, <1>5, Zenon

(* What fits is there; what does not is there as far as it fits.           *)
LEMMA PartIs ==
  ASSUME Room, NEW t \in Text
  PROVE  /\ Len(t) < bufferSize => Good(Whole(t))
         /\ Len(t) >= bufferSize => Good(Part(t))
<1>1. bufferSize \in Nat \ {0} /\ Len(t) \in Nat
  BY DEF Room, Text
<1>2. ASSUME Len(t) < bufferSize PROVE Good(Whole(t))
  BY <1>1, <1>2 DEF Good, Whole
<1>3. ASSUME Len(t) >= bufferSize PROVE Good(Part(t))
  <2> DEFINE u == SubSeq(t, 1, bufferSize - 1)
  <2>1. u \in Text /\ Len(u) = bufferSize - 1
    BY <1>1, <1>3 DEF Text
  <2>2. Part(t) = [text |-> u, isError |-> TRUE]
    BY DEF Part
  <2> HIDE DEF u
  <2> QED BY <1>1, <2>1, <2>2 DEF Good
<1> QED BY <1>2, <1>3

LEMMA WriteGood ==
  ASSUME Room, NEW b, Good(b), NEW t \in Text
  PROVE  Good(mysprintf(b, t))
<1> DEFINE w == b.text \o t
<1>1. /\ b.isError => mysprintf(b, t) = b
      /\ ~b.isError => mysprintf(b, t) =
           IF Len(w) < bufferSize THEN Whole(w) ELSE Part(w)
      /\ w \in Text /\ Len(w) \in Nat /\ bufferSize \in Nat
  BY WriteIs
<1> HIDE DEF w
<1>2. CASE b.isError
  BY <1>1, <1>2
<1>3. CASE ~b.isError
  BY <1>1, <1>3, PartIs
<1> QED BY <1>2, <1>3

(* One piece after the other is both at once.                              *)
LEMMA WriteTwice ==
  ASSUME Room, NEW b, Good(b), NEW t \in Text, NEW u \in Text
  PROVE  mysprintf(mysprintf(b, t), u) = mysprintf(b, t \o u)
<1> DEFINE w == b.text \o t
           a == mysprintf(b, t)
           v == w \o u
<1>1. t \o u \in Text
  BY DEF Text
<1>2. /\ b.isError => mysprintf(b, t) = b /\ mysprintf(b, t \o u) = b
      /\ b.isError => mysprintf(b, u) = b
  BY <1>1, WriteIs
<1>3. CASE b.isError
  BY <1>2, <1>3
<1>4. CASE ~b.isError
  <2>1. /\ a = IF Len(w) < bufferSize THEN Whole(w) ELSE Part(w)
        /\ w \in Text /\ b.text \in Text /\ bufferSize \in Nat \ {0}
    BY <1>4, WriteIs
  <2>2. mysprintf(b, t \o u) =
          IF Len(b.text \o (t \o u)) < bufferSize THEN Whole(b.text \o (t \o u))
          ELSE Part(b.text \o (t \o u))
    BY <1>1, <1>4, WriteIs
  <2>3. b.text \o (t \o u) = v
    <3> DEFINE s == b.text
    <3>1. s \in Seq(Char)
      BY <2>1 DEF Text
    <3> HIDE DEF s
    <3>2. s \o (t \o u) = (s \o t) \o u
      BY <3>1 DEF Text
    <3> QED BY <3>2 DEF s
  <2>4. mysprintf(b, t \o u) = IF Len(v) < bufferSize THEN Whole(v) ELSE Part(v)
    BY <2>2, <2>3, Zenon
  <2>5. Good(a)
    BY WriteGood
  <2> HIDE DEF w
  <2>6. Len(w) \in Nat /\ Len(u) \in Nat /\ v \in Text /\ Len(v) = Len(w) + Len(u)
    BY <2>1 DEF Text
  <2>7. CASE Len(w) < bufferSize
    <3>1. a = Whole(w)
      BY <2>1, <2>7
    <3>2. a.text = w /\ ~a.isError
      BY <3>1 DEF Whole
    <3> HIDE DEF a
    <3>3. mysprintf(a, u) =
            IF Len(a.text \o u) < bufferSize THEN Whole(a.text \o u) ELSE Part(a.text \o u)
      BY <2>5, <3>2, WriteIs
    <3> QED BY <2>4, <3>2, <3>3 DEF a
  <2>8. CASE ~(Len(w) < bufferSize)
    <3>1. a = Part(w)
      BY <2>1, <2>8
    <3>2. a.isError
      BY <3>1 DEF Part
    <3> HIDE DEF a
    <3>3. mysprintf(a, u) = a
      BY <2>5, <3>2, WriteIs
    <3>4. ~(Len(v) < bufferSize) /\ bufferSize - 1 \in 0 .. Len(w)
      BY <2>1, <2>6, <2>8
    <3>5. SubSeq(v, 1, bufferSize - 1) = SubSeq(w, 1, bufferSize - 1)
      BY <2>1, <3>4, StartOfConcat
    <3>6. Part(v) = Part(w)
      BY <3>5, Zenon DEF Part
    <3>7. mysprintf(b, t \o u) = Part(v)
      BY <2>4, <3>4
    <3> QED BY <3>1, <3>3, <3>6, <3>7 DEF a
  <2> QED BY <2>7, <2>8
<1> QED BY <1>3, <1>4

(* Behind the end there is nothing to clean.                               *)
LEMMA CleanNone ==
  ASSUME NEW w \in Text
  PROVE  CleanEnd(w, Len(w)) = w
<1> DEFINE e == <<>>
           c == Clean(e)
           k == Len(w)
<1>1. e \in Text /\ w \o e = w
  BY DEF Text
<1>2. k \in Len(w) .. Len(w) + Len(e) /\ 0 \in 0 .. Len(w)
  BY DEF Text
<1>3. c \in Text
  BY <1>1, CleanIs, Zenon
<1>4. SubSeq(w \o e, 1, k) = w
  BY <1>1 DEF Text
<1> HIDE DEF e, c, k
<1>5. CleanEnd(SubSeq(w \o e, 1, k), Len(w)) = SubSeq(w \o Clean(e), 1, k)
  BY <1>1, <1>2, CleanBehind
<1>6. SubSeq(w \o c, 1, Len(w)) = w
  BY <1>2, <1>3, StartOfConcat, Zenon
<1> QED BY <1>4, <1>5, <1>6, Zenon DEF c, k

(* What was just written is cleaned: this is what is written of its clean  *)
(* form.                                                                   *)
LEMMA CleanWrite ==
  ASSUME Room, NEW b, Good(b), NEW t \in Text
  PROVE  CleanFrom(mysprintf(b, t), Len(b.text)) = mysprintf(b, Clean(t))
<1> DEFINE w == b.text
           c == Clean(t)
           z == w \o c
           a == mysprintf(b, t)
           v == a.text
           l == CleanEnd(v, Len(w))
<1>1. c \in Text /\ Len(c) = Len(t)
  BY CleanIs
<1>2. CleanFrom(a, Len(w)) = [a EXCEPT !.text = l]
  BY Zenon DEF CleanFrom, CleanEnd
<1>3. Good(a)
  BY WriteGood
<1>4. a \in [text : Text, isError : BOOLEAN] /\ w \in Text
  BY <1>3 DEF Good
<1>5. [a EXCEPT !.text = l] = [text |-> l, isError |-> a.isError]
  <2> HIDE DEF l, a
  <2> QED BY <1>4
<1>6. CASE b.isError
  <2>1. a = b /\ mysprintf(b, c) = b
    BY <1>1, <1>6, WriteIs
  <2>2. v = w
    BY <2>1
  <2>3. l = w
    BY <1>4, <2>2, CleanNone, Zenon
  <2>5. [text |-> l, isError |-> a.isError] = b
    <3>1. b \in [text : Text, isError : BOOLEAN] /\ a.isError = b.isError
      BY <2>1 DEF Good
    <3> HIDE DEF l, a
    <3> QED BY <2>3, <3>1
  <2> QED BY <1>2, <1>5, <2>1, <2>5
<1>7. CASE ~b.isError
  <2> DEFINE y == w \o t
             k == IF Len(y) < bufferSize THEN Len(y) ELSE bufferSize - 1
  <2>1. /\ a = IF Len(y) < bufferSize THEN Whole(y) ELSE Part(y)
        /\ y \in Text /\ Len(y) = Len(w) + Len(t)
        /\ Len(w) \in Nat /\ Len(t) \in Nat /\ bufferSize \in Nat \ {0}
    BY <1>7, WriteIs
  <2>2. mysprintf(b, c) = IF Len(z) < bufferSize THEN Whole(z) ELSE Part(z)
    BY <1>1, <1>7, WriteIs
  <2>3. z \in Text /\ Len(z) = Len(y) /\ Len(w) < bufferSize
    <3>1. z \in Text /\ Len(z) = Len(w) + Len(c)
      BY <1>1, WriteIs
    <3> QED BY <1>1, <2>1, <3>1 DEF Good
  <2>4. k \in Len(w) .. Len(w) + Len(t) /\ k \in 0 .. Len(y)
    <3> HIDE DEF w, y
    <3> QED BY <2>1, <2>3
  <2>5. /\ SubSeq(y, 1, Len(y)) = y /\ SubSeq(z, 1, Len(z)) = z
    <3> HIDE DEF y, z
    <3> QED BY <2>1, <2>3 DEF Text
  <2>6. v = SubSeq(y, 1, k) /\ a.isError = ~(Len(y) < bufferSize)
    <3> HIDE DEF y, a
    <3>1. CASE Len(y) < bufferSize
      BY <2>1, <2>5, <3>1 DEF Whole
    <3>2. CASE ~(Len(y) < bufferSize)
      BY <2>1, <3>2 DEF Part
    <3> QED BY <3>1, <3>2
  <2>7. l = SubSeq(z, 1, k)
    <3>1. v = SubSeq(w \o t, 1, k) /\ k \in Len(w) .. Len(w) + Len(t)
      BY <2>4, <2>6
    <3> HIDE DEF v, k, w
    <3>2. CleanEnd(SubSeq(w \o t, 1, k), Len(w)) = SubSeq(w \o Clean(t), 1, k)
      BY <1>4, <3>1, CleanBehind
    <3> QED BY <3>1, <3>2, Zenon
  <2>8. [text |-> l, isError |-> a.isError] = mysprintf(b, c)
    <3> HIDE DEF y, z, a, l
    <3>1. CASE Len(y) < bufferSize
      BY <2>2, <2>3, <2>5, <2>6, <2>7, <3>1 DEF Whole
    <3>2. CASE ~(Len(y) < bufferSize)
      BY <2>2, <2>3, <2>6, <2>7, <3>2 DEF Part
    <3> QED BY <3>1, <3>2
  <2> QED BY <1>2, <1>5, <2>8
<1> QED BY <1>6, <1>7

-----------------------------------------------------------------------------
(* A record: what is before the last field, and the last field.            *)
Lead == (<<"*">> \o Version) \o <<"#">>
Before(h) == (Lead \o h) \o <<"#">>
RecordOf(h, l) == Before(h) \o l
Line == SubSeq(msg.text, sol,
               IF Find(msg.text, Newline, sol) = 0 THEN Len(msg.text)
               ELSE Find(msg.text, Newline, sol) - 1)

LEMMA ThreeCharacters ==
  ASSUME NEW x \in Char, NEW y \in Char, NEW z \in Char
  PROVE  /\ <<x>> \in Text /\ <<x>> \o <<y>> \in Text
         /\ (<<x>> \o <<y>>) \o <<z>> \in Text
         /\ Len((<<x>> \o <<y>>) \o <<z>>) = 3
         /\ ((<<x>> \o <<y>>) \o <<z>>)[1] = x
         /\ ((<<x>> \o <<y>>) \o <<z>>)[2] = y
         /\ ((<<x>> \o <<y>>) \o <<z>>)[3] = z
<1> DEFINE a == <<x>>
           b == <<y>>
           d == <<z>>
           ab == a \o b
           abd == ab \o d
<1>1. /\ a \in Seq(Char) /\ Len(a) = 1 /\ a[1] = x
      /\ b \in Seq(Char) /\ Len(b) = 1 /\ b[1] = y
      /\ d \in Seq(Char) /\ Len(d) = 1 /\ d[1] = z
  OBVIOUS
<1> HIDE DEF a, b, d
<1>2. ab \in Seq(Char) /\ Len(ab) = 2 /\ ab[1] = x /\ ab[2] = y
  <2>1. /\ ab \in Seq(Char) /\ Len(ab) = Len(a) + Len(b)
        /\ \A i \in 1 .. Len(a) + Len(b) : ab[i] = IF i <= Len(a) THEN a[i] ELSE b[i - Len(a)]
    BY <1>1, ConcatProperties
  <2> HIDE DEF ab
  <2> QED BY <1>1, <2>1
<1> HIDE DEF ab
<1>3. abd \in Seq(Char) /\ Len(abd) = 3 /\ abd[1] = x /\ abd[2] = y /\ abd[3] = z
  <2>1. /\ abd \in Seq(Char) /\ Len(abd) = Len(ab) + Len(d)
        /\ \A i \in 1 .. Len(ab) + Len(d) : abd[i] = IF i <= Len(ab) THEN ab[i] ELSE d[i - Len(ab)]
    BY <1>1, <1>2, ConcatProperties
  <2> HIDE DEF abd
  <2> QED BY <1>1, <1>2, <2>1
<1> HIDE DEF abd
<1> QED BY <1>1, <1>2, <1>3, Zenon DEF a, b, d, ab, abd, Text

LEMMA PiecesAreText ==
  /\ <<"*">> \o Version \in Text /\ <<"#">> \in Text /\ <<Newline>> \in Text
  /\ Lead \in Text /\ Len(Lead) = 3
  /\ Lead[1] = "*" /\ Lead[2] = "1" /\ Lead[3] = "#"
  /\ <<Mark[1]>> \in Text /\ Mark = <<Mark[1]>> \o <<Newline>> /\ <<>> \in Text
<1>1. "*" \in Char /\ "#" \in Char /\ Newline \in Char
  BY DEF Char, Special
<1>2. Version = <<"1">> /\ Version[1] \in Char /\ Mark[1] \in Char
  BY DEF Version, Char
<1>3. "1" \in Char
  BY <1>2
<1>4. Lead = (<<"*">> \o <<"1">>) \o <<"#">>
  BY <1>2, Zenon DEF Lead
<1>5. /\ <<"*">> \o <<"1">> \in Text /\ Lead \in Text /\ Len(Lead) = 3
      /\ Lead[1] = "*" /\ Lead[2] = "1" /\ Lead[3] = "#"
  <2> DEFINE x == "*"
             y == "1"
             z == "#"
             ab == <<x>> \o <<y>>
             l == ab \o <<z>>
  <2>1. x \in Char /\ y \in Char /\ z \in Char
    BY <1>1, <1>3
  <2> HIDE DEF x, y, z
  <2>2. ab \in Text /\ l \in Text /\ Len(l) = 3 /\ l[1] = x /\ l[2] = y /\ l[3] = z
    BY <2>1, ThreeCharacters
  <2>3. Lead = l
    BY <1>4, Zenon DEF l, ab, x, y, z
  <2>4. ab = <<"*">> \o <<"1">>
    BY Zenon DEF ab, x, y
  <2> HIDE DEF l, ab
  <2>5. Lead[1] = "*" /\ Lead[2] = "1" /\ Lead[3] = "#"
    BY <2>2, <2>3, Zenon DEF x, y, z
  <2> QED BY <2>2, <2>3, <2>4, <2>5, Zenon
<1>6. <<"#">> \in Text /\ <<Newline>> \in Text /\ <<Mark[1]>> \in Text
  BY <1>1, <1>2, ThreeCharacters, Zenon
<1>7. <<>> \in Text
  BY DEF Text
<1>8. Mark = <<Mark[1]>> \o <<Newline>>
  BY DEF Mark, Newline
<1> QED BY <1>2, <1>5, <1>6, <1>7, <1>8, Zenon

LEMMA BeforeIs ==
  ASSUME NEW h \in Text, NEW l \in Text
  PROVE  Lead \o h \in Text /\ Before(h) \in Text /\ RecordOf(h, l) \in Text
<1>1. Lead \in Seq(Char) /\ <<"#">> \in Seq(Char)
  BY PiecesAreText DEF Text
<1>2. Lead \o h \in Seq(Char)
  BY <1>1, ConcatProperties DEF Text
<1>3. Before(h) \in Seq(Char)
  BY <1>1, <1>2, ConcatProperties DEF Before
<1>4. RecordOf(h, l) \in Seq(Char)
  BY <1>3, ConcatProperties DEF RecordOf, Text
<1> QED BY <1>2, <1>3, <1>4 DEF Text

(* What is written behind a record is more of its last field.              *)
Longer(h, l, u) == RecordOf(h, l) \o u = RecordOf(h, l \o u)
LEMMA RecordMore ==
  ASSUME NEW h \in Text, NEW l \in Text, NEW u \in Text
  PROVE  Longer(h, l, u)
<1> DEFINE b == Before(h)
<1>1. b \in Text
  BY BeforeIs
<1> HIDE DEF b
<1>2. Associated(b, l, u)
  BY <1>1, JoinAgain
<1>3. (b \o l) \o u = b \o (l \o u)
  BY <1>2, Zenon DEF Associated
<1> QED BY <1>3, Zenon DEF b, RecordOf, Longer

(* The first characters of a record, with the header cleaned.              *)
LEMMA HeaderIs ==
  ASSUME Room, msg.header \in Text, NEW b, Good(b)
  PROVE  Header(b) = mysprintf(b, Lead \o Clean(msg.header))
<1> DEFINE h == msg.header
           v == <<"*">> \o Version
           d == <<"#">>
           c == Clean(h)
           start == mysprintf(mysprintf(b, v), d)
<1>1. v \in Text /\ d \in Text /\ Lead \in Text /\ Lead = v \o d
  BY PiecesAreText DEF Lead
<1>2. c \in Text /\ h \in Text
  BY CleanIs
<1> HIDE DEF v, d, c, h
<1>3. start = mysprintf(b, Lead)
  BY <1>1, WriteTwice
<1>4. Good(mysprintf(b, Lead))
  BY <1>1, WriteGood
<1>5. Header(b) = CleanFrom(mysprintf(start, h), Len(start.text))
  BY Zenon DEF Header, v, d, h
<1> HIDE DEF start
<1>6. CleanFrom(mysprintf(start, h), Len(start.text)) = mysprintf(start, c)
  BY <1>2, <1>3, <1>4, CleanWrite DEF c
<1>7. mysprintf(start, c) = mysprintf(b, Lead \o c)
  BY <1>1, <1>2, <1>3, WriteTwice
<1> QED BY <1>5, <1>6, <1>7, Zenon DEF c, h

(* Where the last field ends: at the first end of line, or with the text.  *)
LEMMA LineAndRest ==
  ASSUME msg.text \in Text, sol \in 1 .. Len(msg.text) + 1
  PROVE  LET rest == SubSeq(msg.text, sol, Len(msg.text))
             eol  == Find(msg.text, Newline, sol)
         IN  /\ Line \in Text /\ rest \in Text
             /\ \A i \in 1 .. Len(Line) : Line[i] # Newline
             /\ eol = 0 => Line = rest
             /\ eol # 0 =>
                  /\ eol \in sol .. Len(msg.text) /\ msg.text[eol] = Newline
                  /\ Len(Line) = eol - sol
                  /\ \E u \in Text : rest = Line \o u /\ u # <<>>
<1> DEFINE t == msg.text
           rest == SubSeq(t, sol, Len(t))
           eol == Find(t, Newline, sol)
           m == IF eol = 0 THEN Len(t) ELSE eol - 1
           l == SubSeq(t, sol, m)
<1>1. /\ Len(t) \in Nat /\ sol \in Nat \ {0} /\ sol <= Len(t) + 1
      /\ \A i \in 1 .. Len(t) : t[i] \in Char
  BY DEF Text
<1>2. Line = l
  BY Zenon DEF Line
<1>3. \/ eol = 0 /\ \A k \in sol .. Len(t) : t[k] # Newline
      \/ /\ eol \in sol .. Len(t) /\ t[eol] = Newline /\ eol # 0
         /\ \A k \in sol .. eol - 1 : t[k] # Newline
  <2> HIDE DEF eol
  <2>1. eol \in sol .. Len(t) => eol # 0
    BY <1>1
  <2> QED BY <1>1, <2>1, FindIs DEF eol
<1> HIDE DEF t, eol
<1>4. /\ m \in Int /\ m <= Len(t) /\ m >= sol - 1
      /\ \A k \in sol .. m : t[k] # Newline
  <2>1. CASE eol = 0
    BY <1>1, <1>3, <2>1
  <2>2. CASE eol # 0
    BY <1>1, <1>3, <2>2
  <2> QED BY <2>1, <2>2
<1> HIDE DEF m
<1>5. /\ l \in Text /\ Len(l) = m - sol + 1
      /\ \A i \in 1 .. m - sol + 1 : l[i] = t[sol + i - 1]
  BY <1>1, <1>4 DEF Text
<1>6. /\ rest \in Text /\ Len(rest) = Len(t) - sol + 1
      /\ \A i \in 1 .. Len(t) - sol + 1 : rest[i] = t[sol + i - 1]
  BY <1>1 DEF Text
<1>7. \A i \in 1 .. Len(l) : l[i] # Newline
  <2> HIDE DEF l
  <2> SUFFICES ASSUME NEW i \in 1 .. Len(l) PROVE l[i] # Newline
    OBVIOUS
  <2>1. i \in 1 .. m - sol + 1 /\ sol + i - 1 \in sol .. m
    BY <1>1, <1>4, <1>5
  <2> QED BY <1>4, <1>5, <2>1
<1>8. eol = 0 => l = rest
  BY DEF m
<1>9. ASSUME eol # 0
      PROVE  /\ eol \in sol .. Len(t) /\ t[eol] = Newline /\ Len(l) = eol - sol
             /\ \E u \in Text : rest = l \o u /\ u # <<>>
  <2>1. m = eol - 1 /\ eol \in sol .. Len(t) /\ t[eol] = Newline
    BY <1>3, <1>9 DEF m
  <2>2. Len(l) = eol - sol
    BY <1>1, <1>5, <2>1
  <2> DEFINE u == SubSeq(t, eol, Len(t))
  <2>3. u \in Text /\ u # <<>>
    <3>1. u \in Text /\ Len(u) = Len(t) - eol + 1
      BY <1>1, <2>1 DEF Text
    <3> HIDE DEF u
    <3> QED BY <1>1, <2>1, <3>1
  <2>4. rest = l \o u
    <3>1. /\ t \in Seq(Char) /\ sol \in 1 .. Len(t) + 1 /\ m \in sol - 1 .. Len(t)
          /\ Len(t) \in m .. Len(t) /\ m + 1 = eol
      BY <1>1, <1>4, <2>1 DEF Text, t
    <3>2. SubSeq(t, sol, m) \o SubSeq(t, m + 1, Len(t)) = SubSeq(t, sol, Len(t))
      BY <3>1, ConcatAdjacentSubSeq
    <3> QED BY <3>1, <3>2, Zenon
  <2> QED BY <2>1, <2>2, <2>3, <2>4
<1> QED BY <1>2, <1>5, <1>6, <1>7, <1>8, <1>9 DEF t, eol

(* The beginning of the beginning of a text.                               *)
LEMMA StartOfStart ==
  ASSUME NEW t \in Text, NEW n \in 0 .. Len(t), NEW k \in 0 .. n
  PROVE  SubSeq(SubSeq(t, 1, n), 1, k) = SubSeq(t, 1, k)
<1> DEFINE v == SubSeq(t, 1, n)
           a == SubSeq(v, 1, k)
           b == SubSeq(t, 1, k)
<1>1. Len(t) \in Nat /\ n \in Nat /\ k \in Nat /\ k <= n /\ n <= Len(t)
  BY DEF Text
<1>2. v \in Text /\ Len(v) = n /\ \A i \in 1 .. n : v[i] = t[i]
  BY <1>1 DEF Text
<1>3. b \in Text /\ Len(b) = k /\ \A i \in 1 .. k : b[i] = t[i]
  BY <1>1 DEF Text
<1> HIDE DEF v, b
<1>4. a \in Text /\ Len(a) = k /\ \A i \in 1 .. k : a[i] = v[i]
  BY <1>1, <1>2 DEF Text
<1> HIDE DEF a
<1>5. a = b
  <2>1. \A i \in 1 .. k : a[i] = b[i]
    BY <1>1, <1>2, <1>3, <1>4
  <2> QED BY <1>3, <1>4, <2>1, SeqEqual DEF Text
<1> QED BY <1>5 DEF a, b, v

(* The last field in a buffer that was full before it: nothing more.       *)
LEMMA LastFieldFull ==
  ASSUME Room, msg.text \in Text, sol \in 1 .. Len(msg.text) + 1, NEW b, Good(b),
         b.isError, NEW eol, eol = Find(msg.text, Newline, sol)
  PROVE  LastField(b, eol) = b
<1> DEFINE rest == SubSeq(msg.text, sol, Len(msg.text))
           all == mysprintf(b, rest)
           w == b.text
           newl == Len(w) + (eol - sol)
           line == IF eol # 0 /\ newl < bufferSize
                   THEN [text |-> SubSeq(all.text, 1, newl), isError |-> FALSE]
                   ELSE all
           d == <<Newline>>
<1>1. eol # 0 => eol - sol \in Nat
  <2>1. eol # 0 => eol \in sol .. Len(msg.text)
    BY LineAndRest
  <2>2. Len(msg.text) \in Nat /\ sol \in Nat
    BY DEF Text
  <2> HIDE DEF rest
  <2> QED BY <2>1, <2>2
<1>2. LastField(b, eol) = mysprintf(CleanFrom(line, Len(w)), d)
  BY Zenon DEF LastField
<1> HIDE DEF rest
<1>3. all = b
  BY Zenon DEF mysprintf
<1>4. /\ w \in Text /\ Len(w) \in Nat /\ Len(w) = bufferSize - 1 /\ bufferSize \in Nat \ {0}
      /\ b = [text |-> w, isError |-> TRUE]
  <2>1. b \in [text : Text, isError : BOOLEAN] /\ Len(b.text) = bufferSize - 1
    BY DEF Good
  <2>2. b = [text |-> b.text, isError |-> TRUE]
    BY <2>1
  <2> QED BY <2>1, <2>2 DEF Text, Room
<1>5. CleanEnd(w, Len(w)) = w
  BY <1>4, CleanNone
<1>6. d \in Text
  BY PiecesAreText
<1> HIDE DEF all, d
<1>7. CASE eol # 0 /\ newl < bufferSize
  <2>1. newl = Len(w)
    <3> DEFINE k == eol - sol
    <3>1. k \in Nat /\ Len(w) + k < bufferSize /\ newl = Len(w) + k
      BY <1>1, <1>7, Zenon
    <3> HIDE DEF w, k, newl
    <3> QED BY <1>4, <3>1
  <2>2. SubSeq(w, 1, newl) = w
    <3> HIDE DEF w, newl
    <3> QED BY <1>4, <2>1 DEF Text
  <2>3. line = Whole(w)
    BY <1>3, <1>7, <2>2, Zenon DEF Whole
  <2>4. CleanFrom(line, Len(w)) = Whole(w)
    <3>1. CleanFrom(line, Len(w)) = [line EXCEPT !.text = CleanEnd(line.text, Len(w))]
      BY Zenon DEF CleanFrom, CleanEnd
    <3> HIDE DEF line, w
    <3> QED BY <1>5, <2>3, <3>1 DEF Whole
  <2>5. Len(w) < bufferSize
    <3> HIDE DEF w
    <3> QED BY <1>4
  <2>6. Good(Whole(w)) /\ ~Whole(w).isError /\ Whole(w).text = w
    BY <1>4, <2>5, PartIs DEF Whole
  <2> HIDE DEF w
  <2>7. mysprintf(Whole(w), d) = Part(w \o d)
    <3>1. Len(d) = 1
      BY DEF d
    <3>2. /\ mysprintf(Whole(w), d) = IF Len(w \o d) < bufferSize THEN Whole(w \o d)
                                       ELSE Part(w \o d)
          /\ Len(w \o d) = Len(w) + Len(d)
      <4> DEFINE a == Whole(w)
      <4>1. Good(a) /\ ~a.isError /\ a.text = w
        BY <2>6
      <4> HIDE DEF a
      <4>2. /\ mysprintf(a, d) = IF Len(a.text \o d) < bufferSize THEN Whole(a.text \o d)
                                  ELSE Part(a.text \o d)
            /\ Len(a.text \o d) = Len(a.text) + Len(d)
        BY <1>6, <4>1, WriteIs
      <4> QED BY <4>1, <4>2, Zenon DEF a
    <3> QED BY <1>4, <3>1, <3>2
  <2>8. Part(w \o d) = [text |-> w, isError |-> TRUE]
    <3>1. SubSeq(w \o d, 1, Len(w)) = w
      <4>1. 0 \in 0 .. Len(w)
        BY <1>4
      <4> QED BY <1>4, <1>6, <4>1, StartOfConcat
    <3> QED BY <1>4, <3>1, Zenon DEF Part
  <2> QED BY <1>2, <1>4, <2>4, <2>7, <2>8, Zenon DEF w
<1>8. CASE ~(eol # 0 /\ newl < bufferSize)
  <2>1. line = b
    BY <1>3, <1>8, Zenon
  <2>2. CleanFrom(b, Len(w)) = b
    <3>1. CleanFrom(b, Len(w)) = [b EXCEPT !.text = CleanEnd(w, Len(w))]
      BY Zenon DEF CleanFrom, CleanEnd
    <3>2. b \in [text : Text, isError : BOOLEAN]
      BY DEF Good
    <3> QED BY <1>5, <3>1, <3>2
  <2>3. mysprintf(b, d) = b
    BY <1>6, WriteIs
  <2> QED BY <1>2, <2>1, <2>2, <2>3, Zenon
<1> QED BY <1>7, <1>8, Zenon

(* The last field is the line, cleaned, whatever of the text was written   *)
(* behind it at first.                                                     *)
LEMMA LastFieldIs ==
  ASSUME Room, msg.text \in Text, sol \in 1 .. Len(msg.text) + 1, NEW b, Good(b),
         NEW eol, eol = Find(msg.text, Newline, sol)
  PROVE  LastField(b, eol) = mysprintf(b, Clean(Line) \o <<Newline>>)
<1> DEFINE rest == SubSeq(msg.text, sol, Len(msg.text))
           all == mysprintf(b, rest)
           w == b.text
           newl == Len(w) + (eol - sol)
           line == IF eol # 0 /\ newl < bufferSize
                   THEN [text |-> SubSeq(all.text, 1, newl), isError |-> FALSE]
                   ELSE all
           d == <<Newline>>
           c == Clean(Line)
           x == w \o Line
<1>1. /\ Line \in Text /\ rest \in Text /\ (eol = 0 => Line = rest)
      /\ eol # 0 => Len(Line) = eol - sol
      /\ eol # 0 => \E u \in Text : rest = Line \o u /\ u # <<>>
  BY LineAndRest
<1>2. LastField(b, eol) = mysprintf(CleanFrom(line, Len(w)), d)
  BY Zenon DEF LastField
<1>3. c \in Text /\ d \in Text
  <2>1. c \in Text
    BY <1>1, CleanIs
  <2> QED BY <2>1, PiecesAreText
<1> HIDE DEF rest, c, d
<1>4. CASE b.isError
  <2>1. LastField(b, eol) = b
    BY <1>4, LastFieldFull
  <2>2. mysprintf(b, c \o d) = b
    BY <1>4, Zenon DEF mysprintf
  <2> QED BY <2>1, <2>2 DEF c, d
<1>5. CASE ~b.isError
  <2>1. /\ w \in Text /\ x \in Text /\ Len(x) = Len(w) + Len(Line)
        /\ Len(w) \in Nat /\ Len(Line) \in Nat /\ bufferSize \in Nat \ {0}
        /\ mysprintf(b, Line) = IF Len(x) < bufferSize THEN Whole(x) ELSE Part(x)
    BY <1>1, <1>5, WriteIs
  <2>2. line = mysprintf(b, Line)
    <3>1. CASE eol = 0
      BY <1>1, <3>1, Zenon
    <3>2. CASE eol # 0
      <4>1. newl = Len(x)
        <5>1. newl = Len(w) + Len(Line)
          BY <1>1, <3>2, Zenon
        <5> QED BY <2>1, <5>1, Zenon
      <4>2. PICK u \in Text : rest = Line \o u /\ u # <<>>
        BY <1>1, <3>2
      <4> DEFINE y == x \o u
      <4>3. all = IF Len(y) < bufferSize THEN Whole(y) ELSE Part(y)
        <5>1. all = IF Len(w \o rest) < bufferSize THEN Whole(w \o rest)
                    ELSE Part(w \o rest)
          BY <1>1, <1>5, WriteIs
        <5>2. w \o rest = y
          <6>1. Associated(w, Line, u)
            BY <1>1, <2>1, JoinAgain
          <6> QED BY <4>2, <6>1, Zenon DEF Associated
        <5> QED BY <5>1, <5>2, Zenon
      <4> HIDE DEF x, all
      <4>4. y \in Text /\ Len(y) = Len(x) + Len(u) /\ Len(u) \in Nat /\ Len(x) \in Nat
        BY <2>1, JoinIs, Zenon
      <4>5. /\ SubSeq(y, 1, Len(x)) = x
            /\ \A k \in 0 .. Len(x) : SubSeq(y, 1, k) = SubSeq(x, 1, k)
        <5>1. \A k \in 0 .. Len(x) : SubSeq(y, 1, k) = SubSeq(x, 1, k)
          BY <2>1, StartOfConcat
        <5>2. 0 \in 0 .. Len(x)
          BY <4>4
        <5> QED BY <2>1, <5>1, <5>2, StartOfConcat
      <4> HIDE DEF y
      <4>6. CASE Len(x) < bufferSize
        <5>1. SubSeq(all.text, 1, Len(x)) = x
          <6>1. CASE Len(y) < bufferSize
            <7>1. all.text = y
              BY <4>3, <6>1 DEF Whole
            <7> QED BY <4>5, <7>1
          <6>2. CASE ~(Len(y) < bufferSize)
            <7>1. all.text = SubSeq(y, 1, bufferSize - 1)
              BY <4>3, <6>2 DEF Part
            <7>2. bufferSize - 1 \in 0 .. Len(y) /\ Len(x) \in 0 .. bufferSize - 1
              BY <2>1, <4>4, <4>6, <6>2
            <7>3. SubSeq(SubSeq(y, 1, bufferSize - 1), 1, Len(x)) = SubSeq(y, 1, Len(x))
              BY <4>4, <7>2, StartOfStart
            <7> QED BY <4>5, <7>1, <7>3
          <6> QED BY <6>1, <6>2
        <5>2. line = [text |-> SubSeq(all.text, 1, Len(x)), isError |-> FALSE]
          BY <3>2, <4>1, <4>6, Zenon
        <5>3. line = Whole(x)
          BY <5>1, <5>2, Zenon DEF Whole
        <5> QED BY <2>1, <4>6, <5>3
      <4>7. CASE ~(Len(x) < bufferSize)
        <5>1. line = all
          BY <4>1, <4>7, Zenon
        <5>2. ~(Len(y) < bufferSize) /\ bufferSize - 1 \in 0 .. Len(x)
          BY <2>1, <4>4, <4>7
        <5>3. Part(y) = Part(x)
          BY <4>5, <5>2, Zenon DEF Part
        <5> QED BY <2>1, <4>3, <4>7, <5>1, <5>2, <5>3, Zenon
      <4> QED BY <4>6, <4>7
    <3> QED BY <3>1, <3>2
  <2>3. CleanFrom(mysprintf(b, Line), Len(w)) = mysprintf(b, c)
    BY <1>1, CleanWrite DEF c
  <2>4. mysprintf(mysprintf(b, c), d) = mysprintf(b, c \o d)
    BY <1>3, WriteTwice
  <2> QED BY <1>2, <2>2, <2>3, <2>4, Zenon DEF c, d
<1> QED BY <1>4, <1>5

(* So a record is written, as far as it fits, at the end of the others.    *)
LEMMA RecordIs ==
  ASSUME Room, msg.header \in Text, msg.text \in Text,
         sol \in 1 .. Len(msg.text) + 1, Good(encoded)
  PROVE  LET h      == Clean(msg.header)
             head   == Header(encoded)
             eol    == Find(msg.text, Newline, sol)
             open   == mysprintf(head, <<"#">>)
             record == IF head.isError THEN head ELSE LastField(open, eol)
         IN  /\ open = mysprintf(encoded, Before(h))
             /\ head.isError => open.isError
             /\ record = mysprintf(open, Clean(Line) \o <<Newline>>)
             /\ Good(open) /\ h \in Text /\ Line \in Text /\ Clean(Line) \in Text
<1> DEFINE h == Clean(msg.header)
           head == Header(encoded)
           eol == Find(msg.text, Newline, sol)
           d == <<"#">>
           open == mysprintf(head, d)
           record == IF head.isError THEN head ELSE LastField(open, eol)
           l == Clean(Line) \o <<Newline>>
           g == Lead \o h
<1>1. h \in Text /\ d \in Text /\ Lead \in Text /\ Before(h) = g \o d
  <2>1. h \in Text
    BY CleanIs
  <2> QED BY <2>1, PiecesAreText, Zenon DEF Before
<1>2. g \in Text
  BY <1>1, BeforeIs
<1>3. Line \in Text /\ Clean(Line) \in Text
  <2>1. Line \in Text
    BY LineAndRest
  <2> QED BY <2>1, CleanIs
<1>4. head = mysprintf(encoded, g)
  BY HeaderIs
<1> HIDE DEF d, h, g, head, eol
<1>5. open = mysprintf(encoded, Before(h))
  BY <1>1, <1>2, <1>4, WriteTwice
<1>6. Good(head)
  BY <1>2, <1>4, WriteGood
<1>7. Good(open)
  BY <1>1, <1>6, WriteGood
<1>8. head.isError => open = head
  BY Zenon DEF mysprintf
<1>9. record = mysprintf(open, l)
  <2>1. CASE head.isError
    <3>1. mysprintf(head, l) = head
      BY <2>1, Zenon DEF mysprintf
    <3> QED BY <1>8, <2>1, <3>1, Zenon
  <2>2. CASE ~head.isError
    <3>1. eol = Find(msg.text, Newline, sol)
      BY Zenon DEF eol
    <3> HIDE DEF open, l
    <3>2. LastField(open, eol) = mysprintf(open, l)
      BY <1>7, <3>1, LastFieldIs DEF l
    <3> QED BY <2>2, <3>2, Zenon
  <2> QED BY <2>1, <2>2, Zenon
<1> QED BY <1>1, <1>3, <1>5, <1>7, <1>8, <1>9, Zenon DEF h, d, head, eol

-----------------------------------------------------------------------------
(* The characters of a record, by their places.                            *)
LEMMA RecordPlaces ==
  ASSUME NEW h \in Text, NEW l \in Text
  PROVE  LET r == RecordOf(h, l)
         IN  /\ Len(r) = Len(h) + Len(l) + 4
             /\ r[1] = "*" /\ r[2] = "1" /\ r[3] = "#" /\ r[Len(h) + 4] = "#"
             /\ \A i \in 1 .. Len(h) : r[i + 3] = h[i]
             /\ \A i \in 1 .. Len(l) : r[Len(h) + i + 4] = l[i]
<1> DEFINE a == Lead \o h
           d == <<"#">>
           b == a \o d
           r == b \o l
           m == Len(h)
           n == Len(l)
<1>1. /\ Lead \in Seq(Char) /\ Len(Lead) = 3 /\ d \in Seq(Char)
      /\ h \in Seq(Char) /\ l \in Seq(Char) /\ m \in Nat /\ n \in Nat
  BY PiecesAreText DEF Text
<1>2. Len(d) = 1 /\ d[1] = "#"
  OBVIOUS
<1> DEFINE L1 == Lead[1]
           L2 == Lead[2]
           L3 == Lead[3]
           D1 == d[1]
<1>3. /\ a \in Seq(Char) /\ Len(a) = m + 3
      /\ \A i \in 1 .. 3 + m : a[i] = IF i <= 3 THEN Lead[i] ELSE h[i - 3]
  <2>1. /\ a \in Seq(Char) /\ Len(a) = Len(Lead) + m
        /\ \A i \in 1 .. Len(Lead) + m :
             a[i] = IF i <= Len(Lead) THEN Lead[i] ELSE h[i - Len(Lead)]
    BY <1>1, ConcatProperties
  <2> HIDE DEF a, m
  <2>2. Len(a) = m + 3
    BY <1>1, <2>1
  <2> QED BY <1>1, <2>1, <2>2, Zenon
<1> HIDE DEF a, d
<1>4. /\ b \in Seq(Char) /\ Len(b) = m + 4
      /\ \A i \in 1 .. m + 3 : b[i] = a[i]
      /\ b[m + 4] = d[1]
  <2>1. /\ b \in Seq(Char) /\ Len(b) = Len(a) + Len(d)
        /\ \A i \in 1 .. Len(a) + Len(d) : b[i] = IF i <= Len(a) THEN a[i] ELSE d[i - Len(a)]
    BY <1>1, <1>3, ConcatProperties
  <2>2. Len(a) = m + 3 /\ Len(d) = 1
    BY <1>2, <1>3
  <2> HIDE DEF b, m
  <2>3. \A i \in 1 .. m + 4 : b[i] = IF i <= m + 3 THEN a[i] ELSE d[i - (m + 3)]
    BY <1>1, <2>1, <2>2
  <2>4. m + 4 \in 1 .. m + 4 /\ ~(m + 4 <= m + 3) /\ (m + 4) - (m + 3) = 1
    BY <1>1
  <2>5. \A i \in 1 .. m + 3 : i \in 1 .. m + 4 /\ i <= m + 3
    BY <1>1
  <2> QED BY <1>1, <2>1, <2>2, <2>3, <2>4, <2>5
<1> HIDE DEF b
<1>5. /\ Len(r) = m + 4 + n
      /\ \A i \in 1 .. m + 4 + n : r[i] = IF i <= m + 4 THEN b[i] ELSE l[i - (m + 4)]
  <2>1. /\ Len(r) = Len(b) + Len(l)
        /\ \A i \in 1 .. Len(b) + Len(l) : r[i] = IF i <= Len(b) THEN b[i] ELSE l[i - Len(b)]
    BY <1>1, <1>4, ConcatProperties
  <2> QED BY <1>4, <2>1, Zenon
<1> HIDE DEF r, m, n
<1>6. \A i \in 1 .. 3 : r[i] = Lead[i]
  <2> SUFFICES ASSUME NEW i \in 1 .. 3 PROVE r[i] = Lead[i]
    OBVIOUS
  <2>1. i \in 1 .. m + 4 + n /\ i <= m + 4 /\ i \in 1 .. m + 3 /\ i \in 1 .. 3 + m /\ i <= 3
    BY <1>1
  <2> QED BY <1>3, <1>4, <1>5, <2>1
<1>7. \A i \in 1 .. m : r[i + 3] = h[i]
  <2> SUFFICES ASSUME NEW i \in 1 .. m PROVE r[i + 3] = h[i]
    OBVIOUS
  <2> DEFINE j == i + 3
  <2>1. /\ j \in 1 .. m + 4 + n /\ j <= m + 4 /\ j \in 1 .. m + 3 /\ j \in 1 .. 3 + m
        /\ ~(j <= 3) /\ j - 3 = i
    BY <1>1
  <2> HIDE DEF j
  <2>2. r[j] = h[i]
    BY <1>3, <1>4, <1>5, <2>1
  <2> QED BY <2>2 DEF j
<1>8. r[m + 4] = d[1]
  <2> DEFINE j == m + 4
  <2>1. j \in 1 .. m + 4 + n /\ j <= m + 4
    BY <1>1
  <2> HIDE DEF j
  <2>2. r[j] = b[j]
    BY <1>5, <2>1
  <2> QED BY <1>4, <2>2 DEF j
<1>9. \A i \in 1 .. n : r[m + i + 4] = l[i]
  <2> SUFFICES ASSUME NEW i \in 1 .. n PROVE r[m + i + 4] = l[i]
    OBVIOUS
  <2> DEFINE j == m + i + 4
  <2>1. j \in 1 .. m + 4 + n /\ ~(j <= m + 4) /\ j - (m + 4) = i
    BY <1>1
  <2> HIDE DEF j
  <2>2. r[j] = l[i]
    BY <1>5, <2>1
  <2> QED BY <2>2 DEF j
<1>10. Len(r) = m + n + 4
  BY <1>1, <1>5
<1>11. r = RecordOf(h, l)
  BY Zenon DEF r, b, a, d, RecordOf, Before
<1>12. 1 \in 1 .. 3 /\ 2 \in 1 .. 3 /\ 3 \in 1 .. 3
  OBVIOUS
<1>13. r[1] = "*" /\ r[2] = "1" /\ r[3] = "#"
  BY <1>6, <1>12, PiecesAreText, Zenon
<1> QED BY <1>2, <1>7, <1>8, <1>9, <1>10, <1>11, <1>13, Zenon DEF m, n

(* It decodes to its fields.                                               *)
LEMMA DecodeIs ==
  ASSUME NEW h \in Text, NEW l \in Text, \A i \in 1 .. Len(h) : h[i] # "#"
  PROVE  DecodeRecord(RecordOf(h, l)) = [header |-> h, text |-> l]
<1> DEFINE r == RecordOf(h, l)
           m == Len(h)
           n == Len(l)
           k == m + 4
<1>1. /\ r \in Text /\ Len(r) = m + n + 4 /\ m \in Nat /\ n \in Nat
      /\ r[1] = "*" /\ r[2] = "1" /\ r[3] = "#" /\ r[m + 4] = "#"
      /\ \A i \in 1 .. m : r[i + 3] = h[i]
      /\ \A i \in 1 .. n : r[m + i + 4] = l[i]
  <2>1. r \in Text
    BY BeforeIs
  <2>2. m \in Nat /\ n \in Nat
    BY DEF Text
  <2>3. Len(r) = Len(h) + Len(l) + 4
    BY RecordPlaces
  <2>4. r[1] = "*" /\ r[2] = "1" /\ r[3] = "#" /\ r[Len(h) + 4] = "#"
    BY RecordPlaces
  <2>5. /\ \A i \in 1 .. Len(h) : r[i + 3] = h[i]
        /\ \A i \in 1 .. Len(l) : r[Len(h) + i + 4] = l[i]
    BY RecordPlaces
  <2> QED BY <2>1, <2>2, <2>3, <2>4, <2>5, Zenon
<1> HIDE DEF r
<1>2. Find(r, "#", 1) = 3
  <2> HIDE DEF m, n
  <2>1. 3 \in 1 .. Len(r) /\ 1 \in Nat \ {0}
    BY <1>1
  <2>2. \A i \in 1 .. 3 - 1 : r[i] # "#"
    <3>1. \A i \in 1 .. 3 - 1 : i = 1 \/ i = 2
      OBVIOUS
    <3>2. r[1] # "#" /\ r[2] # "#"
      BY <1>1
    <3> QED BY <3>1, <3>2
  <2> QED BY <1>1, <2>1, <2>2, FindAt
<1>3. Find(r, "#", 4) = k
  <2>1. k \in 4 .. Len(r) /\ 4 \in Nat \ {0}
    <3> HIDE DEF m, n
    <3> QED BY <1>1
  <2>2. ASSUME NEW i \in 4 .. k - 1 PROVE r[i] # "#"
    <3> DEFINE j == i - 3
    <3>1. j \in 1 .. m /\ j + 3 = i
      BY <1>1
    <3> HIDE DEF j
    <3> QED BY <1>1, <3>1
  <2>3. r[k] = "#"
    BY <1>1
  <2>4. r \in Text
    BY <1>1
  <2> HIDE DEF k
  <2> QED BY <2>1, <2>2, <2>3, <2>4, FindAt
<1>4. SubSeq(r, 2, 2) = Version
  <2> DEFINE a == SubSeq(r, 2, 2)
  <2>1. Len(r) \in Nat /\ Len(r) >= 4
    BY <1>1
  <2>2. a \in Seq(Char) /\ Len(a) = 1 /\ a[1] = r[2]
    BY <1>1, <2>1 DEF Text
  <2> HIDE DEF a
  <2>3. a = <<r[2]>>
    BY <2>2
  <2> QED BY <1>1, <2>3, Zenon DEF a, Version
<1>5. SubSeq(r, 4, k - 1) = h
  <2> DEFINE a == SubSeq(r, 4, k - 1)
  <2>1. Len(r) \in Nat /\ k \in Nat /\ k - 1 <= Len(r) /\ k >= 4 /\ k - 4 = m
    BY <1>1
  <2> HIDE DEF k, m
  <2>2. a \in Seq(Char) /\ Len(a) = m /\ \A i \in 1 .. m : a[i] = r[i + 3]
    BY <1>1, <2>1 DEF Text
  <2> HIDE DEF a
  <2>3. h \in Seq(Char) /\ Len(a) = Len(h) /\ \A i \in 1 .. Len(a) : a[i] = h[i]
    BY <1>1, <2>2 DEF m, Text
  <2>4. a = h
    BY <2>2, <2>3, SeqEqual
  <2> QED BY <2>4 DEF a
<1>6. SubSeq(r, k + 1, Len(r)) = l
  <2> DEFINE a == SubSeq(r, k + 1, Len(r))
  <2>1. Len(r) \in Nat /\ k \in Nat /\ Len(r) = k + n /\ n \in Nat
    BY <1>1
  <2>2. \A i \in 1 .. n : m + i + 4 = k + i
    BY <1>1
  <2> HIDE DEF k, n
  <2>3. a \in Seq(Char) /\ Len(a) = n /\ \A i \in 1 .. n : a[i] = r[k + i]
    BY <1>1, <2>1 DEF Text
  <2> HIDE DEF a, m
  <2>4. l \in Seq(Char) /\ Len(a) = Len(l) /\ \A i \in 1 .. Len(a) : a[i] = l[i]
    <3>1. l \in Seq(Char) /\ Len(a) = Len(l) /\ Len(a) = n
      BY <2>3 DEF n, Text
    <3>2. ASSUME NEW i \in 1 .. n PROVE a[i] = l[i]
      <4>1. r[m + i + 4] = l[i] /\ m + i + 4 = k + i /\ a[i] = r[k + i]
        BY <1>1, <2>2, <2>3, Zenon
      <4> QED BY <4>1, Zenon
    <3> QED BY <3>1, <3>2
  <2>5. a = l
    BY <2>3, <2>4, SeqEqual
  <2> QED BY <2>5 DEF a
<1>7. r # <<>>
  BY <1>1
<1>8. k # 0
  BY <1>1
<1> DEFINE f == Find(r, "#", 1)
           g == Find(r, "#", f + 1)
<1>9. f = 3 /\ f + 1 = 4 /\ f - 1 = 2 /\ f # 0
  BY <1>2
<1>10. g = k
  BY <1>3, <1>9, Zenon
<1> HIDE DEF k
<1>11. DecodeRecord(r) =
         IF /\ r # <<>> /\ r[1] = "*"
            /\ f # 0 /\ g # 0 /\ SubSeq(r, 2, f - 1) = Version
         THEN [header |-> SubSeq(r, f + 1, g - 1), text |-> SubSeq(r, g + 1, Len(r))]
         ELSE Undecodable
  BY Zenon DEF DecodeRecord
<1> HIDE DEF f, g
<1>12. /\ SubSeq(r, 2, f - 1) = Version /\ SubSeq(r, f + 1, g - 1) = h
       /\ SubSeq(r, g + 1, Len(r)) = l
  BY <1>4, <1>5, <1>6, <1>9, <1>10, Zenon
<1>13. DecodeRecord(r) = [header |-> h, text |-> l]
  BY <1>1, <1>7, <1>8, <1>9, <1>10, <1>11, <1>12, Zenon
<1> QED BY <1>13 DEF r

-----------------------------------------------------------------------------
(* The text t has the records of the last fields L, all with the header h, *)
(* and something after them.                                               *)
Sent(h, t, L) ==
  /\ L \in Seq(Text)
  /\ Len(Split(t, Newline)) = Len(L) + 1
  /\ \A i \in 1 .. Len(L) : Split(t, Newline)[i] = RecordOf(h, L[i])
NothingAfter(t, n) == Split(t, Newline)[n + 1] = <<>>

(* A record has the ends of line of its fields only, and a field with more *)
(* at its end is a record with more at its end.                            *)
LEMMA RecordIsLine ==
  ASSUME NEW h \in Text, NEW l \in Text,
         \A i \in 1 .. Len(h) : h[i] # Newline, \A i \in 1 .. Len(l) : l[i] # Newline
  PROVE  \A i \in 1 .. Len(RecordOf(h, l)) : RecordOf(h, l)[i] # Newline
<1> DEFINE r == RecordOf(h, l)
           m == Len(h)
           n == Len(l)
<1>1. m \in Nat /\ n \in Nat
  BY DEF Text
<1>2. Len(r) = m + n + 4
  BY RecordPlaces
<1>3. r[1] # Newline /\ r[2] # Newline /\ r[3] # Newline /\ r[m + 4] # Newline
  <2>1. r[1] = "*" /\ r[2] = "1" /\ r[3] = "#" /\ r[m + 4] = "#"
    BY RecordPlaces
  <2> HIDE DEF r
  <2> QED BY <2>1 DEF Newline
<1>4. /\ \A i \in 1 .. m : r[i + 3] = h[i]
      /\ \A i \in 1 .. n : r[m + i + 4] = l[i]
  BY RecordPlaces
<1>5. \A i \in 1 .. m : h[i] # Newline
  OBVIOUS
<1>6. \A i \in 1 .. n : l[i] # Newline
  OBVIOUS
<1> HIDE DEF r, m, n
<1>7. ASSUME NEW i \in 1 .. Len(r) PROVE r[i] # Newline
  <2>1. \/ i \in {1, 2, 3} \/ i = m + 4
        \/ i - 3 \in 1 .. m /\ i = (i - 3) + 3
        \/ i - m - 4 \in 1 .. n /\ i = m + (i - m - 4) + 4
    BY <1>1, <1>2
  <2>2. CASE i \in {1, 2, 3} \/ i = m + 4
    BY <1>3, <2>2
  <2>3. CASE i - 3 \in 1 .. m /\ i = (i - 3) + 3
    <3> DEFINE j == i - 3
    <3>1. j \in 1 .. m /\ i = j + 3
      BY <2>3
    <3> HIDE DEF j
    <3>2. r[i] = h[j] /\ h[j] # Newline
      BY <1>4, <1>5, <3>1
    <3> QED BY <3>2
  <2>4. CASE i - m - 4 \in 1 .. n /\ i = m + (i - m - 4) + 4
    <3> DEFINE j == i - m - 4
    <3>1. j \in 1 .. n /\ i = m + j + 4
      BY <2>4
    <3> HIDE DEF j
    <3>2. r[i] = l[j] /\ l[j] # Newline
      BY <1>4, <1>6, <3>1
    <3> QED BY <3>2
  <2> QED BY <2>1, <2>2, <2>3, <2>4
<1> QED BY <1>7 DEF r

(* An end of line ends the last part.                                      *)
LEMMA SplitEnd ==
  ASSUME NEW t \in Text
  PROVE  /\ Split(t, Newline) \in Parts(Char)
         /\ Split(t \o <<Newline>>, Newline) = Append(Split(t, Newline), <<>>)
<1>1. Newline \in Char /\ t \in Seq(Char)
  BY DEF Char, Special, Text
<1>2. t \o <<Newline>> = Append(t, Newline)
  BY <1>1, AppendIsConcat
<1>3. Split(Append(t, Newline), Newline) = Gather(Split(t, Newline), Newline, Newline)
  BY <1>1, SplitMore
<1>4. Split(t, Newline) \in Parts(Char)
  BY <1>1, SplitType
<1> QED BY <1>2, <1>3, <1>4, Zenon DEF Gather

(* A line, and its end: the parts that there are then.                     *)
LineMore(p, q, r, n) ==
  Len(q) = n + 1 /\ q[n + 1] = p[n + 1] \o r /\ \A i \in 1 .. n : q[i] = p[i]
LineEnds(p, e, r, n) ==
  /\ Len(e) = n + 2 /\ e[n + 1] = p[n + 1] \o r /\ e[n + 2] = <<>>
  /\ \A i \in 1 .. n : e[i] = p[i]

LEMMA SplitLineEnd ==
  ASSUME NEW t \in Text, NEW r \in Text, \A i \in 1 .. Len(r) : r[i] # Newline,
         NEW n \in Nat, Len(Split(t, Newline)) = n + 1
  PROVE  /\ LineMore(Split(t, Newline), Split(t \o r, Newline), r, n)
         /\ LineEnds(Split(t, Newline), Split((t \o r) \o <<Newline>>, Newline), r, n)
<1> DEFINE p == Split(t, Newline)
           q == Split(t \o r, Newline)
           e == Split((t \o r) \o <<Newline>>, Newline)
           D == Seq(Char)
<1>1. t \o r \in Text
  BY JoinIs
<1>2. p \in Parts(Char) /\ q \in Parts(Char) /\ e = Append(q, <<>>)
  BY <1>1, SplitEnd
<1>3. q = WithLast(p, r)
  <2>1. t \in Seq(Char) /\ r \in Seq(Char)
    BY DEF Text
  <2> QED BY <2>1, SplitLine
<1>4. Len(p) = n + 1
  OBVIOUS
<1> HIDE DEF p, q, e
<1>5. /\ Len(q) = n + 1 /\ q[n + 1] = p[n + 1] \o r
      /\ \A i \in 1 .. n : q[i] = p[i]
  <2>1. r \in Seq(Char)
    BY DEF Text
  <2>2. /\ Len(WithLast(p, r)) = Len(p)
        /\ WithLast(p, r)[Len(p)] = p[Len(p)] \o r
        /\ \A i \in 1 .. Len(p) - 1 : WithLast(p, r)[i] = p[i]
    BY <1>2, <2>1, LastIs
  <2>3. Len(p) - 1 = n
    BY <1>4
  <2> QED BY <1>3, <1>4, <2>2, <2>3
<1>6. <<>> \in D /\ q \in Seq(D)
  BY <1>2, PiecesAreText, Zenon DEF Parts, Text
<1> HIDE DEF D
<1>7. /\ Len(e) = n + 2 /\ e[n + 2] = <<>>
      /\ \A i \in 1 .. n + 1 : e[i] = q[i]
  BY <1>2, <1>5, <1>6
<1>8. n + 1 \in 1 .. n + 1 /\ \A i \in 1 .. n : i \in 1 .. n + 1
  OBVIOUS
<1>9. LineMore(p, q, r, n)
  BY <1>5 DEF LineMore
<1>10. LineEnds(p, e, r, n)
  BY <1>5, <1>7, <1>8, Zenon DEF LineEnds
<1> QED BY <1>9, <1>10, Zenon DEF p, q, e

(* One more record.                                                        *)
LEMMA SentMore ==
  ASSUME NEW h \in Text, NEW t \in Text, NEW L, Sent(h, t, L), NothingAfter(t, Len(L)),
         \A i \in 1 .. Len(h) : h[i] # Newline,
         NEW l \in Text, \A i \in 1 .. Len(l) : l[i] # Newline
  PROVE  LET u == (t \o RecordOf(h, l)) \o <<Newline>>
         IN  u \in Text /\ Sent(h, u, Append(L, l)) /\ NothingAfter(u, Len(L) + 1)
<1> DEFINE r == RecordOf(h, l)
           u == (t \o r) \o <<Newline>>
           p == Split(t, Newline)
           e == Split(u, Newline)
           n == Len(L)
           M == Append(L, l)
           D == Text
<1>1. r \in Text /\ u \in Text
  <2>1. r \in Text /\ <<Newline>> \in Text
    BY BeforeIs, PiecesAreText
  <2>2. t \o r \in Text
    BY <2>1, JoinIs
  <2> QED BY <2>1, <2>2, JoinIs
<1>2. \A i \in 1 .. Len(r) : r[i] # Newline
  BY RecordIsLine
<1>3. /\ L \in Seq(Text) /\ n \in Nat /\ Len(p) = n + 1 /\ p[n + 1] = <<>>
      /\ \A i \in 1 .. n : p[i] = RecordOf(h, L[i])
  BY DEF Sent, NothingAfter
<1> HIDE DEF r, n
<1>4. /\ Len(e) = n + 2 /\ e[n + 1] = p[n + 1] \o r /\ e[n + 2] = <<>>
      /\ \A i \in 1 .. n : e[i] = p[i]
  <2>1. r \in Text /\ n \in Nat /\ Len(Split(t, Newline)) = n + 1
    BY <1>1, <1>3
  <2>2. LineEnds(p, e, r, n)
    BY <1>2, <2>1, SplitLineEnd, Zenon
  <2> QED BY <2>2, Zenon DEF LineEnds
<1>5. p[n + 1] \o r = r
  BY <1>1, <1>3 DEF Text
<1>6. /\ M \in Seq(Text) /\ Len(M) = n + 1 /\ M[n + 1] = l
      /\ \A i \in 1 .. n : M[i] = L[i]
  <2> HIDE DEF D
  <2>1. L \in Seq(D) /\ l \in D
    BY <1>3 DEF D
  <2>2. /\ M \in Seq(D) /\ Len(M) = n + 1 /\ M[n + 1] = l
        /\ \A i \in 1 .. n : M[i] = L[i]
    BY <2>1, AppendProperties DEF n
  <2> QED BY <2>2 DEF D
<1> HIDE DEF M, e, p, u
<1>7. ASSUME NEW i \in 1 .. n + 1 PROVE e[i] = RecordOf(h, M[i])
  <2>1. i \in 1 .. n \/ i = n + 1
    BY <1>3
  <2>2. CASE i \in 1 .. n
    BY <1>3, <1>4, <1>6, <2>2
  <2>3. CASE i = n + 1
    BY <1>4, <1>5, <1>6, <2>3 DEF r
  <2> QED BY <2>1, <2>2, <2>3
<1>8. n + 2 = (n + 1) + 1
  BY <1>3
<1>9. Sent(h, u, M)
  BY <1>4, <1>6, <1>7, <1>8, Zenon DEF Sent, e
<1>10. NothingAfter(u, n + 1)
  BY <1>4, <1>8, Zenon DEF NothingAfter, e
<1> QED BY <1>1, <1>9, <1>10, Zenon DEF u, r, M, n

(* The mark at the end of the last record, in place of its end.            *)
LEMMA SentMark ==
  ASSUME NEW h \in Text, NEW u \in Text, NEW L, L # <<>>,
         Sent(h, u \o <<Newline>>, L), \A i \in 1 .. Len(L) : L[i] \in Text
  PROVE  LET v == u \o Mark
             l == L[Len(L)] \o <<Mark[1]>>
         IN  v \in Text /\ Sent(h, v, [L EXCEPT ![Len(L)] = l])
<1> DEFINE d == <<Mark[1]>>
           v == (u \o d) \o <<Newline>>
           t == u \o <<Newline>>
           n == Len(L) - 1
           p == Split(t, Newline)
           q == Split(u, Newline)
           e == Split(v, Newline)
           l == L[Len(L)] \o d
           M == [L EXCEPT ![Len(L)] = l]
           D == Text
<1>1. /\ d \in Text /\ <<Newline>> \in Text /\ Mark = d \o <<Newline>>
  BY PiecesAreText
<1>2. \A i \in 1 .. Len(d) : d[i] # Newline
  BY DEF Mark, Newline
<1>3. /\ L \in Seq(Text) /\ Len(L) \in Nat /\ n \in Nat /\ Len(L) = n + 1
      /\ Len(p) = Len(L) + 1
      /\ \A i \in 1 .. Len(L) : p[i] = RecordOf(h, L[i])
  <2>1. L \in Seq(Text) /\ Len(p) = Len(L) + 1 /\ \A i \in 1 .. Len(L) : p[i] = RecordOf(h, L[i])
    BY DEF Sent
  <2> HIDE DEF D
  <2>2. L \in Seq(D)
    BY <2>1 DEF D
  <2>3. Len(L) \in Nat /\ Len(L) # 0
    BY <2>2
  <2> QED BY <2>1, <2>3
<1>4. v \in Text /\ v = u \o Mark
  <2>1. u \o d \in Text
    BY <1>1, JoinIs
  <2>2. (u \o d) \o <<Newline>> = u \o (d \o <<Newline>>)
    BY <1>1, JoinIs
  <2> QED BY <1>1, <2>1, <2>2, JoinIs, Zenon
<1> HIDE DEF d
<1>5. q \in Parts(Char) /\ p = Append(q, <<>>)
  BY SplitEnd
<1> HIDE DEF p, q
<1>6. Len(q) = n + 1 /\ \A i \in 1 .. n + 1 : q[i] = RecordOf(h, L[i])
  <2> DEFINE E == Seq(Char)
  <2>1. q \in Seq(E) /\ <<>> \in E
    BY <1>5, PiecesAreText, Zenon DEF Parts, Text
  <2> HIDE DEF E, n
  <2>2. Len(q) \in Nat /\ Len(p) = Len(q) + 1 /\ \A i \in 1 .. Len(q) : p[i] = q[i]
    BY <1>5, <2>1
  <2> QED BY <1>3, <2>2
<1> HIDE DEF e
<1>7. /\ Len(e) = n + 2 /\ e[n + 1] = q[n + 1] \o d
      /\ \A i \in 1 .. n : e[i] = q[i]
  <2> HIDE DEF n
  <2>1. n \in Nat /\ Len(Split(u, Newline)) = n + 1
    BY <1>3, <1>6 DEF q
  <2>2. LineEnds(q, e, d, n)
    BY <1>1, <1>2, <2>1, SplitLineEnd, Zenon DEF q, e
  <2> QED BY <2>2, Zenon DEF LineEnds
<1>8. L[Len(L)] \in Text /\ l \in Text
  <2>1. Len(L) \in 1 .. Len(L)
    BY <1>3
  <2>2. L[Len(L)] \in Text
    BY <2>1
  <2> QED BY <1>1, <2>2, JoinIs
<1>9. q[n + 1] \o d = RecordOf(h, l)
  <2>1. n + 1 \in 1 .. n + 1 /\ n + 1 = Len(L)
    BY <1>3
  <2>2. q[n + 1] = RecordOf(h, L[Len(L)])
    BY <1>6, <2>1, Zenon
  <2>3. RecordOf(h, L[Len(L)]) \o d = RecordOf(h, L[Len(L)] \o d)
    <3>1. Longer(h, L[Len(L)], d)
      BY <1>1, <1>8, RecordMore
    <3> QED BY <3>1, Zenon DEF Longer
  <2> QED BY <2>2, <2>3, Zenon
<1>10. /\ M \in Seq(Text) /\ Len(M) = n + 1 /\ M[n + 1] = l
       /\ \A i \in 1 .. n : M[i] = L[i]
  <2> HIDE DEF l
  <2>1. L \in Seq(D) /\ L # <<>> /\ l \in D
    BY <1>3, <1>8
  <2> HIDE DEF D
  <2>2. HasLast(L, M, l, D)
    BY <2>1, ExceptLast, Zenon
  <2> QED BY <1>3, <2>2, Zenon DEF D, HasLast
<1> HIDE DEF M, n, l
<1>11. ASSUME NEW i \in 1 .. n + 1 PROVE e[i] = RecordOf(h, M[i])
  <2>1. i \in 1 .. n \/ i = n + 1
    BY <1>3
  <2>2. CASE i \in 1 .. n
    <3>1. i \in 1 .. n + 1
      OBVIOUS
    <3> QED BY <1>6, <1>7, <1>10, <2>2, <3>1, Zenon
  <2>3. CASE i = n + 1
    BY <1>7, <1>9, <1>10, <2>3, Zenon
  <2> QED BY <2>1, <2>2, <2>3
<1>12. n + 2 = (n + 1) + 1
  BY <1>3
<1>13. Sent(h, v, M)
  BY <1>7, <1>10, <1>11, <1>12, Zenon DEF Sent, e
<1> QED BY <1>4, <1>13, Zenon DEF M, l, d

(* Cleaning the beginning of a text is beginning its clean form.           *)
LEMMA CleanStart ==
  ASSUME NEW t \in Text, NEW k \in 0 .. Len(t)
  PROVE  /\ SubSeq(Clean(t), 1, k) = Clean(SubSeq(t, 1, k))
         /\ SubSeq(t, 1, k) \in Text
<1> DEFINE u == SubSeq(t, 1, k)
           c == Clean(t)
           a == SubSeq(c, 1, k)
           b == Clean(u)
<1>1. Len(t) \in Nat /\ k \in Nat /\ k <= Len(t)
  BY DEF Text
<1>2. u \in Text /\ Len(u) = k /\ \A i \in 1 .. k : u[i] = t[i]
  BY <1>1 DEF Text
<1>3. /\ c \in Text /\ Len(c) = Len(t)
      /\ \A i \in 1 .. Len(t) : c[i] = IF t[i] \in Special THEN "?" ELSE t[i]
  BY CleanIs
<1> HIDE DEF u, c
<1>4. /\ b \in Text /\ Len(b) = k
      /\ \A i \in 1 .. k : b[i] = IF u[i] \in Special THEN "?" ELSE u[i]
  BY <1>2, CleanIs
<1>5. a \in Text /\ Len(a) = k /\ \A i \in 1 .. k : a[i] = c[i]
  BY <1>1, <1>3 DEF Text
<1> HIDE DEF a, b
<1>6. \A i \in 1 .. k : a[i] = b[i]
  BY <1>1, <1>2, <1>3, <1>4, <1>5
<1>7. a = b
  BY <1>4, <1>5, <1>6, SeqEqual DEF Text
<1> QED BY <1>2, <1>7 DEF a, b, c, u

(* The text up to position sol ends a line; so the line at sol is the next *)
(* part of the text, and the last one when there is no end of line any     *)
(* more.                                                                   *)
Lines(i) == Split(SubSeq(msg.text, 1, i), Newline)
Wanted == Split(msg.text, Newline)

LEMMA TextIsLines ==
  ASSUME msg.text \in Text, sol \in 1 .. Len(msg.text) + 1
  PROVE  LET eol    == Find(msg.text, Newline, sol)
             behind == SubSeq(msg.text, 1, sol - 1)
         IN  /\ behind \in Text
             /\ eol = 0 => msg.text = behind \o Line
             /\ eol # 0 => /\ SubSeq(msg.text, 1, eol) = (behind \o Line) \o <<Newline>>
                           /\ SubSeq(msg.text, 1, eol) \in Text
                           /\ \E u \in Text : msg.text = SubSeq(msg.text, 1, eol) \o u
<1> DEFINE t == msg.text
           eol == Find(t, Newline, sol)
           m == IF eol = 0 THEN Len(t) ELSE eol - 1
           behind == SubSeq(t, 1, sol - 1)
           now == SubSeq(t, 1, eol)
<1>1. t \in Seq(Char) /\ Len(t) \in Nat /\ sol \in 1 .. Len(t) + 1
  BY DEF Text
<1>2. Line = SubSeq(t, sol, m)
  BY Zenon DEF Line
<1>3. eol # 0 => eol \in sol .. Len(t) /\ t[eol] = Newline
  BY LineAndRest
<1> HIDE DEF t, eol
<1>4. m \in sol - 1 .. Len(t) /\ m \in Nat
  BY <1>1, <1>3
<1>5. behind \in Text
  BY <1>1 DEF Text
<1>6. behind \o Line = SubSeq(t, 1, m)
  <2> HIDE DEF m
  <2>1. 1 \in 1 .. Len(t) + 1 /\ sol - 1 \in 1 - 1 .. Len(t) /\ m \in sol - 1 .. Len(t)
        /\ (sol - 1) + 1 = sol
    BY <1>1, <1>4
  <2>2. SubSeq(t, 1, sol - 1) \o SubSeq(t, (sol - 1) + 1, m) = SubSeq(t, 1, m)
    BY <1>1, <2>1, ConcatAdjacentSubSeq
  <2> QED BY <1>2, <2>1, <2>2, Zenon
<1>7. ASSUME eol = 0 PROVE t = behind \o Line
  <2>1. SubSeq(t, 1, Len(t)) = t
    BY <1>1
  <2>2. m = Len(t)
    BY <1>7, Zenon
  <2> QED BY <1>6, <2>1, <2>2, Zenon
<1>8. ASSUME eol # 0
      PROVE  /\ now = (behind \o Line) \o <<Newline>> /\ now \in Text
             /\ \E u \in Text : t = now \o u
  <2>1. eol \in sol .. Len(t) /\ t[eol] = Newline /\ eol \in Nat /\ m = eol - 1
    BY <1>1, <1>3, <1>8
  <2> HIDE DEF m
  <2> DEFINE d == SubSeq(t, eol, eol)
             u == SubSeq(t, eol + 1, Len(t))
  <2>2. now \in Text /\ u \in Text
    BY <1>1, <2>1 DEF Text
  <2>3. d = <<Newline>>
    <3>1. d \in Seq(Char) /\ Len(d) = 1 /\ d[1] = t[eol]
      BY <1>1, <2>1
    <3> HIDE DEF d
    <3>2. d = <<t[eol]>>
      BY <3>1
    <3> QED BY <2>1, <3>2, Zenon
  <2>4. SubSeq(t, 1, m) \o d = now
    <3>1. 1 \in 1 .. Len(t) + 1 /\ m \in 1 - 1 .. Len(t) /\ eol \in m .. Len(t)
          /\ m + 1 = eol
      BY <1>1, <2>1
    <3>2. SubSeq(t, 1, m) \o SubSeq(t, m + 1, eol) = SubSeq(t, 1, eol)
      BY <1>1, <3>1, ConcatAdjacentSubSeq
    <3> QED BY <3>1, <3>2, Zenon
  <2>5. t = now \o u
    <3>1. 1 \in 1 .. Len(t) + 1 /\ eol \in 1 - 1 .. Len(t) /\ Len(t) \in eol .. Len(t)
      BY <1>1, <2>1
    <3>2. SubSeq(t, 1, eol) \o SubSeq(t, eol + 1, Len(t)) = SubSeq(t, 1, Len(t))
      BY <1>1, <3>1, ConcatAdjacentSubSeq
    <3>3. SubSeq(t, 1, Len(t)) = t
      BY <1>1
    <3> QED BY <3>2, <3>3, Zenon
  <2> QED BY <1>6, <2>2, <2>3, <2>4, <2>5, Zenon
<1> QED BY <1>5, <1>7, <1>8, Zenon DEF t, eol

LEMMA NextLine ==
  ASSUME msg.text \in Text, sol \in 1 .. Len(msg.text) + 1, NEW n \in Nat,
         Len(Lines(sol - 1)) = n + 1, Lines(sol - 1)[n + 1] = <<>>,
         NEW eol, eol = Find(msg.text, Newline, sol)
  PROVE  /\ n + 1 <= Len(Wanted) /\ Wanted[n + 1] = Line
         /\ \A i \in 1 .. n : Wanted[i] = Lines(sol - 1)[i]
         /\ eol = 0 => Len(Wanted) = n + 1
         /\ eol # 0 => LineEnds(Lines(sol - 1), Lines(eol), Line, n)
<1> DEFINE behind == SubSeq(msg.text, 1, sol - 1)
           p == Split(behind, Newline)
           q == Split(behind \o Line, Newline)
           now == SubSeq(msg.text, 1, eol)
           e == Split(now, Newline)
<1>1. /\ behind \in Text
      /\ eol = 0 => msg.text = behind \o Line
      /\ eol # 0 => /\ now = (behind \o Line) \o <<Newline>> /\ now \in Text
                    /\ \E u \in Text : msg.text = now \o u
  BY TextIsLines
<1>2. Line \in Text /\ \A i \in 1 .. Len(Line) : Line[i] # Newline
  BY LineAndRest
<1>3. Lines(sol - 1) = p /\ Lines(eol) = e /\ Len(p) = n + 1 /\ p[n + 1] = <<>>
  BY DEF Lines
<1> HIDE DEF behind, now
<1>4. p[n + 1] \o Line = Line
  BY <1>2, <1>3 DEF Text
<1>5. CASE eol = 0
  <2>1. LineMore(p, q, Line, n)
    BY <1>1, <1>2, <1>3, SplitLineEnd, Zenon
  <2>2. Wanted = q
    BY <1>1, <1>5, Zenon DEF Wanted
  <2> HIDE DEF p, q
  <2>3. Len(q) = n + 1 /\ q[n + 1] = Line /\ \A i \in 1 .. n : q[i] = p[i]
    BY <1>4, <2>1, Zenon DEF LineMore
  <2>4. n + 1 <= Len(Wanted)
    BY <2>2, <2>3
  <2> QED BY <1>3, <1>5, <2>2, <2>3, <2>4, Zenon
<1>6. CASE eol # 0
  <2>1. LineEnds(p, e, Line, n)
    <3>1. LineEnds(p, Split((behind \o Line) \o <<Newline>>, Newline), Line, n)
      BY <1>1, <1>2, <1>3, SplitLineEnd, Zenon
    <3> QED BY <1>1, <1>6, <3>1, Zenon
  <2>2. Ended(e, Wanted)
    <3>1. PICK u \in Text : msg.text = now \o u
      BY <1>1, <1>6
    <3>2. now \in Seq(Char) /\ u \in Seq(Char)
      BY <1>1, <1>6 DEF Text
    <3>3. Ended(Split(now, Newline), Split(now \o u, Newline))
      BY <3>2, SplitPrefix
    <3> QED BY <3>1, <3>3, Zenon DEF Wanted
  <2>3. Len(Wanted) \in Nat
    <3>1. msg.text \in Seq(Char)
      BY DEF Text
    <3>2. Wanted \in Parts(Char)
      BY <3>1, SplitType DEF Wanted
    <3> QED BY <3>2 DEF Parts
  <2> HIDE DEF p, e
  <2>4. Len(e) = n + 2 /\ e[n + 1] = Line /\ \A i \in 1 .. n : e[i] = p[i]
    BY <1>4, <2>1, Zenon DEF LineEnds
  <2>5. /\ n + 2 <= Len(Wanted)
        /\ \A i \in 1 .. n + 1 : Wanted[i] = e[i]
    BY <2>2, <2>4 DEF Ended
  <2>6. n + 1 <= Len(Wanted) /\ n + 1 \in 1 .. n + 1 /\ \A i \in 1 .. n : i \in 1 .. n + 1
    BY <2>3, <2>5
  <2> QED BY <1>3, <1>6, <2>1, <2>4, <2>5, <2>6, Zenon
<1> QED BY <1>5, <1>6

-----------------------------------------------------------------------------
(* What the server makes of the records, and what it should be: the lines  *)
(* of the text, up to the one that bears the mark.                         *)
Decoding(h, L) == [i \in 1 .. Len(L) |-> [header |-> h, text |-> L[i]]]
Cut(l, u) == \E k \in 0 .. Len(u) : l = Clean(SubSeq(u, 1, k)) \o <<Mark[1]>>
Matches(L, end) ==
  /\ Len(L) <= Len(Wanted)
  /\ \A i \in 1 .. Len(L) - 1 : L[i] = Clean(Wanted[i])
  /\ end = "ok" => Len(L) = Len(Wanted) /\ L[Len(L)] = Clean(Wanted[Len(L)])
  /\ end = "truncated" => Cut(L[Len(L)], Wanted[Len(L)])

DecodesTo(e, h, L) == [i \in 1 .. Len(e) - 1 |-> DecodeRecord(e[i])] = Decoding(h, L)

LEMMA SentDecodes ==
  ASSUME NEW h \in Text, \A i \in 1 .. Len(h) : h[i] # "#", NEW t, NEW L, Sent(h, t, L),
         NEW e, e = Split(t, Newline)
  PROVE  DecodesTo(e, h, L)
<1> DEFINE n == Len(L)
           m == Len(e) - 1
           a == [i \in 1 .. m |-> DecodeRecord(e[i])]
           r(i) == [header |-> h, text |-> L[i]]
<1>1. L \in Seq(Text) /\ Len(e) = n + 1 /\ \A i \in 1 .. n : e[i] = RecordOf(h, L[i])
  BY DEF Sent
<1>2. n \in Nat /\ \A i \in 1 .. n : L[i] \in Text
  <2> DEFINE D == Text
  <2>1. L \in Seq(D)
    BY <1>1 DEF D
  <2> HIDE DEF D
  <2>2. n \in Nat /\ \A i \in 1 .. n : L[i] \in D
    BY <2>1
  <2> QED BY <2>2 DEF D
<1> HIDE DEF n
<1>3. m = n
  BY <1>1, <1>2
<1>4. ASSUME NEW i \in 1 .. n PROVE DecodeRecord(e[i]) = r(i)
  <2> DEFINE l == L[i]
  <2>1. l \in Text /\ e[i] = RecordOf(h, l)
    BY <1>1, <1>2
  <2> HIDE DEF l
  <2>2. DecodeRecord(RecordOf(h, l)) = [header |-> h, text |-> l]
    BY <2>1, DecodeIs
  <2> QED BY <2>1, <2>2, Zenon DEF l
<1> HIDE DEF m, r
<1>5. a = [i \in 1 .. n |-> r(i)]
  BY <1>3, <1>4, Zenon
<1> QED BY <1>5, Zenon DEF Decoding, DecodesTo, r, n, m, a

LEMMA RoundTripIs ==
  ASSUME NEW h, h = Clean(msg.header), NEW L \in Seq(Text), L # <<>>, Matches(L, status),
         decoded = Decoding(h, L)
  PROVE  EncodeRoundTrip
<1> DEFINE n == Len(L)
           d == Decoding(h, L)
<1>1. n \in Nat /\ n # 0
  <2> DEFINE D == Text
  <2>1. L \in Seq(D)
    BY DEF D
  <2> HIDE DEF D
  <2> QED BY <2>1
<1> HIDE DEF n
<1>2. Len(d) = n /\ \A i \in 1 .. n : d[i].header = h /\ d[i].text = L[i]
  <2> DEFINE r(i) == [header |-> h, text |-> L[i]]
  <2>1. d = [i \in 1 .. n |-> r(i)]
    BY Zenon DEF Decoding, n
  <2>2. \A i \in 1 .. n : r(i).header = h /\ r(i).text = L[i]
    OBVIOUS
  <2> HIDE DEF r, d
  <2>3. Len(d) = n /\ \A i \in 1 .. n : d[i] = r(i)
    BY <1>1, <2>1
  <2> QED BY <2>2, <2>3
<1> HIDE DEF d
<1>3. n \in 1 .. n /\ \A i \in 1 .. n - 1 : i \in 1 .. n
  BY <1>1
<1>4. decoded = d
  BY DEF d
<1>5. /\ n <= Len(Wanted)
      /\ \A i \in 1 .. n - 1 : L[i] = Clean(Wanted[i])
      /\ status = "ok" => n = Len(Wanted) /\ L[n] = Clean(Wanted[n])
      /\ status = "truncated" => Cut(L[n], Wanted[n])
  BY Zenon DEF Matches, n
<1>6. Head(Mark) = Mark[1]
  BY DEF Mark
<1>7. /\ \A i \in 1 .. n : d[i].header = Clean(msg.header)
      /\ \A i \in 1 .. n - 1 : d[i].text = Clean(Wanted[i])
      /\ status = "ok" => n = Len(Wanted) /\ d[n].text = Clean(Wanted[n])
      /\ status = "truncated" =>
           \E k \in 0 .. Len(Wanted[n]) :
             d[n].text = Clean(SubSeq(Wanted[n], 1, k)) \o <<Head(Mark)>>
  BY <1>2, <1>3, <1>5, <1>6, Zenon DEF Cut
<1> QED BY <1>2, <1>4, <1>5, <1>7, Zenon DEF EncodeRoundTrip, Wanted

-----------------------------------------------------------------------------
(* One round of infoLog_msg_encode, by what it has in hand.                *)
Started  == Header(encoded)
Eol      == Find(msg.text, Newline, sol)
Opened   == mysprintf(Started, <<"#">>)
Written  == IF Started.isError THEN Started ELSE LastField(Opened, Eol)
IsCut    == Written.isError \/ (Eol # 0 /\ Len(Written.text) + MarkSize > bufferSize)
MarkAt   == MarkPosition(~Started.isError, Len(Opened.text))
Sender   == Clean(msg.header)
Fields   == RecordOf(Sender, Clean(Line))
Complete == (encoded.text \o Fields) \o <<Newline>>

LEMMA RoundIs ==
  ASSUME EncodeRecord
  PROVE  /\ status = "running" /\ UNCHANGED <<msg, bufferSize, decoded>>
         /\ \/ /\ ~IsCut /\ encoded' = Written
               /\ \/ Eol = 0 /\ status' = "ok" /\ UNCHANGED <<sol, ix_lastGoodRecord>>
                  \/ /\ Eol # 0 /\ sol' = Eol + 1 /\ UNCHANGED status
                     /\ ix_lastGoodRecord' = Len(Written.text)
            \/ /\ IsCut /\ MarkAt >= 0 /\ status' = "truncated"
               /\ encoded' = [text    |-> SubSeq(Written.text, 1, MarkAt) \o Mark,
                              isError |-> FALSE]
               /\ UNCHANGED <<sol, ix_lastGoodRecord>>
            \/ /\ IsCut /\ MarkAt < 0 /\ encoded' = Written /\ status' = "error"
               /\ UNCHANGED <<sol, ix_lastGoodRecord>>
BY Zenon DEF EncodeRecord, Started, Eol, Opened, Written, IsCut, MarkAt

(* What is in the buffer then.                                             *)
LEMMA WrittenIs ==
  ASSUME Room, msg.header \in Text, msg.text \in Text,
         sol \in 1 .. Len(msg.text) + 1, Good(encoded), ~encoded.isError
  PROVE  /\ Written = IF Len(Complete) < bufferSize THEN Whole(Complete) ELSE Part(Complete)
         /\ Good(Written) /\ Good(Opened)
         /\ ~Opened.isError => /\ Opened.text = encoded.text \o Before(Sender)
                               /\ Complete = (Opened.text \o Clean(Line)) \o <<Newline>>
         /\ encoded.text \in Text /\ Sender \in Text /\ Line \in Text
         /\ Clean(Line) \in Text /\ Fields \in Text /\ Complete \in Text
<1> DEFINE t == encoded.text
           b == Before(Sender)
           c == Clean(Line)
           d == <<Newline>>
           cd == c \o d
           f == b \o c
           w == (t \o f) \o d
<1>1. /\ Opened = mysprintf(encoded, b) /\ Written = mysprintf(Opened, cd)
      /\ Good(Opened) /\ Sender \in Text /\ Line \in Text /\ c \in Text
  BY RecordIs, Zenon DEF Opened, Started, Written, Eol, Sender
<1>2. b \in Text /\ f \in Text
  BY <1>1, BeforeIs DEF RecordOf
<1>3. d \in Text
  BY PiecesAreText
<1>4. t \in Text
  BY DEF Good
<1>5. Fields = f /\ Complete = w
  BY Zenon DEF Fields, Complete, RecordOf
<1> HIDE DEF t, b, c, d
<1>6. cd \in Text /\ t \o b \in Text /\ t \o f \in Text /\ w \in Text /\ b \o cd \in Text
  <2>1. cd \in Text /\ t \o b \in Text /\ t \o f \in Text
    BY <1>1, <1>2, <1>3, <1>4, JoinIs
  <2> QED BY <1>2, <1>3, <2>1, JoinIs
<1>7. w = t \o (b \o cd) /\ w = ((t \o b) \o c) \o d
  <2>1. t \in Text /\ b \in Text /\ c \in Text /\ d \in Text
    BY <1>1, <1>2, <1>3, <1>4
  <2>2. FourJoined(t, b, c, d)
    BY <2>1, JoinFour
  <2> QED BY <2>2, Zenon DEF FourJoined
<1> HIDE DEF cd, f, w
<1>8. Written = mysprintf(encoded, b \o cd)
  BY <1>1, <1>2, <1>6, WriteTwice
<1>9. mysprintf(encoded, b \o cd) =
        IF Len(t \o (b \o cd)) < bufferSize THEN Whole(t \o (b \o cd)) ELSE Part(t \o (b \o cd))
  BY <1>6, WriteIs DEF t
<1>10. Written = IF Len(w) < bufferSize THEN Whole(w) ELSE Part(w)
  BY <1>7, <1>8, <1>9, Zenon
<1>11. Good(Written)
  BY <1>6, <1>8, WriteGood
<1>12. ASSUME ~Opened.isError PROVE Opened.text = t \o b
  <2>1. Opened = IF Len(t \o b) < bufferSize THEN Whole(t \o b) ELSE Part(t \o b)
    BY <1>1, <1>2, WriteIs DEF t
  <2>2. ~(Part(t \o b).isError = FALSE)
    BY DEF Part
  <2>3. Opened = Whole(t \o b)
    BY <1>12, <2>1, <2>2
  <2> QED BY <2>3 DEF Whole
<1>13. ASSUME ~Opened.isError PROVE w = (Opened.text \o c) \o d
  BY <1>7, <1>12, <1>13, Zenon
<1> QED BY <1>1, <1>2, <1>4, <1>5, <1>6, <1>10, <1>11, <1>12, <1>13, Zenon DEF t, b, c, d

-----------------------------------------------------------------------------
(* The last fields L are the lines of the text up to its i-th character.   *)
LinesUpTo(i, L) ==
  /\ Len(Lines(i)) = Len(L) + 1 /\ Lines(i)[Len(L) + 1] = <<>>
  /\ \A j \in 1 .. Len(L) : L[j] = Clean(Lines(i)[j])

(* With one more field: the line at sol, or the beginning of it with the   *)
(* mark.                                                                   *)
LEMMA MoreLines ==
  ASSUME msg.text \in Text, sol \in 1 .. Len(msg.text) + 1, NEW L \in Seq(Text),
         LinesUpTo(sol - 1, L), NEW l \in Text, NEW M, M = Append(L, l)
  PROVE  /\ M \in Seq(Text) /\ M # <<>>
         /\ l = Clean(Line) /\ Eol = 0 => Matches(M, "ok")
         /\ Cut(l, Line) => Matches(M, "truncated")
         /\ l = Clean(Line) /\ Eol # 0 => LinesUpTo(Eol, M)
<1> DEFINE n == Len(L)
           p == Lines(sol - 1)
           e == Lines(Eol)
<1>1. /\ n \in Nat /\ M \in Seq(Text) /\ M # <<>> /\ Len(M) = n + 1
      /\ M[n + 1] = l /\ \A i \in 1 .. n : M[i] = L[i]
  <2> DEFINE D == Text
  <2>1. L \in Seq(D) /\ l \in D
    OBVIOUS
  <2> HIDE DEF D
  <2>2. /\ n \in Nat /\ M \in Seq(D) /\ Len(M) = n + 1
        /\ M[n + 1] = l /\ \A i \in 1 .. n : M[i] = L[i]
    BY <2>1, AppendProperties
  <2>3. M # <<>>
    BY <2>2
  <2> QED BY <2>2, <2>3 DEF D
<1>2. /\ Len(p) = n + 1 /\ p[n + 1] = <<>>
      /\ \A j \in 1 .. n : L[j] = Clean(p[j])
  BY Zenon DEF LinesUpTo
<1>3. Eol = Find(msg.text, Newline, sol)
  BY DEF Eol
<1> HIDE DEF n
<1>4. /\ n + 1 <= Len(Wanted) /\ Wanted[n + 1] = Line
      /\ \A i \in 1 .. n : Wanted[i] = p[i]
      /\ Eol = 0 => Len(Wanted) = n + 1
      /\ Eol # 0 => LineEnds(p, e, Line, n)
  BY <1>1, <1>2, <1>3, NextLine, Zenon
<1>5. Line \in Text /\ <<>> \o Line = Line
  <2>1. Line \in Text
    BY LineAndRest, Zenon
  <2>2. \A u \in Text : <<>> \o u = u
    BY DEF Text
  <2> QED BY <2>1, <2>2, Zenon
<1> HIDE DEF p, e
<1>6. (n + 1) - 1 = n /\ n + 1 \in 1 .. n + 1
  BY <1>1
<1>7. \A i \in 1 .. n : M[i] = Clean(Wanted[i])
  BY <1>1, <1>2, <1>4
<1>8. ASSUME l = Clean(Line), Eol = 0 PROVE Matches(M, "ok")
  <2>1. "ok" # "truncated"
    OBVIOUS
  <2> QED BY <1>1, <1>4, <1>6, <1>7, <1>8, <2>1, Zenon DEF Matches
<1>9. ASSUME Cut(l, Line) PROVE Matches(M, "truncated")
  <2>1. "ok" # "truncated"
    OBVIOUS
  <2> QED BY <1>1, <1>4, <1>6, <1>7, <1>9, <2>1, Zenon DEF Matches
<1>10. ASSUME l = Clean(Line), Eol # 0 PROVE LinesUpTo(Eol, M)
  <2>1. /\ Len(e) = n + 2 /\ e[n + 1] = p[n + 1] \o Line /\ e[n + 2] = <<>>
        /\ \A i \in 1 .. n : e[i] = p[i]
    BY <1>4, <1>10, Zenon DEF LineEnds
  <2>2. e[n + 1] = Line
    BY <1>2, <1>5, <2>1, Zenon
  <2>3. ASSUME NEW j \in 1 .. n + 1 PROVE M[j] = Clean(e[j])
    <3>1. j \in 1 .. n \/ j = n + 1
      BY <1>1
    <3>2. CASE j \in 1 .. n
      BY <1>1, <1>2, <2>1, <3>2
    <3>3. CASE j = n + 1
      BY <1>1, <1>10, <2>2, <3>3
    <3> QED BY <3>1, <3>2, <3>3
  <2>4. n + 2 = (n + 1) + 1
    BY <1>1
  <2> QED BY <1>1, <2>1, <2>3, <2>4, Zenon DEF LinesUpTo, e
<1> QED BY <1>1, <1>8, <1>9, <1>10, Zenon

(* With the mark behind the last field.                                    *)
LEMMA LastMarked ==
  ASSUME msg.text \in Text, sol \in 1 .. Len(msg.text) + 1, NEW L \in Seq(Text),
         LinesUpTo(sol - 1, L), L # <<>>,
         NEW M, M = [L EXCEPT ![Len(L)] = L[Len(L)] \o <<Mark[1]>>]
  PROVE  M \in Seq(Text) /\ M # <<>> /\ Matches(M, "truncated")
<1> DEFINE n == Len(L)
           p == Lines(sol - 1)
           d == <<Mark[1]>>
           l == L[n] \o d
           D == Text
<1>1. /\ n \in Nat /\ n \in 1 .. n /\ L[n] \in D
  <2>1. L \in Seq(D) /\ L # <<>>
    OBVIOUS
  <2> HIDE DEF D
  <2> QED BY <2>1
<1>2. d \in Text
  BY PiecesAreText
<1> HIDE DEF d
<1>3. l \in D
  BY <1>1, <1>2, JoinIs, Zenon
<1>4. /\ M \in Seq(D) /\ M # <<>> /\ Len(M) = n /\ M[n] = l
      /\ \A i \in 1 .. n - 1 : M[i] = L[i]
  <2> HIDE DEF l
  <2>1. L \in Seq(D) /\ M = [L EXCEPT ![Len(L)] = l]
    BY Zenon DEF D, n, l, d
  <2> HIDE DEF D
  <2>2. HasLast(L, M, l, D)
    BY <1>3, <2>1, ExceptLast, Zenon
  <2> QED BY <2>2, Zenon DEF HasLast, n
<1>5. /\ Len(p) = n + 1 /\ p[n + 1] = <<>>
      /\ \A j \in 1 .. n : L[j] = Clean(p[j])
  BY Zenon DEF LinesUpTo
<1> HIDE DEF n
<1>6. n + 1 <= Len(Wanted) /\ \A i \in 1 .. n : Wanted[i] = p[i]
  BY <1>1, <1>5, NextLine
<1>7. Len(Wanted) \in Nat /\ Wanted[n] \in Text
  <2>1. msg.text \in Seq(Char)
    BY DEF Text
  <2>2. Wanted \in Parts(Char)
    BY <2>1, SplitType DEF Wanted
  <2>3. Wanted \in Seq(D)
    BY <2>2, Zenon DEF Parts, Text
  <2> HIDE DEF D
  <2>4. Len(Wanted) \in Nat
    BY <2>3
  <2>5. n \in 1 .. Len(Wanted)
    BY <1>1, <1>6, <2>4
  <2>6. Wanted[n] \in D
    BY <2>3, <2>5
  <2> QED BY <2>4, <2>6 DEF D
<1> HIDE DEF p
<1>8. L[n] = Clean(Wanted[n]) /\ \A i \in 1 .. n - 1 : i \in 1 .. n /\ M[i] = Clean(Wanted[i])
  BY <1>1, <1>4, <1>5, <1>6
<1>9. Cut(M[n], Wanted[n])
  <2> DEFINE w == Wanted[n]
             k == Len(w)
  <2>1. w \in Text /\ k \in 0 .. Len(w) /\ SubSeq(w, 1, k) = w
    BY <1>7 DEF Text
  <2>2. M[n] = Clean(w) \o d
    BY <1>4, <1>8, Zenon
  <2> HIDE DEF w, k
  <2> QED BY <2>1, <2>2, Zenon DEF Cut, w, d
<1>10. n <= Len(Wanted)
  BY <1>1, <1>6, <1>7
<1>11. "truncated" # "ok"
  OBVIOUS
<1>12. Matches(M, "truncated")
  BY <1>4, <1>8, <1>9, <1>10, <1>11, Zenon DEF Matches
<1> QED BY <1>4, <1>12 DEF D

(* What is left when the buffer is cut behind its first n characters: what *)
(* was in it before, or in the last field the beginning of the line.       *)
LEMMA WrittenFrom ==
  ASSUME Room, msg.header \in Text, msg.text \in Text,
         sol \in 1 .. Len(msg.text) + 1, Good(encoded), ~encoded.isError,
         NEW n \in 0 .. Len(Written.text)
  PROVE  /\ SubSeq(Written.text, 1, n) = SubSeq(Complete, 1, n)
         /\ Len(Written.text) <= Len(Complete)
         /\ ~Written.isError => Written = Whole(Complete)
         /\ Written.isError => Len(Complete) >= bufferSize
                               /\ Len(Written.text) = bufferSize - 1
<1>1. /\ Written = IF Len(Complete) < bufferSize THEN Whole(Complete) ELSE Part(Complete)
      /\ Good(Written) /\ Complete \in Text
  BY WrittenIs, Zenon
<1>2. Len(Complete) \in Nat /\ bufferSize \in Nat \ {0}
  BY <1>1 DEF Text, Room
<1>3. CASE Len(Complete) < bufferSize
  <2>1. Written = Whole(Complete)
    BY <1>1, <1>3, Zenon
  <2>2. Written.text = Complete /\ ~Written.isError
    BY <2>1 DEF Whole
  <2> QED BY <1>2, <2>1, <2>2
<1>4. CASE ~(Len(Complete) < bufferSize)
  <2> DEFINE u == SubSeq(Complete, 1, bufferSize - 1)
  <2>1. Written.text = u /\ Written.isError
    <3>1. Written = Part(Complete)
      BY <1>1, <1>4, Zenon
    <3> QED BY <3>1 DEF Part
  <2>2. Len(u) = bufferSize - 1 /\ bufferSize - 1 \in 0 .. Len(Complete)
    BY <1>1, <1>2, <1>4 DEF Text
  <2> HIDE DEF u
  <2>3. n \in 0 .. bufferSize - 1
    BY <2>1, <2>2
  <2>4. SubSeq(SubSeq(Complete, 1, bufferSize - 1), 1, n) = SubSeq(Complete, 1, n)
    BY <1>1, <2>2, <2>3, StartOfStart
  <2>5. SubSeq(Written.text, 1, n) = SubSeq(Complete, 1, n)
    BY <2>1, <2>4, Zenon DEF u
  <2>6. Len(Complete) >= bufferSize /\ Len(Written.text) <= Len(Complete)
    BY <1>2, <1>4, <2>1, <2>2
  <2> QED BY <2>1, <2>2, <2>5, <2>6
<1> QED BY <1>3, <1>4

LEMMA CutBefore ==
  ASSUME Room, msg.header \in Text, msg.text \in Text,
         sol \in 1 .. Len(msg.text) + 1, Good(encoded), ~encoded.isError,
         NEW u \in Text, encoded.text = u \o <<Newline>>
  PROVE  SubSeq(Written.text, 1, Len(u)) = u /\ Len(encoded.text) - 1 = Len(u)
<1> DEFINE t == encoded.text
           d == <<Newline>>
           f == Fields \o d
           k == Len(u)
<1>1. Fields \in Text /\ Complete \in Text /\ Good(Written)
  BY WrittenIs, Zenon
<1>2. d \in Text /\ Len(d) = 1
  BY PiecesAreText
<1>3. t \in Text /\ f \in Text /\ Len(t) = k + 1 /\ k \in Nat
  <2>1. t \in Text
    BY DEF Good
  <2> QED BY <1>1, <1>2, <2>1, JoinIs
<1>4. Complete = t \o f
  <2>1. Associated(t, Fields, d)
    BY <1>1, <1>2, <1>3, JoinAgain
  <2> QED BY <2>1, Zenon DEF Associated, Complete
<1> HIDE DEF t, f, d, k
<1>5. SubSeq(Complete, 1, k) = SubSeq(t, 1, k)
  <2>1. k \in 0 .. Len(t)
    BY <1>3
  <2>2. SubSeq(t \o f, 1, k) = SubSeq(t, 1, k)
    BY <1>3, <2>1, StartOfConcat
  <2> QED BY <1>4, <2>2, Zenon
<1>6. SubSeq(t, 1, k) = u
  <2>1. t = u \o d
    BY Zenon DEF t, d
  <2>2. k \in 0 .. Len(u)
    BY <1>3 DEF k
  <2>3. SubSeq(u \o d, 1, Len(u)) = u
    BY <1>2, <2>2, StartOfConcat
  <2> QED BY <2>1, <2>3, Zenon DEF k
<1>7. k \in 0 .. Len(Written.text)
  <2>1. Len(Complete) = Len(t) + Len(f) /\ Len(f) \in Nat
    BY <1>3, <1>4, JoinIs
  <2>2. 0 \in 0 .. Len(Written.text) /\ Len(Written.text) \in Nat
    <3>1. Written.text \in Text
      BY <1>1 DEF Good
    <3> QED BY <3>1 DEF Text
  <2>3. Len(t) < bufferSize /\ bufferSize \in Nat
    BY DEF Good, Room, t
  <2>4. CASE Written.isError
    <3>1. Len(Written.text) = bufferSize - 1
      BY <2>2, <2>4, WrittenFrom
    <3> QED BY <1>3, <2>3, <3>1
  <2>5. CASE ~Written.isError
    <3>1. Written = Whole(Complete)
      BY <2>2, <2>5, WrittenFrom
    <3>2. Written.text = Complete
      BY <3>1 DEF Whole
    <3> QED BY <1>3, <2>1, <3>2
  <2> QED BY <2>4, <2>5
<1>8. SubSeq(Written.text, 1, k) = SubSeq(Complete, 1, k)
  BY <1>7, WrittenFrom, Zenon
<1>9. Len(t) - 1 = k
  BY <1>3
<1> QED BY <1>5, <1>6, <1>8, <1>9, Zenon DEF k, t

LEMMA CutRecord ==
  ASSUME Room, msg.header \in Text, msg.text \in Text,
         sol \in 1 .. Len(msg.text) + 1, Good(encoded), ~encoded.isError,
         IsCut, bufferSize - MarkSize >= Len(Opened.text)
  PROVE  \E k \in 0 .. Len(Line) :
           SubSeq(Written.text, 1, bufferSize - MarkSize)
             = encoded.text \o RecordOf(Sender, Clean(SubSeq(Line, 1, k)))
<1> DEFINE at == bufferSize - MarkSize
           o == Opened.text
           c == Clean(Line)
           d == <<Newline>>
           k == at - Len(o)
           b == Before(Sender)
           t == encoded.text
<1>1. /\ Good(Opened) /\ Good(Written) /\ Sender \in Text /\ Line \in Text /\ c \in Text
      /\ Complete \in Text /\ t \in Text
      /\ ~Opened.isError => o = t \o b /\ Complete = (o \o c) \o d
  BY WrittenIs, Zenon
<1>2. MarkSize = 3
  BY DEF MarkSize, Mark
<1>3. bufferSize \in Nat \ {0} /\ o \in Text /\ Len(o) \in Nat
  BY <1>1 DEF Room, Good, Text
<1>4. ~Opened.isError
  <2> HIDE DEF o
  <2>1. Opened.isError => Len(o) = bufferSize - 1
    BY <1>1 DEF Good, o
  <2> QED BY <1>2, <1>3, <2>1 DEF o
<1>5. d \in Text /\ Len(d) = 1
  BY PiecesAreText
<1>6. Len(c) = Len(Line) /\ Len(Line) \in Nat
  BY <1>1, CleanIs DEF Text
<1> HIDE DEF c, d, o
<1>7. o \o c \in Text /\ Len(o \o c) = Len(o) + Len(c) /\ Len(Complete) = Len(o) + Len(c) + 1
  <2>1. o \o c \in Text /\ Len(o \o c) = Len(o) + Len(c)
    BY <1>1, <1>3, JoinIs
  <2>2. Len((o \o c) \o d) = Len(o \o c) + Len(d)
    BY <1>5, <2>1, JoinIs
  <2>3. Complete = (o \o c) \o d
    BY <1>1, <1>4, Zenon
  <2> QED BY <1>5, <2>1, <2>2, <2>3
<1>8. at \in Nat /\ at < Len(Written.text) /\ Len(Written.text) \in Nat /\ at < Len(Complete)
      /\ Len(o) <= at
  <2>1. Len(Written.text) \in Nat /\ 0 \in 0 .. Len(Written.text)
    <3>1. Written.text \in Text
      BY <1>1 DEF Good
    <3> QED BY <3>1 DEF Text
  <2>2. Len(Complete) \in Nat /\ Len(Written.text) <= Len(Complete)
    BY <1>1, <2>1, WrittenFrom DEF Text
  <2>3. at \in Nat /\ Len(o) <= at
    BY <1>2, <1>3 DEF o
  <2>4. at < Len(Written.text)
    <3>1. CASE Written.isError
      <4>1. Len(Written.text) = bufferSize - 1
        BY <2>1, <3>1, WrittenFrom
      <4> QED BY <1>2, <1>3, <4>1
    <3>2. CASE ~Written.isError
      <4>1. Len(Written.text) + MarkSize > bufferSize
        BY <3>2, Zenon DEF IsCut
      <4> QED BY <1>2, <1>3, <2>1, <4>1
    <3> QED BY <3>1, <3>2
  <2> QED BY <2>1, <2>2, <2>3, <2>4
<1>9. k \in 0 .. Len(Line) /\ k \in 0 .. Len(c) /\ at = Len(o) + k
  BY <1>3, <1>6, <1>7, <1>8
<1> HIDE DEF at, k
<1>10. SubSeq(Written.text, 1, at) = SubSeq(Complete, 1, at)
  <2>1. at \in 0 .. Len(Written.text)
    BY <1>8
  <2> QED BY <2>1, WrittenFrom, Zenon
<1>11. SubSeq(Complete, 1, at) = SubSeq(o \o c, 1, at)
  <2>1. at \in 0 .. Len(o \o c)
    BY <1>3, <1>6, <1>7, <1>9
  <2>2. SubSeq((o \o c) \o d, 1, at) = SubSeq(o \o c, 1, at)
    BY <1>5, <1>7, <2>1, StartOfConcat
  <2> QED BY <1>1, <1>4, <2>2, Zenon
<1>12. SubSeq(o \o c, 1, at) = o \o SubSeq(c, 1, k)
  <2>1. o \in Text /\ c \in Text /\ k \in 0 .. Len(c) /\ at = Len(o) + k
    BY <1>1, <1>3, <1>9
  <2>2. Begins(o, c, k, at)
    BY <2>1, StartBehind
  <2> QED BY <2>2, Zenon DEF Begins
<1>13. SubSeq(c, 1, k) = Clean(SubSeq(Line, 1, k)) /\ SubSeq(Line, 1, k) \in Text
  BY <1>1, <1>9, CleanStart DEF c
<1> DEFINE l == Clean(SubSeq(Line, 1, k))
<1>14. b \in Text /\ l \in Text
  <2>1. l \in Text
    BY <1>13, CleanIs
  <2> QED BY <1>1, <2>1, BeforeIs
<1> HIDE DEF b, l, t
<1>15. o \o l = t \o (b \o l)
  <2>1. Associated(t, b, l)
    BY <1>1, <1>14, JoinAgain
  <2> QED BY <1>1, <1>4, <2>1, Zenon DEF Associated
<1>16. SubSeq(Written.text, 1, at) = t \o (b \o l)
  BY <1>10, <1>11, <1>12, <1>13, <1>15, Zenon DEF l
<1>17. b \o l = RecordOf(Sender, l)
  BY Zenon DEF RecordOf, b
<1> QED BY <1>9, <1>16, <1>17, Zenon DEF l, at, t

-----------------------------------------------------------------------------
(* The inductive invariant: while the records are written there are whole  *)
(* ones only, for the lines behind sol; and what has been written at the   *)
(* end is the records that the property wants.                             *)
Ready ==
  /\ Room /\ msg.header \in Text /\ msg.text \in Text
  /\ sol \in 1 .. Len(msg.text) + 1
LastGood(t, ix, L) ==
  IF L = <<>> THEN ix = -1 ELSE ix = Len(t) /\ \E u \in Text : t = u \o <<Newline>>
Underway(L) ==
  /\ Sent(Sender, encoded.text, L) /\ NothingAfter(encoded.text, Len(L))
  /\ LinesUpTo(sol - 1, L)
  /\ LastGood(encoded.text, ix_lastGoodRecord, L)
Arrived(t, end, L) == Sent(Sender, t, L) /\ L # <<>> /\ Matches(L, end)
Finished ==
  \E L : Arrived(encoded.text, status, L) /\ (decoded # <<>> => decoded = Decoding(Sender, L))

MessageInv ==
  /\ Ready
  /\ status \in {"running", "ok", "truncated", "error"}
  /\ status = "running" =>
       Good(encoded) /\ ~encoded.isError /\ decoded = <<>> /\ \E L : Underway(L)
  /\ status \in {"ok", "truncated"} => Finished

LEMMA SenderIs ==
  ASSUME Ready
  PROVE  /\ Sender \in Text /\ Line \in Text /\ Clean(Line) \in Text
         /\ \A i \in 1 .. Len(Sender) : Sender[i] # "#" /\ Sender[i] # Newline
         /\ \A i \in 1 .. Len(Clean(Line)) : Clean(Line)[i] # Newline
<1>1. msg.header \in Text
  BY DEF Ready
<1>2. /\ Clean(msg.header) \in Text /\ Len(Clean(msg.header)) = Len(msg.header)
      /\ \A i \in 1 .. Len(msg.header) :
           Clean(msg.header)[i] # "#" /\ Clean(msg.header)[i] # Newline
  BY <1>1, CleanIs
<1>3. Line \in Text
  BY LineAndRest, Zenon DEF Ready
<1>4. /\ Clean(Line) \in Text /\ Len(Clean(Line)) = Len(Line)
      /\ \A i \in 1 .. Len(Line) : Clean(Line)[i] # Newline
  BY <1>3, CleanIs
<1> QED BY <1>2, <1>3, <1>4, Zenon DEF Sender

(* A record that is complete.                                              *)
LEMMA OneMore ==
  ASSUME Ready, Good(encoded), ~encoded.isError, NEW L, Underway(L), ~Written.isError,
         NEW M, M = Append(L, Clean(Line))
  PROVE  /\ Sent(Sender, Written.text, M) /\ M # <<>>
         /\ NothingAfter(Written.text, Len(M))
         /\ LastGood(Written.text, Len(Written.text), M)
         /\ Eol = 0 => Matches(M, "ok")
         /\ Eol # 0 => LinesUpTo(Eol, M) /\ Eol \in 1 .. Len(msg.text)
<1> DEFINE t == encoded.text
           c == Clean(Line)
           w == Written.text
           d == <<Newline>>
           D == Text
<1>1. /\ Sender \in Text /\ Line \in Text /\ c \in Text
      /\ \A i \in 1 .. Len(Sender) : Sender[i] # Newline
      /\ \A i \in 1 .. Len(c) : c[i] # Newline
  BY SenderIs, Zenon
<1>2. Room /\ msg.header \in Text /\ msg.text \in Text /\ sol \in 1 .. Len(msg.text) + 1
  BY DEF Ready
<1>3. /\ L \in Seq(Text) /\ Sent(Sender, t, L) /\ NothingAfter(t, Len(L))
      /\ LinesUpTo(sol - 1, L)
  BY Zenon DEF Underway, Sent
<1>4. t \in Text /\ Fields \in Text
  BY <1>2, WrittenIs, Zenon
<1>5. w = Complete
  <2>1. Written = IF Len(Complete) < bufferSize THEN Whole(Complete) ELSE Part(Complete)
    BY <1>2, WrittenIs, Zenon
  <2>2. Part(Complete).isError
    BY DEF Part
  <2>3. Written = Whole(Complete)
    BY <2>1, <2>2
  <2> QED BY <2>3 DEF Whole
<1> HIDE DEF t, c, w, d
<1>6. (t \o RecordOf(Sender, c)) \o d = Complete
  BY Zenon DEF Complete, Fields, t, c, d
<1>7. w \in Text /\ Sent(Sender, w, Append(L, c)) /\ NothingAfter(w, Len(L) + 1)
  <2> DEFINE v == (t \o RecordOf(Sender, c)) \o d
  <2>1. v \in Text /\ Sent(Sender, v, Append(L, c)) /\ NothingAfter(v, Len(L) + 1)
    BY <1>1, <1>3, <1>4, SentMore, Zenon DEF d
  <2> QED BY <1>5, <1>6, <2>1, Zenon
<1>8. Len(M) = Len(L) + 1 /\ M # <<>>
  <2>1. L \in Seq(D) /\ c \in D /\ M = Append(L, c)
    BY <1>1, <1>3 DEF c
  <2> HIDE DEF D
  <2> QED BY <2>1
<1>9. LastGood(w, Len(w), M)
  <2> DEFINE u == t \o Fields
  <2>1. u \in Text
    BY <1>4, JoinIs
  <2>2. w = u \o d
    BY <1>5, <1>6, Zenon DEF c, Fields
  <2> HIDE DEF u
  <2> QED BY <1>8, <2>1, <2>2, Zenon DEF LastGood, d
<1>10. /\ Eol = 0 => Matches(M, "ok")
       /\ Eol # 0 => LinesUpTo(Eol, M)
  BY <1>1, <1>2, <1>3, MoreLines, Zenon DEF c
<1>11. Eol # 0 => Eol \in 1 .. Len(msg.text)
  <2>1. Eol # 0 => Eol \in sol .. Len(msg.text)
    BY <1>2, LineAndRest, Zenon DEF Eol
  <2>2. Len(msg.text) \in Nat
    BY <1>2 DEF Text
  <2> QED BY <1>2, <2>1, <2>2
<1> QED BY <1>7, <1>8, <1>9, <1>10, <1>11, Zenon DEF c, w

(* A record that is cut, and one that is taken back.                       *)
LEMMA WithMark ==
  ASSUME Ready, Good(encoded), ~encoded.isError, NEW L, Underway(L), IsCut, MarkAt >= 0,
         NEW v, v = SubSeq(Written.text, 1, MarkAt) \o Mark
  PROVE  \E M : Arrived(v, "truncated", M)
<1> DEFINE t == encoded.text
           d == <<Mark[1]>>
           e == <<Newline>>
           at == bufferSize - MarkSize
<1>1. /\ Sender \in Text /\ Line \in Text
      /\ \A i \in 1 .. Len(Sender) : Sender[i] # Newline
  BY SenderIs, Zenon
<1>2. Room /\ msg.header \in Text /\ msg.text \in Text /\ sol \in 1 .. Len(msg.text) + 1
  BY DEF Ready
<1>3. /\ L \in Seq(Text) /\ Sent(Sender, t, L) /\ NothingAfter(t, Len(L))
      /\ LinesUpTo(sol - 1, L) /\ LastGood(t, ix_lastGoodRecord, L)
  BY Zenon DEF Underway, Sent
<1>4. t \in Text /\ d \in Text /\ e \in Text /\ Mark = d \o e
  <2>1. t \in Text
    BY DEF Good
  <2> QED BY <2>1, PiecesAreText, Zenon
<1>5. \/ at >= Len(Opened.text) /\ MarkAt = at
      \/ ix_lastGoodRecord >= 0 /\ MarkAt = ix_lastGoodRecord - 1
  BY DEF MarkAt, MarkPosition
<1> HIDE DEF t, e, at
<1>6. CASE at >= Len(Opened.text) /\ MarkAt = at
  <2>1. PICK k \in 0 .. Len(Line) :
          SubSeq(Written.text, 1, at) = t \o RecordOf(Sender, Clean(SubSeq(Line, 1, k)))
    BY <1>2, <1>6, CutRecord, Zenon DEF at, t
  <2> DEFINE c == Clean(SubSeq(Line, 1, k))
             l == c \o d
  <2>2. c \in Text /\ \A i \in 1 .. Len(c) : c[i] # Newline
    <3>1. SubSeq(Line, 1, k) \in Text
      BY <1>1, CleanStart
    <3> QED BY <3>1, CleanIs
  <2>3. Cut(l, Line)
    BY Zenon DEF Cut
  <2> HIDE DEF c
  <2>4. l \in Text /\ \A i \in 1 .. Len(l) : l[i] # Newline
    <3> HIDE DEF d, l
    <3>1. /\ c \in Seq(Char) /\ d \in Seq(Char)
      BY <1>4, <2>2 DEF Text
    <3>2. /\ l \in Seq(Char) /\ Len(l) = Len(c) + Len(d)
          /\ \A i \in 1 .. Len(c) + Len(d) : l[i] = IF i <= Len(c) THEN c[i] ELSE d[i - Len(c)]
      BY <3>1, ConcatProperties DEF l
    <3>3. Len(d) = 1 /\ d[1] # Newline
      BY DEF d, Mark, Newline
    <3>4. Len(c) \in Nat
      BY <3>1
    <3>5. ASSUME NEW i \in 1 .. Len(l) PROVE l[i] # Newline
      <4>1. CASE i <= Len(c)
        BY <2>2, <3>2, <3>3, <3>4, <4>1
      <4>2. CASE ~(i <= Len(c))
        <5>1. i - Len(c) = 1 /\ i \in 1 .. Len(c) + Len(d)
          BY <3>2, <3>3, <3>4, <4>2
        <5> QED BY <3>2, <3>3, <4>2, <5>1
      <4> QED BY <4>1, <4>2
    <3> QED BY <3>2, <3>5 DEF Text
  <2> DEFINE M == Append(L, l)
  <2>5. M # <<>> /\ Matches(M, "truncated")
    <3> HIDE DEF l
    <3> QED BY <1>2, <1>3, <2>3, <2>4, MoreLines, Zenon
  <2>6. v = (t \o RecordOf(Sender, l)) \o e
    <3> DEFINE r == RecordOf(Sender, c)
    <3>1. r \in Text
      BY <1>1, <2>2, BeforeIs
    <3>2. Longer(Sender, c, d)
      BY <1>1, <1>4, <2>2, RecordMore
    <3>3. r \o d = RecordOf(Sender, l)
      BY <3>2, Zenon DEF Longer
    <3>4. v = (t \o r) \o (d \o e)
      BY <1>4, <1>6, <2>1, Zenon DEF c
    <3> HIDE DEF r, d, l
    <3>5. t \o r \in Text
      BY <1>4, <3>1, JoinIs
    <3>6. Associated(t \o r, d, e) /\ Associated(t, r, d)
      BY <1>4, <3>1, <3>5, JoinAgain
    <3> QED BY <3>3, <3>4, <3>6, Zenon DEF Associated
  <2>7. Sent(Sender, (t \o RecordOf(Sender, l)) \o e, M)
    <3> HIDE DEF l
    <3> QED BY <1>1, <1>3, <1>4, <2>4, SentMore, Zenon DEF e
  <2> HIDE DEF M, l
  <2> QED BY <2>5, <2>6, <2>7, Zenon DEF Arrived
<1>7. CASE ix_lastGoodRecord >= 0 /\ MarkAt = ix_lastGoodRecord - 1
  <2>1. L # <<>>
    <3>1. ~(-1 >= 0)
      OBVIOUS
    <3> QED BY <1>3, <1>7, <3>1, Zenon DEF LastGood
  <2>2. PICK u \in Text : ix_lastGoodRecord = Len(t) /\ t = u \o e
    BY <1>3, <2>1, Zenon DEF LastGood, e
  <2>3. SubSeq(Written.text, 1, Len(u)) = u /\ Len(t) - 1 = Len(u)
    BY <1>2, <2>2, CutBefore, Zenon DEF t, e
  <2>4. v = u \o Mark
    BY <1>7, <2>2, <2>3, Zenon
  <2> DEFINE l == L[Len(L)] \o d
             M == [L EXCEPT ![Len(L)] = l]
  <2>5. M \in Seq(Text) /\ M # <<>> /\ Matches(M, "truncated")
    BY <1>2, <1>3, <2>1, LastMarked, Zenon
  <2>6. \A i \in 1 .. Len(L) : L[i] \in Text
    <3> DEFINE D == Text
    <3>1. L \in Seq(D)
      BY <1>3
    <3> HIDE DEF D
    <3>2. \A i \in 1 .. Len(L) : L[i] \in D
      BY <3>1
    <3> QED BY <3>2 DEF D
  <2>7. Sent(Sender, u \o Mark, M)
    BY <1>1, <1>3, <2>1, <2>2, <2>6, SentMark, Zenon DEF e
  <2> HIDE DEF M
  <2> QED BY <2>4, <2>5, <2>7, Zenon DEF Arrived
<1> QED BY <1>5, <1>6, <1>7

-----------------------------------------------------------------------------
LEMMA InvAtStart ==
  ASSUME MessageInit
  PROVE  MessageInv
<1>1. /\ msg \in [header : Headers, text : Texts] /\ bufferSize \in BufferSizes
      /\ encoded = [text |-> <<>>, isError |-> FALSE]
      /\ sol = 1 /\ ix_lastGoodRecord = -1 /\ status = "running" /\ decoded = <<>>
  BY DEF MessageInit
<1>2. \A C, D : (\A c \in C : c \in D) => (\A u \in Seq(C) : u \in Seq(D))
  OBVIOUS
<1>3. \A u \in Seq(Character) : u \in Text
  <2>1. \A c \in Character : c \in Char
    BY DEF Char
  <2> QED BY <1>2, <2>1, Zenon DEF Text
<1>4. msg.header \in Text /\ msg.text \in Text
  BY <1>1, <1>3, MessageAssumption
<1>5. Room
  BY <1>1, MessageAssumption DEF Room
<1>6. sol \in 1 .. Len(msg.text) + 1
  BY <1>1, <1>4 DEF Text
<1>7. Good(encoded) /\ ~encoded.isError /\ encoded.text = <<>>
  <2>1. <<>> \in Text /\ Len(<<>>) = 0
    BY PiecesAreText
  <2> QED BY <1>1, <1>5, <2>1 DEF Good, Room
<1> DEFINE L == <<>>
<1>8. Split(<<>>, Newline) = <<<<>>>>
  BY SplitNothing
<1>9. /\ L \in Seq(Text) /\ Len(L) = 0 /\ Len(<<<<>>>>) = 1 /\ <<<<>>>>[1] = <<>>
      /\ ~(\E i \in 1 .. 0 : TRUE)
  OBVIOUS
<1>10. 0 + 1 = 1
  OBVIOUS
<1>11. Lines(sol - 1) = <<<<>>>>
  <2>1. sol - 1 = 0 /\ SubSeq(msg.text, 1, 0) = <<>>
    BY <1>1, <1>4 DEF Text
  <2> QED BY <1>8, <2>1, Zenon DEF Lines
<1> HIDE DEF L
<1>12. Sent(Sender, <<>>, L) /\ NothingAfter(<<>>, Len(L))
  BY <1>8, <1>9, <1>10, Zenon DEF Sent, NothingAfter
<1>13. LinesUpTo(sol - 1, L)
  BY <1>9, <1>10, <1>11, Zenon DEF LinesUpTo
<1>14. LastGood(<<>>, ix_lastGoodRecord, L)
  BY <1>1, Zenon DEF LastGood, L
<1>15. Underway(L)
  BY <1>7, <1>12, <1>13, <1>14, Zenon DEF Underway
<1>16. status = "running" /\ "running" # "ok" /\ "running" # "truncated"
  BY <1>1
<1> QED BY <1>1, <1>4, <1>5, <1>6, <1>7, <1>15, <1>16, Zenon DEF MessageInv, Ready

LEMMA InvEncodeRecord ==
  ASSUME MessageInv, EncodeRecord
  PROVE  MessageInv'
<1>1. /\ status = "running" /\ msg' = msg /\ bufferSize' = bufferSize /\ decoded' = decoded
  BY RoundIs
<1>2. Ready /\ Good(encoded) /\ ~encoded.isError /\ decoded = <<>> /\ \E L : Underway(L)
  BY <1>1 DEF MessageInv
<1>3. PICK L : Underway(L)
  BY <1>2
<1>4. /\ "running" # "ok" /\ "running" # "truncated" /\ "ok" # "truncated"
      /\ "error" \notin {"running", "ok", "truncated"}
  OBVIOUS
<1>5. sol' = sol => Ready'
  BY <1>1, <1>2 DEF Ready, Room
<1>6. ASSUME status' \in {"ok", "truncated"}, sol' = sol,
             NEW M, Arrived(encoded'.text, status', M)
      PROVE  MessageInv'
  <2>1. Arrived(encoded.text, status, M)'
    BY <1>1, <1>6, Zenon DEF Arrived, Matches, Wanted, Sender
  <2>2. decoded' = <<>>
    BY <1>1, <1>2
  <2>3. Finished'
    BY <2>1, <2>2, Zenon DEF Finished
  <2> QED BY <1>4, <1>5, <1>6, <2>3, Zenon DEF MessageInv
<1>7. CASE ~IsCut /\ encoded' = Written
  <2>1. PICK M : M = Append(L, Clean(Line))
    OBVIOUS
  <2>2. ~Written.isError
    BY <1>7, Zenon DEF IsCut
  <2>3. /\ Sent(Sender, Written.text, M) /\ M # <<>>
        /\ NothingAfter(Written.text, Len(M))
        /\ LastGood(Written.text, Len(Written.text), M)
        /\ Eol = 0 => Matches(M, "ok")
        /\ Eol # 0 => LinesUpTo(Eol, M) /\ Eol \in 1 .. Len(msg.text)
    BY <1>2, <1>3, <2>1, <2>2, OneMore, Zenon
  <2>4. CASE Eol = 0 /\ status' = "ok" /\ UNCHANGED <<sol, ix_lastGoodRecord>>
    <3>1. Arrived(encoded'.text, status', M)
      BY <1>7, <2>3, <2>4, Zenon DEF Arrived
    <3> QED BY <1>6, <2>4, <3>1
  <2>5. CASE /\ Eol # 0 /\ sol' = Eol + 1 /\ UNCHANGED status
             /\ ix_lastGoodRecord' = Len(Written.text)
    <3>1. sol' \in 1 .. Len(msg.text) + 1 /\ sol' - 1 = Eol
      BY <2>3, <2>5
    <3>2. Ready'
      BY <1>1, <1>2, <3>1 DEF Ready, Room
    <3>3. Good(encoded)'
      <4>1. Good(Written)
        BY <1>2, WrittenIs, Zenon DEF Ready
      <4> QED BY <1>1, <1>7, <4>1, Zenon DEF Good
    <3>4. LinesUpTo(sol - 1, M)'
      BY <1>1, <2>3, <2>5, <3>1, Zenon DEF LinesUpTo, Lines
    <3>5. Sent(Sender, encoded.text, M)'
      BY <1>1, <1>7, <2>3, Zenon DEF Sender
    <3>6. Underway(M)'
      BY <1>7, <2>3, <2>5, <3>4, <3>5, Zenon DEF Underway
    <3>7. ~encoded'.isError /\ decoded' = <<>> /\ status' = "running"
      BY <1>1, <1>2, <1>7, <2>2, <2>5, Zenon
    <3> QED BY <1>4, <3>2, <3>3, <3>6, <3>7, Zenon DEF MessageInv
  <2> QED BY <1>7, <2>4, <2>5, RoundIs, Zenon
<1>8. CASE /\ IsCut /\ MarkAt >= 0 /\ status' = "truncated"
           /\ encoded' = [text    |-> SubSeq(Written.text, 1, MarkAt) \o Mark,
                          isError |-> FALSE]
           /\ UNCHANGED <<sol, ix_lastGoodRecord>>
  <2> DEFINE v == SubSeq(Written.text, 1, MarkAt) \o Mark
  <2>1. PICK M : Arrived(v, "truncated", M)
    BY <1>2, <1>3, <1>8, WithMark, Zenon
  <2> HIDE DEF v
  <2>2. encoded'.text = v
    <3>1. encoded' = [text |-> v, isError |-> FALSE]
      BY <1>8, Zenon DEF v
    <3> QED BY <3>1
  <2>3. Arrived(encoded'.text, status', M)
    BY <1>8, <2>1, <2>2, Zenon
  <2> QED BY <1>6, <1>8, <2>3
<1>9. CASE status' = "error" /\ UNCHANGED <<sol, ix_lastGoodRecord>>
  BY <1>4, <1>5, <1>9, Zenon DEF MessageInv
<1> QED BY <1>7, <1>8, <1>9, RoundIs, Zenon

LEMMA InvDecode ==
  ASSUME MessageInv, Decode
  PROVE  MessageInv'
<1> DEFINE e == Split(encoded.text, Newline)
           all == [i \in 1 .. Len(e) - 1 |-> DecodeRecord(e[i])]
<1>1. /\ status # "running" /\ decoded' = all
      /\ UNCHANGED <<msg, bufferSize, encoded, sol, ix_lastGoodRecord, status>>
  BY Zenon DEF Decode
<1>2. Ready /\ status \in {"running", "ok", "truncated", "error"}
  BY Zenon DEF MessageInv
<1>3. Ready'
  BY <1>1, <1>2 DEF Ready, Room
<1>4. ASSUME status \in {"ok", "truncated"} PROVE Finished'
  <2>1. PICK L : Arrived(encoded.text, status, L)
    BY <1>4, Zenon DEF MessageInv, Finished
  <2>2. Sent(Sender, encoded.text, L) /\ Sender \in Text
    BY <1>2, <2>1, SenderIs, Zenon DEF Arrived
  <2>3. \A i \in 1 .. Len(Sender) : Sender[i] # "#"
    BY <1>2, SenderIs, Zenon
  <2>4. e = Split(encoded.text, Newline)
    OBVIOUS
  <2> HIDE DEF e
  <2>5. DecodesTo(e, Sender, L)
    BY <2>2, <2>3, <2>4, SentDecodes, Zenon
  <2>6. all = Decoding(Sender, L)
    BY <2>5, Zenon DEF DecodesTo
  <2> HIDE DEF all
  <2>7. Arrived(encoded.text, status, L)'
    BY <1>1, <2>1, Zenon DEF Arrived, Matches, Wanted, Sender
  <2>8. decoded' = Decoding(Sender', L)
    BY <1>1, <2>6, Zenon DEF Sender
  <2> QED BY <2>7, <2>8, Zenon DEF Finished
<1> HIDE DEF all
<1> QED BY <1>1, <1>2, <1>3, <1>4, Zenon DEF MessageInv

(* What the server decodes is the lines of the message, with its header,   *)
(* whatever the characters in them and the size of the buffer: when it was *)
(* too small the last ones are missing, and the last one left bears the    *)
(* mark.                                                                   *)
THEOREM EncodingHolds == MessageSpec => []EncodeRoundTrip
<1>1. MessageInit => MessageInv
  BY InvAtStart
<1>2. MessageInv /\ [MessageNext]_msgVars => MessageInv'
  <2> SUFFICES ASSUME MessageInv, [MessageNext]_msgVars PROVE MessageInv'
    OBVIOUS
  <2>1. CASE EncodeRecord
    BY <2>1, InvEncodeRecord
  <2>2. CASE Decode
    BY <2>2, InvDecode
  <2>3. CASE UNCHANGED msgVars
    BY <2>3, Zenon DEF msgVars, MessageInv, Ready, Room, Good, Underway, Lines, LinesUpTo,
                Finished, Arrived, Matches, Wanted, Sender
  <2> QED BY <2>1, <2>2, <2>3, Zenon DEF MessageNext
<1>3. MessageInv => EncodeRoundTrip
  <2> SUFFICES ASSUME MessageInv, status \in {"ok", "truncated"}, decoded # <<>>
               PROVE  EncodeRoundTrip
    BY Zenon DEF EncodeRoundTrip
  <2>1. PICK L : Arrived(encoded.text, status, L) /\ decoded = Decoding(Sender, L)
    BY Zenon DEF MessageInv, Finished
  <2>2. L \in Seq(Text) /\ L # <<>> /\ Matches(L, status)
    BY <2>1, Zenon DEF Arrived, Sent
  <2>3. Sender = Clean(msg.header)
    BY DEF Sender
  <2> HIDE DEF Sender
  <2> QED BY <2>1, <2>2, <2>3, RoundTripIs, Zenon
<1> QED BY <1>1, <1>2, <1>3, PTL DEF MessageSpec

=============================================================================
