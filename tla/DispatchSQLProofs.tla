------------------------- MODULE DispatchSQLProofs -------------------------
(***************************************************************************)
(* Proofs about the database engine, for any number of engines, messages,  *)
(* lines and faults: the count of the transaction is right, rows are       *)
(* stored in order and, as long as transactions are on, once.              *)
(***************************************************************************)
EXTENDS DispatchSQL, TLAPS, SequenceTheorems

-----------------------------------------------------------------------------
(* Lists of rows.                                                          *)
DbRow == [msg : Nat, line : Nat]
Sorted(s) == \A i, j \in 1 .. Len(s) : i < j => s[i].msg <= s[j].msg
Once(s)   == \A i, j \in 1 .. Len(s) : i # j => s[i] # s[j]

(* An element of a concatenation is one of its parts'.                     *)
LEMMA ConcatElements ==
  ASSUME NEW S, NEW s \in Seq(S), NEW t \in Seq(S)
  PROVE  /\ s \o t \in Seq(S) /\ Len(s \o t) = Len(s) + Len(t)
         /\ \A i \in 1 .. Len(s) : (s \o t)[i] = s[i]
         /\ \A i \in 1 .. Len(t) : (s \o t)[Len(s) + i] = t[i]
         /\ \A i \in 1 .. Len(s \o t) :
              \/ i \in 1 .. Len(s) /\ (s \o t)[i] = s[i]
              \/ i - Len(s) \in 1 .. Len(t) /\ (s \o t)[i] = t[i - Len(s)]
OBVIOUS

(* A row added to the open transaction is added to all the rows.           *)
LEMMA AppendLast ==
  ASSUME NEW S, NEW s \in Seq(S), NEW t \in Seq(S), NEW x \in S
  PROVE  s \o Append(t, x) = Append(s \o t, x)
<1>1. /\ s \o Append(t, x) \in Seq(S) /\ Append(s \o t, x) \in Seq(S)
      /\ Len(s \o Append(t, x)) = Len(s) + Len(t) + 1
      /\ Len(Append(s \o t, x)) = Len(s) + Len(t) + 1
  OBVIOUS
<1>2. ASSUME NEW i \in 1 .. Len(s) + Len(t) + 1
      PROVE  (s \o Append(t, x))[i] = Append(s \o t, x)[i]
  OBVIOUS
<1> QED BY <1>1, <1>2, SeqEqual

(* Nothing is in the open transaction after a COMMIT or a disconnection.   *)
LEMMA ConcatEmpty ==
  ASSUME NEW S, NEW s \in Seq(S)
  PROVE  s \o <<>> = s
OBVIOUS

(* What is stored for good is ordered when all the rows are.               *)
LEMMA PrefixOrdered ==
  ASSUME NEW s \in Seq(DbRow), NEW t \in Seq(DbRow)
  PROVE  /\ Sorted(s \o t) => Sorted(s)
         /\ Once(s \o t) => Once(s)
<1>1. Len(s) \in Nat /\ Len(t) \in Nat /\ Len(s \o t) = Len(s) + Len(t)
  OBVIOUS
<1>2. \A i \in 1 .. Len(s) : i \in 1 .. Len(s \o t) /\ (s \o t)[i] = s[i]
  BY <1>1, ConcatElements
<1> QED BY <1>2 DEF Sorted, Once

(* A list stays ordered when a row that is not before any is added.        *)
LEMMA AppendOrdered ==
  ASSUME NEW s \in Seq(DbRow), NEW x \in DbRow
  PROVE  /\ Append(s, x) \in Seq(DbRow) /\ Len(Append(s, x)) = Len(s) + 1
         /\ \A i \in 1 .. Len(s) : Append(s, x)[i] = s[i]
         /\ Append(s, x)[Len(s) + 1] = x
         /\ Sorted(s) /\ (\A i \in 1 .. Len(s) : s[i].msg <= x.msg) =>
              Sorted(Append(s, x))
         /\ Once(s) /\ (\A i \in 1 .. Len(s) : s[i] # x) => Once(Append(s, x))
<1> DEFINE a == Append(s, x)
<1>1. /\ a \in Seq(DbRow) /\ Len(a) = Len(s) + 1 /\ Len(s) \in Nat
      /\ \A i \in 1 .. Len(s) : a[i] = s[i]
      /\ a[Len(s) + 1] = x
  OBVIOUS
<1> HIDE DEF a
<1>2. \A i \in 1 .. Len(a) : i \in 1 .. Len(s) \/ i = Len(s) + 1
  BY <1>1
<1>3. ASSUME Sorted(s), \A i \in 1 .. Len(s) : s[i].msg <= x.msg PROVE Sorted(a)
  <2> SUFFICES ASSUME NEW i \in 1 .. Len(a), NEW j \in 1 .. Len(a), i < j
               PROVE  a[i].msg <= a[j].msg
    BY DEF Sorted
  <2>1. i \in 1 .. Len(s)
    BY <1>1, <1>2
  <2>2. CASE j \in 1 .. Len(s)
    BY <1>1, <1>3, <2>1, <2>2 DEF Sorted
  <2>3. CASE j = Len(s) + 1
    BY <1>1, <1>3, <2>1, <2>3
  <2> QED BY <1>2, <2>2, <2>3
<1>4. ASSUME Once(s), \A i \in 1 .. Len(s) : s[i] # x PROVE Once(a)
  <2> SUFFICES ASSUME NEW i \in 1 .. Len(a), NEW j \in 1 .. Len(a), i # j
               PROVE  a[i] # a[j]
    BY DEF Once
  <2> QED BY <1>1, <1>2, <1>4 DEF Once
<1> QED BY <1>1, <1>3, <1>4 DEF a

-----------------------------------------------------------------------------
(* Types.                                                                  *)
DbMessage == [id : Nat, text : Nat \ {0}, bad : Nat, error : Errors \union {"none"}]
SqlState == [dbIsConnected : BOOLEAN, commitEnabled : BOOLEAN,
             commitNumberOfMsg : Nat, numberOfSuccessiveFailures : Nat,
             line : Nat, lines : Nat]
Session == [alive : BOOLEAN, open : BOOLEAN, rows : Seq(DbRow)]
SqlTypeOK ==
  /\ arrived \in Nat
  /\ main = Idle \/ main \in [msg : DbMessage, ix : Engine, nTry : Nat \ {0}]
  /\ queue \in [Engine -> Seq(DbMessage)]
  /\ pc \in [Engine -> {"loop", "queue", "insert"}]
  /\ sql \in [Engine -> SqlState]
  /\ session \in [Engine -> Session]
  /\ stored \in [Engine -> Seq(DbRow)]

(* The number of the last message that has left the main thread.           *)
Seen == IF main = Idle THEN arrived ELSE arrived - 1
MainInOrder == main # Idle => main.msg.id = arrived

(* A queue has messages in the order of their arrival.                     *)
QueueInOrder(e) ==
  /\ \A i \in 1 .. Len(queue[e]) : queue[e][i].id <= Seen
  /\ \A i, j \in 1 .. Len(queue[e]) : i < j => queue[e][i].id < queue[e][j].id

(* What an engine knows of its connection, its transaction and the message *)
(* that it inserts.                                                        *)
SessionFollowed(e) ==
  /\ pc[e] = "insert" =>
       queue[e] # <<>> /\ sql[e].line >= 1 /\ sql[e].line <= sql[e].lines
  /\ session[e].alive => sql[e].dbIsConnected
  /\ ~session[e].alive => ~session[e].open
  /\ ~session[e].open => session[e].rows = <<>>
  /\ sql[e].commitEnabled /\ session[e].alive =>
       /\ sql[e].commitNumberOfMsg = Len(session[e].rows)
       /\ pc[e] = "insert" => session[e].open

(* Rows are in the order of their messages, which are not after those in   *)
(* the queue.                                                              *)
RowsBehind(e) ==
  /\ Sorted(Rows(e))
  /\ \A i \in 1 .. Len(Rows(e)) :
       /\ Rows(e)[i].msg <= Seen
       /\ \A k \in 1 .. Len(queue[e]) : Rows(e)[i].msg <= queue[e][k].id

(* As long as transactions are on, no row of a message that is still in    *)
(* the queue is stored for good, and in the open transaction there are     *)
(* only earlier lines of the message that is being inserted.               *)
Before(row, q) == \A k \in 1 .. Len(q) : row.msg < q[k].id
InsertedBefore(row, p, q, line) ==
  p = "insert" /\ row.msg = q[1].id /\ row.line < line
RowsOnce(e) ==
  sql[e].commitEnabled =>
    /\ Once(Rows(e))
    /\ \A i \in 1 .. Len(stored[e]) : Before(stored[e][i], queue[e])
    /\ \A i \in 1 .. Len(session[e].rows) :
         \/ Before(session[e].rows[i], queue[e])
         \/ InsertedBefore(session[e].rows[i], pc[e], queue[e], sql[e].line)

EngineInv(e) ==
  QueueInOrder(e) /\ SessionFollowed(e) /\ RowsBehind(e) /\ RowsOnce(e)
SqlInv == SqlTypeOK /\ MainInOrder /\ \A e \in Engine : EngineInv(e)

(* A step of one engine, and what follows from what it does to its own.    *)
OnlyEngine(e) ==
  /\ UNCHANGED <<main, arrived>>
  /\ \A f \in Engine \ {e} :
       /\ queue'[f] = queue[f] /\ pc'[f] = pc[f] /\ sql'[f] = sql[f]
       /\ session'[f] = session[f] /\ stored'[f] = stored[f]

(* A step of one engine leaves the others' parts as they are.              *)
LEMMA EngineFrame ==
  ASSUME SqlInv, NEW e \in Engine, SqlTypeOK', OnlyEngine(e), EngineInv(e)'
  PROVE  SqlInv'
<1>1. MainInOrder' /\ Seen' = Seen
  BY DEF SqlInv, MainInOrder, OnlyEngine, Seen
<1>2. ASSUME NEW f \in Engine PROVE EngineInv(f)'
  <2>1. CASE f = e
    BY <2>1
  <2>2. CASE f # e
    <3>1. EngineInv(f)
      BY DEF SqlInv
    <3>2. /\ queue'[f] = queue[f] /\ pc'[f] = pc[f] /\ sql'[f] = sql[f]
          /\ session'[f] = session[f] /\ stored'[f] = stored[f]
      BY <2>2 DEF OnlyEngine
    <3>3. Rows(f)' = Rows(f)
      BY <3>2 DEF Rows
    <3>4. QueueInOrder(f)' /\ SessionFollowed(f)' /\ RowsBehind(f)'
      BY <1>1, <3>1, <3>2, <3>3
         DEF EngineInv, QueueInOrder, SessionFollowed, RowsBehind
    <3>5. RowsOnce(f)'
      BY <3>1, <3>2, <3>3 DEF EngineInv, RowsOnce, InsertedBefore
    <3> QED BY <3>4, <3>5 DEF EngineInv
  <2> QED BY <2>1, <2>2
<1> QED BY <1>1, <1>2 DEF SqlInv

(* What the types say of one engine.                                       *)
LEMMA EngineTypes ==
  ASSUME SqlTypeOK, NEW e \in Engine
  PROVE  /\ queue[e] \in Seq(DbMessage) /\ Len(queue[e]) \in Nat
         /\ \A i \in 1 .. Len(queue[e]) : queue[e][i] \in DbMessage
         /\ pc[e] \in {"loop", "queue", "insert"}
         /\ sql[e] \in SqlState /\ session[e] \in Session
         /\ session[e].rows \in Seq(DbRow) /\ stored[e] \in Seq(DbRow)
         /\ Rows(e) \in Seq(DbRow)
<1>1. queue[e] \in Seq(DbMessage) /\ stored[e] \in Seq(DbRow) /\ session[e] \in Session
  BY DEF SqlTypeOK
<1>2. session[e].rows \in Seq(DbRow)
  BY <1>1 DEF Session
<1>3. Rows(e) \in Seq(DbRow)
  BY <1>1, <1>2, ConcatElements DEF Rows
<1>4. Len(queue[e]) \in Nat /\ \A i \in 1 .. Len(queue[e]) : queue[e][i] \in DbMessage
  BY <1>1
<1> QED BY <1>1, <1>2, <1>3, <1>4 DEF SqlTypeOK

(* The queue stays, or its head is removed.                                *)
SameIds(q, r) == Len(q) = Len(r) /\ \A i \in 1 .. Len(q) : q[i].id = r[i].id
Popped(e) == queue[e] # <<>> /\ queue'[e] = Tail(queue[e])

(* A queue stays in order, and what is left was behind its head.           *)
LEMMA QueueKept ==
  ASSUME SqlTypeOK, SqlTypeOK', NEW e \in Engine, EngineInv(e), Seen' = Seen,
         SameIds(queue[e], queue'[e]) \/ Popped(e)
  PROVE  /\ QueueInOrder(e)'
         /\ \A k \in 1 .. Len(queue'[e]) :
              \E i \in 1 .. Len(queue[e]) : queue'[e][k].id = queue[e][i].id
         /\ Popped(e) =>
              \A k \in 1 .. Len(queue'[e]) : queue[e][1].id < queue'[e][k].id
<1>t. /\ queue[e] \in Seq(DbMessage) /\ Len(queue[e]) \in Nat
      /\ \A i \in 1 .. Len(queue[e]) : queue[e][i].id \in Nat
  BY EngineTypes DEF DbMessage
<1>1. CASE SameIds(queue[e], queue'[e]) /\ ~Popped(e)
  <2>1. QueueInOrder(e)'
    BY <1>1 DEF EngineInv, QueueInOrder, SameIds
  <2>2. ASSUME NEW k \in 1 .. Len(queue'[e])
        PROVE  \E i \in 1 .. Len(queue[e]) : queue'[e][k].id = queue[e][i].id
    <3>1. k \in 1 .. Len(queue[e]) /\ queue'[e][k].id = queue[e][k].id
      BY <1>1 DEF SameIds
    <3> QED BY <3>1
  <2> QED BY <1>1, <2>1, <2>2
<1>2. CASE Popped(e)
  <2>1. /\ Len(queue'[e]) = Len(queue[e]) - 1
        /\ \A i \in 1 .. Len(queue'[e]) : queue'[e][i] = queue[e][i + 1]
        /\ Len(queue[e]) # 0
    BY <1>t, <1>2, HeadTailProperties DEF Popped
  <2>2. \A i \in 1 .. Len(queue'[e]) :
          /\ i + 1 \in 1 .. Len(queue[e]) /\ 1 \in 1 .. Len(queue[e]) /\ 1 < i + 1
          /\ queue'[e][i].id = queue[e][i + 1].id
    BY <1>t, <2>1
  <2>3. \A i \in 1 .. Len(queue'[e]) : queue'[e][i].id <= Seen
    BY <2>2 DEF EngineInv, QueueInOrder
  <2>4. ASSUME NEW i \in 1 .. Len(queue'[e]), NEW j \in 1 .. Len(queue'[e]), i < j
        PROVE  queue'[e][i].id < queue'[e][j].id
    <3>1. i + 1 < j + 1 /\ i + 1 \in 1 .. Len(queue[e]) /\ j + 1 \in 1 .. Len(queue[e])
      BY <2>2, <2>4
    <3>2. queue[e][i + 1].id < queue[e][j + 1].id
      BY <3>1 DEF EngineInv, QueueInOrder
    <3> QED BY <2>2, <3>2
  <2>5. \A k \in 1 .. Len(queue'[e]) : queue[e][1].id < queue'[e][k].id
    <3> TAKE k \in 1 .. Len(queue'[e])
    <3>1. queue[e][1].id < queue[e][k + 1].id
      BY <2>2 DEF EngineInv, QueueInOrder
    <3> QED BY <2>2, <3>1
  <2> QED BY <1>t, <2>2, <2>3, <2>4, <2>5 DEF QueueInOrder
<1> QED BY <1>1, <1>2

(* A row not behind the head of the queue is not behind what is left.      *)
LEMMA BeforeKept ==
  ASSUME NEW e \in Engine, NEW row, Before(row, queue[e]),
         \A k \in 1 .. Len(queue'[e]) :
           \E i \in 1 .. Len(queue[e]) : queue'[e][k].id = queue[e][i].id
  PROVE  Before(row, queue'[e])
BY DEF Before

(* The rows stay, or those of the open transaction are lost.               *)
LEMMA RowsKept ==
  ASSUME SqlTypeOK, SqlTypeOK', NEW e \in Engine, EngineInv(e), Seen' = Seen,
         stored'[e] = stored[e],
         session'[e].rows \in {session[e].rows, <<>>},
         SameIds(queue[e], queue'[e]) \/ Popped(e),
         sql'[e].commitEnabled => sql[e].commitEnabled,
         session'[e].rows = <<>> \/ pc[e] # "insert" \/ Popped(e)
  PROVE  QueueInOrder(e)' /\ RowsBehind(e)' /\ RowsOnce(e)'
<1>t. /\ queue[e] \in Seq(DbMessage) /\ Len(queue[e]) \in Nat
      /\ session[e].rows \in Seq(DbRow) /\ stored[e] \in Seq(DbRow)
  BY EngineTypes
<1>1. /\ QueueInOrder(e)'
      /\ \A k \in 1 .. Len(queue'[e]) :
           \E i \in 1 .. Len(queue[e]) : queue'[e][k].id = queue[e][i].id
      /\ Popped(e) =>
           \A k \in 1 .. Len(queue'[e]) : queue[e][1].id < queue'[e][k].id
  BY QueueKept
<1>3. \/ Rows(e)' = Rows(e) /\ session'[e].rows = session[e].rows
      \/ Rows(e)' = stored[e] /\ session'[e].rows = <<>>
  BY <1>t, ConcatEmptySeq DEF Rows
<1>4. /\ Sorted(Rows(e)') /\ (Once(Rows(e)) => Once(Rows(e)'))
      /\ \A i \in 1 .. Len(Rows(e)') :
           i \in 1 .. Len(Rows(e)) /\ Rows(e)'[i] = Rows(e)[i]
  <2>1. Sorted(stored[e]) /\ (Once(Rows(e)) => Once(stored[e]))
    BY <1>t, PrefixOrdered DEF Rows, EngineInv, RowsBehind
  <2>2. \A i \in 1 .. Len(stored[e]) :
          i \in 1 .. Len(Rows(e)) /\ stored[e][i] = Rows(e)[i]
    <3> DEFINE s == stored[e]
               t == session[e].rows
    <3>1. s \in Seq(DbRow) /\ t \in Seq(DbRow) /\ Rows(e) = s \o t
      BY <1>t DEF Rows
    <3> HIDE DEF s, t
    <3>2. /\ Len(s \o t) = Len(s) + Len(t)
          /\ \A i \in 1 .. Len(s) : (s \o t)[i] = s[i]
      BY <3>1, ConcatElements
    <3>3. Len(s) \in Nat /\ Len(t) \in Nat
      BY <3>1
    <3>4. \A i \in 1 .. Len(s) : i \in 1 .. Len(Rows(e)) /\ s[i] = Rows(e)[i]
      BY <3>1, <3>2, <3>3
    <3> QED BY <3>4 DEF s
  <2> QED BY <1>3, <2>1, <2>2 DEF EngineInv, RowsBehind
<1>5. RowsBehind(e)'
  <2>1. \A i \in 1 .. Len(Rows(e)') : Rows(e)'[i].msg <= Seen
    BY <1>4 DEF EngineInv, RowsBehind
  <2>2. \A i \in 1 .. Len(Rows(e)') : \A k \in 1 .. Len(queue'[e]) :
          Rows(e)'[i].msg <= queue'[e][k].id
    BY <1>1, <1>4 DEF EngineInv, RowsBehind
  <2> QED BY <1>4, <2>1, <2>2 DEF RowsBehind
<1>6. RowsOnce(e)'
  <2> SUFFICES ASSUME sql'[e].commitEnabled
               PROVE  /\ Once(Rows(e)')
                      /\ \A i \in 1 .. Len(stored'[e]) : Before(stored'[e][i], queue'[e])
                      /\ \A i \in 1 .. Len(session'[e].rows) :
                           Before(session'[e].rows[i], queue'[e])
    BY DEF RowsOnce
  <2>1. RowsOnce(e) /\ sql[e].commitEnabled
    BY DEF EngineInv
  <2>2. \A i \in 1 .. Len(stored'[e]) : Before(stored'[e][i], queue'[e])
    BY <1>1, <2>1, BeforeKept DEF RowsOnce
  <2>3. ASSUME NEW i \in 1 .. Len(session'[e].rows)
        PROVE  Before(session'[e].rows[i], queue'[e])
    <3>1. session'[e].rows = session[e].rows
      BY <2>3
    <3>2. CASE Before(session[e].rows[i], queue[e])
      BY <1>1, <3>1, <3>2, BeforeKept
    <3>3. CASE InsertedBefore(session[e].rows[i], pc[e], queue[e], sql[e].line)
      <4>1. Popped(e)
        BY <2>3, <3>3 DEF InsertedBefore
      <4> QED BY <1>1, <3>1, <3>3, <4>1 DEF InsertedBefore, Before
    <3>4. i \in 1 .. Len(session[e].rows)
      BY <3>1
    <3> QED BY <2>1, <3>2, <3>3, <3>4 DEF RowsOnce
  <2> QED BY <1>4, <2>1, <2>2, <2>3 DEF RowsOnce
<1> QED BY <1>1, <1>5, <1>6

(* A row of the message at the head of the queue is inserted.              *)
LEMMA RowAdded ==
  ASSUME SqlTypeOK, SqlTypeOK', NEW e \in Engine, EngineInv(e), Seen' = Seen,
         pc[e] = "insert", NEW row \in DbRow,
         row.msg = queue[e][1].id, row.line = sql[e].line,
         Rows(e)' = Append(Rows(e), row),
         SameIds(queue[e], queue'[e]) \/ Popped(e),
         sql'[e].commitEnabled =>
           /\ sql[e].commitEnabled
           /\ stored'[e] = stored[e]
           /\ session'[e].rows = Append(session[e].rows, row)
           /\ \/ Popped(e)
              \/ /\ SameIds(queue[e], queue'[e])
                 /\ pc'[e] = "insert" /\ sql'[e].line = sql[e].line + 1
  PROVE  QueueInOrder(e)' /\ RowsBehind(e)' /\ RowsOnce(e)'
<1>t. /\ queue[e] \in Seq(DbMessage) /\ Len(queue[e]) \in Nat \ {0}
      /\ \A i \in 1 .. Len(queue[e]) : queue[e][i].id \in Nat
      /\ session[e].rows \in Seq(DbRow) /\ stored[e] \in Seq(DbRow)
      /\ Rows(e) \in Seq(DbRow) /\ sql[e].line \in Nat
  <2>1. queue[e] # <<>>
    BY DEF EngineInv, SessionFollowed
  <2>2. \A i \in 1 .. Len(queue[e]) : queue[e][i].id \in Nat
    BY EngineTypes DEF DbMessage
  <2>3. queue[e] \in Seq(DbMessage) /\ sql[e] \in SqlState
        /\ session[e].rows \in Seq(DbRow) /\ stored[e] \in Seq(DbRow)
        /\ Rows(e) \in Seq(DbRow)
    BY EngineTypes
  <2>4. sql[e].line \in Nat
    BY <2>3 DEF SqlState
  <2> QED BY <2>1, <2>2, <2>3, <2>4
<1>1. /\ QueueInOrder(e)'
      /\ \A k \in 1 .. Len(queue'[e]) :
           \E i \in 1 .. Len(queue[e]) : queue'[e][k].id = queue[e][i].id
      /\ Popped(e) =>
           \A k \in 1 .. Len(queue'[e]) : queue[e][1].id < queue'[e][k].id
  BY QueueKept
<1>2. \A k \in 1 .. Len(queue[e]) : row.msg <= queue[e][k].id
  <2> TAKE k \in 1 .. Len(queue[e])
  <2>1. 1 \in 1 .. Len(queue[e]) /\ (k = 1 \/ 1 < k)
    BY <1>t
  <2>2. 1 < k => queue[e][1].id < queue[e][k].id
    BY <2>1 DEF EngineInv, QueueInOrder
  <2>3. queue[e][1].id \in Nat /\ queue[e][k].id \in Nat
    BY <1>t, <2>1
  <2>4. queue[e][1].id <= queue[e][k].id
    BY <2>1, <2>2, <2>3
  <2> QED BY <2>4
<1>3. RowsBehind(e)'
  <2>1. \A i \in 1 .. Len(Rows(e)) :
          /\ Rows(e)[i].msg <= Seen /\ Rows(e)[i].msg <= row.msg
          /\ \A k \in 1 .. Len(queue[e]) : Rows(e)[i].msg <= queue[e][k].id
    BY <1>t DEF EngineInv, RowsBehind
  <2>2. row.msg <= Seen
    BY <1>t DEF EngineInv, QueueInOrder
  <2>3. /\ Len(Append(Rows(e), row)) = Len(Rows(e)) + 1
        /\ \A i \in 1 .. Len(Rows(e)) : Append(Rows(e), row)[i] = Rows(e)[i]
        /\ Append(Rows(e), row)[Len(Rows(e)) + 1] = row
        /\ Sorted(Append(Rows(e), row))
    BY <1>t, <2>1, AppendOrdered DEF EngineInv, RowsBehind
  <2>4. \A i \in 1 .. Len(Rows(e)') :
          (i \in 1 .. Len(Rows(e)) /\ Rows(e)'[i] = Rows(e)[i]) \/ Rows(e)'[i] = row
    BY <1>t, <2>3
  <2>5. \A i \in 1 .. Len(Rows(e)') : Rows(e)'[i].msg <= Seen
    BY <2>1, <2>2, <2>4
  <2>6. \A i \in 1 .. Len(Rows(e)') : \A k \in 1 .. Len(queue'[e]) :
          Rows(e)'[i].msg <= queue'[e][k].id
    BY <1>1, <1>2, <2>1, <2>4
  <2> QED BY <2>3, <2>5, <2>6 DEF RowsBehind
<1>4. RowsOnce(e)'
  <2> SUFFICES ASSUME sql'[e].commitEnabled
               PROVE  /\ Once(Rows(e)')
                      /\ \A i \in 1 .. Len(stored'[e]) : Before(stored'[e][i], queue'[e])
                      /\ \A i \in 1 .. Len(session'[e].rows) :
                           \/ Before(session'[e].rows[i], queue'[e])
                           \/ InsertedBefore(session'[e].rows[i], pc'[e], queue'[e], sql'[e].line)
    BY DEF RowsOnce
  <2>1. RowsOnce(e) /\ sql[e].commitEnabled
    BY DEF EngineInv
  <2>2. \A i \in 1 .. Len(stored'[e]) : Before(stored'[e][i], queue'[e])
    BY <1>1, <2>1, BeforeKept DEF RowsOnce
  <2>3. ASSUME NEW r, Before(r, queue[e]) \/ InsertedBefore(r, pc[e], queue[e], sql[e].line)
        PROVE  r # row
    BY <1>t, <2>3 DEF Before, InsertedBefore
  <2>4. \A i \in 1 .. Len(Rows(e)) : Rows(e)[i] # row
    <3> DEFINE s == stored[e]
               t == session[e].rows
    <3>1. s \in Seq(DbRow) /\ t \in Seq(DbRow) /\ Rows(e) = s \o t
      BY <1>t DEF Rows
    <3>2. /\ \A i \in 1 .. Len(s) : s[i] # row
          /\ \A i \in 1 .. Len(t) : t[i] # row
      BY <2>1, <2>3 DEF RowsOnce
    <3> HIDE DEF s, t
    <3>3. \A i \in 1 .. Len(s \o t) :
            \/ i \in 1 .. Len(s) /\ (s \o t)[i] = s[i]
            \/ i - Len(s) \in 1 .. Len(t) /\ (s \o t)[i] = t[i - Len(s)]
      BY <3>1, ConcatElements
    <3> QED BY <3>1, <3>2, <3>3
  <2>5. Once(Rows(e)')
    BY <1>t, <2>1, <2>4, AppendOrdered DEF RowsOnce
  <2>6. ASSUME NEW r \in DbRow, Before(r, queue[e]) \/ InsertedBefore(r, pc[e], queue[e], sql[e].line) \/ r = row
        PROVE  Before(r, queue'[e]) \/ InsertedBefore(r, pc'[e], queue'[e], sql'[e].line)
    <3>1. CASE Before(r, queue[e])
      BY <1>1, <3>1, BeforeKept
    <3>2. CASE r.msg = queue[e][1].id /\ r.line < sql[e].line + 1
      <4>1. CASE Popped(e)
        BY <1>1, <3>2, <4>1 DEF Before
      <4>2. CASE /\ SameIds(queue[e], queue'[e])
                 /\ pc'[e] = "insert" /\ sql'[e].line = sql[e].line + 1
        <5>1. queue'[e][1].id = queue[e][1].id
          BY <1>t, <4>2 DEF SameIds
        <5> QED BY <3>2, <4>2, <5>1 DEF InsertedBefore
      <4> QED BY <4>1, <4>2
    <3>3. CASE InsertedBefore(r, pc[e], queue[e], sql[e].line) \/ r = row
      BY <1>t, <3>2, <3>3 DEF InsertedBefore, DbRow
    <3> QED BY <2>6, <3>1, <3>3
  <2>7. ASSUME NEW i \in 1 .. Len(session'[e].rows)
        PROVE  \/ Before(session'[e].rows[i], queue'[e])
               \/ InsertedBefore(session'[e].rows[i], pc'[e], queue'[e], sql'[e].line)
    <3> DEFINE t == session[e].rows
               u == session'[e].rows
    <3>t. t \in Seq(DbRow) /\ u = Append(t, row)
      BY <1>t, <2>1
    <3>a. /\ Len(Append(t, row)) = Len(t) + 1 /\ Append(t, row)[Len(t) + 1] = row
          /\ \A j \in 1 .. Len(t) : Append(t, row)[j] = t[j]
          /\ Len(t) \in Nat
      BY <3>t, AppendProperties
    <3>1. \/ i \in 1 .. Len(t) /\ u[i] = t[i]
          \/ u[i] = row
      <4> HIDE DEF t, u
      <4>1. i \in 1 .. Len(t) \/ i = Len(t) + 1
        BY <3>t, <3>a DEF u
      <4> QED BY <4>1, <3>t, <3>a
    <3>2. session'[e].rows[i] \in DbRow
      BY <3>t, <3>1
    <3> QED BY <2>1, <2>6, <3>1, <3>2 DEF RowsOnce
  <2> QED BY <2>2, <2>5, <2>7
<1> QED BY <1>1, <1>3, <1>4

(* COMMIT stores the rows of the transaction for good.                     *)
LEMMA RowsCommitted ==
  ASSUME SqlTypeOK, SqlTypeOK', NEW e \in Engine, EngineInv(e), Seen' = Seen,
         pc[e] # "insert", queue'[e] = queue[e],
         stored'[e] = stored[e] \o session[e].rows, session'[e].rows = <<>>,
         sql'[e].commitEnabled => sql[e].commitEnabled
  PROVE  QueueInOrder(e)' /\ RowsBehind(e)' /\ RowsOnce(e)'
<1>t. /\ session[e].rows \in Seq(DbRow) /\ stored[e] \in Seq(DbRow)
      /\ Rows(e) \in Seq(DbRow)
  BY EngineTypes
<1>1. Rows(e)' = Rows(e)
  BY <1>t, ConcatEmptySeq DEF Rows
<1>2. QueueInOrder(e)' /\ RowsBehind(e)'
  BY <1>1 DEF EngineInv, QueueInOrder, RowsBehind
<1>3. RowsOnce(e)'
  <2> SUFFICES ASSUME sql'[e].commitEnabled
               PROVE  /\ Once(Rows(e)')
                      /\ \A i \in 1 .. Len(stored'[e]) : Before(stored'[e][i], queue'[e])
    <3>1. 1 .. Len(session'[e].rows) = {}
      OBVIOUS
    <3> QED BY <3>1 DEF RowsOnce
  <2>1. RowsOnce(e) /\ sql[e].commitEnabled
    BY DEF EngineInv
  <2> DEFINE s == stored[e]
             t == session[e].rows
  <2>2. /\ \A i \in 1 .. Len(s) : Before(s[i], queue[e])
        /\ \A i \in 1 .. Len(t) : Before(t[i], queue[e])
    BY <2>1 DEF RowsOnce, InsertedBefore
  <2>3. s \in Seq(DbRow) /\ t \in Seq(DbRow) /\ stored'[e] = s \o t
    BY <1>t
  <2> HIDE DEF s, t
  <2>4. \A i \in 1 .. Len(s \o t) :
            \/ i \in 1 .. Len(s) /\ (s \o t)[i] = s[i]
            \/ i - Len(s) \in 1 .. Len(t) /\ (s \o t)[i] = t[i - Len(s)]
    BY <2>3, ConcatElements
  <2>5. \A i \in 1 .. Len(stored'[e]) : Before(stored'[e][i], queue[e])
    BY <2>2, <2>3, <2>4
  <2> QED BY <1>1, <2>1, <2>5 DEF RowsOnce
<1> QED BY <1>2, <1>3

-----------------------------------------------------------------------------
(* The main thread.                                                        *)
LEMMA SqlInvInit == Init => SqlInv
<1> SUFFICES ASSUME Init PROVE SqlInv
  OBVIOUS
<1>1. SqlTypeOK
  BY DEF Init, NewEngine, SqlTypeOK, SqlState, Session, NoSession
<1>2. MainInOrder
  BY DEF Init, NewEngine, MainInOrder
<1>3. ASSUME NEW e \in Engine PROVE EngineInv(e)
  <2>1. /\ queue[e] = <<>> /\ stored[e] = <<>> /\ pc[e] = "loop"
        /\ session[e] = [alive |-> FALSE, open |-> FALSE, rows |-> <<>>]
    BY <1>3 DEF Init, NewEngine, NoSession
  <2>2. Rows(e) = <<>>
    BY <2>1 DEF Rows
  <2> QED BY <2>1, <2>2 DEF EngineInv, QueueInOrder, SessionFollowed, RowsBehind,
                            RowsOnce, Sorted, Once
<1> QED BY <1>1, <1>2, <1>3 DEF SqlInv

(* A step of the main thread does not touch the engines.                   *)
LEMMA MainAlone ==
  ASSUME SqlInv, SqlTypeOK', MainInOrder', EngineUnchanged, Seen' \in Int, Seen' >= Seen,
         \A e \in Engine : QueueInOrder(e)',
         \A e \in Engine : \/ queue'[e] = queue[e]
                           \/ \E m \in DbMessage : /\ queue'[e] = Append(queue[e], m)
                                                   /\ m.id > Seen
  PROVE  SqlInv'
<1>s. Seen \in Int
  BY DEF SqlInv, SqlTypeOK, Seen
<1>1. ASSUME NEW e \in Engine PROVE EngineInv(e)'
  <2>t. /\ queue[e] \in Seq(DbMessage) /\ Len(queue[e]) \in Nat
        /\ Rows(e) \in Seq(DbRow) /\ stored[e] \in Seq(DbRow)
        /\ session[e].rows \in Seq(DbRow)
    BY EngineTypes DEF SqlInv
  <2>1. /\ pc'[e] = pc[e] /\ sql'[e] = sql[e] /\ session'[e] = session[e]
        /\ stored'[e] = stored[e] /\ Rows(e)' = Rows(e)
    BY DEF EngineUnchanged, dbVars, Rows
  <2>2. /\ \A k \in 1 .. Len(queue'[e]) :
             \/ k \in 1 .. Len(queue[e]) /\ queue'[e][k] = queue[e][k]
             \/ queue'[e][k].id \in Nat /\ queue'[e][k].id > Seen
        /\ queue[e] # <<>> => queue'[e] # <<>> /\ queue'[e][1] = queue[e][1]
    <3>1. CASE queue'[e] = queue[e]
      BY <3>1
    <3>2. ASSUME NEW m \in DbMessage, queue'[e] = Append(queue[e], m), m.id > Seen
          PROVE  /\ \A k \in 1 .. Len(queue'[e]) :
                      \/ k \in 1 .. Len(queue[e]) /\ queue'[e][k] = queue[e][k]
                      \/ queue'[e][k].id \in Nat /\ queue'[e][k].id > Seen
                 /\ queue[e] # <<>> => queue'[e] # <<>> /\ queue'[e][1] = queue[e][1]
      <4>1. /\ Len(queue'[e]) = Len(queue[e]) + 1
            /\ \A k \in 1 .. Len(queue[e]) : queue'[e][k] = queue[e][k]
            /\ queue'[e][Len(queue[e]) + 1] = m /\ queue'[e] # <<>>
        BY <2>t, <3>2, AppendProperties
      <4>2. m.id \in Nat /\ m.id > Seen
        BY <3>2 DEF DbMessage
      <4>3. queue[e] # <<>> => 1 \in 1 .. Len(queue[e])
        BY <2>t
      <4> QED BY <2>t, <4>1, <4>2, <4>3
    <3> QED BY <3>1, <3>2
  <2>3. EngineInv(e)
    BY DEF SqlInv
  <2>4. SessionFollowed(e)'
    BY <2>1, <2>2, <2>3 DEF EngineInv, SessionFollowed
  <2>5. ASSUME NEW r \in DbRow, r.msg <= Seen,
               \A k \in 1 .. Len(queue[e]) : r.msg <= queue[e][k].id
        PROVE  \A k \in 1 .. Len(queue'[e]) : r.msg <= queue'[e][k].id
    BY <1>s, <2>2, <2>5 DEF DbRow
  <2>6. ASSUME NEW r \in DbRow, r.msg <= Seen, Before(r, queue[e])
        PROVE  Before(r, queue'[e])
    BY <1>s, <2>2, <2>6, SMTT(30) DEF DbRow, Before
  <2>7. \A i \in 1 .. Len(Rows(e)) : Rows(e)[i] \in DbRow /\ Rows(e)[i].msg <= Seen
    BY <2>t, <2>3 DEF EngineInv, RowsBehind
  <2>8. RowsBehind(e)'
    <3>1. \A i \in 1 .. Len(Rows(e)) : Rows(e)[i].msg <= Seen'
      BY <1>s, <2>7 DEF DbRow
    <3>2. \A i \in 1 .. Len(Rows(e)) : \A k \in 1 .. Len(queue'[e]) :
            Rows(e)[i].msg <= queue'[e][k].id
      BY <2>3, <2>5, <2>7 DEF EngineInv, RowsBehind
    <3> QED BY <2>1, <2>3, <3>1, <3>2 DEF EngineInv, RowsBehind
  <2>9. RowsOnce(e)'
    <3> SUFFICES ASSUME sql[e].commitEnabled PROVE RowsOnce(e)'
      BY <2>1 DEF RowsOnce
    <3>1. RowsOnce(e)
      BY <2>3 DEF EngineInv
    <3> DEFINE s == stored[e]
               t == session[e].rows
    <3>2. s \in Seq(DbRow) /\ t \in Seq(DbRow) /\ Rows(e) = s \o t
      BY <2>t DEF Rows
    <3> HIDE DEF s, t
    <3>3. /\ \A i \in 1 .. Len(s) : s[i] \in DbRow /\ s[i].msg <= Seen
          /\ \A i \in 1 .. Len(t) : t[i] \in DbRow /\ t[i].msg <= Seen
      <4>1. /\ Len(s \o t) = Len(s) + Len(t)
            /\ \A i \in 1 .. Len(s) : (s \o t)[i] = s[i]
            /\ \A i \in 1 .. Len(t) : (s \o t)[Len(s) + i] = t[i]
        BY <3>2, ConcatElements
      <4>2. Len(s) \in Nat /\ Len(t) \in Nat
        BY <3>2
      <4>3. \A i \in 1 .. Len(s) : i \in 1 .. Len(s \o t)
        BY <4>1, <4>2
      <4>4. \A i \in 1 .. Len(t) : Len(s) + i \in 1 .. Len(s \o t)
        BY <4>1, <4>2
      <4>5. \A i \in 1 .. Len(s \o t) : (s \o t)[i] \in DbRow /\ (s \o t)[i].msg <= Seen
        BY <2>7, <3>2
      <4>6. \A i \in 1 .. Len(s) : s[i] \in DbRow /\ s[i].msg <= Seen
        BY <4>1, <4>3, <4>5
      <4>7. \A i \in 1 .. Len(t) : t[i] \in DbRow /\ t[i].msg <= Seen
        BY <4>1, <4>4, <4>5
      <4> QED BY <4>6, <4>7
    <3> USE DEF s, t
    <3>4. \A i \in 1 .. Len(stored[e]) : Before(stored[e][i], queue'[e])
      BY <2>6, <3>1, <3>3 DEF RowsOnce
    <3>5. ASSUME NEW i \in 1 .. Len(session[e].rows)
          PROVE  \/ Before(session[e].rows[i], queue'[e])
                 \/ InsertedBefore(session[e].rows[i], pc[e], queue'[e], sql[e].line)
      <4>1. CASE Before(session[e].rows[i], queue[e])
        BY <2>6, <3>3, <4>1
      <4>2. CASE InsertedBefore(session[e].rows[i], pc[e], queue[e], sql[e].line)
        BY <2>2, <2>3, <4>2 DEF InsertedBefore, EngineInv, SessionFollowed
      <4> QED BY <3>1, <4>1, <4>2 DEF RowsOnce
    <3> QED BY <2>1, <3>1, <3>4, <3>5 DEF RowsOnce
  <2> QED BY <2>4, <2>8, <2>9 DEF EngineInv
<1> QED BY <1>1 DEF SqlInv

(* The main thread takes a message, with the next number.                  *)
LEMMA ReceiveKeepsInv == SqlInv /\ Receive => SqlInv'
<1> SUFFICES ASSUME SqlInv, Receive PROVE SqlInv'
  OBVIOUS
<1>1. SqlTypeOK
  BY DEF SqlInv
<1>2. PICK m \in Message, e \in Engine :
        m.id = arrived + 1 /\ main' = [msg |-> m, ix |-> e, nTry |-> 1]
  BY DEF Receive
<1>3. /\ main = Idle /\ arrived' = arrived + 1 /\ queue' = queue /\ EngineUnchanged
      /\ arrived \in Nat
  BY <1>1 DEF Receive, SqlTypeOK
<1>4. main' # Idle /\ m \in DbMessage
  <2>1. main'.nTry = 1 /\ Idle.nTry = 0
    BY <1>2 DEF Idle
  <2> QED BY <2>1, DispatchAssumption DEF Message, DbMessage
<1>5. Seen' = arrived /\ Seen = arrived
  BY <1>3, <1>4 DEF Seen
<1>6. SqlTypeOK'
  BY <1>1, <1>2, <1>3, <1>4 DEF SqlTypeOK, EngineUnchanged, dbVars
<1>7. MainInOrder'
  BY <1>2, <1>3 DEF MainInOrder
<1>8. \A f \in Engine : QueueInOrder(f)'
  BY <1>3, <1>5 DEF SqlInv, EngineInv, QueueInOrder
<1> QED BY <1>3, <1>5, <1>6, <1>7, <1>8, MainAlone

(* The message goes to the end of a queue, or the next engine is tried.    *)
LEMMA PushKeepsInv == SqlInv /\ Push => SqlInv'
<1> SUFFICES ASSUME SqlInv, Push PROVE SqlInv'
  OBVIOUS
<1>1. SqlTypeOK /\ MainInOrder
  BY DEF SqlInv
<1>2. /\ main # Idle /\ main \in [msg : DbMessage, ix : Engine, nTry : Nat \ {0}]
      /\ arrived \in Nat /\ arrived' = arrived /\ EngineUnchanged
      /\ main.msg.id = arrived /\ Seen = arrived - 1
  BY <1>1 DEF Push, SqlTypeOK, MainInOrder, Seen
<1> DEFINE e == main.ix
<1>e. e \in Engine /\ queue[e] \in Seq(DbMessage) /\ main.msg \in DbMessage
  BY <1>1, <1>2 DEF SqlTypeOK
<1>3. CASE queue' = [queue EXCEPT ![e] = Append(@, main.msg)] /\ main' = Idle
  <2>1. /\ queue'[e] = Append(queue[e], main.msg)
        /\ \A f \in Engine : f # e => queue'[f] = queue[f]
        /\ queue' \in [Engine -> Seq(DbMessage)]
    BY <1>1, <1>3, <1>e, AppendProperties DEF SqlTypeOK
  <2>2. Seen' = arrived
    BY <1>2, <1>3 DEF Seen
  <2>3. SqlTypeOK' /\ MainInOrder'
    BY <1>1, <1>2, <1>3, <2>1 DEF SqlTypeOK, MainInOrder, EngineUnchanged, dbVars
  <2>4. ASSUME NEW f \in Engine PROVE QueueInOrder(f)'
    <3>0. QueueInOrder(f)
      BY DEF SqlInv, EngineInv
    <3>t. \A k \in 1 .. Len(queue[f]) : queue[f][k].id \in Nat
      BY <1>1, EngineTypes DEF DbMessage
    <3>1. CASE f # e
      <4>1. \A k \in 1 .. Len(queue[f]) : queue[f][k].id <= arrived
        BY <1>2, <3>0, <3>t DEF QueueInOrder
      <4> QED BY <2>1, <2>2, <3>0, <3>1, <4>1 DEF QueueInOrder
    <3>2. CASE f = e
      <4>1. /\ Len(queue'[e]) = Len(queue[e]) + 1 /\ Len(queue[e]) \in Nat
            /\ \A k \in 1 .. Len(queue[e]) : queue'[e][k] = queue[e][k]
            /\ queue'[e][Len(queue[e]) + 1] = main.msg
        BY <1>e, <2>1, AppendProperties
      <4>2. \A k \in 1 .. Len(queue[e]) :
              queue[e][k].id \in Nat /\ queue[e][k].id <= arrived - 1
        BY <1>2, <3>0, <3>2, <3>t DEF QueueInOrder
      <4>3. \A k \in 1 .. Len(queue'[e]) : queue'[e][k].id <= arrived
        <5> TAKE k \in 1 .. Len(queue'[e])
        <5>1. k \in 1 .. Len(queue[e]) \/ k = Len(queue[e]) + 1
          BY <4>1
        <5>2. CASE k \in 1 .. Len(queue[e])
          BY <1>2, <4>1, <4>2, <5>2, SMTT(30)
        <5> QED BY <1>2, <4>1, <5>1, <5>2
      <4>4. ASSUME NEW i \in 1 .. Len(queue'[e]), NEW j \in 1 .. Len(queue'[e]), i < j
            PROVE  queue'[e][i].id < queue'[e][j].id
        <5>1. i \in 1 .. Len(queue[e])
          BY <4>1, <4>4
        <5>2. CASE j \in 1 .. Len(queue[e])
          BY <3>0, <3>2, <4>1, <4>4, <5>1, <5>2 DEF QueueInOrder
        <5>3. CASE j = Len(queue[e]) + 1
          <6>1. queue[e][i].id <= arrived - 1 /\ queue[e][i].id \in Nat
                /\ queue'[e][i] = queue[e][i]
            BY <4>1, <4>2, <5>1
          <6>2. queue'[e][j].id = arrived
            BY <1>2, <4>1, <5>3
          <6> QED BY <6>1, <6>2, <1>2
        <5> QED BY <4>1, <5>2, <5>3
      <4> QED BY <2>2, <3>2, <4>3, <4>4 DEF QueueInOrder
    <3> QED BY <3>1, <3>2
  <2>5. \A f \in Engine : \/ queue'[f] = queue[f]
                          \/ \E m \in DbMessage : /\ queue'[f] = Append(queue[f], m)
                                                  /\ m.id > Seen
    <3>1. main.msg.id > Seen
      BY <1>2
    <3> QED BY <1>e, <2>1, <3>1
  <2> QED BY <1>2, <2>2, <2>3, <2>4, <2>5, MainAlone
<1>4. CASE /\ UNCHANGED queue
           /\ main' = [main EXCEPT !.ix = IF e = nThreads THEN 1 ELSE e + 1,
                                   !.nTry = @ + 1]
  <2>1. main' \in [msg : DbMessage, ix : Engine, nTry : Nat \ {0}]
    <3> DEFINE next == IF e = nThreads THEN 1 ELSE e + 1
    <3>1. next \in Engine
      BY <1>e, DispatchAssumption DEF Engine
    <3>2. main' = [main EXCEPT !.ix = next, !.nTry = main.nTry + 1]
      BY <1>4
    <3> HIDE DEF next
    <3>3. main.msg \in DbMessage /\ main.nTry + 1 \in Nat \ {0}
      BY <1>2
    <3>4. main' = [msg |-> main.msg, ix |-> next, nTry |-> main.nTry + 1]
      BY <1>2, <3>2
    <3> QED BY <3>1, <3>3, <3>4
  <2>2. main'.nTry = main.nTry + 1 /\ main'.msg = main.msg
    BY <1>2, <1>4
  <2>3. main' # Idle
    <3>1. Idle.nTry = 0
      BY DEF Idle
    <3> QED BY <1>2, <2>2, <3>1
  <2>4. Seen' = Seen
    BY <1>2, <2>3 DEF Seen
  <2>5. SqlTypeOK' /\ MainInOrder'
    BY <1>1, <1>2, <1>4, <2>1, <2>2 DEF SqlTypeOK, MainInOrder, EngineUnchanged, dbVars
  <2>6. \A f \in Engine : QueueInOrder(f)'
    BY <1>4, <2>4 DEF SqlInv, EngineInv, QueueInOrder
  <2>7. Seen' \in Int /\ Seen' >= Seen /\ \A f \in Engine : queue'[f] = queue[f]
    BY <1>2, <1>4, <2>4
  <2> QED BY <1>2, <2>5, <2>6, <2>7, MainAlone
<1> QED BY <1>3, <1>4 DEF Push

(* No engine had room.                                                     *)
LEMMA GiveUpKeepsInv == SqlInv /\ GiveUp => SqlInv'
<1> SUFFICES ASSUME SqlInv, GiveUp PROVE SqlInv'
  OBVIOUS
<1>1. SqlTypeOK
  BY DEF SqlInv
<1>2. /\ main # Idle /\ main' = Idle /\ arrived' = arrived /\ queue' = queue
      /\ EngineUnchanged /\ arrived \in Nat
  BY <1>1 DEF GiveUp, SqlTypeOK
<1>3. Seen' = arrived /\ Seen = arrived - 1
  BY <1>2 DEF Seen
<1>4. SqlTypeOK' /\ MainInOrder'
  BY <1>1, <1>2 DEF SqlTypeOK, MainInOrder, EngineUnchanged, dbVars
<1>5. ASSUME NEW f \in Engine PROVE QueueInOrder(f)'
  <2>1. \A i \in 1 .. Len(queue[f]) : queue[f][i].id \in Nat
    BY <1>1, EngineTypes DEF DbMessage
  <2> QED BY <1>2, <1>3, <2>1 DEF SqlInv, EngineInv, QueueInOrder
<1> QED BY <1>2, <1>3, <1>4, <1>5, MainAlone

-----------------------------------------------------------------------------
(* The engines.                                                            *)
(* No row is inserted or committed.                                        *)
LEMMA LoopKeepsInv ==
  ASSUME SqlInv, NEW e \in Engine, Connect(e) \/ Loop(e) \/ Empty(e) \/ BeginFails(e)
  PROVE  SqlInv'
<1>t. SqlTypeOK /\ EngineInv(e) /\ pc[e] \in {"loop", "queue"}
  BY DEF SqlInv, Connect, Loop, Empty, BeginFails
<1>1. /\ UNCHANGED <<main, arrived, queue, stored>>
      /\ pc'[e] \in {"loop", "queue"}
      /\ session'[e].rows \in {session[e].rows, <<>>}
      /\ sql'[e].commitEnabled => sql[e].commitEnabled
      /\ SqlTypeOK' /\ OnlyEngine(e) /\ SessionFollowed(e)'
  <2>1. CASE Connect(e)
    <3> DEFINE new == [NoSession EXCEPT !.alive = TRUE]
    <3>1. /\ sql' = [sql EXCEPT ![e] = Connected(@)]
          /\ session' = [session EXCEPT ![e] = new]
          /\ pc' = [pc EXCEPT ![e] = "queue"]
          /\ UNCHANGED <<main, arrived, queue, stored>>
      BY <2>1 DEF Connect, mainVars
    <3>2. Connected(sql[e]) \in SqlState
      <4>1. sql[e] \in SqlState
        BY <1>t DEF SqlTypeOK
      <4> QED BY <4>1 DEF Connected, SqlState
    <3>3. new \in Session /\ new.rows = <<>> /\ ~new.open /\ new.alive
      <4>1. NoSession \in Session /\ NoSession.rows = <<>> /\ ~NoSession.open
        BY DEF Session, NoSession
      <4> QED BY <4>1 DEF Session
    <3> HIDE DEF new
    <3>4. SqlTypeOK' /\ OnlyEngine(e)
      BY <1>t, <3>1, <3>2, <3>3 DEF SqlTypeOK, OnlyEngine
    <3>5. sql'[e] = Connected(sql[e]) /\ pc'[e] = "queue" /\ session'[e] = new
      BY <1>t, <3>1 DEF SqlTypeOK
    <3>6. /\ sql'[e].commitNumberOfMsg = 0 /\ sql'[e].dbIsConnected
          /\ sql'[e].commitEnabled = sql[e].commitEnabled
      BY <1>t, <3>5 DEF Connected, SqlTypeOK, SqlState
    <3> QED BY <3>1, <3>3, <3>4, <3>5, <3>6 DEF SessionFollowed
  <2>2. CASE Loop(e) \/ Empty(e)
    <3>1. /\ pc' \in {[pc EXCEPT ![e] = "queue"], [pc EXCEPT ![e] = "loop"]}
          /\ UNCHANGED <<main, arrived, queue, sql, session, stored>>
      BY <2>2 DEF Loop, Empty, mainVars, dbVars
    <3> QED BY <1>t, <3>1 DEF SqlTypeOK, OnlyEngine, EngineInv, SessionFollowed
  <2>3. CASE BeginFails(e)
    <3>1. /\ sql' = [sql EXCEPT ![e].commitEnabled = FALSE]
          /\ pc' = [pc EXCEPT ![e] = "loop"]
          /\ UNCHANGED <<main, arrived, queue, session, stored>>
      BY <2>3 DEF BeginFails, mainVars, dbVars
    <3>2. sql' \in [Engine -> SqlState]
      <4>1. ASSUME NEW s \in SqlState, NEW b \in BOOLEAN
            PROVE  [s EXCEPT !.commitEnabled = b] \in SqlState
        BY DEF SqlState
      <4>2. sql[e] \in SqlState /\ FALSE \in BOOLEAN
        BY <1>t DEF SqlTypeOK
      <4>3. [sql[e] EXCEPT !.commitEnabled = FALSE] \in SqlState
        BY <4>1, <4>2
      <4> QED BY <1>t, <3>1, <4>3 DEF SqlTypeOK
    <3>3. SqlTypeOK' /\ OnlyEngine(e)
      BY <1>t, <3>1, <3>2 DEF SqlTypeOK, OnlyEngine
    <3>4. /\ sql'[e].dbIsConnected = sql[e].dbIsConnected /\ ~sql'[e].commitEnabled
          /\ pc'[e] = "loop"
      BY <1>t, <3>1 DEF SqlTypeOK, SqlState
    <3> QED BY <1>t, <3>1, <3>3, <3>4 DEF EngineInv, SessionFollowed
  <2> QED BY <2>1, <2>2, <2>3
<1>2. Seen' = Seen /\ SameIds(queue[e], queue'[e])
  BY <1>1 DEF Seen, SameIds
<1>3. QueueInOrder(e)' /\ RowsBehind(e)' /\ RowsOnce(e)'
  BY <1>t, <1>1, <1>2, RowsKept
<1> QED BY <1>1, <1>3, EngineFrame DEF EngineInv

(* COMMIT: done, failed, or done without an answer.                        *)
LEMMA CommitKeepsInv ==
  ASSUME SqlInv, NEW e \in Engine, Commit(e)
  PROVE  SqlInv'
<1>t. SqlTypeOK /\ EngineInv(e)
  BY DEF SqlInv
<1>0. /\ pc[e] = "loop" /\ pc' = [pc EXCEPT ![e] = "queue"]
      /\ UNCHANGED <<main, arrived, queue>>
  BY DEF Commit, MayCommit, mainVars
<1>r. session[e].rows \in Seq(DbRow) /\ stored[e] \in Seq(DbRow)
      /\ stored[e] \o session[e].rows \in Seq(DbRow)
  BY <1>t, EngineTypes, ConcatProperties
<1>2. Seen' = Seen /\ SameIds(queue[e], queue'[e])
  BY <1>0 DEF Seen, SameIds
<1>3. CASE /\ session[e].alive
           /\ stored' = [stored EXCEPT ![e] = @ \o session[e].rows]
           /\ session' = [session EXCEPT ![e].open = FALSE, ![e].rows = <<>>]
           /\ sql' = [sql EXCEPT ![e].commitNumberOfMsg = 0]
  <2>1. sql' \in [Engine -> SqlState] /\ session' \in [Engine -> Session]
    <3>1. sql' \in [Engine -> SqlState]
      BY <1>t, <1>3 DEF SqlTypeOK, SqlState
    <3>2. /\ session[e] \in Session
          /\ session' = [session EXCEPT ![e] = [session[e] EXCEPT !.open = FALSE, !.rows = <<>>]]
      BY <1>t, <1>3 DEF SqlTypeOK
    <3>3. [session[e] EXCEPT !.open = FALSE, !.rows = <<>>] \in Session
      <4>1. ASSUME NEW s \in Session, NEW r \in Seq(DbRow)
            PROVE  [s EXCEPT !.open = FALSE, !.rows = r] \in Session
        BY DEF Session
      <4>2. <<>> \in Seq(DbRow)
        OBVIOUS
      <4> QED BY <3>2, <4>1, <4>2
    <3> QED BY <1>t, <3>1, <3>2, <3>3 DEF SqlTypeOK
  <2>2. stored' \in [Engine -> Seq(DbRow)]
    BY <1>t, <1>3, <1>r DEF SqlTypeOK
  <2>3. SqlTypeOK' /\ OnlyEngine(e)
    BY <1>t, <1>0, <1>3, <2>1, <2>2 DEF SqlTypeOK, OnlyEngine
  <2>4. /\ stored'[e] = stored[e] \o session[e].rows
        /\ session'[e].rows = <<>> /\ ~session'[e].open
        /\ session'[e].alive = session[e].alive
        /\ sql'[e].commitNumberOfMsg = 0 /\ pc'[e] = "queue"
        /\ sql'[e].dbIsConnected = sql[e].dbIsConnected
        /\ sql'[e].commitEnabled = sql[e].commitEnabled
    <3>1. /\ stored'[e] = stored[e] \o session[e].rows /\ pc'[e] = "queue"
      BY <1>t, <1>0, <1>3 DEF SqlTypeOK
    <3>2. /\ session'[e].rows = <<>> /\ ~session'[e].open
          /\ session'[e].alive = session[e].alive
      BY <1>t, <1>3 DEF SqlTypeOK, Session
    <3>3. /\ sql'[e].commitNumberOfMsg = 0
          /\ sql'[e].dbIsConnected = sql[e].dbIsConnected
          /\ sql'[e].commitEnabled = sql[e].commitEnabled
      BY <1>t, <1>3 DEF SqlTypeOK, SqlState
    <3> QED BY <3>1, <3>2, <3>3
  <2>5. SessionFollowed(e)'
    BY <1>t, <2>4 DEF EngineInv, SessionFollowed
  <2>6. QueueInOrder(e)' /\ RowsBehind(e)' /\ RowsOnce(e)'
    BY <1>t, <1>0, <1>2, <2>3, <2>4, RowsCommitted
  <2> QED BY <2>3, <2>5, <2>6, EngineFrame DEF EngineInv
<1>4. CASE /\ session[e].alive
           /\ stored' \in {stored, [stored EXCEPT ![e] = @ \o session[e].rows]}
           /\ session' = [session EXCEPT ![e] = NoSession]
           /\ sql' = [sql EXCEPT ![e].commitNumberOfMsg = 0,
                                 ![e].commitEnabled = FALSE]
  <2>1. sql' \in [Engine -> SqlState] /\ session' \in [Engine -> Session]
    <3>1. /\ sql[e] \in SqlState
          /\ sql' = [sql EXCEPT ![e] = [sql[e] EXCEPT !.commitNumberOfMsg = 0,
                                                     !.commitEnabled = FALSE]]
      BY <1>t, <1>4 DEF SqlTypeOK
    <3>2. [sql[e] EXCEPT !.commitNumberOfMsg = 0, !.commitEnabled = FALSE] \in SqlState
      BY <3>1 DEF SqlState
    <3>3. NoSession \in Session
      BY DEF NoSession, Session
    <3> QED BY <1>t, <1>4, <3>1, <3>2, <3>3 DEF SqlTypeOK
  <2>2. stored' \in [Engine -> Seq(DbRow)]
    BY <1>t, <1>4, <1>r DEF SqlTypeOK
  <2>3. SqlTypeOK' /\ OnlyEngine(e)
    BY <1>t, <1>0, <1>4, <2>1, <2>2 DEF SqlTypeOK, OnlyEngine
  <2>4. /\ stored'[e] = stored[e] \/ stored'[e] = stored[e] \o session[e].rows
        /\ session'[e].rows = <<>> /\ ~session'[e].open /\ ~session'[e].alive
        /\ pc'[e] = "queue" /\ ~sql'[e].commitEnabled
    BY <1>t, <1>0, <1>4 DEF SqlTypeOK, SqlState, Session, NoSession
  <2>5. SessionFollowed(e)'
    BY <2>4 DEF SessionFollowed
  <2>6. QueueInOrder(e)' /\ RowsBehind(e)' /\ RowsOnce(e)'
    <3>1. CASE stored'[e] = stored[e]
      BY <1>t, <1>0, <1>2, <2>3, <2>4, <3>1, RowsKept
    <3>2. CASE stored'[e] = stored[e] \o session[e].rows
      BY <1>t, <1>0, <1>2, <2>3, <2>4, <3>2, RowsCommitted
    <3> QED BY <2>4, <3>1, <3>2
  <2> QED BY <2>3, <2>5, <2>6, EngineFrame DEF EngineInv
<1>5. CASE /\ ~session[e].alive
           /\ sql' = [sql EXCEPT ![e].commitNumberOfMsg = 0,
                                 ![e].commitEnabled = FALSE]
           /\ UNCHANGED dbVars
  <2>1. sql' \in [Engine -> SqlState]
    <3>1. ASSUME NEW s \in SqlState, NEW n \in Nat, NEW b \in BOOLEAN
          PROVE  [s EXCEPT !.commitNumberOfMsg = n, !.commitEnabled = b] \in SqlState
      BY DEF SqlState
    <3>2. sql[e] \in SqlState /\ FALSE \in BOOLEAN /\ 0 \in Nat
      BY <1>t DEF SqlTypeOK
    <3>3. [sql[e] EXCEPT !.commitNumberOfMsg = 0, !.commitEnabled = FALSE] \in SqlState
      BY <3>1, <3>2
    <3>4. sql' = [sql EXCEPT ![e] = [sql[e] EXCEPT !.commitNumberOfMsg = 0,
                                                   !.commitEnabled = FALSE]]
      BY <1>t, <1>5 DEF SqlTypeOK
    <3> QED BY <1>t, <3>3, <3>4 DEF SqlTypeOK
  <2>2. SqlTypeOK' /\ OnlyEngine(e)
    BY <1>t, <1>0, <1>5, <2>1 DEF SqlTypeOK, OnlyEngine, dbVars
  <2>3. /\ stored'[e] = stored[e] /\ session'[e] = session[e]
        /\ pc'[e] = "queue" /\ ~sql'[e].commitEnabled
    BY <1>t, <1>0, <1>5 DEF SqlTypeOK, SqlState, dbVars
  <2>4. SessionFollowed(e)'
    BY <1>t, <1>5, <2>3 DEF EngineInv, SessionFollowed
  <2>5. QueueInOrder(e)' /\ RowsBehind(e)' /\ RowsOnce(e)'
    BY <1>t, <1>0, <1>2, <2>2, <2>3, RowsKept
  <2> QED BY <2>2, <2>4, <2>5, EngineFrame DEF EngineInv
<1> QED BY <1>3, <1>4, <1>5 DEF Commit

(* The message is taken: only the text of the head of the queue changes.   *)
LEMMA BeginKeepsInv ==
  ASSUME SqlInv, NEW e \in Engine, Begin(e)
  PROVE  SqlInv'
<1>t. SqlTypeOK /\ EngineInv(e) /\ pc[e] = "queue"
  BY DEF SqlInv, Begin
<1>0. /\ UNCHANGED <<main, arrived, stored>> /\ queue[e] # <<>>
      /\ pc' = [pc EXCEPT ![e] = "insert"]
  BY DEF Begin, mainVars
<1>e. /\ queue[e] \in Seq(DbMessage) /\ Len(queue[e]) \in Nat /\ 1 \in 1 .. Len(queue[e])
      /\ queue[e][1] \in DbMessage /\ Head(queue[e]) = queue[e][1]
      /\ sql[e] \in SqlState /\ session[e] \in Session
  <2>1. /\ queue[e] \in Seq(DbMessage) /\ Len(queue[e]) \in Nat
        /\ sql[e] \in SqlState /\ session[e] \in Session
    BY <1>t, EngineTypes
  <2>2. 1 \in 1 .. Len(queue[e]) /\ Head(queue[e]) = queue[e][1]
    BY <1>0, <2>1
  <2> QED BY <2>1, <2>2, <1>t, EngineTypes
<1> DEFINE head == [queue[e][1] EXCEPT !.text = 1]
           q    == [queue[e] EXCEPT ![1] = head]
           me   == [sql[e] EXCEPT !.line = 1, !.lines = queue[e][1].text]
<1>1. head \in DbMessage /\ head.id = queue[e][1].id
  <2>1. ASSUME NEW m \in DbMessage
        PROVE  [m EXCEPT !.text = 1] \in DbMessage /\ [m EXCEPT !.text = 1].id = m.id
    BY DEF DbMessage
  <2> QED BY <1>e, <2>1
<1> HIDE DEF head
<1>2. q \in Seq(DbMessage) /\ SameIds(queue[e], q) /\ q # <<>>
  <2>1. /\ q \in Seq(DbMessage) /\ Len(q) = Len(queue[e])
        /\ \A i \in 1 .. Len(q) : q[i] = IF i = 1 THEN head ELSE queue[e][i]
    BY <1>e, <1>1, ExceptSeq
  <2>2. SameIds(queue[e], q)
    BY <1>1, <2>1 DEF SameIds
  <2> QED BY <1>e, <2>1, <2>2
<1>3. /\ me \in SqlState /\ me.line = 1 /\ me.lines >= 1
      /\ me.dbIsConnected = sql[e].dbIsConnected
      /\ me.commitEnabled = sql[e].commitEnabled
      /\ me.commitNumberOfMsg = sql[e].commitNumberOfMsg
  <2>1. queue[e][1].text \in Nat \ {0}
    BY <1>e DEF DbMessage
  <2> DEFINE n == queue[e][1].text
             r == [sql[e] EXCEPT !.line = 1, !.lines = n]
  <2> HIDE DEF n
  <2>2. r \in SqlState /\ r.line = 1 /\ r.lines = n
    BY <1>e, <2>1 DEF SqlState, n
  <2>3. /\ r.dbIsConnected = sql[e].dbIsConnected
        /\ r.commitEnabled = sql[e].commitEnabled
        /\ r.commitNumberOfMsg = sql[e].commitNumberOfMsg
    BY <1>e DEF SqlState
  <2> QED BY <2>1, <2>2, <2>3 DEF n
<1>4. queue' = [queue EXCEPT ![e] = q] /\ sql' = [sql EXCEPT ![e] = me]
  BY <1>t, <1>e DEF Begin, head, SqlTypeOK
<1> HIDE DEF q, me
<1>5. /\ queue' \in [Engine -> Seq(DbMessage)] /\ sql' \in [Engine -> SqlState]
      /\ pc' \in [Engine -> {"loop", "queue", "insert"}]
      /\ queue'[e] = q /\ sql'[e] = me /\ pc'[e] = "insert"
  BY <1>t, <1>0, <1>2, <1>3, <1>4 DEF SqlTypeOK
<1>6. /\ session' \in [Engine -> Session]
      /\ \A f \in Engine \ {e} : session'[f] = session[f]
      /\ session'[e].alive = session[e].alive /\ session'[e].rows = session[e].rows
      /\ \/ Begins(sql[e]) /\ session[e].alive /\ session'[e].open
         \/ ~Begins(sql[e]) /\ session'[e].open = session[e].open
  <2>1. CASE /\ Begins(sql[e]) /\ session[e].alive
             /\ session' = [session EXCEPT ![e].open = TRUE]
    BY <1>t, <1>e, <2>1 DEF SqlTypeOK, Session
  <2>2. CASE ~Begins(sql[e]) /\ UNCHANGED session
    BY <1>t, <2>2 DEF SqlTypeOK
  <2> QED BY <2>1, <2>2 DEF Begin
<1>7. SqlTypeOK' /\ OnlyEngine(e)
  BY <1>t, <1>0, <1>4, <1>5, <1>6 DEF SqlTypeOK, OnlyEngine
<1>8. SessionFollowed(e)'
  <2>1. session[e].rows \in Seq(DbRow) /\ sql[e].commitNumberOfMsg \in Nat
    BY <1>e DEF Session, SqlState
  <2>2. ASSUME ~Begins(sql[e]), sql[e].commitEnabled, session[e].alive
        PROVE  session[e].open
    <3>1. sql[e].commitNumberOfMsg = Len(session[e].rows)
      BY <1>t, <2>2 DEF EngineInv, SessionFollowed
    <3>2. Len(session[e].rows) # 0
      BY <2>2, <3>1 DEF Begins
    <3> QED BY <1>t, <2>1, <3>2 DEF EngineInv, SessionFollowed
  <2> QED BY <1>t, <1>2, <1>3, <1>5, <1>6, <2>2 DEF EngineInv, SessionFollowed
<1>9. Seen' = Seen /\ SameIds(queue[e], queue'[e])
  BY <1>0, <1>2, <1>5 DEF Seen
<1>10. QueueInOrder(e)' /\ RowsBehind(e)' /\ RowsOnce(e)'
  BY <1>t, <1>0, <1>3, <1>5, <1>6, <1>7, <1>9, RowsKept
<1> QED BY <1>7, <1>8, <1>10, EngineFrame DEF EngineInv

(* The head of the queue is removed by one engine.                         *)
LEMMA PopTypes ==
  ASSUME SqlTypeOK, NEW e \in Engine, queue[e] # <<>>, Pop(e)
  PROVE  /\ queue' \in [Engine -> Seq(DbMessage)] /\ Popped(e) /\ pc'[e] = "queue"
         /\ pc' \in [Engine -> {"loop", "queue", "insert"}]
         /\ \A f \in Engine \ {e} : queue'[f] = queue[f] /\ pc'[f] = pc[f]
<1>1. queue[e] \in Seq(DbMessage)
  BY DEF SqlTypeOK
<1>2. Tail(queue[e]) \in Seq(DbMessage)
  BY <1>1, HeadTailProperties
<1> QED BY <1>2 DEF SqlTypeOK, Pop, Popped

(* The rows and the connection stay; the message is dropped.               *)
LEMMA RefusedKeepsInv ==
  ASSUME SqlInv, NEW e \in Engine, InsertRefused(e)
  PROVE  SqlInv'
<1>t. SqlTypeOK /\ EngineInv(e) /\ queue[e] # <<>>
  BY DEF SqlInv, InsertRefused, Drop, EngineInv, SessionFollowed
<1>0. /\ UNCHANGED <<main, arrived, stored, session, sql>> /\ Pop(e)
  BY DEF InsertRefused, Drop, mainVars, dbVars
<1>1. /\ queue' \in [Engine -> Seq(DbMessage)] /\ Popped(e) /\ pc'[e] = "queue"
      /\ pc' \in [Engine -> {"loop", "queue", "insert"}]
      /\ \A f \in Engine \ {e} : queue'[f] = queue[f] /\ pc'[f] = pc[f]
  BY <1>t, <1>0, PopTypes
<1>2. SqlTypeOK' /\ OnlyEngine(e) /\ Seen' = Seen
  BY <1>t, <1>0, <1>1 DEF SqlTypeOK, OnlyEngine, Seen
<1>3. SessionFollowed(e)'
  BY <1>t, <1>0, <1>1 DEF EngineInv, SessionFollowed
<1>4. QueueInOrder(e)' /\ RowsBehind(e)' /\ RowsOnce(e)'
  BY <1>t, <1>0, <1>1, <1>2, RowsKept
<1> QED BY <1>2, <1>3, <1>4, EngineFrame DEF EngineInv

(* The engine disconnects and the message waits; only the engine's record  *)
(* of its connection and the session, which is over, change.               *)
LEMMA DisconnectKeepsInv ==
  ASSUME SqlInv, NEW e \in Engine,
         UNCHANGED <<main, arrived, stored, queue>>,
         pc' = [pc EXCEPT ![e] = "loop"],
         NEW me \in SqlState, sql' = [sql EXCEPT ![e] = me],
         me.commitEnabled = sql[e].commitEnabled,
         \/ ~session[e].alive /\ UNCHANGED session
         \/ session' = [session EXCEPT ![e] = NoSession]
  PROVE  SqlInv'
<1>t. SqlTypeOK /\ EngineInv(e) /\ session[e] \in Session
  BY DEF SqlInv, SqlTypeOK
<1>1. /\ session' \in [Engine -> Session] /\ ~session'[e].alive /\ ~session'[e].open
      /\ session'[e].rows = <<>>
      /\ \A f \in Engine \ {e} : session'[f] = session[f]
  <2>1. CASE ~session[e].alive /\ UNCHANGED session
    BY <1>t, <2>1 DEF SqlTypeOK, EngineInv, SessionFollowed
  <2>2. CASE session' = [session EXCEPT ![e] = NoSession]
    <3>1. /\ NoSession \in Session /\ ~NoSession.alive /\ ~NoSession.open
          /\ NoSession.rows = <<>>
      BY DEF NoSession, Session
    <3> QED BY <1>t, <2>2, <3>1 DEF SqlTypeOK
  <2> QED BY <2>1, <2>2
<1>2. SqlTypeOK' /\ OnlyEngine(e) /\ Seen' = Seen /\ SameIds(queue[e], queue'[e])
  BY <1>t, <1>1 DEF SqlTypeOK, OnlyEngine, Seen, SameIds
<1>3. pc'[e] = "loop" /\ sql'[e] = me
  BY <1>t DEF SqlTypeOK
<1>4. SessionFollowed(e)'
  BY <1>1, <1>3 DEF SessionFollowed
<1>5. QueueInOrder(e)' /\ RowsBehind(e)' /\ RowsOnce(e)'
  BY <1>t, <1>1, <1>2, <1>3, RowsKept
<1> QED BY <1>2, <1>4, <1>5, EngineFrame DEF EngineInv

(* The message stays at the head of the queue, to be tried again.          *)
LEMMA RetryKeepsInv ==
  ASSUME SqlInv, NEW e \in Engine, InsertDisconnected(e) \/ Retry(e)
  PROVE  SqlInv'
<1>1. sql[e] \in SqlState
  BY DEF SqlInv, SqlTypeOK
<1>2. CASE InsertDisconnected(e)
  <2>1. Disconnected(sql[e]) \in SqlState
        /\ Disconnected(sql[e]).commitEnabled = sql[e].commitEnabled
    BY <1>1 DEF SqlState, Disconnected
  <2>2. /\ sql' = [sql EXCEPT ![e] = Disconnected(sql[e])] /\ Delay(e)
        /\ UNCHANGED <<main, arrived, stored, session>> /\ ~session[e].alive
    BY <1>2 DEF InsertDisconnected, mainVars, dbVars
  <2> QED BY <2>1, <2>2, DisconnectKeepsInv DEF Delay
<1>3. CASE Retry(e)
  <2> DEFINE me == [sql[e] EXCEPT !.dbIsConnected = FALSE,
                                  !.numberOfSuccessiveFailures = @ + 1]
  <2>1. me \in SqlState /\ me.commitEnabled = sql[e].commitEnabled
    <3>1. sql[e].numberOfSuccessiveFailures + 1 \in Nat
      BY <1>1 DEF SqlState
    <3>2. ASSUME NEW n \in Nat, NEW s \in SqlState
          PROVE  LET r == [s EXCEPT !.dbIsConnected = FALSE,
                                    !.numberOfSuccessiveFailures = n]
                 IN  r \in SqlState /\ r.commitEnabled = s.commitEnabled
      BY DEF SqlState
    <3> QED BY <1>1, <3>1, <3>2
  <2>2. sql' = [sql EXCEPT ![e] = me]
    BY <1>3 DEF Retry, SqlInv, SqlTypeOK
  <2> HIDE DEF me
  <2>3. /\ Delay(e) /\ UNCHANGED <<main, arrived, stored>>
        /\ session' = [session EXCEPT ![e] = NoSession]
    BY <1>3 DEF Retry, mainVars
  <2> QED BY <2>1, <2>2, <2>3, DisconnectKeepsInv DEF Delay
<1> QED BY <1>2, <1>3

(* The message is dropped; the connection stays.                           *)
LEMMA NoRetryKeepsInv ==
  ASSUME SqlInv, NEW e \in Engine, NoRetry(e)
  PROVE  SqlInv'
<1>t. SqlTypeOK /\ EngineInv(e) /\ queue[e] # <<>> /\ sql[e] \in SqlState
  BY DEF SqlInv, SqlTypeOK, NoRetry, Drop, OtherError, EngineInv, SessionFollowed
<1> DEFINE me == [sql[e] EXCEPT !.numberOfSuccessiveFailures = 0]
<1>0. /\ UNCHANGED <<main, arrived, stored, session>> /\ Pop(e)
      /\ sql' = [sql EXCEPT ![e] = me]
  BY DEF NoRetry, Drop, mainVars, dbVars
<1>1. /\ me \in SqlState /\ me.commitEnabled = sql[e].commitEnabled
      /\ me.dbIsConnected = sql[e].dbIsConnected
      /\ me.commitNumberOfMsg = sql[e].commitNumberOfMsg
  BY <1>t DEF SqlState
<1> HIDE DEF me
<1>2. /\ queue' \in [Engine -> Seq(DbMessage)] /\ Popped(e) /\ pc'[e] = "queue"
      /\ pc' \in [Engine -> {"loop", "queue", "insert"}]
      /\ \A f \in Engine \ {e} : queue'[f] = queue[f] /\ pc'[f] = pc[f]
  BY <1>t, <1>0, PopTypes
<1>3. SqlTypeOK' /\ OnlyEngine(e) /\ Seen' = Seen /\ sql'[e] = me
  BY <1>t, <1>0, <1>1, <1>2 DEF SqlTypeOK, OnlyEngine, Seen
<1>4. SessionFollowed(e)'
  BY <1>t, <1>0, <1>1, <1>2, <1>3 DEF EngineInv, SessionFollowed
<1>5. QueueInOrder(e)' /\ RowsBehind(e)' /\ RowsOnce(e)'
  BY <1>t, <1>0, <1>1, <1>2, <1>3, RowsKept
<1> QED BY <1>3, <1>4, <1>5, EngineFrame DEF EngineInv

(* A line is inserted, in the transaction or for good.                     *)
LEMMA InsertKeepsInv ==
  ASSUME SqlInv, NEW e \in Engine, Insert(e)
  PROVE  SqlInv'
<1>t. /\ SqlTypeOK /\ EngineInv(e) /\ pc[e] = "insert" /\ queue[e] # <<>>
      /\ session[e].alive /\ sql[e].dbIsConnected
      /\ sql[e] \in SqlState /\ session[e] \in Session
  BY DEF SqlInv, SqlTypeOK, Insert, EngineInv, SessionFollowed
<1>e. /\ queue[e] \in Seq(DbMessage) /\ Len(queue[e]) \in Nat \ {0}
      /\ Head(queue[e]) = queue[e][1] /\ queue[e][1] \in DbMessage
      /\ session[e].rows \in Seq(DbRow) /\ stored[e] \in Seq(DbRow)
      /\ sql[e].line \in Nat /\ sql[e].commitNumberOfMsg \in Nat
  <2>1. /\ queue[e] \in Seq(DbMessage)
        /\ session[e].rows \in Seq(DbRow) /\ stored[e] \in Seq(DbRow)
    BY <1>t, EngineTypes
  <2>2. sql[e].line \in Nat /\ sql[e].commitNumberOfMsg \in Nat
    BY <1>t DEF SqlState
  <2> QED BY <1>t, <2>1, <2>2
<1> DEFINE row == [msg |-> Head(queue[e]).id, line |-> sql[e].line]
<1>r. row \in DbRow /\ row.msg = queue[e][1].id /\ row.line = sql[e].line
  BY <1>e DEF DbRow, DbMessage
<1>0. UNCHANGED <<main, arrived>> /\ Seen' = Seen
  BY DEF Insert, mainVars, Seen
<1>1. \/ /\ session[e].open /\ UNCHANGED stored
         /\ session' = [session EXCEPT ![e].rows = Append(@, row)]
      \/ /\ ~session[e].open /\ UNCHANGED session
         /\ stored' = [stored EXCEPT ![e] = Append(@, row)]
  BY DEF Insert
<1>2. \/ /\ Pop(e) /\ sql' = [sql EXCEPT ![e].commitNumberOfMsg = @ + 1]
      \/ /\ sql[e].line < sql[e].lines /\ UNCHANGED <<queue, pc>>
         /\ sql' = [sql EXCEPT ![e].commitNumberOfMsg = @ + 1, ![e].line = @ + 1]
  BY DEF Insert
<1> HIDE DEF row
<1>3. /\ session' \in [Engine -> Session] /\ stored' \in [Engine -> Seq(DbRow)]
      /\ \A f \in Engine \ {e} : session'[f] = session[f] /\ stored'[f] = stored[f]
      /\ session'[e].alive /\ session'[e].open = session[e].open
      /\ \/ /\ session[e].open /\ session'[e].rows = Append(session[e].rows, row)
            /\ stored'[e] = stored[e]
         \/ /\ ~session[e].open /\ session'[e].rows = session[e].rows
            /\ stored'[e] = Append(stored[e], row)
  <2>1. CASE /\ session[e].open /\ UNCHANGED stored
             /\ session' = [session EXCEPT ![e].rows = Append(@, row)]
    <3> DEFINE rows == Append(session[e].rows, row)
               new  == [session[e] EXCEPT !.rows = rows]
    <3>1. rows \in Seq(DbRow)
      BY <1>e, <1>r, AppendProperties
    <3>2. session' = [session EXCEPT ![e] = new]
      BY <1>t, <2>1 DEF SqlTypeOK
    <3> HIDE DEF rows
    <3>3. /\ new \in Session /\ new.rows = rows
          /\ new.alive = session[e].alive /\ new.open = session[e].open
      BY <1>t, <3>1 DEF Session
    <3> HIDE DEF new
    <3>4. /\ session' \in [Engine -> Session] /\ session'[e] = new
          /\ \A f \in Engine \ {e} : session'[f] = session[f]
      BY <1>t, <3>2, <3>3 DEF SqlTypeOK
    <3> QED BY <1>t, <2>1, <3>3, <3>4 DEF rows, SqlTypeOK
  <2>2. CASE /\ ~session[e].open /\ UNCHANGED session
             /\ stored' = [stored EXCEPT ![e] = Append(@, row)]
    <3>1. Append(stored[e], row) \in Seq(DbRow)
      BY <1>e, <1>r, AppendProperties
    <3> QED BY <1>t, <2>2, <3>1 DEF SqlTypeOK
  <2> QED BY <1>1, <2>1, <2>2
<1>4. Rows(e)' = Append(Rows(e), row)
  <2>1. CASE /\ session'[e].rows = Append(session[e].rows, row)
             /\ stored'[e] = stored[e]
    <3> DEFINE s == stored[e]
               t == session[e].rows
    <3>1. s \in Seq(DbRow) /\ t \in Seq(DbRow) /\ Rows(e) = s \o t
      BY <1>e DEF Rows
    <3>2. Rows(e)' = s \o Append(t, row)
      BY <2>1 DEF Rows
    <3> HIDE DEF s, t
    <3>3. s \o Append(t, row) = Append(s \o t, row)
      BY <1>r, <3>1, AppendLast
    <3> QED BY <3>1, <3>2, <3>3
  <2>2. CASE /\ ~session[e].open /\ session'[e].rows = session[e].rows
             /\ stored'[e] = Append(stored[e], row)
    <3>1. session[e].rows = <<>>
      BY <1>t, <2>2 DEF EngineInv, SessionFollowed
    <3>2. Append(stored[e], row) \in Seq(DbRow)
      BY <1>e, <1>r, AppendProperties
    <3> QED BY <1>e, <2>2, <3>1, <3>2, ConcatEmptySeq DEF Rows
  <2> QED BY <1>3, <2>1, <2>2
<1>5. /\ sql' \in [Engine -> SqlState]
      /\ \A f \in Engine \ {e} : sql'[f] = sql[f]
      /\ sql'[e].dbIsConnected = sql[e].dbIsConnected
      /\ sql'[e].commitEnabled = sql[e].commitEnabled
      /\ sql'[e].commitNumberOfMsg = sql[e].commitNumberOfMsg + 1
      /\ sql'[e].lines = sql[e].lines
      /\ Pop(e) \/ sql'[e].line = sql[e].line + 1
  <2> DEFINE count == sql[e].commitNumberOfMsg + 1
             line  == sql[e].line + 1
  <2>0. count \in Nat /\ line \in Nat
    BY <1>e
  <2>1. CASE Pop(e) /\ sql' = [sql EXCEPT ![e].commitNumberOfMsg = @ + 1]
    <3> DEFINE me == [sql[e] EXCEPT !.commitNumberOfMsg = count]
    <3>1. sql' = [sql EXCEPT ![e] = me]
      BY <1>t, <2>1 DEF SqlTypeOK
    <3> HIDE DEF count
    <3>2. /\ me \in SqlState /\ me.commitNumberOfMsg = count
          /\ me.dbIsConnected = sql[e].dbIsConnected
          /\ me.commitEnabled = sql[e].commitEnabled /\ me.lines = sql[e].lines
      BY <1>t, <2>0 DEF SqlState
    <3> HIDE DEF me
    <3>3. /\ sql' \in [Engine -> SqlState] /\ sql'[e] = me
          /\ \A f \in Engine \ {e} : sql'[f] = sql[f]
      BY <1>t, <3>1, <3>2 DEF SqlTypeOK
    <3> QED BY <2>1, <3>2, <3>3 DEF count
  <2>2. CASE sql' = [sql EXCEPT ![e].commitNumberOfMsg = @ + 1, ![e].line = @ + 1]
    <3> DEFINE me == [sql[e] EXCEPT !.commitNumberOfMsg = count, !.line = line]
    <3>1. sql' = [sql EXCEPT ![e] = me]
      BY <1>t, <2>2 DEF SqlTypeOK
    <3> HIDE DEF count, line
    <3>2. /\ me \in SqlState /\ me.commitNumberOfMsg = count /\ me.line = line
      BY <1>t, <2>0 DEF SqlState
    <3>3. /\ me.dbIsConnected = sql[e].dbIsConnected
          /\ me.commitEnabled = sql[e].commitEnabled /\ me.lines = sql[e].lines
      BY <1>t, <2>0 DEF SqlState
    <3> HIDE DEF me
    <3>4. /\ sql' \in [Engine -> SqlState] /\ sql'[e] = me
          /\ \A f \in Engine \ {e} : sql'[f] = sql[f]
      BY <1>t, <3>1, <3>2 DEF SqlTypeOK
    <3> QED BY <3>2, <3>3, <3>4 DEF count, line
  <2> QED BY <1>2, <2>1, <2>2
<1>6. /\ queue' \in [Engine -> Seq(DbMessage)]
      /\ pc' \in [Engine -> {"loop", "queue", "insert"}]
      /\ \A f \in Engine \ {e} : queue'[f] = queue[f] /\ pc'[f] = pc[f]
      /\ \/ Popped(e) /\ pc'[e] = "queue"
         \/ /\ queue'[e] = queue[e] /\ pc'[e] = "insert"
            /\ sql'[e].line = sql[e].line + 1 /\ sql[e].line < sql[e].lines
  <2>1. CASE Pop(e)
    BY <1>t, <2>1, PopTypes
  <2>2. CASE ~Pop(e)
    BY <1>t, <1>2, <1>5, <2>2 DEF SqlTypeOK
  <2> QED BY <2>1, <2>2
<1>7. SqlTypeOK' /\ OnlyEngine(e)
  BY <1>t, <1>0, <1>3, <1>5, <1>6 DEF SqlTypeOK, OnlyEngine
<1>8. SessionFollowed(e)'
  <2>1. pc'[e] = "insert" =>
          /\ queue'[e] # <<>> /\ sql'[e].line >= 1 /\ sql'[e].line <= sql'[e].lines
    <3>1. sql[e].lines \in Nat /\ sql[e].line >= 1
      BY <1>t DEF SqlState, EngineInv, SessionFollowed
    <3> QED BY <1>t, <1>e, <1>5, <1>6, <3>1
  <2>2. sql'[e].commitEnabled =>
          /\ session'[e].open
          /\ sql'[e].commitNumberOfMsg = Len(session'[e].rows)
    <3> SUFFICES ASSUME sql'[e].commitEnabled
                 PROVE  /\ session'[e].open
                        /\ sql'[e].commitNumberOfMsg = Len(session'[e].rows)
      OBVIOUS
    <3>1. session[e].open /\ sql[e].commitNumberOfMsg = Len(session[e].rows)
      BY <1>t, <1>5 DEF EngineInv, SessionFollowed
    <3>2. Len(Append(session[e].rows, row)) = Len(session[e].rows) + 1
      BY <1>e, <1>r, AppendProperties
    <3> QED BY <1>3, <1>5, <3>1, <3>2
  <2>3. ~session'[e].open => session'[e].rows = <<>>
    BY <1>t, <1>3 DEF EngineInv, SessionFollowed
  <2> QED BY <1>t, <1>3, <1>5, <2>1, <2>2, <2>3 DEF SessionFollowed
<1>9. QueueInOrder(e)' /\ RowsBehind(e)' /\ RowsOnce(e)'
  <2>1. SameIds(queue[e], queue'[e]) \/ Popped(e)
    BY <1>6 DEF SameIds
  <2>2. sql'[e].commitEnabled =>
          /\ sql[e].commitEnabled
          /\ stored'[e] = stored[e]
          /\ session'[e].rows = Append(session[e].rows, row)
          /\ \/ Popped(e)
             \/ /\ SameIds(queue[e], queue'[e])
                /\ pc'[e] = "insert" /\ sql'[e].line = sql[e].line + 1
    <3>1. sql[e].commitEnabled => session[e].open
      BY <1>t DEF EngineInv, SessionFollowed
    <3> QED BY <1>3, <1>5, <1>6, <2>1, <3>1
  <2> QED BY <1>t, <1>r, <1>0, <1>4, <1>7, <2>1, <2>2, RowAdded
<1> QED BY <1>7, <1>8, <1>9, EngineFrame DEF EngineInv

(* The transaction is rolled back; the line under way was inserted, if at  *)
(* all, without one.                                                       *)
LEMMA SessionEndsKeepsInv ==
  ASSUME SqlInv, NEW e \in Engine, SessionEnds(e)
  PROVE  SqlInv'
<1>t. /\ SqlTypeOK /\ EngineInv(e) /\ session[e].alive /\ sql[e] \in SqlState
  BY DEF SqlInv, SqlTypeOK, SessionEnds
<1>0. /\ UNCHANGED <<main, arrived, queue, pc, sql>> /\ Seen' = Seen
      /\ session' = [session EXCEPT ![e] = NoSession]
  BY DEF SessionEnds, mainVars, Seen
<1>1. /\ session' \in [Engine -> Session] /\ ~session'[e].alive /\ ~session'[e].open
      /\ session'[e].rows = <<>>
      /\ \A f \in Engine \ {e} : session'[f] = session[f]
  <2>1. /\ NoSession \in Session /\ ~NoSession.alive /\ ~NoSession.open
        /\ NoSession.rows = <<>>
    BY DEF NoSession, Session
  <2> QED BY <1>t, <1>0, <2>1 DEF SqlTypeOK
<1>2. SessionFollowed(e)'
  BY <1>t, <1>0, <1>1 DEF EngineInv, SessionFollowed
<1>3. SameIds(queue[e], queue'[e])
  BY <1>0 DEF SameIds
<1>4. CASE UNCHANGED stored
  <2>1. SqlTypeOK' /\ OnlyEngine(e)
    BY <1>t, <1>0, <1>1, <1>4 DEF SqlTypeOK, OnlyEngine
  <2>2. QueueInOrder(e)' /\ RowsBehind(e)' /\ RowsOnce(e)'
    BY <1>t, <1>0, <1>1, <1>3, <1>4, <2>1, RowsKept
  <2> QED BY <1>2, <2>1, <2>2, EngineFrame DEF EngineInv
<1> DEFINE row == [msg |-> Head(queue[e]).id, line |-> sql[e].line]
<1>5. CASE /\ pc[e] = "insert" /\ ~session[e].open
           /\ stored' = [stored EXCEPT ![e] = Append(@, row)]
  <2>1. /\ queue[e] # <<>> /\ session[e].rows = <<>> /\ ~sql[e].commitEnabled
    BY <1>t, <1>5 DEF EngineInv, SessionFollowed
  <2>2. queue[e] \in Seq(DbMessage) /\ stored[e] \in Seq(DbRow)
    BY <1>t DEF SqlTypeOK
  <2>3. Head(queue[e]) = queue[e][1] /\ queue[e][1] \in DbMessage
    BY <2>1, <2>2
  <2>4. row \in DbRow /\ row.msg = queue[e][1].id /\ row.line = sql[e].line
    BY <1>t, <2>3 DEF DbRow, DbMessage, SqlState
  <2> HIDE DEF row
  <2>5. Append(stored[e], row) \in Seq(DbRow)
    BY <2>2, <2>4, AppendProperties
  <2>6. /\ stored' \in [Engine -> Seq(DbRow)] /\ stored'[e] = Append(stored[e], row)
        /\ \A f \in Engine \ {e} : stored'[f] = stored[f]
    BY <1>t, <1>5, <2>5 DEF SqlTypeOK
  <2>7. SqlTypeOK' /\ OnlyEngine(e)
    BY <1>t, <1>0, <1>1, <2>6 DEF SqlTypeOK, OnlyEngine
  <2>8. Rows(e)' = Append(Rows(e), row)
    <3>1. Rows(e) = stored[e] /\ Rows(e)' = stored'[e]
      BY <1>1, <2>1, <2>2, <2>5, <2>6, ConcatEmptySeq DEF Rows
    <3> QED BY <2>6, <3>1
  <2>9. QueueInOrder(e)' /\ RowsBehind(e)' /\ RowsOnce(e)'
    BY <1>t, <1>0, <1>3, <1>5, <2>1, <2>4, <2>7, <2>8, RowAdded
  <2> QED BY <1>2, <2>7, <2>9, EngineFrame DEF EngineInv
<1> QED BY <1>4, <1>5 DEF SessionEnds

-----------------------------------------------------------------------------
(* Every step keeps the invariant.                                         *)
LEMMA SqlInvNext == SqlInv /\ [Next]_vars => SqlInv'
<1> SUFFICES ASSUME SqlInv, [Next]_vars PROVE SqlInv'
  OBVIOUS
<1>1. ASSUME NEW e \in Engine, EngineStep(e) PROVE SqlInv'
  <2>1. CASE Connect(e) \/ Loop(e) \/ Empty(e) \/ BeginFails(e)
    BY <2>1, LoopKeepsInv
  <2>2. CASE Begin(e)
    BY <2>2, BeginKeepsInv
  <2>3. CASE Insert(e)
    BY <2>3, InsertKeepsInv
  <2>4. CASE InsertRefused(e)
    BY <2>4, RefusedKeepsInv
  <2>5. CASE InsertDisconnected(e) \/ Retry(e)
    BY <2>5, RetryKeepsInv
  <2>6. CASE NoRetry(e)
    BY <2>6, NoRetryKeepsInv
  <2> QED BY <1>1, <2>1, <2>2, <2>3, <2>4, <2>5, <2>6 DEF EngineStep
<1>2. CASE UNCHANGED vars
  <2>1. UNCHANGED <<main, arrived, queue, pc, sql, session, stored>>
    BY <1>2 DEF vars, mainVars, dbVars
  <2>2. ASSUME NEW e \in Engine PROVE EngineInv(e)'
    <3>1. EngineInv(e) /\ Seen' = Seen /\ Rows(e)' = Rows(e)
      BY <2>1 DEF SqlInv, Seen, Rows
    <3>2. QueueInOrder(e)' /\ SessionFollowed(e)' /\ RowsBehind(e)'
      BY <2>1, <3>1 DEF EngineInv, QueueInOrder, SessionFollowed, RowsBehind
    <3>3. RowsOnce(e)'
      BY <2>1, <3>1 DEF EngineInv, RowsOnce
    <3> QED BY <3>2, <3>3 DEF EngineInv
  <2> QED BY <2>1, <2>2 DEF SqlInv, SqlTypeOK, MainInOrder
<1> QED BY <1>1, <1>2, ReceiveKeepsInv, PushKeepsInv, GiveUpKeepsInv, CommitKeepsInv,
           SessionEndsKeepsInv DEF Next

(* What the queues, the engines and the database hold together, at every   *)
(* step of doLoop, threadCallback, customLoop, customMessageProcess and of *)
(* the database.                                                           *)
THEOREM DispatchInvariant == Spec => []SqlInv
BY SqlInvInit, SqlInvNext, PTL DEF Spec

(* commitNumberOfMsg is the number of rows in the open transaction, and    *)
(* no line is inserted outside one as long as commitEnabled holds          *)
(* (connectDB, customLoop, customMessageProcess).                          *)
THEOREM CountIsRight == Spec => []TransactionCounted
<1>1. SqlInv => TransactionCounted
  BY DEF SqlInv, EngineInv, SessionFollowed, TransactionCounted
<1> QED BY <1>1, DispatchInvariant, PTL

(* The rows of an engine follow the order in which pushMessage queued the  *)
(* messages, whatever customMessageProcess delays or tries again.          *)
THEOREM StoresInOrder == Spec => []RowsInOrder
<1>1. SqlInv => RowsInOrder
  BY DEF SqlInv, EngineInv, RowsBehind, Sorted, RowsInOrder
<1> QED BY <1>1, DispatchInvariant, PTL

(* As long as no COMMIT or START TRANSACTION has failed, which ends        *)
(* commitEnabled, customMessageProcess stores no line twice when it tries  *)
(* a message again.                                                        *)
THEOREM StoresOnce == Spec => []StoredOnce
<1>1. SqlInv => StoredOnce
  BY DEF SqlInv, EngineInv, RowsOnce, Once, StoredOnce
<1> QED BY <1>1, DispatchInvariant, PTL

=============================================================================
