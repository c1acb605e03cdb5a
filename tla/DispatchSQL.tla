---------------------------- MODULE DispatchSQL ----------------------------
(***************************************************************************)
(* From the main thread of infoLoggerServer to the database: doLoop picks  *)
(* a database engine and puts the message in its queue; each engine        *)
(* (InfoLoggerDispatch::threadCallback with InfoLoggerDispatchSQL) takes   *)
(* the message at the head, inserts its lines one by one in a transaction, *)
(* and removes it when it is done, or leaves it there to be tried again.   *)
(* The transaction is committed by customLoop, between two rounds.         *)
(*                                                                         *)
(* The other side of an engine's connection is external: a session that    *)
(* may end at any time, its open transaction, and the rows stored for      *)
(* good.  A query on a session that has ended fails.                       *)
(*                                                                         *)
(* A message stands for the list decoded from one file of the transport,   *)
(* which in practice has one element; its text is never empty.             *)
(* The engines for browsers and statistics, which get the message before   *)
(* by a call that neither waits nor fails, are left out.                   *)
(***************************************************************************)
EXTENDS Integers, Sequences, FiniteSets

CONSTANTS
  nThreads,   \* number of engines
  QueueSize,  \* dbDispatchQueueSize
  MaxLines,   \* bound: lines of a message
  Errors,     \* errors that a line may cause, in {"data", "other"}
  MaxMsg,     \* bound: messages received
  MaxFaults   \* bound: sessions that end, errors that a retry does not meet

ASSUME DispatchAssumption ==
  /\ nThreads \in Nat \ {0} /\ QueueSize \in Nat \ {0} /\ MaxLines \in Nat \ {0}
  /\ Errors \subseteq {"data", "other"}
  /\ MaxMsg \in Nat /\ MaxFaults \in Nat

VARIABLES
  main,      \* the message that doLoop distributes, if any
  arrived,   \* number of messages received
  lost,      \* messages for which doLoop found no room
  queue,     \* per engine: input
  pc,        \* per engine: "loop" (customLoop), "queue" or "insert"
  sql,       \* per engine: the state of InfoLoggerDispatchSQLImpl
  dropped,   \* messages dropped by an engine
  session,   \* per engine: the database's side of the connection
  stored,    \* per engine: rows stored for good, in order
  faults

mainVars == <<main, arrived, lost>>
dbVars   == <<session, stored>>
vars == <<mainVars, queue, pc, sql, dropped, dbVars, faults>>

Engine == 1 .. nThreads
maxNumberOfRetries == 1

(* text: how many lines can still be told apart in it.  bad: the line that *)
(* the database refuses, with that error, or 0.                            *)
Message == {m \in [id : 1 .. MaxMsg, text : 1 .. MaxLines, bad : 0 .. MaxLines,
                   error : Errors \union {"none"}] :
              m.bad = 0 <=> m.error = "none"}
Row == [msg : 1 .. MaxMsg, line : 1 .. MaxLines]

Idle == [nTry |-> 0]
Disconnected(me) == [me EXCEPT !.dbIsConnected = FALSE]
NoSession == [alive |-> FALSE, open |-> FALSE, rows |-> <<>>]

(* An engine just created, not connected yet.                              *)
NewEngine ==
  [dbIsConnected |-> FALSE, commitEnabled |-> TRUE, commitNumberOfMsg |-> 0,
   numberOfSuccessiveFailures |-> 0, line |-> 0, lines |-> 0]

Init ==
  /\ main = Idle /\ arrived = 0 /\ lost = {}
  /\ queue = [e \in Engine |-> <<>>]
  /\ pc = [e \in Engine |-> "loop"]
  /\ sql = [e \in Engine |-> NewEngine]
  /\ dropped = {}
  /\ session = [e \in Engine |-> NoSession]
  /\ stored = [e \in Engine |-> <<>>]
  /\ faults = 0

Fault == faults < MaxFaults /\ faults' = faults + 1

-----------------------------------------------------------------------------
(* doLoop.  The first engine tried depends on the time in the message.     *)
EngineUnchanged == UNCHANGED <<pc, sql, dropped, dbVars, faults>>

Receive ==
  /\ main = Idle
  /\ arrived < MaxMsg
  /\ arrived' = arrived + 1
  /\ \E m \in Message, e \in Engine :
       /\ m.id = arrived' /\ m.bad <= m.text
       /\ main' = [msg |-> m, ix |-> e, nTry |-> 1]
  /\ UNCHANGED <<lost, queue>> /\ EngineUnchanged

(* pushMessage of one engine; at most three rounds.                        *)
Push ==
  LET e == main.ix IN
  /\ main # Idle /\ main.nTry <= nThreads * 3
  /\ \/ /\ Len(queue[e]) < QueueSize
        /\ queue' = [queue EXCEPT ![e] = Append(@, main.msg)]
        /\ main' = Idle
     \/ /\ Len(queue[e]) = QueueSize
        /\ main' = [main EXCEPT !.ix = IF e = nThreads THEN 1 ELSE e + 1,
                                !.nTry = @ + 1]
        /\ UNCHANGED queue
  /\ UNCHANGED <<arrived, lost>> /\ EngineUnchanged

GiveUp ==
  /\ main # Idle /\ main.nTry > nThreads * 3
  /\ lost' = lost \union {main.msg.id}
  /\ main' = Idle
  /\ UNCHANGED <<arrived, queue>> /\ EngineUnchanged

-----------------------------------------------------------------------------
(* customLoop.                                                             *)

(* Mutant: connectDB does not reset the count of the transaction.          *)
ConnectedKeepsCount(me) == [me EXCEPT !.dbIsConnected = TRUE]
Connected(me) == [me EXCEPT !.dbIsConnected = TRUE, !.commitNumberOfMsg = 0]

Connect(e) ==
  /\ pc[e] = "loop" /\ ~sql[e].dbIsConnected
  /\ sql' = [sql EXCEPT ![e] = Connected(@)]
  /\ session' = [session EXCEPT ![e] = [NoSession EXCEPT !.alive = TRUE]]
  /\ pc' = [pc EXCEPT ![e] = "queue"]
  /\ UNCHANGED <<mainVars, queue, dropped, stored, faults>>

(* Nothing to commit, or not yet.                                          *)
Loop(e) ==
  /\ pc[e] = "loop" /\ sql[e].dbIsConnected
  /\ pc' = [pc EXCEPT ![e] = "queue"]
  /\ UNCHANGED <<mainVars, queue, sql, dropped, dbVars, faults>>

(* COMMIT: done, or failed (and then possibly done without an answer).     *)
(* Mutant: the count starts again, but no COMMIT is sent.                  *)
MayCommit(e) ==
  /\ pc[e] = "loop" /\ sql[e].dbIsConnected /\ sql[e].commitEnabled
  /\ sql[e].commitNumberOfMsg # 0
CommitFull(e) ==
  /\ MayCommit(e)
  /\ pc' = [pc EXCEPT ![e] = "queue"]
  /\ sql' = [sql EXCEPT ![e].commitNumberOfMsg = 0]
  /\ UNCHANGED <<mainVars, queue, dropped, dbVars, faults>>
Commit(e) ==
  /\ MayCommit(e)
  /\ pc' = [pc EXCEPT ![e] = "queue"]
  /\ \/ /\ session[e].alive
        /\ stored' = [stored EXCEPT ![e] = @ \o session[e].rows]
        /\ session' = [session EXCEPT ![e].open = FALSE, ![e].rows = <<>>]
        /\ sql' = [sql EXCEPT ![e].commitNumberOfMsg = 0]
        /\ UNCHANGED faults
     \/ /\ session[e].alive
        /\ Fault
        /\ stored' \in {stored, [stored EXCEPT ![e] = @ \o session[e].rows]}
        /\ session' = [session EXCEPT ![e] = NoSession]
        /\ sql' = [sql EXCEPT ![e].commitNumberOfMsg = 0,
                              ![e].commitEnabled = FALSE]
     \/ /\ ~session[e].alive
        /\ sql' = [sql EXCEPT ![e].commitNumberOfMsg = 0,
                              ![e].commitEnabled = FALSE]
        /\ UNCHANGED <<dbVars, faults>>
  /\ UNCHANGED <<mainVars, queue, dropped>>

-----------------------------------------------------------------------------
(* threadCallback: the head of the queue is given to customMessageProcess. *)
(* (It finds the database connected: customLoop has just returned 0.)      *)
Empty(e) ==
  /\ pc[e] = "queue" /\ queue[e] = <<>>
  /\ pc' = [pc EXCEPT ![e] = "loop"]
  /\ UNCHANGED <<mainVars, queue, sql, dropped, dbVars, faults>>

(* START TRANSACTION, when none is open.                                   *)
Begins(me) == me.commitEnabled /\ me.commitNumberOfMsg = 0

BeginFails(e) ==
  /\ pc[e] = "queue" /\ queue[e] # <<>>
  /\ Begins(sql[e]) /\ ~session[e].alive
  /\ sql' = [sql EXCEPT ![e].commitEnabled = FALSE]
  /\ pc' = [pc EXCEPT ![e] = "loop"]
  /\ UNCHANGED <<mainVars, queue, dropped, dbVars, faults>>

(* The first separator of the text is overwritten as soon as its first     *)
(* line is looked at: should the message be tried again, one line is left. *)
Begin(e) ==
  LET m == Head(queue[e]) IN
  /\ pc[e] = "queue" /\ queue[e] # <<>>
  /\ \/ /\ Begins(sql[e]) /\ session[e].alive
        /\ session' = [session EXCEPT ![e].open = TRUE]
     \/ ~Begins(sql[e]) /\ UNCHANGED session
  /\ sql' = [sql EXCEPT ![e].line = 1, ![e].lines = m.text]
  /\ queue' = [queue EXCEPT ![e][1].text = 1]
  /\ pc' = [pc EXCEPT ![e] = "insert"]
  /\ UNCHANGED <<mainVars, dropped, stored, faults>>

(* The message leaves the queue, or stays there.                           *)
Pop(e) ==
  /\ queue' = [queue EXCEPT ![e] = Tail(@)]
  /\ pc' = [pc EXCEPT ![e] = "queue"]
Drop(e) ==
  /\ dropped' = dropped \union {Head(queue[e]).id}
  /\ Pop(e)
DelayLast(e) ==
  /\ queue' = [queue EXCEPT ![e] = Append(Tail(@), Head(@))]
  /\ pc' = [pc EXCEPT ![e] = "loop"]
Delay(e) ==
  /\ pc' = [pc EXCEPT ![e] = "loop"]
  /\ UNCHANGED queue

(* A line is inserted: in the transaction, or for good when there is none. *)
Insert(e) ==
  LET me  == sql[e]
      m   == Head(queue[e])
      row == [msg |-> m.id, line |-> me.line]
  IN
  /\ pc[e] = "insert"
  /\ session[e].alive /\ m.bad # me.line
  /\ IF session[e].open
     THEN /\ session' = [session EXCEPT ![e].rows = Append(@, row)]
          /\ UNCHANGED stored
     ELSE /\ stored' = [stored EXCEPT ![e] = Append(@, row)]
          /\ UNCHANGED session
  /\ \/ /\ me.line = me.lines
        /\ Pop(e)
        /\ sql' = [sql EXCEPT ![e].commitNumberOfMsg = @ + 1]
     \/ /\ me.line < me.lines
        /\ sql' = [sql EXCEPT ![e].commitNumberOfMsg = @ + 1, ![e].line = @ + 1]
        /\ UNCHANGED <<queue, pc>>
  /\ UNCHANGED <<mainVars, dropped, faults>>

(* The database refuses the line for what it contains.                     *)
InsertRefused(e) ==
  LET m == Head(queue[e]) IN
  /\ pc[e] = "insert" /\ session[e].alive
  /\ m.bad = sql[e].line /\ m.error = "data"
  /\ Drop(e)
  /\ UNCHANGED <<mainVars, sql, dbVars, faults>>

(* The connection is lost: disconnectDB, and the message is delayed.       *)
InsertDisconnected(e) ==
  /\ pc[e] = "insert" /\ ~session[e].alive
  /\ sql' = [sql EXCEPT ![e] = Disconnected(@)]
  /\ Delay(e)
  /\ UNCHANGED <<mainVars, dropped, dbVars, faults>>

(* Any other error, of that line or passing: disconnect and try again, up  *)
(* to a number of times, then drop.  Mutants: the count of failures starts *)
(* again at each connection; the connection is kept.                       *)
OtherError(e) ==
  /\ pc[e] = "insert" /\ session[e].alive
  /\ LET m == Head(queue[e])
         refused == m.bad = sql[e].line /\ m.error = "other"
     IN  IF refused THEN UNCHANGED faults ELSE m.bad # sql[e].line /\ Fault
RetryForEver(e) ==
  /\ OtherError(e)
  /\ sql' = [sql EXCEPT ![e] = Disconnected(@)]
  /\ session' = [session EXCEPT ![e] = NoSession]
  /\ Delay(e)
  /\ UNCHANGED <<mainVars, dropped, stored>>
RetryConnected(e) ==
  /\ OtherError(e)
  /\ sql[e].numberOfSuccessiveFailures < maxNumberOfRetries
  /\ sql' = [sql EXCEPT ![e].numberOfSuccessiveFailures = @ + 1]
  /\ Delay(e)
  /\ UNCHANGED <<mainVars, dropped, stored, session>>
Retry(e) ==
  /\ OtherError(e)
  /\ sql[e].numberOfSuccessiveFailures < maxNumberOfRetries
  /\ sql' = [sql EXCEPT ![e].dbIsConnected = FALSE,
                        ![e].numberOfSuccessiveFailures = @ + 1]
  /\ session' = [session EXCEPT ![e] = NoSession]
  /\ Delay(e)
  /\ UNCHANGED <<mainVars, dropped, stored>>
NoRetry(e) ==
  /\ OtherError(e)
  /\ sql[e].numberOfSuccessiveFailures >= maxNumberOfRetries
  /\ sql' = [sql EXCEPT ![e].numberOfSuccessiveFailures = 0]
  /\ Drop(e)
  /\ UNCHANGED <<mainVars, dbVars>>

-----------------------------------------------------------------------------
(* The session ends, and its transaction is rolled back; an insertion      *)
(* under way without a transaction may have been done.                     *)
SessionEnds(e) ==
  LET row == [msg |-> Head(queue[e]).id, line |-> sql[e].line] IN
  /\ session[e].alive
  /\ Fault
  /\ session' = [session EXCEPT ![e] = NoSession]
  /\ \/ UNCHANGED stored
     \/ /\ pc[e] = "insert" /\ ~session[e].open /\ Head(queue[e]).bad # sql[e].line
        /\ stored' = [stored EXCEPT ![e] = Append(@, row)]
  /\ UNCHANGED <<mainVars, queue, pc, sql, dropped>>

EngineStep(e) ==
  \/ Connect(e) \/ Loop(e) \/ Empty(e)
  \/ BeginFails(e) \/ Begin(e) \/ Insert(e) \/ InsertRefused(e)
  \/ InsertDisconnected(e) \/ Retry(e) \/ NoRetry(e)

Next ==
  \/ Receive \/ Push \/ GiveUp
  \/ \E e \in Engine : EngineStep(e) \/ Commit(e) \/ SessionEnds(e)

Spec == Init /\ [][Next]_vars

(* The main thread and the engines run their loops; the database is there  *)
(* when an engine connects; the timer of a transaction expires, in some    *)
(* round of the engine's loop.                                             *)
FairSpec ==
  /\ Spec
  /\ WF_vars(Push) /\ WF_vars(GiveUp)
  /\ \A e \in Engine : WF_vars(EngineStep(e)) /\ SF_vars(Commit(e))

-----------------------------------------------------------------------------
(* While transactions are on, commitNumberOfMsg is the number of rows in   *)
(* the open transaction: none is left without a COMMIT to come, and none   *)
(* is inserted outside a transaction.                                      *)
TransactionCounted ==
  \A e \in Engine :
    /\ sql[e].commitEnabled /\ sql[e].dbIsConnected /\ session[e].alive =>
         /\ sql[e].commitNumberOfMsg = Len(session[e].rows)
         /\ pc[e] = "insert" => session[e].open
    /\ sql[e].dbIsConnected \/ ~session[e].alive

(* An engine's rows are in the order in which it got the messages, retries *)
(* and reconnections included.                                             *)
Rows(e) == stored[e] \o session[e].rows
RowsInOrder ==
  \A e \in Engine : \A i, j \in 1 .. Len(Rows(e)) :
    i < j => Rows(e)[i].msg <= Rows(e)[j].msg

(* As long as transactions are on, no line is stored twice, whatever was   *)
(* tried again.                                                            *)
StoredOnce ==
  \A e \in Engine : sql[e].commitEnabled =>
    \A i, j \in 1 .. Len(Rows(e)) : i # j => Rows(e)[i] # Rows(e)[j]

(* Messages leave the queue in the end, also those that the database never *)
(* accepts: once no more come, it empties.                                 *)
QueueDrains == \A e \in Engine : queue[e] # <<>> ~> queue[e] = <<>>

(* Rows do not stay for ever in an open transaction.                       *)
TransactionEnds ==
  \A e \in Engine : session[e].rows # <<>> ~> session[e].rows = <<>>

InQueue(e, m) == \E i \in 1 .. Len(queue[e]) : queue[e][i].id = m

(* "report message success": the lines of a message that has left the      *)
(* queue, and was not dropped, are stored or in the open transaction.      *)
SuccessIsKept ==
  \A e \in Engine : \A m \in 1 .. arrived :
    \/ main # Idle /\ main.msg.id = m
    \/ m \in lost \union dropped
    \/ \E f \in Engine : InQueue(f, m)
    \/ \E f \in Engine : \E i \in 1 .. Len(Rows(f)) : Rows(f)[i].msg = m

=============================================================================
