--------------------------- MODULE DispatchStats ---------------------------
(***************************************************************************)
(* The engine that counts the messages by the values of their fields       *)
(* (InfoLoggerDispatchStats) and publishes the counts: time is cut into    *)
(* windows, of which the last one is counted in and the old ones are       *)
(* forgotten.  customLoop serves the connections, publishes when it is     *)
(* time to, and starts a window when it is time to; then                   *)
(* customMessageProcess counts what is in the queue.                       *)
(*                                                                         *)
(* The input queue is that of DispatchBrowser and is left out: a round     *)
(* finds some messages in it.  A combination of fields is counted under    *)
(* the tuple of its values (joined by "-" in the code: the values of this  *)
(* model have none).  A report is reduced to the number of messages that   *)
(* the windows count.  The clock does not step back.                       *)
(***************************************************************************)
EXTENDS OnlineClients, Integers, SequencesExt, Erasing

CONSTANTS
  publishInterval, resetInterval, maxHistory,
  Undefined,
  StatsMessage,  \* messages, as functions from their fields to values
  MaxTime,       \* bound: seconds
  MaxCounted     \* bound: messages

ASSUME StatsAssumption ==
  /\ publishInterval \in Nat /\ resetInterval \in Nat \ {0} /\ maxHistory \in Nat
  /\ \A m \in StatsMessage : DOMAIN m = {"run", "hostname"}
  /\ MaxTime \in Nat /\ MaxCounted \in Nat

VARIABLES
  clock,
  now,                 \* the time read by customLoop
  lastTimePublished, lastTimeReset,
  windows,             \* by time of begin; the last one is currentWindow
  at,                  \* where the thread is: "loop" (at first), "publish", "window",
                       \*   or "queue"
  counted              \* the messages counted and when, in order

timeVars  == <<now, lastTimePublished, lastTimeReset>>
statsVars == <<onlineVars, clock, timeVars, windows, at, counted>>

(* Three of the sixteen combinations of fields.                            *)
ilgFieldsToIndex == <<<<"hostname">>, <<"run">>, <<"run", "hostname">>>>
Index == 1 .. Len(ilgFieldsToIndex)

(* The clock starts far from 0, where the two times start.                 *)
Epoch == publishInterval + resetInterval + maxHistory + 1

StatsInit ==
  /\ OnlineInit
  /\ clock = Epoch /\ now = 0 /\ lastTimePublished = 0 /\ lastTimeReset = 0
  /\ windows = <<>> /\ at = "loop" /\ counted = <<>>

Tick ==
  /\ clock < Epoch + MaxTime /\ clock' = clock + 1
  /\ UNCHANGED <<onlineVars, timeVars, windows, at, counted>>

-----------------------------------------------------------------------------
(* customLoop, from the start or when there is no message in the queue.    *)
StatsLoop ==
  /\ at \in {"loop", "queue"}
  /\ Serve
  /\ now' = clock
  /\ \/ /\ clock - lastTimePublished > publishInterval
        /\ lastTimePublished' = clock /\ at' = "publish"
     \/ /\ clock - lastTimePublished <= publishInterval
        /\ at' = "window" /\ UNCHANGED lastTimePublished
  /\ UNCHANGED <<clock, lastTimeReset, windows, counted>>

Total == FoldLeft(LAMBDA n, w : n + w.totalMessages, 0, windows)

StatsPublish ==
  /\ at = "publish"
  /\ \/ Offer(Total) /\ UNCHANGED at
     \/ SendNext /\ at' = IF next' = 0 THEN "window" ELSE at
  /\ UNCHANGED <<clock, timeVars, windows, counted>>

(* The windows that ended too long ago are erased.  Mutant: those that     *)
(* began too long ago.                                                     *)
ForgotBegun(ws) == Erased(ws, {i \in DOMAIN ws : ws[i].timeBegin < now - maxHistory})
Forgot(ws) == Erased(ws, {i \in DOMAIN ws : ws[i].timeEnd < now - maxHistory})

NewWindow ==
  [timeBegin |-> now, timeEnd |-> now + resetInterval, totalMessages |-> 0,
   fieldCounts |-> [i \in Index |-> <<>>]]

(* The current window is closed and another one begins.  Mutant: it keeps  *)
(* the end that was planned for it.                                        *)
ResetPlanned ==
  /\ lastTimeReset' = now
  /\ windows' = Forgot(Append(windows, NewWindow))
Reset ==
  /\ lastTimeReset' = now
  /\ LET closed == IF windows = <<>> THEN <<>>
                   ELSE [windows EXCEPT ![Len(windows)].timeEnd = now]
     IN  windows' = Forgot(Append(closed, NewWindow))

StatsWindow ==
  /\ at = "window" /\ at' = "queue"
  /\ IF now - lastTimeReset >= resetInterval \/ windows = <<>>
     THEN Reset
     ELSE UNCHANGED <<lastTimeReset, windows>>
  /\ UNCHANGED <<onlineVars, clock, now, lastTimePublished, counted>>

-----------------------------------------------------------------------------
(* customMessageProcess: a combination with an undefined field is not      *)
(* counted.  fieldCounts[i] is the multiset of what was counted, as a      *)
(* sequence.                                                               *)
Key(m, i) == [k \in 1 .. Len(ilgFieldsToIndex[i]) |-> m[ilgFieldsToIndex[i][k]]]
Complete(m, i) == \A k \in 1 .. Len(Key(m, i)) : Key(m, i)[k] # Undefined

Counted(w, m) ==
  [w EXCEPT
     !.totalMessages = @ + 1,
     !.fieldCounts = [i \in Index |->
        IF Complete(m, i) THEN Append(@[i], Key(m, i)) ELSE @[i]]]

StatsCount ==
  /\ at = "queue" /\ Len(counted) < MaxCounted
  /\ \E m \in StatsMessage :
       /\ windows' = [windows EXCEPT ![Len(windows)] = Counted(@, m)]
       /\ counted' = Append(counted, [fields |-> m, time |-> clock])
  /\ UNCHANGED <<onlineVars, clock, timeVars, at>>

StatsNext ==
  \/ Tick \/ StatsLoop \/ StatsPublish \/ StatsWindow \/ StatsCount
  \/ Peers /\ UNCHANGED <<clock, timeVars, windows, at, counted>>

StatsSpec == StatsInit /\ [][StatsNext]_statsVars

-----------------------------------------------------------------------------
(* The windows leave no gap and do not overlap, however late the thread    *)
(* comes to close one, and whatever was forgotten: every second of the     *)
(* history belongs to one of them.                                         *)
WindowsTile ==
  \A i \in 1 .. Len(windows) :
    /\ windows[i].timeBegin < windows[i].timeEnd
    /\ i < Len(windows) => windows[i].timeEnd = windows[i + 1].timeBegin

(* The values counted for combination i when those are the messages.       *)
Keys(messages, i) ==
  LET complete == Erased(messages, {k \in DOMAIN messages : ~Complete(messages[k].fields, i)})
  IN  [k \in 1 .. Len(complete) |-> Key(complete[k].fields, i)]

(* What is counted in the windows are the last messages, each of them in   *)
(* one window, that of its time, and there once under each of its complete *)
(* combinations; and all those of the last maxHistory seconds are among    *)
(* them.                                                                   *)
HistoryKept ==
  LET from[j \in 1 .. Len(windows) + 1] ==   \* the first message of window j
        IF j > Len(windows) THEN Len(counted) + 1
        ELSE from[j + 1] - windows[j].totalMessages
  IN
  /\ from[1] >= 1
  /\ \A k \in 1 .. from[1] - 1 : counted[k].time < clock - maxHistory
  /\ \A j \in 1 .. Len(windows) :
       /\ \A k \in from[j] .. from[j + 1] - 1 :
            /\ windows[j].timeBegin <= counted[k].time
            /\ j < Len(windows) => counted[k].time <= windows[j].timeEnd
       /\ \A i \in Index :
            windows[j].fieldCounts[i] = Keys(SubSeq(counted, from[j], from[j + 1] - 1), i)
=============================================================================
