--------------------------- MODULE InfoLoggerAPI ---------------------------
(***************************************************************************)
(* The logging API (InfoLogger.cxx): pushMessage, which every way to log   *)
(* ends in, with its protection against floods of messages.  Too many      *)
(* messages in a second or a minute are stored in a local file, and        *)
(* dropped when it is full; this ends when the last full minute had few.   *)
(* The start and the end of a flood are told in messages of their own,     *)
(* pushed from within pushMessage.                                         *)
(*                                                                         *)
(* Time is in seconds.  Messages discarded by a filter return before all   *)
(* this and are left out.                                                  *)
(***************************************************************************)
EXTENDS MessageHistory, FiniteSets

CONSTANTS
  flood_maxmsg_sec, flood_maxmsg_min, flood_maxmsg_file, flood_maxmsg_reset,
  MinuteLength,   \* 60 in the code
  MaxPush,        \* bound: calls to pushMessage by the process
  MaxNow          \* bound: time

ASSUME FloodAssumption ==
  /\ flood_maxmsg_sec \in Nat /\ flood_maxmsg_min \in Nat
  /\ flood_maxmsg_file \in Nat \ {0} /\ flood_maxmsg_reset \in Nat
  /\ MinuteLength \in Nat /\ MaxPush \in Nat /\ MaxNow \in Nat

VARIABLES
  now,
  flood,    \* the counters floodStat_... and floodFile_..., and floodMode
  pushes,   \* number of calls so far
  log       \* what became of the messages, in order, with the notices

floodVars == <<now, flood, pushes, log>>
apiVars == <<floodVars, summaryVars>>

FloodReset(f) ==
  [f EXCEPT !.msgs_sec = 0, !.msgs_min = 0, !.msgs_lastmin = flood_maxmsg_reset,
            !.time_lastsec = now, !.time_lastmin = now,
            !.floodMode = 0, !.file_msg = 0, !.file_msg_drop = 0]

FloodInit ==
  /\ now = 0 /\ pushes = 0 /\ log = <<>>
  /\ flood = [messageCount |-> 0, msgs_sec |-> 0, msgs_min |-> 0,
              msgs_lastmin |-> flood_maxmsg_reset, time_lastsec |-> 0,
              time_lastmin |-> 0, floodMode |-> 0, file_msg |-> 0,
              file_msg_drop |-> 0]

APIInit == FloodInit /\ HistoryInit

Event(kind) == [kind |-> kind, time |-> now, stored |-> 0, dropped |-> 0]

-----------------------------------------------------------------------------
(* The statistics, updated by each message and each notice.                *)
(* Mutant: the message that begins a second is not counted in it.          *)
CountedFromZero(f) ==
  LET newSecond == now - f.time_lastsec > 1
      newMinute == now - f.time_lastmin > MinuteLength
  IN  [f EXCEPT
        !.messageCount = @ + 1,
        !.msgs_sec     = IF newSecond THEN 0 ELSE @ + 1,
        !.time_lastsec = IF newSecond THEN now ELSE @,
        !.msgs_min     = IF newMinute THEN 1 ELSE @ + 1,
        !.msgs_lastmin = IF newMinute THEN f.msgs_min ELSE @,
        !.time_lastmin = IF newMinute THEN now ELSE @]
Counted(f) ==
  LET newSecond == now - f.time_lastsec > 1
      newMinute == now - f.time_lastmin > MinuteLength
  IN  [f EXCEPT
        !.messageCount = @ + 1,
        !.msgs_sec     = IF newSecond THEN 1 ELSE @ + 1,
        !.time_lastsec = IF newSecond THEN now ELSE @,
        !.msgs_min     = IF newMinute THEN 1 ELSE @ + 1,
        !.msgs_lastmin = IF newMinute THEN f.msgs_min ELSE @,
        !.time_lastmin = IF newMinute THEN now ELSE @]

TooMany(f) ==
  f.msgs_sec > flood_maxmsg_sec \/ f.msgs_min > flood_maxmsg_min
Quiet(f) == f.msgs_lastmin < flood_maxmsg_reset

(* Messages and notices are logged in order; those that go out are also    *)
(* for the history.                                                        *)
GoesOut(e) == e.kind \notin {"stored", "dropped"}
Logs(es) ==
  LET ranked == [i \in 1 .. Len(es) |-> [kind |-> es[i].kind, rank |-> Len(log) + i]]
  IN  log' = log \o es /\ Keep(SelectSeq(ranked, GoesOut))

(* "Resuming normal operation", with the counts, and then the message.     *)
(* Mutant: the counts are those of after floodReset.                       *)
Resumed(f) == [Event("resumed") EXCEPT !.stored = f.file_msg,
                                       !.dropped = f.file_msg_drop]
ResumesAfterReset(f, es) ==
  /\ flood' = FloodReset(Counted(f))
  /\ Logs(es \o <<Resumed(FloodReset(f)), Event("sent")>>)
Resumes(f, es) ==
  /\ flood' = FloodReset(Counted(f))
  /\ Logs(es \o <<Resumed(f), Event("sent")>>)

(* Cases 1 and 2 of the switch on floodMode, after the notices es.         *)
InFlood(f, es) ==
  \/ Quiet(f) /\ Resumes(f, es)
  \/ /\ ~Quiet(f) /\ f.floodMode = 1 /\ f.file_msg < flood_maxmsg_file
     /\ flood' = [f EXCEPT !.file_msg = @ + 1]
     /\ Logs(es \o <<Event("stored")>>)
  \/ /\ ~Quiet(f) /\ f.floodMode = 1 /\ f.file_msg >= flood_maxmsg_file
     /\ flood' = [Counted(f) EXCEPT !.floodMode = 2, !.file_msg_drop = @ + 1]
     /\ Logs(es \o <<Event("overflow"), Event("dropped")>>)
  \/ /\ ~Quiet(f) /\ f.floodMode = 2
     /\ flood' = [f EXCEPT !.file_msg_drop = @ + 1]
     /\ Logs(es \o <<Event("dropped")>>)

(* Case 0: the file of the flood is created, or that fails.                *)
Detected(f, mode) == [Counted(f) EXCEPT !.floodMode = mode, !.file_msg = 0,
                                        !.file_msg_drop = 0]

PushMessage ==
  LET f == Counted(flood) IN
  /\ pushes < MaxPush /\ pushes' = pushes + 1
  /\ \/ f.floodMode = 0 /\ ~TooMany(f) /\ flood' = f /\ Logs(<<Event("sent")>>)
     \/ /\ f.floodMode = 0 /\ TooMany(f)
        /\ \E mode \in {1, 2} :
             InFlood(Detected(f, mode), <<Event("detected")>>)
     \/ f.floodMode # 0 /\ InFlood(f, <<>>)
  /\ UNCHANGED now

Tick == now < MaxNow /\ now' = now + 1
        /\ UNCHANGED <<flood, pushes, log, summaryVars>>

HistoryCall == (historyReset \/ historyGetSummary) /\ UNCHANGED floodVars

APINext == PushMessage \/ Tick \/ HistoryCall
APISpec == APIInit /\ [][APINext]_apiVars

-----------------------------------------------------------------------------
User == {"sent", "stored", "dropped"}
Number(kinds, i, j) == Cardinality({k \in i .. j : log[k].kind \in kinds})

(* The flood of which event i is part: its first event, or 0.              *)
FloodOf(i) ==
  LET starts == {k \in 1 .. i : log[k].kind = "detected"}
      first  == CHOOSE k \in starts : \A j \in starts : j <= k
  IN  IF starts = {} \/ Number({"resumed"}, first, i - 1) > 0 THEN 0 ELSE first

(* Every call sends, stores or drops its message and the counter counts it *)
(* once, whatever pushMessage does from within itself; messages are stored *)
(* and dropped between the notices of a flood, and sent outside; dropping  *)
(* from a full file is announced; and the numbers of the last notice are   *)
(* those of the messages stored and dropped.                               *)
FloodAccounts ==
  /\ Number(User, 1, Len(log)) = pushes
  /\ Len(log) = flood.messageCount
  /\ \A i \in 1 .. Len(log) :
       LET e == log[i]
           f == FloodOf(i)
       IN  /\ e.kind \in {"stored", "dropped", "overflow", "resumed"} => f # 0
           /\ e.kind = "sent" => f = 0
           /\ e.kind = "resumed" =>
                /\ e.stored = Number({"stored"}, f, i)
                /\ e.dropped = Number({"dropped"}, f, i)
                /\ e.stored > 0 /\ e.dropped > 0 =>
                     Number({"overflow"}, f, i) = 1

(* In a second in which no flood ends, not more messages go out than the   *)
(* protection allows: however the floods before began, and at whatever     *)
(* moment of a counted second, or minute, the next one begins.             *)
SentIn(t) == {i \in 1 .. Len(log) : log[i].kind = "sent" /\ log[i].time = t}
RateBounded ==
  \A t \in 0 .. MaxNow :
    Cardinality(SentIn(t)) > flood_maxmsg_sec =>
      \E i \in 1 .. Len(log) : log[i].kind = "resumed" /\ log[i].time = t

(* "If a client tries to send more than 500 messages in one second, [...]  *)
(* further messages are redirected to a local file [...]. Normal behavior  *)
(* resumes when the message rate is reduced" (doc/README.md)               *)
DocumentedRate ==
  \A t \in 0 .. MaxNow : Cardinality(SentIn(t)) <= flood_maxmsg_sec
=============================================================================
