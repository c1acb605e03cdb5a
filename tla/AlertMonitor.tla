---------------------------- MODULE AlertMonitor ----------------------------
(***************************************************************************)
(* o2-infologger-alert: a program that receives the online messages,       *)
(* compares each with its rules, and tells Telegraf which alarms are       *)
(* active.  Its one thread runs the handler of the socket, the timer of    *)
(* the reconnection, and a loop every loopTimeout that sends the metrics.  *)
(* Times are ages, in a unit of the instance: what matters is which of     *)
(* them have run out.  The rules themselves are left out: a message        *)
(* matches any set of them.  A round of the loop can be late, since        *)
(* `socket`, which waits for the server, and the writes to Telegraf are    *)
(* calls of the same thread.                                               *)
(***************************************************************************)
EXTENDS Naturals

CONSTANTS
  Alarm,
  loopTimeout,       \* time between two rounds of the loop
  offT,              \* time after which an alarm with no new message is cleared
  retry, maxRetry,   \* onlineserver(retry) and onlineserver(max)
  MaxDelay,          \* bound: how late a round can be
  MaxMatching,       \* bound: messages that match a rule
  MaxAlertBreaks     \* bound: closed and refused connections

VARIABLES
  alState, alSent,   \* the alarm is active; its metric was sent
  age,               \* time since alTlast, the last message that matched
  metric,            \* what Telegraf has last received
  sinceRound,        \* time since the last round
  alertFd,           \* the connection: "open", "hup", or "waiting" for retryIn
  retryIn, retryTimeout,  \* the timer of the reconnection, and its next delay
  matching, alertBreaks

alarmVars == <<alState, alSent, age, metric>>
alertFdVars == <<alertFd, retryIn, retryTimeout>>
alertVars == <<alarmVars, sinceRound, alertFdVars, matching, alertBreaks>>

AlertInit ==
  /\ alState = [a \in Alarm |-> FALSE] /\ alSent = [a \in Alarm |-> FALSE]
  /\ age = [a \in Alarm |-> 0] /\ metric = [a \in Alarm |-> 0]
  /\ sinceRound = 0
  /\ alertFd = "waiting" /\ retryIn = 0 /\ retryTimeout = retry
  /\ matching = 0 /\ alertBreaks = 0

-----------------------------------------------------------------------------
(* server_event                                                            *)

(* A message comes that matches the rules of some alarms.                  *)
Fire(alarms) ==
  /\ alertFd = "open"
  /\ matching < MaxMatching /\ matching' = matching + 1
  /\ alState' = [a \in Alarm |-> alState[a] \/ a \in alarms]
  /\ age' = [a \in Alarm |-> IF a \in alarms THEN 0 ELSE age[a]]
  /\ UNCHANGED <<alSent, metric, sinceRound, alertFdVars, alertBreaks>>

(* Mutant: the alarms are forgotten with the stream they came from.        *)
EndOfStreamForgets ==
  /\ alertFd = "hup"
  /\ alertFd' = "waiting" /\ retryIn' = retryTimeout
  /\ alState' = [a \in Alarm |-> FALSE] /\ alSent' = [a \in Alarm |-> FALSE]
  /\ UNCHANGED <<age, metric, sinceRound, retryTimeout, matching, alertBreaks>>
EndOfStream ==
  /\ alertFd = "hup"
  /\ alertFd' = "waiting" /\ retryIn' = retryTimeout
  /\ UNCHANGED <<alarmVars, sinceRound, retryTimeout, matching, alertBreaks>>

(* infoLoggerServer closes the connection.                                 *)
StreamCloses ==
  /\ alertFd = "open" /\ alertFd' = "hup"
  /\ alertBreaks < MaxAlertBreaks /\ alertBreaks' = alertBreaks + 1
  /\ UNCHANGED <<alarmVars, sinceRound, retryIn, retryTimeout, matching>>

-----------------------------------------------------------------------------
(* server_connect                                                          *)

Connects ==
  /\ alertFd = "waiting" /\ retryIn = 0
  /\ alertFd' = "open" /\ retryTimeout' = retry
  /\ UNCHANGED <<alarmVars, sinceRound, retryIn, matching, alertBreaks>>

(* The delay doubles as long as it is below the maximum, which the last    *)
(* doubling may pass.                                                      *)
ConnectFails ==
  /\ alertFd = "waiting" /\ retryIn = 0
  /\ alertBreaks < MaxAlertBreaks /\ alertBreaks' = alertBreaks + 1
  /\ retryIn' = retryTimeout
  /\ retryTimeout' = IF retryTimeout < maxRetry THEN 2 * retryTimeout ELSE retryTimeout
  /\ UNCHANGED <<alarmVars, sinceRound, alertFd, matching>>

-----------------------------------------------------------------------------
(* The loop                                                                *)

Expired == {a \in Alarm : alState[a] /\ age[a] >= offT}
ToSend == {a \in Alarm : alState[a] /\ age[a] < offT /\ ~alSent[a]}

ClearAlarm(alarms) ==
  /\ alState' = [a \in Alarm |-> alState[a] /\ a \notin alarms]
  /\ age' = [a \in Alarm |-> IF a \in alarms THEN 0 ELSE age[a]]
  /\ alSent' = [a \in Alarm |-> a \notin alarms /\ (alSent[a] \/ a \in ToSend)]

Round ==
  /\ sinceRound >= loopTimeout /\ sinceRound' = 0
  /\ metric' = [a \in Alarm |-> IF a \in Expired THEN 0
                                ELSE IF a \in ToSend THEN 1 ELSE metric[a]]
  /\ ClearAlarm(Expired)
  /\ UNCHANGED <<alertFdVars, matching, alertBreaks>>

(* Time passes, until the round is as late as it can be.                   *)
TimePasses ==
  /\ sinceRound < loopTimeout + MaxDelay /\ sinceRound' = sinceRound + 1
  /\ age' = [a \in Alarm |-> IF alState[a] /\ age[a] < offT THEN age[a] + 1 ELSE age[a]]
  /\ retryIn' = IF retryIn > 0 THEN retryIn - 1 ELSE 0
  /\ UNCHANGED <<alState, alSent, metric, alertFd, retryTimeout, matching, alertBreaks>>

AlertNext ==
  \/ \E alarms \in SUBSET Alarm : Fire(alarms)
  \/ EndOfStream \/ StreamCloses \/ Connects \/ ConnectFails
  \/ Round \/ TimePasses

AlertSpec ==
  /\ AlertInit /\ [][AlertNext]_alertVars
  /\ WF_alertVars(Round) /\ WF_alertVars(TimePasses)
  /\ WF_alertVars(EndOfStream) /\ WF_alertVars(Connects)

-----------------------------------------------------------------------------
(* What Telegraf was told is taken back: an alarm that it has as active is *)
(* over for it as well once no message matches any more, however late the  *)
(* rounds are and whether or not the stream breaks in between.             *)
AlertsEnd == \A a \in Alarm : metric[a] = 1 ~> metric[a] = 0

(* "generating alerts (themselves log message + telegraf metric) based on  *)
(* the definition of some logic rules" (doc/README.md): Telegraf is told   *)
(* of each alarm that fires.                                               *)
AlertsReported == \A a \in Alarm : alState[a] ~> metric[a] = 1
=============================================================================
