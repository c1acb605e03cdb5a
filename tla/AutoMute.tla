------------------------------ MODULE AutoMute ------------------------------
(***************************************************************************)
(* Messages logged with an AutoMuteToken (InfoLogger::log with a token):   *)
(* after maxMsg of them those that follow are discarded, but for one per   *)
(* interval, with a report on how many were; and all are logged again      *)
(* after an interval in which none was discarded, or none came.            *)
(*                                                                         *)
(* Time is in seconds.  What is logged goes to pushMessage: here it is     *)
(* appended to a sequence.                                                 *)
(***************************************************************************)
EXTENDS Integers, Sequences, FiniteSets

CONSTANTS
  maxMsg, interval,    \* the token's parameters
  MaxMuteCalls,        \* bound: calls with the token
  MaxSteady            \* bound: time

ASSUME MuteAssumption ==
  maxMsg \in Nat \ {0} /\ interval \in Nat \ {0}
  /\ MaxMuteCalls \in Nat /\ MaxSteady \in Nat

Unset == -1    \* what a field holds that was never written

VARIABLES
  steady,   \* the steady clock
  token,    \* t0, t1: beginning of the interval, time of the last message
  muteLog   \* what was logged with the token, and what was discarded

muteVars == <<steady, token, muteLog>>

MuteInit ==
  /\ steady = 0 /\ muteLog = <<>>
  /\ token = [count |-> 0, t0 |-> Unset, t1 |-> Unset, ndiscarded |-> Unset,
              ndiscardedtotal |-> Unset]

Entry(kind) == [kind |-> kind, n |-> 0, total |-> 0]
Report(t) == [kind |-> "report", n |-> t.ndiscarded, total |-> t.ndiscardedtotal]

-----------------------------------------------------------------------------
IntervalStarted(t) == IF t.count = 1 THEN [t EXCEPT !.t0 = steady, !.ndiscarded = 0] ELSE t
EndOfInterval(t) == t.count > 1 /\ steady - t.t0 >= interval

(* The interval is over: the message is logged, with a report on those     *)
(* discarded.  Mutant: their number is not set back.                       *)
IsQuiet(t) == t.ndiscarded = 0 \/ steady - t.t1 >= interval
NewInterval(t) ==
  [t EXCEPT !.count = IF IsQuiet(t) THEN 1 ELSE @,
            !.ndiscardedtotal = IF IsQuiet(t) THEN 0 ELSE @,
            !.t0 = steady, !.t1 = steady]
EndsKeepsCount(t) ==
  /\ token' = [NewInterval(t) EXCEPT !.ndiscarded = IF IsQuiet(t) THEN 0 ELSE @]
  /\ muteLog' = muteLog \o <<Report(t)>>
       \o (IF IsQuiet(t) /\ t.ndiscarded # 0 THEN <<Entry("restored")>> ELSE <<>>)
       \o <<Entry("message")>>
Ends(t) ==
  /\ token' = [NewInterval(t) EXCEPT !.ndiscarded = 0]
  /\ muteLog' = muteLog \o <<Report(t)>>
       \o (IF IsQuiet(t) /\ t.ndiscarded # 0 THEN <<Entry("restored")>> ELSE <<>>)
       \o <<Entry("message")>>

(* The message is logged; the last one that will be is followed by the     *)
(* announcement that others are discarded.                                 *)
LogsMessage(t) ==
  IF t.count = maxMsg
  THEN /\ token' = [t EXCEPT !.t0 = steady, !.t1 = steady, !.ndiscarded = 0,
                             !.ndiscardedtotal = 0]
       /\ muteLog' = muteLog \o <<Entry("message"), Entry("exceeded")>>
  ELSE /\ token' = [t EXCEPT !.t1 = steady]
       /\ muteLog' = Append(muteLog, Entry("message"))

LogMuted ==
  LET t == IntervalStarted([token EXCEPT !.count = @ + 1])
  IN
  /\ Cardinality({i \in DOMAIN muteLog : muteLog[i].kind \in {"message", "discarded"}})
       < MaxMuteCalls
  /\ \/ EndOfInterval(t) /\ Ends(t)
     \/ ~EndOfInterval(t) /\ t.count <= maxMsg /\ LogsMessage(t)
     \/ /\ ~EndOfInterval(t) /\ t.count > maxMsg
        /\ token' = [t EXCEPT !.ndiscarded = @ + 1, !.ndiscardedtotal = @ + 1,
                              !.t1 = steady]
        /\ muteLog' = Append(muteLog, Entry("discarded"))
  /\ UNCHANGED steady

SteadyTick == steady < MaxSteady /\ steady' = steady + 1 /\ UNCHANGED <<token, muteLog>>

MuteNext == LogMuted \/ SteadyTick
MuteSpec == MuteInit /\ [][MuteNext]_muteVars

-----------------------------------------------------------------------------
Discarded(i, j) == Cardinality({k \in i .. j : muteLog[k].kind = "discarded"})
LastIn(at) == IF at = {} THEN 0 ELSE CHOOSE k \in at : \A j \in at : j <= k
LastReport(i) == LastIn({k \in 1 .. i : muteLog[k].kind = "report"})

(* The beginning of the verbose phase of entry i.                          *)
Phase(i) ==
  LastIn({k \in 1 .. i : \/ muteLog[k].kind \in {"exceeded", "restored"}
                        \/ (muteLog[k].kind = "report" /\ muteLog[k].n = 0)})

(* Each message discarded is in exactly one report, or in the number that  *)
(* the next one will give, and in the total of its verbose phase, which    *)
(* begins with its announcement or with full logging restored; between two *)
(* reports, and before the first, at most maxMsg messages are logged.      *)
MuteAccounts ==
  LET end == Len(muteLog) IN
  /\ \A i \in 1 .. end : muteLog[i].kind = "report" =>
       /\ muteLog[i].n = Discarded(LastReport(i - 1) + 1, i)
       /\ muteLog[i].n > 0 => Phase(i) > 0 /\ muteLog[i].total = Discarded(Phase(i), i)
  /\ token.ndiscarded > 0 => token.ndiscarded = Discarded(LastReport(end) + 1, end)
  /\ \A i \in 1 .. end :
       Cardinality({k \in LastReport(i) + 1 .. i : muteLog[k].kind = "message"}) <= maxMsg
=============================================================================
