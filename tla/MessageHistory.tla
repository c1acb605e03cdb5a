--------------------------- MODULE MessageHistory ---------------------------
(***************************************************************************)
(* The history of a logging process: the summaries of its last, or first,  *)
(* messages, kept for a later report (historyReset, historyGetSummary, and *)
(* the end of pushMessage).  A message stands for its summary.             *)
(***************************************************************************)
EXTENDS Integers, Sequences

Lists == INSTANCE SequencesExt

CONSTANTS
  KeepChoice,     \* bound: the values given to historyReset for the
  RotateChoice,   \*        number of messages to keep, for rotate, and for
  FilterChoice    \*        the kinds of messages that pass the filters

VARIABLES
  historyMessagesToKeep, historyRotate, historyFilter,
  historyMessages

historySettings == <<historyMessagesToKeep, historyRotate, historyFilter>>
summaryVars == <<historySettings, historyMessages>>

(* As after a first call to historyReset.                                  *)
HistoryInit ==
  /\ historyMessagesToKeep \in KeepChoice /\ historyRotate \in RotateChoice
  /\ historyFilter \in FilterChoice
  /\ historyMessages = <<>>

historyReset ==
  /\ historyMessagesToKeep' \in KeepChoice /\ historyRotate' \in RotateChoice
  /\ historyFilter' \in FilterChoice
  /\ historyMessages' = <<>>

historyGetSummary ==
  historyMessages' = <<>> /\ UNCHANGED historySettings

(* With rotate a message is added in any case, and then the oldest is      *)
(* dropped as long as the history is not full (InfoLogger.hxx:407 says of  *)
(* rotate that "newer messages overwrite stored messages").                *)
Added(h, m) ==
  IF historyRotate
  THEN LET pushed == Append(h, m) IN
       IF historyMessagesToKeep > Len(pushed) THEN Tail(pushed) ELSE pushed
  ELSE IF historyMessagesToKeep > Len(h) THEN Append(h, m) ELSE h

(* The end of pushMessage, for the messages that go out, in order.         *)
Keep(ms) ==
  LET passing == SelectSeq(ms, LAMBDA m : m.kind \in historyFilter) IN
  /\ IF historyMessagesToKeep = 0 THEN UNCHANGED historyMessages
     ELSE historyMessages' = Lists!FoldLeft(Added, historyMessages, passing)
  /\ UNCHANGED historySettings

=============================================================================
