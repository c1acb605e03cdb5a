-------------------------- MODULE DispatchBrowser --------------------------
(***************************************************************************)
(* The engine that sends each message to the connected infoBrowsers        *)
(* (InfoLoggerDispatchBrowser), with its input queue and thread            *)
(* (InfoLoggerDispatch), and doLoop of infoLoggerServer, which pushes each *)
(* message without looking at the answer.                                  *)
(***************************************************************************)
EXTENDS OnlineClients, FiniteSets

CONSTANTS
  BrowserQueueSize,   \* dbDispatchQueueSize
  MaxOnline           \* bound: messages received

ASSUME BrowserAssumption == BrowserQueueSize \in Nat \ {0} /\ MaxOnline \in Nat

VARIABLES
  received,   \* messages given to pushMessage: their numbers are 1, 2, ...
  input,      \* the engine's queue
  refused,    \* messages for which there was no room in it
  unsendable, \* messages that infoLog_msg_encode refuses
  inLoop      \* the thread is before customLoop, and not in the loop over input

inputVars   == <<received, input, refused, unsendable>>
browserVars == <<onlineVars, inputVars, inLoop>>

BrowserInit ==
  /\ OnlineInit
  /\ received = 0 /\ input = <<>> /\ refused = {}
  /\ unsendable \in SUBSET (1 .. MaxOnline) /\ Cardinality(unsendable) <= 1
  /\ inLoop = TRUE

-----------------------------------------------------------------------------
(* doLoop.                                                                 *)
PushOnline ==
  /\ received < MaxOnline /\ received' = received + 1
  /\ IF Len(input) >= BrowserQueueSize
     THEN refused' = refused \union {received'} /\ UNCHANGED input
     ELSE input' = Append(input, received') /\ UNCHANGED refused
  /\ UNCHANGED <<onlineVars, unsendable, inLoop>>

(* threadCallback: customLoop, then the queue until it is empty.           *)
BrowserLoop ==
  /\ inLoop
  /\ Serve
  /\ inLoop' = (input = <<>>)
  /\ UNCHANGED inputVars

BrowserPops ==
  /\ input' = Tail(input)
  /\ inLoop' = (input' = <<>>)
  /\ UNCHANGED <<received, refused, unsendable>>

(* customMessageProcess.                                                   *)
BrowserSkips ==
  /\ ~inLoop /\ next = 0 /\ Head(input) \in unsendable
  /\ BrowserPops
  /\ UNCHANGED onlineVars

BrowserBegins ==
  /\ ~inLoop /\ Head(input) \notin unsendable
  /\ Offer(Head(input))
  /\ UNCHANGED <<inputVars, inLoop>>

BrowserSends ==
  /\ SendNext
  /\ \/ next' # 0 /\ UNCHANGED <<inputVars, inLoop>>
     \/ next' = 0 /\ BrowserPops

BrowserStep == BrowserLoop \/ BrowserSkips \/ BrowserBegins \/ BrowserSends

BrowserNext ==
  \/ PushOnline \/ BrowserStep
  \/ Peers /\ UNCHANGED <<inputVars, inLoop>>

BrowserSpec == BrowserInit /\ [][BrowserNext]_browserVars /\ WF_browserVars(BrowserStep)

-----------------------------------------------------------------------------
(* Whatever the browsers do, one that stops reading included, the engine   *)
(* gets to the end of its queue: a browser delays the others, it does not  *)
(* stop them.                                                              *)
BrowserDrains == input # <<>> ~> input = <<>>
=============================================================================
