----------------------------- MODULE MCDispatch -----------------------------
(***************************************************************************)
(* The dispatch engines of infoLoggerServer, and the two programs that get *)
(* the online messages, which see of the server only a stream of lines     *)
(* that may end.  They share nothing but the messages, which they only     *)
(* read: an instance runs one of them, chosen in its initial state, an     *)
(* engine with the main thread that feeds it, and the others stay in their *)
(* initial state.                                                          *)
(***************************************************************************)
EXTENDS DispatchSQL, DispatchBrowser, DispatchStats, InfoBrowser, AlertMonitor

CONSTANT StatsPeer   \* bound: the peers that connect to the statistics

VARIABLE part        \* the engine or program that runs

(* A message with all fields that are counted, and one without run.        *)
SomeMessages ==
  {[hostname |-> "host", run |-> 1], [hostname |-> "host", run |-> Undefined]}

sqlAll     == vars
browserOwn == <<inputVars, inLoop>>
statsOwn   == <<clock, timeVars, windows, at, counted>>
engineVars == <<sqlAll, onlineVars, browserOwn, statsOwn>>
programVars == <<browseVars, alertVars>>
dispatchVars == <<engineVars, programVars, part>>

DispatchInit ==
  /\ Init /\ BrowserInit /\ StatsInit /\ BrowseInit /\ AlertInit
  /\ part \in {"database", "browser", "statistics", "infoBrowser", "alert"}
  /\ part # "browser" => unsendable = {}

Database(A) ==
  /\ part = "database" /\ A
  /\ UNCHANGED <<onlineVars, browserOwn, statsOwn, programVars, part>>
Browser(A) ==
  part = "browser" /\ A /\ UNCHANGED <<sqlAll, statsOwn, programVars, part>>
Statistics(A) ==
  /\ part = "statistics" /\ A
  /\ \A p \in Peer \ StatsPeer : peer'[p] = "out"
  /\ UNCHANGED <<sqlAll, browserOwn, programVars, part>>
Display(A) == part = "infoBrowser" /\ A /\ UNCHANGED <<engineVars, alertVars, part>>
Alert(A) == part = "alert" /\ A /\ UNCHANGED <<engineVars, browseVars, part>>

DispatchNext ==
  \/ Database(Next) \/ Browser(BrowserNext) \/ Statistics(StatsNext)
  \/ Display(BrowseNext) \/ Alert(AlertNext)

(* Of the fairness of the module of the part that runs, what the           *)
(* properties need.                                                        *)
DispatchSpec ==
  /\ DispatchInit /\ [][DispatchNext]_dispatchVars
  /\ \A e \in Engine : /\ WF_dispatchVars(Database(EngineStep(e)))
                       /\ SF_dispatchVars(Database(Commit(e)))
  /\ WF_dispatchVars(Browser(BrowserStep))
  /\ WF_dispatchVars(Display(Procedure)) /\ WF_dispatchVars(Display(EventLoop))
  /\ WF_dispatchVars(Alert(Round \/ TimePasses))
=============================================================================
