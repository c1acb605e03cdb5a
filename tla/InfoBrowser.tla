---------------------------- MODULE InfoBrowser ----------------------------
(***************************************************************************)
(* infoBrowser.tcl: the procedures that edit the lists of messages.        *)
(*                                                                         *)
(* One thread runs an event loop, and most procedures call `update`, which *)
(* runs the event loop inside the procedure: a click, a timer or data on a *)
(* socket then starts another procedure before the first one goes on.  So  *)
(* the state has the stack of the procedures under way, the innermost      *)
(* first, each with the place where it stands and its local variables.     *)
(* What a procedure does between two calls of `update` is one step.        *)
(*                                                                         *)
(* A line of a list is the number of its message, or FromDB when it comes  *)
(* from the database; log_val stands for the lists of all columns but the  *)
(* time.  Layout, colours and the text of filters and queries are left     *)
(* out: whether a filter is well formed, and which messages it lets pass,  *)
(* is a choice.                                                            *)
(***************************************************************************)
EXTENDS Naturals, Sequences, FiniteSets

CONSTANTS
  maxmess,     \* the lines that are displayed
  MaxClicks,   \* bound: clicks, each when no procedure is under way
  MaxNested,   \* bound: clicks, some of them while a procedure is under way
  MaxBrowse,   \* bound: messages from the server
  MaxBreaks,   \* bound: refused and closed connections
  MaxDepth     \* bound: procedures under way when a click or data comes

ASSUME BrowseAssumption ==
  /\ maxmess \in Nat \ {0} /\ MaxClicks \in Nat /\ MaxNested \in Nat
  /\ MaxBrowse \in Nat /\ MaxBreaks \in Nat /\ MaxDepth \in Nat

VARIABLES
  online, busy, querying,  \* the flags of the procedures
  queryEnabled,            \* the button "Query" is enabled
  server_fd,               \* the socket in use, or NoFd
  socket, watched,         \* the sockets, and those with a handler of reading
  timers, timer,           \* the pending timers, and onlineserver(timer)
  log_val, log_val_Time, n_msgs,
  stack,                   \* the procedures under way
  nested,                  \* a click came while a procedure was under way
  clicks, browsed, breaks  \* counters of the bounds

modeVars == <<online, busy, querying, queryEnabled>>
netVars  == <<server_fd, socket, watched, timers, timer>>
listVars == <<log_val, log_val_Time, n_msgs>>
countVars == <<nested, clicks, browsed, breaks>>
browseVars == <<modeVars, netVars, listVars, stack, countVars>>

NoFd == 0
FromDB == 0
Sockets == 1 .. 2
Timers == 1 .. 2

BrowseInit ==
  /\ online = FALSE /\ busy = FALSE /\ querying = FALSE /\ queryEnabled = TRUE
  /\ server_fd = NoFd /\ socket = [s \in Sockets |-> "closed"]
  /\ watched = {} /\ timers = {} /\ timer = NoFd
  /\ log_val = <<>> /\ log_val_Time = <<>> /\ n_msgs = 0
  /\ stack = <<>>
  /\ nested = FALSE /\ clicks = 0 /\ browsed = 0 /\ breaks = 0

-----------------------------------------------------------------------------
(* Procedures and the event loop                                           *)

(* A procedure that stands at a place.  list, start and msg are the local  *)
(* variables of server_event (list also the rows of a query and the times  *)
(* of update_time), from is the socket whose event started it.             *)
Frame(at) == [at |-> at, list |-> <<>>, start |-> 0, msg |-> 0, from |-> NoFd]
Top == Head(stack)
Place == IF stack = <<>> THEN "idle" ELSE Top.at
At(at) == Place = at
Goto(frame) == stack' = <<frame>> \o Tail(stack)
Unwind == stack' = Tail(stack)

(* The places that are not in the event loop: a call of server_connect or  *)
(* of doClean, and the loop of server_event.                               *)
InEventLoop == Place \notin {"opening", "cleaning", "reading"}

(* The last thing the procedure does is to call update.                    *)
LastUpdate == At("ends") /\ Unwind /\ UNCHANGED <<modeVars, netVars, listVars, countVars>>

ClearLists == log_val' = <<>> /\ log_val_Time' = <<>> /\ n_msgs' = 0

Click ==
  /\ InEventLoop /\ Len(stack) < MaxDepth
  /\ nested' = (nested \/ stack # <<>>)
  /\ clicks < IF nested' THEN MaxNested ELSE MaxClicks
  /\ clicks' = clicks + 1 /\ UNCHANGED <<browsed, breaks>>

(* Mutant: no second timer is asked for; nothing forgets one that fired.   *)
SetTimerUnlessSet ==
  IF timer # NoFd THEN UNCHANGED <<timers, timer>>
  ELSE \E t \in Timers \ timers : timers' = timers \cup {t} /\ timer' = t

SetTimer ==
  \E t \in Timers \ timers : timers' = timers \cup {t} /\ timer' = t

CloseSocket ==
  IF server_fd = NoFd THEN UNCHANGED <<server_fd, socket, watched>>
  ELSE /\ socket' = [socket EXCEPT ![server_fd] = "closed"]
       /\ watched' = watched \ {server_fd}
       /\ server_fd' = NoFd

-----------------------------------------------------------------------------
(* server_connect, from doOnline or a timer, with the procedures below it  *)

ServerConnect(below) ==
  stack' = IF server_fd # NoFd THEN below ELSE <<Frame("connecting")>> \o below

Refused ==
  /\ At("connecting") /\ breaks < MaxBreaks /\ breaks' = breaks + 1
  /\ SetTimer
  /\ Goto(Frame("ends"))
  /\ UNCHANGED <<modeVars, server_fd, socket, watched, listVars, nested, clicks, browsed>>

Opened ==
  /\ At("connecting")
  /\ \E s \in Sockets :
       /\ socket[s] = "closed"
       /\ socket' = [socket EXCEPT ![s] = "open"]
       /\ server_fd' = s /\ watched' = watched \cup {s}
  /\ Goto(Frame("ends"))
  /\ UNCHANGED <<modeVars, timers, timer, listVars, countVars>>

TimerFires ==
  /\ InEventLoop
  /\ \E t \in timers : timers' = timers \ {t}
  /\ ServerConnect(stack)
  /\ UNCHANGED <<modeVars, server_fd, socket, watched, timer, listVars, countVars>>

-----------------------------------------------------------------------------
(* doOnline: the button has switched the flag already                      *)

GoOnline ==
  /\ Click /\ ~online /\ online' = TRUE
  /\ UNCHANGED <<querying, netVars>>
  /\ \/ /\ busy
        /\ UNCHANGED <<busy, queryEnabled, listVars, stack>>
     \/ /\ ~busy /\ busy' = TRUE   \* a filter is not well formed
        /\ ClearLists
        /\ stack' = <<Frame("bad filter")>> \o stack
        /\ UNCHANGED queryEnabled
     \/ /\ ~busy /\ busy' = TRUE
        /\ queryEnabled' = FALSE
        /\ ServerConnect(<<Frame("opening")>> \o stack)
        /\ UNCHANGED listVars

BadFilter ==
  /\ At("bad filter")
  /\ online' = ~online
  /\ queryEnabled' = TRUE /\ busy' = FALSE
  /\ Goto(Frame("ends"))
  /\ UNCHANGED <<querying, netVars, listVars, countVars>>

ResetOnline ==
  /\ At("opening")
  /\ ClearLists
  /\ Goto(Frame("ends"))
  /\ UNCHANGED <<modeVars, netVars, countVars>>

GoOffline ==
  /\ Click /\ online /\ online' = FALSE
  /\ CloseSocket
  /\ queryEnabled' = TRUE
  /\ timers' = timers \ {timer} /\ timer' = NoFd
  /\ stack' = <<Frame("offline")>> \o stack
  /\ UNCHANGED <<busy, querying, listVars>>

Offline ==
  /\ At("offline")
  /\ busy' = FALSE
  /\ Unwind
  /\ UNCHANGED <<online, querying, queryEnabled, netVars, listVars, countVars>>

-----------------------------------------------------------------------------
(* doClean, from a button or from server_event.  frame is the place to     *)
(* which the caller returns.                                               *)

DoClean(below) ==
  IF ~online /\ busy
  THEN stack' = below /\ UNCHANGED <<busy, listVars>>
  ELSE /\ busy' = (busy \/ ~online)
       /\ ClearLists
       /\ stack' = <<Frame("cleared")>> \o below

CleanNow ==
  /\ Click /\ DoClean(stack)
  /\ UNCHANGED <<online, querying, queryEnabled, netVars>>

Cleared ==
  /\ At("cleared")
  /\ busy' = (busy /\ online)
  /\ Goto(Frame("ends"))
  /\ UNCHANGED <<online, querying, queryEnabled, netVars, listVars, countVars>>

-----------------------------------------------------------------------------
(* server_event: the handler of the socket s, which reads from server_fd   *)

SocketEvent(s) ==
  /\ InEventLoop /\ s \in watched /\ Len(stack) < MaxDepth
  /\ socket[s] # "open" \/ browsed < MaxBrowse
  /\ IF server_fd = NoFd   \* an error of fileevent removes the handler
     THEN watched' = watched \ {s} /\ UNCHANGED stack
     ELSE /\ watched' = watched \ {server_fd}
          /\ stack' = <<[Frame("reading") EXCEPT !.start = n_msgs, !.from = s]>> \o stack
  /\ UNCHANGED <<modeVars, server_fd, socket, timers, timer, listVars, countVars>>

(* The lines that were read are added to those that are displayed.         *)
LastLines(s) == SubSeq(s, IF Len(s) > maxmess THEN Len(s) - maxmess + 1 ELSE 1, Len(s))
Assign ==
  /\ IF n_msgs > Top.start
     THEN /\ log_val' = LastLines(log_val \o Top.list)
          /\ log_val_Time' = LastLines(log_val_Time \o Top.list)
     ELSE UNCHANGED <<log_val, log_val_Time>>
  /\ Goto(Frame("display"))
  /\ UNCHANGED n_msgs

(* The lines of a message that the filter lets pass.                       *)
AddLines(frame, m) ==
  \E n \in 0 .. 2 :
    /\ n_msgs' = n_msgs + n
    /\ Goto([frame EXCEPT !.at = "reading", !.list = @ \o [i \in 1 .. n |-> m]])

GetsMessage ==
  /\ At("reading") /\ server_fd # NoFd /\ socket[server_fd] = "open"
  /\ browsed < MaxBrowse /\ browsed' = browsed + 1
  /\ AddLines(Top, browsed')
  /\ UNCHANGED <<modeVars, netVars, log_val, log_val_Time, nested, clicks, breaks>>

(* A message of the start of a run, with autoclean on.                     *)
GetsStartOfRun ==
  /\ At("reading") /\ server_fd # NoFd /\ socket[server_fd] = "open"
  /\ browsed < MaxBrowse /\ browsed' = browsed + 1
  /\ DoClean(<<[Top EXCEPT !.at = "cleaning", !.msg = browsed']>> \o Tail(stack))
  /\ UNCHANGED <<online, querying, queryEnabled, netVars, nested, clicks, breaks>>

(* Mutant: the lines read before the clean are kept.                       *)
AutoCleanedKeepsLines(frame) == [frame EXCEPT !.start = 0]

AutoCleaned(frame) == [frame EXCEPT !.start = 0, !.list = <<>>]

AfterClean ==
  /\ At("cleaning")
  /\ AddLines(AutoCleaned(Top), Top.msg)
  /\ UNCHANGED <<modeVars, netVars, log_val, log_val_Time, countVars>>

GetsNothing ==
  /\ At("reading") /\ server_fd # NoFd /\ socket[server_fd] \in {"open", "hup"}
  /\ socket' = [socket EXCEPT ![server_fd] = IF @ = "hup" THEN "eof" ELSE @]
  /\ Assign
  /\ UNCHANGED <<modeVars, server_fd, watched, timers, timer, countVars>>

StreamEnded ==
  /\ At("reading") /\ server_fd # NoFd /\ socket[server_fd] = "eof"
  /\ CloseSocket
  /\ Goto([Top EXCEPT !.at = "eof"])
  /\ UNCHANGED <<modeVars, timers, timer, listVars, countVars>>

AfterClose ==
  /\ At("eof")
  /\ SetTimer
  /\ Assign
  /\ UNCHANGED <<modeVars, server_fd, socket, watched, countVars>>

(* The socket was closed by a procedure inside this one: eof is an error,  *)
(* which removes the handler.                                              *)
EventFails ==
  /\ At("reading") /\ server_fd = NoFd
  /\ watched' = watched \ {Top.from}
  /\ Unwind
  /\ UNCHANGED <<modeVars, server_fd, socket, timers, timer, listVars, countVars>>

Displayed ==
  /\ At("display")
  /\ watched' = watched \cup ({server_fd} \ {NoFd})
  /\ Unwind
  /\ UNCHANGED <<modeVars, server_fd, socket, timers, timer, listVars, countVars>>

(* infoLoggerServer stops, or closes the connection.                       *)
ServerEnds ==
  /\ breaks < MaxBreaks /\ breaks' = breaks + 1
  /\ \E s \in Sockets : socket[s] = "open" /\ socket' = [socket EXCEPT ![s] = "hup"]
  /\ UNCHANGED <<modeVars, server_fd, watched, timers, timer, listVars, stack,
                 nested, clicks, browsed>>

-----------------------------------------------------------------------------
(* doQuery                                                                 *)

Query ==
  /\ Click /\ queryEnabled
  /\ UNCHANGED <<online, queryEnabled, netVars>>
  /\ \/ /\ busy \/ querying
        /\ UNCHANGED <<busy, querying, listVars, stack>>
     \/ /\ ~busy /\ ~querying /\ busy' = TRUE /\ querying' = TRUE
        /\ \/ ClearLists /\ stack' = <<Frame("query ends")>> \o stack
           \/ UNCHANGED listVars /\ stack' = <<Frame("querying")>> \o stack

(* The database returns rows, or says that they would be too many.         *)
Retrieved ==
  /\ At("querying")
  /\ ClearLists
  /\ \/ Goto(Frame("query ends"))
     \/ \E n \in {0, 1, maxmess} :
          Goto([Frame("retrieved") EXCEPT !.list = [i \in 1 .. n |-> FromDB]])
  /\ UNCHANGED <<modeVars, netVars, countVars>>

CountRows ==
  /\ At("retrieved")
  /\ n_msgs' = Len(Top.list)
  /\ Goto([Top EXCEPT !.at = "processing"])
  /\ UNCHANGED <<modeVars, netVars, log_val, log_val_Time, countVars>>

AssignRows ==
  /\ At("processing")
  /\ log_val' = Top.list /\ log_val_Time' = Top.list
  /\ Goto(Frame("query ends"))
  /\ UNCHANGED <<modeVars, netVars, n_msgs, countVars>>

QueryEnds ==
  /\ At("query ends")
  /\ querying' = FALSE /\ busy' = FALSE
  /\ Unwind
  /\ UNCHANGED <<online, queryEnabled, netVars, listVars, countVars>>

-----------------------------------------------------------------------------
(* update_time                                                             *)

UpdateTime ==
  /\ Click
  /\ \/ busy /\ UNCHANGED <<busy, stack>>
     \/ /\ ~busy /\ busy' = TRUE
        /\ stack' = <<[Frame("formatting") EXCEPT !.list = log_val]>> \o stack
  /\ UNCHANGED <<online, querying, queryEnabled, netVars, listVars>>

AssignTimes ==
  /\ At("formatting")
  /\ log_val_Time' = Top.list
  /\ Goto(Frame("formatted"))
  /\ UNCHANGED <<modeVars, netVars, log_val, n_msgs, countVars>>

TimeEnds ==
  /\ At("formatted")
  /\ busy' = FALSE
  /\ Unwind
  /\ UNCHANGED <<online, querying, queryEnabled, netVars, listVars, countVars>>

-----------------------------------------------------------------------------
(* A procedure goes on: it does not wait for messages or for the user.     *)
Procedure ==
  \/ LastUpdate \/ Refused \/ Opened \/ BadFilter \/ ResetOnline \/ Offline \/ Cleared
  \/ AfterClean \/ GetsNothing \/ StreamEnded \/ AfterClose \/ EventFails \/ Displayed
  \/ Retrieved \/ CountRows \/ AssignRows \/ QueryEnds \/ AssignTimes \/ TimeEnds
EventLoop == TimerFires \/ \E s \in Sockets : SocketEvent(s)
Clicks == GoOnline \/ GoOffline \/ CleanNow \/ Query \/ UpdateTime
Server == GetsMessage \/ GetsStartOfRun \/ ServerEnds

BrowseNext == Procedure \/ EventLoop \/ Clicks \/ Server

BrowseSpec ==
  /\ BrowseInit /\ [][BrowseNext]_browseVars
  /\ WF_browseVars(Procedure) /\ WF_browseVars(EventLoop)

-----------------------------------------------------------------------------
(* "only one guy (timeformat, query, online) should edit the message lists *)
(* at a time" (infoBrowser.tcl:49), which is what busy is for.             *)
UnderWay(at) == \E i \in DOMAIN stack : stack[i].at \in at
Editors ==
  {e \in {"timeformat", "query", "online"} :
     CASE e = "timeformat" -> UnderWay({"formatting"})
       [] e = "query"      -> UnderWay({"querying", "retrieved", "processing"})
       [] e = "online"     -> watched # {} \/ UnderWay({"reading", "cleaning", "eof"})}
OneEditor == Cardinality(Editors) <= 1

(* When no procedure is under way the columns have the same lines, the     *)
(* last ones of those that are counted: whatever data, timers and closed   *)
(* connections came while a procedure was under way, unless a click did.   *)
ListsAgree ==
  stack = <<>> /\ ~nested =>
    /\ log_val_Time = log_val
    /\ Len(log_val) = IF n_msgs < maxmess THEN n_msgs ELSE maxmess

(* A browser that is online is connected again, after each connection that *)
(* is closed or refused, unless a click came while it was being opened.    *)
StaysConnected == []<>(~online \/ server_fd # NoFd \/ nested)

=============================================================================
