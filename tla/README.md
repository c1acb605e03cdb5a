# InfoLogger: TLA+ models and proofs

InfoLogger collects log messages from the processes of a cluster, carries them
to a central server, and stores and displays them. This directory models the
path of a message from the call that logs it to the database, the statistics
and the screen: TLA+ modules translated from the source, TLC configurations
that check them on small instances, and theorems proved with TLAPS.

## 1. The system

```
 process            each host                      central host                        anywhere
 +---------------+  +-------------------------+    +---------------------------------+
 | InfoLogger    |  | infoLoggerD             |    | infoLoggerServer                |-> database
 |  InfoLogger-  |->|  doLoop -> permFIFO ->  |--->|  TR_server -> doLoop -> engines |-> infoBrowser, alert monitor
 |  Client       |  |           TR_client     |<---|             <- ack              |-> readers of statistics
 +---------------+  +-------------------------+    +---------------------------------+
   UNIX socket             file on disk    TCP, files up / READY, ACK down
```

### Inventory

| component (source) | state | operations | talks to | hard because |
|---|---|---|---|---|
| logging API (`InfoLogger.cxx`) | flood counters and mode, AutoMute tokens, history, saved descriptors | log, flood protection, history, redirection of the output | InfoLoggerClient | time windows, messages about messages, a thread that reads the redirected output |
| message encoding (`infoLoggerMessage*.c`) | a buffer of fixed size | encode, decode | everywhere | records that are cut, delimiters inside the text |
| client connection (`InfoLoggerClient.cxx`) | socket, buffer, reconnection thread, mutex | send, reconnect, destructor | infoLoggerD by a UNIX socket | threads joined under a mutex, connection lost at any time |
| infoLoggerD (`infoLoggerD.cxx`) | table of clients, one line buffer each | poll, split lines, accept | TR_client_send_msg | lines cut over several reads, limit on connections |
| permanent FIFO (`permanentFIFO.c`) | two memory tables, one file with a header | write, read, ack, flush, open, destroy | called by infoLoggerD and by the transport client | crash at any instruction, item numbers in five places, start-up that rewrites the file |
| transport client (`transport_client.c`) | connection state, input queue, index of the next file, current file | connect, send files, take ACKs, reconnect | permanent FIFO, TCP | connection lost in the middle of a file, resend, ACKs while sending |
| queues and buffers (`utility.c`) | rings, a growing block of memory | read, write with time-outs; add, get a line | transport | one condition variable for all threads, data with NULs, limits of size |
| transport server (`transport_server.c`) | table of connections, parser state of each, output queue | accept, parse, push, acknowledge | TCP, server main loop | slots used again, queue full, acknowledgements from another thread |
| server main loop (`infoLoggerServer.cxx`) | file in hand, engines | get file, decode, dispatch, ack | dispatch engines | an engine that is full, order of dispatch and ack |
| database engine (`InfoLoggerDispatchSQL.cxx`) | queue, connection, transaction, retry counter | insert line by line, retry, drop, commit | MySQL | failing database, partial insertion |
| browser engine (`InfoLoggerDispatchBrowser.cxx`) | queue, table of connections | accept, send, close | infoBrowser, alert monitor | slow peers, writes that take only a part |
| statistics engine (`InfoLoggerDispatchStats.cxx`) | windows of counters, table of connections | count, publish, start a window, forget | readers of statistics | late timers, windows that must tile time |
| infoBrowser (`infoBrowser.tcl`) | lists of messages, flags, socket, timers | online, query, clean, time format, reconnect | server, database | procedures nested by `update` |
| alert monitor (`o2-infologger-alert`) | alarms and their times, connection | match, send metrics, clear, reconnect | server, Telegraf | time-outs in a loop that may be late |
| files and their numbers (`transport_files.c`) | records | compare | transport | |
| proxy, spool cache (`transport_proxy.c`, `transport_cache.c`) | | | | never started, not built: section 8 |
| administration, command line, wrappers, context, daemon log | | | database, API | input, output and display only |

`PROJECT.json` lists every component with its status, and under `hazards` what
is hard to test in this code, at its line, with the properties that watch it.

### What makes each part correct

* **Logging API**: every message is sent, kept in the local file, or counted in
  a report; what leaves is bounded in rate; redirected text is logged or shown
  once.
* **Encoding**: what is decoded is what was encoded, cut where it was cut and
  marked so.
* **Client connection**: messages leave in order; calls return; the connection
  comes back.
* **infoLoggerD**: no byte is lost or moved, and no client is forgotten.
* **Permanent FIFO**: first in, first out; a message stays until it is
  acknowledged; a stop or crash gives back everything that was saved and not
  acknowledged, and nothing that was acknowledged; what is held is in the end
  handed out.
* **Transport**: first deliveries in order, nothing lost over reconnections and
  restarts; an acknowledgement reaches only the connection, and the run of the
  daemon, that its file came from; everything is in the end acknowledged.
* **Engines**: the database engine stores in order and once, or drops for a
  reason, and a failing message or database does not stop it for good; what a
  browser gets has no hole until its connection ends, and a slow one does not
  stop the others; each message counts in exactly one window.
* **infoBrowser**: its lists agree, one procedure edits them at a time, and the
  online mode finds its server again. **Alert monitor**: what was counted is
  reported.

## 2. Plan

In order of importance to the path of a message:

1. `DurableQueue`, `PermFIFO`, `PermFIFOProofs`: the FIFO, its abstract
   specification and the first theorems. *Done.*
2. `Transport`: the two ends of the transport composed with TCP
   and the server's main thread. *Done for message mode.*
3. `InfoLoggerClient`; `DispatchSQL`; `DaemonRx`. *Done.*
4. `PtFIFO` with `BoundedQueue`, `LineBuffer`: the structures under the
   transport. *Done.*
5. `OnlineClients`, `DispatchBrowser`, `DispatchStats`: the other engines.
   *Done.*
6. `InfoLoggerAPI`, `MessageHistory`, `AutoMute`, `Redirection`,
   `InfoLoggerMessage`: the library. *Done.*
7. `InfoBrowser`, `AlertMonitor`: the programs that receive online messages.
   *Done for what has state and concurrency.*
8. Proofs. `PermFIFOProofs`; `BufferProofs`: the ring, its wake-ups, the line
   buffer, and the text of a message (`InfoLoggerMessage`); `TransportProofs`:
   every safety property of `Transport`; `DispatchSQLProofs` and
   `HostProofs`: those of the database engine, of the client's connection, of
   the reception by `infoLoggerD` and of the accounts of the library
   (`InfoLoggerAPI`, `AutoMute`, `Redirection`); `DurableQueueProofs`: that
   `PermFIFO` implements `DurableQueue` and never brings back an acknowledged
   message; `OnlineProofs`: the streams of the online engines, the windows of
   the statistics and what they count, and the lists of `infoBrowser`. *Done*:
   every safety property of a passing run is proved. What the prover cannot
   reach, progress under fairness, stays with TLC.

## 3. Modules

Each component has a module of its own. The modules `MC...` put several of
them into one instance, for TLC: `MCHost` (the client's connection, the
reception by infoLoggerD, the permanent FIFO), `MCSending` (the library and the
transport), `MCDelivery` (the transport again and the structures under it, with
fairness) and `MCDispatch` (the engines of the server and the two programs that
receive online messages). The initial state chooses which of the parts runs, the
others staying in their initial state, because these parts share no variable.
`Transport` itself composes components that do interact: daemons, connections,
the server's two threads.

### PermFIFO and DurableQueue

One action for each public function (each runs under the FIFO's mutex), one
for each change of the directory made by the start-up (`permFIFO_file_clean`
and `permFIFO_new`), and kills.

| code | model |
|---|---|
| `table_client`, `table_disk` (struct permFIFO_ItemTable) | sequences of items, at most `Size` long |
| file, header `lastAckId`, `currentId`, records | record `file`; `fileOld` and `fileNew` are the `.old` and `.new` files |
| `currentId`, `lastIdOut`, `nextIdInClientTable`, `lastIdOnDisk`, `ackOnDisk`, `lastOutOffset` | variables of these names (the offset counts records) |
| payload | the number of the `permFIFO_write` call, or `Torn` |
| the consumer (transport client) | `taken`: what it read and did not acknowledge |

`Kills` names the places where a kill may fall: between calls (`idle`), during
the start-up (`clean`), between two records of a save (`save`), inside a record
(`torn`), and in an acknowledgement between truncation and header (`ack`).
Bytes are not counted, so what a torn record does to those who read past it is a
choice over what lengths of messages can make of it. A reader that loads items
(`ct_load`) gets to the torn record or past it, with the bytes of later records for
its data, and no further (`Legible`). The start-up of a file with nothing
acknowledged only skips over the records (`CleanScan`): it meets the end of the file
behind the last record, or behind the first torn one, and then writes that one's
number to the header, so that the numbers of the records behind it are given
again; or it ends up between two records, fails, and the file is moved aside
(`MayFail`, `CleanBackup`). `Sound(recs)` are the records up to the first torn one.
`DurableQueue`
states what the FIFO promises; the mapping takes the unacknowledged records
that the next start will use, followed by `table_disk`.

### Transport

The client thread of each daemon, TCP connections, the server's thread and its
main thread. A file is one message, numbered by the FIFO. A connection carries
`INI`, `File`, `END` up and `READY`, `ACK` down; when the client closes, any
suffix of what it sent may be lost; when the server closes, what was not read
is lost. The FIFO is reduced to what the client sees of it: items numbered from
1 at each start of the daemon, the unacknowledged ones again. `ServerThread`
guards say that the thread does nothing else while it waits for room in the
output queue (variable `pushing`). `cx_id` and the slot are kept as in the
code: an acknowledgement names a slot and the `cx_id` it had.

### PtFIFO, BoundedQueue and LineBuffer

`PtFIFO` is `struct FIFO` and `struct ptFIFO`: the ring of `size + 1` slots, and
the calls of several readers and writers with a time-out of 0, a delay or for
ever. A call holds the mutex from its start or its last wake-up to its return or
next wait, which is one step; a broadcast moves all sleepers to `lock`. Wake-ups
without a cause and time-outs are steps of their own. `BoundedQueue` is what it
promises: `queue`, the items from `index_start` to `index_end`, and `result`.
`LineBuffer` is `lineBuffer_new`, `lineBuffer_add` and `lineBuffer_getLine`
with the block of memory byte by byte, since it grows by chunks, zeros in the
data are overwritten, and `getLine` finds its way by the final NUL; what was
never written is `Junk`.

### InfoLoggerClient

One action for each stretch of `send()` between two points where another
thread can act (`Lock`, `Join`, `Write`, `Buffer`), the turns of the
reconnection thread, the destructor, and the daemon at the other end. The
mutex is explicit. `Closes` names when the daemon may close: only outside a
flush of the buffer, or also during one.

### InfoLoggerAPI, MessageHistory, AutoMute, Redirection

`PushMessage` is the whole of `pushMessage`: the counters of the second and the
minute, the start of a flood, the local file and its limit, the end of a flood,
the notices that it pushes by calling itself, and the history. `log` records
what became of each message. `MessageHistory` is the queue of summaries.
`AutoMute` is `InfoLogger::log` with a token, whose fields are `Unset` until they
are written. `Redirection` has `setStandardRedirection` in the steps between
which the thread that reads the pipe, or another thread that prints, can act;
letters are numbered in the order they were printed, so that loss, repetition
and loops show. The clocks are variables that grow; seconds are the unit, and
`MinuteLength` stands for 60.

### InfoLoggerMessage

`infoLog_msg_encode` step by step over the lines of the text, in a buffer of
every size that cuts a record at a different place; then the cutting at ends of
line by infoLoggerD and `infoLog_decode`. The fields that come before the text
are one field. `Split` gathers the characters one by one, as the daemon's loop
does, so that what it returns can be proved.

### DaemonRx

`InfoLoggerD::doLoop`: `Poll` (the poll structure is renewed if it was freed,
then `poll`), one step for each client of the list in order (`Skip`, `ReadData`,
`CloseClient`), and `EndLoop` (closed clients are removed, one connection is
accepted or refused, the structure is freed if the list changed). The clients
act between any two of these. `Split` is the loop over the bytes of a read; a
read may end anywhere; `PushTo` is what it does at one byte. Bytes are numbers, a multiple of `LineLen` being an end
of line, so that order, loss and repetition show. Left out: an `accept` or a
`read` that fails, and what the transport does with the message.

### DispatchSQL

The server's main thread and the threads of the database engines. `Receive`,
`Push` and `GiveUp` are the part of `doLoop` that chooses an engine and tries
each three times. An engine's `pc` says where its thread is: `loop` in
`customLoop` (`Connect`, `Loop`, `Commit`), `queue` at the test of the loop of
`threadCallback` (`Empty`, `Begin`, `BeginFails`), `insert` before the insertion
of line `sql[e].line` (one action for each way it may end). `sql[e]` has the
members of `InfoLoggerDispatchSQLImpl`; the commit timer is a choice between
`Loop` and `Commit`. The database is external: a session ends at any time, and
its open transaction is rolled back; a query on it then fails. A message has
at most one line that the database refuses, for its contents (`data`) or for
another reason (`other`); `other` may also happen once, to any line. Looking at
a line overwrites the separator after it, which is why `Begin` leaves a text of
one line in the queue, all that is inserted if the message is tried again.

### OnlineClients, DispatchBrowser, DispatchStats

`OnlineClients` is the code that the two engines share: the table of
connections (`Serve`: closed ones are found, one is accepted, a place is used
again) and the loop that writes a record to each entry, one step for each way
it may end: all is written, a part is (the connection is closed), the write
fails, or `select` times out. A connection has `Room` records of buffer and its
peer reads when it likes, or never. `DispatchBrowser` adds the queue, the thread
and the push whose result is ignored; messages that cannot be encoded are
skipped. `DispatchStats` adds the windows: `StatsLoop`, `StatsPublish` and
`StatsWindow` are the stretches of `customLoop` that use one reading of the
clock, `StatsCount` is `customMessageProcess` with a message of some fields, some
of them undefined. `Erased`, in the module `Erasing`, is the loop that erases from
a vector the elements that a condition names, by which old windows are dropped.

### InfoBrowser and AlertMonitor

Tcl has one thread, but `update` inside a procedure runs the event loop: a
click, a timer or data on the socket then starts another procedure before the
first goes on. `InfoBrowser` therefore has a stack of the procedures under way,
each with its place and its local variables, and one step for each stretch
between two calls of `update`. `log_val` and `log_val_Time` are the lists of
columns; a line is the number of its message. `AlertMonitor` has the alarms and
the connection of `o2-infologger-alert`; times are ages. A round of its
loop is due every `loopTimeout` and may be `MaxDelay` late: the thread also waits
for the connection (`socket`) and for what it writes to Telegraf (`flush`), and
nothing in the code bounds that by `offT`, the time after which an alarm is cleared.

## 4. Runs

All configurations use `CHECK_DEADLOCK FALSE`: the numbers of messages, calls
and faults are bounded, so every behaviour of an instance ends.

| run | checks | shows | bounds |
|---|---|---|---|
| `host_kill` | `TypeOK`, `NumbersInOrder`, `AckedNeverAgain`, `NothingSkipped` (FIFO); `PollsItsOwn`, `BytesInOrder`, `ConnectAnswered`, `WritesRead` (reception); `SentInOrder`, `OneThread`, `CallsReturn`, `WillReconnect` (connection) | the FIFO's numbers and messages wherever a kill falls; the table of clients, the poll structure and the cutting of reads; calls that return and messages in order over lost connections | tables of 2, 6 messages, 3 ends; 3 clients for 2 places, up to 3 bytes in lines of 2; 2 threads, 5 calls, buffer of 2, 2 closes |
| `permfifo_stale` | `PendingDrains`, **violated** | a kill in `permFIFO_ack` leaves a header that holds back later messages | 2 messages |
| `permfifo_torn` | `PendingDrains`, **violated** | a kill inside a record makes later ones unreadable | 3 messages |
| `sending_safe` | `FloodAccounts`, `RateBounded`, `MuteAccounts`, `RedirectedOnce`, `EncodeRoundTrip` (library); `ProtocolInStep`, `AcksInOrder`, `AckedWasProcessed`, `FirstsInOrder`, `QueueIsUnacked` (transport) | the library keeps account of every message; two daemons sharing one slot, with connections lost, time-outs and restarts | 8 messages in 7 s with limits of 2 and 3; 8 muted calls; 3 texts, 2 messages, 2 switches; texts of up to 4 characters; 2 messages for each daemon, 2 faults |
| `delivery_live` | `AllAcknowledged`; `NoLostWakeUp`, `ImplementsBoundedQueue` (ptFIFO); `LinesInOrder`; `ImplementsQueue`, `PendingDrains` (FIFO) | everything is acknowledged in the end; the structures below do what the transport takes for granted | 1 daemon, 3 messages, 2 faults; ring of 2, 3 threads; 6 bytes in chunks of 3 up to 7; tables of 2, 5 messages, 2 ends |
| `client_flush` | `WillReconnect`, **violated** | a flush that fails never ends | 2 threads, 5 calls |
| `dispatch_store` | `TransactionCounted`, `RowsInOrder`, `StoredOnce`, `QueueDrains`, `TransactionEnds` (database); `StreamUnbroken`, `BrowserDrains` (browsers); `WindowsTile`, `HistoryKept` (statistics); `ListsAgree`, `StaysConnected` (infoBrowser); `AlertsEnd` (alert monitor) | what each engine stores, sends and counts; what the programs behind one of them make of a stream that breaks | 1 engine, queue of 2, 3 messages of 1 or 2 lines, 2 faults; 1 place, 2 peers, 3 messages; 3 s, 2 messages; 3 clicks, 1 of them nested, 2 broken connections; 1 alarm, 3 matches, rounds up to 2 late, 3 breaks |
| `dispatch_rollback` | `SuccessIsKept`, **violated** | disconnecting to retry a message loses the ones before it | 2 engines, queues of 2, 2 messages |
| `daemon_lines` | `MessageIsLine`, **violated** | a read that begins with an end of line glues two lines | 2 clients, 4 bytes |
| `library_rate` | `DocumentedRate`, **violated** | a flood that begins after a quiet minute ends at once, and more than the limit goes out in one second | 8 messages in 3 s with limits of 2 and 4 |
| `alert_late` | `AlertsReported`, **violated** | an alarm that times out while the loop is held up is never reported | 1 alarm, 2 matches, rounds up to 2 late |
| `browser_busy` | `OneEditor`, **violated** | a click inside `update` leaves the socket open with the busy flag clear | 4 clicks, 1 message |

Why the bounds are enough: a table of 2 fills, overflows to the file and is
read back with 5 messages; 2 and 3 ends let a start-up be cut and the next one
recover, then run on renumbered items, or leave two records cut short in one file. One slot shared by two daemons is the
smallest table in which an acknowledgement can meet another client's
connection; a third link lets a connection wait in the backlog. A buffer of 2
and 5 calls overflow the client's buffer and go on afterwards.

A ring of 2 is empty, full and wraps within 3 writes; two writers and a reader
are the fewest threads among which a signal could wake the wrong one. Chunks of
3 up to 7 make `lineBuffer` grow twice and then refuse, with lines before, across
and after each limit.

Engines share nothing but the main thread, so one engine shows what holds of
each; a queue of 2 and 3 messages fill it and make the main thread give up; 2
faults let a transaction fail, and a retry fail again. One place for two peers
makes a place be used again; room for one record makes the second one wait.
Three seconds hold three windows, of which one is kept.

Three clients for two places in `DaemonRx` make one wait for, or be refused for,
another, and let one be removed before another in the list; 3 bytes in lines of
2 cut a line at each of its bytes and begin a second one.

Seven seconds with minutes of 2 let a flood begin, fill its file, end and begin
again; a minute with no message, at the start or between two messages, lets the
protection give way. Eight muted calls pass the limit, wait out an interval and pass it again.
Three clicks, one of them inside an `update` of another, and timers and messages
besides, let a handler of the browser run inside each other one; a connection
that breaks twice shows what a timer left behind by the first attempt does. A round
of the alert monitor is due after 2, and an alarm lasts 4: rounds that are up to 2
late make an alarm expire before its first round. Alarms do not touch each other,
so one shows what holds of each.

Every property of a passing run has a mutant (see `PROJECT.json`): an operator
defined just before the one it changes, as a plausible bug would, under which
the property fails. The mutants are not used by the specifications.

## 5. Fairness

* `PermFIFO`: `WF(Read)`, `WF(Ack)`, `WF(Start)`: the transport client's loop
  reads and acknowledges; a daemon that is down is started again. Nothing
  forces writes, flushes or ends.
* `Transport`: each thread runs its loop. `WF` of a client's step as a whole;
  of accept, push, read and the acknowledgements of the server's thread, whose
  `select` returns for each ready socket; of the two steps of the main thread.
  Faults and new messages are not fair. A try of `SendAcks` that fails
  changes nothing and does not count: weak fairness of `SendAcks` assumes that an
  acknowledgement sent again and again is taken in the end, or that its
  connection breaks.
* `InfoLoggerClient`: callers inside `send()`, the thread and the destructor
  run. `SF(Reconnect)`: the thread tries the mutex again and again with
  `try_lock`, and the mutex is free again and again; that some try succeeds is
  an assumption about the scheduler, and about the daemon being there.
* `DispatchSQL`: `WF(Push)`, `WF(GiveUp)`, `WF(EngineStep)`: the threads run, and
  the database is there when an engine connects. `SF(Commit)`: `Loop` and
  `Commit` exclude each other by the timer alone, which is not stopped while the
  engine goes round its loop, so it has expired in some round. The number of
  messages is bounded, and `QueueDrains` says that the queue empties: that the engine does go round its loop under a load
  without pause is not shown, and not so in the code (a hazard).
* `DispatchBrowser`: `WF(BrowserStep)`: the engine's thread runs; `select` returns
  after 3 s at most. The peers are not fair: none has to read.
* `DaemonRx`: `WF(Daemon)`: the daemon runs `doLoop` again and again. The clients
  are not fair.
* `InfoBrowser`: `WF(Procedure)`, `WF(EventLoop)`: a procedure goes on when the
  event loop it started has nothing more to do, and the event loop serves its
  timers and sockets. Clicks, messages and broken connections are bounded and
  not fair.
* `AlertMonitor`: `WF` of the loop's round, of time, and of the two handlers of
  the connection: a call that holds up the thread ends.

The specifications of the modules `MC...` state the fairness of the part that runs.
That of `MCDispatch` leaves out what its properties do not need: of the server's main
thread, and of the alert monitor's connection.

## 6. Proofs

`PermFIFOProofs` proves, for every capacity `Size`, every bound and every set of
kill points:

| theorem | states |
|---|---|
| `TypeCorrect` | `Spec => []TypeOK` |
| `NumbersCorrect` | `Spec => []NumbersInOrder` |
| `NothingIsSkipped` | `Spec => NothingSkipped`, an action property |
| `InvariantHolds` | `Spec => []IInv`, the inductive invariant |

Assumptions: `SizeAssumption`, `BoundAssumption`, `KillsAssumption`, evaluated by
TLC in every PermFIFO run. `IInv` is `TypeOK` and `NumbersInOrder`, which speaks of
the records up to the first torn one, `Sound(recs)`: kills that cut records short may
leave a file in which the numbers behind that record are used twice (section 3), but
`LegibleInRange` says that no reader gets behind it, and `SoundIsPrefix` and
`SoundConsecutive` that what it gets before it is numbered as in a whole file.
Neither part alone is inductive: what `permFIFO_read` takes from the file depends on
`lastOutOffset` being behind `lastIdOut`, what `permFIFO_ack` throws away
depends on `lastIdOnDisk` being the number of the last record, and that depends
on the numbers in each table and file following each other, across the
renumbering done by the start-up; `TablesNumbered` says all this of an open
FIFO and `FilesNumbered` carries it through the start-up. Numbers given after a start
are above those of `Sound(recs)`, which is why what is read stays in order. The module begins
with lemmas on sequences of consecutively numbered items (appending,
concatenating, taking a part) and on `After` and `Loaded`; then one lemma for
each action says that it preserves `IInv`; for the reads the same lemma also
says that nothing is skipped, from which `NothingIsSkipped` follows.

`DurableQueueProofs` goes on from `IInv`:

| theorem | states |
|---|---|
| `AcknowledgedIsGone` | `Spec => []AckedNeverAgain`, for every set of kill points |
| `FIFOIsDurableQueue` | `Spec => ImplementsQueue`, the refinement, if `Kills` has neither `"torn"` nor `"ack"` |

Numbers say nothing of messages, and the start-up gives new numbers: `HistoryInv`
follows the messages themselves. In the file and the tables a message has one
number (`OneId`); nothing that the next start can read, or that is in memory,
was acknowledged (`Fresh`); what the consumer holds is above the last number
acknowledged in the file (`Above`); and `HistoryStart` says what is in which
file at each step of the start-up. It holds wherever a kill falls: a torn record
has no message, and a file emptied before its header is written only forgets.

For the refinement `QueueInv` adds that no record is torn (`Whole`), that the
copy made by the start-up has the messages that are left, and, while the FIFO is
open, that what the consumer took is the beginning of what is left, that its
table is what follows, and that what is left above `lastIdOut` is exactly what it
did not take (`Lined`). `Pend` is the concatenation of what is left in the file
and of `table_disk`; its numbers are consecutive, and `SameItems` says that such a
list is known by its items, so that a write, a save or an acknowledgement is an
argument about sets (`InAfter`, `Stored`, `TailItems`). `LinedTaken` covers the
three places that `permFIFO_read` takes an item from, `StopQueue` the stops that
leave a beginning of `table_disk` in the file, and `StartQueue` shows that every
step of the start-up leaves the abstract queue alone. The hypothesis on `Kills` is
not a convenience: a torn record is an item that was never written, and a kill
inside `permFIFO_ack` loses messages whose acknowledgement has not returned, so
with either of them TLC refutes the refinement; `permfifo_torn` and
`permfifo_stale` show what it costs. `delivery_live` checks the refinement with the
other three kill points.

`BufferProofs` proves, for every `size` and any sets of threads and items, for any
chunk, block and number of bytes, and for any characters, texts and size of the
buffer they are encoded in:

| theorem | states |
|---|---|
| `FIFOInvHolds` | `FIFOSpec => []FIFOInv`, the inductive invariant |
| `FIFOTypeCorrect` | `FIFOSpec => []FIFOTypeOK` |
| `WakeUpsCorrect` | `FIFOSpec => []NoLostWakeUp` |
| `RingIsBoundedQueue` | `FIFOSpec => ImplementsBoundedQueue`, the refinement |
| `LinesAreTheBytes` | `LineBufferSpec => []LinesInOrder` |
| `EncodingHolds` | `MessageSpec => []EncodeRoundTrip` |

Assumptions: `FIFOAssumption`, `LineBufferAssumption`, evaluated in `delivery_live`,
and `MessageAssumption`, evaluated in `sending_safe`. `FIFOInv` is
`FIFOTypeOK`, `NoLostWakeUp` and `ItemsHeld`, which says that a writer inside a
call still has its item: without it what is written could be NULL. A thread goes
to sleep only when it cannot be served, and whoever changes the ring wakes all
sleepers, so `NoLostWakeUp` is inductive with the types. For the refinement,
`Contents(s, e, d)` names what a ring `d` holds between two positions; `Wrap`,
`UsedInRange` and `PlaceInRange` do away with the modulo, `TakeIsTail` and
`AddIsAppend` say that a read takes the head of `Contents` and a write appends
to it, and `QueueStep` takes each step of a call to one of `BoundedQueue` or to
none.

`LineInv` of the line buffer is `LinesInOrder` with types and the fact that the
text of the lines is a sequence of bytes. `LineBufferAssumption` asks for chunks of
at least 2 bytes, since one byte is kept for the NUL and a read needs another; the
code's constant is larger. `TextOf` is a recursive function; `TextOfAppend`, by
induction on the number of lines, says what one more line adds to it.
`StartAndMore` is a read behind the data, `EndOfLineIs` says that `strchr` does not
pass the NUL, and `TakingKeeps` that a line and the rest, in the same block or a
new one, are the data there were.

For the text of a message, `SplitMore` says that one more character is gathered in
the parts there were; from it follow, by induction on the number of characters, that
a text without a separator goes to the last part (`SplitLine`) and that what follows
changes only the last one (`SplitPrefix`). Two texts written by `mysprintf` one after
the other are both written at once, also when the buffer is full (`WriteTwice`), and
cleaning what was written is writing the cleaned text (`CleanWrite`). So a round of
`infoLog_msg_encode`, which writes the rest of the text, cuts it to its first line,
cleans it and forgets the overflow behind it, writes `RecordOf(header, line)` as far
as it fits (`LastFieldIs`, `RecordIs`), and `DecodeIs` gives back the two fields.
`MessageInv` says that while records are written the buffer has whole ones only, for
the lines up to `sol` (`Underway`), and what it has at the end (`Finished`): those
records, and one more that is complete (`OneMore`), or cut with the mark, or taken
back in favour of a mark in the record before it (`WithMark`).

`TransportProofs` proves, for any sets of daemons, links and slots, any queue
size and any numbers of messages and faults:

| theorem | states |
|---|---|
| `TransportInvariant` | `Spec => []TransportInv`, the inductive invariant |
| `QueueHoldsUnacked` | `Spec => []QueueIsUnacked` |
| `ServerInStep` | `Spec => []ProtocolInStep` |
| `AcksGrow` | `Spec => []AcksInOrder` |
| `ForgetsOnlyDispatched` | `Spec => []AckedWasProcessed` |
| `DispatchedInOrder` | `Spec => []FirstsInOrder` |

Assumption: `TransportAssumption`, evaluated in `sending_safe`. `TransportInv`
has seven parts, and each is needed by the next:

* `TransportTypeOK`, and `ClientQueues`: a client's queue against its FIFO.
* `Ends`: who holds the ends of a connection, at most one client and either the
  backlog or one slot; a `cx_id` that was given out is below `cx_counter`.
  Without it an acknowledgement could reach a connection that took over the slot.
* `Lines`: what a connection carries is a chain of `INI`, `File`, `END`, from what
  its slot expects to what its client sends next, wherever it was cut.
* `Files`: the files of a connection, those pushed to the output queue and the
  one in the main thread's hand have growing numbers and all belong to one run
  of one daemon, as long as the `cx_id` of the entry is that of the slot.
* `Order`: all messages before one that is queued are dispatched or queued
  before it; all messages before one on its way, or up to the last that a client
  has sent, are dispatched, queued, or on the same connection.
* `Acks`: what is acknowledged, on the wire or in a slot, was dispatched.

Nothing less is inductive: that a daemon forgets only what was dispatched depends
on the number in an ACK being of the present run of the daemon, so on `Files`,
which depends on `Ends` when a slot is used again. Actions differ a lot but change
the state in few ways, so the proof goes through step predicates, each with the
lemmas that it preserves one part: a connection is cut (`Cut`), a client leaves,
moves forward or sends (`ClientGoes`, `ClientAdvances`, `ClientSends`), connects
(`ConnectsTo`), is accepted (`AcceptsIn`), a slot reads, acknowledges or pushes
(`SlotReads`, `SlotAcks`, `SlotPushes`), the main thread takes a file
(`FileTaken`). One lemma for each action says which of these steps it takes.

`DispatchSQLProofs` proves, for any set of engines, queue sizes, messages, lines
and faults:

| theorem | states |
|---|---|
| `DispatchInvariant` | `Spec => []SqlInv`, the inductive invariant |
| `CountIsRight` | `Spec => []TransactionCounted` |
| `StoresInOrder` | `Spec => []RowsInOrder` |
| `StoresOnce` | `Spec => []StoredOnce` |

Assumption: `DispatchAssumption`, evaluated in `dispatch_store`. `SqlInv` says that
the queues are in the order of arrival (`QueueInOrder`), what an engine knows of
its session, whose rows are gone when it has no transaction (`SessionFollowed`),
that rows are not after what is in the queue (`RowsBehind`), and, for
`StoredOnce`, that as long as transactions are on a message still in the queue has
no row stored for good and in the open transaction only the lines before the one
to be inserted (`RowsOnce`): this is what makes a rollback and a retry harmless.

`HostProofs` proves, for any set of callers, any buffer size, any number of closes,
and whether or not the daemon may close during a flush:

| theorem | states |
|---|---|
| `ClientInvariant` | `Spec => []ClientInv`, the inductive invariant |
| `NoThreadLeft` | `Spec => []OneThread` |
| `SendsInOrder` | `Spec => []SentInOrder` |

Assumption: `ClientAssumption`, evaluated in `host_kill`. `ClientInv` says who
holds the mutex and what it found (`CallerInv`), that the thread has the mutex
exactly while it flushes and that nothing stays buffered behind a socket that
callers use (`ThreadInv`), and that numbers received, on the way and buffered are
ordered, all below that of the caller inside (`OrderInv`, `CallsInv`). The
violated `client_flush` is about progress: order and threads are right even then.

It proves of the reception by `infoLoggerD`, for any set of clients, any limit on
connections, any length of lines and any number of bytes:

| theorem | states |
|---|---|
| `PollsRight` | `RxSpec => []PollsItsOwn` |
| `BytesPassedOn` | `RxSpec => []BytesInOrder` |

Assumption: `ReceptionAssumption`, evaluated in `host_kill`. `RxInv` says that the
list has a client once at most, each accepted and open when the loop begins (`Once`,
`EntryOK`, `AllOpen`), that those waiting are waiting once (`Waiting`) and have not
been read (`NotYetRead`), what a poll structure in use has (`Pollable`), and that
messages and buffer have the text of what was read (`Passed`). The last is kept by
a read because it is kept by every byte of its scan (`ScanOK`, by induction on the
bytes): what was passed on, the buffer and the bytes not pushed yet have the text
of all bytes so far. `PushedAll` is why nothing is forgotten when the read ends: a
byte left unpushed is an end of line. The same invariant explains `daemon_lines`:
text is never lost, but such an end of line does not end its message.

It proves of the library, for any limits, any interval, any number of calls and any
times of them:

| theorem | states |
|---|---|
| `RateHolds` | `APISpec => []RateBounded` |
| `AccountsHold` | `APISpec => []FloodAccounts` |
| `MuteHolds` | `MuteSpec => []MuteAccounts` |
| `RedirectionHolds` | `RedirectSpec => []RedirectedOnce` |

Assumptions: `FloodAssumption`, `MuteAssumption` and `RedirectAssumption`, evaluated in
`sending_safe`.
`RateInv` has what each past second sent (`Past`) and what the second that is now can
have sent so far: no more than the counter of the second says (`Window`), unless a
flood has ended in it (`EndedAt`). The end of a flood clears the counters and sends the
message (`ResumesRate`), so that a second in which one ends may send the limit twice
and one more message; the documentation does not know of this second case, which is
the finding `library_rate`. The theorem says that it is the only one.
`AccountsInv` relates the counters to the log: the flood under way began with one
event of the log and has not ended (`Open`), the file's counters are the numbers of
messages stored and dropped since then (`InStep`), without a flood none is open
(`NoneOpen`), and every event logged so far is accounted for (`Accounted`), which later
events do not change. `MuteInv` relates the fields of the token to the log in the
same way: what is logged since the last report, what is discarded since it and since
the phase began, each as far as the field says it (a field that was never written
is `Unset`). `RedirectInv` says of the texts on the terminal, in the thread's buffer
and in the pipe that they follow each other in order with each letter once (`Kept`, of
which `Later` says what may come after what), and `Switched` says where a text can be
at each point of `setStandardRedirection`: the pipe is empty when there is no
redirection, the buffer has something only while the thread reads, and as long as the
thread runs messages are written to the descriptor that was saved, so that none of
them goes round.

`OnlineProofs` proves, for any set of peers, places, room in a connection, queue
size and kinds of messages, for any intervals, and for any number of lines, clicks,
messages and breaks of the browser:

| theorem | states |
|---|---|
| `BrowserStreams` | `BrowserSpec => []StreamUnbroken` |
| `StatisticsStream` | `StatsSpec => []StreamUnbroken` |
| `WindowsInStep` | `StatsSpec => []WindowsTile` |
| `HistoryHolds` | `StatsSpec => []HistoryKept` |
| `ListsHold` | `BrowseSpec => []ListsAgree` |

Assumptions: `OnlineAssumption`, `BrowserAssumption` and `StatsAssumption`, evaluated in
`dispatch_store`, as is `BrowseAssumption` (`maxmess` is not 0:
`infoBrowser.tcl:62` sets it to 10000). The first two theorems rest on one
invariant of the code that the engines share, `OnlineInv(S)`, where `S` is a set that has all the records: a peer has one
place of the table at most (`OneEntry`), it was accepted once and had nothing
before (`AcceptedOnce`), and what it got is, as long as it is in the table, all
that was offered since it was accepted, the record being written only if its place
was served in this round, and a beginning of that once it has left (`Streamed`). A
connection that gets only part of a record is closed in the same step: this is
what leaves the stream of the others unbroken. `TileInv` says that the last window
began at the last reset and that windows follow each other. A window is forgotten
because it is old, the old ones are the first ones, and so what is left
(`ErasedFirst`) has neither gap nor overlap. `HistoryInv` divides the last messages
counted among the windows: there are places in their sequence at which the windows
begin (`Firsts`), and each window has what the messages between its place and the next
one count for (`Holds`). A reset closes the last window and forgets the first ones,
which are old (`DividesClosed`, `DividesLeft`); one more message is in the last one
(`DividesMore`). `HistoryKept` computes the places with a recursive function, shown by
induction on the windows to give those of `HistoryInv`.

`ListsAgree` speaks of the browser at rest, and so its invariant, `BrowseInv`, has to
say what each procedure that `update` interrupted will still do to the lists.
Without a connection one procedure at most is under way (`Alone`). Online they nest
(`Nests`): that which connects, reads or has met the end of the stream is the innermost
one, and reads while no other can; and there is one connection, one timer, or one
procedure that will see to it (`Connected`). So the lists are short only by what the
innermost procedure still has to assign (`Pending`, `Lists`). The property does not
speak of what follows a click inside an `update`, after which two procedures can edit
the lists (the finding `browser_busy`), and neither does the invariant.

`OrderedSequences` has what these modules share: the lemmas on increasing sequences
of numbers, those on the loop of `Erasing`, and `InductionOnNat`, induction on
numbers. It is stated with a set in place of a predicate and follows from every
set of numbers having a least element; with it, what a recursive function inside a
definition computes can be proved.

Only model-checked: the alerts (`AlertMonitor`), whose properties are one that the code
violates and one of progress. The history of messages (`MessageHistory`) is modelled
with `pushMessage` and has no property. All liveness properties rest on fairness, which is
beyond the prover, and stay with TLC: `AllAcknowledged`, `PendingDrains`, `CallsReturn`,
`WillReconnect`, `StaysConnected`, `AlertsEnd`, `QueueDrains`, `TransactionEnds`,
`BrowserDrains`, `ConnectAnswered` and `WritesRead`.

## 7. Findings

* `permfifo_stale`, `permfifo_torn`: kills inside `permFIFO_ack` and `ct_save`
  leave a file that the next start accepts and the reader does not get past. After two
  kills inside a record, with nothing acknowledged, the start-up also writes the number of
  the first torn record to the header, and the next message gets a number that the file
  has already: `NumbersInOrder` bounds this to the part that nobody can read.
* `client_flush`: the flush loop of `InfoLoggerClient::reconnect` does not leave
  when the socket fails.
* `dispatch_rollback`: `InfoLoggerDispatchSQL` disconnects to retry one message,
  and so rolls back rows of messages it has reported as stored.
* `daemon_lines`: an end of line that begins a read does not end the line.
* `library_rate`: the protection against floods looks at the rate of the last full minute
  also for the message that begins a flood; after a quiet minute the flood ends at once
  and the limit of the second starts again, where `doc/README.md:283` says that further
  messages go to a file.
* `alert_late`: the alert monitor clears an alarm that has timed out before it looks
  whether it was reported.
* `browser_busy`: leaving the online mode of infoBrowser while it connects
  leaves the connection open and the busy flag clear.

Beside these, the text of `pushMessage` alone shows that with `rotate` the history drops
its oldest message when there is room and none when there is not (`InfoLogger.cxx:842`,
against `include/InfoLogger/InfoLogger.hxx:407`), and that `historyGetSummary` empties the
history, although `InfoLogger.hxx:413` says that the buffer is not cleared;
`MessageHistory` models what the code does.

## 8. Not modelled

* The proxy: `transport_client.c:436-480` starts it on an answer `BE_PROXY` or
  `USE_PROXY`, which no server in the repository sends. The spool cache:
  `transport_cache.c` is in no target of the build.
* File mode and UDP in the transport; its statistics and delays.
* Failing writes to the FIFO's file (a full disk), its variant without a file,
  the option to reset it; numbers wider than an int.
* `accept` and `read` that fail, and limits on descriptors, in infoLoggerD;
  start-up and configuration of the daemons.
* In the library: filters on levels, other output modes, metrics, formatting.
  In infoBrowser: display, filters, SQL, archives. In the alert monitor: its
  rules and outputs.
* The components that only read input, format or display, wrappers (most of
  them generated), and the administration of the database, one SQL command for
  each invocation (`PROJECT.json`, status `not_modelled`).
