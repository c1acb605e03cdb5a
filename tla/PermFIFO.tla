------------------------------ MODULE PermFIFO ------------------------------
(***************************************************************************)
(* The permanent FIFO of infoLoggerD (permanentFIFO.c): a queue held in    *)
(* two memory tables and one file, so that messages survive a restart of   *)
(* the daemon until the consumer (the transport client) acknowledges them. *)
(*                                                                         *)
(*   table_client  items that the consumer will read next                  *)
(*   table_disk    items not yet appended to the file                      *)
(*   file          header [lastAckId, currentId] and a list of records     *)
(*                                                                         *)
(* Every public function runs under the FIFO mutex, so it is one action.   *)
(* A kill of the process may fall between two functions or inside the two  *)
(* that write the file in several system calls; which of them an instance  *)
(* explores is the constant Kills.  The start-up (permFIFO_file_clean) is  *)
(* one action per change of the directory, with a kill possible after each *)
(* of them.                                                                *)
(*                                                                         *)
(* A message is the number of its permFIFO_write call.  Records are taken  *)
(* to be whole, or torn: sub-header written, data not.  The length of the  *)
(* data is left open, so that what a torn record's missing data would span *)
(* may end beyond the file or between two records; that it ends exactly    *)
(* where a later record begins is left out.                                *)
(***************************************************************************)
EXTENDS Integers, Sequences

CONSTANTS
  Size,      \* capacity of each memory table (permFIFO_new's size)
  MaxMsg,    \* bound: number of messages ever written
  MaxEnds,   \* bound: number of times the process ends, killed or not
  Kills      \* where a kill may fall: see KillPoints

KillPoints == {"idle", "clean", "save", "torn", "ack"}

ASSUME SizeAssumption  == Size \in Nat \ {0}
ASSUME BoundAssumption == MaxMsg \in Nat /\ MaxEnds \in Nat
ASSUME KillsAssumption == Kills \subseteq KillPoints

VARIABLES
  mode,                 \* "up", "down" or a step of permFIFO_file_clean
  file, fileOld, fileNew, \* path.fifo, path.fifo.old, path.fifo.new
  table_client, table_disk,
  currentId, lastIdOut, lastOutOffset, nextIdInClientTable,
  lastIdOnDisk, ackOnDisk,
  taken,                \* items read by the consumer, not yet acknowledged
  written,              \* number of messages accepted since the beginning
  acked,                \* messages whose acknowledgement has returned
  ends

fileVars   == <<file, fileOld, fileNew>>
memVars    == <<table_client, table_disk, currentId, lastIdOut, lastOutOffset,
                nextIdInClientTable, lastIdOnDisk, ackOnDisk, taken>>
historyVars == <<written, acked, ends>>
vars == <<mode, fileVars, memVars, historyVars>>

-----------------------------------------------------------------------------
(* Items and files.  A torn record, and the garbage read from one, has the *)
(* message Torn.                                                           *)

Torn == 0
Message == 1 .. MaxMsg
Item == [id : Nat \ {0}, msg : Message \union {Torn}]

FileOf(lastAckId, current, recs) ==
  [kind |-> "fifo", lastAckId |-> lastAckId, currentId |-> current,
   recs |-> recs]
NoFile    == [FileOf(0, 0, <<>>) EXCEPT !.kind = "none"]
EmptyFile == [FileOf(0, 0, <<>>) EXCEPT !.kind = "empty"]  \* not even a header
NewFile   == FileOf(0, 0, <<>>)
File == [kind : {"none", "empty", "fifo"}, lastAckId : Nat, currentId : Nat,
         recs : Seq(Item)]

Last(s) == s[Len(s)]

(* What is left of s when the leading items up to number id are dropped.   *)
After(s, id) ==
  IF \E i \in 1 .. Len(s) : s[i].id > id
  THEN LET first == CHOOSE i \in 1 .. Len(s) :
                      /\ s[i].id > id
                      /\ \A j \in 1 .. i - 1 : s[j].id <= id
       IN  SubSeq(s, first, Len(s))
  ELSE <<>>

HasTorn(recs) == \E i \in 1 .. Len(recs) : recs[i].msg = Torn

FirstTorn(recs) == CHOOSE i \in 1 .. Len(recs) :
                     /\ recs[i].msg = Torn
                     /\ \A j \in 1 .. i - 1 : recs[j].msg # Torn

(* The records up to the first torn one, included: those whose sub-header  *)
(* a sequential reader finds.                                              *)
Sound(recs) == IF HasTorn(recs) THEN SubSeq(recs, 1, FirstTorn(recs)) ELSE recs

(* How many records ct_load may get: all, or up to the first torn one.     *)
(* That one has too little data behind it, which is an error; or it is     *)
(* read with the bytes of later records as its data, and what comes next   *)
(* is out of step (no tag).                                                *)
Legible(recs) ==
  IF HasTorn(recs)
  THEN {n \in {FirstTorn(recs) - 1, FirstTorn(recs)} : n < Len(recs)}
  ELSE {Len(recs)}

(* The items ct_load puts in an empty table of Size entries: the first     *)
(* ones of n legible records, from an offset, with a number above id.      *)
Loaded(recs, n, offset, id) ==
  LET rest == After(SubSeq(recs, offset + 1, n), id)
  IN  SubSeq(rest, 1, IF Len(rest) < Size THEN Len(rest) ELSE Size)

-----------------------------------------------------------------------------
(* The memory of a permFIFO just opened on a file with that currentId, and *)
(* (with 0) of one that is not open.                                       *)
Memory(c) ==
  /\ table_client' = <<>> /\ table_disk' = <<>> /\ taken' = <<>>
  /\ currentId' = c /\ lastIdOnDisk' = c /\ ackOnDisk' = (c # 0)
  /\ lastIdOut' = 0 /\ lastOutOffset' = 0 /\ nextIdInClientTable' = 1

Init ==
  /\ mode = "down"
  /\ file = NoFile /\ fileOld = NoFile /\ fileNew = NoFile
  /\ table_client = <<>> /\ table_disk = <<>> /\ taken = <<>>
  /\ currentId = 0 /\ lastIdOnDisk = 0 /\ ackOnDisk = FALSE
  /\ lastIdOut = 0 /\ lastOutOffset = 0 /\ nextIdInClientTable = 1
  /\ written = 0 /\ acked = {} /\ ends = 0

-----------------------------------------------------------------------------
(* permFIFO_save_tabledisk: append the whole table to the file.            *)
(* Mutant: lastIdOnDisk is not updated.                                    *)
SaveTableDiskKeepsId ==
  IF table_disk = <<>>
  THEN UNCHANGED <<file, lastIdOnDisk, ackOnDisk>>
  ELSE /\ file' = [file EXCEPT !.recs = @ \o table_disk]
       /\ UNCHANGED lastIdOnDisk
       /\ ackOnDisk' = TRUE

SaveTableDisk ==
  IF table_disk = <<>>
  THEN UNCHANGED <<file, lastIdOnDisk, ackOnDisk>>
  ELSE /\ file' = [file EXCEPT !.recs = @ \o table_disk]
       /\ lastIdOnDisk' = Last(table_disk).id
       /\ ackOnDisk' = TRUE

(* permFIFO_write.  The item goes to the consumer's table when it is the   *)
(* next one expected there, and always to table_disk, which is saved first *)
(* when either table is full.                                              *)
Write ==
  LET item == [id |-> currentId + 1, msg |-> written + 1]
      expected == item.id = nextIdInClientTable
      clientFull == Len(table_client) = Size
  IN
  /\ mode = "up"
  /\ written < MaxMsg
  /\ written' = written + 1
  /\ currentId' = item.id
  /\ \/ /\ expected /\ ~clientFull
        /\ table_client' = Append(table_client, item)
        /\ nextIdInClientTable' = nextIdInClientTable + 1
     \/ /\ expected /\ clientFull
        /\ nextIdInClientTable' = 0
        /\ UNCHANGED table_client
     \/ /\ ~expected
        /\ UNCHANGED <<table_client, nextIdInClientTable>>
  /\ IF (expected /\ clientFull) \/ Len(table_disk) = Size
     THEN /\ SaveTableDisk
          /\ table_disk' = <<item>>
     ELSE /\ table_disk' = Append(table_disk, item)
          /\ UNCHANGED <<file, lastIdOnDisk, ackOnDisk>>
  /\ UNCHANGED <<mode, fileOld, fileNew, lastIdOut, lastOutOffset, taken,
                 acked, ends>>

(* permFIFO_read with no timeout, as the transport client calls it.        *)
HandOut(item) ==
  /\ lastIdOut' = item.id
  /\ taken' = Append(taken, item)

ReadUnchanged ==
  UNCHANGED <<mode, fileVars, table_disk, currentId, lastIdOnDisk, ackOnDisk,
              historyVars>>

CanRead == mode = "up" /\ lastIdOut < currentId

ReadClientTable ==
  /\ CanRead
  /\ table_client # <<>>
  /\ HandOut(Head(table_client))
  /\ table_client' = Tail(table_client)
  /\ UNCHANGED <<lastOutOffset, nextIdInClientTable>>
  /\ ReadUnchanged

(* What the consumer needs next is still in memory: the first item is      *)
(* returned, the others (their numbers follow) go to its table.            *)
(* Mutant: the first later item is taken, whatever is missing before it.   *)
InDiskTableAny == After(table_disk, lastIdOut) # <<>>

InDiskTable ==
  LET rest == After(table_disk, lastIdOut)
  IN  rest # <<>> /\ Head(rest).id = lastIdOut + 1

ReadDiskTable ==
  LET rest == After(table_disk, lastIdOut)
  IN
  /\ CanRead
  /\ table_client = <<>>
  /\ InDiskTable
  /\ HandOut(Head(rest))
  /\ table_client' = Tail(rest)
  /\ nextIdInClientTable' = Last(rest).id + 1
  /\ UNCHANGED lastOutOffset
  /\ ReadUnchanged

(* Otherwise the file is read.  The position is kept only when ct_load     *)
(* meets a clean end of file; when it loads nothing the call fails.        *)
ReadFile ==
  /\ CanRead
  /\ table_client = <<>>
  /\ ~InDiskTable
  /\ \E n \in Legible(file.recs) :
       LET items == Loaded(file.recs, n, lastOutOffset, lastIdOut)
       IN
       /\ lastOutOffset' = IF Len(items) < Size /\ ~HasTorn(file.recs)
                           THEN Len(file.recs) ELSE lastOutOffset
       /\ \/ /\ items # <<>>
             /\ HandOut(Head(items))
             /\ table_client' = Tail(items)
             /\ nextIdInClientTable' = Last(items).id + 1
          \/ /\ items = <<>>
             /\ UNCHANGED <<lastIdOut, taken, table_client, nextIdInClientTable>>
  /\ ReadUnchanged

Read == ReadClientTable \/ ReadDiskTable \/ ReadFile

(* permFIFO_ack: the consumer acknowledges what it read one by one and in  *)
(* order.  When nothing unacknowledged is left in the file it is emptied;  *)
(* the header is then written over.                                        *)
Ack ==
  LET id == Head(taken).id
      drop == lastIdOnDisk <= id
  IN
  /\ mode = "up"
  /\ taken # <<>>
  /\ taken' = Tail(taken)
  /\ acked' = acked \union {Head(taken).msg}
  /\ table_disk' = After(table_disk, id)
  /\ IF ackOnDisk
     THEN /\ file' = FileOf(id, lastIdOnDisk, IF drop THEN <<>> ELSE file.recs)
          /\ lastOutOffset' = IF drop THEN 0 ELSE lastOutOffset
          /\ ackOnDisk' = ~drop
     ELSE UNCHANGED <<file, lastOutOffset, ackOnDisk>>
  /\ UNCHANGED <<mode, fileOld, fileNew, table_client, currentId, lastIdOut,
                 nextIdInClientTable, lastIdOnDisk, written, ends>>

(* permFIFO_flush, its delay elapsed: called by the transport client while *)
(* it is not connected.                                                    *)
Flush ==
  /\ mode = "up"
  /\ table_disk # <<>>
  /\ SaveTableDisk
  /\ table_disk' = <<>>
  /\ UNCHANGED <<mode, fileOld, fileNew, table_client, currentId, lastIdOut,
                 lastOutOffset, nextIdInClientTable, taken, historyVars>>

(* permFIFO_destroy *)
Destroy ==
  /\ mode = "up"
  /\ ends < MaxEnds
  /\ ends' = ends + 1
  /\ mode' = "down"
  /\ file' = [file EXCEPT !.recs = @ \o table_disk]
  /\ Memory(0)
  /\ UNCHANGED <<fileOld, fileNew, written, acked>>

-----------------------------------------------------------------------------
(* permFIFO_file_clean(path, 0), then permFIFO_new reading the header.     *)

CleanUnchanged == UNCHANGED <<memVars, historyVars>>

(* No file but an old one: a previous clean was cut between its renames.   *)
CleanRecoverOld ==
  /\ mode = "down" /\ file.kind = "none" /\ fileOld.kind # "none"
  /\ file' = fileOld /\ fileOld' = NoFile
  /\ UNCHANGED <<mode, fileNew>>
  /\ CleanUnchanged

(* Mutant: a missing file is created even when there is an old one.        *)
CleanCreateAnyway ==
  /\ mode = "down" /\ file.kind = "none"
  /\ mode' = "created" /\ file' = EmptyFile
  /\ UNCHANGED <<fileOld, fileNew>>
  /\ CleanUnchanged

CleanCreate ==
  /\ mode = "down" /\ file.kind = "none" /\ fileOld.kind = "none"
  /\ mode' = "created" /\ file' = EmptyFile
  /\ UNCHANGED <<fileOld, fileNew>>
  /\ CleanUnchanged

CleanCreateHeader ==
  /\ mode = "created"
  /\ mode' = "cleaned" /\ file' = NewFile
  /\ UNCHANGED <<fileOld, fileNew>>
  /\ CleanUnchanged

CleanRemoveEmpty ==
  /\ mode = "down" /\ file.kind = "empty"
  /\ file' = NoFile /\ fileOld' = NoFile /\ fileNew' = NoFile
  /\ UNCHANGED mode
  /\ CleanUnchanged

(* A file that the clean cannot parse (an error code) is moved aside, with *)
(* all its records, and permFIFO_new starts again from nothing.  While it  *)
(* only skips over the records (nothing acknowledged yet) it does not see  *)
(* that one has no data: it stops with an error only when what it skips    *)
(* ends between two later records.                                         *)
MayFail(f) == /\ HasTorn(f.recs)
              /\ f.lastAckId # 0 \/ FirstTorn(f.recs) < Len(f.recs)

CleanBackup ==
  /\ mode = "down" /\ file.kind = "fifo" /\ MayFail(file)
  /\ file' = NoFile /\ fileOld' = NoFile /\ fileNew' = NoFile
  /\ UNCHANGED mode
  /\ CleanUnchanged

(* Nothing was acknowledged: the records keep their numbers, and the last  *)
(* one that is found goes to the header.  It is the first torn one when    *)
(* what it skips there ends beyond the file: the numbers of the records    *)
(* behind it are then given again.  (With no record the header is left as  *)
(* it was.)  Mutant: the header does not get the number.                   *)
CleanScanOnly ==
  /\ mode = "down" /\ file.kind = "fifo" /\ file.lastAckId = 0
  /\ mode' = "cleaned"
  /\ fileOld' = NoFile /\ fileNew' = NoFile
  /\ UNCHANGED file
  /\ CleanUnchanged

CleanScan ==
  /\ mode = "down" /\ file.kind = "fifo" /\ file.lastAckId = 0
  /\ mode' = "cleaned"
  /\ file' = IF file.recs = <<>> THEN file
             ELSE [file EXCEPT !.currentId = Last(Sound(file.recs)).id]
  /\ fileOld' = NoFile /\ fileNew' = NoFile
  /\ CleanUnchanged

(* Otherwise the records after lastAckId are copied to a new file, with    *)
(* numbers from 1.  Mutants: from 0; the acknowledged ones are copied too. *)
RenumberedFromZero(recs) ==
  [i \in 1 .. Len(recs) |-> [recs[i] EXCEPT !.id = i - 1]]
Renumbered(recs) == [i \in 1 .. Len(recs) |-> [recs[i] EXCEPT !.id = i]]

CleanCopyAll ==
  /\ mode = "down" /\ file.kind = "fifo" /\ file.lastAckId # 0
  /\ ~HasTorn(file.recs)
  /\ mode' = "copied"
  /\ fileOld' = NoFile
  /\ fileNew' = FileOf(0, Len(file.recs), Renumbered(file.recs))
  /\ UNCHANGED file
  /\ CleanUnchanged

CleanCopy ==
  /\ mode = "down" /\ file.kind = "fifo" /\ file.lastAckId # 0
  /\ ~HasTorn(file.recs)
  /\ mode' = "copied"
  /\ fileOld' = NoFile
  /\ LET kept == After(file.recs, file.lastAckId)
     IN  fileNew' = FileOf(0, Len(kept), Renumbered(kept))
  /\ UNCHANGED file
  /\ CleanUnchanged

CleanRenameOld ==
  /\ mode = "copied"
  /\ mode' = "renamed"
  /\ fileOld' = file /\ file' = NoFile
  /\ UNCHANGED fileNew
  /\ CleanUnchanged

CleanRenameNew ==
  /\ mode = "renamed"
  /\ mode' = "swapped"
  /\ file' = fileNew /\ fileNew' = NoFile
  /\ UNCHANGED fileOld
  /\ CleanUnchanged

CleanUnlinkOld ==
  /\ mode = "swapped"
  /\ mode' = "cleaned"
  /\ fileOld' = NoFile
  /\ UNCHANGED <<file, fileNew>>
  /\ CleanUnchanged

Open ==
  /\ mode = "cleaned"
  /\ mode' = "up"
  /\ Memory(file.currentId)
  /\ UNCHANGED <<fileVars, historyVars>>

Start ==
  \/ CleanRecoverOld \/ CleanCreate \/ CleanCreateHeader \/ CleanRemoveEmpty
  \/ CleanBackup \/ CleanScan \/ CleanCopy
  \/ CleanRenameOld \/ CleanRenameNew \/ CleanUnlinkOld
  \/ Open

-----------------------------------------------------------------------------
(* The process is killed: what is in memory is gone.                       *)
Killed(where) ==
  /\ where \in Kills
  /\ ends < MaxEnds
  /\ ends' = ends + 1
  /\ mode' = "down"
  /\ Memory(0)
  /\ UNCHANGED <<fileOld, fileNew, written, acked>>

KillIdle  == mode = "up" /\ Killed("idle") /\ UNCHANGED file
KillClean == mode \notin {"up", "down"} /\ Killed("clean") /\ UNCHANGED file

(* ... while ct_save appends table_disk, between two records               *)
KillInSave ==
  /\ mode = "up"
  /\ \E k \in 1 .. Len(table_disk) :
       file' = [file EXCEPT !.recs = @ \o SubSeq(table_disk, 1, k)]
  /\ Killed("save")

(* ... or between the two writes of a record                               *)
KillTorn ==
  /\ mode = "up"
  /\ \E k \in 1 .. Len(table_disk) :
       file' = [file EXCEPT !.recs =
                  @ \o SubSeq(table_disk, 1, k - 1)
                    \o <<[table_disk[k] EXCEPT !.msg = Torn]>>]
  /\ Killed("torn")

(* ... in permFIFO_ack, the file emptied and the header not yet written    *)
KillInAck ==
  /\ mode = "up" /\ taken # <<>>
  /\ ackOnDisk /\ lastIdOnDisk <= Head(taken).id
  /\ file' = [file EXCEPT !.recs = <<>>]
  /\ Killed("ack")

Kill == KillIdle \/ KillClean \/ KillInSave \/ KillTorn \/ KillInAck

-----------------------------------------------------------------------------
Next == Write \/ Read \/ Ack \/ Flush \/ Destroy \/ Start \/ Kill

Spec == Init /\ [][Next]_vars

(* The consumer's loop reads and acknowledges as long as the server is     *)
(* there, and a daemon that is down is started again.  Nothing forces a    *)
(* write, a flush, a stop or a kill.                                       *)
FairSpec ==
  /\ Spec
  /\ WF_vars(Read)
  /\ WF_vars(Ack)
  /\ WF_vars(Start)

-----------------------------------------------------------------------------
(* What the FIFO holds: the unacknowledged records of the file that the    *)
(* next start will use, then table_disk.                                   *)
Recoverable  == IF file.kind = "fifo" THEN file ELSE fileOld
DurableItems == After(Recoverable.recs, Recoverable.lastAckId)
Messages(items) == [i \in 1 .. Len(items) |-> items[i].msg]
Pending == Messages(DurableItems \o table_disk)

TypeOK ==
  /\ mode \in {"up", "down", "created", "copied", "renamed", "swapped", "cleaned"}
  /\ file \in File /\ fileOld \in File /\ fileNew \in File
  /\ table_client \in Seq(Item) /\ table_disk \in Seq(Item)
  /\ taken \in Seq(Item)
  /\ currentId \in Nat /\ lastIdOut \in Nat /\ lastOutOffset \in Nat
  /\ nextIdInClientTable \in Nat /\ lastIdOnDisk \in Nat
  /\ ackOnDisk \in BOOLEAN
  /\ written \in 0 .. MaxMsg /\ ends \in 0 .. MaxEnds
  /\ acked \subseteq Message \union {Torn}

(* The numbers of a list of items follow each other.                       *)
Consecutive(s) == \A i \in 1 .. Len(s) : s[i].id = s[1].id + i - 1

(* The numbers in each file follow each other up to the first torn record, *)
(* and once the start-up has written a header, its currentId is the number *)
(* of the last of these.                                                   *)
HeaderRight(f) == f.recs # <<>> => Last(Sound(f.recs)).id = f.currentId
FilesNumbered ==
  /\ Consecutive(Sound(file.recs)) /\ Consecutive(Sound(fileOld.recs))
  /\ Consecutive(Sound(fileNew.recs))
  /\ mode \in {"copied", "renamed"} => HeaderRight(fileNew)
  /\ mode \in {"swapped", "cleaned"} => HeaderRight(file)

(* While the FIFO is open its tables never exceed their capacity.          *)
(* table_client holds what follows lastIdOut and nextIdInClientTable is    *)
(* what follows that, or 0 once a number was left out.  The file goes up   *)
(* to lastIdOnDisk and table_disk from there to currentId, with no hole    *)
(* between them.  Nothing before lastOutOffset is still to be read.  What  *)
(* permFIFO_read looks for and what permFIFO_ack throws away (everything   *)
(* in the file once lastIdOnDisk is acknowledged) rely on all this.        *)
(* Behind a torn record numbers may come twice (CleanScan); what can be   *)
(* read before it is numbered as above, and below every number given from  *)
(* then on.                                                                *)
TablesNumbered ==
  mode = "up" =>
    /\ Len(table_client) <= Size /\ Len(table_disk) <= Size
    /\ Consecutive(table_client) /\ Consecutive(table_disk)
    /\ table_client # <<>> => table_client[1].id = lastIdOut + 1
    /\ nextIdInClientTable # 0 =>
         nextIdInClientTable = lastIdOut + Len(table_client) + 1
    /\ lastIdOut + Len(table_client) <= currentId
    /\ lastIdOnDisk <= currentId
    /\ file.recs # <<>> => ackOnDisk /\ Last(Sound(file.recs)).id <= lastIdOnDisk
    /\ file.recs # <<>> /\ Sound(file.recs) = file.recs =>
         Last(file.recs).id = lastIdOnDisk
    /\ table_disk # <<>> => /\ table_disk[1].id > lastIdOnDisk
                            /\ Last(table_disk).id = currentId
    /\ file.recs # <<>> /\ table_disk # <<>> =>
         table_disk[1].id = lastIdOnDisk + 1
    /\ file.recs # <<>> /\ table_disk = <<>> => lastIdOnDisk = currentId
    /\ lastOutOffset <= Len(Sound(file.recs))
    /\ \A i \in 1 .. lastOutOffset :
         Sound(file.recs)[i].id <= lastIdOut + Len(table_client)

NumbersInOrder == FilesNumbered /\ TablesNumbered

(* Between two starts the consumer gets the items in the order of their    *)
(* numbers, none twice, and never one while an earlier one that it did not *)
(* get is still in table_disk or in the file (behind a torn record nothing *)
(* can be read), whichever of the three places permFIFO_read takes it from *)
(* and whatever was saved, acknowledged or overflowed in between.          *)
Skips(items) == \E i \in 1 .. Len(items) :
                  lastIdOut < items[i].id /\ items[i].id < lastIdOut'
NothingSkipped ==
  [][mode = "up" /\ mode' = "up" =>
       /\ lastIdOut <= lastIdOut'
       /\ ~Skips(Sound(file.recs)) /\ ~Skips(table_disk)]_vars

(* No message whose acknowledgement has returned is ever handed out again, *)
(* or kept where a later start can read it, wherever the process is        *)
(* killed: neither the tables, the file and its header, nor the copies     *)
(* made at start-up bring it back.                                         *)
Holds(items, m) == \E i \in 1 .. Len(items) : items[i].msg = m
ReadableItems == After(Sound(Recoverable.recs), Recoverable.lastAckId)
AckedNeverAgain ==
  \A m \in acked \ {Torn} :
    ~Holds(taken, m) /\ ~Holds(ReadableItems, m) /\ ~Holds(table_disk, m)

(* The FIFO implements DurableQueue: order, no loss but of the newest      *)
(* unsaved messages, through stops, kills and start-ups.                   *)
Queue == INSTANCE DurableQueue WITH
           pending <- Pending, taken <- Messages(taken),
           saved <- Len(DurableItems), written <- written
ImplementsQueue == Queue!Spec

(* A message that the FIFO holds does not stay there for ever while the    *)
(* consumer keeps reading and acknowledging.                               *)
PendingDrains ==
  \A m \in Message :
    (Holds(DurableItems, m) \/ Holds(table_disk, m))
      ~> ~(Holds(DurableItems, m) \/ Holds(table_disk, m))

=============================================================================
