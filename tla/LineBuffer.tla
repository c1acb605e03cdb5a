----------------------------- MODULE LineBuffer -----------------------------
(***************************************************************************)
(* struct lineBuffer of utility.c, by which the transport client cuts what *)
(* the server sends into lines: a block of memory that grows by chunks, of *)
(* which buf_used bytes are the data, followed by a NUL by which the       *)
(* functions of string.h find their way.                                   *)
(*                                                                         *)
(* A byte is an end of line, or a letter, numbered by its place in what    *)
(* the peer sends; memory that was never written holds Junk.               *)
(***************************************************************************)
EXTENDS Integers, Sequences

CONSTANTS
  bufferChunkSize, bufferMaxSize,
  MaxBytes         \* bound: bytes sent by the peer

ASSUME LineBufferAssumption ==
  bufferChunkSize \in Nat \ {0, 1} /\ bufferMaxSize \in Nat /\ MaxBytes \in Nat

EOL  == 0
NUL  == -1
Junk == -2

VARIABLES
  sent,      \* the bytes sent by the peer, in order
  taken,     \* how many of them were read from the descriptor
  eof,          \* the peer has closed
  adding,       \* lineBuffer_add is in its loop
  buf_content,  \* the block of memory; its length is buf_size
  buf_used,
  lines         \* the lines returned by getLine, without their ends

socketVars == <<sent, taken, eof>>
bufferVars == <<buf_content, buf_used>>
lineVars   == <<socketVars, bufferVars, adding, lines>>

buf_size == Len(buf_content)

LineBufferInit ==
  /\ sent = <<>> /\ taken = 0 /\ eof = FALSE /\ adding = FALSE
  /\ buf_content = <<>> /\ buf_used = 0 /\ lines = <<>>

-----------------------------------------------------------------------------
(* The peer.                                                               *)
PeerSends ==
  /\ ~eof /\ Len(sent) < MaxBytes
  /\ \E b \in {EOL, Len(sent) + 1} : sent' = Append(sent, b)
  /\ UNCHANGED <<taken, eof, adding, bufferVars, lines>>

PeerCloses ==
  /\ ~eof /\ eof' = TRUE
  /\ UNCHANGED <<sent, taken, adding, bufferVars, lines>>

-----------------------------------------------------------------------------
(* realloc: what was there stays.  NoRoom is returned past the maximum.    *)
NoRoom == <<NUL>>
Allocate(block, n) ==
  IF Len(block) + n > bufferMaxSize THEN NoRoom
  ELSE block \o [i \in 1 .. n |-> Junk]

(* The bytes s are written into the block from position at (from 1).       *)
Overwrite(block, at, s) ==
  [i \in 1 .. Len(block) |->
     IF i \in at .. at + Len(s) - 1 THEN s[i - at + 1] ELSE block[i]]

(* The block into which lineBuffer_add reads.                              *)
BlockToFill ==
  IF buf_size - buf_used < bufferChunkSize
  THEN Allocate(buf_content, bufferChunkSize) ELSE buf_content

AddStarts ==
  /\ ~adding /\ adding' = TRUE
  /\ UNCHANGED <<socketVars, bufferVars, lines>>

(* One round of lineBuffer_add: read() takes what is there, as far as one  *)
(* byte is left in the block for the NUL.  Mutant: none is left.           *)
AddReadsAll ==
  /\ adding
  /\ taken < Len(sent) /\ BlockToFill # NoRoom
  /\ LET room == Len(BlockToFill) - buf_used
         n    == IF Len(sent) - taken < room THEN Len(sent) - taken ELSE room
     IN  /\ taken' = taken + n
         /\ buf_used' = buf_used + n
         /\ buf_content' = Overwrite(BlockToFill, buf_used + 1,
                             SubSeq(sent, taken + 1, taken + n) \o <<NUL>>)
  /\ UNCHANGED <<sent, eof, adding, lines>>
AddReads ==
  /\ adding
  /\ taken < Len(sent) /\ BlockToFill # NoRoom
  /\ LET room == Len(BlockToFill) - buf_used - 1
         n    == IF Len(sent) - taken < room THEN Len(sent) - taken ELSE room
     IN  /\ taken' = taken + n
         /\ buf_used' = buf_used + n
         /\ buf_content' = Overwrite(BlockToFill, buf_used + 1,
                             SubSeq(sent, taken + 1, taken + n) \o <<NUL>>)
  /\ UNCHANGED <<sent, eof, adding, lines>>

(* The call returns: nothing to read, the end of the stream, or a block of *)
(* the maximal size.  At the end of the stream the block may have grown.   *)
AddReturns ==
  /\ adding /\ adding' = FALSE
  /\ \/ taken = Len(sent) /\ ~eof /\ UNCHANGED buf_content
     \/ BlockToFill = NoRoom /\ UNCHANGED buf_content
     \/ /\ taken = Len(sent) /\ eof /\ BlockToFill # NoRoom
        /\ buf_content' = BlockToFill
  /\ UNCHANGED <<socketVars, buf_used, lines>>

(* strchr: the first end of line, if there is one before the NUL; 0 else.  *)
EndOfLine ==
  LET stop == {i \in 1 .. buf_size : buf_content[i] \in {EOL, NUL}}
  IN  IF stop = {} THEN 0
      ELSE LET i == CHOOSE i \in stop : \A j \in stop : i <= j
           IN  IF buf_content[i] = EOL THEN i ELSE 0

(* The line is given away with the block when it is all there is, and what *)
(* follows it is moved to another block otherwise.  Mutant: the line keeps *)
(* the block whenever there is no other line behind it.                    *)
GetLineTakesAll ==
  /\ ~adding /\ buf_used > 0 /\ EndOfLine # 0
  /\ lines' = Append(lines, SubSeq(buf_content, 1, EndOfLine - 1))
  /\ LET rest == SubSeq(buf_content, EndOfLine + 1, buf_size)
         all  == ~\E i \in EndOfLine + 1 .. buf_used : buf_content[i] = EOL
     IN  buf_content' = (IF all THEN <<>> ELSE rest)
         /\ buf_used' = (IF all THEN 0 ELSE buf_used - EndOfLine)
  /\ UNCHANGED <<socketVars, adding>>
GetLine ==
  /\ ~adding /\ buf_used > 0 /\ EndOfLine # 0
  /\ lines' = Append(lines, SubSeq(buf_content, 1, EndOfLine - 1))
  /\ IF EndOfLine = buf_used
     THEN buf_content' = <<>> /\ buf_used' = 0
     ELSE /\ buf_content' = SubSeq(buf_content, EndOfLine + 1, buf_size)
          /\ buf_used' = buf_used - EndOfLine
  /\ UNCHANGED <<socketVars, adding>>

LineBufferNext ==
  PeerSends \/ PeerCloses \/ AddStarts \/ AddReads \/ AddReturns \/ GetLine

LineBufferSpec == LineBufferInit /\ [][LineBufferNext]_lineVars

-----------------------------------------------------------------------------
(* The data in the block end with a NUL inside it, so that the search for  *)
(* an end of line neither leaves the block nor misses a line, after any    *)
(* mix of reads, growths and lines taken from the block.                   *)
DataEndsWithNUL ==
  buf_used > 0 => /\ buf_used < buf_size
                  /\ buf_content[buf_used + 1] = NUL
                  /\ \A i \in 1 .. buf_used : buf_content[i] >= EOL

(* The bytes of lines.                                                     *)
TextOf(ls) ==
  LET text[i \in 0 .. Len(ls)] ==
        IF i = 0 THEN <<>> ELSE text[i - 1] \o ls[i] \o <<EOL>>
  IN  text[Len(ls)]

(* Whatever pieces the bytes arrive in, the lines returned and what is     *)
(* still in the buffer are the bytes read from the peer, in order: no      *)
(* command of the server is lost, cut or glued to another, nor will be     *)
(* when the rest is searched.                                              *)
LinesInOrder ==
  /\ DataEndsWithNUL
  /\ TextOf(lines) \o SubSeq(buf_content, 1, buf_used) = SubSeq(sent, 1, taken)
=============================================================================
