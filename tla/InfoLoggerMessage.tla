------------------------- MODULE InfoLoggerMessage -------------------------
(***************************************************************************)
(* The text in which a message travels: infoLog_msg_encode (called by      *)
(* MessageToText for a client) writes one record per line of the message   *)
(* in a buffer of fixed size, infoLoggerD cuts what it receives at each    *)
(* end of line, and infoLog_decode finds the fields in each record.        *)
(*                                                                         *)
(* The fields before the text, all written in each record, are one here;   *)
(* the version is one character, and so is the mark " [...]" of a text     *)
(* that was cut.                                                           *)
(***************************************************************************)
EXTENDS Integers, Sequences

CONSTANTS
  Character,       \* what the fields are made of
  Headers, Texts,  \* bound: the values of the two fields
  BufferSizes      \* bound: the values of bufferSize

ASSUME MessageAssumption ==
  /\ Headers \subseteq Seq(Character) /\ Texts \subseteq Seq(Character)
  /\ BufferSizes \subseteq Nat \ {0}

Newline == "\n"
Special == {"*", "#", Newline}
Version == <<"1">>
Mark == <<"~", Newline>>
MarkSize == Len(Mark) + 1         \* with its NUL

VARIABLES
  msg,         \* the message
  bufferSize,
  encoded,     \* the mysprintf_t s: the characters in the buffer, isError
  sol,         \* where the current line starts in the text, from 1
  ix_lastGoodRecord,
  status,      \* "running", or how infoLog_msg_encode has ended
  decoded      \* the messages the server has decoded

msgVars == <<msg, bufferSize, encoded, sol, ix_lastGoodRecord, status, decoded>>

MessageInit ==
  /\ msg \in [header : Headers, text : Texts]
  /\ bufferSize \in BufferSizes
  /\ encoded = [text |-> <<>>, isError |-> FALSE]
  /\ sol = 1 /\ ix_lastGoodRecord = -1
  /\ status = "running" /\ decoded = <<>>

-----------------------------------------------------------------------------
(* Mutant: the characters that delimit fields and records stay.            *)
CleanNothing(t) == t
Clean(t) == [i \in 1 .. Len(t) |-> IF t[i] \in Special THEN "?" ELSE t[i]]

(* mysprintf: what does not fit is cut, and nothing more is written.       *)
mysprintf(b, t) ==
  IF b.isError THEN b
  ELSE IF Len(b.text) + Len(t) >= bufferSize
  THEN [text |-> SubSeq(b.text \o t, 1, bufferSize - 1), isError |-> TRUE]
  ELSE [text |-> b.text \o t, isError |-> FALSE]

CleanFrom(b, ix) ==
  [b EXCEPT !.text = SubSeq(@, 1, ix) \o Clean(SubSeq(@, ix + 1, Len(@)))]

(* The position of the first x in t from position i; 0 if there is none.   *)
Find(t, x, i) ==
  LET at == {j \in i .. Len(t) : t[j] = x}
  IN  IF at = {} THEN 0 ELSE CHOOSE j \in at : \A k \in at : j <= k

(* The first characters of a record, up to its last field.                 *)
Header(b) ==
  LET start == mysprintf(mysprintf(b, <<"*">> \o Version), <<"#">>)
  IN  CleanFrom(mysprintf(start, msg.header), Len(start.text))

(* The last field, which takes the rest of the text and is then cut to its *)
(* first line: an overflow behind the end of the line is forgotten.        *)
LastField(b, eol) ==
  LET ix   == Len(b.text)
      all  == mysprintf(b, SubSeq(msg.text, sol, Len(msg.text)))
      newl == ix + (eol - sol)
      line == IF eol # 0 /\ newl < bufferSize
              THEN [text |-> SubSeq(all.text, 1, newl), isError |-> FALSE]
              ELSE all
  IN  mysprintf(CleanFrom(line, ix), <<Newline>>)

(* Where the mark goes when the record was not completed, or leaves no     *)
(* room for the mark after it: in the last field, else at the end of the   *)
(* previous record, else nowhere (-1).                                     *)
MarkPosition(inLastField, ix) ==
  IF inLastField /\ bufferSize - MarkSize >= ix THEN bufferSize - MarkSize
  ELSE IF ix_lastGoodRecord >= 0 THEN ix_lastGoodRecord - 1 ELSE -1

(* One round of the loop of infoLog_msg_encode: one record.                *)
EncodeRecord ==
  LET head   == Header(encoded)
      eol    == Find(msg.text, Newline, sol)
      open   == mysprintf(head, <<"#">>)
      record == IF head.isError THEN head ELSE LastField(open, eol)
      cut    == record.isError
                \/ (eol # 0 /\ Len(record.text) + MarkSize > bufferSize)
      at     == MarkPosition(~head.isError, Len(open.text))
  IN
  /\ status = "running"
  /\ \/ /\ ~cut
        /\ encoded' = record
        /\ IF eol = 0
           THEN status' = "ok" /\ UNCHANGED <<sol, ix_lastGoodRecord>>
           ELSE /\ sol' = eol + 1
                /\ ix_lastGoodRecord' = Len(record.text)
                /\ UNCHANGED status
     \/ /\ cut /\ at >= 0
        /\ encoded' = [text    |-> SubSeq(record.text, 1, at) \o Mark,
                       isError |-> FALSE]
        /\ status' = "truncated"
        /\ UNCHANGED <<sol, ix_lastGoodRecord>>
     \/ /\ cut /\ at < 0
        /\ encoded' = record
        /\ status' = "error"
        /\ UNCHANGED <<sol, ix_lastGoodRecord>>
  /\ UNCHANGED <<msg, bufferSize, decoded>>

-----------------------------------------------------------------------------
(* The parts of t between the separators x, gathered character by         *)
(* character; the last one is what follows the last separator.             *)
Gather(parts, c, x) ==
  IF c = x THEN Append(parts, <<>>)
  ELSE [parts EXCEPT ![Len(parts)] = Append(@, c)]

Split(t, x) ==
  LET parts[n \in 0 .. Len(t)] ==
        IF n = 0 THEN <<<<>>>> ELSE Gather(parts[n - 1], t[n], x)
  IN  parts[Len(t)]

Undecodable == [header |-> <<"!">>, text |-> <<"!">>]

(* infoLog_decode: the version, then a field up to the next "#", then the  *)
(* rest of the record.                                                     *)
DecodeRecord(r) ==
  LET first  == Find(r, "#", 1)
      second == Find(r, "#", first + 1)
  IN  IF /\ r # <<>> /\ r[1] = "*"
         /\ first # 0 /\ second # 0 /\ SubSeq(r, 2, first - 1) = Version
      THEN [header |-> SubSeq(r, first + 1, second - 1),
            text   |-> SubSeq(r, second + 1, Len(r))]
      ELSE Undecodable

(* What was encoded is sent, whatever infoLog_msg_encode has returned; the *)
(* characters after the last end of line wait in the daemon for more.      *)
Decode ==
  /\ status # "running" /\ decoded = <<>>
  /\ LET records == Split(encoded.text, Newline)
     IN  decoded' = [i \in 1 .. Len(records) - 1 |-> DecodeRecord(records[i])]
  /\ decoded' # <<>>
  /\ UNCHANGED <<msg, bufferSize, encoded, sol, ix_lastGoodRecord, status>>

MessageNext == EncodeRecord \/ Decode
MessageSpec == MessageInit /\ [][MessageNext]_msgVars

-----------------------------------------------------------------------------
(* The lines of the text are the messages that the server decodes, each    *)
(* with the header of the message, whatever characters are in them.  When  *)
(* the buffer was too small the last ones are missing and the last one     *)
(* left, cut or whole, bears the mark: nothing is cut without it.          *)
EncodeRoundTrip ==
  LET wanted == Split(msg.text, Newline)
      n      == Len(decoded)
  IN
  status \in {"ok", "truncated"} /\ decoded # <<>> =>
    /\ n <= Len(wanted)
    /\ \A i \in 1 .. n : decoded[i].header = Clean(msg.header)
    /\ \A i \in 1 .. n - 1 : decoded[i].text = Clean(wanted[i])
    /\ status = "ok" => n = Len(wanted) /\ decoded[n].text = Clean(wanted[n])
    /\ status = "truncated" =>
         \E k \in 0 .. Len(wanted[n]) :
           decoded[n].text = Clean(SubSeq(wanted[n], 1, k)) \o <<Head(Mark)>>
=============================================================================
