---------------------------- MODULE Redirection ----------------------------
(***************************************************************************)
(* The redirection of a process's standard output to the logging API       *)
(* (setStandardRedirection and redirectThreadLoop): what is printed goes   *)
(* to a pipe, and a thread makes messages of its lines, which pushMessage  *)
(* (in the output mode "stdout") prints where the standard output was      *)
(* before.  The standard error is treated in the same way, by the same     *)
(* thread, with a pipe and a buffer of its own: it is left out.            *)
(*                                                                         *)
(* The text is ends of lines and letters: the ranks of what the process    *)
(* prints, 1, 2, ..., and of the messages it logs, -1, -2, ...             *)
(***************************************************************************)
EXTENDS Integers, Sequences

CONSTANTS
  MaxPrints, MaxLogs, MaxSwitches   \* bound: texts printed, messages
                                    \* logged, redirections

ASSUME RedirectAssumption ==
  MaxPrints \in Nat /\ MaxLogs \in Nat /\ MaxSwitches \in Nat

LineEnd == 0

VARIABLES
  standardOutput,   \* what descriptor 1 stands for: "terminal" or "pipe"
  stdLogTo,         \* where stdLog writes: descriptor "stdout" or "saved"
  pipeStdout, lbStdout,
  terminal,
  switching,        \* where the caller is in setStandardRedirection; "off"
                    \* and "on": outside
  redirectThread,   \* "none", "read", "lines", "ended"
  redirectThreadShutdown,
  prints, logs, switches,
  lost              \* letters dropped with a buffer or a pipe

ioVars     == <<standardOutput, stdLogTo>>
textVars   == <<pipeStdout, lbStdout, terminal, lost>>
counts     == <<prints, logs, switches>>
redirectVars == <<ioVars, textVars, switching, redirectThread,
                  redirectThreadShutdown, counts>>

RedirectInit ==
  /\ standardOutput = "terminal" /\ stdLogTo = "stdout"
  /\ pipeStdout = <<>> /\ lbStdout = <<>> /\ terminal = <<>> /\ lost = {}
  /\ switching = "off" /\ redirectThread = "none"
  /\ redirectThreadShutdown = FALSE
  /\ prints = 0 /\ logs = 0 /\ switches = 0

-----------------------------------------------------------------------------
Letters(t) == {t[i] : i \in DOMAIN t} \ {LineEnd}

(* Text written to descriptor 1, or by stdLog.                             *)
Output(t) ==
  IF standardOutput = "terminal"
  THEN terminal' = terminal \o t /\ UNCHANGED pipeStdout
  ELSE pipeStdout' = pipeStdout \o t /\ UNCHANGED terminal
Logged(t) ==
  IF stdLogTo = "saved" THEN terminal' = terminal \o t /\ UNCHANGED pipeStdout
                        ELSE Output(t)

(* The process prints, with an end of line or not.                         *)
PrintText ==
  /\ prints < MaxPrints /\ prints' = prints + 1
  /\ \E t \in {<<prints'>>, <<prints', LineEnd>>} : Output(t)
  /\ UNCHANGED <<ioVars, lbStdout, lost, switching, redirectThread,
                 redirectThreadShutdown, logs, switches>>

(* One of its threads logs a message.                                      *)
LogText ==
  /\ logs < MaxLogs /\ logs' = logs + 1
  /\ Logged(<<-logs', LineEnd>>)
  /\ UNCHANGED <<ioVars, lbStdout, lost, switching, redirectThread,
                 redirectThreadShutdown, prints, switches>>

-----------------------------------------------------------------------------
(* setStandardRedirection(true).                                           *)
SaveOutput ==
  /\ switching = "off" /\ switches < MaxSwitches
  /\ switches' = switches + 1
  /\ standardOutput' = "pipe" /\ switching' = "saved"
  /\ UNCHANGED <<stdLogTo, textVars, redirectThread, redirectThreadShutdown,
                 prints, logs>>

(* Mutant: stdLog goes on with descriptor 1.                               *)
KeepStdLog ==
  /\ switching = "saved" /\ switching' = "set"
  /\ UNCHANGED <<ioVars, textVars, redirectThread, redirectThreadShutdown, counts>>
SetStdLog ==
  /\ switching = "saved" /\ switching' = "set"
  /\ stdLogTo' = "saved"
  /\ UNCHANGED <<standardOutput, textVars, redirectThread,
                 redirectThreadShutdown, counts>>

StartThread ==
  /\ switching = "set" /\ switching' = "on"
  /\ redirectThread' = "read" /\ redirectThreadShutdown' = FALSE
  /\ UNCHANGED <<ioVars, textVars, counts>>

(* setStandardRedirection(false).                                          *)
StopThread ==
  /\ switching = "on" /\ switching' = "join"
  /\ redirectThreadShutdown' = TRUE
  /\ UNCHANGED <<ioVars, textVars, redirectThread, counts>>

JoinThread ==
  /\ switching = "join" /\ redirectThread = "ended"
  /\ redirectThread' = "none" /\ stdLogTo' = "stdout" /\ switching' = "joined"
  /\ UNCHANGED <<standardOutput, textVars, redirectThreadShutdown, counts>>

(* The standard output is restored and the pipe closed, with what is in it.*)
RestoreOutput ==
  /\ switching = "joined" /\ switching' = "off"
  /\ standardOutput' = "terminal"
  /\ lost' = lost \union Letters(pipeStdout) /\ pipeStdout' = <<>>
  /\ UNCHANGED <<stdLogTo, lbStdout, terminal, redirectThread,
                 redirectThreadShutdown, counts>>

-----------------------------------------------------------------------------
(* redirectThreadLoop: end when asked to, else read some of what is there. *)
EndThread ==
  /\ redirectThread = "read" /\ redirectThreadShutdown
  /\ redirectThread' = "ended"
  /\ lost' = lost \union Letters(lbStdout) /\ lbStdout' = <<>>
  /\ UNCHANGED <<ioVars, pipeStdout, terminal, switching,
                 redirectThreadShutdown, counts>>

ReadPipe ==
  /\ redirectThread = "read" /\ ~redirectThreadShutdown
  /\ redirectThread' = "lines"
  /\ \E n \in 1 .. Len(pipeStdout) :
       /\ lbStdout' = lbStdout \o SubSeq(pipeStdout, 1, n)
       /\ pipeStdout' = SubSeq(pipeStdout, n + 1, Len(pipeStdout))
  /\ UNCHANGED <<ioVars, terminal, lost, switching, redirectThreadShutdown, counts>>

(* One line is pushed; when there is none left the loop goes on.           *)
PushLines ==
  /\ redirectThread = "lines"
  /\ LET ends == {i \in DOMAIN lbStdout : lbStdout[i] = LineEnd} IN
     \/ /\ ends = {} /\ redirectThread' = "read"
        /\ UNCHANGED <<pipeStdout, lbStdout, terminal>>
     \/ \E i \in ends :
          /\ \A j \in ends : i <= j
          /\ Logged(SubSeq(lbStdout, 1, i))
          /\ lbStdout' = SubSeq(lbStdout, i + 1, Len(lbStdout))
          /\ UNCHANGED redirectThread
  /\ UNCHANGED <<ioVars, lost, switching, redirectThreadShutdown, counts>>

RedirectNext ==
  \/ PrintText \/ LogText
  \/ SaveOutput \/ SetStdLog \/ StartThread
  \/ StopThread \/ JoinThread \/ RestoreOutput
  \/ EndThread \/ ReadPipe \/ PushLines

RedirectSpec == RedirectInit /\ [][RedirectNext]_redirectVars

-----------------------------------------------------------------------------
(* What the process prints reaches the terminal once and in order, and so  *)
(* does each message once, neither going round through the pipe: all but   *)
(* what was left in the pipe or the buffer when a redirection ended.  (The *)
(* order of the messages is not kept: one logged while the redirection     *)
(* begins goes through the pipe, and those after it do not.)               *)
RedirectedOnce ==
  LET text == terminal \o lbStdout \o pipeStdout
  IN  /\ \A i, j \in DOMAIN text : i < j =>
           /\ text[i] > 0 /\ text[j] > 0 => text[i] < text[j]
           /\ text[i] = text[j] => text[i] = LineEnd
      /\ Letters(text) = (1 .. prints \union {-i : i \in 1 .. logs}) \ lost
=============================================================================
