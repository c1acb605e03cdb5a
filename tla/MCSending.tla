----------------------------- MODULE MCSending -----------------------------
(***************************************************************************)
(* What makes a message, and what carries it.  The API of a process that   *)
(* logs, with its flood protection, its tokens and its redirection of the  *)
(* output; the encoding of a message; and the transport from the daemons   *)
(* to the server.  Each works on what the one before hands it, and none    *)
(* shares state with another: an instance runs one of them, chosen in its  *)
(* initial state, and the others stay in their initial state.              *)
(***************************************************************************)
EXTENDS Transport, InfoLoggerAPI, AutoMute, Redirection, InfoLoggerMessage, TLC

VARIABLE part    \* the part that runs

(* The daemons are interchangeable.                                        *)
Symmetry == Permutations(Client)

(* Bound: the messages that are encoded.                                   *)
SomeCharacters == {"x", "#", Newline}
SomeHeaders == {<<>>, <<"x", "#">>}
SomeTexts == UNION {[1 .. n -> SomeCharacters] : n \in 0 .. 4}

transferVars == vars
libraryVars == <<apiVars, muteVars, redirectVars>>
sendingVars == <<transferVars, libraryVars, msgVars, part>>

SendingInit ==
  /\ Init /\ APIInit /\ MuteInit /\ RedirectInit /\ MessageInit
  /\ part \in {"api", "token", "redirection", "message", "transport"}
  /\ \/ part = "message"
     \/ /\ msg = [header |-> <<>>, text |-> <<>>]
        /\ \A b \in BufferSizes : bufferSize <= b

Library ==
  /\ \/ part = "api" /\ APINext /\ UNCHANGED <<muteVars, redirectVars>>
     \/ part = "token" /\ MuteNext /\ UNCHANGED <<apiVars, redirectVars>>
     \/ part = "redirection" /\ RedirectNext /\ UNCHANGED <<apiVars, muteVars>>
  /\ UNCHANGED <<transferVars, msgVars, part>>
Encoding == part = "message" /\ MessageNext /\ UNCHANGED <<transferVars, libraryVars, part>>
Transfer == part = "transport" /\ Next /\ UNCHANGED <<libraryVars, msgVars, part>>

SendingSpec == SendingInit /\ [][Library \/ Encoding \/ Transfer]_sendingVars
=============================================================================
