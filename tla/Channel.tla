------------------------------- MODULE Channel -------------------------------
(***************************************************************************)
(* What ICommunicationHandler (include/handler/communication_handler.hpp)  *)
(* promises to one writing and one reading process that stay alive: a      *)
(* write() that returns true hands over its message, and read() returns    *)
(* the messages handed over, each once, in order.  At most Capacity        *)
(* messages are under way.  The handlers' modules are shown to implement   *)
(* this specification.                                                     *)
(***************************************************************************)
EXTENDS Naturals, Sequences

CONSTANTS Capacity, Message

VARIABLES sent, received

channelVars == <<sent, received>>

Init == sent = << >> /\ received = << >>

\* write() returned true.
Write(m) ==
  /\ Len(sent) - Len(received) < Capacity
  /\ sent' = Append(sent, m)
  /\ UNCHANGED received

\* read() returned the oldest message not yet read.
Read ==
  /\ Len(received) < Len(sent)
  /\ received' = Append(received, sent[Len(received) + 1])
  /\ UNCHANGED sent

Next == (\E m \in Message : Write(m)) \/ Read

Spec == Init /\ [][Next]_channelVars

=============================================================================
