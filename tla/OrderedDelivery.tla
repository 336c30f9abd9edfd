--------------------------- MODULE OrderedDelivery ---------------------------
(***************************************************************************)
(* What a connection promises to the handlers of AnchorConnection: the     *)
(* messages the anchor sends are handed over one at a time, each once, in  *)
(* the order they were sent.  AnchorHelper takes this for granted when it  *)
(* keeps whole replies in a connection; FrameParser implements it.         *)
(***************************************************************************)
EXTENDS Naturals, Sequences

CONSTANT Message  \* what an anchor may send

VARIABLES sent,    \* the messages sent so far
          handled  \* the messages handed to a handler so far

vars == <<sent, handled>>

Init == sent = <<>> /\ handled = <<>>

Send == \E m \in Message : sent' = Append(sent, m) /\ UNCHANGED handled

Handle == /\ Len(handled) < Len(sent)
          /\ handled' = Append(handled, sent[Len(handled) + 1])
          /\ UNCHANGED sent

Next == Send \/ Handle

Spec == Init /\ [][Next]_vars /\ WF_vars(Handle)
=============================================================================
