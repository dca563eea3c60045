---------------------------- MODULE MessageStream ----------------------------
(***************************************************************************)
(* What LengthHeaderCodec promises its users at both ends of a connection: *)
(* the messages given to send() reach the message callback whole, in       *)
(* order, once each.                                                       *)
(***************************************************************************)
EXTENDS Naturals, Sequences

CONSTANT Messages

VARIABLES sent, delivered

Init == sent = <<>> /\ delivered = <<>>

Send(m) == sent' = Append(sent, m) /\ UNCHANGED delivered

Deliver ==
  /\ Len(delivered) < Len(sent)
  /\ delivered' = Append(delivered, sent[Len(delivered) + 1])
  /\ UNCHANGED sent

Next == (\E m \in Messages : Send(m)) \/ Deliver

Spec == Init /\ [][Next]_<<sent, delivered>>
==============================================================================
