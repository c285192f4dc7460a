-------------------------- MODULE MCChannelDelivery --------------------------
(* Instances of ChannelDelivery for TLC. *)
EXTENDS ChannelDeliveryOutbox

NoPrompts   == {}
AllPrompts  == 1..NumMsgs
SecondIsPrompt == {2}
=============================================================================
