----------------------- MODULE ChannelDeliveryOutbox -----------------------
(***************************************************************************)
(* The delivery engine implements PromptOutbox when sends answer in time   *)
(* and the operator does not interfere: what is owed is what was posted,   *)
(* neither confirmed nor removed, wherever it is at the moment - in the    *)
(* queue, in a paste, in a file of a dead process or in a tombstone.       *)
(***************************************************************************)
EXTENDS ChannelDelivery

Outbox == INSTANCE PromptOutbox WITH
  owed <- (((1..posted) \ confirmed) \ removed) \ exposed,
  done <- confirmed \ unmarked,
  arrivals <- accepted,
  orderly <- ~disordered

(* Seen from outside, crashes, restores, digests, refused and repeated sends  *)
(* are one ordered outbox: a prompt overtakes no older one, and none reaches  *)
(* the agent after its hand-over was recorded.                                *)
ImplementsOutbox == Outbox!Spec

=============================================================================
