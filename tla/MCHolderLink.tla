---------------------------- MODULE MCHolderLink ----------------------------
(* HolderLink on small instances. *)
EXTENDS HolderLink
=============================================================================
