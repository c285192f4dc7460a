-------------------------- MODULE MCProfileHandoff --------------------------
(* ProfileHandoff on small instances. *)
EXTENDS ProfileHandoff
=============================================================================
