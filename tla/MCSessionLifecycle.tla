------------------------ MODULE MCSessionLifecycle ------------------------
(* One session, two generations, three requests.                           *)
EXTENDS SessionLifecycle
=============================================================================
