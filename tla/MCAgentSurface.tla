--------------------------- MODULE MCAgentSurface ---------------------------
(* Instances of AgentSurface for TLC: what may happen in one behaviour. *)
EXTENDS AgentSurface

None == [spawns |-> 0, looks |-> 0, says |-> 0, drops |-> 0, restarts |-> 0,
         commands |-> 0, faults |-> 0]

\* A transcript of two messages told over a socket that drops once.
TwoMessages == {[None EXCEPT !.says = 2, !.drops = 1]}

\* The host is replaced, cut off or refused while a message is said; or its
\* successor opens another conversation.
Replaced ==
    {[None EXCEPT !.spawns = 1, !.says = 1, !.drops = 1, !.faults = 1],
     [None EXCEPT !.spawns = 1, !.faults = 2]}

\* A surface comes, hides and returns while a message is said, over a drop, a
\* replaced host or a restart.
Watched ==
    {[None EXCEPT !.looks = 2, !.says = 1, !.drops = 1],
     [None EXCEPT !.looks = 2, !.says = 1, !.spawns = 1, !.faults = 1],
     [None EXCEPT !.looks = 1, !.says = 1, !.restarts = 1]}

\* Two commands at once, and one across a drop, a restart or a replaced host.
Commanded ==
    {[None EXCEPT !.commands = 2],
     [None EXCEPT !.commands = 1, !.drops = 1],
     [None EXCEPT !.commands = 1, !.restarts = 1],
     [None EXCEPT !.commands = 1, !.spawns = 1, !.faults = 1]}

Mixed == TwoMessages \cup Replaced \cup Watched \cup Commanded
=============================================================================
