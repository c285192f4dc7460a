--------------------------- MODULE MCTerminalView ---------------------------
(* Instances of TerminalView for TLC: what may happen in one behaviour. *)
EXTENDS TerminalView

Nothing == [outputs |-> 0, exits |-> 0, cuts |-> 0, drops |-> 0, looks |-> 0,
            resizes |-> 0]

\* Two surfaces are fitted to different sizes.
Fitted == [s \in Surfaces |-> IF s = "p" THEN 1 ELSE 2]

\* The link is lost while the child writes or exits, a surface is hidden or
\* resized.
Lossy ==
    {[Nothing EXCEPT !.outputs = 2, !.cuts = 1, !.looks = 1],
     [Nothing EXCEPT !.outputs = 2, !.cuts = 1, !.exits = 1],
     [Nothing EXCEPT !.outputs = 1, !.cuts = 1, !.resizes = 1],
     [Nothing EXCEPT !.resizes = 2, !.cuts = 1]}

\* The browser's socket is lost, or surfaces come and go, while the child
\* writes or exits or a surface is resized.
Looked ==
    {[Nothing EXCEPT !.outputs = 2, !.drops = 1],
     [Nothing EXCEPT !.resizes = 1, !.drops = 1, !.looks = 1],
     [Nothing EXCEPT !.outputs = 1, !.looks = 1, !.exits = 1],
     [Nothing EXCEPT !.resizes = 1, !.looks = 2]}

Watched == Lossy \cup Looked
=============================================================================
