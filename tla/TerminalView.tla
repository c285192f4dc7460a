----------------------------- MODULE TerminalView -----------------------------
(***************************************************************************)
(* What a user sees of one session's terminal: the output of the child on  *)
(* its way through the holder's link, the runtime with its authoritative   *)
(* screen (shared/runtime/sessionRuntime.ts) and the router of browser     *)
(* sockets (server/runtime/terminalWsRouter.ts) to the surfaces of one     *)
(* browser (web/binaryTerminalBrokerClient.ts), and the size of the        *)
(* surfaces on its way back to the child.  The link and the socket drop    *)
(* with whatever is on them, the screen is parsed later than it is told,   *)
(* surfaces come, hide and return, and the child exits.                    *)
(*                                                                         *)
(* A chunk of output is its number: chunk k covers offsets k - 1 to k.  A  *)
(* screen is the set of the chunks written to it.                          *)
(***************************************************************************)
EXTENDS Integers, Sequences, FiniteSets, SequencesExt

CONSTANTS
    Surfaces,       \* surface ids of the browser
    Sizes,          \* geometries a terminal may be fitted to
    FirstSize,      \* the size each surface is mounted with
    Budgets         \* what may happen in one behaviour: records of how many
                    \*   outputs  chunks the child writes
                    \*   exits    exits of the child (at most one happens)
                    \*   cuts     links to the holder lost
                    \*   drops    browser sockets lost
                    \*   looks    surfaces hidden, revealed, mounted, unmounted
                    \*   resizes  new measurements of a surface

ASSUME ViewAssumption ==
    /\ IsFiniteSet(Surfaces)
    /\ Sizes \subseteq Nat \ {0}
    /\ FirstSize \in [Surfaces -> Sizes]
    /\ Budgets \subseteq [outputs : Nat, exits : Nat, cuts : Nat, drops : Nat,
                          looks : Nat, resizes : Nat]

VARIABLES
    holder,     \* the holder of the child: chunks emitted, exit, the pty's size
    link,       \* the controller link to it and the slot that recovers it
    runtime,    \* the session's SessionRuntime
    up,         \* up[w]: frames of browser socket w the router has not read
    down,       \* frames on their way to the browser's present socket
    client,     \* the browser's BinaryTerminalBrokerClient
    left        \* what may still happen

vars == <<holder, link, runtime, up, down, client, left>>

\* A channel, a socket or a size that is not there.
None == 0

Sockets == DOMAIN up
Channels == DOMAIN runtime.subs

\* The members of S in the order of their keys.
InOrder(S, key) ==
    CHOOSE q \in [1..Cardinality(S) -> S] :
        \A i, j \in 1..Cardinality(S) : i < j => key[q[i]] < key[q[j]]

Spends(what) == left[what] > 0 /\ left' = [left EXCEPT ![what] = @ - 1]

-----------------------------------------------------------------------------
(* Frames to the browser *)

Ack(c) == [kind |-> "ack", chan |-> c]
BadChannel == [kind |-> "error"]
Output(r, c, k) == [kind |-> "output", chan |-> c, rev |-> r.rev, chunk |-> k]
Snapshot(r, c) ==
    [kind |-> "snapshot", chan |-> c, rev |-> r.rev, offset |-> r.offset, screen |-> r.screen]
Exit(c) == [kind |-> "exit", chan |-> c]
Closed == [kind |-> "closed"]

\* A frame goes to the socket that subscribed; nothing reaches one that is
\* broken or no longer the browser's.  Channels are told in their order.
Reaches(w) == w = client.ws /\ ~client.broken
Reached(r, chans) ==
    InOrder({c \in chans : Reaches(r.subs[c].ws)}, [c \in chans |-> c])
ToBrowser(frames) == down' = down \o frames

-----------------------------------------------------------------------------
(* The runtime *)

\* All emulator work has drained.
\* Mutant: the writes still being parsed do not count.
Drained_Unawaited(r) == TRUE
Drained(r) == r.inbox = <<>>
Waiting(r) == {c \in DOMAIN r.subs : ~r.subs[c].ready}

\* The pty's size is commanded once per change, under a new revision.
Commanded(r, size) ==
    IF r.commanded = size THEN r
    ELSE [r EXCEPT !.commanded = size, !.rev = @ + 1]

\* The longest-standing surface owns the size.
Elected(r) ==
    IF DOMAIN r.subs = {} THEN [r EXCEPT !.owner = None]
    ELSE LET first == CHOOSE c \in DOMAIN r.subs : \A d \in DOMAIN r.subs : c <= d
         IN Commanded([r EXCEPT !.owner = first], r.subs[first].size)

\* All channels leave before one election runs.
Unsubscribed(r, chans) ==
    LET rest == [r EXCEPT !.subs = [c \in DOMAIN r.subs \ chans |-> r.subs[c]]]
    IN IF r.owner \in chans THEN Elected(rest) ELSE rest

\* Snapshots for those who wait, once the screen has caught up.
Baselines(r) ==
    LET told == Reached(r, Waiting(r))
    IN [i \in 1..Len(told) |-> Snapshot(r, told[i])]
Ready(r) ==
    [r EXCEPT !.subs = [c \in DOMAIN r.subs |-> [r.subs[c] EXCEPT !.ready = TRUE]]]

\* The exit is told after the last of the child's output was parsed.
ExitIsReady(r) == r.life = "draining" /\ Drained(r) /\ r.offset = holder.emitted
Farewells(r) ==
    LET told == Reached(r, DOMAIN r.subs)
    IN Baselines(r) \o [i \in 1..Len(told) |-> Exit(told[i])]

\* The recovery of an exited session is cancelled and its link closed.
LinkGone == [state |-> "closed", slot |-> FALSE, pend |-> None, out |-> <<>>,
             in |-> <<>>, lost |-> FALSE]
Ends(r) ==
    /\ runtime' = Ready([r EXCEPT !.life = "exited"])
    /\ ToBrowser(Farewells(r))
    /\ link' = LinkGone

\* A commanded size goes to the link, or waits in the slot that recovers it.
\* Mutant: the slot is not told.
Told_SlotIgnored(r) ==
    IF r.rev # runtime.rev /\ ~link.slot /\ link.state = "up"
    THEN [link EXCEPT !.in = Append(@, r.commanded), !.lost = FALSE]
    ELSE link
Told(r) ==
    IF r.rev = runtime.rev THEN link
    ELSE IF link.slot THEN [link EXCEPT !.pend = r.commanded, !.lost = FALSE]
    ELSE IF link.state = "up"
         THEN [link EXCEPT !.in = Append(@, r.commanded), !.lost = FALSE]
         ELSE link

-----------------------------------------------------------------------------
(* The holder and its link *)

Emit ==
    /\ ~holder.exited
    /\ Spends("outputs")
    /\ holder' = [holder EXCEPT !.emitted = @ + 1]
    /\ link' = IF link.state \in {"attaching", "up"}
               THEN [link EXCEPT !.out = Append(@, holder.emitted + 1)] ELSE link
    /\ UNCHANGED <<runtime, up, down, client>>

ChildExits ==
    /\ ~holder.exited
    /\ Spends("exits")
    /\ holder' = [holder EXCEPT !.exited = TRUE]
    /\ UNCHANGED <<link, runtime, up, down, client>>

HolderEnds ==
    /\ holder.exited /\ ~holder.gone
    /\ holder' = [holder EXCEPT !.gone = TRUE]
    /\ UNCHANGED <<link, runtime, up, down, client, left>>

HolderResizes ==
    /\ link.in # <<>>
    /\ holder' = [holder EXCEPT !.pty = Head(link.in)]
    /\ link' = [link EXCEPT !.in = Tail(@)]
    /\ UNCHANGED <<runtime, up, down, client, left>>

\* What is on the link is lost both ways; the slot keeps what it had to tell.
\* Mutant: an observed exit needs no link any more.
Recovering_NotExited ==
    [link EXCEPT !.state = "down", !.slot = runtime.life = "running",
                 !.out = <<>>, !.in = <<>>, !.lost = @ \/ link.in # <<>>]
Recovering ==
    [link EXCEPT !.state = "down", !.slot = TRUE, !.out = <<>>, !.in = <<>>,
                 !.lost = @ \/ link.in # <<>>]

LinkDrops ==
    /\ link.state \in {"attaching", "up"}
    /\ Spends("cuts")
    /\ link' = Recovering
    /\ UNCHANGED <<holder, runtime, up, down, client>>

LinkEnds ==
    /\ holder.gone
    /\ link.state \in {"attaching", "up"}
    /\ link.out = <<>>
    /\ link' = Recovering
    /\ UNCHANGED <<holder, runtime, up, down, client, left>>

\* The probe finds the holder and the attach is acknowledged: what was emitted
\* meanwhile is never told, and the terminal state is written to the screen.
Attach ==
    /\ link.slot /\ link.state = "down" /\ ~holder.gone
    /\ Drained(runtime)
    /\ link' = [link EXCEPT !.state = "attaching"]
    /\ runtime' = [runtime EXCEPT !.offset = holder.emitted, !.inbox = <<None>>]
    /\ UNCHANGED <<holder, up, down, client, left>>

Adopted ==
    /\ link.state = "attaching" /\ Drained(runtime)
    /\ link' = [link EXCEPT !.state = "up"]
    /\ UNCHANGED <<holder, runtime, up, down, client, left>>

\* The slot tells the holder the size it kept, unless the child has exited.
FinishRecovery ==
    /\ link.slot /\ link.state = "up"
    /\ link' = [link EXCEPT !.slot = FALSE, !.pend = None,
                            !.in = IF link.pend # None /\ runtime.life = "running"
                                   THEN Append(@, link.pend) ELSE @]
    /\ UNCHANGED <<holder, runtime, up, down, client, left>>

\* The probe finds nobody: an exit that waits for output is told without it,
\* and the session is retired.
ConfirmedAbsence ==
    /\ link.slot /\ link.state = "down" /\ holder.gone
    /\ Drained(runtime)
    /\ ToBrowser(IF runtime.life = "draining" THEN Farewells(runtime) ELSE <<>>)
    /\ runtime' = [runtime EXCEPT !.life = "retired", !.subs = <<>>, !.owner = None]
    /\ link' = LinkGone
    /\ UNCHANGED <<holder, up, client, left>>

\* The holder's event stream tells of the exit, and where the output ends.
ExitObserved ==
    /\ holder.exited /\ runtime.life = "running"
    /\ LET draining == [runtime EXCEPT !.life = "draining"] IN
       IF ExitIsReady(draining) THEN Ends(draining)
       ELSE /\ runtime' = draining
            /\ link' = [link EXCEPT !.pend = None]
            /\ UNCHANGED down
    /\ UNCHANGED <<holder, up, client, left>>

-----------------------------------------------------------------------------
(* Output *)

\* Surfaces with a baseline are told at once, the screen is written later.
ReceiveOutput ==
    /\ link.state = "up" /\ link.out # <<>>
    /\ LET k == Head(link.out)
           told == Reached(runtime, Channels \ Waiting(runtime))
       IN /\ runtime' = [runtime EXCEPT !.offset = k, !.inbox = Append(@, k)]
          /\ ToBrowser([i \in 1..Len(told) |-> Output(runtime, told[i], k)])
    /\ link' = [link EXCEPT !.out = Tail(@)]
    /\ UNCHANGED <<holder, up, client, left>>

\* The emulator has parsed a write; when it was the last, an exit may be told
\* and those who wait get their baseline.
Parse ==
    /\ runtime.inbox # <<>>
    /\ LET r == [runtime EXCEPT !.inbox = Tail(@),
                                !.screen = @ \cup ({Head(runtime.inbox)} \ {None})] IN
       IF ExitIsReady(r) THEN Ends(r)
       ELSE /\ runtime' = IF Drained(r) THEN Ready(r) ELSE r
            /\ ToBrowser(IF Drained(r) THEN Baselines(r) ELSE <<>>)
            /\ UNCHANGED link
    /\ UNCHANGED <<holder, up, client, left>>

-----------------------------------------------------------------------------
(* The router reads a frame of one browser socket *)

Subscribing(w, f) ==
    [surf |-> f.surf, mount |-> f.mount, ws |-> w, size |-> f.size, ready |-> FALSE]

\* The first surface in takes the size; the baseline follows at once when the
\* screen is drained.
Subscribed(w, f) ==
    LET c == runtime.next
        in == [runtime EXCEPT !.next = c + 1,
                   !.subs = [d \in Channels \cup {c} |->
                                IF d = c THEN Subscribing(w, f) ELSE runtime.subs[d]]]
        owned == IF in.owner = None THEN Commanded([in EXCEPT !.owner = c], f.size)
                 ELSE in
    IN [r |-> IF Drained(owned) THEN [owned EXCEPT !.subs[c].ready = TRUE] ELSE owned,
        frames |-> <<Ack(c)>> \o (IF Drained(owned) THEN <<Snapshot(owned, c)>> ELSE <<>>)]

Subscribe(w, f) ==
    IF runtime.life = "running"
    THEN /\ runtime' = Subscribed(w, f).r
         /\ ToBrowser(IF Reaches(w) THEN Subscribed(w, f).frames ELSE <<>>)
    ELSE /\ runtime' = [runtime EXCEPT !.next = @ + 1]
         /\ ToBrowser(IF Reaches(w) THEN <<BadChannel>> ELSE <<>>)

\* A channel is served only for the socket that owns it.
Owned(w) == {c \in Channels : runtime.subs[c].ws = w}

\* Every surface's size is remembered, only the owner's is commanded.
Resized(f) ==
    LET r == [runtime EXCEPT !.subs[f.chan].size = f.size]
    IN IF f.chan = r.owner THEN Commanded(r, f.size) ELSE r

RouterReads(w) ==
    /\ up[w] # <<>>
    /\ up' = [up EXCEPT ![w] = Tail(@)]
    /\ LET f == Head(up[w]) IN
       \/ /\ f.kind = "subscribe"
          /\ Subscribe(w, f)
       \/ /\ f.kind = "unsubscribe"
          /\ runtime' = Unsubscribed(runtime, {f.chan} \cap Owned(w))
          /\ UNCHANGED down
       \/ /\ f.kind = "resize"
          /\ runtime' = IF f.chan \in Owned(w) /\ runtime.life = "running"
                        THEN Resized(f) ELSE runtime
          /\ UNCHANGED down
       \/ /\ f.kind = "close"
          /\ runtime' = Unsubscribed(runtime, Owned(w))
          /\ UNCHANGED down
    /\ link' = Told(runtime')
    /\ UNCHANGED <<holder, client, left>>

-----------------------------------------------------------------------------
(* The browser client: what a callback does to it, and the frames it sends *)

NewSurface(mount, size) ==
    [mount |-> mount, visible |-> TRUE, size |-> size, chan |-> None, awaiting |-> FALSE,
     want |-> None, sent |-> None, phase |-> "none", rev |-> 0, expected |-> 0,
     shown |-> {}, ended |-> FALSE]
NoSurface(s) == [NewSurface(0, FirstSize[s]) EXCEPT !.visible = FALSE]

Mounted(c) == {s \in Surfaces : c.view[s].mount # 0}
\* In the order they were mounted.
Showing(c) ==
    InOrder({s \in Mounted(c) : c.view[s].visible}, [s \in Surfaces |-> c.view[s].mount])

Send(c, f) == IF c.ws = None THEN c ELSE [c EXCEPT !.out = Append(@, f)]

\* The answers to SUBSCRIBE are paired with the requests in their order.
Asked(c, s) == [surf |-> s, mount |-> c.view[s].mount]
Asking(v) == [v EXCEPT !.awaiting = TRUE, !.sent = v.size]
Subscription(c, s) ==
    [kind |-> "subscribe", surf |-> s, mount |-> c.view[s].mount, size |-> c.view[s].size]
SendSubscribe(c, s) ==
    Send([c EXCEPT !.acks = Append(@, Asked(c, s)), !.view[s] = Asking(@)],
         Subscription(c, s))

CloseChannel(c, s) ==
    LET v == c.view[s]
        told == IF v.chan = None THEN c
                ELSE Send(c, [kind |-> "unsubscribe", chan |-> v.chan])
    IN [told EXCEPT !.view[s] = [v EXCEPT !.chan = None, !.phase = "none", !.sent = None]]

FlushResize(c, s) ==
    LET v == c.view[s]
        flushed == [c EXCEPT !.view[s].want = None]
    IN IF c.ws = None \/ ~v.visible \/ v.chan = None \/ v.want = None THEN c
       ELSE IF v.sent = v.want THEN flushed
       ELSE Send([flushed EXCEPT !.view[s].sent = v.want],
                 [kind |-> "resize", chan |-> v.chan, size |-> v.want])

\* The socket is gone, and every channel with it.
Forgotten(c) ==
    [c EXCEPT !.ws = None, !.broken = FALSE, !.acks = <<>>,
              !.view = [s \in Surfaces |->
                  IF s \in Mounted(c)
                  THEN [c.view[s] EXCEPT !.chan = None, !.phase = "none",
                                         !.awaiting = FALSE, !.sent = None,
                                         !.want = c.view[s].size]
                  ELSE c.view[s]]]

\* The client's part of a step: its new state, and its frames on the socket.
Sends(c) ==
    /\ client' = [c EXCEPT !.out = <<>>]
    /\ up' = IF c.ws = None \/ c.broken THEN up ELSE [up EXCEPT ![c.ws] = @ \o c.out]

-----------------------------------------------------------------------------
(* Its actions *)

\* A socket opens: every visible surface subscribes again.
Connect ==
    /\ client.ws = None /\ Mounted(client) # {} /\ client.made < Len(up)
    /\ LET all == Showing(client)
       IN Sends([client EXCEPT
                    !.ws = client.made + 1, !.made = @ + 1,
                    !.acks = @ \o [i \in 1..Len(all) |-> Asked(client, all[i])],
                    !.view = [s \in Surfaces |-> IF s \in ToSet(all) THEN Asking(@[s]) ELSE @[s]],
                    !.out = @ \o [i \in 1..Len(all) |-> Subscription(client, all[i])]])
    /\ UNCHANGED <<holder, link, runtime, down, left>>

\* The socket is lost with the tail of what is on it; each end finds out after
\* it has read the rest.
SocketBreaks(w, m, n) ==
    /\ client.ws = w /\ ~client.broken
    /\ Spends("drops")
    /\ up' = [up EXCEPT ![w] = Append(SubSeq(@, 1, m), [kind |-> "close"])]
    /\ down' = Append(SubSeq(down, 1, n), Closed)
    /\ client' = [client EXCEPT !.broken = TRUE]
    /\ UNCHANGED <<holder, link, runtime>>

SetVisibility(s) ==
    /\ s \in Mounted(client)
    /\ Spends("looks")
    /\ LET v == client.view[s]
           c == [client EXCEPT !.view[s].visible = ~@]
       IN Sends(IF v.visible THEN CloseChannel(c, s)
                ELSE IF c.ws # None /\ v.chan = None /\ ~v.awaiting
                THEN SendSubscribe(c, s) ELSE c)
    /\ UNCHANGED <<holder, link, runtime, down>>

Mount(s) ==
    /\ s \notin Mounted(client)
    /\ Spends("looks")
    /\ LET c == [client EXCEPT !.mounts = @ + 1,
                               !.view[s] = NewSurface(client.mounts + 1, FirstSize[s])]
       IN Sends(IF c.ws # None THEN SendSubscribe(c, s) ELSE c)
    /\ UNCHANGED <<holder, link, runtime, down>>

\* The last surface closes the socket behind what it has sent.
Unmount(s) ==
    /\ s \in Mounted(client)
    /\ Spends("looks")
    /\ LET closed == CloseChannel(client, s)
           gone == [closed EXCEPT !.view[s] = NoSurface(s)]
       IN IF Mounted(gone) # {} THEN Sends(gone) /\ UNCHANGED down
          ELSE /\ client' = [Forgotten(gone) EXCEPT !.out = <<>>]
               /\ up' = IF gone.ws = None \/ gone.broken THEN up
                        ELSE [up EXCEPT ![gone.ws] =
                                  @ \o Append(gone.out, [kind |-> "close"])]
               /\ down' = <<>>
    /\ UNCHANGED <<holder, link, runtime>>

SendResize(s, size) ==
    /\ s \in Mounted(client) /\ client.view[s].size # size
    /\ Spends("resizes")
    /\ Sends(FlushResize([client EXCEPT !.view[s].size = size, !.view[s].want = size], s))
    /\ UNCHANGED <<holder, link, runtime, down>>

\* An ACK is for the surface that asked first: one that was unmounted or
\* mounted anew meanwhile gives the channel back, one that hid closes it.
\* Mutant: the channel of a surface that went away stays open.
OnSubscribeAck_KeepsOrphan(c, f) ==
    IF c.acks = <<>> THEN c
    ELSE LET s == Head(c.acks).surf
             rest == [c EXCEPT !.acks = Tail(@)]
             opened == [rest EXCEPT !.view[s].chan = f.chan, !.view[s].awaiting = FALSE,
                                    !.view[s].phase = "baseline"]
         IN IF c.view[s].mount # Head(c.acks).mount THEN rest
            ELSE IF ~c.view[s].visible THEN CloseChannel(opened, s)
            ELSE FlushResize(opened, s)
OnSubscribeAck(c, f) ==
    IF c.acks = <<>> THEN c
    ELSE LET asked == Head(c.acks)
             s == asked.surf
             rest == [c EXCEPT !.acks = Tail(@)]
             opened == [rest EXCEPT !.view[s].chan = f.chan, !.view[s].awaiting = FALSE,
                                    !.view[s].phase = "baseline"]
         IN IF c.view[s].mount # asked.mount
            THEN Send(rest, [kind |-> "unsubscribe", chan |-> f.chan])
            ELSE IF ~c.view[s].visible THEN CloseChannel(opened, s)
            ELSE FlushResize(opened, s)

OnError(c) ==
    IF c.acks = <<>> THEN c
    ELSE LET asked == Head(c.acks)
             rest == [c EXCEPT !.acks = Tail(@)]
         IN IF c.view[asked.surf].mount # asked.mount THEN rest
            ELSE [rest EXCEPT !.view[asked.surf].awaiting = FALSE]

OnSnapshot(c, s, f) ==
    IF c.view[s].phase = "live" /\ f.rev < c.view[s].rev THEN c
    ELSE [c EXCEPT !.view[s] = [@ EXCEPT !.phase = "live", !.rev = f.rev,
                                         !.expected = f.offset, !.shown = f.screen]]

\* A chunk that continues the baseline is shown, one that was seen is not, and
\* a gap replaces the channel.
\* Mutant: the channel is closed and not replaced.
OnOutput_NotReplaced(c, s, f) ==
    LET v == c.view[s] IN
    IF v.phase # "live" \/ f.rev < v.rev THEN c
    ELSE IF f.chunk = v.expected + 1
    THEN [c EXCEPT !.view[s] = [v EXCEPT !.rev = f.rev, !.expected = f.chunk,
                                         !.shown = @ \cup {f.chunk}]]
    ELSE IF f.rev = v.rev /\ f.chunk <= v.expected THEN c
    ELSE CloseChannel(c, s)
OnOutput(c, s, f) ==
    LET v == c.view[s] IN
    IF v.phase # "live" \/ f.rev < v.rev THEN c
    ELSE IF f.chunk = v.expected + 1
    THEN [c EXCEPT !.view[s] = [v EXCEPT !.rev = f.rev, !.expected = f.chunk,
                                         !.shown = @ \cup {f.chunk}]]
    ELSE IF f.rev = v.rev /\ f.chunk <= v.expected THEN c
    ELSE LET closed == CloseChannel(c, s)
         IN IF v.visible THEN SendSubscribe(closed, s) ELSE closed

Handled(c, f) ==
    LET at == {s \in Surfaces : c.view[s].chan = f.chan}
        s == CHOOSE t \in at : TRUE
    IN CASE f.kind = "ack" -> OnSubscribeAck(c, f)
         [] f.kind = "snapshot" -> IF at = {} THEN c ELSE OnSnapshot(c, s, f)
         [] f.kind = "output" -> IF at = {} THEN c ELSE OnOutput(c, s, f)
         [] f.kind = "exit" -> IF at = {} THEN c ELSE [c EXCEPT !.view[s].ended = TRUE]
         [] f.kind = "error" -> OnError(c)
         [] f.kind = "closed" -> Forgotten(c)

ClientReads ==
    /\ down # <<>>
    /\ down' = Tail(down)
    /\ Sends(Handled(client, Head(down)))
    /\ UNCHANGED <<holder, link, runtime, left>>

-----------------------------------------------------------------------------
Init ==
    /\ holder = [emitted |-> 0, exited |-> FALSE, gone |-> FALSE, pty |-> None]
    /\ link = [LinkGone EXCEPT !.state = "up"]
    /\ runtime = [screen |-> {}, inbox |-> <<>>, offset |-> 0, subs |-> <<>>, next |-> 1,
                  owner |-> None, commanded |-> None, rev |-> 0, life |-> "running"]
    /\ left \in Budgets
    /\ up = [w \in 1..(left.drops + left.looks + 1) |-> <<>>]
    /\ down = <<>>
    /\ \E order \in {q \in [Surfaces -> 1..Cardinality(Surfaces)] :
                        \A s, t \in Surfaces : q[s] = q[t] => s = t} :
          client = [ws |-> None, made |-> 0, broken |-> FALSE, acks |-> <<>>, out |-> <<>>,
                    mounts |-> Cardinality(Surfaces),
                    view |-> [s \in Surfaces |-> NewSurface(order[s], FirstSize[s])]]

\* What goes on by itself.
SystemStep ==
    \/ HolderResizes
    \/ HolderEnds
    \/ LinkEnds
    \/ Attach
    \/ Adopted
    \/ FinishRecovery
    \/ ConfirmedAbsence
    \/ ExitObserved
    \/ ReceiveOutput
    \/ Parse
    \/ \E w \in Sockets : RouterReads(w)
    \/ Connect
    \/ ClientReads

Next ==
    \/ SystemStep
    \/ Emit
    \/ ChildExits
    \/ LinkDrops
    \/ \E n \in 0..Len(down), w \in Sockets :
          \E m \in 0..Len(up[w]) : SocketBreaks(w, m, n)
    \/ \E s \in Surfaces : SetVisibility(s) \/ Mount(s) \/ Unmount(s)
    \/ \E s \in Surfaces, size \in Sizes : SendResize(s, size)

Spec == Init /\ [][Next]_vars
LiveSpec == Spec /\ WF_vars(SystemStep)

-----------------------------------------------------------------------------
(* Properties *)

Count(frames, kinds) == Cardinality({i \in 1..Len(frames) : frames[i].kind \in kinds})
ToldChunks == (runtime.screen \cup ToSet(runtime.inbox)) \ {None}

\* What a surface shows is the authoritative screen up to the point it has
\* read: no chunk twice or skipped, though the screen is parsed later than it
\* is told, chunks are lost with the link and sizes change in between.  A
\* surface that was told of the exit shows everything there will be.
ScreenAgrees ==
    \A s \in Surfaces :
        LET v == client.view[s] IN
        /\ v.phase = "live" => v.shown = {k \in ToldChunks : k <= v.expected}
        /\ v.ended => v.shown = runtime.screen

\* The client and the runtime agree on the channels, though answers carry no
\* name and are paired by their order: a surface's channel was opened for this
\* very mount of it, and a channel nobody has is on its way to be closed, so
\* that it cannot keep the size.
ChannelsPaired ==
    /\ client.ws # None /\ ~client.broken =>
          /\ Len(client.acks) = Count(down, {"ack", "error"})
                                + Count(up[client.ws], {"subscribe"})
          /\ \A s \in Surfaces :
                LET c == client.view[s].chan IN
                c # None /\ runtime.life # "retired" =>
                    /\ c \in Channels
                    /\ runtime.subs[c].surf = s
                    /\ runtime.subs[c].mount = client.view[s].mount
    /\ \A c \in Channels :
          LET w == runtime.subs[c].ws IN
          \/ \E s \in Surfaces : client.view[s].chan = c
          \/ \E i \in 1..Len(down) : down[i] = Ack(c)
          \/ \E i \in 1..Len(up[w]) :
                up[w][i] \in {[kind |-> "close"], [kind |-> "unsubscribe", chan |-> c]}

\* Once the router has read everything, the size commanded is the present one
\* of the longest-standing surface, whoever was hidden, mounted anew or cut off
\* meanwhile; and a holder that is connected has it, unless the link was lost
\* with a size on it.
SizeFollowsOwner ==
    runtime.life = "running" /\ down = <<>> /\ (\A w \in Sockets : up[w] = <<>>) =>
        /\ IF Channels = {} THEN runtime.owner = None
           ELSE /\ runtime.owner \in Channels
                /\ \A c \in Channels : runtime.owner <= c
                /\ runtime.commanded = client.view[runtime.subs[runtime.owner].surf].size
        /\ link.state = "up" /\ ~link.slot /\ link.in = <<>> /\ ~link.lost =>
              holder.pty = runtime.commanded

\* An exit that was observed is told, or the session retired, whether or not
\* its last output still arrives.
ExitResolves == runtime.life = "draining" ~> runtime.life \in {"exited", "retired"}

\* In the end every visible surface of a running session shows the whole of
\* its screen, over dropped sockets, lost links and gaps.
SurfacesCatchUp ==
    <>[](runtime.life = "running" =>
            \A s \in Mounted(client) :
                client.view[s].visible =>
                    /\ client.view[s].phase = "live"
                    /\ client.view[s].shown = runtime.screen)
=============================================================================
