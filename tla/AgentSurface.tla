----------------------------- MODULE AgentSurface -----------------------------
(***************************************************************************)
(* The transcript of one native agent on its way to a browser surface, and *)
(* the commands on their way back: the host process that owns the agent's  *)
(* driver (server/agents/host/runner.ts), the broker in the web server     *)
(* (server/agentSurfaceBroker.ts) and a surface with its row model         *)
(* (web/agentSurface).  Sockets drop, the web server restarts, the host is *)
(* replaced, and the broker waits twice, in the middle of one event, for   *)
(* the durable binding of the conversation and for the daemon.             *)
(*                                                                         *)
(* A message is its number in the conversation; an event carries a message *)
(* or, with message 0, the session-info naming the conversation.           *)
(***************************************************************************)
EXTENDS Integers, Sequences, FiniteSets

CONSTANTS
    Budgets,        \* what may happen in one behaviour: records of how many
                    \*   spawns    host processes after the first
                    \*   looks     connections and visibility changes of the surface
                    \*   says      messages of the conversation
                    \*   drops     sockets lost
                    \*   restarts  restarts of the web server
                    \*   commands  commands given to the agent
                    \*   faults    bindings, completions and terminations that
                    \*             fail, host processes that die, another
                    \*             conversation opened
    HostRing        \* committed events a host keeps for a reconnection

ASSUME SurfaceAssumption ==
    /\ Budgets \subseteq [spawns : Nat, looks : Nat, says : Nat, drops : Nat,
                          restarts : Nat, commands : Nat, faults : Nat]
    /\ HostRing \in Nat \ {0}

VARIABLES
    said,       \* messages the agent's own store holds
    host,       \* the latest host process
    up, down,   \* frames on its socket, towards the broker and back
    broker,     \* the broker's entry of the session
    bound,      \* the conversation bound in the manifest, 0 when none is
    surface,    \* the surface of the browser
    cmds,       \* what the caller of each command was told
    ran,        \* the commands the driver carried out, each with whether its
                \*   driver returned or threw after it had acted
    hasty,      \* an event was sent on a socket before its hello-ack came
    left        \* what may still happen

vars == <<said, host, up, down, broker, bound, surface, cmds, ran, hasty, left>>

Commands == 1..Len(cmds)
Conversations == 1..2
NoEvent == [seq |-> 0, msg |-> 0, conv |-> 0]

\* The connection a job or the session entry belongs to.
NoConn == [spawn |-> 0, n |-> 0]
ThisConn == [spawn |-> host.spawn, n |-> host.n]

\* A process that has not yet said hello, its driver not yet loaded.
NewHost(spawn, conv, base) ==
    [spawn |-> spawn, base |-> base, alive |-> TRUE, n |-> 0, link |-> "down", met |-> FALSE,
     driver |-> "none", conv |-> conv, seq |-> 0, ring |-> <<>>, early |-> <<>>,
     informed |-> FALSE, fills |-> <<>>, queue |-> <<>>, busy |-> 0,
     replaying |-> FALSE]

NewEntry ==
    [host |-> NoConn, auth |-> 0, spawn |-> 0, kept |-> 0, lastSeq |-> 0,
     ring |-> <<>>, tail |-> <<>>]

RingMessages == {broker.ring[i].msg : i \in 1..Len(broker.ring)} \ {0}
Ready == host.driver \in {"filling", "draining", "started"}
Linked == host.link # "down"
Spends(what) == left[what] > 0 /\ left' = [left EXCEPT ![what] = @ - 1]
Fault == Spends("faults")

-----------------------------------------------------------------------------
(* The surface: rowsModel.ts, agentSurfaceClient.ts *)

\* The snapshot replaces the rows and the watermark.
\* Mutant: the watermark of the rows replaced stays.
Snapshotted_KeepsMark(s, entry) ==
    [s EXCEPT !.rows = {entry.ring[i].msg : i \in 1..Len(entry.ring)} \ {0}]
Snapshotted(s, entry) ==
    [s EXCEPT !.rows = {entry.ring[i].msg : i \in 1..Len(entry.ring)} \ {0},
              !.mark = entry.lastSeq]

\* An event at or below the watermark is a duplicate.
Applied(s, e) ==
    IF e.seq <= s.mark THEN s
    ELSE [s EXCEPT !.rows = @ \cup ({e.msg} \ {0}), !.mark = e.seq]

\* A connection made or made again: a hidden surface gets no snapshot.
Subscribe ==
    /\ ~surface.up
    /\ Spends("looks")
    /\ surface' = IF surface.visible
                  THEN Snapshotted([surface EXCEPT !.up = TRUE], broker)
                  ELSE [surface EXCEPT !.up = TRUE]
    /\ UNCHANGED <<said, host, up, down, broker, bound, cmds, ran, hasty>>

SetVisibility ==
    LET turned == [surface EXCEPT !.visible = ~@] IN
    /\ Spends("looks")
    /\ surface' = IF surface.up /\ turned.visible
                  THEN Snapshotted(turned, broker) ELSE turned
    /\ UNCHANGED <<said, host, up, down, broker, bound, cmds, ran, hasty>>

BrowserDrops ==
    /\ surface.up
    /\ Spends("drops")
    /\ surface' = [surface EXCEPT !.up = FALSE]
    /\ UNCHANGED <<said, host, up, down, broker, bound, cmds, ran, hasty>>

-----------------------------------------------------------------------------
(* What the host emits *)

Frame(kind, e, cmd, out) == [kind |-> kind, e |-> e, cmd |-> cmd, out |-> out]
EventFrame(e) == Frame("event", e, 0, "")
Result(cmd, out) == Frame("result", NoEvent, cmd, out)

\* Frames go out when the socket is open, also before its hello-ack came.
Sending(frames) == up' = IF Linked THEN up \o frames ELSE up

\* The messages, 0 standing for the session-info, numbered and kept.
Numbered(h, msgs) ==
    [i \in 1..Len(msgs) |->
        [seq |-> h.seq + i, msg |-> msgs[i], conv |-> IF msgs[i] = 0 THEN h.conv ELSE 0]]

LastOf(events) == SubSeq(events, IF Len(events) > HostRing THEN Len(events) - HostRing + 1
                                 ELSE 1, Len(events))

Emitted(h, msgs) ==
    [h EXCEPT !.seq = @ + Len(msgs),
              !.ring = LastOf(@ \o Numbered(h, msgs)),
              !.informed = @ \/ \E i \in 1..Len(msgs) : msgs[i] = 0]

Emitting(h, msgs) ==
    LET events == Numbered(h, msgs) IN
    /\ host' = Emitted(h, msgs)
    /\ hasty' = (hasty \/ (h.link = "hello" /\ msgs # <<>>))
    /\ Sending([i \in 1..Len(msgs) |-> EventFrame(events[i])])

\* The provider's history of the conversation.
History(k) == [i \in 1..(k - host.base) |-> host.base + i]
Without(s, i) == SubSeq(s, 1, i - 1) \o SubSeq(s, i + 1, Len(s))

\* The start of runBackfill, before its await.
Filling(h, kind) == [h EXCEPT !.fills = Append(@, [kind |-> kind, upTo |-> said])]

-----------------------------------------------------------------------------
(* The host process: runner.ts *)

\* A new process, for a new generation of the session, resumes the bound
\* conversation, or starts afresh without one; or it opens another.
Spawn(conv) ==
    LET other == conv # (IF bound = 0 THEN 1 ELSE bound) IN
    /\ ~host.alive
    /\ left.spawns > 0
    /\ other => left.faults > 0
    /\ left' = [left EXCEPT !.spawns = @ - 1, !.faults = IF other THEN @ - 1 ELSE @]
    /\ host' = NewHost(host.spawn + 1, conv, IF bound = 0 THEN said ELSE host.base)
    /\ UNCHANGED <<said, up, down, broker, bound, surface, cmds, ran, hasty>>

\* Mutant: nothing of the ring is sent again.
TailAfter_Nothing(lastSeq) == <<>>
\* The ring is in the order of its numbers: what is above lastSeq is its end.
TailAfter(lastSeq) ==
    LET old == {i \in 1..Len(host.ring) : host.ring[i].seq <= lastSeq}
    IN SubSeq(host.ring, Cardinality(old) + 1, Len(host.ring))

Acked == [host EXCEPT !.link = "acked"]

\* handleHelloAck: first the driver is loaded; later the tail of the ring is
\* sent again, or all of the history when the broker knows nothing.
HandleHelloAck ==
    LET f == Head(down)
        tail == TailAfter(f.e.seq) IN
    /\ down # <<>>
    /\ f.kind = "ack"
    /\ down' = Tail(down)
    /\ \/ /\ ~host.met
          /\ host' = [Acked EXCEPT !.met = TRUE, !.driver = "starting"]
          /\ UNCHANGED <<up, hasty>>
       \/ /\ host.met /\ f.e.seq > 0
          /\ host' = Acked
          /\ Sending([i \in 1..Len(tail) |-> EventFrame(tail[i])])
          /\ UNCHANGED hasty
       \/ /\ host.met /\ f.e.seq = 0
          /\ Emitting(Filling(Acked, "again"), IF host.informed THEN <<0>> ELSE <<>>)
    /\ UNCHANGED <<said, broker, bound, surface, cmds, ran, left>>

\* driver.start returns: session-info, then what the driver said meanwhile, and
\* the initial backfill.
DriverStarts ==
    /\ host.alive
    /\ host.driver = "starting"
    /\ Emitting(Filling([host EXCEPT !.driver = "filling", !.early = <<>>], "first"),
                <<0>> \o host.early)
    /\ UNCHANGED <<said, down, broker, bound, surface, cmds, ran, left>>

\* The history read at any time since the backfill began.
FillEnds(i, k) ==
    LET fill == host.fills[i]
        rest == [host EXCEPT !.fills = Without(@, i)] IN
    /\ host.alive
    /\ k >= fill.upTo
    /\ Emitting(IF fill.kind = "first" THEN [rest EXCEPT !.driver = "draining"] ELSE rest,
                History(k))
    /\ UNCHANGED <<said, down, broker, bound, surface, cmds, ran, left>>

\* The agent says something: an event, or one more event of the driver's start.
\* Only the first conversation speaks, and only where it may be bound.
Say ==
    /\ host.alive
    /\ host.conv = 1 /\ bound # 2
    /\ Spends("says")
    /\ said' = said + 1
    /\ \/ /\ host.driver = "starting"
          /\ host' = [host EXCEPT !.early = Append(@, said + 1)]
          /\ UNCHANGED <<up, hasty>>
       \/ Ready /\ Emitting(host, <<said + 1>>)
    /\ UNCHANGED <<down, broker, bound, surface, cmds, ran>>

Verdicts == {"ok", "refused", "retryable"}

\* runCommand: one at a time.
Running(h, c) == [h EXCEPT !.busy = c]

Idle == host.busy = 0

RouteCommand ==
    LET c == Head(down).cmd IN
    /\ down # <<>>
    /\ Head(down).kind = "command"
    /\ down' = Tail(down)
    /\ \/ ~Ready /\ host' = [host EXCEPT !.queue = Append(@, c)] /\ UNCHANGED up
       \/ Ready /\ Idle /\ host' = Running(host, c) /\ UNCHANGED up
       \/ Ready /\ ~Idle /\ Sending(<<Result(c, "refused")>>) /\ UNCHANGED host
    /\ UNCHANGED <<said, broker, bound, surface, cmds, ran, hasty, left>>

\* What was queued during the start is run after the initial backfill, one
\* command after the other.
DrainCommandQueue ==
    /\ host.alive
    /\ host.driver = "draining"
    /\ ~host.replaying
    /\ \/ /\ host.queue = <<>>
          /\ host' = [host EXCEPT !.driver = "started"]
          /\ UNCHANGED up
       \/ /\ host.queue # <<>> /\ Idle
          /\ host' = [Running(host, Head(host.queue)) EXCEPT !.queue = Tail(@),
                                                             !.replaying = TRUE]
          /\ UNCHANGED up
       \/ /\ host.queue # <<>> /\ ~Idle
          /\ host' = [host EXCEPT !.queue = Tail(@)]
          /\ Sending(<<Result(Head(host.queue), "refused")>>)
    /\ UNCHANGED <<said, down, broker, bound, surface, cmds, ran, hasty, left>>

\* The driver returns, or throws: a typed error keeps its disposition, any other
\* is answered as worth a retry.  A driver that throws may have acted: codex's
\* inject has written turn/start, and its promise is rejected with a plain Error
\* when the app-server exits before it answers.
RunEnds(out, acted) ==
    /\ host.alive
    /\ host.busy # 0
    /\ out = "ok" => acted
    /\ ran' = IF acted THEN Append(ran, [cmd |-> host.busy, sure |-> out = "ok"]) ELSE ran
    /\ host' = [host EXCEPT !.busy = 0, !.replaying = FALSE]
    /\ Sending(<<Result(host.busy, out)>>)
    /\ UNCHANGED <<said, down, broker, bound, surface, cmds, hasty, left>>

\* What was on its way is lost with the socket.
LinkEnds(h) ==
    /\ host' = [h EXCEPT !.link = "down"]
    /\ up' = <<>>
    /\ down' = <<>>

SocketDrops ==
    /\ host.alive
    /\ Linked
    /\ Spends("drops")
    /\ LinkEnds(host)
    /\ UNCHANGED <<said, broker, bound, surface, cmds, ran, hasty>>

HostDies ==
    /\ host.alive
    /\ Fault
    /\ LinkEnds([host EXCEPT !.alive = FALSE])
    /\ UNCHANGED <<said, broker, bound, surface, cmds, ran, hasty>>

-----------------------------------------------------------------------------
(* The broker: agentSurfaceBroker.ts *)

\* The promise chain runs an event it has not begun before anything else.
Pending == broker.tail # <<>> /\ Head(broker.tail).stage = "queued"
Awaiting(stage) == broker.tail # <<>> /\ Head(broker.tail).stage = stage
Receives(kind) == up # <<>> /\ Head(up).kind = kind
Staged(entry, stage) == [entry EXCEPT !.tail[1].stage = stage]
Served(entry) == [entry EXCEPT !.tail = Tail(@)]

\* Mutant: the host is not looked at again after an await.
StillHost_Unchecked(job) == TRUE
StillHost(job) == broker.host = job.conn

\* sendHello and handleHostHello: the hello is the first frame of a socket, and
\* what the host sends before the hello-ack comes is behind it.  Another process
\* starts an empty ring, and a surface that shows the old one is told at once.
Connect ==
    LET changed == broker.spawn # 0 /\ broker.spawn # host.spawn
        entry == IF changed THEN [broker EXCEPT !.ring = <<>>, !.lastSeq = 0, !.kept = 0]
                 ELSE broker
        auth == IF entry.kept # 0 THEN entry.kept ELSE bound
        conn == [ThisConn EXCEPT !.n = @ + 1] IN
    /\ host.alive
    /\ ~Linked
    /\ host' = [host EXCEPT !.link = "hello", !.n = @ + 1]
    /\ broker' = [entry EXCEPT !.spawn = host.spawn, !.host = conn,
                               !.auth = auth, !.kept = auth]
    /\ down' = <<Frame("ack", [NoEvent EXCEPT !.seq = entry.lastSeq], 0, "")>>
    /\ surface' = IF changed /\ surface.up THEN Snapshotted(surface, entry) ELSE surface
    /\ UNCHANGED <<said, up, bound, cmds, ran, hasty, left>>

\* handleHostFrame: an event joins the chain.
HostEvent ==
    /\ Receives("event")
    /\ up' = Tail(up)
    /\ broker' = IF broker.host = ThisConn
                 THEN [broker EXCEPT !.tail =
                        Append(@, [conn |-> ThisConn, e |-> Head(up).e, stage |-> "queued"])]
                 ELSE broker
    /\ UNCHANGED <<said, host, down, bound, surface, cmds, ran, hasty, left>>

\* handleCommandResult: only a command still in flight is answered.
CommandResult ==
    LET f == Head(up) IN
    /\ Receives("result")
    /\ up' = Tail(up)
    /\ cmds' = IF broker.host = ThisConn /\ cmds[f.cmd] = "inflight"
               THEN [cmds EXCEPT ![f.cmd] = f.out] ELSE cmds
    /\ UNCHANGED <<said, host, down, broker, bound, surface, ran, hasty, left>>

\* retainHostEvent and fanEventToSurfaces.
Retain(entry, job) ==
    /\ broker' = Served([entry EXCEPT
                    !.lastSeq = job.e.seq,
                    !.ring = Append(@, [spawn |-> job.conn.spawn, seq |-> job.e.seq,
                                        msg |-> job.e.msg])])
    /\ surface' = IF surface.up THEN Applied(surface, job.e) ELSE surface

\* rejectProviderIdentity, up to its await.
Rejected(job) ==
    LET own == broker.spawn = job.conn.spawn IN
    /\ broker' = Staged([broker EXCEPT
                    !.kept = IF own THEN 0 ELSE @,
                    !.auth = IF StillHost(job) THEN 0 ELSE @,
                    !.host = IF StillHost(job) THEN NoConn ELSE @], "terminating")
    /\ IF host.alive /\ Linked /\ job.conn = ThisConn
       THEN LinkEnds(host) ELSE UNCHANGED <<host, up, down>>

\* handleHostEvent up to its first await.
IsNew(e) == e.seq > broker.lastSeq

HandleHostEvent ==
    LET job == Head(broker.tail)
        current == broker.host = job.conn /\ IsNew(job.e)
        changed == broker.auth \notin {0, job.e.conv} IN
    /\ Pending
    /\ \/ /\ ~current
          /\ broker' = Served(broker)
          /\ UNCHANGED <<host, up, down, surface>>
       \/ /\ current /\ job.e.msg # 0
          /\ Retain(broker, job)
          /\ UNCHANGED <<host, up, down>>
       \/ /\ current /\ job.e.msg = 0 /\ changed
          /\ Rejected(job)
          /\ UNCHANGED surface
       \/ /\ current /\ job.e.msg = 0 /\ ~changed
          /\ broker' = Staged(broker, "binding")
          /\ UNCHANGED <<host, up, down, surface>>
    /\ UNCHANGED <<said, bound, cmds, ran, hasty, left>>

\* bindProviderSessionIdentity writes the manifest, unless it names another.
BindingCommits ==
    LET job == Head(broker.tail) IN
    /\ Awaiting("binding")
    /\ bound \in {0, job.e.conv}
    /\ bound' = job.e.conv
    /\ broker' = Staged(broker, "bound")
    /\ UNCHANGED <<said, host, up, down, surface, cmds, ran, hasty, left>>

BindingRefused ==
    LET job == Head(broker.tail) IN
    /\ Awaiting("binding")
    /\ \/ bound \notin {0, job.e.conv} /\ UNCHANGED left
       \/ Fault
    /\ Rejected(job)
    /\ UNCHANGED <<said, bound, surface, cmds, ran, hasty>>

BindingReturns ==
    LET job == Head(broker.tail) IN
    /\ Awaiting("bound")
    /\ broker' = IF StillHost(job) THEN Staged(broker, "completing") ELSE Served(broker)
    /\ UNCHANGED <<said, host, up, down, bound, surface, cmds, ran, hasty, left>>

\* completeLaunchAuthorization answers.
LaunchCompletes ==
    LET job == Head(broker.tail) IN
    /\ Awaiting("completing")
    /\ IF StillHost(job)
       THEN Retain([broker EXCEPT !.auth = job.e.conv, !.kept = job.e.conv], job)
       ELSE broker' = Served(broker) /\ UNCHANGED surface
    /\ UNCHANGED <<said, host, up, down, bound, cmds, ran, hasty, left>>

CompletionFails ==
    /\ Awaiting("completing")
    /\ Fault
    /\ Rejected(Head(broker.tail))
    /\ UNCHANGED <<said, bound, surface, cmds, ran, hasty>>

\* terminateNativeGeneration: the daemon retires that generation, or fails to.
Terminates ==
    LET job == Head(broker.tail) IN
    /\ Awaiting("terminating")
    /\ broker' = Served(broker)
    /\ \/ /\ IF host.alive /\ host.spawn = job.conn.spawn
             THEN LinkEnds([host EXCEPT !.alive = FALSE])
             ELSE UNCHANGED <<host, up, down>>
          /\ UNCHANGED left
       \/ Fault /\ UNCHANGED <<host, up, down>>
    /\ UNCHANGED <<said, bound, surface, cmds, ran, hasty>>

\* handleHostGone: the close of the current host's socket is noticed.
HostGone ==
    /\ broker.host # NoConn
    /\ ~(host.alive /\ Linked /\ broker.host = ThisConn)
    /\ broker' = [broker EXCEPT !.host = NoConn, !.auth = 0]
    /\ UNCHANGED <<said, host, up, down, bound, surface, cmds, ran, hasty, left>>

\* browserSend and injectUserMessage.  A command for a socket that is closed,
\* and not yet known to be, goes nowhere and times out.
SendCommand ==
    /\ Spends("commands")
    /\ \/ /\ broker.auth = 0
          /\ \E out \in {"retryable", "refused"} : cmds' = Append(cmds, out)
          /\ UNCHANGED down
       \/ /\ broker.auth # 0
          /\ cmds' = Append(cmds, "inflight")
          /\ down' = IF broker.host = ThisConn /\ Linked
                     THEN Append(down, Frame("command", NoEvent, Len(cmds) + 1, ""))
                     ELSE down
    /\ UNCHANGED <<said, host, up, broker, bound, surface, ran, hasty>>

\* Mutant: a timeout is answered as worth a retry.
TimedOut_Retryable == "retryable"
TimedOut == "timeout"

CommandTimesOut(c) ==
    /\ cmds[c] = "inflight"
    /\ cmds' = [cmds EXCEPT ![c] = TimedOut]
    /\ UNCHANGED <<said, host, up, down, broker, bound, surface, ran, hasty, left>>

\* The web server restarts: its memory is gone, and every socket with it.
Restart ==
    /\ Spends("restarts")
    /\ broker' = NewEntry
    /\ LinkEnds(host)
    /\ surface' = [surface EXCEPT !.up = FALSE]
    /\ cmds' = [c \in Commands |-> IF cmds[c] = "inflight" THEN "lost" ELSE cmds[c]]
    /\ UNCHANGED <<said, bound, ran, hasty>>

-----------------------------------------------------------------------------
Init ==
    /\ bound \in {0, 1}
    /\ said \in 0..bound
    /\ host = NewHost(1, 1, 0)
    /\ up = <<>>
    /\ down = <<>>
    /\ broker = NewEntry
    /\ surface = [up |-> FALSE, visible |-> TRUE, rows |-> {}, mark |-> -1]
    /\ cmds = <<>>
    /\ ran = <<>>
    /\ hasty = FALSE
    /\ left \in Budgets

HostStep ==
    \/ HandleHelloAck
    \/ DriverStarts
    \/ \E i \in 1..Len(host.fills), k \in 0..said : FillEnds(i, k)
    \/ RouteCommand
    \/ DrainCommandQueue
    \/ \E out \in Verdicts, acted \in BOOLEAN : RunEnds(out, acted)

BrokerStep ==
    \/ Connect
    \/ HostEvent
    \/ CommandResult
    \/ BindingCommits
    \/ BindingRefused
    \/ BindingReturns
    \/ LaunchCompletes
    \/ CompletionFails
    \/ Terminates
    \/ HostGone

SurfaceStep == Subscribe \/ SetVisibility \/ BrowserDrops

Step ==
    \/ HostStep
    \/ BrokerStep
    \/ SurfaceStep
    \/ \E conv \in Conversations : Spawn(conv)
    \/ Say
    \/ SocketDrops
    \/ HostDies
    \/ SendCommand
    \/ \E c \in Commands : CommandTimesOut(c)
    \/ Restart

Next == (Pending /\ HandleHostEvent) \/ (~Pending /\ Step)

Spec == Init /\ [][Next]_vars
LiveSpec ==
    /\ Spec
    /\ WF_vars(HandleHostEvent)
    /\ WF_vars(~Pending /\ HostStep)
    /\ WF_vars(~Pending /\ BrokerStep)

-----------------------------------------------------------------------------
(* Properties *)

Outcomes == {"inflight", "ok", "refused", "retryable", "timeout", "lost"}

\* The state has its type; nothing is on a socket that is closed; and a
\* connection the broker trusts is trusted for the bound conversation.
TypeOK ==
    /\ said \in Nat
    /\ host.link \in {"down", "hello", "acked"}
    /\ host.driver \in {"none", "starting", "filling", "draining", "started"}
    /\ host.link = "down" => up = <<>> /\ down = <<>>
    /\ broker.host # NoConn => broker.host.spawn = broker.spawn
    /\ broker.auth \in {0, bound} /\ broker.kept \in {0, bound}
    /\ bound \in {0} \cup Conversations
    /\ surface.rows \subseteq 1..said
    /\ \A c \in Commands : cmds[c] \in Outcomes

\* The ring is one process's story in order: no event of an older process
\* follows the hello of a newer one, although its handler may have waited for
\* the manifest and the daemon meanwhile, and no event is there twice.
RingOfOneSpawn ==
    /\ \A i \in 1..Len(broker.ring) : broker.ring[i].spawn = broker.spawn
    /\ \A i, j \in 1..Len(broker.ring) : i < j => broker.ring[i].seq < broker.ring[j].seq

\* A surface that is connected and visible shows exactly the messages of the
\* ring, whatever it missed while it was hidden, cut off, or showing another
\* process's transcript.
VisibleShowsRing ==
    surface.up /\ surface.visible => surface.rows = RingMessages

\* What the caller of a command may try again was not carried out and will not
\* be, whatever was queued, resent or cut off on the way, unless the driver itself
\* threw after it had acted; and no command is carried out twice.
RetryIsSafe ==
    /\ \A i \in 1..Len(ran) : cmds[ran[i].cmd] = "retryable" => ~ran[i].sure
    /\ \A i, j \in 1..Len(ran) : ran[i].cmd = ran[j].cmd => i = j

Complete == (host.base + 1)..said \subseteq RingMessages

\* In the end a host that lives has told the broker the whole conversation,
\* whatever dropped and restarted, unless an event overtook an earlier one.
CatchesUp == <>[](host.alive /\ ~hasty => Complete)

\* "so transient socket drops don't lose committed events" (runner.ts:40): a
\* host whose socket is open and which has nothing left to send has told all.
Settled ==
    /\ host.link = "acked" /\ host.driver = "started" /\ host.fills = <<>>
    /\ up = <<>> /\ down = <<>> /\ broker.tail = <<>> /\ broker.host = ThisConn
ReconnectLosesNothing == Settled => Complete
=============================================================================
