# Desk, in TLA+

Desk runs coding agents in terminals and lets them talk to each other through
channels. This directory specifies the parts of it that are hard to test: the
delivery of channel messages into an agent's terminal, the intake of what agents
report of themselves, the life of a session and of the link to its terminal, the
handoff of a conversation between profiles, and what browsers are shown of
terminals and native agents. The specifications are translated from the
TypeScript sources (paths below are relative to the repository's `src/`
directory), checked with TLC on small instances, and proved about with TLAPS for
all instances.

    tlc -workers 2 -config restarts.cfg MCChannelDelivery.tla   # operator, timeouts
    tlc -workers 2 -config intake.cfg   MCAgentStateIntake.tla
    tlc -workers 2 -config input.cfg    MCHolderLink.tla        # input_out_of_step
    tlc -workers 2 -config sessions.cfg MCSessionLifecycle.tla  # reaper_kills_successor
    tlc -workers 2 -config handoff.cfg  MCProfileHandoff.tla
    tlc -workers 2 -config surface.cfg  MCAgentSurface.tla      # tail_overtaken
    tlc -workers 2 -config view.cfg     MCTerminalView.tla
    tlapm ChannelDelivery_proofs.tla
    tlapm AgentStateIntake_proofs.tla
    tlapm HolderLink_proofs.tla                                 # eight minutes
    tlapm SessionLifecycle_proofs.tla
    tlapm ProfileHandoff_proofs.tla                             # six minutes
    tlapm AgentSurface_proofs.tla
    tlapm TerminalView_proofs.tla                               # with the next, 20 minutes
    tlapm TerminalViewBase_proofs.tla

`PROJECT.json` holds the components, runs, mutants, findings, hazards and
theorems in a form tools can read, and for every definition the source lines it
translates.

## 1. The system

Four kinds of process matter. The *Desk server* serves the web interface, runs
the channels and brokers native agents. The *terminal daemon* outlives it and
owns the agents' sessions. One *holder* (`moor`, a vendored Rust program) per
session owns the terminal itself and outlives the daemon. Native agents run in a
*host* process with a socket to the server. Browsers, and the hooks and plugins
in the agents, are clients.

| component | state it keeps | operations | what is hard |
|---|---|---|---|
| delivery engine (`server/channels/delivery/engine.ts`) | one sequence counter and dedupe memory for all sessions; per session: queue, drain lock and generation, delivery in flight, pause flag | enqueue, drain, deliver, pump tick, console actions, restore | coroutines resuming after an await under another owner of the lock; timeouts; restarts |
| delivery durability (`delivery/durability.ts`) | one file per prompt, its extension the state | claim, confirm, revert, stuck files, sweep | a crash between two renames; names used again |
| operator pauses (`delivery/paused.ts`) | `paused.json` | pause, resume, restore | a pause racing a drain |
| channels wiring (`server/channels/api.ts`) | none | send wrapper, callbacks | a send that settles after its timeout |
| channel store and feed (`server/channels/store/*`) | channel files, the watcher's view of them | post, scan, prewarm | a message found twice, or not at all |
| supervision and routing (`server/channels/routing/*`) | idle windows, mentions | check-in, expansion | one check-in per window |
| agent-state intake (`shared/controlPlane/intake.ts`, `server/runtime/fileIntakeStore.ts`) | append-only acceptance log; receipts, watermarks, bound instances | accept, claim a number, replay | retries, reordering, a line cut short by a crash |
| endpoint store (`server/runtime/fileAgentEndpointStore.ts`) | snapshot of registered endpoints with poll counters | register, activate, reserve a poll | two files that must agree after a crash |
| agent-state authority (`shared/controlPlane/authority.ts`) | the state shown: lifecycle, activity, leases, watermarks | ingest, title fallback, liveness, exit | a second set of fences, not durable |
| generation ledger (`shared/controlPlane/generationLedger.ts`, `server/runtime/fileGenerationLedger.ts`) | highest generation per session | allocate | never reused after a crash |
| daemon core (`shared/runtime/daemonCore.ts`, `workerSupervisor.ts`) | live sessions, channels, admission slots | ensure, restore, retire, ingest, subscribe | half-done bring-up |
| session manager (`server/runtime/sessionManager.ts`) | per session: owner, link, recovery slot, teardown record, operation tail, queued input | spawn, retire, reset, recover, confirmed kill, reaper, input, prompt, resize | attaches, probes, kills and reapers ending after the session changed hands |
| holder client (`server/runtime/moorMasterClient.ts`) | pending requests, lease, retained request | attach, acquire, input, reset | a request written, unanswered, and sent again |
| terminal holder (`vendor/moor`) | lease and its owner, input numbers, rendezvous node | grant, accept, refuse, stop | foreign program: modelled from its use |
| session runtime (`shared/runtime/sessionRuntime.ts`) | screen, subscribers, owner of the size, pending exit | output, subscribe, resize, exit | a baseline taken while output is still parsed; an exit before its last output |
| router of browser sockets (`server/runtime/terminalWsRouter.ts`) | channels of each socket | subscribe, resize, visibility, close | channels of a socket that is gone |
| browser terminal client (`web/binaryTerminalBrokerClient.ts`, `shared/browserProtocol/resync.ts`) | surfaces, channels, unanswered subscribes | mount, hide, resize, resubscribe | answers paired by order; gaps |
| provider continuity (`server/claudeProfileContinuity.ts`) | a conversation's files in profiles and store; journal, commit, generation, activation records | prepare, finalize, roll back, start, refresh, confirm, recover | a dozen durable writes and links, and a crash between any two |
| agent surface broker (`server/agentSurfaceBroker.ts`) | per session: host, ring, pending tail, commands, binding | hello, events, snapshot, commands | a handler that waits while its host is replaced |
| agent host (`server/agents/host/runner.ts`) | driver, event ring, command queue, connection | start, backfill, say, reconnect, run a command | events between hello and hello-ack |
| terminal daemon (`server/runtime/terminalDaemon.ts`) | polls in progress | routes, provider reconciliation | state read before an await |
| delivery phases, command cache (`shared/delivery/*`) | commands seen | dispatch, retry | a retry of what was done |
| controller lease (`shared/lease/leaseState.ts`) | holder, expiry | acquire, renew, take over | mostly unused by the daemon |
| producer hooks (`core/agentState/producerEmit.ts`) | sequence file under a directory lock | claim a number, post | lock stealing |

How they interact: a post appends to a channel file and dispatches; the feed
finds the same message and dispatches again; the engine's dedupe memory is what
makes that one delivery. The engine sends through the daemon's control socket;
what it knows of the outcome is the answer, if one comes. The daemon types the
prompt over its link to the holder, in one queue with what browsers type, and
answers when the holder has or when the link is lost. In the daemon, events from
hooks and answers of polled providers go through one intake, whose log decides
order and acceptance; the authority then applies what was accepted, and its
snapshots tell the engine whether a session is idle. Output comes back over the
same link into the session's runtime, which tells it to subscribed channels; the
size goes the other way. A profile edit in the server and the session's start in
the daemon share a file lock and the continuity records. A native agent's events
go from its host to the broker, whose ring the browser's surface follows.

What makes them correct: no prompt lost, none sent again once its submission was
recorded, posting order kept, one paste at a time, no wedged queue; one order of
acceptances, one answer to every retry, no event of a past generation, no
accepted event that never reaches the state shown; no input typed twice or after
it was reported dropped; no holder stranded and none stopped by a stale caller,
and every operation answered; the newest version of a conversation in the
profile that owns it; and every visible surface showing, in the end, exactly what
the terminal or the agent said.

## 2. Modules

| module | what it is |
|---|---|
| `ChannelDelivery` | one session's queue, lock, sends, files, console actions and restores |
| `PromptOutbox`, `ChannelDeliveryOutbox` | what the engine promises, an ordered at-least-once outbox, and the mapping of the first to it |
| `AgentStateIntake` | one session's acceptance log, endpoint, polls, generations and the authority's fences |
| `AcceptanceJournal` | what the intake promises: an append-only journal |
| `HolderLink` | one session's controller link: input and prompts through the queues, the lease and its recovery to the holder |
| `SessionLifecycle` | one session's operations, holders, teardown records, recovery and restart |
| `ProfileHandoff` | one conversation's files and records through handoffs, starts, failures and crashes |
| `AgentSurface` | one native agent: host, broker, browser surface and commands |
| `TerminalView` | one terminal: holder's output and size, runtime, router and the surfaces of a browser |
| `MC...` | values for TLC |
| `ChannelDelivery_proofs`, `AgentStateIntake_proofs`, `HolderLink_proofs`, `SessionLifecycle_proofs`, `ProfileHandoff_proofs`, `AgentSurface_proofs`, `TerminalViewBase_proofs`, `TerminalView_proofs` | theorems |

The modules meet at their promises. `ChannelDelivery` takes its transport as any
mixture of accepted, refused, lost and late answers; `HolderLink` shows where the
answers come from and that a `no` is true (`PromptVerdict`). `HolderLink` and
`TerminalView` take one running session; `SessionLifecycle` says when it is
replaced. `SessionLifecycle` and `AgentStateIntake` both advance the generation
ledger.

### ChannelDelivery

The engine is single-threaded JavaScript, so an action is the code between two
awaits and everything else interleaves. `reading` holds the drains suspended in
`readStateBatch`, each with the head it captured and whether its generation was
superseded; `sending` the sends `deliverNext` awaits; `late` those it gave up on
after thirty seconds, which the transport may still carry out. `queue` is a set
of items with a place in the array; `files` the queue directory as records
(stem, extension, tombstone mark). `StartDrain` is `drain()` up to its await,
`DrainDelivers` and `DrainHolds` what follows it, `StartSend` the claim of the
files and the call of the transport; `DeliveryAccepted`, `DeliveryRefused`,
`DeliveryThrows` and `DeliveryTimesOut` are its outcomes, with the `finally`
block that releases the lock (`Release`). `Boot`, `RestoreFile`, `RestoreSave`,
`RemoveTombstone` and `FinishRestore` are the steps of `restoreQueues` a crash
can separate. `Crash` keeps the disk and the history and forgets the rest.

Abstractions. A prompt's text is its number. The batch of agent states a drain
waits for is a choice (deliver or hold), since any can come. A lost reply is
a refusal after the prompt arrived, at most `MaxLost` arrivals early. Times are
choices: the watchdog's age (`watchdogDue`), the timeout, and which delivered
files have aged when a restore sweeps them. `shift` and `filter` renumber places,
so that equal arrays are equal states. Two late sends of the same items are one.
One engine serves a queue directory at a time; the lease that ensures it is not
modelled. I/O errors are left out.

The sequence counter belongs to the engine and all sessions draw from it, so this
session's numbers have gaps, and a restore that comes to it after other sessions
(`Boot` starts `queueSeq` anywhere up to `MaxOthers`) may give its items greater
numbers than they had. `Enqueue` takes any number of `NextSeq`. A crash inside the
restore's `persistQueue` is a step of `Crash`: some of the new names are written.
Elsewhere such a crash leaves a directory that another action reaches (snapshot
writes go through a temporary name, unlinks come last).

Three history variables delimit what the code does not protect (section 4).
`disordered` is true once a process died with greater numbers half written or their
tombstones not yet removed, such that the listing no longer gives the order of
posting or the next restore replaces a tombstone that still counts (`Scrambled`);
`exposed` are the prompts whose every copy is such a tombstone (`Overtaken`);
`unmarked` those whose confirmation found the name of its mark taken.

### AgentStateIntake

One session, and the producer that has every path (`opencode-terminal`: pushed
events, registered endpoint, polls). On disk: `generation`, `log` with `torn` for
a last line without its newline, `endpoint`. In memory: `mem` (receipts,
watermarks, bound instances, `acceptedSeq`), `live`, `agent` (the authority's
record, reduced to its fences), `polls` (requests out). A daemon starts by
cutting the unfinished line off (`Start`) and replays line by line
(`ReplayLine`) before it serves. `Commit` is the whole of `ingestAgentState` for
an accepted event: fences, append, memory, authority, answer. `RegisterEndpoint`
claims the number in the log and then replaces the snapshot. `StartPoll` is
`reconcileOne` up to its await and `PollAnswered` what follows. `Crash` may
strike between handlers or inside one: with part of a line written, with the
line written and nothing after it, or with an activation saved and no poll made.

Abstractions. Facts, clocks and leases are left out: the fences are what decides.
`told` is a history variable. Rejections that change nothing are not actions.
The reservation of a poll number and the request are one action, because a crash
between them differs from one after them only in memory. Write errors (a full
disk) are left out: a write that fails half way while the daemon lives is not
rolled back and would fuse with the next line, and a daemon that dies between
the append and the authority's ingest (`daemonCore.ts:484`) has accepted an event
that no authority knows until the next one of its producer.

### HolderLink

Inputs of two kinds go to the terminal over one connection: keystrokes of
browser surfaces (`BrowserInput`), which a surface that hides withdraws (`Hide`),
and prompts of the channels engine (`Prompt`), which get a verdict. `client` is
the latest `MoorMasterClient` with its queue, its pending request and its lease;
`link` the adopted `SessionMasterLink`; `slot` the recovery slot, with the inputs
queued meanwhile and the request retained from the lost link. On the other side
`lease`, `writer` and `written` are the holder's. Frames travel in `toHolder`, one
queue per connection, and `toClient`; a connection that is lost delivers what was
on it until the holder has read its end (`ended`). `TransportDrops` is the whole
of `onClose`; `Attempt` a recovery attempt up to its attach, `Accept` the
installation of the candidate, `AcquireLease` the request for control. `fate` is
what the daemon last decided about an input: it is how the properties tell a
reported drop from a written input.

Abstractions. The probe and the attach of one attempt are one step; the 2 s
deadlines of attach and reset are folded into `TransportDrops`; the holder's
refusals by phase into `HolderRefuses`. Connection numbers are reused once the
holder has read one to its end. An input is its number, queue limits are counts.
Left out: resize and redraw (see `TerminalView`), terminal queries, output and its
acknowledgements, `waitForAuthoritativeWork`, the sealing of an exit, a daemon
restart (it starts without input), partial writes.

### SessionLifecycle

One session id. The host's side is `hold`, what became of each generation's
holder, and `node`, whose rendezvous node is at the path; the daemon's side the
maps of `DaemonCore` and `SessionManager`, each for this session (`sess`, `owner`,
`kill` with `must`, `link`, `slot`, `attempts`), the operation tail (`queue`, `op`
with its program counter), the confirmed kills (`conf`: of the running operation
and of each reaper) and the reapers. `OpStep` is the next step of the running
operation between two awaits: `spawn` (prepare, launch, attach, accept),
`retire`, `exact` (retire of one generation), `reset`. `ConfirmStep` is a step of
`confirmKill`: probe, kill by path, wait for the node. `LaunchTimesOut` leaves
the holder forking while the operation goes on, and arms a reaper. `Restart` is
the death of the daemon at any step, with the restore that follows.

Abstractions. The supervisor's cap and the provider's preallocation are one
refusal (`PreallocateRefused`). The pending exit boundary, observer-only slots and
geometry are left out (`TerminalView` has the first and the last). The child of a
`moor kill` that survives the daemon's death is left out. The exact retires asked
for by failures of provisioning and reconciliation are covered by requests and by
`AcceptRefused`, `RestoreAttached`. A holder's child exit and the withdrawal of
its node are one step. A restore refused by the cap and a launcher killed by a
signal (it counts as one that failed) are left out. `crowded` is
history: it is true once a launch began while an older holder could still
publish, which is what `TeardownKept` and `RetiredIsGone` need to be excused from
(two holders share one path and one record).

### ProfileHandoff

One Claude conversation whose session is moved between profiles. `file` says
which version (inode) of each file is in each profile and in the store; the rest
are the control records by name, each written by one durable rename. `sec` is the
section that holds the lock file, with its place in the code: between two durable
writes or links it may die (with its process) or fail. `act` are the asynchronous
actors: profile edits of the server (retire, prepare, manifest commit, finalize or
undo), the user's start request with the daemon's section, and the hook that
confirms a start. `Recovery` is `recoverInterruptedHandoff` and its like, `Undo`
`rollbackPrepared`, `Prepare` and `Finalizes` the two halves of a handoff,
`StartSection` the start with its refresh of the store.

Abstractions. Appends keep the inode, so only a rewrite makes a version. Sizes and
digests are not modelled, nor is the memory sync. Errors of unsafe, unknown or
cross-device files are a failed preparation or left out. Placing several files is
one step; `activation.json` and its index are one record. The lock is mutual
exclusion; its theft when stale and its error when busy for ten seconds are left
out. A failing retire or spawn is left
out. The manifest's text is the session's profile and whether something unrelated
changed (`CommitRejected`). Files are deleted only at rest with a settled journal.
The history flags `raced` (a start let through past an edit on its way, or a file
rewritten while a journal is unsettled), `torn` (an undo of a committed generation
cut half way), `abandoned` (an edit that died, or could not undo) and `returned` (a
commit that brought back the manifest another edit had read) delimit what the code
does not protect; section 4 says what happens then.

### AgentSurface

`host` is the latest host process with its socket, driver, ring and backfill;
`up` and `down` the frames on the socket; `broker` the server's entry of the
session: its connection, spawn and ring, the conversation the connection is
authorised for (`auth`, `kept`) and the chain of events not handled yet (`tail`),
each with the await its handler is at. `bound` is the manifest's. `surface` is the browser's subscription, watermark and rows; `cmds`
what each command's caller was told and `ran` what the driver carried out, each
with whether it returned (`sure`). `RunEnds` has the driver return, or throw, after
it has acted or before. `Connect` is
the hello with its handling; `HandleHostEvent` the handler of one event, in the
steps its awaits separate; while it runs, sockets, hosts and surfaces go on, which
is what `StillHost` re-checks.

Abstractions. Left out: what is published to the daemon (`publishNativeObservation`,
heartbeats), transients, status and permission events, session-info without an
id, a delayed second backfill, a failing `fetchHistory`, evictions from the rings
(2000 events or 16 MiB at the broker, 200 at the host), several surfaces,
`disposeSession`, overlapping hosts, the hello's token, row pruning, the
visibility `browserSend` asks for. A host that gives up before its hello is a host
that dies. Only the first conversation speaks. A host that dies while a command runs leaves no
answer, whatever its driver did.
`hasty` is history: an event was sent on a socket before its hello-ack.

### TerminalView

A chunk of output is its number and a screen the set of chunks written to it.
`holder` has what the child wrote, its exit and the size of its terminal; `link`
the controller link with what is on it each way, and whether its slot recovers it;
`runtime` the session's runtime: screen, `inbox` (output told and not yet parsed;
`None` is the terminal state a new attach writes to the screen), subscribers by
channel, owner and commanded size, pending exit. `up` and `down` are the frames of the browser's
sockets; `client` the browser's surfaces (`view`), its socket and the subscribes
unanswered (`acks`, in order). `ReceiveOutput` tells a chunk to every ready
channel, `Parse` writes it to the screen; `Baselines` takes the snapshots of
those that wait, `Elected` the owner of the size; `RouterReads` is one frame or
the end of a socket at the router, `ClientReads` one frame at the browser.
`LinkDrops` and `SocketBreaks` choose what still arrives on each side.
`Mount` gives a surface a new identity (`mount`), which is not on the wire.

Abstractions. One session, one browser, one generation. Input and its buffer,
queries, heartbeats and reconnect timers (a connection is always possible),
channel errors, GAP frames (nothing sends them), checkpoints and a runtime
restored from one, redraws and observers are left out; so are failures to
serialise a screen or to send to a browser. Probe and attach up to the
acknowledgement are one step. A retire by the operator is left out: only
`ConfirmedAbsence` retires here. A size elected while an exit drains is sent, where
the link that observed the exit drops it; no property looks at it. `lost` is history: a size was on a link that
dropped.

## 3. Runs

| run | instance | what it shows |
|---|---|---|
| `restarts` | 3 prompts (one standalone), cap 2, failed sends, 1 lost reply, hanging drains, numbers drawn by other sessions, 2 crashes at any step; 265 k states, with fairness | `TypeOK`, `NoLoss`, `ConfirmedIsFinal`, `QueueOnDisk`, `EveryPromptSettles`, and that the engine implements `PromptOutbox` |
| `operator` | 2 messages or 2 stuck files of an older build, pause, drop, force, numbers drawn by other sessions, 2 crashes; 715 k states | `LockDiscipline`, `ClaimedWhileSending`, `AtMostOncePerProcess` |
| `timeouts` | 3 standalone prompts, 2 timeouts answered late, 1 lost answer, 1 crash; 472 k states | `NotResentWhileLate` |
| `intake` | 2 instances, 2 generations, 10 events, 4 registrations, 2 polls, 2 crashes; 63 k states | `TypeOK`, `ReceiptsSurvive`, `AcceptedIsApplied`, `EndpointAgrees`, and that the intake implements `AcceptanceJournal` |
| `input` | 3 inputs or prompts, 1 surface that hides, queues of 2, 2 faults among lost transports, stalls, refusals, expiries and another controller; 785 k states | `TypeOK`, `WrittenInOrder`, `PromptVerdict`, `DropsAreFinal`, `InputSettles` |
| `sessions` | 2 generations, 3 requests, 1 launch timed out, 2 faults among lost links, hung kills, dead holders, daemon crashes; 327 k states | `TypeOK`, `LinkIsOwned`, `TeardownKeptAlone`, `RetiredIsGone`, `ExactIsFenced`, `Served`, `AbsenceEnds` |
| `handoff` | 2 profiles, 2 edits that may overlap, 2 starts, 1 rewritten file, 2 faults (failed writes, rejected manifest, deaths, a deleted file); 5.4 M states | `Kept`, `LiveIsCurrent`, `NeverCorrupt`, `HomeIsTarget` |
| `surface` | 10 budgets of messages, drops, server restarts, replaced hosts, faults, looks and commands, with drivers that throw; 983 k states | `RingOfOneSpawn`, `VisibleShowsRing`, `RetryIsSafe`, `CatchesUp` |
| `view` | 2 surfaces, 3 sizes, 8 budgets of output, exit, lost links, lost sockets, looks and resizes; 512 k states | `ScreenAgrees`, `ChannelsPaired`, `SizeFollowsOwner`, `ExitResolves`, `SurfacesCatchUp` |

Three more runs show disagreements: section 4.

Why the bounds are enough. Two prompts make an order, a digest and a head that
changes under a drain; a third makes the cap of two drop one and a digest skip
the standalone one between. Two crashes put one inside the restore that follows
the other, and a third process to see what the second left. Two timeouts let a
late answer meet the send that replaced it. Two instances and two generations
are what fences tell apart; the second process of a daemon replays and the third
replays what the second appended after a cut line. Two polls can be out at once.
Three inputs put one in flight, one queued in the link and one in the slot; two
faults put one into the recovery from the other. Two generations make a
predecessor and a successor; three requests let one wait behind another behind a
running one. Two edits overlap; two faults put one into the undo of the other,
and the start that comes after sees both. One file shows the order of writes
and three inodes an older and a newer version; with smaller bounds elsewhere,
`NArtifacts = 2` (3.3 M states) and three profiles (8.4 M) were checked by hand
for the same properties. A transcript of two messages has a head and a tail; a host and its successor are
two. Two surfaces make an election, and a pairing that can go wrong by one.

Two modules take their bounds as *budgets*: every behaviour draws one from a set
of records of how much of each kind may happen, so that a run mixes few kinds at a
time and all pairs of interest are covered. Larger mixtures were checked by hand
without liveness: `AgentSurface` with 2 spawns, 3 faults, a drop and a look (2.6 M
states) and with a message, a drop, a restart and a command (8.7 M);
`TerminalView` with 2 outputs, a cut, a drop and an exit (more than 11 M, not
finished), 2 drops and a look (416 k), a resize, a drop and a cut (206 k);
`ProfileHandoff` with 3 edits, a start, a rewritten file and a failure (9.3 M), the
smallest in which `returned` becomes true. For
`ChannelDelivery`, the safety properties of `restarts` also with drops and pauses
(10.6 M). One number drawn by another session first is enough to have a restore
renumber upwards, and a greater one only makes wider gaps.

What the runs leave out on purpose. `NoLoss`, `QueueOnDisk`, `EveryPromptSettles`
and the outbox except prompts that are `exposed`, the order of the queue and of the
outbox holds until `disordered`, and `ConfirmedIsFinal` is about prompts that are
not `unmarked`. `NoLoss` is not checked together with revived stuck files or
timeouts, nor `NotResentWhileLate` with digests, nor
`AtMostOncePerProcess` with files revived beside new prompts: each breaks it, as
section 4 says. The theorems of section 5 have the same exclusions as hypotheses. `QueueOnDisk` is about a queue no operator
reorders. `TypeOK` of `ProfileHandoff` holds on the instance of its run,
with that instance's bounds, and is kept for reading; its types are proved as part
of `HandoffInvariant`, as that of `AgentSurface` is.

`CHECK_DEADLOCK FALSE` everywhere: the bounded counters run out, and an idle
queue or a daemon with nothing to do really rests.

**Fairness** (`LiveSpec` in each module that has one).

- `ChannelDelivery`. Weak fairness of the restore: it is synchronous code run at
  start, and Desk is restarted. Weak fairness of the watchdog's clock and of the
  outcome of a send: the transport answers or the thirty-second race does. Strong
  fairness of a pump tick that finds the session deliverable, and of an accepted
  send: ticks repeat for ever, and agents are idle and reachable again and again
  but not continuously. Nothing is assumed of a drain's batch, so that a drain may
  hang for good: the property then rests on the watchdog, and its mutant without
  the watchdog fails.
- `HolderLink`. Sockets are drained by both event loops, timers fire (retries,
  the keepalive's expiry, the lease's), the terminal takes what it is given, and
  other controllers leave. Nothing forces input, loss or refusal.
- `SessionLifecycle`. The event loop runs the operation, the confirmed kills and
  the recovery; child processes end or are killed at their deadlines; closed
  transports are noticed; a launched holder progresses or aborts, and one told to
  stop ends. Nothing forces a request, a fault or an observed exit.
- `AgentSurface`. The broker finishes the handler that runs, the host and the
  broker take their steps. Nothing is assumed of surfaces, sockets or new hosts.
- `TerminalView`. Weak fairness of `SystemStep`: event loops, the parser, queued
  frames, retries of the recovery and the reconnection of the browser. Nothing is
  assumed of the child, the user or of what drops.

`AgentStateIntake` and `ProfileHandoff` state safety only: a crash may keep a
daemon down, and a handoff's end depends on a user who starts the session.

## 4. Disagreements found

Three have a run that checks one property, quoted from the repository, and finds
it violated; `PROJECT.json` has the quotations.

| run | property | what happens |
|---|---|---|
| `input_out_of_step` | `InStep` | A surface hides while its request is retained from a lost link, and the snapshot loses the request before the next client copies it: if the holder never saw it, the lease is resumed one number ahead and the holder refuses every later input. |
| `reaper_kills_successor` | `KillsItsOwn` | The reaper of a launch that timed out kills by path. The next spawn's holder has published the path, its record is not registered yet: the reaper's check passes and the successor is stopped. |
| `tail_overtaken` | `ReconnectLosesNothing` | A message said between a reconnected host's hello and its hello-ack reaches the broker before the tail of the host's ring, which is then dropped as already accepted. |

The others were met while modelling, each as a counterexample of a variant of the
models or in the code itself, and delimit what the runs claim.

Delivery of prompts:

- *Interrupted renumbering.* `queueSeq` (`engine.ts:217`) is one counter in the loop
  over all session directories (459, 497). Say a session has `1.json` (m1) and
  `2.json` (m2) and another session took number 1 first: the items become 2 and 3,
  both sources are tombstones, and the process dies when `2.json` (m1) is written and
  `3.json` is not. The next restore renames `2.json` over `2.json.consumed` (482), the
  only copy of m2, although the comment at 510–514 says that a surviving `.consumed`
  file "is re-read by the next restore, so the deferral cannot lose it either". Or a
  crash between the snapshot and the removal of the tombstones has the next listing
  put a younger prompt first. The properties except the first by `exposed`, the
  second by `disordered`; without the exceptions TLC finds both in `restarts`.
- *Confirmed prompt replayed.* `restoreQueues` numbers from 1 again while
  `.delivered` files keep their names for five minutes: a confirmation finds the
  name taken (`durability.ts:150`), the file stays `.delivering`, and a later
  restart sends the prompt again, although `engine.ts:448` says "submit was
  confirmed before restart; skip". `ConfirmedIsFinal` excepts it by `unmarked`.
- *Digest sent again.* A digest that times out takes only its head off the queue;
  the pump sends the others while the first paste may still land.
- *Late refusal loses.* A send refused after its timeout turns `.delivering` back
  to `.json`; the next snapshot unlinks it, and the prompt is gone.
- *Numbers collide.* A revived stuck item keeps the number of an earlier process;
  a new prompt can have the same one, and is filtered out with it unsent. Or the
  revived item is accepted, its confirmation finds the name taken, and a later
  refusal of the other reverts the file of both: forced again, it is sent twice by
  one process (found with 3 prompts, one legacy file, drop and force, 14 states).
- *Dropped prompt returns.* Dropping a prompt whose paste is unresolved leaves its
  `.delivering` file; the next restart queues it.
- *Pause overtaken.* A drain waiting for its batch when the operator pauses
  delivers all the same.

Intake and input:

- *Stale poll.* A poll's answer is ingested with the registration read before the
  request: when the producer registered another provider session meanwhile, facts
  of the old one are accepted.
- *Withdrawn input sent.* A surface hides when the next client has already copied
  the slot's snapshot: `revokeQueuedBrowserInput` deletes the retained request
  from the snapshot, and the client sends its own copy. The model calls such an
  input `withdrawn`; `DropsAreFinal` is about those reported as dropped.
- *Late holder stranded.* A launch that begins while an older holder can still
  publish shares its record: after the kill of the path the older one may be left
  without a record (`crowded`). So may a newer one: an older holder that was told
  to stop keeps the node until it has ended, and a kill that comes then waits for
  that node and, when it goes, takes the new holder's record away (it needs two
  launches that timed out).

Profile handoffs:

- *Source not restarted.* `recoverInterruptedHandoff` resolves the target of the
  journal (`claudeProfileContinuity.ts:842`) before it looks at the phase: after a
  rolled-back handoff, a start of the source whose conversation has a new or
  replaced file is refused as `continuity-store-corrupt`, and so is every later
  one.
- A start let through between the edit's retire and its commit leaves the session
  running under the source although the manifest names the target; a start between
  prepare and commit deletes the backups the rollback needs (`raced`).
- A refresh for a conversation that already runs, when it fails, puts an older
  backup inode over the newest file (`claudeProfileContinuity.ts:603`).
- A crash or failed write inside the undo of a committed generation leaves
  `continuity-store-corrupt` for ever (`torn`); a crash between a prepared
  generation and the manifest's commit has starts of the source refused with a
  session conflict until the edit is repeated (`abandoned`).
- *The manifest comes back.* `commitManifestIfUnchanged` (`sessionsRoutes.ts:104`)
  compares the text of the manifest with the text the edit has read. While one edit
  prepares or waits, another commits, and a third moves the session back: the text
  is the old one, and the first commits too, although the generation in force is by
  now another's. With nothing in flight and nothing failed, the manifest then names
  one profile and the generation on disk another, and starts are refused with a
  session conflict. It takes three edits; the attempt to prove `HomeIsTarget` showed
  it, and the property excludes it by `returned`. The other three properties hold
  all the same.
- A rolled-back handoff blocks a handoff to a third profile. A companion file
  deleted from the profile is dropped by a handoff that no start followed.
- `docs/guide-agent-profiles.md:94` says of the conversation that it "is still on
  disk under the old profile"; `confirmClaudeSessionStart` removes it there.

Native agents:

- *A started turn worth a retry.* `CodexDriver.inject` writes `turn/start`
  (`codexDriver.ts:394`); when the app-server exits before it answers, the promise is
  rejected with a plain `Error` (176–178, 267–280), which `runner.ts:596–604` answers
  as retryable, though the turn may have been started. `host/driver.ts:37–42` calls
  a plain error "transient by assumption". `RetryIsSafe` excepts commands whose
  driver did not return (`sure`).
- After a restart of the web server `NativeProducerCursor` numbers from 1 under the
  same producer instance, so the daemon answers `idempotency-conflict` or
  `producer-order` until the old watermark is passed.
- A command that arrives between the driver's readiness and the draining of the
  command queue overtakes the queued ones, or has them refused
  (`runner.ts:549–571`).
- A reconnection during an unfinished backfill of more than 200 events loses its
  head. A binding hydrated at hello lets commands reach a host before its own
  session-info is checked.

Terminals:

- A size on a link that drops is never sent again: the slot does not keep it and
  the runtime takes the size for commanded. The comment at `commandOwnerSize` calls
  the send best effort; `SizeFollowsOwner` excludes it by `lost`.
- A surface made dirty by a gap while an exit is pending is refused its new
  SUBSCRIBE and gets neither EXIT nor the final screen. One whose snapshot cannot
  be serialised is answered twice, which shifts the client's pairing.
- Absence confirmed before the exit is observed retires without EXIT frames. A
  child that never stops writing can starve a waiting baseline.

## 5. Proofs

All proofs are checked by TLAPS for every value of the constants allowed by the
assumptions of the modules (`DeliveryAssumption`, `IntakeAssumption`,
`LinkAssumption`, `BoundsAssumption`, `HandoffAssumption`, `SurfaceAssumption`,
`ViewAssumption`), which say of what kind the constants are and no more, and which
TLC evaluates in every run. Each proof
module has one inductive invariant, which TLC checked on the instance of the
component's run before it was proved, a lemma for every action, and the theorems
at its end.

`ChannelDelivery_proofs`. `TypeCorrect` (`[]TypeOK`), `OnePasteAtATime`
(`[]SingleFlight`), `LockOwned` (`[]LockHasOneOwner`), and of the two
`LockDisciplined` (`[]LockDiscipline`, which the `operator` run checks). The
inductive invariant is `Inv == DataTyped /\ LockInv`. `LockInv` joins the two lock
properties because neither is inductive alone: that a drain may start a send
needs that a live drain is the only owner, and that a superseded coroutine may
finish without releasing needs that a send is never superseded, which the lock
gives. The lemmas it rests on say that `First` picks an item of a non-empty
queue, that renumbering keeps items well-formed, and what each file operation
preserves. On top of it stand `ClaimInv` (only a serving process has drains and
sends, each queued item has a file of its number, what is being sent is claimed)
and `OnceInv` (what reached the agent in this process is neither queued nor being
sent), with the theorems

| theorem | property | under |
|---|---|---|
| `SendsAreClaimed` | `ClaimedWhileSending` | no send given up so far (`timeouts = 0`) |
| `OncePerProcess` | `AtMostOncePerProcess` | the same, no lost reply, no forced delivery |
| `LateIsNotResent` | `NotResentWhileLate` | prompts sent alone, no forced delivery |

The hypotheses are those of section 4: the refusal of a send that was given up
takes back the claims of every file of its numbers; a lost reply has the engine
send again what arrived, as it should; a forced delivery revives an item whose
number another may have.

The second half of the module proves the rest of the `restarts` run's safety, for
every number of prompts, crashes and other sessions' numbers, with drops and pauses
but no forced delivery:

| theorem | property | under, besides |
|---|---|---|
| `NothingIsLost` | `NoLoss`, and nothing is `exposed` | `timeouts = 0`, `~disordered` |
| `QueueAndDiskAgree` | `QueueOnDisk` | `timeouts = 0`, `~disordered` |
| `ConfirmedStays` | `ConfirmedIsFinal` | `timeouts = 0`, `~disordered` |
| `OutboxImplemented` | `ImplementsOutbox` | `MaxTimeouts = 0` and `[]~disordered`, no stuck file left by an older build |

`~disordered` says that so far no process died in the middle of a renumbering to
greater numbers in the way of section 4. Restores may renumber upwards, downwards or
both, may die anywhere else, and delivered files may be swept or not.

The invariant `DiskInv` says for each phase of a process what the queue directory
and the array have to do with each other. `Serving`: numbers in use follow the order
of posting, every owed prompt is queued or stuck, and a tombstone is of a queued
prompt that has its new file. `AtRest` is what a restore relies on: names are unique,
files come in posting order but for copies that an older name put before them, and a
tombstone whose name is about to be taken by a new file is not of a younger prompt
than that file. The last part is what lets a restore that dies half way be restored
itself: what it replaces has an older copy (`NoneOvertaken`). A crash gives it as
long as what it leaves is not `Scrambled` (`CrashServing`, `CrashSaving`), which is
where upward renumberings come in. `Claiming` is a restore that runs: names passed are tombstones of queued
prompts, and each queued prompt comes from a name before all those left. A crash
leads from `Serving` or `Claiming` to `AtRest`, a restore back from `AtRest` through
`Claiming` to `Serving`. `Settled` says that a confirmed prompt has its delivered
mark and nothing else, `Heads` that a paste holds a prompt none in the queue is older
than, which is the order the outbox promises. The invariant was checked with TLC
before it was proved, with three prompts, up to two stuck files and two crashes.

`AgentStateIntake_proofs` proves every property of the `intake` run:

| theorem | property | rests on |
|---|---|---|
| `TypeCorrect` | `TypeOK` | `Typed`: with `EndpointInv`, since a poll's event takes its fields from the endpoint |
| `JournalImplemented` | `ImplementsJournal` | `StoreInv` |
| `ReceiptsAreDurable` | `ReceiptsSurvive` | `ToldInv`: every receipt given is in the log |
| `AcceptedEventsApply` | `AcceptedIsApplied` | `AgentInv`: the authority's watermarks and instance never exceed the store's |
| `EndpointAgreed` | `EndpointAgrees` | `RegistrationsAreClaimed` and `PollsAreNew` |
| `RegistrationsAreClaimed` | `RegistrationIsClaimed` | `RegisteredInv`: the endpoint's number is in the log |
| `PollsAreNew` | `NextPollIsNew` | `PollInv` and `FloorInv`: no poll seen is above the endpoint's count, and no watermark is above a line |

`StoreInv` is the heart. The log is the only thing that survives, so the
invariant says of it what acceptance needs (no line of a future generation, one
instance to a generation, one line to an event) and says of the memory that it is
what the lines replayed so far make of an empty one. Replaying a line and
installing a line just appended are then one lemma, `InstallStep`, and every
append is a step of the journal (`EventStep`, `ClaimStep`), also the append of a
daemon that dies before it does anything else.

`HolderLink_proofs` proves every safety property of the `input` run:

| theorem | property | rests on |
|---|---|---|
| `TypeCorrect` | `TypeOK` | `Typed` and `Staged`: which fields mean something at which stage |
| `TerminalInOrder` | `WrittenInOrder` | `InOrder`, `Numbered`, `Fitting` |
| `PromptsAreTold` | `PromptVerdict` | `Telling` and `Settled` |
| `DropsStay` | `DropsAreFinal` | `Settled`: what was given up is in no queue and in no request kept |

The order of what is written follows from the order of what is sent only while
the numbers of the requests tell the holder what it has seen, and a lost link
hands the number and the unanswered request from one client to the next. So the
invariant relates all places where a number lives. `Questions`: the client has
one question to the holder open at a time, and no input is on the wire behind it.
`Epochs`: an epoch is granted once, and a client whose connection owns the lease
knows its epoch or is about to. `InOrder`: everything written or sent came before
everything that waits. `Numbered`: on the connection that owns the lease a higher
number is a later input, and one the holder has not reached is later than all it
wrote. `Fitting`: the request and the number in the client, in the slot's snapshot
and in a resumption under way agree with the holder's mark. `Remembers`,
`Receipted` and `Telling`: the outcome the holder keeps is true, receipts on their
way are of requests that were made, and the receipt a prompt waits for is the one
of its own input. The steps are grouped by what they put on the wire: the holder's
and the wire's, the client's that send no input (`DeskKept`), and those that send
one (`SendKept`); a step that retries a kept request sends one of an old number,
which is where `Fitting` is needed.

`SessionLifecycle_proofs` proves every safety property of the `sessions` run:

| theorem | property | rests on |
|---|---|---|
| `TypeCorrect` | `TypeOK` | `Typed` |
| `LinkOwned` | `LinkIsOwned` | `Authority`: who may have a link or a slot, and of which generation |
| `TeardownIsKept` | `TeardownKeptAlone` | `Alone` |
| `RetireLeavesNothing` | `RetiredIsGone` | `Alone` and `Uncertain`: a holder that has not published is being launched or must be confirmed |
| `ExactRetireIsFenced` | `ExactIsFenced` | `Unborn` and `Authority`: no record, reaper or kill is of a generation not allocated |

`Alone` says what a single record and a single path can promise: as long as no
launch began beside an older holder (`~crowded`), the holder this daemon launched
is the only one that may still run, holds the node once it is published, and is
the one the record stands for, and a kill that waits for the node waits for an
ended holder. Without `Uncertain` and `Killing`, which say what a kill under way
already knows, it would not survive the kill of a holder that is still forking.

`AgentSurface_proofs` proves every safety property of the `surface` run:

| theorem | property | rests on |
|---|---|---|
| `TypeCorrect` | `TypeOK` | `Typed`, `Closed` and `Connected`: a trusted connection is of the bound conversation |
| `RingIsOneStory` | `RingOfOneSpawn` | `Story`: what waits in the tail is of an older connection or newer than the ring |
| `SurfaceShowsRing` | `VisibleShowsRing` | `Shown` with `Story` |
| `RetriesAreSafe` | `RetryIsSafe` | `Once` and `Judged`: a command is in one place, and one worth a retry was not carried out, unless its driver threw |

`ProfileHandoff_proofs` proves every safety property of the `handoff` run, for any
set of profiles and edits, any number of files, and failures, deaths and starts
without bound:

| theorem | property | rests on |
|---|---|---|
| `HandoffInvariant` | | `Inv == Typed /\ Control /\ HomeInv /\ Guarded` |
| `GenerationIsHome` | `HomeIsTarget` | `Control`, `HomeInv` |
| `NewestIsKept` | `Kept` | `SafeNow`, `SafeThen`, `Tracked`, `Laid` |
| `LiveConversationIsCurrent` | `LiveIsCurrent` | `Quiet`, `SafeNow`, `Started` |
| `RecordsAreUsable` | `NeverCorrupt` | `Marked`, `Laid`, `Stored` |

`Control` is about who holds the lock and how far the records are, whatever the
files are: which places a section passes through and for whom (`Shaped`, `Held`,
`Roles`, `Renewing`), that generations are numbered and each journal is of the last
(`Counted`), that the marker `commit.json` is written before `generation.json` and
restored after it (`Marked`, `Staged`), and which edits may still undo what
(`Claiming`, `Owning`). `HomeInv` adds whose generation is in force: the manifest's
profile's, or that of an edit on its way to its commit or undo; while an edit can
still commit, the former is not enough.

The files are the hard part, because any journal that is not settled may be undone,
by its own edit, by the next start or by the next edit, after a death at any point.
So the invariant describes the conversation twice: the files as they are
(`SafeNow`, `HarmNow`), and `Before`, the files as an undo would leave them
(`SafeThen`, `HarmThen`). A profile somebody may go on in (the manifest's, one an
edit has read, one an edit is about to name) must be safe in each description that
can come true: each of its files is the newest, or it lacks the file and the store
has the newest. `Tracked`, `Backed`, `Laid` and `Unlaid` say that each single link
is either as it was or newest, and that what was there is recorded or backed up,
which carries the two descriptions through laying and unwinding links one by one.
`Stored` and `Started` are about the files of the generation in force and of the
conversation a start is about to run. All of this holds while no start was let
through past an edit (`Guarded == ~raced => Quiet /\ Files`, where `Quiet` says who
runs under which manifest and which activation may be confirmed). `RecordsAreUsable`
moreover leaves out an undo of a committed generation that was cut half way
(`torn`), and `GenerationIsHome` the cases `abandoned` and `returned`.

`TerminalView_proofs` proves two safety properties of the `view` run, on the
types and sockets of `TerminalViewBase_proofs`:

| theorem | property | rests on |
|---|---|---|
| `SurfacesShowTheScreen` | `ScreenAgrees` | `ScreensInvariant` |
| `ChannelsArePaired` | `ChannelsPaired` | `PairsInvariant`: `ScreensInv` with `Matching`, `Holding`, `Giving` and `Having` |

`ScreenAgrees` speaks of surfaces, but what a surface will show is decided by
frames still on their way, so `ScreensInv` tells the story of each channel. `Shown`
says of every surface and of every snapshot on its way that its screen is what was
told up to its offset; `Ascending` that positions and revisions only grow along
the frames and beyond what a surface has; `Story` that whoever is told a chunk or
the exit has been or will first be told all that precedes it; `Ended` that nothing
but the end follows an exit. That they survive a step needs `Linked` (the link
continues the runtime's offset, and an exit is only told when the output is
complete), `Fresh` and `AckFirst` (a channel's number is used once, and its
acknowledgement comes before anything else it says), `Awaited` (a mount waits for
one answer), `Socketed` (a socket that is gone is closed at both ends or about to
be) and `Owning` (the longest-standing channel owns the size). The pairing then
counts: the answers on their way down and the SUBSCRIBEs on their way up are, in
this order, the requests the browser awaits (`Matching`, by the rank of a frame
among its kind); an acknowledged channel or one a surface has serves the mount
that asked (`Holding`); one on its way to be given back nobody has (`Giving`); and
one that nobody has is being announced or given back (`Having`).

Only model-checked so far: `SizeFollowsOwner`, and of `ChannelDelivery` the runs'
instances with forced deliveries. Out of the prover's reach, and so left to TLC, is
liveness under fairness: `EveryPromptSettles`, `InputSettles`, `Served`,
`AbsenceEnds`, `CatchesUp`, `ExitResolves`, `SurfacesCatchUp`.

## 6. Not modelled, and what comes next

Left aside for good: rendering and parsing of messages, configuration and layout
types, the command line, the React views of the web interface (most of its
lines), adapters of third-party agents and language servers, the vendored holder
beyond its use. They are pure functions, views or foreign code. So are the git,
editor and file subsystems, which run one request at a time against external
programs.

Hazards without a property: a message appended just before a crash and marked
seen by the watcher's prewarm (`fileStore.ts:1390`); a disposed engine whose send
is unresolved (`engine.ts:636`), as one engine at a time is assumed; parallel hooks
under a lock stolen after five seconds (`producerEmit.ts:115`).

Done: `ChannelDelivery` with its outbox, `AgentStateIntake` with its journal,
`HolderLink`, `SessionLifecycle`, `ProfileHandoff`, `AgentSurface`,
`TerminalView`, and the proofs of section 5. Left, most important first:

1. A proof of `SizeFollowsOwner`.
2. The delivery theorems with forced deliveries, which need an invariant on the
   numbers that revived files share.
3. Models still worth having: `ProducerSequence` (parallel hooks and the stolen
   lock), `AgentStateAuthority` (leases, title fallback, liveness), `DaemonCore`
   with the ledger's file and the admission slots, `DeliveryPhases` with the
   command cache, `ChannelFeed` (prewarm and the two dispatch paths),
   `Supervision`.
