-------------------------- MODULE SessionLifecycle --------------------------
(***************************************************************************)
(* The life of one Desk session in the terminal daemon: provisioning a     *)
(* moor holder, adopting it, losing it, finding it again and retiring it   *)
(* (src/server/runtime/sessionManager.ts with the ledger of                *)
(* src/shared/runtime/daemonCore.ts).                                      *)
(*                                                                         *)
(* A holder is a process of its own that outlives the daemon.  It is       *)
(* launched for one generation, publishes the session's rendezvous node by *)
(* an exclusive rename, and takes the node away when it stops.  Spawning   *)
(* and retiring are serialised per session; the reaper of a launch that    *)
(* timed out, the recovery of a lost link, the probes of a silent holder   *)
(* and the holders themselves are not.  A kill command addresses the node, *)
(* never a generation.                                                     *)
(***************************************************************************)
EXTENDS Integers, Sequences, FiniteSets

CONSTANTS
    MaxGen,         \* generations the ledger may allocate
    MaxRequests,    \* bound: control-plane requests
    MaxFaults,      \* bound: lost links, refusals, hung kills, crashes
    MaxTimeouts     \* bound: launches that outlive their ready timeout

ASSUME BoundsAssumption ==
    /\ MaxGen \in Nat \ {0}
    /\ {MaxRequests, MaxFaults, MaxTimeouts} \subseteq Nat

VARIABLES
    \* the host: holder processes by generation and the rendezvous node
    hold,      \* what became of each generation's holder
    node,      \* the generation whose node is at the rendezvous, 0 = none
    \* durable
    gen,       \* the generation ledger's current generation
    \* the daemon: DaemonCore and SessionManager maps, each for this session
    sess,      \* the authority's snapshot and whether the core has an entry
    owner,     \* owners: the operation (by generation) that owns the session
    kill,      \* detachedKills: the registered record (by generation)
    must,      \* the records whose mustConfirm flag is set
    link,      \* masters: the generation the adopted link serves
    slot,      \* recoveries: the re-attachment slot
    attempts,  \* recovery attempts in flight
    queue, op, \* lifecycleTails: operations waiting and the one running
    conf,      \* confirmKill calls: of the running operation (0) and of the
               \* reaper of each generation
    reapers,   \* late-publication reapers that still watch
    base,      \* history: the ledger when this daemon process started
    crowded,   \* history: a launch began before every older holder had ended
    answer,    \* the verdict of the last operation
    asked, faults, timeouts  \* counters for the bounds

host == <<hold, node>>
core == <<sess, owner, link>>
recovery == <<slot, attempts>>
kills == <<kill, must>>
ops == <<queue, op, answer>>
past == <<base, crowded>>
bounds == <<asked, faults, timeouts>>
vars == <<host, gen, core, kills, recovery, ops, conf, reapers, past, bounds>>

Gen == 1..MaxGen
Kinds == {"spawn", "retire", "exact", "reset"}

MayRun == {"launching", "forked", "live"}    \* a holder that is or may come up
NotEnded == MayRun \cup {"stopping"}         \* its process may hold the node

NoSession == [gen |-> 0, life |-> "none", live |-> FALSE]
NoSlot == [gen |-> 0, ep |-> 0]
Slot == [gen : 0..MaxGen, ep : Nat]
NoOp == [kind |-> "none", gen |-> 0, at |-> "idle", why |-> "none", node |-> 0]
NoConfirm == [at |-> "idle", rec |-> 0, sure |-> FALSE]

-----------------------------------------------------------------------------
(* Reading the state.                                                      *)

\* a listener answers at the rendezvous
Live(g) == g # 0 /\ hold[g] = "live"
Listening == node # 0 /\ hold[node] \in {"live", "stopping"}
Absent == ~Listening

\* the holder of g, running or closing down, takes the connection
Answers(g) == node = g /\ Listening

Fault == faults < MaxFaults /\ faults' = faults + 1

\* recoveryCurrent: the slot is still registered under its owner and its
\* generation is the authority's, not exited
Current(s) ==
    /\ slot = s
    /\ owner = s.gen
    /\ sess.gen = s.gen
    /\ sess.life # "exited"

\* core.retire: the snapshot stays, exited; the core's entry goes
Retired == [sess EXCEPT !.life = IF @ = "none" THEN @ ELSE "exited", !.live = FALSE]

\* confirmKill consumes the record only while it is the registered one
Consumed(r) == IF kill = r THEN 0 ELSE kill

\* what an attach checks again after its last await, before it installs a link
StillValid_Live(g) == sess.live
StillValid(g) == owner = g /\ sess.live

Finish(ok) ==
    /\ op' = NoOp
    /\ answer' = ok

At(kind, place) == op.kind = kind /\ op.at = place
Goto(place) == op' = [op EXCEPT !.at = place]

Confirm(r) == conf' = [conf EXCEPT ![0] = [at |-> "check", rec |-> r, sure |-> FALSE]]

-----------------------------------------------------------------------------
(* Requests.  Spawns coalesce on the one in flight; the operations of a    *)
(* session run one after the other in the order they were asked for.      *)

Coalesced_Waiting == \E i \in 1..Len(queue) : queue[i].kind = "spawn"
Coalesced ==
    \/ op.kind = "spawn"
    \/ \E i \in 1..Len(queue) : queue[i].kind = "spawn"

Request(kind, g) ==
    /\ asked < MaxRequests
    /\ kind = "spawn" => ~Coalesced
    /\ g = 0 <=> kind # "exact"
    /\ g <= gen
    /\ op.kind # "restore"             \* control routes answer 503 until ready
    /\ queue' = Append(queue, [kind |-> kind, gen |-> g])
    /\ asked' = asked + 1
    /\ UNCHANGED <<host, gen, core, kills, recovery, op, answer, conf, reapers,
                   past, faults, timeouts>>

Start ==
    /\ op = NoOp /\ queue # <<>>
    /\ queue' = Tail(queue)
    /\ op' = [NoOp EXCEPT !.kind = Head(queue).kind, !.gen = Head(queue).gen,
                          !.at = "start"]
    /\ UNCHANGED <<host, gen, core, kills, recovery, answer, conf, reapers,
                   past, bounds>>

-----------------------------------------------------------------------------
(* Provisioning: doSpawnAndAttachMoor.                                     *)

SpawnRefused ==
    /\ At("spawn", "start")
    /\ slot # NoSlot \/ sess.live
    /\ Finish(slot = NoSlot /\ link # 0)      \* an attached session is ensured
    /\ UNCHANGED <<host, gen, core, kills, recovery, queue, conf, reapers,
                   past, bounds>>

\* the presence probe of the rendezvous: only a refused connect is stale
Preflight ==
    /\ At("spawn", "start")
    /\ slot = NoSlot /\ ~sess.live
    /\ IF Listening
       THEN Finish(FALSE)
       ELSE /\ op' = [op EXCEPT !.at = IF node = 0 THEN "alloc" ELSE "unlink",
                                !.node = node]
            /\ UNCHANGED answer
    /\ UNCHANGED <<host, gen, core, kills, recovery, queue, conf, reapers,
                   past, bounds>>

\* the node is removed only if it is still the one that was judged stale
UnlinkStale ==
    /\ At("spawn", "unlink")
    /\ IF node \in {0, op.node}
       THEN node' = 0 /\ Goto("alloc") /\ UNCHANGED answer
       ELSE Finish(FALSE) /\ UNCHANGED node
    /\ UNCHANGED <<hold, gen, core, kills, recovery, queue, conf, reapers,
                   past, bounds>>

\* the provider's fence or the supervisor's cap refuses before any allocation
PreallocateRefused ==
    /\ At("spawn", "alloc")
    /\ Finish(FALSE)
    /\ UNCHANGED <<host, gen, core, kills, recovery, queue, conf, reapers,
                   past, bounds>>

Allocate ==
    /\ At("spawn", "alloc")
    /\ gen < MaxGen
    /\ gen' = gen + 1
    /\ sess' = [gen |-> gen', life |-> "starting", live |-> TRUE]
    /\ owner' = gen'
    /\ op' = [op EXCEPT !.at = "prepare", !.gen = gen']
    /\ UNCHANGED <<host, kills, link, recovery, queue, answer, conf, reapers,
                   past, bounds>>

PrepareFails ==
    /\ At("spawn", "prepare")
    /\ Fault
    /\ owner' = 0 /\ sess' = Retired
    /\ Finish(FALSE)
    /\ UNCHANGED <<host, gen, kills, link, recovery, queue, conf, reapers,
                   past, asked, timeouts>>

Launch ==
    /\ At("spawn", "prepare")
    /\ hold' = [hold EXCEPT ![gen] = "launching"]
    /\ Goto("launch")
    /\ crowded' = (crowded \/ \E g \in Gen : hold[g] \in NotEnded)
    /\ UNCHANGED <<node, gen, core, kills, recovery, queue, answer, conf,
                   reapers, base, bounds>>

\* the launcher exits 0: its holder was ready
LaunchReady ==
    /\ At("spawn", "launch")
    /\ hold[gen] \in {"live", "stopping", "gone"}
    /\ kill' = gen /\ must' = must \ {gen}
    /\ Goto("attach")
    /\ UNCHANGED <<host, gen, core, recovery, queue, answer, conf, reapers,
                   past, bounds>>

\* the launcher exits nonzero: it rolled its holder back, but a node may be
\* visible all the same
LaunchFailed ==
    /\ At("spawn", "launch")
    /\ hold[gen] \in {"launching", "aborted", "gone"}
    /\ hold' = [hold EXCEPT ![gen] = IF @ = "gone" THEN @ ELSE "aborted"]
    /\ IF node = 0
       THEN /\ sess' = Retired /\ Finish(FALSE)
            /\ UNCHANGED <<kills, conf>>
       ELSE /\ kill' = gen /\ must' = must \cup {gen}
            /\ Confirm(gen)
            /\ op' = [op EXCEPT !.at = "confirm", !.why = "failed"]
            /\ UNCHANGED <<sess, answer>>
    /\ UNCHANGED <<node, gen, owner, link, recovery, queue, reapers, past, bounds>>

\* what a launch that is neither ready nor failed leaves behind: its record
\* is registered, and the next kill of it must be confirmed
TimedOut_Certain ==
    /\ kill' = gen /\ must' = must \ {gen}
    /\ Confirm(gen)

TimedOut ==
    /\ kill' = gen /\ must' = must \cup {gen}
    /\ Confirm(gen)

LaunchTimesOut ==
    /\ At("spawn", "launch")
    /\ timeouts < MaxTimeouts /\ timeouts' = timeouts + 1
    /\ hold' = [hold EXCEPT ![gen] = IF @ = "launching" THEN "aborted" ELSE @]
    /\ TimedOut
    /\ op' = [op EXCEPT !.at = "confirm", !.why = "timeout"]
    /\ UNCHANGED <<node, gen, core, recovery, queue, answer, reapers, past,
                   asked, faults>>

\* moorAttachMaster installs the link after its re-check and marks it running
AttachOk ==
    /\ At("spawn", "attach")
    /\ Answers(gen)
    /\ StillValid(gen)
    /\ link' = gen
    /\ sess' = [sess EXCEPT !.life = "running"]
    /\ Finish(TRUE)
    /\ UNCHANGED <<host, gen, owner, kills, recovery, queue, conf, reapers,
                   past, bounds>>

\* teardownFailedSpawn
AttachFails ==
    /\ At("spawn", "attach")
    /\ IF hold[gen] = "live" THEN Fault ELSE UNCHANGED faults
    /\ IF kill = 0
       THEN sess' = Retired /\ Finish(FALSE) /\ UNCHANGED <<kills, conf>>
       ELSE /\ must' = must \cup {kill}
            /\ Confirm(kill)
            /\ op' = [op EXCEPT !.at = "confirm", !.why = "attach"]
            /\ UNCHANGED <<sess, kill, answer>>
    /\ UNCHANGED <<host, gen, owner, link, recovery, queue, reapers, past,
                   asked, timeouts>>

\* the confirmed kill of a failed spawn came back, and the slot is freed; an
\* unconfirmed one of uncertain fate arms the late-publication reaper
SpawnTornDown ==
    /\ At("spawn", "confirm")
    /\ conf[0].at \in {"ok", "failed"}
    /\ conf' = [conf EXCEPT ![0] = NoConfirm]
    /\ reapers' = IF op.why = "timeout" /\ conf[0].at = "failed"
                  THEN reapers \cup {gen} ELSE reapers
    /\ sess' = Retired
    /\ Finish(FALSE)
    /\ UNCHANGED <<host, gen, owner, link, kills, recovery, queue, past, bounds>>

-----------------------------------------------------------------------------
(* Retiring: retireAwaited, retireGenerationAwaited and the reset of a     *)
(* provider session.                                                       *)

Retiring == op.kind \in {"retire", "exact", "reset"}

\* the generation an exact retire compares with: the authority's, or the
\* retained record's
Addressed == IF sess.gen # 0 THEN sess.gen ELSE kill

Fenced_Dropped == TRUE
Fenced == op.kind = "exact" => Addressed # 0 /\ Addressed = op.gen

RetireRefused ==
    /\ Retiring /\ op.at = "start"
    /\ ~Fenced
    /\ Finish(FALSE)
    /\ UNCHANGED <<host, gen, core, kills, recovery, queue, conf, reapers,
                   past, bounds>>

\* terminateOverLiveLink: the holder stops, or the outcome is indeterminate
Terminate ==
    /\ Retiring /\ op.at = "start"
    /\ Fenced
    /\ \/ UNCHANGED hold
       \/ /\ Live(link)
          /\ hold' = [hold EXCEPT ![link] = "stopping"]
    /\ Goto("begin")
    /\ UNCHANGED <<node, gen, core, kills, recovery, queue, answer, conf,
                   reapers, past, bounds>>

\* beginRetire, and the confirmed kill of the record it peeks at
BeginRetire ==
    /\ Retiring /\ op.at = "begin"
    /\ owner' = 0 /\ link' = 0 /\ sess' = Retired
    /\ slot' = NoSlot
    /\ CASE kill = 0 -> IF op.kind = "reset"
                        THEN Goto("path") /\ UNCHANGED <<answer, conf>>
                        ELSE Finish(TRUE) /\ UNCHANGED conf
         [] kill # 0 /\ op.kind = "exact" /\ kill # op.gen ->
              Finish(FALSE) /\ UNCHANGED conf
         [] OTHER -> Confirm(kill) /\ Goto("confirm") /\ UNCHANGED answer
    /\ UNCHANGED <<host, gen, kills, attempts, queue, reapers, past, bounds>>

RetireConfirmed ==
    /\ Retiring /\ op.at = "confirm"
    /\ conf[0].at \in {"ok", "failed"}
    /\ conf' = [conf EXCEPT ![0] = NoConfirm]
    /\ IF op.kind = "reset" /\ conf[0].at = "ok"
       THEN Goto("path") /\ UNCHANGED answer
       ELSE Finish(conf[0].at = "ok")
    /\ UNCHANGED <<host, gen, core, kills, recovery, queue, reapers, past, bounds>>

\* the reset probes a node that is still there, then removes a stale one and
\* runs the provider's transaction: a probe that times out or fails says stale
ResetProbes ==
    /\ At("reset", "path")
    /\ \/ node = 0 /\ Finish(TRUE)
       \/ Listening /\ Finish(FALSE)
       \/ node # 0 /\ Goto("remove") /\ UNCHANGED answer
    /\ UNCHANGED <<host, gen, core, kills, recovery, queue, conf, reapers,
                   past, bounds>>

ResetRemoves ==
    /\ At("reset", "remove")
    /\ node' = 0
    /\ Finish(TRUE)
    /\ UNCHANGED <<hold, gen, core, kills, recovery, queue, conf, reapers,
                   past, bounds>>

-----------------------------------------------------------------------------
(* confirmKill, for the running operation (0) or a reaper.                 *)

Became(a, place) == conf' = [conf EXCEPT ![a].at = place]

\* a failed attempt keeps the record and makes its fate uncertain
KillFails(a) ==
    /\ Became(a, "failed")
    /\ must' = must \cup {conf[a].rec}
    /\ UNCHANGED <<kill, node>>

KillConfirmed(a) ==
    /\ Became(a, "ok")
    /\ kill' = Consumed(conf[a].rec)
    /\ UNCHANGED must

\* the socket-absent shortcut is only for a record whose holder is certain
Shortcut_AnyRecord(r) == node = 0
Shortcut(r) == r \notin must /\ node = 0

Check(a) ==
    /\ conf[a].at = "check"
    /\ IF Shortcut(conf[a].rec)
       THEN KillConfirmed(a)
       ELSE /\ conf' = [conf EXCEPT ![a].at = "kill",
                                    ![a].sure = conf[a].rec \notin must]
            /\ UNCHANGED kills
    /\ UNCHANGED <<host, gen, core, recovery, ops, reapers, past, bounds>>

\* `moor kill -f PATH` reaches whatever holder listens there
KillReaches(a) ==
    /\ conf[a].at = "kill"
    /\ Listening
    /\ hold' = [hold EXCEPT ![node] = "stopping"]
    /\ Became(a, "wait")
    /\ UNCHANGED <<node, gen, core, kills, recovery, ops, reapers, past, bounds>>

\* the command fails; for a certain holder an absent node still reads clean,
\* and `moor rm` may tell a stale node from a live one
KillRefused(a) ==
    CASE conf[a].sure /\ node = 0 -> KillConfirmed(a)
      [] conf[a].sure /\ node # 0 -> Became(a, "rm") /\ UNCHANGED kills
      [] OTHER -> Became(a, "failed") /\ must' = must \cup {conf[a].rec}
                  /\ UNCHANGED kill

KillMisses(a) ==
    /\ conf[a].at = "kill"
    /\ ~Live(node)
    /\ KillRefused(a)
    /\ UNCHANGED <<host, gen, core, recovery, ops, reapers, past, bounds>>

\* a command that hangs is killed after five seconds; it may have been heard
KillHangs(a) ==
    /\ conf[a].at = "kill"
    /\ Fault
    /\ \/ UNCHANGED hold
       \/ /\ Live(node)
          /\ hold' = [hold EXCEPT ![node] = "stopping"]
    /\ KillRefused(a)
    /\ UNCHANGED <<node, gen, core, recovery, ops, reapers, past, asked, timeouts>>

Cleanup(a) ==
    /\ conf[a].at = "rm"
    /\ IF node # 0 /\ hold[node] = "gone"
       THEN node' = 0 /\ KillConfirmed(a)
       ELSE KillFails(a)
    /\ UNCHANGED <<hold, gen, core, recovery, ops, reapers, past, bounds>>

\* waitForSocketGone
NodeGone(a) ==
    /\ conf[a].at = "wait"
    /\ node = 0
    /\ KillConfirmed(a)
    /\ UNCHANGED <<host, gen, core, recovery, ops, reapers, past, bounds>>

NodeStays_Never(a) == FALSE /\ UNCHANGED vars
NodeStays(a) ==
    /\ conf[a].at = "wait"
    /\ node # 0
    /\ KillFails(a)
    /\ UNCHANGED <<hold, gen, core, recovery, ops, reapers, past, bounds>>

ConfirmStep(a) ==
    \/ Check(a) \/ KillReaches(a) \/ KillMisses(a) \/ KillHangs(a)
    \/ Cleanup(a) \/ NodeGone(a) \/ NodeStays(a)

-----------------------------------------------------------------------------
(* The late-publication reaper of generation g.                            *)

ReaperStops(g) ==
    /\ g \in reapers
    /\ reapers' = reapers \ {g}
    /\ UNCHANGED <<host, gen, core, kills, recovery, ops, conf, past, bounds>>

\* while its record is the registered one, a node that appears is killed
ReaperSees(g) ==
    /\ g \in reapers
    /\ kill = g /\ node # 0
    /\ reapers' = reapers \ {g}
    /\ conf' = [conf EXCEPT ![g] = [at |-> "check", rec |-> g, sure |-> FALSE]]
    /\ UNCHANGED <<host, gen, core, kills, recovery, ops, past, bounds>>

ReaperDone(g) ==
    /\ conf[g].at \in {"ok", "failed"}
    /\ conf' = [conf EXCEPT ![g] = NoConfirm]
    /\ UNCHANGED <<host, gen, core, kills, recovery, ops, reapers, past, bounds>>

-----------------------------------------------------------------------------
(* A lost link, and the slot that looks for the holder again.              *)

\* a new slot object: none that is registered or that an attempt still holds
Fresh == CHOOSE e \in 1..(Cardinality(attempts) + 2) :
            e # slot.ep /\ \A t \in attempts : t.s.ep # e

OpenSlot(g) ==
    /\ slot' = [gen |-> g, ep |-> Fresh]
    /\ attempts' = attempts \cup {[s |-> slot', at |-> "probe"]}

\* onClose of the current link: beginControllerRecovery
LinkDrops ==
    /\ link # 0
    /\ owner = link /\ sess.gen = link /\ sess.life # "exited"
    /\ IF hold[link] = "gone" THEN UNCHANGED faults ELSE Fault
    /\ OpenSlot(link)
    /\ link' = 0
    /\ UNCHANGED <<host, gen, sess, owner, kills, ops, conf, reapers, past,
                   asked, timeouts>>

\* endAuthorityForConfirmedAbsence
EndAuthority(g) ==
    /\ owner = g /\ sess.gen = g /\ sess.life # "exited"
    /\ owner' = 0 /\ link' = 0 /\ kill' = 0 /\ sess' = Retired
    /\ slot' = NoSlot
    /\ UNCHANGED <<host, gen, must, ops, conf, reapers, past, bounds>>

\* the liveness probe of a link that went silent finds nobody
LivenessAbsent ==
    /\ link # 0 /\ Absent
    /\ EndAuthority(link)
    /\ UNCHANGED attempts

Moves(t, place) == attempts' = (attempts \ {t}) \cup {[t EXCEPT !.at = place]}

\* runControllerRecovery: probe, attach, accept, each fenced after its await
Stale(t) ==
    /\ t \in attempts /\ ~Current(t.s)
    /\ attempts' = attempts \ {t}
    /\ UNCHANGED <<host, gen, core, slot, kills, ops, conf, reapers, past, bounds>>

ProbeAbsent(t) ==
    /\ t \in attempts /\ t.at = "probe" /\ Current(t.s)
    /\ Absent
    /\ attempts' = attempts \ {t}
    /\ EndAuthority(t.s.gen)

ProbeLive(t) ==
    /\ t \in attempts /\ t.at = "probe" /\ Current(t.s)
    /\ Answers(t.s.gen)
    /\ Moves(t, "attach")
    /\ UNCHANGED <<host, gen, core, slot, kills, ops, conf, reapers, past, bounds>>

ReattachOk(t) ==
    /\ t \in attempts /\ t.at = "attach" /\ Current(t.s)
    /\ Answers(t.s.gen)
    /\ StillValid(t.s.gen)
    /\ link' = t.s.gen
    /\ sess' = [sess EXCEPT !.life = "running"]
    /\ Moves(t, "accept")
    /\ UNCHANGED <<host, gen, owner, slot, kills, ops, conf, reapers, past, bounds>>

\* the retry the shared timer arms
Retry_Dropped(t) == attempts' = attempts \ {t}
Retry(t) == Moves(t, "probe")

ReattachFails(t) ==
    /\ t \in attempts /\ t.at = "attach" /\ Current(t.s)
    /\ IF node = t.s.gen /\ Live(node) THEN Fault ELSE UNCHANGED faults
    /\ Retry(t)
    /\ UNCHANGED <<host, gen, core, slot, kills, ops, conf, reapers, past,
                   asked, timeouts>>

\* the durable observer is installed and the slot released
Accepted(t) ==
    /\ t \in attempts /\ t.at = "accept" /\ Current(t.s)
    /\ attempts' = attempts \ {t}
    /\ slot' = NoSlot
    /\ UNCHANGED <<host, gen, core, kills, ops, conf, reapers, past, bounds>>

\* the observer refused: the exact generation is retired, behind whatever
\* lifecycle operation is running; the slot stays until that retire
AcceptRefused(t) ==
    /\ t \in attempts /\ t.at = "accept" /\ Current(t.s)
    /\ Fault
    /\ attempts' = attempts \ {t}
    /\ queue' = Append(queue, [kind |-> "exact", gen |-> t.s.gen])
    /\ UNCHANGED <<host, gen, core, slot, kills, op, answer, conf, reapers,
                   past, asked, timeouts>>

-----------------------------------------------------------------------------
(* The host.                                                               *)

Become(g, state) == hold' = [hold EXCEPT ![g] = state]

HostOnly == UNCHANGED <<gen, core, kills, recovery, ops, conf, reapers, past>>

Forks(g) ==
    /\ hold[g] = "launching"
    /\ Become(g, "forked")
    /\ HostOnly /\ UNCHANGED <<node, bounds>>

\* publish_exclusive
Publishes(g) ==
    /\ hold[g] = "forked" /\ node = 0
    /\ Become(g, "live")
    /\ node' = g
    /\ HostOnly /\ UNCHANGED bounds

\* the name is taken, or the launch failed on its own
Aborts(g) ==
    /\ hold[g] = "forked"
    /\ Become(g, "aborted")
    /\ HostOnly /\ UNCHANGED <<node, bounds>>

\* the child exits or the holder was told to stop: the node is withdrawn
HolderEnds(g) ==
    /\ \/ hold[g] = "stopping" /\ UNCHANGED faults
       \/ hold[g] = "live" /\ Fault
    /\ Become(g, "gone")
    /\ node' = IF node = g THEN 0 ELSE node
    /\ HostOnly /\ UNCHANGED <<asked, timeouts>>

\* the holder dies without withdrawing its node
HolderCrashes(g) ==
    /\ hold[g] \in {"live", "stopping"}
    /\ Fault
    /\ Become(g, "gone")
    /\ HostOnly /\ UNCHANGED <<node, asked, timeouts>>

\* observeMoorEvent 'exit' of the session's own generation
ExitObserved ==
    /\ sess.gen # 0 /\ sess.live /\ sess.life # "exited"
    /\ hold[sess.gen] \in {"stopping", "gone"}
    /\ sess' = [sess EXCEPT !.life = "exited"]
    /\ owner' = 0 /\ link' = 0
    /\ slot' = IF slot.gen = sess.gen THEN NoSlot ELSE slot
    /\ UNCHANGED <<host, gen, kills, attempts, ops, conf, reapers, past, bounds>>

-----------------------------------------------------------------------------
(* The daemon dies and comes back: only the ledger and the holders remain. *)
(* A node at the rendezvous is re-adopted before any route answers.        *)

Restart ==
    /\ Fault
    /\ must' = {} /\ link' = 0
    /\ slot' = NoSlot /\ attempts' = {}
    /\ queue' = <<>> /\ answer' = FALSE
    /\ conf' = [a \in {0} \cup Gen |-> NoConfirm]
    /\ reapers' = {}
    /\ base' = gen
    /\ IF node # 0 /\ gen # 0
       THEN /\ sess' = [gen |-> gen, life |-> "starting", live |-> TRUE]
            /\ owner' = gen /\ kill' = gen
            /\ op' = [NoOp EXCEPT !.kind = "restore", !.gen = gen, !.at = "attach"]
       ELSE /\ sess' = NoSession /\ owner' = 0 /\ kill' = 0 /\ op' = NoOp
    /\ UNCHANGED <<host, gen, crowded, asked, timeouts>>

RestoreAttached ==
    /\ At("restore", "attach")
    /\ Answers(gen)
    /\ StillValid(gen)
    /\ link' = gen
    /\ sess' = [sess EXCEPT !.life = "running"]
    /\ Finish(TRUE)
    /\ \/ UNCHANGED <<queue, faults>>
       \/ /\ Fault                        \* its event store is not observable
          /\ queue' = Append(queue, [kind |-> "exact", gen |-> gen])
    /\ UNCHANGED <<host, gen, owner, kills, recovery, conf, reapers, past,
                   asked, timeouts>>

\* a failed attach is not an ended session: it is kept and looked for again
RestoreUnadopted ==
    /\ At("restore", "attach")
    /\ IF node = gen /\ Live(node) THEN Fault ELSE UNCHANGED faults
    /\ Finish(FALSE)
    /\ IF owner = gen /\ sess.life # "exited"
       THEN /\ sess' = [sess EXCEPT !.life = "running"]
            /\ OpenSlot(gen)
       ELSE UNCHANGED <<sess, recovery>>
    /\ UNCHANGED <<host, gen, owner, link, kills, queue, conf, reapers, past,
                   asked, timeouts>>

-----------------------------------------------------------------------------
Init ==
    /\ hold = [g \in Gen |-> "none"] /\ node = 0 /\ gen = 0
    /\ sess = NoSession /\ owner = 0 /\ link = 0
    /\ kill = 0 /\ must = {}
    /\ slot = NoSlot /\ attempts = {}
    /\ queue = <<>> /\ op = NoOp
    /\ answer = FALSE
    /\ conf = [a \in {0} \cup Gen |-> NoConfirm]
    /\ reapers = {} /\ base = 0 /\ crowded = FALSE
    /\ asked = 0 /\ faults = 0 /\ timeouts = 0

OpStep ==
    \/ Start
    \/ SpawnRefused \/ Preflight \/ UnlinkStale \/ PreallocateRefused
    \/ Allocate \/ PrepareFails \/ Launch \/ LaunchReady \/ LaunchFailed
    \/ AttachOk \/ AttachFails \/ SpawnTornDown
    \/ RetireRefused \/ Terminate \/ BeginRetire \/ RetireConfirmed
    \/ ResetProbes \/ ResetRemoves
    \/ RestoreAttached \/ RestoreUnadopted

Recovering(t) ==
    \/ Stale(t) \/ ProbeAbsent(t) \/ ProbeLive(t) \/ ReattachOk(t)
    \/ ReattachFails(t) \/ Accepted(t) \/ AcceptRefused(t)

Attempts == [s : Slot, at : {"probe", "attach", "accept"}]

Next ==
    \/ \E kind \in Kinds, g \in 0..MaxGen : Request(kind, g)
    \/ OpStep
    \/ LaunchTimesOut
    \/ \E a \in {0} \cup Gen : ConfirmStep(a)
    \/ \E g \in Gen : ReaperStops(g) \/ ReaperSees(g) \/ ReaperDone(g)
    \/ LinkDrops
    \/ LivenessAbsent
    \/ \E t \in attempts : Recovering(t)
    \/ \E g \in Gen : Forks(g) \/ Publishes(g) \/ Aborts(g)
                      \/ HolderEnds(g) \/ HolderCrashes(g)
    \/ ExitObserved
    \/ Restart

Spec == Init /\ [][Next]_vars

\* The event loop runs what is due and every child process ends or is killed
\* at its deadline; a transport whose holder is gone closes; launched holders
\* make progress.  Nothing forces a request, a fault or an observed exit.
Fairness ==
    /\ WF_vars(OpStep)
    /\ \A a \in {0} \cup Gen : WF_vars(ConfirmStep(a))
    /\ \A g \in Gen :
         /\ WF_vars(ReaperDone(g))
         /\ WF_vars(Forks(g))
         /\ WF_vars(Publishes(g) \/ Aborts(g))
         /\ WF_vars(HolderEnds(g) /\ faults' = faults)
    /\ WF_vars(LinkDrops /\ faults' = faults)
    /\ WF_vars(\E t \in attempts : Recovering(t))

LiveSpec == Spec /\ Fairness
-----------------------------------------------------------------------------
(* Properties.                                                             *)

Fate == {"none", "launching", "forked", "live", "stopping", "gone", "aborted"}

TypeOK ==
    /\ hold \in [Gen -> Fate] /\ node \in 0..MaxGen /\ gen \in 0..MaxGen
    /\ sess \in [gen : 0..MaxGen, life : {"none", "starting", "running", "exited"},
                  live : BOOLEAN]
    /\ owner \in 0..MaxGen /\ link \in 0..MaxGen
    /\ kill \in 0..MaxGen /\ must \subseteq Gen
    /\ slot \in Slot
    /\ attempts \subseteq Attempts
    /\ reapers \subseteq Gen /\ base \in 0..gen
    /\ \A a \in {0} \cup Gen : conf[a].rec \in 0..MaxGen
    /\ \A i \in 1..Len(queue) : queue[i].kind \in Kinds
    /\ \A i, j \in 1..Len(queue) :      \* one spawn in flight
         queue[i].kind = "spawn" => op.kind # "spawn" /\ (queue[j].kind = "spawn" => i = j)

\* what this daemon process launched and that may still run
Running == {g \in (base + 1)..gen : hold[g] \in MayRun}

\* The adopted link always serves the session the core has live, under the
\* operation that owns it: no late attach, restore or recovery installs a link
\* for a generation that was retired meanwhile.
LinkIsOwned == link # 0 => sess.live /\ sess.gen = link /\ owner = link

\* A holder this daemon launched and that may still run always has a teardown
\* record once its launch has been judged: no timeout, failed kill, reaper or
\* lost link strands it.
TeardownKept == Running # {} => kill # 0 \/ op.at \in {"prepare", "launch"}

\* It holds as long as no launch begins while an older holder can publish or
\* still has the node: one path, and one record, would stand for two.
TeardownKeptAlone == crowded \/ TeardownKept

\* A retire or reset that answers ok leaves nothing running that this daemon
\* launched, not even a holder that has not published yet.
RetiredIsGone ==
    [][(Retiring /\ op' = NoOp /\ answer' /\ ~crowded) => Running' = {}]_vars

\* A retire of one exact generation never tells a newer holder to stop, however
\* long it waited in the queue: a stale caller cannot tear its successor down.
Stops(g) == hold[g] = "live" /\ hold'[g] = "stopping"
ExactIsFenced ==
    [][\A g \in Gen :
         Stops(g) /\ op.kind = "exact"
           /\ (op' # op \/ conf'[0] # conf[0])
         => g <= op.gen]_vars

\* An operation never tells a holder of a newer generation to stop than the
\* one it retires, and a reaper never one but its own.
KillsItsOwn ==
    [][\A g \in Gen : Stops(g) =>
         \/ Retiring /\ op' # op /\ (op.kind = "exact" => g <= op.gen)
         \/ \E a \in {0} \cup Gen : conf[a].at = "kill" /\ conf'[a] # conf[a]
                                     /\ g <= conf[a].rec]_vars

\* Every operation asked for is answered: serialisation, kills that hang, a
\* node that never goes and an acceptance that queues a retire behind the
\* running operation never block the session's lifecycle.
Served == (queue # <<>> \/ op # NoOp) ~> (queue = <<>> /\ op = NoOp)

\* A session whose holder is gone does not stay running: the closed link, the
\* probes and the recovery slot establish its absence, or someone retires it.
\* The exception is a foreign or late holder at the rendezvous, which no probe
\* may mistake for absence.
Orphaned == sess.life = "running" /\ hold[sess.gen] = "gone" /\ ~Listening
AbsenceEnds == Orphaned ~> ~Orphaned
=============================================================================
