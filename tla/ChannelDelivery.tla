--------------------------- MODULE ChannelDelivery ---------------------------
(***************************************************************************)
(* One session's prompt queue in the Channels delivery engine              *)
(* (server/channels/delivery/engine.ts), the files that carry it across    *)
(* restarts (durability.ts, paused.ts) and the wiring between the two      *)
(* (server/channels/api.ts).                                               *)
(*                                                                         *)
(* The engine is single-threaded: an action is the code that runs between  *)
(* two awaits.  What interleaves is the drains waiting for the agent-state *)
(* batch (reading), the sends waiting for the transport (sending), the     *)
(* pump, the operator's console actions, the change feed and crashes.      *)
(*                                                                         *)
(* Prompts are numbered in the order they are posted.  A queued item       *)
(* carries its file sequence number seq, its prompt msg and its place in   *)
(* the array.  Files of the queue directory are records: seq is the stem,  *)
(* ext the extension, consumed marks a ".consumed" restore tombstone.      *)
(***************************************************************************)
EXTENDS Integers, FiniteSets

CONSTANTS
  NumMsgs,       (* prompts ever routed to the session                     *)
  Prompts,       (* those of kind "prompt"; the others are "message"       *)
  LegacyCounts,  (* how many stuck files an older build may have left      *)
  MaxQueue,      (* MAX_QUEUE_PER_SESSION                                  *)
  MaxCrashes,    (* bound on process deaths                                *)
  MaxTimeouts,   (* bound on sends that outlive DELIVERY_SEND_TIMEOUT_MS   *)
  MaxLost,       (* bound on arrivals of a prompt before a lost reply      *)
  MaxOthers,     (* bound on the numbers a process gives other sessions     *)
  Operator       (* console actions in play                                *)

ASSUME DeliveryAssumption ==
  /\ NumMsgs \in Nat
  /\ LegacyCounts \subseteq 0..NumMsgs
  /\ Prompts \subseteq 1..NumMsgs
  /\ MaxQueue \in Nat \ {0}
  /\ MaxCrashes \in Nat
  /\ MaxTimeouts \in Nat
  /\ MaxLost \in Nat
  /\ MaxOthers \in Nat
  /\ Operator \subseteq {"pause", "drop", "force"}

VARIABLES
  phase,             (* where the process is: dead, restoring or serving   *)
  todo,              (* names restoreQueues has yet to claim               *)
  files,             (* _engine/queue/<session>/                           *)
  pausedFile,        (* the session is listed in _engine/paused.json       *)
  queue,             (* runtime.queue                                      *)
  queueSeq,          (* the engine's counter when this session last drew   *)
  delivered,         (* prompts in the dispatch dedupe memory              *)
  pausedByOperator,
  draining,          (* the per-session drain lock                         *)
  watchdogDue,       (* drainingSince is older than drainWatchdogMs        *)
  deliveryInFlight,
  reading,           (* drains suspended in readStateBatch                 *)
  sending,           (* sends deliverNext is awaiting                      *)
  late,              (* sends it gave up on, still with the transport      *)
  posted,            (* prompts routed so far                              *)
  fresh,             (* messages the change feed may hand over again       *)
  crashes,           (* process deaths so far                                  *)
  timeouts,          (* sends given up so far                                  *)
  accepted,          (* history: times each prompt reached the agent       *)
  confirmed,         (* history: prompts the engine recorded as submitted  *)
  removed,           (* history: prompts dropped by operator or cap        *)
  unmarked,          (* history: confirmed prompts left without their mark *)
  exposed,           (* history: prompts a half-written restore left to be *)
                     (* overwritten by the next one                        *)
  disordered         (* history: a process died before an upward           *)
                     (* renumbering was cleaned up                         *)

disk == <<files, pausedFile>>
lock == <<draining, watchdogDue, deliveryInFlight, reading, sending, late>>
feed == <<posted, fresh>>
bounds == <<crashes, timeouts>>
record == <<unmarked, exposed, disordered>>
history == <<accepted, confirmed, removed, unmarked, exposed, disordered>>
vars == <<phase, todo, disk, queue, queueSeq, delivered, pausedByOperator,
          lock, feed, bounds, history>>

-----------------------------------------------------------------------------
(* Items and the queue array. *)

Msgs == 1..NumMsgs
Item == [seq: Nat, msg: Msgs, place: Nat]

Seqs(q)   == {i.seq : i \in q}
MsgsOf(q) == {i.msg : i \in q}

(* Mutant: the queue is served from its end. *)
First_Latest(q) == CHOOSE i \in q : \A j \in q : i.place >= j.place

First(q) == CHOOSE i \in q : \A j \in q : i.place <= j.place

Push(q, seq, m) ==
  q \cup {[seq |-> seq, msg |-> m, place |-> Cardinality(q) + 1]}

(* What filter and shift leave: the items kept, at consecutive places. *)
Closed(q) == {[i EXCEPT !.place = Cardinality({j \in q : j.place <= i.place})] : i \in q}

(* The array after the runaway backstop dropped its oldest entries. *)
Newest(q) == Closed({i \in q : Cardinality({j \in q : j.place > i.place}) < MaxQueue})

Without(q, seqs) == Closed({i \in q : i.seq \notin seqs})

(* What one delivery covers: the item itself, or every channel message when *)
(* a message leads the queue, another waits and no item was forced.         *)
Covered(q, next, forced) ==
  LET messages == {i \in q : i.msg \notin Prompts}
  IN  IF ~forced /\ next.msg \notin Prompts /\ messages # {next}
        THEN messages ELSE {next}

-----------------------------------------------------------------------------
(* Files. *)

StuckExts == {"stuck-paste", "stuck-submit", "stuck-unobservable"}
Exts == {"json", "delivering", "delivered"} \cup StuckExts
File == [seq: Nat, ext: Exts, consumed: BOOLEAN, msg: Msgs]

NameOf(f) == [seq |-> f.seq, ext |-> f.ext, consumed |-> f.consumed]
Plain(f, ext) == f.ext = ext /\ ~f.consumed
Has(fs, seq, ext) == \E f \in fs : f.seq = seq /\ Plain(f, ext)
WithExt(fs, ext) == {f \in fs : Plain(f, ext)}

(* Two items of one seq share a file name: the later write stays. *)
Snapshot(q) ==
  {[seq |-> i.seq, ext |-> "json", consumed |-> FALSE, msg |-> i.msg] :
     i \in {i \in q : \A j \in q : j.seq = i.seq => j.place <= i.place}}

(* Mutant: the snapshot clears the claims of the deliveries in flight, too. *)
Persist_WipesClaims(fs, q) ==
  {f \in fs : ~Plain(f, "json") /\ ~Plain(f, "delivering")} \cup Snapshot(q)

(* persistQueue: every item rewritten as .json, every other .json unlinked,  *)
(* every other extension left alone.                                         *)
Persist(fs, q) == {f \in fs : ~Plain(f, "json")} \cup Snapshot(q)

(* claimDelivering, for each of seqs. *)
Claim(fs, seqs) ==
  {IF Plain(f, "json") /\ f.seq \in seqs /\ ~Has(fs, f.seq, "delivering")
     THEN [f EXCEPT !.ext = "delivering"] ELSE f : f \in fs}

(* Mutant: one rename too few, the callback of a shell session missing. *)
Confirm_Skipped(fs, seqs) == fs

(* confirmDelivered, for each of seqs. *)
Confirm(fs, seqs) ==
  {IF Plain(f, "delivering") /\ f.seq \in seqs /\ ~Has(fs, f.seq, "delivered")
     THEN [f EXCEPT !.ext = "delivered"] ELSE f : f \in fs}

(* revertAllDeliveringToJson: each rename replaces the .json of its seq.     *)
RevertAllDelivering(fs) ==
  {IF Plain(f, "delivering") THEN [f EXCEPT !.ext = "json"] ELSE f :
     f \in {f \in fs : ~(Plain(f, "json") /\ Has(fs, f.seq, "delivering"))}}

(* The stuck file retryStuckItem and dropStuckItem pick for a seq. *)
StuckFile(fs, seq, f) ==
  /\ f \in fs /\ f.seq = seq /\ ~f.consumed /\ f.ext \in StuckExts
  /\ f.ext # "stuck-paste" => ~Has(fs, seq, "stuck-paste")
  /\ f.ext = "stuck-unobservable" => ~Has(fs, seq, "stuck-submit")

StuckSeqs(fs) == {f.seq : f \in {f \in fs : ~f.consumed /\ f.ext \in StuckExts}}

(* retryStuckItem: a no-op when the .json already exists. *)
RetryStuck(fs, seq) ==
  IF Has(fs, seq, "json") THEN fs
  ELSE {IF StuckFile(fs, seq, f) THEN [f EXCEPT !.ext = "json"] ELSE f : f \in fs}

DropStuck(fs, seq) == {f \in fs : ~StuckFile(fs, seq, f)}

-----------------------------------------------------------------------------
(* The drain lock and the sends made under it. *)

Prompt == [seq: Nat, msg: Msgs]
Send == [items: SUBSET Prompt, next: Nat, stale: BOOLEAN]
Drain == [head: Nat, stale: BOOLEAN]

(* ++drainGeneration: whoever captured the old value no longer owns the lock. *)
Superseded(S) == {[r EXCEPT !.stale = TRUE] : r \in S}

(* Mutants: the watchdog reclaims a lock under a paste; no watchdog at all. *)
CanAcquire_UnderPaste == ~draining \/ watchdogDue
CanAcquire_NoWatchdog == ~draining

CanAcquire == ~draining \/ (watchdogDue /\ ~deliveryInFlight)

(* drain(runtime, false) up to its await, on queue q with pause flag p. *)
StartDrain(q, p) ==
  IF q # {} /\ ~p /\ CanAcquire
    THEN /\ draining' = TRUE
         /\ watchdogDue' = FALSE
         /\ reading' = Superseded(reading) \cup {[head |-> First(q).seq, stale |-> FALSE]}
         /\ sending' = Superseded(sending)
         /\ UNCHANGED <<deliveryInFlight, late>>
    ELSE UNCHANGED lock

(* The finally block of drain and forceDeliver. *)
Release(stale) ==
  /\ draining' = (draining /\ stale)
  /\ watchdogDue' = (watchdogDue /\ stale)

(* deliverNext up to the send: claim the covered files, then send. *)
StartSend(q, next, forced, fs, others) ==
  LET items == {[seq |-> i.seq, msg |-> i.msg] : i \in Covered(q, next, forced)}
  IN  /\ files' = Claim(fs, Seqs(items))
      /\ deliveryInFlight' = TRUE
      /\ sending' = others \cup {[items |-> items, next |-> next.seq, stale |-> FALSE]}

(* A drain or force delivery that has its batch takes the lock and sends. *)
AcquireAndSend(q, next, forced, fs) ==
  /\ draining' = TRUE
  /\ watchdogDue' = FALSE
  /\ reading' = Superseded(reading)
  /\ StartSend(q, next, forced, fs, Superseded(sending))
  /\ UNCHANGED late

(* What the transport holds: the items of every send it has not answered. *)
InTransit == {s.items : s \in sending} \cup late

(* The prompts of some of the sends in transit reach the agent. *)
Arrive(S) ==
  accepted' = [m \in Msgs |->
                 accepted[m] + Cardinality({items \in S : m \in MsgsOf(items)})]

-----------------------------------------------------------------------------
(* Restart: the constructor's restorePausedSessions and restoreQueues.     *)
(* Nothing but a crash interleaves with it.                                *)

ExtRank(ext) == CASE ext = "delivering" -> 1 [] ext = "json" -> 2
                  [] ext = "stuck-unobservable" -> 3 [] OTHER -> 0

(* readdirSync().sort() *)
Before(n, o) ==
  \/ n.seq < o.seq
  \/ n.seq = o.seq /\ ExtRank(n.ext) < ExtRank(o.ext)
  \/ n.seq = o.seq /\ n.ext = o.ext /\ ~n.consumed /\ o.consumed

(* Mutant: dedupe against the queue alone. *)
Seen_QueueOnly(m) == m \in MsgsOf(queue)

(* Dispatch dedupe: a prompt of this process, or one still queued. *)
Seen(m) == m \in delivered \cup MsgsOf(queue)

(* Mutant: the source is removed before the snapshot holds its item. *)
Tombstone_Deleted(fs, f) == fs \ {f}

(* The claim of a file by restoreQueues: renamed, replacing an older tombstone. *)
Tombstone(fs, f) ==
  LET claimed == [f EXCEPT !.consumed = TRUE]
  IN  {g \in fs : g # f /\ NameOf(g) # NameOf(claimed)} \cup {claimed}

Replayable(f) == f.consumed \/ f.ext \in {"json", "delivering", "stuck-unobservable"}

(* sweepDeliveredTtl, then the directory listing. *)
Boot ==
  /\ phase = "down"
  /\ \E aged \in SUBSET WithExt(files, "delivered") : files' = files \ aged
  /\ phase' = "claiming"
  /\ todo' = {NameOf(f) : f \in {f \in files : Replayable(f)}}
  /\ pausedByOperator' = pausedFile
  /\ queueSeq' \in 0..MaxOthers
  /\ UNCHANGED <<pausedFile, queue, delivered, lock, feed, bounds, history>>

(* One file of the listing: renamed to its tombstone, read back, queued. *)
RestoreFile ==
  /\ phase = "claiming"
  /\ \E n \in todo, f \in files :
       /\ \A o \in todo : o = n \/ Before(n, o)
       /\ NameOf(f) = n
       /\ files' = Tombstone(files, f)
       /\ todo' = todo \ {n}
       /\ IF Seen(f.msg)
            THEN UNCHANGED <<queue, queueSeq, delivered>>
            ELSE /\ queueSeq' = queueSeq + 1
                 /\ queue' = Push(queue, queueSeq + 1, f.msg)
                 /\ delivered' = delivered \cup {f.msg}
  /\ UNCHANGED <<phase, pausedFile, pausedByOperator, lock, feed, bounds, history>>

(* Mutant: the renumbered queue is not written back. *)
RestoreSave_Forgotten ==
  /\ phase = "claiming" /\ todo = {}
  /\ phase' = "cleaning"
  /\ UNCHANGED <<todo, disk, queue, queueSeq, delivered, pausedByOperator,
                 lock, feed, bounds, history>>

RestoreSave ==
  /\ phase = "claiming" /\ todo = {}
  /\ phase' = "cleaning"
  /\ files' = Persist(files, queue)
  /\ UNCHANGED <<todo, pausedFile, queue, queueSeq, delivered, pausedByOperator,
                 lock, feed, bounds, history>>

RemoveTombstone ==
  /\ phase = "cleaning"
  /\ \E f \in files :
       /\ f.consumed
       /\ \A g \in files : g.consumed => g = f \/ Before(NameOf(f), NameOf(g))
       /\ files' = files \ {f}
  /\ UNCHANGED <<phase, todo, pausedFile, queue, queueSeq, delivered, pausedByOperator,
                 lock, feed, bounds, history>>

(* Mutant: the engine serves while tombstones are left. *)
FinishRestore_Early ==
  /\ phase = "cleaning"
  /\ phase' = "up"
  /\ StartDrain(queue, pausedByOperator)
  /\ UNCHANGED <<todo, disk, queue, queueSeq, delivered, pausedByOperator,
                 feed, bounds, history>>

FinishRestore ==
  /\ phase = "cleaning"
  /\ \A f \in files : ~f.consumed
  /\ phase' = "up"
  /\ StartDrain(queue, pausedByOperator)
  /\ UNCHANGED <<todo, disk, queue, queueSeq, delivered, pausedByOperator,
                 feed, bounds, history>>

(* What a process that dies between RestoreSave's first write and the last    *)
(* tombstone's removal may leave to its successor, when the new numbers are   *)
(* greater than the old: a tombstone another prompt's file of that number     *)
(* will replace, and a prompt listed behind a younger one.                    *)
Doomed(t, fs) ==
  /\ t.consumed
  /\ \E p \in fs : Plain(p, t.ext) /\ p.seq = t.seq /\ p.msg # t.msg

Overtaken(fs) ==
  LET copies == {f \in fs : Replayable(f)}
  IN  {f.msg : f \in copies} \ {f.msg : f \in {f \in copies : ~Doomed(f, fs)}}

Scrambled(fs) ==
  \E t \in fs, p \in WithExt(fs, "json") :
    /\ t.consumed
    /\ \/ t.msg = p.msg /\ t.seq < p.seq
       \/ t.ext = "json" /\ t.seq = p.seq /\ p.msg < t.msg

(* The process dies.  A prompt already handed to the transport may arrive. *)
Crash ==
  /\ phase # "down" /\ crashes < MaxCrashes
  /\ \E arrived \in SUBSET InTransit : Arrive(arrived)
  /\ \/ UNCHANGED files
     \/ (* inside restoreQueues' persistQueue, after some of its writes *)
        /\ phase = "claiming" /\ todo = {}
        /\ \E n \in 1..Cardinality(queue) :
             files' = files \cup Snapshot({i \in queue : i.place <= n})
  /\ exposed' = exposed \cup Overtaken(files')
  /\ disordered' = (disordered \/ Scrambled(files'))
  /\ crashes' = crashes + 1
  /\ phase' = "down" /\ todo' = {}
  /\ queue' = {} /\ queueSeq' = 0 /\ delivered' = {} /\ pausedByOperator' = FALSE
  /\ draining' = FALSE /\ watchdogDue' = FALSE /\ deliveryInFlight' = FALSE
  /\ reading' = {} /\ sending' = {} /\ late' = {}
  /\ fresh' = {}
  /\ UNCHANGED <<pausedFile, posted, timeouts, confirmed, removed, unmarked>>

-----------------------------------------------------------------------------
(* Arrival of prompts. *)

(* enqueue, whose background drain starts before it returns.  seq is the next *)
(* number of the engine's counter, whatever the other sessions took of it.    *)
Enqueue(m, seq) ==
  IF Seen(m)
    THEN UNCHANGED <<files, queue, queueSeq, delivered, lock, removed>>
    ELSE LET pushed == Push(queue, seq, m)
         IN  /\ delivered' = delivered \cup {m}
             /\ queueSeq' = seq
             /\ queue' = Newest(pushed)
             /\ removed' = removed \cup (MsgsOf(pushed) \ MsgsOf(Newest(pushed)))
             /\ files' = Persist(files, Newest(pushed))
             /\ StartDrain(Newest(pushed), pausedByOperator)

(* What the counter may stand at next: each prompt of delivered drew a number. *)
NextSeq == (queueSeq + 1)..(Cardinality(delivered) + 1 + MaxOthers)

(* The next prompt for the session: a routed message or enqueuePrompt. *)
Post ==
  /\ phase = "up" /\ posted < NumMsgs
  /\ posted' = posted + 1
  /\ fresh' = IF posted' \in Prompts THEN fresh ELSE fresh \cup {posted'}
  /\ \E seq \in NextSeq : Enqueue(posted + 1, seq)
  /\ UNCHANGED <<phase, todo, pausedFile, pausedByOperator, bounds, accepted, confirmed,
                 record>>

(* The change feed finds a message the API already dispatched. *)
Rediscover ==
  /\ phase = "up"
  /\ \E m \in fresh, seq \in NextSeq : /\ Enqueue(m, seq)
                                       /\ fresh' = fresh \ {m}
  /\ UNCHANGED <<phase, todo, pausedFile, pausedByOperator, posted, bounds,
                 accepted, confirmed, record>>

-----------------------------------------------------------------------------
(* Drains.  The lifecycle a batch reports is the environment's choice.     *)

(* The batch arrives for a drain that was superseded or whose head moved, *)
(* or it reports the session as starting or exited.                       *)
DrainBails(d) ==
  /\ reading' = reading \ {d}
  /\ Release(d.stale)
  /\ UNCHANGED <<phase, todo, disk, queue, queueSeq, delivered, pausedByOperator,
                 deliveryInFlight, sending, late, feed, bounds, history>>

DrainHolds == \E d \in reading : DrainBails(d)

(* The generation and the head a drain captured before its await still hold. *)
StillOwns(d) == ~d.stale /\ queue # {} /\ First(queue).seq = d.head

(* The batch arrives, the lock and the head are still ours: send.  The pause *)
(* flag was read before the await and is not read again.                     *)
DrainSends(d) ==
  /\ StillOwns(d)
  /\ reading' = reading \ {d}
  /\ StartSend(queue, First(queue), FALSE, files, sending)
  /\ UNCHANGED <<phase, todo, pausedFile, queue, queueSeq, delivered, pausedByOperator,
                 draining, watchdogDue, late, feed, bounds, history>>

DrainDelivers == \E d \in reading : DrainSends(d)

(* runPumpTick and drainReady bring their batch, so the drain they start     *)
(* reaches the send without an await.                                        *)
PumpDelivers ==
  /\ phase = "up" /\ queue # {} /\ ~pausedByOperator /\ CanAcquire
  /\ AcquireAndSend(queue, First(queue), FALSE, files)
  /\ UNCHANGED <<phase, todo, pausedFile, queue, queueSeq, delivered, pausedByOperator,
                 feed, bounds, history>>

(* The same with a batch that refuses delivery: the wedged drain whose lock  *)
(* was reclaimed is superseded all the same.                                 *)
PumpHolds ==
  /\ phase = "up" /\ queue # {} /\ ~pausedByOperator /\ draining /\ CanAcquire
  /\ draining' = FALSE /\ watchdogDue' = FALSE
  /\ reading' = Superseded(reading) /\ sending' = Superseded(sending)
  /\ UNCHANGED <<phase, todo, disk, queue, queueSeq, delivered, pausedByOperator,
                 deliveryInFlight, late, feed, bounds, history>>

WatchdogElapses ==
  /\ draining /\ ~watchdogDue
  /\ watchdogDue' = TRUE
  /\ UNCHANGED <<phase, todo, disk, queue, queueSeq, delivered, pausedByOperator,
                 draining, deliveryInFlight, reading, sending, late, feed, bounds,
                 history>>

-----------------------------------------------------------------------------
(* The transport answers.                                                  *)

(* What is left of the queue once the covered items are taken off. *)
SendAccepted(s) ==
  LET left == Without(queue, Seqs(s.items))
  IN  /\ queue' = left
      /\ files' = Confirm(Persist(files, left), Seqs(s.items))
      /\ confirmed' = confirmed \cup MsgsOf(s.items)
      /\ unmarked' = unmarked \cup {p.msg : p \in {p \in s.items : Has(files, p.seq, "delivered")}}
      /\ deliveryInFlight' = FALSE
      /\ sending' = sending \ {s}
      /\ Release(s.stale)
      /\ Arrive({s.items})
      /\ UNCHANGED <<phase, todo, pausedFile, queueSeq, delivered, pausedByOperator,
                     reading, late, feed, bounds, removed, exposed, disordered>>

DeliveryAccepted == \E s \in sending : SendAccepted(s)

(* The api.ts wrapper reverts the claimed files, and a native failure that   *)
(* cannot be retried pauses the session.                                     *)
Refused(items) ==
  /\ files' = RevertAllDelivering(files)
  /\ \/ UNCHANGED <<pausedFile, pausedByOperator>>
     \/ /\ "pause" \in Operator
        /\ pausedFile' = TRUE /\ pausedByOperator' = TRUE
  /\ \/ UNCHANGED accepted
     \/ /\ \A m \in MsgsOf(items) : accepted[m] < MaxLost
        /\ Arrive({items})
  /\ UNCHANGED <<phase, todo, queue, queueSeq, delivered, reading, feed, bounds,
                 confirmed, removed, record>>

DeliveryRefused ==
  /\ \E s \in sending : /\ Refused(s.items)
                        /\ sending' = sending \ {s}
                        /\ Release(s.stale)
  /\ deliveryInFlight' = FALSE
  /\ UNCHANGED late

(* The send rejects (the manifest it looks the session up in is unreadable): *)
(* the claimed files stay as they are.                                       *)
DeliveryThrows ==
  /\ \E s \in sending : /\ sending' = sending \ {s}
                        /\ Release(s.stale)
  /\ deliveryInFlight' = FALSE
  /\ UNCHANGED <<phase, todo, disk, queue, queueSeq, delivered, pausedByOperator,
                 reading, late, feed, bounds, history>>

(* Mutant: an item that timed out stays queued for the pump to retry. *)
LeftAfterTimeout_Retries(s) == queue

(* Thirty seconds pass: only next leaves the queue, whatever was covered. *)
LeftAfterTimeout(s) == Without(queue, {s.next})

SendAbandoned(s) ==
  LET left == LeftAfterTimeout(s)
  IN  /\ queue' = left
      /\ files' = Persist(files, left)
      /\ deliveryInFlight' = FALSE
      /\ sending' = sending \ {s}
      /\ late' = late \cup {s.items}
      /\ Release(s.stale)
      /\ UNCHANGED <<phase, todo, pausedFile, queueSeq, delivered, pausedByOperator,
                     reading, feed, crashes, history>>

DeliveryTimesOut ==
  /\ timeouts < MaxTimeouts /\ timeouts' = timeouts + 1
  /\ \E s \in sending : SendAbandoned(s)

(* The transport answers a send the engine no longer waits for. *)
LateAccepted ==
  /\ \E items \in late : late' = late \ {items} /\ Arrive({items})
  /\ UNCHANGED <<phase, todo, disk, queue, queueSeq, delivered, pausedByOperator,
                 draining, watchdogDue, deliveryInFlight, reading, sending, feed,
                 bounds, confirmed, removed, record>>

LateRefused ==
  /\ \E items \in late : late' = late \ {items} /\ Refused(items)
  /\ UNCHANGED <<draining, watchdogDue, deliveryInFlight, sending>>

-----------------------------------------------------------------------------
(* The operator's console.                                                 *)

Pause ==
  /\ phase = "up" /\ "pause" \in Operator
  /\ pausedFile' = TRUE /\ pausedByOperator' = TRUE
  /\ UNCHANGED <<phase, todo, files, queue, queueSeq, delivered, lock, feed, bounds,
                 history>>

Resume ==
  /\ phase = "up" /\ pausedFile
  /\ pausedFile' = FALSE /\ pausedByOperator' = FALSE
  /\ StartDrain(queue, FALSE)
  /\ UNCHANGED <<phase, todo, files, queue, queueSeq, delivered, feed, bounds, history>>

DropQueue ==
  LET kept == {f \in files : f.consumed \/ f.ext \notin StuckExts}
  IN  /\ phase = "up" /\ "drop" \in Operator
      /\ queue' = {}
      /\ files' = Persist(kept, {})
      /\ removed' = removed \cup MsgsOf(queue) \cup {f.msg : f \in files \ kept}
      /\ UNCHANGED <<phase, todo, pausedFile, queueSeq, delivered, pausedByOperator,
                     lock, feed, bounds, accepted, confirmed, record>>

DropMessage(seq) ==
  LET left == Without(queue, {seq})
      kept == IF Seqs(left) # Seqs(queue) THEN Persist(files, left) ELSE DropStuck(files, seq)
  IN  /\ phase = "up" /\ "drop" \in Operator
      /\ queue' = left
      /\ files' = kept
      /\ removed' = removed \cup IF Seqs(left) # Seqs(queue)
                                 THEN {i.msg : i \in {i \in queue : i.seq = seq}}
                                 ELSE {f.msg : f \in files \ kept}
      /\ UNCHANGED <<phase, todo, pausedFile, queueSeq, delivered, pausedByOperator,
                     lock, feed, bounds, accepted, confirmed, record>>

(* The stuck seqs a force delivery revives: the one it names, if that is not  *)
(* queued, or the first one when it names none and the queue is empty.        *)
Revived(seq, named) ==
  \/ named /\ seq \notin Seqs(queue)
  \/ ~named /\ queue = {} /\ seq \in StuckSeqs(files)
            /\ \A other \in StuckSeqs(files) : seq <= other

(* forceDeliver once its batch says the session runs, with the queue q and   *)
(* files fs it finds or revives: refused while a send is in flight or another *)
(* drain holds the lock.  It does not look at the pause flag.                 *)
ForceOn(q, fs, next, named) ==
  /\ queue' = q
  /\ IF CanAcquire
       THEN AcquireAndSend(q, next, named, fs)
       ELSE files' = fs /\ UNCHANGED lock
  /\ UNCHANGED <<phase, todo, pausedFile, queueSeq, delivered, pausedByOperator,
                 feed, bounds, history>>

ForceDeliver ==
  /\ phase = "up" /\ "force" \in Operator
  /\ \/ \E i \in queue : ForceOn(queue, files, i, TRUE)
     \/ queue # {} /\ ForceOn(queue, files, First(queue), FALSE)
     \/ \E seq \in StuckSeqs(files) \cup {f.seq : f \in WithExt(files, "json")} :
          \E named \in BOOLEAN, f \in RetryStuck(files, seq) :
            /\ Revived(seq, named)
            /\ f.seq = seq /\ Plain(f, "json")
            /\ LET q == Push(queue, seq, f.msg)
               IN  ForceOn(q, Persist(RetryStuck(files, seq), q),
                           CHOOSE i \in q : i.seq = seq, named)

-----------------------------------------------------------------------------
(* The stuck files an older build left, one for each of its prompts. *)
Legacy(count) ==
  {{[seq |-> seqOf[m], ext |-> extOf[m], consumed |-> FALSE, msg |-> m] : m \in 1..count} :
     seqOf \in {f \in [1..count -> Msgs] : \A m, n \in 1..count : m < n => f[m] < f[n]},
     extOf \in [1..count -> StuckExts]}

Init ==
  /\ phase = "down" /\ todo = {}
  /\ posted \in LegacyCounts /\ files \in Legacy(posted)
  /\ pausedFile = FALSE
  /\ queue = {} /\ queueSeq = 0 /\ delivered = {} /\ pausedByOperator = FALSE
  /\ draining = FALSE /\ watchdogDue = FALSE /\ deliveryInFlight = FALSE
  /\ reading = {} /\ sending = {} /\ late = {}
  /\ fresh = {} /\ crashes = 0 /\ timeouts = 0
  /\ accepted = [m \in Msgs |-> 0] /\ confirmed = {} /\ removed = {}
  /\ unmarked = {} /\ exposed = {} /\ disordered = FALSE

Restoring == Boot \/ RestoreFile \/ RestoreSave \/ RemoveTombstone \/ FinishRestore

Delivering ==
  \/ DrainHolds \/ DrainDelivers \/ PumpDelivers \/ PumpHolds \/ WatchdogElapses
  \/ DeliveryAccepted \/ DeliveryRefused \/ DeliveryThrows
  \/ DeliveryTimesOut \/ LateAccepted \/ LateRefused

Operating ==
  \/ Pause \/ Resume \/ DropQueue \/ ForceDeliver
  \/ \E seq \in Seqs(queue) \cup StuckSeqs(files) : DropMessage(seq)

Next == Restoring \/ Crash \/ Post \/ Rediscover \/ Delivering \/ Operating

Spec == Init /\ [][Next]_vars

(* Desk is restarted and its restore, which never waits, runs through; time   *)
(* passes; the transport answers every send in the end, or the timeout does;  *)
(* the pump goes on ticking, some ticks find the session running, and not     *)
(* every send fails.  No batch is owed to a waiting drain.                    *)
Fairness ==
  /\ WF_vars(Restoring)
  /\ WF_vars(WatchdogElapses)
  /\ WF_vars(DeliveryAccepted \/ DeliveryRefused \/ DeliveryThrows \/ DeliveryTimesOut)
  /\ SF_vars(PumpDelivers)
  /\ SF_vars(DeliveryAccepted)

LiveSpec == Spec /\ Fairness

-----------------------------------------------------------------------------
(* Properties.                                                             *)

(* Every variable has its type, and once the process serves nothing of the    *)
(* restore is left: no name to claim, no tombstone.                           *)
TypeOK ==
  /\ phase \in {"down", "claiming", "cleaning", "up"}
  /\ todo \subseteq [seq: Nat, ext: Exts, consumed: BOOLEAN]
  /\ files \subseteq File
  /\ queue \subseteq Item /\ queueSeq \in Nat
  /\ delivered \subseteq Msgs /\ fresh \subseteq Msgs
  /\ posted \in 0..NumMsgs /\ crashes \in Nat /\ timeouts \in Nat
  /\ pausedFile \in BOOLEAN /\ pausedByOperator \in BOOLEAN
  /\ draining \in BOOLEAN /\ watchdogDue \in BOOLEAN /\ deliveryInFlight \in BOOLEAN
  /\ reading \subseteq Drain /\ sending \subseteq Send /\ late \subseteq SUBSET Prompt
  /\ accepted \in [Msgs -> Nat] /\ confirmed \subseteq Msgs /\ removed \subseteq Msgs
  /\ unmarked \subseteq confirmed /\ exposed \subseteq Msgs /\ disordered \in BOOLEAN
  /\ phase \in {"cleaning", "up"} => todo = {}
  /\ phase = "up" => \A f \in files : ~f.consumed

(* At most one paste is awaited for a session at any time, deliveryInFlight   *)
(* says so exactly, and no watchdog reclaim supersedes it: "never launch a    *)
(* second paste while the first sendText call is still unresolved", among     *)
(* drains, the pump, reclaims of a wedged lock and forced deliveries.         *)
SingleFlight ==
  /\ \A s, t \in sending : s = t
  /\ deliveryInFlight <=> sending # {}
  /\ \A s \in sending : ~s.stale

(* The drain lock has exactly one live owner, a drain awaiting its batch or a *)
(* send, and is free when there is none: it is neither leaked by a superseded *)
(* coroutine's finally block nor released by it under the new owner.          *)
LockHasOneOwner ==
  /\ draining <=> \/ \E d \in reading : ~d.stale
                  \/ \E s \in sending : ~s.stale
  /\ \A d, e \in reading : ~d.stale /\ ~e.stale => d = e
  /\ \A d \in reading, s \in sending : d.stale \/ s.stale

(* One paste at a time, under one owner of the lock: what drains, pump ticks,  *)
(* watchdog reclaims and forced deliveries compete for.                       *)
LockDiscipline == SingleFlight /\ LockHasOneOwner

(* A prompt Desk took is not lost: until it has reached the agent or was      *)
(* dropped, a file restoreQueues or the operator can bring back holds it,     *)
(* through every crash, also one in the middle of a restore.  Only those a    *)
(* half-saved restore with greater numbers left under another's name may be.  *)
NoLoss ==
  \A m \in (1..posted) \ (removed \cup exposed) :
    accepted[m] = 0 => \E f \in files : f.msg = m /\ f.ext # "delivered"

(* A prompt recorded as submitted stays so: it never comes back to the queue  *)
(* and leaves no file a later restart would replay, unless confirmDelivered   *)
(* found the name of its mark taken by an earlier process's prompt.           *)
ConfirmedIsFinal ==
  \A m \in confirmed \ unmarked :
    /\ m \notin MsgsOf(queue)
    /\ \A f \in files : f.msg = m => f.ext = "delivered"

(* Within one process a prompt reaches the agent at most once: only a restart *)
(* may send it again ("at-least-once").  A forced delivery that revives a     *)
(* stuck file keeps the promise while its number is not taken by a new prompt.*)
AtMostOncePerProcess == \A m \in Msgs : accepted[m] <= 1 + crashes

(* Prompts queue in the order they were posted, across restarts that find     *)
(* some of them in flight, some queued and some half restored, until one dies *)
(* half-way through a renumbering to greater numbers.                         *)
QueueInPostOrder ==
  ~disordered => \A i, j \in queue : i.place < j.place => i.msg < j.msg

(* While the process serves, a queued prompt has the file of its own seq to   *)
(* come back from, and one that is neither queued, delivered nor dropped is    *)
(* a stuck file the console lists: nothing waits for a restart to be found.    *)
QueueMatchesDisk ==
  phase = "up" =>
    /\ \A i \in queue : \E f \in files : /\ f.seq = i.seq /\ f.msg = i.msg
                                        /\ f.ext \in {"json", "delivering"}
    /\ \A m \in (1..posted) \ (removed \cup exposed) :
         accepted[m] = 0 => \/ m \in MsgsOf(queue)
                            \/ \E f \in files : f.msg = m /\ f.ext \in StuckExts

(* The queue and its directory tell the same story in the same order, so that *)
(* any restart can rebuild the one from the other.                            *)
QueueOnDisk == QueueInPostOrder /\ QueueMatchesDisk

(* While a paste is awaited every prompt it carries is marked .delivering on  *)
(* disk, so a crash cannot take it for one that was never sent.               *)
ClaimedWhileSending ==
  \A s \in sending : \A p \in s.items : Has(files, p.seq, "delivering")

(* Every prompt taken reaches the agent or is dropped, though drains may hang *)
(* on a batch that never comes, sends fail and the process die: no wedged     *)
(* drain strands the queue.                                                   *)
EveryPromptSettles ==
  \A m \in Msgs : (posted >= m) ~> (accepted[m] > 0 \/ m \in removed \cup exposed)

(* What the transport still holds after the timeout is not sent again: "do     *)
(* not retry: a late paste plus a retry would duplicate the prompt".           *)
NotResentWhileLate ==
  \A items \in late, s \in sending : MsgsOf(items) \cap MsgsOf(s.items) = {}

=============================================================================
