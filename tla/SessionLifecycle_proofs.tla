----------------------- MODULE SessionLifecycle_proofs -----------------------
(***************************************************************************)
(* Theorems about SessionLifecycle, for every number of generations and    *)
(* every bound on requests, faults and timeouts.  A session is retired     *)
(* through one record and one path, while holders, reapers and recovery    *)
(* attempts run beside the serialised operations; the inductive invariant  *)
(* says which of them may still meet which generation.                     *)
(***************************************************************************)
EXTENDS SessionLifecycle, FiniteSetTheorems, TLAPS

(* The values of the variables that TypeOK leaves to the actions. *)
Places == {"idle", "start", "alloc", "unlink", "prepare", "launch", "attach",
           "confirm", "begin", "path", "remove"}
Operation == [kind : Kinds \cup {"none", "restore"}, gen : 0..MaxGen, at : Places,
              why : {"none", "failed", "timeout", "attach"}, node : 0..MaxGen]
Confirmation == [at : {"idle", "check", "kill", "wait", "rm", "ok", "failed"},
                 rec : 0..MaxGen, sure : BOOLEAN]
Queued == [kind : Kinds, gen : 0..MaxGen]

Typed ==
  /\ TypeOK
  /\ op \in Operation
  /\ queue \in Seq(Queued)
  /\ conf \in [{0} \cup Gen -> Confirmation]
  /\ IsFiniteSet(attempts)
  /\ crowded \in BOOLEAN

(* The ledger is ahead of everything: no holder, record, reaper or kill is  *)
(* of a generation that it has not allocated.                               *)
Unborn ==
  /\ \A g \in Gen : g > gen => hold[g] = "none"
  /\ At("spawn", "prepare") => hold[gen] = "none"
  /\ kill <= gen
  /\ \A g \in reapers : g <= gen
  /\ \A a \in {0} \cup Gen : conf[a].rec <= gen

(* A spawn that allocated works on the ledger's generation, and neither a  *)
(* link nor a slot exists before it attaches.                              *)
Spawning == op.kind = "spawn" /\ op.at \in {"prepare", "launch", "attach", "confirm"}

Authority ==
  /\ sess.gen \in {0, gen}
  /\ sess.live => sess.gen = gen /\ gen # 0
  /\ sess.gen = 0 => kill = 0
  /\ Spawning => sess.gen = gen /\ gen # 0
  /\ op.kind = "spawn" /\ op.at # "start" => link = 0 /\ slot = NoSlot
  /\ op.kind = "spawn" /\ op.at \in {"alloc", "unlink"} => ~sess.live
  /\ \A t \in attempts : t.s.ep # 0
  /\ op.kind = "exact" /\ op.at # "start" => op.gen = gen
  /\ op.kind = "restore" => base = gen /\ op.at = "attach" /\ sess.gen = gen

(* Who may hold the rendezvous node. *)
NodeHeld ==
  /\ node # 0 => hold[node] \in {"live", "stopping", "gone"}
  /\ At("spawn", "unlink") => op.node # 0 /\ hold[op.node] = "gone"

(* The kills in progress: the operation's own only while it waits for it,   *)
(* and none for the generation that is being launched.                      *)
Killing ==
  /\ \A a \in {0} \cup Gen : conf[a].at # "idle" => conf[a].rec # 0
  /\ \A a \in {0} \cup Gen : conf[a].at = "idle" => conf[a].rec = 0
  /\ \A a \in {0} \cup Gen : conf[a].at = "rm" => conf[a].sure
  /\ conf[0].at # "idle" => op.at = "confirm"
  /\ At("spawn", "prepare") \/ At("spawn", "launch") =>
       /\ kill # gen /\ gen \notin reapers
       /\ \A a \in {0} \cup Gen : conf[a].rec # gen
  /\ Retiring /\ op.at = "confirm" => kill \in {0, conf[0].rec}

(* A holder that this daemon launched and that has not published is being   *)
(* launched, or its record must be confirmed; a kill that takes an absent   *)
(* node for an answer is of a holder that has published.                    *)
Coming == {"launching", "forked"}
Uncertain ==
  /\ \A g \in base + 1 .. gen :
       hold[g] \in Coming => (At("spawn", "launch") /\ g = gen) \/ g \in must
  /\ \A a \in {0} \cup Gen :
       conf[a].at \in {"kill", "rm"} /\ conf[a].sure /\ conf[a].rec > base
         => hold[conf[a].rec] \notin Coming

(* Alone: while no launch began beside an older holder, the holder that     *)
(* this daemon launched is the only one, holds the node once it is live,    *)
(* and is the one the record stands for.                                    *)
Sole == \A g, h \in Gen : hold[g] \in NotEnded /\ hold[h] \in NotEnded => g = h
Published == \A g \in Running : hold[g] = "live" => node = g
Recorded == \A g \in Running : kill = g \/ (At("spawn", "launch") /\ g = gen)
Newest == op.kind = "spawn" /\ op.at \in {"launch", "attach", "confirm"}
            => Running \subseteq {gen}
Adopted == link # 0 \/ slot # NoSlot => \A g \in Running : hold[g] = "live"
Stopped == \A a \in {0} \cup Gen :
             conf[a].at = "wait" => conf[a].rec \notin Running
Cleared ==
  /\ op.kind = "reset" /\ op.at \in {"path", "remove"} => Running = {}
  /\ Retiring /\ op.at = "confirm" /\ conf[0].at = "ok" => Running = {}

Alone == Sole /\ Published /\ Recorded /\ Newest /\ Adopted /\ Stopped /\ Cleared

IInv == /\ Typed /\ Unborn /\ Authority /\ LinkIsOwned /\ NodeHeld /\ Killing
        /\ Uncertain
        /\ crowded \/ Alone
-----------------------------------------------------------------------------
(* Lemmas about the operators of the model.                                *)

(* A new slot always gets an episode that neither the registered slot nor  *)
(* an attempt in flight holds: there are more numbers than holders.        *)
LEMMA FreshIsNew ==
  ASSUME IsFiniteSet(attempts)
  PROVE  /\ Fresh \in Nat \ {0}
         /\ Fresh # slot.ep
         /\ \A t \in attempts : t.s.ep # Fresh
<1> DEFINE n == Cardinality(attempts)
           eps == {t.s.ep : t \in attempts}
           f == [t \in attempts |-> t.s.ep]
           taken == eps \cup {slot.ep}
<1>1. n \in Nat  BY FS_CardinalityType
<1>2. f \in Surjection(attempts, eps)  BY DEF Surjection
<1> HIDE DEF eps, n, f
<1>3. IsFiniteSet(eps) /\ Cardinality(eps) <= Cardinality(attempts)
  BY <1>2, FS_Surjection
<1>4. IsFiniteSet(eps) /\ Cardinality(eps) <= n
  BY <1>3 DEF n
<1>5. Cardinality(eps) \in Nat  BY <1>4, FS_CardinalityType
<1>6. IsFiniteSet(taken) /\ Cardinality(taken) <= n + 1
  <2>1. /\ IsFiniteSet(eps \cup {slot.ep})
        /\ Cardinality(eps \cup {slot.ep}) \in {Cardinality(eps), Cardinality(eps) + 1}
    BY <1>4, FS_AddElement
  <2> QED  BY <1>1, <1>4, <1>5, <2>1
<1>7. IsFiniteSet(1..(n + 2)) /\ Cardinality(1..(n + 2)) = n + 2
  BY <1>1, FS_Interval
<1>8. \E e \in 1..(n + 2) : e \notin taken
  <2>1. SUFFICES ASSUME 1..(n + 2) \subseteq taken  PROVE FALSE
    OBVIOUS
  <2>2. Cardinality(1..(n + 2)) <= Cardinality(taken)
    BY <1>6, <2>1, FS_Subset
  <2>3. Cardinality(taken) \in Nat  BY <1>6, FS_CardinalityType
  <2> QED  BY <1>1, <1>6, <1>7, <2>2, <2>3
<1>9. \E e \in 1..(n + 2) : e # slot.ep /\ \A t \in attempts : t.s.ep # e
  BY <1>8 DEF eps
<1>10. /\ Fresh \in 1..(n + 2)
       /\ Fresh # slot.ep /\ \A t \in attempts : t.s.ep # Fresh
  BY <1>9 DEF Fresh, n
<1> QED  BY <1>1, <1>10

-----------------------------------------------------------------------------
(* Which actions write which variables: all the others leave them alone.   *)

(* The rendezvous node. *)
LEMMA NodeWriters ==
  ASSUME Next
  PROVE  \/ UNCHANGED node
         \/ UnlinkStale \/ ResetRemoves
         \/ \E a \in {0} \cup Gen : Cleanup(a)
         \/ \E g \in Gen : Publishes(g) \/ HolderEnds(g)
<1> DEFINE same == UNCHANGED node
<1>1. ASSUME OpStep, ~UnlinkStale, ~ResetRemoves PROVE same
  BY <1>1 DEF OpStep, Start, SpawnRefused, Preflight, PreallocateRefused, Allocate,
       PrepareFails, Launch, LaunchReady, LaunchFailed, AttachOk, AttachFails,
       SpawnTornDown, RetireRefused, Terminate, BeginRetire, RetireConfirmed,
       ResetProbes, RestoreAttached, RestoreUnadopted, host
<1>2. ASSUME LaunchTimesOut \/ LinkDrops \/ LivenessAbsent \/ ExitObserved \/ Restart PROVE same
  BY <1>2 DEF LaunchTimesOut, LinkDrops, LivenessAbsent, ExitObserved, Restart,
       EndAuthority, host
<1>3. ASSUME NEW a \in {0} \cup Gen, ConfirmStep(a), ~Cleanup(a)
      PROVE  same
  BY <1>3 DEF ConfirmStep, Check, KillReaches, KillMisses, KillHangs, NodeGone,
       NodeStays, KillFails, host
<1>4. ASSUME NEW g \in Gen, ReaperStops(g) \/ ReaperSees(g) \/ ReaperDone(g) PROVE same
  BY <1>4 DEF ReaperStops, ReaperSees, ReaperDone, host
<1>5. ASSUME NEW t \in attempts, Recovering(t)
      PROVE  same
  BY <1>5 DEF Recovering, Stale, ProbeAbsent, ProbeLive, ReattachOk, ReattachFails,
       Accepted, AcceptRefused, EndAuthority, host
<1>6. ASSUME NEW g \in Gen, Forks(g) \/ Aborts(g) \/ HolderCrashes(g)
      PROVE  same
  BY <1>6 DEF Forks, Aborts, HolderCrashes, HostOnly, host
<1>7. ASSUME NEW kind \in Kinds, NEW g \in 0..MaxGen, Request(kind, g) PROVE same
  BY <1>7 DEF Request, host
<1> QED  BY <1>1, <1>2, <1>3, <1>4, <1>5, <1>6, <1>7 DEF Next

(* The ledger and the history. *)
LEMMA LedgerWriters ==
  ASSUME Next
  PROVE  \/ UNCHANGED <<gen, base, crowded>>
         \/ Allocate \/ Launch \/ Restart
<1> DEFINE same == UNCHANGED <<gen, base, crowded>>
<1>1. ASSUME OpStep, ~Allocate, ~Launch PROVE same
  BY <1>1 DEF OpStep, Start, SpawnRefused, Preflight, UnlinkStale, PreallocateRefused,
       PrepareFails, LaunchReady, LaunchFailed, AttachOk, AttachFails,
       SpawnTornDown, RetireRefused, Terminate, BeginRetire, RetireConfirmed,
       ResetProbes, ResetRemoves, RestoreAttached, RestoreUnadopted, past
<1>2. ASSUME LaunchTimesOut \/ LinkDrops \/ LivenessAbsent \/ ExitObserved PROVE same
  BY <1>2 DEF LaunchTimesOut, LinkDrops, LivenessAbsent, ExitObserved, EndAuthority,
       past
<1>3. ASSUME NEW a \in {0} \cup Gen, ConfirmStep(a)
      PROVE  same
  BY <1>3 DEF ConfirmStep, Check, KillReaches, KillMisses, KillHangs, Cleanup,
       NodeGone, NodeStays, past
<1>4. ASSUME NEW g \in Gen, ReaperStops(g) \/ ReaperSees(g) \/ ReaperDone(g) PROVE same
  BY <1>4 DEF ReaperStops, ReaperSees, ReaperDone, past
<1>5. ASSUME NEW t \in attempts, Recovering(t)
      PROVE  same
  BY <1>5 DEF Recovering, Stale, ProbeAbsent, ProbeLive, ReattachOk, ReattachFails,
       Accepted, AcceptRefused, EndAuthority, past
<1>6. ASSUME NEW g \in Gen, Forks(g) \/ Publishes(g) \/ Aborts(g) \/ HolderEnds(g) \/
             HolderCrashes(g)
      PROVE  same
  BY <1>6 DEF Forks, Publishes, Aborts, HolderEnds, HolderCrashes, HostOnly, past
<1>7. ASSUME NEW kind \in Kinds, NEW g \in 0..MaxGen, Request(kind, g) PROVE same
  BY <1>7 DEF Request, past
<1> QED  BY <1>1, <1>2, <1>3, <1>4, <1>5, <1>6, <1>7 DEF Next

(* The authority's snapshot, the owner and the adopted link. *)
LEMMA CoreWriters ==
  ASSUME Next
  PROVE  \/ UNCHANGED <<sess, owner, link>>
         \/ Allocate \/ PrepareFails \/ LaunchFailed \/ AttachOk \/
            AttachFails \/ SpawnTornDown \/ BeginRetire \/ RestoreAttached \/
            RestoreUnadopted \/ LinkDrops \/ LivenessAbsent \/ ExitObserved \/
            Restart
         \/ \E t \in attempts : ProbeAbsent(t) \/ ReattachOk(t)
<1> DEFINE same == UNCHANGED <<sess, owner, link>>
<1>1. ASSUME OpStep,
             ~Allocate, ~PrepareFails, ~LaunchFailed, ~AttachOk, ~AttachFails,
             ~SpawnTornDown, ~BeginRetire, ~RestoreAttached, ~RestoreUnadopted
      PROVE  same
  BY <1>1 DEF OpStep, Start, SpawnRefused, Preflight, UnlinkStale, PreallocateRefused,
       Launch, LaunchReady, RetireRefused, Terminate, RetireConfirmed,
       ResetProbes, ResetRemoves, core
<1>2. ASSUME LaunchTimesOut PROVE same
  BY <1>2 DEF LaunchTimesOut, core
<1>3. ASSUME NEW a \in {0} \cup Gen, ConfirmStep(a)
      PROVE  same
  BY <1>3 DEF ConfirmStep, Check, KillReaches, KillMisses, KillHangs, Cleanup,
       NodeGone, NodeStays, core
<1>4. ASSUME NEW g \in Gen, ReaperStops(g) \/ ReaperSees(g) \/ ReaperDone(g) PROVE same
  BY <1>4 DEF ReaperStops, ReaperSees, ReaperDone, core
<1>5. ASSUME NEW t \in attempts, Recovering(t), ~ProbeAbsent(t), ~ReattachOk(t)
      PROVE  same
  BY <1>5 DEF Recovering, Stale, ProbeLive, ReattachFails, Accepted, AcceptRefused,
       core
<1>6. ASSUME NEW g \in Gen, Forks(g) \/ Publishes(g) \/ Aborts(g) \/ HolderEnds(g) \/
             HolderCrashes(g)
      PROVE  same
  BY <1>6 DEF Forks, Publishes, Aborts, HolderEnds, HolderCrashes, HostOnly, core
<1>7. ASSUME NEW kind \in Kinds, NEW g \in 0..MaxGen, Request(kind, g) PROVE same
  BY <1>7 DEF Request, core
<1> QED  BY <1>1, <1>2, <1>3, <1>4, <1>5, <1>6, <1>7 DEF Next

(* The slot and the attempts. *)
LEMMA RecoveryWriters ==
  ASSUME Next
  PROVE  \/ UNCHANGED <<slot, attempts>>
         \/ BeginRetire \/ RestoreUnadopted \/ LinkDrops \/ LivenessAbsent \/
            ExitObserved \/ Restart
         \/ \E t \in attempts :
              Stale(t) \/ ProbeAbsent(t) \/ ProbeLive(t) \/ ReattachOk(t) \/
              ReattachFails(t) \/ Accepted(t) \/ AcceptRefused(t)
<1> DEFINE same == UNCHANGED <<slot, attempts>>
<1>1. ASSUME OpStep, ~BeginRetire, ~RestoreUnadopted PROVE same
  BY <1>1 DEF OpStep, Start, SpawnRefused, Preflight, UnlinkStale, PreallocateRefused,
       Allocate, PrepareFails, Launch, LaunchReady, LaunchFailed, AttachOk,
       AttachFails, SpawnTornDown, RetireRefused, Terminate, RetireConfirmed,
       ResetProbes, ResetRemoves, RestoreAttached, recovery
<1>2. ASSUME LaunchTimesOut PROVE same
  BY <1>2 DEF LaunchTimesOut, recovery
<1>3. ASSUME NEW a \in {0} \cup Gen, ConfirmStep(a)
      PROVE  same
  BY <1>3 DEF ConfirmStep, Check, KillReaches, KillMisses, KillHangs, Cleanup,
       NodeGone, NodeStays, recovery
<1>4. ASSUME NEW g \in Gen, ReaperStops(g) \/ ReaperSees(g) \/ ReaperDone(g) PROVE same
  BY <1>4 DEF ReaperStops, ReaperSees, ReaperDone, recovery
<1>5. ASSUME NEW g \in Gen, Forks(g) \/ Publishes(g) \/ Aborts(g) \/ HolderEnds(g) \/
             HolderCrashes(g)
      PROVE  same
  BY <1>5 DEF Forks, Publishes, Aborts, HolderEnds, HolderCrashes, HostOnly, recovery
<1>6. ASSUME NEW kind \in Kinds, NEW g \in 0..MaxGen, Request(kind, g) PROVE same
  BY <1>6 DEF Request, recovery
<1> QED  BY <1>1, <1>2, <1>3, <1>4, <1>5, <1>6 DEF Next, Recovering

(* The record and its mark. *)
LEMMA KillWriters ==
  ASSUME Next
  PROVE  \/ UNCHANGED <<kill, must>>
         \/ LaunchReady \/ LaunchFailed \/ AttachFails \/ LaunchTimesOut \/
            LivenessAbsent \/ Restart
         \/ \E a \in {0} \cup Gen :
              Check(a) \/ KillMisses(a) \/ KillHangs(a) \/ Cleanup(a) \/
              NodeGone(a) \/ NodeStays(a)
         \/ \E t \in attempts : ProbeAbsent(t)
<1> DEFINE same == UNCHANGED <<kill, must>>
<1>1. ASSUME OpStep, ~LaunchReady, ~LaunchFailed, ~AttachFails PROVE same
  BY <1>1 DEF OpStep, Start, SpawnRefused, Preflight, UnlinkStale, PreallocateRefused,
       Allocate, PrepareFails, Launch, AttachOk, SpawnTornDown, RetireRefused,
       Terminate, BeginRetire, RetireConfirmed, ResetProbes, ResetRemoves,
       RestoreAttached, RestoreUnadopted, kills
<1>2. ASSUME LinkDrops \/ ExitObserved PROVE same
  BY <1>2 DEF LinkDrops, ExitObserved, kills
<1>3. ASSUME NEW a \in {0} \cup Gen, ConfirmStep(a), ~Check(a), ~KillMisses(a), ~KillHangs(a),
             ~Cleanup(a), ~NodeGone(a), ~NodeStays(a)
      PROVE  same
  BY <1>3 DEF ConfirmStep, KillReaches, kills
<1>4. ASSUME NEW g \in Gen, ReaperStops(g) \/ ReaperSees(g) \/ ReaperDone(g) PROVE same
  BY <1>4 DEF ReaperStops, ReaperSees, ReaperDone, kills
<1>5. ASSUME NEW t \in attempts, Recovering(t), ~ProbeAbsent(t)
      PROVE  same
  BY <1>5 DEF Recovering, Stale, ProbeLive, ReattachOk, ReattachFails, Accepted,
       AcceptRefused, kills
<1>6. ASSUME NEW g \in Gen, Forks(g) \/ Publishes(g) \/ Aborts(g) \/ HolderEnds(g) \/
             HolderCrashes(g)
      PROVE  same
  BY <1>6 DEF Forks, Publishes, Aborts, HolderEnds, HolderCrashes, HostOnly, kills
<1>7. ASSUME NEW kind \in Kinds, NEW g \in 0..MaxGen, Request(kind, g) PROVE same
  BY <1>7 DEF Request, kills
<1> QED  BY <1>1, <1>2, <1>3, <1>4, <1>5, <1>6, <1>7 DEF Next

(* The running operation. *)
LEMMA OpWriters ==
  ASSUME Next
  PROVE  \/ UNCHANGED op
         \/ Start \/ SpawnRefused \/ Preflight \/ UnlinkStale \/
            PreallocateRefused \/ Allocate \/ PrepareFails \/ Launch \/
            LaunchReady \/ LaunchFailed \/ AttachOk \/ AttachFails \/
            SpawnTornDown \/ RetireRefused \/ Terminate \/ BeginRetire \/
            RetireConfirmed \/ ResetProbes \/ ResetRemoves \/ RestoreAttached \/
            RestoreUnadopted \/ LaunchTimesOut \/ Restart
<1> DEFINE same == UNCHANGED op
<1>1. ASSUME OpStep,
             ~Start, ~SpawnRefused, ~Preflight, ~UnlinkStale,
             ~PreallocateRefused, ~Allocate, ~PrepareFails, ~Launch,
             ~LaunchReady, ~LaunchFailed, ~AttachOk, ~AttachFails,
             ~SpawnTornDown, ~RetireRefused, ~Terminate, ~BeginRetire,
             ~RetireConfirmed, ~ResetProbes, ~ResetRemoves, ~RestoreAttached,
             ~RestoreUnadopted
      PROVE  same
  BY <1>1 DEF OpStep, ops
<1>2. ASSUME LinkDrops \/ LivenessAbsent \/ ExitObserved PROVE same
  BY <1>2 DEF LinkDrops, LivenessAbsent, ExitObserved, EndAuthority, ops
<1>3. ASSUME NEW a \in {0} \cup Gen, ConfirmStep(a)
      PROVE  same
  BY <1>3 DEF ConfirmStep, Check, KillReaches, KillMisses, KillHangs, Cleanup,
       NodeGone, NodeStays, ops
<1>4. ASSUME NEW g \in Gen, ReaperStops(g) \/ ReaperSees(g) \/ ReaperDone(g) PROVE same
  BY <1>4 DEF ReaperStops, ReaperSees, ReaperDone, ops
<1>5. ASSUME NEW t \in attempts, Recovering(t)
      PROVE  same
  BY <1>5 DEF Recovering, Stale, ProbeAbsent, ProbeLive, ReattachOk, ReattachFails,
       Accepted, AcceptRefused, EndAuthority, ops
<1>6. ASSUME NEW g \in Gen, Forks(g) \/ Publishes(g) \/ Aborts(g) \/ HolderEnds(g) \/
             HolderCrashes(g)
      PROVE  same
  BY <1>6 DEF Forks, Publishes, Aborts, HolderEnds, HolderCrashes, HostOnly, ops
<1>7. ASSUME NEW kind \in Kinds, NEW g \in 0..MaxGen, Request(kind, g) PROVE same
  BY <1>7 DEF Request, ops
<1> QED  BY <1>1, <1>2, <1>3, <1>4, <1>5, <1>6, <1>7 DEF Next

(* The waiting operations. *)
LEMMA QueueWriters ==
  ASSUME Next
  PROVE  \/ UNCHANGED queue
         \/ Start \/ RestoreAttached \/ Restart
         \/ \E t \in attempts : AcceptRefused(t)
         \/ \E kind \in Kinds, g \in 0..MaxGen : Request(kind, g)
<1> DEFINE same == UNCHANGED queue
<1>1. ASSUME OpStep, ~Start, ~RestoreAttached PROVE same
  BY <1>1 DEF OpStep, SpawnRefused, Preflight, UnlinkStale, PreallocateRefused,
       Allocate, PrepareFails, Launch, LaunchReady, LaunchFailed, AttachOk,
       AttachFails, SpawnTornDown, RetireRefused, Terminate, BeginRetire,
       RetireConfirmed, ResetProbes, ResetRemoves, RestoreUnadopted, ops
<1>2. ASSUME LaunchTimesOut \/ LinkDrops \/ LivenessAbsent \/ ExitObserved PROVE same
  BY <1>2 DEF LaunchTimesOut, LinkDrops, LivenessAbsent, ExitObserved, EndAuthority,
       ops
<1>3. ASSUME NEW a \in {0} \cup Gen, ConfirmStep(a)
      PROVE  same
  BY <1>3 DEF ConfirmStep, Check, KillReaches, KillMisses, KillHangs, Cleanup,
       NodeGone, NodeStays, ops
<1>4. ASSUME NEW g \in Gen, ReaperStops(g) \/ ReaperSees(g) \/ ReaperDone(g) PROVE same
  BY <1>4 DEF ReaperStops, ReaperSees, ReaperDone, ops
<1>5. ASSUME NEW t \in attempts, Recovering(t), ~AcceptRefused(t)
      PROVE  same
  BY <1>5 DEF Recovering, Stale, ProbeAbsent, ProbeLive, ReattachOk, ReattachFails,
       Accepted, EndAuthority, ops
<1>6. ASSUME NEW g \in Gen, Forks(g) \/ Publishes(g) \/ Aborts(g) \/ HolderEnds(g) \/
             HolderCrashes(g)
      PROVE  same
  BY <1>6 DEF Forks, Publishes, Aborts, HolderEnds, HolderCrashes, HostOnly, ops
<1> QED  BY <1>1, <1>2, <1>3, <1>4, <1>5, <1>6 DEF Next

(* The kills in progress. *)
LEMMA ConfWriters ==
  ASSUME Next
  PROVE  \/ UNCHANGED conf
         \/ LaunchFailed \/ AttachFails \/ SpawnTornDown \/ BeginRetire \/
            RetireConfirmed \/ LaunchTimesOut \/ Restart
         \/ \E a \in {0} \cup Gen :
              Check(a) \/ KillReaches(a) \/ KillMisses(a) \/ KillHangs(a) \/
              Cleanup(a) \/ NodeGone(a) \/ NodeStays(a)
         \/ \E g \in Gen : ReaperSees(g) \/ ReaperDone(g)
<1> DEFINE same == UNCHANGED conf
<1>1. ASSUME OpStep,
             ~LaunchFailed, ~AttachFails, ~SpawnTornDown, ~BeginRetire,
             ~RetireConfirmed
      PROVE  same
  BY <1>1 DEF OpStep, Start, SpawnRefused, Preflight, UnlinkStale, PreallocateRefused,
       Allocate, PrepareFails, Launch, LaunchReady, AttachOk, RetireRefused,
       Terminate, ResetProbes, ResetRemoves, RestoreAttached, RestoreUnadopted
<1>2. ASSUME LinkDrops \/ LivenessAbsent \/ ExitObserved PROVE same
  BY <1>2 DEF LinkDrops, LivenessAbsent, ExitObserved, EndAuthority
<1>3. ASSUME NEW g \in Gen, ReaperStops(g) PROVE same
  BY <1>3 DEF ReaperStops
<1>4. ASSUME NEW t \in attempts, Recovering(t)
      PROVE  same
  BY <1>4 DEF Recovering, Stale, ProbeAbsent, ProbeLive, ReattachOk, ReattachFails,
       Accepted, AcceptRefused, EndAuthority
<1>5. ASSUME NEW g \in Gen, Forks(g) \/ Publishes(g) \/ Aborts(g) \/ HolderEnds(g) \/
             HolderCrashes(g)
      PROVE  same
  BY <1>5 DEF Forks, Publishes, Aborts, HolderEnds, HolderCrashes, HostOnly
<1>6. ASSUME NEW kind \in Kinds, NEW g \in 0..MaxGen, Request(kind, g) PROVE same
  BY <1>6 DEF Request
<1> QED  BY <1>1, <1>2, <1>3, <1>4, <1>5, <1>6 DEF Next, ConfirmStep

(* The reapers. *)
LEMMA ReaperWriters ==
  ASSUME Next
  PROVE  \/ UNCHANGED reapers
         \/ SpawnTornDown \/ Restart
         \/ \E g \in Gen : ReaperStops(g) \/ ReaperSees(g)
<1> DEFINE same == UNCHANGED reapers
<1>1. ASSUME OpStep, ~SpawnTornDown PROVE same
  BY <1>1 DEF OpStep, Start, SpawnRefused, Preflight, UnlinkStale, PreallocateRefused,
       Allocate, PrepareFails, Launch, LaunchReady, LaunchFailed, AttachOk,
       AttachFails, RetireRefused, Terminate, BeginRetire, RetireConfirmed,
       ResetProbes, ResetRemoves, RestoreAttached, RestoreUnadopted
<1>2. ASSUME LaunchTimesOut \/ LinkDrops \/ LivenessAbsent \/ ExitObserved PROVE same
  BY <1>2 DEF LaunchTimesOut, LinkDrops, LivenessAbsent, ExitObserved, EndAuthority
<1>3. ASSUME NEW a \in {0} \cup Gen, ConfirmStep(a)
      PROVE  same
  BY <1>3 DEF ConfirmStep, Check, KillReaches, KillMisses, KillHangs, Cleanup,
       NodeGone, NodeStays
<1>4. ASSUME NEW g \in Gen, ReaperDone(g) PROVE same
  BY <1>4 DEF ReaperDone
<1>5. ASSUME NEW t \in attempts, Recovering(t)
      PROVE  same
  BY <1>5 DEF Recovering, Stale, ProbeAbsent, ProbeLive, ReattachOk, ReattachFails,
       Accepted, AcceptRefused, EndAuthority
<1>6. ASSUME NEW g \in Gen, Forks(g) \/ Publishes(g) \/ Aborts(g) \/ HolderEnds(g) \/
             HolderCrashes(g)
      PROVE  same
  BY <1>6 DEF Forks, Publishes, Aborts, HolderEnds, HolderCrashes, HostOnly
<1>7. ASSUME NEW kind \in Kinds, NEW g \in 0..MaxGen, Request(kind, g) PROVE same
  BY <1>7 DEF Request
<1> QED  BY <1>1, <1>2, <1>3, <1>4, <1>5, <1>6, <1>7 DEF Next

(* The holders. *)
LEMMA HoldWriters ==
  ASSUME Next
  PROVE  \/ UNCHANGED hold
         \/ Launch \/ LaunchFailed \/ Terminate \/ LaunchTimesOut
         \/ \E a \in {0} \cup Gen : KillReaches(a) \/ KillHangs(a)
         \/ \E g \in Gen :
              Forks(g) \/ Publishes(g) \/ Aborts(g) \/ HolderEnds(g) \/
              HolderCrashes(g)
<1> DEFINE same == UNCHANGED hold
<1>1. ASSUME OpStep, ~Launch, ~LaunchFailed, ~Terminate PROVE same
  BY <1>1 DEF OpStep, Start, SpawnRefused, Preflight, UnlinkStale, PreallocateRefused,
       Allocate, PrepareFails, LaunchReady, AttachOk, AttachFails,
       SpawnTornDown, RetireRefused, BeginRetire, RetireConfirmed, ResetProbes,
       ResetRemoves, RestoreAttached, RestoreUnadopted, host
<1>2. ASSUME LinkDrops \/ LivenessAbsent \/ ExitObserved \/ Restart PROVE same
  BY <1>2 DEF LinkDrops, LivenessAbsent, ExitObserved, Restart, EndAuthority, host
<1>3. ASSUME NEW a \in {0} \cup Gen, ConfirmStep(a), ~KillReaches(a), ~KillHangs(a)
      PROVE  same
  BY <1>3 DEF ConfirmStep, Check, KillMisses, Cleanup, NodeGone, NodeStays, host
<1>4. ASSUME NEW g \in Gen, ReaperStops(g) \/ ReaperSees(g) \/ ReaperDone(g) PROVE same
  BY <1>4 DEF ReaperStops, ReaperSees, ReaperDone, host
<1>5. ASSUME NEW t \in attempts, Recovering(t)
      PROVE  same
  BY <1>5 DEF Recovering, Stale, ProbeAbsent, ProbeLive, ReattachOk, ReattachFails,
       Accepted, AcceptRefused, EndAuthority, host
<1>6. ASSUME NEW kind \in Kinds, NEW g \in 0..MaxGen, Request(kind, g) PROVE same
  BY <1>6 DEF Request, host
<1> QED  BY <1>1, <1>2, <1>3, <1>4, <1>5, <1>6 DEF Next

-----------------------------------------------------------------------------
(* Holders.                                                                *)

(* A holder only moves forward through its life, and only a launch gives   *)
(* one to a generation: the generation of the ledger, in a spawn.          *)
Advance == {<<"launching", "forked">>, <<"launching", "aborted">>,
            <<"forked", "live">>, <<"forked", "aborted">>,
            <<"live", "stopping">>, <<"live", "gone">>, <<"stopping", "gone">>}

LEMMA HoldersAdvance ==
  ASSUME IInv, Next, NEW g \in Gen
  PROVE  \/ hold'[g] = hold[g]
         \/ <<hold[g], hold'[g]>> \in Advance
         \/ Launch /\ g = gen /\ hold[g] = "none" /\ hold'[g] = "launching"
<1>t. /\ hold \in [Gen -> Fate]
      /\ hold[g] \in Fate
      /\ node # 0 => hold[node] \in {"live", "stopping", "gone"}
      /\ At("spawn", "prepare") => hold[gen] = "none"
  BY DEF IInv, Typed, TypeOK, Unborn, NodeHeld
<1> DEFINE advances == hold'[g] = hold[g] \/ <<hold[g], hold'[g]>> \in Advance
<1>1. CASE Launch  BY <1>1, <1>t DEF Launch, Goto
<1>2. ASSUME LaunchFailed \/ LaunchTimesOut PROVE advances
  BY <1>2, <1>t DEF LaunchFailed, LaunchTimesOut, Advance, Fate
<1>3. ASSUME Terminate PROVE advances
  BY <1>3, <1>t DEF Terminate, Live, Advance
<1>4. ASSUME NEW a \in {0} \cup Gen, KillReaches(a) \/ KillHangs(a) PROVE advances
  BY <1>4, <1>t DEF KillReaches, KillHangs, Live, Listening, Advance
<1>5. ASSUME NEW h \in Gen, Forks(h) \/ Publishes(h) \/ Aborts(h) \/ HolderEnds(h) \/ HolderCrashes(h)
      PROVE  advances
  BY <1>5, <1>t DEF Forks, Publishes, Aborts, HolderEnds, HolderCrashes, Become, Advance
<1> QED  BY <1>1, <1>2, <1>3, <1>4, <1>5, HoldWriters

-----------------------------------------------------------------------------
(* What a step does to the running operation, the authority and the record. *)

(* The order in which the operations pass their places.                    *)
SpawnMoves ==
  /\ op.kind = "spawn" /\ op'.kind = "spawn"
  /\ \/ Preflight /\ op.at = "start" /\ op'.at \in {"alloc", "unlink"}
     \/ UnlinkStale /\ op.at = "unlink" /\ op'.at = "alloc"
     \/ Allocate /\ op.at = "alloc" /\ op'.at = "prepare"
     \/ Launch /\ op.at = "prepare" /\ op'.at = "launch"
     \/ LaunchReady /\ op.at = "launch" /\ op'.at = "attach"
     \/ (LaunchFailed \/ LaunchTimesOut) /\ op.at = "launch" /\ op'.at = "confirm"
     \/ AttachFails /\ op.at = "attach" /\ op'.at = "confirm"

RetireMoves ==
  /\ Retiring /\ op'.kind = op.kind /\ op'.gen = op.gen
  /\ \/ Terminate /\ op.at = "start" /\ op'.at = "begin"
     \/ BeginRetire /\ op.at = "begin" /\ kill # 0 /\ op'.at = "confirm"
     \/ BeginRetire /\ op.at = "begin" /\ kill = 0 /\ op.kind = "reset" /\ op'.at = "path"
     \/ RetireConfirmed /\ op.at = "confirm" /\ op.kind = "reset" /\ conf[0].at = "ok"
          /\ op'.at = "path"
     \/ ResetProbes /\ op.at = "path" /\ op.kind = "reset" /\ op'.at = "remove"

LEMMA OpMoves ==
  ASSUME IInv, Next
  PROVE  \/ UNCHANGED op
         \/ op' = NoOp
         \/ Start /\ op'.at = "start" /\ op'.kind = Head(queue).kind
         \/ Restart /\ op'.kind = "restore" /\ op'.at = "attach"
         \/ SpawnMoves \/ RetireMoves
<1> DEFINE moved == \/ op' = NoOp \/ SpawnMoves \/ RetireMoves
<1>t. op \in Operation  BY DEF IInv, Typed
<1>f. ASSUME NEW ok, Finish(ok) PROVE moved
  BY <1>f DEF Finish
<1>g. ASSUME NEW place, op' = [op EXCEPT !.at = place]
      PROVE  op'.kind = op.kind /\ op'.gen = op.gen /\ op'.at = place
  BY <1>g, <1>t DEF Operation
<1>w. ASSUME NEW why, op' = [op EXCEPT !.at = "confirm", !.why = why]
      PROVE  op'.kind = op.kind /\ op'.gen = op.gen /\ op'.at = "confirm"
  BY <1>w, <1>t DEF Operation
<1>1. CASE Start
  <2>1. op' = [NoOp EXCEPT !.kind = Head(queue).kind, !.gen = Head(queue).gen, !.at = "start"]
    BY <1>1 DEF Start
  <2> QED  BY <1>1, <2>1 DEF NoOp
<1>2. CASE SpawnRefused \/ PreallocateRefused \/ PrepareFails \/ AttachOk \/ SpawnTornDown
           \/ RetireRefused \/ ResetRemoves \/ RestoreAttached \/ RestoreUnadopted
  BY <1>f, <1>2 DEF SpawnRefused, PreallocateRefused, PrepareFails, AttachOk, SpawnTornDown,
     RetireRefused, ResetRemoves, RestoreAttached, RestoreUnadopted
<1>3. CASE Launch \/ LaunchReady
  BY <1>g, <1>3 DEF Launch, LaunchReady, Goto, At, SpawnMoves
<1>4. CASE UnlinkStale
  BY <1>f, <1>g, <1>4 DEF UnlinkStale, Goto, At, SpawnMoves
<1>5. CASE Preflight
  <2>1. CASE Listening  BY <1>f, <1>5, <2>1 DEF Preflight
  <2>2. CASE ~Listening
    <3>1. PICK place \in {"alloc", "unlink"} : op' = [op EXCEPT !.at = place, !.node = node]
      BY <1>5, <2>2 DEF Preflight
    <3>2. op'.kind = op.kind /\ op'.at = place  BY <3>1, <1>t DEF Operation
    <3> QED  BY <1>5, <3>2 DEF Preflight, At, SpawnMoves
  <2> QED  BY <2>1, <2>2
<1>6. CASE Allocate
  <2>1. op' = [op EXCEPT !.at = "prepare", !.gen = gen']  BY <1>6 DEF Allocate
  <2>2. op'.kind = op.kind /\ op'.at = "prepare"  BY <2>1, <1>t DEF Operation
  <2> QED  BY <1>6, <2>2 DEF Allocate, At, SpawnMoves
<1>7. CASE LaunchFailed \/ LaunchTimesOut
  BY <1>f, <1>w, <1>7 DEF LaunchFailed, LaunchTimesOut, At, SpawnMoves
<1>8. CASE AttachFails
  BY <1>f, <1>w, <1>8 DEF AttachFails, At, SpawnMoves
<1>9. CASE Terminate
  BY <1>g, <1>9 DEF Terminate, Goto, RetireMoves
<1>10. CASE BeginRetire
  BY <1>f, <1>g, <1>10 DEF BeginRetire, Goto, RetireMoves
<1>11. CASE RetireConfirmed
  BY <1>f, <1>g, <1>11 DEF RetireConfirmed, Goto, RetireMoves
<1>12. CASE ResetProbes
  <2>1. op.kind = "reset" /\ op.at = "path" /\ Retiring  BY <1>12 DEF ResetProbes, At, Retiring
  <2>2. (\E ok : Finish(ok)) \/ op' = [op EXCEPT !.at = "remove"]
    BY <1>12 DEF ResetProbes, Goto
  <2> QED  BY <1>f, <1>g, <1>12, <2>1, <2>2 DEF RetireMoves
<1>13. CASE Restart
  <2>1. op' \in {NoOp, [NoOp EXCEPT !.kind = "restore", !.gen = gen, !.at = "attach"]}
    BY <1>13 DEF Restart
  <2>2. LET r == [NoOp EXCEPT !.kind = "restore", !.gen = gen, !.at = "attach"]
        IN  r.kind = "restore" /\ r.at = "attach"
    BY DEF NoOp
  <2> QED  BY <1>13, <2>1, <2>2
<1> QED  BY <1>1, <1>2, <1>3, <1>4, <1>5, <1>6, <1>7, <1>8, <1>9, <1>10, <1>11, <1>12, <1>13, OpWriters

-----------------------------------------------------------------------------
(* Type correctness, one group of variables at a time.                     *)

Session == [gen : 0..MaxGen, life : {"none", "starting", "running", "exited"},
            live : BOOLEAN]

LEMMA HostType ==
  ASSUME IInv, Next
  PROVE  /\ hold' \in [Gen -> Fate] /\ node' \in 0..MaxGen /\ gen' \in 0..MaxGen
         /\ base' \in 0..gen' /\ crowded' \in BOOLEAN
<1>t. Typed  BY DEF IInv
<1>1. hold' \in [Gen -> Fate]
  <2>t. hold \in [Gen -> Fate]  BY <1>t DEF Typed, TypeOK
  <2>1. CASE UNCHANGED hold  BY <2>1, <2>t
  <2>2. CASE Launch \/ LaunchFailed \/ LaunchTimesOut
    BY <2>2, <2>t DEF Launch, LaunchFailed, LaunchTimesOut, Fate
  <2>3. CASE Terminate  BY <2>3, <2>t DEF Terminate, Fate
  <2>4. ASSUME NEW a \in {0} \cup Gen, KillReaches(a) \/ KillHangs(a)
        PROVE  hold' \in [Gen -> Fate]
    BY <2>4, <2>t DEF KillReaches, KillHangs, Fate
  <2>5. ASSUME NEW h \in Gen,
               Forks(h) \/ Publishes(h) \/ Aborts(h) \/ HolderEnds(h) \/ HolderCrashes(h)
        PROVE  hold' \in [Gen -> Fate]
    BY <2>5, <2>t DEF Forks, Publishes, Aborts, HolderEnds, HolderCrashes, Become, Fate
  <2> QED  BY <2>1, <2>2, <2>3, <2>4, <2>5, HoldWriters
<1>2. node' \in 0..MaxGen
  <2>t. node \in 0..MaxGen /\ 0 \in 0..MaxGen /\ Gen \subseteq 0..MaxGen
    BY <1>t, BoundsAssumption DEF Typed, TypeOK, Gen
  <2>1. CASE UNCHANGED node  BY <2>1, <2>t
  <2>2. CASE UnlinkStale \/ ResetRemoves  BY <2>2, <2>t DEF UnlinkStale, ResetRemoves
  <2>3. ASSUME NEW a \in {0} \cup Gen, Cleanup(a) PROVE node' \in 0..MaxGen
    BY <2>3, <2>t DEF Cleanup, KillFails
  <2>4. ASSUME NEW h \in Gen, Publishes(h) \/ HolderEnds(h) PROVE node' \in 0..MaxGen
    BY <2>4, <2>t DEF Publishes, HolderEnds
  <2> QED  BY <2>1, <2>2, <2>3, <2>4, NodeWriters
<1>3. gen' \in 0..MaxGen /\ base' \in 0..gen' /\ crowded' \in BOOLEAN
  <2>t. gen \in 0..MaxGen /\ base \in 0..gen /\ crowded \in BOOLEAN /\ MaxGen \in Nat
    BY <1>t, BoundsAssumption DEF Typed, TypeOK
  <2>1. CASE UNCHANGED <<gen, base, crowded>>  BY <2>1, <2>t
  <2>2. CASE Allocate  BY <2>2, <2>t DEF Allocate, past
  <2>3. CASE Launch
    <3>1. gen' = gen /\ base' = base /\ crowded' = (crowded \/ \E g \in Gen : hold[g] \in NotEnded)
      BY <2>3 DEF Launch
    <3>2. crowded' \in BOOLEAN  BY <3>1, <2>t
    <3> QED  BY <3>1, <3>2, <2>t
  <2>4. CASE Restart
    <3>1. gen' = gen /\ base' = gen /\ crowded' = crowded  BY <2>4 DEF Restart
    <3> QED  BY <3>1, <2>t
  <2> QED  BY <2>1, <2>2, <2>3, <2>4, LedgerWriters
<1> QED  BY <1>1, <1>2, <1>3

(* The snapshot that a retire leaves is of the same generation, not live. *)
LEMMA RetiredIs ==
  ASSUME sess \in Session
  PROVE  Retired \in Session /\ Retired.gen = sess.gen /\ ~Retired.live
BY DEF Retired, Session

LEMMA CoreType ==
  ASSUME IInv, Next
  PROVE  sess' \in Session /\ owner' \in 0..MaxGen /\ link' \in 0..MaxGen
<1> DEFINE typed == sess' \in Session /\ owner' \in 0..MaxGen /\ link' \in 0..MaxGen
<1>t. /\ sess \in Session /\ owner \in 0..MaxGen /\ link \in 0..MaxGen
      /\ gen \in 0..MaxGen /\ 0 \in 0..MaxGen
      /\ \A t \in attempts : t.s.gen \in 0..MaxGen
      /\ Retired \in Session
  BY RetiredIs, BoundsAssumption
     DEF IInv, Typed, TypeOK, Session, Attempts, Slot
<1>1. CASE UNCHANGED <<sess, owner, link>>  BY <1>1, <1>t
<1>2. CASE Allocate
  <2>1. gen' \in 0..MaxGen  BY <1>2, HostType
  <2>2. sess' = [gen |-> gen', life |-> "starting", live |-> TRUE] /\ owner' = gen' /\ link' = link
    BY <1>2 DEF Allocate
  <2> QED  BY <2>1, <2>2, <1>t DEF Session
<1>3. CASE PrepareFails \/ LaunchFailed \/ AttachFails \/ SpawnTornDown
  BY <1>3, <1>t DEF PrepareFails, LaunchFailed, AttachFails, SpawnTornDown
<1>4. CASE AttachOk \/ RestoreAttached
  <2>1. sess' = [sess EXCEPT !.life = "running"] /\ owner' = owner /\ link' = gen
    BY <1>4 DEF AttachOk, RestoreAttached
  <2> QED  BY <2>1, <1>t DEF Session
<1>5. CASE RestoreUnadopted
  BY <1>5, <1>t DEF RestoreUnadopted, Session
<1>6. CASE BeginRetire \/ LivenessAbsent \/ LinkDrops
  BY <1>6, <1>t DEF BeginRetire, LivenessAbsent, EndAuthority, LinkDrops
<1>7. CASE ExitObserved
  BY <1>7, <1>t DEF ExitObserved, Session
<1>8. CASE Restart
  <2>1. /\ sess' \in {[gen |-> gen, life |-> "starting", live |-> TRUE], NoSession}
        /\ owner' \in {gen, 0} /\ link' = 0
    BY <1>8 DEF Restart
  <2>2. [gen |-> gen, life |-> "starting", live |-> TRUE] \in Session
    BY <1>t DEF Session
  <2>3. NoSession \in Session  BY <1>t DEF Session, NoSession
  <2> QED  BY <2>1, <2>2, <2>3, <1>t
<1>9. ASSUME NEW t \in attempts, ProbeAbsent(t) \/ ReattachOk(t) PROVE typed
  BY <1>9, <1>t DEF ProbeAbsent, ReattachOk, EndAuthority, Session
<1> QED  BY <1>1, <1>2, <1>3, <1>4, <1>5, <1>6, <1>7, <1>8, <1>9, CoreWriters

LEMMA RecoveryType ==
  ASSUME IInv, Next
  PROVE  slot' \in Slot /\ attempts' \subseteq Attempts /\ IsFiniteSet(attempts')
<1> DEFINE typed == slot' \in Slot /\ attempts' \subseteq Attempts /\ IsFiniteSet(attempts')
<1>t. /\ slot \in Slot /\ attempts \subseteq Attempts /\ IsFiniteSet(attempts)
      /\ gen \in 0..MaxGen /\ link \in 0..MaxGen
      /\ NoSlot \in Slot
  BY BoundsAssumption DEF IInv, Typed, TypeOK, NoSlot, Slot
<1>1. CASE UNCHANGED <<slot, attempts>>  BY <1>1, <1>t
<1>2. ASSUME NEW g \in 0..MaxGen, OpenSlot(g) PROVE typed
  <2>1. slot' = [gen |-> g, ep |-> Fresh] /\ attempts' = attempts \cup {[s |-> slot', at |-> "probe"]}
    BY <1>2 DEF OpenSlot
  <2>2. slot' \in Slot  BY <2>1, <1>t, FreshIsNew DEF Slot
  <2>3. [s |-> slot', at |-> "probe"] \in Attempts  BY <2>2 DEF Attempts
  <2> QED  BY <2>1, <2>2, <2>3, <1>t, FS_AddElement
<1>3. CASE LinkDrops  BY <1>2, <1>3, <1>t DEF LinkDrops
<1>4. CASE RestoreUnadopted  BY <1>1, <1>2, <1>4, <1>t DEF RestoreUnadopted, recovery
<1>5. CASE BeginRetire \/ LivenessAbsent \/ ExitObserved
  BY <1>5, <1>t DEF BeginRetire, LivenessAbsent, EndAuthority, ExitObserved
<1>6. CASE Restart  BY <1>6, <1>t, FS_EmptySet DEF Restart
<1>7. ASSUME NEW t \in attempts,
             Stale(t) \/ ProbeAbsent(t) \/ Accepted(t) \/ AcceptRefused(t)
      PROVE  typed
  <2>1. attempts' = attempts \ {t} /\ slot' \in {slot, NoSlot}
    BY <1>7 DEF Stale, ProbeAbsent, Accepted, AcceptRefused, EndAuthority
  <2> QED  BY <2>1, <1>t, FS_RemoveElement
<1>8. ASSUME NEW t \in attempts,
             ProbeLive(t) \/ ReattachOk(t) \/ ReattachFails(t)
      PROVE  typed
  <2>1. slot' = slot /\ \E place \in {"attach", "accept", "probe"} : Moves(t, place)
    BY <1>8 DEF ProbeLive, ReattachOk, ReattachFails, Retry
  <2>2. PICK place \in {"attach", "accept", "probe"} : Moves(t, place)
    BY <2>1
  <2>3. attempts' = (attempts \ {t}) \cup {[t EXCEPT !.at = place]}
    BY <2>2 DEF Moves
  <2>4. [t EXCEPT !.at = place] \in Attempts
    BY <1>t DEF Attempts
  <2>5. IsFiniteSet(attempts \ {t})  BY <1>t, FS_RemoveElement
  <2> QED  BY <2>1, <2>3, <2>4, <2>5, <1>t, FS_AddElement
<1> QED  BY <1>1, <1>3, <1>4, <1>5, <1>6, <1>7, <1>8, RecoveryWriters

LEMMA KillType ==
  ASSUME IInv, Next
  PROVE  kill' \in 0..MaxGen /\ must' \subseteq Gen
<1> DEFINE typed == kill' \in 0..MaxGen /\ must' \subseteq Gen
<1>t. /\ kill \in 0..MaxGen /\ must \subseteq Gen /\ gen \in 0..MaxGen /\ 0 \in 0..MaxGen
      /\ \A g \in 0..MaxGen : g # 0 => g \in Gen
      /\ \A a \in {0} \cup Gen : conf[a].at # "idle" => conf[a].rec \in Gen
      /\ Spawning => gen # 0
  BY BoundsAssumption DEF IInv, Typed, TypeOK, Killing, Authority, Gen
<1>1. CASE UNCHANGED <<kill, must>>  BY <1>1, <1>t
<1>2. CASE LaunchReady \/ LaunchFailed \/ LaunchTimesOut
  <2>1. At("spawn", "launch")  BY <1>2 DEF LaunchReady, LaunchFailed, LaunchTimesOut
  <2>2. gen \in Gen  BY <2>1, <1>t DEF At, Spawning
  <2>3. kill' \in {kill, gen} /\ must' \in {must, must \cup {gen}, must \ {gen}}
    BY <1>2 DEF LaunchReady, LaunchFailed, LaunchTimesOut, TimedOut, kills
  <2> QED  BY <2>2, <2>3, <1>t
<1>3. CASE AttachFails  BY <1>3, <1>t DEF AttachFails, kills
<1>4. CASE LivenessAbsent \/ Restart
  <2>1. kill' \in {0, gen} /\ must' \in {must, {}}
    BY <1>4 DEF LivenessAbsent, EndAuthority, Restart
  <2> QED  BY <2>1, <1>t
<1>5. ASSUME NEW t \in attempts, ProbeAbsent(t) PROVE typed
  BY <1>5, <1>t DEF ProbeAbsent, EndAuthority
<1>6. ASSUME NEW a \in {0} \cup Gen,
             Check(a) \/ KillMisses(a) \/ KillHangs(a) \/ Cleanup(a) \/ NodeGone(a) \/ NodeStays(a)
      PROVE  typed
  <2>1. conf[a].rec \in Gen
    BY <1>6, <1>t DEF Check, KillMisses, KillHangs, Cleanup, NodeGone, NodeStays
  <2>2. kill' \in {kill, 0} /\ must' \in {must, must \cup {conf[a].rec}}
    BY <1>6 DEF Check, KillMisses, KillHangs, Cleanup, NodeGone, NodeStays, KillRefused,
       KillConfirmed, KillFails, Consumed, kills
  <2> QED  BY <2>1, <2>2, <1>t
<1> QED  BY <1>1, <1>2, <1>3, <1>4, <1>5, <1>6, KillWriters

LEMMA OpType ==
  ASSUME IInv, Next
  PROVE  op' \in Operation
<1>t. /\ op \in Operation /\ gen \in 0..MaxGen /\ node \in 0..MaxGen
      /\ queue \in Seq(Queued)
      /\ NoOp \in Operation
  BY BoundsAssumption DEF IInv, Typed, TypeOK, NoOp, Operation, Places
<1>1. ASSUME NEW place \in Places, Goto(place) PROVE op' \in Operation
  BY <1>1, <1>t DEF Goto, Operation
<1>2. ASSUME NEW ok, Finish(ok) PROVE op' \in Operation
  BY <1>2, <1>t DEF Finish
<1>3. CASE Start
  <2>1. Head(queue) \in Queued  BY <1>3, <1>t DEF Start
  <2>2. op' = [NoOp EXCEPT !.kind = Head(queue).kind, !.gen = Head(queue).gen, !.at = "start"]
    BY <1>3 DEF Start
  <2> QED  BY <2>1, <2>2, <1>t DEF Queued, Operation, Places
<1>4. CASE SpawnRefused \/ PreallocateRefused \/ PrepareFails \/ AttachOk \/ SpawnTornDown
           \/ RetireRefused \/ ResetRemoves \/ RestoreAttached \/ RestoreUnadopted
  BY <1>2, <1>4 DEF SpawnRefused, PreallocateRefused, PrepareFails, AttachOk, SpawnTornDown,
     RetireRefused, ResetRemoves, RestoreAttached, RestoreUnadopted
<1>5. CASE Launch \/ LaunchReady \/ Terminate
  BY <1>1, <1>5 DEF Launch, LaunchReady, Terminate, Places
<1>6. CASE UnlinkStale \/ RetireConfirmed \/ ResetProbes
  BY <1>1, <1>2, <1>6, <1>t DEF UnlinkStale, RetireConfirmed, ResetProbes, Places
<1>7. CASE BeginRetire
  BY <1>1, <1>2, <1>7, <1>t DEF BeginRetire, Places
<1>8. CASE Preflight
  <2>1. CASE Listening  BY <1>2, <1>8, <2>1 DEF Preflight
  <2>2. CASE ~Listening
    <3>1. \E place \in {"alloc", "unlink"} : op' = [op EXCEPT !.at = place, !.node = node]
      BY <1>8, <2>2 DEF Preflight
    <3> QED  BY <3>1, <1>t DEF Operation, Places
  <2> QED  BY <2>1, <2>2
<1>9. CASE Allocate
  <2>1. gen' \in 0..MaxGen  BY HostType
  <2> QED  BY <2>1, <1>9, <1>t DEF Allocate, Operation, Places
<1>10. CASE LaunchFailed \/ LaunchTimesOut \/ AttachFails
  <2>1. op' = NoOp \/ \E why \in {"failed", "timeout", "attach"} :
                        op' = [op EXCEPT !.at = "confirm", !.why = why]
    BY <1>10 DEF LaunchFailed, LaunchTimesOut, AttachFails, Finish
  <2> QED  BY <2>1, <1>t DEF Operation, Places
<1>11. CASE Restart
  <2>1. op' \in {NoOp, [NoOp EXCEPT !.kind = "restore", !.gen = gen, !.at = "attach"]}
    BY <1>11 DEF Restart
  <2> QED  BY <2>1, <1>t DEF Operation, Places
<1> QED  BY <1>t, <1>3, <1>4, <1>5, <1>6, <1>7, <1>8, <1>9, <1>10, <1>11, OpWriters

LEMMA QueueType ==
  ASSUME IInv, Next
  PROVE  queue' \in Seq(Queued)
<1>t. /\ queue \in Seq(Queued) /\ gen \in 0..MaxGen /\ 0 \in 0..MaxGen
      /\ \A t \in attempts : t.s.gen \in 0..MaxGen
  BY BoundsAssumption DEF IInv, Typed, TypeOK, Attempts, Slot
<1>1. ASSUME NEW kind \in Kinds, NEW g \in 0..MaxGen, queue' = Append(queue, [kind |-> kind, gen |-> g])
      PROVE  queue' \in Seq(Queued)
  <2>1. [kind |-> kind, gen |-> g] \in Queued  BY DEF Queued
  <2> QED  BY <1>1, <2>1, <1>t
<1>2. CASE Start  BY <1>2, <1>t DEF Start
<1>3. CASE RestoreAttached  BY <1>1, <1>3, <1>t DEF RestoreAttached, Kinds
<1>4. CASE Restart  BY <1>4 DEF Restart
<1>5. ASSUME NEW t \in attempts, AcceptRefused(t) PROVE queue' \in Seq(Queued)
  BY <1>1, <1>5, <1>t DEF AcceptRefused, Kinds
<1>6. ASSUME NEW kind \in Kinds, NEW g \in 0..MaxGen, Request(kind, g) PROVE queue' \in Seq(Queued)
  BY <1>1, <1>6 DEF Request
<1> QED  BY <1>t, <1>2, <1>3, <1>4, <1>5, <1>6, QueueWriters

(* Spawns coalesce: no second one waits beside a first.                    *)
OneSpawn(q, kind) ==
  \A i, j \in 1..Len(q) :
    q[i].kind = "spawn" => kind # "spawn" /\ (q[j].kind = "spawn" => i = j)

LEMMA OneSpawnStep ==
  ASSUME IInv, Next
  PROVE  OneSpawn(queue', op'.kind)
<1>t. queue \in Seq(Queued) /\ op \in Operation /\ OneSpawn(queue, op.kind)
  BY DEF IInv, Typed, TypeOK, OneSpawn
<1>1. ASSUME NEW kind \in Kinds, NEW g \in 0..MaxGen, kind = "spawn" => ~Coalesced,
             queue' = Append(queue, [kind |-> kind, gen |-> g]),
             op'.kind \in {op.kind, "none", "restore"}
      PROVE  OneSpawn(queue', op'.kind)
  <2>1. /\ Len(queue') = Len(queue) + 1 /\ Len(queue) \in Nat
        /\ \A i \in 1..Len(queue) : queue'[i] = queue[i]
        /\ queue'[Len(queue) + 1].kind = kind
    BY <1>1, <1>t
  <2>2. kind = "spawn" => op.kind # "spawn" /\ \A i \in 1..Len(queue) : queue[i].kind # "spawn"
    BY <1>1 DEF Coalesced
  <2>3. \A i \in 1..Len(queue') : i \in 1..Len(queue) \/ i = Len(queue) + 1
    BY <2>1
  <2> QED  BY <1>1, <1>t, <2>1, <2>2, <2>3 DEF OneSpawn
<1>2. ASSUME UNCHANGED queue, op'.kind \in {op.kind, "none", "restore"}
      PROVE  OneSpawn(queue', op'.kind)
  BY <1>2, <1>t DEF OneSpawn
<1>3. CASE Start
  <2>1. queue # <<>> /\ queue' = Tail(queue) /\ op'.kind = Head(queue).kind
    <3>1. op' = [NoOp EXCEPT !.kind = Head(queue).kind, !.gen = Head(queue).gen, !.at = "start"]
      BY <1>3 DEF Start
    <3> QED  BY <1>3, <3>1 DEF Start, NoOp
  <2>2. /\ Len(queue') = Len(queue) - 1 /\ Len(queue) \in Nat \ {0} /\ Head(queue) = queue[1]
        /\ \A i \in 1..Len(queue') : queue'[i] = queue[i + 1]
    BY <2>1, <1>t
  <2> QED  BY <2>1, <2>2, <1>t DEF OneSpawn
<1>4. CASE Restart
  BY <1>4 DEF Restart, OneSpawn
<1>5. CASE ~Start /\ ~Restart
  <2>1. op'.kind \in {op.kind, "none", "restore"}
    BY <1>5, OpMoves DEF NoOp, SpawnMoves, RetireMoves
  <2>2. CASE RestoreAttached
    <3>1. UNCHANGED queue \/ queue' = Append(queue, [kind |-> "exact", gen |-> gen])
      BY <2>2 DEF RestoreAttached
    <3>2. gen \in 0..MaxGen  BY DEF IInv, Typed, TypeOK
    <3> QED  BY <1>1, <1>2, <2>1, <3>1, <3>2 DEF Kinds
  <2>3. ASSUME NEW t \in attempts, AcceptRefused(t) PROVE OneSpawn(queue', op'.kind)
    <3>1. t.s.gen \in 0..MaxGen  BY DEF IInv, Typed, TypeOK, Attempts, Slot
    <3> QED  BY <1>1, <2>1, <2>3, <3>1 DEF AcceptRefused, Kinds
  <2>4. ASSUME NEW kind \in Kinds, NEW g \in 0..MaxGen, Request(kind, g)
        PROVE  OneSpawn(queue', op'.kind)
    BY <1>1, <2>1, <2>4 DEF Request
  <2> QED  BY <1>2, <1>5, <2>1, <2>2, <2>3, <2>4, QueueWriters
<1> QED  BY <1>3, <1>4, <1>5

LEMMA ConfType ==
  ASSUME IInv, Next
  PROVE  conf' \in [{0} \cup Gen -> Confirmation]
<1> DEFINE typed == conf' \in [{0} \cup Gen -> Confirmation]
<1>t. /\ conf \in [{0} \cup Gen -> Confirmation] /\ gen \in 0..MaxGen /\ kill \in 0..MaxGen
      /\ Gen \subseteq 0..MaxGen
      /\ NoConfirm \in Confirmation
      /\ \A r \in 0..MaxGen : [at |-> "check", rec |-> r, sure |-> FALSE] \in Confirmation
  BY BoundsAssumption DEF IInv, Typed, TypeOK, NoConfirm, Confirmation, Gen
<1>1. CASE LaunchFailed \/ LaunchTimesOut \/ AttachFails \/ BeginRetire
  <2>1. UNCHANGED conf \/ \E r \in {gen, kill} : Confirm(r)
    BY <1>1 DEF LaunchFailed, LaunchTimesOut, AttachFails, BeginRetire, TimedOut
  <2> QED  BY <2>1, <1>t DEF Confirm
<1>2. CASE SpawnTornDown \/ RetireConfirmed
  BY <1>2, <1>t DEF SpawnTornDown, RetireConfirmed
<1>3. CASE Restart  BY <1>3, <1>t DEF Restart
<1>4. ASSUME NEW a \in {0} \cup Gen,
             Check(a) \/ KillReaches(a) \/ KillMisses(a) \/ KillHangs(a) \/ Cleanup(a)
               \/ NodeGone(a) \/ NodeStays(a)
      PROVE  typed
  <2>1. \/ \E place \in {"ok", "failed", "rm", "wait"} : Became(a, place)
        \/ conf' = [conf EXCEPT ![a].at = "kill", ![a].sure = conf[a].rec \notin must]
    BY <1>4 DEF Check, KillReaches, KillMisses, KillHangs, Cleanup, NodeGone, NodeStays,
       KillRefused, KillConfirmed, KillFails
  <2>2. ASSUME NEW place \in {"ok", "failed", "rm", "wait"}, Became(a, place) PROVE typed
    <3>1. conf' = [conf EXCEPT ![a] = [conf[a] EXCEPT !.at = place]]  BY <2>2 DEF Became
    <3>2. [conf[a] EXCEPT !.at = place] \in Confirmation  BY <1>t DEF Confirmation
    <3> QED  BY <3>1, <3>2, <1>t
  <2>3. ASSUME conf' = [conf EXCEPT ![a].at = "kill", ![a].sure = conf[a].rec \notin must] PROVE typed
    <3> DEFINE sure == conf[a].rec \notin must
    <3>1. conf' = [conf EXCEPT ![a] = [conf[a] EXCEPT !.at = "kill", !.sure = sure]]
      BY <2>3
    <3>s. sure \in BOOLEAN  OBVIOUS
    <3> HIDE DEF sure
    <3>c. conf[a] \in Confirmation  BY <1>t
    <3>2. [conf[a] EXCEPT !.at = "kill", !.sure = sure] \in Confirmation
      BY <3>c, <3>s DEF Confirmation
    <3> QED  BY <3>1, <3>2, <1>t
  <2> QED  BY <2>1, <2>2, <2>3
<1>5. ASSUME NEW g \in Gen, ReaperSees(g) \/ ReaperDone(g) PROVE typed
  BY <1>5, <1>t DEF ReaperSees, ReaperDone
<1> QED  BY <1>t, <1>1, <1>2, <1>3, <1>4, <1>5, ConfWriters

LEMMA ReaperType ==
  ASSUME IInv, Next
  PROVE  reapers' \subseteq Gen
<1>t. reapers \subseteq Gen /\ (Spawning => gen \in Gen)
  BY DEF IInv, Typed, TypeOK, Authority, Gen
<1>1. CASE SpawnTornDown
  BY <1>1, <1>t DEF SpawnTornDown, At, Spawning
<1>2. CASE Restart  BY <1>2 DEF Restart
<1>3. ASSUME NEW g \in Gen, ReaperStops(g) \/ ReaperSees(g) PROVE reapers' \subseteq Gen
  BY <1>3, <1>t DEF ReaperStops, ReaperSees
<1> QED  BY <1>t, <1>1, <1>2, <1>3, ReaperWriters

LEMMA TypedStep ==
  ASSUME IInv, Next
  PROVE  Typed'
<1>1. /\ \A a \in {0} \cup Gen : conf'[a].rec \in 0..MaxGen
      /\ \A i \in 1..Len(queue') : queue'[i].kind \in Kinds
  <2>1. \A a \in {0} \cup Gen : conf'[a] \in Confirmation  BY ConfType
  <2>2. \A i \in 1..Len(queue') : queue'[i] \in Queued  BY QueueType
  <2> QED  BY <2>1, <2>2 DEF Confirmation, Queued
<1>2. \A i, j \in 1..Len(queue') :
        queue'[i].kind = "spawn" => op'.kind # "spawn" /\ (queue'[j].kind = "spawn" => i = j)
  BY OneSpawnStep DEF OneSpawn
<1>3. TypeOK'
  BY <1>1, <1>2, HostType, CoreType, RecoveryType, KillType, ReaperType DEF TypeOK, Session
<1> QED
  BY <1>3, HostType, RecoveryType, OpType, QueueType, ConfType DEF Typed

-----------------------------------------------------------------------------
(* What a step does to the authority, the link, the slot and the record.   *)

(* A step that leaves the ledger alone keeps the generation the authority  *)
(* has: it can only end its life.                                          *)
SameSession == sess'.gen = sess.gen /\ (sess'.live => sess.live)
Adopts == /\ link' # 0 /\ sess.live /\ owner = link' /\ sess.gen = link'
          /\ sess'.live /\ sess'.gen = sess.gen /\ owner' = owner

LEMMA CoreMoves ==
  ASSUME IInv, Next
  PROVE  \/ UNCHANGED core
         \/ Allocate /\ sess'.gen = gen' /\ sess'.live /\ link' = link
         \/ Restart /\ link' = 0 /\ sess'.gen \in {0, gen} /\ (sess'.live => sess'.gen = gen /\ gen # 0)
              /\ (sess'.gen = 0 => kill' = 0) /\ (op'.kind = "restore" => sess'.gen = gen)
         \/ (LinkDrops \/ LivenessAbsent \/ ExitObserved \/ BeginRetire
               \/ \E t \in attempts : ProbeAbsent(t))
              /\ link' = 0 /\ SameSession
         \/ Spawning /\ link' = link /\ SameSession
         \/ (AttachOk \/ RestoreAttached \/ \E t \in attempts : ReattachOk(t)) /\ Adopts
         \/ RestoreUnadopted /\ link' = link /\ owner' = owner
              /\ sess'.gen = sess.gen /\ sess'.live = sess.live
<1>t. /\ sess \in Session
      /\ Retired \in Session /\ Retired.gen = sess.gen /\ ~Retired.live
      /\ sess.live => sess.gen = gen /\ gen # 0
  BY RetiredIs DEF IInv, Typed, TypeOK, Session, Authority
<1>e. ASSUME NEW life PROVE LET s == [sess EXCEPT !.life = life] IN s.gen = sess.gen /\ s.live = sess.live
  BY <1>t DEF Session
<1>1. CASE UNCHANGED <<sess, owner, link>>  BY <1>1 DEF core
<1>2. CASE Allocate  BY <1>2 DEF Allocate
<1>3. CASE PrepareFails \/ LaunchFailed \/ AttachFails \/ SpawnTornDown
  BY <1>3, <1>t DEF PrepareFails, LaunchFailed, AttachFails, SpawnTornDown, At, Spawning, SameSession
<1>4. CASE AttachOk \/ RestoreAttached
  BY <1>4, <1>t, <1>e DEF AttachOk, RestoreAttached, StillValid, Adopts
<1>5. CASE RestoreUnadopted
  BY <1>5, <1>e DEF RestoreUnadopted
<1>6. CASE BeginRetire \/ LivenessAbsent \/ LinkDrops
  BY <1>6, <1>t DEF BeginRetire, LivenessAbsent, EndAuthority, LinkDrops, SameSession
<1>7. CASE ExitObserved
  BY <1>7, <1>e DEF ExitObserved, SameSession
<1>8. CASE Restart
  <2>1. CASE node # 0 /\ gen # 0  BY <1>8, <2>1 DEF Restart
  <2>2. CASE ~(node # 0 /\ gen # 0)
    BY <1>8, <2>2 DEF Restart, NoSession, NoOp
  <2> QED  BY <2>1, <2>2
<1>9. ASSUME NEW t \in attempts, ProbeAbsent(t) PROVE link' = 0 /\ SameSession
  BY <1>9, <1>t DEF ProbeAbsent, EndAuthority, SameSession
<1>10. ASSUME NEW t \in attempts, ReattachOk(t) PROVE Adopts
  BY <1>10, <1>t, <1>e DEF ReattachOk, StillValid, Current, Answers, Listening, Adopts
<1> QED  BY <1>1, <1>2, <1>3, <1>4, <1>5, <1>6, <1>7, <1>8, <1>9, <1>10, CoreWriters

(* A slot is opened only for a link that dropped or a restore that failed. *)
LEMMA SlotMoves ==
  ASSUME IInv, Next
  PROVE  /\ slot' \in {slot, NoSlot} \/ LinkDrops \/ RestoreUnadopted
         /\ \A t \in attempts' : t.s.ep # 0
<1> DEFINE kept == slot' \in {slot, NoSlot} \/ LinkDrops \/ RestoreUnadopted
           numbered == \A t \in attempts' : t.s.ep # 0
<1>t. /\ \A t \in attempts : t.s.ep # 0
      /\ attempts \subseteq Attempts
      /\ Fresh # 0
  BY FreshIsNew DEF IInv, Authority, Typed, TypeOK
<1>1. CASE UNCHANGED <<slot, attempts>>  BY <1>1, <1>t
<1>2. ASSUME NEW g, OpenSlot(g) PROVE numbered
  BY <1>2, <1>t DEF OpenSlot
<1>3. CASE LinkDrops \/ RestoreUnadopted
  BY <1>2, <1>3, <1>t DEF LinkDrops, RestoreUnadopted, recovery
<1>4. CASE BeginRetire \/ LivenessAbsent \/ ExitObserved \/ Restart
  BY <1>4, <1>t DEF BeginRetire, LivenessAbsent, EndAuthority, ExitObserved, Restart
<1>5. ASSUME NEW t \in attempts,
             Stale(t) \/ ProbeAbsent(t) \/ Accepted(t) \/ AcceptRefused(t)
      PROVE  kept /\ numbered
  <2>1. attempts' = attempts \ {t} /\ slot' \in {slot, NoSlot}
    BY <1>5 DEF Stale, ProbeAbsent, Accepted, AcceptRefused, EndAuthority
  <2> QED  BY <2>1, <1>t
<1>6. ASSUME NEW t \in attempts, ProbeLive(t) \/ ReattachOk(t) \/ ReattachFails(t)
      PROVE  kept /\ numbered
  <2>1. slot' = slot /\ \E place : Moves(t, place)
    BY <1>6 DEF ProbeLive, ReattachOk, ReattachFails, Retry
  <2>2. PICK place : Moves(t, place)  BY <2>1
  <2>3. attempts' = (attempts \ {t}) \cup {[t EXCEPT !.at = place]}  BY <2>2 DEF Moves
  <2>4. [t EXCEPT !.at = place].s = t.s  BY <1>t DEF Attempts
  <2> QED  BY <2>1, <2>3, <2>4, <1>t
<1> QED  BY <1>1, <1>3, <1>4, <1>5, <1>6, RecoveryWriters

(* A record is registered by a launch that was judged, and otherwise only  *)
(* consumed or dropped with the authority.                                 *)
Judges == /\ At("spawn", "launch")
          /\ kill' = gen
          /\ \/ LaunchReady /\ must' = must \ {gen}
             \/ (LaunchFailed \/ LaunchTimesOut) /\ must' = must \cup {gen}
Consumes(a) == /\ conf[a].at # "idle" /\ kill' = Consumed(conf[a].rec) /\ must' = must
               /\ Became(a, "ok")
               /\ Check(a) \/ KillMisses(a) \/ KillHangs(a) \/ Cleanup(a) \/ NodeGone(a)

LEMMA KillMoves ==
  ASSUME IInv, Next
  PROVE  \/ kill' = kill /\ must \subseteq must'
         \/ Judges
         \/ Restart /\ kill' \in {0, gen}
         \/ (LivenessAbsent \/ \E t \in attempts : ProbeAbsent(t)) /\ kill' = 0 /\ must' = must
         \/ \E a \in {0} \cup Gen : Consumes(a)
<1>1. CASE UNCHANGED <<kill, must>>  BY <1>1
<1>2. CASE LaunchReady  BY <1>2 DEF LaunchReady, Judges
<1>3. CASE LaunchFailed  BY <1>3 DEF LaunchFailed, Judges, kills
<1>4. CASE LaunchTimesOut  BY <1>4 DEF LaunchTimesOut, TimedOut, Judges
<1>5. CASE AttachFails  BY <1>5 DEF AttachFails, kills
<1>6. CASE LivenessAbsent  BY <1>6 DEF LivenessAbsent, EndAuthority
<1>7. CASE Restart  BY <1>7 DEF Restart
<1>8. ASSUME NEW t \in attempts, ProbeAbsent(t) PROVE kill' = 0 /\ must' = must
  BY <1>8 DEF ProbeAbsent, EndAuthority
<1>9. ASSUME NEW a \in {0} \cup Gen,
             Check(a) \/ KillMisses(a) \/ KillHangs(a) \/ Cleanup(a) \/ NodeGone(a) \/ NodeStays(a)
      PROVE  (kill' = kill /\ must \subseteq must') \/ Consumes(a)
  BY <1>9 DEF Check, KillMisses, KillHangs, Cleanup, NodeGone, NodeStays, KillRefused,
     KillConfirmed, KillFails, Consumes, kills
<1> QED  BY <1>1, <1>2, <1>3, <1>4, <1>5, <1>6, <1>7, <1>8, <1>9, KillWriters

(* A kill is ordered by the running operation, for the record, or by a     *)
(* reaper, for its own generation; after that it moves by its own steps.   *)
Orders(a) == /\ conf'[a].at = "check" /\ ~conf'[a].sure /\ conf'[a].rec # 0
             /\ \/ a = 0 /\ op'.at = "confirm" /\ conf'[0].rec = kill'
                     /\ (Judges \/ (kill' = kill /\ (AttachFails \/ BeginRetire)))
                \/ ReaperSees(a) /\ conf'[a].rec = a
Advances(a) == /\ conf[a].at # "idle" /\ conf'[a].rec = conf[a].rec /\ UNCHANGED op
               /\ \/ Check(a) /\ conf'[a].at = "kill" /\ (conf'[a].sure => conf[a].rec \notin must)
                  \/ KillReaches(a) /\ conf'[a].at = "wait"
                  \/ conf[a].at = "kill" /\ conf'[a].at = "rm" /\ conf[a].sure /\ conf'[a].sure
                  \/ conf'[a].at = "failed"
                  \/ Consumes(a) /\ conf'[a].at = "ok"

Leaves(a) == /\ conf'[a] = NoConfirm
             /\ (a # 0 /\ ReaperDone(a)) \/ SpawnTornDown \/ RetireConfirmed \/ Restart

LEMMA ConfMoves ==
  ASSUME IInv, Next, NEW a \in {0} \cup Gen
  PROVE  conf'[a] = conf[a] \/ Leaves(a) \/ Orders(a) \/ Advances(a)
<1> DEFINE moved == conf'[a] = conf[a] \/ Leaves(a) \/ Orders(a) \/ Advances(a)
<1>t. /\ conf \in [{0} \cup Gen -> Confirmation]
      /\ conf[a] \in Confirmation
      /\ Spawning => gen # 0
      /\ op \in Operation
  BY DEF IInv, Typed, Authority
<1>r. ASSUME NEW r, Confirm(r), a # 0 PROVE conf'[a] = conf[a]
  BY <1>r, <1>t DEF Confirm
<1>s. ASSUME NEW r, Confirm(r) PROVE conf'[0].at = "check" /\ conf'[0].rec = r /\ ~conf'[0].sure
  BY <1>s, <1>t DEF Confirm
<1>1. CASE LaunchFailed \/ LaunchTimesOut
  <2>1. CASE UNCHANGED conf  BY <2>1
  <2>2. CASE conf' # conf
    <3>1. At("spawn", "launch") /\ Confirm(gen) /\ kill' = gen /\ must' = must \cup {gen}
      BY <1>1, <2>2 DEF LaunchFailed, LaunchTimesOut, TimedOut
    <3>2. \E why : op' = [op EXCEPT !.at = "confirm", !.why = why]
      BY <1>1, <2>2 DEF LaunchFailed, LaunchTimesOut, TimedOut
    <3>3. op'.at = "confirm"  BY <3>2, <1>t DEF Operation
    <3>4. gen # 0  BY <3>1, <1>t DEF At, Spawning
    <3>5. Judges  BY <1>1, <3>1 DEF Judges
    <3> QED  BY <1>r, <1>s, <3>1, <3>3, <3>4, <3>5 DEF Orders
  <2> QED  BY <2>1, <2>2
<1>2. CASE AttachFails
  <2>1. CASE UNCHANGED conf  BY <2>1
  <2>2. CASE conf' # conf
    <3>1. kill # 0 /\ Confirm(kill) /\ kill' = kill
      BY <1>2, <2>2 DEF AttachFails
    <3>2. op' = [op EXCEPT !.at = "confirm", !.why = "attach"]  BY <1>2, <2>2 DEF AttachFails
    <3>3. op'.at = "confirm"  BY <3>2, <1>t DEF Operation
    <3> QED  BY <1>2, <1>r, <1>s, <3>1, <3>3 DEF Orders
  <2> QED  BY <2>1, <2>2
<1>3. CASE BeginRetire
  <2>1. CASE UNCHANGED conf  BY <2>1
  <2>2. CASE conf' # conf
    <3>1. kill # 0 /\ Confirm(kill) /\ kill' = kill /\ Goto("confirm")
      BY <1>3, <2>2 DEF BeginRetire, kills
    <3>3. op'.at = "confirm"  BY <3>1, <1>t DEF Goto, Operation
    <3> QED  BY <1>3, <1>r, <1>s, <3>1, <3>3 DEF Orders
  <2> QED  BY <2>1, <2>2
<1>4. CASE SpawnTornDown \/ RetireConfirmed \/ Restart
  BY <1>4, <1>t DEF SpawnTornDown, RetireConfirmed, Restart, Leaves
<1>5. ASSUME NEW b \in {0} \cup Gen,
             Check(b) \/ KillReaches(b) \/ KillMisses(b) \/ KillHangs(b) \/ Cleanup(b)
               \/ NodeGone(b) \/ NodeStays(b)
      PROVE  moved
  <2>1. CASE a # b
    <3>1. \E c : conf' = [conf EXCEPT ![b] = c]
      BY <1>5 DEF Check, KillReaches, KillMisses, KillHangs, Cleanup, NodeGone, NodeStays,
         KillRefused, KillConfirmed, KillFails, Became
    <3> QED  BY <2>1, <3>1, <1>t
  <2>2. CASE a = b
    <3>1. UNCHANGED op /\ conf[a].at # "idle"
      BY <1>5, <2>2 DEF Check, KillReaches, KillMisses, KillHangs, Cleanup, NodeGone, NodeStays, ops
    <3>2. ASSUME NEW place, Became(a, place)
          PROVE  conf'[a].rec = conf[a].rec /\ conf'[a].at = place /\ conf'[a].sure = conf[a].sure
      BY <3>2, <1>t DEF Became, Confirmation
    <3>3. CASE Check(a)
      <4>1. CASE Shortcut(conf[a].rec)
        BY <3>1, <3>2, <3>3, <4>1 DEF Check, KillConfirmed, Consumes, Advances
      <4>2. CASE ~Shortcut(conf[a].rec)
        <5>1. conf' = [conf EXCEPT ![a].at = "kill", ![a].sure = conf[a].rec \notin must]
          BY <3>3, <4>2 DEF Check
        <5>2. /\ conf'[a].rec = conf[a].rec /\ conf'[a].at = "kill"
              /\ conf'[a].sure = (conf[a].rec \notin must)
          BY <5>1, <1>t DEF Confirmation
        <5> QED  BY <3>1, <3>3, <5>2 DEF Advances
      <4> QED  BY <4>1, <4>2
    <3>4. CASE KillReaches(a)
      BY <3>1, <3>2, <3>4 DEF KillReaches, Advances
    <3>5. CASE KillMisses(a) \/ KillHangs(a)
      <4>1. conf[a].at = "kill" /\ KillRefused(a)  BY <3>5 DEF KillMisses, KillHangs
      <4> QED
        BY <3>1, <3>2, <3>5, <4>1 DEF KillRefused, KillConfirmed, Consumes, Advances
    <3>6. CASE Cleanup(a) \/ NodeGone(a) \/ NodeStays(a)
      BY <3>1, <3>2, <3>6 DEF Cleanup, NodeGone, NodeStays, KillFails, KillConfirmed, Consumes, Advances
    <3> QED  BY <1>5, <2>2, <3>3, <3>4, <3>5, <3>6
  <2> QED  BY <2>1, <2>2
<1>6. ASSUME NEW g \in Gen, ReaperSees(g) PROVE moved
  <2>1. conf' = [conf EXCEPT ![g] = [at |-> "check", rec |-> g, sure |-> FALSE]]
    BY <1>6 DEF ReaperSees
  <2>2. g # 0  BY BoundsAssumption DEF Gen
  <2> QED  BY <1>6, <2>1, <2>2, <1>t DEF Orders
<1>7. ASSUME NEW g \in Gen, ReaperDone(g) PROVE moved
  <2>1. conf' = [conf EXCEPT ![g] = NoConfirm]  BY <1>7 DEF ReaperDone
  <2>2. g # 0  BY BoundsAssumption DEF Gen
  <2> QED  BY <1>7, <2>1, <2>2, <1>t DEF Leaves
<1> QED  BY <1>1, <1>2, <1>3, <1>4, <1>5, <1>6, <1>7, ConfWriters

(* An operation leaves its kill only with the kill's answer, or with the   *)
(* daemon.                                                                 *)
LEMMA ConfirmEnds ==
  ASSUME IInv, Next, op.at = "confirm", op' # op
  PROVE  conf'[0] = NoConfirm
<1>t. conf \in [{0} \cup Gen -> Confirmation]  BY DEF IInv, Typed
<1>1. SpawnTornDown \/ RetireConfirmed \/ Restart
  BY OpWriters DEF Start, NoOp, SpawnRefused, Preflight, UnlinkStale, PreallocateRefused,
     Allocate, PrepareFails, Launch, LaunchReady, LaunchFailed, AttachOk, AttachFails,
     RetireRefused, Terminate, BeginRetire, ResetProbes, ResetRemoves, RestoreAttached,
     RestoreUnadopted, LaunchTimesOut, At
<1> QED  BY <1>1, <1>t DEF SpawnTornDown, RetireConfirmed, Restart

-----------------------------------------------------------------------------
(* The invariant is kept, part by part.                                    *)

(* The ledger only grows, by one generation at a time and for a spawn.     *)
LEMMA LedgerGrows ==
  ASSUME IInv, Next
  PROVE  /\ gen \in 0..MaxGen /\ gen' \in 0..MaxGen /\ gen <= gen'
         /\ gen' = gen \/ (Allocate /\ gen' = gen + 1)
         /\ UNCHANGED <<base, crowded>> \/ Launch \/ Restart
<1>1. gen \in 0..MaxGen /\ gen' \in 0..MaxGen  BY HostType DEF IInv, Typed, TypeOK
<1>2. gen' = gen \/ (Allocate /\ gen' = gen + 1)
  BY LedgerWriters DEF Allocate, Launch, Restart
<1>3. UNCHANGED <<base, crowded>> \/ Launch \/ Restart
  BY LedgerWriters DEF Allocate, past
<1> QED  BY <1>1, <1>2, <1>3, BoundsAssumption

(* What type correctness says of the numbers.                              *)
LEMMA Numbers ==
  ASSUME IInv
  PROVE  /\ MaxGen \in Nat /\ gen \in Nat /\ gen <= MaxGen
         /\ base \in Nat /\ base <= gen
         /\ kill \in Nat /\ node \in Nat /\ link \in Nat
         /\ 0 \notin Gen /\ Gen \subseteq Nat /\ reapers \subseteq Gen
         /\ \A g \in Nat : g # 0 /\ g <= gen => g \in Gen
         /\ \A a \in {0} \cup Gen : conf[a].rec \in Nat /\ conf[a] \in Confirmation
<1>1. MaxGen \in Nat /\ 0..MaxGen \subseteq Nat  BY BoundsAssumption
<1>2. /\ gen \in 0..MaxGen /\ base \in 0..gen /\ kill \in 0..MaxGen /\ node \in 0..MaxGen
      /\ link \in 0..MaxGen /\ reapers \subseteq Gen
  BY DEF IInv, Typed, TypeOK
<1>3. \A a \in {0} \cup Gen : conf[a] \in Confirmation  BY DEF IInv, Typed
<1>4. \A a \in {0} \cup Gen : conf[a].rec \in 0..MaxGen  BY <1>3 DEF Confirmation
<1>5. 0 \notin Gen /\ Gen \subseteq Nat  BY <1>1 DEF Gen
<1>6. \A g \in Nat : g # 0 /\ g <= gen => g \in Gen  BY <1>1, <1>2 DEF Gen
<1>7. gen \in Nat /\ gen <= MaxGen /\ base \in Nat /\ base <= gen  BY <1>1, <1>2
<1>8. kill \in Nat /\ node \in Nat /\ link \in Nat  BY <1>1, <1>2
<1>9. \A a \in {0} \cup Gen : conf[a].rec \in Nat /\ conf[a] \in Confirmation
  BY <1>1, <1>3, <1>4
<1> QED  BY <1>1, <1>2, <1>5, <1>6, <1>7, <1>8, <1>9

(* Where a spawn or the restore is after a step.                           *)
LEMMA PlacesAfter ==
  ASSUME IInv, Next
  PROVE  /\ At("spawn", "prepare")' => Allocate \/ (UNCHANGED op /\ gen' = gen)
         /\ At("spawn", "launch")' => Launch \/ (UNCHANGED op /\ gen' = gen)
         /\ At("spawn", "unlink")' => Preflight \/ UNCHANGED op
         /\ Spawning' => Allocate \/ (Spawning /\ gen' = gen)
         /\ op'.kind = "spawn" /\ op'.at # "start" =>
              Preflight \/ (op.kind = "spawn" /\ op.at # "start")
         /\ op'.kind = "spawn" /\ op'.at \in {"alloc", "unlink"} =>
              Preflight \/ (op.kind = "spawn" /\ op.at \in {"alloc", "unlink"})
         /\ op'.kind = "exact" /\ op'.at # "start" =>
              Terminate \/ (op.kind = "exact" /\ op.at # "start" /\ op'.gen = op.gen)
         /\ op'.kind = "restore" => Restart \/ UNCHANGED op
         /\ Retiring' /\ op'.at = "confirm" => BeginRetire \/ UNCHANGED op
<1>1. Allocate => At("spawn", "alloc") /\ SpawnMoves
  <2>1. ASSUME Allocate PROVE SpawnMoves
    <3>1. op' = [op EXCEPT !.at = "prepare", !.gen = gen'] /\ At("spawn", "alloc")
      BY <2>1 DEF Allocate
    <3>2. op \in Operation  BY DEF IInv, Typed
    <3>3. op'.kind = op.kind /\ op'.at = "prepare"  BY <3>1, <3>2 DEF Operation
    <3> QED  BY <2>1, <3>1, <3>3 DEF SpawnMoves, At
  <2> QED  BY <2>1 DEF Allocate
<1>2. Start => Head(queue).kind \in Kinds
  <2>1. queue \in Seq(Queued)  BY DEF IInv, Typed
  <2>2. Start => Head(queue) \in Queued  BY <2>1 DEF Start
  <2> QED  BY <2>2 DEF Queued
<1>3. gen' = gen \/ Allocate  BY LedgerGrows
<1> QED
  BY <1>1, <1>2, <1>3, OpMoves
     DEF At, Spawning, Retiring, SpawnMoves, RetireMoves, NoOp, Kinds

(* A restarted daemon is not spawning. *)
LEMMA RestartSpawnsNothing ==
  ASSUME Restart
  PROVE  op'.kind # "spawn"
<1>1. CASE node # 0 /\ gen # 0
  <2>1. op' = [NoOp EXCEPT !.kind = "restore", !.gen = gen, !.at = "attach"]
    BY <1>1 DEF Restart
  <2> QED  BY <2>1 DEF NoOp
<1>2. CASE ~(node # 0 /\ gen # 0)
  <2>1. op' = NoOp  BY <1>2 DEF Restart
  <2> QED  BY <2>1 DEF NoOp
<1> QED  BY <1>1, <1>2

LEMMA UnbornStep ==
  ASSUME IInv, Next
  PROVE  Unborn'
<1>t. /\ Unborn /\ gen \in 0..MaxGen /\ gen' \in 0..MaxGen /\ gen <= gen'
      /\ gen' = gen \/ (Allocate /\ gen' = gen + 1)
      /\ hold' \in [Gen -> Fate] /\ Gen \subseteq Nat /\ MaxGen \in Nat
      /\ \A a \in {0} \cup Gen : conf[a].rec \in 0..MaxGen
      /\ kill \in 0..MaxGen /\ reapers \subseteq Gen
      /\ 0..MaxGen \subseteq Nat
  <2>1. /\ Unborn /\ hold' \in [Gen -> Fate] /\ Gen \subseteq Nat /\ MaxGen \in Nat
        /\ 0..MaxGen \subseteq Nat
    BY HostType, BoundsAssumption DEF IInv, Gen
  <2>2. /\ \A a \in {0} \cup Gen : conf[a].rec \in 0..MaxGen
        /\ kill \in 0..MaxGen /\ reapers \subseteq Gen
    BY DEF IInv, Typed, TypeOK
  <2> QED  BY <2>1, <2>2, LedgerGrows
<1>n. /\ gen \in Nat /\ gen' \in Nat /\ kill \in Nat /\ reapers \subseteq Nat
      /\ \A a \in {0} \cup Gen : conf[a].rec \in Nat
  BY <1>t
<1>1. ASSUME NEW g \in Gen, g > gen' PROVE hold'[g] = "none"
  <2>1. g > gen  BY <1>1, <1>t
  <2>2. hold[g] = "none"  BY <2>1, <1>t DEF Unborn
  <2>3. g # gen  BY <2>1, <1>t
  <2> QED  BY <2>2, <2>3, HoldersAdvance DEF Advance
<1>2. ASSUME At("spawn", "prepare")' PROVE hold'[gen'] = "none"
  <2>1. CASE Allocate
    <3>1. gen' = gen + 1 /\ gen' \in Gen /\ hold' = hold
      BY <2>1, <1>t DEF Allocate, host, Gen
    <3> QED  BY <3>1, <1>t DEF Unborn
  <2>2. CASE UNCHANGED op /\ gen' = gen
    <3>1. At("spawn", "prepare")  BY <1>2, <2>2 DEF At
    <3>2. hold[gen] = "none"  BY <3>1, <1>t DEF Unborn
    <3>3. gen \in Gen  BY <3>1, <1>t DEF IInv, Authority, At, Spawning, Gen
    <3>4. ~Launch
      <4>1. ASSUME Launch PROVE FALSE
        <5>1. op' = [op EXCEPT !.at = "launch"]  BY <4>1 DEF Launch, Goto
        <5>2. op'.at = "launch"  BY <5>1 DEF IInv, Typed, Operation
        <5> QED  BY <5>2, <2>2, <3>1 DEF At
      <4> QED  BY <4>1
    <3> QED  BY <2>2, <3>2, <3>3, <3>4, HoldersAdvance DEF Advance
  <2> QED  BY <1>2, <2>1, <2>2, PlacesAfter
<1>3. kill' <= gen'
  <2>1. kill' \in {kill, gen, 0}
    BY KillMoves DEF Judges, Consumes, Consumed
  <2> QED  BY <2>1, <1>t DEF Unborn
<1>4. ASSUME NEW a \in {0} \cup Gen PROVE conf'[a].rec <= gen'
  <2>1. CASE conf'[a] = conf[a] \/ Advances(a)
    <3>1. conf'[a].rec = conf[a].rec  BY <2>1 DEF Advances
    <3> QED  BY <3>1, <1>n, <1>t DEF Unborn
  <2>2. CASE Leaves(a)  BY <2>2, <1>n DEF Leaves, NoConfirm
  <2>3. CASE Orders(a)
    <3>1. CASE ReaperSees(a) /\ conf'[a].rec = a
      BY <3>1, <1>t DEF ReaperSees, Unborn
    <3>2. CASE a = 0 /\ conf'[0].rec = kill'  BY <1>3, <3>2
    <3> QED  BY <2>3, <3>1, <3>2 DEF Orders
  <2> QED  BY <2>1, <2>2, <2>3, ConfMoves
<1>5. ASSUME NEW g \in reapers' PROVE g <= gen'
  <2>1. g \in reapers \/ g = gen
    <3>1. CASE SpawnTornDown  BY <1>5, <3>1 DEF SpawnTornDown
    <3>2. CASE Restart  BY <1>5, <3>2 DEF Restart
    <3>3. ASSUME NEW a \in Gen, ReaperStops(a) \/ ReaperSees(a)
          PROVE  g \in reapers
      BY <1>5, <3>3 DEF ReaperStops, ReaperSees
    <3> QED  BY <1>5, <3>1, <3>2, <3>3, ReaperWriters
  <2>2. CASE g \in reapers  BY <2>2, <1>n, <1>t DEF Unborn
  <2>3. CASE g = gen  BY <2>3, <1>t
  <2> QED  BY <2>1, <2>2, <2>3
<1> QED  BY <1>1, <1>2, <1>3, <1>4, <1>5 DEF Unborn

LEMMA AuthorityStep ==
  ASSUME IInv, Next
  PROVE  Authority' /\ LinkIsOwned'
<1>t. /\ Authority /\ LinkIsOwned
      /\ gen \in Nat /\ gen' \in Nat /\ gen <= gen' /\ link \in Nat
      /\ gen' = gen \/ (Allocate /\ gen' = gen + 1)
      /\ Unborn
  <2>1. 0..MaxGen \subseteq Nat  BY BoundsAssumption
  <2> QED  BY <2>1, LedgerGrows DEF IInv, Typed, TypeOK
<1>a. Allocate => op.kind = "spawn" /\ op.at = "alloc" /\ gen' = gen + 1
  BY DEF Allocate, At
<1>b. Restart => gen' = gen  BY DEF Restart
<1>c. ~Allocate => gen' = gen  BY <1>t
<1>d. ~(Restart /\ Allocate)  BY <1>a, <1>b, <1>t
<1>1. /\ sess'.gen \in {0, gen'}
      /\ sess'.live => sess'.gen = gen' /\ gen' # 0
  <2>1. CASE Allocate
    <3>1. sess'.gen = gen'  BY <2>1 DEF Allocate
    <3> QED  BY <1>a, <1>t, <2>1, <3>1
  <2>2. CASE ~Allocate
    BY <1>t, <1>c, <2>2, CoreMoves DEF Authority, SameSession, Adopts, core
  <2> QED  BY <2>1, <2>2
<1>2. ASSUME sess'.gen = 0 PROVE kill' = 0
  <2>1. CASE Allocate
    BY <1>2, <1>a, <1>t, <2>1 DEF Allocate
  <2>2. CASE Restart
    BY <1>2, <1>d, <2>2 DEF Restart
  <2>3. CASE ~Allocate /\ ~Restart
    <3>1. sess.gen = 0
      BY <1>2, <2>3, CoreMoves DEF SameSession, Adopts, core
    <3>2. kill = 0  BY <1>t, <3>1 DEF Authority
    <3>3. ~Judges  BY <1>t, <3>1 DEF Authority, Judges, At, Spawning
    <3> QED  BY <2>3, <3>2, <3>3, KillMoves DEF Consumes, Consumed
  <2> QED  BY <2>1, <2>2, <2>3
<1>3. ASSUME Spawning' PROVE sess'.gen = gen' /\ gen' # 0
  <2>1. CASE Allocate
    BY <1>a, <1>t, <2>1 DEF Allocate
  <2>2. CASE Spawning /\ gen' = gen
    <3>1. ~Allocate  BY <1>a, <1>t, <2>2
    <3>2. ~Restart
      <4>1. op'.kind = "spawn"  BY <1>3 DEF Spawning
      <4> QED  BY <4>1, RestartSpawnsNothing
    <3>3. sess.gen = gen /\ gen # 0  BY <1>t, <2>2 DEF Authority
    <3>4. sess'.gen = sess.gen
      BY <3>1, <3>2, <3>3, CoreMoves DEF SameSession, Adopts, core
    <3> QED  BY <2>2, <3>3, <3>4
  <2> QED  BY <1>3, <2>1, <2>2, PlacesAfter
<1>4. ASSUME op'.kind = "spawn", op'.at # "start" PROVE link' = 0 /\ slot' = NoSlot
  <2>n. op' # NoOp /\ ~AttachOk /\ ~RestoreAttached /\ ~RestoreUnadopted
    BY <1>4 DEF NoOp, AttachOk, RestoreAttached, RestoreUnadopted, Finish
  <2>1. CASE Preflight
    <3>1. ~sess.live /\ slot = NoSlot /\ UNCHANGED <<link, slot>>
      BY <2>1 DEF Preflight, core, recovery
    <3> QED  BY <3>1, <1>t DEF LinkIsOwned
  <2>2. CASE op.kind = "spawn" /\ op.at # "start"
    <3>1. link = 0 /\ slot = NoSlot  BY <1>t, <2>2 DEF Authority
    <3>2. ~LinkDrops  BY <3>1 DEF LinkDrops
    <3>3. slot' = NoSlot  BY <2>n, <3>1, <3>2, SlotMoves
    <3>4. \A t \in attempts : ~ReattachOk(t)
      BY <1>t, <3>1 DEF ReattachOk, Current, Authority, NoSlot
    <3>5. link' = 0  BY <2>n, <3>1, <3>4, CoreMoves DEF core
    <3> QED  BY <3>3, <3>5
  <2> QED  BY <1>4, <2>1, <2>2, PlacesAfter
<1>5. ASSUME op'.kind = "spawn", op'.at \in {"alloc", "unlink"} PROVE ~sess'.live
  <2>1. CASE Preflight  BY <2>1 DEF Preflight, core
  <2>2. CASE op.kind = "spawn" /\ op.at \in {"alloc", "unlink"}
    <3>1. ~sess.live  BY <1>t, <2>2 DEF Authority
    <3>2. ~Restart
      <4>1. op'.kind = "spawn"  BY <1>5
      <4> QED  BY <4>1, RestartSpawnsNothing
    <3>3. ~Allocate
      <4>1. ASSUME Allocate PROVE FALSE
        <5>1. op' = [op EXCEPT !.at = "prepare", !.gen = gen']  BY <4>1 DEF Allocate
        <5>2. op'.at = "prepare"  BY <5>1 DEF IInv, Typed, Operation
        <5> QED  BY <1>5, <5>2
      <4> QED  BY <4>1
    <3>4. sess'.live = sess.live \/ SameSession \/ Adopts
      BY <3>2, <3>3, CoreMoves DEF core
    <3> QED  BY <3>1, <3>4 DEF SameSession, Adopts
  <2> QED  BY <1>5, <2>1, <2>2, PlacesAfter
<1>6. \A t \in attempts' : t.s.ep # 0  BY SlotMoves
<1>7. ASSUME op'.kind = "exact", op'.at # "start" PROVE op'.gen = gen'
  <2>1. CASE Terminate
    <3>1. op'.gen = op.gen /\ op'.kind = op.kind
      <4>1. op' = [op EXCEPT !.at = "begin"]  BY <2>1 DEF Terminate, Goto
      <4> QED  BY <4>1 DEF IInv, Typed, Operation
    <3>2. Addressed # 0 /\ Addressed = op.gen /\ gen' = gen
      BY <1>7, <2>1, <3>1 DEF Terminate, Fenced
    <3> QED  BY <1>t, <3>1, <3>2 DEF Addressed, Authority
  <2>2. CASE op.kind = "exact" /\ op.at # "start" /\ op'.gen = op.gen
    BY <1>a, <1>c, <1>t, <2>2 DEF Authority
  <2> QED  BY <1>7, <2>1, <2>2, PlacesAfter
<1>8. ASSUME op'.kind = "restore" PROVE base' = gen' /\ op'.at = "attach" /\ sess'.gen = gen'
  <2>1. CASE Restart
    BY <1>8, <2>1 DEF Restart, NoOp
  <2>2. CASE UNCHANGED op /\ ~Restart
    <3>1. ~Allocate /\ ~Launch
      BY <1>8, <2>2 DEF Allocate, Launch, At
    <3>2. base' = base /\ gen' = gen  BY <3>1, <2>2, <1>c, LedgerGrows
    <3>3. base = gen /\ op.at = "attach" /\ sess.gen = gen
      BY <1>t, <1>8, <2>2 DEF Authority
    <3> QED  BY <2>2, <3>1, <3>2, <3>3, CoreMoves DEF SameSession, Adopts, core
  <2> QED  BY <1>8, <2>1, <2>2, PlacesAfter
<1>9. LinkIsOwned'
  <2>1. CASE Allocate
    <3>1. link = 0  BY <1>a, <1>t, <2>1 DEF Authority
    <3>2. link' = link  BY <2>1 DEF Allocate
    <3> QED  BY <3>1, <3>2 DEF LinkIsOwned
  <2>2. CASE Spawning /\ link' = link
    BY <1>t, <2>2 DEF Authority, Spawning, LinkIsOwned
  <2> QED
    BY <1>t, <2>1, <2>2, CoreMoves DEF LinkIsOwned, Adopts, core
<1> QED
  BY <1>1, <1>2, <1>3, <1>4, <1>5, <1>6, <1>7, <1>8, <1>9 DEF Authority

LEMMA NodeStep ==
  ASSUME IInv, Next
  PROVE  NodeHeld'
<1>t. /\ NodeHeld /\ op \in Operation /\ hold \in [Gen -> Fate] /\ node \in 0..MaxGen
      /\ node # 0 => node \in Gen
      /\ At("spawn", "prepare") => hold[gen] = "none"
  BY BoundsAssumption DEF IInv, Typed, TypeOK, Unborn, Gen
<1>1. ASSUME NEW g \in Gen, hold[g] \in {"live", "stopping", "gone"}
      PROVE  hold'[g] \in {"live", "stopping", "gone"} /\ (hold[g] = "gone" => hold'[g] = "gone")
  BY <1>1, HoldersAdvance DEF Advance
<1>2. ASSUME node' # 0 PROVE hold'[node'] \in {"live", "stopping", "gone"}
  <2>1. CASE node' = node
    BY <1>1, <1>2, <1>t, <2>1 DEF NodeHeld
  <2>2. CASE node' # node
    <3>1. PICK g \in Gen : Publishes(g)
      BY <1>2, <2>2, NodeWriters DEF UnlinkStale, ResetRemoves, Cleanup, KillFails, HolderEnds
    <3> QED  BY <3>1, <1>t DEF Publishes, Become
  <2> QED  BY <2>1, <2>2
<1>3. ASSUME At("spawn", "unlink")' PROVE op'.node # 0 /\ hold'[op'.node] = "gone"
  <2>1. CASE Preflight
    <3>1. CASE Listening
      BY <1>3, <2>1, <3>1 DEF Preflight, Finish, NoOp, At
    <3>2. CASE ~Listening
      <4>1. op' = [op EXCEPT !.at = IF node = 0 THEN "alloc" ELSE "unlink", !.node = node]
        BY <2>1, <3>2 DEF Preflight
      <4>2. op'.node = node /\ op'.at = IF node = 0 THEN "alloc" ELSE "unlink"
        BY <4>1, <1>t DEF Operation
      <4>3. node # 0  BY <1>3, <4>2 DEF At
      <4>4. hold[node] = "gone"  BY <1>t, <3>2, <4>3 DEF NodeHeld, Listening
      <4>5. hold' = hold  BY <2>1 DEF Preflight, host
      <4> QED  BY <4>2, <4>3, <4>4, <4>5
    <3> QED  BY <3>1, <3>2
  <2>2. CASE UNCHANGED op
    <3>1. op.node # 0 /\ hold[op.node] = "gone"
      BY <1>3, <1>t, <2>2 DEF NodeHeld, At
    <3>2. op.node \in Gen  BY <1>t, <3>1, BoundsAssumption DEF Operation, Gen
    <3> QED  BY <1>1, <2>2, <3>1, <3>2
  <2> QED  BY <1>3, <2>1, <2>2, PlacesAfter
<1> QED  BY <1>2, <1>3 DEF NodeHeld

LEMMA KillingStep ==
  ASSUME IInv, Next
  PROVE  Killing'
<1>t. /\ Killing /\ Unborn /\ Authority
      /\ gen \in Nat /\ kill \in Nat /\ reapers \subseteq Nat /\ 0 \notin Gen
  BY Numbers DEF IInv
<1>c. \A a \in {0} \cup Gen : conf[a].rec \in Nat
  BY Numbers
<1>a. Allocate => gen' = gen + 1 /\ UNCHANGED <<kill, conf, reapers>>
  BY DEF Allocate, kills
<1>1. ASSUME NEW a \in {0} \cup Gen
      PROVE  /\ conf'[a].at # "idle" => conf'[a].rec # 0
             /\ conf'[a].at = "idle" => conf'[a].rec = 0
             /\ conf'[a].at = "rm" => conf'[a].sure
  BY <1>t, ConfMoves DEF Killing, NoConfirm, Orders, Advances, Leaves
<1>2. ASSUME conf'[0].at # "idle" PROVE op'.at = "confirm"
  <2>1. CASE op.at = "confirm"
    BY <1>2, <2>1, ConfirmEnds DEF NoConfirm
  <2>2. CASE op.at # "confirm"
    BY <1>2, <2>2, <1>t, ConfMoves DEF Killing, NoConfirm, Orders, Advances, Leaves, ReaperSees
  <2> QED  BY <2>1, <2>2
<1>3. ASSUME At("spawn", "prepare")' \/ At("spawn", "launch")'
      PROVE  /\ kill' # gen' /\ gen' \notin reapers'
             /\ \A a \in {0} \cup Gen : conf'[a].rec # gen'
  <2>1. CASE Allocate
    <3>1. kill < gen' /\ \A g \in reapers : g < gen'  BY <1>a, <1>t, <2>1 DEF Unborn
    <3>2. ASSUME NEW a \in {0} \cup Gen PROVE conf'[a].rec # gen'
      <4>1. conf[a].rec \in Nat /\ conf[a].rec <= gen  BY <1>t, <1>c DEF Unborn
      <4> QED  BY <1>a, <1>t, <2>1, <4>1
    <3> QED  BY <1>a, <1>t, <2>1, <3>1, <3>2
  <2>2. CASE Launch
    <3>1. At("spawn", "prepare") /\ UNCHANGED <<gen, kill, conf, reapers>>
      BY <2>2 DEF Launch, kills
    <3> QED  BY <3>1, <1>t DEF Killing
  <2>3. CASE UNCHANGED op /\ gen' = gen
    <3>1. (At("spawn", "prepare") \/ At("spawn", "launch")) /\ op'.at # "confirm" /\ op'.kind = "spawn"
      BY <1>3, <2>3 DEF At
    <3>2. kill # gen /\ gen \notin reapers /\ \A a \in {0} \cup Gen : conf[a].rec # gen
      BY <3>1, <1>t DEF Killing
    <3>3. gen # 0  BY <3>1, <1>t DEF At, Authority, Spawning
    <3>4. ~Restart
      <4>1. Restart => op'.kind \in {"none", "restore"}  BY DEF Restart, NoOp
      <4> QED  BY <3>1, <4>1
    <3>5. ~Judges
      <4>1. ASSUME Judges PROVE FALSE
        <5>1. (LaunchReady \/ LaunchFailed \/ LaunchTimesOut) /\ op.at = "launch"
          BY <4>1 DEF Judges, At
        <5>2. \/ op' = [op EXCEPT !.at = "attach"] \/ op' = NoOp
              \/ \E why : op' = [op EXCEPT !.at = "confirm", !.why = why]
          BY <5>1 DEF LaunchReady, LaunchFailed, LaunchTimesOut, Goto, Finish
        <5>3. ASSUME NEW why PROVE /\ [op EXCEPT !.at = "confirm", !.why = why].at = "confirm"
                                   /\ [op EXCEPT !.at = "attach"].at = "attach"
                                   /\ NoOp.at = "idle"
          BY DEF IInv, Typed, Operation, NoOp
        <5> QED  BY <5>1, <5>2, <5>3, <2>3
      <4> QED  BY <4>1
    <3>6. kill' # gen
      BY <3>2, <3>3, <3>4, <3>5, KillMoves DEF Consumes, Consumed
    <3>7. reapers' \subseteq reapers
      BY <3>1, <3>4, ReaperWriters DEF SpawnTornDown, ReaperStops, ReaperSees, At
    <3>8. ASSUME NEW a \in {0} \cup Gen PROVE conf'[a].rec # gen
      <4>1. CASE conf'[a] = conf[a] \/ Advances(a)  BY <3>2, <4>1 DEF Advances
      <4>2. CASE Leaves(a)
        <5>1. conf'[a].rec = 0  BY <4>2 DEF Leaves, NoConfirm
        <5> QED  BY <3>3, <5>1
      <4>3. CASE Orders(a)
        <5>1. ReaperSees(a) /\ conf'[a].rec = a  BY <3>1, <4>3 DEF Orders
        <5> QED  BY <3>2, <5>1 DEF ReaperSees
      <4> QED  BY <4>1, <4>2, <4>3, ConfMoves
    <3> QED  BY <2>3, <3>2, <3>6, <3>7, <3>8
  <2> QED  BY <1>3, <2>1, <2>2, <2>3, PlacesAfter
<1>4. ASSUME Retiring', op'.at = "confirm" PROVE kill' \in {0, conf'[0].rec}
  <2>1. CASE BeginRetire
    <3>1. op' # NoOp /\ ~Goto("path")
      BY <1>4 DEF NoOp, Goto, IInv, Typed, Operation
    <3>2. Confirm(kill) /\ kill' = kill
      BY <2>1, <3>1 DEF BeginRetire, Finish, kills
    <3>3. conf'[0].rec = kill  BY <3>2 DEF Confirm, IInv, Typed
    <3> QED  BY <3>2, <3>3
  <2>2. CASE UNCHANGED op
    <3>1. Retiring /\ op.at = "confirm" /\ op.kind # "spawn"
      BY <1>4, <2>2 DEF Retiring
    <3>2. kill \in {0, conf[0].rec}  BY <3>1, <1>t DEF Killing
    <3>3. ~Restart
      BY <3>1, <2>2 DEF Restart, NoOp, Retiring
    <3>4. kill' \in {0, kill}
      BY <3>1, <3>3, KillMoves DEF Judges, At, Consumes, Consumed
    <3>5. ~RetireConfirmed
      <4>1. ASSUME RetireConfirmed PROVE FALSE
        <5>1. op' = NoOp \/ op' = [op EXCEPT !.at = "path"]
          BY <4>1 DEF RetireConfirmed, Goto, Finish
        <5>2. op \in Operation  BY DEF IInv, Typed
        <5>3. op'.at # "confirm"  BY <5>1, <5>2 DEF Operation, NoOp
        <5> QED  BY <1>4, <5>3
      <4> QED  BY <4>1
    <3>6. ~Leaves(0)
      <4>1. ~SpawnTornDown  BY <3>1 DEF SpawnTornDown, At
      <4> QED  BY <3>3, <3>5, <4>1 DEF Leaves
    <3>7. ~Orders(0)
      BY <3>1, <1>t DEF Orders, Judges, AttachFails, BeginRetire, ReaperSees, At, IInv, Typed, TypeOK
    <3>8. conf'[0].rec = conf[0].rec  BY <3>6, <3>7, ConfMoves DEF Advances
    <3> QED  BY <3>2, <3>4, <3>8
  <2> QED  BY <1>4, <2>1, <2>2, PlacesAfter
<1> QED  BY <1>1, <1>2, <1>3, <1>4 DEF Killing

LEMMA UncertainStep ==
  ASSUME IInv, Next
  PROVE  Uncertain'
<1>t. /\ Uncertain /\ Killing /\ Unborn /\ Authority
      /\ gen \in Nat /\ gen' \in Nat /\ gen <= gen' /\ base \in 0..gen /\ base' \in 0..gen'
      /\ gen' \in 0..MaxGen /\ MaxGen \in Nat
      /\ gen' = gen \/ (Allocate /\ gen' = gen + 1)
      /\ \A a \in {0} \cup Gen : conf[a].rec \in Nat
      /\ UNCHANGED <<base, crowded>> \/ Launch \/ Restart
  BY LedgerGrows, HostType, BoundsAssumption DEF IInv, Typed, TypeOK
<1>1. CASE Restart
  <2>1. base' = gen' /\ gen' = gen /\ \A a \in {0} \cup Gen : conf'[a] = NoConfirm
    BY <1>1 DEF Restart
  <2>2. \A g \in base' + 1 .. gen' : FALSE  BY <2>1, <1>t
  <2>3. \A a \in {0} \cup Gen : conf'[a].at = "idle"  BY <2>1 DEF NoConfirm
  <2> QED  BY <2>2, <2>3 DEF Uncertain
<1>2. CASE ~Restart
  <2>b. base' = base  BY <1>2, <1>t DEF Launch
  <2>1. ASSUME NEW g \in base' + 1 .. gen', hold'[g] \in Coming
        PROVE  (At("spawn", "launch")' /\ g = gen') \/ g \in must'
    <3>g. g \in Gen  BY <1>t, <2>b DEF Gen
    <3>1. CASE hold[g] \in Coming
      <4>1. g <= gen
        <5>1. hold[g] # "none"  BY <3>1 DEF Coming
        <5> QED  BY <3>g, <5>1, <1>t DEF Unborn, Gen
      <4>2. (At("spawn", "launch") /\ g = gen) \/ g \in must
        BY <2>b, <3>1, <4>1, <1>t DEF Uncertain
      <4>3. CASE g \in must
        <5>1. CASE Judges /\ must' = must \ {gen} /\ LaunchReady
          <6>1. UNCHANGED hold /\ hold[gen] \in {"live", "stopping", "gone"}
            BY <5>1 DEF LaunchReady, host
          <6> QED  BY <2>1, <4>3, <5>1, <6>1 DEF Coming
        <5>2. CASE ~(Judges /\ must' = must \ {gen} /\ LaunchReady)
          BY <1>2, <4>3, <5>2, KillMoves DEF Judges, Consumes
        <5> QED  BY <5>1, <5>2
      <4>4. CASE At("spawn", "launch") /\ g = gen
        <5>1. CASE UNCHANGED op
          <6>1. ~Allocate  BY <4>4 DEF Allocate, At
          <6> QED  BY <4>4, <5>1, <6>1, <1>t DEF At
        <5>2. CASE op' # op
          <6>1. LaunchReady \/ LaunchFailed \/ LaunchTimesOut
            BY <1>2, <4>4, <5>2, OpWriters DEF At, Start, NoOp, SpawnRefused, Preflight, UnlinkStale,
               PreallocateRefused, Allocate, PrepareFails, Launch, AttachOk, AttachFails, SpawnTornDown,
               RetireRefused, Terminate, BeginRetire, RetireConfirmed, ResetProbes, ResetRemoves,
               RestoreAttached, RestoreUnadopted, Retiring
          <6>2. CASE LaunchReady
            BY <2>1, <4>4, <6>2 DEF LaunchReady, host, Coming
          <6>3. CASE LaunchFailed
            <7>1. hold' = [hold EXCEPT ![gen] = IF @ = "gone" THEN @ ELSE "aborted"]
              BY <6>3 DEF LaunchFailed
            <7>2. hold'[gen] \notin Coming  BY <7>1, <3>g, <4>4 DEF IInv, Typed, TypeOK, Coming
            <7> QED  BY <2>1, <4>4, <7>2
          <6>4. CASE LaunchTimesOut
            BY <4>4, <6>4 DEF LaunchTimesOut, TimedOut
          <6> QED  BY <6>1, <6>2, <6>3, <6>4
        <5> QED  BY <5>1, <5>2
      <4> QED  BY <4>2, <4>3, <4>4
    <3>2. CASE hold[g] \notin Coming
      <4>1. Launch /\ g = gen
        BY <2>1, <3>g, <3>2, HoldersAdvance DEF Advance, Coming
      <4>2. op' = [op EXCEPT !.at = "launch"] /\ op.kind = "spawn" /\ gen' = gen
        BY <4>1 DEF Launch, Goto, At
      <4>3. op'.at = "launch" /\ op'.kind = "spawn"  BY <4>2 DEF IInv, Typed, Operation
      <4> QED  BY <4>1, <4>2, <4>3 DEF At
    <3> QED  BY <3>1, <3>2
  <2>2. ASSUME NEW a \in {0} \cup Gen, conf'[a].at \in {"kill", "rm"}, conf'[a].sure,
               conf'[a].rec > base'
        PROVE  hold'[conf'[a].rec] \notin Coming
    <3>1. ~Orders(a) /\ ~Leaves(a)  BY <2>2 DEF Orders, Leaves, NoConfirm
    <3>2. conf'[a].rec = conf[a].rec /\ conf[a].at # "idle"
      BY <2>2, <3>1, ConfMoves DEF Advances
    <3> DEFINE r == conf[a].rec
    <3>3. r \in Gen /\ r <= gen /\ r \in base + 1 .. gen /\ r \in Nat
      <4>1. r # 0 /\ r <= gen /\ r \in Nat /\ r > base
        BY <1>t, <2>2, <2>b, <3>2 DEF Killing, Unborn
      <4>2. r \in 0..MaxGen  BY DEF IInv, Typed, TypeOK
      <4> QED  BY <4>1, <4>2, <1>t DEF Gen
    <3>4. hold[r] \notin Coming
      <4>1. CASE conf'[a] = conf[a]
        BY <2>2, <3>3, <4>1, <1>t DEF Uncertain
      <4>2. CASE Advances(a) /\ ~Check(a)
        <5>1. conf[a].at = "kill" /\ conf[a].sure  BY <2>2, <4>2 DEF Advances
        <5> QED  BY <3>3, <5>1, <1>t DEF Uncertain
      <4>3. CASE Advances(a) /\ Check(a)
        <5>1. conf[a].at = "check"  BY <4>3 DEF Check
        <5>2. r \notin must  BY <2>2, <4>3, <5>1 DEF Advances
        <5>3. ~(At("spawn", "launch") /\ r = gen)  BY <1>t DEF Killing
        <5> QED  BY <3>3, <5>2, <5>3, <1>t DEF Uncertain
      <4> QED  BY <3>1, <4>1, <4>2, <4>3, ConfMoves
    <3>5. ~(Launch /\ r = gen)
      BY <1>t DEF Launch, Killing
    <3> QED  BY <3>2, <3>3, <3>4, <3>5, HoldersAdvance DEF Advance, Coming
  <2> QED  BY <2>1, <2>2 DEF Uncertain
<1> QED  BY <1>1, <1>2

-----------------------------------------------------------------------------
(* While no launch began beside an older holder, the one that this daemon  *)
(* launched is alone.                                                      *)

(* Running only shrinks, but for the holder that a launch starts; and such *)
(* a launch is alone, or the history is crowded.                           *)
LEMMA RunningShrinks ==
  ASSUME IInv, Next, NEW g \in Running'
  PROVE  /\ ~Restart
         /\ g \in Gen /\ base' = base
         /\ \/ g \in Running
            \/ Launch /\ g = gen /\ gen' = gen /\ hold'[g] = "launching"
<1>t. /\ gen' \in Nat /\ gen' <= MaxGen /\ MaxGen \in Nat /\ base' \in Nat
      /\ gen \in Nat /\ base \in Nat
      /\ Unborn
  BY Numbers, LedgerGrows, HostType, BoundsAssumption DEF IInv
<1>1. /\ g \in base' + 1 .. gen' /\ hold'[g] \in MayRun
      /\ g \in Nat /\ base' < g /\ g <= gen' /\ g # 0
  <2>1. g \in base' + 1 .. gen' /\ hold'[g] \in MayRun  BY DEF Running
  <2>2. base' \in Nat /\ gen' \in Nat  BY <1>t
  <2>3. ASSUME NEW b \in Nat, NEW n \in Nat, NEW x \in b + 1 .. n
        PROVE  x \in Nat /\ b < x /\ x <= n /\ x # 0
    OBVIOUS
  <2> QED  BY <2>1, <2>2, <2>3
<1>2. ~Restart
  <2>1. Restart => base' = gen /\ gen' = gen  BY DEF Restart
  <2> QED  BY <1>1, <1>t, <2>1
<1>3. base' = base  BY <1>2, LedgerGrows DEF Launch
<1>4. g \in Gen  BY <1>1, <1>t DEF Gen
<1>5. CASE Launch /\ g = gen /\ hold[g] = "none" /\ hold'[g] = "launching"
  BY <1>2, <1>3, <1>4, <1>5 DEF Launch
<1>6. CASE hold'[g] = hold[g] \/ <<hold[g], hold'[g]>> \in Advance
  <2>1. hold[g] \in MayRun  BY <1>1, <1>6 DEF Advance, MayRun
  <2>2. g <= gen  BY <1>4, <1>t, <2>1 DEF Unborn, MayRun, Gen
  <2> QED  BY <1>1, <1>2, <1>3, <1>4, <1>t, <2>1, <2>2 DEF Running
<1> QED  BY <1>4, <1>5, <1>6, HoldersAdvance

(* Of a lone history every part speaks of the steps that do not launch.    *)
LEMMA StaysAlone ==
  ASSUME IInv, Next, ~crowded'
  PROVE  /\ ~crowded /\ Alone
         /\ Launch => \A g \in Gen : hold[g] \notin NotEnded
<1>1. crowded => crowded'
  BY LedgerWriters DEF Allocate, Launch, Restart, past
<1>2. Launch => crowded' = (crowded \/ \E g \in Gen : hold[g] \in NotEnded)
  BY DEF Launch
<1> QED  BY <1>1, <1>2 DEF IInv

LEMMA SoleStep ==
  ASSUME IInv, Next, ~crowded'
  PROVE  Sole'
<1>1. SUFFICES ASSUME NEW g \in Gen, NEW h \in Gen,
                      hold'[g] \in NotEnded, hold'[h] \in NotEnded
               PROVE  g = h
  BY DEF Sole
<1>2. \A k \in {g, h} : hold[k] \in NotEnded \/ (Launch /\ k = gen)
  BY <1>1, HoldersAdvance DEF Advance, NotEnded, MayRun
<1> QED  BY <1>1, <1>2, StaysAlone DEF Alone, Sole

(* A holder that may run, while it is alone, is live at the node if anyone *)
(* listens there, and not yet published otherwise.                         *)
LEMMA LoneHolder ==
  ASSUME IInv, ~crowded, NEW g \in Running
  PROVE  /\ g \in Gen
         /\ Listening => node = g /\ hold[g] = "live"
         /\ hold[g] = "live" => Listening
<1>1. Sole /\ Published /\ NodeHeld  BY DEF IInv, Alone
<1>2. g \in Gen /\ hold[g] \in MayRun  BY Numbers DEF Running, Gen
<1>3. node # 0 => node \in Gen  BY BoundsAssumption DEF IInv, Typed, TypeOK, Gen
<1>4. ASSUME Listening PROVE node = g /\ hold[g] = "live"
  BY <1>1, <1>2, <1>3, <1>4 DEF Sole, Listening, NotEnded, MayRun
<1>5. hold[g] = "live" => node = g /\ g # 0  BY <1>1, <1>2, Numbers DEF Published
<1> QED  BY <1>2, <1>4, <1>5 DEF Listening

LEMMA PublishedStep ==
  ASSUME IInv, Next, ~crowded'
  PROVE  Published'
<1>1. SUFFICES ASSUME NEW g \in Running', hold'[g] = "live"
               PROVE  node' = g
  BY DEF Published
<1>2. g \in Running /\ g \in Gen  BY <1>1, RunningShrinks
<1>3. ~crowded /\ Alone  BY StaysAlone
<1>4. CASE hold[g] = "live"
  <2>1. node = g /\ g # 0  BY <1>2, <1>3, <1>4, Numbers DEF Alone, Published
  <2>2. CASE node' = node  BY <2>1, <2>2
  <2>3. CASE UnlinkStale
    BY <1>4, <2>1, <2>3 DEF UnlinkStale, IInv, NodeHeld
  <2>4. CASE ResetRemoves
    BY <1>2, <1>3, <2>4 DEF ResetRemoves, At, Alone, Cleared
  <2>5. ASSUME NEW a \in {0} \cup Gen, Cleanup(a) PROVE node' = node
    BY <1>4, <2>1, <2>5 DEF Cleanup, KillFails
  <2>6. ASSUME NEW h \in Gen, Publishes(h) PROVE FALSE
    BY <2>1, <2>6 DEF Publishes
  <2>7. ASSUME NEW h \in Gen, HolderEnds(h) PROVE node' = node
    BY <1>1, <1>2, <2>1, <2>7 DEF HolderEnds, Become, IInv, Typed, TypeOK
  <2> QED  BY <2>1, <2>2, <2>3, <2>4, <2>5, <2>6, <2>7, NodeWriters
<1>5. CASE hold[g] # "live"
  <2>1. <<hold[g], hold'[g]>> \in Advance /\ hold[g] = "forked"
    BY <1>1, <1>2, <1>5, HoldersAdvance DEF Advance
  <2>2. Publishes(g)
    <3>1. ASSUME NEW h \in Gen, Publishes(h) PROVE h = g
      BY <1>1, <1>2, <2>1, <3>1 DEF Publishes, Become, IInv, Typed, TypeOK
    <3>2. ASSUME ~\E h \in Gen : Publishes(h) PROVE hold'[g] # "live" \/ hold'[g] = hold[g]
      <4>t. hold \in [Gen -> Fate]  BY DEF IInv, Typed, TypeOK
      <4>1. CASE Launch \/ LaunchFailed \/ LaunchTimesOut
        BY <1>2, <2>1, <4>1, <4>t DEF Launch, LaunchFailed, LaunchTimesOut
      <4>2. CASE Terminate  BY <1>2, <4>2, <4>t DEF Terminate
      <4>3. ASSUME NEW a \in {0} \cup Gen, KillReaches(a) \/ KillHangs(a)
            PROVE  hold'[g] # "live" \/ hold'[g] = hold[g]
        BY <1>2, <4>3, <4>t DEF KillReaches, KillHangs
      <4>4. ASSUME NEW h \in Gen, Forks(h) \/ Aborts(h) \/ HolderEnds(h) \/ HolderCrashes(h)
            PROVE  hold'[g] # "live" \/ hold'[g] = hold[g]
        BY <1>2, <4>4, <4>t DEF Forks, Aborts, HolderEnds, HolderCrashes, Become
      <4> QED  BY <3>2, <4>1, <4>2, <4>3, <4>4, HoldWriters
    <3> QED  BY <1>1, <1>5, <3>1, <3>2
  <2> QED  BY <2>2 DEF Publishes
<1> QED  BY <1>4, <1>5

(* A kill that is answered yes is of a holder that does not run: it is     *)
(* certain and has no node, or was stopped, or left a stale node.          *)
LEMMA ConsumedIsGone ==
  ASSUME IInv, ~crowded, NEW a \in {0} \cup Gen, Consumes(a)
  PROVE  conf[a].rec \notin Running
<1> DEFINE r == conf[a].rec
<1>1. SUFFICES ASSUME r \in Running PROVE FALSE
  OBVIOUS
<1>t. /\ Uncertain /\ Killing /\ Alone /\ NodeHeld
      /\ r \in base + 1 .. gen /\ hold[r] \in MayRun /\ r > base /\ r # 0
  <2>1. r \in base + 1 .. gen /\ hold[r] \in MayRun  BY <1>1 DEF Running
  <2> QED  BY <2>1, Numbers DEF IInv
<1>2. hold[r] = "live" => node = r  BY <1>1, <1>t DEF Alone, Published
<1>3. CASE Check(a)
  <2>1. r \notin must /\ node = 0
    BY <1>3 DEF Consumes, Check, Shortcut, Became, IInv, Typed, Confirmation
  <2>2. hold[r] \in Coming  BY <1>2, <1>t, <2>1 DEF MayRun, Coming
  <2>3. ~(At("spawn", "launch") /\ r = gen)  BY <1>t DEF Killing
  <2> QED  BY <1>t, <2>1, <2>2, <2>3 DEF Uncertain
<1>4. CASE (KillMisses(a) \/ KillHangs(a)) /\ conf[a].sure /\ node = 0
  <2>1. conf[a].at = "kill"  BY <1>4 DEF KillMisses, KillHangs
  <2>2. hold[r] \notin Coming  BY <1>4, <1>t, <2>1 DEF Uncertain
  <2> QED  BY <1>2, <1>4, <1>t, <2>2 DEF MayRun, Coming
<1>5. CASE (KillMisses(a) \/ KillHangs(a)) /\ ~(conf[a].sure /\ node = 0)
  <2>1. KillRefused(a) /\ conf[a].at = "kill"  BY <1>5 DEF KillMisses, KillHangs
  <2>2. Became(a, "rm") \/ Became(a, "failed")  BY <1>5, <2>1 DEF KillRefused
  <2>3. conf'[a].at \in {"rm", "failed"}  BY <2>2 DEF Became, IInv, Typed, Confirmation
  <2>4. conf'[a].at = "ok"  BY DEF Consumes, Became, IInv, Typed, Confirmation
  <2> QED  BY <2>3, <2>4
<1>6. CASE Cleanup(a)
  <2>1. conf[a].at = "rm" /\ conf[a].sure  BY <1>6, <1>t DEF Cleanup, Killing
  <2>2. hold[r] \notin Coming  BY <1>t, <2>1 DEF Uncertain
  <2>3. node = r /\ hold[node] = "live"  BY <1>2, <1>t, <2>2 DEF MayRun, Coming
  <2>4. Became(a, "failed")  BY <1>6, <2>3 DEF Cleanup, KillFails
  <2>5. conf'[a].at = "failed" /\ conf'[a].at = "ok"
    BY <2>4 DEF Consumes, Became, IInv, Typed, Confirmation
  <2> QED  BY <2>5
<1>7. CASE NodeGone(a)
  BY <1>1, <1>7, <1>t DEF NodeGone, Alone, Stopped
<1> QED  BY <1>3, <1>4, <1>5, <1>6, <1>7 DEF Consumes

LEMMA RecordedStep ==
  ASSUME IInv, Next, ~crowded'
  PROVE  Recorded' /\ Newest'
<1>a. ~crowded /\ Alone  BY StaysAlone
<1>t. Recorded /\ Newest /\ Killing /\ Adopted
  BY <1>a DEF Alone, IInv
<1>1. ASSUME NEW g \in Running', op'.kind = "spawn", op'.at \in {"launch", "attach", "confirm"}
      PROVE  g = gen' /\ gen' = gen
  <2>1. CASE Launch
    <3>1. g = gen /\ gen' = gen
      BY <1>a, <2>1, RunningShrinks, StaysAlone DEF Running, NotEnded, Launch
    <3> QED  BY <3>1
  <2>2. CASE ~Launch
    <3>1. op.kind = "spawn" /\ op.at \in {"launch", "attach", "confirm"} /\ gen' = gen
      <4>1. op'.at \in {"launch", "attach", "confirm"} => ~Allocate
        <5>1. ASSUME Allocate PROVE op'.at = "prepare"
          <6>1. op' = [op EXCEPT !.at = "prepare", !.gen = gen']  BY <5>1 DEF Allocate
          <6> QED  BY <6>1 DEF IInv, Typed, Operation
        <5> QED  BY <5>1
      <4>2. op'.kind # "none" /\ op'.at # "start" /\ op'.kind # "restore"  BY <1>1
      <4> QED
        BY <1>1, <2>2, <4>1, <4>2, OpMoves, LedgerGrows DEF NoOp, SpawnMoves, RetireMoves, Retiring
    <3>2. g \in Running  BY <2>2, RunningShrinks
    <3> QED  BY <1>t, <3>1, <3>2 DEF Newest
  <2> QED  BY <2>1, <2>2
<1>2. ASSUME NEW g \in Running'
      PROVE  kill' = g \/ (At("spawn", "launch")' /\ g = gen')
  <2>1. CASE Launch
    <3>1. op' = [op EXCEPT !.at = "launch"] /\ op.kind = "spawn"  BY <2>1 DEF Launch, Goto, At
    <3>2. op'.at = "launch" /\ op'.kind = "spawn"  BY <3>1 DEF IInv, Typed, Operation
    <3> QED  BY <1>1, <3>2 DEF At
  <2>2. CASE ~Launch
    <3>g. g \in Running /\ g \in Gen /\ ~Restart  BY <2>2, RunningShrinks
    <3>1. kill = g \/ (At("spawn", "launch") /\ g = gen)  BY <1>t, <3>g DEF Recorded
    <3>2. CASE Judges
      <4>1. g = gen  BY <1>t, <3>g, <3>2 DEF Judges, At, Newest
      <4> QED  BY <3>2, <4>1 DEF Judges
    <3>3. CASE At("spawn", "launch") /\ g = gen /\ ~Judges
      <4>1. CASE UNCHANGED op
        <5>1. gen' = gen  BY <3>3, LedgerGrows DEF Allocate, At
        <5> QED  BY <3>3, <4>1, <5>1 DEF At
      <4>2. CASE op' # op
        <5>1. LaunchFailed /\ node = 0
          <6>1. LaunchReady \/ LaunchFailed \/ LaunchTimesOut
            BY <2>2, <3>g, <3>3, <4>2, OpWriters DEF At, Start, NoOp, SpawnRefused, Preflight,
               UnlinkStale, PreallocateRefused, Allocate, PrepareFails, AttachOk, AttachFails,
               SpawnTornDown, RetireRefused, Terminate, BeginRetire, RetireConfirmed, ResetProbes,
               ResetRemoves, RestoreAttached, RestoreUnadopted, Retiring
          <6>2. ~LaunchReady  BY <3>3 DEF LaunchReady, Judges
          <6>3. ~LaunchTimesOut  BY <3>3 DEF LaunchTimesOut, TimedOut, Judges
          <6> QED  BY <3>3, <6>1, <6>2, <6>3 DEF LaunchFailed, Judges
        <5>2. hold' = [hold EXCEPT ![gen] = IF @ = "gone" THEN @ ELSE "aborted"]
          BY <5>1 DEF LaunchFailed
        <5>3. hold'[gen] \notin MayRun
          BY <3>g, <3>3, <5>2 DEF IInv, Typed, TypeOK, MayRun
        <5> QED  BY <3>3, <5>3 DEF Running
      <4> QED  BY <4>1, <4>2
    <3>4. CASE kill = g
      <4>1. CASE (LivenessAbsent \/ \E t \in attempts : ProbeAbsent(t)) /\ kill' = 0
        <5>1. Absent /\ (link # 0 \/ slot # NoSlot)
          BY <4>1 DEF LivenessAbsent, ProbeAbsent, Current, IInv, Authority, NoSlot
        <5>2. hold[g] = "live"  BY <1>t, <3>g, <5>1 DEF Adopted
        <5> QED  BY <1>a, <3>g, <5>1, <5>2, LoneHolder DEF Absent
      <4>2. ASSUME NEW a \in {0} \cup Gen, Consumes(a) PROVE kill' = g
        <5>1. conf[a].rec # g  BY <1>a, <3>g, <4>2, ConsumedIsGone
        <5> QED  BY <3>4, <4>2, <5>1 DEF Consumes, Consumed
      <4> QED  BY <3>2, <3>4, <3>g, <4>1, <4>2, KillMoves
    <3> QED  BY <3>1, <3>2, <3>3, <3>4
  <2> QED  BY <2>1, <2>2
<1> QED  BY <1>1, <1>2 DEF Recorded, Newest

LEMMA AdoptedStep ==
  ASSUME IInv, Next, ~crowded'
  PROVE  Adopted'
<1>a. ~crowded /\ Alone  BY StaysAlone
<1>1. SUFFICES ASSUME link' # 0 \/ slot' # NoSlot, NEW g \in Running'
               PROVE  hold'[g] = "live"
  BY DEF Adopted
<1>2. CASE Launch
  <2>1. link = 0 /\ slot = NoSlot /\ UNCHANGED <<link, slot>>
    BY <1>2 DEF Launch, At, core, recovery, IInv, Authority
  <2> QED  BY <1>1, <2>1
<1>3. CASE ~Launch
  <2>1. g \in Running /\ g \in Gen /\ ~Restart  BY <1>3, RunningShrinks
  <2>2. hold'[g] = "live" \/ hold[g] # "live"
    <3>1. hold'[g] \in MayRun  BY DEF Running
    <3> QED  BY <1>3, <2>1, <3>1, HoldersAdvance DEF Advance, MayRun
  <2>3. hold[g] = "live"
    <3>1. CASE link # 0 \/ slot # NoSlot
      BY <1>a, <2>1, <3>1 DEF Alone, Adopted
    <3>2. CASE link = 0 /\ slot = NoSlot
      <4>1. ASSUME op.kind = "restore" PROVE FALSE
        <5>1. base = gen  BY <4>1 DEF IInv, Authority
        <5> QED  BY <2>1, <5>1, Numbers DEF Running
      <4>2. ~LinkDrops /\ ~RestoreUnadopted /\ ~RestoreAttached
        BY <3>2, <4>1 DEF LinkDrops, RestoreUnadopted, RestoreAttached, At
      <4>3. \A t \in attempts : ~ReattachOk(t)
        BY <3>2 DEF ReattachOk, Current, IInv, Authority, NoSlot
      <4>4. slot' = NoSlot  BY <3>2, <4>2, SlotMoves
      <4>5. link' # 0  BY <1>1, <4>4
      <4>6. AttachOk  
        BY <2>1, <3>2, <4>2, <4>3, <4>5, CoreMoves DEF core, Allocate
      <4>7. Listening  BY <4>6 DEF AttachOk, Answers
      <4> QED  BY <1>a, <2>1, <4>7, LoneHolder
    <3> QED  BY <3>1, <3>2
  <2> QED  BY <2>2, <2>3
<1> QED  BY <1>2, <1>3

LEMMA StoppedStep ==
  ASSUME IInv, Next, ~crowded'
  PROVE  Stopped'
<1>a. ~crowded /\ Alone  BY StaysAlone
<1>1. SUFFICES ASSUME NEW a \in {0} \cup Gen, conf'[a].at = "wait",
                      conf'[a].rec \in Running'
               PROVE  FALSE
  BY DEF Stopped
<1> DEFINE r == conf[a].rec
<1>2. conf'[a].rec = r /\ (conf[a].at = "wait" \/ KillReaches(a)) /\ conf[a].at # "idle"
  BY <1>1, ConfMoves DEF Leaves, NoConfirm, Orders, Advances
<1>3. ~(Launch /\ r = gen)
  BY DEF Launch, IInv, Killing
<1>4. r \in Running /\ r \in Gen
  BY <1>1, <1>2, <1>3, RunningShrinks
<1>5. CASE conf[a].at = "wait"
  BY <1>a, <1>4, <1>5 DEF Alone, Stopped
<1>6. CASE KillReaches(a)
  <2>1. node = r  BY <1>a, <1>4, <1>6, LoneHolder DEF KillReaches
  <2>2. hold'[r] = "stopping"
    BY <1>4, <1>6, <2>1 DEF KillReaches, IInv, Typed, TypeOK
  <2> QED  BY <1>1, <1>2, <2>2 DEF Running, MayRun
<1> QED  BY <1>2, <1>5, <1>6

LEMMA ClearedStep ==
  ASSUME IInv, Next, ~crowded'
  PROVE  Cleared'
<1>a. ~crowded /\ Alone  BY StaysAlone
<1>r. ASSUME op.kind # "spawn" PROVE Running' \subseteq Running
  BY <1>r, RunningShrinks DEF Launch, At
<1>b. ASSUME op.kind # "spawn", NEW g \in Running PROVE kill = g
  BY <1>a, <1>b DEF Alone, Recorded, At
<1>c. ASSUME op'.kind # "spawn", NEW g \in Running' PROVE kill' = g
  BY <1>c, RecordedStep DEF Recorded, At
<1>k. Running \subseteq Nat \ {0}
  BY Numbers DEF Running
<1>k2. Running' \subseteq Nat \ {0}
  BY RunningShrinks, Numbers
<1>1. ASSUME op'.kind = "reset", op'.at \in {"path", "remove"}
      PROVE  Running' = {}
  <2>1. CASE UNCHANGED op
    BY <1>1, <1>r, <1>a, <2>1 DEF Alone, Cleared
  <2>2. CASE RetireMoves
    <3>1. op.kind = "reset" /\ op.kind # "spawn"  BY <1>1, <2>2 DEF RetireMoves
    <3>2. CASE kill = 0
      BY <1>r, <1>b, <1>k, <3>1, <3>2
    <3>3. CASE op.at = "confirm" /\ conf[0].at = "ok"
      BY <1>r, <1>a, <3>1, <3>3 DEF Alone, Cleared, Retiring
    <3>4. CASE op.at = "path"
      BY <1>r, <1>a, <3>1, <3>4 DEF Alone, Cleared
    <3> QED  BY <1>1, <2>2, <3>2, <3>3, <3>4 DEF RetireMoves
  <2> QED
    BY <1>1, <2>1, <2>2, OpMoves DEF NoOp, SpawnMoves
<1>2. ASSUME Retiring', op'.at = "confirm", conf'[0].at = "ok"
      PROVE  Running' = {}
  <2>1. op'.kind # "spawn"  BY <1>2 DEF Retiring
  <2>2. ASSUME NEW g \in Running' PROVE FALSE
    <3>1. kill' = g /\ g # 0  BY <1>c, <1>k2, <2>1, <2>2
    <3>2. Killing'  BY KillingStep
    <3>3. conf'[0].rec = g  BY <1>2, <3>1, <3>2 DEF Killing
    <3>4. CASE conf'[0] = conf[0]
      <4>1. op.at = "confirm"
        BY <1>2, <3>4 DEF IInv, Killing
      <4>2. UNCHANGED op
        BY <1>2, <4>1, ConfirmEnds DEF NoConfirm
      <4>3. Running = {}  BY <1>a, <1>2, <3>4, <4>1, <4>2 DEF Alone, Cleared, Retiring
      <4>4. op.kind # "spawn"  BY <2>1, <4>2
      <4> QED  BY <1>r, <2>2, <4>3, <4>4
    <3>5. CASE Consumes(0) /\ Advances(0)
      <4>1. kill' = Consumed(conf[0].rec) /\ conf'[0].rec = conf[0].rec
        BY <3>5 DEF Consumes, Advances
      <4> QED  BY <3>1, <3>3, <4>1 DEF Consumed
    <3> QED
      BY <1>2, <3>4, <3>5, ConfMoves DEF Leaves, NoConfirm, Orders, Advances
  <2> QED  BY <2>2
<1> QED  BY <1>1, <1>2 DEF Cleared

-----------------------------------------------------------------------------
(* The theorems.                                                           *)

LEMMA InitIInv == Init => IInv
<1> SUFFICES ASSUME Init PROVE IInv
  OBVIOUS
<1>n. MaxGen \in Nat /\ MaxGen # 0 /\ 0 \in 0..MaxGen /\ 0 \notin Gen
  BY BoundsAssumption DEF Gen
<1>c. \A a \in {0} \cup Gen : conf[a] = NoConfirm
  BY DEF Init
<1>1. Typed
  <2>1. IsFiniteSet(attempts)  BY FS_EmptySet DEF Init
  <2>2. op \in Operation  BY <1>n DEF Init, NoOp, Operation, Places
  <2>3. NoConfirm \in Confirmation  BY <1>n DEF NoConfirm, Confirmation
  <2>4. NoSession \in Session  BY <1>n DEF NoSession, Session
  <2>5. NoSlot \in Slot  BY <1>n DEF NoSlot, Slot
  <2>6. \A a \in {0} \cup Gen : conf[a].rec \in 0..MaxGen  BY <1>c, <1>n DEF NoConfirm
  <2>7. TypeOK
    BY <1>n, <2>4, <2>5, <2>6 DEF Init, TypeOK, Session, Fate
  <2> QED  BY <2>1, <2>2, <2>3, <2>7 DEF Init, Typed
<1>2. Unborn /\ NodeHeld
  BY <1>c, <1>n DEF Init, Unborn, NodeHeld, At, NoOp, NoConfirm
<1>3. Authority /\ LinkIsOwned
  BY DEF Init, Authority, LinkIsOwned, Spawning, NoSession, NoOp
<1>4. Killing /\ Uncertain
  BY <1>c, <1>n DEF Init, Killing, Uncertain, At, NoOp, NoConfirm, Retiring
<1>5. Alone
  <2>1. Running = {}  BY DEF Init, Running
  <2>2. Sole  BY DEF Init, Sole, NotEnded, MayRun
  <2>3. Published /\ Recorded /\ Newest /\ Adopted /\ Stopped /\ Cleared
    BY <2>1 DEF Published, Recorded, Newest, Adopted, Stopped, Cleared
  <2> QED  BY <2>2, <2>3 DEF Alone
<1> QED  BY <1>1, <1>2, <1>3, <1>4, <1>5 DEF IInv

LEMMA StepIInv == IInv /\ [Next]_vars => IInv'
<1> SUFFICES ASSUME IInv, [Next]_vars PROVE IInv'
  OBVIOUS
<1>1. CASE Next
  <2>1. crowded' \/ Alone'
    <3>1. ASSUME ~crowded' PROVE Alone'
      BY <1>1, <3>1, SoleStep, PublishedStep, RecordedStep, AdoptedStep, StoppedStep, ClearedStep
         DEF Alone
    <3> QED  BY <3>1
  <2> QED
    BY <1>1, <2>1, TypedStep, UnbornStep, AuthorityStep, NodeStep, KillingStep, UncertainStep
       DEF IInv
<1>2. CASE UNCHANGED vars
  <2>1. /\ UNCHANGED <<hold, node, gen, sess, owner, link, kill, must, slot, attempts>>
        /\ UNCHANGED <<queue, op, conf, reapers, base, crowded>>
    BY <1>2 DEF vars, host, core, kills, recovery, ops, past
  <2> USE <2>1
  <2>2. Typed' /\ Unborn' /\ NodeHeld' /\ LinkIsOwned'
    BY DEF IInv, Typed, TypeOK, Unborn, NodeHeld, LinkIsOwned, At
  <2>3. Authority' /\ Killing' /\ Uncertain'
    BY DEF IInv, Authority, Spawning, Killing, Uncertain, At, Retiring
  <2>4. Alone => Alone'
    BY DEF Alone, Sole, Published, Recorded, Newest, Adopted, Stopped, Cleared, Running,
       At, Retiring
  <2> QED  BY <2>2, <2>3, <2>4 DEF IInv
<1> QED  BY <1>1, <1>2

LEMMA Invariance == Spec => []IInv
BY InitIInv, StepIInv, PTL DEF Spec

(* Every reachable state is well-formed, and no second spawn waits beside  *)
(* a first (SessionManager's inflight map).                                *)
THEOREM TypeCorrect == Spec => []TypeOK
<1>1. IInv => TypeOK  BY DEF IInv, Typed
<1> QED  BY <1>1, Invariance, PTL

(* The adopted link always serves the live session of the operation that   *)
(* owns it, whatever attach, restore or recovery was under way when the    *)
(* session was retired (moorAttachMaster's re-check).                      *)
THEOREM LinkOwned == Spec => []LinkIsOwned
<1>1. IInv => LinkIsOwned  BY DEF IInv
<1> QED  BY <1>1, Invariance, PTL

(* While no launch begins beside an older holder, what this daemon         *)
(* launched and may still run has a teardown record: neither timeouts, nor *)
(* kills that fail or hang, nor reapers, lost links or absence verdicts    *)
(* leave it without one (detachedKills and mustConfirm).                   *)
THEOREM TeardownIsKept == Spec => []TeardownKeptAlone
<1>1. ASSUME IInv PROVE TeardownKeptAlone
  <2>1. SUFFICES ASSUME ~crowded, NEW g \in Running, op.at # "launch" PROVE kill # 0
    BY DEF TeardownKeptAlone, TeardownKept
  <2>2. kill = g  BY <1>1, <2>1 DEF IInv, Alone, Recorded, At
  <2>3. g # 0  BY <1>1, <2>1, LoneHolder, Numbers
  <2> QED  BY <2>2, <2>3
<1> QED  BY <1>1, Invariance, PTL

(* A retire or a reset answers ok only when nothing that this daemon       *)
(* launched still runs or may come up (retireAwaited and                   *)
(* resetForProviderSession over confirmKill).                              *)
LEMMA RetireStep ==
  ASSUME IInv, [Next]_vars, Retiring, op' = NoOp, answer', ~crowded
  PROVE  Running' = {}
<1>1. op # NoOp  BY DEF Retiring, NoOp
<1>2. Next  BY <1>1 DEF vars, ops
<1>3. op.kind # "spawn" /\ op.kind # "restore"  BY DEF Retiring
<1>a. Alone  BY DEF IInv
<1>4. Running' \subseteq Running  BY <1>2, <1>3, RunningShrinks DEF Launch, At
<1>5. Running = {}
  <2>0. Running \subseteq Nat \ {0}  BY LoneHolder, Numbers
  <2>1. CASE BeginRetire
    <3>1. kill = 0
      <4>1. ~Goto("confirm")
        BY <1>1 DEF Goto, NoOp, IInv, Typed, Operation
      <4>2. ~Finish(FALSE)  BY <1>1 DEF Finish
      <4> QED  BY <2>1, <4>1, <4>2 DEF BeginRetire
    <3> QED  BY <1>a, <1>3, <2>0, <3>1 DEF Alone, Recorded, At
  <2>2. CASE RetireConfirmed
    <3>1. op.at = "confirm" /\ conf[0].at = "ok"
      BY <1>1, <2>2 DEF RetireConfirmed, Finish, Goto, NoOp, IInv, Typed, Operation
    <3> QED  BY <1>a, <1>1, <3>1 DEF Alone, Cleared
  <2>3. CASE ResetProbes \/ ResetRemoves
    <3>1. op.kind = "reset" /\ op.at \in {"path", "remove"}
      BY <2>3 DEF ResetProbes, ResetRemoves, At
    <3> QED  BY <1>a, <3>1 DEF Alone, Cleared
  <2>4. BeginRetire \/ RetireConfirmed \/ ResetProbes \/ ResetRemoves
    <3>1. ~Start
      BY <1>1 DEF Start
    <3>2. ~(RetireRefused \/ Restart)
      BY <1>1 DEF RetireRefused, Finish, Restart
    <3>3. ~Terminate
      BY <1>1 DEF Terminate, Goto, NoOp, IInv, Typed, Operation
    <3>4. ~(LaunchTimesOut \/ SpawnRefused \/ Preflight \/ UnlinkStale \/
            PreallocateRefused \/ Allocate \/ PrepareFails \/ Launch \/
            LaunchReady \/ LaunchFailed \/ AttachOk \/ AttachFails \/
            SpawnTornDown \/ RestoreAttached \/ RestoreUnadopted)
      BY <1>3 DEF At, LaunchTimesOut, SpawnRefused, Preflight, UnlinkStale,
         PreallocateRefused, Allocate, PrepareFails, Launch, LaunchReady,
         LaunchFailed, AttachOk, AttachFails, SpawnTornDown, RestoreAttached,
         RestoreUnadopted
    <3> QED  BY <1>1, <1>2, <3>1, <3>2, <3>3, <3>4, OpWriters
  <2> QED  BY <2>1, <2>2, <2>3, <2>4
<1> QED  BY <1>4, <1>5

(* RetiredIsGone: no retire or reset is answered ok while a holder that     *)
(* this daemon launched still runs, has not published yet or may come up.   *)
THEOREM RetireLeavesNothing == Spec => RetiredIsGone
<1> DEFINE Gone == Retiring /\ op' = NoOp /\ answer' /\ ~crowded
                     => Running' = {}
<1>1. IInv /\ [Next]_vars => Gone  BY RetireStep
<1>2. IInv /\ [Next]_vars => [Gone]_vars  BY <1>1
<1> QED  BY <1>2, Invariance, PTL DEF Spec, RetiredIsGone

(* A retire that was queued for one generation acts only while that is the  *)
(* ledger's, so whatever it tells to stop is no newer: the adopted link is  *)
(* of its session's generation, and no holder was born later.               *)
LEMMA FencedStep ==
  ASSUME IInv, [Next]_vars, NEW g \in Gen, Stops(g), op.kind = "exact",
         op' # op \/ conf'[0] # conf[0]
  PROVE  g <= op.gen
<1>1. Next /\ hold' # hold  BY DEF vars, ops, host, Stops
<1>n. gen \in Nat /\ op.gen \in Nat /\ Gen \subseteq Nat
  BY Numbers DEF IInv, Typed, Operation
<1>2. g <= gen
  <2>1. hold[g] # "none"  BY DEF Stops
  <2> QED  BY <1>n, <2>1 DEF IInv, Unborn
<1>3. CASE Terminate
  <2>1. g = link /\ Fenced
    BY <1>1, <1>3 DEF Terminate, Stops, IInv, Typed, TypeOK
  <2>2. sess.gen = link  BY <1>n, <2>1, Numbers DEF IInv, LinkIsOwned
  <2> QED  BY <1>n, <2>1, <2>2, Numbers DEF Fenced, Addressed
<1>4. CASE \E a \in {0} \cup Gen : KillReaches(a) \/ KillHangs(a)
  <2>1. UNCHANGED op
    BY <1>4 DEF KillReaches, KillHangs, ops
  <2>2. PICK a \in {0} \cup Gen : KillReaches(a) \/ KillHangs(a)  BY <1>4
  <2>3. conf[0].at = "kill"
    <3>1. a # 0 => conf'[0] = conf[0]
      BY <2>2 DEF KillReaches, KillHangs, KillRefused, KillConfirmed, Became, IInv, Typed
    <3> QED  BY <2>1, <2>2, <3>1 DEF KillReaches, KillHangs
  <2>4. op.gen = gen
    BY <2>3 DEF IInv, Killing, Authority
  <2> QED  BY <1>2, <2>4
<1>5. ~(Launch \/ LaunchFailed \/ LaunchTimesOut)
  BY DEF Launch, LaunchFailed, LaunchTimesOut, At
<1>6. CASE \E h \in Gen : Forks(h) \/ Publishes(h) \/ Aborts(h) \/
                          HolderEnds(h) \/ HolderCrashes(h)
  <2>1. UNCHANGED <<op, conf>>
    BY <1>6 DEF Forks, Publishes, Aborts, HolderEnds, HolderCrashes, HostOnly, ops
  <2> QED  BY <2>1
<1> QED  BY <1>1, <1>3, <1>4, <1>5, <1>6, HoldWriters

(* ExactIsFenced: however long the retire of one generation waited behind   *)
(* other operations, it never stops a newer holder.                         *)
THEOREM ExactRetireIsFenced == Spec => ExactIsFenced
<1> DEFINE Fenced1 == \A g \in Gen :
                        Stops(g) /\ op.kind = "exact"
                          /\ (op' # op \/ conf'[0] # conf[0]) => g <= op.gen
<1>1. IInv /\ [Next]_vars => Fenced1  BY FencedStep
<1>2. IInv /\ [Next]_vars => [Fenced1]_vars  BY <1>1
<1> QED  BY <1>2, Invariance, PTL DEF Spec, ExactIsFenced
=============================================================================
