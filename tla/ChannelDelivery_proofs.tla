----------------------- MODULE ChannelDelivery_proofs -----------------------
(***************************************************************************)
(* Theorems about ChannelDelivery, for every number of prompts, queue cap,  *)
(* crash and timeout bound and every choice of console actions.             *)
(*                                                                         *)
(* The second half, from Live on, is about what the queue directory keeps:  *)
(* nothing is lost, the queue comes back in its order, and the engine       *)
(* implements PromptOutbox, until a process dies with an upward renumbering *)
(* half done (disordered).  Its invariant, DiskInv, says for each phase of  *)
(* a process what its directory and its queue have to do with each other; a *)
(* crash leads from what holds of a serving or a restoring process          *)
(* (Serving, Claiming) to what the next restore relies on (AtRest).         *)
(***************************************************************************)
EXTENDS ChannelDeliveryOutbox, FiniteSetTheorems, WellFoundedInduction, TLAPS

-----------------------------------------------------------------------------
(* Lemmas about the queue array. *)

(* A set of numbers that is not empty has a least one: the intervals below its *)
(* members have a minimal one under inclusion.                                 *)
LEMMA LeastNumber ==
  ASSUME NEW P, P \subseteq Nat, P # {}
  PROVE  \E x \in P : \A y \in P : x <= y
<1> DEFINE below(x) == 0..(x - 1)
           T == {below(x) : x \in P}
<1>1. T \subseteq FiniteSubsetsOf(Nat) /\ T # {}
  <2>1. \A x \in P : below(x) \subseteq Nat /\ IsFiniteSet(below(x))
    BY FS_Interval
  <2> QED
    BY <2>1 DEF FiniteSubsetsOf
<1>2. PICK t \in T : \A u \in T : ~(<<u, t>> \in StrictSubsetOrdering(Nat))
  BY <1>1, FS_StrictSubsetOrderingWellFounded, WFMin
<1>3. PICK x \in P : t = below(x)
  BY <1>2
<1>4. ASSUME NEW y \in P, ~(x <= y)
      PROVE  FALSE
  <2>1. below(y) \subseteq below(x) /\ below(y) # below(x)
    <3>1. y \in below(x) /\ y \notin below(y)
      BY <1>4
    <3> QED
      BY <1>4, <3>1
  <2>2. <<below(y), below(x)>> \in StrictSubsetOrdering(Nat)
    <3>1. below(y) \in SUBSET Nat /\ below(x) \in SUBSET Nat
      OBVIOUS
    <3> HIDE DEF below
    <3> QED
      BY <2>1, <3>1 DEF StrictSubsetOrdering
  <2> QED
    BY <1>2, <1>3, <2>2
<1> QED
  BY <1>4

(* A queue that is not empty has a first item. *)
LEMMA FirstIsQueued ==
  ASSUME NEW q, q \subseteq Item, q # {}
  PROVE  First(q) \in q
<1> DEFINE P == {i.place : i \in q}
<1>1. P \subseteq Nat /\ P # {}
  BY DEF Item
<1>2. PICK x \in P : \A y \in P : x <= y
  BY <1>1, LeastNumber
<1>3. \E i \in q : \A j \in q : i.place <= j.place
  BY <1>2
<1> QED
  BY <1>3 DEF First

(* Closing the gaps of an array keeps its items' types and their number finite. *)
LEMMA ClosedType ==
  ASSUME NEW q, q \subseteq Item, IsFiniteSet(q)
  PROVE  Closed(q) \subseteq Item /\ IsFiniteSet(Closed(q))
<1> DEFINE place(i) == Cardinality({j \in q : j.place <= i.place})
           move == [i \in q |-> [i EXCEPT !.place = place(i)]]
<1>1. \A i \in q : place(i) \in Nat
  BY FS_Subset, FS_CardinalityType
<1>2. Closed(q) \subseteq Item
  BY <1>1 DEF Closed, Item
<1>3. move \in Surjection(q, Closed(q))
  BY DEF Surjection, Closed
<1> QED
  BY <1>2, <1>3, FS_Surjection

LEMMA PushType ==
  ASSUME NEW q, q \subseteq Item, IsFiniteSet(q), NEW seq \in Nat, NEW m \in Msgs
  PROVE  Push(q, seq, m) \subseteq Item /\ IsFiniteSet(Push(q, seq, m))
BY FS_AddElement, FS_CardinalityType DEF Push, Item

LEMMA WithoutType ==
  ASSUME NEW q, q \subseteq Item, IsFiniteSet(q), NEW seqs
  PROVE  Without(q, seqs) \subseteq Item /\ IsFiniteSet(Without(q, seqs))
BY ClosedType, FS_Subset DEF Without

LEMMA NewestType ==
  ASSUME NEW q, q \subseteq Item, IsFiniteSet(q)
  PROVE  Newest(q) \subseteq Item /\ IsFiniteSet(Newest(q))
<1> DEFINE S == {i \in q : Cardinality({j \in q : j.place > i.place}) < MaxQueue}
<1>1. S \subseteq Item /\ IsFiniteSet(S)
  BY FS_Subset
<1> QED
  BY <1>1, ClosedType DEF Newest

-----------------------------------------------------------------------------
(* Lemmas about the queue directory. *)

AllPlain(fs) == \A f \in fs : ~f.consumed

LEMMA PersistType ==
  ASSUME NEW fs, fs \subseteq File, NEW q, q \subseteq Item
  PROVE  /\ Persist(fs, q) \subseteq File
         /\ AllPlain(fs) => AllPlain(Persist(fs, q))
<1>1. \A i \in q : [seq |-> i.seq, ext |-> "json", consumed |-> FALSE, msg |-> i.msg]
                    \in File
  BY DEF File, Item, Exts
<1>2. Snapshot(q) \subseteq File /\ AllPlain(Snapshot(q))
  BY <1>1 DEF Snapshot, AllPlain
<1> QED
  BY <1>2 DEF Persist, AllPlain

LEMMA ClaimType ==
  ASSUME NEW fs, fs \subseteq File, NEW seqs
  PROVE  /\ Claim(fs, seqs) \subseteq File
         /\ AllPlain(fs) => AllPlain(Claim(fs, seqs))
BY DEF Claim, File, Exts, AllPlain

LEMMA ConfirmType ==
  ASSUME NEW fs, fs \subseteq File, NEW seqs
  PROVE  /\ Confirm(fs, seqs) \subseteq File
         /\ AllPlain(fs) => AllPlain(Confirm(fs, seqs))
BY DEF Confirm, File, Exts, AllPlain

LEMMA RevertAllDeliveringType ==
  ASSUME NEW fs, fs \subseteq File
  PROVE  /\ RevertAllDelivering(fs) \subseteq File
         /\ AllPlain(fs) => AllPlain(RevertAllDelivering(fs))
BY DEF RevertAllDelivering, File, Exts, AllPlain

LEMMA RetryStuckType ==
  ASSUME NEW fs, fs \subseteq File, NEW seq
  PROVE  /\ RetryStuck(fs, seq) \subseteq File
         /\ AllPlain(fs) => AllPlain(RetryStuck(fs, seq))
BY DEF RetryStuck, File, Exts, AllPlain

LEMMA TombstoneType ==
  ASSUME NEW fs, fs \subseteq File, NEW f \in fs
  PROVE  Tombstone(fs, f) \subseteq File
BY DEF Tombstone, File

-----------------------------------------------------------------------------
(* The drain lock: its invariant and what the shared pieces of the actions   *)
(* do to it.                                                                 *)

LockTyped ==
  /\ draining \in BOOLEAN /\ watchdogDue \in BOOLEAN /\ deliveryInFlight \in BOOLEAN
  /\ reading \subseteq Drain /\ sending \subseteq Send /\ late \subseteq SUBSET Prompt
  /\ IsFiniteSet(sending) /\ IsFiniteSet(late)

LockInv == LockTyped /\ SingleFlight /\ LockHasOneOwner

(* Whoever may take the lock finds no paste awaited. *)
LEMMA AcquireIsSafe ==
  ASSUME LockInv, CanAcquire
  PROVE  sending = {} /\ ~deliveryInFlight
BY DEF LockInv, SingleFlight, LockHasOneOwner, CanAcquire

LEMMA SupersededStale ==
  ASSUME NEW S, S \subseteq Drain \/ S \subseteq Send
  PROVE  /\ S \subseteq Drain => Superseded(S) \subseteq Drain
         /\ S \subseteq Send => Superseded(S) \subseteq Send
         /\ \A r \in Superseded(S) : r.stale
BY DEF Superseded, Drain, Send

LEMMA StartDrainLock ==
  ASSUME LockInv, NEW q, q \subseteq Item, NEW p, StartDrain(q, p)
  PROVE  LockInv'
<1>1. CASE UNCHANGED lock
  BY <1>1 DEF LockInv, LockTyped, SingleFlight, LockHasOneOwner, lock
<1>2. CASE q # {} /\ ~p /\ CanAcquire
  <2> DEFINE d == [head |-> First(q).seq, stale |-> FALSE]
  <2>1. d \in Drain
    BY <1>2, FirstIsQueued DEF Drain, Item
  <2>2. sending = {} /\ ~deliveryInFlight
    BY <1>2, AcquireIsSafe
  <2>3. sending' = {}
    BY <1>2, <2>2 DEF StartDrain, Superseded
  <2>4. /\ draining' = TRUE /\ watchdogDue' = FALSE /\ UNCHANGED <<deliveryInFlight, late>>
        /\ reading' = Superseded(reading) \cup {d}
    BY <1>2 DEF StartDrain
  <2>5. Superseded(reading) \subseteq Drain /\ \A r \in Superseded(reading) : r.stale
    BY SupersededStale DEF LockInv, LockTyped
  <2>6. LockTyped'
    BY <2>1, <2>2, <2>3, <2>4, <2>5, FS_EmptySet DEF LockInv, LockTyped
  <2>7. SingleFlight'
    BY <2>2, <2>3, <2>4 DEF SingleFlight
  <2>8. LockHasOneOwner'
    <3>1. d \in reading' /\ ~d.stale
      BY <2>4
    <3>2. \A e \in reading' : e.stale \/ e = d
      BY <2>4, <2>5
    <3> HIDE DEF d
    <3>3. draining'
      BY <2>4
    <3> QED
      BY <2>3, <3>1, <3>2, <3>3 DEF LockHasOneOwner
  <2> QED
    BY <2>6, <2>7, <2>8 DEF LockInv
<1> QED
  BY <1>1, <1>2 DEF StartDrain

(* A send that starts while no other paste is awaited, under a lock whose    *)
(* other claimants are superseded.                                           *)
LEMMA StartSendLock ==
  ASSUME LockInv, sending = {},
         NEW q, q \subseteq Item, NEW next \in q, NEW forced, NEW fs,
         StartSend(q, next, forced, fs, {}),
         draining' = TRUE, watchdogDue' \in BOOLEAN, UNCHANGED late,
         reading' \subseteq Drain, \A d \in reading' : d.stale
  PROVE  LockInv'
<1> DEFINE items == {[seq |-> i.seq, msg |-> i.msg] : i \in Covered(q, next, forced)}
           s == [items |-> items, next |-> next.seq, stale |-> FALSE]
<1>1. Covered(q, next, forced) \subseteq q
  BY DEF Covered
<1>2. items \subseteq Prompt
  BY <1>1 DEF Prompt, Item
<1>3. s \in Send
  BY <1>2 DEF Send, Item
<1>4. sending' = {s} /\ deliveryInFlight' = TRUE
  BY DEF StartSend
<1>5. LockTyped'
  BY <1>3, <1>4, FS_Singleton DEF LockInv, LockTyped
<1>6. SingleFlight' /\ LockHasOneOwner'
  BY <1>4 DEF SingleFlight, LockHasOneOwner
<1> QED
  BY <1>5, <1>6 DEF LockInv

LEMMA AcquireAndSendLock ==
  ASSUME LockInv, CanAcquire,
         NEW q, q \subseteq Item, NEW next \in q, NEW forced, NEW fs,
         AcquireAndSend(q, next, forced, fs)
  PROVE  LockInv'
<1>1. sending = {}
  BY AcquireIsSafe
<1>2. Superseded(sending) = {}
  BY <1>1 DEF Superseded
<1>3. Superseded(reading) \subseteq Drain /\ \A r \in Superseded(reading) : r.stale
  BY SupersededStale DEF LockInv, LockTyped
<1>4. /\ StartSend(q, next, forced, fs, {})
      /\ draining' = TRUE /\ watchdogDue' = FALSE /\ UNCHANGED late
      /\ reading' = Superseded(reading)
  BY <1>2 DEF AcquireAndSend
<1> QED
  BY <1>1, <1>3, <1>4, StartSendLock

(* The awaited send is over, one way or another. *)
LEMMA SendOverLock ==
  ASSUME LockInv, NEW s \in sending, Release(s.stale),
         sending' = sending \ {s}, deliveryInFlight' = FALSE, UNCHANGED reading,
         late' \subseteq SUBSET Prompt, IsFiniteSet(late')
  PROVE  LockInv'
<1>1. ~s.stale /\ sending = {s}
  BY DEF LockInv, SingleFlight
<1>2. sending' = {} /\ draining' = FALSE /\ watchdogDue' = FALSE
  BY <1>1 DEF Release
<1>3. \A d \in reading : d.stale
  BY <1>1 DEF LockInv, LockHasOneOwner
<1>4. LockTyped'
  BY <1>2, FS_EmptySet DEF LockInv, LockTyped
<1>5. SingleFlight' /\ LockHasOneOwner'
  BY <1>2, <1>3 DEF SingleFlight, LockHasOneOwner
<1> QED
  BY <1>4, <1>5 DEF LockInv

-----------------------------------------------------------------------------
(* Everything else: types, and what the data operations do to them.          *)

DataTyped ==
  /\ phase \in {"down", "claiming", "cleaning", "up"}
  /\ todo \subseteq [seq: Nat, ext: Exts, consumed: BOOLEAN]
  /\ files \subseteq File
  /\ queue \subseteq Item /\ IsFiniteSet(queue) /\ queueSeq \in Nat
  /\ delivered \subseteq Msgs /\ fresh \subseteq Msgs
  /\ posted \in 0..NumMsgs /\ crashes \in Nat /\ timeouts \in Nat
  /\ pausedFile \in BOOLEAN /\ pausedByOperator \in BOOLEAN
  /\ accepted \in [Msgs -> Nat] /\ confirmed \subseteq Msgs /\ removed \subseteq Msgs
  /\ unmarked \subseteq confirmed /\ exposed \subseteq Msgs /\ disordered \in BOOLEAN
  /\ phase \in {"cleaning", "up"} => todo = {}
  /\ phase = "up" => AllPlain(files)

Inv == DataTyped /\ LockInv

LEMMA InvImpliesTypeOK == Inv => TypeOK
BY DEF Inv, DataTyped, LockInv, LockTyped, TypeOK, AllPlain

LEMMA ArriveType ==
  ASSUME accepted \in [Msgs -> Nat], NEW S, IsFiniteSet(S), Arrive(S)
  PROVE  accepted' \in [Msgs -> Nat]
<1>1. \A m \in Msgs : Cardinality({items \in S : m \in MsgsOf(items)}) \in Nat
  BY FS_Subset, FS_CardinalityType
<1> QED
  BY <1>1 DEF Arrive

LEMMA InTransitFinite ==
  ASSUME LockTyped
  PROVE  IsFiniteSet(InTransit)
<1> DEFINE itemsOf == [s \in sending |-> s.items]
<1>1. itemsOf \in Surjection(sending, {s.items : s \in sending})
  BY DEF Surjection
<1>2. IsFiniteSet({s.items : s \in sending})
  BY <1>1, FS_Surjection DEF LockTyped
<1> QED
  BY <1>2, FS_Union DEF InTransit, LockTyped

(* The engine's counter only moves on. *)
LEMMA NextNumber ==
  ASSUME Inv, NEW seq \in NextSeq
  PROVE  seq \in Nat /\ queueSeq < seq
<1>1. IsFiniteSet(delivered)
  <2>1. IsFiniteSet(1..NumMsgs)
    BY FS_Interval, DeliveryAssumption
  <2> QED
    BY <2>1, FS_Subset DEF Inv, DataTyped, Msgs
<1>2. Cardinality(delivered) \in Nat
  BY <1>1, FS_CardinalityType
<1> QED
  BY <1>2, DeliveryAssumption DEF NextSeq, Inv, DataTyped

(* enqueue keeps the types and the lock. *)
LEMMA EnqueueInv ==
  ASSUME Inv, phase = "up", NEW m \in Msgs, NEW seq \in Nat, Enqueue(m, seq)
  PROVE  /\ files' \subseteq File /\ AllPlain(files')
         /\ queue' \subseteq Item /\ IsFiniteSet(queue') /\ queueSeq' \in Nat
         /\ delivered' \subseteq Msgs /\ removed' \subseteq Msgs
         /\ LockInv'
<1>1. CASE Seen(m)
  BY <1>1 DEF Enqueue, Inv, DataTyped, LockInv, LockTyped, SingleFlight, LockHasOneOwner, lock
<1>2. CASE ~Seen(m)
  <2> DEFINE pushed == Push(queue, seq, m)
  <2>1. pushed \subseteq Item /\ IsFiniteSet(pushed)
    BY PushType DEF Inv, DataTyped
  <2>2. Newest(pushed) \subseteq Item /\ IsFiniteSet(Newest(pushed))
    BY <2>1, NewestType
  <2>3. /\ delivered' = delivered \cup {m} /\ queueSeq' = seq
        /\ queue' = Newest(pushed)
        /\ removed' = removed \cup (MsgsOf(pushed) \ MsgsOf(Newest(pushed)))
        /\ files' = Persist(files, Newest(pushed))
        /\ StartDrain(Newest(pushed), pausedByOperator)
    BY <1>2 DEF Enqueue
  <2>4. files' \subseteq File /\ AllPlain(files')
    BY <2>2, <2>3, PersistType DEF Inv, DataTyped
  <2>5. MsgsOf(pushed) \subseteq Msgs
    BY <2>1 DEF MsgsOf, Item
  <2>6. LockInv'
    BY <2>2, <2>3, StartDrainLock DEF Inv
  <2> QED
    BY <2>2, <2>3, <2>4, <2>5, <2>6 DEF Inv, DataTyped
<1> QED
  BY <1>1, <1>2

(* The revert of a refused send, the pause it may bring and a late arrival.  *)
LEMMA RefusedData ==
  ASSUME Inv, NEW items, Refused(items), UNCHANGED <<crashes, timeouts>>
  PROVE  DataTyped'
<1>1. files' \subseteq File /\ (AllPlain(files) => AllPlain(files'))
  BY RevertAllDeliveringType DEF Refused, Inv, DataTyped
<1>2. accepted' \in [Msgs -> Nat]
  BY ArriveType, FS_Singleton DEF Refused, Inv, DataTyped
<1>3. pausedFile' \in BOOLEAN /\ pausedByOperator' \in BOOLEAN
  BY DEF Refused, Inv, DataTyped
<1>4. UNCHANGED <<phase, todo, queue, queueSeq, delivered, feed, confirmed, removed, record>>
  BY DEF Refused
<1> QED
  BY <1>1, <1>2, <1>3, <1>4 DEF Inv, DataTyped, feed, record

-----------------------------------------------------------------------------
(* Inv is inductive: one lemma for each group of actions.                    *)

LEMMA LockStutter ==
  ASSUME LockInv, UNCHANGED lock
  PROVE  LockInv'
BY DEF LockInv, LockTyped, SingleFlight, LockHasOneOwner, lock

LEMMA InvInit == Init => Inv
<1> SUFFICES ASSUME Init PROVE Inv
  OBVIOUS
<1>1. files \subseteq File
  <2>1. PICK seqOf \in [1..posted -> Msgs], extOf \in [1..posted -> StuckExts] :
          files = {[seq |-> seqOf[m], ext |-> extOf[m], consumed |-> FALSE, msg |-> m] :
                     m \in 1..posted}
    BY DEF Init, Legacy
  <2>2. SUFFICES ASSUME NEW m \in 1..posted
                 PROVE  [seq |-> seqOf[m], ext |-> extOf[m], consumed |-> FALSE, msg |-> m] \in File
    BY <2>1
  <2>3. seqOf[m] \in Nat
    BY <2>1, DeliveryAssumption DEF Msgs
  <2>4. extOf[m] \in Exts
    BY <2>1 DEF Exts
  <2>5. m \in Msgs
    BY DeliveryAssumption DEF Init, Msgs
  <2> QED
    BY <2>3, <2>4, <2>5 DEF File
<1>2. accepted \in [Msgs -> Nat] /\ posted \in 0..NumMsgs
  BY DeliveryAssumption DEF Init
<1>3. DataTyped
  BY <1>1, <1>2, FS_EmptySet DEF Init, DataTyped
<1>4. LockInv
  BY FS_EmptySet DEF Init, LockInv, LockTyped, SingleFlight, LockHasOneOwner
<1> QED
  BY <1>3, <1>4 DEF Inv

LEMMA RestoringInv ==
  ASSUME Inv, Restoring
  PROVE  Inv'
<1> USE DEF Inv
<1>1. CASE Boot
  <2>1. files' \subseteq files
    BY <1>1 DEF Boot
  <2>2. todo' \subseteq [seq: Nat, ext: Exts, consumed: BOOLEAN]
    BY <1>1 DEF Boot, NameOf, File, DataTyped
  <2>3. DataTyped'
    BY <1>1, <2>1, <2>2 DEF Boot, DataTyped, feed, bounds, history
  <2> QED
    BY <1>1, <2>3, LockStutter DEF Boot
<1>2. CASE RestoreFile
  <2>1. PICK n \in todo, f \in files :
          /\ files' = Tombstone(files, f)
          /\ todo' = todo \ {n}
          /\ IF Seen(f.msg)
               THEN UNCHANGED <<queue, queueSeq, delivered>>
               ELSE /\ queueSeq' = queueSeq + 1
                    /\ queue' = Push(queue, queueSeq + 1, f.msg)
                    /\ delivered' = delivered \cup {f.msg}
    BY <1>2 DEF RestoreFile
  <2>2. files' \subseteq File
    BY <2>1, TombstoneType DEF DataTyped
  <2>3. f.msg \in Msgs
    BY DEF DataTyped, File
  <2>4. queue' \subseteq Item /\ IsFiniteSet(queue') /\ queueSeq' \in Nat /\ delivered' \subseteq Msgs
    BY <2>1, <2>3, PushType DEF DataTyped
  <2>5. /\ phase = "claiming"
        /\ UNCHANGED <<phase, pausedFile, pausedByOperator, lock, feed, bounds, history>>
    BY <1>2 DEF RestoreFile
  <2>6. DataTyped'
    BY <2>1, <2>2, <2>4, <2>5 DEF DataTyped, feed, bounds, history
  <2> QED
    BY <2>5, <2>6, LockStutter
<1>3. CASE RestoreSave
  <2>1. files' \subseteq File
    BY <1>3, PersistType DEF RestoreSave, DataTyped
  <2>2. DataTyped'
    BY <1>3, <2>1 DEF RestoreSave, DataTyped, feed, bounds, history
  <2> QED
    BY <1>3, <2>2, LockStutter DEF RestoreSave
<1>4. CASE RemoveTombstone
  <2>1. DataTyped'
    BY <1>4 DEF RemoveTombstone, DataTyped, feed, bounds, history
  <2> QED
    BY <1>4, <2>1, LockStutter DEF RemoveTombstone
<1>5. CASE FinishRestore
  <2>1. DataTyped'
    BY <1>5 DEF FinishRestore, DataTyped, AllPlain, disk, feed, bounds, history
  <2>2. LockInv'
    BY <1>5, StartDrainLock DEF FinishRestore, DataTyped
  <2> QED
    BY <2>1, <2>2
<1> QED
  BY <1>1, <1>2, <1>3, <1>4, <1>5 DEF Restoring

LEMMA CrashInv ==
  ASSUME Inv, Crash
  PROVE  Inv'
<1>1. accepted' \in [Msgs -> Nat]
  <2>1. PICK arrived \in SUBSET InTransit : Arrive(arrived)
    BY DEF Crash
  <2>2. IsFiniteSet(arrived)
    BY InTransitFinite, FS_Subset DEF Inv, LockInv
  <2> QED
    BY <2>1, <2>2, ArriveType DEF Inv, DataTyped
<1>2. files' \subseteq File
  <2>1. CASE UNCHANGED files
    BY <2>1 DEF Inv, DataTyped
  <2>2. CASE \E n \in 1..Cardinality(queue) :
               files' = files \cup Snapshot({i \in queue : i.place <= n})
    <3>1. PICK n : files' = files \cup Snapshot({i \in queue : i.place <= n})
      BY <2>2
    <3>2. Persist({}, {i \in queue : i.place <= n}) \subseteq File
      BY PersistType DEF Inv, DataTyped
    <3> QED
      BY <3>1, <3>2 DEF Persist, Inv, DataTyped
  <2> QED
    BY <2>1, <2>2 DEF Crash
<1>3. DataTyped'
  <2>1. /\ phase' = "down" /\ todo' = {} /\ crashes' = crashes + 1
        /\ queue' = {} /\ queueSeq' = 0 /\ delivered' = {} /\ pausedByOperator' = FALSE
        /\ fresh' = {}
    BY DEF Crash
  <2>2. UNCHANGED <<pausedFile, posted, timeouts, confirmed, removed, unmarked>>
    BY DEF Crash
  <2>3. crashes' \in Nat
    BY <2>1 DEF Inv, DataTyped
  <2>4. IsFiniteSet(queue')
    BY <2>1, FS_EmptySet
  <2>5. pausedFile' \in BOOLEAN /\ pausedByOperator' \in BOOLEAN
    BY <2>1, <2>2 DEF Inv, DataTyped
  <2>6. exposed' \subseteq Msgs /\ disordered' \in BOOLEAN
    BY <1>2 DEF Crash, Overtaken, Inv, DataTyped, File
  <2> QED
    BY <1>1, <1>2, <2>1, <2>2, <2>3, <2>4, <2>5, <2>6 DEF Inv, DataTyped, AllPlain
<1>4. LockInv'
  BY FS_EmptySet DEF Crash, LockInv, LockTyped, SingleFlight, LockHasOneOwner
<1> QED
  BY <1>3, <1>4 DEF Inv

LEMMA ArrivalInv ==
  ASSUME Inv, Post \/ Rediscover
  PROVE  Inv'
<1>1. CASE Post
  <2>1. posted + 1 \in Msgs /\ posted' = posted + 1 /\ posted' \in 0..NumMsgs
    BY <1>1, DeliveryAssumption DEF Post, Inv, DataTyped, Msgs
  <2>2. fresh' \subseteq Msgs
    BY <1>1, <2>1 DEF Post, Inv, DataTyped
  <2>3. phase = "up" /\ \E seq \in Nat : Enqueue(posted + 1, seq)
    BY <1>1, NextNumber DEF Post
  <2>4. UNCHANGED <<phase, todo, pausedFile, pausedByOperator, bounds, accepted, confirmed, record>>
    BY <1>1 DEF Post
  <2>5. /\ files' \subseteq File /\ AllPlain(files')
        /\ queue' \subseteq Item /\ IsFiniteSet(queue') /\ queueSeq' \in Nat
        /\ delivered' \subseteq Msgs /\ removed' \subseteq Msgs
        /\ LockInv'
    BY <2>1, <2>3, EnqueueInv
  <2> QED
    BY <2>1, <2>2, <2>4, <2>5 DEF Inv, DataTyped, bounds, record
<1>2. CASE Rediscover
  <2>1. PICK m \in fresh, seq \in NextSeq : Enqueue(m, seq) /\ fresh' = fresh \ {m}
    BY <1>2 DEF Rediscover
  <2>2. phase = "up" /\ m \in Msgs
    BY <1>2 DEF Rediscover, Inv, DataTyped
  <2>3. UNCHANGED <<phase, todo, pausedFile, pausedByOperator, posted, bounds,
                    accepted, confirmed, record>>
    BY <1>2 DEF Rediscover
  <2>4. /\ files' \subseteq File /\ AllPlain(files')
        /\ queue' \subseteq Item /\ IsFiniteSet(queue') /\ queueSeq' \in Nat
        /\ delivered' \subseteq Msgs /\ removed' \subseteq Msgs
        /\ LockInv'
    BY <2>1, <2>2, EnqueueInv, NextNumber
  <2> QED
    BY <2>1, <2>3, <2>4 DEF Inv, DataTyped, bounds, record
<1> QED
  BY <1>1, <1>2

LEMMA DrainingInv ==
  ASSUME Inv, DrainHolds \/ DrainDelivers \/ PumpDelivers \/ PumpHolds \/ WatchdogElapses
  PROVE  Inv'
<1>1. CASE DrainHolds
  <2>1. PICK d \in reading : DrainBails(d)
    BY <1>1 DEF DrainHolds
  <2>2. DataTyped'
    BY <2>1 DEF DrainBails, Inv, DataTyped, disk, feed, bounds, history
  <2>3. /\ reading' = reading \ {d}
        /\ draining' = (draining /\ d.stale) /\ watchdogDue' = (watchdogDue /\ d.stale)
        /\ UNCHANGED <<deliveryInFlight, sending, late>>
    BY <2>1 DEF DrainBails, Release
  <2>4. LockTyped' /\ SingleFlight'
    BY <2>3 DEF Inv, LockInv, LockTyped, SingleFlight
  <2>5. LockHasOneOwner'
    <3>1. CASE d.stale
      BY <2>3, <3>1 DEF Inv, LockInv, LockHasOneOwner
    <3>2. CASE ~d.stale
      <4>1. sending = {} /\ \A e \in reading' : e.stale
        BY <2>3, <3>2 DEF Inv, LockInv, LockHasOneOwner, SingleFlight
      <4>2. ~draining' /\ sending' = {}
        BY <2>3, <3>2, <4>1
      <4> QED
        BY <4>1, <4>2 DEF LockHasOneOwner
    <3> QED
      BY <3>1, <3>2
  <2> QED
    BY <2>2, <2>4, <2>5 DEF Inv, LockInv
<1>2. CASE DrainDelivers
  <2>1. PICK d \in reading : DrainSends(d)
    BY <1>2 DEF DrainDelivers
  <2>2. First(queue) \in queue /\ ~d.stale
    BY <2>1, FirstIsQueued DEF DrainSends, StillOwns, Inv, DataTyped
  <2>3. sending = {} /\ draining /\ \A e \in reading \ {d} : e.stale
    BY <2>2 DEF Inv, LockInv, LockHasOneOwner, SingleFlight
  <2>4. /\ reading' = reading \ {d}
        /\ StartSend(queue, First(queue), FALSE, files, {})
        /\ UNCHANGED <<draining, watchdogDue, late>>
    BY <2>1, <2>3 DEF DrainSends
  <2>5. draining' = TRUE
    BY <2>3, <2>4 DEF Inv, LockInv, LockTyped
  <2>6. LockInv'
    BY <2>2, <2>3, <2>4, <2>5, StartSendLock DEF Inv, DataTyped, LockInv, LockTyped
  <2>7. files' \subseteq File /\ (AllPlain(files) => AllPlain(files'))
    BY <2>4, ClaimType DEF StartSend, Inv, DataTyped
  <2>8. DataTyped'
    BY <2>1, <2>7 DEF DrainSends, Inv, DataTyped, feed, bounds, history
  <2> QED
    BY <2>6, <2>8 DEF Inv
<1>3. CASE PumpDelivers
  <2>1. First(queue) \in queue
    BY <1>3, FirstIsQueued DEF PumpDelivers, Inv, DataTyped
  <2>2. LockInv'
    BY <1>3, <2>1, AcquireAndSendLock DEF PumpDelivers, Inv, DataTyped
  <2>3. files' \subseteq File /\ (AllPlain(files) => AllPlain(files'))
    BY <1>3, ClaimType DEF PumpDelivers, AcquireAndSend, StartSend, Inv, DataTyped
  <2>4. DataTyped'
    BY <1>3, <2>3 DEF PumpDelivers, Inv, DataTyped, feed, bounds, history
  <2> QED
    BY <2>2, <2>4 DEF Inv
<1>4. CASE PumpHolds
  <2>1. sending = {} /\ sending' = {}
    BY <1>4, AcquireIsSafe DEF PumpHolds, Superseded, Inv
  <2>2. /\ draining' = FALSE /\ watchdogDue' = FALSE
        /\ reading' = Superseded(reading) /\ UNCHANGED <<deliveryInFlight, late>>
    BY <1>4 DEF PumpHolds
  <2>3. reading' \subseteq Drain /\ \A r \in reading' : r.stale
    BY <2>2, SupersededStale DEF Inv, LockInv, LockTyped
  <2>4. LockInv'
    BY <2>1, <2>2, <2>3, FS_EmptySet
       DEF Inv, LockInv, LockTyped, SingleFlight, LockHasOneOwner
  <2>5. DataTyped'
    BY <1>4 DEF PumpHolds, Inv, DataTyped, disk, feed, bounds, history
  <2> QED
    BY <2>4, <2>5 DEF Inv
<1>5. CASE WatchdogElapses
  <2>1. LockInv'
    BY <1>5 DEF WatchdogElapses, Inv, LockInv, LockTyped, SingleFlight, LockHasOneOwner
  <2>2. DataTyped'
    BY <1>5 DEF WatchdogElapses, Inv, DataTyped, disk, feed, bounds, history
  <2> QED
    BY <2>1, <2>2 DEF Inv
<1> QED
  BY <1>1, <1>2, <1>3, <1>4, <1>5

LEMMA AnswerInv ==
  ASSUME Inv,
         DeliveryAccepted \/ DeliveryRefused \/ DeliveryThrows \/ DeliveryTimesOut
           \/ LateAccepted \/ LateRefused
  PROVE  Inv'
<1>1. CASE DeliveryAccepted
  <2>1. PICK s \in sending : SendAccepted(s)
    BY <1>1 DEF DeliveryAccepted
  <2> DEFINE left == Without(queue, Seqs(s.items))
  <2>2. left \subseteq Item /\ IsFiniteSet(left)
    BY WithoutType DEF Inv, DataTyped
  <2>3. files' \subseteq File /\ (AllPlain(files) => AllPlain(files'))
    BY <2>1, <2>2, PersistType, ConfirmType DEF SendAccepted, Inv, DataTyped
  <2>4. MsgsOf(s.items) \subseteq Msgs
    BY DEF Inv, LockInv, LockTyped, Send, Prompt, MsgsOf
  <2>5. accepted' \in [Msgs -> Nat]
    BY <2>1, ArriveType, FS_Singleton DEF SendAccepted, Inv, DataTyped
  <2>6. /\ queue' = left /\ confirmed' = confirmed \cup MsgsOf(s.items)
        /\ UNCHANGED <<phase, todo, pausedFile, queueSeq, delivered, pausedByOperator,
                       feed, bounds, removed, exposed, disordered>>
    BY <2>1 DEF SendAccepted
  <2>a. unmarked' \subseteq confirmed'
    BY <2>1, <2>6 DEF SendAccepted, MsgsOf, Inv, DataTyped
  <2>7. DataTyped'
    BY <2>2, <2>3, <2>4, <2>5, <2>6, <2>a DEF Inv, DataTyped, feed, bounds
  <2>8. LockInv'
    BY <2>1, SendOverLock DEF SendAccepted, Inv, LockInv, LockTyped
  <2> QED
    BY <2>7, <2>8 DEF Inv
<1>2. CASE DeliveryRefused
  <2>1. PICK s \in sending : Refused(s.items) /\ sending' = sending \ {s} /\ Release(s.stale)
    BY <1>2 DEF DeliveryRefused
  <2>2. deliveryInFlight' = FALSE /\ UNCHANGED late /\ UNCHANGED reading
    BY <1>2, <2>1 DEF DeliveryRefused, Refused
  <2>3. LockInv'
    BY <2>1, <2>2, SendOverLock DEF Inv, LockInv, LockTyped
  <2>4. DataTyped'
    BY <2>1, RefusedData DEF Refused, bounds
  <2> QED
    BY <2>3, <2>4 DEF Inv
<1>3. CASE DeliveryThrows
  <2>1. PICK s \in sending : sending' = sending \ {s} /\ Release(s.stale)
    BY <1>3 DEF DeliveryThrows
  <2>2. LockInv'
    BY <1>3, <2>1, SendOverLock DEF DeliveryThrows, Inv, LockInv, LockTyped
  <2>3. DataTyped'
    BY <1>3 DEF DeliveryThrows, Inv, DataTyped, disk, feed, bounds, history
  <2> QED
    BY <2>2, <2>3 DEF Inv
<1>4. CASE DeliveryTimesOut
  <2>1. PICK s \in sending : SendAbandoned(s)
    BY <1>4 DEF DeliveryTimesOut
  <2> DEFINE left == LeftAfterTimeout(s)
  <2>2. left \subseteq Item /\ IsFiniteSet(left)
    BY WithoutType DEF LeftAfterTimeout, Inv, DataTyped
  <2>3. files' \subseteq File /\ (AllPlain(files) => AllPlain(files'))
    BY <2>1, <2>2, PersistType DEF SendAbandoned, Inv, DataTyped
  <2>4. /\ queue' = left /\ timeouts' = timeouts + 1
        /\ UNCHANGED <<phase, todo, pausedFile, queueSeq, delivered, pausedByOperator,
                       feed, crashes, history>>
    BY <1>4, <2>1 DEF SendAbandoned, DeliveryTimesOut
  <2>5. DataTyped'
    BY <2>2, <2>3, <2>4 DEF Inv, DataTyped, feed, history
  <2>6. late' \subseteq SUBSET Prompt /\ IsFiniteSet(late')
    BY <2>1, FS_AddElement DEF SendAbandoned, Inv, LockInv, LockTyped, Send
  <2>7. LockInv'
    BY <2>1, <2>6, SendOverLock DEF SendAbandoned, Inv
  <2> QED
    BY <2>5, <2>7 DEF Inv
<1>5. CASE LateAccepted \/ LateRefused
  <2>1. late' \subseteq late
    BY <1>5 DEF LateAccepted, LateRefused
  <2>2. UNCHANGED <<draining, watchdogDue, deliveryInFlight, reading, sending>>
    BY <1>5 DEF LateAccepted, LateRefused, Refused
  <2>3. LockInv'
    BY <2>1, <2>2, FS_Subset DEF Inv, LockInv, LockTyped, SingleFlight, LockHasOneOwner
  <2>4. DataTyped'
    <3>1. CASE LateAccepted
      <4>1. accepted' \in [Msgs -> Nat]
        BY <3>1, ArriveType, FS_Singleton DEF LateAccepted, Inv, DataTyped
      <4> QED
        BY <3>1, <4>1 DEF LateAccepted, Inv, DataTyped, disk, feed, bounds, record
    <3>2. CASE LateRefused
      BY <3>2, RefusedData DEF LateRefused, Refused, bounds
    <3> QED
      BY <1>5, <3>1, <3>2
  <2> QED
    BY <2>3, <2>4 DEF Inv
<1> QED
  BY <1>1, <1>2, <1>3, <1>4, <1>5

(* A forced delivery that finds its item on a well-typed queue and directory. *)
LEMMA ForceInv ==
  ASSUME Inv, phase = "up",
         NEW q, q \subseteq Item, IsFiniteSet(q), NEW fs, fs \subseteq File, AllPlain(fs),
         NEW next \in q, NEW named, ForceOn(q, fs, next, named)
  PROVE  Inv'
<1>1. queue' = q /\ UNCHANGED <<phase, todo, pausedFile, queueSeq, delivered,
                                pausedByOperator, feed, bounds, history>>
  BY DEF ForceOn
<1>2. CASE CanAcquire
  <2>1. AcquireAndSend(q, next, named, fs)
    BY <1>2 DEF ForceOn
  <2>2. LockInv'
    BY <1>2, <2>1, AcquireAndSendLock DEF Inv
  <2>3. files' \subseteq File /\ AllPlain(files')
    BY <2>1, ClaimType DEF AcquireAndSend, StartSend
  <2>4. DataTyped'
    BY <1>1, <2>3 DEF Inv, DataTyped, feed, bounds, history
  <2> QED
    BY <2>2, <2>4 DEF Inv
<1>3. CASE ~CanAcquire
  <2>1. files' = fs /\ UNCHANGED lock
    BY <1>3 DEF ForceOn
  <2>2. DataTyped'
    BY <1>1, <2>1 DEF Inv, DataTyped, feed, bounds, history
  <2> QED
    BY <2>1, <2>2, LockStutter DEF Inv
<1> QED
  BY <1>2, <1>3

LEMMA OperatingInv ==
  ASSUME Inv, Operating
  PROVE  Inv'
<1>1. CASE Pause
  <2>1. DataTyped'
    BY <1>1 DEF Pause, Inv, DataTyped, feed, bounds, history
  <2> QED
    BY <1>1, <2>1, LockStutter DEF Pause, Inv
<1>2. CASE Resume
  <2>1. DataTyped'
    BY <1>2 DEF Resume, Inv, DataTyped, feed, bounds, history
  <2>2. LockInv'
    BY <1>2, StartDrainLock DEF Resume, Inv, DataTyped
  <2> QED
    BY <2>1, <2>2 DEF Inv
<1>3. CASE DropQueue
  <2> DEFINE kept == {f \in files : f.consumed \/ f.ext \notin StuckExts}
  <2>1. /\ phase = "up" /\ queue' = {} /\ files' = Persist(kept, {})
        /\ removed' = removed \cup MsgsOf(queue) \cup {f.msg : f \in files \ kept}
        /\ UNCHANGED <<phase, todo, pausedFile, queueSeq, delivered, pausedByOperator,
                       lock, feed, bounds, accepted, confirmed, record>>
    BY <1>3 DEF DropQueue
  <2>2. files' \subseteq File /\ (AllPlain(files) => AllPlain(files'))
    <3>1. kept \subseteq File /\ (AllPlain(files) => AllPlain(kept))
      BY DEF Inv, DataTyped, AllPlain
    <3> QED
      BY <2>1, <3>1, PersistType
  <2>3. removed' \subseteq Msgs
    BY <2>1 DEF Inv, DataTyped, MsgsOf, Item, File
  <2>4. IsFiniteSet(queue') /\ queue' \subseteq Item
    BY <2>1, FS_EmptySet
  <2>5. DataTyped'
    BY <2>1, <2>2, <2>3, <2>4 DEF Inv, DataTyped, feed, bounds, record
  <2> QED
    BY <2>1, <2>5, LockStutter DEF Inv
<1>4. ASSUME NEW seq \in Seqs(queue) \cup StuckSeqs(files), DropMessage(seq)
      PROVE  Inv'
  <2> DEFINE left == Without(queue, {seq})
             kept == IF Seqs(left) # Seqs(queue)
                       THEN Persist(files, left) ELSE DropStuck(files, seq)
  <2>1. /\ phase = "up" /\ queue' = left /\ files' = kept
        /\ removed' = removed \cup IF Seqs(left) # Seqs(queue)
                                   THEN {i.msg : i \in {i \in queue : i.seq = seq}}
                                   ELSE {f.msg : f \in files \ kept}
        /\ UNCHANGED <<phase, todo, pausedFile, queueSeq, delivered, pausedByOperator,
                       lock, feed, bounds, accepted, confirmed, record>>
    BY <1>4 DEF DropMessage
  <2>2. left \subseteq Item /\ IsFiniteSet(left)
    BY WithoutType DEF Inv, DataTyped
  <2>3. kept \subseteq File /\ (AllPlain(files) => AllPlain(kept))
    <3>1. DropStuck(files, seq) \subseteq files
      BY DEF DropStuck
    <3> QED
      BY <2>2, <3>1, PersistType DEF Inv, DataTyped, AllPlain
  <2>4. removed' \subseteq Msgs
    <3>1. {i.msg : i \in {i \in queue : i.seq = seq}} \subseteq Msgs
      BY DEF Inv, DataTyped, Item
    <3>2. {f.msg : f \in files \ kept} \subseteq Msgs
      BY DEF Inv, DataTyped, File
    <3> HIDE DEF left, kept
    <3> QED
      BY <2>1, <3>1, <3>2 DEF Inv, DataTyped
  <2> HIDE DEF left, kept
  <2>5. DataTyped'
    BY <2>1, <2>2, <2>3, <2>4 DEF Inv, DataTyped, feed, bounds, record
  <2> QED
    BY <2>1, <2>5, LockStutter DEF Inv
<1>5. CASE ForceDeliver
  <2>1. /\ phase = "up" /\ files \subseteq File /\ AllPlain(files)
        /\ queue \subseteq Item /\ IsFiniteSet(queue)
    BY <1>5 DEF ForceDeliver, Inv, DataTyped
  <2>2. ASSUME NEW i \in queue, ForceOn(queue, files, i, TRUE)
        PROVE  Inv'
    BY <2>1, <2>2, ForceInv
  <2>3. ASSUME queue # {}, ForceOn(queue, files, First(queue), FALSE)
        PROVE  Inv'
    BY <2>1, <2>3, FirstIsQueued, ForceInv
  <2>4. ASSUME NEW seq, NEW named, NEW f \in RetryStuck(files, seq), f.seq = seq,
               ForceOn(Push(queue, seq, f.msg),
                       Persist(RetryStuck(files, seq), Push(queue, seq, f.msg)),
                       CHOOSE i \in Push(queue, seq, f.msg) : i.seq = seq, named)
        PROVE  Inv'
    <3> DEFINE q == Push(queue, seq, f.msg)
               fs == Persist(RetryStuck(files, seq), q)
               next == CHOOSE i \in q : i.seq = seq
    <3>1. RetryStuck(files, seq) \subseteq File /\ AllPlain(RetryStuck(files, seq))
      BY <2>1, RetryStuckType
    <3>2. seq \in Nat /\ f.msg \in Msgs
      BY <2>4, <3>1 DEF File
    <3>3. q \subseteq Item /\ IsFiniteSet(q)
      BY <2>1, <3>2, PushType
    <3>4. fs \subseteq File /\ AllPlain(fs)
      BY <3>1, <3>3, PersistType
    <3>5. \E i \in q : i.seq = seq
      <4> DEFINE pushed == [seq |-> seq, msg |-> f.msg, place |-> Cardinality(queue) + 1]
      <4>1. pushed \in q /\ pushed.seq = seq
        BY DEF Push
      <4> QED
        BY <4>1
    <3>6. next \in q
      BY <3>5
    <3>7. ForceOn(q, fs, next, named)
      BY <2>4
    <3> HIDE DEF q, fs, next
    <3> QED
      BY <2>1, <3>3, <3>4, <3>6, <3>7, ForceInv
  <2> QED
    BY <1>5, <2>2, <2>3, <2>4 DEF ForceDeliver
<1> QED
  BY <1>1, <1>2, <1>3, <1>4, <1>5 DEF Operating

LEMMA StutterInv ==
  ASSUME Inv, UNCHANGED vars
  PROVE  Inv'
<1>1. DataTyped'
  BY DEF Inv, DataTyped, AllPlain, vars, disk, feed, bounds, history
<1>2. LockInv'
  BY LockStutter DEF Inv, vars
<1> QED
  BY <1>1, <1>2 DEF Inv

LEMMA InvInductive == Inv /\ [Next]_vars => Inv'
<1> SUFFICES ASSUME Inv, [Next]_vars PROVE Inv'
  OBVIOUS
<1>1. CASE Restoring
  BY <1>1, RestoringInv
<1>2. CASE Crash
  BY <1>2, CrashInv
<1>3. CASE Post \/ Rediscover
  BY <1>3, ArrivalInv
<1>4. CASE Delivering
  BY <1>4, DrainingInv, AnswerInv DEF Delivering
<1>5. CASE Operating
  BY <1>5, OperatingInv
<1>6. CASE UNCHANGED vars
  BY <1>6, StutterInv
<1> QED
  BY <1>1, <1>2, <1>3, <1>4, <1>5, <1>6 DEF Next

LEMMA InvAlways == Spec => []Inv
BY InvInit, InvInductive, PTL DEF Spec

-----------------------------------------------------------------------------
(* Every reachable state of the engine and of its directory has its type, and *)
(* no restore is left half done once the process serves.                      *)
THEOREM TypeCorrect == Spec => []TypeOK
BY InvAlways, InvImpliesTypeOK, PTL

(* No two pastes for a session are ever awaited at once, whatever the number  *)
(* of wedged drains, watchdog reclaims, pump ticks and forced deliveries.     *)
THEOREM OnePasteAtATime == Spec => []SingleFlight
<1>1. Inv => SingleFlight
  BY DEF Inv, LockInv
<1> QED
  BY <1>1, InvAlways, PTL

(* The drain lock is held exactly while one live drain or send owns it.       *)
THEOREM LockOwned == Spec => []LockHasOneOwner
<1>1. Inv => LockHasOneOwner
  BY DEF Inv, LockInv
<1> QED
  BY <1>1, InvAlways, PTL

(* One paste at a time under one owner of the lock, for any number of drains, *)
(* reclaims, pump ticks, forced deliveries and crashes.                       *)
THEOREM LockDisciplined == Spec => []LockDiscipline
<1>1. SingleFlight /\ LockHasOneOwner => LockDiscipline
  BY DEF LockDiscipline
<1> QED
  BY <1>1, OnePasteAtATime, LockOwned, PTL

-----------------------------------------------------------------------------
(* What the operations on the array keep: renumbering changes places alone.  *)

LEMMA ClosedKeeps ==
  ASSUME NEW q
  PROVE  /\ \A i \in Closed(q) : \E j \in q : i.seq = j.seq /\ i.msg = j.msg
         /\ q \subseteq Item =>
              \A j \in q : \E i \in Closed(q) : i.seq = j.seq /\ i.msg = j.msg
<1> DEFINE moved(i) == [i EXCEPT !.place = Cardinality({j \in q : j.place <= i.place})]
<1>1. \A i \in q : i \in Item => moved(i).seq = i.seq /\ moved(i).msg = i.msg
  BY DEF Item
<1>2. ASSUME NEW i \in Closed(q)
      PROVE  \E j \in q : i.seq = j.seq /\ i.msg = j.msg
  <2>1. PICK j \in q : i = moved(j)
    BY <1>2 DEF Closed
  <2>2. i.seq = j.seq /\ i.msg = j.msg
    BY <2>1
  <2> QED
    BY <2>2
<1>3. ASSUME q \subseteq Item, NEW j \in q
      PROVE  \E i \in Closed(q) : i.seq = j.seq /\ i.msg = j.msg
  <2>1. moved(j) \in Closed(q)
    BY DEF Closed
  <2> QED
    BY <1>1, <1>3, <2>1
<1> QED
  BY <1>2, <1>3

LEMMA WithoutKeeps ==
  ASSUME NEW q, NEW seqs
  PROVE  /\ \A i \in Without(q, seqs) :
              \E j \in q : i.seq = j.seq /\ i.msg = j.msg /\ j.seq \notin seqs
         /\ q \subseteq Item =>
              \A j \in q : j.seq \notin seqs =>
                 \E i \in Without(q, seqs) : i.seq = j.seq /\ i.msg = j.msg
<1> DEFINE kept == {i \in q : i.seq \notin seqs}
<1>1. Without(q, seqs) = Closed(kept)
  BY DEF Without
<1>2. \A j \in kept : j \in q /\ j.seq \notin seqs
  OBVIOUS
<1>3. \A j \in q : j.seq \notin seqs => j \in kept
  OBVIOUS
<1> HIDE DEF kept
<1> QED
  BY <1>1, <1>2, <1>3, ClosedKeeps

LEMMA NewestKeeps ==
  ASSUME NEW q, q \subseteq Item
  PROVE  \A i \in Newest(q) : \E j \in q : i.seq = j.seq /\ i.msg = j.msg
<1> DEFINE kept == {i \in q : Cardinality({j \in q : j.place > i.place}) < MaxQueue}
<1>1. Newest(q) = Closed(kept) /\ kept \subseteq q
  BY DEF Newest
<1> HIDE DEF kept
<1> QED
  BY <1>1, ClosedKeeps

(* A queue that is not empty has a last item of each number. *)
LEMMA GreatestNumber ==
  ASSUME NEW P, P \subseteq Nat, IsFiniteSet(P), P # {}
  PROVE  \E x \in P : \A y \in P : y <= x
<1> DEFINE above(x) == {y \in P : y > x}
           T == {above(x) : x \in P}
<1>1. T \subseteq FiniteSubsetsOf(P) /\ T # {}
  <2>1. \A x \in P : above(x) \subseteq P /\ IsFiniteSet(above(x))
    BY FS_Subset
  <2> QED
    BY <2>1 DEF FiniteSubsetsOf
<1>2. PICK t \in T : \A u \in T : ~(<<u, t>> \in StrictSubsetOrdering(P))
  BY <1>1, FS_StrictSubsetOrderingWellFounded, WFMin
<1>3. PICK x \in P : t = above(x)
  BY <1>2
<1>4. ASSUME NEW y \in P, ~(y <= x)
      PROVE  FALSE
  <2>1. above(y) \subseteq above(x) /\ above(y) # above(x)
    <3>1. y > x /\ x \in Nat /\ y \in Nat
      BY <1>4
    <3>2. y \in above(x) /\ y \notin above(y)
      BY <3>1
    <3>3. \A z \in P : z > y => z > x
      BY <3>1
    <3> QED
      BY <3>2, <3>3
  <2>2. <<above(y), above(x)>> \in StrictSubsetOrdering(P)
    BY <2>1 DEF StrictSubsetOrdering
  <2> QED
    BY <1>2, <1>3, <2>2
<1> QED
  BY <1>4

LEMMA PlacesFinite ==
  ASSUME NEW q, q \subseteq Item, IsFiniteSet(q)
  PROVE  IsFiniteSet({i.place : i \in q}) /\ {i.place : i \in q} \subseteq Nat
<1> DEFINE place == [i \in q |-> i.place]
<1>1. place \in Surjection(q, {i.place : i \in q})
  BY DEF Surjection
<1> QED
  BY <1>1, FS_Surjection DEF Item

(* persistQueue gives every queued number its .json and takes no claim away. *)
LEMMA PersistBacks ==
  ASSUME NEW fs, NEW q, q \subseteq Item, IsFiniteSet(q)
  PROVE  /\ \A i \in q : Has(Persist(fs, q), i.seq, "json")
         /\ \A seq : Has(fs, seq, "delivering") => Has(Persist(fs, q), seq, "delivering")
<1>1. ASSUME NEW i \in q
      PROVE  Has(Persist(fs, q), i.seq, "json")
  <2> DEFINE same == {j \in q : j.seq = i.seq}
             P == {j.place : j \in same}
  <2>1. same \subseteq Item /\ IsFiniteSet(same) /\ i \in same
    BY FS_Subset
  <2>2. P \subseteq Nat /\ IsFiniteSet(P) /\ P # {}
    BY <2>1, PlacesFinite
  <2>3. PICK x \in P : \A y \in P : y <= x
    BY <2>2, GreatestNumber
  <2>4. PICK j \in same : x = j.place
    BY <2>3
  <2>5. j \in q /\ j.seq = i.seq /\ \A k \in q : k.seq = j.seq => k.place <= j.place
    BY <2>3, <2>4
  <2> DEFINE f == [seq |-> j.seq, ext |-> "json", consumed |-> FALSE, msg |-> j.msg]
  <2>6. f \in Snapshot(q)
    BY <2>5 DEF Snapshot
  <2> QED
    BY <2>5, <2>6 DEF Persist, Has, Plain
<1>2. ASSUME NEW seq, Has(fs, seq, "delivering")
      PROVE  Has(Persist(fs, q), seq, "delivering")
  BY <1>2 DEF Persist, Has, Plain
<1> QED
  BY <1>1, <1>2

(* A number is held when a file of its own would queue it again. *)
Held(fs, seq) == Has(fs, seq, "json") \/ Has(fs, seq, "delivering")

LEMMA ClaimCovers ==
  ASSUME NEW fs, fs \subseteq File, NEW seqs
  PROVE  /\ \A seq : Held(fs, seq) => Held(Claim(fs, seqs), seq)
         /\ \A seq \in seqs : Held(fs, seq) => Has(Claim(fs, seqs), seq, "delivering")
         /\ \A seq : Has(fs, seq, "delivering") => Has(Claim(fs, seqs), seq, "delivering")
<1> DEFINE to(f) == IF Plain(f, "json") /\ f.seq \in seqs /\ ~Has(fs, f.seq, "delivering")
                      THEN [f EXCEPT !.ext = "delivering"] ELSE f
<1>1. \A f \in fs : to(f) \in Claim(fs, seqs)
  BY DEF Claim
<1>2. ASSUME NEW f \in fs, Plain(f, "delivering")
      PROVE  Has(Claim(fs, seqs), f.seq, "delivering")
  BY <1>1, <1>2 DEF Has, Plain
<1>3. ASSUME NEW f \in fs, Plain(f, "json")
      PROVE  /\ Held(Claim(fs, seqs), f.seq)
             /\ f.seq \in seqs => Has(Claim(fs, seqs), f.seq, "delivering")
  <2>1. CASE f.seq \in seqs /\ ~Has(fs, f.seq, "delivering")
    <3>1. to(f) = [f EXCEPT !.ext = "delivering"]
      BY <1>3, <2>1
    <3>2. Plain(to(f), "delivering") /\ to(f).seq = f.seq
      BY <1>3, <3>1 DEF Plain, File
    <3> QED
      BY <1>1, <3>2 DEF Held, Has
  <2>2. CASE f.seq \notin seqs
    BY <1>1, <1>3, <2>2 DEF Held, Has, Plain
  <2>3. CASE Has(fs, f.seq, "delivering")
    BY <1>2, <2>3 DEF Held, Has
  <2> QED
    BY <2>1, <2>2, <2>3
<1> QED
  BY <1>2, <1>3 DEF Held, Has

LEMMA ConfirmKeeps ==
  ASSUME NEW fs, NEW seqs
  PROVE  \A seq : Has(fs, seq, "json") => Has(Confirm(fs, seqs), seq, "json")
BY DEF Confirm, Has, Plain

LEMMA RevertHolds ==
  ASSUME NEW fs, fs \subseteq File
  PROVE  \A seq : Held(fs, seq) => Held(RevertAllDelivering(fs), seq)
<1>1. ASSUME NEW f \in fs, Plain(f, "delivering")
      PROVE  Has(RevertAllDelivering(fs), f.seq, "json")
  <2> DEFINE g == [f EXCEPT !.ext = "json"]
  <2>1. g \in RevertAllDelivering(fs)
    BY <1>1 DEF RevertAllDelivering, Plain
  <2>2. g.seq = f.seq /\ Plain(g, "json")
    BY <1>1 DEF Plain, File
  <2> QED
    BY <2>1, <2>2 DEF Has
<1>2. ASSUME NEW f \in fs, Plain(f, "json"), ~Has(fs, f.seq, "delivering")
      PROVE  Has(RevertAllDelivering(fs), f.seq, "json")
  BY <1>2 DEF RevertAllDelivering, Plain, Has
<1> QED
  BY <1>1, <1>2 DEF Held, Has

LEMMA StuckKeeps ==
  ASSUME NEW fs, NEW seq
  PROVE  \A s : /\ Held(fs, s) => Held(DropStuck(fs, seq), s)
                /\ Has(fs, s, "delivering") => Has(DropStuck(fs, seq), s, "delivering")
                /\ Has(fs, s, "delivering") => Has(RetryStuck(fs, seq), s, "delivering")
BY DEF Held, Has, Plain, DropStuck, RetryStuck, StuckFile, StuckExts

-----------------------------------------------------------------------------
(* Claims: what is sent is marked on disk.                                   *)

(* Only a process that serves has drains and sends, every queued prompt of it *)
(* has a file of its number, and what it sends is claimed - as long as no     *)
(* send was given up, whose late refusal reverts the claims of the others.    *)
Resting == phase # "up" => reading = {} /\ sending = {} /\ late = {}
Backed  == phase \in {"cleaning", "up"} => \A i \in queue : Held(files, i.seq)
Claimed == timeouts = 0 => late = {} /\ ClaimedWhileSending

ClaimInv == Resting /\ Backed /\ Claimed

LEMMA ClaimInit == Init => ClaimInv
BY DEF Init, ClaimInv, Resting, Backed, Claimed, ClaimedWhileSending

(* A drain that starts leaves the sends alone: there are none when it can. *)
LEMMA StartDrainSends ==
  ASSUME LockInv, NEW q, NEW p, StartDrain(q, p)
  PROVE  UNCHANGED <<sending, late>>
<1>1. CASE UNCHANGED lock
  BY <1>1 DEF lock
<1>2. CASE CanAcquire /\ sending' = Superseded(sending) /\ UNCHANGED late
  <2>1. sending = {} /\ sending' = {}
    BY <1>2, AcquireIsSafe DEF Superseded
  <2> QED
    BY <1>2, <2>1
<1> QED
  BY <1>1, <1>2 DEF StartDrain

(* Steps of a serving process that leave its sends alone, or end some, and  *)
(* keep the claims. *)
LEMMA KeepsClaims ==
  ASSUME ClaimInv, phase \in {"cleaning", "up"}, phase' = "up",
         sending' \subseteq sending, UNCHANGED late, timeouts' = timeouts,
         \A i \in queue' : Held(files', i.seq),
         sending' # {} => \A seq : Has(files, seq, "delivering") => Has(files', seq, "delivering")
  PROVE  ClaimInv'
BY DEF ClaimInv, Resting, Backed, Claimed, ClaimedWhileSending

(* A send from a queue whose files exist claims them. *)
LEMMA StartSendClaims ==
  ASSUME ClaimInv, phase = "up", phase' = "up", UNCHANGED <<late, timeouts>>,
         NEW q, NEW next \in q, NEW forced, NEW fs, fs \subseteq File,
         \A i \in q : Held(fs, i.seq), queue' = q,
         StartSend(q, next, forced, fs, {})
  PROVE  ClaimInv'
<1> DEFINE items == {[seq |-> i.seq, msg |-> i.msg] : i \in Covered(q, next, forced)}
           s == [items |-> items, next |-> next.seq, stale |-> FALSE]
<1>1. Covered(q, next, forced) \subseteq q
  BY DEF Covered
<1>2. sending' = {s} /\ files' = Claim(fs, Seqs(items))
  BY DEF StartSend
<1>3. ASSUME NEW p \in items
      PROVE  Has(files', p.seq, "delivering")
  <2>1. PICK i \in q : p.seq = i.seq
    BY <1>1
  <2>2. p.seq \in Seqs(items)
    BY DEF Seqs
  <2> QED
    BY <1>2, <2>1, <2>2, ClaimCovers
<1>4. \A i \in queue' : Held(files', i.seq)
  BY <1>2, ClaimCovers
<1>5. s.items = items
  OBVIOUS
<1> HIDE DEF s, items
<1> QED
  BY <1>2, <1>3, <1>4, <1>5 DEF ClaimInv, Resting, Backed, Claimed, ClaimedWhileSending

LEMMA AcquireAndSendClaims ==
  ASSUME Inv, ClaimInv, CanAcquire, phase = "up", phase' = "up", UNCHANGED timeouts,
         NEW q, NEW next \in q, NEW forced, NEW fs, fs \subseteq File,
         \A i \in q : Held(fs, i.seq), queue' = q,
         AcquireAndSend(q, next, forced, fs)
  PROVE  ClaimInv'
<1>1. Superseded(sending) = {}
  BY AcquireIsSafe DEF Superseded, Inv
<1>2. StartSend(q, next, forced, fs, {}) /\ UNCHANGED late
  BY <1>1 DEF AcquireAndSend
<1> QED
  BY <1>2, StartSendClaims

LEMMA RestoringClaims ==
  ASSUME Inv, ClaimInv, Restoring
  PROVE  ClaimInv'
<1>1. CASE Boot \/ RestoreFile
  BY <1>1 DEF Boot, RestoreFile, ClaimInv, Resting, Backed, Claimed, ClaimedWhileSending, lock, bounds
<1>2. CASE RestoreSave
  <2>1. \A i \in queue : Held(Persist(files, queue), i.seq)
    BY PersistBacks DEF Held, Inv, DataTyped
  <2> QED
    BY <1>2, <2>1 DEF RestoreSave, ClaimInv, Resting, Backed, Claimed, ClaimedWhileSending, lock, bounds
<1>3. CASE RemoveTombstone
  <2>1. PICK f \in files : f.consumed /\ files' = files \ {f}
    BY <1>3 DEF RemoveTombstone
  <2>2. \A seq : Held(files, seq) => Held(files', seq)
    BY <2>1 DEF Held, Has, Plain
  <2> QED
    BY <1>3, <2>2 DEF RemoveTombstone, ClaimInv, Resting, Backed, Claimed, ClaimedWhileSending, lock, bounds
<1>4. CASE FinishRestore
  <2>1. UNCHANGED <<sending, late>>
    BY <1>4, StartDrainSends DEF FinishRestore, Inv
  <2> QED
    BY <1>4, <2>1 DEF FinishRestore, ClaimInv, Resting, Backed, Claimed, ClaimedWhileSending, disk, bounds
<1> QED
  BY <1>1, <1>2, <1>3, <1>4 DEF Restoring

LEMMA ArrivalClaims ==
  ASSUME Inv, ClaimInv, Post \/ Rediscover
  PROVE  ClaimInv'
<1>1. PICK m \in Msgs, seq \in Nat : Enqueue(m, seq)
  <2>1. posted < NumMsgs => posted + 1 \in Msgs
    BY DeliveryAssumption DEF Inv, DataTyped, Msgs
  <2>2. fresh \subseteq Msgs
    BY DEF Inv, DataTyped
  <2> QED
    BY <2>1, <2>2, NextNumber DEF Post, Rediscover
<1>2. phase = "up" /\ UNCHANGED <<phase, timeouts>>
  BY DEF Post, Rediscover, bounds
<1>3. CASE Seen(m)
  BY <1>1, <1>2, <1>3, KeepsClaims DEF Enqueue, ClaimInv, Backed, lock
<1>4. CASE ~Seen(m)
  <2> DEFINE q == Newest(Push(queue, seq, m))
  <2>1. q \subseteq Item /\ IsFiniteSet(q)
    BY PushType, NewestType DEF Inv, DataTyped
  <2>2. queue' = q /\ files' = Persist(files, q) /\ StartDrain(q, pausedByOperator)
    BY <1>1, <1>4 DEF Enqueue
  <2>3. UNCHANGED <<sending, late>>
    BY <2>2, StartDrainSends DEF Inv
  <2>4. /\ \A i \in queue' : Held(files', i.seq)
        /\ \A old : Has(files, old, "delivering") => Has(files', old, "delivering")
    BY <2>1, <2>2, PersistBacks DEF Held
  <2> QED
    BY <1>2, <2>3, <2>4, KeepsClaims
<1> QED
  BY <1>3, <1>4

LEMMA DeliveringClaims ==
  ASSUME Inv, ClaimInv, Delivering
  PROVE  ClaimInv'
<1>1. CASE DrainHolds
  <2>1. PICK d \in reading : DrainBails(d)
    BY <1>1 DEF DrainHolds
  <2> QED
    BY <2>1, KeepsClaims DEF DrainBails, ClaimInv, Resting, Backed, disk, bounds, Inv, DataTyped
<1>2. CASE DrainDelivers
  <2>1. PICK d \in reading : DrainSends(d)
    BY <1>2 DEF DrainDelivers
  <2>2. phase = "up"
    BY DEF ClaimInv, Resting
  <2>3. First(queue) \in queue /\ ~d.stale
    BY <2>1, FirstIsQueued DEF DrainSends, StillOwns, Inv, DataTyped
  <2>4. sending = {}
    BY <2>3 DEF Inv, LockInv, LockHasOneOwner, SingleFlight
  <2>5. StartSend(queue, First(queue), FALSE, files, {}) /\ UNCHANGED <<phase, queue, late, timeouts>>
    BY <2>1, <2>4 DEF DrainSends, bounds
  <2>6. \A i \in queue : Held(files, i.seq)
    BY <2>2 DEF ClaimInv, Backed
  <2> QED
    BY <2>2, <2>3, <2>5, <2>6, StartSendClaims DEF Inv, DataTyped
<1>3. CASE PumpDelivers
  <2>1. First(queue) \in queue /\ phase = "up" /\ CanAcquire
    BY <1>3, FirstIsQueued DEF PumpDelivers, Inv, DataTyped
  <2>2. AcquireAndSend(queue, First(queue), FALSE, files) /\ UNCHANGED <<phase, queue, timeouts>>
    BY <1>3 DEF PumpDelivers, bounds
  <2>3. \A i \in queue : Held(files, i.seq)
    BY <2>1 DEF ClaimInv, Backed
  <2> QED
    BY <2>1, <2>2, <2>3, AcquireAndSendClaims DEF Inv, DataTyped
<1>4. CASE PumpHolds
  <2>1. sending = {} /\ sending' = {}
    BY <1>4, AcquireIsSafe DEF PumpHolds, Superseded, Inv
  <2> QED
    BY <1>4, <2>1, KeepsClaims DEF PumpHolds, ClaimInv, Backed, disk, bounds
<1>5. CASE WatchdogElapses
  BY <1>5 DEF WatchdogElapses, ClaimInv, Resting, Backed, Claimed, ClaimedWhileSending, disk, bounds
<1>6. ASSUME NEW s \in sending, sending' = sending \ {s}
      PROVE  sending' = {} /\ phase = "up"
  BY <1>6 DEF Inv, LockInv, SingleFlight, ClaimInv, Resting
<1>7. CASE DeliveryAccepted
  <2>1. PICK s \in sending : SendAccepted(s)
    BY <1>7 DEF DeliveryAccepted
  <2> DEFINE left == Without(queue, Seqs(s.items))
  <2>2. left \subseteq Item /\ IsFiniteSet(left)
    BY WithoutType DEF Inv, DataTyped
  <2>3. \A i \in left : Held(Confirm(Persist(files, left), Seqs(s.items)), i.seq)
    BY <2>2, PersistBacks, ConfirmKeeps DEF Held
  <2>4. /\ queue' = left /\ files' = Confirm(Persist(files, left), Seqs(s.items))
        /\ sending' = sending \ {s} /\ UNCHANGED <<phase, late, timeouts>>
    BY <2>1 DEF SendAccepted, bounds
  <2> HIDE DEF left
  <2> QED
    BY <1>6, <2>3, <2>4, KeepsClaims
<1>8. CASE DeliveryRefused
  <2>1. PICK s \in sending : Refused(s.items) /\ sending' = sending \ {s}
    BY <1>8 DEF DeliveryRefused
  <2>2. files' = RevertAllDelivering(files) /\ UNCHANGED <<phase, queue, late, timeouts>>
    BY <1>8, <2>1 DEF DeliveryRefused, Refused, bounds
  <2>3. phase = "up" /\ sending' = {}
    BY <1>6, <2>1
  <2>4. \A i \in queue' : Held(files', i.seq)
    BY <2>2, <2>3, RevertHolds DEF ClaimInv, Backed, Inv, DataTyped
  <2> QED
    BY <2>2, <2>3, <2>4, KeepsClaims
<1>9. CASE DeliveryThrows
  <2>1. PICK s \in sending : sending' = sending \ {s}
    BY <1>9 DEF DeliveryThrows
  <2>2. UNCHANGED <<phase, files, queue, late, timeouts>>
    BY <1>9 DEF DeliveryThrows, disk, bounds
  <2> QED
    BY <1>6, <2>1, <2>2, KeepsClaims DEF ClaimInv, Backed
<1>10. CASE DeliveryTimesOut
  <2>1. PICK s \in sending : SendAbandoned(s)
    BY <1>10 DEF DeliveryTimesOut
  <2> DEFINE left == Without(queue, {s.next})
  <2>2. left \subseteq Item /\ IsFiniteSet(left)
    BY WithoutType DEF Inv, DataTyped
  <2>3. \A i \in left : Held(Persist(files, left), i.seq)
    BY <2>2, PersistBacks DEF Held
  <2>4. /\ queue' = left /\ files' = Persist(files, left)
        /\ sending' = sending \ {s} /\ UNCHANGED phase /\ timeouts' = timeouts + 1
    BY <1>10, <2>1 DEF SendAbandoned, DeliveryTimesOut, LeftAfterTimeout
  <2>5. timeouts' # 0
    BY <2>4 DEF Inv, DataTyped
  <2> HIDE DEF left
  <2> QED
    BY <1>6, <2>3, <2>4, <2>5 DEF ClaimInv, Resting, Backed, Claimed
<1>11. CASE LateAccepted \/ LateRefused
  <2>1. PICK items \in late : late' = late \ {items}
    BY <1>11 DEF LateAccepted, LateRefused
  <2>2. phase = "up" /\ timeouts # 0
    BY <2>1 DEF ClaimInv, Resting, Claimed
  <2>3. UNCHANGED <<phase, queue, timeouts>>
    BY <1>11 DEF LateAccepted, LateRefused, Refused, bounds
  <2>4. \A i \in queue' : Held(files', i.seq)
    <3>1. files' = files \/ files' = RevertAllDelivering(files)
      BY <1>11 DEF LateAccepted, LateRefused, Refused, disk
    <3> QED
      BY <2>2, <2>3, <3>1, RevertHolds DEF ClaimInv, Backed, Inv, DataTyped
  <2> QED
    BY <2>2, <2>3, <2>4 DEF ClaimInv, Resting, Backed, Claimed
<1> QED
  BY <1>1, <1>2, <1>3, <1>4, <1>5, <1>7, <1>8, <1>9, <1>10, <1>11 DEF Delivering

LEMMA OperatingClaims ==
  ASSUME Inv, ClaimInv, Operating
  PROVE  ClaimInv'
<1>1. CASE Pause
  BY <1>1 DEF Pause, ClaimInv, Resting, Backed, Claimed, ClaimedWhileSending, lock, bounds
<1>2. CASE Resume
  <2>1. UNCHANGED <<sending, late>>
    BY <1>2, StartDrainSends DEF Resume, Inv
  <2> QED
    BY <1>2, <2>1, KeepsClaims DEF Resume, ClaimInv, Backed, bounds
<1>3. CASE DropQueue
  <2> DEFINE kept == {f \in files : f.consumed \/ f.ext \notin StuckExts}
  <2>1. /\ phase = "up" /\ queue' = {} /\ files' = Persist(kept, {})
        /\ UNCHANGED <<phase, sending, late, timeouts>>
    BY <1>3 DEF DropQueue, lock, bounds
  <2>2. \A seq : Has(files, seq, "delivering") => Has(kept, seq, "delivering")
    BY DEF Has, Plain, StuckExts
  <2>3. \A seq : Has(kept, seq, "delivering") => Has(files', seq, "delivering")
    BY <2>1, PersistBacks, FS_EmptySet
  <2> HIDE DEF kept
  <2> QED
    BY <2>1, <2>2, <2>3, KeepsClaims
<1>4. ASSUME NEW seq, DropMessage(seq)
      PROVE  ClaimInv'
  <2> DEFINE left == Without(queue, {seq})
  <2>1. /\ phase = "up" /\ queue' = left
        /\ files' = IF Seqs(left) # Seqs(queue) THEN Persist(files, left) ELSE DropStuck(files, seq)
        /\ UNCHANGED <<phase, sending, late, timeouts>>
    BY <1>4 DEF DropMessage, lock, bounds
  <2>2. left \subseteq Item /\ IsFiniteSet(left)
    BY WithoutType DEF Inv, DataTyped
  <2>3. \A i \in left : \E j \in queue : i.seq = j.seq
    BY WithoutKeeps
  <2> HIDE DEF left
  <2>4. CASE Seqs(left) # Seqs(queue)
    BY <2>1, <2>2, <2>4, PersistBacks, KeepsClaims DEF Held
  <2>5. CASE Seqs(left) = Seqs(queue)
    <3>1. files' = DropStuck(files, seq)
      BY <2>1, <2>5
    <3>2. \A i \in queue' : Held(files', i.seq)
      BY <2>1, <2>3, <3>1, StuckKeeps DEF ClaimInv, Backed
    <3>3. \A s : Has(files, s, "delivering") => Has(files', s, "delivering")
      BY <3>1, StuckKeeps
    <3> QED
      BY <2>1, <3>2, <3>3, KeepsClaims
  <2> QED
    BY <2>4, <2>5
<1>5. CASE ForceDeliver
  <2>1. phase = "up" /\ files \subseteq File /\ queue \subseteq Item /\ IsFiniteSet(queue)
    BY <1>5 DEF ForceDeliver, Inv, DataTyped
  <2>2. \A i \in queue : Held(files, i.seq)
    BY <2>1 DEF ClaimInv, Backed
  <2>3. ASSUME NEW q, NEW fs, fs \subseteq File, \A i \in q : Held(fs, i.seq),
               \A seq : Has(files, seq, "delivering") => Has(fs, seq, "delivering"),
               NEW next \in q, NEW named, ForceOn(q, fs, next, named)
        PROVE  ClaimInv'
    <3>1. queue' = q /\ UNCHANGED <<phase, timeouts>>
      BY <2>3 DEF ForceOn, bounds
    <3>2. CASE CanAcquire
      <4>1. AcquireAndSend(q, next, named, fs)
        BY <2>3, <3>2 DEF ForceOn
      <4> QED
        BY <2>1, <2>3, <3>1, <3>2, <4>1, AcquireAndSendClaims
    <3>3. CASE ~CanAcquire
      BY <2>1, <2>3, <3>1, <3>3, KeepsClaims DEF ForceOn, lock
    <3> QED
      BY <3>2, <3>3
  <2>4. ASSUME NEW i \in queue, ForceOn(queue, files, i, TRUE)
        PROVE  ClaimInv'
    BY <2>1, <2>2, <2>3, <2>4
  <2>5. ASSUME queue # {}, ForceOn(queue, files, First(queue), FALSE)
        PROVE  ClaimInv'
    BY <2>1, <2>2, <2>3, <2>5, FirstIsQueued
  <2>6. ASSUME NEW seq, NEW named, NEW f \in RetryStuck(files, seq), f.seq = seq,
               ForceOn(Push(queue, seq, f.msg),
                       Persist(RetryStuck(files, seq), Push(queue, seq, f.msg)),
                       CHOOSE i \in Push(queue, seq, f.msg) : i.seq = seq, named)
        PROVE  ClaimInv'
    <3> DEFINE retried == RetryStuck(files, seq)
               q == Push(queue, seq, f.msg)
               fs == Persist(retried, q)
               next == CHOOSE i \in q : i.seq = seq
    <3>1. retried \subseteq File
      BY <2>1, RetryStuckType
    <3>2. seq \in Nat /\ f.msg \in Msgs
      BY <2>6, <3>1 DEF File
    <3>3. q \subseteq Item /\ IsFiniteSet(q)
      BY <2>1, <3>2, PushType
    <3>4. fs \subseteq File
      BY <3>1, <3>3, PersistType
    <3>5. next \in q
      <4> DEFINE pushed == [seq |-> seq, msg |-> f.msg, place |-> Cardinality(queue) + 1]
      <4>1. pushed \in q /\ pushed.seq = seq
        BY DEF Push
      <4> QED
        BY <4>1
    <3>6. \A s : Has(files, s, "delivering") => Has(retried, s, "delivering")
      BY StuckKeeps
    <3>7. ForceOn(q, fs, next, named)
      BY <2>6
    <3> HIDE DEF q, retried, next
    <3>8. /\ \A i \in q : Held(fs, i.seq)
          /\ \A s : Has(files, s, "delivering") => Has(fs, s, "delivering")
      BY <3>3, <3>6, PersistBacks DEF Held
    <3> HIDE DEF fs
    <3> QED
      BY <2>3, <3>4, <3>5, <3>7, <3>8
  <2> QED
    BY <1>5, <2>4, <2>5, <2>6 DEF ForceDeliver
<1> QED
  BY <1>1, <1>2, <1>3, <1>4, <1>5 DEF Operating

LEMMA ClaimStep == Inv /\ ClaimInv /\ [Next]_vars => ClaimInv'
<1> SUFFICES ASSUME Inv, ClaimInv, [Next]_vars PROVE ClaimInv'
  OBVIOUS
<1>1. CASE Crash
  BY <1>1 DEF Crash, ClaimInv, Resting, Backed, Claimed, ClaimedWhileSending
<1>2. CASE UNCHANGED vars
  BY <1>2 DEF vars, disk, lock, bounds, ClaimInv, Resting, Backed, Claimed, ClaimedWhileSending
<1> QED
  BY <1>1, <1>2, RestoringClaims, ArrivalClaims, DeliveringClaims, OperatingClaims DEF Next

LEMMA ClaimAlways == Spec => []ClaimInv
BY ClaimInit, ClaimStep, InvAlways, PTL DEF Spec

(* While a paste is awaited its prompts are marked .delivering on disk, in   *)
(* every queue and through every restart, drop and forced delivery, as long  *)
(* as no send was given up: the late refusal of one reverts the claims of    *)
(* another (revertAllDeliveringToJson).                                      *)
THEOREM SendsAreClaimed == Spec => [](timeouts = 0 => ClaimedWhileSending)
<1>1. ClaimInv => (timeouts = 0 => ClaimedWhileSending)
  BY DEF ClaimInv, Claimed
<1> QED
  BY <1>1, ClaimAlways, PTL

-----------------------------------------------------------------------------
(* Once: what one process sends again.                                       *)

(* The prompts in the queue, in a send and in one that was given up are known *)
(* to the dedupe memory, and each is there once.                             *)
Known ==
  /\ MsgsOf(queue) \subseteq delivered
  /\ \A s \in sending : MsgsOf(s.items) \subseteq delivered
  /\ \A items \in late : MsgsOf(items) \subseteq delivered
Unique ==
  /\ \A i, j \in queue : i.msg = j.msg => i.seq = j.seq
  /\ \A s \in sending : \A p \in s.items, i \in queue : p.msg = i.msg => p.seq = i.seq

(* Prompts that are sent alone are not queued any more once they timed out.  *)
Gone ==
  Prompts = Msgs =>
    /\ \A s \in sending : \A p \in s.items : p.seq = s.next
    /\ \A items \in late : MsgsOf(items) \cap MsgsOf(queue) = {}
    /\ NotResentWhileLate

(* What reached the agent in this process is not on its way to it again.     *)
Open(m) == m \in MsgsOf(queue) \/ \E s \in sending : m \in MsgsOf(s.items)
Once ==
  MaxLost = 0 /\ timeouts = 0 =>
    \A m \in Msgs : \/ accepted[m] <= crashes
                    \/ accepted[m] = crashes + 1 /\ m \in delivered /\ ~Open(m)

OnceInv == Known /\ Unique /\ Gone /\ Once

LEMMA OnceInit == Init => OnceInv
BY DEF Init, OnceInv, Known, Unique, Gone, Once, MsgsOf, NotResentWhileLate

(* The arrival of one send counts each of its prompts once. *)
LEMMA ArriveOne ==
  ASSUME accepted \in [Msgs -> Nat], NEW items, Arrive({items})
  PROVE  \A m \in Msgs : accepted'[m] = IF m \in MsgsOf(items) THEN accepted[m] + 1 ELSE accepted[m]
<1> TAKE m \in Msgs
<1>1. accepted'[m] = accepted[m] + Cardinality({i \in {items} : m \in MsgsOf(i)})
  BY DEF Arrive
<1>2. CASE m \in MsgsOf(items)
  <2>1. {i \in {items} : m \in MsgsOf(i)} = {items}
    BY <1>2
  <2> QED
    BY <1>1, <1>2, <2>1, FS_Singleton
<1>3. CASE m \notin MsgsOf(items)
  <2>1. {i \in {items} : m \in MsgsOf(i)} = {}
    BY <1>3
  <2> QED
    BY <1>1, <1>3, <2>1, FS_EmptySet
<1> QED
  BY <1>2, <1>3

LEMMA ArriveNone ==
  ASSUME accepted \in [Msgs -> Nat], Arrive({})
  PROVE  \A m \in Msgs : accepted'[m] = accepted[m]
<1> TAKE m \in Msgs
<1>1. accepted'[m] = accepted[m] + Cardinality({i \in {} : m \in MsgsOf(i)})
  BY DEF Arrive
<1>2. {i \in {} : m \in MsgsOf(i)} = {}
  OBVIOUS
<1> QED
  BY <1>1, <1>2, FS_EmptySet

(* Steps that take from the queue and from what is sent, and no prompt reaches *)
(* the agent. *)
LEMMA LessQueued ==
  ASSUME Inv, OnceInv, UNCHANGED <<delivered, crashes, timeouts>>,
         \A i \in queue' : \E j \in queue : i.seq = j.seq /\ i.msg = j.msg,
         sending' \subseteq sending, late' \subseteq late,
         MaxLost = 0 /\ timeouts = 0 => \A m \in Msgs : accepted'[m] = accepted[m]
  PROVE  OnceInv'
<1>1. MsgsOf(queue') \subseteq MsgsOf(queue)
  BY DEF MsgsOf
<1>2. Known'
  BY <1>1 DEF OnceInv, Known, MsgsOf
<1>3. Unique'
  BY DEF OnceInv, Unique
<1>4. NotResentWhileLate => NotResentWhileLate'
  BY DEF NotResentWhileLate
<1>5. Gone'
  BY <1>1, <1>4 DEF OnceInv, Gone
<1>6. \A m : Open(m)' => Open(m)
  BY <1>1 DEF Open
<1>7. Once'
  BY <1>6 DEF OnceInv, Once
<1> QED
  BY <1>2, <1>3, <1>5, <1>7 DEF OnceInv

(* A prompt that was not seen joins the queue. *)
LEMMA MoreQueued ==
  ASSUME Inv, OnceInv, UNCHANGED <<sending, late, crashes, timeouts, accepted>>,
         NEW m \in Msgs, ~Seen(m), NEW seq \in Nat, delivered' = delivered \cup {m},
         \A i \in queue' : \/ i.seq = seq /\ i.msg = m
                           \/ \E j \in queue : i.seq = j.seq /\ i.msg = j.msg
  PROVE  OnceInv'
<1>1. MsgsOf(queue') \subseteq MsgsOf(queue) \cup {m}
  BY DEF MsgsOf
<1>2. m \notin delivered
  BY DEF Seen
<1>3. Known'
  BY <1>1 DEF OnceInv, Known
<1>4. \A s \in sending : m \notin MsgsOf(s.items)
  BY <1>2 DEF OnceInv, Known
<1>5. \A j \in queue : j.msg # m
  BY <1>2 DEF OnceInv, Known, MsgsOf
<1>6. \A s \in sending : \A p \in s.items : p.msg # m
  BY <1>4 DEF MsgsOf
<1>7. Unique'
  <2>1. \A i, j \in queue' : i.msg = j.msg => i.seq = j.seq
    BY <1>5 DEF OnceInv, Unique
  <2>2. \A s \in sending' : \A p \in s.items, i \in queue' : p.msg = i.msg => p.seq = i.seq
    BY <1>6 DEF OnceInv, Unique
  <2> QED
    BY <2>1, <2>2 DEF Unique
<1>8. \A items \in late : m \notin MsgsOf(items)
  BY <1>2 DEF OnceInv, Known
<1>9. Gone'
  <2>1. \A items \in late' : MsgsOf(items) \cap MsgsOf(queue) = {} =>
                               MsgsOf(items) \cap MsgsOf(queue') = {}
    BY <1>1, <1>8
  <2>2. NotResentWhileLate => NotResentWhileLate'
    BY DEF NotResentWhileLate
  <2> QED
    BY <2>1, <2>2 DEF OnceInv, Gone
<1>10. \A n : Open(n)' => Open(n) \/ n = m
  BY <1>1 DEF Open
<1>11. Once'
  BY <1>2, <1>10 DEF OnceInv, Once
<1> QED
  BY <1>3, <1>7, <1>9, <1>11 DEF OnceInv

(* A send starts from the queue. *)
LEMMA SendStarts ==
  ASSUME Inv, OnceInv, UNCHANGED <<queue, delivered, late, crashes, timeouts, accepted>>,
         NEW next \in queue, NEW forced, NEW fs, StartSend(queue, next, forced, fs, {})
  PROVE  OnceInv'
<1> DEFINE items == {[seq |-> i.seq, msg |-> i.msg] : i \in Covered(queue, next, forced)}
           s == [items |-> items, next |-> next.seq, stale |-> FALSE]
<1>1. sending' = {s}
  BY DEF StartSend
<1>2. \A p \in items : \E i \in queue : p.seq = i.seq /\ p.msg = i.msg
  BY DEF Covered
<1>3. MsgsOf(items) \subseteq MsgsOf(queue)
  BY <1>2 DEF MsgsOf
<1>4. s.items = items /\ s.next = next.seq
  OBVIOUS
<1>5. Prompts = Msgs => \A p \in items : p.seq = next.seq
  <2>1. \A i \in queue : i.msg \in Msgs
    BY DEF Inv, DataTyped, Item
  <2>2. Prompts = Msgs => Covered(queue, next, forced) = {next}
    BY <2>1 DEF Covered
  <2> QED
    BY <2>2
<1> HIDE DEF items, s
<1>6. Known'
  BY <1>1, <1>3, <1>4 DEF OnceInv, Known
<1>7. Unique'
  BY <1>1, <1>2, <1>4 DEF OnceInv, Unique
<1>8. Gone'
  <2>1. Prompts = Msgs => \A t \in sending' : \A p \in t.items : p.seq = t.next
    BY <1>1, <1>4, <1>5
  <2>2. Prompts = Msgs => NotResentWhileLate'
    BY <1>1, <1>3, <1>4 DEF OnceInv, Gone, NotResentWhileLate
  <2> QED
    BY <2>1, <2>2 DEF OnceInv, Gone
<1>9. \A m : Open(m)' => Open(m)
  BY <1>1, <1>3, <1>4 DEF Open
<1>10. Once'
  BY <1>9 DEF OnceInv, Once
<1> QED
  BY <1>6, <1>7, <1>8, <1>10 DEF OnceInv

LEMMA AcquireAndSendOnce ==
  ASSUME Inv, OnceInv, CanAcquire,
         UNCHANGED <<queue, delivered, crashes, timeouts, accepted>>,
         NEW next \in queue, NEW forced, NEW fs, AcquireAndSend(queue, next, forced, fs)
  PROVE  OnceInv'
<1>1. Superseded(sending) = {}
  BY AcquireIsSafe DEF Superseded, Inv
<1>2. StartSend(queue, next, forced, fs, {}) /\ UNCHANGED late
  BY <1>1 DEF AcquireAndSend
<1> QED
  BY <1>2, SendStarts

(* With no lost reply allowed, a refusal is no arrival. *)
LEMMA RefusedArrivals ==
  ASSUME Inv, NEW items, items \subseteq Prompt, Refused(items), MaxLost = 0
  PROVE  \A m \in Msgs : accepted'[m] = accepted[m]
<1>1. CASE UNCHANGED accepted
  BY <1>1
<1>2. CASE (\A m \in MsgsOf(items) : accepted[m] < MaxLost) /\ Arrive({items})
  <2>1. MsgsOf(items) \subseteq Msgs
    BY DEF MsgsOf, Prompt
  <2>2. accepted \in [Msgs -> Nat]
    BY DEF Inv, DataTyped
  <2>3. MsgsOf(items) = {}
    BY <1>2, <2>1, <2>2
  <2> QED
    BY <1>2, <2>2, <2>3, ArriveOne
<1> QED
  BY <1>1, <1>2 DEF Refused

LEMMA RestoringOnce ==
  ASSUME Inv, OnceInv, Restoring
  PROVE  OnceInv'
<1>1. CASE Boot \/ RestoreSave \/ RemoveTombstone
  BY <1>1, LessQueued DEF Boot, RestoreSave, RemoveTombstone, lock, bounds, history
<1>2. CASE RestoreFile
  <2>1. PICK f \in files : IF Seen(f.msg)
               THEN UNCHANGED <<queue, queueSeq, delivered>>
               ELSE /\ queueSeq' = queueSeq + 1
                    /\ queue' = Push(queue, queueSeq + 1, f.msg)
                    /\ delivered' = delivered \cup {f.msg}
    BY <1>2 DEF RestoreFile
  <2>2. UNCHANGED <<sending, late, crashes, timeouts, accepted>> /\ f.msg \in Msgs
    BY <1>2 DEF RestoreFile, lock, bounds, history, Inv, DataTyped, File
  <2>3. CASE Seen(f.msg)
    BY <2>1, <2>2, <2>3, LessQueued
  <2>4. CASE ~Seen(f.msg)
    <3>1. \A i \in queue' : \/ i.seq = queueSeq + 1 /\ i.msg = f.msg
                            \/ \E j \in queue : i.seq = j.seq /\ i.msg = j.msg
      BY <2>1, <2>4 DEF Push
    <3>2. delivered' = delivered \cup {f.msg}
      BY <2>1, <2>4
    <3> QED
      BY <2>2, <2>4, <3>1, <3>2, MoreQueued DEF Inv, DataTyped
  <2> QED
    BY <2>3, <2>4
<1>3. CASE FinishRestore
  <2>1. UNCHANGED <<sending, late>>
    BY <1>3, StartDrainSends DEF FinishRestore, Inv
  <2> QED
    BY <1>3, <2>1, LessQueued DEF FinishRestore, bounds, history
<1> QED
  BY <1>1, <1>2, <1>3 DEF Restoring

LEMMA ArrivalOnce ==
  ASSUME Inv, OnceInv, Post \/ Rediscover
  PROVE  OnceInv'
<1>1. PICK m \in Msgs, seq \in Nat : Enqueue(m, seq)
  <2>1. posted < NumMsgs => posted + 1 \in Msgs
    BY DeliveryAssumption DEF Inv, DataTyped, Msgs
  <2>2. fresh \subseteq Msgs
    BY DEF Inv, DataTyped
  <2> QED
    BY <2>1, <2>2, NextNumber DEF Post, Rediscover
<1>2. UNCHANGED <<crashes, timeouts, accepted>>
  BY DEF Post, Rediscover, bounds
<1>3. CASE Seen(m)
  BY <1>1, <1>2, <1>3, LessQueued DEF Enqueue, lock
<1>4. CASE ~Seen(m)
  <2> DEFINE pushed == Push(queue, seq, m)
  <2>1. pushed \subseteq Item
    BY PushType DEF Inv, DataTyped
  <2>2. queue' = Newest(pushed) /\ StartDrain(queue', pausedByOperator)
        /\ delivered' = delivered \cup {m}
    BY <1>1, <1>4 DEF Enqueue
  <2>3. UNCHANGED <<sending, late>>
    BY <2>2, StartDrainSends DEF Inv
  <2>4. \A i \in pushed : \/ i.seq = seq /\ i.msg = m
                          \/ \E j \in queue : i.seq = j.seq /\ i.msg = j.msg
    BY DEF Push
  <2> HIDE DEF pushed
  <2>5. \A i \in queue' : \E j \in pushed : i.seq = j.seq /\ i.msg = j.msg
    BY <2>1, <2>2, NewestKeeps
  <2>6. \A i \in queue' : \/ i.seq = seq /\ i.msg = m
                          \/ \E j \in queue : i.seq = j.seq /\ i.msg = j.msg
    BY <2>4, <2>5
  <2>7. delivered' = delivered \cup {m}
    BY <2>2
  <2> QED
    BY <1>2, <1>4, <2>3, <2>6, <2>7, MoreQueued
<1> QED
  BY <1>3, <1>4

LEMMA DeliveringOnce ==
  ASSUME Inv, ClaimInv, OnceInv, Delivering
  PROVE  OnceInv'
<1>1. CASE DrainHolds
  BY <1>1, LessQueued DEF DrainHolds, DrainBails, bounds, history
<1>2. CASE DrainDelivers
  <2>1. PICK d \in reading : DrainSends(d)
    BY <1>2 DEF DrainDelivers
  <2>2. First(queue) \in queue /\ ~d.stale
    BY <2>1, FirstIsQueued DEF DrainSends, StillOwns, Inv, DataTyped
  <2>3. sending = {}
    BY <2>2 DEF Inv, LockInv, LockHasOneOwner, SingleFlight
  <2>4. /\ StartSend(queue, First(queue), FALSE, files, {})
        /\ UNCHANGED <<queue, delivered, late, crashes, timeouts, accepted>>
    BY <2>1, <2>3 DEF DrainSends, bounds, history
  <2> QED
    BY <2>2, <2>4, SendStarts
<1>3. CASE PumpDelivers
  <2>1. First(queue) \in queue /\ CanAcquire
    BY <1>3, FirstIsQueued DEF PumpDelivers, Inv, DataTyped
  <2>2. /\ AcquireAndSend(queue, First(queue), FALSE, files)
        /\ UNCHANGED <<queue, delivered, crashes, timeouts, accepted>>
    BY <1>3 DEF PumpDelivers, bounds, history
  <2> QED
    BY <2>1, <2>2, AcquireAndSendOnce
<1>4. CASE PumpHolds
  <2>1. sending' = {}
    BY <1>4, AcquireIsSafe DEF PumpHolds, Superseded, Inv
  <2> QED
    BY <1>4, <2>1, LessQueued DEF PumpHolds, bounds, history
<1>5. CASE WatchdogElapses
  BY <1>5, LessQueued DEF WatchdogElapses, bounds, history
<1>6. CASE DeliveryAccepted
  <2>1. PICK s \in sending : SendAccepted(s)
    BY <1>6 DEF DeliveryAccepted
  <2>2. /\ queue' = Without(queue, Seqs(s.items)) /\ sending' = sending \ {s}
        /\ Arrive({s.items}) /\ UNCHANGED <<delivered, late, crashes, timeouts>>
    BY <2>1 DEF SendAccepted, bounds
  <2>3. sending' = {}
    BY <2>2 DEF Inv, LockInv, SingleFlight
  <2>4. \A i \in queue' : \E j \in queue : /\ i.seq = j.seq /\ i.msg = j.msg
                                          /\ j.seq \notin Seqs(s.items)
    BY <2>2, WithoutKeeps
  <2>5. MsgsOf(queue') \subseteq MsgsOf(queue)
    BY <2>4 DEF MsgsOf
  <2>6. MsgsOf(queue') \cap MsgsOf(s.items) = {}
    <3> SUFFICES ASSUME NEW i \in queue', NEW p \in s.items, i.msg = p.msg PROVE FALSE
      BY DEF MsgsOf
    <3>1. PICK j \in queue : i.msg = j.msg /\ j.seq \notin Seqs(s.items)
      BY <2>4
    <3>2. p.seq = j.seq
      BY <3>1 DEF OnceInv, Unique
    <3> QED
      BY <3>1, <3>2 DEF Seqs
  <2>7. \A m \in Msgs : accepted'[m] = IF m \in MsgsOf(s.items) THEN accepted[m] + 1 ELSE accepted[m]
    BY <2>2, ArriveOne DEF Inv, DataTyped
  <2>8. Known' /\ Unique'
    BY <2>2, <2>3, <2>4, <2>5 DEF OnceInv, Known, Unique
  <2>9. Gone'
    BY <2>2, <2>3, <2>5 DEF OnceInv, Gone, NotResentWhileLate
  <2>10. Once'
    <3> SUFFICES ASSUME MaxLost = 0, timeouts = 0, NEW m \in Msgs
                 PROVE  \/ accepted'[m] <= crashes'
                        \/ accepted'[m] = crashes' + 1 /\ m \in delivered' /\ ~Open(m)'
      BY <2>2 DEF Once
    <3>1. accepted[m] \in Nat /\ crashes \in Nat
      BY DEF Inv, DataTyped
    <3>2. \/ accepted[m] <= crashes
          \/ accepted[m] = crashes + 1 /\ m \in delivered /\ ~Open(m)
      BY DEF OnceInv, Once
    <3>3. CASE m \in MsgsOf(s.items)
      <4>1. Open(m) /\ m \in delivered
        BY <3>3 DEF Open, OnceInv, Known
      <4>2. ~Open(m)'
        BY <2>3, <2>6, <3>3 DEF Open
      <4>3. accepted'[m] = accepted[m] + 1 /\ accepted[m] <= crashes
        BY <2>7, <3>2, <3>3, <4>1
      <4> QED
        BY <2>2, <3>1, <4>1, <4>2, <4>3
    <3>4. CASE m \notin MsgsOf(s.items)
      <4>1. accepted'[m] = accepted[m]
        BY <2>7, <3>4
      <4>2. Open(m)' => Open(m)
        BY <2>3, <2>5 DEF Open
      <4> QED
        BY <2>2, <3>2, <4>1, <4>2
    <3> QED
      BY <3>3, <3>4
  <2> QED
    BY <2>8, <2>9, <2>10 DEF OnceInv
<1>7. CASE DeliveryRefused
  <2>1. PICK s \in sending : Refused(s.items) /\ sending' = sending \ {s}
    BY <1>7 DEF DeliveryRefused
  <2>2. UNCHANGED <<queue, delivered, late, crashes, timeouts>>
    BY <1>7, <2>1 DEF DeliveryRefused, Refused, bounds
  <2>3. s.items \subseteq Prompt
    BY DEF Inv, LockInv, LockTyped, Send
  <2>4. MaxLost = 0 => \A m \in Msgs : accepted'[m] = accepted[m]
    BY <2>1, <2>3, RefusedArrivals
  <2> QED
    BY <2>1, <2>2, <2>4, LessQueued
<1>8. CASE DeliveryThrows
  BY <1>8, LessQueued DEF DeliveryThrows, bounds, history
<1>9. CASE DeliveryTimesOut
  <2>1. PICK s \in sending : SendAbandoned(s)
    BY <1>9 DEF DeliveryTimesOut
  <2>2. /\ queue' = Without(queue, {s.next}) /\ sending' = sending \ {s}
        /\ late' = late \cup {s.items} /\ timeouts' = timeouts + 1 /\ UNCHANGED delivered
    BY <1>9, <2>1 DEF SendAbandoned, DeliveryTimesOut, LeftAfterTimeout
  <2>3. sending' = {}
    BY <2>2 DEF Inv, LockInv, SingleFlight
  <2>4. \A i \in queue' : \E j \in queue : /\ i.seq = j.seq /\ i.msg = j.msg
                                          /\ j.seq \notin {s.next}
    BY <2>2, WithoutKeeps
  <2>5. MsgsOf(queue') \subseteq MsgsOf(queue)
    BY <2>4 DEF MsgsOf
  <2>6. Known' /\ Unique'
    <3>1. Known'
      BY <2>2, <2>3, <2>5 DEF OnceInv, Known
    <3>2. Unique'
      BY <2>3, <2>4 DEF OnceInv, Unique
    <3> QED
      BY <3>1, <3>2
  <2>7. Prompts = Msgs => MsgsOf(s.items) \cap MsgsOf(queue') = {}
    <3> SUFFICES ASSUME Prompts = Msgs, NEW i \in queue', NEW p \in s.items, i.msg = p.msg
                 PROVE  FALSE
      BY DEF MsgsOf
    <3>1. PICK j \in queue : i.msg = j.msg /\ j.seq # s.next
      BY <2>4
    <3>2. p.seq = j.seq /\ p.seq = s.next
      BY <3>1 DEF OnceInv, Unique, Gone
    <3> QED
      BY <3>1, <3>2
  <2>8. Gone'
    BY <2>2, <2>3, <2>5, <2>7 DEF OnceInv, Gone, NotResentWhileLate
  <2>9. Once'
    BY <2>2 DEF Once, Inv, DataTyped
  <2> QED
    BY <2>6, <2>8, <2>9 DEF OnceInv
<1>10. CASE LateAccepted \/ LateRefused
  <2>1. PICK items \in late : late' = late \ {items}
    BY <1>10 DEF LateAccepted, LateRefused
  <2>2. timeouts # 0
    BY <2>1 DEF ClaimInv, Claimed
  <2>3. UNCHANGED <<queue, delivered, sending, crashes, timeouts>>
    BY <1>10 DEF LateAccepted, LateRefused, Refused, bounds
  <2> QED
    BY <2>1, <2>2, <2>3, LessQueued
<1> QED
  BY <1>1, <1>2, <1>3, <1>4, <1>5, <1>6, <1>7, <1>8, <1>9, <1>10 DEF Delivering

LEMMA OperatingOnce ==
  ASSUME Inv, OnceInv, Operating, "force" \notin Operator
  PROVE  OnceInv'
<1>1. CASE Pause
  BY <1>1, LessQueued DEF Pause, lock, bounds, history
<1>2. CASE Resume
  <2>1. UNCHANGED <<sending, late>>
    BY <1>2, StartDrainSends DEF Resume, Inv
  <2> QED
    BY <1>2, <2>1, LessQueued DEF Resume, bounds, history
<1>3. CASE DropQueue
  BY <1>3, LessQueued DEF DropQueue, lock, bounds
<1>4. ASSUME NEW seq, DropMessage(seq)
      PROVE  OnceInv'
  <2>1. queue' = Without(queue, {seq})
        /\ UNCHANGED <<delivered, sending, late, crashes, timeouts, accepted>>
    BY <1>4 DEF DropMessage, lock, bounds
  <2>2. \A i \in queue' : \E j \in queue : i.seq = j.seq /\ i.msg = j.msg
    BY <2>1, WithoutKeeps
  <2> QED
    BY <2>1, <2>2, LessQueued
<1> QED
  BY <1>1, <1>2, <1>3, <1>4 DEF Operating, ForceDeliver

LEMMA CrashOnce ==
  ASSUME Inv, ClaimInv, OnceInv, Crash
  PROVE  OnceInv'
<1>1. PICK arrived \in SUBSET InTransit : Arrive(arrived)
  BY DEF Crash
<1>2. /\ queue' = {} /\ delivered' = {} /\ sending' = {} /\ late' = {}
      /\ crashes' = crashes + 1 /\ UNCHANGED timeouts
  BY DEF Crash
<1>3. Known' /\ Unique' /\ Gone'
  BY <1>2 DEF Known, Unique, Gone, NotResentWhileLate, MsgsOf
<1>4. ASSUME MaxLost = 0, timeouts = 0, NEW m \in Msgs
      PROVE  accepted'[m] <= crashes + 1
  <2>1. accepted[m] \in Nat /\ crashes \in Nat /\ accepted \in [Msgs -> Nat]
    BY DEF Inv, DataTyped
  <2>2. \/ accepted[m] <= crashes
        \/ accepted[m] = crashes + 1 /\ ~Open(m)
    BY <1>4 DEF OnceInv, Once
  <2>3. late = {}
    BY <1>4 DEF ClaimInv, Claimed
  <2>4. CASE arrived = {}
    <3>1. accepted'[m] = accepted[m]
      BY <1>1, <2>1, <2>4, ArriveNone
    <3> QED
      BY <2>1, <2>2, <3>1
  <2>5. CASE arrived # {}
    <3>1. PICK s \in sending : s.items \in arrived
      BY <2>3, <2>5 DEF InTransit
    <3>2. arrived = {s.items}
      BY <2>3, <3>1 DEF InTransit, Inv, LockInv, SingleFlight
    <3>3. accepted'[m] = IF m \in MsgsOf(s.items) THEN accepted[m] + 1 ELSE accepted[m]
      BY <1>1, <2>1, <3>2, ArriveOne
    <3>4. m \in MsgsOf(s.items) => Open(m)
      BY DEF Open
    <3> QED
      BY <2>1, <2>2, <3>3, <3>4
  <2> QED
    BY <2>4, <2>5
<1>5. Once'
  BY <1>2, <1>4 DEF Once
<1> QED
  BY <1>3, <1>5 DEF OnceInv

LEMMA OnceStep ==
  ASSUME "force" \notin Operator
  PROVE  Inv /\ ClaimInv /\ OnceInv /\ [Next]_vars => OnceInv'
<1> SUFFICES ASSUME Inv, ClaimInv, OnceInv, [Next]_vars PROVE OnceInv'
  OBVIOUS
<1>1. CASE UNCHANGED vars
  BY <1>1, LessQueued DEF vars, lock, bounds, history
<1> QED
  BY <1>1, RestoringOnce, ArrivalOnce, DeliveringOnce, OperatingOnce, CrashOnce DEF Next

LEMMA OnceAlways ==
  ASSUME "force" \notin Operator
  PROVE  Spec => []OnceInv
<1>1. Inv /\ ClaimInv /\ OnceInv /\ [Next]_vars => OnceInv'
  BY OnceStep
<1> QED
  BY <1>1, OnceInit, InvAlways, ClaimAlways, PTL DEF Spec

(* A process sends no prompt twice, through any number of failures, drops,   *)
(* pauses and restarts, unless a send was given up or a reply lost; forced   *)
(* deliveries may, as they bring back files whose numbers are used again.    *)
THEOREM OncePerProcess ==
  ASSUME "force" \notin Operator, MaxLost = 0
  PROVE  Spec => [](timeouts = 0 => AtMostOncePerProcess)
<1>1. Inv /\ OnceInv => (timeouts = 0 => AtMostOncePerProcess)
  <2> SUFFICES ASSUME Inv, OnceInv, timeouts = 0, NEW m \in Msgs
               PROVE  accepted[m] <= 1 + crashes
    BY DEF AtMostOncePerProcess
  <2>1. accepted[m] \in Nat /\ crashes \in Nat
    BY DEF Inv, DataTyped
  <2> QED
    BY <2>1 DEF OnceInv, Once
<1> QED
  BY <1>1, InvAlways, OnceAlways, PTL

(* A standalone prompt that timed out is never sent again while its paste may *)
(* still land.                                                               *)
THEOREM LateIsNotResent ==
  ASSUME "force" \notin Operator, Prompts = Msgs
  PROVE  Spec => []NotResentWhileLate
<1>1. OnceInv => NotResentWhileLate
  BY DEF OnceInv, Gone
<1> QED
  BY <1>1, OnceAlways, PTL
-----------------------------------------------------------------------------
(* A file restoreQueues reads as a queued or sent prompt, and one that stays *)
(* where it is until the operator looks at it.                               *)
Live(f) == ~f.consumed /\ f.ext \in {"json", "delivering"}
Idle(f) == ~f.consumed /\ f.ext \in {"stuck-paste", "stuck-submit"}
Replays == {f \in files : Replayable(f)}
Owed == ((1..posted) \ confirmed) \ removed
Final == confirmed \ unmarked

(* The numbers this process has given out, wherever they are in use.         *)
Pair(r) == [seq |-> r.seq, msg |-> r.msg]
Busy == {Pair(i) : i \in queue} \cup {Pair(f) : f \in {f \in files : Live(f)}}
        \cup UNION {s.items : s \in sending}
Agree(u, v) == u.seq < v.seq <=> u.msg < v.msg

(* A stuck file is the only trace of its prompt, and a tombstone was a queued, *)
(* sent or unobservable prompt.                                               *)
Tame ==
  /\ \A f \in files : f.msg <= posted /\ f.seq >= 1
  /\ \A f \in files : f.consumed => f.ext \in {"json", "delivering", "stuck-unobservable"}
  /\ \A f, g \in files : Idle(f) /\ g.msg = f.msg => g = f
  /\ \A f \in files, u \in Busy : Idle(f) => u.msg # f.msg
  /\ LegacyCounts \subseteq {0} => \A f \in files : f.ext \notin StuckExts

(* The record of what was delivered, confirmed and dropped. *)
Recorded ==
  /\ \A m \in confirmed : accepted[m] > 0
  /\ delivered \cup confirmed \cup removed \subseteq 1..posted
  /\ fresh \subseteq delivered

(* The array is in the order of posting. *)
Sorted(q) == \A i, j \in q : i.place < j.place <=> i.msg < j.msg
Placed == Sorted(queue) /\ \A i \in queue : i.place <= Cardinality(queue)

(* The process serves, or is about to: the numbers in use follow the order of   *)
(* posting, what is owed is queued or stuck, and a tombstone is of a queued      *)
(* prompt that has its new file.                                                *)
Serving ==
  phase \in {"cleaning", "up"} =>
    /\ \A u, v \in Busy : Agree(u, v)
    /\ \A u \in Busy : u.seq \in 1..queueSeq /\ u.msg <= posted
    /\ \A m \in Owed : m \in MsgsOf(queue) \/ \E f \in files : Idle(f) /\ f.msg = m
    /\ \A f \in files : ~Plain(f, "stuck-unobservable")
    /\ \A f, g \in files : f.consumed /\ g.consumed /\ NameOf(f) = NameOf(g) => f = g
    /\ \A f \in files : f.consumed => \E i \in queue, p \in files :
         /\ i.msg = f.msg /\ p.msg = f.msg /\ p.seq = i.seq /\ Plain(p, "json")

(* What a restore finds: the prompts in the order of posting but for copies     *)
(* that come first under an older name.                                         *)
Ahead(f, g) == Before(NameOf(f), NameOf(g))
AtRest ==
  phase \in {"down", "claiming"} =>
    /\ \A f, g \in Replays : NameOf(f) = NameOf(g) => f = g
    /\ \A m \in Owed : \E f \in files : f.msg = m /\ (Replayable(f) \/ Idle(f))
    /\ \A f, g \in Replays : Ahead(f, g) /\ g.msg < f.msg =>
         \E h \in Replays : h.msg = g.msg /\ Ahead(h, f)
    /\ \A t, p \in Replays : t.consumed /\ ~p.consumed /\ t.seq = p.seq /\ t.ext = p.ext => t.msg <= p.msg

Down ==
  phase = "down" => queue = {} /\ queueSeq = 0 /\ delivered = {} /\ fresh = {}

(* A restore that runs: the names it has passed are tombstones of queued         *)
(* prompts, and those it queued come before the names it has yet to claim.       *)
Claiming ==
  phase = "claiming" =>
    /\ \A f \in Replays : NameOf(f) \notin todo =>
         f.consumed /\ \E i \in queue : i.msg = f.msg
    /\ \A i \in queue : \E e \in Replays :
         /\ e.consumed /\ e.msg = i.msg
         /\ \A o \in todo : o = NameOf(e) \/ Before(NameOf(e), o)
    /\ \A n \in todo : Replayable(n)
    /\ delivered = MsgsOf(queue)
    /\ \A i \in queue : i.seq \in 1..queueSeq
    /\ \A i, j \in queue : Agree(i, j)

(* Nothing of a confirmed prompt is left but its mark, if it could be marked. *)
Settled ==
  /\ \A m \in Final : m \notin MsgsOf(queue)
  /\ \A m \in Final, s \in sending : m \notin MsgsOf(s.items)
  /\ \A f \in files : f.msg \in Final => f.ext = "delivered"
  /\ \A f \in files : f.ext = "delivered" => ~f.consumed

(* A paste holds a prompt that none in the queue is older than. *)
Heads ==
  \A s \in sending : \E p \in s.items : \A i \in queue : p.msg <= i.msg

DiskInv == Tame /\ Recorded /\ Placed /\ Serving /\ AtRest /\ Down /\ Claiming /\ Settled /\ Heads

-----------------------------------------------------------------------------
(* Numbers in use.                                                           *)

LEMMA PairType ==
  ASSUME NEW r, r \in Item \/ r \in File
  PROVE  Pair(r) \in Prompt /\ Pair(r).seq = r.seq /\ Pair(r).msg = r.msg
BY DEF Pair, Prompt, Item, File

LEMMA BusyType ==
  ASSUME Inv
  PROVE  Busy \subseteq Prompt
<1>1. \A s \in sending : s.items \subseteq Prompt
  BY DEF Inv, LockInv, LockTyped, Send
<1> QED
  BY <1>1, PairType DEF Busy, Inv, DataTyped

(* Agreeing pairs have the same number exactly when they are one prompt.     *)
LEMMA AgreeSame ==
  ASSUME NEW u \in Prompt, NEW v \in Prompt, Agree(u, v), Agree(v, u)
  PROVE  u.seq = v.seq <=> u.msg = v.msg
BY DeliveryAssumption DEF Agree, Prompt, Msgs

LEMMA QueueBusy ==
  ASSUME Inv, NEW i \in queue
  PROVE  /\ Pair(i) \in Busy /\ Pair(i) \in Prompt
         /\ Pair(i).seq = i.seq /\ Pair(i).msg = i.msg
BY PairType DEF Busy, Inv, DataTyped

LEMMA FileBusy ==
  ASSUME Inv, NEW f \in files
  PROVE  /\ Pair(f) \in Prompt /\ Pair(f).seq = f.seq /\ Pair(f).msg = f.msg
         /\ Live(f) => Pair(f) \in Busy
BY PairType DEF Busy, Inv, DataTyped

LEMMA SendBusy ==
  ASSUME Inv, NEW s \in sending, NEW p \in s.items
  PROVE  p \in Busy /\ p \in Prompt
<1>1. p \in UNION {t.items : t \in sending}
  OBVIOUS
<1> QED
  BY <1>1, BusyType DEF Busy

(* In a serving process a queued item, a live file and a paste of one number *)
(* are of one prompt.                                                        *)
LEMMA OnePrompt ==
  ASSUME Inv, Serving, phase \in {"cleaning", "up"}, NEW u \in Busy, NEW v \in Busy
  PROVE  /\ u.seq = v.seq <=> u.msg = v.msg
         /\ u.seq < v.seq <=> u.msg < v.msg
BY BusyType, AgreeSame DEF Serving, Agree

(* Every queued item of it has its own file. *)
LEMMA QueueHasFile ==
  ASSUME Inv, ClaimInv, Serving, phase \in {"cleaning", "up"}, NEW i \in queue
  PROVE  \E f \in files : Live(f) /\ f.seq = i.seq /\ f.msg = i.msg
<1>1. Held(files, i.seq)
  BY DEF ClaimInv, Backed
<1>2. PICK f \in files : Live(f) /\ f.seq = i.seq
  BY <1>1 DEF Held, Has, Plain, Live
<1>3. Pair(f) \in Busy /\ Pair(f).seq = f.seq /\ Pair(f).msg = f.msg
  BY <1>2, FileBusy
<1>4. f.msg = i.msg
  BY <1>2, <1>3, QueueBusy, OnePrompt
<1> QED
  BY <1>2, <1>4

-----------------------------------------------------------------------------
(* Files: what an operation leaves is an old file or one of a number in use.  *)

Comes(g, fs, U, exts) == g \in fs \/ (~g.consumed /\ g.ext \in exts /\ Pair(g) \in U)
Stems(fs2, fs, U, exts) == \A g \in fs2 : Comes(g, fs, U, exts)
IdleStay(fs2, fs) == \A f \in fs : Idle(f) => f \in fs2

LEMMA PersistStems ==
  ASSUME NEW fs, NEW q, NEW U, \A i \in q : Pair(i) \in U
  PROVE  Stems(Persist(fs, q), fs, U, {"json"}) /\ IdleStay(Persist(fs, q), fs)
<1>1. \A g \in Snapshot(q) : Comes(g, fs, U, {"json"})
  <2>1. ASSUME NEW i \in q
        PROVE  Comes([seq |-> i.seq, ext |-> "json", consumed |-> FALSE, msg |-> i.msg], fs, U, {"json"})
    BY DEF Comes, Pair
  <2> QED
    BY <2>1 DEF Snapshot
<1> QED
  BY <1>1 DEF Persist, Stems, Comes, IdleStay, Idle, Plain

LEMMA ClaimStems ==
  ASSUME NEW fs, fs \subseteq File, NEW seqs, NEW U, \A f \in fs : Live(f) => Pair(f) \in U
  PROVE  Stems(Claim(fs, seqs), fs, U, {"delivering"}) /\ IdleStay(Claim(fs, seqs), fs)
<1> DEFINE to(f) == IF Plain(f, "json") /\ f.seq \in seqs /\ ~Has(fs, f.seq, "delivering")
                      THEN [f EXCEPT !.ext = "delivering"] ELSE f
<1>1. ASSUME NEW f \in fs
      PROVE  Comes(to(f), fs, U, {"delivering"})
  <2>1. CASE to(f) = f
    BY <2>1 DEF Comes
  <2>2. CASE Plain(f, "json") /\ to(f) = [f EXCEPT !.ext = "delivering"]
    <3>1. Pair(f) \in U
      BY <2>2 DEF Live, Plain
    <3>2. ~to(f).consumed /\ to(f).ext = "delivering" /\ Pair(to(f)) = Pair(f)
      BY <2>2 DEF Plain, Pair, File
    <3> QED
      BY <3>1, <3>2 DEF Comes
  <2> QED
    BY <2>1, <2>2
<1>2. \A f \in fs : Idle(f) => to(f) = f
  BY DEF Idle, Plain
<1> QED
  BY <1>1, <1>2 DEF Claim, Stems, IdleStay

LEMMA ConfirmStems ==
  ASSUME NEW fs, fs \subseteq File, NEW seqs, NEW U, \A f \in fs : Live(f) => Pair(f) \in U
  PROVE  Stems(Confirm(fs, seqs), fs, U, {"delivered"}) /\ IdleStay(Confirm(fs, seqs), fs)
<1> DEFINE to(f) == IF Plain(f, "delivering") /\ f.seq \in seqs /\ ~Has(fs, f.seq, "delivered")
                      THEN [f EXCEPT !.ext = "delivered"] ELSE f
<1>1. ASSUME NEW f \in fs
      PROVE  Comes(to(f), fs, U, {"delivered"})
  <2>1. CASE to(f) = f
    BY <2>1 DEF Comes
  <2>2. CASE Plain(f, "delivering") /\ to(f) = [f EXCEPT !.ext = "delivered"]
    <3>1. Pair(f) \in U
      BY <2>2 DEF Live, Plain
    <3>2. ~to(f).consumed /\ to(f).ext = "delivered" /\ Pair(to(f)) = Pair(f)
      BY <2>2 DEF Plain, Pair, File
    <3> QED
      BY <3>1, <3>2 DEF Comes
  <2> QED
    BY <2>1, <2>2
<1>2. \A f \in fs : Idle(f) => to(f) = f
  BY DEF Idle, Plain
<1> QED
  BY <1>1, <1>2 DEF Confirm, Stems, IdleStay

LEMMA RevertStems ==
  ASSUME NEW fs, fs \subseteq File, NEW U, \A f \in fs : Live(f) => Pair(f) \in U
  PROVE  Stems(RevertAllDelivering(fs), fs, U, {"json"}) /\ IdleStay(RevertAllDelivering(fs), fs)
<1> DEFINE to(f) == IF Plain(f, "delivering") THEN [f EXCEPT !.ext = "json"] ELSE f
           kept == {f \in fs : ~(Plain(f, "json") /\ Has(fs, f.seq, "delivering"))}
<1>0. RevertAllDelivering(fs) = {to(f) : f \in kept}
  BY DEF RevertAllDelivering
<1>1. ASSUME NEW f \in fs
      PROVE  Comes(to(f), fs, U, {"json"})
  <2>1. CASE to(f) = f
    BY <2>1 DEF Comes
  <2>2. CASE Plain(f, "delivering") /\ to(f) = [f EXCEPT !.ext = "json"]
    <3>1. Pair(f) \in U
      BY <2>2 DEF Live, Plain
    <3>2. ~to(f).consumed /\ to(f).ext = "json" /\ Pair(to(f)) = Pair(f)
      BY <2>2 DEF Plain, Pair, File
    <3> QED
      BY <3>1, <3>2 DEF Comes
  <2> QED
    BY <2>1, <2>2
<1>2. \A f \in fs : Idle(f) => to(f) = f /\ f \in kept
  BY DEF Idle, Plain
<1>3. kept \subseteq fs
  OBVIOUS
<1> HIDE DEF to, kept
<1> QED
  BY <1>0, <1>1, <1>2, <1>3 DEF Stems, IdleStay

-----------------------------------------------------------------------------
(* A serving process: what its steps do to the numbers in use.               *)

Grows(N) ==
  \/ N = {} /\ UNCHANGED <<queueSeq, posted>>
  \/ /\ N = {[seq |-> queueSeq', msg |-> posted + 1]}
     /\ queueSeq < queueSeq' /\ posted' = posted + 1
Within(N, exts) ==
  /\ \A i \in queue' : Pair(i) \in Busy \cup N
  /\ \A s \in sending' : s.items \subseteq Busy \cup N
  /\ Stems(files', files, Busy \cup N, exts)

LEMMA WithinBusy ==
  ASSUME Inv, NEW N, NEW exts, Within(N, exts)
  PROVE  Busy' \subseteq Busy \cup N
<1>1. \A g \in files' : Live(g) => Pair(g) \in Busy \cup N
  BY FileBusy DEF Within, Stems, Comes
<1> QED
  BY <1>1 DEF Within, Busy

LEMMA ServingKept ==
  ASSUME Inv, Inv', Tame, Serving, phase \in {"cleaning", "up"}, phase' = "up",
         NEW N, Grows(N),
         Within(N, {"json", "delivering", "delivered"}),
         \A m \in Owed' : m \in MsgsOf(queue') \/ \E f \in files' : Idle(f) /\ f.msg = m
  PROVE  Tame' /\ Serving'
<1>1. Busy' \subseteq Busy \cup N
  BY WithinBusy
<1>2. AllPlain(files') /\ files' \subseteq File /\ files \subseteq File
  BY DEF Inv, DataTyped
<1>3. queueSeq \in Nat /\ queueSeq' \in Nat /\ posted \in Nat /\ posted <= posted' /\ Busy \subseteq Prompt
  BY BusyType, DeliveryAssumption DEF Inv, DataTyped, Grows
<1>4. /\ \A u, v \in Busy : Agree(u, v)
      /\ \A u \in Busy : u.seq \in 1..queueSeq /\ u.msg <= posted
      /\ \A u \in Busy : u.seq \in Nat /\ u.msg \in Nat
  BY <1>3, DeliveryAssumption DEF Serving, Prompt, Msgs
<1>5. \A u \in Busy \cup N : u.seq \in 1..queueSeq' /\ u.msg <= posted' /\ u.seq \in Nat /\ u.msg \in Nat
  BY <1>3, <1>4 DEF Grows
<1>6. \A u, v \in Busy \cup N : Agree(u, v)
  <2>1. CASE N = {}
    BY <1>4, <2>1
  <2>2. CASE N = {[seq |-> queueSeq', msg |-> posted + 1]} /\ queueSeq < queueSeq'
    <3>1. \A u \in Busy, v \in N : Agree(u, v) /\ Agree(v, u)
      BY <1>3, <1>4, <2>2 DEF Agree
    <3>2. \A u, v \in N : Agree(u, v)
      BY <1>3, <2>2 DEF Agree
    <3> QED
      BY <1>4, <3>1, <3>2
  <2> QED
    BY <2>1, <2>2 DEF Grows
<1>7. \A g \in files' : g \in files \/ (Pair(g) \in Busy \cup N /\ ~Idle(g) /\ ~Plain(g, "stuck-unobservable"))
  BY DEF Within, Stems, Comes, Idle, Plain
<1>8. \A g \in files' : Pair(g).seq = g.seq /\ Pair(g).msg = g.msg
  BY <1>2, PairType
<1>9. ASSUME NEW f \in files', Idle(f), NEW u \in Busy \cup N
      PROVE  f \in files /\ u.msg # f.msg
  <2>1. f \in files
    BY <1>7, <1>9
  <2>2. f.msg <= posted /\ f.msg \in Nat
    BY <2>1, <1>2, DeliveryAssumption DEF Tame, File, Msgs
  <2>3. CASE u \in Busy
    BY <1>9, <2>1, <2>3 DEF Tame
  <2>4. CASE u \in N
    <3>1. u.msg = posted + 1
      BY <2>4 DEF Grows
    <3> QED
      BY <1>3, <2>1, <2>2, <3>1
  <2> QED
    BY <2>1, <2>3, <2>4
<1>10. Tame'
  <2>1. \A f \in files' : f.msg <= posted' /\ f.seq >= 1
    <3> TAKE f \in files'
    <3>1. CASE f \in files
      <4>1. f.msg <= posted /\ f.seq >= 1 /\ f.msg \in Nat
        BY <1>2, <3>1, DeliveryAssumption DEF Tame, File, Msgs
      <4>2. posted' \in Nat
        BY <1>3 DEF Grows
      <4> QED
        BY <1>3, <4>1, <4>2
    <3>2. CASE Pair(f) \in Busy \cup N
      BY <1>5, <1>8, <3>2
    <3> QED
      BY <1>7, <3>1, <3>2
  <2>2. \A f \in files' : ~f.consumed
    BY <1>2 DEF AllPlain
  <2>3. \A f, g \in files' : Idle(f) /\ g.msg = f.msg => g = f
    <3> SUFFICES ASSUME NEW f \in files', NEW g \in files', Idle(f), g.msg = f.msg
                 PROVE  g = f
      OBVIOUS
    <3>1. Pair(g) \notin Busy \cup N
      BY <1>8, <1>9
    <3>2. f \in files /\ g \in files
      BY <1>7, <3>1
    <3> QED
      BY <3>2 DEF Tame
  <2>4. \A f \in files', u \in Busy' : Idle(f) => u.msg # f.msg
    BY <1>1, <1>9
  <2>5. LegacyCounts \subseteq {0} => \A f \in files' : f.ext \notin StuckExts
    BY DEF Within, Stems, Comes, Tame, StuckExts
  <2> QED
    BY <2>1, <2>2, <2>3, <2>4, <2>5 DEF Tame
<1>11. Serving'
  <2>1. \A f \in files' : ~f.consumed
    BY <1>2 DEF AllPlain
  <2>2. \A f \in files' : ~Plain(f, "stuck-unobservable")
    BY <1>7 DEF Serving
  <2>3. (\A u, v \in Busy : Agree(u, v))'
    BY <1>1, <1>6
  <2>4. (\A u \in Busy : u.seq \in 1..queueSeq /\ u.msg <= posted)'
    BY <1>1, <1>5
  <2> QED
    BY <2>1, <2>2, <2>3, <2>4 DEF Serving
<1> QED
  BY <1>10, <1>11

(* Nothing of a confirmed and marked prompt is left but its mark. *)
LEMMA SettledBusy ==
  ASSUME Inv, Settled, NEW u \in Busy
  PROVE  u.msg \notin Final
<1>1. \A i \in queue : Pair(i).msg = i.msg
  BY QueueBusy
<1>2. \A i \in queue : Pair(i).msg \notin Final
  BY <1>1 DEF Settled, MsgsOf
<1>3. \A f \in files : Live(f) => Pair(f).msg \notin Final
  BY FileBusy DEF Settled, Live
<1>4. \A s \in sending : \A p \in s.items : p.msg \notin Final
  BY DEF Settled, MsgsOf
<1> QED
  BY <1>2, <1>3, <1>4 DEF Busy

LEMMA SettledKept ==
  ASSUME Inv, Inv', Settled, UNCHANGED <<confirmed, unmarked>>, confirmed \subseteq 1..posted,
         NEW N, Grows(N), Within(N, {"json", "delivering"})
  PROVE  Settled'
<1>0. Final' = Final
  BY DEF Final
<1>1. \A u \in Busy \cup N : u.msg \notin Final
  <2>1. \A u \in N : u.msg = posted + 1 /\ posted \in Nat
    BY DeliveryAssumption DEF Grows, Inv, DataTyped
  <2>2. \A u \in N : u.msg \notin 1..posted
    BY <2>1
  <2> QED
    BY <2>2, SettledBusy DEF Final
<1>2. \A i \in queue' : i.msg \notin Final
  BY <1>1, PairType DEF Within, Inv, DataTyped
<1>3. \A s \in sending' : \A p \in s.items : p.msg \notin Final
  BY <1>1 DEF Within
<1>4. \A f \in files' : f \in files \/ (f.msg \notin Final /\ f.ext # "delivered")
  BY <1>1, PairType DEF Within, Stems, Comes, Inv, DataTyped
<1>5. \A f \in files' : /\ f.msg \in Final => f.ext = "delivered"
                        /\ f.ext = "delivered" => ~f.consumed
  BY <1>4 DEF Settled
<1> QED
  BY <1>0, <1>2, <1>3, <1>5 DEF Settled, MsgsOf

(* Steps that leave everything as it was but the locks and the feed. *)
LEMMA StillDisk ==
  ASSUME DiskInv, UNCHANGED <<phase, todo, files, queue, queueSeq, sending, posted,
                              delivered, accepted, confirmed, removed, unmarked>>,
         fresh' \subseteq fresh
  PROVE  DiskInv'
<1>1. Busy' = Busy /\ Replays' = Replays /\ Owed' = Owed /\ Final' = Final
  BY DEF Busy, Replays, Owed, Final
<1>2. Tame' /\ Placed' /\ Serving' /\ Heads'
  BY <1>1 DEF DiskInv, Tame, Placed, Serving, Heads
<1>3. Recorded'
  BY DEF DiskInv, Recorded
<1>4. AtRest'
  BY <1>1 DEF DiskInv, AtRest
<1>5. Down' /\ Claiming' /\ Settled'
  BY <1>1 DEF DiskInv, Down, Claiming, Settled
<1> QED
  BY <1>2, <1>3, <1>4, <1>5 DEF DiskInv

-----------------------------------------------------------------------------
(* The array: closing its gaps keeps the order and counts the places.        *)

LEMMA ProperSubset ==
  ASSUME NEW B, IsFiniteSet(B), NEW A, A \subseteq B, NEW x \in B, x \notin A
  PROVE  /\ IsFiniteSet(A) /\ Cardinality(A) \in Nat /\ Cardinality(B) \in Nat
         /\ Cardinality(A) < Cardinality(B)
<1>1. IsFiniteSet(A) /\ Cardinality(A) <= Cardinality(B) /\ Cardinality(A) # Cardinality(B)
  BY FS_Subset
<1>2. Cardinality(A) \in Nat /\ Cardinality(B) \in Nat
  BY <1>1, FS_CardinalityType
<1> QED
  BY <1>1, <1>2

LEMMA ClosedPlaced ==
  ASSUME NEW q, q \subseteq Item, IsFiniteSet(q), Sorted(q)
  PROVE  /\ Sorted(Closed(q))
         /\ \A i \in Closed(q) : i.place <= Cardinality(Closed(q))
<1> DEFINE upTo(i) == {j \in q : j.place <= i.place}
           rank(i) == Cardinality(upTo(i))
           moved(i) == [i EXCEPT !.place = rank(i)]
           move == [i \in q |-> moved(i)]
<1>1. \A i \in q : /\ i.place \in Nat /\ i.msg \in Nat
  BY DeliveryAssumption DEF Item, Msgs
<1>2. \A i \in q : IsFiniteSet(upTo(i)) /\ rank(i) \in Nat /\ rank(i) <= Cardinality(q)
  BY FS_Subset, FS_CardinalityType
<1>3. ASSUME NEW i \in q, NEW j \in q, i.place < j.place
      PROVE  rank(i) < rank(j)
  <2>1. upTo(i) \subseteq upTo(j) /\ j \in upTo(j) /\ j \notin upTo(i)
    BY <1>1, <1>3
  <2> QED
    BY <1>2, <2>1, ProperSubset
<1>4. \A i, j \in q : rank(i) < rank(j) <=> i.place < j.place
  <2> TAKE i \in q, j \in q
  <2>1. i.place < j.place \/ j.place < i.place \/ i.place = j.place
    BY <1>1
  <2>2. i.place = j.place => rank(i) = rank(j)
    OBVIOUS
  <2>3. rank(i) \in Nat /\ rank(j) \in Nat
    BY <1>2
  <2>4. (i.place < j.place => rank(i) < rank(j)) /\ (j.place < i.place => rank(j) < rank(i))
    BY <1>3
  <2> HIDE DEF rank
  <2> QED
    BY <1>1, <2>1, <2>2, <2>3, <2>4
<1>5. \A i \in q : moved(i).place = rank(i) /\ moved(i).seq = i.seq /\ moved(i).msg = i.msg
  BY DEF Item
<1>6. Closed(q) = {moved(i) : i \in q}
  BY DEF Closed
<1>7. move \in Surjection(q, Closed(q))
  BY <1>6 DEF Surjection
<1>8. \A i, j \in q : moved(i) = moved(j) => i = j
  <2>1. \A i, j \in q : moved(i) = moved(j) => rank(i) = rank(j) /\ i.seq = j.seq /\ i.msg = j.msg
    BY <1>5
  <2>2. \A i \in q : rank(i) \in Nat
    BY <1>2
  <2> HIDE DEF rank, moved
  <2>3. \A i, j \in q : rank(i) = rank(j) => i.place = j.place
    BY <1>1, <1>4, <2>2
  <2> QED
    BY <2>1, <2>3 DEF Item
<1>9. move \in Injection(q, Closed(q))
  <2>1. \A i, j \in q : move[i] = move[j] => i = j
    BY <1>8
  <2> QED
    BY <1>7, <2>1 DEF Surjection, Injection, IsInjective
<1>10. Cardinality(Closed(q)) = Cardinality(q)
  BY <1>7, <1>9, FS_Surjection
<1> HIDE DEF moved, rank, move
<1>11. Sorted(Closed(q))
  BY <1>4, <1>5, <1>6 DEF Sorted
<1>12. \A i \in Closed(q) : i.place <= Cardinality(q)
  BY <1>2, <1>5, <1>6
<1> QED
  BY <1>10, <1>11, <1>12

LEMMA WithoutPlaced ==
  ASSUME NEW q, q \subseteq Item, IsFiniteSet(q), Sorted(q), NEW seqs
  PROVE  /\ Sorted(Without(q, seqs))
         /\ \A i \in Without(q, seqs) : i.place <= Cardinality(Without(q, seqs))
<1> DEFINE kept == {i \in q : i.seq \notin seqs}
<1>1. kept \subseteq Item /\ IsFiniteSet(kept) /\ Sorted(kept)
  BY FS_Subset DEF Sorted
<1>2. Without(q, seqs) = Closed(kept)
  BY DEF Without
<1> HIDE DEF kept
<1> QED
  BY <1>1, <1>2, ClosedPlaced

(* What the runaway backstop keeps is the end of the array. *)
LEMMA NewestPlaced ==
  ASSUME NEW q, q \subseteq Item, IsFiniteSet(q), Sorted(q)
  PROVE  /\ Sorted(Newest(q))
         /\ \A i \in Newest(q) : i.place <= Cardinality(Newest(q))
         /\ \A i, j \in q : i.msg \in MsgsOf(Newest(q)) /\ i.msg <= j.msg => j.msg \in MsgsOf(Newest(q))
         /\ \A i \in q : (\A j \in q : j.msg <= i.msg) => i.msg \in MsgsOf(Newest(q))
<1> DEFINE above(i) == {j \in q : j.place > i.place}
           kept == {i \in q : Cardinality(above(i)) < MaxQueue}
<1>1. kept \subseteq Item /\ IsFiniteSet(kept) /\ Sorted(kept) /\ kept \subseteq q
  BY FS_Subset DEF Sorted
<1>2. Newest(q) = Closed(kept)
  BY DEF Newest
<1>3. \A i \in q : i.place \in Nat /\ i.msg \in Nat
  BY DeliveryAssumption DEF Item, Msgs
<1>4. \A i \in q : IsFiniteSet(above(i)) /\ Cardinality(above(i)) \in Nat
  BY FS_Subset, FS_CardinalityType
<1>5. ASSUME NEW i \in kept, NEW j \in q, i.msg <= j.msg
      PROVE  j \in kept
  <2>1. i \in q /\ i.place <= j.place
    BY <1>3, <1>5 DEF Sorted
  <2>2. above(j) \subseteq above(i)
    BY <1>3, <2>1
  <2>3. Cardinality(above(j)) <= Cardinality(above(i))
    BY <1>4, <2>1, <2>2, FS_Subset
  <2> QED
    BY <1>4, <2>1, <2>3, DeliveryAssumption
<1>6. ASSUME NEW i \in q, \A j \in q : j.msg <= i.msg
      PROVE  i \in kept
  <2>1. above(i) = {}
    BY <1>3, <1>6 DEF Sorted
  <2>2. Cardinality(above(i)) = 0
    BY <2>1, FS_EmptySet
  <2>3. 0 < MaxQueue
    BY DeliveryAssumption
  <2> QED
    BY <2>2, <2>3
<1> HIDE DEF kept
<1>7. MsgsOf(Newest(q)) = MsgsOf(kept)
  BY <1>1, <1>2, ClosedKeeps DEF MsgsOf
<1>8. \A i \in q : i.msg \in MsgsOf(kept) => i \in kept
  <2> SUFFICES ASSUME NEW i \in q, NEW j \in kept, i.msg = j.msg
               PROVE  i \in kept
    BY DEF MsgsOf
  <2>1. j.msg <= i.msg
    BY <1>3
  <2> QED
    BY <1>5, <2>1
<1>9. \A i \in kept : i.msg \in MsgsOf(kept)
  BY DEF MsgsOf
<1>10. \A i, j \in q : i.msg \in MsgsOf(kept) /\ i.msg <= j.msg => j.msg \in MsgsOf(kept)
  BY <1>5, <1>8, <1>9
<1>11. \A i \in q : (\A j \in q : j.msg <= i.msg) => i.msg \in MsgsOf(kept)
  BY <1>6, <1>9
<1>12. Sorted(Newest(q)) /\ \A i \in Newest(q) : i.place <= Cardinality(Newest(q))
  BY <1>1, <1>2, ClosedPlaced
<1> QED
  BY <1>7, <1>10, <1>11, <1>12

LEMMA PushPlaced ==
  ASSUME NEW q, q \subseteq Item, IsFiniteSet(q), Sorted(q),
         \A i \in q : i.place <= Cardinality(q),
         NEW seq \in Nat, NEW m \in Msgs, \A i \in q : i.msg < m
  PROVE  /\ Sorted(Push(q, seq, m))
         /\ \A i \in Push(q, seq, m) : i.place <= Cardinality(Push(q, seq, m))
         /\ Cardinality(Push(q, seq, m)) = Cardinality(q) + 1
<1> DEFINE new == [seq |-> seq, msg |-> m, place |-> Cardinality(q) + 1]
<1>1. new \notin q /\ Push(q, seq, m) = q \cup {new}
  BY DeliveryAssumption DEF Push, Msgs
<1>2. Cardinality(q) \in Nat /\ Cardinality(q \cup {new}) = Cardinality(q) + 1
  BY <1>1, FS_AddElement, FS_CardinalityType
<1>3. \A i \in q : i.place \in Nat /\ i.msg \in Nat /\ m \in Nat
  BY DeliveryAssumption DEF Item, Msgs
<1>4. new.place = Cardinality(q) + 1 /\ new.msg = m
  OBVIOUS
<1> HIDE DEF new
<1>5. \A i \in q : i.place < new.place /\ i.msg < new.msg
  BY <1>2, <1>3, <1>4
<1>6. new.place \in Nat /\ new.msg \in Nat
  BY <1>2, <1>4, DeliveryAssumption DEF Msgs
<1>7. Sorted(q \cup {new})
  BY <1>3, <1>5, <1>6 DEF Sorted
<1> QED
  BY <1>1, <1>2, <1>3, <1>4, <1>5, <1>7

-----------------------------------------------------------------------------
(* The steps of a serving process keep its disk.                             *)

LEMMA ServingStep ==
  ASSUME Inv, Inv', DiskInv, phase = "up", phase' = "up", UNCHANGED <<confirmed, unmarked>>,
         NEW N, Grows(N), Within(N, {"json", "delivering"}),
         \A m \in Owed' : m \in MsgsOf(queue') \/ \E f \in files' : Idle(f) /\ f.msg = m,
         Recorded', Placed', Heads'
  PROVE  DiskInv'
<1>1. Within(N, {"json", "delivering", "delivered"})
  BY DEF Within, Stems, Comes
<1>2. Tame' /\ Serving'
  BY <1>1, ServingKept DEF DiskInv
<1>3. Settled'
  BY SettledKept DEF DiskInv, Recorded
<1>4. AtRest' /\ Down' /\ Claiming'
  BY DEF AtRest, Down, Claiming
<1> QED
  BY <1>2, <1>3, <1>4 DEF DiskInv

(* Those that only rename or remove files, take from the queue and end sends. *)
LEMMA LessToDo ==
  ASSUME Inv, Inv', DiskInv, phase = "up", phase' = "up",
         UNCHANGED <<posted, queueSeq, delivered, confirmed, unmarked>>, fresh' \subseteq fresh,
         \A m \in Msgs : accepted'[m] >= accepted[m],
         removed \subseteq removed', removed' \subseteq 1..posted,
         \A i \in queue' : \E j \in queue : i.seq = j.seq /\ i.msg = j.msg,
         sending' \subseteq sending, Stems(files', files, Busy, {"json", "delivering"}), Placed',
         \A m \in Owed : m \in removed' \/ (m \in MsgsOf(queue) => m \in MsgsOf(queue')),
         \A f \in files : Idle(f) => f \in files' \/ f.msg \in removed'
  PROVE  DiskInv'
<1>1. \A i \in queue' : Pair(i) \in Busy
  <2> TAKE i \in queue'
  <2>1. PICK j \in queue : i.seq = j.seq /\ i.msg = j.msg
    OBVIOUS
  <2>2. Pair(i) = Pair(j)
    BY <2>1 DEF Pair
  <2> QED
    BY <2>2, QueueBusy
<1>2. \A s \in sending' : s.items \subseteq Busy
  BY SendBusy
<1>3. Within({}, {"json", "delivering"}) /\ Grows({})
  BY <1>1, <1>2 DEF Within, Grows
<1>4. Owed' \subseteq Owed /\ \A m \in Owed' : m \notin removed'
  BY DEF Owed
<1>5. \A m \in Owed' : m \in MsgsOf(queue') \/ \E f \in files' : Idle(f) /\ f.msg = m
  BY <1>4 DEF DiskInv, Serving
<1>6. Recorded'
  <2>1. confirmed \subseteq Msgs /\ accepted \in [Msgs -> Nat] /\ accepted' \in [Msgs -> Nat]
    BY DEF Inv, DataTyped
  <2>2. \A m \in confirmed : accepted[m] > 0
    BY DEF DiskInv, Recorded
  <2>3. \A m \in confirmed : accepted'[m] > 0
    <3> TAKE m \in confirmed
    <3>1. accepted[m] > 0 /\ accepted'[m] >= accepted[m] /\ accepted[m] \in Nat /\ accepted'[m] \in Nat
      BY <2>1, <2>2
    <3> QED
      BY <3>1
  <2> QED
    BY <2>3 DEF DiskInv, Recorded
<1>7. Heads'
  <2>1. MsgsOf(queue') \subseteq MsgsOf(queue)
    BY DEF MsgsOf
  <2> QED
    BY DEF DiskInv, Heads
<1> QED
  BY <1>3, <1>5, <1>6, <1>7, ServingStep

LEMMA FirstLeads ==
  ASSUME NEW q, q \subseteq Item, q # {}
  PROVE  First(q) \in q /\ \A i \in q : First(q).place <= i.place
<1> DEFINE P == {i.place : i \in q}
<1>1. P \subseteq Nat /\ P # {}
  BY DEF Item
<1>2. PICK x \in P : \A y \in P : x <= y
  BY <1>1, LeastNumber
<1>3. \E i \in q : \A j \in q : i.place <= j.place
  BY <1>2
<1> QED
  BY <1>3 DEF First

(* A send from the head of the queue. *)
LEMMA SendStartsDisk ==
  ASSUME Inv, Inv', DiskInv, phase = "up", queue # {},
         UNCHANGED <<phase, queue, queueSeq, posted, delivered, fresh, accepted, confirmed, removed, unmarked>>,
         StartSend(queue, First(queue), FALSE, files, {})
  PROVE  DiskInv'
<1> DEFINE covered == Covered(queue, First(queue), FALSE)
           items == {[seq |-> i.seq, msg |-> i.msg] : i \in covered}
<1>0. queue \subseteq Item /\ files \subseteq File
  BY DEF Inv, DataTyped
<1>1. /\ First(queue) \in queue /\ First(queue) \in covered
      /\ \A i \in queue : First(queue).place <= i.place
  BY <1>0, FirstLeads DEF Covered
<1>2. covered \subseteq queue
  BY <1>1 DEF Covered
<1>3. files' = Claim(files, Seqs(items)) /\ \A s \in sending' : s.items = items
  BY DEF StartSend
<1>4. items \subseteq Busy
  BY <1>2, QueueBusy DEF Pair
<1>5. \A f \in files : Live(f) => Pair(f) \in Busy
  BY FileBusy
<1>6. /\ Stems(files', files, Busy, {"delivering"})
      /\ IdleStay(files', files)
  BY <1>0, <1>3, <1>5, ClaimStems
<1>7. Stems(files', files, Busy, {"json", "delivering"})
  BY <1>6 DEF Stems, Comes
<1>8. Within({}, {"json", "delivering"}) /\ Grows({})
  BY <1>3, <1>4, <1>7, QueueBusy DEF Within, Grows
<1>9. Owed' = Owed
  BY DEF Owed
<1>10. \A m \in Owed' : m \in MsgsOf(queue') \/ \E f \in files' : Idle(f) /\ f.msg = m
  BY <1>6, <1>9 DEF DiskInv, Serving, IdleStay
<1>11. Recorded' /\ Placed'
  BY DEF DiskInv, Recorded, Placed
<1>12. Heads'
  <2> DEFINE p == Pair(First(queue))
  <2>1. p \in items /\ p.msg = First(queue).msg
    BY <1>1, QueueBusy DEF Pair
  <2>2. \A i \in queue : i.place \in Nat /\ i.msg \in Nat
    BY <1>0, DeliveryAssumption DEF Item, Msgs
  <2>3. \A i \in queue : p.msg <= i.msg
    BY <1>1, <2>1, <2>2 DEF DiskInv, Placed, Sorted
  <2> HIDE DEF items, p
  <2> QED
    BY <1>3, <2>1, <2>3 DEF Heads
<1> HIDE DEF items, covered
<1> QED
  BY <1>8, <1>10, <1>11, <1>12, ServingStep

LEMMA PostPushed ==
  ASSUME Inv, DiskInv, Post, NEW seq \in Nat
  PROVE  LET pushed == Push(queue, seq, posted + 1)
         IN  /\ phase = "up" /\ phase' = "up" /\ ~Seen(posted + 1)
             /\ posted \in Nat /\ queueSeq \in Nat /\ posted + 1 \in Msgs
             /\ \A i \in queue : i.msg \in Nat /\ i.msg <= posted
             /\ pushed \subseteq Item /\ IsFiniteSet(pushed) /\ Sorted(pushed)
             /\ \A i \in pushed : \/ i.seq = seq /\ i.msg = posted + 1
                                  \/ \E j \in queue : i.seq = j.seq /\ i.msg = j.msg
             /\ MsgsOf(pushed) = MsgsOf(queue) \cup {posted + 1}
<1> DEFINE pushed == Push(queue, seq, posted + 1)
<1>0. /\ queue \subseteq Item /\ IsFiniteSet(queue) /\ queueSeq \in Nat
      /\ posted \in Nat /\ posted + 1 \in Msgs /\ phase = "up" /\ phase' = "up"
      /\ \A i \in queue : i.msg \in Nat /\ i.msg <= posted
  <2>1. phase = "up" /\ phase' = "up" /\ queue \subseteq Item
    BY DEF Post, Inv, DataTyped
  <2>2. \A u \in Busy : u.msg <= posted
    BY <2>1 DEF DiskInv, Serving
  <2>3. \A i \in queue : i.msg <= posted
    BY <2>2, QueueBusy
  <2>4. \A i \in queue : i.msg \in Nat
    BY <2>1, DeliveryAssumption DEF Item, Msgs
  <2> QED
    BY <2>1, <2>3, <2>4, DeliveryAssumption DEF Inv, DataTyped, Post, Msgs
<1>1. ~Seen(posted + 1)
  BY <1>0 DEF Seen, MsgsOf, DiskInv, Recorded
<1>4. pushed \subseteq Item /\ IsFiniteSet(pushed)
  BY <1>0, PushType
<1>5. Sorted(queue) /\ \A i \in queue : i.place <= Cardinality(queue)
  BY DEF DiskInv, Placed
<1>6. \A i \in queue : i.msg < posted + 1
  BY <1>0
<1>7. Sorted(pushed)
  BY <1>0, <1>5, <1>6, PushPlaced
<1>8. \A i \in pushed : \/ i.seq = seq /\ i.msg = posted + 1
                        \/ \E j \in queue : i.seq = j.seq /\ i.msg = j.msg
  BY DEF Push
<1>9. MsgsOf(pushed) = MsgsOf(queue) \cup {posted + 1}
  <2>1. queue \subseteq pushed /\ \E i \in pushed : i.msg = posted + 1
    <3> DEFINE i == [seq |-> seq, msg |-> posted + 1, place |-> Cardinality(queue) + 1]
    <3>1. i \in pushed /\ i.msg = posted + 1 /\ queue \subseteq pushed
      BY DEF Push
    <3> QED
      BY <3>1
  <2> HIDE DEF pushed
  <2> QED
    BY <1>8, <2>1 DEF MsgsOf
<1> QED
  BY <1>0, <1>1, <1>4, <1>7, <1>8, <1>9

LEMMA PostDisk ==
  ASSUME Inv, Inv', DiskInv, Post
  PROVE  DiskInv'
<1>1. PICK seq \in Nat : queueSeq < seq /\ Enqueue(posted + 1, seq)
  BY NextNumber DEF Post
<1> DEFINE new == [seq |-> seq, msg |-> posted + 1]
           pushed == Push(queue, seq, posted + 1)
           kept == Newest(pushed)
<1>0. /\ queue \subseteq Item /\ posted \in Nat /\ posted + 1 \in Msgs /\ queueSeq \in Nat
      /\ phase = "up" /\ phase' = "up" /\ ~Seen(posted + 1)
      /\ \A i \in queue : i.msg \in Nat /\ i.msg <= posted
  BY PostPushed DEF Inv, DataTyped
<1>2. /\ delivered' = delivered \cup {posted + 1} /\ queueSeq' = seq
      /\ queue' = kept /\ removed' = removed \cup (MsgsOf(pushed) \ MsgsOf(kept))
      /\ files' = Persist(files, kept) /\ StartDrain(kept, pausedByOperator)
      /\ posted' = posted + 1 /\ fresh' \subseteq fresh \cup {posted + 1}
      /\ UNCHANGED <<phase, accepted, confirmed, unmarked>>
  BY <1>0, <1>1 DEF Post, Enqueue, record
<1>3. UNCHANGED sending
  BY <1>2, StartDrainSends DEF Inv
<1>4. pushed \subseteq Item /\ IsFiniteSet(pushed) /\ Sorted(pushed)
  BY PostPushed
<1>7. Sorted(pushed)
  BY <1>4
<1>8. \A i \in pushed : \/ i.seq = new.seq /\ i.msg = new.msg
                        \/ \E j \in queue : i.seq = j.seq /\ i.msg = j.msg
  BY PostPushed
<1>9. MsgsOf(pushed) = MsgsOf(queue) \cup {posted + 1}
  BY PostPushed
<1> HIDE DEF pushed
<1>10. /\ Sorted(kept) /\ \A i \in kept : i.place <= Cardinality(kept)
       /\ \A i \in kept : \E j \in pushed : i.seq = j.seq /\ i.msg = j.msg
  BY <1>4, <1>7, NewestPlaced, NewestKeeps
<1>11. MsgsOf(kept) \subseteq MsgsOf(pushed)
  BY <1>10 DEF MsgsOf
<1> HIDE DEF kept
<1>12. \A i \in queue' : Pair(i) \in Busy \cup {new}
  <2> TAKE i \in queue'
  <2>1. PICK j \in pushed : i.seq = j.seq /\ i.msg = j.msg
    BY <1>2, <1>10
  <2>2. CASE i.seq = new.seq /\ i.msg = new.msg
    BY <2>2 DEF Pair
  <2>3. ASSUME NEW k \in queue, i.seq = k.seq, i.msg = k.msg
        PROVE  Pair(i) \in Busy
    BY <2>3, QueueBusy DEF Pair
  <2> QED
    BY <1>8, <2>1, <2>2, <2>3
<1>13. Stems(files', files, Busy \cup {new}, {"json"}) /\ IdleStay(files', files)
  BY <1>2, <1>12, PersistStems
<1>14. Within({new}, {"json", "delivering"}) /\ Grows({new})
  <2>1. Stems(files', files, Busy \cup {new}, {"json", "delivering"})
    BY <1>13 DEF Stems, Comes
  <2> QED
    BY <1>1, <1>2, <1>3, <1>12, <2>1, SendBusy DEF Within, Grows
<1>15. ASSUME NEW m \in Owed'
       PROVE  m \in MsgsOf(queue') \/ \E f \in files' : Idle(f) /\ f.msg = m
  <2>1. m \in 1..(posted + 1) /\ m \notin confirmed /\ m \notin removed'
    BY <1>2 DEF Owed
  <2>2. CASE m \in MsgsOf(pushed)
    BY <1>2, <2>1, <2>2
  <2>3. CASE m \notin MsgsOf(pushed)
    <3>1. m \in 1..posted /\ m \notin MsgsOf(queue)
      BY <1>0, <1>9, <2>1, <2>3
    <3>2. m \in Owed
      BY <1>2, <2>1, <3>1 DEF Owed
    <3>3. PICK f \in files : Idle(f) /\ f.msg = m
      BY <1>0, <3>1, <3>2 DEF DiskInv, Serving
    <3> QED
      BY <1>13, <3>3 DEF IdleStay
  <2> QED
    BY <2>2, <2>3
<1>16. Recorded'
  <2>1. MsgsOf(pushed) \subseteq 1..posted'
    <3>1. \A i \in queue : i.msg \in 1..posted'
      BY <1>0, <1>2, DeliveryAssumption DEF Item, Msgs
    <3>2. posted + 1 \in 1..posted'
      BY <1>0, <1>2
    <3> QED
      BY <1>9, <3>1, <3>2 DEF MsgsOf
  <2>2. delivered \cup confirmed \cup removed \subseteq 1..posted'
    BY <1>0, <1>2 DEF DiskInv, Recorded
  <2>3. delivered' \cup confirmed' \cup removed' \subseteq 1..posted'
    BY <1>0, <1>2, <2>1, <2>2
  <2> QED
    BY <1>2, <2>3 DEF DiskInv, Recorded
<1>17. Placed'
  BY <1>2, <1>10 DEF Placed
<1>18. Heads'
  <2> SUFFICES ASSUME NEW s \in sending
               PROVE  \E p \in s.items : \A i \in queue' : p.msg <= i.msg
    BY <1>3 DEF Heads
  <2>1. PICK p \in s.items : \A i \in queue : p.msg <= i.msg
    BY DEF DiskInv, Heads
  <2>2. p.msg \in Nat /\ p.msg <= posted
    BY <1>0, SendBusy, DeliveryAssumption DEF DiskInv, Serving, Prompt, Msgs
  <2>3. \A m \in MsgsOf(pushed) : p.msg <= m
    BY <1>0, <1>9, <2>1, <2>2 DEF MsgsOf
  <2> QED
    BY <1>2, <1>11, <2>3 DEF MsgsOf
<1> HIDE DEF new
<1> QED
  BY <1>0, <1>2, <1>14, <1>15, <1>16, <1>17, <1>18, ServingStep

(* With no send given up, nothing is late. *)
LEMMA NothingLate ==
  ASSUME ClaimInv, timeouts = 0
  PROVE  late = {}
BY DEF ClaimInv, Claimed

LEMMA ArriveGrows ==
  ASSUME Inv, NEW S, IsFiniteSet(S), Arrive(S)
  PROVE  \A m \in Msgs : accepted'[m] >= accepted[m]
<1> TAKE m \in Msgs
<1>1. Cardinality({items \in S : m \in MsgsOf(items)}) \in Nat
  BY FS_Subset, FS_CardinalityType
<1>2. accepted'[m] = accepted[m] + Cardinality({items \in S : m \in MsgsOf(items)})
  BY DEF Arrive
<1>3. accepted[m] \in Nat
  BY DEF Inv, DataTyped
<1> QED
  BY <1>1, <1>2, <1>3

LEMMA AcceptedDisk ==
  ASSUME Inv, Inv', DiskInv, phase = "up", NEW s \in sending, SendAccepted(s)
  PROVE  DiskInv'
<1> DEFINE left == Without(queue, Seqs(s.items))
           kept == Persist(files, left)
<1>1. /\ queue' = left /\ files' = Confirm(kept, Seqs(s.items)) /\ sending' = sending \ {s}
      /\ confirmed' = confirmed \cup MsgsOf(s.items) /\ Arrive({s.items})
      /\ unmarked' = unmarked \cup {p.msg : p \in {p \in s.items : Has(files, p.seq, "delivered")}}
      /\ UNCHANGED <<phase, queueSeq, posted, delivered, fresh, removed>>
  BY DEF SendAccepted, feed
<1>2. queue \subseteq Item /\ IsFiniteSet(queue) /\ files \subseteq File /\ phase' = "up"
  BY <1>1 DEF Inv, DataTyped
<1>3. sending' = {}
  BY <1>1 DEF Inv, LockInv, SingleFlight
<1>4. left \subseteq Item /\ kept \subseteq File
  BY <1>2, WithoutType, PersistType
<1>5. Sorted(left) /\ \A i \in left : i.place <= Cardinality(left)
  BY <1>2, WithoutPlaced DEF DiskInv, Placed
<1>6. /\ \A i \in left : \E j \in queue : i.seq = j.seq /\ i.msg = j.msg /\ j.seq \notin Seqs(s.items)
      /\ \A j \in queue : j.seq \notin Seqs(s.items) =>
           \E i \in left : i.seq = j.seq /\ i.msg = j.msg
  BY <1>2, WithoutKeeps
<1> HIDE DEF left
<1>7. \A i \in left : Pair(i) \in Busy
  <2> TAKE i \in left
  <2>1. PICK j \in queue : i.seq = j.seq /\ i.msg = j.msg
    BY <1>6
  <2>2. Pair(i) = Pair(j)
    BY <2>1 DEF Pair
  <2> QED
    BY <2>2, QueueBusy
<1>8. Stems(kept, files, Busy, {"json"}) /\ IdleStay(kept, files)
  BY <1>7, PersistStems
<1>9. \A f \in kept : Live(f) => Pair(f) \in Busy
  <2>1. \A f \in kept : Live(f) /\ f \in files => Pair(f) \in Busy
    BY FileBusy
  <2> QED
    BY <1>8, <2>1 DEF Stems, Comes
<1>10. Stems(files', kept, Busy, {"delivered"}) /\ IdleStay(files', kept)
  BY <1>1, <1>4, <1>9, ConfirmStems
<1>11. Within({}, {"json", "delivering", "delivered"}) /\ Grows({})
  <2>1. Stems(files', files, Busy, {"json", "delivering", "delivered"})
    BY <1>8, <1>10 DEF Stems, Comes
  <2> QED
    BY <1>1, <1>3, <1>7, <2>1 DEF Within, Grows
<1>12. \A f \in files : Idle(f) => f \in files'
  BY <1>8, <1>10 DEF IdleStay
<1>13. \A p \in s.items : p \in Busy /\ p \in Prompt
  BY SendBusy
<1>14. \A i \in queue : i.seq \in Seqs(s.items) <=> i.msg \in MsgsOf(s.items)
  <2>1. \A i \in queue, p \in s.items : p.seq = i.seq <=> p.msg = i.msg
    BY <1>13, QueueBusy, OnePrompt DEF DiskInv
  <2> QED
    BY <2>1 DEF Seqs, MsgsOf
<1>15. MsgsOf(s.items) \subseteq 1..posted
  BY <1>13, DeliveryAssumption DEF DiskInv, Serving, MsgsOf, Prompt, Msgs
<1>16. ASSUME NEW m \in Owed'
       PROVE  m \in MsgsOf(queue') \/ \E f \in files' : Idle(f) /\ f.msg = m
  <2>1. m \in Owed /\ m \notin MsgsOf(s.items)
    BY <1>1, <1>16 DEF Owed
  <2>2. CASE m \in MsgsOf(queue)
    <3>1. PICK i \in queue : i.msg = m
      BY <2>2 DEF MsgsOf
    <3>2. i.seq \notin Seqs(s.items)
      BY <1>14, <2>1, <3>1
    <3> QED
      BY <1>1, <1>6, <3>1, <3>2 DEF MsgsOf
  <2> QED
    BY <1>12, <2>1, <2>2 DEF DiskInv, Serving
<1>17. Tame' /\ Serving'
  BY <1>2, <1>11, <1>16, ServingKept DEF DiskInv
<1>18. Recorded'
  <2>1. /\ confirmed \subseteq Msgs /\ MsgsOf(s.items) \subseteq Msgs
        /\ accepted \in [Msgs -> Nat]
    BY <1>13 DEF Inv, DataTyped, MsgsOf, Prompt
  <2>2. \A m \in Msgs : accepted'[m] = IF m \in MsgsOf(s.items) THEN accepted[m] + 1 ELSE accepted[m]
    BY <1>1, <2>1, ArriveOne
  <2>3. \A m \in confirmed : accepted[m] > 0
    BY DEF DiskInv, Recorded
  <2>4. ASSUME NEW m \in confirmed'
        PROVE  accepted'[m] > 0
    <3>1. m \in Msgs /\ accepted[m] \in Nat
      BY <1>1, <2>1
    <3>2. m \notin MsgsOf(s.items) => accepted[m] > 0
      BY <1>1, <2>3
    <3> QED
      BY <2>2, <3>1, <3>2
  <2> QED
    BY <1>1, <1>15, <2>4 DEF DiskInv, Recorded
<1>19. Placed' /\ Heads'
  BY <1>1, <1>3, <1>5 DEF Placed, Heads
<1>20. Settled'
  <2>0. Final' \subseteq Final \cup {m \in MsgsOf(s.items) : m \notin unmarked'}
    BY <1>1 DEF Final
  <2>1. \A i \in queue' : i.msg \notin Final'
    <3> TAKE i \in queue'
    <3>1. PICK j \in queue : i.msg = j.msg /\ j.seq \notin Seqs(s.items)
      BY <1>1, <1>6
    <3>2. i.msg \notin MsgsOf(s.items)
      BY <1>14, <3>1
    <3>3. i.msg \notin Final
      BY <3>1 DEF DiskInv, Settled, MsgsOf
    <3> QED
      BY <2>0, <3>2, <3>3
  <2>2. \A f \in Snapshot(left) : f.msg \notin MsgsOf(s.items) /\ f.msg \notin Final
    <3> TAKE f \in Snapshot(left)
    <3>1. PICK i \in left : f.msg = i.msg
      BY DEF Snapshot
    <3>2. PICK j \in queue : i.msg = j.msg /\ j.seq \notin Seqs(s.items)
      BY <1>6
    <3>3. j.msg \notin Final
      BY DEF DiskInv, Settled, MsgsOf
    <3> QED
      BY <1>14, <3>1, <3>2, <3>3
  <2>3. \A f \in kept : f \in Snapshot(left) \/ (f \in files /\ ~Plain(f, "json"))
    BY DEF Persist
  <2>4. \A f \in kept : ~f.consumed
    <3>1. \A g \in files : ~g.consumed
      BY DEF Inv, DataTyped, AllPlain
    <3> QED
      BY <1>8, <3>1 DEF Stems, Comes
  <2> DEFINE to(f) == IF Plain(f, "delivering") /\ f.seq \in Seqs(s.items) /\ ~Has(kept, f.seq, "delivered")
                        THEN [f EXCEPT !.ext = "delivered"] ELSE f
  <2>5. files' = {to(f) : f \in kept}
    BY <1>1 DEF Confirm
  <2>6. \A f \in kept : /\ to(f) \in File /\ to(f).msg = f.msg /\ ~to(f).consumed
                        /\ to(f) = f \/ to(f).ext = "delivered"
    BY <1>4, <2>4 DEF File, Exts
  <2>7. ASSUME NEW f \in kept, f.msg \in Final'
        PROVE  to(f).ext = "delivered"
    <3>1. CASE f.msg \in Final
      BY <2>2, <2>3, <2>6, <3>1 DEF DiskInv, Settled
    <3>2. CASE f.msg \in MsgsOf(s.items) /\ f.msg \notin unmarked'
      <4>1. f \in files /\ ~Plain(f, "json")
        BY <2>2, <2>3, <3>2
      <4>2. PICK p \in s.items : p.msg = f.msg
        BY <3>2 DEF MsgsOf
      <4>3. ~Idle(f)
        BY <1>13, <4>1, <4>2 DEF DiskInv, Tame
      <4>4. f.ext = "delivered" \/ Plain(f, "delivering")
        <5>1. f.ext \in Exts /\ ~f.consumed /\ ~Plain(f, "stuck-unobservable")
          BY <1>2, <2>4, <4>1 DEF File, DiskInv, Serving
        <5> QED
          BY <4>1, <4>3, <5>1 DEF Exts, StuckExts, Idle, Plain
      <4>5. CASE Plain(f, "delivering")
        <5>1. f.seq = p.seq
          BY <1>13, <4>1, <4>2, <4>5, FileBusy, OnePrompt DEF DiskInv, Live, Plain
        <5>2. ~Has(files, p.seq, "delivered")
          BY <1>1, <3>2, <4>2
        <5>3. ~Has(kept, f.seq, "delivered")
          <6> SUFFICES ASSUME NEW g \in kept, g.seq = f.seq, Plain(g, "delivered") PROVE FALSE
            BY DEF Has
          <6>1. g \in files
            BY <1>8 DEF Stems, Comes, Plain
          <6> QED
            BY <5>1, <5>2, <6>1 DEF Has
        <5>4. f.seq \in Seqs(s.items)
          BY <5>1 DEF Seqs
        <5> QED
          BY <1>4, <4>5, <5>3, <5>4 DEF File
      <4> QED
        BY <2>6, <4>4, <4>5
    <3> QED
      BY <2>0, <2>7, <3>1, <3>2
  <2> HIDE DEF to, kept
  <2>8. \A f \in files' : (f.msg \in Final' => f.ext = "delivered") /\ ~f.consumed
    BY <2>5, <2>6, <2>7
  <2> QED
    BY <1>3, <2>1, <2>8 DEF Settled, MsgsOf
<1>21. AtRest' /\ Down' /\ Claiming'
  BY <1>2 DEF AtRest, Down, Claiming
<1> QED
  BY <1>17, <1>18, <1>19, <1>20, <1>21 DEF DiskInv

LEMMA DeliveringDisk ==
  ASSUME Inv, Inv', ClaimInv, DiskInv, Delivering, timeouts = 0, timeouts' = 0
  PROVE  DiskInv'
<1>0. /\ late = {} /\ queue \subseteq Item /\ files \subseteq File /\ accepted \in [Msgs -> Nat]
      /\ \A f \in files : Live(f) => Pair(f) \in Busy
  BY NothingLate, FileBusy DEF Inv, DataTyped
<1>1. CASE DrainHolds \/ WatchdogElapses
  BY <1>1, StillDisk DEF DrainHolds, DrainBails, WatchdogElapses, disk, feed, history
<1>2. CASE PumpHolds
  <2>1. sending' = sending
    BY <1>2, AcquireIsSafe DEF PumpHolds, Superseded, Inv
  <2> QED
    BY <1>2, <2>1, StillDisk DEF PumpHolds, disk, feed, history
<1>3. CASE DrainDelivers
  <2>1. PICK d \in reading : DrainSends(d)
    BY <1>3 DEF DrainDelivers
  <2>2. phase = "up" /\ ~d.stale /\ queue # {}
    BY <2>1 DEF ClaimInv, Resting, DrainSends, StillOwns
  <2>3. sending = {}
    BY <2>2 DEF Inv, LockInv, LockHasOneOwner, SingleFlight
  <2>4. /\ StartSend(queue, First(queue), FALSE, files, {})
        /\ UNCHANGED <<phase, queue, queueSeq, posted, delivered, fresh, accepted, confirmed, removed, unmarked>>
    BY <2>1, <2>3 DEF DrainSends, feed, history
  <2> QED
    BY <2>2, <2>4, SendStartsDisk
<1>4. CASE PumpDelivers
  <2>1. /\ phase = "up" /\ queue # {} /\ CanAcquire
        /\ AcquireAndSend(queue, First(queue), FALSE, files)
        /\ UNCHANGED <<phase, queue, queueSeq, posted, delivered, fresh, accepted, confirmed, removed, unmarked>>
    BY <1>4 DEF PumpDelivers, feed, history
  <2>2. Superseded(sending) = {}
    BY <2>1, AcquireIsSafe DEF Superseded, Inv
  <2>3. StartSend(queue, First(queue), FALSE, files, {})
    BY <2>1, <2>2 DEF AcquireAndSend
  <2> QED
    BY <2>1, <2>3, SendStartsDisk
<1>5. \A s \in sending : phase = "up"
  BY DEF ClaimInv, Resting
<1>6. CASE DeliveryAccepted
  BY <1>5, <1>6, AcceptedDisk DEF DeliveryAccepted
<1>7. removed \subseteq 1..posted
  BY DEF DiskInv, Recorded
<1>8. CASE DeliveryRefused
  <2>1. PICK s \in sending : Refused(s.items) /\ sending' = sending \ {s}
    BY <1>8 DEF DeliveryRefused
  <2>2. /\ files' = RevertAllDelivering(files) /\ phase = "up"
        /\ UNCHANGED <<phase, queue, queueSeq, posted, delivered, fresh, confirmed, removed, unmarked>>
    BY <1>5, <2>1 DEF Refused, feed, record
  <2>3. Stems(files', files, Busy, {"json"}) /\ IdleStay(files', files)
    BY <1>0, <2>2, RevertStems
  <2>4. Stems(files', files, Busy, {"json", "delivering"})
    BY <2>3 DEF Stems, Comes
  <2>5. \A m \in Msgs : accepted'[m] >= accepted[m]
    <3>1. UNCHANGED accepted \/ Arrive({s.items})
      BY <2>1 DEF Refused
    <3>2. \A m \in Msgs : accepted[m] \in Nat /\ accepted[m] >= accepted[m]
      BY <1>0
    <3> QED
      BY <3>1, <3>2, ArriveGrows, FS_Singleton
  <2>6. Placed'
    BY <2>2 DEF DiskInv, Placed
  <2> QED
    BY <1>7, <2>1, <2>2, <2>3, <2>4, <2>5, <2>6, LessToDo DEF IdleStay
<1>9. CASE DeliveryThrows
  <2>1. PICK s \in sending : sending' = sending \ {s}
    BY <1>9 DEF DeliveryThrows
  <2>2. /\ phase = "up"
        /\ UNCHANGED <<phase, files, queue, queueSeq, posted, delivered, fresh, accepted, confirmed, removed, unmarked>>
    BY <1>5, <1>9 DEF DeliveryThrows, disk, feed, history
  <2>3. Stems(files', files, Busy, {"json", "delivering"})
    BY <2>2 DEF Stems, Comes
  <2>4. Placed'
    BY <2>2 DEF DiskInv, Placed
  <2>5. \A m \in Msgs : accepted[m] \in Nat /\ accepted'[m] >= accepted[m]
    BY <1>0, <2>2
  <2> QED
    BY <1>7, <2>1, <2>2, <2>3, <2>4, <2>5, LessToDo
<1>10. ~DeliveryTimesOut
  BY DEF DeliveryTimesOut
<1>11. ~LateAccepted /\ ~LateRefused
  BY <1>0 DEF LateAccepted, LateRefused
<1> QED
  BY <1>1, <1>2, <1>3, <1>4, <1>6, <1>8, <1>9, <1>10, <1>11 DEF Delivering

LEMMA OperatingDisk ==
  ASSUME Inv, Inv', DiskInv, Operating, "force" \notin Operator
  PROVE  DiskInv'
<1>0. /\ queue \subseteq Item /\ IsFiniteSet(queue) /\ files \subseteq File /\ posted \in Nat
      /\ \A m \in Msgs : accepted[m] \in Nat
      /\ removed \subseteq 1..posted
  BY DeliveryAssumption DEF Inv, DataTyped, DiskInv, Recorded
<1>1. CASE Pause
  BY <1>1, StillDisk DEF Pause, lock, feed, history
<1>2. CASE Resume
  <2>1. UNCHANGED sending
    BY <1>2, StartDrainSends DEF Resume, Inv
  <2> QED
    BY <1>2, <2>1, StillDisk DEF Resume, feed, history
<1>3. \A f \in files : f.msg \in 1..posted
  BY <1>0, DeliveryAssumption DEF DiskInv, Tame, File, Msgs
<1>4. phase = "up" => MsgsOf(queue) \subseteq 1..posted
  <2>1. phase = "up" => \A u \in Busy : u.msg <= posted /\ u.msg \in Nat
    BY BusyType, DeliveryAssumption DEF DiskInv, Serving, Prompt, Msgs
  <2>2. phase = "up" => \A i \in queue : i.msg <= posted /\ i.msg \in 1..NumMsgs
    BY <1>0, <2>1, QueueBusy DEF Item, Msgs
  <2> QED
    BY <1>0, <2>2, DeliveryAssumption DEF MsgsOf
<1>5. CASE DropQueue
  <2> DEFINE kept == {f \in files : f.consumed \/ f.ext \notin StuckExts}
  <2>1. /\ phase = "up" /\ queue' = {} /\ files' = Persist(kept, {})
        /\ removed' = removed \cup MsgsOf(queue) \cup {f.msg : f \in files \ kept}
        /\ UNCHANGED <<phase, queueSeq, sending, posted, delivered, fresh, accepted, confirmed, unmarked>>
    BY <1>5 DEF DropQueue, lock, feed, record
  <2>2. files' \subseteq files
    BY <2>1 DEF Persist, Snapshot
  <2>3. Stems(files', files, Busy, {"json", "delivering"})
    BY <2>2 DEF Stems, Comes
  <2>4. \A f \in files : Idle(f) => f.msg \in removed'
    BY <2>1 DEF Idle, StuckExts
  <2>5. \A m \in MsgsOf(queue) : m \in removed'
    BY <2>1
  <2>6. removed \subseteq removed' /\ removed' \subseteq 1..posted
    BY <1>0, <1>3, <1>4, <2>1
  <2>7. Placed'
    BY <2>1 DEF Placed, Sorted
  <2>8. \A m \in Msgs : accepted'[m] >= accepted[m]
    BY <1>0, <2>1
  <2> HIDE DEF kept
  <2> QED
    BY <2>1, <2>3, <2>4, <2>5, <2>6, <2>7, <2>8, LessToDo
<1>6. ASSUME NEW seq, DropMessage(seq)
      PROVE  DiskInv'
  <2> DEFINE left == Without(queue, {seq})
             gone == IF Seqs(left) # Seqs(queue) THEN {i.msg : i \in {i \in queue : i.seq = seq}}
                     ELSE {f.msg : f \in files \ DropStuck(files, seq)}
  <2>1. /\ phase = "up" /\ queue' = left
        /\ files' = IF Seqs(left) # Seqs(queue) THEN Persist(files, left) ELSE DropStuck(files, seq)
        /\ UNCHANGED <<phase, queueSeq, sending, posted, delivered, fresh, accepted, confirmed, unmarked>>
    BY <1>6 DEF DropMessage, lock, feed, record
  <2>2. removed' = removed \cup gone
    BY <1>6 DEF DropMessage
  <2>3. /\ \A i \in left : \E j \in queue : i.seq = j.seq /\ i.msg = j.msg /\ j.seq # seq
        /\ \A j \in queue : j.seq # seq => \E i \in left : i.seq = j.seq /\ i.msg = j.msg
    BY <1>0, WithoutKeeps
  <2>4. Sorted(left) /\ \A i \in left : i.place <= Cardinality(left)
    BY <1>0, WithoutPlaced DEF DiskInv, Placed
  <2>5. gone \subseteq 1..posted
    BY <1>3, <1>4, <2>1 DEF MsgsOf
  <2> HIDE DEF left
  <2>6. Placed'
    BY <2>1, <2>4 DEF Placed
  <2>7. removed \subseteq removed' /\ removed' \subseteq 1..posted
    BY <1>0, <2>2, <2>5
  <2>8. \A m \in Msgs : accepted'[m] >= accepted[m]
    BY <1>0, <2>1
  <2>9. CASE Seqs(left) # Seqs(queue)
    <3>1. \A i \in left : Pair(i) \in Busy
      <4> TAKE i \in left
      <4>1. PICK j \in queue : i.seq = j.seq /\ i.msg = j.msg
        BY <2>3
      <4>2. Pair(i) = Pair(j)
        BY <4>1 DEF Pair
      <4> QED
        BY <4>2, QueueBusy
    <3>2. Stems(files', files, Busy, {"json"}) /\ IdleStay(files', files)
      BY <2>1, <2>9, <3>1, PersistStems
    <3>3. Stems(files', files, Busy, {"json", "delivering"})
      BY <3>2 DEF Stems, Comes
    <3>4. \A m \in MsgsOf(queue) : m \in removed' \/ m \in MsgsOf(queue')
      <4> SUFFICES ASSUME NEW i \in queue PROVE i.msg \in removed' \/ i.msg \in MsgsOf(queue')
        BY DEF MsgsOf
      <4>1. CASE i.seq = seq
        BY <2>2, <2>9, <4>1
      <4>2. CASE i.seq # seq
        BY <2>1, <2>3, <4>2 DEF MsgsOf
      <4> QED
        BY <4>1, <4>2
    <3> HIDE DEF gone
    <3> QED
      BY <2>1, <2>3, <2>6, <2>7, <2>8, <3>2, <3>3, <3>4, LessToDo DEF IdleStay
  <2>10. CASE Seqs(left) = Seqs(queue)
    <3>1. files' = DropStuck(files, seq) /\ gone = {f.msg : f \in files \ DropStuck(files, seq)}
      BY <2>1, <2>10
    <3>2. files' \subseteq files
      BY <3>1 DEF DropStuck
    <3>3. Stems(files', files, Busy, {"json", "delivering"})
      BY <3>2 DEF Stems, Comes
    <3>4. \A f \in files : Idle(f) => f \in files' \/ f.msg \in removed'
      BY <2>2, <3>1
    <3>5. \A m \in MsgsOf(queue) : m \in MsgsOf(queue')
      <4> SUFFICES ASSUME NEW i \in queue PROVE i.msg \in MsgsOf(queue')
        BY DEF MsgsOf
      <4>1. i.seq \in Seqs(left)
        BY <2>10 DEF Seqs
      <4>2. i.seq # seq
        BY <2>3, <4>1 DEF Seqs
      <4> QED
        BY <2>1, <2>3, <4>2 DEF MsgsOf
    <3> HIDE DEF gone
    <3> QED
      BY <2>1, <2>3, <2>6, <2>7, <2>8, <3>3, <3>4, <3>5, LessToDo
  <2> QED
    BY <2>9, <2>10
<1> QED
  BY <1>1, <1>2, <1>5, <1>6 DEF Operating, ForceDeliver

-----------------------------------------------------------------------------
(* The order of the listing: names are sorted, and a file's tombstone follows *)
(* it at once.                                                               *)

Names == [seq: Nat, ext: Exts, consumed: BOOLEAN]

LEMMA BeforeOrder ==
  ASSUME NEW n \in Names, NEW o \in Names, NEW p \in Names
  PROVE  /\ ~Before(n, n)
         /\ Before(n, o) /\ Before(o, p) => Before(n, p)
         /\ Before(n, o) => n.seq <= o.seq
         /\ n.seq < o.seq => Before(n, o)
<1>1. \A ext : ExtRank(ext) \in Nat
  BY DEF ExtRank
<1> DEFINE rank(ext) == ExtRank(ext)
<1>2. \A ext : rank(ext) \in Nat
  BY <1>1
<1>3. \A a, b : Before(a, b) <=> \/ a.seq < b.seq
                                 \/ a.seq = b.seq /\ rank(a.ext) < rank(b.ext)
                                 \/ a.seq = b.seq /\ a.ext = b.ext /\ ~a.consumed /\ b.consumed
  BY DEF Before
<1> HIDE DEF rank
<1> QED
  BY <1>2, <1>3 DEF Names

LEMMA Adjacent ==
  ASSUME NEW n \in Names, ~n.consumed, NEW c \in Names,
         c.seq = n.seq, c.ext = n.ext, c.consumed, NEW o \in Names
  PROVE  /\ Before(n, c)
         /\ Before(n, o) => o = c \/ Before(c, o)
         /\ Before(o, c) => o = n \/ Before(o, n)
<1>1. \A ext : ExtRank(ext) \in Nat
  BY DEF ExtRank
<1> DEFINE rank(ext) == ExtRank(ext)
<1>2. \A ext : rank(ext) \in Nat
  BY <1>1
<1>3. \A a, b : Before(a, b) <=> \/ a.seq < b.seq
                                 \/ a.seq = b.seq /\ rank(a.ext) < rank(b.ext)
                                 \/ a.seq = b.seq /\ a.ext = b.ext /\ ~a.consumed /\ b.consumed
  BY DEF Before
<1>4. \A a, b \in Names : a.seq = b.seq /\ a.ext = b.ext /\ a.consumed = b.consumed => a = b
  BY DEF Names
<1> HIDE DEF rank
<1>5. n.seq \in Nat /\ c.seq \in Nat /\ o.seq \in Nat /\ n.consumed = FALSE /\ c.consumed = TRUE /\ o.consumed \in BOOLEAN
  BY DEF Names
<1>6. Before(n, c)
  BY <1>3
<1>7. Before(n, o) => o = c \/ Before(c, o)
  BY <1>2, <1>3, <1>4, <1>5
<1>8. Before(o, c) => o = n \/ Before(o, n)
  BY <1>2, <1>3, <1>4, <1>5
<1> QED
  BY <1>6, <1>7, <1>8

(* Of two names a restore may claim one comes first. *)
LEMMA BeforeTotal ==
  ASSUME NEW n \in Names, NEW o \in Names, n # o,
         n.ext \in {"json", "delivering", "stuck-unobservable"},
         o.ext \in {"json", "delivering", "stuck-unobservable"}
  PROVE  Before(n, o) \/ Before(o, n)
<1>1. ExtRank("delivering") = 1 /\ ExtRank("json") = 2 /\ ExtRank("stuck-unobservable") = 3
  BY DEF ExtRank
<1>2. n.seq \in Nat /\ o.seq \in Nat /\ n.consumed \in BOOLEAN /\ o.consumed \in BOOLEAN
  BY DEF Names
<1>3. n.seq # o.seq \/ n.ext # o.ext \/ n.consumed # o.consumed
  BY DEF Names
<1> QED
  BY <1>1, <1>2, <1>3 DEF Before

LEMMA NameType ==
  ASSUME NEW f \in File
  PROVE  /\ NameOf(f) \in Names /\ NameOf(f).seq = f.seq /\ NameOf(f).ext = f.ext
         /\ NameOf(f).consumed = f.consumed
BY DEF NameOf, Names, File

LEMMA AheadOrder ==
  ASSUME NEW f \in File, NEW g \in File, NEW h \in File
  PROVE  /\ ~Ahead(f, f)
         /\ Ahead(f, g) /\ Ahead(g, h) => Ahead(f, h)
         /\ Ahead(f, g) => f.seq <= g.seq
         /\ f.seq < g.seq => Ahead(f, g)
BY NameType, BeforeOrder DEF Ahead

LEMMA InitDisk == Init => DiskInv
<1> SUFFICES ASSUME Init PROVE DiskInv
  OBVIOUS
<1>1. PICK seqOf \in [1..posted -> Msgs], extOf \in [1..posted -> StuckExts] :
        /\ \A m, n \in 1..posted : m < n => seqOf[m] < seqOf[n]
        /\ files = {[seq |-> seqOf[m], ext |-> extOf[m], consumed |-> FALSE, msg |-> m] : m \in 1..posted}
  BY DEF Init, Legacy
<1>2. posted \in 0..NumMsgs /\ posted \in LegacyCounts /\ posted \in Nat /\ NumMsgs \in Nat
  BY DeliveryAssumption DEF Init
<1>3. \A f \in files : /\ f.msg \in 1..posted /\ f.seq = seqOf[f.msg] /\ f.ext = extOf[f.msg]
                       /\ f.seq \in 1..NumMsgs /\ f.ext \in StuckExts /\ f.consumed = FALSE
  BY <1>1 DEF Msgs
<1> DEFINE made(m) == [seq |-> seqOf[m], ext |-> extOf[m], consumed |-> FALSE, msg |-> m]
<1>a. files = {made(m) : m \in 1..posted} /\ \A m : made(m).msg = m
  BY <1>1
<1> HIDE DEF made
<1>4. \A m \in 1..posted : \E f \in files : f.msg = m
  <2> TAKE m \in 1..posted
  <2>1. made(m) \in files /\ made(m).msg = m
    BY <1>a
  <2> QED
    BY <2>1
<1>5. \A f, g \in files : f.msg = g.msg => f = g
  BY <1>a
<1>6. \A f, g \in files : f.seq < g.seq <=> f.msg < g.msg
  <2> TAKE f, g \in files
  <2>1. f.msg < g.msg => f.seq < g.seq
    <3>1. f.msg \in 1..posted /\ g.msg \in 1..posted /\ f.seq = seqOf[f.msg] /\ g.seq = seqOf[g.msg]
      BY <1>3
    <3> QED
      BY <1>1, <3>1
  <2>2. g.msg < f.msg => g.seq < f.seq
    <3>1. f.msg \in 1..posted /\ g.msg \in 1..posted /\ f.seq = seqOf[f.msg] /\ g.seq = seqOf[g.msg]
      BY <1>3
    <3> QED
      BY <1>1, <3>1
  <2>3. f.msg = g.msg => f.seq = g.seq
    BY <1>5
  <2>4. f.msg \in Nat /\ g.msg \in Nat /\ f.seq \in Nat /\ g.seq \in Nat
    BY <1>2, <1>3, DeliveryAssumption
  <2> QED
    BY <2>1, <2>2, <2>3, <2>4
<1>7. queue = {} /\ sending = {} /\ phase = "down" /\ queueSeq = 0 /\ delivered = {} /\ fresh = {}
      /\ confirmed = {} /\ removed = {}
  BY DEF Init
<1>8. Busy = {}
  <2>1. \A f \in files : ~Live(f)
    BY <1>3 DEF Live, StuckExts
  <2>2. {Pair(f) : f \in {f \in files : Live(f)}} = {}
    BY <2>1
  <2>3. {Pair(i) : i \in queue} = {} /\ UNION {s.items : s \in sending} = {}
    BY <1>7
  <2> QED
    BY <2>2, <2>3 DEF Busy
<1>9. Tame
  <2>1. \A f \in files : f.msg <= posted /\ f.seq >= 1
    BY <1>2, <1>3, DeliveryAssumption
  <2>2. LegacyCounts \subseteq {0} => files = {}
    BY <1>1, <1>2
  <2> QED
    BY <1>3, <1>5, <1>8, <2>1, <2>2 DEF Tame
<1>10. Recorded /\ Placed /\ Serving /\ Down /\ Claiming /\ Heads
  BY <1>7 DEF Recorded, Placed, Sorted, Serving, Down, Claiming, Heads
<1>11. Settled
  BY <1>3, <1>7 DEF Settled, Final, MsgsOf
<1>12. AtRest
  <2>1. \A f, g \in files : NameOf(f) = NameOf(g) => f = g
    <3> SUFFICES ASSUME NEW f \in files, NEW g \in files, NameOf(f) = NameOf(g) PROVE f = g
      OBVIOUS
    <3>1. f.seq = g.seq
      BY DEF NameOf
    <3>2. f.msg = g.msg
      BY <1>2, <1>3, <1>6, <3>1, DeliveryAssumption
    <3> QED
      BY <1>5, <3>2
  <2>2. \A m \in Owed : \E f \in files : f.msg = m /\ (Replayable(f) \/ Idle(f))
    BY <1>3, <1>4 DEF Owed, Replayable, Idle, StuckExts
  <2>3. files \subseteq File
    <3>1. \A f \in files : f = [seq |-> f.seq, ext |-> f.ext, consumed |-> f.consumed, msg |-> f.msg]
      BY <1>1
    <3>2. \A f \in files : f.seq \in Nat /\ f.msg \in Msgs /\ f.ext \in Exts /\ f.consumed \in BOOLEAN
      <4> TAKE f \in files
      <4>1. f.msg \in 1..posted /\ f.seq \in 1..NumMsgs /\ f.ext \in StuckExts /\ f.consumed = FALSE
        BY <1>3
      <4>2. f.msg \in Msgs /\ f.seq \in Nat
        BY <1>2, <4>1 DEF Msgs
      <4> QED
        BY <4>1, <4>2 DEF Exts
    <3> QED
      BY <3>1, <3>2 DEF File
  <2>5. \A f, g \in Replays : Ahead(f, g) => ~(g.msg < f.msg)
    <3> SUFFICES ASSUME NEW f \in files, NEW g \in files, Ahead(f, g), g.msg < f.msg PROVE FALSE
      BY DEF Replays
    <3>1. f.seq <= g.seq
      BY <2>3, AheadOrder
    <3> QED
      BY <1>2, <1>3, <1>6, <3>1, DeliveryAssumption
  <2>6. \A t \in Replays : ~t.consumed
    BY <1>3 DEF Replays
  <2>7. \A f, g \in Replays : NameOf(f) = NameOf(g) => f = g
    BY <2>1 DEF Replays
  <2> QED
    BY <2>2, <2>5, <2>6, <2>7 DEF AtRest
<1> QED
  BY <1>9, <1>10, <1>11, <1>12 DEF DiskInv

-----------------------------------------------------------------------------
(* The restore.                                                              *)

LEMMA BootDisk ==
  ASSUME Inv, Inv', ClaimInv, DiskInv, Boot
  PROVE  DiskInv'
<1>1. /\ phase = "down" /\ phase' = "claiming" /\ files' \subseteq files
      /\ \A f \in files : f \in files' \/ Plain(f, "delivered")
      /\ todo' = {NameOf(f) : f \in {f \in files : Replayable(f)}}
      /\ UNCHANGED <<queue, delivered, sending, posted, fresh, accepted, confirmed, removed, unmarked>>
  BY DEF Boot, WithExt, lock, feed, history
<1>2. queue = {} /\ queueSeq = 0 /\ delivered = {} /\ fresh = {} /\ sending = {}
  BY <1>1 DEF DiskInv, Down, ClaimInv, Resting
<1>3. Replays' = Replays
  BY <1>1 DEF Replays, Replayable, Plain
<1>4. Busy' \subseteq Busy
  BY <1>1, <1>2 DEF Busy
<1>5. Tame'
  BY <1>1, <1>4 DEF DiskInv, Tame, Idle
<1>6. Recorded' /\ Placed' /\ Serving' /\ Down' /\ Heads'
  BY <1>1, <1>2 DEF DiskInv, Recorded, Placed, Sorted, Serving, Down, Heads
<1>7. AtRest'
  <2>1. AtRest!1 /\ Owed' = Owed
    BY <1>1 DEF Owed
  <2>2. \A f \in files : Replayable(f) \/ Idle(f) => f \in files'
    BY <1>1 DEF Replayable, Idle, Plain
  <2> QED
    BY <1>1, <1>3, <2>1, <2>2 DEF DiskInv, AtRest, Replayable, Idle
<1>8. Claiming'
  <2>1. \A f \in Replays' : NameOf(f) \in todo'
    BY <1>1, <1>3 DEF Replays
  <2>2. \A n \in todo' : Replayable(n)
    BY <1>1 DEF Replayable, NameOf
  <2>3. MsgsOf(queue)' = {}
    BY <1>1, <1>2 DEF MsgsOf
  <2> QED
    BY <1>1, <1>2, <2>1, <2>2, <2>3 DEF Claiming
<1>9. Settled'
  BY <1>1, <1>2 DEF DiskInv, Settled, Final, MsgsOf
<1> QED
  BY <1>5, <1>6, <1>7, <1>8, <1>9 DEF DiskInv

(* What is left of the directory when a plain file becomes a tombstone.      *)
LEMMA ClaimedFiles ==
  ASSUME NEW fs, fs \subseteq File, NEW f \in fs, ~f.consumed, Replayable(f)
  PROVE  \E c \in File :
           /\ c.msg = f.msg /\ c.seq = f.seq /\ c.ext = f.ext /\ c.consumed
           /\ \A g : g \in Tombstone(fs, f) <=>
                       g = c \/ (g \in fs /\ g # f /\ NameOf(g) # NameOf(c))
<1> DEFINE c == [f EXCEPT !.consumed = TRUE]
<1>1. c \in File /\ c.msg = f.msg /\ c.seq = f.seq /\ c.ext = f.ext /\ c.consumed
  BY DEF File
<1>2. Tombstone(fs, f) = {g \in fs : g # f /\ NameOf(g) # NameOf(c)} \cup {c}
  BY DEF Tombstone
<1> HIDE DEF c
<1> QED
  BY <1>1, <1>2

LEMMA TombstoneRest ==
  ASSUME files \subseteq File, AtRest, phase = "claiming", phase' = "claiming",
         NEW f \in Replays, ~f.consumed, files' = Tombstone(files, f),
         UNCHANGED <<posted, confirmed, removed>>
  PROVE  AtRest'
<1>0. f \in files /\ Replayable(f) /\ Replays \subseteq File /\ f \in File
  BY DEF Replays
<1>1. PICK c \in File :
        /\ c.msg = f.msg /\ c.seq = f.seq /\ c.ext = f.ext /\ c.consumed
        /\ \A g : g \in files' <=> g = c \/ (g \in files /\ g # f /\ NameOf(g) # NameOf(c))
  BY <1>0, ClaimedFiles
<1>2. \A g : g \in Replays' <=> g = c \/ (g \in Replays /\ g # f /\ NameOf(g) # NameOf(c))
  BY <1>1 DEF Replays, Replayable
<1>3. /\ \A g, h \in Replays : NameOf(g) = NameOf(h) => g = h
      /\ \A m \in Owed : \E g \in files : g.msg = m /\ (Replayable(g) \/ Idle(g))
      /\ \A g, h \in Replays : Ahead(g, h) /\ h.msg < g.msg =>
           \E e \in Replays : e.msg = h.msg /\ Ahead(e, g)
      /\ \A t, p \in Replays : t.consumed /\ ~p.consumed /\ t.seq = p.seq /\ t.ext = p.ext => t.msg <= p.msg
  BY DEF AtRest
<1>4. \A g \in File : NameOf(g) = NameOf(c) <=> g.consumed /\ g.seq = f.seq /\ g.ext = f.ext
  BY <1>1 DEF NameOf, File
<1>5. \A g \in File : NameOf(g) = NameOf(f) <=> ~g.consumed /\ g.seq = f.seq /\ g.ext = f.ext
  BY <1>0 DEF NameOf, File
<1>6. \A g \in File : /\ Ahead(f, g) => NameOf(g) = NameOf(c) \/ Ahead(c, g)
                      /\ Ahead(g, c) => NameOf(g) = NameOf(f) \/ Ahead(g, f)
  BY <1>0, <1>1, NameType, Adjacent DEF Ahead
<1>7. Ahead(f, c)
  BY <1>0, <1>1, NameType, Adjacent DEF Ahead
(* The tombstone f's replaces, if there is one, holds a prompt that another   *)
(* file holds as well, or f itself.                                           *)
<1>8. \A t \in Replays : NameOf(t) = NameOf(c) =>
         t.msg = f.msg \/ \E h \in Replays : h.msg = t.msg /\ Ahead(h, f) /\ h # f /\ NameOf(h) # NameOf(c)
  <2> SUFFICES ASSUME NEW t \in Replays, NameOf(t) = NameOf(c), t.msg # f.msg
               PROVE  \E h \in Replays : h.msg = t.msg /\ Ahead(h, f) /\ h # f /\ NameOf(h) # NameOf(c)
    OBVIOUS
  <2>1. t.msg <= f.msg
    BY <1>0, <1>3, <1>4
  <2>2. t.msg < f.msg
    BY <1>0, <2>1, DeliveryAssumption DEF File, Msgs
  <2>3. Ahead(f, t)
    BY <1>7 DEF Ahead
  <2>4. PICK h \in Replays : h.msg = t.msg /\ Ahead(h, f)
    BY <1>3, <2>2, <2>3
  <2>5. h # f
    BY <1>0, <2>4, AheadOrder
  <2>6. NameOf(h) # NameOf(c)
    <3>1. SUFFICES ASSUME NameOf(h) = NameOf(c) PROVE FALSE
      OBVIOUS
    <3>2. Ahead(f, h) /\ Ahead(h, f) /\ h \in File
      BY <1>0, <1>7, <2>4, <3>1 DEF Ahead
    <3> QED
      BY <1>0, <3>2, AheadOrder
  <2> QED
    BY <2>4, <2>5, <2>6
<1>9. \A g, h \in Replays' : NameOf(g) = NameOf(h) => g = h
  BY <1>2, <1>3
<1>10. \A m \in Owed' : \E g \in files' : g.msg = m /\ (Replayable(g) \/ Idle(g))
  <2> TAKE m \in Owed'
  <2>1. Owed' = Owed
    BY DEF Owed
  <2>2. PICK g \in files : g.msg = m /\ (Replayable(g) \/ Idle(g))
    BY <1>3, <2>1
  <2>3. c \in files' /\ Replayable(c)
    BY <1>1 DEF Replayable
  <2>4. CASE g = f
    BY <1>1, <2>2, <2>3, <2>4
  <2>5. CASE g # f /\ NameOf(g) # NameOf(c)
    BY <1>1, <2>2, <2>5
  <2>6. CASE g # f /\ NameOf(g) = NameOf(c)
    <3>1. g \in Replays
      BY <1>4, <2>2, <2>6 DEF Replays, Replayable
    <3>2. CASE g.msg = f.msg
      BY <1>1, <2>2, <2>3, <3>2
    <3>3. CASE \E h \in Replays : h.msg = g.msg /\ Ahead(h, f) /\ h # f /\ NameOf(h) # NameOf(c)
      BY <1>1, <2>2, <3>3 DEF Replays
    <3> QED
      BY <1>8, <2>6, <3>1, <3>2, <3>3
  <2> QED
    BY <2>4, <2>5, <2>6
<1>13. ASSUME NEW a \in Replays', NEW b \in Replays', Ahead(a, b), b.msg < a.msg
       PROVE  \E e \in Replays' : e.msg = b.msg /\ Ahead(e, a)
  <2>0. a \in File /\ b \in File /\ c \in Replays'
    BY <1>0, <1>1, <1>2
  <2>1. CASE a # c /\ b # c
    <3>1. /\ a \in Replays /\ a # f /\ NameOf(a) # NameOf(c)
          /\ b \in Replays /\ b # f /\ NameOf(b) # NameOf(c)
      BY <1>2, <2>1
    <3>2. PICK h \in Replays : h.msg = b.msg /\ Ahead(h, a)
      BY <1>3, <1>13, <3>1
    <3>3. CASE h # f /\ NameOf(h) # NameOf(c)
      BY <1>2, <3>2, <3>3
    <3>4. CASE h = f
      BY <1>1, <1>6, <2>0, <3>1, <3>2, <3>4
    <3>5. CASE NameOf(h) = NameOf(c)
      <4>1. Ahead(c, a)
        BY <3>2, <3>5 DEF Ahead
      <4>2. CASE h.msg = f.msg
        BY <1>1, <2>0, <3>2, <4>1, <4>2
      <4>3. CASE \E g \in Replays : g.msg = h.msg /\ Ahead(g, f) /\ g # f /\ NameOf(g) # NameOf(c)
        <5>1. PICK g \in Replays : g.msg = h.msg /\ Ahead(g, f) /\ g # f /\ NameOf(g) # NameOf(c)
          BY <4>3
        <5>2. Ahead(f, a)
          BY <1>0, <1>7, <2>0, <4>1, AheadOrder
        <5>3. Ahead(g, a)
          BY <1>0, <2>0, <5>1, <5>2, AheadOrder
        <5> QED
          BY <1>2, <3>2, <5>1, <5>3
      <4> QED
        BY <1>8, <3>5, <4>2, <4>3
    <3> QED
      BY <3>3, <3>4, <3>5
  <2>2. CASE a = c /\ b # c
    <3>1. b \in Replays /\ Ahead(f, b) /\ b.msg < f.msg
      BY <1>0, <1>1, <1>2, <1>7, <1>13, <2>0, <2>2, AheadOrder
    <3>2. PICK h \in Replays : h.msg = b.msg /\ Ahead(h, f)
      BY <1>0, <1>3, <3>1
    <3>3. h # f
      BY <1>0, <3>2, AheadOrder
    <3>4. NameOf(h) # NameOf(c)
      <4>1. SUFFICES ASSUME NameOf(h) = NameOf(c) PROVE FALSE
        OBVIOUS
      <4>2. Ahead(f, h) /\ Ahead(h, f) /\ h \in File
        BY <1>0, <1>7, <3>2, <4>1 DEF Ahead
      <4> QED
        BY <1>0, <4>2, AheadOrder
    <3>5. Ahead(h, c)
      BY <1>0, <1>1, <1>7, <3>2, AheadOrder
    <3> QED
      BY <1>2, <2>2, <3>2, <3>3, <3>4, <3>5
  <2>3. CASE a # c /\ b = c
    <3>1. a \in Replays /\ a # f /\ NameOf(a) # NameOf(c)
      BY <1>2, <2>3
    <3>2. Ahead(a, f)
      BY <1>0, <1>3, <1>6, <1>13, <2>0, <2>3, <3>1
    <3>3. f.msg < a.msg
      BY <1>1, <1>13, <2>3
    <3>4. PICK h \in Replays : h.msg = f.msg /\ Ahead(h, a)
      BY <1>3, <3>1, <3>2, <3>3
    <3>5. Ahead(h, f)
      BY <1>0, <2>0, <3>2, <3>4, AheadOrder
    <3>6. h # f
      BY <1>0, <3>5, AheadOrder
    <3>7. NameOf(h) # NameOf(c)
      <4>1. SUFFICES ASSUME NameOf(h) = NameOf(c) PROVE FALSE
        OBVIOUS
      <4>2. Ahead(f, h) /\ h \in File
        BY <1>0, <1>7, <4>1 DEF Ahead
      <4> QED
        BY <1>0, <3>5, <4>2, AheadOrder
    <3> QED
      BY <1>1, <1>2, <2>3, <3>4, <3>6, <3>7
  <2>4. CASE a = c /\ b = c
    BY <1>13, <2>0, <2>4, AheadOrder
  <2> QED
    BY <2>1, <2>2, <2>3, <2>4
<1>14. \A t, p \in Replays' : t.consumed /\ ~p.consumed /\ t.seq = p.seq /\ t.ext = p.ext => t.msg <= p.msg
  <2> SUFFICES ASSUME NEW t \in Replays', NEW p \in Replays', t.consumed, ~p.consumed, t.seq = p.seq, t.ext = p.ext
               PROVE  t.msg <= p.msg
    OBVIOUS
  <2>1. p # c /\ p \in Replays /\ p # f
    BY <1>1, <1>2
  <2>2. t # c
    BY <1>0, <1>1, <1>3, <1>5, <2>1
  <2> QED
    BY <1>2, <1>3, <2>1, <2>2
<1> QED
  BY <1>9, <1>10, <1>13, <1>14 DEF AtRest

LEMMA RestoreFileDisk ==
  ASSUME Inv, Inv', ClaimInv, DiskInv, RestoreFile
  PROVE  DiskInv'
<1>1. PICK n \in todo, f \in files :
        /\ \A o \in todo : o = n \/ Before(n, o)
        /\ NameOf(f) = n /\ files' = Tombstone(files, f) /\ todo' = todo \ {n}
        /\ IF Seen(f.msg)
             THEN UNCHANGED <<queue, queueSeq, delivered>>
             ELSE /\ queueSeq' = queueSeq + 1
                  /\ queue' = Push(queue, queueSeq + 1, f.msg)
                  /\ delivered' = delivered \cup {f.msg}
  BY DEF RestoreFile
<1>2. /\ phase = "claiming" /\ phase' = "claiming" /\ sending = {} /\ sending' = {}
      /\ UNCHANGED <<posted, fresh, accepted, confirmed, removed, unmarked>>
  BY DEF RestoreFile, lock, feed, history, ClaimInv, Resting
<1>3. /\ files \subseteq File /\ files' \subseteq File /\ queue \subseteq Item /\ queue' \subseteq Item
      /\ IsFiniteSet(queue) /\ todo \subseteq Names /\ queueSeq \in Nat /\ posted \in Nat
  BY DeliveryAssumption DEF Inv, DataTyped, Names
<1>4. /\ \A g, h \in Replays : NameOf(g) = NameOf(h) => g = h
      /\ \A g, h \in Replays : Ahead(g, h) /\ h.msg < g.msg =>
           \E e \in Replays : e.msg = h.msg /\ Ahead(e, g)
  BY <1>2 DEF DiskInv, AtRest
<1>5. /\ \A g \in Replays : NameOf(g) \notin todo =>
           g.consumed /\ \E i \in queue : i.msg = g.msg
      /\ \A i \in queue : \E e \in Replays :
           /\ e.consumed /\ e.msg = i.msg
           /\ \A o \in todo : o = NameOf(e) \/ Before(NameOf(e), o)
      /\ \A o \in todo : Replayable(o)
      /\ delivered = MsgsOf(queue)
      /\ \A i \in queue : i.seq \in 1..queueSeq
      /\ \A i, j \in queue : Agree(i, j)
  BY <1>2 DEF DiskInv, Claiming
<1>6. f \in Replays /\ Replayable(f) /\ n \in Names
  BY <1>1, <1>3, <1>5 DEF Replays, Replayable, NameOf
<1>7. /\ Replays \subseteq File /\ f \in File /\ f.msg \in Msgs /\ f.seq \in Nat
      /\ f.msg <= posted /\ f.seq >= 1
  BY <1>3, <1>6 DEF Replays, File, DiskInv, Tame
<1>8. PICK c \in File :
        /\ c.msg = f.msg /\ c.seq = f.seq /\ c.ext = f.ext /\ c.consumed
        /\ \A g : g \in files' <=> g = c \/ (g \in files /\ g # f /\ NameOf(g) # NameOf(c))
        /\ f.consumed => c = f
  <2>1. CASE f.consumed
    <3>1. [f EXCEPT !.consumed = TRUE] = f
      BY <1>7, <2>1 DEF File
    <3>2. files' = {g \in files : g # f /\ NameOf(g) # NameOf(f)} \cup {f}
      BY <1>1, <3>1 DEF Tombstone
    <3> QED
      BY <1>7, <2>1, <3>2
  <2>2. CASE ~f.consumed
    BY <1>1, <1>3, <1>6, <2>2, ClaimedFiles
  <2> QED
    BY <2>1, <2>2
<1>9. \A g : g \in Replays' <=> g = c \/ (g \in Replays /\ g # f /\ NameOf(g) # NameOf(c))
  BY <1>8 DEF Replays, Replayable
<1>10. /\ NameOf(c) \in Names /\ (Before(n, NameOf(c)) \/ NameOf(c) = n)
       /\ \A o \in Names : Before(n, o) => o = NameOf(c) \/ Before(NameOf(c), o)
  BY <1>1, <1>6, <1>7, <1>8, NameType, Adjacent
<1>11. AtRest'
  <2>1. CASE f.consumed
    <3>1. files' = files
      <4>1. c = f
        BY <1>8, <2>1
      <4>2. \A g \in files : NameOf(g) = NameOf(f) => g = f
        <5> TAKE g \in files
        <5>1. NameOf(g) = NameOf(f) => g.consumed
          BY <2>1 DEF NameOf
        <5>2. g.consumed => g \in Replays
          BY DEF Replays, Replayable
        <5> QED
          BY <1>4, <1>6, <5>1, <5>2
      <4> QED
        BY <1>6, <1>8, <4>1, <4>2 DEF Replays
    <3>2. Replays' = Replays /\ Owed' = Owed
      BY <1>2, <3>1 DEF Replays, Owed
    <3> QED
      BY <1>2, <3>1, <3>2 DEF DiskInv, AtRest
  <2>2. CASE ~f.consumed
    BY <1>1, <1>2, <1>3, <1>6, <2>2, TombstoneRest DEF DiskInv
  <2> QED
    BY <2>1, <2>2
(* Who is queued was claimed before, from a name ahead of f's.               *)
<1>12. \A i \in queue : \E e \in Replays :
         e.consumed /\ e.msg = i.msg /\ (e = f \/ Ahead(e, f))
         /\ (\A o \in todo : o = NameOf(e) \/ Before(NameOf(e), o))
  <2> TAKE i \in queue
  <2>1. PICK e \in Replays : e.consumed /\ e.msg = i.msg
                             /\ \A o \in todo : o = NameOf(e) \/ Before(NameOf(e), o)
    BY <1>5
  <2>2. e = f \/ Ahead(e, f)
    BY <1>1, <1>4, <1>6, <2>1 DEF Ahead
  <2> QED
    BY <2>1, <2>2
<1>14. ~Seen(f.msg) => f.msg \notin MsgsOf(queue)
  BY DEF Seen
<1>15. ~Seen(f.msg) => \A i \in queue : i.msg < f.msg
  <2> SUFFICES ASSUME ~Seen(f.msg), NEW i \in queue, ~(i.msg < f.msg) PROVE FALSE
    OBVIOUS
  <2>1. i.msg \in Nat /\ f.msg \in Nat /\ i.msg # f.msg
    BY <1>3, <1>7, <1>14, DeliveryAssumption DEF Item, Msgs, MsgsOf
  <2>2. PICK e \in Replays : e.msg = i.msg /\ (e = f \/ Ahead(e, f))
                             /\ (\A o \in todo : o = NameOf(e) \/ Before(NameOf(e), o))
    BY <1>12
  <2>3. Ahead(e, f) /\ f.msg < e.msg
    BY <2>1, <2>2
  <2>4. PICK h \in Replays : h.msg = f.msg /\ Ahead(h, e)
    BY <1>4, <1>6, <2>3
  <2>5. NameOf(h) \notin todo
    <3>1. SUFFICES ASSUME NameOf(h) \in todo PROVE FALSE
      OBVIOUS
    <3>2. h = e \/ Ahead(e, h)
      BY <1>4, <2>2, <3>1 DEF Ahead
    <3> QED
      BY <1>7, <2>4, <3>2, AheadOrder
  <2> QED
    BY <1>5, <1>14, <2>4, <2>5 DEF MsgsOf
<1> DEFINE new == [seq |-> queueSeq + 1, msg |-> f.msg, place |-> Cardinality(queue) + 1]
<1>17. ~Seen(f.msg) => queue' = queue \cup {new} /\ queueSeq' = queueSeq + 1
                       /\ delivered' = delivered \cup {f.msg} /\ new \in Item
                       /\ new.seq = queueSeq + 1 /\ new.msg = f.msg
  BY <1>1, <1>3, <1>7, FS_CardinalityType DEF Push, Item
<1> HIDE DEF new
<1>18. \A i \in queue' : i \in queue \/ (~Seen(f.msg) /\ i = new)
  BY <1>1, <1>17
<1>19. queue \subseteq queue'
  BY <1>1, <1>17
<1>20. \E i \in queue' : i.msg = f.msg
  <2>1. CASE Seen(f.msg)
    BY <1>5, <1>19, <2>1 DEF Seen, MsgsOf
  <2>2. CASE ~Seen(f.msg)
    BY <1>17, <2>2
  <2> QED
    BY <2>1, <2>2
<1>21. Claiming'
  <2>1. \A g \in Replays' : NameOf(g) \notin todo' =>
           g.consumed /\ \E i \in queue' : i.msg = g.msg
    <3> SUFFICES ASSUME NEW g \in Replays', NameOf(g) \notin todo'
                 PROVE  g.consumed /\ \E i \in queue' : i.msg = g.msg
      OBVIOUS
    <3>1. CASE g = c
      BY <1>8, <1>20, <3>1
    <3>2. CASE g # c
      <4>1. g \in Replays /\ NameOf(g) # n
        BY <1>1, <1>4, <1>6, <1>9, <3>2
      <4> QED
        BY <1>1, <1>5, <1>19, <4>1
    <3> QED
      BY <3>1, <3>2
  <2>2. \A i \in queue' : \E e \in Replays' :
           /\ e.consumed /\ e.msg = i.msg
           /\ \A o \in todo' : o = NameOf(e) \/ Before(NameOf(e), o)
    <3> TAKE i \in queue'
    <3>1. CASE i \in queue
      <4>1. PICK e \in Replays : /\ e.consumed /\ e.msg = i.msg
                                 /\ (e = f \/ Ahead(e, f))
                                 /\ \A o \in todo : o = NameOf(e) \/ Before(NameOf(e), o)
        BY <1>12, <3>1
      <4>2. CASE e = f
        BY <1>1, <1>8, <1>9, <4>1, <4>2
      <4>3. CASE Ahead(e, f)
        <5>1. e # f
          BY <1>7, <4>3, AheadOrder
        <5>2. NameOf(e) # NameOf(c)
          <6>1. SUFFICES ASSUME NameOf(e) = NameOf(c) PROVE FALSE
            OBVIOUS
          <6>2. Before(NameOf(c), n) /\ n \in Names /\ NameOf(c) \in Names
            BY <1>1, <1>6, <1>10, <4>3, <6>1 DEF Ahead
          <6> QED
            BY <1>10, <6>2, BeforeOrder
        <5>3. e \in Replays'
          BY <1>9, <5>1, <5>2
        <5> QED
          BY <1>1, <4>1, <5>3
      <4> QED
        BY <4>1, <4>2, <4>3
    <3>2. CASE ~Seen(f.msg) /\ i = new
      <4>1. c \in Replays' /\ c.consumed /\ c.msg = i.msg
        BY <1>8, <1>9, <1>17, <3>2
      <4>2. \A o \in todo' : o = NameOf(c) \/ Before(NameOf(c), o)
        BY <1>1, <1>3, <1>10
      <4> QED
        BY <4>1, <4>2
    <3> QED
      BY <1>18, <3>1, <3>2
  <2>3. \A o \in todo' : Replayable(o)
    BY <1>1, <1>5 DEF Replayable
  <2>4. delivered' = MsgsOf(queue)'
    <3>1. CASE Seen(f.msg)
      BY <1>1, <1>5, <3>1 DEF MsgsOf
    <3>2. CASE ~Seen(f.msg)
      BY <1>5, <1>17, <3>2 DEF MsgsOf
    <3> QED
      BY <3>1, <3>2
  <2>6. \A i \in queue' : i.seq \in 1..queueSeq'
    <3>1. queueSeq' \in Nat /\ queueSeq <= queueSeq'
      BY <1>1, <1>3
    <3>2. \A i \in queue : i.seq \in 1..queueSeq'
      BY <1>3, <1>5, <3>1
    <3>3. ~Seen(f.msg) => new.seq \in 1..queueSeq'
      BY <1>3, <1>17, <3>1
    <3> QED
      BY <1>18, <3>2, <3>3
  <2>7. \A i, j \in queue' : Agree(i, j)
    <3> TAKE i, j \in queue'
    <3>1. ~Seen(f.msg) => \A k \in queue : k.seq < new.seq /\ k.msg < new.msg
      BY <1>3, <1>5, <1>15, <1>17
    <3>2. i \in Item /\ j \in Item
      BY <1>3
    <3> QED
      BY <1>5, <1>18, <3>1, <3>2, DeliveryAssumption DEF Agree, Item, Msgs
  <2> QED
    BY <2>1, <2>2, <2>3, <2>4, <2>6, <2>7 DEF Claiming
<1>22. Placed'
  <2>1. Sorted(queue) /\ \A i \in queue : i.place <= Cardinality(queue)
    BY DEF DiskInv, Placed
  <2>2. CASE Seen(f.msg)
    BY <1>1, <2>1, <2>2 DEF Placed
  <2>3. CASE ~Seen(f.msg)
    <3>1. f.msg \in Nat /\ queueSeq + 1 \in Nat
      BY <1>3, <1>7, DeliveryAssumption DEF Msgs
    <3>2. queue' = Push(queue, queueSeq + 1, f.msg)
      BY <1>1, <2>3
    <3> QED
      BY <1>3, <1>7, <1>15, <2>1, <2>3, <3>1, <3>2, PushPlaced DEF Placed
  <2> QED
    BY <2>2, <2>3
<1>23. \A g \in files' : Idle(g) => g \in files
  BY <1>8 DEF Idle
<1>24. Busy' \subseteq Busy \cup {Pair(i) : i \in queue'}
  <2>1. \A g \in files' : Live(g) \/ Plain(g, "delivered") => g \in files
    BY <1>8 DEF Live, Plain
  <2> QED
    BY <1>2, <2>1 DEF Busy, Plain
<1>25. Tame'
  <2>1. \A g \in files' : g.msg <= posted' /\ g.seq >= 1
    BY <1>2, <1>7, <1>8 DEF DiskInv, Tame
  <2>2. \A g \in files' : g.consumed => g.ext \in {"json", "delivering", "stuck-unobservable"}
    <3>1. f.ext \in {"json", "delivering", "stuck-unobservable"}
      BY <1>6 DEF DiskInv, Tame, Replayable
    <3> QED
      BY <1>8, <3>1 DEF DiskInv, Tame
  <2>3. \A g, h \in files' : Idle(g) /\ h.msg = g.msg => h = g
    <3> SUFFICES ASSUME NEW g \in files', NEW h \in files', Idle(g), h.msg = g.msg PROVE h = g
      OBVIOUS
    <3>1. g \in files /\ g # f
      BY <1>6, <1>23 DEF Idle, Replayable
    <3>2. h # c
      BY <1>8, <3>1 DEF DiskInv, Tame
    <3> QED
      BY <1>8, <3>1, <3>2 DEF DiskInv, Tame
  <2>4. \A g \in files', u \in Busy' : Idle(g) => u.msg # g.msg
    <3> SUFFICES ASSUME NEW g \in files', NEW u \in Busy', Idle(g), u.msg = g.msg PROVE FALSE
      OBVIOUS
    <3>1. g \in files /\ g # f /\ ~Replayable(g)
      BY <1>6, <1>23 DEF Idle, Replayable
    <3>2. g.msg # f.msg
      BY <1>6, <1>7, <3>1 DEF DiskInv, Tame, Replays
    <3>3. u \notin Busy
      BY <3>1 DEF DiskInv, Tame
    <3>4. PICK i \in queue' : u = Pair(i)
      BY <1>24, <3>3
    <3>5. i \notin queue
      BY <3>3, <3>4, QueueBusy
    <3>6. i = new /\ ~Seen(f.msg)
      BY <1>18, <3>5
    <3> QED
      BY <1>17, <3>2, <3>4, <3>6, PairType
  <2>5. LegacyCounts \subseteq {0} => \A g \in files' : g.ext \notin StuckExts
    BY <1>8 DEF DiskInv, Tame
  <2> QED
    BY <2>1, <2>2, <2>3, <2>4, <2>5 DEF Tame
<1>26. Recorded'
  <2>1. delivered' \subseteq delivered \cup {f.msg}
    BY <1>1
  <2>2. f.msg \in 1..posted
    BY <1>3, <1>7, DeliveryAssumption DEF Msgs
  <2>3. delivered \subseteq delivered'
    BY <1>1
  <2> QED
    BY <1>2, <2>1, <2>2, <2>3 DEF DiskInv, Recorded
<1>27. Settled'
  <2>1. f.msg \notin Final
    BY <1>6 DEF DiskInv, Settled, Replayable, Replays
  <2>2. \A m \in Final : m \notin MsgsOf(queue)'
    <3> SUFFICES ASSUME NEW m \in Final, NEW i \in queue', i.msg = m PROVE FALSE
      BY DEF MsgsOf
    <3>1. i \in queue \/ i.msg = f.msg
      BY <1>17, <1>18
    <3> QED
      BY <2>1, <3>1 DEF DiskInv, Settled, MsgsOf
  <2>3. \A g \in files' : g.msg \in Final => g.ext = "delivered"
    BY <1>8, <2>1 DEF DiskInv, Settled
  <2>4. c.ext # "delivered"
    BY <1>6, <1>8 DEF DiskInv, Settled, Replayable, Replays
  <2>5. \A g \in files' : g.ext = "delivered" => ~g.consumed
    BY <1>8, <2>4 DEF DiskInv, Settled
  <2>6. Final' = Final
    BY <1>2 DEF Final
  <2> QED
    BY <1>2, <2>2, <2>3, <2>5, <2>6 DEF Settled
<1> QED
  BY <1>2, <1>11, <1>21, <1>22, <1>25, <1>26, <1>27 DEF DiskInv, Serving, Down, Heads

(* What restoreQueues writes of its queue, all of it or a part before a crash. *)
LEMMA SavedFiles ==
  ASSUME Inv, DiskInv, UNCHANGED <<posted, confirmed, unmarked>>, queue' \subseteq queue, sending' = {},
         \A i \in queue : i.seq >= 1 /\ i.msg <= posted,
         \A g \in files' : g \in files \/ (Plain(g, "json") /\ Pair(g) \in {Pair(i) : i \in queue})
  PROVE  Busy' \subseteq Busy /\ Tame' /\ Settled'
<1>9. Busy' \subseteq Busy
  <2>1. \A g \in files' : Live(g) => Pair(g) \in Busy
    BY FileBusy, QueueBusy
  <2>2. \A i \in queue' : Pair(i) \in Busy
    BY QueueBusy
  <2> QED
    BY <2>1, <2>2 DEF Busy
<1>13. Tame'
  <2>1. \A g \in files' : g.msg <= posted' /\ g.seq >= 1
    <3> TAKE g \in files'
    <3>1. CASE g \in files
      BY <3>1 DEF DiskInv, Tame
    <3>2. CASE Plain(g, "json") /\ Pair(g) \in {Pair(i) : i \in queue}
      <4>1. PICK i \in queue : Pair(g) = Pair(i)
        BY <3>2
      <4>2. g.seq = i.seq /\ g.msg = i.msg
        BY <4>1 DEF Pair
      <4> QED
        BY <4>2
    <3> QED
      BY <3>1, <3>2
  <2>2. \A g \in files' : Idle(g) \/ g.consumed => g \in files
    BY DEF Idle, Plain
  <2>3. \A g \in files' : g \in files \/ \E u \in Busy : u.msg = g.msg
    <3> TAKE g \in files'
    <3>1. ASSUME NEW i \in queue, Pair(g) = Pair(i) PROVE \E u \in Busy : u.msg = g.msg
      <4>1. Pair(i) \in Busy /\ Pair(g).msg = g.msg
        BY QueueBusy DEF Pair
      <4> QED
        BY <3>1, <4>1
    <3> QED
      BY <3>1
  <2>4. \A g, h \in files' : Idle(g) /\ h.msg = g.msg => h = g
    BY <2>2, <2>3 DEF DiskInv, Tame
  <2>5. \A g \in files', u \in Busy' : Idle(g) => u.msg # g.msg
    BY <1>9, <2>2 DEF DiskInv, Tame
  <2>6. \A f \in files' : f.consumed => f.ext \in {"json", "delivering", "stuck-unobservable"}
    BY <2>2 DEF DiskInv, Tame
  <2>7. LegacyCounts \subseteq {0} => \A f \in files' : f.ext \notin StuckExts
    BY DEF DiskInv, Tame, Plain, StuckExts
  <2> QED
    BY <2>1, <2>4, <2>5, <2>6, <2>7 DEF Tame
<1>14. Settled'
  <2>1. \A g \in files' : g \in files \/ (g.msg \in MsgsOf(queue) /\ Plain(g, "json"))
    <3> TAKE g \in files'
    <3>1. ASSUME NEW i \in queue, Pair(g) = Pair(i) PROVE g.msg \in MsgsOf(queue)
      BY <3>1 DEF Pair, MsgsOf
    <3> QED
      BY <3>1
  <2>2. Final' = Final
    BY DEF Final
  <2>3. \A g \in files' : g.msg \in Final => g.ext = "delivered"
    BY <2>1 DEF DiskInv, Settled
  <2>4. \A g \in files' : g.ext = "delivered" => ~g.consumed
    BY <2>1 DEF DiskInv, Settled, Plain
  <2>5. MsgsOf(queue') \subseteq MsgsOf(queue)
    BY DEF MsgsOf
  <2> QED
    BY <2>2, <2>3, <2>4, <2>5 DEF DiskInv, Settled
<1> QED
  BY <1>9, <1>13, <1>14

(* Where numbers follow the array, every item gets a file. *)
LEMMA SavedEach ==
  ASSUME Inv, NEW q, q \subseteq queue, Sorted(queue), \A i, j \in queue : Agree(i, j), NEW i \in q
  PROVE  \E p \in Snapshot(q) : p.msg = i.msg /\ p.seq = i.seq /\ Plain(p, "json")
<1>1. queue \subseteq Item
  BY DEF Inv, DataTyped
<1>2. \A j \in q : j.seq = i.seq => j.place <= i.place
  <2> SUFFICES ASSUME NEW j \in q, j.seq = i.seq PROVE j.place <= i.place
    OBVIOUS
  <2>1. i.msg \in Nat /\ j.msg \in Nat /\ i.seq \in Nat /\ i.place \in Nat /\ j.place \in Nat
    BY <1>1, DeliveryAssumption DEF Item, Msgs
  <2>2. i.msg = j.msg
    BY <2>1 DEF Agree
  <2> QED
    BY <2>1, <2>2 DEF Sorted
<1> DEFINE p == [seq |-> i.seq, ext |-> "json", consumed |-> FALSE, msg |-> i.msg]
<1>3. p \in Snapshot(q)
  BY <1>2 DEF Snapshot
<1>4. p.msg = i.msg /\ p.seq = i.seq /\ Plain(p, "json")
  BY DEF Plain
<1> QED
  BY <1>3, <1>4

LEMMA RestoreSaveDisk ==
  ASSUME Inv, Inv', ClaimInv, DiskInv, RestoreSave
  PROVE  DiskInv'
<1>1. /\ phase = "claiming" /\ todo = {} /\ phase' = "cleaning" /\ files' = Persist(files, queue)
      /\ sending = {} /\ sending' = {}
      /\ UNCHANGED <<queue, queueSeq, delivered, posted, fresh, accepted, confirmed, removed, unmarked>>
  BY DEF RestoreSave, lock, feed, history, ClaimInv, Resting
<1>2. /\ files \subseteq File /\ queue \subseteq Item /\ queueSeq \in Nat /\ posted \in Nat
  BY DeliveryAssumption DEF Inv, DataTyped
<1>3. /\ \A g, h \in Replays : NameOf(g) = NameOf(h) => g = h
      /\ \A m \in Owed : \E g \in files : g.msg = m /\ (Replayable(g) \/ Idle(g))
  BY <1>1 DEF DiskInv, AtRest
<1>4. /\ \A g \in Replays : g.consumed /\ \E i \in queue : i.msg = g.msg
      /\ \A i \in queue : \E e \in Replays : e.msg = i.msg
      /\ \A i \in queue : i.seq \in 1..queueSeq
      /\ \A i, j \in queue : Agree(i, j)
  BY <1>1 DEF DiskInv, Claiming
<1>5. \A g \in files : ~Live(g) /\ ~Plain(g, "json") /\ ~Plain(g, "stuck-unobservable")
  BY <1>4 DEF Replays, Replayable, Live, Plain
<1>6. \A g \in files' : g \in files \/ (Plain(g, "json") /\ Pair(g) \in {Pair(i) : i \in queue})
  BY <1>1 DEF Persist, Snapshot, Plain, Pair
<1>7. files \subseteq files'
  BY <1>1, <1>5 DEF Persist
<1>8. \A u \in Busy' : \E i \in queue : u = Pair(i)
  <2>1. \A g \in files' : Live(g) => Pair(g) \in {Pair(i) : i \in queue}
    BY <1>5, <1>6
  <2> QED
    BY <1>1, <2>1 DEF Busy
<1>9. Busy' \subseteq Busy
  BY <1>8, QueueBusy
<1>10. \A i \in queue : Pair(i).seq = i.seq /\ Pair(i).msg = i.msg
  BY QueueBusy
<1>11. \A i \in queue : i.msg <= posted
  BY <1>4 DEF DiskInv, Tame, Replays
<1>12. Serving'
  <2>1. \A u, v \in Busy' : Agree(u, v)
    BY <1>4, <1>8, <1>10 DEF Agree
  <2>2. \A u \in Busy' : u.seq \in 1..queueSeq' /\ u.msg <= posted'
    BY <1>1, <1>4, <1>8, <1>10, <1>11
  <2>3. \A m \in Owed' : m \in MsgsOf(queue') \/ \E f \in files' : Idle(f) /\ f.msg = m
    <3> TAKE m \in Owed'
    <3>1. PICK g \in files : g.msg = m /\ (Replayable(g) \/ Idle(g))
      BY <1>1, <1>3 DEF Owed
    <3>2. CASE Replayable(g)
      BY <1>1, <1>4, <3>1, <3>2 DEF Replays, MsgsOf
    <3>3. CASE Idle(g)
      BY <1>7, <3>1, <3>3
    <3> QED
      BY <3>1, <3>2, <3>3
  <2>4. \A f \in files' : ~Plain(f, "stuck-unobservable")
    BY <1>5, <1>6 DEF Plain
  <2>5. \A f \in files' : f.consumed => f \in Replays
    BY <1>6 DEF Replays, Replayable, Plain
  <2>6. \A f, g \in files' : f.consumed /\ g.consumed /\ NameOf(f) = NameOf(g) => f = g
    BY <1>3, <2>5
  <2>7. ASSUME NEW f \in files', f.consumed
        PROVE  \E i \in queue', p \in files' :
                 i.msg = f.msg /\ p.msg = f.msg /\ p.seq = i.seq /\ Plain(p, "json")
    <3>1. PICK i \in queue : i.msg = f.msg
      BY <1>4, <2>5, <2>7
    <3>2. \E p \in Snapshot(queue) : p.msg = i.msg /\ p.seq = i.seq /\ Plain(p, "json")
      BY <1>4, SavedEach DEF DiskInv, Placed
    <3> QED
      BY <1>1, <3>1, <3>2 DEF Persist
  <2> QED
    BY <2>1, <2>2, <2>3, <2>4, <2>6, <2>7 DEF Serving
<1>13. Tame' /\ Settled'
  BY <1>1, <1>2, <1>4, <1>6, <1>11, SavedFiles
<1>15. Recorded' /\ Placed' /\ Heads'
  BY <1>1 DEF DiskInv, Recorded, Placed, Sorted, Heads
<1> QED
  BY <1>1, <1>12, <1>13, <1>15 DEF DiskInv, AtRest, Down, Claiming

LEMMA RemoveTombstoneDisk ==
  ASSUME Inv, Inv', DiskInv, RemoveTombstone
  PROVE  DiskInv'
<1>1. PICK f \in files : f.consumed /\ files' = files \ {f}
  BY DEF RemoveTombstone
<1>2. /\ phase = "cleaning" /\ phase' = "cleaning"
      /\ UNCHANGED <<queue, queueSeq, delivered, sending, posted, fresh, accepted, confirmed, removed, unmarked>>
  BY DEF RemoveTombstone, lock, feed, history
<1>3. Busy' \subseteq Busy
  BY <1>1, <1>2 DEF Busy
<1>4. \A g \in files : Idle(g) => g \in files'
  BY <1>1 DEF Idle
<1>5. Tame'
  BY <1>1, <1>2, <1>3 DEF DiskInv, Tame
<1>6. Serving'
  <2>1. Owed' = Owed /\ MsgsOf(queue') = MsgsOf(queue)
    BY <1>2 DEF Owed
  <2>2. \A g \in files : Plain(g, "json") => g \in files'
    BY <1>1 DEF Plain
  <2> QED
    BY <1>1, <1>2, <1>3, <1>4, <2>1, <2>2 DEF DiskInv, Serving
<1>7. Settled'
  <2>1. MsgsOf(queue') = MsgsOf(queue) /\ Final' = Final
    BY <1>2 DEF Final
  <2> QED
    BY <1>1, <1>2, <2>1 DEF DiskInv, Settled
<1> QED
  BY <1>2, <1>5, <1>6, <1>7 DEF DiskInv, Recorded, Placed, Sorted, AtRest, Down, Claiming, Heads

LEMMA FinishRestoreDisk ==
  ASSUME Inv, Inv', DiskInv, FinishRestore
  PROVE  DiskInv'
<1>1. /\ phase = "cleaning" /\ phase' = "up"
      /\ UNCHANGED <<files, queue, queueSeq, delivered, posted, fresh, accepted, confirmed, removed, unmarked>>
      /\ StartDrain(queue, pausedByOperator)
  BY DEF FinishRestore, disk, feed, history
<1>2. UNCHANGED sending
  BY <1>1, StartDrainSends DEF Inv
<1>3. Busy' = Busy /\ Owed' = Owed /\ Final' = Final /\ MsgsOf(queue') = MsgsOf(queue)
  BY <1>1, <1>2 DEF Busy, Owed, Final
<1>4. Tame' /\ Serving' /\ Settled'
  BY <1>1, <1>2, <1>3 DEF DiskInv, Tame, Serving, Settled
<1> QED
  BY <1>1, <1>2, <1>4 DEF DiskInv, Recorded, Placed, Sorted, AtRest, Down, Claiming, Heads

LEMMA RestoringDisk ==
  ASSUME Inv, Inv', ClaimInv, DiskInv, Restoring
  PROVE  DiskInv'
BY BootDisk, RestoreFileDisk, RestoreSaveDisk, RemoveTombstoneDisk, FinishRestoreDisk DEF Restoring

-----------------------------------------------------------------------------
(* A death of the process leaves a directory to restore from.                *)

(* Files of prompts numbered in order, each tombstone with a number at or     *)
(* below its own for its prompt.                                             *)
Numbered(R, W) ==
  /\ R \subseteq File /\ W \subseteq Prompt /\ \A u \in W : u.seq >= 1
  /\ \A u, v \in W : Agree(u, v)
  /\ \A f \in R : ~f.consumed => f.ext \in {"json", "delivering"} /\ Pair(f) \in W
  /\ \A f \in R : f.consumed => \E u \in W : u.msg = f.msg /\ u.seq <= f.seq
  /\ \A f, g \in R : f.consumed /\ g.consumed /\ NameOf(f) = NameOf(g) => f = g

LEMMA RestOf ==
  ASSUME NEW R, NEW W, Numbered(R, W)
  PROVE  /\ \A f, g \in R : NameOf(f) = NameOf(g) => f = g
         /\ \A f, g \in R : Ahead(f, g) /\ g.msg < f.msg =>
              g.consumed /\ \E u \in W : u.msg = g.msg /\ u.seq < f.seq
         /\ \A t, p \in R : t.consumed /\ ~p.consumed /\ t.seq = p.seq /\ t.ext = p.ext => t.msg <= p.msg
<1> USE DEF Numbered
<1>1. \A f \in R : /\ f.seq \in Nat /\ f.msg \in Nat /\ Pair(f) \in Prompt
                   /\ Pair(f).seq = f.seq /\ Pair(f).msg = f.msg
  BY PairType, DeliveryAssumption DEF File, Msgs
<1>2. \A u \in W : u.seq \in Nat /\ u.msg \in Nat
  BY DeliveryAssumption DEF Prompt, Msgs
<1>3. \A f \in R : \E u \in W : u.msg = f.msg /\ u.seq <= f.seq /\ (f.consumed \/ u.seq = f.seq)
  <2> TAKE f \in R
  <2>1. CASE f.consumed
    BY <2>1
  <2>2. CASE ~f.consumed
    BY <1>1, <2>2
  <2> QED
    BY <2>1, <2>2
<1>4. ASSUME NEW f \in R, NEW g \in R, NameOf(f) = NameOf(g)
      PROVE  f = g
  <2>1. f.seq = g.seq /\ f.ext = g.ext /\ f.consumed = g.consumed /\ f \in File /\ g \in File
    BY <1>4 DEF NameOf
  <2>2. CASE f.consumed
    BY <1>4, <2>1, <2>2
  <2>3. CASE ~f.consumed
    <3>1. Pair(f) \in W /\ Pair(g) \in W
      BY <2>1, <2>3
    <3>2. f.msg = g.msg
      BY <1>1, <2>1, <3>1, AgreeSame
    <3> QED
      BY <2>1, <3>2 DEF File
  <2> QED
    BY <2>2, <2>3
<1>6. ASSUME NEW f \in R, NEW g \in R, Ahead(f, g), g.msg < f.msg
      PROVE  g.consumed /\ \E u \in W : u.msg = g.msg /\ u.seq < f.seq
  <2>1. PICK u \in W : u.msg = f.msg /\ u.seq <= f.seq
    BY <1>3
  <2>2. PICK v \in W : v.msg = g.msg /\ v.seq <= g.seq /\ (g.consumed \/ v.seq = g.seq)
    BY <1>3
  <2>3. v.seq < u.seq
    BY <1>6, <2>1, <2>2 DEF Agree
  <2>4. f.seq <= g.seq
    BY <1>6, AheadOrder
  <2>5. g.consumed
    BY <1>1, <1>2, <2>1, <2>2, <2>3, <2>4
  <2>6. v.seq < f.seq
    BY <1>1, <1>2, <2>1, <2>3
  <2> QED
    BY <2>2, <2>5, <2>6
<1>7. ASSUME NEW t \in R, NEW p \in R, t.consumed, ~p.consumed, t.seq = p.seq
      PROVE  t.msg <= p.msg
  <2>1. PICK u \in W : u.msg = t.msg /\ u.seq <= t.seq
    BY <1>7
  <2>2. Pair(p) \in W /\ Agree(Pair(p), u)
    BY <1>7
  <2> QED
    BY <1>1, <1>2, <1>7, <2>1, <2>2 DEF Agree
<1> QED
  BY <1>4, <1>6, <1>7

LEMMA CrashServing ==
  ASSUME Inv, ClaimInv, DiskInv, phase \in {"cleaning", "up"}, UNCHANGED <<files, posted, confirmed, removed>>,
         ~Scrambled(files)
  PROVE  AtRest'
<1>0. files \subseteq File
  BY DEF Inv, DataTyped
<1>1. /\ \A u, v \in Busy : Agree(u, v)
      /\ \A u \in Busy : u.seq \in 1..queueSeq
      /\ \A m \in Owed : m \in MsgsOf(queue) \/ \E f \in files : Idle(f) /\ f.msg = m
      /\ \A f \in files : ~Plain(f, "stuck-unobservable")
      /\ \A f, g \in files : f.consumed /\ g.consumed /\ NameOf(f) = NameOf(g) => f = g
      /\ \A f \in files : f.consumed => \E i \in queue : i.msg = f.msg /\ i.seq <= f.seq
  <2> SUFFICES ASSUME NEW f \in files, f.consumed
               PROVE  \E i \in queue : i.msg = f.msg /\ i.seq <= f.seq
    BY DEF DiskInv, Serving
  <2>1. PICK i \in queue, p \in files : i.msg = f.msg /\ p.msg = f.msg /\ p.seq = i.seq /\ Plain(p, "json")
    BY DEF DiskInv, Serving
  <2>2. ~(f.seq < p.seq)
    BY <2>1 DEF Scrambled, WithExt
  <2>3. f.seq \in Nat /\ p.seq \in Nat
    BY <1>0 DEF File
  <2> QED
    BY <2>1, <2>2, <2>3
<1>2. Replays \subseteq files /\ \A f \in Replays : ~f.consumed => Live(f) /\ f.ext \in {"json", "delivering"} /\ Pair(f) \in Busy
  BY <1>1, FileBusy DEF Replays, Replayable, Live, Plain
<1>3. Busy \subseteq Prompt /\ \A u \in Busy : u.seq >= 1
  BY <1>1, BusyType DEF Prompt
<1>4. \A f \in Replays : f.consumed => \E u \in Busy : u.msg = f.msg /\ u.seq <= f.seq
  BY <1>1, <1>2, QueueBusy
<1>5. /\ \A f, g \in Replays : NameOf(f) = NameOf(g) => f = g
      /\ \A f, g \in Replays : Ahead(f, g) /\ g.msg < f.msg =>
           g.consumed /\ \E u \in Busy : u.msg = g.msg /\ u.seq < f.seq
      /\ \A t, p \in Replays : t.consumed /\ ~p.consumed /\ t.seq = p.seq /\ t.ext = p.ext => t.msg <= p.msg
  <2>1. Replays \subseteq File
    BY <1>0, <1>2
  <2>2. \A f, g \in Replays : f.consumed /\ g.consumed /\ NameOf(f) = NameOf(g) => f = g
    BY <1>1, <1>2
  <2>3. Numbered(Replays, Busy)
    <3>1. \A u, v \in Busy : Agree(u, v)
      BY <1>1
    <3>2. \A u \in Busy : u.seq >= 1
      BY <1>3
    <3>3. \A f \in Replays : ~f.consumed => f.ext \in {"json", "delivering"} /\ Pair(f) \in Busy
      BY <1>2
    <3> QED
      BY <1>3, <1>4, <2>1, <2>2, <3>1, <3>2, <3>3 DEF Numbered
  <2> QED
    BY <2>3, RestOf
<1>6. Replays' = Replays /\ Owed' = Owed
  BY DEF Replays, Owed
<1>7. \A m \in Owed : \E f \in files : f.msg = m /\ (Replayable(f) \/ Idle(f))
  <2> TAKE m \in Owed
  <2>1. CASE \E f \in files : Idle(f) /\ f.msg = m
    BY <2>1
  <2>2. ASSUME NEW i \in queue, i.msg = m
        PROVE  \E f \in files : f.msg = m /\ Replayable(f)
    <3>1. PICK f \in files : Live(f) /\ f.msg = m
      BY <2>2, QueueHasFile DEF DiskInv
    <3> QED
      BY <3>1 DEF Live, Replayable
  <2> QED
    BY <1>1, <2>1, <2>2 DEF MsgsOf
<1>8. ASSUME NEW f \in Replays, NEW g \in Replays, Ahead(f, g), g.msg < f.msg
      PROVE  \E h \in Replays : h.msg = g.msg /\ Ahead(h, f)
  <2>1. PICK u \in Busy : g.consumed /\ u.msg = g.msg /\ u.seq < f.seq
    BY <1>5, <1>8
  <2>2. PICK i \in queue : i.msg = g.msg
    BY <1>1, <1>2, <2>1
  <2>3. i.seq = u.seq
    BY <2>1, <2>2, QueueBusy, OnePrompt DEF DiskInv
  <2>4. PICK h \in files : Live(h) /\ h.seq = i.seq /\ h.msg = i.msg
    BY QueueHasFile DEF DiskInv
  <2>5. h \in Replays /\ h \in File /\ f \in File
    BY <1>0, <1>2, <2>4 DEF Replays, Replayable, Live
  <2> QED
    BY <2>1, <2>2, <2>3, <2>4, <2>5, AheadOrder
<1> QED
  BY <1>5, <1>6, <1>7, <1>8 DEF AtRest, Replayable, Idle

LEMMA CrashSaving ==
  ASSUME Inv, DiskInv, phase = "claiming", todo = {}, UNCHANGED <<posted, confirmed, removed>>,
         NEW n \in Nat, files' = files \cup Snapshot({i \in queue : i.place <= n}),
         ~Scrambled(files')
  PROVE  AtRest'
<1>0. files \subseteq File /\ queue \subseteq Item
  BY DEF Inv, DataTyped
<1>1. /\ \A f, g \in Replays : NameOf(f) = NameOf(g) => f = g
      /\ \A m \in Owed : \E f \in files : f.msg = m /\ (Replayable(f) \/ Idle(f))
      /\ \A f, g \in Replays : Ahead(f, g) /\ g.msg < f.msg =>
           \E h \in Replays : h.msg = g.msg /\ Ahead(h, f)
  BY DEF DiskInv, AtRest
<1>2. /\ \A f \in Replays : f.consumed /\ \E i \in queue : i.msg = f.msg
      /\ \A i \in queue : \E e \in Replays : e.msg = i.msg
      /\ \A i, j \in queue : Agree(i, j)
      /\ Sorted(queue)
  BY DEF DiskInv, Claiming, Placed
<1>3. \A i \in queue : i.seq \in Nat /\ i.msg \in Nat /\ i.place \in Nat
  BY <1>0, DeliveryAssumption DEF Item, Msgs
<1> DEFINE pre == {i \in queue : i.place <= n}
           saved(i) == [seq |-> i.seq, ext |-> "json", consumed |-> FALSE, msg |-> i.msg]
<1>4. \A i \in queue : /\ saved(i) \in File /\ Plain(saved(i), "json") /\ Replayable(saved(i))
                       /\ saved(i).seq = i.seq /\ saved(i).msg = i.msg
  BY <1>0 DEF File, Item, Exts, Plain, Replayable
<1>5. Snapshot(pre) = {saved(i) : i \in pre}
  <2>1. \A i, j \in pre : j.seq = i.seq => j.place <= i.place
    BY <1>2, <1>3 DEF Agree, Sorted
  <2> QED
    BY <2>1 DEF Snapshot
<1>5a. \A i, j \in queue : i.seq = j.seq => saved(i) = saved(j)
  <2>1. \A i, j \in queue : i.seq = j.seq => i.msg = j.msg
    BY <1>2, <1>3 DEF Agree
  <2> QED
    BY <2>1
<1> HIDE DEF saved
<1>6. /\ \A i \in pre : saved(i) \in Replays' /\ saved(i) \in files'
      /\ \A g \in Replays' : g \in Replays \/ \E i \in pre : g = saved(i)
      /\ Replays \subseteq Replays'
  BY <1>4, <1>5 DEF Replays
<1>7. Replays \subseteq File /\ Replays' \subseteq File
  BY <1>0, <1>4, <1>6 DEF Replays
<1>8. \A f, g \in Replays' : NameOf(f) = NameOf(g) => f = g
  <2> SUFFICES ASSUME NEW f \in Replays', NEW g \in Replays', NameOf(f) = NameOf(g)
               PROVE  f = g
    OBVIOUS
  <2>1. f.seq = g.seq /\ f.consumed = g.consumed
    BY DEF NameOf
  <2>2. CASE f \in Replays /\ g \in Replays
    BY <1>1, <2>2
  <2>3. ASSUME NEW i \in pre, NEW j \in pre, f = saved(i), g = saved(j) PROVE f = g
    BY <1>4, <1>5a, <2>1, <2>3
  <2> QED
    BY <1>2, <1>4, <1>6, <2>1, <2>2, <2>3 DEF Plain
<1>9. \A m \in Owed' : \E f \in files' : f.msg = m /\ (Replayable(f) \/ Idle(f))
  BY <1>1 DEF Owed
<1>10. ASSUME NEW f \in Replays', NEW g \in Replays', Ahead(f, g), g.msg < f.msg
       PROVE  \E h \in Replays' : h.msg = g.msg /\ Ahead(h, f)
  <2>1. CASE f \in Replays /\ g \in Replays
    BY <1>1, <1>6, <1>10, <2>1
  <2>2. ASSUME NEW i \in pre, f = saved(i), g \in Replays
        PROVE  \E h \in Replays' : h.msg = g.msg /\ Ahead(h, f)
    <3>1. PICK j \in queue : j.msg = g.msg
      BY <1>2, <2>2
    <3>2. j.msg < i.msg
      BY <1>4, <1>10, <2>2, <3>1
    <3>3. j.place <= n /\ j.seq < i.seq
      BY <1>2, <1>3, <3>2 DEF Agree, Sorted
    <3>4. saved(j) \in Replays' /\ saved(j).msg = g.msg /\ saved(j).seq < f.seq
      BY <1>4, <1>6, <2>2, <3>1, <3>3
    <3> QED
      BY <1>7, <3>4, AheadOrder
  <2>3. ASSUME NEW i \in pre, g = saved(i), f \in Replays
        PROVE  \E h \in Replays' : h.msg = g.msg /\ Ahead(h, f)
    <3>1. PICK e \in Replays : e.msg = i.msg
      BY <1>2
    <3>2. e.msg = g.msg /\ e # f /\ e.msg < f.msg /\ e \in File /\ f \in File
      BY <1>4, <1>7, <1>10, <2>3, <3>1, DeliveryAssumption DEF File, Msgs
    <3>3. NameOf(e) # NameOf(f)
      BY <1>1, <2>3, <3>2
    <3>4. /\ f.ext \in {"json", "delivering", "stuck-unobservable"}
          /\ e.ext \in {"json", "delivering", "stuck-unobservable"}
      BY <1>2, <2>3 DEF DiskInv, Tame, Replays
    <3>5. Ahead(e, f) \/ Ahead(f, e)
      BY <3>2, <3>3, <3>4, NameType, BeforeTotal DEF Ahead
    <3> QED
      BY <1>1, <1>6, <2>3, <3>2, <3>5
  <2>4. ASSUME NEW i \in pre, NEW j \in pre, f = saved(i), g = saved(j)
        PROVE  FALSE
    <3>1. j.seq < i.seq
      BY <1>2, <1>4, <1>10, <2>4 DEF Agree
    <3>2. f.seq <= g.seq
      BY <1>7, <1>10, AheadOrder
    <3> QED
      BY <1>3, <1>4, <2>4, <3>1, <3>2
  <2> QED
    BY <1>6, <2>1, <2>2, <2>3, <2>4
<1>11. ASSUME NEW t \in Replays', NEW p \in Replays', t.consumed, ~p.consumed, t.seq = p.seq, t.ext = p.ext
       PROVE  t.msg <= p.msg
  <2>1. PICK i \in pre : p = saved(i)
    BY <1>2, <1>6, <1>11
  <2>2. p \in WithExt(files', "json") /\ t \in files' /\ t.ext = "json"
    BY <1>4, <1>6, <1>11, <2>1 DEF WithExt, Plain, Replays
  <2>3. ~(p.msg < t.msg)
    BY <1>11, <2>2 DEF Scrambled
  <2> QED
    BY <1>7, <2>3, DeliveryAssumption DEF File, Msgs
<1> QED
  BY <1>8, <1>9, <1>10, <1>11 DEF AtRest

LEMMA CrashDisk ==
  ASSUME Inv, Inv', ClaimInv, DiskInv, Crash, ~disordered'
  PROVE  DiskInv'
<1>0. ~Scrambled(files')
  BY DEF Crash
<1>1. /\ phase \in {"claiming", "cleaning", "up"} /\ phase' = "down"
      /\ queue' = {} /\ queueSeq' = 0 /\ delivered' = {} /\ sending' = {} /\ fresh' = {}
      /\ UNCHANGED <<posted, confirmed, removed, unmarked>>
      /\ \E arrived \in SUBSET InTransit : Arrive(arrived)
  BY DEF Crash, Inv, DataTyped
<1>2. \/ files' = files
      \/ /\ phase = "claiming" /\ todo = {}
         /\ \E n \in 1..Cardinality(queue) : files' = files \cup Snapshot({i \in queue : i.place <= n})
  BY DEF Crash
<1>3. \A m \in Msgs : accepted'[m] >= accepted[m]
  <2>1. PICK arrived \in SUBSET InTransit : Arrive(arrived)
    BY <1>1
  <2>2. IsFiniteSet(arrived)
    BY InTransitFinite, FS_Subset DEF Inv, LockInv
  <2> QED
    BY <2>1, <2>2, ArriveGrows
<1>4. Recorded'
  <2>1. \A m \in confirmed : m \in Msgs /\ accepted[m] > 0
    BY DEF DiskInv, Recorded, Inv, DataTyped
  <2>2. accepted \in [Msgs -> Nat] /\ accepted' \in [Msgs -> Nat]
    BY DEF Inv, DataTyped
  <2>3. \A m \in confirmed : accepted'[m] > 0
    BY <1>3, <2>1, <2>2
  <2> QED
    BY <1>1, <2>3 DEF DiskInv, Recorded
<1>5. AtRest'
  <2>1. CASE phase \in {"cleaning", "up"}
    BY <1>0, <1>1, <1>2, <2>1, CrashServing
  <2>2. CASE phase = "claiming" /\ files' = files
    <3>1. Replays' = Replays /\ Owed' = Owed
      BY <1>1, <2>2 DEF Replays, Owed
    <3> QED
      BY <2>2, <3>1 DEF DiskInv, AtRest
  <2>3. CASE phase = "claiming" /\ files' # files
    <3>1. PICK n \in 1..Cardinality(queue) : files' = files \cup Snapshot({i \in queue : i.place <= n})
      BY <1>2, <2>3
    <3>2. n \in Nat
      OBVIOUS
    <3> QED
      BY <1>0, <1>1, <1>2, <2>3, <3>1, <3>2, CrashSaving
  <2> QED
    BY <1>1, <2>1, <2>2, <2>3
<1>6. Tame' /\ Settled'
  <2>1. CASE files' = files
    <3>1. Busy' \subseteq Busy
      BY <1>1, <2>1 DEF Busy
    <3>2. MsgsOf(queue') = {} /\ Final' = Final
      BY <1>1 DEF MsgsOf, Final
    <3> QED
      BY <1>1, <2>1, <3>1, <3>2 DEF DiskInv, Tame, Settled
  <2>2. CASE files' # files
    <3>1. PICK n \in 1..Cardinality(queue) : files' = files \cup Snapshot({i \in queue : i.place <= n})
      BY <1>2, <2>2
    <3>2. \A g \in files' : g \in files \/ (Plain(g, "json") /\ Pair(g) \in {Pair(i) : i \in queue})
      BY <3>1 DEF Snapshot, Plain, Pair
    <3>3. \A i \in queue : i.seq >= 1 /\ i.msg <= posted
      <4>1. \A i \in queue : i.seq \in 1..queueSeq /\ \E e \in Replays : e.msg = i.msg
        BY <1>2, <2>2 DEF DiskInv, Claiming
      <4>2. queue \subseteq Item
        BY DEF Inv, DataTyped
      <4> QED
        BY <4>1, <4>2 DEF DiskInv, Tame, Replays, Item
    <3> QED
      BY <1>1, <3>2, <3>3, SavedFiles
  <2> QED
    BY <2>1, <2>2
<1>7. Placed' /\ Heads' /\ Down' /\ Serving' /\ Claiming'
  BY <1>1 DEF Placed, Sorted, Heads, Down, Serving, Claiming
<1> QED
  BY <1>4, <1>5, <1>6, <1>7 DEF DiskInv

(* What it leaves can be restored: no prompt's copies are all to be overwritten. *)
Rank(f) == 8 * f.seq + 2 * ExtRank(f.ext) + IF f.consumed THEN 1 ELSE 0

LEMMA RankOrder ==
  ASSUME NEW f \in File, NEW g \in File
  PROVE  Rank(f) \in Nat /\ (Ahead(f, g) => Rank(f) < Rank(g))
<1>1. \A ext : ExtRank(ext) \in 0..3
  BY DEF ExtRank
<1> DEFINE rank(ext) == ExtRank(ext)
<1>2. \A ext : rank(ext) \in 0..3
  BY <1>1
<1>3. \A h : Rank(h) = 8 * h.seq + 2 * rank(h.ext) + IF h.consumed THEN 1 ELSE 0
  BY DEF Rank
<1>4. \A a, b : Before(a, b) <=> \/ a.seq < b.seq
                                 \/ a.seq = b.seq /\ rank(a.ext) < rank(b.ext)
                                 \/ a.seq = b.seq /\ a.ext = b.ext /\ ~a.consumed /\ b.consumed
  BY DEF Before
<1> HIDE DEF rank
<1>5. f.seq \in Nat /\ g.seq \in Nat /\ f.consumed \in BOOLEAN /\ g.consumed \in BOOLEAN
  BY DEF File
<1> QED
  BY <1>2, <1>3, <1>4, <1>5, NameType DEF Ahead

LEMMA NoneOvertaken ==
  ASSUME files' \subseteq File, Tame', AtRest', phase' = "down"
  PROVE  Overtaken(files') = {}
<1>1. Replays' \subseteq File /\ Replays' \subseteq files'
  BY DEF Replays
<1>2. ASSUME NEW m, NEW f \in Replays', f.msg = m, \A g \in Replays' : g.msg = m => Doomed(g, files')
      PROVE  FALSE
  <2> DEFINE P == {Rank(g) : g \in {g \in Replays' : g.msg = m}}
  <2>1. P \subseteq Nat /\ P # {}
    BY <1>1, <1>2, RankOrder
  <2>2. PICK x \in P : \A y \in P : x <= y
    BY <2>1, LeastNumber
  <2>3. PICK t \in Replays' : t.msg = m /\ x = Rank(t)
    BY <2>2
  <2>4. PICK p \in files' : Plain(p, t.ext) /\ p.seq = t.seq /\ p.msg # t.msg /\ t.consumed
    BY <1>2, <2>3 DEF Doomed
  <2>5. t.ext \in {"json", "delivering", "stuck-unobservable"}
    BY <1>1, <2>4 DEF Tame
  <2>6. p \in Replays' /\ ~p.consumed /\ p.ext = t.ext
    BY <2>4, <2>5 DEF Replays, Replayable, Plain
  <2>7. t.msg < p.msg
    BY <1>1, <2>4, <2>6, DeliveryAssumption DEF AtRest, File, Msgs
  <2>8. Ahead(p, t)
    BY <2>4, <2>6 DEF Ahead, Before, NameOf
  <2>9. PICK h \in Replays' : h.msg = t.msg /\ Ahead(h, p)
    BY <2>6, <2>7, <2>8 DEF AtRest
  <2>10. Ahead(h, t)
    BY <1>1, <2>6, <2>8, <2>9, AheadOrder
  <2>11. Rank(h) < Rank(t) /\ Rank(h) \in P
    BY <1>1, <2>3, <2>9, <2>10, RankOrder
  <2> QED
    BY <2>1, <2>2, <2>3, <2>11
<1>3. Overtaken(files') = {f.msg : f \in Replays'} \ {f.msg : f \in {f \in Replays' : ~Doomed(f, files')}}
  BY DEF Overtaken, Replays
<1> QED
  BY <1>2, <1>3

LEMMA RediscoverDisk ==
  ASSUME Inv, DiskInv, Rediscover
  PROVE  DiskInv'
<1>1. PICK m \in fresh, seq \in NextSeq : Enqueue(m, seq) /\ fresh' = fresh \ {m}
  BY DEF Rediscover
<1>2. Seen(m)
  BY DEF Seen, DiskInv, Recorded
<1>3. UNCHANGED <<files, queue, queueSeq, delivered, sending, removed>>
  BY <1>1, <1>2 DEF Enqueue, lock
<1>4. UNCHANGED <<phase, todo, posted, accepted, confirmed, unmarked>> /\ fresh' \subseteq fresh
  BY <1>1 DEF Rediscover, record
<1> QED
  BY <1>3, <1>4, StillDisk

(* Only a send that is given up is counted. *)
LEMMA TimeoutsStay ==
  ASSUME [Next]_vars, ~DeliveryTimesOut
  PROVE  timeouts' = timeouts
<1>1. CASE Restoring
  BY <1>1 DEF Restoring, Boot, RestoreFile, RestoreSave, RemoveTombstone, FinishRestore, bounds
<1>3. CASE Crash \/ Post \/ Rediscover
  BY <1>3 DEF Crash, Post, Rediscover, bounds
<1>4. CASE DrainHolds \/ DrainDelivers \/ PumpDelivers \/ PumpHolds \/ WatchdogElapses
  BY <1>4 DEF DrainHolds, DrainBails, DrainDelivers, DrainSends, PumpDelivers, PumpHolds,
              WatchdogElapses, bounds
<1>5. CASE DeliveryAccepted \/ DeliveryRefused \/ DeliveryThrows \/ LateAccepted \/ LateRefused
  BY <1>5 DEF DeliveryAccepted, SendAccepted, DeliveryRefused, DeliveryThrows, LateAccepted,
              LateRefused, Refused, bounds
<1>6. CASE Operating
  BY <1>6 DEF Operating, Pause, Resume, DropQueue, DropMessage, ForceDeliver, ForceOn, bounds
<1>7. CASE UNCHANGED vars
  BY <1>7 DEF vars, bounds
<1> QED
  BY <1>1, <1>3, <1>4, <1>5, <1>6, <1>7 DEF Next, Delivering

LEMMA TimeoutsGrow ==
  ASSUME Inv, [Next]_vars, timeouts' = 0
  PROVE  timeouts = 0
<1>1. CASE DeliveryTimesOut
  <2>1. timeouts \in Nat /\ timeouts' = timeouts + 1
    BY <1>1 DEF DeliveryTimesOut, Inv, DataTyped
  <2> QED
    BY <2>1
<1> QED
  BY <1>1, TimeoutsStay

(* Only a crash can leave a directory out of order or a prompt exposed. *)
LEMMA RecordStays ==
  ASSUME [Next]_vars, ~Crash
  PROVE  UNCHANGED <<exposed, disordered>>
<1>1. CASE Restoring
  BY <1>1 DEF Restoring, Boot, RestoreFile, RestoreSave, RemoveTombstone, FinishRestore, history
<1>2. CASE Post \/ Rediscover
  BY <1>2 DEF Post, Rediscover, record
<1>3. CASE DrainHolds \/ DrainDelivers \/ PumpDelivers \/ PumpHolds \/ WatchdogElapses
  BY <1>3 DEF DrainHolds, DrainBails, DrainDelivers, DrainSends, PumpDelivers, PumpHolds,
              WatchdogElapses, history
<1>4. CASE DeliveryAccepted \/ DeliveryRefused \/ DeliveryThrows
  BY <1>4 DEF DeliveryAccepted, SendAccepted, DeliveryRefused, DeliveryThrows, Refused, history, record
<1>5. CASE DeliveryTimesOut \/ LateAccepted \/ LateRefused
  BY <1>5 DEF DeliveryTimesOut, SendAbandoned, LateAccepted, LateRefused, Refused, history, record
<1>6. CASE Operating
  BY <1>6 DEF Operating, Pause, Resume, DropQueue, DropMessage, ForceDeliver, ForceOn, history, record
<1>7. CASE UNCHANGED vars
  BY <1>7 DEF vars, history
<1> QED
  BY <1>1, <1>2, <1>3, <1>4, <1>5, <1>6, <1>7 DEF Next, Delivering

LEMMA OrderGrows ==
  ASSUME [Next]_vars, ~disordered'
  PROVE  ~disordered
<1>1. CASE Crash
  BY <1>1 DEF Crash
<1> QED
  BY <1>1, RecordStays

(* While no send was given up and no process died half-way through an upward *)
(* renumbering.                                                              *)
OutboxInv == timeouts = 0 /\ ~disordered => DiskInv /\ exposed = {}

LEMMA DiskStep ==
  ASSUME "force" \notin Operator
  PROVE  Inv /\ Inv' /\ ClaimInv /\ OutboxInv /\ [Next]_vars => OutboxInv'
<1> SUFFICES ASSUME Inv, Inv', ClaimInv, OutboxInv, [Next]_vars, timeouts' = 0, ~disordered'
             PROVE  DiskInv' /\ exposed' = {}
  BY DEF OutboxInv
<1>1. timeouts = 0 /\ DiskInv /\ exposed = {}
  BY TimeoutsGrow, OrderGrows DEF OutboxInv
<1>2. CASE UNCHANGED vars
  BY <1>1, <1>2, StillDisk DEF vars, disk, lock, feed, history
<1>3. DiskInv'
  BY <1>1, <1>2, RestoringDisk, CrashDisk, PostDisk, RediscoverDisk, DeliveringDisk, OperatingDisk
  DEF Next
<1>4. CASE Crash
  <2>1. exposed' = exposed \cup Overtaken(files') /\ phase' = "down"
    BY <1>4 DEF Crash
  <2>2. Overtaken(files') = {}
    BY <1>3, <2>1, NoneOvertaken DEF Inv, DataTyped, DiskInv
  <2> QED
    BY <1>1, <1>3, <2>1, <2>2
<1> QED
  BY <1>1, <1>3, <1>4, RecordStays

LEMMA OutboxAlways ==
  ASSUME "force" \notin Operator
  PROVE  Spec => []OutboxInv
<1>1. Inv /\ Inv' /\ ClaimInv /\ OutboxInv /\ [Next]_vars => OutboxInv'
  BY DiskStep
<1>2. Init => OutboxInv
  BY InitDisk DEF OutboxInv, Init
<1> QED
  BY <1>1, <1>2, InvAlways, ClaimAlways, PTL DEF Spec

-----------------------------------------------------------------------------
(* What the invariant gives.                                                 *)

(* Where a prompt that is still owed is. *)
LEMMA OwedHeld ==
  ASSUME Inv, ClaimInv, DiskInv, NEW m \in 1..posted, accepted[m] = 0, m \notin removed
  PROVE  /\ \E f \in files : f.msg = m /\ f.ext # "delivered"
         /\ phase = "up" => m \in MsgsOf(queue) \/ \E f \in files : f.msg = m /\ f.ext \in StuckExts
<1>1. m \in Owed
  BY DEF Owed, DiskInv, Recorded
<1>2. CASE phase \in {"down", "claiming"}
  <2>1. PICK f \in files : f.msg = m /\ (Replayable(f) \/ Idle(f))
    BY <1>1, <1>2 DEF DiskInv, AtRest
  <2>2. f.ext # "delivered"
    BY <2>1 DEF DiskInv, Tame, Replayable, Idle
  <2> QED
    BY <1>2, <2>1, <2>2
<1>3. CASE phase \in {"cleaning", "up"}
  <2>1. m \in MsgsOf(queue) \/ \E f \in files : Idle(f) /\ f.msg = m
    BY <1>1, <1>3 DEF DiskInv, Serving
  <2>2. CASE \E f \in files : Idle(f) /\ f.msg = m
    BY <2>2 DEF Idle, StuckExts
  <2>3. CASE m \in MsgsOf(queue)
    <3>1. PICK i \in queue : i.msg = m
      BY <2>3 DEF MsgsOf
    <3>2. PICK f \in files : Live(f) /\ f.msg = m
      BY <1>3, <3>1, QueueHasFile DEF DiskInv
    <3> QED
      BY <2>3, <3>2 DEF Live
  <2> QED
    BY <2>1, <2>2, <2>3
<1> QED
  BY <1>2, <1>3 DEF Inv, DataTyped

(* No prompt is lost between the queue, the claims, the tombstones and the    *)
(* restores of any number of processes, each of which may die at any step of  *)
(* a restore or after it, until a send is given up or a death leaves a         *)
(* renumbering to greater numbers half done; and only that exposes a prompt.   *)
THEOREM NothingIsLost ==
  ASSUME "force" \notin Operator
  PROVE  Spec => [](timeouts = 0 /\ ~disordered => NoLoss /\ exposed = {})
<1>1. Inv /\ ClaimInv /\ OutboxInv => (timeouts = 0 /\ ~disordered => NoLoss /\ exposed = {})
  BY OwedHeld DEF NoLoss, OutboxInv
<1> QED
  BY <1>1, InvAlways, ClaimAlways, OutboxAlways, PTL

(* Until then the queue is in the order of posting after every restart,       *)
(* whatever mix of claims, snapshots and tombstones it was rebuilt from and    *)
(* whatever numbers other sessions draw, and the directory holds each of its   *)
(* prompts under the number it has in the queue.                               *)
THEOREM QueueAndDiskAgree ==
  ASSUME "force" \notin Operator
  PROVE  Spec => [](timeouts = 0 /\ ~disordered => QueueOnDisk)
<1>1. Inv /\ ClaimInv /\ DiskInv => QueueInPostOrder
  BY DEF DiskInv, Placed, Sorted, QueueInPostOrder
<1>2. Inv /\ ClaimInv /\ DiskInv => QueueMatchesDisk
  <2> SUFFICES ASSUME Inv, ClaimInv, DiskInv, phase = "up"
               PROVE  /\ \A i \in queue : \E f \in files : /\ f.seq = i.seq /\ f.msg = i.msg
                                                          /\ f.ext \in {"json", "delivering"}
                      /\ \A m \in (1..posted) \ (removed \cup exposed) : accepted[m] = 0 =>
                           m \in MsgsOf(queue) \/ \E f \in files : f.msg = m /\ f.ext \in StuckExts
    BY DEF QueueMatchesDisk
  <2>1. \A i \in queue : \E f \in files : Live(f) /\ f.seq = i.seq /\ f.msg = i.msg
    BY QueueHasFile DEF DiskInv
  <2> QED
    BY <2>1, OwedHeld DEF Live
<1>3. Inv /\ ClaimInv /\ OutboxInv => (timeouts = 0 /\ ~disordered => QueueOnDisk)
  BY <1>1, <1>2 DEF QueueOnDisk, OutboxInv
<1> QED
  BY <1>3, InvAlways, ClaimAlways, OutboxAlways, PTL

(* Nor does a prompt whose submission was recorded and marked return to the    *)
(* queue, whether or not restarts sweep the marks of earlier processes, and no  *)
(* file is left to bring it back.                                               *)
THEOREM ConfirmedStays ==
  ASSUME "force" \notin Operator
  PROVE  Spec => [](timeouts = 0 /\ ~disordered => ConfirmedIsFinal)
<1>1. OutboxInv => (timeouts = 0 /\ ~disordered => ConfirmedIsFinal)
  BY DEF OutboxInv, DiskInv, Settled, Final, ConfirmedIsFinal
<1> QED
  BY <1>1, OutboxAlways, PTL

-----------------------------------------------------------------------------
(* The engine implements the ordered outbox.                                 *)

(* With every stuck file of an older build ruled out, what is owed by a        *)
(* process that serves waits in its queue.                                    *)
LEMMA OwedQueued ==
  ASSUME DiskInv, LegacyCounts \subseteq {0}, phase = "up"
  PROVE  Owed \subseteq MsgsOf(queue)
<1>1. \A f \in files : ~Idle(f)
  BY DEF DiskInv, Tame, Idle, StuckExts
<1> QED
  BY <1>1 DEF DiskInv, Serving

LEMMA AcceptStep ==
  ASSUME Inv, DiskInv, exposed = {}, LegacyCounts \subseteq {0}, Post
  PROVE  Outbox!Accept
<1>0. PICK seq \in Nat : queueSeq < seq /\ Enqueue(posted + 1, seq)
  BY NextNumber DEF Post
<1> DEFINE pushed == Push(queue, seq, posted + 1)
           kept == Newest(pushed)
<1>1. /\ phase = "up" /\ ~Seen(posted + 1) /\ posted \in Nat
      /\ \A i \in queue : i.msg \in Nat /\ i.msg <= posted
      /\ pushed \subseteq Item /\ IsFiniteSet(pushed) /\ Sorted(pushed)
      /\ MsgsOf(pushed) = MsgsOf(queue) \cup {posted + 1}
  BY PostPushed
<1>2. /\ posted < NumMsgs /\ posted' = posted + 1
      /\ UNCHANGED <<confirmed, accepted, unmarked, exposed, disordered>>
      /\ removed' = removed \cup (MsgsOf(pushed) \ MsgsOf(kept))
  BY <1>0, <1>1 DEF Post, Enqueue, record
<1>3. /\ \A i, j \in pushed : i.msg \in MsgsOf(kept) /\ i.msg <= j.msg => j.msg \in MsgsOf(kept)
      /\ \A i \in pushed : (\A j \in pushed : j.msg <= i.msg) => i.msg \in MsgsOf(kept)
  BY <1>1, NewestPlaced
<1> HIDE DEF pushed, kept
<1>4. \A m \in MsgsOf(pushed) : m \in Nat /\ m <= posted + 1
  BY <1>1 DEF MsgsOf
<1>5. posted + 1 \in MsgsOf(kept)
  <2>1. PICK i \in pushed : i.msg = posted + 1
    BY <1>1 DEF MsgsOf
  <2>2. \A j \in pushed : j.msg <= i.msg
    BY <1>4, <2>1 DEF MsgsOf
  <2> QED
    BY <1>3, <2>1, <2>2
<1>6. \A k, s \in MsgsOf(pushed) : k \in MsgsOf(kept) /\ k <= s => s \in MsgsOf(kept)
  BY <1>3 DEF MsgsOf
<1>7. confirmed \cup removed \subseteq 1..posted
  BY DEF DiskInv, Recorded
<1>8. Owed' = (Owed \cup {posted + 1}) \ (MsgsOf(pushed) \ MsgsOf(kept))
  BY <1>1, <1>2, <1>5, <1>7 DEF Owed
<1>9. Owed \subseteq MsgsOf(pushed)
  BY <1>1, OwedQueued
<1>10. ASSUME NEW k \in Owed', NEW s \in Owed \ Owed'
       PROVE  s < k
  <2>1. k \in MsgsOf(kept) /\ k \in MsgsOf(pushed) /\ s \in MsgsOf(pushed) /\ s \notin MsgsOf(kept)
    BY <1>1, <1>5, <1>8, <1>9
  <2> QED
    BY <1>4, <1>6, <2>1
<1>11. Owed' \subseteq Owed \cup {posted'} /\ posted' \in Owed'
  BY <1>2, <1>5, <1>8
<1> QED
  BY <1>2, <1>10, <1>11 DEF Outbox!Accept, Owed

(* A paste the agent receives carries the oldest prompt that is owed, and     *)
(* none that was handed over before.                                          *)
LEMMA SendReaches ==
  ASSUME Inv, ClaimInv, DiskInv, LegacyCounts \subseteq {0},
         NEW s \in sending, Arrive({s.items})
  PROVE  Outbox!Reaches(MsgsOf(s.items)) /\ MsgsOf(s.items) \in SUBSET (1..NumMsgs)
<1> DEFINE S == MsgsOf(s.items)
<1>1. phase = "up" /\ posted \in 0..NumMsgs /\ accepted \in [Msgs -> Nat] /\ accepted' = [m \in Msgs |-> accepted'[m]]
  BY DEF ClaimInv, Resting, Inv, DataTyped, Arrive
<1>2. PICK p \in s.items : \A i \in queue : p.msg <= i.msg
  BY DEF DiskInv, Heads
<1>3. \A u \in s.items : u.msg \in 1..posted /\ u.msg \notin Final
  <2> TAKE u \in s.items
  <2>1. u \in Busy /\ u \in Prompt
    BY SendBusy
  <2>2. u.msg <= posted
    BY <1>1, <2>1 DEF DiskInv, Serving
  <2>3. u.msg \notin Final
    BY DEF DiskInv, Settled, MsgsOf
  <2> QED
    BY <1>1, <2>1, <2>2, <2>3, DeliveryAssumption DEF Prompt, Msgs
<1>4. S # {} /\ S \subseteq (1..posted) \ Final
  BY <1>2, <1>3 DEF MsgsOf
<1>5. \A older \in Owed \ S : \E m \in S : m < older
  <2> TAKE older \in Owed \ S
  <2>1. PICK i \in queue : i.msg = older
    BY <1>1, OwedQueued DEF MsgsOf
  <2>2. p.msg <= older /\ p.msg \in S /\ p.msg \in 1..posted
    BY <1>2, <1>3, <2>1 DEF MsgsOf
  <2>3. older \in 1..posted /\ older # p.msg
    BY <2>2 DEF Owed
  <2> QED
    BY <1>1, <2>2, <2>3
<1>6. accepted' = [m \in 1..NumMsgs |-> accepted[m] + IF m \in S THEN 1 ELSE 0]
  <2>1. \A m \in Msgs : accepted'[m] = accepted[m] + IF m \in S THEN 1 ELSE 0
    <3> TAKE m \in Msgs
    <3>1. accepted[m] \in Nat
      BY <1>1
    <3>2. accepted'[m] = IF m \in S THEN accepted[m] + 1 ELSE accepted[m]
      BY <1>1, ArriveOne
    <3> QED
      BY <3>1, <3>2
  <2> QED
    BY <1>1, <2>1 DEF Msgs
<1>7. S \in SUBSET (1..NumMsgs)
  BY <1>1, <1>4, DeliveryAssumption
<1> HIDE DEF S
<1>8. Outbox!Reaches(S)
  BY <1>4, <1>5, <1>6 DEF Outbox!Reaches, Owed, Final
<1> QED
  BY <1>7, <1>8 DEF S

LEMMA NoArrival ==
  ASSUME Inv, UNCHANGED accepted \/ Arrive({})
  PROVE  UNCHANGED accepted
<1>1. accepted \in [Msgs -> Nat]
  BY DEF Inv, DataTyped
<1>2. CASE Arrive({})
  <2>1. \A m \in Msgs : accepted'[m] = accepted[m]
    BY <1>1, <1>2, ArriveNone
  <2>2. accepted' = [m \in Msgs |-> accepted'[m]]
    BY <1>2 DEF Arrive
  <2> QED
    BY <1>1, <2>1, <2>2
<1> QED
  BY <1>2

LEMMA AnswerStep ==
  ASSUME Inv, ClaimInv, DiskInv, LegacyCounts \subseteq {0}, timeouts = 0,
         UNCHANGED <<exposed, disordered>>,
         DeliveryAccepted \/ DeliveryRefused \/ Crash
  PROVE  [Outbox!Next]_Outbox!outbox
<1>1. CASE DeliveryAccepted
  <2>1. PICK s \in sending : SendAccepted(s)
    BY <1>1 DEF DeliveryAccepted
  <2> DEFINE S == MsgsOf(s.items)
             taken == {p.msg : p \in {p \in s.items : Has(files, p.seq, "delivered")}}
  <2>2. /\ confirmed' = confirmed \cup S /\ unmarked' = unmarked \cup taken /\ Arrive({s.items})
        /\ UNCHANGED <<posted, removed>> /\ taken \subseteq S
    BY <2>1 DEF SendAccepted, feed, MsgsOf
  <2>3. Outbox!Reaches(S) /\ S \in SUBSET (1..NumMsgs)
    BY <2>2, SendReaches
  <2> HIDE DEF S, taken
  <2>4. S \cap (confirmed \ unmarked) = {}
    BY <2>3 DEF Outbox!Reaches
  <2>5. confirmed' \ unmarked' = (confirmed \ unmarked) \cup (S \ unmarked')
    BY <2>2, <2>4
  <2>6. (((1..posted') \ confirmed') \ removed') \ exposed' = ((((1..posted) \ confirmed) \ removed) \ exposed) \ S
    BY <2>2
  <2>7. S \ unmarked' \in SUBSET S
    OBVIOUS
  <2>8. Outbox!HandOver(S)
    BY <2>2, <2>3, <2>5, <2>6, <2>7 DEF Outbox!HandOver
  <2> QED
    BY <2>3, <2>8 DEF Outbox!Next
<1>2. ASSUME NEW s \in sending, Arrive({s.items}), UNCHANGED <<posted, confirmed, removed, unmarked>>
      PROVE  Outbox!Next
  <2>1. Outbox!Reaches(MsgsOf(s.items)) /\ MsgsOf(s.items) \in SUBSET (1..NumMsgs)
    BY <1>2, SendReaches
  <2>2. Outbox!Unnoticed(MsgsOf(s.items))
    BY <1>2, <2>1 DEF Outbox!Unnoticed
  <2> QED
    BY <2>1, <2>2 DEF Outbox!Next
<1>3. ASSUME UNCHANGED <<posted, confirmed, removed, unmarked, accepted>>
      PROVE  UNCHANGED Outbox!outbox
  BY <1>3 DEF Outbox!outbox
<1>4. CASE DeliveryRefused
  <2>1. PICK s \in sending : Refused(s.items)
    BY <1>4 DEF DeliveryRefused
  <2>2. UNCHANGED accepted \/ Arrive({s.items})
    BY <2>1 DEF Refused
  <2>3. UNCHANGED <<posted, confirmed, removed, unmarked>>
    BY <2>1 DEF Refused, feed, record
  <2> QED
    BY <1>2, <1>3, <2>2, <2>3
<1>5. CASE Crash
  <2>1. PICK arrived \in SUBSET InTransit : Arrive(arrived)
    BY <1>5 DEF Crash
  <2>2. UNCHANGED <<posted, confirmed, removed, unmarked>>
    BY <1>5 DEF Crash
  <2>3. late = {} /\ \A s, t \in sending : s = t
    BY NothingLate DEF Inv, LockInv, SingleFlight
  <2>4. arrived = {} \/ \E s \in sending : arrived = {s.items}
    BY <2>3 DEF InTransit
  <2> QED
    BY <1>2, <1>3, <2>1, <2>2, <2>4, NoArrival
<1> QED
  BY <1>1, <1>4, <1>5

LEMMA OutboxStep ==
  ASSUME "force" \notin Operator, MaxTimeouts = 0, LegacyCounts \subseteq {0},
         Inv, ClaimInv, DiskInv, timeouts = 0, exposed = {}, exposed' = {},
         ~disordered, ~disordered', disordered \in BOOLEAN, disordered' \in BOOLEAN, [Next]_vars
  PROVE  [Outbox!Next]_Outbox!outbox
<1>0. UNCHANGED <<exposed, disordered>>
  OBVIOUS
<1>1. ASSUME UNCHANGED <<posted, confirmed, removed, unmarked, accepted>>
      PROVE  UNCHANGED Outbox!outbox
  BY <1>0, <1>1 DEF Outbox!outbox
<1>2. CASE Restoring
  BY <1>1, <1>2 DEF Restoring, Boot, RestoreFile, RestoreSave, RemoveTombstone, FinishRestore, feed, history
<1>3. CASE Rediscover
  <2>1. PICK m \in fresh, seq \in NextSeq : Enqueue(m, seq)
    BY <1>3 DEF Rediscover
  <2>2. Seen(m)
    BY DEF Seen, DiskInv, Recorded
  <2> QED
    BY <1>1, <1>3, <2>1, <2>2 DEF Rediscover, Enqueue, record
<1>4. CASE DrainHolds \/ DrainDelivers \/ PumpDelivers \/ PumpHolds \/ WatchdogElapses \/ DeliveryThrows
  BY <1>1, <1>4 DEF DrainHolds, DrainBails, DrainDelivers, DrainSends, PumpDelivers, PumpHolds,
                    WatchdogElapses, DeliveryThrows, feed, history
<1>5. CASE DeliveryAccepted \/ DeliveryRefused \/ Crash
  BY <1>0, <1>5, AnswerStep
<1>6. CASE Post
  BY <1>6, AcceptStep DEF Outbox!Next
<1>7. ~DeliveryTimesOut /\ ~LateAccepted /\ ~LateRefused
  <2>1. late = {}
    BY NothingLate
  <2> QED
    BY <2>1 DEF DeliveryTimesOut, LateAccepted, LateRefused
<1>8. CASE Operating
  <2>1. CASE Pause \/ Resume
    BY <1>1, <2>1 DEF Pause, Resume, feed, history
  <2>2. ASSUME removed \subseteq removed', UNCHANGED <<posted, confirmed, unmarked, accepted>>
        PROVE  Outbox!GiveUp
    BY <1>0, <2>2 DEF Outbox!GiveUp
  <2>3. CASE DropQueue
    BY <2>2, <2>3 DEF DropQueue, feed, record, Outbox!Next
  <2>4. ASSUME NEW seq, DropMessage(seq)
        PROVE  Outbox!Next
    BY <2>2, <2>4 DEF DropMessage, feed, record, Outbox!Next
  <2> QED
    BY <1>8, <2>1, <2>3, <2>4 DEF Operating, ForceDeliver
<1>9. CASE UNCHANGED vars
  BY <1>1, <1>9 DEF vars, feed, history
<1> QED
  BY <1>2, <1>3, <1>4, <1>5, <1>6, <1>7, <1>8, <1>9 DEF Next, Delivering

(* Seen from the agent, queues, claims, tombstones, digests, failed sends and *)
(* any number of crashes and restores are one ordered outbox, as long as none  *)
(* of the crashes leaves a renumbering to greater numbers half done: a prompt  *)
(* overtakes none that is still owed, and none arrives again once its          *)
(* hand-over was marked.                                                       *)
THEOREM OutboxImplemented ==
  ASSUME "force" \notin Operator, MaxTimeouts = 0, LegacyCounts \subseteq {0}
  PROVE  Spec /\ []~disordered => ImplementsOutbox
<1>1. Init => Outbox!Init
  <2> SUFFICES ASSUME Init PROVE Outbox!Init
    OBVIOUS
  <2>1. /\ posted = 0 /\ confirmed = {} /\ removed = {} /\ accepted = [m \in Msgs |-> 0]
        /\ unmarked = {} /\ exposed = {} /\ disordered = FALSE
    BY DEF Init
  <2> QED
    BY <2>1 DEF Outbox!Init, Msgs
<1>2. (timeouts = 0) /\ [Next]_vars => (timeouts = 0)'
  <2> SUFFICES ASSUME timeouts = 0, [Next]_vars PROVE timeouts' = 0
    OBVIOUS
  <2>1. ~DeliveryTimesOut
    BY DEF DeliveryTimesOut
  <2> QED
    BY <2>1, TimeoutsStay
<1>3. Init => timeouts = 0
  BY DEF Init
<1>4. Inv /\ Inv' /\ ClaimInv /\ OutboxInv /\ OutboxInv' /\ timeouts = 0 /\ (timeouts = 0)'
      /\ ~disordered /\ (~disordered)' /\ [Next]_vars => [Outbox!Next]_Outbox!outbox
  BY OutboxStep DEF OutboxInv, Inv, DataTyped
<1> QED
  BY <1>1, <1>2, <1>3, <1>4, InvAlways, ClaimAlways, OutboxAlways, PTL
  DEF Spec, ImplementsOutbox, Outbox!Spec

=============================================================================
