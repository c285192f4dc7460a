--------------------------- MODULE HolderLink_proofs ---------------------------
(***************************************************************************)
(* Theorems about HolderLink, for every set of surfaces and every bound on *)
(* inputs, queues, connections and faults: what the terminal receives over *)
(* links that are lost and leases that are resumed, refused or taken.      *)
(***************************************************************************)
EXTENDS HolderLink, SequenceTheorems, FiniteSetTheorems, TLAPS

Item == 0..MaxInputs
Asks == {"resume", "attach", "acquire"}
Grants == {"resumed", "refused", "attached", "acquired"}
FrameKinds == Asks \cup {"input", "release", "eof"}
AnswerKinds == Grants \cup {"released", "receipt", "close"}
Phases == {"closed", "resuming", "attaching", "attached"}
Resets == {"no", "releasing", "acquiring"}
Stages == {"none", "waiting", "accepting", "leasing"}
Fates == {"none", "dropped", "withdrawn", "yes", "no"}

Frames == [kind : FrameKinds, epoch : Nat, n : Nat, item : Item]
Answers == [kind : AnswerKinds, epoch : Nat, n : Nat, ok : BOOLEAN]
Snapshots == [epoch : Nat, token : Nat, next : Nat \ {0}, pending : Item]
Clients ==
  [conn : Links, phase : Phases, resume : Snapshots, asked : Item, epoch : Nat,
   token : Nat, next : Nat \ {0}, pending : Item]
LinkStates == [queue : Seq(Item), retained : Item, reset : Resets]
Slots == [stage : Stages, lease : Snapshots, queue : Seq(Item), observer : BOOLEAN,
          timed : BOOLEAN]
Leases == [epoch : Nat, owner : 0..Other, token : Nat, high : Nat, item : Item,
           ok : BOOLEAN, inflight : Item]
Writes == [epoch : Nat, item : Item, conn : Links]

Typed ==
  /\ made \in Seq(Surfaces \cup {ControlPlane}) /\ Len(made) <= MaxInputs
  /\ hidden \subseteq Surfaces
  /\ client \in Clients /\ link \in LinkStates /\ slot \in Slots
  /\ lease \in Leases /\ allocated \in Nat /\ tokens \in Nat
  /\ toHolder \in [Links -> Seq(Frames)] /\ toClient \in Seq(Answers)
  /\ ended \subseteq Links
  /\ writer \in Seq(Writes) /\ written \in Seq(Item)
  /\ fate \in [Inputs -> Fates] /\ touched \in BOOLEAN /\ faults \in Nat

AtOf(c, kinds) == {k \in 1..Len(toHolder[c]) : toHolder[c][k].kind \in kinds}
InputsOf(c) == AtOf(c, {"input"})
Told(kinds) == {k \in 1..Len(toClient) : toClient[k].kind \in kinds}

(* The stages of a link and of its recovery. *)
Staged ==
  /\ client.phase = "closed" => client.epoch = 0 /\ toClient = <<>>
  /\ client.epoch = 0 => client.pending = 0
  /\ link.reset # "no" => Attached
  /\ Recovering => link.queue = <<>> /\ link.reset = "no"
  /\ ~Recovering => Attached /\ slot.queue = <<>> /\ slot.lease.pending = 0 /\ ~slot.observer
  /\ slot.stage \in {"accepting", "leasing"} => Attached
  /\ slot.observer => Attached /\ client.epoch = 0
  /\ slot.stage = "leasing" => slot.observer
  /\ link.queue # <<>> => client.pending # 0 \/ link.reset # "no"
  /\ client.phase \in {"resuming", "attaching"} => InputsOf(client.conn) = {}
  /\ client.phase \in {"resuming", "attaching"} /\ client.epoch = 0 => client.next = 1
  /\ client.phase = "resuming" => client.resume.epoch # 0
  /\ client.asked # 0 => /\ client.asked = client.pending /\ Attached
                         /\ ~Recovering /\ link.reset = "no"

(* What the client asked of the holder is asked once, and no input follows  *)
(* a question on its connection before the answer came.                     *)
Asking == AtOf(client.conn, Asks)
Giving == AtOf(client.conn, {"release"})
Single(S) == \A j, k \in S : j = k
Open == client.phase # "closed"
AtRest == Attached /\ slot.stage # "leasing" /\ link.reset # "acquiring"
Question(f) ==
  /\ f.kind # "attach" \/ f.n = 1 => client.epoch = 0
  /\ f.kind = "resume" => client.phase = "resuming" /\ f.epoch = client.resume.epoch
  /\ f.kind = "attach" => client.phase = "attaching" /\ (f.n # 1 => client.epoch # 0)
  /\ f.kind = "acquire" => Attached
Reaction(a) ==
  /\ a.kind \in {"resumed", "refused"} => client.phase = "resuming" /\ client.epoch = 0
  /\ a.kind = "resumed" => a.epoch = client.resume.epoch /\ a.epoch # 0
  /\ a.kind = "attached" => client.phase = "attaching"
  /\ a.kind = "acquired" => Attached /\ client.epoch = 0 /\ (a.ok => a.epoch # 0)
Questions ==
  /\ \A c \in Links : \A j \in AtOf(c, Asks), k \in InputsOf(c) : k < j
  /\ Open /\ Asking # {} => Told(Grants) = {}
  /\ Open => Single(Asking) /\ \A k \in Asking : ~AtRest /\ Question(toHolder[client.conn][k])
  /\ Single(Told(Grants)) /\ \A k \in Told(Grants) : ~AtRest /\ Reaction(toClient[k])
  /\ Told(Grants) # {} => InputsOf(client.conn) = {}
  /\ Open /\ Giving # {} => link.reset = "releasing" /\ Told({"released"}) = {}
  /\ Open => Single(Giving)
  /\ Told({"released"}) # {} => link.reset = "releasing"
  /\ Single(Told({"released"}))

(* Epochs are granted once; a client whose connection owns the lease knows  *)
(* its epoch, or is about to.                                               *)
Epochs ==
  /\ {client.epoch, client.resume.epoch, slot.lease.epoch, lease.epoch} \subseteq 0..allocated
  /\ lease.token <= tokens
  /\ \A k \in 1..Len(toClient) : toClient[k].epoch <= allocated
  /\ lease.owner = client.conn /\ client.epoch # 0 => client.epoch = lease.epoch
  /\ lease.owner = client.conn =>
       \A k \in 1..Len(toClient) :
         toClient[k].kind \in {"resumed", "attached", "acquired"} /\ toClient[k].epoch # 0
           => toClient[k].epoch = lease.epoch

(* What was written or is under way to the terminal, what was sent, and what *)
(* waits: an input is sent before any that waits behind it.                  *)
Done == ItemsOf(written) \cup {writer[k].item : k \in 1..Len(writer)}
Pending == {client.pending, slot.lease.pending} \cup
            (IF client.phase = "resuming" THEN {client.resume.pending} ELSE {})
BeforeWaiting(x) == x <= Len(made) /\ \A q \in Waiting : x < q
Increasing(s) == \A j, k \in 1..Len(s) : j < k => s[j] < s[k]
InOrder ==
  /\ \A x \in Done \cup Pending : BeforeWaiting(x)
  /\ \A c \in Links : \A k \in InputsOf(c) :
       toHolder[c][k].item # 0 /\ BeforeWaiting(toHolder[c][k].item)
  /\ \A q \in Waiting : q # 0 /\ q <= Len(made)
  /\ Increasing(slot.queue) /\ Increasing(link.queue)
  /\ WrittenInOrder
  /\ \A j, k \in 1..Len(writer) : j < k => writer[j].item < writer[k].item
  /\ \A j \in 1..Len(written), k \in 1..Len(writer) : written[j] < writer[k].item
  /\ 0 \notin Done
  /\ link.retained <= Len(made) /\ client.resume.pending <= Len(made)

(* The number up to which the holder takes no input for a new one. *)
Reached == IF lease.inflight = 0 THEN lease.high ELSE lease.high + 1
Fresh(n, x) == n > Reached => \A d \in Done : d < x

(* On the connection that owns the lease a higher number is a later input,  *)
(* and one not yet reached is later than all that was written.              *)
Owned == IF lease.owner \in Links THEN {toHolder[lease.owner][k] : k \in InputsOf(lease.owner)}
         ELSE {}
Numbered ==
  /\ \A f \in Owned : f.epoch = lease.epoch /\ Fresh(f.n, f.item)
  /\ \A f, g \in Owned : f.n < g.n => f.item < g.item
  /\ Open => \A k \in InputsOf(client.conn) : toHolder[client.conn][k].n < client.next

(* The request kept over a lost link fits the lease it was made under. *)
Fits(v) ==
  v.epoch # 0 /\ v.epoch = lease.epoch =>
    /\ Reached < v.next /\ \A f \in Owned : f.n < v.next
    /\ v.pending # 0 =>
         /\ Fresh(v.next - 1, v.pending)
         /\ \A f \in Owned : /\ f.n = v.next - 1 => f.item = v.pending
                             /\ f.n < v.next - 1 => f.item < v.pending
Fitting ==
  /\ Fits(client)
  /\ Recovering => Fits(slot.lease)
  /\ client.phase = "resuming" => Fits(client.resume)
  /\ client.epoch = 0 => \A k \in Told({"attached", "acquired"}) :
       toClient[k].epoch # 0 /\ toClient[k].epoch = lease.epoch => Owned = {} /\ Reached = 0

(* What the holder keeps of the last request is true. *)
Remembers ==
  /\ lease.inflight # 0 => \E k \in 1..Len(writer) : /\ writer[k].item = lease.inflight
                                                    /\ writer[k].epoch = lease.epoch
  /\ lease.ok => lease.item \in ItemsOf(written)

(* Receipts on their way are of requests that were made. *)
Receipted ==
  /\ client.epoch # 0 => \A k \in Told({"receipt"}) :
       toClient[k].epoch = client.epoch => toClient[k].n < client.next
  /\ client.phase = "resuming" => \A k \in Told({"receipt"}) :
       toClient[k].epoch = client.resume.epoch => toClient[k].n < client.resume.next
  /\ client.epoch = 0 => \A k \in Told({"attached", "acquired"}), j \in Told({"receipt"}) :
       toClient[k].epoch # 0 => toClient[j].epoch # toClient[k].epoch

(* The receipt of a prompt is true: it was sent once, under one number. *)
Latest == client.next - 1
Mine == {k \in Told({"receipt"}) : toClient[k].epoch = client.epoch /\ toClient[k].n = Latest}
Telling ==
  client.asked # 0 =>
    /\ \A c \in Links : \A k \in InputsOf(c) : toHolder[c][k].item = client.asked =>
         /\ c = client.conn /\ toHolder[c][k].n = Latest /\ client.asked \notin Done
         /\ Mine = {}
         /\ \A j \in InputsOf(c) : toHolder[c][j].item = client.asked => j = k
    /\ \A k \in InputsOf(client.conn) :
         toHolder[client.conn][k].n = Latest => toHolder[client.conn][k].item = client.asked
    /\ lease.inflight # 0 /\ lease.epoch = client.epoch /\ lease.high + 1 = Latest
         => lease.inflight = client.asked
    /\ \A k \in Mine : IF toClient[k].ok THEN client.asked \in ItemsOf(written)
                        ELSE client.asked \notin Done

(* What was given up is nowhere from where it could still be sent. *)
Settled ==
  \A i \in Inputs :
    /\ fate[i] \in {"dropped", "no"} => i <= Len(made) /\ i \notin Waiting \cup Pending
    /\ fate[i] = "no" => i \notin ItemsOf(written) /\ ~OnWire(i)
    /\ fate[i] = "yes" => i \in ItemsOf(written)

IInv == Typed /\ Staged /\ Questions /\ Epochs /\ InOrder /\ Numbered /\ Fitting
        /\ Remembers /\ Receipted /\ Telling /\ Settled

-----------------------------------------------------------------------------
(* Sequences. *)

LEMMA Interval ==
  ASSUME NEW n \in Nat
  PROVE  IsFiniteSet(1..n) /\ Cardinality(1..n) = n
BY FS_Interval

(* Positions are finite, and those up to a later one are more. *)
LEMMA UpTo ==
  ASSUME NEW n \in Nat, NEW K, K \subseteq 1..n
  PROVE  /\ IsFiniteSet(K) /\ Cardinality(K) \in Nat
         /\ \A k \in K : Cardinality({l \in K : l <= k}) \in 1..Cardinality(K)
         /\ \A j, k \in K : j < k => Cardinality({l \in K : l <= j}) < Cardinality({l \in K : l <= k})
<1> DEFINE upTo(k) == {l \in K : l <= k}
<1>1. IsFiniteSet(K) /\ Cardinality(K) \in Nat
  BY Interval, FS_Subset, FS_CardinalityType
<1>2. ASSUME NEW k \in K
      PROVE  /\ IsFiniteSet(upTo(k)) /\ Cardinality(upTo(k)) \in Nat
             /\ Cardinality(upTo(k)) <= Cardinality(K) /\ Cardinality(upTo(k)) # 0
  <2>1. upTo(k) \in SUBSET K /\ k \in upTo(k)  OBVIOUS
  <2> HIDE DEF upTo
  <2>2. IsFiniteSet(upTo(k)) /\ Cardinality(upTo(k)) <= Cardinality(K)
    BY <1>1, <2>1, FS_Subset
  <2> QED  BY <2>1, <2>2, FS_CardinalityType, FS_EmptySet
<1>3. ASSUME NEW j \in K, NEW k \in K, j < k
      PROVE  Cardinality(upTo(j)) < Cardinality(upTo(k))
  <2>0. j \in Int /\ k \in Int /\ \A l \in K : l \in Int /\ (l <= j => l <= k)  BY <1>3
  <2>1. upTo(j) \in SUBSET upTo(k)  BY <2>0
  <2>2. k \in upTo(k) /\ k \notin upTo(j)  BY <1>3, <2>0
  <2> HIDE DEF upTo
  <2>3. /\ Cardinality(upTo(j)) <= Cardinality(upTo(k))
        /\ Cardinality(upTo(k)) = Cardinality(upTo(j)) => upTo(k) = upTo(j)
    BY <1>2, <2>1, FS_Subset
  <2> QED  BY <1>2, <2>2, <2>3
<1> QED  BY <1>1, <1>2, <1>3

(* What is left of a queue when inputs are taken out is in the same order. *)
LEMMA WithoutIs ==
  ASSUME NEW T, T \subseteq Nat, NEW queue \in Seq(T), NEW S
  PROVE  /\ Without(queue, S) \in Seq(T)
         /\ ItemsOf(Without(queue, S)) \subseteq ItemsOf(queue) \ S
         /\ Increasing(queue) => Increasing(Without(queue, S))
<1> DEFINE kept == {k \in 1..Len(queue) : queue[k] \notin S}
           upTo(k) == {l \in kept : l <= k}
           n == Cardinality(kept)
           rank == [k \in kept |-> Cardinality(upTo(k))]
           nth(j) == CHOOSE k \in kept : Cardinality({l \in kept : l <= k}) = j
           out == [j \in 1..n |-> queue[nth(j)]]
<1>1. Len(queue) \in Nat /\ kept \subseteq 1..Len(queue)  OBVIOUS
<1>2. out = Without(queue, S)  BY DEF Without
<1>3. /\ IsFiniteSet(kept) /\ n \in Nat
      /\ \A k \in kept : rank[k] \in 1..n
      /\ \A j, k \in kept : j < k => rank[j] < rank[k]
  <2> HIDE DEF kept
  <2> QED  BY <1>1, UpTo
<1>4. \A j \in 1..n : \E k \in kept : Cardinality({l \in kept : l <= k}) = j
  <2>1. rank \in Injection(kept, 1..n)
    <3>1. rank \in [kept -> 1..n]
      <4> HIDE DEF kept, n
      <4> QED  BY <1>3
    <3>2. ASSUME NEW j \in kept, NEW k \in kept, rank[j] = rank[k] PROVE j = k
      <4>0. n \in Int /\ rank[j] \in 1..n /\ rank[k] \in 1..n
        <5> HIDE DEF kept, n
        <5> QED  BY <1>3, <3>1
      <4> HIDE DEF n, rank
      <4>1. j \in Int /\ k \in Int /\ rank[j] \in Int  BY <1>1, <4>0
      <4>2. ~(j < k) /\ ~(k < j)
        <5> HIDE DEF kept, rank
        <5> QED  BY <1>3, <3>2, <4>1
      <4> QED  BY <4>1, <4>2
    <3> HIDE DEF kept, rank, n
    <3> QED  BY <3>1, <3>2 DEF Injection, IsInjective
  <2>2. IsFiniteSet(1..n) /\ Cardinality(1..n) = n
    <3> HIDE DEF n
    <3> QED  BY <1>3, Interval
  <2>3. rank \in Surjection(kept, 1..n)
    <3>1. n = Cardinality(kept)  OBVIOUS
    <3> HIDE DEF kept, rank, n
    <3> QED  BY <2>1, <2>2, <3>1, FS_Injection
  <2>4. ASSUME NEW j \in 1..n PROVE \E k \in kept : rank[k] = j
    <3> HIDE DEF kept, rank, n
    <3> QED  BY <2>3 DEF Surjection
  <2> QED  BY <2>4
<1>5. \A j \in 1..n : nth(j) \in kept /\ Cardinality(upTo(nth(j))) = j
  BY <1>4
<1>6. \A j \in 1..n : nth(j) \in 1..Len(queue) /\ rank[nth(j)] = j
  BY <1>5
<1>7. \A j, k \in 1..n : j < k => nth(j) < nth(k)
  <2>1. ASSUME NEW j \in 1..n, NEW k \in 1..n, j < k, ~(nth(j) < nth(k)) PROVE FALSE
    <3> DEFINE a == nth(j)
               b == nth(k)
    <3>1. a \in kept /\ b \in kept /\ rank[a] = j /\ rank[b] = k  BY <1>5, <1>6
    <3>2. a \in Int /\ b \in Int /\ ~(a < b)  BY <1>1, <2>1, <3>1
    <3> HIDE DEF a, b, kept, rank, nth
    <3>3. b < a \/ a = b  BY <3>2
    <3>4. j \in Int /\ k \in Int  OBVIOUS
    <3> QED  BY <1>3, <2>1, <3>1, <3>3, <3>4
  <2> QED  BY <2>1
<1>8. ASSUME NEW j \in 1..n PROVE queue[nth(j)] \in T /\ queue[nth(j)] \in ItemsOf(queue) \ S
  <2> DEFINE m == nth(j)
  <2>1. m \in 1..Len(queue) /\ queue[m] \notin S  BY <1>5
  <2> HIDE DEF m, kept, n, nth
  <2>2. queue[m] \in T /\ queue[m] \in ItemsOf(queue)  BY <2>1 DEF ItemsOf
  <2> QED  BY <2>1, <2>2 DEF m
<1> HIDE DEF nth, kept
<1>9. out \in Seq(T) /\ Len(out) = n /\ \A j \in 1..n : out[j] = queue[nth(j)]
  <2> HIDE DEF n
  <2> QED  BY <1>3, <1>8
<1> HIDE DEF out, n, rank
<1>10. ItemsOf(out) \subseteq ItemsOf(queue) \ S
  <2> SUFFICES ASSUME NEW j \in 1..Len(out) PROVE out[j] \in ItemsOf(queue) \ S
    BY DEF ItemsOf
  <2> QED  BY <1>8, <1>9
<1>11. Increasing(queue) => Increasing(out)
  BY <1>6, <1>7, <1>9 DEF Increasing
<1> QED  BY <1>2, <1>9, <1>10, <1>11

-----------------------------------------------------------------------------
(* Records, by their fields. *)

ClientHas(x, conn, phase, resume, asked, epoch, token, next, pending) ==
  /\ x \in Clients
  /\ x.conn = conn /\ x.phase = phase /\ x.resume = resume /\ x.asked = asked
  /\ x.epoch = epoch /\ x.token = token /\ x.next = next /\ x.pending = pending
LinkHas(x, queue, retained, reset) ==
  x \in LinkStates /\ x.queue = queue /\ x.retained = retained /\ x.reset = reset
SnapshotHas(x, epoch, token, next, pending) ==
  /\ x \in Snapshots
  /\ x.epoch = epoch /\ x.token = token /\ x.next = next /\ x.pending = pending
SlotHas(x, stage, queue, observer, timed) ==
  /\ x \in Slots
  /\ x.stage = stage /\ x.queue = queue /\ x.observer = observer /\ x.timed = timed
LeaseHas(x, epoch, owner, token, high, item, ok, inflight) ==
  /\ x \in Leases
  /\ x.epoch = epoch /\ x.owner = owner /\ x.token = token /\ x.high = high
  /\ x.item = item /\ x.ok = ok /\ x.inflight = inflight

(* The constants' types. *)
LEMMA Bounds ==
  /\ MaxInputs \in Nat /\ MaxQueue \in Nat /\ MaxLinks \in Nat /\ MaxFaults \in Nat
  /\ Item \subseteq Nat /\ 0 \in Item /\ Inputs \subseteq Item /\ 0 \notin Inputs
  /\ Other \in Nat /\ Links \subseteq 0..Other /\ Other \notin Links /\ 0 \notin Links
  /\ \A x \in Item : x = 0 \/ x \in Inputs
BY LinkAssumption DEF Item, Inputs, Links, Other

(* The records there are before anything happened. *)
LEMMA Blank ==
  ASSUME NEW c \in Links
  PROVE  /\ SnapshotHas(NoSnapshot, 0, 0, 1, 0)
         /\ ClientHas(Closed(c), c, "closed", NoSnapshot, 0, 0, 0, 1, 0)
         /\ LinkHas(NoLink, <<>>, 0, "no")
         /\ SlotHas(NoSlot, "none", <<>>, FALSE, FALSE) /\ NoSlot.lease = NoSnapshot
         /\ LeaseHas(FreeLease, 0, 0, 0, 0, 0, FALSE, 0)
<1>1. SnapshotHas(NoSnapshot, 0, 0, 1, 0)
  BY Bounds DEF NoSnapshot, SnapshotHas, Snapshots
<1>2. ClientHas(Closed(c), c, "closed", NoSnapshot, 0, 0, 0, 1, 0)
  BY Bounds, <1>1 DEF Closed, ClientHas, Clients, Phases, SnapshotHas
<1>3. LinkHas(NoLink, <<>>, 0, "no")
  <2>1. <<>> \in Seq(Item)  OBVIOUS
  <2> QED  BY <2>1, Bounds DEF NoLink, LinkHas, LinkStates, Resets
<1>4. SlotHas(NoSlot, "none", <<>>, FALSE, FALSE) /\ NoSlot.lease = NoSnapshot
  <2>1. <<>> \in Seq(Item)  OBVIOUS
  <2> QED  BY <1>1, <2>1, Bounds DEF NoSlot, SlotHas, Slots, Stages, SnapshotHas
<1>5. LeaseHas(FreeLease, 0, 0, 0, 0, 0, FALSE, 0)
  BY Bounds DEF FreeLease, LeaseHas, Leases
<1> QED  BY <1>1, <1>2, <1>3, <1>4, <1>5

-----------------------------------------------------------------------------
(* What a step does to the wire, position by position. *)

(* Connection c loses its first s frames, and its last ones for an end. *)
Fewer(c, s) ==
  \A d \in Links :
    IF d = c
    THEN \A k \in 1..Len(toHolder'[d]) :
           \/ toHolder'[d][k].kind = "eof"
           \/ k + s \in 1..Len(toHolder[d]) /\ toHolder'[d][k] = toHolder[d][k + s]
    ELSE toHolder'[d] = toHolder[d]
(* Connection c gets one more frame. *)
More(c, f) ==
  \A d \in Links :
    IF d = c
    THEN /\ Len(toHolder'[d]) = Len(toHolder[d]) + 1
         /\ toHolder'[d][Len(toHolder[d]) + 1] = f
         /\ \A k \in 1..Len(toHolder[d]) : toHolder'[d][k] = toHolder[d][k]
    ELSE toHolder'[d] = toHolder[d]
(* The client reads its first t answers. *)
Heard(t) ==
  /\ Len(toClient') = Len(toClient) - t
  /\ \A k \in 1..Len(toClient') : k + t \in 1..Len(toClient) /\ toClient'[k] = toClient[k + t]
(* It gets one more, if connection c is its own. *)
ReplyIs(c, a) ==
  IF c = client.conn /\ Open
  THEN /\ Len(toClient') = Len(toClient) + 1 /\ toClient'[Len(toClient) + 1] = a
       /\ \A k \in 1..Len(toClient) : toClient'[k] = toClient[k]
  ELSE toClient' = toClient
Shift(c, s, d) == IF d = c THEN s ELSE 0
Adds(new, old, x) ==
  /\ Len(new) = Len(old) + 1 /\ new[Len(old) + 1] = x
  /\ \A k \in 1..Len(old) : new[k] = old[k]
Drops(new, old) ==
  /\ Len(old) # 0 /\ Len(new) = Len(old) - 1
  /\ \A k \in 1..Len(new) : new[k] = old[k + 1]

(* What the sequences hold. *)
LEMMA Elements ==
  ASSUME Typed
  PROVE  /\ Len(toClient) \in Nat /\ \A k \in 1..Len(toClient) : toClient[k] \in Answers
         /\ \A d \in Links : /\ Len(toHolder[d]) \in Nat
                             /\ \A k \in 1..Len(toHolder[d]) : toHolder[d][k] \in Frames
         /\ Len(writer) \in Nat /\ \A k \in 1..Len(writer) : writer[k] \in Writes
         /\ Len(written) \in Nat /\ \A k \in 1..Len(written) : written[k] \in Item
         /\ Len(made) \in Nat
         /\ Len(slot.queue) \in Nat /\ \A k \in 1..Len(slot.queue) : slot.queue[k] \in Item
         /\ Len(link.queue) \in Nat /\ \A k \in 1..Len(link.queue) : link.queue[k] \in Item
<1>1. /\ toClient \in Seq(Answers) /\ \A d \in Links : toHolder[d] \in Seq(Frames)
      /\ writer \in Seq(Writes) /\ written \in Seq(Item) /\ made \in Seq(Surfaces \cup {ControlPlane})
      /\ slot.queue \in Seq(Item) /\ link.queue \in Seq(Item)
  BY DEF Typed, Slots, LinkStates
<1> QED  BY <1>1

(* What waits to be sent is numbered. *)
LEMMA WaitingNumbers ==
  ASSUME Typed, InOrder
  PROVE  \A q \in Waiting : q \in Nat /\ q # 0 /\ q <= Len(made)
<1>1. ItemsOf(slot.queue) \subseteq Item /\ ItemsOf(link.queue) \subseteq Item
  BY Elements DEF ItemsOf
<1>2. Waiting \subseteq Nat
  BY <1>1, Bounds DEF Waiting
<1> QED  BY <1>2 DEF InOrder

LEMMA TakenIs ==
  ASSUME Typed, NEW c \in Links, toHolder[c] # <<>>, Taken(c)
  PROVE  /\ toHolder' \in [Links -> Seq(Frames)] /\ Fewer(c, 1)
         /\ 1 \in 1..Len(toHolder[c]) /\ Head(toHolder[c]) = toHolder[c][1]
         /\ toHolder[c][1] \in Frames
<1>1. toHolder \in [Links -> Seq(Frames)] /\ toHolder[c] \in Seq(Frames)  BY DEF Typed
<1>2. /\ Tail(toHolder[c]) \in Seq(Frames) /\ Len(Tail(toHolder[c])) = Len(toHolder[c]) - 1
      /\ \A k \in 1..Len(Tail(toHolder[c])) :
           k + 1 \in 1..Len(toHolder[c]) /\ Tail(toHolder[c])[k] = toHolder[c][k + 1]
      /\ 1 \in 1..Len(toHolder[c]) /\ Head(toHolder[c]) = toHolder[c][1]
      /\ toHolder[c][1] \in Frames
  BY <1>1
<1> DEFINE rest == Tail(toHolder[c])
<1>3. toHolder' = [toHolder EXCEPT ![c] = rest]  BY DEF Taken
<1>4. rest \in Seq(Frames)  BY <1>2
<1> HIDE DEF rest
<1>5. /\ toHolder' \in [Links -> Seq(Frames)] /\ toHolder'[c] = rest
      /\ \A d \in Links \ {c} : toHolder'[d] = toHolder[d]
  BY <1>1, <1>3, <1>4
<1>6. Fewer(c, 1)  BY <1>2, <1>5 DEF Fewer, rest
<1> QED  BY <1>2, <1>5, <1>6

LEMMA SendIs ==
  ASSUME Typed, NEW f \in Frames, Send(f)
  PROVE  toHolder' \in [Links -> Seq(Frames)] /\ More(client.conn, f)
<1> DEFINE c == client.conn
           more == Append(toHolder[c], f)
<1>1. toHolder \in [Links -> Seq(Frames)] /\ c \in Links  BY DEF Typed, Clients
<1>2. toHolder[c] \in Seq(Frames)  BY <1>1
<1>3. toHolder' = [toHolder EXCEPT ![c] = more]  BY DEF Send
<1> HIDE DEF c
<1>4. /\ more \in Seq(Frames) /\ Len(more) = Len(toHolder[c]) + 1
      /\ more[Len(toHolder[c]) + 1] = f
      /\ \A k \in 1..Len(toHolder[c]) : more[k] = toHolder[c][k]
  BY <1>2
<1> HIDE DEF more
<1>5. /\ toHolder' \in [Links -> Seq(Frames)] /\ toHolder'[c] = more
      /\ \A d \in Links \ {c} : toHolder'[d] = toHolder[d]
  BY <1>1, <1>3, <1>4
<1>6. More(c, f)  BY <1>4, <1>5 DEF More
<1> QED  BY <1>5, <1>6 DEF c

LEMMA ReplyGives ==
  ASSUME Typed, NEW c, NEW a \in Answers, Reply(c, a)
  PROVE  toClient' \in Seq(Answers) /\ ReplyIs(c, a)
<1>1. toClient \in Seq(Answers)  BY DEF Typed
<1>2. /\ Append(toClient, a) \in Seq(Answers) /\ Len(Append(toClient, a)) = Len(toClient) + 1
      /\ Append(toClient, a)[Len(toClient) + 1] = a
      /\ \A k \in 1..Len(toClient) : Append(toClient, a)[k] = toClient[k]
  BY <1>1
<1> QED  BY <1>1, <1>2 DEF Reply, ReplyIs, Open

LEMMA HeardIs ==
  ASSUME Typed, toClient # <<>>, toClient' = Tail(toClient)
  PROVE  /\ toClient' \in Seq(Answers) /\ Heard(1)
         /\ 1 \in 1..Len(toClient) /\ Head(toClient) = toClient[1] /\ toClient[1] \in Answers
<1>1. toClient \in Seq(Answers)  BY DEF Typed
<1> QED  BY <1>1 DEF Heard

(* Appending and taking the head, for any sequence. *)
LEMMA AppendAdds ==
  ASSUME NEW T, NEW q \in Seq(T), NEW x \in T
  PROVE  Append(q, x) \in Seq(T) /\ Adds(Append(q, x), q, x)
BY DEF Adds

LEMMA TailDrops ==
  ASSUME NEW T, NEW q \in Seq(T), q # <<>>
  PROVE  /\ Tail(q) \in Seq(T) /\ Drops(Tail(q), q) /\ Head(q) = q[1] /\ q[1] \in T
         /\ 1 \in 1..Len(q)
BY DEF Drops

(* Where the frames of a connection were that has fewer now, or one more. *)
LEMMA FewerAt ==
  ASSUME Typed, NEW c \in Links, NEW s \in {0, 1}, Fewer(c, s),
         NEW K, "eof" \notin K, NEW d \in Links, NEW k \in AtOf(d, K)'
  PROVE  k + Shift(c, s, d) \in AtOf(d, K) /\ toHolder'[d][k] = toHolder[d][k + Shift(c, s, d)]
BY DEF AtOf, Fewer, Shift

LEMMA MoreAt ==
  ASSUME Typed, NEW c \in Links, NEW f, More(c, f), NEW K, NEW d \in Links, NEW k \in AtOf(d, K)'
  PROVE  \/ k \in AtOf(d, K) /\ toHolder'[d][k] = toHolder[d][k]
         \/ d = c /\ k = Len(toHolder[c]) + 1 /\ toHolder'[d][k] = f /\ f.kind \in K
<1>1. toHolder[c] \in Seq(Frames) /\ Len(toHolder[c]) \in Nat  BY DEF Typed
<1> QED  BY <1>1 DEF AtOf, More

-----------------------------------------------------------------------------
(* The holder's steps, by what they do. *)

First(c) == toHolder[c][1]
Quietly == UNCHANGED <<made, hidden, client, link, slot, fate>>
Counted == UNCHANGED <<allocated, tokens>>
Reading(c) ==
  /\ Quietly /\ written' = written /\ ended \subseteq ended'
  /\ toHolder[c] # <<>> /\ 1 \in 1..Len(toHolder[c]) /\ Fewer(c, 1)
SameLease(owner, token) ==
  LeaseHas(lease', lease.epoch, owner, token, lease.high, lease.item, lease.ok, lease.inflight)
NewLease(owner) ==
  /\ lease.epoch = 0 /\ LeaseHas(lease', allocated + 1, owner, tokens + 1, 0, 0, FALSE, 0)
  /\ allocated' = allocated + 1 /\ tokens' = tokens + 1

GrantStep(c, a) ==
  /\ Reading(c) /\ writer' = writer /\ NewLease(c) /\ ReplyIs(c, a)
  /\ a.epoch = allocated + 1
  /\ \/ First(c).kind = "attach" /\ First(c).n = 1 /\ a.kind = "attached"
     \/ First(c).kind = "acquire" /\ a.kind = "acquired"
ResumeStep(c, a) ==
  /\ Reading(c) /\ writer' = writer /\ First(c).kind = "resume" /\ First(c).epoch = lease.epoch
  /\ lease.epoch # 0 /\ lease.owner = 0 /\ SameLease(c, tokens + 1)
  /\ allocated' = allocated /\ tokens' = tokens + 1
  /\ a.kind = "resumed" /\ a.epoch = lease.epoch /\ ReplyIs(c, a)
AnswerStep(c, a) ==
  /\ Reading(c) /\ writer' = writer /\ lease' = lease /\ Counted /\ ReplyIs(c, a)
  /\ \/ First(c).kind = "resume" /\ a.kind = "refused"
     \/ First(c).kind = "attach" /\ a.kind = "attached"
     \/ First(c).kind = "acquire" /\ a.kind = "acquired" /\ ~a.ok
  /\ \/ a.epoch = 0
     \/ First(c).kind = "attach" /\ First(c).n # 1 /\ a.epoch = lease.epoch
ReleaseStep(c, a) ==
  /\ Reading(c) /\ writer' = writer /\ First(c).kind = "release" /\ lease.owner = c
  /\ LeaseHas(lease', 0, 0, 0, 0, 0, FALSE, 0) /\ Counted
  /\ a.kind = "released" /\ a.epoch = lease.epoch /\ ReplyIs(c, a)
PassStep(c, a) ==
  /\ Reading(c) /\ writer' = writer /\ Counted
  /\ lease' = lease \/ (lease.owner = c /\ SameLease(0, lease.token))
  /\ a.kind = "close" /\ a.epoch = 0
  /\ toClient' = toClient \/ ReplyIs(c, a)
InputRead(c) ==
  /\ Reading(c) /\ Counted /\ c \notin ended /\ First(c).kind = "input" /\ lease.owner = c
WriteStep(c) ==
  /\ InputRead(c) /\ IsNext(First(c)) /\ toClient' = toClient
  /\ LeaseHas(lease', lease.epoch, lease.owner, lease.token, lease.high, lease.item, lease.ok,
              First(c).item)
  /\ Adds(writer', writer, [epoch |-> First(c).epoch, item |-> First(c).item, conn |-> c])
RefuseStep(c, a) ==
  /\ InputRead(c) /\ IsNext(First(c)) /\ writer' = writer
  /\ LeaseHas(lease', lease.epoch, lease.owner, lease.token, First(c).n, First(c).item, FALSE, 0)
  /\ a = Receipt(First(c), FALSE) /\ ReplyIs(c, a)
RepeatStep(c, a) ==
  /\ InputRead(c) /\ writer' = writer /\ lease' = lease
  /\ \/ toClient' = toClient
     \/ /\ ReplyIs(c, a)
        /\ \/ a = Receipt(First(c), FALSE)
           \/ a = Receipt(First(c), lease.ok) /\ First(c).item = lease.item
DoneStep(a) ==
  /\ Quietly /\ Counted /\ toHolder' = toHolder /\ ended' = ended
  /\ writer # <<>> /\ Drops(writer', writer) /\ Adds(written', written, writer[1].item)
  /\ lease.epoch = writer[1].epoch /\ lease.inflight = writer[1].item
  /\ LeaseHas(lease', lease.epoch, lease.owner, lease.token, lease.high + 1, writer[1].item, TRUE, 0)
  /\ a = Answer("receipt", writer[1].epoch, lease.high + 1, TRUE) /\ ReplyIs(lease.owner, a)
LateStep(a) ==
  /\ Quietly /\ Counted /\ toHolder' = toHolder /\ ended \subseteq ended'
  /\ writer # <<>> /\ Drops(writer', writer) /\ Adds(written', written, writer[1].item)
  /\ lease.epoch # writer[1].epoch \/ lease.inflight # writer[1].item
  /\ lease' = lease \/ (lease.owner = writer[1].conn /\ SameLease(0, lease.token))
  /\ a.kind = "close" /\ a.epoch = 0 /\ ReplyIs(writer[1].conn, a)
AloneStep ==
  /\ Quietly /\ UNCHANGED <<toHolder, toClient, ended, writer, written>>
  /\ \/ LeaseHas(lease', 0, 0, 0, 0, 0, FALSE, 0) /\ Counted
     \/ NewLease(Other)

LEMMA GrantedIs ==
  ASSUME Typed, NEW c \in 0..Other, Granted(c), lease.epoch = 0
  PROVE  NewLease(c) /\ allocated' \in Nat /\ tokens' \in Nat /\ lease' \in Leases
<1>1. allocated \in Nat /\ tokens \in Nat  BY DEF Typed
<1> DEFINE e == allocated + 1
           t == tokens + 1
<1>2. e \in Nat /\ t \in Nat  BY <1>1
<1>3. lease' = [FreeLease EXCEPT !.epoch = e, !.owner = c, !.token = t]
      /\ allocated' = e /\ tokens' = t
  BY DEF Granted
<1> HIDE DEF e, t
<1>4. LeaseHas(FreeLease, 0, 0, 0, 0, 0, FALSE, 0)
  <2>1. client.conn \in Links  BY DEF Typed, Clients
  <2> QED  BY <2>1, Blank
<1>5. FreeLease \in Leases  BY <1>4 DEF LeaseHas
<1>6. LeaseHas(lease', e, c, t, 0, 0, FALSE, 0)
  <2>1. LeaseHas([FreeLease EXCEPT !.epoch = e, !.owner = c, !.token = t], e, c, t,
                 FreeLease.high, FreeLease.item, FreeLease.ok, FreeLease.inflight)
    BY <1>2, <1>5 DEF LeaseHas, Leases
  <2>2. /\ FreeLease.high = 0 /\ FreeLease.item = 0 /\ FreeLease.ok = FALSE
        /\ FreeLease.inflight = 0
    BY <1>4 DEF LeaseHas
  <2> QED  BY <1>3, <2>1, <2>2
<1> QED  BY <1>2, <1>3, <1>6 DEF NewLease, LeaseHas, e, t

(* The kinds of answers and of frames. *)
LEMMA Kinds ==
  /\ {"resumed", "refused", "attached", "acquired", "released", "receipt", "close"} = AnswerKinds
  /\ {"resume", "attach", "acquire", "input", "release", "eof"} = FrameKinds
BY DEF AnswerKinds, Grants, FrameKinds, Asks

LEMMA FrameIs ==
  ASSUME NEW kind \in FrameKinds, NEW e \in Nat, NEW n \in Nat, NEW i \in Item
  PROVE  /\ Frame(kind, e, n, i) \in Frames /\ Frame(kind, e, n, i).kind = kind
         /\ Frame(kind, e, n, i).epoch = e /\ Frame(kind, e, n, i).n = n
         /\ Frame(kind, e, n, i).item = i
BY DEF Frame, Frames

LEMMA ResumesIs ==
  ASSUME Typed, NEW c \in Links, toHolder[c] # <<>>, HolderResumes(c)
  PROVE  Typed' /\ \E a \in Answers : ResumeStep(c, a) \/ AnswerStep(c, a)
<1> DEFINE t == tokens + 1
<1>1. /\ lease \in Leases /\ allocated \in Nat /\ tokens \in Nat /\ t \in Nat
      /\ lease.epoch \in Nat /\ c \in 0..Other /\ touched \in BOOLEAN /\ slot.timed \in BOOLEAN
  BY Bounds DEF Typed, Leases, Slots
<1>2. /\ toHolder' \in [Links -> Seq(Frames)] /\ Reading(c) /\ Head(toHolder[c]) = First(c)
      /\ First(c) \in Frames
  BY TakenIs DEF HolderResumes, Reading, Quietly, desk, people, First
<1>3. CASE lease' = [lease EXCEPT !.owner = c, !.token = t] /\ tokens' = t
           /\ Reply(c, Answer("resumed", lease.epoch, t, TRUE)) /\ touched' = slot.timed
           /\ lease.epoch # 0 /\ ~(lease.epoch # 0 /\ lease.owner # 0)
           /\ First(c).epoch = lease.epoch
  <2> DEFINE a == Answer("resumed", lease.epoch, t, TRUE)
  <2>1. a \in Answers /\ a.kind = "resumed" /\ a.epoch = lease.epoch
    <3>1. "resumed" \in AnswerKinds  BY Kinds
    <3> HIDE DEF t
    <3> QED  BY <1>1, <3>1 DEF Answer, Answers
  <2> HIDE DEF a
  <2>2. toClient' \in Seq(Answers) /\ ReplyIs(c, a)  BY <1>3, <2>1, ReplyGives DEF a
  <2>3. LeaseHas(lease', lease.epoch, c, t, lease.high, lease.item, lease.ok, lease.inflight)
    <3> HIDE DEF t
    <3>1. LeaseHas([lease EXCEPT !.owner = c, !.token = t],
                   lease.epoch, c, t, lease.high, lease.item, lease.ok, lease.inflight)
      BY <1>1 DEF LeaseHas, Leases
    <3> QED  BY <1>3, <3>1
  <2>4. Typed'
    BY <1>1, <1>2, <1>3, <2>2, <2>3 DEF Typed, HolderResumes, desk, people, LeaseHas
  <2>5. ResumeStep(c, a)
    BY <1>1, <1>2, <1>3, <2>1, <2>2, <2>3 DEF ResumeStep, HolderResumes, SameLease
  <2> QED  BY <2>1, <2>4, <2>5
<1>4. CASE /\ Reply(c, Answer("refused", 0, 0, lease.epoch # 0 /\ lease.owner # 0))
           /\ UNCHANGED <<lease, tokens, touched>>
  <2> DEFINE ok == lease.epoch # 0 /\ lease.owner # 0
             a == Answer("refused", 0, 0, ok)
  <2>1. a \in Answers /\ a.kind = "refused" /\ a.epoch = 0
    <3>1. "refused" \in AnswerKinds  BY Kinds
    <3>2. CASE ok  BY <3>1, <3>2 DEF Answer, Answers
    <3>3. CASE ~ok  BY <3>1, <3>3 DEF Answer, Answers
    <3> QED  BY <3>2, <3>3
  <2> HIDE DEF a
  <2>2. toClient' \in Seq(Answers) /\ ReplyIs(c, a)  BY <1>4, <2>1, ReplyGives DEF a
  <2>3. Typed'
    BY <1>1, <1>2, <1>4, <2>2 DEF Typed, HolderResumes, desk, people
  <2>4. AnswerStep(c, a)
    BY <1>2, <1>4, <2>1, <2>2 DEF AnswerStep, HolderResumes, Counted
  <2> QED  BY <2>1, <2>3, <2>4
<1> QED  BY <1>2, <1>3, <1>4 DEF HolderResumes

LEMMA AttachesIs ==
  ASSUME Typed, NEW c \in Links, toHolder[c] # <<>>, HolderAttaches(c)
  PROVE  Typed' /\ \E a \in Answers : GrantStep(c, a) \/ AnswerStep(c, a)
<1> DEFINE e == allocated + 1
           t == tokens + 1
<1>1. /\ lease \in Leases /\ allocated \in Nat /\ tokens \in Nat /\ t \in Nat /\ e \in Nat
      /\ lease.epoch \in Nat /\ lease.token \in Nat /\ c \in 0..Other
  BY Bounds DEF Typed, Leases
<1>2. /\ toHolder' \in [Links -> Seq(Frames)] /\ Reading(c) /\ Head(toHolder[c]) = First(c)
      /\ First(c) \in Frames
  BY TakenIs DEF HolderAttaches, Reading, Quietly, desk, people, First
<1>3. "attached" \in AnswerKinds  BY Kinds
<1>4. CASE /\ First(c).n = 1 /\ lease.epoch = 0 /\ Granted(c)
           /\ Reply(c, Answer("attached", allocated + 1, tokens + 1, TRUE))
  <2> DEFINE a == Answer("attached", e, t, TRUE)
  <2>1. a \in Answers /\ a.kind = "attached" /\ a.epoch = e
    <3> HIDE DEF t, e
    <3> QED  BY <1>1, <1>3 DEF Answer, Answers
  <2> HIDE DEF a
  <2>2. toClient' \in Seq(Answers) /\ ReplyIs(c, a)  BY <1>4, <2>1, ReplyGives DEF a
  <2>3. NewLease(c) /\ allocated' \in Nat /\ tokens' \in Nat /\ lease' \in Leases
    BY <1>1, <1>4, GrantedIs
  <2>4. Typed'
    BY <1>2, <2>2, <2>3 DEF Typed, HolderAttaches, desk, people
  <2>5. GrantStep(c, a)
    BY <1>2, <1>4, <2>1, <2>2, <2>3 DEF GrantStep, HolderAttaches
  <2> QED  BY <2>1, <2>4, <2>5
<1>5. ASSUME NEW p \in Nat, NEW k \in Nat, NEW b \in BOOLEAN, Reply(c, Answer("attached", p, k, b)),
             UNCHANGED <<lease, allocated, tokens>>, p = 0 \/ (First(c).n # 1 /\ p = lease.epoch)
      PROVE  Typed' /\ \E a \in Answers : AnswerStep(c, a)
  <2> DEFINE a == Answer("attached", p, k, b)
  <2>1. a \in Answers /\ a.kind = "attached" /\ a.epoch = p
    <3>1. CASE b  BY <1>1, <1>3, <3>1 DEF Answer, Answers
    <3>2. CASE ~b  BY <1>1, <1>3, <3>2 DEF Answer, Answers
    <3> QED  BY <3>1, <3>2
  <2> HIDE DEF a
  <2>2. toClient' \in Seq(Answers) /\ ReplyIs(c, a)  BY <1>5, <2>1, ReplyGives DEF a
  <2>3. Typed'
    BY <1>2, <1>5, <2>2 DEF Typed, HolderAttaches, desk, people
  <2>4. AnswerStep(c, a)
    BY <1>2, <1>5, <2>1, <2>2 DEF AnswerStep, HolderAttaches, Counted
  <2> QED  BY <2>1, <2>3, <2>4
<1>6. CASE /\ First(c).n = 1 /\ lease.epoch # 0 /\ Reply(c, Answer("attached", 0, 0, TRUE))
           /\ UNCHANGED <<lease, allocated, tokens>>
  BY <1>5, <1>6
<1>7. CASE /\ First(c).n = 0
           /\ Reply(c, Answer("attached", lease.epoch, lease.token, lease.owner = c))
           /\ UNCHANGED <<lease, allocated, tokens>>
  <2> DEFINE b == lease.owner = c
  <2>1. b \in BOOLEAN /\ Reply(c, Answer("attached", lease.epoch, lease.token, b))  BY <1>7
  <2> HIDE DEF b
  <2> QED  BY <1>1, <1>5, <1>7, <2>1
<1> QED  BY <1>2, <1>4, <1>6, <1>7 DEF HolderAttaches

LEMMA GrantsIs ==
  ASSUME Typed, NEW c \in Links, toHolder[c] # <<>>, HolderGrants(c)
  PROVE  Typed' /\ \E a \in Answers : GrantStep(c, a) \/ AnswerStep(c, a)
<1> DEFINE e == allocated + 1
           t == tokens + 1
<1>1. /\ allocated \in Nat /\ tokens \in Nat /\ t \in Nat /\ e \in Nat /\ c \in 0..Other
  BY Bounds DEF Typed
<1>2. /\ toHolder' \in [Links -> Seq(Frames)] /\ Reading(c) /\ Head(toHolder[c]) = First(c)
  BY TakenIs DEF HolderGrants, Reading, Quietly, desk, people, First
<1>3. "acquired" \in AnswerKinds  BY Kinds
<1>4. CASE /\ lease.epoch = 0 /\ Granted(c)
           /\ Reply(c, Answer("acquired", allocated + 1, tokens + 1, TRUE))
  <2> DEFINE a == Answer("acquired", e, t, TRUE)
  <2>1. a \in Answers /\ a.kind = "acquired" /\ a.epoch = e
    <3> HIDE DEF t, e
    <3> QED  BY <1>1, <1>3 DEF Answer, Answers
  <2> HIDE DEF a
  <2>2. toClient' \in Seq(Answers) /\ ReplyIs(c, a)  BY <1>4, <2>1, ReplyGives DEF a
  <2>3. NewLease(c) /\ allocated' \in Nat /\ tokens' \in Nat /\ lease' \in Leases
    BY <1>1, <1>4, GrantedIs
  <2>4. Typed'
    BY <1>2, <2>2, <2>3 DEF Typed, HolderGrants, desk, people
  <2>5. GrantStep(c, a)
    BY <1>2, <1>4, <2>1, <2>2, <2>3 DEF GrantStep, HolderGrants
  <2> QED  BY <2>1, <2>4, <2>5
<1>5. CASE Reply(c, Answer("acquired", 0, 0, FALSE)) /\ UNCHANGED <<lease, allocated, tokens>>
  <2> DEFINE a == Answer("acquired", 0, 0, FALSE)
  <2>1. a \in Answers /\ a.kind = "acquired" /\ a.epoch = 0 /\ ~a.ok
    BY <1>3 DEF Answer, Answers
  <2> HIDE DEF a
  <2>2. toClient' \in Seq(Answers) /\ ReplyIs(c, a)  BY <1>5, <2>1, ReplyGives DEF a
  <2>3. Typed'
    BY <1>2, <1>5, <2>2 DEF Typed, HolderGrants, desk, people
  <2>4. AnswerStep(c, a)
    BY <1>2, <1>5, <2>1, <2>2 DEF AnswerStep, HolderGrants, Counted
  <2> QED  BY <2>1, <2>3, <2>4
<1> QED  BY <1>4, <1>5 DEF HolderGrants

LEMMA ReleasesIs ==
  ASSUME Typed, NEW c \in Links, toHolder[c] # <<>>, HolderReleases(c)
  PROVE  Typed' /\ \E a \in Answers : ReleaseStep(c, a)
<1>1. lease.epoch \in Nat /\ LeaseHas(FreeLease, 0, 0, 0, 0, 0, FALSE, 0)
  BY Blank DEF Typed, Leases
<1>2. /\ toHolder' \in [Links -> Seq(Frames)] /\ Reading(c) /\ Head(toHolder[c]) = First(c)
  BY TakenIs DEF HolderReleases, Reading, Quietly, desk, people, First
<1> DEFINE a == Answer("released", lease.epoch, 0, TRUE)
<1>3. a \in Answers /\ a.kind = "released" /\ a.epoch = lease.epoch
  <2>1. "released" \in AnswerKinds  BY Kinds
  <2> QED  BY <1>1, <2>1 DEF Answer, Answers
<1> HIDE DEF a
<1>4. toClient' \in Seq(Answers) /\ ReplyIs(c, a)  BY <1>3, ReplyGives DEF a, HolderReleases
<1>5. LeaseHas(lease', 0, 0, 0, 0, 0, FALSE, 0)  BY <1>1 DEF HolderReleases
<1>6. Typed'
  BY <1>2, <1>4, <1>5 DEF Typed, HolderReleases, desk, people, LeaseHas
<1>7. ReleaseStep(c, a)
  BY <1>2, <1>3, <1>4, <1>5 DEF ReleaseStep, HolderReleases, Counted
<1> QED  BY <1>3, <1>6, <1>7

(* The answer that ends a connection, and a receipt. *)
LEMMA CloseIs ==
  /\ Answer("close", 0, 0, FALSE) \in Answers /\ Answer("close", 0, 0, FALSE).kind = "close"
  /\ Answer("close", 0, 0, FALSE).epoch = 0
<1>1. "close" \in AnswerKinds  BY Kinds
<1> QED  BY <1>1 DEF Answer, Answers

LEMMA ReceiptIs ==
  ASSUME NEW f \in Frames, NEW b \in BOOLEAN
  PROVE  /\ Receipt(f, b) \in Answers /\ Receipt(f, b).kind = "receipt"
         /\ Receipt(f, b).epoch = f.epoch /\ Receipt(f, b).n = f.n /\ (Receipt(f, b).ok <=> b)
<1>1. "receipt" \in AnswerKinds /\ f.epoch \in Nat /\ f.n \in Nat  BY Kinds DEF Frames
<1>2. CASE b  BY <1>1, <1>2 DEF Receipt, Answer, Answers
<1>3. CASE ~b  BY <1>1, <1>3 DEF Receipt, Answer, Answers
<1> QED  BY <1>2, <1>3

LEMMA InputIs ==
  ASSUME Typed, NEW c \in Links, toHolder[c] # <<>>, HolderInput(c), c \notin ended
  PROVE  Typed' /\ (WriteStep(c) \/ \E a \in Answers : RefuseStep(c, a) \/ RepeatStep(c, a))
<1> DEFINE f == First(c)
           i == f.item
           n == f.n
<1>1. /\ toHolder' \in [Links -> Seq(Frames)] /\ Reading(c) /\ Head(toHolder[c]) = f
      /\ f \in Frames
  BY TakenIs DEF HolderInput, Reading, Quietly, desk, people, First
<1>2. /\ lease \in Leases /\ i \in Item /\ n \in Nat /\ f.epoch \in Nat
      /\ lease.ok \in BOOLEAN /\ writer \in Seq(Writes)
      /\ touched \in BOOLEAN /\ slot.timed \in BOOLEAN /\ faults \in Nat
  BY <1>1 DEF Typed, Leases, Frames, Slots
<1>3. InputRead(c)  BY <1>1 DEF InputRead, HolderInput, Counted
<1>4. touched' \in BOOLEAN /\ faults' \in Nat
  <2>1. touched' \in BOOLEAN  BY DEF HolderInput
  <2>2. faults' = faults \/ faults' = faults + 1
    BY Zenon DEF HolderInput, Fault
  <2>3. faults' \in Nat  BY <1>2, <2>2
  <2> QED  BY <2>1, <2>3
<1>5. UNCHANGED <<made, hidden, client, link, slot, allocated, tokens, ended, written, fate>>
  BY DEF HolderInput, desk, people
<1>6. CASE /\ IsNext(f) /\ lease' = [lease EXCEPT !.inflight = f.item]
           /\ writer' = Append(writer, [epoch |-> f.epoch, item |-> f.item, conn |-> c])
           /\ UNCHANGED <<toClient, faults>>
  <2> DEFINE w == [epoch |-> f.epoch, item |-> i, conn |-> c]
  <2>1. w \in Writes  BY <1>2 DEF Writes
  <2> HIDE DEF w
  <2>2. Append(writer, w) \in Seq(Writes) /\ Adds(Append(writer, w), writer, w)
    BY <1>2, <2>1, AppendAdds
  <2>3. LeaseHas(lease', lease.epoch, lease.owner, lease.token, lease.high, lease.item, lease.ok, i)
    <3> HIDE DEF i
    <3>1. LeaseHas([lease EXCEPT !.inflight = i],
                   lease.epoch, lease.owner, lease.token, lease.high, lease.item, lease.ok, i)
      BY <1>2 DEF LeaseHas, Leases
    <3> QED  BY <1>6, <3>1 DEF i
  <2>4. Typed'
    BY <1>1, <1>4, <1>5, <1>6, <2>2, <2>3 DEF Typed, LeaseHas, w
  <2>5. WriteStep(c)
    BY <1>3, <1>6, <2>2, <2>3 DEF WriteStep, w
  <2> QED  BY <2>4, <2>5
<1>7. CASE /\ IsNext(f) /\ lease' = [lease EXCEPT !.high = f.n, !.item = f.item, !.ok = FALSE]
           /\ Reply(c, Receipt(f, FALSE)) /\ writer' = writer
  <2> DEFINE a == Receipt(f, FALSE)
  <2>1. a \in Answers  BY <1>1, ReceiptIs
  <2>2. toClient' \in Seq(Answers) /\ ReplyIs(c, a)  BY <1>7, <2>1, ReplyGives
  <2>3. LeaseHas(lease', lease.epoch, lease.owner, lease.token, n, i, FALSE, 0)
    <3> HIDE DEF i, n
    <3>1. LeaseHas([lease EXCEPT !.high = n, !.item = i, !.ok = FALSE],
                   lease.epoch, lease.owner, lease.token, n, i, FALSE, lease.inflight)
      BY <1>2 DEF LeaseHas, Leases
    <3> QED  BY <1>7, <3>1 DEF i, n, IsNext
  <2> HIDE DEF a
  <2>4. Typed'
    BY <1>1, <1>2, <1>4, <1>5, <1>7, <2>2, <2>3 DEF Typed, LeaseHas
  <2>5. RefuseStep(c, a)
    BY <1>3, <1>7, <2>2, <2>3 DEF RefuseStep, a
  <2> QED  BY <2>1, <2>4, <2>5
<1>8. ASSUME NEW b \in BOOLEAN, UNCHANGED <<lease, writer, faults>>,
             toClient' = toClient \/ (Reply(c, Receipt(f, b)) /\ (b => f.item = lease.item /\ lease.ok))
      PROVE  Typed' /\ \E a \in Answers : RepeatStep(c, a)
  <2> DEFINE a == Receipt(f, b)
  <2>1. a \in Answers  BY <1>1, ReceiptIs
  <2>2. toClient' \in Seq(Answers) /\ (toClient' = toClient \/ ReplyIs(c, a))
    <3>1. CASE toClient' = toClient  BY <3>1 DEF Typed
    <3>2. CASE Reply(c, a)  BY <2>1, <3>2, ReplyGives
    <3> QED  BY <1>8, <3>1, <3>2
  <2>3. a = Receipt(f, FALSE) \/ (a = Receipt(f, lease.ok) /\ f.item = lease.item) \/ toClient' = toClient
    <3>1. CASE ~b
      <4>1. b = FALSE  BY <3>1
      <4> QED  BY <4>1
    <3>2. CASE b /\ toClient' # toClient
      <4>1. b = lease.ok  BY <1>2, <1>8, <3>2
      <4> QED  BY <1>8, <3>2, <4>1
    <3> QED  BY <3>1, <3>2
  <2> HIDE DEF a
  <2>4. Typed'
    BY <1>1, <1>2, <1>4, <1>5, <1>8, <2>2 DEF Typed
  <2>5. RepeatStep(c, a)
    BY <1>3, <1>8, <2>2, <2>3 DEF RepeatStep
  <2> QED  BY <2>1, <2>4, <2>5
<1>9. CASE UNCHANGED <<lease, writer, toClient, faults>>
  BY <1>8, <1>9
<1>10. CASE /\ IsLast(f) /\ Reply(c, Receipt(f, lease.ok)) /\ UNCHANGED <<lease, writer, faults>>
  <2>1. f.item = lease.item  BY <1>10 DEF IsLast
  <2> QED  BY <1>2, <1>8, <1>10, <2>1
<1>11. CASE Reply(c, Receipt(f, FALSE)) /\ UNCHANGED <<lease, writer, faults>>
  BY <1>8, <1>11
<1> QED  BY <1>1, <1>6, <1>7, <1>9, <1>10, <1>11 DEF HolderInput

(* What the end of a connection, or its refusal, does. *)
LEMMA OwnerlessIs ==
  ASSUME Typed, NEW c \in Links, lease' = Ownerless(c)
  PROVE  /\ lease' = lease \/ (lease.owner = c /\ SameLease(0, lease.token))
         /\ lease' \in Leases
<1>1. lease \in Leases  BY DEF Typed
<1>2. CASE lease.owner = c
  <2>1. LeaseHas([lease EXCEPT !.owner = 0], lease.epoch, 0, lease.token, lease.high, lease.item,
                 lease.ok, lease.inflight)
    BY <1>1, Bounds DEF LeaseHas, Leases
  <2>2. SameLease(0, lease.token)  BY <1>2, <2>1 DEF Ownerless, SameLease
  <2> QED  BY <1>2, <2>2 DEF SameLease, LeaseHas
<1>3. CASE lease.owner # c  BY <1>1, <1>3 DEF Ownerless
<1> QED  BY <1>2, <1>3

LEMMA PassesIs ==
  ASSUME Typed, NEW c \in Links, toHolder[c] # <<>>,
         HolderDisconnects(c) \/ HolderRefuses(c) \/ HolderIgnores(c)
  PROVE  Typed' /\ \E a \in Answers : PassStep(c, a)
<1> DEFINE a == Answer("close", 0, 0, FALSE)
<1>1. a \in Answers /\ a.kind = "close" /\ a.epoch = 0  BY CloseIs
<1>2. lease \in Leases /\ ended \subseteq Links /\ toClient \in Seq(Answers)  BY DEF Typed
<1>3. CASE HolderDisconnects(c)
  <2>1. toHolder' \in [Links -> Seq(Frames)] /\ Reading(c)
    BY <1>3, TakenIs DEF HolderDisconnects, Reading, Quietly, desk, people
  <2>2. /\ lease' = lease \/ (lease.owner = c /\ SameLease(0, lease.token))
        /\ lease' \in Leases
    BY <1>3, OwnerlessIs DEF HolderDisconnects
  <2> HIDE DEF a
  <2>3. Typed'  BY <1>3, <2>1, <2>2 DEF Typed, HolderDisconnects, desk, people
  <2>4. PassStep(c, a)
    BY <1>1, <1>3, <2>1, <2>2 DEF PassStep, HolderDisconnects, Counted
  <2> QED  BY <1>1, <2>3, <2>4
<1>4. CASE HolderRefuses(c)
  <2>1. toHolder' \in [Links -> Seq(Frames)] /\ Reading(c)
    BY <1>4, TakenIs DEF HolderRefuses, Reading, Quietly, desk, people
  <2>2. toClient' \in Seq(Answers) /\ ReplyIs(c, a)  BY <1>1, <1>4, ReplyGives DEF HolderRefuses
  <2> HIDE DEF a
  <2>3. Typed'  BY <1>2, <1>4, <2>1, <2>2 DEF Typed, HolderRefuses, desk, people
  <2>4. PassStep(c, a)
    BY <1>1, <1>4, <2>1, <2>2 DEF PassStep, HolderRefuses, Counted
  <2> QED  BY <1>1, <2>3, <2>4
<1>5. CASE HolderIgnores(c)
  <2>1. toHolder' \in [Links -> Seq(Frames)] /\ Reading(c)
    BY <1>5, TakenIs DEF HolderIgnores, Reading, Quietly, desk, people, holder
  <2> HIDE DEF a
  <2>2. Typed'  BY <1>5, <2>1 DEF Typed, HolderIgnores, desk, people, holder
  <2>3. PassStep(c, a)
    BY <1>1, <1>5, <2>1 DEF PassStep, HolderIgnores, Counted, holder
  <2> QED  BY <1>1, <2>2, <2>3
<1> QED  BY <1>3, <1>4, <1>5

LEMMA HolderReadsIs ==
  ASSUME Typed, NEW c \in Links, HolderReads(c)
  PROVE  /\ Typed'
         /\ \/ WriteStep(c)
            \/ \E a \in Answers :
                 \/ GrantStep(c, a) \/ ResumeStep(c, a) \/ AnswerStep(c, a) \/ ReleaseStep(c, a)
                 \/ PassStep(c, a) \/ RefuseStep(c, a) \/ RepeatStep(c, a)
<1>1. toHolder[c] # <<>>  BY DEF HolderReads
<1>2. CASE HolderIgnores(c) \/ HolderDisconnects(c) \/ HolderRefuses(c)
  BY <1>1, <1>2, PassesIs
<1>3. CASE HolderResumes(c)  BY <1>1, <1>3, ResumesIs
<1>4. CASE HolderAttaches(c)  BY <1>1, <1>4, AttachesIs
<1>5. CASE HolderGrants(c)  BY <1>1, <1>5, GrantsIs
<1>6. CASE HolderReleases(c)  BY <1>1, <1>6, ReleasesIs
<1>7. CASE HolderInput(c) /\ c \notin ended  BY <1>1, <1>7, InputIs
<1> QED  BY <1>2, <1>3, <1>4, <1>5, <1>6, <1>7 DEF HolderReads

LEMMA CompletesIs ==
  ASSUME Typed, WriteCompletes
  PROVE  Typed' /\ \E a \in Answers : DoneStep(a) \/ LateStep(a)
<1> DEFINE w == writer[1]
           i == w.item
           h == lease.high + 1
<1>1. lease \in Leases /\ writer \in Seq(Writes) /\ written \in Seq(Item) /\ writer # <<>>
  BY DEF Typed, WriteCompletes
<1>2. /\ Tail(writer) \in Seq(Writes) /\ Drops(Tail(writer), writer) /\ Head(writer) = w
      /\ w \in Writes
  BY <1>1, TailDrops
<1>3. i \in Item /\ w.epoch \in Nat /\ w.conn \in Links /\ h \in Nat /\ lease.high \in Nat
  BY <1>1, <1>2 DEF Writes, Leases
<1>4. Append(written, i) \in Seq(Item) /\ Adds(Append(written, i), written, i)
  BY <1>1, <1>3, AppendAdds
<1>5. /\ Quietly /\ Counted /\ toHolder' = toHolder /\ touched' = touched /\ faults' = faults
      /\ writer' = Tail(writer) /\ written' = Append(written, i)
  BY <1>2 DEF WriteCompletes, Quietly, Counted, desk, people
<1>6. CASE /\ lease.epoch = w.epoch /\ lease.inflight = w.item
           /\ lease' = [lease EXCEPT !.high = @ + 1, !.item = w.item, !.ok = TRUE, !.inflight = 0]
           /\ Reply(lease.owner, Answer("receipt", w.epoch, lease.high + 1, TRUE))
           /\ UNCHANGED ended
  <2> DEFINE a == Answer("receipt", w.epoch, h, TRUE)
  <2>1. a \in Answers
    <3>1. "receipt" \in AnswerKinds  BY Kinds
    <3> HIDE DEF h, w
    <3> QED  BY <1>3, <3>1 DEF Answer, Answers
  <2> HIDE DEF a
  <2>2. toClient' \in Seq(Answers) /\ ReplyIs(lease.owner, a)  BY <1>6, <2>1, ReplyGives DEF a
  <2>3. LeaseHas(lease', lease.epoch, lease.owner, lease.token, h, i, TRUE, 0)
    <3>1. lease' = [lease EXCEPT !.high = h, !.item = i, !.ok = TRUE, !.inflight = 0]
      BY <1>6
    <3> HIDE DEF i, h
    <3>2. LeaseHas([lease EXCEPT !.high = h, !.item = i, !.ok = TRUE, !.inflight = 0],
                   lease.epoch, lease.owner, lease.token, h, i, TRUE, 0)
      BY <1>1, <1>3, Bounds DEF LeaseHas, Leases
    <3> QED  BY <3>1, <3>2
  <2>4. Typed'
    BY <1>2, <1>4, <1>5, <1>6, <2>2, <2>3 DEF Typed, LeaseHas, Quietly, Counted
  <2>5. DoneStep(a)
    BY <1>1, <1>2, <1>4, <1>5, <1>6, <2>2, <2>3 DEF DoneStep, a
  <2> QED  BY <2>1, <2>4, <2>5
<1>7. CASE /\ ~(lease.epoch = w.epoch /\ lease.inflight = w.item)
           /\ lease' = Ownerless(w.conn) /\ ended' = ended \cup {w.conn}
           /\ Reply(w.conn, Answer("close", 0, 0, FALSE))
  <2> DEFINE a == Answer("close", 0, 0, FALSE)
  <2>1. a \in Answers /\ a.kind = "close" /\ a.epoch = 0  BY CloseIs
  <2> HIDE DEF a
  <2>2. toClient' \in Seq(Answers) /\ ReplyIs(w.conn, a)  BY <1>7, <2>1, ReplyGives DEF a
  <2>3. /\ lease' = lease \/ (lease.owner = w.conn /\ SameLease(0, lease.token))
        /\ lease' \in Leases
    BY <1>3, <1>7, OwnerlessIs
  <2>4. Typed'
    BY <1>2, <1>3, <1>4, <1>5, <1>7, <2>2, <2>3 DEF Typed, Quietly, Counted
  <2>5. LateStep(a)
    BY <1>1, <1>2, <1>4, <1>5, <1>7, <2>1, <2>2, <2>3 DEF LateStep
  <2> QED  BY <2>1, <2>4, <2>5
<1> QED  BY <1>2, <1>6, <1>7 DEF WriteCompletes

LEMMA AloneIs ==
  ASSUME Typed, LeaseExpires \/ OtherTakes \/ OtherLeaves
  PROVE  Typed' /\ AloneStep
<1>1. LeaseHas(FreeLease, 0, 0, 0, 0, 0, FALSE, 0)
  <2>1. client.conn \in Links  BY DEF Typed, Clients
  <2> QED  BY <2>1, Blank
<1>2. faults' \in Nat
  BY DEF Typed, LeaseExpires, OtherTakes, OtherLeaves, Fault
<1>3. CASE LeaseExpires \/ OtherLeaves
  <2>1. LeaseHas(lease', 0, 0, 0, 0, 0, FALSE, 0)  BY <1>1, <1>3 DEF LeaseExpires, OtherLeaves
  <2>2. Typed'
    BY <1>2, <1>3, <2>1 DEF Typed, LeaseExpires, OtherLeaves, LeaseHas, desk, people
  <2>3. AloneStep
    BY <1>3, <2>1 DEF AloneStep, LeaseExpires, OtherLeaves, Quietly, Counted, desk, people
  <2> QED  BY <2>2, <2>3
<1>4. CASE OtherTakes
  <2>1. NewLease(Other) /\ allocated' \in Nat /\ tokens' \in Nat /\ lease' \in Leases
    <3>1. Other \in 0..Other  BY Bounds
    <3> QED  BY <1>4, <3>1, GrantedIs DEF OtherTakes
  <2>2. Typed'
    BY <1>2, <1>4, <2>1 DEF Typed, OtherTakes, desk, people
  <2>3. AloneStep
    BY <1>4, <2>1 DEF AloneStep, OtherTakes, Quietly, desk, people
  <2> QED  BY <2>2, <2>3
<1> QED  BY <1>3, <1>4

-----------------------------------------------------------------------------
(* What the holder's steps keep because they leave the desk alone. *)

Hears(a) == toClient' = toClient \/ (Open /\ Adds(toClient', toClient, a))

LEMMA ReplyHears ==
  ASSUME NEW c, NEW a, ReplyIs(c, a)
  PROVE  Hears(a)
BY DEF ReplyIs, Hears, Adds

LEMMA FewerNone ==
  ASSUME Typed, toHolder' = toHolder, NEW c
  PROVE  Fewer(c, 0)
<1>1. \A d \in Links : toHolder[d] \in Seq(Frames) /\ Len(toHolder[d]) \in Nat  BY DEF Typed
<1>2. \A d \in Links : \A k \in 1..Len(toHolder[d]) : k + 0 = k  BY <1>1
<1> QED  BY <1>1, <1>2 DEF Fewer

LEMMA InputsFewer ==
  ASSUME Typed, NEW c \in Links, NEW s \in {0, 1}, Fewer(c, s), NEW d \in Links
  PROVE  /\ \A k \in InputsOf(d)' :
              /\ k + Shift(c, s, d) \in InputsOf(d)
              /\ toHolder'[d][k] = toHolder[d][k + Shift(c, s, d)]
         /\ InputsOf(d) = {} => InputsOf(d)' = {}
<1>1. ASSUME NEW k \in InputsOf(d)'
      PROVE  k + Shift(c, s, d) \in InputsOf(d) /\ toHolder'[d][k] = toHolder[d][k + Shift(c, s, d)]
  <2>0. PICK K : K = {"input"}  OBVIOUS
  <2>1. k \in AtOf(d, K)'  BY <2>0 DEF InputsOf
  <2>2. /\ k + Shift(c, s, d) \in AtOf(d, K)
        /\ toHolder'[d][k] = toHolder[d][k + Shift(c, s, d)]
    <3>1. "eof" \notin K  BY <2>0
    <3> QED  BY <2>1, <3>1, FewerAt
  <2> QED  BY <2>0, <2>2 DEF InputsOf
<1> QED  BY <1>1

LEMMA StagedHolder ==
  ASSUME Typed, Staged, Quietly, NEW c \in Links, NEW s \in {0, 1}, Fewer(c, s),
         NEW a, Hears(a)
  PROVE  Staged'
<1>1. client.conn \in Links  BY DEF Typed, Clients
<1>2. InputsOf(client.conn) = {} => InputsOf(client.conn)' = {}
  <2> DEFINE d == client.conn
  <2>1. d \in Links  BY <1>1
  <2> HIDE DEF d
  <2>2. InputsOf(d) = {} => InputsOf(d)' = {}
    <3>0. PICK e \in Links : e = d  BY <2>1
    <3>1. InputsOf(e) = {} => InputsOf(e)' = {}  BY InputsFewer
    <3>2. d' = d  BY DEF d, Quietly
    <3> QED  BY <3>0, <3>1, <3>2
  <2> QED  BY <2>2 DEF d
<1>3. client' = client /\ link' = link /\ slot' = slot  BY DEF Quietly
<1>4. client.phase = "closed" => toClient' = <<>>
  BY DEF Staged, Hears, Open
<1> QED  BY <1>2, <1>3, <1>4 DEF Staged, Attached, Recovering

LEMMA DeskSame ==
  ASSUME Quietly
  PROVE  /\ Waiting' = Waiting /\ Pending' = Pending /\ Attached' = Attached
         /\ Recovering' = Recovering /\ Open' = Open /\ AtRest' = AtRest
         /\ \A x : BeforeWaiting(x)' <=> BeforeWaiting(x)
<1>1. client' = client /\ link' = link /\ slot' = slot /\ made' = made  BY DEF Quietly
<1>2. Waiting' = Waiting  BY <1>1 DEF Waiting, ItemsOf
<1>3. Pending' = Pending  BY <1>1 DEF Pending
<1>4. Attached' = Attached /\ Recovering' = Recovering /\ Open' = Open /\ AtRest' = AtRest
  BY <1>1 DEF Attached, Recovering, Open, AtRest
<1>5. \A x : BeforeWaiting(x)' <=> BeforeWaiting(x)  BY <1>1, <1>2 DEF BeforeWaiting
<1> QED  BY <1>2, <1>3, <1>4, <1>5

(* What is on the wire becomes less, and is on its way or done. *)
LEMMA WireFewer ==
  ASSUME Typed, NEW c \in Links, NEW s \in {0, 1}, Fewer(c, s), ended \subseteq ended',
         writer' = writer, NEW i
  PROVE  OnWire(i)' => OnWire(i)
<1>1. ASSUME NEW d \in Links \ ended', NEW k \in 1..Len(toHolder'[d]),
             toHolder'[d][k].kind = "input", toHolder'[d][k].item = i
      PROVE  OnWire(i)
  <2>1. k \in InputsOf(d)'  BY <1>1 DEF InputsOf, AtOf
  <2>2. /\ k + Shift(c, s, d) \in InputsOf(d)
        /\ toHolder'[d][k] = toHolder[d][k + Shift(c, s, d)]
    BY <2>1, InputsFewer
  <2> QED  BY <1>1, <2>2 DEF OnWire, InputsOf, AtOf
<1> QED  BY <1>1 DEF OnWire

LEMMA OrderHolder ==
  ASSUME Typed, InOrder, Settled, Quietly, writer' = writer, written' = written,
         ended \subseteq ended', NEW c \in Links, NEW s \in {0, 1}, Fewer(c, s)
  PROVE  InOrder' /\ Settled'
<1>1. /\ client' = client /\ link' = link /\ slot' = slot /\ made' = made /\ fate' = fate
      /\ Done' = Done
  BY DEF Quietly, Done, ItemsOf
<1>2. ASSUME NEW d \in Links, NEW k \in InputsOf(d)'
      PROVE  toHolder'[d][k].item # 0 /\ BeforeWaiting(toHolder'[d][k].item)
  <2>1. /\ k + Shift(c, s, d) \in InputsOf(d)
        /\ toHolder'[d][k] = toHolder[d][k + Shift(c, s, d)]
    BY InputsFewer
  <2> QED  BY <2>1 DEF InOrder
<1>3. InOrder'
  BY <1>1, <1>2, DeskSame DEF InOrder, Increasing, WrittenInOrder
<1>4. Settled'
  BY <1>1, DeskSame, WireFewer DEF Settled, ItemsOf
<1> QED  BY <1>3, <1>4

LEMMA ToldMore ==
  ASSUME Typed, NEW a, Hears(a), NEW K, NEW k \in Told(K)'
  PROVE  \/ k \in Told(K) /\ toClient'[k] = toClient[k]
         \/ /\ Open /\ a.kind \in K /\ k = Len(toClient) + 1 /\ toClient'[k] = a
            /\ Adds(toClient', toClient, a)
<1>1. toClient \in Seq(Answers) /\ Len(toClient) \in Nat  BY DEF Typed
<1>2. CASE toClient' = toClient  BY <1>2 DEF Told
<1>3. CASE Open /\ Adds(toClient', toClient, a)  BY <1>1, <1>3 DEF Told, Adds
<1> QED  BY <1>2, <1>3 DEF Hears

LEMMA AsksFewer ==
  ASSUME Typed, NEW c \in Links, NEW s \in {0, 1}, Fewer(c, s), NEW d \in Links,
         NEW K \in {Asks, {"release"}}, NEW k \in AtOf(d, K)'
  PROVE  k + Shift(c, s, d) \in AtOf(d, K) /\ toHolder'[d][k] = toHolder[d][k + Shift(c, s, d)]
<1>1. "eof" \notin K  BY DEF Asks
<1> QED  BY <1>1, FewerAt

(* Questions keep their order before inputs. *)
LEMMA OrderedFewer ==
  ASSUME Typed, Questions, NEW c \in Links, NEW s \in {0, 1}, Fewer(c, s)
  PROVE  \A d \in Links : \A j \in AtOf(d, Asks)', k \in InputsOf(d)' : k < j
<1> SUFFICES ASSUME NEW d \in Links, NEW j \in AtOf(d, Asks)', NEW k \in InputsOf(d)'
             PROVE  k < j
  OBVIOUS
<1>1. j + Shift(c, s, d) \in AtOf(d, Asks)  BY AsksFewer
<1>2. k + Shift(c, s, d) \in InputsOf(d)  BY InputsFewer
<1>3. k + Shift(c, s, d) < j + Shift(c, s, d)  BY <1>1, <1>2 DEF Questions
<1>4. j \in Int /\ k \in Int /\ Shift(c, s, d) \in Int  BY DEF AtOf, InputsOf, Shift
<1> QED  BY <1>3, <1>4

LEMMA SingleBack ==
  ASSUME NEW S, NEW T, NEW n \in Int, Single(S), \A k \in T : k \in Int /\ k + n \in S
  PROVE  \A j, k \in T : j = k
<1> SUFFICES ASSUME NEW j \in T, NEW k \in T PROVE j = k
  OBVIOUS
<1>1. j + n = k + n /\ j \in Int /\ k \in Int  BY DEF Single
<1> QED  BY <1>1

LEMMA QuestionsPlain ==
  ASSUME Typed, Questions, Quietly, NEW c \in Links, NEW s \in {0, 1}, Fewer(c, s),
         NEW a, a.kind \in {"close", "receipt"}, Hears(a)
  PROVE  Questions'
<1>1. client' = client /\ link' = link /\ slot' = slot  BY DEF Quietly
<1>2. PICK d \in Links : d = client.conn  BY DEF Typed, Clients
<1>3. \A k \in Asking' : /\ k + Shift(c, s, d) \in Asking
                         /\ toHolder'[d][k] = toHolder[d][k + Shift(c, s, d)]
  BY <1>1, <1>2, AsksFewer DEF Asking
<1>4. \A k \in Giving' : /\ k + Shift(c, s, d) \in Giving
  BY <1>1, <1>2, AsksFewer DEF Giving
<1>5. InputsOf(d) = {} => InputsOf(d)' = {}  BY InputsFewer
<1>6. \A k \in Told(Grants)' : k \in Told(Grants) /\ toClient'[k] = toClient[k]
  <2>1. a.kind \notin Grants  BY DEF Grants
  <2> QED  BY <2>1, ToldMore
<1>7. \A k \in Told({"released"})' : k \in Told({"released"})
  BY ToldMore
<1>8. \A k : k \in Asking' \/ k \in Giving' => k \in Int
  BY DEF Asking, Giving, AtOf
<1>9. Shift(c, s, d) \in Int  BY DEF Shift
<1>10. Single(Asking) => Single(Asking)'
  <2>1. \A k \in Asking' : k \in Int /\ k + Shift(c, s, d) \in Asking  BY <1>3, <1>8
  <2>2. Single(Asking) => \A j, k \in Asking' : j = k  BY <1>9, <2>1, SingleBack
  <2> QED  BY <2>2 DEF Single
<1>11. Single(Giving) => Single(Giving)'
  <2>1. \A k \in Giving' : k \in Int /\ k + Shift(c, s, d) \in Giving  BY <1>4, <1>8
  <2>2. Single(Giving) => \A j, k \in Giving' : j = k  BY <1>9, <2>1, SingleBack
  <2> QED  BY <2>2 DEF Single
<1>12. Single(Told(Grants)) => Single(Told(Grants))'  BY <1>6 DEF Single
<1>13. Single(Told({"released"})) => Single(Told({"released"}))'  BY <1>7 DEF Single
<1>14. \A f : Question(f)' <=> Question(f)  BY <1>1 DEF Question, Attached
<1>15. \A x : Reaction(x)' <=> Reaction(x)  BY <1>1 DEF Reaction, Attached
<1>16. (Open' <=> Open) /\ (AtRest' <=> AtRest)  BY DeskSame
<1>17. Open => \A k \in Asking' : ~AtRest /\ Question(toHolder'[d][k])
  BY <1>2, <1>3 DEF Questions
<1>18. \A k \in Told(Grants)' : ~AtRest /\ Reaction(toClient'[k])
  BY <1>6 DEF Questions
<1>19. Open /\ Asking' # {} => Told(Grants)' = {}
  BY <1>3, <1>6 DEF Questions
<1>20. Told(Grants)' # {} => InputsOf(d)' = {}
  BY <1>2, <1>5, <1>6 DEF Questions
<1>21. Open /\ Giving' # {} => link.reset = "releasing" /\ Told({"released"})' = {}
  BY <1>4, <1>7 DEF Questions
<1>22. Told({"released"})' # {} => link.reset = "releasing"
  BY <1>7 DEF Questions
<1>23. \A e \in Links : \A j \in AtOf(e, Asks)', k \in InputsOf(e)' : k < j
  BY OrderedFewer
<1>24. /\ Open => Single(Asking)' /\ Single(Giving)'
       /\ Single(Told(Grants))' /\ Single(Told({"released"}))'
  BY <1>10, <1>11, <1>12, <1>13 DEF Questions
<1> QED
  BY <1>1, <1>2, <1>14, <1>15, <1>16, <1>17, <1>18, <1>19, <1>20, <1>21, <1>22, <1>23, <1>24
     DEF Questions

(* A question is the last of its connection and is read once. *)
LEMMA AskLast ==
  ASSUME Typed, Questions, NEW c \in Links, Reading(c), First(c).kind \in Asks
  PROVE  /\ InputsOf(c) = {} /\ InputsOf(c)' = {}
         /\ c = client.conn /\ Open =>
              /\ 1 \in Asking /\ Asking' = {} /\ Told(Grants) = {} /\ ~AtRest /\ Question(First(c))
<1>1. 1 \in AtOf(c, Asks)  BY DEF AtOf, First, Reading
<1>2. InputsOf(c) = {}
  <2>1. ASSUME NEW k \in InputsOf(c) PROVE FALSE
    <3>1. k < 1  BY <1>1 DEF Questions
    <3> QED  BY <3>1 DEF InputsOf, AtOf
  <2> QED  BY <2>1
<1>3. Fewer(c, 1) /\ client' = client  BY DEF Reading, Quietly
<1>4. InputsOf(c)' = {}  BY <1>2, <1>3, InputsFewer
<1>5. ASSUME c = client.conn, Open
      PROVE  1 \in Asking /\ Asking' = {} /\ Told(Grants) = {} /\ ~AtRest /\ Question(First(c))
  <2>1. 1 \in Asking  BY <1>1, <1>5 DEF Asking
  <2>2. Told(Grants) = {} /\ Single(Asking) /\ ~AtRest /\ Question(toHolder[client.conn][1])
    BY <1>5, <2>1 DEF Questions
  <2>3. ASSUME NEW k \in Asking' PROVE FALSE
    <3>1. k \in AtOf(c, Asks)' /\ k \in 1..Len(toHolder'[c])
      BY <1>3, <1>5, <2>3 DEF Asking, AtOf
    <3>2. k + Shift(c, 1, c) \in AtOf(c, Asks)  BY <1>3, <3>1, AsksFewer
    <3>3. k + 1 \in Asking  BY <1>5, <3>2 DEF Asking, Shift
    <3>4. k + 1 = 1  BY <2>1, <2>2, <3>3 DEF Single
    <3> QED  BY <3>1, <3>4
  <2> QED  BY <1>5, <2>1, <2>2, <2>3 DEF First
<1> QED  BY <1>2, <1>4, <1>5

LEMMA QuestionsGrant ==
  ASSUME Typed, Questions, NEW c \in Links, Reading(c), First(c).kind \in Asks,
         NEW a, a.kind \in Grants, ReplyIs(c, a), c = client.conn /\ Open => Reaction(a)
  PROVE  Questions'
<1>1. client' = client /\ link' = link /\ slot' = slot /\ Fewer(c, 1) /\ Quietly
  BY DEF Reading, Quietly
<1>2. CASE ~(c = client.conn /\ Open)
  <2> DEFINE x == Answer("close", 0, 0, FALSE)
  <2>1. x.kind \in {"close", "receipt"}  BY CloseIs
  <2> HIDE DEF x
  <2>2. Hears(x)  BY <1>2 DEF Hears, ReplyIs
  <2> QED  BY <1>1, <2>1, <2>2, QuestionsPlain
<1>3. CASE c = client.conn /\ Open
  <2>1. /\ InputsOf(c)' = {} /\ Asking' = {} /\ Told(Grants) = {} /\ ~AtRest /\ Reaction(a)
    BY <1>3, AskLast
  <2>2. Hears(a)  BY ReplyHears
  <2>3. \A k \in Told(Grants)' : k = Len(toClient) + 1 /\ toClient'[k] = a
    BY <2>1, <2>2, ToldMore
  <2>4. \A k \in Told({"released"})' : k \in Told({"released"})
    <3>1. a.kind \notin {"released"}  BY DEF Grants
    <3> QED  BY <2>2, <3>1, ToldMore
  <2>5. \A k \in Giving' : k \in Int /\ k + 1 \in Giving
    <3> SUFFICES ASSUME NEW k \in Giving' PROVE k \in Int /\ k + 1 \in Giving
      OBVIOUS
    <3>0. PICK K : K = {"release"}  OBVIOUS
    <3>1. k \in AtOf(c, K)'  BY <1>1, <1>3, <3>0 DEF Giving
    <3>2. k + Shift(c, 1, c) \in AtOf(c, K)  BY <1>1, <3>0, <3>1, AsksFewer
    <3>3. k \in Int  BY <3>1 DEF AtOf
    <3> QED  BY <1>3, <3>0, <3>2, <3>3 DEF Giving, Shift
  <2>6. Open => Single(Giving)'
    <3>1. Single(Giving)  BY <1>3 DEF Questions
    <3>2. 1 \in Int  OBVIOUS
    <3>3. \A j, k \in Giving' : j = k  BY <2>5, <3>1, <3>2, SingleBack
    <3> QED  BY <3>3 DEF Single
  <2>7. \A f : Reaction(f)' <=> Reaction(f)  BY <1>1 DEF Reaction, Attached
  <2>8. (Open' <=> Open) /\ (AtRest' <=> AtRest)  BY <1>1, DeskSame
  <2>9. \A e \in Links : \A j \in AtOf(e, Asks)', k \in InputsOf(e)' : k < j
    BY <1>1, OrderedFewer
  <2>10. /\ Single(Told(Grants))' /\ Single(Told({"released"}))' /\ Single(Asking)'
    BY <2>1, <2>3, <2>4 DEF Single, Questions
  <2>11. Open /\ Giving' # {} => link.reset = "releasing" /\ Told({"released"})' = {}
    BY <2>4, <2>5 DEF Questions
  <2>12. Told({"released"})' # {} => link.reset = "releasing"
    BY <2>4 DEF Questions
  <2>13. InputsOf(client.conn)' = {}  BY <1>1, <1>3, <2>1
  <2>14. \A k \in Told(Grants)' : ~AtRest /\ Reaction(toClient'[k])
    BY <2>1, <2>3
  <2> QED
    BY <1>1, <2>1, <2>6, <2>7, <2>8, <2>9, <2>10, <2>11, <2>12, <2>13, <2>14 DEF Questions
<1> QED  BY <1>2, <1>3

LEMMA QuestionsReleased ==
  ASSUME Typed, Questions, NEW c \in Links, NEW a, ReleaseStep(c, a)
  PROVE  Questions'
<1>1. /\ client' = client /\ link' = link /\ slot' = slot /\ Fewer(c, 1) /\ Quietly
      /\ First(c).kind = "release" /\ a.kind = "released" /\ ReplyIs(c, a) /\ 1 \in 1..Len(toHolder[c])
  BY DEF ReleaseStep, Reading, Quietly
<1>2. CASE ~(c = client.conn /\ Open)
  <2> DEFINE x == Answer("close", 0, 0, FALSE)
  <2>1. x.kind \in {"close", "receipt"}  BY CloseIs
  <2> HIDE DEF x
  <2>2. Hears(x)  BY <1>1, <1>2 DEF Hears, ReplyIs
  <2> QED  BY <1>1, <2>1, <2>2, QuestionsPlain
<1>3. CASE c = client.conn /\ Open
  <2>0. PICK K : K = {"release"}  OBVIOUS
  <2>1. 1 \in Giving /\ Single(Giving) /\ link.reset = "releasing" /\ Told({"released"}) = {}
    BY <1>1, <1>3 DEF Questions, Giving, AtOf, First
  <2>2. \A k \in Giving' : k \in 1..Len(toHolder'[c]) /\ k + 1 \in Giving
    <3> SUFFICES ASSUME NEW k \in Giving' PROVE k \in 1..Len(toHolder'[c]) /\ k + 1 \in Giving
      OBVIOUS
    <3>1. k \in AtOf(c, K)'  BY <1>1, <1>3, <2>0 DEF Giving
    <3>2. k + Shift(c, 1, c) \in AtOf(c, K)  BY <1>1, <2>0, <3>1, AsksFewer
    <3> QED  BY <1>3, <2>0, <3>1, <3>2 DEF Giving, Shift, AtOf
  <2>3. Giving' = {}
    <3>1. ASSUME NEW k \in Giving' PROVE FALSE
      <4>1. k + 1 = 1 /\ k \in 1..Len(toHolder'[c])  BY <2>1, <2>2 DEF Single
      <4> QED  BY <4>1
    <3> QED  BY <3>1
  <2>4. Hears(a)  BY <1>1, ReplyHears
  <2>5. \A k \in Told({"released"})' : k = Len(toClient) + 1
    BY <2>1, <2>4, ToldMore
  <2>6. \A k \in Told(Grants)' : k \in Told(Grants) /\ toClient'[k] = toClient[k]
    <3>1. a.kind \notin Grants  BY <1>1 DEF Grants
    <3> QED  BY <2>4, <3>1, ToldMore
  <2>7. \A k \in Asking' : /\ k \in Int /\ k + 1 \in Asking
                           /\ toHolder'[c][k] = toHolder[c][k + 1]
    <3> SUFFICES ASSUME NEW k \in Asking'
                 PROVE  k \in Int /\ k + 1 \in Asking /\ toHolder'[c][k] = toHolder[c][k + 1]
      OBVIOUS
    <3>1. k \in AtOf(c, Asks)'  BY <1>1, <1>3 DEF Asking
    <3>2. /\ k + Shift(c, 1, c) \in AtOf(c, Asks)
          /\ toHolder'[c][k] = toHolder[c][k + Shift(c, 1, c)]
      BY <1>1, <3>1, AsksFewer
    <3>3. k \in Int  BY <3>1 DEF AtOf
    <3> QED  BY <1>3, <3>2, <3>3 DEF Asking, Shift
  <2>8. Single(Asking)'
    <3>1. Single(Asking)  BY <1>3 DEF Questions
    <3>2. 1 \in Int  OBVIOUS
    <3>3. \A j, k \in Asking' : j = k  BY <2>7, <3>1, <3>2, SingleBack
    <3> QED  BY <3>3 DEF Single
  <2>9. (\A f : Question(f)' <=> Question(f)) /\ (\A x : Reaction(x)' <=> Reaction(x))
    BY <1>1 DEF Question, Reaction, Attached
  <2>10. (Open' <=> Open) /\ (AtRest' <=> AtRest)  BY <1>1, DeskSame
  <2>11. \A e \in Links : \A j \in AtOf(e, Asks)', k \in InputsOf(e)' : k < j
    BY <1>1, OrderedFewer
  <2>12. InputsOf(c) = {} => InputsOf(c)' = {}  BY <1>1, InputsFewer
  <2>13. Told(Grants)' # {} => InputsOf(client.conn)' = {}
    BY <1>1, <1>3, <2>6, <2>12 DEF Questions
  <2>14. /\ Single(Told(Grants))' /\ Single(Told({"released"}))' /\ Single(Giving)'
    BY <2>3, <2>5, <2>6 DEF Single, Questions
  <2>15. \A k \in Asking' : ~AtRest /\ Question(toHolder'[c][k])
    BY <1>3, <2>7 DEF Questions
  <2>16. \A k \in Told(Grants)' : ~AtRest /\ Reaction(toClient'[k])
    BY <2>6 DEF Questions
  <2>17. Asking' # {} => Told(Grants)' = {}
    BY <1>3, <2>6, <2>7 DEF Questions
  <2> QED
    BY <1>1, <1>3, <2>1, <2>3, <2>8, <2>9, <2>10, <2>11, <2>13, <2>14, <2>15, <2>16, <2>17
       DEF Questions
<1> QED  BY <1>2, <1>3

LEMMA QuestionsHolder ==
  ASSUME Typed, Questions, NEW a, NEW c \in Links,
         GrantStep(c, a) \/ ResumeStep(c, a) \/ AnswerStep(c, a)
  PROVE  Questions'
<1>1. /\ Reading(c) /\ First(c).kind \in Asks /\ a.kind \in Grants /\ ReplyIs(c, a)
  BY DEF GrantStep, ResumeStep, AnswerStep, Asks, Grants
<1>2. ASSUME c = client.conn /\ Open PROVE Reaction(a)
  <2>1. Question(First(c))  BY <1>1, <1>2, AskLast
  <2>2. CASE GrantStep(c, a)
    <3>1. a.epoch # 0  BY <2>2 DEF GrantStep, Typed
    <3> QED  BY <2>1, <2>2, <3>1 DEF GrantStep, Question, Reaction
  <2>3. CASE ResumeStep(c, a)  BY <2>1, <2>3 DEF ResumeStep, Question, Reaction
  <2>4. CASE AnswerStep(c, a)  BY <2>1, <2>4 DEF AnswerStep, Question, Reaction
  <2> QED  BY <2>2, <2>3, <2>4
<1> QED  BY <1>1, <1>2, QuestionsGrant

LEMMA EpochsPlain ==
  ASSUME Typed, Typed', Epochs, Quietly, NEW a \in Answers, Hears(a),
         a.kind \notin {"resumed", "attached", "acquired"}, a.epoch <= allocated,
         allocated <= allocated', lease'.epoch <= allocated', lease'.token <= tokens',
         lease'.owner = client.conn => lease.owner = client.conn /\ lease'.epoch = lease.epoch
  PROVE  Epochs'
<1>1. client' = client /\ link' = link /\ slot' = slot  BY DEF Quietly
<1>2. /\ allocated \in Nat /\ allocated' \in Nat /\ lease'.epoch \in Nat
      /\ client.epoch \in Nat /\ client.resume.epoch \in Nat /\ slot.lease.epoch \in Nat
  BY DEF Typed, Leases, Clients, Slots, Snapshots
<1>3. /\ {client.epoch, client.resume.epoch, slot.lease.epoch, lease'.epoch} \subseteq 0..allocated'
  BY <1>2 DEF Epochs
<1>4. Len(toClient) \in Nat /\ \A k \in 1..Len(toClient) : toClient[k].epoch \in Nat
  BY Elements DEF Answers
<1>5. \A k \in 1..Len(toClient') :
        \/ k \in 1..Len(toClient) /\ toClient'[k] = toClient[k]
        \/ toClient'[k] = a
  BY <1>4 DEF Hears, Adds
<1>6. a.epoch \in Nat  BY DEF Answers
<1>7. \A k \in 1..Len(toClient') : toClient'[k].epoch <= allocated'
  BY <1>2, <1>4, <1>5, <1>6 DEF Epochs
<1>8. lease'.owner = client.conn =>
        \A k \in 1..Len(toClient') :
          toClient'[k].kind \in {"resumed", "attached", "acquired"} /\ toClient'[k].epoch # 0
            => toClient'[k].epoch = lease'.epoch
  BY <1>5 DEF Epochs
<1> QED  BY <1>1, <1>3, <1>7, <1>8 DEF Epochs

LEMMA EpochsHolder ==
  ASSUME Typed, Typed', Epochs, Questions, Staged, NEW a \in Answers, NEW c \in Links,
         GrantStep(c, a) \/ ResumeStep(c, a) \/ AnswerStep(c, a)
  PROVE  Epochs'
<1>1. /\ Reading(c) /\ First(c).kind \in Asks /\ a.kind \in Grants /\ ReplyIs(c, a)
      /\ client' = client /\ link' = link /\ slot' = slot
  BY DEF GrantStep, ResumeStep, AnswerStep, Asks, Grants, Reading, Quietly
<1>2. /\ allocated \in Nat /\ allocated' \in Nat /\ lease'.epoch \in Nat /\ tokens \in Nat
      /\ client.epoch \in Nat /\ client.resume.epoch \in Nat /\ slot.lease.epoch \in Nat
      /\ lease.epoch \in Nat /\ lease.token \in Nat /\ a.epoch \in Nat
  BY DEF Typed, Leases, Clients, Slots, Snapshots, Answers
<1>3. /\ allocated <= allocated' /\ lease'.epoch <= allocated' /\ lease'.token <= tokens'
      /\ a.epoch <= allocated'
      /\ \/ lease' = lease /\ (a.epoch = 0 \/ a.epoch = lease.epoch)
         \/ lease'.owner = c /\ a.epoch = lease'.epoch
  BY <1>2 DEF GrantStep, ResumeStep, AnswerStep, NewLease, SameLease, LeaseHas, Epochs, Counted
<1>4. {client.epoch, client.resume.epoch, slot.lease.epoch, lease'.epoch} \subseteq 0..allocated'
  BY <1>2, <1>3 DEF Epochs
<1>5. Len(toClient) \in Nat /\ \A k \in 1..Len(toClient) : toClient[k].epoch \in Nat
  BY Elements DEF Answers
<1>6. Hears(a)  BY <1>1, ReplyHears
<1>7. \A k \in 1..Len(toClient') :
        \/ k \in 1..Len(toClient) /\ toClient'[k] = toClient[k]
        \/ toClient'[k] = a
  BY <1>5, <1>6 DEF Hears, Adds
<1>8. \A k \in 1..Len(toClient') : toClient'[k].epoch <= allocated'
  BY <1>2, <1>3, <1>5, <1>7 DEF Epochs
<1>9. CASE lease' = lease /\ (a.epoch = 0 \/ a.epoch = lease.epoch)
  BY <1>1, <1>4, <1>3, <1>7, <1>8, <1>9 DEF Epochs
<1>10. CASE lease'.owner = c /\ a.epoch = lease'.epoch /\ c # client.conn
  BY <1>1, <1>4, <1>3, <1>8, <1>10 DEF Epochs
<1>11. CASE lease'.owner = c /\ a.epoch = lease'.epoch /\ c = client.conn /\ ~Open
  <2>1. client.epoch = 0 /\ Len(toClient') = 0
    BY <1>1, <1>11 DEF Staged, Open, ReplyIs
  <2> QED  BY <1>1, <1>3, <1>4, <1>8, <2>1 DEF Epochs
<1>12. CASE lease'.owner = c /\ a.epoch = lease'.epoch /\ c = client.conn /\ Open /\ lease' # lease
  <2>1. Told(Grants) = {} /\ Question(First(c))  BY <1>1, <1>12, AskLast
  <2>2. client.epoch = 0
    BY <1>12, <2>1 DEF Question, GrantStep, ResumeStep, AnswerStep
  <2>3. \A k \in 1..Len(toClient) : toClient[k].kind \notin {"resumed", "attached", "acquired"}
    BY <2>1 DEF Told, Grants
  <2> QED  BY <1>1, <1>3, <1>4, <1>7, <1>8, <1>12, <2>2, <2>3 DEF Epochs
<1> QED  BY <1>3, <1>9, <1>10, <1>11, <1>12

-----------------------------------------------------------------------------
(* The numbers on the connection that owns the lease. *)

LEMMA OwnedFewer ==
  ASSUME Typed, NEW c \in Links, NEW s \in {0, 1}, Fewer(c, s),
         lease'.owner = lease.owner \/ lease'.owner \notin Links
  PROVE  Owned' \subseteq Owned
<1> SUFFICES ASSUME NEW f \in Owned' PROVE f \in Owned
  OBVIOUS
<1>1. PICK d \in Links : d = lease'.owner /\ d = lease.owner
  BY DEF Owned
<1>2. PICK k \in InputsOf(d)' : f = toHolder'[d][k]
  BY <1>1 DEF Owned
<1>3. k + Shift(c, s, d) \in InputsOf(d) /\ f = toHolder[d][k + Shift(c, s, d)]
  BY <1>2, InputsFewer
<1> QED  BY <1>1, <1>3 DEF Owned

LEMMA LateNumbers ==
  ASSUME Typed, Numbered, Quietly, NEW c \in Links, NEW s \in {0, 1}, Fewer(c, s)
  PROVE  Open' => \A k \in InputsOf(client.conn)' : toHolder'[client.conn][k].n < client'.next
<1>1. client' = client  BY DEF Quietly
<1>2. PICK d \in Links : d = client.conn  BY DEF Typed, Clients
<1>3. ASSUME Open, NEW k \in InputsOf(d)' PROVE toHolder'[d][k].n < client.next
  <2>1. /\ k + Shift(c, s, d) \in InputsOf(d)
        /\ toHolder'[d][k] = toHolder[d][k + Shift(c, s, d)]
    BY InputsFewer
  <2> QED  BY <1>2, <1>3, <2>1 DEF Numbered
<1> QED  BY <1>1, <1>2, <1>3 DEF Open

(* A lease that is the same, but for less on the way to it. *)
LEMMA FittingFewer ==
  ASSUME Typed, Numbered, Fitting, Quietly, NEW c \in Links, NEW s \in {0, 1}, Fewer(c, s),
         Done' = Done, Owned' \subseteq Owned, Reached' = Reached, lease'.epoch = lease.epoch,
         NEW a, Hears(a),
         toClient' # toClient /\ a.kind \in {"attached", "acquired"} => a.epoch = 0 \/ client.epoch # 0
  PROVE  Numbered' /\ Fitting'
<1>1. client' = client /\ link' = link /\ slot' = slot  BY DEF Quietly
<1>2. \A n, x : Fresh(n, x)' <=> Fresh(n, x)  BY DEF Fresh
<1>3. Numbered'
  <2>1. \A f \in Owned' : f.epoch = lease'.epoch /\ Fresh(f.n, f.item)'
    BY <1>2 DEF Numbered
  <2>2. \A f, g \in Owned' : f.n < g.n => f.item < g.item  BY DEF Numbered
  <2>3. Open' => \A k \in InputsOf(client.conn)' : toHolder'[client'.conn][k].n < client'.next
    BY <1>1, LateNumbers
  <2> QED  BY <2>1, <2>2, <2>3 DEF Numbered
<1>5. client.epoch = 0 => \A k \in Told({"attached", "acquired"})' :
        \/ k \in Told({"attached", "acquired"}) /\ toClient'[k] = toClient[k]
        \/ toClient'[k].epoch = 0
  <2>0. PICK K : K = {"attached", "acquired"}  OBVIOUS
  <2>1. \A k \in Told(K)' : \/ k \in Told(K) /\ toClient'[k] = toClient[k]
                            \/ toClient'[k] = a /\ a.kind \in K /\ toClient' # toClient
    <3>1. Len(toClient) + 1 # Len(toClient)  BY Elements
    <3> QED  BY <3>1, ToldMore DEF Adds
  <2> QED  BY <2>0, <2>1
<1>6. client.epoch = 0 => \A k \in Told({"attached", "acquired"})' :
        toClient'[k].epoch # 0 /\ toClient'[k].epoch = lease'.epoch => Owned' = {} /\ Reached' = 0
  BY <1>5 DEF Fitting
<1>7. Fits(client)' /\ (Recovering' => Fits(slot.lease)')
      /\ (client'.phase = "resuming" => Fits(client.resume)')
  <2>1. Fits(client) => Fits(client)'  BY <1>1, <1>2 DEF Fits
  <2>2. Fits(slot.lease) => Fits(slot.lease)'  BY <1>1, <1>2 DEF Fits
  <2>3. Fits(client.resume) => Fits(client.resume)'  BY <1>1, <1>2 DEF Fits
  <2> QED  BY <1>1, <2>1, <2>2, <2>3 DEF Fitting, Recovering
<1> QED  BY <1>1, <1>3, <1>6, <1>7 DEF Fitting

(* A lease that was just made, or none. *)
LEMMA FittingNew ==
  ASSUME Typed, Numbered, Epochs, Quietly, NEW c \in Links, NEW s \in {0, 1}, Fewer(c, s),
         Owned' = {}, Reached' = 0, lease'.epoch = 0 \/ lease'.epoch = allocated + 1
  PROVE  Numbered' /\ Fitting'
<1>1. client' = client /\ link' = link /\ slot' = slot  BY DEF Quietly
<1>2. Numbered'
  <2>1. Open' => \A k \in InputsOf(client.conn)' : toHolder'[client'.conn][k].n < client'.next
    BY <1>1, LateNumbers
  <2> QED  BY <2>1 DEF Numbered
<1>3. client.epoch # lease'.epoch \/ lease'.epoch = 0  BY DEF Epochs, Typed
<1>4. slot.lease.epoch # lease'.epoch \/ lease'.epoch = 0  BY DEF Epochs, Typed
<1>5. client.resume.epoch # lease'.epoch \/ lease'.epoch = 0  BY DEF Epochs, Typed
<1>6. Fits(client)' /\ Fits(slot.lease)' /\ Fits(client.resume)'
  BY <1>1, <1>3, <1>4, <1>5 DEF Fits
<1> QED  BY <1>1, <1>2, <1>6 DEF Fitting

LEMMA OwnedTypes ==
  ASSUME Typed
  PROVE  /\ Owned \subseteq Frames /\ Done \subseteq Item /\ Item \subseteq Nat
         /\ lease.high \in Nat /\ Reached \in Nat /\ lease.epoch \in Nat /\ lease.inflight \in Item
<1>1. Owned \subseteq Frames  BY Elements DEF Owned, InputsOf, AtOf
<1>2. Done \subseteq Item  BY Elements DEF Done, ItemsOf, Writes
<1>3. lease.high \in Nat /\ lease.epoch \in Nat /\ lease.inflight \in Item  BY DEF Typed, Leases
<1> QED  BY <1>1, <1>2, <1>3, Bounds DEF Reached

(* A write that is done moves from the holder's queue to the terminal. *)
LEMMA DoneMoves ==
  ASSUME Typed, Drops(writer', writer), Adds(written', written, writer[1].item)
  PROVE  /\ Done' = Done /\ ItemsOf(written) \subseteq ItemsOf(written)'
         /\ writer[1].item \in ItemsOf(written)' /\ writer[1].item \in Done
<1> DEFINE m == Len(writer)
           n == Len(written)
<1>1. m \in Nat /\ m # 0 /\ n \in Nat /\ Len(writer') = m - 1 /\ Len(written') = n + 1
  BY Elements DEF Drops, Adds
<1>2. /\ \A k \in 1..m - 1 : writer'[k] = writer[k + 1]
      /\ written'[n + 1] = writer[1].item
      /\ \A k \in 1..n : written'[k] = written[k]
  BY <1>1 DEF Drops, Adds
<1>3. \A k \in 2..m : k - 1 \in 1..m - 1 /\ writer'[k - 1] = writer[k]  BY <1>1, <1>2
<1>4. ItemsOf(written)' = ItemsOf(written) \cup {writer[1].item}
  <2>1. ItemsOf(written)' = {written'[k] : k \in 1..n + 1}
    <3>1. Len(written') = n + 1  BY <1>1
    <3> HIDE DEF n
    <3> QED  BY <3>1 DEF ItemsOf
  <2>2. ItemsOf(written) = {written[k] : k \in 1..n}  BY DEF ItemsOf
  <2> HIDE DEF n
  <2>3. ASSUME NEW k \in 1..n + 1
        PROVE  written'[k] \in {written[j] : j \in 1..n} \cup {writer[1].item}
    <3>1. k = n + 1 \/ k \in 1..n  BY <1>1
    <3> QED  BY <1>2, <3>1
  <2>4. (1..n) \subseteq 1..n + 1 /\ n + 1 \in 1..n + 1  BY <1>1
  <2> QED  BY <1>2, <2>1, <2>2, <2>3, <2>4
<1>5. {writer[k].item : k \in 1..m} = {writer'[k].item : k \in 1..m - 1} \cup {writer[1].item}
  <2>1. ASSUME NEW k \in 1..m
        PROVE  writer[k].item \in {writer'[j].item : j \in 1..m - 1} \cup {writer[1].item}
    <3>1. k = 1 \/ k \in 2..m  BY <1>1
    <3> QED  BY <1>3, <3>1
  <2>2. ASSUME NEW k \in 1..m - 1 PROVE writer'[k].item \in {writer[j].item : j \in 1..m}
    <3>1. k + 1 \in 1..m  BY <1>1
    <3> QED  BY <1>2, <3>1
  <2>3. 1 \in 1..m  BY <1>1
  <2> QED  BY <2>1, <2>2, <2>3
<1>6. Done = ItemsOf(written) \cup {writer[k].item : k \in 1..m}  BY DEF Done
<1>7. Done' = ItemsOf(written)' \cup {writer'[k].item : k \in 1..m - 1}
  <2>1. Len(writer') = m - 1  BY <1>1
  <2> HIDE DEF m
  <2> QED  BY <2>1 DEF Done
<1> HIDE DEF m, n
<1> QED  BY <1>4, <1>5, <1>6, <1>7

LEMMA DoneAdds ==
  ASSUME Typed, NEW w, Adds(writer', writer, w), written' = written
  PROVE  Done' = Done \cup {w.item}
<1> DEFINE m == Len(writer)
<1>1. m \in Nat /\ Len(writer') = m + 1  BY Elements DEF Adds
<1>2. writer'[m + 1] = w /\ \A k \in 1..m : writer'[k] = writer[k]  BY DEF Adds
<1>3. Done' = ItemsOf(written) \cup {writer'[k].item : k \in 1..m + 1}
  <2>1. ItemsOf(written)' = ItemsOf(written)  BY DEF ItemsOf
  <2>2. Len(writer') = m + 1  BY <1>1
  <2> HIDE DEF m
  <2> QED  BY <2>1, <2>2 DEF Done
<1>4. Done = ItemsOf(written) \cup {writer[k].item : k \in 1..m}  BY DEF Done
<1> HIDE DEF m
<1>5. {writer'[k].item : k \in 1..m + 1} = {writer[k].item : k \in 1..m} \cup {w.item}
  <2>1. ASSUME NEW k \in 1..m + 1
        PROVE  writer'[k].item \in {writer[j].item : j \in 1..m} \cup {w.item}
    <3>1. k = m + 1 \/ k \in 1..m  BY <1>1
    <3> QED  BY <1>2, <3>1
  <2>2. (1..m) \subseteq 1..m + 1 /\ m + 1 \in 1..m + 1  BY <1>1
  <2> QED  BY <1>2, <2>1, <2>2
<1> QED  BY <1>3, <1>4, <1>5

(* The next number is taken. *)
LEMMA FittingNext ==
  ASSUME Typed, Numbered, Fitting, NEW c \in Links, InputRead(c), IsNext(First(c)),
         Reached' = First(c).n, lease'.epoch = lease.epoch, lease'.owner = lease.owner,
         Done' \subseteq Done \cup {First(c).item}, NEW a, Hears(a), a.kind = "receipt"
  PROVE  Numbered' /\ Fitting'
<1> DEFINE f == First(c)
<1>1. client' = client /\ link' = link /\ slot' = slot /\ Fewer(c, 1) /\ Quietly
  BY DEF InputRead, Reading, Quietly
<1>2. f \in Owned /\ f \in Frames /\ f.n \in Nat /\ f.item \in Nat
  <2>1. 1 \in InputsOf(c) /\ lease.owner = c
    BY DEF InputRead, Reading, InputsOf, AtOf, First
  <2>2. f \in Owned  BY <2>1 DEF Owned, First
  <2> QED  BY <2>2, OwnedTypes DEF Frames
<1>3. Reached = lease.high /\ f.n = Reached + 1 /\ Reached \in Nat
  BY OwnedTypes DEF IsNext, Reached
<1>4. Owned' \subseteq Owned /\ Owned \subseteq Frames /\ Done \subseteq Nat
  BY <1>1, OwnedFewer, OwnedTypes
<1>5. ASSUME NEW n \in Nat, NEW x \in Nat, Fresh(n, x), n > f.n => f.item < x
      PROVE  Fresh(n, x)'
  BY <1>2, <1>3, <1>4, <1>5 DEF Fresh
<1>6. ASSUME NEW g \in Owned' PROVE g.epoch = lease'.epoch /\ Fresh(g.n, g.item)'
  <2>1. g \in Owned /\ g.n \in Nat /\ g.item \in Nat  BY <1>4, Bounds DEF Frames
  <2>2. Fresh(g.n, g.item) /\ g.epoch = lease.epoch  BY <2>1 DEF Numbered
  <2>3. g.n > f.n => f.item < g.item  BY <1>2, <2>1 DEF Numbered
  <2> QED  BY <1>5, <2>1, <2>2, <2>3
<1>7. Numbered'
  <2>1. \A g, h \in Owned' : g.n < h.n => g.item < h.item  BY <1>4 DEF Numbered
  <2>2. Open' => \A k \in InputsOf(client.conn)' : toHolder'[client'.conn][k].n < client'.next
    BY <1>1, LateNumbers
  <2> HIDE DEF f
  <2> QED  BY <1>6, <2>1, <2>2 DEF Numbered
<1>8. ASSUME NEW v, v.next \in Nat \ {0}, v.pending \in Nat, Fits(v) PROVE Fits(v)'
  <2> SUFFICES ASSUME v.epoch # 0, v.epoch = lease'.epoch
               PROVE  /\ Reached' < v.next /\ \A g \in Owned' : g.n < v.next
                      /\ v.pending # 0 =>
                           /\ Fresh(v.next - 1, v.pending)'
                           /\ \A g \in Owned' : /\ g.n = v.next - 1 => g.item = v.pending
                                                /\ g.n < v.next - 1 => g.item < v.pending
    BY DEF Fits
  <2>1. f.n < v.next /\ \A g \in Owned : g.n < v.next  BY <1>2, <1>8 DEF Fits
  <2>2. ASSUME v.pending # 0
        PROVE  /\ Fresh(v.next - 1, v.pending)
               /\ \A g \in Owned : /\ g.n = v.next - 1 => g.item = v.pending
                                   /\ g.n < v.next - 1 => g.item < v.pending
    BY <1>8, <2>2 DEF Fits
  <2>3. ASSUME v.pending # 0 PROVE Fresh(v.next - 1, v.pending)'
    <3>1. v.next - 1 \in Nat  BY <1>8
    <3>2. v.next - 1 > f.n => f.item < v.pending  BY <1>2, <1>8, <2>2, <2>3
    <3> QED  BY <1>5, <1>8, <2>2, <2>3, <3>1, <3>2
  <2> HIDE DEF f
  <2> QED  BY <1>4, <2>1, <2>2, <2>3 DEF f
<1>9. /\ client.next \in Nat \ {0} /\ client.pending \in Nat /\ slot.lease.next \in Nat \ {0}
      /\ slot.lease.pending \in Nat /\ client.resume.next \in Nat \ {0}
      /\ client.resume.pending \in Nat
  BY Bounds DEF Typed, Clients, Slots, Snapshots
<1>10. Fits(client) => Fits(client)'
  <2>1. PICK v : v = client  OBVIOUS
  <2>2. Fits(v) => Fits(v)'  BY <1>8, <1>9, <2>1
  <2> QED  BY <1>1, <2>1, <2>2
<1>11. Fits(slot.lease) => Fits(slot.lease)'
  <2>1. PICK v : v = slot.lease  OBVIOUS
  <2>2. Fits(v) => Fits(v)'  BY <1>8, <1>9, <2>1
  <2> QED  BY <1>1, <2>1, <2>2
<1>12. Fits(client.resume) => Fits(client.resume)'
  <2>1. PICK v : v = client.resume  OBVIOUS
  <2>2. Fits(v) => Fits(v)'  BY <1>8, <1>9, <2>1
  <2> QED  BY <1>1, <2>1, <2>2
<1>13. client.epoch = 0 => \A k \in Told({"attached", "acquired"})' :
         toClient'[k].epoch # 0 /\ toClient'[k].epoch = lease'.epoch => Owned' = {} /\ Reached' = 0
  <2>0. PICK K : K = {"attached", "acquired"}  OBVIOUS
  <2>1. \A k \in Told(K)' : k \in Told(K) /\ toClient'[k] = toClient[k]
    BY <2>0, ToldMore
  <2>2. \A k \in Told(K) : client.epoch = 0 /\ toClient[k].epoch # 0
                             => toClient[k].epoch # lease.epoch
    BY <1>2, <2>0 DEF Fitting
  <2> QED  BY <2>0, <2>1, <2>2
<1> QED  BY <1>1, <1>7, <1>10, <1>11, <1>12, <1>13 DEF Fitting, Recovering

(* What is taken for writing is later than all that was. *)
LEMMA OrderWrite ==
  ASSUME Typed, InOrder, Settled, Numbered, NEW c \in Links, WriteStep(c)
  PROVE  InOrder' /\ Settled'
<1> DEFINE f == First(c)
           x == f.item
           m == Len(writer)
<1>1. /\ client' = client /\ link' = link /\ slot' = slot /\ made' = made /\ fate' = fate
      /\ Fewer(c, 1) /\ Quietly /\ written' = written /\ ended \subseteq ended' /\ c \notin ended
      /\ 1 \in 1..Len(toHolder[c]) /\ f.kind = "input" /\ lease.owner = c
      /\ f.n = Reached + 1
  BY DEF WriteStep, InputRead, Reading, Quietly, IsNext, Reached
<1>2. 1 \in InputsOf(c) /\ f \in Owned  BY <1>1 DEF InputsOf, AtOf, Owned, First
<1>3. x # 0 /\ BeforeWaiting(x) /\ \A d \in Done : d < x
  <2>1. Fresh(f.n, x) /\ f.n > Reached  BY <1>1, <1>2, OwnedTypes DEF Numbered
  <2>2. x # 0 /\ BeforeWaiting(x)  BY <1>2 DEF InOrder, First
  <2> QED  BY <2>1, <2>2 DEF Fresh
<1>4. Done' = Done \cup {x}
  <2> DEFINE w == [epoch |-> f.epoch, item |-> x, conn |-> c]
  <2>1. Adds(writer', writer, w) /\ w.item = x  BY DEF WriteStep
  <2> HIDE DEF w
  <2> QED  BY <1>1, <2>1, DoneAdds
<1>5. /\ m \in Nat /\ Len(writer') = m + 1 /\ writer'[m + 1].item = x
      /\ \A k \in 1..m : writer'[k] = writer[k]
  BY Elements DEF WriteStep, Adds
<1>6. \A k \in 1..m : writer[k].item \in Done  BY DEF Done
<1>7. \A k \in 1..Len(written) : written[k] \in Done  BY DEF Done, ItemsOf
<1>8. ASSUME NEW d \in Links, NEW k \in InputsOf(d)'
      PROVE  toHolder'[d][k].item # 0 /\ BeforeWaiting(toHolder'[d][k].item)
  <2>1. /\ k + Shift(c, 1, d) \in InputsOf(d)
        /\ toHolder'[d][k] = toHolder[d][k + Shift(c, 1, d)]
    BY <1>1, InputsFewer
  <2> QED  BY <2>1 DEF InOrder
<1>9. \A i : OnWire(i)' => OnWire(i)
  <2> SUFFICES ASSUME NEW i, OnWire(i)' PROVE OnWire(i)
    OBVIOUS
  <2>1. CASE \E d \in Links \ ended' : \E k \in 1..Len(toHolder'[d]) :
               toHolder'[d][k].kind = "input" /\ toHolder'[d][k].item = i
    <3>0. PICK d \in Links \ ended' :
             \E k \in 1..Len(toHolder'[d]) :
               toHolder'[d][k].kind = "input" /\ toHolder'[d][k].item = i
      BY <2>1
    <3>1. PICK k \in 1..Len(toHolder'[d]) :
             toHolder'[d][k].kind = "input" /\ toHolder'[d][k].item = i
      BY <3>0
    <3>2. k \in InputsOf(d)'  BY <3>1 DEF InputsOf, AtOf
    <3>3. /\ k + Shift(c, 1, d) \in InputsOf(d)
          /\ toHolder'[d][k] = toHolder[d][k + Shift(c, 1, d)]
      BY <1>1, <3>2, InputsFewer
    <3> QED  BY <1>1, <3>1, <3>3 DEF OnWire, InputsOf, AtOf
  <2>2. CASE \E k \in 1..Len(writer') : writer'[k].item = i
    <3>1. PICK k \in 1..m + 1 : writer'[k].item = i  BY <1>5, <2>2
    <3>2. CASE k = m + 1
      <4>1. i = x  BY <1>5, <3>1, <3>2
      <4> QED  BY <1>1, <4>1 DEF OnWire, First
    <3>3. CASE k \in 1..m  BY <1>5, <3>1, <3>3 DEF OnWire
    <3> QED  BY <1>5, <3>2, <3>3
  <2> QED  BY <2>1, <2>2 DEF OnWire
<1> HIDE DEF x, f, m
<1>10. \A j, k \in 1..Len(writer') : j < k => writer'[j].item < writer'[k].item
  <2> SUFFICES ASSUME NEW j \in 1..m + 1, NEW k \in 1..m + 1, j < k
               PROVE  writer'[j].item < writer'[k].item
    BY <1>5
  <2>1. CASE k = m + 1
    <3>1. j \in 1..m  BY <1>5, <2>1
    <3> QED  BY <1>3, <1>5, <1>6, <2>1, <3>1
  <2>2. CASE k \in 1..m
    <3>1. j \in 1..m  BY <1>5, <2>2
    <3> QED  BY <1>5, <2>2, <3>1 DEF InOrder, m
  <2> QED  BY <1>5, <2>1, <2>2
<1>11. \A j \in 1..Len(written), k \in 1..Len(writer') : written[j] < writer'[k].item
  <2> SUFFICES ASSUME NEW j \in 1..Len(written), NEW k \in 1..m + 1
               PROVE  written[j] < writer'[k].item
    BY <1>5
  <2>1. CASE k = m + 1  BY <1>3, <1>5, <1>7, <2>1
  <2>2. CASE k \in 1..m  BY <1>5, <2>2 DEF InOrder, m
  <2> QED  BY <1>5, <2>1, <2>2
<1>12. \A y \in Done' \cup Pending : BeforeWaiting(y)  BY <1>3, <1>4 DEF InOrder
<1>13. 0 \notin Done'  BY <1>3, <1>4 DEF InOrder
<1>14. InOrder'
  BY <1>1, <1>8, <1>10, <1>11, <1>12, <1>13, DeskSame DEF InOrder, Increasing, WrittenInOrder
<1>15. Settled'
  BY <1>1, <1>9, DeskSame DEF Settled, ItemsOf
<1> QED  BY <1>14, <1>15

LEMMA OrderDone ==
  ASSUME Typed, InOrder, Settled, Quietly, toHolder' = toHolder, ended \subseteq ended',
         Drops(writer', writer), Adds(written', written, writer[1].item)
  PROVE  InOrder' /\ Settled'
<1> DEFINE x == writer[1].item
           m == Len(writer)
           n == Len(written)
<1>1. client' = client /\ link' = link /\ slot' = slot /\ made' = made /\ fate' = fate
  BY DEF Quietly
<1>2. Done' = Done /\ ItemsOf(written) \subseteq ItemsOf(written)'
  BY DoneMoves
<1>3. /\ m \in Nat /\ n \in Nat /\ m # 0 /\ Len(writer') = m - 1 /\ Len(written') = n + 1
      /\ \A k \in 1..m - 1 : k + 1 \in 1..m /\ 1 \in 1..m /\ 1 < k + 1 /\ writer'[k] = writer[k + 1]
      /\ written'[n + 1] = x /\ \A k \in 1..n : written'[k] = written[k]
      /\ 1 \in 1..m
  BY Elements DEF Drops, Adds
<1>4. \A j, k \in 1..m : j < k => writer[j].item < writer[k].item  BY DEF InOrder
<1>5. \A j \in 1..n, k \in 1..m : written[j] < writer[k].item  BY DEF InOrder
<1>6. \A j, k \in 1..n : j < k => written[j] < written[k]  BY DEF InOrder, WrittenInOrder
<1>7. \A i : OnWire(i)' => OnWire(i)
  <2>1. \A i : (\E k \in 1..Len(writer') : writer'[k].item = i) => (\E k \in 1..m : writer[k].item = i)
    BY <1>3
  <2> QED  BY <2>1 DEF OnWire
<1>8. OnWire(x)  BY <1>3 DEF OnWire
<1>9. ItemsOf(written)' \subseteq ItemsOf(written) \cup {x}
  <2>1. ASSUME NEW k \in 1..n + 1 PROVE written'[k] \in {written[j] : j \in 1..n} \cup {x}
    <3>1. k = n + 1 \/ k \in 1..n  BY <1>3
    <3> QED  BY <1>3, <3>1
  <2>2. ItemsOf(written)' = {written'[k] : k \in 1..Len(written')}  BY DEF ItemsOf
  <2>3. ItemsOf(written) = {written[k] : k \in 1..n}  BY DEF ItemsOf
  <2> HIDE DEF n, x
  <2> QED  BY <1>3, <2>1, <2>2, <2>3
<1> HIDE DEF x, m, n
<1>10. \A j, k \in 1..Len(writer') : j < k => writer'[j].item < writer'[k].item
  <2> TAKE j, k \in 1..Len(writer')
  <2>1. /\ j \in 1..m - 1 /\ k \in 1..m - 1 /\ j + 1 \in 1..m /\ k + 1 \in 1..m
        /\ writer'[j] = writer[j + 1] /\ writer'[k] = writer[k + 1]
    BY <1>3
  <2>2. j < k => j + 1 < k + 1  OBVIOUS
  <2> QED  BY <1>4, <2>1, <2>2
<1>11. ASSUME NEW j \in 1..n + 1, NEW k \in 1..m - 1 PROVE written'[j] < writer'[k].item
  <2>1. CASE j = n + 1
    <3>1. writer[1].item < writer[k + 1].item  BY <1>3, <1>4
    <3> QED  BY <1>3, <2>1, <3>1 DEF x
  <2>2. CASE j \in 1..n  BY <1>3, <1>5, <2>2
  <2> QED  BY <1>3, <2>1, <2>2
<1>12. ASSUME NEW j \in 1..n + 1, NEW k \in 1..n + 1, j < k PROVE written'[j] < written'[k]
  <2>1. CASE k = n + 1
    <3>1. j \in 1..n  BY <1>3, <1>12, <2>1
    <3> QED  BY <1>3, <1>5, <2>1, <3>1 DEF x
  <2>2. CASE k \in 1..n
    <3>1. j \in 1..n  BY <1>3, <1>12, <2>2
    <3> QED  BY <1>3, <1>6, <1>12, <2>2, <3>1
  <2> QED  BY <1>3, <2>1, <2>2
<1>13. ASSUME NEW d \in Links, NEW k \in InputsOf(d)'
       PROVE  toHolder'[d][k].item # 0 /\ BeforeWaiting(toHolder'[d][k].item)
  BY <1>13 DEF InOrder, InputsOf, AtOf
<1>14. InOrder'
  BY <1>1, <1>2, <1>3, <1>10, <1>11, <1>12, <1>13, DeskSame
     DEF InOrder, Increasing, WrittenInOrder
<1>15. Settled'
  BY <1>1, <1>2, <1>7, <1>8, <1>9, DeskSame DEF Settled
<1> QED  BY <1>14, <1>15

-----------------------------------------------------------------------------
(* Receipts. *)

(* What the client hears more makes no receipt wrong. *)
LEMMA ReceiptedMore ==
  ASSUME Typed, Receipted, Quietly, NEW a, Hears(a),
         toClient' # toClient /\ a.kind = "receipt" =>
           /\ client.epoch # 0 /\ a.epoch = client.epoch => a.n < client.next
           /\ client.phase = "resuming" /\ a.epoch = client.resume.epoch => a.n < client.resume.next
           /\ client.epoch = 0 => \A k \in Told({"attached", "acquired"}) :
                toClient[k].epoch # 0 => a.epoch # toClient[k].epoch,
         toClient' # toClient /\ a.kind \in {"attached", "acquired"} /\ a.epoch # 0 /\ client.epoch = 0
           => \A j \in Told({"receipt"}) : toClient[j].epoch # a.epoch
  PROVE  Receipted'
<1>1. client' = client  BY DEF Quietly
<1>2. PICK K : K = {"receipt"}  OBVIOUS
<1>3. PICK L : L = {"attached", "acquired"}  OBVIOUS
<1>4. Len(toClient) + 1 # Len(toClient)  BY Elements
<1>5. \A k \in Told(K)' : \/ k \in Told(K) /\ toClient'[k] = toClient[k]
                          \/ toClient'[k] = a /\ a.kind = "receipt" /\ toClient' # toClient
  BY <1>2, <1>4, ToldMore DEF Adds
<1>6. \A k \in Told(L)' : \/ k \in Told(L) /\ toClient'[k] = toClient[k]
                          \/ toClient'[k] = a /\ a.kind \in L /\ toClient' # toClient
  BY <1>4, ToldMore DEF Adds
<1>7. client.epoch # 0 => \A k \in Told(K)' :
        toClient'[k].epoch = client.epoch => toClient'[k].n < client.next
  BY <1>2, <1>5 DEF Receipted
<1>8. client.phase = "resuming" => \A k \in Told(K)' :
        toClient'[k].epoch = client.resume.epoch => toClient'[k].n < client.resume.next
  BY <1>2, <1>5 DEF Receipted
<1>9. ASSUME client.epoch = 0, NEW k \in Told(L)', NEW j \in Told(K)', toClient'[k].epoch # 0
      PROVE  toClient'[j].epoch # toClient'[k].epoch
  <2>1. CASE k \in Told(L) /\ toClient'[k] = toClient[k] /\ j \in Told(K) /\ toClient'[j] = toClient[j]
    BY <1>2, <1>3, <1>9, <2>1 DEF Receipted
  <2>2. CASE k \in Told(L) /\ toClient'[k] = toClient[k] /\ toClient'[j] = a /\ a.kind = "receipt"
             /\ toClient' # toClient
    BY <1>3, <1>9, <2>2
  <2>3. CASE toClient'[k] = a /\ a.kind \in L /\ toClient' # toClient
    <3>1. a.kind # "receipt"  BY <1>3, <2>3
    <3>2. j \in Told(K) /\ toClient'[j] = toClient[j]  BY <1>5, <3>1
    <3> QED  BY <1>2, <1>3, <1>9, <2>3, <3>2
  <2> QED  BY <1>5, <1>6, <2>1, <2>2, <2>3
<1> QED  BY <1>1, <1>2, <1>3, <1>7, <1>8, <1>9 DEF Receipted

(* A receipt for a frame the owner sent, or for the write of the lease. *)
LEMMA ReceiptedInput ==
  ASSUME Typed, Receipted, Questions, Numbered, Staged, NEW c \in Links, InputRead(c),
         NEW a, a.kind = "receipt", a.n = First(c).n, toClient' = toClient \/ ReplyIs(c, a)
  PROVE  Receipted'
<1>1. Quietly /\ Hears(a)  BY ReplyHears DEF InputRead, Reading, Hears
<1>2. 1 \in InputsOf(c)  BY DEF InputRead, Reading, InputsOf, AtOf, First
<1>3. CASE toClient' # toClient
  <2>1. c = client.conn /\ Open  BY <1>3 DEF ReplyIs
  <2>2. a.n < client.next  BY <1>2, <2>1 DEF Numbered, First
  <2>3. Told(Grants) = {}  BY <1>2, <2>1 DEF Questions
  <2>4. Told({"attached", "acquired"}) = {}  BY <2>3 DEF Told, Grants
  <2>5. client.phase # "resuming" \/ a.epoch # client.resume.epoch \/ a.n < client.resume.next
    <3>1. InputsOf(client.conn) # {}  BY <1>2, <2>1
    <3> QED  BY <3>1 DEF Staged
  <2> QED  BY <1>1, <2>2, <2>4, <2>5, ReceiptedMore
<1>4. CASE toClient' = toClient  BY <1>1, <1>4, ReceiptedMore
<1> QED  BY <1>3, <1>4

LEMMA ReceiptedDone ==
  ASSUME Typed, Receipted, Epochs, Fitting, Staged, InOrder, NEW a, DoneStep(a)
  PROVE  Receipted'
<1>1. /\ Quietly /\ Hears(a) /\ a.kind = "receipt" /\ a.epoch = lease.epoch
      /\ a.n = lease.high + 1 /\ (toClient' # toClient => lease.owner = client.conn)
  <2>1. Quietly /\ ReplyIs(lease.owner, a) /\ a = Answer("receipt", writer[1].epoch, lease.high + 1, TRUE)
        /\ lease.epoch = writer[1].epoch
    BY DEF DoneStep
  <2>2. a.kind = "receipt" /\ a.epoch = lease.epoch /\ a.n = lease.high + 1
    BY <2>1 DEF Answer
  <2>3. toClient' # toClient => lease.owner = client.conn  BY <2>1 DEF ReplyIs
  <2> QED  BY <2>1, <2>2, <2>3, ReplyHears
<1>2. lease.inflight # 0
  <2>1. lease.inflight = writer[1].item /\ writer[1].item \in Done
    <3>1. 1 \in 1..Len(writer)  BY Elements DEF DoneStep, Drops
    <3> QED  BY <3>1 DEF DoneStep, Done
  <2> QED  BY <2>1 DEF InOrder
<1>3. Reached = lease.high + 1 /\ Reached # 0  BY <1>2, OwnedTypes DEF Reached
<1>4. CASE toClient' # toClient
  <2>1. client.epoch # 0 /\ a.epoch = client.epoch => a.n < client.next
    BY <1>1, <1>3 DEF Fitting, Fits
  <2>2. client.phase = "resuming" /\ a.epoch = client.resume.epoch => a.n < client.resume.next
    BY <1>1, <1>3 DEF Fitting, Fits, Staged
  <2>3. client.epoch = 0 => \A k \in Told({"attached", "acquired"}) :
          toClient[k].epoch # 0 => a.epoch # toClient[k].epoch
    BY <1>1, <1>3 DEF Fitting
  <2> QED  BY <1>1, <2>1, <2>2, <2>3, ReceiptedMore
<1>5. CASE toClient' = toClient  BY <1>1, <1>5, ReceiptedMore
<1> QED  BY <1>4, <1>5

-----------------------------------------------------------------------------
(* What the holder remembers, and what a prompt is told. *)

LEMMA RemembersSame ==
  ASSUME Remembers, writer' = writer, written' = written,
         \/ /\ lease'.epoch = lease.epoch /\ lease'.item = lease.item /\ lease'.ok = lease.ok
            /\ lease'.inflight = lease.inflight
         \/ lease'.inflight = 0 /\ ~lease'.ok
  PROVE  Remembers'
BY DEF Remembers, ItemsOf

LEMMA RemembersWrite ==
  ASSUME Typed, Remembers, Numbered, NEW c \in Links, WriteStep(c)
  PROVE  Remembers'
<1> DEFINE f == First(c)
           m == Len(writer)
<1>1. /\ lease'.inflight = f.item /\ lease'.epoch = lease.epoch /\ lease'.item = lease.item
      /\ lease'.ok = lease.ok /\ written' = written /\ lease.owner = c
      /\ writer'[m + 1] = [epoch |-> f.epoch, item |-> f.item, conn |-> c]
      /\ Len(writer') = m + 1
  BY DEF WriteStep, InputRead, Reading, LeaseHas, Adds
<1>2. m + 1 \in 1..m + 1  BY Elements
<1>3. f.epoch = lease.epoch
  <2>1. f \in Owned  BY <1>1 DEF WriteStep, InputRead, Reading, Owned, InputsOf, AtOf, First
  <2> QED  BY <2>1 DEF Numbered
<1> HIDE DEF m, f
<1>4. m + 1 \in 1..Len(writer') /\ writer'[m + 1].item = lease'.inflight /\ writer'[m + 1].epoch = lease'.epoch
  BY <1>1, <1>2, <1>3
<1>5. lease'.ok => lease'.item \in ItemsOf(written)'  BY <1>1 DEF Remembers, ItemsOf
<1> QED  BY <1>4, <1>5 DEF Remembers

LEMMA RemembersDone ==
  ASSUME Typed, Remembers, NEW a, DoneStep(a) \/ LateStep(a)
  PROVE  Remembers'
<1>1. Drops(writer', writer) /\ Adds(written', written, writer[1].item)
  BY DEF DoneStep, LateStep
<1>2. ItemsOf(written) \subseteq ItemsOf(written)' /\ writer[1].item \in ItemsOf(written)'
  BY <1>1, DoneMoves
<1>3. CASE DoneStep(a)  BY <1>2, <1>3 DEF DoneStep, LeaseHas, Remembers
<1>4. CASE LateStep(a)
  <2>1. /\ lease'.epoch = lease.epoch /\ lease'.item = lease.item /\ lease'.ok = lease.ok
        /\ lease'.inflight = lease.inflight
    BY <1>4 DEF LateStep, SameLease, LeaseHas
  <2>2. ASSUME lease.inflight # 0
        PROVE  \E k \in 1..Len(writer') : writer'[k].item = lease.inflight /\ writer'[k].epoch = lease.epoch
    <3>1. PICK k \in 1..Len(writer) : writer[k].item = lease.inflight /\ writer[k].epoch = lease.epoch
      BY <2>2 DEF Remembers
    <3>2. k # 1  BY <1>4, <3>1 DEF LateStep
    <3>3. k - 1 \in 1..Len(writer') /\ writer'[k - 1] = writer[k]
      <4>1. Len(writer) \in Nat /\ Len(writer') = Len(writer) - 1  BY <1>1, Elements DEF Drops
      <4>2. k - 1 \in 1..Len(writer') /\ (k - 1) + 1 = k  BY <3>2, <4>1
      <4> QED  BY <1>1, <4>2 DEF Drops
    <3> QED  BY <3>1, <3>3
  <2> QED  BY <1>2, <2>1, <2>2 DEF Remembers
<1> QED  BY <1>3, <1>4

(* A prompt's frame moves up, and every other stays what it was. *)
LEMMA TellingFewer ==
  ASSUME Typed, Telling, Quietly, client.asked # 0, NEW c \in Links, NEW s \in {0, 1}, Fewer(c, s)
  PROVE  /\ \A d \in Links : \A k \in InputsOf(d)' : toHolder'[d][k].item = client.asked =>
              /\ d = client.conn /\ toHolder'[d][k].n = Latest /\ client.asked \notin Done /\ Mine = {}
              /\ \A j \in InputsOf(d)' : toHolder'[d][j].item = client.asked => j = k
         /\ \A k \in InputsOf(client.conn)' :
              toHolder'[client.conn][k].n = Latest => toHolder'[client.conn][k].item = client.asked
<1>1. ASSUME NEW d \in Links, NEW k \in InputsOf(d)'
      PROVE  /\ k + Shift(c, s, d) \in InputsOf(d) /\ toHolder'[d][k] = toHolder[d][k + Shift(c, s, d)]
             /\ k \in Int /\ Shift(c, s, d) \in Int
  <2>1. k \in Int /\ Shift(c, s, d) \in Int  BY DEF InputsOf, AtOf, Shift
  <2> QED  BY <2>1, InputsFewer
<1>2. ASSUME NEW d \in Links, NEW k \in InputsOf(d)', toHolder'[d][k].item = client.asked
      PROVE  /\ d = client.conn /\ toHolder'[d][k].n = Latest /\ client.asked \notin Done /\ Mine = {}
             /\ \A j \in InputsOf(d)' : toHolder'[d][j].item = client.asked => j = k
  <2>1. /\ d = client.conn /\ toHolder'[d][k].n = Latest /\ client.asked \notin Done /\ Mine = {}
        /\ \A j \in InputsOf(d) : toHolder[d][j].item = client.asked => j = k + Shift(c, s, d)
    BY <1>1, <1>2 DEF Telling
  <2>2. ASSUME NEW j \in InputsOf(d)', toHolder'[d][j].item = client.asked PROVE j = k
    <3>1. j + Shift(c, s, d) = k + Shift(c, s, d) /\ j \in Int /\ k \in Int /\ Shift(c, s, d) \in Int
      BY <1>1, <2>1, <2>2
    <3> QED  BY <3>1
  <2> QED  BY <2>1, <2>2
<1>3. PICK e \in Links : e = client.conn  BY DEF Typed, Clients
<1>4. \A k \in InputsOf(e)' : toHolder'[e][k].n = Latest => toHolder'[e][k].item = client.asked
  BY <1>1, <1>3 DEF Telling
<1>5. client' = client  BY DEF Quietly
<1> QED  BY <1>2, <1>3, <1>4, <1>5

LEMMA TellingSame ==
  ASSUME Typed, Telling, Quietly, NEW c \in Links, NEW s \in {0, 1}, Fewer(c, s), Done' = Done,
         ItemsOf(written) \subseteq ItemsOf(written)', NEW a, Hears(a),
         a.kind = "receipt" => toClient' = toClient,
         \/ lease'.inflight = 0
         \/ /\ lease'.epoch = lease.epoch /\ lease'.high = lease.high
            /\ lease'.inflight = lease.inflight
  PROVE  Telling'
<1> SUFFICES ASSUME client.asked # 0 PROVE Telling'
  BY DEF Telling, Quietly
<1>1. client' = client /\ Latest' = Latest  BY DEF Quietly, Latest
<1>2. Mine' = Mine /\ \A k \in Mine : toClient'[k] = toClient[k]
  <2>1. CASE toClient' = toClient  BY <1>1, <2>1 DEF Mine, Told
  <2>2. CASE a.kind # "receipt"
    <3>0. PICK K : K = {"receipt"}  OBVIOUS
    <3>1. \A k \in Told(K)' : k \in Told(K) /\ toClient'[k] = toClient[k]
      BY <2>2, <3>0, ToldMore
    <3>2. \A k \in Told(K) : k \in Told(K)' /\ toClient'[k] = toClient[k]
      BY Elements DEF Told, Hears, Adds
    <3> QED  BY <1>1, <3>0, <3>1, <3>2 DEF Mine
  <2> QED  BY <2>1, <2>2
<1>3. /\ \A d \in Links : \A k \in InputsOf(d)' : toHolder'[d][k].item = client.asked =>
           /\ d = client.conn /\ toHolder'[d][k].n = Latest /\ client.asked \notin Done /\ Mine = {}
           /\ \A j \in InputsOf(d)' : toHolder'[d][j].item = client.asked => j = k
      /\ \A k \in InputsOf(client.conn)' :
           toHolder'[client.conn][k].n = Latest => toHolder'[client.conn][k].item = client.asked
  BY TellingFewer
<1>4. lease'.inflight # 0 /\ lease'.epoch = client.epoch /\ lease'.high + 1 = Latest
         => lease'.inflight = client.asked
  BY DEF Telling
<1>5. \A k \in Mine' : IF toClient'[k].ok THEN client.asked \in ItemsOf(written)'
                       ELSE client.asked \notin Done
  BY <1>2 DEF Telling
<1> QED  BY <1>1, <1>2, <1>3, <1>4, <1>5 DEF Telling

LEMMA AskedIs ==
  ASSUME Typed, Staged, client.asked # 0
  PROVE  /\ client.pending = client.asked /\ client.epoch # 0 /\ Open /\ ~Recovering
         /\ link.reset = "no" /\ Attached
BY DEF Staged, Open, Attached

LEMMA TellingWrite ==
  ASSUME Typed, Staged, Telling, Numbered, Fitting, NEW c \in Links, WriteStep(c)
  PROVE  Telling'
<1> DEFINE f == First(c)
           x == f.item
<1>1. /\ Quietly /\ client' = client /\ Latest' = Latest /\ Fewer(c, 1) /\ written' = written
      /\ 1 \in InputsOf(c) /\ lease.owner = c /\ toClient' = toClient
      /\ lease'.epoch = lease.epoch /\ lease'.high = lease.high /\ lease'.inflight = x
      /\ f.n = lease.high + 1
  BY DEF WriteStep, InputRead, Reading, Quietly, Latest, LeaseHas, InputsOf, AtOf, First, IsNext
<1> SUFFICES ASSUME client.asked # 0 PROVE Telling'
  BY <1>1 DEF Telling
<1>2. f \in Owned  BY <1>1 DEF Owned, First
<1>3. Done' = Done \cup {x}
  <2> DEFINE w == [epoch |-> f.epoch, item |-> x, conn |-> c]
  <2>1. Adds(writer', writer, w) /\ w.item = x  BY DEF WriteStep
  <2> HIDE DEF w
  <2> QED  BY <1>1, <2>1, DoneAdds
<1>4. /\ \A d \in Links : \A k \in InputsOf(d)' : toHolder'[d][k].item = client.asked =>
           /\ d = client.conn /\ toHolder'[d][k].n = Latest /\ client.asked \notin Done /\ Mine = {}
           /\ \A j \in InputsOf(d)' : toHolder'[d][j].item = client.asked => j = k
      /\ \A k \in InputsOf(client.conn)' :
           toHolder'[client.conn][k].n = Latest => toHolder'[client.conn][k].item = client.asked
  BY <1>1, TellingFewer
<1>5. Mine' = Mine  BY <1>1 DEF Mine, Told
<1>6. ASSUME x = client.asked
      PROVE  Mine = {} /\ \A d \in Links : \A k \in InputsOf(d)' : toHolder'[d][k].item # client.asked
  <2>1. /\ c = client.conn /\ Mine = {}
        /\ \A j \in InputsOf(c) : toHolder[c][j].item = client.asked => j = 1
    BY <1>1, <1>6 DEF Telling, First
  <2>2. ASSUME NEW d \in Links, NEW k \in InputsOf(d)', toHolder'[d][k].item = client.asked PROVE FALSE
    <3>1. d = c  BY <1>4, <2>1, <2>2
    <3>2. k + 1 \in InputsOf(c) /\ toHolder[c][k + 1].item = client.asked
      BY <1>1, <2>2, <3>1, InputsFewer DEF Shift
    <3>3. k + 1 = 1  BY <2>1, <3>2
    <3>4. k \in 1..Len(toHolder'[d])  BY <2>2 DEF InputsOf, AtOf
    <3> QED  BY <3>3, <3>4
  <2> QED  BY <2>1, <2>2
<1>7. lease'.inflight # 0 /\ lease'.epoch = client.epoch /\ lease'.high + 1 = Latest
         => lease'.inflight = client.asked
  <2> SUFFICES ASSUME lease.epoch = client.epoch, lease.high + 1 = Latest PROVE x = client.asked
    BY <1>1
  <2>1. client.epoch # 0 /\ client.pending = client.asked  BY AskedIs
  <2>2. f.n = client.next - 1  BY <1>1 DEF Latest
  <2> QED  BY <1>2, <2>1, <2>2 DEF Fitting, Fits
<1>8. \A k \in Mine : IF toClient[k].ok THEN client.asked \in ItemsOf(written)
                      ELSE client.asked \notin Done \cup {x}
  BY <1>6 DEF Telling
<1>9. ItemsOf(written)' = ItemsOf(written)  BY <1>1 DEF ItemsOf
<1> HIDE DEF x, f
<1>10. \A d \in Links : \A k \in InputsOf(d)' : toHolder'[d][k].item = client.asked =>
           /\ d = client.conn /\ toHolder'[d][k].n = Latest /\ client.asked \notin Done' /\ Mine = {}
           /\ \A j \in InputsOf(d)' : toHolder'[d][j].item = client.asked => j = k
  BY <1>3, <1>4, <1>6
<1> QED  BY <1>1, <1>3, <1>4, <1>5, <1>7, <1>8, <1>9, <1>10 DEF Telling

(* An answered request: the receipt of a prompt's number is the prompt's. *)
LEMMA TellingInput ==
  ASSUME Typed, Staged, Telling, NEW c \in Links, InputRead(c), writer' = writer,
         NEW a, a.kind = "receipt", a.epoch = First(c).epoch, a.n = First(c).n,
         a.ok => First(c).item \in Done,
         toClient' = toClient \/ ReplyIs(c, a),
         lease'.inflight = 0 \/ lease' = lease
  PROVE  Telling'
<1> DEFINE f == First(c)
<1>1. /\ Quietly /\ client' = client /\ Latest' = Latest /\ Fewer(c, 1) /\ written' = written
      /\ 1 \in InputsOf(c) /\ Done' = Done /\ ItemsOf(written)' = ItemsOf(written) /\ Hears(a)
  BY ReplyHears
     DEF InputRead, Reading, Quietly, Latest, InputsOf, AtOf, First, Done, ItemsOf, Hears
<1> SUFFICES ASSUME client.asked # 0 PROVE Telling'
  BY <1>1 DEF Telling
<1>2. CASE toClient' = toClient
  <2>1. ItemsOf(written) \subseteq ItemsOf(written)'  BY <1>1
  <2> QED  BY <1>1, <1>2, <2>1, TellingSame
<1>3. CASE toClient' # toClient
  <2>0. PICK K : K = {"receipt"}  OBVIOUS
  <2>1. c = client.conn /\ ReplyIs(c, a)  BY <1>3 DEF ReplyIs
  <2>2. /\ \A d \in Links : \A k \in InputsOf(d)' : toHolder'[d][k].item = client.asked =>
             /\ d = client.conn /\ toHolder'[d][k].n = Latest /\ client.asked \notin Done /\ Mine = {}
             /\ \A j \in InputsOf(d)' : toHolder'[d][j].item = client.asked => j = k
        /\ \A k \in InputsOf(client.conn)' :
             toHolder'[client.conn][k].n = Latest => toHolder'[client.conn][k].item = client.asked
    BY <1>1, TellingFewer
  <2>3. \A k \in Mine' : \/ k \in Mine /\ toClient'[k] = toClient[k]
                         \/ toClient'[k] = a /\ a.n = Latest
    <3>1. \A k \in Told(K)' : \/ k \in Told(K) /\ toClient'[k] = toClient[k]
                              \/ toClient'[k] = a
      BY <1>1, <2>0, ToldMore
    <3> QED  BY <1>1, <2>0, <3>1 DEF Mine
  <2>4. ASSUME a.n = Latest
        PROVE  /\ ~a.ok /\ client.asked \notin Done
               /\ \A d \in Links : \A k \in InputsOf(d)' : toHolder'[d][k].item # client.asked
    <3>1. toHolder[c][1].item = client.asked  BY <1>1, <2>1, <2>4 DEF Telling, First
    <3>2. /\ client.asked \notin Done
          /\ \A j \in InputsOf(c) : toHolder[c][j].item = client.asked => j = 1
      BY <1>1, <3>1 DEF Telling
    <3>3. ~a.ok  BY <3>1, <3>2 DEF First
    <3>4. ASSUME NEW d \in Links, NEW k \in InputsOf(d)', toHolder'[d][k].item = client.asked PROVE FALSE
      <4>1. d = c  BY <2>1, <2>2, <3>4
      <4>2. k + 1 \in InputsOf(c) /\ toHolder[c][k + 1].item = client.asked
        BY <1>1, <3>4, <4>1, InputsFewer DEF Shift
      <4>3. k + 1 = 1  BY <3>2, <4>2
      <4>4. k \in 1..Len(toHolder'[d])  BY <3>4 DEF InputsOf, AtOf
      <4> QED  BY <4>3, <4>4
    <3> QED  BY <3>2, <3>3, <3>4
  <2>5. \A k \in Mine' : IF toClient'[k].ok THEN client.asked \in ItemsOf(written)
                         ELSE client.asked \notin Done
    BY <2>3, <2>4 DEF Telling
  <2>6. \A d \in Links : \A k \in InputsOf(d)' : toHolder'[d][k].item = client.asked => Mine' = {}
    BY <2>2, <2>3, <2>4
  <2>7. lease'.inflight # 0 /\ lease'.epoch = client.epoch /\ lease'.high + 1 = Latest
         => lease'.inflight = client.asked
    BY DEF Telling
  <2> QED  BY <1>1, <2>2, <2>5, <2>6, <2>7 DEF Telling
<1> QED  BY <1>2, <1>3

LEMMA TellingDone ==
  ASSUME Typed, Staged, Telling, InOrder, NEW a, DoneStep(a)
  PROVE  Telling'
<1>1. Quietly /\ ReplyIs(lease.owner, a) /\ a = Answer("receipt", writer[1].epoch, lease.high + 1, TRUE)
      /\ lease.epoch = writer[1].epoch /\ lease.inflight = writer[1].item /\ lease'.inflight = 0
      /\ toHolder' = toHolder /\ Drops(writer', writer) /\ Adds(written', written, writer[1].item)
  BY DEF DoneStep, LeaseHas
<1>2. a.kind = "receipt" /\ a.epoch = lease.epoch /\ a.n = lease.high + 1 /\ a.ok
  BY <1>1 DEF Answer
<1>3. /\ Done' = Done /\ ItemsOf(written) \subseteq ItemsOf(written)'
      /\ writer[1].item \in ItemsOf(written)' /\ writer[1].item \in Done
  BY <1>1, DoneMoves
<1>4. client' = client /\ Latest' = Latest /\ Hears(a)  BY <1>1, ReplyHears DEF Quietly, Latest
<1> SUFFICES ASSUME client.asked # 0 PROVE Telling'
  BY <1>4 DEF Telling
<1>5. PICK c \in Links : c = client.conn  BY DEF Typed, Clients
<1>6. Fewer(c, 0) /\ 0 \in {0, 1}  BY <1>1, FewerNone
<1>7. /\ \A d \in Links : \A k \in InputsOf(d)' : toHolder'[d][k].item = client.asked =>
           /\ d = client.conn /\ toHolder'[d][k].n = Latest /\ client.asked \notin Done /\ Mine = {}
           /\ \A j \in InputsOf(d)' : toHolder'[d][j].item = client.asked => j = k
      /\ \A k \in InputsOf(client.conn)' :
           toHolder'[client.conn][k].n = Latest => toHolder'[client.conn][k].item = client.asked
  BY <1>1, <1>6, TellingFewer
<1>8. \A k \in Mine' : \/ k \in Mine /\ toClient'[k] = toClient[k]
                       \/ toClient'[k] = a /\ a.epoch = client.epoch /\ a.n = Latest
  <2>0. PICK K : K = {"receipt"}  OBVIOUS
  <2>1. \A k \in Told(K)' : \/ k \in Told(K) /\ toClient'[k] = toClient[k]
                            \/ toClient'[k] = a
    BY <1>4, <2>0, ToldMore
  <2> QED  BY <1>4, <2>0, <2>1 DEF Mine
<1>9. ASSUME a.epoch = client.epoch, a.n = Latest
      PROVE  client.asked \in ItemsOf(written)' /\ client.asked \in Done
  <2>1. lease.inflight # 0  BY <1>1, <1>3 DEF InOrder
  <2>2. lease.inflight = client.asked  BY <1>2, <1>9, <2>1 DEF Telling
  <2> QED  BY <1>1, <1>3, <2>2
<1>10. \A k \in Mine' : IF toClient'[k].ok THEN client.asked \in ItemsOf(written)'
                        ELSE client.asked \notin Done
  BY <1>2, <1>3, <1>8, <1>9 DEF Telling
<1>11. \A d \in Links : \A k \in InputsOf(d)' : toHolder'[d][k].item = client.asked => Mine' = {}
  BY <1>7, <1>8, <1>9
<1> QED  BY <1>1, <1>3, <1>4, <1>7, <1>10, <1>11 DEF Telling

-----------------------------------------------------------------------------
(* The holder's steps keep the invariant. *)

LEMMA AsksKept ==
  ASSUME IInv, Typed', NEW c \in Links, NEW a \in Answers,
         GrantStep(c, a) \/ ResumeStep(c, a) \/ AnswerStep(c, a)
  PROVE  /\ Staged' /\ Questions' /\ Epochs' /\ InOrder' /\ Settled'
         /\ Hears(a) /\ Quietly /\ Fewer(c, 1) /\ Done' = Done /\ a.kind \in Grants
         /\ ItemsOf(written)' = ItemsOf(written)
<1>1. /\ Reading(c) /\ ReplyIs(c, a) /\ writer' = writer /\ a.kind \in Grants
  BY DEF GrantStep, ResumeStep, AnswerStep, Grants
<1>2. Hears(a)  BY <1>1, ReplyHears
<1>3. /\ Quietly /\ Fewer(c, 1) /\ written' = written /\ ended \subseteq ended'
  BY <1>1 DEF Reading
<1>4. Staged'  BY <1>2, <1>3, StagedHolder DEF IInv
<1>5. Questions'  BY QuestionsHolder DEF IInv
<1>6. Epochs'  BY EpochsHolder DEF IInv
<1>7. InOrder' /\ Settled'  BY <1>1, <1>3, OrderHolder DEF IInv
<1>8. Done' = Done /\ ItemsOf(written)' = ItemsOf(written)  BY <1>1, <1>3 DEF Done, ItemsOf
<1> QED  BY <1>1, <1>2, <1>3, <1>4, <1>5, <1>6, <1>7, <1>8

LEMMA GrantKept ==
  ASSUME IInv, Typed', NEW c \in Links, NEW a \in Answers, GrantStep(c, a)
  PROVE  IInv'
<1>1. /\ Staged' /\ Questions' /\ Epochs' /\ InOrder' /\ Settled'
      /\ Hears(a) /\ Quietly /\ Fewer(c, 1) /\ Done' = Done
      /\ ItemsOf(written)' = ItemsOf(written)
  BY AsksKept
<1>2. /\ Reading(c) /\ First(c).kind \in Asks /\ writer' = writer /\ written' = written
      /\ a.epoch = allocated + 1 /\ a.kind \in {"attached", "acquired"}
      /\ LeaseHas(lease', allocated + 1, c, tokens + 1, 0, 0, FALSE, 0)
  BY DEF GrantStep, Asks, NewLease, Reading
<1>3. InputsOf(c)' = {}  BY <1>2, AskLast DEF IInv
<1>4. Owned' = {}  BY <1>2, <1>3 DEF Owned, LeaseHas
<1>5. /\ Reached' = 0 /\ lease'.epoch = allocated + 1 /\ lease'.inflight = 0 /\ ~lease'.ok
  BY <1>2 DEF Reached, LeaseHas
<1>6. Numbered' /\ Fitting'  BY <1>1, <1>4, <1>5, FittingNew DEF IInv
<1>7. Remembers'  BY <1>2, <1>5, RemembersSame DEF IInv
<1>8. Receipted'
  <2>1. \A j \in Told({"receipt"}) : toClient[j].epoch # a.epoch
    <3> SUFFICES ASSUME NEW j \in Told({"receipt"}) PROVE toClient[j].epoch # a.epoch
      OBVIOUS
    <3>1. toClient[j].epoch <= allocated /\ toClient[j] \in Answers /\ allocated \in Nat
      BY Elements DEF IInv, Epochs, Told, Typed
    <3>2. toClient[j].epoch \in Nat  BY <3>1 DEF Answers
    <3> QED  BY <1>2, <3>1, <3>2
  <2>2. a.kind # "receipt"  BY <1>2
  <2> QED  BY <1>1, <2>1, <2>2, ReceiptedMore DEF IInv
<1>9. Telling'
  <2>2. a.kind # "receipt"  BY <1>2
  <2> QED  BY <1>1, <1>5, <2>2, TellingSame DEF IInv
<1> QED  BY <1>1, <1>6, <1>7, <1>8, <1>9 DEF IInv

LEMMA ResumeKept ==
  ASSUME IInv, Typed', NEW c \in Links, NEW a \in Answers, ResumeStep(c, a)
  PROVE  IInv'
<1>1. /\ Staged' /\ Questions' /\ Epochs' /\ InOrder' /\ Settled'
      /\ Hears(a) /\ Quietly /\ Fewer(c, 1) /\ Done' = Done
      /\ ItemsOf(written)' = ItemsOf(written)
  BY AsksKept
<1>2. /\ Reading(c) /\ First(c).kind \in Asks /\ writer' = writer /\ written' = written
      /\ a.kind = "resumed"
      /\ LeaseHas(lease', lease.epoch, c, tokens + 1, lease.high, lease.item, lease.ok, lease.inflight)
  BY DEF ResumeStep, SameLease, Asks, Reading
<1>3. InputsOf(c)' = {}  BY <1>2, AskLast DEF IInv
<1>4. Owned' = {}  BY <1>2, <1>3 DEF Owned, LeaseHas
<1>5. /\ Reached' = Reached /\ lease'.epoch = lease.epoch /\ lease'.inflight = lease.inflight
      /\ lease'.high = lease.high /\ lease'.item = lease.item /\ lease'.ok = lease.ok
  BY <1>2 DEF Reached, LeaseHas
<1>6. Numbered' /\ Fitting'
  <2>1. a.kind \notin {"attached", "acquired"} /\ Owned' \subseteq Owned  BY <1>2, <1>4
  <2> QED  BY <1>1, <1>5, <2>1, FittingFewer DEF IInv
<1>7. Remembers'  BY <1>2, <1>5, RemembersSame DEF IInv
<1>8. Receipted'  BY <1>1, <1>2, ReceiptedMore DEF IInv
<1>9. Telling'
  <2>2. a.kind # "receipt"  BY <1>2
  <2> QED  BY <1>1, <1>5, <2>2, TellingSame DEF IInv
<1> QED  BY <1>1, <1>6, <1>7, <1>8, <1>9 DEF IInv

LEMMA AnswerKept ==
  ASSUME IInv, Typed', NEW c \in Links, NEW a \in Answers, AnswerStep(c, a)
  PROVE  IInv'
<1>1. /\ Staged' /\ Questions' /\ Epochs' /\ InOrder' /\ Settled'
      /\ Hears(a) /\ Quietly /\ Fewer(c, 1) /\ Done' = Done /\ a.kind \in Grants
      /\ ItemsOf(written)' = ItemsOf(written)
  BY AsksKept
<1>2. /\ Reading(c) /\ First(c).kind \in Asks /\ writer' = writer /\ written' = written
      /\ lease' = lease /\ ReplyIs(c, a) /\ a.kind # "receipt"
      /\ a.epoch = 0 \/ (First(c).kind = "attach" /\ First(c).n # 1)
  BY DEF AnswerStep, Asks, Reading
<1>3. toClient' # toClient => a.epoch = 0 \/ client.epoch # 0
  <2>1. CASE toClient' # toClient /\ a.epoch # 0
    <3>1. c = client.conn /\ Open  BY <1>2, <2>1 DEF ReplyIs
    <3>2. Question(First(c))  BY <1>2, <3>1, AskLast DEF IInv
    <3> QED  BY <1>2, <2>1, <3>2 DEF Question
  <2> QED  BY <2>1
<1>4. Owned' \subseteq Owned
  <2>1. 1 \in {0, 1} /\ lease'.owner = lease.owner  BY <1>2
  <2> QED  BY <1>1, <2>1, OwnedFewer DEF IInv
<1>5. Reached' = Reached  BY <1>2 DEF Reached
<1>6. Numbered' /\ Fitting'  BY <1>1, <1>2, <1>3, <1>4, <1>5, FittingFewer DEF IInv
<1>7. Remembers'  BY <1>2, RemembersSame DEF IInv
<1>8. Receipted'  BY <1>1, <1>2, <1>3, ReceiptedMore DEF IInv
<1>9. Telling'  BY <1>1, <1>2, TellingSame DEF IInv
<1> QED  BY <1>1, <1>6, <1>7, <1>8, <1>9 DEF IInv

LEMMA ReleaseKept ==
  ASSUME IInv, Typed', NEW c \in Links, NEW a \in Answers, ReleaseStep(c, a)
  PROVE  IInv'
<1>1. /\ Reading(c) /\ Quietly /\ Fewer(c, 1) /\ writer' = writer /\ written' = written
      /\ ended \subseteq ended' /\ Hears(a) /\ a.kind = "released" /\ a.epoch = lease.epoch
      /\ allocated' = allocated /\ tokens' = tokens
      /\ LeaseHas(lease', 0, 0, 0, 0, 0, FALSE, 0)
  BY ReplyHears DEF ReleaseStep, Reading, Counted
<1>2. /\ lease'.epoch = 0 /\ lease'.owner = 0 /\ lease'.token = 0 /\ lease'.inflight = 0
      /\ ~lease'.ok /\ Reached' = 0
  BY <1>1 DEF LeaseHas, Reached
<1>3. /\ 0 \notin Links /\ client.conn \in Links /\ allocated \in Nat /\ tokens \in Nat
  BY Bounds DEF IInv, Typed, Clients
<1>4. Done' = Done /\ ItemsOf(written)' = ItemsOf(written)  BY <1>1 DEF Done, ItemsOf
<1>5. Staged'  BY <1>1, StagedHolder DEF IInv
<1>6. Questions'  BY QuestionsReleased DEF IInv
<1>7. Epochs'
  <2>1. a.epoch <= allocated  BY <1>1 DEF IInv, Epochs
  <2>2. a.kind \notin {"resumed", "attached", "acquired"}  BY <1>1
  <2>3. allocated <= allocated' /\ lease'.epoch <= allocated' /\ lease'.token <= tokens'
    BY <1>1, <1>2, <1>3
  <2>4. lease'.owner # client.conn  BY <1>2, <1>3
  <2> QED  BY <1>1, <2>1, <2>2, <2>3, <2>4, EpochsPlain DEF IInv
<1>8. InOrder' /\ Settled'  BY <1>1, OrderHolder DEF IInv
<1>9. Numbered' /\ Fitting'
  <2>1. Owned' = {}  BY <1>2, <1>3 DEF Owned
  <2> QED  BY <1>1, <1>2, <2>1, FittingNew DEF IInv
<1>10. Remembers'  BY <1>1, <1>2, RemembersSame DEF IInv
<1>11. Receipted'  BY <1>1, ReceiptedMore DEF IInv
<1>12. Telling'
  <2>1. a.kind # "receipt"  BY <1>1
  <2> QED  BY <1>1, <1>2, <1>4, <2>1, TellingSame DEF IInv
<1> QED  BY <1>5, <1>6, <1>7, <1>8, <1>9, <1>10, <1>11, <1>12 DEF IInv

(* The lease stays as it is, or loses its owner. *)
LEMMA SameOrOwnerless ==
  ASSUME Typed, NEW c \in Links, lease' = lease \/ (lease.owner = c /\ SameLease(0, lease.token))
  PROVE  /\ lease'.epoch = lease.epoch /\ lease'.token = lease.token /\ lease'.high = lease.high
         /\ lease'.item = lease.item /\ lease'.ok = lease.ok /\ lease'.inflight = lease.inflight
         /\ lease'.owner = lease.owner \/ lease'.owner \notin Links
         /\ lease'.owner = client.conn => lease.owner = client.conn
         /\ Reached' = Reached
<1>1. 0 \notin Links /\ client.conn \in Links  BY Bounds DEF Typed, Clients
<1>2. /\ lease'.epoch = lease.epoch /\ lease'.token = lease.token /\ lease'.high = lease.high
      /\ lease'.item = lease.item /\ lease'.ok = lease.ok /\ lease'.inflight = lease.inflight
      /\ lease'.owner = lease.owner \/ lease'.owner = 0
  BY DEF SameLease, LeaseHas
<1> QED  BY <1>1, <1>2 DEF Reached

LEMMA PassKept ==
  ASSUME IInv, Typed', NEW c \in Links, NEW a \in Answers, PassStep(c, a)
  PROVE  IInv'
<1>1. /\ Reading(c) /\ Quietly /\ Fewer(c, 1) /\ writer' = writer /\ written' = written
      /\ ended \subseteq ended' /\ Hears(a) /\ a.kind = "close" /\ a.epoch = 0
      /\ allocated' = allocated /\ tokens' = tokens
  <2>1. Hears(a)  BY ReplyHears DEF PassStep, Hears
  <2> QED  BY <2>1 DEF PassStep, Reading, Counted
<1>2. /\ lease'.epoch = lease.epoch /\ lease'.token = lease.token /\ lease'.high = lease.high
      /\ lease'.item = lease.item /\ lease'.ok = lease.ok /\ lease'.inflight = lease.inflight
      /\ lease'.owner = lease.owner \/ lease'.owner \notin Links
      /\ lease'.owner = client.conn => lease.owner = client.conn
      /\ Reached' = Reached
  BY SameOrOwnerless DEF IInv, PassStep
<1>4. Done' = Done /\ ItemsOf(written)' = ItemsOf(written)  BY <1>1 DEF Done, ItemsOf
<1>5. Staged'  BY <1>1, StagedHolder DEF IInv
<1>6. Questions'  BY <1>1, QuestionsPlain DEF IInv
<1>7. Epochs'
  <2>1. allocated \in Nat /\ a.epoch <= allocated  BY <1>1 DEF IInv, Typed
  <2>2. a.kind \notin {"resumed", "attached", "acquired"}  BY <1>1
  <2>3. allocated <= allocated' /\ lease'.epoch <= allocated' /\ lease'.token <= tokens'
    BY <1>1, <1>2, <2>1 DEF IInv, Epochs
  <2> QED  BY <1>1, <1>2, <2>1, <2>2, <2>3, EpochsPlain DEF IInv
<1>8. InOrder' /\ Settled'  BY <1>1, OrderHolder DEF IInv
<1>9. Numbered' /\ Fitting'
  <2>1. Owned' \subseteq Owned
    <3>1. 1 \in {0, 1}  OBVIOUS
    <3> QED  BY <1>1, <1>2, <3>1, OwnedFewer DEF IInv
  <2>2. a.kind \notin {"attached", "acquired"}  BY <1>1
  <2> QED  BY <1>1, <1>2, <1>4, <2>1, <2>2, FittingFewer DEF IInv
<1>10. Remembers'  BY <1>1, <1>2, RemembersSame DEF IInv
<1>11. Receipted'  BY <1>1, ReceiptedMore DEF IInv
<1>12. Telling'
  <2>1. a.kind # "receipt"  BY <1>1
  <2> QED  BY <1>1, <1>2, <1>4, <2>1, TellingSame DEF IInv
<1> QED  BY <1>5, <1>6, <1>7, <1>8, <1>9, <1>10, <1>11, <1>12 DEF IInv

(* An input that the holder reads is one of those on the owner's connection. *)
LEMMA ReadOwned ==
  ASSUME IInv, NEW c \in Links, InputRead(c)
  PROVE  /\ Reading(c) /\ Quietly /\ Fewer(c, 1) /\ written' = written
         /\ First(c) \in Frames /\ First(c) \in Owned /\ First(c).epoch = lease.epoch
         /\ First(c).item # 0
<1>1. /\ Reading(c) /\ Quietly /\ Fewer(c, 1) /\ written' = written /\ lease.owner = c
      /\ First(c).kind = "input" /\ 1 \in 1..Len(toHolder[c])
  BY DEF InputRead, Reading
<1>2. First(c) \in Frames  BY <1>1, Elements DEF First, IInv
<1>3. 1 \in InputsOf(c)  BY <1>1 DEF InputsOf, AtOf, First
<1>4. First(c) \in Owned  BY <1>1, <1>3 DEF Owned, First
<1>5. First(c).item # 0  BY <1>3 DEF IInv, InOrder, First
<1> QED  BY <1>1, <1>2, <1>4, <1>5 DEF IInv, Numbered

(* A receipt of a frame read from connection c, or none. *)
LEMMA ReceiptKept ==
  ASSUME IInv, Typed', NEW c \in Links, InputRead(c), NEW a \in Answers,
         a.kind = "receipt", a.epoch = First(c).epoch, a.n = First(c).n,
         toClient' = toClient \/ ReplyIs(c, a),
         lease'.epoch = lease.epoch, lease'.owner = lease.owner, lease'.token = lease.token
  PROVE  Staged' /\ Questions' /\ Epochs' /\ Receipted' /\ Hears(a)
<1>1. /\ Reading(c) /\ Quietly /\ Fewer(c, 1) /\ First(c).epoch = lease.epoch
  BY ReadOwned
<1>2. Hears(a)  BY ReplyHears DEF Hears
<1>3. allocated' = allocated /\ tokens' = tokens  BY DEF InputRead, Counted
<1>4. Staged'  BY <1>1, <1>2, StagedHolder DEF IInv
<1>5. Questions'  BY <1>1, <1>2, QuestionsPlain DEF IInv
<1>6. Epochs'
  <2>1. allocated \in Nat /\ a.epoch <= allocated /\ lease.epoch <= allocated
        /\ lease.token <= tokens
    BY <1>1 DEF IInv, Typed, Epochs
  <2>2. a.kind \notin {"resumed", "attached", "acquired"}  OBVIOUS
  <2>3. allocated <= allocated' /\ lease'.epoch <= allocated' /\ lease'.token <= tokens'
    BY <1>3, <2>1
  <2> QED  BY <1>1, <1>2, <2>1, <2>2, <2>3, EpochsPlain DEF IInv
<1>7. Receipted'  BY ReceiptedInput DEF IInv
<1> QED  BY <1>2, <1>4, <1>5, <1>6, <1>7

LEMMA WriteKept ==
  ASSUME IInv, Typed', NEW c \in Links, WriteStep(c)
  PROVE  IInv'
<1> DEFINE f == First(c)
<1>1. /\ InputRead(c) /\ IsNext(f) /\ toClient' = toClient
      /\ LeaseHas(lease', lease.epoch, lease.owner, lease.token, lease.high, lease.item, lease.ok,
                  f.item)
      /\ Adds(writer', writer, [epoch |-> f.epoch, item |-> f.item, conn |-> c])
  BY DEF WriteStep
<1>2. /\ Reading(c) /\ Quietly /\ Fewer(c, 1) /\ written' = written
      /\ f \in Frames /\ f \in Owned /\ f.item # 0
  BY <1>1, ReadOwned
<1>3. /\ lease'.epoch = lease.epoch /\ lease'.owner = lease.owner /\ lease'.token = lease.token
      /\ lease'.inflight = f.item /\ lease'.high = lease.high /\ Reached' = f.n
  BY <1>1, <1>2 DEF LeaseHas, Reached, IsNext
<1>4. PICK a \in Answers : a.kind = "receipt" /\ a.epoch = f.epoch /\ a.n = f.n
  BY <1>2, ReceiptIs
<1>5. Staged' /\ Questions' /\ Epochs' /\ Receipted' /\ Hears(a)
  BY <1>1, <1>3, <1>4, ReceiptKept
<1>6. InOrder' /\ Settled'  BY OrderWrite DEF IInv
<1>7. Numbered' /\ Fitting'
  <2>1. Done' = Done \cup {f.item}
    <3> DEFINE w == [epoch |-> f.epoch, item |-> f.item, conn |-> c]
    <3>1. Adds(writer', writer, w) /\ w.item = f.item  BY <1>1
    <3> HIDE DEF w
    <3> QED  BY <1>2, <3>1, DoneAdds DEF IInv
  <2> HIDE DEF f
  <2>2. Done' \subseteq Done \cup {First(c).item}  BY <2>1 DEF f
  <2> QED  BY <1>1, <1>3, <1>4, <1>5, <2>2, FittingNext DEF IInv, f
<1>8. Remembers'  BY RemembersWrite DEF IInv
<1>9. Telling'  BY TellingWrite DEF IInv
<1> QED  BY <1>5, <1>6, <1>7, <1>8, <1>9 DEF IInv

LEMMA RefuseKept ==
  ASSUME IInv, Typed', NEW c \in Links, NEW a \in Answers, RefuseStep(c, a)
  PROVE  IInv'
<1> DEFINE f == First(c)
<1>1. /\ InputRead(c) /\ IsNext(f) /\ writer' = writer
      /\ LeaseHas(lease', lease.epoch, lease.owner, lease.token, f.n, f.item, FALSE, 0)
      /\ a = Receipt(f, FALSE) /\ ReplyIs(c, a)
  BY DEF RefuseStep
<1>2. /\ Reading(c) /\ Quietly /\ Fewer(c, 1) /\ written' = written
      /\ f \in Frames /\ f \in Owned /\ f.item # 0
  BY <1>1, ReadOwned
<1>3. /\ lease'.epoch = lease.epoch /\ lease'.owner = lease.owner /\ lease'.token = lease.token
      /\ lease'.inflight = 0 /\ ~lease'.ok /\ Reached' = f.n
  BY <1>1 DEF LeaseHas, Reached
<1>4. a.kind = "receipt" /\ a.epoch = f.epoch /\ a.n = f.n /\ ~a.ok
  BY <1>1, <1>2, ReceiptIs
<1>5. Staged' /\ Questions' /\ Epochs' /\ Receipted' /\ Hears(a)
  BY <1>1, <1>3, <1>4, ReceiptKept
<1>6. InOrder' /\ Settled'  BY <1>1, <1>2, OrderHolder DEF IInv, Reading
<1>7. Numbered' /\ Fitting'
  <2>1. Done' = Done  BY <1>1, <1>2 DEF Done, ItemsOf
  <2> QED  BY <1>1, <1>3, <1>4, <1>5, <2>1, FittingNext DEF IInv
<1>8. Remembers'  BY <1>1, <1>2, <1>3, RemembersSame DEF IInv
<1>9. Telling'  BY <1>1, <1>3, <1>4, TellingInput DEF IInv
<1> QED  BY <1>5, <1>6, <1>7, <1>8, <1>9 DEF IInv

LEMMA RepeatKept ==
  ASSUME IInv, Typed', NEW c \in Links, NEW b \in Answers, RepeatStep(c, b)
  PROVE  IInv'
<1> DEFINE f == First(c)
<1>1. InputRead(c) /\ writer' = writer /\ lease' = lease  BY DEF RepeatStep
<1>2. /\ Reading(c) /\ Quietly /\ Fewer(c, 1) /\ written' = written
      /\ f \in Frames /\ f \in Owned /\ f.item # 0
  BY <1>1, ReadOwned
<1>3. lease.ok \in BOOLEAN  BY DEF IInv, Typed, Leases
<1>4. PICK a \in Answers : /\ a.kind = "receipt" /\ a.epoch = f.epoch /\ a.n = f.n
                           /\ a.ok => f.item \in Done
                           /\ toClient' = toClient \/ ReplyIs(c, a)
  <2>1. CASE toClient' = toClient \/ (ReplyIs(c, b) /\ b = Receipt(f, FALSE))
    <3>1. /\ Receipt(f, FALSE) \in Answers /\ Receipt(f, FALSE).kind = "receipt"
          /\ Receipt(f, FALSE).epoch = f.epoch /\ Receipt(f, FALSE).n = f.n
          /\ ~Receipt(f, FALSE).ok
      BY <1>2, ReceiptIs
    <3> QED  BY <2>1, <3>1
  <2>2. CASE ReplyIs(c, b) /\ b = Receipt(f, lease.ok) /\ f.item = lease.item
    <3>1. /\ b.kind = "receipt" /\ b.epoch = f.epoch /\ b.n = f.n /\ (b.ok <=> lease.ok)
      BY <1>2, <1>3, <2>2, ReceiptIs
    <3>2. b.ok => f.item \in Done  BY <2>2, <3>1 DEF IInv, Remembers, Done
    <3> QED  BY <2>2, <3>1, <3>2
  <2> QED  BY <2>1, <2>2 DEF RepeatStep
<1>5. Staged' /\ Questions' /\ Epochs' /\ Receipted' /\ Hears(a)
  BY <1>1, <1>4, ReceiptKept
<1>6. InOrder' /\ Settled'  BY <1>1, <1>2, OrderHolder DEF IInv, Reading
<1>7. Numbered' /\ Fitting'
  <2>1. Done' = Done /\ Reached' = Reached /\ lease'.epoch = lease.epoch
    BY <1>1, <1>2 DEF Done, ItemsOf, Reached
  <2>2. Owned' \subseteq Owned
    <3>1. 1 \in {0, 1} /\ lease'.owner = lease.owner  BY <1>1
    <3> QED  BY <1>2, <3>1, OwnedFewer DEF IInv
  <2>3. a.kind \notin {"attached", "acquired"}  BY <1>4
  <2> QED  BY <1>2, <1>5, <2>1, <2>2, <2>3, FittingFewer DEF IInv
<1>8. Remembers'  BY <1>1, <1>2, RemembersSame DEF IInv
<1>9. Telling'  BY <1>1, <1>4, TellingInput DEF IInv
<1> QED  BY <1>5, <1>6, <1>7, <1>8, <1>9 DEF IInv

(* A write that ends moves its input, in order, to what was written. *)
LEMMA EndsKept ==
  ASSUME IInv, Typed', NEW a \in Answers, DoneStep(a) \/ LateStep(a)
  PROVE  /\ Staged' /\ Questions' /\ InOrder' /\ Settled' /\ Remembers'
         /\ Hears(a) /\ Quietly /\ Done' = Done /\ ItemsOf(written) \subseteq ItemsOf(written)'
         /\ client.conn \in Links /\ Fewer(client.conn, 0) /\ Owned' \subseteq Owned
         /\ Reached' = Reached /\ lease'.epoch = lease.epoch
<1>1. /\ Quietly /\ toHolder' = toHolder /\ ended \subseteq ended'
      /\ Drops(writer', writer) /\ Adds(written', written, writer[1].item)
      /\ a.kind \in {"close", "receipt"}
  <2>1. CASE DoneStep(a)
    <3>1. a.kind = "receipt"  BY <2>1 DEF DoneStep, Answer
    <3> QED  BY <2>1, <3>1 DEF DoneStep
  <2>2. CASE LateStep(a)  BY <2>2 DEF LateStep
  <2> QED  BY <2>1, <2>2
<1>2. Hears(a)
  <2>1. PICK d : ReplyIs(d, a)  BY DEF DoneStep, LateStep
  <2> QED  BY <2>1, ReplyHears
<1>3. client.conn \in Links /\ Fewer(client.conn, 0)
  <2>1. client.conn \in Links  BY DEF IInv, Typed, Clients
  <2> QED  BY <1>1, <2>1, FewerNone DEF IInv
<1>4. /\ Done' = Done /\ ItemsOf(written) \subseteq ItemsOf(written)' /\ writer[1].item \in Done
  BY <1>1, DoneMoves DEF IInv
<1>5. /\ Reached' = Reached /\ lease'.epoch = lease.epoch
      /\ lease'.owner = lease.owner \/ lease'.owner \notin Links
  <2>1. CASE DoneStep(a)
    <3>1. lease.inflight # 0  BY <1>4, <2>1 DEF IInv, InOrder, DoneStep
    <3> QED  BY <2>1, <3>1 DEF DoneStep, LeaseHas, Reached
  <2>2. CASE LateStep(a)
    <3>1. writer[1].conn \in Links
      <4>1. 1 \in 1..Len(writer)
        <5>1. writer \in Seq(Writes)  BY DEF IInv, Typed
        <5> QED  BY <2>2, <5>1 DEF LateStep
      <4> QED  BY <4>1, Elements DEF IInv, Writes
    <3>2. PICK d \in Links : d = writer[1].conn  BY <3>1
    <3> QED  BY <2>2, <3>2, SameOrOwnerless DEF IInv, LateStep
  <2> QED  BY <2>1, <2>2
<1>6. 0 \in {0, 1}  OBVIOUS
<1>7. Staged'  BY <1>1, <1>2, <1>3, <1>6, StagedHolder DEF IInv
<1>8. Questions'  BY <1>1, <1>2, <1>3, <1>6, QuestionsPlain DEF IInv
<1>9. InOrder' /\ Settled'  BY <1>1, OrderDone DEF IInv
<1>10. Remembers'  BY RemembersDone DEF IInv
<1>11. Owned' \subseteq Owned  BY <1>3, <1>5, <1>6, OwnedFewer DEF IInv
<1> QED  BY <1>1, <1>2, <1>3, <1>4, <1>5, <1>7, <1>8, <1>9, <1>10, <1>11

LEMMA DoneKept ==
  ASSUME IInv, Typed', NEW a \in Answers, DoneStep(a)
  PROVE  IInv'
<1>1. /\ Staged' /\ Questions' /\ InOrder' /\ Settled' /\ Remembers'
      /\ Hears(a) /\ Quietly /\ Done' = Done /\ client.conn \in Links /\ Fewer(client.conn, 0)
      /\ Owned' \subseteq Owned /\ Reached' = Reached /\ lease'.epoch = lease.epoch
  BY EndsKept
<1>2. /\ lease.epoch = writer[1].epoch /\ allocated' = allocated /\ tokens' = tokens
      /\ LeaseHas(lease', lease.epoch, lease.owner, lease.token, lease.high + 1, writer[1].item,
                  TRUE, 0)
      /\ a.kind = "receipt" /\ a.epoch = lease.epoch
  BY DEF DoneStep, Counted, Answer
<1>3. 0 \in {0, 1}  OBVIOUS
<1>4. Numbered' /\ Fitting'
  <2>1. a.kind \notin {"attached", "acquired"}  BY <1>2
  <2> QED  BY <1>1, <1>3, <2>1, FittingFewer DEF IInv
<1>5. Epochs'
  <2>1. allocated \in Nat /\ a.epoch <= allocated /\ lease.epoch <= allocated
        /\ lease.token <= tokens
    BY <1>2 DEF IInv, Typed, Epochs
  <2>2. a.kind \notin {"resumed", "attached", "acquired"}  BY <1>2
  <2>3. /\ lease'.epoch = lease.epoch /\ lease'.owner = lease.owner /\ lease'.token = lease.token
    BY <1>2 DEF LeaseHas
  <2>4. allocated <= allocated' /\ lease'.epoch <= allocated' /\ lease'.token <= tokens'
    BY <1>2, <2>1, <2>3
  <2> QED  BY <1>1, <2>1, <2>2, <2>3, <2>4, EpochsPlain DEF IInv
<1>6. Receipted'  BY ReceiptedDone DEF IInv
<1>7. Telling'  BY TellingDone DEF IInv
<1> QED  BY <1>1, <1>4, <1>5, <1>6, <1>7 DEF IInv

LEMMA LateKept ==
  ASSUME IInv, Typed', NEW a \in Answers, LateStep(a)
  PROVE  IInv'
<1>1. /\ Staged' /\ Questions' /\ InOrder' /\ Settled' /\ Remembers'
      /\ Hears(a) /\ Quietly /\ Done' = Done /\ ItemsOf(written) \subseteq ItemsOf(written)'
      /\ client.conn \in Links /\ Fewer(client.conn, 0)
      /\ Owned' \subseteq Owned /\ Reached' = Reached /\ lease'.epoch = lease.epoch
  BY EndsKept
<1>2. /\ allocated' = allocated /\ tokens' = tokens /\ a.kind = "close" /\ a.epoch = 0
      /\ lease'.epoch = lease.epoch /\ lease'.high = lease.high /\ lease'.token = lease.token
      /\ lease'.inflight = lease.inflight
      /\ lease'.owner = client.conn => lease.owner = client.conn
  <2>1. 1 \in 1..Len(writer)
    <3>1. writer \in Seq(Writes)  BY DEF IInv, Typed
    <3> QED  BY <3>1 DEF LateStep
  <2>2. PICK d \in Links : d = writer[1].conn  BY <2>1, Elements DEF IInv, Writes
  <2>3. /\ lease'.epoch = lease.epoch /\ lease'.high = lease.high /\ lease'.token = lease.token
        /\ lease'.inflight = lease.inflight
        /\ lease'.owner = client.conn => lease.owner = client.conn
    BY <2>2, SameOrOwnerless DEF IInv, LateStep
  <2> QED  BY <2>3 DEF LateStep, Counted
<1>3. 0 \in {0, 1}  OBVIOUS
<1>4. Numbered' /\ Fitting'
  <2>1. a.kind \notin {"attached", "acquired"}  BY <1>2
  <2> QED  BY <1>1, <1>3, <2>1, FittingFewer DEF IInv
<1>5. Epochs'
  <2>1. allocated \in Nat /\ a.epoch <= allocated /\ lease.epoch <= allocated
        /\ lease.token <= tokens
    BY <1>2 DEF IInv, Typed, Epochs
  <2>2. a.kind \notin {"resumed", "attached", "acquired"}  BY <1>2
  <2>4. allocated <= allocated' /\ lease'.epoch <= allocated' /\ lease'.token <= tokens'
    BY <1>2, <2>1
  <2> QED  BY <1>1, <1>2, <2>1, <2>2, <2>4, EpochsPlain DEF IInv
<1>6. Receipted'  BY <1>1, <1>2, ReceiptedMore DEF IInv
<1>7. Telling'
  <2>1. a.kind # "receipt"  BY <1>2
  <2> QED  BY <1>1, <1>2, <1>3, <2>1, TellingSame DEF IInv
<1> QED  BY <1>1, <1>4, <1>5, <1>6, <1>7 DEF IInv

LEMMA AloneKept ==
  ASSUME IInv, Typed', AloneStep
  PROVE  IInv'
<1>1. /\ Quietly /\ toHolder' = toHolder /\ toClient' = toClient /\ ended' = ended
      /\ writer' = writer /\ written' = written
      /\ lease'.inflight = 0 /\ lease'.high = 0 /\ ~lease'.ok /\ lease'.owner \in {0, Other}
      /\ \/ lease'.epoch = 0 /\ lease'.token = 0 /\ allocated' = allocated /\ tokens' = tokens
         \/ /\ lease'.epoch = allocated + 1 /\ lease'.token = tokens + 1
            /\ allocated' = allocated + 1 /\ tokens' = tokens + 1
  BY DEF AloneStep, LeaseHas, NewLease, Counted
<1>2. PICK a \in Answers : a.kind = "close" /\ a.epoch = 0  BY CloseIs
<1>3. Hears(a)  BY <1>1 DEF Hears
<1>4. /\ client.conn \in Links /\ Fewer(client.conn, 0) /\ 0 \in {0, 1}
      /\ allocated \in Nat /\ tokens \in Nat
  <2>1. client.conn \in Links /\ allocated \in Nat /\ tokens \in Nat  BY DEF IInv, Typed, Clients
  <2> QED  BY <1>1, <2>1, FewerNone DEF IInv
<1>5. Done' = Done /\ ItemsOf(written)' = ItemsOf(written)  BY <1>1 DEF Done, ItemsOf
<1>6. lease'.owner \notin Links /\ Owned' = {} /\ Reached' = 0
  BY <1>1, Bounds DEF Owned, Reached
<1>7. Staged'  BY <1>1, <1>3, <1>4, StagedHolder DEF IInv
<1>8. Questions'
  <2>1. a.kind \in {"close", "receipt"}  BY <1>2
  <2> QED  BY <1>1, <1>3, <1>4, <2>1, QuestionsPlain DEF IInv
<1>9. Epochs'
  <2>1. a.kind \notin {"resumed", "attached", "acquired"} /\ a.epoch <= allocated
    BY <1>2, <1>4
  <2>2. allocated <= allocated' /\ lease'.epoch <= allocated' /\ lease'.token <= tokens'
    BY <1>1, <1>4
  <2> QED  BY <1>1, <1>3, <1>4, <1>6, <2>1, <2>2, EpochsPlain DEF IInv
<1>10. InOrder' /\ Settled'  BY <1>1, <1>4, OrderHolder DEF IInv
<1>11. Numbered' /\ Fitting'  BY <1>1, <1>4, <1>6, FittingNew DEF IInv
<1>12. Remembers'  BY <1>1, RemembersSame DEF IInv
<1>13. Receipted'  BY <1>1, <1>3, ReceiptedMore DEF IInv
<1>14. Telling'  BY <1>1, <1>3, <1>4, <1>5, TellingSame DEF IInv
<1> QED  BY <1>7, <1>8, <1>9, <1>10, <1>11, <1>12, <1>13, <1>14 DEF IInv

(* Every step of the holder keeps the invariant. *)
LEMMA HolderKeeps ==
  ASSUME IInv, \/ \E c \in Links : HolderReads(c)
               \/ WriteCompletes \/ LeaseExpires \/ OtherTakes \/ OtherLeaves
  PROVE  IInv'
<1>1. Typed  BY DEF IInv
<1>2. ASSUME NEW c \in Links, HolderReads(c) PROVE IInv'
  BY <1>1, <1>2, HolderReadsIs, WriteKept, GrantKept, ResumeKept, AnswerKept, ReleaseKept, PassKept,
     RefuseKept, RepeatKept
<1>3. CASE WriteCompletes  BY <1>1, <1>3, CompletesIs, DoneKept, LateKept
<1>4. CASE LeaseExpires \/ OtherTakes \/ OtherLeaves  BY <1>1, <1>4, AloneIs, AloneKept
<1> QED  BY <1>2, <1>3, <1>4

-----------------------------------------------------------------------------
(* The steps of the desk, by what they put on the wire. *)

HolderStill == UNCHANGED <<lease, allocated, tokens, writer, written>>
New == (Len(made) + 1)..Len(made')
(* The inputs F are sent by the client, at most one; nothing else is. *)
Wire(F) ==
  \/ /\ F = {}
     /\ \/ toHolder' = toHolder \/ Fewer(client.conn, 0)
        \/ \E c \in Links : \E f \in Frames : f.kind # "input" /\ More(c, f)
  \/ \E f \in Frames : F = {f} /\ f.kind = "input" /\ More(client.conn, f)
NotSent == \A i \in Inputs : fate[i] = "dropped" => ~Sends(i)

LEMMA StillDone ==
  ASSUME HolderStill
  PROVE  /\ Done' = Done /\ Reached' = Reached /\ ItemsOf(written)' = ItemsOf(written)
         /\ \A n, x : Fresh(n, x)' <=> Fresh(n, x)
<1>1. Done' = Done /\ Reached' = Reached /\ ItemsOf(written)' = ItemsOf(written)
  BY DEF HolderStill, Done, Reached, ItemsOf
<1>2. \A n, x : Fresh(n, x)' <=> Fresh(n, x)  BY <1>1 DEF Fresh
<1> QED  BY <1>1, <1>2

LEMMA WireSent ==
  ASSUME Typed, NEW F, Wire(F), NEW d \in Links, NEW k \in InputsOf(d)'
  PROVE  \/ \E j \in InputsOf(d) : toHolder'[d][k] = toHolder[d][j]
         \/ d = client.conn /\ toHolder'[d][k] \in F
<1>0. PICK K : K = {"input"}  OBVIOUS
<1>1. k \in AtOf(d, K)'  BY <1>0 DEF InputsOf
<1>2. client.conn \in Links  BY DEF Typed, Clients
<1>3. CASE toHolder' = toHolder  BY <1>3 DEF InputsOf, AtOf
<1>4. CASE Fewer(client.conn, 0)
  <2>1. PICK c \in Links : c = client.conn  BY <1>2
  <2>2. Fewer(c, 0) /\ 0 \in {0, 1}  BY <1>4, <2>1
  <2> QED  BY <2>2, InputsFewer
<1>5. ASSUME NEW c \in Links, NEW f \in Frames, More(c, f)
      PROVE  \/ \E j \in InputsOf(d) : toHolder'[d][k] = toHolder[d][j]
             \/ d = c /\ toHolder'[d][k] = f /\ f.kind = "input"
  <2>1. \/ k \in AtOf(d, K) /\ toHolder'[d][k] = toHolder[d][k]
        \/ d = c /\ k = Len(toHolder[c]) + 1 /\ toHolder'[d][k] = f /\ f.kind \in K
    BY <1>1, <1>5, MoreAt
  <2> QED  BY <1>0, <2>1 DEF InputsOf
<1>6. CASE \E c \in Links : \E f \in Frames : f.kind # "input" /\ More(c, f)
  BY <1>5, <1>6
<1>7. CASE \E f \in Frames : F = {f} /\ f.kind = "input" /\ More(client.conn, f)
  BY <1>2, <1>5, <1>7
<1> QED  BY <1>3, <1>4, <1>6, <1>7 DEF Wire

LEMMA FewerSends ==
  ASSUME Typed, Typed', NEW c \in Links, NEW s \in {0, 1}, Fewer(c, s), NEW i
  PROVE  ~Sends(i)
<1> SUFFICES ASSUME NEW d \in Links, Len(toHolder'[d]) > Len(toHolder[d]),
                    toHolder'[d][Len(toHolder'[d])].kind = "input"
             PROVE  FALSE
  BY DEF Sends
<1>1. /\ toHolder[d] \in Seq(Frames) /\ toHolder'[d] \in Seq(Frames)  BY DEF Typed
<1>2. Len(toHolder[d]) \in Nat /\ Len(toHolder'[d]) \in Nat  BY <1>1
<1>3. Len(toHolder'[d]) \in 1..Len(toHolder'[d])  BY <1>2
<1> QED  BY <1>2, <1>3 DEF Fewer

LEMMA WireSends ==
  ASSUME Typed, Typed', NEW F, Wire(F), NEW i, Sends(i)
  PROVE  \E f \in F : f.item = i
<1>1. client.conn \in Links  BY DEF Typed, Clients
<1>2. PICK d \in Links : /\ Len(toHolder'[d]) > Len(toHolder[d])
                         /\ toHolder'[d][Len(toHolder'[d])].kind = "input"
                         /\ toHolder'[d][Len(toHolder'[d])].item = i
  BY DEF Sends
<1>3. toHolder[d] \in Seq(Frames) /\ Len(toHolder[d]) \in Nat  BY DEF Typed
<1>4. CASE toHolder' = toHolder  BY <1>2, <1>3, <1>4
<1>5. CASE Fewer(client.conn, 0)
  <2>1. PICK c \in Links : c = client.conn  BY <1>1
  <2>2. Fewer(c, 0) /\ 0 \in {0, 1}  BY <1>5, <2>1
  <2> QED  BY <2>2, FewerSends
<1>6. ASSUME NEW c \in Links, NEW f \in Frames, More(c, f)
      PROVE  f.kind = "input" /\ f.item = i
  <2>1. d = c  BY <1>2, <1>3, <1>6 DEF More
  <2> QED  BY <1>2, <1>3, <1>6, <2>1 DEF More
<1> QED  BY <1>1, <1>4, <1>5, <1>6 DEF Wire

(* What a step of the desk sends, keeps waiting and decides is in order. *)
LEMMA OrderDesk ==
  ASSUME Typed, Typed', InOrder, Settled, HolderStill, NEW F, Wire(F), Len(made) <= Len(made'),
         \A d \in ended : d \in ended' \/ InputsOf(d)' = {},
         \A q \in Waiting' : q \in Waiting \/ q \in New,
         \A x \in Pending' : /\ x \in Waiting \/ x \in Pending \/ x = 0 \/ x \in New
                             /\ x <= Len(made') /\ \A q \in Waiting' : x < q,
         \A f \in F : /\ f.item # 0 /\ (f.item \in Waiting \/ f.item \in Pending \/ f.item \in New)
                      /\ f.item <= Len(made') /\ \A q \in Waiting' : f.item < q,
         Increasing(slot.queue)', Increasing(link.queue)',
         link'.retained <= Len(made'), client'.resume.pending <= Len(made'),
         \A i \in Inputs : fate'[i] # fate[i] /\ fate'[i] # "withdrawn" =>
           /\ fate'[i] \in {"dropped", "no"} => i <= Len(made') /\ i \notin Waiting' /\ i \notin Pending'
           /\ fate'[i] = "no" => i \notin ItemsOf(written) /\ ~OnWire(i)'
           /\ fate'[i] = "yes" => i \in ItemsOf(written)
  PROVE  InOrder' /\ Settled' /\ NotSent
<1>1. /\ Done' = Done /\ ItemsOf(written)' = ItemsOf(written)
      /\ writer' = writer /\ written' = written
  BY StillDone DEF HolderStill
<1>2. Len(made) \in Nat /\ Len(made') \in Nat
  <2>1. made \in Seq(Surfaces \cup {ControlPlane}) /\ made' \in Seq(Surfaces \cup {ControlPlane})
    BY DEF Typed
  <2> QED  BY <2>1
<1>3. \A q \in Waiting' : q \in Nat /\ q # 0 /\ q <= Len(made')
  <2> SUFFICES ASSUME NEW q \in Waiting' PROVE q \in Nat /\ q # 0 /\ q <= Len(made')
    OBVIOUS
  <2>1. CASE q \in New  BY <1>2, <2>1 DEF New
  <2>2. CASE q \in Waiting
    <3>1. q # 0 /\ q <= Len(made)  BY <2>2 DEF InOrder
    <3>2. q \in Nat  BY <2>2, Elements, Bounds DEF Waiting, ItemsOf
    <3> QED  BY <1>2, <3>1, <3>2
  <2> QED  BY <2>1, <2>2
<1>4. ASSUME NEW x \in Nat, BeforeWaiting(x)
      PROVE  x <= Len(made') /\ \A q \in Waiting' : x < q
  <2>1. x <= Len(made)  BY <1>4 DEF BeforeWaiting
  <2>2. ASSUME NEW q \in Waiting' PROVE x < q
    <3>1. CASE q \in Waiting  BY <1>4, <3>1 DEF BeforeWaiting
    <3>2. CASE q \in New  BY <1>2, <2>1, <3>2 DEF New
    <3> QED  BY <3>1, <3>2
  <2> QED  BY <1>2, <2>1, <2>2
<1>5. ASSUME NEW d \in Links, NEW k \in InputsOf(d)'
      PROVE  /\ toHolder'[d][k].item # 0 /\ toHolder'[d][k].item <= Len(made')
             /\ \A q \in Waiting' : toHolder'[d][k].item < q
  <2>1. CASE \E j \in InputsOf(d) : toHolder'[d][k] = toHolder[d][j]
    <3>1. PICK j \in InputsOf(d) : toHolder'[d][k] = toHolder[d][j]  BY <2>1
    <3>2. toHolder[d][j].item # 0 /\ BeforeWaiting(toHolder[d][j].item)  BY DEF InOrder
    <3>3. toHolder[d][j] \in Frames  BY Elements DEF InputsOf, AtOf
    <3>4. toHolder[d][j].item \in Nat  BY <3>3, Bounds DEF Frames
    <3> QED  BY <1>4, <3>1, <3>2, <3>4
  <2>2. CASE toHolder'[d][k] \in F  BY <2>2
  <2> QED  BY <2>1, <2>2, WireSent
<1>6. \A x \in Done' : x <= Len(made') /\ \A q \in Waiting' : x < q
  <2> SUFFICES ASSUME NEW x \in Done PROVE x <= Len(made') /\ \A q \in Waiting' : x < q
    BY <1>1
  <2>1. BeforeWaiting(x) /\ x \in Nat  BY OwnedTypes DEF InOrder
  <2> QED  BY <1>4, <2>1
<1>7. InOrder'
  <2>1. \A x \in (Done \cup Pending)' : BeforeWaiting(x)'  BY <1>6 DEF BeforeWaiting
  <2>2. \A d \in Links : \A k \in InputsOf(d)' :
          toHolder'[d][k].item # 0 /\ BeforeWaiting(toHolder[d][k].item)'
    BY <1>5 DEF BeforeWaiting
  <2>3. WrittenInOrder'  BY <1>1 DEF InOrder, WrittenInOrder
  <2>4. /\ (\A j, k \in 1..Len(writer) : j < k => writer[j].item < writer[k].item)'
        /\ (\A j \in 1..Len(written), k \in 1..Len(writer) : written[j] < writer[k].item)'
        /\ 0 \notin Done'
    BY <1>1 DEF InOrder
  <2> QED  BY <1>3, <2>1, <2>2, <2>3, <2>4 DEF InOrder
<1>8. ASSUME NEW i \in Inputs, fate[i] \in {"dropped", "no"}
      PROVE  /\ i <= Len(made') /\ i \notin Waiting' /\ i \notin Pending'
             /\ \A f \in F : f.item # i
  <2>1. i <= Len(made) /\ i \notin Waiting /\ i \notin Pending /\ i \in Nat /\ i # 0
    BY <1>8, Bounds DEF Settled
  <2>2. i <= Len(made') /\ i \notin New  BY <1>2, <2>1 DEF New
  <2> QED  BY <2>1, <2>2
<1>9. ASSUME NEW i \in Inputs, fate[i] = "no", OnWire(i)' PROVE FALSE
  <2>1. ~OnWire(i)  BY <1>9 DEF Settled
  <2>2. PICK d \in Links \ ended' : \E k \in 1..Len(toHolder'[d]) :
               toHolder'[d][k].kind = "input" /\ toHolder'[d][k].item = i
    BY <1>1, <1>9, <2>1 DEF OnWire
  <2>3. PICK k \in InputsOf(d)' : toHolder'[d][k].item = i  BY <2>2 DEF InputsOf, AtOf
  <2>4. d \notin ended  BY <2>2, <2>3
  <2>5. CASE \E j \in InputsOf(d) : toHolder'[d][k] = toHolder[d][j]
    BY <2>1, <2>3, <2>4, <2>5 DEF OnWire, InputsOf, AtOf
  <2>6. CASE toHolder'[d][k] \in F  BY <1>8, <1>9, <2>3, <2>6
  <2> QED  BY <2>5, <2>6, WireSent
<1>10. Settled'
  <2> SUFFICES ASSUME NEW i \in Inputs
               PROVE  /\ fate'[i] \in {"dropped", "no"} =>
                           i <= Len(made') /\ i \notin Waiting' /\ i \notin Pending'
                      /\ fate'[i] = "no" => i \notin ItemsOf(written)' /\ ~OnWire(i)'
                      /\ fate'[i] = "yes" => i \in ItemsOf(written)'
    BY DEF Settled
  <2>1. CASE fate'[i] = fate[i]
    BY <1>1, <1>8, <1>9, <2>1 DEF Settled
  <2>2. CASE fate'[i] = "withdrawn"  BY <2>2
  <2> QED  BY <1>1, <2>1, <2>2
<1>11. NotSent  BY <1>8, WireSends DEF NotSent
<1> QED  BY <1>7, <1>10, <1>11

(* What is left of the answers. *)
LEMMA ToldHeard ==
  ASSUME Typed, NEW t \in {0, 1}, Heard(t), NEW K, NEW k \in Told(K)'
  PROVE  k + t \in Told(K) /\ toClient'[k] = toClient[k + t] /\ k \in Nat /\ k # 0
BY Elements DEF Told, Heard

LEMMA HeardNone ==
  ASSUME Typed, toClient' = toClient
  PROVE  Heard(0)
BY Elements DEF Heard

(* The only answer of its kind has been read. *)
LEMMA HeardOnly ==
  ASSUME Typed, Heard(1), NEW K, Single(Told(K)), 1 \in Told(K)
  PROVE  Told(K)' = {}
<1> SUFFICES ASSUME NEW k \in Told(K)' PROVE FALSE
  OBVIOUS
<1>1. k + 1 \in Told(K) /\ k \in Nat /\ k # 0  BY ToldHeard
<1>2. k + 1 = 1  BY <1>1 DEF Single
<1> QED  BY <1>1, <1>2

(* An attached client that knows its epoch asks nothing and expects no grant. *)
LEMMA Quiet ==
  ASSUME Questions, Attached, client.epoch # 0
  PROVE  Asking = {} /\ Told(Grants) = {}
<1>1. Open /\ client.phase \notin {"resuming", "attaching"}  BY DEF Attached, Open
<1>2. ASSUME NEW k \in Asking PROVE FALSE
  <2>1. Question(toHolder[client.conn][k])  BY <1>1 DEF Questions
  <2>2. toHolder[client.conn][k].kind \in Asks  BY DEF Asking, AtOf
  <2> QED  BY <1>1, <2>1, <2>2 DEF Question, Asks
<1>3. ASSUME NEW k \in Told(Grants) PROVE FALSE
  <2>1. Reaction(toClient[k])  BY DEF Questions
  <2>2. toClient[k].kind \in Grants  BY DEF Told
  <2> QED  BY <1>1, <2>1, <2>2 DEF Reaction, Grants
<1> QED  BY <1>2, <1>3

(* No input is put behind a question, whatever is sent. *)
LEMMA OrderedMore ==
  ASSUME Typed, Questions, NEW c \in Links, NEW f \in Frames, More(c, f),
         f.kind = "input" => AtOf(c, Asks) = {}
  PROVE  \A d \in Links : \A j \in AtOf(d, Asks)', k \in InputsOf(d)' : k < j
<1> SUFFICES ASSUME NEW d \in Links, NEW j \in AtOf(d, Asks)', NEW k \in InputsOf(d)'
             PROVE  k < j
  OBVIOUS
<1>0. PICK K : K = {"input"}  OBVIOUS
<1>1. \/ j \in AtOf(d, Asks)
      \/ d = c /\ j = Len(toHolder[c]) + 1 /\ f.kind \in Asks
  BY MoreAt
<1>2. \/ k \in AtOf(d, K)
      \/ d = c /\ k = Len(toHolder[c]) + 1 /\ f.kind \in K
  <2>1. k \in AtOf(d, K)'  BY <1>0 DEF InputsOf
  <2> QED  BY <2>1, MoreAt
<1>3. \A n \in AtOf(d, K) : n \in 1..Len(toHolder[d])  BY DEF AtOf
<1>4. Len(toHolder[d]) \in Nat  BY Elements
<1>5. CASE j \in AtOf(d, Asks) /\ k \in AtOf(d, K)
  BY <1>0, <1>5 DEF Questions, InputsOf
<1>6. CASE d = c /\ j = Len(toHolder[c]) + 1 /\ f.kind \in Asks
  <2>1. f.kind \notin K  BY <1>0, <1>6 DEF Asks
  <2>2. k \in 1..Len(toHolder[c])  BY <1>2, <1>3, <1>6, <2>1
  <2> QED  BY <1>4, <1>6, <2>2
<1>7. CASE j \in AtOf(d, Asks) /\ d = c /\ f.kind \in K
  <2>1. f.kind = "input"  BY <1>0, <1>7
  <2> QED  BY <1>7, <2>1
<1> QED  BY <1>1, <1>2, <1>5, <1>6, <1>7

LEMMA QuestionsStill ==
  ASSUME Questions, client' = client, toHolder' = toHolder, toClient' = toClient,
         link'.reset = link.reset, AtRest' <=> AtRest
  PROVE  Questions'
<1>1. /\ Open' <=> Open
      /\ \A d, K : AtOf(d, K)' = AtOf(d, K)
      /\ \A K : Told(K)' = Told(K)
  BY DEF Open, AtOf, Told
<1>2. Asking' = Asking /\ Giving' = Giving /\ \A d : InputsOf(d)' = InputsOf(d)
  BY DEF Asking, Giving, InputsOf, AtOf
<1>3. /\ \A f : Question(f)' <=> Question(f)
      /\ \A a : Reaction(a)' <=> Reaction(a)
  BY DEF Question, Reaction, Attached
<1>4. Asking # {} => client' = client  OBVIOUS
<1> QED  BY <1>1, <1>2, <1>3 DEF Questions, Single

(* One more frame of a kind that the connection had none of. *)
LEMMA NewOnly ==
  ASSUME Typed, NEW c \in Links, NEW f, More(c, f), NEW K, AtOf(c, K) = {}, NEW k \in AtOf(c, K)'
  PROVE  k = Len(toHolder[c]) + 1 /\ toHolder'[c][k] = f /\ f.kind \in K
BY MoreAt

LEMMA QuestionsInput ==
  ASSUME Typed, Questions, Attached, client.epoch # 0, client'.conn = client.conn, Attached',
         client'.epoch = client.epoch, link'.reset = link.reset,
         NEW t \in {0, 1}, Heard(t),
         toHolder' = toHolder \/ \E f \in Frames : f.kind = "input" /\ More(client.conn, f)
  PROVE  Questions'
<1>1. /\ Asking = {} /\ Told(Grants) = {} /\ Open /\ Open'
  BY Quiet DEF Attached, Open
<1>2. PICK c \in Links : c = client.conn  BY DEF Typed, Clients
<1>3. \A d \in Links : \A j \in AtOf(d, Asks)', k \in InputsOf(d)' : k < j
  <2>1. CASE toHolder' = toHolder  BY <2>1 DEF Questions, AtOf, InputsOf
  <2>2. CASE \E f \in Frames : f.kind = "input" /\ More(client.conn, f)
    <3>1. AtOf(c, Asks) = {}  BY <1>1, <1>2 DEF Asking
    <3> QED  BY <1>2, <2>2, <3>1, OrderedMore
  <2> QED  BY <2>1, <2>2
<1>4. ASSUME NEW K \in {Asks, {"release"}}, NEW k \in AtOf(c, K)'
      PROVE  k \in AtOf(c, K) /\ toHolder'[c][k] = toHolder[c][k]
  <2>1. CASE toHolder' = toHolder  BY <2>1 DEF AtOf
  <2>2. CASE \E f \in Frames : f.kind = "input" /\ More(client.conn, f)
    <3>1. PICK f \in Frames : f.kind = "input" /\ More(c, f)  BY <1>2, <2>2
    <3>2. f.kind \notin K  BY <3>1 DEF Asks
    <3> QED  BY <3>1, <3>2, MoreAt
  <2> QED  BY <2>1, <2>2
<1>5. Asking' = {} /\ Giving' \subseteq Giving
  BY <1>1, <1>2, <1>4 DEF Asking, Giving
<1>6. Told(Grants)' = {}  BY <1>1, ToldHeard
<1>7. PICK R : R = {"released"}  OBVIOUS
<1>8. \A k \in Told(R)' : k \in Int /\ k + t \in Told(R)  BY ToldHeard
<1>9. Single(Told(R))'
  <2>1. Single(Told(R)) /\ t \in Int  BY <1>7 DEF Questions
  <2> QED  BY <1>8, <2>1, SingleBack DEF Single
<1>10. (Told(R)' # {} => link'.reset = "releasing") /\ (Told(R) = {} => Told(R)' = {})
  BY <1>7, <1>8 DEF Questions
<1>11. /\ Open' /\ Giving' # {} => link'.reset = "releasing" /\ Told(R)' = {}
       /\ Single(Giving)'
  BY <1>1, <1>5, <1>7, <1>10 DEF Questions, Single
<1> QED  BY <1>1, <1>3, <1>5, <1>6, <1>7, <1>9, <1>10, <1>11 DEF Questions, Single

(* The client asks, gives up its lease or is silent, and awaits nothing else. *)
LEMMA QuestionsOut ==
  ASSUME \A d \in Links : \A j \in AtOf(d, Asks)', k \in InputsOf(d)' : k < j,
         Told(Grants)' = {}, Told({"released"})' = {},
         NEW m,
         Open' => \A k \in Asking' : k = m /\ ~AtRest' /\ Question(toHolder[client.conn][m])',
         Open' => \A k \in Giving' : k = m /\ link'.reset = "releasing"
  PROVE  Questions'
BY DEF Questions, Single

LEMMA EpochsDesk ==
  ASSUME Typed, Typed', Epochs, HolderStill, NEW t \in {0, 1}, Heard(t) \/ toClient' = <<>>,
         \A e \in {client'.epoch, client'.resume.epoch, slot'.lease.epoch} :
           \/ e = 0 \/ e \in {client.epoch, client.resume.epoch, slot.lease.epoch}
           \/ \E k \in 1..Len(toClient) : e = toClient[k].epoch,
         lease.owner = client'.conn /\ client'.epoch # 0 => client'.epoch = lease.epoch,
         client'.conn = client.conn \/ toClient' = <<>>
  PROVE  Epochs'
<1>1. /\ allocated' = allocated /\ lease' = lease /\ tokens' = tokens /\ allocated \in Nat
  BY DEF HolderStill, Typed
<1>2. \A k \in 1..Len(toClient) : toClient[k].epoch \in 0..allocated
  <2> SUFFICES ASSUME NEW k \in 1..Len(toClient) PROVE toClient[k].epoch \in 0..allocated
    OBVIOUS
  <2>1. toClient[k] \in Answers /\ toClient[k].epoch <= allocated  BY Elements DEF Epochs
  <2> QED  BY <1>1, <2>1 DEF Answers
<1>3. \A k \in 1..Len(toClient') :
        /\ toClient' # <<>>
        /\ k + t \in 1..Len(toClient) /\ toClient'[k] = toClient[k + t]
  <2>1. CASE toClient' = <<>>  BY <2>1
  <2>2. CASE Heard(t) /\ toClient' # <<>>  BY <2>2 DEF Heard
  <2> QED  BY <2>1, <2>2
<1>4. {client.epoch, client.resume.epoch, slot.lease.epoch, lease.epoch} \subseteq 0..allocated
  BY DEF Epochs
<1>5. 0 \in 0..allocated  BY <1>1
<1>6. \A e \in {client'.epoch, client'.resume.epoch, slot'.lease.epoch} : e \in 0..allocated
  BY <1>2, <1>4, <1>5
<1>7. {client.epoch, client.resume.epoch, slot.lease.epoch, lease.epoch}' \subseteq 0..allocated'
  BY <1>1, <1>4, <1>6
<1>8. \A k \in 1..Len(toClient') : toClient'[k].epoch <= allocated'
  BY <1>1, <1>3 DEF Epochs
<1>9. lease'.owner = client'.conn =>
        \A k \in 1..Len(toClient') :
          toClient'[k].kind \in {"resumed", "attached", "acquired"} /\ toClient'[k].epoch # 0
            => toClient'[k].epoch = lease'.epoch
  BY <1>1, <1>3 DEF Epochs
<1>10. lease'.token <= tokens'  BY <1>1 DEF Epochs
<1> QED  BY <1>1, <1>7, <1>8, <1>9, <1>10 DEF Epochs

LEMMA ReceiptedDesk ==
  ASSUME Typed, Receipted, NEW t \in {0, 1}, Heard(t),
         client'.epoch = client.epoch, client.next <= client'.next, client'.next \in Nat,
         client'.phase = "resuming" => client.phase = "resuming" /\ client'.resume = client.resume
  PROVE  Receipted'
<1>1. PICK K : K = {"receipt"}  OBVIOUS
<1>2. PICK G : G = {"attached", "acquired"}  OBVIOUS
<1>3. \A k \in Told(K)' : k + t \in Told(K) /\ toClient'[k] = toClient[k + t]
  BY ToldHeard
<1>4. \A k \in Told(G)' : k + t \in Told(G) /\ toClient'[k] = toClient[k + t]
  BY ToldHeard
<1>5. client'.epoch # 0 => \A k \in Told(K)' :
        toClient'[k].epoch = client'.epoch => toClient'[k].n < client'.next
  <2> SUFFICES ASSUME client.epoch # 0, NEW k \in Told(K)', toClient'[k].epoch = client.epoch
               PROVE  toClient'[k].n < client'.next
    OBVIOUS
  <2>1. toClient[k + t].n < client.next /\ toClient'[k] = toClient[k + t]
    BY <1>1, <1>3 DEF Receipted
  <2>2. toClient[k + t] \in Answers  BY <1>3, Elements DEF Told
  <2>3. toClient[k + t].n \in Nat /\ client.next \in Nat  BY <2>2 DEF Answers, Typed, Clients
  <2> QED  BY <2>1, <2>3
<1>6. client'.phase = "resuming" => \A k \in Told(K)' :
        toClient'[k].epoch = client'.resume.epoch => toClient'[k].n < client'.resume.next
  BY <1>1, <1>3 DEF Receipted
<1>7. client'.epoch = 0 => \A k \in Told(G)', j \in Told(K)' :
        toClient'[k].epoch # 0 => toClient'[j].epoch # toClient'[k].epoch
  BY <1>1, <1>2, <1>3, <1>4 DEF Receipted
<1> QED  BY <1>1, <1>2, <1>5, <1>6, <1>7 DEF Receipted

(* No receipts are on their way, or none that a client without a lease fears. *)
LEMMA ReceiptedNone ==
  ASSUME toClient' = <<>>
  PROVE  Receipted'
<1>1. \A k : k \notin 1..Len(toClient')  BY DEF Receipted
<1> QED  BY <1>1 DEF Receipted, Told

LEMMA TellingNone ==
  ASSUME client'.asked = 0
  PROVE  Telling'
BY DEF Telling

LEMMA TellingStill ==
  ASSUME Telling, client' = client, toHolder' = toHolder, toClient' = toClient, HolderStill
  PROVE  Telling'
<1>1. Latest' = Latest /\ Mine' = Mine /\ Done' = Done /\ \A d : InputsOf(d)' = InputsOf(d)
  BY StillDone DEF Latest, Mine, Told, InputsOf, AtOf
<1>2. lease' = lease /\ written' = written  BY DEF HolderStill
<1> QED  BY <1>1, <1>2 DEF Telling, ItemsOf

LEMMA RemembersStill ==
  ASSUME Remembers, HolderStill
  PROVE  Remembers'
BY RemembersSame DEF HolderStill

-----------------------------------------------------------------------------
(* Numbers, as the desk's steps leave them. *)

LEMMA OwnedWire ==
  ASSUME Typed, NEW F, Wire(F), lease' = lease
  PROVE  /\ F = {} \/ lease.owner # client.conn => Owned' \subseteq Owned
         /\ Owned' \subseteq Owned \cup F
<1>1. ASSUME NEW f \in Owned' PROVE f \in Owned \/ (f \in F /\ lease.owner = client.conn)
  <2>1. PICK k \in InputsOf(lease.owner)' : lease.owner \in Links /\ f = toHolder'[lease.owner][k]
    BY <1>1 DEF Owned
  <2>2. PICK d \in Links : d = lease.owner  BY <2>1
  <2>3. k \in InputsOf(d)' /\ f = toHolder'[d][k]  BY <2>1, <2>2
  <2>4. \/ \E j \in InputsOf(d) : toHolder'[d][k] = toHolder[d][j]
        \/ d = client.conn /\ toHolder'[d][k] \in F
    BY <2>3, WireSent
  <2> QED  BY <2>2, <2>3, <2>4 DEF Owned
<1> QED  BY <1>1

(* A snapshot goes on fitting its lease; one without a pending request, or *)
(* of no lease, fits as well.                                              *)
LEMMA FitsStill ==
  ASSUME HolderStill, Owned' \subseteq Owned, NEW v, Fits(v), NEW u,
         u.epoch = 0 \/ (u.epoch = v.epoch /\ u.next = v.next /\ u.pending \in {0, v.pending})
  PROVE  Fits(u)'
<1>1. Reached' = Reached /\ lease' = lease /\ \A n, x : Fresh(n, x)' <=> Fresh(n, x)
  BY StillDone DEF HolderStill
<1>2. CASE u.epoch = 0  BY <1>2 DEF Fits
<1>3. CASE u.epoch = v.epoch /\ u.next = v.next /\ u.pending \in {0, v.pending}
  BY <1>1, <1>3 DEF Fits
<1> QED  BY <1>2, <1>3

(* The frames of the owner are fewer and the numbers of the client no lower. *)
LEMMA NumberedDesk ==
  ASSUME Typed, Numbered, HolderStill, Wire({}),
         Open' => \/ InputsOf(client.conn)' = {}
                  \/ /\ client'.conn = client.conn /\ Open
                     /\ client.next <= client'.next /\ client'.next \in Nat
  PROVE  Numbered' /\ Owned' \subseteq Owned
<1>1. Owned' \subseteq Owned /\ lease' = lease /\ \A n, x : Fresh(n, x)' <=> Fresh(n, x)
  BY OwnedWire, StillDone DEF HolderStill
<1>2. Open' => \A k \in InputsOf(client.conn)' : toHolder'[client'.conn][k].n < client'.next
  <2> SUFFICES ASSUME Open', NEW k \in InputsOf(client.conn)', client'.conn = client.conn, Open,
                      client.next <= client'.next, client'.next \in Nat
               PROVE  toHolder'[client'.conn][k].n < client'.next
    OBVIOUS
  <2>1. PICK d \in Links : d = client.conn  BY DEF Typed, Clients
  <2>2. k \in InputsOf(d)'  BY <2>1 DEF InputsOf
  <2>3. PICK j \in InputsOf(d) : toHolder'[d][k] = toHolder[d][j]  BY <2>2, WireSent
  <2>4. toHolder[d][j].n < client.next  BY <2>1 DEF Numbered
  <2>5. toHolder[d][j] \in Frames /\ client.next \in Nat
    BY Elements DEF InputsOf, AtOf, Typed, Clients
  <2>6. toHolder[d][j].n \in Nat  BY <2>5 DEF Frames
  <2> QED  BY <2>1, <2>3, <2>4, <2>5, <2>6
<1>3. Numbered'  BY <1>1, <1>2 DEF Numbered
<1> QED  BY <1>1, <1>3

(* What waits, or is typed now, is later than all that was sent or done. *)
LEMMA Later ==
  ASSUME Typed, InOrder, NEW i \in Nat, i \in Waiting \/ Len(made) < i
  PROVE  /\ \A d \in Done : d < i
         /\ \A g \in Owned : g.item < i
<1>1. ASSUME NEW x \in Nat, BeforeWaiting(x) PROVE x < i
  <2>1. CASE i \in Waiting  BY <1>1, <2>1 DEF BeforeWaiting
  <2>2. CASE Len(made) < i
    <3>1. x <= Len(made) /\ Len(made) \in Nat  BY <1>1, Elements DEF BeforeWaiting
    <3> QED  BY <2>2, <3>1
  <2> QED  BY <2>1, <2>2
<1>2. ASSUME NEW d \in Done PROVE d < i
  <2>1. d \in Nat /\ BeforeWaiting(d)  BY OwnedTypes DEF InOrder
  <2> QED  BY <1>1, <2>1
<1>3. ASSUME NEW g \in Owned PROVE g.item < i
  <2>1. g.item \in Nat  BY OwnedTypes DEF Frames
  <2>2. BeforeWaiting(g.item)  BY DEF Owned, InOrder
  <2> QED  BY <1>1, <2>1, <2>2
<1> QED  BY <1>2, <1>3

LEMMA SendNext ==
  ASSUME Typed, Typed', Numbered, HolderStill, NEW v, Fits(v), v.epoch # 0, v.next \in Nat,
         lease.owner = client.conn => lease.epoch = v.epoch,
         NEW f \in Frames, f.kind = "input", More(client.conn, f), f.epoch = v.epoch, f.n = v.next,
         \A d \in Done : d < f.item, \A g \in Owned : g.item < f.item,
         \A k \in InputsOf(client.conn) : toHolder[client.conn][k].n < v.next,
         client'.conn = client.conn, client'.epoch = v.epoch, client'.next = v.next + 1,
         client'.pending = f.item
  PROVE  Numbered' /\ Fits(client)'
<1>0. /\ Reached' = Reached /\ lease' = lease /\ \A n, x : Fresh(n, x)' <=> Fresh(n, x)
  BY StillDone DEF HolderStill
<1>1. Wire({f})  BY DEF Wire
<1>2. /\ Owned' \subseteq Owned \cup {f}
      /\ lease.owner # client.conn => Owned' \subseteq Owned
  BY <1>0, <1>1, OwnedWire
<1>3. /\ f.n \in Nat /\ f.item \in Nat /\ Owned \subseteq Frames /\ Reached \in Nat
      /\ \A g \in Owned : g.n \in Nat /\ g.item \in Nat
  BY OwnedTypes DEF Frames
<1>4. Fresh(f.n, f.item)  BY DEF Fresh
<1>5. ASSUME lease.epoch = v.epoch
      PROVE  Reached < v.next /\ \A g \in Owned : g.n < v.next
  BY <1>5 DEF Fits
<1>6. \A g \in Owned' : g.epoch = lease.epoch /\ Fresh(g.n, g.item)
  BY <1>2, <1>4 DEF Numbered
<1>7. ASSUME NEW g \in Owned', NEW h \in Owned', g.n < h.n PROVE g.item < h.item
  <2>1. CASE g \in Owned /\ h \in Owned  BY <1>7, <2>1 DEF Numbered
  <2>2. CASE g \in Owned /\ h = f  BY <2>2
  <2>3. CASE g = f /\ h \in Owned /\ h # f
    <3>1. lease.epoch = v.epoch \/ f \in Owned  BY <1>2, <2>3
    <3>2. CASE f \in Owned  BY <1>7, <2>3, <3>2 DEF Numbered
    <3>3. CASE lease.epoch = v.epoch
      <4>1. h.n < f.n  BY <1>5, <2>3, <3>3
      <4> QED  BY <1>3, <1>7, <2>3, <4>1
    <3> QED  BY <3>1, <3>2, <3>3
  <2>4. CASE g = f /\ h = f  BY <1>3, <1>7, <2>4
  <2> QED  BY <1>2, <2>1, <2>2, <2>3, <2>4
<1>8. Open' => \A k \in InputsOf(client.conn)' : toHolder'[client'.conn][k].n < client'.next
  <2> SUFFICES ASSUME NEW k \in InputsOf(client.conn)'
               PROVE  toHolder'[client'.conn][k].n < client'.next
    OBVIOUS
  <2>1. PICK d \in Links : d = client.conn  BY DEF Typed, Clients
  <2>2. k \in InputsOf(d)'  BY <2>1 DEF InputsOf
  <2>3. \/ \E j \in InputsOf(d) : toHolder'[d][k] = toHolder[d][j]
        \/ toHolder'[d][k] = f
    BY <1>1, <2>2, WireSent
  <2>4. \A j \in InputsOf(d) : toHolder[d][j].n \in Nat
    <3>1. \A j \in InputsOf(d) : toHolder[d][j] \in Frames  BY Elements DEF InputsOf, AtOf
    <3> QED  BY <3>1 DEF Frames
  <2> QED  BY <2>1, <2>3, <2>4
<1>9. Numbered'
  <2>1. \A g, h \in Owned' : g.n < h.n => g.item < h.item  BY <1>7
  <2> QED  BY <1>0, <1>6, <1>8, <2>1 DEF Numbered
<1>10. Fits(client)'
  <2>1. ASSUME lease.epoch = v.epoch
        PROVE  /\ Reached < v.next + 1 /\ \A g \in Owned' : g.n < v.next + 1
               /\ Fresh(v.next + 1 - 1, f.item)
               /\ \A g \in Owned' : /\ g.n = v.next + 1 - 1 => g.item = f.item
                                    /\ g.n < v.next + 1 - 1 => g.item < f.item
    <3>1. Reached < v.next /\ \A g \in Owned : g.n < v.next  BY <1>5, <2>1
    <3>2. v.next + 1 - 1 = v.next  OBVIOUS
    <3> QED  BY <1>2, <1>3, <1>4, <3>1, <3>2
  <2> QED  BY <1>0, <2>1 DEF Fits
<1> QED  BY <1>9, <1>10

LEMMA SendAgain ==
  ASSUME Typed, Typed', Numbered, HolderStill, Fits(client), client.epoch # 0, client.pending # 0,
         lease.owner = client.conn => lease.epoch = client.epoch, Open,
         NEW f \in Frames, f.kind = "input", More(client.conn, f), f.epoch = client.epoch,
         f.n = client.next - 1, f.item = client.pending, client' = client
  PROVE  Numbered' /\ Fits(client)'
<1>0. /\ Reached' = Reached /\ lease' = lease /\ \A n, x : Fresh(n, x)' <=> Fresh(n, x)
  BY StillDone DEF HolderStill
<1>1. Wire({f})  BY DEF Wire
<1>2. /\ Owned' \subseteq Owned \cup {f}
      /\ lease.owner # client.conn => Owned' \subseteq Owned
  BY <1>0, <1>1, OwnedWire
<1>3. /\ f.n \in Nat /\ f.item \in Nat /\ Owned \subseteq Frames /\ Reached \in Nat
      /\ \A g \in Owned : g.n \in Nat /\ g.item \in Nat
      /\ client.next \in Nat /\ client.next = f.n + 1
  <2>1. client.next \in Nat  BY DEF Typed, Clients
  <2>2. f.n \in Nat /\ f.item \in Nat  BY OwnedTypes DEF Frames
  <2> QED  BY <2>1, <2>2, OwnedTypes DEF Frames
<1>4. ASSUME lease.epoch = client.epoch
      PROVE  /\ Reached < client.next /\ Fresh(f.n, f.item)
             /\ \A g \in Owned : /\ g.n < client.next /\ (g.n = f.n => g.item = f.item)
                                 /\ g.n < f.n => g.item < f.item
  BY <1>4 DEF Fits
<1>5. ASSUME NEW g \in Owned', g \notin Owned PROVE g = f /\ lease.epoch = client.epoch
  BY <1>2, <1>5
<1>6. \A g \in Owned' : g.epoch = lease.epoch /\ Fresh(g.n, g.item)
  <2> SUFFICES ASSUME NEW g \in Owned' PROVE g.epoch = lease.epoch /\ Fresh(g.n, g.item)
    OBVIOUS
  <2>1. CASE g \in Owned  BY <2>1 DEF Numbered
  <2>2. CASE g \notin Owned  BY <1>4, <1>5, <2>2
  <2> QED  BY <2>1, <2>2
<1>7. ASSUME NEW g \in Owned', NEW h \in Owned', g.n < h.n PROVE g.item < h.item
  <2>1. CASE g \in Owned /\ h \in Owned  BY <1>7, <2>1 DEF Numbered
  <2>2. CASE g \in Owned /\ h \notin Owned  BY <1>4, <1>5, <1>7, <2>2
  <2>3. CASE g \notin Owned /\ h \in Owned
    <3>1. g = f /\ h.n < client.next  BY <1>4, <1>5, <2>3
    <3> QED  BY <1>3, <1>7, <2>3, <3>1
  <2>4. CASE g \notin Owned /\ h \notin Owned
    <3>1. g = h  BY <1>5, <2>4
    <3> QED  BY <1>3, <1>5, <1>7, <2>4, <3>1
  <2> QED  BY <2>1, <2>2, <2>3, <2>4
<1>8. \A k \in InputsOf(client.conn)' : toHolder'[client'.conn][k].n < client'.next
  <2> SUFFICES ASSUME NEW k \in InputsOf(client.conn)'
               PROVE  toHolder'[client'.conn][k].n < client'.next
    OBVIOUS
  <2>1. PICK d \in Links : d = client.conn  BY DEF Typed, Clients
  <2>2. k \in InputsOf(d)'  BY <2>1 DEF InputsOf
  <2>3. \/ \E j \in InputsOf(d) : toHolder'[d][k] = toHolder[d][j]
        \/ toHolder'[d][k] = f
    BY <1>1, <2>2, WireSent
  <2>4. \A j \in InputsOf(d) : toHolder[d][j].n < client.next  BY <2>1 DEF Numbered
  <2> QED  BY <1>3, <2>1, <2>3, <2>4
<1>9. Numbered'
  <2>1. \A g, h \in Owned' : g.n < h.n => g.item < h.item  BY <1>7
  <2> QED  BY <1>0, <1>6, <1>8, <2>1 DEF Numbered
<1>10. Fits(client)'
  <2>1. ASSUME lease.epoch = client.epoch
        PROVE  /\ Reached < client.next /\ \A g \in Owned' : g.n < client.next
               /\ Fresh(client.next - 1, client.pending)
               /\ \A g \in Owned' : /\ g.n = client.next - 1 => g.item = client.pending
                                    /\ g.n < client.next - 1 => g.item < client.pending
    <3>1. client.next - 1 = f.n  BY <1>3
    <3> QED  BY <1>2, <1>3, <1>4, <2>1, <3>1
  <2> QED  BY <1>0, <2>1 DEF Fits
<1> QED  BY <1>9, <1>10

-----------------------------------------------------------------------------
(* Queues. *)

LEMMA QueueAdds ==
  ASSUME NEW q \in Seq(Item), Increasing(q), NEW i \in Item, \A x \in ItemsOf(q) : x < i
  PROVE  /\ Append(q, i) \in Seq(Item) /\ ItemsOf(Append(q, i)) = ItemsOf(q) \cup {i}
         /\ Increasing(Append(q, i))
<1> DEFINE r == Append(q, i)
<1>1. /\ r \in Seq(Item) /\ Len(r) = Len(q) + 1 /\ Len(q) \in Nat /\ r[Len(q) + 1] = i
      /\ \A k \in 1..Len(q) : r[k] = q[k]
  OBVIOUS
<1> HIDE DEF r
<1>2. ItemsOf(r) = ItemsOf(q) \cup {i}  BY <1>1 DEF ItemsOf
<1>3. Increasing(r)
  <2> SUFFICES ASSUME NEW j \in 1..Len(r), NEW k \in 1..Len(r), j < k PROVE r[j] < r[k]
    BY DEF Increasing
  <2>1. j \in 1..Len(q)  BY <1>1
  <2>2. CASE k \in 1..Len(q)  BY <1>1, <2>1, <2>2 DEF Increasing
  <2>3. CASE k = Len(q) + 1
    <3>1. q[j] \in ItemsOf(q)  BY <2>1 DEF ItemsOf
    <3> QED  BY <1>1, <2>1, <2>3, <3>1
  <2> QED  BY <1>1, <2>2, <2>3
<1> QED  BY <1>1, <1>2, <1>3 DEF r

LEMMA QueueDrops ==
  ASSUME NEW q \in Seq(Item), q # <<>>, Increasing(q)
  PROVE  /\ Tail(q) \in Seq(Item) /\ Head(q) \in Item /\ Head(q) \in ItemsOf(q)
         /\ \A x \in ItemsOf(Tail(q)) : x \in ItemsOf(q) /\ Head(q) < x
         /\ Increasing(Tail(q))
<1> DEFINE r == Tail(q)
<1>1. /\ r \in Seq(Item) /\ Len(r) = Len(q) - 1 /\ Len(q) \in Nat /\ Len(q) # 0
      /\ \A k \in 1..Len(r) : k + 1 \in 1..Len(q) /\ r[k] = q[k + 1]
      /\ Head(q) = q[1] /\ 1 \in 1..Len(q) /\ q[1] \in Item
  OBVIOUS
<1> HIDE DEF r
<1>2. Head(q) \in ItemsOf(q)  BY <1>1 DEF ItemsOf
<1>3. ASSUME NEW x \in ItemsOf(r) PROVE x \in ItemsOf(q) /\ Head(q) < x
  <2>1. PICK k \in 1..Len(r) : x = r[k]  BY DEF ItemsOf
  <2>2. k + 1 \in 1..Len(q) /\ x = q[k + 1] /\ 1 < k + 1  BY <1>1, <2>1
  <2> HIDE DEF r
  <2> QED  BY <1>1, <2>2 DEF Increasing, ItemsOf
<1>4. Increasing(r)
  <2> SUFFICES ASSUME NEW j \in 1..Len(r), NEW k \in 1..Len(r), j < k PROVE r[j] < r[k]
    BY DEF Increasing
  <2>1. /\ j + 1 \in 1..Len(q) /\ k + 1 \in 1..Len(q) /\ j + 1 < k + 1
        /\ r[j] = q[j + 1] /\ r[k] = q[k + 1]
    BY <1>1
  <2> QED  BY <2>1 DEF Increasing
<1> QED  BY <1>1, <1>2, <1>3, <1>4 DEF r

LEMMA QueueSkips ==
  ASSUME NEW q \in Seq(Item), Increasing(q), NEW n \in 0..Len(q)
  PROVE  /\ SubSeq(q, n + 1, Len(q)) \in Seq(Item)
         /\ ItemsOf(SubSeq(q, n + 1, Len(q))) \subseteq ItemsOf(q)
         /\ Increasing(SubSeq(q, n + 1, Len(q)))
         /\ \A k \in 1..n : /\ q[k] \in ItemsOf(q)
                            /\ \A x \in ItemsOf(SubSeq(q, n + 1, Len(q))) : q[k] < x
<1> DEFINE r == SubSeq(q, n + 1, Len(q))
<1>1. /\ Len(q) \in Nat /\ n \in Nat /\ n <= Len(q)
      /\ \A k \in 1..Len(q) : q[k] \in Item
  OBVIOUS
<1>2. /\ r \in Seq(Item) /\ Len(r) = Len(q) - n
      /\ \A k \in 1..Len(r) : k + n \in 1..Len(q) /\ r[k] = q[k + n]
  OBVIOUS
<1> HIDE DEF r
<1>3. ItemsOf(r) \subseteq ItemsOf(q)
  <2> SUFFICES ASSUME NEW k \in 1..Len(r) PROVE r[k] \in ItemsOf(q)
    BY DEF ItemsOf
  <2> QED  BY <1>2 DEF ItemsOf
<1>4. Increasing(r)
  <2> SUFFICES ASSUME NEW j \in 1..Len(r), NEW k \in 1..Len(r), j < k PROVE r[j] < r[k]
    BY DEF Increasing
  <2>1. /\ j + n \in 1..Len(q) /\ k + n \in 1..Len(q) /\ j + n < k + n
        /\ r[j] = q[j + n] /\ r[k] = q[k + n]
    BY <1>1, <1>2
  <2> QED  BY <2>1 DEF Increasing
<1>5. ASSUME NEW k \in 1..n
      PROVE  q[k] \in ItemsOf(q) /\ \A x \in ItemsOf(r) : q[k] < x
  <2>1. k \in 1..Len(q)  BY <1>1
  <2>2. ASSUME NEW x \in ItemsOf(r) PROVE q[k] < x
    <3>1. PICK j \in 1..Len(r) : x = r[j]  BY DEF ItemsOf
    <3>2. j + n \in 1..Len(q) /\ x = q[j + n] /\ k < j + n  BY <1>1, <1>2, <3>1
    <3> QED  BY <2>1, <3>2 DEF Increasing
  <2> QED  BY <2>1, <2>2 DEF ItemsOf
<1> QED  BY <1>2, <1>3, <1>4, <1>5 DEF r

LEMMA EmptyQueue ==
  /\ <<>> \in Seq(Item) /\ ItemsOf(<<>>) = {} /\ Increasing(<<>>)
<1>1. Len(<<>>) = 0 /\ 1..0 = {}  OBVIOUS
<1> QED  BY <1>1 DEF ItemsOf, Increasing

-----------------------------------------------------------------------------
(* Typing, withdrawing and waiting: the steps that leave the wire alone. *)

(* One more input is made. *)
LEMMA MadeAdds ==
  ASSUME Typed, NEW s \in Surfaces \cup {ControlPlane}, Len(made) + 1 \in Inputs,
         made' = Append(made, s)
  PROVE  /\ made' \in Seq(Surfaces \cup {ControlPlane}) /\ Len(made') = Len(made) + 1
         /\ Len(made') <= MaxInputs /\ Len(made) \in Nat /\ Len(made) < Len(made')
         /\ New = {Len(made) + 1} /\ Len(made) + 1 \in Item /\ Len(made) + 1 # 0
<1>1. made \in Seq(Surfaces \cup {ControlPlane}) /\ Len(made) \in Nat /\ MaxInputs \in Nat
  BY Bounds DEF Typed
<1>2. made' \in Seq(Surfaces \cup {ControlPlane}) /\ Len(made') = Len(made) + 1
  BY <1>1
<1>3. \A k, m \in Nat : k = m => k..m = {k}  OBVIOUS
<1>4. New = {Len(made) + 1}  BY <1>1, <1>2, <1>3 DEF New
<1> QED  BY <1>1, <1>2, <1>4 DEF Inputs, Item

(* An input that was just made is nowhere yet. *)
LEMMA Unsent ==
  ASSUME Typed, InOrder, NEW i \in Nat, Len(made) < i
  PROVE  i \notin Done /\ i \notin Waiting /\ i \notin Pending /\ i # 0 /\ ~OnWire(i)
<1>0. Len(made) \in Nat  BY Elements
<1>1. ~BeforeWaiting(i)  BY <1>0 DEF BeforeWaiting
<1>2. i \notin Waiting  BY <1>0 DEF InOrder
<1>3. i \notin Done /\ i \notin Pending  BY <1>1 DEF InOrder
<1>4. ~OnWire(i)
  <2>1. \A k \in 1..Len(writer) : writer[k].item \in Done  BY DEF Done
  <2>2. ASSUME NEW d \in Links, NEW k \in 1..Len(toHolder[d]), toHolder[d][k].kind = "input",
               toHolder[d][k].item = i
        PROVE  FALSE
    <3>1. k \in InputsOf(d)  BY <2>2 DEF InputsOf, AtOf
    <3> QED  BY <1>1, <2>2, <3>1 DEF InOrder
  <2> QED  BY <1>3, <2>1, <2>2 DEF OnWire
<1> QED  BY <1>0, <1>2, <1>3, <1>4

LEMMA StillKept ==
  ASSUME IInv, Typed', HolderStill, ended' = ended, client' = client, toHolder' = toHolder,
         toClient' = toClient, Len(made) <= Len(made'),
         slot'.stage = slot.stage, slot'.observer = slot.observer,
         link'.reset = link.reset, link'.retained = link.retained,
         slot'.lease.epoch = slot.lease.epoch, slot'.lease.next = slot.lease.next,
         slot'.lease.pending \in {0, slot.lease.pending},
         \A q \in Waiting' : q \in Waiting \/ q \in New,
         Increasing(slot.queue)', Increasing(link.queue)',
         Recovering => link'.queue = <<>>, ~Recovering => slot'.queue = <<>>,
         link'.queue # <<>> => client.pending # 0 \/ link.reset # "no",
         \A i \in Inputs : fate'[i] # fate[i] /\ fate'[i] # "withdrawn" =>
           /\ fate'[i] \in {"dropped", "no"} /\ i <= Len(made') /\ i \notin Waiting'
           /\ i \notin Pending' /\ (fate'[i] = "no" => i \in New)
  PROVE  IInv' /\ NotSent
<1>1. /\ Recovering' <=> Recovering
      /\ Attached' <=> Attached
      /\ AtRest' <=> AtRest
      /\ \A d : InputsOf(d)' = InputsOf(d)
  BY DEF Recovering, Attached, AtRest, InputsOf, AtOf
<1>2. Len(made) \in Nat /\ Len(made') \in Nat
  <2>1. made \in Seq(Surfaces \cup {ControlPlane}) /\ made' \in Seq(Surfaces \cup {ControlPlane})
    BY DEF IInv, Typed
  <2> QED  BY <2>1
<1>3. Wire({})  BY DEF Wire
<1>4. Staged'
  <2>1. client.phase = "closed" => toClient' = <<>>  BY DEF IInv, Staged
  <2> QED  BY <1>1, <2>1 DEF IInv, Staged
<1>5. Questions'  BY <1>1, QuestionsStill DEF IInv
<1>6. Heard(0)  BY HeardNone DEF IInv
<1>7. Epochs'
  <2>1. 0 \in {0, 1}  OBVIOUS
  <2>2. lease.owner = client'.conn /\ client'.epoch # 0 => client'.epoch = lease.epoch
    BY DEF IInv, Epochs
  <2>3. \A e \in {client'.epoch, client'.resume.epoch, slot'.lease.epoch} :
          e \in {client.epoch, client.resume.epoch, slot.lease.epoch}
    OBVIOUS
  <2>4. client'.conn = client.conn  OBVIOUS
  <2> QED  BY <1>6, <2>1, <2>2, <2>3, <2>4, EpochsDesk DEF IInv
<1>8. ASSUME NEW x, BeforeWaiting(x), x \in Nat
      PROVE  x <= Len(made') /\ \A q \in Waiting' : x < q
  <2>1. x <= Len(made)  BY <1>8 DEF BeforeWaiting
  <2>2. \A q \in New : x < q  BY <1>2, <1>8, <2>1 DEF New
  <2> QED  BY <1>2, <1>8, <2>1, <2>2 DEF BeforeWaiting
<1>9. /\ client.pending \in Item /\ slot.lease.pending \in Item /\ client.resume.pending \in Item
      /\ client.pending \in Nat /\ slot.lease.pending \in Nat /\ client.resume.pending \in Nat
  BY Bounds DEF IInv, Typed, Clients, Slots, Snapshots
<1>10. /\ BeforeWaiting(client.pending) /\ BeforeWaiting(slot.lease.pending)
       /\ client.phase = "resuming" => BeforeWaiting(client.resume.pending)
       /\ client.resume.pending <= Len(made) /\ link.retained <= Len(made)
       /\ link.retained \in Nat
  BY Bounds DEF IInv, InOrder, Pending, Typed, LinkStates
<1>11. \A q \in Waiting' : q \in Nat /\ 0 < q
  <2>1. \A q \in Waiting : q \in Nat /\ q # 0
    BY WaitingNumbers DEF IInv
  <2>2. \A q \in New : q \in Nat /\ 0 < q  BY <1>2 DEF New
  <2>3. \A q \in Nat : q # 0 => 0 < q  OBVIOUS
  <2> QED  BY <2>1, <2>2, <2>3
<1>12. \A x \in Pending' : /\ x \in Waiting \/ x \in Pending \/ x = 0 \/ x \in New
                           /\ x <= Len(made') /\ \A q \in Waiting' : x < q
  <2> SUFFICES ASSUME NEW x \in Pending'
               PROVE  /\ x \in Pending \/ x = 0
                      /\ x <= Len(made') /\ \A q \in Waiting' : x < q
    OBVIOUS
  <2>1. x = 0 \/ (x \in Pending /\ BeforeWaiting(x) /\ x \in Nat)
    BY <1>9, <1>10 DEF Pending
  <2> QED  BY <1>2, <1>8, <1>11, <2>1
<1>13. InOrder' /\ Settled' /\ NotSent
  <2>1. \A i \in Inputs : fate'[i] # fate[i] /\ fate'[i] # "withdrawn" =>
           /\ fate'[i] \in {"dropped", "no"} => i <= Len(made') /\ i \notin Waiting' /\ i \notin Pending'
           /\ fate'[i] = "no" => i \notin ItemsOf(written) /\ ~OnWire(i)'
           /\ fate'[i] = "yes" => i \in ItemsOf(written)
    <3>1. ASSUME NEW i \in New PROVE i \notin ItemsOf(written) /\ ~OnWire(i)'
      <4>1. i \in Nat /\ Len(made) < i  BY <1>2 DEF New
      <4>2. i \notin Done /\ ~OnWire(i)  BY <4>1, Unsent DEF IInv
      <4> QED  BY <4>2 DEF Done, OnWire, HolderStill
    <3> QED  BY <3>1
  <2>2. link'.retained <= Len(made') /\ client'.resume.pending <= Len(made')
    BY <1>2, <1>9, <1>10
  <2>3. \A d \in ended : d \in ended'  OBVIOUS
  <2> QED  BY <1>3, <1>12, <2>1, <2>2, <2>3, OrderDesk DEF IInv
<1>14. Numbered' /\ Owned' \subseteq Owned
  <2>1. Open' => client'.conn = client.conn /\ Open /\ client.next <= client'.next /\ client'.next \in Nat
    BY DEF Open, IInv, Typed, Clients
  <2> QED  BY <1>3, <2>1, NumberedDesk DEF IInv
<1>15. Fitting'
  <2>1. Fits(client)'
    <3>1. PICK u : u = client  OBVIOUS
    <3>2. Fits(u)  BY <3>1 DEF IInv, Fitting
    <3>3. Fits(u)'  BY <1>14, <3>2, FitsStill
    <3> QED  BY <3>1, <3>3 DEF Fits
  <2>2. Recovering' => Fits(slot.lease)'
    <3> SUFFICES ASSUME Recovering' PROVE Fits(slot.lease)'
      OBVIOUS
    <3>1. PICK v : v = slot.lease  OBVIOUS
    <3>2. PICK u : u = slot'.lease  OBVIOUS
    <3>3. Fits(v)  BY <1>1, <3>1 DEF IInv, Fitting
    <3>4. u.epoch = v.epoch /\ u.next = v.next /\ u.pending \in {0, v.pending}  BY <3>1, <3>2
    <3>5. Fits(u)'  BY <1>14, <3>3, <3>4, FitsStill
    <3> QED  BY <3>2, <3>5 DEF Fits
  <2>3. client'.phase = "resuming" => Fits(client.resume)'
    <3> SUFFICES ASSUME client.phase = "resuming" PROVE Fits(client.resume)'
      OBVIOUS
    <3>1. PICK u : u = client.resume  OBVIOUS
    <3>2. Fits(u)  BY <3>1 DEF IInv, Fitting
    <3>3. Fits(u)'  BY <1>14, <3>2, FitsStill
    <3> QED  BY <3>1, <3>3 DEF Fits
  <2>4. Reached' = Reached /\ lease' = lease  BY StillDone DEF HolderStill
  <2>5. \A K : Told(K)' = Told(K)  BY DEF Told
  <2> QED  BY <1>14, <2>1, <2>2, <2>3, <2>4, <2>5 DEF IInv, Fitting
<1>16. Remembers'  BY RemembersStill DEF IInv
<1>17. Receipted'
  <2>1. 0 \in {0, 1} /\ client.next <= client'.next /\ client'.next \in Nat
    BY DEF IInv, Typed, Clients
  <2> QED  BY <1>6, <2>1, ReceiptedDesk DEF IInv
<1>18. Telling'  BY TellingStill DEF IInv
<1> QED  BY <1>4, <1>5, <1>7, <1>13, <1>14, <1>15, <1>16, <1>17, <1>18 DEF IInv

(* A new input joins a queue, or is dropped at once. *)
LEMMA TypedWaits ==
  ASSUME IInv, NEW s \in Surfaces, Len(made) + 1 \in Inputs, made' = Append(made, s),
         UNCHANGED <<hidden, holder, toClient, touched, faults, client, toHolder>>,
         \/ /\ Recovering /\ slot' = [slot EXCEPT !.queue = Append(@, Len(made) + 1)]
            /\ link' = link /\ fate' = fate
         \/ /\ ~Recovering /\ Behind /\ link' = [link EXCEPT !.queue = Append(@, Len(made) + 1)]
            /\ slot' = slot /\ fate' = fate
         \/ fate' = Decide({Len(made) + 1}, "dropped") /\ slot' = slot /\ link' = link
  PROVE  IInv' /\ NotSent
<1> DEFINE i == Len(made) + 1
<1>1. /\ made' \in Seq(Surfaces \cup {ControlPlane}) /\ Len(made') = i /\ Len(made') <= MaxInputs
      /\ Len(made) \in Nat /\ Len(made) <= Len(made') /\ New = {i} /\ i \in Item /\ i # 0 /\ i \in Nat
  <2>1. s \in Surfaces \cup {ControlPlane}  OBVIOUS
  <2>2. i \in Inputs  OBVIOUS
  <2> QED  BY <2>1, <2>2, MadeAdds DEF IInv
<1>2. i \notin Waiting /\ i \notin Pending /\ \A q \in Waiting : q < i
  <2>1. Len(made) < i  BY <1>1
  <2>2. i \notin Waiting /\ i \notin Pending  BY <1>1, <2>1, Unsent DEF IInv
  <2>3. ASSUME NEW q \in Waiting PROVE q < i
    <3>1. q <= Len(made) /\ q \in Nat
      BY WaitingNumbers DEF IInv
    <3> QED  BY <1>1, <3>1
  <2> QED  BY <2>2, <2>3
<1>3. /\ HolderStill /\ ended' = ended /\ client' = client /\ toHolder' = toHolder
      /\ toClient' = toClient
  BY DEF holder, HolderStill
<1>4. slot \in Slots /\ link \in LinkStates /\ slot.queue \in Seq(Item) /\ link.queue \in Seq(Item)
  BY DEF IInv, Typed, Slots, LinkStates
<1>5. Increasing(slot.queue) /\ Increasing(link.queue)  BY DEF IInv, InOrder
<1>6. fate \in [Inputs -> Fates]  BY DEF IInv, Typed
<1>7. /\ Recovering => link.queue = <<>>
      /\ ~Recovering => slot.queue = <<>>
      /\ link.queue # <<>> => client.pending # 0 \/ link.reset # "no"
  BY DEF IInv, Staged
<1>8. CASE /\ Recovering /\ slot' = [slot EXCEPT !.queue = Append(@, i)] /\ link' = link /\ fate' = fate
  <2> DEFINE q == Append(slot.queue, i)
  <2>1. q \in Seq(Item) /\ ItemsOf(q) = ItemsOf(slot.queue) \cup {i} /\ Increasing(q)
    <3>1. \A x \in ItemsOf(slot.queue) : x < i  BY <1>2 DEF Waiting
    <3> HIDE DEF i
    <3> QED  BY <1>1, <1>4, <1>5, <3>1, QueueAdds
  <2>2. slot' = [slot EXCEPT !.queue = q]  BY <1>8
  <2> HIDE DEF q
  <2>3. slot' \in Slots /\ slot'.queue = q /\ slot'.lease = slot.lease /\ slot'.stage = slot.stage
        /\ slot'.observer = slot.observer
    BY <1>4, <2>1, <2>2 DEF Slots
  <2>4. Typed'
    BY <1>1, <1>8, <2>3 DEF IInv, Typed, holder
  <2>5. Waiting' = Waiting \cup {i}  BY <1>8, <2>1, <2>3 DEF Waiting
  <2>6. Increasing(slot.queue)' /\ Increasing(link.queue)'
    BY <1>5, <1>8, <2>1, <2>3 DEF Increasing
  <2> QED  BY <1>1, <1>3, <1>7, <1>8, <2>3, <2>4, <2>5, <2>6, StillKept
<1>9. CASE /\ ~Recovering /\ Behind /\ link' = [link EXCEPT !.queue = Append(@, i)]
           /\ slot' = slot /\ fate' = fate
  <2> DEFINE q == Append(link.queue, i)
  <2>1. q \in Seq(Item) /\ ItemsOf(q) = ItemsOf(link.queue) \cup {i} /\ Increasing(q)
    <3>1. \A x \in ItemsOf(link.queue) : x < i  BY <1>2 DEF Waiting
    <3> HIDE DEF i
    <3> QED  BY <1>1, <1>4, <1>5, <3>1, QueueAdds
  <2>2. link' = [link EXCEPT !.queue = q]  BY <1>9
  <2> HIDE DEF q
  <2>3. link' \in LinkStates /\ link'.queue = q /\ link'.reset = link.reset
        /\ link'.retained = link.retained
    BY <1>4, <2>1, <2>2 DEF LinkStates
  <2>4. Typed'
    BY <1>1, <1>9, <2>3 DEF IInv, Typed, holder
  <2>5. Waiting' = Waiting \cup {i}  BY <1>9, <2>1, <2>3 DEF Waiting
  <2>6. Increasing(slot.queue)' /\ Increasing(link.queue)'
    BY <1>5, <1>9, <2>1, <2>3 DEF Increasing
  <2>7. client.pending # 0 \/ link.reset # "no"  BY <1>9 DEF Behind
  <2> QED  BY <1>1, <1>3, <1>7, <1>9, <2>3, <2>4, <2>5, <2>6, <2>7, StillKept
<1>10. CASE fate' = Decide({i}, "dropped") /\ slot' = slot /\ link' = link
  <2>1. \A j \in Inputs : fate'[j] = IF j \in {i} THEN "dropped" ELSE fate[j]
    BY <1>10 DEF Decide
  <2>2. fate' \in [Inputs -> Fates]
    <3>1. "dropped" \in Fates  BY DEF Fates
    <3> HIDE DEF i
    <3> QED  BY <1>6, <1>10, <3>1 DEF Decide
  <2>3. Typed'  BY <1>1, <1>10, <2>2 DEF IInv, Typed, holder
  <2>4. Waiting' = Waiting /\ Pending' = Pending  BY <1>10 DEF Waiting, Pending, ItemsOf
  <2>5. Increasing(slot.queue)' /\ Increasing(link.queue)'
    BY <1>5, <1>10 DEF Increasing
  <2>6. i <= Len(made') /\ i \in New /\ link'.reset = link.reset /\ slot'.lease = slot.lease
    BY <1>1, <1>10
  <2> HIDE DEF i
  <2>7. \A j \in Inputs : fate'[j] # fate[j] => j = i /\ fate'[j] = "dropped"
    BY <2>1
  <2>8. \A j \in Inputs : fate'[j] # fate[j] /\ fate'[j] # "withdrawn" =>
           /\ fate'[j] \in {"dropped", "no"} /\ j <= Len(made') /\ j \notin Waiting'
           /\ j \notin Pending' /\ (fate'[j] = "no" => j \in New)
    BY <1>2, <2>4, <2>6, <2>7
  <2> QED  BY <1>1, <1>3, <1>7, <1>10, <2>3, <2>4, <2>5, <2>8, StillKept
<1> QED  BY <1>8, <1>9, <1>10

LEMMA PromptRefused ==
  ASSUME IInv, Prompt, fate' = Decide({Len(made) + 1}, "no"), UNCHANGED <<client, toHolder>>
  PROVE  IInv' /\ NotSent
<1> DEFINE i == Len(made) + 1
<1>0. /\ made' = Append(made, ControlPlane) /\ i \in Inputs
      /\ UNCHANGED <<hidden, link, slot, holder, toClient, touched, faults>>
  BY DEF Prompt
<1>1. /\ made' \in Seq(Surfaces \cup {ControlPlane}) /\ Len(made') = i /\ Len(made') <= MaxInputs
      /\ Len(made) \in Nat /\ Len(made) <= Len(made') /\ New = {i} /\ i \in Item /\ i # 0 /\ i \in Nat
      /\ Len(made) < i
  BY <1>0, MadeAdds DEF IInv
<1>2. i \notin Waiting /\ i \notin Pending  BY <1>1, Unsent DEF IInv
<1>3. /\ HolderStill /\ ended' = ended  BY <1>0 DEF holder, HolderStill
<1>4. Increasing(slot.queue) /\ Increasing(link.queue)  BY DEF IInv, InOrder
<1>5. fate \in [Inputs -> Fates]  BY DEF IInv, Typed
<1>6. /\ Recovering => link.queue = <<>>
      /\ ~Recovering => slot.queue = <<>>
      /\ link.queue # <<>> => client.pending # 0 \/ link.reset # "no"
  BY DEF IInv, Staged
<1>7. \A j \in Inputs : fate'[j] = IF j \in {i} THEN "no" ELSE fate[j]
  BY DEF Decide
<1>8. fate' \in [Inputs -> Fates]
  <2>1. "no" \in Fates  BY DEF Fates
  <2>2. fate' = Decide({i}, "no")  OBVIOUS
  <2> HIDE DEF i
  <2> QED  BY <1>5, <2>1, <2>2 DEF Decide
<1>9. Typed'  BY <1>0, <1>1, <1>8 DEF IInv, Typed, holder
<1>10. Waiting' = Waiting /\ Pending' = Pending  BY <1>0 DEF Waiting, Pending, ItemsOf
<1>11. Increasing(slot.queue)' /\ Increasing(link.queue)'
  BY <1>0, <1>4 DEF Increasing
<1>12. \A j \in Inputs : fate'[j] # fate[j] => j = i /\ fate'[j] = "no"
  BY <1>7
<1>13. i <= Len(made') /\ i \in New  BY <1>1
<1> HIDE DEF i
<1>14. \A j \in Inputs : fate'[j] # fate[j] /\ fate'[j] # "withdrawn" =>
          /\ fate'[j] \in {"dropped", "no"} /\ j <= Len(made') /\ j \notin Waiting'
          /\ j \notin Pending' /\ (fate'[j] = "no" => j \in New)
  BY <1>2, <1>10, <1>12, <1>13
<1> QED  BY <1>0, <1>1, <1>3, <1>6, <1>9, <1>10, <1>11, <1>14, StillKept

LEMMA HideKept ==
  ASSUME IInv, NEW s \in Surfaces, Hide(s)
  PROVE  IInv' /\ NotSent
<1> DEFINE mine == OfSurface(s)
           retained == {slot.lease.pending} \cap mine
           waiting == mine \cap (ItemsOf(slot.queue) \cup ItemsOf(link.queue))
           p == IF retained # {} THEN 0 ELSE slot.lease.pending
           t == slot.timed /\ retained = {}
           sq == Without(slot.queue, mine)
           lq == Without(link.queue, mine)
<1>1. /\ slot \in Slots /\ link \in LinkStates /\ slot.queue \in Seq(Item) /\ link.queue \in Seq(Item)
      /\ slot.lease \in Snapshots /\ slot.lease.pending \in Item /\ fate \in [Inputs -> Fates]
      /\ touched \in BOOLEAN /\ slot.timed \in BOOLEAN /\ hidden \subseteq Surfaces
  BY DEF IInv, Typed, Slots, LinkStates, Snapshots
<1>2. /\ slot' = [slot EXCEPT !.queue = sq, !.lease.pending = p, !.timed = t]
      /\ link' = [link EXCEPT !.queue = lq]
      /\ fate' = [i \in Inputs |-> IF i \in waiting THEN "dropped"
                                   ELSE IF i \in retained THEN "withdrawn" ELSE fate[i]]
      /\ hidden' = hidden \cup {s} /\ touched' = (touched /\ retained = {})
      /\ UNCHANGED <<made, client, holder, toHolder, toClient, faults>>
  BY DEF Hide
<1>3. /\ sq \in Seq(Item) /\ ItemsOf(sq) \subseteq ItemsOf(slot.queue) \ mine
      /\ lq \in Seq(Item) /\ ItemsOf(lq) \subseteq ItemsOf(link.queue) \ mine
      /\ Increasing(sq) /\ Increasing(lq)
  <2>1. Item \subseteq Nat /\ Increasing(slot.queue) /\ Increasing(link.queue)
    BY Bounds DEF IInv, InOrder
  <2>2. PICK M : M = mine  OBVIOUS
  <2>3. ASSUME NEW q \in Seq(Item), Increasing(q)
        PROVE  /\ Without(q, M) \in Seq(Item) /\ ItemsOf(Without(q, M)) \subseteq ItemsOf(q) \ M
               /\ Increasing(Without(q, M))
    <3> HIDE DEF mine, retained, waiting, p, t, sq, lq
    <3>1. PICK T : T = Item  OBVIOUS
    <3>2. T \subseteq Nat /\ q \in Seq(T)  BY <2>1, <3>1
    <3>3. /\ Without(q, M) \in Seq(T) /\ ItemsOf(Without(q, M)) \subseteq ItemsOf(q) \ M
          /\ Increasing(q) => Increasing(Without(q, M))
      BY <3>2, WithoutIs
    <3> QED  BY <2>3, <3>1, <3>3
  <2>4. sq = Without(slot.queue, M) /\ lq = Without(link.queue, M)  BY <2>2
  <2> HIDE DEF mine, sq, lq
  <2> QED  BY <1>1, <2>1, <2>2, <2>3, <2>4
<1>4. p \in Item /\ p \in {0, slot.lease.pending} /\ t \in BOOLEAN  BY <1>1, Bounds
<1>5. p \notin mine \/ p = 0  OBVIOUS
<1>6. \A i \in mine : i # 0 /\ i <= Len(made)
  <2>1. Len(made) \in Nat  BY Elements DEF IInv
  <2> QED  BY <2>1 DEF OfSurface
<1>7. slot.queue = <<>> => sq = <<>>
  <2>1. ASSUME slot.queue = <<>>, sq # <<>> PROVE FALSE
    <3> HIDE DEF sq
    <3>1. 1 \in 1..Len(sq)  BY <1>3, <2>1
    <3>2. sq[1] \in ItemsOf(slot.queue)  BY <1>3, <3>1 DEF ItemsOf
    <3> QED  BY <2>1, <3>2, EmptyQueue
  <2> QED  BY <2>1
<1>8. link.queue = <<>> => lq = <<>>
  <2>1. ASSUME link.queue = <<>>, lq # <<>> PROVE FALSE
    <3> HIDE DEF lq
    <3>1. 1 \in 1..Len(lq)  BY <1>3, <2>1
    <3>2. lq[1] \in ItemsOf(link.queue)  BY <1>3, <3>1 DEF ItemsOf
    <3> QED  BY <2>1, <3>2, EmptyQueue
  <2> QED  BY <2>1
<1>9. waiting \subseteq mine /\ waiting \subseteq Waiting  BY DEF Waiting
<1> HIDE DEF sq, lq, p, t
<1>10. /\ slot' \in Slots /\ slot'.queue = sq /\ slot'.stage = slot.stage
       /\ slot'.observer = slot.observer /\ slot'.lease.epoch = slot.lease.epoch
       /\ slot'.lease.next = slot.lease.next /\ slot'.lease.pending = p
  BY <1>1, <1>2, <1>3, <1>4 DEF Slots, Snapshots
<1>11. /\ link' \in LinkStates /\ link'.queue = lq /\ link'.reset = link.reset
       /\ link'.retained = link.retained
  BY <1>1, <1>2, <1>3 DEF LinkStates
<1>12. fate' \in [Inputs -> Fates]
       /\ \A i \in Inputs : fate'[i] # fate[i] /\ fate'[i] # "withdrawn" =>
            i \in waiting /\ fate'[i] = "dropped"
  <2> HIDE DEF waiting, retained
  <2>1. "dropped" \in Fates /\ "withdrawn" \in Fates  BY DEF Fates
  <2> QED  BY <1>1, <1>2, <2>1
<1>13. Typed'
  <2>1. hidden' \subseteq Surfaces /\ touched' \in BOOLEAN  BY <1>1, <1>2
  <2> QED  BY <1>2, <1>10, <1>11, <1>12, <2>1 DEF IInv, Typed, holder
<1>14. Waiting' \subseteq Waiting \ mine
  BY <1>3, <1>10, <1>11 DEF Waiting
<1>15. \A i \in waiting : i \in Waiting /\ i \notin Waiting' /\ i \notin Pending' /\ i <= Len(made)
  <2> SUFFICES ASSUME NEW i \in waiting
               PROVE  i \in Waiting /\ i \notin Waiting' /\ i \notin Pending' /\ i <= Len(made)
    OBVIOUS
  <2>1. i \in mine /\ i \in Waiting /\ i # 0 /\ i <= Len(made)  BY <1>6, <1>9
  <2>2. i \notin Pending
    <3>1. i \in Nat  BY <2>1, Elements, Bounds DEF IInv, Waiting, ItemsOf
    <3>2. ~BeforeWaiting(i)  BY <2>1, <3>1 DEF BeforeWaiting
    <3> QED  BY <3>2 DEF IInv, InOrder
  <2>3. Pending' \subseteq Pending \cup {p}  BY <1>2, <1>10 DEF Pending
  <2>4. i # p  BY <1>5, <2>1
  <2> QED  BY <1>14, <2>1, <2>2, <2>3, <2>4
<1>16. Increasing(slot.queue)' /\ Increasing(link.queue)'
  BY <1>3, <1>10, <1>11 DEF Increasing
<1>17. /\ Recovering => lq = <<>>
       /\ ~Recovering => sq = <<>>
       /\ lq # <<>> => client.pending # 0 \/ link.reset # "no"
  BY <1>7, <1>8 DEF IInv, Staged
<1>18. HolderStill /\ ended' = ended /\ Len(made) <= Len(made') /\ Len(made') = Len(made)
  <2>1. Len(made) \in Nat  BY Elements DEF IInv
  <2> QED  BY <1>2, <2>1 DEF HolderStill, holder
<1> HIDE DEF mine, waiting, retained
<1>19. \A i \in Inputs : fate'[i] # fate[i] /\ fate'[i] # "withdrawn" =>
           /\ fate'[i] \in {"dropped", "no"} /\ i <= Len(made') /\ i \notin Waiting'
           /\ i \notin Pending' /\ (fate'[i] = "no" => i \in New)
  BY <1>12, <1>15, <1>18
<1> QED  BY <1>2, <1>4, <1>10, <1>11, <1>13, <1>14, <1>16, <1>17, <1>18, <1>19, StillKept

LEMMA RetainedKept ==
  ASSUME IInv, RetainedExpires
  PROVE  IInv' /\ NotSent
<1>1. /\ slot \in Slots /\ slot.lease \in Snapshots /\ fate \in [Inputs -> Fates] /\ faults \in Nat
  BY DEF IInv, Typed, Slots
<1>2. /\ slot' = [slot EXCEPT !.lease.pending = 0, !.timed = FALSE] /\ touched' = FALSE
      /\ fate' = Decide({slot.lease.pending} \ {0}, "withdrawn") /\ faults' = faults + 1
      /\ UNCHANGED <<people, client, link, holder, toHolder, toClient>>
  BY DEF RetainedExpires, Fault
<1>3. /\ slot' \in Slots /\ slot'.queue = slot.queue /\ slot'.stage = slot.stage
      /\ slot'.observer = slot.observer /\ slot'.lease.epoch = slot.lease.epoch
      /\ slot'.lease.next = slot.lease.next /\ slot'.lease.pending = 0
  BY <1>1, <1>2, Bounds DEF Slots, Snapshots
<1>4. /\ fate' \in [Inputs -> Fates]
      /\ \A i \in Inputs : fate'[i] # fate[i] => fate'[i] = "withdrawn"
  <2>1. "withdrawn" \in Fates  BY DEF Fates
  <2> QED  BY <1>1, <1>2, <2>1 DEF Decide
<1>5. Typed'
  <2>1. faults' \in Nat  BY <1>1, <1>2
  <2> QED  BY <1>2, <1>3, <1>4, <2>1 DEF IInv, Typed, holder, people
<1>6. Waiting' = Waiting  BY <1>2, <1>3 DEF Waiting, ItemsOf
<1>7. Increasing(slot.queue)' /\ Increasing(link.queue)'
  BY <1>2, <1>3 DEF Increasing, IInv, InOrder
<1>8. /\ Recovering => link.queue = <<>>
      /\ ~Recovering => slot.queue = <<>>
      /\ link.queue # <<>> => client.pending # 0 \/ link.reset # "no"
  BY DEF IInv, Staged
<1>9. HolderStill /\ ended' = ended /\ made' = made /\ Len(made) <= Len(made')
  <2>1. Len(made) \in Nat  BY Elements DEF IInv
  <2> QED  BY <1>2, <2>1 DEF HolderStill, holder, people
<1> QED  BY <1>2, <1>3, <1>4, <1>5, <1>6, <1>7, <1>8, <1>9, StillKept

LEMMA QueuedKept ==
  ASSUME IInv, QueuedExpires
  PROVE  IInv' /\ NotSent
<1> DEFINE q == Tail(slot.queue)
           i == Head(slot.queue)
<1>1. /\ slot \in Slots /\ slot.queue \in Seq(Item) /\ fate \in [Inputs -> Fates] /\ faults \in Nat
      /\ Increasing(slot.queue) /\ slot.queue # <<>>
  BY DEF IInv, Typed, Slots, InOrder, QueuedExpires
<1>2. /\ slot' = [slot EXCEPT !.queue = q] /\ fate' = Decide({i}, "dropped")
      /\ faults' = faults + 1
      /\ UNCHANGED <<people, client, link, holder, toHolder, toClient, touched>>
  BY DEF QueuedExpires, Fault
<1>3. /\ q \in Seq(Item) /\ i \in Item /\ i \in ItemsOf(slot.queue)
      /\ \A x \in ItemsOf(q) : x \in ItemsOf(slot.queue) /\ i < x
      /\ Increasing(q)
  BY <1>1, QueueDrops
<1> HIDE DEF q, i
<1>4. /\ slot' \in Slots /\ slot'.queue = q /\ slot'.stage = slot.stage
      /\ slot'.observer = slot.observer /\ slot'.lease = slot.lease
  BY <1>1, <1>2, <1>3 DEF Slots
<1>5. /\ fate' \in [Inputs -> Fates]
      /\ \A j \in Inputs : fate'[j] # fate[j] => j = i /\ fate'[j] = "dropped"
  <2>1. "dropped" \in Fates  BY DEF Fates
  <2> QED  BY <1>1, <1>2, <2>1 DEF Decide
<1>6. Typed'
  <2>1. faults' \in Nat  BY <1>1, <1>2
  <2> QED  BY <1>2, <1>4, <1>5, <2>1 DEF IInv, Typed, holder, people
<1>7. Waiting' \subseteq Waiting /\ i \in Waiting
  BY <1>2, <1>3, <1>4 DEF Waiting, ItemsOf
<1>8. Recovering /\ link.queue = <<>>
  BY <1>1 DEF IInv, Staged
<1>9. i \notin Waiting' /\ i \notin Pending' /\ i <= Len(made)
  <2>1. i \in Nat /\ i <= Len(made)  BY <1>3, <1>7, Bounds DEF IInv, InOrder
  <2>2. Waiting' = ItemsOf(q)
    <3>1. Waiting' = ItemsOf(q) \cup ItemsOf(<<>>)  BY <1>2, <1>4, <1>8 DEF Waiting, ItemsOf
    <3> QED  BY <3>1, EmptyQueue
  <2>3. i \notin ItemsOf(q)
    <3>1. i \in ItemsOf(q) => i < i  BY <1>3
    <3> QED  BY <2>1, <3>1
  <2>4. i \notin Pending
    <3>1. ~BeforeWaiting(i)  BY <1>7, <2>1 DEF BeforeWaiting
    <3> QED  BY <3>1 DEF IInv, InOrder
  <2>5. Pending' = Pending  BY <1>2, <1>4 DEF Pending
  <2> QED  BY <2>1, <2>2, <2>3, <2>4, <2>5
<1>10. Increasing(slot.queue)' /\ Increasing(link.queue)'
  BY <1>2, <1>3, <1>4 DEF Increasing, IInv, InOrder
<1>11. HolderStill /\ ended' = ended /\ made' = made /\ Len(made) <= Len(made')
  <2>1. Len(made) \in Nat  BY Elements DEF IInv
  <2> QED  BY <1>2, <2>1 DEF HolderStill, holder, people
<1> QED  BY <1>2, <1>4, <1>5, <1>6, <1>7, <1>8, <1>9, <1>10, <1>11, StillKept

-----------------------------------------------------------------------------
(* Sending the next input, by a client that knows what v says. *)

LEMMA SendKept ==
  ASSUME IInv, Typed', HolderStill, ended' = ended, Len(made) <= Len(made'),
         NEW v, Fits(v), v.epoch # 0, v.next \in Nat,
         lease.owner = client.conn => lease.epoch = v.epoch,
         v.epoch = client.epoch \/ \E k \in 1..Len(toClient) : v.epoch = toClient[k].epoch,
         NEW f \in Frames, f.kind = "input", More(client.conn, f), f.epoch = v.epoch, f.n = v.next,
         f.item # 0, f.item \in Waiting \/ f.item \in New, f.item <= Len(made'),
         \A k \in InputsOf(client.conn) : toHolder[client.conn][k].n < v.next,
         client'.conn = client.conn, client'.phase = "attached", client'.resume = client.resume,
         client'.epoch = v.epoch, client'.next = v.next + 1, client'.pending = f.item,
         client'.asked # 0 => client'.asked = f.item /\ link'.reset = "no",
         slot'.stage = "none", slot'.queue = <<>>, slot'.lease.pending = 0, ~slot'.observer,
         slot'.lease.epoch \in {0, slot.lease.epoch}, link'.retained <= Len(made'),
         \A q \in ItemsOf(link.queue)' : q \in Waiting /\ f.item < q, Increasing(link.queue)',
         \A i \in Inputs : fate'[i] # fate[i] /\ fate'[i] # "withdrawn" =>
           /\ fate'[i] \in {"dropped", "no"} =>
                i <= Len(made') /\ i \notin ItemsOf(link.queue)' /\ i # f.item
           /\ fate'[i] = "no" => i \notin ItemsOf(written) /\ ~OnWire(i)'
           /\ fate'[i] = "yes" => i \in ItemsOf(written),
         NEW t \in {0, 1}, Heard(t), Questions', Receipted', Telling'
  PROVE  IInv' /\ NotSent
<1>1. /\ Attached' /\ ~Recovering' /\ Open'
      /\ 0 \notin Inputs /\ Len(made) \in Nat /\ Len(made') \in Nat
  <2>1. made \in Seq(Surfaces \cup {ControlPlane}) /\ made' \in Seq(Surfaces \cup {ControlPlane})
    BY DEF IInv, Typed
  <2> QED  BY <2>1, Bounds DEF Attached, Recovering, Open
<1>2. Staged'  BY <1>1 DEF Staged
<1>3. Epochs'
  <2>1. \A e \in {client'.epoch, client'.resume.epoch, slot'.lease.epoch} :
           \/ e = 0 \/ e \in {client.epoch, client.resume.epoch, slot.lease.epoch}
           \/ \E k \in 1..Len(toClient) : e = toClient[k].epoch
    OBVIOUS
  <2>2. lease.owner = client'.conn /\ client'.epoch # 0 => client'.epoch = lease.epoch
    OBVIOUS
  <2>3. client'.conn = client.conn  OBVIOUS
  <2>4. Heard(t) \/ toClient' = <<>>  OBVIOUS
  <2> QED  BY <2>1, <2>2, <2>3, <2>4, EpochsDesk DEF IInv
<1>4. Waiting' = ItemsOf(link.queue)'
  <2>1. ItemsOf(slot.queue)' = {}
    <3>1. ItemsOf(slot.queue)' = ItemsOf(<<>>)  BY DEF ItemsOf
    <3> QED  BY <3>1, EmptyQueue
  <2> QED  BY <2>1 DEF Waiting
<1>5. f.item \in Nat  BY OwnedTypes DEF Frames, IInv
<1>6. \A q \in Waiting' : q \in Waiting /\ f.item < q /\ 0 < q
  <2>1. \A q \in Waiting : q \in Nat /\ q # 0
    BY WaitingNumbers DEF IInv
  <2> QED  BY <1>4, <2>1
<1>7. Pending' \subseteq {0, f.item}
  BY DEF Pending
<1>8. InOrder' /\ Settled' /\ NotSent
  <2>1. Wire({f})  BY DEF Wire
  <2>2. \A d \in ended : d \in ended' \/ InputsOf(d)' = {}  OBVIOUS
  <2>3. \A x \in Pending' : /\ x \in Waiting \/ x \in Pending \/ x = 0 \/ x \in New
                            /\ x <= Len(made') /\ \A q \in Waiting' : x < q
    BY <1>1, <1>6, <1>7
  <2>4. \A g \in {f} : /\ g.item # 0 /\ (g.item \in Waiting \/ g.item \in Pending \/ g.item \in New)
                       /\ g.item <= Len(made') /\ \A q \in Waiting' : g.item < q
    BY <1>6
  <2>5. Increasing(slot.queue)'
    <3>1. Increasing(slot.queue)' <=> Increasing(<<>>)  BY DEF Increasing
    <3> QED  BY <3>1, EmptyQueue
  <2>6. client'.resume.pending <= Len(made')
    <3>1. client.resume.pending <= Len(made) /\ client.resume.pending \in Nat
      BY Bounds DEF IInv, InOrder, Typed, Clients, Snapshots
    <3> QED  BY <1>1, <3>1
  <2>7. \A i \in Inputs : fate'[i] # fate[i] /\ fate'[i] # "withdrawn" =>
           /\ fate'[i] \in {"dropped", "no"} => i <= Len(made') /\ i \notin Waiting' /\ i \notin Pending'
           /\ fate'[i] = "no" => i \notin ItemsOf(written) /\ ~OnWire(i)'
           /\ fate'[i] = "yes" => i \in ItemsOf(written)
    BY <1>1, <1>4, <1>7
  <2>8. \A q \in Waiting' : q \in Waiting \/ q \in New  BY <1>6
  <2> QED  BY <2>1, <2>2, <2>3, <2>4, <2>5, <2>6, <2>7, <2>8, OrderDesk DEF IInv
<1>9. Numbered' /\ Fits(client)'
  <2>1. \A d \in Done : d < f.item  BY <1>1, <1>5, Later DEF New, IInv
  <2>2. \A g \in Owned : g.item < f.item  BY <1>1, <1>5, Later DEF New, IInv
  <2> QED  BY <2>1, <2>2, SendNext DEF IInv
<1>10. Fitting'  BY <1>1, <1>9 DEF Fitting
<1>11. Remembers'  BY RemembersStill DEF IInv
<1> QED  BY <1>2, <1>3, <1>8, <1>9, <1>10, <1>11 DEF IInv

(* The receipts of a prompt that has just been sent are yet to come. *)
LEMMA TellingNew ==
  ASSUME IInv, HolderStill, Open, client.epoch # 0, toClient' = toClient,
         NEW f \in Frames, f.kind = "input", More(client.conn, f), f.n = client.next,
         Len(made) < f.item, client'.conn = client.conn, client'.epoch = client.epoch,
         client'.next = client.next + 1, client'.asked = f.item
  PROVE  Telling'
<1>1. PICK d \in Links : d = client.conn  BY DEF IInv, Typed, Clients
<1>2. PICK K : K = {"input"}  OBVIOUS
<1>3. /\ f.item \in Nat /\ f.n \in Nat /\ client.next \in Nat
  BY Bounds DEF Frames, IInv, Typed, Clients
<1>4. /\ f.item \notin Done /\ ~OnWire(f.item)
      /\ \A c \in Links : \A k \in InputsOf(c) : toHolder[c][k].item # f.item
  <2>1. f.item \notin Done /\ ~OnWire(f.item)  BY <1>3, Unsent DEF IInv
  <2>2. ASSUME NEW c \in Links, NEW k \in InputsOf(c) PROVE toHolder[c][k].item # f.item
    <3>1. toHolder[c][k].item <= Len(made)  BY DEF IInv, InOrder, BeforeWaiting
    <3>2. Len(made) \in Nat  BY Elements DEF IInv
    <3> QED  BY <1>3, <3>1, <3>2
  <2> QED  BY <2>1, <2>2
<1>5. Latest' = client.next  BY <1>3 DEF Latest
<1>6. Mine' = {}
  <2> SUFFICES ASSUME NEW k \in Mine' PROVE FALSE
    OBVIOUS
  <2>1. /\ k \in Told({"receipt"}) /\ toClient[k].epoch = client.epoch /\ toClient[k].n = client.next
    BY <1>5 DEF Mine, Told
  <2>2. toClient[k].n < client.next  BY <2>1 DEF IInv, Receipted
  <2> QED  BY <1>3, <2>1, <2>2
<1>7. ASSUME NEW c \in Links, NEW k \in InputsOf(c)'
      PROVE  \/ k \in InputsOf(c) /\ toHolder'[c][k] = toHolder[c][k]
             \/ c = d /\ k = Len(toHolder[d]) + 1 /\ toHolder'[c][k] = f
  <2>1. k \in AtOf(c, K)'  BY <1>2 DEF InputsOf
  <2>2. More(d, f)  BY <1>1
  <2>3. \/ k \in AtOf(c, K) /\ toHolder'[c][k] = toHolder[c][k]
        \/ c = d /\ k = Len(toHolder[d]) + 1 /\ toHolder'[c][k] = f /\ f.kind \in K
    BY <2>1, <2>2, MoreAt DEF IInv
  <2> QED  BY <1>2, <2>3 DEF InputsOf
<1>8. ASSUME NEW c \in Links, NEW k \in InputsOf(c)', toHolder'[c][k].item = f.item
      PROVE  c = d /\ k = Len(toHolder[d]) + 1 /\ toHolder'[c][k] = f
  BY <1>4, <1>7, <1>8
<1>9. ASSUME NEW k \in InputsOf(d)', toHolder'[d][k].n = client.next
      PROVE  toHolder'[d][k].item = f.item
  <2>1. CASE k \in InputsOf(d) /\ toHolder'[d][k] = toHolder[d][k]
    <3>1. toHolder[d][k].n < client.next  BY <1>1, <2>1 DEF IInv, Numbered
    <3> QED  BY <1>3, <1>9, <2>1, <3>1
  <2> QED  BY <1>7, <2>1
<1>10. ASSUME lease.inflight # 0, lease.epoch = client.epoch, lease.high + 1 = client.next
       PROVE  FALSE
  <2>1. Reached < client.next  BY <1>10 DEF IInv, Fitting, Fits
  <2> QED  BY <1>3, <1>10, <2>1 DEF Reached
<1>11. lease' = lease /\ Done' = Done  BY StillDone DEF HolderStill
<1>12. \A k \in InputsOf(client.conn)' :
         toHolder'[client'.conn][k].n = Latest' => toHolder'[client'.conn][k].item = client'.asked
  BY <1>1, <1>5, <1>9 DEF InputsOf
<1>13. \A c \in Links : \A k \in InputsOf(c)' : toHolder'[c][k].item = client'.asked =>
         /\ c = client'.conn /\ toHolder'[c][k].n = Latest' /\ client'.asked \notin Done'
         /\ Mine' = {}
         /\ \A j \in InputsOf(c)' : toHolder'[c][j].item = client'.asked => j = k
  BY <1>1, <1>4, <1>5, <1>6, <1>8, <1>11
<1> QED  BY <1>5, <1>6, <1>10, <1>11, <1>12, <1>13 DEF Telling

(* An input that is sent as soon as it is typed, or a prompt. *)
LEMMA NewSent ==
  ASSUME IInv, NEW s \in Surfaces \cup {ControlPlane}, Len(made) + 1 \in Inputs,
         made' = Append(made, s), ~Recovering, Sendable,
         \/ client' = [client EXCEPT !.pending = Len(made) + 1, !.next = @ + 1]
         \/ client' = [client EXCEPT !.pending = Len(made) + 1, !.next = @ + 1, !.asked = Len(made) + 1],
         Send(Frame("input", client.epoch, client.next, Len(made) + 1)),
         UNCHANGED <<hidden, slot, link, fate, holder, toClient, touched, faults>>
  PROVE  IInv' /\ NotSent
<1> DEFINE i == Len(made) + 1
           n == client.next + 1
           f == Frame("input", client.epoch, client.next, i)
<1>1. /\ made' \in Seq(Surfaces \cup {ControlPlane}) /\ Len(made') = i /\ Len(made') <= MaxInputs
      /\ Len(made) \in Nat /\ Len(made) <= Len(made') /\ New = {i} /\ i \in Item /\ i # 0 /\ i \in Nat
      /\ Len(made) < i
  BY MadeAdds DEF IInv
<1>2. /\ client \in Clients /\ client.next \in Nat /\ client.epoch \in Nat /\ client.epoch # 0
      /\ client.pending = 0 /\ link.reset = "no" /\ client.asked = 0 /\ Attached
      /\ client.phase = "attached" /\ client.conn \in Links
      /\ n \in Nat \ {0}
  BY DEF IInv, Typed, Clients, Sendable, Staged, Attached
<1>3. /\ f \in Frames /\ f.kind = "input" /\ f.epoch = client.epoch /\ f.n = client.next
      /\ f.item = i
  <2>1. "input" \in FrameKinds  BY Kinds
  <2> HIDE DEF i
  <2> QED  BY <1>1, <1>2, <2>1, FrameIs
<1>4. toHolder' \in [Links -> Seq(Frames)] /\ More(client.conn, f)
  BY <1>3, SendIs DEF IInv
<1> HIDE DEF f
<1>5. /\ client' \in Clients /\ client'.conn = client.conn /\ client'.phase = client.phase
      /\ client'.resume = client.resume /\ client'.epoch = client.epoch
      /\ client'.next = n /\ client'.pending = i /\ client'.asked \in {0, i}
  <2>1. \/ client' = [client EXCEPT !.pending = i, !.next = n]
        \/ client' = [client EXCEPT !.pending = i, !.next = n, !.asked = i]
    OBVIOUS
  <2>2. i \in Item /\ 0 \in Item  BY <1>1, Bounds
  <2> HIDE DEF i, n
  <2>3. CASE client' = [client EXCEPT !.pending = i, !.next = n]
    BY <1>2, <2>2, <2>3 DEF Clients
  <2>4. CASE client' = [client EXCEPT !.pending = i, !.next = n, !.asked = i]
    BY <1>2, <2>2, <2>4 DEF Clients
  <2> QED  BY <2>1, <2>3, <2>4
<1>6. Typed'  BY <1>1, <1>4, <1>5 DEF IInv, Typed, holder
<1>7. HolderStill /\ ended' = ended /\ toClient' = toClient /\ link' = link /\ slot' = slot
      /\ fate' = fate
  BY DEF HolderStill, holder
<1>8. Heard(0) /\ 0 \in {0, 1}  BY <1>7, HeardNone DEF IInv
<1>9. Questions'
  <2>1. Attached'  BY <1>2, <1>5 DEF Attached
  <2> QED  BY <1>2, <1>3, <1>4, <1>5, <1>7, <1>8, <2>1, QuestionsInput DEF IInv
<1>10. Receipted'
  <2>1. client.next <= client'.next /\ client'.next \in Nat /\ client'.phase # "resuming"
    BY <1>2, <1>5
  <2> QED  BY <1>5, <1>8, <2>1, ReceiptedDesk DEF IInv
<1>11. Telling'
  <2>1. CASE client'.asked = 0  BY <2>1, TellingNone
  <2>2. CASE client'.asked = i
    <3>1. Open  BY <1>2 DEF Open
    <3> HIDE DEF i
    <3> QED  BY <1>1, <1>2, <1>3, <1>4, <1>5, <1>7, <2>2, <3>1, TellingNew
  <2> QED  BY <1>5, <2>1, <2>2
<1>12. PICK v : v = client  OBVIOUS
<1>13. /\ Fits(v) /\ v.epoch # 0 /\ v.next \in Nat /\ v.epoch = client.epoch /\ v.next = client.next
       /\ lease.owner = client.conn => lease.epoch = v.epoch
       /\ \A k \in InputsOf(client.conn) : toHolder[client.conn][k].n < v.next
  BY <1>2, <1>12 DEF IInv, Fitting, Epochs, Numbered, Open
<1>14. /\ slot'.stage = "none" /\ slot'.queue = <<>> /\ slot'.lease.pending = 0 /\ ~slot'.observer
       /\ slot'.lease.epoch \in {0, slot.lease.epoch}
  BY <1>7 DEF Recovering, IInv, Staged
<1>15. link'.queue = <<>>
  BY <1>2, <1>7 DEF IInv, Staged
<1>16. ItemsOf(link.queue)' = {} /\ Increasing(link.queue)'
  BY <1>15, EmptyQueue DEF ItemsOf, Increasing
<1>17. link'.retained <= Len(made')
  <2>1. link.retained <= Len(made) /\ link.retained \in Nat
    BY Bounds DEF IInv, InOrder, Typed, LinkStates
  <2> QED  BY <1>1, <1>7, <2>1
<1>18. /\ f.item # 0 /\ f.item \in New /\ f.item <= Len(made') /\ client'.next = v.next + 1
       /\ client'.pending = f.item /\ f.epoch = v.epoch /\ f.n = v.next
       /\ client'.asked # 0 => client'.asked = f.item /\ link'.reset = "no"
  BY <1>1, <1>2, <1>3, <1>5, <1>7, <1>13
<1> HIDE DEF i, n
<1>19. client'.phase = "attached" /\ client'.epoch = v.epoch  BY <1>2, <1>5, <1>13
<1>20. \A j \in Inputs : fate'[j] = fate[j]  BY <1>7
<1> QED  BY <1>1, <1>3, <1>4, <1>5, <1>6, <1>7, <1>8, <1>9, <1>10, <1>11, <1>13, <1>14, <1>16,
            <1>17, <1>18, <1>19, <1>20, SendKept

LEMMA BrowserKept ==
  ASSUME IInv, NEW s \in Surfaces, BrowserInput(s)
  PROVE  IInv' /\ NotSent
<1>1. /\ Len(made) + 1 \in Inputs /\ made' = Append(made, s)
      /\ UNCHANGED <<hidden, holder, toClient, touched, faults>>
      /\ s \in Surfaces \cup {ControlPlane}
  BY DEF BrowserInput
<1>2. CASE /\ ~Recovering /\ Sendable /\ StartInput(Len(made) + 1)
           /\ UNCHANGED <<slot, link, fate>>
  BY <1>1, <1>2, NewSent DEF StartInput
<1>3. CASE /\ UNCHANGED <<client, toHolder>>
           /\ \/ /\ Recovering /\ slot' = [slot EXCEPT !.queue = Append(@, Len(made) + 1)]
                 /\ link' = link /\ fate' = fate
              \/ /\ ~Recovering /\ Behind /\ link' = [link EXCEPT !.queue = Append(@, Len(made) + 1)]
                 /\ slot' = slot /\ fate' = fate
              \/ fate' = Decide({Len(made) + 1}, "dropped") /\ slot' = slot /\ link' = link
  BY <1>1, <1>3, TypedWaits
<1> QED  BY <1>2, <1>3 DEF BrowserInput, desk

LEMMA PromptKept ==
  ASSUME IInv, Prompt
  PROVE  IInv' /\ NotSent
<1>1. /\ Len(made) + 1 \in Inputs /\ made' = Append(made, ControlPlane)
      /\ UNCHANGED <<hidden, link, slot, holder, toClient, touched, faults>>
      /\ ControlPlane \in Surfaces \cup {ControlPlane}
  BY DEF Prompt
<1>2. CASE ~Recovering /\ Sendable
  <2>1. /\ client' = [client EXCEPT !.pending = Len(made) + 1, !.next = @ + 1, !.asked = Len(made) + 1]
        /\ Send(Frame("input", client.epoch, client.next, Len(made) + 1)) /\ fate' = fate
    BY <1>2 DEF Prompt
  <2> QED  BY <1>1, <1>2, <2>1, NewSent
<1>3. CASE ~(~Recovering /\ Sendable)
  <2>1. fate' = Decide({Len(made) + 1}, "no") /\ UNCHANGED <<client, toHolder>>
    BY <1>3 DEF Prompt
  <2> QED  BY <2>1, PromptRefused
<1> QED  BY <1>2, <1>3

-----------------------------------------------------------------------------
(* The steps that send no input. *)

(* A snapshot that was the client's, the slot's or its resumption's. *)
From(u) ==
  u.epoch = 0 \/ \E v : Fits(v) /\ u.epoch = v.epoch /\ u.next = v.next /\ u.pending \in {0, v.pending}

LEMMA FromFits ==
  ASSUME HolderStill, Owned' \subseteq Owned, NEW u, From(u)
  PROVE  Fits(u)'
<1>1. CASE u.epoch = 0  BY <1>1 DEF Fits
<1>2. CASE \E v : Fits(v) /\ u.epoch = v.epoch /\ u.next = v.next /\ u.pending \in {0, v.pending}
  BY <1>2, FitsStill
<1> QED  BY <1>1, <1>2 DEF From

LEMMA WaitingIs ==
  ASSUME Typed, InOrder
  PROVE  \A q \in Waiting : q \in Nat /\ 0 < q
<1>1. \A q \in Waiting : q \in Item
  <2>1. \A q \in ItemsOf(slot.queue) : q \in Item  BY Elements DEF ItemsOf
  <2>2. \A q \in ItemsOf(link.queue) : q \in Item  BY Elements DEF ItemsOf
  <2> QED  BY <2>1, <2>2 DEF Waiting
<1>2. \A q \in Waiting : q # 0  BY DEF InOrder
<1>3. \A q \in Nat : q # 0 => 0 < q  OBVIOUS
<1> QED  BY <1>1, <1>2, <1>3, Bounds

LEMMA DeskKept ==
  ASSUME IInv, Typed', HolderStill, Wire({}), made' = made,
         \A d \in ended : d \in ended' \/ InputsOf(d)' = {},
         Waiting' \subseteq Waiting, Pending' \subseteq Pending \cup {0},
         Increasing(slot.queue)', Increasing(link.queue)',
         link'.retained <= Len(made), client'.resume.pending <= Len(made), client'.asked = 0,
         \A i \in Inputs : fate'[i] # fate[i] /\ fate'[i] # "withdrawn" =>
           /\ fate'[i] \in {"dropped", "no"} => i <= Len(made) /\ i \notin Waiting' /\ i \notin Pending'
           /\ fate'[i] = "no" => i \notin ItemsOf(written) /\ ~OnWire(i)'
           /\ fate'[i] = "yes" => i \in ItemsOf(written),
         Staged', Questions', Epochs', Receipted',
         Open' => \/ InputsOf(client.conn)' = {}
                  \/ /\ client'.conn = client.conn /\ Open
                     /\ client.next <= client'.next /\ client'.next \in Nat,
         From(client'), Recovering' => From(slot'.lease),
         client'.phase = "resuming" => From(client'.resume),
         client'.epoch = 0 => \/ Told({"attached", "acquired"})' = {}
                              \/ client.epoch = 0 /\ \E t \in {0, 1} : Heard(t)
  PROVE  IInv' /\ NotSent
<1>1. Len(made) \in Nat /\ Len(made) <= Len(made') /\ New = {}
  <2>1. Len(made) \in Nat  BY Elements DEF IInv
  <2> QED  BY <2>1 DEF New
<1>2. \A q \in Waiting : q \in Nat /\ 0 < q  BY WaitingIs DEF IInv
<1>3. \A x \in Pending' : /\ x \in Pending \/ x = 0
                          /\ x <= Len(made') /\ \A q \in Waiting' : x < q
  <2>1. \A x \in Pending : x <= Len(made) /\ \A q \in Waiting : x < q
    BY DEF IInv, InOrder, BeforeWaiting
  <2> QED  BY <1>1, <1>2, <2>1
<1>4. InOrder' /\ Settled' /\ NotSent
  <2>1. \A x \in Pending' : /\ x \in Waiting \/ x \in Pending \/ x = 0 \/ x \in New
                            /\ x <= Len(made') /\ \A q \in Waiting' : x < q
    BY <1>3
  <2>2. \A i \in Inputs : fate'[i] # fate[i] /\ fate'[i] # "withdrawn" =>
           /\ fate'[i] \in {"dropped", "no"} => i <= Len(made') /\ i \notin Waiting' /\ i \notin Pending'
           /\ fate'[i] = "no" => i \notin ItemsOf(written) /\ ~OnWire(i)'
           /\ fate'[i] = "yes" => i \in ItemsOf(written)
    OBVIOUS
  <2>3. \A q \in Waiting' : q \in Waiting \/ q \in New  OBVIOUS
  <2>4. link'.retained <= Len(made') /\ client'.resume.pending <= Len(made')  OBVIOUS
  <2>5. PICK F : F = {}  OBVIOUS
  <2>6. Wire(F) /\ \A f \in F : /\ f.item # 0
                                /\ (f.item \in Waiting \/ f.item \in Pending \/ f.item \in New)
                                /\ f.item <= Len(made') /\ \A q \in Waiting' : f.item < q
    BY <2>5
  <2> QED  BY <1>1, <2>1, <2>2, <2>3, <2>4, <2>6, OrderDesk DEF IInv
<1>5. Numbered' /\ Owned' \subseteq Owned  BY NumberedDesk DEF IInv
<1>6. Fits(client)' /\ (Recovering' => Fits(slot.lease)')
      /\ (client'.phase = "resuming" => Fits(client.resume)')
  <2>1. Fits(client)'
    <3>1. PICK u : u = client'  OBVIOUS
    <3>2. From(u)  BY <3>1
    <3>3. Fits(u)'  BY <1>5, <3>2, FromFits
    <3> QED  BY <3>1, <3>3 DEF Fits
  <2>2. ASSUME Recovering' PROVE Fits(slot.lease)'
    <3>1. PICK u : u = slot'.lease  OBVIOUS
    <3>2. From(u)  BY <2>2, <3>1
    <3>3. Fits(u)'  BY <1>5, <3>2, FromFits
    <3> QED  BY <3>1, <3>3 DEF Fits
  <2>3. ASSUME client'.phase = "resuming" PROVE Fits(client.resume)'
    <3>1. PICK u : u = client'.resume  OBVIOUS
    <3>2. From(u)  BY <2>3, <3>1
    <3>3. Fits(u)'  BY <1>5, <3>2, FromFits
    <3> QED  BY <3>1, <3>3 DEF Fits
  <2> QED  BY <2>1, <2>2, <2>3
<1>7. client'.epoch = 0 => \A k \in Told({"attached", "acquired"})' :
        toClient'[k].epoch # 0 /\ toClient'[k].epoch = lease'.epoch => Owned' = {} /\ Reached' = 0
  <2> SUFFICES ASSUME client.epoch = 0, NEW t \in {0, 1}, Heard(t),
                      NEW k \in Told({"attached", "acquired"})',
                      toClient'[k].epoch # 0, toClient'[k].epoch = lease'.epoch
               PROVE  Owned' = {} /\ Reached' = 0
    OBVIOUS
  <2>1. PICK K : K = {"attached", "acquired"}  OBVIOUS
  <2>2. k \in Told(K)'  BY <2>1
  <2>3. k + t \in Told(K) /\ toClient'[k] = toClient[k + t]  BY <2>2, ToldHeard DEF IInv
  <2>4. lease' = lease /\ Reached' = Reached  BY StillDone DEF HolderStill
  <2> QED  BY <1>5, <2>1, <2>3, <2>4 DEF IInv, Fitting
<1>8. Fitting'  BY <1>6, <1>7 DEF Fitting
<1>9. Remembers' /\ Telling'  BY RemembersStill, TellingNone DEF IInv
<1> QED  BY <1>4, <1>5, <1>8, <1>9 DEF IInv

-----------------------------------------------------------------------------
(* Losing the link. *)

LEMMA LostWire ==
  ASSUME Typed, NEW c \in Links, NEW k \in 0..Len(toHolder[c]),
         toHolder' = [toHolder EXCEPT ![c] = Append(SubSeq(@, 1, k), Eof)]
  PROVE  toHolder' \in [Links -> Seq(Frames)] /\ Fewer(c, 0)
<1> DEFINE q == toHolder[c]
           kept == SubSeq(q, 1, k)
           r == Append(kept, Eof)
<1>1. toHolder \in [Links -> Seq(Frames)] /\ q \in Seq(Frames)  BY DEF Typed
<1>2. Eof \in Frames /\ Eof.kind = "eof"
  <2>1. "eof" \in FrameKinds /\ 0 \in Nat /\ 0 \in Item  BY Kinds, Bounds
  <2> QED  BY <2>1, FrameIs DEF Eof
<1>3. toHolder' = [toHolder EXCEPT ![c] = r]  OBVIOUS
<1> HIDE DEF q
<1>4. /\ kept \in Seq(Frames) /\ Len(kept) = k /\ k \in Nat
      /\ \A j \in 1..k : j \in 1..Len(q) /\ kept[j] = q[j]
  BY <1>1 DEF q
<1> HIDE DEF kept
<1>5. /\ r \in Seq(Frames) /\ Len(r) = k + 1 /\ r[k + 1] = Eof
      /\ \A j \in 1..k : j \in 1..Len(q) /\ r[j] = q[j]
  BY <1>2, <1>4
<1> HIDE DEF r
<1>6. /\ toHolder' \in [Links -> Seq(Frames)] /\ toHolder'[c] = r
      /\ \A d \in Links \ {c} : toHolder'[d] = toHolder[d]
  BY <1>1, <1>3, <1>5
<1>7. \A j \in 1..Len(r) : \/ r[j].kind = "eof"
                           \/ j + 0 \in 1..Len(q) /\ r[j] = q[j + 0]
  <2> SUFFICES ASSUME NEW j \in 1..Len(r) PROVE \/ r[j].kind = "eof"
                                                \/ j + 0 \in 1..Len(q) /\ r[j] = q[j + 0]
    OBVIOUS
  <2>1. j = k + 1 \/ j \in 1..k  BY <1>4, <1>5
  <2>2. j + 0 = j  OBVIOUS
  <2> QED  BY <1>2, <1>5, <2>1, <2>2
<1> QED  BY <1>6, <1>7 DEF Fewer, q

(* What the client knew of its lease is what the slot keeps. *)
LEMMA SnapshotIs ==
  ASSUME Typed
  PROVE  /\ Snapshot \in Snapshots
         /\ \/ Snapshot.epoch = 0 /\ Snapshot.pending = 0
            \/ /\ Snapshot.epoch = client.epoch /\ Snapshot.next = client.next
               /\ Snapshot.pending = client.pending
<1>1. client \in Clients  BY DEF Typed
<1>2. /\ client.epoch \in Nat /\ client.token \in Nat /\ client.next \in Nat \ {0}
      /\ client.pending \in Item /\ client.conn \in Links
  BY <1>1 DEF Clients
<1>3. SnapshotHas(NoSnapshot, 0, 0, 1, 0)  BY <1>2, Blank
<1>4. CASE Snapshot = NoSnapshot  BY <1>3, <1>4 DEF SnapshotHas
<1>5. CASE Snapshot = [epoch |-> client.epoch, token |-> client.token, next |-> client.next,
                       pending |-> client.pending]
  BY <1>2, <1>5 DEF Snapshots
<1> QED  BY <1>4, <1>5 DEF Snapshot

LEMMA SlotOpens ==
  ASSUME IInv, OpenSlot
  PROVE  /\ slot' \in Slots /\ slot'.stage = "waiting" /\ slot'.lease = Snapshot /\ ~slot'.observer
         /\ slot'.queue \in {slot.queue, link.queue}
         /\ touched' \in BOOLEAN
<1>1. /\ slot.queue \in Seq(Item) /\ link.queue \in Seq(Item) /\ slot.timed \in BOOLEAN
      /\ touched \in BOOLEAN /\ Snapshot \in Snapshots
  BY SnapshotIs DEF IInv, Typed, Slots, LinkStates
<1>2. slot.queue = <<>> \/ link.queue = <<>>  BY DEF IInv, Staged
<1>3. slot.queue \o link.queue \in {slot.queue, link.queue}
  BY <1>1, <1>2, ConcatEmptySeq
<1> DEFINE q == slot.queue \o link.queue
           d == slot.timed \/ Snapshot.pending # 0
<1>4. slot' = [stage |-> "waiting", lease |-> Snapshot, queue |-> q, observer |-> FALSE, timed |-> d]
  BY DEF OpenSlot
<1>5. q \in Seq(Item) /\ d \in BOOLEAN /\ "waiting" \in Stages  BY <1>1, <1>3 DEF Stages
<1>6. touched' \in BOOLEAN  BY DEF OpenSlot
<1>7. q \in {slot.queue, link.queue}  BY <1>3
<1> HIDE DEF q, d
<1>8. slot' \in Slots /\ slot'.stage = "waiting" /\ slot'.lease = Snapshot /\ ~slot'.observer
      /\ slot'.queue = q
  BY <1>1, <1>4, <1>5 DEF Slots
<1> QED  BY <1>6, <1>7, <1>8

LEMMA LostKept ==
  ASSUME IInv, NEW k \in 0..Len(toHolder[client.conn]), LinkLost(k),
         UNCHANGED <<people, holder, fate>>, faults' \in Nat
  PROVE  IInv' /\ NotSent
<1>1. PICK c \in Links : c = client.conn  BY DEF IInv, Typed, Clients
<1>2. toHolder' \in [Links -> Seq(Frames)] /\ Fewer(c, 0)
  <2>1. k \in 0..Len(toHolder[c])  BY <1>1
  <2>2. toHolder' = [toHolder EXCEPT ![c] = Append(SubSeq(@, 1, k), Eof)]
    BY <1>1 DEF LinkLost
  <2> QED  BY <2>1, <2>2, LostWire DEF IInv
<1>3. /\ toClient' = <<>> /\ client' = Closed(c) /\ link' = NoLink /\ Open
      /\ HolderStill /\ made' = made /\ hidden' = hidden /\ ended' = ended /\ fate' = fate
  BY <1>1 DEF LinkLost, Open, HolderStill, holder, people
<1>4. /\ client' \in Clients /\ client'.conn = c /\ client'.phase = "closed"
      /\ client'.resume = NoSnapshot /\ client'.asked = 0 /\ client'.epoch = 0
      /\ client'.pending = 0 /\ NoSnapshot.epoch = 0 /\ NoSnapshot.pending = 0
      /\ link' \in LinkStates /\ link'.queue = <<>> /\ link'.retained = 0 /\ link'.reset = "no"
  BY <1>3, Blank DEF ClientHas, LinkHas, SnapshotHas
<1>5. /\ slot' \in Slots /\ touched' \in BOOLEAN /\ Recovering' /\ ~slot'.observer
      /\ slot'.stage \notin {"accepting", "leasing"}
      /\ slot'.queue \in {slot.queue, link.queue}
      /\ \/ slot'.lease.epoch = 0 /\ slot'.lease.pending = 0
         \/ /\ slot'.lease.epoch = client.epoch /\ slot'.lease.next = client.next
            /\ slot'.lease.pending = client.pending
         \/ Recovering /\ slot'.lease = slot.lease
  <2>1. CASE Attached
    <3>1. OpenSlot  BY <2>1 DEF LinkLost
    <3> QED  BY <3>1, SlotOpens, SnapshotIs DEF IInv, Recovering
  <2>2. CASE ~Attached
    <3>1. slot' = slot /\ touched' = touched  BY <2>2 DEF LinkLost
    <3>2. Recovering /\ ~slot.observer /\ slot.stage \notin {"accepting", "leasing"}
      BY <2>2 DEF IInv, Staged
    <3> QED  BY <3>1, <3>2 DEF IInv, Typed, Recovering
  <2> QED  BY <2>1, <2>2
<1>6. Typed'
  <2>1. toClient' \in Seq(Answers)
    <3>1. <<>> \in Seq(Answers)  OBVIOUS
    <3> QED  BY <1>3, <3>1
  <2> QED  BY <1>2, <1>3, <1>4, <1>5, <2>1 DEF IInv, Typed, HolderStill
<1>7. Staged'  BY <1>3, <1>4, <1>5 DEF Staged, Attached
<1>8. ~Open'  BY <1>4 DEF Open
<1>9. \A K : Told(K)' = {}
  <2>1. 1..Len(toClient') = {}  BY <1>3
  <2> QED  BY <2>1 DEF Told
<1>10. Questions'
  <2>1. \A d \in Links : \A j \in AtOf(d, Asks)', n \in InputsOf(d)' : n < j
    BY <1>2, OrderedFewer DEF IInv
  <2>2. PICK m : m = 0  OBVIOUS
  <2> QED  BY <1>8, <1>9, <2>1, QuestionsOut
<1>11. Epochs'
  <2>1. \A e \in {client'.epoch, client'.resume.epoch, slot'.lease.epoch} :
           \/ e = 0 \/ e \in {client.epoch, client.resume.epoch, slot.lease.epoch}
           \/ \E n \in 1..Len(toClient) : e = toClient[n].epoch
    BY <1>4, <1>5
  <2>2. 0 \in {0, 1}  OBVIOUS
  <2> QED  BY <1>1, <1>3, <1>4, <1>6, <2>1, <2>2, EpochsDesk DEF IInv
<1>12. Receipted'  BY <1>3, ReceiptedNone
<1>13. ItemsOf(link.queue)' = {} /\ Increasing(link.queue)'
  BY <1>4, EmptyQueue DEF ItemsOf, Increasing
<1>14. Waiting' \subseteq Waiting /\ Increasing(slot.queue)'
  <2>1. ItemsOf(slot.queue)' \in {ItemsOf(slot.queue), ItemsOf(link.queue)}
    BY <1>5 DEF ItemsOf
  <2>2. Increasing(slot.queue) /\ Increasing(link.queue)  BY DEF IInv, InOrder
  <2>3. Increasing(slot.queue)'  BY <1>5, <2>2 DEF Increasing
  <2> QED  BY <1>13, <2>1, <2>3 DEF Waiting
<1>15. Pending' \subseteq Pending \cup {0}
  BY <1>4, <1>5 DEF Pending
<1>16. From(slot'.lease)
  <2>1. Fits(client) /\ (Recovering => Fits(slot.lease))  BY DEF IInv, Fitting
  <2> QED  BY <1>5, <2>1 DEF From
<1>17. From(client')  BY <1>4 DEF From
<1>18. Wire({})  BY <1>1, <1>2 DEF Wire
<1>19. /\ link'.retained <= Len(made) /\ client'.resume.pending <= Len(made)
  BY <1>4, Elements DEF IInv
<1> QED  BY <1>3, <1>4, <1>6, <1>7, <1>8, <1>9, <1>10, <1>11, <1>12, <1>13, <1>14, <1>15, <1>16,
            <1>17, <1>18, <1>19, DeskKept

LEMMA LosesKept ==
  ASSUME IInv, TransportDrops \/ KeepaliveRefused \/ ProtocolError
  PROVE  IInv' /\ NotSent
<1>1. Len(toHolder[client.conn]) \in 0..Len(toHolder[client.conn])
  <2>1. client.conn \in Links  BY DEF IInv, Typed, Clients
  <2> QED  BY <2>1, Elements DEF IInv
<1>2. faults' \in Nat
  BY DEF IInv, Typed, TransportDrops, KeepaliveRefused, ProtocolError, Fault
<1>3. CASE TransportDrops  BY <1>2, <1>3, LostKept DEF TransportDrops
<1>4. CASE KeepaliveRefused \/ ProtocolError
  BY <1>1, <1>2, <1>4, LostKept DEF KeepaliveRefused, ProtocolError, Lose
<1> QED  BY <1>3, <1>4

-----------------------------------------------------------------------------
(* Asking the holder, and its answers. *)

LEMMA AskOut ==
  ASSUME Typed, Questions, NEW c \in Links, client'.conn = c,
         NEW f \in Frames, More(c, f), f.kind \in Asks,
         AtOf(c, Asks) = {}, AtOf(c, {"release"}) = {},
         Told(Grants)' = {}, Told({"released"})' = {}, ~AtRest', Question(f)'
  PROVE  Questions'
<1>1. f.kind # "input" /\ f.kind # "release"  BY DEF Asks
<1>2. \A d \in Links : \A j \in AtOf(d, Asks)', k \in InputsOf(d)' : k < j
  BY <1>1, OrderedMore
<1>3. PICK m : m = Len(toHolder[c]) + 1  OBVIOUS
<1>4. ASSUME NEW k \in AtOf(c, Asks)' PROVE k = m /\ toHolder'[c][m] = f
  BY <1>3, NewOnly
<1>5. AtOf(c, {"release"})' = {}
  <2>0. PICK K : K = {"release"}  OBVIOUS
  <2>1. AtOf(c, K)' = {}  BY <1>1, <2>0, NewOnly
  <2> QED  BY <2>0, <2>1
<1>6. \A k \in Asking' : k = m /\ toHolder'[client'.conn][m] = f
  BY <1>4 DEF Asking, AtOf
<1>7. Giving' = {}  BY <1>5 DEF Giving, AtOf
<1>8. \A k \in Asking' : Question(toHolder[client.conn][m])'
  BY <1>6 DEF Question, Attached
<1> QED  BY <1>2, <1>6, <1>7, <1>8, QuestionsOut

(* No question is left open where the client rests or a grant has come. *)
LEMMA NothingAsked ==
  ASSUME Questions, Open, AtRest \/ Told(Grants) # {}
  PROVE  Asking = {}
BY DEF Questions

LEMMA NothingGiven ==
  ASSUME Questions, Open, link.reset # "releasing"
  PROVE  Giving = {} /\ Told({"released"}) = {}
BY DEF Questions

LEMMA ToldNone ==
  ASSUME Typed, NEW t \in {0, 1}, Heard(t), NEW K, Told(K) = {}
  PROVE  Told(K)' = {}
BY ToldHeard

LEMMA NoInputs ==
  ASSUME Typed, NEW c \in Links, NEW f, More(c, f), f.kind # "input", NEW d \in Links,
         InputsOf(d) = {}
  PROVE  InputsOf(d)' = {}
<1>0. PICK K : K = {"input"}  OBVIOUS
<1> SUFFICES ASSUME NEW k \in AtOf(d, K)' PROVE FALSE
  BY <1>0 DEF InputsOf
<1>1. AtOf(d, K) = {} /\ f.kind \notin K  BY <1>0 DEF InputsOf
<1> QED  BY <1>1, MoreAt

(* The answer that is read. *)
LEMMA AnswerIs ==
  ASSUME Typed, Questions, NEW kind, Incoming(kind), toClient' = Tail(toClient)
  PROVE  /\ toClient' \in Seq(Answers) /\ Heard(1) /\ Head(toClient) = toClient[1]
         /\ toClient[1] \in Answers /\ 1 \in 1..Len(toClient) /\ toClient[1].kind = kind
         /\ \A K : kind \in K => 1 \in Told(K)
         /\ kind \in Grants => Told(Grants)' = {} /\ ~AtRest /\ Reaction(toClient[1])
<1>1. toClient # <<>>  BY DEF Incoming
<1>2. /\ toClient' \in Seq(Answers) /\ Heard(1) /\ Head(toClient) = toClient[1]
      /\ toClient[1] \in Answers /\ 1 \in 1..Len(toClient)
  BY <1>1, HeardIs
<1>3. toClient[1].kind = kind  BY <1>2 DEF Incoming
<1>4. \A K : kind \in K => 1 \in Told(K)  BY <1>2, <1>3 DEF Told
<1>5. ASSUME kind \in Grants PROVE Told(Grants)' = {} /\ ~AtRest /\ Reaction(toClient[1])
  <2>1. 1 \in Told(Grants) /\ Single(Told(Grants))  BY <1>4, <1>5 DEF Questions
  <2> QED  BY <1>2, <2>1, HeardOnly DEF Questions
<1> QED  BY <1>2, <1>3, <1>4, <1>5

(* A client that got a lease starts at its first number. *)
LEMMA AcquiredFits ==
  ASSUME Fitting, client.epoch = 0, NEW k \in Told({"attached", "acquired"})
  PROVE  Fits([epoch |-> toClient[k].epoch, next |-> 1, pending |-> 0])
<1> DEFINE v == [epoch |-> toClient[k].epoch, next |-> 1, pending |-> 0]
<1>1. v.epoch = toClient[k].epoch /\ v.next = 1 /\ v.pending = 0  OBVIOUS
<1> HIDE DEF v
<1>2. v.epoch # 0 /\ v.epoch = lease.epoch => Owned = {} /\ Reached = 0  BY <1>1 DEF Fitting
<1>3. Fits(v)  BY <1>1, <1>2 DEF Fits
<1> QED  BY <1>3 DEF v

(* What a recovery says about the client and the queues. *)
LEMMA NotAttachedIs ==
  ASSUME Staged, ~Attached
  PROVE  /\ Recovering /\ ~slot.observer
         /\ slot.stage \notin {"accepting", "leasing"} /\ link.queue = <<>> /\ link.reset = "no"
         /\ client.asked = 0
BY DEF Staged

(* What the desk keeps where queues, counts and snapshots stay as they are. *)
LEMMA KeptQueues ==
  ASSUME IInv, made' = made, slot'.queue = slot.queue, link'.queue = link.queue
  PROVE  /\ Waiting' = Waiting /\ Increasing(slot.queue)' /\ Increasing(link.queue)'
         /\ link.retained <= Len(made) /\ client.resume.pending <= Len(made)
         /\ slot.lease.pending <= Len(made)
         /\ Len(made) \in Nat /\ 0 <= Len(made)
<1>1. Waiting' = Waiting  BY DEF Waiting, ItemsOf
<1>2. Increasing(slot.queue)' /\ Increasing(link.queue)'
  BY DEF Increasing, IInv, InOrder
<1>3. slot.lease.pending <= Len(made)
  BY DEF IInv, InOrder, Pending, BeforeWaiting
<1>4. Len(made) \in Nat  BY Elements DEF IInv
<1> QED  BY <1>1, <1>2, <1>3, <1>4 DEF IInv, InOrder

(* The new link is adopted without the lease. *)
LEMMA ObserverKept ==
  ASSUME IInv, Accept, client.epoch = 0
  PROVE  IInv' /\ NotSent
<1>1. /\ slot.stage = "accepting" /\ Attached
      /\ slot' = [slot EXCEPT !.stage = "waiting", !.observer = TRUE]
      /\ UNCHANGED <<client, link, toHolder, touched, people, holder, toClient, fate, faults>>
  BY DEF Accept
<1>2. /\ slot' \in Slots /\ slot'.stage = "waiting" /\ slot'.observer /\ slot'.queue = slot.queue
      /\ slot'.lease = slot.lease
  BY <1>1 DEF IInv, Typed, Slots, Stages
<1>3. Typed'  BY <1>1, <1>2 DEF IInv, Typed, people, holder
<1>4. /\ HolderStill /\ made' = made /\ ended' = ended /\ client' = client /\ link' = link
      /\ toHolder' = toHolder /\ toClient' = toClient /\ fate' = fate
  BY <1>1 DEF HolderStill, holder, people
<1>5. Recovering /\ Recovering' /\ (Attached' <=> Attached) /\ \A d : InputsOf(d)' = InputsOf(d)
  BY <1>1, <1>2, <1>4 DEF Recovering, Attached, InputsOf, AtOf
<1>6. Staged'  BY <1>1, <1>2, <1>4, <1>5 DEF IInv, Staged
<1>7. AtRest' <=> AtRest  BY <1>1, <1>2, <1>4, <1>5 DEF AtRest
<1>8. Questions'  BY <1>4, <1>7, QuestionsStill DEF IInv
<1>9. Heard(0) /\ 0 \in {0, 1}  BY <1>4, HeardNone DEF IInv
<1>10. Epochs'
  <2>1. lease.owner = client'.conn /\ client'.epoch # 0 => client'.epoch = lease.epoch
    BY <1>4 DEF IInv, Epochs
  <2>2. \A e \in {client'.epoch, client'.resume.epoch, slot'.lease.epoch} :
          e \in {client.epoch, client.resume.epoch, slot.lease.epoch}
    BY <1>2, <1>4
  <2> QED  BY <1>3, <1>4, <1>9, <2>1, <2>2, EpochsDesk DEF IInv
<1>11. client.next \in Nat /\ client.next <= client.next /\ client'.asked = 0
  BY <1>4, <1>5 DEF IInv, Typed, Clients, Staged
<1>12. Receipted'  BY <1>4, <1>9, <1>11, ReceiptedDesk DEF IInv
<1>13. /\ Waiting' = Waiting /\ Increasing(slot.queue)' /\ Increasing(link.queue)'
       /\ link.retained <= Len(made) /\ client.resume.pending <= Len(made)
  BY <1>2, <1>4, KeptQueues
<1>14. Pending' = Pending  BY <1>2, <1>4 DEF Pending
<1>15. From(client) /\ From(slot.lease) /\ (client.phase = "resuming" => From(client.resume))
  BY <1>5 DEF IInv, Fitting, From
<1>16. Wire({})  BY <1>4 DEF Wire
<1>17. Open' => client'.conn = client.conn /\ Open  BY <1>4 DEF Open
<1> QED  BY <1>1, <1>2, <1>3, <1>4, <1>6, <1>8, <1>9, <1>10, <1>11, <1>12, <1>13, <1>14, <1>15,
            <1>16, <1>17, DeskKept

LEMMA AcquireKept ==
  ASSUME IInv, AcquireLease
  PROVE  IInv' /\ NotSent
<1>1. /\ slot.stage = "waiting" /\ slot.observer /\ Attached
      /\ slot' = [slot EXCEPT !.stage = "leasing"]
      /\ Send(Frame("acquire", 0, 0, 0))
      /\ UNCHANGED <<client, link, touched, people, holder, toClient, fate, faults>>
  BY DEF AcquireLease
<1>2. /\ slot' \in Slots /\ slot'.stage = "leasing" /\ slot'.observer /\ slot'.queue = slot.queue
      /\ slot'.lease = slot.lease
  BY <1>1 DEF IInv, Typed, Slots, Stages
<1>3. PICK f \in Frames : /\ f = Frame("acquire", 0, 0, 0) /\ f.kind = "acquire"
  <2>1. "acquire" \in FrameKinds /\ 0 \in Nat /\ 0 \in Item  BY Kinds, Bounds
  <2> QED  BY <2>1, FrameIs
<1>4. PICK c \in Links : c = client.conn  BY DEF IInv, Typed, Clients
<1>5. toHolder' \in [Links -> Seq(Frames)] /\ More(c, f)
  BY <1>1, <1>3, <1>4, SendIs DEF IInv
<1>6. Typed'  BY <1>1, <1>2, <1>5 DEF IInv, Typed, people, holder
<1>7. /\ HolderStill /\ made' = made /\ ended' = ended /\ client' = client /\ link' = link
      /\ toClient' = toClient /\ fate' = fate
  BY <1>1 DEF HolderStill, holder, people
<1>8. /\ Recovering /\ Recovering' /\ Attached' /\ Open /\ link.reset = "no" /\ client.epoch = 0
      /\ client.asked = 0 /\ client.phase = "attached"
  BY <1>1, <1>2, <1>7 DEF Recovering, Attached, Open, IInv, Staged
<1>9. Staged'  BY <1>1, <1>2, <1>7, <1>8 DEF IInv, Staged
<1>10. AtRest /\ ~AtRest'  BY <1>1, <1>2, <1>8 DEF AtRest
<1>11. Heard(0) /\ 0 \in {0, 1}  BY <1>7, HeardNone DEF IInv
<1>12. Told(Grants) = {} /\ Told(Grants)' = {}
  <2>1. Told(Grants) = {}  BY <1>10 DEF IInv, Questions
  <2> QED  BY <1>7, <2>1 DEF Told
<1>13. Told({"released"})' = {} /\ Giving = {}
  <2>1. Giving = {} /\ Told({"released"}) = {}  BY <1>8, NothingGiven DEF IInv
  <2> QED  BY <1>7, <2>1 DEF Told
<1>14. Questions'
  <2>1. Question(f)'  BY <1>3, <1>7, <1>8 DEF Question
  <2>2. AtOf(c, Asks) = {} /\ AtOf(c, {"release"}) = {}
    BY <1>4, <1>8, <1>10, <1>13, NothingAsked DEF IInv, Asking, Giving
  <2>3. f.kind \in Asks /\ client'.conn = c  BY <1>3, <1>4, <1>7 DEF Asks
  <2> QED  BY <1>5, <1>10, <1>12, <1>13, <2>1, <2>2, <2>3, AskOut DEF IInv
<1>15. Epochs'
  <2>1. lease.owner = client'.conn /\ client'.epoch # 0 => client'.epoch = lease.epoch
    BY <1>7 DEF IInv, Epochs
  <2>2. \A e \in {client'.epoch, client'.resume.epoch, slot'.lease.epoch} :
          e \in {client.epoch, client.resume.epoch, slot.lease.epoch}
    BY <1>2, <1>7
  <2> QED  BY <1>6, <1>7, <1>11, <2>1, <2>2, EpochsDesk DEF IInv
<1>16. client.next \in Nat /\ client.next <= client.next
  BY DEF IInv, Typed, Clients
<1>17. Receipted'  BY <1>7, <1>11, <1>16, ReceiptedDesk DEF IInv
<1>18. /\ Waiting' = Waiting /\ Increasing(slot.queue)' /\ Increasing(link.queue)'
       /\ link.retained <= Len(made) /\ client.resume.pending <= Len(made)
  BY <1>2, <1>7, KeptQueues
<1>19. Pending' = Pending  BY <1>2, <1>7 DEF Pending
<1>20. From(client) /\ From(slot.lease) /\ (client.phase = "resuming" => From(client.resume))
  BY <1>8 DEF IInv, Fitting, From
<1>21. Wire({})
  <2>1. f.kind # "input"  BY <1>3
  <2> QED  BY <1>5, <2>1 DEF Wire
<1>22. Open' => client'.conn = client.conn /\ Open  BY <1>7 DEF Open
<1>23. client'.epoch = 0 => client.epoch = 0 /\ \E t \in {0, 1} : Heard(t)  BY <1>7, <1>11
<1> QED  BY <1>2, <1>6, <1>7, <1>8, <1>9, <1>14, <1>15, <1>16, <1>17, <1>18, <1>19, <1>20, <1>21,
            <1>22, <1>23, DeskKept

(* The holder continues the lease; the client asks to attach. *)
LEMMA ResumedKept ==
  ASSUME IInv, Resumed
  PROVE  IInv' /\ NotSent
<1>1. /\ Incoming("resumed") /\ toClient' = Tail(toClient)
      /\ Send(Frame("attach", 0, 0, 0))
      /\ UNCHANGED <<people, link, slot, holder, fate, touched, faults>>
  BY DEF Resumed
<1>2. /\ toClient' \in Seq(Answers) /\ Heard(1) /\ Head(toClient) = toClient[1]
      /\ toClient[1] \in Answers /\ 1 \in 1..Len(toClient) /\ toClient[1].kind = "resumed"
      /\ 1 \in Told(Grants) /\ Told(Grants)' = {} /\ Reaction(toClient[1])
  <2>1. "resumed" \in Grants  BY DEF Grants
  <2> QED  BY <1>1, <2>1, AnswerIs DEF IInv
<1>3. /\ client.phase = "resuming" /\ client.epoch = 0
      /\ toClient[1].epoch = client.resume.epoch /\ toClient[1].epoch # 0
  BY <1>2 DEF Reaction
<1>4. PICK e \in Nat : e = toClient[1].epoch  BY <1>2 DEF Answers
<1>5. PICK n \in Nat : n = toClient[1].n  BY <1>2 DEF Answers
<1>6. client' = [client EXCEPT !.phase = "attaching", !.epoch = e, !.token = n,
                               !.next = client.resume.next, !.pending = client.resume.pending]
  BY <1>2, <1>4, <1>5 DEF Resumed
<1>7. /\ client' \in Clients /\ client'.conn = client.conn /\ client'.phase = "attaching"
      /\ client'.resume = client.resume /\ client'.asked = client.asked
      /\ client'.epoch = client.resume.epoch /\ client'.epoch # 0
      /\ client'.next = client.resume.next /\ client'.pending = client.resume.pending
  <2>1. client \in Clients /\ client.resume \in Snapshots  BY DEF IInv, Typed, Clients
  <2> QED  BY <1>3, <1>4, <1>6, <2>1 DEF Clients, Snapshots, Phases
<1>8. PICK f \in Frames : f = Frame("attach", 0, 0, 0) /\ f.kind = "attach" /\ f.n = 0
  <2>1. "attach" \in FrameKinds /\ 0 \in Nat /\ 0 \in Item  BY Kinds, Bounds
  <2> QED  BY <2>1, FrameIs
<1>9. PICK c \in Links : c = client.conn  BY DEF IInv, Typed, Clients
<1>10. toHolder' \in [Links -> Seq(Frames)] /\ More(c, f)
  BY <1>1, <1>8, <1>9, SendIs DEF IInv
<1>11. Typed'  BY <1>1, <1>2, <1>7, <1>10 DEF IInv, Typed, people, holder
<1>12. /\ HolderStill /\ made' = made /\ ended' = ended /\ link' = link /\ slot' = slot
       /\ fate' = fate
  BY <1>1 DEF HolderStill, holder, people
<1>13. /\ Recovering /\ ~slot.observer /\ slot.stage \notin {"accepting", "leasing"}
       /\ link.queue = <<>> /\ link.reset = "no" /\ client.asked = 0 /\ ~Attached' /\ Recovering'
       /\ Open
  BY <1>3, <1>7, <1>12, NotAttachedIs DEF IInv, Attached, Recovering, Open
<1>14. InputsOf(client.conn)' = {}
  <2>1. InputsOf(c) = {}  BY <1>3, <1>9 DEF IInv, Staged
  <2>2. InputsOf(c)' = {}  BY <1>8, <1>10, <2>1, NoInputs DEF IInv
  <2> QED  BY <1>7, <1>9, <2>2 DEF InputsOf, AtOf
<1>15. Staged'  BY <1>7, <1>12, <1>13, <1>14 DEF Staged
<1>16. Questions'
  <2>1. Question(f)'  BY <1>7, <1>8 DEF Question
  <2>2. Asking = {} /\ Giving = {} /\ Told({"released"}) = {}
    BY <1>2, <1>13, NothingAsked, NothingGiven DEF IInv
  <2>3. AtOf(c, Asks) = {} /\ AtOf(c, {"release"}) = {}  BY <1>9, <2>2 DEF Asking, Giving
  <2>4. f.kind \in Asks /\ client'.conn = c  BY <1>7, <1>8, <1>9 DEF Asks
  <2>5. Told({"released"})' = {}
    <3>1. PICK R : R = {"released"}  OBVIOUS
    <3>2. 1 \in {0, 1} /\ Told(R) = {}  BY <2>2, <3>1
    <3>3. Told(R)' = {}  BY <1>2, <3>2, ToldNone DEF IInv
    <3> QED  BY <3>1, <3>3
  <2>6. ~AtRest'  BY <1>13 DEF AtRest
  <2> QED  BY <1>2, <1>10, <2>1, <2>3, <2>4, <2>5, <2>6, AskOut DEF IInv
<1>17. Epochs'
  <2>1. lease.owner = client'.conn /\ client'.epoch # 0 => client'.epoch = lease.epoch
    BY <1>2, <1>3, <1>7 DEF IInv, Epochs
  <2>2. \A x \in {client'.epoch, client'.resume.epoch, slot'.lease.epoch} :
          x \in {client.epoch, client.resume.epoch, slot.lease.epoch}
    BY <1>7, <1>12
  <2> QED  BY <1>2, <1>7, <1>11, <1>12, <2>1, <2>2, EpochsDesk DEF IInv
<1>18. Receipted'
  <2>1. PICK K : K = {"receipt"}  OBVIOUS
  <2>2. \A k \in Told(K)' : k + 1 \in Told(K) /\ toClient'[k] = toClient[k + 1]
    BY <1>2, ToldHeard DEF IInv
  <2>3. \A k \in Told(K)' : toClient'[k].epoch = client'.epoch => toClient'[k].n < client'.next
    BY <1>3, <1>7, <2>1, <2>2 DEF IInv, Receipted
  <2> QED  BY <1>7, <2>1, <2>3 DEF Receipted
<1>19. /\ Waiting' = Waiting /\ Increasing(slot.queue)' /\ Increasing(link.queue)'
       /\ link.retained <= Len(made) /\ client.resume.pending <= Len(made)
  BY <1>12, KeptQueues
<1>20. Pending' \subseteq Pending \cup {0}  BY <1>3, <1>7, <1>12 DEF Pending
<1>21. From(client') /\ From(slot'.lease)
  <2>1. Fits(client.resume) /\ Fits(slot.lease)  BY <1>3, <1>13 DEF IInv, Fitting
  <2> QED  BY <1>7, <1>12, <2>1 DEF From
<1>22. Wire({})
  <2>1. f.kind # "input"  BY <1>8
  <2> QED  BY <1>10, <2>1 DEF Wire
<1> QED  BY <1>7, <1>11, <1>12, <1>13, <1>14, <1>15, <1>16, <1>17, <1>18, <1>19, <1>20, <1>21,
            <1>22, DeskKept

(* The holder has not seen the old connection end: the client asks again. *)
LEMMA BusyKept ==
  ASSUME IInv, ResumeBusy
  PROVE  IInv' /\ NotSent
<1>1. /\ Incoming("refused") /\ toClient' = Tail(toClient)
      /\ Send(Frame("resume", client.resume.epoch, client.resume.token, 0))
      /\ UNCHANGED <<people, client, link, slot, holder, fate, touched, faults>>
  BY DEF ResumeBusy, desk
<1>2. /\ toClient' \in Seq(Answers) /\ Heard(1) /\ 1 \in Told(Grants) /\ Told(Grants)' = {}
      /\ Reaction(toClient[1]) /\ toClient[1].kind = "refused"
  <2>1. "refused" \in Grants  BY DEF Grants
  <2> QED  BY <1>1, <2>1, AnswerIs DEF IInv
<1>3. client.phase = "resuming" /\ client.epoch = 0  BY <1>2 DEF Reaction
<1>4. PICK f \in Frames : /\ f = Frame("resume", client.resume.epoch, client.resume.token, 0)
                          /\ f.kind = "resume" /\ f.epoch = client.resume.epoch
  <2>1. "resume" \in FrameKinds /\ 0 \in Nat /\ 0 \in Item  BY Kinds, Bounds
  <2>2. client.resume.epoch \in Nat /\ client.resume.token \in Nat
    BY DEF IInv, Typed, Clients, Snapshots
  <2> QED  BY <2>1, <2>2, FrameIs
<1>5. PICK c \in Links : c = client.conn  BY DEF IInv, Typed, Clients
<1>6. toHolder' \in [Links -> Seq(Frames)] /\ More(c, f)
  BY <1>1, <1>4, <1>5, SendIs DEF IInv
<1>7. Typed'  BY <1>1, <1>2, <1>6 DEF IInv, Typed, people, holder
<1>8. /\ HolderStill /\ made' = made /\ ended' = ended /\ client' = client /\ link' = link
      /\ slot' = slot /\ fate' = fate
  BY <1>1 DEF HolderStill, holder, people
<1>9. /\ Recovering /\ ~slot.observer /\ slot.stage \notin {"accepting", "leasing"}
      /\ link.queue = <<>> /\ link.reset = "no" /\ client.asked = 0 /\ ~Attached' /\ Recovering'
      /\ Open
  BY <1>3, <1>8, NotAttachedIs DEF IInv, Attached, Recovering, Open
<1>10. InputsOf(client.conn)' = {}
  <2>1. InputsOf(c) = {}  BY <1>3, <1>5 DEF IInv, Staged
  <2>2. f.kind # "input"  BY <1>4
  <2>3. InputsOf(c)' = {}  BY <1>6, <2>1, <2>2, NoInputs DEF IInv
  <2> QED  BY <1>5, <1>8, <2>3 DEF InputsOf, AtOf
<1>11. Staged'  BY <1>3, <1>8, <1>9, <1>10 DEF IInv, Staged
<1>12. Questions'
  <2>1. Question(f)'  BY <1>3, <1>4, <1>8 DEF Question
  <2>2. Asking = {} /\ Giving = {} /\ Told({"released"}) = {}
    BY <1>2, <1>9, NothingAsked, NothingGiven DEF IInv
  <2>3. AtOf(c, Asks) = {} /\ AtOf(c, {"release"}) = {}  BY <1>5, <2>2 DEF Asking, Giving
  <2>4. f.kind \in Asks /\ client'.conn = c  BY <1>4, <1>5, <1>8 DEF Asks
  <2>5. Told({"released"})' = {}
    <3>1. PICK R : R = {"released"}  OBVIOUS
    <3>2. 1 \in {0, 1} /\ Told(R) = {}  BY <2>2, <3>1
    <3>3. Told(R)' = {}  BY <1>2, <3>2, ToldNone DEF IInv
    <3> QED  BY <3>1, <3>3
  <2>6. ~AtRest'  BY <1>9 DEF AtRest
  <2> QED  BY <1>2, <1>6, <2>1, <2>3, <2>4, <2>5, <2>6, AskOut DEF IInv
<1>13. Epochs'
  <2>1. lease.owner = client'.conn /\ client'.epoch # 0 => client'.epoch = lease.epoch
    BY <1>3, <1>8
  <2>2. \A x \in {client'.epoch, client'.resume.epoch, slot'.lease.epoch} :
          x \in {client.epoch, client.resume.epoch, slot.lease.epoch}
    BY <1>8
  <2> QED  BY <1>2, <1>7, <1>8, <2>1, <2>2, EpochsDesk DEF IInv
<1>14. Receipted'
  <2>1. client.next \in Nat /\ client.next <= client.next  BY DEF IInv, Typed, Clients
  <2> QED  BY <1>2, <1>8, <2>1, ReceiptedDesk DEF IInv
<1>15. /\ Waiting' = Waiting /\ Increasing(slot.queue)' /\ Increasing(link.queue)'
       /\ link.retained <= Len(made) /\ client.resume.pending <= Len(made)
  BY <1>8, KeptQueues
<1>16. Pending' = Pending  BY <1>8 DEF Pending
<1>17. From(client') /\ From(slot'.lease) /\ From(client'.resume)
  <2>1. Fits(client.resume) /\ Fits(slot.lease)  BY <1>3, <1>9 DEF IInv, Fitting
  <2> QED  BY <1>3, <1>8, <2>1 DEF From
<1>18. Wire({})
  <2>1. f.kind # "input"  BY <1>4
  <2> QED  BY <1>6, <2>1 DEF Wire
<1>19. client.epoch = 0 /\ \E t \in {0, 1} : Heard(t)  BY <1>2, <1>3
<1> QED  BY <1>7, <1>8, <1>9, <1>10, <1>11, <1>12, <1>13, <1>14, <1>15, <1>16, <1>17, <1>18,
            <1>19, DeskKept

(* The lease is gone: the client attaches afresh. *)
LEMMA RefusedKept ==
  ASSUME IInv, ResumeRefused
  PROVE  IInv' /\ NotSent
<1>1. /\ Incoming("refused") /\ toClient' = Tail(toClient)
      /\ client' = [client EXCEPT !.phase = "attaching"] /\ Send(FreshAttach)
      /\ UNCHANGED <<people, link, holder, touched, faults>>
  BY DEF ResumeRefused
<1>2. /\ toClient' \in Seq(Answers) /\ Heard(1) /\ 1 \in Told(Grants) /\ Told(Grants)' = {}
      /\ Reaction(toClient[1]) /\ toClient[1].kind = "refused"
  <2>1. "refused" \in Grants  BY DEF Grants
  <2> QED  BY <1>1, <2>1, AnswerIs DEF IInv
<1>3. /\ client.phase = "resuming" /\ client.epoch = 0 /\ client.pending = 0 /\ client.next = 1
  BY <1>2 DEF Reaction, IInv, Staged
<1>4. PICK f \in Frames : f = FreshAttach /\ f.kind = "attach" /\ f.n = 1
  <2>1. "attach" \in FrameKinds /\ 0 \in Nat /\ 1 \in Nat /\ 0 \in Item  BY Kinds, Bounds
  <2> QED  BY <2>1, FrameIs DEF FreshAttach
<1>5. PICK c \in Links : c = client.conn  BY DEF IInv, Typed, Clients
<1>6. toHolder' \in [Links -> Seq(Frames)] /\ More(c, f)
  BY <1>1, <1>4, <1>5, SendIs DEF IInv
<1>7. /\ client' \in Clients /\ client'.conn = client.conn /\ client'.phase = "attaching"
      /\ client'.resume = client.resume /\ client'.asked = client.asked
      /\ client'.epoch = 0 /\ client'.pending = 0 /\ client'.next = 1
  BY <1>1, <1>3 DEF IInv, Typed, Clients, Phases
<1>8. /\ slot' \in Slots /\ slot'.stage = slot.stage /\ slot'.queue = slot.queue
      /\ slot'.observer = slot.observer
      /\ slot'.lease.epoch = slot.lease.epoch /\ slot'.lease.next = slot.lease.next
      /\ slot'.lease.pending \in {0, slot.lease.pending}
      /\ fate' \in [Inputs -> Fates]
      /\ \A i \in Inputs : fate'[i] # fate[i] => fate'[i] = "withdrawn"
  <2>1. CASE slot' = slot /\ fate' = fate  BY <2>1 DEF IInv, Typed
  <2>2. CASE /\ slot' = [slot EXCEPT !.lease.pending = IF @ = client.resume.pending THEN 0 ELSE @]
             /\ fate' = Decide({client.resume.pending}, "withdrawn")
    <3> DEFINE p == IF slot.lease.pending = client.resume.pending THEN 0 ELSE slot.lease.pending
    <3>1. p \in Item /\ p \in {0, slot.lease.pending} /\ slot \in Slots /\ slot.lease \in Snapshots
      BY Bounds DEF IInv, Typed, Slots, Snapshots
    <3>2. slot' = [slot EXCEPT !.lease.pending = p]  BY <2>2
    <3> HIDE DEF p
    <3>3. /\ slot' \in Slots /\ slot'.stage = slot.stage /\ slot'.queue = slot.queue
          /\ slot'.observer = slot.observer
          /\ slot'.lease.epoch = slot.lease.epoch /\ slot'.lease.next = slot.lease.next
          /\ slot'.lease.pending = p
      BY <3>1, <3>2 DEF Slots, Snapshots
    <3>4. fate \in [Inputs -> Fates]  BY DEF IInv, Typed
    <3>5. fate' \in [Inputs -> Fates] /\ \A i \in Inputs : fate'[i] # fate[i] => fate'[i] = "withdrawn"
      BY <2>2, <3>4 DEF Decide, Fates
    <3> QED  BY <3>1, <3>3, <3>5
  <2> QED  BY <2>1, <2>2 DEF ResumeRefused
<1>9. Typed'  BY <1>1, <1>2, <1>6, <1>7, <1>8 DEF IInv, Typed, people, holder
<1>10. /\ HolderStill /\ made' = made /\ ended' = ended /\ link' = link
  BY <1>1 DEF HolderStill, holder, people
<1>11. /\ Recovering /\ ~slot.observer /\ slot.stage \notin {"accepting", "leasing"}
       /\ link.queue = <<>> /\ link.reset = "no" /\ client.asked = 0 /\ ~Attached' /\ Recovering'
       /\ Open
  BY <1>3, <1>7, <1>8, NotAttachedIs DEF IInv, Attached, Recovering, Open
<1>12. InputsOf(client.conn)' = {}
  <2>1. InputsOf(c) = {}  BY <1>3, <1>5 DEF IInv, Staged
  <2>2. f.kind # "input"  BY <1>4
  <2>3. InputsOf(c)' = {}  BY <1>6, <2>1, <2>2, NoInputs DEF IInv
  <2> QED  BY <1>5, <1>7, <2>3 DEF InputsOf, AtOf
<1>13. Staged'  BY <1>7, <1>8, <1>10, <1>11, <1>12 DEF Staged
<1>14. Questions'
  <2>1. Question(f)'  BY <1>4, <1>7 DEF Question
  <2>2. Asking = {} /\ Giving = {} /\ Told({"released"}) = {}
    BY <1>2, <1>11, NothingAsked, NothingGiven DEF IInv
  <2>3. AtOf(c, Asks) = {} /\ AtOf(c, {"release"}) = {}  BY <1>5, <2>2 DEF Asking, Giving
  <2>4. f.kind \in Asks /\ client'.conn = c  BY <1>4, <1>5, <1>7 DEF Asks
  <2>5. Told({"released"})' = {}
    <3>1. PICK R : R = {"released"}  OBVIOUS
    <3>2. 1 \in {0, 1} /\ Told(R) = {}  BY <2>2, <3>1
    <3>3. Told(R)' = {}  BY <1>2, <3>2, ToldNone DEF IInv
    <3> QED  BY <3>1, <3>3
  <2>6. ~AtRest'  BY <1>11 DEF AtRest
  <2> QED  BY <1>2, <1>6, <2>1, <2>3, <2>4, <2>5, <2>6, AskOut DEF IInv
<1>15. Epochs'
  <2>1. \A x \in {client'.epoch, client'.resume.epoch, slot'.lease.epoch} :
          x \in {client.epoch, client.resume.epoch, slot.lease.epoch}
    BY <1>3, <1>7, <1>8
  <2> QED  BY <1>2, <1>7, <1>9, <1>10, <2>1, EpochsDesk DEF IInv
<1>16. Receipted'
  <2>1. /\ client.next <= client'.next /\ client'.next \in Nat /\ client'.phase # "resuming"
        /\ client'.epoch = client.epoch
    BY <1>3, <1>7
  <2> QED  BY <1>2, <2>1, ReceiptedDesk DEF IInv
<1>17. /\ Waiting' = Waiting /\ Increasing(slot.queue)' /\ Increasing(link.queue)'
       /\ link.retained <= Len(made) /\ client.resume.pending <= Len(made)
  BY <1>8, <1>10, KeptQueues
<1>18. Pending' \subseteq Pending \cup {0}  BY <1>7, <1>8 DEF Pending
<1>19. From(client') /\ From(slot'.lease)
  <2>1. Fits(slot.lease)  BY <1>11 DEF IInv, Fitting
  <2> QED  BY <1>7, <1>8, <2>1 DEF From
<1>20. Wire({})
  <2>1. f.kind # "input"  BY <1>4
  <2> QED  BY <1>6, <2>1 DEF Wire
<1>21. client.epoch = 0 /\ \E t \in {0, 1} : Heard(t)  BY <1>2, <1>3
<1>22. client'.phase # "resuming" /\ client'.asked = 0
  BY <1>7, <1>11
<1> QED  BY <1>7, <1>8, <1>9, <1>10, <1>11, <1>12, <1>13, <1>14, <1>15, <1>16, <1>17, <1>18,
            <1>19, <1>20, <1>21, <1>22, DeskKept

(* Attached, with the lease continued, granted or not. *)
LEMMA AttachedKept ==
  ASSUME IInv, AttachAnswered
  PROVE  IInv' /\ NotSent
<1>1. /\ Incoming("attached") /\ toClient' = Tail(toClient)
      /\ slot' = [slot EXCEPT !.stage = "accepting"]
      /\ UNCHANGED <<people, holder, toHolder, fate, touched, faults>>
  BY DEF AttachAnswered
<1>2. /\ toClient' \in Seq(Answers) /\ Heard(1) /\ Head(toClient) = toClient[1]
      /\ toClient[1] \in Answers /\ 1 \in 1..Len(toClient) /\ toClient[1].kind = "attached"
      /\ 1 \in Told(Grants) /\ 1 \in Told({"attached", "acquired"})
      /\ Told(Grants)' = {} /\ Reaction(toClient[1])
  <2>1. "attached" \in Grants /\ "attached" \in {"attached", "acquired"}  BY DEF Grants
  <2>2. \A K : "attached" \in K => 1 \in Told(K)  BY <1>1, AnswerIs DEF IInv
  <2> QED  BY <1>1, <2>1, <2>2, AnswerIs DEF IInv
<1>3. client.phase = "attaching"  BY <1>2 DEF Reaction
<1>4. PICK e \in Nat : e = toClient[1].epoch  BY <1>2 DEF Answers
<1>5. PICK n \in Nat : n = toClient[1].n  BY <1>2 DEF Answers
<1>6. /\ client' \in Clients /\ client'.conn = client.conn /\ client'.phase = "attached"
      /\ client'.resume = client.resume /\ client'.asked = client.asked
      /\ client'.next = client.next /\ client'.pending = client.pending
      /\ client'.epoch = IF client.epoch # 0 THEN client.epoch ELSE e
  <2>1. client \in Clients  BY DEF IInv, Typed
  <2>2. CASE client.epoch # 0
    <3>1. client' = [client EXCEPT !.phase = "attached"]  BY <2>2 DEF AttachAnswered
    <3> QED  BY <2>1, <2>2, <3>1 DEF Clients, Phases
  <2>3. CASE client.epoch = 0
    <3>1. client' = [client EXCEPT !.phase = "attached", !.epoch = e, !.token = n]
      BY <1>2, <1>4, <1>5, <2>3 DEF AttachAnswered
    <3> QED  BY <2>1, <2>3, <3>1 DEF Clients, Phases
  <2> QED  BY <2>2, <2>3
<1>7. /\ link' \in LinkStates /\ link'.queue = <<>> /\ link'.reset = "no"
      /\ link'.retained \in {0, client.resume.pending}
  <2> DEFINE x == IF client.epoch # 0 THEN client.resume.pending ELSE 0
  <2>1. x \in Item /\ x \in {0, client.resume.pending} /\ client.conn \in Links
    BY Bounds DEF IInv, Typed, Clients, Snapshots
  <2>2. link' = [NoLink EXCEPT !.retained = x]  BY DEF AttachAnswered
  <2> HIDE DEF x
  <2>3. LinkHas(NoLink, <<>>, 0, "no")  BY <2>1, Blank
  <2> QED  BY <2>1, <2>2, <2>3 DEF LinkHas, LinkStates
<1>8. /\ slot' \in Slots /\ slot'.stage = "accepting" /\ slot'.queue = slot.queue
      /\ slot'.lease = slot.lease /\ slot'.observer = slot.observer
  BY <1>1 DEF IInv, Typed, Slots, Stages
<1>9. Typed'  BY <1>1, <1>2, <1>6, <1>7, <1>8 DEF IInv, Typed, people, holder
<1>10. /\ HolderStill /\ made' = made /\ ended' = ended /\ toHolder' = toHolder /\ fate' = fate
  BY <1>1 DEF HolderStill, holder, people
<1>11. /\ Recovering /\ ~slot.observer /\ link.queue = <<>> /\ link.reset = "no"
       /\ client.asked = 0 /\ Attached' /\ Recovering' /\ Open
  BY <1>3, <1>6, <1>8, NotAttachedIs DEF IInv, Attached, Recovering, Open
<1>12. /\ client.epoch = 0 => client.pending = 0 /\ client.next = 1
       /\ InputsOf(client.conn) = {}
  BY <1>3 DEF IInv, Staged
<1>13. InputsOf(client.conn)' = {}  BY <1>6, <1>10, <1>12 DEF InputsOf, AtOf
<1>14. Staged'
  <2>1. client'.epoch = 0 => client'.pending = 0  BY <1>6, <1>12
  <2> QED  BY <1>6, <1>7, <1>8, <1>11, <2>1 DEF Staged
<1>15. Questions'
  <2>1. Asking = {} /\ Giving = {} /\ Told({"released"}) = {}
    BY <1>2, <1>11, NothingAsked, NothingGiven DEF IInv
  <2>2. Asking' = {} /\ Giving' = {}
    BY <1>6, <1>10, <2>1 DEF Asking, Giving, AtOf
  <2>3. Told({"released"})' = {}
    <3>1. PICK R : R = {"released"}  OBVIOUS
    <3>2. 1 \in {0, 1} /\ Told(R) = {}  BY <2>1, <3>1
    <3>3. Told(R)' = {}  BY <1>2, <3>2, ToldNone DEF IInv
    <3> QED  BY <3>1, <3>3
  <2>4. \A d \in Links : \A j \in AtOf(d, Asks)', k \in InputsOf(d)' : k < j
    BY <1>10 DEF IInv, Questions, AtOf, InputsOf
  <2>5. PICK m : m = 0  OBVIOUS
  <2> QED  BY <1>2, <2>2, <2>3, <2>4, <2>5, QuestionsOut
<1>16. Epochs'
  <2>1. lease.owner = client'.conn /\ client'.epoch # 0 => client'.epoch = lease.epoch
    BY <1>2, <1>4, <1>6 DEF IInv, Epochs
  <2>2. \A x \in {client'.epoch, client'.resume.epoch, slot'.lease.epoch} :
          \/ x = 0 \/ x \in {client.epoch, client.resume.epoch, slot.lease.epoch}
          \/ \E k \in 1..Len(toClient) : x = toClient[k].epoch
    BY <1>2, <1>4, <1>6, <1>8
  <2> QED  BY <1>2, <1>6, <1>9, <1>10, <2>1, <2>2, EpochsDesk DEF IInv
<1>17. /\ client'.epoch = 0 => Told({"attached", "acquired"})' = {}
  BY <1>2 DEF Told, Grants
<1>18. Receipted'
  <2>1. CASE client'.epoch = client.epoch
    <3>1. /\ client.next <= client'.next /\ client'.next \in Nat /\ client'.phase # "resuming"
      BY <1>6 DEF IInv, Typed, Clients
    <3> QED  BY <1>2, <2>1, <3>1, ReceiptedDesk DEF IInv
  <2>2. CASE client.epoch = 0 /\ e # 0
    <3>1. PICK K : K = {"receipt"}  OBVIOUS
    <3>2. \A k \in Told(K)' : k + 1 \in Told(K) /\ toClient'[k] = toClient[k + 1]
      BY <1>2, ToldHeard DEF IInv
    <3>3. \A k \in Told(K) : toClient[k].epoch # e
      BY <1>2, <1>4, <2>2, <3>1 DEF IInv, Receipted
    <3>4. \A k \in Told(K)' : toClient'[k].epoch # client'.epoch
      BY <1>6, <2>2, <3>2, <3>3
    <3> QED  BY <1>6, <2>2, <3>1, <3>4 DEF Receipted
  <2> QED  BY <1>6, <2>1, <2>2
<1>19. /\ Waiting' \subseteq Waiting /\ Increasing(slot.queue)' /\ Increasing(link.queue)'
       /\ link'.retained <= Len(made) /\ client'.resume.pending <= Len(made)
  <2>1. link'.queue = link.queue  BY <1>7, <1>11
  <2> QED  BY <1>6, <1>7, <1>8, <1>10, <2>1, KeptQueues
<1>20. Pending' \subseteq Pending \cup {0}  BY <1>6, <1>8 DEF Pending
<1>21. From(client') /\ From(slot'.lease)
  <2>1. Fits(client) /\ Fits(slot.lease)  BY <1>11 DEF IInv, Fitting
  <2>2. CASE client.epoch # 0  BY <1>6, <1>8, <2>1, <2>2 DEF From
  <2>3. CASE client.epoch = 0
    <3>1. PICK v : v = [epoch |-> toClient[1].epoch, next |-> 1, pending |-> 0]  OBVIOUS
    <3>2. Fits(v)  BY <1>2, <2>3, <3>1, AcquiredFits DEF IInv
    <3>3. v.epoch = client'.epoch /\ v.next = client'.next /\ client'.pending = 0
      BY <1>4, <1>6, <1>12, <2>3, <3>1
    <3> QED  BY <1>8, <2>1, <3>2, <3>3 DEF From
  <2> QED  BY <2>2, <2>3
<1>22. Wire({})  BY <1>10 DEF Wire
<1>23. client'.asked = 0 /\ client'.phase # "resuming"  BY <1>6, <1>11
<1> QED  BY <1>9, <1>10, <1>13, <1>14, <1>15, <1>16, <1>17, <1>18, <1>19, <1>20, <1>21, <1>22,
            <1>23, DeskKept

(* The lease is still another's. *)
LEMMA NoLeaseKept ==
  ASSUME IInv, LeaseAcquired, ~Head(toClient).ok
  PROVE  IInv' /\ NotSent
<1>1. /\ Incoming("acquired") /\ toClient' = Tail(toClient) /\ slot.stage = "leasing"
      /\ slot' = [slot EXCEPT !.stage = "waiting"]
      /\ UNCHANGED <<client, link, toHolder, touched, people, holder, fate, faults>>
  BY DEF LeaseAcquired
<1>2. /\ toClient' \in Seq(Answers) /\ Heard(1) /\ 1 \in Told(Grants) /\ Told(Grants)' = {}
  <2>1. "acquired" \in Grants  BY DEF Grants
  <2> QED  BY <1>1, <2>1, AnswerIs DEF IInv
<1>3. /\ slot' \in Slots /\ slot'.stage = "waiting" /\ slot'.observer = slot.observer
      /\ slot'.queue = slot.queue /\ slot'.lease = slot.lease
  BY <1>1 DEF IInv, Typed, Slots, Stages
<1>4. Typed'  BY <1>1, <1>2, <1>3 DEF IInv, Typed, people, holder
<1>5. /\ HolderStill /\ made' = made /\ ended' = ended /\ client' = client /\ link' = link
      /\ toHolder' = toHolder /\ fate' = fate
  BY <1>1 DEF HolderStill, holder, people
<1>6. /\ Recovering /\ Recovering' /\ Attached /\ Attached' /\ Open /\ link.reset = "no"
      /\ client.epoch = 0 /\ client.asked = 0 /\ client.phase = "attached"
      /\ \A d : InputsOf(d)' = InputsOf(d)
  BY <1>1, <1>3, <1>5 DEF Recovering, Attached, Open, IInv, Staged, InputsOf, AtOf
<1>7. Staged'  BY <1>3, <1>5, <1>6 DEF IInv, Staged
<1>8. Questions'
  <2>1. Asking = {} /\ Giving = {} /\ Told({"released"}) = {}
    BY <1>2, <1>6, NothingAsked, NothingGiven DEF IInv
  <2>2. Asking' = {} /\ Giving' = {}  BY <1>5, <2>1 DEF Asking, Giving, AtOf
  <2>3. Told({"released"})' = {}
    <3>1. PICK R : R = {"released"}  OBVIOUS
    <3>2. 1 \in {0, 1} /\ Told(R) = {}  BY <2>1, <3>1
    <3>3. Told(R)' = {}  BY <1>2, <3>2, ToldNone DEF IInv
    <3> QED  BY <3>1, <3>3
  <2>4. \A d \in Links : \A j \in AtOf(d, Asks)', k \in InputsOf(d)' : k < j
    BY <1>5 DEF IInv, Questions, AtOf, InputsOf
  <2>5. PICK m : m = 0  OBVIOUS
  <2> QED  BY <1>2, <2>2, <2>3, <2>4, <2>5, QuestionsOut
<1>9. Epochs'
  <2>1. lease.owner = client'.conn /\ client'.epoch # 0 => client'.epoch = lease.epoch
    BY <1>5, <1>6
  <2>2. \A e \in {client'.epoch, client'.resume.epoch, slot'.lease.epoch} :
          e \in {client.epoch, client.resume.epoch, slot.lease.epoch}
    BY <1>3, <1>5
  <2> QED  BY <1>2, <1>4, <1>5, <2>1, <2>2, EpochsDesk DEF IInv
<1>10. client.next \in Nat /\ client.next <= client.next  BY DEF IInv, Typed, Clients
<1>11. Receipted'  BY <1>2, <1>5, <1>10, ReceiptedDesk DEF IInv
<1>12. /\ Waiting' = Waiting /\ Increasing(slot.queue)' /\ Increasing(link.queue)'
       /\ link.retained <= Len(made) /\ client.resume.pending <= Len(made)
  BY <1>3, <1>5, KeptQueues
<1>13. Pending' = Pending  BY <1>3, <1>5 DEF Pending
<1>14. From(client') /\ From(slot'.lease)
  <2>1. Fits(slot.lease)  BY <1>6 DEF IInv, Fitting
  <2> QED  BY <1>3, <1>5, <1>6, <2>1 DEF From
<1>15. Wire({})  BY <1>5 DEF Wire
<1>16. client.epoch = 0 /\ \E t \in {0, 1} : Heard(t)  BY <1>2, <1>6
<1>17. client'.phase # "resuming" /\ client'.asked = 0  BY <1>5, <1>6
<1>18. Open' => client'.conn = client.conn /\ Open  BY <1>5, <1>6
<1> QED  BY <1>4, <1>5, <1>7, <1>8, <1>9, <1>10, <1>11, <1>12, <1>13, <1>14, <1>15, <1>16, <1>17,
            <1>18, DeskKept

(* The lease of a withdrawn request is given up; the client asks for another. *)
LEMMA ReleasedKept ==
  ASSUME IInv, ResetReleased
  PROVE  IInv' /\ NotSent
<1>1. /\ Incoming("released") /\ toClient' = Tail(toClient)
      /\ client' = [client EXCEPT !.epoch = 0, !.token = 0, !.pending = 0]
      /\ link' = [link EXCEPT !.reset = "acquiring"] /\ Send(Frame("acquire", 0, 0, 0))
      /\ UNCHANGED <<people, slot, holder, fate, touched, faults>>
  BY DEF ResetReleased
<1>2. toClient' \in Seq(Answers) /\ Heard(1) /\ 1 \in Told({"released"})
  <2>1. PICK R : R = {"released"}  OBVIOUS
  <2>2. "released" \in R => 1 \in Told(R)  BY <1>1, AnswerIs DEF IInv
  <2> QED  BY <1>1, <2>1, <2>2, AnswerIs DEF IInv
<1>3. link.reset = "releasing"  BY <1>2 DEF IInv, Questions
<1>4. /\ Attached /\ ~Recovering /\ slot.stage = "none" /\ ~slot.observer /\ slot.queue = <<>>
      /\ client.asked = 0 /\ Open /\ AtRest /\ client.phase = "attached"
  BY <1>3 DEF IInv, Staged, Recovering, Attached, Open, AtRest
<1>5. /\ client' \in Clients /\ client'.conn = client.conn /\ client'.phase = client.phase
      /\ client'.resume = client.resume /\ client'.asked = client.asked
      /\ client'.epoch = 0 /\ client'.pending = 0 /\ client'.next = client.next
  BY <1>1, Bounds DEF IInv, Typed, Clients
<1>6. /\ link' \in LinkStates /\ link'.queue = link.queue /\ link'.reset = "acquiring"
      /\ link'.retained = link.retained
  BY <1>1 DEF IInv, Typed, LinkStates, Resets
<1>7. PICK f \in Frames : f = Frame("acquire", 0, 0, 0) /\ f.kind = "acquire"
  <2>1. "acquire" \in FrameKinds /\ 0 \in Nat /\ 0 \in Item  BY Kinds, Bounds
  <2> QED  BY <2>1, FrameIs
<1>8. PICK c \in Links : c = client.conn  BY DEF IInv, Typed, Clients
<1>9. toHolder' \in [Links -> Seq(Frames)] /\ More(c, f)
  BY <1>1, <1>7, <1>8, SendIs DEF IInv
<1>10. Typed'  BY <1>1, <1>2, <1>5, <1>6, <1>9 DEF IInv, Typed, people, holder
<1>11. HolderStill /\ made' = made /\ ended' = ended /\ slot' = slot /\ fate' = fate
  BY <1>1 DEF HolderStill, holder, people
<1>12. Attached' /\ ~Recovering' /\ ~AtRest' /\ Open'
  BY <1>4, <1>5, <1>6, <1>11 DEF Attached, Recovering, AtRest, Open
<1>13. Staged'
  <2>1. slot.lease.pending = 0  BY <1>4 DEF IInv, Staged
  <2> QED  BY <1>4, <1>5, <1>6, <1>11, <1>12, <2>1 DEF Staged
<1>14. Told(Grants) = {} /\ Told(Grants)' = {} /\ Told({"released"})' = {}
  <2>1. Told(Grants) = {}  BY <1>4 DEF IInv, Questions
  <2>2. PICK R : R = {"released"}  OBVIOUS
  <2>3. Single(Told(R)) /\ 1 \in Told(R)  BY <1>2, <2>2 DEF IInv, Questions
  <2>4. Told(R)' = {}  BY <1>2, <2>3, HeardOnly DEF IInv
  <2> QED  BY <1>2, <2>1, <2>2, <2>4, ToldNone DEF IInv
<1>15. Questions'
  <2>1. Question(f)'  BY <1>5, <1>7, <1>12 DEF Question
  <2>2. Asking = {}  BY <1>4, NothingAsked DEF IInv
  <2>3. Giving = {}  BY <1>2, <1>4 DEF IInv, Questions
  <2>4. AtOf(c, Asks) = {} /\ AtOf(c, {"release"}) = {}
    BY <1>8, <2>2, <2>3 DEF Asking, Giving
  <2>5. f.kind \in Asks /\ client'.conn = c  BY <1>5, <1>7, <1>8 DEF Asks
  <2> QED  BY <1>9, <1>12, <1>14, <2>1, <2>4, <2>5, AskOut DEF IInv
<1>16. Epochs'
  <2>1. \A e \in {client'.epoch, client'.resume.epoch, slot'.lease.epoch} :
          e = 0 \/ e \in {client.epoch, client.resume.epoch, slot.lease.epoch}
    BY <1>5, <1>11
  <2> QED  BY <1>2, <1>5, <1>10, <1>11, <2>1, EpochsDesk DEF IInv
<1>17. Told({"attached", "acquired"})' = {}
  BY <1>14 DEF Told, Grants
<1>18. Receipted'
  <2>1. client'.phase # "resuming"  BY <1>4, <1>5
  <2> QED  BY <1>5, <1>17, <2>1 DEF Receipted
<1>19. /\ Waiting' = Waiting /\ Increasing(slot.queue)' /\ Increasing(link.queue)'
       /\ link.retained <= Len(made) /\ client.resume.pending <= Len(made)
  BY <1>6, <1>11, KeptQueues
<1>20. Pending' \subseteq Pending \cup {0}  BY <1>4, <1>5, <1>11 DEF Pending
<1>21. From(client')  BY <1>5 DEF From
<1>22. Wire({})
  <2>1. f.kind # "input"  BY <1>7
  <2> QED  BY <1>9, <2>1 DEF Wire
<1>23. /\ client'.asked = 0 /\ client'.phase # "resuming"
       /\ client.next \in Nat /\ client.next <= client.next
  BY <1>4, <1>5 DEF IInv, Typed, Clients
<1> QED  BY <1>4, <1>5, <1>6, <1>10, <1>11, <1>12, <1>13, <1>15, <1>16, <1>17, <1>18, <1>19,
            <1>20, <1>21, <1>22, <1>23, DeskKept

(* A new connection. *)
LEMMA AttemptKept ==
  ASSUME IInv, Attempt
  PROVE  IInv' /\ NotSent
<1>1. /\ slot.stage = "waiting" /\ ~slot.observer /\ client.phase = "closed"
      /\ UNCHANGED <<people, link, slot, lease, allocated, tokens, writer, written, toClient,
                     fate, touched, faults>>
  BY DEF Attempt
<1>2. PICK c \in Links :
        /\ Idle(c)
        /\ client' = [Closed(c) EXCEPT
                        !.resume = slot.lease,
                        !.phase = IF slot.lease.epoch # 0 THEN "resuming" ELSE "attaching"]
        /\ toHolder' = [toHolder EXCEPT ![c] = <<IF slot.lease.epoch # 0 THEN Resume ELSE FreshAttach>>]
        /\ ended' = ended \ {c}
  BY Zenon DEF Attempt
<1>3. c # client.conn /\ toHolder[c] = <<>> /\ lease.owner # c  BY <1>2 DEF Idle
<1>4. PICK f \in Frames :
        /\ f = (IF slot.lease.epoch # 0 THEN Resume ELSE FreshAttach)
        /\ slot.lease.epoch # 0 => f.kind = "resume" /\ f.epoch = slot.lease.epoch
        /\ slot.lease.epoch = 0 => f.kind = "attach" /\ f.n = 1
  <2>1. /\ "resume" \in FrameKinds /\ "attach" \in FrameKinds /\ 0 \in Nat /\ 1 \in Nat
        /\ 0 \in Item
    BY Kinds, Bounds
  <2>2. slot.lease.epoch \in Nat /\ slot.lease.token \in Nat
    BY DEF IInv, Typed, Slots, Snapshots
  <2>3. Resume \in Frames /\ Resume.kind = "resume" /\ Resume.epoch = slot.lease.epoch
    BY <2>1, <2>2, FrameIs DEF Resume
  <2>4. FreshAttach \in Frames /\ FreshAttach.kind = "attach" /\ FreshAttach.n = 1
    BY <2>1, FrameIs DEF FreshAttach
  <2>5. CASE slot.lease.epoch # 0  BY <2>3, <2>5
  <2>6. CASE slot.lease.epoch = 0  BY <2>4, <2>6
  <2> QED  BY <2>5, <2>6
<1>5. toHolder' \in [Links -> Seq(Frames)] /\ More(c, f) /\ InputsOf(c)' = {}
  <2>1. toHolder \in [Links -> Seq(Frames)]  BY DEF IInv, Typed
  <2>2. toHolder' = [toHolder EXCEPT ![c] = <<f>>]  BY <1>2, <1>4
  <2>3. /\ <<f>> \in Seq(Frames) /\ Len(<<f>>) = 1 /\ <<f>>[1] = f
    OBVIOUS
  <2>4. /\ toHolder' \in [Links -> Seq(Frames)] /\ toHolder'[c] = <<f>>
        /\ \A d \in Links \ {c} : toHolder'[d] = toHolder[d]
    BY <2>1, <2>2, <2>3
  <2>5. Len(toHolder[c]) = 0  BY <1>3
  <2>6. More(c, f)
    <3>1. toHolder'[c][1] = f /\ Len(toHolder'[c]) = 1  BY <2>3, <2>4
    <3>2. 1..Len(toHolder[c]) = {} /\ Len(toHolder[c]) + 1 = 1  BY <2>5
    <3> QED  BY <2>4, <3>1, <3>2 DEF More
  <2>7. f.kind # "input"  BY <1>4
  <2>8. \A k \in 1..1 : k = 1  OBVIOUS
  <2>9. InputsOf(c)' = {}  BY <2>3, <2>4, <2>7, <2>8 DEF InputsOf, AtOf
  <2> QED  BY <2>4, <2>6, <2>9
<1>6. slot.lease \in Snapshots /\ slot.lease.epoch \in Nat  BY DEF IInv, Typed, Slots, Snapshots
<1>7. /\ client' \in Clients /\ client'.conn = c /\ client'.resume = slot.lease
      /\ client'.asked = 0 /\ client'.epoch = 0 /\ client'.next = 1 /\ client'.pending = 0
      /\ slot.lease.epoch # 0 => client'.phase = "resuming"
      /\ slot.lease.epoch = 0 => client'.phase = "attaching"
  <2> DEFINE ph == IF slot.lease.epoch # 0 THEN "resuming" ELSE "attaching"
  <2>1. ClientHas(Closed(c), c, "closed", NoSnapshot, 0, 0, 0, 1, 0)  BY Blank
  <2>2. ph \in Phases /\ (slot.lease.epoch # 0 => ph = "resuming")
        /\ (slot.lease.epoch = 0 => ph = "attaching")
    BY DEF Phases
  <2>3. client' = [Closed(c) EXCEPT !.resume = slot.lease, !.phase = ph]  BY <1>2
  <2> HIDE DEF ph
  <2>4. /\ client' \in Clients /\ client'.conn = c /\ client'.resume = slot.lease
        /\ client'.asked = 0 /\ client'.epoch = 0 /\ client'.next = 1 /\ client'.pending = 0
        /\ client'.phase = ph
    BY <1>6, <2>1, <2>2, <2>3 DEF ClientHas, Clients
  <2> QED  BY <2>2, <2>4
<1>8. Typed'
  <2>1. ended' \subseteq Links  BY <1>2 DEF IInv, Typed
  <2> QED  BY <1>1, <1>5, <1>7, <2>1 DEF IInv, Typed, people
<1>9. /\ HolderStill /\ made' = made /\ link' = link /\ slot' = slot /\ toClient' = toClient
      /\ fate' = fate
  BY <1>1 DEF HolderStill, people
<1>10. /\ Recovering /\ link.queue = <<>> /\ link.reset = "no" /\ toClient = <<>>
       /\ ~Attached' /\ Recovering' /\ client'.phase \in {"resuming", "attaching"}
  BY <1>1, <1>7, <1>9 DEF IInv, Staged, Attached, Recovering
<1>11. InputsOf(client.conn)' = {}
  BY <1>5, <1>7 DEF InputsOf, AtOf
<1>12. Staged'  BY <1>1, <1>7, <1>9, <1>10, <1>11 DEF Staged
<1>13. \A K : Told(K)' = {}
  <2>1. 1..Len(toClient') = {}  BY <1>9, <1>10
  <2> QED  BY <2>1 DEF Told
<1>14. Questions'
  <2>1. Question(f)'
    <3>1. CASE slot.lease.epoch # 0  BY <1>4, <1>7, <3>1 DEF Question
    <3>2. CASE slot.lease.epoch = 0  BY <1>4, <1>7, <3>2 DEF Question
    <3> QED  BY <3>1, <3>2
  <2>2. AtOf(c, Asks) = {} /\ AtOf(c, {"release"}) = {}
    <3>1. 1..Len(toHolder[c]) = {}  BY <1>3
    <3> QED  BY <3>1 DEF AtOf
  <2>3. f.kind \in Asks  BY <1>4 DEF Asks
  <2>4. ~AtRest'  BY <1>10 DEF AtRest
  <2> QED  BY <1>5, <1>7, <1>13, <2>1, <2>2, <2>3, <2>4, AskOut DEF IInv
<1>15. Epochs'
  <2>1. \A e \in {client'.epoch, client'.resume.epoch, slot'.lease.epoch} :
          e = 0 \/ e \in {client.epoch, client.resume.epoch, slot.lease.epoch}
    BY <1>7, <1>9
  <2>2. 0 \in {0, 1} /\ toClient' = <<>>  BY <1>9, <1>10
  <2> QED  BY <1>7, <1>8, <1>9, <2>1, <2>2, EpochsDesk DEF IInv
<1>16. Receipted'  BY <1>9, <1>10, ReceiptedNone
<1>17. /\ Waiting' = Waiting /\ Increasing(slot.queue)' /\ Increasing(link.queue)'
       /\ link.retained <= Len(made) /\ slot.lease.pending <= Len(made)
  BY <1>9, KeptQueues
<1>18. Pending' \subseteq Pending \cup {0}  BY <1>7, <1>9 DEF Pending
<1>19. From(client') /\ From(slot'.lease) /\ From(client'.resume)
  <2>1. Fits(slot.lease)  BY <1>10 DEF IInv, Fitting
  <2> QED  BY <1>7, <1>9, <2>1 DEF From
<1>20. Wire({})
  <2>1. f.kind # "input"  BY <1>4
  <2> QED  BY <1>5, <2>1 DEF Wire
<1>21. \A d \in ended : d \in ended' \/ InputsOf(d)' = {}  BY <1>2, <1>5
<1>22. /\ link'.retained <= Len(made) /\ client'.resume.pending <= Len(made)
  BY <1>7, <1>9, <1>17
<1> QED  BY <1>7, <1>8, <1>9, <1>11, <1>12, <1>13, <1>14, <1>15, <1>16, <1>17, <1>18, <1>19,
            <1>20, <1>21, <1>22, DeskKept

-----------------------------------------------------------------------------
(* The end of a recovery. *)

LEMMA SilentOut ==
  ASSUME Typed, Questions, NEW c \in Links, c = client.conn, client'.conn = c,
         Asking = {}, Giving = {}, Told({"released"}) = {}, Told(Grants)' = {},
         NEW t \in {0, 1}, Heard(t),
         \/ toHolder' = toHolder
         \/ \E f \in Frames : f.kind \notin Asks \cup {"release"} /\ More(c, f)
  PROVE  Questions'
<1>1. AtOf(c, Asks) = {} /\ AtOf(c, {"release"}) = {}  BY DEF Asking, Giving
<1>2. \A d \in Links : \A j \in AtOf(d, Asks)', k \in InputsOf(d)' : k < j
  <2>1. CASE toHolder' = toHolder  BY <2>1 DEF Questions, AtOf, InputsOf
  <2>2. CASE \E f \in Frames : More(c, f)  BY <1>1, <2>2, OrderedMore
  <2> QED  BY <2>1, <2>2
<1>3. ASSUME NEW K \in {Asks, {"release"}} PROVE AtOf(c, K)' = {}
  <2>1. AtOf(c, K) = {}  BY <1>1
  <2>2. CASE toHolder' = toHolder  BY <2>1, <2>2 DEF AtOf
  <2>3. CASE \E f \in Frames : f.kind \notin Asks \cup {"release"} /\ More(c, f)
    <3>1. PICK f \in Frames : f.kind \notin K /\ More(c, f)  BY <2>3
    <3> QED  BY <2>1, <3>1, NewOnly
  <2> QED  BY <2>2, <2>3
<1>4. Asking' = {} /\ Giving' = {}
  BY <1>3 DEF Asking, Giving, AtOf
<1>5. Told({"released"})' = {}
  <2>1. PICK R : R = {"released"}  OBVIOUS
  <2>2. Told(R)' = {}  BY <2>1, ToldNone
  <2> QED  BY <2>1, <2>2
<1>6. PICK m : m = 0  OBVIOUS
<1> QED  BY <1>2, <1>4, <1>5, <1>6, QuestionsOut

LEMMA ReceiptedEpoch ==
  ASSUME Typed, client'.epoch # 0, client'.phase # "resuming", NEW t \in {0, 1}, Heard(t),
         \A k \in Told({"receipt"}) :
           toClient[k].epoch = client'.epoch => toClient[k].n < client'.next
  PROVE  Receipted'
<1>1. PICK K : K = {"receipt"}  OBVIOUS
<1>2. \A k \in Told(K)' : k + t \in Told(K) /\ toClient'[k] = toClient[k + t]
  BY ToldHeard
<1>3. \A k \in Told(K)' : toClient'[k].epoch = client'.epoch => toClient'[k].n < client'.next
  BY <1>1, <1>2
<1> QED  BY <1>1, <1>3 DEF Receipted

(* A step that leaves no recovery behind, by a client that knows its lease. *)
Resting(v, t) ==
  /\ HolderStill /\ made' = made /\ hidden' = hidden /\ ended' = ended /\ fate' = fate
  /\ faults' = faults /\ toClient' \in Seq(Answers) /\ Heard(t)
  /\ Recovering /\ Attached /\ slot' = NoSlot /\ touched' = FALSE
  /\ link' \in LinkStates /\ link'.reset = "no" /\ link'.retained = link.retained
  /\ v \in Clients /\ v.conn = client.conn /\ v.phase = "attached" /\ v.resume = client.resume
  /\ v.asked = 0 /\ v.pending = client.pending /\ v.epoch # 0 /\ Fits(v)
  /\ lease.owner = client.conn => lease.epoch = v.epoch
  /\ v.epoch = client.epoch \/ \E k \in 1..Len(toClient) : v.epoch = toClient[k].epoch
  /\ InputsOf(client.conn) = {} \/ v.next = client.next
  /\ Asking = {} /\ Giving = {} /\ Told({"released"}) = {} /\ Told(Grants)' = {}
  /\ \A k \in Told({"receipt"}) : toClient[k].epoch = v.epoch => toClient[k].n < v.next

LEMMA RestingIs ==
  ASSUME IInv, NEW v, NEW t \in {0, 1}, Resting(v, t)
  PROVE  /\ slot' \in Slots /\ slot'.stage = "none" /\ slot'.queue = <<>> /\ ~slot'.observer
         /\ slot'.lease.epoch = 0 /\ slot'.lease.pending = 0
         /\ client.conn \in Links /\ client.asked = 0 /\ link.queue = <<>> /\ Open
         /\ slot.queue \in Seq(Item) /\ Increasing(slot.queue) /\ ItemsOf(slot.queue) \subseteq Waiting
         /\ v.next \in Nat \ {0} /\ v.epoch \in Nat
         /\ link'.retained <= Len(made) /\ client.resume.pending <= Len(made)
         /\ Len(made) \in Nat /\ ~Recovering'
<1>1. client.conn \in Links  BY DEF IInv, Typed, Clients
<1>2. SlotHas(NoSlot, "none", <<>>, FALSE, FALSE) /\ NoSlot.lease = NoSnapshot
      /\ SnapshotHas(NoSnapshot, 0, 0, 1, 0)
  BY <1>1, Blank
<1>3. /\ slot' \in Slots /\ slot'.stage = "none" /\ slot'.queue = <<>> /\ ~slot'.observer
      /\ slot'.lease.epoch = 0 /\ slot'.lease.pending = 0
  BY <1>2 DEF Resting, SlotHas, SnapshotHas
<1>4. client.asked = 0 /\ link.queue = <<>> /\ Open
  BY DEF Resting, IInv, Staged, Open, Attached
<1>5. slot.queue \in Seq(Item) /\ Increasing(slot.queue)
  BY DEF IInv, Typed, Slots, InOrder
<1>6. ItemsOf(slot.queue) \subseteq Waiting  BY DEF Waiting
<1>7. v.next \in Nat \ {0} /\ v.epoch \in Nat  BY DEF Resting, Clients
<1>8. link'.retained <= Len(made) /\ client.resume.pending <= Len(made) /\ Len(made) \in Nat
  BY Elements DEF Resting, IInv, InOrder
<1> QED  BY <1>1, <1>3, <1>4, <1>5, <1>6, <1>7, <1>8 DEF Recovering

(* What the slot kept goes out, the first of it now. *)
LEMMA FirstKept ==
  ASSUME IInv, NEW v, NEW t \in {0, 1}, Resting(v, t), slot.queue # <<>>,
         link'.queue = Tail(slot.queue),
         client' = [v EXCEPT !.pending = Head(slot.queue), !.next = @ + 1],
         Send(Frame("input", v.epoch, v.next, Head(slot.queue)))
  PROVE  IInv' /\ NotSent
<1>1. /\ slot' \in Slots /\ slot'.stage = "none" /\ slot'.queue = <<>> /\ ~slot'.observer
      /\ slot'.lease.epoch = 0 /\ slot'.lease.pending = 0
      /\ client.conn \in Links /\ Open
      /\ slot.queue \in Seq(Item) /\ Increasing(slot.queue) /\ ItemsOf(slot.queue) \subseteq Waiting
      /\ v.next \in Nat \ {0} /\ v.epoch \in Nat
      /\ link'.retained <= Len(made) /\ Len(made) \in Nat
  BY RestingIs
<1>2. PICK i : i = Head(slot.queue)  OBVIOUS
<1>3. /\ i \in Item /\ i \in Waiting /\ i \in ItemsOf(slot.queue) /\ i # 0 /\ i <= Len(made)
      /\ \A q \in ItemsOf(link.queue)' : q \in Waiting /\ i < q
      /\ Increasing(link.queue)'
  <2>1. /\ Head(slot.queue) \in Item /\ Head(slot.queue) \in ItemsOf(slot.queue)
        /\ \A x \in ItemsOf(Tail(slot.queue)) : x \in ItemsOf(slot.queue) /\ Head(slot.queue) < x
        /\ Increasing(Tail(slot.queue))
    BY <1>1, QueueDrops
  <2>2. ItemsOf(link.queue)' = ItemsOf(Tail(slot.queue))  BY DEF ItemsOf
  <2>3. Increasing(link.queue)' <=> Increasing(Tail(slot.queue))  BY DEF Increasing
  <2>4. i \in Waiting  BY <1>1, <1>2, <2>1
  <2> QED  BY <1>1, <1>2, <2>1, <2>2, <2>3, <2>4 DEF IInv, InOrder
<1>4. PICK f \in Frames : /\ f = Frame("input", v.epoch, v.next, i) /\ f.kind = "input"
                          /\ f.epoch = v.epoch /\ f.n = v.next /\ f.item = i
  <2>1. "input" \in FrameKinds  BY Kinds
  <2> QED  BY <1>1, <1>3, <2>1, FrameIs
<1>5. PICK c \in Links : c = client.conn  BY <1>1
<1>6. toHolder' \in [Links -> Seq(Frames)] /\ More(c, f) /\ More(client.conn, f)
  BY <1>2, <1>4, <1>5, SendIs DEF IInv
<1>7. PICK n \in Nat \ {0} : n = v.next + 1  BY <1>1
<1>8. /\ client' \in Clients /\ client'.conn = client.conn /\ client'.phase = "attached"
      /\ client'.resume = client.resume /\ client'.asked = 0 /\ client'.epoch = v.epoch
      /\ client'.next = n /\ client'.pending = i
  <2>1. client' = [v EXCEPT !.pending = i, !.next = n]  BY <1>2, <1>7
  <2> QED  BY <1>3, <2>1 DEF Resting, Clients
<1>9. Typed'
  BY <1>1, <1>6, <1>8 DEF IInv, Typed, Resting, HolderStill
<1>10. Questions'
  <2>1. f.kind \notin Asks \cup {"release"}  BY <1>4 DEF Asks
  <2> QED  BY <1>5, <1>6, <1>8, <2>1, SilentOut DEF IInv, Resting
<1>11. Receipted'
  <2>1. \A k \in Told({"receipt"}) :
           toClient[k].epoch = client'.epoch => toClient[k].n < client'.next
    <3>1. ASSUME NEW k \in Told({"receipt"}), toClient[k].epoch = client'.epoch
          PROVE  toClient[k].n < client'.next
      <4>1. toClient[k].n < v.next  BY <1>8, <3>1 DEF Resting
      <4>2. toClient[k] \in Answers  BY Elements DEF IInv, Told
      <4>3. toClient[k].n \in Nat  BY <4>2 DEF Answers
      <4> QED  BY <1>1, <1>7, <1>8, <4>1, <4>3
    <3> QED  BY <3>1
  <2> QED  BY <1>8, <2>1, ReceiptedEpoch DEF IInv, Resting
<1>12. Telling'  BY <1>8, TellingNone
<1>13. \A k \in InputsOf(client.conn) : toHolder[client.conn][k].n < v.next
  <2>1. CASE InputsOf(client.conn) = {}  BY <2>1
  <2>2. CASE v.next = client.next  BY <1>1, <2>2 DEF IInv, Numbered
  <2> QED  BY <2>1, <2>2 DEF Resting
<1>14. /\ HolderStill /\ ended' = ended /\ Len(made) <= Len(made') /\ Fits(v) /\ v.epoch # 0
       /\ lease.owner = client.conn => lease.epoch = v.epoch
       /\ v.epoch = client.epoch \/ \E k \in 1..Len(toClient) : v.epoch = toClient[k].epoch
       /\ Heard(t) /\ link'.retained <= Len(made')
       /\ fate' = fate /\ f.item <= Len(made')
  BY <1>1, <1>3, <1>4 DEF Resting
<1>15. \A j \in Inputs : fate'[j] = fate[j]  BY <1>14
<1> QED  BY <1>1, <1>3, <1>4, <1>6, <1>7, <1>8, <1>9, <1>10, <1>11, <1>12, <1>13, <1>14, <1>15,
            SendKept

(* Nothing was kept. *)
LEMMA NoneKept ==
  ASSUME IInv, NEW v, NEW t \in {0, 1}, Resting(v, t), slot.queue = <<>>, link'.queue = slot.queue,
         client' = v, toHolder' = toHolder
  PROVE  IInv' /\ NotSent
<1>1. /\ slot' \in Slots /\ slot'.stage = "none" /\ slot'.queue = <<>> /\ ~slot'.observer
      /\ slot'.lease.epoch = 0 /\ slot'.lease.pending = 0
      /\ client.conn \in Links /\ Open /\ link.queue = <<>>
      /\ v.next \in Nat \ {0} /\ v.epoch \in Nat
      /\ link'.retained <= Len(made) /\ client.resume.pending <= Len(made) /\ ~Recovering'
  BY RestingIs
<1>2. /\ HolderStill /\ made' = made /\ ended' = ended /\ fate' = fate /\ Heard(t)
      /\ client'.conn = client.conn /\ client'.phase = "attached"
      /\ client'.resume = client.resume /\ client'.asked = 0 /\ client'.epoch # 0
      /\ client'.pending = client.pending /\ link'.reset = "no"
  BY DEF Resting
<1>3. Typed'
  BY <1>1 DEF IInv, Typed, Resting, HolderStill
<1>4. Staged'  BY <1>1, <1>2 DEF Staged, Attached
<1>5. Questions'
  <2>1. PICK c \in Links : c = client.conn  BY <1>1
  <2> QED  BY <1>2, <2>1, SilentOut DEF IInv, Resting
<1>6. Receipted'  BY <1>2, ReceiptedEpoch DEF IInv, Resting
<1>7. Epochs'
  <2>1. \A e \in {client'.epoch, client'.resume.epoch, slot'.lease.epoch} :
          \/ e = 0 \/ e \in {client.epoch, client.resume.epoch, slot.lease.epoch}
          \/ \E k \in 1..Len(toClient) : e = toClient[k].epoch
    BY <1>1, <1>2 DEF Resting
  <2>2. lease.owner = client'.conn /\ client'.epoch # 0 => client'.epoch = lease.epoch
    BY <1>2 DEF Resting
  <2> QED  BY <1>2, <1>3, <2>1, <2>2, EpochsDesk DEF IInv
<1>8. /\ Waiting' \subseteq Waiting /\ Increasing(slot.queue)' /\ Increasing(link.queue)'
  BY <1>1, <1>2, KeptQueues
<1>9. Pending' \subseteq Pending \cup {0}  BY <1>1, <1>2 DEF Pending
<1>10. From(client')  BY DEF From, Resting
<1>11. Wire({})  BY DEF Wire
<1>12. \/ InputsOf(client.conn)' = {}
       \/ client'.conn = client.conn /\ Open /\ client.next <= client'.next /\ client'.next \in Nat
  <2>1. CASE InputsOf(client.conn) = {}  BY <1>2, <2>1 DEF InputsOf, AtOf
  <2>2. CASE v.next = client.next  BY <1>1, <1>2, <2>2
  <2> QED  BY <2>1, <2>2 DEF Resting
<1>13. client'.phase # "resuming"  BY <1>2
<1>14. client'.resume.pending <= Len(made)  BY <1>1, <1>2
<1> QED  BY <1>1, <1>2, <1>3, <1>4, <1>5, <1>6, <1>7, <1>8, <1>9, <1>10, <1>11, <1>12, <1>13,
            <1>14, DeskKept

(* An adopted link that holds the lease. *)
Adopted ==
  /\ Recovering /\ Attached /\ client.epoch # 0
  /\ slot' = NoSlot /\ touched' = FALSE /\ link' \in LinkStates /\ link'.retained = link.retained
  /\ UNCHANGED <<people, holder, toClient, fate, faults>>

LEMMA AdoptedIs ==
  ASSUME IInv, Adopted
  PROVE  /\ slot' \in Slots /\ slot'.stage = "none" /\ slot'.queue = <<>> /\ ~slot'.observer
         /\ slot'.lease.epoch = 0 /\ slot'.lease.pending = 0 /\ ~Recovering'
         /\ client.conn \in Links /\ client.asked = 0 /\ client.phase = "attached" /\ Open
         /\ link.queue = <<>> /\ link.reset = "no"
         /\ HolderStill /\ made' = made /\ hidden' = hidden /\ ended' = ended /\ fate' = fate
         /\ toClient' = toClient /\ faults' = faults /\ Heard(0)
         /\ Asking = {} /\ Giving = {} /\ Told({"released"}) = {} /\ Told(Grants)' = {}
         /\ Fits(client) /\ (lease.owner = client.conn => lease.epoch = client.epoch)
         /\ client.next \in Nat /\ client.next # 0 /\ client.epoch \in Nat /\ client.token \in Nat
         /\ client.pending \in Item
<1>1. client.conn \in Links  BY DEF IInv, Typed, Clients
<1>2. SlotHas(NoSlot, "none", <<>>, FALSE, FALSE) /\ NoSlot.lease = NoSnapshot
      /\ SnapshotHas(NoSnapshot, 0, 0, 1, 0)
  BY <1>1, Blank
<1>3. /\ slot' \in Slots /\ slot'.stage = "none" /\ slot'.queue = <<>> /\ ~slot'.observer
      /\ slot'.lease.epoch = 0 /\ slot'.lease.pending = 0 /\ ~Recovering'
  BY <1>2 DEF Adopted, SlotHas, SnapshotHas, Recovering
<1>4. /\ client.asked = 0 /\ link.queue = <<>> /\ link.reset = "no" /\ client.phase = "attached"
      /\ Open
  BY DEF Adopted, IInv, Staged, Attached, Open
<1>5. /\ HolderStill /\ made' = made /\ hidden' = hidden /\ ended' = ended /\ fate' = fate
      /\ toClient' = toClient /\ faults' = faults
  BY DEF Adopted, HolderStill, holder, people
<1>6. Heard(0)  BY <1>5, HeardNone DEF IInv
<1>7. Asking = {} /\ Told(Grants) = {} /\ Giving = {} /\ Told({"released"}) = {}
  BY <1>4, Quiet, NothingGiven DEF IInv, Adopted
<1>8. Told(Grants)' = {}  BY <1>5, <1>7 DEF Told
<1>9. Fits(client) /\ (lease.owner = client.conn => lease.epoch = client.epoch)
  BY DEF Adopted, IInv, Fitting, Epochs
<1>10. /\ client.next \in Nat /\ client.next # 0 /\ client.epoch \in Nat /\ client.token \in Nat
       /\ client.pending \in Item
  BY DEF IInv, Typed, Clients
<1> QED  BY <1>1, <1>3, <1>4, <1>5, <1>6, <1>7, <1>8, <1>9, <1>10

(* The lease of a request that was withdrawn is given up. *)
LEMMA RevokedKept ==
  ASSUME IInv, Adopted, client' = client, link'.reset = "releasing", link'.queue = slot.queue,
         Send(Frame("release", client.epoch, client.token, 0))
  PROVE  IInv' /\ NotSent
<1>1. /\ slot' \in Slots /\ slot'.stage = "none" /\ slot'.queue = <<>> /\ ~slot'.observer
      /\ slot'.lease.epoch = 0 /\ slot'.lease.pending = 0 /\ ~Recovering'
      /\ client.conn \in Links /\ client.asked = 0 /\ client.phase = "attached" /\ Open
      /\ link.queue = <<>> /\ HolderStill /\ made' = made /\ ended' = ended /\ fate' = fate
      /\ toClient' = toClient /\ Heard(0) /\ hidden' = hidden /\ faults' = faults
      /\ Asking = {} /\ Giving = {} /\ Told({"released"}) = {} /\ Told(Grants)' = {}
      /\ Fits(client)
      /\ client.next \in Nat /\ client.epoch \in Nat /\ client.token \in Nat
  BY AdoptedIs
<1>2. PICK f \in Frames : /\ f = Frame("release", client.epoch, client.token, 0)
                          /\ f.kind = "release"
  <2>1. "release" \in FrameKinds /\ 0 \in Item  BY Kinds, Bounds
  <2> QED  BY <1>1, <2>1, FrameIs
<1>3. PICK c \in Links : c = client.conn  BY <1>1
<1>4. toHolder' \in [Links -> Seq(Frames)] /\ More(c, f)
  BY <1>2, <1>3, SendIs DEF IInv
<1>5. Typed'
  BY <1>1, <1>4 DEF IInv, Typed, Adopted, HolderStill
<1>6. client.epoch # 0 /\ Attached  BY DEF Adopted
<1>7. Staged'
  BY <1>1, <1>6 DEF Staged, Attached
<1>8. Questions'
  <2>1. f.kind # "input"  BY <1>2
  <2>2. \A d \in Links : \A j \in AtOf(d, Asks)', k \in InputsOf(d)' : k < j
    BY <1>4, <2>1, OrderedMore DEF IInv
  <2>3. AtOf(c, Asks)' = {}
    <3>1. AtOf(c, Asks) = {} /\ f.kind \notin Asks  BY <1>1, <1>2, <1>3 DEF Asking, Asks
    <3> QED  BY <1>4, <3>1, NewOnly DEF IInv
  <2>4. PICK m : m = Len(toHolder[c]) + 1  OBVIOUS
  <2>5. PICK R : R = {"release"}  OBVIOUS
  <2>6. \A k \in AtOf(c, R)' : k = m
    <3>1. AtOf(c, R) = {}  BY <1>1, <1>3, <2>5 DEF Giving
    <3> QED  BY <1>4, <2>4, <3>1, NewOnly DEF IInv
  <2>7. Asking' = {} /\ \A k \in Giving' : k = m
    BY <1>3, <2>3, <2>5, <2>6 DEF Asking, Giving, AtOf
  <2>8. Told({"released"})' = {}  BY <1>1 DEF Told
  <2>9. \A k \in Asking' : k = m /\ ~AtRest' /\ Question(toHolder[client.conn][m])'  BY <2>7
  <2>10. \A k \in Giving' : k = m /\ link'.reset = "releasing"  BY <2>7
  <2>11. Told(Grants)' = {}  BY <1>1
  <2> QED  BY <2>2, <2>8, <2>9, <2>10, <2>11, QuestionsOut
<1>9. Epochs'
  <2>1. \A e \in {client'.epoch, client'.resume.epoch, slot'.lease.epoch} :
          e = 0 \/ e \in {client.epoch, client.resume.epoch, slot.lease.epoch}
    BY <1>1
  <2>2. lease.owner = client'.conn /\ client'.epoch # 0 => client'.epoch = lease.epoch
    BY DEF IInv, Epochs
  <2>3. 0 \in {0, 1} /\ client'.conn = client.conn  OBVIOUS
  <2> QED  BY <1>1, <1>5, <2>1, <2>2, <2>3, EpochsDesk DEF IInv
<1>10. Receipted'
  <2>1. 0 \in {0, 1} /\ client.next <= client'.next /\ client'.next \in Nat
    BY <1>1
  <2> QED  BY <1>1, <2>1, ReceiptedDesk DEF IInv
<1>11. /\ Waiting' \subseteq Waiting /\ Increasing(slot.queue)' /\ Increasing(link.queue)'
  <2>1. ItemsOf(slot.queue)' = ItemsOf(<<>>) /\ ItemsOf(link.queue)' = ItemsOf(slot.queue)
    BY <1>1 DEF ItemsOf
  <2>2. Increasing(slot.queue) /\ Increasing(<<>>)  BY EmptyQueue DEF IInv, InOrder
  <2> QED  BY <1>1, <2>1, <2>2, EmptyQueue DEF Waiting, Increasing
<1>12. Pending' \subseteq Pending \cup {0}  BY <1>1 DEF Pending
<1>13. From(client')  BY <1>1 DEF From
<1>14. Wire({})
  <2>1. f.kind # "input"  BY <1>2
  <2> QED  BY <1>4, <2>1 DEF Wire
<1>15. /\ link'.retained <= Len(made) /\ client'.resume.pending <= Len(made)
  BY DEF Adopted, IInv, InOrder
<1>16. client'.phase # "resuming" /\ client'.epoch # 0 /\ client.next <= client.next
  BY <1>1, <1>6
<1> QED  BY <1>1, <1>5, <1>7, <1>8, <1>9, <1>10, <1>11, <1>12, <1>13, <1>14, <1>15, <1>16, DeskKept

(* The request whose receipt did not come is sent again under its number. *)
LEMMA AgainKept ==
  ASSUME IInv, Adopted, client' = client, link'.reset = "no", link'.queue = slot.queue,
         client.pending # 0, Send(InputFrame(client, client.pending))
  PROVE  IInv' /\ NotSent
<1>1. /\ slot' \in Slots /\ slot'.stage = "none" /\ slot'.queue = <<>> /\ ~slot'.observer
      /\ slot'.lease.epoch = 0 /\ slot'.lease.pending = 0 /\ ~Recovering'
      /\ client.conn \in Links /\ client.asked = 0 /\ client.phase = "attached" /\ Open
      /\ link.queue = <<>> /\ link.reset = "no"
      /\ HolderStill /\ made' = made /\ ended' = ended /\ fate' = fate
      /\ toClient' = toClient /\ Heard(0) /\ hidden' = hidden /\ faults' = faults
      /\ Asking = {} /\ Giving = {} /\ Told({"released"}) = {} /\ Told(Grants)' = {}
      /\ Fits(client) /\ (lease.owner = client.conn => lease.epoch = client.epoch)
      /\ client.next \in Nat /\ client.next # 0 /\ client.epoch \in Nat /\ client.pending \in Item
  BY AdoptedIs
<1>2. PICK f \in Frames : /\ f = InputFrame(client, client.pending) /\ f.kind = "input"
                          /\ f.epoch = client.epoch /\ f.n = client.next - 1
                          /\ f.item = client.pending
  <2>1. "input" \in FrameKinds /\ client.next - 1 \in Nat  BY <1>1, Kinds
  <2> QED  BY <1>1, <2>1, FrameIs DEF InputFrame
<1>3. PICK c \in Links : c = client.conn  BY <1>1
<1>4. toHolder' \in [Links -> Seq(Frames)] /\ More(c, f) /\ More(client.conn, f)
  BY <1>2, <1>3, SendIs DEF IInv
<1>5. Typed'
  BY <1>1, <1>4 DEF IInv, Typed, Adopted, HolderStill
<1>6. client.epoch # 0 /\ Attached  BY DEF Adopted
<1>7. Staged'
  BY <1>1, <1>6 DEF Staged, Attached
<1>8. Questions'
  <2>1. f.kind \notin Asks \cup {"release"}  BY <1>2 DEF Asks
  <2>2. 0 \in {0, 1} /\ client'.conn = c  BY <1>3
  <2> QED  BY <1>1, <1>3, <1>4, <2>1, <2>2, SilentOut DEF IInv
<1>9. Epochs'
  <2>1. \A e \in {client'.epoch, client'.resume.epoch, slot'.lease.epoch} :
          e = 0 \/ e \in {client.epoch, client.resume.epoch, slot.lease.epoch}
    BY <1>1
  <2>2. lease.owner = client'.conn /\ client'.epoch # 0 => client'.epoch = lease.epoch
    BY DEF IInv, Epochs
  <2>3. 0 \in {0, 1} /\ client'.conn = client.conn  OBVIOUS
  <2> QED  BY <1>1, <1>5, <2>1, <2>2, <2>3, EpochsDesk DEF IInv
<1>10. Receipted'
  <2>1. 0 \in {0, 1} /\ client.next <= client'.next /\ client'.next \in Nat
    BY <1>1
  <2> QED  BY <1>1, <2>1, ReceiptedDesk DEF IInv
<1>11. /\ Waiting' \subseteq Waiting /\ Increasing(slot.queue)' /\ Increasing(link.queue)'
  <2>1. ItemsOf(slot.queue)' = ItemsOf(<<>>) /\ ItemsOf(link.queue)' = ItemsOf(slot.queue)
    BY <1>1 DEF ItemsOf
  <2>2. Increasing(slot.queue) /\ Increasing(<<>>)  BY EmptyQueue DEF IInv, InOrder
  <2> QED  BY <1>1, <2>1, <2>2, EmptyQueue DEF Waiting, Increasing
<1>12. Pending' \subseteq Pending \cup {0} /\ client.pending \in Pending
  BY <1>1 DEF Pending
<1>13. /\ Len(made) \in Nat /\ link'.retained <= Len(made) /\ client'.resume.pending <= Len(made)
       /\ client.pending <= Len(made) /\ \A q \in Waiting : client.pending < q /\ 0 < q
  BY <1>12, Elements, WaitingIs DEF Adopted, IInv, InOrder, BeforeWaiting
<1>14. InOrder' /\ Settled' /\ NotSent
  <2>1. PICK F : F = {f}  OBVIOUS
  <2>2. Wire(F)  BY <1>2, <1>4, <2>1 DEF Wire
  <2>3. \A x \in Pending : x <= Len(made) /\ \A q \in Waiting : x < q
    BY DEF IInv, InOrder, BeforeWaiting
  <2>4. \A x \in Pending' : /\ x \in Waiting \/ x \in Pending \/ x = 0 \/ x \in New
                            /\ x <= Len(made') /\ \A q \in Waiting' : x < q
    BY <1>1, <1>11, <1>12, <1>13, <2>3
  <2>5. \A g \in F : /\ g.item # 0 /\ (g.item \in Waiting \/ g.item \in Pending \/ g.item \in New)
                     /\ g.item <= Len(made') /\ \A q \in Waiting' : g.item < q
    BY <1>1, <1>2, <1>11, <1>12, <1>13, <2>1
  <2>6. \A q \in Waiting' : q \in Waiting \/ q \in New  BY <1>11
  <2>7. \A i \in Inputs : fate'[i] = fate[i]  BY <1>1
  <2>8. \A d \in ended : d \in ended'  BY <1>1
  <2>9. Len(made) <= Len(made')  BY <1>1, <1>13
  <2>10. link'.retained <= Len(made') /\ client'.resume.pending <= Len(made')  BY <1>1, <1>13
  <2> QED  BY <1>1, <1>5, <1>11, <2>2, <2>4, <2>5, <2>6, <2>7, <2>8, <2>9, <2>10, OrderDesk DEF IInv
<1>15. Numbered' /\ Fits(client)'
  BY <1>1, <1>2, <1>4, <1>5, <1>6, SendAgain DEF IInv
<1>16. Fitting'
  <2>1. client'.phase # "resuming" /\ client'.epoch # 0  BY <1>1, <1>6
  <2> QED  BY <1>1, <1>15, <2>1 DEF Fitting
<1>17. Remembers' /\ Telling'
  BY <1>1, RemembersStill, TellingNone DEF IInv
<1> QED  BY <1>5, <1>7, <1>8, <1>9, <1>10, <1>14, <1>15, <1>16, <1>17 DEF IInv

(* The client that was adopted rests, as far as it is concerned. *)
LEMMA AdoptedRests ==
  ASSUME IInv, Adopted, link'.reset = "no", NEW v, v = client
  PROVE  Resting(v, 0)
<1>1. /\ slot' \in Slots /\ client.conn \in Links /\ client.asked = 0 /\ client.phase = "attached"
      /\ HolderStill /\ made' = made /\ hidden' = hidden /\ ended' = ended /\ fate' = fate
      /\ toClient' = toClient /\ faults' = faults /\ Heard(0)
      /\ Asking = {} /\ Giving = {} /\ Told({"released"}) = {} /\ Told(Grants)' = {}
      /\ Fits(client) /\ (lease.owner = client.conn => lease.epoch = client.epoch)
  BY AdoptedIs
<1>2. Fits(v)  BY <1>1 DEF Fits
<1>3. \A k \in Told({"receipt"}) : toClient[k].epoch = client.epoch => toClient[k].n < client.next
  BY DEF IInv, Receipted, Adopted
<1>4. toClient' \in Seq(Answers) /\ client \in Clients  BY <1>1 DEF IInv, Typed
<1> QED  BY <1>1, <1>2, <1>3, <1>4 DEF Resting, Adopted

LEMMA AcceptKept ==
  ASSUME IInv, Accept
  PROVE  IInv' /\ NotSent
<1>1. CASE client.epoch = 0  BY <1>1, ObserverKept
<1>2. CASE client.epoch # 0
  <2> DEFINE again == link.retained # 0 /\ client.pending = link.retained
             revoked == again /\ slot.lease.pending # link.retained
             first == ~again /\ slot.queue # <<>>
  <2>1. Finish(client) /\ slot.stage = "accepting" /\ Attached
        /\ UNCHANGED <<people, holder, toClient, fate, faults>>
    BY <1>2 DEF Accept
  <2>2. /\ slot' = NoSlot /\ touched' = FALSE
        /\ link' = [link EXCEPT !.reset = IF revoked THEN "releasing" ELSE "no",
                                !.queue = IF first THEN Tail(slot.queue) ELSE slot.queue]
        /\ client' = IF first THEN [client EXCEPT !.pending = Head(slot.queue), !.next = @ + 1]
                     ELSE client
        /\ IF revoked THEN Send(Frame("release", client.epoch, client.token, 0))
           ELSE IF again THEN Send(InputFrame(client, client.pending))
           ELSE IF first THEN Send(Frame("input", client.epoch, client.next, Head(slot.queue)))
           ELSE UNCHANGED toHolder
    BY <2>1 DEF Finish
  <2>3. /\ link' \in LinkStates /\ link'.retained = link.retained
        /\ link'.reset = (IF revoked THEN "releasing" ELSE "no")
        /\ link'.queue = (IF first THEN Tail(slot.queue) ELSE slot.queue)
    <3>1. /\ link \in LinkStates /\ slot.queue \in Seq(Item)
      BY DEF IInv, Typed, Slots
    <3>2. slot.queue # <<>> => Tail(slot.queue) \in Seq(Item)  BY <3>1
    <3> DEFINE q == IF first THEN Tail(slot.queue) ELSE slot.queue
               r == IF revoked THEN "releasing" ELSE "no"
    <3>3. q \in Seq(Item) /\ r \in Resets  BY <3>1, <3>2 DEF Resets
    <3>4. link' = [link EXCEPT !.reset = r, !.queue = q]  BY <2>2
    <3>5. link' \in LinkStates /\ link'.retained = link.retained /\ link'.reset = r /\ link'.queue = q
      <4> HIDE DEF q, r
      <4> QED  BY <3>1, <3>3, <3>4 DEF LinkStates
    <3> QED  BY <3>5
  <2>4. Adopted
    BY <1>2, <2>1, <2>2, <2>3 DEF Adopted, Recovering
  <2>5. CASE revoked  BY <2>2, <2>3, <2>4, <2>5, RevokedKept
  <2>6. CASE again /\ ~revoked
    <3>1. client.pending # 0  BY <2>6
    <3> QED  BY <2>2, <2>3, <2>4, <2>6, <3>1, AgainKept
  <2>7. CASE ~again
    <3>1. PICK v : v = client  OBVIOUS
    <3>2. link'.reset = "no"  BY <2>3, <2>7
    <3>3. Resting(v, 0) /\ 0 \in {0, 1}  BY <2>4, <3>1, <3>2, AdoptedRests
    <3>4. CASE first
      <4>1. /\ link'.queue = Tail(slot.queue) /\ slot.queue # <<>>
            /\ client' = [v EXCEPT !.pending = Head(slot.queue), !.next = @ + 1]
            /\ Send(Frame("input", v.epoch, v.next, Head(slot.queue)))
        BY <2>2, <2>3, <2>7, <3>1, <3>4
      <4> HIDE DEF again, revoked, first
      <4>2. PICK t \in {0, 1} : t = 0  OBVIOUS
      <4>3. Resting(v, t)  BY <3>3, <4>2
      <4> QED  BY Zenon, <4>1, <4>3, FirstKept
    <3>5. CASE ~first
      <4>1. /\ link'.queue = slot.queue /\ slot.queue = <<>> /\ client' = v
            /\ toHolder' = toHolder
        BY <2>2, <2>3, <2>7, <3>1, <3>5
      <4> QED  BY <3>3, <4>1, NoneKept
    <3> QED  BY <3>4, <3>5
  <2> QED  BY <2>5, <2>6, <2>7
<1> QED  BY <1>1, <1>2

(* The observer got the lease. *)
LEMMA AcquiredKept ==
  ASSUME IInv, LeaseAcquired
  PROVE  IInv' /\ NotSent
<1>1. CASE ~Head(toClient).ok  BY <1>1, NoLeaseKept
<1>2. CASE Head(toClient).ok
  <2>1. /\ Incoming("acquired") /\ slot.stage = "leasing" /\ toClient' = Tail(toClient)
        /\ UNCHANGED <<people, holder, fate, faults>>
    BY DEF LeaseAcquired
  <2>2. /\ toClient' \in Seq(Answers) /\ Heard(1) /\ Head(toClient) = toClient[1]
        /\ toClient[1] \in Answers /\ 1 \in 1..Len(toClient) /\ toClient[1].kind = "acquired"
        /\ 1 \in Told(Grants) /\ 1 \in Told({"attached", "acquired"})
        /\ Told(Grants)' = {} /\ Reaction(toClient[1])
    <3>1. "acquired" \in Grants /\ "acquired" \in {"attached", "acquired"}  BY DEF Grants
    <3>2. \A K : "acquired" \in K => 1 \in Told(K)  BY <2>1, AnswerIs DEF IInv
    <3> QED  BY <2>1, <3>1, <3>2, AnswerIs DEF IInv
  <2>3. PICK e \in Nat : e = toClient[1].epoch  BY <2>2 DEF Answers
  <2>4. PICK n \in Nat : n = toClient[1].n  BY <2>2 DEF Answers
  <2>5. /\ e # 0 /\ Attached /\ client.epoch = 0 /\ Recovering /\ link.queue = <<>>
        /\ link.reset = "no" /\ client.pending = 0 /\ client.asked = 0 /\ client.phase = "attached"
        /\ Open
    BY <1>2, <2>1, <2>2, <2>3 DEF Reaction, IInv, Staged, Recovering, Attached, Open
  <2>6. PICK v : v = [client EXCEPT !.epoch = e, !.token = n, !.next = 1]  OBVIOUS
  <2>7. /\ v \in Clients /\ v.conn = client.conn /\ v.phase = "attached" /\ v.resume = client.resume
        /\ v.asked = 0 /\ v.pending = 0 /\ v.epoch = e /\ v.next = 1
    <3>1. client \in Clients  BY DEF IInv, Typed
    <3>2. 1 \in Nat \ {0}  OBVIOUS
    <3> QED  BY ONLY <2>3, <2>4, <2>5, <2>6, <3>1, <3>2 DEF Clients
  <2>8. Finish(v)
    <3>1. Finish([client EXCEPT !.epoch = Head(toClient).epoch, !.token = Head(toClient).n, !.next = 1])
      BY <1>2 DEF LeaseAcquired
    <3>2. v = [client EXCEPT !.epoch = Head(toClient).epoch, !.token = Head(toClient).n, !.next = 1]
      BY <2>2, <2>3, <2>4, <2>6
    <3> QED  BY <3>1, <3>2
  <2>9. ~(link.retained # 0 /\ v.pending = link.retained)  BY <2>7
  <2>10. /\ slot' = NoSlot /\ touched' = FALSE
         /\ link' = [link EXCEPT !.reset = "no",
                                 !.queue = IF slot.queue # <<>> THEN Tail(slot.queue) ELSE slot.queue]
         /\ slot.queue # <<>> => /\ client' = [v EXCEPT !.pending = Head(slot.queue), !.next = @ + 1]
                                 /\ Send(Frame("input", v.epoch, v.next, Head(slot.queue)))
         /\ slot.queue = <<>> => client' = v /\ toHolder' = toHolder
    BY <2>8, <2>9 DEF Finish
  <2>11. /\ link' \in LinkStates /\ link'.retained = link.retained /\ link'.reset = "no"
         /\ link'.queue = IF slot.queue # <<>> THEN Tail(slot.queue) ELSE slot.queue
    <3> DEFINE q == IF slot.queue # <<>> THEN Tail(slot.queue) ELSE slot.queue
    <3>1. /\ link \in LinkStates /\ slot.queue \in Seq(Item)
      BY DEF IInv, Typed, Slots
    <3>2. q \in Seq(Item)  BY <3>1
    <3>3. link' = [link EXCEPT !.reset = "no", !.queue = q]  BY <2>10
    <3>4. link' \in LinkStates /\ link'.retained = link.retained /\ link'.reset = "no" /\ link'.queue = q
      <4> HIDE DEF q
      <4> QED  BY <3>1, <3>2, <3>3 DEF LinkStates, Resets
    <3> QED  BY <3>4
  <2>12. /\ HolderStill /\ made' = made /\ hidden' = hidden /\ ended' = ended /\ fate' = fate
         /\ faults' = faults
    BY <2>1 DEF HolderStill, holder, people
  <2>13. Fits(v)
    <3>1. PICK u : u = [epoch |-> toClient[1].epoch, next |-> 1, pending |-> 0]  OBVIOUS
    <3>2. Fits(u)  BY <2>2, <2>5, <3>1, AcquiredFits DEF IInv
    <3>3. u.epoch = v.epoch /\ u.next = v.next /\ u.pending = v.pending  BY <2>3, <2>7, <3>1
    <3> QED  BY <3>2, <3>3 DEF Fits
  <2>14. lease.owner = client.conn => lease.epoch = v.epoch
    BY <2>2, <2>3, <2>5, <2>7 DEF IInv, Epochs
  <2>15. InputsOf(client.conn) = {} /\ Asking = {} /\ Giving = {} /\ Told({"released"}) = {}
    BY <2>2, <2>5, NothingAsked, NothingGiven DEF IInv, Questions
  <2>16. \A k \in Told({"receipt"}) : toClient[k].epoch # v.epoch
    BY <2>2, <2>3, <2>5, <2>7 DEF IInv, Receipted
  <2>17. \E k \in 1..Len(toClient) : v.epoch = toClient[k].epoch  BY <2>2, <2>3, <2>7
  <2>18. PICK t \in {0, 1} : t = 1  OBVIOUS
  <2>19. Resting(v, t)
    BY <2>2, <2>5, <2>7, <2>10, <2>11, <2>12, <2>13, <2>14, <2>15, <2>16, <2>17, <2>18 DEF Resting
  <2>20. CASE slot.queue # <<>>
    <3>1. /\ link'.queue = Tail(slot.queue)
          /\ client' = [v EXCEPT !.pending = Head(slot.queue), !.next = @ + 1]
          /\ Send(Frame("input", v.epoch, v.next, Head(slot.queue)))
      BY <2>10, <2>11, <2>20
    <3> QED  BY Zenon, <2>19, <2>20, <3>1, FirstKept
  <2>21. CASE slot.queue = <<>>
    <3>1. link'.queue = slot.queue /\ client' = v /\ toHolder' = toHolder
      BY <2>10, <2>11, <2>21
    <3> QED  BY Zenon, <2>19, <2>21, <3>1, NoneKept
  <2> QED  BY <2>20, <2>21
<1> QED  BY <1>1, <1>2

-----------------------------------------------------------------------------
(* flushQueue: the old inputs are reported, the next one goes out. *)

FlushedTo(told, r, S, q) ==
  /\ S \subseteq ItemsOf(link.queue) /\ faults' \in Nat
  /\ fate' = [i \in Inputs |-> IF i \in S THEN "dropped" ELSE told[i]]
  /\ link' \in LinkStates /\ link'.queue = q /\ link'.reset = r
  /\ link'.retained = link.retained
  /\ Increasing(q) /\ ItemsOf(q) \subseteq ItemsOf(link.queue) \ S
Flushed(v, told, r, S, q) ==
  /\ FlushedTo(told, r, S, q)
  /\ \/ q = <<>> /\ client' = v /\ toHolder' = toHolder
     \/ /\ link.queue # <<>>
        /\ \E i \in ItemsOf(link.queue) \ S :
             /\ \A x \in ItemsOf(q) : i < x
             /\ client' = [v EXCEPT !.pending = i, !.next = @ + 1]
             /\ Send(Frame("input", v.epoch, v.next, i))

LEMMA FlushIs ==
  ASSUME Typed, InOrder, NEW v, NEW told, NEW r \in Resets, Flush(v, told, r)
  PROVE  \E S, q : Flushed(v, told, r, S, q)
<1>1. PICK p \in Seq(Item) : p = link.queue  BY DEF Typed, LinkStates
<1>2. Increasing(p) /\ ItemsOf(p) \subseteq Waiting
  BY <1>1 DEF InOrder, Increasing, ItemsOf, Waiting
<1>3. PICK n \in 0..Len(link.queue) :
        LET rest == SubSeq(link.queue, n + 1, Len(link.queue))
            old == {link.queue[k] : k \in 1..n} IN
        /\ faults + n <= MaxFaults /\ faults' = faults + n
        /\ fate' = [i \in Inputs |-> IF i \in old THEN "dropped" ELSE told[i]]
        /\ link' = [link EXCEPT !.queue = IF rest = <<>> THEN <<>> ELSE Tail(rest), !.reset = r]
        /\ IF rest = <<>>
           THEN client' = v /\ UNCHANGED toHolder
           ELSE /\ client' = [v EXCEPT !.pending = Head(rest), !.next = @ + 1]
                /\ Send(Frame("input", v.epoch, v.next, Head(rest)))
  BY Zenon DEF Flush
<1>4. PICK rest \in Seq(Item) : rest = SubSeq(p, n + 1, Len(p)) /\ n \in 0..Len(p)
  <2>1. n \in 0..Len(p)  BY <1>1
  <2> QED  BY <1>2, <2>1, QueueSkips
<1>5. PICK S : S = {p[k] : k \in 1..n}  OBVIOUS
<1>6. /\ ItemsOf(rest) \subseteq ItemsOf(p) /\ Increasing(rest)
      /\ \A k \in 1..n : p[k] \in ItemsOf(p) /\ \A x \in ItemsOf(rest) : p[k] < x
  BY <1>2, <1>4, QueueSkips
<1>7. S \subseteq ItemsOf(p) /\ ItemsOf(rest) \cap S = {}
  <2>1. S \subseteq ItemsOf(p)  BY <1>5, <1>6
  <2>2. ItemsOf(rest) \subseteq Int
    <3>1. Item \subseteq Int  BY Bounds
    <3>2. ASSUME NEW k \in 1..Len(rest) PROVE rest[k] \in Int
      <4>1. rest[k] \in Item  BY <1>4
      <4> QED  BY <3>1, <4>1
    <3> QED  BY <3>2 DEF ItemsOf
  <2>3. ASSUME NEW x \in ItemsOf(rest), x \in S PROVE FALSE
    <3>1. x < x  BY <1>5, <1>6, <2>3
    <3> QED  BY <2>2, <3>1
  <2> QED  BY <2>1, <2>3
<1>8. /\ faults' = faults + n
      /\ fate' = [i \in Inputs |-> IF i \in S THEN "dropped" ELSE told[i]]
      /\ link' = [link EXCEPT !.queue = IF rest = <<>> THEN <<>> ELSE Tail(rest), !.reset = r]
      /\ rest = <<>> => client' = v /\ toHolder' = toHolder
      /\ rest # <<>> => /\ client' = [v EXCEPT !.pending = Head(rest), !.next = @ + 1]
                        /\ Send(Frame("input", v.epoch, v.next, Head(rest)))
  BY Zenon, <1>1, <1>3, <1>4, <1>5
<1>9. faults' \in Nat
  <2>1. faults \in Nat /\ n \in Nat  BY DEF Typed
  <2> QED  BY <1>8, <2>1
<1>10. PICK q \in Seq(Item) :
         /\ q = IF rest = <<>> THEN <<>> ELSE Tail(rest)
         /\ Increasing(q) /\ ItemsOf(q) \subseteq ItemsOf(rest)
         /\ rest # <<>> => Head(rest) \in ItemsOf(rest) /\ \A x \in ItemsOf(q) : Head(rest) < x
  <2>1. CASE rest = <<>>  BY <2>1, EmptyQueue
  <2>2. CASE rest # <<>>  BY <1>6, <2>2, QueueDrops
  <2> QED  BY <2>1, <2>2
<1>11. link' \in LinkStates /\ link'.queue = q /\ link'.reset = r /\ link'.retained = link.retained
  <2>1. link' = [link EXCEPT !.queue = q, !.reset = r]  BY <1>8, <1>10
  <2> QED  BY <2>1 DEF Typed, LinkStates
<1>12. S \subseteq ItemsOf(link.queue) /\ ItemsOf(q) \subseteq ItemsOf(link.queue) \ S
  BY <1>1, <1>2, <1>6, <1>7, <1>10
<1>13. CASE rest = <<>>
  <2>1. q = <<>> /\ client' = v /\ toHolder' = toHolder  BY <1>8, <1>10, <1>13
  <2>2. Flushed(v, told, r, S, q)
    BY Zenon, <1>8, <1>9, <1>10, <1>11, <1>12, <2>1 DEF Flushed, FlushedTo
  <2> QED  BY <2>2
<1>14. CASE rest # <<>>
  <2>1. PICK i : i = Head(rest)  OBVIOUS
  <2>2. /\ i \in ItemsOf(link.queue) \ S /\ \A x \in ItemsOf(q) : i < x
        /\ client' = [v EXCEPT !.pending = i, !.next = @ + 1]
        /\ Send(Frame("input", v.epoch, v.next, i))
    BY <1>1, <1>6, <1>7, <1>8, <1>10, <1>14, <2>1
  <2>3. link.queue # <<>>
    <3>1. ItemsOf(link.queue) # {}  BY <2>2
    <3>2. link.queue = <<>> => ItemsOf(link.queue) = ItemsOf(<<>>)  OBVIOUS
    <3> QED  BY <3>1, <3>2, EmptyQueue
  <2>4. Flushed(v, told, r, S, q)
    BY Zenon, <1>8, <1>9, <1>10, <1>11, <1>12, <2>2, <2>3 DEF Flushed, FlushedTo
  <2> QED  BY <2>4
<1> QED  BY <1>13, <1>14

(* A step of an attached link that hears an answer and then flushes. *)
Flushing(v, told, r) ==
  /\ HolderStill /\ made' = made /\ hidden' = hidden /\ ended' = ended /\ slot' = slot
  /\ touched' = touched /\ toClient' \in Seq(Answers) /\ Heard(1)
  /\ Open /\ ~slot.observer /\ (r = "no" \/ ~Recovering)
  /\ v \in Clients /\ v.conn = client.conn /\ v.phase = "attached" /\ v.resume = client.resume
  /\ v.asked = 0 /\ v.pending = 0 /\ v.epoch # 0 /\ Fits(v)
  /\ lease.owner = client.conn => lease.epoch = v.epoch
  /\ v.epoch = client.epoch \/ \E k \in 1..Len(toClient) : v.epoch = toClient[k].epoch
  /\ InputsOf(client.conn) = {} \/ v.next = client.next
  /\ \A k \in Told({"receipt"}) : toClient[k].epoch = v.epoch => toClient[k].n < v.next
  /\ told \in [Inputs -> Fates]
  /\ \A i \in Inputs : told[i] # fate[i] =>
       /\ told[i] \in {"yes", "no"} /\ i <= Len(made) /\ i # slot.lease.pending
       /\ i \notin Waiting
       /\ told[i] = "no" => i \notin ItemsOf(written) /\ ~OnWire(i)
       /\ told[i] = "yes" => i \in ItemsOf(written)
Flushable(v, r) ==
  /\ client'.conn = v.conn /\ client'.phase = v.phase /\ client'.epoch = v.epoch
  /\ link'.reset = r
  /\ toHolder' = toHolder \/ \E f \in Frames : f.kind = "input" /\ More(client.conn, f)

(* Nothing waits any more. *)
LEMMA FlushedNone ==
  ASSUME IInv, NEW v, NEW told, NEW r \in Resets, NEW S, NEW q,
         Flushing(v, told, r), FlushedTo(told, r, S, q), Typed', Questions',
         Receipted', q = <<>>, client' = v, toHolder' = toHolder,
         \A i \in Inputs : fate'[i] # fate[i] /\ fate'[i] # "withdrawn" =>
           /\ i <= Len(made) /\ i \notin Waiting' /\ i \notin {0, slot.lease.pending}
           /\ fate'[i] = "no" => i \notin ItemsOf(written) /\ ~OnWire(i)
           /\ fate'[i] = "yes" => i \in ItemsOf(written)
  PROVE  IInv' /\ NotSent
<1>1. /\ HolderStill /\ made' = made /\ ended' = ended /\ Heard(1) /\ 1 \in {0, 1}
      /\ client'.conn = client.conn /\ client'.phase = "attached" /\ slot' = slot
      /\ client'.resume = client.resume /\ client'.asked = 0 /\ client'.epoch # 0
      /\ client'.pending = 0 /\ link'.reset = r /\ link'.retained = link.retained
      /\ client'.next = v.next /\ v.next \in Nat /\ Open /\ v.epoch # 0
      /\ link'.queue = q /\ ~slot.observer
  BY DEF Flushing, FlushedTo, Clients
<1>2. Staged'
  <2>1. Attached'  BY <1>1 DEF Attached
  <2> QED  BY <1>1, <2>1 DEF Staged, Recovering, Flushing, IInv
<1>3. Epochs'
  <2>1. \A e \in {client'.epoch, client'.resume.epoch, slot'.lease.epoch} :
          \/ e = 0 \/ e \in {client.epoch, client.resume.epoch, slot.lease.epoch}
          \/ \E k \in 1..Len(toClient) : e = toClient[k].epoch
    BY <1>1 DEF Flushing
  <2>2. lease.owner = client'.conn /\ client'.epoch # 0 => client'.epoch = lease.epoch
    BY <1>1 DEF Flushing
  <2> QED  BY <1>1, <2>1, <2>2, EpochsDesk DEF IInv
<1>4. /\ Waiting' \subseteq Waiting /\ Increasing(slot.queue)' /\ Increasing(link.queue)'
  <2>1. Waiting' \subseteq Waiting  BY <1>1, EmptyQueue DEF Waiting, FlushedTo, ItemsOf
  <2>2. Increasing(slot.queue)'  BY <1>1 DEF IInv, InOrder, Increasing
  <2>3. Increasing(link.queue)'  BY <1>1 DEF FlushedTo, Increasing
  <2> QED  BY <2>1, <2>2, <2>3
<1>5. Pending' \subseteq Pending \cup {0}  BY <1>1 DEF Pending
<1>6. From(client')  BY DEF From, Flushing
<1>7. Wire({})  BY DEF Wire
<1>8. \/ InputsOf(client.conn)' = {}
      \/ client'.conn = client.conn /\ Open /\ client.next <= client'.next /\ client'.next \in Nat
  <2>1. CASE InputsOf(client.conn) = {}  BY <1>1, <2>1 DEF InputsOf, AtOf
  <2>2. CASE v.next = client.next  BY <1>1, <2>2
  <2> QED  BY <2>1, <2>2 DEF Flushing
<1>9. Recovering' => From(slot'.lease)
  BY <1>1 DEF From, Recovering, IInv, Fitting
<1>10. link'.retained <= Len(made) /\ client'.resume.pending <= Len(made)
  BY <1>1 DEF IInv, InOrder
<1>11. \A i \in Inputs : fate'[i] # fate[i] /\ fate'[i] # "withdrawn" =>
           /\ fate'[i] \in {"dropped", "no"} => i <= Len(made) /\ i \notin Waiting' /\ i \notin Pending'
           /\ fate'[i] = "no" => i \notin ItemsOf(written) /\ ~OnWire(i)'
           /\ fate'[i] = "yes" => i \in ItemsOf(written)
  <2>1. \A i : OnWire(i)' <=> OnWire(i)  BY <1>1 DEF OnWire, HolderStill
  <2>2. Pending' \subseteq {0, slot.lease.pending}  BY <1>1 DEF Pending
  <2> QED  BY <2>1, <2>2
<1> QED  BY <1>1, <1>2, <1>3, <1>4, <1>5, <1>6, <1>7, <1>8, <1>9, <1>10, <1>11, DeskKept

(* The next one goes out. *)
LEMMA FlushedNext ==
  ASSUME IInv, NEW v, NEW told, NEW r \in Resets, NEW S, NEW q,
         Flushing(v, told, r), FlushedTo(told, r, S, q), Typed', Questions', Receipted',
         NEW f \in Frames, f.kind = "input", More(client.conn, f), f.epoch = v.epoch, f.n = v.next,
         link.queue # <<>>, f.item \in ItemsOf(link.queue), f.item # 0,
         \A x \in ItemsOf(q) : f.item < x,
         client'.conn = client.conn, client'.phase = "attached", client'.resume = client.resume,
         client'.epoch = v.epoch, client'.next = v.next + 1, client'.pending = f.item,
         client'.asked = 0,
         \A i \in Inputs : fate'[i] # fate[i] /\ fate'[i] # "withdrawn" =>
           /\ i <= Len(made) /\ i \notin ItemsOf(q) /\ i # f.item
           /\ fate'[i] = "no" => i \notin ItemsOf(written) /\ ~OnWire(i)'
           /\ fate'[i] = "yes" => i \in ItemsOf(written)
  PROVE  IInv' /\ NotSent
<1>1. /\ HolderStill /\ made' = made /\ ended' = ended /\ Heard(1) /\ 1 \in {0, 1} /\ slot' = slot
      /\ link'.retained = link.retained /\ v.next \in Nat /\ v.epoch # 0 /\ Open /\ Fits(v)
      /\ link'.queue = q
      /\ lease.owner = client.conn => lease.epoch = v.epoch
      /\ v.epoch = client.epoch \/ \E k \in 1..Len(toClient) : v.epoch = toClient[k].epoch
  BY DEF Flushing, FlushedTo, Clients
<1>2. /\ slot'.stage = "none" /\ slot'.queue = <<>> /\ slot'.lease.pending = 0 /\ ~slot'.observer
      /\ slot'.lease.epoch \in {0, slot.lease.epoch}
  BY <1>1 DEF IInv, Staged, Recovering
<1>3. /\ f.item \in Waiting /\ f.item <= Len(made') /\ Len(made) <= Len(made')
      /\ link'.retained <= Len(made')
  <2>1. Len(made) \in Nat  BY Elements DEF IInv
  <2> QED  BY <1>1, <2>1 DEF IInv, InOrder, Waiting
<1>4. \A k \in InputsOf(client.conn) : toHolder[client.conn][k].n < v.next
  <2>1. CASE InputsOf(client.conn) = {}  BY <2>1
  <2>2. CASE v.next = client.next  BY <1>1, <2>2 DEF IInv, Numbered
  <2> QED  BY <2>1, <2>2 DEF Flushing
<1>5. ItemsOf(link.queue)' = ItemsOf(q) /\ (Increasing(link.queue)' <=> Increasing(q))
  BY <1>1 DEF ItemsOf, Increasing
<1>6. (\A x \in ItemsOf(link.queue)' : x \in Waiting /\ f.item < x) /\ Increasing(link.queue)'
  <2>1. ItemsOf(q) \subseteq ItemsOf(link.queue) /\ Increasing(q)  BY DEF FlushedTo
  <2>2. ItemsOf(q) \subseteq Waiting  BY <2>1 DEF Waiting
  <2> QED  BY <1>5, <2>1, <2>2
<1>7. \A i \in Inputs : fate'[i] # fate[i] /\ fate'[i] # "withdrawn" =>
           /\ fate'[i] \in {"dropped", "no"} =>
                i <= Len(made') /\ i \notin ItemsOf(link.queue)' /\ i # f.item
           /\ fate'[i] = "no" => i \notin ItemsOf(written) /\ ~OnWire(i)'
           /\ fate'[i] = "yes" => i \in ItemsOf(written)
  BY <1>1, <1>5
<1>8. Telling'  BY TellingNone
<1> QED  BY <1>1, <1>2, <1>3, <1>4, <1>6, <1>7, <1>8, SendKept

(* What is not under way is not, when something else is sent. *)
LEMMA WireUnsent ==
  ASSUME Typed, NEW c \in Links, NEW f, More(c, f), ended' = ended, writer' = writer,
         NEW i, ~OnWire(i), f.item # i
  PROVE  ~OnWire(i)'
<1> SUFFICES ASSUME NEW d \in Links \ ended, NEW k \in 1..Len(toHolder'[d]),
                    toHolder'[d][k].kind = "input", toHolder'[d][k].item = i
             PROVE  FALSE
  BY DEF OnWire
<1>1. PICK K : K = {"input"}  OBVIOUS
<1>2. k \in AtOf(d, K)'  BY <1>1 DEF AtOf
<1>3. \/ k \in AtOf(d, K) /\ toHolder'[d][k] = toHolder[d][k]
      \/ toHolder'[d][k] = f
  BY <1>2, MoreAt
<1> QED  BY <1>1, <1>3 DEF OnWire, AtOf

LEMMA FlushKept ==
  ASSUME IInv, NEW v, NEW told, NEW r \in Resets, Flushing(v, told, r), Flush(v, told, r),
         Flushable(v, r) => Questions'
  PROVE  IInv' /\ NotSent
<1>1. PICK S, q : Flushed(v, told, r, S, q)  BY Zenon, FlushIs DEF IInv
<1>2. FlushedTo(told, r, S, q)  BY Zenon, <1>1 DEF Flushed
<1>3. /\ S \subseteq ItemsOf(link.queue) /\ ItemsOf(q) \subseteq ItemsOf(link.queue) \ S
      /\ link' \in LinkStates /\ link'.queue = q /\ link'.reset = r /\ faults' \in Nat
      /\ fate' = [i \in Inputs |-> IF i \in S THEN "dropped" ELSE told[i]]
  BY <1>2 DEF FlushedTo
<1>4. /\ v \in Clients /\ v.conn = client.conn /\ v.phase = "attached" /\ v.asked = 0
      /\ v.resume = client.resume /\ v.epoch # 0 /\ slot' = slot /\ toClient' \in Seq(Answers)
      /\ told \in [Inputs -> Fates] /\ HolderStill /\ made' = made /\ hidden' = hidden
      /\ ended' = ended /\ touched' = touched /\ Heard(1) /\ 1 \in {0, 1}
  BY DEF Flushing
<1>5. fate' \in [Inputs -> Fates]  BY <1>3, <1>4 DEF Fates
<1>6. \A i \in ItemsOf(link.queue) : i \in Waiting /\ i # 0 /\ i <= Len(made) /\ i \in Item
  <2>1. link.queue \in Seq(Item)  BY DEF IInv, Typed, LinkStates
  <2>2. \A i \in ItemsOf(link.queue) : i \in Item  BY <2>1 DEF ItemsOf
  <2> QED  BY <2>2 DEF IInv, InOrder, Waiting
<1>7. link.queue # <<>> => ~Recovering /\ ItemsOf(slot.queue) = {} /\ slot.lease.pending = 0
  <2>1. link.queue # <<>> => ~Recovering /\ slot.queue = <<>> /\ slot.lease.pending = 0
    BY DEF IInv, Staged
  <2> QED  BY <2>1, EmptyQueue
<1>8. link.queue = <<>> => ItemsOf(link.queue) = {}
  <2>1. link.queue = <<>> => ItemsOf(link.queue) = ItemsOf(<<>>)  OBVIOUS
  <2> QED  BY <2>1, EmptyQueue
<1>9. ASSUME NEW i \in Inputs, fate'[i] # fate[i]
      PROVE  \/ fate'[i] = "dropped" /\ i \in S
             \/ fate'[i] = told[i] /\ told[i] # fate[i]
  BY <1>3, <1>9
<1>10. ASSUME NEW i \in Inputs, fate'[i] # fate[i]
       PROVE  /\ i <= Len(made) /\ i \notin ItemsOf(q) /\ i \notin {0, slot.lease.pending}
              /\ i \in S \/ i \notin Waiting
              /\ fate'[i] = "no" => i \notin ItemsOf(written) /\ ~OnWire(i)
              /\ fate'[i] = "yes" => i \in ItemsOf(written)
  <2>0. i # 0  BY Bounds
  <2>1. CASE fate'[i] = "dropped" /\ i \in S
    <3>1. i \in ItemsOf(link.queue) /\ i \notin ItemsOf(q)  BY <1>3, <2>1
    <3>2. i <= Len(made) /\ link.queue # <<>>  BY <1>6, <1>8, <3>1
    <3>3. slot.lease.pending = 0  BY <1>7, <3>2
    <3> QED  BY ONLY <2>0, <2>1, <3>1, <3>2, <3>3
  <2>2. CASE fate'[i] = told[i] /\ told[i] # fate[i]
    <3>1. /\ i <= Len(made) /\ i # slot.lease.pending /\ i \notin Waiting
          /\ told[i] = "no" => i \notin ItemsOf(written) /\ ~OnWire(i)
          /\ told[i] = "yes" => i \in ItemsOf(written)
      BY <2>2 DEF Flushing
    <3> QED  BY <1>3, <1>6, <2>0, <2>2, <3>1
  <2> QED  BY <1>9, <1>10, <2>1, <2>2
<1>11. ASSUME client' \in Clients, toHolder' \in [Links -> Seq(Frames)] PROVE Typed'
  BY <1>3, <1>4, <1>5, <1>11 DEF IInv, Typed, HolderStill
<1>12. \A k \in Told({"receipt"}) : toClient[k].epoch = v.epoch => /\ toClient[k].n < v.next
                                                                  /\ toClient[k].n < v.next + 1
  <2> SUFFICES ASSUME NEW k \in Told({"receipt"}), toClient[k].epoch = v.epoch
               PROVE  toClient[k].n < v.next /\ toClient[k].n < v.next + 1
    OBVIOUS
  <2>1. toClient[k].n < v.next  BY DEF Flushing
  <2>2. toClient[k] \in Answers  BY Elements DEF IInv, Told
  <2>3. toClient[k].n \in Nat /\ v.next \in Nat  BY <1>4, <2>2 DEF Answers, Clients
  <2> QED  BY <2>1, <2>3
<1>13. CASE q = <<>> /\ client' = v /\ toHolder' = toHolder
  <2>1. Typed'
    <3>1. toHolder \in [Links -> Seq(Frames)]  BY DEF IInv, Typed
    <3> QED  BY <1>4, <1>11, <1>13, <3>1
  <2>2. Flushable(v, r)  BY <1>3, <1>13 DEF Flushable
  <2>3. Receipted'
    <3>1. \A k \in Told({"receipt"}) : toClient[k].epoch = client'.epoch => toClient[k].n < client'.next
      BY <1>12, <1>13
    <3> QED  BY <1>4, <1>13, <3>1, ReceiptedEpoch DEF IInv
  <2>4. Waiting' = ItemsOf(slot.queue)
    <3>1. ItemsOf(link.queue)' = {}
      <4>1. ItemsOf(link.queue)' = ItemsOf(<<>>)  BY <1>3, <1>13 DEF ItemsOf
      <4> QED  BY <4>1, EmptyQueue
    <3>2. ItemsOf(slot.queue)' = ItemsOf(slot.queue)  BY <1>4 DEF ItemsOf
    <3> QED  BY <3>1, <3>2 DEF Waiting
  <2>5. \A i \in Inputs : fate'[i] # fate[i] /\ fate'[i] # "withdrawn" =>
           /\ i <= Len(made) /\ i \notin Waiting' /\ i \notin {0, slot.lease.pending}
           /\ fate'[i] = "no" => i \notin ItemsOf(written) /\ ~OnWire(i)
           /\ fate'[i] = "yes" => i \in ItemsOf(written)
    <3> SUFFICES ASSUME NEW i \in Inputs, fate'[i] # fate[i] PROVE i \notin Waiting'
      BY <1>10
    <3>1. CASE i \in S  BY <1>3, <1>7, <1>8, <2>4, <3>1
    <3>2. CASE i \notin S  BY <1>10, <2>4, <3>2 DEF Waiting
    <3> QED  BY <3>1, <3>2
  <2> QED  BY <1>2, <1>13, <2>1, <2>2, <2>3, <2>5, FlushedNone
<1>14. CASE /\ link.queue # <<>>
            /\ \E i \in ItemsOf(link.queue) \ S :
                 /\ \A x \in ItemsOf(q) : i < x
                 /\ client' = [v EXCEPT !.pending = i, !.next = @ + 1]
                 /\ Send(Frame("input", v.epoch, v.next, i))
  <2>1. PICK i \in ItemsOf(link.queue) \ S :
          /\ \A x \in ItemsOf(q) : i < x
          /\ client' = [v EXCEPT !.pending = i, !.next = @ + 1]
          /\ Send(Frame("input", v.epoch, v.next, i))
    BY Zenon, <1>14
  <2>2. i \in Item /\ i # 0 /\ v.epoch \in Nat /\ v.next \in Nat  BY <1>4, <1>6 DEF Clients
  <2>3. PICK f \in Frames : /\ f = Frame("input", v.epoch, v.next, i) /\ f.kind = "input"
                            /\ f.epoch = v.epoch /\ f.n = v.next /\ f.item = i
    <3>1. "input" \in FrameKinds  BY Kinds
    <3> QED  BY <2>2, <3>1, FrameIs
  <2>4. PICK c \in Links : c = client.conn  BY DEF IInv, Typed, Clients
  <2>5. toHolder' \in [Links -> Seq(Frames)] /\ More(c, f) /\ More(client.conn, f)
    BY <2>1, <2>3, <2>4, SendIs DEF IInv
  <2>6. PICK n \in Nat \ {0} : n = v.next + 1  BY <2>2
  <2>7. /\ client' \in Clients /\ client'.conn = client.conn /\ client'.phase = "attached"
        /\ client'.resume = client.resume /\ client'.asked = 0 /\ client'.epoch = v.epoch
        /\ client'.next = n /\ client'.pending = i
    <3>1. client' = [v EXCEPT !.pending = i, !.next = n]  BY <2>1, <2>6
    <3> QED  BY ONLY <1>4, <2>2, <3>1 DEF Clients
  <2>8. Typed'  BY <1>11, <2>5, <2>7
  <2>9. Flushable(v, r)  BY <1>3, <1>4, <2>3, <2>5, <2>7 DEF Flushable
  <2>10. Receipted'
    <3>1. \A k \in Told({"receipt"}) : toClient[k].epoch = client'.epoch => toClient[k].n < client'.next
      BY <1>12, <2>6, <2>7
    <3> QED  BY <1>4, <2>7, <3>1, ReceiptedEpoch DEF IInv
  <2>11. \A j \in Inputs : fate'[j] # fate[j] /\ fate'[j] # "withdrawn" =>
           /\ j <= Len(made) /\ j \notin ItemsOf(q) /\ j # f.item
           /\ fate'[j] = "no" => j \notin ItemsOf(written) /\ ~OnWire(j)'
           /\ fate'[j] = "yes" => j \in ItemsOf(written)
    <3> SUFFICES ASSUME NEW j \in Inputs, fate'[j] # fate[j]
                 PROVE  j # f.item /\ (fate'[j] = "no" => ~OnWire(j)')
      BY <1>10
    <3>1. j # f.item  BY <1>6, <1>10, <2>1, <2>3
    <3>2. writer' = writer  BY <1>4 DEF HolderStill
    <3>3. ASSUME fate'[j] = "no" PROVE ~OnWire(j)'
      <4>1. ~OnWire(j)  BY <1>10, <3>3
      <4> QED  BY <1>4, <2>5, <3>1, <3>2, <4>1, WireUnsent DEF IInv
    <3> QED  BY <3>1, <3>3
  <2>12. client'.next = v.next + 1 /\ client'.pending = f.item  BY <2>3, <2>6, <2>7
  <2> QED  BY <1>2, <1>14, <2>1, <2>2, <2>3, <2>5, <2>7, <2>8, <2>9, <2>10, <2>11, <2>12, FlushedNext
<1> QED  BY Zenon, <1>1, <1>13, <1>14 DEF Flushed

(* The receipt of a prompt tells what became of it. *)
LEMMA VerdictIs ==
  ASSUME IInv, client.asked # 0, NEW k \in Mine
  PROVE  /\ client.asked \in Inputs /\ client.asked <= Len(made)
         /\ client.asked # slot.lease.pending /\ client.asked \notin Waiting
         /\ IF toClient[k].ok THEN client.asked \in ItemsOf(written)
            ELSE client.asked \notin ItemsOf(written) /\ ~OnWire(client.asked)
<1>1. PICK i \in Item : i = client.asked /\ i # 0  BY DEF IInv, Typed, Clients
<1>2. i = client.pending /\ slot.lease.pending = 0  BY <1>1 DEF IInv, Staged
<1>3. i <= Len(made) /\ \A q \in Waiting : i < q
  BY <1>2 DEF IInv, InOrder, Pending, BeforeWaiting
<1>4. i \in Inputs /\ i \in Int  BY <1>1, Bounds DEF Item, Inputs
<1>5. i \notin Waiting
  <2>1. ~(i < i)  BY <1>4
  <2> QED  BY <1>3, <2>1
<1>6. IF toClient[k].ok THEN i \in ItemsOf(written) ELSE i \notin Done
  BY <1>1 DEF IInv, Telling
<1>7. ASSUME i \notin Done PROVE i \notin ItemsOf(written) /\ ~OnWire(i)
  <2>1. i \notin ItemsOf(written) /\ \A n \in 1..Len(writer) : writer[n].item # i
    BY <1>7 DEF Done
  <2>2. ASSUME NEW c \in Links, NEW n \in 1..Len(toHolder[c]),
               toHolder[c][n].kind = "input", toHolder[c][n].item = i
        PROVE  FALSE
    <3>1. n \in InputsOf(c)  BY <2>2 DEF InputsOf, AtOf
    <3>2. Mine = {}  BY <1>1, <2>2, <3>1 DEF IInv, Telling
    <3> QED  BY <3>2
  <2> QED  BY <2>1, <2>2 DEF OnWire
<1> QED  BY <1>1, <1>2, <1>3, <1>4, <1>5, <1>6, <1>7

LEMMA ReceiptReadKept ==
  ASSUME IInv, ReceiptArrives
  PROVE  IInv' /\ NotSent
<1>1. PICK v : v = [client EXCEPT !.pending = 0, !.asked = 0]  OBVIOUS
<1>2. PICK r : r = link.reset  OBVIOUS
<1>3. PICK told : told = IF client.asked = 0 THEN fate
                         ELSE [fate EXCEPT ![client.asked] = IF Head(toClient).ok THEN "yes" ELSE "no"]
  OBVIOUS
<1>4. /\ Incoming("receipt") /\ toClient' = Tail(toClient)
      /\ UNCHANGED <<people, slot, holder, touched>> /\ Flush(v, told, r)
      /\ Expected(Head(toClient))
  BY Zenon, <1>1, <1>2, <1>3 DEF ReceiptArrives
<1>5. /\ toClient' \in Seq(Answers) /\ Heard(1) /\ Head(toClient) = toClient[1]
      /\ toClient[1] \in Answers /\ 1 \in 1..Len(toClient) /\ 1 \in Told({"receipt"})
  <2>1. /\ toClient' \in Seq(Answers) /\ Heard(1) /\ Head(toClient) = toClient[1]
        /\ toClient[1] \in Answers /\ 1 \in 1..Len(toClient)
        /\ \A K : "receipt" \in K => 1 \in Told(K)
    BY <1>4, AnswerIs DEF IInv
  <2> QED  BY <2>1
<1>6. /\ Attached /\ client.pending # 0 /\ toClient[1].epoch = client.epoch
      /\ toClient[1].n = client.next - 1 /\ client.epoch # 0
  BY <1>4, <1>5 DEF Expected, IInv, Staged
<1>7. /\ v \in Clients /\ v.conn = client.conn /\ v.phase = client.phase /\ v.resume = client.resume
      /\ v.asked = 0 /\ v.pending = 0 /\ v.epoch = client.epoch /\ v.next = client.next
  <2>1. client \in Clients /\ 0 \in Item  BY Bounds DEF IInv, Typed, Item
  <2> QED  BY ONLY <1>1, <2>1 DEF Clients
<1>8. /\ r \in Resets /\ (r = "no" \/ ~Recovering) /\ ~slot.observer /\ Open
  <2>1. link.reset \in Resets  BY DEF IInv, Typed, LinkStates
  <2> QED  BY <1>2, <1>6, <2>1 DEF IInv, Staged, Attached, Open
<1>9. Fits(v)  BY <1>7 DEF IInv, Fitting, Fits
<1>10. /\ lease.owner = client.conn => lease.epoch = v.epoch
       /\ \A k \in Told({"receipt"}) : toClient[k].epoch = v.epoch => toClient[k].n < v.next
  BY <1>6, <1>7 DEF IInv, Epochs, Receipted
<1>11. HolderStill /\ made' = made /\ hidden' = hidden /\ ended' = ended /\ slot' = slot
       /\ touched' = touched
  BY <1>4 DEF HolderStill, holder, people
<1>12. /\ told \in [Inputs -> Fates]
       /\ \A i \in Inputs : told[i] # fate[i] =>
            /\ told[i] \in {"yes", "no"} /\ i <= Len(made) /\ i # slot.lease.pending
            /\ i \notin Waiting
            /\ told[i] = "no" => i \notin ItemsOf(written) /\ ~OnWire(i)
            /\ told[i] = "yes" => i \in ItemsOf(written)
  <2>0. fate \in [Inputs -> Fates]  BY DEF IInv, Typed
  <2>1. CASE client.asked = 0  BY <1>3, <2>0, <2>1
  <2>2. CASE client.asked # 0
    <3>1. 1 \in Mine  BY <1>5, <1>6 DEF Mine, Latest
    <3>2. PICK w : w = IF toClient[1].ok THEN "yes" ELSE "no"  OBVIOUS
    <3>3. PICK a : a = client.asked  OBVIOUS
    <3>4. /\ a \in Inputs /\ a <= Len(made) /\ a # slot.lease.pending /\ a \notin Waiting
          /\ w = "no" => a \notin ItemsOf(written) /\ ~OnWire(a)
          /\ w = "yes" => a \in ItemsOf(written)
      BY <2>2, <3>1, <3>2, <3>3, VerdictIs
    <3>5. told = [fate EXCEPT ![a] = w]  BY <1>3, <1>5, <2>2, <3>2, <3>3
    <3>6. w \in {"yes", "no"} /\ w \in Fates  BY <3>2 DEF Fates
    <3>7. told \in [Inputs -> Fates] /\ told[a] = w /\ \A i \in Inputs : i # a => told[i] = fate[i]
      BY <2>0, <3>4, <3>5, <3>6
    <3> QED  BY <3>4, <3>6, <3>7
  <2> QED  BY <2>1, <2>2
<1>13. Flushing(v, told, r)
  BY <1>5, <1>6, <1>7, <1>8, <1>9, <1>10, <1>11, <1>12 DEF Flushing, Attached
<1>14. ASSUME Flushable(v, r) PROVE Questions'
  <2>1. /\ client'.conn = client.conn /\ Attached' /\ client'.epoch = client.epoch
        /\ link'.reset = link.reset
        /\ toHolder' = toHolder \/ \E f \in Frames : f.kind = "input" /\ More(client.conn, f)
    BY <1>2, <1>6, <1>7, <1>14 DEF Flushable, Attached
  <2>2. 1 \in {0, 1}  OBVIOUS
  <2> QED  BY <1>5, <1>6, <2>1, <2>2, QuestionsInput DEF IInv
<1> QED  BY Zenon, <1>4, <1>8, <1>13, <1>14, FlushKept

(* The lease that was given up has been replaced. *)
LEMMA ReplacedKept ==
  ASSUME IInv, ResetAcquired
  PROVE  IInv' /\ NotSent
<1>1. /\ Incoming("acquired") /\ link.reset = "acquiring" /\ Head(toClient).ok
      /\ toClient' = Tail(toClient) /\ UNCHANGED <<people, slot, holder, touched>>
  BY DEF ResetAcquired
<1>2. /\ toClient' \in Seq(Answers) /\ Heard(1) /\ Head(toClient) = toClient[1]
      /\ toClient[1] \in Answers /\ 1 \in 1..Len(toClient) /\ toClient[1].kind = "acquired"
      /\ 1 \in Told(Grants) /\ 1 \in Told({"attached", "acquired"})
      /\ Told(Grants)' = {} /\ Reaction(toClient[1])
  <2>1. "acquired" \in Grants /\ "acquired" \in {"attached", "acquired"}  BY DEF Grants
  <2>2. \A K : "acquired" \in K => 1 \in Told(K)  BY <1>1, AnswerIs DEF IInv
  <2> QED  BY <1>1, <2>1, <2>2, AnswerIs DEF IInv
<1>3. PICK e \in Nat : e = toClient[1].epoch  BY <1>2 DEF Answers
<1>4. PICK n \in Nat : n = toClient[1].n  BY <1>2 DEF Answers
<1>5. /\ e # 0 /\ Attached /\ client.epoch = 0 /\ ~Recovering /\ client.pending = 0
      /\ client.asked = 0 /\ client.phase = "attached" /\ Open /\ ~slot.observer
  BY <1>1, <1>2, <1>3 DEF Reaction, IInv, Staged, Attached, Open
<1>6. PICK v : v = [client EXCEPT !.epoch = e, !.token = n, !.next = 1]  OBVIOUS
<1>7. /\ v \in Clients /\ v.conn = client.conn /\ v.phase = "attached" /\ v.resume = client.resume
      /\ v.asked = 0 /\ v.pending = 0 /\ v.epoch = e /\ v.next = 1
  <2>1. client \in Clients  BY DEF IInv, Typed
  <2>2. 1 \in Nat \ {0}  OBVIOUS
  <2> QED  BY ONLY <1>3, <1>4, <1>5, <1>6, <2>1, <2>2 DEF Clients
<1>8. PICK r \in Resets : r = "no"  BY DEF Resets
<1>9. PICK told : told = fate  OBVIOUS
<1>10. Flush(v, told, r)
  <2>1. Flush([client EXCEPT !.epoch = Head(toClient).epoch, !.token = Head(toClient).n, !.next = 1],
              fate, "no")
    BY DEF ResetAcquired
  <2>2. v = [client EXCEPT !.epoch = Head(toClient).epoch, !.token = Head(toClient).n, !.next = 1]
    BY <1>2, <1>3, <1>4, <1>6
  <2> QED  BY Zenon, <1>8, <1>9, <2>1, <2>2
<1>11. Fits(v)
  <2>1. PICK u : u = [epoch |-> toClient[1].epoch, next |-> 1, pending |-> 0]  OBVIOUS
  <2>2. Fits(u)  BY <1>2, <1>5, <2>1, AcquiredFits DEF IInv
  <2>3. u.epoch = v.epoch /\ u.next = v.next /\ u.pending = v.pending  BY <1>3, <1>7, <2>1
  <2> QED  BY <2>2, <2>3 DEF Fits
<1>12. lease.owner = client.conn => lease.epoch = v.epoch
  BY <1>2, <1>3, <1>5, <1>7 DEF IInv, Epochs
<1>13. InputsOf(client.conn) = {} /\ Asking = {} /\ Giving = {} /\ Told({"released"}) = {}
  BY <1>1, <1>2, <1>5, NothingAsked, NothingGiven DEF IInv, Questions
<1>14. \A k \in Told({"receipt"}) : toClient[k].epoch # v.epoch
  BY <1>2, <1>3, <1>5, <1>7 DEF IInv, Receipted
<1>15. \E k \in 1..Len(toClient) : v.epoch = toClient[k].epoch  BY <1>2, <1>3, <1>7
<1>16. HolderStill /\ made' = made /\ hidden' = hidden /\ ended' = ended /\ slot' = slot
       /\ touched' = touched
  BY <1>1 DEF HolderStill, holder, people
<1>17. told \in [Inputs -> Fates]  BY <1>9 DEF IInv, Typed
<1>18. Flushing(v, told, r)
  BY <1>2, <1>5, <1>7, <1>8, <1>9, <1>11, <1>12, <1>13, <1>14, <1>15, <1>16, <1>17 DEF Flushing
<1>19. ASSUME Flushable(v, r) PROVE Questions'
  <2>1. PICK c \in Links : c = client.conn  BY DEF IInv, Typed, Clients
  <2>2. /\ client'.conn = c
        /\ \/ toHolder' = toHolder
           \/ \E f \in Frames : f.kind \notin Asks \cup {"release"} /\ More(c, f)
    BY <1>7, <1>19, <2>1 DEF Flushable, Asks
  <2>3. 1 \in {0, 1}  OBVIOUS
  <2> QED  BY <1>2, <1>13, <2>1, <2>2, <2>3, SilentOut DEF IInv
<1> QED  BY Zenon, <1>8, <1>10, <1>18, <1>19, FlushKept

-----------------------------------------------------------------------------
(* The theorems. *)

LEMMA InitIInv == Init => IInv
<1> SUFFICES ASSUME Init PROVE IInv
  OBVIOUS
<1>0. 1 \in Links  BY LinkAssumption DEF Links
<1>1. /\ SnapshotHas(NoSnapshot, 0, 0, 1, 0)
      /\ ClientHas(Closed(1), 1, "closed", NoSnapshot, 0, 0, 0, 1, 0)
      /\ LinkHas(NoLink, <<>>, 0, "no")
      /\ SlotHas(NoSlot, "none", <<>>, FALSE, FALSE) /\ NoSlot.lease = NoSnapshot
      /\ LeaseHas(FreeLease, 0, 0, 0, 0, 0, FALSE, 0)
  BY <1>0, Blank
<1>2. ClientHas(client, 1, "attached", NoSnapshot, 0, 1, 1, 1, 0)
  <2>1. client = [Closed(1) EXCEPT !.phase = "attached", !.epoch = 1, !.token = 1]  BY DEF Init
  <2>2. "attached" \in Phases  BY DEF Phases
  <2> QED  BY <1>1, <2>1, <2>2 DEF ClientHas, Clients
<1>3. LeaseHas(lease, 1, 1, 1, 0, 0, FALSE, 0)
  <2>1. lease = [FreeLease EXCEPT !.epoch = 1, !.owner = 1, !.token = 1]  BY DEF Init
  <2>2. 1 \in 0..Other  BY <1>0, Bounds
  <2> QED  BY <1>1, <2>1, <2>2 DEF LeaseHas, Leases
<1>4. /\ made = <<>> /\ hidden = {} /\ link = NoLink /\ slot = NoSlot /\ allocated = 1 /\ tokens = 1
      /\ toHolder = [c \in Links |-> <<>>] /\ toClient = <<>> /\ ended = {} /\ writer = <<>>
      /\ written = <<>> /\ fate = [i \in Inputs |-> "none"] /\ touched = FALSE /\ faults = 0
      /\ Len(made) = 0 /\ Len(toClient) = 0 /\ Len(writer) = 0 /\ Len(written) = 0
  BY DEF Init
<1>5. /\ client.conn = 1 /\ client.phase = "attached" /\ client.resume = NoSnapshot
      /\ client.asked = 0 /\ client.epoch = 1 /\ client.next = 1 /\ client.pending = 0
      /\ client.resume.epoch = 0 /\ client.resume.pending = 0
      /\ link.queue = <<>> /\ link.retained = 0 /\ link.reset = "no"
      /\ slot.stage = "none" /\ slot.queue = <<>> /\ ~slot.observer
      /\ slot.lease.pending = 0 /\ slot.lease.epoch = 0
      /\ lease.epoch = 1 /\ lease.owner = 1 /\ lease.token = 1 /\ lease.high = 0
      /\ lease.inflight = 0 /\ ~lease.ok
  BY <1>1, <1>2, <1>3, <1>4 DEF ClientHas, LinkHas, SlotHas, SnapshotHas, LeaseHas
<1>6. Typed
  <2>1. /\ <<>> \in Seq(Surfaces \cup {ControlPlane}) /\ <<>> \in Seq(Frames)
        /\ <<>> \in Seq(Answers) /\ <<>> \in Seq(Writes) /\ <<>> \in Seq(Item)
    OBVIOUS
  <2>2. 0 <= MaxInputs /\ 1 \in Nat /\ 0 \in Nat  BY Bounds
  <2>3. "none" \in Fates  BY DEF Fates
  <2>4. toHolder \in [Links -> Seq(Frames)] /\ fate \in [Inputs -> Fates]
    BY <1>4, <2>1, <2>3
  <2> QED  BY <1>1, <1>2, <1>3, <1>4, <2>1, <2>2, <2>4 DEF Typed, ClientHas, LinkHas, SlotHas, LeaseHas
<1>7. /\ \A K : Told(K) = {}
      /\ \A c \in Links : Len(toHolder[c]) = 0 /\ InputsOf(c) = {} /\ \A K : AtOf(c, K) = {}
  <2>1. \A c \in Links : Len(toHolder[c]) = 0  BY <1>4
  <2>2. 1..0 = {}  OBVIOUS
  <2> QED  BY <1>4, <2>1, <2>2 DEF Told, InputsOf, AtOf
<1>8. /\ Asking = {} /\ Giving = {} /\ Owned = {} /\ Waiting = {} /\ Done = {} /\ Pending = {0}
      /\ Attached /\ ~Recovering /\ Open
  <2>1. Waiting = {}  BY <1>5, EmptyQueue DEF Waiting
  <2>2. Done = {}
    <3>1. ItemsOf(written) = {}  BY <1>4, EmptyQueue
    <3>2. {writer[k].item : k \in 1..Len(writer)} = {}  BY <1>4
    <3> QED  BY <3>1, <3>2 DEF Done
  <2>3. Pending = {0}  BY <1>5 DEF Pending
  <2>4. Owned = {}  BY <1>0, <1>5, <1>7 DEF Owned
  <2>5. Asking = {} /\ Giving = {}  BY <1>0, <1>5, <1>7 DEF Asking, Giving
  <2> QED  BY <1>5, <2>1, <2>2, <2>3, <2>4, <2>5 DEF Attached, Recovering, Open
<1>9. Staged  BY <1>5, <1>8 DEF Staged
<1>10. Questions  BY <1>7, <1>8 DEF Questions, Single
<1>11. Epochs  BY <1>4, <1>5 DEF Epochs
<1>12. InOrder
  <2>1. Increasing(slot.queue) /\ Increasing(link.queue)  BY <1>5, EmptyQueue
  <2>2. WrittenInOrder  BY <1>4 DEF WrittenInOrder
  <2>3. BeforeWaiting(0)  BY <1>4, <1>8 DEF BeforeWaiting
  <2> QED  BY <1>4, <1>5, <1>7, <1>8, <2>1, <2>2, <2>3 DEF InOrder
<1>13. Numbered  BY <1>0, <1>5, <1>7, <1>8 DEF Numbered
<1>14. Fitting
  <2>1. Reached = 0  BY <1>5 DEF Reached
  <2> QED  BY <1>5, <1>8, <2>1 DEF Fitting, Fits
<1>15. Remembers /\ Receipted /\ Telling
  BY <1>5, <1>7 DEF Remembers, Receipted, Telling
<1>16. Settled  BY <1>4 DEF Settled
<1> QED  BY <1>6, <1>9, <1>10, <1>11, <1>12, <1>13, <1>14, <1>15, <1>16 DEF IInv

(* The holder's steps send no input. *)
LEMMA HolderSendsNone ==
  ASSUME IInv, IInv', \/ \E c \in Links : HolderReads(c)
                      \/ WriteCompletes \/ LeaseExpires \/ OtherTakes \/ OtherLeaves
  PROVE  NotSent
<1>1. Typed /\ Typed' /\ 0 \in {0, 1} /\ 1 \in {0, 1}  BY DEF IInv
<1>2. ASSUME NEW c \in Links, HolderReads(c) PROVE NotSent
  <2>1. Fewer(c, 1)
    BY <1>1, <1>2, HolderReadsIs
       DEF GrantStep, ResumeStep, AnswerStep, ReleaseStep, PassStep, InputRead, WriteStep,
           RefuseStep, RepeatStep, Reading
  <2> QED  BY <1>1, <2>1, FewerSends DEF NotSent
<1>3. CASE WriteCompletes \/ LeaseExpires \/ OtherTakes \/ OtherLeaves
  <2>1. toHolder' = toHolder
    BY <1>3 DEF WriteCompletes, LeaseExpires, OtherTakes, OtherLeaves
  <2>2. PICK c \in Links : c = client.conn  BY DEF IInv, Typed, Clients
  <2>3. Fewer(c, 0)  BY <1>1, <2>1, FewerNone
  <2> QED  BY <1>1, <2>3, FewerSends DEF NotSent
<1> QED  BY <1>2, <1>3

LEMMA StillSame ==
  ASSUME IInv, UNCHANGED vars
  PROVE  IInv'
<1>1. UNCHANGED <<made, hidden, client, link, slot, lease, allocated, tokens, toHolder,
                  toClient, ended, writer, written, fate, touched, faults>>
  BY DEF vars
<1>2. /\ \A c, K : AtOf(c, K)' = AtOf(c, K)
      /\ \A K : Told(K)' = Told(K)
      /\ \A c : InputsOf(c)' = InputsOf(c)
      /\ Recovering' = Recovering /\ Attached' = Attached /\ Open' = Open /\ AtRest' = AtRest
  BY <1>1 DEF AtOf, Told, InputsOf, Recovering, Attached, Open, AtRest
<1>3. /\ Waiting' = Waiting /\ Done' = Done /\ Pending' = Pending /\ Owned' = Owned
      /\ Reached' = Reached /\ Asking' = Asking /\ Giving' = Giving /\ Mine' = Mine
      /\ Latest' = Latest
  BY <1>1, <1>2 DEF Waiting, Done, Pending, Owned, Reached, Asking, Giving, Mine, Latest, ItemsOf
<1>4. Typed' /\ Staged'  BY <1>1, <1>2 DEF IInv, Typed, Staged
<1>5. Questions'  BY <1>1, <1>2, <1>3 DEF IInv, Questions, Single, Question, Reaction
<1>6. Epochs' /\ InOrder'
  BY <1>1, <1>2, <1>3 DEF IInv, Epochs, InOrder, BeforeWaiting, Increasing, WrittenInOrder
<1>7. Numbered' /\ Fitting'
  BY <1>1, <1>2, <1>3 DEF IInv, Numbered, Fitting, Fits, Fresh
<1>8. Remembers' /\ Receipted' /\ Telling'
  BY <1>1, <1>2, <1>3 DEF IInv, Remembers, Receipted, Telling, ItemsOf
<1>9. Settled'  BY <1>1, <1>3 DEF IInv, Settled, ItemsOf, OnWire
<1> QED  BY <1>4, <1>5, <1>6, <1>7, <1>8, <1>9 DEF IInv

(* Every step keeps the invariant and sends nothing that was dropped. *)
LEMMA StepKeeps ==
  ASSUME IInv, Next
  PROVE  IInv' /\ NotSent
<1>1. CASE \/ \E c \in Links : HolderReads(c)
           \/ WriteCompletes \/ LeaseExpires \/ OtherTakes \/ OtherLeaves
  BY <1>1, HolderKeeps, HolderSendsNone
<1>2. CASE TransportDrops \/ KeepaliveRefused \/ ProtocolError
  BY <1>2, LosesKept
<1>3. CASE \E s \in Surfaces : BrowserInput(s) \/ Hide(s)
  BY <1>3, BrowserKept, HideKept
<1>4. CASE Prompt \/ RetainedExpires \/ QueuedExpires
  BY <1>4, PromptKept, RetainedKept, QueuedKept
<1>5. CASE ReceiptArrives \/ Resumed \/ ResumeBusy \/ ResumeRefused \/ AttachAnswered
  BY <1>5, ReceiptReadKept, ResumedKept, BusyKept, RefusedKept, AttachedKept
<1>6. CASE LeaseAcquired \/ ResetReleased \/ ResetAcquired
  BY <1>6, AcquiredKept, ReleasedKept, ReplacedKept
<1>7. CASE Attempt \/ Accept \/ AcquireLease
  BY <1>7, AttemptKept, AcceptKept, AcquireKept
<1> QED  BY <1>1, <1>2, <1>3, <1>4, <1>5, <1>6, <1>7 DEF Next, ClientReads

(* The invariant of the link, the holder and what is between them. *)
LEMMA Invariance == Spec => []IInv
<1>1. IInv /\ [Next]_vars => IInv'  BY StepKeeps, StillSame
<1> QED  BY InitIInv, <1>1, PTL DEF Spec

LEMMA TypeStep ==
  ASSUME IInv
  PROVE  TypeOK
<1>1. /\ client.pending \in Item /\ link.retained \in Item /\ slot.lease.pending \in Item
      /\ lease.inflight \in Item /\ Item \subseteq Nat /\ Len(made) \in Nat
      /\ link.reset \in Resets /\ client.phase \in Phases /\ client.conn \in Links
      /\ slot.stage \in Stages /\ slot.observer \in BOOLEAN
      /\ lease.owner \in 0..Other /\ lease.token \in Nat /\ tokens \in Nat
  BY Bounds, Elements DEF IInv, Typed, Clients, LinkStates, Slots, Snapshots, Leases
<1>2. client.pending <= Len(made) /\ slot.lease.pending <= Len(made)
  BY DEF IInv, InOrder, Pending, BeforeWaiting
<1>3. link.retained <= Len(made)  BY DEF IInv, InOrder
<1>4. \A d \in Done : d \in 1..Len(made)
  <2>1. \A d \in Done : d \in Nat  BY OwnedTypes DEF IInv
  <2>2. \A d \in Done : d # 0 /\ d <= Len(made)  BY DEF IInv, InOrder, BeforeWaiting
  <2>3. \A d \in Nat : d # 0 /\ d <= Len(made) => d \in 1..Len(made)  BY <1>1
  <2> QED  BY <2>1, <2>2, <2>3
<1>5. lease.inflight \in 0..Len(made)
  <2>1. lease.inflight # 0 => lease.inflight \in Done  BY DEF IInv, Remembers, Done
  <2> QED  BY <1>1, <1>4, <2>1
<1>6. \A k \in 1..Len(written) : written[k] \in 1..Len(made)
  BY <1>4 DEF Done, ItemsOf
<1>7. lease.epoch \in 0..allocated /\ lease.token \in 0..tokens
  BY <1>1 DEF IInv, Epochs
<1>8. \A x \in Item : x <= Len(made) => x \in 0..Len(made)  BY <1>1
<1>9. /\ client.pending \in 0..Len(made) /\ slot.lease.pending \in 0..Len(made)
      /\ link.retained \in 0..Len(made)
  BY <1>1, <1>2, <1>3, <1>8
<1>10. /\ made \in Seq(Surfaces \cup {ControlPlane}) /\ Len(made) <= MaxInputs
       /\ hidden \subseteq Surfaces /\ ended \subseteq Links /\ fate \in [Inputs -> Fates]
  BY DEF IInv, Typed
<1> QED  BY <1>1, <1>5, <1>6, <1>7, <1>9, <1>10 DEF TypeOK, Resets, Phases, Stages, Fates

(* TypeOK: the state of link, slot, lease and wire is what their types say. *)
THEOREM TypeCorrect == Spec => []TypeOK
BY TypeStep, Invariance, PTL

(* WrittenInOrder: the terminal gets each input at most once and in the     *)
(* order of arrival, over any number of lost links, lost receipts, lost     *)
(* leases and requests sent again (retryPendingInput, session.rs input).    *)
THEOREM TerminalInOrder == Spec => []WrittenInOrder
<1>1. IInv => WrittenInOrder  BY DEF IInv, InOrder
<1> QED  BY <1>1, Invariance, PTL

(* PromptVerdict: a prompt answered "no" has not reached the terminal and is *)
(* nowhere from where it still could; one answered "yes" has reached it      *)
(* (sendPrompt, submitInput).                                                *)
THEOREM PromptsAreTold == Spec => []PromptVerdict
<1>1. IInv => PromptVerdict
  <2> SUFFICES ASSUME IInv, NEW i \in 1..Len(made)
               PROVE  /\ fate[i] = "no" => i \notin ItemsOf(written) /\ ~OnWire(i)
                      /\ fate[i] = "yes" => i \in ItemsOf(written)
    BY DEF PromptVerdict
  <2>1. Len(made) \in Nat /\ Len(made) <= MaxInputs /\ MaxInputs \in Nat
    BY Elements, Bounds DEF IInv, Typed
  <2>2. i \in Inputs  BY <2>1 DEF Inputs
  <2> QED  BY <2>2 DEF IInv, Settled
<1> QED  BY <1>1, Invariance, PTL

(* DropsAreFinal: an input reported as dropped is not sent by any later     *)
(* step (sendInputUnavailable, flushQueue).                                 *)
THEOREM DropsStay == Spec => DropsAreFinal
<1> DEFINE Final == \A i \in Inputs : fate[i] = "dropped" => ~Sends(i)
<1>1. IInv /\ [Next]_vars => [Final]_vars  BY StepKeeps DEF NotSent
<1> QED  BY <1>1, Invariance, PTL DEF Spec, DropsAreFinal
=============================================================================
